---------------------------- MODULE ReportsProofs ----------------------------
(***************************************************************************)
(* Theorems about what is kept of the monitored site: the scoreboard's     *)
(* snapshots, for any number of runs and weeks; the ledger of deploys, for *)
(* any number of releases and of failed calls; and the DORA journal, for   *)
(* any number of lines and of appends cut short.                           *)
(***************************************************************************)
EXTENDS Scoreboard, DeployLedger, DoraJournal, FiniteSetTheorems, SequenceTheorems,
        WellFoundedInduction, TLAPS

-----------------------------------------------------------------------------
(* The scoreboard.                                                         *)

SnapshotTypes ==
    /\ week \in Weeks
    /\ DOMAIN at = Snapshots
    /\ named \in [Snapshots -> Weeks]
    /\ DOMAIN file = Weeks /\ DOMAIN index = Weeks /\ DOMAIN HEAD = Weeks

\* Two runs that write one week's file at a time have clashed over it.
ClashesAreKnown ==
    \A r, s \in Snapshots :
        r # s /\ Writing(r) /\ Writing(s) /\ named[r] = named[s] => named[r] \in clashed

\* What the file and the index of its week hold for a run that did not clash.
HasItsFile(r) ==
    Writing(r) /\ named[r] \notin clashed =>
        /\ at[r] = "write" => file[named[r]] = "empty"
        /\ at[r] # "write" => file[named[r]] = r
        /\ at[r] \in {"diff", "commit"} => index[named[r]] = r

SnapshotInv ==
    /\ SnapshotTypes
    /\ ClashesAreKnown
    /\ \A r \in Snapshots : HasItsFile(r)
    /\ OutageDestroysNothing

LEMMA SnapshotTypesStep ==
    ASSUME SnapshotTypes, NEW r \in Snapshots, SnapshotStep(r)
    PROVE  SnapshotTypes'
<1>1. CASE StartSnapshot(r) \/ Gather(r) \/ Diff(r)
  BY <1>1 DEF SnapshotTypes, StartSnapshot, Gather, Diff, Step
<1>2. CASE Open(r) \/ Write(r) \/ Die(r)
  BY <1>2 DEF SnapshotTypes, Open, Write, Die, Step
<1>3. CASE Add(r) \/ Commit(r)
  BY <1>3 DEF SnapshotTypes, Add, Commit, Step
<1>4. QED
  BY <1>1, <1>2, <1>3 DEF SnapshotStep

\* What a step of one run does to the others' files.
LEMMA SnapshotStepOf ==
    ASSUME SnapshotTypes, NEW r \in Snapshots, SnapshotStep(r)
    PROVE  /\ \A s \in Snapshots \ {r} : at'[s] = at[s] /\ named'[s] = named[s]
           /\ \A w \in Weeks \ {named[r]} :
                  file'[w] = file[w] /\ index'[w] = index[w] /\ HEAD'[w] = HEAD[w]
           /\ file' # file => at[r] = "open" \/ at[r] = "write"
           /\ index' # index => Writing(r)
           /\ clashed \subseteq clashed' /\ cutShort \subseteq cutShort'
<1>1. CASE StartSnapshot(r) \/ Gather(r) \/ Diff(r)
  BY <1>1 DEF SnapshotTypes, StartSnapshot, Gather, Diff, Step
<1>2. CASE Open(r)
  BY <1>2 DEF SnapshotTypes, Open, Step
<1>3. CASE Write(r) \/ Die(r)
  BY <1>3 DEF SnapshotTypes, Write, Die, Step
<1>4. CASE Add(r) \/ Commit(r)
  BY <1>4 DEF SnapshotTypes, Add, Commit, Step, Writing
<1>5. QED
  BY <1>1, <1>2, <1>3, <1>4 DEF SnapshotStep
LEMMA ClashesStep ==
    ASSUME SnapshotTypes, ClashesAreKnown, NEW r \in Snapshots, SnapshotStep(r)
    PROVE  ClashesAreKnown'
<1>1. \A s \in Snapshots \ {r} : at'[s] = at[s] /\ named'[s] = named[s]
  BY SnapshotStepOf
<1>2. clashed \subseteq clashed'
  BY SnapshotStepOf
<1>3. CASE Open(r)
  <2>1. /\ named' = named
        /\ \A s \in Snapshots \ {r} : Writing(s) /\ named[s] = named[r] => named[r] \in clashed'
    BY <1>3 DEF Open
  <2>2. QED
    BY <1>1, <1>2, <2>1 DEF ClashesAreKnown, Writing
<1>4. CASE ~Open(r)
  <2>1. at'[r] \in {"write", "add", "diff", "commit"} => Writing(r) /\ named' = named
    BY <1>4 DEF SnapshotStep, StartSnapshot, Gather, Write, Add, Diff, Commit, Die, Step, Writing,
                SnapshotTypes
  <2>2. QED
    BY <1>1, <1>2, <2>1 DEF ClashesAreKnown, Writing
<1>5. QED
  BY <1>3, <1>4

\* What a run leaves in the week's file and in the index, for itself.
LEMMA OwnFileStep ==
    ASSUME SnapshotInv, NEW r \in Snapshots, SnapshotStep(r)
    PROVE  HasItsFile(r)'
<1>0. SnapshotTypes /\ HasItsFile(r)
  BY DEF SnapshotInv
<1> DEFINE w == named[r]
<1>1. CASE Open(r)
  <2>1. at'[r] = "write" /\ file'[w] = "empty" /\ named' = named
    BY <1>0, <1>1 DEF Open, Step, SnapshotTypes
  <2>2. QED
    BY <2>1 DEF HasItsFile
<1>2. CASE Write(r)
  <2>1. /\ at[r] = "write" /\ at'[r] = "add" /\ UNCHANGED <<named, clashed>>
        /\ file'[w] = r \/ file[w] # "empty"
    BY <1>0, <1>2 DEF Write, Step, SnapshotTypes
  <2>2. w \notin clashed => file'[w] = r
    BY <1>0, <2>1 DEF HasItsFile, Writing
  <2>3. QED
    BY <2>1, <2>2 DEF HasItsFile
<1>3. CASE Add(r)
  <2>1. /\ at[r] = "add" /\ at'[r] = "diff" /\ UNCHANGED <<named, clashed, file>>
        /\ index'[w] = file[w]
    BY <1>0, <1>3 DEF Add, Step, SnapshotTypes
  <2>2. QED
    BY <1>0, <2>1 DEF HasItsFile, Writing
<1>4. CASE Diff(r)
  <2>1. /\ at[r] = "diff" /\ at'[r] \in {"commit", "already"}
        /\ UNCHANGED <<named, clashed, file, index>>
    BY <1>0, <1>4 DEF Diff, Step, SnapshotTypes
  <2>2. QED
    BY <1>0, <2>1 DEF HasItsFile, Writing
<1>5. CASE StartSnapshot(r) \/ Gather(r) \/ Commit(r) \/ Die(r)
  <2>1. at'[r] \in {"gather", "open", "failed", "committed"}
    BY <1>0, <1>5 DEF StartSnapshot, Gather, Commit, Die, Step, SnapshotTypes
  <2>2. QED
    BY <2>1 DEF HasItsFile, Writing
<1>6. QED
  BY <1>1, <1>2, <1>3, <1>4, <1>5 DEF SnapshotStep

\* What it leaves for a run it has not clashed with.
LEMMA OthersFileStep ==
    ASSUME SnapshotInv, NEW r \in Snapshots, SnapshotStep(r), NEW s \in Snapshots, s # r
    PROVE  HasItsFile(s)'
<1>0. SnapshotTypes /\ HasItsFile(s) /\ ClashesAreKnown /\ ClashesAreKnown'
  BY ClashesStep DEF SnapshotInv
<1>1. /\ at'[s] = at[s] /\ named'[s] = named[s] /\ named[s] \in Weeks
      /\ clashed \subseteq clashed'
      /\ named[s] # named[r] => file'[named[s]] = file[named[s]] /\ index'[named[s]] = index[named[s]]
  BY <1>0, SnapshotStepOf DEF SnapshotTypes
<1>2. CASE named[s] # named[r]
  BY <1>0, <1>1, <1>2 DEF HasItsFile, Writing
<1>3. CASE named[s] = named[r] /\ Writing(r)
  BY <1>0, <1>1, <1>3 DEF HasItsFile, Writing, ClashesAreKnown
<1>4. CASE named[s] = named[r] /\ Open(r)
  <2>1. at'[r] = "write" /\ named'[r] = named[r]
    BY <1>0, <1>4 DEF Open, Step, SnapshotTypes
  <2>2. QED
    BY <1>0, <1>1, <1>4, <2>1 DEF HasItsFile, Writing, ClashesAreKnown
<1>5. CASE ~Writing(r) /\ ~Open(r)
  <2>1. at[r] # "open" \/ file' = file
    BY <1>5 DEF SnapshotStep, StartSnapshot, Gather, Write, Add, Diff, Commit, Die, Step, Writing
  <2>2. file' = file /\ index' = index
    BY <1>0, <1>5, <2>1, SnapshotStepOf DEF Writing
  <2>3. QED
    BY <1>0, <1>1, <2>2 DEF HasItsFile, Writing
<1>6. QED
  BY <1>2, <1>3, <1>4, <1>5

LEMMA OutageStep ==
    ASSUME SnapshotInv, NEW r \in Snapshots, SnapshotStep(r)
    PROVE  OutageDestroysNothing'
<1>0. SnapshotTypes /\ HasItsFile(r) /\ OutageDestroysNothing /\ HasItsFile(r)'
  BY OwnFileStep DEF SnapshotInv
<1> SUFFICES ASSUME NEW w \in Weeks, w \notin clashed', w \notin cutShort', file'[w] \in Broken
             PROVE  \E s \in Snapshots : at'[s] = "write" /\ named'[s] = w
  BY DEF OutageDestroysNothing
<1>1. /\ \A s \in Snapshots \ {r} : at'[s] = at[s] /\ named'[s] = named[s]
      /\ w # named[r] => file'[w] = file[w]
      /\ file' # file => at[r] = "open" \/ at[r] = "write"
      /\ w \notin clashed /\ w \notin cutShort
  BY <1>0, SnapshotStepOf
<1>2. ASSUME file'[w] = file[w], at[r] # "write" \/ named[r] # w
      PROVE  \E s \in Snapshots : at'[s] = "write" /\ named'[s] = w
  <2>1. PICK s \in Snapshots : at[s] = "write" /\ named[s] = w
    BY <1>0, <1>1, <1>2 DEF OutageDestroysNothing
  <2>2. QED
    BY <1>1, <1>2, <2>1
<1>3. CASE Open(r)
  <2>1. at[r] = "open" /\ at'[r] = "write" /\ named'[r] = named[r]
    BY <1>0, <1>3 DEF Open, Step, SnapshotTypes
  <2>2. QED
    BY <1>1, <1>2, <2>1
<1>4. CASE Write(r)
  <2>1. named[r] = w => file'[w] = r
    BY <1>0, <1>1, <1>4 DEF Write, Step, SnapshotTypes, HasItsFile, Writing
  <2>2. named[r] # w
    BY <2>1, ContentAssumption
  <2>3. QED
    BY <1>1, <1>2, <2>2
<1>5. CASE Die(r)
  <2>1. CASE at[r] = "write"
    <3>1. named[r] # w
      BY <1>5, <2>1 DEF Die
    <3>2. QED
      BY <1>1, <1>2, <3>1
  <2>2. CASE at[r] # "write"
    BY <1>2, <1>5, <2>2 DEF Die
  <2>3. QED
    BY <2>1, <2>2
<1>6. CASE StartSnapshot(r) \/ Gather(r) \/ Add(r) \/ Diff(r) \/ Commit(r)
  <2>1. at[r] # "write" /\ file' = file
    BY <1>6 DEF StartSnapshot, Gather, Add, Diff, Commit, Step
  <2>2. QED
    BY <1>2, <2>1
<1>7. QED
  BY <1>3, <1>4, <1>5, <1>6 DEF SnapshotStep

LEMMA SnapshotInvStep ==
    ASSUME SnapshotInv, [ScoreboardNext]_svars
    PROVE  SnapshotInv'
<1>1. CASE UNCHANGED <<at, named, file, index, HEAD, clashed, cutShort>> /\ week' \in Weeks
  BY <1>1 DEF SnapshotInv, SnapshotTypes, ClashesAreKnown, HasItsFile, Writing, OutageDestroysNothing
<1>2. CASE NextWeek \/ UNCHANGED svars
  <2>1. week' \in Weeks
    BY <1>2, ScoreboardAssumption DEF NextWeek, svars, SnapshotInv, SnapshotTypes, Weeks
  <2>2. QED
    BY <1>1, <1>2, <2>1 DEF NextWeek, svars
<1>3. ASSUME NEW r \in Snapshots, SnapshotStep(r)
      PROVE  SnapshotInv'
  <2>1. SnapshotTypes' /\ ClashesAreKnown' /\ OutageDestroysNothing'
    BY <1>3, SnapshotTypesStep, ClashesStep, OutageStep DEF SnapshotInv
  <2>2. \A s \in Snapshots : HasItsFile(s)'
    BY <1>3, OwnFileStep, OthersFileStep
  <2>3. QED
    BY <2>1, <2>2 DEF SnapshotInv
<1>4. QED
  BY <1>2, <1>3 DEF ScoreboardNext

LEMMA SnapshotInvariant == ScoreboardSpec => []SnapshotInv
<1>1. ScoreboardInit => SnapshotInv
  <2> SUFFICES ASSUME ScoreboardInit PROVE SnapshotInv
    OBVIOUS
  <2>1. 0 \in Weeks
    BY ScoreboardAssumption DEF Weeks
  <2>2. SnapshotTypes
    BY <2>1 DEF ScoreboardInit, SnapshotTypes
  <2>3. NoFile \notin Broken
    BY ContentAssumption
  <2>4. QED
    BY <2>2, <2>3 DEF ScoreboardInit, SnapshotInv, ClashesAreKnown, HasItsFile, Writing,
                      OutageDestroysNothing
<1>2. SnapshotInv /\ [ScoreboardNext]_svars => SnapshotInv'
  BY SnapshotInvStep
<1>3. QED
  BY <1>1, <1>2, PTL DEF ScoreboardSpec

\* A file is broken only while a run is writing it, after a kill in the middle
\* of that, or after a clash (scoreboard.py:181), for any number of runs.
THEOREM FilesSurviveOutages == ScoreboardSpec => []OutageDestroysNothing
<1>1. SnapshotInv => OutageDestroysNothing
  BY DEF SnapshotInv
<1>2. QED
  BY <1>1, SnapshotInvariant, PTL

\* A run that says it committed its snapshot, or that its snapshot was committed
\* already, has it committed, all of it, unless another run wrote the week's
\* file at the same time (scoreboard.py:223-225).
THEOREM ReportsAreTrue == ScoreboardSpec => ReportIsTrue
<1>1. ASSUME SnapshotInv, [ScoreboardNext]_svars, NEW r \in Snapshots,
             at[r] # at'[r], at'[r] \in {"committed", "already"}, named[r] \notin clashed
      PROVE  HEAD'[named[r]] = r
  <2>0. SnapshotTypes /\ HasItsFile(r)
    BY <1>1 DEF SnapshotInv
  <2>1. SnapshotStep(r)
    <3>1. CASE NextWeek \/ UNCHANGED svars
      BY <1>1, <3>1 DEF NextWeek, svars
    <3>2. ASSUME NEW s \in Snapshots, SnapshotStep(s)
          PROVE  SnapshotStep(r)
      <4>1. s = r
        BY <1>1, <2>0, <3>2, SnapshotStepOf
      <4>2. QED
        BY <3>2, <4>1
    <3>3. QED
      BY <1>1, <3>1, <3>2 DEF ScoreboardNext
  <2>2. CASE Diff(r)
    <3>1. at[r] = "diff" /\ index[named[r]] = HEAD[named[r]] /\ HEAD' = HEAD
      BY <1>1, <2>0, <2>2 DEF Diff, Step, SnapshotTypes
    <3>2. QED
      BY <1>1, <2>0, <3>1 DEF HasItsFile, Writing
  <2>3. CASE Commit(r)
    <3>1. at[r] = "commit" /\ HEAD'[named[r]] = file[named[r]]
      BY <1>1, <2>0, <2>3 DEF Commit, Step, SnapshotTypes
    <3>2. QED
      BY <1>1, <2>0, <3>1 DEF HasItsFile, Writing
  <2>4. CASE StartSnapshot(r) \/ Gather(r) \/ Open(r) \/ Write(r) \/ Add(r) \/ Die(r)
    BY <1>1, <2>0, <2>4 DEF StartSnapshot, Gather, Open, Write, Add, Die, Step, SnapshotTypes
  <2>5. QED
    BY <2>1, <2>2, <2>3, <2>4 DEF SnapshotStep
<1>2. SnapshotInv /\ [ScoreboardNext]_svars
          => [\A r \in Snapshots :
                 at[r] # at'[r] /\ at'[r] \in {"committed", "already"} /\ named[r] \notin clashed
                     => HEAD'[named[r]] = r]_svars
  BY <1>1
<1>3. QED
  BY <1>2, SnapshotInvariant, PTL DEF ScoreboardSpec, ReportIsTrue
-----------------------------------------------------------------------------
(* Numbers have a least one.                                               *)

LEMMA LeastNatural ==
    ASSUME NEW S \in SUBSET Nat, S # {}
    PROVE  \E n \in S : \A m \in S : n =< m
<1> DEFINE Less == {p \in Nat \X Nat : p[1] < p[2]}
<1>1. IsWellFoundedOn(Less, Nat)
  BY NatLessThanWellFounded DEF OpToRel
<1>2. PICK n \in S : \A m \in S : ~(<<m, n>> \in Less)
  <2> HIDE DEF Less
  <2>1. QED
    BY <1>1, WFMin
<1>3. ASSUME NEW m \in S PROVE n =< m
  <2>1. m \in Nat /\ n \in Nat /\ <<m, n>> \in Nat \X Nat
    OBVIOUS
  <2>2. ~(m < n)
    BY <1>2, <2>1
  <2>3. QED
    BY <2>1, <2>2
<1>4. QED
  BY <1>3

LEMMA MinIsLeast ==
    ASSUME NEW S \in SUBSET Nat, S # {}
    PROVE  Min(S) \in S /\ \A m \in S : Min(S) =< m
BY LeastNatural DEF Min

LEMMA MaxOfAnInterval ==
    ASSUME NEW n \in Nat, NEW S \in SUBSET (1..n), S # {}
    PROVE  Max(S) \in S
<1> DEFINE fromTheEnd == {n - i : i \in S}
<1>1. fromTheEnd \in SUBSET Nat /\ fromTheEnd # {}
  <2>1. \A i \in S : n - i \in Nat
    OBVIOUS
  <2>2. fromTheEnd # {}
    OBVIOUS
  <2>3. QED
    BY <2>1, <2>2
<1>2. PICK k \in fromTheEnd : \A m \in fromTheEnd : k =< m
  BY <1>1, LeastNatural
<1>3. PICK i \in S : k = n - i
  BY <1>2
<1>4. ASSUME NEW j \in S PROVE i >= j
  <2>1. n - j \in fromTheEnd
    OBVIOUS
  <2>2. n - i =< n - j
    BY <1>2, <1>3, <2>1
  <2>3. QED
    BY <2>2
<1>5. QED
  BY <1>4 DEF Max

-----------------------------------------------------------------------------
(* The ledger and its deploys.                                             *)

LedgerRecords == [event : {"deploy.started"} \cup Ends, at : Nat]

Deploys == [release : Releases, started : Nat, ended : Nat, outcome : Ends]

Annotations == [release : Releases, started : Nat, ended : Nat, outcome : Ends, normal : Int]

JournalLines == [release : Releases, at : Nat, success : BOOLEAN]

\* No record of the ledger is from the future.
LedgerTypes ==
    /\ now \in Nat
    /\ samples \in Seq(Durations) /\ Len(samples) = now + 1
    /\ ledger \in [Releases -> Seq(LedgerRecords)]
    /\ \A rel \in Releases : \A i \in DOMAIN ledger[rel] : ledger[rel][i].at =< now

LEMMA DeployIsTyped ==
    ASSUME LedgerTypes, NEW rel \in Releases, HasEnd(rel)
    PROVE  /\ Deploy(rel) \in Deploys
           /\ Deploy(rel).release = rel
           /\ Deploy(rel).started =< now /\ Deploy(rel).ended =< now
<1> DEFINE records == ledger[rel]
           I == {i \in 1..Len(records) : records[i].event \in Ends}
           end == SelectLastInSeq(records, LAMBDA rec : rec.event \in Ends)
<1>1. /\ records \in Seq(LedgerRecords) /\ Len(records) \in Nat
      /\ DOMAIN records = 1..Len(records)
      /\ \A i \in 1..Len(records) : records[i] \in LedgerRecords /\ records[i].at =< now
  BY LenProperties DEF LedgerTypes
<1>2. I # {}
  BY <1>1 DEF HasEnd
<1>3. end = Max(I)
  BY <1>2 DEF SelectLastInSeq
<1>4. end \in I
  BY <1>1, <1>2, <1>3, MaxOfAnInterval
<1>5. 1 \in 1..Len(records) /\ end \in 1..Len(records) /\ records[end].event \in Ends
  BY <1>1, <1>4
<1>6. Deploy(rel) = [release |-> rel, started |-> records[1].at,
                     ended |-> records[end].at, outcome |-> records[end].event]
  BY DEF Deploy
<1> HIDE DEF records, end, I
<1>7. /\ records[1].at \in Nat /\ records[1].at =< now
      /\ records[end].at \in Nat /\ records[end].at =< now
  BY <1>1, <1>5 DEF LedgerRecords
<1>8. QED
  BY <1>5, <1>6, <1>7 DEF Deploys

\* What a job reads, and what it finds there: a deploy for each release at most.
LEMMA WhatIsRead ==
    ASSUME LedgerTypes
    PROVE  /\ ReadLedger \in SUBSET Deploys
           /\ \A d, e \in ReadLedger : d.release = e.release => d = e
           /\ \A d \in ReadLedger : d.started =< now /\ d.ended =< now
<1>1. \A rel \in {x \in Releases : HasEnd(x)} :
          /\ Deploy(rel) \in Deploys /\ Deploy(rel).release = rel
          /\ Deploy(rel).started =< now /\ Deploy(rel).ended =< now
  BY DeployIsTyped
<1>2. QED
  BY <1>1 DEF ReadLedger

LEMMA OldestIsThere ==
    ASSUME NEW S \in SUBSET Deploys, S # {}
    PROVE  Oldest(S) \in S
<1>1. \A d \in S : d.started \in Nat /\ d.release \in Nat
  BY DeployAssumption DEF Deploys, Releases
<1> DEFINE starts == {d.started : d \in S}
<1>2. PICK n \in starts : \A m \in starts : n =< m
  <2>1. starts \in SUBSET Nat /\ starts # {}
    BY <1>1
  <2>2. QED
    BY <2>1, LeastNatural
<1> DEFINE first == {d \in S : d.started = n}
           releases == {d.release : d \in first}
<1>3. PICK k \in releases : \A m \in releases : k =< m
  <2>1. releases \in SUBSET Nat /\ releases # {}
    BY <1>1, <1>2
  <2>2. QED
    BY <2>1, LeastNatural
<1>4. PICK d \in first : k = d.release
  BY <1>3
<1>5. ASSUME NEW e \in S
      PROVE  d.started < e.started \/ (d.started = e.started /\ d.release =< e.release)
  <2>1. d.started = n /\ n =< e.started /\ d.started \in Nat /\ e.started \in Nat
    BY <1>1, <1>2, <1>4
  <2>2. CASE e.started = n
    BY <1>3, <1>4, <2>1, <2>2
  <2>3. CASE e.started # n
    BY <2>1, <2>3
  <2>4. QED
    BY <2>2, <2>3
<1>6. QED
  BY <1>4, <1>5 DEF Oldest
-----------------------------------------------------------------------------
(* What a job does to its own state, and that it leaves the other jobs'    *)
(* alone.                                                                  *)

Phases == {"idle", "ask", "weigh", "post", "append"}

JobTypes ==
    /\ pc \in [Jobs -> Phases]
    /\ queue \in [Jobs -> SUBSET Deploys]
    /\ readAt \in [Jobs -> Nat]
    /\ held \in [Jobs -> SUBSET Releases]
    /\ normal \in [Jobs -> Int]

OthersUntouched(j) ==
    \A i \in Jobs \ {j} :
        /\ pc'[i] = pc[i] /\ queue'[i] = queue[i] /\ readAt'[i] = readAt[i]
        /\ held'[i] = held[i] /\ normal'[i] = normal[i]

\* On to the next deploy, or out of the loop.
MovesOn(j, first) ==
    /\ pc'[j] \in {first, "idle"}
    /\ queue'[j] \subseteq queue[j] \ {Oldest(queue[j])}
    /\ pc'[j] # "idle" => queue'[j] # {} /\ readAt'[j] = readAt[j] /\ held'[j] = held[j]
    /\ pc'[j] = "idle" => readAt'[j] = 0 /\ held'[j] = {}
    /\ normal'[j] = NotYet

\* To the next step with the deploy at hand.
StaysOn(j, p) ==
    /\ pc'[j] = p
    /\ queue'[j] = queue[j] /\ readAt'[j] = readAt[j] /\ held'[j] = held[j]

\* The job reads the ledger.
Begins(j, first) ==
    /\ queue'[j] = ReadLedger
    /\ pc'[j] = IF ReadLedger = {} THEN "idle" ELSE first
    /\ readAt'[j] \in {readAt[j], 0, now}
    /\ normal'[j] = normal[j]

LEMMA StopMovesOn ==
    ASSUME JobTypes, NEW j \in Jobs, NEW first, Stop(j)
    PROVE  JobTypes' /\ MovesOn(j, first) /\ OthersUntouched(j)
<1>1. JobTypes'
  BY DEF Stop, JobTypes, Phases, NotYet
<1>2. MovesOn(j, first)
  BY DEF Stop, JobTypes, MovesOn
<1>3. OthersUntouched(j)
  BY DEF Stop, JobTypes, OthersUntouched
<1>4. QED
  BY <1>1, <1>2, <1>3

LEMMA ContinueMovesOn ==
    ASSUME JobTypes, NEW j \in Jobs, NEW first \in Phases \ {"idle"}, Continue(j, first)
    PROVE  JobTypes' /\ MovesOn(j, first) /\ OthersUntouched(j)
<1> DEFINE left == queue[j] \ {Oldest(queue[j])}
<1>1. CASE left = {}
  BY <1>1, StopMovesOn DEF Continue
<1>2. CASE left # {}
  <2>1. /\ pc' = [pc EXCEPT ![j] = first]
        /\ queue' = [queue EXCEPT ![j] = left]
        /\ normal' = [normal EXCEPT ![j] = NotYet]
        /\ readAt' = readAt /\ held' = held
    BY <1>2 DEF Continue
  <2>2. left \in SUBSET Deploys
    BY DEF JobTypes
  <2> HIDE DEF left
  <2>3. JobTypes'
    BY <2>1, <2>2 DEF JobTypes, NotYet
  <2>4. pc'[j] = first /\ queue'[j] = left /\ normal'[j] = NotYet
    BY <2>1 DEF JobTypes
  <2>5. MovesOn(j, first)
    BY <1>2, <2>1, <2>4 DEF MovesOn, left
  <2>6. OthersUntouched(j)
    BY <2>1 DEF OthersUntouched, JobTypes
  <2>7. QED
    BY <2>3, <2>5, <2>6
<1>3. QED
  BY <1>1, <1>2

-----------------------------------------------------------------------------
(* What back_to_normal says.                                               *)

LEMMA HoldsInTime ==
    ASSUME NEW d, d.ended \in Nat, NEW upTo \in Nat
    PROVE  Holds(d, upTo) \in SUBSET (d.ended..upTo) /\ Holds(d, upTo) \in SUBSET Nat
<1>1. After(d, upTo) \in SUBSET (d.ended..upTo)
  BY DEF After
<1>2. Holds(d, upTo) \in SUBSET After(d, upTo)
  BY DEF Holds
<1>3. QED
  BY <1>1, <1>2

LEMMA AnswerIsANumber ==
    ASSUME NEW d, d.ended \in Nat, NEW upTo \in Nat
    PROVE  BackToNormal(d, upTo) \in Int
<1>1. CASE Before(d) = {} \/ Holds(d, upTo) = {}
  BY <1>1 DEF BackToNormal, NotYet
<1>2. CASE Before(d) # {} /\ Holds(d, upTo) # {}
  <2>1. Min(Holds(d, upTo)) \in Nat
    BY <1>2, HoldsInTime, MinIsLeast
  <2>2. BackToNormal(d, upTo) = Min(Holds(d, upTo)) - d.ended
    BY <1>2 DEF BackToNormal
  <2>3. QED
    BY <2>1, <2>2
<1>3. QED
  BY <1>1, <1>2

LEMMA EarlierIsATime ==
    ASSUME NEW a \in Nat, NEW b \in Nat
    PROVE  Earlier(a, b) \in Nat /\ Earlier(a, b) =< a /\ Earlier(a, b) =< b
BY DEF Earlier
-----------------------------------------------------------------------------
(* The state of the ledger and of its jobs.                                *)

\* What a job has read is no newer than now, and names a release once.
Fits(j) ==
    /\ pc[j] # "idle" => queue[j] # {}
    /\ pc[j] \in {"ask", "weigh", "post"} => j \in Annotators
    /\ pc[j] = "append" => j \in Journalers
    /\ \A d, e \in queue[j] : d.release = e.release => d = e
    /\ \A d \in queue[j] : d.started =< now /\ d.ended =< now
    /\ readAt[j] =< now

LedgerInv ==
    /\ LedgerTypes
    /\ JobTypes
    /\ annotations \in Seq(Annotations)
    /\ journal \in Seq(JournalLines)
    /\ \A j \in Jobs : Fits(j)

\* The steps of the jobs leave the clock, the samples and the ledger alone.
Outside == <<now, samples, ledger>>

LEMMA AtHand ==
    ASSUME LedgerInv, NEW j \in Jobs, pc[j] # "idle"
    PROVE  /\ Oldest(queue[j]) \in queue[j]
           /\ Oldest(queue[j]) \in Deploys
           /\ Oldest(queue[j]).started =< now /\ Oldest(queue[j]).ended =< now
<1>1. queue[j] \in SUBSET Deploys /\ queue[j] # {}
  BY DEF LedgerInv, JobTypes, Fits
<1>2. Oldest(queue[j]) \in queue[j]
  BY <1>1, OldestIsThere
<1>3. QED
  BY <1>1, <1>2 DEF LedgerInv, Fits

LEMMA BeginJobStep ==
    ASSUME LedgerInv, NEW j \in Jobs, NEW first \in Phases, Begin(j, first),
           JobTypes', OthersUntouched(j), readAt'[j] \in {readAt[j], 0, now}, normal' = normal
    PROVE  Begins(j, first)
BY DEF Begin, Begins, LedgerInv, JobTypes

LEMMA BeginTypes ==
    ASSUME LedgerInv, NEW j \in Jobs, NEW first \in Phases, Begin(j, first)
    PROVE  pc' \in [Jobs -> Phases] /\ queue' \in [Jobs -> SUBSET Deploys]
<1>1. ReadLedger \in SUBSET Deploys
  BY WhatIsRead DEF LedgerInv
<1>2. "idle" \in Phases
  BY DEF Phases
<1>3. QED
  BY <1>1, <1>2 DEF Begin, LedgerInv, JobTypes

LEMMA BeginAnnotateStep ==
    ASSUME LedgerInv, NEW j \in Annotators, BeginAnnotate(j)
    PROVE  /\ JobTypes' /\ OthersUntouched(j) /\ pc[j] = "idle" /\ Begins(j, "ask")
           /\ UNCHANGED <<Outside, annotations, journal>>
<1> DEFINE time == IF ReadLedger = {} THEN 0 ELSE now
<1>1. /\ j \in Jobs /\ Begin(j, "ask") /\ "ask" \in Phases
      /\ readAt' = [readAt EXCEPT ![j] = time]
      /\ held' = held /\ normal' = normal
      /\ UNCHANGED <<Outside, annotations, journal>>
  BY DEF BeginAnnotate, Jobs, Phases, Outside
<1>2. readAt \in [Jobs -> Nat] /\ time \in {0, now} /\ time \in Nat
  BY DEF LedgerInv, LedgerTypes, JobTypes
<1> HIDE DEF time
<1>3. readAt' \in [Jobs -> Nat] /\ readAt'[j] \in {readAt[j], 0, now}
  BY <1>1, <1>2
<1>4. JobTypes'
  BY <1>1, <1>3, BeginTypes DEF JobTypes, LedgerInv
<1>5. OthersUntouched(j)
  BY <1>1, <1>2 DEF Begin, OthersUntouched, LedgerInv, JobTypes
<1>6. QED
  BY <1>1, <1>3, <1>4, <1>5, BeginJobStep DEF Begin

LEMMA BeginJournalStep ==
    ASSUME LedgerInv, NEW j \in Journalers, BeginJournal(j)
    PROVE  /\ JobTypes' /\ OthersUntouched(j) /\ pc[j] = "idle" /\ Begins(j, "append")
           /\ pc'[j] # "idle" => held'[j] = {journal[i].release : i \in DOMAIN journal}
           /\ UNCHANGED <<Outside, annotations, journal>>
<1> DEFINE there == {journal[i].release : i \in DOMAIN journal}
<1>1. /\ j \in Jobs /\ Begin(j, "append") /\ "append" \in Phases
      /\ held' = [held EXCEPT ![j] = IF ReadLedger = {} THEN {} ELSE there]
      /\ readAt' = readAt /\ normal' = normal
      /\ UNCHANGED <<Outside, annotations, journal>>
  BY DEF BeginJournal, Jobs, Phases, Outside
<1>2. there \in SUBSET Releases
  <2>1. \A i \in DOMAIN journal : journal[i].release \in Releases
    <3>1. journal \in Seq(JournalLines)
      BY DEF LedgerInv
    <3>2. \A i \in DOMAIN journal : journal[i] \in JournalLines
      BY <3>1
    <3>3. QED
      BY <3>2 DEF JournalLines
  <2>2. QED
    BY <2>1
<1> HIDE DEF there
<1>3. held' \in [Jobs -> SUBSET Releases]
  BY <1>1, <1>2 DEF LedgerInv, JobTypes
<1>4. JobTypes'
  BY <1>1, <1>3, BeginTypes DEF JobTypes, LedgerInv
<1>5. OthersUntouched(j)
  BY <1>1 DEF Begin, OthersUntouched, LedgerInv, JobTypes
<1>6. Begins(j, "append")
  BY <1>1, <1>4, <1>5, BeginJobStep
<1>7. pc'[j] # "idle" => held'[j] = there
  BY <1>1, <1>6 DEF LedgerInv, JobTypes, Begins
<1>8. QED
  BY <1>1, <1>4, <1>5, <1>6, <1>7 DEF Begin, there
LEMMA AskStep ==
    ASSUME LedgerInv, NEW j \in Annotators, Ask(j)
    PROVE  /\ JobTypes' /\ OthersUntouched(j) /\ pc[j] = "ask"
           /\ \/ MovesOn(j, "ask")
              \/ StaysOn(j, "weigh") /\ ~IsAnnotated(Oldest(queue[j]).release)
           /\ UNCHANGED <<Outside, annotations, journal>>
<1>1. j \in Jobs /\ JobTypes /\ "ask" \in Phases \ {"idle"} /\ "weigh" \in Phases
  BY DEF Jobs, LedgerInv, Phases
<1>2. pc[j] = "ask" /\ UNCHANGED <<Outside, annotations, journal>>
  BY DEF Ask, Outside
<1>3. CASE IsAnnotated(Oldest(queue[j]).release)
  <2>1. Continue(j, "ask")
    BY <1>3 DEF Ask
  <2>2. QED
    BY <1>1, <1>2, <2>1, ContinueMovesOn
<1>4. CASE ~IsAnnotated(Oldest(queue[j]).release)
  <2>1. pc' = [pc EXCEPT ![j] = "weigh"] /\ UNCHANGED <<queue, readAt, held, normal>>
    BY <1>4 DEF Ask
  <2>2. JobTypes' /\ OthersUntouched(j) /\ StaysOn(j, "weigh")
    BY <1>1, <2>1 DEF JobTypes, OthersUntouched, StaysOn
  <2>3. QED
    BY <1>2, <1>4, <2>2
<1>5. QED
  BY <1>3, <1>4

\* Up to when a job weighs a deploy.
Until(j) == Earlier(readAt[j], Oldest(queue[j]).ended + SETTLE)

LEMMA UntilIsATime ==
    ASSUME LedgerInv, NEW j \in Jobs, pc[j] # "idle"
    PROVE  /\ Until(j) \in Nat /\ Until(j) =< now
           /\ BackToNormal(Oldest(queue[j]), Until(j)) \in Int
<1> DEFINE d == Oldest(queue[j])
           r == readAt[j]
           s == d.ended + SETTLE
<1>1. d.ended \in Nat
  BY AtHand DEF Deploys
<1>2. r \in Nat /\ r =< now /\ s \in Nat /\ now \in Nat
  BY <1>1, DeployAssumption DEF LedgerInv, LedgerTypes, JobTypes, Fits
<1>3. Until(j) = Earlier(r, s)
  BY DEF Until
<1> HIDE DEF r, s
<1>4. Earlier(r, s) \in Nat /\ Earlier(r, s) =< r
  BY <1>2, EarlierIsATime
<1>5. Until(j) \in Nat /\ Until(j) =< now
  BY <1>2, <1>3, <1>4
<1>6. BackToNormal(d, Until(j)) \in Int
  BY <1>1, <1>5, AnswerIsANumber
<1>7. QED
  BY <1>5, <1>6

LEMMA WeighStep ==
    ASSUME LedgerInv, NEW j \in Annotators, Weigh(j)
    PROVE  /\ JobTypes' /\ OthersUntouched(j) /\ pc[j] = "weigh"
           /\ \/ MovesOn(j, "ask")
              \/ /\ StaysOn(j, "post")
                 /\ normal'[j] = BackToNormal(Oldest(queue[j]), Until(j))
                 /\ normal'[j] # NotYet \/ ~(readAt[j] - Oldest(queue[j]).ended < SETTLE)
           /\ UNCHANGED <<Outside, annotations, journal>>
<1> DEFINE answer == BackToNormal(Oldest(queue[j]), Until(j))
           early == readAt[j] - Oldest(queue[j]).ended < SETTLE
<1>1. j \in Jobs /\ JobTypes /\ "ask" \in Phases \ {"idle"} /\ "post" \in Phases
  BY DEF Jobs, LedgerInv, Phases
<1>2. pc[j] = "weigh" /\ UNCHANGED <<Outside, annotations, journal>>
  BY DEF Weigh, Outside
<1>3. answer \in Int
  BY <1>1, <1>2, UntilIsATime
<1>4. IF answer = NotYet /\ early
      THEN Continue(j, "ask")
      ELSE /\ normal' = [normal EXCEPT ![j] = answer]
           /\ pc' = [pc EXCEPT ![j] = "post"]
           /\ UNCHANGED <<queue, readAt, held>>
  BY DEF Weigh, Until
<1> HIDE DEF answer, early
<1>5. CASE answer = NotYet /\ early
  <2>1. Continue(j, "ask")
    BY <1>4, <1>5
  <2>2. QED
    BY <1>1, <1>2, <2>1, ContinueMovesOn
<1>6. CASE ~(answer = NotYet /\ early)
  <2>1. /\ normal' = [normal EXCEPT ![j] = answer]
        /\ pc' = [pc EXCEPT ![j] = "post"]
        /\ UNCHANGED <<queue, readAt, held>>
    BY <1>4, <1>6
  <2>2. JobTypes' /\ OthersUntouched(j)
    BY <1>1, <1>3, <2>1 DEF JobTypes, OthersUntouched
  <2>3. StaysOn(j, "post") /\ normal'[j] = answer
    BY <1>1, <2>1 DEF JobTypes, StaysOn
  <2>4. QED
    BY <1>2, <1>6, <2>2, <2>3 DEF answer, early
<1>7. QED
  BY <1>5, <1>6

\* The annotation Post makes of the deploy at hand.
Annotation(j) ==
    LET d == Oldest(queue[j])
    IN  [release |-> d.release, ended |-> d.ended, outcome |-> d.outcome,
         started |-> d.started, normal |-> normal[j]]

LEMMA PostStep ==
    ASSUME LedgerInv, NEW j \in Annotators, Post(j)
    PROVE  /\ JobTypes' /\ OthersUntouched(j) /\ pc[j] = "post" /\ MovesOn(j, "ask")
           /\ Annotation(j) \in Annotations
           /\ annotations' = Append(annotations, Annotation(j))
           /\ UNCHANGED <<Outside, journal>>
<1>1. j \in Jobs /\ JobTypes /\ "ask" \in Phases \ {"idle"}
  BY DEF Jobs, LedgerInv, Phases
<1>2. /\ pc[j] = "post" /\ UNCHANGED <<Outside, journal>>
      /\ annotations' = Append(annotations, Annotation(j))
      /\ Continue(j, "ask") \/ Stop(j)
  BY DEF Post, Outside, Annotation
<1>3. JobTypes' /\ OthersUntouched(j) /\ MovesOn(j, "ask")
  BY <1>1, <1>2, ContinueMovesOn, StopMovesOn
<1>4. Annotation(j) \in Annotations
  <2>1. Oldest(queue[j]) \in Deploys /\ normal[j] \in Int
    BY <1>1, <1>2, AtHand DEF JobTypes
  <2>2. QED
    BY <2>1 DEF Deploys, Annotation, Annotations
<1>5. QED
  BY <1>2, <1>3, <1>4

LEMMA AppendEventStep ==
    ASSUME LedgerInv, NEW j \in Journalers, AppendEvent(j)
    PROVE  /\ JobTypes' /\ OthersUntouched(j) /\ pc[j] = "append" /\ MovesOn(j, "append")
           /\ \/ journal' = journal
              \/ \E line \in JournalLines :
                    /\ line.release = Oldest(queue[j]).release
                    /\ line.release \notin held[j]
                    /\ journal' = Append(journal, line)
           /\ UNCHANGED <<Outside, annotations>>
<1> DEFINE d == Oldest(queue[j])
           line == [release |-> d.release, at |-> d.ended, success |-> d.outcome = "deploy.finished"]
<1>1. j \in Jobs /\ JobTypes /\ "append" \in Phases \ {"idle"}
  BY DEF Jobs, LedgerInv, Phases
<1>2. /\ pc[j] = "append" /\ UNCHANGED <<Outside, annotations>>
      /\ journal' = IF d.release \in held[j] THEN journal ELSE Append(journal, line)
      /\ Continue(j, "append")
  BY DEF AppendEvent, Outside
<1>3. JobTypes' /\ OthersUntouched(j) /\ MovesOn(j, "append")
  BY <1>1, <1>2, ContinueMovesOn
<1>4. line \in JournalLines /\ line.release = d.release
  <2>1. d \in Deploys
    BY <1>1, <1>2, AtHand
  <2>2. QED
    BY <2>1 DEF Deploys, JournalLines
<1> HIDE DEF d, line
<1>5. \/ journal' = journal
      \/ line.release \notin held[j] /\ journal' = Append(journal, line)
  BY <1>2, <1>4
<1>6. QED
  BY <1>2, <1>3, <1>4, <1>5 DEF d

LEMMA FailStep ==
    ASSUME LedgerInv, NEW j \in Jobs, Fail(j)
    PROVE  /\ JobTypes' /\ OthersUntouched(j) /\ pc[j] # "idle" /\ MovesOn(j, "idle")
           /\ UNCHANGED <<Outside, annotations, journal>>
<1>1. JobTypes /\ Stop(j) /\ pc[j] # "idle" /\ UNCHANGED <<Outside, annotations, journal>>
  BY DEF Fail, LedgerInv, Outside
<1>2. QED
  BY <1>1, StopMovesOn
-----------------------------------------------------------------------------
(* The invariant is kept.                                                  *)

LEMMA MovesOnFits ==
    ASSUME LedgerInv, NEW j \in Jobs, pc[j] # "idle", NEW first \in {"idle", "ask", "append"},
           MovesOn(j, first), now' = now,
           first = "ask" => j \in Annotators, first = "append" => j \in Journalers
    PROVE  Fits(j)'
<1>1. Fits(j) /\ queue'[j] \subseteq queue[j]
  BY DEF LedgerInv, MovesOn
<1>2. readAt'[j] =< now
  BY <1>1 DEF MovesOn, Fits, LedgerInv, LedgerTypes
<1>3. QED
  BY <1>1, <1>2 DEF Fits, MovesOn

LEMMA StaysOnFits ==
    ASSUME LedgerInv, NEW j \in Annotators, pc[j] # "idle", NEW p \in {"weigh", "post"},
           StaysOn(j, p), now' = now
    PROVE  Fits(j)'
BY DEF LedgerInv, Fits, StaysOn, Jobs

LEMMA BeginsFits ==
    ASSUME LedgerInv, NEW j \in Jobs, NEW first \in {"ask", "append"},
           Begins(j, first), now' = now,
           first = "ask" => j \in Annotators, first = "append" => j \in Journalers
    PROVE  Fits(j)'
<1>1. LedgerTypes
  BY DEF LedgerInv
<1>2. readAt'[j] =< now
  BY DEF Begins, LedgerInv, LedgerTypes, Fits
<1>3. queue'[j] = ReadLedger
  BY DEF Begins
<1>4. /\ \A d, e \in queue'[j] : d.release = e.release => d = e
      /\ \A d \in queue'[j] : d.started =< now /\ d.ended =< now
  BY <1>1, <1>3, WhatIsRead
<1>5. /\ pc'[j] # "idle" => queue'[j] # {} /\ pc'[j] = first
  BY <1>3 DEF Begins
<1>6. QED
  BY <1>2, <1>4, <1>5 DEF Fits

LEMMA OthersFit ==
    ASSUME LedgerInv, NEW j \in Jobs, OthersUntouched(j), now' = now, Fits(j)'
    PROVE  \A i \in Jobs : Fits(i)'
<1>1. ASSUME NEW i \in Jobs \ {j} PROVE Fits(i)'
  BY <1>1 DEF LedgerInv, OthersUntouched, Fits
<1>2. QED
  BY <1>1

LEMMA JobsKeepTheInvariant ==
    ASSUME LedgerInv, NEW j \in Jobs, JobTypes', OthersUntouched(j), UNCHANGED Outside,
           Fits(j)', annotations' \in Seq(Annotations), journal' \in Seq(JournalLines)
    PROVE  LedgerInv'
<1>1. LedgerTypes'
  BY DEF LedgerInv, LedgerTypes, Outside
<1>2. \A i \in Jobs : Fits(i)'
  BY OthersFit DEF Outside
<1>3. QED
  BY <1>1, <1>2 DEF LedgerInv

LEMMA AnnotateKeepsTheInvariant ==
    ASSUME LedgerInv, NEW j \in Annotators, Annotate(j)
    PROVE  LedgerInv'
<1>0. /\ j \in Jobs /\ annotations \in Seq(Annotations) /\ journal \in Seq(JournalLines)
  BY DEF Jobs, LedgerInv
<1>1. CASE BeginAnnotate(j)
  <2>1. Fits(j)'
    BY <1>0, <1>1, BeginAnnotateStep, BeginsFits DEF Outside
  <2>2. QED
    BY <1>0, <1>1, <2>1, BeginAnnotateStep, JobsKeepTheInvariant
<1>2. CASE Ask(j)
  <2>1. Fits(j)'
    BY <1>0, <1>2, AskStep, MovesOnFits, StaysOnFits DEF Outside
  <2>2. QED
    BY <1>0, <1>2, <2>1, AskStep, JobsKeepTheInvariant
<1>3. CASE Weigh(j)
  <2>1. Fits(j)'
    BY <1>0, <1>3, WeighStep, MovesOnFits, StaysOnFits DEF Outside
  <2>2. QED
    BY <1>0, <1>3, <2>1, WeighStep, JobsKeepTheInvariant
<1>4. CASE Post(j)
  <2>1. Fits(j)'
    BY <1>0, <1>4, PostStep, MovesOnFits DEF Outside
  <2>2. annotations' \in Seq(Annotations) /\ journal' = journal
    BY <1>0, <1>4, PostStep
  <2>3. QED
    BY <1>0, <1>4, <2>1, <2>2, PostStep, JobsKeepTheInvariant
<1>5. QED
  BY <1>1, <1>2, <1>3, <1>4 DEF Annotate

LEMMA RecordDoraKeepsTheInvariant ==
    ASSUME LedgerInv, NEW j \in Journalers, RecordDora(j)
    PROVE  LedgerInv'
<1>0. /\ j \in Jobs /\ annotations \in Seq(Annotations) /\ journal \in Seq(JournalLines)
  BY DEF Jobs, LedgerInv
<1>1. CASE BeginJournal(j)
  <2>1. Fits(j)'
    BY <1>0, <1>1, BeginJournalStep, BeginsFits DEF Outside
  <2>2. QED
    BY <1>0, <1>1, <2>1, BeginJournalStep, JobsKeepTheInvariant
<1>2. CASE AppendEvent(j)
  <2>1. Fits(j)'
    BY <1>0, <1>2, AppendEventStep, MovesOnFits DEF Outside
  <2>2. annotations' = annotations /\ journal' \in Seq(JournalLines)
    BY <1>0, <1>2, AppendEventStep
  <2>3. QED
    BY <1>0, <1>2, <2>1, <2>2, AppendEventStep, JobsKeepTheInvariant
<1>3. QED
  BY <1>1, <1>2 DEF RecordDora

LEMMA FailKeepsTheInvariant ==
    ASSUME LedgerInv, NEW j \in Jobs, Fail(j)
    PROVE  LedgerInv'
<1>1. /\ annotations' \in Seq(Annotations) /\ journal' \in Seq(JournalLines)
  BY FailStep DEF LedgerInv
<1>2. Fits(j)'
  BY FailStep, MovesOnFits DEF Outside
<1>3. QED
  BY <1>1, <1>2, FailStep, JobsKeepTheInvariant

\* Time passing, and mdp at work.
LEMMA TickKeepsTheInvariant ==
    ASSUME LedgerInv, Tick
    PROVE  LedgerInv' /\ \E v \in Durations : samples' = Append(samples, v)
<1>1. /\ now' = now + 1 /\ now \in Nat
      /\ \E v \in Durations : samples' = Append(samples, v)
      /\ UNCHANGED <<ledger, annotations, journal, pc, queue, readAt, held, normal>>
  BY DEF Tick, LedgerInv, LedgerTypes, jobVars
<1>2. samples' \in Seq(Durations) /\ Len(samples') = now' + 1
  BY <1>1 DEF LedgerInv, LedgerTypes
<1>3. ASSUME NEW rel \in Releases, NEW i \in DOMAIN ledger[rel]
      PROVE  ledger[rel][i].at =< now + 1
  <2> DEFINE time == ledger[rel][i].at
  <2>1. ledger[rel] \in Seq(LedgerRecords) /\ time =< now
    BY DEF LedgerInv, LedgerTypes
  <2>2. time \in Nat
    <3>1. ledger[rel][i] \in LedgerRecords
      BY <2>1
    <3>2. QED
      BY <3>1 DEF LedgerRecords
  <2> HIDE DEF time
  <2>3. time =< now + 1
    BY <1>1, <2>1, <2>2
  <2>4. QED
    BY <2>3 DEF time
<1>4. LedgerTypes'
  BY <1>1, <1>2, <1>3 DEF LedgerInv, LedgerTypes
<1>5. ASSUME NEW j \in Jobs PROVE Fits(j)'
  <2>1. Fits(j) /\ queue[j] \in SUBSET Deploys /\ readAt[j] \in Nat
    BY DEF LedgerInv, JobTypes
  <2>2. \A d \in queue[j] : d.started =< now + 1 /\ d.ended =< now + 1
    <3>1. ASSUME NEW d \in queue[j] PROVE d.started =< now + 1 /\ d.ended =< now + 1
      <4>1. d.started \in Nat /\ d.ended \in Nat /\ d.started =< now /\ d.ended =< now
        BY <2>1 DEF Deploys, Fits
      <4>2. QED
        BY <1>1, <4>1
    <3>2. QED
      BY <3>1
  <2>3. readAt[j] =< now + 1
    BY <1>1, <2>1 DEF Fits
  <2>4. QED
    BY <1>1, <2>1, <2>2, <2>3 DEF Fits
<1>6. JobTypes' /\ annotations' \in Seq(Annotations) /\ journal' \in Seq(JournalLines)
  BY <1>1 DEF LedgerInv, JobTypes
<1>7. QED
  BY <1>1, <1>4, <1>5, <1>6 DEF LedgerInv

LEMMA MdpKeepsTheInvariant ==
    ASSUME LedgerInv, NEW rel \in Releases, NEW e \in {"deploy.started"} \cup Ends,
           AppendRecord(rel, e)
    PROVE  LedgerInv'
<1> DEFINE rec == [event |-> e, at |-> now]
<1>1. /\ ledger' = [ledger EXCEPT ![rel] = Append(ledger[rel], rec)]
      /\ UNCHANGED <<now, samples, annotations, journal, pc, queue, readAt, held, normal>>
  BY DEF AppendRecord, jobVars
<1>2. /\ rec \in LedgerRecords /\ rec.at = now /\ now \in Nat
      /\ ledger \in [Releases -> Seq(LedgerRecords)]
  BY DEF LedgerInv, LedgerTypes, LedgerRecords
<1> HIDE DEF rec
<1>3. ledger' \in [Releases -> Seq(LedgerRecords)]
  BY <1>1, <1>2
<1>4. ASSUME NEW x \in Releases, NEW i \in DOMAIN ledger'[x]
      PROVE  ledger'[x][i].at =< now
  <2>1. CASE x # rel
    BY <1>1, <1>2, <1>4, <2>1 DEF LedgerInv, LedgerTypes
  <2>2. CASE x = rel
    <3>1. ledger[rel] \in Seq(LedgerRecords) /\ ledger'[rel] = Append(ledger[rel], rec)
      BY <1>1, <1>2
    <3>2. ledger'[rel][i] = rec \/ (i \in DOMAIN ledger[rel] /\ ledger'[rel][i] = ledger[rel][i])
      BY <1>2, <1>4, <2>2, <3>1, AppendProperties
    <3>3. CASE ledger'[rel][i] = rec
      BY <1>2, <2>2, <3>3
    <3>4. CASE i \in DOMAIN ledger[rel] /\ ledger'[rel][i] = ledger[rel][i]
      BY <2>2, <3>4 DEF LedgerInv, LedgerTypes
    <3>5. QED
      BY <3>2, <3>3, <3>4
  <2>3. QED
    BY <2>1, <2>2
<1>5. LedgerTypes'
  BY <1>1, <1>3, <1>4 DEF LedgerInv, LedgerTypes
<1>6. \A j \in Jobs : Fits(j)'
  BY <1>1 DEF LedgerInv, Fits
<1>7. JobTypes' /\ annotations' \in Seq(Annotations) /\ journal' \in Seq(JournalLines)
  BY <1>1 DEF LedgerInv, JobTypes
<1>8. QED
  BY <1>5, <1>6, <1>7 DEF LedgerInv

LEMMA LedgerInitially == DeployInit => LedgerInv
<1> SUFFICES ASSUME DeployInit PROVE LedgerInv
  OBVIOUS
<1>1. LedgerTypes
  <2>1. BASELINE \in Nat /\ now = BASELINE /\ samples \in [1..BASELINE + 1 -> Durations]
    BY DeployAssumption DEF DeployInit
  <2>2. samples \in Seq(Durations) /\ Len(samples) = BASELINE + 1
    BY <2>1
  <2>3. ledger \in [Releases -> Seq(LedgerRecords)]
    BY DEF DeployInit
  <2>4. \A rel \in Releases : DOMAIN ledger[rel] = {}
    BY DEF DeployInit
  <2>5. QED
    BY <2>1, <2>2, <2>3, <2>4 DEF LedgerTypes
<1>2. JobTypes
  BY DEF DeployInit, JobTypes, Phases, NotYet
<1>3. annotations \in Seq(Annotations) /\ journal \in Seq(JournalLines)
  BY DEF DeployInit
<1>4. \A j \in Jobs : Fits(j)
  BY <1>1 DEF DeployInit, Fits, LedgerTypes
<1>5. QED
  BY <1>1, <1>2, <1>3, <1>4 DEF LedgerInv

\* A step is one of a job, one of mdp's, a moment of time, or nothing.
LEMMA LedgerSteps ==
    ASSUME LedgerInv, [DeployNext]_dvars
    PROVE  \/ UNCHANGED dvars
           \/ Tick
           \/ \E rel \in Releases : \E e \in {"deploy.started"} \cup Ends : AppendRecord(rel, e)
           \/ \E j \in Annotators : Annotate(j)
           \/ \E j \in Journalers : RecordDora(j)
           \/ \E j \in Jobs : Fail(j)
<1>1. \A rel \in Releases : StartDeploy(rel) => AppendRecord(rel, "deploy.started")
  BY DEF StartDeploy
<1>2. \A rel \in Releases : \A e \in Ends : EndDeploy(rel, e) => AppendRecord(rel, e)
  BY DEF EndDeploy
<1>3. QED
  BY <1>1, <1>2 DEF DeployNext

LEMMA LedgerInvariant == DeploySpec => []LedgerInv
<1>1. LedgerInv /\ [DeployNext]_dvars => LedgerInv'
  <2> SUFFICES ASSUME LedgerInv, [DeployNext]_dvars PROVE LedgerInv'
    OBVIOUS
  <2>1. CASE UNCHANGED dvars
    BY <2>1 DEF dvars, jobVars, LedgerInv, LedgerTypes, JobTypes, Fits
  <2>2. QED
    BY <2>1, LedgerSteps, TickKeepsTheInvariant, MdpKeepsTheInvariant, AnnotateKeepsTheInvariant,
       RecordDoraKeepsTheInvariant, FailKeepsTheInvariant
<1>2. QED
  BY LedgerInitially, <1>1, PTL DEF DeploySpec
-----------------------------------------------------------------------------
(* Each deploy once.                                                       *)

NamedIn(seq) == {seq[i].release : i \in DOMAIN seq}

Once(seq) == \A i, k \in DOMAIN seq : seq[i].release = seq[k].release => i = k

LEMMA AppendOnce ==
    ASSUME NEW T, NEW seq \in Seq(T), NEW x \in T, Once(seq), x.release \notin NamedIn(seq)
    PROVE  Once(Append(seq, x)) /\ NamedIn(Append(seq, x)) = NamedIn(seq) \cup {x.release}
<1> DEFINE n == Len(seq)
           longer == Append(seq, x)
<1>1. /\ n \in Nat /\ DOMAIN seq = 1..n /\ DOMAIN longer = 1..n + 1
      /\ longer[n + 1] = x /\ \A i \in 1..n : longer[i] = seq[i]
  BY AppendProperties, LenProperties
<1>2. \A i \in DOMAIN seq : seq[i].release # x.release
  BY DEF NamedIn
<1> HIDE DEF n, longer
<1>3. \A i \in 1..n + 1 : i \in 1..n \/ i = n + 1
  BY <1>1
<1>4. \A i \in 1..n : i \in 1..n + 1 /\ i # n + 1
  BY <1>1
<1>5. n + 1 \in 1..n + 1
  BY <1>1
<1>6. Once(longer)
  <2>1. ASSUME NEW i \in 1..n + 1, NEW k \in 1..n + 1, longer[i].release = longer[k].release
        PROVE  i = k
    <3>1. CASE i \in 1..n /\ k \in 1..n
      BY <1>1, <2>1, <3>1 DEF Once
    <3>2. CASE i = n + 1 /\ k \in 1..n
      BY <1>1, <1>2, <2>1, <3>2
    <3>3. CASE i \in 1..n /\ k = n + 1
      BY <1>1, <1>2, <2>1, <3>3
    <3>4. QED
      BY <1>3, <3>1, <3>2, <3>3
  <2>2. QED
    BY <1>1, <2>1 DEF Once
<1>7. NamedIn(longer) = NamedIn(seq) \cup {x.release}
  <2>1. ASSUME NEW r \in NamedIn(longer) PROVE r \in NamedIn(seq) \cup {x.release}
    BY <1>1, <1>3 DEF NamedIn
  <2>2. ASSUME NEW r \in NamedIn(seq) PROVE r \in NamedIn(longer)
    <3>1. PICK i \in 1..n : r = seq[i].release
      BY <1>1 DEF NamedIn
    <3>2. i \in DOMAIN longer /\ r = longer[i].release
      BY <1>1, <1>4, <3>1
    <3>3. QED
      BY <3>2 DEF NamedIn
  <2>3. x.release \in NamedIn(longer)
    BY <1>1, <1>5 DEF NamedIn
  <2>4. QED
    BY <2>1, <2>2, <2>3
<1>8. QED
  BY <1>6, <1>7 DEF longer

\* Grafana holds no annotation of the deploy a job is about to annotate.
StillWanted(j) ==
    pc[j] \in {"weigh", "post"} => Oldest(queue[j]).release \notin NamedIn(annotations)

AnnotatedInv == AnnotatedOnce /\ \A j \in Annotators : StillWanted(j)

LEMMA UntouchedByOthers ==
    ASSUME NEW i \in Annotators, NEW j \in Jobs, i # j, OthersUntouched(j),
           UNCHANGED annotations, StillWanted(i)
    PROVE  StillWanted(i)'
BY DEF OthersUntouched, StillWanted, NamedIn, Jobs

\* Grafana holds one annotation of a deploy at most, whatever jobs die and
\* answers get lost, as long as one `annotate` runs at a time.
THEOREM DeploysAreAnnotatedOnce ==
    ASSUME \A i, j \in Annotators : i = j
    PROVE  DeploySpec => []AnnotatedOnce
<1>1. DeployInit => AnnotatedInv
  BY DEF DeployInit, AnnotatedInv, AnnotatedOnce, StillWanted, NamedIn, Jobs
<1>2. LedgerInv /\ AnnotatedInv /\ [DeployNext]_dvars => AnnotatedInv'
  <2> SUFFICES ASSUME LedgerInv, AnnotatedInv, [DeployNext]_dvars PROVE AnnotatedInv'
    OBVIOUS
  <2>1. CASE \/ UNCHANGED dvars \/ Tick
             \/ \E rel \in Releases : \E e \in {"deploy.started"} \cup Ends : AppendRecord(rel, e)
    <3>1. UNCHANGED <<annotations, pc, queue>>
      BY <2>1 DEF dvars, jobVars, Tick, AppendRecord
    <3>2. QED
      BY <3>1 DEF AnnotatedInv, AnnotatedOnce, StillWanted, NamedIn
  <2>2. CASE \E j \in Journalers : RecordDora(j)
    <3>1. PICK j \in Journalers : RecordDora(j)
      BY <2>2
    <3>2. OthersUntouched(j) /\ UNCHANGED annotations
      BY <3>1, BeginJournalStep, AppendEventStep DEF RecordDora
    <3>3. \A i \in Annotators : StillWanted(i)'
      BY <3>2, UntouchedByOthers, DeployAssumption DEF AnnotatedInv, Jobs
    <3>4. QED
      BY <3>2, <3>3 DEF AnnotatedInv, AnnotatedOnce
  <2>3. CASE \E j \in Jobs : Fail(j)
    <3>1. PICK j \in Jobs : Fail(j)
      BY <2>3
    <3>2. OthersUntouched(j) /\ UNCHANGED annotations /\ MovesOn(j, "idle")
      BY <3>1, FailStep
    <3>3. ASSUME NEW i \in Annotators PROVE StillWanted(i)'
      <4>1. CASE i = j
        BY <3>2, <4>1 DEF MovesOn, StillWanted
      <4>2. CASE i # j
        BY <3>2, <4>2, UntouchedByOthers DEF AnnotatedInv
      <4>3. QED
        BY <4>1, <4>2
    <3>4. QED
      BY <3>2, <3>3 DEF AnnotatedInv, AnnotatedOnce
  <2>4. CASE \E j \in Annotators : Annotate(j)
    <3>1. PICK j \in Annotators : Annotate(j)
      BY <2>4
    <3>2. \A i \in Annotators : i = j
      OBVIOUS
    <3>3. CASE BeginAnnotate(j)
      <4>1. pc'[j] \in {"idle", "ask"} /\ UNCHANGED annotations
        BY <3>3, BeginAnnotateStep DEF Begins
      <4>2. QED
        BY <3>2, <4>1 DEF AnnotatedInv, AnnotatedOnce, StillWanted
    <3>4. CASE Ask(j)
      <4>1. UNCHANGED annotations /\ StillWanted(j)'
        <5>1. IsAnnotated(Oldest(queue[j]).release)
                  <=> Oldest(queue[j]).release \in NamedIn(annotations)
          BY DEF IsAnnotated, NamedIn
        <5>2. QED
          BY <3>4, <5>1, AskStep DEF MovesOn, StaysOn, StillWanted, NamedIn
      <4>2. QED
        BY <3>2, <4>1 DEF AnnotatedInv, AnnotatedOnce
    <3>5. CASE Weigh(j)
      <4>1. UNCHANGED annotations /\ StillWanted(j)'
        BY <3>5, WeighStep DEF MovesOn, StaysOn, StillWanted, NamedIn, AnnotatedInv
      <4>2. QED
        BY <3>2, <4>1 DEF AnnotatedInv, AnnotatedOnce
    <3>6. CASE Post(j)
      <4>1. /\ pc[j] = "post" /\ pc'[j] \in {"ask", "idle"}
            /\ Annotation(j) \in Annotations
            /\ annotations' = Append(annotations, Annotation(j))
        BY <3>6, PostStep DEF MovesOn
      <4>2. Annotation(j).release \notin NamedIn(annotations)
        BY <4>1 DEF AnnotatedInv, StillWanted, Annotation
      <4>3. annotations \in Seq(Annotations) /\ Once(annotations)
        BY DEF LedgerInv, AnnotatedInv, AnnotatedOnce, Once
      <4>4. Once(annotations')
        BY <4>1, <4>2, <4>3, AppendOnce
      <4>5. QED
        BY <3>2, <4>1, <4>4 DEF AnnotatedInv, AnnotatedOnce, StillWanted, Once
    <3>7. QED
      BY <3>1, <3>3, <3>4, <3>5, <3>6 DEF Annotate
  <2>5. QED
    BY <2>1, <2>2, <2>3, <2>4, LedgerSteps
<1>3. AnnotatedInv => AnnotatedOnce
  BY DEF AnnotatedInv
<1>4. QED
  BY <1>1, <1>2, <1>3, LedgerInvariant, PTL DEF DeploySpec
\* A `dora` job knows which of the deploys it still has to append are in the
\* journal.
Knows(j) ==
    pc[j] = "append" =>
        \A d \in queue[j] : d.release \in NamedIn(journal) => d.release \in held[j]

JournaledInv == JournaledOnce /\ \A j \in Journalers : Knows(j)

LEMMA OthersKnow ==
    ASSUME NEW i \in Journalers, NEW j \in Jobs, i # j, OthersUntouched(j),
           UNCHANGED journal, Knows(i)
    PROVE  Knows(i)'
BY DEF OthersUntouched, Knows, NamedIn, Jobs

\* A deploy has one line in the journal at most, whatever jobs die half way, as
\* long as one `dora` runs at a time.
THEOREM DeploysAreJournaledOnce ==
    ASSUME \A i, j \in Journalers : i = j
    PROVE  DeploySpec => []JournaledOnce
<1>1. DeployInit => JournaledInv
  BY DEF DeployInit, JournaledInv, JournaledOnce, Knows, NamedIn, Jobs
<1>2. LedgerInv /\ JournaledInv /\ [DeployNext]_dvars => JournaledInv'
  <2> SUFFICES ASSUME LedgerInv, JournaledInv, [DeployNext]_dvars PROVE JournaledInv'
    OBVIOUS
  <2>1. CASE \/ UNCHANGED dvars \/ Tick
             \/ \E rel \in Releases : \E e \in {"deploy.started"} \cup Ends : AppendRecord(rel, e)
    <3>1. UNCHANGED <<journal, pc, queue, held>>
      BY <2>1 DEF dvars, jobVars, Tick, AppendRecord
    <3>2. QED
      BY <3>1 DEF JournaledInv, JournaledOnce, Knows, NamedIn
  <2>2. CASE \E j \in Annotators : Annotate(j)
    <3>1. PICK j \in Annotators : Annotate(j)
      BY <2>2
    <3>2. OthersUntouched(j) /\ UNCHANGED journal
      BY <3>1, BeginAnnotateStep, AskStep, WeighStep, PostStep DEF Annotate
    <3>3. \A i \in Journalers : Knows(i)'
      BY <3>2, OthersKnow, DeployAssumption DEF JournaledInv, Jobs
    <3>4. QED
      BY <3>2, <3>3 DEF JournaledInv, JournaledOnce
  <2>3. CASE \E j \in Jobs : Fail(j)
    <3>1. PICK j \in Jobs : Fail(j)
      BY <2>3
    <3>2. OthersUntouched(j) /\ UNCHANGED journal /\ MovesOn(j, "idle")
      BY <3>1, FailStep
    <3>3. ASSUME NEW i \in Journalers PROVE Knows(i)'
      <4>1. CASE i = j
        BY <3>2, <4>1 DEF MovesOn, Knows
      <4>2. CASE i # j
        BY <3>2, <4>2, OthersKnow DEF JournaledInv
      <4>3. QED
        BY <4>1, <4>2
    <3>4. QED
      BY <3>2, <3>3 DEF JournaledInv, JournaledOnce
  <2>4. CASE \E j \in Journalers : RecordDora(j)
    <3>1. PICK j \in Journalers : RecordDora(j)
      BY <2>4
    <3>2. \A i \in Journalers : i = j
      OBVIOUS
    <3>3. CASE BeginJournal(j)
      <4>1. UNCHANGED journal /\ (pc'[j] # "idle" => held'[j] = NamedIn(journal))
        BY <3>3, BeginJournalStep DEF NamedIn
      <4>2. QED
        BY <3>2, <4>1 DEF JournaledInv, JournaledOnce, Knows, NamedIn
    <3>4. CASE AppendEvent(j)
      <4> DEFINE d == Oldest(queue[j])
      <4>1. j \in Jobs /\ pc[j] = "append" /\ MovesOn(j, "append") /\ Knows(j)
        BY <3>4, AppendEventStep DEF Jobs, JournaledInv
      <4>2. d \in queue[j]
        BY <4>1, AtHand
      <4>3. CASE journal' = journal
        <5>1. Knows(j)'
          BY <4>1, <4>3 DEF Knows, MovesOn, NamedIn
        <5>2. QED
          BY <3>2, <4>3, <5>1 DEF JournaledInv, JournaledOnce
      <4>4. CASE journal' # journal
        <5>1. PICK line \in JournalLines :
                  /\ line.release = d.release /\ line.release \notin held[j]
                  /\ journal' = Append(journal, line)
          BY <3>4, <4>4, AppendEventStep
        <5>2. line.release \notin NamedIn(journal)
          BY <4>1, <4>2, <5>1 DEF Knows
        <5>3. journal \in Seq(JournalLines) /\ Once(journal)
          BY DEF LedgerInv, JournaledInv, JournaledOnce, Once
        <5>4. Once(journal') /\ NamedIn(journal') = NamedIn(journal) \cup {d.release}
          BY <5>1, <5>2, <5>3, AppendOnce
        <5>5. Knows(j)'
          <6>1. SUFFICES ASSUME pc'[j] = "append", NEW e \in queue'[j],
                                e.release \in NamedIn(journal')
                         PROVE  e.release \in held'[j]
            BY DEF Knows, NamedIn
          <6>2. e \in queue[j] /\ e # d /\ held'[j] = held[j]
            BY <4>1, <6>1 DEF MovesOn
          <6>3. e.release # d.release
            BY <4>1, <4>2, <6>2 DEF LedgerInv, Fits
          <6>4. QED
            BY <4>1, <5>4, <6>1, <6>2, <6>3 DEF Knows
        <5>6. QED
          BY <3>2, <5>4, <5>5 DEF JournaledInv, JournaledOnce, Once
      <4>5. QED
        BY <4>3, <4>4
    <3>5. QED
      BY <3>1, <3>3, <3>4 DEF RecordDora
  <2>5. QED
    BY <2>1, <2>2, <2>3, <2>4, LedgerSteps
<1>3. JournaledInv => JournaledOnce
  BY DEF JournaledInv
<1>4. QED
  BY <1>1, <1>2, <1>3, LedgerInvariant, PTL DEF DeploySpec
-----------------------------------------------------------------------------
(* An answer of back_to_normal is for good.                                *)

\* The times of `after` from which on HOLD of them in a row are steady.
HoldsAmong(after, steady) ==
    {t \in after : /\ Cardinality({s \in after : s >= t}) >= HOLD
                   /\ \A s \in HoldFrom(after, t) : s \in steady}

LEMMA PartOfATime ==
    ASSUME NEW n \in Nat, NEW S \in SUBSET (0..n), NEW P \in SUBSET S
    PROVE  /\ IsFiniteSet(S) /\ IsFiniteSet(P) /\ Cardinality(P) \in Nat /\ Cardinality(S) \in Nat
           /\ Cardinality(P) =< Cardinality(S)
<1>1. IsFiniteSet(0..n)
  BY FS_Interval
<1>2. IsFiniteSet(S)
  BY <1>1, FS_Subset
<1>3. QED
  BY <1>2, FS_Subset, FS_CardinalityType

\* More samples at the end do not change from where the first HOLD are counted.
LEMMA SameHold ==
    ASSUME NEW n \in Nat, NEW later \in SUBSET (0..n), NEW upTo \in Nat, NEW t \in later,
           t =< upTo,
           Cardinality({s \in {u \in later : u =< upTo} : s >= t}) >= HOLD
    PROVE  HoldFrom({u \in later : u =< upTo}, t) = HoldFrom(later, t)
<1> DEFINE sooner == {u \in later : u =< upTo}
           Passed(after, s) == {u \in after : t =< u /\ u < s}
           rest == {s \in sooner : s >= t}
<1>0. t \in Nat /\ HOLD \in Nat /\ later \in SUBSET Nat
  BY DeployAssumption
<1>1. ASSUME NEW s \in later, s =< upTo
      PROVE  Passed(sooner, s) = Passed(later, s)
  <2>1. \A u \in later : u < s => u =< upTo
    BY <1>0, <1>1
  <2>2. QED
    BY <2>1
<1>2. ASSUME NEW s \in later, ~(s =< upTo)
      PROVE  ~(Cardinality(Passed(later, s)) < HOLD)
  <2>1. rest \in SUBSET Passed(later, s)
    <3>1. \A u \in later : u =< upTo => u < s
      BY <1>0, <1>2
    <3>2. \A u \in later : u >= t => t =< u
      BY <1>0
    <3>3. QED
      BY <3>1, <3>2
  <2>2. Passed(later, s) \in SUBSET (0..n)
    OBVIOUS
  <2> DEFINE a == Cardinality(rest)
             b == Cardinality(Passed(later, s))
  <2>3. a \in Nat /\ b \in Nat /\ a =< b
    <3> HIDE DEF Passed, rest
    <3>1. QED
      BY <2>1, <2>2, PartOfATime
  <2>4. a >= HOLD
    OBVIOUS
  <2> HIDE DEF a, b
  <2>5. ~(b < HOLD)
    BY <1>0, <2>3, <2>4
  <2>6. QED
    BY <2>5 DEF b
<1>3. HoldFrom(sooner, t) = {s \in sooner : s >= t /\ Cardinality(Passed(sooner, s)) < HOLD}
  BY DEF HoldFrom
<1>4. HoldFrom(later, t) = {s \in later : s >= t /\ Cardinality(Passed(later, s)) < HOLD}
  BY DEF HoldFrom
<1>5. \A s : s \in sooner <=> s \in later /\ s =< upTo
  OBVIOUS
<1> HIDE DEF Passed, rest, sooner
<1>6. HoldFrom(sooner, t) = HoldFrom(later, t)
  BY <1>1, <1>2, <1>3, <1>4, <1>5
<1>7. QED
  BY <1>6 DEF sooner

LEMMA FirstHoldStays ==
    ASSUME NEW n \in Nat, NEW later \in SUBSET (0..n), NEW upTo \in Nat, NEW steady,
           HoldsAmong({u \in later : u =< upTo}, steady) # {}
    PROVE  /\ HoldsAmong(later, steady) # {}
           /\ Min(HoldsAmong(later, steady)) = Min(HoldsAmong({u \in later : u =< upTo}, steady))
<1> DEFINE sooner == {u \in later : u =< upTo}
           From(after, t) == {s \in after : s >= t}
           H == HoldsAmong(sooner, steady)
           G == HoldsAmong(later, steady)
           m == Min(H)
<1>0. /\ HOLD \in Nat /\ later \in SUBSET Nat /\ sooner \in SUBSET later
      /\ sooner \in SUBSET (0..n)
  <2>1. HOLD \in Nat
    BY DeployAssumption
  <2>2. \A u \in later : u \in Nat /\ u \in 0..n
    OBVIOUS
  <2>3. sooner \in SUBSET later
    OBVIOUS
  <2> HIDE DEF sooner
  <2>4. QED
    BY <2>1, <2>2, <2>3
<1>9. \A u \in sooner : u =< upTo
  OBVIOUS
<1>1. \A after : HoldsAmong(after, steady) =
          {t \in after : /\ Cardinality(From(after, t)) >= HOLD
                         /\ \A s \in HoldFrom(after, t) : s \in steady}
  BY DEF HoldsAmong
<1>2. H \in SUBSET Nat /\ G \in SUBSET Nat
  BY <1>0, <1>1
<1>3. \A t \in sooner : Cardinality(From(sooner, t)) >= HOLD
                            => HoldFrom(sooner, t) = HoldFrom(later, t)
  BY SameHold
<1>4. m \in H /\ \A t \in H : m =< t
  <2> HIDE DEF H
  <2>1. QED
    BY <1>2, MinIsLeast DEF H
<1>5. m \in G
  <2>1. m \in sooner /\ m \in later /\ Cardinality(From(sooner, m)) >= HOLD
    <3> HIDE DEF From, sooner, m
    <3>1. QED
      BY <1>0, <1>1, <1>4
  <2>2. From(sooner, m) \in SUBSET From(later, m) /\ From(later, m) \in SUBSET (0..n)
    BY <1>0
  <2> DEFINE a == Cardinality(From(sooner, m))
             b == Cardinality(From(later, m))
  <2>3. a \in Nat /\ b \in Nat /\ a =< b
    <3> HIDE DEF From
    <3>1. QED
      BY <2>2, PartOfATime
  <2>4. a >= HOLD
    BY <2>1
  <2> HIDE DEF a, b
  <2>5. b >= HOLD
    BY <1>0, <2>3, <2>4
  <2>6. \A s \in HoldFrom(later, m) : s \in steady
    <3> HIDE DEF From, sooner, m
    <3>1. QED
      BY <1>1, <1>3, <1>4, <2>1
  <2> HIDE DEF From, sooner, H, m
  <2>7. QED
    BY <1>1, <2>1, <2>5, <2>6 DEF b
<1>6. ASSUME NEW t \in G PROVE m =< t
  <2>1. SUFFICES ASSUME t < m PROVE FALSE
    BY <1>2, <1>4
  <2>2. m \in sooner /\ Cardinality(From(sooner, m)) >= HOLD
    <3> HIDE DEF From, sooner, m
    <3>1. QED
      BY <1>1, <1>4
  <2>3. t \in later /\ t \in Nat /\ m \in Nat /\ t =< upTo
    <3> HIDE DEF From, sooner, m
    <3>1. t \in later /\ t \in Nat /\ m \in Nat
      BY <1>0, <1>1, <2>2
    <3>2. m =< upTo
      BY <1>9, <2>2
    <3>3. QED
      BY <2>1, <3>1, <3>2
  <2>4. t \in sooner
    BY <2>3
  <2>5. From(sooner, m) \in SUBSET From(sooner, t) /\ From(sooner, t) \in SUBSET (0..n)
    BY <1>0, <2>1, <2>3
  <2> DEFINE a == Cardinality(From(sooner, m))
             b == Cardinality(From(sooner, t))
  <2>6. a \in Nat /\ b \in Nat /\ a =< b
    <3> HIDE DEF From
    <3>1. QED
      BY <2>5, PartOfATime
  <2>7. a >= HOLD
    BY <2>2
  <2> HIDE DEF a, b
  <2>8. b >= HOLD
    BY <1>0, <2>6, <2>7
  <2>9. Cardinality(From(sooner, t)) >= HOLD
    BY <2>8 DEF b
  <2>10. \A s \in HoldFrom(sooner, t) : s \in steady
    BY <1>1, <1>3, <1>6, <2>4, <2>9
  <2>11. t \in H
    <3> HIDE DEF From, sooner
    <3>1. QED
      BY <1>1, <2>4, <2>9, <2>10
  <2>12. QED
    BY <1>4, <2>1, <2>3, <2>11
<1>7. Min(G) = m
  <2>1. Min(G) \in G /\ \A t \in G : Min(G) =< t
    BY <1>2, <1>5, MinIsLeast
  <2>2. Min(G) \in Nat /\ m \in Nat /\ m =< Min(G) /\ Min(G) =< m
    BY <1>2, <1>5, <1>6, <2>1
  <2> HIDE DEF m, G
  <2>3. QED
    BY <2>2
<1>8. QED
  BY <1>5, <1>7
Steady(d) == {t \in Nat : Within(d, t)}

LEMMA AnswerFromHolds ==
    ASSUME NEW d, d.ended \in Nat, NEW upTo \in Nat
    PROVE  /\ Holds(d, upTo) = HoldsAmong(After(d, upTo), Steady(d))
           /\ BackToNormal(d, upTo) # NotYet => Before(d) # {} /\ Holds(d, upTo) # {}
<1>1. \A t, s : s \in HoldFrom(After(d, upTo), t) => s \in Nat
  BY DEF HoldFrom, After
<1>2. QED
  BY <1>1 DEF Holds, HoldsAmong, Steady, BackToNormal

\* The samples there are now, and perhaps one more.
SamplesKept == \A t \in 0..now : samples'[t + 1] = samples[t + 1]

LEMMA SameSamples ==
    ASSUME LedgerTypes, SamplesKept, NEW d, d.started \in Nat, d.ended \in Nat, d.started =< now
    PROVE  /\ Before(d)' = Before(d)
           /\ \A t \in 0..now : Within(d, t)' <=> Within(d, t)
           /\ \A upTo \in 0..now : After(d, upTo)' = After(d, upTo)
<1> DEFINE start == d.started
<1>0. now \in Nat /\ start \in Nat /\ start =< now
  BY DEF LedgerTypes
<1>1. \A t \in 0..start - 1 : t \in 0..now
  <2> HIDE DEF start
  <2>1. QED
    BY <1>0
<1>2. Before(d)' = Before(d)
  BY <1>1 DEF SamplesKept, Before
<1>3. \A t \in Before(d) : t \in 0..now
  BY <1>1 DEF Before
<1>4. {b \in Before(d)' : samples'[b + 1] = "slow"} = {b \in Before(d) : samples[b + 1] = "slow"}
  BY <1>2, <1>3 DEF SamplesKept
<1>5. \A t \in 0..now : Within(d, t)' <=> Within(d, t)
  BY <1>2, <1>4 DEF Within, SamplesKept
<1>6. ASSUME NEW upTo \in 0..now
      PROVE  After(d, upTo)' = After(d, upTo)
  <2>1. \A t \in d.ended..upTo : t \in 0..now
    <3> DEFINE end == d.ended
    <3>1. end \in Nat
      OBVIOUS
    <3> HIDE DEF end
    <3>2. \A t \in end..upTo : t \in 0..now
      BY <1>0, <3>1
    <3>3. QED
      BY <3>2 DEF end
  <2>2. QED
    BY <2>1 DEF After, SamplesKept
<1>7. QED
  BY <1>2, <1>5, <1>6

\* What was found by some time is still found when more samples came.
LEMMA AnswerStays ==
    ASSUME LedgerTypes, SamplesKept, NEW d, d.started \in Nat, d.ended \in Nat, d.started =< now,
           NEW upTo \in 0..now, NEW longer \in Nat, upTo =< longer,
           BackToNormal(d, upTo) # NotYet
    PROVE  BackToNormal(d, longer)' = BackToNormal(d, upTo)
<1> DEFINE sooner == After(d, upTo)
           later == After(d, longer)'
<1>0. now \in Nat /\ upTo \in Nat /\ upTo =< now
  BY DEF LedgerTypes
<1>1. Before(d) # {} /\ Holds(d, upTo) = HoldsAmong(sooner, Steady(d)) /\ Holds(d, upTo) # {}
  BY <1>0, AnswerFromHolds
<1>2. later \in SUBSET (0..longer)
  BY DEF After
<1>3. sooner = {u \in later : u =< upTo}
  <2> DEFINE end == d.ended
  <2>1. end \in Nat
    OBVIOUS
  <2>2. sooner = {t \in end..upTo : samples[t + 1] # "gap"}
    BY DEF After
  <2>3. later = {t \in end..longer : samples'[t + 1] # "gap"}
    BY DEF After
  <2> HIDE DEF sooner, later, end
  <2>4. \A t : t \in end..upTo <=> t \in end..longer /\ t =< upTo
    BY <1>0, <2>1
  <2>5. \A t \in end..upTo : t \in 0..now
    BY <1>0, <2>1
  <2>6. \A t \in end..upTo : samples'[t + 1] = samples[t + 1]
    BY <2>5 DEF SamplesKept
  <2>7. QED
    BY <2>2, <2>3, <2>4, <2>6
<1>4. Before(d)' = Before(d) /\ (\A t \in 0..now : Within(d, t)' <=> Within(d, t))
  BY SameSamples
<1>5. HoldsAmong(sooner, Steady(d)) = HoldsAmong(sooner, Steady(d)')
  <2>1. \A t, s : s \in HoldFrom(sooner, t) => s \in sooner
    BY DEF HoldFrom
  <2>2. \A s \in sooner : s \in 0..now /\ s \in Nat
    <3>1. \A s \in sooner : s \in Nat /\ s =< upTo
      BY <1>0, <1>2, <1>3
    <3> HIDE DEF sooner
    <3>2. QED
      BY <1>0, <3>1
  <2>3. \A s \in sooner : s \in Steady(d) <=> s \in Steady(d)'
    BY <1>4, <2>2 DEF Steady
  <2> HIDE DEF sooner
  <2>4. QED
    BY <2>1, <2>3 DEF HoldsAmong
<1>6. /\ HoldsAmong(later, Steady(d)') # {}
      /\ Min(HoldsAmong(later, Steady(d)')) = Min(HoldsAmong(sooner, Steady(d)))
  <2> DEFINE steady == Steady(d)'
  <2>1. HoldsAmong({u \in later : u =< upTo}, steady) # {}
    BY <1>1, <1>3, <1>5
  <2> HIDE DEF later, steady
  <2>2. /\ HoldsAmong(later, steady) # {}
        /\ Min(HoldsAmong(later, steady)) = Min(HoldsAmong({u \in later : u =< upTo}, steady))
    BY <1>0, <1>2, <2>1, FirstHoldStays
  <2>3. QED
    BY <1>3, <1>5, <2>2 DEF steady
<1>7. Holds(d, longer)' = HoldsAmong(later, Steady(d)')
  <2>1. \A t, s : s \in HoldFrom(later, t) => s \in Nat
    BY <1>2 DEF HoldFrom
  <2>2. QED
    BY <2>1 DEF Holds, HoldsAmong, Steady
<1>8. Holds(d, longer)' # {} /\ Min(Holds(d, longer)') = Min(Holds(d, upTo))
  BY <1>1, <1>6, <1>7
<1>9. BackToNormal(d, longer)' = Min(Holds(d, longer)') - d.ended
  BY <1>1, <1>4, <1>8 DEF BackToNormal
<1>10. BackToNormal(d, upTo) = Min(Holds(d, upTo)) - d.ended
  BY <1>1 DEF BackToNormal
<1>11. QED
  BY <1>8, <1>9, <1>10

\* The same samples, the same answer.
LEMMA SameAnswer ==
    ASSUME LedgerTypes, SamplesKept, NEW d, d.started \in Nat, d.ended \in Nat, d.started =< now,
           NEW upTo \in 0..now
    PROVE  BackToNormal(d, upTo)' = BackToNormal(d, upTo)
<1> DEFINE after == After(d, upTo)
<1>1. Before(d)' = Before(d) /\ after' = after /\ (\A t \in 0..now : Within(d, t)' <=> Within(d, t))
  BY SameSamples
<1>2. \A s \in after : s \in 0..now
  <2>1. \A s \in after : s \in Nat /\ s =< upTo
    BY DEF After
  <2> HIDE DEF after
  <2>2. QED
    BY <2>1 DEF LedgerTypes
<1>3. \A t, s : s \in HoldFrom(after, t) => s \in after
  BY DEF HoldFrom
<1>4. Holds(d, upTo)' = Holds(d, upTo)
  BY <1>1, <1>2, <1>3 DEF Holds
<1>5. QED
  BY <1>1, <1>4 DEF BackToNormal
\* The answer x on a deploy is the one all the samples there are give, and no
\* later sample will change it: checkout settled, or had its time to.
IsForGood(d, x) ==
    /\ x = BackToNormal(d, Earlier(now, d.ended + SETTLE))
    /\ x # NotYet \/ now >= d.ended + SETTLE

\* What an annotation says.
Said(a) == IsForGood(a, a.normal) /\ a.started =< now

AllSaid == \A a \in {annotations[i] : i \in DOMAIN annotations} : Said(a)

\* What a job is about to say.
AboutToSay(j) ==
    pc[j] = "post" => \A d \in {Oldest(queue[j])}, x \in {normal[j]} : IsForGood(d, x)

SaidInv == AllSaid /\ \A j \in Annotators : AboutToSay(j)

\* An answer a job had at the time r, which may be some time ago, is for good.
LEMMA SettledForGood ==
    ASSUME LedgerTypes, SamplesKept, NEW d, d.started \in Nat, d.ended \in Nat, d.started =< now,
           NEW r \in 0..now, NEW n \in Nat, now' = n, now =< n, NEW x,
           x = BackToNormal(d, Earlier(r, d.ended + SETTLE)),
           x # NotYet \/ r >= d.ended + SETTLE
    PROVE  IsForGood(d, x)'
<1> DEFINE s == d.ended + SETTLE
           sooner == Earlier(r, s)
           longer == Earlier(n, s)
<1>0. now \in Nat /\ r \in Nat /\ r =< now /\ s \in Nat /\ n \in Nat /\ now =< n
  BY DeployAssumption DEF LedgerTypes
<1> HIDE DEF s
<1>1. /\ sooner \in Nat /\ sooner =< r /\ longer \in Nat /\ sooner =< longer
      /\ r >= s => sooner = s /\ longer = s /\ n >= s
  BY <1>0 DEF Earlier
<1> HIDE DEF sooner, longer
<1>2. sooner \in 0..now
  BY <1>0, <1>1
<1>3. x = BackToNormal(d, sooner)
  BY DEF sooner, s
<1>4. x = BackToNormal(d, longer)'
  <2>1. CASE x # NotYet
    BY <1>1, <1>2, <1>3, <2>1, AnswerStays
  <2>2. CASE ~(x # NotYet)
    <3>1. r >= s
      BY <2>2 DEF s
    <3>2. sooner = longer
      BY <1>1, <3>1
    <3>3. BackToNormal(d, sooner)' = BackToNormal(d, sooner)
      BY <1>2, SameAnswer
    <3>4. QED
      BY <1>3, <3>2, <3>3
  <2>3. QED
    BY <2>1, <2>2
<1>5. x # NotYet \/ n >= s
  <2>1. CASE x # NotYet
    BY <2>1
  <2>2. CASE ~(x # NotYet)
    <3>1. r >= s
      BY <2>2 DEF s
    <3>2. QED
      BY <1>1, <3>1
  <2>3. QED
    BY <2>1, <2>2
<1>6. QED
  BY <1>4, <1>5 DEF IsForGood, longer, s, Earlier

LEMMA StaysForGood ==
    ASSUME LedgerTypes, SamplesKept, NEW d, d.started \in Nat, d.ended \in Nat, d.started =< now,
           NEW n \in Nat, now' = n, now =< n, NEW x, IsForGood(d, x)
    PROVE  IsForGood(d, x)'
<1>1. now \in 0..now
  BY DEF LedgerTypes
<1>2. QED
  BY <1>1, SettledForGood DEF IsForGood
LEMMA NoStepUndoesThePast ==
    ASSUME LedgerInv, [DeployNext]_dvars
    PROVE  SamplesKept /\ \E n \in Nat : now' = n /\ now =< n
<1>0. now \in Nat
  BY DEF LedgerInv, LedgerTypes
<1>1. CASE Tick
  <2>1. PICK v \in Durations : samples' = Append(samples, v)
    BY <1>1, TickKeepsTheInvariant
  <2>2. samples \in Seq(Durations) /\ Len(samples) = now + 1
    BY DEF LedgerInv, LedgerTypes
  <2>3. \A t \in 0..now : t + 1 \in 1..Len(samples)
    BY <1>0, <2>2
  <2>4. SamplesKept
    BY <2>1, <2>2, <2>3 DEF SamplesKept
  <2>5. now' = now + 1
    BY <1>1 DEF Tick
  <2>6. QED
    BY <1>0, <2>4, <2>5
<1>2. CASE ~Tick
  <2>1. UNCHANGED <<now, samples>>
    BY <1>2, LedgerSteps, BeginAnnotateStep, AskStep, WeighStep, PostStep, BeginJournalStep,
       AppendEventStep, FailStep
       DEF dvars, AppendRecord, Annotate, RecordDora, Outside
  <2>2. QED
    BY <1>0, <2>1 DEF SamplesKept
<1>3. QED
  BY <1>1, <1>2

LEMMA SaidStays ==
    ASSUME LedgerInv, [DeployNext]_dvars, NEW a \in Annotations, Said(a)
    PROVE  Said(a)'
<1>1. a.started \in Nat /\ a.ended \in Nat /\ a.started =< now /\ LedgerTypes /\ now \in Nat
  BY DEF Annotations, Said, LedgerInv, LedgerTypes
<1>2. SamplesKept /\ \E n \in Nat : now' = n /\ now =< n
  BY NoStepUndoesThePast
<1>3. IsForGood(a, a.normal)'
  BY <1>1, <1>2, StaysForGood DEF Said
<1>4. a.started =< now'
  <2> DEFINE start == a.started
  <2>1. start \in Nat /\ start =< now /\ now \in Nat
    BY <1>1
  <2> HIDE DEF start
  <2>2. start =< now'
    BY <1>2, <2>1
  <2>3. QED
    BY <2>2 DEF start
<1>5. QED
  BY <1>3, <1>4 DEF Said

\* What a job is about to say stays true while the job does not move.
LEMMA AboutToSayStays ==
    ASSUME LedgerInv, [DeployNext]_dvars, NEW j \in Annotators, AboutToSay(j),
           pc'[j] = pc[j], queue'[j] = queue[j], normal'[j] = normal[j]
    PROVE  AboutToSay(j)'
<1> SUFFICES ASSUME pc[j] = "post" PROVE AboutToSay(j)'
  BY DEF AboutToSay
<1>1. PICK d \in {Oldest(queue[j])}, x \in {normal[j]} : IsForGood(d, x)
  BY DEF AboutToSay
<1>2. j \in Jobs /\ LedgerTypes
  BY DEF Jobs, LedgerInv
<1>3. d \in Deploys /\ d.started =< now
  BY <1>1, <1>2, AtHand
<1>4. d.started \in Nat /\ d.ended \in Nat
  BY <1>3 DEF Deploys
<1>5. SamplesKept /\ \E n \in Nat : now' = n /\ now =< n
  BY NoStepUndoesThePast
<1>6. IsForGood(d, x)'
  BY <1>1, <1>2, <1>3, <1>4, <1>5, StaysForGood
<1>7. d = Oldest(queue'[j]) /\ x = normal'[j]
  BY <1>1
<1>8. QED
  BY <1>6, <1>7 DEF AboutToSay

\* The annotation of a deploy says of it what back_to_normal says.
LEMMA SameSpan ==
    ASSUME NEW d, NEW a, a.started = d.started, a.ended = d.ended, NEW x
    PROVE  IsForGood(a, x) <=> IsForGood(d, x)
<1>1. Before(a) = Before(d) /\ \A upTo : After(a, upTo) = After(d, upTo)
  BY DEF Before, After
<1>2. \A t : Within(a, t) <=> Within(d, t)
  BY <1>1 DEF Within
<1>3. \A upTo : Holds(a, upTo) = Holds(d, upTo)
  BY <1>1, <1>2 DEF Holds
<1>4. \A upTo : BackToNormal(a, upTo) = BackToNormal(d, upTo)
  BY <1>1, <1>3 DEF BackToNormal
<1>5. QED
  BY <1>4 DEF IsForGood

LEMMA WeighedForGood ==
    ASSUME LedgerInv, [DeployNext]_dvars, NEW j \in Annotators, Weigh(j)
    PROVE  AboutToSay(j)'
<1>1. j \in Jobs /\ pc[j] = "weigh" /\ LedgerTypes /\ now \in Nat
  BY WeighStep DEF Jobs, LedgerInv, LedgerTypes
<1>2. CASE MovesOn(j, "ask")
  BY <1>2 DEF MovesOn, AboutToSay
<1>3. CASE ~MovesOn(j, "ask")
  <2>1. /\ StaysOn(j, "post")
        /\ normal'[j] = BackToNormal(Oldest(queue[j]), Until(j))
        /\ normal'[j] # NotYet \/ ~(readAt[j] - Oldest(queue[j]).ended < SETTLE)
    BY <1>3, WeighStep
  <2>2. PICK d, x, r : d = Oldest(queue[j]) /\ x = normal'[j] /\ r = readAt[j]
    OBVIOUS
  <2>3. d \in Deploys /\ d.started =< now
    BY <1>1, <2>2, AtHand
  <2>4. d.started \in Nat /\ d.ended \in Nat /\ SETTLE \in Nat
    BY <2>3, DeployAssumption DEF Deploys
  <2>5. r \in Nat /\ r =< now
    BY <1>1, <2>2 DEF LedgerInv, JobTypes, Fits
  <2>6. r \in 0..now
    BY <1>1, <2>5
  <2>7. x = BackToNormal(d, Earlier(r, d.ended + SETTLE))
    BY <2>1, <2>2 DEF Until
  <2>8. x # NotYet \/ r >= d.ended + SETTLE
    <3> DEFINE end == d.ended
    <3>1. x # NotYet \/ ~(r - end < SETTLE)
      BY <2>1, <2>2
    <3>2. end \in Nat
      BY <2>4
    <3> HIDE DEF end
    <3>3. ~(r - end < SETTLE) => r >= end + SETTLE
      BY <2>4, <2>5, <3>2
    <3>4. QED
      BY <3>1, <3>3 DEF end
  <2>9. SamplesKept /\ \E n \in Nat : now' = n /\ now =< n
    BY NoStepUndoesThePast
  <2>10. IsForGood(d, x)'
    BY <1>1, <2>3, <2>4, <2>6, <2>7, <2>8, <2>9, SettledForGood
  <2>11. d = Oldest(queue'[j]) /\ x = normal'[j]
    BY <2>1, <2>2 DEF StaysOn
  <2>12. QED
    BY <2>10, <2>11 DEF AboutToSay
<1>4. QED
  BY <1>2, <1>3
LEMMA TheOthersAboutToSay ==
    ASSUME LedgerInv, [DeployNext]_dvars, NEW j \in Jobs, OthersUntouched(j),
           NEW i \in Annotators, i # j, AboutToSay(i)
    PROVE  AboutToSay(i)'
<1>1. i \in Jobs \ {j}
  BY DEF Jobs
<1>2. QED
  BY <1>1, AboutToSayStays DEF OthersUntouched

\* No annotation says of a deploy what a later look at checkout would not,
\* whatever the jobs, the samples and the failures.
THEOREM AnnotationsAreForGood == DeploySpec => []SaidForGood
<1>1. DeployInit => SaidInv
  BY DEF DeployInit, SaidInv, AllSaid, AboutToSay, Jobs
<1>2. LedgerInv /\ SaidInv /\ [DeployNext]_dvars => SaidInv'
  <2> SUFFICES ASSUME LedgerInv, SaidInv, [DeployNext]_dvars PROVE SaidInv'
    OBVIOUS
  <2>1. ASSUME UNCHANGED annotations PROVE AllSaid'
    <3>1. \A i \in DOMAIN annotations : annotations[i] \in Annotations
      BY DEF LedgerInv
    <3>2. ASSUME NEW i \in DOMAIN annotations', NEW a, a = annotations'[i] PROVE Said(a)'
      <4>1. i \in DOMAIN annotations /\ a = annotations[i]
        BY <2>1, <3>2
      <4>2. a \in Annotations /\ Said(a)
        BY <3>1, <4>1 DEF SaidInv, AllSaid
      <4>3. QED
        BY <4>2, SaidStays
    <3>3. QED
      BY <3>2 DEF AllSaid
  <2>2. CASE \/ UNCHANGED dvars \/ Tick
             \/ \E rel \in Releases : \E e \in {"deploy.started"} \cup Ends : AppendRecord(rel, e)
    <3>1. UNCHANGED <<annotations, pc, queue, normal>>
      BY <2>2 DEF dvars, jobVars, Tick, AppendRecord
    <3>2. \A j \in Annotators : AboutToSay(j)'
      BY <3>1, AboutToSayStays DEF SaidInv
    <3>3. QED
      BY <2>1, <3>1, <3>2 DEF SaidInv
  <2>3. CASE \E j \in Journalers : RecordDora(j)
    <3>1. PICK j \in Journalers : RecordDora(j)
      BY <2>3
    <3>2. OthersUntouched(j) /\ UNCHANGED annotations
      BY <3>1, BeginJournalStep, AppendEventStep DEF RecordDora
    <3>3. j \in Jobs /\ j \notin Annotators
      BY DeployAssumption DEF Jobs
    <3>4. \A i \in Annotators : AboutToSay(i)'
      BY <3>2, <3>3, TheOthersAboutToSay DEF SaidInv
    <3>5. QED
      BY <2>1, <3>2, <3>4 DEF SaidInv
  <2>4. CASE \E j \in Jobs : Fail(j)
    <3>1. PICK j \in Jobs : Fail(j)
      BY <2>4
    <3>2. OthersUntouched(j) /\ UNCHANGED annotations /\ MovesOn(j, "idle")
      BY <3>1, FailStep
    <3>3. ASSUME NEW i \in Annotators PROVE AboutToSay(i)'
      <4>1. CASE i = j
        BY <3>2, <4>1 DEF MovesOn, AboutToSay
      <4>2. CASE i # j
        BY <3>2, <4>2, TheOthersAboutToSay DEF SaidInv
      <4>3. QED
        BY <4>1, <4>2
    <3>4. QED
      BY <2>1, <3>2, <3>3 DEF SaidInv
  <2>5. CASE \E j \in Annotators : Annotate(j)
    <3>1. PICK j \in Annotators : Annotate(j)
      BY <2>5
    <3>2. j \in Jobs /\ OthersUntouched(j)
      BY <3>1, BeginAnnotateStep, AskStep, WeighStep, PostStep DEF Annotate, Jobs
    <3>3. AboutToSay(j)'
      <4>1. CASE Weigh(j)
        BY <4>1, WeighedForGood
      <4>2. CASE BeginAnnotate(j) \/ Ask(j) \/ Post(j)
        <5>1. pc'[j] # "post"
          BY <4>2, BeginAnnotateStep, AskStep, PostStep DEF Begins, MovesOn, StaysOn
        <5>2. QED
          BY <5>1 DEF AboutToSay
      <4>3. QED
        BY <3>1, <4>1, <4>2 DEF Annotate
    <3>4. \A i \in Annotators : AboutToSay(i)'
      BY <3>2, <3>3, TheOthersAboutToSay DEF SaidInv
    <3>5. AllSaid'
      <4>1. CASE ~Post(j)
        BY <2>1, <3>1, <4>1, BeginAnnotateStep, AskStep, WeighStep DEF Annotate
      <4>2. CASE Post(j)
        <5>1. /\ Annotation(j) \in Annotations /\ pc[j] = "post"
              /\ annotations' = Append(annotations, Annotation(j))
          BY <4>2, PostStep
        <5>2. PICK b, d, x : b = Annotation(j) /\ d = Oldest(queue[j]) /\ x = normal[j]
          OBVIOUS
        <5>3. d \in Deploys /\ d.started =< now
          BY <3>2, <5>1, <5>2, AtHand
        <5>4. b.started = d.started /\ b.ended = d.ended /\ b.normal = x
          BY <5>2, <5>3 DEF Annotation, Deploys
        <5>5. IsForGood(d, x)
          BY <5>1, <5>2 DEF SaidInv, AboutToSay
        <5>6. Said(b)
          BY <5>3, <5>4, <5>5, SameSpan DEF Said
        <5>7. annotations \in Seq(Annotations) /\ b \in Annotations
          BY <5>1, <5>2 DEF LedgerInv
        <5>8. ASSUME NEW i \in DOMAIN annotations', NEW a, a = annotations'[i] PROVE Said(a)'
          <6>1. a = b \/ (i \in DOMAIN annotations /\ a = annotations[i])
            BY <5>1, <5>2, <5>7, <5>8, AppendProperties
          <6>2. a \in Annotations /\ Said(a)
            <7>1. CASE a = b
              BY <5>6, <5>7, <7>1
            <7>2. CASE i \in DOMAIN annotations /\ a = annotations[i]
              <8>1. a \in Annotations
                BY <5>7, <7>2
              <8>2. Said(a)
                BY <7>2 DEF SaidInv, AllSaid
              <8>3. QED
                BY <8>1, <8>2
            <7>3. QED
              BY <6>1, <7>1, <7>2
          <6>3. QED
            BY <6>2, SaidStays
        <5>9. QED
          BY <5>8 DEF AllSaid
      <4>3. QED
        BY <4>1, <4>2
    <3>6. QED
      BY <3>4, <3>5 DEF SaidInv
  <2>6. QED
    BY <2>2, <2>3, <2>4, <2>5, LedgerSteps
<1>3. SaidInv => SaidForGood
  BY DEF SaidInv, AllSaid, Said, IsForGood, SaidForGood
<1>4. QED
  BY <1>1, <1>2, <1>3, LedgerInvariant, PTL DEF DeploySpec
-----------------------------------------------------------------------------
(* The journal.                                                            *)

JournalEvents == [kind : Kinds \cup {"unreadable"}, at : Nat \cup {Naive}]

JournalTypes ==
    /\ lines \in Seq(JournalEvents) /\ recorded \in Seq(JournalEvents)
    /\ ended \in BOOLEAN /\ cuts \in Nat
    /\ cuts = 0 => ended

\* A journal that an export can read is what was recorded, but for one line
\* more, whole and without its newline.
NothingIsPassedOver ==
    ~Raises =>
        IF ended THEN lines = recorded ELSE \E e \in JournalEvents : lines = Append(recorded, e)

JournalInv == JournalTypes /\ (ended \/ Len(lines) > 0) /\ NothingIsPassedOver

LEMMA EventsAreTyped ==
    /\ \A k \in Kinds, t \in Times \cup {Naive} : Event(k, t) \in JournalEvents
    /\ Unreadable \in JournalEvents /\ Unreadable.at = Naive
<1>1. MaxAt \in Nat
  BY JournalAssumption
<1>2. Times \subseteq Nat
  BY <1>1 DEF Times
<1>3. QED
  BY <1>2 DEF Event, Unreadable, JournalEvents

\* What one more write leaves of the lines.
LEMMA WrittenLines ==
    ASSUME JournalInv, NEW e \in JournalEvents, lines' = Written(e)
    PROVE  /\ lines' \in Seq(JournalEvents) /\ Len(lines') > 0
           /\ ~Raises' => ended /\ ~Raises /\ lines = recorded /\ lines' = Append(recorded, e)
<1> DEFINE n == Len(lines)
<1>1. lines \in Seq(JournalEvents) /\ n \in Nat /\ DOMAIN lines = 1..n
  BY DEF JournalInv, JournalTypes
<1>2. CASE ended
  <2> DEFINE longer == Append(lines, e)
  <2>1. /\ longer \in Seq(JournalEvents) /\ Len(longer) = n + 1 /\ DOMAIN longer = 1..n + 1
        /\ \A i \in 1..n : longer[i] = lines[i]
    BY <1>1, AppendProperties
  <2>2. lines' = longer
    BY <1>2 DEF Written
  <2> HIDE DEF longer, n
  <2>3. n + 1 > 0 /\ \A i \in 1..n : i \in 1..n + 1
    BY <1>1
  <2>4. Raises => Raises'
    BY <1>1, <2>1, <2>2, <2>3 DEF Raises
  <2>5. QED
    BY <1>2, <2>1, <2>2, <2>3, <2>4 DEF JournalInv, NothingIsPassedOver, longer
<1>3. CASE ~ended
  <2> DEFINE spoiled == [lines EXCEPT ![n] = Unreadable]
  <2>1. n \in 1..n
    BY <1>1, <1>3 DEF JournalInv
  <2>2. spoiled \in Seq(JournalEvents) /\ Len(spoiled) = n
    BY <1>1, <2>1, EventsAreTyped
  <2>3. DOMAIN spoiled = 1..n /\ spoiled[n] = Unreadable
    BY <1>1, <2>1
  <2>4. lines' = spoiled /\ n > 0
    BY <1>3 DEF Written, JournalInv
  <2> HIDE DEF spoiled, n
  <2>5. Raises'
    BY <2>1, <2>3, <2>4, EventsAreTyped DEF Raises
  <2>6. QED
    BY <2>2, <2>4, <2>5
<1>4. QED
  BY <1>2, <1>3

LEMMA JournalSteps == JournalInv /\ [JournalNext]_jvars => JournalInv'
<1> SUFFICES ASSUME JournalInv, [JournalNext]_jvars PROVE JournalInv'
  OBVIOUS
<1>1. CASE UNCHANGED jvars
  BY <1>1 DEF jvars, JournalInv, JournalTypes, NothingIsPassedOver, Raises
<1>2. ASSUME NEW k \in Kinds, NEW t \in Times \cup {Naive}, RecordEvent(Event(k, t))
      PROVE  JournalInv'
  <2> DEFINE e == Event(k, t)
  <2>1. e \in JournalEvents
    BY EventsAreTyped
  <2> HIDE DEF e
  <2>2. lines' = Written(e) /\ ended' = TRUE /\ recorded' = Append(recorded, e) /\ cuts' = cuts
    BY <1>2 DEF RecordEvent, e
  <2>3. /\ lines' \in Seq(JournalEvents) /\ Len(lines') > 0
        /\ ~Raises' => lines' = Append(recorded, e)
    BY <2>1, <2>2, WrittenLines
  <2>4. recorded' \in Seq(JournalEvents)
    BY <2>1, <2>2 DEF JournalInv, JournalTypes
  <2>5. QED
    BY <2>2, <2>3, <2>4 DEF JournalInv, JournalTypes, NothingIsPassedOver
<1>3. ASSUME NEW k \in Kinds, NEW t \in Times \cup {Naive}, CutShort(Event(k, t))
      PROVE  JournalInv'
  <2>1. PICK e \in JournalEvents : lines' = Written(e)
    BY <1>3, EventsAreTyped DEF CutShort
  <2>2. ended' = FALSE /\ recorded' = recorded /\ cuts' = cuts + 1
    BY <1>3 DEF CutShort
  <2>3. /\ lines' \in Seq(JournalEvents) /\ Len(lines') > 0
        /\ ~Raises' => lines' = Append(recorded, e)
    BY <2>1, WrittenLines
  <2>4. cuts' \in Nat /\ cuts' # 0
    BY <2>2 DEF JournalInv, JournalTypes
  <2>5. QED
    BY <2>2, <2>3, <2>4 DEF JournalInv, JournalTypes, NothingIsPassedOver
<1>4. QED
  BY <1>1, <1>2, <1>3 DEF JournalNext

\* An export that does not raise counts every event that was recorded in its
\* window (dora.py:65-81), for any journal and any appends cut short.
THEOREM ExportsAreWhole == JournalSpec => []ExportIsWhole
<1>1. JournalInit => JournalInv
  BY DEF JournalInit, JournalInv, JournalTypes, NothingIsPassedOver
<1>2. JournalInv => ExportIsWhole
  <2> SUFFICES ASSUME JournalInv, ~Raises, NEW from \in Times
               PROVE  LET figures == ComputeMetrics(lines, LoadEvents(Raises, from).events)
                          known == ComputeMetrics(recorded, Since(recorded, from))
                      IN  /\ figures.deploys >= known.deploys
                          /\ figures.failed >= known.failed
                          /\ cuts = 0 => figures = known
    BY DEF ExportIsWhole, LoadEvents
  <2> DEFINE window == Since(lines, from)
             told == Since(recorded, from)
  <2>1. LoadEvents(Raises, from).events = window
    BY DEF LoadEvents, Raises, Since
  <2>2. /\ lines \in Seq(JournalEvents) /\ recorded \in Seq(JournalEvents)
        /\ cuts = 0 => lines = recorded
    BY DEF JournalInv, JournalTypes, NothingIsPassedOver
  <2>3. \A i \in DOMAIN recorded : i \in DOMAIN lines /\ lines[i] = recorded[i]
    <3>1. CASE ended
      BY <3>1 DEF JournalInv, NothingIsPassedOver
    <3>2. CASE ~ended
      <4>1. PICK e \in JournalEvents : lines = Append(recorded, e)
        BY <3>2 DEF JournalInv, NothingIsPassedOver
      <4>2. QED
        BY <2>2, <4>1, AppendProperties
    <3>3. QED
      BY <3>1, <3>2
  <2>4. \A kinds : OfKinds(recorded, told, kinds) \subseteq OfKinds(lines, window, kinds)
    BY <2>3 DEF OfKinds, Since
  <2>5. \A kinds : /\ IsFiniteSet(OfKinds(lines, window, kinds))
                   /\ Cardinality(OfKinds(lines, window, kinds)) \in Nat
    <3> SUFFICES ASSUME NEW kinds
                 PROVE  /\ IsFiniteSet(OfKinds(lines, window, kinds))
                        /\ Cardinality(OfKinds(lines, window, kinds)) \in Nat
      OBVIOUS
    <3>1. Len(lines) \in Nat /\ DOMAIN lines = 1..Len(lines)
      BY <2>2
    <3>2. IsFiniteSet(1..Len(lines))
      BY <3>1, FS_Interval
    <3>3. OfKinds(lines, window, kinds) \in SUBSET (1..Len(lines))
      BY <3>1 DEF OfKinds, Since
    <3>4. QED
      BY <3>2, <3>3, FS_Subset, FS_CardinalityType
  <2>6. \A kinds : Cardinality(OfKinds(recorded, told, kinds)) =< Cardinality(OfKinds(lines, window, kinds))
    BY <2>4, <2>5, FS_Subset
  <2>7. \A kinds : Cardinality(OfKinds(recorded, told, kinds)) \in Nat
    BY <2>4, <2>5, FS_Subset, FS_CardinalityType
  <2>8. cuts = 0 => ComputeMetrics(lines, window) = ComputeMetrics(recorded, told)
    BY <2>2
  <2> HIDE DEF window, told
  <2>9. /\ ComputeMetrics(lines, window).deploys >= ComputeMetrics(recorded, told).deploys
        /\ ComputeMetrics(lines, window).failed >= ComputeMetrics(recorded, told).failed
    <3> DEFINE D == {"deploy", "failed deploy"}
               F == {"failed deploy"}
               size(j, e, kinds) == Cardinality(OfKinds(j, e, kinds))
    <3>1. /\ ComputeMetrics(lines, window).deploys = size(lines, window, D)
          /\ ComputeMetrics(recorded, told).deploys = size(recorded, told, D)
          /\ ComputeMetrics(lines, window).failed = size(lines, window, F)
          /\ ComputeMetrics(recorded, told).failed = size(recorded, told, F)
      BY DEF ComputeMetrics
    <3>2. \A kinds : /\ size(lines, window, kinds) \in Nat /\ size(recorded, told, kinds) \in Nat
                     /\ size(recorded, told, kinds) =< size(lines, window, kinds)
      BY <2>5, <2>6, <2>7
    <3> HIDE DEF size, D, F
    <3>3. QED
      BY <3>1, <3>2
  <2>10. QED
    BY <2>1, <2>8, <2>9 DEF told
<1>3. QED
  BY <1>1, <1>2, JournalSteps, PTL DEF JournalSpec
-----------------------------------------------------------------------------
(* The pairs of the journal.  What is proved of a set of its lines is proved *)
(* by induction: there is no least counterexample.  The induction is over a  *)
(* set, of numbers or of sets of lines, that all are shown to belong to.     *)

LEMMA EveryNatural ==
    ASSUME NEW G, 0 \in G, \A n \in G : n \in Nat => n + 1 \in G
    PROVE  Nat \subseteq G
<1> DEFINE Bad == {n \in Nat : n \notin G}
<1> SUFFICES ASSUME Bad # {} PROVE FALSE
  OBVIOUS
<1>1. PICK n \in Bad : \A m \in Bad : n =< m
  BY LeastNatural
<1>2. n \in Nat /\ n # 0
  BY <1>1
<1>3. PICK m \in Nat : n = m + 1
  <2>1. n - 1 \in Nat /\ n = (n - 1) + 1
    BY <1>2
  <2>2. QED
    BY <2>1
<1>4. ~(n =< m)
  BY <1>2, <1>3
<1>5. m \in G
  BY <1>1, <1>3, <1>4
<1>6. QED
  BY <1>1, <1>3, <1>5

\* The times of some lines are known.
Timed(log, S) == IsFiniteSet(S) /\ S \subseteq Nat /\ \A i \in S : log[i].at \in Nat

LEMMA PartOfTimed ==
    ASSUME NEW log, NEW S, Timed(log, S), NEW T \in SUBSET S
    PROVE  Timed(log, T)
BY FS_Subset DEF Timed

LEMMA NotAfterIsAnOrder ==
    ASSUME NEW log, NEW S, Timed(log, S)
    PROVE  /\ \A i, k \in S : NotAfter(log, i, k) \/ NotAfter(log, k, i)
           /\ \A i, k \in S : NotAfter(log, i, k) /\ NotAfter(log, k, i) => i = k
           /\ \A i, k, l \in S : NotAfter(log, i, k) /\ NotAfter(log, k, l) => NotAfter(log, i, l)
           /\ \A i \in S : NotAfter(log, i, i)
           /\ \A i, k \in S : NotAfter(log, i, k) => log[i].at =< log[k].at
<1> DEFINE time(i) == log[i].at
<1>1. \A i \in S : i \in Nat /\ time(i) \in Nat
  BY DEF Timed
<1>2. \A i, k \in S : NotAfter(log, i, k) <=> (time(i) < time(k) \/ (time(i) = time(k) /\ i =< k))
  BY DEF NotAfter
<1> HIDE DEF time
<1>3. /\ \A i, k \in S : NotAfter(log, i, k) \/ NotAfter(log, k, i)
      /\ \A i, k \in S : NotAfter(log, i, k) /\ NotAfter(log, k, i) => i = k
  BY <1>1, <1>2
<1>4. \A i, k, l \in S : NotAfter(log, i, k) /\ NotAfter(log, k, l) => NotAfter(log, i, l)
  BY <1>1, <1>2
<1>5. \A i \in S : NotAfter(log, i, i)
  BY <1>1, <1>2
<1>6. \A i, k \in S : NotAfter(log, i, k) => time(i) =< time(k)
  BY <1>1, <1>2
<1>7. QED
  BY <1>3, <1>4, <1>5, <1>6 DEF time

\* A finite set of lines has a first and a last: the line with the fewest before
\* it, or after it.
LEMMA EarliestIsThere ==
    ASSUME NEW log, NEW S, Timed(log, S), S # {}
    PROVE  Earliest(log, S) \in S /\ \A k \in S : NotAfter(log, Earliest(log, S), k)
<1> DEFINE before(i) == {k \in S : ~NotAfter(log, i, k)}
           Sizes == {Cardinality(before(i)) : i \in S}
<1>1. \A i \in S : IsFiniteSet(before(i)) /\ Cardinality(before(i)) \in Nat
  BY FS_Subset, FS_CardinalityType DEF Timed
<1>2. PICK n \in Sizes : \A m \in Sizes : n =< m
  <2>1. Sizes \in SUBSET Nat /\ Sizes # {}
    BY <1>1
  <2> HIDE DEF Sizes
  <2>2. QED
    BY <2>1, LeastNatural
<1>3. PICK i \in S : n = Cardinality(before(i))
  BY <1>2
<1>4. ASSUME NEW k \in S, ~NotAfter(log, i, k) PROVE FALSE
  <2>1. before(k) \subseteq before(i) /\ k \in before(i) /\ k \notin before(k)
    BY <1>4, NotAfterIsAnOrder
  <2>2. Cardinality(before(k)) =< n /\ Cardinality(before(k)) # n
    <3> HIDE DEF before
    <3>1. QED
      BY <1>1, <1>3, <2>1, FS_Subset
  <2>3. n =< Cardinality(before(k))
    BY <1>2
  <2> HIDE DEF before
  <2>4. n \in Nat /\ Cardinality(before(k)) \in Nat
    BY <1>1, <1>3
  <2>5. QED
    BY <2>2, <2>3, <2>4
<1>5. QED
  BY <1>3, <1>4 DEF Earliest

LEMMA LatestIsThere ==
    ASSUME NEW log, NEW S, Timed(log, S), S # {}
    PROVE  Latest(log, S) \in S /\ \A k \in S : NotAfter(log, k, Latest(log, S))
<1> DEFINE after(i) == {k \in S : ~NotAfter(log, k, i)}
           Sizes == {Cardinality(after(i)) : i \in S}
<1>1. \A i \in S : IsFiniteSet(after(i)) /\ Cardinality(after(i)) \in Nat
  BY FS_Subset, FS_CardinalityType DEF Timed
<1>2. PICK n \in Sizes : \A m \in Sizes : n =< m
  <2>1. Sizes \in SUBSET Nat /\ Sizes # {}
    BY <1>1
  <2> HIDE DEF Sizes
  <2>2. QED
    BY <2>1, LeastNatural
<1>3. PICK i \in S : n = Cardinality(after(i))
  BY <1>2
<1>4. ASSUME NEW k \in S, ~NotAfter(log, k, i) PROVE FALSE
  <2>1. after(k) \subseteq after(i) /\ k \in after(i) /\ k \notin after(k)
    BY <1>4, NotAfterIsAnOrder
  <2>2. Cardinality(after(k)) =< n /\ Cardinality(after(k)) # n
    <3> HIDE DEF after
    <3>1. QED
      BY <1>1, <1>3, <2>1, FS_Subset
  <2>3. n =< Cardinality(after(k))
    BY <1>2
  <2> HIDE DEF after
  <2>4. n \in Nat /\ Cardinality(after(k)) \in Nat
    BY <1>1, <1>3
  <2>5. QED
    BY <2>2, <2>3, <2>4
<1>5. QED
  BY <1>3, <1>4 DEF Latest

\* Every part of a finite set of lines belongs to a set that holds the empty part
\* and each part whose last line can be taken away without leaving it.
LEMMA EveryPart ==
    ASSUME NEW log, NEW I, Timed(log, I), NEW G, {} \in G,
           \A S \in SUBSET I : S # {} /\ S \ {Latest(log, S)} \in G => S \in G
    PROVE  SUBSET I \subseteq G
<1> DEFINE Sized(n) == {S \in SUBSET I : Cardinality(S) = n}
           N == {n \in Nat : Sized(n) \subseteq G}
<1>1. 0 \in N
  <2>1. \A S \in SUBSET I : Cardinality(S) = 0 => S = {}
    BY FS_Subset, FS_EmptySet DEF Timed
  <2>2. QED
    BY <2>1
<1>2. ASSUME NEW n \in N PROVE n + 1 \in N
  <2> SUFFICES ASSUME NEW S \in SUBSET I, Cardinality(S) = n + 1 PROVE S \in G
    OBVIOUS
  <2>1. n \in Nat /\ n + 1 # 0 /\ n + 1 - 1 = n
    OBVIOUS
  <2>2. IsFiniteSet(S)
    BY FS_Subset DEF Timed
  <2>3. S # {}
    BY <2>1, FS_EmptySet
  <2>4. Latest(log, S) \in S
    BY <2>3, PartOfTimed, LatestIsThere
  <2> DEFINE last == Latest(log, S)
             rest == S \ {last}
  <2> HIDE DEF last
  <2>5. Cardinality(rest) = Cardinality(S) - 1
    BY <2>2, <2>4, FS_RemoveElement DEF last
  <2>6. Cardinality(rest) = n
    BY <2>1, <2>5
  <2>7. rest \in Sized(n)
    BY <2>6
  <2>8. QED
    BY <2>3, <2>7 DEF last
<1>3. Nat \subseteq N
  <2> HIDE DEF N
  <2>1. QED
    BY <1>1, <1>2, EveryNatural
<1>4. ASSUME NEW S \in SUBSET I PROVE S \in G
  <2>1. Cardinality(S) \in N
    BY <1>3, FS_Subset, FS_CardinalityType DEF Timed
  <2>2. QED
    BY <2>1
<1>5. QED
  BY <1>4

\* The pairs of each part of the incidents, as Pairs computes them.
PairsOfParts(log, incidents, resolves) ==
    CHOOSE pairs : pairs = [S \in SUBSET incidents |->
        IF S = {} THEN {}
        ELSE Pair(log, resolves, pairs[S \ {Latest(log, S)}], Latest(log, S))]

LEMMA PairsAreOfAPart ==
    ASSUME NEW log, NEW events
    PROVE  LET incidents == OfKinds(log, events, {"incident"})
               resolves == OfKinds(log, events, {"resolve"})
           IN  Pairs(log, events) = PairsOfParts(log, incidents, resolves)[incidents]
BY DEF Pairs, PairsOfParts

\* The recursion is well founded: the pairs of a part are computed from those of
\* the part without its last incident.
LEMMA PairsAreComputed ==
    ASSUME NEW log, NEW I, Timed(log, I), NEW R
    PROVE  LET P == PairsOfParts(log, I, R)
           IN  /\ P[{}] = {}
               /\ \A S \in SUBSET I : S # {} =>
                      P[S] = Pair(log, R, P[S \ {Latest(log, S)}], Latest(log, S))
<1> DEFINE FromLess(g, S) == IF S = {} THEN {} ELSE Pair(log, R, g[S \ {Latest(log, S)}], Latest(log, S))
           UpTo(n) == {S \in SUBSET I : Cardinality(S) =< n}
           Computes(g, n) == g = [S \in UpTo(n) |-> FromLess(g, S)]
           N == {n \in Nat : \E g : Computes(g, n)}
<1>1. \A S \in SUBSET I : IsFiniteSet(S) /\ Cardinality(S) \in Nat
  BY FS_Subset, FS_CardinalityType DEF Timed
<1>2. ASSUME NEW n \in Nat, NEW S \in UpTo(n + 1), S # {}
      PROVE  S \ {Latest(log, S)} \in UpTo(n)
  <2> DEFINE last == Latest(log, S)
  <2>1. last \in S
    BY <1>2, PartOfTimed, LatestIsThere
  <2> HIDE DEF last
  <2>2. Cardinality(S \ {last}) = Cardinality(S) - 1
    BY <1>1, <2>1, FS_RemoveElement
  <2> DEFINE size == Cardinality(S)
             less == Cardinality(S \ {last})
  <2>3. size \in Nat /\ size =< n + 1 /\ less = size - 1
    BY <1>1, <2>2
  <2> HIDE DEF size, less
  <2>4. less =< n
    BY <2>3
  <2>5. QED
    BY <2>4 DEF less, last
<1>3. 0 \in N
  <2> DEFINE g == [S \in UpTo(0) |-> {}]
  <2>1. \A S \in UpTo(0) : S = {}
    <3>1. ASSUME NEW S \in UpTo(0) PROVE Cardinality(S) = 0
      BY <1>1
    <3>2. QED
      BY <1>1, <3>1, FS_EmptySet
  <2>2. Computes(g, 0)
    BY <2>1
  <2>3. QED
    BY <2>2
<1>4. ASSUME NEW n \in N PROVE n + 1 \in N
  <2>1. PICK g : Computes(g, n)
    OBVIOUS
  <2>2. n \in Nat
    OBVIOUS
  <2> DEFINE h == [S \in UpTo(n + 1) |-> FromLess(g, S)]
  <2>3. ASSUME NEW S \in UpTo(n) PROVE h[S] = g[S]
    <3>1. S \in UpTo(n + 1)
      <4> DEFINE size == Cardinality(S)
      <4>1. size \in Nat /\ size =< n
        BY <1>1
      <4> HIDE DEF size
      <4>2. size =< n + 1
        BY <2>2, <4>1
      <4>3. QED
        BY <4>2 DEF size
    <3>2. h[S] = FromLess(g, S)
      BY <3>1
    <3> HIDE DEF h, FromLess, UpTo
    <3>3. g[S] = FromLess(g, S)
      BY <2>1
    <3>4. QED
      BY <3>2, <3>3
  <2>4. ASSUME NEW S \in UpTo(n + 1) PROVE FromLess(h, S) = FromLess(g, S)
    <3>1. CASE S = {}
      BY <3>1
    <3>2. CASE S # {}
      <4>1. h[S \ {Latest(log, S)}] = g[S \ {Latest(log, S)}]
        <5> HIDE DEF h, UpTo
        <5>1. QED
          BY <1>2, <2>2, <2>3, <3>2
      <4> HIDE DEF h
      <4>2. QED
        BY <3>2, <4>1
    <3>3. QED
      BY <3>1, <3>2
  <2>5. h = [S \in UpTo(n + 1) |-> FromLess(h, S)]
    <3> DEFINE again == [S \in UpTo(n + 1) |-> FromLess(h, S)]
    <3>1. \A S \in UpTo(n + 1) : FromLess(g, S) = FromLess(h, S)
      BY <2>4
    <3> HIDE DEF FromLess, UpTo
    <3>2. QED
      BY <3>1
  <2>6. QED
    <3> HIDE DEF FromLess, UpTo, h
    <3>1. Computes(h, n + 1)
      BY <2>5
    <3>2. QED
      BY <2>2, <3>1
<1>5. Cardinality(I) \in N
  <2>1. Nat \subseteq N
    <3> HIDE DEF N
    <3>1. QED
      BY <1>3, <1>4, EveryNatural
  <2>2. QED
    BY <1>1, <2>1
<1>6. UpTo(Cardinality(I)) = SUBSET I
  BY FS_Subset DEF Timed
<1>7. PICK g : g = [S \in SUBSET I |-> FromLess(g, S)]
  <2>1. PICK g : Computes(g, Cardinality(I))
    BY <1>5
  <2> HIDE DEF FromLess, UpTo
  <2>2. QED
    BY <1>6, <2>1
<1> DEFINE P == PairsOfParts(log, I, R)
<1>8. P = [S \in SUBSET I |-> FromLess(P, S)]
  BY <1>7 DEF PairsOfParts
<1> HIDE DEF P
<1>9. \A S \in SUBSET I : P[S] = FromLess(P, S)
  <2> HIDE DEF FromLess
  <2>1. QED
    BY <1>8
<1>10. QED
  BY <1>9 DEF P

\* Some pairs have a resolve.
HasResolve(pairs, r) == \E p \in pairs : p[2] = r

\* What pairing the incidents of a part S leaves true: no resolve before the one
\* an incident took was free; and an incident that has none found none free.
PairsFit(log, S, resolves, pairs) ==
    /\ pairs \subseteq S \X resolves
    /\ \A p \in pairs : log[p[1]].at < log[p[2]].at
    /\ \A p, q \in pairs : p[1] = q[1] <=> p[2] = q[2]
    /\ \A p \in pairs, r \in resolves :
           log[p[1]].at < log[r].at /\ log[r].at < log[p[2]].at => HasResolve(pairs, r)
    /\ \A i \in S : \/ \E p \in pairs : p[1] = i
                    \/ \A r \in resolves : log[i].at < log[r].at => HasResolve(pairs, r)

LEMMA OneMorePairFits ==
    ASSUME NEW log, NEW S, Timed(log, S), NEW R, Timed(log, R), NEW i \in S, NEW pairs,
           PairsFit(log, S \ {i}, R, pairs)
    PROVE  PairsFit(log, S, R, Pair(log, R, pairs, i))
<1> DEFINE time(x) == log[x].at
           later == {r \in Left(R, pairs) : time(r) > time(i)}
           next == Pair(log, R, pairs, i)
<1>1. \A x \in S \cup R : time(x) \in Nat
  BY DEF Timed
<1>2. \A r \in R : r \in Left(R, pairs) <=> ~HasResolve(pairs, r)
  BY DEF Left, HasResolve
<1>3. next = IF later = {} THEN pairs ELSE pairs \cup {<<i, Earliest(log, later)>>}
  BY DEF Pair
<1>4. later \subseteq R
  BY DEF Left
<1>5. \A r \in R : time(i) < time(r) => HasResolve(pairs, r) \/ r \in later
  BY <1>1, <1>2
<1>6. CASE later = {}
  <2>1. next = pairs
    BY <1>3, <1>6
  <2>2. \A r \in R : time(i) < time(r) => HasResolve(pairs, r)
    BY <1>5, <1>6
  <2> HIDE DEF next, later
  <2>3. PairsFit(log, S, R, pairs)
    BY <2>2 DEF PairsFit
  <2>4. QED
    BY <2>1, <2>3 DEF next
<1>7. CASE later # {}
  <2> DEFINE r == Earliest(log, later)
             new == <<i, r>>
  <2>1. r \in later /\ \A k \in later : NotAfter(log, r, k)
    BY <1>4, <1>7, PartOfTimed, EarliestIsThere
  <2>2. \A k \in later : time(r) =< time(k)
    BY <1>4, <2>1, NotAfterIsAnOrder
  <2>3. r \in R /\ ~HasResolve(pairs, r) /\ time(i) < time(r)
    BY <1>1, <1>2, <1>4, <2>1
  <2>4. next = pairs \cup {new}
    BY <1>3, <1>7
  <2> HIDE DEF r, later, next
  <2>5. new[1] = i /\ new[2] = r /\ new \in S \X R
    BY <2>3
  <2>6. \A p \in pairs : p \in S \X R /\ p[1] # i /\ p[2] # r
    BY <2>3 DEF PairsFit, HasResolve
  <2> HIDE DEF new
  <2>7. \A x : HasResolve(pairs, x) => HasResolve(next, x)
    BY <2>4 DEF HasResolve
  <2>8. next \subseteq S \X R
    BY <2>4, <2>5, <2>6
  <2>9. \A p \in next : time(p[1]) < time(p[2])
    BY <2>3, <2>4, <2>5 DEF PairsFit
  <2>10. \A p, q \in next : p[1] = q[1] <=> p[2] = q[2]
    BY <2>4, <2>5, <2>6 DEF PairsFit
  <2>11. ASSUME NEW p \in next, NEW x \in R, time(p[1]) < time(x), time(x) < time(p[2])
         PROVE  HasResolve(next, x)
    <3>1. CASE p \in pairs
      BY <2>7, <2>11, <3>1 DEF PairsFit
    <3>2. CASE p = new
      <4>1. time(i) < time(x) /\ time(x) < time(r)
        BY <2>5, <2>11, <3>2
      <4>2. x \notin later
        <5> SUFFICES ASSUME x \in later PROVE FALSE
          OBVIOUS
        <5>1. time(r) =< time(x)
          BY <2>2
        <5>2. time(r) \in Nat /\ time(x) \in Nat
          BY <1>1, <2>3
        <5> HIDE DEF time
        <5>3. QED
          BY <4>1, <5>1, <5>2
      <4>3. QED
        BY <1>5, <2>7, <4>1, <4>2
    <3>3. QED
      BY <2>4, <3>1, <3>2
  <2>12. ASSUME NEW k \in S
         PROVE  \/ \E p \in next : p[1] = k
                \/ \A x \in R : time(k) < time(x) => HasResolve(next, x)
    <3>1. CASE k = i
      BY <2>4, <2>5, <3>1
    <3>2. CASE k # i
      BY <2>4, <2>7, <3>2 DEF PairsFit
    <3>3. QED
      BY <3>1, <3>2
  <2>13. PairsFit(log, S, R, next)
    BY <2>8, <2>9, <2>10, <2>11, <2>12 DEF PairsFit
  <2>14. QED
    BY <2>13 DEF next
<1>8. QED
  BY <1>6, <1>7

LEMMA PairsOfPartsFit ==
    ASSUME NEW log, NEW I, Timed(log, I), NEW R, Timed(log, R)
    PROVE  PairsFit(log, I, R, PairsOfParts(log, I, R)[I])
<1> DEFINE P == PairsOfParts(log, I, R)
           G == {S \in SUBSET I : PairsFit(log, S, R, P[S])}
<1>1. /\ P[{}] = {}
      /\ \A S \in SUBSET I : S # {} =>
             P[S] = Pair(log, R, P[S \ {Latest(log, S)}], Latest(log, S))
  BY PairsAreComputed
<1> HIDE DEF P
<1>2. {} \in G
  BY <1>1 DEF PairsFit
<1>3. ASSUME NEW S \in SUBSET I, S # {}, S \ {Latest(log, S)} \in G PROVE S \in G
  <2>1. Timed(log, S) /\ Latest(log, S) \in S
    BY <1>3, PartOfTimed, LatestIsThere
  <2>2. PairsFit(log, S, R, P[S])
    BY <1>1, <1>3, <2>1, OneMorePairFits
  <2>3. QED
    BY <2>2
<1>4. SUBSET I \subseteq G
  <2> HIDE DEF G
  <2>1. QED
    BY <1>2, <1>3, EveryPart
<1>5. I \in G
  BY <1>4
<1>6. QED
  BY <1>5 DEF P

\* Pairs that fit are as many as there can be: any other pairing can be sent into
\* them, each of its pairs to the one that has its incident, or its resolve if the
\* incident came no earlier than one that found no resolve free.
LEMMA NoPairingIsLarger ==
    ASSUME NEW log, NEW I, Timed(log, I), NEW R, Timed(log, R),
           NEW pairs, PairsFit(log, I, R, pairs),
           NEW M, M \subseteq I \X R,
           \A m \in M : log[m[1]].at < log[m[2]].at,
           \A m, n \in M : m[1] = n[1] <=> m[2] = n[2]
    PROVE  Cardinality(M) =< Cardinality(pairs)
<1> DEFINE time(x) == log[x].at
           spent(i) == \A r \in R : time(i) < time(r) => HasResolve(pairs, r)
           late(m) == \E i \in I : spent(i) /\ time(i) =< time(m[1])
           home(m) == {p \in pairs : IF late(m) THEN p[2] = m[2] ELSE p[1] = m[1]}
           into == [m \in M |-> CHOOSE p \in home(m) : TRUE]
<1>1. \A x \in I \cup R : time(x) \in Nat
  BY DEF Timed
<1>2. /\ \A m \in M : m[1] \in I /\ m[2] \in R /\ m = <<m[1], m[2]>> /\ time(m[1]) < time(m[2])
      /\ \A p \in pairs : p[1] \in I /\ p[2] \in R /\ time(p[1]) < time(p[2])
  BY DEF PairsFit
<1> HIDE DEF time
<1>3. ASSUME NEW m \in M PROVE home(m) # {}
  <2>1. CASE late(m)
    <3>1. PICK i \in I : spent(i) /\ time(i) =< time(m[1])
      BY <2>1
    <3>2. time(i) < time(m[2])
      <4>1. time(i) \in Nat /\ time(m[1]) \in Nat /\ time(m[2]) \in Nat /\ time(m[1]) < time(m[2])
        BY <1>1, <1>2
      <4>2. QED
        BY <3>1, <4>1
    <3>3. HasResolve(pairs, m[2])
      BY <1>2, <3>1, <3>2
    <3> HIDE DEF late
    <3>4. QED
      BY <2>1, <3>3 DEF HasResolve
  <2>2. CASE ~late(m)
    <3>1. ~spent(m[1])
      <4>1. time(m[1]) =< time(m[1])
        BY <1>1, <1>2
      <4> HIDE DEF spent
      <4>2. QED
        BY <1>2, <2>2, <4>1
    <3>2. \E p \in pairs : p[1] = m[1]
      BY <1>2, <3>1 DEF PairsFit, time
    <3> HIDE DEF late
    <3>3. QED
      BY <2>2, <3>2
  <2>3. QED
    BY <2>1, <2>2
<1>4. \A m \in M : into[m] \in home(m)
  <2> HIDE DEF home
  <2>1. QED
    BY <1>3
<1> HIDE DEF into
<1>5. ASSUME NEW m \in M, NEW n \in M, ~late(m), late(n), NEW p \in pairs, p[1] = m[1], p[2] = n[2]
      PROVE  FALSE
  <2>1. PICK i \in I : spent(i) /\ time(i) =< time(n[1])
    BY <1>5
  <2>2. time(i) \in Nat /\ time(n[1]) \in Nat /\ time(n[2]) \in Nat /\ time(n[1]) < time(n[2])
    BY <1>1, <1>2
  <2>3. ASSUME NEW r \in R, time(m[1]) < time(r) PROVE HasResolve(pairs, r)
    <3>1. CASE time(r) < time(n[2])
      BY <1>5, <2>3, <3>1 DEF PairsFit, time
    <3>2. CASE ~(time(r) < time(n[2]))
      <4>1. time(r) \in Nat
        BY <1>1
      <4>2. time(i) < time(r)
        BY <2>1, <2>2, <3>2, <4>1
      <4>3. QED
        BY <2>1, <4>2
    <3>3. QED
      BY <3>1, <3>2
  <2>4. spent(m[1])
    BY <2>3
  <2>5. time(m[1]) =< time(m[1])
    BY <1>1, <1>2
  <2> HIDE DEF spent
  <2>6. QED
    BY <1>2, <1>5, <2>4, <2>5
<1>6. into \in Injection(M, pairs)
  <2> HIDE DEF late
  <2>1. into \in [M -> pairs]
    BY <1>4 DEF into
  <2>2. ASSUME NEW m \in M, NEW n \in M, into[m] = into[n] PROVE m = n
    <3> DEFINE p == into[m]
    <3>1. p \in home(m) /\ p \in home(n)
      BY <1>4, <2>2
    <3> HIDE DEF p
    <3>2. m[1] = n[1] \/ m[2] = n[2]
      BY <1>5, <3>1
    <3>3. m[1] = n[1] /\ m[2] = n[2]
      BY <3>2
    <3>4. QED
      BY <1>2, <3>3
  <2>3. QED
    BY <2>1, <2>2 DEF Injection, IsInjective
<1>7. IsFiniteSet(pairs)
  <2>1. IsFiniteSet(I \X R)
    BY FS_Product DEF Timed
  <2>2. QED
    BY <2>1, FS_Subset DEF PairsFit
<1>8. QED
  BY <1>6, <1>7, FS_Injection

LEMMA LinesAreTimed ==
    ASSUME NEW log \in Seq(JournalEvents), NEW from \in Nat, NEW kinds
    PROVE  Timed(log, OfKinds(log, Since(log, from), kinds))
<1> DEFINE S == OfKinds(log, Since(log, from), kinds)
<1>1. Len(log) \in Nat /\ DOMAIN log = 1..Len(log) /\ \A i \in DOMAIN log : log[i] \in JournalEvents
  OBVIOUS
<1>2. S \in SUBSET (1..Len(log)) /\ \A i \in S : i \in DOMAIN log /\ log[i].at # Naive
  BY <1>1 DEF OfKinds, Since
<1>3. IsFiniteSet(S)
  <2>1. IsFiniteSet(1..Len(log))
    BY <1>1, FS_Interval
  <2>2. QED
    BY <1>2, <2>1, FS_Subset
<1>4. S \subseteq Nat
  BY <1>2
<1> HIDE DEF S
<1>5. \A i \in S : log[i].at \in Nat
  BY <1>1, <1>2 DEF JournalEvents
<1>6. QED
  BY <1>3, <1>4, <1>5 DEF Timed, S

\* The incidents and the resolves of a window, and its pairs.
LEMMA PairsOfAJournalFit ==
    ASSUME NEW log \in Seq(JournalEvents), NEW from \in Nat
    PROVE  LET events == Since(log, from)
           IN  PairsFit(log, OfKinds(log, events, {"incident"}), OfKinds(log, events, {"resolve"}),
                        Pairs(log, events))
BY LinesAreTimed, PairsOfPartsFit, PairsAreOfAPart

\* The pairing uses no resolve twice, and no other has more pairs (dora.py:142-149),
\* for any journal, in whatever order its events were recorded.
THEOREM NoPairGoesMissing == JournalSpec => []NoPairIsMissed
<1>1. JournalInit => JournalInv
  BY DEF JournalInit, JournalInv, JournalTypes, NothingIsPassedOver
<1>2. JournalInv => NoPairIsMissed
  <2> SUFFICES ASSUME JournalInv PROVE NoPairIsMissed
    OBVIOUS
  <2> DEFINE events == Since(lines, 0)
             I == OfKinds(lines, events, {"incident"})
             R == OfKinds(lines, events, {"resolve"})
             pairs == Pairs(lines, events)
  <2>1. lines \in Seq(JournalEvents)
    BY DEF JournalInv, JournalTypes
  <2>2. Timed(lines, I) /\ Timed(lines, R) /\ PairsFit(lines, I, R, pairs)
    BY <2>1, LinesAreTimed, PairsOfAJournalFit
  <2> HIDE DEF events, pairs
  <2>3. IsPairing(lines, events, pairs)
    BY <2>2 DEF PairsFit, IsPairing
  <2>4. ASSUME NEW P \in SUBSET (I \X R), IsPairing(lines, events, P)
        PROVE  Cardinality(P) =< Cardinality(pairs)
    <3>1. /\ \A p \in P : lines[p[1]].at < lines[p[2]].at
          /\ \A p, q \in P : p[1] = q[1] <=> p[2] = q[2]
      BY <2>4 DEF IsPairing
    <3> HIDE DEF I, R
    <3>2. QED
      BY <2>2, <3>1, NoPairingIsLarger
  <2>5. QED
    BY <2>3, <2>4 DEF NoPairIsMissed, events, pairs
<1>3. QED
  BY <1>1, <1>2, JournalSteps, PTL DEF JournalSpec

\* The resolves after an incident, and the pairs of incidents that come one at a
\* time: each with the first resolve after it.
LaterThan(log, resolves, i) == {r \in resolves : log[i].at < log[r].at}

FirstPairs(log, S, resolves) ==
    {<<i, Earliest(log, LaterThan(log, resolves, i))>> : i \in {k \in S : LaterThan(log, resolves, k) # {}}}

LEMMA EarliestOfAPart ==
    ASSUME NEW log, NEW S, Timed(log, S), NEW T \in SUBSET S, Earliest(log, S) \in T
    PROVE  Earliest(log, T) = Earliest(log, S)
<1>1. Timed(log, T) /\ S # {} /\ T # {}
  BY PartOfTimed
<1>2. Earliest(log, T) \in T /\ \A k \in T : NotAfter(log, Earliest(log, T), k)
  BY <1>1, EarliestIsThere
<1>3. Earliest(log, S) \in S /\ \A k \in S : NotAfter(log, Earliest(log, S), k)
  BY <1>1, EarliestIsThere
<1>4. QED
  BY <1>2, <1>3, NotAfterIsAnOrder

LEMMA EachTakesTheFirst ==
    ASSUME NEW log, NEW I, Timed(log, I), NEW R, Timed(log, R),
           \A i, k \in I : i # k /\ log[i].at =< log[k].at =>
               \E r \in R : log[i].at < log[r].at /\ log[r].at =< log[k].at
    PROVE  PairsOfParts(log, I, R)[I] = FirstPairs(log, I, R)
<1> DEFINE P == PairsOfParts(log, I, R)
           G == {S \in SUBSET I : P[S] = FirstPairs(log, S, R)}
           time(x) == log[x].at
           after(i) == LaterThan(log, R, i)
           first(i) == Earliest(log, after(i))
<1>1. /\ P[{}] = {}
      /\ \A S \in SUBSET I : S # {} =>
             P[S] = Pair(log, R, P[S \ {Latest(log, S)}], Latest(log, S))
  BY PairsAreComputed
<1>2. \A x \in I \cup R : time(x) \in Nat
  BY DEF Timed
<1>3. \A i \in I : Timed(log, after(i)) /\ \A r \in R : r \in after(i) <=> time(i) < time(r)
  BY PartOfTimed DEF LaterThan
<1>4. ASSUME NEW i \in I, after(i) # {}
      PROVE  /\ first(i) \in R /\ time(i) < time(first(i))
             /\ \A r \in R : time(i) < time(r) => time(first(i)) =< time(r)
  <2>1. first(i) \in after(i) /\ \A r \in after(i) : NotAfter(log, first(i), r)
    BY <1>3, <1>4, EarliestIsThere
  <2>2. \A r \in after(i) : time(first(i)) =< time(r)
    BY <1>3, <2>1, NotAfterIsAnOrder
  <2> HIDE DEF first
  <2>3. QED
    BY <1>3, <2>1, <2>2 DEF LaterThan
<1> HIDE DEF P
<1>5. \A S : FirstPairs(log, S, R) = {<<i, first(i)>> : i \in {k \in S : after(k) # {}}}
  BY DEF FirstPairs
<1> HIDE DEF first, after
<1>6. ASSUME NEW i \in I, NEW k \in I, i # k, after(i) # {}, after(k) # {} PROVE first(i) # first(k)
  <2> SUFFICES ASSUME NEW a \in I, NEW b \in I, a # b, time(a) =< time(b), after(a) # {}, after(b) # {}
               PROVE  first(a) # first(b)
    <3>1. time(i) =< time(k) \/ time(k) =< time(i)
      <4>1. time(i) \in Nat /\ time(k) \in Nat
        BY <1>2
      <4> HIDE DEF time
      <4>2. QED
        BY <4>1
    <3>2. QED
      BY <1>6, <3>1
  <2>1. PICK r \in R : time(a) < time(r) /\ time(r) =< time(b)
    OBVIOUS
  <2>2. time(first(a)) =< time(r) /\ time(b) < time(first(b)) /\ first(a) \in R /\ first(b) \in R
    BY <1>4, <2>1
  <2>3. time(first(a)) \in Nat /\ time(first(b)) \in Nat /\ time(b) \in Nat /\ time(r) \in Nat
    BY <1>2, <2>2
  <2> HIDE DEF time
  <2>4. time(first(a)) # time(first(b))
    BY <2>1, <2>2, <2>3
  <2>5. QED
    BY <2>4
<1>7. {} \in G
  BY <1>1, <1>5
<1>8. ASSUME NEW S \in SUBSET I, S # {}, S \ {Latest(log, S)} \in G PROVE S \in G
  <2> DEFINE i == Latest(log, S)
             pairs == P[S \ {i}]
             later == {r \in Left(R, pairs) : log[r].at > log[i].at}
  <2>1. i \in S
    BY <1>8, PartOfTimed, LatestIsThere
  <2>2. pairs = {<<k, first(k)>> : k \in {x \in S \ {i} : after(x) # {}}}
    BY <1>5, <1>8
  <2>3. P[S] = IF later = {} THEN pairs ELSE pairs \cup {<<i, Earliest(log, later)>>}
    BY <1>1, <1>8 DEF Pair
  <2> HIDE DEF i, pairs
  <2>4. later \subseteq after(i)
    <3>1. \A r \in R : log[r].at > log[i].at => log[i].at < log[r].at
      <4>1. \A r \in R : time(r) \in Nat /\ time(i) \in Nat
        BY <1>2, <2>1
      <4>2. QED
        BY <4>1
    <3>2. QED
      BY <1>3, <2>1, <3>1 DEF Left
  <2>5. CASE after(i) = {}
    <3>1. P[S] = pairs
      BY <2>3, <2>4, <2>5
    <3>2. {x \in S \ {i} : after(x) # {}} = {x \in S : after(x) # {}}
      BY <2>5
    <3>3. QED
      BY <1>5, <2>2, <3>1, <3>2
  <2>6. CASE after(i) # {}
    <3>1. first(i) \in Left(R, pairs)
      <4>1. \A k \in S \ {i} : after(k) # {} => first(k) # first(i)
        BY <1>6, <2>1, <2>6
      <4>2. \A p \in pairs : p[2] # first(i)
        BY <2>2, <4>1
      <4>3. QED
        BY <1>4, <2>1, <2>6, <4>2 DEF Left
    <3>2. first(i) \in later
      <4>1. first(i) \in R /\ time(i) < time(first(i))
        BY <1>4, <2>1, <2>6
      <4>2. time(first(i)) \in Nat /\ time(i) \in Nat
        BY <1>2, <2>1, <4>1
      <4>3. time(first(i)) > time(i)
        <5> HIDE DEF time
        <5>1. QED
          BY <4>1, <4>2
      <4>4. QED
        BY <3>1, <4>3
    <3> HIDE DEF later
    <3>3. Earliest(log, later) = first(i)
      BY <1>3, <2>1, <2>4, <3>2, EarliestOfAPart DEF first
    <3>4. P[S] = pairs \cup {<<i, first(i)>>}
      BY <2>3, <3>2, <3>3
    <3>5. {x \in S : after(x) # {}} = {x \in S \ {i} : after(x) # {}} \cup {i}
      BY <2>1, <2>6
    <3>6. P[S] = {<<k, first(k)>> : k \in {x \in S : after(x) # {}}}
      BY <2>2, <3>4, <3>5
    <3>7. QED
      BY <1>5, <3>6
  <2>7. QED
    BY <2>5, <2>6
<1>9. SUBSET I \subseteq G
  <2> HIDE DEF G
  <2>1. QED
    BY <1>7, <1>8, EveryPart
<1>10. I \in G
  BY <1>9
<1>11. QED
  BY <1>10 DEF P

\* While incidents come one at a time, the window's edge changes no pair as it
\* moves over them (dora.py:78, 142-149), for any journal.
THEOREM TheWindowKeepsPairs == JournalSpec => []WindowKeepsPairs
<1>1. JournalInit => JournalInv
  BY DEF JournalInit, JournalInv, JournalTypes, NothingIsPassedOver
<1>2. JournalInv => WindowKeepsPairs
  <2> SUFFICES ASSUME JournalInv, OneAtATime(lines, Since(lines, 0)), NEW from \in Times
               PROVE  Pairs(lines, Since(lines, from))
                          = {p \in Pairs(lines, Since(lines, 0)) : p[1] \in Since(lines, from)}
    BY DEF WindowKeepsPairs
  <2> DEFINE all == Since(lines, 0)
             window == Since(lines, from)
             time(x) == lines[x].at
             I(events) == OfKinds(lines, events, {"incident"})
             R(events) == OfKinds(lines, events, {"resolve"})
  <2>1. lines \in Seq(JournalEvents) /\ from \in Nat
    BY JournalAssumption DEF JournalInv, JournalTypes, Times
  <2>2. /\ Timed(lines, I(all)) /\ Timed(lines, R(all))
        /\ Timed(lines, I(window)) /\ Timed(lines, R(window))
    BY <2>1, LinesAreTimed
  <2>3. \A x \in I(all) \cup R(all) : time(x) \in Nat
    BY <2>2 DEF Timed
  <2>4. /\ \A x \in I(all) : x \in I(window) <=> time(x) >= from
        /\ \A x \in R(all) : x \in R(window) <=> time(x) >= from
        /\ I(window) \subseteq I(all) /\ R(window) \subseteq R(all)
    <3>1. \A x \in DOMAIN lines : /\ x \in all <=> (time(x) # Naive /\ time(x) >= 0)
                                  /\ x \in window <=> (time(x) # Naive /\ time(x) >= from)
      BY DEF Since
    <3>2. \A x \in DOMAIN lines : time(x) # Naive => time(x) \in Nat
      <4>1. \A x \in DOMAIN lines : lines[x] \in JournalEvents
        BY <2>1
      <4>2. QED
        BY <4>1 DEF JournalEvents
    <3>3. window \subseteq DOMAIN lines /\ all \subseteq DOMAIN lines
      BY DEF Since
    <3> HIDE DEF window, all, time
    <3>4. window \subseteq all
      BY <3>1, <3>2, <3>3, <2>1
    <3>5. \A x \in all : x \in window <=> time(x) >= from
      BY <3>1, <3>3
    <3>6. QED
      BY <3>4, <3>5 DEF OfKinds
  <2> HIDE DEF all, window
  <2>5. \A i, k \in I(all) : i # k /\ time(i) =< time(k) =>
            \E r \in R(all) : time(i) < time(r) /\ time(r) =< time(k)
    BY DEF OneAtATime, all
  <2> HIDE DEF I, R
  <2>6. \A i, k \in I(window) : i # k /\ time(i) =< time(k) =>
            \E r \in R(window) : time(i) < time(r) /\ time(r) =< time(k)
    <3> SUFFICES ASSUME NEW i \in I(window), NEW k \in I(window), i # k, time(i) =< time(k)
                 PROVE  \E r \in R(window) : time(i) < time(r) /\ time(r) =< time(k)
      OBVIOUS
    <3>1. PICK r \in R(all) : time(i) < time(r) /\ time(r) =< time(k)
      BY <2>4, <2>5
    <3>2. time(i) >= from /\ time(i) \in Nat /\ time(r) \in Nat
      BY <2>3, <2>4
    <3>3. time(r) >= from
      <4> HIDE DEF time
      <4>1. QED
        BY <2>1, <3>1, <3>2
    <3>4. QED
      BY <2>4, <3>1, <3>3
  <2>7. /\ Pairs(lines, all) = FirstPairs(lines, I(all), R(all))
        /\ Pairs(lines, window) = FirstPairs(lines, I(window), R(window))
    BY <2>2, <2>5, <2>6, EachTakesTheFirst, PairsAreOfAPart DEF I, R
  <2>8. ASSUME NEW i \in I(window) PROVE LaterThan(lines, R(window), i) = LaterThan(lines, R(all), i)
    <3>1. ASSUME NEW r \in R(all), time(i) < time(r) PROVE r \in R(window)
      <4>1. time(i) >= from /\ time(i) \in Nat /\ time(r) \in Nat
        BY <2>3, <2>4
      <4>2. time(r) >= from
        <5> HIDE DEF time
        <5>1. QED
          BY <2>1, <3>1, <4>1
      <4>3. QED
        BY <2>4, <4>2
    <3>2. QED
      BY <2>4, <3>1 DEF LaterThan
  <2> DEFINE after(i) == LaterThan(lines, R(all), i)
             pair(i) == <<i, Earliest(lines, after(i))>>
  <2>9. FirstPairs(lines, I(all), R(all)) = {pair(i) : i \in {k \in I(all) : after(k) # {}}}
    BY DEF FirstPairs
  <2>10. FirstPairs(lines, I(window), R(window)) = {pair(i) : i \in {k \in I(window) : after(k) # {}}}
    BY <2>8 DEF FirstPairs
  <2>11. \A i \in I(all) : i \in I(window) <=> i \in window
    BY DEF I, OfKinds
  <2>12. \A i : pair(i)[1] = i
    OBVIOUS
  <2> HIDE DEF pair, after
  <2>13. {pair(i) : i \in {k \in I(window) : after(k) # {}}}
             = {p \in {pair(i) : i \in {k \in I(all) : after(k) # {}}} : p[1] \in window}
    BY <2>4, <2>11, <2>12
  <2>14. QED
    BY <2>7, <2>9, <2>10, <2>13 DEF all, window
<1>3. QED
  BY <1>1, <1>2, JournalSteps, PTL DEF JournalSpec
=============================================================================

----------------------------- MODULE Scoreboard -----------------------------
(***************************************************************************)
(* `healthbot-scoreboard snapshot` (src/healthbot/scoreboard.py): a run    *)
(* asks Grafana for the week's data, writes the week's file and commits    *)
(* it.  Grafana may be down, systemd may kill a run between any two steps, *)
(* and a run started by hand may overlap the timer's.                      *)
(*                                                                         *)
(* What a run gathers carries the time it was taken, so no two runs gather *)
(* the same: a run stands for what it gathered.                            *)
(***************************************************************************)
EXTENDS Integers

CONSTANTS
    Snapshots,      \* the runs
    MaxWeek,        \* bound on the clock
    NoFile          \* a path with no file

ASSUME ScoreboardAssumption == MaxWeek \in Nat /\ NoFile \notin Snapshots

\* A file just opened for writing, and one that holds a part of what was
\* gathered, or of what two runs gathered.
Broken == {"empty", "torn"}

ASSUME ContentAssumption == Broken \cap (Snapshots \cup {NoFile}) = {}

Weeks == 0..MaxWeek

VARIABLES
    week,           \* the ISO week that began seven days ago
    at,             \* where each run is
    named,          \* the week each run's file is named for
    file,           \* the file of each week in the working tree
    index,          \* what git has staged for it
    HEAD,           \* what is committed
    clashed,        \* history variable: weeks two runs wrote at a time
    cutShort        \* history variable: weeks a run was killed in the middle of writing

svars == <<week, at, named, file, index, HEAD, clashed, cutShort>>

ScoreboardInit ==
    /\ week = 0
    /\ at = [r \in Snapshots |-> "idle"]
    /\ named = [r \in Snapshots |-> 0]
    /\ file = [w \in Weeks |-> NoFile]
    /\ index = file
    /\ HEAD = file
    /\ clashed = {}
    /\ cutShort = {}

NextWeek ==
    /\ week < MaxWeek
    /\ week' = week + 1
    /\ UNCHANGED <<at, named, file, index, HEAD, clashed, cutShort>>

Step(r, from, to) ==
    /\ at[r] = from
    /\ at' = [at EXCEPT ![r] = to]

\* parse_author: with no author, nothing is asked and nothing is written.
StartSnapshot(r) ==
    /\ \/ Step(r, "idle", "gather")
       \/ Step(r, "idle", "failed")
    /\ named' = [named EXCEPT ![r] = week]
    /\ UNCHANGED <<week, file, index, HEAD, clashed, cutShort>>

\* Mutant of Gather: the file is opened first.
GatherIntoFile(r) ==
    /\ \/ Step(r, "gather", "open")
       \/ Step(r, "gather", "failed")
    /\ file' = [file EXCEPT ![named[r]] = "empty"]
    /\ UNCHANGED <<week, named, index, HEAD, clashed, cutShort>>

\* All of it is asked for, or the run ends, before the file is opened.
Gather(r) ==
    /\ \/ Step(r, "gather", "open")
       \/ Step(r, "gather", "failed")
    /\ UNCHANGED <<week, named, file, index, HEAD, clashed, cutShort>>

Writing(r) == at[r] \in {"write", "add", "diff", "commit"}

\* write_text opens and empties the file...
Open(r) ==
    /\ Step(r, "open", "write")
    /\ file' = [file EXCEPT ![named[r]] = "empty"]
    /\ clashed' = clashed \cup {named[s] : s \in {x \in Snapshots \ {r} : Writing(x) /\ named[x] = named[r]}}
    /\ UNCHANGED <<week, named, index, HEAD, cutShort>>

\* ...and writes over what another run has written since.
Write(r) ==
    /\ Step(r, "write", "add")
    /\ \/ file' = [file EXCEPT ![named[r]] = r]
       \/ file[named[r]] # "empty" /\ file' = [file EXCEPT ![named[r]] = "torn"]
    /\ UNCHANGED <<week, named, index, HEAD, clashed, cutShort>>

Add(r) ==
    /\ Step(r, "add", "diff")
    /\ index' = [index EXCEPT ![named[r]] = file[named[r]]]
    /\ UNCHANGED <<week, named, file, HEAD, clashed, cutShort>>

\* Mutant of Diff: the working tree is compared with what was just staged.
DiffUnstaged(r) ==
    /\ IF index[named[r]] = file[named[r]]
       THEN Step(r, "diff", "already") ELSE Step(r, "diff", "commit")
    /\ UNCHANGED <<week, named, file, index, HEAD, clashed, cutShort>>

\* git diff --cached --quiet.
Diff(r) ==
    /\ IF index[named[r]] = HEAD[named[r]]
       THEN Step(r, "diff", "already") ELSE Step(r, "diff", "commit")
    /\ UNCHANGED <<week, named, file, index, HEAD, clashed, cutShort>>

\* git commit -- the path, which takes the file as it is now, and fails when
\* that is committed already; the run may not live to say so.
Commit(r) ==
    /\ IF file[named[r]] = HEAD[named[r]]
       THEN Step(r, "commit", "failed") /\ UNCHANGED <<index, HEAD>>
       ELSE /\ Step(r, "commit", "committed") \/ Step(r, "commit", "failed")
            /\ index' = [index EXCEPT ![named[r]] = file[named[r]]]
            /\ HEAD' = [HEAD EXCEPT ![named[r]] = file[named[r]]]
    /\ UNCHANGED <<week, named, file, clashed, cutShort>>

\* systemd kills it, or a git command fails; a write may be cut in the middle.
Die(r) ==
    /\ at[r] \in {"gather", "open", "write", "add", "diff", "commit"}
    /\ at' = [at EXCEPT ![r] = "failed"]
    /\ \/ UNCHANGED file
       \/ at[r] = "write" /\ file' = [file EXCEPT ![named[r]] = "torn"]
    /\ cutShort' = IF at[r] = "write" THEN cutShort \cup {named[r]} ELSE cutShort
    /\ UNCHANGED <<week, named, index, HEAD, clashed>>

SnapshotStep(r) ==
    \/ StartSnapshot(r) \/ Gather(r) \/ Open(r) \/ Write(r)
    \/ Add(r) \/ Diff(r) \/ Commit(r) \/ Die(r)

ScoreboardNext == NextWeek \/ \E r \in Snapshots : SnapshotStep(r)

ScoreboardSpec == ScoreboardInit /\ [][ScoreboardNext]_svars

-----------------------------------------------------------------------------
(* Properties.                                                             *)

\* "committed ..." and "this week's snapshot is already committed as it is"
\* (scoreboard.py:223-225) are said of the run's own snapshot, and all of it is
\* committed: the file an earlier run left half written, written or staged when
\* it was killed is never taken for it.  Two runs that write one week's file at
\* a time are excepted: one may commit what the other is still writing.
ReportIsTrue ==
    [][\A r \in Snapshots :
           at[r] # at'[r] /\ at'[r] \in {"committed", "already"} /\ named[r] \notin clashed
               => HEAD'[named[r]] = r]_svars

\* An outage of Grafana costs no earlier snapshot (scoreboard.py:181: gather
\* comes before write_text opens the file): a file is broken only while a run is
\* writing it, after a kill in the middle of that, or after a clash.
OutageDestroysNothing ==
    \A w \in Weeks \ (clashed \cup cutShort) :
        file[w] \in Broken => \E r \in Snapshots : at[r] = "write" /\ named[r] = w
=============================================================================

---------------------------- MODULE HistoryProofs ----------------------------
(***************************************************************************)
(* Theorems about AlertHistory: what the file says of the gate's decisions, *)
(* for any conditions, months, clock and number of lines, and for any runs *)
(* and faults unless a theorem says otherwise.                             *)
(***************************************************************************)
EXTENDS AlertHistory, AlertGateProofs, FiniteSetTheorems, SequenceTheorems

-----------------------------------------------------------------------------
(* The gate under its history.                                             *)

LEMMA HistoryStepsTheGate ==
    ASSUME [HistoryNext]_allVars
    PROVE  [Next]_vars
<1>1. CASE BoundReached \/ UNCHANGED allVars
  BY <1>1 DEF BoundReached, allVars
<1>2. CASE Tick /\ UNCHANGED historyVars
  BY <1>2 DEF Next
<1>3. ASSUME NEW r \in Runs, ReturnAndRecord(r) \/ Elsewhere(r) \/ KillUnrecorded(r)
      PROVE  RunStep(r)
  BY <1>3 DEF ReturnAndRecord, Elsewhere, KillUnrecorded, RunStep
<1>4. QED
  BY <1>1, <1>2, <1>3 DEF HistoryNext, Next

LEMMA HistoryIsOfTheGate == HistorySpec => Spec
<1>1. HistoryInit => Init
  BY DEF HistoryInit
<1>2. [HistoryNext]_allVars => [Next]_vars
  BY HistoryStepsTheGate
<1>3. QED
  BY <1>1, <1>2, PTL DEF HistorySpec, Spec

-----------------------------------------------------------------------------
(* Counting the elements of a sequence that are of some kind.              *)

Hits(seq, kind) == {i \in DOMAIN seq : seq[i] \in kind}

LEMMA HitsAreFinite ==
    ASSUME NEW T, NEW seq \in Seq(T), NEW kind
    PROVE  IsFiniteSet(Hits(seq, kind)) /\ Cardinality(Hits(seq, kind)) \in Nat
<1>1. DOMAIN seq = 1..Len(seq) /\ Len(seq) \in Nat
  BY LenProperties
<1>2. IsFiniteSet(1..Len(seq))
  BY <1>1, FS_Interval
<1>3. Hits(seq, kind) \in SUBSET (1..Len(seq))
  BY <1>1 DEF Hits
<1>4. IsFiniteSet(Hits(seq, kind))
  BY <1>2, <1>3, FS_Subset
<1>5. QED
  BY <1>4, FS_CardinalityType

LEMMA HitsOfNothing ==
    ASSUME NEW kind
    PROVE  Cardinality(Hits(<<>>, kind)) = 0
<1>1. Hits(<<>>, kind) = {}
  BY DEF Hits
<1>2. QED
  BY <1>1, FS_EmptySet

LEMMA OneMoreHit ==
    ASSUME NEW T, NEW seq \in Seq(T), NEW x \in T, NEW kind
    PROVE  /\ x \in kind => Cardinality(Hits(Append(seq, x), kind)) = Cardinality(Hits(seq, kind)) + 1
           /\ x \notin kind => Hits(Append(seq, x), kind) = Hits(seq, kind)
<1> DEFINE n == Len(seq)
           longer == Append(seq, x)
<1>1. /\ n \in Nat /\ DOMAIN seq = 1..n /\ DOMAIN longer = 1..n + 1
      /\ longer[n + 1] = x /\ \A i \in 1..n : longer[i] = seq[i]
  BY AppendProperties, LenProperties
<1> HIDE DEF n, longer
<1>2. \A i : i \in 1..n + 1 <=> i \in 1..n \/ i = n + 1
  BY <1>1
<1>3. n + 1 \notin 1..n
  BY <1>1
<1>4. CASE x \notin kind
  <2>1. Hits(longer, kind) = Hits(seq, kind)
    BY <1>1, <1>2, <1>4 DEF Hits
  <2>2. QED
    BY <1>4, <2>1 DEF longer
<1>5. CASE x \in kind
  <2>1. Hits(longer, kind) = Hits(seq, kind) \cup {n + 1}
    BY <1>1, <1>2, <1>5 DEF Hits
  <2>2. n + 1 \notin Hits(seq, kind)
    BY <1>1, <1>3 DEF Hits
  <2>3. IsFiniteSet(Hits(seq, kind))
    BY HitsAreFinite
  <2>4. Cardinality(Hits(longer, kind)) = Cardinality(Hits(seq, kind)) + 1
    BY <2>1, <2>2, <2>3, FS_AddElement
  <2>5. QED
    BY <1>5, <2>4 DEF longer
<1>6. QED
  BY <1>4, <1>5
-----------------------------------------------------------------------------
(* What a decision leaves to be recorded.                                  *)

\* A run was told to speak exactly when its line is a page, and its line has a
\* condition: what it found failing, or what was standing.
AnswerFits(r) ==
    Answered(r) =>
        /\ speak[r] <=> event[r] \in PAGES
        /\ event[r] \in {"raised", "held", "repeat"} => failing[r] \in Conditions
        /\ event[r] \in {"clean", "recovered"} => failing[r] = Clean
        /\ event[r] \in {"held", "repeat", "clean", "recovered"} => seen[r] \in States

LEMMA DecisionFits ==
    ASSUME TypeOK, NEW r \in Runs, Decide(r)
    PROVE  AnswerFits(r)' /\ Answered(r)'
<1>1. ASSUME NEW s \in BOOLEAN, NEW e \in Events, Answer(r, s, e)
      PROVE  /\ pc'[r] = "answered" /\ speak'[r] = s /\ event'[r] = e
             /\ failing'[r] = failing[r] /\ seen'[r] = seen[r]
  BY <1>1 DEF Answer, TypeOK
<1>2. {"raised", "held", "repeat", "none", "clean", "recovered"} \subseteq Events
  BY DEF Events
<1>3. /\ failing[r] # Clean => failing[r] \in Conditions
      /\ seen[r] # NoState => seen[r] \in States
  BY DEF TypeOK
<1>4. CASE Raise(r)
  <2>1. Answer(r, TRUE, "raised") /\ failing[r] # Clean
    BY <1>4 DEF Raise
  <2>2. QED
    BY <1>1, <1>2, <1>3, <2>1 DEF AnswerFits, Answered, PAGES
<1>5. CASE Hold(r)
  <2>1. Answer(r, FALSE, "held") /\ IsStanding(r)
    BY <1>5 DEF Hold
  <2>2. seen[r] \in States /\ failing[r] \in Conditions
    BY <2>1, StandingIsPresent
  <2>3. QED
    BY <1>1, <1>2, <2>1, <2>2 DEF AnswerFits, Answered, PAGES
<1>6. CASE Repeat(r)
  <2>1. Answer(r, TRUE, "repeat") /\ IsStanding(r)
    BY <1>6 DEF Repeat
  <2>2. seen[r] \in States /\ failing[r] \in Conditions
    BY <2>1, StandingIsPresent
  <2>3. QED
    BY <1>1, <1>2, <2>1, <2>2 DEF AnswerFits, Answered, PAGES
<1>7. CASE StayQuiet(r)
  <2>1. Answer(r, FALSE, "none")
    BY <1>7 DEF StayQuiet
  <2>2. QED
    BY <1>1, <1>2, <2>1 DEF AnswerFits, Answered, PAGES
<1>8. CASE CountClean(r)
  <2>1. Answer(r, FALSE, "clean") /\ seen[r] # NoState /\ failing[r] = Clean
    BY <1>8 DEF CountClean, IsClean
  <2>2. QED
    BY <1>1, <1>2, <1>3, <2>1 DEF AnswerFits, Answered, PAGES
<1>9. CASE Recover(r)
  <2>1. Answer(r, FALSE, "recovered") /\ seen[r] # NoState /\ failing[r] = Clean
    BY <1>9 DEF Recover, IsClean
  <2>2. QED
    BY <1>1, <1>2, <1>3, <2>1 DEF AnswerFits, Answered, PAGES
<1>10. QED
  BY <1>4, <1>5, <1>6, <1>7, <1>8, <1>9 DEF Decide

\* A step of one run leaves the others where they are.
Apart(r) ==
    \A q \in Runs \ {r} :
        /\ pc'[q] = pc[q] /\ failing'[q] = failing[q] /\ at'[q] = at[q]
        /\ seen'[q] = seen[q] /\ speak'[q] = speak[q] /\ event'[q] = event[q]

LEMMA DecidesApart ==
    ASSUME TypeOK, NEW r \in Runs, Decide(r)
    PROVE  Apart(r)
<1>1. PICK s, e : Answer(r, s, e)
  BY DEF Decide, Raise, Hold, Repeat, StayQuiet, CountClean, Recover
<1>2. QED
  BY <1>1 DEF Answer, TypeOK, Apart

LEMMA LeavesApart ==
    ASSUME TypeOK, NEW r \in Runs, Leave(r)
    PROVE  Apart(r) /\ pc'[r] = "idle" /\ UNCHANGED <<now, store>>
BY DEF Leave, TypeOK, Apart

LEMMA AnswersFit ==
    ASSUME TypeOK, \A r \in Runs : AnswerFits(r), [Next]_vars
    PROVE  \A r \in Runs : AnswerFits(r)'
<1>1. CASE Tick \/ UNCHANGED vars
  BY <1>1 DEF Tick, vars, runVars, AnswerFits, Answered
<1>2. ASSUME NEW r \in Runs, RunStep(r), NEW q \in Runs PROVE AnswerFits(q)'
  <2>1. CASE (\E f \in Conditions \cup {Clean} : Begin(r, f)) \/ ReadState(r)
    <3>1. pc'[r] \in {"read", "decide"} /\ Apart(r)
      BY <2>1 DEF Begin, ReadState, TypeOK, Apart
    <3>2. QED
      BY <1>2, <3>1 DEF Apart, AnswerFits, Answered
  <2>2. CASE Decide(r)
    BY <1>2, <2>2, DecisionFits, DecidesApart DEF Apart, AnswerFits, Answered
  <2>3. CASE Return(r) \/ Kill(r)
    BY <1>2, <2>3, LeavesApart DEF Return, Kill, Apart, AnswerFits, Answered
  <2>4. QED
    BY <1>2, <2>1, <2>2, <2>3 DEF RunStep
<1>3. QED
  BY <1>1, <1>2 DEF Next

LEMMA LineIsTyped ==
    ASSUME TypeOK, NEW r \in Runs, Answered(r), AnswerFits(r), event[r] # "none"
    PROVE  LineOf(r) \in Lines /\ LineOf(r).event = event[r] /\ LineOf(r).at = at[r]
<1> DEFINE s == seen[r]
           l == LineOf(r)
<1>1. /\ event[r] \in Events /\ at[r] \in Nat
      /\ event[r] \in {"raised", "held", "repeat", "clean", "recovered"}
      /\ s \in States \cup {NoState} /\ (failing[r] \in Conditions \/ failing[r] = Clean)
      /\ event[r] # "raised" => s \in States
      /\ event[r] = "raised" => failing[r] \in Conditions
  BY BoundAssumption DEF TypeOK, Events, AnswerFits
<1>2. s \in States => s.condition \in Conditions /\ s.raisedAt \in Nat /\ s.repeats \in Nat
  BY DEF States
<1>3. l.event = event[r] /\ l.at = at[r]
  BY DEF LineOf
<1>4. l.condition \in Conditions
  BY <1>1, <1>2, ConditionAssumption DEF LineOf
<1>5. l.raisedAt \in Nat
  BY <1>1, <1>2 DEF LineOf
<1>6. l.repeats \in Nat
  BY <1>1, <1>2 DEF LineOf
<1>7. l.replaces \in Conditions \cup {Clean}
  BY <1>1, <1>2 DEF LineOf, Standing
<1>8. l = [event |-> l.event, condition |-> l.condition, at |-> l.at, raisedAt |-> l.raisedAt,
           repeats |-> l.repeats, replaces |-> l.replaces]
  BY DEF LineOf
<1> HIDE DEF l, s
<1>9. l \in Lines
  BY <1>1, <1>3, <1>4, <1>5, <1>6, <1>7, <1>8 DEF Lines
<1>10. QED
  BY <1>3, <1>9 DEF l
-----------------------------------------------------------------------------
(* The file and its damage.                                                *)

FileTypes ==
    /\ file \in Seq(Lines \cup {Torn})
    /\ spoken \in Seq(Nat)
    /\ damage \in [lost : Nat, torn : Nat]
    /\ unended \in BOOLEAN
    /\ damage.torn = 0 => ~unended /\ file \in Seq(Lines)

HistoryInv == TypeOK /\ FileTypes /\ \A r \in Runs : AnswerFits(r)

\* A step either leaves the history alone, or a run returns, or is killed.
LEMMA HistorySteps ==
    ASSUME [HistoryNext]_allVars
    PROVE  \/ UNCHANGED <<file, unended, spoken, damage>>
           \/ \E r \in Runs : ReturnAndRecord(r)
           \/ \E r \in Runs : KillUnrecorded(r)
BY DEF HistoryNext, BoundReached, Elsewhere, allVars, historyVars

LEMMA DamageGrows ==
    ASSUME FileTypes
    PROVE  /\ LoseLine => damage'.lost = damage.lost + 1 /\ damage'.torn = damage.torn
           /\ TearLine => damage'.torn = damage.torn + 1 /\ damage'.lost = damage.lost
           /\ LoseLine \/ TearLine => damage' \in [lost : Nat, torn : Nat]
BY DEF FileTypes, LoseLine, TearLine

LEMMA KillDamage ==
    ASSUME FileTypes, NEW r \in Runs, KillUnrecorded(r)
    PROVE  /\ damage' \in [lost : Nat, torn : Nat] /\ damage'.torn = damage.torn
           /\ damage'.lost \in {damage.lost, damage.lost + 1}
           /\ event[r] # "none" => damage'.lost = damage.lost + 1
           /\ UNCHANGED <<file, unended, spoken, forgot>>
BY DEF FileTypes, KillUnrecorded

LEMMA FileTypesKept ==
    ASSUME HistoryInv, [HistoryNext]_allVars
    PROVE  FileTypes'
<1>1. CASE UNCHANGED <<file, unended, spoken, damage>>
  BY <1>1 DEF HistoryInv, FileTypes
<1>2. ASSUME NEW r \in Runs, KillUnrecorded(r) PROVE FileTypes'
  BY <1>2, KillDamage DEF HistoryInv, FileTypes
<1>3. ASSUME NEW r \in Runs, ReturnAndRecord(r) PROVE FileTypes'
  <2>1. spoken' \in Seq(Nat)
    <3>1. spoken \in Seq(Nat) /\ at[r] \in Nat
      BY BoundAssumption DEF HistoryInv, FileTypes, TypeOK
    <3>2. spoken' = Append(spoken, at[r]) \/ spoken' = spoken
      BY <1>3 DEF ReturnAndRecord
    <3>3. QED
      BY <3>1, <3>2
  <2>2. CASE event[r] = "none"
    <3>1. UNCHANGED <<file, unended, damage>>
      BY <1>3, <2>2 DEF ReturnAndRecord
    <3>2. QED
      BY <2>1, <3>1 DEF HistoryInv, FileTypes
  <2>3. CASE event[r] # "none"
    <3>1. LineOf(r) \in Lines
      BY <1>3, <2>3, LineIsTyped DEF HistoryInv, ReturnAndRecord, Return, Answered
    <3>2. AppendLine(LineOf(r)) \/ LoseLine \/ TearLine
      BY <1>3, <2>3 DEF ReturnAndRecord
    <3>3. CASE AppendLine(LineOf(r))
      <4>1. file' \in Seq(Lines \cup {Torn})
        BY <3>1, <3>3 DEF AppendLine, HistoryInv, FileTypes
      <4>2. damage.torn = 0 => file' \in Seq(Lines)
        BY <3>1, <3>3 DEF AppendLine, HistoryInv, FileTypes
      <4>3. damage' = damage /\ unended' = FALSE
        BY <3>3 DEF AppendLine
      <4>4. QED
        BY <2>1, <4>1, <4>2, <4>3 DEF HistoryInv, FileTypes
    <3>4. CASE LoseLine
      <4>1. UNCHANGED <<file, unended>> /\ damage'.torn = damage.torn
            /\ damage' \in [lost : Nat, torn : Nat]
        BY <3>4, DamageGrows DEF LoseLine, HistoryInv
      <4>2. QED
        BY <2>1, <4>1 DEF HistoryInv, FileTypes
    <3>5. CASE TearLine
      <4>1. damage'.torn = damage.torn + 1 /\ damage' \in [lost : Nat, torn : Nat]
        BY <3>5, DamageGrows DEF HistoryInv
      <4>2. damage.torn \in Nat
        BY DEF HistoryInv, FileTypes
      <4>3. damage'.torn # 0
        BY <4>1, <4>2
      <4>4. file' \in Seq(Lines \cup {Torn}) /\ unended' \in BOOLEAN
        BY <3>5 DEF TearLine, HistoryInv, FileTypes
      <4>5. QED
        BY <2>1, <4>1, <4>3, <4>4 DEF FileTypes
    <3>6. QED
      BY <3>2, <3>3, <3>4, <3>5
  <2>4. QED
    BY <2>2, <2>3
<1>4. QED
  BY <1>1, <1>2, <1>3, HistorySteps

LEMMA HistoryInvariant == HistorySpec => []HistoryInv
<1>1. HistoryInit => FileTypes /\ \A r \in Runs : AnswerFits(r)
  <2>1. HistoryInit => \A r \in Runs : AnswerFits(r)
    BY DEF HistoryInit, Init, AnswerFits, Answered
  <2>2. HistoryInit => FileTypes
    <3>1. <<>> \in Seq(Lines) /\ <<>> \in Seq(Lines \cup {Torn}) /\ <<>> \in Seq(Nat)
      OBVIOUS
    <3>2. [lost |-> 0, torn |-> 0] \in [lost : Nat, torn : Nat]
      OBVIOUS
    <3>3. QED
      BY <3>1, <3>2 DEF HistoryInit, FileTypes
  <2>3. QED
    BY <2>1, <2>2
<1>2. TypeOK /\ TypeOK' /\ HistoryInv /\ [HistoryNext]_allVars => HistoryInv'
  BY HistoryStepsTheGate, AnswersFit, FileTypesKept DEF HistoryInv
<1>3. HistorySpec => []TypeOK
  BY HistoryIsOfTheGate, TypeCorrect, PTL
<1>4. HistoryInit => TypeOK
  BY TypeInit DEF HistoryInit
<1>5. HistoryInit => HistoryInv
  BY <1>1, <1>4 DEF HistoryInv
<1>6. QED
  BY <1>2, <1>3, <1>5, PTL DEF HistorySpec

-----------------------------------------------------------------------------
(* What a damaged file still tells.                                        *)

PageLines == {l \in Lines : l.event \in PAGES}

\* A torn line costs itself and the next, which it waits for.
Contained ==
    Cardinality(Hits(file, PageLines)) + damage.lost + 2 * damage.torn
        >= Len(spoken) + (IF unended THEN 1 ELSE 0)

LEMMA PagesAreHits ==
    ASSUME FileTypes
    PROVE  {i \in Records : file[i].event \in PAGES} = Hits(file, PageLines)
<1>1. \A i \in DOMAIN file : file[i] \in Lines \cup {Torn}
  BY DEF FileTypes
<1>2. \A l \in PageLines : l # Torn
  BY HistoryAssumption DEF PageLines
<1>3. QED
  BY <1>1, <1>2 DEF Records, Hits, PageLines

\* A damaged append costs at most itself and the line after it, for any runs and
\* under every fault.
THEOREM DamageIsBounded == HistorySpec => []DamageIsContained
<1>1. HistoryInit => Contained
  <2>1. Cardinality(Hits(<<>>, PageLines)) = 0
    BY HitsOfNothing
  <2>2. QED
    BY <2>1 DEF HistoryInit, Contained
<1>2. HistoryInv /\ Contained /\ [HistoryNext]_allVars => Contained'
  <2> SUFFICES ASSUME HistoryInv, Contained, [HistoryNext]_allVars PROVE Contained'
    OBVIOUS
  <2> DEFINE count == Cardinality(Hits(file, PageLines))
             lost == damage.lost
             torn == damage.torn
             told == Len(spoken)
             waiting == IF unended THEN 1 ELSE 0
  <2>1. /\ count \in Nat /\ lost \in Nat /\ torn \in Nat /\ told \in Nat /\ (waiting = 0 \/ waiting = 1)
        /\ count + lost + 2 * torn >= told + waiting
    BY HitsAreFinite DEF HistoryInv, FileTypes, Contained
  <2>2. Contained' <=> count' + lost' + 2 * torn' >= told' + waiting'
    BY DEF Contained
  <2>3. CASE UNCHANGED <<file, unended, spoken, damage>>
    BY <2>3 DEF Contained, Hits
  <2>4. ASSUME NEW r \in Runs, KillUnrecorded(r) PROVE Contained'
    <3>1. lost' = lost \/ lost' = lost + 1
      BY <2>4, KillDamage DEF HistoryInv
    <3>2. torn' = torn /\ UNCHANGED <<file, unended, spoken>>
      BY <2>4, KillDamage DEF HistoryInv
    <3>3. count' = count /\ told' = told /\ waiting' = waiting
      BY <3>2 DEF Hits
    <3> HIDE DEF count, lost, torn, told, waiting
    <3>4. QED
      BY <2>1, <2>2, <3>1, <3>2, <3>3
  <2>5. ASSUME NEW r \in Runs, ReturnAndRecord(r) PROVE Contained'
    <3>1. Answered(r) /\ AnswerFits(r) /\ TypeOK /\ FileTypes
      BY <2>5 DEF ReturnAndRecord, Return, Answered, HistoryInv
    <3>2. (told' = told \/ told' = told + 1) /\ (told' # told => event[r] \in PAGES)
      <4>1. spoken' = spoken \/ (speak[r] /\ spoken' = Append(spoken, at[r]))
        BY <2>5 DEF ReturnAndRecord
      <4>2. spoken \in Seq(Nat) /\ at[r] \in Nat
        BY <3>1, BoundAssumption DEF FileTypes, TypeOK
      <4>3. Len(Append(spoken, at[r])) = Len(spoken) + 1
        BY <4>2, AppendProperties
      <4>4. speak[r] => event[r] \in PAGES
        BY <3>1 DEF AnswerFits
      <4>5. QED
        BY <4>1, <4>3, <4>4
    <3>3. CASE event[r] = "none"
      <4>1. UNCHANGED <<file, unended, damage>> /\ event[r] \notin PAGES
        BY <2>5, <3>3 DEF ReturnAndRecord, PAGES
      <4>2. count' = count /\ lost' = lost /\ torn' = torn /\ waiting' = waiting /\ told' = told
        BY <3>2, <4>1 DEF Hits
      <4> HIDE DEF count, lost, torn, told, waiting
      <4>3. QED
        BY <2>1, <2>2, <4>2
    <3>4. CASE event[r] # "none" /\ AppendLine(LineOf(r))
      <4>1. LineOf(r) \in Lines /\ LineOf(r).event = event[r]
        BY <3>1, <3>4, LineIsTyped
      <4>2. lost' = lost /\ torn' = torn /\ waiting' = 0
        BY <3>4 DEF AppendLine
      <4>3. CASE unended
        <5>1. count' = count /\ waiting = 1
          BY <3>4, <4>3 DEF AppendLine, Hits
        <5> HIDE DEF count, lost, torn, told, waiting
        <5>2. QED
          BY <2>1, <2>2, <3>2, <4>2, <5>1
      <4>4. CASE ~unended
        <5>1. waiting = 0 /\ file' = Append(file, LineOf(r)) /\ file \in Seq(Lines \cup {Torn})
          BY <3>1, <3>4, <4>4 DEF AppendLine, FileTypes
        <5>2. /\ LineOf(r) \in PageLines => count' = count + 1
              /\ LineOf(r) \notin PageLines => count' = count
          BY <4>1, <5>1, OneMoreHit
        <5>3. LineOf(r) \in PageLines <=> event[r] \in PAGES
          BY <4>1 DEF PageLines
        <5> HIDE DEF count, lost, torn, told, waiting
        <5>4. QED
          BY <2>1, <2>2, <3>2, <4>2, <5>1, <5>2, <5>3
      <4>5. QED
        BY <4>3, <4>4
    <3>5. CASE event[r] # "none" /\ LoseLine
      <4>1. count' = count /\ lost' = lost + 1 /\ torn' = torn /\ waiting' = waiting
        BY <3>1, <3>5, DamageGrows DEF LoseLine, Hits
      <4> HIDE DEF count, lost, torn, told, waiting
      <4>2. QED
        BY <2>1, <2>2, <3>2, <4>1
    <3>6. CASE event[r] # "none" /\ TearLine
      <4>1. lost' = lost /\ torn' = torn + 1 /\ waiting' = 1
        BY <3>1, <3>6, DamageGrows DEF TearLine
      <4>2. count' = count
        <5>1. file' = file \/ file' = Append(file, Torn)
          BY <3>6 DEF TearLine
        <5>2. Torn \notin PageLines /\ file \in Seq(Lines \cup {Torn})
          BY <3>1, HistoryAssumption DEF PageLines, FileTypes
        <5>3. Hits(Append(file, Torn), PageLines) = Hits(file, PageLines)
          BY <5>2, OneMoreHit
        <5>4. QED
          BY <5>1, <5>3 DEF Hits
      <4> HIDE DEF count, lost, torn, told, waiting
      <4>3. QED
        BY <2>1, <2>2, <3>2, <4>1, <4>2
    <3>7. QED
      BY <2>5, <3>3, <3>4, <3>5, <3>6 DEF ReturnAndRecord
  <2>6. QED
    BY <2>3, <2>4, <2>5, HistorySteps
<1>3. HistoryInv /\ Contained => DamageIsContained
  <2> SUFFICES ASSUME HistoryInv, Contained PROVE DamageIsContained
    OBVIOUS
  <2> DEFINE count == Cardinality(Hits(file, PageLines))
             lost == damage.lost
             torn == damage.torn
             told == Len(spoken)
  <2>1. count \in Nat /\ lost \in Nat /\ torn \in Nat /\ told \in Nat
    BY HitsAreFinite DEF HistoryInv, FileTypes
  <2>2. count + lost + 2 * torn >= told + (IF unended THEN 1 ELSE 0)
    BY DEF Contained
  <2>3. DamageIsContained <=> count + lost + 2 * torn >= told
    BY PagesAreHits DEF DamageIsContained, HistoryInv
  <2> HIDE DEF count, lost, torn, told
  <2>4. QED
    BY <2>1, <2>2, <2>3
<1>4. QED
  BY <1>1, <1>2, <1>3, HistoryInvariant, PTL DEF HistorySpec
-----------------------------------------------------------------------------
(* A file nothing happened to.                                             *)

LEMMA NoDamage ==
    ASSUME NEW d \in [lost : Nat, torn : Nat]
    PROVE  d.lost + d.torn = 0 <=> d.lost = 0 /\ d.torn = 0
<1> DEFINE lost == d.lost
           torn == d.torn
<1>1. lost \in Nat /\ torn \in Nat
  OBVIOUS
<1> HIDE DEF lost, torn
<1>2. lost + torn = 0 <=> lost = 0 /\ torn = 0
  BY <1>1
<1>3. QED
  BY <1>2 DEF lost, torn

LEMMA IntactFile ==
    ASSUME FileTypes
    PROVE  /\ Intact <=> damage.lost = 0 /\ damage.torn = 0
           /\ Intact => ~unended /\ file \in Seq(Lines)
BY NoDamage DEF FileTypes, Intact

LEMMA IntactReturn ==
    ASSUME HistoryInv, NEW r \in Runs, ReturnAndRecord(r), FileTypes', Intact'
    PROVE  /\ Intact /\ file \in Seq(Lines)
           /\ event[r] = "none" => file' = file
           /\ event[r] # "none" => LineOf(r) \in Lines /\ file' = Append(file, LineOf(r))
           /\ IF event[r] \in PAGES THEN spoken' = Append(spoken, at[r]) ELSE spoken' = spoken
<1>1. damage'.lost = 0 /\ damage'.torn = 0
  BY NoDamage DEF FileTypes, Intact
<1>2. FileTypes /\ Answered(r) /\ AnswerFits(r) /\ TypeOK /\ speak[r] \in BOOLEAN
  BY DEF HistoryInv, ReturnAndRecord, Return, Answered, TypeOK
<1>3. damage.lost \in Nat /\ damage.torn \in Nat
  BY <1>2 DEF FileTypes
<1>4. ~LoseLine /\ ~TearLine
  <2> DEFINE lost == damage.lost
             torn == damage.torn
  <2>1. lost + 1 # 0 /\ torn + 1 # 0
    BY <1>3
  <2>2. QED
    BY <1>1, <1>2, <2>1, DamageGrows
<1>5. damage' = damage
  BY <1>4 DEF ReturnAndRecord, AppendLine
<1>6. Intact /\ ~unended /\ file \in Seq(Lines)
  BY <1>1, <1>2, <1>5, IntactFile
<1>7. event[r] = "none" => file' = file
  BY DEF ReturnAndRecord
<1>8. event[r] # "none" => LineOf(r) \in Lines /\ file' = Append(file, LineOf(r))
  BY <1>2, <1>4, <1>6, LineIsTyped DEF ReturnAndRecord, AppendLine
<1>9. IF event[r] \in PAGES THEN spoken' = Append(spoken, at[r]) ELSE spoken' = spoken
  BY <1>2 DEF ReturnAndRecord, AnswerFits
<1>10. QED
  BY <1>6, <1>7, <1>8, <1>9

LEMMA IntactKill ==
    ASSUME HistoryInv, NEW r \in Runs, KillUnrecorded(r), FileTypes', Intact'
    PROVE  Intact /\ event[r] = "none" /\ UNCHANGED <<file, spoken, forgot>>
<1>1. damage'.lost = 0 /\ damage'.torn = 0
  BY NoDamage DEF FileTypes, Intact
<1>2. damage.lost \in Nat /\ FileTypes
  BY DEF HistoryInv, FileTypes
<1>3. event[r] = "none"
  <2> DEFINE lost == damage.lost
  <2>1. lost + 1 # 0
    BY <1>2
  <2>2. QED
    BY <1>1, <1>2, <2>1, KillDamage
<1>4. damage' = damage
  BY <1>3 DEF KillUnrecorded
<1>5. QED
  BY <1>1, <1>2, <1>3, <1>4, IntactFile DEF KillUnrecorded

LEMMA IntactElse ==
    ASSUME HistoryInv, UNCHANGED <<file, unended, spoken, damage>>, Intact'
    PROVE  Intact
BY DEF Intact

\* The pages of a month, and the times of that month.
PagesIn(m) == {l \in Lines : MonthOf(l.at) = m /\ l.event \in PAGES}
TimesIn(m) == {t \in Nat : MonthOf(t) = m}

Counted ==
    Intact => \A m \in Months : Cardinality(Hits(file, PagesIn(m))) = Cardinality(Hits(spoken, TimesIn(m)))

\* The report's pages of a month are the runs told to speak in it, for any runs
\* and under every fault that leaves the file whole.
THEOREM PagesAreCounted == HistorySpec => []EveryPageCounted
<1>1. HistoryInit => Counted
  <2>1. \A kind : Cardinality(Hits(<<>>, kind)) = 0
    BY HitsOfNothing
  <2>2. QED
    BY <2>1 DEF HistoryInit, Counted
<1>2. HistoryInv /\ FileTypes' /\ Counted /\ [HistoryNext]_allVars => Counted'
  <2> SUFFICES ASSUME HistoryInv, FileTypes', Counted, [HistoryNext]_allVars, Intact',
                      NEW m \in Months
               PROVE  Cardinality(Hits(file', PagesIn(m))) = Cardinality(Hits(spoken', TimesIn(m)))
    BY DEF Counted, Hits, Months, MonthOf, PagesIn, TimesIn, PAGES, Lines
  <2>1. CASE UNCHANGED <<file, unended, spoken, damage>>
    BY <2>1, IntactElse DEF Counted, Hits
  <2>2. ASSUME NEW r \in Runs, KillUnrecorded(r)
        PROVE  Cardinality(Hits(file', PagesIn(m))) = Cardinality(Hits(spoken', TimesIn(m)))
    BY <2>2, IntactKill DEF Counted, Hits
  <2>3. ASSUME NEW r \in Runs, ReturnAndRecord(r)
        PROVE  Cardinality(Hits(file', PagesIn(m))) = Cardinality(Hits(spoken', TimesIn(m)))
    <3> DEFINE pages == Cardinality(Hits(file, PagesIn(m)))
               times == Cardinality(Hits(spoken, TimesIn(m)))
    <3>1. /\ Intact /\ file \in Seq(Lines) /\ spoken \in Seq(Nat) /\ at[r] \in Nat
          /\ pages = times
      BY <2>3, IntactReturn, BoundAssumption DEF Counted, HistoryInv, FileTypes, TypeOK
    <3>2. CASE event[r] = "none"
      <4>1. file' = file /\ spoken' = spoken
        BY <2>3, <3>2, IntactReturn DEF PAGES
      <4>2. QED
        BY <3>1, <4>1
    <3>3. CASE event[r] # "none"
      <4>1. /\ LineOf(r) \in Lines /\ file' = Append(file, LineOf(r))
            /\ LineOf(r).event = event[r] /\ LineOf(r).at = at[r]
        BY <2>3, <3>3, IntactReturn, LineIsTyped DEF HistoryInv, ReturnAndRecord, Return, Answered
      <4>2. LineOf(r) \in PagesIn(m) <=> event[r] \in PAGES /\ at[r] \in TimesIn(m)
        BY <3>1, <4>1 DEF PagesIn, TimesIn
      <4>3. CASE event[r] \in PAGES
        <5>1. spoken' = Append(spoken, at[r])
          BY <2>3, <4>3, IntactReturn
        <5>2. CASE at[r] \in TimesIn(m)
          <6>1. Cardinality(Hits(file', PagesIn(m))) = pages + 1
            BY <3>1, <4>1, <4>2, <4>3, <5>2, OneMoreHit
          <6>2. Cardinality(Hits(spoken', TimesIn(m))) = times + 1
            BY <3>1, <5>1, <5>2, OneMoreHit
          <6>3. QED
            BY <3>1, <6>1, <6>2
        <5>3. CASE at[r] \notin TimesIn(m)
          <6>1. Hits(file', PagesIn(m)) = Hits(file, PagesIn(m))
            BY <3>1, <4>1, <4>2, <5>3, OneMoreHit
          <6>2. Hits(spoken', TimesIn(m)) = Hits(spoken, TimesIn(m))
            BY <3>1, <5>1, <5>3, OneMoreHit
          <6>3. QED
            BY <3>1, <6>1, <6>2
        <5>4. QED
          BY <5>2, <5>3
      <4>4. CASE event[r] \notin PAGES
        <5>1. spoken' = spoken
          BY <2>3, <4>4, IntactReturn
        <5>2. Hits(file', PagesIn(m)) = Hits(file, PagesIn(m))
          BY <3>1, <4>1, <4>2, <4>4, OneMoreHit
        <5>3. QED
          BY <3>1, <5>1, <5>2
      <4>5. QED
        BY <4>3, <4>4
    <3>4. QED
      BY <3>2, <3>3
  <2>4. QED
    BY <2>1, <2>2, <2>3, HistorySteps
<1>3. HistoryInv /\ Counted => EveryPageCounted
  <2> SUFFICES ASSUME HistoryInv, Counted, Intact, NEW m \in Months
               PROVE  Summary(m).pages = Cardinality({i \in DOMAIN spoken : MonthOf(spoken[i]) = m})
    BY DEF EveryPageCounted
  <2>1. file \in Seq(Lines) /\ spoken \in Seq(Nat)
    BY IntactFile DEF HistoryInv, FileTypes
  <2>2. {i \in RecordsOf(m) : file[i].event \in PAGES} = Hits(file, PagesIn(m))
    <3>1. \A i \in DOMAIN file : file[i] \in Lines /\ file[i] # Torn
      BY <2>1, HistoryAssumption
    <3>2. QED
      BY <3>1 DEF RecordsOf, Records, Hits, PagesIn
  <2>3. {i \in DOMAIN spoken : MonthOf(spoken[i]) = m} = Hits(spoken, TimesIn(m))
    <3>1. \A i \in DOMAIN spoken : spoken[i] \in Nat
      BY <2>1
    <3>2. QED
      BY <3>1 DEF Hits, TimesIn
  <2>4. Summary(m).pages = Cardinality({i \in RecordsOf(m) : file[i].event \in PAGES})
    BY DEF Summary
  <2>5. QED
    BY <2>2, <2>3, <2>4 DEF Counted
<1>4. HistoryInv => FileTypes
  BY DEF HistoryInv
<1>5. QED
  BY <1>1, <1>2, <1>3, <1>4, HistoryInvariant, PTL DEF HistorySpec
-----------------------------------------------------------------------------
(* One run at a time, and no write refused.                                *)

\* What each decision is about, and what it leaves in Redis.
Decision(r) ==
    \/ /\ event'[r] = "raised"
       /\ store' \in States
       /\ store'.condition = failing[r] /\ store'.raisedAt = at[r] /\ store'.repeats = 0
    \/ /\ event'[r] \in {"held", "clean", "repeat"}
       /\ seen[r] \in States /\ store' \in States
       /\ store'.condition = seen[r].condition /\ store'.raisedAt = seen[r].raisedAt
       /\ store'.repeats = IF event'[r] = "repeat" THEN seen[r].repeats + 1 ELSE seen[r].repeats
    \/ event'[r] = "none" /\ seen[r] = NoState /\ store' = store
    \/ event'[r] = "recovered" /\ seen[r] \in States /\ store' = NoState

LEMMA DecidesSo ==
    ASSUME Faithful, TypeOK, NEW r \in Runs, Decide(r)
    PROVE  /\ Decision(r) /\ pc[r] = "decide" /\ Answered(r)'
           /\ failing'[r] = failing[r] /\ at'[r] = at[r] /\ seen'[r] = seen[r]
<1>1. ASSUME NEW t, NEW e \in Events, Answer(r, t, e)
      PROVE  /\ event'[r] = e /\ pc'[r] = "answered"
             /\ failing'[r] = failing[r] /\ at'[r] = at[r] /\ seen'[r] = seen[r]
  BY <1>1 DEF Answer, TypeOK
<1>2. /\ {"raised", "held", "repeat", "none", "clean", "recovered"} \subseteq Events
      /\ at[r] \in Nat
      /\ failing[r] # Clean => failing[r] \in Conditions
      /\ seen[r] # NoState => seen[r] \in States
  BY BoundAssumption DEF Events, TypeOK
<1>3. \A s : WriteState(s) => store' = s
  BY DEF WriteState, Faithful
<1>4. DeleteState => store' = NoState
  BY DEF DeleteState, Faithful
<1>5. CASE Raise(r)
  <2> DEFINE fresh == [condition |-> failing[r], sentAt |-> at[r], raisedAt |-> at[r],
                       repeats |-> 0, clean |-> 0]
  <2>1. failing[r] # Clean /\ store' = fresh /\ Answer(r, TRUE, "raised") /\ pc[r] = "decide"
    BY <1>3, <1>5 DEF Raise
  <2>2. fresh \in States
    BY <1>2, <2>1 DEF States
  <2>3. fresh.condition = failing[r] /\ fresh.raisedAt = at[r] /\ fresh.repeats = 0
    OBVIOUS
  <2> HIDE DEF fresh
  <2>4. QED
    BY <1>1, <1>2, <2>1, <2>2, <2>3 DEF Decision, Answered
<1>6. CASE Hold(r)
  <2> DEFINE held == [seen[r] EXCEPT !.clean = 0]
  <2>1. IsStanding(r) /\ store' = held /\ Answer(r, FALSE, "held") /\ pc[r] = "decide"
    BY <1>3, <1>6 DEF Hold, IsStanding
  <2>2. seen[r] \in States
    BY <2>1, StandingIsPresent
  <2>3. /\ held \in States /\ held.condition = seen[r].condition
        /\ held.raisedAt = seen[r].raisedAt /\ held.repeats = seen[r].repeats
    BY <2>2 DEF States
  <2> HIDE DEF held
  <2>4. QED
    BY <1>1, <1>2, <2>1, <2>2, <2>3 DEF Decision, Answered
<1>7. CASE Repeat(r)
  <2> DEFINE again == [seen[r] EXCEPT !.sentAt = at[r], !.repeats = @ + 1, !.clean = 0]
  <2>1. IsStanding(r) /\ store' = again /\ Answer(r, TRUE, "repeat") /\ pc[r] = "decide"
    BY <1>3, <1>7 DEF Repeat, IsStanding
  <2>2. seen[r] \in States
    BY <2>1, StandingIsPresent
  <2>3. /\ again \in States /\ again.condition = seen[r].condition
        /\ again.raisedAt = seen[r].raisedAt /\ again.repeats = seen[r].repeats + 1
    <3> DEFINE n == seen[r].repeats + 1
    <3>1. n \in Nat
      BY <2>2 DEF States
    <3>2. again = [seen[r] EXCEPT !.sentAt = at[r], !.repeats = n, !.clean = 0]
      OBVIOUS
    <3> HIDE DEF again, n
    <3>3. /\ again \in States /\ again.condition = seen[r].condition
          /\ again.raisedAt = seen[r].raisedAt /\ again.repeats = n
      BY <1>2, <2>2, <3>1, <3>2 DEF States
    <3>4. QED
      BY <3>3 DEF n
  <2> HIDE DEF again
  <2>4. QED
    BY <1>1, <1>2, <2>1, <2>2, <2>3 DEF Decision, Answered
<1>8. CASE StayQuiet(r)
  <2>1. seen[r] = NoState /\ store' = store /\ Answer(r, FALSE, "none") /\ pc[r] = "decide"
    BY <1>8 DEF StayQuiet, IsClean
  <2>2. QED
    BY <1>1, <1>2, <2>1 DEF Decision, Answered
<1>9. CASE CountClean(r)
  <2> DEFINE counted == [seen[r] EXCEPT !.clean = @ + 1]
  <2>1. seen[r] # NoState /\ store' = counted /\ Answer(r, FALSE, "clean") /\ pc[r] = "decide"
    BY <1>3, <1>9 DEF CountClean, IsClean
  <2>2. seen[r] \in States
    BY <1>2, <2>1
  <2>3. /\ counted \in States /\ counted.condition = seen[r].condition
        /\ counted.raisedAt = seen[r].raisedAt /\ counted.repeats = seen[r].repeats
    BY <2>2 DEF States
  <2> HIDE DEF counted
  <2>4. QED
    BY <1>1, <1>2, <2>1, <2>2, <2>3 DEF Decision, Answered
<1>10. CASE Recover(r)
  <2>1. seen[r] # NoState /\ store' = NoState /\ Answer(r, FALSE, "recovered") /\ pc[r] = "decide"
    BY <1>4, <1>10 DEF Recover, IsClean
  <2>2. QED
    BY <1>1, <1>2, <2>1 DEF Decision, Answered
<1>11. QED
  BY <1>5, <1>6, <1>7, <1>8, <1>9, <1>10 DEF Decide
-----------------------------------------------------------------------------
(* The books.                                                              *)

Raised == Cardinality(Hits(file, {l \in Lines : l.event = "raised"}))
Replaced == Cardinality(Hits(file, {l \in Lines : l.event = "raised" /\ l.replaces # Clean}))
Recovered == Cardinality(Hits(file, {l \in Lines : l.event = "recovered"}))
Open == IF store = NoState THEN 0 ELSE 1

\* What the books lack while a run has decided and its line is not written.
Owing(r) ==
    /\ event[r] = "raised" =>
           Raised + 1 = Replaced + Recovered + Open + (IF Standing(seen[r]) = Clean THEN 0 ELSE 1)
    /\ event[r] = "recovered" => Raised = Replaced + Recovered + Open + 1
    /\ event[r] \in {"none", "held", "clean", "repeat"} => Raised = Replaced + Recovered + Open

BooksInv ==
    Intact /\ ~forgot =>
        /\ (\A r \in Runs : ~Answered(r)) => Raised = Replaced + Recovered + Open
        /\ \A r \in Runs : pc[r] = "decide" => seen[r] = store
        /\ \A r \in Runs : Answered(r) => Owing(r)

LEMMA CountsAreNumbers ==
    ASSUME FileTypes
    PROVE  Raised \in Nat /\ Replaced \in Nat /\ Recovered \in Nat /\ Open \in Nat
BY HitsAreFinite DEF FileTypes, Raised, Replaced, Recovered, Open

\* One line more in the books.
LEMMA OneMoreLine ==
    ASSUME NEW l \in Lines, file \in Seq(Lines), file' = Append(file, l)
    PROVE  /\ Raised' = IF l.event = "raised" THEN Raised + 1 ELSE Raised
           /\ Replaced' = IF l.event = "raised" /\ l.replaces # Clean THEN Replaced + 1 ELSE Replaced
           /\ Recovered' = IF l.event = "recovered" THEN Recovered + 1 ELSE Recovered
<1>1. Raised' = IF l.event = "raised" THEN Raised + 1 ELSE Raised
  <2> DEFINE kind == {x \in Lines : x.event = "raised"}
  <2>1. l \in kind <=> l.event = "raised"
    OBVIOUS
  <2>2. Raised = Cardinality(Hits(file, kind)) /\ Raised' = Cardinality(Hits(Append(file, l), kind))
    BY DEF Raised, Hits, Lines, Events
  <2> HIDE DEF kind
  <2>3. QED
    BY <2>1, <2>2, OneMoreHit
<1>2. Replaced' = IF l.event = "raised" /\ l.replaces # Clean THEN Replaced + 1 ELSE Replaced
  <2> DEFINE kind == {x \in Lines : x.event = "raised" /\ x.replaces # Clean}
  <2>1. l \in kind <=> l.event = "raised" /\ l.replaces # Clean
    OBVIOUS
  <2>2. Replaced = Cardinality(Hits(file, kind)) /\ Replaced' = Cardinality(Hits(Append(file, l), kind))
    BY DEF Replaced, Hits, Lines, Events
  <2> HIDE DEF kind
  <2>3. QED
    BY <2>1, <2>2, OneMoreHit
<1>3. Recovered' = IF l.event = "recovered" THEN Recovered + 1 ELSE Recovered
  <2> DEFINE kind == {x \in Lines : x.event = "recovered"}
  <2>1. l \in kind <=> l.event = "recovered"
    OBVIOUS
  <2>2. Recovered = Cardinality(Hits(file, kind)) /\ Recovered' = Cardinality(Hits(Append(file, l), kind))
    BY DEF Recovered, Hits, Lines, Events
  <2> HIDE DEF kind
  <2>3. QED
    BY <2>1, <2>2, OneMoreHit
<1>4. QED
  BY <1>1, <1>2, <1>3

\* Writing the line a decision owes settles the books.
LEMMA LineSettles ==
    ASSUME HistoryInv, NEW r \in Runs, Answered(r), Owing(r), file \in Seq(Lines), store' = store,
           event[r] = "none" => file' = file,
           event[r] # "none" => LineOf(r) \in Lines /\ file' = Append(file, LineOf(r))
    PROVE  Raised' = Replaced' + Recovered' + Open'
<1> DEFINE l == LineOf(r)
           a == Raised
           b == Replaced
           c == Recovered
           d == Open
<1>1. a \in Nat /\ b \in Nat /\ c \in Nat /\ d \in Nat /\ d' = d
  BY CountsAreNumbers DEF HistoryInv, Open
<1>2. /\ l.event = event[r]
      /\ event[r] = "raised" => l.replaces = Standing(seen[r])
  BY DEF LineOf
<1>3. event[r] \in Events
  BY DEF HistoryInv, TypeOK
<1>4. CASE event[r] = "raised"
  <2>1. l \in Lines /\ file' = Append(file, l)
    BY <1>4
  <2>2. a' = a + 1 /\ c' = c /\ b' = IF Standing(seen[r]) # Clean THEN b + 1 ELSE b
    BY <1>2, <1>4, <2>1, OneMoreLine
  <2>3. a + 1 = b + c + d + (IF Standing(seen[r]) = Clean THEN 0 ELSE 1)
    BY <1>4 DEF Owing
  <2> HIDE DEF a, b, c, d
  <2>4. a' = b' + c' + d'
    BY <1>1, <2>2, <2>3
  <2>5. QED
    BY <2>4 DEF a, b, c, d
<1>5. CASE event[r] = "recovered"
  <2>1. l \in Lines /\ file' = Append(file, l)
    BY <1>5
  <2>2. a' = a /\ c' = c + 1 /\ b' = b
    BY <1>2, <1>5, <2>1, OneMoreLine
  <2>3. a = b + c + d + 1
    BY <1>5 DEF Owing
  <2> HIDE DEF a, b, c, d
  <2>4. a' = b' + c' + d'
    BY <1>1, <2>2, <2>3
  <2>5. QED
    BY <2>4 DEF a, b, c, d
<1>6. CASE event[r] \in {"held", "clean", "repeat"}
  <2>1. l \in Lines /\ file' = Append(file, l)
    BY <1>6
  <2>2. a' = a /\ c' = c /\ b' = b
    BY <1>2, <1>6, <2>1, OneMoreLine
  <2>3. a = b + c + d
    BY <1>6 DEF Owing
  <2>4. QED
    BY <1>1, <2>2, <2>3
<1>7. CASE event[r] = "none"
  <2>1. a' = a /\ c' = c /\ b' = b
    BY <1>7 DEF Raised, Replaced, Recovered, Hits, Lines, Events
  <2>2. a = b + c + d
    BY <1>7 DEF Owing
  <2>3. QED
    BY <1>1, <2>1, <2>2
<1>8. QED
  BY <1>3, <1>4, <1>5, <1>6, <1>7 DEF Events

LEMMA DecisionOwes ==
    ASSUME Faithful, HistoryInv, NEW r \in Runs, Decide(r), file' = file, seen[r] = store,
           Raised = Replaced + Recovered + Open
    PROVE  Owing(r)'
<1> DEFINE a == Raised
           b == Replaced
           c == Recovered
           d == Open
<1>1. a \in Nat /\ b \in Nat /\ c \in Nat /\ a = b + c + d /\ d = IF store = NoState THEN 0 ELSE 1
  BY CountsAreNumbers DEF HistoryInv, Open
<1>2. a' = a /\ b' = b /\ c' = c /\ d' = IF store' = NoState THEN 0 ELSE 1
  BY DEF Raised, Replaced, Recovered, Hits, Lines, Events, Open
<1>3. Decision(r) /\ seen'[r] = store /\ store \in States \cup {NoState}
  BY DecidesSo DEF HistoryInv, TypeOK
<1>4. /\ store = NoState => Standing(store) = Clean
      /\ store \in States => Standing(store) # Clean /\ store # NoState
  <2>1. store \in States => store.condition \in Conditions
    BY DEF States
  <2>2. QED
    BY <2>1, ConditionAssumption, HistoryAssumption DEF Standing
<1>5. store' \in States => store' # NoState
  BY HistoryAssumption
<1>6. Owing(r)' <=>
          /\ event'[r] = "raised" =>
                 a' + 1 = b' + c' + d' + (IF Standing(store) = Clean THEN 0 ELSE 1)
          /\ event'[r] = "recovered" => a' = b' + c' + d' + 1
          /\ event'[r] \in {"none", "held", "clean", "repeat"} => a' = b' + c' + d'
  BY <1>3 DEF Owing, Standing
<1> HIDE DEF a, b, c, d
<1>7. CASE event'[r] = "raised" /\ store' \in States
  BY <1>1, <1>2, <1>3, <1>4, <1>5, <1>6, <1>7
<1>8. CASE event'[r] \in {"held", "clean", "repeat"} /\ seen[r] \in States /\ store' \in States
  BY <1>1, <1>2, <1>4, <1>5, <1>6, <1>8
<1>9. CASE event'[r] = "none" /\ store' = store
  BY <1>1, <1>2, <1>6, <1>9
<1>10. CASE event'[r] = "recovered" /\ seen[r] \in States /\ store' = NoState
  BY <1>1, <1>2, <1>4, <1>6, <1>10
<1>11. QED
  BY <1>3, <1>7, <1>8, <1>9, <1>10 DEF Decision
\* With one run, what it is not doing nobody is.
LEMMA OnlyOne ==
    ASSUME Faithful, NEW r \in Runs, NEW q \in Runs
    PROVE  q = r
BY DEF Faithful

LEMMA BooksReturn ==
    ASSUME Faithful, HistoryInv, FileTypes', BooksInv, NEW r \in Runs,
           ReturnAndRecord(r) \/ KillUnrecorded(r)
    PROVE  BooksInv'
<1> SUFFICES ASSUME Intact', ~forgot' PROVE BooksInv'
  BY DEF BooksInv
<1>1. TypeOK /\ pc'[r] = "idle" /\ store' = store /\ forgot' = forgot
  BY LeavesApart DEF HistoryInv, ReturnAndRecord, KillUnrecorded, Return, Kill
<1>2. \A q \in Runs : pc'[q] = "idle"
  BY <1>1, OnlyOne
<1>3. Intact
  BY IntactReturn, IntactKill
<1>4. Raised' = Replaced' + Recovered' + Open'
  <2>1. CASE ReturnAndRecord(r)
    <3>1. Answered(r) /\ Owing(r)
      BY <1>1, <1>3, <2>1 DEF ReturnAndRecord, Return, Answered, BooksInv
    <3>2. QED
      BY <1>1, <2>1, <3>1, IntactReturn, LineSettles
  <2>2. CASE KillUnrecorded(r)
    <3>1. event[r] = "none" /\ file' = file
      BY <2>2, IntactKill
    <3>2. Raised = Replaced + Recovered + Open
      <4>1. CASE Answered(r)
        BY <1>1, <1>3, <3>1, <4>1 DEF BooksInv, Owing
      <4>2. CASE ~Answered(r)
        BY <1>1, <1>3, <4>2, OnlyOne DEF BooksInv
      <4>3. QED
        BY <4>1, <4>2
    <3>3. QED
      BY <1>1, <3>1, <3>2 DEF Raised, Replaced, Recovered, Open, Hits, Lines, Events
  <2>3. QED
    BY <2>1, <2>2
<1>5. QED
  BY <1>2, <1>4 DEF BooksInv, Answered

LEMMA BooksStand ==
    ASSUME HistoryInv, BooksInv, Intact', ~forgot,
           UNCHANGED <<file, unended, spoken, damage, store>>
    PROVE  /\ Intact
           /\ (\A r \in Runs : ~Answered(r)) => Raised' = Replaced' + Recovered' + Open'
<1>1. Intact
  BY DEF Intact
<1>2. (\A r \in Runs : ~Answered(r)) => Raised = Replaced + Recovered + Open
  BY <1>1 DEF BooksInv
<1>3. QED
  BY <1>1, <1>2 DEF Raised, Replaced, Recovered, Open, Hits, Lines, Events

LEMMA BooksElsewhere ==
    ASSUME Faithful, HistoryInv, BooksInv, NEW r \in Runs, Elsewhere(r)
    PROVE  BooksInv'
<1> SUFFICES ASSUME Intact', ~forgot' PROVE BooksInv'
  BY DEF BooksInv
<1>1. TypeOK /\ UNCHANGED <<file, unended, spoken, damage>>
  BY DEF HistoryInv, Elsewhere, historyVars
<1>2. ~forgot
  <2>1. CASE forgot' = (forgot \/ seen'[r] # store)
    BY <2>1
  <2>2. CASE forgot' = forgot
    BY <2>2
  <2>3. QED
    BY <2>1, <2>2 DEF Elsewhere, historyVars
<1>3. CASE \E f \in Conditions \cup {Clean} : Begin(r, f)
  <2>1. pc[r] = "idle" /\ pc'[r] = "read" /\ store' = store
    BY <1>1, <1>3 DEF Begin, TypeOK
  <2>2. \A q \in Runs : ~Answered(q) /\ pc'[q] = "read"
    BY <2>1, OnlyOne DEF Answered
  <2>3. Raised' = Replaced' + Recovered' + Open'
    BY <1>1, <1>2, <2>1, <2>2, BooksStand
  <2>4. QED
    BY <2>2, <2>3 DEF BooksInv, Answered
<1>4. CASE ReadState(r) /\ forgot' = (forgot \/ seen'[r] # store)
  <2>1. pc[r] = "read" /\ pc'[r] = "decide" /\ store' = store /\ seen'[r] = store
    BY <1>1, <1>4 DEF ReadState, TypeOK
  <2>2. \A q \in Runs : ~Answered(q) /\ pc'[q] = "decide" /\ seen'[q] = store'
    BY <2>1, OnlyOne DEF Answered
  <2>3. Raised' = Replaced' + Recovered' + Open'
    BY <1>1, <1>2, <2>1, <2>2, BooksStand
  <2>4. QED
    BY <2>2, <2>3 DEF BooksInv, Answered
<1>5. CASE Decide(r) /\ forgot' = forgot
  <2>1. Intact /\ ~forgot
    BY <1>1, <1>2 DEF Intact
  <2>2. pc[r] = "decide" /\ Answered(r)'
    BY <1>1, <1>5, DecidesSo
  <2>3. \A q \in Runs : ~Answered(q)
    BY <2>2, OnlyOne DEF Answered
  <2>4. Raised = Replaced + Recovered + Open /\ seen[r] = store
    BY <2>1, <2>2, <2>3 DEF BooksInv
  <2>5. Owing(r)'
    BY <1>1, <1>5, <2>4, DecisionOwes
  <2>6. \A q \in Runs : q = r
    BY OnlyOne
  <2>7. QED
    BY <2>2, <2>5, <2>6 DEF BooksInv, Answered
<1>6. QED
  BY <1>3, <1>4, <1>5 DEF Elsewhere, historyVars

\* Every incident the history opens it also closes, or it is the one standing:
\* for one run at a time and a Redis that refuses no write.
THEOREM TheBooksBalance ==
    ASSUME Faithful
    PROVE  HistorySpec => []BooksBalance
<1>1. HistoryInit => BooksInv
  <2> SUFFICES ASSUME HistoryInit PROVE BooksInv
    OBVIOUS
  <2>1. \A r \in Runs : pc[r] = "idle" /\ store = NoState /\ file = <<>>
    BY DEF HistoryInit, Init
  <2>2. \A kind : Cardinality(Hits(<<>>, kind)) = 0
    BY HitsOfNothing
  <2>3. file = <<>> /\ store = NoState
    BY DEF HistoryInit, Init
  <2>4. Raised = 0 /\ Replaced = 0 /\ Recovered = 0 /\ Open = 0
    BY <2>2, <2>3 DEF Raised, Replaced, Recovered, Open
  <2>5. QED
    BY <2>1, <2>4 DEF BooksInv, Answered
<1>2. HistoryInv /\ FileTypes' /\ BooksInv /\ [HistoryNext]_allVars => BooksInv'
  <2> SUFFICES ASSUME HistoryInv, FileTypes', BooksInv, [HistoryNext]_allVars PROVE BooksInv'
    OBVIOUS
  <2>1. CASE UNCHANGED <<store, runVars, historyVars>>
    BY <2>1 DEF runVars, historyVars, BooksInv, Intact, Owing, Answered,
                Raised, Replaced, Recovered, Open, Hits, Lines, Events, Standing
  <2>2. ASSUME NEW r \in Runs, ReturnAndRecord(r) \/ Elsewhere(r) \/ KillUnrecorded(r)
        PROVE  BooksInv'
    BY <2>2, BooksReturn, BooksElsewhere
  <2>3. QED
    BY <2>1, <2>2 DEF HistoryNext, BoundReached, Tick, allVars, vars
<1>3. HistoryInv /\ BooksInv => BooksBalance
  <2> SUFFICES ASSUME HistoryInv, BooksInv, Intact, ~forgot, \A r \in Runs : pc[r] = "idle"
               PROVE  BooksBalance
    BY DEF BooksBalance
  <2> DEFINE raised == {i \in Records : file[i].event = "raised"}
             replaced == {i \in raised : file[i].replaces # Clean}
             recovered == {i \in Records : file[i].event = "recovered"}
  <2>1. file \in Seq(Lines)
    BY IntactFile DEF HistoryInv
  <2>2. \A i \in DOMAIN file : file[i] \in Lines /\ file[i] # Torn
    BY <2>1, HistoryAssumption
  <2>3. Cardinality(raised) = Raised
    <3>1. raised = Hits(file, {l \in Lines : l.event = "raised"})
      BY <2>2 DEF Records, Hits
    <3>2. QED
      BY <3>1 DEF Raised
  <2>4. Cardinality(replaced) = Replaced
    <3>1. replaced = Hits(file, {l \in Lines : l.event = "raised" /\ l.replaces # Clean})
      BY <2>2 DEF Records, Hits
    <3>2. QED
      BY <3>1 DEF Replaced
  <2>5. Cardinality(recovered) = Recovered
    <3>1. recovered = Hits(file, {l \in Lines : l.event = "recovered"})
      BY <2>2 DEF Records, Hits
    <3>2. QED
      BY <3>1 DEF Recovered
  <2>6. Raised = Replaced + Recovered + Open
    BY DEF BooksInv, Answered
  <2> HIDE DEF raised, replaced, recovered
  <2>7. Cardinality(raised) = Cardinality(replaced) + Cardinality(recovered)
                              + (IF store = NoState THEN 0 ELSE 1)
    BY <2>3, <2>4, <2>5, <2>6 DEF Open
  <2>8. QED
    BY <2>7 DEF BooksBalance, raised, replaced, recovered
<1>4. HistoryInv => FileTypes
  BY DEF HistoryInv
<1>5. QED
  BY <1>1, <1>2, <1>3, <1>4, HistoryInvariant, PTL DEF HistorySpec
-----------------------------------------------------------------------------
(* The time to clear.                                                      *)

\* The file tells when what s remembers was opened, and whether it was repeated.
Opened(f, s) ==
    \E j \in DOMAIN f :
        /\ f[j].event = "raised" /\ f[j].condition = s.condition /\ f[j].at = s.raisedAt
        /\ \A k \in (j + 1)..Len(f) : f[k].event # "raised"
        /\ s.repeats = 0 <=> \A k \in (j + 1)..Len(f) : f[k].event # "repeat"

\* And when the recovery of its line i was.
Told(f, i) ==
    \E j \in DOMAIN f :
        /\ j < i
        /\ f[j].event = "raised" /\ f[j].condition = f[i].condition /\ f[j].at = f[i].raisedAt
        /\ \A k \in (j + 1)..(i - 1) : f[k].event # "raised"
        /\ f[i].repeats = 0 <=> \A k \in (j + 1)..(i - 1) : f[k].event # "repeat"

LEMMA LineAtTheEnd ==
    ASSUME NEW f \in Seq(Lines), NEW l \in Lines
    PROVE  /\ Len(f) \in Nat /\ DOMAIN f = 1..Len(f)
           /\ DOMAIN Append(f, l) = 1..Len(f) + 1 /\ Len(Append(f, l)) = Len(f) + 1
           /\ Append(f, l)[Len(f) + 1] = l
           /\ \A i \in 1..Len(f) : Append(f, l)[i] = f[i]
BY AppendProperties, LenProperties

LEMMA StillOpen ==
    ASSUME NEW f \in Seq(Lines), NEW l \in Lines, NEW s, NEW t,
           Opened(f, s), l.event # "raised",
           t.condition = s.condition, t.raisedAt = s.raisedAt,
           t.repeats = 0 <=> s.repeats = 0 /\ l.event # "repeat"
    PROVE  Opened(Append(f, l), t)
<1> DEFINE n == Len(f)
           g == Append(f, l)
<1>1. /\ n \in Nat /\ DOMAIN f = 1..n /\ DOMAIN g = 1..n + 1 /\ Len(g) = n + 1
      /\ g[n + 1] = l /\ \A i \in 1..n : g[i] = f[i]
  BY LineAtTheEnd
<1>2. PICK j \in 1..n :
        /\ f[j].event = "raised" /\ f[j].condition = s.condition /\ f[j].at = s.raisedAt
        /\ \A k \in (j + 1)..n : f[k].event # "raised"
        /\ s.repeats = 0 <=> \A k \in (j + 1)..n : f[k].event # "repeat"
  BY <1>1 DEF Opened
<1> HIDE DEF n, g
<1>3. /\ j \in 1..n + 1
      /\ \A k \in (j + 1)..n : g[k] = f[k]
      /\ \A k : k \in (j + 1)..(n + 1) <=> k \in (j + 1)..n \/ k = n + 1
  BY <1>1
<1>4. g[j].event = "raised" /\ g[j].condition = t.condition /\ g[j].at = t.raisedAt
  BY <1>1, <1>2
<1>5. \A k \in (j + 1)..(n + 1) : g[k].event # "raised"
  BY <1>1, <1>2, <1>3
<1>6. t.repeats = 0 <=> \A k \in (j + 1)..(n + 1) : g[k].event # "repeat"
  BY <1>1, <1>2, <1>3
<1>7. Opened(g, t)
  BY <1>1, <1>3, <1>4, <1>5, <1>6 DEF Opened
<1>8. QED
  BY <1>7 DEF g

LEMMA JustOpened ==
    ASSUME NEW f \in Seq(Lines), NEW l \in Lines, NEW s,
           l.event = "raised", s.condition = l.condition, s.raisedAt = l.at, s.repeats = 0
    PROVE  Opened(Append(f, l), s)
<1> DEFINE n == Len(f)
           g == Append(f, l)
<1>1. n \in Nat /\ DOMAIN g = 1..n + 1 /\ Len(g) = n + 1 /\ g[n + 1] = l
  BY LineAtTheEnd
<1> HIDE DEF n, g
<1>2. n + 1 \in DOMAIN g /\ \A k : k \notin (n + 1 + 1)..Len(g)
  BY <1>1
<1>3. Opened(g, s)
  BY <1>1, <1>2 DEF Opened
<1>4. QED
  BY <1>3 DEF g

\* What the file tells of its recoveries, a line more does not change, and tells
\* of its own if it was opened.
LEMMA StillTold ==
    ASSUME NEW f \in Seq(Lines), NEW l \in Lines,
           \A i \in DOMAIN f : f[i].event = "recovered" => Told(f, i),
           l.event = "recovered" => Opened(f, l)
    PROVE  \A i \in DOMAIN Append(f, l) :
               Append(f, l)[i].event = "recovered" => Told(Append(f, l), i)
<1> DEFINE n == Len(f)
           g == Append(f, l)
<1>1. /\ n \in Nat /\ DOMAIN f = 1..n /\ DOMAIN g = 1..n + 1
      /\ g[n + 1] = l /\ \A i \in 1..n : g[i] = f[i]
  BY LineAtTheEnd
<1>2. l.event = "recovered" => Opened(f, l)
  OBVIOUS
<1>3. l.event = "recovered" =>
        \E j \in 1..n :
            /\ f[j].event = "raised" /\ f[j].condition = l.condition /\ f[j].at = l.raisedAt
            /\ \A k \in (j + 1)..n : f[k].event # "raised"
            /\ l.repeats = 0 <=> \A k \in (j + 1)..n : f[k].event # "repeat"
  BY <1>1, <1>2 DEF Opened
<1> HIDE DEF n, g
<1>4. \A i : i \in 1..n + 1 <=> i \in 1..n \/ i = n + 1
  BY <1>1
<1>5. ASSUME NEW i \in 1..n, g[i].event = "recovered" PROVE Told(g, i)
  <2>1. PICK j \in 1..n :
          /\ j < i
          /\ f[j].event = "raised" /\ f[j].condition = f[i].condition /\ f[j].at = f[i].raisedAt
          /\ \A k \in (j + 1)..(i - 1) : f[k].event # "raised"
          /\ f[i].repeats = 0 <=> \A k \in (j + 1)..(i - 1) : f[k].event # "repeat"
    BY <1>1, <1>5 DEF Told
  <2>2. \A k \in (j + 1)..(i - 1) : g[k] = f[k]
    BY <1>1
  <2>3. g[i] = f[i] /\ g[j] = f[j] /\ j \in DOMAIN g
    BY <1>1, <1>4
  <2>4. QED
    BY <2>1, <2>2, <2>3 DEF Told
<1>6. ASSUME l.event = "recovered", NEW i \in DOMAIN g, i = n + 1 PROVE Told(g, i)
  <2>1. PICK j \in 1..n :
          /\ f[j].event = "raised" /\ f[j].condition = l.condition /\ f[j].at = l.raisedAt
          /\ \A k \in (j + 1)..n : f[k].event # "raised"
          /\ l.repeats = 0 <=> \A k \in (j + 1)..n : f[k].event # "repeat"
    BY <1>3, <1>6
  <2>2. j < i /\ \A k : k \in (j + 1)..(i - 1) <=> k \in (j + 1)..n
    BY <1>1, <1>6
  <2>3. g[i] = l /\ g[j] = f[j] /\ j \in DOMAIN g /\ \A k \in (j + 1)..n : g[k] = f[k]
    BY <1>1, <1>4, <1>6
  <2>4. \A k \in (j + 1)..(i - 1) : g[k].event # "raised"
    BY <2>1, <2>2, <2>3
  <2>5. g[i].repeats = 0 <=> \A k \in (j + 1)..(i - 1) : g[k].event # "repeat"
    BY <2>1, <2>2, <2>3
  <2>6. QED
    BY <2>1, <2>2, <2>3, <2>4, <2>5 DEF Told
<1>7. \A i \in DOMAIN g : g[i].event = "recovered" => Told(g, i)
  BY <1>1, <1>4, <1>5, <1>6
<1>8. QED
  BY <1>7 DEF g
\* What the file must already tell for the line a decided run is about to add.
Foretold(r) ==
    /\ event[r] = "raised" =>
           store.condition = failing[r] /\ store.raisedAt = at[r] /\ store.repeats = 0
    /\ event[r] = "repeat" =>
           /\ Opened(file, seen[r])
           /\ store.condition = seen[r].condition /\ store.raisedAt = seen[r].raisedAt
           /\ store.repeats # 0
    /\ event[r] \in {"held", "clean"} => Opened(file, store)
    /\ event[r] = "recovered" => store = NoState /\ Opened(file, seen[r])
    /\ event[r] = "none" /\ store # NoState => Opened(file, store)

ClearInv ==
    Intact =>
        /\ \A i \in DOMAIN file : file[i].event = "recovered" => Told(file, i)
        /\ (\A r \in Runs : ~Answered(r)) /\ store # NoState => Opened(file, store)
        /\ \A r \in Runs : pc[r] = "decide" /\ seen[r] # NoState => seen[r] = store
        /\ \A r \in Runs : Answered(r) => Foretold(r)

LEMMA LineTells ==
    ASSUME HistoryInv, NEW r \in Runs, Answered(r), Foretold(r), file \in Seq(Lines),
           event[r] # "none", LineOf(r) \in Lines
    PROVE  /\ store # NoState => Opened(Append(file, LineOf(r)), store)
           /\ LineOf(r).event = "recovered" => Opened(file, LineOf(r))
<1> DEFINE l == LineOf(r)
<1>1. AnswerFits(r) /\ event[r] \in Events
  BY DEF HistoryInv, TypeOK
<1>2. /\ l.event = event[r] /\ l.at = at[r]
      /\ event[r] = "raised" => l.condition = failing[r]
      /\ event[r] = "recovered" =>
             l.condition = seen[r].condition /\ l.raisedAt = seen[r].raisedAt
             /\ l.repeats = seen[r].repeats
  BY <1>1, ConditionAssumption DEF LineOf, AnswerFits
<1>3. l \in Lines
  OBVIOUS
<1> HIDE DEF l
<1>4. CASE event[r] = "raised"
  <2>1. Opened(Append(file, l), store)
    BY <1>2, <1>3, <1>4, JustOpened DEF Foretold
  <2>2. QED
    BY <1>2, <1>4, <2>1 DEF l
<1>5. CASE event[r] = "repeat"
  <2>1. Opened(Append(file, l), store)
    BY <1>2, <1>3, <1>5, StillOpen DEF Foretold
  <2>2. QED
    BY <1>2, <1>5, <2>1 DEF l
<1>6. CASE event[r] \in {"held", "clean"}
  <2>1. Opened(Append(file, l), store)
    BY <1>2, <1>3, <1>6, StillOpen DEF Foretold
  <2>2. QED
    BY <1>2, <1>6, <2>1 DEF l
<1>7. CASE event[r] = "recovered"
  <2>1. store = NoState /\ Opened(file, seen[r])
    BY <1>7 DEF Foretold
  <2>2. Opened(file, l)
    BY <1>2, <1>7, <2>1 DEF Opened
  <2>3. QED
    BY <2>1, <2>2 DEF l
<1>8. QED
  BY <1>1, <1>4, <1>5, <1>6, <1>7 DEF Events

LEMMA ClearReturn ==
    ASSUME Faithful, HistoryInv, FileTypes', ClearInv, NEW r \in Runs,
           ReturnAndRecord(r) \/ KillUnrecorded(r)
    PROVE  ClearInv'
<1> SUFFICES ASSUME Intact' PROVE ClearInv'
  BY DEF ClearInv
<1>1. TypeOK /\ pc'[r] = "idle" /\ store' = store
  BY LeavesApart DEF HistoryInv, ReturnAndRecord, KillUnrecorded, Return, Kill
<1>2. \A q \in Runs : pc'[q] = "idle"
  BY <1>1, OnlyOne
<1>3. Intact
  BY IntactReturn, IntactKill
<1>4. \A i \in DOMAIN file : file[i].event = "recovered" => Told(file, i)
  BY <1>3 DEF ClearInv
<1>5. /\ \A i \in DOMAIN file' : file'[i].event = "recovered" => Told(file', i)
      /\ store # NoState => Opened(file', store)
  <2>1. CASE ReturnAndRecord(r) /\ event[r] # "none"
    <3>1. Answered(r) /\ Foretold(r)
      BY <1>3, <2>1 DEF ReturnAndRecord, Return, Answered, ClearInv
    <3>2. LineOf(r) \in Lines /\ file \in Seq(Lines) /\ file' = Append(file, LineOf(r))
      BY <2>1, IntactReturn
    <3>3. /\ store # NoState => Opened(Append(file, LineOf(r)), store)
          /\ LineOf(r).event = "recovered" => Opened(file, LineOf(r))
      BY <1>4, <2>1, <3>1, <3>2, LineTells
    <3>4. \A i \in DOMAIN Append(file, LineOf(r)) :
              Append(file, LineOf(r))[i].event = "recovered" => Told(Append(file, LineOf(r)), i)
      BY <1>4, <3>2, <3>3, StillTold
    <3>5. QED
      BY <3>2, <3>3, <3>4
  <2>2. CASE ReturnAndRecord(r) /\ event[r] = "none"
    <3>1. Answered(r) /\ Foretold(r)
      BY <1>3, <2>2 DEF ReturnAndRecord, Return, Answered, ClearInv
    <3>2. file' = file
      BY <2>2, IntactReturn
    <3>3. QED
      BY <1>4, <2>2, <3>1, <3>2 DEF Foretold
  <2>3. CASE KillUnrecorded(r)
    <3>1. event[r] = "none" /\ file' = file
      BY <2>3, IntactKill
    <3>2. store # NoState => Opened(file, store)
      <4>1. CASE Answered(r)
        BY <1>3, <3>1, <4>1 DEF ClearInv, Foretold
      <4>2. CASE ~Answered(r)
        BY <1>3, <4>2, OnlyOne DEF ClearInv
      <4>3. QED
        BY <4>1, <4>2
    <3>3. QED
      BY <1>4, <3>1, <3>2
  <2>4. QED
    BY <2>1, <2>2, <2>3
<1>6. QED
  BY <1>1, <1>2, <1>5 DEF ClearInv, Answered

LEMMA DecisionTells ==
    ASSUME Faithful, HistoryInv, NEW r \in Runs, Decide(r), file' = file,
           seen[r] # NoState => seen[r] = store,
           store # NoState => Opened(file, store)
    PROVE  Foretold(r)'
<1>1. /\ Decision(r) /\ failing'[r] = failing[r] /\ at'[r] = at[r] /\ seen'[r] = seen[r]
  BY DecidesSo DEF HistoryInv
<1>2. NoState \notin States
  BY HistoryAssumption
<1>3. CASE event'[r] = "raised"
  BY <1>1, <1>3 DEF Decision, Foretold
<1>4. CASE event'[r] \in {"held", "clean", "repeat"}
  <2>1. seen[r] \in States /\ Opened(file, seen[r])
    BY <1>1, <1>2, <1>4 DEF Decision
  <2>2. /\ store'.condition = seen[r].condition /\ store'.raisedAt = seen[r].raisedAt
        /\ event'[r] # "repeat" => store'.repeats = seen[r].repeats
        /\ event'[r] = "repeat" => store'.repeats = seen[r].repeats + 1
    BY <1>1, <1>4 DEF Decision
  <2>3. event'[r] = "repeat" => store'.repeats # 0
    <3> DEFINE n == seen[r].repeats
    <3>1. n \in Nat
      BY <2>1 DEF States
    <3> HIDE DEF n
    <3>2. n + 1 # 0
      BY <3>1
    <3>3. QED
      BY <2>2, <3>2 DEF n
  <2>4. event'[r] # "repeat" => Opened(file, store')
    BY <2>1, <2>2 DEF Opened
  <2>5. QED
    BY <1>1, <1>4, <2>1, <2>2, <2>3, <2>4 DEF Foretold
<1>5. CASE event'[r] = "none"
  BY <1>1, <1>5 DEF Decision, Foretold
<1>6. CASE event'[r] = "recovered"
  BY <1>1, <1>2, <1>6 DEF Decision, Foretold
<1>7. QED
  BY <1>1, <1>3, <1>4, <1>5, <1>6 DEF Decision

LEMMA ClearElsewhere ==
    ASSUME Faithful, HistoryInv, ClearInv, NEW r \in Runs, Elsewhere(r)
    PROVE  ClearInv'
<1> SUFFICES ASSUME Intact' PROVE ClearInv'
  BY DEF ClearInv
<1>1. TypeOK /\ file' = file /\ damage' = damage
  BY DEF HistoryInv, Elsewhere, historyVars
<1>2. Intact
  BY <1>1 DEF Intact
<1>3. \A i \in DOMAIN file' : file'[i].event = "recovered" => Told(file', i)
  BY <1>1, <1>2 DEF ClearInv
<1>4. CASE \E f \in Conditions \cup {Clean} : Begin(r, f)
  <2>1. pc[r] = "idle" /\ pc'[r] = "read" /\ store' = store
    BY <1>1, <1>4 DEF Begin, TypeOK
  <2>2. \A q \in Runs : ~Answered(q) /\ pc'[q] = "read"
    BY <2>1, OnlyOne DEF Answered
  <2>3. QED
    BY <1>1, <1>2, <1>3, <2>1, <2>2 DEF ClearInv, Answered
<1>5. CASE ReadState(r)
  <2>1. pc[r] = "read" /\ pc'[r] = "decide" /\ store' = store
        /\ (seen'[r] = store \/ seen'[r] = NoState)
    BY <1>1, <1>5 DEF ReadState, Live, TypeOK
  <2>2. \A q \in Runs : ~Answered(q) /\ pc'[q] = "decide" /\ (seen'[q] = store' \/ seen'[q] = NoState)
    BY <2>1, OnlyOne DEF Answered
  <2>3. QED
    BY <1>1, <1>2, <1>3, <2>1, <2>2 DEF ClearInv, Answered
<1>6. CASE Decide(r)
  <2>1. pc[r] = "decide" /\ Answered(r)'
    BY <1>1, <1>6, DecidesSo
  <2>2. \A q \in Runs : ~Answered(q)
    BY <2>1, OnlyOne DEF Answered
  <2>3. Foretold(r)'
    BY <1>1, <1>2, <1>6, <2>1, <2>2, DecisionTells DEF ClearInv
  <2>4. \A q \in Runs : q = r
    BY OnlyOne
  <2>5. QED
    BY <1>3, <2>1, <2>3, <2>4 DEF ClearInv, Answered
<1>7. QED
  BY <1>4, <1>5, <1>6 DEF Elsewhere

\* The time to clear runs from the message that opened the incident, and a
\* recovery is "before its first repeat" exactly when none was sent: for one run
\* at a time and a Redis that refuses no write, though it may refuse reads.
THEOREM ClearTimesStandUp ==
    ASSUME Faithful
    PROVE  HistorySpec => []ClearTimesAreTrue
<1>1. HistoryInit => ClearInv
  BY DEF HistoryInit, Init, ClearInv, Answered
<1>2. HistoryInv /\ FileTypes' /\ ClearInv /\ [HistoryNext]_allVars => ClearInv'
  <2> SUFFICES ASSUME HistoryInv, FileTypes', ClearInv, [HistoryNext]_allVars PROVE ClearInv'
    OBVIOUS
  <2>1. CASE UNCHANGED <<store, runVars, historyVars>>
    BY <2>1 DEF runVars, historyVars, ClearInv, Intact, Foretold, Answered
  <2>2. ASSUME NEW r \in Runs, ReturnAndRecord(r) \/ Elsewhere(r) \/ KillUnrecorded(r)
        PROVE  ClearInv'
    BY <2>2, ClearReturn, ClearElsewhere
  <2>3. QED
    BY <2>1, <2>2 DEF HistoryNext, BoundReached, Tick, allVars, vars
<1>3. HistoryInv /\ ClearInv => ClearTimesAreTrue
  <2> SUFFICES ASSUME HistoryInv, ClearInv, Intact, NEW i \in Records, file[i].event = "recovered"
               PROVE  \E j \in Records :
                          /\ j < i
                          /\ file[j].event = "raised"
                          /\ file[j].condition = file[i].condition
                          /\ file[j].at = file[i].raisedAt
                          /\ \A k \in (j + 1)..(i - 1) : file[k].event # "raised"
                          /\ (file[i].repeats = 0)
                               <=> (\A k \in (j + 1)..(i - 1) : file[k].event # "repeat")
    BY DEF ClearTimesAreTrue
  <2>1. file \in Seq(Lines)
    BY IntactFile DEF HistoryInv
  <2>2. \A j \in DOMAIN file : file[j] # Torn
    BY <2>1, HistoryAssumption
  <2>3. Records = DOMAIN file
    BY <2>2 DEF Records
  <2>4. Told(file, i)
    BY <2>3 DEF ClearInv
  <2>5. QED
    BY <2>3, <2>4 DEF Told
<1>4. HistoryInv => FileTypes
  BY DEF HistoryInv
<1>5. QED
  BY <1>1, <1>2, <1>3, <1>4, HistoryInvariant, PTL DEF HistorySpec
=============================================================================

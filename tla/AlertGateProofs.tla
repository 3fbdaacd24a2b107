--------------------------- MODULE AlertGateProofs ---------------------------
(***************************************************************************)
(* Theorems about AlertGate, for any set of runs, any conditions, any      *)
(* backoff table and any faults.                                           *)
(***************************************************************************)
EXTENDS AlertGate, TLAPS

LEMMA StandingIsPresent ==
    ASSUME NEW r \in Runs, TypeOK, IsStanding(r)
    PROVE  seen[r] \in States /\ failing[r] \in Conditions /\ seen[r].condition = failing[r]
BY ConditionAssumption DEF TypeOK, IsStanding, Standing

LEMMA DueInBound ==
    ASSUME NEW s \in States
    PROVE  DueIn(s) \in Nat /\ DueIn(s) =< MaxGap
BY BackoffAssumption DEF DueIn, States, MaxGap

\* What every decision of a run preserves, apart from the state it writes.
LEMMA AnswerType ==
    ASSUME NEW r \in Runs, NEW spoken \in BOOLEAN, NEW e \in Events,
           TypeOK, Answer(r, spoken, e), spoken => failing[r] \in Conditions
    PROVE  /\ now' \in 0..MaxTime
           /\ pc' \in [Runs -> {"idle", "read", "decide", "answered"}]
           /\ failing' \in [Runs -> Conditions \cup {Clean}]
           /\ at' \in [Runs -> 0..MaxTime]
           /\ seen' \in [Runs -> States \cup {NoState}]
           /\ speak' \in [Runs -> BOOLEAN]
           /\ event' \in [Runs -> Events]
           /\ decidedAt' \in [Conditions -> Int]
           /\ lastBad' \in Conditions \cup {Clean}
           /\ streak' \in 0..RecoveryRuns
<1>1. /\ now' \in 0..MaxTime
      /\ pc' \in [Runs -> {"idle", "read", "decide", "answered"}]
      /\ failing' \in [Runs -> Conditions \cup {Clean}]
      /\ at' \in [Runs -> 0..MaxTime]
      /\ seen' \in [Runs -> States \cup {NoState}]
      /\ speak' \in [Runs -> BOOLEAN]
      /\ event' \in [Runs -> Events]
  BY DEF TypeOK, Answer
<1>2. decidedAt' \in [Conditions -> Int]
  BY DEF TypeOK, Answer
<1>3. lastBad' \in Conditions \cup {Clean}
  BY DEF TypeOK, Answer
<1>4. streak' \in 0..RecoveryRuns
  BY BoundAssumption DEF TypeOK, Answer
<1>5. QED
  BY <1>1, <1>2, <1>3, <1>4

LEMMA WriteType ==
    ASSUME NEW s \in States, TypeOK, WriteState(s)
    PROVE  store' \in States \cup {NoState} /\ expires' \in Nat
BY BoundAssumption DEF TypeOK, WriteState

LEMMA DecideType ==
    ASSUME NEW r \in Runs, TypeOK, Decide(r)
    PROVE  TypeOK'
<1>1. CASE Raise(r)
  <2> DEFINE fresh == [condition |-> failing[r], sentAt |-> at[r], raisedAt |-> at[r],
                       repeats |-> 0, clean |-> 0]
  <2>1. failing[r] \in Conditions /\ fresh \in States
    BY <1>1, BoundAssumption DEF TypeOK, Raise, States
  <2>2. WriteState(fresh) /\ Answer(r, TRUE, "raised")
    BY <1>1 DEF Raise
  <2>3. QED
    BY <2>1, <2>2, AnswerType, WriteType DEF TypeOK, Events
<1>2. CASE Hold(r)
  <2> DEFINE s == [seen[r] EXCEPT !.clean = 0]
  <2>1. s \in States
    BY <1>2, StandingIsPresent DEF Hold, States
  <2>2. WriteState(s) /\ Answer(r, FALSE, "held")
    BY <1>2 DEF Hold
  <2>3. QED
    BY <2>1, <2>2, AnswerType, WriteType DEF TypeOK, Events
<1>3. CASE Repeat(r)
  <2> DEFINE s == [seen[r] EXCEPT !.sentAt = at[r], !.repeats = @ + 1, !.clean = 0]
  <2>0. seen[r] \in States /\ failing[r] \in Conditions /\ at[r] \in Nat
    BY <1>3, StandingIsPresent, BoundAssumption DEF Repeat, TypeOK
  <2>1. s \in States /\ failing[r] \in Conditions
    <3>1. seen[r].repeats + 1 \in Nat
      BY <2>0 DEF States
    <3>2. QED
      BY <2>0, <3>1 DEF States
  <2>2. WriteState(s) /\ Answer(r, TRUE, "repeat")
    BY <1>3 DEF Repeat
  <2>3. QED
    BY <2>1, <2>2, AnswerType, WriteType DEF TypeOK, Events
<1>4. CASE StayQuiet(r)
  <2>1. Answer(r, FALSE, "none") /\ UNCHANGED <<store, expires>>
    BY <1>4 DEF StayQuiet
  <2>2. QED
    BY <2>1, AnswerType DEF TypeOK, Events
<1>5. CASE CountClean(r)
  <2> DEFINE s == [seen[r] EXCEPT !.clean = @ + 1]
  <2>1. s \in States
    BY <1>5 DEF CountClean, States, TypeOK
  <2>2. WriteState(s) /\ Answer(r, FALSE, "clean")
    BY <1>5 DEF CountClean
  <2>3. QED
    BY <2>1, <2>2, AnswerType, WriteType DEF TypeOK, Events
<1>6. CASE Recover(r)
  <2>1. Answer(r, FALSE, "recovered") /\ DeleteState
    BY <1>6 DEF Recover
  <2>2. store' \in States \cup {NoState} /\ expires' \in Nat
    BY <2>1 DEF DeleteState, TypeOK
  <2>3. QED
    BY <2>1, <2>2, AnswerType DEF TypeOK, Events
<1>7. QED
  BY <1>1, <1>2, <1>3, <1>4, <1>5, <1>6 DEF Decide

LEMMA LeaveType ==
    ASSUME NEW r \in Runs, TypeOK, Leave(r)
    PROVE  TypeOK'
BY BoundAssumption DEF TypeOK, Leave, Events, ghosts

LEMMA TypeStep ==
    ASSUME TypeOK, [Next]_vars
    PROVE  TypeOK'
<1>1. CASE Tick
  <2>1. now' \in 0..MaxTime
    BY <1>1, BoundAssumption DEF Tick, TypeOK
  <2>2. UNCHANGED <<store, expires, pc, failing, at, seen, speak, event,
                    decidedAt, lastBad, streak>>
    BY <1>1 DEF Tick, runVars, ghosts
  <2>3. QED
    BY <2>1, <2>2 DEF TypeOK
<1>2. ASSUME NEW r \in Runs, NEW f \in Conditions \cup {Clean}, Begin(r, f)
      PROVE  TypeOK'
  BY <1>2 DEF Begin, TypeOK, ghosts
<1>3. ASSUME NEW r \in Runs, ReadState(r)
      PROVE  TypeOK'
  <2>1. seen' \in [Runs -> States \cup {NoState}]
    BY <1>3 DEF ReadState, Live, TypeOK
  <2>2. QED
    BY <1>3, <2>1 DEF ReadState, TypeOK, ghosts
<1>4. ASSUME NEW r \in Runs, Decide(r)
      PROVE  TypeOK'
  BY <1>4, DecideType
<1>5. ASSUME NEW r \in Runs, Return(r) \/ Kill(r)
      PROVE  TypeOK'
  BY <1>5, LeaveType DEF Return, Kill
<1>6. CASE UNCHANGED vars
  BY <1>6 DEF vars, runVars, ghosts, TypeOK
<1>7. QED
  BY <1>1, <1>2, <1>3, <1>4, <1>5, <1>6 DEF Next, RunStep

LEMMA TypeInit == Init => TypeOK
<1>1. MaxGap \in Nat
  BY BackoffAssumption DEF MaxGap
<1>2. 0 \in 0..MaxTime /\ 0 \in 0..RecoveryRuns
  BY BoundAssumption
<1>3. -MaxGap \in Int
  BY <1>1
<1>4. Init => decidedAt \in [Conditions -> Int]
  BY <1>3 DEF Init
<1>5. Init => /\ now \in 0..MaxTime
              /\ store \in States \cup {NoState}
              /\ expires \in Nat
              /\ pc \in [Runs -> {"idle", "read", "decide", "answered"}]
              /\ failing \in [Runs -> Conditions \cup {Clean}]
              /\ at \in [Runs -> 0..MaxTime]
  BY <1>2 DEF Init
<1>6. Init => /\ seen \in [Runs -> States \cup {NoState}]
              /\ speak \in [Runs -> BOOLEAN]
              /\ event \in [Runs -> Events]
              /\ lastBad \in Conditions \cup {Clean}
              /\ streak \in 0..RecoveryRuns
  BY <1>2 DEF Init, Events
<1>7. QED
  BY <1>4, <1>5, <1>6 DEF TypeOK

\* The state keeps its shape, over every behaviour (the state and the fields
\* alerting.py:219-225 writes).
THEOREM TypeCorrect == Spec => []TypeOK
<1>1. Init => TypeOK
  BY TypeInit
<1>2. TypeOK /\ [Next]_vars => TypeOK'
  BY TypeStep
<1>3. QED
  BY <1>1, <1>2, PTL DEF Spec

-----------------------------------------------------------------------------
(* Silence is covered.                                                     *)

CoverInv == TypeOK /\ EveryCopyIsCovered /\ SilenceIsCovered

\* A decision never moves the last decision to speak back, and a run told to
\* speak moves it to its own time at least.
LEMMA DecidedGrows ==
    ASSUME NEW r \in Runs, NEW spoken \in BOOLEAN, NEW e \in Events,
           TypeOK, Answer(r, spoken, e), spoken => failing[r] \in Conditions
    PROVE  /\ \A c \in Conditions : decidedAt'[c] >= decidedAt[c]
           /\ spoken => decidedAt'[failing[r]] >= at[r]
BY DEF TypeOK, Answer

\* What a copy claimed before a decision is still covered after it.
LEMMA CoverageLasts ==
    ASSUME TypeOK, NEW s \in States \cup {NoState}, Covers(s),
           TypeOK', \A c \in Conditions : decidedAt'[c] >= decidedAt[c]
    PROVE  s # NoState => decidedAt'[s.condition] >= s.sentAt
BY DEF Covers, TypeOK, States

\* A decision that writes a covered state, and keeps silent only while the
\* copy it read covers it, preserves the invariant.
LEMMA AnswerCovers ==
    ASSUME NEW r \in Runs, NEW spoken \in BOOLEAN, NEW e \in Events,
           CoverInv, TypeOK', Answer(r, spoken, e),
           spoken => failing[r] \in Conditions,
           (store' # NoState) => (decidedAt'[store'.condition] >= store'.sentAt),
           failing[r] # Clean /\ ~spoken => at[r] - decidedAt[failing[r]] < MaxGap
    PROVE  CoverInv'
<1>1. \A c \in Conditions : decidedAt'[c] >= decidedAt[c]
  BY DecidedGrows DEF CoverInv
<1>2. EveryCopyIsCovered'
  <2>1. Covers(store)'
    BY DEF Covers
  <2>2. ASSUME NEW q \in Runs
        PROVE  Covers(seen[q])'
    <3>1. seen' = seen /\ seen[q] \in States \cup {NoState} /\ Covers(seen[q])
      BY DEF CoverInv, EveryCopyIsCovered, TypeOK, Answer
    <3>2. seen[q] # NoState => decidedAt'[seen[q].condition] >= seen[q].sentAt
      BY <1>1, <3>1, CoverageLasts DEF CoverInv
    <3>3. QED
      BY <3>1, <3>2 DEF Covers
  <2>3. QED
    BY <2>1, <2>2 DEF EveryCopyIsCovered
<1>3. SilenceIsCovered'
  <2> SUFFICES ASSUME NEW q \in Runs,
                      Answered(q)', failing'[q] # Clean, ~speak'[q]
               PROVE  at'[q] - decidedAt'[failing'[q]] < MaxGap
    BY DEF SilenceIsCovered
  <2>1. failing' = failing /\ at' = at /\ failing[q] \in Conditions /\ at[q] \in Nat
    BY DEF Answer, CoverInv, TypeOK
  <2>2. decidedAt'[failing[q]] >= decidedAt[failing[q]]
        /\ decidedAt[failing[q]] \in Int /\ decidedAt'[failing[q]] \in Int
    BY <1>1, <2>1 DEF CoverInv, TypeOK
  <2>3. at[q] - decidedAt[failing[q]] < MaxGap
    <3>1. CASE q = r
      BY <3>1, <2>1 DEF Answer, CoverInv, TypeOK
    <3>2. CASE q # r
      <4>1. Answered(q) /\ ~speak[q] /\ failing[q] # Clean
        BY <3>2, <2>1 DEF Answer, Answered, CoverInv, TypeOK
      <4>2. QED
        BY <4>1 DEF CoverInv, SilenceIsCovered
    <3>3. QED
      BY <3>1, <3>2
  <2>4. MaxGap \in Nat
    BY BackoffAssumption DEF MaxGap
  <2>5. QED
    BY <2>1, <2>2, <2>3, <2>4
<1>4. QED
  BY <1>2, <1>3 DEF CoverInv

LEMMA StoreStaysCovered ==
    ASSUME CoverInv, TypeOK', \A c \in Conditions : decidedAt'[c] >= decidedAt[c],
           UNCHANGED <<store, expires>>
    PROVE  (store' # NoState) => (decidedAt'[store'.condition] >= store'.sentAt)
<1>1. store \in States \cup {NoState} /\ Covers(store)
  BY DEF CoverInv, TypeOK, EveryCopyIsCovered
<1>2. QED
  BY <1>1, CoverageLasts DEF CoverInv

LEMMA DecideCovers ==
    ASSUME NEW r \in Runs, CoverInv, Decide(r)
    PROVE  CoverInv'
<1> USE DEF Events
<1>0. TypeOK /\ TypeOK'
  BY DecideType DEF CoverInv
<1>1. CASE Raise(r)
  <2>1. Answer(r, TRUE, "raised") /\ failing[r] \in Conditions
    BY <1>1, <1>0 DEF Raise, TypeOK
  <2>2. /\ \A c \in Conditions : decidedAt'[c] >= decidedAt[c]
        /\ decidedAt'[failing[r]] >= at[r]
    BY <2>1, <1>0, DecidedGrows
  <2>3. (store' # NoState) => (decidedAt'[store'.condition] >= store'.sentAt)
    <3>1. CASE UNCHANGED <<store, expires>>
      BY <3>1, <2>2, <1>0, StoreStaysCovered
    <3>2. CASE store' = [condition |-> failing[r], sentAt |-> at[r], raisedAt |-> at[r],
                         repeats |-> 0, clean |-> 0]
      BY <3>2, <2>2
    <3>3. QED
      BY <3>1, <3>2, <1>1 DEF Raise, WriteState
  <2>4. QED
    BY <2>1, <2>3, <1>0, AnswerCovers
<1>2. CASE Hold(r)
  <2>1. /\ Answer(r, FALSE, "held")
        /\ seen[r] \in States /\ failing[r] \in Conditions
        /\ seen[r].condition = failing[r]
        /\ seen[r].sentAt \in Nat
    BY <1>2, <1>0, StandingIsPresent DEF Hold, States
  <2>2. \A c \in Conditions : decidedAt'[c] >= decidedAt[c]
    BY <2>1, <1>0, DecidedGrows
  <2>3. decidedAt[failing[r]] >= seen[r].sentAt \/ seen[r] = NoState
    BY <2>1 DEF CoverInv, EveryCopyIsCovered, Covers
  <2>4. (store' # NoState) => (decidedAt'[store'.condition] >= store'.sentAt)
    <3>1. CASE UNCHANGED <<store, expires>>
      BY <3>1, <2>2, <1>0, StoreStaysCovered
    <3>2. CASE store' = [seen[r] EXCEPT !.clean = 0]
      <4>1. store'.condition = failing[r] /\ store'.sentAt = seen[r].sentAt
        BY <3>2, <2>1 DEF States
      <4>2. seen[r] # NoState => decidedAt'[seen[r].condition] >= seen[r].sentAt
        BY <2>1, <2>2, <1>0, CoverageLasts DEF CoverInv, EveryCopyIsCovered
      <4>3. seen[r] # NoState
        BY <1>2, <2>1, ConditionAssumption DEF Hold, IsStanding, Standing
      <4>4. QED
        BY <4>1, <4>2, <4>3, <2>1
    <3>3. QED
      BY <3>1, <3>2, <1>2 DEF Hold, WriteState
  <2>5. seen[r] # NoState
    BY <1>2, <2>1, ConditionAssumption DEF Hold, IsStanding, Standing
  <2>6. at[r] - decidedAt[failing[r]] < MaxGap
    <3>1. at[r] - seen[r].sentAt < DueIn(seen[r])
      BY <1>2 DEF Hold, Elapsed
    <3>2. DueIn(seen[r]) \in Nat /\ DueIn(seen[r]) =< MaxGap
      BY <2>1, DueInBound
    <3>3. at[r] \in Nat /\ decidedAt[failing[r]] \in Int /\ MaxGap \in Nat
      BY <2>1, <1>0, BackoffAssumption DEF TypeOK, MaxGap
    <3>4. QED
      BY <3>1, <3>2, <3>3, <2>1, <2>3, <2>5
  <2>7. QED
    BY <2>1, <2>4, <2>6, <1>0, AnswerCovers
<1>3. CASE Repeat(r)
  <2>1. /\ Answer(r, TRUE, "repeat")
        /\ seen[r] \in States /\ failing[r] \in Conditions
        /\ seen[r].condition = failing[r]
    BY <1>3, <1>0, StandingIsPresent DEF Repeat
  <2>2. /\ \A c \in Conditions : decidedAt'[c] >= decidedAt[c]
        /\ decidedAt'[failing[r]] >= at[r]
    BY <2>1, <1>0, DecidedGrows
  <2>3. (store' # NoState) => (decidedAt'[store'.condition] >= store'.sentAt)
    <3>1. CASE UNCHANGED <<store, expires>>
      BY <3>1, <2>2, <1>0, StoreStaysCovered
    <3>2. CASE store' = [seen[r] EXCEPT !.sentAt = at[r], !.repeats = @ + 1, !.clean = 0]
      <4>1. store'.condition = failing[r] /\ store'.sentAt = at[r]
        BY <3>2, <2>1 DEF States
      <4>2. QED
        BY <4>1, <2>2
    <3>3. QED
      BY <3>1, <3>2, <1>3 DEF Repeat, WriteState
  <2>4. QED
    BY <2>1, <2>3, <1>0, AnswerCovers
<1>4. CASE StayQuiet(r)
  <2>1. Answer(r, FALSE, "none") /\ UNCHANGED <<store, expires>> /\ failing[r] = Clean
    BY <1>4 DEF StayQuiet, IsClean
  <2>2. \A c \in Conditions : decidedAt'[c] >= decidedAt[c]
    BY <2>1, <1>0, DecidedGrows
  <2>3. (store' # NoState) => (decidedAt'[store'.condition] >= store'.sentAt)
    BY <2>1, <2>2, <1>0, StoreStaysCovered
  <2>4. QED
    BY <2>1, <2>3, <1>0, AnswerCovers
<1>5. CASE CountClean(r)
  <2>1. /\ Answer(r, FALSE, "clean") /\ failing[r] = Clean
        /\ seen[r] \in States /\ seen[r] # NoState
    BY <1>5, <1>0 DEF CountClean, IsClean, TypeOK
  <2>2. \A c \in Conditions : decidedAt'[c] >= decidedAt[c]
    BY <2>1, <1>0, DecidedGrows
  <2>3. (store' # NoState) => (decidedAt'[store'.condition] >= store'.sentAt)
    <3>1. CASE UNCHANGED <<store, expires>>
      BY <3>1, <2>2, <1>0, StoreStaysCovered
    <3>2. CASE store' = [seen[r] EXCEPT !.clean = @ + 1]
      <4>1. store'.condition = seen[r].condition /\ store'.sentAt = seen[r].sentAt
        BY <3>2, <2>1 DEF States
      <4>2. seen[r] # NoState => decidedAt'[seen[r].condition] >= seen[r].sentAt
        BY <2>1, <2>2, <1>0, CoverageLasts DEF CoverInv, EveryCopyIsCovered
      <4>3. QED
        BY <4>1, <4>2, <2>1
    <3>3. QED
      BY <3>1, <3>2, <1>5 DEF CountClean, WriteState
  <2>4. QED
    BY <2>1, <2>3, <1>0, AnswerCovers
<1>6. CASE Recover(r)
  <2>1. Answer(r, FALSE, "recovered") /\ failing[r] = Clean
    BY <1>6 DEF Recover, IsClean
  <2>2. \A c \in Conditions : decidedAt'[c] >= decidedAt[c]
    BY <2>1, <1>0, DecidedGrows
  <2>3. (store' # NoState) => (decidedAt'[store'.condition] >= store'.sentAt)
    BY <1>6, <2>2, <1>0, StoreStaysCovered DEF Recover, DeleteState
  <2>4. QED
    BY <2>1, <2>3, <1>0, AnswerCovers
<1>7. QED
  BY <1>1, <1>2, <1>3, <1>4, <1>5, <1>6 DEF Decide

LEMMA CoverStep ==
    ASSUME CoverInv, [Next]_vars
    PROVE  CoverInv'
<1>0. TypeOK /\ TypeOK'
  BY TypeStep DEF CoverInv
<1>1. CASE Tick \/ UNCHANGED vars
  <2>1. UNCHANGED <<store, runVars, ghosts>>
    BY <1>1 DEF Tick, vars
  <2>2. EveryCopyIsCovered'
    BY <2>1 DEF CoverInv, EveryCopyIsCovered, Covers, runVars, ghosts
  <2>3. SilenceIsCovered'
    BY <2>1 DEF CoverInv, SilenceIsCovered, Answered, runVars, ghosts
  <2>4. QED
    BY <1>0, <2>2, <2>3 DEF CoverInv
<1>2. ASSUME NEW r \in Runs, NEW f \in Conditions \cup {Clean}, Begin(r, f)
      PROVE  CoverInv'
  <2>1. EveryCopyIsCovered'
    BY <1>2 DEF Begin, CoverInv, EveryCopyIsCovered, Covers, ghosts
  <2>2. SilenceIsCovered'
    BY <1>2, <1>0 DEF Begin, CoverInv, SilenceIsCovered, Answered, ghosts, TypeOK
  <2>3. QED
    BY <1>0, <2>1, <2>2 DEF CoverInv
<1>3. ASSUME NEW r \in Runs, ReadState(r)
      PROVE  CoverInv'
  <2>1. Covers(store)'
    BY <1>3 DEF ReadState, CoverInv, EveryCopyIsCovered, Covers, ghosts
  <2>2. ASSUME NEW q \in Runs
        PROVE  Covers(seen[q])'
    <3>1. seen'[q] \in {seen[q], store, NoState}
      BY <1>3, <1>0 DEF ReadState, Live, TypeOK
    <3>2. Covers(seen[q]) /\ Covers(store) /\ decidedAt' = decidedAt
      BY <1>3 DEF ReadState, CoverInv, EveryCopyIsCovered, ghosts
    <3>3. QED
      BY <3>1, <3>2 DEF Covers
  <2>3. SilenceIsCovered'
    BY <1>3, <1>0 DEF ReadState, CoverInv, SilenceIsCovered, Answered, ghosts, TypeOK
  <2>4. QED
    BY <1>0, <2>1, <2>2, <2>3 DEF CoverInv, EveryCopyIsCovered
<1>4. ASSUME NEW r \in Runs, Decide(r)
      PROVE  CoverInv'
  BY <1>4, DecideCovers
<1>5. ASSUME NEW r \in Runs, Return(r) \/ Kill(r)
      PROVE  CoverInv'
  <2>1. Leave(r)
    BY <1>5 DEF Return, Kill
  <2>2. Covers(store)'
    BY <2>1 DEF Leave, CoverInv, EveryCopyIsCovered, Covers, ghosts
  <2>3. ASSUME NEW q \in Runs
        PROVE  Covers(seen[q])'
    BY <2>1, <1>0 DEF Leave, CoverInv, EveryCopyIsCovered, Covers, ghosts, TypeOK
  <2>4. SilenceIsCovered'
    BY <2>1, <1>0 DEF Leave, CoverInv, SilenceIsCovered, Answered, ghosts, TypeOK
  <2>5. QED
    BY <1>0, <2>2, <2>3, <2>4 DEF CoverInv, EveryCopyIsCovered
<1>6. QED
  BY <1>1, <1>2, <1>3, <1>4, <1>5 DEF Next, RunStep

LEMMA CoverInit == Init => CoverInv
BY TypeInit DEF Init, CoverInv, EveryCopyIsCovered, Covers, SilenceIsCovered, Answered

LEMMA CoverInvariant == Spec => []CoverInv
<1>1. Init => CoverInv
  BY CoverInit
<1>2. CoverInv /\ [Next]_vars => CoverInv'
  BY CoverStep
<1>3. QED
  BY <1>1, <1>2, PTL DEF Spec

\* No silence without an earlier message, for every number of overlapping
\* runs, every backoff table and every fault (alerting.py:206-208).
THEOREM NoUncoveredSilence == Spec => []SilenceIsCovered
<1>1. CoverInv => SilenceIsCovered
  BY DEF CoverInv
<1>2. QED
  BY <1>1, CoverInvariant, PTL

\* No copy of the state claims a later message than was decided on, for every
\* number of overlapping runs and every fault (alerting.py:194-210, 246-252).
THEOREM CopiesAreCovered == Spec => []EveryCopyIsCovered
<1>1. CoverInv => EveryCopyIsCovered
  BY DEF CoverInv
<1>2. QED
  BY <1>1, CoverInvariant, PTL

-----------------------------------------------------------------------------
(* The gate implements PagingPromise.                                      *)

LEMMA PromiseInit == Init => Promise!Init
BY DEF Init, Promise!Init, Promise!Never, AnswerOf, Answered

LEMMA LeaveKeepsPromise ==
    ASSUME NEW r \in Runs, TypeOK, Leave(r)
    PROVE  [Promise!Next]_(Promise!promiseVars)
<1>1. decidedAt' = decidedAt
  BY DEF Leave, ghosts
<1>2. AnswerOf' = [AnswerOf EXCEPT ![r] = NoState]
  BY DEF Leave, AnswerOf, Answered, TypeOK
<1>3. CASE AnswerOf[r] = NoState
  <2>1. AnswerOf' = AnswerOf
    BY <1>2, <1>3 DEF AnswerOf
  <2>2. QED
    BY <1>1, <2>1 DEF Promise!promiseVars
<1>4. CASE AnswerOf[r] # NoState
  <2>1. Promise!Leave(r)
    BY <1>1, <1>2, <1>4 DEF Promise!Leave
  <2>2. QED
    BY <2>1 DEF Promise!Next
<1>5. QED
  BY <1>3, <1>4

\* A decision is a Speak or a StaySilent of the promise, or nothing to it when
\* nothing was failing.
LEMMA DecisionKeepsPromise ==
    ASSUME NEW r \in Runs, NEW spoken \in BOOLEAN, NEW e \in Events,
           CoverInv, CoverInv', Answer(r, spoken, e), pc[r] = "decide",
           spoken => failing[r] \in Conditions
    PROVE  [Promise!Next]_(Promise!promiseVars)
<1>0. TypeOK /\ at[r] \in 0..MaxTime /\ failing[r] \in Conditions \cup {Clean}
  BY DEF CoverInv, TypeOK
<1>1. CASE failing[r] = Clean
  <2>1. ~spoken
    BY <1>1, ConditionAssumption
  <2>2. AnswerOf' = AnswerOf /\ decidedAt' = decidedAt
    BY <1>0, <1>1, <2>1 DEF Answer, AnswerOf, Answered, TypeOK
  <2>3. QED
    BY <2>2 DEF Promise!promiseVars
<1>2. CASE failing[r] \in Conditions
  <2>1. AnswerOf' = [AnswerOf EXCEPT ![r] =
                        [condition |-> failing[r], at |-> at[r], speak |-> spoken]]
    BY <1>0, <1>2, ConditionAssumption DEF Answer, AnswerOf, Answered, TypeOK
  <2>2. CASE spoken
    <3>1. spoken = TRUE
      BY <2>2
    <3>2. decidedAt' = [decidedAt EXCEPT ![failing[r]] = IF at[r] > @ THEN at[r] ELSE @]
      BY <1>0, <1>2, <2>2 DEF Answer, TypeOK
    <3>3. Promise!Speak(r, failing[r], at[r])
      BY <2>1, <3>1, <3>2 DEF Promise!Speak
    <3>4. QED
      BY <1>0, <1>2, <3>3 DEF Promise!Next
  <2>3. CASE ~spoken
    <3>1. spoken = FALSE /\ decidedAt' = decidedAt
      BY <2>3 DEF Answer
    <3>2. Answered(r)' /\ failing'[r] # Clean /\ ~speak'[r]
      BY <1>0, <1>2, <3>1, ConditionAssumption DEF Answer, Answered, TypeOK
    <3>3. at[r] - decidedAt[failing[r]] < MaxGap
      BY <3>1, <3>2 DEF Answer, CoverInv, SilenceIsCovered
    <3>4. Promise!StaySilent(r, failing[r], at[r])
      BY <2>1, <3>1, <3>3 DEF Promise!StaySilent
    <3>5. QED
      BY <1>0, <1>2, <3>4 DEF Promise!Next
  <2>4. QED
    BY <2>2, <2>3
<1>3. QED
  BY <1>0, <1>1, <1>2

LEMMA PromiseStep ==
    ASSUME CoverInv, CoverInv', [Next]_vars
    PROVE  [Promise!Next]_(Promise!promiseVars)
<1>0. TypeOK
  BY DEF CoverInv
<1>1. CASE Tick \/ UNCHANGED vars
  BY <1>1 DEF Tick, vars, runVars, ghosts, Promise!promiseVars, AnswerOf, Answered
<1>2. ASSUME NEW r \in Runs, NEW f \in Conditions \cup {Clean}, Begin(r, f)
      PROVE  [Promise!Next]_(Promise!promiseVars)
  <2>1. AnswerOf' = AnswerOf
    BY <1>2, <1>0 DEF Begin, AnswerOf, Answered, TypeOK
  <2>2. QED
    BY <1>2, <2>1 DEF Begin, ghosts, Promise!promiseVars
<1>3. ASSUME NEW r \in Runs, ReadState(r)
      PROVE  [Promise!Next]_(Promise!promiseVars)
  <2>1. AnswerOf' = AnswerOf
    BY <1>3, <1>0 DEF ReadState, AnswerOf, Answered, TypeOK
  <2>2. QED
    BY <1>3, <2>1 DEF ReadState, ghosts, Promise!promiseVars
<1>4. ASSUME NEW r \in Runs, Decide(r)
      PROVE  [Promise!Next]_(Promise!promiseVars)
  <2>1. pc[r] = "decide"
    BY <1>4 DEF Decide, Raise, Hold, Repeat, StayQuiet, CountClean, Recover, IsStanding, IsClean
  <2>2. CASE Raise(r) \/ Repeat(r)
    <3>1. failing[r] \in Conditions
      BY <2>2, <1>0 DEF Raise, Repeat, IsStanding, TypeOK
    <3>2. Answer(r, TRUE, "raised") \/ Answer(r, TRUE, "repeat")
      BY <2>2 DEF Raise, Repeat
    <3>3. QED
      BY <2>1, <3>1, <3>2, DecisionKeepsPromise DEF Events
  <2>3. CASE Hold(r) \/ StayQuiet(r) \/ CountClean(r) \/ Recover(r)
    <3>1. \E e \in Events : Answer(r, FALSE, e)
      BY <2>3 DEF Hold, StayQuiet, CountClean, Recover, Events
    <3>2. QED
      BY <2>1, <3>1, DecisionKeepsPromise
  <2>4. QED
    BY <1>4, <2>2, <2>3 DEF Decide
<1>5. ASSUME NEW r \in Runs, Return(r) \/ Kill(r)
      PROVE  [Promise!Next]_(Promise!promiseVars)
  BY <1>0, <1>5, LeaveKeepsPromise DEF Return, Kill
<1>6. QED
  BY <1>1, <1>2, <1>3, <1>4, <1>5 DEF Next, RunStep

\* The gate implements its promise: the decisions of should_notify, over any
\* interleaving and any fault, are decisions PagingPromise allows
\* (alerting.py:201-252).
THEOREM GateImplementsPromise == Spec => PromiseKept
<1>1. Init => Promise!Init
  BY PromiseInit
<1>2. CoverInv /\ CoverInv' /\ [Next]_vars => [Promise!Next]_(Promise!promiseVars)
  BY PromiseStep
<1>3. QED
  BY <1>1, <1>2, CoverInvariant, PTL DEF Spec, PromiseKept, Promise!Spec

-----------------------------------------------------------------------------
(* One run at a time, over a Redis that refuses no write: the state is a   *)
(* faithful memory of the runs answered before.                            *)

Faithful == (\A q, r \in Runs : q = r) /\ "write" \notin Faults

Follows(s) == s # NoState => s.condition = lastBad /\ s.clean =< streak

MemoryInv ==
    /\ TypeOK
    /\ Follows(store)
    /\ \A r \in Runs : pc[r] = "decide" => Follows(seen[r])
    /\ RecoveryIsEarned

LEMMA DecideRemembers ==
    ASSUME Faithful, NEW r \in Runs, MemoryInv, Decide(r)
    PROVE  MemoryInv'
<1>0. TypeOK /\ TypeOK' /\ Follows(store) /\ Follows(seen[r]) /\ streak \in Nat
  <2>1. pc[r] = "decide"
    BY DEF Decide, Raise, Hold, Repeat, StayQuiet, CountClean, Recover, IsStanding, IsClean
  <2>2. QED
    BY <2>1, DecideType DEF MemoryInv, TypeOK
<1>1. pc'[r] = "answered"
  BY <1>0 DEF Decide, Raise, Hold, Repeat, StayQuiet, CountClean, Recover, Answer, TypeOK
<1>2. \A q \in Runs : pc'[q] = "decide" => Follows(seen[q])'
  BY <1>1 DEF Faithful
<1>3. ASSUME event'[r] = "recovered" => streak' = RecoveryRuns
      PROVE  RecoveryIsEarned'
  BY <1>3 DEF Faithful, RecoveryIsEarned
<1>4. CASE Raise(r)
  <2>1. /\ store' = [condition |-> failing[r], sentAt |-> at[r], raisedAt |-> at[r],
                     repeats |-> 0, clean |-> 0]
        /\ lastBad' = failing[r] /\ streak' = 0 /\ event'[r] = "raised"
    BY <1>0, <1>4 DEF Raise, WriteState, Faithful, Answer, TypeOK
  <2>2. QED
    BY <1>0, <1>2, <1>3, <2>1 DEF MemoryInv, Follows
<1>5. CASE Hold(r)
  <2>1. /\ store' = [seen[r] EXCEPT !.clean = 0] /\ seen[r] \in States
        /\ lastBad' = failing[r] /\ streak' = 0 /\ event'[r] = "held"
        /\ seen[r].condition = failing[r]
    BY <1>0, <1>5, StandingIsPresent DEF Hold, IsStanding, WriteState, Faithful, Answer, TypeOK
  <2>2. store'.condition = failing[r] /\ store'.clean = 0
    BY <2>1 DEF States
  <2>3. QED
    BY <1>0, <1>2, <1>3, <2>1, <2>2 DEF MemoryInv, Follows
<1>6. CASE Repeat(r)
  <2>1. /\ store' = [seen[r] EXCEPT !.sentAt = at[r], !.repeats = @ + 1, !.clean = 0]
        /\ seen[r] \in States /\ seen[r].condition = failing[r]
        /\ lastBad' = failing[r] /\ streak' = 0 /\ event'[r] = "repeat"
    BY <1>0, <1>6, StandingIsPresent DEF Repeat, IsStanding, WriteState, Faithful, Answer, TypeOK
  <2>2. store'.condition = failing[r] /\ store'.clean = 0
    BY <2>1 DEF States
  <2>3. QED
    BY <1>0, <1>2, <1>3, <2>1, <2>2 DEF MemoryInv, Follows
<1>7. CASE StayQuiet(r)
  <2>1. /\ store' = store /\ lastBad' = lastBad /\ event'[r] = "none"
        /\ streak' \in Nat /\ streak' >= streak
    BY <1>0, <1>7, BoundAssumption DEF StayQuiet, IsClean, Answer, TypeOK
  <2>2. QED
    BY <1>0, <1>2, <1>3, <2>1 DEF MemoryInv, Follows, TypeOK, States
<1>8. CASE CountClean(r)
  <2>1. /\ store' = [seen[r] EXCEPT !.clean = @ + 1] /\ seen[r] \in States /\ seen[r] # NoState
        /\ lastBad' = lastBad /\ event'[r] = "clean" /\ seen[r].clean + 1 < RecoveryRuns
    BY <1>0, <1>8 DEF CountClean, IsClean, WriteState, Faithful, Answer, TypeOK
  <2>2. /\ streak' = IF streak < RecoveryRuns THEN streak + 1 ELSE streak
        /\ streak =< RecoveryRuns /\ RecoveryRuns \in Nat
    BY <1>0, <1>8, BoundAssumption DEF CountClean, IsClean, Answer, TypeOK
  <2>3. store'.condition = lastBad /\ store'.clean = seen[r].clean + 1
        /\ seen[r].clean \in Nat /\ seen[r].clean =< streak
    BY <1>0, <2>1 DEF States, Follows
  <2>4. QED
    BY <1>0, <1>2, <1>3, <2>1, <2>2, <2>3 DEF MemoryInv, Follows
<1>9. CASE Recover(r)
  <2>1. /\ store' = NoState /\ seen[r] \in States /\ seen[r] # NoState
        /\ seen[r].clean + 1 >= RecoveryRuns
    BY <1>0, <1>9 DEF Recover, DeleteState, Faithful, TypeOK
  <2>2. /\ streak' = IF streak < RecoveryRuns THEN streak + 1 ELSE streak
        /\ streak =< RecoveryRuns /\ RecoveryRuns \in Nat
    BY <1>0, <1>9, BoundAssumption DEF Recover, IsClean, Answer, TypeOK
  <2>3. seen[r].clean \in Nat /\ seen[r].clean =< streak
    BY <1>0, <2>1 DEF States, Follows
  <2>4. streak' = RecoveryRuns
    BY <1>0, <2>1, <2>2, <2>3
  <2>5. QED
    BY <1>0, <1>2, <1>3, <2>1, <2>4 DEF MemoryInv, Follows
<1>10. QED
  BY <1>4, <1>5, <1>6, <1>7, <1>8, <1>9 DEF Decide

LEMMA MemoryStep ==
    ASSUME Faithful, MemoryInv, [Next]_vars
    PROVE  MemoryInv'
<1>0. TypeOK /\ TypeOK'
  BY TypeStep DEF MemoryInv
<1>1. CASE Tick \/ UNCHANGED vars
  BY <1>0, <1>1 DEF Tick, vars, runVars, ghosts, MemoryInv, Follows, RecoveryIsEarned
<1>2. ASSUME NEW r \in Runs, NEW f \in Conditions \cup {Clean}, Begin(r, f)
      PROVE  MemoryInv'
  <2>1. pc'[r] = "read"
    BY <1>0, <1>2 DEF Begin, TypeOK
  <2>2. QED
    BY <1>0, <1>2, <2>1 DEF Faithful, Begin, ghosts, MemoryInv, Follows, RecoveryIsEarned
<1>3. ASSUME NEW r \in Runs, ReadState(r)
      PROVE  MemoryInv'
  <2>1. seen'[r] \in {store, NoState}
    BY <1>0, <1>3 DEF ReadState, Live, TypeOK
  <2>2. Follows(seen'[r]) /\ lastBad' = lastBad /\ streak' = streak
    BY <1>3, <2>1 DEF ReadState, ghosts, MemoryInv, Follows
  <2>3. \A q \in Runs : Follows(seen[q])'
    BY <2>2 DEF Faithful, Follows
  <2>4. QED
    BY <1>0, <1>3, <2>3 DEF ReadState, ghosts, MemoryInv, Follows, RecoveryIsEarned
<1>4. ASSUME NEW r \in Runs, Decide(r)
      PROVE  MemoryInv'
  BY <1>4, DecideRemembers
<1>5. ASSUME NEW r \in Runs, Return(r) \/ Kill(r)
      PROVE  MemoryInv'
  <2>1. Leave(r) /\ pc'[r] = "idle" /\ event'[r] = "none"
    BY <1>0, <1>5 DEF Return, Kill, Leave, TypeOK
  <2>2. QED
    BY <1>0, <2>1 DEF Faithful, Leave, ghosts, MemoryInv, Follows, RecoveryIsEarned
<1>6. QED
  BY <1>1, <1>2, <1>3, <1>4, <1>5 DEF Next, RunStep

LEMMA MemoryInvariant == ASSUME Faithful PROVE Spec => []MemoryInv
<1>1. Init => MemoryInv
  BY TypeInit DEF Init, MemoryInv, Follows, RecoveryIsEarned
<1>2. MemoryInv /\ [Next]_vars => MemoryInv'
  BY MemoryStep
<1>3. QED
  BY <1>1, <1>2, PTL DEF Spec

\* A "recovered" line always has RecoveryRuns clean runs in a row behind it
\* (alerting.py:254-278), however often a read is refused or a run killed.
THEOREM RecoveryNeedsCleanRuns == ASSUME Faithful PROVE Spec => []RecoveryIsEarned
<1>1. MemoryInv => RecoveryIsEarned
  BY DEF MemoryInv
<1>2. QED
  BY <1>1, MemoryInvariant, PTL

\* A run is silenced only about the condition the run before it was answered
\* on (alerting.py:217): a change in what is wrong always speaks.
THEOREM ChangeAlwaysSpeaks == ASSUME Faithful PROVE Spec => ChangeSpeaks
<1>1. ASSUME MemoryInv, [Next]_vars, NEW r \in Runs,
             pc[r] = "decide", pc'[r] = "answered", failing[r] # Clean, ~speak'[r]
      PROVE  lastBad = failing[r]
  <2>0. TypeOK /\ Follows(seen[r])
    BY <1>1 DEF MemoryInv
  <2>1. Decide(r)
    <3>1. ASSUME NEW q \in Runs, RunStep(q)
          PROVE  Decide(r)
      BY <2>0, <1>1, <3>1 DEF Faithful, RunStep, Begin, ReadState, Return, Kill, Leave, TypeOK
    <3>2. QED
      BY <2>0, <1>1, <3>1 DEF Next, Tick, vars, runVars
  <2>2. Hold(r)
    BY <2>0, <2>1, <1>1 DEF Decide, Raise, Repeat, StayQuiet, CountClean, Recover, IsClean,
                        Answer, TypeOK
  <2>3. seen[r] # NoState /\ seen[r].condition = failing[r]
    BY <2>2, ConditionAssumption, <1>1 DEF Hold, IsStanding, Standing
  <2>4. QED
    BY <2>0, <2>3 DEF Follows
<1>2. MemoryInv /\ [Next]_vars =>
        [\A r \in Runs :
           pc[r] = "decide" /\ pc'[r] = "answered" /\ failing[r] # Clean /\ ~speak'[r]
              => lastBad = failing[r]]_vars
  BY <1>1
<1>3. QED
  BY <1>2, MemoryInvariant, PTL DEF Spec, ChangeSpeaks

-----------------------------------------------------------------------------
(* Under the same conditions the state also knows when the last message    *)
(* was decided on.                                                         *)

Knows(s) == s # NoState => decidedAt[s.condition] =< s.sentAt

PaceInv ==
    /\ MemoryInv
    /\ \A c \in Conditions : decidedAt[c] =< now
    /\ \A r \in Runs : pc[r] # "idle" =>
           at[r] =< now /\ \A c \in Conditions : decidedAt[c] =< at[r]
    /\ Knows(store)
    /\ \A r \in Runs : pc[r] = "decide" => Knows(seen[r])

\* A decision that leaves the decisions to speak as they are, and writes a state
\* that says the same of them, preserves the invariant.
LEMMA SilencePaces ==
    ASSUME Faithful, NEW r \in Runs, PaceInv, MemoryInv', pc[r] = "decide", pc'[r] = "answered",
           UNCHANGED <<now, at, decidedAt>>,
           store' # NoState => decidedAt[store'.condition] =< store'.sentAt
    PROVE  PaceInv'
BY DEF Faithful, PaceInv, Knows

LEMMA SpeakingPaces ==
    ASSUME Faithful, NEW r \in Runs, NEW e \in Events, PaceInv, MemoryInv',
           pc[r] = "decide", failing[r] \in Conditions, Answer(r, TRUE, e),
           store'.condition = failing[r], store'.sentAt = at[r]
    PROVE  PaceInv'
<1>1. /\ at[r] \in Int /\ now \in Int /\ decidedAt \in [Conditions -> Int]
      /\ pc \in [Runs -> {"idle", "read", "decide", "answered"}]
      /\ at[r] =< now /\ \A c \in Conditions : decidedAt[c] =< at[r]
  BY BoundAssumption DEF PaceInv, MemoryInv, TypeOK
<1>2. decidedAt' = [decidedAt EXCEPT ![failing[r]] = at[r]]
  <2>1. CASE at[r] > decidedAt[failing[r]]
    BY <2>1 DEF Answer
  <2>2. CASE ~(at[r] > decidedAt[failing[r]])
    <3>1. decidedAt[failing[r]] = at[r] /\ decidedAt' = decidedAt
      BY <1>1, <2>2 DEF Answer
    <3>2. QED
      BY <1>1, <3>1
  <2>3. QED
    BY <2>1, <2>2
<1>3. \A c \in Conditions : decidedAt'[c] =< at[r]
  BY <1>1, <1>2
<1>4. UNCHANGED <<now, at>> /\ pc'[r] = "answered"
  BY <1>1 DEF Answer
<1>5. \A c \in Conditions : decidedAt'[c] =< now'
  BY <1>1, <1>2, <1>4
<1>6. Knows(store)'
  BY <1>1, <1>2 DEF Knows
<1>7. QED
  BY <1>1, <1>3, <1>4, <1>5, <1>6 DEF Faithful, PaceInv

LEMMA DecidePaces ==
    ASSUME Faithful, NEW r \in Runs, PaceInv, Decide(r)
    PROVE  PaceInv'
<1>0. /\ TypeOK /\ MemoryInv' /\ pc[r] = "decide"
      /\ Knows(seen[r]) /\ Knows(store) /\ seen[r] \in States \cup {NoState}
  <2>1. pc[r] = "decide"
    BY DEF Decide, Raise, Hold, Repeat, StayQuiet, CountClean, Recover, IsStanding, IsClean
  <2>2. QED
    BY <2>1, DecideRemembers DEF PaceInv, MemoryInv, TypeOK
<1> USE DEF Events
<1>1. CASE Raise(r)
  <2>1. /\ store' = [condition |-> failing[r], sentAt |-> at[r], raisedAt |-> at[r],
                     repeats |-> 0, clean |-> 0]
        /\ Answer(r, TRUE, "raised") /\ failing[r] \in Conditions
    BY <1>0, <1>1 DEF Raise, WriteState, Faithful, TypeOK
  <2>2. QED
    BY <1>0, <2>1, SpeakingPaces
<1>2. CASE Repeat(r)
  <2>1. /\ seen[r] \in States /\ failing[r] \in Conditions /\ seen[r].condition = failing[r]
        /\ store' = [seen[r] EXCEPT !.sentAt = at[r], !.repeats = @ + 1, !.clean = 0]
        /\ Answer(r, TRUE, "repeat")
    BY <1>0, <1>2, StandingIsPresent DEF Repeat, WriteState, Faithful
  <2>2. store'.condition = failing[r] /\ store'.sentAt = at[r]
    BY <2>1 DEF States
  <2>3. QED
    BY <1>0, <2>1, <2>2, SpeakingPaces
<1>3. CASE Hold(r) \/ CountClean(r)
  <2>1. /\ seen[r] \in States /\ seen[r] # NoState
        /\ \/ store' = [seen[r] EXCEPT !.clean = 0]
           \/ store' = [seen[r] EXCEPT !.clean = @ + 1]
        /\ UNCHANGED <<now, at, decidedAt>> /\ pc'[r] = "answered"
    <3>1. CASE Hold(r)
      <4>1. seen[r] \in States /\ seen[r] # NoState
        BY <1>0, <3>1, StandingIsPresent, ConditionAssumption DEF Hold, IsStanding, Standing
      <4>2. QED
        BY <1>0, <3>1, <4>1 DEF Hold, WriteState, Faithful, Answer, TypeOK
    <3>2. CASE CountClean(r)
      BY <1>0, <3>2 DEF CountClean, WriteState, Faithful, Answer, TypeOK
    <3>3. QED
      BY <1>3, <3>1, <3>2
  <2>2. store'.condition = seen[r].condition /\ store'.sentAt = seen[r].sentAt
    BY <2>1 DEF States
  <2>3. QED
    BY <1>0, <2>1, <2>2, SilencePaces DEF Knows
<1>4. CASE StayQuiet(r)
  <2>1. UNCHANGED <<store, now, at, decidedAt>> /\ pc'[r] = "answered"
    BY <1>0, <1>4 DEF StayQuiet, Answer, TypeOK
  <2>2. QED
    BY <1>0, <2>1, SilencePaces DEF Knows
<1>5. CASE Recover(r)
  <2>1. store' = NoState /\ UNCHANGED <<now, at, decidedAt>> /\ pc'[r] = "answered"
    BY <1>0, <1>5 DEF Recover, DeleteState, Faithful, Answer, TypeOK
  <2>2. QED
    BY <1>0, <2>1, SilencePaces
<1>6. QED
  BY <1>1, <1>2, <1>3, <1>4, <1>5 DEF Decide

LEMMA PaceStep ==
    ASSUME Faithful, PaceInv, [Next]_vars
    PROVE  PaceInv'
<1>0. TypeOK /\ TypeOK' /\ MemoryInv' /\ now \in Int /\ decidedAt \in [Conditions -> Int]
  BY TypeStep, MemoryStep, BoundAssumption DEF PaceInv, MemoryInv, TypeOK
<1>1. CASE Tick
  <2>1. now' = now + 1 /\ UNCHANGED <<store, pc, at, seen, decidedAt>>
    BY <1>1 DEF Tick, runVars, ghosts
  <2>2. \A c \in Conditions : decidedAt[c] =< now /\ decidedAt[c] \in Int
    BY <1>0 DEF PaceInv
  <2>3. \A r \in Runs : at[r] \in Int
    BY <1>0, BoundAssumption DEF TypeOK
  <2>4. \A c \in Conditions : decidedAt'[c] =< now'
    BY <1>0, <2>1, <2>2
  <2>5. \A r \in Runs : pc'[r] # "idle" =>
            at'[r] =< now' /\ \A c \in Conditions : decidedAt'[c] =< at'[r]
    BY <1>0, <2>1, <2>3 DEF PaceInv
  <2>6. QED
    BY <1>0, <2>1, <2>4, <2>5 DEF PaceInv, Knows
<1>2. CASE UNCHANGED vars
  BY <1>0, <1>2 DEF vars, runVars, ghosts, PaceInv, Knows
<1>3. ASSUME NEW r \in Runs, NEW f \in Conditions \cup {Clean}, Begin(r, f)
      PROVE  PaceInv'
  <2>1. /\ pc'[r] = "read" /\ at'[r] = now
        /\ UNCHANGED <<now, store, seen, decidedAt>>
    BY <1>0, <1>3 DEF Begin, ghosts, TypeOK
  <2>2. QED
    BY <1>0, <2>1 DEF Faithful, PaceInv, Knows
<1>4. ASSUME NEW r \in Runs, ReadState(r)
      PROVE  PaceInv'
  <2>1. /\ seen'[r] \in {store, NoState} /\ pc[r] # "idle"
        /\ UNCHANGED <<now, store, at, decidedAt>>
    BY <1>0, <1>4 DEF ReadState, Live, ghosts, TypeOK
  <2>2. QED
    BY <1>0, <2>1 DEF Faithful, PaceInv, Knows
<1>5. ASSUME NEW r \in Runs, Decide(r)
      PROVE  PaceInv'
  BY <1>5, DecidePaces
<1>6. ASSUME NEW r \in Runs, Return(r) \/ Kill(r)
      PROVE  PaceInv'
  <2>1. pc'[r] = "idle" /\ UNCHANGED <<now, store, decidedAt>>
    BY <1>0, <1>6 DEF Return, Kill, Leave, ghosts, TypeOK
  <2>2. QED
    BY <1>0, <2>1 DEF Faithful, PaceInv, Knows
<1>7. QED
  BY <1>1, <1>2, <1>3, <1>4, <1>5, <1>6 DEF Next, RunStep

LEMMA PaceInvariant == ASSUME Faithful PROVE Spec => []PaceInv
<1>1. Init => PaceInv
  <2> SUFFICES ASSUME Init PROVE PaceInv
    OBVIOUS
  <2>1. MemoryInv
    BY TypeInit DEF Init, MemoryInv, Follows, RecoveryIsEarned
  <2>2. MaxGap \in Nat /\ now = 0 /\ \A c \in Conditions : decidedAt[c] = -MaxGap
    BY BackoffAssumption DEF Init, MaxGap
  <2>3. \A c \in Conditions : decidedAt[c] =< now
    BY <2>2
  <2>4. QED
    BY <2>1, <2>3 DEF Init, PaceInv, Knows
<1>2. PaceInv /\ [Next]_vars => PaceInv'
  BY PaceStep
<1>3. QED
  BY <1>1, <1>2, PTL DEF Spec

\* No step of the table is shorter than the first.
Rising == LastStep > 0 /\ \A i \in 1..LastStep : Backoff[i] >= Backoff[1]

\* Two messages about one condition are a backoff step apart, for any table that
\* rises, the code's (alerting.py:42-45) included: a flapping signal cannot make
\* the gate speak sooner.
THEOREM RepeatsBackOff == ASSUME Faithful, Rising PROVE Spec => RepeatsArePaced
<1>1. ASSUME PaceInv, [Next]_vars, NEW r \in Runs,
             pc[r] = "decide", pc'[r] = "answered", speak'[r], failing[r] = lastBad,
             seen[r] # NoState
      PROVE  at[r] - decidedAt[failing[r]] >= Backoff[1]
  <2>0. TypeOK /\ Follows(seen[r]) /\ Knows(seen[r]) /\ seen[r] \in States
    BY <1>1 DEF PaceInv, MemoryInv, TypeOK
  <2>1. Decide(r)
    <3>1. ASSUME NEW q \in Runs, RunStep(q)
          PROVE  Decide(r)
      BY <2>0, <1>1, <3>1 DEF Faithful, RunStep, Begin, ReadState, Return, Kill, Leave, TypeOK
    <3>2. QED
      BY <2>0, <1>1, <3>1 DEF Next, Tick, vars, runVars
  <2>2. Raise(r) \/ Repeat(r)
    BY <2>0, <2>1, <1>1 DEF Decide, Hold, StayQuiet, CountClean, Recover, Answer, TypeOK
  <2>3. Repeat(r)
    BY <2>0, <2>2, <1>1 DEF Raise, Standing, Follows
  <2>4. at[r] - seen[r].sentAt >= DueIn(seen[r])
    BY <2>3 DEF Repeat, Elapsed
  <2>5. DueIn(seen[r]) >= Backoff[1] /\ DueIn(seen[r]) \in Nat /\ Backoff[1] \in Nat
    <3>1. seen[r].repeats \in Nat
      BY <2>0 DEF States
    <3>2. QED
      BY <3>1, BackoffAssumption, <1>1 DEF DueIn, Rising
  <2>6. /\ failing[r] \in Conditions /\ seen[r].condition = failing[r]
        /\ decidedAt[failing[r]] \in Int /\ at[r] \in Int /\ seen[r].sentAt \in Int
    BY <2>0, <2>3, StandingIsPresent, BoundAssumption DEF Repeat, TypeOK, States
  <2>7. decidedAt[failing[r]] =< seen[r].sentAt
    BY <2>0, <2>6, <1>1 DEF Knows
  <2>8. QED
    BY <2>4, <2>5, <2>6, <2>7
<1>2. PaceInv /\ [Next]_vars =>
        [\A r \in Runs :
          ( /\ pc[r] = "decide"
            /\ pc'[r] = "answered"
            /\ speak'[r]
            /\ failing[r] = lastBad
            /\ streak < RecoveryRuns
            /\ seen[r] # NoState )
          => at[r] - decidedAt[failing[r]] >= Backoff[1]]_vars
  BY <1>1
<1>3. QED
  BY <1>2, PaceInvariant, PTL DEF Spec, RepeatsArePaced
=============================================================================

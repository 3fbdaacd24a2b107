------------------------------ MODULE AlertGate ------------------------------
(***************************************************************************)
(* The alert gate of src/healthbot/alerting.py: given the set of signals a *)
(* run found failing, whether anybody is told about it again.  The state   *)
(* of a standing alert lives in one Redis key (src/healthbot/cache.py),    *)
(* and a run reads it, decides, writes it back and adds a line to the      *)
(* alert history, as separate steps: another run, a tick of the clock, a   *)
(* failing Redis or a kill can fall between any two of them.               *)
(*                                                                         *)
(* A set of failing signals is one opaque condition: the joined sorted     *)
(* names decide nothing but equality.  Time is counted in units of the     *)
(* timer's interval.                                                       *)
(***************************************************************************)
EXTENDS Integers, FiniteSets

CONSTANTS
    Conditions,     \* the non-empty sets of failing signals
    Clean,          \* the empty one
    Runs,           \* processes executing a run; one when only the timer starts them
    NoState,        \* no alert state: the key is missing, expired or unreadable
    LastStep,       \* the last index of Backoff
    Backoff,        \* BACKOFF_MINUTES, a function on 0..LastStep
    RecoveryRuns,   \* consecutive clean runs that count as a recovery
    StateTTL,       \* how long Redis keeps the state after a write
    MaxTime,        \* bound on the clock
    Faults          \* what may go wrong, a subset of AllFaults

\* "read", "write": Redis refuses the call and Cache swallows the error;
\* "kill": the process dies between two steps;
\* "history": the history file cannot be appended to.
AllFaults == {"read", "write", "kill", "history"}

MaxGap == Backoff[LastStep]

ASSUME ConditionAssumption == Clean \notin Conditions
ASSUME BackoffAssumption ==
    /\ LastStep \in Nat
    /\ Backoff \in [0..LastStep -> Nat]
    /\ \A i \in 0..LastStep : Backoff[i] =< MaxGap
ASSUME BoundAssumption ==
    /\ RecoveryRuns \in Nat
    /\ StateTTL \in Nat
    /\ MaxTime \in Nat
    /\ Faults \subseteq AllFaults

VARIABLES
    now,            \* the clock
    store,          \* the alert state in Redis
    expires,        \* when Redis drops it
    pc,             \* where each run is
    failing,        \* what each run found failing
    at,             \* AlertGate.now: the clock when the run built its gate
    seen,           \* the state each run read
    speak,          \* the answer should_notify gives each run
    event,          \* the decision each run is about to add to the history
    decidedAt,      \* history variable: the last decision to speak, per condition
    lastBad,        \* history variable: the last condition a run was answered on
    streak          \* history variable: clean runs answered since, saturating

runVars == <<pc, failing, at, seen, speak, event>>
ghosts == <<decidedAt, lastBad, streak>>
vars == <<now, store, expires, runVars, ghosts>>

States ==
    [condition : Conditions, sentAt : Nat, raisedAt : Nat, repeats : Nat, clean : Nat]

\* What a decision is called in the history; a quiet run leaves no line there.
Events == {"none", "raised", "held", "repeat", "clean", "recovered"}

TypeOK ==
    /\ now \in 0..MaxTime
    /\ store \in States \cup {NoState}
    /\ expires \in Nat
    /\ pc \in [Runs -> {"idle", "read", "decide", "answered"}]
    /\ failing \in [Runs -> Conditions \cup {Clean}]
    /\ at \in [Runs -> 0..MaxTime]
    /\ seen \in [Runs -> States \cup {NoState}]
    /\ speak \in [Runs -> BOOLEAN]
    /\ event \in [Runs -> Events]
    /\ decidedAt \in [Conditions -> Int]
    /\ lastBad \in Conditions \cup {Clean}
    /\ streak \in 0..RecoveryRuns

-----------------------------------------------------------------------------
(* Reading and writing the state.                                          *)

\* Mutant of Live: what is read is used whatever it is.
LiveUnchecked == IF now < expires THEN store ELSE Clean

\* Cache.get: an expired key is a missing one.  What is there was written by
\* Cache.set, so json.loads, which nothing guards, reads it.
Live == IF now < expires THEN store ELSE NoState

\* Cache.set under its expiry.  A refused write changes nothing and says nothing.
WriteState(s) ==
    \/ store' = s /\ expires' = now + StateTTL
    \/ "write" \in Faults /\ UNCHANGED <<store, expires>>

\* Cache.delete, which is refused as quietly.
DeleteState ==
    \/ store' = NoState /\ UNCHANGED expires
    \/ "write" \in Faults /\ UNCHANGED <<store, expires>>

Standing(s) == IF s = NoState THEN Clean ELSE s.condition

\* Mutant of DueIn: the step of the message sent, not of the next one.
DueInLate(s) == Backoff[IF s.repeats < LastStep THEN s.repeats ELSE LastStep]

\* Minutes that must pass before the next repeat.
DueIn(s) == Backoff[IF s.repeats + 1 < LastStep THEN s.repeats + 1 ELSE LastStep]

Elapsed(r) == at[r] - seen[r].sentAt

-----------------------------------------------------------------------------
(* One run of the gate.                                                    *)

Init ==
    /\ now = 0
    /\ store = NoState
    /\ expires = 0
    /\ pc = [r \in Runs |-> "idle"]
    /\ failing = [r \in Runs |-> Clean]
    /\ at = [r \in Runs |-> 0]
    /\ seen = [r \in Runs |-> NoState]
    /\ speak = [r \in Runs |-> FALSE]
    /\ event = [r \in Runs |-> "none"]
    /\ decidedAt = [c \in Conditions |-> -MaxGap]
    /\ lastBad = Clean
    /\ streak = 0

Tick ==
    /\ now < MaxTime
    /\ now' = now + 1
    /\ UNCHANGED <<store, expires, runVars, ghosts>>

\* AlertGate(): the run fixes its own time, then asks about what it found.
Begin(r, f) ==
    /\ pc[r] = "idle"
    /\ pc' = [pc EXCEPT ![r] = "read"]
    /\ failing' = [failing EXCEPT ![r] = f]
    /\ at' = [at EXCEPT ![r] = now]
    /\ UNCHANGED <<now, store, expires, seen, speak, event, ghosts>>

ReadState(r) ==
    /\ pc[r] = "read"
    /\ \/ seen' = [seen EXCEPT ![r] = Live]
       \/ "read" \in Faults /\ seen' = [seen EXCEPT ![r] = NoState]
    /\ pc' = [pc EXCEPT ![r] = "decide"]
    /\ UNCHANGED <<now, store, expires, failing, at, speak, event, ghosts>>

\* The end of every branch: the answer is fixed and its history line is ready.
Answer(r, spoken, e) ==
    /\ pc' = [pc EXCEPT ![r] = "answered"]
    /\ speak' = [speak EXCEPT ![r] = spoken]
    /\ event' = [event EXCEPT ![r] = e]
    /\ decidedAt' = IF spoken /\ at[r] > decidedAt[failing[r]]
                    THEN [decidedAt EXCEPT ![failing[r]] = at[r]]
                    ELSE decidedAt
    /\ lastBad' = IF failing[r] = Clean THEN lastBad ELSE failing[r]
    /\ streak' = IF failing[r] # Clean THEN 0
                 ELSE IF streak < RecoveryRuns THEN streak + 1 ELSE streak
    /\ UNCHANGED <<now, failing, at, seen>>

\* Mutant of IsStanding: any remembered alert counts as the standing one.
IsStandingAny(r) ==
    /\ pc[r] = "decide"
    /\ failing[r] # Clean
    /\ seen[r] # NoState

IsStanding(r) ==
    /\ pc[r] = "decide"
    /\ failing[r] # Clean
    /\ Standing(seen[r]) = failing[r]

\* Mutant of Raise: a gate that remembers nothing keeps quiet.
RaiseIfRemembering(r) ==
    /\ pc[r] = "decide"
    /\ failing[r] # Clean
    /\ Standing(seen[r]) # failing[r]
    /\ WriteState([condition |-> failing[r], sentAt |-> at[r], raisedAt |-> at[r],
                   repeats |-> 0, clean |-> 0])
    /\ Answer(r, seen[r] # NoState, "raised")

\* A condition that is not the standing one always speaks.
Raise(r) ==
    /\ pc[r] = "decide"
    /\ failing[r] # Clean
    /\ Standing(seen[r]) # failing[r]
    /\ WriteState([condition |-> failing[r], sentAt |-> at[r], raisedAt |-> at[r],
                   repeats |-> 0, clean |-> 0])
    /\ Answer(r, TRUE, "raised")

\* Mutants of Hold: the recovery count survives a bad run; being held moves
\* the time of the last message.
HoldKeepsCount(r) ==
    /\ IsStanding(r)
    /\ Elapsed(r) < DueIn(seen[r])
    /\ WriteState(seen[r])
    /\ Answer(r, FALSE, "held")

HoldMovesSentAt(r) ==
    /\ IsStanding(r)
    /\ Elapsed(r) < DueIn(seen[r])
    /\ WriteState([seen[r] EXCEPT !.sentAt = at[r], !.clean = 0])
    /\ Answer(r, FALSE, "held")

\* The standing condition, before its next repeat is due.
Hold(r) ==
    /\ IsStanding(r)
    /\ Elapsed(r) < DueIn(seen[r])
    /\ WriteState([seen[r] EXCEPT !.clean = 0])
    /\ Answer(r, FALSE, "held")

\* Mutant of Repeat: the state is written and the message forgotten.
RepeatSilently(r) ==
    /\ IsStanding(r)
    /\ Elapsed(r) >= DueIn(seen[r])
    /\ WriteState([seen[r] EXCEPT !.sentAt = at[r], !.repeats = @ + 1, !.clean = 0])
    /\ Answer(r, FALSE, "repeat")

Repeat(r) ==
    /\ IsStanding(r)
    /\ Elapsed(r) >= DueIn(seen[r])
    /\ WriteState([seen[r] EXCEPT !.sentAt = at[r], !.repeats = @ + 1, !.clean = 0])
    /\ Answer(r, TRUE, "repeat")

IsClean(r) ==
    /\ pc[r] = "decide"
    /\ failing[r] = Clean

\* Nothing is failing and nothing was standing.
StayQuiet(r) ==
    /\ IsClean(r)
    /\ seen[r] = NoState
    /\ UNCHANGED <<store, expires>>
    /\ Answer(r, FALSE, "none")

CountClean(r) ==
    /\ IsClean(r)
    /\ seen[r] # NoState
    /\ seen[r].clean + 1 < RecoveryRuns
    /\ WriteState([seen[r] EXCEPT !.clean = @ + 1])
    /\ Answer(r, FALSE, "clean")

Recover(r) ==
    /\ IsClean(r)
    /\ seen[r] # NoState
    /\ seen[r].clean + 1 >= RecoveryRuns
    /\ DeleteState
    /\ Answer(r, FALSE, "recovered")

Decide(r) ==
    Raise(r) \/ Hold(r) \/ Repeat(r) \/ StayQuiet(r) \/ CountClean(r) \/ Recover(r)

\* The run is over for the gate, which keeps nothing of it in memory.
Leave(r) ==
    /\ pc' = [pc EXCEPT ![r] = "idle"]
    /\ failing' = [failing EXCEPT ![r] = Clean]
    /\ at' = [at EXCEPT ![r] = 0]
    /\ seen' = [seen EXCEPT ![r] = NoState]
    /\ speak' = [speak EXCEPT ![r] = FALSE]
    /\ event' = [event EXCEPT ![r] = "none"]
    /\ UNCHANGED <<now, store, expires, ghosts>>

\* AlertGate.record adds its line, or loses it to a history that cannot be
\* written, and the caller gets the answer.
Return(r) == pc[r] = "answered" /\ Leave(r)

Kill(r) == "kill" \in Faults /\ pc[r] # "idle" /\ Leave(r)

RunStep(r) ==
    \/ \E f \in Conditions \cup {Clean} : Begin(r, f)
    \/ ReadState(r)
    \/ Decide(r)
    \/ Return(r)
    \/ Kill(r)

Next == Tick \/ \E r \in Runs : RunStep(r)

Spec == Init /\ [][Next]_vars

-----------------------------------------------------------------------------
(* Properties.                                                             *)

Answered(r) == pc[r] = "answered"

\* A suppressor that cannot remember never suppresses (alerting.py:206-208):
\* whenever a run that found something failing is told to stay silent, a run
\* was told to speak about that same condition less than the longest backoff
\* step before it, whatever Redis refused, whoever was killed and however runs
\* overlapped.
SilenceIsCovered ==
    \A r \in Runs :
        Answered(r) /\ failing[r] # Clean /\ ~speak[r]
            => at[r] - decidedAt[failing[r]] < MaxGap

\* Why it holds: no copy of the state, stored or held by a run between its
\* read and its write, claims a later message than was decided on.
Covers(s) == s # NoState => decidedAt[s.condition] >= s.sentAt

EveryCopyIsCovered == Covers(store) /\ \A r \in Runs : Covers(seen[r])

\* A change in what is wrong always speaks (alerting.py:17-19): a run is told
\* to stay silent about a condition only when the last failing run before it
\* was answered on the same one.  For one run at a time and a Redis that does
\* not refuse writes.
ChangeSpeaks ==
    [][\A r \in Runs :
          pc[r] = "decide" /\ pc'[r] = "answered" /\ failing[r] # Clean /\ ~speak'[r]
              => lastBad = failing[r]]_vars

\* Two consecutive clean runs clear an alert, or they prove nothing
\* (alerting.py:21-23, 239-240): a line says "recovered" only when that many
\* runs in a row were answered with nothing failing.  Same conditions.
RecoveryIsEarned ==
    \A r \in Runs :
        event[r] = "recovered" => streak = RecoveryRuns

\* A repeat backs off, and a backoff that resets on the first good run never
\* engages (alerting.py:12-15, 21-23): a second message about the last
\* condition answered on, before a recovery and by a run that read its state,
\* comes no sooner than the first backoff step after the first.  For one run at
\* a time and a Redis that does not refuse writes.
RepeatsArePaced ==
    [][\A r \in Runs :
          ( /\ pc[r] = "decide"
            /\ pc'[r] = "answered"
            /\ speak'[r]
            /\ failing[r] = lastBad
            /\ streak < RecoveryRuns
            /\ seen[r] # NoState )
          => at[r] - decidedAt[failing[r]] >= Backoff[1]]_vars

\* The gate implements the promise: of its state, the promise sees the
\* decisions to speak and the answers runs are carrying.
AnswerOf ==
    [r \in Runs |->
        IF Answered(r) /\ failing[r] # Clean
        THEN [condition |-> failing[r], at |-> at[r], speak |-> speak[r]]
        ELSE NoState]

Promise ==
    INSTANCE PagingPromise WITH
        Times <- 0..MaxTime, NoAnswer <- NoState, lastSpoken <- decidedAt, answer <- AnswerOf

\* Every behaviour of the gate, under every fault and overlap, is one the
\* promise allows (alerting.py:206-208): the gate adds no silence of its own.
PromiseKept == Promise!Spec
=============================================================================

--------------------------- MODULE PagingPromise ---------------------------
(***************************************************************************)
(* What HealthBot's alert gate promises the person on call, without saying *)
(* how the gate remembers anything.  A run that finds a condition failing  *)
(* is answered either "speak" or "stay silent".  It may be told to speak   *)
(* at any time: a duplicate message is allowed.  It may be told to stay    *)
(* silent only when some run was told to speak about the same condition    *)
(* less than MaxGap earlier: "the failure has to be a duplicate message,   *)
(* not a silent outage" (src/healthbot/alerting.py:206-208).               *)
(*                                                                         *)
(* AlertGate implements this module; see PromiseKept there.                *)
(***************************************************************************)
EXTENDS Integers

CONSTANTS
    Conditions,     \* what can be failing: a joined set of signal names
    Runs,           \* the processes that may ask
    Times,          \* the instants at which a run may ask
    MaxGap,         \* the longest step of the backoff
    NoAnswer        \* a run that has not been answered

VARIABLES
    lastSpoken,     \* when a run was last told to speak about each condition
    answer          \* what each run has been told, NoAnswer outside a run

promiseVars == <<lastSpoken, answer>>

\* A condition nobody was ever told about lies further back than any backoff.
Never == -MaxGap

Answers == [condition : Conditions, at : Times, speak : BOOLEAN]

Init ==
    /\ lastSpoken = [c \in Conditions |-> Never]
    /\ answer = [r \in Runs |-> NoAnswer]

Speak(r, c, t) ==
    /\ lastSpoken' = [lastSpoken EXCEPT ![c] = IF t > @ THEN t ELSE @]
    /\ answer' = [answer EXCEPT ![r] = [condition |-> c, at |-> t, speak |-> TRUE]]

StaySilent(r, c, t) ==
    /\ t - lastSpoken[c] < MaxGap
    /\ answer' = [answer EXCEPT ![r] = [condition |-> c, at |-> t, speak |-> FALSE]]
    /\ UNCHANGED lastSpoken

\* The run ends, or is killed.
Leave(r) ==
    /\ answer[r] # NoAnswer
    /\ answer' = [answer EXCEPT ![r] = NoAnswer]
    /\ UNCHANGED lastSpoken

Next ==
    \E r \in Runs :
        \/ Leave(r)
        \/ \E c \in Conditions, t \in Times :
               \/ Speak(r, c, t)
               \/ StaySilent(r, c, t)

Spec == Init /\ [][Next]_promiseVars
=============================================================================

--------------------------- MODULE HealthRunProofs ---------------------------
(***************************************************************************)
(* Theorems about HealthRun, for any runs, conditions, channels, backoff   *)
(* table and faults.  What a run asks of its gate are steps of AlertGate,  *)
(* so what AlertGateProofs says of the gate holds in here too.             *)
(***************************************************************************)
EXTENDS HealthRun, AlertGateProofs, SequenceTheorems

Phases == {"off", "prepare", "measure", "record", "ask", "gate", "send", "unwind", "flush"}

MainTypes ==
    /\ phase \in [Runs -> Phases]
    /\ found \in [Runs -> Conditions \cup {Clean}]
    /\ DOMAIN verdicts = Runs
    /\ todo \in [Runs -> Seq(Channels)]
    /\ called \in [Runs -> SUBSET Channels]
    /\ DOMAIN outcome = Runs

-----------------------------------------------------------------------------
(* The channels a run is to call.                                          *)

Elements(s) == {s[i] : i \in 1..Len(s)}

LEMMA ConcatElements ==
    ASSUME NEW S, NEW s \in Seq(S), NEW t \in Seq(S)
    PROVE  s \o t \in Seq(S) /\ Elements(s \o t) = Elements(s) \cup Elements(t)
<1>1. /\ s \o t \in Seq(S) /\ Len(s \o t) = Len(s) + Len(t)
      /\ Len(s) \in Nat /\ Len(t) \in Nat
      /\ \A i \in 1..Len(s) + Len(t) :
             (s \o t)[i] = IF i =< Len(s) THEN s[i] ELSE t[i - Len(s)]
  BY ConcatProperties, LenProperties
<1> DEFINE m == Len(s)
           n == Len(t)
           st == s \o t
<1>2. Elements(st) = {st[i] : i \in 1..m + n}
  BY <1>1 DEF Elements
<1>3. ASSUME NEW x \in Elements(st)
      PROVE  x \in Elements(s) \cup Elements(t)
  <2>1. PICK i \in 1..m + n : x = st[i]
    BY <1>2, <1>3
  <2>2. CASE i =< m
    <3>1. i \in 1..m /\ x = s[i]
      BY <1>1, <2>1, <2>2
    <3>2. QED
      BY <3>1 DEF Elements
  <2>3. CASE ~(i =< m)
    <3>1. i - m \in 1..n /\ x = t[i - m]
      BY <1>1, <2>1, <2>3
    <3>2. QED
      BY <3>1 DEF Elements
  <2>4. QED
    BY <2>2, <2>3
<1>4. ASSUME NEW x \in Elements(s)
      PROVE  x \in Elements(st)
  <2>1. PICK i \in 1..m : x = s[i]
    BY <1>4 DEF Elements
  <2>2. i \in 1..m + n /\ st[i] = s[i]
    BY <1>1, <2>1
  <2>3. QED
    BY <1>2, <2>1, <2>2
<1>5. ASSUME NEW x \in Elements(t)
      PROVE  x \in Elements(st)
  <2>1. PICK i \in 1..n : x = t[i]
    BY <1>5 DEF Elements
  <2>2. i + m \in 1..m + n /\ ~(i + m =< m) /\ (i + m) - m = i
    BY <1>1, <2>1
  <2>3. st[i + m] = t[i]
    BY <1>1, <2>2
  <2>4. QED
    BY <1>2, <2>1, <2>2, <2>3
<1>6. QED
  BY <1>1, <1>3, <1>4, <1>5

LEMMA OneOrNone ==
    ASSUME NEW S, NEW x \in S, NEW P \in BOOLEAN, NEW s, s = IF P THEN <<x>> ELSE <<>>
    PROVE  s \in Seq(S) /\ Elements(s) = IF P THEN {x} ELSE {}
<1>1. CASE P
  <2>1. s = <<x>> /\ Len(s) = 1 /\ s[1] = x
    BY <1>1
  <2>2. Elements(s) = {s[1]}
    BY <2>1 DEF Elements
  <2>3. QED
    BY <1>1, <2>1, <2>2
<1>2. CASE ~P
  <2>1. s = <<>> /\ Len(s) = 0
    BY <1>2
  <2>2. Elements(s) = {}
    BY <2>1 DEF Elements
  <2>3. QED
    BY <1>2, <2>1, <2>2
<1>3. QED
  BY <1>1, <1>2

\* A run that is to speak is to call every channel there is for what it found.
LEMMA DueCallsAll ==
    ASSUME NEW r \in Runs
    PROVE  /\ Due(r) \in Seq(Channels)
           /\ Elements(Due(r)) = {ch \in ChannelsFor(found[r]) : speak[r]}
<1> DEFINE IfWanted(ch) == IF speak[r] /\ ch \in ChannelsFor(found[r]) THEN <<ch>> ELSE <<>>
           a == IfWanted("sms")
           b == IfWanted("slack")
           c == IfWanted("sns")
<1>1. Due(r) = (a \o b) \o c
  BY DEF Due
<1>2. \A ch \in Channels :
          /\ IfWanted(ch) \in Seq(Channels)
          /\ Elements(IfWanted(ch)) = IF speak[r] /\ ch \in ChannelsFor(found[r]) THEN {ch} ELSE {}
  <2> SUFFICES ASSUME NEW ch \in Channels
               PROVE  /\ IfWanted(ch) \in Seq(Channels)
                      /\ Elements(IfWanted(ch)) =
                             IF speak[r] /\ ch \in ChannelsFor(found[r]) THEN {ch} ELSE {}
    OBVIOUS
  <2>1. (speak[r] /\ ch \in ChannelsFor(found[r])) \in BOOLEAN
    OBVIOUS
  <2>2. QED
    BY <2>1, OneOrNone
<1>3. "sms" \in Channels /\ "slack" \in Channels /\ "sns" \in Channels
  BY DEF Channels
<1> HIDE DEF IfWanted
<1>4. a \in Seq(Channels) /\ b \in Seq(Channels) /\ c \in Seq(Channels)
  BY <1>2, <1>3
<1>5. /\ Due(r) \in Seq(Channels)
      /\ Elements(Due(r)) = Elements(a) \cup Elements(b) \cup Elements(c)
  <2> HIDE DEF a, b, c
  <2> DEFINE ab == a \o b
  <2>1. ab \in Seq(Channels) /\ Elements(ab) = Elements(a) \cup Elements(b)
    BY <1>4, ConcatElements
  <2>2. Due(r) = ab \o c
    BY <1>1
  <2> HIDE DEF ab
  <2>3. ab \o c \in Seq(Channels) /\ Elements(ab \o c) = Elements(ab) \cup Elements(c)
    BY <1>4, <2>1, ConcatElements
  <2>4. QED
    BY <2>1, <2>2, <2>3
<1>6. ChannelsFor(found[r]) \subseteq {"sms", "slack", "sns"}
  BY HealthRunAssumption DEF ChannelsFor, Channels
<1>7. \A ch \in {"sms", "slack", "sns"} :
          ch \in Elements(IfWanted(ch)) <=> speak[r] /\ ch \in ChannelsFor(found[r])
  BY <1>2, <1>3
<1>8. \A ch \in Channels : Elements(IfWanted(ch)) \subseteq {ch}
  BY <1>2
<1>9. ASSUME NEW ch
      PROVE  ch \in Elements(Due(r)) <=> ch \in ChannelsFor(found[r]) /\ speak[r]
  <2>1. ch \in Elements(Due(r)) => ch \in {"sms", "slack", "sns"} /\ ch \in Elements(IfWanted(ch))
    BY <1>3, <1>5, <1>8
  <2>2. ch \in {"sms", "slack", "sns"} /\ ch \in Elements(IfWanted(ch)) => ch \in Elements(Due(r))
    BY <1>5
  <2>3. QED
    BY <1>6, <1>7, <2>1, <2>2
<1>10. QED
  BY <1>5, <1>9

LEMMA HeadAndTail ==
    ASSUME NEW S, NEW s \in Seq(S), s # <<>>
    PROVE  /\ Head(s) \in S /\ Tail(s) \in Seq(S)
           /\ Elements(s) = {Head(s)} \cup Elements(Tail(s))
<1>1. /\ Head(s) \in S /\ Tail(s) \in Seq(S)
      /\ Len(s) \in Nat \ {0} /\ Len(Tail(s)) = Len(s) - 1
      /\ Head(s) = s[1]
      /\ \A i \in 1..Len(Tail(s)) : Tail(s)[i] = s[i + 1]
  BY HeadTailProperties, EmptySeq
<1> DEFINE n == Len(s)
           t == Tail(s)
<1>2. Elements(t) = {t[i] : i \in 1..n - 1}
  BY <1>1 DEF Elements
<1>3. \A i \in 1..n - 1 : t[i] = s[i + 1] /\ i + 1 \in 1..n
  BY <1>1
<1>4. \A i \in 1..n : i = 1 \/ (i - 1 \in 1..n - 1 /\ (i - 1) + 1 = i)
  BY <1>1
<1>5. 1 \in 1..n
  BY <1>1
<1>6. Elements(s) \subseteq {Head(s)} \cup Elements(t)
  <2> SUFFICES ASSUME NEW i \in 1..n PROVE s[i] \in {Head(s)} \cup Elements(t)
    BY DEF Elements
  <2>1. CASE i = 1
    BY <1>1, <2>1
  <2>2. CASE i # 1
    <3>1. s[i] = t[i - 1] /\ i - 1 \in 1..n - 1
      BY <1>3, <1>4, <2>2
    <3>2. QED
      BY <1>2, <3>1
  <2>3. QED
    BY <2>1, <2>2
<1>7. {Head(s)} \cup Elements(t) \subseteq Elements(s)
  BY <1>1, <1>2, <1>3, <1>5 DEF Elements
<1>8. QED
  BY <1>1, <1>6, <1>7

LEMMA NoElements ==
    ASSUME NEW S, NEW s \in Seq(S)
    PROVE  s = <<>> <=> Elements(s) = {}
<1>1. CASE s = <<>>
  <2>1. Len(s) = 0
    BY <1>1
  <2>2. Elements(s) = {}
    BY <2>1 DEF Elements
  <2>3. QED
    BY <1>1, <2>2
<1>2. CASE s # <<>>
  <2>1. Head(s) \in Elements(s)
    BY <1>2, HeadAndTail
  <2>2. QED
    BY <1>2, <2>1
<1>3. QED
  BY <1>1, <1>2
-----------------------------------------------------------------------------
(* The gate inside the run.                                                *)

LEMMA MainTypesStart == HealthInit => MainTypes
<1> SUFFICES ASSUME HealthInit PROVE MainTypes
  OBVIOUS
<1>1. <<>> \in Seq(Channels)
  BY EmptySeq
<1>2. QED
  BY <1>1 DEF HealthInit, MainTypes, Phases

\* A step of one run.
StepOf(r) == Start(r) \/ Advance(r) \/ KillRun(r)

LEMMA MainTypesStep ==
    ASSUME MainTypes, NEW r \in Runs, StepOf(r)
    PROVE  MainTypes'
<1>1. phase' \in [Runs -> Phases]
  <2>1. phase' = phase \/ \E p \in Phases : phase' = [phase EXCEPT ![r] = p]
    BY DEF StepOf, Advance, Start, KillRun, Prepare, Measure, RecordVerdicts, AskGate, GateStep,
           GateAnswers, CallChannel, Complete, Unwind, Flush, Goto, Gone, Phases, mainVars
  <2>2. QED
    BY <2>1 DEF MainTypes
<1>2. found' \in [Runs -> Conditions \cup {Clean}]
  <2>1. found' = found \/ \E f \in Conditions \cup {Clean} : found' = [found EXCEPT ![r] = f]
    BY DEF StepOf, Advance, Start, KillRun, Prepare, Measure, RecordVerdicts, AskGate, GateStep,
           GateAnswers, CallChannel, Complete, Unwind, Flush, Goto, Gone, mainVars
  <2>2. QED
    BY <2>1 DEF MainTypes
<1>3. DOMAIN verdicts' = Runs /\ DOMAIN outcome' = Runs
  BY DEF StepOf, Advance, Start, KillRun, Prepare, Measure, RecordVerdicts, AskGate, GateStep,
         GateAnswers, CallChannel, Complete, Unwind, Flush, Goto, Gone, mainVars, MainTypes
<1>4. todo' \in [Runs -> Seq(Channels)]
  <2>1. \/ todo' = todo
        \/ todo' = [todo EXCEPT ![r] = <<>>]
        \/ todo' = [todo EXCEPT ![r] = Due(r)]
        \/ todo[r] # <<>> /\ todo' = [todo EXCEPT ![r] = Tail(todo[r])]
    BY DEF StepOf, Advance, Start, KillRun, Prepare, Measure, RecordVerdicts, AskGate, GateStep,
           GateAnswers, CallChannel, Complete, Unwind, Flush, Gone, mainVars
  <2>2. todo[r] \in Seq(Channels) /\ Due(r) \in Seq(Channels) /\ <<>> \in Seq(Channels)
    BY DueCallsAll, EmptySeq DEF MainTypes
  <2>3. todo[r] # <<>> => Tail(todo[r]) \in Seq(Channels)
    BY <2>2, HeadTailProperties
  <2>4. QED
    BY <2>1, <2>2, <2>3 DEF MainTypes
<1>5. called' \in [Runs -> SUBSET Channels]
  <2>1. \/ called' = called
        \/ called' = [called EXCEPT ![r] = {}]
        \/ todo[r] # <<>> /\ called' = [called EXCEPT ![r] = called[r] \cup {Head(todo[r])}]
    BY DEF StepOf, Advance, Start, KillRun, Prepare, Measure, RecordVerdicts, AskGate, GateStep,
           GateAnswers, CallChannel, Complete, Unwind, Flush, Gone, mainVars
  <2>2. todo[r] \in Seq(Channels) /\ called[r] \subseteq Channels
    BY DEF MainTypes
  <2>3. todo[r] # <<>> => called[r] \cup {Head(todo[r])} \in SUBSET Channels
    BY <2>2, HeadTailProperties
  <2>4. QED
    BY <2>1, <2>3 DEF MainTypes
<1>6. QED
  BY <1>1, <1>2, <1>3, <1>4, <1>5 DEF MainTypes

LEMMA StepIsOfTheGate ==
    ASSUME MainTypes, NEW r \in Runs, StepOf(r)
    PROVE  RunStep(r) \/ UNCHANGED vars
<1>1. CASE AskGate(r)
  BY <1>1 DEF AskGate, RunStep, MainTypes
<1>2. CASE KillRun(r)
  BY <1>2 DEF KillRun, RunStep, Kill
<1>3. CASE GateStep(r) \/ GateAnswers(r)
  BY <1>3 DEF GateStep, GateAnswers, RunStep
<1>4. CASE \/ Start(r) \/ Prepare(r) \/ Measure(r) \/ RecordVerdicts(r)
           \/ CallChannel(r) \/ Complete(r) \/ Unwind(r) \/ Flush(r)
  BY <1>4 DEF Start, Prepare, Measure, RecordVerdicts, CallChannel, Complete, Unwind, Flush
<1>5. QED
  BY <1>1, <1>2, <1>3, <1>4 DEF StepOf, Advance

LEMMA HealthStepTypes ==
    ASSUME MainTypes, [HealthNext]_hvars
    PROVE  MainTypes' /\ [Next]_vars
<1>1. CASE Tick /\ UNCHANGED <<mainVars, heard>>
  BY <1>1 DEF MainTypes, mainVars, Next
<1>2. CASE UNCHANGED hvars
  BY <1>2 DEF MainTypes, mainVars, hvars
<1>3. ASSUME NEW r \in Runs, StepOf(r)
      PROVE  MainTypes' /\ [Next]_vars
  BY <1>3, MainTypesStep, StepIsOfTheGate DEF Next
<1>4. QED
  BY <1>1, <1>2, <1>3 DEF HealthNext, StepOf

\* Whatever happens around it, and wherever the run is cut off, what a run of
\* HealthBot does to the alert state is what AlertGate says (healthbot.py:157
\* over alerting.py:172-240): every theorem about the gate holds of the run.
THEOREM RunsImplementTheGate == HealthSpec => Spec
<1>1. HealthInit => Init /\ MainTypes
  BY MainTypesStart DEF HealthInit
<1>2. MainTypes /\ [HealthNext]_hvars => MainTypes' /\ [Next]_vars
  BY HealthStepTypes
<1>3. QED
  BY <1>1, <1>2, PTL DEF HealthSpec, Spec

\* So the promise to the person on call (alerting.py:206-208) is kept by whole
\* runs, and not by the gate alone: no run that dies, that meets a condition a
\* second time or that overlaps another is told to be silent where it may not be.
THEOREM RunsKeepThePromise == HealthSpec => PromiseKept
BY RunsImplementTheGate, GateImplementsPromise, PTL
-----------------------------------------------------------------------------
(* What a run exports.                                                     *)

Measured == {"site", "good"}

\* What a run has recorded when it is in phase p, has called the channels cs
\* and has outcome o.
Fits(p, v, cs, o) ==
    /\ p \in {"off", "prepare", "measure", "record"} => v = {} /\ cs = {}
    /\ p \in {"ask", "gate"} => v = Measured /\ cs = {}
    /\ p = "send" => v = Measured
    /\ p = "unwind" => v = IF cs = {} THEN {} ELSE Measured
    /\ p = "flush" =>
           v = IF o = "success" THEN Measured
               ELSE {"bad"} \cup (IF cs = {} THEN {} ELSE Measured)

VerdictsInv ==
    /\ MainTypes
    /\ \A r \in Runs : Fits(phase[r], verdicts[r], called[r], outcome[r])

\* A step of one run leaves the others alone.
LEMMA OthersUntouched ==
    ASSUME MainTypes, NEW r \in Runs, StepOf(r), NEW q \in Runs, q # r
    PROVE  /\ phase'[q] = phase[q]
           /\ found'[q] = found[q]
           /\ verdicts'[q] = verdicts[q]
           /\ todo'[q] = todo[q]
           /\ called'[q] = called[q]
           /\ outcome'[q] = outcome[q]
<1>1. CASE Start(r) \/ Prepare(r) \/ Measure(r) \/ RecordVerdicts(r)
  BY <1>1 DEF Start, Prepare, Measure, RecordVerdicts, Goto, MainTypes
<1>2. CASE AskGate(r) \/ GateStep(r) \/ GateAnswers(r)
  BY <1>2 DEF AskGate, GateStep, GateAnswers, Goto, mainVars, MainTypes
<1>3. CASE CallChannel(r)
  BY <1>3 DEF CallChannel, MainTypes
<1>4. CASE Complete(r) \/ Unwind(r) \/ Flush(r) \/ KillRun(r)
  BY <1>4 DEF Complete, Unwind, Flush, KillRun, Gone, Goto, MainTypes
<1>5. QED
  BY <1>1, <1>2, <1>3, <1>4 DEF StepOf, Advance

LEMMA StepFits ==
    ASSUME VerdictsInv, NEW r \in Runs, StepOf(r)
    PROVE  Fits(phase'[r], verdicts'[r], called'[r], outcome'[r])
<1>0. MainTypes /\ Fits(phase[r], verdicts[r], called[r], outcome[r])
  BY DEF VerdictsInv
<1>1. CASE Start(r) \/ Prepare(r) \/ Measure(r)
  BY <1>0, <1>1 DEF Start, Prepare, Measure, Goto, Fits, MainTypes
<1>2. CASE RecordVerdicts(r)
  BY <1>0, <1>2 DEF RecordVerdicts, Goto, Fits, Measured, MainTypes
<1>3. CASE AskGate(r) \/ GateStep(r) \/ GateAnswers(r)
  BY <1>0, <1>3 DEF AskGate, GateStep, GateAnswers, Goto, mainVars, Fits, MainTypes
<1>4. CASE CallChannel(r)
  <2>1. /\ phase[r] = "send" /\ phase'[r] \in {"send", "unwind"}
        /\ called'[r] # {}
        /\ verdicts'[r] = verdicts[r]
    BY <1>0, <1>4 DEF CallChannel, MainTypes
  <2>2. QED
    BY <1>0, <2>1 DEF Fits
<1>5. CASE Complete(r)
  BY <1>0, <1>5 DEF Complete, Goto, Fits, MainTypes
<1>6. CASE Unwind(r)
  <2>1. /\ phase[r] = "unwind" /\ phase'[r] = "flush" /\ outcome'[r] = "error"
        /\ called'[r] = called[r]
        /\ verdicts'[r] = verdicts[r] \cup {"bad"}
    BY <1>0, <1>6 DEF Unwind, Goto, MainTypes
  <2>2. verdicts[r] = IF called[r] = {} THEN {} ELSE Measured
    BY <1>0, <2>1 DEF Fits
  <2>3. verdicts'[r] = {"bad"} \cup (IF called[r] = {} THEN {} ELSE Measured)
    BY <2>1, <2>2
  <2>4. QED
    BY <2>1, <2>3 DEF Fits
<1>7. CASE Flush(r) \/ KillRun(r)
  <2>1. phase'[r] = "off" /\ verdicts'[r] = {} /\ called'[r] = {}
    BY <1>0, <1>7 DEF Flush, KillRun, Gone, MainTypes
  <2>2. QED
    BY <2>1 DEF Fits
<1>8. QED
  BY <1>1, <1>2, <1>3, <1>4, <1>5, <1>6, <1>7 DEF StepOf, Advance

LEMMA VerdictsStep ==
    ASSUME VerdictsInv, [HealthNext]_hvars
    PROVE  VerdictsInv'
<1>0. MainTypes /\ MainTypes'
  BY HealthStepTypes DEF VerdictsInv
<1>1. CASE UNCHANGED mainVars
  BY <1>0, <1>1 DEF VerdictsInv, mainVars
<1>2. ASSUME NEW r \in Runs, StepOf(r)
      PROVE  VerdictsInv'
  <2> SUFFICES ASSUME NEW q \in Runs
               PROVE  Fits(phase'[q], verdicts'[q], called'[q], outcome'[q])
    BY <1>0 DEF VerdictsInv
  <2>1. CASE q = r
    BY <1>2, <2>1, StepFits
  <2>2. CASE q # r
    <3>1. Fits(phase[q], verdicts[q], called[q], outcome[q])
      BY DEF VerdictsInv
    <3>2. /\ phase'[q] = phase[q] /\ verdicts'[q] = verdicts[q]
          /\ called'[q] = called[q] /\ outcome'[q] = outcome[q]
      BY <1>0, <1>2, <2>2, OthersUntouched
    <3>3. QED
      BY <3>1, <3>2
  <2>3. QED
    BY <2>1, <2>2
<1>3. QED
  BY <1>1, <1>2 DEF HealthNext, StepOf, hvars, mainVars

\* Whatever raises, refuses or is killed, what a run exports matches how it
\* ended: good for the monitor when it ended well, bad when it did not, and
\* about the site only what it measured (healthbot.py:151, 176-188).
THEOREM ExportsMatchOutcomes == HealthSpec => []VerdictsMatchOutcome
<1>1. HealthInit => VerdictsInv
  BY MainTypesStart DEF HealthInit, VerdictsInv, Fits
<1>2. VerdictsInv /\ [HealthNext]_hvars => VerdictsInv'
  BY VerdictsStep
<1>3. VerdictsInv => VerdictsMatchOutcome
  BY DEF VerdictsInv, VerdictsMatchOutcome, Fits, Measured
<1>4. QED
  BY <1>1, <1>2, <1>3, PTL DEF HealthSpec

-----------------------------------------------------------------------------
(* Every channel has its turn.                                             *)

\* A run that found f has called cs and has left to call: together that is
\* every channel there is for what it found, or none.
Turns(p, f, cs, left, o) ==
    /\ p = "send" => cs \cup Elements(left) \in {{}, ChannelsFor(f)}
    /\ p # "send" => left = <<>>
    /\ p = "flush" /\ o = "success" => cs \in {{}, ChannelsFor(f)}

TurnsInv ==
    /\ VerdictsInv
    /\ \A r \in Runs : Turns(phase[r], found[r], called[r], todo[r], outcome[r])

LEMMA StepTurns ==
    ASSUME TurnsInv, NEW r \in Runs, StepOf(r)
    PROVE  Turns(phase'[r], found'[r], called'[r], todo'[r], outcome'[r])
<1>0. /\ MainTypes
      /\ Fits(phase[r], verdicts[r], called[r], outcome[r])
      /\ Turns(phase[r], found[r], called[r], todo[r], outcome[r])
  BY DEF TurnsInv, VerdictsInv
<1>1. CASE Start(r) \/ Prepare(r) \/ Measure(r) \/ RecordVerdicts(r) \/ AskGate(r)
  <2>1. /\ phase[r] # "send" /\ todo'[r] = todo[r]
        /\ phase'[r] \notin {"send", "flush"}
    BY <1>0, <1>1 DEF Start, Prepare, Measure, RecordVerdicts, AskGate, Goto, MainTypes
  <2>2. QED
    BY <1>0, <2>1 DEF Turns
<1>2. CASE GateStep(r)
  BY <1>0, <1>2 DEF GateStep, mainVars
<1>3. CASE GateAnswers(r)
  <2>1. /\ phase[r] = "gate" /\ phase'[r] = "send"
        /\ todo'[r] = Due(r) /\ called'[r] = called[r] /\ found'[r] = found[r]
    BY <1>0, <1>3 DEF GateAnswers, Goto, MainTypes
  <2>2. called'[r] = {}
    BY <1>0, <2>1 DEF Fits
  <2>3. Elements(Due(r)) \in {{}, ChannelsFor(found[r])}
    BY DueCallsAll
  <2>4. QED
    BY <2>1, <2>2, <2>3 DEF Turns
<1>4. CASE CallChannel(r)
  <2>1. /\ phase[r] = "send" /\ todo[r] # <<>> /\ found'[r] = found[r]
        /\ called'[r] = called[r] \cup {Head(todo[r])}
        /\ \/ phase'[r] = "send" /\ todo'[r] = Tail(todo[r])
           \/ phase'[r] = "unwind" /\ todo'[r] = <<>>
    BY <1>0, <1>4 DEF CallChannel, MainTypes
  <2>2. todo[r] \in Seq(Channels)
    BY <1>0 DEF MainTypes
  <2>3. called[r] \cup Elements(todo[r]) = called'[r] \cup Elements(Tail(todo[r]))
    BY <2>1, <2>2, HeadAndTail
  <2>4. QED
    BY <1>0, <2>1, <2>3 DEF Turns
<1>5. CASE Complete(r)
  <2>1. /\ phase[r] = "send" /\ todo[r] = <<>> /\ phase'[r] = "flush"
        /\ todo'[r] = todo[r] /\ called'[r] = called[r] /\ found'[r] = found[r]
    BY <1>0, <1>5 DEF Complete, Goto, MainTypes
  <2>2. Elements(todo[r]) = {}
    BY <1>0, <2>1, NoElements DEF MainTypes
  <2>3. called[r] \in {{}, ChannelsFor(found[r])}
    BY <1>0, <2>1, <2>2 DEF Turns
  <2>4. QED
    BY <2>1, <2>3 DEF Turns
<1>6. CASE Unwind(r)
  <2>1. /\ phase[r] = "unwind" /\ phase'[r] = "flush" /\ outcome'[r] = "error"
        /\ todo'[r] = todo[r]
    BY <1>0, <1>6 DEF Unwind, Goto, MainTypes
  <2>2. QED
    BY <1>0, <2>1 DEF Turns
<1>7. CASE Flush(r) \/ KillRun(r)
  <2>1. phase'[r] = "off" /\ todo'[r] = <<>>
    BY <1>0, <1>7 DEF Flush, KillRun, Gone, MainTypes
  <2>2. QED
    BY <2>1 DEF Turns
<1>8. QED
  BY <1>1, <1>2, <1>3, <1>4, <1>5, <1>6, <1>7 DEF StepOf, Advance

LEMMA TurnsStep ==
    ASSUME TurnsInv, [HealthNext]_hvars
    PROVE  TurnsInv'
<1>0. MainTypes /\ VerdictsInv'
  BY VerdictsStep DEF TurnsInv, VerdictsInv
<1>1. CASE UNCHANGED mainVars
  BY <1>0, <1>1 DEF TurnsInv, mainVars
<1>2. ASSUME NEW r \in Runs, StepOf(r)
      PROVE  TurnsInv'
  <2> SUFFICES ASSUME NEW q \in Runs
               PROVE  Turns(phase'[q], found'[q], called'[q], todo'[q], outcome'[q])
    BY <1>0 DEF TurnsInv
  <2>1. CASE q = r
    BY <1>2, <2>1, StepTurns
  <2>2. CASE q # r
    <3>1. Turns(phase[q], found[q], called[q], todo[q], outcome[q])
      BY DEF TurnsInv
    <3>2. /\ phase'[q] = phase[q] /\ found'[q] = found[q] /\ called'[q] = called[q]
          /\ todo'[q] = todo[q] /\ outcome'[q] = outcome[q]
      BY <1>0, <1>2, <2>2, OthersUntouched
    <3>3. QED
      BY <3>1, <3>2
  <2>3. QED
    BY <2>1, <2>2
<1>3. QED
  BY <1>1, <1>2 DEF HealthNext, StepOf, hvars, mainVars

LEMMA TurnsInvariant == HealthSpec => []TurnsInv
<1>1. HealthInit => TurnsInv
  BY MainTypesStart DEF HealthInit, TurnsInv, VerdictsInv, Fits, Turns
<1>2. TurnsInv /\ [HealthNext]_hvars => TurnsInv'
  BY TurnsStep
<1>3. QED
  BY <1>1, <1>2, PTL DEF HealthSpec

\* A run that ended without an exception, and spoke at all, called every
\* channel it had credentials and cause for, whatever Slack answered
\* (slack.py:198-200).
THEOREM NoTurnIsLost == HealthSpec => []ChannelsHaveTheirTurn
<1>1. TurnsInv => ChannelsHaveTheirTurn
  BY DEF TurnsInv, Turns, ChannelsHaveTheirTurn, ChannelsFor
<1>2. QED
  BY <1>1, TurnsInvariant, PTL
-----------------------------------------------------------------------------
(* What the person on call hears.                                          *)

\* Where the run is in the gate, given that it is in phase p, found f, has
\* left to call, gc is where the gate has it, gf what the gate was asked about
\* and s whether it is to speak.
GateFits(p, f, left, gc, gf, s) ==
    /\ gc # "idle" <=> p = "gate"
    /\ gc # "idle" => gf = f
    /\ s => gc = "answered" /\ f \in Conditions
    /\ left # <<>> => f \in Conditions

\* A message about condition c is on its way: a run none of whose channels
\* took it yet is told to send it.
OnItsWay(c) == \E q \in Runs : q \notin told /\ Tells(q) /\ found[q] = c

HeardInv ==
    /\ CoverInv
    /\ TurnsInv
    /\ heardAt \in [Conditions -> Int]
    /\ \A c \in Conditions : decidedAt[c] =< now
    /\ \A r \in Runs :
          /\ at[r] =< now
          /\ GateFits(phase[r], found[r], todo[r], pc[r], failing[r], speak[r])
          /\ r \in told => phase[r] \in {"send", "unwind", "flush"}
    /\ \A c \in Conditions : heardAt[c] >= decidedAt[c] \/ OnItsWay(c) \/ c \in cut

LEMMA DecideAnswers ==
    ASSUME TypeOK, NEW r \in Runs, Decide(r)
    PROVE  /\ pc[r] = "decide"
           /\ \E spoken \in BOOLEAN : \E e \in Events :
                 Answer(r, spoken, e) /\ (spoken => failing[r] \in Conditions)
<1>1. CASE Raise(r)
  BY <1>1 DEF Raise, Events, TypeOK
<1>2. CASE Hold(r)
  BY <1>2 DEF Hold, IsStanding, Events
<1>3. CASE Repeat(r)
  BY <1>3, StandingIsPresent DEF Repeat, IsStanding, Events
<1>4. CASE StayQuiet(r) \/ CountClean(r) \/ Recover(r)
  BY <1>4 DEF StayQuiet, CountClean, Recover, IsClean, Events
<1>5. QED
  BY <1>1, <1>2, <1>3, <1>4 DEF Decide

\* What a run's step does to the gate and to what was heard, for the others.
LEMMA OthersInTheGate ==
    ASSUME TypeOK, MainTypes, NEW r \in Runs, StepOf(r), NEW q \in Runs, q # r
    PROVE  /\ pc'[q] = pc[q] /\ failing'[q] = failing[q]
           /\ at'[q] = at[q] /\ speak'[q] = speak[q]
           /\ q \in told' <=> q \in told
<1>1. UNCHANGED vars \/ RunStep(r)
  BY StepIsOfTheGate
<1>2. /\ pc'[q] = pc[q] /\ failing'[q] = failing[q]
      /\ at'[q] = at[q] /\ speak'[q] = speak[q]
  <2>1. CASE Decide(r)
    BY <2>1, DecideAnswers DEF Answer, TypeOK
  <2>2. CASE RunStep(r) /\ ~Decide(r)
    BY <2>2 DEF RunStep, Begin, ReadState, Return, Kill, Leave, TypeOK
  <2>3. CASE UNCHANGED vars
    BY <2>3 DEF vars, runVars
  <2>4. QED
    BY <1>1, <2>1, <2>2, <2>3
<1>3. told' = told \/ told' = told \cup {r} \/ told' = told \ {r}
  BY DEF StepOf, Advance, Start, Prepare, Measure, RecordVerdicts, AskGate, GateStep, GateAnswers,
         CallChannel, Take, Miss, Complete, Unwind, Flush, KillRun, Gone, heard
<1>4. QED
  BY <1>2, <1>3

\* A message of another run stays on its way.
LEMMA StillOnItsWay ==
    ASSUME TypeOK, MainTypes, NEW r \in Runs, StepOf(r), NEW c \in Conditions,
           NEW q \in Runs, q # r, q \notin told, Tells(q), found[q] = c
    PROVE  OnItsWay(c)'
<1>1. q \notin told' /\ pc'[q] = pc[q] /\ speak'[q] = speak[q]
  BY OthersInTheGate
<1>2. todo'[q] = todo[q] /\ found'[q] = found[q]
  BY OthersUntouched
<1>3. Tells(q)'
  BY <1>1, <1>2 DEF Tells, Answered
<1>4. QED
  BY <1>1, <1>2, <1>3 DEF OnItsWay

\* The times the gate goes by are never ahead of the clock.
LEMMA TimesStep ==
    ASSUME HeardInv, NEW r \in Runs, StepOf(r)
    PROVE  now' = now /\ at'[r] =< now /\ \A c \in Conditions : decidedAt'[c] =< now
<1>0. TypeOK /\ MainTypes /\ at[r] =< now /\ \A c \in Conditions : decidedAt[c] =< now
  BY DEF HeardInv, CoverInv, TurnsInv, VerdictsInv
<1>1. UNCHANGED vars \/ RunStep(r)
  BY <1>0, StepIsOfTheGate
<1>2. CASE Decide(r)
  BY <1>0, <1>2, DecideAnswers DEF Answer, TypeOK
<1>3. CASE \E f \in Conditions \cup {Clean} : Begin(r, f)
  BY <1>0, <1>3 DEF Begin, ghosts, TypeOK
<1>4. CASE ReadState(r)
  BY <1>0, <1>4 DEF ReadState, ghosts, TypeOK
<1>5. CASE Return(r) \/ Kill(r)
  BY <1>0, <1>5 DEF Return, Kill, Leave, ghosts, TypeOK
<1>6. CASE UNCHANGED vars
  BY <1>0, <1>6 DEF vars, runVars, ghosts
<1>7. QED
  BY <1>1, <1>2, <1>3, <1>4, <1>5, <1>6 DEF RunStep
LEMMA StepGateFits ==
    ASSUME HeardInv, NEW r \in Runs, StepOf(r)
    PROVE  /\ GateFits(phase'[r], found'[r], todo'[r], pc'[r], failing'[r], speak'[r])
           /\ r \in told' => phase'[r] \in {"send", "unwind", "flush"}
<1>0. /\ TypeOK /\ MainTypes
      /\ GateFits(phase[r], found[r], todo[r], pc[r], failing[r], speak[r])
      /\ r \in told => phase[r] \in {"send", "unwind", "flush"}
      /\ Turns(phase[r], found[r], called[r], todo[r], outcome[r])
  BY DEF HeardInv, CoverInv, TurnsInv, VerdictsInv
<1>1. CASE Start(r) \/ Prepare(r) \/ RecordVerdicts(r)
  BY <1>0, <1>1 DEF Start, Prepare, RecordVerdicts, Goto, GateFits, MainTypes, vars, runVars, heard
<1>2. CASE Measure(r)
  <2>1. /\ phase[r] = "measure" /\ phase'[r] \in {"record", "unwind"}
        /\ todo'[r] = todo[r] /\ UNCHANGED <<pc, failing, speak, told>>
    BY <1>0, <1>2 DEF Measure, Goto, MainTypes, vars, runVars, heard
  <2>2. todo[r] = <<>>
    BY <1>0, <2>1 DEF Turns
  <2>3. QED
    BY <1>0, <2>1, <2>2 DEF GateFits
<1>3. CASE AskGate(r)
  <2>1. /\ phase[r] = "ask" /\ phase'[r] = "gate" /\ UNCHANGED <<found, todo, told, speak>>
        /\ pc'[r] = "read" /\ failing'[r] = found[r]
    BY <1>0, <1>3 DEF AskGate, Begin, Goto, MainTypes, TypeOK, heard
  <2>2. ~speak[r] /\ r \notin told
    BY <1>0, <2>1 DEF GateFits
  <2>3. QED
    BY <1>0, <2>1, <2>2 DEF GateFits
<1>4. CASE GateStep(r)
  <2>1. phase[r] = "gate" /\ UNCHANGED <<phase, found, todo, told>>
    BY <1>4 DEF GateStep, mainVars, heard
  <2>2. CASE ReadState(r)
    <3>1. pc[r] = "read" /\ pc'[r] = "decide" /\ UNCHANGED <<failing, speak>>
      BY <1>0, <2>2 DEF ReadState, TypeOK
    <3>2. QED
      BY <1>0, <2>1, <3>1 DEF GateFits
  <2>3. CASE Decide(r)
    <3>1. PICK spoken \in BOOLEAN :
              /\ pc[r] = "decide" /\ pc'[r] = "answered" /\ failing' = failing
              /\ speak'[r] = spoken /\ (spoken => failing[r] \in Conditions)
      BY <1>0, <2>3, DecideAnswers DEF Answer, TypeOK
    <3>2. failing[r] = found[r]
      BY <1>0, <3>1 DEF GateFits
    <3>3. QED
      BY <1>0, <2>1, <3>1, <3>2 DEF GateFits
  <2>4. QED
    BY <1>4, <2>2, <2>3 DEF GateStep
<1>5. CASE GateAnswers(r)
  <2>1. /\ phase[r] = "gate" /\ phase'[r] = "send" /\ UNCHANGED <<found, told>>
        /\ todo'[r] = Due(r)
        /\ pc'[r] = "idle" /\ ~speak'[r]
    BY <1>0, <1>5 DEF GateAnswers, Return, Leave, Goto, MainTypes, TypeOK, heard
  <2>2. Due(r) # <<>> => speak[r]
    BY DueCallsAll, NoElements
  <2>3. QED
    BY <1>0, <2>1, <2>2 DEF GateFits
<1>6. CASE CallChannel(r)
  <2>1. /\ phase[r] = "send" /\ phase'[r] \in {"send", "unwind"} /\ todo[r] # <<>>
        /\ UNCHANGED <<found, pc, failing, speak>>
    BY <1>0, <1>6 DEF CallChannel, MainTypes, vars, runVars
  <2>2. QED
    BY <1>0, <2>1 DEF GateFits
<1>7. CASE Complete(r) \/ Unwind(r)
  <2>1. /\ phase[r] \in {"send", "unwind"} /\ phase'[r] = "flush"
        /\ UNCHANGED <<found, todo, told, pc, failing, speak>>
    BY <1>0, <1>7 DEF Complete, Unwind, Goto, MainTypes, vars, runVars, heard
  <2>2. QED
    BY <1>0, <2>1 DEF GateFits
<1>8. CASE Flush(r) \/ KillRun(r)
  <2>1. phase'[r] = "off" /\ todo'[r] = <<>> /\ r \notin told'
    BY <1>0, <1>8 DEF Flush, KillRun, Gone, MainTypes
  <2>2. pc'[r] = "idle" /\ ~speak'[r]
    <3>1. CASE Flush(r)
      <4>1. phase[r] = "flush" /\ UNCHANGED <<pc, speak>>
        BY <3>1 DEF Flush, vars, runVars
      <4>2. QED
        BY <1>0, <4>1 DEF GateFits
    <3>2. CASE KillRun(r) /\ pc[r] = "idle"
      <4>1. UNCHANGED <<pc, speak>>
        BY <3>2 DEF KillRun, vars, runVars
      <4>2. QED
        BY <1>0, <3>2, <4>1 DEF GateFits
    <3>3. CASE KillRun(r) /\ pc[r] # "idle"
      BY <1>0, <3>3 DEF KillRun, Leave, TypeOK
    <3>4. QED
      BY <1>8, <3>1, <3>2, <3>3
  <2>3. QED
    BY <2>1, <2>2 DEF GateFits
<1>9. QED
  BY <1>1, <1>2, <1>3, <1>4, <1>5, <1>6, <1>7, <1>8 DEF StepOf, Advance

\* Some channel would take a message about each condition.
SomebodyListens == \A c \in Conditions : ChannelsFor(c) # {}

\* Every condition somebody was told to speak about has been heard of, is on
\* its way or was cut short: what one run's step leaves of that.
LEMMA StepIsHeard ==
    ASSUME SomebodyListens, HeardInv, NEW r \in Runs, StepOf(r), NEW c \in Conditions
    PROVE  heardAt'[c] >= decidedAt'[c] \/ OnItsWay(c)' \/ c \in cut'
<1>0. /\ TypeOK /\ MainTypes /\ heardAt \in [Conditions -> Int]
      /\ decidedAt[c] =< now
      /\ GateFits(phase[r], found[r], todo[r], pc[r], failing[r], speak[r])
      /\ r \in told => phase[r] \in {"send", "unwind", "flush"}
      /\ Turns(phase[r], found[r], called[r], todo[r], outcome[r])
      /\ heardAt[c] >= decidedAt[c] \/ OnItsWay(c) \/ c \in cut
  BY DEF HeardInv, CoverInv, TurnsInv, VerdictsInv
<1>1. ASSUME UNCHANGED <<heardAt, cut>>, decidedAt'[c] = decidedAt[c],
             r \in told \/ found[r] # c \/ ~Tells(r)
      PROVE  heardAt'[c] >= decidedAt'[c] \/ OnItsWay(c)' \/ c \in cut'
  <2>1. CASE OnItsWay(c)
    <3>1. PICK q \in Runs : q \notin told /\ Tells(q) /\ found[q] = c
      BY <2>1 DEF OnItsWay
    <3>2. q # r
      BY <1>1, <3>1
    <3>3. QED
      BY <1>0, <3>1, <3>2, StillOnItsWay
  <2>2. CASE ~OnItsWay(c)
    BY <1>0, <1>1, <2>2
  <2>3. QED
    BY <2>1, <2>2
<1>2. CASE Start(r) \/ Prepare(r) \/ Measure(r) \/ RecordVerdicts(r) \/ AskGate(r)
  <2>1. /\ phase[r] \in {"off", "prepare", "measure", "record", "ask"}
        /\ UNCHANGED <<decidedAt, heardAt, cut>>
    BY <1>2 DEF Start, Prepare, Measure, RecordVerdicts, AskGate, Begin, Goto, vars, ghosts, heard
  <2>2. pc[r] = "idle" /\ todo[r] = <<>>
    BY <1>0, <2>1 DEF GateFits, Turns
  <2>3. QED
    BY <1>1, <2>1, <2>2 DEF Tells, Answered
<1>3. CASE GateStep(r) /\ ReadState(r)
  <2>1. /\ phase[r] = "gate" /\ pc[r] = "read"
        /\ UNCHANGED <<decidedAt, heardAt, cut>>
    BY <1>3 DEF GateStep, ReadState, ghosts, heard
  <2>2. todo[r] = <<>>
    BY <1>0, <2>1 DEF Turns
  <2>3. QED
    BY <1>1, <2>1, <2>2 DEF Tells, Answered
<1>4. CASE GateStep(r) /\ Decide(r)
  <2>1. phase[r] = "gate" /\ UNCHANGED <<found, todo, heardAt, told, cut>>
    BY <1>4 DEF GateStep, mainVars, heard
  <2>2. PICK spoken \in BOOLEAN :
            /\ pc[r] = "decide" /\ pc'[r] = "answered" /\ speak'[r] = spoken
            /\ spoken => failing[r] \in Conditions
            /\ decidedAt' = IF spoken /\ at[r] > decidedAt[failing[r]]
                            THEN [decidedAt EXCEPT ![failing[r]] = at[r]]
                            ELSE decidedAt
    BY <1>0, <1>4, DecideAnswers DEF Answer, TypeOK
  <2>3. failing[r] = found[r] /\ r \notin told /\ todo[r] = <<>>
    BY <1>0, <2>1, <2>2 DEF GateFits, Turns
  <2>4. CASE spoken /\ found[r] = c
    <3>1. Tells(r)' /\ r \notin told' /\ found'[r] = c
      BY <2>1, <2>2, <2>3, <2>4 DEF Tells, Answered
    <3>2. QED
      BY <3>1 DEF OnItsWay
  <2>5. CASE ~(spoken /\ found[r] = c)
    <3>1. decidedAt'[c] = decidedAt[c]
      BY <1>0, <2>2, <2>3, <2>5 DEF TypeOK
    <3>2. ~Tells(r)
      BY <2>2, <2>3 DEF Tells, Answered
    <3>3. QED
      BY <1>1, <2>1, <3>1, <3>2
  <2>6. QED
    BY <2>4, <2>5
<1>5. CASE GateAnswers(r)
  <2>1. /\ phase[r] = "gate" /\ pc[r] = "answered"
        /\ UNCHANGED <<decidedAt, found, heardAt, told, cut>>
        /\ todo'[r] = Due(r)
    BY <1>0, <1>5 DEF GateAnswers, Return, Leave, Goto, MainTypes, ghosts, heard
  <2>2. r \notin told /\ todo[r] = <<>>
    BY <1>0, <2>1 DEF GateFits, Turns
  <2>3. CASE speak[r] /\ found[r] = c
    <3>1. Elements(Due(r)) = ChannelsFor(c) /\ Due(r) \in Seq(Channels)
      BY <2>3, DueCallsAll
    <3>2. ChannelsFor(c) # {}
      BY DEF SomebodyListens
    <3>3. todo'[r] # <<>>
      BY <2>1, <3>1, <3>2, NoElements
    <3>4. Tells(r)' /\ r \notin told' /\ found'[r] = c
      BY <2>1, <2>2, <2>3, <3>3 DEF Tells
    <3>5. QED
      BY <3>4 DEF OnItsWay
  <2>4. CASE ~(speak[r] /\ found[r] = c)
    <3>1. found[r] # c \/ ~Tells(r)
      BY <2>2, <2>4 DEF Tells
    <3>2. QED
      BY <1>1, <2>1, <3>1
  <2>5. QED
    BY <2>3, <2>4
<1>6. CASE CallChannel(r)
  <2>1. UNCHANGED <<decidedAt, now, found>> /\ (Take(r) \/ Miss(r))
    BY <1>6 DEF CallChannel, vars, ghosts
  <2>2. CASE Take(r) /\ found[r] = c
    <3>1. heardAt'[c] = now
      BY <1>0, <2>2 DEF Take
    <3>2. now \in Int /\ decidedAt[c] \in Int
      BY <1>0, BoundAssumption DEF TypeOK
    <3>3. QED
      BY <1>0, <2>1, <3>1, <3>2
  <2>3. CASE Take(r) /\ found[r] # c
    <3>1. heardAt'[c] = heardAt[c] /\ (c \in cut => c \in cut')
      BY <1>0, <2>3 DEF Take
    <3>2. CASE OnItsWay(c)
      <4>1. PICK q \in Runs : q \notin told /\ Tells(q) /\ found[q] = c
        BY <3>2 DEF OnItsWay
      <4>2. QED
        BY <1>0, <2>3, <4>1, StillOnItsWay
    <3>3. QED
      BY <1>0, <2>1, <3>1, <3>2
  <2>4. CASE Miss(r) /\ (r \in told \/ found[r] # c)
    <3>1. heardAt' = heardAt /\ (c \in cut => c \in cut')
      BY <2>4 DEF Miss
    <3>2. CASE OnItsWay(c)
      <4>1. PICK q \in Runs : q \notin told /\ Tells(q) /\ found[q] = c
        BY <3>2 DEF OnItsWay
      <4>2. q # r
        BY <2>4, <4>1
      <4>3. QED
        BY <1>0, <4>1, <4>2, StillOnItsWay
    <3>3. QED
      BY <1>0, <2>1, <3>1, <3>2
  <2>5. CASE Miss(r) /\ r \notin told /\ found[r] = c
    BY <2>5 DEF Miss
  <2>6. QED
    BY <2>1, <2>2, <2>3, <2>4, <2>5
<1>7. CASE Complete(r) \/ Unwind(r) \/ Flush(r)
  <2>1. /\ phase[r] \in {"send", "unwind", "flush"}
        /\ phase[r] = "send" => todo[r] = <<>>
        /\ UNCHANGED <<decidedAt, heardAt, cut>>
    BY <1>7 DEF Complete, Unwind, Flush, Goto, vars, ghosts, heard
  <2>2. pc[r] = "idle" /\ todo[r] = <<>>
    BY <1>0, <2>1 DEF GateFits, Turns
  <2>3. QED
    BY <1>1, <2>1, <2>2 DEF Tells, Answered
<1>8. CASE KillRun(r)
  <2>1. /\ UNCHANGED <<decidedAt, heardAt>>
        /\ cut' = IF Tells(r) /\ r \notin told THEN cut \cup {found[r]} ELSE cut
    BY <1>8 DEF KillRun, Leave, vars, ghosts
  <2>2. CASE Tells(r) /\ r \notin told /\ found[r] = c
    BY <2>1, <2>2
  <2>3. CASE r \in told \/ found[r] # c \/ ~Tells(r)
    <3>1. CASE OnItsWay(c)
      <4>1. PICK q \in Runs : q \notin told /\ Tells(q) /\ found[q] = c
        BY <3>1 DEF OnItsWay
      <4>2. q # r
        BY <2>3, <4>1
      <4>3. QED
        BY <1>0, <4>1, <4>2, StillOnItsWay
    <3>2. CASE ~OnItsWay(c)
      BY <1>0, <2>1, <3>2
    <3>3. QED
      BY <3>1, <3>2
  <2>4. QED
    BY <2>2, <2>3
<1>9. QED
  BY <1>2, <1>3, <1>4, <1>5, <1>6, <1>7, <1>8 DEF StepOf, Advance, GateStep

LEMMA HeardAtType ==
    ASSUME MainTypes, heardAt \in [Conditions -> Int], now \in Int, NEW r \in Runs, StepOf(r)
    PROVE  heardAt' \in [Conditions -> Int]
<1>1. heardAt' = heardAt \/ heardAt' = [heardAt EXCEPT ![found[r]] = now]
  BY DEF StepOf, Advance, Start, Prepare, Measure, RecordVerdicts, AskGate, GateStep, GateAnswers,
         CallChannel, Take, Miss, Complete, Unwind, Flush, KillRun, heard
<1>2. QED
  BY <1>1

LEMMA HeardStep ==
    ASSUME SomebodyListens, HeardInv, [HealthNext]_hvars
    PROVE  HeardInv'
<1>0. TypeOK /\ MainTypes /\ CoverInv' /\ TurnsInv'
  BY HealthStepTypes, CoverStep, TurnsStep DEF HeardInv, TurnsInv, VerdictsInv, CoverInv
<1>1. now \in Int /\ now' \in Int
  BY <1>0, BoundAssumption DEF CoverInv, TypeOK
<1>2. CASE UNCHANGED <<mainVars, heard, runVars, ghosts>> /\ now' >= now
  <2>1. UNCHANGED <<phase, found, todo, pc, failing, at, speak, decidedAt, heardAt, told, cut>>
    BY <1>2 DEF mainVars, heard, runVars, ghosts
  <2>2. \A c \in Conditions : decidedAt[c] \in Int /\ decidedAt'[c] =< now'
    BY <1>0, <1>1, <1>2, <2>1 DEF TypeOK, HeardInv
  <2>3. \A r \in Runs : at[r] \in Int /\ at'[r] =< now'
    BY <1>0, <1>1, <1>2, <2>1 DEF TypeOK, HeardInv
  <2>4. \A c \in Conditions : OnItsWay(c)' <=> OnItsWay(c)
    BY <2>1 DEF OnItsWay, Tells, Answered
  <2>5. QED
    BY <1>0, <2>1, <2>2, <2>3, <2>4 DEF HeardInv
<1>3. ASSUME NEW r \in Runs, StepOf(r)
      PROVE  HeardInv'
  <2>1. now' = now /\ at'[r] =< now /\ \A c \in Conditions : decidedAt'[c] =< now
    BY <1>3, TimesStep
  <2>2. heardAt' \in [Conditions -> Int]
    BY <1>0, <1>1, <1>3, HeardAtType DEF HeardInv
  <2>3. \A c \in Conditions : heardAt'[c] >= decidedAt'[c] \/ OnItsWay(c)' \/ c \in cut'
    BY <1>3, StepIsHeard
  <2>4. ASSUME NEW q \in Runs
        PROVE  /\ at'[q] =< now'
               /\ GateFits(phase'[q], found'[q], todo'[q], pc'[q], failing'[q], speak'[q])
               /\ q \in told' => phase'[q] \in {"send", "unwind", "flush"}
    <3>1. CASE q = r
      BY <1>3, <2>1, <3>1, StepGateFits
    <3>2. CASE q # r
      <4>1. /\ at[q] =< now
            /\ GateFits(phase[q], found[q], todo[q], pc[q], failing[q], speak[q])
            /\ q \in told => phase[q] \in {"send", "unwind", "flush"}
        BY DEF HeardInv
      <4>2. /\ pc'[q] = pc[q] /\ failing'[q] = failing[q]
            /\ at'[q] = at[q] /\ speak'[q] = speak[q]
            /\ q \in told' <=> q \in told
        BY <1>0, <1>3, <3>2, OthersInTheGate
      <4>3. phase'[q] = phase[q] /\ found'[q] = found[q] /\ todo'[q] = todo[q]
        BY <1>0, <1>3, <3>2, OthersUntouched
      <4>4. QED
        BY <2>1, <4>1, <4>2, <4>3
    <3>3. QED
      BY <3>1, <3>2
  <2>5. QED
    BY <1>0, <2>1, <2>2, <2>3, <2>4 DEF HeardInv
<1>4. CASE Tick /\ UNCHANGED <<mainVars, heard>>
  <2>1. UNCHANGED <<runVars, ghosts>> /\ now' >= now
    BY <1>1, <1>4 DEF Tick
  <2>2. QED
    BY <1>2, <1>4, <2>1
<1>5. CASE UNCHANGED hvars
  <2>1. UNCHANGED <<mainVars, heard, runVars, ghosts>> /\ now' >= now
    BY <1>1, <1>5 DEF hvars, vars
  <2>2. QED
    BY <1>2, <2>1
<1>6. QED
  BY <1>3, <1>4, <1>5 DEF HealthNext, StepOf

LEMMA HeardStart == HealthInit => HeardInv
<1> SUFFICES ASSUME HealthInit PROVE HeardInv
  OBVIOUS
<1>1. CoverInv /\ TurnsInv
  BY CoverInit, MainTypesStart DEF HealthInit, TurnsInv, VerdictsInv, Fits, Turns
<1>2. MaxGap \in Nat
  BY BackoffAssumption DEF MaxGap
<1>3. /\ heardAt \in [Conditions -> Int]
      /\ \A c \in Conditions : decidedAt[c] =< now /\ heardAt[c] >= decidedAt[c]
  BY <1>2 DEF HealthInit, Init
<1>4. \A r \in Runs :
         /\ at[r] =< now
         /\ GateFits(phase[r], found[r], todo[r], pc[r], failing[r], speak[r])
         /\ r \in told => phase[r] \in {"send", "unwind", "flush"}
  BY DEF HealthInit, Init, GateFits
<1>5. QED
  BY <1>1, <1>3, <1>4 DEF HeardInv

LEMMA HeardIsEnough ==
    ASSUME HeardInv
    PROVE  SilenceIsHeard
<1> SUFFICES ASSUME NEW r \in Runs, Answered(r), failing[r] # Clean, ~speak[r],
                    failing[r] \notin cut, ~ \E q \in Runs : Tells(q) /\ found[q] = failing[r]
             PROVE  HeardSince(failing[r], at[r])
  BY DEF SilenceIsHeard
<1> DEFINE c == failing[r]
<1>1. TypeOK /\ SilenceIsCovered /\ c \in Conditions /\ heardAt \in [Conditions -> Int]
  BY DEF HeardInv, CoverInv, TypeOK
<1>2. at[r] - decidedAt[c] < MaxGap
  BY <1>1 DEF SilenceIsCovered
<1>3. heardAt[c] >= decidedAt[c]
  BY <1>1 DEF HeardInv, OnItsWay
<1>4. at[r] \in Int /\ decidedAt[c] \in Int /\ heardAt[c] \in Int /\ MaxGap \in Int
  BY <1>1, BackoffAssumption, BoundAssumption DEF TypeOK, MaxGap
<1>5. QED
  BY <1>2, <1>3, <1>4 DEF HeardSince

\* Where every condition has a channel to go to, a run is silenced only about
\* what some channel took less than the longest backoff step earlier, what
\* another run is about to send, or what a channel or a kill cut short, for any
\* number of runs at once and whatever fails (alerting.py:206-208).
THEOREM NoSilentOutage ==
    ASSUME SomebodyListens
    PROVE  HealthSpec => []SilenceIsHeard
<1>1. HealthInit => HeardInv
  BY HeardStart
<1>2. HeardInv /\ [HealthNext]_hvars => HeardInv'
  BY HeardStep
<1>3. HeardInv => SilenceIsHeard
  BY HeardIsEnough
<1>4. QED
  BY <1>1, <1>2, <1>3, PTL DEF HealthSpec
=============================================================================

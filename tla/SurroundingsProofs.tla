-------------------------- MODULE SurroundingsProofs --------------------------
(***************************************************************************)
(* Theorems about what stands around the monitor: the dead man's switch on *)
(* its heartbeat, for any period, delays, limits and losses in which an    *)
(* ordinary gap between reports is shorter than the expiry and the `for`   *)
(* together; and the relay of the local stack, for any messages, attempts, *)
(* outages, refusals and restarts of either side.                          *)
(***************************************************************************)
EXTENDS DeadMan, StubRelay, TLAPS

-----------------------------------------------------------------------------
(* The dead man's switch.                                                  *)

Numbers ==
    /\ minute \in Nat
    /\ due \in Nat
    /\ began \in Nat \cup {Idle}
    /\ dropAt \in Nat
    /\ absentSince \in Nat \cup {Present}
    /\ losses \in Nat
    /\ reportedAt \in Nat

Flags == {firing, evaluated, missed, forgot} \subseteq BOOLEAN

\* The timer and the unit keep their limits, and while no run was missed the
\* last report is no further back than a period, a delay and a run.
Schedule ==
    /\ reportedAt =< minute
    /\ minute =< due + Delay
    /\ due =< minute + Period
    /\ began # Idle => minute =< began + RunLimit
    /\ ~missed => IF began = Idle THEN due =< reportedAt + Period
                  ELSE began =< reportedAt + Period + Delay

\* The series is dropped when it expires, and an absence that was seen began no
\* earlier, unless a report has just ended it and no rule has looked since.
Absence ==
    /\ ~forgot => dropAt = reportedAt + Expiration
    /\ ~forgot /\ absentSince # Present
         => \/ absentSince >= dropAt
            \/ minute = reportedAt
            \/ minute = reportedAt + 1 /\ ~evaluated

\* An absence is seen in the minute it begins, and fires in the minute the `for`
\* is over.
Watch ==
    /\ dropAt =< reportedAt + Expiration \/ dropAt =< minute
    /\ absentSince = Present
         => minute < reportedAt + Expiration \/ (minute = reportedAt + Expiration /\ ~evaluated)
    /\ absentSince # Present => absentSince =< reportedAt + Expiration
    /\ absentSince # Present /\ ~firing
         => minute < absentSince + For \/ (minute = absentSince + For /\ ~evaluated)

DeadManInv == Numbers /\ Flags /\ Schedule /\ Absence /\ Watch

LEMMA Limits ==
    /\ Period \in Nat /\ Delay \in Nat /\ RunLimit \in Nat /\ Expiration \in Nat
    /\ For \in Nat /\ MaxMinute \in Nat /\ MaxLosses \in Nat
    /\ Period + Delay + RunLimit < Expiration + For
    /\ Expiration > 1
BY DeadManAssumption

LEMMA DeadManStarts == DeadManInit => DeadManInv
<1> SUFFICES ASSUME DeadManInit PROVE DeadManInv
  OBVIOUS
<1>1. Numbers
  BY Limits DEF DeadManInit, Numbers, Present
<1>2. Flags
  BY Zenon DEF DeadManInit, Flags
<1>3. Schedule /\ Absence /\ Watch
  BY Limits DEF DeadManInit, Schedule, Absence, Watch, Idle, Present
<1>4. QED
  BY <1>1, <1>2, <1>3 DEF DeadManInv

LEMMA DeadManSteps == DeadManInv /\ [DeadManNext]_deadManVars => DeadManInv'
<1> USE Limits DEF Idle, Present
<1> SUFFICES ASSUME DeadManInv, [DeadManNext]_deadManVars PROVE DeadManInv'
  OBVIOUS
<1> USE DEF DeadManInv
<1>1. CASE MinutePasses
  <2> USE <1>1 DEF MinutePasses, history
  <2>1. Numbers'
    BY DEF Numbers
  <2>0. Flags'
    BY Zenon DEF Flags
  <2>2. Schedule'
    BY DEF Numbers, Schedule
  <2>3. Absence'
    BY DEF Numbers, Absence
  <2>4. Watch'
    BY DEF Numbers, Watch
  <2>5. QED
    BY <2>0, <2>1, <2>2, <2>3, <2>4
<1>2. CASE Elapse
  <2> USE <1>2 DEF Elapse, rules, history
  <2>1. Numbers'
    BY DEF Numbers
  <2>0. Flags'
    BY Zenon DEF Flags
  <2>2. Schedule'
    BY DEF Numbers, Schedule
  <2>3. Absence' /\ Watch'
    BY DEF Numbers, Absence, Watch
  <2>4. QED
    BY <2>0, <2>1, <2>2, <2>3
<1>3. CASE Report
  <2> USE <1>3 DEF Report, rules
  <2>1. Numbers'
    BY DEF Numbers
  <2>0. Flags'
    BY Zenon DEF Flags
  <2>2. Schedule'
    BY DEF Numbers, Schedule
  <2>3. Absence'
    BY DEF Numbers, Absence
  <2>4. Watch'
    BY DEF Numbers, Schedule, Watch
  <2>5. QED
    BY <2>0, <2>1, <2>2, <2>3, <2>4
<1>4. CASE LoseReport
  <2> USE <1>4 DEF LoseReport, Strike, rules
  <2>1. Numbers'
    BY DEF Numbers
  <2>0. Flags'
    BY Zenon DEF Flags
  <2>2. Schedule' /\ Absence' /\ Watch'
    BY DEF Numbers, Schedule, Absence, Watch
  <2>3. QED
    BY <2>0, <2>1, <2>2
<1>5. CASE RestartCollector
  <2> USE <1>5 DEF RestartCollector, Strike, rules
  <2>1. Numbers'
    BY DEF Numbers
  <2>0. Flags'
    BY Zenon DEF Flags
  <2>2. Schedule' /\ Absence' /\ Watch'
    BY DEF Numbers, Schedule, Absence, Watch
  <2>3. QED
    BY <2>0, <2>1, <2>2
<1>6. CASE Evaluate
  <2> USE <1>6 DEF Evaluate, history
  <2>1. Numbers'
    BY DEF Numbers
  <2>0. Flags'
    BY Zenon DEF Flags
  <2>2. Schedule'
    BY DEF Numbers, Schedule
  <2>3. Absence'
    BY DEF Numbers, Absence
  <2>4. ~firing' => absentSince' = Present \/ ~(minute - absentSince' >= For)
    BY Zenon
  <2>5. Watch'
    <3>1. absentSince' # Present /\ ~firing' => minute' < absentSince' + For
      BY <2>1, <2>4 DEF Numbers
    <3>2. QED
      BY <2>1, <3>1 DEF Numbers, Watch
  <2>6. QED
    BY <2>0, <2>1, <2>2, <2>3, <2>5
<1>7. CASE UNCHANGED deadManVars
  BY <1>7 DEF deadManVars, rules, history, Numbers, Flags, Schedule, Absence, Watch
<1>8. QED
  BY <1>1, <1>2, <1>3, <1>4, <1>5, <1>6, <1>7 DEF DeadManNext

LEMMA DeadManHolds == DeadManSpec => []DeadManInv
BY DeadManStarts, DeadManSteps, PTL DEF DeadManSpec

\* Only an evaluation makes the rule fire, and it saw the series absent for the
\* `for`.
LEMMA FiringTakesSilence ==
    ASSUME DeadManInv, [DeadManNext]_deadManVars, StartsFiring, ~forgot
    PROVE  minute - reportedAt >= Expiration + For
<1>1. Evaluate
  BY DEF StartsFiring, DeadManNext, deadManVars, rules, history, MinutePasses, Elapse, Report,
         LoseReport, RestartCollector
<1>2. absentSince' # Present /\ minute - absentSince' >= For
  BY <1>1, Zenon DEF StartsFiring, Evaluate
<1>3. minute >= dropAt
  BY <1>1, <1>2 DEF Evaluate, DeadManInv, Numbers
<1>4. CASE absentSince' = minute
  BY <1>2, <1>3, <1>4, Limits DEF DeadManInv, Numbers, Absence
<1>5. CASE absentSince' = absentSince
  <2>1. absentSince >= dropAt
    BY <1>2, <1>3, <1>5, Limits DEF DeadManInv, Numbers, Absence, Present
  <2>2. QED
    BY <1>2, <1>3, <1>5, <2>1, Limits DEF DeadManInv, Numbers, Absence, Present
<1>6. QED
  BY <1>1, <1>2, <1>4, <1>5 DEF Evaluate

\* HealthBotSilent fires only when the collector has taken no report for the
\* expiry and the `for` together, unless the collector has restarted since.
THEOREM AnAlertIsTrue == DeadManSpec => AlertIsTrue
<1>1. DeadManInv /\ [DeadManNext]_deadManVars
        => [StartsFiring /\ ~forgot => minute - reportedAt >= Expiration + For]_deadManVars
  BY FiringTakesSilence
<1>2. QED
  BY <1>1, DeadManHolds, PTL DEF DeadManSpec, AlertIsTrue

\* The rule does not fire while every run reports and the collector stays up.
THEOREM OrdinaryGapsAreQuiet == DeadManSpec => RunsKeepItQuiet
<1>1. DeadManInv /\ [DeadManNext]_deadManVars => [StartsFiring => missed \/ forgot]_deadManVars
  <2> SUFFICES ASSUME DeadManInv, [DeadManNext]_deadManVars, StartsFiring, ~missed, ~forgot
               PROVE  FALSE
    OBVIOUS
  <2>1. minute - reportedAt >= Expiration + For
    BY FiringTakesSilence
  <2>2. minute =< reportedAt + Period + Delay + RunLimit
    BY Limits DEF DeadManInv, Numbers, Schedule, Idle
  <2>3. QED
    BY <2>1, <2>2, Limits DEF DeadManInv, Numbers
<1>2. QED
  BY <1>1, DeadManHolds, PTL DEF DeadManSpec, RunsKeepItQuiet

\* When a monitor stops reporting, the rule fires as soon as the expiry and the
\* `for` are over.
THEOREM SilenceIsNoticed == DeadManSpec => []SilenceFires
<1>1. DeadManInv => SilenceFires
  BY Limits DEF DeadManInv, Numbers, Watch, SilenceFires, Present
<1>2. QED
  BY <1>1, DeadManHolds, PTL

-----------------------------------------------------------------------------
(* The relay.                                                              *)

Shape ==
    /\ DOMAIN pc = Callers
    /\ DOMAIN token = Callers
    /\ DOMAIN hook = Callers
    /\ DOMAIN reply = Messages

\* A webhook belongs to the Mattermost that is there, and one that a bootstrap
\* is about to store to the Mattermost its token is of.
Pieces ==
    /\ \A h \in hooks : h.life = life
    /\ \A c \in Callers : pc[c] = "store" => hook[c].life = token[c]
    /\ CacheIsOfOnePiece

Counts == life \in Nat /\ refusals \in Nat

\* The webhook and the token in the dict are good.
Usable == MATTERMOST.webhook \in hooks /\ MATTERMOST.token = life

\* In the first Mattermost, what is cached or about to be is good.
Good ==
    life = 0 =>
        /\ MATTERMOST # Nothing => Usable
        /\ \A msg \in Messages : pc[msg] \in {"post", "fall back"} => Usable
        /\ \A c \in Callers : pc[c] = "store" => hook[c] \in hooks

\* There, a handler comes to the second post by a refusal, and past it, while that
\* was the only one, with its message taken.
Deliveries ==
    life = 0 =>
        /\ \A msg \in Messages : pc[msg] = "fall back" => refusals > 0
        /\ refusals < 2 => \A msg \in Messages : pc[msg] = "taken" => msg \in shown
        /\ refusals < 2 => AcknowledgedWasTaken

RelayInv == Shape /\ Pieces /\ Counts /\ Good /\ Deliveries

LEMMA RelayStarts == RelayInit => RelayInv
<1> SUFFICES ASSUME RelayInit PROVE RelayInv
  OBVIOUS
<1>1. Shape /\ Counts
  BY DEF RelayInit, Shape, Counts
<1>2. Pieces
  BY RelayAssumption DEF RelayInit, Pieces, CacheIsOfOnePiece, Callers
<1>3. Good
  BY RelayAssumption DEF RelayInit, Good, Callers
<1>4. Deliveries
  BY RelayAssumption DEF RelayInit, Deliveries, AcknowledgedWasTaken, Callers
<1>5. QED
  BY <1>1, <1>2, <1>3, <1>4 DEF RelayInv

\* A coroutine that goes on with its bootstrap, before "store", while Mattermost's
\* webhooks, the dict and what was shown stay as they are.
LEMMA GoingOnKeeps ==
    ASSUME RelayInv, NEW c \in Callers, NEW where,
           where \notin {"store", "post", "fall back", "taken"},
           Goto(c, where),
           UNCHANGED <<life, hooks, MATTERMOST, shown, refusals>>
    PROVE  RelayInv'
<1> USE DEF RelayInv, Goto
<1>1. Shape' /\ Counts'
  BY DEF Shape, Counts
<1>2. Pieces'
  BY DEF Shape, Pieces, CacheIsOfOnePiece
<1>3. Good'
  BY DEF Shape, Good, Usable, Callers
<1>4. Deliveries'
  BY DEF Shape, Deliveries, AcknowledgedWasTaken, Callers
<1>5. QED
  BY <1>1, <1>2, <1>3, <1>4

\* A bootstrap that fails, and leaves the dict as it was.
LEMMA FailingKeeps ==
    ASSUME RelayInv, NEW c \in Callers, ReturnFalse(c),
           UNCHANGED <<life, hooks, shown, MATTERMOST, refusals>>
    PROVE  RelayInv'
<1> USE DEF RelayInv
<1>0. /\ token' = [token EXCEPT ![c] = Nothing] /\ hook' = [hook EXCEPT ![c] = Nothing]
      /\ \E where : /\ where \notin {"store", "post", "fall back", "taken"}
                    /\ pc' = [pc EXCEPT ![c] = where]
      /\ reply' = reply \/ reply' = [reply EXCEPT ![c] = "502"]
  BY DEF ReturnFalse, Return
<1>1. Shape' /\ Counts'
  BY <1>0 DEF Shape, Counts
<1>2. Pieces'
  BY <1>0 DEF Shape, Pieces, CacheIsOfOnePiece
<1>3. Good'
  BY <1>0 DEF Shape, Good, Usable, Callers
<1>4. Deliveries'
  BY <1>0 DEF Shape, Deliveries, AcknowledgedWasTaken, Callers
<1>5. QED
  BY <1>1, <1>2, <1>3, <1>4

\* A bootstrap that succeeds, with a webhook and a token of one Mattermost in the
\* dict, and good ones if it is the first.
LEMMA ReturningKeeps ==
    ASSUME RelayInv, NEW c \in Callers, ReturnTrue(c),
           UNCHANGED <<life, hooks, shown, refusals>>,
           MATTERMOST'.webhook.life = MATTERMOST'.token,
           life = 0 => Usable'
    PROVE  RelayInv'
<1> USE DEF RelayInv
<1>0. /\ token' = [token EXCEPT ![c] = Nothing] /\ hook' = [hook EXCEPT ![c] = Nothing]
      /\ pc' = [pc EXCEPT ![c] = "done"] \/ pc' = [pc EXCEPT ![c] = "post"]
      /\ UNCHANGED reply
  <2>1. CASE c = Loop
    BY <2>1 DEF ReturnTrue, Return
  <2>2. CASE c # Loop
    BY <2>2 DEF ReturnTrue, Return
  <2>3. QED
    BY <2>1, <2>2
<1>1. Shape' /\ Counts'
  BY <1>0 DEF Shape, Counts
<1>2. Pieces'
  BY <1>0 DEF Shape, Pieces, CacheIsOfOnePiece
<1>3. Good'
  BY <1>0 DEF Shape, Good
<1>4. Deliveries'
  BY <1>0 DEF Shape, Deliveries, AcknowledgedWasTaken, Callers
<1>5. QED
  BY <1>1, <1>2, <1>3, <1>4

\* A coroutine that has got its webhook goes to "store" with it.
LEMMA HoldingKeeps ==
    ASSUME RelayInv, NEW c \in Callers, NEW h \in hooks',
           h.life = life, token[c] = life,
           hook' = [hook EXCEPT ![c] = h],
           pc' = [pc EXCEPT ![c] = "store"],
           hooks' = hooks \cup {h},
           UNCHANGED <<life, MATTERMOST, token, reply, shown, refusals>>
    PROVE  RelayInv'
<1> USE DEF RelayInv
<1>1. Shape' /\ Counts'
  BY DEF Shape, Counts
<1>2. Pieces'
  BY DEF Shape, Pieces, CacheIsOfOnePiece
<1>3. Good'
  BY DEF Shape, Good, Usable, Callers
<1>4. Deliveries'
  BY DEF Shape, Deliveries, AcknowledgedWasTaken, Callers
<1>5. QED
  BY <1>1, <1>2, <1>3, <1>4

LEMMA BootstrapKeeps ==
    ASSUME RelayInv, NEW c \in Callers, Bootstrap(c)
    PROVE  RelayInv'
<1> USE DEF BootstrapUnchanged, mattermostVars
<1>0. MATTERMOST # Nothing => /\ MATTERMOST.webhook.life = MATTERMOST.token
                              /\ life = 0 => Usable
  BY DEF RelayInv, Pieces, CacheIsOfOnePiece, Good
<1>1. CASE Begin(c)
  <2>1. CASE MATTERMOST # Nothing
    <3>1. ReturnTrue(c) /\ UNCHANGED <<life, hooks, shown, refusals, MATTERMOST>>
      BY <1>1, <2>1 DEF Begin
    <3>2. Usable => Usable'
      BY <3>1 DEF Usable
    <3>3. QED
      BY <1>0, <2>1, <3>1, <3>2, ReturningKeeps
  <2>2. CASE MATTERMOST = Nothing
    BY <1>1, <2>2, GoingOnKeeps DEF Begin
  <2>3. QED
    BY <2>1, <2>2
<1>2. CASE Login(c)
  <2>1. CASE user
    <3>1. /\ token' = [token EXCEPT ![c] = life] /\ pc' = [pc EXCEPT ![c] = "find team"]
          /\ UNCHANGED <<life, hooks, MATTERMOST, hook, reply, shown, refusals>>
      BY <1>2, <2>1 DEF Login
    <3>2. Shape' /\ Counts'
      BY <3>1 DEF RelayInv, Shape, Counts
    <3>3. Pieces'
      BY <3>1 DEF RelayInv, Shape, Pieces, CacheIsOfOnePiece
    <3>4. Good'
      BY <3>1 DEF RelayInv, Shape, Good, Usable, Callers
    <3>5. Deliveries'
      BY <3>1 DEF RelayInv, Shape, Deliveries, AcknowledgedWasTaken, Callers
    <3>6. QED
      BY <3>2, <3>3, <3>4, <3>5 DEF RelayInv
  <2>2. CASE ~user
    BY <1>2, <2>2, GoingOnKeeps, FailingKeeps DEF Login
  <2>3. QED
    BY <2>1, <2>2
<1>3. CASE SignUp(c)
  BY <1>3, GoingOnKeeps DEF SignUp
<1>4. CASE FindTeam(c)
  BY <1>4, GoingOnKeeps DEF FindTeam
<1>5. CASE MakeTeam(c)
  BY <1>5, GoingOnKeeps, FailingKeeps DEF MakeTeam
<1>6. CASE FindHook(c)
  <2>1. CASE Knows(c) /\ hooks # {}
    <3>1. PICK h \in hooks : hook' = [hook EXCEPT ![c] = h]
      BY <1>6, <2>1 DEF FindHook
    <3>2. /\ pc' = [pc EXCEPT ![c] = "store"] /\ token[c] = life
          /\ UNCHANGED <<life, hooks, MATTERMOST, token, reply, shown, refusals>>
      BY <1>6, <2>1 DEF FindHook, Knows
    <3>3. h.life = life
      BY DEF RelayInv, Pieces
    <3>4. QED
      BY <3>1, <3>2, <3>3, HoldingKeeps
  <2>2. CASE ~(Knows(c) /\ hooks # {})
    BY <1>6, <2>2, GoingOnKeeps DEF FindHook
  <2>3. QED
    BY <2>1, <2>2
<1>7. CASE MakeHook(c)
  <2>1. CASE Knows(c)
    <3> DEFINE h == [life |-> life, id |-> Cardinality(hooks)]
    <3>1. /\ hooks' = hooks \cup {h} /\ hook' = [hook EXCEPT ![c] = h]
          /\ pc' = [pc EXCEPT ![c] = "store"] /\ token[c] = life
          /\ UNCHANGED <<life, MATTERMOST, token, reply, shown, refusals>>
      BY <1>7, <2>1 DEF MakeHook, Knows
    <3>2. h.life = life
      OBVIOUS
    <3> HIDE DEF h
    <3>3. QED
      BY <3>1, <3>2, HoldingKeeps
  <2>2. CASE ~Knows(c)
    BY <1>7, <2>2, FailingKeeps DEF MakeHook
  <2>3. QED
    BY <2>1, <2>2
<1>8. CASE Store(c)
  <2>1. /\ MATTERMOST'.webhook = hook[c] /\ MATTERMOST'.token = token[c]
        /\ pc[c] = "store" /\ ReturnTrue(c)
        /\ UNCHANGED <<life, hooks, shown, refusals>>
    BY <1>8 DEF Store
  <2>2. hook[c].life = token[c]
    BY <2>1 DEF RelayInv, Pieces
  <2>3. life = 0 => Usable'
    <3>1. life = 0 => hook[c] \in hooks /\ hook[c].life = life
      BY <2>1 DEF RelayInv, Good, Pieces
    <3>2. QED
      BY <2>1, <2>2, <3>1 DEF Usable
  <2>4. QED
    BY <2>1, <2>2, <2>3, ReturningKeeps
<1>9. QED
  BY <1>1, <1>2, <1>3, <1>4, <1>5, <1>6, <1>7, <1>8 DEF Bootstrap

LEMMA CountsGrow ==
    ASSUME NEW m \in Nat, NEW n \in Nat, n = m \/ n = m + 1
    PROVE  (n < 2 => m < 2) /\ (m > 0 => n > 0)
OBVIOUS

LEMMA OneMore ==
    ASSUME NEW m \in Nat, NEW n, n = m + 1
    PROVE  n \in Nat /\ n > 0 /\ (m > 0 => ~(n < 2))
OBVIOUS

\* A message that is posted, and goes on to "fall back" only by a refusal and to
\* "taken", while that is the only one, only when it was taken.
LEMMA PostingKeeps ==
    ASSUME RelayInv, NEW msg \in Messages, NEW where, where \in {"fall back", "taken"},
           Goto(msg, where),
           UNCHANGED <<life, hooks, MATTERMOST>>,
           shown \subseteq shown',
           refusals' = refusals \/ refusals' = refusals + 1,
           life = 0 => Usable,
           life = 0 /\ where = "fall back" => refusals' > 0,
           life = 0 /\ refusals' < 2 /\ where = "taken" => msg \in shown'
    PROVE  RelayInv'
<1> USE DEF RelayInv, Goto
<1>0. refusals \in Nat /\ refusals' \in Nat
  BY OneMore DEF Counts
<1>1. Shape' /\ Counts'
  BY <1>0 DEF Shape, Counts
<1>2. Pieces'
  BY DEF Shape, Pieces, CacheIsOfOnePiece
<1>3. Good'
  BY DEF Shape, Good, Usable, Callers
<1>4. Deliveries'
  <2>1. refusals' < 2 => refusals < 2
    BY <1>0, CountsGrow
  <2>2. refusals > 0 => refusals' > 0
    BY <1>0, CountsGrow
  <2>3. life = 0 => \A m \in Messages : pc'[m] = "fall back" => refusals' > 0
    BY <2>2 DEF Shape, Deliveries, Callers
  <2>4. life = 0 /\ refusals' < 2
          => \A m \in Messages : pc'[m] = "taken" => m \in shown'
    BY <2>1 DEF Shape, Deliveries, Callers
  <2>5. life = 0 /\ refusals' < 2 => AcknowledgedWasTaken'
    BY <2>1 DEF Deliveries, AcknowledgedWasTaken
  <2>6. QED
    BY <2>3, <2>4, <2>5 DEF Deliveries
<1>5. QED
  BY <1>1, <1>2, <1>3, <1>4

\* A coroutine that answers says "ok" only of a message that is past its posts.
LEMMA ReplyingKeeps ==
    ASSUME RelayInv, NEW c \in Callers, NEW answer, Reply(c, answer),
           UNCHANGED <<life, hooks, MATTERMOST, shown, refusals>>,
           life = 0 /\ refusals < 2 /\ answer = "ok" => c \in shown
    PROVE  RelayInv'
<1> USE DEF RelayInv, Reply
<1>1. Shape' /\ Counts'
  BY DEF Shape, Counts
<1>2. Pieces'
  BY DEF Shape, Pieces, CacheIsOfOnePiece
<1>3. Good'
  BY DEF Shape, Good, Usable, Callers
<1>4. Deliveries'
  BY DEF Shape, Deliveries, AcknowledgedWasTaken, Callers
<1>5. QED
  BY <1>1, <1>2, <1>3, <1>4

LEMMA RelayKeeps ==
    ASSUME RelayInv, NEW msg \in Messages, Relay(msg)
    PROVE  RelayInv'
<1> USE DEF mattermostVars
<1>0. /\ refusals \in Nat
      /\ Refuse => refusals' = refusals + 1
      /\ life = 0 /\ pc[msg] \in {"post", "fall back"} => Usable
  BY DEF RelayInv, Counts, Good, Refuse
<1>1. CASE PostWebhook(msg)
  <2>1. life = 0 => Usable /\ MATTERMOST.webhook \in hooks
    BY <1>0, <1>1 DEF PostWebhook, Usable
  <2>2. CASE Goto(msg, "taken") /\ shown' = shown \cup {msg} /\ UNCHANGED refusals
    BY <1>0, <1>1, <2>1, <2>2, PostingKeeps DEF PostWebhook
  <2>3. CASE Goto(msg, "fall back") /\ UNCHANGED shown
    <3>1. UNCHANGED <<life, hooks, MATTERMOST>>
      BY <1>1 DEF PostWebhook
    <3>2. CASE MATTERMOST.webhook \notin hooks /\ UNCHANGED refusals
      BY <2>1, <2>3, <3>1, <3>2, PostingKeeps
    <3>3. CASE Refuse
      <4>1. refusals' = refusals + 1 /\ refusals' > 0
        BY <1>0, <3>3, OneMore
      <4>2. QED
        BY <2>1, <2>3, <3>1, <4>1, PostingKeeps
    <3>4. (MATTERMOST.webhook \notin hooks /\ UNCHANGED refusals) \/ Refuse \/ Goto(msg, "taken")
      BY <1>1 DEF PostWebhook
    <3>5. pc[msg] = "post"
      BY <1>1 DEF PostWebhook
    <3>6. ~Goto(msg, "taken")
      BY <2>3, <3>5 DEF Goto, RelayInv, Shape, Callers
    <3>7. QED
      BY <3>2, <3>3, <3>4, <3>6
  <2>4. QED
    BY <1>1, <2>2, <2>3 DEF PostWebhook
<1>2. CASE FallBack(msg)
  <2>1. life = 0 => Usable /\ MATTERMOST.token = life /\ refusals > 0
    BY <1>0, <1>2 DEF FallBack, Usable, RelayInv, Deliveries
  <2>2. Goto(msg, "taken") /\ UNCHANGED <<life, hooks, MATTERMOST>>
    BY <1>2 DEF FallBack
  <2>3. CASE shown' = shown \cup {msg} /\ UNCHANGED refusals
    BY <1>0, <2>1, <2>2, <2>3, PostingKeeps
  <2>4. CASE UNCHANGED shown /\ MATTERMOST.token # life /\ UNCHANGED refusals
    BY <2>1, <2>2, <2>4, PostingKeeps
  <2>5. CASE UNCHANGED shown /\ Refuse
    <3>1. refusals' = refusals + 1 /\ (life = 0 => ~(refusals' < 2))
      BY <1>0, <2>1, <2>5, OneMore
    <3>2. QED
      BY <2>1, <2>2, <2>5, <3>1, PostingKeeps
  <2>6. QED
    BY <1>2, <2>3, <2>4, <2>5 DEF FallBack
<1>3. CASE Acknowledge(msg)
  <2>1. life = 0 /\ refusals < 2 => msg \in shown
    BY <1>3 DEF Acknowledge, RelayInv, Deliveries
  <2>2. QED
    BY <1>3, <2>1, ReplyingKeeps DEF Acknowledge, Callers
<1>4. QED
  BY <1>1, <1>2, <1>3 DEF Relay

LEMMA RelaySteps == RelayInv /\ [RelayNext]_rvars => RelayInv'
<1> SUFFICES ASSUME RelayInv, [RelayNext]_rvars PROVE RelayInv'
  OBVIOUS
<1>1. CASE ComeUp \/ GoDown \/ UNCHANGED rvars
  <2>1. UNCHANGED <<life, hooks, shown, MATTERMOST, pc, token, hook, reply, refusals>>
    BY <1>1 DEF ComeUp, GoDown, rvars, mattermostVars, coroutineVars
  <2>2. QED
    BY <2>1 DEF RelayInv, Shape, Pieces, Counts, Good, Usable, Deliveries,
                CacheIsOfOnePiece, AcknowledgedWasTaken
<1>2. CASE Recreate
  <2>1. /\ hooks' = {} /\ life' = life + 1
        /\ UNCHANGED <<shown, MATTERMOST, pc, token, hook, reply, refusals>>
    BY <1>2 DEF Recreate, coroutineVars
  <2>2. life' \in Nat /\ life' # 0
    BY <2>1 DEF RelayInv, Counts
  <2>3. QED
    BY <2>1, <2>2 DEF RelayInv, Shape, Pieces, Counts, Good, Deliveries, CacheIsOfOnePiece
<1>3. CASE RestartStubs
  <2>1. /\ MATTERMOST' = Nothing
        /\ \A c \in Callers : pc'[c] \notin {"store", "post", "fall back", "taken"}
        /\ DOMAIN pc' = Callers /\ DOMAIN token' = Callers /\ DOMAIN hook' = Callers
        /\ UNCHANGED <<life, hooks, shown, reply, refusals>>
    BY <1>3 DEF RestartStubs, mattermostVars
  <2>2. Shape' /\ Counts' /\ Pieces'
    BY <2>1 DEF RelayInv, Shape, Counts, Pieces, CacheIsOfOnePiece
  <2>3. Good' /\ Deliveries'
    BY <2>1 DEF RelayInv, Good, Deliveries, AcknowledgedWasTaken, Callers
  <2>4. QED
    BY <2>2, <2>3 DEF RelayInv
<1>4. ASSUME NEW c \in Callers, Bootstrap(c)
      PROVE  RelayInv'
  BY <1>4, BootstrapKeeps
<1>5. ASSUME NEW c \in Callers, Raise(c)
      PROVE  RelayInv'
  <2>1. /\ Reply(c, "502") \/ ReturnFalse(c)
        /\ UNCHANGED <<life, hooks, shown, MATTERMOST, refusals>>
    BY <1>5 DEF Raise, mattermostVars
  <2>2. QED
    BY <2>1, ReplyingKeeps, FailingKeeps
<1>6. ASSUME NEW msg \in Messages, Receive(msg)
      PROVE  RelayInv'
  BY <1>6, GoingOnKeeps DEF Receive, Callers, mattermostVars
<1>7. ASSUME NEW msg \in Messages, Relay(msg)
      PROVE  RelayInv'
  BY <1>7, RelayKeeps
<1>8. QED
  BY <1>1, <1>2, <1>3, <1>4, <1>5, <1>6, <1>7 DEF RelayNext

LEMMA RelayHolds == RelaySpec => []RelayInv
<1>1. QED
  BY RelayStarts, RelaySteps, PTL DEF RelaySpec

\* The cached webhook and token are of one Mattermost, however many bootstraps
\* overlap and however often it is recreated (app.py:442-446).
THEOREM CacheStaysWhole == RelaySpec => []CacheIsOfOnePiece
<1>1. RelayInv => CacheIsOfOnePiece
  BY DEF RelayInv, Pieces
<1>2. QED
  BY <1>1, RelayHolds, PTL

\* As long as Mattermost is not recreated and has refused one post at most, every
\* message that was acknowledged was taken (app.py:336-343, 454-476).
THEOREM NoEmptyAcknowledgement == RelaySpec => []OneRefusalLosesNothing
<1>1. RelayInv => OneRefusalLosesNothing
  BY DEF RelayInv, Deliveries, OneRefusalLosesNothing
<1>2. QED
  BY <1>1, RelayHolds, PTL
=============================================================================

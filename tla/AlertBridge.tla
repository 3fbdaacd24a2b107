---------------------------- MODULE AlertBridge ----------------------------
(***************************************************************************)
(* The Alertmanager bridge of src/healthbot/notifications/                 *)
(* alertmanager_bridge.py: one thread that takes webhook requests in the   *)
(* order they arrived, reads the Slack credentials afresh for each, sends  *)
(* one message and answers.  Around it, as external parties: Alertmanager, *)
(* which posts a group until it gets a 2xx, the secret an operator loads   *)
(* and rotates, and Slack.                                                 *)
(*                                                                         *)
(* The state of a group is the number of times it changed: an odd number   *)
(* is firing, an even one is quiet or resolved.                            *)
(***************************************************************************)
EXTENDS Integers, Sequences

CONSTANTS
    Groups,         \* Alertmanager's alert groups
    Stray,          \* the sender of a request that is not an Alertmanager webhook
    NoJob,          \* the handler is idle
    MaxChanges,     \* bound on the changes of a group
    MaxFailures,    \* bound on raised sends, timeouts, restarts and stray requests
    MaxRotations,   \* bound on changes of the secret
    Hazards         \* what may go wrong, a subset of AllHazards

\* "refused": Slack answers a send with an error of its own; "raised": the send
\* or the credential lookup raises something else; "timeout": Alertmanager
\* stops waiting; "restart": the service restarts; "stray": other requests.
AllHazards == {"refused", "raised", "timeout", "restart", "stray"}

\* A request of an alert group, or of the stray sender; the handler's work on one.
Requests == [from : Groups \cup {Stray}, state : Nat, open : BOOLEAN]
Jobs == [request : Requests, token : Nat]

ASSUME BridgeAssumption ==
    /\ Stray \notin Groups
    /\ NoJob \notin Jobs
    /\ MaxChanges \in Nat
    /\ MaxFailures \in Nat
    /\ MaxRotations \in Nat
    /\ Hazards \subseteq AllHazards

VARIABLES
    group,          \* the state of each group
    acked,          \* the state Alertmanager last got a 2xx for, its notification log
    waiting,        \* whether Alertmanager waits for a response about each group
    backlog,        \* requests the bridge has accepted and not yet begun; a request is
                    \* open while its sender waits for the response
    job,            \* the request being handled, with its credentials once read
    secret,         \* the version of the credentials in the secret, 0 before any
    shown,          \* the states of each group Slack has taken, in order
    failures        \* how many hazards have struck

bridgeVars == <<group, acked, waiting, backlog, job, secret, shown, failures>>

Firing(n) == n % 2 = 1

Init ==
    /\ group = [g \in Groups |-> 0]
    /\ acked = [g \in Groups |-> 0]
    /\ waiting = [g \in Groups |-> FALSE]
    /\ backlog = <<>>
    /\ job = NoJob
    /\ secret = 0
    /\ shown = [g \in Groups |-> <<>>]
    /\ failures = 0

Strikes(hazard) ==
    /\ hazard \in Hazards
    /\ failures < MaxFailures
    /\ failures' = failures + 1

-----------------------------------------------------------------------------
(* Alertmanager and the operator, external.                                *)

Change(g) ==
    /\ group[g] < MaxChanges
    /\ group' = [group EXCEPT ![g] = @ + 1]
    /\ UNCHANGED <<acked, waiting, backlog, job, secret, shown, failures>>

\* A group is posted when it changed since the last 2xx.
Post(g) ==
    /\ ~waiting[g]
    /\ Firing(group[g]) # Firing(acked[g])
    /\ waiting' = [waiting EXCEPT ![g] = TRUE]
    /\ backlog' = Append(backlog, [from |-> g, state |-> group[g], open |-> TRUE])
    /\ UNCHANGED <<group, acked, job, secret, shown, failures>>

\* It stops waiting for a response; the request stays with the bridge, which
\* will answer nobody.
GiveUp(g) ==
    LET Abandon(request) == [request EXCEPT !.open = @ /\ request.from # g]
    IN  /\ waiting[g]
        /\ Strikes("timeout")
        /\ waiting' = [waiting EXCEPT ![g] = FALSE]
        /\ backlog' = [i \in DOMAIN backlog |-> Abandon(backlog[i])]
        /\ job' = IF job = NoJob THEN NoJob ELSE [job EXCEPT !.request = Abandon(@)]
        /\ UNCHANGED <<group, acked, secret, shown>>

\* The operator loads the token, or rotates it: the old one stops working.
LoadSecret ==
    /\ secret < MaxRotations + 1
    /\ secret' = secret + 1
    /\ UNCHANGED <<group, acked, waiting, backlog, job, shown, failures>>

StrayRequest ==
    /\ Strikes("stray")
    /\ backlog' = Append(backlog, [from |-> Stray, state |-> 0, open |-> TRUE])
    /\ UNCHANGED <<group, acked, waiting, job, secret, shown>>

-----------------------------------------------------------------------------
(* The bridge.                                                             *)

\* The connection is closed with nothing said.
NoResponse == 0

\* The response reaches a client that still waits; a 2xx is what stops it
\* from posting again.
Respond(request, status) ==
    /\ job' = NoJob
    /\ IF request.from # Stray /\ request.open
       THEN /\ waiting' = [waiting EXCEPT ![request.from] = FALSE]
            /\ acked' = IF status = 200
                        THEN [acked EXCEPT ![request.from] = request.state]
                        ELSE acked
       ELSE UNCHANGED <<waiting, acked>>

\* Mutant of TakeRequest: the newest request is served first.
TakeNewest ==
    /\ job = NoJob
    /\ backlog # <<>>
    /\ backlog' = SubSeq(backlog, 1, Len(backlog) - 1)
    /\ job' = [request |-> backlog[Len(backlog)], token |-> 0]
    /\ UNCHANGED <<waiting, acked, group, secret, shown, failures>>

\* do_POST begins: a wrong path is a 404, a body that is no JSON or carries no
\* alerts a 400, before any credentials are read.
TakeRequest ==
    /\ job = NoJob
    /\ backlog # <<>>
    /\ backlog' = Tail(backlog)
    /\ IF Head(backlog).from = Stray
       THEN \E status \in {400, 404} : Respond(Head(backlog), status)
       ELSE job' = [request |-> Head(backlog), token |-> 0] /\ UNCHANGED <<waiting, acked>>
    /\ UNCHANGED <<group, secret, shown, failures>>

\* Mutant of ReadCredentials: a missing secret is answered like a success.
ReadCredentialsLenient ==
    /\ job # NoJob
    /\ job.token = 0
    /\ \/ /\ secret > 0
          /\ job' = [job EXCEPT !.token = secret]
          /\ UNCHANGED <<waiting, acked>>
       \/ secret = 0 /\ Respond(job.request, 200)
    /\ UNCHANGED <<group, backlog, secret, shown, failures>>

\* read_slack_credentials, never cached: no secret yet is a 503, and a lookup
\* that raises anything but a ConfigurationError closes the connection.
ReadCredentials ==
    /\ job # NoJob
    /\ job.token = 0
    /\ \/ /\ secret > 0
          /\ job' = [job EXCEPT !.token = secret]
          /\ UNCHANGED <<waiting, acked, failures>>
       \/ secret = 0 /\ Respond(job.request, 503) /\ UNCHANGED failures
       \/ Strikes("raised") /\ Respond(job.request, NoResponse)
    /\ UNCHANGED <<group, backlog, secret, shown>>

\* Mutant of Send: a send that raises is answered like one that did not.
SendAlways200 ==
    /\ job # NoJob
    /\ job.token > 0
    /\ \/ /\ job.token = secret
          /\ shown' = [shown EXCEPT ![job.request.from] = Append(@, job.request.state)]
          /\ UNCHANGED failures
       \/ Strikes("raised") /\ UNCHANGED shown
    /\ Respond(job.request, 200)
    /\ UNCHANGED <<group, backlog, secret>>

\* SlackNotifier.send: taken; refused, which it swallows, because of an error
\* of Slack's or a token rotated since it was read; or raising.
Send ==
    /\ job # NoJob
    /\ job.token > 0
    /\ \/ /\ job.token = secret
          /\ shown' = [shown EXCEPT ![job.request.from] = Append(@, job.request.state)]
          /\ Respond(job.request, 200)
          /\ UNCHANGED failures
       \/ /\ job.token # secret \/ "refused" \in Hazards
          /\ Respond(job.request, 200)
          /\ UNCHANGED <<shown, failures>>
       \/ Strikes("raised") /\ Respond(job.request, 502) /\ UNCHANGED shown
    /\ UNCHANGED <<group, backlog, secret>>

\* The service dies and comes back: every open connection is closed.
Restart ==
    /\ Strikes("restart")
    /\ job' = NoJob
    /\ backlog' = <<>>
    /\ waiting' = [g \in Groups |-> FALSE]
    /\ UNCHANGED <<group, acked, secret, shown>>

Idle == job = NoJob /\ backlog = <<>> /\ UNCHANGED bridgeVars

Serve == TakeRequest \/ ReadCredentials \/ Send

Next ==
    \/ \E g \in Groups : Change(g) \/ Post(g) \/ GiveUp(g)
    \/ LoadSecret \/ StrayRequest \/ Restart
    \/ Serve
    \/ Idle

Spec == Init /\ [][Next]_bridgeVars

\* The handler always gets its turn, Alertmanager keeps posting what was not
\* acknowledged, and the operator does load the token in the end.
Fairness ==
    /\ WF_bridgeVars(Serve)
    /\ \A g \in Groups : WF_bridgeVars(Post(g))
    /\ WF_bridgeVars(LoadSecret)

FairSpec == Spec /\ Fairness

-----------------------------------------------------------------------------
(* Properties.                                                             *)

LastShown(g) == IF shown[g] = <<>> THEN 0 ELSE shown[g][Len(shown[g])]

\* What Alertmanager was told is delivered, Slack took: the 2xx that stops the
\* retries is only ever answered for a message that got through
\* (alertmanager_bridge.py:153-155, 161-170).
AcknowledgedWasShown ==
    \A g \in Groups :
        acked[g] # 0 => \E i \in 1..Len(shown[g]) : shown[g][i] = acked[g]

\* Slack never hears of an older state of a group after a newer one, so the
\* last message about it is the newest, through timeouts, retries and restarts
\* (alertmanager_bridge.py:126-178: one thread, one message per request).
NewestLast ==
    \A g \in Groups :
        \A i, j \in 1..Len(shown[g]) : i < j => shown[g][i] =< shown[g][j]

\* "The alert is not lost -- it is held until the secret is in place, then
\* delivered on the next retry with no restart of this process"
\* (alertmanager_bridge.py:153-155): a group that keeps firing is shown firing.
FiringIsShown ==
    \A g \in Groups : Firing(group[g]) ~> Firing(LastShown(g)) \/ ~Firing(group[g])
=============================================================================

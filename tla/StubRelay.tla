----------------------------- MODULE StubRelay ------------------------------
(***************************************************************************)
(* The Slack shim of the local stack (src/IT/local/stubs/app.py): messages *)
(* posted to it are relayed into Mattermost, which it first has to         *)
(* bootstrap.  The handlers and the bootstrap loop are coroutines of one   *)
(* process, so they interleave at every await and nowhere else.            *)
(*                                                                         *)
(* An error answer to a bootstrap call comes of Mattermost's state: no     *)
(* user yet, a team that is there already, a token of another Mattermost.  *)
(***************************************************************************)
EXTENDS Integers, FiniteSets

CONSTANTS
    Messages,       \* the messages posted to the shim
    Loop,           \* the coroutine of bootstrap_loop
    TRIES,          \* how often the loop tries
    MaxFaults,      \* bound on outages, lost answers, and restarts of the stubs
    MaxRefusals,    \* bound on the deliveries Mattermost refuses
    MaxMattermosts, \* bound on how often Mattermost is recreated
    Nothing         \* None

Callers == Messages \cup {Loop}

ASSUME RelayAssumption ==
    /\ Loop \notin Messages
    /\ {TRIES, MaxFaults, MaxRefusals, MaxMattermosts} \subseteq Nat
    /\ TRIES > 0

VARIABLES
    up,             \* Mattermost answers
    life,           \* which Mattermost it is: a recreated one is empty
    user,           \* it has the first user
    team,           \* it has the team
    hooks,          \* the incoming webhooks named HealthBot it has
    shown,          \* the messages it took
    MATTERMOST,     \* the module's dict: webhook and token, or Nothing
    pc,             \* where each coroutine is
    token,          \* the token of each bootstrap under way: its Mattermost
    hook,           \* the webhook each bootstrap has found or made
    tries,          \* the loop's attempts
    reply,          \* what the shim answered to each message
    faults, refusals

mattermostVars == <<up, life, user, team, hooks>>
coroutineVars == <<pc, token, hook, tries, reply>>
rvars == <<mattermostVars, shown, MATTERMOST, coroutineVars, faults, refusals>>

RelayInit ==
    /\ up = FALSE
    /\ life = 0
    /\ user = FALSE
    /\ team = FALSE
    /\ hooks = {}
    /\ shown = {}
    /\ MATTERMOST = Nothing
    /\ pc = [c \in Callers |-> IF c = Loop THEN "begin" ELSE "unsent"]
    /\ token = [c \in Callers |-> Nothing]
    /\ hook = [c \in Callers |-> Nothing]
    /\ tries = 0
    /\ reply = [msg \in Messages |-> "none"]
    /\ faults = 0
    /\ refusals = 0

-----------------------------------------------------------------------------
(* Mattermost.                                                             *)

ComeUp ==
    /\ ~up
    /\ up' = TRUE
    /\ UNCHANGED <<life, user, team, hooks, shown, MATTERMOST, coroutineVars, faults, refusals>>

GoDown ==
    /\ up
    /\ faults < MaxFaults
    /\ faults' = faults + 1
    /\ up' = FALSE
    /\ UNCHANGED <<life, user, team, hooks, shown, MATTERMOST, coroutineVars, refusals>>

\* The container is recreated: the preview image keeps no volume.
Recreate ==
    /\ life < MaxMattermosts
    /\ life' = life + 1
    /\ up' = FALSE
    /\ user' = FALSE
    /\ team' = FALSE
    /\ hooks' = {}
    /\ UNCHANGED <<shown, MATTERMOST, coroutineVars, faults, refusals>>

Knows(c) == token[c] = life

-----------------------------------------------------------------------------
(* bootstrap_mattermost, one action per call that matters.                 *)

Goto(c, where) ==
    /\ pc' = [pc EXCEPT ![c] = where]
    /\ UNCHANGED <<token, hook, tries, reply>>

\* Its locals go with it.
Return(c) ==
    /\ token' = [token EXCEPT ![c] = Nothing]
    /\ hook' = [hook EXCEPT ![c] = Nothing]

\* bootstrap_mattermost returns False: the loop tries again while it may, a
\* handler answers 502.
ReturnFalse(c) ==
    /\ Return(c)
    /\ IF c = Loop
       THEN /\ tries' = tries + 1
            /\ pc' = [pc EXCEPT ![c] = IF tries + 1 < TRIES THEN "begin" ELSE "gave up"]
            /\ UNCHANGED reply
       ELSE /\ pc' = [pc EXCEPT ![c] = "answered"]
            /\ reply' = [reply EXCEPT ![c] = "502"]
            /\ UNCHANGED tries

\* It returns True: the loop is done, a handler posts its message.
ReturnTrue(c) ==
    /\ Return(c)
    /\ pc' = [pc EXCEPT ![c] = IF c = Loop THEN "done" ELSE "post"]
    /\ UNCHANGED <<tries, reply>>

BootstrapUnchanged == UNCHANGED <<shown, faults, refusals>>

\* Mutant of Begin: a handler waits for the loop's webhook.
BeginAwaitingLoop(c) ==
    /\ pc[c] = "begin"
    /\ c # Loop => MATTERMOST # Nothing
    /\ IF MATTERMOST # Nothing THEN ReturnTrue(c) ELSE Goto(c, "login")
    /\ UNCHANGED <<mattermostVars, MATTERMOST>>
    /\ BootstrapUnchanged

Begin(c) ==
    /\ pc[c] = "begin"
    /\ IF MATTERMOST # Nothing THEN ReturnTrue(c) ELSE Goto(c, "login")
    /\ UNCHANGED <<mattermostVars, MATTERMOST>>
    /\ BootstrapUnchanged

Login(c) ==
    /\ pc[c] \in {"login", "login again"}
    /\ up
    /\ IF user
       THEN /\ token' = [token EXCEPT ![c] = life]
            /\ pc' = [pc EXCEPT ![c] = "find team"]
            /\ UNCHANGED <<hook, tries, reply>>
       ELSE IF pc[c] = "login" THEN Goto(c, "sign up") ELSE ReturnFalse(c)
    /\ UNCHANGED <<mattermostVars, MATTERMOST>>
    /\ BootstrapUnchanged

\* Two coroutines may both sign up; the second is told the user exists, and
\* neither looks.
SignUp(c) ==
    /\ pc[c] = "sign up"
    /\ up
    /\ user' = TRUE
    /\ Goto(c, "login again")
    /\ UNCHANGED <<up, life, team, hooks, MATTERMOST>>
    /\ BootstrapUnchanged

\* The calls for the user before it, and for membership and channel after it, are
\* left out: what they answer is used only in later calls, and a token that makes
\* them useless makes this call and the later ones fail.
FindTeam(c) ==
    /\ pc[c] = "find team"
    /\ up
    /\ Goto(c, IF team /\ Knows(c) THEN "find hook" ELSE "make team")
    /\ UNCHANGED <<mattermostVars, MATTERMOST>>
    /\ BootstrapUnchanged

\* Only one coroutine is given the new team; the other's bootstrap fails.
MakeTeam(c) ==
    /\ pc[c] = "make team"
    /\ up
    /\ IF Knows(c) /\ ~team
       THEN team' = TRUE /\ Goto(c, "find hook")
       ELSE ReturnFalse(c) /\ UNCHANGED team
    /\ UNCHANGED <<up, life, user, hooks, MATTERMOST>>
    /\ BootstrapUnchanged

FindHook(c) ==
    /\ pc[c] = "find hook"
    /\ up
    /\ IF Knows(c) /\ hooks # {}
       THEN /\ \E h \in hooks : hook' = [hook EXCEPT ![c] = h]
            /\ pc' = [pc EXCEPT ![c] = "store"]
            /\ UNCHANGED <<token, tries, reply>>
       ELSE Goto(c, "make hook")
    /\ UNCHANGED <<mattermostVars, MATTERMOST>>
    /\ BootstrapUnchanged

MakeHook(c) ==
    /\ pc[c] = "make hook"
    /\ up
    /\ IF Knows(c)
       THEN LET h == [life |-> life, id |-> Cardinality(hooks)]
            IN  /\ hooks' = hooks \cup {h}
                /\ hook' = [hook EXCEPT ![c] = h]
                /\ pc' = [pc EXCEPT ![c] = "store"]
                /\ UNCHANGED <<token, tries, reply>>
       ELSE ReturnFalse(c) /\ UNCHANGED hooks
    /\ UNCHANGED <<up, life, user, team, MATTERMOST>>
    /\ BootstrapUnchanged

\* Mutant of Store: a webhook that is there already is kept.
StoreSetDefault(c) ==
    /\ pc[c] = "store"
    /\ MATTERMOST' = [webhook |-> IF MATTERMOST = Nothing THEN hook[c] ELSE MATTERMOST.webhook,
                      token |-> token[c]]
    /\ ReturnTrue(c)
    /\ UNCHANGED mattermostVars
    /\ BootstrapUnchanged

\* Webhook and token go into the dict together, with the channel, which only the
\* second post names and which is left out.
Store(c) ==
    /\ pc[c] = "store"
    /\ MATTERMOST' = [webhook |-> hook[c], token |-> token[c]]
    /\ ReturnTrue(c)
    /\ UNCHANGED mattermostVars
    /\ BootstrapUnchanged

Bootstrap(c) ==
    \/ Begin(c) \/ Login(c) \/ SignUp(c) \/ FindTeam(c)
    \/ MakeTeam(c) \/ FindHook(c) \/ MakeHook(c) \/ Store(c)

-----------------------------------------------------------------------------
(* slack_post_message and post_to_mattermost.                              *)

Receive(msg) ==
    /\ pc[msg] = "unsent"
    /\ Goto(msg, "begin")
    /\ UNCHANGED <<mattermostVars, shown, MATTERMOST, faults, refusals>>

Reply(msg, answer) ==
    /\ pc' = [pc EXCEPT ![msg] = "answered"]
    /\ reply' = [reply EXCEPT ![msg] = answer]
    /\ UNCHANGED <<token, hook, tries>>

Refuse == refusals < MaxRefusals /\ refusals' = refusals + 1

\* Mutant of PostWebhook: any answer is as good as 200.
PostWebhookAnyAnswer(msg) ==
    /\ pc[msg] = "post"
    /\ up
    /\ \/ /\ MATTERMOST.webhook \in hooks
          /\ shown' = shown \cup {msg}
          /\ UNCHANGED refusals
       \/ /\ \/ MATTERMOST.webhook \notin hooks /\ UNCHANGED refusals
             \/ MATTERMOST.webhook \in hooks /\ Refuse
          /\ UNCHANGED shown
    /\ Goto(msg, "taken")
    /\ UNCHANGED <<mattermostVars, MATTERMOST, faults>>

\* The webhook takes the message, or answers anything but 200.
PostWebhook(msg) ==
    /\ pc[msg] = "post"
    /\ up
    /\ \/ /\ MATTERMOST.webhook \in hooks
          /\ shown' = shown \cup {msg}
          /\ Goto(msg, "taken")
          /\ UNCHANGED refusals
       \/ /\ \/ MATTERMOST.webhook \notin hooks /\ UNCHANGED refusals
             \/ MATTERMOST.webhook \in hooks /\ Refuse
          /\ Goto(msg, "fall back")
          /\ UNCHANGED shown
    /\ UNCHANGED <<mattermostVars, MATTERMOST, faults>>

\* The post as the admin user, whose status nothing looks at: a message that is
\* refused here too is answered like one that was taken.
FallBack(msg) ==
    /\ pc[msg] = "fall back"
    /\ up
    /\ \/ /\ MATTERMOST.token = life
          /\ shown' = shown \cup {msg}
          /\ UNCHANGED refusals
       \/ /\ \/ MATTERMOST.token # life /\ UNCHANGED refusals
             \/ MATTERMOST.token = life /\ Refuse
          /\ UNCHANGED shown
    /\ Goto(msg, "taken")
    /\ UNCHANGED <<mattermostVars, MATTERMOST, faults>>

Acknowledge(msg) ==
    /\ pc[msg] = "taken"
    /\ Reply(msg, "ok")
    /\ UNCHANGED <<mattermostVars, shown, MATTERMOST, faults, refusals>>

Relay(msg) == PostWebhook(msg) \/ FallBack(msg) \/ Acknowledge(msg)

-----------------------------------------------------------------------------
(* What goes wrong around the coroutines.                                  *)

AtRest == {"unsent", "begin", "answered", "cut off", "done", "gave up"}

\* A call raises: Mattermost is not there, or its answer was lost.
Raise(c) ==
    /\ pc[c] \notin AtRest
    /\ \/ ~up /\ UNCHANGED faults
       \/ up /\ faults < MaxFaults /\ faults' = faults + 1
    /\ IF pc[c] \in {"post", "fall back", "taken"} THEN Reply(c, "502") ELSE ReturnFalse(c)
    /\ UNCHANGED <<mattermostVars, shown, MATTERMOST, refusals>>

\* The stubs restart: the dict is empty, the loop starts over, and the callers of
\* the handlers under way are cut off without an answer.
RestartStubs ==
    /\ faults < MaxFaults
    /\ faults' = faults + 1
    /\ MATTERMOST' = Nothing
    /\ pc' = [c \in Callers |-> IF c = Loop THEN "begin"
                                ELSE IF pc[c] \in {"unsent", "answered"} THEN pc[c]
                                ELSE "cut off"]
    /\ token' = [c \in Callers |-> Nothing]
    /\ hook' = [c \in Callers |-> Nothing]
    /\ tries' = 0
    /\ UNCHANGED <<mattermostVars, shown, reply, refusals>>

Coroutine(c) ==
    \/ Bootstrap(c)
    \/ c \in Messages /\ Relay(c)
    \/ ~up /\ Raise(c)

RelayNext ==
    \/ ComeUp \/ GoDown \/ Recreate \/ RestartStubs
    \/ \E c \in Callers : Bootstrap(c) \/ Raise(c)
    \/ \E msg \in Messages : Receive(msg) \/ Relay(msg)

RelaySpec == RelayInit /\ [][RelayNext]_rvars

\* The event loop runs every coroutine that can go on, a call that gets no
\* answer raises, and Mattermost comes up in the end.
FairRelaySpec ==
    /\ RelaySpec
    /\ WF_rvars(ComeUp)
    /\ \A c \in Callers : WF_rvars(Coroutine(c))

-----------------------------------------------------------------------------
(* Properties.                                                             *)

\* "Surface the failure to the caller: [...] which is more honest than a swallowed
\* relay" (app.py:338-339): what is acknowledged was taken.  It is not so: nothing
\* looks at the answer to the second post (app.py:466-473).
AcknowledgedWasTaken == \A msg \in Messages : reply[msg] = "ok" => msg \in shown

\* A Mattermost that is not recreated may refuse a post, and nothing that is
\* acknowledged is lost by it: the second way in makes up for the first
\* (app.py:463-473), however handlers and bootstraps interleave, answers are lost
\* and either side restarts.  AcknowledgedWasTaken fails only beyond that.
OneRefusalLosesNothing == life = 0 /\ refusals < 2 => AcknowledgedWasTaken

\* The webhook and the token a message is posted with come from one bootstrap of
\* one Mattermost (app.py:442-446), though bootstraps overlap and Mattermost may
\* be recreated between two of their calls.
CacheIsOfOnePiece ==
    MATTERMOST # Nothing => MATTERMOST.webhook.life = MATTERMOST.token

\* Every message that arrives is answered, with the bootstrap under way, failed
\* or given up (app.py:336-343, 363-365, 484): no coroutine waits for another.
\* Only a restart of the stubs leaves a caller without an answer.
EveryMessageIsAnswered ==
    \A msg \in Messages : pc[msg] = "begin" ~> pc[msg] \in {"answered", "cut off"}
=============================================================================

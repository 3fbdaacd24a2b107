----------------------------- MODULE HealthRun -----------------------------
(***************************************************************************)
(* One run of HealthBot from end to end (src/healthbot/healthbot.py): it   *)
(* reads its configuration, measures the site, records its SLO verdicts,   *)
(* asks the alert gate whether to speak, calls the channels in order and   *)
(* exports its telemetry on the way out.  The gate is AlertGate, step by   *)
(* step; a call can raise in any other phase, and the process can be       *)
(* killed in all of them (TimeoutStartSec, an out-of-memory kill).         *)
(***************************************************************************)
EXTENDS AlertGate, Sequences

CONSTANTS
    CheckoutDown,   \* the conditions in which the checkout itself is down
    Configured,     \* the channels whose credentials the secret holds
    Breaks          \* which calls may fail, a subset of AllBreaks

\* "prepare", "measure": configuration or a check raises;
\* "sms", "slack", "sns": the channel's client raises;
\* "refused": Slack answers, and its answer is no.
AllBreaks == {"prepare", "measure", "sms", "slack", "sns", "refused"}

Channels == {"sms", "slack", "sns"}

ASSUME HealthRunAssumption ==
    /\ CheckoutDown \subseteq Conditions
    /\ Configured \subseteq Channels
    /\ Breaks \subseteq AllBreaks

VARIABLES
    phase,          \* where each run is
    found,          \* what its checks found failing
    verdicts,       \* the SLO events it has recorded: "site" stands for one per SLI
                    \* about the site, "good" and "bad" are the monitor's own
    todo,           \* the channels it still has to call, in order
    called,         \* the channels it has called
    outcome,        \* "none" while it runs, then the heartbeat's outcome
    heardAt,        \* history variable: when a channel last took each condition
    told,           \* history variable: the runs whose message some channel took
    cut             \* history variable: conditions whose last message reached nobody

mainVars == <<phase, found, verdicts, todo, called, outcome>>
heard == <<heardAt, told, cut>>
hvars == <<vars, mainVars, heard>>

HealthInit ==
    /\ Init
    /\ phase = [r \in Runs |-> "off"]
    /\ found = [r \in Runs |-> Clean]
    /\ verdicts = [r \in Runs |-> {}]
    /\ todo = [r \in Runs |-> <<>>]
    /\ called = [r \in Runs |-> {}]
    /\ outcome = [r \in Runs |-> "none"]
    /\ heardAt = [c \in Conditions |-> -MaxGap]
    /\ told = {}
    /\ cut = {}

Goto(r, from, to) == phase[r] = from /\ phase' = [phase EXCEPT ![r] = to]

\* The timer starts a run.
Start(r) ==
    /\ Goto(r, "off", "prepare")
    /\ UNCHANGED <<vars, found, verdicts, todo, called, outcome, heard>>

\* The process and all it remembers are gone.
Gone(r) ==
    /\ phase' = [phase EXCEPT ![r] = "off"]
    /\ found' = [found EXCEPT ![r] = Clean]
    /\ verdicts' = [verdicts EXCEPT ![r] = {}]
    /\ todo' = [todo EXCEPT ![r] = <<>>]
    /\ called' = [called EXCEPT ![r] = {}]
    /\ outcome' = [outcome EXCEPT ![r] = "none"]
    /\ told' = told \ {r}

\* Objectives, site.yml, Parameter Store and the secret.
Prepare(r) ==
    /\ \/ Goto(r, "prepare", "measure")
       \/ "prepare" \in Breaks /\ Goto(r, "prepare", "unwind")
    /\ UNCHANGED <<vars, found, verdicts, todo, called, outcome, heard>>

\* get_message_data: a check that finds its subject down reports it; one that
\* raises takes the run with it.
Measure(r) ==
    /\ \/ /\ Goto(r, "measure", "record")
          /\ \E f \in Conditions \cup {Clean} : found' = [found EXCEPT ![r] = f]
       \/ "measure" \in Breaks /\ Goto(r, "measure", "unwind") /\ UNCHANGED found
    /\ UNCHANGED <<vars, verdicts, todo, called, outcome, heard>>

\* record_slo_events(evaluate_run(message_data, run_completed=True)): the
\* monitor's own verdict is good from here on.
RecordVerdicts(r) ==
    /\ Goto(r, "record", "ask")
    /\ verdicts' = [verdicts EXCEPT ![r] = {"site", "good"}]
    /\ UNCHANGED <<vars, found, todo, called, outcome, heard>>

AskGate(r) ==
    /\ Goto(r, "ask", "gate")
    /\ Begin(r, found[r])
    /\ UNCHANGED <<found, verdicts, todo, called, outcome, heard>>

GateStep(r) ==
    /\ phase[r] = "gate"
    /\ ReadState(r) \/ Decide(r)
    /\ UNCHANGED <<mainVars, heard>>

\* Mutant of Due: Slack waits for a checkout that is down, too.
DueWhenDown(r) ==
    LET IfWanted(ch) ==
            IF speak[r] /\ ch \in Configured /\ found[r] \in CheckoutDown THEN <<ch>> ELSE <<>>
    IN  IfWanted("sms") \o IfWanted("slack") \o IfWanted("sns")

\* The channels there are credentials and cause for.
ChannelsFor(condition) ==
    {ch \in Configured : ch \in {"sms", "sns"} => condition \in CheckoutDown}

\* SMS and SNS are for a checkout that is down, Slack for everything.
Due(r) ==
    LET IfWanted(ch) == IF speak[r] /\ ch \in ChannelsFor(found[r]) THEN <<ch>> ELSE <<>>
    IN  IfWanted("sms") \o IfWanted("slack") \o IfWanted("sns")

GateAnswers(r) ==
    /\ Goto(r, "gate", "send")
    /\ Return(r)
    /\ todo' = [todo EXCEPT ![r] = Due(r)]
    /\ UNCHANGED <<found, verdicts, called, outcome, heard>>

Take(r) ==
    /\ heardAt' = [heardAt EXCEPT ![found[r]] = now]
    /\ told' = told \cup {r}
    /\ cut' = cut \ {found[r]}

\* The channel does not take the message, and so far none has.
Miss(r) ==
    /\ cut' = IF r \in told THEN cut ELSE cut \cup {found[r]}
    /\ UNCHANGED <<heardAt, told>>

\* Mutant of CallChannel: a refusal ends the sending.
CallChannelStopsAtRefusal(r) ==
    /\ phase[r] = "send"
    /\ todo[r] # <<>>
    /\ LET ch == Head(todo[r])
       IN  /\ called' = [called EXCEPT ![r] = @ \cup {ch}]
           /\ \/ Take(r) /\ todo' = [todo EXCEPT ![r] = Tail(@)]
              \/ /\ ch = "slack" /\ "refused" \in Breaks
                 /\ Miss(r)
                 /\ todo' = [todo EXCEPT ![r] = <<>>]
    /\ UNCHANGED <<vars, phase, found, verdicts, outcome>>

\* send_notifications calls one channel after the other and catches nothing;
\* only the Slack notifier swallows a refusal.
CallChannel(r) ==
    /\ phase[r] = "send"
    /\ todo[r] # <<>>
    /\ LET ch == Head(todo[r])
       IN  /\ called' = [called EXCEPT ![r] = @ \cup {ch}]
           /\ \/ Take(r) /\ todo' = [todo EXCEPT ![r] = Tail(@)] /\ UNCHANGED phase
              \/ /\ ch = "slack" /\ "refused" \in Breaks
                 /\ Miss(r)
                 /\ todo' = [todo EXCEPT ![r] = Tail(@)]
                 /\ UNCHANGED phase
              \/ /\ ch \in Breaks
                 /\ Miss(r)
                 /\ phase' = [phase EXCEPT ![r] = "unwind"]
                 /\ todo' = [todo EXCEPT ![r] = <<>>]
    /\ UNCHANGED <<vars, found, verdicts, outcome>>

\* The run span closes: one heartbeat, and exit status 0.
Complete(r) ==
    /\ todo[r] = <<>>
    /\ Goto(r, "send", "flush")
    /\ outcome' = [outcome EXCEPT ![r] = "success"]
    /\ UNCHANGED <<vars, found, verdicts, todo, called, heard>>

\* Mutant of Unwind: the handler records nothing.
UnwindSilently(r) ==
    /\ Goto(r, "unwind", "flush")
    /\ outcome' = [outcome EXCEPT ![r] = "error"]
    /\ UNCHANGED <<vars, found, verdicts, todo, called, heard>>

\* An exception leaves the run span, which still beats, and dies in main:
\* the monitor takes a bad event and the exit status is 1.
Unwind(r) ==
    /\ Goto(r, "unwind", "flush")
    /\ outcome' = [outcome EXCEPT ![r] = "error"]
    /\ verdicts' = [verdicts EXCEPT ![r] = @ \cup {"bad"}]
    /\ UNCHANGED <<vars, found, todo, called, heard>>

\* shutdown_telemetry exports what the run recorded, and the process exits.
Flush(r) ==
    /\ phase[r] = "flush"
    /\ Gone(r)
    /\ UNCHANGED <<vars, heardAt, cut>>

\* The run was told to speak and has not called every channel yet.
Tells(r) == (Answered(r) /\ speak[r]) \/ todo[r] # <<>>

\* No handler runs, and what was recorded is lost with the process.  (The SDK also
\* exports every minute, so a long run may have exported counts by now; what the
\* model calls an export is the last one, in Flush.)
KillRun(r) ==
    /\ "kill" \in Faults
    /\ phase[r] # "off"
    /\ Gone(r)
    /\ IF pc[r] = "idle" THEN UNCHANGED vars ELSE Leave(r)
    /\ cut' = IF Tells(r) /\ r \notin told THEN cut \cup {found[r]} ELSE cut
    /\ UNCHANGED heardAt

Advance(r) ==
    \/ Prepare(r) \/ Measure(r) \/ RecordVerdicts(r)
    \/ AskGate(r) \/ GateStep(r) \/ GateAnswers(r)
    \/ CallChannel(r) \/ Complete(r) \/ Unwind(r) \/ Flush(r)

HealthNext ==
    \/ Tick /\ UNCHANGED <<mainVars, heard>>
    \/ \E r \in Runs : Start(r) \/ Advance(r) \/ KillRun(r)

HealthSpec == HealthInit /\ [][HealthNext]_hvars

-----------------------------------------------------------------------------
(* Properties.                                                             *)

HeardSince(c, t) == t - heardAt[c] < MaxGap

\* Whenever a run is silenced about a condition, some channel took a message
\* about it less than the longest backoff step earlier, or another run is about
\* to send one, or the last one was cut short by a channel or a kill: the
\* gate's promise as the person on call sees it ("a duplicate message, not a
\* silent outage", alerting.py:206-208).
SilenceIsHeard ==
    \A r \in Runs :
        Answered(r) /\ failing[r] # Clean /\ ~speak[r]
            => \/ HeardSince(failing[r], at[r])
               \/ \E q \in Runs : Tells(q) /\ found[q] = failing[r]
               \/ failing[r] \in cut

\* Slack refusing one message does not cost the other channels theirs
\* (slack.py:198-200): a run that ended without an exception called every
\* channel it had credentials and cause for, or was not to speak at all.
ChannelsHaveTheirTurn ==
    \A r \in Runs :
        phase[r] = "flush" /\ outcome[r] = "success" /\ called[r] # {}
            => called[r] = {ch \in Configured :
                               ch \in {"sms", "sns"} => found[r] \in CheckoutDown}

\* What a run exports matches how it ended (healthbot.py:151, 176-188;
\* slo.py:60-65): a run that ended well is good for the monitor, one that did
\* not is bad for it, and it says something about the site only when it had
\* measured it, which a run that called a channel has.
VerdictsMatchOutcome ==
    \A r \in Runs :
        phase[r] = "flush" =>
            IF outcome[r] = "success" THEN verdicts[r] = {"site", "good"}
            ELSE verdicts[r] = {"bad"} \cup (IF called[r] = {} THEN {} ELSE {"site", "good"})

\* "A crashed run says nothing about the site, so only the monitor SLI takes
\* the bad event, and the site SLIs get no event at all" (healthbot.py:184-186).
CrashSaysNothing ==
    \A r \in Runs :
        phase[r] = "flush" /\ outcome[r] = "error" => "site" \notin verdicts[r]
=============================================================================

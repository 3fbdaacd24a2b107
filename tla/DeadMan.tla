------------------------------ MODULE DeadMan -------------------------------
(***************************************************************************)
(* The dead man's switch.  The timer starts a run, the run's last act is   *)
(* to export a heartbeat (src/healthbot/telemetry.py), the collector keeps *)
(* its series for a while, and HealthBotSilent fires when the series has   *)
(* been absent for a while more (src/IT/observability).  In minutes.       *)
(*                                                                         *)
(* The model ends with the rule: Alertmanager routes this alert to its     *)
(* null receiver, so a firing alert is seen in its UI and pages nobody     *)
(* until an operator adds a route (alertmanager/alertmanager.yml:8-31).    *)
(***************************************************************************)
EXTENDS Integers

CONSTANTS
    Period,         \* OnCalendar: how often the timer elapses
    Delay,          \* RandomizedDelaySec and AccuracySec: how late it may
    RunLimit,       \* TimeoutStartSec: no run lives longer
    Expiration,     \* metric_expiration: how long the collector keeps a series
    For,            \* the alert's `for`
    MaxMinute,      \* bound on the clock
    MaxLosses       \* bound on the reports lost, and the collector's restarts

ASSUME DeadManAssumption ==
    /\ {Period, Delay, RunLimit, Expiration, For, MaxMinute, MaxLosses} \subseteq Nat
    /\ Period + Delay + RunLimit < Expiration + For
    /\ Expiration > 1

Idle == -1          \* no run
Present == -1       \* the series is there

VARIABLES
    minute,
    due,            \* when the timer elapses next, on the calendar
    began,          \* when the run under way began, or Idle
    dropAt,         \* when the collector drops the heartbeat's series
    absentSince,    \* when Prometheus first saw it absent, or Present
    firing,         \* HealthBotSilent
    evaluated,      \* the rules have been evaluated in this minute
    losses,
    reportedAt,     \* history variable: when a report last reached the collector
    missed,         \* history variable: a run since then has not reported
    forgot          \* history variable: nor has the collector kept its series

rules == <<absentSince, firing, evaluated>>
history == <<reportedAt, missed, forgot>>
deadManVars == <<minute, due, began, dropAt, rules, losses, history>>

\* A run has just reported.
DeadManInit ==
    /\ minute = 0
    /\ due = Period
    /\ began = Idle
    /\ dropAt = Expiration
    /\ absentSince = Present
    /\ firing = FALSE
    /\ evaluated = FALSE
    /\ losses = 0
    /\ reportedAt = 0
    /\ missed = FALSE
    /\ forgot = FALSE

\* The timer is never later than it may be, systemd kills a run that has used
\* up its time, and the rules are evaluated at least once a minute.
MinutePasses ==
    /\ minute < MaxMinute
    /\ minute < due + Delay
    /\ began # Idle => minute < began + RunLimit
    /\ evaluated
    /\ minute' = minute + 1
    /\ evaluated' = FALSE
    /\ UNCHANGED <<due, began, dropAt, absentSince, firing, losses, history>>

\* A oneshot unit that is still running is not started again.
Elapse ==
    /\ minute >= due
    /\ due' = due + Period
    /\ began' = IF began = Idle THEN minute ELSE began
    /\ UNCHANGED <<minute, dropAt, rules, losses, history>>

\* Mutants of Report: a run that raised does not beat; a heartbeat is dated
\* from the beginning of its run.
ReportSuccess ==
    /\ began # Idle
    /\ began' = Idle
    /\ \/ dropAt' = minute + Expiration /\ reportedAt' = minute /\ missed' = FALSE /\ forgot' = FALSE
       \/ UNCHANGED <<dropAt, history>>
    /\ UNCHANGED <<minute, due, rules, losses>>

ReportBeginning ==
    /\ began # Idle
    /\ began' = Idle
    /\ dropAt' = began + Expiration
    /\ reportedAt' = minute
    /\ missed' = FALSE
    /\ forgot' = FALSE
    /\ UNCHANGED <<minute, due, rules, losses>>

\* run_span beats whether the run succeeded or raised, and shutdown_telemetry
\* exports it.
Report ==
    /\ began # Idle
    /\ began' = Idle
    /\ dropAt' = minute + Expiration
    /\ reportedAt' = minute
    /\ missed' = FALSE
    /\ forgot' = FALSE
    /\ UNCHANGED <<minute, due, rules, losses>>

Strike == losses < MaxLosses /\ losses' = losses + 1

\* The run is killed, or its export fails, or the unit cannot be started.
LoseReport ==
    /\ Strike
    /\ began # Idle
    /\ began' = Idle
    /\ missed' = TRUE
    /\ UNCHANGED <<minute, due, dropAt, rules, reportedAt, forgot>>

\* The collector keeps its series in memory.
RestartCollector ==
    /\ Strike
    /\ dropAt' = minute
    /\ forgot' = TRUE
    /\ UNCHANGED <<minute, due, began, rules, reportedAt, missed>>

\* Mutant of Evaluate: the `for` begins anew at every evaluation.
EvaluateAnew ==
    /\ evaluated' = TRUE
    /\ absentSince' = IF minute < dropAt THEN Present ELSE minute
    /\ firing' = (absentSince' # Present /\ minute - absentSince' >= For)
    /\ UNCHANGED <<minute, due, began, dropAt, losses, history>>

\* absent(healthbot_heartbeat_total), for a while: pending first, then firing,
\* which is all the rule does.
Evaluate ==
    /\ evaluated' = TRUE
    /\ absentSince' = IF minute < dropAt THEN Present
                      ELSE IF absentSince = Present THEN minute ELSE absentSince
    /\ firing' = (absentSince' # Present /\ minute - absentSince' >= For)
    /\ UNCHANGED <<minute, due, began, dropAt, losses, history>>

DeadManNext ==
    \/ MinutePasses \/ Elapse \/ Report \/ LoseReport \/ RestartCollector \/ Evaluate

DeadManSpec == DeadManInit /\ [][DeadManNext]_deadManVars

-----------------------------------------------------------------------------
(* Properties.                                                             *)

StartsFiring == ~firing /\ firing'

\* "No run has reported for 20 minutes" (slo.yml:132): the alert says so of the
\* last report the collector took, unless the collector itself has restarted.
AlertIsTrue ==
    [][StartsFiring /\ ~forgot => minute - reportedAt >= Expiration + For]_deadManVars

\* "The `for` outlasts the timer's 5m period plus its 60s RandomizedDelaySec"
\* (slo.yml:122-123): while every run reports, however late the timer and however
\* long the run, the rule does not fire, though the series does go absent in
\* between.
RunsKeepItQuiet == [][StartsFiring => missed \/ forgot]_deadManVars

\* When a monitor does not report, the rule fires in the minute the expiry and the
\* `for` are over, whoever failed in between (slo.yml:119-121,
\* telemetry.py:202-204).
SilenceFires == minute - reportedAt > Expiration + For => firing
=============================================================================

----------------------------- MODULE MCReports ------------------------------
(***************************************************************************)
(* Small instances, for TLC, of what is kept about the monitored site and  *)
(* the monitor: a queue of deploys, the DORA journal, the scoreboard, and  *)
(* the heartbeat.  They share no state, and a behaviour is of one of them. *)
(* a1 is an `annotate` job, j1 a `dora` job.                               *)
(***************************************************************************)
EXTENDS DeployLedger, DoraJournal, Scoreboard, DeadMan

CONSTANTS a1, j1

VARIABLE part

reportsVars == <<dvars, jvars, svars, deadManVars, part>>

ReportsInit ==
    /\ part \in {"deploys", "journal", "scoreboard", "heartbeat"}
    /\ DeployInit
    /\ JournalInit
    /\ ScoreboardInit
    /\ DeadManInit
    /\ part # "deploys" => \A i \in DOMAIN samples : samples[i] = "fast"

ReportsNext ==
    /\ \/ part = "deploys" /\ DeployNext /\ UNCHANGED <<jvars, svars, deadManVars>>
       \/ part = "journal" /\ JournalNext /\ UNCHANGED <<dvars, svars, deadManVars>>
       \/ part = "scoreboard" /\ ScoreboardNext /\ UNCHANGED <<dvars, jvars, deadManVars>>
       \/ part = "heartbeat" /\ DeadManNext /\ UNCHANGED <<dvars, jvars, svars>>
    /\ UNCHANGED part

ReportsSpec == ReportsInit /\ [][ReportsNext]_reportsVars
=============================================================================

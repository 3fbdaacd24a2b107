----------------------------- MODULE SiteSignals -----------------------------
(***************************************************************************)
(* A run's judgement of what it measured.  What counts as bad is said      *)
(* twice: by the alert gate's signals (src/healthbot/alerting.py), which   *)
(* page by the limits of site.yml, and by the SLO verdicts                 *)
(* (src/healthbot/slo.py), which charge an objective by the thresholds of  *)
(* slo.yml.  The full run does both on the same readings; the site run     *)
(* (src/healthbot/site_run.py) judges only the objectives it can see.      *)
(***************************************************************************)
EXTENDS Checks

CONSTANT NoKey      \* a signal without a limit, an objective without a threshold

ASSUME SignalAssumption == None # NoKey /\ NoKey \notin Nat

VARIABLES
    ran,            \* which run is under way, and how far
    readings,       \* its message data
    limits,         \* alert_thresholds(), from site.yml
    objectives,     \* load_slos(), from slo.yml
    failing,        \* what its gate is asked about
    lines,          \* what its message says is wrong
    verdicts,       \* the SLO events it recorded
    drifts,         \* the objectives it reported as drifted
    truth           \* history variable: what was the case for each signal

judgement == <<limits, objectives, failing, lines, verdicts, drifts>>
svars == <<ran, readings, judgement, truth>>

Booleans == {"is_checkout_up", "canary_ok"}
Measures == {"ga_active_users", "app_response_time", "web_response_time"}
SIGNALS == Booleans \cup Measures

\* Each measure has a limit of its own in site.yml, and is called after it here.
LimitKey(name) == IF name \in Measures THEN name ELSE NoKey

Limits == [Measures -> 1..MaxReading]

\* The packaged objectives, with the thresholds slo.yml gives two of them.  Each
\* is named by its signal; run_completed is the monitor's.
Objective(signal, threshold) == [signal |-> signal, threshold |-> threshold]

\* Any of them, with any thresholds.
SloFiles ==
    (UNION {SUBSET {Objective("is_checkout_up", NoKey), Objective("canary_ok", NoKey),
                    Objective("web_response_time", w), Objective("app_response_time", a),
                    Objective("run_completed", NoKey)} : w, a \in 1..MaxReading}) \ {{}}

-----------------------------------------------------------------------------
(* The gate's side.                                                        *)

\* The is_failing of SIGNALS, on a value that was collected.
IsFailing(name, value, limit) ==
    IF name \in Booleans THEN value = FALSE ELSE value >= limit[name]

\* A signal that was not collected fails under a name of its own.
FailingSignals(data, limit) ==
    {<<name, "uncollected">> : name \in {n \in SIGNALS : data[n] = None}}
        \cup
    {<<name, "bad">> : name \in {n \in SIGNALS : data[n] # None /\ IsFailing(n, data[n], limit)}}

\* Mutant of DescribeFailing: the name of a signal that was not collected is not
\* one of the table's.
DescribeFailingKnown(names, data, limit) ==
    {[signal |-> n[1], value |-> data[n[1]],
      limit |-> IF LimitKey(n[1]) = NoKey THEN NoKey ELSE limit[n[1]]]
         : n \in {known \in names : known[2] # "uncollected"}}

\* One line per failing signal: its value and limit, or that there was none.
DescribeFailing(names, data, limit) ==
    {[signal |-> n[1],
      value |-> IF n[2] = "uncollected" THEN None ELSE data[n[1]],
      limit |-> IF LimitKey(n[1]) = NoKey THEN NoKey ELSE limit[n[1]]] : n \in names}

-----------------------------------------------------------------------------
(* The objectives' side.                                                   *)

\* `slos or load_slos()`: a list without elements is no list.
Given(slos, loaded) == IF slos = {} THEN loaded ELSE slos

IsGood(slo, data, completed) ==
    IF slo.signal = "run_completed" THEN completed
    ELSE IF slo.signal \notin DOMAIN data \/ data[slo.signal] = None THEN FALSE
    ELSE IF slo.threshold = NoKey THEN data[slo.signal] = TRUE
    ELSE data[slo.signal] < slo.threshold

EvaluateRun(data, completed, slos, loaded) ==
    {[slo |-> slo, good |-> IsGood(slo, data, completed)] : slo \in Given(slos, loaded)}

\* Mutant of ReportThresholdDrift: only a limit the objective never reaches.
ReportThresholdDriftOneWay(limit, slos) ==
    {slo \in slos : slo.signal \in Measures /\ limit[slo.signal] > slo.threshold}

\* Every objective whose threshold is not the limit of the signal it shares.
ReportThresholdDrift(limit, slos) ==
    {slo \in slos : slo.signal \in Measures /\ limit[slo.signal] # slo.threshold}

SITE_SIGNALS == {"is_checkout_up", "canary_ok", "run_completed"}

\* Mutant of SiteSlos: the signals of the readings, without the run's own.
SiteSlosOfReadings(slos) == {slo \in slos : slo.signal \in Booleans}

SiteSlos(slos) == {slo \in slos : slo.signal \in SITE_SIGNALS}

-----------------------------------------------------------------------------
SignalInit ==
    /\ ran = "nothing"
    /\ readings = None
    /\ limits = None
    /\ objectives = {}
    /\ failing = {}
    /\ lines = {}
    /\ verdicts = {}
    /\ drifts = {}
    /\ truth = None

\* What a run that raised leaves: a bad event for the monitor.
Crash ==
    /\ ran' = "crashed"
    /\ verdicts' = {[slo |-> Objective("run_completed", NoKey), good |-> FALSE]}
    /\ UNCHANGED <<readings, limits, objectives, failing, lines, drifts, truth>>

\* get_message_data of healthbot.main.
MeasureFull(w) ==
    /\ ran = "nothing"
    /\ IF MeasuringRaises(w)
       THEN Crash
       ELSE /\ ran' = "full measured"
            /\ readings' = GetMessageData(w)
            /\ truth' = Truth(w)
            /\ UNCHANGED judgement

\* run_checks of site_run.main: the checkout and the canaries alone.
MeasureSite(w) ==
    /\ ran = "nothing"
    /\ IF SweepRaises(w)
       THEN Crash
       ELSE /\ ran' = "site measured"
            /\ readings' = RunChecks(w)
            /\ truth' = Truth(w)
            /\ UNCHANGED judgement

\* healthbot.main, up to the question to the gate.  Its two files are whatever
\* they are; nothing before this depends on them.
JudgeFull(limit, slos) ==
    /\ ran = "full measured"
    /\ ran' = "full"
    /\ limits' = limit
    /\ objectives' = slos
    /\ drifts' = ReportThresholdDrift(limit, slos)
    /\ verdicts' = EvaluateRun(readings, TRUE, {}, slos)
    /\ failing' = FailingSignals(readings, limit)
    /\ lines' = DescribeFailing(failing', readings, limit)
    /\ UNCHANGED <<readings, truth>>

JudgeSite(slos) ==
    /\ ran = "site measured"
    /\ ran' = "site"
    /\ objectives' = slos
    /\ verdicts' = EvaluateRun(readings, TRUE, SiteSlos(slos), slos)
    /\ UNCHANGED <<readings, limits, failing, lines, drifts, truth>>

\* A oneshot keeps nothing.
Forget ==
    /\ ran \in {"full", "site", "crashed"}
    /\ ran' = "nothing"
    /\ readings' = None
    /\ limits' = None
    /\ objectives' = {}
    /\ failing' = {}
    /\ lines' = {}
    /\ verdicts' = {}
    /\ drifts' = {}
    /\ truth' = None

SignalNext ==
    \/ /\ ran = "nothing"
       /\ \E w \in Worlds : MeasureFull(w) \/ MeasureSite(w)
    \/ /\ ran = "full measured"
       /\ \E slos \in SloFiles, limit \in Limits : JudgeFull(limit, slos)
    \/ /\ ran = "site measured"
       /\ \E slos \in SloFiles : JudgeSite(slos)
    \/ Forget

SignalSpec == SignalInit /\ [][SignalNext]_svars

-----------------------------------------------------------------------------
(* Properties.                                                             *)

Pages(name) == <<name, "bad">> \in failing \/ <<name, "uncollected">> \in failing

\* The gate and the objectives never disagree unseen (slo.py:32-40, "If they
\* drift apart, that drift is a decision to surface"): when a run pages on a
\* signal whose objective it counts as good, or stays quiet about one it counts
\* as bad, it reports that objective as drifted.
DisagreementIsReported ==
    ran = "full" =>
        \A v \in verdicts :
            v.slo.signal \in SIGNALS /\ Pages(v.slo.signal) = v.good
                => v.slo \in drifts

\* "A signal that couldn't be collected triggers the alert rather than passing
\* silently" (README.md:31), and an outage of one source "costs this one metric
\* instead of the whole run" (checks/ga.py:56-59): a run that was not taken down
\* pages on exactly what was bad or could not be told, and on nothing else.
PagesAreTrue ==
    ran = "full" =>
        \A name \in SIGNALS :
            Pages(name) <=> truth[name] = None \/ IsFailing(name, truth[name], limits)

\* Every page has its reason (alerting.py:122-129; healthbot.py:156-170): there
\* is one line for each signal a run pages on, with its value, or with none for
\* a measure nobody could take.
PageHasItsReasons ==
    ran = "full" =>
        \A name \in SIGNALS :
            Pages(name) <=>
                \E l \in lines :
                    /\ l.signal = name
                    /\ name \in Measures => l.value = truth[name]

\* The site run "emits the same telemetry as the full run for the SLIs it can
\* judge" (site_run.py:7): on the same readings, where slo.yml has such an SLI,
\* its events are those of the full run on them.
SameVerdicts ==
    ran = "site" /\ SiteSlos(objectives) # {}
        => verdicts = {[slo |-> slo, good |-> IsGood(slo, readings, TRUE)] :
                          slo \in {s \in objectives : s.signal \notin Measures}}
=============================================================================

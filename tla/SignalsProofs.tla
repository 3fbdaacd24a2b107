---------------------------- MODULE SignalsProofs ----------------------------
(***************************************************************************)
(* Theorems about SiteSignals, for every range of readings, length of a    *)
(* sweep, file of limits and file of objectives.  The judgement of a run   *)
(* follows from what it measured, so the invariant says what that was; the *)
(* work is in comparing the gate's judgement with the objectives', and     *)
(* both with what was the case.                                            *)
(***************************************************************************)
EXTENDS SiteSignals, TLAPS

SITE_OBJECTIVES == {Objective(name, NoKey) : name \in SITE_SIGNALS}

MEASURED_OBJECTIVES ==
    {Objective(name, t) : name \in {"web_response_time", "app_response_time"}, t \in 1..MaxReading}

\* The objectives a file may hold.
LEMMA ObjectivesOfAFile ==
    ASSUME NEW slos \in SloFiles, NEW slo \in slos
    PROVE  slo \in SITE_OBJECTIVES \cup MEASURED_OBJECTIVES
<1>1. PICK w \in 1..MaxReading, a \in 1..MaxReading :
          slos \subseteq {Objective("is_checkout_up", NoKey), Objective("canary_ok", NoKey),
                          Objective("web_response_time", w), Objective("app_response_time", a),
                          Objective("run_completed", NoKey)}
  BY DEF SloFiles
<1>2. QED
  BY <1>1 DEF SITE_OBJECTIVES, MEASURED_OBJECTIVES, SITE_SIGNALS

LEMMA FilesHaveObjectives == ASSUME NEW slos \in SloFiles PROVE slos # {}
BY DEF SloFiles

-----------------------------------------------------------------------------
(* What a run can have measured.                                           *)

FullReadings == {GetMessageData(w) : w \in Worlds}

\* The sweep is good when all of it answered 200, and a sweep without URLs was
\* never measured.
LEMMA CanaryIsTrue ==
    ASSUME NEW w \in Worlds, ~SweepRaises(w)
    PROVE  CheckCanaryUrls(w.sweep) = \A i \in DOMAIN w.sweep : w.sweep[i] = "200"
<1>1. PICK n \in 1..MaxUrls : w.sweep \in [1..n -> Responses]
  BY DEF Worlds, SweepRaises
<1> DEFINE statuses == [i \in DOMAIN w.sweep |-> CheckUrl(w.sweep[i])]
<1>2. 1 \in DOMAIN statuses /\ DOMAIN statuses = DOMAIN w.sweep
  BY <1>1, CheckAssumption
<1>3. statuses # <<>>
  <2>1. DOMAIN <<>> = {}
    OBVIOUS
  <2>2. QED
    BY <1>2, <2>1
<1>4. \A i \in DOMAIN w.sweep : statuses[i] = "200" <=> w.sweep[i] = "200"
  BY <1>1 DEF CheckUrl, UNREACHABLE, Responses
<1>5. CheckCanaryUrls(w.sweep) = \A i \in DOMAIN w.sweep : statuses[i] = "200"
  BY <1>2, <1>3 DEF CheckCanaryUrls, AllOk
<1>6. QED
  BY <1>4, <1>5
LEMMA ToldIsAReading ==
    ASSUME NEW words, "value" \notin words, NEW answer \in Says(words), answer.says = "value"
    PROVE  answer.n \in 0..MaxReading
<1>1. CASE \E v \in 0..MaxReading : answer = [says |-> "value", n |-> v]
  BY <1>1
<1>2. CASE \E word \in words : answer = [says |-> word, n |-> 0]
  BY <1>2
<1>3. QED
  BY <1>1, <1>2 DEF Says

\* A measure is read as it is, or not at all.
LEMMA MeasuresAreTrue ==
    ASSUME NEW w \in Worlds, ~MeasuringRaises(w), NEW name \in Measures
    PROVE  /\ GetMessageData(w)[name] = Truth(w)[name]
           /\ GetMessageData(w)[name] \in 0..MaxReading \cup {None}
<1>1. /\ w.app \in Summaries /\ w.web \in Summaries /\ w.analytics \in Reports
      /\ w.analytics.says # "no client"
  BY DEF Worlds, MeasuringRaises
<1>2. ASSUME NEW answer \in Summaries
      PROVE  SummaryValue(answer) \in 0..MaxReading \cup {None}
  <2>1. answer.says = "value" => answer.n \in 0..MaxReading
    BY ToldIsAReading DEF Summaries
  <2>2. QED
    BY <2>1 DEF SummaryValue
<1>3. CASE name = "app_response_time"
  BY <1>1, <1>2, <1>3 DEF GetMessageData, Truth, SummaryValue
<1>4. CASE name = "web_response_time"
  BY <1>1, <1>2, <1>4 DEF GetMessageData, Truth, SummaryValue
<1>5. CASE name = "ga_active_users"
  <2>1. GetActiveUsers(w.analytics) = IF w.analytics.says = "no rows" THEN 0
                                      ELSE IF w.analytics.says = "value" THEN w.analytics.n ELSE None
    BY DEF GetActiveUsers
  <2>2. w.analytics.says = "value" => w.analytics.n \in 0..MaxReading
    BY <1>1, ToldIsAReading DEF Reports
  <2>3. 0 \in 0..MaxReading
    BY CheckAssumption
  <2>4. GetActiveUsers(w.analytics) \in 0..MaxReading \cup {None}
    BY <2>1, <2>2, <2>3
  <2>5. QED
    BY <1>5, <2>1, <2>4 DEF GetMessageData, Truth
<1>6. QED
  BY <1>3, <1>4, <1>5 DEF Measures

\* A check of the site is good when what it looks at is, and bad when that is
\* bad or could not be looked at.
LEMMA BooleansAreTrue ==
    ASSUME NEW w \in Worlds, ~MeasuringRaises(w), NEW name \in Booleans
    PROVE  /\ GetMessageData(w)[name] \in BOOLEAN
           /\ (GetMessageData(w)[name] = None \/ GetMessageData(w)[name] = FALSE)
                  <=> (Truth(w)[name] = None \/ Truth(w)[name] = FALSE)
<1>1. CASE name = "canary_ok"
  <2>1. /\ GetMessageData(w)[name] = CheckCanaryUrls(w.sweep)
        /\ Truth(w)[name] = \A i \in DOMAIN w.sweep : w.sweep[i] = "200"
    BY <1>1 DEF GetMessageData, Truth
  <2>2. CheckCanaryUrls(w.sweep) = \A i \in DOMAIN w.sweep : w.sweep[i] = "200"
    BY CanaryIsTrue DEF MeasuringRaises
  <2>3. QED
    BY <2>1, <2>2
<1>2. CASE name = "is_checkout_up"
  <2>1. GetMessageData(w)[name] = (w.journey = "passes")
    BY <1>2 DEF GetMessageData, ValidateCheckout
  <2>2. Truth(w)[name] = CASE w.journey = "passes" -> TRUE
                           [] w.journey \in {"mismatch", "fails"} -> FALSE
                           [] OTHER -> None
    BY <1>2 DEF Truth
  <2>3. QED
    BY <2>1, <2>2
<1>3. QED
  BY <1>1, <1>2 DEF Booleans

-----------------------------------------------------------------------------
(* What a judged run is.                                                   *)

SignalInv ==
    /\ ran \in {"full measured", "full"} =>
           \E w \in Worlds :
               ~MeasuringRaises(w) /\ readings = GetMessageData(w) /\ truth = Truth(w)
    /\ ran = "full" =>
           /\ limits \in Limits
           /\ objectives \in SloFiles
           /\ drifts = ReportThresholdDrift(limits, objectives)
           /\ verdicts = EvaluateRun(readings, TRUE, {}, objectives)
           /\ failing = FailingSignals(readings, limits)
           /\ lines = DescribeFailing(failing, readings, limits)
    /\ ran = "site" =>
           /\ objectives \in SloFiles
           /\ verdicts = EvaluateRun(readings, TRUE, SiteSlos(objectives), objectives)

LEMMA SignalStep ==
    ASSUME SignalInv, [SignalNext]_svars
    PROVE  SignalInv'
<1>1. ASSUME NEW w \in Worlds, MeasureFull(w) \/ MeasureSite(w)
      PROVE  SignalInv'
  BY <1>1 DEF MeasureFull, MeasureSite, Crash, SignalInv
<1>2. ASSUME NEW slos \in SloFiles, NEW limit \in Limits, JudgeFull(limit, slos)
      PROVE  SignalInv'
  BY <1>2 DEF JudgeFull, SignalInv
<1>3. ASSUME NEW slos \in SloFiles, JudgeSite(slos)
      PROVE  SignalInv'
  BY <1>3 DEF JudgeSite, SignalInv
<1>4. CASE Forget
  BY <1>4 DEF Forget, SignalInv
<1>5. CASE UNCHANGED svars
  BY <1>5 DEF svars, judgement, SignalInv
<1>6. QED
  BY <1>1, <1>2, <1>3, <1>4, <1>5 DEF SignalNext

LEMMA SignalInvariant == SignalSpec => []SignalInv
<1>1. SignalInit => SignalInv
  BY DEF SignalInit, SignalInv
<1>2. SignalInv /\ [SignalNext]_svars => SignalInv'
  BY SignalStep
<1>3. QED
  BY <1>1, <1>2, PTL DEF SignalSpec

\* A run pages on a signal that is bad and on one that was not collected.
LEMMA PagesOf ==
    ASSUME SignalInv, ran = "full", NEW name \in SIGNALS
    PROVE  Pages(name) <=> readings[name] = None \/ IsFailing(name, readings[name], limits)
BY DEF SignalInv, FailingSignals, Pages
-----------------------------------------------------------------------------
(* The theorems.                                                           *)

\* A run that was not taken down pages on exactly the signals that were bad or
\* that could not be told (README.md:31; checks/ga.py:56-59), whatever the
\* checks met and whatever the limits are.
THEOREM EveryPageIsTrue == SignalSpec => []PagesAreTrue
<1>1. ASSUME SignalInv, ran = "full", NEW name \in SIGNALS
      PROVE  Pages(name) <=> truth[name] = None \/ IsFailing(name, truth[name], limits)
  <2>1. PICK w \in Worlds :
            ~MeasuringRaises(w) /\ readings = GetMessageData(w) /\ truth = Truth(w)
    BY <1>1 DEF SignalInv
  <2>2. Pages(name) <=> readings[name] = None \/ IsFailing(name, readings[name], limits)
    BY <1>1, PagesOf
  <2>3. CASE name \in Measures
    <3>1. readings[name] = truth[name]
      BY <2>1, <2>3, MeasuresAreTrue
    <3>2. QED
      BY <2>2, <3>1
  <2>4. CASE name \in Booleans
    <3>1. (readings[name] = None \/ readings[name] = FALSE)
              <=> (truth[name] = None \/ truth[name] = FALSE)
      BY <2>1, <2>4, BooleansAreTrue
    <3>2. QED
      BY <2>2, <2>4, <3>1 DEF IsFailing
  <2>5. QED
    BY <2>3, <2>4 DEF SIGNALS
<1>2. SignalInv => PagesAreTrue
  BY <1>1 DEF PagesAreTrue
<1>3. QED
  BY <1>2, SignalInvariant, PTL

\* A signal is in the message once for each name it fails under.
LEMMA LinesOf ==
    ASSUME SignalInv, ran = "full", NEW name \in SIGNALS
    PROVE  /\ \A l \in lines : l.signal = name => Pages(name)
           /\ Pages(name) =>
                  \E l \in lines : l.signal = name /\ l.value = readings[name]
<1>1. /\ failing = FailingSignals(readings, limits)
      /\ lines = DescribeFailing(failing, readings, limits)
  BY DEF SignalInv
<1>2. ASSUME NEW l \in lines, l.signal = name
      PROVE  Pages(name)
  <2>1. PICK n \in failing : l.signal = n[1]
    BY <1>1 DEF DescribeFailing
  <2>2. n = <<n[1], "bad">> \/ n = <<n[1], "uncollected">>
    BY <1>1 DEF FailingSignals
  <2>3. QED
    BY <1>2, <2>1, <2>2 DEF Pages
<1>3. ASSUME Pages(name)
      PROVE  \E l \in lines : l.signal = name /\ l.value = readings[name]
  <2>1. PICK how \in {"bad", "uncollected"} : <<name, how>> \in failing
    BY <1>3 DEF Pages
  <2>2. how = "uncollected" => readings[name] = None
    BY <1>1, <2>1 DEF FailingSignals
  <2> DEFINE n == <<name, how>>
             l == [signal |-> n[1],
                   value |-> IF n[2] = "uncollected" THEN None ELSE readings[n[1]],
                   limit |-> IF LimitKey(n[1]) = NoKey THEN NoKey ELSE limits[n[1]]]
  <2>3. l \in lines
    BY <1>1, <2>1 DEF DescribeFailing
  <2>4. l.signal = name /\ l.value = readings[name]
    BY <2>2
  <2>5. QED
    BY <2>3, <2>4
<1>4. QED
  BY <1>2, <1>3

\* There is one line at least for each signal a run pages on, none for the
\* others, and the line of a measure has its value (alerting.py:122-129).
THEOREM EveryPageHasItsReasons == SignalSpec => []PageHasItsReasons
<1>1. ASSUME SignalInv, ran = "full", NEW name \in SIGNALS
      PROVE  Pages(name) <=>
                 \E l \in lines : l.signal = name /\ (name \in Measures => l.value = truth[name])
  <2>1. name \in Measures => readings[name] = truth[name]
    BY <1>1, MeasuresAreTrue DEF SignalInv
  <2>2. QED
    BY <1>1, <2>1, LinesOf
<1>2. SignalInv => PageHasItsReasons
  BY <1>1 DEF PageHasItsReasons
<1>3. QED
  BY <1>2, SignalInvariant, PTL

\* A run's verdicts are the judgements of its objectives, one each.
LEMMA VerdictsOf ==
    ASSUME SignalInv, ran = "full", NEW v \in verdicts
    PROVE  /\ v.slo \in objectives
           /\ v.good = IsGood(v.slo, readings, TRUE)
<1>1. verdicts = {[slo |-> slo, good |-> IsGood(slo, readings, TRUE)] : slo \in objectives}
  BY DEF SignalInv, EvaluateRun, Given
<1>2. PICK slo \in objectives : v = [slo |-> slo, good |-> IsGood(slo, readings, TRUE)]
  BY <1>1
<1>3. v.slo = slo
  BY <1>2
<1>4. v.good = IsGood(slo, readings, TRUE)
  BY <1>2
<1>5. QED
  BY <1>3, <1>4

\* A site objective is good when its signal does not page.
LEMMA SiteObjectivesAgree ==
    ASSUME SignalInv, ran = "full", NEW name \in Booleans
    PROVE  Pages(name) <=> ~IsGood(Objective(name, NoKey), readings, TRUE)
<1>1. PICK w \in Worlds : ~MeasuringRaises(w) /\ readings = GetMessageData(w)
  BY DEF SignalInv
<1>2. readings[name] \in BOOLEAN
  BY <1>1, BooleansAreTrue
<1>3. name \in DOMAIN readings
  BY <1>1 DEF GetMessageData, Booleans
<1>4. Pages(name) <=> readings[name] = None \/ readings[name] = FALSE
  BY PagesOf DEF SIGNALS, IsFailing
<1>5. IsGood(Objective(name, NoKey), readings, TRUE)
          <=> ~(readings[name] = None) /\ readings[name] = TRUE
  BY <1>3 DEF IsGood, Objective, Booleans
<1>6. QED
  BY <1>2, <1>4, <1>5

\* A measured objective is good when its signal does not page, if its threshold
\* is that signal's limit.
LEMMA MeasuredObjectivesAgree ==
    ASSUME SignalInv, ran = "full", NEW name \in {"web_response_time", "app_response_time"},
           NEW t \in 1..MaxReading, limits[name] = t
    PROVE  Pages(name) <=> ~IsGood(Objective(name, t), readings, TRUE)
<1>1. PICK w \in Worlds : ~MeasuringRaises(w) /\ readings = GetMessageData(w)
  BY DEF SignalInv
<1>2. name \in Measures /\ name \notin Booleans
  BY DEF Measures, Booleans
<1>3. readings[name] \in 0..MaxReading \cup {None}
  BY <1>1, <1>2, MeasuresAreTrue
<1>4. name \in DOMAIN readings
  BY <1>1 DEF GetMessageData
<1>5. Pages(name) <=> readings[name] = None \/ readings[name] >= t
  BY <1>2, PagesOf DEF SIGNALS, IsFailing
<1>6. t # NoKey
  BY SignalAssumption
<1>7. IsGood(Objective(name, t), readings, TRUE)
          <=> ~(readings[name] = None) /\ readings[name] < t
  BY <1>4, <1>6 DEF IsGood, Objective
<1>8. readings[name] # None => (readings[name] >= t <=> ~(readings[name] < t))
  <2>1. CASE readings[name] \in 0..MaxReading
    BY <2>1
  <2>2. QED
    BY <1>3, <2>1
<1>9. QED
  BY <1>5, <1>7, <1>8

\* A run that pages on a signal whose objective it counts as good, or stays
\* quiet about one it counts as bad, reports that objective as drifted
\* (slo.py:32-40), for every pair of files in Limits and SloFiles.
THEOREM DriftIsReported == SignalSpec => []DisagreementIsReported
<1>1. ASSUME SignalInv, ran = "full", NEW v \in verdicts,
             v.slo.signal \in SIGNALS, Pages(v.slo.signal) = v.good
      PROVE  v.slo \in drifts
  <2>1. /\ v.slo \in objectives /\ objectives \in SloFiles
        /\ v.good = IsGood(v.slo, readings, TRUE)
    BY <1>1, VerdictsOf DEF SignalInv
  <2>2. v.slo \in SITE_OBJECTIVES \cup MEASURED_OBJECTIVES
    BY <2>1, ObjectivesOfAFile
  <2>3. CASE v.slo \in SITE_OBJECTIVES
    <3>1. PICK name \in SITE_SIGNALS : v.slo = Objective(name, NoKey)
      BY <2>3 DEF SITE_OBJECTIVES
    <3>2. v.slo.signal = name /\ name \in Booleans
      BY <1>1, <3>1 DEF Objective, SITE_SIGNALS, SIGNALS, Booleans, Measures
    <3>3. Pages(name) <=> ~IsGood(v.slo, readings, TRUE)
      BY <1>1, <3>1, <3>2, SiteObjectivesAgree
    <3>4. QED
      BY <1>1, <2>1, <3>2, <3>3
  <2>4. CASE v.slo \in MEASURED_OBJECTIVES
    <3>1. PICK name \in {"web_response_time", "app_response_time"}, t \in 1..MaxReading :
              v.slo = Objective(name, t)
      BY <2>4 DEF MEASURED_OBJECTIVES
    <3>2. v.slo.signal = name /\ v.slo.threshold = t
      BY <3>1 DEF Objective
    <3>3. CASE limits[name] = t
      <4>1. Pages(name) <=> ~IsGood(v.slo, readings, TRUE)
        BY <1>1, <3>1, <3>3, MeasuredObjectivesAgree
      <4>2. QED
        BY <1>1, <2>1, <3>2, <4>1
    <3>4. CASE limits[name] # t
      BY <1>1, <2>1, <3>2, <3>4 DEF SignalInv, ReportThresholdDrift, Measures
    <3>5. QED
      BY <3>3, <3>4
  <2>5. QED
    BY <2>2, <2>3, <2>4
<1>2. SignalInv => DisagreementIsReported
  BY <1>1 DEF DisagreementIsReported
<1>3. QED
  BY <1>2, SignalInvariant, PTL

\* The site run's events are those of the full run on the same readings, for
\* every file in SloFiles with an objective the site run can judge (site_run.py:7).
THEOREM SiteRunAgrees == SignalSpec => []SameVerdicts
<1>1. ASSUME SignalInv, ran = "site", SiteSlos(objectives) # {}
      PROVE  verdicts = {[slo |-> slo, good |-> IsGood(slo, readings, TRUE)] :
                            slo \in {s \in objectives : s.signal \notin Measures}}
  <2>1. objectives \in SloFiles
    BY <1>1 DEF SignalInv
  <2>2. ASSUME NEW slo \in objectives
        PROVE  slo.signal \in SITE_SIGNALS <=> slo.signal \notin Measures
    <3>1. slo \in SITE_OBJECTIVES \cup MEASURED_OBJECTIVES
      BY <2>1, ObjectivesOfAFile
    <3>2. QED
      BY <3>1 DEF SITE_OBJECTIVES, MEASURED_OBJECTIVES, Objective, SITE_SIGNALS, Measures
  <2>3. SiteSlos(objectives) = {s \in objectives : s.signal \notin Measures}
    BY <2>2 DEF SiteSlos
  <2>4. verdicts = {[slo |-> slo, good |-> IsGood(slo, readings, TRUE)] : slo \in SiteSlos(objectives)}
    BY <1>1 DEF SignalInv, EvaluateRun, Given
  <2>5. QED
    BY <2>3, <2>4
<1>2. SignalInv => SameVerdicts
  BY <1>1 DEF SameVerdicts
<1>3. QED
  BY <1>2, SignalInvariant, PTL
=============================================================================

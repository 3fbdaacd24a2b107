------------------------------- MODULE Checks -------------------------------
(***************************************************************************)
(* What the checks of src/healthbot/checks make of what they meet: a       *)
(* browser journey, a sweep of URLs, two summaries of New Relic, a report  *)
(* of Google Analytics, CloudWatch.  Some answers are readings, some are   *)
(* the lack of one, and some take the run with them.                       *)
(***************************************************************************)
EXTENDS Integers, Sequences

CONSTANTS
    MaxReading,     \* readings are in 0..MaxReading
    MaxUrls,        \* bound on the URLs of a sweep
    None            \* no reading; also a site.yml without canary_urls

ASSUME CheckAssumption == MaxReading \in Nat \ {0} /\ MaxUrls \in Nat \ {0}

-----------------------------------------------------------------------------
(* What a run can meet.                                                    *)

\* The journey reaches the checkout page, reaches another one, or fails at a
\* step; or the browser does not launch, or does not close after a good one.
Journeys == {"passes", "mismatch", "fails", "no browser", "stuck"}

\* A URL of the sweep answers with a status, or with nothing in time, or its
\* request raises what check_url does not catch.
Responses == {"200", "503", "no response", "raises"}

\* What a service says, and the number in it when it says a value.
Says(words) == {[says |-> "value", n |-> v] : v \in 0..MaxReading}
                   \cup {[says |-> word, n |-> 0] : word \in words}

\* The lookup raises, or finds the application without that summary.  What New
\* Relic gives is a number: one that is not would end the run at its judgement.
Summaries == Says({"raises", "no data"})

\* Without a client there is nothing to ask; then there are as many ways not to
\* be told.
Reports == Says({"no client", "no property", "raises", "not a report", "no rows",
                 "no values", "not a number"})

Worlds ==
    [journey : Journeys,
     sweep : {None} \cup UNION {[1..n -> Responses] : n \in 1..MaxUrls},
     app : Summaries,
     web : Summaries,
     analytics : Reports,
     cloudwatch : {"answers", "raises"}]

-----------------------------------------------------------------------------
(* The checks.                                                             *)

\* A browser that can't run the journey reports the checkout as down, and so
\* does one that can't be closed: that raises over the answer.
ValidateCheckout(journey) == journey = "passes"

\* A request without a response folds into the sweep as UNREACHABLE.
UNREACHABLE == "0"
CheckUrl(response) == IF response = "no response" THEN UNREACHABLE ELSE response

AllOk(statuses) == statuses # <<>> /\ \A i \in DOMAIN statuses : statuses[i] = "200"

CheckCanaryUrls(sweep) == AllOk([i \in DOMAIN sweep |-> CheckUrl(sweep[i])])

\* Mutant of SummaryValue: a lookup that raises is a site that takes no time.
SummaryValueOrZero(summary) == IF summary.says = "no data" THEN None ELSE summary.n

\* get_newrelic_status: each summary is looked up by itself, and one that is
\* missing leaves its keys out.
SummaryValue(summary) == IF summary.says = "value" THEN summary.n ELSE None

\* read_active_users: no rows are nobody on the site, unless nothing else says
\* that this is a realtime report.
GetActiveUsers(report) ==
    CASE report.says = "value" -> report.n
      [] report.says = "no rows" -> 0
      [] OTHER -> None

\* Nothing is caught around CloudWatch, the making of the client of Google, or
\* a sweep: one without URLs, or with a request that raises.
SweepRaises(w) == w.sweep = None \/ \E i \in DOMAIN w.sweep : w.sweep[i] = "raises"
MeasuringRaises(w) ==
    \/ w.cloudwatch = "raises"
    \/ w.analytics.says = "no client"
    \/ SweepRaises(w)

\* Of the full run.
GetMessageData(w) ==
    [is_checkout_up |-> ValidateCheckout(w.journey),
     canary_ok |-> CheckCanaryUrls(w.sweep),
     ga_active_users |-> GetActiveUsers(w.analytics),
     app_response_time |-> SummaryValue(w.app),
     web_response_time |-> SummaryValue(w.web)]

\* Of the site run.
RunChecks(w) ==
    [is_checkout_up |-> ValidateCheckout(w.journey),
     canary_ok |-> CheckCanaryUrls(w.sweep)]

-----------------------------------------------------------------------------
\* What is the case for each signal, whatever the checks make of it: None where
\* its source gave no answer.
Truth(w) ==
    LET Told(answer) == IF answer.says = "value" THEN answer.n ELSE None
    IN  [is_checkout_up |-> CASE w.journey = "passes" -> TRUE
                              [] w.journey \in {"mismatch", "fails"} -> FALSE
                              [] OTHER -> None,
         canary_ok |-> \A i \in DOMAIN w.sweep : w.sweep[i] = "200",
         ga_active_users |-> IF w.analytics.says = "no rows" THEN 0 ELSE Told(w.analytics),
         app_response_time |-> Told(w.app),
         web_response_time |-> Told(w.web)]
=============================================================================

# HealthBot, specified

TLA+ specifications of [healthbot](../src/README.md), a five-minute timer job
that measures a shop, pages people about it and leaves the evidence behind.
TLC checks them on small instances, and TLAPS proves every safety property
the passing runs check, for every instance that meets the assumptions section 5
names. All source paths below are under `src/healthbot/` unless they say otherwise.

    tlc -workers 2 -config GateOverlap.cfg MCAlertGate     # one run
    tlc -workers 2 -config Relay.cfg StubRelay             # a run with no MC module
    tlapm AlertGateProofs.tla                              # the proofs

`PROJECT.json` ties every definition to the lines it models, every run to what
it checks, and every property to a mutation of the code that breaks it.

## 1. The system

### Components, state, operations

| Component | State it keeps | Operations | Status |
|---|---|---|---|
| Alert gate (`alerting.py`, `cache.py`) | one Redis key: condition, `sent_at`, `raised_at`, `repeats`, `clean_runs`, under a 7 day expiry | `read_state`, `should_notify`, `clear`, `record` | modelled, proved |
| Alert history (`alert_history.py`) | a file of JSON lines | `append`, `load`, `summarise` | modelled (report wording left out), proved |
| HealthBot run (`healthbot.py`) | a process: what it found, recorded, was answered, still has to call | `main`: prepare, measure, record, ask, send, flush | modelled (which check raises is one choice), proved |
| Channels (`notifications/{manager,slack,sns,twilio}.py`) | none | `send_notifications`, `send` | outcome only: takes, refuses, raises |
| Alertmanager bridge (`notifications/alertmanager_bridge.py`) | the socket's backlog, the request in hand | `do_POST`, `read_slack_credentials` | modelled, proved |
| Signals and objectives (`alerting.py`, `slo.py`, `config/slo.yml`) | none | `failing_signals`, `describe_failing`, `evaluate_run`, `report_threshold_drift` | modelled, proved |
| Site run (`site_run.py`) | none | `main`, `site_slos` | what it judges, proved |
| Configuration cache (`config_files.py`, `cache.py`) | a Redis copy of each file, under an expiry | `resolve_config_file`, `get_config`, `check_site_config` | modelled, proved |
| Deploy jobs (`deploys.py`) | mdp's ledger, Grafana's annotations, the DORA journal | `read_ledger`, `annotate`, `record_dora`, `back_to_normal` | modelled (malformed lines left out), proved |
| DORA journal and metrics (`dora.py`) | the journal | `record_event`, `load_events`, `compute_metrics` | modelled (lead time and the environment filter left out), proved |
| Scoreboard (`scoreboard.py`) | weekly files in a git repository | `gather`, `snapshot`: write, add, diff, commit | modelled, proved |
| Parameter Store, secrets (`aws/*.py`) | a Redis copy of each parameter | `get_parameter`; the secret is read afresh | modelled (the client's setup left out), proved |
| Instance list (`checks/aws.py`) | a Redis copy of the list, under one key | `get_metric_data`, `get_ec2_instances`, the seed's `drop_ec2_metrics_cache` | modelled (metric values left out), proved |
| Checks (`checks/*.py`) | none | `validate_checkout`, `check_canary_urls`, `get_new_relic_data`, `get_active_users` | what each makes of its source's answer |
| Dead man's switch (`telemetry.py`, `src/IT/observability/`, the timer) | the heartbeat's series, the pending and firing alert | the timer, `run_span`, the collector's expiry, `HealthBotSilent` | modelled, proved |
| Slack shim (`src/IT/local/stubs/app.py`) | the dict `MATTERMOST`, one coroutine per request and the bootstrap loop | `slack_post_message`, `post_to_mattermost`, `bootstrap_mattermost` | modelled, proved |
| Burn-rate rules, logs, settings, other stubs, demo, provisioning, dashboards | | | not modelled, see section 7 |

### How they interact

A systemd timer starts `main` every five minutes; a person can start a second
one by hand. Runs share nothing but Redis (the gate's state in db 2, copied
configuration in db 0) and the history file, and none of them takes a lock.
`main` calls the checks, then the SLO evaluation, then the gate, then each
channel, and exports its telemetry in a `finally`. The bridge is a second,
long-lived process: Alertmanager posts to it and it posts to Slack through the
same `SlackNotifier` a run uses. `healthbot-deploys` jobs read mdp's ledger
and write to Grafana and the journal, from which `healthbot-dora export`
computes its figures. `healthbot-scoreboard` commits a week of Grafana's data
to a git checkout. The heartbeat a run exports is held by the collector,
scraped by Prometheus and watched by one rule. On a developer's machine the
stubs stand in for Slack and relay its messages into a Mattermost they have to
set up first.

### What is hard

* **Interleaving.** Two runs read and write the gate's state with no
  compare-and-set, and Redis may expire the key between the two.
* **Partial failure.** `Cache` swallows every Redis error, so a read that
  fails looks like no state and a write that fails looks like one that worked.
  Channels are called one after another with nothing caught around them.
* **Order.** The gate records that it spoke before anyone is told, and the SLO
  events are recorded before the steps that may still crash the run.
* **Crashes.** A kill (`TimeoutStartSec`) falls between any two of these.
* **Delivery.** Alertmanager times out and posts again; Grafana may take an
  annotation and lose its answer; a history line may be torn by a full disk.
* **Staleness.** A cached file outlives an edit; what an annotation says of a
  deploy is never corrected.
* **Coroutines.** Handlers and the bootstrap loop of the Slack shim share a dict
  and interleave at every `await`; either side may restart between two.
* **Stacked copies.** A list of instances is copied for an environment that was
  read from a copy, under a key that does not name it.
* **Silence as a signal.** The dead man's switch fires on an absence that a late
  timer, a long run, a lost export and a restarted collector also produce.
* **Boundaries.** The last step of the backoff, a reading exactly at its limit,
  a missing reading, an empty list of objectives.

## 2. The modules

| Module | Models | Composed of |
|---|---|---|
| `PagingPromise` | what the gate owes the person on call, and nothing about how | |
| `AlertGate` | `alerting.AlertGate` over `cache.Cache`: the steps of any number of runs | implements `PagingPromise` |
| `AlertGateProofs` | its theorems | `AlertGate` |
| `AlertHistory` | the history file and its report, written by those runs | `AlertGate` |
| `HistoryProofs` | its theorems | `AlertHistory`, `AlertGateProofs` |
| `HealthRun` | `healthbot.main` from start to exit, with the gate inside | `AlertGate` |
| `HealthRunProofs` | its theorems | `HealthRun`, `AlertGateProofs` |
| `AlertBridge` | the bridge, Alertmanager, Slack, the secret | |
| `BridgeProofs` | its theorems | `AlertBridge` |
| `DeployLedger` | `annotate` and `dora` jobs over the ledger | |
| `ConfigCache` | reads of site.yml through Redis | |
| `FleetCache` | the environment parameter and the instance list through Redis, and the seed | |
| `CopiesProofs` | their theorems | `ConfigCache`, `FleetCache` |
| `DoraJournal` | the journal, an export's window and its figures | |
| `Scoreboard` | weekly snapshots and their commits | |
| `ReportsProofs` | theorems about what is kept of the site | `Scoreboard`, `DeployLedger`, `DoraJournal` |
| `DeadMan` | timer, run, collector, absence rule | |
| `StubRelay` | the Slack shim, its bootstrap and Mattermost | |
| `SurroundingsProofs` | theorems about what stands around the monitor | `DeadMan`, `StubRelay` |
| `Checks` | what the checks make of everything their sources can answer | |
| `SiteSignals` | what a run measures, and its judgement of that | `Checks` |
| `SignalsProofs` | its theorems | `SiteSignals` |
| `MC*` | values for TLC | one each; `MCReadings` puts `ConfigCache`, `FleetCache` and `SiteSignals`, `MCReports` puts `DeployLedger`, `DoraJournal`, `Scoreboard` and `DeadMan` side by side |

### State and actions against the code

**AlertGate.** `store` and `expires` are the Redis key; `pc`, `failing`, `at`,
`seen`, `speak` and `event` are a run's locals in `should_notify`. A run is
four atomic steps, because between them other processes can act: `Begin` builds
the gate (`now` is fixed here, `alerting.py:170`), `ReadState` is the read of
Redis, `Decide` is everything from the branch to `write_state` (`Raise`,
`Hold`, `Repeat`; `StayQuiet`, `CountClean`, `Recover`), `Return` is the end of
`record`. `Tick` is the clock. A failing read returns nothing and a failing
write changes nothing, as in `Cache`. The set of failing signals is one opaque
value: the code compares the joined names and nothing else. Three history
variables (`decidedAt`, `lastBad`, `streak`) remember what the properties
speak about; no guard reads them.

**AlertHistory** adds the file. The line of a decision is written when the run
returns; it may be lost, or torn, and the line that lands on a torn one is
lost with it. A run killed before it returns has changed the state and written
no line. `Records` are the positions of the lines `load` keeps, `RecordsOf` those
of a month, and `Summary` is `summarise`: it counts a page for every event in
`PAGES`.

**HealthRun** wraps the gate in the phases of `main`; one action per phase,
because each is a call that can raise (`Breaks`) or be cut by a kill.
`CallChannel` is one call of `send_notifications`: taken, refused (Slack's
`SlackApiError`, which is swallowed), or raised, which skips the channels after
it. `Due` is the order a run calls them in, of which `ChannelsFor` says who
hears of what. `Unwind` is the exception handler of `main`; `Flush` is
`shutdown_telemetry`, after which the process is gone.

**AlertBridge.** `backlog` is the accept queue of the single-threaded
`HTTPServer`, `job` the request in hand, with the token once read. A response
only reaches a client that still waits. Alertmanager, the operator and Slack
are external and modelled by what the bridge's answers mean to them: a 2xx, and
nothing else, stops the retries.

**DeployLedger.** A job's `queue` is what it read once at its start and has
still to look at, taken in the order of the releases (`Oldest`);
`Ask`, `Weigh` and `Post` are the body of `annotate`'s loop, split at each
remote call. `Fail` ends a job at any call, and `Post` may take effect and then
fail. `BackToNormal` looks for the first time since which checkout `Holds`
(`HoldFrom`), over three kinds of sample, with a gap for a
sample that is missing or NaN. Releases are numbered in the order their deploys
start, which is the order `read_ledger` sorts them into.

**ConfigCache.** A run reads site.yml three times (`check_site_config`, the
thresholds, the address); each read is `Resolve`, `Get`, and on a miss `Open`
and `Set`. Edits, expiry and the other run fall in between.

**FleetCache.** A run is `GetParameter`, `AskParameterStore`, `SetParameter`,
then `GetList`, `AskEC2`, `SetList`; `told` and `listed` are its locals. A get
that Redis refuses is a miss and a set it refuses changes nothing. `Launch` and
`Drop` are the two steps of the seed that touch what a run reads. A list is
recorded with the environment it was found for, which the code's copy does not
carry: the properties need it, no guard reads it.

**DoraJournal.** `RecordEvent` appends a line; `CutShort` is an append that
ends half way, and what is written next spoils the line it lands on. `Raises`
and `LoadEvents` are `load_events`: a line that is no JSON, or a time without
an offset (`--at` takes any), ends the export. What is loaded is a set of lines
of the journal, and `ComputeMetrics` is of such a set. `Pairs` is
`compute_metrics`' loop over the incidents in order: `NotAfter` is the order of
its stable sort, `Left` what `resolves.remove` has left, `Pair` one turn of the
loop. The code keeps only how long each pair took, for their mean;
`TimesToRestore` also says of which pair. The loop is a recursive function of
the incidents so far, in place of a fold over a sorted sequence, so that it can
be reasoned about.

**Scoreboard.** `gather` is evaluated before `write_text` opens the file, so
`Gather`, `Open` and `Write` are three steps; `Add`, `Diff` and `Commit` are
the git commands. `Die` falls between any two. A run's content carries the time
it was taken, so a run stands for its content.

**DeadMan** is in minutes. `Elapse` is the timer, which may be late by `Delay`
and does not start a unit that is still running; `Report` is `run_span`'s
heartbeat, flushed; `LoseReport` is a kill or a lost export; `Evaluate` is the
rule, at least once a minute, with its `for`; the model ends with its firing,
because Alertmanager routes this alert to a null receiver (section 7). The collector drops a series one
`Expiration` after its last update, or when it restarts.

**StubRelay.** Each action of a coroutine is what happens between two awaits
that matter: `Login`, `SignUp`, `FindTeam`, `MakeTeam`, `FindHook`,
`MakeHook`, `Store`, then `PostWebhook` and `FallBack`. `Raise` is an exception
in any of them, with the call taken or not. The error answers are those that
Mattermost's state gives (no user yet, a team that is there, a token of a
Mattermost that was recreated), and refusals of a post. The calls for the user,
the membership and the channel are left out, and with them the dict's
`channel_id`. A handler that a restart of the stubs ends is "cut off", which is
not "answered".

**Checks** has one operator per check. A world says what every source
answers: a value, or one of the ways that source has of not giving one (New
Relic raises or has no summary; Google has no property, no client, no rows, no
number; a URL does not respond, or its request raises what `check_url` does not
catch; the browser does not launch). `GetMessageData`
and `RunChecks` are what the full run and the site run collect from it;
`MeasuringRaises` are the outages that nothing catches and that end the run.
`Truth` is what was the case, whatever the checks make of it.

**SiteSignals** judges what was measured. `MeasureFull` and `MeasureSite` meet
any world; `JudgeFull` evaluates the readings against any limits of site.yml and
any objectives of slo.yml, and `JudgeSite` does what the site run does with
them. The history variable `truth` is what pages are compared with.

## 3. The runs

| Run | Shows | Bounds | States |
|---|---|---|---|
| `gate_overlap` | two overlapping runs, every fault: every silence is covered, and the gate implements its promise | 2 conditions, backoff 0,1,2, clock 0..2 | 1.7 M |
| `history` | one run at a time, refused reads, kills: pacing, changes, recoveries; pages counted, books balanced, clear times true, damage contained | 2 conditions, 5 lines, 2 months of 2 ticks | 3.2 M |
| `run_whole` | two overlapping whole runs, kills anywhere, raising and refusing channels | 3 channels, 2 conditions, clock 0..1 | 3.0 M |
| `bridge` | safety and liveness of the bridge | 2 groups, 2 changes each, 2 hazards | 10 k |
| `relay` | one refusal loses nothing the shim acknowledges, it never mixes two bootstraps, and answers everything | 2 messages and the loop with 2 tries, 1 fault, 1 refusal, 1 recreated Mattermost | 339 k |
| `deploys_settle` | annotations say what later reads would; every deploy is recorded in the end | 1 release, every series of 5 samples, 1 fault | 230 k |
| `reports` | deploys recorded once by a job that dies in its queue; figures that hide nothing; snapshots that are what they say; a rule that fires for silence and for nothing else | 2 releases, 2 faults; 4 lines, times 0..3, 1 cut; 3 snapshots, 2 weeks; the repository's own minutes (5, 2, 5, 10, 10), clock 0..45, 3 losses | 2.8 M |
| `readings` | how stale a file, a parameter and a list can be, whole overrides, a reseed that is seen; pages against what was the case and against the objectives, reasons, full against site run | 2 runs, 2 paths, expiry 2, clock 0..4, 1 edit; 2 environments, 2 instances, expiry 1, clock 0..5, 1 change, a seed at 0 or 1; readings 0..2, sweeps of 1 or 2 URLs, 5 objectives, limits 1..2; 53 k worlds | 6.0 M |

`reports` and `readings` hold components that share no state: a variable
`part` chooses one and the others stutter, so the run is the disjoint union of
their state spaces and nothing is lost by not interleaving them.

Why the bounds are enough. Two overlapping runs are all a lost update needs,
and two conditions all a change needs; what a third run or condition could add
is covered by the theorems, which have no bounds. The backoff table saturates
at its last index; both gate runs use its shape, scaled, with the state
expiring on the way, because the real table (90 minutes) costs more than it
shows: nothing in the gate depends on the steps but through `DueIn`. In
`history` five lines hold raise, repeat, replacement, recovery and a new
incident. The bridge's two hazards let a retry race the request it repeats and
still leave one to spare; two changes are firing and resolved. In the relay two
handlers and the loop give every overlap of two bootstraps with a third that
fails, and each kind of fault can strike once between any two awaits. In
`deploys_settle` the window of three samples is longer than the two that make
"back to normal", so that it can be reached, missed and reached late. Four
journal lines hold two incidents with two resolves in any order, with the edge
of the window at every time. Three snapshots give a killed run, the one that
finds its leavings and one that overlaps. The dead man's clock covers two
expiries with a `for` each after a first loss. `ConfigCache`'s worst age needs
one edit and a run on each side of the copy; `FleetCache`'s needs the chain of
two copies, five minutes at an expiry of one. A reading of 0..2 can be below,
at and above a limit, and two limits can differ either way.

The other four runs find a statement of the repository violated by its code:

* `gate_write_refused`: "a change in *what* is wrong always speaks"
  (`alerting.py:17`), but a refused write leaves an older condition standing
  and a change back to it is silent.
* `run_crash_verdict`: "a crashed run says nothing about the site"
  (`healthbot.py:184-186`, and `src/README.md:31`), but the site's events are
  recorded before the gate and the channels, either of which can crash it.
* `bridge_refused`: a send that Slack refuses is answered 200, because
  `SlackNotifier.send` swallows the refusal, and Alertmanager does not retry.
* `relay_refused`: "surface the failure to the caller [...] which is more honest
  than a swallowed relay" (`src/IT/local/stubs/app.py:338-339`), but when the
  webhook does not answer 200 the shim posts as the admin user, does not look at
  that answer (466-473), and acknowledges. In the run Mattermost is recreated
  while a bootstrap holds its webhook, and both posts are refused.

## 4. Fairness

Three runs check liveness.

* `AlertBridge` (`FiringIsShown`): the handler always gets its turn
  (`serve_forever`, with a timeout on each call it makes), Alertmanager posts
  what is not acknowledged again, and the operator loads the secret in the
  end. Restarts, timeouts and raised sends need no fairness and are bounded by
  `MaxFailures`.
* `DeployLedger` (`EveryDeployIsRecorded`): a timer starts the jobs, each of
  their HTTP calls has a 30 s timeout, and time passes. Nothing makes mdp start
  or end a deploy, and calls fail at most `MaxFaults` times.

* `StubRelay` (`EveryMessageIsAnswered`): the event loop resumes every
  coroutine whose answer has come, a call nobody answers raises, and Mattermost
  comes up in the end. Outages, lost answers and restarts are bounded by
  `MaxFaults` and `MaxMattermosts`, and no fairness makes them happen.

Apart from these bounds on how often a fault strikes, no run assumes that a
message is delivered or a call succeeds.

## 5. The proofs

### The gate

`AlertGateProofs` proves, for every set of conditions and runs, every backoff
table, recovery count, expiry and clock, and every set of faults (unless it
says so):

| Theorem | Says |
|---|---|
| `TypeCorrect` | `Spec => []TypeOK` |
| `NoUncoveredSilence` | `Spec => []SilenceIsCovered` |
| `CopiesAreCovered` | `Spec => []EveryCopyIsCovered` |
| `GateImplementsPromise` | `Spec => PromiseKept`, the refinement of `PagingPromise` |
| `RecoveryNeedsCleanRuns` | `Faithful`: `Spec => []RecoveryIsEarned` |
| `ChangeAlwaysSpeaks` | `Faithful`: `Spec => ChangeSpeaks` |
| `RepeatsBackOff` | `Faithful`, `Rising`: `Spec => RepeatsArePaced` |

Assumptions: those of `AlertGate` (a clean run is no condition, the table's
last step is its longest, the counts are naturals). `Faithful` says that one
run is under way at a time and Redis refuses no write; without it
`ChangeSpeaks` is false, as `gate_write_refused` shows. `Rising` says that the
table has a second step and none after it is shorter, which holds of the code's
table (`alerting.py:42-45`).

**Coverage.** `SilenceIsCovered` is not inductive: whether a run may be silent
depends on the state it read, which another run may have written since. The
invariant is `CoverInv`: no copy of the state, in Redis or in a run's hands,
claims a message later than one that was decided on (`EveryCopyIsCovered`).
`decidedAt` only grows (`DecidedGrows`), so a covered copy stays covered
(`CoverageLasts`), whatever the interleaving; a decision writes a copy covered
by itself or by the one it read (`DecideCovers`); and a silent run is within
`DueIn =< MaxGap` of its copy's `sentAt` (`DueInBound`). A refused write leaves
a covered copy, so faults do not matter. The refinement uses the same
invariant for the guard of `StaySilent`; a read, a tick or a clean run stutters.

**Memory.** With `Faithful`, `MemoryInv` relates the state to the history: what
stands is the last failing condition or nothing, and its clean count is at most
the clean runs since. Two theorems follow from its step.

**Pace.** `PaceInv` adds what the state knows of the decisions to speak: its
`sent_at` is no earlier than the last one about its condition, and nothing that was
decided lies in the future of a run. A repeat is decided `DueIn` after `sent_at`,
so `Rising` bounds it; this is what covers the code's own table, of which the
runs only use the shape.

### The dead man's switch

`SurroundingsProofs` proves, for every period, delay, run limit, expiry, `for`,
clock and number of losses:

| Theorem | Says |
|---|---|
| `AnAlertIsTrue` | `DeadManSpec => AlertIsTrue` |
| `OrdinaryGapsAreQuiet` | `DeadManSpec => RunsKeepItQuiet` |
| `SilenceIsNoticed` | `DeadManSpec => []SilenceFires` |

Assumption: `Period + Delay + RunLimit < Expiration + For`, and an expiry above
a minute. The repository's settings give 12 < 20; the first is what the comment
at `slo.yml:122-123` relies on, which counts the period and the delay and
leaves out the run. The inductive invariant `DeadManInv` has three parts beside
the types: `Schedule` bounds how long ago the last report can be by the
timer's and the unit's limits, while no run was missed; `Absence` says that an
absence that was seen began no earlier than the expiry, so that firing implies
the whole wait; `Watch` says that an absence is seen in the minute it begins
and fires in the minute its `for` ends, whether or not this minute's evaluation
has come yet, so that silence implies firing. All three are about the rule; what
Alertmanager does with a firing alert is not.

### The relay

`SurroundingsProofs` also proves, for any handlers and loop tries, faults, refusals and
Mattermosts:

| Theorem | Says |
|---|---|
| `CacheStaysWhole` | `RelaySpec => []CacheIsOfOnePiece` |
| `NoEmptyAcknowledgement` | `RelaySpec => []OneRefusalLosesNothing` |

The dict is filled from a coroutine's own `token` and `hook`, which were
obtained across several awaits while Mattermost may have been recreated. The
invariant `RelayInv` says that a webhook in a coroutine's hands that is about to
be stored is of the Mattermost its token is of (`Pieces`).

That what is acknowledged was taken is false (`relay_refused`).
`OneRefusalLosesNothing` says how far it holds: while Mattermost was not
recreated and has refused one post at most, whatever else is lost, raced or
restarted. There `Good` says that the cached webhook and token are good, and so
is whatever a bootstrap is about to cache; so a handler comes to the second
post only by a refusal, which leaves none for that post (`Deliveries`).

### The history

`HistoryProofs` proves, for every number of conditions, lines and months and
every clock:

| Theorem | Says |
|---|---|
| `PagesAreCounted` | `HistorySpec => []EveryPageCounted`, any runs and faults |
| `DamageIsBounded` | `HistorySpec => []DamageIsContained`, any runs and faults |
| `TheBooksBalance` | `Faithful`: `HistorySpec => []BooksBalance` |
| `ClearTimesStandUp` | `Faithful`: `HistorySpec => []ClearTimesAreTrue` |

Assumptions: a torn line is no record and no state is `NoState`, months have a
length. `HistoryStepsTheGate` says that every step of the history is one of the
gate, so that the gate's type invariant holds here.

Counting is done with `Hits(seq, kind)`, the positions of a sequence that hold
something of a kind: appending adds one to its size or leaves it
(`OneMoreHit`). *Pages*: the lines of a month that are pages and the runs told
to speak in it grow together, because a decision's line is a page exactly when
the run speaks (`AnswerFits`). *Damage*: a torn line costs two, and while it
lacks its newline one of the two is still owed, which `Contained` adds to the
property. *Books*: the balance breaks between a decision, which changes what
stands, and its line, which is written later. `BooksInv` says what is owed in
between (`Owing`): one raised line, and one more replaced if something stood;
or one recovered line; and that a run about to decide holds the state that
stands. *Clear times*: what stands, or what a recovering run has in hand, is
`Opened` in the file, by a raised line with its condition and its time, after
which no line raises and some line repeats exactly when the state counts a
repeat; a refused read only makes the run raise again. Without `Faithful` two
runs, or a write that was lost, put lines in the file that the state knows
nothing of.

### The whole run

`HealthRunProofs` proves, for any runs, conditions, channels and faults:

| Theorem | Says |
|---|---|
| `RunsKeepThePromise` | `HealthSpec => PromiseKept`: so whole runs implement `PagingPromise` |
| `RunsImplementTheGate` | `HealthSpec => Spec`: what a run does to the alert state is what `AlertGate` says, so the gate's theorems hold of it |
| `ExportsMatchOutcomes` | `HealthSpec => []VerdictsMatchOutcome` |
| `NoTurnIsLost` | `HealthSpec => []ChannelsHaveTheirTurn` |
| `NoSilentOutage` | `SomebodyListens`: `HealthSpec => []SilenceIsHeard` |

`SomebodyListens` says that every condition has a channel that is configured
and wants it; without one a message goes to nobody, and the gate counts it as
sent all the same. `NoSilentOutage` rests on the gate's `CoverInv`, which ties a
silence to an earlier decision, and adds `HeardInv`, which ties a decision to a
message: for each condition the last decision to speak was heard by some
channel, or its run still has a channel to call, or it was cut short.
`VerdictsInv` and `TurnsInv` say for each phase what was recorded and which
channels are left.

### The bridge

`BridgeProofs` proves, for any groups and numbers of changes, failures and
rotations:

| Theorem | Says |
|---|---|
| `NewestStaysLast` | `Spec => []NewestLast` |
| `AcknowledgedIsShown` | `NothingIsRefused`: `Spec => []AcknowledgedWasShown` |

`OrderInv` says that the requests of a group wait in the order of their states,
that the one in hand is no newer than those, and that what Slack was shown is no
newer than either. A retry keeps the order, because Alertmanager posts the
state that is current then. `NothingIsRefused` (Slack refuses nothing, the
token is not rotated) is needed: `bridge_refused` shows the property false
without it. The assumptions name a `Stray` that is no group and a `NoJob` that
is no job.

### The copies in Redis

`CopiesProofs` proves, for any number of runs, files, environments, edits and
any expiries above nothing:

| Theorem | Says |
|---|---|
| `CopiesAreFresh` | `ConfigSpec => []FreshEnough` |
| `OverridesStayWhole` | `KeysDiffer`: `ConfigSpec => []OverrideIsWhole` |
| `StalenessIsBounded` | `FleetSpec => []StalenessAddsUp` |
| `ReseedsAreSeen` | `FleetSpec => []ReseedIsSeen` |

The assumption on the unit's time limit (`RunLimit > 0`, `LookupLimit > 0`) is
that a run may take a minute. Staleness is inductive only with the chain that
leads to it: what was read from the file, what was stored, until when, and what
was then read from Redis, each true at most so long ago. `FleetCache` has the
chain twice, the second link starting where the first ends; that is why the
bounds add up to two expiries and three lifetimes. `KeysDiffer` says that two
paths never share a Redis key, which `prepare_key` does not promise. The reseed
needs that nobody holds an older list between its drop and the runs after it:
`SeedInv` says it of the copy and of every list about to be stored.

### The signals

`SignalsProofs` proves, for every range of readings, length of a sweep, file of
limits, and file of objectives made of the packaged ones with any thresholds:

| Theorem | Says |
|---|---|
| `EveryPageIsTrue` | `SignalSpec => []PagesAreTrue` |
| `EveryPageHasItsReasons` | `SignalSpec => []PageHasItsReasons` |
| `DriftIsReported` | `SignalSpec => []DisagreementIsReported` |
| `SiteRunAgrees` | `SignalSpec => []SameVerdicts` |

Here a run is two steps and the invariant is short: what was measured is what
the checks make of some world. The work is in comparing three judgements of one
reading, the page's, the objective's and what was the case, signal by signal,
at the limit and when there is no reading. Assumption: a missing key is no
number and not a missing reading.

### The snapshots, the deploys and the journal

`ReportsProofs` proves, for any number of runs, weeks, releases, samples, failed
calls, lines and appends cut short:

| Theorem | Says |
|---|---|
| `FilesSurviveOutages` | `ScoreboardSpec => []OutageDestroysNothing` |
| `ReportsAreTrue` | `ScoreboardSpec => ReportIsTrue` |
| `DeploysAreAnnotatedOnce` | one `annotate` at a time: `DeploySpec => []AnnotatedOnce` |
| `DeploysAreJournaledOnce` | one `dora` at a time: `DeploySpec => []JournaledOnce` |
| `AnnotationsAreForGood` | `DeploySpec => []SaidForGood`, any jobs |
| `ExportsAreWhole` | `JournalSpec => []ExportIsWhole` |
| `NoPairGoesMissing` | `JournalSpec => []NoPairIsMissed` |
| `TheWindowKeepsPairs` | `JournalSpec => []WindowKeepsPairs` |

*Snapshots*: `SnapshotInv` says what file, index and commit hold at each step of
a run, unless another run writes the same week's (`clashed`). *Once*: a job that
asked Grafana, or read the journal, and has not written since still knows what
it was told; the hypothesis is what keeps another job from writing in between,
and without it both properties are false. *For good*: an annotation is about
the samples up to the deploy's end and the settling time, or up to the first
time since which checkout held. `SettledForGood` shows that later samples do not
change either: when checkout held in the samples there were, the first time it
did so is the first time in all of them (`FirstHoldStays`), and a deploy is only
given up when its time is over. The least time of a set of them is taken with
`LeastNatural`, proved from the library's theorem on least elements of a
well-founded order. *Whole*: a journal that an export can read is what was
recorded, in that order, with at most one line more, the one cut short last and
only of its newline (`NothingIsPassedOver`): whatever is written next spoils
that line for good. So what was recorded in the window is among what is
counted.

*Pairs*: `PairsAreComputed` shows that the recursion of `Pairs` is well founded,
and `EveryPart` is induction over the parts of a finite set of lines, each made
by adding its last line: in both there is no least counterexample, and the
induction is over a set of parts, not an operator, so the provers can use it.
By it, what `Pairs` leaves fits (`PairsFit`): an incident took its resolve when
no earlier one was free, and an incident without one found none free. That is
enough for no pairing to be larger (`NoPairingIsLarger`), by sending any other
pairing's pairs into these, one to one: a pair goes to the one that has its
incident, but if the incident came no earlier than one that found nothing free,
its resolve is taken and the pair goes to the one that has the resolve. Two
pairs sent to the same one would mean that the earlier incident, too, had
nothing free after it. For the window, `EachTakesTheFirst` shows that incidents
which come one at a time each take the first resolve after them, whatever the
others take; that resolve lies in every window the incident lies in.

### Only model-checked

The three liveness properties (`FiringIsShown`, `EveryMessageIsAnswered`,
`EveryDeployIsRecorded`): liveness under fairness, and `ENABLED`, are outside
the proof system's reach. The theorems above prove the safety half of each
component's promise; that its steps are taken in the end is left to TLC.

## 6. What else the code does

Seen while modelling, and not checked by a run of its own:

* **A message can be lost for good.** The gate records a message before any
  channel is called and `send_notifications` catches nothing, so a channel
  that raises, or a kill in between, leaves a standing alert nobody was told
  about until its first repeat. `SilenceIsHeard` allows exactly this, through
  `cut`, and nothing more.
* **A recovery can be unearned** when a bad run's write is refused: the count
  of the clean run before it survives.
* **Two jobs of a kind at once** (the timer's and one by hand) both annotate,
  or both journal, the same deploy: neither looks again before it writes.
* **Keys can collide.** `Cache.prepare_key` turns any run of punctuation into
  one `_`, so two override directories that differ only in punctuation share a
  copy. `ConfigCache` takes the key as the constant `Key`; the run keeps the
  keys apart.
* **Only the first read of site.yml is validated**; an edit with an expired
  copy gives the checks a file `check_site_config` never saw.
* **`evaluate_run` takes an empty list of objectives for none given**, so a
  slo.yml with no SLI the site run can judge charges every other one.
* **Two bootstraps at once make two webhooks** (or one of them fails on the
  team), although `app.py:347` says "idempotently"; messages are relayed all the
  same, and a cached webhook of a recreated Mattermost stays until the stubs
  restart.
* **One bad journal line stops the DORA jobs.** A line cut short, or a time
  without an offset given to `--at` (`dora.py:172`), makes every later
  `load_events` raise (`dora.py:76-78`), in exports and in `healthbot-deploys
  dora`, until someone edits the file. It hides nothing, which is what
  `ExportIsWhole` checks.
* **A deploy Grafana rejects for good** ends every annotate job before the
  deploys after it.
* **A reseed can be undone** by a run that had asked EC2 before the seed and
  stores its answer after the drop: the list is stale for one expiry
  (`raced` in `ReseedIsSeen`).
* **A snapshot whose last run of the week is killed is never committed**: the
  next week's file has another name. Two runs at once may commit a torn file
  (`clashed`).
* **A restarted collector can make the rule fire early**, after the `for` alone, and two hosts
  reporting to one collector mask each other's absence: the rule asks for any
  heartbeat.

## 7. Not modelled

* The steps of the browser journey and the values of the AWS metrics: no signal
  reads more of them than `Checks` models.
* DORA's lead time, which asks git, and the environment filter, which drops
  events before anything else is done.
* The burn-rate rules: arithmetic over Prometheus' ranges, with no state of the
  program. Prometheus itself is taken to run and to scrape.
* What becomes of a firing `HealthBotSilent`. Alertmanager routes only the
  host-pressure alerts; every other one, this one included, falls through to its
  null receiver on purpose, because this "must not start paging on unproven
  numbers" (`src/IT/observability/README.md:97-101`,
  `src/IT/observability/alertmanager/alertmanager.yml:8-31`). So nobody is told
  of a silent monitor today unless they look, and the properties of `DeadMan`
  are about the rule's firing and nothing after it.
* The SDKs' exporters, log sinks, environment variables, message layout, the
  stubs with canned data, the demo (it drives the modelled parts), Terraform,
  Ansible and Packer, dashboards: input and output with no state a property
  could be about. The timer's interval and the unit's time limit are used by
  the models.
* Details of modelled parts that no property reads: the outcome a
  `deploy.finished` may carry (`deploys.py:97-98`; it counts as a success); the
  tag name and the suffix EC2 is asked with (`checks/aws.py:137-138`; taken to be
  fixed); that the limits, once read, are kept for a run and that the canaries
  read site.yml once more (`ConfigCache` reads it three times); the exports the
  SDK makes every minute of a run (`telemetry.py:189-191`; the model has the last
  one).
* Answers that would end a run and that its sources are taken not to give: a value
  in Redis that is no JSON, which `Cache.get` would raise on (`cache.py:81-83`; the
  program stores only what it dumped), and a New Relic summary that is no number.

## 8. Plan

Order: what decides whether a person is told comes first (done), then what is
derived from it (done), then the proofs (done). What could come next is listed
in section 7; the first would be the lead time of `dora.py`, which would need a
model of the repository it asks.

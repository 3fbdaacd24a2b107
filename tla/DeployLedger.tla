---------------------------- MODULE DeployLedger ----------------------------
(***************************************************************************)
(* Deploys on the dashboards and in the DORA journal                       *)
(* (src/healthbot/deploys.py).  mdp appends to its ledger; `annotate` and  *)
(* `dora` jobs each read the ledger once and then walk the deploys they    *)
(* found, asking Grafana and Prometheus, posting, appending.  Any call may *)
(* fail, which ends the job, and an answer may be lost after the call took *)
(* effect; a later job starts over from the ledger.                        *)
(*                                                                         *)
(* Time is counted in the steps of the Prometheus query.                   *)
(***************************************************************************)
EXTENDS Integers, FiniteSets, Sequences, SequencesExt

CONSTANTS
    MaxReleases,    \* bound on mdp's releases
    Annotators,     \* jobs running `annotate`
    Journalers,     \* jobs running `dora`
    BASELINE,       \* how far before its start a deploy is compared with
    HOLD,           \* samples in a row that count as back to normal
    SETTLE,         \* how long an annotation waits for checkout to settle
    MaxTime,        \* bound on the clock
    MaxFaults       \* bound on the calls that fail

\* In the order mdp starts to deploy them.
Releases == 1..MaxReleases

Jobs == Annotators \cup Journalers

ASSUME DeployAssumption ==
    /\ Annotators \cap Journalers = {}
    /\ {MaxReleases, BASELINE, HOLD, SETTLE, MaxTime, MaxFaults} \subseteq Nat
    /\ HOLD > 0

VARIABLES
    now,            \* the clock
    samples,        \* checkout's duration at each time so far
    ledger,         \* mdp's records of each release, in the order of their seq
    annotations,    \* the annotations Grafana holds
    journal,        \* the lines of the DORA journal
    pc,             \* where each job is
    queue,          \* the deploys each job still has to look at
    readAt,         \* the time each job fixed when it started
    held,           \* the releases each `dora` job found in the journal
    normal,         \* back_to_normal's answer on the deploy at hand
    faults          \* the calls that have failed

jobVars == <<pc, queue, readAt, held, normal>>
dvars == <<now, samples, ledger, annotations, journal, jobVars, faults>>

\* Seconds of a fast checkout and of a slow one, more than a tenth apart; "gap"
\* is a step with no sample, or with NaN, which checkout_series drops.
Durations == {"fast", "slow", "gap"}

Ends == {"deploy.finished", "deploy.failed", "deploy.rolled_back"}

\* back_to_normal's None.
NotYet == -1

-----------------------------------------------------------------------------
(* read_ledger.                                                            *)

HasEnd(rel) == \E i \in DOMAIN ledger[rel] : ledger[rel][i].event \in Ends

\* From the first record of a release to the last that ends it.
Deploy(rel) ==
    LET records == ledger[rel]
        end == SelectLastInSeq(records, LAMBDA rec : rec.event \in Ends)
    IN  [release |-> rel, started |-> records[1].at,
         ended |-> records[end].at, outcome |-> records[end].event]

\* Every deploy with an end.
ReadLedger == {Deploy(rel) : rel \in {x \in Releases : HasEnd(x)}}

\* They are looked at oldest first.
Oldest(deploys) ==
    CHOOSE d \in deploys :
        \A e \in deploys :
            d.started < e.started \/ (d.started = e.started /\ d.release =< e.release)

-----------------------------------------------------------------------------
(* back_to_normal, over the samples of the times 0..upTo.                  *)

Before(d) == {t \in 0..d.started - 1 : t >= d.started - BASELINE /\ samples[t + 1] # "gap"}

\* The ceiling is a tenth above the median of the baseline, which is slow when
\* most of it is.
Within(d, t) ==
    \/ samples[t + 1] = "fast"
    \/ 2 * Cardinality({b \in Before(d) : samples[b + 1] = "slow"}) > Cardinality(Before(d))

\* The times after the deploy that have a sample.
After(d, upTo) == {t \in d.ended..upTo : samples[t + 1] # "gap"}

\* The first HOLD of these times from t on.
HoldFrom(after, t) ==
    {s \in after : s >= t /\ Cardinality({u \in after : t =< u /\ u < s}) < HOLD}

\* The times from which on checkout held that long.
Holds(d, upTo) ==
    LET after == After(d, upTo)
    IN  {t \in after : /\ Cardinality({s \in after : s >= t}) >= HOLD
                       /\ \A s \in HoldFrom(after, t) : Within(d, s)}

BackToNormal(d, upTo) ==
    IF Before(d) = {} \/ Holds(d, upTo) = {} THEN NotYet ELSE Min(Holds(d, upTo)) - d.ended

Earlier(a, b) == IF a < b THEN a ELSE b

-----------------------------------------------------------------------------
(* What happens around the jobs.                                           *)

\* Checkout has been measured for a baseline when the first deploy comes.
DeployInit ==
    /\ now = BASELINE
    /\ samples \in [1..BASELINE + 1 -> Durations]
    /\ ledger = [rel \in Releases |-> <<>>]
    /\ annotations = <<>>
    /\ journal = <<>>
    /\ pc = [j \in Jobs |-> "idle"]
    /\ queue = [j \in Jobs |-> {}]
    /\ readAt = [j \in Jobs |-> 0]
    /\ held = [j \in Jobs |-> {}]
    /\ normal = [j \in Jobs |-> NotYet]
    /\ faults = 0

\* A step of time, and the sample that comes with it.
Tick ==
    /\ now < MaxTime
    /\ now' = now + 1
    /\ \E v \in Durations : samples' = Append(samples, v)
    /\ UNCHANGED <<ledger, annotations, journal, jobVars, faults>>

AppendRecord(rel, event) ==
    /\ ledger' = [ledger EXCEPT ![rel] = Append(@, [event |-> event, at |-> now])]
    /\ UNCHANGED <<now, samples, annotations, journal, jobVars, faults>>

\* mdp starts the next deploy, early enough for the bound on the clock to let
\* it settle.
StartDeploy(rel) ==
    /\ ledger[rel] = <<>>
    /\ \A earlier \in 1..rel - 1 : ledger[earlier] # <<>>
    /\ now + SETTLE =< MaxTime
    /\ AppendRecord(rel, "deploy.started")

\* mdp ends a deploy, and may roll back what it has already ended.
EndDeploy(rel, event) ==
    /\ ledger[rel] # <<>>
    /\ HasEnd(rel) => event = "deploy.rolled_back" /\ Last(ledger[rel]).event # event
    /\ now + SETTLE =< MaxTime
    /\ AppendRecord(rel, event)

-----------------------------------------------------------------------------
(* Jobs.                                                                   *)

Stop(j) ==
    /\ pc' = [pc EXCEPT ![j] = "idle"]
    /\ queue' = [queue EXCEPT ![j] = {}]
    /\ readAt' = [readAt EXCEPT ![j] = 0]
    /\ held' = [held EXCEPT ![j] = {}]
    /\ normal' = [normal EXCEPT ![j] = NotYet]

\* On to the next deploy of the loop, or to the end of the job.
Continue(j, first) ==
    LET left == queue[j] \ {Oldest(queue[j])}
    IN  IF left = {} THEN Stop(j)
        ELSE /\ pc' = [pc EXCEPT ![j] = first]
             /\ queue' = [queue EXCEPT ![j] = left]
             /\ normal' = [normal EXCEPT ![j] = NotYet]
             /\ UNCHANGED <<readAt, held>>

MayFail == faults < MaxFaults /\ faults' = faults + 1

\* raise_for_status, a refused connection, a timeout, a kill: the job ends.
Fail(j) ==
    /\ pc[j] # "idle"
    /\ MayFail
    /\ Stop(j)
    /\ UNCHANGED <<now, samples, ledger, annotations, journal>>

\* A job that finds no deploy in the ledger is over as soon as it began.
Begin(j, first) ==
    /\ pc[j] = "idle"
    /\ pc' = [pc EXCEPT ![j] = IF ReadLedger = {} THEN "idle" ELSE first]
    /\ queue' = [queue EXCEPT ![j] = ReadLedger]

BeginAnnotate(j) ==
    /\ Begin(j, "ask")
    /\ readAt' = [readAt EXCEPT ![j] = IF ReadLedger = {} THEN 0 ELSE now]
    /\ UNCHANGED <<now, samples, ledger, annotations, journal, held, normal, faults>>

IsAnnotated(rel) == \E i \in DOMAIN annotations : annotations[i].release = rel

\* Mutant of Ask: what Grafana answers is not looked at.
AskBlindly(j) ==
    /\ pc[j] = "ask"
    /\ pc' = [pc EXCEPT ![j] = "weigh"]
    /\ UNCHANGED <<queue, readAt, held, normal>>
    /\ UNCHANGED <<now, samples, ledger, annotations, journal, faults>>

\* A deploy Grafana already holds is skipped.
Ask(j) ==
    /\ pc[j] = "ask"
    /\ IF IsAnnotated(Oldest(queue[j]).release)
       THEN Continue(j, "ask")
       ELSE pc' = [pc EXCEPT ![j] = "weigh"] /\ UNCHANGED <<queue, readAt, held, normal>>
    /\ UNCHANGED <<now, samples, ledger, annotations, journal, faults>>

\* Mutants of Weigh: nothing waits for checkout to settle; what never settled
\* waits for ever.
WeighAtOnce(j) ==
    /\ pc[j] = "weigh"
    /\ LET d == Oldest(queue[j])
       IN  /\ normal' = [normal EXCEPT ![j] = BackToNormal(d, Earlier(readAt[j], d.ended + SETTLE))]
           /\ pc' = [pc EXCEPT ![j] = "post"]
           /\ UNCHANGED <<queue, readAt, held>>
    /\ UNCHANGED <<now, samples, ledger, annotations, journal, faults>>

WeighForEver(j) ==
    /\ pc[j] = "weigh"
    /\ LET d == Oldest(queue[j])
           answer == BackToNormal(d, Earlier(readAt[j], d.ended + SETTLE))
       IN  IF answer = NotYet
           THEN Continue(j, "ask")
           ELSE /\ normal' = [normal EXCEPT ![j] = answer]
                /\ pc' = [pc EXCEPT ![j] = "post"]
                /\ UNCHANGED <<queue, readAt, held>>
    /\ UNCHANGED <<now, samples, ledger, annotations, journal, faults>>

\* A deploy whose checkout has not settled yet is left for a later job.
Weigh(j) ==
    /\ pc[j] = "weigh"
    /\ LET d == Oldest(queue[j])
           answer == BackToNormal(d, Earlier(readAt[j], d.ended + SETTLE))
       IN  IF answer = NotYet /\ readAt[j] - d.ended < SETTLE
           THEN Continue(j, "ask")
           ELSE /\ normal' = [normal EXCEPT ![j] = answer]
                /\ pc' = [pc EXCEPT ![j] = "post"]
                /\ UNCHANGED <<queue, readAt, held>>
    /\ UNCHANGED <<now, samples, ledger, annotations, journal, faults>>

\* Grafana takes the annotation, and its answer may be lost on the way back.
Post(j) ==
    /\ pc[j] = "post"
    /\ LET d == Oldest(queue[j])
       IN  annotations' = Append(annotations,
               [release |-> d.release, ended |-> d.ended, outcome |-> d.outcome,
                started |-> d.started, normal |-> normal[j]])
    /\ \/ Continue(j, "ask") /\ UNCHANGED faults
       \/ Stop(j) /\ MayFail
    /\ UNCHANGED <<now, samples, ledger, journal>>

\* Mutant of BeginJournal: only the last line of the journal is held.
BeginJournalFromLast(j) ==
    /\ Begin(j, "append")
    /\ held' = [held EXCEPT ![j] =
            IF ReadLedger = {} \/ journal = <<>> THEN {} ELSE {Last(journal).release}]
    /\ UNCHANGED <<now, samples, ledger, annotations, journal, readAt, normal, faults>>

\* The journal is read once, before the first append.
BeginJournal(j) ==
    /\ Begin(j, "append")
    /\ held' = [held EXCEPT ![j] =
            IF ReadLedger = {} THEN {} ELSE {journal[i].release : i \in DOMAIN journal}]
    /\ UNCHANGED <<now, samples, ledger, annotations, journal, readAt, normal, faults>>

\* A finished deploy is taken for a success: the outcome of its own that the event
\* may carry is left out, and no property asks for it.
AppendEvent(j) ==
    /\ pc[j] = "append"
    /\ LET d == Oldest(queue[j])
       IN  journal' = IF d.release \in held[j] THEN journal
                      ELSE Append(journal,
                               [release |-> d.release, at |-> d.ended,
                                success |-> d.outcome = "deploy.finished"])
    /\ Continue(j, "append")
    /\ UNCHANGED <<now, samples, ledger, annotations, faults>>

Annotate(j) == BeginAnnotate(j) \/ Ask(j) \/ Weigh(j) \/ Post(j)

RecordDora(j) == BeginJournal(j) \/ AppendEvent(j)

DeployNext ==
    \/ Tick
    \/ \E rel \in Releases : StartDeploy(rel) \/ \E e \in Ends : EndDeploy(rel, e)
    \/ \E j \in Annotators : Annotate(j)
    \/ \E j \in Journalers : RecordDora(j)
    \/ \E j \in Jobs : Fail(j)

DeploySpec == DeployInit /\ [][DeployNext]_dvars

\* A timer starts the jobs, every call they make has a timeout, and time passes.
FairDeploySpec ==
    /\ DeploySpec
    /\ WF_dvars(Tick)
    /\ \A j \in Annotators : WF_dvars(Annotate(j))
    /\ \A j \in Journalers : WF_dvars(RecordDora(j))

-----------------------------------------------------------------------------
(* Properties.                                                             *)

\* One annotation per deploy (deploys.py:2, 11-14, 204), with jobs that die
\* half way and answers that are lost after Grafana took the annotation.
AnnotatedOnce ==
    \A i, k \in DOMAIN annotations :
        annotations[i].release = annotations[k].release => i = k

\* "`healthbot-deploys dora` appends each finished deploy to the DORA journal
\* once" (deploys.py:15), with jobs that die half way.
JournaledOnce ==
    \A i, k \in DOMAIN journal : journal[i].release = journal[k].release => i = k

\* An annotation is posted once and never corrected, so what it says about
\* checkout has to be what every later read would say (deploys.py:204-205):
\* for the deploy the job found, reading all the samples there are now gives the
\* answer that was posted.
SaidForGood ==
    \A i \in DOMAIN annotations :
        LET a == annotations[i]
        IN  a.normal = BackToNormal(a, Earlier(now, a.ended + SETTLE))

\* A deploy that ended is sooner or later annotated and journaled, whether its
\* checkout settles or not, after any finite number of failed calls
\* (deploys.py:186-237).
EveryDeployIsRecorded ==
    \A rel \in Releases :
        HasEnd(rel) ~> /\ IsAnnotated(rel)
                       /\ \E i \in DOMAIN journal : journal[i].release = rel
=============================================================================

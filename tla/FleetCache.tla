----------------------------- MODULE FleetCache -----------------------------
(***************************************************************************)
(* Which instances a run asks CloudWatch about (src/healthbot/checks/      *)
(* aws.py over src/healthbot/aws/parameter_store.py).  The environment is  *)
(* a parameter, kept in Redis under its name; the instances found for it   *)
(* are kept under one more key, whatever the environment was.  So what a   *)
(* run is told may be a list found for an environment that was itself      *)
(* read from a copy.                                                       *)
(*                                                                         *)
(* `healthbot-local seed` (src/healthbot/local_env.py) may launch an       *)
(* instance and then drops the list.                                       *)
(***************************************************************************)
EXTENDS Integers

CONSTANTS
    Environments,   \* the values of the environment parameter
    Local,          \* the one `healthbot-local seed` launches for
    Instances,
    Fresh,          \* the instance a seed launches
    Lookups,        \* the runs, as far as this goes
    Expiry,         \* how long Redis keeps a copy
    LookupLimit,    \* TimeoutStartSec: no run lives longer
    MaxClock,       \* bound on the clock
    MaxChanges,     \* bound on the changes of the parameter and of the fleets
    LastSeed,       \* bound on when the seed starts
    Unknown

ASSUME FleetAssumption ==
    /\ Local \in Environments
    /\ Fresh \in Instances
    /\ Unknown \notin Environments
    /\ {Expiry, LookupLimit, MaxClock, MaxChanges, LastSeed} \subseteq Nat
    /\ LookupLimit > 0

VARIABLES
    clock, changes,
    environment,    \* the parameter in Parameter Store
    fleet,          \* the instances running in each environment
    parameterCopy,  \* Redis's copy of the parameter, and when it is dropped
    listCopy,       \* Redis's copy of the list: what was found and for which environment
    doing,          \* what each run is doing
    told,           \* the environment each run was told
    listed,         \* the list each run was given
    since,          \* when each run started
    seed,           \* what the seed is doing
    raced,          \* history variable: a run had asked EC2 and not stored the answer at the drop
    environmentWas, \* history variables: when each value was last the true one
    fleetWas

actual == <<environment, fleet, environmentWas, fleetWas>>
copies == <<parameterCopy, listCopy>>
runVars == <<doing, told, listed, since>>
fvars == <<clock, changes, actual, copies, runVars, seed, raced>>

Long == -(2 * Expiry + 3 * LookupLimit)
Gone == [value |-> Unknown, until |-> 0]

FleetInit ==
    /\ clock = 0
    /\ changes = 0
    /\ environment = Local
    /\ fleet = [e \in Environments |-> {}]
    /\ parameterCopy = Gone
    /\ listCopy = Gone
    /\ doing = [r \in Lookups |-> "off"]
    /\ told = [r \in Lookups |-> Unknown]
    /\ listed = [r \in Lookups |-> Unknown]
    /\ since = [r \in Lookups |-> 0]
    /\ seed = "not run"
    /\ raced = FALSE
    /\ environmentWas = [e \in Environments |-> IF e = Local THEN 0 ELSE Long]
    /\ fleetWas = [e \in Environments |-> [f \in SUBSET Instances |-> IF f = {} THEN 0 ELSE Long]]

\* systemd kills a run that has used up its time.
ClockTicks ==
    /\ clock < MaxClock
    /\ \A r \in Lookups : doing[r] # "off" => clock - since[r] < LookupLimit
    /\ clock' = clock + 1
    /\ environmentWas' = [environmentWas EXCEPT ![environment] = clock + 1]
    /\ fleetWas' = [e \in Environments |-> [fleetWas[e] EXCEPT ![fleet[e]] = clock + 1]]
    /\ UNCHANGED <<changes, environment, fleet, copies, runVars, seed, raced>>

ChangeEnvironment(e) ==
    /\ changes < MaxChanges
    /\ changes' = changes + 1
    /\ e # environment
    /\ environment' = e
    /\ environmentWas' = [environmentWas EXCEPT ![e] = clock]
    /\ UNCHANGED <<clock, fleet, fleetWas, copies, runVars, seed, raced>>

Scale(e, f) ==
    /\ fleet' = [fleet EXCEPT ![e] = f]
    /\ fleetWas' = [fleetWas EXCEPT ![e][f] = clock]

\* Instances come and go; the one a seed launched stays.
ChangeFleet(e, f) ==
    /\ changes < MaxChanges
    /\ changes' = changes + 1
    /\ f # fleet[e]
    /\ Fresh \in f <=> Fresh \in fleet[e]
    /\ Scale(e, f)
    /\ UNCHANGED <<clock, environment, environmentWas, copies, runVars, seed, raced>>

-----------------------------------------------------------------------------
(* A run: get_parameter, then get_metric_data.                             *)

Move(r, to) == doing' = [doing EXCEPT ![r] = to]

BeginLookup(r) ==
    /\ doing[r] = "off"
    /\ Move(r, "get parameter")
    /\ since' = [since EXCEPT ![r] = clock]
    /\ UNCHANGED <<clock, changes, actual, copies, told, listed, seed, raced>>

\* Cache.get answers with what is still there; Redis may refuse.
GetParameter(r) ==
    /\ doing[r] = "get parameter"
    /\ \/ /\ clock < parameterCopy.until
          /\ told' = [told EXCEPT ![r] = parameterCopy.value]
          /\ Move(r, "get list")
       \/ Move(r, "ask Parameter Store") /\ UNCHANGED told
    /\ UNCHANGED <<clock, changes, actual, copies, listed, since, seed, raced>>

AskParameterStore(r) ==
    /\ doing[r] = "ask Parameter Store"
    /\ told' = [told EXCEPT ![r] = environment]
    /\ Move(r, "set parameter")
    /\ UNCHANGED <<clock, changes, actual, copies, listed, since, seed, raced>>

SetParameter(r) ==
    /\ doing[r] = "set parameter"
    /\ \/ parameterCopy' = [value |-> told[r], until |-> clock + Expiry]
       \/ UNCHANGED parameterCopy
    /\ Move(r, "get list")
    /\ UNCHANGED <<clock, changes, actual, listCopy, told, listed, since, seed, raced>>

\* The key names no environment, and an empty list is as good as any.
GetList(r) ==
    /\ doing[r] = "get list"
    /\ \/ /\ clock < listCopy.until
          /\ listed' = [listed EXCEPT ![r] = listCopy.value]
          /\ Move(r, "measure")
       \/ Move(r, "ask EC2") /\ UNCHANGED listed
    /\ UNCHANGED <<clock, changes, actual, copies, told, since, seed, raced>>

\* EC2 is asked for the environment the run was told; the other parts of the
\* question, a name tag and a suffix from site.yml, are taken to be fixed.
AskEC2(r) ==
    /\ doing[r] = "ask EC2"
    /\ listed' = [listed EXCEPT ![r] = [fleet |-> fleet[told[r]], of |-> told[r]]]
    /\ Move(r, "set list")
    /\ UNCHANGED <<clock, changes, actual, copies, told, since, seed, raced>>

\* Mutant of SetList: the list is kept without an expiry.
SetListForEver(r) ==
    /\ doing[r] = "set list"
    /\ listCopy' = [value |-> listed[r], until |-> MaxClock + 1]
    /\ Move(r, "measure")
    /\ UNCHANGED <<clock, changes, actual, parameterCopy, told, listed, since, seed, raced>>

SetList(r) ==
    /\ doing[r] = "set list"
    /\ \/ listCopy' = [value |-> listed[r], until |-> clock + Expiry]
       \/ UNCHANGED listCopy
    /\ Move(r, "measure")
    /\ UNCHANGED <<clock, changes, actual, parameterCopy, told, listed, since, seed, raced>>

\* The run ends, by itself, by an answer AWS refuses or by a kill.
EndLookup(r) ==
    /\ doing[r] # "off"
    /\ Move(r, "off")
    /\ told' = [told EXCEPT ![r] = Unknown]
    /\ listed' = [listed EXCEPT ![r] = Unknown]
    /\ since' = [since EXCEPT ![r] = 0]
    /\ UNCHANGED <<clock, changes, actual, copies, seed, raced>>

LookupStep(r) ==
    \/ BeginLookup(r) \/ GetParameter(r) \/ AskParameterStore(r) \/ SetParameter(r)
    \/ GetList(r) \/ AskEC2(r) \/ SetList(r) \/ EndLookup(r)

-----------------------------------------------------------------------------
(* healthbot-local seed: seed_ec2, and drop_ec2_metrics_cache.             *)

\* An instance that runs already is used again.
Launch ==
    /\ seed = "not run"
    /\ clock =< LastSeed
    /\ seed' = "launched"
    /\ IF fleet[Local] = {} THEN Scale(Local, {Fresh}) ELSE UNCHANGED <<fleet, fleetWas>>
    /\ UNCHANGED <<clock, changes, environment, environmentWas, copies, runVars, raced>>

\* Mutant of Drop: the key it deletes is not the list's.
DropAnother ==
    /\ seed = "launched"
    /\ seed' = "done"
    /\ raced' = (\E r \in Lookups : doing[r] = "set list")
    /\ UNCHANGED <<clock, changes, actual, copies, runVars>>

\* Redis may refuse the delete, which is no more than a warning.
Drop ==
    /\ seed = "launched"
    /\ \/ /\ seed' = "done"
          /\ listCopy' = Gone
          /\ raced' = (\E r \in Lookups : doing[r] = "set list")
       \/ seed' = "refused" /\ UNCHANGED <<listCopy, raced>>
    /\ UNCHANGED <<clock, changes, actual, parameterCopy, runVars>>

FleetNext ==
    \/ ClockTicks
    \/ \E e \in Environments : ChangeEnvironment(e) \/ \E f \in SUBSET Instances : ChangeFleet(e, f)
    \/ \E r \in Lookups : LookupStep(r)
    \/ Launch \/ Drop

FleetSpec == FleetInit /\ [][FleetNext]_fvars

-----------------------------------------------------------------------------
(* Properties.                                                             *)

\* How stale the instances a run asks about can be (cache.py:2-5,
\* checks/aws.py:130-140, parameter_store.py:25-56): they ran in the environment
\* they were listed for less than an expiry and two run lifetimes ago, and that
\* environment was the configured one less than two expiries and three run
\* lifetimes ago, because the list may have been found for a copied parameter.
StalenessAddsUp ==
    \A r \in Lookups : doing[r] = "measure" =>
        LET l == listed[r]
        IN  /\ clock - fleetWas[l.of][l.fleet] < Expiry + 2 * LookupLimit
            /\ clock - environmentWas[l.of] < 2 * Expiry + 3 * LookupLimit

\* "a reseed that launched a fresh instance must not serve last hour's ids"
\* (local_env.py:243-244): once the list is dropped, every copy holds what the
\* seed launched, unless a run had its answer from EC2 in hand at the drop.
ReseedIsSeen ==
    (/\ seed = "done" /\ ~raced
     /\ clock < listCopy.until
     /\ listCopy.value.of = Local)
        => (fleet[Local] \cap listCopy.value.fleet # {} \/ Fresh \notin fleet[Local])
=============================================================================

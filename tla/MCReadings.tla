----------------------------- MODULE MCReadings -----------------------------
(***************************************************************************)
(* Small instances, for TLC, of what a run reads and what it makes of it:  *)
(* site.yml and the list of instances through Redis, and the judgement of  *)
(* what was measured.  The three share no variable, since the two copies   *)
(* have keys of their own and the judgement is of any limits: a behaviour  *)
(* is of one part.                                                         *)
(***************************************************************************)
EXTENDS SiteSignals, ConfigCache, FleetCache, TLC

CONSTANTS etc, over_a, good, bad, r1, r2

VARIABLE part

readingsVars == <<cvars, fvars, svars, part>>

\* A run of the timer beside one with an override directory.
MCHomeMixed == [r \in Runs |-> IF r = r1 THEN Packaged ELSE over_a]

\* Every path has a key of its own.
MCKeyOwn == [p \in Paths |-> p]

LookupsAreAlike == Permutations(Lookups)

ReadingsInit ==
    /\ part \in {"config", "fleet", "signals"}
    /\ ConfigInit
    /\ FleetInit
    /\ SignalInit
    /\ part # "config" => file = [p \in Paths |-> good]

ReadingsNext ==
    /\ \/ part = "config" /\ ConfigNext /\ UNCHANGED <<fvars, svars>>
       \/ part = "fleet" /\ FleetNext /\ UNCHANGED <<cvars, svars>>
       \/ part = "signals" /\ SignalNext /\ UNCHANGED <<cvars, fvars>>
    /\ UNCHANGED part

ReadingsSpec == ReadingsInit /\ [][ReadingsNext]_readingsVars
=============================================================================

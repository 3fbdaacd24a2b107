----------------------------- MODULE DoraJournal ----------------------------
(***************************************************************************)
(* The DORA journal and the figures computed from it (src/healthbot/       *)
(* dora.py).  `healthbot-dora record` and `healthbot-deploys dora` append  *)
(* a line per event; an append may be cut short by a full disk or a kill.  *)
(* An export reads every line and computes the figures of the window.      *)
(*                                                                         *)
(* Times are counted from the start of the window; an event is recorded    *)
(* for any time, whatever the time it is recorded at.                      *)
(***************************************************************************)
EXTENDS Integers, FiniteSets, Sequences

CONSTANTS
    MaxAt,          \* bound on the times of events
    MaxLines,       \* bound on the journal
    MaxCuts,        \* bound on the appends that are cut short
    Naive           \* a time with no offset, as --at may give it

ASSUME JournalAssumption ==
    /\ {MaxAt, MaxLines, MaxCuts} \subseteq Nat
    /\ Naive \notin Nat

VARIABLES
    lines,          \* the journal
    ended,          \* its last line has its newline
    recorded,       \* history variable: the events record_event returned
    cuts            \* the appends that were cut short

jvars == <<lines, ended, recorded, cuts>>

Kinds == {"deploy", "failed deploy", "incident", "resolve"}
Times == 0..MaxAt
Event(k, at) == [kind |-> k, at |-> at]

\* A line that json.loads refuses.
Unreadable == Event("unreadable", Naive)

-----------------------------------------------------------------------------
(* record_event.                                                           *)

JournalInit ==
    /\ lines = <<>>
    /\ ended = TRUE
    /\ recorded = <<>>
    /\ cuts = 0

\* What is written lands on a last line that has no newline, and spoils it.
Written(e) ==
    IF ended THEN Append(lines, e) ELSE [lines EXCEPT ![Len(lines)] = Unreadable]

RecordEvent(e) ==
    /\ Len(lines) < MaxLines
    /\ lines' = Written(e)
    /\ ended' = TRUE
    /\ recorded' = Append(recorded, e)
    /\ UNCHANGED cuts

\* A part of the line is written, or all of it but the newline.
CutShort(e) ==
    /\ Len(lines) < MaxLines
    /\ cuts < MaxCuts
    /\ cuts' = cuts + 1
    /\ \E written \in {e, Unreadable} : lines' = Written(written)
    /\ ended' = FALSE
    /\ UNCHANGED recorded

JournalNext ==
    \E k \in Kinds, at \in Times \cup {Naive} : RecordEvent(Event(k, at)) \/ CutShort(Event(k, at))

JournalSpec == JournalInit /\ [][JournalNext]_jvars

-----------------------------------------------------------------------------
(* load_events.                                                            *)

\* A line that is no JSON raises, and so does a time that cannot be taken from
\* an aware now; an export ends there.
Raises == \E i \in DOMAIN lines : lines[i].at = Naive

\* Mutant of LoadEvents: what raises is passed over.
LoadEventsLenient(raises, since) ==
    [raised |-> FALSE,
     events |-> {i \in DOMAIN lines : lines[i].at # Naive /\ lines[i].at >= since}]

\* Every event since the window began, those of the future included, by its line.
LoadEvents(raises, since) ==
    IF raises THEN [raised |-> TRUE, events |-> {}]
    ELSE [raised |-> FALSE, events |-> {i \in DOMAIN lines : lines[i].at >= since}]

-----------------------------------------------------------------------------
(* compute_metrics, of some lines of a journal.                            *)

OfKinds(journal, events, kinds) == {i \in events : journal[i].kind \in kinds}

\* Mutant of NotAfter: in the order they were recorded.
NotAfterRecorded(journal, i, k) == i =< k

\* The order events are sorted in; events of one time keep the journal's.
NotAfter(journal, i, k) ==
    \/ journal[i].at < journal[k].at
    \/ journal[i].at = journal[k].at /\ i =< k

Earliest(journal, S) == CHOOSE i \in S : \A k \in S : NotAfter(journal, i, k)
Latest(journal, S) == CHOOSE i \in S : \A k \in S : NotAfter(journal, k, i)

\* The resolves that no pair has.
Left(resolves, pairs) == {r \in resolves : \A p \in pairs : p[2] # r}

\* Mutant of Pair: the first resolve left is taken for the incident.
PairInTurn(journal, resolves, pairs, i) ==
    IF Left(resolves, pairs) = {} THEN pairs
    ELSE pairs \cup {<<i, Earliest(journal, Left(resolves, pairs))>>}

\* An incident is paired with the first resolve left that is after it.
Pair(journal, resolves, pairs, i) ==
    LET later == {r \in Left(resolves, pairs) : journal[r].at > journal[i].at}
    IN  IF later = {} THEN pairs ELSE pairs \cup {<<i, Earliest(journal, later)>>}

\* Each incident in its turn: the pairs of some incidents are those of all of
\* them but the last, and then the pair of the last.
Pairs(journal, events) ==
    LET incidents == OfKinds(journal, events, {"incident"})
        resolves == OfKinds(journal, events, {"resolve"})
        pairs[S \in SUBSET incidents] ==
            IF S = {} THEN {}
            ELSE Pair(journal, resolves, pairs[S \ {Latest(journal, S)}], Latest(journal, S))
    IN  pairs[incidents]

\* How long each incident that was resolved took; its mean is the figure.
TimesToRestore(journal, events) ==
    [p \in Pairs(journal, events) |-> journal[p[2]].at - journal[p[1]].at]

\* A figure with no data behind it is left out: here, nothing is counted.
ComputeMetrics(journal, events) ==
    [deploys |-> Cardinality(OfKinds(journal, events, {"deploy", "failed deploy"})),
     failed |-> Cardinality(OfKinds(journal, events, {"failed deploy"})),
     took |-> TimesToRestore(journal, events)]

-----------------------------------------------------------------------------
(* Properties.                                                             *)

Since(journal, from) == {i \in DOMAIN journal : journal[i].at # Naive /\ journal[i].at >= from}

\* An export that does not raise counts every event that was recorded in its
\* window (dora.py:65-81): a line an event was lost on stops the export, and
\* never makes a month look better than it was.
ExportIsWhole ==
    \A from \in Times :
        LET load == LoadEvents(Raises, from)
            figures == ComputeMetrics(lines, load.events)
            known == ComputeMetrics(recorded, Since(recorded, from))
        IN  ~load.raised => /\ figures.deploys >= known.deploys
                            /\ figures.failed >= known.failed
                            /\ cuts = 0 => figures = known

\* P gives incidents a resolve each, later than themselves, and no resolve twice.
IsPairing(journal, events, P) ==
    /\ P \subseteq OfKinds(journal, events, {"incident"}) \X OfKinds(journal, events, {"resolve"})
    /\ \A p \in P : journal[p[1]].at < journal[p[2]].at
    /\ \A p, q \in P : p[1] = q[1] <=> p[2] = q[2]

\* Taking the incidents in order, each with the first resolve left after it,
\* uses no resolve twice and leaves no incident unresolved that could have had
\* a resolve (dora.py:142-149), in whatever order the events were recorded: no
\* other pairing has more pairs.
NoPairIsMissed ==
    LET events == Since(lines, 0)
        pairs == Pairs(lines, events)
        candidates == OfKinds(lines, events, {"incident"}) \X OfKinds(lines, events, {"resolve"})
    IN  /\ IsPairing(lines, events, pairs)
        /\ \A P \in SUBSET candidates :
               IsPairing(lines, events, P) => Cardinality(P) =< Cardinality(pairs)

\* An incident is resolved before the next one begins.
OneAtATime(journal, events) ==
    \A i, k \in OfKinds(journal, events, {"incident"}) :
        i # k /\ journal[i].at =< journal[k].at =>
            \E r \in OfKinds(journal, events, {"resolve"}) :
                journal[i].at < journal[r].at /\ journal[r].at =< journal[k].at

\* While incidents come one at a time, the window's edge changes no pair as it
\* moves over them (dora.py:78, 142-149): a resolve whose incident has left the
\* window is not taken for the next incident's.
WindowKeepsPairs ==
    LET events == Since(lines, 0)
    IN  OneAtATime(lines, events) =>
            \A from \in Times :
                Pairs(lines, Since(lines, from)) =
                    {p \in Pairs(lines, events) : p[1] \in Since(lines, from)}
=============================================================================

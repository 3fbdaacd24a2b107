---------------------------- MODULE AlertHistory ----------------------------
(***************************************************************************)
(* The alert history of src/healthbot/alert_history.py, composed with the  *)
(* gate that writes it: every answered decision is one appended line, and  *)
(* the report is computed from the file alone, after the gate has          *)
(* forgotten.  An append may fail, or be torn half way (a full disk), and  *)
(* the next line then lands on the torn one's end.                         *)
(***************************************************************************)
EXTENDS AlertGate, Sequences

CONSTANTS
    MonthLength,    \* ticks in a calendar month
    MaxLines,       \* bound on the lines ever written
    Torn            \* a line of the file that is not a record

Lines ==
    [event : Events, condition : Conditions, at : Nat, raisedAt : Nat, repeats : Nat,
     replaces : Conditions \cup {Clean}]

ASSUME HistoryAssumption ==
    /\ MonthLength \in Nat \ {0}
    /\ MaxLines \in Nat
    /\ Torn \notin Lines
    /\ NoState \notin States

VARIABLES
    file,           \* the lines of the history file
    unended,        \* whether the last one lacks its newline
    spoken,         \* history variable: runs told to speak, by the time they gave
    damage,         \* history variable: appends that failed, and that tore
    forgot          \* history variable: a run did not see the state that stood

historyVars == <<file, unended, spoken, damage, forgot>>
allVars == <<vars, historyVars>>

\* Mutants of LineOf: a replaced condition is not named; an incident is dated
\* from its last message.
LineOfUnreplaced(r) ==
    LET s == seen[r]
    IN  [event |-> event[r],
         condition |-> IF failing[r] = Clean THEN s.condition ELSE failing[r],
         at |-> at[r],
         raisedAt |-> IF event[r] = "raised" THEN at[r] ELSE s.raisedAt,
         repeats |-> IF event[r] = "raised" THEN 0 ELSE s.repeats,
         replaces |-> Clean]

LineOfLastSent(r) ==
    LET s == seen[r]
    IN  [event |-> event[r],
         condition |-> IF failing[r] = Clean THEN s.condition ELSE failing[r],
         at |-> at[r],
         raisedAt |-> IF event[r] = "raised" THEN at[r] ELSE s.sentAt,
         repeats |-> IF event[r] = "raised" THEN 0 ELSE s.repeats,
         replaces |-> IF event[r] = "raised" THEN Standing(s) ELSE Clean]

\* What AlertGate.record keeps of a decision.
LineOf(r) ==
    LET s == seen[r]
        condition == IF failing[r] = Clean THEN s.condition ELSE failing[r]
    IN  [event |-> event[r],
         condition |-> condition,
         at |-> at[r],
         raisedAt |-> IF event[r] = "raised" THEN at[r] ELSE s.raisedAt,
         repeats |-> CASE event[r] = "raised" -> 0
                       [] event[r] = "repeat" -> s.repeats + 1
                       [] OTHER -> s.repeats,
         replaces |-> IF event[r] = "raised" THEN Standing(s) ELSE Clean]

\* The bound on the lines ever tried.
Full == Len(file) + damage.lost + damage.torn >= MaxLines

\* open(target, "a") and one write.
AppendLine(l) ==
    /\ file' = IF unended THEN file ELSE Append(file, l)
    /\ unended' = FALSE
    /\ UNCHANGED damage

LoseLine ==
    /\ "history" \in Faults
    /\ damage' = [damage EXCEPT !.lost = @ + 1]
    /\ UNCHANGED <<file, unended>>

TearLine ==
    /\ "history" \in Faults
    /\ file' = IF unended THEN file ELSE Append(file, Torn)
    /\ unended' = TRUE
    /\ damage' = [damage EXCEPT !.torn = @ + 1]

HistoryInit ==
    /\ Init
    /\ file = <<>>
    /\ unended = FALSE
    /\ spoken = <<>>
    /\ damage = [lost |-> 0, torn |-> 0]
    /\ forgot = FALSE

\* A run returns: its line goes to the file, if it has one, and then the
\* answer to the caller.
ReturnAndRecord(r) ==
    /\ Return(r)
    /\ IF event[r] = "none"
       THEN UNCHANGED <<file, unended, damage>>
       ELSE AppendLine(LineOf(r)) \/ LoseLine \/ TearLine
    /\ spoken' = IF speak[r] THEN Append(spoken, at[r]) ELSE spoken
    /\ UNCHANGED forgot

\* A run killed before its line is written loses it, and tells nobody.
KillUnrecorded(r) ==
    /\ Kill(r)
    /\ damage' = IF event[r] = "none" THEN damage ELSE [damage EXCEPT !.lost = @ + 1]
    /\ UNCHANGED <<file, unended, spoken, forgot>>

Elsewhere(r) ==
    \/ /\ ReadState(r)
       /\ forgot' = (forgot \/ seen'[r] # store)
       /\ UNCHANGED <<file, unended, spoken, damage>>
    \/ /\ \/ \E f \in Conditions \cup {Clean} : Begin(r, f) /\ ~Full
          \/ Decide(r)
       /\ UNCHANGED historyVars

\* The bound is reached and no run is under way.
BoundReached ==
    /\ Full
    /\ \A r \in Runs : pc[r] = "idle"
    /\ UNCHANGED allVars

HistoryNext ==
    \/ BoundReached
    \/ Tick /\ UNCHANGED historyVars
    \/ \E r \in Runs : ReturnAndRecord(r) \/ Elsewhere(r) \/ KillUnrecorded(r)

HistorySpec == HistoryInit /\ [][HistoryNext]_allVars

-----------------------------------------------------------------------------
(* The report.                                                             *)

\* Mutant of PAGES: a repeat is not a page.
RaisedOnly == {"raised"}

\* The events that are messages.
PAGES == {"raised", "repeat"}

\* Mutant of Records: reading stops at the first line that is not a record.
RecordsUntilTorn == {i \in DOMAIN file : \A j \in 1..i : file[j] # Torn}

\* load: which lines are records, and how many are not.
Records == {i \in DOMAIN file : file[i] # Torn}
Skipped == Cardinality(DOMAIN file \ Records)

MonthOf(t) == t \div MonthLength

RecordsOf(m) == {i \in Records : MonthOf(file[i].at) = m}

\* summarise: what is counted under each heading in one month.
Summary(m) ==
    [pages |-> Cardinality({i \in RecordsOf(m) : file[i].event \in PAGES}),
     recovered |-> Cardinality({i \in RecordsOf(m) : file[i].event = "recovered"}),
     clearedBeforeRepeat |->
        Cardinality({i \in RecordsOf(m) : file[i].event = "recovered" /\ file[i].repeats = 0}),
     replaced |->
        Cardinality({i \in RecordsOf(m) : file[i].event = "raised" /\ file[i].replaces # Clean})]

Months == 0..MonthOf(MaxTime)

-----------------------------------------------------------------------------
(* Properties.                                                             *)

\* No line was lost or torn.
Intact == damage.lost + damage.torn = 0

\* The pages of a month are the runs told to speak in it, repeats included
\* and whatever Redis refused (alert_history.py:93-96, alerting.py:172-192):
\* counted by the time the run itself gave, in the month it gave.
EveryPageCounted ==
    Intact =>
        \A m \in Months :
            Summary(m).pages = Cardinality({i \in DOMAIN spoken : MonthOf(spoken[i]) = m})

\* Every incident the history opens it also closes, as recovered or as
\* replaced, or it is the one still standing (alert_history.py:10-15): once no
\* run is under way, as long as every run saw the state that stood.
BooksBalance ==
    LET raised == {i \in Records : file[i].event = "raised"}
        replaced == {i \in raised : file[i].replaces # Clean}
        recovered == {i \in Records : file[i].event = "recovered"}
    IN  Intact /\ ~forgot /\ (\A r \in Runs : pc[r] = "idle")
            => Cardinality(raised) = Cardinality(replaced) + Cardinality(recovered)
                                     + (IF store = NoState THEN 0 ELSE 1)

\* The time to clear runs from the message that opened the incident, and a
\* recovery counts as "before its first repeat" exactly when none was sent
\* since that message (alert_history.py:117-124): over a Redis that may refuse
\* reads but no write.
ClearTimesAreTrue ==
    Intact =>
        \A i \in Records :
            file[i].event = "recovered" =>
                \E j \in Records :
                    /\ j < i
                    /\ file[j].event = "raised"
                    /\ file[j].condition = file[i].condition
                    /\ file[j].at = file[i].raisedAt
                    /\ \A k \in (j + 1)..(i - 1) : file[k].event # "raised"
                    /\ (file[i].repeats = 0)
                         <=> (\A k \in (j + 1)..(i - 1) : file[k].event # "repeat")

\* A damaged append costs at most itself and the line after it, and the report
\* still counts every other message (alert_history.py:68-86).
DamageIsContained ==
    LET counted == {i \in Records : file[i].event \in PAGES}
    IN  Cardinality(counted) + damage.lost + 2 * damage.torn >= Len(spoken)
=============================================================================

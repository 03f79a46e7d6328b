-------------------------- MODULE SessionCalendar --------------------------
(***************************************************************************)
(* The market calendar as the research code uses it: days, the sessions    *)
(* among them, and the instants at which a day begins and a session opens  *)
(* and closes.  Instants are absolute, so days of 23 or 25 hours and early *)
(* closes are choices of Midnight and Closing.  Which days are sessions is *)
(* a parameter here.                                                       *)
(***************************************************************************)
EXTENDS Integers

CONSTANTS
    LastDay,        \* the calendar is loaded for the days 1..LastDay
    Sessions,       \* the days with regular trading
    Midnight,       \* the instant each day begins
    Opening,        \* the open and the close of each session
    Closing

Days == 1..LastDay

ASSUME CalendarAssumption ==
    /\ LastDay \in Nat \ {0}
    /\ Sessions \subseteq Days
    /\ Midnight \in [1..LastDay + 1 -> Nat]
    /\ Opening \in [Sessions -> Nat]
    /\ Closing \in [Sessions -> Nat]
    /\ \A d, e \in 1..LastDay + 1 : d < e => Midnight[d] < Midnight[e]
    /\ \A s \in Sessions : /\ Midnight[s] < Opening[s]
                           /\ Opening[s] < Closing[s]
                           /\ Closing[s] < Midnight[s + 1]

\* What a search returns when it leaves the loaded range: the code raises ValueError.
NoSession == 0

IsSession(d) == d \in Sessions

Later(d) == {s \in Sessions : s > d}
Earlier(d) == {s \in Sessions : s < d}

NextSession(d) ==
    IF Later(d) = {} THEN NoSession
    ELSE CHOOSE s \in Later(d) : \A u \in Later(d) : s <= u

PreviousSession(d) ==
    IF Earlier(d) = {} THEN NoSession
    ELSE CHOOSE s \in Earlier(d) : \A u \in Earlier(d) : u <= s

NextOrSameSession(d) == IF IsSession(d) THEN d ELSE NextSession(d)

\* The local date of an instant; NoSession when the instant is outside the range.
Covers(d, t) == Midnight[d] <= t /\ t < Midnight[d + 1]
InRange(t) == \E d \in Days : Covers(d, t)
LocalDate(t) == CHOOSE d \in Days : Covers(d, t)
=============================================================================

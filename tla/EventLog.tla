------------------------------ MODULE EventLog ------------------------------
(***************************************************************************)
(* What the annotation store promises to those who read its log: a save is *)
(* one step.  It appends an event under a key its session has not used and *)
(* completes the assignment.  The store does not promise that revisions    *)
(* are unique: an event may repeat a revision that is there, as long as    *)
(* no revision is skipped and the event is the newest of its session.      *)
(***************************************************************************)
EXTENDS Integers

CONSTANTS
    Assignments,
    Event       \* records with a session, id, assignment and revision, and what was decided

VARIABLES
    events,     \* the append-only event table
    status      \* assignment_status of each assignment

logVars == <<events, status>>

Init ==
    /\ events = {}
    /\ status = [a \in Assignments |-> "assigned"]

\* The idempotency key is new.
FreshKey(e) == \A f \in events : f.session = e.session => f.id # e.id

\* The first revision of the assignment, or the one after some event of it.
FollowsRevision(e) ==
    \/ e.revision = 1
    \/ \E f \in events : f.assignment = e.assignment /\ f.revision + 1 = e.revision

\* A session's later event of an assignment has the greater revision.
NewestOfSession(e) ==
    \A f \in events :
        f.session = e.session /\ f.assignment = e.assignment => f.revision < e.revision

Append(e) ==
    /\ e \in Event
    /\ FreshKey(e) /\ FollowsRevision(e) /\ NewestOfSession(e)
    /\ events' = events \cup {e}
    /\ status' = [status EXCEPT ![e.assignment] = "completed"]

\* The import of a batch that is there already.
Reset(a) ==
    /\ status' = [status EXCEPT ![a] = "assigned"]
    /\ UNCHANGED events

Next ==
    \/ \E e \in events' : Append(e)
    \/ \E a \in Assignments : Reset(a)

Spec == Init /\ [][Next]_logVars
=============================================================================

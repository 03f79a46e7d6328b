--------------------------- MODULE SubmissionLog ---------------------------
(***************************************************************************)
(* Saving a form of the annotation workstation (tools/annotation): browser *)
(* sessions that render an assignment, take a client token from session    *)
(* state, append an event to the SQLite log and rotate the token.  The     *)
(* three forms (article annotation, duplicate review, adjudication) share  *)
(* this protocol; their PageRecord differs.  A click while a script runs  *)
(* is queued, and interrupts the run where it next touches session state   *)
(* or the page; a new run starts with the button still pressed.            *)
(***************************************************************************)
EXTENDS Integers, FiniteSetsExt

CONSTANTS
    Sessions,               \* browser tabs of one annotator
    NumAssignments,         \* the queue of assignments
    Labels,                 \* contents of the form
    NoToken, NoFingerprint,
    Pages,                  \* the forms, records of PageRecord
    MaxIntents,             \* bound on the decisions all sessions take
    MaxReloads              \* bound on the reloads of a page

PageRecord ==
    [revisionInFingerprint : BOOLEAN,   \* TRUE on the annotation page, FALSE on the others
     advances : (SUBSET BOOLEAN) \ {{}}]    \* whether a save moves on to the next assignment

Assignments == 1..NumAssignments

\* What form_fingerprint hashes: the form and, on the annotation page, the saved revision.
Fingerprint == [label : Labels, revision : Nat]

ASSUME SubmissionAssumption ==
    /\ NumAssignments \in Nat \ {0}
    /\ Pages \subseteq PageRecord
    /\ MaxIntents \in Nat /\ MaxReloads \in Nat
    /\ NoToken \notin Nat
    /\ NoFingerprint \notin Fingerprint

VARIABLES
    page,           \* the form the sessions have open
    events,         \* the append-only event table
    status,         \* assignment_status of each assignment
    pc,             \* where the script run of each session is
    index,          \* the assignment it displays (ann_index, dup_index)
    form,           \* what the user has filled in
    queued,         \* the save button was clicked again during the run
    saved,          \* view.saved_revision of the run
    tokens,         \* session state: the submission token of each assignment
    prints,         \* session state: the fingerprint stored beside it
    issued,         \* tokens a session has drawn
    base,           \* the latest revision, as the append read it
    began,          \* rows of the table when the append read it (history)
    intents,        \* save decisions of the session so far (history)
    clicks,         \* clicks of the last decision (history)
    reopened,       \* assignments imported again after a save (history)
    reloads         \* page reloads so far

tableVars == <<events, status, reopened>>
sessionState == <<tokens, prints, issued>>
runVars == <<pc, index, form, queued, saved, sessionState, base, began>>
userVars == <<intents, clicks, reloads>>
vars == <<page, tableVars, runVars, userVars>>

Pcs == {"idle", "render", "token", "append", "insert", "rotate", "finish"}

\* Where a queued click takes over: the run touches session state or the page.
YieldPoints == {"token", "rotate", "finish"}

Event ==
    [session : Sessions, id : Nat,          \* the idempotency key
     assignment : Assignments, revision : Nat, label : Labels,
     intent : Nat,                          \* history: the decision it records,
     row : Nat, began : Nat]                \* its row, and the rows when its append began

Revisions(a) == {e.revision : e \in {f \in events : f.assignment = a}}

\* ORDER BY revision DESC LIMIT 1, 0 when there is none.
LatestRevision(a) ==
    IF Revisions(a) = {} THEN 0
    ELSE CHOOSE r \in Revisions(a) : \A q \in Revisions(a) : q <= r

Init ==
    /\ page \in Pages
    /\ events = {}
    /\ status = [a \in Assignments |-> "assigned"]
    /\ pc = [s \in Sessions |-> "idle"]
    /\ index = [s \in Sessions |-> 1]
    /\ form \in [Sessions -> Labels]
    /\ queued = [s \in Sessions |-> FALSE]
    /\ saved = [s \in Sessions |-> 0]
    /\ tokens = [s \in Sessions |-> [a \in Assignments |-> NoToken]]
    /\ prints = [s \in Sessions |-> [a \in Assignments |-> NoFingerprint]]
    /\ issued = [s \in Sessions |-> 0]
    /\ base = [s \in Sessions |-> 0]
    /\ began = [s \in Sessions |-> 0]
    /\ intents = [s \in Sessions |-> 0]
    /\ clicks = [s \in Sessions |-> 0]
    /\ reopened = {}
    /\ reloads = 0

Goto(s, from, to) == pc[s] = from /\ pc' = [pc EXCEPT ![s] = to]

\* A decision: between two runs the user moves to an assignment (Previous, Next
\* incomplete), fills in the form and presses a save button.
Decide(s) ==
    /\ MapThenSumSet(LAMBDA t : intents[t], Sessions) < MaxIntents
    /\ Goto(s, "idle", "render")
    /\ \E a \in Assignments : index' = [index EXCEPT ![s] = a]
    /\ \E l \in Labels : form' = [form EXCEPT ![s] = l]
    /\ intents' = [intents EXCEPT ![s] = @ + 1]
    /\ clicks' = [clicks EXCEPT ![s] = 1]
    /\ UNCHANGED <<page, tableVars, queued, saved, sessionState, base, began, reloads>>

\* The second click of a double click arrives during the run the first one started.
ClickAgain(s) ==
    /\ pc[s] # "idle"
    /\ clicks[s] = 1
    /\ clicks' = [clicks EXCEPT ![s] = 2]
    /\ queued' = [queued EXCEPT ![s] = TRUE]
    /\ UNCHANGED <<page, tableVars, pc, index, form, saved, sessionState, base, began,
                   intents, reloads>>

\* The script runs from the top: build_blind_article_view reads the saved revision.
Render(s) ==
    /\ Goto(s, "render", "token")
    /\ saved' = [saved EXCEPT ![s] = LatestRevision(index[s])]
    /\ UNCHANGED <<page, tableVars, index, form, queued, sessionState, base, began, userVars>>

Current(s) == tokens[s][index[s]]

FingerprintOf(s) ==
    [label |-> form[s], revision |-> IF page.revisionInFingerprint THEN saved[s] ELSE 0]

\* The test of get_or_create_submission_token: the token was stored with this fingerprint.
Reusable(s) == Current(s) # NoToken /\ prints[s][index[s]] = FingerprintOf(s)

\* The first of two writes: a new token.
DrawToken(s) ==
    /\ issued' = [issued EXCEPT ![s] = @ + 1]
    /\ tokens' = [tokens EXCEPT ![s][index[s]] = issued[s] + 1]

\* get_or_create_submission_token with a given test for reuse.
TokenReusedIf(s, reusable) ==
    \/ /\ reusable
       /\ UNCHANGED sessionState
    \/ /\ ~reusable
       /\ DrawToken(s)
       /\ prints' = [prints EXCEPT ![s][index[s]] = FingerprintOf(s)]

\* A bug: a token is kept for as long as its assignment is displayed.
TokenIgnoringForm(s) ==
    /\ Goto(s, "token", "append")
    /\ TokenReusedIf(s, Current(s) # NoToken)
    /\ UNCHANGED <<page, tableVars, index, form, queued, saved, base, began, userVars>>

\* Reuse the token while the fingerprint of the form is the same.
GetToken(s) ==
    /\ Goto(s, "token", "append")
    /\ TokenReusedIf(s, Reusable(s))
    /\ UNCHANGED <<page, tableVars, index, form, queued, saved, base, began, userVars>>

Stored(s) == \E e \in events : e.session = s /\ e.id = Current(s)

\* append_*_event reads before its write transaction begins: the idempotency key, then
\* the revision to follow.
LookUpFrom(s, revision) ==
    /\ \/ /\ Goto(s, "append", "rotate")
          /\ Stored(s)
          /\ UNCHANGED <<base, began>>
       \/ /\ Goto(s, "append", "insert")
          /\ ~Stored(s)
          /\ base' = [base EXCEPT ![s] = revision]
          /\ began' = [began EXCEPT ![s] = Cardinality(events)]
    /\ UNCHANGED <<page, tableVars, index, form, queued, saved, sessionState, userVars>>

\* A bug: an event follows the revision the page displayed, view.saved_revision.
LookUpDisplayed(s) == LookUpFrom(s, saved[s])

LookUp(s) == LookUpFrom(s, LatestRevision(index[s]))

NewEvent(s) ==
    [session |-> s, id |-> Current(s), assignment |-> index[s],
     revision |-> base[s] + 1, label |-> form[s], intent |-> intents[s],
     row |-> Cardinality(events) + 1, began |-> began[s]]

Complete(s) ==
    /\ status' = [status EXCEPT ![index[s]] = "completed"]
    /\ reopened' = reopened \ {index[s]}

\* A bug: the event is stored, the assignment is not marked.
InsertOnly(s) ==
    /\ Goto(s, "insert", "rotate")
    /\ events' = events \cup {NewEvent(s)}
    /\ UNCHANGED <<page, status, reopened, index, form, queued, saved, sessionState, base, began, userVars>>

\* INSERT, UPDATE ... 'completed' and COMMIT: one transaction.
Insert(s) ==
    /\ Goto(s, "insert", "rotate")
    /\ events' = events \cup {NewEvent(s)}
    /\ Complete(s)
    /\ UNCHANGED <<page, index, form, queued, saved, sessionState, base, began, userVars>>

\* What follows a run: the queued click's run, or none.  Its locals are gone.
EndRun(s) ==
    /\ pc' = [pc EXCEPT ![s] = IF queued[s] THEN "render" ELSE "idle"]
    /\ queued' = [queued EXCEPT ![s] = FALSE]
    /\ saved' = [saved EXCEPT ![s] = 0]
    /\ base' = [base EXCEPT ![s] = 0]
    /\ began' = [began EXCEPT ![s] = 0]

\* "Save failed": validation or SQLite raises, the transaction is rolled back.
Fail(s) ==
    /\ pc[s] \in {"append", "insert"}
    /\ EndRun(s)
    /\ UNCHANGED <<page, tableVars, index, form, sessionState, userVars>>

\* rotate_submission_token removes the token, then its fingerprint.
DropToken(s) == tokens' = [tokens EXCEPT ![s][index[s]] = NoToken]

Rotate(s) ==
    /\ Goto(s, "rotate", "finish")
    /\ DropToken(s)
    /\ prints' = [prints EXCEPT ![s][index[s]] = NoFingerprint]
    /\ UNCHANGED <<page, tableVars, index, form, queued, saved, issued, base, began, userVars>>

\* A bug: the button stays pressed in the run that follows a save.
FinishPressed(s) ==
    /\ pc[s] = "finish"
    /\ \E adv \in page.advances :
          index' = [index EXCEPT ![s] = IF adv /\ @ < NumAssignments THEN @ + 1 ELSE @]
    /\ pc' = [pc EXCEPT ![s] = "render"]
    /\ UNCHANGED <<page, tableVars, queued, saved, base, began, form, sessionState, userVars>>

\* "Saved.", and on to the next assignment where the button or the page says so.
Finish(s) ==
    /\ pc[s] = "finish"
    /\ \E adv \in page.advances :
          index' = [index EXCEPT ![s] = IF adv /\ @ < NumAssignments THEN @ + 1 ELSE @]
    /\ EndRun(s)
    /\ UNCHANGED <<page, tableVars, form, sessionState, userVars>>

\* The queued click, or any other widget, interrupts the run; without a queued click
\* nothing is saved in the run that follows.
Interrupt(s) ==
    /\ pc[s] \in YieldPoints
    /\ EndRun(s)
    /\ UNCHANGED <<page, tableVars, index, form, sessionState, userVars>>

\* It takes over between the two writes to session state: a new token beside the old
\* fingerprint, or a fingerprint without its token.
InterruptHalfway(s) ==
    /\ \/ pc[s] = "token" /\ ~Reusable(s) /\ DrawToken(s)
       \/ pc[s] = "rotate" /\ DropToken(s) /\ UNCHANGED issued
    /\ EndRun(s)
    /\ UNCHANGED <<page, tableVars, index, form, prints, userVars>>

\* The page is reloaded or the server restarted: session state is gone.
Reload(s) ==
    /\ reloads < MaxReloads
    /\ reloads' = reloads + 1
    /\ pc' = [pc EXCEPT ![s] = "idle"]
    /\ queued' = [queued EXCEPT ![s] = FALSE]
    /\ saved' = [saved EXCEPT ![s] = 0]
    /\ base' = [base EXCEPT ![s] = 0]
    /\ began' = [began EXCEPT ![s] = 0]
    /\ index' = [index EXCEPT ![s] = 1]
    /\ tokens' = [tokens EXCEPT ![s] = [a \in Assignments |-> NoToken]]
    /\ prints' = [prints EXCEPT ![s] = [a \in Assignments |-> NoFingerprint]]
    /\ UNCHANGED <<page, tableVars, form, issued, intents, clicks>>

\* upsert_annotation_assignment, upsert_duplicate_assignment of an assignment that is
\* there already: ON CONFLICT its status is reset.
Reimport(a) ==
    /\ status' = [status EXCEPT ![a] = "assigned"]
    /\ reopened' = IF Revisions(a) = {} THEN reopened ELSE reopened \cup {a}
    /\ UNCHANGED <<page, events, runVars, userVars>>

Run(s) ==
    \/ Render(s) \/ GetToken(s) \/ LookUp(s) \/ Insert(s) \/ Fail(s) \/ Rotate(s)
    \/ Finish(s) \/ Interrupt(s) \/ InterruptHalfway(s)

Next ==
    \/ \E s \in Sessions : Decide(s) \/ ClickAgain(s) \/ Run(s) \/ Reload(s)
    \/ \E a \in Assignments : Reimport(a)

Spec == Init /\ [][Next]_vars

-----------------------------------------------------------------------------

\* The shape of the tables, of each session's run and of the history.
TypeOK ==
    /\ page \in Pages
    /\ events \subseteq Event
    /\ status \in [Assignments -> {"assigned", "completed"}]
    /\ pc \in [Sessions -> Pcs]
    /\ index \in [Sessions -> Assignments]
    /\ form \in [Sessions -> Labels]
    /\ queued \in [Sessions -> BOOLEAN]
    /\ saved \in [Sessions -> Nat]
    /\ tokens \in [Sessions -> [Assignments -> Nat \cup {NoToken}]]
    /\ prints \in [Sessions -> [Assignments -> Fingerprint \cup {NoFingerprint}]]
    /\ issued \in [Sessions -> Nat]
    /\ base \in [Sessions -> Nat]
    /\ began \in [Sessions -> Nat]
    /\ intents \in [Sessions -> Nat]
    /\ clicks \in [Sessions -> 0..2]
    /\ reopened \subseteq Assignments
    /\ reloads \in Nat

\* A token stands for one save.  Interrupted, failed and repeated saves never store a
\* second event under a token, so the UNIQUE constraint is never hit; and "Saved." is only
\* shown for what is on the screen: when a run has found or stored the event of its token,
\* that event has the label and the assignment the run displayed.
TokenStandsForSave ==
    /\ \A e, f \in events : e.session = f.session /\ e.id = f.id => e = f
    /\ \A s \in Sessions :
          pc[s] = "rotate" =>
              \E e \in events :
                  /\ e.session = s /\ e.id = Current(s)
                  /\ e.assignment = index[s] /\ e.label = form[s]

\* Revisions number the saves.  Those of an assignment are 1, 2, ..., n without gaps,
\* whatever tabs race between reading the latest revision and inserting the next (the
\* read and the insert are not one transaction), and they follow the order of the saves:
\* an append that began after an event was stored, by whatever tab, has the greater
\* revision.  Only saves of different tabs that overlap can end up with one revision.
RevisionsSound ==
    /\ \A a \in Assignments : Revisions(a) = 1..LatestRevision(a)
    /\ \A e, f \in events :
          e.assignment = f.assignment =>
              /\ e.row <= f.began => e.revision < f.revision
              /\ e # f /\ e.revision = f.revision => e.session # f.session

\* A completed assignment has an event, and one with an event is completed unless it has
\* been imported again since (completion_counts reads only the status).
StatusMatchesEvents ==
    \A a \in Assignments :
        /\ status[a] = "completed" => Revisions(a) # {}
        /\ Revisions(a) # {} /\ a \notin reopened => status[a] = "completed"

\* A decision stores at most one event for each time it was clicked; in particular one
\* that was clicked once, however often its run is interrupted or fails, stores one.
EventsBoundedByClicks ==
    \A s \in Sessions :
        Cardinality({e \in events : e.session = s /\ e.intent = intents[s]}) <= clicks[s]

\* "Form submissions use stable client tokens so double-click / rerun does not create
\* duplicate events" (tools/annotation/README.md).
OneEventPerDecision ==
    \A e, f \in events : e.session = f.session /\ e.intent = f.intent => e = f

Log == INSTANCE EventLog

\* To those who read the tables a save is one step, however its script run is spread over
\* lookups, clicks, failures and reloads: the event, with a revision that skips none, and
\* the status of its assignment appear together, once per key (append_annotation_event,
\* whose lookups are not part of its write transaction).
ImplementsEventLog == Log!Spec
=============================================================================

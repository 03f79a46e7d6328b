---------------------------- MODULE PilotReview ----------------------------
(***************************************************************************)
(* The annotation study (tools/annotation: pilot_service.py, pages 1, 2    *)
(* and 4, annotation_store.py) at the level of its transactions.  A browser *)
(* session selects a pilot run and imports its batch row by row; annotators *)
(* view an article and save a decision about it; the adjudicator resolves   *)
(* disagreements.  The article file of the run can be rewritten by another  *)
(* preflight at any time.  What happens inside one save (tokens, double     *)
(* clicks) is SubmissionLog; here a save is one step that may draw the      *)
(* revision another tab has just used.                                      *)
(***************************************************************************)
EXTENDS Integers, FiniteSets, SequencesExt

CONSTANTS
    NumArticles,        \* the articles of the run
    Versions,           \* contents an article can have (title and body hashes)
    Original,           \* the one every article had at the first preflight
    Labels,             \* decisions, "cannot determine" is one of them
    None,
    Studies             \* what people do at most, see StudyRecord

Articles == 1..NumArticles
Annotators == 1..2              \* annotator_a, annotator_b
Adjudicator == 3
Sessions == Annotators \cup {Adjudicator}

Corpora == [Articles -> Versions]

\* A row of annotation_assignments: the content it is bound to and where it stands.
Assignment == [bound : Versions, status : {"assigned", "completed"}]

\* An annotation event; seen is the content the annotator had on the screen.
Event == [aid : Articles \X Annotators, revision : Nat \ {0}, label : Labels, seen : Versions]

\* A study: the articles with double_annotate = yes; where it starts, before any
\* import or with every session having imported the batch and some annotations
\* done; and bounds: saves from there, preflights that rewrite the article file,
\* selections of the run, adjudications, exports (AnnotationExport).
StudyRecord == [double : SUBSET Articles, imported : BOOLEAN, done : Seq(Event),
                saves : Nat, preflights : Nat, selects : Nat, rulings : Nat, exports : Nat]

ASSUME ReviewAssumption ==
    /\ NumArticles \in Nat \ {0}
    /\ Original \in Versions
    /\ None \notin Corpora \cup Versions \cup Assignment
    /\ Studies \subseteq StudyRecord
    /\ \A s \in Studies : \A i \in DOMAIN s.done :
        /\ s.imported
        /\ s.done[i].aid[2] = 1 \/ s.done[i].aid[1] \in s.double
        /\ s.done[i].seen = Original

VARIABLES
    study,          \* the bounds of this study
    artifact,       \* article_text_records.jsonl of the run
    context,        \* pilot context of each session: source_corpus_sha256
    todo,           \* rows each session has still to import
    assignments,    \* article hashes bound at import, assignment_status
    events,         \* annotation events; the id of an event is its position
    view,           \* the assignment an annotator looks at, and the content shown
    shown,          \* the disagreement the adjudicator looks at
    pending,        \* a running "Save adjudication"
    rulings,        \* adjudication assignments by article
    decisions,      \* adjudication events
    preflights, selects     \* counters of the bounds

tableVars == <<assignments, events, rulings, decisions>>
adjVars == <<shown, pending>>
vars == <<study, artifact, context, todo, tableVars, view, adjVars, preflights, selects>>

\* The rows of the batch: one per article and annotator, only the first
\* annotator where an article is not annotated twice.
Aids == {aid \in Articles \X Annotators : aid[2] = 1 \/ aid[1] \in study.double}

\* ORDER BY revision DESC LIMIT 1, 0 when there is none.
LatestRevision(aid) ==
    LET Revs == {events[i].revision : i \in {j \in DOMAIN events : events[j].aid = aid}}
    IN  IF Revs = {} THEN 0 ELSE CHOOSE r \in Revs : \A q \in Revs : q <= r

\* export_latest_annotation_events: two tabs that drew one revision are both latest.
LatestEvents == {i \in DOMAIN events : events[i].revision = LatestRevision(events[i].aid)}

Init ==
    /\ study \in Studies
    /\ artifact = [a \in Articles |-> Original]
    /\ context = [s \in Sessions |-> IF study.imported THEN artifact ELSE None]
    /\ todo = [s \in Sessions |-> {}]
    /\ assignments = [aid \in Aids |->
           IF study.imported
           THEN [bound |-> Original,
                 status |-> IF \E i \in DOMAIN study.done : study.done[i].aid = aid
                            THEN "completed" ELSE "assigned"]
           ELSE None]
    /\ events = study.done
    /\ view = [n \in Annotators |-> None]
    /\ shown = None
    /\ pending = None
    /\ rulings = [a \in Articles |-> None]
    /\ decisions = <<>>
    /\ preflights = 0
    /\ selects = 0

-----------------------------------------------------------------------------
(* Preflight and import (page 1).                                           *)

\* run_preflight into the directory of the run, which exists already: the
\* article file is replaced by what the corpus holds now.
Preflight ==
    /\ preflights < study.preflights
    /\ preflights' = preflights + 1
    /\ artifact' \in Corpora
    /\ UNCHANGED <<study, context, todo, tableVars, view, adjVars, selects>>

\* "Select this run and import bound calibration assignments": unsaved form
\* state is cleared, the context is bound to the files as they are.
Select(s) ==
    /\ selects < study.selects
    /\ todo[s] = {} /\ (s = Adjudicator => pending = None)
    /\ selects' = selects + 1
    /\ context' = [context EXCEPT ![s] = artifact]
    /\ todo' = [todo EXCEPT ![s] = Aids]
    /\ view' = [n \in Annotators |-> IF n = s THEN None ELSE view[n]]
    /\ shown' = IF s = Adjudicator THEN None ELSE shown
    /\ UNCHANGED <<study, artifact, tableVars, pending, preflights>>

\* Rows are imported in the order of the file.
NextRow(s) ==
    CHOOSE aid \in todo[s] : \A other \in todo[s] :
        \/ aid[1] < other[1]
        \/ aid[1] = other[1] /\ aid[2] <= other[2]

\* A bug: importing again binds the assignment to the current article.
UpsertedAnew(aid, version) == [bound |-> version, status |-> "assigned"]

\* upsert_annotation_assignment: a row that is there keeps its hashes, its
\* status starts again.
Upserted(aid, version) ==
    IF assignments[aid] = None
    THEN [bound |-> version, status |-> "assigned"]
    ELSE [assignments[aid] EXCEPT !.status = "assigned"]

\* The articles of the import were loaded, and their hash compared with the
\* context, before its first row.
ImportRow(s) ==
    /\ todo[s] # {}
    /\ LET aid == NextRow(s)
       IN  /\ assignments' = [assignments EXCEPT ![aid] = Upserted(aid, context[s][aid[1]])]
           /\ todo' = [todo EXCEPT ![s] = @ \ {aid}]
    /\ UNCHANGED <<study, artifact, context, events, rulings, decisions, view, adjVars,
                   preflights, selects>>

\* An exception (the hashes differ by now, the database is locked) or a kill:
\* the rows imported so far stay.
ImportFails(s) ==
    /\ todo[s] # {}
    /\ todo' = [todo EXCEPT ![s] = {}]
    /\ UNCHANGED <<study, artifact, context, tableVars, view, adjVars, preflights, selects>>

-----------------------------------------------------------------------------
(* Annotation (page 2).                                                     *)

\* load_bound_article: the file is still the one of the context, the article
\* the one of the assignment.
Loadable(s, aid) ==
    /\ context[s] # None
    /\ assignments[aid] # None
    /\ artifact[aid[1]] = assignments[aid].bound
    /\ artifact = context[s]

View(n) ==
    /\ todo[n] = {}
    /\ \E aid \in Aids :
        /\ aid[2] = n
        /\ Loadable(n, aid)
        /\ view' = [view EXCEPT ![n] = [aid |-> aid, version |-> artifact[aid[1]]]]
    /\ UNCHANGED <<study, artifact, context, todo, tableVars, adjVars, preflights, selects>>

\* What another tab of the annotator has just inserted may have been read
\* before it was committed: the revision is drawn again.
DrawnRevisions(aid) == {LatestRevision(aid), LatestRevision(aid) + 1} \ {0}

\* A bug: the status is updated by article instead of by assignment.
SaveByArticle(n) ==
    /\ Len(events) < Len(study.done) + study.saves
    /\ view[n] # None /\ todo[n] = {}
    /\ Loadable(n, view[n].aid)
    /\ \E r \in DrawnRevisions(view[n].aid), l \in Labels :
        events' = Append(events, [aid |-> view[n].aid, revision |-> r, label |-> l,
                                  seen |-> view[n].version])
    /\ assignments' = [aid \in Aids |->
           IF aid[1] = view[n].aid[1] /\ assignments[aid] # None
           THEN [assignments[aid] EXCEPT !.status = "completed"] ELSE assignments[aid]]
    /\ UNCHANGED <<study, artifact, context, todo, rulings, decisions, view, adjVars,
                   preflights, selects>>

\* The run a save click starts loads the article again; validate_and_save_
\* annotation compares it with the assignment and appends the event.
Save(n) ==
    /\ Len(events) < Len(study.done) + study.saves
    /\ view[n] # None /\ todo[n] = {}
    /\ Loadable(n, view[n].aid)
    /\ \E r \in DrawnRevisions(view[n].aid), l \in Labels :
        events' = Append(events, [aid |-> view[n].aid, revision |-> r, label |-> l,
                                  seen |-> view[n].version])
    /\ assignments' = [assignments EXCEPT ![view[n].aid].status = "completed"]
    /\ UNCHANGED <<study, artifact, context, todo, rulings, decisions, view, adjVars,
                   preflights, selects>>

-----------------------------------------------------------------------------
(* Adjudication (page 4).                                                   *)

LatestOf(a) == {i \in LatestEvents : events[i].aid[1] = a}

\* Events of the log by annotator.
InOrder(S, log) ==
    SetToSortSeq(S, LAMBDA i, j : \/ log[i].aid[2] < log[j].aid[2]
                                  \/ log[i].aid[2] = log[j].aid[2] /\ i < j)

\* The latest events of an article, ordered by annotator.
Ordered(a) == InOrder(LatestOf(a), events)

\* Two events with different labels, or more than two events.
Disputed(a) ==
    \/ Len(Ordered(a)) > 2
    \/ /\ Len(Ordered(a)) = 2
       /\ events[Ordered(a)[1]].label # events[Ordered(a)[2]].label

Ascending(S) == SetToSortSeq(S, <)
Disagreements == Ascending({a \in Articles : Disputed(a)})

DefaultPair(a) == <<Ordered(a)[1], Ordered(a)[2]>>

\* Two select boxes over all events of the article; which of the two holds which
\* makes no difference.
Pairs(a) ==
    {<<Ordered(a)[k[1]], Ordered(a)[k[2]]>> :
        k \in {p \in (1..Len(Ordered(a))) \X (1..Len(Ordered(a))) : p[1] <= p[2]}}

\* The first assignment of the article, which the page compares the file with.
Probe(a) == <<a, 1>>

\* The adjudicator picks a disagreement by its index and two of its events.
Show ==
    /\ todo[Adjudicator] = {} /\ pending = None
    /\ \E k \in DOMAIN Disagreements : \E pair \in Pairs(Disagreements[k]) :
        /\ Loadable(Adjudicator, Probe(Disagreements[k]))
        /\ shown' = [index |-> k, of |-> Len(Disagreements), article |-> Disagreements[k],
                     options |-> Ordered(Disagreements[k]), pair |-> pair,
                     at |-> Len(events)]
    /\ UNCHANGED <<study, artifact, context, todo, tableVars, view, pending, preflights, selects>>

\* A bug: the index of the disagreement is not kept between two runs.
RenderedFirst ==
    LET a == Disagreements[1]
    IN  [index |-> 1, of |-> Len(Disagreements), article |-> a, options |-> Ordered(a),
         pair |-> IF shown.options = Ordered(a) THEN shown.pair ELSE DefaultPair(a),
         at |-> Len(events)]

\* What the page makes of its widgets when the click runs it again: a widget
\* whose range or options have changed starts from its default.
Rendered ==
    LET k == IF shown.of = Len(Disagreements) THEN shown.index ELSE 1
        a == Disagreements[k]
    IN  [index |-> k, of |-> Len(Disagreements), article |-> a, options |-> Ordered(a),
         pair |-> IF shown.options = Ordered(a) THEN shown.pair ELSE DefaultPair(a),
         at |-> Len(events)]

Click ==
    /\ Len(decisions) < study.rulings
    /\ shown # None /\ pending = None
    /\ IF Disagreements # <<>> /\ Loadable(Adjudicator, Probe(Rendered.article))
       THEN /\ pending' = [pc |-> "upsert", article |-> Rendered.article,
                           pair |-> Rendered.pair, seen |-> shown, validated |-> 0]
            /\ shown' = Rendered
       ELSE shown' = None /\ UNCHANGED pending
    /\ UNCHANGED <<study, artifact, context, todo, tableVars, view, preflights, selects>>

\* A bug: require_latest is not passed on.
ValidPairOfAny(pair, a) ==
    /\ pair[1] # pair[2]
    /\ \A k \in {1, 2} : events[pair[k]].aid[1] = a
    /\ events[pair[1]].aid[2] # events[pair[2]].aid[2]

\* validate_adjudication_raw_events.
ValidPair(pair, a) ==
    /\ pair[1] # pair[2]
    /\ \A k \in {1, 2} : events[pair[k]].aid[1] = a /\ pair[k] \in LatestEvents
    /\ events[pair[1]].aid[2] # events[pair[2]].aid[2]

\* upsert_adjudication_assignment: an assignment that is there stays as it is.
UpsertRuling ==
    /\ pending # None /\ pending.pc = "upsert"
    /\ ValidPair(pending.pair, pending.article)
    /\ rulings' = IF rulings[pending.article] # None THEN rulings
                  ELSE [rulings EXCEPT ![pending.article] =
                            [raw |-> pending.pair, status |-> "assigned"]]
    /\ pending' = [pending EXCEPT !.pc = "append", !.validated = Len(events)]
    /\ UNCHANGED <<study, artifact, context, todo, assignments, events, decisions, view, shown,
                   preflights, selects>>

\* save_adjudication; the events are not validated again.
AppendDecision ==
    /\ pending # None /\ pending.pc = "append"
    /\ decisions' = Append(decisions,
           [article |-> pending.article, raw |-> pending.pair, seen |-> pending.seen,
            validated |-> pending.validated, at |-> Len(events)])
    /\ rulings' = [rulings EXCEPT ![pending.article].status = "completed"]
    /\ pending' = None
    /\ UNCHANGED <<study, artifact, context, todo, assignments, events, view, shown,
                   preflights, selects>>

\* The events are refused, the reason is too short, the database is locked:
\* an assignment that has been created stays.
ClickFails ==
    /\ pending # None
    /\ pending' = None
    /\ UNCHANGED <<study, artifact, context, todo, tableVars, view, shown, preflights, selects>>

Next ==
    \/ Preflight
    \/ \E s \in Sessions : Select(s) \/ ImportRow(s) \/ ImportFails(s)
    \/ \E n \in Annotators : View(n) \/ Save(n)
    \/ Show \/ Click \/ UpsertRuling \/ AppendDecision \/ ClickFails

Spec == Init /\ [][Next]_vars

-----------------------------------------------------------------------------
(* Readiness (completion_counts, audit_snapshot).  Duplicate reviews count   *)
(* like annotations and are left out.                                        *)

Imported == {aid \in Aids : assignments[aid] # None}
Completed == {aid \in Imported : assignments[aid].status = "completed"}

AnnotationReady == Imported # {} /\ Imported = Completed

Twice(S) == {a \in Articles : Cardinality({aid \in S : aid[1] = a}) >= 2}

DoubleReady == Twice(Imported) = {} \/ Cardinality(Twice(Completed)) >= Cardinality(Twice(Imported))

Ruled == {a \in Articles : rulings[a] # None}

AdjudicationReady == \A a \in Ruled : rulings[a].status = "completed"

FormalReady == AnnotationReady /\ DoubleReady /\ AdjudicationReady

-----------------------------------------------------------------------------
(* Properties.                                                              *)

\* Every decision was taken looking at the content its assignment is bound to,
\* whatever preflights have rewritten since: "hash mismatch blocks display and
\* save", and an import never binds an assignment anew.
AnnotatedAsBound ==
    \A i \in DOMAIN events : events[i].seen = assignments[events[i].aid].bound

\* An adjudication rests on two events of its article by different annotators,
\* each the latest of its assignment when the pair was validated.
DecisionsGrounded ==
    \A k \in DOMAIN decisions : \A x, y \in {1, 2} :
        LET d == decisions[k]
            e == events[d.raw[x]]
        IN  /\ e.aid[1] = d.article
            /\ x # y => events[d.raw[y]].aid # e.aid
            /\ \A j \in 1..d.validated : events[j].aid = e.aid => events[j].revision <= e.revision

\* Unless somebody has annotated in between, an adjudication is of the article
\* and the events the adjudicator looked at when pressing the button: widgets
\* that start from their defaults do so only when events have changed.
AdjudicatedAsShown ==
    \A k \in DOMAIN decisions :
        LET d == decisions[k]
        IN  d.seen.at = d.at => d.article = d.seen.article /\ d.raw = d.seen.pair

\* "Formal pilot analysis ready" is never said while an imported assignment has
\* no event, an article annotated twice lacks one of the two, or a created
\* adjudication has no decision, whatever was imported again or failed half-way.
ReadinessTruthful ==
    FormalReady =>
        /\ \A aid \in Imported : LatestRevision(aid) > 0
        /\ \A a \in Twice(Imported) : {events[i].aid[2] : i \in LatestOf(a)} = Annotators
        /\ \A a \in Ruled : \E k \in DOMAIN decisions : decisions[k].article = a

=============================================================================

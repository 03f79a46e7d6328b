---------------------------- MODULE StudyProofs ----------------------------
(***************************************************************************)
(* Theorems about the annotation study (PilotReview, AnnotationExport), for *)
(* any articles, labels, contents and length of the study: what annotations *)
(* are bound to, what adjudications rest on, what readiness promises, and   *)
(* what the exported files are.                                            *)
(***************************************************************************)
EXTENDS AnnotationExport, WellFoundedInduction, FiniteSetTheorems, TLAPS

\* An export reads the study and changes nothing of it.
LEMMA StudyOrExport == [ExportNext]_allVars => [Next]_vars
BY DEF ExportNext, ExportStep, Begin, Open, Write, Replace, Record, Breaks, allVars

-----------------------------------------------------------------------------
(* The latest revision.                                                    *)

\* Every non-empty set of naturals has a least element: bounds are found through it.
LEMMA LeastNatural ==
    ASSUME NEW T, T \subseteq Nat, T # {}
    PROVE  \E m \in T : \A n \in T : m <= n
<1>1. PICK m \in T : \A n \in T : <<n, m>> \notin OpToRel(<, Nat)
  BY NatLessThanWellFounded, WFMin, Zenon
<1>2. \A n, k \in Nat : n < k => <<n, k>> \in OpToRel(<, Nat)
  BY Zenon DEF OpToRel
<1>3. \A n \in T : ~(n < m)  BY <1>1, <1>2, Zenon
<1>4. QED  BY <1>3

\* Finitely many numbers have a bound: there is no shortest sequence without one.
LEMMA SequenceBound ==
    ASSUME NEW n \in Nat, NEW f, \A i \in 1..n : f[i] \in Nat
    PROVE  \E b \in Nat : \A i \in 1..n : f[i] <= b
<1> DEFINE Has(k, b) == \A i \in 1..k : f[i] <= b
           unbounded == {k \in 0..n : \A b \in Nat : ~Has(k, b)}
<1>1. SUFFICES unbounded = {}
  <2>1. n \in 0..n  OBVIOUS
  <2>2. ~(\A b \in Nat : ~Has(n, b))  BY <1>1, <2>1
  <2>3. QED  BY <2>2
<1>2. SUFFICES ASSUME unbounded # {} PROVE FALSE
  OBVIOUS
<1>3. unbounded \subseteq Nat  OBVIOUS
<1>4. PICK k \in unbounded : \A j \in unbounded : k <= j
  <2> HIDE DEF unbounded
  <2>1. QED  BY <1>2, <1>3, LeastNatural
<1>5. k # 0
  <2>1. ASSUME k = 0 PROVE FALSE
    <3>1. Has(k, 0)  BY <2>1
    <3>2. QED  BY <3>1
  <2>2. QED  BY <2>1
<1>6. k \in 1..n /\ k - 1 \in 0..n /\ k - 1 \notin unbounded
  <2>1. k \in 1..n /\ k - 1 \in 0..n  BY <1>5
  <2> HIDE DEF unbounded
  <2>2. k - 1 \notin unbounded  BY <1>4, <2>1
  <2>3. QED  BY <2>1, <2>2
<1>7. PICK b \in Nat : Has(k - 1, b)
  BY <1>6
<1>8. f[k] \in Nat /\ \A i \in 1..k : f[i] \in Nat  BY <1>6
<1>9. PICK c \in Nat : b <= c /\ f[k] <= c
  <2>1. CASE b <= f[k]  BY <1>8, <2>1
  <2>2. CASE ~(b <= f[k])  BY <1>8, <2>2
  <2>3. QED  BY <2>1, <2>2
<1>10. Has(k, c)
  <2>1. ASSUME NEW i \in 1..k PROVE f[i] <= c
    <3>1. CASE i = k  BY <1>9, <3>1
    <3>2. CASE i # k
      <4>1. i \in 1..k - 1  BY <1>6, <3>2
      <4>2. f[i] <= b /\ f[i] \in Nat  BY <1>7, <1>8, <4>1
      <4>3. QED  BY <1>9, <4>2
    <3>3. QED  BY <3>1, <3>2
  <2>2. QED  BY <2>1
<1>11. QED  BY <1>4, <1>10

\* A non-empty set of numbers with a bound has a largest element.
LEMMA LargestNatural ==
    ASSUME NEW T, T \subseteq Nat, T # {}, NEW b \in Nat, \A n \in T : n <= b
    PROVE  \E m \in T : \A n \in T : n <= m
<1> DEFINE bounds == {c \in Nat : \A n \in T : n <= c}
<1>1. PICK m \in bounds : \A c \in bounds : m <= c
  <2>1. bounds \subseteq Nat /\ b \in bounds  OBVIOUS
  <2> HIDE DEF bounds
  <2>2. QED  BY <2>1, LeastNatural
<1>2. m \in T
  <2>1. SUFFICES ASSUME m \notin T PROVE FALSE  OBVIOUS
  <2>2. \A n \in T : n <= m /\ n # m /\ n \in Nat  BY <1>1, <2>1
  <2>3. m \in Nat  OBVIOUS
  <2>4. PICK n \in T : TRUE  OBVIOUS
  <2>5. m # 0  BY <2>2, <2>3, <2>4
  <2>6. m - 1 \in Nat /\ \A q \in T : q <= m - 1  BY <2>2, <2>3, <2>5
  <2>7. QED  BY <1>1, <2>3, <2>6
<1>3. QED  BY <1>2

\* LatestRevision is the largest revision of the assignment, and one of its events has it.
LEMMA LatestIsLargest ==
    ASSUME events \in Seq(Event), NEW aid
    PROVE  /\ LatestRevision(aid) \in Nat
           /\ \A i \in DOMAIN events : events[i].aid = aid =>
                 /\ 0 < LatestRevision(aid) /\ events[i].revision <= LatestRevision(aid)
                 /\ \E j \in DOMAIN events : /\ events[j].aid = aid
                                             /\ events[j].revision = LatestRevision(aid)
<1> DEFINE Revs == {events[i].revision : i \in {j \in DOMAIN events : events[j].aid = aid}}
<1>1. \A i \in DOMAIN events : events[i].revision \in Nat \ {0}
  <2>1. \A i \in DOMAIN events : events[i] \in Event  OBVIOUS
  <2>2. QED  BY <2>1 DEF Event
<1>2. LatestRevision(aid) = IF Revs = {} THEN 0 ELSE CHOOSE r \in Revs : \A q \in Revs : q <= r
  BY DEF LatestRevision
<1>3. CASE Revs = {}
  <2>1. \A i \in DOMAIN events : events[i].aid # aid  BY <1>3
  <2>2. LatestRevision(aid) = 0  BY <1>2, <1>3
  <2>3. QED  BY <2>1, <2>2
<1>4. CASE Revs # {}
  <2>1. Len(events) \in Nat /\ DOMAIN events = 1..Len(events)  OBVIOUS
  <2> DEFINE f == [i \in 1..Len(events) |-> events[i].revision]
  <2>2. \A i \in 1..Len(events) : f[i] \in Nat  BY <1>1, <2>1
  <2> HIDE DEF f
  <2>3. PICK b \in Nat : \A i \in 1..Len(events) : f[i] <= b  BY <2>1, <2>2, SequenceBound
  <2>4. Revs \subseteq Nat \ {0} /\ \A r \in Revs : r <= b  BY <1>1, <2>1, <2>3 DEF f
  <2> HIDE DEF Revs
  <2>5. \E r \in Revs : \A q \in Revs : q <= r  BY <1>4, <2>4, LargestNatural
  <2>6. LatestRevision(aid) \in Revs /\ \A q \in Revs : q <= LatestRevision(aid)
    BY <1>2, <1>4, <2>5
  <2>7. LatestRevision(aid) \in Nat \ {0}  BY <2>4, <2>6
  <2>8. QED  BY <2>6, <2>7 DEF Revs
<1>5. QED  BY <1>3, <1>4

-----------------------------------------------------------------------------
(* What an annotation is bound to.                                         *)

Looking == [aid : Aids, version : Versions]

StudyType ==
    /\ study \in Studies
    /\ artifact \in Corpora
    /\ context \in [Sessions -> Corpora \cup {None}]
    /\ todo \in [Sessions -> SUBSET Aids]
    /\ \A s \in Sessions : todo[s] # {} => context[s] # None
    /\ assignments \in [Aids -> Assignment \cup {None}]
    /\ events \in Seq(Event)
    /\ view \in [Annotators -> Looking \cup {None}]

\* What has been annotated or is looked at is imported, with the content it is bound to.
Bound ==
    /\ \A i \in DOMAIN events :
          /\ events[i].aid \in Aids /\ assignments[events[i].aid] # None
          /\ events[i].seen = assignments[events[i].aid].bound
    /\ \A n \in Annotators : view[n] # None =>
          /\ view[n].aid \in Aids /\ assignments[view[n].aid] # None
          /\ view[n].version = assignments[view[n].aid].bound

LEMMA AidsFixed == [Next]_vars => study' = study /\ Aids' = Aids
<1>1. [Next]_vars => study' = study
  BY DEF Next, vars, Preflight, Select, ImportRow, ImportFails, View, Save, Show, Click,
     UpsertRuling, AppendDecision, ClickFails
<1>2. QED  BY <1>1 DEF Aids

LEMMA BoundInit == Init => StudyType /\ Bound
<1> SUFFICES ASSUME Init PROVE StudyType /\ Bound
  OBVIOUS
<1>1. /\ study \in Studies /\ study \in StudyRecord /\ events = study.done
      /\ events \in Seq(Event)
  BY ReviewAssumption DEF Init, StudyRecord
<1>2. artifact \in Corpora  BY ReviewAssumption DEF Init, Corpora
<1>3. \A i \in DOMAIN events :
          study.imported /\ events[i].aid \in Aids /\ events[i].seen = Original
  <2> SUFFICES ASSUME NEW i \in DOMAIN events
               PROVE  study.imported /\ events[i].aid \in Aids /\ events[i].seen = Original
    OBVIOUS
  <2>1. events[i] \in Event  BY <1>1
  <2>2. events[i].aid \in Articles \X Annotators  BY <2>1 DEF Event
  <2>3. /\ study.imported /\ events[i].seen = Original
        /\ events[i].aid[2] = 1 \/ events[i].aid[1] \in study.double
    BY <1>1, ReviewAssumption
  <2>4. QED  BY <2>2, <2>3 DEF Aids
<1>4. assignments \in [Aids -> Assignment \cup {None}]
  BY ReviewAssumption DEF Init, Assignment
<1>5. \A i \in DOMAIN events :
          /\ assignments[events[i].aid] \in Assignment
          /\ assignments[events[i].aid].bound = Original
  BY <1>3, ReviewAssumption DEF Init, Assignment
<1>6. \A i \in DOMAIN events : assignments[events[i].aid] # None
  BY <1>5, ReviewAssumption
<1>7. Bound  BY <1>3, <1>5, <1>6 DEF Bound, Init
<1>8. StudyType  BY <1>1, <1>2, <1>4 DEF StudyType, Init
<1>9. QED  BY <1>7, <1>8

\* An import binds what was not bound and leaves the rest as it is.
LEMMA ImportBinds ==
    ASSUME StudyType, NEW s \in Sessions, ImportRow(s)
    PROVE  /\ assignments' \in [Aids -> Assignment \cup {None}]
           /\ \A aid \in Aids : assignments[aid] # None =>
                 /\ assignments'[aid] # None
                 /\ assignments'[aid].bound = assignments[aid].bound
<1> DEFINE row == NextRow(s)
           new == Upserted(row, context[s][row[1]])
<1>1. assignments' = [assignments EXCEPT ![row] = new]  BY DEF ImportRow
<1>2. ASSUME row \in Aids
      PROVE  /\ new \in Assignment
             /\ assignments[row] # None => new.bound = assignments[row].bound
  <2>1. context[s] \in Corpora  BY DEF ImportRow, StudyType
  <2>2. context[s][row[1]] \in Versions  BY <1>2, <2>1 DEF Aids, Corpora
  <2>3. assignments[row] \in Assignment \cup {None}  BY <1>2 DEF StudyType
  <2> HIDE DEF row
  <2>4. CASE assignments[row] = None  BY <2>2, <2>4 DEF Upserted, Assignment
  <2>5. CASE assignments[row] # None  BY <2>3, <2>5 DEF Upserted, Assignment
  <2>6. QED  BY <2>4, <2>5
<1> HIDE DEF row, new
<1>3. QED  BY <1>1, <1>2, ReviewAssumption DEF StudyType

\* What is loaded has the content its assignment is bound to.
LEMMA Loads ==
    ASSUME StudyType, NEW s \in Sessions, NEW aid \in Aids, Loadable(s, aid)
    PROVE  /\ assignments[aid] \in Assignment
           /\ assignments[aid].bound = artifact[aid[1]]
           /\ artifact[aid[1]] \in Versions
BY DEF StudyType, Loadable, Aids, Corpora

LEMMA SaveKeeps ==
    ASSUME StudyType, Bound, NEW n \in Annotators, Save(n)
    PROVE  /\ view[n] \in Looking /\ assignments[view[n].aid] \in Assignment
           /\ view[n].version = assignments[view[n].aid].bound
           /\ assignments' = [assignments EXCEPT ![view[n].aid].status = "completed"]
           /\ \E e \in Event : /\ events' = Append(events, e) /\ e.aid = view[n].aid
                               /\ e.seen = view[n].version
<1>1. view[n] \in Looking /\ view[n] # None  BY DEF Save, StudyType
<1>2. /\ view[n].aid \in Aids /\ assignments[view[n].aid] # None
      /\ view[n].version = assignments[view[n].aid].bound
  BY <1>1 DEF Bound
<1>3. assignments[view[n].aid] \in Assignment  BY <1>2 DEF StudyType
<1>4. PICK r \in DrawnRevisions(view[n].aid), l \in Labels :
          events' = Append(events, [aid |-> view[n].aid, revision |-> r, label |-> l,
                                    seen |-> view[n].version])
  BY DEF Save
<1>5. r \in Nat \ {0}
  <2>1. events \in Seq(Event)  BY DEF StudyType
  <2>2. LatestRevision(view[n].aid) \in Nat  BY <2>1, LatestIsLargest
  <2>3. QED  BY <2>2 DEF DrawnRevisions
<1>6. view[n].aid \in Articles \X Annotators /\ view[n].version \in Versions
  BY <1>1, <1>2 DEF Aids, Looking
<1>7. [aid |-> view[n].aid, revision |-> r, label |-> l, seen |-> view[n].version] \in Event
  BY <1>5, <1>6 DEF Event
<1>8. assignments' = [assignments EXCEPT ![view[n].aid].status = "completed"]  BY DEF Save
<1>9. QED  BY <1>1, <1>2, <1>3, <1>4, <1>7, <1>8

LEMMA BoundStep == StudyType /\ Bound /\ [Next]_vars => StudyType' /\ Bound'
<1> SUFFICES ASSUME StudyType, Bound, [Next]_vars PROVE StudyType' /\ Bound'
  OBVIOUS
<1>0. study' = study /\ Aids' = Aids  BY AidsFixed
<1>1. CASE Preflight
  BY <1>0, <1>1 DEF Preflight, tableVars, StudyType, Bound, Looking
<1>2. ASSUME NEW s \in Sessions, Select(s) PROVE StudyType' /\ Bound'
  <2>1. /\ UNCHANGED <<artifact, assignments, events>>
        /\ context' = [context EXCEPT ![s] = artifact] /\ todo' = [todo EXCEPT ![s] = Aids]
        /\ view' = [n \in Annotators |-> IF n = s THEN None ELSE view[n]]
    BY <1>2 DEF Select, tableVars
  <2>2. artifact # None  BY ReviewAssumption DEF StudyType
  <2>3. StudyType'  BY <1>0, <2>1, <2>2 DEF StudyType, Looking
  <2>4. Bound'  BY <1>0, <2>1 DEF Bound
  <2>5. QED  BY <2>3, <2>4
<1>3. ASSUME NEW s \in Sessions, ImportRow(s) PROVE StudyType' /\ Bound'
  <2>1. /\ UNCHANGED <<artifact, context, events, view>>
        /\ todo' = [todo EXCEPT ![s] = @ \ {NextRow(s)}]
    BY <1>3 DEF ImportRow
  <2>2. /\ assignments' \in [Aids -> Assignment \cup {None}]
        /\ \A aid \in Aids : assignments[aid] # None =>
              /\ assignments'[aid] # None
              /\ assignments'[aid].bound = assignments[aid].bound
    BY <1>3, ImportBinds
  <2>3. todo' \in [Sessions -> SUBSET Aids] /\ \A x \in Sessions : todo'[x] \subseteq todo[x]
    BY <2>1 DEF StudyType
  <2>4. StudyType'  BY <1>0, <2>1, <2>2, <2>3 DEF StudyType, Looking
  <2>5. Bound'  BY <1>0, <2>1, <2>2 DEF Bound
  <2>6. QED  BY <2>4, <2>5
<1>4. ASSUME NEW s \in Sessions, ImportFails(s) PROVE StudyType' /\ Bound'
  <2>1. /\ UNCHANGED <<artifact, context, assignments, events, view>>
        /\ todo' = [todo EXCEPT ![s] = {}]
    BY <1>4 DEF ImportFails, tableVars
  <2>2. QED  BY <1>0, <2>1 DEF StudyType, Looking, Bound
<1>5. ASSUME NEW n \in Annotators, View(n) PROVE StudyType' /\ Bound'
  <2>1. PICK aid \in Aids :
            /\ Loadable(n, aid)
            /\ view' = [view EXCEPT ![n] = [aid |-> aid, version |-> artifact[aid[1]]]]
    BY <1>5 DEF View
  <2>2. UNCHANGED <<artifact, context, todo, assignments, events>>
    BY <1>5 DEF View, tableVars
  <2>3. /\ assignments[aid] \in Assignment /\ assignments[aid].bound = artifact[aid[1]]
        /\ artifact[aid[1]] \in Versions
    BY <2>1, Loads DEF Sessions
  <2>4. StudyType'  BY <1>0, <2>1, <2>2, <2>3 DEF StudyType, Looking
  <2>5. Bound'  BY <1>0, <2>1, <2>2, <2>3, ReviewAssumption DEF Bound, StudyType
  <2>6. QED  BY <2>4, <2>5
<1>6. ASSUME NEW n \in Annotators, Save(n) PROVE StudyType' /\ Bound'
  <2> DEFINE aid == view[n].aid
  <2>1. /\ view[n] \in Looking /\ assignments[aid] \in Assignment
        /\ view[n].version = assignments[aid].bound
        /\ assignments' = [assignments EXCEPT ![aid].status = "completed"]
    BY <1>6, SaveKeeps
  <2>2. PICK e \in Event : events' = Append(events, e) /\ e.aid = aid /\ e.seen = view[n].version
    BY <1>6, SaveKeeps
  <2>3. UNCHANGED <<artifact, context, todo, view>>  BY <1>6 DEF Save
  <2>4. aid \in Aids  BY <2>1 DEF Looking
  <2> HIDE DEF aid
  <2>5. /\ assignments' \in [Aids -> Assignment \cup {None}]
        /\ \A x \in Aids : assignments[x] # None =>
              /\ assignments'[x] # None
              /\ assignments'[x].bound = assignments[x].bound
    <3>1. [assignments[aid] EXCEPT !.status = "completed"] \in Assignment
      BY <2>1 DEF Assignment
    <3>2. [assignments[aid] EXCEPT !.status = "completed"].bound = assignments[aid].bound
      BY <2>1 DEF Assignment
    <3>3. assignments' = [assignments EXCEPT ![aid] = [assignments[aid] EXCEPT !.status = "completed"]]
      BY <2>1
    <3>4. QED  BY <2>4, <3>1, <3>2, <3>3, ReviewAssumption DEF StudyType
  <2>6. events' \in Seq(Event) /\ events \in Seq(Event)  BY <2>2 DEF StudyType
  <2>7. StudyType'  BY <1>0, <2>3, <2>5, <2>6 DEF StudyType, Looking
  <2>8. \A i \in DOMAIN events' : (i \in DOMAIN events /\ events'[i] = events[i]) \/ events'[i] = e
    BY <2>2, <2>6
  <2>9. assignments[aid] # None  BY <2>1, ReviewAssumption
  <2>10. Bound'  BY <1>0, <2>1, <2>2, <2>3, <2>4, <2>5, <2>8, <2>9 DEF Bound
  <2>11. QED  BY <2>7, <2>10
<1>7. CASE Show \/ Click \/ UpsertRuling \/ AppendDecision \/ ClickFails \/ UNCHANGED vars
  <2>1. UNCHANGED <<artifact, context, todo, assignments, events, view>>
    BY <1>7 DEF Show, Click, UpsertRuling, AppendDecision, ClickFails, vars, tableVars
  <2>2. QED  BY <1>0, <2>1 DEF StudyType, Bound, Looking
<1>8. QED  BY <1>1, <1>2, <1>3, <1>4, <1>5, <1>6, <1>7 DEF Next

LEMMA BoundAlways == ExportSpec => [](StudyType /\ Bound)
<1>1. ExportInit => StudyType /\ Bound  BY BoundInit DEF ExportInit
<1>2. (StudyType /\ Bound) /\ [ExportNext]_allVars => (StudyType /\ Bound)'
  BY StudyOrExport, BoundStep
<1>3. QED  BY <1>1, <1>2, PTL DEF ExportSpec

\* Every annotation was taken looking at the content its assignment is bound to, whatever
\* preflights rewrite and however often the batch is imported (load_bound_article,
\* upsert_annotation_assignment), for any batch, contents and number of saves.
THEOREM AnnotatedAsBoundAlways == ExportSpec => []AnnotatedAsBound
<1>1. Bound => AnnotatedAsBound  BY DEF Bound, AnnotatedAsBound
<1>2. QED  BY <1>1, BoundAlways, PTL

-----------------------------------------------------------------------------
(* What an adjudication rests on.                                          *)

\* A sequence, of whatever elements it has.
Proper(s) == s \in Seq({s[i] : i \in DOMAIN s})

LEMMA AppendProper ==
    ASSUME NEW s, Proper(s), NEW e
    PROVE  /\ Proper(Append(s, e))
           /\ \A i \in DOMAIN Append(s, e) :
                 (i \in DOMAIN s /\ Append(s, e)[i] = s[i]) \/ Append(s, e)[i] = e
           /\ \A i \in DOMAIN s : i \in DOMAIN Append(s, e) /\ Append(s, e)[i] = s[i]
           /\ \E i \in DOMAIN Append(s, e) : Append(s, e)[i] = e
<1> DEFINE R == {s[i] : i \in DOMAIN s}
           T == R \cup {e}
           new == Append(s, e)
<1>1. s \in Seq(R)  BY DEF Proper
<1>2. s \in Seq(T)
  <2>1. \A i \in 1..Len(s) : s[i] \in T  BY <1>1
  <2>2. DOMAIN s = 1..Len(s) /\ Len(s) \in Nat /\ s = [i \in 1..Len(s) |-> s[i]]  BY <1>1
  <2> HIDE DEF R, T
  <2>3. QED  BY <2>1, <2>2
<1> HIDE DEF R
<1>3. new \in Seq(T) /\ Len(new) = Len(s) + 1 /\ Len(s) \in Nat  BY <1>2
<1>4. /\ DOMAIN new = 1..Len(s) + 1 /\ DOMAIN s = 1..Len(s)
      /\ \A i \in 1..Len(s) : new[i] = s[i]
      /\ new[Len(s) + 1] = e
  BY <1>2
<1>5. new \in Seq({new[i] : i \in DOMAIN new})
  <2> HIDE DEF new, T
  <2>1. \A i \in 1..Len(new) : new[i] \in {new[j] : j \in DOMAIN new}  BY <1>3
  <2>2. new = [i \in 1..Len(new) |-> new[i]] /\ Len(new) \in Nat  BY <1>3
  <2>3. QED  BY <2>1, <2>2
<1> HIDE DEF new
<1>6. QED  BY <1>3, <1>4, <1>5 DEF new, Proper

LEMMA EventsGrow ==
    ASSUME StudyType, Bound, [Next]_vars
    PROVE  events' = events \/ \E e \in Event : events' = Append(events, e)
<1>1. ASSUME NEW n \in Annotators, Save(n) PROVE \E e \in Event : events' = Append(events, e)
  BY <1>1, SaveKeeps
<1>2. CASE ~\E n \in Annotators : Save(n)
  <2>1. events' = events
    BY <1>2 DEF Next, vars, tableVars, Preflight, Select, ImportRow, ImportFails, View, Show,
       Click, UpsertRuling, AppendDecision, ClickFails
  <2>2. QED  BY <2>1
<1>3. QED  BY <1>1, <1>2

\* Two events of the article by different annotators, each with the largest revision of its
\* assignment among the first events of the log.
Grounds(log, article, raw, first) ==
    /\ first \in 0..Len(log)
    /\ \A x \in {1, 2} :
          /\ raw[x] \in DOMAIN log /\ log[raw[x]].aid[1] = article
          /\ \A j \in 1..first : log[j].aid = log[raw[x]].aid => log[j].revision <= log[raw[x]].revision
    /\ log[raw[1]].aid # log[raw[2]].aid

\* Later events take nothing from an adjudication's grounds.
LEMMA GroundsKept ==
    ASSUME NEW log \in Seq(Event), NEW e \in Event, NEW article, NEW raw, NEW first,
           Grounds(log, article, raw, first)
    PROVE  Grounds(Append(log, e), article, raw, first)
<1> DEFINE new == Append(log, e)
<1>1. /\ Len(new) = Len(log) + 1 /\ Len(log) \in Nat
      /\ DOMAIN log = 1..Len(log) /\ DOMAIN new = 1..Len(log) + 1
      /\ \A i \in 1..Len(log) : new[i] = log[i]
  OBVIOUS
<1> HIDE DEF new
<1>2. first \in 0..Len(new)  BY <1>1 DEF Grounds
<1>3. \A x \in {1, 2} : raw[x] \in DOMAIN log /\ raw[x] \in DOMAIN new /\ new[raw[x]] = log[raw[x]]
  BY <1>1 DEF Grounds
<1>4. \A j \in 1..first : new[j] = log[j]  BY <1>1 DEF Grounds
<1>5. Grounds(new, article, raw, first)  BY <1>2, <1>3, <1>4 DEF Grounds
<1>6. QED  BY <1>5 DEF new

\* validate_adjudication_raw_events accepts a pair only on these grounds.
LEMMA ValidGrounds ==
    ASSUME events \in Seq(Event), NEW article, NEW pair, ValidPair(pair, article)
    PROVE  Grounds(events, article, pair, Len(events))
<1>1. Len(events) \in Nat /\ DOMAIN events = 1..Len(events)  OBVIOUS
<1>2. ASSUME NEW x \in {1, 2}
      PROVE  /\ pair[x] \in DOMAIN events /\ events[pair[x]].aid[1] = article
             /\ events[pair[x]].revision = LatestRevision(events[pair[x]].aid)
  BY DEF ValidPair, LatestEvents
<1>3. ASSUME NEW x \in {1, 2}, NEW j \in 1..Len(events), events[j].aid = events[pair[x]].aid
      PROVE  events[j].revision <= events[pair[x]].revision
  <2>1. events[j].revision <= LatestRevision(events[pair[x]].aid)
    BY <1>1, <1>3, LatestIsLargest
  <2>2. QED  BY <1>2, <2>1
<1>4. events[pair[1]].aid # events[pair[2]].aid  BY DEF ValidPair
<1>5. QED  BY <1>1, <1>2, <1>3, <1>4 DEF Grounds

\* A running click is a record, and a validated one has its grounds.
ClickGrounded ==
    pending # None =>
        /\ pending = [pc |-> pending.pc, article |-> pending.article, pair |-> pending.pair,
                      seen |-> pending.seen, validated |-> pending.validated]
        /\ pending.pc = "append" =>
              Grounds(events, pending.article, pending.pair, pending.validated)

AllGrounded ==
    /\ Proper(decisions)
    /\ \A k \in DOMAIN decisions :
          Grounds(events, decisions[k].article, decisions[k].raw, decisions[k].validated)

LEMMA GroundedStep ==
    StudyType /\ Bound /\ ClickGrounded /\ AllGrounded /\ [Next]_vars
        => ClickGrounded' /\ AllGrounded'
<1> SUFFICES ASSUME StudyType, Bound, ClickGrounded, AllGrounded, [Next]_vars
             PROVE  ClickGrounded' /\ AllGrounded'
  OBVIOUS
<1>1. events \in Seq(Event)  BY DEF StudyType
<1>2. CASE UNCHANGED <<pending, decisions>>
  <2>1. ASSUME NEW article, NEW raw, NEW first, Grounds(events, article, raw, first)
        PROVE  Grounds(events', article, raw, first)
    BY <1>1, <2>1, EventsGrow, GroundsKept
  <2>2. QED  BY <1>2, <2>1 DEF ClickGrounded, AllGrounded, Proper
<1>3. CASE Click
  <2>1. UNCHANGED <<events, decisions>>  BY <1>3 DEF Click, tableVars
  <2>2. pending' = pending \/ pending' = [pc |-> "upsert", article |-> Rendered.article,
                         pair |-> Rendered.pair, seen |-> shown, validated |-> 0]
    BY <1>3 DEF Click
  <2>3. QED  BY <2>1, <2>2 DEF ClickGrounded, AllGrounded, Proper
<1>4. CASE UpsertRuling
  <2>1. /\ UNCHANGED <<events, decisions>> /\ pending # None
        /\ ValidPair(pending.pair, pending.article)
        /\ pending' = [pending EXCEPT !.pc = "append", !.validated = Len(events)]
    BY <1>4 DEF UpsertRuling
  <2>2. pending' = [pc |-> "append", article |-> pending.article, pair |-> pending.pair,
                    seen |-> pending.seen, validated |-> Len(events)]
    BY <2>1 DEF ClickGrounded
  <2>3. Grounds(events, pending.article, pending.pair, Len(events))
    BY <1>1, <2>1, ValidGrounds
  <2>4. QED  BY <2>1, <2>2, <2>3 DEF ClickGrounded, AllGrounded, Proper
<1>5. CASE AppendDecision
  <2> DEFINE d == [article |-> pending.article, raw |-> pending.pair, seen |-> pending.seen,
                   validated |-> pending.validated, at |-> Len(events)]
  <2>1. /\ UNCHANGED events /\ decisions' = Append(decisions, d) /\ pending' = None
        /\ pending # None /\ pending.pc = "append"
    BY <1>5 DEF AppendDecision
  <2>2. Grounds(events, d.article, d.raw, d.validated)  BY <2>1 DEF ClickGrounded
  <2> HIDE DEF d
  <2>3. /\ Proper(decisions')
        /\ \A k \in DOMAIN decisions' :
              (k \in DOMAIN decisions /\ decisions'[k] = decisions[k]) \/ decisions'[k] = d
    BY <2>1, AppendProper DEF AllGrounded
  <2>4. QED  BY <2>1, <2>2, <2>3 DEF ClickGrounded, AllGrounded, Proper
<1>6. CASE ClickFails
  BY <1>6 DEF ClickFails, tableVars, ClickGrounded, AllGrounded, Proper
<1>7. CASE Preflight \/ Show \/ UNCHANGED vars
  BY <1>2, <1>7 DEF Preflight, Show, vars, tableVars, adjVars
<1>8. ASSUME NEW s \in Sessions, Select(s) \/ ImportRow(s) \/ ImportFails(s)
      PROVE  UNCHANGED <<pending, decisions>>
  BY <1>8 DEF Select, ImportRow, ImportFails, tableVars, adjVars
<1>9. ASSUME NEW n \in Annotators, View(n) \/ Save(n) PROVE UNCHANGED <<pending, decisions>>
  BY <1>9 DEF View, Save, tableVars, adjVars
<1>10. QED  BY <1>2, <1>3, <1>4, <1>5, <1>6, <1>7, <1>8, <1>9 DEF Next

LEMMA GroundedAlways == ExportSpec => [](ClickGrounded /\ AllGrounded)
<1>1. ExportInit => ClickGrounded /\ AllGrounded
  BY DEF ExportInit, Init, ClickGrounded, AllGrounded, Proper
<1>2. (StudyType /\ Bound) /\ (ClickGrounded /\ AllGrounded) /\ [ExportNext]_allVars
          => (ClickGrounded /\ AllGrounded)'
  BY StudyOrExport, GroundedStep
<1>3. QED  BY <1>1, <1>2, BoundAlways, PTL DEF ExportSpec

\* Every adjudication rests on two events of its article by different annotators, each the
\* latest of its assignment when validate_adjudication_raw_events accepted the pair, however
\* many annotations arrive between the validation and the decision, and after it.
THEOREM DecisionsGroundedAlways == ExportSpec => []DecisionsGrounded
<1>1. AllGrounded => DecisionsGrounded
  <2> SUFFICES ASSUME AllGrounded, NEW k \in DOMAIN decisions, NEW x \in {1, 2}, NEW y \in {1, 2}
               PROVE  LET d == decisions[k]
                          e == events[d.raw[x]]
                      IN  /\ e.aid[1] = d.article
                          /\ x # y => events[d.raw[y]].aid # e.aid
                          /\ \A j \in 1..d.validated :
                                events[j].aid = e.aid => events[j].revision <= e.revision
    BY DEF DecisionsGrounded
  <2>1. Grounds(events, decisions[k].article, decisions[k].raw, decisions[k].validated)
    BY DEF AllGrounded
  <2>2. QED  BY <2>1 DEF Grounds
<1>2. QED  BY <1>1, GroundedAlways, PTL

-----------------------------------------------------------------------------
(* What the adjudicator looked at.                                         *)

\* The pages show the same while nobody annotates.
LEMMA SameEvents ==
    ASSUME events' = events
    PROVE  LatestEvents' = LatestEvents /\ Disagreements' = Disagreements
<1>1. ASSUME NEW aid PROVE LatestRevision(aid)' = LatestRevision(aid)
  BY DEF LatestRevision
<1>2. LatestEvents' = LatestEvents
  <2>1. \A i \in DOMAIN events : LatestRevision(events[i].aid)' = LatestRevision(events[i].aid)
    BY DEF LatestRevision
  <2>2. QED  BY <2>1 DEF LatestEvents
<1>3. ASSUME NEW a PROVE Ordered(a)' = Ordered(a)
  BY <1>2 DEF Ordered, LatestOf
<1>4. ASSUME NEW a PROVE Disputed(a)' = Disputed(a)
  BY <1>3 DEF Disputed
<1>5. {a \in Articles : Disputed(a)'} = {a \in Articles : Disputed(a)}
  BY <1>4
<1>6. Disagreements' = Disagreements
  BY <1>5 DEF Disagreements
<1>7. QED  BY <1>2, <1>6

\* The page of the adjudicator is no older than the log; if nothing has been annotated since,
\* it is what the log gives.
ShownFresh ==
    shown # None =>
        /\ shown.at \in 0..Len(events)
        /\ shown.at = Len(events) =>
              /\ shown.of = Len(Disagreements)
              /\ shown.article = Disagreements[shown.index]
              /\ shown.options = Ordered(shown.article)

ClickFaithful ==
    pending # None =>
        /\ pending.seen.at \in 0..Len(events)
        /\ pending.seen.at = Len(events) =>
              pending.article = pending.seen.article /\ pending.pair = pending.seen.pair

\* A page rendered on the log it was shown on is the page that was shown.
LEMMA RenderedAsShown ==
    ASSUME ShownFresh, shown # None, shown.at = Len(events)
    PROVE  Rendered.article = shown.article /\ Rendered.pair = shown.pair
<1>1. /\ shown.of = Len(Disagreements) /\ shown.article = Disagreements[shown.index]
      /\ shown.options = Ordered(shown.article)
  BY DEF ShownFresh
<1>2. QED  BY <1>1 DEF Rendered

LEMMA FreshlyRendered ==
    ASSUME events \in Seq(Event), events' = events, shown' = Rendered
    PROVE  ShownFresh'
<1>1. LatestEvents' = LatestEvents /\ Disagreements' = Disagreements  BY SameEvents
<1>2. PICK k : /\ shown'.index = k /\ shown'.of = Len(Disagreements)
               /\ shown'.article = Disagreements[k] /\ shown'.options = Ordered(Disagreements[k])
               /\ shown'.at = Len(events)
  BY DEF Rendered
<1>3. Ordered(shown.article)' = Ordered(Disagreements[k])
  BY <1>1, <1>2 DEF Ordered, LatestOf
<1>4. Len(events) \in Nat  OBVIOUS
<1>5. QED  BY <1>1, <1>2, <1>3, <1>4 DEF ShownFresh

LEMMA ShownStep ==
    StudyType /\ Bound /\ ShownFresh /\ ClickFaithful /\ [Next]_vars
        => ShownFresh' /\ ClickFaithful'
<1> SUFFICES ASSUME StudyType, Bound, ShownFresh, ClickFaithful, [Next]_vars
             PROVE  ShownFresh' /\ ClickFaithful'
  OBVIOUS
<1>0. events \in Seq(Event) /\ Len(events) \in Nat  BY DEF StudyType
<1>1. CASE UNCHANGED <<events, shown, pending>>
  <2>1. LatestEvents' = LatestEvents /\ Disagreements' = Disagreements  BY <1>1, SameEvents
  <2>2. Ordered(shown.article)' = Ordered(shown.article)
    BY <1>1, <2>1 DEF Ordered, LatestOf
  <2>3. QED  BY <1>1, <2>1, <2>2 DEF ShownFresh, ClickFaithful
<1>2. ASSUME NEW e \in Event, events' = Append(events, e), UNCHANGED <<shown, pending>>
      PROVE  ShownFresh' /\ ClickFaithful'
  <2>1. Len(events') = Len(events) + 1  BY <1>0, <1>2
  <2>2. /\ shown # None => shown.at \in 0..Len(events)
        /\ pending # None => pending.seen.at \in 0..Len(events)
    BY DEF ShownFresh, ClickFaithful
  <2>3. QED  BY <1>0, <1>2, <2>1, <2>2 DEF ShownFresh, ClickFaithful
<1>3. ASSUME NEW s \in Sessions, Select(s) PROVE ShownFresh' /\ ClickFaithful'
  <2>1. UNCHANGED <<events, pending>> /\ shown' \in {shown, None}
    BY <1>3 DEF Select, tableVars
  <2>2. CASE shown' = shown  BY <1>1, <2>1, <2>2
  <2>3. CASE shown' = None  BY <2>1, <2>3 DEF ShownFresh, ClickFaithful
  <2>4. QED  BY <2>1, <2>2, <2>3
<1>4. CASE Show
  <2>1. PICK k \in DOMAIN Disagreements : \E pair \in Pairs(Disagreements[k]) :
            shown' = [index |-> k, of |-> Len(Disagreements), article |-> Disagreements[k],
                      options |-> Ordered(Disagreements[k]), pair |-> pair, at |-> Len(events)]
    BY <1>4 DEF Show
  <2>2. UNCHANGED <<events, pending>>  BY <1>4 DEF Show, tableVars
  <2>3. LatestEvents' = LatestEvents /\ Disagreements' = Disagreements  BY <2>2, SameEvents
  <2>4. Ordered(shown.article)' = Ordered(Disagreements[k])
    BY <2>1, <2>2, <2>3 DEF Ordered, LatestOf
  <2>5. QED  BY <1>0, <2>1, <2>2, <2>3, <2>4 DEF ShownFresh, ClickFaithful
<1>5. CASE Click
  <2>1. events' = events /\ shown # None  BY <1>5 DEF Click, tableVars
  <2>2. CASE shown' = None /\ UNCHANGED pending
    BY <2>1, <2>2 DEF ShownFresh, ClickFaithful
  <2>3. CASE /\ pending' = [pc |-> "upsert", article |-> Rendered.article,
                            pair |-> Rendered.pair, seen |-> shown, validated |-> 0]
             /\ shown' = Rendered
    <3>1. ShownFresh'  BY <1>0, <2>1, <2>3, FreshlyRendered
    <3>2. shown.at \in 0..Len(events)  BY <2>1 DEF ShownFresh
    <3>3. shown.at = Len(events) => Rendered.article = shown.article /\ Rendered.pair = shown.pair
      BY <2>1, RenderedAsShown
    <3>4. /\ pending'.seen = shown /\ pending'.article = Rendered.article
          /\ pending'.pair = Rendered.pair
      BY <2>3
    <3>5. ClickFaithful'  BY <2>1, <3>2, <3>3, <3>4 DEF ClickFaithful
    <3>6. QED  BY <3>1, <3>5
  <2>4. QED  BY <1>5, <2>2, <2>3 DEF Click
<1>6. CASE UpsertRuling \/ AppendDecision \/ ClickFails
  <2>1. UNCHANGED <<events, shown>>
    BY <1>6 DEF UpsertRuling, AppendDecision, ClickFails, tableVars
  <2>2. ShownFresh'
    <3>1. LatestEvents' = LatestEvents /\ Disagreements' = Disagreements  BY <2>1, SameEvents
    <3>2. Ordered(shown.article)' = Ordered(shown.article)
      BY <2>1, <3>1 DEF Ordered, LatestOf
    <3>3. QED  BY <2>1, <3>1, <3>2 DEF ShownFresh
  <2>3. CASE pending' = None  BY <2>2, <2>3 DEF ClickFaithful
  <2>4. CASE UpsertRuling
    <3>1. /\ pending # None /\ pending'.seen = pending.seen
          /\ pending'.article = pending.article /\ pending'.pair = pending.pair
      BY <2>4 DEF UpsertRuling
    <3>2. QED  BY <2>1, <2>2, <3>1 DEF ClickFaithful
  <2>5. QED  BY <1>6, <2>2, <2>3, <2>4 DEF AppendDecision, ClickFails
<1>7. ASSUME NEW s \in Sessions, ImportRow(s) \/ ImportFails(s)
      PROVE  UNCHANGED <<events, shown, pending>>
  BY <1>7 DEF ImportRow, ImportFails, tableVars, adjVars
<1>8. ASSUME NEW n \in Annotators, View(n) PROVE UNCHANGED <<events, shown, pending>>
  BY <1>8 DEF View, tableVars, adjVars
<1>9. ASSUME NEW n \in Annotators, Save(n) PROVE ShownFresh' /\ ClickFaithful'
  <2>1. UNCHANGED <<shown, pending>>  BY <1>9 DEF Save, adjVars
  <2>2. QED  BY <1>2, <1>9, <2>1, SaveKeeps
<1>10. CASE Preflight \/ UNCHANGED vars
  BY <1>1, <1>10 DEF Preflight, vars, tableVars, adjVars
<1>11. QED  BY <1>1, <1>3, <1>4, <1>5, <1>6, <1>7, <1>8, <1>9, <1>10 DEF Next

LEMMA AsShownStep ==
    ClickFaithful /\ AllGrounded /\ AdjudicatedAsShown /\ [Next]_vars => AdjudicatedAsShown'
<1> SUFFICES ASSUME ClickFaithful, AllGrounded, AdjudicatedAsShown, [Next]_vars
             PROVE  AdjudicatedAsShown'
  OBVIOUS
<1>1. CASE AppendDecision
  <2> DEFINE d == [article |-> pending.article, raw |-> pending.pair, seen |-> pending.seen,
                   validated |-> pending.validated, at |-> Len(events)]
  <2>1. decisions' = Append(decisions, d) /\ pending # None  BY <1>1 DEF AppendDecision
  <2>2. d.seen.at = d.at => d.article = d.seen.article /\ d.raw = d.seen.pair
    BY <2>1 DEF ClickFaithful
  <2> HIDE DEF d
  <2>3. \A k \in DOMAIN decisions' :
            (k \in DOMAIN decisions /\ decisions'[k] = decisions[k]) \/ decisions'[k] = d
    BY <2>1, AppendProper DEF AllGrounded
  <2>4. QED  BY <2>2, <2>3 DEF AdjudicatedAsShown
<1>2. CASE ~AppendDecision
  <2>1. decisions' = decisions
    BY <1>2 DEF Next, vars, tableVars, Preflight, Select, ImportRow, ImportFails, View, Save,
       Show, Click, UpsertRuling, ClickFails
  <2>2. QED  BY <2>1 DEF AdjudicatedAsShown
<1>3. QED  BY <1>1, <1>2

\* A click on "Save adjudication" decides what was on the screen, of any number of articles and
\* events, unless somebody has annotated between the page and the decision.
THEOREM AdjudicatedAsShownAlways == ExportSpec => []AdjudicatedAsShown
<1>1. ExportInit => ShownFresh /\ ClickFaithful /\ AdjudicatedAsShown
  BY DEF ExportInit, Init, ShownFresh, ClickFaithful, AdjudicatedAsShown
<1>2. (StudyType /\ Bound) /\ (ClickGrounded /\ AllGrounded)
          /\ (ShownFresh /\ ClickFaithful /\ AdjudicatedAsShown) /\ [ExportNext]_allVars
          => (ShownFresh /\ ClickFaithful /\ AdjudicatedAsShown)'
  BY StudyOrExport, ShownStep, AsShownStep
<1>3. QED  BY <1>1, <1>2, BoundAlways, GroundedAlways, PTL DEF ExportSpec

-----------------------------------------------------------------------------
(* What readiness promises.                                                *)

\* What is called completed has an event; an adjudication called completed has a decision.
StatusBacked ==
    \A aid \in Aids : assignments[aid] # None /\ assignments[aid].status = "completed"
        => \E i \in DOMAIN events : events[i].aid = aid

RulingsBacked ==
    /\ DOMAIN rulings = Articles
    /\ \A a \in Articles : rulings[a] # None /\ rulings[a].status = "completed"
          => \E k \in DOMAIN decisions : decisions[k].article = a

LEMMA BackedInit == Init => StatusBacked /\ RulingsBacked
<1> SUFFICES ASSUME Init PROVE StatusBacked /\ RulingsBacked
  OBVIOUS
<1>1. ASSUME NEW aid \in Aids, assignments[aid] # None, assignments[aid].status = "completed"
      PROVE  \E i \in DOMAIN events : events[i].aid = aid
  <2>1. assignments[aid] =
           IF study.imported
           THEN [bound |-> Original,
                 status |-> IF \E i \in DOMAIN study.done : study.done[i].aid = aid
                            THEN "completed" ELSE "assigned"]
           ELSE None
    BY DEF Init
  <2>2. \E i \in DOMAIN study.done : study.done[i].aid = aid  BY <1>1, <2>1
  <2>3. QED  BY <2>2 DEF Init
<1>2. RulingsBacked  BY DEF Init, RulingsBacked
<1>3. QED  BY <1>1, <1>2 DEF StatusBacked

LEMMA StatusStep == StudyType /\ Bound /\ StatusBacked /\ [Next]_vars => StatusBacked'
<1> SUFFICES ASSUME StudyType, Bound, StatusBacked, [Next]_vars PROVE StatusBacked'
  OBVIOUS
<1>0. Aids' = Aids  BY AidsFixed
<1>1. ASSUME NEW s \in Sessions, ImportRow(s) PROVE StatusBacked'
  <2> DEFINE row == NextRow(s)
             new == Upserted(row, context[s][row[1]])
  <2>1. events' = events /\ assignments' = [assignments EXCEPT ![row] = new]
    BY <1>1 DEF ImportRow
  <2>2. ASSUME row \in Aids PROVE new.status = "assigned"
    <3>1. assignments[row] \in Assignment \cup {None}  BY <2>2 DEF StudyType
    <3> HIDE DEF row
    <3>2. QED  BY <3>1 DEF Upserted, Assignment
  <2> HIDE DEF row, new
  <2>3. \A aid \in Aids : assignments'[aid] = assignments[aid] \/ (aid = row /\ assignments'[aid] = new)
    BY <2>1 DEF StudyType
  <2>4. QED  BY <1>0, <2>1, <2>2, <2>3 DEF StatusBacked
<1>2. ASSUME NEW n \in Annotators, Save(n) PROVE StatusBacked'
  <2> DEFINE saved == view[n].aid
  <2>1. assignments' = [assignments EXCEPT ![saved].status = "completed"]
    BY <1>2, SaveKeeps
  <2>2. PICK e \in Event : events' = Append(events, e) /\ e.aid = saved
    BY <1>2, SaveKeeps
  <2> HIDE DEF saved
  <2>3. events \in Seq(Event)  BY DEF StudyType
  <2>4. /\ \A i \in DOMAIN events : i \in DOMAIN events' /\ events'[i] = events[i]
        /\ \E i \in DOMAIN events' : events'[i].aid = saved
    <3>1. /\ DOMAIN events' = 1..Len(events) + 1 /\ DOMAIN events = 1..Len(events)
          /\ Len(events) \in Nat /\ events'[Len(events) + 1] = e
          /\ \A i \in 1..Len(events) : events'[i] = events[i]
      BY <2>2, <2>3
    <3>2. QED  BY <2>2, <3>1
  <2>5. \A aid \in Aids : aid = saved \/ assignments'[aid] = assignments[aid]
    BY <2>1 DEF StudyType
  <2>6. QED  BY <1>0, <2>4, <2>5 DEF StatusBacked
<1>3. CASE UNCHANGED <<assignments, events>>
  BY <1>0, <1>3 DEF StatusBacked
<1>4. ASSUME NEW s \in Sessions, Select(s) \/ ImportFails(s) PROVE UNCHANGED <<assignments, events>>
  BY <1>4 DEF Select, ImportFails, tableVars
<1>5. ASSUME NEW n \in Annotators, View(n) PROVE UNCHANGED <<assignments, events>>
  BY <1>5 DEF View, tableVars
<1>6. CASE Preflight \/ Show \/ Click \/ UpsertRuling \/ AppendDecision \/ ClickFails
           \/ UNCHANGED vars
  BY <1>3, <1>6 DEF Preflight, Show, Click, UpsertRuling, AppendDecision, ClickFails, vars, tableVars
<1>7. QED  BY <1>1, <1>2, <1>3, <1>4, <1>5, <1>6 DEF Next

LEMMA RulingsStep == AllGrounded /\ RulingsBacked /\ [Next]_vars => RulingsBacked'
<1> SUFFICES ASSUME AllGrounded, RulingsBacked, [Next]_vars PROVE RulingsBacked'
  OBVIOUS
<1>1. CASE UpsertRuling
  <2>1. /\ decisions' = decisions
        /\ rulings' = rulings \/
              rulings' = [rulings EXCEPT ![pending.article] =
                              [raw |-> pending.pair, status |-> "assigned"]]
    BY <1>1 DEF UpsertRuling
  <2>2. \A a \in Articles : rulings'[a] = rulings[a] \/ rulings'[a].status = "assigned"
    BY <2>1 DEF RulingsBacked
  <2>3. DOMAIN rulings' = Articles  BY <2>1 DEF RulingsBacked
  <2>4. QED  BY <2>1, <2>2, <2>3 DEF RulingsBacked
<1>2. CASE AppendDecision
  <2> DEFINE d == [article |-> pending.article, raw |-> pending.pair, seen |-> pending.seen,
                   validated |-> pending.validated, at |-> Len(events)]
  <2>1. /\ decisions' = Append(decisions, d) /\ d.article = pending.article
        /\ rulings' = [rulings EXCEPT ![pending.article].status = "completed"]
    BY <1>2 DEF AppendDecision
  <2> HIDE DEF d
  <2>2. /\ \A k \in DOMAIN decisions : k \in DOMAIN decisions' /\ decisions'[k] = decisions[k]
        /\ \E k \in DOMAIN decisions' : decisions'[k] = d
    BY <2>1, AppendProper DEF AllGrounded
  <2>3. DOMAIN rulings' = Articles /\ \A a \in Articles : a = pending.article \/ rulings'[a] = rulings[a]
    BY <2>1 DEF RulingsBacked
  <2>4. QED  BY <2>1, <2>2, <2>3 DEF RulingsBacked
<1>3. CASE ~UpsertRuling /\ ~AppendDecision
  <2>1. UNCHANGED <<rulings, decisions>>
    BY <1>3 DEF Next, vars, tableVars, Preflight, Select, ImportRow, ImportFails, View, Save,
       Show, Click, ClickFails
  <2>2. QED  BY <2>1 DEF RulingsBacked
<1>4. QED  BY <1>1, <1>2, <1>3

\* An article with two imported assignments has one of each annotator.
LEMMA BothImported ==
    ASSUME NEW a \in Twice(Imported), NEW n \in Annotators
    PROVE  <<a, n>> \in Imported
<1> DEFINE S == {aid \in Imported : aid[1] = a}
<1>1. Cardinality(S) >= 2  BY DEF Twice
<1>2. PICK m \in Annotators : m # n /\ \A k \in Annotators : k = m \/ k = n
  BY DEF Annotators
<1>3. S \subseteq {<<a, m>>, <<a, n>>}
  BY <1>2 DEF Imported, Aids
<1>4. SUFFICES ASSUME <<a, n>> \notin Imported PROVE FALSE
  OBVIOUS
<1>5. S \subseteq {<<a, m>>}  BY <1>3, <1>4
<1>6. IsFiniteSet({<<a, m>>}) /\ Cardinality({<<a, m>>}) = 1  BY FS_Singleton
<1> HIDE DEF S
<1>7. IsFiniteSet(S) /\ Cardinality(S) <= 1  BY <1>5, <1>6, FS_Subset
<1>8. Cardinality(S) \in Nat  BY <1>7, FS_CardinalityType
<1>9. QED  BY <1>1, <1>7, <1>8

\* "Formal pilot analysis ready" is not said, of a batch of any size, while an imported assignment
\* has no event, an article annotated twice lacks one of its annotators, or a created
\* adjudication has no decision (completion_counts, audit_snapshot).
THEOREM ReadinessIsTruthful == ExportSpec => []ReadinessTruthful
<1>1. ExportInit => StatusBacked /\ RulingsBacked  BY BackedInit DEF ExportInit
<1>2. (StudyType /\ Bound) /\ (ClickGrounded /\ AllGrounded) /\ (StatusBacked /\ RulingsBacked)
          /\ [ExportNext]_allVars => (StatusBacked /\ RulingsBacked)'
  BY StudyOrExport, StatusStep, RulingsStep
<1>3. StudyType /\ StatusBacked /\ RulingsBacked => ReadinessTruthful
  <2> SUFFICES ASSUME StudyType, StatusBacked, RulingsBacked, FormalReady
               PROVE  /\ \A aid \in Imported : LatestRevision(aid) > 0
                      /\ \A a \in Twice(Imported) :
                            {events[i].aid[2] : i \in LatestOf(a)} = Annotators
                      /\ \A a \in Ruled : \E k \in DOMAIN decisions : decisions[k].article = a
    BY DEF ReadinessTruthful
  <2>0. events \in Seq(Event)  BY DEF StudyType
  <2>1. ASSUME NEW aid \in Imported
        PROVE  /\ LatestRevision(aid) \in Nat /\ LatestRevision(aid) > 0
               /\ \E j \in DOMAIN events : /\ events[j].aid = aid
                                           /\ events[j].revision = LatestRevision(aid)
    <3>1. aid \in Aids /\ assignments[aid] # None /\ assignments[aid].status = "completed"
      BY DEF FormalReady, AnnotationReady, Completed, Imported
    <3>2. PICK i \in DOMAIN events : events[i].aid = aid  BY <3>1 DEF StatusBacked
    <3>3. QED  BY <2>0, <3>2, LatestIsLargest
  <2>2. ASSUME NEW a \in Twice(Imported)
        PROVE  {events[i].aid[2] : i \in LatestOf(a)} = Annotators
    <3>1. ASSUME NEW n \in Annotators PROVE n \in {events[i].aid[2] : i \in LatestOf(a)}
      <4>1. <<a, n>> \in Imported  BY BothImported
      <4>2. PICK j \in DOMAIN events : /\ events[j].aid = <<a, n>>
                                       /\ events[j].revision = LatestRevision(<<a, n>>)
        BY <2>1, <4>1
      <4>3. j \in LatestOf(a) /\ events[j].aid[2] = n  BY <4>2 DEF LatestOf, LatestEvents
      <4>4. QED  BY <4>3
    <3>2. ASSUME NEW i \in LatestOf(a) PROVE events[i].aid[2] \in Annotators
      <4>1. i \in DOMAIN events  BY DEF LatestOf, LatestEvents
      <4>2. events[i] \in Event  BY <2>0, <4>1
      <4>3. events[i].aid \in Articles \X Annotators  BY <4>2 DEF Event
      <4>4. QED  BY <4>3
    <3>3. QED  BY <3>1, <3>2
  <2>3. ASSUME NEW a \in Ruled PROVE \E k \in DOMAIN decisions : decisions[k].article = a
    BY DEF FormalReady, AdjudicationReady, Ruled, RulingsBacked
  <2>4. QED  BY <2>1, <2>2, <2>3
<1>4. QED  BY <1>1, <1>2, <1>3, BoundAlways, GroundedAlways, PTL DEF ExportSpec

-----------------------------------------------------------------------------
(* What the exported files are.                                            *)

Content == (SUBSET Nat) \cup {Mixed}

FileType ==
    /\ exporting \in [Exporters -> ExportRecord \cup {None}]
    /\ inodes \in Seq(Content)
    /\ tmp \in [Kinds -> 0..Len(inodes)] /\ dest \in [Kinds -> 0..Len(inodes)]
    /\ disturbed \subseteq Kinds

Active(x) == exporting[x] # None /\ exporting[x].pc # "open"

\* A temporary name stands for a file of its own, and an export writes to no other kind's.
OwnFiles ==
    /\ \A k, l \in Kinds : tmp[k] # 0 =>
          tmp[k] # dest[l] /\ (k # l => tmp[k] # tmp[l])
    /\ \A x \in Exporters : Active(x) =>
          /\ exporting[x].file \in 1..Len(inodes)
          /\ \A l \in Kinds : l # exporting[x].kind =>
                exporting[x].file # tmp[l] /\ exporting[x].file # dest[l]

\* One export at a time has opened the temporary file of the kind, and it is as that export
\* has left it.
Orderly(k) ==
    /\ \A x, y \in Exporters :
          Active(x) /\ Active(y) /\ exporting[x].kind = k /\ exporting[y].kind = k => x = y
    /\ \A x \in Exporters : Active(x) /\ exporting[x].kind = k =>
          /\ exporting[x].pc = "write" => exporting[x].file = tmp[k] /\ inodes[tmp[k]] = {}
          /\ exporting[x].pc = "replace" =>
                exporting[x].file = tmp[k] /\ inodes[tmp[k]] = exporting[x].rows

Published(k) ==
    dest[k] # 0 =>
        \/ [kind |-> k, content |-> inodes[dest[k]]] \in recorded
        \/ \E x \in Exporters : At(x, "record") /\ exporting[x].kind = k
                                /\ exporting[x].rows = inodes[dest[k]]

FilesInv == FileType /\ OwnFiles /\ \A k \in Kinds \ disturbed : Orderly(k) /\ Published(k)

LEMMA BeginStep ==
    ASSUME StudyType, AllGrounded, FilesInv, NEW x \in Exporters, Begin(x)
    PROVE  FilesInv'
<1>1. PICK kind \in Kinds :
          exporting' = [exporting EXCEPT ![x] =
               [pc |-> "open", kind |-> kind, rows |-> Rows(kind), file |-> 0]]
  BY DEF Begin
<1>2. exporting[x] = None /\ UNCHANGED <<inodes, tmp, dest, recorded, disturbed>>
  BY DEF Begin
<1>3. Rows(kind) \subseteq Nat
  <2>1. LatestEvents \subseteq Nat  BY DEF LatestEvents, StudyType
  <2>2. DOMAIN decisions \subseteq Nat  BY DEF AllGrounded, Proper
  <2>3. QED  BY <2>1, <2>2 DEF Rows, Kinds
<1>4. [pc |-> "open", kind |-> kind, rows |-> Rows(kind), file |-> 0] \in ExportRecord
  BY <1>3 DEF ExportRecord
<1>5. FileType'  BY <1>1, <1>2, <1>4 DEF FilesInv, FileType
<1>6. \A y \in Exporters : y # x => exporting'[y] = exporting[y]
  BY <1>1 DEF FilesInv, FileType
<1>7. ~Active(x)' /\ ~Active(x) /\ \A y \in Exporters : y # x => (Active(y)' <=> Active(y))
  BY <1>1, <1>2, <1>6 DEF Active, FilesInv, FileType
<1>8. OwnFiles'  BY <1>2, <1>6, <1>7 DEF FilesInv, OwnFiles
<1>9. ASSUME NEW k \in Kinds \ disturbed PROVE Orderly(k)' /\ Published(k)'
  <2>1. Orderly(k)'  BY <1>2, <1>6, <1>7 DEF FilesInv, Orderly
  <2>2. Published(k)'  BY <1>2, <1>6 DEF FilesInv, Published, At
  <2>3. QED  BY <2>1, <2>2
<1>10. QED  BY <1>2, <1>5, <1>8, <1>9 DEF FilesInv

\* What an export at one of its steps is, and goes on to be.
LEMMA Running ==
    ASSUME FileType, NEW x \in Exporters, exporting[x] # None
    PROVE  /\ exporting[x] \in ExportRecord /\ exporting[x].kind \in Kinds
           /\ exporting[x].rows \subseteq Nat /\ exporting[x].file \in Nat
BY DEF FileType, ExportRecord

LEMMA GoesOn ==
    ASSUME FileType, NEW x \in Exporters, exporting[x] # None,
           NEW step \in {"open", "write", "replace", "record"}, NEW file \in Nat,
           exporting' = [exporting EXCEPT ![x].pc = step, ![x].file = file]
    PROVE  /\ exporting' \in [Exporters -> ExportRecord \cup {None}]
           /\ exporting'[x] \in ExportRecord /\ exporting'[x] # None
           /\ exporting'[x].pc = step /\ exporting'[x].file = file
           /\ exporting'[x].kind = exporting[x].kind /\ exporting'[x].rows = exporting[x].rows
           /\ \A y \in Exporters : y # x => exporting'[y] = exporting[y]
<1> DEFINE next == [pc |-> step, kind |-> exporting[x].kind, rows |-> exporting[x].rows,
                    file |-> file]
<1>1. exporting \in [Exporters -> ExportRecord \cup {None}]  BY DEF FileType
<1>2. exporting[x] \in ExportRecord  BY Running
<1>3. exporting' = [exporting EXCEPT ![x] = next]
  <2>1. exporting' = [exporting EXCEPT ![x] = [[exporting[x] EXCEPT !.pc = step] EXCEPT !.file = file]]
    BY <1>1
  <2>2. ASSUME NEW r \in ExportRecord
        PROVE  [[r EXCEPT !.pc = step] EXCEPT !.file = file]
                   = [pc |-> step, kind |-> r.kind, rows |-> r.rows, file |-> file]
    <3>1. PICK a, b, c, d : r = [pc |-> a, kind |-> b, rows |-> c, file |-> d]
      BY DEF ExportRecord
    <3>2. [r EXCEPT !.pc = step] = [pc |-> step, kind |-> b, rows |-> c, file |-> d]
      BY <3>1
    <3>3. [[pc |-> step, kind |-> b, rows |-> c, file |-> d] EXCEPT !.file = file]
              = [pc |-> step, kind |-> b, rows |-> c, file |-> file]
      OBVIOUS
    <3>4. r.kind = b /\ r.rows = c  BY <3>1
    <3>5. QED  BY <3>2, <3>3, <3>4
  <2>3. [[exporting[x] EXCEPT !.pc = step] EXCEPT !.file = file] = next
    BY <1>2, <2>2
  <2>4. QED  BY <2>1, <2>3
<1>4. next \in ExportRecord  BY Running DEF ExportRecord
<1>5. /\ next.pc = step /\ next.file = file
      /\ next.kind = exporting[x].kind /\ next.rows = exporting[x].rows
  OBVIOUS
<1> HIDE DEF next
<1>6. exporting'[x] = next  BY <1>1, <1>3
<1>7. QED  BY <1>1, <1>3, <1>4, <1>5, <1>6, ExportAssumption

\* What is published stays so while its file, its record and its exporter stay as they are.
LEMMA PublishedKept ==
    ASSUME NEW k, Published(k), dest'[k] = dest[k], recorded \subseteq recorded',
           dest[k] # 0 => inodes'[dest[k]] = inodes[dest[k]],
           \A y \in Exporters : At(y, "record") /\ exporting[y].kind = k
              => At(y, "record")' /\ exporting'[y] = exporting[y]
    PROVE  Published(k)'
<1>1. SUFFICES ASSUME dest[k] # 0
               PROVE  \/ [kind |-> k, content |-> inodes[dest[k]]] \in recorded'
                      \/ \E y \in Exporters : /\ At(y, "record")' /\ exporting'[y].kind = k
                                              /\ exporting'[y].rows = inodes[dest[k]]
  BY DEF Published
<1>2. CASE [kind |-> k, content |-> inodes[dest[k]]] \in recorded  BY <1>2
<1>3. ASSUME NEW y \in Exporters, At(y, "record"), exporting[y].kind = k,
             exporting[y].rows = inodes[dest[k]]
      PROVE  /\ At(y, "record")' /\ exporting'[y].kind = k
             /\ exporting'[y].rows = inodes[dest[k]]
  BY <1>3
<1>4. QED  BY <1>1, <1>2, <1>3 DEF Published

LEMMA OpenStep ==
    ASSUME FilesInv, NEW x \in Exporters, Open(x)
    PROVE  FilesInv'
<1> DEFINE own == exporting[x].kind
           file == IF tmp[own] = 0 THEN Len(inodes) + 1 ELSE tmp[own]
<1>0. /\ FileType /\ OwnFiles
      /\ \A k \in Kinds \ disturbed : Orderly(k) /\ Published(k)
  BY DEF FilesInv
<1>1. /\ exporting[x] # None /\ exporting[x].pc = "open" /\ own \in Kinds
      /\ inodes \in Seq(Content) /\ Len(inodes) \in Nat
      /\ tmp[own] \in 0..Len(inodes)
  BY <1>0, Running DEF Open, At, FileType
<1>2. /\ inodes' = IF tmp[own] = 0 THEN Append(inodes, {}) ELSE [inodes EXCEPT ![file] = {}]
      /\ tmp' = [tmp EXCEPT ![own] = file]
      /\ exporting' = [exporting EXCEPT ![x].pc = "write", ![x].file = file]
      /\ disturbed' = IF Overlaps(x) THEN disturbed \cup {own} ELSE disturbed
      /\ UNCHANGED <<dest, recorded>>
  BY DEF Open
<1>3. file \in Nat \ {0} /\ file \in 1..Len(inodes) + 1  BY <1>1
<1>4. /\ exporting' \in [Exporters -> ExportRecord \cup {None}]
      /\ exporting'[x] # None /\ exporting'[x].pc = "write" /\ exporting'[x].file = file
      /\ exporting'[x].kind = own
      /\ \A y \in Exporters : y # x => exporting'[y] = exporting[y]
  <2> HIDE DEF file
  <2>1. QED  BY <1>0, <1>1, <1>2, <1>3, GoesOn
<1>5. /\ inodes' \in Seq(Content) /\ Len(inodes) <= Len(inodes') /\ Len(inodes') \in Nat
      /\ file \in 1..Len(inodes') /\ inodes'[file] = {}
      /\ \A i \in 1..Len(inodes) : i # file => inodes'[i] = inodes[i]
  <2>1. {} \in Content  BY DEF Content
  <2>2. CASE tmp[own] = 0
    <3>1. inodes' = Append(inodes, {}) /\ file = Len(inodes) + 1  BY <1>2, <2>2
    <3> HIDE DEF file
    <3>2. QED  BY <1>1, <2>1, <3>1
  <2>3. CASE tmp[own] # 0
    <3>1. inodes' = [inodes EXCEPT ![file] = {}] /\ file \in 1..Len(inodes)
      BY <1>1, <1>2, <2>3
    <3> HIDE DEF file
    <3>2. QED  BY <1>1, <2>1, <3>1
  <2>4. QED  BY <2>2, <2>3
<1>6. \A l \in Kinds : /\ file # dest[l] /\ dest[l] \in 0..Len(inodes)
                       /\ tmp[l] \in 0..Len(inodes) /\ (l # own => file # tmp[l])
  BY <1>0, <1>1 DEF FileType, OwnFiles
<1> HIDE DEF file
<1>7. /\ tmp'[own] = file
      /\ \A l \in Kinds : l # own => tmp'[l] = tmp[l]
  BY <1>0, <1>1, <1>2 DEF FileType
<1>8. FileType'
  BY <1>0, <1>1, <1>2, <1>4, <1>5, <1>6 DEF FileType
<1>9. /\ Active(x)' /\ ~Active(x)
      /\ \A y \in Exporters : y # x => (Active(y)' <=> Active(y))
  BY <1>1, <1>4 DEF Active
<1>10. OwnFiles'
  <2>1. \A k, l \in Kinds : tmp'[k] # 0 => tmp'[k] # dest'[l] /\ (k # l => tmp'[k] # tmp'[l])
    BY <1>0, <1>2, <1>3, <1>6, <1>7 DEF OwnFiles
  <2>2. ASSUME NEW y \in Exporters, Active(y)'
        PROVE  /\ exporting'[y].file \in 1..Len(inodes')
               /\ \A l \in Kinds : l # exporting'[y].kind =>
                     exporting'[y].file # tmp'[l] /\ exporting'[y].file # dest'[l]
    <3>1. CASE y = x  BY <1>2, <1>4, <1>5, <1>6, <1>7, <3>1
    <3>2. CASE y # x
      <4>1. /\ exporting'[y] = exporting[y] /\ exporting[y].file \in 1..Len(inodes)
            /\ \A l \in Kinds : l # exporting[y].kind =>
                  exporting[y].file # tmp[l] /\ exporting[y].file # dest[l]
        BY <1>0, <1>4, <1>9, <2>2, <3>2 DEF OwnFiles
      <4>2. own # exporting[y].kind => exporting[y].file # file
        BY <1>1, <4>1 DEF file
      <4>3. exporting[y].file \in 1..Len(inodes')  BY <1>1, <1>5, <4>1
      <4>4. ASSUME NEW l \in Kinds, l # exporting[y].kind
            PROVE  exporting[y].file # tmp'[l] /\ exporting[y].file # dest'[l]
        <5>1. CASE l = own  BY <1>2, <1>7, <4>1, <4>2, <4>4, <5>1
        <5>2. CASE l # own  BY <1>2, <1>7, <4>1, <4>4, <5>2
        <5>3. QED  BY <5>1, <5>2
      <4>5. QED  BY <4>1, <4>3, <4>4
    <3>3. QED  BY <3>1, <3>2
  <2>3. QED  BY <2>1, <2>2 DEF OwnFiles
<1>11. ASSUME NEW k \in Kinds \ disturbed' PROVE Orderly(k)' /\ Published(k)'
  <2>1. k \in Kinds \ disturbed /\ Orderly(k) /\ Published(k)  BY <1>0, <1>2, <1>11
  <2>2. Published(k)'
    <3>1. dest'[k] = dest[k] /\ (dest[k] # 0 => inodes'[dest[k]] = inodes[dest[k]])
      BY <1>2, <1>5, <1>6
    <3>2. ~At(x, "record")  BY <1>1 DEF At
    <3>3. \A y \in Exporters : At(y, "record") => At(y, "record")' /\ exporting'[y] = exporting[y]
      BY <1>4, <3>2 DEF At
    <3>4. QED  BY <1>2, <2>1, <3>1, <3>3, PublishedKept
  <2>3. CASE k = own
    <3>1. ~Overlaps(x)  BY <1>2, <1>11, <2>3
    <3>2. \A y \in Exporters : y # x => ~(Active(y) /\ exporting[y].kind = k)
      BY <2>3, <3>1 DEF Overlaps, Active
    <3>3. \A y \in Exporters : Active(y)' /\ exporting'[y].kind = k => y = x
      BY <1>4, <1>9, <3>2
    <3>4. Orderly(k)'  BY <1>4, <1>5, <1>7, <2>3, <3>3 DEF Orderly
    <3>5. QED  BY <2>2, <3>4
  <2>4. CASE k # own
    <3>1. \A y \in Exporters : Active(y)' /\ exporting'[y].kind = k =>
              y # x /\ Active(y) /\ exporting'[y] = exporting[y]
      BY <1>4, <1>7, <1>9, <2>4
    <3>2. tmp'[k] = tmp[k] /\ (tmp[k] # 0 => inodes'[tmp[k]] = inodes[tmp[k]])
      BY <1>5, <1>6, <1>7, <2>4
    <3>3. \A y \in Exporters : Active(y) => exporting[y].file # 0
      BY <1>0 DEF OwnFiles
    <3>4. Orderly(k)'  BY <2>1, <3>1, <3>2, <3>3 DEF Orderly
    <3>5. QED  BY <2>2, <3>4
  <2>5. QED  BY <2>3, <2>4
<1>12. QED  BY <1>8, <1>10, <1>11 DEF FilesInv

LEMMA MovesOn ==
    ASSUME FileType, NEW x \in Exporters, exporting[x] # None,
           NEW step \in {"open", "write", "replace", "record"},
           exporting' = [exporting EXCEPT ![x].pc = step]
    PROVE  /\ exporting' \in [Exporters -> ExportRecord \cup {None}]
           /\ exporting'[x] # None
           /\ exporting'[x].pc = step /\ exporting'[x].file = exporting[x].file
           /\ exporting'[x].kind = exporting[x].kind /\ exporting'[x].rows = exporting[x].rows
           /\ \A y \in Exporters : y # x => exporting'[y] = exporting[y]
<1> DEFINE next == [exporting[x] EXCEPT !.pc = step]
<1>1. exporting \in [Exporters -> ExportRecord \cup {None}]  BY DEF FileType
<1>2. exporting[x] \in ExportRecord  BY Running
<1>3. exporting' = [exporting EXCEPT ![x] = next]  BY <1>1
<1>4. /\ next \in ExportRecord /\ next.pc = step /\ next.file = exporting[x].file
      /\ next.kind = exporting[x].kind /\ next.rows = exporting[x].rows
  BY <1>2 DEF ExportRecord
<1> HIDE DEF next
<1>5. exporting'[x] = next  BY <1>1, <1>3
<1>6. QED  BY <1>1, <1>3, <1>4, <1>5, ExportAssumption

LEMMA WriteStep ==
    ASSUME FilesInv, NEW x \in Exporters, Write(x)
    PROVE  FilesInv'
<1> DEFINE own == exporting[x].kind
           file == exporting[x].file
<1>0. /\ FileType /\ OwnFiles
      /\ \A k \in Kinds \ disturbed : Orderly(k) /\ Published(k)
  BY DEF FilesInv
<1>1. /\ exporting[x] # None /\ exporting[x].pc = "write" /\ Active(x) /\ own \in Kinds
      /\ exporting[x].rows \subseteq Nat /\ inodes \in Seq(Content)
  BY <1>0, Running DEF Write, At, Active, FileType
<1>2. PICK content \in Overwritten(inodes[file], exporting[x].rows) :
          inodes' = [inodes EXCEPT ![file] = content]
  BY DEF Write
<1>3. /\ exporting' = [exporting EXCEPT ![x].pc = "replace"]
      /\ UNCHANGED <<tmp, dest, recorded, disturbed>>
  BY DEF Write
<1>4. /\ exporting' \in [Exporters -> ExportRecord \cup {None}]
      /\ exporting'[x] # None /\ exporting'[x].pc = "replace"
      /\ exporting'[x].file = file /\ exporting'[x].kind = own
      /\ exporting'[x].rows = exporting[x].rows
      /\ \A y \in Exporters : y # x => exporting'[y] = exporting[y]
  BY <1>0, <1>1, <1>3, MovesOn
<1>5. /\ content \in Content
      /\ inodes[file] = {} => content = exporting[x].rows
  BY <1>1 DEF Overwritten, Content
<1>6. /\ file \in 1..Len(inodes)
      /\ \A l \in Kinds : l # own => file # tmp[l] /\ file # dest[l]
  BY <1>0, <1>1 DEF OwnFiles
<1> HIDE DEF file, own
<1>7. /\ inodes' \in Seq(Content) /\ Len(inodes') = Len(inodes) /\ inodes'[file] = content
      /\ \A i \in 1..Len(inodes) : i # file => inodes'[i] = inodes[i]
  BY <1>1, <1>2, <1>5, <1>6
<1>8. FileType'  BY <1>0, <1>3, <1>4, <1>7 DEF FileType
<1>9. \A y \in Exporters : (Active(y)' <=> Active(y)) /\ exporting'[y].kind = exporting[y].kind
                           /\ exporting'[y].file = exporting[y].file
  BY <1>1, <1>4 DEF Active, own, file
<1>10. OwnFiles'  BY <1>0, <1>3, <1>7, <1>9 DEF OwnFiles
<1>11. ASSUME NEW k \in Kinds \ disturbed' PROVE Orderly(k)' /\ Published(k)'
  <2>1. k \in Kinds \ disturbed /\ Orderly(k) /\ Published(k)  BY <1>0, <1>3, <1>11
  <2>2. tmp[k] \in 0..Len(inodes) /\ dest[k] \in 0..Len(inodes) /\ Len(inodes) \in Nat
    BY <1>0, <1>1, <2>1 DEF FileType
  <2>3. \A y \in Exporters : At(y, "record") /\ exporting[y].kind = k
              => At(y, "record")' /\ exporting'[y] = exporting[y]
    BY <1>1, <1>4 DEF At
  <2>4. CASE k = own
    <3>1. file = tmp[k] /\ inodes[tmp[k]] = {}  BY <1>1, <2>1, <2>4 DEF Orderly, own, file
    <3>2. tmp[k] # dest[k]  BY <1>0, <1>6, <2>1, <3>1 DEF OwnFiles
    <3>3. Published(k)'  BY <1>3, <1>7, <2>1, <2>2, <2>3, <3>1, <3>2, PublishedKept
    <3>4. \A y \in Exporters : Active(y) /\ exporting[y].kind = k => y = x
      BY <1>1, <2>1, <2>4 DEF Orderly, own
    <3>5. inodes'[tmp[k]] = exporting[x].rows  BY <1>5, <1>7, <3>1
    <3>6. Orderly(k)'  BY <1>3, <1>4, <1>9, <3>1, <3>4, <3>5 DEF Orderly
    <3>7. QED  BY <3>3, <3>6
  <2>5. CASE k # own
    <3>1. tmp[k] # file /\ dest[k] # file  BY <1>6, <2>1, <2>5
    <3>2. Published(k)'  BY <1>3, <1>7, <2>1, <2>2, <2>3, <3>1, PublishedKept
    <3>3. \A y \in Exporters : Active(y)' /\ exporting'[y].kind = k =>
              Active(y) /\ exporting'[y] = exporting[y] /\ exporting[y].file # 0
      BY <1>0, <1>4, <1>9, <2>5 DEF OwnFiles
    <3>4. tmp[k] # 0 => inodes'[tmp[k]] = inodes[tmp[k]]  BY <1>7, <2>2, <3>1
    <3>5. Orderly(k)'  BY <1>3, <2>1, <3>3, <3>4 DEF Orderly
    <3>6. QED  BY <3>2, <3>5
  <2>6. QED  BY <2>4, <2>5
<1>12. QED  BY <1>8, <1>10, <1>11 DEF FilesInv

\* An export that ends leaves the files as they are.
LEMMA Ends ==
    ASSUME FilesInv, NEW x \in Exporters, exporting' = [exporting EXCEPT ![x] = None],
           UNCHANGED <<inodes, tmp, dest>>, disturbed' \subseteq Kinds, disturbed \subseteq disturbed'
    PROVE  FileType' /\ OwnFiles' /\ \A k \in Kinds \ disturbed' : Orderly(k)'
<1>0. /\ FileType /\ OwnFiles /\ \A k \in Kinds \ disturbed : Orderly(k)
  BY DEF FilesInv
<1>1. \A y \in Exporters : Active(y)' => Active(y) /\ exporting'[y] = exporting[y]
  BY <1>0 DEF FileType, Active
<1>2. FileType'  BY <1>0 DEF FileType
<1>3. OwnFiles'  BY <1>0, <1>1 DEF OwnFiles
<1>4. ASSUME NEW k \in Kinds \ disturbed' PROVE Orderly(k)'
  <2>1. Orderly(k)  BY <1>0, <1>4
  <2>2. QED  BY <1>1, <2>1 DEF Orderly
<1>5. QED  BY <1>2, <1>3, <1>4

LEMMA RecordStep ==
    ASSUME FilesInv, NEW x \in Exporters, Record(x)
    PROVE  FilesInv'
<1> DEFINE entry == [kind |-> exporting[x].kind, content |-> exporting[x].rows]
<1>0. /\ FileType /\ OwnFiles
      /\ \A k \in Kinds \ disturbed : Orderly(k) /\ Published(k)
  BY DEF FilesInv
<1>1. /\ exporting[x] # None /\ exporting[x].pc = "record" /\ exporting[x].kind \in Kinds
  BY <1>0, Running DEF Record, At
<1>2. /\ exporting' = [exporting EXCEPT ![x] = None] /\ UNCHANGED <<inodes, tmp, dest>>
      /\ \/ /\ disturbed' = IF entry \in recorded THEN disturbed ELSE disturbed \cup {entry.kind}
            /\ recorded' = recorded
         \/ recorded' = recorded \cup {entry} /\ disturbed' = disturbed
  BY DEF Record
<1>3. disturbed' \subseteq Kinds /\ disturbed \subseteq disturbed' /\ recorded \subseteq recorded'
  BY <1>0, <1>1, <1>2 DEF FileType
<1>4. exporting[x].kind \notin disturbed' => entry \in recorded'  BY <1>2
<1>5. ASSUME NEW k \in Kinds \ disturbed' PROVE Published(k)'
  <2>1. Published(k)  BY <1>0, <1>3, <1>5
  <2>2. \A y \in Exporters : y # x /\ At(y, "record")
              => At(y, "record")' /\ exporting'[y] = exporting[y]
    BY <1>0, <1>2 DEF At, FileType
  <2>3. CASE exporting[x].kind = k /\ exporting[x].rows = inodes[dest[k]]
    <3>1. [kind |-> k, content |-> inodes[dest[k]]] \in recorded'  BY <1>4, <1>5, <2>3
    <3>2. QED  BY <1>2, <3>1 DEF Published
  <2>4. CASE ~(exporting[x].kind = k /\ exporting[x].rows = inodes[dest[k]])
    <3>1. SUFFICES ASSUME dest[k] # 0
                   PROVE  \/ [kind |-> k, content |-> inodes[dest[k]]] \in recorded'
                          \/ \E y \in Exporters : /\ At(y, "record")' /\ exporting'[y].kind = k
                                                  /\ exporting'[y].rows = inodes[dest[k]]
      BY <1>2 DEF Published
    <3>2. CASE [kind |-> k, content |-> inodes[dest[k]]] \in recorded  BY <1>3, <3>2
    <3>3. ASSUME NEW y \in Exporters, At(y, "record"), exporting[y].kind = k,
                 exporting[y].rows = inodes[dest[k]]
          PROVE  /\ At(y, "record")' /\ exporting'[y].kind = k
                 /\ exporting'[y].rows = inodes[dest[k]]
      BY <2>2, <2>4, <3>3
    <3>4. QED  BY <2>1, <3>1, <3>2, <3>3 DEF Published
  <2>5. QED  BY <2>3, <2>4
<1>6. QED  BY <1>2, <1>3, <1>5, Ends DEF FilesInv

LEMMA BreaksStep ==
    ASSUME FilesInv, NEW x \in Exporters, Breaks(x)
    PROVE  FilesInv'
<1>0. /\ FileType /\ OwnFiles
      /\ \A k \in Kinds \ disturbed : Orderly(k) /\ Published(k)
  BY DEF FilesInv
<1>1. /\ exporting[x] # None /\ exporting[x].kind \in Kinds
      /\ exporting' = [exporting EXCEPT ![x] = None]
      /\ UNCHANGED <<inodes, tmp, dest, recorded>>
      /\ disturbed' = IF At(x, "record") THEN disturbed \cup {exporting[x].kind} ELSE disturbed
  BY <1>0, Running DEF Breaks
<1>2. disturbed' \subseteq Kinds /\ disturbed \subseteq disturbed'
  BY <1>0, <1>1 DEF FileType
<1>3. ASSUME NEW k \in Kinds \ disturbed' PROVE Published(k)'
  <2>1. Published(k)  BY <1>0, <1>2, <1>3
  <2>2. \A y \in Exporters : At(y, "record") /\ exporting[y].kind = k => y # x
    BY <1>1, <1>3
  <2>3. \A y \in Exporters : At(y, "record") /\ exporting[y].kind = k
              => At(y, "record")' /\ exporting'[y] = exporting[y]
    BY <1>0, <1>1, <2>2 DEF At, FileType
  <2>4. QED  BY <1>1, <2>1, <2>3, PublishedKept
<1>4. QED  BY <1>1, <1>2, <1>3, Ends DEF FilesInv

LEMMA ReplaceStep ==
    ASSUME FilesInv, NEW x \in Exporters, Replace(x)
    PROVE  FilesInv'
<1> DEFINE own == exporting[x].kind
<1>0. /\ FileType /\ OwnFiles
      /\ \A k \in Kinds \ disturbed : Orderly(k) /\ Published(k)
  BY DEF FilesInv
<1>1. /\ exporting[x] # None /\ exporting[x].pc = "replace" /\ Active(x) /\ own \in Kinds
      /\ UNCHANGED <<inodes, recorded, disturbed>>
  BY <1>0, Running DEF Replace, At, Active
<1>2. CASE tmp[own] = 0
  <2>1. exporting' = [exporting EXCEPT ![x] = None] /\ UNCHANGED <<tmp, dest>>
    BY <1>2 DEF Replace
  <2>2. disturbed' \subseteq Kinds /\ disturbed \subseteq disturbed'
    BY <1>0, <1>1 DEF FileType
  <2>3. \A y \in Exporters : At(y, "record") => At(y, "record")' /\ exporting'[y] = exporting[y]
    BY <1>0, <1>1, <2>1 DEF At, FileType
  <2>4. ASSUME NEW k \in Kinds \ disturbed' PROVE Published(k)'
    <3>1. Published(k)  BY <1>0, <2>2, <2>4
    <3>2. QED  BY <1>1, <2>1, <2>3, <3>1, PublishedKept
  <2>5. QED  BY <1>1, <2>1, <2>2, <2>4, Ends DEF FilesInv
<1>3. CASE tmp[own] # 0
  <2>1. /\ dest' = [dest EXCEPT ![own] = tmp[own]] /\ tmp' = [tmp EXCEPT ![own] = 0]
        /\ exporting' = [exporting EXCEPT ![x].pc = "record"]
    BY <1>3 DEF Replace
  <2>2. /\ exporting' \in [Exporters -> ExportRecord \cup {None}]
        /\ exporting'[x] # None /\ exporting'[x].pc = "record"
        /\ exporting'[x].file = exporting[x].file /\ exporting'[x].kind = own
        /\ exporting'[x].rows = exporting[x].rows
        /\ \A y \in Exporters : y # x => exporting'[y] = exporting[y]
    BY <1>0, <1>1, <2>1, MovesOn
  <2> HIDE DEF own
  <2>3. /\ dest'[own] = tmp[own] /\ tmp'[own] = 0
        /\ \A l \in Kinds : l # own => dest'[l] = dest[l] /\ tmp'[l] = tmp[l]
        /\ \A l \in Kinds : tmp[l] \in 0..Len(inodes) /\ dest[l] \in 0..Len(inodes)
        /\ Len(inodes) \in Nat
    BY <1>0, <1>1, <2>1 DEF FileType
  <2>4. FileType'  BY <1>0, <1>1, <2>1, <2>2, <2>3 DEF FileType
  <2>5. \A y \in Exporters : (Active(y)' <=> Active(y)) /\ exporting'[y].kind = exporting[y].kind
                             /\ exporting'[y].file = exporting[y].file
    BY <1>1, <2>2 DEF Active, own
  <2>6. OwnFiles'
    <3>1. \A k, l \in Kinds : tmp'[k] # 0 => tmp'[k] # dest'[l] /\ (k # l => tmp'[k] # tmp'[l])
      BY <1>0, <1>1, <2>3 DEF OwnFiles
    <3>2. ASSUME NEW y \in Exporters, Active(y)'
          PROVE  /\ exporting'[y].file \in 1..Len(inodes')
                 /\ \A l \in Kinds : l # exporting'[y].kind =>
                       exporting'[y].file # tmp'[l] /\ exporting'[y].file # dest'[l]
      <4>1. /\ exporting[y].file \in 1..Len(inodes)
            /\ \A l \in Kinds : l # exporting[y].kind =>
                  exporting[y].file # tmp[l] /\ exporting[y].file # dest[l]
        BY <1>0, <2>5, <3>2 DEF OwnFiles
      <4>2. ASSUME NEW l \in Kinds, l # exporting[y].kind
            PROVE  exporting[y].file # tmp'[l] /\ exporting[y].file # dest'[l]
        <5>1. CASE l = own  BY <2>3, <4>1, <4>2, <5>1
        <5>2. CASE l # own  BY <2>3, <4>1, <4>2, <5>2
        <5>3. QED  BY <5>1, <5>2
      <4>3. QED  BY <1>1, <2>5, <4>1, <4>2
    <3>3. QED  BY <3>1, <3>2 DEF OwnFiles
  <2>7. ASSUME NEW k \in Kinds \ disturbed' PROVE Orderly(k)' /\ Published(k)'
    <3>1. k \in Kinds \ disturbed /\ Orderly(k) /\ Published(k)  BY <1>0, <1>1, <2>7
    <3>2. CASE k = own
      <4>1. \A y \in Exporters : Active(y) /\ exporting[y].kind = k => y = x
        BY <1>1, <3>1, <3>2 DEF Orderly, own
      <4>2. inodes[tmp[k]] = exporting[x].rows  BY <1>1, <3>1, <3>2 DEF Orderly, own
      <4>3. Orderly(k)'  BY <2>2, <2>5, <4>1 DEF Orderly
      <4>4. /\ At(x, "record")' /\ exporting'[x].kind = k
            /\ exporting'[x].rows = inodes'[dest'[k]]
        BY <1>1, <2>2, <2>3, <3>2, <4>2 DEF At
      <4>5. QED  BY <4>3, <4>4 DEF Published
    <3>3. CASE k # own
      <4>1. dest'[k] = dest[k] /\ tmp'[k] = tmp[k]  BY <2>3, <3>1, <3>3
      <4>2. \A y \in Exporters : At(y, "record") /\ exporting[y].kind = k
                => At(y, "record")' /\ exporting'[y] = exporting[y]
        BY <1>1, <2>2 DEF At
      <4>3. Published(k)'  BY <1>1, <3>1, <4>1, <4>2, PublishedKept
      <4>4. \A y \in Exporters : Active(y)' /\ exporting'[y].kind = k =>
                Active(y) /\ exporting'[y] = exporting[y]
        BY <2>2, <2>5, <3>3
      <4>5. Orderly(k)'  BY <1>1, <3>1, <4>1, <4>4 DEF Orderly
      <4>6. QED  BY <4>3, <4>5
    <3>4. QED  BY <3>2, <3>3
  <2>8. QED  BY <2>4, <2>6, <2>7 DEF FilesInv
<1>4. QED  BY <1>2, <1>3

LEMMA FilesStep == StudyType /\ AllGrounded /\ FilesInv /\ [ExportNext]_allVars => FilesInv'
<1> SUFFICES ASSUME StudyType, AllGrounded, FilesInv, [ExportNext]_allVars PROVE FilesInv'
  OBVIOUS
<1>1. CASE UNCHANGED fileVars
  <2>1. UNCHANGED <<exporting, inodes, tmp, dest, recorded, disturbed>>  BY <1>1 DEF fileVars
  <2>2. FileType' /\ OwnFiles'  BY <2>1 DEF FilesInv, FileType, OwnFiles, Active
  <2>3. ASSUME NEW k \in Kinds \ disturbed' PROVE Orderly(k)' /\ Published(k)'
    <3>1. Orderly(k) /\ Published(k)  BY <2>1, <2>3 DEF FilesInv
    <3>2. QED  BY <2>1, <3>1 DEF Orderly, Published, Active, At
  <2>4. QED  BY <2>2, <2>3 DEF FilesInv
<1>2. ASSUME NEW x \in Exporters, ExportStep(x) PROVE FilesInv'
  BY <1>2, BeginStep, OpenStep, WriteStep, ReplaceStep, RecordStep, BreaksStep DEF ExportStep
<1>3. QED  BY <1>1, <1>2 DEF ExportNext, allVars

\* What stands at a destination is one whole export that the store has on record or is about to
\* record, unless exports of the file overlapped or one failed before its record, for any number of
\* exporters and exports and whatever is annotated meanwhile (export_*_jsonl, record_export).
THEOREM PublishedIsRecorded == ExportSpec => []PublishedRecorded
<1>1. ExportInit => FilesInv
  <2> SUFFICES ASSUME ExportInit PROVE FilesInv  OBVIOUS
  <2>1. FileType  BY DEF ExportInit, FileType
  <2>2. OwnFiles  BY DEF ExportInit, OwnFiles, Active
  <2>3. \A k \in Kinds : Orderly(k) /\ Published(k)
    BY DEF ExportInit, Orderly, Published, Active
  <2>4. QED  BY <2>1, <2>2, <2>3 DEF FilesInv
<1>2. (StudyType /\ Bound) /\ (ClickGrounded /\ AllGrounded) /\ FilesInv /\ [ExportNext]_allVars
          => FilesInv'
  BY FilesStep
<1>3. FilesInv => PublishedRecorded
  BY DEF FilesInv, Published, PublishedRecorded
<1>4. QED  BY <1>1, <1>2, <1>3, BoundAlways, GroundedAlways, PTL DEF ExportSpec

=============================================================================

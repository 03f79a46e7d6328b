------------------------ MODULE SubmissionLogProofs ------------------------
(***************************************************************************)
(* Theorems about SubmissionLog, for any number of sessions, assignments,  *)
(* labels, decisions and reloads and for every form.                       *)
(***************************************************************************)
EXTENDS SubmissionLog, FiniteSetTheorems, TLAPS

Step(s) == Decide(s) \/ ClickAgain(s) \/ Run(s) \/ Reload(s)

-----------------------------------------------------------------------------
(* Types.                                                                  *)

LEMMA InitialType == Init => TypeOK
BY SubmissionAssumption DEF Init, TypeOK, Assignments, Pcs

Top(R) == IF R = {} THEN 0 ELSE CHOOSE r \in R : \A q \in R : q <= r

LEMMA TopIs == ASSUME NEW n \in Nat PROVE Top(1..n) = n
<1>1. CASE n = 0
  <2>1. 1..n = {}  BY <1>1
  <2>2. QED  BY <1>1, <2>1 DEF Top
<1>2. CASE n # 0
  <2> DEFINE P(r) == r \in 1..n /\ \A q \in 1..n : q <= r
  <2>1. 1..n # {}  BY <1>2
  <2>2. Top(1..n) = CHOOSE r : P(r)  BY <2>1 DEF Top
  <2>3. P(n)  BY <1>2
  <2>4. P(CHOOSE r : P(r))  BY <2>3
  <2> HIDE DEF P
  <2>5. P(Top(1..n))  BY <2>2, <2>4
  <2>6. QED  BY <1>2, <2>5 DEF P
<1>3. QED  BY <1>1, <1>2

\* The revision a page displays, and the one an append starts from, are numbers.
LEMMA LatestInType ==
    ASSUME NEW a \in Assignments, \E n \in Nat : Revisions(a) = 1..n
    PROVE  LatestRevision(a) \in Nat /\ Revisions(a) = 1..LatestRevision(a)
<1>1. PICK n \in Nat : Revisions(a) = 1..n  OBVIOUS
<1>2. LatestRevision(a) = Top(Revisions(a))  BY DEF LatestRevision, Top
<1>3. LatestRevision(a) = n  BY <1>1, <1>2, TopIs
<1>4. QED  BY <1>1, <1>3

\* What a step of one session leaves alone in the others.
LEMMA Frame ==
    ASSUME TypeOK, NEW s \in Sessions, Step(s), NEW t \in Sessions, t # s
    PROVE  /\ pc'[t] = pc[t] /\ index'[t] = index[t] /\ form'[t] = form[t]
           /\ queued'[t] = queued[t] /\ saved'[t] = saved[t] /\ base'[t] = base[t]
           /\ began'[t] = began[t]
           /\ tokens'[t] = tokens[t] /\ prints'[t] = prints[t] /\ issued'[t] = issued[t]
           /\ intents'[t] = intents[t] /\ clicks'[t] = clicks[t]
<1> USE DEF TypeOK, tableVars, runVars, sessionState, userVars, Goto, DrawToken, DropToken
<1>1. CASE Decide(s)  BY <1>1 DEF Decide
<1>2. CASE ClickAgain(s)  BY <1>2 DEF ClickAgain
<1>3. CASE Render(s)  BY <1>3 DEF Render
<1>4. CASE GetToken(s)  BY <1>4 DEF GetToken, TokenReusedIf
<1>5. CASE LookUp(s)  BY <1>5 DEF LookUp, LookUpFrom
<1>6. CASE Insert(s)  BY <1>6 DEF Insert
<1>7. CASE Fail(s)  BY <1>7 DEF Fail, EndRun
<1>8. CASE Rotate(s)  BY <1>8 DEF Rotate
<1>9. CASE Finish(s)  BY <1>9 DEF Finish, EndRun
<1>10. CASE Interrupt(s)  BY <1>10 DEF Interrupt, EndRun
<1>11. CASE Reload(s)  BY <1>11 DEF Reload
<1>12. CASE InterruptHalfway(s)  BY <1>12 DEF InterruptHalfway, EndRun, DrawToken, DropToken
<1>13. QED  BY <1>1, <1>2, <1>3, <1>4, <1>5, <1>6, <1>7, <1>8, <1>9, <1>10, <1>11, <1>12
            DEF Step, Run

\* Only an insert touches the tables.
LEMMA TableFrame ==
    ASSUME NEW s \in Sessions, Step(s)
    PROVE  page' = page /\ (tableVars' = tableVars \/ Insert(s))
BY DEF Step, Run, Decide, ClickAgain, Render, GetToken, LookUp, LookUpFrom, Insert, Fail,
   Rotate, Finish, Interrupt, InterruptHalfway, Reload

LEMMA FingerprintInType ==
    ASSUME TypeOK, NEW s \in Sessions
    PROVE  FingerprintOf(s) \in Fingerprint /\ FingerprintOf(s) # NoFingerprint
BY SubmissionAssumption DEF TypeOK, FingerprintOf, Fingerprint

LEMMA TypeStep ==
    ASSUME TypeOK, NEW s \in Sessions, Step(s),
           LatestRevision(index[s]) \in Nat, Cardinality(events) \in Nat,
           pc[s] = "insert" => Current(s) # NoToken
    PROVE  TypeOK'
<1> USE DEF TypeOK, tableVars, runVars, sessionState, userVars, Goto, Pcs
<1>1. CASE Decide(s)  BY <1>1 DEF Decide
<1>2. CASE ClickAgain(s)  BY <1>2 DEF ClickAgain
<1>3. CASE Render(s)  BY <1>3 DEF Render
<1>4. CASE GetToken(s)
  <2>1. CASE UNCHANGED sessionState  BY <1>4, <2>1 DEF GetToken
  <2>2. CASE /\ DrawToken(s)
             /\ prints' = [prints EXCEPT ![s][index[s]] = FingerprintOf(s)]
    <3>1. prints' \in [Sessions -> [Assignments -> Fingerprint \cup {NoFingerprint}]]
      BY <2>2, FingerprintInType
    <3>2. QED  BY <1>4, <2>2, <3>1 DEF GetToken, DrawToken
  <2>3. QED  BY <1>4, <2>1, <2>2 DEF GetToken, TokenReusedIf
<1>5. CASE LookUp(s)
  <2>1. CASE UNCHANGED <<base, began>>  BY <1>5, <2>1 DEF LookUp, LookUpFrom
  <2>2. CASE /\ base' = [base EXCEPT ![s] = LatestRevision(index[s])]
             /\ began' = [began EXCEPT ![s] = Cardinality(events)]
    <3>1. base' \in [Sessions -> Nat] /\ began' \in [Sessions -> Nat]  BY <2>2
    <3>2. QED  BY <1>5, <3>1 DEF LookUp, LookUpFrom
  <2>3. QED  BY <1>5, <2>1, <2>2 DEF LookUp, LookUpFrom
<1>6. CASE Insert(s)
  <2>1. Current(s) \in Nat  BY <1>6 DEF Insert, Current
  <2>2. NewEvent(s) \in Event  BY <2>1 DEF NewEvent, Event
  <2>3. QED  BY <1>6, <2>2 DEF Insert, Complete
<1>7. CASE Fail(s)  BY <1>7 DEF Fail, EndRun
<1>8. CASE Rotate(s)  BY <1>8 DEF Rotate, DropToken
<1>9. CASE Finish(s)
  <2>1. index' \in [Sessions -> Assignments]
    BY <1>9, SubmissionAssumption DEF Finish, Assignments
  <2>2. QED  BY <1>9, <2>1 DEF Finish, EndRun
<1>10. CASE Interrupt(s)  BY <1>10 DEF Interrupt, EndRun
<1>11. CASE Reload(s)  BY <1>11, SubmissionAssumption DEF Reload, Assignments
<1>12. CASE InterruptHalfway(s)
  <2>1. CASE DrawToken(s)  BY <1>12, <2>1 DEF InterruptHalfway, EndRun, DrawToken
  <2>2. CASE DropToken(s) /\ UNCHANGED issued
    BY <1>12, <2>2 DEF InterruptHalfway, EndRun, DropToken
  <2>3. QED  BY <1>12, <2>1, <2>2 DEF InterruptHalfway
<1>13. QED  BY <1>1, <1>2, <1>3, <1>4, <1>5, <1>6, <1>7, <1>8, <1>9, <1>10, <1>11, <1>12
            DEF Step, Run

-----------------------------------------------------------------------------
(* The inductive invariant.                                                *)

\* An event was stored under a token its session has drawn, and under no other event's.
EventsKeyed ==
    /\ \A e \in events : e.id <= issued[e.session]
    /\ \A e, f \in events : e.session = f.session /\ e.id = f.id => e = f

\* A session's live tokens are different, and an event stored under one that is still
\* live records the assignment and the form whose fingerprint is beside it.
TokensSound ==
    \A s \in Sessions : \A a \in Assignments :
        tokens[s][a] # NoToken =>
            /\ tokens[s][a] <= issued[s]
            /\ \A b \in Assignments : tokens[s][b] = tokens[s][a] => b = a
            /\ \A e \in events :
                  e.session = s /\ e.id = tokens[s][a]
                      => e.assignment = a /\ e.label = prints[s][a].label

\* The rows are numbered in the order of the inserts.
RowsSound ==
    /\ IsFiniteSet(events)
    /\ \A e \in events : e.began < e.row /\ e.row <= Cardinality(events)

\* From the token on, a run holds the token of its form; once it has read the latest
\* revision it inserts above everything its own session has stored, and above all that
\* was there when it read.
RunSound(s) ==
    /\ pc[s] \in {"append", "insert", "rotate"} =>
          Current(s) # NoToken /\ prints[s][index[s]].label = form[s]
    /\ pc[s] = "insert" =>
          /\ ~Stored(s)
          /\ \A a \in Assignments : a = index[s] => base[s] <= LatestRevision(a)
          /\ began[s] <= Cardinality(events)
          /\ \A e \in events :
                e.assignment = index[s] /\ (e.session = s \/ e.row <= began[s])
                    => e.revision <= base[s]
    /\ pc[s] = "rotate" => Stored(s)

Gapless == \A a \in Assignments : \E n \in Nat : Revisions(a) = 1..n

SameRevisionOtherSession ==
    \A e, f \in events :
        e # f /\ e.assignment = f.assignment /\ e.revision = f.revision
            => e.session # f.session

RevisionsOrdered ==
    \A e, f \in events :
        e.assignment = f.assignment /\ e.row <= f.began => e.revision < f.revision

IInv ==
    /\ TypeOK
    /\ RowsSound
    /\ EventsKeyed
    /\ TokensSound
    /\ \A s \in Sessions : RunSound(s)
    /\ Gapless
    /\ SameRevisionOtherSession
    /\ RevisionsOrdered
    /\ StatusMatchesEvents

LEMMA InitialInvariant == Init => IInv
<1> SUFFICES ASSUME Init PROVE IInv  OBVIOUS
<1>1. TypeOK  BY InitialType
<1>2. EventsKeyed /\ SameRevisionOtherSession /\ RevisionsOrdered /\ RowsSound
  BY FS_EmptySet DEF Init, EventsKeyed, SameRevisionOtherSession, RevisionsOrdered, RowsSound
<1>3. TokensSound  BY DEF Init, TokensSound
<1>4. \A s \in Sessions : RunSound(s)  BY DEF Init, RunSound
<1>5. \A a \in Assignments : Revisions(a) = {}  BY DEF Init, Revisions
<1>6. Gapless
  <2>1. {} = 1..0  OBVIOUS
  <2>2. QED  BY <1>5, <2>1 DEF Gapless
<1>7. StatusMatchesEvents  BY <1>5 DEF Init, StatusMatchesEvents
<1>8. QED  BY <1>1, <1>2, <1>3, <1>4, <1>6, <1>7 DEF IInv

-----------------------------------------------------------------------------
(* Tokens and keys.                                                        *)

\* A step keeps the live tokens or forgets some, or draws a fresh one.
LEMMA TokenCases ==
    ASSUME TypeOK, NEW s \in Sessions, Step(s)
    PROVE  \/ /\ issued' = issued
              /\ \A t \in Sessions : \A a \in Assignments :
                    \/ tokens'[t][a] = NoToken
                    \/ tokens'[t][a] = tokens[t][a] /\ prints'[t][a] = prints[t][a]
           \/ /\ GetToken(s) \/ InterruptHalfway(s)
              /\ DrawToken(s)
              /\ \A t \in Sessions : \A a \in Assignments :
                    t # s \/ a # index[s] => prints'[t][a] = prints[t][a]
<1> USE DEF TypeOK, runVars, sessionState
<1>1. CASE UNCHANGED sessionState  BY <1>1
<1>2. CASE Rotate(s)  BY <1>2 DEF Rotate, DropToken
<1>3. CASE Reload(s)  BY <1>3 DEF Reload
<1>4. CASE InterruptHalfway(s)  BY <1>4 DEF InterruptHalfway, DropToken
<1>5. CASE GetToken(s)
  <2>1. CASE UNCHANGED sessionState  BY <1>1, <2>1
  <2>2. CASE /\ DrawToken(s)
             /\ prints' = [prints EXCEPT ![s][index[s]] = FingerprintOf(s)]
    <3>1. \A t \in Sessions : \A a \in Assignments :
             t # s \/ a # index[s] => prints'[t][a] = prints[t][a]
      BY <2>2
    <3>2. QED  BY <1>5, <2>2, <3>1
  <2>3. QED  BY <1>5, <2>1, <2>2 DEF GetToken, TokenReusedIf
<1>6. QED
  BY <1>1, <1>2, <1>3, <1>4, <1>5
  DEF Step, Run, Decide, ClickAgain, Render, LookUp, LookUpFrom, Insert, Fail, Finish, Interrupt

LEMMA KeysStep ==
    ASSUME IInv, TypeOK', NEW s \in Sessions, Step(s)
    PROVE  EventsKeyed' /\ TokensSound'
<1>0. TypeOK /\ EventsKeyed /\ TokensSound /\ RunSound(s)  BY DEF IInv
<1>1. CASE /\ events' = events /\ issued' = issued
           /\ \A t \in Sessions : \A a \in Assignments :
                 \/ tokens'[t][a] = NoToken
                 \/ tokens'[t][a] = tokens[t][a] /\ prints'[t][a] = prints[t][a]
  <2>1. EventsKeyed'  BY <1>0, <1>1 DEF EventsKeyed
  <2>2. TokensSound'  BY <1>0, <1>1 DEF TokensSound
  <2>3. QED  BY <2>1, <2>2
<1>2. CASE Insert(s)
  <2>1. /\ issued' = issued /\ tokens' = tokens /\ prints' = prints
        /\ events' = events \cup {NewEvent(s)} /\ pc[s] = "insert"
    BY <1>2 DEF Insert, Goto, sessionState
  <2>2. /\ Current(s) # NoToken /\ prints[s][index[s]].label = form[s] /\ ~Stored(s)
        /\ index[s] \in Assignments /\ Current(s) = tokens[s][index[s]]
    BY <1>0, <2>1 DEF RunSound, TypeOK, Current
  <2>3. /\ NewEvent(s).session = s /\ NewEvent(s).id = Current(s)
        /\ NewEvent(s).assignment = index[s] /\ NewEvent(s).label = form[s]
    BY DEF NewEvent
  <2>4. EventsKeyed'
    <3>1. Current(s) <= issued[s]  BY <1>0, <2>2 DEF TokensSound
    <3>2. QED  BY <1>0, <2>1, <2>2, <2>3, <3>1 DEF EventsKeyed, Stored
  <2>5. TokensSound'
    <3> SUFFICES ASSUME NEW t \in Sessions, NEW a \in Assignments, tokens[t][a] # NoToken,
                        NEW e \in events', e.session = t, e.id = tokens[t][a]
                 PROVE  e.assignment = a /\ e.label = prints[t][a].label
      BY <1>0, <2>1 DEF TokensSound
    <3>1. CASE e \in events  BY <1>0, <3>1 DEF TokensSound
    <3>2. CASE e = NewEvent(s)
      <4>1. t = s /\ tokens[s][index[s]] = tokens[s][a]  BY <2>2, <2>3, <3>2
      <4>2. a = index[s]  BY <1>0, <2>2, <4>1 DEF TokensSound
      <4>3. QED  BY <2>2, <2>3, <3>2, <4>1, <4>2
    <3>3. QED  BY <2>1, <3>1, <3>2
  <2>6. QED  BY <2>4, <2>5
<1>3. CASE /\ GetToken(s) \/ InterruptHalfway(s)
           /\ DrawToken(s)
           /\ \A t \in Sessions : \A a \in Assignments :
                 t # s \/ a # index[s] => prints'[t][a] = prints[t][a]
  <2>1. events' = events  BY <1>3 DEF GetToken, InterruptHalfway, tableVars
  <2>2. /\ issued'[s] = issued[s] + 1 /\ issued[s] \in Nat
        /\ \A t \in Sessions : t # s => issued'[t] = issued[t]
        /\ \A t \in Sessions : issued[t] \in Nat
    BY <1>0, <1>3 DEF TypeOK, DrawToken
  <2>3. /\ tokens'[s][index[s]] = issued[s] + 1 /\ index[s] \in Assignments
        /\ \A t \in Sessions : \A a \in Assignments :
              t # s \/ a # index[s] =>
                  tokens'[t][a] = tokens[t][a] /\ prints'[t][a] = prints[t][a]
    BY <1>0, <1>3 DEF TypeOK, DrawToken
  <2>4. /\ \A e \in events : e.session \in Sessions /\ e.id \in Nat
        /\ \A t \in Sessions : \A a \in Assignments :
              tokens[t][a] # NoToken => tokens[t][a] \in Nat
    BY <1>0 DEF TypeOK, Event
  <2>5. EventsKeyed'  BY <1>0, <2>1, <2>2, <2>4 DEF EventsKeyed
  <2>6. ASSUME NEW t \in Sessions, NEW a \in Assignments, tokens'[t][a] # NoToken
        PROVE  /\ tokens'[t][a] <= issued'[t]
               /\ \A b \in Assignments : tokens'[t][b] = tokens'[t][a] => b = a
               /\ \A e \in events :
                     e.session = t /\ e.id = tokens'[t][a]
                         => e.assignment = a /\ e.label = prints'[t][a].label
    <3>1. CASE t # s
      <4>1. /\ \A b \in Assignments :
                  tokens'[t][b] = tokens[t][b] /\ prints'[t][b] = prints[t][b]
            /\ issued'[t] = issued[t]
        BY <2>2, <2>3, <3>1
      <4>2. QED  BY <1>0, <2>6, <4>1 DEF TokensSound
    <3>2. CASE t = s /\ a = index[s]
      <4>1. tokens'[t][a] = issued[s] + 1  BY <2>3, <3>2
      <4>2. \A b \in Assignments :
              tokens[s][b] = NoToken \/ (tokens[s][b] <= issued[s] /\ tokens[s][b] \in Nat)
        BY <1>0, <2>4 DEF TokensSound
      <4>3. \A e \in events : e.session = s => e.id <= issued[s] /\ e.id \in Nat
        BY <1>0, <2>4 DEF EventsKeyed
      <4>4. ASSUME NEW b \in Assignments, tokens'[t][b] = tokens'[t][a] PROVE b = a
        <5>1. CASE b # index[s]
          <6>1. tokens[s][b] = issued[s] + 1  BY <2>3, <3>2, <4>1, <4>4, <5>1
          <6>2. tokens[s][b] # NoToken  BY <2>2, <6>1, SubmissionAssumption
          <6>3. QED  BY <2>2, <4>2, <6>1, <6>2
        <5>2. QED  BY <3>2, <5>1
      <4>5. QED  BY <2>2, <2>3, <3>2, <4>1, <4>3, <4>4
    <3>3. CASE t = s /\ a # index[s]
      <4>1. /\ tokens'[t][a] = tokens[t][a] /\ tokens[t][a] # NoToken
            /\ prints'[t][a] = prints[t][a]
        BY <2>3, <2>6, <3>3
      <4>2. /\ tokens[t][a] <= issued[t] /\ tokens[t][a] \in Nat
            /\ tokens'[t][index[s]] = issued[t] + 1
        BY <1>0, <2>3, <2>4, <3>3, <4>1 DEF TokensSound
      <4>3. \A b \in Assignments : tokens'[t][b] = tokens'[t][a] => b = a
        BY <1>0, <2>2, <2>3, <3>3, <4>1, <4>2 DEF TokensSound
      <4>4. tokens'[t][a] <= issued'[t]  BY <2>2, <3>3, <4>1, <4>2
      <4>5. QED  BY <1>0, <4>1, <4>3, <4>4 DEF TokensSound
    <3>4. QED  BY <3>1, <3>2, <3>3
  <2>7. TokensSound'  BY <2>1, <2>6 DEF TokensSound
  <2>8. QED  BY <2>5, <2>7
<1>4. CASE events' = events
  BY <1>0, <1>1, <1>3, <1>4, TokenCases
<1>5. QED  BY <1>2, <1>4, TableFrame DEF tableVars

(* Rows.                                                                   *)

LEMMA RowCountType == IInv => IsFiniteSet(events) /\ Cardinality(events) \in Nat
BY FS_CardinalityType DEF IInv, RowsSound

\* An insert adds a row behind all others.
LEMMA InsertRow ==
    ASSUME IInv, NEW s \in Sessions, Insert(s)
    PROVE  /\ IsFiniteSet(events') /\ Cardinality(events') = Cardinality(events) + 1
           /\ NewEvent(s).row = Cardinality(events) + 1 /\ NewEvent(s).began = began[s]
           /\ began[s] <= Cardinality(events)
<1>1. IsFiniteSet(events) /\ Cardinality(events) \in Nat  BY RowCountType
<1>2. /\ events' = events \cup {NewEvent(s)}
      /\ NewEvent(s).row = Cardinality(events) + 1 /\ NewEvent(s).began = began[s]
  BY DEF Insert, NewEvent
<1>3. \A e \in events : e.row <= Cardinality(events)  BY DEF IInv, RowsSound
<1>4. NewEvent(s) \notin events  BY <1>1, <1>2, <1>3
<1>5. began[s] <= Cardinality(events)  BY DEF IInv, RunSound, Insert, Goto
<1>6. QED  BY <1>1, <1>2, <1>4, <1>5, FS_AddElement

LEMMA RowsStep ==
    ASSUME IInv, NEW s \in Sessions, Step(s)
    PROVE  RowsSound' /\ Cardinality(events) <= Cardinality(events')
<1>1. IsFiniteSet(events) /\ Cardinality(events) \in Nat /\ RowsSound
  BY RowCountType DEF IInv
<1>2. CASE events' = events  BY <1>1, <1>2 DEF RowsSound
<1>3. CASE Insert(s)
  <2>1. events' = events \cup {NewEvent(s)}  BY <1>3 DEF Insert
  <2>2. \A e \in events : e.row \in Nat  BY DEF IInv, TypeOK, Event
  <2>3. began[s] \in Nat  BY DEF IInv, TypeOK
  <2>4. /\ IsFiniteSet(events') /\ Cardinality(events') = Cardinality(events) + 1
        /\ NewEvent(s).row = Cardinality(events) + 1 /\ NewEvent(s).began = began[s]
        /\ began[s] <= Cardinality(events)
    BY <1>3, InsertRow
  <2>5. \A e \in events : e.began < e.row /\ e.row <= Cardinality(events) + 1
    BY <1>1, <2>2 DEF RowsSound
  <2>6. NewEvent(s).began < NewEvent(s).row  BY <1>1, <2>3, <2>4
  <2>7. \A e \in events' : e.began < e.row /\ e.row <= Cardinality(events')
    BY <1>1, <2>1, <2>4, <2>5, <2>6
  <2>8. QED  BY <1>1, <2>4, <2>7 DEF RowsSound
<1>4. QED  BY <1>2, <1>3, TableFrame DEF tableVars

-----------------------------------------------------------------------------
(* Revisions.                                                              *)

\* What an insert does to the revisions of each assignment.
LEMMA InsertRevisions ==
    ASSUME IInv, NEW s \in Sessions, Insert(s)
    PROVE  \A a \in Assignments :
               Revisions(a)' = Revisions(a) \cup
                   (IF a = index[s] THEN {base[s] + 1} ELSE {})
<1>1. events' = events \cup {NewEvent(s)}  BY DEF Insert
<1>2. NewEvent(s).assignment = index[s] /\ NewEvent(s).revision = base[s] + 1
  BY DEF NewEvent
<1>3. index' = index  BY DEF Insert
<1> HIDE DEF NewEvent
<1>4. ASSUME NEW a \in Assignments
      PROVE  Revisions(a)' = Revisions(a) \cup
                 (IF a = index[s] THEN {base[s] + 1} ELSE {})
  <2>1. Revisions(a)' = {e.revision : e \in {f \in events' : f.assignment = a}}
    BY DEF Revisions
  <2>2. CASE a = index[s]
    <3>1. {f \in events' : f.assignment = a} =
              {f \in events : f.assignment = a} \cup {NewEvent(s)}
      BY <1>1, <1>2, <2>2
    <3>2. QED  BY <1>2, <2>1, <2>2, <3>1 DEF Revisions
  <2>3. CASE a # index[s]
    <3>1. {f \in events' : f.assignment = a} = {f \in events : f.assignment = a}
      BY <1>1, <1>2, <2>3
    <3>2. QED  BY <2>1, <2>3, <3>1 DEF Revisions
  <2>4. QED  BY <2>2, <2>3
<1>5. QED  BY <1>4

\* An insert adds the next revision, or one that another session has just stored.
LEMMA InsertNext ==
    ASSUME IInv, NEW s \in Sessions, Insert(s)
    PROVE  /\ Gapless'
           /\ \A a \in Assignments : LatestRevision(a) <= LatestRevision(a)'
<1>1. /\ pc[s] = "insert" /\ index[s] \in Assignments /\ base[s] \in Nat
      /\ base[s] <= LatestRevision(index[s])
  BY DEF IInv, TypeOK, RunSound, Insert, Goto
<1>2. ASSUME NEW a \in Assignments
      PROVE  \E n \in Nat : Revisions(a)' = 1..n /\ LatestRevision(a) <= n
  <2>1. LatestRevision(a) \in Nat /\ Revisions(a) = 1..LatestRevision(a)
    BY LatestInType DEF IInv, Gapless
  <2>2. CASE a # index[s]
    <3>1. Revisions(a)' = Revisions(a)  BY <2>2, InsertRevisions
    <3>2. QED  BY <2>1, <3>1
  <2>3. CASE a = index[s]
    <3>1. Revisions(a)' = 1..LatestRevision(a) \cup {base[s] + 1}
      BY <2>1, <2>3, InsertRevisions
    <3>2. CASE base[s] = LatestRevision(a)
      <4>1. Revisions(a)' = 1..(LatestRevision(a) + 1)  BY <1>1, <2>1, <3>1, <3>2
      <4>2. QED  BY <2>1, <4>1
    <3>3. CASE base[s] # LatestRevision(a)
      <4>1. base[s] + 1 \in 1..LatestRevision(a)  BY <1>1, <2>1, <2>3, <3>3
      <4>2. Revisions(a)' = 1..LatestRevision(a)  BY <3>1, <4>1
      <4>3. QED  BY <2>1, <4>2
    <3>4. QED  BY <3>2, <3>3
  <2>4. QED  BY <2>2, <2>3
<1>3. Gapless'  BY <1>2 DEF Gapless
<1>4. ASSUME NEW a \in Assignments PROVE LatestRevision(a) <= LatestRevision(a)'
  <2>1. PICK n \in Nat : Revisions(a)' = 1..n /\ LatestRevision(a) <= n  BY <1>2
  <2>2. LatestRevision(a) \in Nat  BY LatestInType DEF IInv, Gapless
  <2>3. LatestRevision(a)' = Top(Revisions(a)')  BY DEF LatestRevision, Top
  <2>4. QED  BY <2>1, <2>3, TopIs
<1>5. QED  BY <1>3, <1>4

-----------------------------------------------------------------------------
(* Runs and the table.                                                     *)

\* The runs of the other sessions: what one of them inserts under its own keys does not
\* change what they have looked up, and the latest revision only grows.
LEMMA OtherRuns ==
    ASSUME IInv, NEW s \in Sessions, Step(s), NEW t \in Sessions, t # s
    PROVE  RunSound(t)'
<1>1. TypeOK /\ RunSound(t)  BY DEF IInv
<1>2. /\ pc'[t] = pc[t] /\ index'[t] = index[t] /\ form'[t] = form[t] /\ base'[t] = base[t]
      /\ tokens'[t] = tokens[t] /\ prints'[t] = prints[t] /\ began'[t] = began[t]
  BY <1>1, Frame
<1>3. Current(t)' = Current(t)  BY <1>2 DEF Current
<1>4. \A e \in events' : e.session = t => e \in events
  <2>1. CASE events' = events  BY <2>1
  <2>2. CASE Insert(s)  BY <2>2 DEF Insert, NewEvent
  <2>3. QED  BY <2>1, <2>2, TableFrame DEF tableVars
<1>5. events \subseteq events'
  <2>1. CASE events' = events  BY <2>1
  <2>2. CASE Insert(s)  BY <2>2 DEF Insert
  <2>3. QED  BY <2>1, <2>2, TableFrame DEF tableVars
<1>6. Stored(t)' <=> Stored(t)  BY <1>3, <1>4, <1>5 DEF Stored
<1>7. ASSUME NEW a \in Assignments
      PROVE  LatestRevision(a) <= LatestRevision(a)' /\ LatestRevision(a)' \in Nat
  <2>1. LatestRevision(a) \in Nat  BY LatestInType DEF IInv, Gapless
  <2>2. CASE events' = events
    <3>1. LatestRevision(a)' = LatestRevision(a)  BY <2>2 DEF LatestRevision, Revisions
    <3>2. QED  BY <2>1, <3>1
  <2>3. CASE Insert(s)
    <3>1. PICK n \in Nat : Revisions(a)' = 1..n  BY <2>3, InsertNext DEF Gapless
    <3>2. LatestRevision(a)' = Top(Revisions(a)')  BY DEF LatestRevision, Top
    <3>3. LatestRevision(a)' = n  BY <3>1, <3>2, TopIs
    <3>4. QED  BY <2>3, <3>3, InsertNext
  <2>4. QED  BY <2>2, <2>3, TableFrame DEF tableVars
<1>8. /\ base[t] \in Nat
      /\ \A a \in Assignments : LatestRevision(a) \in Nat
  BY LatestInType DEF IInv, TypeOK, Gapless
<1>9. pc[t] = "insert" => \A a \in Assignments :
         a = index'[t] => base'[t] <= LatestRevision(a)'
  BY <1>1, <1>2, <1>7, <1>8 DEF RunSound
<1>10. ASSUME pc[t] = "insert"
       PROVE  /\ began'[t] <= Cardinality(events')
              /\ \A e \in events' :
                    e.assignment = index'[t] /\ (e.session = t \/ e.row <= began'[t])
                        => e.revision <= base'[t]
  <2>1. /\ began[t] <= Cardinality(events) /\ began[t] \in Nat /\ Cardinality(events) \in Nat
        /\ \A e \in events :
              e.assignment = index[t] /\ (e.session = t \/ e.row <= began[t])
                  => e.revision <= base[t]
    BY <1>1, <1>10, RowCountType DEF RunSound, TypeOK
  <2>2. CASE events' = events  BY <1>2, <2>1, <2>2
  <2>3. CASE Insert(s)
    <3>1. /\ events' = events \cup {NewEvent(s)} /\ NewEvent(s).session = s
          /\ NewEvent(s).row = Cardinality(events) + 1
          /\ Cardinality(events') = Cardinality(events) + 1
      BY <2>3, InsertRow DEF Insert, NewEvent
    <3>2. ~(NewEvent(s).row <= began[t]) /\ NewEvent(s).session # t  BY <2>1, <3>1
    <3>3. QED  BY <1>2, <2>1, <3>1, <3>2
  <2>4. QED  BY <2>2, <2>3, TableFrame DEF tableVars
<1>11. QED  BY <1>1, <1>2, <1>3, <1>4, <1>6, <1>9, <1>10 DEF RunSound

LEMMA OwnRun ==
    ASSUME IInv, NEW s \in Sessions, Step(s)
    PROVE  RunSound(s)'
<1>0. /\ TypeOK /\ RunSound(s)
      /\ index[s] \in Assignments /\ form[s] \in Labels /\ pc[s] \in Pcs
  BY DEF IInv, TypeOK
<1>1. CASE pc'[s] \notin {"append", "insert", "rotate"}  BY <1>1 DEF RunSound
<1>2. CASE ClickAgain(s)
  <2>1. /\ pc' = pc /\ index' = index /\ form' = form /\ base' = base /\ tokens' = tokens
        /\ prints' = prints /\ began' = began /\ events' = events
    BY <1>2 DEF ClickAgain, tableVars, sessionState
  <2>2. Current(s)' = Current(s) /\ (Stored(s)' <=> Stored(s))
    BY <2>1 DEF Current, Stored
  <2>3. \A a \in Assignments : LatestRevision(a)' = LatestRevision(a)
    BY <2>1 DEF LatestRevision, Revisions
  <2>4. QED  BY <1>0, <2>1, <2>2, <2>3 DEF RunSound
<1>3. CASE GetToken(s)
  <2>1. pc'[s] = "append" /\ index' = index /\ form' = form
    BY <1>0, <1>3 DEF GetToken, Goto, TypeOK
  <2>2. CASE UNCHANGED sessionState /\ Reusable(s)
    <3>1. Current(s)' = Current(s) /\ prints' = prints  BY <2>1, <2>2 DEF Current, sessionState
    <3>2. Current(s) # NoToken /\ prints[s][index[s]].label = form[s]
      BY <2>2 DEF Reusable, FingerprintOf
    <3>3. QED  BY <2>1, <3>1, <3>2 DEF RunSound
  <2>3. CASE /\ DrawToken(s)
             /\ prints' = [prints EXCEPT ![s][index[s]] = FingerprintOf(s)]
    <3>1. Current(s)' = issued[s] + 1 /\ issued[s] \in Nat
      BY <1>0, <2>1, <2>3 DEF Current, TypeOK, DrawToken
    <3>2. Current(s)' # NoToken  BY <3>1, SubmissionAssumption
    <3>3. prints'[s][index[s]] = FingerprintOf(s)  BY <1>0, <2>3 DEF TypeOK
    <3>4. prints'[s][index[s]].label = form[s]  BY <3>3 DEF FingerprintOf
    <3>5. QED  BY <2>1, <3>2, <3>4 DEF RunSound
  <2>4. QED  BY <1>3, <2>2, <2>3 DEF GetToken, TokenReusedIf
<1>4. CASE LookUp(s)
  <2>1. /\ index' = index /\ form' = form /\ tokens' = tokens /\ prints' = prints
        /\ events' = events /\ pc[s] = "append"
    BY <1>4 DEF LookUp, LookUpFrom, tableVars, sessionState, Goto
  <2>2. Current(s)' = Current(s) /\ (Stored(s)' <=> Stored(s))
    BY <2>1 DEF Current, Stored
  <2>3. \A a \in Assignments : LatestRevision(a)' = LatestRevision(a)
    BY <2>1 DEF LatestRevision, Revisions
  <2>4. Current(s) # NoToken /\ prints[s][index[s]].label = form[s]
    BY <1>0, <2>1 DEF RunSound
  <2>5. CASE pc'[s] = "rotate" /\ Stored(s)
    BY <2>1, <2>2, <2>4, <2>5 DEF RunSound
  <2>6. CASE /\ pc'[s] = "insert" /\ ~Stored(s) /\ base'[s] = LatestRevision(index[s])
             /\ began'[s] = Cardinality(events)
    <3>1. /\ LatestRevision(index[s]) \in Nat
          /\ Revisions(index[s]) = 1..LatestRevision(index[s])
      BY <1>0, LatestInType DEF IInv, Gapless
    <3>2. \A e \in events :
             e.assignment = index[s] => e.revision <= LatestRevision(index[s])
      <4>1. \A e \in events : e.assignment = index[s] => e.revision \in Revisions(index[s])
        BY DEF Revisions
      <4>2. QED  BY <3>1, <4>1
    <3>3. Cardinality(events) \in Nat /\ Cardinality(events') = Cardinality(events)
      BY <2>1, RowCountType
    <3>4. began'[s] <= Cardinality(events')  BY <2>6, <3>3
    <3>5. QED  BY <2>1, <2>2, <2>3, <2>4, <2>6, <3>1, <3>2, <3>4 DEF RunSound
  <2>7. QED  BY <1>0, <1>4, <2>5, <2>6 DEF LookUp, LookUpFrom, Goto, TypeOK
<1>5. CASE Insert(s)
  <2>1. /\ index' = index /\ form' = form /\ tokens' = tokens /\ prints' = prints
        /\ events' = events \cup {NewEvent(s)} /\ pc[s] = "insert" /\ pc'[s] = "rotate"
    BY <1>0, <1>5 DEF Insert, Goto, TypeOK, sessionState
  <2>2. Current(s)' = Current(s)  BY <2>1 DEF Current
  <2>3. Stored(s)'
    <3>1. NewEvent(s).session = s /\ NewEvent(s).id = Current(s)  BY DEF NewEvent
    <3>2. NewEvent(s) \in events'  BY <2>1
    <3>3. QED  BY <2>2, <3>1, <3>2 DEF Stored
  <2>4. QED  BY <1>0, <2>1, <2>2, <2>3 DEF RunSound
<1>6. CASE pc'[s] \in {"append", "insert", "rotate"}
  <2>1. ClickAgain(s) \/ GetToken(s) \/ LookUp(s) \/ Insert(s)
    BY <1>0, <1>6
    DEF Step, Run, Decide, Render, Fail, Rotate, Finish, Interrupt, InterruptHalfway, Reload,
        EndRun, Goto, TypeOK
  <2>2. QED  BY <1>2, <1>3, <1>4, <1>5, <2>1
<1>7. QED  BY <1>1, <1>6

LEMMA TableStep ==
    ASSUME IInv, NEW s \in Sessions, Step(s)
    PROVE  Gapless' /\ SameRevisionOtherSession' /\ RevisionsOrdered' /\ StatusMatchesEvents'
<1>1. CASE tableVars' = tableVars
  <2>1. events' = events /\ status' = status /\ reopened' = reopened  BY <1>1 DEF tableVars
  <2>2. \A a \in Assignments : Revisions(a)' = Revisions(a)  BY <2>1 DEF Revisions
  <2>3. Gapless'  BY <2>2 DEF IInv, Gapless
  <2>4. SameRevisionOtherSession'  BY <2>1 DEF IInv, SameRevisionOtherSession
  <2>5. RevisionsOrdered'  BY <2>1 DEF IInv, RevisionsOrdered
  <2>6. StatusMatchesEvents'  BY <2>1, <2>2 DEF IInv, StatusMatchesEvents
  <2>7. QED  BY <2>3, <2>4, <2>5, <2>6
<1>2. CASE Insert(s)
  <2>1. /\ TypeOK /\ RunSound(s) /\ SameRevisionOtherSession /\ StatusMatchesEvents
        /\ pc[s] = "insert" /\ events' = events \cup {NewEvent(s)} /\ index[s] \in Assignments
        /\ base[s] \in Nat
    BY <1>2 DEF IInv, TypeOK, Insert, Goto
  <2>2. Gapless'  BY <1>2, InsertNext
  <2>3. SameRevisionOtherSession'
    <3>1. /\ NewEvent(s).session = s /\ NewEvent(s).assignment = index[s]
          /\ NewEvent(s).revision = base[s] + 1
      BY DEF NewEvent
    <3>2. \A e \in events : e.revision \in Nat  BY <2>1 DEF TypeOK, Event
    <3>3. \A e \in events : e.session = s /\ e.assignment = index[s] => e.revision <= base[s]
      BY <2>1 DEF RunSound
    <3>4. \A e \in events :
             e.assignment = index[s] /\ e.revision = base[s] + 1 => e.session # s
      BY <2>1, <3>2, <3>3
    <3>5. QED  BY <2>1, <3>1, <3>4 DEF SameRevisionOtherSession
  <2>4. RevisionsOrdered'
    <3>1. /\ NewEvent(s).assignment = index[s] /\ NewEvent(s).revision = base[s] + 1
          /\ NewEvent(s).row = Cardinality(events) + 1 /\ NewEvent(s).began = began[s]
          /\ began[s] <= Cardinality(events) /\ Cardinality(events) \in Nat
          /\ began[s] \in Nat
      BY <1>2, <2>1, InsertRow, RowCountType DEF NewEvent, TypeOK
    <3>2. /\ \A e \in events : e.began < e.row /\ e.row <= Cardinality(events)
          /\ \A e \in events : e.revision \in Nat /\ e.row \in Nat /\ e.began \in Nat
      BY <2>1 DEF IInv, RowsSound, TypeOK, Event
    <3>3. \A e \in events :
             e.assignment = index[s] /\ e.row <= began[s] => e.revision < base[s] + 1
      BY <2>1, <3>2 DEF RunSound
    <3>4. \A e \in events \cup {NewEvent(s)} : ~(NewEvent(s).row <= e.began)
      BY <3>1, <3>2
    <3>5. ASSUME NEW e \in events', NEW f \in events',
                 e.assignment = f.assignment, e.row <= f.began
          PROVE  e.revision < f.revision
      <4>1. e \in events  BY <2>1, <3>4, <3>5
      <4>2. CASE f \in events  BY <3>5, <4>1, <4>2 DEF IInv, RevisionsOrdered
      <4>3. CASE f = NewEvent(s)  BY <3>1, <3>3, <3>5, <4>1, <4>3
      <4>4. QED  BY <2>1, <4>2, <4>3
    <3>6. QED  BY <3>5 DEF RevisionsOrdered
  <2>5. StatusMatchesEvents'
    <3>1. /\ status' = [status EXCEPT ![index[s]] = "completed"]
          /\ reopened' = reopened \ {index[s]}
      BY <1>2 DEF Insert, Complete
    <3>2. ASSUME NEW a \in Assignments
          PROVE  /\ status'[a] = "completed" => Revisions(a)' # {}
                 /\ Revisions(a)' # {} /\ a \notin reopened' => status'[a] = "completed"
      <4>1. CASE a = index[s]
        <5>1. Revisions(a)' = Revisions(a) \cup {base[s] + 1}
          BY <1>2, <4>1, InsertRevisions
        <5>2. status'[a] = "completed"  BY <2>1, <3>1, <4>1 DEF TypeOK
        <5>3. QED  BY <5>1, <5>2
      <4>2. CASE a # index[s]
        <5>1. Revisions(a)' = Revisions(a)  BY <1>2, <4>2, InsertRevisions
        <5>2. status'[a] = status[a]  BY <2>1, <3>1, <4>2 DEF TypeOK
        <5>3. QED  BY <2>1, <3>1, <4>2, <5>1, <5>2 DEF StatusMatchesEvents
      <4>3. QED  BY <4>1, <4>2
    <3>3. QED  BY <3>2 DEF StatusMatchesEvents
  <2>6. QED  BY <2>2, <2>3, <2>4, <2>5
<1>3. QED  BY <1>1, <1>2, TableFrame

LEMMA ReimportStep ==
    ASSUME IInv, NEW a \in Assignments, Reimport(a)
    PROVE  IInv'
<1>1. /\ page' = page /\ events' = events /\ runVars' = runVars /\ userVars' = userVars
      /\ status' = [status EXCEPT ![a] = "assigned"]
      /\ reopened' = IF Revisions(a) = {} THEN reopened ELSE reopened \cup {a}
  BY DEF Reimport
<1>2. \A b \in Assignments : Revisions(b)' = Revisions(b)  BY <1>1 DEF Revisions
<1>3. \A b \in Assignments : LatestRevision(b)' = LatestRevision(b)
  BY <1>1 DEF LatestRevision, Revisions
<1>4. TypeOK'  BY <1>1 DEF IInv, TypeOK, runVars, sessionState, userVars
<1>5. /\ EventsKeyed' /\ TokensSound' /\ SameRevisionOtherSession'
      /\ RevisionsOrdered' /\ RowsSound'
  BY <1>1 DEF IInv, EventsKeyed, TokensSound, SameRevisionOtherSession, RevisionsOrdered,
     RowsSound, runVars, sessionState
<1>6. ASSUME NEW s \in Sessions PROVE RunSound(s)'
  <2>1. Current(s)' = Current(s) /\ (Stored(s)' <=> Stored(s))
    BY <1>1 DEF Current, Stored, runVars, sessionState
  <2>2. QED  BY <1>1, <1>3, <2>1 DEF IInv, RunSound, runVars, sessionState
<1>7. Gapless'  BY <1>2 DEF IInv, Gapless
<1>8. StatusMatchesEvents'
  <2>1. StatusMatchesEvents /\ TypeOK  BY DEF IInv
  <2>2. ASSUME NEW b \in Assignments
        PROVE  /\ status'[b] = "completed" => Revisions(b)' # {}
               /\ Revisions(b)' # {} /\ b \notin reopened' => status'[b] = "completed"
    <3>1. CASE b = a
      <4>1. status'[b] = "assigned"  BY <1>1, <2>1, <3>1 DEF TypeOK
      <4>2. Revisions(b)' # {} => b \in reopened'  BY <1>1, <1>2, <3>1
      <4>3. QED  BY <4>1, <4>2
    <3>2. CASE b # a
      <4>1. status'[b] = status[b]  BY <1>1, <2>1, <3>2 DEF TypeOK
      <4>2. QED  BY <1>1, <1>2, <2>1, <3>2, <4>1 DEF StatusMatchesEvents
    <3>3. QED  BY <3>1, <3>2
  <2>3. QED  BY <2>2 DEF StatusMatchesEvents
<1>9. QED  BY <1>4, <1>5, <1>6, <1>7, <1>8 DEF IInv

LEMMA InvariantStep == IInv /\ [Next]_vars => IInv'
<1> SUFFICES ASSUME IInv, [Next]_vars PROVE IInv'  OBVIOUS
<1>1. ASSUME NEW s \in Sessions, Step(s) PROVE IInv'
  <2>1. LatestRevision(index[s]) \in Nat
    <3>1. index[s] \in Assignments  BY DEF IInv, TypeOK
    <3>2. QED  BY <3>1, LatestInType DEF IInv, Gapless
  <2>2. TypeOK'  BY <1>1, <2>1, TypeStep, RowCountType DEF IInv, RunSound
  <2>3. EventsKeyed' /\ TokensSound'  BY <1>1, <2>2, KeysStep
  <2>4. \A t \in Sessions : RunSound(t)'  BY <1>1, OtherRuns, OwnRun
  <2>5. QED  BY <1>1, <2>2, <2>3, <2>4, TableStep, RowsStep DEF IInv
<1>2. CASE UNCHANGED vars
  <2> USE <1>2 DEF vars, tableVars, runVars, sessionState, userVars, IInv
  <2>1. /\ TypeOK' /\ EventsKeyed' /\ TokensSound' /\ SameRevisionOtherSession'
        /\ RevisionsOrdered' /\ RowsSound'
    BY DEF TypeOK, EventsKeyed, TokensSound, SameRevisionOtherSession, RevisionsOrdered, RowsSound
  <2>2. \A a \in Assignments : Revisions(a)' = Revisions(a)
    BY DEF Revisions
  <2>3. \A a \in Assignments : LatestRevision(a)' = LatestRevision(a)
    BY DEF LatestRevision, Revisions
  <2>4. Gapless' /\ StatusMatchesEvents'  BY <2>2 DEF Gapless, StatusMatchesEvents
  <2>5. ASSUME NEW s \in Sessions PROVE RunSound(s)'
    <3>1. Current(s)' = Current(s) /\ (Stored(s)' <=> Stored(s))  BY DEF Current, Stored
    <3>2. QED  BY <2>3, <3>1 DEF RunSound
  <2>6. QED  BY <2>1, <2>4, <2>5
<1>3. QED  BY <1>1, <1>2, ReimportStep DEF Next, Step

LEMMA Invariant == Spec => []IInv
BY InitialInvariant, InvariantStep, PTL DEF Spec

-----------------------------------------------------------------------------

\* Every variable of the protocol stays in its type (tools/annotation: the event tables,
\* the assignments' status and the session state of the pages).
THEOREM TypeCorrect == Spec => []TypeOK
<1>1. IInv => TypeOK  BY DEF IInv
<1>2. QED  BY <1>1, Invariant, PTL

\* However saves are repeated, interrupted or failed, a token's event is stored once and
\* "Saved." is shown for what is on the screen (get_or_create_submission_token,
\* append_annotation_event).
THEOREM TokensStandForSaves == Spec => []TokenStandsForSave
<1>1. IInv => TokenStandsForSave
  <2> SUFFICES ASSUME IInv PROVE TokenStandsForSave  OBVIOUS
  <2>1. \A e, f \in events : e.session = f.session /\ e.id = f.id => e = f
    BY DEF IInv, EventsKeyed
  <2>2. ASSUME NEW s \in Sessions, pc[s] = "rotate"
        PROVE  \E e \in events :
                  /\ e.session = s /\ e.id = Current(s)
                  /\ e.assignment = index[s] /\ e.label = form[s]
    <3>1. Stored(s) /\ Current(s) # NoToken /\ prints[s][index[s]].label = form[s]
      BY <2>2 DEF IInv, RunSound
    <3>2. index[s] \in Assignments  BY DEF IInv, TypeOK
    <3>3. QED  BY <3>1, <3>2 DEF IInv, TokensSound, Stored, Current
  <2>3. QED  BY <2>1, <2>2 DEF TokenStandsForSave
<1>2. QED  BY <1>1, Invariant, PTL

\* Whatever tabs race between reading the latest revision and inserting the next, an
\* assignment's revisions are 1, 2, ..., n, an append that began after an event was stored
\* has the greater one, and one session never stores one twice (append_annotation_event, append_duplicate_review_event, append_adjudication_event).
THEOREM RevisionsAreSound == Spec => []RevisionsSound
<1>1. IInv => RevisionsSound
  BY LatestInType
  DEF IInv, Gapless, SameRevisionOtherSession, RevisionsOrdered, RevisionsSound
<1>2. QED  BY <1>1, Invariant, PTL

\* An assignment is completed if and only if it has an event, up to repeated imports
\* (append_annotation_event, upsert_annotation_assignment).
THEOREM StatusIsSound == Spec => []StatusMatchesEvents
<1>1. IInv => StatusMatchesEvents  BY DEF IInv
<1>2. QED  BY <1>1, Invariant, PTL

-----------------------------------------------------------------------------
(* Clicks.                                                                 *)

\* The events of the decision a session is carrying out.
Kept(s) == {e \in events : e.session = s /\ e.intent = intents[s]}

\* The saves a decision's clicks can still make: the queued one, and the run's own until
\* it has inserted.
Waiting(s) == pc[s] \in {"render", "token", "append", "insert"}

Due(s) == (IF queued[s] THEN 1 ELSE 0) + (IF Waiting(s) THEN 1 ELSE 0)

Clicked(s) ==
    /\ IsFiniteSet(Kept(s))
    /\ Cardinality(Kept(s)) + Due(s) <= clicks[s]
    /\ pc[s] = "idle" => ~queued[s]
    /\ \A e \in events : e.session = s => e.intent <= intents[s]

CInv == TypeOK /\ \A s \in Sessions : Clicked(s)

\* A session's own step: it decides, uses up a save that was due, or gains one by a click.
LEMMA ClickedStep ==
    ASSUME TypeOK, NEW s \in Sessions, Step(s), Clicked(s)
    PROVE  Clicked(s)'
<1>0. /\ pc[s] \in Pcs /\ queued[s] \in BOOLEAN /\ clicks[s] \in 0..2 /\ intents[s] \in Nat
      /\ Cardinality(Kept(s)) \in Nat /\ Cardinality(Kept(s)) + Due(s) <= clicks[s]
  BY FS_CardinalityType DEF TypeOK, Clicked
<1>1. CASE Decide(s)
  <2>1. /\ pc[s] = "idle" /\ pc'[s] = "render" /\ queued' = queued /\ clicks'[s] = 1
        /\ intents'[s] = intents[s] + 1 /\ events' = events
    BY <1>1 DEF Decide, Goto, TypeOK, tableVars
  <2>2. \A e \in events : e.intent \in Nat  BY DEF TypeOK, Event
  <2>3. \A e \in events : e.session = s => e.intent <= intents[s]  BY DEF Clicked
  <2>4. Kept(s)' = {}  BY <1>0, <2>1, <2>2, <2>3 DEF Kept
  <2>5. IsFiniteSet(Kept(s)') /\ Cardinality(Kept(s)') = 0  BY <2>4, FS_EmptySet
  <2>6. ~queued'[s]  BY <2>1 DEF Clicked
  <2>7. Due(s)' = 1  BY <2>1, <2>6 DEF Due, Waiting
  <2>8. \A e \in events' : e.session = s => e.intent <= intents'[s]
    BY <1>0, <2>1, <2>2, <2>3
  <2>9. QED  BY <2>1, <2>5, <2>7, <2>8 DEF Clicked
<1>2. CASE Insert(s)
  <2>1. /\ pc[s] = "insert" /\ pc'[s] = "rotate" /\ queued' = queued /\ clicks' = clicks
        /\ intents' = intents /\ events' = events \cup {NewEvent(s)}
        /\ NewEvent(s).session = s /\ NewEvent(s).intent = intents[s]
    BY <1>2 DEF Insert, Goto, TypeOK, userVars, NewEvent
  <2>2. Kept(s)' = Kept(s) \cup {NewEvent(s)}  BY <2>1 DEF Kept
  <2>3. IsFiniteSet(Kept(s)') /\ Cardinality(Kept(s)') <= Cardinality(Kept(s)) + 1
        /\ Cardinality(Kept(s)') \in Nat
    <3>1. IsFiniteSet(Kept(s))  BY DEF Clicked
    <3>2. /\ IsFiniteSet(Kept(s) \cup {NewEvent(s)})
          /\ \/ Cardinality(Kept(s) \cup {NewEvent(s)}) = Cardinality(Kept(s))
             \/ Cardinality(Kept(s) \cup {NewEvent(s)}) = Cardinality(Kept(s)) + 1
      BY <3>1, FS_AddElement
    <3>3. QED  BY <1>0, <2>2, <3>2
  <2>4. Due(s) = Due(s)' + 1 /\ Due(s)' \in Nat
    BY <1>0, <2>1 DEF Due, Waiting
  <2>5. Cardinality(Kept(s)') + Due(s)' <= clicks'[s]  BY <1>0, <2>1, <2>3, <2>4
  <2>6. \A e \in events' : e.session = s => e.intent <= intents'[s]
    BY <1>0, <2>1 DEF Clicked
  <2>7. QED  BY <2>1, <2>3, <2>5, <2>6 DEF Clicked
<1>3. CASE ~Decide(s) /\ ~Insert(s)
  <2>1. events' = events /\ intents'[s] = intents[s]
    <3>1. intents' = intents
      BY <1>3 DEF Step, Run, ClickAgain, Render, GetToken, LookUp, LookUpFrom, Fail, Rotate,
         Finish, Interrupt, InterruptHalfway, Reload, userVars
    <3>2. QED  BY <1>3, <3>1, TableFrame DEF tableVars
  <2>2. Kept(s)' = Kept(s)  BY <2>1 DEF Kept
  <2>3. /\ Due(s)' <= Due(s) + (clicks'[s] - clicks[s]) /\ Due(s)' \in Nat /\ Due(s) \in Nat
        /\ clicks'[s] \in 0..2 /\ (pc'[s] = "idle" => ~queued'[s])
    <3> USE <1>0 DEF TypeOK, Goto, userVars, Due, Waiting, Pcs
    <3>1. CASE ClickAgain(s)  BY <3>1 DEF ClickAgain
    <3>2. CASE Render(s)  BY <3>2 DEF Render
    <3>3. CASE GetToken(s)  BY <3>3 DEF GetToken
    <3>4. CASE LookUp(s)  BY <3>4 DEF LookUp, LookUpFrom
    <3>5. CASE Fail(s)  BY <3>5 DEF Fail, EndRun
    <3>6. CASE Rotate(s)  BY <3>6 DEF Rotate
    <3>7. CASE Finish(s)  BY <3>7 DEF Finish, EndRun
    <3>8. CASE Interrupt(s)  BY <3>8 DEF Interrupt, EndRun, YieldPoints
    <3>9. CASE InterruptHalfway(s)  BY <3>9 DEF InterruptHalfway, EndRun
    <3>10. CASE Reload(s)  BY <3>10 DEF Reload
    <3>11. QED  BY <1>3, <3>1, <3>2, <3>3, <3>4, <3>5, <3>6, <3>7, <3>8, <3>9, <3>10
                DEF Step, Run
  <2>4. Cardinality(Kept(s)') + Due(s)' <= clicks'[s]
    <3>1. Cardinality(Kept(s)') = Cardinality(Kept(s))  BY <2>2
    <3>2. QED  BY <1>0, <2>3, <3>1
  <2>5. QED  BY <2>1, <2>2, <2>3, <2>4 DEF Clicked
<1>4. QED  BY <1>1, <1>2, <1>3

\* Another session's step adds no event of this one.
LEMMA OtherClicked ==
    ASSUME TypeOK, NEW s \in Sessions, Step(s), NEW t \in Sessions, t # s, Clicked(t)
    PROVE  Clicked(t)'
<1>1. /\ pc'[t] = pc[t] /\ queued'[t] = queued[t] /\ clicks'[t] = clicks[t]
      /\ intents'[t] = intents[t]
  BY Frame
<1>2. \A e : e \in events' /\ e.session = t <=> e \in events /\ e.session = t
  <2>1. CASE events' = events  BY <2>1
  <2>2. CASE Insert(s)  BY <2>2 DEF Insert, NewEvent
  <2>3. QED  BY <2>1, <2>2, TableFrame DEF tableVars
<1>3. Kept(t)' = Kept(t)  BY <1>1, <1>2 DEF Kept
<1>4. Due(t)' = Due(t)  BY <1>1 DEF Due, Waiting
<1>5. QED  BY <1>1, <1>2, <1>3, <1>4 DEF Clicked

LEMMA ClicksInvariant == Spec => []CInv
<1>1. Init => CInv
  <2> SUFFICES ASSUME Init, NEW s \in Sessions PROVE Clicked(s)
    BY InitialType DEF CInv
  <2>1. events = {} /\ pc[s] = "idle" /\ queued[s] = FALSE /\ clicks[s] = 0  BY DEF Init
  <2>2. Kept(s) = {}  BY <2>1 DEF Kept
  <2>3. Due(s) = 0  BY <2>1 DEF Due, Waiting
  <2>4. QED  BY <2>1, <2>2, <2>3, FS_EmptySet DEF Clicked
<1>2. CInv /\ TypeOK' /\ [Next]_vars => CInv'
  <2> SUFFICES ASSUME CInv, TypeOK', [Next]_vars, NEW t \in Sessions PROVE Clicked(t)'
    BY DEF CInv
  <2>1. TypeOK /\ Clicked(t)  BY DEF CInv
  <2>2. ASSUME NEW s \in Sessions, Step(s) PROVE Clicked(t)'
    BY <2>1, <2>2, ClickedStep, OtherClicked
  <2>3. CASE events' = events /\ runVars' = runVars /\ userVars' = userVars
    <3>1. Kept(t)' = Kept(t) /\ Due(t)' = Due(t)
      BY <2>3 DEF Kept, Due, Waiting, runVars, userVars
    <3>2. QED  BY <2>1, <2>3, <3>1 DEF Clicked, runVars, userVars
  <2>4. ASSUME NEW a \in Assignments, Reimport(a) PROVE Clicked(t)'
    BY <2>3, <2>4 DEF Reimport
  <2>5. CASE UNCHANGED vars  BY <2>3, <2>5 DEF vars, tableVars
  <2>6. QED  BY <2>2, <2>4, <2>5 DEF Next, Step
<1>3. QED  BY <1>1, <1>2, TypeCorrect, PTL DEF Spec

\* A decision stores at most one event for each time it was clicked, however its runs are
\* queued, interrupted, repeated or failed (the save buttons of pages 2 to 4 with
\* rotate_submission_token).
THEOREM EventsAreBounded == Spec => []EventsBoundedByClicks
<1>1. CInv => EventsBoundedByClicks
  <2> SUFFICES ASSUME CInv, NEW s \in Sessions
               PROVE  Cardinality(Kept(s)) <= clicks[s]
    BY DEF EventsBoundedByClicks, Kept
  <2>1. Cardinality(Kept(s)) \in Nat  BY FS_CardinalityType DEF CInv, Clicked
  <2>2. Due(s) \in Nat /\ clicks[s] \in 0..2  BY DEF CInv, TypeOK, Due
  <2>3. QED  BY <2>1, <2>2 DEF CInv, Clicked
<1>2. QED  BY <1>1, ClicksInvariant, PTL

-----------------------------------------------------------------------------
(* The abstract event log.                                                 *)

\* An insert is an append: what its run looked up before still says enough of the table,
\* whatever the other sessions have inserted since.
LEMMA InsertAppends ==
    ASSUME IInv, NEW s \in Sessions, Insert(s)
    PROVE  Log!Append(NewEvent(s))
<1>1. /\ TypeOK /\ RunSound(s) /\ pc[s] = "insert" /\ index[s] \in Assignments
      /\ base[s] \in Nat /\ form[s] \in Labels /\ intents[s] \in Nat
  BY DEF IInv, TypeOK, Insert, Goto
<1>2. /\ Current(s) # NoToken /\ ~Stored(s)
      /\ base[s] <= LatestRevision(index[s])
      /\ \A e \in events :
            e.session = s /\ e.assignment = index[s] => e.revision <= base[s]
      /\ began[s] \in Nat /\ Cardinality(events) \in Nat
  BY <1>1, RowCountType DEF RunSound, TypeOK
<1>3. /\ NewEvent(s).session = s /\ NewEvent(s).id = Current(s)
      /\ NewEvent(s).assignment = index[s] /\ NewEvent(s).revision = base[s] + 1
  BY DEF NewEvent
<1>4. NewEvent(s) \in Event
  <2>1. Current(s) \in Nat  BY <1>1, <1>2 DEF TypeOK, Current
  <2>2. QED  BY <1>1, <1>2, <2>1 DEF NewEvent, Event
<1>5. Log!FreshKey(NewEvent(s))  BY <1>2, <1>3 DEF Stored, Log!FreshKey
<1>6. Log!FollowsRevision(NewEvent(s))
  <2>1. CASE base[s] = 0  BY <1>3, <2>1 DEF Log!FollowsRevision
  <2>2. CASE base[s] # 0
    <3>1. /\ LatestRevision(index[s]) \in Nat
          /\ Revisions(index[s]) = 1..LatestRevision(index[s])
      BY <1>1, LatestInType DEF IInv, Gapless
    <3>2. base[s] \in Revisions(index[s])  BY <1>1, <1>2, <2>2, <3>1
    <3>3. PICK f \in events : f.assignment = index[s] /\ f.revision = base[s]
      BY <3>2 DEF Revisions
    <3>4. QED  BY <1>3, <3>3 DEF Log!FollowsRevision
  <2>3. QED  BY <2>1, <2>2
<1>7. Log!NewestOfSession(NewEvent(s))
  <2>1. \A f \in events : f.revision \in Nat  BY <1>1 DEF TypeOK, Event
  <2>2. QED  BY <1>1, <1>2, <1>3, <2>1 DEF Log!NewestOfSession
<1>8. /\ events' = events \cup {NewEvent(s)}
      /\ status' = [status EXCEPT ![NewEvent(s).assignment] = "completed"]
  BY <1>3 DEF Insert, Complete
<1>9. QED  BY <1>4, <1>5, <1>6, <1>7, <1>8 DEF Log!Append

\* A step of the protocol inserts, imports again, or leaves the tables alone.
LEMMA LogStep == IInv /\ [Next]_vars => [Log!Next]_(Log!logVars)
<1> SUFFICES ASSUME IInv, [Next]_vars PROVE Log!Next \/ UNCHANGED Log!logVars  OBVIOUS
<1>1. CASE tableVars' = tableVars  BY <1>1 DEF tableVars, Log!logVars
<1>2. ASSUME NEW s \in Sessions, Insert(s) PROVE Log!Next
  <2>1. NewEvent(s) \in events'  BY <1>2 DEF Insert
  <2>2. Log!Append(NewEvent(s))  BY <1>2, InsertAppends
  <2>3. QED  BY <2>1, <2>2 DEF Log!Next
<1>3. ASSUME NEW a \in Assignments, Reimport(a) PROVE Log!Next
  BY <1>3 DEF Reimport, Log!Next, Log!Reset
<1>4. CASE UNCHANGED vars  BY <1>1, <1>4 DEF vars
<1>5. ASSUME NEW s \in Sessions, Step(s) PROVE Log!Next \/ UNCHANGED Log!logVars
  BY <1>1, <1>2, <1>5, TableFrame
<1>6. QED  BY <1>3, <1>4, <1>5 DEF Next, Step

\* To those who read the tables a save is one step: key, revision and status appear
\* together, whatever sessions race between lookup and insert and wherever a run ends
\* (append_annotation_event, append_duplicate_review_event, append_adjudication_event).
THEOREM SavesAreAtomic == Spec => ImplementsEventLog
<1>1. Init => Log!Init  BY DEF Init, Log!Init
<1>2. IInv /\ [Next]_vars => [Log!Next]_(Log!logVars)  BY LogStep
<1>3. QED  BY <1>1, <1>2, Invariant, PTL DEF Spec, ImplementsEventLog, Log!Spec
=============================================================================

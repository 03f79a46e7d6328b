------------------------- MODULE PipelineRunProofs -------------------------
(***************************************************************************)
(* Proofs about PipelineRun for any runs, run ids, tasks and plans.        *)
(***************************************************************************)
EXTENDS PipelineRun, FiniteSetTheorems, SequenceTheorems, WellFoundedInduction, TLAPS

-----------------------------------------------------------------------------
(* The steps a run has gone through, as sequences 1, 2, ..., n.            *)

LEMMA UpToType ==
    ASSUME NEW n \in Nat
    PROVE  UpTo(n) \in Seq(Nat) /\ Len(UpTo(n)) = n
<1>1. UpTo(n) \in [1..n -> Nat]  BY DEF UpTo
<1>2. QED  BY <1>1

LEMMA UpToAppend ==
    ASSUME NEW n \in Nat
    PROVE  Append(UpTo(n), n + 1) = UpTo(n + 1)
<1> DEFINE s == Append(UpTo(n), n + 1)
<1>1. /\ s \in Seq(Nat) /\ Len(s) = n + 1
      /\ \A i \in 1..n : s[i] = UpTo(n)[i]
      /\ s[n + 1] = n + 1
  <2>1. UpTo(n) \in Seq(Nat) /\ Len(UpTo(n)) = n /\ n + 1 \in Nat  BY UpToType
  <2>2. \A t \in Seq(Nat), e \in Nat :
            /\ Append(t, e) \in Seq(Nat) /\ Len(Append(t, e)) = Len(t) + 1
            /\ \A i \in 1..Len(t) : Append(t, e)[i] = t[i]
            /\ Append(t, e)[Len(t) + 1] = e
    BY AppendProperties
  <2>3. QED  BY <2>1, <2>2
<1>2. s \in [1..n + 1 -> Nat]  BY <1>1, LenProperties
<1>3. \A i \in 1..n + 1 : s[i] = i  BY <1>1 DEF UpTo
<1>4. QED  BY <1>2, <1>3 DEF UpTo

LEMMA UpToZero == UpTo(0) = <<>>
<1>1. UpTo(0) \in Seq(Nat) /\ Len(UpTo(0)) = 0  BY UpToType
<1>2. QED  BY <1>1, EmptySeq

LEMMA PlanType ==
    ASSUME TypeOK, NEW r \in Runs
    PROVE  /\ plan[r] \in Seq(Tasks) /\ Len(plan[r]) \in Nat
           /\ DOMAIN plan[r] = 1..Len(plan[r])
<1>1. plan[r] \in Seq(Tasks)  BY PlansAssumption DEF TypeOK
<1>2. QED  BY <1>1, LenProperties

-----------------------------------------------------------------------------
(* The group allocate_group_slug finds.                                    *)

\* Every non-empty set of naturals has a least element: the first unused group is defined
\* through it.
LEMMA LeastNatural ==
    ASSUME NEW T, T \subseteq Nat, T # {}
    PROVE  \E m \in T : \A n \in T : m <= n
<1>1. PICK m \in T : \A n \in T : <<n, m>> \notin OpToRel(<, Nat)
  BY NatLessThanWellFounded, WFMin, Zenon
<1>2. \A n, k \in Nat : n < k => <<n, k>> \in OpToRel(<, Nat)
  BY Zenon DEF OpToRel
<1>3. \A n \in T : ~(n < m)  BY <1>1, <1>2, Zenon
<1>4. QED  BY <1>3

FiniteGroups == IsFiniteSet(UsedGroups)

\* The search for an unused group name ends, with a name that is not in use.
LEMMA FreeGroupFound ==
    ASSUME FiniteGroups
    PROVE  FreeGroup \in Nat \ UsedGroups
<1> DEFINE c == Cardinality(UsedGroups)
           unused == {n \in 1..c + 1 : n \notin UsedGroups}
<1>1. c \in Nat  BY FS_CardinalityType DEF FiniteGroups
<1>2. unused # {}
  <2>1. SUFFICES ASSUME 1..c + 1 \subseteq UsedGroups PROVE FALSE  OBVIOUS
  <2>2. Cardinality(1..c + 1) <= c  BY <2>1, FS_Subset DEF FiniteGroups
  <2>3. Cardinality(1..c + 1) = c + 1  BY <1>1, FS_Interval
  <2>4. QED  BY <1>1, <2>2, <2>3
<1>2a. unused \subseteq Nat  BY <1>1
<1>3. PICK n \in unused : \A k \in unused : n <= k
  <2> HIDE DEF unused
  <2> QED  BY <1>2, <1>2a, LeastNatural
<1>4. \A k \in 1..n - 1 : k \in UsedGroups
  BY <1>1, <1>3
<1>5. QED  BY <1>1, <1>3, <1>4 DEF FreeGroup

-----------------------------------------------------------------------------
(* The inductive invariant: what each point of _execute knows about the    *)
(* hooks' state, and what a run that has ended has left in its directory.  *)

Setup == {"start", "allocate", "create", "config", "beforeRun"}

\* Before its directory exists for the run.
Unplaced == {"start", "allocate", "create"}

Clean(r) == culprit[r] = 0 /\ ctx[r].status = "completed" /\ ctx[r].failed = 0

\* The first n steps have been handled, the first m of them recorded.
Done(r, n, m) == handled[r] = UpTo(n) /\ ctx[r].executed = UpTo(m)

Progress(r) ==
    LET i == ctx[r].index
    IN  /\ pc[r] \in Setup =>
              handled[r] = <<>> /\ culprit[r] = 0 /\ i = 0 /\ result[r] = "none"
        /\ pc[r] \in TryPcs => result[r] = "none" /\ i <= Len(plan[r])
        /\ pc[r] \in TryPcs \cup {"afterRun"} => ctx[r].status # "unset"
        /\ pc[r] = "step" => Clean(r) /\ Done(r, i, i)
        /\ pc[r] = "task" => Clean(r) /\ ctx[r].timing /\ i > 0 /\ Done(r, i - 1, i - 1)
        /\ pc[r] = "afterStep" => Clean(r) /\ ctx[r].timing /\ i > 0 /\ Done(r, i, i - 1)
        /\ pc[r] = "onError" => culprit[r] = i /\ i > 0 /\ Done(r, i - 1, i - 1)
        /\ pc[r] = "afterRun" /\ result[r] = "none" =>
              IF culprit[r] = 0
              THEN Clean(r) /\ Done(r, Len(plan[r]), Len(plan[r]))
              ELSE /\ ctx[r].status = "failed" /\ ctx[r].failed = culprit[r]
                   /\ Done(r, culprit[r] - 1, culprit[r] - 1)
                   /\ runDir[r] \in traceback
        /\ pc[r] = "ended" => result[r] # "none"
        /\ result[r] \in {"returned", "taskError"} => pc[r] = "ended"

Ordered(r) ==
    /\ handled[r] = UpTo(Len(handled[r]))
    /\ culprit[r] # 0 => Len(handled[r]) = culprit[r] - 1

\* Where a run's directory is known to exist.
Placed(r) ==
    /\ pc[r] \in {"start", "allocate"} => runDir[r] = NoDir
    /\ pc[r] \notin Unplaced /\ runDir[r] # NoDir => runDir[r] \in Existing
    /\ pc[r] \notin {"start", "allocate", "ended"} => runDir[r] # NoDir
    /\ result[r] \in {"returned", "taskError"} => runDir[r] # NoDir

Reported(r) ==
    result[r] = "taskError" /\ Alone(r) =>
        /\ metadata[runDir[r]] = [run |-> r, executed |-> UpTo(culprit[r] - 1),
                                 status |-> "failed", failed |-> culprit[r]]
        /\ runDir[r] \in traceback

Complete(r) ==
    result[r] = "returned" /\ Alone(r) =>
        /\ Len(handled[r]) = Len(plan[r])
        /\ metadata[runDir[r]] = [run |-> r, executed |-> UpTo(Len(plan[r])),
                                 status |-> "completed", failed |-> 0]

IInv == /\ TypeOK
        /\ FiniteGroups
        /\ \A r \in Runs : Progress(r) /\ Ordered(r) /\ Placed(r) /\ Reported(r) /\ Complete(r)

LEMMA InitialInvariant == Init => IInv
<1> SUFFICES ASSUME Init PROVE IInv  OBVIOUS
<1>1. TypeOK
  <2>1. ctx \in [Runs -> HookState]
    <3>1. <<>> \in Seq(Nat)  OBVIOUS
    <3>2. QED  BY <3>1 DEF Init, HookState
  <2>2. handled \in [Runs -> Seq(Nat)]  BY DEF Init
  <2>3. /\ DOMAIN metadata = DOMAIN config
        /\ Existing = {} /\ traceback \subseteq Existing
    BY DEF Init, Existing
  <2>4. QED  BY <2>1, <2>2, <2>3 DEF Init, TypeOK, Pcs, Results
<1>2. FiniteGroups
  <2>1. UsedGroups = {}  BY DEF Init, UsedGroups, Existing
  <2>2. QED  BY <2>1, FS_EmptySet DEF FiniteGroups
<1>3. \A r \in Runs : Progress(r) /\ Ordered(r) /\ Placed(r) /\ Reported(r) /\ Complete(r)
  <2> TAKE r \in Runs
  <2>1. Len(handled[r]) = 0 /\ handled[r] = UpTo(0)  BY UpToZero DEF Init
  <2>2. QED  BY <2>1 DEF Init, Progress, Ordered, Placed, Reported, Complete,
               Setup, TryPcs, Unplaced
<1>4. QED  BY <1>1, <1>2, <1>3 DEF IInv

-----------------------------------------------------------------------------
(* A step of one run.                                                      *)

\* What a step of r leaves alone: the other runs, and every directory that exists.
LEMMA Frame ==
    ASSUME TypeOK, NEW r \in Runs, Step(r)
    PROVE  /\ \A q \in Runs \ {r} :
                 /\ pc'[q] = pc[q] /\ plan'[q] = plan[q] /\ runId'[q] = runId[q]
                 /\ runDir'[q] = runDir[q] /\ ctx'[q] = ctx[q] /\ result'[q] = result[q]
                 /\ handled'[q] = handled[q] /\ culprit'[q] = culprit[q]
           /\ plan' = plan
           /\ Existing \subseteq Existing' /\ traceback \subseteq traceback'
           /\ \A d \in Existing : d # runDir[r] \/ pc[r] # "afterRun" => metadata'[d] = metadata[d]
<1> USE DEF diskVars, historyVars, Goto, SetCtx, TypeOK, Existing
<1>1. CASE Start(r)  BY <1>1 DEF Start
<1>2. CASE Allocate(r)  BY <1>2 DEF Allocate
<1>3. CASE Create(r)  BY <1>3 DEF Create
<1>4. CASE WriteConfig(r)  BY <1>4 DEF WriteConfig
<1>5. CASE BeforeRun(r)  BY <1>5 DEF BeforeRun
<1>6. CASE GitTimeout(r)  BY <1>6 DEF GitTimeout
<1>7. CASE BeginStep(r)  BY <1>7 DEF BeginStep
<1>8. CASE TaskReturns(r)  BY <1>8 DEF TaskReturns
<1>9. CASE TaskRaises(r)  BY <1>9 DEF TaskRaises
<1>10. CASE OnError(r)  BY <1>10 DEF OnError, Failed
<1>11. CASE TracebackFails(r)  BY <1>11 DEF TracebackFails, Failed
<1>12. CASE AfterStep(r)  BY <1>12 DEF AfterStep
<1>13. CASE LastStepDone(r)  BY <1>13 DEF LastStepDone
<1>14. CASE Interrupt(r)  BY <1>14 DEF Interrupt
<1>15. CASE AfterRun(r)  BY <1>15 DEF AfterRun
<1>16. QED  BY <1>1, <1>2, <1>3, <1>4, <1>5, <1>6, <1>7, <1>8, <1>9, <1>10, <1>11, <1>12,
              <1>13, <1>14, <1>15 DEF Step

\* What the invariant says of the run that takes the step.
LEMMA Here ==
    ASSUME IInv, NEW r \in Runs
    PROVE  /\ pc[r] \in Pcs /\ plan[r] \in Plans /\ runId[r] \in RunIds
           /\ runDir[r] \in Dir \cup {NoDir}
           /\ result[r] \in Results /\ handled[r] \in Seq(Nat) /\ culprit[r] \in Nat
           /\ ctx[r] \in HookState /\ ctx[r].index \in Nat /\ ctx[r].timing \in BOOLEAN
           /\ ctx[r].executed \in Seq(Nat) /\ ctx[r].failed \in Nat
           /\ ctx[r].status \in {"unset", "completed", "failed"}
           /\ Progress(r) /\ Ordered(r) /\ Placed(r)
           /\ pc[r] \notin Unplaced \cup {"ended"} => runDir[r] \in Existing
           /\ pc[r] \notin {"start", "allocate", "ended"} => runDir[r] \in Dir
<1>1. pc[r] \in Pcs /\ plan[r] \in Plans /\ runId[r] \in RunIds
      /\ runDir[r] \in Dir \cup {NoDir}
      /\ result[r] \in Results /\ handled[r] \in Seq(Nat) /\ culprit[r] \in Nat
      /\ ctx[r] \in HookState
  BY DEF IInv, TypeOK
<1>2. /\ ctx[r].index \in Nat /\ ctx[r].timing \in BOOLEAN
      /\ ctx[r].executed \in Seq(Nat) /\ ctx[r].failed \in Nat
      /\ ctx[r].status \in {"unset", "completed", "failed"}
  BY <1>1 DEF HookState
<1>3. Progress(r) /\ Ordered(r) /\ Placed(r)  BY DEF IInv
<1>4. QED  BY <1>1, <1>2, <1>3 DEF Placed, Unplaced

LEMMA FiniteStep ==
    ASSUME IInv, NEW r \in Runs, Step(r)
    PROVE  FiniteGroups'
<1>1. CASE Create(r)
  <2>1. UsedGroups' = UsedGroups \cup {runDir[r].group}
    BY <1>1 DEF Create, UsedGroups, Existing
  <2>2. QED  BY <2>1, FS_AddElement DEF IInv, FiniteGroups
<1>2. CASE ~Create(r)
  <2>1. Existing' = Existing
    BY <1>2 DEF Step, Start, Allocate, WriteConfig, BeforeRun, GitTimeout, BeginStep,
         TaskReturns, TaskRaises, OnError, TracebackFails, AfterStep, LastStepDone,
         Interrupt, AfterRun, diskVars, historyVars, Existing
  <2>2. UsedGroups' = UsedGroups  BY <2>1 DEF UsedGroups
  <2>3. QED  BY <2>2 DEF IInv, FiniteGroups
<1>3. QED  BY <1>1, <1>2

\* The hooks' state keeps its shape.
LEMMA CtxStep ==
    ASSUME IInv, NEW r \in Runs, Step(r)
    PROVE  ctx' \in [Runs -> HookState]
<1> USE DEF SetCtx, historyVars, diskVars
<1>1. ctx \in [Runs -> HookState]  BY DEF IInv, TypeOK
<1>2. ctx[r] \in HookState  BY <1>1
<1>3. CASE ctx' = ctx  BY <1>1, <1>3
<1>4. CASE BeforeRun(r)
  <2>1. [ctx[r] EXCEPT !.executed = <<>>, !.status = "completed", !.failed = 0] \in HookState
    <3>1. <<>> \in Seq(Nat)  OBVIOUS
    <3>2. QED  BY <1>2, <3>1 DEF HookState
  <2>2. QED  BY <1>1, <2>1, <1>4 DEF BeforeRun
<1>5. CASE BeginStep(r)
  <2>1. /\ [ctx[r] EXCEPT !.index = ctx[r].index + 1, !.timing = TRUE] \in HookState
        /\ [ctx[r] EXCEPT !.index = ctx[r].index + 1] \in HookState
    <3>1. ctx[r].index + 1 \in Nat  BY Here
    <3>2. QED  BY <1>2, <3>1 DEF HookState
  <2>2. QED  BY <1>1, <2>1, <1>5 DEF BeginStep
<1>6. CASE OnError(r) \/ TracebackFails(r)
  <2>1. [ctx[r] EXCEPT !.timing = FALSE, !.failed = ctx[r].index, !.status = "failed"] \in HookState
    BY <1>2 DEF HookState
  <2>2. QED  BY <1>1, <2>1, <1>6 DEF OnError, TracebackFails, Failed
<1>7. CASE AfterStep(r)
  <2> DEFINE e == IF ctx[r].timing THEN Append(ctx[r].executed, ctx[r].index) ELSE ctx[r].executed
  <2>1. e \in Seq(Nat)  BY Here
  <2>2. ctx' = [ctx EXCEPT ![r] = [ctx[r] EXCEPT !.timing = FALSE, !.executed = e]]
    BY <1>7 DEF AfterStep
  <2>3. [ctx[r] EXCEPT !.timing = FALSE, !.executed = e] \in HookState
    <3> HIDE DEF e
    <3> QED  BY <1>2, <2>1 DEF HookState
  <2>4. QED  BY <1>1, <2>2, <2>3
<1>8. CASE ~(BeforeRun(r) \/ BeginStep(r) \/ OnError(r) \/ TracebackFails(r) \/ AfterStep(r))
  <2>1. ctx' = ctx
    BY <1>8 DEF Step, Start, Allocate, Create, WriteConfig, GitTimeout,
       TaskReturns, TaskRaises, LastStepDone, Interrupt, AfterRun
  <2>2. QED  BY <1>3, <2>1
<1>9. QED  BY <1>4, <1>5, <1>6, <1>7, <1>8

LEMMA TypeStep ==
    ASSUME IInv, NEW r \in Runs, Step(r)
    PROVE  TypeOK'
<1> USE DEF diskVars, historyVars, Goto, Pcs, Results
<1>0. TypeOK /\ ctx' \in [Runs -> HookState]  BY CtxStep DEF IInv
<1>1. CASE Start(r)  BY <1>0, <1>1 DEF Start, TypeOK, Existing
<1>2. CASE Allocate(r)
  <2>1. [group |-> FreeGroup, id |-> runId[r]] \in Dir
    BY <1>0, FreeGroupFound DEF IInv, TypeOK, Dir
  <2>2. racing' \subseteq Runs  BY <1>0, <1>2 DEF Allocate, Racing, TypeOK
  <2>3. QED  BY <1>0, <1>2, <2>1, <2>2 DEF Allocate, TypeOK, Existing
<1>3. CASE Create(r)
  <2>1. runDir[r] \in Dir  BY <1>3, Here DEF Create
  <2>2. QED  BY <1>0, <1>3, <2>1, Here DEF Create, TypeOK, Existing
<1>4. CASE WriteConfig(r)  BY <1>0, <1>4 DEF WriteConfig, TypeOK, Existing
<1>5. CASE BeforeRun(r)  BY <1>0, <1>5 DEF BeforeRun, TypeOK, Existing
<1>6. CASE GitTimeout(r)  BY <1>0, <1>6 DEF GitTimeout, TypeOK, Existing
<1>7. CASE BeginStep(r)
  <2>1. ctx[r].index + 1 \in Nat  BY Here
  <2>2. pc' \in [Runs -> Pcs]  BY <1>0, <1>7 DEF BeginStep, TypeOK
  <2>3. culprit' \in [Runs -> Nat]  BY <1>0, <1>7, <2>1 DEF BeginStep, TypeOK
  <2>4. UNCHANGED <<diskVars, plan, runId, runDir, result, handled, racing, interrupts>>
    BY <1>7 DEF BeginStep
  <2>5. QED  BY <1>0, <2>2, <2>3, <2>4 DEF TypeOK, Existing
<1>8. CASE TaskReturns(r)
  <2>1. Append(handled[r], ctx[r].index) \in Seq(Nat)  BY Here
  <2>2. QED  BY <1>0, <1>8, <2>1 DEF TaskReturns, TypeOK, Existing
<1>9. CASE TaskRaises(r)  BY <1>0, <1>9, Here DEF TaskRaises, TypeOK, Existing
<1>10. CASE OnError(r)
  <2>1. runDir[r] \in Existing  BY <1>10, Here DEF OnError, Unplaced
  <2>2. QED  BY <1>0, <1>10, <2>1 DEF OnError, TypeOK, Existing
<1>11. CASE TracebackFails(r)  BY <1>0, <1>11 DEF TracebackFails, TypeOK, Existing
<1>12. CASE AfterStep(r)  BY <1>0, <1>12 DEF AfterStep, TypeOK, Existing
<1>13. CASE LastStepDone(r)  BY <1>0, <1>13 DEF LastStepDone, TypeOK, Existing
<1>14. CASE Interrupt(r)  BY <1>0, <1>14 DEF Interrupt, TypeOK, Existing
<1>15. CASE AfterRun(r)
  <2>1. ctx[r].status \in {"completed", "failed"}
    BY <1>15, Here DEF AfterRun, Progress
  <2>2. [run |-> r, executed |-> ctx[r].executed, status |-> ctx[r].status,
         failed |-> ctx[r].failed] \in Metadata
    BY <2>1, Here DEF Metadata
  <2>3. Outcome(r) \in Results  BY Here DEF Outcome
  <2>4. QED  BY <1>0, <1>15, <2>2, <2>3 DEF AfterRun, TypeOK, Existing
<1>16. QED  BY <1>1, <1>2, <1>3, <1>4, <1>5, <1>6, <1>7, <1>8, <1>9, <1>10, <1>11, <1>12,
              <1>13, <1>14, <1>15 DEF Step

LEMMA PlacedStep ==
    ASSUME IInv, NEW r \in Runs, Step(r)
    PROVE  Placed(r)'
<1> USE Here DEF diskVars, historyVars, Goto, Unplaced, Placed
<1>0. TypeOK /\ TypeOK'  BY TypeStep DEF IInv
<1>1. CASE Start(r)  BY <1>0, <1>1 DEF Start, TypeOK, Progress, Setup
<1>2. CASE Allocate(r)
  <2>1. runDir'[r] = [group |-> FreeGroup, id |-> runId[r]] /\ pc'[r] = "create"
        /\ result'[r] = "none"
    BY <1>0, <1>2 DEF Allocate, TypeOK, Progress, Setup
  <2>2. FreeGroup \in Nat  BY FreeGroupFound DEF IInv
  <2>3. runDir'[r] # NoDir  BY <2>1, <2>2, PlansAssumption DEF PlansAssumption, Dir
  <2>4. QED  BY <2>1, <2>3
<1>3. CASE Create(r)
  <2>1. runDir' = runDir /\ pc'[r] = "config" /\ result' = result
    BY <1>0, <1>3 DEF Create, TypeOK
  <2>2. runDir[r] \in Existing'  BY <1>3 DEF Create, Existing
  <2>3. QED  BY <1>3, <2>1, <2>2 DEF Create
<1>4. CASE WriteConfig(r)  BY <1>0, <1>4 DEF WriteConfig, TypeOK, Existing
<1>5. CASE BeforeRun(r)  BY <1>0, <1>5 DEF BeforeRun, TypeOK, Existing
<1>6. CASE GitTimeout(r)  BY <1>0, <1>6 DEF GitTimeout, TypeOK, Existing
<1>7. CASE BeginStep(r)
  <2>1. pc'[r] \in {"task", "onError"} /\ pc[r] = "step"
    BY <1>0, <1>7 DEF BeginStep, TypeOK
  <2>2. UNCHANGED <<runDir, result, config>>  BY <1>7 DEF BeginStep
  <2>3. QED  BY <2>1, <2>2 DEF Existing
<1>8. CASE TaskReturns(r)  BY <1>0, <1>8 DEF TaskReturns, TypeOK, Existing
<1>9. CASE TaskRaises(r)  BY <1>0, <1>9 DEF TaskRaises, TypeOK, Existing
<1>10. CASE OnError(r)  BY <1>0, <1>10 DEF OnError, TypeOK, Existing
<1>11. CASE TracebackFails(r)  BY <1>0, <1>11 DEF TracebackFails, TypeOK, Existing
<1>12. CASE AfterStep(r)  BY <1>0, <1>12 DEF AfterStep, TypeOK, Existing
<1>13. CASE LastStepDone(r)  BY <1>0, <1>13 DEF LastStepDone, TypeOK, Existing
<1>14. CASE Interrupt(r)
  <2>1. /\ pc'[r] = IF pc[r] \in TryPcs THEN "afterRun" ELSE "ended"
        /\ result'[r] = "interrupted"
        /\ runDir'[r] = IF pc[r] = "create" THEN NoDir ELSE runDir[r]
        /\ Existing' = Existing
        /\ pc[r] \notin {"start", "ended"}
    BY <1>0, <1>14 DEF Interrupt, TypeOK, Existing
  <2>2. QED  BY <2>1 DEF TryPcs
<1>15. CASE AfterRun(r)  BY <1>0, <1>15 DEF AfterRun, TypeOK, Existing
<1>16. QED  BY <1>1, <1>2, <1>3, <1>4, <1>5, <1>6, <1>7, <1>8, <1>9, <1>10, <1>11, <1>12,
              <1>13, <1>14, <1>15 DEF Step

\* The steps of a run, recorded one by one.
LEMMA UpToNext ==
    ASSUME NEW i \in Nat, i > 0
    PROVE  Append(UpTo(i - 1), i) = UpTo(i)
<1>1. i - 1 \in Nat /\ (i - 1) + 1 = i  OBVIOUS
<1>2. Append(UpTo(i - 1), (i - 1) + 1) = UpTo((i - 1) + 1)  BY <1>1, UpToAppend
<1>3. QED  BY <1>1, <1>2

LEMMA OrderedStep ==
    ASSUME IInv, NEW r \in Runs, Step(r)
    PROVE  Ordered(r)'
<1> USE Here DEF diskVars, historyVars, Goto, Ordered
<1>0. TypeOK  BY DEF IInv
<1>1. CASE TaskReturns(r)
  <2> DEFINE i == ctx[r].index
  <2>1. i \in Nat /\ i > 0 /\ handled[r] = UpTo(i - 1) /\ culprit[r] = 0
    BY <1>1 DEF TaskReturns, Progress, Clean, Done
  <2>2. handled'[r] = UpTo(i) /\ culprit'[r] = 0
    BY <1>0, <1>1, <2>1, UpToNext DEF TaskReturns, TypeOK
  <2>3. QED  BY <2>1, <2>2, UpToType
<1>2. CASE TaskRaises(r) \/ BeginStep(r)
  <2>1. CASE TaskRaises(r)
    <3> DEFINE n == ctx[r].index
    <3>1. n \in Nat /\ n > 0 /\ handled[r] = UpTo(n - 1)
      BY <2>1 DEF TaskRaises, Progress, Done
    <3>2. handled'[r] = UpTo(n - 1) /\ culprit'[r] = n
      BY <1>0, <2>1, <3>1 DEF TaskRaises, TypeOK
    <3>3. n - 1 \in Nat /\ n # 0  BY <3>1
    <3>4. Len(UpTo(n - 1)) = n - 1  BY <3>3, UpToType
    <3>5. QED  BY <3>1, <3>2, <3>4
  <2>2. CASE BeginStep(r)
    <3> DEFINE n == ctx[r].index
    <3>1. n \in Nat /\ handled[r] = UpTo(n) /\ culprit[r] = 0
      BY <2>2 DEF BeginStep, Progress, Done, Clean
    <3>2. handled'[r] = UpTo(n) /\ culprit'[r] \in {0, n + 1}
      BY <1>0, <2>2, <3>1 DEF BeginStep, TypeOK
    <3>3. QED  BY <3>1, <3>2, UpToType
  <2>3. QED  BY <1>2, <2>1, <2>2
<1>3. CASE ~(TaskReturns(r) \/ TaskRaises(r) \/ BeginStep(r))
  <2>1. handled' = handled /\ culprit' = culprit
    BY <1>3 DEF Step, Start, Allocate, Create, WriteConfig, BeforeRun, GitTimeout, OnError,
       TracebackFails, AfterStep, LastStepDone, Interrupt, AfterRun
  <2>2. QED  BY <2>1
<1>4. QED  BY <1>1, <1>2, <1>3

LEMMA ProgressStep ==
    ASSUME IInv, NEW r \in Runs, Step(r)
    PROVE  Progress(r)'
<1> USE DEF diskVars, historyVars, Goto, Progress, Setup, TryPcs, Clean, Done
<1>0. TypeOK /\ ctx \in [Runs -> HookState]  BY DEF IInv, TypeOK
<1>0a. /\ ctx[r].index \in Nat /\ ctx[r].executed \in Seq(Nat) /\ culprit[r] \in Nat
       /\ Progress(r) /\ Len(plan[r]) \in Nat /\ ctx[r] \in HookState
  BY <1>0, Here, PlanType
<1>1. CASE Start(r)  BY <1>0, <1>0a, <1>1 DEF Start, TypeOK
<1>2. CASE Allocate(r)
  <2>1. pc'[r] = "create" /\ pc[r] = "allocate"
    BY <1>0, <1>2 DEF Allocate, TypeOK
  <2>2. UNCHANGED <<ctx, result, plan, handled, culprit>>  BY <1>2 DEF Allocate
  <2>3. QED  BY <1>0a, <2>1, <2>2
<1>3. CASE Create(r)  BY <1>0, <1>0a, <1>3 DEF Create, TypeOK
<1>4. CASE WriteConfig(r)  BY <1>0, <1>0a, <1>4 DEF WriteConfig, TypeOK
<1>5. CASE BeforeRun(r)
  <2>1. /\ ctx'[r].index = ctx[r].index /\ ctx'[r].executed = <<>>
        /\ ctx'[r].status = "completed" /\ ctx'[r].failed = 0
    BY <1>0, <1>0a, <1>5 DEF BeforeRun, SetCtx, HookState
  <2>2. pc'[r] = "step" /\ pc[r] = "beforeRun"  BY <1>0, <1>5 DEF BeforeRun, TypeOK
  <2>3. UNCHANGED <<result, plan, handled, culprit>>  BY <1>5 DEF BeforeRun
  <2>4. QED  BY <1>0a, <2>1, <2>2, <2>3, UpToZero
<1>6. CASE GitTimeout(r)  BY <1>0, <1>0a, <1>6 DEF GitTimeout, TypeOK
<1>7. CASE BeginStep(r)
  <2> DEFINE i == ctx[r].index + 1
  <2>1. /\ ctx'[r].index = i /\ ctx'[r].executed = ctx[r].executed
        /\ ctx'[r].status = ctx[r].status /\ ctx'[r].failed = ctx[r].failed
        /\ pc'[r] = "task" => ctx'[r].timing = TRUE
    <3>1. CASE plan[r][i] \in Registered
      <4>1. ctx' = [ctx EXCEPT ![r] = [ctx[r] EXCEPT !.index = i, !.timing = TRUE]]
        BY <1>7, <3>1 DEF BeginStep, SetCtx
      <4>2. QED  BY <1>0, <1>0a, <4>1 DEF HookState
    <3>2. CASE plan[r][i] \notin Registered
      <4>1. ctx' = [ctx EXCEPT ![r] = [ctx[r] EXCEPT !.index = i]]
        BY <1>7, <3>2 DEF BeginStep, SetCtx
      <4>2. pc'[r] = "onError"  BY <1>0, <1>7, <3>2 DEF BeginStep, TypeOK
      <4>3. QED  BY <1>0, <1>0a, <4>1, <4>2 DEF HookState
    <3>3. QED  BY <3>1, <3>2
  <2>2. /\ pc[r] = "step" /\ i <= Len(plan[r])
        /\ \/ pc'[r] = "task" /\ culprit'[r] = culprit[r]
           \/ pc'[r] = "onError" /\ culprit'[r] = i
    BY <1>0, <1>7 DEF BeginStep, TypeOK
  <2>3. UNCHANGED <<result, plan, handled>>  BY <1>7 DEF BeginStep
  <2>4. i > 0 /\ i - 1 = ctx[r].index  BY <1>0a
  <2>5. QED  BY <1>0a, <2>1, <2>2, <2>3, <2>4
<1>8. CASE TaskReturns(r)
  <2>1. pc[r] = "task" /\ pc'[r] = "afterStep"  BY <1>0, <1>8 DEF TaskReturns, TypeOK
  <2>2. handled'[r] = UpTo(ctx[r].index)
    BY <1>0, <1>0a, <1>8, <2>1, UpToNext DEF TaskReturns, TypeOK
  <2>3. UNCHANGED <<ctx, result, plan, culprit>>  BY <1>8 DEF TaskReturns
  <2>4. QED  BY <1>0a, <2>1, <2>2, <2>3
<1>9. CASE TaskRaises(r)
  <2>1. pc[r] = "task" /\ pc'[r] = "onError" /\ culprit'[r] = ctx[r].index
    BY <1>0, <1>9 DEF TaskRaises, TypeOK
  <2>2. UNCHANGED <<ctx, result, plan, handled>>  BY <1>9 DEF TaskRaises
  <2>3. QED  BY <1>0a, <2>1, <2>2
<1>10. CASE OnError(r)
  <2>1. /\ ctx'[r].index = ctx[r].index /\ ctx'[r].executed = ctx[r].executed
        /\ ctx'[r].status = "failed" /\ ctx'[r].failed = ctx[r].index
    BY <1>0, <1>0a, <1>10 DEF OnError, Failed, SetCtx, HookState
  <2>2. pc[r] = "onError" /\ pc'[r] = "afterRun" /\ runDir[r] \in traceback'
    BY <1>0, <1>10 DEF OnError, TypeOK
  <2>3. UNCHANGED <<result, plan, handled, culprit, runDir>>  BY <1>10 DEF OnError
  <2>4. QED  BY <1>0a, <2>1, <2>2, <2>3
<1>11. CASE TracebackFails(r)
  <2>1. ctx'[r].status = "failed"
    BY <1>0, <1>0a, <1>11 DEF TracebackFails, Failed, SetCtx, HookState
  <2>2. pc'[r] = "afterRun" /\ result'[r] = "hookError"
    BY <1>0, <1>11 DEF TracebackFails, TypeOK
  <2>3. QED  BY <2>1, <2>2
<1>12. CASE AfterStep(r)
  <2>1. pc[r] = "afterStep" /\ pc'[r] = "step"  BY <1>0, <1>12 DEF AfterStep, TypeOK
  <2>2. ctx' = [ctx EXCEPT ![r] = [ctx[r] EXCEPT !.timing = FALSE,
                                   !.executed = Append(ctx[r].executed, ctx[r].index)]]
    BY <1>0a, <1>12, <2>1 DEF AfterStep, SetCtx
  <2>3. /\ ctx'[r].index = ctx[r].index /\ ctx'[r].executed = UpTo(ctx[r].index)
        /\ ctx'[r].status = ctx[r].status /\ ctx'[r].failed = ctx[r].failed
    BY <1>0, <1>0a, <2>1, <2>2, UpToNext DEF HookState
  <2>4. UNCHANGED <<result, plan, handled, culprit>>  BY <1>12 DEF AfterStep
  <2>5. QED  BY <1>0a, <2>1, <2>3, <2>4
<1>13. CASE LastStepDone(r)
  <2>1. pc[r] = "step" /\ pc'[r] = "afterRun" /\ ctx[r].index = Len(plan[r])
    BY <1>0, <1>13 DEF LastStepDone, TypeOK
  <2>2. UNCHANGED <<ctx, result, plan, handled, culprit>>  BY <1>13 DEF LastStepDone
  <2>3. QED  BY <1>0a, <2>1, <2>2
<1>14. CASE Interrupt(r)
  <2>1. /\ pc'[r] = IF pc[r] \in TryPcs THEN "afterRun" ELSE "ended"
        /\ result'[r] = "interrupted" /\ ctx' = ctx
    BY <1>0, <1>14 DEF Interrupt, TypeOK
  <2>2. QED  BY <1>0a, <2>1
<1>15. CASE AfterRun(r)
  <2>1. pc'[r] = "ended" /\ result'[r] = Outcome(r)
    BY <1>0, <1>15 DEF AfterRun, TypeOK
  <2>2. Outcome(r) # "none"  BY DEF Outcome
  <2>3. QED  BY <2>1, <2>2
<1>16. QED  BY <1>1, <1>2, <1>3, <1>4, <1>5, <1>6, <1>7, <1>8, <1>9, <1>10, <1>11, <1>12,
              <1>13, <1>14, <1>15 DEF Step

\* A run that has ended is left in peace.
LEMMA NoStepAfterEnd ==
    ASSUME NEW r \in Runs, Step(r)
    PROVE  pc[r] # "ended"
BY DEF Step, Start, Allocate, Create, WriteConfig, BeforeRun, GitTimeout, BeginStep, TaskReturns,
   TaskRaises, OnError, TracebackFails, AfterStep, LastStepDone, Interrupt, AfterRun, Goto

\* The metadata and the traceback a run ends with are those of its last two hooks.
LEMMA EndStep ==
    ASSUME IInv, NEW r \in Runs, Step(r)
    PROVE  Reported(r)' /\ Complete(r)'
<1> USE DEF Progress, Clean, Done
<1>0. /\ TypeOK /\ Progress(r) /\ Progress(r)' /\ culprit[r] \in Nat /\ Len(plan[r]) \in Nat
      /\ pc[r] # "ended"
  BY Here, ProgressStep, PlanType, NoStepAfterEnd DEF IInv
<1>1. CASE AfterRun(r)
  <2> DEFINE m == [run |-> r, executed |-> ctx[r].executed, status |-> ctx[r].status,
                   failed |-> ctx[r].failed]
  <2>1. pc[r] = "afterRun" /\ result'[r] = Outcome(r)
    BY <1>0, <1>1 DEF AfterRun, Goto, TypeOK
  <2>2. runDir[r] \in Existing  BY <2>1, Here DEF Unplaced
  <2>3. metadata'[runDir[r]] = m
    BY <1>0, <1>1, <2>2 DEF AfterRun, TypeOK, Existing
  <2>4. UNCHANGED <<runDir, culprit, handled, plan, traceback>>
    BY <1>1 DEF AfterRun, historyVars
  <2>5. ASSUME result'[r] = "taskError"
        PROVE  /\ m = [run |-> r, executed |-> UpTo(culprit[r] - 1),
                       status |-> "failed", failed |-> culprit[r]]
               /\ runDir[r] \in traceback
    <3>1. result[r] = "none" /\ culprit[r] # 0
      BY <1>0, <2>1, <2>5 DEF Outcome
    <3>2. QED  BY <1>0, <2>1, <3>1
  <2>6. ASSUME result'[r] = "returned"
        PROVE  /\ m = [run |-> r, executed |-> UpTo(Len(plan[r])),
                       status |-> "completed", failed |-> 0]
               /\ Len(handled[r]) = Len(plan[r])
    <3>1. result[r] = "none" /\ culprit[r] = 0
      BY <1>0, <2>1, <2>6 DEF Outcome
    <3>2. QED  BY <1>0, <2>1, <3>1, UpToType
  <2>7. QED  BY <2>3, <2>4, <2>5, <2>6 DEF Reported, Complete
<1>2. CASE ~AfterRun(r)
  <2>1. result' = result \/ result'[r] \in {"interrupted", "hookError"}
    BY <1>0, <1>2 DEF Step, Start, Allocate, Create, WriteConfig, BeforeRun, GitTimeout, BeginStep,
       TaskReturns, TaskRaises, OnError, TracebackFails, AfterStep, LastStepDone, Interrupt, TypeOK
  <2>2. result'[r] \notin {"taskError", "returned"}  BY <1>0, <2>1
  <2>3. QED  BY <2>2 DEF Reported, Complete
<1>3. QED  BY <1>1, <1>2

\* If a run is alone in its directory after a step of another one, it was before.
LEMMA AloneKept ==
    ASSUME IInv, NEW r \in Runs, Step(r), NEW q \in Runs \ {r}, runDir[q] # NoDir, Alone(q)'
    PROVE  Alone(q) /\ (runDir[r] = runDir[q] => pc[r] = "create")
<1>1. TypeOK /\ Placed(r)  BY Here DEF IInv
<1>2. SUFFICES ASSUME runDir[r] = runDir[q] PROVE pc[r] = "create"
  BY Frame, <1>1 DEF Alone
<1>3. pc[r] \notin {"start", "allocate"}  BY <1>1, <1>2 DEF Placed
<1>4. SUFFICES ASSUME pc[r] # "create" PROVE FALSE  OBVIOUS
<1>5. pc'[r] # "create" /\ runDir'[r] = runDir[r]
  BY <1>1, <1>3, <1>4 DEF Step, Start, Allocate, Create, WriteConfig, BeforeRun, GitTimeout,
     BeginStep, TaskReturns, TaskRaises, OnError, TracebackFails, AfterStep, LastStepDone,
     Interrupt, AfterRun, Goto, TypeOK
<1>6. runDir'[q] = runDir[q]  BY Frame, <1>1
<1>7. r \in Runs \ {q} /\ runDir'[r] = runDir'[q]  BY <1>2, <1>5, <1>6
<1>8. QED  BY <1>5, <1>7 DEF Alone

\* What the invariant says of a run outlives the steps of the others.
LEMMA OthersStep ==
    ASSUME IInv, NEW r \in Runs, Step(r), NEW q \in Runs \ {r}
    PROVE  (Progress(q) /\ Ordered(q) /\ Placed(q) /\ Reported(q) /\ Complete(q))'
<1>0. /\ TypeOK /\ Progress(q) /\ Ordered(q) /\ Placed(q) /\ Reported(q) /\ Complete(q)
  BY DEF IInv
<1>1. /\ pc'[q] = pc[q] /\ plan'[q] = plan[q] /\ runDir'[q] = runDir[q] /\ ctx'[q] = ctx[q]
      /\ result'[q] = result[q] /\ handled'[q] = handled[q] /\ culprit'[q] = culprit[q]
      /\ Existing \subseteq Existing' /\ traceback \subseteq traceback'
      /\ \A d \in Existing : d # runDir[r] \/ pc[r] # "afterRun" => metadata'[d] = metadata[d]
  BY <1>0, Frame
<1>2. Progress(q)' /\ Ordered(q)' /\ Placed(q)'
  BY <1>0, <1>1 DEF Progress, Clean, Done, Ordered, Placed
<1>3. ASSUME result'[q] \in {"returned", "taskError"}, Alone(q)'
      PROVE  Alone(q) /\ metadata'[runDir[q]] = metadata[runDir[q]]
  <2>1. pc[q] = "ended" /\ runDir[q] # NoDir  BY <1>0, <1>1, <1>3 DEF Progress, Placed
  <2>2. runDir[q] \in Existing  BY <1>0, <2>1 DEF Placed, Unplaced
  <2>3. QED  BY <1>1, <1>3, <2>1, <2>2, AloneKept
<1>4. Reported(q)' /\ Complete(q)'
  BY <1>0, <1>1, <1>3 DEF Reported, Complete
<1>5. QED  BY <1>2, <1>4

LEMMA InvariantStep == IInv /\ [Next]_vars => IInv'
<1> SUFFICES ASSUME IInv, [Next]_vars PROVE IInv'  OBVIOUS
<1>1. ASSUME NEW r \in Runs, Step(r) PROVE IInv'
  <2>1. TypeOK' /\ FiniteGroups'  BY <1>1, TypeStep, FiniteStep
  <2>2. ASSUME NEW q \in Runs
        PROVE  (Progress(q) /\ Ordered(q) /\ Placed(q) /\ Reported(q) /\ Complete(q))'
    <3>1. CASE q = r  BY <1>1, <3>1, ProgressStep, OrderedStep, PlacedStep, EndStep
    <3>2. CASE q # r  BY <1>1, <3>2, OthersStep
    <3>3. QED  BY <3>1, <3>2
  <2>3. QED  BY <2>1, <2>2 DEF IInv
<1>2. CASE UNCHANGED vars
  BY <1>2 DEF vars, diskVars, localVars, historyVars, IInv, TypeOK, FiniteGroups, UsedGroups,
     Existing, Progress, Clean, Done, Ordered, Placed, Reported, Complete, Alone
<1>3. QED  BY <1>1, <1>2 DEF Next

-----------------------------------------------------------------------------
(* What run_pipeline promises.                                             *)

LEMMA Invariant == Spec => []IInv
BY InitialInvariant, InvariantStep, PTL DEF Spec

\* The run directories and the hooks' state keep their shape (RunContext, hooks.py).
THEOREM TypeCorrect == Spec => []TypeOK
<1>1. IInv => TypeOK  BY DEF IInv
<1>2. QED  BY <1>1, Invariant, PTL

\* _execute runs the steps of a plan in order, each once, and none after a failed one.
THEOREM StepsRunInOrder == Spec => []StepsInOrder
<1>1. IInv => StepsInOrder  BY DEF IInv, Ordered, StepsInOrder
<1>2. QED  BY <1>1, Invariant, PTL

\* An exception of a task leaves run_pipeline only after the hooks have recorded the
\* failed step, the steps before it and the traceback (runner.py, MetadataHook, ErrorHook).
THEOREM FailuresAreReported == Spec => []FailureReported
<1>1. IInv => FailureReported  BY DEF IInv, Reported, FailureReported
<1>2. QED  BY <1>1, Invariant, PTL

\* run_pipeline returns normally only when every step has run and is in run_metadata.json.
THEOREM SuccessMeansComplete == Spec => []SuccessIsComplete
<1>1. IInv => SuccessIsComplete  BY DEF IInv, Complete, SuccessIsComplete
<1>2. QED  BY <1>1, Invariant, PTL

-----------------------------------------------------------------------------
(* allocate_group_slug keeps groups apart, but for the time between the    *)
(* choice of a directory and its creation.                                 *)

\* A group chosen now is new to every run that was not choosing at the same time.
LEMMA GroupsStep == IInv /\ GroupsKeptApart /\ [Next]_vars => GroupsKeptApart'
<1> SUFFICES ASSUME IInv, GroupsKeptApart, [Next]_vars PROVE GroupsKeptApart'  OBVIOUS
<1>1. ASSUME NEW r \in Runs, Step(r) PROVE GroupsKeptApart'
  <2>0. TypeOK  BY DEF IInv
  <2>1. CASE Allocate(r)
    <3>1. runDir'[r].group = FreeGroup /\ FreeGroup \notin UsedGroups /\ pc[r] = "allocate"
      BY <2>0, <2>1, FreeGroupFound DEF Allocate, Goto, TypeOK, IInv
    <3>2. ASSUME NEW q \in Runs \ {r}, runDir[q] # NoDir, ~({r, q} \subseteq racing')
          PROVE  runDir[q].group # runDir'[r].group
      <4>1. pc[q] # "create"  BY <2>1, <3>2 DEF Allocate, Racing
      <4>2. runDir[q] \in Existing  BY <3>2, <4>1, Here DEF Placed, Unplaced
      <4>3. QED  BY <3>1, <4>2 DEF UsedGroups
    <3>3. \A q \in Runs \ {r} : runDir'[q] = runDir[q]  BY <2>0, Frame, <1>1
    <3>4. racing \subseteq racing'  BY <2>1 DEF Allocate, Racing
    <3>5. QED  BY <3>2, <3>3, <3>4 DEF GroupsKeptApart
  <2>2. CASE Interrupt(r)
    <3>1. runDir'[r] \in {runDir[r], NoDir} /\ racing' = racing
      BY <2>0, <2>2 DEF Interrupt, TypeOK
    <3>2. \A q \in Runs \ {r} : runDir'[q] = runDir[q]  BY <2>0, Frame, <1>1
    <3>3. QED  BY <3>1, <3>2 DEF GroupsKeptApart
  <2>3. CASE ~(Allocate(r) \/ Interrupt(r))
    <3>1. UNCHANGED <<runDir, racing>>
      BY <1>1, <2>3 DEF Step, Start, Create, WriteConfig, BeforeRun, GitTimeout, BeginStep,
         TaskReturns, TaskRaises, OnError, TracebackFails, AfterStep, LastStepDone, AfterRun,
         historyVars
    <3>2. QED  BY <3>1 DEF GroupsKeptApart
  <2>4. QED  BY <2>1, <2>2, <2>3
<1>2. CASE UNCHANGED vars
  BY <1>2 DEF vars, localVars, historyVars, GroupsKeptApart
<1>3. QED  BY <1>1, <1>2 DEF Next

\* Two runs share a group only if one computed its directory while the other had computed
\* and not yet created its own (allocate_run_dir, RunContext.__post_init__).
THEOREM GroupsStayApart == Spec => []GroupsKeptApart
<1>1. Init => GroupsKeptApart  BY DEF Init, GroupsKeptApart
<1>2. QED  BY <1>1, GroupsStep, Invariant, PTL DEF Spec

-----------------------------------------------------------------------------
(* What MetadataHook writes, and what the steps say that it writes.        *)

\* The record that a run is about to write misses at most the step in progress, and
\* says completed with steps missing only if the run was interrupted.
Tally(r) ==
    pc[r] = "afterRun" =>
        /\ ctx[r].executed = UpTo(Len(ctx[r].executed))
        /\ Len(handled[r]) - Len(ctx[r].executed) \in 0..1
        /\ ctx[r].status = "completed" /\ Len(ctx[r].executed) < Len(plan[r])
               => result[r] = "interrupted"

WrittenAtEnd ==
    \A d \in Existing : metadata[d] # NoMetadata => pc[metadata[d].run] = "ended"

TInv == IInv /\ (\A r \in Runs : Tally(r)) /\ WrittenAtEnd /\ MetadataTruthful

\* In the middle of a plan at most the step in progress is handled and not recorded.
LEMMA RecordedSoFar ==
    ASSUME IInv, NEW r \in Runs, pc[r] \in TryPcs
    PROVE  /\ ctx[r].executed = UpTo(Len(ctx[r].executed))
           /\ Len(handled[r]) - Len(ctx[r].executed) \in 0..1
<1>1. ctx[r].index \in Nat /\ Progress(r)  BY Here
<1>2. PICK n \in Nat, m \in Nat : Done(r, n, m) /\ n - m \in 0..1
  <2>1. CASE pc[r] = "step"  BY <1>1, <2>1 DEF Progress
  <2>2. CASE pc[r] = "afterStep"  BY <1>1, <2>2 DEF Progress
  <2>3. CASE pc[r] \in {"task", "onError"}  BY <1>1, <2>3 DEF Progress
  <2>4. QED  BY <2>1, <2>2, <2>3 DEF TryPcs
<1>3. Len(UpTo(n)) = n /\ Len(UpTo(m)) = m  BY UpToType
<1>4. QED  BY <1>2, <1>3 DEF Done

LEMMA TallyStep ==
    ASSUME IInv, NEW r \in Runs, Tally(r), Step(r)
    PROVE  Tally(r)'
<1> USE DEF Goto, SetCtx, Tally
<1>0. /\ ctx \in [Runs -> HookState] /\ r \in DOMAIN pc /\ r \in DOMAIN result
      /\ plan' = plan /\ Progress(r) /\ ctx[r].index \in Nat /\ TypeOK
  BY Here, Frame DEF IInv, TypeOK
<1>1. CASE OnError(r) \/ TracebackFails(r)
  <2>1. /\ pc[r] = "onError" /\ handled' = handled
        /\ ctx'[r].executed = ctx[r].executed /\ ctx'[r].status = "failed"
    <3>1. pc[r] = "onError" /\ handled' = handled /\ Failed(r)
      BY <1>1 DEF OnError, TracebackFails, historyVars
    <3>2. ctx'[r] = [ctx[r] EXCEPT !.timing = FALSE, !.failed = ctx[r].index, !.status = "failed"]
      BY <1>0, <3>1 DEF Failed
    <3>3. ctx[r] \in HookState  BY <1>0
    <3>4. QED  BY <3>1, <3>2, <3>3 DEF HookState
  <2>2. QED  BY <2>1, RecordedSoFar DEF TryPcs
<1>2. CASE LastStepDone(r)
  <2>1. UNCHANGED <<handled, ctx>> /\ pc[r] = "step" /\ ctx[r].index = Len(plan[r])
    BY <1>2 DEF LastStepDone, historyVars
  <2>2. Len(ctx[r].executed) = Len(plan[r])
    BY <1>0, <2>1, UpToType DEF Progress, Done
  <2>3. Len(plan[r]) \in Nat  BY <1>0, PlanType
  <2>4. QED  BY <1>0, <2>1, <2>2, <2>3, RecordedSoFar DEF TryPcs
<1>3. CASE Interrupt(r)
  <2>1. UNCHANGED <<handled, ctx>> /\ result'[r] = "interrupted"
        /\ (pc'[r] = "afterRun" => pc[r] \in TryPcs)
    BY <1>0, <1>3 DEF Interrupt
  <2>2. QED  BY <2>1, RecordedSoFar
<1>4. CASE Start(r) \/ Allocate(r) \/ Create(r) \/ WriteConfig(r) \/ BeforeRun(r) \/ GitTimeout(r)
           \/ BeginStep(r) \/ TaskReturns(r) \/ TaskRaises(r) \/ AfterStep(r) \/ AfterRun(r)
  <2>1. pc'[r] # "afterRun"
    BY <1>0, <1>4
       DEF Start, Allocate, Create, WriteConfig, BeforeRun, GitTimeout, BeginStep, TaskReturns,
           TaskRaises, AfterStep, AfterRun
  <2>2. QED  BY <2>1
<1>5. QED  BY <1>1, <1>2, <1>3, <1>4 DEF Step

\* The metadata of a directory after a step: what was there, nothing, or the record of a
\* run that ends with this step.
LEMMA MetadataStep ==
    ASSUME IInv, NEW r \in Runs, Step(r), NEW d \in Existing', metadata'[d] # NoMetadata
    PROVE  \/ d \in Existing /\ metadata'[d] = metadata[d]
           \/ /\ AfterRun(r)
              /\ metadata'[d] = [run |-> r, executed |-> ctx[r].executed,
                                 status |-> ctx[r].status, failed |-> ctx[r].failed]
<1>0. DOMAIN metadata = Existing  BY DEF IInv, TypeOK, Existing
<1>1. CASE Create(r)
  BY <1>0, <1>1 DEF Create, Existing
<1>2. CASE AfterRun(r)
  BY <1>0, <1>2 DEF AfterRun, Existing
<1>3. CASE ~(Create(r) \/ AfterRun(r))
  <2>1. metadata' = metadata /\ Existing' = Existing
    BY <1>3 DEF Step, Start, Allocate, WriteConfig, BeforeRun, GitTimeout, BeginStep,
         TaskReturns, TaskRaises, OnError, TracebackFails, AfterStep, LastStepDone,
         Interrupt, diskVars, historyVars, Existing
  <2>2. QED  BY <2>1
<1>4. QED  BY <1>1, <1>2, <1>3

\* A run that has ended, and what it was, stays as it is.
LEMMA EndedStays ==
    ASSUME IInv, NEW r \in Runs, Step(r), NEW q \in Runs, pc[q] = "ended"
    PROVE  /\ pc'[q] = "ended" /\ handled'[q] = handled[q] /\ plan'[q] = plan[q]
           /\ result'[q] = result[q]
<1>1. q # r  BY NoStepAfterEnd
<1>2. QED  BY <1>1, Frame DEF IInv

LEMMA TruthStep ==
    ASSUME TInv, NEW r \in Runs, Step(r)
    PROVE  WrittenAtEnd' /\ MetadataTruthful'
<1>0. IInv /\ TypeOK  BY DEF TInv, IInv
<1> DEFINE m(d) == metadata'[d]
<1> SUFFICES ASSUME NEW d \in Existing', metadata'[d] # NoMetadata
             PROVE  /\ pc'[m(d).run] = "ended"
                    /\ m(d).executed = UpTo(Len(m(d).executed))
                    /\ Len(handled'[m(d).run]) - Len(m(d).executed) \in 0..1
                    /\ m(d).status = "completed" /\ Len(m(d).executed) < Len(plan'[m(d).run])
                           => result'[m(d).run] = "interrupted"
  BY DEF WrittenAtEnd, MetadataTruthful
<1>1. CASE d \in Existing /\ metadata'[d] = metadata[d]
  <2>1. metadata[d].run \in Runs /\ pc[metadata[d].run] = "ended"
    BY <1>0, <1>1 DEF TInv, WrittenAtEnd, TypeOK, Metadata
  <2>2. QED  BY <1>0, <1>1, <2>1, EndedStays DEF TInv, MetadataTruthful
<1>2. CASE /\ AfterRun(r)
           /\ metadata'[d] = [run |-> r, executed |-> ctx[r].executed,
                              status |-> ctx[r].status, failed |-> ctx[r].failed]
  <2>1. /\ pc[r] = "afterRun" /\ pc'[r] = "ended" /\ handled' = handled /\ plan' = plan
        /\ result'[r] = Outcome(r)
    BY <1>0, <1>2 DEF AfterRun, Goto, historyVars, TypeOK
  <2>2. Tally(r)  BY DEF TInv
  <2>3. result[r] = "interrupted" => result'[r] = "interrupted"  BY <2>1 DEF Outcome
  <2>4. QED  BY <1>2, <2>1, <2>2, <2>3 DEF Tally
<1>3. QED  BY <1>0, <1>1, <1>2, MetadataStep

LEMMA TruthInvariant == Spec => []TInv
<1>1. Init => TInv
  <2> SUFFICES ASSUME Init PROVE TInv  OBVIOUS
  <2>1. \A r \in Runs : Tally(r)  BY DEF Init, Tally
  <2>2. WrittenAtEnd /\ MetadataTruthful  BY DEF Init, WrittenAtEnd, MetadataTruthful, Existing
  <2>3. QED  BY <2>1, <2>2, InitialInvariant DEF TInv
<1>2. TInv /\ [Next]_vars => TInv'
  <2> SUFFICES ASSUME TInv, [Next]_vars PROVE TInv'  OBVIOUS
  <2>1. IInv /\ IInv'  BY InvariantStep DEF TInv
  <2>2. ASSUME NEW r \in Runs, Step(r) PROVE TInv'
    <3>1. ASSUME NEW q \in Runs PROVE Tally(q)'
      <4>1. Tally(q)  BY DEF TInv
      <4>2. CASE q = r  BY <2>1, <2>2, <4>1, <4>2, TallyStep
      <4>3. CASE q # r  BY <2>1, <2>2, <4>1, <4>3, Frame DEF IInv, Tally
      <4>4. QED  BY <4>2, <4>3
    <3>2. QED  BY <2>1, <2>2, <3>1, TruthStep DEF TInv
  <2>3. CASE UNCHANGED vars
    BY <2>1, <2>3 DEF TInv, vars, diskVars, localVars, historyVars, Tally, WrittenAtEnd,
       MetadataTruthful, Existing
  <2>4. QED  BY <2>2, <2>3 DEF Next
<1>3. QED  BY <1>1, <1>2, PTL DEF Spec

\* run_metadata.json never lists a step that has not run, misses at most the one whose
\* record an interrupt cut off, and says completed for an unfinished plan only after one
\* (MetadataHook.after_run in the finally clause of _execute).
THEOREM MetadataIsTruthful == Spec => []MetadataTruthful
<1>1. TInv => MetadataTruthful  BY DEF TInv
<1>2. QED  BY <1>1, TruthInvariant, PTL
=============================================================================

-------------------------- MODULE BigQueryProofs --------------------------
(***************************************************************************)
(* Proofs about the BigQuery side of the system: the cost guard and its    *)
(* ledger (CostGuard) for any number of processes, any queries, prices and *)
(* policy that validation accepts, and any billing calendar; and the four  *)
(* GDELT tasks over the result cache (GdeltTask) for any archive, records  *)
(* that arrive, requests and settings.                                     *)
(***************************************************************************)
EXTENDS CostGuard, GdeltTask, FiniteSetTheorems, SequenceTheorems, NaturalsInduction,
        WellFoundedInduction, TLAPS

-----------------------------------------------------------------------------
(* The cost guard.                                                         *)

\* Days after today have not been charged: a record is dated when it is written.
FutureUncharged ==
    /\ \A d \in Days : d > today => dayTotal[d] = 0
    /\ \A k \in Cycles : k > CycleOf[today] => cycleTotal[k] = 0

\* A call past the caps still fits under them when it comes to be recorded.
RoomLeft ==
    ~overlapped =>
        \A c \in Clients : pc[c] \in InFlightPcs =>
            /\ dayTotal[today] + Price(c) <= DailyCap
            /\ cycleTotal[CycleOf[today]] + Price(c) < EmergencyStop

OneInFlight ==
    ~overlapped =>
        \A c, d \in Clients :
            pc[c] \in InFlightPcs /\ pc[d] \in InFlightPcs => c = d

IInv == /\ TypeOK
        /\ FutureUncharged
        /\ RoomLeft
        /\ OneInFlight
        /\ SequentialCaps

\* Today belongs to a billing cycle, and what a client asks has a price.
LEMMA WellTyped ==
    ASSUME TypeOK
    PROVE  /\ today \in Days /\ CycleOf[today] \in Cycles
           /\ dayTotal[today] \in Nat /\ cycleTotal[CycleOf[today]] \in Nat
           /\ Cycles \subseteq Nat
           /\ \A c \in Clients : pc[c] # "idle" =>
                 /\ call[c] \in CallRecord /\ Query(c) \in Queries
                 /\ Price(c) \in Nat /\ call[c].limit \in Nat
  BY PolicyAssumption DEF TypeOK, Days, Cycles, CallRecord, Query, Price

\* What _evaluate_guardrails returns, and what "no violation" means; the monthly cap is
\* never the answer because the emergency stop lies below it.
LEMMA Guardrails ==
    ASSUME TypeOK, NEW c \in Clients, pc[c] # "idle"
    PROVE  /\ Violation(c) \in Decisions \ {"BLOCK_OVER_MONTHLY_CAP"}
           /\ Violation(c) # "ALLOW" /\ Violation(c) # "raised"
           /\ Violation(c) = "none" =>
                /\ Price(c) <= call[c].limit
                /\ Price(c) <= SingleQueryCap
                /\ dayTotal[today] + Price(c) <= DailyCap
                /\ cycleTotal[CycleOf[today]] + Price(c) < EmergencyStop
  BY WellTyped, PolicyAssumption DEF Violation, Decisions

\* The effect of one ledger record on the totals.
LEMMA AppendTypes ==
    ASSUME TypeOK, NEW d, NEW cost \in Nat, AppendLedger(d, cost)
    PROVE  dayTotal' \in [Days -> Nat] /\ cycleTotal' \in [Cycles -> Nat]
  BY WellTyped DEF TypeOK, AppendLedger

LEMMA FreeAppend ==
    ASSUME TypeOK, NEW d, NEW cost \in Nat, d # "ALLOW", AppendLedger(d, cost)
    PROVE  dayTotal' = dayTotal /\ cycleTotal' = cycleTotal
  BY WellTyped DEF TypeOK, AppendLedger

\* Cache hits, dry runs and blocks are logged but charge nothing.
LEMMA NotCharged ==
    ASSUME TypeOK, NEW c \in Clients,
           UseCache(c) \/ EstimateOnly(c) \/ Block(c) \/ BlockUnconfirmed(c)
    PROVE  dayTotal' = dayTotal /\ cycleTotal' = cycleTotal
<1>1. pc[c] # "idle" /\ Price(c) \in Nat /\ Violation(c) # "ALLOW"
  <2>1. pc[c] # "idle"
    BY DEF UseCache, EstimateOnly, Block, BlockUnconfirmed
  <2> QED BY <2>1, WellTyped, Guardrails
<1>2. CASE UseCache(c)
  <2>1. AppendLedger("USE_CACHE", 0) BY <1>2 DEF UseCache, Finish
  <2> QED BY <2>1, FreeAppend
<1>3. CASE EstimateOnly(c)
  <2>1. AppendLedger("DRY_RUN_ONLY", Price(c)) BY <1>3 DEF EstimateOnly, Finish
  <2> QED BY <1>1, <2>1, FreeAppend
<1>4. CASE Block(c)
  <2>1. AppendLedger(Violation(c), Price(c)) BY <1>4 DEF Block, Finish
  <2> QED BY <1>1, <2>1, FreeAppend
<1>5. CASE BlockUnconfirmed(c)
  <2>1. AppendLedger("BLOCK_MISSING_EXECUTE_CONFIRMATION", Price(c))
    BY <1>5 DEF BlockUnconfirmed, Finish
  <2> QED BY <1>1, <2>1, FreeAppend
<1> QED
  BY <1>2, <1>3, <1>4, <1>5

LEMMA InductiveInit == Init => IInv
<1> SUFFICES ASSUME Init PROVE IInv
  OBVIOUS
<1>1. TypeOK
  <2>1. today \in Days
    BY PolicyAssumption DEF Init, Days, PolicyAssumption
  <2>2. /\ dayTotal \in [Days -> Nat] /\ cycleTotal \in [Cycles -> Nat]
        /\ paid \in [Queries -> Nat]
    BY DEF Init
  <2> QED
    BY <2>1, <2>2 DEF Init, TypeOK, Pcs, Decisions
<1>2. FutureUncharged
  BY DEF Init, FutureUncharged
<1>3. RoomLeft /\ OneInFlight
  BY DEF Init, RoomLeft, OneInFlight, InFlightPcs
<1>4. SequentialCaps
  BY PolicyAssumption DEF Init, SequentialCaps
<1> QED
  BY <1>1, <1>2, <1>3, <1>4 DEF IInv

\* Every step keeps the types.
LEMMA TypeStep == TypeOK /\ [Next]_vars => TypeOK'
<1> SUFFICES ASSUME TypeOK, [Next]_vars PROVE TypeOK'
  OBVIOUS
<1> USE DEF Pcs, Decisions
<1>1. ASSUME NEW c \in Clients, Ask(c) PROVE TypeOK'
  BY <1>1 DEF Ask, Goto, TypeOK, ledgerVars, historyVars
<1>2. ASSUME NEW c \in Clients, UseCache(c) PROVE TypeOK'
  <2>1. dayTotal' = dayTotal /\ cycleTotal' = cycleTotal BY <1>2, NotCharged
  <2> QED BY <1>2, <2>1 DEF UseCache, Finish, TypeOK, historyVars
<1>3. ASSUME NEW c \in Clients, Miss(c) PROVE TypeOK'
  BY <1>3 DEF Miss, Goto, TypeOK, ledgerVars, historyVars
<1>4. ASSUME NEW c \in Clients, EstimateOnly(c) PROVE TypeOK'
  <2>1. dayTotal' = dayTotal /\ cycleTotal' = cycleTotal BY <1>4, NotCharged
  <2> QED BY <1>4, <2>1 DEF EstimateOnly, Finish, TypeOK, historyVars
<1>5. ASSUME NEW c \in Clients, Block(c) PROVE TypeOK'
  <2>1. dayTotal' = dayTotal /\ cycleTotal' = cycleTotal BY <1>5, NotCharged
  <2>2. pc[c] # "idle" BY <1>5 DEF Block
  <2>3. Violation(c) \in Decisions BY <2>2, Guardrails
  <2> QED BY <1>5, <2>1, <2>2, <2>3 DEF Block, Finish, TypeOK, historyVars
<1>6. ASSUME NEW c \in Clients, BlockUnconfirmed(c) PROVE TypeOK'
  <2>1. dayTotal' = dayTotal /\ cycleTotal' = cycleTotal BY <1>6, NotCharged
  <2> QED BY <1>6, <2>1 DEF BlockUnconfirmed, Finish, TypeOK, historyVars
<1>7. ASSUME NEW c \in Clients, Admit(c) PROVE TypeOK'
  BY <1>7 DEF Admit, Goto, TypeOK, ledgerVars
<1>8. ASSUME NEW c \in Clients, Execute(c) PROVE TypeOK'
  <2>1. Query(c) \in Queries BY <1>8, WellTyped DEF Execute, Goto
  <2> QED BY <1>8, <2>1 DEF Execute, Goto, TypeOK, ledgerVars
<1>9. ASSUME NEW c \in Clients, TruncateCache(c) PROVE TypeOK'
  BY <1>9 DEF TruncateCache, Goto, TypeOK, ledgerVars, historyVars
<1>10. ASSUME NEW c \in Clients, FillCache(c) PROVE TypeOK'
  BY <1>10 DEF FillCache, Goto, TypeOK, ledgerVars, historyVars
<1>11. ASSUME NEW c \in Clients, RecordAllow(c) PROVE TypeOK'
  <2>1. pc[c] # "idle" BY <1>11 DEF RecordAllow
  <2>2. AppendLedger("ALLOW", Price(c)) BY <1>11 DEF RecordAllow, Finish
  <2>3. dayTotal' \in [Days -> Nat] /\ cycleTotal' \in [Cycles -> Nat]
    BY <2>1, <2>2, AppendTypes, WellTyped
  <2> QED BY <1>11, <2>1, <2>3 DEF RecordAllow, Finish, TypeOK, historyVars
<1>12. ASSUME NEW c \in Clients, Abort(c) PROVE TypeOK'
  <2>1. pc[c] # "idle" BY <1>12 DEF Abort
  <2>2. lost' \in Nat BY <1>12, <2>1, WellTyped DEF Abort, TypeOK
  <2> QED BY <1>12, <2>1, <2>2 DEF Abort, TypeOK, ledgerVars
<1>13. ASSUME NEW c \in Clients, Return(c) PROVE TypeOK'
  BY <1>13 DEF Return, Goto, TypeOK, ledgerVars, historyVars
<1>14. CASE Midnight
  BY <1>14, PolicyAssumption DEF Midnight, TypeOK, Days, ledgerVars, callVars, historyVars
<1>15. CASE UNCHANGED vars
  BY <1>15 DEF vars, TypeOK, ledgerVars, callVars, historyVars
<1> QED
  BY <1>1, <1>2, <1>3, <1>4, <1>5, <1>6, <1>7, <1>8, <1>9, <1>10, <1>11, <1>12, <1>13,
     <1>14, <1>15 DEF Next, Step

\* Every step keeps the caps: a call is admitted while nobody else is in flight, so the
\* totals it was checked against are the totals it is recorded on, or those of a fresh
\* day or cycle.
LEMMA CapsStep == IInv /\ TypeOK' /\ [Next]_vars => IInv'
<1> SUFFICES ASSUME IInv, TypeOK', [Next]_vars
             PROVE  FutureUncharged' /\ RoomLeft' /\ OneInFlight' /\ SequentialCaps'
  BY DEF IInv
<1> USE DEF IInv, InFlightPcs
<1>a. TypeOK
  OBVIOUS
<1>1. ASSUME UNCHANGED <<today, dayTotal, cycleTotal, overlapped>>,
             \A c \in Clients : pc'[c] \in InFlightPcs =>
                 pc[c] \in InFlightPcs /\ call'[c] = call[c]
      PROVE  FutureUncharged' /\ RoomLeft' /\ OneInFlight' /\ SequentialCaps'
  <2>1. FutureUncharged'
    BY <1>1 DEF FutureUncharged
  <2>2. RoomLeft'
    BY <1>1 DEF RoomLeft, Price, Query
  <2>3. OneInFlight'
    BY <1>1 DEF OneInFlight
  <2>4. SequentialCaps'
    BY <1>1 DEF SequentialCaps
  <2> QED BY <2>1, <2>2, <2>3, <2>4
<1>2. ASSUME NEW c \in Clients, Ask(c)
      PROVE FutureUncharged' /\ RoomLeft' /\ OneInFlight' /\ SequentialCaps'
  BY <1>1, <1>2 DEF Ask, Goto, TypeOK, ledgerVars, historyVars
<1>3. ASSUME NEW c \in Clients, Miss(c) \/ Execute(c) \/ TruncateCache(c) \/ FillCache(c)
                                \/ Abort(c) \/ Return(c)
      PROVE FutureUncharged' /\ RoomLeft' /\ OneInFlight' /\ SequentialCaps'
  BY <1>1, <1>3 DEF Miss, Execute, TruncateCache, FillCache, Abort, Return, Goto, TypeOK,
                    ledgerVars, historyVars
<1>4. ASSUME NEW c \in Clients, UseCache(c) \/ EstimateOnly(c) \/ Block(c) \/ BlockUnconfirmed(c)
      PROVE FutureUncharged' /\ RoomLeft' /\ OneInFlight' /\ SequentialCaps'
  <2>2. dayTotal' = dayTotal /\ cycleTotal' = cycleTotal
    BY <1>4, <1>a, NotCharged
  <2> QED
    BY <1>1, <1>4, <2>2 DEF UseCache, EstimateOnly, Block, BlockUnconfirmed, Finish, TypeOK,
                            historyVars
<1>5. ASSUME NEW c \in Clients, Admit(c)
      PROVE FutureUncharged' /\ RoomLeft' /\ OneInFlight' /\ SequentialCaps'
  <2>1. /\ UNCHANGED <<today, dayTotal, cycleTotal, call>>
        /\ pc' = [pc EXCEPT ![c] = "execute"]
        /\ overlapped' = (overlapped \/ \E d \in Clients \ {c} : pc[d] \in InFlightPcs)
    BY <1>5 DEF Admit, Goto, ledgerVars
  <2>2. /\ dayTotal[today] + Price(c) <= DailyCap
        /\ cycleTotal[CycleOf[today]] + Price(c) < EmergencyStop
    BY <1>5, <1>a, Guardrails DEF Admit, Goto
  <2>3. ~overlapped' => ~overlapped /\ \A d \in Clients : d # c => pc'[d] \notin InFlightPcs
    BY <2>1 DEF TypeOK
  <2>4. FutureUncharged' /\ SequentialCaps'
    BY <2>1, <2>3 DEF FutureUncharged, SequentialCaps
  <2>5. RoomLeft'
    BY <2>1, <2>2, <2>3 DEF RoomLeft, Price, Query
  <2>6. OneInFlight'
    BY <2>3 DEF OneInFlight
  <2> QED BY <2>4, <2>5, <2>6
<1>6. ASSUME NEW c \in Clients, RecordAllow(c)
      PROVE FutureUncharged' /\ RoomLeft' /\ OneInFlight' /\ SequentialCaps'
  <2>1. /\ UNCHANGED <<today, call, overlapped>>
        /\ pc' = [pc EXCEPT ![c] = "done"]
        /\ dayTotal' = [dayTotal EXCEPT ![today] = @ + Price(c)]
        /\ cycleTotal' = [cycleTotal EXCEPT ![CycleOf[today]] = @ + Price(c)]
        /\ pc[c] = "record"
    BY <1>6 DEF RecordAllow, Finish, AppendLedger, historyVars
  <2>2. FutureUncharged'
    <3>1. today \in Nat /\ dayTotal \in [Days -> Nat] /\ cycleTotal \in [Cycles -> Nat]
      BY DEF TypeOK, Days
    <3>2. CycleOf[today] \in Nat  BY PolicyAssumption DEF TypeOK
    <3>3. \A d \in Days : d > today => dayTotal'[d] = 0
      BY <2>1, <3>1 DEF FutureUncharged
    <3>4. \A k \in Cycles : k > CycleOf[today] => cycleTotal'[k] = 0
      BY <2>1, <3>1, <3>2 DEF FutureUncharged
    <3> QED  BY <2>1, <3>3, <3>4 DEF FutureUncharged
  <2>3. ~overlapped => \A d \in Clients : pc'[d] \notin InFlightPcs
    BY <2>1 DEF OneInFlight, TypeOK
  <2>4. RoomLeft' /\ OneInFlight'
    BY <2>1, <2>3 DEF RoomLeft, OneInFlight
  <2>5. ~overlapped => /\ dayTotal[today] + Price(c) <= DailyCap
                       /\ cycleTotal[CycleOf[today]] + Price(c) < EmergencyStop
    BY <2>1 DEF RoomLeft
  <2>6. SequentialCaps'
    BY <2>1, <2>5, <1>a, WellTyped DEF SequentialCaps, TypeOK
  <2> QED BY <2>2, <2>4, <2>6
<1>7. CASE Midnight
  <2>1. /\ today' = today + 1 /\ today' \in Days
        /\ UNCHANGED <<dayTotal, cycleTotal, pc, call, overlapped>>
    BY <1>7 DEF Midnight, ledgerVars, callVars, historyVars, TypeOK
  <2>2. CycleOf[today] <= CycleOf[today'] /\ CycleOf[today'] \in Cycles
    BY <2>1, <1>a, PolicyAssumption DEF TypeOK, Days, Cycles
  <2>3. dayTotal[today'] = 0
    BY <2>1, <1>a DEF FutureUncharged, TypeOK, Days
  <2>4. CycleOf[today'] = CycleOf[today] \/ cycleTotal[CycleOf[today']] = 0
    BY <2>2, <1>a, WellTyped DEF FutureUncharged
  <2>5. FutureUncharged'
    BY <2>1, <2>2, <1>a, WellTyped DEF FutureUncharged, TypeOK, Days
  <2>6. RoomLeft'
    <3> SUFFICES ASSUME ~overlapped, NEW c \in Clients, pc[c] \in InFlightPcs
                 PROVE  /\ dayTotal[today'] + Price(c) <= DailyCap
                        /\ cycleTotal[CycleOf[today']] + Price(c) < EmergencyStop
      BY <2>1 DEF RoomLeft, Price, Query
    <3>1. /\ dayTotal[today] + Price(c) <= DailyCap
          /\ cycleTotal[CycleOf[today]] + Price(c) < EmergencyStop
      BY DEF RoomLeft
    <3>2. /\ Price(c) \in Nat /\ dayTotal[today] \in Nat
          /\ cycleTotal[CycleOf[today]] \in Nat
      BY <1>a, WellTyped
    <3> QED BY <3>1, <3>2, <2>3, <2>4, PolicyAssumption
  <2>7. OneInFlight' /\ SequentialCaps'
    BY <2>1 DEF OneInFlight, SequentialCaps
  <2> QED BY <2>5, <2>6, <2>7
<1>8. CASE UNCHANGED vars
  BY <1>1, <1>8 DEF vars, ledgerVars, callVars, historyVars
<1> QED
  BY <1>2, <1>3, <1>4, <1>5, <1>6, <1>7, <1>8 DEF Next, Step

LEMMA Invariance == Spec => []IInv
<1>1. IInv /\ [Next]_vars => IInv'
  BY TypeStep, CapsStep DEF IInv
<1> QED
  BY <1>1, InductiveInit, PTL DEF Spec

\* The types of safe_query's state are kept by every step.
THEOREM TypeCorrect == Spec => []TypeOK
BY Invariance, PTL DEF IInv

\* What is past the caps was approved, and the monthly cap is never what blocks.
Approved == ExecutesOnlyApproved /\ MonthlyCapShadowed

LEMMA ApprovedStep == TypeOK /\ Approved /\ [Next]_vars => Approved'
<1> SUFFICES ASSUME TypeOK, Approved, [Next]_vars PROVE Approved'
  OBVIOUS
<1> USE DEF Approved, ExecutesOnlyApproved, MonthlyCapShadowed, InFlight, InFlightPcs, Price, Query
<1>1. ASSUME NEW c \in Clients, Ask(c) \/ Miss(c) \/ Execute(c) \/ TruncateCache(c)
                                \/ FillCache(c) \/ Abort(c) \/ Return(c)
      PROVE Approved'
  BY <1>1 DEF Ask, Miss, Execute, TruncateCache, FillCache, Abort, Return, Goto, TypeOK
<1>2. ASSUME NEW c \in Clients,
             UseCache(c) \/ EstimateOnly(c) \/ BlockUnconfirmed(c) \/ RecordAllow(c)
      PROVE Approved'
  BY <1>2 DEF UseCache, EstimateOnly, BlockUnconfirmed, RecordAllow, Finish, TypeOK
<1>3. ASSUME NEW c \in Clients, Block(c) PROVE Approved'
  <2>1. Violation(c) # "BLOCK_OVER_MONTHLY_CAP"
    BY <1>3, Guardrails DEF Block
  <2> QED BY <1>3, <2>1 DEF Block, Finish, TypeOK
<1>4. ASSUME NEW c \in Clients, Admit(c) PROVE Approved'
  <2>1. Price(c) <= call[c].limit /\ Price(c) <= SingleQueryCap
    BY <1>4, Guardrails DEF Admit, Goto
  <2> QED BY <1>4, <2>1 DEF Admit, Goto, TypeOK
<1>5. CASE Midnight
  BY <1>5 DEF Midnight, callVars
<1>6. CASE UNCHANGED vars
  BY <1>6 DEF vars, callVars
<1> QED
  BY <1>1, <1>2, <1>3, <1>4, <1>5, <1>6 DEF Next, Step

LEMMA ApprovedAlways == Spec => []Approved
<1>1. Init => Approved
  BY DEF Init, Approved, ExecutesOnlyApproved, MonthlyCapShadowed, InFlight, InFlightPcs
<1> QED
  BY <1>1, ApprovedStep, TypeCorrect, PTL DEF Spec

\* safe_query's docstring, for any number of concurrent processes: what is executed is no
\* dry run, is confirmed, and lies within its byte limit and the single-query cap.
THEOREM OnlyApprovedExecutes == Spec => []ExecutesOnlyApproved
BY ApprovedAlways, PTL DEF Approved

\* BLOCK_OVER_MONTHLY_CAP is never decided under a policy that validation accepts.
THEOREM MonthlyCapNeverBlocks == Spec => []MonthlyCapShadowed
BY ApprovedAlways, PTL DEF Approved

\* One call at a time never charges a day more than the daily cap or a billing cycle up
\* to the emergency stop, for any prices, any policy and any calendar.
THEOREM CapsHoldSequentially == Spec => []SequentialCaps
BY Invariance, PTL DEF IInv

-----------------------------------------------------------------------------
(* Sums. A sum counts units, so that it changes with one of its amounts    *)
(* and is bounded by the largest.                                          *)

Column(w, x) == {x} \X (1..w[x])
Units(w, D) == UNION {Column(w, x) : x \in D}

LEMMA ColumnSize ==
    ASSUME NEW w, NEW x, w[x] \in Nat
    PROVE  IsFiniteSet(Column(w, x)) /\ Cardinality(Column(w, x)) = w[x]
<1>1. IsFiniteSet({x}) /\ Cardinality({x}) = 1  BY FS_Singleton
<1>2. IsFiniteSet(1..w[x]) /\ Cardinality(1..w[x]) = w[x]  BY FS_Interval
<1>3. /\ IsFiniteSet({x} \X (1..w[x]))
      /\ Cardinality({x} \X (1..w[x])) = Cardinality({x}) * Cardinality(1..w[x])
  BY <1>1, <1>2, FS_Product
<1>4. QED  BY <1>1, <1>2, <1>3 DEF Column

LEMMA UnitsFinite ==
    ASSUME NEW D, IsFiniteSet(D), NEW w, \A x \in D : w[x] \in Nat
    PROVE  IsFiniteSet(Units(w, D)) /\ Cardinality(Units(w, D)) \in Nat
<1> DEFINE T == {Column(w, x) : x \in D}
           f == [x \in D |-> Column(w, x)]
<1>1. f \in Surjection(D, T)  BY DEF Surjection
<1>2. IsFiniteSet(T)  BY <1>1, FS_Surjection
<1>3. \A C \in T : IsFiniteSet(C)  BY ColumnSize
<1> HIDE DEF T
<1>4. IsFiniteSet(UNION T)  BY <1>2, <1>3, FS_UNION
<1>5. UNION T = Units(w, D)  BY DEF T, Units
<1>6. QED  BY <1>4, <1>5, FS_CardinalityType

LEMMA TotalIsUnits == ASSUME NEW w PROVE Total(w) = Cardinality(Units(w, DOMAIN w))
BY DEF Total, Units, Column

LEMMA TotalSplits ==
    ASSUME NEW D, IsFiniteSet(D), NEW w \in [D -> Nat], NEW x \in D
    PROVE  /\ Cardinality(Units(w, D \ {x})) \in Nat
           /\ Total(w) = Cardinality(Units(w, D \ {x})) + w[x]
<1> DEFINE rest == Units(w, D \ {x})
<1>1. IsFiniteSet(D \ {x})  BY FS_RemoveElement
<1>2. IsFiniteSet(rest) /\ Cardinality(rest) \in Nat  BY <1>1, UnitsFinite
<1>3. Units(w, D) = rest \cup Column(w, x)  BY DEF Units
<1>4. rest \cap Column(w, x) = {}  BY DEF Units, Column
<1>5. IsFiniteSet(Column(w, x)) /\ Cardinality(Column(w, x)) = w[x]  BY ColumnSize
<1> HIDE DEF rest
<1>6. Cardinality(rest \cup Column(w, x)) =
          Cardinality(rest) + Cardinality(Column(w, x)) - Cardinality(rest \cap Column(w, x))
  BY <1>2, <1>5, FS_Union
<1>7. Cardinality(rest \cap Column(w, x)) = 0  BY <1>4, FS_EmptySet
<1>8. Total(w) = Cardinality(rest) + w[x]
  <2>1. Total(w) = Cardinality(rest \cup Column(w, x))  BY <1>3, TotalIsUnits
  <2>2. QED  BY <1>2, <1>5, <1>6, <1>7, <2>1
<1>9. QED  BY <1>2, <1>8 DEF rest

\* A total follows the change of one amount.
LEMMA TotalUpdate ==
    ASSUME NEW D, IsFiniteSet(D), NEW w \in [D -> Nat], NEW v \in [D -> Nat], NEW x \in D,
           \A y \in D \ {x} : v[y] = w[y]
    PROVE  Total(v) = Total(w) - w[x] + v[x] /\ Total(w) \in Nat
<1>1. Units(v, D \ {x}) = Units(w, D \ {x})
  <2>1. \A y \in D \ {x} : Column(v, y) = Column(w, y)  BY DEF Column
  <2>2. QED  BY <2>1 DEF Units
<1>2. QED  BY <1>1, TotalSplits

LEMMA TotalZero ==
    ASSUME NEW D, NEW w \in [D -> Nat], \A x \in D : w[x] = 0
    PROVE  Total(w) = 0
<1>1. \A x \in D : Column(w, x) = {}  BY DEF Column
<1>2. Units(w, DOMAIN w) = {}  BY <1>1 DEF Units
<1>3. QED  BY <1>2, TotalIsUnits, FS_EmptySet

\* A total is at most as large as if all amounts were the bound, and less by what one
\* of them is below it.
LEMMA TotalBound ==
    ASSUME NEW D, IsFiniteSet(D), NEW w \in [D -> Nat], NEW b \in Nat,
           NEW x \in D, \A y \in D : w[y] <= b
    PROVE  Total(w) <= w[x] + (Cardinality(D) - 1) * b
<1> DEFINE rest == D \ {x}
<1>1. IsFiniteSet(rest) /\ Cardinality(rest) = Cardinality(D) - 1 /\ Cardinality(rest) \in Nat
  BY FS_RemoveElement, FS_CardinalityType
<1>2. Units(w, rest) \subseteq rest \X (1..b)  BY DEF Units, Column
<1>3. IsFiniteSet(1..b) /\ Cardinality(1..b) = b  BY FS_Interval
<1> HIDE DEF rest
<1>4. IsFiniteSet(rest \X (1..b)) /\ Cardinality(rest \X (1..b)) = Cardinality(rest) * b
  BY <1>1, <1>3, FS_Product
<1>5. Cardinality(Units(w, rest)) <= Cardinality(rest) * b  BY <1>2, <1>4, FS_Subset
<1>6. Total(w) = Cardinality(Units(w, rest)) + w[x] /\ Cardinality(Units(w, rest)) \in Nat
  BY TotalSplits DEF rest
<1>7. Cardinality(rest) * b \in Nat  BY <1>1
<1>8. QED  BY <1>1, <1>5, <1>6, <1>7

-----------------------------------------------------------------------------
(* The money.                                                              *)

\* What each client is about to add to the ledger while it is at one of the pcs of P.
Due(P) == [c \in Clients |-> IF pc[c] \in P THEN Price(c) ELSE 0]

LEMMA PendingIsDue ==
    ASSUME NEW P
    PROVE  Pending({c \in Clients : pc[c] \in P}) = Total(Due(P))
<1>1. [c \in Clients |-> IF c \in {d \in Clients : pc[d] \in P} THEN Price(c) ELSE 0] = Due(P)
  BY DEF Due
<1>2. QED  BY <1>1 DEF Pending

LEMMA DueType ==
    ASSUME TypeOK, NEW P, "idle" \notin P
    PROVE  Due(P) \in [Clients -> Nat] /\ IsFiniteSet(Clients) /\ Total(Due(P)) \in Nat
<1>1. \A c \in Clients : pc[c] \in P => Price(c) \in Nat  BY WellTyped
<1>2. Due(P) \in [Clients -> Nat]  BY <1>1 DEF Due
<1>3. \A c \in Clients : Due(P)[c] \in Nat  BY <1>2
<1>4. DOMAIN Due(P) = Clients  BY DEF Due
<1>5. Total(Due(P)) \in Nat
  BY <1>3, <1>4, PolicyAssumption, TotalIsUnits, UnitsFinite
<1>6. QED  BY <1>2, <1>5, PolicyAssumption

\* A call concerns one client.
LEMMA Frame ==
    ASSUME TypeOK, NEW c \in Clients, Step(c), NEW d \in Clients, d # c
    PROVE  pc'[d] = pc[d] /\ call'[d] = call[d]
BY DEF Step, Ask, UseCache, Miss, EstimateOnly, Block, BlockUnconfirmed, Admit, Execute,
   TruncateCache, FillCache, RecordAllow, Abort, Return, Goto, Finish, TypeOK

\* What is due changes with the client that takes a step.
LEMMA DueStep ==
    ASSUME TypeOK, TypeOK', NEW c \in Clients, Step(c), NEW P, "idle" \notin P
    PROVE  /\ Total(Due(P)') = Total(Due(P)) - Due(P)[c] + Due(P)'[c]
           /\ Total(Due(P)) \in Nat /\ Total(Due(P)') \in Nat
           /\ Due(P)[c] \in Nat /\ Due(P)'[c] \in Nat
<1>1. Due(P) \in [Clients -> Nat] /\ IsFiniteSet(Clients)  BY DueType
<1>2. Due(P)' \in [Clients -> Nat]
  <2>1. \A d \in Clients : pc'[d] # "idle" => Price(d)' \in Nat
    BY PolicyAssumption DEF TypeOK, Price, Query, CallRecord
  <2>2. QED  BY <2>1 DEF Due
<1>3. ASSUME NEW d \in Clients \ {c} PROVE Due(P)'[d] = Due(P)[d]
  <2>1. pc'[d] = pc[d] /\ call'[d] = call[d]  BY Frame
  <2>2. QED  BY <2>1 DEF Due, Price, Query
<1> HIDE DEF Due
<1>4. /\ Total(Due(P)') = Total(Due(P)) - Due(P)[c] + Due(P)'[c]
      /\ Total(Due(P)) \in Nat
  BY <1>1, <1>2, <1>3, TotalUpdate
<1>5. \A d \in Clients \ {c} : Due(P)[d] = Due(P)'[d]  BY <1>3
<1>6. Total(Due(P)') \in Nat  BY <1>1, <1>2, <1>5, TotalUpdate
<1>7. QED  BY <1>1, <1>2, <1>4, <1>6

\* What is due of a client between the caps and the ledger is its price.
LEMMA DueOf ==
    ASSUME NEW c \in Clients, NEW P
    PROVE  Due(P)[c] = IF pc[c] \in P THEN Price(c) ELSE 0
BY DEF Due

Quiet(c) ==
    \/ Ask(c) \/ UseCache(c) \/ Miss(c) \/ EstimateOnly(c) \/ Block(c) \/ BlockUnconfirmed(c)
    \/ TruncateCache(c) \/ FillCache(c) \/ Return(c)

\* Most steps move no money: nothing is billed, recorded or lost, and who is past the
\* caps stays there with the call it has.
LEMMA QuietStep ==
    ASSUME TypeOK, NEW c \in Clients, Quiet(c)
    PROVE  /\ UNCHANGED <<today, dayTotal, cycleTotal, paid, lost, aborts>>
           /\ \A P \in {InFlightPcs, BilledPcs} :
                 /\ pc'[c] \in P <=> pc[c] \in P
                 /\ pc[c] \in P => call'[c] = call[c]
<1> USE DEF TypeOK, Goto, Finish, ledgerVars, historyVars, InFlightPcs, BilledPcs
<1>1. CASE Ask(c)  BY <1>1 DEF Ask
<1>2. CASE UseCache(c) \/ EstimateOnly(c) \/ Block(c) \/ BlockUnconfirmed(c)
  BY <1>2, NotCharged DEF UseCache, EstimateOnly, Block, BlockUnconfirmed
<1>3. CASE Miss(c)  BY <1>3 DEF Miss
<1>4. CASE TruncateCache(c)  BY <1>4 DEF TruncateCache
<1>5. CASE FillCache(c)  BY <1>5 DEF FillCache
<1>6. CASE Return(c)  BY <1>6 DEF Return
<1>7. QED  BY <1>1, <1>2, <1>3, <1>4, <1>5, <1>6 DEF Quiet

LEMMA QuietDue ==
    ASSUME TypeOK, TypeOK', NEW c \in Clients, Quiet(c), NEW P \in {InFlightPcs, BilledPcs}
    PROVE  Total(Due(P)') = Total(Due(P))
<1>1. Due(P)'[c] = Due(P)[c]  BY QuietStep DEF Due, Price, Query
<1>2. Step(c)  BY DEF Quiet, Step
<1>3. "idle" \notin P  BY DEF InFlightPcs, BilledPcs
<1>4. QED  BY <1>1, <1>2, <1>3, DueStep

-----------------------------------------------------------------------------
(* How far concurrent calls can overshoot.                                 *)

\* Every call past the caps was within them alone.
Affordable ==
    \A c \in Clients : pc[c] \in InFlightPcs =>
        Price(c) <= SingleQueryCap /\ Price(c) <= DailyCap /\ Price(c) < EmergencyStop

LEMMA AffordableStep == TypeOK /\ Affordable /\ [Next]_vars => Affordable'
<1> SUFFICES ASSUME TypeOK, Affordable, [Next]_vars PROVE Affordable'
  OBVIOUS
<1>1. ASSUME NEW c \in Clients, Step(c), NEW d \in Clients, pc'[d] \in InFlightPcs
      PROVE  Price(d)' <= SingleQueryCap /\ Price(d)' <= DailyCap /\ Price(d)' < EmergencyStop
  <2>1. CASE d # c  BY <1>1, <2>1, Frame DEF Affordable, Price, Query
  <2>2. CASE d = c /\ pc[c] \in InFlightPcs
    <3>1. call'[c] = call[c]
      BY <1>1, <2>2 DEF Step, Ask, UseCache, Miss, EstimateOnly, Block, BlockUnconfirmed, Admit,
         Execute, TruncateCache, FillCache, RecordAllow, Abort, Return, Goto, InFlightPcs
    <3>2. QED  BY <2>2, <3>1 DEF Affordable, Price, Query
  <2>3. CASE d = c /\ pc[c] \notin InFlightPcs
    <3>1. Admit(c)
      BY <1>1, <2>3 DEF Step, Ask, UseCache, Miss, EstimateOnly, Block, BlockUnconfirmed,
         Execute, TruncateCache, FillCache, RecordAllow, Abort, Return, Goto, Finish,
         InFlightPcs, TypeOK
    <3>2. call' = call /\ pc[c] # "idle" /\ Violation(c) = "none"  BY <3>1 DEF Admit, Goto
    <3>3. /\ Price(c) <= SingleQueryCap /\ dayTotal[today] + Price(c) <= DailyCap
          /\ cycleTotal[CycleOf[today]] + Price(c) < EmergencyStop
      BY <3>2, Guardrails
    <3>4. Price(c) \in Nat /\ dayTotal[today] \in Nat /\ cycleTotal[CycleOf[today]] \in Nat
      BY <3>2, WellTyped
    <3>5. Price(c) <= DailyCap /\ Price(c) < EmergencyStop
      BY <3>3, <3>4, PolicyAssumption
    <3>6. QED  BY <2>3, <3>2, <3>3, <3>5 DEF Price, Query
  <2>4. QED  BY <2>1, <2>2, <2>3
<1>2. CASE Midnight \/ UNCHANGED vars
  BY <1>2 DEF Midnight, Affordable, Price, Query, vars, callVars
<1>3. QED  BY <1>1, <1>2 DEF Next, Affordable

Slack == (Cardinality(Clients) - 1) * SingleQueryCap
Flying == Total(Due(InFlightPcs))

\* OvershootBounded in terms of what is due.
Overshoot ==
    /\ dayTotal[today] + Flying <= DailyCap + Slack
    /\ (\E c \in Clients : pc[c] \in InFlightPcs)
          => cycleTotal[CycleOf[today]] + Flying < EmergencyStop + Slack

LEMMA SlackType == Slack \in Nat
<1>1. Cardinality(Clients) \in Nat /\ Cardinality(Clients) # 0
  BY PolicyAssumption, FS_CardinalityType, FS_EmptySet
<1>2. Cardinality(Clients) - 1 \in Nat  BY <1>1
<1>3. QED  BY <1>2, PolicyAssumption DEF Slack

\* One of the calls in flight counts with its price, the others with a cap each.
LEMMA FlyingBound ==
    ASSUME TypeOK, Affordable, NEW c \in Clients, pc[c] \in InFlightPcs
    PROVE  Flying <= Price(c) + Slack
<1>1. "idle" \notin InFlightPcs  BY DEF InFlightPcs
<1>2. Due(InFlightPcs) \in [Clients -> Nat] /\ IsFiniteSet(Clients)  BY <1>1, DueType
<1>3. \A d \in Clients : Due(InFlightPcs)[d] <= SingleQueryCap
  BY PolicyAssumption DEF Due, Affordable
<1>4. Due(InFlightPcs)[c] = Price(c)  BY DEF Due
<1>5. QED  BY <1>2, <1>3, <1>4, PolicyAssumption, TotalBound DEF Flying, Slack

LEMMA NothingFlies ==
    ASSUME TypeOK, \A c \in Clients : pc[c] \notin InFlightPcs
    PROVE  Flying = 0
<1>1. "idle" \notin InFlightPcs  BY DEF InFlightPcs
<1>2. Due(InFlightPcs) \in [Clients -> Nat]  BY <1>1, DueType
<1>3. \A c \in Clients : Due(InFlightPcs)[c] = 0  BY DEF Due
<1>4. QED  BY <1>2, <1>3, TotalZero DEF Flying

LEMMA FlyingStep ==
    ASSUME TypeOK, TypeOK', NEW c \in Clients, Step(c)
    PROVE  /\ Flying' = Flying - Due(InFlightPcs)[c] + Due(InFlightPcs)'[c]
           /\ Flying \in Nat /\ Flying' \in Nat
           /\ Due(InFlightPcs)[c] \in Nat /\ Due(InFlightPcs)'[c] \in Nat
<1>1. "idle" \notin InFlightPcs  BY DEF InFlightPcs
<1>2. /\ Total(Due(InFlightPcs)') = Total(Due(InFlightPcs)) - Due(InFlightPcs)[c] + Due(InFlightPcs)'[c]
      /\ Total(Due(InFlightPcs)) \in Nat /\ Total(Due(InFlightPcs)') \in Nat
      /\ Due(InFlightPcs)[c] \in Nat /\ Due(InFlightPcs)'[c] \in Nat
  BY <1>1, DueStep
<1>3. Flying' = Total(Due(InFlightPcs)') /\ Flying = Total(Due(InFlightPcs))  BY DEF Flying
<1>4. QED  BY <1>2, <1>3

LEMMA OvershootStep ==
    IInv /\ TypeOK' /\ Affordable /\ Affordable' /\ Overshoot /\ [Next]_vars => Overshoot'
<1> SUFFICES ASSUME IInv, TypeOK', Affordable, Affordable', Overshoot, [Next]_vars
             PROVE  Overshoot'
  OBVIOUS
<1>0. /\ TypeOK /\ "idle" \notin InFlightPcs /\ Flying \in Nat /\ Slack \in Nat
      /\ dayTotal[today] \in Nat /\ cycleTotal[CycleOf[today]] \in Nat
  BY DueType, SlackType, WellTyped DEF IInv, InFlightPcs, Flying
<1>1. ASSUME NEW c \in Clients, Quiet(c) PROVE Overshoot'
  <2>1. UNCHANGED <<today, dayTotal, cycleTotal>> /\ (pc'[c] \in InFlightPcs <=> pc[c] \in InFlightPcs)
    BY <1>0, <1>1, QuietStep
  <2>2. \A d \in Clients : pc'[d] \in InFlightPcs => pc[d] \in InFlightPcs
    BY <1>0, <1>1, <2>1, Frame DEF Quiet, Step
  <2>3. Flying' = Flying  BY <1>0, <1>1, QuietDue DEF Flying
  <2>4. QED  BY <2>1, <2>2, <2>3 DEF Overshoot
<1>2. ASSUME NEW c \in Clients, Admit(c) PROVE Overshoot'
  <2>1. /\ UNCHANGED <<today, dayTotal, cycleTotal, call>> /\ pc'[c] = "execute"
        /\ pc[c] # "idle" /\ Violation(c) = "none"
    BY <1>0, <1>2 DEF Admit, Goto, ledgerVars, TypeOK
  <2>2. Flying' <= Price(c)' + Slack
    <3>1. pc'[c] \in InFlightPcs  BY <2>1 DEF InFlightPcs
    <3>2. Due(InFlightPcs)' \in [Clients -> Nat]
      <4>1. \A d \in Clients : pc'[d] # "idle" => Price(d)' \in Nat
        BY PolicyAssumption DEF TypeOK, Price, Query, CallRecord
      <4>2. QED  BY <1>0, <4>1 DEF Due
    <3>3. \A d \in Clients : Due(InFlightPcs)'[d] <= SingleQueryCap
      BY PolicyAssumption DEF Due, Affordable
    <3>4. Due(InFlightPcs)'[c] = Price(c)'  BY <3>1 DEF Due
    <3>5. QED  BY <3>2, <3>3, <3>4, PolicyAssumption, TotalBound DEF Flying, Slack
  <2>3. Price(c)' = Price(c)  BY <2>1 DEF Price, Query
  <2>4. /\ dayTotal[today] + Price(c) <= DailyCap
        /\ cycleTotal[CycleOf[today]] + Price(c) < EmergencyStop
        /\ Price(c) \in Nat
    BY <1>0, <2>1, Guardrails, WellTyped
  <2>5. Flying' \in Nat
    <3>1. Step(c)  BY <1>2 DEF Step
    <3>2. QED  BY <1>0, <3>1, FlyingStep
  <2>6. QED  BY <1>0, <2>1, <2>2, <2>3, <2>4, <2>5, PolicyAssumption DEF Overshoot, Slack
<1>3. ASSUME NEW c \in Clients, Execute(c) \/ Abort(c) PROVE Overshoot'
  <2>1. /\ UNCHANGED <<today, dayTotal, cycleTotal, call>>
        /\ pc'[c] \in InFlightPcs => pc[c] \in InFlightPcs
    BY <1>0, <1>3 DEF Execute, Abort, Goto, ledgerVars, TypeOK, InFlightPcs
  <2>2. \A d \in Clients : pc'[d] \in InFlightPcs => pc[d] \in InFlightPcs
    BY <1>0, <1>3, <2>1, Frame DEF Step
  <2>3. Flying' <= Flying /\ Flying' \in Nat
    <3>1. Step(c)  BY <1>3 DEF Step
    <3>2. Due(InFlightPcs)'[c] <= Due(InFlightPcs)[c]
      <4>1. pc[c] # "idle" => Price(c) \in Nat  BY <1>0, WellTyped
      <4>2. QED  BY <1>0, <2>1, <4>1 DEF Due, Price, Query
    <3>3. QED  BY <1>0, <3>1, <3>2, FlyingStep
  <2>4. QED  BY <1>0, <2>1, <2>2, <2>3, PolicyAssumption DEF Overshoot
<1>4. ASSUME NEW c \in Clients, RecordAllow(c) PROVE Overshoot'
  <2>1. /\ UNCHANGED <<today, call>> /\ pc[c] = "record" /\ pc'[c] = "done"
        /\ dayTotal' = [dayTotal EXCEPT ![today] = @ + Price(c)]
        /\ cycleTotal' = [cycleTotal EXCEPT ![CycleOf[today]] = @ + Price(c)]
    BY <1>0, <1>4 DEF RecordAllow, Finish, AppendLedger, TypeOK
  <2>2. /\ dayTotal'[today] = dayTotal[today] + Price(c) /\ Price(c) \in Nat
        /\ cycleTotal'[CycleOf[today]] = cycleTotal[CycleOf[today]] + Price(c)
    BY <1>0, <2>1, WellTyped DEF TypeOK
  <2>3. \A d \in Clients : pc'[d] \in InFlightPcs => pc[d] \in InFlightPcs
    BY <1>0, <1>4, <2>1, Frame DEF Step, InFlightPcs
  <2>4. Flying' = Flying - Price(c) /\ Flying' \in Nat
    <3>1. Step(c)  BY <1>4 DEF Step
    <3>2. Due(InFlightPcs)'[c] = 0 /\ Due(InFlightPcs)[c] = Price(c)
      BY <2>1 DEF Due, InFlightPcs
    <3>3. QED  BY <1>0, <2>2, <3>1, <3>2, FlyingStep
  <2>5. QED  BY <1>0, <2>1, <2>2, <2>3, <2>4, PolicyAssumption DEF Overshoot
<1>5. CASE Midnight
  <2>1. /\ today' = today + 1 /\ today' \in Days
        /\ UNCHANGED <<dayTotal, cycleTotal, pc, call>>
    BY <1>0, <1>5 DEF Midnight, ledgerVars, callVars, TypeOK
  <2>2. CycleOf[today] <= CycleOf[today'] /\ CycleOf[today'] \in Cycles
    BY <1>0, <2>1, PolicyAssumption DEF TypeOK, Days, Cycles
  <2>3. dayTotal[today'] = 0  BY <2>1, <1>0 DEF IInv, FutureUncharged, TypeOK, Days
  <2>4. CycleOf[today'] = CycleOf[today] \/ cycleTotal[CycleOf[today']] = 0
    BY <2>2, <1>0, WellTyped DEF IInv, FutureUncharged
  <2>5. Flying' = Flying  BY <2>1 DEF Flying, Due, Price, Query
  <2>6. CASE \A c \in Clients : pc[c] \notin InFlightPcs
    <3>1. Flying = 0  BY <1>0, <2>6, NothingFlies
    <3>2. QED  BY <1>0, <2>1, <2>3, <2>5, <2>6, <3>1, PolicyAssumption DEF Overshoot, Slack
  <2>7. ASSUME NEW c \in Clients, pc[c] \in InFlightPcs PROVE Overshoot'
    <3>1. Flying <= Price(c) + Slack  BY <1>0, <2>7, FlyingBound
    <3>2. Price(c) <= DailyCap /\ Price(c) < EmergencyStop /\ Price(c) \in Nat
      BY <1>0, <2>7, WellTyped DEF Affordable
    <3>3. Slack' = Slack  BY DEF Slack
    <3>4. cycleTotal[CycleOf[today']] + Flying < EmergencyStop + Slack
      BY <1>0, <2>4, <2>7, <3>1, <3>2, PolicyAssumption DEF Overshoot
    <3>5. dayTotal[today'] + Flying <= DailyCap + Slack
      BY <1>0, <2>3, <3>1, <3>2, PolicyAssumption
    <3>6. QED  BY <2>1, <2>5, <3>3, <3>4, <3>5 DEF Overshoot
  <2>8. QED  BY <2>6, <2>7
<1>6. CASE UNCHANGED vars
  <2>1. UNCHANGED <<today, dayTotal, cycleTotal, pc, call>>
    BY <1>6 DEF vars, ledgerVars, callVars
  <2>2. Flying' = Flying  BY <2>1 DEF Flying, Due, Price, Query
  <2>3. QED  BY <2>1, <2>2 DEF Overshoot, Slack
<1>7. QED  BY <1>1, <1>2, <1>3, <1>4, <1>5, <1>6 DEF Next, Step, Quiet

\* Concurrent calls overshoot the daily cap and the emergency stop by at most one
\* single-query cap for each other process, for any number of processes, prices, policy
\* and calendar (_evaluate_guardrails without a reservation).
THEOREM OvershootIsBounded == Spec => []OvershootBounded
<1>1. Init => Affordable /\ Overshoot
  <2> SUFFICES ASSUME Init PROVE Affordable /\ Overshoot  OBVIOUS
  <2>1. TypeOK /\ \A c \in Clients : pc[c] \notin InFlightPcs
    BY InductiveInit DEF IInv, Init, InFlightPcs
  <2>2. Flying = 0 /\ dayTotal[today] = 0  BY <2>1, NothingFlies DEF Init, TypeOK
  <2>3. QED  BY <2>1, <2>2, SlackType, PolicyAssumption DEF Affordable, Overshoot
<1>2. IInv /\ IInv' /\ Affordable /\ Overshoot /\ [Next]_vars => (Affordable /\ Overshoot)'
  BY AffordableStep, OvershootStep DEF IInv
<1>3. Overshoot => OvershootBounded
  <2>1. InFlight = {c \in Clients : pc[c] \in InFlightPcs}  BY DEF InFlight
  <2>2. Pending(InFlight) = Flying  BY <2>1, PendingIsDue DEF Flying
  <2>3. InFlight # {} => \E c \in Clients : pc[c] \in InFlightPcs  BY <2>1
  <2>4. QED  BY <2>2, <2>3 DEF Overshoot, OvershootBounded, Slack
<1>4. QED  BY <1>1, <1>2, <1>3, Invariance, PTL DEF Spec

-----------------------------------------------------------------------------
(* Every billed unit is somewhere.                                         *)

Bill == [q \in Queries |-> paid[q] * Cost[q]]
Owed == Total(Due(BilledPcs))

LEMMA BillType ==
    ASSUME TypeOK
    PROVE  /\ Bill \in [Queries -> Nat] /\ IsFiniteSet(Queries)
           /\ dayTotal \in [Days -> Nat] /\ IsFiniteSet(Days)
<1>1. \A q \in Queries : paid[q] * Cost[q] \in Nat  BY PolicyAssumption DEF TypeOK
<1>2. IsFiniteSet(Days)  BY FS_Interval, PolicyAssumption DEF Days
<1>3. QED  BY <1>1, <1>2, PolicyAssumption DEF Bill, TypeOK

LEMMA OwedStep ==
    ASSUME TypeOK, TypeOK', NEW c \in Clients, Step(c)
    PROVE  /\ Owed' = Owed - Due(BilledPcs)[c] + Due(BilledPcs)'[c]
           /\ Owed \in Nat /\ Owed' \in Nat
           /\ Due(BilledPcs)[c] \in Nat /\ Due(BilledPcs)'[c] \in Nat
<1>1. "idle" \notin BilledPcs  BY DEF BilledPcs
<1>2. /\ Total(Due(BilledPcs)') = Total(Due(BilledPcs)) - Due(BilledPcs)[c] + Due(BilledPcs)'[c]
      /\ Total(Due(BilledPcs)) \in Nat /\ Total(Due(BilledPcs)') \in Nat
      /\ Due(BilledPcs)[c] \in Nat /\ Due(BilledPcs)'[c] \in Nat
  BY <1>1, DueStep
<1>3. Owed' = Total(Due(BilledPcs)') /\ Owed = Total(Due(BilledPcs))  BY DEF Owed
<1>4. QED  BY <1>2, <1>3

\* A total that one amount x of w is added b to.
LEMMA TotalAdds ==
    ASSUME NEW D, IsFiniteSet(D), NEW w \in [D -> Nat], NEW x \in D, NEW b \in Nat,
           NEW v \in [D -> Nat], v[x] = w[x] + b, \A y \in D \ {x} : v[y] = w[y]
    PROVE  Total(v) = Total(w) + b /\ Total(w) \in Nat
<1>1. Total(v) = Total(w) - w[x] + v[x] /\ Total(w) \in Nat  BY TotalUpdate
<1>2. w[x] \in Nat  OBVIOUS
<1>3. QED  BY <1>1, <1>2

\* SpendAccounted in terms of what is due.
Accounted == Total(Bill) = Total(dayTotal) + Owed + lost

LEMMA AccountedStep == TypeOK /\ TypeOK' /\ Accounted /\ [Next]_vars => Accounted'
<1> SUFFICES ASSUME TypeOK, TypeOK', Accounted, [Next]_vars PROVE Accounted'
  OBVIOUS
<1>0. /\ Bill \in [Queries -> Nat] /\ IsFiniteSet(Queries)
      /\ dayTotal \in [Days -> Nat] /\ IsFiniteSet(Days)
  BY BillType
<1>1. ASSUME NEW c \in Clients, Quiet(c) PROVE Accounted'
  <2>1. UNCHANGED <<dayTotal, paid, lost>>  BY <1>1, QuietStep
  <2>2. Owed' = Owed  BY <1>1, QuietDue DEF Owed
  <2>3. Bill' = Bill  BY <2>1 DEF Bill
  <2>4. QED  BY <2>1, <2>2, <2>3 DEF Accounted
<1>2. ASSUME NEW c \in Clients, Admit(c) PROVE Accounted'
  <2>1. /\ UNCHANGED <<dayTotal, paid, lost>>
        /\ pc[c] = "evaluate" /\ pc'[c] = "execute"
    BY <1>2 DEF Admit, Goto, ledgerVars, TypeOK
  <2>2. Step(c)  BY <1>2 DEF Step
  <2>3. Due(BilledPcs)[c] = 0 /\ Due(BilledPcs)'[c] = 0  BY <2>1 DEF Due, BilledPcs
  <2>4. Owed' = Owed  BY <2>2, <2>3, OwedStep
  <2>5. Bill' = Bill  BY <2>1 DEF Bill
  <2>6. QED  BY <2>1, <2>4, <2>5 DEF Accounted
<1>3. ASSUME NEW c \in Clients, Execute(c) PROVE Accounted'
  <2>1. /\ UNCHANGED <<dayTotal, lost, call>> /\ pc[c] = "execute"
        /\ pc'[c] \in BilledPcs /\ paid' = [paid EXCEPT ![Query(c)] = @ + 1]
    BY <1>3 DEF Execute, Goto, ledgerVars, TypeOK, BilledPcs
  <2>2. Step(c)  BY <1>3 DEF Step
  <2>3. Query(c) \in Queries /\ Price(c) \in Nat /\ Price(c) = Cost[Query(c)]
    BY <2>1, WellTyped, PolicyAssumption DEF TypeOK, Query, CallRecord, Price
  <2>4. Due(BilledPcs)[c] = 0 /\ Due(BilledPcs)'[c] = Price(c)
    BY <2>1 DEF Due, BilledPcs, Price, Query
  <2>5. Owed' = Owed + Price(c) /\ Owed \in Nat  BY <2>2, <2>3, <2>4, OwedStep
  <2>6. Bill' \in [Queries -> Nat]
    <3>1. \A q \in Queries : paid'[q] * Cost[q] \in Nat  BY PolicyAssumption DEF TypeOK
    <3>2. QED  BY <3>1 DEF Bill
  <2>7. Bill'[Query(c)] = Bill[Query(c)] + Price(c)
    <3>1. paid'[Query(c)] = paid[Query(c)] + 1 /\ paid[Query(c)] \in Nat
      BY <2>1, <2>3 DEF TypeOK
    <3>2. (paid[Query(c)] + 1) * Price(c) = paid[Query(c)] * Price(c) + Price(c)
      BY <3>1, <2>3
    <3>3. QED  BY <2>3, <3>1, <3>2 DEF Bill
  <2>8. \A q \in Queries \ {Query(c)} : Bill'[q] = Bill[q]
    BY <2>1 DEF Bill, TypeOK
  <2>9. Total(Bill') = Total(Bill) + Price(c) /\ Total(Bill) \in Nat
    <3> HIDE DEF Bill
    <3>1. QED  BY <1>0, <2>3, <2>6, <2>7, <2>8, TotalAdds
  <2>10. Total(dayTotal) \in Nat
    BY <1>0, TotalIsUnits, UnitsFinite
  <2>11. QED  BY <2>1, <2>3, <2>5, <2>9, <2>10 DEF Accounted, TypeOK
<1>4. ASSUME NEW c \in Clients, RecordAllow(c) PROVE Accounted'
  <2>1. /\ UNCHANGED <<paid, lost, call>> /\ pc[c] = "record" /\ pc'[c] = "done"
        /\ dayTotal' = [dayTotal EXCEPT ![today] = @ + Price(c)]
    BY <1>4 DEF RecordAllow, Finish, AppendLedger, TypeOK, historyVars
  <2>2. Step(c)  BY <1>4 DEF Step
  <2>3. Price(c) \in Nat  BY <2>1, WellTyped
  <2>4. Due(BilledPcs)[c] = Price(c) /\ Due(BilledPcs)'[c] = 0
    BY <2>1 DEF Due, BilledPcs
  <2>5. Owed = Owed' + Price(c) /\ Owed' \in Nat  BY <2>2, <2>3, <2>4, OwedStep
  <2>6. /\ dayTotal' \in [Days -> Nat] /\ today \in Days
        /\ dayTotal'[today] = dayTotal[today] + Price(c)
        /\ \A d \in Days \ {today} : dayTotal'[d] = dayTotal[d]
    BY <2>1, <2>3 DEF TypeOK
  <2>7. Total(dayTotal') = Total(dayTotal) + Price(c) /\ Total(dayTotal) \in Nat
    BY <1>0, <2>3, <2>6, TotalAdds
  <2>8. Bill' = Bill  BY <2>1 DEF Bill
  <2>9. QED  BY <2>1, <2>3, <2>5, <2>7, <2>8 DEF Accounted, TypeOK
<1>5. ASSUME NEW c \in Clients, Abort(c) PROVE Accounted'
  <2>1. /\ UNCHANGED <<dayTotal, paid, call>> /\ pc[c] # "idle" /\ pc'[c] = "done"
        /\ lost' = IF pc[c] \in BilledPcs THEN lost + Price(c) ELSE lost
    BY <1>5 DEF Abort, ledgerVars, TypeOK
  <2>2. Step(c)  BY <1>5 DEF Step
  <2>3. Price(c) \in Nat  BY <2>1, WellTyped
  <2>4. Due(BilledPcs)'[c] = 0 /\ lost' = lost + Due(BilledPcs)[c]
    BY <2>1, <2>3 DEF Due, BilledPcs, TypeOK
  <2>5. Owed + lost = Owed' + lost'  BY <2>2, <2>4, OwedStep DEF TypeOK
  <2>6. Total(dayTotal) \in Nat /\ Owed \in Nat /\ Owed' \in Nat
    BY <1>0, <2>2, OwedStep, TotalIsUnits, UnitsFinite
  <2>7. Bill' = Bill  BY <2>1 DEF Bill
  <2>8. QED  BY <2>1, <2>5, <2>6, <2>7 DEF Accounted, TypeOK
<1>6. CASE Midnight \/ UNCHANGED vars
  <2>1. UNCHANGED <<dayTotal, paid, lost, pc, call>>
    BY <1>6 DEF Midnight, vars, ledgerVars, callVars, historyVars
  <2>2. Owed' = Owed /\ Bill' = Bill  BY <2>1 DEF Owed, Due, Price, Query, Bill
  <2>3. QED  BY <2>1, <2>2 DEF Accounted
<1>7. QED  BY <1>1, <1>2, <1>3, <1>4, <1>5, <1>6 DEF Next, Step, Quiet

\* What the provider billed is recorded, about to be recorded, or was lost with an aborted
\* call, unit by unit: no ALLOW record is missing, doubled or wrong (safe_query, ledger.append).
THEOREM SpendIsAccounted == Spec => []SpendAccounted
<1>1. Init => Accounted
  <2> SUFFICES ASSUME Init PROVE Accounted  OBVIOUS
  <2>1. TypeOK  BY InductiveInit DEF IInv
  <2>2. Bill \in [Queries -> Nat] /\ dayTotal \in [Days -> Nat]  BY <2>1, BillType
  <2>3. (\A q \in Queries : Bill[q] = 0) /\ \A d \in Days : dayTotal[d] = 0
    BY PolicyAssumption DEF Init, Bill
  <2>4. /\ Due(BilledPcs) \in [Clients -> Nat]
        /\ \A c \in Clients : Due(BilledPcs)[c] = 0
    BY DEF Init, Due, BilledPcs
  <2>5. Total(Bill) = 0  BY <2>2, <2>3, TotalZero
  <2>6. Total(dayTotal) = 0  BY <2>2, <2>3, TotalZero
  <2>7. Owed = 0  BY <2>4, TotalZero DEF Owed
  <2>8. QED  BY <2>5, <2>6, <2>7 DEF Accounted, Init
<1>2. Accounted => SpendAccounted
  BY PendingIsDue DEF Accounted, SpendAccounted, Owed, Bill
<1>3. QED  BY <1>1, <1>2, AccountedStep, TypeCorrect, PTL DEF Spec

-----------------------------------------------------------------------------
(* What the cache saves.                                                   *)

\* The clients that are at one of the pcs of P with a call for q.
Holders(q, P) == {c \in Clients : pc[c] \in P /\ Query(c) = q}
Asking == {"evaluate", "execute"}
Filling == {"truncate"}

LEMMA HoldersFinite ==
    ASSUME NEW q, NEW P
    PROVE  IsFiniteSet(Holders(q, P)) /\ Cardinality(Holders(q, P)) \in Nat
<1>1. Holders(q, P) \subseteq Clients  BY DEF Holders
<1>2. QED  BY <1>1, PolicyAssumption, FS_Subset, FS_CardinalityType

\* A client is either before the bill or filling the cache.
LEMMA HoldersDisjoint ==
    ASSUME NEW q
    PROVE  Cardinality(Holders(q, Asking)) + Cardinality(Holders(q, Filling)) <= Cardinality(Clients)
<1>1. Holders(q, Asking) \cap Holders(q, Filling) = {}  BY DEF Holders, Asking, Filling
<1>2. Holders(q, Asking) \cup Holders(q, Filling) \subseteq Clients  BY DEF Holders
<1> DEFINE A == Holders(q, Asking)
           F == Holders(q, Filling)
<1>3. /\ IsFiniteSet(A) /\ Cardinality(A) \in Nat
      /\ IsFiniteSet(F) /\ Cardinality(F) \in Nat
  BY HoldersFinite
<1> HIDE DEF A, F
<1>4. Cardinality(A \cup F) = Cardinality(A) + Cardinality(F) - Cardinality(A \cap F)
  BY <1>3, FS_Union
<1>5. Cardinality(A \cap F) = 0  BY <1>1, FS_EmptySet DEF A, F
<1>6. Cardinality(A \cup F) <= Cardinality(Clients)
  BY <1>2, PolicyAssumption, FS_Subset DEF A, F
<1>7. Cardinality(A) + Cardinality(F) <= Cardinality(Clients)  BY <1>3, <1>4, <1>5, <1>6
<1>8. QED  BY <1>7 DEF A, F

\* A set that gains, loses or keeps one element.
LEMMA OneElement ==
    ASSUME NEW S, NEW R, IsFiniteSet(S), NEW x, R \ {x} = S \ {x}
    PROVE  /\ x \in R => Cardinality(R) <= Cardinality(S) + 1
           /\ x \notin R => Cardinality(R) <= Cardinality(S)
           /\ x \notin R /\ x \in S => Cardinality(R) + 1 = Cardinality(S)
           /\ x \in R /\ x \notin S => Cardinality(R) = Cardinality(S) + 1
           /\ (x \in R <=> x \in S) => R = S
           /\ Cardinality(S) <= Cardinality(R) + 1
<1>1. CASE x \in R <=> x \in S
  <2>1. R = S  BY <1>1
  <2>2. Cardinality(S) \in Nat  BY FS_CardinalityType
  <2>3. QED  BY <1>1, <2>1, <2>2
<1>2. CASE x \in R /\ x \notin S
  <2>1. R = S \cup {x}  BY <1>2
  <2>2. Cardinality(R) = Cardinality(S) + 1 /\ Cardinality(S) \in Nat
    BY <1>2, <2>1, FS_AddElement, FS_CardinalityType
  <2>3. QED  BY <1>2, <2>2
<1>3. CASE x \notin R /\ x \in S
  <2>1. R = S \ {x}  BY <1>3
  <2>2. Cardinality(R) = Cardinality(S) - 1 /\ Cardinality(S) \in Nat
    BY <1>3, <2>1, FS_RemoveElement, FS_CardinalityType
  <2>3. QED  BY <1>3, <2>2
<1>4. QED  BY <1>1, <1>2, <1>3

\* Only the client that takes a step joins or leaves.
LEMMA HoldersStep ==
    ASSUME TypeOK, NEW c \in Clients, Step(c), NEW q, NEW P
    PROVE  Holders(q, P)' \ {c} = Holders(q, P) \ {c}
<1>1. \A d \in Clients : d # c => pc'[d] = pc[d] /\ call'[d] = call[d]  BY Frame
<1>2. QED  BY <1>1 DEF Holders, Query

AlwaysCached(q) == \A a \in Calls : a.query = q => a.readsCache /\ a.writesCache

\* Before the first cache file every bill belongs to a process about to write one or
\* to an aborted call; afterwards only those that missed before can still be billed.
Thrift(q) ==
    IF cache[q] = "absent"
    THEN paid[q] <= Cardinality(Holders(q, Filling)) + aborts
    ELSE paid[q] + Cardinality(Holders(q, Asking)) <= Cardinality(Clients) + aborts

LEMMA ThriftStep ==
    ASSUME TypeOK, TypeOK', NEW q \in Queries, AlwaysCached(q), Thrift(q), [Next]_vars
    PROVE  Thrift(q)'
<1> DEFINE A == Holders(q, Asking)
           F == Holders(q, Filling)
           N == Cardinality(Clients)
<1>0. /\ IsFiniteSet(A) /\ Cardinality(A) \in Nat /\ IsFiniteSet(F) /\ Cardinality(F) \in Nat
      /\ N \in Nat /\ Cardinality(A) + Cardinality(F) <= N
      /\ paid[q] \in Nat /\ aborts \in Nat
  BY HoldersFinite, HoldersDisjoint, PolicyAssumption, FS_CardinalityType DEF TypeOK
<1>00. IsFiniteSet(A') /\ Cardinality(A') \in Nat /\ IsFiniteSet(F') /\ Cardinality(F') \in Nat
  <2>1. A' \subseteq Clients /\ F' \subseteq Clients  BY DEF Holders
  <2>2. QED  BY <2>1, PolicyAssumption, FS_Subset, FS_CardinalityType
<1>a. IF cache[q] = "absent"
      THEN paid[q] <= Cardinality(F) + aborts
      ELSE paid[q] + Cardinality(A) <= N + aborts
  BY DEF Thrift
<1>b. ASSUME IF cache'[q] = "absent"
             THEN paid'[q] <= Cardinality(F') + aborts'
             ELSE paid'[q] + Cardinality(A') <= N + aborts'
      PROVE  Thrift(q)'
  BY <1>b DEF Thrift
<1>1. ASSUME NEW c \in Clients, Step(c) PROVE Thrift(q)'
  <2>1. A' \ {c} = A \ {c} /\ F' \ {c} = F \ {c}  BY <1>1, HoldersStep
  <2>2. /\ c \in A <=> pc[c] \in Asking /\ Query(c) = q
        /\ c \in F <=> pc[c] \in Filling /\ Query(c) = q
        /\ c \in A' <=> pc'[c] \in Asking /\ Query(c)' = q
        /\ c \in F' <=> pc'[c] \in Filling /\ Query(c)' = q
    BY DEF Holders
  <2> HIDE DEF A, F
  <2>3. /\ c \notin A' => Cardinality(A') <= Cardinality(A)
        /\ c \notin A' /\ c \in A => Cardinality(A') + 1 = Cardinality(A)
        /\ (c \in A' <=> c \in A) => A' = A
    BY <1>0, <2>1, OneElement
  <2>4. /\ (c \in F' <=> c \in F) => F' = F
        /\ c \in F' /\ c \notin F => Cardinality(F') = Cardinality(F) + 1
        /\ Cardinality(F) <= Cardinality(F') + 1
    BY <1>0, <2>1, OneElement
  <2>5. CASE Ask(c) \/ UseCache(c) \/ EstimateOnly(c) \/ Block(c) \/ BlockUnconfirmed(c)
             \/ RecordAllow(c) \/ Return(c)
    <3>1. /\ UNCHANGED <<cache, paid, aborts>>
          /\ pc[c] \notin Filling /\ pc'[c] \notin Filling /\ pc'[c] \notin Asking
      BY <2>5 DEF Ask, UseCache, EstimateOnly, Block, BlockUnconfirmed, RecordAllow, Return,
         Goto, Finish, historyVars, TypeOK, Asking, Filling
    <3>2. F' = F /\ Cardinality(A') <= Cardinality(A)  BY <2>2, <2>3, <2>4, <3>1
    <3>3. QED  BY <1>0, <1>00, <1>a, <1>b, <3>1, <3>2
  <2>6. CASE Miss(c)
    <3>1. /\ UNCHANGED <<cache, paid, aborts, call>> /\ pc[c] = "lookup" /\ pc'[c] = "evaluate"
          /\ call[c].readsCache => cache[Query(c)] = "absent"
      BY <2>6 DEF Miss, Goto, historyVars, TypeOK
    <3>2. call[c] \in Calls  BY <3>1 DEF TypeOK
    <3>3. Query(c) = q => cache[q] = "absent"
      BY <3>1, <3>2 DEF AlwaysCached, Query
    <3>4. Query(c)' = Query(c)  BY <3>1 DEF Query
    <3>5. F' = F /\ (Query(c) # q => A' = A)  BY <2>2, <2>3, <2>4, <3>1, <3>4 DEF Filling
    <3>6. QED  BY <1>a, <1>b, <3>1, <3>3, <3>5
  <2>7. CASE Admit(c)
    <3>1. /\ UNCHANGED <<cache, paid, aborts, call>>
          /\ pc[c] = "evaluate" /\ pc'[c] = "execute"
      BY <2>7 DEF Admit, Goto, TypeOK
    <3>2. Query(c)' = Query(c)  BY <3>1 DEF Query
    <3>3. F' = F /\ A' = A  BY <2>2, <2>3, <2>4, <3>1, <3>2 DEF Filling, Asking
    <3>4. QED  BY <1>a, <1>b, <3>1, <3>3
  <2>8. CASE Execute(c)
    <3>1. /\ UNCHANGED <<cache, aborts, call>> /\ pc[c] = "execute"
          /\ pc'[c] = IF call[c].writesCache THEN "truncate" ELSE "record"
          /\ paid' = [paid EXCEPT ![Query(c)] = @ + 1]
      BY <2>8 DEF Execute, Goto, TypeOK
    <3>2. call[c] \in Calls /\ Query(c)' = Query(c)  BY <3>1 DEF TypeOK, Query
    <3>3. CASE Query(c) = q
      <4>1. pc'[c] = "truncate" /\ paid'[q] = paid[q] + 1
        BY <3>1, <3>2, <3>3 DEF AlwaysCached, Query, TypeOK
      <4>2. c \in A /\ c \notin A' /\ c \notin F /\ c \in F'
        BY <2>2, <3>1, <3>2, <3>3, <4>1 DEF Asking, Filling
      <4>3. Cardinality(A') + 1 = Cardinality(A) /\ Cardinality(F') = Cardinality(F) + 1
        BY <2>3, <2>4, <4>2
      <4>4. QED  BY <1>0, <1>00, <1>a, <1>b, <3>1, <4>1, <4>3
    <3>4. CASE Query(c) # q
      <4>1. paid'[q] = paid[q]  BY <3>1, <3>4 DEF TypeOK
      <4>2. F' = F /\ A' = A  BY <2>2, <2>3, <2>4, <3>2, <3>4
      <4>3. QED  BY <1>a, <1>b, <3>1, <4>1, <4>2
    <3>5. QED  BY <3>3, <3>4
  <2>9. CASE TruncateCache(c) \/ FillCache(c)
    <3>1. /\ UNCHANGED <<paid, aborts, call>>
          /\ pc[c] \notin Asking /\ pc'[c] \notin Asking
          /\ (cache'[q] = cache[q] /\ Query(c) # q) \/ cache'[q] # "absent"
      BY <2>9 DEF TruncateCache, FillCache, Goto, historyVars, TypeOK, Asking
    <3>2. A' = A  BY <2>2, <2>3, <3>1
    <3>3. CASE Query(c) # q
      <4>1. F' = F  BY <2>2, <2>4, <3>1, <3>3 DEF Query
      <4>2. QED  BY <1>0, <1>a, <1>b, <3>1, <3>2, <3>3, <4>1
    <3>4. CASE cache'[q] # "absent"
      <4>1. paid[q] + Cardinality(A) <= N + aborts  BY <1>0, <1>a
      <4>2. QED  BY <1>b, <3>1, <3>2, <3>4, <4>1
    <3>5. QED  BY <3>1, <3>3, <3>4
  <2>10. CASE Abort(c)
    <3>1. UNCHANGED <<cache, paid, call>> /\ pc'[c] = "done" /\ aborts' = aborts + 1
      BY <2>10 DEF Abort, TypeOK
    <3>2. c \notin A'  BY <2>2, <3>1 DEF Asking
    <3>3. Cardinality(A') <= Cardinality(A) /\ Cardinality(F) <= Cardinality(F') + 1
      BY <2>3, <2>4, <3>2
    <3>4. QED  BY <1>0, <1>00, <1>a, <1>b, <3>1, <3>3
  <2>11. QED  BY <1>1, <2>5, <2>6, <2>7, <2>8, <2>9, <2>10 DEF Step
<1>2. CASE Midnight \/ UNCHANGED vars
  BY <1>2 DEF Midnight, vars, callVars, historyVars, Thrift, Holders, Query
<1>3. QED  BY <1>1, <1>2 DEF Next

\* A query that every call reads from the cache and writes to it is billed at most once per
\* process and once more per aborted call, for any number of processes and calls.
THEOREM PaidIsBounded == Spec => []PaidBounded
<1> DEFINE Thrifty == \A q \in Queries : AlwaysCached(q) => Thrift(q)
<1>1. Init => Thrifty
  BY HoldersFinite, FS_CardinalityType DEF Init, Thrift
<1>2. TypeOK /\ TypeOK' /\ Thrifty /\ [Next]_vars => Thrifty'
  <2> SUFFICES ASSUME TypeOK, TypeOK', Thrifty, [Next]_vars,
                      NEW q \in Queries, AlwaysCached(q)
               PROVE  Thrift(q)'
    BY DEF AlwaysCached
  <2>1. Thrift(q)  OBVIOUS
  <2>2. QED  BY <2>1, ThriftStep
<1>3. TypeOK /\ Thrifty => PaidBounded
  <2> SUFFICES ASSUME TypeOK, Thrifty, NEW q \in Queries, AlwaysCached(q)
               PROVE  paid[q] <= Cardinality(Clients) + aborts
    BY DEF PaidBounded, AlwaysCached
  <2>1. /\ Cardinality(Holders(q, Asking)) \in Nat /\ Cardinality(Holders(q, Filling)) \in Nat
        /\ Cardinality(Holders(q, Asking)) + Cardinality(Holders(q, Filling)) <= Cardinality(Clients)
        /\ Cardinality(Clients) \in Nat /\ paid[q] \in Nat /\ aborts \in Nat
    BY HoldersFinite, HoldersDisjoint, PolicyAssumption, FS_CardinalityType DEF TypeOK
  <2>2. Thrift(q)  OBVIOUS
  <2>3. QED  BY <2>1, <2>2 DEF Thrift
<1> HIDE DEF Thrifty
<1>4. QED  BY <1>1, <1>2, <1>3, TypeCorrect, PTL DEF Spec

-----------------------------------------------------------------------------
(* Ordered enumerations.                                                   *)

\* A set of pairs that orders the members of S strictly and totally.
Orders(S, before) ==
    /\ \A x \in S : <<x, x>> \notin before
    /\ \A x, y \in S : x = y \/ <<x, y>> \in before \/ <<y, x>> \in before
    /\ \A x, y, z \in S : <<x, y>> \in before /\ <<y, z>> \in before => <<x, z>> \in before

\* Who comes earlier has fewer before it.
LEMMA AheadGrows ==
    ASSUME NEW S, IsFiniteSet(S), NEW before, Orders(S, before),
           NEW x \in S, NEW y \in S, <<x, y>> \in before
    PROVE  /\ Cardinality(Ahead(S, before, x)) \in Nat
           /\ Cardinality(Ahead(S, before, y)) \in Nat
           /\ Cardinality(Ahead(S, before, x)) < Cardinality(Ahead(S, before, y))
<1>1. Ahead(S, before, x) \subseteq S /\ Ahead(S, before, y) \subseteq S  BY DEF Ahead
<1>2. IsFiniteSet(Ahead(S, before, x)) /\ IsFiniteSet(Ahead(S, before, y))  BY <1>1, FS_Subset
<1>3. Ahead(S, before, x) \subseteq Ahead(S, before, y)  BY DEF Ahead, Orders
<1>4. x \in Ahead(S, before, y) /\ x \notin Ahead(S, before, x)  BY DEF Ahead, Orders
<1>5. Cardinality(Ahead(S, before, x)) <= Cardinality(Ahead(S, before, y))
      /\ (Cardinality(Ahead(S, before, x)) = Cardinality(Ahead(S, before, y))
            => Ahead(S, before, x) = Ahead(S, before, y))
  BY <1>2, <1>3, FS_Subset
<1>6. QED  BY <1>2, <1>4, <1>5, FS_CardinalityType

\* The i-th element has i - 1 before it, and every member has a place.
LEMMA InOrderPlaces ==
    ASSUME NEW S, IsFiniteSet(S), NEW before, Orders(S, before)
    PROVE  /\ Cardinality(S) \in Nat
           /\ \A i \in 1..Cardinality(S) :
                /\ InOrder(S, before)[i] \in S
                /\ Cardinality(Ahead(S, before, InOrder(S, before)[i])) = i - 1
           /\ \A x \in S : \E i \in 1..Cardinality(S) : InOrder(S, before)[i] = x
<1> DEFINE n == Cardinality(S)
           place == [x \in S |-> Cardinality(Ahead(S, before, x)) + 1]
<1>1. n \in Nat  BY FS_CardinalityType
<1>2. \A x \in S : place[x] \in 1..n
  <2> SUFFICES ASSUME NEW x \in S PROVE place[x] \in 1..n  OBVIOUS
  <2>1. Ahead(S, before, x) \subseteq S \ {x}  BY DEF Ahead, Orders
  <2>2. IsFiniteSet(S \ {x}) /\ Cardinality(S \ {x}) = n - 1  BY FS_RemoveElement
  <2>3. IsFiniteSet(Ahead(S, before, x)) /\ Cardinality(Ahead(S, before, x)) <= n - 1
    BY <2>1, <2>2, FS_Subset
  <2>4. Cardinality(Ahead(S, before, x)) \in Nat  BY <2>3, FS_CardinalityType
  <2>5. QED  BY <1>1, <2>3, <2>4
<1>3. \A x, y \in S : place[x] = place[y] => x = y
  <2> SUFFICES ASSUME NEW x \in S, NEW y \in S, place[x] = place[y], x # y PROVE FALSE  OBVIOUS
  <2>1. CASE <<x, y>> \in before  BY <2>1, AheadGrows
  <2>2. CASE <<y, x>> \in before  BY <2>2, AheadGrows
  <2>3. QED  BY <2>1, <2>2 DEF Orders
<1>4. place \in Injection(S, 1..n)  BY <1>2, <1>3 DEF Injection, IsInjective
<1>5. IsFiniteSet(1..n) /\ Cardinality(1..n) = n  BY <1>1, FS_Interval
<1>6. place \in Surjection(S, 1..n)  BY <1>4, <1>5, FS_Injection
<1>7. \A i \in 1..n : \E x \in S : place[x] = i  BY <1>6 DEF Surjection
<1>8. \A i \in 1..n : \E x \in S : Cardinality(Ahead(S, before, x)) = i - 1
  <2> SUFFICES ASSUME NEW i \in 1..n PROVE \E x \in S : Cardinality(Ahead(S, before, x)) = i - 1
    OBVIOUS
  <2>1. PICK x \in S : place[x] = i  BY <1>7
  <2>2. Cardinality(Ahead(S, before, x)) \in Nat
    BY FS_Subset, FS_CardinalityType DEF Ahead
  <2>3. QED  BY <2>1, <2>2
<1>9. \A i \in 1..n : InOrder(S, before)[i] =
                        CHOOSE x \in S : Cardinality(Ahead(S, before, x)) = i - 1
  BY DEF InOrder, Ahead
<1>10. \A i \in 1..n : /\ InOrder(S, before)[i] \in S
                       /\ Cardinality(Ahead(S, before, InOrder(S, before)[i])) = i - 1
  BY <1>8, <1>9
<1>11. ASSUME NEW x \in S PROVE \E i \in 1..n : InOrder(S, before)[i] = x
  <2>1. place[x] \in 1..n  BY <1>2
  <2>2. /\ InOrder(S, before)[place[x]] \in S
        /\ Cardinality(Ahead(S, before, InOrder(S, before)[place[x]])) = place[x] - 1
    BY <1>10, <2>1
  <2>3. place[InOrder(S, before)[place[x]]] = place[x]
    BY <1>1, <2>1, <2>2
  <2>4. QED  BY <1>3, <2>1, <2>2, <2>3
<1>12. QED  BY <1>1, <1>10, <1>11

\* So the sequence is one, without repeats, in the order.
LEMMA InOrderFacts ==
    ASSUME NEW S, IsFiniteSet(S), NEW before, Orders(S, before)
    PROVE  /\ InOrder(S, before) \in Seq(S)
           /\ Len(InOrder(S, before)) = Cardinality(S)
           /\ DOMAIN InOrder(S, before) = 1..Cardinality(S)
           /\ \A x \in S : \E i \in DOMAIN InOrder(S, before) : InOrder(S, before)[i] = x
           /\ \A i, j \in DOMAIN InOrder(S, before) :
                i < j => <<InOrder(S, before)[i], InOrder(S, before)[j]>> \in before
<1> DEFINE o == InOrder(S, before)
           n == Cardinality(S)
<1>1. /\ n \in Nat
      /\ \A i \in 1..n : o[i] \in S /\ Cardinality(Ahead(S, before, o[i])) = i - 1
      /\ \A x \in S : \E i \in 1..n : o[i] = x
  BY InOrderPlaces
<1>2. o \in [1..n -> S]
  <2>1. \E e : InOrder(S, before) = [i \in 1..Cardinality(S) |-> e[i]]
    <3> DEFINE e == [i \in 1..Cardinality(S) |->
                        CHOOSE x \in S : Cardinality(Ahead(S, before, x)) = i - 1]
    <3>1. InOrder(S, before) = e  BY Zenon DEF InOrder
    <3>2. e = [i \in 1..Cardinality(S) |-> e[i]]  OBVIOUS
    <3> HIDE DEF e
    <3>3. QED  BY <3>1, <3>2
  <2>2. PICK e : o = [i \in 1..n |-> e[i]]  BY <2>1
  <2> HIDE DEF o, n
  <2>3. \A i \in 1..n : e[i] \in S  BY <1>1, <2>2
  <2>4. QED  BY <2>2, <2>3
<1> HIDE DEF o, n
<1>3. o \in Seq(S) /\ Len(o) = n /\ DOMAIN o = 1..n  BY <1>1, <1>2
<1>4. ASSUME NEW i \in 1..n, NEW j \in 1..n, i < j PROVE <<o[i], o[j]>> \in before
  <2>1. o[i] \in S /\ o[j] \in S  BY <1>1
  <2>2. Cardinality(Ahead(S, before, o[i])) = i - 1 /\ Cardinality(Ahead(S, before, o[j])) = j - 1
    BY <1>1
  <2>3. o[i] # o[j]  BY <2>2, <1>1, <1>4
  <2>4. CASE <<o[j], o[i]>> \in before
    <3>1. Cardinality(Ahead(S, before, o[j])) < Cardinality(Ahead(S, before, o[i]))
      BY <2>1, <2>4, AheadGrows
    <3>2. QED  BY <3>1, <2>2, <1>1, <1>4
  <2>5. QED  BY <2>1, <2>3, <2>4 DEF Orders
<1>5. QED  BY <1>1, <1>3, <1>4 DEF o, n

LEMMA NumbersInOrder ==
    ASSUME NEW S, S \subseteq Int
    PROVE  Orders(S, {p \in S \X S : p[1] < p[2]})
<1>1. \A x, y \in S : x \in Int /\ y \in Int  OBVIOUS
<1>2. QED  BY <1>1 DEF Orders

\* The elements of s at some places: as many, each of them one of those, each of those.
LEMMA PickedFacts ==
    ASSUME NEW S, NEW s \in Seq(S), NEW places, places \subseteq DOMAIN s
    PROVE  /\ IsFiniteSet(places) /\ Cardinality(places) \in Nat
           /\ Picked(s, places) \in Seq(S)
           /\ Len(Picked(s, places)) = Cardinality(places)
           /\ \A k \in DOMAIN Picked(s, places) : \E p \in places : Picked(s, places)[k] = s[p]
           /\ \A p \in places : \E k \in DOMAIN Picked(s, places) : Picked(s, places)[k] = s[p]
<1> DEFINE before == {p \in places \X places : p[1] < p[2]}
           o == InOrder(places, before)
<1>1. places \subseteq Int  OBVIOUS
<1>2. IsFiniteSet(places)
  <2>1. IsFiniteSet(1..Len(s))  BY FS_Interval
  <2>2. places \subseteq 1..Len(s)  OBVIOUS
  <2>3. QED  BY <2>1, <2>2, FS_Subset
<1>3. Orders(places, before)  BY <1>1, NumbersInOrder
<1> HIDE DEF before
<1>4. /\ o \in Seq(places) /\ Len(o) = Cardinality(places) /\ DOMAIN o = 1..Cardinality(places)
      /\ \A p \in places : \E i \in DOMAIN o : o[i] = p
  BY <1>2, <1>3, InOrderFacts
<1>5. Cardinality(places) \in Nat  BY <1>2, FS_CardinalityType
<1>6. Picked(s, places) = [k \in DOMAIN o |-> s[o[k]]]  BY DEF Picked, before
<1> HIDE DEF o
<1>7. \A k \in DOMAIN o : o[k] \in places /\ s[o[k]] \in S  BY <1>4
<1>8. Picked(s, places) \in Seq(S) /\ Len(Picked(s, places)) = Cardinality(places)
      /\ DOMAIN Picked(s, places) = DOMAIN o
  <2> DEFINE t == Picked(s, places)
             c == Cardinality(places)
  <2>1. DOMAIN o = 1..c /\ c \in Nat  BY <1>4, <1>5
  <2>2. t \in [1..c -> S]  BY <1>6, <1>7, <2>1
  <2> HIDE DEF t, c
  <2>3. t \in Seq(S) /\ Len(t) = c /\ DOMAIN t = 1..c  BY <2>1, <2>2
  <2>4. QED  BY <2>1, <2>3 DEF t, c
<1>9. QED  BY <1>2, <1>4, <1>5, <1>6, <1>7, <1>8

-----------------------------------------------------------------------------
(* What BigQuery returns is a sequence of rows.                            *)

Rows(s) == s \in Seq(ToSet(s))

LEMMA RowsOfFunction ==
    ASSUME NEW n \in Nat, NEW s, s = [i \in 1..n |-> s[i]]
    PROVE  Rows(s) /\ Len(s) = n /\ DOMAIN s = 1..n
<1>1. DOMAIN s = 1..n /\ \A i \in 1..n : s[i] \in ToSet(s)  BY DEF ToSet
<1>2. s \in [1..n -> ToSet(s)]  BY <1>1
<1>3. QED  BY <1>1, <1>2 DEF Rows

LEMMA RowsOfSeq ==
    ASSUME NEW S, NEW s \in Seq(S)
    PROVE  Rows(s) /\ \A i \in DOMAIN s : s[i] \in S
<1>1. Len(s) \in Nat /\ DOMAIN s = 1..Len(s) /\ s = [i \in 1..Len(s) |-> s[i]]  OBVIOUS
<1>2. Rows(s)  BY <1>1, RowsOfFunction
<1>3. QED  BY <1>2

LEMMA LeastOfTwo ==
    ASSUME NEW a \in Nat, NEW b \in Nat
    PROVE  /\ Min({a, b}) \in Nat /\ Min({a, b}) <= a /\ Min({a, b}) <= b
           /\ Min({a, b}) \in {a, b}
<1>1. \E x \in {a, b} : \A y \in {a, b} : x <= y
  <2>1. CASE a <= b  BY <2>1
  <2>2. CASE b <= a  BY <2>2
  <2>3. QED  BY <2>1, <2>2
<1>2. Min({a, b}) \in {a, b} /\ \A y \in {a, b} : Min({a, b}) <= y  BY <1>1, Zenon DEF Min
<1>3. QED  BY <1>2

\* The records of the archive at any time.
Table(T) == T \subseteq Archive \cup Arriving

LEMMA FiniteCodes ==
    ASSUME NEW S, S \subseteq Codes
    PROVE  IsFiniteSet(S) /\ Cardinality(S) \in Nat
<1> DEFINE f == [i \in DOMAIN Collation |-> Collation[i]]
<1>1. IsFiniteSet(DOMAIN Collation)
  <2>1. DOMAIN Collation = 1..Len(Collation) /\ Len(Collation) \in Nat  BY GdeltAssumption
  <2>2. QED  BY <2>1, FS_Interval
<1>2. f \in Surjection(DOMAIN Collation, Codes)  BY DEF Codes, ToSet, Surjection
<1>3. IsFiniteSet(Codes)  BY <1>1, <1>2, FS_Surjection
<1>4. QED  BY <1>3, FS_Subset, FS_CardinalityType

LEMMA FiniteTables ==
    ASSUME NEW T, Table(T)
    PROVE  IsFiniteSet(T) /\ Cardinality(T) \in Nat
<1>1. IsFiniteSet(Archive \cup Arriving)  BY GdeltAssumption, FS_Union
<1>2. QED  BY <1>1, FS_Subset, FS_CardinalityType DEF Table

LEMMA ThemesCoded ==
    ASSUME NEW T, Table(T), NEW r \in T
    PROVE  /\ ThemesOf(r) \subseteq Codes
           /\ \A c \in ThemesOf(r) : ~Synthetic(c)
<1>1. r \in Archive \cup Arriving  BY DEF Table
<1>2. r.codes \in Seq(Codes) /\ \A c \in ThemesOf(r) : ~Synthetic(c)  BY <1>1, GdeltAssumption
<1>3. QED  BY <1>2 DEF ThemesOf, ToSet

LEMMA ThemedTable ==
    ASSUME NEW T, Table(T), NEW q
    PROVE  Themed(T, q) \subseteq T /\ Table(Themed(T, q))
  BY DEF Themed, Selected, Table

LEMMA DiscoveryRows ==
    ASSUME NEW T, Table(T), NEW q, q.limit \in Nat, NEW s \in ThemeDiscovery(T, q)
    PROVE  Rows(s)
<1> DEFINE found == {c \in UNION {ThemesOf(r) : r \in Themed(T, q)} :
                        \E i \in DOMAIN q.patterns : MatchesPattern(c, q.patterns[i], q.mode)}
<1>1. found \subseteq Codes  BY ThemedTable, ThemesCoded
<1>2. IsFiniteSet(found) /\ Cardinality(found) \in Nat  BY <1>1, FiniteCodes
<1>3. \E t \in SetToSeqs(found) : \E f : s = [i \in 1..Min({Len(t), q.limit}) |-> f[i]]
  BY Zenon DEF ThemeDiscovery
<1>4. PICK t \in SetToSeqs(found) : \E f : s = [i \in 1..Min({Len(t), q.limit}) |-> f[i]]
  BY <1>3
<1> HIDE DEF found
<1>5. Len(t) \in Nat
  <2>1. t \in [1..Cardinality(found) -> found]  BY DEF SetToSeqs
  <2>2. QED  BY <2>1, <1>2
<1>6. Min({Len(t), q.limit}) \in Nat  BY <1>5, LeastOfTwo
<1>7. QED
  <2>1. s = [i \in 1..Min({Len(t), q.limit}) |-> s[i]]  BY <1>4
  <2>2. QED  BY <1>6, <2>1, RowsOfFunction

LEMMA InOrderLength ==
    ASSUME NEW S, IsFiniteSet(S), NEW before
    PROVE  Len(InOrder(S, before)) = Cardinality(S) /\ Cardinality(S) \in Nat
<1>1. Cardinality(S) \in Nat  BY FS_CardinalityType
<1>2. DOMAIN InOrder(S, before) = 1..Cardinality(S)  BY Zenon DEF InOrder
<1>3. \E f : InOrder(S, before) = [i \in 1..Cardinality(S) |-> f[i]]
  <2> DEFINE f == [i \in 1..Cardinality(S) |->
                      CHOOSE x \in S : Cardinality(Ahead(S, before, x)) = i - 1]
  <2>1. InOrder(S, before) = f  BY Zenon DEF InOrder
  <2>2. f = [i \in 1..Cardinality(S) |-> f[i]]  OBVIOUS
  <2> HIDE DEF f
  <2>3. QED  BY <2>1, <2>2
<1>4. InOrder(S, before) = [i \in 1..Cardinality(S) |-> InOrder(S, before)[i]]  BY <1>3
<1>5. QED  BY <1>1, <1>4, RowsOfFunction

LEMMA SeededRows ==
    ASSUME NEW T, Table(T), NEW q, q.limit \in Nat, NEW s \in SeededDiscovery(T, q)
    PROVE  Rows(s)
<1> DEFINE codes == UNION {ThemesOf(r) : r \in Seeded(Themed(T, q), q)}
<1>1. codes \subseteq Codes
  <2>1. Seeded(Themed(T, q), q) \subseteq T  BY ThemedTable DEF Seeded
  <2>2. QED  BY <2>1, ThemesCoded
<1>2. IsFiniteSet(codes)  BY <1>1, FiniteCodes
<1>3. \E before, f : s = [i \in 1..Min({Len(InOrder(codes, before)), q.limit}) |-> f[i]]
  BY Zenon DEF SeededDiscovery
<1>4. PICK before, f : s = [i \in 1..Min({Len(InOrder(codes, before)), q.limit}) |-> f[i]]
  BY <1>3
<1> HIDE DEF codes
<1>5. Len(InOrder(codes, before)) \in Nat  BY <1>2, InOrderLength
<1>6. Min({Len(InOrder(codes, before)), q.limit}) \in Nat  BY <1>5, LeastOfTwo
<1>7. s = [i \in 1..Min({Len(InOrder(codes, before)), q.limit}) |-> s[i]]  BY <1>4
<1>8. QED  BY <1>6, <1>7, RowsOfFunction

LEMMA SeqOfFunction ==
    ASSUME NEW n \in Nat, NEW S, NEW f \in [1..n -> S]
    PROVE  f \in Seq(S) /\ Len(f) = n
  OBVIOUS

\* The seeds of a task: a sequence of texts that are lowered atoms.
Seeding(q) ==
    /\ Rows(q.seeds)
    /\ \A s \in ToSet(q.seeds) : s.canonical \in Seq(Atoms)

LEMMA FlatSeeds ==
    ASSUME NEW terms \in Seq(Seq(Atoms))
    PROVE  /\ Rows(SeedsFromFlat(terms, IndustryWords))
           /\ \A s \in ToSet(SeedsFromFlat(terms, IndustryWords)) : s.canonical \in Seq(Atoms)
<1> DEFINE norm == [i \in DOMAIN terms |-> Lower(terms[i])]
           places == {i \in DOMAIN norm : \A j \in 1..(i - 1) : norm[j] # norm[i]}
           first == Picked(norm, places)
<1>1. norm \in Seq(Seq(Atoms))
  <2>1. \A i \in DOMAIN terms : norm[i] \in Seq(Atoms)
    <3> SUFFICES ASSUME NEW i \in DOMAIN terms PROVE Lower(terms[i]) \in Seq(Atoms)  OBVIOUS
    <3>1. terms[i] \in Seq(Atoms)  OBVIOUS
    <3>2. \A k \in 1..Len(terms[i]) : LowerOf[terms[i][k]] \in Atoms  BY <3>1, GdeltAssumption
    <3>3. Lower(terms[i]) \in [1..Len(terms[i]) -> Atoms] /\ Len(terms[i]) \in Nat
      BY <3>1, <3>2 DEF Lower
    <3>4. QED  BY <3>3
  <2>2. Len(terms) \in Nat /\ DOMAIN terms = 1..Len(terms)  OBVIOUS
  <2> HIDE DEF norm
  <2>3. norm \in [1..Len(terms) -> Seq(Atoms)]  BY <2>1, <2>2 DEF norm
  <2>4. QED  BY <2>2, <2>3, SeqOfFunction
<1>2. first \in Seq(Seq(Atoms))
  <2>1. places \subseteq DOMAIN norm  OBVIOUS
  <2> HIDE DEF norm, places
  <2>2. QED  BY <1>1, <2>1, PickedFacts
<1>3. \E kinds : SeedsFromFlat(terms, IndustryWords) =
            [k \in DOMAIN first |-> [canonical |-> first[k], kind |-> kinds[k],
                                     aliases |-> {first[k]}]]
  <2> DEFINE kinds == [k \in DOMAIN first |->
                        IF Len(first[k]) > 1 \/ first[k][1] \in IndustryWords
                        THEN "industry_phrase" ELSE "company_alias"]
             t == [k \in DOMAIN first |-> [canonical |-> first[k], kind |-> kinds[k],
                                     aliases |-> {first[k]}]]
  <2>1. t = [k \in DOMAIN first |-> [canonical |-> first[k],
                kind |-> IF Len(first[k]) > 1 \/ first[k][1] \in IndustryWords
                         THEN "industry_phrase" ELSE "company_alias",
                aliases |-> {first[k]}]]
    <3> HIDE DEF first
    <3>1. QED  OBVIOUS
  <2>2. SeedsFromFlat(terms, IndustryWords) = t  BY <2>1, Zenon DEF SeedsFromFlat
  <2> HIDE DEF kinds, first
  <2>3. QED  BY <2>2
<1>4. PICK kinds : SeedsFromFlat(terms, IndustryWords) =
            [k \in DOMAIN first |-> [canonical |-> first[k], kind |-> kinds[k],
                                     aliases |-> {first[k]}]]
  BY <1>3
<1> HIDE DEF first
<1> DEFINE t == SeedsFromFlat(terms, IndustryWords)
<1>5. DOMAIN first = 1..Len(first) /\ Len(first) \in Nat /\ \A k \in 1..Len(first) : first[k] \in Seq(Atoms)
  BY <1>2
<1>6. t = [k \in 1..Len(first) |-> t[k]] /\ \A k \in 1..Len(first) : t[k].canonical = first[k]
  BY <1>4, <1>5
<1> HIDE DEF t
<1>7. Rows(t) /\ DOMAIN t = 1..Len(first)  BY <1>5, <1>6, RowsOfFunction
<1>8. \A s \in ToSet(t) : s.canonical \in Seq(Atoms)  BY <1>5, <1>6, <1>7 DEF ToSet
<1>9. QED  BY <1>7, <1>8 DEF t

LEMMA SeedsFacts ==
    ASSUME NEW req \in Requests, req.task \in {"seeded", "scoring"}
    PROVE  /\ Sql(req) = [req.q EXCEPT !.seeds = Seeds(req)]
           /\ Sql(req).seeds = Seeds(req)
           /\ Seeding(Sql(req))
           /\ Sql(req).limit = req.q.limit /\ Sql(req).limit \in Nat
           /\ Sql(req).window = req.q.window /\ Sql(req).partitioned = req.q.partitioned
<1>1. /\ req.terms \in Seq(Seq(Atoms)) /\ req.specs \in Seq(ToSet(req.specs))
      /\ \A s \in ToSet(req.specs) : s.canonical \in Seq(Atoms)
  BY GdeltAssumption
<1>2. Rows(Seeds(req)) /\ \A s \in ToSet(Seeds(req)) : s.canonical \in Seq(Atoms)
  <2>1. CASE req.specs # <<>>  BY <2>1, <1>1 DEF Seeds, ResolveSeeds, Rows
  <2>2. CASE req.specs = <<>>  BY <2>2, <1>1, FlatSeeds DEF Seeds, ResolveSeeds
  <2>3. QED  BY <2>1, <2>2
<1>3. req.q \in SeededQueries \/ req.q \in ScoringQueries  BY GdeltAssumption
<1>4. Sql(req) = [req.q EXCEPT !.seeds = Seeds(req)]  BY DEF Sql
<1>5. /\ Sql(req).seeds = Seeds(req) /\ Sql(req).limit = req.q.limit
      /\ Sql(req).limit \in Nat
      /\ Sql(req).window = req.q.window /\ Sql(req).partitioned = req.q.partitioned
  <2>1. CASE req.q \in SeededQueries  BY <2>1, <1>4 DEF SeededQueries
  <2>2. CASE req.q \in ScoringQueries  BY <2>2, <1>4 DEF ScoringQueries
  <2>3. QED  BY <1>3, <2>1, <2>2
<1>6. QED  BY <1>2, <1>4, <1>5 DEF Seeding

LEMMA ScoringSettings ==
    ASSUME NEW req \in Requests, req.task = "scoring"
    PROVE  /\ Sql(req).candidate_limit = req.q.candidate_limit /\ req.q.candidate_limit \in Nat
           /\ Sql(req).min_support = req.q.min_support /\ req.q.min_support \in Nat
           /\ TotalCode \in Codes
           /\ \A s \in ToSet(Sql(req).seeds) : SeedCode(s.canonical) \in Codes
<1>1. req.q \in ScoringQueries  BY GdeltAssumption
<1>2. Sql(req) = [req.q EXCEPT !.seeds = Seeds(req)] /\ Sql(req).seeds = Seeds(req)
  BY SeedsFacts
<1>3. {TotalCode} \cup {SeedCode(s.canonical) : s \in ToSet(Seeds(req))} \subseteq Codes
  BY GdeltAssumption DEF Seeds
<1>4. QED  BY <1>1, <1>2, <1>3 DEF ScoringQueries

-----------------------------------------------------------------------------
(* The rows of the scoring query.                                          *)

ScoringSql(q) ==
    /\ Seeding(q)
    /\ q.candidate_limit \in Nat /\ q.min_support \in Nat
    /\ TotalCode \in Codes
    /\ \A s \in ToSet(q.seeds) : SeedCode(s.canonical) \in Codes

SeedCodes(q) == {SeedCode(s.canonical) : s \in ToSet(q.seeds)}

LEMMA MatchedFacts ==
    ASSUME NEW q, Seeding(q), NEW r
    PROVE  /\ MatchedSeeds(r, q.seeds) \in Seq(ToSet(q.seeds))
           /\ ToSet(MatchedSeeds(r, q.seeds)) \subseteq ToSet(q.seeds)
<1> DEFINE places == {i \in DOMAIN q.seeds : SeedMatches(r.orgs, q.seeds[i])}
<1>1. places \subseteq DOMAIN q.seeds  OBVIOUS
<1>2. q.seeds \in Seq(ToSet(q.seeds))  BY DEF Seeding, Rows
<1>3. MatchedSeeds(r, q.seeds) = Picked(q.seeds, places)  BY DEF MatchedSeeds
<1> HIDE DEF places
<1>4. MatchedSeeds(r, q.seeds) \in Seq(ToSet(q.seeds))  BY <1>1, <1>2, <1>3, PickedFacts
<1>5. \A i \in DOMAIN MatchedSeeds(r, q.seeds) : MatchedSeeds(r, q.seeds)[i] \in ToSet(q.seeds)
  BY <1>4, RowsOfSeq
<1>6. \A x \in ToSet(MatchedSeeds(r, q.seeds)) : x \in ToSet(q.seeds)
  <2> SUFFICES ASSUME NEW x \in ToSet(MatchedSeeds(r, q.seeds)) PROVE x \in ToSet(q.seeds)  OBVIOUS
  <2>1. PICK i \in DOMAIN MatchedSeeds(r, q.seeds) : x = MatchedSeeds(r, q.seeds)[i]
    BY Zenon DEF ToSet
  <2>2. QED  BY <2>1, <1>5
<1>7. QED  BY <1>4, <1>6

LEMMA SyntheticCodes ==
    ASSUME NEW q, Seeding(q)
    PROVE  \A c \in {TotalCode} \cup SeedCodes(q) : Synthetic(c)
<1>1. Synthetic(TotalCode)  BY DEF Synthetic, TotalCode
<1>2. ASSUME NEW s \in ToSet(q.seeds) PROVE Synthetic(SeedCode(s.canonical))
  <2>1. s.canonical \in Seq(Atoms)  BY DEF Seeding
  <2>2. (<<"__", "SEED">> \o s.canonical)[1] = "__"
    <3>1. Len(s.canonical) \in Nat /\ Len(<<"__", "SEED">>) = 2  BY <2>1
    <3>2. 1 \in 1..(2 + Len(s.canonical))  BY <3>1
    <3>3. (<<"__", "SEED">> \o s.canonical)[1] = <<"__", "SEED">>[1]
      BY <2>1, <3>1, <3>2
    <3>4. QED  BY <3>3
  <2>3. QED  BY <2>2 DEF Synthetic, SeedCode
<1>3. QED  BY <1>1, <1>2 DEF SeedCodes

\* A code of a record is a theme of it or synthetic, never both.
LEMMA ThemesPlusFacts ==
    ASSUME NEW T, Table(T), NEW q, ScoringSql(q), NEW r \in T
    PROVE  /\ ThemesPlus(r, q.seeds) \subseteq Codes
           /\ TotalCode \in ThemesPlus(r, q.seeds)
           /\ \A c \in ThemesPlus(r, q.seeds) :
                /\ Synthetic(c) => c \in {TotalCode} \cup SeedCodes(q)
                /\ ~Synthetic(c) <=> c \in ThemesOf(r)
           /\ ThemesOf(r) \subseteq ThemesPlus(r, q.seeds)
<1> DEFINE hits == {SeedCode(s.canonical) : s \in ToSet(MatchedSeeds(r, q.seeds))}
<1>1. ThemesPlus(r, q.seeds) = ThemesOf(r) \cup {TotalCode} \cup hits  BY DEF ThemesPlus
<1>2. hits \subseteq SeedCodes(q)
  <2>1. ToSet(MatchedSeeds(r, q.seeds)) \subseteq ToSet(q.seeds)  BY MatchedFacts DEF ScoringSql
  <2>2. QED  BY <2>1 DEF SeedCodes
<1>3. SeedCodes(q) \subseteq Codes /\ TotalCode \in Codes  BY DEF SeedCodes, ScoringSql
<1>4. ThemesOf(r) \subseteq Codes /\ \A c \in ThemesOf(r) : ~Synthetic(c)  BY ThemesCoded
<1>5. \A c \in {TotalCode} \cup SeedCodes(q) : Synthetic(c)  BY SyntheticCodes DEF ScoringSql
<1> HIDE DEF hits
<1>6. QED  BY <1>1, <1>2, <1>3, <1>4, <1>5

LEMMA HavingFacts ==
    ASSUME NEW T, Table(T), NEW q, ScoringSql(q)
    PROVE  /\ Having(T, q) \subseteq Codes
           /\ \A c \in Having(T, q) : \E r \in Themed(T, q) : c \in ThemesPlus(r, q.seeds)
           /\ Themed(T, q) # {} => TotalCode \in Having(T, q)
           /\ {c \in Having(T, q) : Synthetic(c)} \subseteq {TotalCode} \cup SeedCodes(q)
<1>1. Themed(T, q) \subseteq T  BY ThemedTable
<1>2. \A c \in Having(T, q) : \E r \in Themed(T, q) : c \in ThemesPlus(r, q.seeds)
  BY DEF Having
<1>3. \A c \in Having(T, q) : c \in Codes /\ (Synthetic(c) => c \in {TotalCode} \cup SeedCodes(q))
  <2> SUFFICES ASSUME NEW c \in Having(T, q)
               PROVE  c \in Codes /\ (Synthetic(c) => c \in {TotalCode} \cup SeedCodes(q))
    OBVIOUS
  <2>1. PICK r \in Themed(T, q) : c \in ThemesPlus(r, q.seeds)  BY <1>2
  <2>2. r \in T  BY <1>1
  <2>3. QED  BY <2>1, <2>2, ThemesPlusFacts
<1>4. ASSUME NEW r \in Themed(T, q) PROVE TotalCode \in Having(T, q)
  <2>1. TotalCode \in ThemesPlus(r, q.seeds)  BY DEF ThemesPlus
  <2>2. Synthetic(TotalCode)  BY DEF Synthetic, TotalCode
  <2>3. QED  BY <2>1, <2>2 DEF Having
<1>5. QED  BY <1>2, <1>3, <1>4

\* What the LIMIT leaves room for.
LEMMA SyntheticRoom ==
    ASSUME NEW T, Table(T), NEW q, ScoringSql(q)
    PROVE  /\ Cardinality({c \in Having(T, q) : Synthetic(c)}) \in Nat
           /\ Cardinality({c \in Having(T, q) : Synthetic(c)}) <= 1 + Len(q.seeds)
           /\ Len(q.seeds) \in Nat
<1> DEFINE n == Len(q.seeds)
           code == [i \in 1..n |-> SeedCode(q.seeds[i].canonical)]
<1>1. n \in Nat /\ DOMAIN q.seeds = 1..n  BY DEF ScoringSql, Seeding, Rows
<1>2. code \in Surjection(1..n, SeedCodes(q))
  <2>1. ToSet(q.seeds) = {q.seeds[i] : i \in 1..n}  BY <1>1 DEF ToSet
  <2>2. \A i \in 1..n : code[i] \in SeedCodes(q)  BY <2>1 DEF SeedCodes
  <2>3. \A c \in SeedCodes(q) : \E i \in 1..n : code[i] = c
    <3> SUFFICES ASSUME NEW c \in SeedCodes(q) PROVE \E i \in 1..n : code[i] = c  OBVIOUS
    <3>1. PICK s \in ToSet(q.seeds) : c = SeedCode(s.canonical)  BY DEF SeedCodes
    <3>2. PICK i \in 1..n : s = q.seeds[i]  BY <2>1
    <3>3. QED  BY <3>1, <3>2
  <2>4. QED  BY <2>2, <2>3 DEF Surjection
<1>3. IsFiniteSet(1..n) /\ Cardinality(1..n) = n  BY <1>1, FS_Interval
<1>4. IsFiniteSet(SeedCodes(q)) /\ Cardinality(SeedCodes(q)) <= n  BY <1>2, <1>3, FS_Surjection
<1>5. Cardinality(SeedCodes(q)) \in Nat  BY <1>4, FS_CardinalityType
<1>6. /\ IsFiniteSet(SeedCodes(q) \cup {TotalCode})
      /\ Cardinality(SeedCodes(q) \cup {TotalCode}) <= n + 1
  <2>1. /\ IsFiniteSet(SeedCodes(q) \cup {TotalCode})
        /\ Cardinality(SeedCodes(q) \cup {TotalCode}) \in
                {Cardinality(SeedCodes(q)), Cardinality(SeedCodes(q)) + 1}
    BY <1>4, FS_AddElement
  <2>2. QED  BY <2>1, <1>1, <1>4, <1>5
<1>7. {c \in Having(T, q) : Synthetic(c)} \subseteq SeedCodes(q) \cup {TotalCode}  BY HavingFacts
<1>8. /\ IsFiniteSet({c \in Having(T, q) : Synthetic(c)})
      /\ Cardinality({c \in Having(T, q) : Synthetic(c)})
            <= Cardinality(SeedCodes(q) \cup {TotalCode})
  BY <1>6, <1>7, FS_Subset
<1>9. /\ Cardinality({c \in Having(T, q) : Synthetic(c)}) \in Nat
      /\ Cardinality(SeedCodes(q) \cup {TotalCode}) \in Nat
  BY <1>6, <1>8, FS_CardinalityType
<1>10. QED
  <2> HIDE DEF code
  <2>1. QED  BY <1>1, <1>6, <1>8, <1>9

LEMMA RowFields ==
    ASSUME NEW code, NEW carrying, NEW q, NEW qualified
    PROVE  /\ ScoringRow(code, carrying, q, qualified).theme_code = code
           /\ ScoringRow(code, carrying, q, qualified).total_support_qualified_candidates = qualified
           /\ ScoringRow(code, carrying, q, qualified).seed_record_count =
                DistinctIds(Seeded(carrying, q))
           /\ ScoringRow(code, carrying, q, qualified).background_record_count =
                DistinctIds(carrying)
<1>1. ScoringRow(code, carrying, q, qualified).theme_code = code  BY Zenon DEF ScoringRow
<1>2. ScoringRow(code, carrying, q, qualified).total_support_qualified_candidates = qualified
  BY Zenon DEF ScoringRow
<1>3. ScoringRow(code, carrying, q, qualified).seed_record_count = DistinctIds(Seeded(carrying, q))
  BY Zenon DEF ScoringRow
<1>4. ScoringRow(code, carrying, q, qualified).background_record_count = DistinctIds(carrying)
  BY Zenon DEF ScoringRow
<1>5. QED  BY <1>1, <1>2, <1>3, <1>4

LEMMA PerThemeFacts ==
    ASSUME NEW T, Table(T), NEW q, ScoringSql(q)
    PROVE  /\ IsFiniteSet(PerTheme(T, q))
           /\ Cardinality(PerTheme(T, q)) = Cardinality(Having(T, q))
           /\ Cardinality(PerTheme(T, q)) \in Nat
           /\ \A p \in PerTheme(T, q) :
                /\ p.theme_code \in Having(T, q)
                /\ p.total_support_qualified_candidates = Qualified(Having(T, q))
                /\ p.seed_record_count = SeedSupport(T, q, p.theme_code)
                /\ p.background_record_count =
                        DistinctIds(Carrying(T, q, p.theme_code))
           /\ \A c \in Having(T, q) : \E p \in PerTheme(T, q) : p.theme_code = c
           /\ \A p, r \in PerTheme(T, q) : p.theme_code = r.theme_code => p = r
<1> DEFINE having == Having(T, q)
           qualified == Qualified(having)
           row == [c \in having |-> ScoringRow(c, Carrying(T, q, c), q, qualified)]
<1>1. PerTheme(T, q) = {row[c] : c \in having}  BY DEF PerTheme
<1>2. ASSUME NEW c \in having
      PROVE  /\ row[c].theme_code = c
             /\ row[c].total_support_qualified_candidates = qualified
             /\ row[c].seed_record_count = SeedSupport(T, q, c)
             /\ row[c].background_record_count = DistinctIds(Carrying(T, q, c))
  <2>1. row[c] = ScoringRow(c, Carrying(T, q, c), q, qualified)  OBVIOUS
  <2> HIDE DEF row, qualified, having
  <2>2. row[c].theme_code = c /\ row[c].total_support_qualified_candidates = qualified
    BY <2>1, RowFields
  <2>3. row[c].seed_record_count = SeedSupport(T, q, c)  BY <2>1, RowFields DEF SeedSupport
  <2>4. row[c].background_record_count = DistinctIds(Carrying(T, q, c))  BY <2>1, RowFields
  <2>5. QED  BY <2>2, <2>3, <2>4
<1>3. DOMAIN row = having  OBVIOUS
<1> HIDE DEF row, qualified, having
<1>4. row \in Bijection(having, PerTheme(T, q))
  <2>1. row \in [having -> PerTheme(T, q)]
    <3>1. row = [c \in having |-> row[c]]  BY DEF row
    <3>2. QED  BY <3>1, <1>1
  <2>2. \A c, d \in having : row[c] = row[d] => c = d  BY <1>2
  <2>3. \A p \in PerTheme(T, q) : \E c \in having : row[c] = p  BY <1>1
  <2>4. QED  BY <2>1, <2>2, <2>3 DEF Bijection, Injection, Surjection, IsInjective
<1>5. IsFiniteSet(having) /\ Cardinality(having) \in Nat  BY HavingFacts, FiniteCodes DEF having
<1>6. IsFiniteSet(PerTheme(T, q)) /\ Cardinality(PerTheme(T, q)) = Cardinality(having)
  <2>1. ExistsBijection(having, PerTheme(T, q))  BY <1>4 DEF ExistsBijection
  <2>2. QED  BY <2>1, <1>5, FS_Bijection
<1>7. ASSUME NEW p \in PerTheme(T, q)
      PROVE  /\ p.theme_code \in having /\ row[p.theme_code] = p
             /\ p.total_support_qualified_candidates = qualified
             /\ p.seed_record_count = SeedSupport(T, q, p.theme_code)
             /\ p.background_record_count =
                    DistinctIds(Carrying(T, q, p.theme_code))
  <2>1. PICK c \in having : p = row[c]  BY <1>1
  <2>2. p.theme_code = c  BY <2>1, <1>2
  <2>3. /\ row[c].total_support_qualified_candidates = qualified
        /\ row[c].seed_record_count = SeedSupport(T, q, c)
        /\ row[c].background_record_count = DistinctIds(Carrying(T, q, c))
    BY <1>2, Zenon
  <2>4. QED  BY <2>1, <2>2, <2>3, Zenon
<1>8. \A c \in having : \E p \in PerTheme(T, q) : p.theme_code = c  BY <1>1, <1>2
<1>9. \A p, r \in PerTheme(T, q) : p.theme_code = r.theme_code => p = r  BY <1>7
<1>10. QED  BY <1>5, <1>6, <1>7, <1>8, <1>9, Zenon DEF having, qualified

\* COUNT(DISTINCT rec_id) counts the records.
LEMMA IdsAreRecords ==
    ASSUME NEW T, Table(T), NEW X, X \subseteq T
    PROVE  /\ DistinctIds(X) = Cardinality(X)
           /\ IsFiniteSet(X) /\ Cardinality(X) \in Nat
<1> DEFINE id == [r \in X |-> r.id]
<1>1. IsFiniteSet(X) /\ Cardinality(X) \in Nat
  <2>1. Table(X)  BY DEF Table
  <2>2. QED  BY <2>1, FiniteTables
<1>2. \A r, s \in X : r.id = s.id => r = s  BY GdeltAssumption DEF Table
<1>3. id \in Bijection(X, {r.id : r \in X})
  BY <1>2 DEF Bijection, Injection, Surjection, IsInjective
<1>4. ExistsBijection(X, {r.id : r \in X})  BY <1>3 DEF ExistsBijection
<1>5. Cardinality({r.id : r \in X}) = Cardinality(X)  BY <1>1, <1>4, FS_Bijection
<1>6. QED  BY <1>1, <1>5 DEF DistinctIds

LEMMA CountsOfRows ==
    ASSUME NEW T, Table(T), NEW q, ScoringSql(q), NEW p \in PerTheme(T, q)
    PROVE  /\ p.theme_code \in Codes
           /\ p.seed_record_count \in Nat
           /\ p.background_record_count \in Nat \ {0}
<1> DEFINE carrying == Carrying(T, q, p.theme_code)
<1>1. p.theme_code \in Having(T, q)  BY PerThemeFacts
<1>2. carrying \subseteq T /\ Seeded(carrying, q) \subseteq T  BY ThemedTable DEF Carrying, Seeded
<1>3. carrying # {}
  <2>1. PICK r \in Themed(T, q) : p.theme_code \in ThemesPlus(r, q.seeds)  BY <1>1, HavingFacts
  <2>2. r \in carrying  BY <2>1 DEF Carrying
  <2>3. QED  BY <2>2
<1>4. p.seed_record_count = DistinctIds(Seeded(carrying, q))
  BY PerThemeFacts DEF SeedSupport
<1>5. p.background_record_count = DistinctIds(carrying)  BY PerThemeFacts
<1> HIDE DEF carrying
<1>6. p.seed_record_count \in Nat  BY <1>2, <1>4, IdsAreRecords
<1>7. p.background_record_count \in Nat \ {0}
  <2>1. p.background_record_count = Cardinality(carrying) /\ IsFiniteSet(carrying)
    BY <1>2, <1>5, IdsAreRecords
  <2>2. QED  BY <2>1, <1>3, FS_EmptySet, FS_CardinalityType
<1>8. QED  BY <1>1, <1>6, <1>7, HavingFacts

-----------------------------------------------------------------------------
(* Their order.                                                            *)

Place(c) == CHOOSE i \in DOMAIN Collation : Collation[i] = c

LEMMA PlaceFacts ==
    ASSUME NEW c \in Codes
    PROVE  Place(c) \in Nat /\ Collation[Place(c)] = c
<1>1. \E i \in DOMAIN Collation : Collation[i] = c  BY DEF Codes, ToSet
<1>2. Place(c) \in DOMAIN Collation /\ Collation[Place(c)] = c  BY <1>1 DEF Place
<1>3. DOMAIN Collation \subseteq Nat  BY GdeltAssumption
<1>4. QED  BY <1>2, <1>3

LEMMA PrecedesPlaces ==
    ASSUME NEW c, NEW d
    PROVE  Precedes(c, d) <=> Place(c) < Place(d)
  BY DEF Precedes, Place

LEMMA TimesPositive ==
    ASSUME NEW x \in Int, NEW y \in Int, NEW z \in Nat \ {0}
    PROVE  /\ x * z \in Int /\ y * z \in Int
           /\ (x >= y) <=> (x * z >= y * z)
           /\ (x > y) <=> (x * z > y * z)
  OBVIOUS

\* A larger share of seed records, compared crosswise.
LEMMA Crosswise ==
    ASSUME NEW a \in Nat, NEW b \in Nat \ {0}, NEW c \in Nat, NEW d \in Nat \ {0},
           NEW e \in Nat, NEW f \in Nat \ {0}, a * d >= c * b, c * f >= e * d
    PROVE  /\ a * f >= e * b
           /\ a * d > c * b \/ c * f > e * d => a * f > e * b
<1>1. /\ a * d \in Nat /\ c * b \in Nat /\ c * f \in Nat /\ e * d \in Nat
      /\ a * f \in Nat /\ e * b \in Nat
  OBVIOUS
<1>2. /\ (a * d) * f >= (c * b) * f
      /\ a * d > c * b => (a * d) * f > (c * b) * f
  BY <1>1, TimesPositive
<1>3. /\ (c * f) * b >= (e * d) * b
      /\ c * f > e * d => (c * f) * b > (e * d) * b
  BY <1>1, TimesPositive
<1>4. (a * d) * f = (a * f) * d /\ (c * b) * f = (c * f) * b /\ (e * d) * b = (e * b) * d
  OBVIOUS
<1>5. /\ (a * f) * d >= (e * b) * d
      /\ a * d > c * b \/ c * f > e * d => (a * f) * d > (e * b) * d
  <2> DEFINE u == (a * f) * d
             v == (c * f) * b
             w == (e * b) * d
  <2>1. u \in Int /\ v \in Int /\ w \in Int  OBVIOUS
  <2>2. /\ u >= v /\ v >= w
        /\ a * d > c * b => u > v
        /\ c * f > e * d => v > w
    BY <1>2, <1>3, <1>4
  <2> HIDE DEF u, v, w
  <2>3. u >= w /\ (a * d > c * b \/ c * f > e * d => u > w)  BY <2>1, <2>2
  <2>4. QED  BY <2>3 DEF u, w
<1>6. QED  BY <1>1, <1>5, TimesPositive

\* ORDER BY: the sentinels, then the share, the support and the code.
Leads(y, a, b, k, z, c, d, m) ==
    \/ y > z
    \/ y = z /\ a * d > c * b
    \/ y = z /\ a * d = c * b /\ (a > c \/ (a = c /\ k < m))

LEMMA LeadsTransitive ==
    ASSUME NEW y \in Nat, NEW a \in Nat, NEW b \in Nat \ {0}, NEW k \in Nat,
           NEW z \in Nat, NEW c \in Nat, NEW d \in Nat \ {0}, NEW m \in Nat,
           NEW w \in Nat, NEW e \in Nat, NEW f \in Nat \ {0}, NEW n \in Nat,
           Leads(y, a, b, k, z, c, d, m), Leads(z, c, d, m, w, e, f, n)
    PROVE  Leads(y, a, b, k, w, e, f, n)
<1> DEFINE ad == a * d
           cb == c * b
           cf == c * f
           ed == e * d
           af == a * f
           eb == e * b
<1>1. /\ ad \in Int /\ cb \in Int /\ cf \in Int /\ ed \in Int /\ af \in Int /\ eb \in Int
  OBVIOUS
<1>2. /\ ad >= cb /\ cf >= ed => af >= eb
      /\ ad >= cb /\ cf >= ed /\ (ad > cb \/ cf > ed) => af > eb
  BY Crosswise
<1>3. ed >= cf /\ cb >= ad => eb >= af  BY Crosswise
<1>4. /\ Leads(y, a, b, k, z, c, d, m) <=>
            y > z \/ (y = z /\ ad > cb) \/ (y = z /\ ad = cb /\ (a > c \/ (a = c /\ k < m)))
      /\ Leads(z, c, d, m, w, e, f, n) <=>
            z > w \/ (z = w /\ cf > ed) \/ (z = w /\ cf = ed /\ (c > e \/ (c = e /\ m < n)))
      /\ Leads(y, a, b, k, w, e, f, n) <=>
            y > w \/ (y = w /\ af > eb) \/ (y = w /\ af = eb /\ (a > e \/ (a = e /\ k < n)))
  BY DEF Leads
<1> HIDE DEF ad, cb, cf, ed, af, eb
<1>5. CASE y > z \/ z > w  BY <1>4, <1>5
<1>6. CASE y = z /\ z = w /\ (ad > cb \/ cf > ed)
  <2>1. ad >= cb /\ cf >= ed  BY <1>1, <1>4, <1>6
  <2>2. QED  BY <2>1, <1>1, <1>2, <1>4, <1>6
<1>7. CASE y = z /\ z = w /\ ad = cb /\ cf = ed
  <2>1. af = eb  BY <1>1, <1>2, <1>3, <1>7
  <2>2. QED  BY <2>1, <1>1, <1>4, <1>7
<1>8. QED  BY <1>4, <1>5, <1>6, <1>7

Rank(p) == IF Synthetic(p.theme_code) THEN 1 ELSE 0

LEMMA OrderOfRows ==
    ASSUME NEW p, NEW r
    PROVE  ScoringOrder(p, r) <=>
                Leads(Rank(p), p.seed_record_count, p.background_record_count, Place(p.theme_code),
                      Rank(r), r.seed_record_count, r.background_record_count, Place(r.theme_code))
<1>1. Precedes(p.theme_code, r.theme_code) <=> Place(p.theme_code) < Place(r.theme_code)
  BY PrecedesPlaces
<1>2. QED  BY <1>1 DEF ScoringOrder, Leads, Rank

RowOrder(T, q) == {p \in PerTheme(T, q) \X PerTheme(T, q) : ScoringOrder(p[1], p[2])}

LEMMA RowPairs ==
    ASSUME NEW T, NEW q, NEW x, NEW y
    PROVE  <<x, y>> \in RowOrder(T, q) <=>
                x \in PerTheme(T, q) /\ y \in PerTheme(T, q) /\ ScoringOrder(x, y)
  BY DEF RowOrder

LEMMA PerThemeOrdered ==
    ASSUME NEW T, Table(T), NEW q, ScoringSql(q)
    PROVE  Orders(PerTheme(T, q), RowOrder(T, q))
<1> DEFINE S == PerTheme(T, q)
<1>1. ASSUME NEW p \in S
      PROVE  /\ Rank(p) \in Nat /\ Place(p.theme_code) \in Nat
             /\ p.seed_record_count \in Nat /\ p.background_record_count \in Nat \ {0}
             /\ Collation[Place(p.theme_code)] = p.theme_code
  BY CountsOfRows, PlaceFacts DEF Rank
<1>2. ASSUME NEW p \in S PROVE ~ScoringOrder(p, p)
  <2> DEFINE u == p.seed_record_count * p.background_record_count
  <2>1. u \in Int  BY <1>1
  <2>2. ScoringOrder(p, p) <=>
            \/ Rank(p) > Rank(p)
            \/ Rank(p) = Rank(p) /\ u > u
            \/ Rank(p) = Rank(p) /\ u = u /\ (p.seed_record_count > p.seed_record_count
                  \/ (p.seed_record_count = p.seed_record_count
                        /\ Place(p.theme_code) < Place(p.theme_code)))
    BY OrderOfRows DEF Leads
  <2> HIDE DEF u
  <2>3. QED  BY <1>1, <2>1, <2>2
<1>3. ASSUME NEW p \in S, NEW r \in S, p # r PROVE ScoringOrder(p, r) \/ ScoringOrder(r, p)
  <2> DEFINE u == p.seed_record_count * r.background_record_count
             v == r.seed_record_count * p.background_record_count
  <2>1. u \in Int /\ v \in Int  BY <1>1
  <2>2. p.theme_code # r.theme_code  BY <1>3, PerThemeFacts
  <2>3. Place(p.theme_code) # Place(r.theme_code)  BY <2>2, <1>1
  <2>4. ScoringOrder(p, r) <=>
            \/ Rank(p) > Rank(r)
            \/ Rank(p) = Rank(r) /\ u > v
            \/ Rank(p) = Rank(r) /\ u = v /\ (p.seed_record_count > r.seed_record_count
                  \/ (p.seed_record_count = r.seed_record_count
                        /\ Place(p.theme_code) < Place(r.theme_code)))
    BY OrderOfRows DEF Leads
  <2>5. ScoringOrder(r, p) <=>
            \/ Rank(r) > Rank(p)
            \/ Rank(r) = Rank(p) /\ v > u
            \/ Rank(r) = Rank(p) /\ v = u /\ (r.seed_record_count > p.seed_record_count
                  \/ (r.seed_record_count = p.seed_record_count
                        /\ Place(r.theme_code) < Place(p.theme_code)))
    BY OrderOfRows DEF Leads
  <2> HIDE DEF u, v
  <2>6. /\ Rank(p) \in Nat /\ Place(p.theme_code) \in Nat /\ p.seed_record_count \in Nat
        /\ Rank(r) \in Nat /\ Place(r.theme_code) \in Nat /\ r.seed_record_count \in Nat
    BY <1>1
  <2>7. QED  BY <2>1, <2>3, <2>4, <2>5, <2>6
<1>4. ASSUME NEW p \in S, NEW r \in S, NEW x \in S, ScoringOrder(p, r), ScoringOrder(r, x)
      PROVE  ScoringOrder(p, x)
  <2>1. /\ Leads(Rank(p), p.seed_record_count, p.background_record_count, Place(p.theme_code),
                 Rank(r), r.seed_record_count, r.background_record_count, Place(r.theme_code))
        /\ Leads(Rank(r), r.seed_record_count, r.background_record_count, Place(r.theme_code),
                 Rank(x), x.seed_record_count, x.background_record_count, Place(x.theme_code))
    BY <1>4, OrderOfRows
  <2>2. Leads(Rank(p), p.seed_record_count, p.background_record_count, Place(p.theme_code),
              Rank(x), x.seed_record_count, x.background_record_count, Place(x.theme_code))
    BY <1>1, <2>1, LeadsTransitive
  <2>3. QED  BY <2>2, OrderOfRows
<1> DEFINE before == RowOrder(T, q)
<1>5. ASSUME NEW x \in S, NEW y \in S PROVE <<x, y>> \in before <=> ScoringOrder(x, y)
  BY RowPairs
<1> HIDE DEF S, before
<1>6. \A x, y \in S : <<x, y>> \in before <=> ScoringOrder(x, y)  BY <1>5
<1>7. Orders(S, before)
  <2>1. \A x \in S : <<x, x>> \notin before  BY <1>2, <1>6
  <2>2. \A x, y \in S : x = y \/ <<x, y>> \in before \/ <<y, x>> \in before  BY <1>3, <1>6
  <2>3. \A x, y, z \in S : <<x, y>> \in before /\ <<y, z>> \in before => <<x, z>> \in before
    BY <1>4, <1>6
  <2>4. QED  BY <2>1, <2>2, <2>3 DEF Orders
<1>8. QED  BY <1>7 DEF S, before

-----------------------------------------------------------------------------
(* What the scoring query returns.                                         *)

\* A beginning, in order, of the rows of the themes.
Leading(s, T, q) ==
    /\ Rows(s)
    /\ \A i \in DOMAIN s : s[i] \in PerTheme(T, q)
    /\ \A i, j \in DOMAIN s : i < j => ScoringOrder(s[i], s[j]) /\ s[i] # s[j]
    /\ \A i \in DOMAIN s, p \in PerTheme(T, q) :
        ScoringOrder(p, s[i]) => \E j \in DOMAIN s : s[j] = p

Whole(s, T, q) == \A p \in PerTheme(T, q) : \E i \in DOMAIN s : s[i] = p

\* A sequence is the first m elements of another.
FirstOf(s, o, m) == Len(s) = m /\ m <= Len(o) /\ \A i \in 1..m : s[i] = o[i]

LEMMA FirstOfSubSeq ==
    ASSUME NEW S, NEW o \in Seq(S), NEW m \in Nat, m <= Len(o)
    PROVE  SubSeq(o, 1, m) \in Seq(S) /\ FirstOf(SubSeq(o, 1, m), o, m)
<1>1. \A i \in 1..m : o[i] \in S  OBVIOUS
<1>2. /\ SubSeq(o, 1, m) \in Seq(S)
      /\ Len(SubSeq(o, 1, m)) = IF 1 <= m THEN m - 1 + 1 ELSE 0
      /\ \A i \in 1..(m - 1 + 1) : SubSeq(o, 1, m)[i] = o[1 + i - 1]
  BY <1>1, SubSeqProperties
<1>3. QED  BY <1>2 DEF FirstOf

LEMMA FirstRows ==
    ASSUME NEW T, Table(T), NEW q, ScoringSql(q),
           NEW o, o = InOrder(PerTheme(T, q), RowOrder(T, q)),
           NEW m \in Nat, NEW s \in Seq(PerTheme(T, q)), FirstOf(s, o, m)
    PROVE  /\ Leading(s, T, q) /\ Len(s) = m
           /\ Len(o) = Cardinality(PerTheme(T, q))
           /\ m = Len(o) => Whole(s, T, q)
<1> DEFINE S == PerTheme(T, q)
           before == RowOrder(T, q)
<1>1. IsFiniteSet(S) /\ Orders(S, before) /\ o = InOrder(S, before)
  BY PerThemeFacts, PerThemeOrdered
<1>2. \A x, y : <<x, y>> \in before => ScoringOrder(x, y)  BY RowPairs
<1>3. \A x, y \in S : ScoringOrder(x, y) => <<x, y>> \in before  BY RowPairs
<1> HIDE DEF before, S
<1>4. /\ o \in Seq(S) /\ Len(o) = Cardinality(S)
      /\ DOMAIN o = 1..Cardinality(S)
      /\ \A x \in S : \E i \in DOMAIN o : o[i] = x
      /\ \A i, j \in DOMAIN o : i < j => <<o[i], o[j]>> \in before
  BY <1>1, InOrderFacts
<1>5. Len(o) \in Nat /\ DOMAIN o = 1..Len(o)  BY <1>4
<1>6. /\ s \in Seq(S) /\ Len(s) = m /\ DOMAIN s = 1..m
      /\ \A i \in 1..m : s[i] = o[i] /\ i \in DOMAIN o
  BY <1>5 DEF FirstOf, S
<1>7. Rows(s) /\ \A i \in DOMAIN s : s[i] \in S  BY <1>6, RowsOfSeq
<1>8. ASSUME NEW i \in DOMAIN s, NEW j \in DOMAIN s, i < j
      PROVE  ScoringOrder(s[i], s[j]) /\ s[i] # s[j]
  <2>1. <<s[i], s[j]>> \in before  BY <1>4, <1>6, <1>8
  <2>2. s[i] # s[j]  BY <2>1, <1>1, <1>7 DEF Orders
  <2>3. QED  BY <2>1, <2>2, <1>2
<1>9. ASSUME NEW i \in DOMAIN s, NEW p \in S, ScoringOrder(p, s[i])
      PROVE  \E j \in DOMAIN s : s[j] = p
  <2>1. <<p, s[i]>> \in before  BY <1>3, <1>7, <1>9
  <2>2. PICK j \in DOMAIN o : o[j] = p  BY <1>4
  <2>3. i \in DOMAIN o /\ s[i] = o[i] /\ i \in 1..m  BY <1>6
  <2>4. ~(i <= j)
    <3>1. SUFFICES ASSUME i <= j PROVE FALSE  OBVIOUS
    <3>2. CASE i = j
      BY <3>2, <2>1, <2>2, <2>3, <1>1 DEF Orders
    <3>3. CASE i < j
      <4>1. <<s[i], p>> \in before  BY <3>3, <2>2, <2>3, <1>4
      <4>2. <<p, p>> \in before  BY <4>1, <2>1, <1>1, <1>7 DEF Orders
      <4>3. QED  BY <4>2, <1>1 DEF Orders
    <3>4. i \in Int /\ j \in Int  BY <1>5, <2>2, <2>3
    <3>5. QED  BY <3>1, <3>2, <3>3, <3>4
  <2>5. j \in 1..m  BY <1>5, <2>2, <2>3, <2>4
  <2>6. QED  BY <2>2, <2>5, <1>6
<1>10. m = Len(o) => \A p \in S : \E i \in DOMAIN s : s[i] = p  BY <1>4, <1>5, <1>6
<1>11. QED  BY <1>4, <1>6, <1>7, <1>8, <1>9, <1>10 DEF Leading, Whole, S

LEMMA ScoringResult ==
    ASSUME NEW T, Table(T), NEW q, ScoringSql(q), NEW s \in ThemeScoring(T, q)
    PROVE  /\ Leading(s, T, q)
           /\ Cardinality(PerTheme(T, q)) <= EffectiveLimit(q) => Whole(s, T, q)
           /\ PerTheme(T, q) # {} => s # <<>>
<1> DEFINE S == PerTheme(T, q)
           o == InOrder(S, RowOrder(T, q))
           m == Min({EffectiveLimit(q), Len(o)})
<1>1. s = SubSeq(o, 1, m)
  <2>1. ThemeScoring(T, q) = {SubSeq(o, 1, m)}  BY Zenon DEF ThemeScoring, RowOrder
  <2>2. QED  BY <2>1
<1>2. IsFiniteSet(S) /\ Cardinality(S) \in Nat  BY PerThemeFacts
<1>3. Len(o) = Cardinality(S)
  <2> HIDE DEF S
  <2>1. QED  BY <1>2, InOrderLength
<1>4. EffectiveLimit(q) \in Nat /\ EffectiveLimit(q) # 0
  BY SyntheticRoom DEF EffectiveLimit, ScoringSql
<1>5. o = InOrder(PerTheme(T, q), RowOrder(T, q))  OBVIOUS
<1> HIDE DEF o, m
<1>6. m \in Nat /\ m <= Len(o) /\ m <= EffectiveLimit(q) /\ m \in {EffectiveLimit(q), Len(o)}
  BY <1>2, <1>3, <1>4, LeastOfTwo DEF m
<1>7. Leading(s, T, q) /\ Len(s) = m /\ (m = Len(o) => Whole(s, T, q))
  <2>1. m \in Nat /\ m <= Len(o)  BY <1>6
  <2>2. o \in Seq(S)
    <3>1. Orders(S, RowOrder(T, q))  BY PerThemeOrdered
    <3> HIDE DEF S
    <3>2. QED  BY <1>2, <1>5, <3>1, InOrderFacts DEF o
  <2>3. s \in Seq(S) /\ FirstOf(s, o, m)  BY <1>1, <2>1, <2>2, FirstOfSubSeq
  <2>4. QED  BY <1>5, <2>1, <2>3, FirstRows DEF S
<1>8. Cardinality(S) <= EffectiveLimit(q) => m = Len(o)
  BY <1>2, <1>3, <1>4, <1>6
<1>9. S # {} => m # 0  BY <1>2, <1>3, <1>4, <1>6, FS_EmptySet
<1>10. s = <<>> => Len(s) = 0  OBVIOUS
<1>11. QED  BY <1>7, <1>8, <1>9, <1>10

\* A beginning of such rows is one.
LEMMA LeadingPrefix ==
    ASSUME NEW T, NEW q, NEW s, Leading(s, T, q), NEW t, Rows(t), IsPrefix(t, s),
           Orders(PerTheme(T, q), RowOrder(T, q))
    PROVE  Leading(t, T, q)
<1> DEFINE S == PerTheme(T, q)
           before == RowOrder(T, q)
<1>1. \A x, y \in S : ScoringOrder(x, y) <=> <<x, y>> \in before  BY RowPairs
<1>2. Orders(S, before)  OBVIOUS
<1> HIDE DEF before
<1>3. Len(t) \in Nat /\ Len(s) \in Nat /\ Len(t) <= Len(s)
      /\ DOMAIN t = 1..Len(t) /\ DOMAIN s = 1..Len(s)
      /\ \A i \in 1..Len(t) : t[i] = s[i]
  <2>1. /\ Len(t) \in Nat /\ Len(s) \in Nat /\ DOMAIN t = 1..Len(t) /\ DOMAIN s = 1..Len(s)
    BY DEF Leading, Rows
  <2>2. Len(t) <= Len(s) /\ SubSeq(t, 1, Len(t)) = SubSeq(s, 1, Len(t))  BY DEF IsPrefix
  <2>3. \A i \in 1..Len(t) : SubSeq(t, 1, Len(t))[i] = t[i] /\ SubSeq(s, 1, Len(t))[i] = s[i]
    BY <2>1, <2>2 DEF Leading, Rows
  <2>4. QED  BY <2>1, <2>2, <2>3
<1>4. \A i \in DOMAIN t : i \in DOMAIN s /\ t[i] = s[i] /\ t[i] \in S
  BY <1>3 DEF Leading
<1>5. \A i, j \in DOMAIN t : i < j => ScoringOrder(t[i], t[j]) /\ t[i] # t[j]
  BY <1>4 DEF Leading
<1>6. ASSUME NEW i \in DOMAIN t, NEW p \in S, ScoringOrder(p, t[i])
      PROVE  \E j \in DOMAIN t : t[j] = p
  <2>1. PICK j \in DOMAIN s : s[j] = p  BY <1>4, <1>6 DEF Leading
  <2>2. CASE j < i
    <3>1. j \in DOMAIN t  BY <2>2, <1>3
    <3>2. QED  BY <3>1, <2>1, <1>4
  <2>3. CASE j = i
    <3>1. t[i] = p  BY <2>1, <2>3, <1>4
    <3>2. QED  BY <3>1
  <2>4. CASE i < j
    <3>1. ScoringOrder(t[i], p)  BY <2>1, <2>4, <1>4 DEF Leading
    <3>2. <<p, t[i]>> \in before /\ <<t[i], p>> \in before  BY <3>1, <1>1, <1>4, <1>6
    <3>3. <<p, p>> \in before  BY <3>2, <1>2, <1>4 DEF Orders
    <3>4. QED  BY <3>3, <1>2 DEF Orders
  <2>5. i \in Int /\ j \in Int  BY <1>3, <2>1
  <2>6. QED  BY <2>2, <2>3, <2>4, <2>5
<1>7. QED  BY <1>4, <1>5, <1>6 DEF Leading

\* The themes that HAVING keeps, without the synthetic codes.
Kept(T, q) == {c \in Having(T, q) : ~Synthetic(c)}

\* A family within the cap leaves the LIMIT nothing to cut.
LEMMA FamilySplit ==
    ASSUME NEW T, Table(T), NEW q, ScoringSql(q)
    PROVE  /\ IsFiniteSet(Kept(T, q)) /\ Qualified(Having(T, q)) = Cardinality(Kept(T, q))
           /\ Qualified(Having(T, q)) \in Nat
           /\ Qualified(Having(T, q)) <= q.candidate_limit =>
                Cardinality(PerTheme(T, q)) <= EffectiveLimit(q)
<1> DEFINE H == Having(T, q)
           synthetic == {c \in H : Synthetic(c)}
           real == {c \in H : ~Synthetic(c)}
<1>1. H \subseteq Codes  BY HavingFacts
<1>2. IsFiniteSet(synthetic) /\ IsFiniteSet(real) /\ Cardinality(real) \in Nat
  <2>1. synthetic \subseteq Codes /\ real \subseteq Codes  BY <1>1
  <2> HIDE DEF synthetic, real
  <2>2. QED  BY <2>1, FiniteCodes
<1>3. H = synthetic \cup real /\ synthetic \cap real = {}  OBVIOUS
<1>4. /\ Cardinality(synthetic) \in Nat /\ Cardinality(synthetic) <= 1 + Len(q.seeds)
      /\ Len(q.seeds) \in Nat
  BY SyntheticRoom
<1>5. Qualified(H) = Cardinality(real)  BY DEF Qualified
<1>6. Cardinality(PerTheme(T, q)) = Cardinality(H)  BY PerThemeFacts
<1>7. Kept(T, q) = real  BY DEF Kept
<1> HIDE DEF synthetic, real, H
<1>8. Cardinality(H) = Cardinality(synthetic) + Cardinality(real)
  <2>1. Cardinality(synthetic \cup real) =
            Cardinality(synthetic) + Cardinality(real) - Cardinality(synthetic \cap real)
    BY <1>2, FS_Union
  <2>2. Cardinality(synthetic \cap real) = 0  BY <1>3, FS_EmptySet
  <2>3. QED  BY <2>1, <2>2, <1>2, <1>3, <1>4
<1>9. q.candidate_limit \in Nat /\ EffectiveLimit(q) = q.candidate_limit + 1 + Len(q.seeds)
  BY DEF ScoringSql, EffectiveLimit
<1>10. Qualified(H) <= q.candidate_limit => Cardinality(PerTheme(T, q)) <= EffectiveLimit(q)
  BY <1>2, <1>4, <1>5, <1>6, <1>8, <1>9
<1>11. QED  BY <1>2, <1>5, <1>7, <1>10 DEF H

-----------------------------------------------------------------------------
(* What _score_rows makes of them.                                         *)

\* The places of the rows that are not synthetic.
RealPlaces(s) == {i \in DOMAIN s : ~Synthetic(s[i].theme_code)}

LEMMA RealRowFacts ==
    ASSUME NEW s, Rows(s)
    PROVE  /\ RealRows(s) \in Seq(ToSet(s))
           /\ Len(RealRows(s)) = Cardinality(RealPlaces(s))
           /\ Cardinality(RealPlaces(s)) \in Nat /\ IsFiniteSet(RealPlaces(s))
           /\ \A k \in DOMAIN RealRows(s) : \E p \in RealPlaces(s) : RealRows(s)[k] = s[p]
           /\ \A p \in RealPlaces(s) : \E k \in DOMAIN RealRows(s) : RealRows(s)[k] = s[p]
<1>1. s \in Seq(ToSet(s))  BY DEF Rows
<1>2. RealPlaces(s) \subseteq DOMAIN s  BY DEF RealPlaces
<1>3. RealRows(s) = Picked(s, RealPlaces(s))  BY DEF RealRows, RealPlaces
<1>4. QED  BY <1>1, <1>2, <1>3, PickedFacts

\* Every real row has a theme that HAVING kept, each its own.
LEMMA RealThemes ==
    ASSUME NEW T, Table(T), NEW q, ScoringSql(q), NEW s, Leading(s, T, q)
    PROVE  /\ \A p \in RealPlaces(s) : s[p].theme_code \in Kept(T, q)
           /\ Len(RealRows(s)) <= Cardinality(Kept(T, q))
           /\ Whole(s, T, q) => \A c \in Kept(T, q) : \E p \in RealPlaces(s) : s[p].theme_code = c
<1> DEFINE theme == [p \in RealPlaces(s) |-> s[p].theme_code]
<1>1. \A i \in DOMAIN s : s[i] \in PerTheme(T, q) /\ s[i].theme_code \in Having(T, q)
  BY PerThemeFacts DEF Leading
<1>2. \A p \in RealPlaces(s) : s[p].theme_code \in Kept(T, q)
  BY <1>1 DEF RealPlaces, Kept
<1>3. ASSUME NEW p \in RealPlaces(s), NEW r \in RealPlaces(s), s[p].theme_code = s[r].theme_code
      PROVE  p = r
  <2>1. s[p] = s[r]  BY <1>1, <1>3, PerThemeFacts DEF RealPlaces
  <2>2. p \in DOMAIN s /\ r \in DOMAIN s /\ DOMAIN s \subseteq Int
    BY DEF RealPlaces, Leading, Rows
  <2>3. ~(p < r) /\ ~(r < p)  BY <2>1, <2>2 DEF Leading
  <2>4. QED  BY <2>2, <2>3
<1>4. theme \in Injection(RealPlaces(s), Kept(T, q))
  BY <1>2, <1>3 DEF Injection, IsInjective
<1>5. Cardinality(RealPlaces(s)) <= Cardinality(Kept(T, q))
  <2>1. IsFiniteSet(Kept(T, q))  BY FamilySplit
  <2>2. QED  BY <1>4, <2>1, FS_Injection
<1>6. Len(RealRows(s)) = Cardinality(RealPlaces(s))  BY RealRowFacts DEF Leading
<1>7. ASSUME Whole(s, T, q), NEW c \in Kept(T, q)
      PROVE  \E p \in RealPlaces(s) : s[p].theme_code = c
  <2>1. c \in Having(T, q) /\ ~Synthetic(c)  BY DEF Kept
  <2>2. PICK r \in PerTheme(T, q) : r.theme_code = c  BY <2>1, PerThemeFacts
  <2>3. PICK i \in DOMAIN s : s[i] = r  BY <1>7 DEF Whole
  <2>4. QED  BY <2>1, <2>2, <2>3 DEF RealPlaces
<1>8. QED  BY <1>2, <1>5, <1>6, <1>7

\* The parts of a score that the gate is about.
LEMMA ScoreParts ==
    ASSUME NEW s, NEW cap
    PROVE  /\ ScoreRows(s, cap).family_complete =
                FamilyComplete(IndependentCount(s), Len(RealRows(s)), cap)
           /\ \E f, g, h : ScoreRows(s, cap).candidates =
                Completed(ScoredRows(RealRows(s), TotalOf(s, "seed_record_count"),
                                     TotalOf(s, "background_record_count")),
                          Adjusted(ScoredRows(RealRows(s), TotalOf(s, "seed_record_count"),
                                              TotalOf(s, "background_record_count")),
                                   FamilyComplete(IndependentCount(s), Len(RealRows(s)), cap)),
                          f, g, h)
<1>1. ScoreRows(s, cap).family_complete =
                FamilyComplete(IndependentCount(s), Len(RealRows(s)), cap)
  BY Zenon DEF ScoreRows
<1>2. \E f, g, h : ScoreRows(s, cap).candidates =
                Completed(ScoredRows(RealRows(s), TotalOf(s, "seed_record_count"),
                                     TotalOf(s, "background_record_count")),
                          Adjusted(ScoredRows(RealRows(s), TotalOf(s, "seed_record_count"),
                                              TotalOf(s, "background_record_count")),
                                   FamilyComplete(IndependentCount(s), Len(RealRows(s)), cap)),
                          f, g, h)
  BY Zenon DEF ScoreRows
<1>3. QED  BY <1>1, <1>2

LEMMA CandidateFields ==
    ASSUME NEW row, NEW a, NEW b
    PROVE  /\ ScoreCandidate(row, a, b).theme = row.theme_code
           /\ ScoreCandidate(row, a, b).table = Contingency(row, a, b)
           /\ "adjusted_p_value" \in DOMAIN ScoreCandidate(row, a, b)
<1>1. ScoreCandidate(row, a, b).theme = row.theme_code  BY Zenon DEF ScoreCandidate
<1>2. ScoreCandidate(row, a, b).table = Contingency(row, a, b)  BY Zenon DEF ScoreCandidate
<1>3. "adjusted_p_value" \in DOMAIN ScoreCandidate(row, a, b)  BY Zenon DEF ScoreCandidate
<1>4. QED  BY <1>1, <1>2, <1>3

\* The candidates are the real rows, one for one.
LEMMA CandidateFacts ==
    ASSUME NEW s, NEW cap
    PROVE  /\ DOMAIN ScoreRows(s, cap).candidates = DOMAIN RealRows(s)
           /\ \A i \in DOMAIN RealRows(s) :
                /\ ScoreRows(s, cap).candidates[i].theme = RealRows(s)[i].theme_code
                /\ ScoreRows(s, cap).candidates[i].table =
                    Contingency(RealRows(s)[i], TotalOf(s, "seed_record_count"),
                                TotalOf(s, "background_record_count"))
                /\ ~ScoreRows(s, cap).family_complete =>
                    ScoreRows(s, cap).candidates[i].adjusted_p_value = NULL
<1> DEFINE real == RealRows(s)
           a == TotalOf(s, "seed_record_count")
           b == TotalOf(s, "background_record_count")
           complete == FamilyComplete(IndependentCount(s), Len(real), cap)
           scored == ScoredRows(real, a, b)
           adjusted == Adjusted(scored, complete)
<1>1. PICK f, g, h : ScoreRows(s, cap).candidates = Completed(scored, adjusted, f, g, h)
  BY ScoreParts
<1>2. ScoreRows(s, cap).family_complete = complete  BY ScoreParts
<1> HIDE DEF real, a, b, complete, adjusted
<1>3. scored = [i \in DOMAIN real |-> ScoreCandidate(real[i], a, b)]  BY DEF ScoredRows
<1> HIDE DEF scored
<1>4. ~complete => \A i \in DOMAIN real : adjusted[i] = NULL
  BY <1>3 DEF adjusted, Adjusted
<1> DEFINE cs == Completed(scored, adjusted, f, g, h)
<1>5. DOMAIN cs = DOMAIN real  BY <1>3 DEF Completed
<1>6. ASSUME NEW i \in DOMAIN real
      PROVE  /\ cs[i].theme = real[i].theme_code
             /\ cs[i].table = Contingency(real[i], a, b)
             /\ cs[i].adjusted_p_value = adjusted[i]
  <2>1. scored[i] = ScoreCandidate(real[i], a, b)  BY <1>3
  <2>2. cs[i] = [scored[i] EXCEPT !.adjusted_p_value = adjusted[i],
                          !.raw_frequency_rank = f[i],
                          !.raw_statistical_rank = g[i],
                          !.research_adjusted_rank = h[i]]
    BY <1>3 DEF Completed
  <2>3. /\ scored[i].theme = real[i].theme_code /\ scored[i].table = Contingency(real[i], a, b)
        /\ "adjusted_p_value" \in DOMAIN scored[i]
    BY <2>1, CandidateFields
  <2> HIDE DEF cs
  <2>4. cs[i].theme = scored[i].theme /\ cs[i].table = scored[i].table  BY <2>2
  <2>5. cs[i].adjusted_p_value = adjusted[i]  BY <2>2, <2>3
  <2>6. QED  BY <2>3, <2>4, <2>5
<1> HIDE DEF cs
<1>7. ScoreRows(s, cap).candidates = cs  BY <1>1 DEF cs
<1>8. QED  BY <1>2, <1>4, <1>5, <1>6, <1>7 DEF real, a, b

\* The count of the first row is that of every row.
LEMMA IndependentFacts ==
    ASSUME NEW T, Table(T), NEW q, ScoringSql(q), NEW s, Leading(s, T, q)
    PROVE  /\ s = <<>> => IndependentCount(s) = NULL /\ Len(RealRows(s)) = 0
           /\ s # <<>> => /\ IndependentCount(s) = Cardinality(Kept(T, q))
                          /\ IndependentCount(s) # NULL
<1>1. Rows(s) /\ Len(s) \in Nat /\ DOMAIN s = 1..Len(s)  BY DEF Leading, Rows
<1>2. CASE s = <<>>
  <2>1. IndependentCount(s) = NULL  BY <1>2 DEF IndependentCount
  <2>2. RealPlaces(s) = {}  BY <1>2 DEF RealPlaces
  <2>3. Len(RealRows(s)) = 0  BY <1>1, <2>2, RealRowFacts, FS_EmptySet
  <2>4. QED  BY <1>2, <2>1, <2>3
<1>3. CASE s # <<>>
  <2>1. 1 \in DOMAIN s  BY <1>1, <1>3 DEF Rows
  <2>2. s[1] \in PerTheme(T, q)  BY <2>1 DEF Leading
  <2>3. s[1].total_support_qualified_candidates = Qualified(Having(T, q))
    BY <2>2, PerThemeFacts
  <2>4. IndependentCount(s) = Cardinality(Kept(T, q)) /\ Cardinality(Kept(T, q)) \in Nat
    BY <2>3, <1>3, FamilySplit DEF IndependentCount
  <2>5. QED  BY <1>3, <2>4, GdeltAssumption
<1>4. QED  BY <1>2, <1>3

\* A correction happens only with the family within the cap, whatever beginning of
\* the rows was scored.
LEMMA GateOnBeginning ==
    ASSUME NEW T, Table(T), NEW q, ScoringSql(q), NEW s, Leading(s, T, q),
           NEW i \in DOMAIN ScoreRows(s, q.candidate_limit).candidates,
           ScoreRows(s, q.candidate_limit).candidates[i].adjusted_p_value # NULL
    PROVE  Cardinality(Kept(T, q)) <= q.candidate_limit
<1> DEFINE cap == q.candidate_limit
<1>1. i \in DOMAIN RealRows(s)  BY CandidateFacts
<1>2. ScoreRows(s, cap).family_complete  BY <1>1, CandidateFacts
<1>3. FamilyComplete(IndependentCount(s), Len(RealRows(s)), cap)  BY <1>2, ScoreParts
<1>4. Rows(s)  BY DEF Leading
<1>5. s # <<>>
  <2>1. Len(RealRows(s)) # 0  BY <1>1, <1>4, RealRowFacts
  <2>2. QED  BY <2>1, IndependentFacts
<1>6. QED  BY <1>3, <1>5, IndependentFacts DEF FamilyComplete

\* The rows of one query are scored as the whole family, or not corrected.
LEMMA GateOnResult ==
    ASSUME NEW T, Table(T), NEW q, ScoringSql(q), NEW s \in ThemeScoring(T, q)
    PROVE  /\ Cardinality(Kept(T, q)) <= q.candidate_limit =>
                /\ ScoreRows(s, q.candidate_limit).family_complete
                /\ \A i \in DOMAIN ScoreRows(s, q.candidate_limit).candidates :
                    ScoreRows(s, q.candidate_limit).candidates[i].theme \in Kept(T, q)
                /\ \A c \in Kept(T, q) :
                    \E i \in DOMAIN ScoreRows(s, q.candidate_limit).candidates :
                        ScoreRows(s, q.candidate_limit).candidates[i].theme = c
           /\ ScoreRows(s, q.candidate_limit).family_complete =>
                Cardinality(Kept(T, q)) <= q.candidate_limit
<1> DEFINE cap == q.candidate_limit
           cs == ScoreRows(s, cap).candidates
           n == Cardinality(Kept(T, q))
<1>1. Leading(s, T, q)  BY ScoringResult
<1>2. n \in Nat /\ Qualified(Having(T, q)) = n /\ IsFiniteSet(Kept(T, q))  BY FamilySplit
<1>3. cap \in Nat  BY DEF ScoringSql
<1>4. Rows(s)  BY <1>1 DEF Leading
<1>5. Len(RealRows(s)) \in Nat /\ Len(RealRows(s)) <= n
  BY <1>1, <1>4, RealThemes, RealRowFacts
<1>6. ScoreRows(s, cap).family_complete
        <=> FamilyComplete(IndependentCount(s), Len(RealRows(s)), cap)
  BY ScoreParts
<1>7. s = <<>> => n = 0
  <2>1. SUFFICES ASSUME s = <<>> PROVE n = 0  OBVIOUS
  <2>2. PerTheme(T, q) = {}  BY <2>1, ScoringResult
  <2>3. \A c \in Having(T, q) : FALSE  BY <2>2, PerThemeFacts
  <2>4. Kept(T, q) = {}  BY <2>3 DEF Kept
  <2>5. QED  BY <2>4, FS_EmptySet
<1>8. n <= cap <=> ScoreRows(s, cap).family_complete
  <2>1. CASE s = <<>>
    <3>1. IndependentCount(s) = NULL /\ Len(RealRows(s)) = 0  BY <1>1, <2>1, IndependentFacts
    <3> HIDE DEF n, cap
    <3>2. QED  BY <1>3, <1>6, <1>7, <2>1, <3>1 DEF FamilyComplete
  <2>2. CASE s # <<>>
    <3>1. IndependentCount(s) = n /\ IndependentCount(s) # NULL
      BY <1>1, <2>2, IndependentFacts
    <3> HIDE DEF n, cap
    <3>2. QED  BY <1>2, <1>3, <1>5, <1>6, <3>1 DEF FamilyComplete
  <2>3. QED  BY <2>1, <2>2
<1>9. DOMAIN cs = DOMAIN RealRows(s)
      /\ \A i \in DOMAIN RealRows(s) : cs[i].theme = RealRows(s)[i].theme_code
  BY CandidateFacts
<1>10. \A i \in DOMAIN cs : cs[i].theme \in Kept(T, q)
  <2> SUFFICES ASSUME NEW i \in DOMAIN RealRows(s) PROVE RealRows(s)[i].theme_code \in Kept(T, q)
    BY <1>9
  <2>1. PICK p \in RealPlaces(s) : RealRows(s)[i] = s[p]  BY <1>4, RealRowFacts
  <2>2. QED  BY <2>1, <1>1, RealThemes
<1>11. ASSUME n <= cap, NEW c \in Kept(T, q) PROVE \E i \in DOMAIN cs : cs[i].theme = c
  <2>1. Whole(s, T, q)  BY <1>2, <1>11, FamilySplit, ScoringResult
  <2>2. PICK p \in RealPlaces(s) : s[p].theme_code = c  BY <2>1, <1>1, RealThemes
  <2>3. PICK k \in DOMAIN RealRows(s) : RealRows(s)[k] = s[p]  BY <1>4, RealRowFacts
  <2>4. QED  BY <1>9, <2>2, <2>3
<1>12. QED  BY <1>8, <1>10, <1>11

-----------------------------------------------------------------------------
(* The arms, counted on the archive.                                       *)

\* The records of the query that match a seed, and the others.
ArmOf(T, q, seeded) == {r \in Themed(T, q) : (MatchedSeeds(r, q.seeds) # <<>>) = seeded}

LEMMA ArmFacts ==
    ASSUME NEW T, Table(T), NEW q
    PROVE  /\ ArmOf(T, q, TRUE) = Seeded(Themed(T, q), q)
           /\ ArmOf(T, q, TRUE) \cup ArmOf(T, q, FALSE) = Themed(T, q)
           /\ ArmOf(T, q, TRUE) \cap ArmOf(T, q, FALSE) = {}
           /\ ArmOf(T, q, TRUE) \subseteq T /\ ArmOf(T, q, FALSE) \subseteq T
<1>1. Themed(T, q) \subseteq T  BY ThemedTable
<1>2. \A r : (MatchedSeeds(r, q.seeds) # <<>>) \in BOOLEAN  OBVIOUS
<1>3. QED  BY <1>1, <1>2 DEF ArmOf, Seeded

\* The counts of a real theme are those of the records that carry it in each arm.
LEMMA SupportOfTheme ==
    ASSUME NEW T, Table(T), NEW q, ScoringSql(q), NEW c, ~Synthetic(c)
    PROVE  /\ Carrying(T, q, c) = With(ArmOf(T, q, TRUE), c) \cup With(ArmOf(T, q, FALSE), c)
           /\ Seeded(Carrying(T, q, c), q) = With(ArmOf(T, q, TRUE), c)
           /\ SeedSupport(T, q, c) = Cardinality(With(ArmOf(T, q, TRUE), c))
<1>1. \A r \in Themed(T, q) : c \in ThemesPlus(r, q.seeds) <=> c \in ThemesOf(r)
  <2> SUFFICES ASSUME NEW r \in Themed(T, q)
               PROVE  c \in ThemesPlus(r, q.seeds) <=> c \in ThemesOf(r)
    OBVIOUS
  <2>1. r \in T  BY ThemedTable
  <2>2. QED  BY <2>1, ThemesPlusFacts
<1>2. Carrying(T, q, c) = {r \in Themed(T, q) : c \in ThemesOf(r)}  BY <1>1 DEF Carrying
<1> DEFINE A == ArmOf(T, q, TRUE)
           B == ArmOf(T, q, FALSE)
<1>a. A = Seeded(Themed(T, q), q) /\ A \cup B = Themed(T, q)  BY ArmFacts
<1> HIDE DEF A, B
<1>b. Carrying(T, q, c) = With(A, c) \cup With(B, c)  BY <1>2, <1>a DEF With
<1>c. Seeded(Carrying(T, q, c), q) = With(A, c)  BY <1>2, <1>a DEF With, Seeded
<1>3. Carrying(T, q, c) = With(ArmOf(T, q, TRUE), c) \cup With(ArmOf(T, q, FALSE), c)
  BY <1>b DEF A, B
<1>4. Seeded(Carrying(T, q, c), q) = With(ArmOf(T, q, TRUE), c)  BY <1>c DEF A
<1>5. With(ArmOf(T, q, TRUE), c) \subseteq T  BY ArmFacts DEF With
<1>6. SeedSupport(T, q, c) = Cardinality(With(ArmOf(T, q, TRUE), c))
  BY <1>4, <1>5, IdsAreRecords DEF SeedSupport
<1>7. QED  BY <1>3, <1>4, <1>6

\* The themes with the support asked for, counted on the archive.
FamilyOf(T, q) ==
    {c \in UNION {ThemesOf(r) : r \in ArmOf(T, q, TRUE) \cup ArmOf(T, q, FALSE)} :
        Cardinality(With(ArmOf(T, q, TRUE), c)) >= q.min_support}

\* The themes that HAVING keeps are the family.
LEMMA FamilyIs ==
    ASSUME NEW T, Table(T), NEW q, ScoringSql(q)
    PROVE  Kept(T, q) = FamilyOf(T, q)
<1>1. ArmOf(T, q, TRUE) \cup ArmOf(T, q, FALSE) = Themed(T, q)  BY ArmFacts
<1>2. \A r \in Themed(T, q) : r \in T  BY ThemedTable
<1>3. ASSUME NEW c \in Kept(T, q)
      PROVE  /\ \E r \in Themed(T, q) : c \in ThemesOf(r)
             /\ Cardinality(With(ArmOf(T, q, TRUE), c)) >= q.min_support
  <2>1. c \in Having(T, q) /\ ~Synthetic(c)  BY DEF Kept
  <2>2. PICK r \in Themed(T, q) : c \in ThemesPlus(r, q.seeds)  BY <2>1, HavingFacts
  <2>3. c \in ThemesOf(r)  BY <1>2, <2>1, <2>2, ThemesPlusFacts
  <2>4. SeedSupport(T, q, c) >= q.min_support  BY <2>1 DEF Having
  <2>5. QED  BY <2>1, <2>2, <2>3, <2>4, SupportOfTheme
<1>4. ASSUME NEW r \in Themed(T, q), NEW c \in ThemesOf(r),
             Cardinality(With(ArmOf(T, q, TRUE), c)) >= q.min_support
      PROVE  c \in Kept(T, q)
  <2>1. ~Synthetic(c) /\ c \in ThemesPlus(r, q.seeds)  BY <1>2, ThemesCoded, ThemesPlusFacts
  <2>2. SeedSupport(T, q, c) >= q.min_support  BY <2>1, <1>4, SupportOfTheme
  <2>3. c \in Having(T, q)  BY <2>1, <2>2 DEF Having
  <2>4. QED  BY <2>1, <2>3 DEF Kept
<1>5. QED  BY <1>1, <1>3, <1>4 DEF FamilyOf

\* The row of __TOTAL__ comes before every real row, so that the denominators are
\* there wherever there is something to divide.
LEMMA TotalsFirst ==
    ASSUME NEW T, Table(T), NEW q, ScoringSql(q), NEW s, Leading(s, T, q), RealPlaces(s) # {}
    PROVE  /\ TotalOf(s, "seed_record_count") = Cardinality(ArmOf(T, q, TRUE))
           /\ TotalOf(s, "background_record_count") = Cardinality(Themed(T, q))
<1> DEFINE total == {r \in ToSet(s) : r.theme_code = TotalCode}
           A == ArmOf(T, q, TRUE)
<1>1. PICK i \in RealPlaces(s) : TRUE  OBVIOUS
<1>2. i \in DOMAIN s /\ ~Synthetic(s[i].theme_code) /\ s[i] \in PerTheme(T, q)
  BY DEF RealPlaces, Leading
<1>3. PICK r \in Themed(T, q) : s[i].theme_code \in ThemesPlus(r, q.seeds)
  BY <1>2, PerThemeFacts, HavingFacts
<1>4. TotalCode \in Having(T, q)  BY <1>3, HavingFacts
<1>5. PICK p \in PerTheme(T, q) : p.theme_code = TotalCode  BY <1>4, PerThemeFacts
<1>6. ScoringOrder(p, s[i])
  <2>1. Synthetic(TotalCode)  BY DEF Synthetic, TotalCode
  <2>2. Rank(p) = 1 /\ Rank(s[i]) = 0  BY <1>2, <1>5, <2>1 DEF Rank
  <2>3. Leads(Rank(p), p.seed_record_count, p.background_record_count, Place(p.theme_code),
              Rank(s[i]), s[i].seed_record_count, s[i].background_record_count,
              Place(s[i].theme_code))
    BY <2>2 DEF Leads
  <2>4. QED  BY <2>3, OrderOfRows
<1>7. PICK j \in DOMAIN s : s[j] = p  BY <1>2, <1>6 DEF Leading
<1>8. \A r0 \in ToSet(s) : r0 \in PerTheme(T, q)
  <2> SUFFICES ASSUME NEW r0 \in ToSet(s) PROVE r0 \in PerTheme(T, q)  OBVIOUS
  <2>1. PICK k \in DOMAIN s : r0 = s[k]  BY Zenon DEF ToSet
  <2>2. QED  BY <2>1 DEF Leading
<1>9. total = {p}
  <2>1. p \in ToSet(s)  BY <1>7, Zenon DEF ToSet
  <2>2. p \in total  BY <2>1, <1>5
  <2>3. \A r0 \in total : r0 = p  BY <1>5, <1>8, PerThemeFacts
  <2> HIDE DEF total
  <2>4. QED  BY <2>2, <2>3
<1>10. /\ TotalOf(s, "seed_record_count") = p["seed_record_count"]
       /\ TotalOf(s, "background_record_count") = p["background_record_count"]
  <2>1. /\ TotalOf(s, "seed_record_count") =
                IF total = {} THEN NULL ELSE (CHOOSE r0 \in total : TRUE)["seed_record_count"]
        /\ TotalOf(s, "background_record_count") =
                IF total = {} THEN NULL ELSE (CHOOSE r0 \in total : TRUE)["background_record_count"]
    BY DEF TotalOf
  <2> HIDE DEF total
  <2>2. total # {} /\ (CHOOSE r0 \in total : TRUE) = p  BY <1>9
  <2>3. QED  BY <2>1, <2>2
<1>11. /\ p.seed_record_count = SeedSupport(T, q, TotalCode)
       /\ p.background_record_count = DistinctIds(Carrying(T, q, TotalCode))
  BY <1>5, PerThemeFacts
<1>12. Carrying(T, q, TotalCode) = Themed(T, q)  BY DEF Carrying, ThemesPlus
<1>13. A = Seeded(Themed(T, q), q) /\ A \subseteq T  BY ArmFacts
<1>14. SeedSupport(T, q, TotalCode) = Cardinality(A)
  BY <1>12, <1>13, IdsAreRecords DEF SeedSupport
<1>15. DistinctIds(Carrying(T, q, TotalCode)) = Cardinality(Themed(T, q))
  BY <1>12, ThemedTable, IdsAreRecords
<1>16. QED  BY <1>10, <1>11, <1>14, <1>15

\* The rest of a count that was split in two.
LEMMA DiffFacts ==
    ASSUME NEW m \in Nat, NEW n \in Nat
    PROVE  DiffOrNull(m + n, m) = n
<1>1. NULL \notin {m + n, m}  BY GdeltAssumption
<1>2. QED  BY <1>1 DEF DiffOrNull, Missing

LEMMA ArmCounts ==
    ASSUME NEW U, NEW V, IsFiniteSet(U), IsFiniteSet(V), U \cap V = {}
    PROVE  /\ Cardinality(U) \in Nat /\ Cardinality(V) \in Nat
           /\ Cardinality(U \cup V) = Cardinality(U) + Cardinality(V)
<1>1. Cardinality(U) \in Nat /\ Cardinality(V) \in Nat  BY FS_CardinalityType
<1>2. Cardinality(U \cup V) = Cardinality(U) + Cardinality(V) - Cardinality(U \cap V)
  BY FS_Union
<1>3. Cardinality(U \cap V) = 0  BY FS_EmptySet
<1>4. QED  BY <1>1, <1>2, <1>3

\* The 2x2 table of a theme in the archive.
TableOf(T, q, c) ==
    [a |-> Cardinality(With(ArmOf(T, q, TRUE), c)), n1 |-> Cardinality(ArmOf(T, q, TRUE)),
     c |-> Cardinality(With(ArmOf(T, q, FALSE), c)), n0 |-> Cardinality(ArmOf(T, q, FALSE))]

\* So every table is that of the archive.
LEMMA TablesOnBeginning ==
    ASSUME NEW T, Table(T), NEW q, ScoringSql(q), NEW s, Leading(s, T, q), NEW cap,
           NEW i \in DOMAIN ScoreRows(s, cap).candidates
    PROVE  ScoreRows(s, cap).candidates[i].table =
                TableOf(T, q, ScoreRows(s, cap).candidates[i].theme)
<1> DEFINE A == ArmOf(T, q, TRUE)
           B == ArmOf(T, q, FALSE)
           row == RealRows(s)[i]
           theme == row.theme_code
<1>1. i \in DOMAIN RealRows(s)  BY CandidateFacts
<1>2. /\ ScoreRows(s, cap).candidates[i].theme = theme
      /\ ScoreRows(s, cap).candidates[i].table =
            Contingency(row, TotalOf(s, "seed_record_count"), TotalOf(s, "background_record_count"))
  BY <1>1, CandidateFacts
<1>3. PICK p \in RealPlaces(s) : row = s[p]  BY <1>1, RealRowFacts DEF Leading
<1>4. row \in PerTheme(T, q) /\ ~Synthetic(theme)  BY <1>3 DEF RealPlaces, Leading
<1>5. /\ TotalOf(s, "seed_record_count") = Cardinality(A)
      /\ TotalOf(s, "background_record_count") = Cardinality(Themed(T, q))
  BY <1>3, TotalsFirst
<1>6. /\ row.seed_record_count = SeedSupport(T, q, theme)
      /\ row.background_record_count = DistinctIds(Carrying(T, q, theme))
  BY <1>4, PerThemeFacts
<1>7. /\ A \cup B = Themed(T, q) /\ A \cap B = {} /\ A \subseteq T /\ B \subseteq T  BY ArmFacts
<1>8. /\ Carrying(T, q, theme) = With(A, theme) \cup With(B, theme)
      /\ SeedSupport(T, q, theme) = Cardinality(With(A, theme))
  BY <1>4, SupportOfTheme
<1> HIDE DEF A, B, row, theme
<1>9. /\ With(A, theme) \subseteq T /\ With(B, theme) \subseteq T
      /\ With(A, theme) \cap With(B, theme) = {}
  BY <1>7 DEF With
<1> DEFINE W == With(A, theme) \cup With(B, theme)
<1>10. DistinctIds(Carrying(T, q, theme)) = Cardinality(With(A, theme) \cup With(B, theme))
  <2>1. Carrying(T, q, theme) = W /\ W \subseteq T  BY <1>8, <1>9
  <2> HIDE DEF W
  <2>2. DistinctIds(W) = Cardinality(W)  BY <2>1, IdsAreRecords
  <2>3. QED  BY <2>1, <2>2 DEF W
<1>11. /\ Cardinality(With(A, theme)) \in Nat /\ Cardinality(With(B, theme)) \in Nat
       /\ Cardinality(With(A, theme) \cup With(B, theme)) =
            Cardinality(With(A, theme)) + Cardinality(With(B, theme))
  <2> DEFINE X == With(A, theme)
             Y == With(B, theme)
  <2>1. X \subseteq T /\ Y \subseteq T /\ X \cap Y = {}  BY <1>9
  <2> HIDE DEF X, Y
  <2>2. IsFiniteSet(X) /\ IsFiniteSet(Y)  BY <2>1, IdsAreRecords
  <2>3. Cardinality(X) \in Nat /\ Cardinality(Y) \in Nat
        /\ Cardinality(X \cup Y) = Cardinality(X) + Cardinality(Y)
    BY <2>1, <2>2, ArmCounts
  <2>4. QED  BY <2>3 DEF X, Y
<1>12. /\ Cardinality(A) \in Nat /\ Cardinality(B) \in Nat
       /\ Cardinality(Themed(T, q)) = Cardinality(A) + Cardinality(B)
  <2>1. IsFiniteSet(A) /\ IsFiniteSet(B)  BY <1>7, IdsAreRecords
  <2>2. /\ Cardinality(A) \in Nat /\ Cardinality(B) \in Nat
        /\ Cardinality(A \cup B) = Cardinality(A) + Cardinality(B)
    BY <1>7, <2>1, ArmCounts
  <2>3. QED  BY <1>7, <2>2, Zenon
<1>13. /\ DiffOrNull(row.background_record_count, row.seed_record_count) =
            Cardinality(With(B, theme))
       /\ DiffOrNull(Cardinality(Themed(T, q)), Cardinality(A)) = Cardinality(B)
  <2>1. row.background_record_count = Cardinality(With(A, theme)) + Cardinality(With(B, theme))
        /\ row.seed_record_count = Cardinality(With(A, theme))
    BY <1>6, <1>8, <1>10, <1>11
  <2>2. DiffOrNull(Cardinality(With(A, theme)) + Cardinality(With(B, theme)),
                   Cardinality(With(A, theme))) = Cardinality(With(B, theme))
    BY <1>11, DiffFacts
  <2>3. DiffOrNull(Cardinality(A) + Cardinality(B), Cardinality(A)) = Cardinality(B)
    BY <1>12, DiffFacts
  <2>4. QED  BY <2>1, <2>2, <2>3, <1>12
<1>14. Contingency(row, Cardinality(A), Cardinality(Themed(T, q))) =
            [a |-> Cardinality(With(A, theme)), n1 |-> Cardinality(A),
             c |-> Cardinality(With(B, theme)), n0 |-> Cardinality(B)]
  BY <1>6, <1>8, <1>13 DEF Contingency
<1>15. QED  BY <1>2, <1>5, <1>14 DEF A, B, TableOf

-----------------------------------------------------------------------------
(* Beginnings.                                                             *)

LEMMA PrefixFacts ==
    ASSUME NEW r, Rows(r)
    PROVE  /\ IsPrefix(r, r) /\ IsPrefix(<<>>, r) /\ Rows(<<>>)
           /\ \A n \in 1..(Len(r) - 1) :
                Rows(SubSeq(r, 1, n)) /\ IsPrefix(SubSeq(r, 1, n), r)
<1>1. r \in Seq(ToSet(r)) /\ Len(r) \in Nat  BY DEF Rows
<1>2. IsPrefix(r, r)  BY <1>1 DEF IsPrefix
<1>3. IsPrefix(<<>>, r)  BY <1>1, SubSeqEmpty DEF IsPrefix
<1>4. Rows(<<>>)
  <2>1. <<>> \in Seq({})  OBVIOUS
  <2>2. QED  BY <2>1, RowsOfSeq
<1>5. ASSUME NEW n \in 1..(Len(r) - 1)
      PROVE  Rows(SubSeq(r, 1, n)) /\ IsPrefix(SubSeq(r, 1, n), r)
  <2> DEFINE t == SubSeq(r, 1, n)
  <2>1. n \in Nat /\ n <= Len(r)  BY <1>1
  <2>2. t \in Seq(ToSet(r)) /\ FirstOf(t, r, n)  BY <1>1, <2>1, FirstOfSubSeq
  <2>3. Rows(t)  BY <2>2, RowsOfSeq
  <2>4. Len(t) = n  BY <2>2 DEF FirstOf
  <2>5. SubSeq(t, 1, n) = t
    <3>1. SubSeq(t, 1, n) \in Seq(ToSet(r)) /\ FirstOf(SubSeq(t, 1, n), t, n)
      <4> HIDE DEF t
      <4>1. QED  BY <2>1, <2>2, <2>4, FirstOfSubSeq
    <3> HIDE DEF t
    <3> DEFINE u == SubSeq(t, 1, n)
    <3>2. u \in Seq(ToSet(r)) /\ t \in Seq(ToSet(r)) /\ Len(u) = n /\ Len(t) = n
          /\ \A i \in 1..n : u[i] = t[i]
      BY <2>2, <2>4, <3>1 DEF FirstOf
    <3> HIDE DEF u
    <3>3. u = t  BY <3>2
    <3>4. QED  BY <3>3 DEF u
  <2>6. IsPrefix(t, r)  BY <2>1, <2>4, <2>5 DEF IsPrefix
  <2>7. QED  BY <2>3, <2>6
<1>6. QED  BY <1>2, <1>3, <1>4, <1>5

-----------------------------------------------------------------------------
(* What a run may rest on.                                                 *)

LEMMA ScoringQuery ==
    ASSUME NEW req \in Requests, req.task = "scoring"
    PROVE  ScoringSql(Sql(req)) /\ Sql(req).candidate_limit = req.q.candidate_limit
           /\ Sql(req).min_support = req.q.min_support
  BY SeedsFacts, ScoringSettings DEF ScoringSql

LEMMA ResultRows ==
    ASSUME NEW req \in Requests, req.task # "counts", NEW T, Table(T), NEW r \in Results(req, T)
    PROVE  Rows(r)
<1>1. CASE req.task = "discovery"
  <2>1. r \in ThemeDiscovery(T, req.q) /\ req.q.limit \in Nat
    BY <1>1, GdeltAssumption DEF Results, Sql
  <2>2. QED  BY <2>1, DiscoveryRows
<1>2. CASE req.task = "seeded"
  <2>1. r \in SeededDiscovery(T, Sql(req)) /\ Sql(req).limit \in Nat
    BY <1>2, SeedsFacts DEF Results
  <2>2. QED  BY <2>1, SeededRows
<1>3. CASE req.task = "scoring"
  <2>1. r \in ThemeScoring(T, Sql(req)) /\ ScoringSql(Sql(req))
    BY <1>3, ScoringQuery DEF Results
  <2>2. QED  BY <2>1, ScoringResult DEF Leading
<1>4. req.task \in {"counts", "discovery", "seeded", "scoring"}  BY GdeltAssumption
<1>5. QED  BY <1>1, <1>2, <1>3, <1>4

\* Rows that the query of a request returned on a table, or a beginning of them.
Origin(req, rs, T) == \E r \in Results(req, T) : IsPrefix(rs, r)
OwnRows(req, rs, T) == Table(T) /\ (req.task # "counts" => Rows(rs) /\ Origin(req, rs, T))

\* Requests with one key, the counts apart, say the same SQL.
LEMMA OneKeyOneQuery ==
    ASSUME NEW req, NEW other, CacheKey(req) = CacheKey(other), req.task # "counts"
    PROVE  other.task = req.task /\ Sql(other) = Sql(req)
           /\ \A T : Results(other, T) = Results(req, T)
<1>1. CacheKey(req).task = req.task /\ CacheKey(other).task = other.task  BY DEF CacheKey
<1>2. other.task = req.task  BY <1>1
<1>3. CacheKey(req).sql = <<req.name, Sql(req)>> /\ CacheKey(other).sql = <<other.name, Sql(other)>>
  BY <1>2 DEF CacheKey
<1>4. Sql(other) = Sql(req)  BY <1>3
<1>5. QED  BY <1>2, <1>4 DEF Results

LEMMA OwnByKey ==
    ASSUME NEW req, NEW other, CacheKey(req) = CacheKey(other), NEW rs, NEW T,
           OwnRows(req, rs, T)
    PROVE  OwnRows(other, rs, T)
<1>1. CASE req.task # "counts"  BY <1>1, OneKeyOneQuery DEF OwnRows, Origin
<1>2. CASE other.task # "counts"  BY <1>2, OneKeyOneQuery DEF OwnRows, Origin
<1>3. CASE other.task = "counts"  BY <1>3 DEF OwnRows
<1>4. QED  BY <1>1, <1>2, <1>3

-----------------------------------------------------------------------------
(* The inductive invariant.                                                *)

IsRun(r) ==
    r = [status |-> r.status, req |-> r.req, artifacts |-> r.artifacts,
         decision |-> r.decision, rows |-> r.rows, state |-> r.state,
         derived |-> r.derived, summary |-> r.summary, at |-> r.at]

\* A file holds rows of every request that has its key.
FileFor(key, file) ==
    /\ file = [rows |-> file.rows, at |-> file.at]
    /\ \A req \in Requests : CacheKey(req) = key => OwnRows(req, file.rows, file.at)

FilesOwn(files) == \A key \in DOMAIN files : FileFor(key, files[key])

\* The rows a run works on are of its query; the whole of them if it executed it.
RowsOwn(r) ==
    /\ OwnRows(r.req, r.rows, r.at)
    /\ r.decision = "ALLOW" /\ r.req.task # "counts" => r.rows \in Results(r.req, r.at)

\* What is put into the state is the score of those rows.
StateOwn(r) ==
    r.req.task = "scoring" /\ r.state # NULL =>
        HasRows(r.decision) /\ r.state = ScoreRows(r.rows, r.req.q.candidate_limit)

Unscored == {"query", "caching", "result", "rows"}

RunOwn(r) ==
    r.status \in Unscored \cup {"summary", "done"} =>
        /\ IsRun(r) /\ r.req \in Requests
        /\ r.status \in Unscored => r.state = NULL
        /\ r.status \in {"caching", "rows"} => HasRows(r.decision)
        /\ r.status = "caching" => r.decision = "ALLOW"
        /\ r.status # "query" /\ HasRows(r.decision) => RowsOwn(r)
        /\ StateOwn(r)

\* The file that is being written has the table of its run.
FileOpen(r, files) ==
    r.status = "caching" =>
        CacheKey(r.req) \in DOMAIN files /\ files[CacheKey(r.req)].at = r.at

GdeltInv == Table(archive) /\ FilesOwn(cacheFiles) /\ RunOwn(run) /\ FileOpen(run, cacheFiles)

LEMMA GdeltInvInit == TaskInit => GdeltInv
<1> SUFFICES ASSUME TaskInit PROVE GdeltInv  OBVIOUS
<1>1. Table(archive)  BY DEF TaskInit, Table
<1>2. FilesOwn(cacheFiles)  BY DEF TaskInit, FilesOwn
<1>3. run.status = "none"  BY DEF TaskInit, NoRun
<1>4. QED  BY <1>1, <1>2, <1>3 DEF GdeltInv, RunOwn, FileOpen, Unscored

\* A run in a state that has ended leaves nothing to keep.
LEMMA EndedRun ==
    ASSUME NEW r, r.status \in {"rejected", "killed", "failed", "raised"}, NEW files
    PROVE  RunOwn(r) /\ FileOpen(r, files)
  BY DEF RunOwn, FileOpen, Unscored

LEMMA StartingStep ==
    ASSUME GdeltInv, Reject \/ Start
    PROVE  GdeltInv'
<1>1. archive' = archive /\ cacheFiles' = cacheFiles  BY DEF Reject, Start
<1>2. RunOwn(run') /\ FileOpen(run', cacheFiles)
  <2>1. CASE Reject
    <3>1. run'.status = "rejected"  BY <2>1 DEF Reject, Fresh
    <3>2. QED  BY <3>1, EndedRun
  <2>2. CASE Start
    <3>1. PICK req \in Requests : run' = Fresh(req)  BY <2>2 DEF Start
    <3> DEFINE r == Fresh(req)
    <3>2. IsRun(r) /\ r.status = "query" /\ r.req = req /\ r.state = NULL  BY DEF IsRun, Fresh
    <3> HIDE DEF r
    <3>3. RunOwn(r) /\ FileOpen(r, cacheFiles)
      BY <3>2 DEF RunOwn, FileOpen, StateOwn, Unscored
    <3>4. QED  BY <3>1, <3>3 DEF r
  <2>3. QED  BY <2>1, <2>2
<1>3. QED  BY <1>1, <1>2 DEF GdeltInv

\* A run whose query returned nothing.
LEMMA NothingReturned ==
    ASSUME GdeltInv, run.status = "query", NEW outcome, ~HasRows(outcome),
           run' = [run EXCEPT !.status = "result", !.decision = outcome],
           UNCHANGED <<archive, cacheFiles>>
    PROVE  GdeltInv'
<1>1. IsRun(run) /\ run.req \in Requests /\ run.state = NULL
  BY DEF GdeltInv, RunOwn, Unscored
<1>2. /\ IsRun(run') /\ run'.status = "result" /\ run'.decision = outcome
      /\ run'.req = run.req /\ run'.state = NULL
  BY <1>1 DEF IsRun
<1>3. RunOwn(run') /\ FileOpen(run', cacheFiles)
  BY <1>1, <1>2 DEF RunOwn, FileOpen, StateOwn, Unscored
<1>4. QED  BY <1>3 DEF GdeltInv

LEMMA ServeStep ==
    ASSUME GdeltInv, ServeFromCache
    PROVE  GdeltInv'
<1> DEFINE key == CacheKey(run.req)
           file == cacheFiles[key]
<1>1. IsRun(run) /\ run.req \in Requests /\ run.state = NULL
  BY DEF GdeltInv, RunOwn, ServeFromCache, Unscored
<1>2. key \in DOMAIN cacheFiles  BY DEF ServeFromCache, Cached, Key
<1>3. OwnRows(run.req, file.rows, file.at)
  BY <1>1, <1>2 DEF GdeltInv, FilesOwn, FileFor
<1>4. /\ run' = [run EXCEPT !.status = "result", !.decision = "USE_CACHE",
                            !.rows = file.rows, !.at = file.at]
      /\ archive' = archive /\ cacheFiles' = cacheFiles
  BY DEF ServeFromCache, Key
<1> HIDE DEF file
<1>5. /\ IsRun(run') /\ run'.status = "result" /\ run'.decision = "USE_CACHE"
      /\ run'.req = run.req /\ run'.state = NULL /\ run'.rows = file.rows /\ run'.at = file.at
  BY <1>1, <1>4 DEF IsRun
<1>6. RowsOwn(run')  BY <1>3, <1>5 DEF RowsOwn
<1>7. RunOwn(run') /\ FileOpen(run', cacheFiles)
  BY <1>1, <1>5, <1>6 DEF RunOwn, FileOpen, StateOwn, Unscored
<1>8. QED  BY <1>4, <1>7 DEF GdeltInv

LEMMA ExecuteStep ==
    ASSUME GdeltInv, ExecuteQuery
    PROVE  GdeltInv'
<1> DEFINE key == CacheKey(run.req)
<1>1. IsRun(run) /\ run.req \in Requests /\ run.state = NULL /\ Table(archive)
  BY DEF GdeltInv, RunOwn, ExecuteQuery, Unscored
<1>2. PICK got \in Results(run.req, archive) :
        /\ run' = [run EXCEPT !.status = "caching", !.decision = "ALLOW",
                              !.rows = got, !.at = archive]
        /\ cacheFiles' = [k \in DOMAIN cacheFiles \cup {key} |->
                IF k = key THEN [rows |-> <<>>, at |-> archive] ELSE cacheFiles[k]]
        /\ archive' = archive
  BY DEF ExecuteQuery, Key
<1>3. /\ IsRun(run') /\ run'.status = "caching" /\ run'.decision = "ALLOW"
      /\ run'.req = run.req /\ run'.state = NULL /\ run'.rows = got /\ run'.at = archive
  BY <1>1, <1>2 DEF IsRun
<1>4. run.req.task # "counts" => Rows(got) /\ IsPrefix(got, got) /\ IsPrefix(<<>>, got) /\ Rows(<<>>)
  BY <1>1, ResultRows, PrefixFacts
<1>5. OwnRows(run.req, got, archive) /\ OwnRows(run.req, <<>>, archive)
  BY <1>1, <1>4 DEF OwnRows, Origin
<1>6. RowsOwn(run')  BY <1>3, <1>5 DEF RowsOwn
<1>7. RunOwn(run')  BY <1>1, <1>3, <1>6 DEF RunOwn, StateOwn, Unscored, HasRows
<1>8. ASSUME NEW k \in DOMAIN cacheFiles' PROVE FileFor(k, cacheFiles'[k])
  <2>1. CASE k = key
    <3> DEFINE f == [rows |-> <<>>, at |-> archive]
    <3>1. cacheFiles'[k] = f  BY <1>2, <2>1
    <3>2. \A req \in Requests : CacheKey(req) = k => OwnRows(req, <<>>, archive)
      BY <1>5, <2>1, OwnByKey
    <3>3. f = [rows |-> f.rows, at |-> f.at] /\ f.rows = <<>> /\ f.at = archive  OBVIOUS
    <3> HIDE DEF f
    <3>4. QED  BY <3>1, <3>2, <3>3 DEF FileFor
  <2>2. CASE k # key
    <3>1. k \in DOMAIN cacheFiles /\ cacheFiles'[k] = cacheFiles[k]  BY <1>2, <2>2
    <3>2. QED  BY <3>1 DEF GdeltInv, FilesOwn
  <2>3. QED  BY <2>1, <2>2
<1>9. FileOpen(run', cacheFiles')
  <2>1. key \in DOMAIN cacheFiles' /\ cacheFiles'[key].at = archive  BY <1>2
  <2>2. QED  BY <1>3, <2>1 DEF FileOpen
<1>10. QED  BY <1>1, <1>2, <1>7, <1>8, <1>9 DEF GdeltInv, FilesOwn

\* The rows of the file that is open are replaced by more of what the run holds.
LEMMA FilesStep ==
    ASSUME GdeltInv, run.status = "caching", NEW rs, OwnRows(run.req, rs, run.at),
           cacheFiles' = [cacheFiles EXCEPT ![CacheKey(run.req)].rows = rs]
    PROVE  /\ FilesOwn(cacheFiles') /\ DOMAIN cacheFiles' = DOMAIN cacheFiles
           /\ cacheFiles'[CacheKey(run.req)].at = run.at
<1> DEFINE key == CacheKey(run.req)
           f == [cacheFiles[key] EXCEPT !.rows = rs]
<1>1. key \in DOMAIN cacheFiles /\ cacheFiles[key].at = run.at  BY DEF GdeltInv, FileOpen
<1>2. FileFor(key, cacheFiles[key])  BY <1>1 DEF GdeltInv, FilesOwn
<1>3. f = [rows |-> f.rows, at |-> f.at] /\ f.rows = rs /\ f.at = run.at
  BY <1>1, <1>2 DEF FileFor
<1>4. DOMAIN cacheFiles' = DOMAIN cacheFiles /\ cacheFiles'[key] = f
      /\ \A k \in DOMAIN cacheFiles : k # key => cacheFiles'[k] = cacheFiles[k]
  BY <1>1
<1>5. \A req \in Requests : CacheKey(req) = key => OwnRows(req, rs, run.at)  BY OwnByKey
<1> HIDE DEF f
<1>6. FileFor(key, f)  BY <1>3, <1>5 DEF FileFor
<1>7. \A k \in DOMAIN cacheFiles' : FileFor(k, cacheFiles'[k])
  BY <1>4, <1>6 DEF GdeltInv, FilesOwn
<1>8. QED  BY <1>3, <1>4, <1>7 DEF FilesOwn

LEMMA FlushStep ==
    ASSUME GdeltInv, FlushCache
    PROVE  GdeltInv'
<1>1. run.req \in Requests /\ RowsOwn(run) /\ run.decision = "ALLOW" /\ run.status = "caching"
  BY DEF GdeltInv, RunOwn, FlushCache, Unscored, HasRows
<1>2. PICK n \in 1..(Len(run.rows) - 1) :
        cacheFiles' = [cacheFiles EXCEPT ![CacheKey(run.req)].rows = SubSeq(run.rows, 1, n)]
  BY DEF FlushCache, Key
<1>3. OwnRows(run.req, SubSeq(run.rows, 1, n), run.at)
  <2>1. Table(run.at)  BY <1>1 DEF RowsOwn, OwnRows
  <2>2. CASE run.req.task # "counts"
    <3>1. run.rows \in Results(run.req, run.at)  BY <1>1, <2>2 DEF RowsOwn
    <3>2. Rows(run.rows)  BY <1>1, <2>1, <2>2, <3>1, ResultRows
    <3>3. Rows(SubSeq(run.rows, 1, n)) /\ IsPrefix(SubSeq(run.rows, 1, n), run.rows)
      BY <3>2, PrefixFacts
    <3>4. QED  BY <2>1, <3>1, <3>3 DEF OwnRows, Origin
  <2>3. CASE run.req.task = "counts"  BY <2>1, <2>3 DEF OwnRows
  <2>4. QED  BY <2>2, <2>3
<1>4. /\ FilesOwn(cacheFiles') /\ DOMAIN cacheFiles' = DOMAIN cacheFiles
      /\ cacheFiles'[CacheKey(run.req)].at = run.at
  BY <1>1, <1>2, <1>3, FilesStep
<1>5. archive' = archive /\ run' = run  BY DEF FlushCache
<1>6. FileOpen(run', cacheFiles')  BY <1>4, <1>5 DEF GdeltInv, FileOpen
<1>7. QED  BY <1>4, <1>5, <1>6 DEF GdeltInv

LEMMA CloseStep ==
    ASSUME GdeltInv, CloseCache
    PROVE  GdeltInv'
<1>1. /\ IsRun(run) /\ run.req \in Requests /\ RowsOwn(run) /\ run.decision = "ALLOW"
      /\ run.status = "caching" /\ run.state = NULL
  BY DEF GdeltInv, RunOwn, CloseCache, Unscored, HasRows
<1>2. FilesOwn(cacheFiles')
  BY <1>1, FilesStep DEF RowsOwn, CloseCache, Key
<1>3. run' = [run EXCEPT !.status = "result"] /\ archive' = archive  BY DEF CloseCache
<1>4. /\ IsRun(run') /\ run'.status = "result" /\ run'.decision = run.decision
      /\ run'.req = run.req /\ run'.state = NULL /\ run'.rows = run.rows /\ run'.at = run.at
  BY <1>1, <1>3 DEF IsRun
<1>5. RowsOwn(run')  BY <1>1, <1>4 DEF RowsOwn
<1>6. RunOwn(run') /\ FileOpen(run', cacheFiles')
  BY <1>1, <1>4, <1>5 DEF RunOwn, FileOpen, StateOwn, Unscored
<1>7. QED  BY <1>2, <1>3, <1>6 DEF GdeltInv

LEMMA DecisionStep ==
    ASSUME GdeltInv, WriteDecision
    PROVE  GdeltInv'
<1>1. /\ IsRun(run) /\ run.req \in Requests /\ run.status = "result" /\ run.state = NULL
      /\ HasRows(run.decision) => RowsOwn(run)
  BY DEF GdeltInv, RunOwn, WriteDecision, Unscored
<1>2. /\ run' = [run EXCEPT !.artifacts = @ \cup {"estimate", "decision"},
                            !.status = IF HasRows(run.decision) THEN "rows" ELSE "summary"]
      /\ archive' = archive /\ cacheFiles' = cacheFiles
  BY DEF WriteDecision
<1>3. /\ IsRun(run') /\ run'.status = (IF HasRows(run.decision) THEN "rows" ELSE "summary")
      /\ run'.decision = run.decision
      /\ run'.req = run.req /\ run'.state = NULL /\ run'.rows = run.rows /\ run'.at = run.at
  BY <1>1, <1>2 DEF IsRun
<1>4. HasRows(run'.decision) => RowsOwn(run')  BY <1>1, <1>3 DEF RowsOwn
<1>5. RunOwn(run') /\ FileOpen(run', cacheFiles)
  BY <1>1, <1>3, <1>4 DEF RunOwn, FileOpen, StateOwn, Unscored
<1>6. QED  BY <1>2, <1>5 DEF GdeltInv

LEMMA RowsStep ==
    ASSUME GdeltInv, WriteRows
    PROVE  GdeltInv'
<1>1. /\ IsRun(run) /\ run.req \in Requests /\ run.status = "rows"
      /\ HasRows(run.decision) /\ RowsOwn(run)
  BY DEF GdeltInv, RunOwn, WriteRows, Unscored
<1>2. PICK derived, artifacts :
        /\ run' = [run EXCEPT !.state = Exposed(run.req, run.rows), !.derived = derived,
                              !.artifacts = artifacts, !.status = "summary"]
        /\ archive' = archive /\ cacheFiles' = cacheFiles
  BY Zenon DEF WriteRows
<1>3. /\ IsRun(run') /\ run'.status = "summary" /\ run'.decision = run.decision
      /\ run'.state = Exposed(run.req, run.rows)
      /\ run'.req = run.req /\ run'.rows = run.rows /\ run'.at = run.at
  BY <1>1, <1>2 DEF IsRun
<1>4. RowsOwn(run')  BY <1>1, <1>3 DEF RowsOwn
<1>5. run.req.task = "scoring" =>
        Exposed(run.req, run.rows) = ScoreRows(run.rows, run.req.q.candidate_limit)
  BY DEF Exposed
<1>6. StateOwn(run')  BY <1>1, <1>3, <1>5 DEF StateOwn
<1>7. RunOwn(run') /\ FileOpen(run', cacheFiles)
  BY <1>1, <1>3, <1>4, <1>6 DEF RunOwn, FileOpen, Unscored
<1>8. QED  BY <1>2, <1>7 DEF GdeltInv

LEMMA SummaryStep ==
    ASSUME GdeltInv, WriteSummary
    PROVE  GdeltInv'
<1>1. /\ IsRun(run) /\ run.req \in Requests /\ run.status = "summary"
      /\ HasRows(run.decision) => RowsOwn(run)
      /\ StateOwn(run)
  BY DEF GdeltInv, RunOwn, WriteSummary, Unscored
<1>2. PICK summary, artifacts :
        /\ run' = [run EXCEPT !.summary = summary, !.artifacts = artifacts,
                              !.status = IF Blocked(run.decision) THEN "raised" ELSE "done"]
        /\ archive' = archive /\ cacheFiles' = cacheFiles
  BY Zenon DEF WriteSummary
<1>3. /\ IsRun(run') /\ run'.status = (IF Blocked(run.decision) THEN "raised" ELSE "done")
      /\ run'.decision = run.decision /\ run'.state = run.state
      /\ run'.req = run.req /\ run'.rows = run.rows /\ run'.at = run.at
  BY <1>1, <1>2 DEF IsRun
<1>4. HasRows(run'.decision) => RowsOwn(run')  BY <1>1, <1>3 DEF RowsOwn
<1>5. StateOwn(run')  BY <1>1, <1>3 DEF StateOwn
<1>6. RunOwn(run') /\ FileOpen(run', cacheFiles)
  BY <1>1, <1>3, <1>4, <1>5 DEF RunOwn, FileOpen, Unscored
<1>7. QED  BY <1>2, <1>6 DEF GdeltInv

\* An error, a kill or a record that arrives touches none of it.
LEMMA OutsideStep ==
    ASSUME GdeltInv, ClientError \/ Kill \/ Publish
    PROVE  GdeltInv'
<1>1. CASE ClientError \/ Kill
  <2>1. IsRun(run)
    BY <1>1 DEF GdeltInv, RunOwn, ClientError, Kill, Idle, Unscored
  <2>2. run'.status \in {"failed", "killed"}  BY <1>1, <2>1 DEF ClientError, Kill, IsRun
  <2>3. archive' = archive /\ cacheFiles' = cacheFiles  BY <1>1 DEF ClientError, Kill
  <2>4. RunOwn(run') /\ FileOpen(run', cacheFiles)  BY <2>2, EndedRun
  <2>5. QED  BY <2>3, <2>4 DEF GdeltInv
<1>2. CASE Publish
  <2>1. cacheFiles' = cacheFiles /\ run' = run  BY <1>2 DEF Publish
  <2>2. Table(archive')  BY <1>2 DEF Publish, GdeltInv, Table
  <2>3. QED  BY <2>1, <2>2 DEF GdeltInv
<1>3. QED  BY <1>1, <1>2

LEMMA GdeltInvNext == GdeltInv /\ [TaskNext]_taskVars => GdeltInv'
<1> SUFFICES ASSUME GdeltInv, [TaskNext]_taskVars PROVE GdeltInv'  OBVIOUS
<1>1. CASE Reject \/ Start  BY <1>1, StartingStep
<1>2. CASE ServeFromCache  BY <1>2, ServeStep
<1>3. CASE DryRunOnly
  <2>1. ~HasRows("DRY_RUN_ONLY")  BY DEF HasRows
  <2>2. QED  BY <1>3, <2>1, NothingReturned DEF DryRunOnly
<1>4. CASE BlockQuery
  <2>1. PICK outcome \in {"BLOCK_OVER_MAX_BYTES", "BLOCK_MISSING_EXECUTE_CONFIRMATION"} :
            run' = [run EXCEPT !.status = "result", !.decision = outcome]
    BY <1>4 DEF BlockQuery
  <2>2. ~HasRows(outcome)  BY <2>1 DEF HasRows
  <2>3. QED  BY <1>4, <2>1, <2>2, NothingReturned DEF BlockQuery
<1>5. CASE ExecuteQuery  BY <1>5, ExecuteStep
<1>6. CASE FlushCache  BY <1>6, FlushStep
<1>7. CASE CloseCache  BY <1>7, CloseStep
<1>8. CASE WriteDecision  BY <1>8, DecisionStep
<1>9. CASE WriteRows  BY <1>9, RowsStep
<1>10. CASE WriteSummary  BY <1>10, SummaryStep
<1>11. CASE ClientError \/ Kill \/ Publish  BY <1>11, OutsideStep
<1>12. CASE UNCHANGED taskVars
  BY <1>12 DEF taskVars, GdeltInv, Table, FilesOwn, RunOwn, FileOpen
<1>13. QED
  BY <1>1, <1>2, <1>3, <1>4, <1>5, <1>6, <1>7, <1>8, <1>9, <1>10, <1>11, <1>12 DEF TaskNext

-----------------------------------------------------------------------------
(* The theorems.                                                           *)

\* GdeltInv holds in every reachable state: every file of data/cache holds rows of each
\* request that shares its key, and every run works on rows of its own query.
THEOREM FilesKeptByQuery == TaskSpec => []GdeltInv
<1>1. TaskInit => GdeltInv  BY GdeltInvInit
<1>2. GdeltInv /\ [TaskNext]_taskVars => GdeltInv'  BY GdeltInvNext
<1>3. QED  BY <1>1, <1>2, PTL DEF TaskSpec

\* A served run that is no counts run works on rows of its own SQL (build_cache_key).
THEOREM CacheServesOwnQueryHolds == TaskSpec => []CacheServesOwnQuery
<1>1. GdeltInv => CacheServesOwnQuery
  <2> SUFFICES ASSUME GdeltInv, Served, run.req.task # "counts"
               PROVE  \E got \in Results(run.req, run.at) : IsPrefix(run.rows, got)
    BY DEF CacheServesOwnQuery
  <2>1. RowsOwn(run)  BY DEF GdeltInv, RunOwn, Served, Unscored
  <2>2. QED  BY <2>1 DEF RowsOwn, OwnRows, Origin
<1>2. QED  BY <1>1, FilesKeptByQuery, PTL

\* What a finished scoring run has scored.
LEMMA ScoredFacts ==
    ASSUME GdeltInv, Scored
    PROVE  /\ Table(run.at) /\ ScoringSql(Sql(run.req))
           /\ Sql(run.req).candidate_limit = run.req.q.candidate_limit
           /\ Sql(run.req).min_support = run.req.q.min_support
           /\ Leading(run.rows, run.at, Sql(run.req))
           /\ run.state = ScoreRows(run.rows, run.req.q.candidate_limit)
           /\ run.decision = "ALLOW" => run.rows \in ThemeScoring(run.at, Sql(run.req))
           /\ \A seeded : Arm(seeded) = ArmOf(run.at, Sql(run.req), seeded)
<1> DEFINE q == Sql(run.req)
<1>1. /\ run.req \in Requests /\ run.req.task = "scoring" /\ RowsOwn(run)
      /\ run.state = ScoreRows(run.rows, run.req.q.candidate_limit)
  BY DEF GdeltInv, RunOwn, StateOwn, Scored, Unscored
<1>2. /\ ScoringSql(q) /\ q.candidate_limit = run.req.q.candidate_limit
      /\ q.min_support = run.req.q.min_support
  BY <1>1, ScoringQuery
<1>3. Table(run.at) /\ Rows(run.rows) /\ Origin(run.req, run.rows, run.at)
  BY <1>1 DEF RowsOwn, OwnRows
<1>4. Results(run.req, run.at) = ThemeScoring(run.at, q)  BY <1>1 DEF Results
<1>5. PICK got \in ThemeScoring(run.at, q) : IsPrefix(run.rows, got)
  BY <1>3, <1>4 DEF Origin
<1>6. run.decision = "ALLOW" => run.rows \in ThemeScoring(run.at, q)
  BY <1>1, <1>4 DEF RowsOwn
<1>7. \A seeded : Arm(seeded) = ArmOf(run.at, q, seeded)
  BY <1>1, SeedsFacts DEF Arm, ArmOf
<1> HIDE DEF q
<1>8. Leading(run.rows, run.at, q)
  <2>1. Leading(got, run.at, q)  BY <1>2, <1>3, <1>5, ScoringResult
  <2>2. Orders(PerTheme(run.at, q), RowOrder(run.at, q))  BY <1>2, <1>3, PerThemeOrdered
  <2>3. QED  BY <1>3, <1>5, <2>1, <2>2, LeadingPrefix
<1>9. QED  BY <1>1, <1>2, <1>3, <1>6, <1>7, <1>8 DEF q

\* Benjamini-Hochberg is admitted exactly for a family within the cap (score.py's gate
\* and the LIMIT of the scoring SQL).
THEOREM FamilyGateHolds == TaskSpec => []FamilyGate
<1>1. GdeltInv => FamilyGate
  <2> DEFINE T == run.at
             q == Sql(run.req)
             cap == run.req.q.candidate_limit
             cs == run.state.candidates
  <2> SUFFICES ASSUME GdeltInv, Scored
               PROVE  /\ (\E i \in DOMAIN cs : cs[i].adjusted_p_value # NULL)
                            => Cardinality(Family) <= cap
                      /\ run.decision = "ALLOW" =>
                            IF Cardinality(Family) <= cap
                            THEN run.state.family_complete
                                 /\ {cs[i].theme : i \in DOMAIN cs} = Family
                            ELSE ~run.state.family_complete
    BY DEF FamilyGate
  <2>1. /\ Table(T) /\ ScoringSql(q) /\ q.candidate_limit = cap
        /\ q.min_support = run.req.q.min_support /\ Leading(run.rows, T, q)
        /\ run.state = ScoreRows(run.rows, cap)
        /\ run.decision = "ALLOW" => run.rows \in ThemeScoring(T, q)
        /\ \A seeded : Arm(seeded) = ArmOf(T, q, seeded)
    BY ScoredFacts
  <2>2. Family = Kept(T, q)
    <3>1. Arm(TRUE) = ArmOf(T, q, TRUE) /\ Arm(FALSE) = ArmOf(T, q, FALSE)  BY <2>1
    <3> HIDE DEF T, q
    <3>2. Kept(T, q) = FamilyOf(T, q)  BY <2>1, FamilyIs
    <3>3. Family = FamilyOf(T, q)  BY <2>1, <3>1 DEF Family, FamilyOf
    <3>4. QED  BY <3>2, <3>3
  <2> HIDE DEF T, q, cap
  <2>3. ASSUME NEW i \in DOMAIN cs, cs[i].adjusted_p_value # NULL
        PROVE  Cardinality(Family) <= cap
    BY <2>1, <2>2, <2>3, GateOnBeginning
  <2>4. ASSUME run.decision = "ALLOW"
        PROVE  IF Cardinality(Family) <= cap
               THEN run.state.family_complete /\ {cs[i].theme : i \in DOMAIN cs} = Family
               ELSE ~run.state.family_complete
    <3>1. /\ Cardinality(Kept(T, q)) <= q.candidate_limit =>
                /\ ScoreRows(run.rows, q.candidate_limit).family_complete
                /\ \A i \in DOMAIN ScoreRows(run.rows, q.candidate_limit).candidates :
                    ScoreRows(run.rows, q.candidate_limit).candidates[i].theme \in Kept(T, q)
                /\ \A c \in Kept(T, q) :
                    \E i \in DOMAIN ScoreRows(run.rows, q.candidate_limit).candidates :
                        ScoreRows(run.rows, q.candidate_limit).candidates[i].theme = c
          /\ ScoreRows(run.rows, q.candidate_limit).family_complete =>
                Cardinality(Kept(T, q)) <= q.candidate_limit
      BY <2>1, <2>4, GateOnResult
    <3>2. /\ Cardinality(Family) <= cap =>
                /\ run.state.family_complete
                /\ \A i \in DOMAIN cs : cs[i].theme \in Family
                /\ \A c \in Family : \E i \in DOMAIN cs : cs[i].theme = c
          /\ run.state.family_complete => Cardinality(Family) <= cap
      BY <2>1, <2>2, <3>1
    <3> HIDE DEF cs
    <3>3. QED  BY <3>2
  <2>5. QED  BY <2>3, <2>4
<1>2. QED  BY <1>1, FilesKeptByQuery, PTL

\* The table of every candidate is that of the archive (DiffOrNull of the two counts,
\* the __TOTAL__ row as denominator), also where a torn file was scored.
THEOREM TablesSplitHolds == TaskSpec => []TablesSplit
<1>1. GdeltInv => TablesSplit
  <2> DEFINE q == Sql(run.req)
             cs == run.state.candidates
  <2> SUFFICES ASSUME GdeltInv, Scored, NEW i \in DOMAIN cs
               PROVE  cs[i].table = [a |-> Cardinality(With(Arm(TRUE), cs[i].theme)),
                                     n1 |-> Cardinality(Arm(TRUE)),
                                     c |-> Cardinality(With(Arm(FALSE), cs[i].theme)),
                                     n0 |-> Cardinality(Arm(FALSE))]
    BY DEF TablesSplit
  <2>1. /\ Table(run.at) /\ ScoringSql(q) /\ Leading(run.rows, run.at, q)
        /\ run.state = ScoreRows(run.rows, run.req.q.candidate_limit)
        /\ \A seeded : Arm(seeded) = ArmOf(run.at, q, seeded)
    BY ScoredFacts
  <2>2. Arm(TRUE) = ArmOf(run.at, q, TRUE) /\ Arm(FALSE) = ArmOf(run.at, q, FALSE)  BY <2>1
  <2> HIDE DEF q
  <2>3. cs[i].table = TableOf(run.at, q, cs[i].theme)  BY <2>1, TablesOnBeginning
  <2>4. QED  BY <2>2, <2>3 DEF TableOf
<1>2. QED  BY <1>1, FilesKeptByQuery, PTL

-----------------------------------------------------------------------------
(* Least numbers and factorials.                                           *)

LEMMA LeastNatural ==
    ASSUME NEW T, T \subseteq Nat, T # {}
    PROVE  \E m \in T : \A n \in T : m <= n
<1>1. PICK m \in T : \A n \in T : <<n, m>> \notin OpToRel(<, Nat)
  BY NatLessThanWellFounded, WFMin, Zenon
<1>2. \A n, k \in Nat : n < k => <<n, k>> \in OpToRel(<, Nat)
  BY Zenon DEF OpToRel
<1>3. \A n \in T : ~(n < m)  BY <1>1, <1>2, Zenon
<1>4. QED  BY <1>3

LEMMA LeastOf ==
    ASSUME NEW T, T \subseteq Nat, NEW x \in T, \A y \in T : x <= y
    PROVE  Min(T) = x
<1>1. Min(T) \in T /\ \A y \in T : Min(T) <= y
  <2>1. \E z \in T : \A y \in T : z <= y  OBVIOUS
  <2>2. QED  BY <2>1, Zenon DEF Min
<1>2. x \in Nat /\ Min(T) \in Nat  BY <1>1
<1>3. x <= Min(T) /\ Min(T) <= x  BY <1>1
<1>4. QED  BY <1>2, <1>3

LEMMA LeastExists ==
    ASSUME NEW T, T \subseteq Nat, T # {}
    PROVE  Min(T) \in T /\ \A y \in T : Min(T) <= y
<1>1. PICK x \in T : \A y \in T : x <= y  BY LeastNatural
<1>2. Min(T) = x  BY <1>1, LeastOf
<1>3. QED  BY <1>1, <1>2

\* A beginning of the factorials.
Products(h, n) ==
    /\ DOMAIN h = 0..n /\ h[0] = 1
    /\ \A k \in 0..n : h[k] \in Nat \ {0}
    /\ \A k \in 1..n : h[k] = k * h[k - 1]

LEMMA ProductsExist ==
    ASSUME NEW n \in Nat
    PROVE  \E h : Products(h, n)
<1> DEFINE bad == {k \in Nat : ~\E h : Products(h, k)}
<1>1. bad = {}
  <2> SUFFICES ASSUME bad # {} PROVE FALSE  OBVIOUS
  <2>1. PICK k \in bad : \A j \in bad : k <= j
    <3>1. bad \subseteq Nat  OBVIOUS
    <3> HIDE DEF bad
    <3>2. QED  BY <3>1, LeastNatural
  <2>2. k \in Nat /\ ~\E h : Products(h, k)  BY <2>1
  <2>3. CASE k = 0
    <3> DEFINE h == [j \in 0..0 |-> 1]
    <3>1. Products(h, 0)  BY DEF Products
    <3>2. QED  BY <2>2, <2>3, <3>1
  <2>4. CASE k # 0
    <3>1. k - 1 \in Nat /\ k - 1 \notin bad  BY <2>1, <2>2, <2>4
    <3>2. PICK g : Products(g, k - 1)  BY <3>1
    <3> DEFINE h == [j \in 0..k |-> IF j = k THEN k * g[k - 1] ELSE g[j]]
    <3>3. DOMAIN h = 0..k /\ h[0] = 1 /\ h[k] = k * g[k - 1]
          /\ \A j \in 0..(k - 1) : h[j] = g[j]
      BY <2>2, <2>4, <3>2 DEF Products
    <3> HIDE DEF h
    <3>4. g[k - 1] \in Nat \ {0}  BY <2>2, <2>4, <3>2 DEF Products
    <3>5. k * g[k - 1] \in Nat \ {0}  BY <2>2, <2>4, <3>4
    <3>6. ASSUME NEW j \in 0..k PROVE h[j] \in Nat \ {0}
      <4>1. CASE j = k  BY <3>3, <3>5, <4>1
      <4>2. CASE j # k
        <5>1. j \in 0..(k - 1)  BY <2>2, <4>2
        <5>2. QED  BY <3>2, <3>3, <5>1 DEF Products
      <4>3. QED  BY <4>1, <4>2
    <3>7. ASSUME NEW j \in 1..k PROVE h[j] = j * h[j - 1]
      <4>1. CASE j = k  BY <2>2, <2>4, <3>3, <4>1
      <4>2. CASE j # k
        <5>1. j \in 1..(k - 1) /\ j - 1 \in 0..(k - 1) /\ j \in 0..(k - 1)  BY <2>2, <4>2
        <5>2. QED  BY <3>2, <3>3, <5>1 DEF Products
      <4>3. QED  BY <4>1, <4>2
    <3>8. Products(h, k)  BY <3>3, <3>6, <3>7 DEF Products
    <3>9. QED  BY <2>2, <3>8
  <2>5. QED  BY <2>3, <2>4
<1>2. QED  BY <1>1

LEMMA ProductsAgree ==
    ASSUME NEW n \in Nat, NEW m \in Nat, NEW g, Products(g, n), NEW h, Products(h, m)
    PROVE  \A k \in Nat : k <= n /\ k <= m => g[k] = h[k]
<1> DEFINE bad == {k \in Nat : k <= n /\ k <= m /\ g[k] # h[k]}
<1>1. bad = {}
  <2> SUFFICES ASSUME bad # {} PROVE FALSE  OBVIOUS
  <2>1. PICK k \in bad : \A j \in bad : k <= j
    <3>1. bad \subseteq Nat  OBVIOUS
    <3> HIDE DEF bad
    <3>2. QED  BY <3>1, LeastNatural
  <2>2. k \in Nat /\ k <= n /\ k <= m /\ g[k] # h[k]  BY <2>1
  <2>3. k # 0  BY <2>2 DEF Products
  <2>4. k - 1 \in Nat /\ k - 1 \notin bad  BY <2>1, <2>2, <2>3
  <2>5. g[k - 1] = h[k - 1]  BY <2>2, <2>4
  <2>6. k \in 1..n /\ k \in 1..m  BY <2>2, <2>3
  <2>7. g[k] = k * g[k - 1] /\ h[k] = k * h[k - 1]  BY <2>6 DEF Products
  <2>8. QED  BY <2>2, <2>5, <2>7
<1>2. QED  BY <1>1

LEMMA FactorialFacts ==
    /\ factorial[0] = 1
    /\ \A n \in Nat : factorial[n] \in Nat \ {0}
    /\ \A n \in Nat : n # 0 => factorial[n] = n * factorial[n - 1]
<1> DEFINE h(n) == CHOOSE g : Products(g, n)
           Follows(f) == f = [n \in Nat |-> IF n = 0 THEN 1 ELSE n * f[n - 1]]
           f0 == [n \in Nat |-> h(n)[n]]
<1>1. \A n \in Nat : Products(h(n), n)
  <2> SUFFICES ASSUME NEW n \in Nat PROVE Products(h(n), n)  OBVIOUS
  <2>1. \E g : Products(g, n)  BY ProductsExist
  <2>2. QED  BY <2>1, Zenon
<1> HIDE DEF h
<1>2. ASSUME NEW n \in Nat PROVE f0[n] = IF n = 0 THEN 1 ELSE n * f0[n - 1]
  <2>1. CASE n = 0
    <3>1. Products(h(0), 0)  BY <1>1
    <3>2. QED  BY <2>1, <3>1 DEF Products
  <2>2. CASE n # 0
    <3>1. n - 1 \in Nat /\ n \in 1..n  BY <2>2
    <3>2. Products(h(n), n) /\ Products(h(n - 1), n - 1)  BY <1>1, <3>1
    <3>3. h(n)[n] = n * h(n)[n - 1]  BY <3>1, <3>2 DEF Products
    <3>4. h(n)[n - 1] = h(n - 1)[n - 1]
      <4>1. \A k \in Nat : k <= n /\ k <= n - 1 => h(n)[k] = h(n - 1)[k]
        BY <3>1, <3>2, ProductsAgree
      <4>2. QED  BY <3>1, <4>1
    <3>5. QED  BY <2>2, <3>1, <3>3, <3>4
  <2>3. QED  BY <2>1, <2>2
<1>3. Follows(f0)
  <2>1. f0 = [n \in Nat |-> f0[n]]  OBVIOUS
  <2> HIDE DEF f0
  <2>2. QED  BY <1>2, <2>1
<1>4. Follows(factorial)
  <2> HIDE DEF f0
  <2>1. factorial = CHOOSE f : Follows(f)  BY Zenon DEF factorial
  <2>2. QED  BY <1>3, <2>1, Zenon
<1>5. \A n \in Nat : factorial[n] = IF n = 0 THEN 1 ELSE n * factorial[n - 1]  BY <1>4, Zenon
<1> DEFINE bad == {n \in Nat : factorial[n] \notin Nat \ {0}}
<1>6. bad = {}
  <2> SUFFICES ASSUME bad # {} PROVE FALSE  OBVIOUS
  <2>1. PICK k \in bad : \A j \in bad : k <= j
    <3>1. bad \subseteq Nat  OBVIOUS
    <3> HIDE DEF bad
    <3>2. QED  BY <3>1, LeastNatural
  <2>2. k \in Nat /\ factorial[k] \notin Nat \ {0}  BY <2>1
  <2>3. k # 0  BY <1>5, <2>2
  <2>4. k - 1 \in Nat /\ k - 1 \notin bad  BY <2>1, <2>2, <2>3
  <2>5. factorial[k - 1] \in Nat \ {0}  BY <2>4
  <2> DEFINE x == factorial[k - 1]
  <2>6. factorial[k] = k * x  BY <1>5, <2>2, <2>3
  <2>7. x \in Nat \ {0}  BY <2>5
  <2> HIDE DEF x
  <2>8. k * x \in Nat \ {0}  BY <2>2, <2>3, <2>7
  <2>9. QED  BY <2>2, <2>6, <2>8
<1>7. QED  BY <1>5, <1>6

LEMMA ProductsBelow ==
    ASSUME NEW x \in Nat, NEW y \in Nat, NEW z \in Nat, NEW k \in Nat, NEW n \in Nat,
           k <= n, x * y <= z
    PROVE  (k * x) * y <= n * z
<1>1. k * (x * y) <= n * (x * y)
  <2> DEFINE w == x * y
  <2>1. w \in Nat  OBVIOUS
  <2> HIDE DEF w
  <2>2. k * w <= n * w  BY <2>1
  <2>3. QED  BY <2>2 DEF w
<1>2. n * (x * y) <= n * z
  <2> DEFINE w == x * y
  <2>1. w \in Nat /\ w <= z  OBVIOUS
  <2> HIDE DEF w
  <2>2. n * w <= n * z  BY <2>1
  <2>3. QED  BY <2>2 DEF w
<1>3. (k * x) * y = k * (x * y)  OBVIOUS
<1>4. k * (x * y) \in Nat /\ n * (x * y) \in Nat /\ n * z \in Nat  OBVIOUS
<1>5. QED  BY <1>1, <1>2, <1>3, <1>4

LEMMA ChooseFacts ==
    ASSUME NEW n \in Nat, NEW k \in Nat, k <= n
    PROVE  choose(n, k) \in Nat \ {0}
<1> DEFINE bad == {m \in Nat : \E j \in 0..m : ~(factorial[j] * factorial[m - j] <= factorial[m])}
<1>1. bad = {}
  <2> SUFFICES ASSUME bad # {} PROVE FALSE  OBVIOUS
  <2>1. PICK m \in bad : \A j \in bad : m <= j
    <3>1. bad \subseteq Nat  OBVIOUS
    <3> HIDE DEF bad
    <3>2. QED  BY <3>1, LeastNatural
  <2>2. m \in Nat  BY <2>1
  <2>3. PICK j \in 0..m : ~(factorial[j] * factorial[m - j] <= factorial[m])  BY <2>1
  <2>4. CASE j = 0
    <3>1. factorial[0] = 1 /\ factorial[m] \in Nat /\ m - 0 = m  BY <2>2, FactorialFacts
    <3>2. QED  BY <2>3, <2>4, <3>1
  <2>5. CASE j # 0
    <3>1. j \in Nat /\ j - 1 \in Nat /\ m - 1 \in Nat /\ m - j \in Nat /\ j <= m /\ m # 0
      BY <2>2, <2>3, <2>5
    <3>2. m - 1 \notin bad  BY <2>1, <3>1
    <3>3. j - 1 \in 0..(m - 1) /\ (m - 1) - (j - 1) = m - j  BY <3>1
    <3>4. factorial[j - 1] * factorial[m - j] <= factorial[m - 1]
      <4>1. \A i \in 0..(m - 1) : factorial[i] * factorial[(m - 1) - i] <= factorial[m - 1]
        BY <3>1, <3>2
      <4>2. QED  BY <3>3, <4>1
    <3>5. factorial[j] = j * factorial[j - 1] /\ factorial[m] = m * factorial[m - 1]
      BY <3>1, <2>2, <2>5, FactorialFacts
    <3>6. factorial[j - 1] \in Nat /\ factorial[m - j] \in Nat /\ factorial[m - 1] \in Nat
      BY <3>1, FactorialFacts
    <3>7. (j * factorial[j - 1]) * factorial[m - j] <= m * factorial[m - 1]
      BY <2>2, <3>1, <3>4, <3>6, ProductsBelow
    <3>8. QED  BY <2>3, <3>5, <3>7
  <2>6. QED  BY <2>4, <2>5
<1> DEFINE x == factorial[k]
           y == factorial[n - k]
           z == factorial[n]
<1>2. x * y <= z  BY <1>1
<1>3. x \in Nat \ {0} /\ y \in Nat \ {0} /\ z \in Nat
  <2>1. n - k \in Nat  OBVIOUS
  <2>2. QED  BY <2>1, FactorialFacts
<1>4. choose(n, k) = z \div (x * y)  BY DEF choose
<1> HIDE DEF x, y, z
<1>5. x * y \in Nat \ {0}  BY <1>3
<1> DEFINE w == x * y
<1>6. w \in Nat \ {0} /\ w <= z  BY <1>2, <1>5
<1> HIDE DEF w
<1>7. z \div w \in Nat \ {0}  BY <1>3, <1>6
<1>8. QED  BY <1>4, <1>7 DEF w

-----------------------------------------------------------------------------
(* Sums over finite sets.                                                  *)

\* Among sets of members of S there is one from which no member can be taken.
LEMMA SmallestOfSets ==
    ASSUME NEW S, IsFiniteSet(S), NEW sets, sets \subseteq SUBSET S, sets # {}
    PROVE  \E T \in sets : \A x \in T : T \ {x} \notin sets
<1> DEFINE sizes == {Cardinality(T) : T \in sets}
<1>1. \A T \in sets : IsFiniteSet(T) /\ Cardinality(T) \in Nat  BY FS_Subset, FS_CardinalityType
<1>2. sizes \subseteq Nat /\ sizes # {}  BY <1>1
<1>3. PICK least \in sizes : \A n \in sizes : least <= n
  <2> HIDE DEF sizes
  <2>1. QED  BY <1>2, LeastNatural
<1>4. PICK T \in sets : \A U \in sets : Cardinality(T) <= Cardinality(U)  BY <1>3
<1>5. ASSUME NEW x \in T, T \ {x} \in sets PROVE FALSE
  <2>1. Cardinality(T \ {x}) = Cardinality(T) - 1  BY <1>1, FS_RemoveElement
  <2>2. Cardinality(T) <= Cardinality(T \ {x}) /\ Cardinality(T) \in Nat  BY <1>1, <1>4, <1>5
  <2>3. QED  BY <2>1, <2>2
<1>6. QED  BY <1>5

\* f[h] parts for each h of T: their number is the sum of f over T.
Parts(T, f) == {p \in T \X Nat : p[2] \in 1..f[p[1]]}

LEMMA PartsOfOne ==
    ASSUME NEW T, NEW f, NEW x \in T, f[x] \in Nat
    PROVE  /\ Parts(T, f) = Parts(T \ {x}, f) \cup Parts({x}, f)
           /\ Parts(T \ {x}, f) \cap Parts({x}, f) = {}
           /\ IsFiniteSet(Parts({x}, f)) /\ Cardinality(Parts({x}, f)) = f[x]
<1> DEFINE g == [i \in 1..f[x] |-> <<x, i>>]
<1>1. Parts({x}, f) = {<<x, i>> : i \in 1..f[x]}  BY DEF Parts
<1>2. g \in Surjection(1..f[x], Parts({x}, f))  BY <1>1 DEF Surjection
<1>3. g \in Injection(1..f[x], Parts({x}, f))  BY <1>1 DEF Injection, IsInjective
<1>4. IsFiniteSet(1..f[x]) /\ Cardinality(1..f[x]) = f[x]  BY FS_Interval
<1> HIDE DEF g
<1>5. IsFiniteSet(Parts({x}, f)) /\ Cardinality(Parts({x}, f)) = f[x]
  BY <1>2, <1>3, <1>4, FS_Surjection
<1>6. Parts(T, f) = Parts(T \ {x}, f) \cup Parts({x}, f)  BY DEF Parts
<1>7. Parts(T \ {x}, f) \cap Parts({x}, f) = {}  BY DEF Parts
<1>8. QED  BY <1>5, <1>6, <1>7

LEMMA PartsCounted ==
    ASSUME NEW S, IsFiniteSet(S), NEW f, \A x \in S : f[x] \in Nat
    PROVE  \A T \in SUBSET S :
              /\ IsFiniteSet(Parts(T, f)) /\ Cardinality(Parts(T, f)) \in Nat
              /\ T = {} => Cardinality(Parts(T, f)) = 0
              /\ \A x \in T :
                    Cardinality(Parts(T, f)) = f[x] + Cardinality(Parts(T \ {x}, f))
<1> DEFINE bad == {T \in SUBSET S : ~IsFiniteSet(Parts(T, f))}
<1>1. Parts({}, f) = {}  BY DEF Parts
<1>2. bad = {}
  <2> SUFFICES ASSUME bad # {} PROVE FALSE  OBVIOUS
  <2>1. PICK T \in bad : \A x \in T : T \ {x} \notin bad
    <3>1. bad \subseteq SUBSET S  OBVIOUS
    <3> HIDE DEF bad
    <3>2. QED  BY <3>1, SmallestOfSets
  <2>2. T # {}  BY <1>1, FS_EmptySet
  <2>3. PICK x \in T : TRUE  BY <2>2
  <2>4. IsFiniteSet(Parts(T \ {x}, f))  BY <2>1
  <2>5. f[x] \in Nat  OBVIOUS
  <2>6. /\ Parts(T, f) = Parts(T \ {x}, f) \cup Parts({x}, f)
        /\ IsFiniteSet(Parts({x}, f))
    BY <2>5, PartsOfOne
  <2>7. IsFiniteSet(Parts(T, f))  BY <2>4, <2>6, FS_Union
  <2>8. QED  BY <2>7
<1>3. ASSUME NEW T \in SUBSET S
      PROVE  /\ IsFiniteSet(Parts(T, f)) /\ Cardinality(Parts(T, f)) \in Nat
             /\ T = {} => Cardinality(Parts(T, f)) = 0
  BY <1>1, <1>2, FS_CardinalityType, FS_EmptySet
<1>4. ASSUME NEW T \in SUBSET S, NEW x \in T
      PROVE  Cardinality(Parts(T, f)) = f[x] + Cardinality(Parts(T \ {x}, f))
  <2>1. f[x] \in Nat /\ T \ {x} \in SUBSET S  OBVIOUS
  <2> DEFINE A == Parts(T \ {x}, f)
             B == Parts({x}, f)
  <2>2. Parts(T, f) = A \cup B /\ A \cap B = {} /\ IsFiniteSet(B) /\ Cardinality(B) = f[x]
    BY <2>1, PartsOfOne
  <2>3. IsFiniteSet(A) /\ Cardinality(A) \in Nat  BY <1>3, <2>1
  <2> HIDE DEF A, B
  <2>4. Cardinality(A \cup B) = Cardinality(A) + Cardinality(B) - Cardinality(A \cap B)
    BY <2>2, <2>3, FS_Union
  <2>5. Cardinality(A \cap B) = 0  BY <2>2, FS_EmptySet
  <2>6. Cardinality(A \cup B) = f[x] + Cardinality(A)  BY <2>1, <2>2, <2>3, <2>4, <2>5
  <2>7. QED  BY <2>2, <2>6 DEF A
<1>5. QED  BY <1>3, <1>4

\* The sum over S, a member after the other.
AnyOf(T) == CHOOSE x \in T : TRUE
Adding(S, f, sum) ==
    sum = [T \in SUBSET S |-> IF T = {} THEN 0 ELSE f[AnyOf(T)] + sum[T \ {AnyOf(T)}]]

LEMMA AddingFacts ==
    ASSUME NEW S, IsFiniteSet(S), NEW f, \A x \in S : f[x] \in Nat
    PROVE  /\ Adding(S, f, [T \in SUBSET S |-> Cardinality(Parts(T, f))])
           /\ \A sum : Adding(S, f, sum) => sum[S] = Cardinality(Parts(S, f))
<1> DEFINE count == [T \in SUBSET S |-> Cardinality(Parts(T, f))]
<1>1. \A T \in SUBSET S : T # {} => AnyOf(T) \in T /\ T \ {AnyOf(T)} \in SUBSET S  BY DEF AnyOf
<1>2. \A T \in SUBSET S :
          count[T] = IF T = {} THEN 0 ELSE f[AnyOf(T)] + count[T \ {AnyOf(T)}]
  <2> SUFFICES ASSUME NEW T \in SUBSET S
               PROVE  count[T] = IF T = {} THEN 0 ELSE f[AnyOf(T)] + count[T \ {AnyOf(T)}]
    OBVIOUS
  <2>1. CASE T = {}  BY <2>1, PartsCounted
  <2>2. CASE T # {}
    <3>1. AnyOf(T) \in T /\ T \ {AnyOf(T)} \in SUBSET S  BY <1>1, <2>2
    <3>2. Cardinality(Parts(T, f)) = f[AnyOf(T)] + Cardinality(Parts(T \ {AnyOf(T)}, f))
      BY <3>1, PartsCounted
    <3>3. QED  BY <2>2, <3>1, <3>2
  <2>3. QED  BY <2>1, <2>2
<1>3. Adding(S, f, count)
  <2>1. count = [T \in SUBSET S |-> count[T]]  OBVIOUS
  <2>2. QED  BY <1>2, <2>1 DEF Adding
<1>4. ASSUME NEW sum, Adding(S, f, sum) PROVE sum[S] = Cardinality(Parts(S, f))
  <2> DEFINE bad == {T \in SUBSET S : sum[T] # count[T]}
  <2>1. \A T \in SUBSET S : sum[T] = IF T = {} THEN 0 ELSE f[AnyOf(T)] + sum[T \ {AnyOf(T)}]
    BY <1>4 DEF Adding
  <2> HIDE DEF count
  <2>2. bad = {}
    <3> SUFFICES ASSUME bad # {} PROVE FALSE  OBVIOUS
    <3>1. PICK T \in bad : \A x \in T : T \ {x} \notin bad
      <4>1. bad \subseteq SUBSET S  OBVIOUS
      <4> HIDE DEF bad
      <4>2. QED  BY <4>1, SmallestOfSets
    <3>2. T \in SUBSET S /\ sum[T] # count[T]  BY <3>1
    <3>3. T # {}  BY <1>2, <2>1, <3>2
    <3>4. AnyOf(T) \in T /\ T \ {AnyOf(T)} \in SUBSET S  BY <1>1, <3>2, <3>3
    <3>5. sum[T \ {AnyOf(T)}] = count[T \ {AnyOf(T)}]  BY <3>1, <3>4
    <3>6. sum[T] = count[T]  BY <1>2, <2>1, <3>2, <3>3, <3>5
    <3>7. QED  BY <3>2, <3>6
  <2>3. sum[S] = count[S]  BY <2>2
  <2>4. QED  BY <2>3 DEF count
<1>5. QED  BY <1>3, <1>4


-----------------------------------------------------------------------------
(* The p-values.                                                           *)

\* How often the tables of a row occur, and one step of their sum in FisherExact.
Weight(n1, n0, col, k) == choose(n1, k) * choose(n0, col - k)
NextWeight(n1, n0, col, sum, T) ==
    IF T = {} THEN 0 ELSE Weight(n1, n0, col, AnyOf(T)) + sum[T \ {AnyOf(T)}]
SumOfWeights(K, n1, n0, col, sum) == sum = [T \in SUBSET K |-> NextWeight(n1, n0, col, sum, T)]

LEMMA SumOfWeightsIs ==
    ASSUME NEW n1, NEW n0, NEW col, NEW K, IsFiniteSet(K),
           \A k \in K : Weight(n1, n0, col, k) \in Nat
    PROVE  /\ \E sum : SumOfWeights(K, n1, n0, col, sum)
           /\ \A sum : SumOfWeights(K, n1, n0, col, sum) => sum[K] \in Nat
<1> DEFINE w == [k \in K |-> Weight(n1, n0, col, k)]
<1>1. IsFiniteSet(K) /\ \A k \in K : w[k] \in Nat  OBVIOUS
<1>2. \A T \in SUBSET K : T # {} => w[AnyOf(T)] = Weight(n1, n0, col, AnyOf(T))
  BY DEF AnyOf
<1>3. \A sum : SumOfWeights(K, n1, n0, col, sum) <=> Adding(K, w, sum)
  <2> SUFFICES ASSUME NEW sum PROVE SumOfWeights(K, n1, n0, col, sum) <=> Adding(K, w, sum)  OBVIOUS
  <2> DEFINE a == [T \in SUBSET K |-> NextWeight(n1, n0, col, sum, T)]
             b == [T \in SUBSET K |-> IF T = {} THEN 0 ELSE w[AnyOf(T)] + sum[T \ {AnyOf(T)}]]
  <2>1. \A T \in SUBSET K : a[T] = b[T]
    <3> HIDE DEF w
    <3>1. QED  BY <1>2 DEF NextWeight
  <2>2. DOMAIN a = SUBSET K /\ DOMAIN b = SUBSET K  OBVIOUS
  <2>3. a = [T \in SUBSET K |-> a[T]] /\ b = [T \in SUBSET K |-> b[T]]  OBVIOUS
  <2>4. a = b
    <3> HIDE DEF a, b
    <3>1. QED  BY <2>1, <2>3
  <2>5. (SumOfWeights(K, n1, n0, col, sum) <=> sum = a) /\ (Adding(K, w, sum) <=> sum = b)
    BY Zenon DEF SumOfWeights, Adding
  <2> HIDE DEF a, b
  <2>6. QED  BY <2>4, <2>5
<1> HIDE DEF w
<1>4. \E sum : Adding(K, w, sum)  BY <1>1, AddingFacts, Zenon
<1>5. \A sum : Adding(K, w, sum) => sum[K] = Cardinality(Parts(K, w))
  BY <1>1, AddingFacts, Zenon
<1>6. Cardinality(Parts(K, w)) \in Nat  BY <1>1, PartsCounted
<1>7. QED  BY <1>3, <1>4, <1>5, <1>6, Zenon

LEMMA FisherFacts ==
    ASSUME NEW a \in Nat, NEW n1 \in Nat, NEW c \in Nat, NEW n0 \in Nat, a <= n1, c <= n0
    PROVE  FisherExact(a, n1, c, n0) \in Nat
<1> DEFINE n == n1 + n0
           col == a + c
           lo == Max({0, col - n0})
           hi == Min({n1, col})
           weight(k) == choose(n1, k) * choose(n0, col - k)
           K == {k \in lo..hi : weight(k) <= weight(a)}
           total == MapThenSumSet(weight, K)
           iter == CHOOSE it : SumOfWeights(K, n1, n0, col, it)
<1>1. FisherExact(a, n1, c, n0) =
        IF n = 0 \/ col \in {0, n} \/ n1 = 0 \/ n0 = 0 THEN Scale
        ELSE (Scale * total) \div choose(n, col)
  BY DEF FisherExact
<1>2. lo \in Nat /\ lo >= col - n0
  <2>1. \E x \in {0, col - n0} : \A y \in {0, col - n0} : x >= y
    <3>1. CASE 0 <= col - n0  BY <3>1
    <3>2. CASE col - n0 <= 0  BY <3>2
    <3>3. QED  BY <3>1, <3>2
  <2>2. lo \in {0, col - n0} /\ \A y \in {0, col - n0} : lo >= y  BY <2>1, Zenon DEF Max
  <2> HIDE DEF lo
  <2>3. QED  BY <2>2
<1>3. hi \in Nat /\ hi <= n1 /\ hi <= col  BY LeastOfTwo
<1> HIDE DEF lo, hi
<1>4. ASSUME NEW k \in lo..hi PROVE weight(k) \in Nat
  <2>1. k \in Nat /\ k <= n1 /\ col - k \in Nat /\ col - k <= n0  BY <1>2, <1>3
  <2>2. choose(n1, k) \in Nat /\ choose(n0, col - k) \in Nat  BY <2>1, ChooseFacts
  <2> DEFINE x == choose(n1, k)
             y == choose(n0, col - k)
  <2>3. x \in Nat /\ y \in Nat  BY <2>2
  <2> HIDE DEF x, y
  <2>4. x * y \in Nat  BY <2>3
  <2>5. QED  BY <2>4 DEF x, y
<1>5. \A k \in K : Weight(n1, n0, col, k) \in Nat  BY <1>4 DEF Weight
<1>6. IsFiniteSet(K)
  <2>1. IsFiniteSet(lo..hi)  BY <1>2, <1>3, FS_Interval
  <2>2. K \subseteq lo..hi  OBVIOUS
  <2> HIDE DEF K
  <2>3. QED  BY <2>1, <2>2, FS_Subset
<1> HIDE DEF K
<1>7. total = iter[K]
  BY DEF MapThenSumSet, MapThenFoldSet, SumOfWeights, NextWeight, Weight, AnyOf
<1> HIDE DEF total
<1>8. total \in Nat
  <2>1. SumOfWeights(K, n1, n0, col, iter)  BY <1>5, <1>6, SumOfWeightsIs, Zenon
  <2> HIDE DEF iter
  <2>2. QED  BY <1>5, <1>6, <1>7, <2>1, SumOfWeightsIs
<1>9. choose(n, col) \in Nat \ {0}
  <2>1. n \in Nat /\ col \in Nat /\ col <= n  OBVIOUS
  <2> HIDE DEF n, col
  <2>2. QED  BY <2>1, ChooseFacts
<1>10. (Scale * total) \div choose(n, col) \in Nat
  <2> DEFINE x == choose(n, col)
  <2>1. x \in Nat \ {0} /\ 1000 * total \in Nat  BY <1>8, <1>9
  <2> HIDE DEF x
  <2>2. (1000 * total) \div x \in Nat  BY <2>1
  <2>3. QED  BY <2>2 DEF x, Scale
<1>11. Scale \in Nat  BY DEF Scale
<1>12. QED  BY <1>1, <1>10, <1>11

LEMMA ZTestFacts ==
    ASSUME NEW a \in Nat, NEW n1 \in Nat, NEW c \in Nat, NEW n0 \in Nat, a <= n1, c <= n0
    PROVE  ZTest(a, n1, c, n0) \in Nat \cup {NULL}
<1> DEFINE n == n1 + n0
           col == a + c
           gap == a * n0 - c * n1
           under == n1 * n0 * col * (n - col)
<1>1. ZTest(a, n1, c, n0) = IF n1 = 0 \/ n0 = 0 \/ col \in {0, n} THEN NULL
                            ELSE (Scale * under) \div (under + gap * gap * n)
  BY DEF ZTest
<1>2. CASE n1 = 0 \/ n0 = 0 \/ col \in {0, n}  BY <1>1, <1>2
<1>3. CASE ~(n1 = 0 \/ n0 = 0 \/ col \in {0, n})
  <2>1. n \in Nat \ {0} /\ col \in Nat \ {0} /\ n - col \in Nat \ {0} /\ gap \in Int
    BY <1>3
  <2> HIDE DEF n, col, gap
  <2>2. n1 * n0 \in Nat \ {0}  BY <1>3
  <2>3. (n1 * n0) * col \in Nat \ {0}
    <3> DEFINE x == n1 * n0
    <3>1. x \in Nat \ {0}  BY <2>2
    <3> HIDE DEF x
    <3>2. x * col \in Nat \ {0}  BY <2>1, <3>1
    <3>3. QED  BY <3>2 DEF x
  <2>4. under \in Nat \ {0}
    <3> DEFINE x == (n1 * n0) * col
               y == n - col
    <3>1. x \in Nat \ {0} /\ y \in Nat \ {0}  BY <2>1, <2>3
    <3> HIDE DEF x, y
    <3>2. x * y \in Nat \ {0}  BY <3>1
    <3>3. QED  BY <3>2 DEF x, y
  <2>5. gap * gap \in Nat
    <3>1. CASE gap >= 0  BY <2>1, <3>1
    <3>2. CASE gap < 0
      <4>1. (0 - gap) \in Nat /\ gap * gap = (0 - gap) * (0 - gap)  BY <2>1, <3>2
      <4>2. (0 - gap) * (0 - gap) \in Nat
        <5> DEFINE x == 0 - gap
        <5>1. x \in Nat  BY <4>1
        <5> HIDE DEF x
        <5>2. x * x \in Nat  BY <5>1
        <5>3. QED  BY <5>2 DEF x
      <4>3. QED  BY <4>1, <4>2
    <3>3. QED  BY <2>1, <3>1, <3>2
  <2>6. (gap * gap) * n \in Nat
    <3> DEFINE x == gap * gap
    <3>1. x \in Nat  BY <2>5
    <3> HIDE DEF x
    <3>2. x * n \in Nat  BY <2>1, <3>1
    <3>3. QED  BY <3>2 DEF x
  <2> DEFINE x == (gap * gap) * n
  <2>7. x \in Nat  BY <2>6
  <2>8. ZTest(a, n1, c, n0) = (Scale * under) \div (under + x)  BY <1>1, <1>3
  <2> HIDE DEF under, x
  <2>9. (1000 * under) \div (under + x) \in Nat
    <3> DEFINE y == under + x
               z == 1000 * under
    <3>1. y \in Nat \ {0} /\ z \in Nat  BY <2>4, <2>7
    <3> HIDE DEF y, z
    <3>2. z \div y \in Nat  BY <3>1
    <3>3. QED  BY <3>2 DEF y, z
  <2>10. QED  BY <2>8, <2>9 DEF Scale
<1>4. QED  BY <1>2, <1>3

LEMMA HypothesisFacts ==
    ASSUME NEW a \in Nat, NEW n1 \in Nat, NEW c \in Nat, NEW n0 \in Nat
    PROVE  HypothesisTest(a, n1, c, n0).p \in Nat \cup {NULL}
<1>1. CASE Missing({a, n1, c, n0}) \/ a > n1 \/ c > n0 \/ n1 + n0 = 0
  BY <1>1 DEF HypothesisTest, Untested
<1>2. CASE ~(Missing({a, n1, c, n0}) \/ a > n1 \/ c > n0 \/ n1 + n0 = 0)
  <2>1. HypothesisTest(a, n1, c, n0).p \in {ZTest(a, n1, c, n0), FisherExact(a, n1, c, n0)}
    BY <1>2, Zenon DEF HypothesisTest
  <2>2. a <= n1 /\ c <= n0  BY <1>2
  <2>3. ZTest(a, n1, c, n0) \in Nat \cup {NULL}  BY <2>2, ZTestFacts
  <2>4. FisherExact(a, n1, c, n0) \in Nat  BY <2>2, FisherFacts
  <2>5. QED  BY <2>1, <2>3, <2>4
<1>3. QED  BY <1>1, <1>2


-----------------------------------------------------------------------------
(* Benjamini-Hochberg.                                                     *)

LEMMA QuotientFalls ==
    ASSUME NEW x \in Nat, NEW r \in Nat \ {0}, NEW s \in Nat \ {0}, r <= s
    PROVE  x \div s <= x \div r
<1> DEFINE p == x \div s
           q == x \div r
<1>1. p \in Nat /\ p * s <= x  OBVIOUS
<1>2. q \in Nat /\ x < (q + 1) * r  OBVIOUS
<1> HIDE DEF p, q
<1>3. p * r <= p * s  BY <1>1
<1>4. SUFFICES ASSUME ~(p <= q) PROVE FALSE  BY DEF p, q
<1>5. q + 1 <= p  BY <1>1, <1>2, <1>4
<1>6. (q + 1) * r <= p * r  BY <1>1, <1>2, <1>5
<1>7. (q + 1) * r \in Nat /\ p * r \in Nat /\ p * s \in Nat  BY <1>1, <1>2
<1>8. QED  BY <1>1, <1>2, <1>3, <1>6, <1>7

LEMMA ClipFacts ==
    ASSUME NEW x \in 0..Scale, NEW y \in Nat
    PROVE  Clip(Min({x, y})) = IF x <= y THEN x ELSE y
<1> DEFINE least == Min({x, y})
           low == Min({Scale, least})
<1>1. Scale \in Nat /\ x \in Nat /\ x <= Scale  BY DEF Scale
<1>2. least = IF x <= y THEN x ELSE y
  <2>1. least \in Nat /\ least <= x /\ least <= y /\ least \in {x, y}  BY <1>1, LeastOfTwo
  <2> HIDE DEF least
  <2>2. QED  BY <1>1, <2>1
<1>3. least \in Nat /\ least <= Scale  BY <1>1, <1>2
<1> HIDE DEF least
<1>4. low = least
  <2>1. low \in Nat /\ low <= Scale /\ low <= least /\ low \in {Scale, least}
    BY <1>1, <1>3, LeastOfTwo
  <2> HIDE DEF low
  <2>2. QED  BY <1>1, <1>3, <2>1
<1> HIDE DEF low
<1>5. Max({0, low}) = low
  <2>1. \E z \in {0, low} : \A w \in {0, low} : z >= w  BY <1>3, <1>4
  <2>2. Max({0, low}) \in {0, low} /\ \A w \in {0, low} : Max({0, low}) >= w
    BY <2>1, Zenon DEF Max
  <2> DEFINE max == Max({0, low})
  <2>3. max \in {0, low} /\ max >= 0 /\ max >= low  BY <2>2
  <2> HIDE DEF max
  <2>4. max = low  BY <1>3, <1>4, <2>3
  <2>5. QED  BY <2>4 DEF max
<1>6. Clip(least) = low  BY <1>5 DEF Clip, low
<1>7. QED  BY <1>2, <1>4, <1>6 DEF least

\* The values on the way down, and the walk over them.
Raised(ps, falling, m, k) == (ps[falling[k]] * m) \div (m + 1 - k)
Walks(ps, falling, m, g) ==
    g = [k \in 0..m |->
            IF k = 0 THEN Scale ELSE Clip(Min({g[k - 1], Raised(ps, falling, m, k)}))]

\* The least of the values passed by place k.
Passed(ps, falling, m, k) == {Scale} \cup {Raised(ps, falling, m, l) : l \in 1..k}
LeastPassed(ps, falling, m, k, x) ==
    x \in Passed(ps, falling, m, k) /\ \A y \in Passed(ps, falling, m, k) : x <= y

LEMMA LeastStep ==
    ASSUME NEW ps, NEW falling, NEW m \in Nat, NEW k \in 1..m,
           \A l \in 1..m : Raised(ps, falling, m, l) \in Nat,
           NEW x, LeastPassed(ps, falling, m, k - 1, x)
    PROVE  LeastPassed(ps, falling, m, k, Clip(Min({x, Raised(ps, falling, m, k)})))
<1> DEFINE v(l) == Raised(ps, falling, m, l)
           z == Clip(Min({x, v(k)}))
<1>1. Passed(ps, falling, m, k) = Passed(ps, falling, m, k - 1) \cup {v(k)}
  <2>1. 1..k = (1..(k - 1)) \cup {k}  OBVIOUS
  <2> HIDE DEF v
  <2>2. {v(l) : l \in 1..k} = {v(l) : l \in 1..(k - 1)} \cup {v(k)}  BY <2>1
  <2>3. QED  BY <2>2 DEF Passed, v
<1>2. Scale \in Nat  BY DEF Scale
<1>3. Passed(ps, falling, m, k - 1) \subseteq Nat /\ Scale \in Passed(ps, falling, m, k - 1)
  BY <1>2 DEF Passed
<1>4. v(k) \in Nat  OBVIOUS
<1> HIDE DEF v
<1>5. x \in 0..Scale /\ \A y \in Passed(ps, falling, m, k - 1) : x <= y
  BY <1>2, <1>3 DEF LeastPassed
<1>6. z = IF x <= v(k) THEN x ELSE v(k)  BY <1>4, <1>5, ClipFacts
<1>7. x \in Passed(ps, falling, m, k - 1)  BY DEF LeastPassed
<1> HIDE DEF z
<1>8. z \in Passed(ps, falling, m, k)  BY <1>1, <1>6, <1>7
<1>9. \A y \in Passed(ps, falling, m, k) : z <= y  BY <1>1, <1>3, <1>4, <1>5, <1>6
<1>10. LeastPassed(ps, falling, m, k, z)  BY <1>8, <1>9 DEF LeastPassed
<1>11. QED  BY <1>10 DEF z, v

\* The walk has the least of what it passed, and there is one.
LEMMA WalkFacts ==
    ASSUME NEW ps, NEW falling, NEW m \in Nat,
           \A l \in 1..m : Raised(ps, falling, m, l) \in Nat
    PROVE  /\ \E g : Walks(ps, falling, m, g)
           /\ \A g : Walks(ps, falling, m, g) =>
                \A k \in 0..m : LeastPassed(ps, falling, m, k, g[k])
<1> DEFINE v(l) == Raised(ps, falling, m, l)
           P(k) == Passed(ps, falling, m, k)
           least == [k \in 0..m |-> Min(P(k))]
<1>1. \A k \in 0..m : P(k) \subseteq Nat /\ Scale \in P(k)  BY DEF Passed, Scale
<1>2. P(0) = {Scale}  BY DEF Passed
<1>3. \A k \in 0..m : LeastPassed(ps, falling, m, k, least[k])
  <2> SUFFICES ASSUME NEW k \in 0..m PROVE LeastPassed(ps, falling, m, k, least[k])  OBVIOUS
  <2> DEFINE R == P(k)
  <2>1. R \subseteq Nat /\ R # {}  BY <1>1
  <2> HIDE DEF R
  <2>2. Min(R) \in R /\ \A y \in R : Min(R) <= y  BY <2>1, LeastExists
  <2>3. least[k] = Min(R)  BY DEF R
  <2>4. QED  BY <2>2, <2>3 DEF R, LeastPassed
<1>4. ASSUME NEW k \in 1..m, NEW x, LeastPassed(ps, falling, m, k - 1, x)
      PROVE  LeastPassed(ps, falling, m, k, Clip(Min({x, v(k)})))
  BY <1>4, LeastStep
<1>5. \A k \in 0..m : \A x, y : LeastPassed(ps, falling, m, k, x)
          /\ LeastPassed(ps, falling, m, k, y) => x = y
  <2> SUFFICES ASSUME NEW k \in 0..m, NEW x, NEW y, LeastPassed(ps, falling, m, k, x),
                      LeastPassed(ps, falling, m, k, y)
               PROVE  x = y
    OBVIOUS
  <2>1. x \in P(k) /\ y \in P(k) /\ x <= y /\ y <= x  BY DEF LeastPassed
  <2>2. x \in Nat /\ y \in Nat  BY <1>1, <2>1
  <2>3. QED  BY <2>1, <2>2
<1>6. LeastPassed(ps, falling, m, 0, Scale)  BY <1>2 DEF LeastPassed, Scale
<1> HIDE DEF v, P
<1>7. Walks(ps, falling, m, least)
  <2>1. ASSUME NEW k \in 0..m
        PROVE  least[k] = IF k = 0 THEN Scale ELSE Clip(Min({least[k - 1], v(k)}))
    <3>1. CASE k = 0  BY <1>3, <1>5, <1>6, <3>1
    <3>2. CASE k # 0
      <4>1. k \in 1..m /\ k - 1 \in 0..m  BY <3>2
      <4>2. LeastPassed(ps, falling, m, k - 1, least[k - 1])  BY <1>3, <4>1
      <4> HIDE DEF least
      <4>3. LeastPassed(ps, falling, m, k, Clip(Min({least[k - 1], v(k)})))  BY <1>4, <4>1, <4>2
      <4>4. QED  BY <1>3, <1>5, <3>2, <4>3
    <3>3. QED  BY <3>1, <3>2
  <2>2. least = [k \in 0..m |-> least[k]]  OBVIOUS
  <2> HIDE DEF least
  <2>3. least = [k \in 0..m |-> IF k = 0 THEN Scale ELSE Clip(Min({least[k - 1], v(k)}))]
    BY <2>1, <2>2
  <2>4. QED  BY <2>3 DEF Walks, v
<1> HIDE DEF least
<1>8. ASSUME NEW g, Walks(ps, falling, m, g)
      PROVE  \A k \in 0..m : LeastPassed(ps, falling, m, k, g[k])
  <2>1. \A k \in 0..m : g[k] = IF k = 0 THEN Scale ELSE Clip(Min({g[k - 1], v(k)}))
    BY <1>8 DEF Walks, v
  <2> DEFINE bad == {k \in Nat : k <= m /\ ~LeastPassed(ps, falling, m, k, g[k])}
  <2>2. bad = {}
    <3> SUFFICES ASSUME bad # {} PROVE FALSE  OBVIOUS
    <3>1. PICK k \in bad : \A j \in bad : k <= j
      <4>1. bad \subseteq Nat  OBVIOUS
      <4> HIDE DEF bad
      <4>2. QED  BY <4>1, LeastNatural
    <3>2. k \in 0..m /\ ~LeastPassed(ps, falling, m, k, g[k])  BY <3>1
    <3>3. k # 0
      <4> SUFFICES ASSUME k = 0 PROVE FALSE  OBVIOUS
      <4>1. g[k] = Scale  BY <2>1, <3>2
      <4>2. QED  BY <1>6, <3>2, <4>1
    <3>4. k \in 1..m /\ k - 1 \in Nat /\ k - 1 <= m /\ k - 1 \notin bad  BY <3>1, <3>2, <3>3
    <3>5. LeastPassed(ps, falling, m, k - 1, g[k - 1])  BY <3>4
    <3>6. LeastPassed(ps, falling, m, k, Clip(Min({g[k - 1], v(k)})))  BY <1>4, <3>4, <3>5
    <3>7. g[k] = Clip(Min({g[k - 1], v(k)}))  BY <2>1, <3>2, <3>3
    <3>8. QED  BY <3>2, <3>6, <3>7
  <2>3. QED  BY <2>2
<1>9. QED  BY <1>7, <1>8

\* p-values to be adjusted.
Adjustable(ps, tested) ==
    /\ tested \subseteq Nat /\ IsFiniteSet(tested)
    /\ \A i \in tested : ps[i] \in Nat

AtMostAs(ps, tested, j) == {k \in tested : ps[k] <= ps[j]}

\* The places: every tested value has one, and behind a place are the values at most as large
\* as the first of those equal to its own.
LEMMA FallingFacts ==
    ASSUME NEW ps, NEW tested, Adjustable(ps, tested), NEW m, m = Cardinality(tested),
           NEW o, o = Falling(ps, tested)
    PROVE  /\ m \in Nat /\ o \in [1..m -> tested]
           /\ \A i \in tested : \E k \in 1..m : o[k] = i
           /\ \A k, l \in 1..m : k < l => ps[o[k]] >= ps[o[l]] /\ o[k] # o[l]
<1> DEFINE before == {c \in tested \X tested :
                        ps[c[1]] > ps[c[2]] \/ (ps[c[1]] = ps[c[2]] /\ c[1] > c[2])}
<1>1. o = InOrder(tested, before)  BY DEF Falling
<1>2. \A i \in tested : i \in Nat /\ ps[i] \in Nat  BY DEF Adjustable
<1>3. \A x, y : <<x, y>> \in before <=>
          x \in tested /\ y \in tested /\ (ps[x] > ps[y] \/ (ps[x] = ps[y] /\ x > y))
  OBVIOUS
<1> HIDE DEF before
<1>4. Orders(tested, before)  BY <1>2, <1>3 DEF Orders
<1>5. /\ o \in Seq(tested) /\ Len(o) = m /\ DOMAIN o = 1..m
      /\ \A x \in tested : \E i \in DOMAIN o : o[i] = x
      /\ \A i, j \in DOMAIN o : i < j => <<o[i], o[j]>> \in before
  BY <1>1, <1>4, InOrderFacts DEF Adjustable
<1>6. m \in Nat  BY FS_CardinalityType DEF Adjustable
<1>7. o \in [1..m -> tested]  BY <1>5, <1>6
<1>8. ASSUME NEW k \in 1..m, NEW l \in 1..m, k < l
      PROVE  ps[o[k]] >= ps[o[l]] /\ o[k] # o[l]
  <2>1. <<o[k], o[l]>> \in before  BY <1>5, <1>8
  <2>2. o[k] \in tested /\ o[l] \in tested  BY <1>7
  <2>3. QED  BY <1>2, <1>3, <2>1, <2>2
<1>9. QED  BY <1>5, <1>6, <1>7, <1>8

FromPlace(o, l, m) == {o[q] : q \in l..m}

LEMMA TailSize ==
    ASSUME NEW m \in Nat, NEW S, NEW o \in [1..m -> S],
           \A k, l \in 1..m : k < l => o[k] # o[l], NEW l \in 1..m
    PROVE  IsFiniteSet(FromPlace(o, l, m)) /\ Cardinality(FromPlace(o, l, m)) = m + 1 - l
<1> DEFINE T == FromPlace(o, l, m)
           f == [q \in l..m |-> o[q]]
<1>1. f \in Surjection(l..m, T)  BY DEF Surjection, FromPlace
<1>2. \A p, q \in l..m : o[p] = o[q] => p = q
  <2> SUFFICES ASSUME NEW p \in l..m, NEW q \in l..m, o[p] = o[q], p # q PROVE FALSE  OBVIOUS
  <2>1. p \in 1..m /\ q \in 1..m /\ (p < q \/ q < p)  OBVIOUS
  <2>2. QED  BY <2>1
<1>3. f \in Injection(l..m, T)  BY <1>2 DEF Injection, IsInjective, FromPlace
<1>4. IsFiniteSet(l..m) /\ Cardinality(l..m) = m + 1 - l
  <2>1. l \in Int /\ m \in Int /\ l <= m  OBVIOUS
  <2>2. IsFiniteSet(l..m) /\ Cardinality(l..m) = IF l > m THEN 0 ELSE m - l + 1
    BY <2>1, FS_Interval
  <2>3. QED  BY <2>1, <2>2
<1> HIDE DEF f, T
<1>5. QED  BY <1>1, <1>3, <1>4, FS_Surjection DEF T


\* The tested values at most as large as that of a place: at least those from there on, and
\* exactly those where the place is the first with its value.
LEMMA BehindPlace ==
    ASSUME NEW ps, NEW tested, Adjustable(ps, tested), NEW m, m = Cardinality(tested),
           NEW o, o = Falling(ps, tested), NEW l \in 1..m
    PROVE  /\ Cardinality(AtMostAs(ps, tested, o[l])) \in Nat \ {0}
           /\ m + 1 - l <= Cardinality(AtMostAs(ps, tested, o[l]))
           /\ (\A k \in 1..m : ps[o[k]] = ps[o[l]] => l <= k)
                => m + 1 - l = Cardinality(AtMostAs(ps, tested, o[l]))
<1> DEFINE tail == FromPlace(o, l, m)
           low == AtMostAs(ps, tested, o[l])
<1>a. m \in Nat /\ o \in [1..m -> tested]  BY FallingFacts
<1>b. \A i \in tested : \E k \in 1..m : o[k] = i  BY FallingFacts
<1>c. \A k, q \in 1..m : k < q => ps[o[k]] >= ps[o[q]] /\ o[k] # o[q]  BY FallingFacts
<1>1. /\ m \in Nat /\ o \in [1..m -> tested]
      /\ \A i \in tested : \E k \in 1..m : o[k] = i
      /\ \A k, q \in 1..m : k < q => ps[o[k]] >= ps[o[q]] /\ o[k] # o[q]
  BY <1>a, <1>b, <1>c
<1>2. \A i \in tested : ps[i] \in Nat  BY DEF Adjustable
<1>d. \A k, q \in 1..m : k < q => o[k] # o[q]  BY <1>c
<1>3. IsFiniteSet(tail) /\ Cardinality(tail) = m + 1 - l  BY <1>a, <1>d, TailSize
<1>4. tail \subseteq low
  <2> SUFFICES ASSUME NEW q \in l..m PROVE o[q] \in low  BY DEF FromPlace
  <2>1. q \in 1..m /\ (l < q \/ l = q)  BY <1>1
  <2>2. o[q] \in tested /\ o[l] \in tested  BY <1>1, <2>1
  <2>3. ps[o[l]] >= ps[o[q]]  BY <1>1, <1>2, <2>1, <2>2
  <2>4. QED  BY <1>2, <2>2, <2>3 DEF AtMostAs
<1>5. IsFiniteSet(low) /\ Cardinality(low) \in Nat
  BY FS_Subset, FS_CardinalityType DEF AtMostAs, Adjustable
<1>6. m + 1 - l <= Cardinality(low)
  <2>1. Cardinality(tail) <= Cardinality(low)  BY <1>4, <1>5, FS_Subset
  <2>2. QED  BY <1>3, <2>1
<1>7. ASSUME \A k \in 1..m : ps[o[k]] = ps[o[l]] => l <= k
      PROVE  low \subseteq tail
  <2> SUFFICES ASSUME NEW i \in low PROVE i \in tail  OBVIOUS
  <2>1. i \in tested /\ ps[i] <= ps[o[l]]  BY DEF AtMostAs
  <2>2. PICK k \in 1..m : o[k] = i  BY <1>1, <2>1
  <2>3. l <= k
    <3>1. SUFFICES ASSUME k < l PROVE FALSE  BY <1>1
    <3>2. ps[o[k]] >= ps[o[l]]  BY <1>1, <3>1
    <3>3. ps[o[k]] \in Nat /\ ps[o[l]] \in Nat  BY <1>1, <1>2
    <3>4. ps[o[k]] = ps[o[l]]  BY <2>1, <2>2, <3>2, <3>3
    <3>5. l <= k  BY <1>7, <3>4
    <3>6. QED  BY <3>1, <3>5
  <2>4. k \in l..m  BY <1>1, <2>3
  <2>5. QED  BY <2>2, <2>4 DEF FromPlace
<1>8. QED
  <2>1. m + 1 - l >= 1  BY <1>1
  <2>2. (\A k \in 1..m : ps[o[k]] = ps[o[l]] => l <= k) => low = tail  BY <1>4, <1>7
  <2> HIDE DEF low, tail
  <2>3. m + 1 - l \in Nat  BY <1>1
  <2>4. QED  BY <1>3, <1>5, <1>6, <2>1, <2>2, <2>3 DEF low

\* What the walk raises a value to, and what the definition scales it to.
ScaledUp(ps, tested, j) ==
    (ps[j] * Cardinality(tested)) \div Cardinality(AtMostAs(ps, tested, j))

LEMMA RaisedFacts ==
    ASSUME NEW ps, NEW tested, Adjustable(ps, tested), NEW m, m = Cardinality(tested),
           NEW o, o = Falling(ps, tested), NEW l \in 1..m
    PROVE  /\ Raised(ps, o, m, l) \in Nat /\ ScaledUp(ps, tested, o[l]) \in Nat
           /\ ScaledUp(ps, tested, o[l]) <= Raised(ps, o, m, l)
           /\ (\A k \in 1..m : ps[o[k]] = ps[o[l]] => l <= k)
                => ScaledUp(ps, tested, o[l]) = Raised(ps, o, m, l)
<1> DEFINE x == ps[o[l]] * m
           r == m + 1 - l
           s == Cardinality(AtMostAs(ps, tested, o[l]))
           first == \A k \in 1..m : ps[o[k]] = ps[o[l]] => l <= k
<1>1. m \in Nat /\ o \in [1..m -> tested]  BY FallingFacts
<1>2. ps[o[l]] \in Nat  BY <1>1 DEF Adjustable
<1>3. x \in Nat
  <2> DEFINE y == ps[o[l]]
  <2>1. y \in Nat  BY <1>2
  <2> HIDE DEF y
  <2>2. y * m \in Nat  BY <1>1, <2>1
  <2>3. QED  BY <2>2 DEF y
<1>4. s \in Nat \ {0} /\ r <= s /\ (first => r = s)
  <2>1. s \in Nat \ {0}  BY BehindPlace
  <2>2. r <= s  BY BehindPlace
  <2>3. first => r = s  BY BehindPlace
  <2>4. QED  BY <2>1, <2>2, <2>3
<1>5. r \in Nat \ {0}  BY <1>1
<1>6. Raised(ps, o, m, l) = x \div r  BY DEF Raised
<1>7. ScaledUp(ps, tested, o[l]) = x \div s  BY DEF ScaledUp
<1> HIDE DEF x, r, s, first
<1>8. x \div s <= x \div r /\ x \div s \in Nat /\ x \div r \in Nat
  <2>1. r <= s  BY <1>4
  <2>2. x \div s <= x \div r  BY <1>3, <1>4, <1>5, <2>1, QuotientFalls
  <2>3. x \div s \in Nat  BY <1>3, <1>4
  <2>4. x \div r \in Nat  BY <1>3, <1>5
  <2>5. QED  BY <2>2, <2>3, <2>4
<1>9. first => x \div s = x \div r  BY <1>4
<1>10. QED  BY <1>6, <1>7, <1>8, <1>9 DEF first

\* The first place with the value of j.
LEMMA FirstPlace ==
    ASSUME NEW ps, NEW tested, Adjustable(ps, tested), NEW m, m = Cardinality(tested),
           NEW o, o = Falling(ps, tested), NEW j \in tested
    PROVE  \E l \in 1..m : /\ ps[o[l]] = ps[j]
                           /\ \A k \in 1..m : ps[o[k]] = ps[o[l]] => l <= k
                           /\ Raised(ps, o, m, l) = ScaledUp(ps, tested, j)
<1> DEFINE L == {l \in 1..m : ps[o[l]] = ps[j]}
<1>1. m \in Nat /\ \A i \in tested : \E k \in 1..m : o[k] = i  BY FallingFacts
<1>2. L \subseteq Nat /\ L # {}  BY <1>1
<1>3. PICK l \in L : \A k \in L : l <= k
  <2> HIDE DEF L
  <2>1. QED  BY <1>2, LeastNatural
<1>4. l \in 1..m /\ ps[o[l]] = ps[j] /\ \A k \in 1..m : ps[o[k]] = ps[o[l]] => l <= k
  BY <1>3
<1>5. ScaledUp(ps, tested, o[l]) = Raised(ps, o, m, l)  BY <1>4, RaisedFacts
<1>6. AtMostAs(ps, tested, o[l]) = AtMostAs(ps, tested, j)  BY <1>4 DEF AtMostAs
<1>7. ScaledUp(ps, tested, o[l]) = ScaledUp(ps, tested, j)  BY <1>4, <1>6 DEF ScaledUp
<1>8. QED  BY <1>4, <1>5, <1>7

\* The walk ends, at the place of a value, with what Benjamini and Hochberg define.
WalkEnd(ps, falling, m, i) ==
    (CHOOSE g : Walks(ps, falling, m, g))[CHOOSE k \in 1..m : falling[k] = i]

LEMMA WalkedTo ==
    ASSUME NEW ps, NEW tested, Adjustable(ps, tested), NEW m, m = Cardinality(tested),
           NEW o, o = Falling(ps, tested), NEW i \in tested
    PROVE  WalkEnd(ps, o, m, i) =
             Min({Scale} \cup {ScaledUp(ps, tested, j) : j \in {k \in tested : ps[k] >= ps[i]}})
<1>2. /\ m \in Nat /\ o \in [1..m -> tested]
      /\ \A j \in tested : \E k \in 1..m : o[k] = j
      /\ \A k, l \in 1..m : k < l => ps[o[k]] >= ps[o[l]] /\ o[k] # o[l]
  <2>1. m \in Nat /\ o \in [1..m -> tested]  BY FallingFacts
  <2>2. \A j \in tested : \E k \in 1..m : o[k] = j  BY FallingFacts
  <2>3. \A k, l \in 1..m : k < l => ps[o[k]] >= ps[o[l]] /\ o[k] # o[l]  BY FallingFacts
  <2>4. QED  BY <2>1, <2>2, <2>3
<1>3. \A l \in 1..m : /\ Raised(ps, o, m, l) \in Nat /\ ScaledUp(ps, tested, o[l]) \in Nat
                      /\ ScaledUp(ps, tested, o[l]) <= Raised(ps, o, m, l)
  BY RaisedFacts
<1>6. \A j \in tested : \E l \in 1..m : /\ ps[o[l]] = ps[j]
                           /\ \A k \in 1..m : ps[o[k]] = ps[o[l]] => l <= k
                           /\ Raised(ps, o, m, l) = ScaledUp(ps, tested, j)
  <2> SUFFICES ASSUME NEW j \in tested
               PROVE  \E l \in 1..m : /\ ps[o[l]] = ps[j]
                           /\ \A k \in 1..m : ps[o[k]] = ps[o[l]] => l <= k
                           /\ Raised(ps, o, m, l) = ScaledUp(ps, tested, j)
    OBVIOUS
  <2>1. QED  BY FirstPlace
<1>5. \A j \in tested : ps[j] \in Nat  BY DEF Adjustable
<1> DEFINE walk == CHOOSE g : Walks(ps, o, m, g)
           place == CHOOSE k \in 1..m : o[k] = i
           R == {Scale} \cup {ScaledUp(ps, tested, j) : j \in {k \in tested : ps[k] >= ps[i]}}
           x == walk[place]
<1>4. place \in 1..m /\ o[place] = i  BY <1>2
<1> HIDE DEF place
<1>7. LeastPassed(ps, o, m, place, x)
  <2>1. \E g : Walks(ps, o, m, g)  BY <1>2, <1>3, WalkFacts
  <2>2. Walks(ps, o, m, walk)  BY <2>1, Zenon
  <2> HIDE DEF walk
  <2>3. \A k \in 0..m : LeastPassed(ps, o, m, k, walk[k])  BY <1>2, <1>3, <2>2, WalkFacts
  <2>4. place \in 0..m  BY <1>2, <1>4
  <2>5. QED  BY <2>3, <2>4
<1> HIDE DEF x
<1>8. /\ x \in {Scale} \cup {Raised(ps, o, m, l) : l \in 1..place}
      /\ x <= Scale /\ \A l \in 1..place : x <= Raised(ps, o, m, l)
  BY <1>7 DEF LeastPassed, Passed
<1>9. ASSUME NEW j \in tested, ps[j] >= ps[i] PROVE x <= ScaledUp(ps, tested, j)
  <2>1. PICK l \in 1..m : /\ ps[o[l]] = ps[j]
                          /\ \A k \in 1..m : ps[o[k]] = ps[o[l]] => l <= k
                          /\ Raised(ps, o, m, l) = ScaledUp(ps, tested, j)
    BY <1>6
  <2>2. l <= place
    <3>1. SUFFICES ASSUME place < l PROVE FALSE  BY <1>2, <1>4
    <3>2. ps[o[place]] >= ps[o[l]]  BY <1>2, <1>4, <3>1
    <3>3. ps[o[place]] = ps[o[l]]  BY <1>4, <1>5, <1>9, <2>1, <3>2
    <3>4. l <= place  BY <1>4, <2>1, <3>3
    <3>5. QED  BY <1>2, <1>4, <3>1, <3>4
  <2>3. l \in 1..place  BY <1>2, <1>4, <2>2
  <2>4. QED  BY <1>8, <2>1, <2>3
<1>10. R \subseteq Nat
  <2>1. \A j \in tested : ScaledUp(ps, tested, j) \in Nat
    <3> SUFFICES ASSUME NEW j \in tested PROVE ScaledUp(ps, tested, j) \in Nat  OBVIOUS
    <3>1. PICK l \in 1..m : o[l] = j  BY <1>2
    <3>2. QED  BY <1>3, <3>1
  <2>2. QED  BY <2>1 DEF Scale
<1>11. x \in R
  <2>1. CASE x = Scale  BY <2>1
  <2>2. CASE x # Scale
    <3>1. PICK l \in 1..place : x = Raised(ps, o, m, l)  BY <1>8, <2>2
    <3>2. l \in 1..m /\ (l < place \/ l = place)  BY <1>2, <1>4
    <3>3. o[l] \in tested /\ ps[o[l]] >= ps[i]
      <4>1. o[l] \in tested  BY <1>2, <3>2
      <4>2. CASE l < place  BY <1>2, <1>4, <3>2, <4>1, <4>2
      <4>3. CASE l = place  BY <1>4, <1>5, <4>1, <4>3
      <4>4. QED  BY <3>2, <4>1, <4>2, <4>3
    <3>4. ScaledUp(ps, tested, o[l]) <= x  BY <1>3, <3>1, <3>2
    <3>5. x <= ScaledUp(ps, tested, o[l])  BY <1>9, <3>3
    <3>6. x \in Nat /\ ScaledUp(ps, tested, o[l]) \in Nat  BY <1>3, <3>1, <3>2
    <3>7. x = ScaledUp(ps, tested, o[l])  BY <3>4, <3>5, <3>6
    <3>8. QED  BY <3>3, <3>7
  <2>3. QED  BY <2>1, <2>2
<1>12. \A y \in R : x <= y  BY <1>8, <1>9
<1> HIDE DEF R
<1>13. Min(R) = x  BY <1>10, <1>11, <1>12, LeastOf
<1>14. QED  BY <1>13 DEF R, x, walk, place, WalkEnd

\* benjamini_hochberg returns what Benjamini and Hochberg define.
IsTested(ps, tested) == tested = {i \in DOMAIN ps : ps[i] # NULL}

LEMMA BenjaminiHochbergIs ==
    ASSUME NEW ps, NEW tested, IsTested(ps, tested),
           Adjustable(ps, tested), NEW i \in tested
    PROVE  BenjaminiHochberg(ps)[i] =
             Min({Scale} \cup {ScaledUp(ps, tested, j) : j \in {k \in tested : ps[k] >= ps[i]}})
<1> DEFINE m == Cardinality(tested)
           o == Falling(ps, tested)
<1>1. BenjaminiHochberg(ps)[i] = WalkEnd(ps, o, m, i)
  BY DEF BenjaminiHochberg, Walks, Raised, WalkEnd, IsTested
<1>2. m = Cardinality(tested) /\ o = Falling(ps, tested)  OBVIOUS
<1> HIDE DEF m, o
<1>3. WalkEnd(ps, o, m, i) =
        Min({Scale} \cup {ScaledUp(ps, tested, j) : j \in {k \in tested : ps[k] >= ps[i]}})
  BY <1>2, WalkedTo
<1>4. QED  BY <1>1, <1>3

\* A candidate has the p-value of its table, and its place in what the step-up returned.
PValues(cs) == [i \in DOMAIN cs |-> cs[i].p_value]
TestedAt(t) == HypothesisTest(t.a, t.n1, t.c, t.n0).p

LEMMA CandidateTested ==
    ASSUME NEW row, NEW a, NEW b
    PROVE  /\ ScoreCandidate(row, a, b).p_value = TestedAt(Contingency(row, a, b))
           /\ "p_value" \in DOMAIN ScoreCandidate(row, a, b)
<1>1. ScoreCandidate(row, a, b).p_value = TestedAt(Contingency(row, a, b))
  BY Zenon DEF ScoreCandidate, TestedAt
<1>2. "p_value" \in DOMAIN ScoreCandidate(row, a, b)  BY Zenon DEF ScoreCandidate
<1>3. QED  BY <1>1, <1>2

LEMMA CandidateValues ==
    ASSUME NEW s, NEW cap
    PROVE  \A i \in DOMAIN RealRows(s) :
             /\ ScoreRows(s, cap).candidates[i].p_value =
                    TestedAt(ScoreRows(s, cap).candidates[i].table)
             /\ ScoreRows(s, cap).family_complete =>
                    ScoreRows(s, cap).candidates[i].adjusted_p_value =
                        BenjaminiHochberg(PValues(ScoreRows(s, cap).candidates))[i]
<1> DEFINE real == RealRows(s)
           a == TotalOf(s, "seed_record_count")
           b == TotalOf(s, "background_record_count")
           complete == FamilyComplete(IndependentCount(s), Len(real), cap)
           scored == ScoredRows(real, a, b)
           adjusted == Adjusted(scored, complete)
<1>1. PICK f, g, h : ScoreRows(s, cap).candidates = Completed(scored, adjusted, f, g, h)
  BY ScoreParts
<1>2. ScoreRows(s, cap).family_complete = complete  BY ScoreParts
<1> HIDE DEF real, a, b, complete, adjusted
<1>3. scored = [i \in DOMAIN real |-> ScoreCandidate(real[i], a, b)]  BY DEF ScoredRows
<1> HIDE DEF scored
<1> DEFINE cs == Completed(scored, adjusted, f, g, h)
<1>4. DOMAIN cs = DOMAIN real /\ DOMAIN scored = DOMAIN real  BY <1>3 DEF Completed
<1>5. ASSUME NEW i \in DOMAIN real
      PROVE  /\ cs[i].p_value = scored[i].p_value
             /\ cs[i].p_value = TestedAt(cs[i].table)
             /\ cs[i].adjusted_p_value = adjusted[i]
  <2>1. scored[i] = ScoreCandidate(real[i], a, b)  BY <1>3
  <2>2. cs[i] = [scored[i] EXCEPT !.adjusted_p_value = adjusted[i],
                          !.raw_frequency_rank = f[i],
                          !.raw_statistical_rank = g[i],
                          !.research_adjusted_rank = h[i]]
    BY <1>3 DEF Completed
  <2>3. /\ scored[i].table = Contingency(real[i], a, b)
        /\ "adjusted_p_value" \in DOMAIN scored[i]
    BY <2>1, CandidateFields
  <2>4. scored[i].p_value = TestedAt(Contingency(real[i], a, b)) /\ "p_value" \in DOMAIN scored[i]
    BY <2>1, CandidateTested
  <2> HIDE DEF cs
  <2>5. cs[i].p_value = scored[i].p_value /\ cs[i].table = scored[i].table  BY <2>2, <2>4
  <2>6. cs[i].adjusted_p_value = adjusted[i]  BY <2>2, <2>3
  <2>7. QED  BY <2>3, <2>4, <2>5, <2>6
<1>6. PValues(cs) = [i \in DOMAIN scored |-> scored[i].p_value]
  <2> HIDE DEF cs
  <2>1. QED  BY <1>4, <1>5 DEF PValues
<1>7. complete => adjusted = BenjaminiHochberg(PValues(cs))  BY <1>6 DEF adjusted, Adjusted
<1> HIDE DEF cs
<1>8. ScoreRows(s, cap).candidates = cs  BY <1>1 DEF cs
<1>9. QED  BY <1>2, <1>5, <1>7, <1>8 DEF real

\* So it is a number or None, whatever beginning of the rows was scored.
LEMMA TestedOnBeginning ==
    ASSUME NEW T, Table(T), NEW q, ScoringSql(q), NEW s, Leading(s, T, q), NEW cap,
           NEW i \in DOMAIN ScoreRows(s, cap).candidates
    PROVE  ScoreRows(s, cap).candidates[i].p_value \in Nat \cup {NULL}
<1> DEFINE cs == ScoreRows(s, cap).candidates
           c == cs[i].theme
           A == ArmOf(T, q, TRUE)
           B == ArmOf(T, q, FALSE)
<1>1. cs[i].table = TableOf(T, q, c)  BY TablesOnBeginning
<1>2. i \in DOMAIN RealRows(s)  BY CandidateFacts
<1>3. cs[i].p_value = TestedAt(cs[i].table)  BY <1>2, CandidateValues
<1> HIDE DEF cs, c
<1>4. A \subseteq T /\ B \subseteq T  BY ArmFacts
<1> DEFINE n1 == Cardinality(A)
           n0 == Cardinality(B)
           x == Cardinality(With(A, c))
           y == Cardinality(With(B, c))
<1>5. TableOf(T, q, c) = [a |-> x, n1 |-> n1, c |-> y, n0 |-> n0]  BY DEF TableOf
<1> HIDE DEF A, B
<1>6. With(A, c) \subseteq T /\ With(B, c) \subseteq T  BY <1>4 DEF With
<1>7. n1 \in Nat  BY <1>4, IdsAreRecords
<1>8. n0 \in Nat  BY <1>4, IdsAreRecords
<1>9. x \in Nat
  <2> DEFINE X == With(A, c)
  <2>1. X \subseteq T  BY <1>6
  <2> HIDE DEF X
  <2>2. Cardinality(X) \in Nat  BY <2>1, IdsAreRecords
  <2>3. QED  BY <2>2 DEF X
<1>10. y \in Nat
  <2> DEFINE Y == With(B, c)
  <2>1. Y \subseteq T  BY <1>6
  <2> HIDE DEF Y
  <2>2. Cardinality(Y) \in Nat  BY <2>1, IdsAreRecords
  <2>3. QED  BY <2>2 DEF Y
<1> HIDE DEF n1, n0, x, y
<1>11. TestedAt(cs[i].table) = HypothesisTest(x, n1, y, n0).p  BY <1>1, <1>5 DEF TestedAt
<1>12. HypothesisTest(x, n1, y, n0).p \in Nat \cup {NULL}
  BY <1>7, <1>8, <1>9, <1>10, HypothesisFacts
<1>13. QED  BY <1>3, <1>11, <1>12 DEF cs

\* The adjusted values of a complete family are the definition's.
HaveTested(cs, tested) == tested = {i \in DOMAIN cs : cs[i].p_value # NULL}

LEMMA StepUpOnBeginning ==
    ASSUME NEW T, Table(T), NEW q, ScoringSql(q), NEW s, Leading(s, T, q), NEW cap,
           ScoreRows(s, cap).family_complete,
           NEW cs, cs = ScoreRows(s, cap).candidates,
           NEW tested, HaveTested(cs, tested), NEW i \in tested
    PROVE  cs[i].adjusted_p_value =
             Min({Scale} \cup {ScaledUp(PValues(cs), tested, j) :
                                j \in {k \in tested : cs[k].p_value >= cs[i].p_value}})
<1> DEFINE ps == PValues(cs)
<1>1. DOMAIN cs = DOMAIN RealRows(s)  BY CandidateFacts
<1>2. \A k \in DOMAIN cs : cs[k].p_value \in Nat \cup {NULL}  BY TestedOnBeginning
<1>3. DOMAIN ps = DOMAIN cs /\ \A k \in DOMAIN cs : ps[k] = cs[k].p_value  BY DEF PValues
<1>4. IsTested(ps, tested)
  <2>1. tested = {k \in DOMAIN cs : cs[k].p_value # NULL}  BY DEF HaveTested
  <2> HIDE DEF ps
  <2>2. {k \in DOMAIN ps : ps[k] # NULL} = {k \in DOMAIN cs : cs[k].p_value # NULL}  BY <1>3
  <2>3. QED  BY <2>1, <2>2 DEF IsTested
<1>5. tested \subseteq Nat /\ IsFiniteSet(tested)
  <2>1. RealRows(s) \in Seq(ToSet(s)) /\ Len(RealRows(s)) \in Nat
    BY RealRowFacts DEF Leading
  <2>2. DOMAIN RealRows(s) = 1..Len(RealRows(s))  BY <2>1
  <2>3. IsFiniteSet(1..Len(RealRows(s)))  BY <2>1, FS_Interval
  <2>4. tested \subseteq 1..Len(RealRows(s))  BY <1>1, <2>2 DEF HaveTested
  <2>5. IsFiniteSet(tested)  BY <2>3, <2>4, FS_Subset
  <2>6. QED  BY <2>4, <2>5
<1>6. Adjustable(ps, tested)
  <2>1. \A k \in tested : ps[k] \in Nat  BY <1>2, <1>3 DEF HaveTested
  <2> HIDE DEF ps
  <2>2. QED  BY <1>5, <2>1 DEF Adjustable
<1>7. cs[i].adjusted_p_value = BenjaminiHochberg(ps)[i]
  <2>1. i \in DOMAIN RealRows(s)  BY <1>1 DEF HaveTested
  <2>2. QED  BY <2>1, CandidateValues
<1>8. {k \in tested : cs[k].p_value >= cs[i].p_value} = {k \in tested : ps[k] >= ps[i]}
  BY <1>3 DEF HaveTested
<1> HIDE DEF ps
<1>9. BenjaminiHochberg(ps)[i] =
        Min({Scale} \cup {ScaledUp(ps, tested, j) : j \in {k \in tested : ps[k] >= ps[i]}})
  BY <1>4, <1>6, BenjaminiHochbergIs
<1>10. QED  BY <1>7, <1>8, <1>9 DEF ps

\* The correction of a complete family is Benjamini and Hochberg's (benjamini_hochberg), and
\* with the tables the scores rest on the archive.
THEOREM StatisticsSoundHolds == TaskSpec => []StatisticsSound
<1>1. GdeltInv => StepUpSound
  <2> SUFFICES ASSUME GdeltInv, Scored PROVE StepUpSound  BY DEF StepUpSound
  <2> DEFINE q == Sql(run.req)
             cap == run.req.q.candidate_limit
             cs == run.state.candidates
             tested == {k \in DOMAIN cs : cs[k].p_value # NULL}
             scaled(j) == (cs[j].p_value * Cardinality(tested))
                            \div Cardinality({k \in tested : cs[k].p_value <= cs[j].p_value})
             above(i) == {k \in tested : cs[k].p_value >= cs[i].p_value}
  <2>1. /\ Table(run.at) /\ ScoringSql(q) /\ Leading(run.rows, run.at, q)
        /\ run.state = ScoreRows(run.rows, cap)
    BY ScoredFacts
  <2>2. cs = ScoreRows(run.rows, cap).candidates
        /\ run.state.family_complete = ScoreRows(run.rows, cap).family_complete
    BY <2>1
  <2>3. HaveTested(cs, tested)  BY DEF HaveTested
  <2>4. \A j \in tested : scaled(j) = ScaledUp(PValues(cs), tested, j)
    <3> SUFFICES ASSUME NEW j \in tested PROVE scaled(j) = ScaledUp(PValues(cs), tested, j)
      OBVIOUS
    <3>1. \A k \in tested : PValues(cs)[k] = cs[k].p_value  BY DEF PValues
    <3>2. AtMostAs(PValues(cs), tested, j) = {k \in tested : cs[k].p_value <= cs[j].p_value}
      BY <3>1 DEF AtMostAs
    <3>3. QED  BY <3>1, <3>2 DEF ScaledUp
  <2>5. ASSUME run.state.family_complete, NEW i \in tested
        PROVE  cs[i].adjusted_p_value = Min({Scale} \cup {scaled(j) : j \in above(i)})
    <3> HIDE DEF q, cap, cs, tested
    <3>1. cs[i].adjusted_p_value =
             Min({Scale} \cup {ScaledUp(PValues(cs), tested, j) :
                                j \in {k \in tested : cs[k].p_value >= cs[i].p_value}})
      BY <2>1, <2>2, <2>3, <2>5, StepUpOnBeginning
    <3>2. above(i) \subseteq tested  OBVIOUS
    <3> DEFINE S == above(i)
    <3>3. {k \in tested : cs[k].p_value >= cs[i].p_value} = S  OBVIOUS
    <3> HIDE DEF S, scaled
    <3>4. {scaled(j) : j \in S} = {ScaledUp(PValues(cs), tested, j) : j \in S}
      BY <2>4, <3>2 DEF S
    <3>5. QED  BY <3>1, <3>3, <3>4 DEF S
  <2>6. QED  BY <2>5 DEF StepUpSound
<1>2. TaskSpec => []StepUpSound  BY <1>1, FilesKeptByQuery, PTL
<1>3. StatisticsSound <=> TablesSplit /\ StepUpSound  BY DEF StatisticsSound
<1>4. QED  BY <1>2, <1>3, TablesSplitHolds, PTL

=============================================================================

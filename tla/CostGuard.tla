----------------------------- MODULE CostGuard -----------------------------
(***************************************************************************)
(* SafeBigQueryClient.safe_query with its result cache and CostLedger      *)
(* (ingestion/warehouse/bigquery/client.py, cache.py, ingestion/cost):     *)
(* processes that ask for queries under one CostPolicy.  They share the    *)
(* append-only ledger file and the cache files, and nothing reserves the   *)
(* budget between the evaluation of the caps and the ALLOW record.  Money  *)
(* is counted in integer units of estimated cost, and a byte limit in the  *)
(* same units: the cost of a scan is its bytes times a constant price.     *)
(***************************************************************************)
EXTENDS Integers, FiniteSets

CONSTANTS
    Clients,        \* processes that use one ledger
    Queries,        \* queries, each with a cache file of its own
    Cost,           \* [Queries -> Nat], the dry-run estimate
    Calls,          \* the calls tasks make, records of CallRecord
    NoCall,         \* a process that has not called yet
    SingleQueryCap, DailyCap, MonthlyCap, EmergencyStop,    \* the CostPolicy
    LastDay,        \* bound on the clock
    CycleOf,        \* billing cycle of each day
    MaxAborts       \* bound on the calls that end in an exception or a kill

Days == 0..LastDay
Cycles == {CycleOf[d] : d \in Days}

CallRecord ==
    [query : Queries,
     dryRun : BOOLEAN,          \* cost_controls.dry_run
     confirmed : BOOLEAN,       \* the typed confirmation matches, or is not required
     readsCache : BOOLEAN,      \* use_cache, require_cache_check and a cache_path
     writesCache : BOOLEAN,     \* a cache_path was given
     limit : Nat]               \* maximum_bytes_billed

\* _validate of cost/policy.py, and what the calendar guarantees.
ASSUME PolicyAssumption ==
    /\ IsFiniteSet(Clients) /\ Clients # {} /\ IsFiniteSet(Queries)
    /\ SingleQueryCap \in Nat /\ DailyCap \in Nat /\ MonthlyCap \in Nat /\ EmergencyStop \in Nat
    /\ EmergencyStop <= MonthlyCap
    /\ Cost \in [Queries -> Nat]
    /\ Calls \subseteq CallRecord /\ NoCall \notin Calls
    /\ LastDay \in Nat /\ MaxAborts \in Nat
    /\ CycleOf \in [Days -> Nat]
    /\ \A d, e \in Days : d <= e => CycleOf[d] <= CycleOf[e]

VARIABLES
    today,          \* UTC date
    dayTotal,       \* cost of the ALLOW records of each day, as summarize adds them up
    cycleTotal,     \* the same for each billing cycle
    cache,          \* the cache file of each query: absent, torn or full
    pc, call,       \* where each process is in safe_query, and its arguments
    decision,       \* the SafeQueryDecision of its last call
    rows,           \* the rows its last call returned: none, partial or complete
    paid,           \* times each query was billed (history)
    lost,           \* billed cost that will never be recorded (history)
    overlapped,     \* two calls have been past the caps at once (history)
    aborts          \* calls that ended in an exception or a kill (history)

ledgerVars == <<dayTotal, cycleTotal>>
callVars == <<pc, call, decision, rows>>
historyVars == <<paid, lost, overlapped, aborts>>
vars == <<today, ledgerVars, cache, callVars, historyVars>>

Pcs == {"idle", "lookup", "evaluate", "execute", "truncate", "fill", "record", "done"}

\* Past the caps, its cost not in the ledger yet.
InFlightPcs == {"execute", "truncate", "fill", "record"}

\* Billed by the provider, its cost not in the ledger yet.
BilledPcs == {"truncate", "fill", "record"}

Decisions == {"none", "USE_CACHE", "DRY_RUN_ONLY", "ALLOW", "BLOCK_OVER_MAX_BYTES",
              "BLOCK_OVER_SINGLE_QUERY_CAP", "BLOCK_EMERGENCY_STOP", "BLOCK_OVER_DAILY_CAP",
              "BLOCK_OVER_MONTHLY_CAP", "BLOCK_MISSING_EXECUTE_CONFIRMATION", "raised"}

Init ==
    /\ today = 0
    /\ dayTotal = [d \in Days |-> 0]
    /\ cycleTotal = [k \in Cycles |-> 0]
    /\ cache = [q \in Queries |-> "absent"]
    /\ pc = [c \in Clients |-> "idle"]
    /\ call = [c \in Clients |-> NoCall]
    /\ decision = [c \in Clients |-> "none"]
    /\ rows = [c \in Clients |-> "none"]
    /\ paid = [q \in Queries |-> 0]
    /\ lost = 0
    /\ overlapped = FALSE
    /\ aborts = 0

Goto(c, from, to) == pc[c] = from /\ pc' = [pc EXCEPT ![c] = to]
Query(c) == call[c].query
Price(c) == Cost[Query(c)]

\* A bug: every decision is charged, dry runs and blocks included.
ChargeEveryDecision(d, cost) ==
    /\ dayTotal' = [dayTotal EXCEPT ![today] = @ + cost]
    /\ cycleTotal' = [cycleTotal EXCEPT ![CycleOf[today]] = @ + cost]

\* ledger.append, seen through summarize: a record is dated with the day it is
\* written, and only ALLOW records count as spend.
AppendLedger(d, cost) ==
    LET charge == IF d = "ALLOW" THEN cost ELSE 0
    IN  /\ dayTotal' = [dayTotal EXCEPT ![today] = @ + charge]
        /\ cycleTotal' = [cycleTotal EXCEPT ![CycleOf[today]] = @ + charge]

\* Log the decision and leave safe_query, with a result or a CostGuardrailError.
Finish(c, d, cost, returned) ==
    /\ pc' = [pc EXCEPT ![c] = "done"]
    /\ AppendLedger(d, cost)
    /\ decision' = [decision EXCEPT ![c] = d]
    /\ rows' = [rows EXCEPT ![c] = returned]

\* A bug: the caps are compared with the ledger as it is, without the estimate.
WithoutProjection(c) ==
    IF Price(c) > call[c].limit THEN "BLOCK_OVER_MAX_BYTES"
    ELSE IF Price(c) > SingleQueryCap THEN "BLOCK_OVER_SINGLE_QUERY_CAP"
    ELSE IF cycleTotal[CycleOf[today]] >= EmergencyStop THEN "BLOCK_EMERGENCY_STOP"
    ELSE IF dayTotal[today] > DailyCap THEN "BLOCK_OVER_DAILY_CAP"
    ELSE "none"

\* A bug: the single-query cap is not enforced.
WithoutSingleCap(c) ==
    IF Price(c) > call[c].limit THEN "BLOCK_OVER_MAX_BYTES"
    ELSE IF cycleTotal[CycleOf[today]] + Price(c) >= EmergencyStop THEN "BLOCK_EMERGENCY_STOP"
    ELSE IF dayTotal[today] + Price(c) > DailyCap THEN "BLOCK_OVER_DAILY_CAP"
    ELSE "none"

\* _evaluate_guardrails: the first cap the estimate would break, in the code's order.
Violation(c) ==
    LET projectedCycle == cycleTotal[CycleOf[today]] + Price(c)
        projectedToday == dayTotal[today] + Price(c)
    IN  IF Price(c) > call[c].limit THEN "BLOCK_OVER_MAX_BYTES"
        ELSE IF Price(c) > SingleQueryCap THEN "BLOCK_OVER_SINGLE_QUERY_CAP"
        ELSE IF projectedCycle >= EmergencyStop THEN "BLOCK_EMERGENCY_STOP"
        ELSE IF projectedToday > DailyCap THEN "BLOCK_OVER_DAILY_CAP"
        ELSE IF projectedCycle > MonthlyCap THEN "BLOCK_OVER_MONTHLY_CAP"
        ELSE "none"

Ask(c) ==
    /\ Goto(c, "idle", "lookup")
    /\ \E a \in Calls : call' = [call EXCEPT ![c] = a]
    /\ UNCHANGED <<today, ledgerVars, cache, decision, rows, historyVars>>

\* load_cached_rows: a file that exists is a hit, whatever of it has been written.
UseCache(c) ==
    /\ pc[c] = "lookup"
    /\ call[c].readsCache
    /\ cache[Query(c)] # "absent"
    /\ Finish(c, "USE_CACHE", 0,
              IF cache[Query(c)] = "full" THEN "complete" ELSE "partial")
    /\ UNCHANGED <<today, cache, call, historyVars>>

\* A bug: a cache file another process is still writing counts as a miss.
MissUnlessFull(c) ==
    /\ Goto(c, "lookup", "evaluate")
    /\ call[c].readsCache => cache[Query(c)] # "full"
    /\ UNCHANGED <<today, ledgerVars, cache, call, decision, rows, historyVars>>

Miss(c) ==
    /\ Goto(c, "lookup", "evaluate")
    /\ call[c].readsCache => cache[Query(c)] = "absent"
    /\ UNCHANGED <<today, ledgerVars, cache, call, decision, rows, historyVars>>

\* dry_run=True: the estimate is informational, whatever the caps say.
EstimateOnly(c) ==
    /\ pc[c] = "evaluate"
    /\ call[c].dryRun
    /\ Finish(c, "DRY_RUN_ONLY", Price(c), "none")
    /\ UNCHANGED <<today, cache, call, historyVars>>

Block(c) ==
    /\ pc[c] = "evaluate"
    /\ ~call[c].dryRun
    /\ Violation(c) # "none"
    /\ Finish(c, Violation(c), Price(c), "none")
    /\ UNCHANGED <<today, cache, call, historyVars>>

BlockUnconfirmed(c) ==
    /\ pc[c] = "evaluate"
    /\ ~call[c].dryRun
    /\ Violation(c) = "none"
    /\ ~call[c].confirmed
    /\ Finish(c, "BLOCK_MISSING_EXECUTE_CONFIRMATION", Price(c), "none")
    /\ UNCHANGED <<today, cache, call, historyVars>>

\* The estimate is within every cap, read from the ledger once, at this moment.
Admit(c) ==
    /\ Goto(c, "evaluate", "execute")
    /\ ~call[c].dryRun
    /\ Violation(c) = "none"
    /\ call[c].confirmed
    /\ overlapped' = (overlapped \/ \E d \in Clients \ {c} : pc[d] \in InFlightPcs)
    /\ UNCHANGED <<today, ledgerVars, cache, call, decision, rows, paid, lost, aborts>>

\* run_query: the provider bills the job.
Execute(c) ==
    /\ Goto(c, "execute", IF call[c].writesCache THEN "truncate" ELSE "record")
    /\ paid' = [paid EXCEPT ![Query(c)] = @ + 1]
    /\ UNCHANGED <<today, ledgerVars, cache, call, decision, rows, lost, overlapped, aborts>>

\* write_cached_rows: open("w") truncates, the rows follow.
TruncateCache(c) ==
    /\ Goto(c, "truncate", "fill")
    /\ cache' = [cache EXCEPT ![Query(c)] = "torn"]
    /\ UNCHANGED <<today, ledgerVars, call, decision, rows, historyVars>>

FillCache(c) ==
    /\ Goto(c, "fill", "record")
    /\ cache' = [cache EXCEPT ![Query(c)] = "full"]
    /\ UNCHANGED <<today, ledgerVars, call, decision, rows, historyVars>>

RecordAllow(c) ==
    /\ pc[c] = "record"
    /\ Finish(c, "ALLOW", Price(c), "complete")
    /\ UNCHANGED <<today, cache, call, historyVars>>

\* The provider, the disk or the user ends the call between two steps: an exception
\* other than a guardrail, or a kill.  No except clause logs it.
Abort(c) ==
    /\ aborts < MaxAborts
    /\ pc[c] \notin {"idle", "done"}
    /\ pc' = [pc EXCEPT ![c] = "done"]
    /\ decision' = [decision EXCEPT ![c] = "raised"]
    /\ rows' = [rows EXCEPT ![c] = "none"]
    /\ lost' = IF pc[c] \in BilledPcs THEN lost + Price(c) ELSE lost
    /\ aborts' = aborts + 1
    /\ UNCHANGED <<today, ledgerVars, cache, call, paid, overlapped>>

\* The task takes the result and may ask again, now or in a later process.
Return(c) ==
    /\ Goto(c, "done", "idle")
    /\ call' = [call EXCEPT ![c] = NoCall]
    /\ decision' = [decision EXCEPT ![c] = "none"]
    /\ rows' = [rows EXCEPT ![c] = "none"]
    /\ UNCHANGED <<today, ledgerVars, cache, historyVars>>

Midnight ==
    /\ today < LastDay
    /\ today' = today + 1
    /\ UNCHANGED <<ledgerVars, cache, callVars, historyVars>>

Step(c) ==
    \/ Ask(c) \/ UseCache(c) \/ Miss(c) \/ EstimateOnly(c) \/ Block(c)
    \/ BlockUnconfirmed(c) \/ Admit(c) \/ Execute(c) \/ TruncateCache(c) \/ FillCache(c)
    \/ RecordAllow(c) \/ Abort(c) \/ Return(c)

Next == Midnight \/ \E c \in Clients : Step(c)

Spec == Init /\ [][Next]_vars

-----------------------------------------------------------------------------

TypeOK ==
    /\ today \in Days
    /\ dayTotal \in [Days -> Nat]
    /\ cycleTotal \in [Cycles -> Nat]
    /\ cache \in [Queries -> {"absent", "torn", "full"}]
    /\ pc \in [Clients -> Pcs]
    /\ call \in [Clients -> Calls \cup {NoCall}]
    /\ \A c \in Clients : pc[c] # "idle" => call[c] \in Calls
    /\ decision \in [Clients -> Decisions]
    /\ rows \in [Clients -> {"none", "partial", "complete"}]
    /\ paid \in [Queries -> Nat]
    /\ lost \in Nat
    /\ overlapped \in BOOLEAN
    /\ aborts \in Nat

\* As long as no two calls have been between the caps and the ledger at once, no day
\* is charged more than the daily cap and no billing cycle reaches the emergency stop,
\* even when midnight or a cycle boundary falls between the check and the record.
SequentialCaps ==
    ~overlapped =>
        /\ \A d \in Days : dayTotal[d] <= DailyCap
        /\ \A k \in Cycles : cycleTotal[k] = 0 \/ cycleTotal[k] < EmergencyStop

\* The sum of the amounts of w, as the number of its units.
Total(w) == Cardinality(UNION {{x} \X (1..w[x]) : x \in DOMAIN w})

\* The cost of what the clients in S are about to add to the ledger.
Pending(S) == Total([c \in Clients |-> IF c \in S THEN Price(c) ELSE 0])
InFlight == {c \in Clients : pc[c] \in InFlightPcs}

\* Without a reservation concurrent calls may overshoot the daily cap and the emergency
\* stop, but only by what the other processes can have in flight: one single-query cap each.
OvershootBounded ==
    LET slack == (Cardinality(Clients) - 1) * SingleQueryCap
    IN  /\ dayTotal[today] + Pending(InFlight) <= DailyCap + slack
        /\ InFlight # {} => cycleTotal[CycleOf[today]] + Pending(InFlight) < EmergencyStop + slack

\* Every billed unit is in the ledger, in flight, or was lost with an aborted call:
\* dry runs, blocks and cache hits are free, and nothing is charged twice.
SpendAccounted ==
    Total([q \in Queries |-> paid[q] * Cost[q]]) =
        Total(dayTotal) + Pending({c \in Clients : pc[c] \in BilledPcs}) + lost

\* safe_query's docstring: nothing is executed that is a dry run, unconfirmed, over its
\* byte limit or over the single-query cap, whatever the other processes do meanwhile.
ExecutesOnlyApproved ==
    \A c \in InFlight :
        /\ call[c].confirmed /\ ~call[c].dryRun
        /\ Price(c) <= call[c].limit
        /\ Price(c) <= SingleQueryCap

\* A query that is always asked through the cache is billed at most once per process
\* and once more per aborted call, however often it is asked.
PaidBounded ==
    \A q \in Queries :
        (\A a \in Calls : a.query = q => a.readsCache /\ a.writesCache)
            => paid[q] <= Cardinality(Clients) + aborts

\* Validation demands emergency_stop_usd <= monthly_cap_usd and the emergency stop is
\* looked at first, so the monthly cap never is what blocks a query.
MonthlyCapShadowed == \A c \in Clients : decision[c] # "BLOCK_OVER_MONTHLY_CAP"

\* "Every cost decision (dry-run, block, cache hit, real execution) is written as a
\* single JSON line" (cost/ledger.py): what was billed reaches the ledger.
EveryExecutionRecorded == lost = 0

=============================================================================

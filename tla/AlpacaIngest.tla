---------------------------- MODULE AlpacaIngest ----------------------------
(***************************************************************************)
(* The alpaca_historical_bars task end to end: the response cache of       *)
(* ingestion/caching.py around the paginated fetch (AlpacaClient, here one *)
(* step per page), normalization, and the upsert into the financial store  *)
(* (JsonlStore, here the atomic upsert it implements).  Several runs share *)
(* the cache and the store while the provider revises its bars.            *)
(***************************************************************************)
EXTENDS Integers, Sequences, FiniteSets

CONSTANTS
    Runs,           \* executions of the task
    Keys,           \* logical keys of bars
    Requests,       \* [Request -> the pages of its answer: a sequence of sets of keys]
    Policies,       \* cache policies: [force : BOOLEAN, ttl : Nat \cup {NoTtl}]
    NoTtl, NoEntry,
    Invalid,        \* versions of bars that PriceBar rejects
    MaxVersion, MaxClock    \* bounds on the revisions of a bar and on the clock

Versions == 0..MaxVersion
Times == 0..MaxClock
Bars == [key : Keys, version : Versions]

KeysOf(q) == UNION {Requests[q][i] : i \in DOMAIN Requests[q]}

Response == [bars : SUBSET Bars, at : Times, saved : Times]

ASSUME IngestAssumption ==
    /\ \A q \in DOMAIN Requests : Requests[q] \in Seq(SUBSET Keys) \ {<<>>}
    /\ Policies \subseteq [force : BOOLEAN, ttl : Nat \cup {NoTtl}]
    /\ MaxVersion \in Nat /\ MaxClock \in Nat
    /\ Invalid \subseteq Bars
    /\ NoEntry \notin Response

\* The financial store: which records are semantically equal, and how a batch is merged.
Store == INSTANCE FinancialRecords
            WITH Payloads <- Versions, Stamps <- Times, Batches <- {<<>>}

VARIABLES
    clock,
    market,         \* the version of each bar the provider serves
    revisedAt,      \* when each version of a bar was published (history)
    cache,          \* the response file of each request
    dataset,        \* market_bars.jsonl
    pc, request, policy,
    now,            \* resolved_now of each run
    fetched,        \* pages read so far
    raw,            \* the response in hand: its bars, its retrieved_at and the file's mtime
    status,         \* cache_status
    outcome,
    disturbed       \* refreshing runs during which somebody else changed something (history)

worldVars == <<clock, market, revisedAt>>
fileVars == <<cache, dataset>>
runVars == <<pc, request, policy, now, fetched, raw, status, outcome>>
vars == <<worldVars, fileVars, runVars, disturbed>>

Empty == [bars |-> {}, at |-> 0, saved |-> 0]

Pcs == {"start", "stat", "read", "fetch", "save", "normalize", "store", "ended"}

Init ==
    /\ clock = 0
    /\ market = [k \in Keys |-> 0]
    /\ revisedAt = [k \in Keys |-> [v \in {0} |-> 0]]
    /\ cache = [q \in DOMAIN Requests |-> NoEntry]
    /\ dataset = Store!EmptyDataset
    /\ pc = [r \in Runs |-> "start"]
    /\ request \in [Runs -> DOMAIN Requests]
    /\ policy \in [Runs -> Policies]
    /\ now = [r \in Runs |-> 0]
    /\ fetched = [r \in Runs |-> 0]
    /\ raw = [r \in Runs |-> Empty]
    /\ status = [r \in Runs |-> "none"]
    /\ outcome = [r \in Runs |-> "none"]
    /\ disturbed = {}

Goto(r, from, to) == pc[r] = from /\ pc' = [pc EXCEPT ![r] = to]

\* The runs that refresh the cache: the others see the world through it anyway.
Running == {r \in Runs : policy[r].force /\ pc[r] \notin {"start", "ended"}}

Tick ==
    /\ clock < MaxClock
    /\ clock' = clock + 1
    /\ UNCHANGED <<market, revisedAt, fileVars, runVars, disturbed>>

\* The process of a run ends, and its memory with it.
End(r, how) ==
    /\ pc' = [pc EXCEPT ![r] = "ended"]
    /\ outcome' = [outcome EXCEPT ![r] = how]
    /\ now' = [now EXCEPT ![r] = 0]
    /\ fetched' = [fetched EXCEPT ![r] = 0]
    /\ raw' = [raw EXCEPT ![r] = Empty]

\* The provider corrects a bar.
Revise(k) ==
    /\ market[k] < MaxVersion
    /\ market' = [market EXCEPT ![k] = @ + 1]
    /\ revisedAt' = [revisedAt EXCEPT ![k] =
                        [v \in 0..market[k] + 1 |-> IF v <= market[k] THEN @[v] ELSE clock]]
    /\ disturbed' = disturbed \cup Running
    /\ UNCHANGED <<clock, fileVars, runVars>>

\* A bug: a forced refresh looks into the cache all the same.
StartUnforced(r) ==
    /\ Goto(r, "start", "stat")
    /\ now' = [now EXCEPT ![r] = clock]
    /\ status' = [status EXCEPT ![r] = "miss"]
    /\ UNCHANGED <<worldVars, fileVars, request, policy, fetched, raw, outcome, disturbed>>

\* resolved_now is read once, before anything else.
Start(r) ==
    /\ Goto(r, "start", IF policy[r].force THEN "fetch" ELSE "stat")
    /\ now' = [now EXCEPT ![r] = clock]
    /\ status' = [status EXCEPT ![r] = IF policy[r].force THEN "force_refresh" ELSE "miss"]
    /\ UNCHANGED <<worldVars, fileVars, request, policy, fetched, raw, outcome, disturbed>>

Expired(r) ==
    policy[r].ttl # NoTtl /\ clock - cache[request[r]].saved > policy[r].ttl

\* _lookup_json_cache: whether the file exists and how old it is ...
Stat(r) ==
    /\ \/ /\ cache[request[r]] = NoEntry
          /\ Goto(r, "stat", "fetch")
          /\ UNCHANGED status
       \/ /\ cache[request[r]] # NoEntry /\ Expired(r)
          /\ Goto(r, "stat", "fetch")
          /\ status' = [status EXCEPT ![r] = "expired"]
       \/ /\ cache[request[r]] # NoEntry /\ ~Expired(r)
          /\ Goto(r, "stat", "read")
          /\ UNCHANGED status
    /\ UNCHANGED <<worldVars, fileVars, request, policy, now, fetched, raw, outcome, disturbed>>

\* A bug: what comes out of the cache is stamped with the time of this run.
ReadRestamped(r) ==
    /\ Goto(r, "read", "normalize")
    /\ raw' = [raw EXCEPT ![r] = [cache[request[r]] EXCEPT !.at = now[r]]]
    /\ status' = [status EXCEPT ![r] = "hit"]
    /\ UNCHANGED <<worldVars, fileVars, request, policy, now, fetched, outcome, disturbed>>

\* ... and its contents, retrieved_at included; it may have been replaced in between.
Read(r) ==
    /\ Goto(r, "read", "normalize")
    /\ raw' = [raw EXCEPT ![r] = cache[request[r]]]
    /\ status' = [status EXCEPT ![r] = "hit"]
    /\ UNCHANGED <<worldVars, fileVars, request, policy, now, fetched, outcome, disturbed>>

\* A page holds its bars as they are now; the provider may repeat bars of the page before.
PageBars(q, i) ==
    LET repeated == IF i = 1 THEN {} ELSE Requests[q][i - 1]
    IN  {{[key |-> k, version |-> market[k]] : k \in Requests[q][i] \cup again} :
            again \in SUBSET repeated}

\* fetch_pages reads one more page.
FetchPage(r) ==
    LET i == fetched[r] + 1
    IN  /\ Goto(r, "fetch", IF i = Len(Requests[request[r]]) THEN "save" ELSE "fetch")
        /\ fetched' = [fetched EXCEPT ![r] = i]
        /\ \E bars \in PageBars(request[r], i) :
              raw' = [raw EXCEPT ![r] =
                        [bars |-> @.bars \cup bars, at |-> now[r], saved |-> 0]]
        /\ UNCHANGED <<worldVars, fileVars, request, policy, now, status, outcome, disturbed>>

\* save_json_cache: the file is replaced atomically, before anybody has normalized it.
Save(r) ==
    /\ Goto(r, "save", "normalize")
    /\ cache' = [cache EXCEPT ![request[r]] = [raw[r] EXCEPT !.saved = clock]]
    /\ disturbed' = disturbed \cup (Running \ {r})
    /\ UNCHANGED <<worldVars, dataset, request, policy, now, fetched, raw, status, outcome>>

\* normalize_alpaca_bars accepts a response: PriceBar accepts every bar, and bars with one
\* logical key agree (AlpacaNormalizationConflictError).
Normalizable(response) ==
    /\ \A b \in response.bars : b \notin Invalid
    /\ \A b, c \in response.bars : b.key = c.key => b.version = c.version

Normalize(r) ==
    /\ pc[r] = "normalize"
    /\ \/ /\ Normalizable(raw[r])
          /\ Goto(r, "normalize", "store")
          /\ UNCHANGED <<now, fetched, raw, outcome>>
       \/ /\ ~Normalizable(raw[r])
          /\ End(r, "rejected")
    /\ UNCHANGED <<worldVars, fileVars, request, policy, status, disturbed>>

\* The normalized records, stamped with the response's retrieved_at.
Batch(response) ==
    [k \in {b.key : b \in response.bars} |->
        [payload |-> CHOOSE v \in Versions : [key |-> k, version |-> v] \in response.bars,
         retrieved |-> response.at]]

\* upsert_price_bars, the whole batch or nothing.
Upsert(r) ==
    /\ pc[r] = "store"
    /\ End(r, "stored")
    /\ dataset' = Store!Merged(dataset, Batch(raw[r]))
    /\ disturbed' = disturbed \cup (Running \ {r})
    /\ UNCHANGED <<worldVars, cache, request, policy, status>>

\* The provider fails for good, a disk is full, the store is locked, or the process dies:
\* the files stay as they are (temporary files are the process's own).
Stop(r) ==
    /\ pc[r] \in {"stat", "read", "fetch", "save", "normalize", "store"}
    /\ End(r, "failed")
    /\ UNCHANGED <<worldVars, fileVars, request, policy, status, disturbed>>

Step(r) ==
    Start(r) \/ Stat(r) \/ Read(r) \/ FetchPage(r) \/ Save(r) \/ Normalize(r) \/ Upsert(r) \/ Stop(r)

Next ==
    \/ Tick
    \/ \E k \in Keys : Revise(k)
    \/ \E r \in Runs : Step(r)

Spec == Init /\ [][Next]_vars

-----------------------------------------------------------------------------

\* The shape of the world, the files and the runs.
TypeOK ==
    /\ clock \in Times
    /\ market \in [Keys -> Versions]
    /\ DOMAIN revisedAt = Keys
    /\ \A k \in Keys : revisedAt[k] \in [0..market[k] -> Times]
    /\ cache \in [DOMAIN Requests -> Response \cup {NoEntry}]
    /\ dataset \in Store!Dataset
    /\ pc \in [Runs -> Pcs]
    /\ request \in [Runs -> DOMAIN Requests]
    /\ policy \in [Runs -> Policies]
    /\ now \in [Runs -> Times]
    /\ fetched \in [Runs -> Nat]
    /\ raw \in [Runs -> Response]
    /\ status \in [Runs -> {"none", "hit", "miss", "expired", "force_refresh"}]
    /\ outcome \in [Runs -> {"none", "stored", "rejected", "failed"}]
    /\ disturbed \subseteq Runs

\* A stored bar carries a retrieved_at at which the provider was still serving that version
\* of it: neither the cache nor a repeated download makes an old version look new.
NeverRestamped ==
    \A k \in DOMAIN dataset :
        dataset[k].payload < market[k] =>
            dataset[k].retrieved <= revisedAt[k][dataset[k].payload + 1]

\* A forced refresh that nobody disturbs leaves the provider's current bars in the store.
RefreshBringsCurrent ==
    [][\A r \in Runs :
          /\ policy[r].force /\ r \notin disturbed
          /\ outcome[r] = "none" /\ outcome'[r] = "stored"
          => \A k \in KeysOf(request[r]) : dataset'[k].payload = market[k]]_vars

=============================================================================

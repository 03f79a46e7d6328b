---------------------------- MODULE AlpacaProofs ----------------------------
(***************************************************************************)
(* Proofs about the two halves of the Alpaca pipeline.  AlpacaClient, for  *)
(* any limits, tokens and Retry-After values: FetchInv ties the tokens seen*)
(* to the pages read and counts requests against them.  AlpacaIngest, for  *)
(* every set of runs, keys, requests and cache policies: IInv says that    *)
(* every copy of a bar, in a run's hands, in the cache or in the store,    *)
(* carries a time at which the provider was still serving it.              *)
(***************************************************************************)
EXTENDS AlpacaClient, AlpacaIngest, SequenceTheorems, TLAPS

-----------------------------------------------------------------------------
(* Arithmetic: the requests of the pages that are done, and of one more.   *)

LEMMA OneMorePage ==
    ASSUME NEW n \in Nat, NEW p \in Nat, NEW m \in Nat, n < p
    PROVE  n * m + m <= p * m
<1>1. PICK k \in Nat : p = n + 1 + k
  <2>1. p - n - 1 \in Nat /\ p = n + 1 + (p - n - 1)  OBVIOUS
  <2>2. QED  BY <2>1
<1>2. p * m = n * m + m + k * m  BY <1>1
<1>3. k * m \in Nat /\ n * m \in Nat  OBVIOUS
<1>4. QED  BY <1>2, <1>3

-----------------------------------------------------------------------------
(* The inductive invariant.                                                *)

\* While the call runs, the tokens seen are those of the pages, all different, and the
\* next request goes on from the last page.
Walk ==
    /\ \A i \in 1..Len(pages) : pages[i].asked = IF i = 1 THEN NoToken ELSE pages[i - 1].next
    /\ \A i, j \in 1..Len(pages) : i # j => pages[i].asked # pages[j].asked
    /\ ending = "running" =>
          /\ token = IF Len(pages) = 0 THEN NoToken ELSE pages[Len(pages)].next
          /\ \A i \in 1..Len(pages) : pages[i].next \in seen /\ pages[i].asked # token
          /\ \A t \in seen : \E i \in 1..Len(pages) : pages[i].next = t

Budget ==
    /\ ending = "running" =>
          /\ Len(pages) < MaximumPages
          /\ requests <= Len(pages) * MaximumAttempts + (attempt - 1)
    /\ requests <= MaximumPages * MaximumAttempts

\* The types of what the argument is about (the waits are powers of two, of which the
\* provers know nothing).
Shape ==
    /\ token \in Tokens \cup {NoToken}
    /\ pages \in Seq(Page)
    /\ seen \subseteq Tokens
    /\ attempt \in 1..MaximumAttempts
    /\ requests \in Nat
    /\ ending \in {"running", "returned"} \cup Failures

FetchInv == Shape /\ Walk /\ Budget

LEMMA FetchInitialInvariant == FetchInit => FetchInv
<1> SUFFICES ASSUME FetchInit PROVE FetchInv  OBVIOUS
<1>1. pages = <<>> /\ pages \in Seq(Page) /\ Len(pages) = 0
  BY DEF FetchInit
<1>2. Shape  BY <1>1, ConfigAssumption DEF FetchInit, Shape, Failures
<1>3. Walk  BY <1>1 DEF FetchInit, Walk
<1>4. Budget
  <2>1. MaximumPages * MaximumAttempts \in Nat /\ 0 * MaximumAttempts = 0  BY ConfigAssumption
  <2>2. QED  BY <1>1, <2>1, ConfigAssumption DEF FetchInit, Budget
<1>5. QED  BY <1>2, <1>3, <1>4 DEF FetchInv

\* One more request on the page in progress is still within the budget.
LEMMA OneMoreRequest ==
    ASSUME FetchInv, Send
    PROVE  /\ requests' <= MaximumPages * MaximumAttempts
           /\ requests' <= Len(pages) * MaximumAttempts + attempt
           /\ requests' <= (Len(pages) + 1) * MaximumAttempts
<1>1. Len(pages) \in Nat  BY DEF FetchInv, Shape
<1>2. /\ attempt <= MaximumAttempts /\ attempt \in Nat /\ requests \in Nat
      /\ Len(pages) < MaximumPages /\ requests' = requests + 1
      /\ requests <= Len(pages) * MaximumAttempts + (attempt - 1)
  BY ConfigAssumption DEF FetchInv, Shape, Budget, Send
<1>3. \A n \in Nat :
        n < MaximumPages => n * MaximumAttempts + MaximumAttempts <= MaximumPages * MaximumAttempts
  BY OneMorePage, ConfigAssumption
<1>4. \A n \in Nat : n * MaximumAttempts \in Nat
                       /\ (n + 1) * MaximumAttempts = n * MaximumAttempts + MaximumAttempts
  BY ConfigAssumption
<1>5. MaximumPages * MaximumAttempts \in Nat /\ MaximumAttempts \in Nat  BY ConfigAssumption
<1> DEFINE done == Len(pages) * MaximumAttempts
           all == MaximumPages * MaximumAttempts
<1>6. /\ done \in Nat /\ all \in Nat /\ done + MaximumAttempts <= all
      /\ (Len(pages) + 1) * MaximumAttempts = done + MaximumAttempts
      /\ requests <= done + (attempt - 1)
  BY <1>1, <1>2, <1>3, <1>4, <1>5
<1> HIDE DEF done, all
<1>7. requests' <= all /\ requests' <= done + attempt /\ requests' <= done + MaximumAttempts
  BY <1>2, <1>5, <1>6
<1>8. QED  BY <1>6, <1>7 DEF done, all

\* Retrying, or giving up, on the same page.
LEMMA RetryStep ==
    ASSUME FetchInv, Send, NEW wait, NEW failure \in Failures, RetryOrGiveUp(wait, failure)
    PROVE  FetchInv'
<1>1. Shape'
  BY ConfigAssumption DEF FetchInv, Shape, Send, RetryOrGiveUp
<1>2. Walk'  BY DEF FetchInv, Walk, Send, RetryOrGiveUp, Failures
<1>3. Budget'
  <2>1. pages' = pages  BY DEF RetryOrGiveUp
  <2>2. CASE attempt = MaximumAttempts
    BY <2>1, <2>2, OneMoreRequest, ConfigAssumption DEF RetryOrGiveUp, Budget, Failures
  <2>3. CASE attempt # MaximumAttempts
    <3>1. attempt' = attempt + 1 /\ ending' = ending /\ attempt \in Nat
      BY <2>3, ConfigAssumption DEF RetryOrGiveUp, FetchInv, Shape
    <3>2. attempt' - 1 = attempt  BY <3>1
    <3>3. QED  BY <2>1, <3>1, <3>2, OneMoreRequest DEF FetchInv, Budget
  <2>4. QED  BY <2>2, <2>3
<1>4. QED  BY <1>1, <1>2, <1>3 DEF FetchInv

\* A page at the end of the ones read so far.
LEMMA PageAppended ==
    ASSUME FetchInv, NEW next \in Tokens \cup {NoToken},
           pages' = Append(pages, [asked |-> token, next |-> next])
    PROVE  /\ pages' \in Seq(Page) /\ Len(pages') = Len(pages) + 1 /\ Len(pages) \in Nat
           /\ \A i \in 1..Len(pages) : pages'[i] = pages[i]
           /\ pages'[Len(pages')] = [asked |-> token, next |-> next]
<1>1. [asked |-> token, next |-> next] \in Page /\ pages \in Seq(Page)
  BY DEF FetchInv, Shape, Page
<1>2. \A e \in Page :
        /\ Append(pages, e) \in Seq(Page) /\ Len(Append(pages, e)) = Len(pages) + 1
        /\ Len(pages) \in Nat
        /\ \A i \in 1..Len(pages) : Append(pages, e)[i] = pages[i]
        /\ Append(pages, e)[Len(pages) + 1] = e
  BY <1>1, AppendProperties, LenProperties
<1>3. QED  BY <1>1, <1>2

\* The page asked for last has a token no other page was asked with.
LEMMA WalkStep ==
    ASSUME FetchInv, Send, NEW next \in Tokens \cup {NoToken},
           pages' = Append(pages, [asked |-> token, next |-> next]),
           ending' = "running" =>
               /\ token' = next /\ next # NoToken /\ next \notin seen
               /\ seen' = seen \cup {next}
    PROVE  Walk'
<1> DEFINE n == Len(pages)
<1>1. /\ n \in Nat /\ Len(pages') = n + 1
      /\ \A i \in 1..n : pages'[i] = pages[i]
      /\ pages'[n + 1].asked = token /\ pages'[n + 1].next = next
  BY PageAppended
<1>2. /\ Walk /\ seen \subseteq Tokens
      /\ token = IF n = 0 THEN NoToken ELSE pages[n].next
      /\ \A i \in 1..n : pages[i].next \in seen /\ pages[i].asked # token
      /\ \A t \in seen : \E i \in 1..n : pages[i].next = t
  BY DEF FetchInv, Walk, Send, Shape
<1>3. /\ \A i \in 1..n : pages[i].asked = IF i = 1 THEN NoToken ELSE pages[i - 1].next
      /\ \A i, j \in 1..n : i # j => pages[i].asked # pages[j].asked
  BY <1>2 DEF Walk
<1> HIDE DEF n
<1>4. \A i \in 1..n + 1 : pages'[i].asked = IF i = 1 THEN NoToken ELSE pages'[i - 1].next
  <2> TAKE i \in 1..n + 1
  <2>1. CASE i = n + 1  BY <1>1, <1>2, <2>1
  <2>2. CASE i # n + 1
    <3>1. i \in 1..n /\ (i = 1 \/ i - 1 \in 1..n)  BY <1>1, <2>2
    <3>2. QED  BY <1>1, <1>3, <3>1
  <2>3. QED  BY <2>1, <2>2
<1>5. \A i, j \in 1..n + 1 : i # j => pages'[i].asked # pages'[j].asked
  <2> TAKE i, j \in 1..n + 1
  <2>1. CASE i \in 1..n /\ j \in 1..n  BY <1>1, <1>3, <2>1
  <2>2. CASE i = n + 1 \/ j = n + 1
    <3>1. (i = n + 1 /\ j = n + 1) \/ (i = n + 1 /\ j \in 1..n) \/ (j = n + 1 /\ i \in 1..n)
      BY <1>1, <2>2
    <3>2. QED  BY <1>1, <1>2, <3>1
  <2>3. QED  BY <1>1, <2>1, <2>2
<1>6. ASSUME ending' = "running"
      PROVE  /\ token' = IF n + 1 = 0 THEN NoToken ELSE pages'[n + 1].next
             /\ \A i \in 1..n + 1 : pages'[i].next \in seen' /\ pages'[i].asked # token'
             /\ \A t \in seen' : \E i \in 1..n + 1 : pages'[i].next = t
  <2>1. token' = next /\ next # NoToken /\ next \notin seen /\ seen' = seen \cup {next}
    BY <1>6
  <2>2. \A i \in 1..n + 1 : pages'[i].asked # next
    <3> TAKE i \in 1..n + 1
    <3>1. CASE i = 1  BY <1>4, <2>1, <3>1
    <3>2. CASE i # 1
      <4>1. i - 1 \in 1..n /\ i \in 1..n + 1  BY <1>1, <3>2
      <4>2. pages'[i].asked = pages[i - 1].next  BY <1>1, <1>4, <3>2, <4>1
      <4>3. QED  BY <1>2, <2>1, <4>1, <4>2
    <3>3. QED  BY <3>1, <3>2
  <2>3. \A i \in 1..n + 1 : pages'[i].next \in seen'
    <3> TAKE i \in 1..n + 1
    <3>1. i \in 1..n \/ i = n + 1  BY <1>1
    <3>2. QED  BY <1>1, <1>2, <2>1, <3>1
  <2>4. \A t \in seen' : \E i \in 1..n + 1 : pages'[i].next = t
    <3> TAKE t \in seen'
    <3>1. CASE t = next  BY <1>1, <3>1
    <3>2. CASE t # next
      <4>1. PICK i \in 1..n : pages[i].next = t  BY <1>2, <2>1, <3>2
      <4>2. i \in 1..n + 1  BY <1>1, <4>1
      <4>3. QED  BY <1>1, <4>1, <4>2
    <3>3. QED  BY <3>1, <3>2
  <2>5. QED  BY <1>1, <2>1, <2>2, <2>3, <2>4
<1>7. QED  BY <1>1, <1>4, <1>5, <1>6 DEF Walk

LEMMA FetchInvariantStep == FetchInv /\ [FetchNext]_fetchVars => FetchInv'
<1> SUFFICES ASSUME FetchInv, [FetchNext]_fetchVars PROVE FetchInv'  OBVIOUS
<1>1. CASE TransportFails
  BY <1>1, RetryStep DEF TransportFails, Failures
<1>2. CASE Busy
  BY <1>2, RetryStep DEF Busy, Failures
<1>3. CASE Refused
  <2>1. Shape' /\ Walk'
    BY <1>3 DEF FetchInv, Shape, Walk, Refused, Send, Failures
  <2>2. Budget'  BY <1>3, OneMoreRequest DEF Refused, Budget
  <2>3. QED  BY <2>1, <2>2 DEF FetchInv
<1>4. CASE LastPage
  <2>1. Send /\ pages' = Append(pages, [asked |-> token, next |-> NoToken]) /\ ending' = "returned"
    BY <1>4 DEF LastPage
  <2>2. Walk'  BY <2>1, WalkStep
  <2>3. Budget'  BY <2>1, OneMoreRequest DEF Budget
  <2>4. Shape'
    BY <1>4, <2>1, PageAppended DEF LastPage, Send, FetchInv, Shape
  <2>5. QED  BY <2>2, <2>3, <2>4 DEF FetchInv
<1>5. CASE PageWithNext
  <2>1. PICK next \in Tokens :
          /\ pages' = Append(pages, [asked |-> token, next |-> next])
          /\ \/ next \in seen /\ ending' = "paginationLoop" /\ seen' = seen
                /\ token' = token /\ attempt' = attempt
             \/ ending' = "maximumPages" /\ seen' = seen \cup {next}
                /\ token' = token /\ attempt' = attempt
             \/ /\ next \notin seen /\ Len(pages) + 1 < MaximumPages
                /\ token' = next /\ seen' = seen \cup {next} /\ attempt' = 1
                /\ ending' = ending
    BY <1>5 DEF PageWithNext
  <2>2. Send  BY <1>5 DEF PageWithNext
  <2>3. next # NoToken  BY ConfigAssumption
  <2>4. /\ pages' \in Seq(Page) /\ Len(pages') = Len(pages) + 1 /\ Len(pages) \in Nat
    BY <2>1, PageAppended
  <2>5. Walk'
    <3>1. ending' = "running" =>
            token' = next /\ next # NoToken /\ next \notin seen /\ seen' = seen \cup {next}
      BY <2>1, <2>3
    <3>2. QED  BY <2>1, <2>2, <3>1, WalkStep
  <2>6. Shape'
    BY <2>1, <2>2, <2>4, ConfigAssumption DEF Send, FetchInv, Shape, Failures
  <2>7. Budget'
    <3>1. ending' = "running" => attempt' = 1 /\ Len(pages') < MaximumPages
      BY <2>1, <2>4
    <3>2. \A k \in Int : k + (1 - 1) = k  OBVIOUS
    <3>3. (Len(pages) + 1) * MaximumAttempts \in Int  BY <2>4, ConfigAssumption
    <3>4. QED  BY <2>2, <2>4, <3>1, <3>2, <3>3, OneMoreRequest DEF Budget
  <2>8. QED  BY <2>5, <2>6, <2>7 DEF FetchInv
<1>6. CASE UNCHANGED fetchVars
  BY <1>6 DEF fetchVars, FetchInv, Shape, Walk, Budget
<1>7. QED  BY <1>1, <1>2, <1>3, <1>4, <1>5, <1>6 DEF FetchNext

-----------------------------------------------------------------------------

LEMMA FetchInvariance == FetchSpec => []FetchInv
BY FetchInitialInvariant, FetchInvariantStep, PTL DEF FetchSpec

\* fetch_pages sends at most maximum_pages * maximum_attempts requests, whatever the
\* provider answers.
THEOREM RequestsAreBounded == FetchSpec => []RequestsBounded
<1>1. FetchInv => RequestsBounded  BY DEF FetchInv, Budget, RequestsBounded
<1>2. QED  BY <1>1, FetchInvariance, PTL

\* fetch_pages follows the chain of tokens and asks for no page twice (seen_tokens).
THEOREM PagesAreChained == FetchSpec => []PagesChained
<1>1. FetchInv => PagesChained
  <2>1. FetchInv => DOMAIN pages = 1..Len(pages)  BY LenProperties DEF FetchInv, Shape
  <2>2. QED  BY <2>1 DEF FetchInv, Walk, PagesChained
<1>2. QED  BY <1>1, FetchInvariance, PTL

-----------------------------------------------------------------------------
(* AlpacaIngest: copies of bars.                                           *)

\* A version that was downloaded at some time from a provider whose present version of
\* the bar is current: it has been published, and it was not yet replaced then.
Genuine(current, published, version, at) ==
    /\ version <= current
    /\ version < current => at <= published[version + 1]

\* All bars of a response are, and its time has passed.
GenuineResponse(present, published, time, response) ==
    /\ response.at <= time
    /\ \A b \in response.bars :
          Genuine(present[b.key], published[b.key], b.version, response.at)

CopiesGenuine ==
    /\ \A r \in Runs : GenuineResponse(market, revisedAt, clock, raw[r])
    /\ \A q \in DOMAIN Requests :
          cache[q] # NoEntry => GenuineResponse(market, revisedAt, clock, cache[q])

GenuineRecord(k, present, published, time, record) ==
    /\ record.retrieved <= time
    /\ Genuine(present[k], published[k], record.payload, record.retrieved)

StoreGenuine ==
    \A k \in DOMAIN dataset : GenuineRecord(k, market, revisedAt, clock, dataset[k])

\* A run that reads the cache has seen an entry, entries stay, and the pages a run has
\* read are all stamped with its own start.
RunSound(r) ==
    /\ now[r] <= clock
    /\ pc[r] = "read" => cache[request[r]] # NoEntry
    /\ pc[r] \in {"start", "stat"} => raw[r].bars = {} /\ fetched[r] = 0
    /\ pc[r] = "fetch" =>
          /\ fetched[r] < Len(Requests[request[r]])
          /\ raw[r].bars = {} \/ raw[r].at = now[r]

RunsSound == \A r \in Runs : RunSound(r)

IInv == TypeOK /\ CopiesGenuine /\ StoreGenuine /\ RunsSound

-----------------------------------------------------------------------------
(* The data.                                                               *)

LEMMA Numbers ==
    /\ Times \subseteq Nat /\ 0 \in Times
    /\ Versions \subseteq Nat /\ 0 \in Versions
BY IngestAssumption DEF Times, Versions

LEMMA EmptyType == Empty \in Response
BY Numbers DEF Empty, Response

\* A store is a function from some of the keys to records.
LEMMA DatasetType ==
    ASSUME NEW d
    PROVE  d \in Store!Dataset <=>
              /\ DOMAIN d \in SUBSET Keys
              /\ d \in [DOMAIN d -> [payload : Versions, retrieved : Times]]
BY DEF Store!Dataset, Store!Record

\* The batch made of a response stores, for each of its keys, a version that the
\* response holds, with the time of the response.
LEMMA BatchFacts ==
    ASSUME NEW response \in Response
    PROVE  /\ Batch(response) \in Store!Dataset
           /\ \A k \in DOMAIN Batch(response) :
                 /\ [key |-> k, version |-> Batch(response)[k].payload] \in response.bars
                 /\ Batch(response)[k].retrieved = response.at
<1> DEFINE D == {b.key : b \in response.bars}
           Chosen(k) == CHOOSE v \in Versions : [key |-> k, version |-> v] \in response.bars
<1>1. \A b \in response.bars : b \in Bars
  BY DEF Response
<1>2. D \subseteq Keys
  BY <1>1 DEF Bars
<1>3. ASSUME NEW k \in D
      PROVE  Chosen(k) \in Versions /\ [key |-> k, version |-> Chosen(k)] \in response.bars
  <2>1. PICK b \in response.bars : b.key = k  OBVIOUS
  <2>2. b = [key |-> k, version |-> b.version] /\ b.version \in Versions
    BY <1>1, <2>1 DEF Bars
  <2>3. QED  BY <2>1, <2>2
<1>4. DOMAIN Batch(response) = D
      /\ \A k \in D : Batch(response)[k] = [payload |-> Chosen(k), retrieved |-> response.at]
  BY DEF Batch
<1>5. response.at \in Times
  BY DEF Response
<1>6. Batch(response) \in [D -> [payload : Versions, retrieved : Times]]
  BY <1>3, <1>4, <1>5 DEF Batch
<1>7. Batch(response) \in Store!Dataset
  <2>1. DOMAIN Batch(response) = D  BY <1>4
  <2>2. QED  BY <1>2, <1>6, <2>1, DatasetType
<1>8. QED
  <2>1. ASSUME NEW k \in D
        PROVE  /\ [key |-> k, version |-> Batch(response)[k].payload] \in response.bars
               /\ Batch(response)[k].retrieved = response.at
    <3> HIDE DEF Chosen, D
    <3>1. Batch(response)[k].payload = Chosen(k) /\ Batch(response)[k].retrieved = response.at
      BY <1>4
    <3>2. [key |-> k, version |-> Chosen(k)] \in response.bars  BY <1>3
    <3>3. QED  BY <3>1, <3>2
  <2>2. QED  BY <1>4, <1>7, <2>1

\* A merged store holds old records and records of the batch, nothing else.
LEMMA MergedFacts ==
    ASSUME NEW old \in Store!Dataset, NEW batch \in Store!Dataset
    PROVE  /\ Store!Merged(old, batch) \in Store!Dataset
           /\ \A k \in DOMAIN Store!Merged(old, batch) :
                 \/ k \in DOMAIN old /\ Store!Merged(old, batch)[k] = old[k]
                 \/ k \in DOMAIN batch /\ Store!Merged(old, batch)[k] = batch[k]
<1> DEFINE m == Store!Merged(old, batch)
           D == DOMAIN old \cup DOMAIN batch
<1>1. DOMAIN m = D
  BY DEF Store!Merged
<1>2. ASSUME NEW k \in D
      PROVE  \/ k \in DOMAIN old /\ m[k] = old[k]
             \/ k \in DOMAIN batch /\ m[k] = batch[k]
  BY DEF Store!Merged, Store!Inserted, Store!Updated
<1>3. m \in [D -> [payload : Versions, retrieved : Times]]
  <2>1. /\ D \in SUBSET Keys
        /\ \A k \in DOMAIN old : old[k] \in [payload : Versions, retrieved : Times]
        /\ \A k \in DOMAIN batch : batch[k] \in [payload : Versions, retrieved : Times]
    BY DatasetType
  <2>2. \A k \in D : m[k] \in [payload : Versions, retrieved : Times]  BY <1>2, <2>1
  <2>3. m = [k \in D |-> m[k]]  BY DEF Store!Merged
  <2> HIDE DEF m, D
  <2>4. QED  BY <2>2, <2>3
<1>4. D \in SUBSET Keys  BY DatasetType
<1>5. m \in Store!Dataset
  <2> HIDE DEF m, D
  <2>1. QED  BY <1>1, <1>3, <1>4, DatasetType
<1>6. QED  BY <1>1, <1>2, <1>5

\* A page holds bars in the version the provider serves now.
LEMMA PageFacts ==
    ASSUME TypeOK, NEW q \in DOMAIN Requests, NEW i \in Nat, NEW bars \in PageBars(q, i),
           i \in DOMAIN Requests[q]
    PROVE  /\ bars \subseteq Bars
           /\ \A b \in bars : b.version = market[b.key]
           /\ \A k \in Requests[q][i] : \E b \in bars : b.key = k
<1>1. \A n \in DOMAIN Requests[q] : Requests[q][n] \subseteq Keys
  <2>1. Requests[q] \in Seq(SUBSET Keys)  BY IngestAssumption
  <2>2. QED  BY <2>1
<1>2. i # 1 => i - 1 \in DOMAIN Requests[q]
  <2>1. Requests[q] \in Seq(SUBSET Keys)  BY IngestAssumption
  <2>2. DOMAIN Requests[q] = 1..Len(Requests[q]) /\ Len(Requests[q]) \in Nat  BY <2>1
  <2>3. QED  BY <2>2
<1>3. PICK again \in SUBSET (IF i = 1 THEN {} ELSE Requests[q][i - 1]) :
        bars = {[key |-> k, version |-> market[k]] : k \in Requests[q][i] \cup again}
  BY DEF PageBars
<1>4. Requests[q][i] \cup again \subseteq Keys  BY <1>1, <1>2, <1>3
<1>5. \A k \in Keys : market[k] \in Versions  BY DEF TypeOK
<1>6. \A k \in Requests[q][i] \cup again : [key |-> k, version |-> market[k]] \in bars
  BY <1>3
<1>7. \A b \in bars : \E k \in Keys : b = [key |-> k, version |-> market[k]]
  BY <1>3, <1>4
<1>8. bars \subseteq Bars /\ \A b \in bars : b.version = market[b.key]
  BY <1>5, <1>7 DEF Bars
<1>9. ASSUME NEW k \in Requests[q][i] PROVE \E b \in bars : b.key = k
  <2>1. [key |-> k, version |-> market[k]] \in bars  BY <1>6
  <2>2. [key |-> k, version |-> market[k]].key = k  OBVIOUS
  <2>3. QED  BY <2>1, <2>2
<1>10. QED  BY <1>8, <1>9

\* While a run fetches, there is a next page.
LEMMA NextPage ==
    ASSUME TypeOK, RunsSound, NEW r \in Runs, pc[r] = "fetch"
    PROVE  fetched[r] + 1 \in DOMAIN Requests[request[r]]
<1>1. fetched[r] \in Nat /\ fetched[r] < Len(Requests[request[r]])  BY DEF TypeOK, RunsSound, RunSound
<1>2. Requests[request[r]] \in Seq(SUBSET Keys)  BY IngestAssumption DEF TypeOK
<1>3. DOMAIN Requests[request[r]] = 1..Len(Requests[request[r]]) /\ Len(Requests[request[r]]) \in Nat
  BY <1>2
<1>4. QED  BY <1>1, <1>3

-----------------------------------------------------------------------------
(* Type correctness.                                                       *)

LEMMA TypeInit == Init => TypeOK
<1> SUFFICES ASSUME Init PROVE TypeOK  OBVIOUS
<1> USE Numbers, EmptyType DEF Init
<1>1. dataset \in Store!Dataset
  <2>1. dataset \in [{} -> [payload : Versions, retrieved : Times]]
    BY DEF Store!EmptyDataset
  <2>2. DOMAIN dataset \in SUBSET Keys  BY <2>1
  <2>3. QED  BY <2>1, <2>2, DatasetType
<1>2. \A k \in Keys : revisedAt[k] \in [0..market[k] -> Times]
  <2>1. 0..0 = {0}  OBVIOUS
  <2>2. QED  BY <2>1
<1>3. /\ clock \in Times /\ market \in [Keys -> Versions] /\ DOMAIN revisedAt = Keys
      /\ cache \in [DOMAIN Requests -> Response \cup {NoEntry}]
      /\ pc \in [Runs -> Pcs] /\ request \in [Runs -> DOMAIN Requests]
      /\ policy \in [Runs -> Policies] /\ disturbed \subseteq Runs
  BY DEF Pcs
<1>4. now \in [Runs -> Times] /\ fetched \in [Runs -> Nat] /\ raw \in [Runs -> Response]
  OBVIOUS
<1>5. /\ status \in [Runs -> {"none", "hit", "miss", "expired", "force_refresh"}]
      /\ outcome \in [Runs -> {"none", "stored", "rejected", "failed"}]
  OBVIOUS
<1>6. QED  BY <1>1, <1>2, <1>3, <1>4, <1>5 DEF TypeOK

\* The end of a run leaves the variables it changes in their types.
LEMMA EndType ==
    ASSUME TypeOK, NEW r \in Runs, NEW how \in {"stored", "rejected", "failed"}, End(r, how)
    PROVE  /\ pc' \in [Runs -> Pcs] /\ outcome' \in [Runs -> {"none", "stored", "rejected", "failed"}]
           /\ now' \in [Runs -> Times] /\ fetched' \in [Runs -> Nat] /\ raw' \in [Runs -> Response]
BY Numbers, EmptyType DEF TypeOK, End, Pcs

LEMMA TypeStep == TypeOK /\ RunsSound /\ [Next]_vars => TypeOK'
<1> SUFFICES ASSUME TypeOK, RunsSound, [Next]_vars PROVE TypeOK'  OBVIOUS
<1> USE Numbers DEF Goto
<1>1. CASE Tick
  BY <1>1, IngestAssumption DEF Tick, TypeOK, fileVars, runVars, Times
<1>2. ASSUME NEW k \in Keys, Revise(k) PROVE TypeOK'
  <2>1. market' \in [Keys -> Versions] /\ market'[k] = market[k] + 1
    BY <1>2, IngestAssumption DEF Revise, TypeOK, Versions
  <2>2. ASSUME NEW j \in Keys PROVE revisedAt'[j] \in [0..market'[j] -> Times]
    <3>1. CASE j = k
      <4>1. \A v \in 0..market[k] : revisedAt[k][v] \in Times
        BY DEF TypeOK
      <4>2. market[k] \in Nat /\ clock \in Times
        BY DEF TypeOK
      <4>3. DOMAIN revisedAt = Keys
        BY DEF TypeOK
      <4>4. QED  BY <1>2, <2>1, <3>1, <4>1, <4>2, <4>3 DEF Revise
    <3>2. CASE j # k
      BY <1>2, <3>2 DEF Revise, TypeOK
    <3>3. QED  BY <3>1, <3>2
  <2>3. disturbed' \subseteq Runs
    BY <1>2 DEF Revise, Running, TypeOK
  <2>4. QED  BY <1>2, <2>1, <2>2, <2>3 DEF Revise, TypeOK, fileVars, runVars
<1>3. ASSUME NEW r \in Runs, Start(r) PROVE TypeOK'
  BY <1>3 DEF Start, TypeOK, worldVars, fileVars, Pcs
<1>4. ASSUME NEW r \in Runs, Stat(r) PROVE TypeOK'
  BY <1>4 DEF Stat, TypeOK, worldVars, fileVars, Pcs
<1>5. ASSUME NEW r \in Runs, Read(r) PROVE TypeOK'
  <2>1. cache[request[r]] \in Response
    BY <1>5 DEF Read, RunsSound, RunSound, TypeOK
  <2>2. raw' \in [Runs -> Response]
    BY <1>5, <2>1 DEF Read, TypeOK
  <2>3. QED  BY <1>5, <2>2 DEF Read, TypeOK, worldVars, fileVars, Pcs
<1>6. ASSUME NEW r \in Runs, FetchPage(r) PROVE TypeOK'
  <2>1. PICK bars \in PageBars(request[r], fetched[r] + 1) :
          raw' = [raw EXCEPT ![r] = [bars |-> @.bars \cup bars, at |-> now[r], saved |-> 0]]
    BY <1>6 DEF FetchPage
  <2>2. bars \subseteq Bars
    <3>1. request[r] \in DOMAIN Requests /\ fetched[r] + 1 \in Nat  BY DEF TypeOK
    <3>2. fetched[r] + 1 \in DOMAIN Requests[request[r]]  BY <1>6, NextPage DEF FetchPage
    <3>3. QED  BY <2>1, <3>1, <3>2, PageFacts
  <2>3. raw[r].bars \subseteq Bars /\ now[r] \in Times  BY DEF TypeOK, Response
  <2>4. [bars |-> raw[r].bars \cup bars, at |-> now[r], saved |-> 0] \in Response
    BY <2>2, <2>3 DEF Response
  <2>5. raw' \in [Runs -> Response]  BY <2>1, <2>4 DEF TypeOK
  <2>6. fetched' \in [Runs -> Nat] /\ pc' \in [Runs -> Pcs]
    BY <1>6 DEF FetchPage, TypeOK, Pcs
  <2>7. QED  BY <1>6, <2>5, <2>6 DEF FetchPage, TypeOK, worldVars, fileVars
<1>7. ASSUME NEW r \in Runs, Save(r) PROVE TypeOK'
  <2>1. [raw[r] EXCEPT !.saved = clock] \in Response
    BY DEF TypeOK, Response
  <2>2. cache' \in [DOMAIN Requests -> Response \cup {NoEntry}]
    BY <1>7, <2>1 DEF Save, TypeOK
  <2>3. disturbed' \subseteq Runs /\ pc' \in [Runs -> Pcs]
    BY <1>7 DEF Save, TypeOK, Running, Pcs
  <2>4. QED  BY <1>7, <2>2, <2>3 DEF Save, TypeOK, worldVars
<1>8. ASSUME NEW r \in Runs, Normalize(r) PROVE TypeOK'
  <2>1. CASE Goto(r, "normalize", "store") /\ UNCHANGED <<now, fetched, raw, outcome>>
    BY <1>8, <2>1 DEF Normalize, TypeOK, worldVars, fileVars, Pcs
  <2>2. CASE End(r, "rejected")
    BY <1>8, <2>2, EndType DEF Normalize, TypeOK, worldVars, fileVars
  <2>3. QED  BY <1>8, <2>1, <2>2 DEF Normalize
<1>9. ASSUME NEW r \in Runs, Upsert(r) PROVE TypeOK'
  <2>1. dataset' \in Store!Dataset
    BY <1>9, BatchFacts, MergedFacts DEF Upsert, TypeOK
  <2>2. QED  BY <1>9, <2>1, EndType DEF Upsert, TypeOK, worldVars, Running
<1>10. ASSUME NEW r \in Runs, Stop(r) PROVE TypeOK'
  BY <1>10, EndType DEF Stop, TypeOK, worldVars, fileVars
<1>11. CASE UNCHANGED vars
  BY <1>11 DEF vars, worldVars, fileVars, runVars, TypeOK
<1>12. QED
  BY <1>1, <1>2, <1>3, <1>4, <1>5, <1>6, <1>7, <1>8, <1>9, <1>10, <1>11 DEF Next, Step

-----------------------------------------------------------------------------
(* The runs.                                                               *)

LEMMA RunsInit == Init => RunsSound
<1> SUFFICES ASSUME Init, NEW r \in Runs
             PROVE  /\ now[r] <= clock /\ pc[r] = "start" /\ raw[r].bars = {} /\ fetched[r] = 0
  BY DEF RunsSound, RunSound
<1>1. QED  BY DEF Init, Empty

\* The entries of the cache stay, and time goes on.
LEMMA EntriesStay ==
    ASSUME TypeOK, [Next]_vars
    PROVE  /\ \A q \in DOMAIN Requests : cache[q] # NoEntry => cache'[q] # NoEntry
           /\ clock <= clock' /\ clock \in Nat /\ clock' \in Nat
<1> USE Numbers, IngestAssumption
<1>0. clock \in Nat  BY DEF TypeOK
<1>1. CASE Tick  BY <1>0, <1>1 DEF Tick, fileVars
<1>2. CASE \E k \in Keys : Revise(k)  BY <1>0, <1>2 DEF Revise, fileVars
<1>3. CASE \E r \in Runs : Save(r)
  <2>1. PICK r \in Runs : Save(r)  BY <1>3
  <2> DEFINE entry == [raw[r] EXCEPT !.saved = clock]
  <2>2. entry \in Response  BY DEF TypeOK, Response
  <2>3. entry # NoEntry  BY <2>2
  <2>4. clock' = clock /\ cache' = [cache EXCEPT ![request[r]] = entry]
    BY <2>1 DEF Save, worldVars
  <2> HIDE DEF entry
  <2>5. \A q \in DOMAIN Requests : cache'[q] \in {cache[q], entry}
    BY <2>4 DEF TypeOK
  <2>6. QED  BY <1>0, <2>3, <2>4, <2>5
<1>4. CASE \E r \in Runs : Start(r) \/ Stat(r) \/ Read(r) \/ FetchPage(r) \/ Normalize(r)
                              \/ Upsert(r) \/ Stop(r)
  BY <1>0, <1>4
     DEF Start, Stat, Read, FetchPage, Normalize, Upsert, Stop, worldVars, fileVars
<1>5. CASE UNCHANGED vars  BY <1>0, <1>5 DEF vars, worldVars, fileVars
<1>6. QED  BY <1>1, <1>2, <1>3, <1>4, <1>5 DEF Next, Step

LEMMA RunsStep == TypeOK /\ TypeOK' /\ RunsSound /\ [Next]_vars => RunsSound'
<1> SUFFICES ASSUME TypeOK, TypeOK', RunsSound, [Next]_vars, NEW s \in Runs
             PROVE  RunSound(s)'
  BY DEF RunsSound
<1>0. /\ RunSound(s) /\ now[s] \in Nat /\ s \in DOMAIN pc /\ s \in DOMAIN now
      /\ s \in DOMAIN raw /\ s \in DOMAIN fetched /\ request[s] \in DOMAIN Requests
      /\ fetched[s] \in Nat
  BY Numbers DEF RunsSound, TypeOK
<1>1. /\ clock <= clock' /\ clock \in Nat /\ clock' \in Nat
      /\ cache[request[s]] # NoEntry => cache'[request[s]] # NoEntry
  BY <1>0, EntriesStay
<1>2. CASE UNCHANGED runVars
  BY <1>0, <1>1, <1>2 DEF runVars, RunSound
<1>3. ASSUME NEW r \in Runs, Step(r), r # s PROVE RunSound(s)'
  <2>1. /\ pc'[s] = pc[s] /\ now'[s] = now[s] /\ raw'[s] = raw[s]
        /\ fetched'[s] = fetched[s] /\ request' = request
    BY <1>0, <1>3
       DEF Step, Start, Stat, Read, FetchPage, Save, Normalize, Upsert, Stop, End, Goto, runVars
  <2>2. QED  BY <1>0, <1>1, <2>1 DEF RunSound
<1>4. ASSUME Step(s) PROVE RunSound(s)'
  <2>1. CASE Start(s)
    <3>1. request[s] \in DOMAIN Requests /\ Len(Requests[request[s]]) > 0
      <4>1. Requests[request[s]] \in Seq(SUBSET Keys) /\ Requests[request[s]] # <<>>
        BY <1>0, IngestAssumption
      <4>2. QED  BY <1>0, <4>1
    <3>2. QED  BY <1>0, <1>1, <2>1, <3>1 DEF Start, Goto, RunSound, worldVars
  <2>2. CASE Stat(s)
    <3>1. Len(Requests[request[s]]) > 0
      <4>1. Requests[request[s]] \in Seq(SUBSET Keys) /\ Requests[request[s]] # <<>>
        BY <1>0, IngestAssumption
      <4>2. QED  BY <4>1
    <3>2. QED  BY <1>0, <1>1, <2>2, <3>1 DEF Stat, Goto, RunSound, worldVars, fileVars
  <2>3. CASE Read(s)
    BY <1>0, <1>1, <2>3 DEF Read, Goto, RunSound, worldVars
  <2>4. CASE FetchPage(s)
    <3>1. fetched[s] + 1 \in DOMAIN Requests[request[s]]
      BY <2>4, NextPage DEF FetchPage, Goto
    <3>2. Requests[request[s]] \in Seq(SUBSET Keys)  BY <1>0, IngestAssumption
    <3>3. fetched[s] + 1 <= Len(Requests[request[s]]) /\ Len(Requests[request[s]]) \in Nat
      BY <3>1, <3>2
    <3>4. raw'[s].at = now[s] /\ now' = now /\ request' = request /\ fetched'[s] = fetched[s] + 1
      BY <1>0, <2>4 DEF FetchPage
    <3>5. pc'[s] = IF fetched[s] + 1 = Len(Requests[request[s]]) THEN "save" ELSE "fetch"
      BY <1>0, <2>4 DEF FetchPage, Goto
    <3>6. QED  BY <1>0, <1>1, <3>3, <3>4, <3>5 DEF RunSound
  <2>5. CASE Save(s)
    BY <1>0, <1>1, <2>5 DEF Save, Goto, RunSound, worldVars
  <2>6. CASE End(s, "stored") \/ End(s, "rejected") \/ End(s, "failed")
    <3>1. pc'[s] = "ended" /\ now'[s] = 0  BY <1>0, <2>6 DEF End
    <3>2. QED  BY <1>1, <3>1 DEF RunSound
  <2>7. CASE Normalize(s) /\ Goto(s, "normalize", "store") /\ UNCHANGED <<now, fetched, raw, outcome>>
    BY <1>0, <1>1, <2>7 DEF Normalize, Goto, RunSound
  <2>8. QED
    BY <1>4, <2>1, <2>2, <2>3, <2>4, <2>5, <2>6, <2>7 DEF Step, Normalize, Upsert, Stop
<1>5. QED
  BY <1>2, <1>3, <1>4 DEF Next, Tick, Revise, vars

-----------------------------------------------------------------------------
(* The copies.                                                             *)

\* A step of the provider or of the clock leaves what was published, and publishes at
\* most one more version of a bar, now.
LEMMA WorldStep ==
    ASSUME TypeOK, [Next]_vars, NEW k \in Keys
    PROVE  \/ market'[k] = market[k] /\ revisedAt'[k] = revisedAt[k]
           \/ /\ market'[k] = market[k] + 1
              /\ revisedAt'[k][market[k] + 1] = clock
              /\ \A v \in 0..market[k] : revisedAt'[k][v] = revisedAt[k][v]
<1>1. CASE UNCHANGED <<market, revisedAt>>
  BY <1>1
<1>2. ASSUME NEW j \in Keys, Revise(j)
      PROVE  \/ market'[k] = market[k] /\ revisedAt'[k] = revisedAt[k]
             \/ /\ market'[k] = market[k] + 1
                /\ revisedAt'[k][market[k] + 1] = clock
                /\ \A v \in 0..market[k] : revisedAt'[k][v] = revisedAt[k][v]
  <2>1. CASE j # k  BY <1>2, <2>1 DEF Revise, TypeOK
  <2>2. CASE j = k
    <3>1. market[k] \in Nat  BY Numbers DEF TypeOK
    <3>2. market'[k] = market[k] + 1  BY <1>2, <2>2 DEF Revise, TypeOK
    <3>3. revisedAt'[k] = [v \in 0..market[k] + 1 |->
                              IF v <= market[k] THEN revisedAt[k][v] ELSE clock]
      BY <1>2, <2>2 DEF Revise, TypeOK
    <3>4. QED  BY <3>1, <3>2, <3>3
  <2>3. QED  BY <2>1, <2>2
<1>3. QED
  BY <1>1, <1>2
     DEF Next, Step, Tick, Start, Stat, Read, FetchPage, Save, Normalize, Upsert, Stop,
         vars, worldVars

LEMMA StaysGenuine ==
    ASSUME TypeOK, [Next]_vars, NEW k \in Keys, NEW version \in Versions, NEW at \in Nat,
           at <= clock, Genuine(market[k], revisedAt[k], version, at)
    PROVE  Genuine(market'[k], revisedAt'[k], version, at)
<1>1. market[k] \in Nat /\ version \in Nat /\ clock \in Nat
  BY Numbers DEF TypeOK
<1>2. QED  BY <1>1, WorldStep DEF Genuine

LEMMA ResponseStaysGenuine ==
    ASSUME TypeOK, [Next]_vars, NEW response \in Response,
           GenuineResponse(market, revisedAt, clock, response)
    PROVE  GenuineResponse(market', revisedAt', clock', response)
<1>1. response.at \in Nat /\ \A b \in response.bars : b.key \in Keys /\ b.version \in Versions
  BY Numbers DEF Response, Bars
<1>2. response.at <= clock /\ response.at <= clock'
  BY <1>1, EntriesStay DEF GenuineResponse
<1>3. ASSUME NEW b \in response.bars
      PROVE  Genuine(market'[b.key], revisedAt'[b.key], b.version, response.at)
  BY <1>1, <1>2, StaysGenuine DEF GenuineResponse
<1>4. QED  BY <1>2, <1>3 DEF GenuineResponse

\* The same response with another mtime, and no response at all.
LEMMA OtherResponses ==
    ASSUME TypeOK
    PROVE  /\ 0 <= clock' => GenuineResponse(market', revisedAt', clock', Empty)
           /\ \A r \in Runs : [raw[r] EXCEPT !.saved = clock].bars = raw[r].bars
                              /\ [raw[r] EXCEPT !.saved = clock].at = raw[r].at
BY DEF GenuineResponse, Empty, TypeOK, Response

\* A page stamped with an earlier start of the run is genuine: it holds present versions.
LEMMA FetchedGenuine ==
    ASSUME IInv, NEW r \in Runs, FetchPage(r)
    PROVE  GenuineResponse(market, revisedAt, clock, raw'[r])
<1>1. PICK bars \in PageBars(request[r], fetched[r] + 1) :
        raw' = [raw EXCEPT ![r] = [bars |-> @.bars \cup bars, at |-> now[r], saved |-> 0]]
  BY DEF FetchPage
<1>2. bars \subseteq Bars /\ \A b \in bars : b.version = market[b.key]
  <2>1. request[r] \in DOMAIN Requests /\ fetched[r] + 1 \in Nat  BY DEF IInv, TypeOK
  <2>2. fetched[r] + 1 \in DOMAIN Requests[request[r]]  BY NextPage DEF IInv, FetchPage, Goto
  <2>3. QED  BY <1>1, <2>1, <2>2, PageFacts DEF IInv
<1>3. raw'[r].bars = raw[r].bars \cup bars /\ raw'[r].at = now[r]
  BY <1>1 DEF IInv, TypeOK
<1>4. now[r] <= clock /\ (raw[r].bars = {} \/ raw[r].at = now[r])
  BY DEF IInv, RunsSound, RunSound, FetchPage, Goto
<1>5. ASSUME NEW b \in raw'[r].bars
      PROVE  Genuine(market[b.key], revisedAt[b.key], b.version, now[r])
  <2>1. CASE b \in bars
    <3>1. b.key \in Keys /\ b.version = market[b.key]  BY <1>2, <2>1 DEF Bars
    <3>2. market[b.key] \in Nat  BY <3>1, Numbers DEF IInv, TypeOK
    <3>3. QED  BY <3>1, <3>2 DEF Genuine
  <2>2. CASE b \in raw[r].bars
    BY <1>4, <2>2 DEF IInv, CopiesGenuine, GenuineResponse
  <2>3. QED  BY <1>3, <2>1, <2>2
<1>6. QED  BY <1>3, <1>4, <1>5 DEF GenuineResponse

\* What a run holds after a step is what it held, what it read in the cache, a page more,
\* or nothing.
LEMMA RawStep ==
    ASSUME IInv, [Next]_vars, NEW s \in Runs
    PROVE  raw'[s] = Empty \/ GenuineResponse(market, revisedAt, clock, raw'[s])
<1>1. CASE raw'[s] = raw[s]
  BY <1>1 DEF IInv, CopiesGenuine
<1>2. CASE Read(s)
  <2>1. raw'[s] = cache[request[s]] /\ cache[request[s]] # NoEntry /\ request[s] \in DOMAIN Requests
    BY <1>2 DEF Read, Goto, IInv, TypeOK, RunsSound, RunSound
  <2>2. QED  BY <2>1 DEF IInv, CopiesGenuine
<1>3. CASE FetchPage(s)
  BY <1>3, FetchedGenuine
<1>4. CASE raw'[s] = Empty
  BY <1>4
<1>5. ASSUME NEW r \in Runs, Step(r), r # s PROVE raw'[s] = raw[s]
  BY <1>5 DEF Step, Start, Stat, Read, FetchPage, Save, Normalize, Upsert, Stop, End, IInv, TypeOK
<1>6. ASSUME Step(s), ~Read(s), ~FetchPage(s) PROVE raw'[s] \in {raw[s], Empty}
  BY <1>6 DEF Step, Start, Stat, Save, Normalize, Upsert, Stop, End, IInv, TypeOK
<1>7. ASSUME Tick \/ (\E k \in Keys : Revise(k)) \/ UNCHANGED vars PROVE raw' = raw
  BY <1>7 DEF Tick, Revise, vars, runVars
<1>8. QED  BY <1>1, <1>2, <1>3, <1>4, <1>5, <1>6, <1>7 DEF Next

LEMMA CopiesStep == IInv /\ TypeOK' /\ [Next]_vars => CopiesGenuine'
<1> SUFFICES ASSUME IInv, TypeOK', [Next]_vars PROVE CopiesGenuine'  OBVIOUS
<1>1. TypeOK  BY DEF IInv
<1>2. ASSUME NEW s \in Runs PROVE GenuineResponse(market', revisedAt', clock', raw'[s])
  <2>1. CASE raw'[s] = Empty
    <3>1. 0 <= clock'  BY <1>1, EntriesStay
    <3>2. QED  BY <1>1, <2>1, <3>1, OtherResponses
  <2>2. CASE GenuineResponse(market, revisedAt, clock, raw'[s])
    <3>1. raw'[s] \in Response  BY DEF TypeOK
    <3>2. QED  BY <1>1, <2>2, <3>1, ResponseStaysGenuine
  <2>3. QED  BY <2>1, <2>2, RawStep
<1>3. ASSUME NEW q \in DOMAIN Requests, cache'[q] # NoEntry
      PROVE  GenuineResponse(market', revisedAt', clock', cache'[q])
  <2>1. CASE cache'[q] = cache[q]
    <3>1. cache[q] \in Response /\ GenuineResponse(market, revisedAt, clock, cache[q])
      BY <1>1, <1>3, <2>1 DEF IInv, CopiesGenuine, TypeOK
    <3>2. QED  BY <1>1, <2>1, <3>1, ResponseStaysGenuine
  <2>2. ASSUME NEW r \in Runs, Save(r)
        PROVE  \/ cache'[q] = cache[q]
               \/ cache'[q].bars = raw[r].bars /\ cache'[q].at = raw[r].at /\ raw' = raw
    BY <1>1, <2>2, OtherResponses DEF Save, TypeOK
  <2>3. ASSUME NEW r \in Runs, raw' = raw,
               cache'[q].bars = raw[r].bars /\ cache'[q].at = raw[r].at
        PROVE  GenuineResponse(market', revisedAt', clock', cache'[q])
    BY <1>2, <2>3 DEF GenuineResponse
  <2>4. (\E r \in Runs : Save(r)) \/ cache' = cache
    BY DEF Next, Step, Tick, Revise, Start, Stat, Read, FetchPage, Normalize, Upsert, Stop,
           vars, fileVars
  <2>5. QED  BY <2>1, <2>2, <2>3, <2>4
<1>4. QED  BY <1>2, <1>3 DEF CopiesGenuine

LEMMA StoreStep == IInv /\ TypeOK' /\ [Next]_vars => StoreGenuine'
<1> SUFFICES ASSUME IInv, TypeOK', [Next]_vars, NEW k \in DOMAIN dataset'
             PROVE  GenuineRecord(k, market', revisedAt', clock', dataset'[k])
  BY DEF StoreGenuine
<1>1. TypeOK  BY DEF IInv
<1>2. /\ k \in Keys /\ dataset'[k].payload \in Versions /\ dataset'[k].retrieved \in Nat
  <2>1. dataset' \in Store!Dataset  BY DEF TypeOK
  <2>2. QED  BY <2>1, DatasetType, Numbers
<1>3. ASSUME GenuineRecord(k, market, revisedAt, clock, dataset'[k])
      PROVE  GenuineRecord(k, market', revisedAt', clock', dataset'[k])
  <2>1. dataset'[k].retrieved <= clock /\ dataset'[k].retrieved <= clock'
    BY <1>1, <1>2, <1>3, EntriesStay DEF GenuineRecord
  <2>2. QED  BY <1>1, <1>2, <1>3, <2>1, StaysGenuine DEF GenuineRecord
<1>4. CASE dataset' = dataset
  BY <1>3, <1>4 DEF IInv, StoreGenuine
<1>5. ASSUME NEW r \in Runs, Upsert(r)
      PROVE  GenuineRecord(k, market, revisedAt, clock, dataset'[k])
  <2>1. raw[r] \in Response /\ dataset \in Store!Dataset  BY <1>1 DEF TypeOK
  <2>2. dataset' = Store!Merged(dataset, Batch(raw[r]))  BY <1>5 DEF Upsert
  <2>3. CASE k \in DOMAIN dataset /\ dataset'[k] = dataset[k]
    BY <2>3 DEF IInv, StoreGenuine
  <2>4. CASE k \in DOMAIN Batch(raw[r]) /\ dataset'[k] = Batch(raw[r])[k]
    <3>1. /\ [key |-> k, version |-> dataset'[k].payload] \in raw[r].bars
          /\ dataset'[k].retrieved = raw[r].at
      BY <2>1, <2>4, BatchFacts
    <3>2. GenuineResponse(market, revisedAt, clock, raw[r])  BY DEF IInv, CopiesGenuine
    <3>3. QED  BY <3>1, <3>2 DEF GenuineResponse, GenuineRecord
  <2>5. QED  BY <2>1, <2>2, <2>3, <2>4, BatchFacts, MergedFacts
<1>6. (\E r \in Runs : Upsert(r)) \/ dataset' = dataset
  BY DEF Next, Step, Tick, Revise, Start, Stat, Read, FetchPage, Save, Normalize, Stop,
         vars, fileVars
<1>7. QED  BY <1>3, <1>4, <1>5, <1>6

-----------------------------------------------------------------------------
(* The invariant and what follows from it.                                 *)

LEMMA InitialInvariant == Init => IInv
<1> SUFFICES ASSUME Init PROVE IInv  OBVIOUS
<1>1. CopiesGenuine
  BY DEF Init, CopiesGenuine, GenuineResponse, Empty
<1>2. StoreGenuine
  BY DEF Init, StoreGenuine, Store!EmptyDataset
<1>3. QED  BY <1>1, <1>2, TypeInit, RunsInit DEF IInv

LEMMA Invariance == Spec => []IInv
<1>1. IInv /\ [Next]_vars => IInv'
  <2> SUFFICES ASSUME IInv, [Next]_vars PROVE IInv'  OBVIOUS
  <2>1. TypeOK'  BY TypeStep DEF IInv
  <2>2. RunsSound'  BY <2>1, RunsStep DEF IInv
  <2>3. CopiesGenuine' /\ StoreGenuine'  BY <2>1, CopiesStep, StoreStep
  <2>4. QED  BY <2>1, <2>2, <2>3 DEF IInv
<1>2. QED  BY <1>1, InitialInvariant, PTL DEF Spec

\* Every variable of the ingestion task stays in its type: among them the store and the
\* cache, whatever runs and the provider do between their steps.
THEOREM TypeCorrect == Spec => []TypeOK
<1>1. IInv => TypeOK  BY DEF IInv
<1>2. QED  BY <1>1, Invariance, PTL

\* A stored bar carries a retrieved_at at which the provider was still serving that
\* version, however the run got hold of it: from the cache, from pages between which the
\* provider revised bars, or after another run replaced the cache or the store.
THEOREM StampsAreTrue == Spec => []NeverRestamped
<1>1. IInv => NeverRestamped
  BY DEF IInv, StoreGenuine, GenuineRecord, Genuine, NeverRestamped
<1>2. QED  BY <1>1, Invariance, PTL

-----------------------------------------------------------------------------
(* A forced refresh.                                                       *)

\* Until somebody disturbs it, a refreshing run holds the present version of all bars
\* of the pages it has read, and it stores only when it has read all of them.
Current(r) ==
    policy[r].force /\ r \notin disturbed =>
        /\ pc[r] \notin {"stat", "read"}
        /\ pc[r] \in {"fetch", "save", "normalize", "store"} =>
              /\ \A b \in raw[r].bars : b.version = market[b.key]
              /\ \A i \in 1..fetched[r] : \A k \in Requests[request[r]][i] :
                    \E b \in raw[r].bars : b.key = k
        /\ pc[r] \in {"save", "normalize", "store"} =>
              fetched[r] = Len(Requests[request[r]])

RInv == IInv /\ \A r \in Runs : Current(r)

\* A merged store has the payload of the batch for every key of the batch.
LEMMA BatchWins ==
    ASSUME NEW old, NEW batch, NEW k \in DOMAIN batch
    PROVE  /\ k \in DOMAIN Store!Merged(old, batch)
           /\ Store!Merged(old, batch)[k].payload = batch[k].payload
BY DEF Store!Merged, Store!Inserted, Store!Updated, Store!SemanticallyEqual

\* Steps that nobody but their own run notices.
LEMMA OtherRuns ==
    ASSUME IInv, NEW r \in Runs, Step(r)
    PROVE  /\ market' = market /\ policy' = policy /\ request' = request
           /\ disturbed \subseteq disturbed'
           /\ \A s \in Runs \ {r} :
                 pc'[s] = pc[s] /\ raw'[s] = raw[s] /\ fetched'[s] = fetched[s]
BY DEF Step, Start, Stat, Read, FetchPage, Save, Normalize, Upsert, Stop, End, Goto,
       worldVars, runVars, IInv, TypeOK

LEMMA FetchCurrent ==
    ASSUME IInv, NEW r \in Runs, Current(r), FetchPage(r), policy[r].force, r \notin disturbed
    PROVE  /\ \A b \in raw'[r].bars : b.version = market[b.key]
           /\ \A i \in 1..fetched'[r] : \A k \in Requests[request[r]][i] :
                 \E b \in raw'[r].bars : b.key = k
<1> DEFINE i == fetched[r] + 1
<1>1. PICK bars \in PageBars(request[r], i) :
        raw' = [raw EXCEPT ![r] = [bars |-> @.bars \cup bars, at |-> now[r], saved |-> 0]]
  BY DEF FetchPage
<1>2. /\ \A b \in bars : b.version = market[b.key]
      /\ \A k \in Requests[request[r]][i] : \E b \in bars : b.key = k
  <2>1. request[r] \in DOMAIN Requests /\ i \in Nat  BY DEF IInv, TypeOK
  <2>2. i \in DOMAIN Requests[request[r]]  BY NextPage DEF IInv, FetchPage, Goto
  <2>3. QED  BY <1>1, <2>1, <2>2, PageFacts DEF IInv
<1>3. /\ raw'[r].bars = raw[r].bars \cup bars /\ fetched'[r] = fetched[r] + 1
      /\ fetched[r] \in Nat
  BY <1>1 DEF IInv, TypeOK, FetchPage
<1>4. /\ \A b \in raw[r].bars : b.version = market[b.key]
      /\ \A j \in 1..fetched[r] : \A k \in Requests[request[r]][j] :
            \E b \in raw[r].bars : b.key = k
  BY DEF Current, FetchPage, Goto
<1>5. \A j \in 1..fetched'[r] : j \in 1..fetched[r] \/ j = i
  BY <1>3
<1>6. QED  BY <1>2, <1>3, <1>4, <1>5

LEMMA CurrentStep ==
    ASSUME IInv, [Next]_vars, NEW s \in Runs, Current(s)
    PROVE  Current(s)'
<1>1. CASE UNCHANGED vars
  BY <1>1 DEF Current, vars, worldVars, runVars
<1>2. CASE Tick
  BY <1>2 DEF Tick, Current, runVars
<1>3. ASSUME NEW k \in Keys, Revise(k) PROVE Current(s)'
  <2>1. UNCHANGED runVars /\ disturbed' = disturbed \cup Running  BY <1>3 DEF Revise
  <2>2. CASE s \in Running  BY <2>1, <2>2 DEF Current
  <2>3. CASE s \notin Running
    <3>1. ~policy[s].force \/ pc[s] \in {"start", "ended"}  BY <2>3 DEF Running
    <3>2. QED  BY <2>1, <3>1 DEF Current, runVars
  <2>4. QED  BY <2>2, <2>3
<1>4. ASSUME NEW r \in Runs, Step(r), r # s PROVE Current(s)'
  BY <1>4, OtherRuns DEF Current
<1>5. ASSUME Step(s) PROVE Current(s)'
  <2>0. /\ market' = market /\ policy' = policy /\ request' = request
        /\ disturbed \subseteq disturbed' /\ s \in DOMAIN pc /\ s \in DOMAIN raw
        /\ request[s] \in DOMAIN Requests /\ RunSound(s)
    BY <1>5, OtherRuns DEF IInv, TypeOK, RunsSound
  <2> SUFFICES ASSUME policy[s].force, s \notin disturbed,
                      pc'[s] \in {"stat", "read", "fetch", "save", "normalize", "store"}
               PROVE  Current(s)'
    BY <2>0 DEF Current
  <2>1. CASE Start(s)
    <3>1. pc'[s] = "fetch" /\ raw'[s].bars = {} /\ fetched'[s] = 0
      BY <2>0, <2>1 DEF Start, Goto, RunSound
    <3>2. QED  BY <3>1 DEF Current
  <2>2. CASE Stat(s) \/ Read(s)
    BY <2>2 DEF Stat, Read, Goto, Current
  <2>3. CASE FetchPage(s)
    <3>1. pc'[s] = IF fetched[s] + 1 = Len(Requests[request[s]]) THEN "save" ELSE "fetch"
      BY <2>0, <2>3 DEF FetchPage, Goto
    <3>2. fetched'[s] = fetched[s] + 1  BY <2>3 DEF FetchPage, IInv, TypeOK
    <3>3. QED  BY <2>0, <2>3, <3>1, <3>2, FetchCurrent DEF Current
  <2>4. CASE Save(s)
    BY <2>0, <2>4 DEF Save, Goto, Current
  <2>5. CASE Normalize(s)
    <3>1. CASE End(s, "rejected")  BY <2>0, <3>1 DEF End
    <3>2. CASE Goto(s, "normalize", "store") /\ UNCHANGED <<now, fetched, raw, outcome>>
      BY <2>0, <3>2 DEF Goto, Current
    <3>3. QED  BY <2>5, <3>1, <3>2 DEF Normalize
  <2>6. CASE Upsert(s) \/ Stop(s)
    BY <2>0, <2>6 DEF Upsert, Stop, End
  <2>7. QED  BY <1>5, <2>1, <2>2, <2>3, <2>4, <2>5, <2>6 DEF Step
<1>6. QED  BY <1>1, <1>2, <1>3, <1>4, <1>5 DEF Next

LEMMA RefreshInvariant == Spec => []RInv
<1>1. Init => RInv
  <2> SUFFICES ASSUME Init PROVE RInv  OBVIOUS
  <2>1. \A r \in Runs : Current(r)  BY DEF Init, Current
  <2>2. QED  BY <2>1, InitialInvariant DEF RInv
<1>2. RInv /\ IInv' /\ [Next]_vars => RInv'
  BY CurrentStep DEF RInv
<1>3. QED  BY <1>1, <1>2, Invariance, PTL DEF Spec

\* What one step of the system stores for a run that forces a refresh.
Refreshed ==
    \A r \in Runs :
        /\ policy[r].force /\ r \notin disturbed
        /\ outcome[r] = "none" /\ outcome'[r] = "stored"
        => \A k \in KeysOf(request[r]) : dataset'[k].payload = market[k]

\* Whenever a run with force_refresh ends well, and nobody has changed the provider's
\* bars, the cache or the store meanwhile, the store holds the provider's present version
\* of every bar of its request (alpaca_historical_bars_task, get_or_fetch_json_result).
THEOREM RefreshStoresCurrent == Spec => RefreshBringsCurrent
<1>1. RInv /\ [Next]_vars => Refreshed
  <2> SUFFICES ASSUME RInv, [Next]_vars, NEW r \in Runs, policy[r].force, r \notin disturbed,
                      outcome[r] = "none", outcome'[r] = "stored",
                      NEW k \in KeysOf(request[r])
               PROVE  dataset'[k].payload = market[k]
    BY DEF Refreshed
  <2>1. IInv /\ Current(r) /\ raw[r] \in Response /\ dataset \in Store!Dataset
        /\ request[r] \in DOMAIN Requests /\ r \in DOMAIN outcome
        /\ outcome \in [Runs -> {"none", "stored", "rejected", "failed"}]
    BY DEF RInv, IInv, TypeOK
  <2>2. Upsert(r)
    BY <2>1 DEF Next, Step, Tick, Revise, Start, Stat, Read, FetchPage, Save, Normalize, Upsert,
         Stop, End, vars, runVars
  <2>3. /\ \A b \in raw[r].bars : b.version = market[b.key]
        /\ \A i \in 1..Len(Requests[request[r]]) : \A j \in Requests[request[r]][i] :
              \E b \in raw[r].bars : b.key = j
    BY <2>1, <2>2 DEF Current, Upsert
  <2>4. PICK b \in raw[r].bars : b.key = k
    <3>1. Requests[request[r]] \in Seq(SUBSET Keys)  BY <2>1, IngestAssumption
    <3>2. DOMAIN Requests[request[r]] = 1..Len(Requests[request[r]])  BY <3>1
    <3>3. QED  BY <2>3, <3>2 DEF KeysOf
  <2>5. k \in DOMAIN Batch(raw[r])  BY <2>4 DEF Batch
  <2>6. [key |-> k, version |-> Batch(raw[r])[k].payload] \in raw[r].bars
    BY <2>1, <2>5, BatchFacts
  <2>7. Batch(raw[r])[k].payload = market[k]  BY <2>3, <2>6
  <2>8. QED  BY <2>2, <2>5, <2>7, BatchWins DEF Upsert
<1>2. QED  BY <1>1, RefreshInvariant, PTL DEF Spec, RefreshBringsCurrent, Refreshed

=============================================================================

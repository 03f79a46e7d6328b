---------------------------- MODULE AlpacaClient ----------------------------
(***************************************************************************)
(* AlpacaBarsClient.fetch_pages (ingestion/market/alpaca/client.py): one   *)
(* historical bars request, page by page, each page with bounded retries.  *)
(* The provider is unreliable and not trusted: every answer to a request   *)
(* is possible, a pagination token it has given before included.           *)
(***************************************************************************)
EXTENDS Integers, Sequences, FiniteSets

CONSTANTS
    Tokens, NoToken,        \* pagination tokens the provider gives; null or ""
    MaximumAttempts, MaximumPages, InitialBackoff, MaximumBackoff,
    RetryAfter              \* values of a Retry-After header, -1: absent or not a number

ASSUME ConfigAssumption ==  \* AlpacaProviderConfig.validate
    /\ NoToken \notin Tokens /\ IsFiniteSet(Tokens)
    /\ MaximumAttempts \in Nat \ {0} /\ MaximumPages \in Nat \ {0}
    /\ InitialBackoff \in Nat /\ MaximumBackoff \in Nat
    /\ InitialBackoff <= MaximumBackoff
    /\ RetryAfter \subseteq Int /\ -1 \in RetryAfter

VARIABLES
    token,      \* page_token of the next request
    pages,      \* the pages read: which token each was asked with, and its next one
    seen,       \* seen_tokens
    attempt,    \* of the current page, from 1
    waits,      \* seconds slept before the attempts of the current page
    retries,    \* retries so far, those of the current page included
    requests,   \* requests sent (history)
    ending      \* "running", "returned" or the exception raised

fetchVars == <<token, pages, seen, attempt, waits, retries, requests, ending>>

Failures == {"transient", "rateLimit", "transport", "authentication", "permission", "invalidRequest",
             "payload", "paginationLoop", "maximumPages"}

Page == [asked : Tokens \cup {NoToken}, next : Tokens \cup {NoToken}]

FetchInit ==
    /\ token = NoToken
    /\ pages = <<>>
    /\ seen = {}
    /\ attempt = 1
    /\ waits = <<>>
    /\ retries = 0
    /\ requests = 0
    /\ ending = "running"

Least(a, b) == IF a < b THEN a ELSE b

Backoff(n) == Least(InitialBackoff * 2^(n - 1), MaximumBackoff)

\* _retry_after: a usable header, but never beyond the configured maximum.
WaitAfter(after, n) == IF after >= 0 THEN Least(after, MaximumBackoff) ELSE Backoff(n)

Send == ending = "running" /\ requests' = requests + 1

\* A bug: one retry too many.
RetryOrGiveUpLate(wait, failure) ==
    /\ \/ /\ attempt = MaximumAttempts + 1
          /\ ending' = failure
          /\ UNCHANGED <<attempt, waits, retries>>
       \/ /\ attempt <= MaximumAttempts
          /\ attempt' = attempt + 1
          /\ waits' = Append(waits, wait)
          /\ retries' = retries + 1
          /\ UNCHANGED ending
    /\ UNCHANGED <<token, pages, seen>>

\* The last attempt raises; the others sleep and try the same page again.
RetryOrGiveUp(wait, failure) ==
    /\ \/ /\ attempt = MaximumAttempts
          /\ ending' = failure
          /\ UNCHANGED <<attempt, waits, retries>>
       \/ /\ attempt < MaximumAttempts
          /\ attempt' = attempt + 1
          /\ waits' = Append(waits, wait)
          /\ retries' = retries + 1
          /\ UNCHANGED ending
    /\ UNCHANGED <<token, pages, seen>>

\* requests.ConnectionError or requests.Timeout.
TransportFails == Send /\ RetryOrGiveUp(Backoff(attempt), "transient")

\* 429, 500, 502, 503 and 504.
Busy ==
    /\ Send
    /\ \E after \in RetryAfter, failure \in {"rateLimit", "transient"} :
          RetryOrGiveUp(WaitAfter(after, attempt), failure)

\* Any other status that is not a success is final, and so are the exceptions of the
\* transport that are neither ConnectionError nor Timeout and a 2xx answer that is not JSON
\* or that parse_alpaca_bars_page rejects.
Refused ==
    /\ Send
    /\ ending' \in {"transport", "authentication", "permission", "invalidRequest", "payload"}
    /\ UNCHANGED <<token, pages, seen, attempt, waits, retries>>

LastPage ==
    /\ Send
    /\ pages' = Append(pages, [asked |-> token, next |-> NoToken])
    /\ ending' = "returned"
    /\ UNCHANGED <<token, seen, attempt, waits, retries>>

\* A bug: the next token is not recorded as seen.
PageWithNextUnseen ==
    /\ Send
    /\ \E next \in Tokens :
          /\ pages' = Append(pages, [asked |-> token, next |-> next])
          /\ IF Len(pages) + 1 >= MaximumPages
             THEN ending' = "maximumPages" /\ UNCHANGED <<token, attempt, waits>>
             ELSE token' = next /\ attempt' = 1 /\ waits' = <<>> /\ UNCHANGED ending
    /\ UNCHANGED <<seen, retries>>

\* The token is checked first against those seen, then the number of pages.
PageWithNext ==
    /\ Send
    /\ \E next \in Tokens :
          /\ pages' = Append(pages, [asked |-> token, next |-> next])
          /\ \/ /\ next \in seen
                /\ ending' = "paginationLoop"
                /\ UNCHANGED <<token, seen, attempt, waits>>
             \/ /\ next \notin seen
                /\ Len(pages) + 1 >= MaximumPages
                /\ ending' = "maximumPages"
                /\ seen' = seen \cup {next}
                /\ UNCHANGED <<token, attempt, waits>>
             \/ /\ next \notin seen
                /\ Len(pages) + 1 < MaximumPages
                /\ token' = next /\ seen' = seen \cup {next}
                /\ attempt' = 1 /\ waits' = <<>>
                /\ UNCHANGED ending
    /\ UNCHANGED retries

FetchNext == TransportFails \/ Busy \/ Refused \/ LastPage \/ PageWithNext

FetchSpec == FetchInit /\ [][FetchNext]_fetchVars

-----------------------------------------------------------------------------

FetchTypeOK ==
    /\ token \in Tokens \cup {NoToken}
    /\ pages \in Seq(Page)
    /\ seen \subseteq Tokens
    /\ attempt \in 1..MaximumAttempts
    /\ waits \in Seq(Nat)
    /\ retries \in Nat
    /\ requests \in Nat
    /\ ending \in {"running", "returned"} \cup Failures

\* However the provider answers, one call sends at most so many requests, and so ends: every
\* step of the loops sends one.
RequestsBounded == requests <= MaximumPages * MaximumAttempts

\* Each page is asked for with the token of the one before it, and no token is asked for
\* twice, so that no page is read twice.
PagesChained ==
    /\ \A i \in DOMAIN pages :
          pages[i].asked = IF i = 1 THEN NoToken ELSE pages[i - 1].next
    /\ \A i, j \in DOMAIN pages : i # j => pages[i].asked # pages[j].asked

=============================================================================

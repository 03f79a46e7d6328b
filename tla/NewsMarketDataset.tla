------------------------- MODULE NewsMarketDataset -------------------------
(***************************************************************************)
(* build_dataset: news of two sources is assigned to sessions, joined with *)
(* the bars of the mapped instruments, and split chronologically.  One     *)
(* topic is followed; articles carry instants, counts only dates.          *)
(***************************************************************************)
EXTENDS SessionAlignment, FiniteSets

CONSTANTS
    Articles,       \* ids of collected articles
    Symbols,
    Mappings,       \* [symbol, benchmark, from, to]: active from day "from" to day "to"
    Inputs,         \* what a build may be given: the corpus, the bars and the configuration
    Horizon         \* forward_horizon; the code insists on 5

Configs == {given.config : given \in Inputs}

Methods == {"articles", "counts"}

ASSUME DatasetAssumption ==
    /\ Mappings \subseteq [symbol : Symbols, benchmark : Symbols, from : Days, to : Days]
    /\ Inputs \subseteq
          [published : [Articles -> Nat],       \* when each article was published
           countDays : SUBSET Days,             \* days whose counts were downloaded
           bars : [Symbols -> SUBSET Days],     \* days of which each symbol has a bar
           config : [policy : AlignmentPolicies, buffer : Nat, downgrade : BOOLEAN]]
    /\ Horizon \in Nat \ {0}

VARIABLES
    published, countDays, bars, config,     \* the inputs
    pc,
    todo,           \* articles and count rows not read yet
    bucket,         \* what each session of each method is computed from
    features,       \* SessionNewsFeature records
    observations,   \* NewsMarketObservation records
    label           \* split_of

inputs == <<published, countDays, bars, config>>
vars == <<inputs, pc, todo, bucket, features, observations, label>>

Pcs == {"market", "articles", "downgrade", "counts", "join", "split", "done", "raised"}

\* A source of news is an article or the count of a day.
Article(a) == <<"article", a>>
Count(d) == <<"count", d>>

Init ==
    /\ \E given \in Inputs :
          /\ published = given.published /\ countDays = given.countDays
          /\ bars = given.bars /\ config = given.config
    /\ pc = "market"
    /\ todo = {}
    /\ bucket = [m \in Methods |-> [s \in Sessions |-> {}]]
    /\ features = {} /\ observations = {} /\ label = << >>

Goto(from, to) == pc = from /\ pc' = to

\* The policy of a method: counts never use the session window.
PolicyOf(m) == IF m = "counts" THEN Conservative ELSE config.policy

-----------------------------------------------------------------------------
\* build_market_series: a bar on a day that is no session raises.
MarketSeriesBuilt ==
    /\ Goto("market", "articles")
    /\ \A symbol \in Symbols : bars[symbol] \subseteq Sessions
    /\ todo' = {Article(a) : a \in Articles}
    /\ UNCHANGED <<inputs, bucket, features, observations, label>>

MarketSeriesRaises ==
    /\ Goto("market", "raised")
    /\ \E symbol \in Symbols : ~(bars[symbol] \subseteq Sessions)
    /\ UNCHANGED <<inputs, todo, bucket, features, observations, label>>

\* One round of the loop over the articles; one whose session cannot be found is skipped.
AssignArticle ==
    /\ Goto("articles", "articles")
    /\ \E a \in Articles :
        /\ Article(a) \in todo
        /\ todo' = todo \ {Article(a)}
        /\ LET s == AssignSession(config.policy, config.buffer, published[a]) IN
           bucket' = IF s = NoSession THEN bucket
                     ELSE [bucket EXCEPT !["articles"][s] = @ \cup {Article(a)}]
    /\ UNCHANGED <<inputs, features, observations, label>>

Used(m) == {s \in Sessions : bucket[m][s] # {}}

\* _finalize_session_dicts: the attention of a session is compared with the
\* sessions before it that have news of the same method.
Feature(m, s) ==
    [method |-> m, session |-> s,
     sources |-> bucket[m][s],
     history |-> {u \in Used(m) : u < s},
     start |-> WindowStart(PolicyOf(m), s),
     end |-> WindowEnd(PolicyOf(m), config.buffer, s),
     available |-> AvailableAt(PolicyOf(m), config.buffer, s),
     cutoff |-> Cutoff(s, config.buffer)]

AllAcceptable(m) == \A s \in Used(m) : Acceptable(PolicyOf(m), config.buffer, s)

Finalize(m, from, to) ==
    /\ Goto(from, to)
    /\ todo = {}
    /\ AllAcceptable(m)
    /\ features' = features \cup {Feature(m, s) : s \in Used(m)}
    /\ UNCHANGED <<inputs, todo, bucket, observations, label>>

FinalizeRaises(m, from) ==
    /\ Goto(from, "raised")
    /\ todo = {}
    /\ ~AllAcceptable(m)
    /\ UNCHANGED <<inputs, todo, bucket, features, observations, label>>

\* Counts have no timestamps: with the session window the build goes on only if
\* the configuration allows the downgrade to the conservative policy.
BeginCounts ==
    /\ Goto("downgrade", "counts")
    /\ countDays # {} => config.policy = Conservative \/ config.downgrade
    /\ todo' = {Count(d) : d \in countDays}
    /\ UNCHANGED <<inputs, bucket, features, observations, label>>

DowngradeRefused ==
    /\ Goto("downgrade", "raised")
    /\ countDays # {} /\ config.policy = SessionWindow /\ ~config.downgrade
    /\ UNCHANGED <<inputs, todo, bucket, features, observations, label>>

\* One round of the loop over the count rows.
AssignCount ==
    /\ Goto("counts", "counts")
    /\ \E d \in Days :
        /\ Count(d) \in todo
        /\ NextSession(d) # NoSession
        /\ todo' = todo \ {Count(d)}
        /\ bucket' = [bucket EXCEPT !["counts"][NextSession(d)] = @ \cup {Count(d)}]
    /\ UNCHANGED <<inputs, features, observations, label>>

AssignCountRaises ==
    /\ Goto("counts", "raised")
    /\ \E d \in Days : Count(d) \in todo /\ NextSession(d) = NoSession
    /\ UNCHANGED <<inputs, todo, bucket, features, observations, label>>

-----------------------------------------------------------------------------
NoBar == 0

\* feature_by_offset: the bar "offset" positions after (before) the bar of a
\* session in the series of a symbol, which holds only the bars that exist.
Between(symbol, a, b) == {d \in bars[symbol] : a < d /\ d <= b}

BarAt(symbol, s, offset) ==
    LET hits == {b \in bars[symbol] :
                    IF offset >= 0 THEN s <= b /\ Cardinality(Between(symbol, s, b)) = offset
                                   ELSE b < s /\ Cardinality(Between(symbol, b, s)) = -offset}
    IN IF s \in bars[symbol] /\ hits # {} THEN CHOOSE b \in hits : TRUE ELSE NoBar

\* A bar has a return when the series holds a bar before it.
HasReturn(symbol, b) == b # NoBar /\ \E d \in bars[symbol] : d < b

Offsets == 0..Horizon - 1

Complete(symbol, s) ==
    /\ BarAt(symbol, s, -1) # NoBar
    /\ \A k \in Offsets : BarAt(symbol, s, k) # NoBar

\* The benchmark-adjusted return over the horizon is computed when every
\* instrument and benchmark return in it exists.
Adjusted(symbol, benchmark, s) ==
    /\ Complete(symbol, s)
    /\ \A k \in Offsets : /\ HasReturn(symbol, BarAt(symbol, s, k))
                          /\ HasReturn(benchmark, BarAt(benchmark, s, k))

Active(mapping, s) == mapping.from <= s /\ s <= mapping.to

\* As if the state of the market were read off the target session's own bar.
ObservationSameDay(f, mapping) ==
    [news |-> f, session |-> f.session, mapping |-> mapping,
     missing |-> f.session \notin bars[mapping.symbol],
     prior |-> BarAt(mapping.symbol, f.session, 0),
     complete |-> Complete(mapping.symbol, f.session),
     targets |-> [k \in Offsets |-> BarAt(mapping.symbol, f.session, k)],
     adjusted |-> Adjusted(mapping.symbol, mapping.benchmark, f.session),
     benchmark |-> [k \in Offsets |-> BarAt(mapping.benchmark, f.session, k)]]

Observation(f, mapping) ==
    [news |-> f, session |-> f.session, mapping |-> mapping,
     missing |-> f.session \notin bars[mapping.symbol],
     prior |-> BarAt(mapping.symbol, f.session, -1),
     complete |-> Complete(mapping.symbol, f.session),
     targets |-> [k \in Offsets |-> BarAt(mapping.symbol, f.session, k)],
     adjusted |-> Adjusted(mapping.symbol, mapping.benchmark, f.session),
     benchmark |-> [k \in Offsets |-> BarAt(mapping.benchmark, f.session, k)]]

BuildObservations ==
    /\ Goto("join", "split")
    /\ observations' = UNION {{Observation(f, mapping) :
                                 mapping \in {g \in Mappings : Active(g, f.session)}} :
                               f \in features}
    /\ UNCHANGED <<inputs, todo, bucket, features, label>>

-----------------------------------------------------------------------------
ObservedSessions == {o.session : o \in observations}

\* The position of a session among the observed ones, from 0.
Rank(s) == Cardinality({u \in ObservedSessions : u < s})

\* The first 60%, the next 20% and the rest of the observed sessions.
Boundaries == LET n == Cardinality(ObservedSessions) IN <<(6 * n) \div 10, (8 * n) \div 10>>

\* As if the last session before a boundary were left out of the embargo.
EmbargoedShort(i) ==
    \E b \in {1, 2} : i < Boundaries[b] - 1 /\ i >= Boundaries[b] - Horizon

Embargoed(i) == \E b \in {1, 2} : i < Boundaries[b] /\ i >= Boundaries[b] - Horizon

Split(i) ==
    IF Embargoed(i) THEN "embargo"
    ELSE IF i < Boundaries[1] THEN "development"
    ELSE IF i < Boundaries[2] THEN "validation"
    ELSE "holdout"

AssignSplits ==
    /\ Goto("split", "done")
    /\ label' = [s \in ObservedSessions |-> Split(Rank(s))]
    /\ UNCHANGED <<inputs, todo, bucket, features, observations>>

Ended == pc \in {"done", "raised"} /\ UNCHANGED vars

Next ==
    \/ MarketSeriesBuilt \/ MarketSeriesRaises
    \/ AssignArticle
    \/ Finalize("articles", "articles", "downgrade") \/ FinalizeRaises("articles", "articles")
    \/ BeginCounts \/ DowngradeRefused
    \/ AssignCount \/ AssignCountRaises
    \/ Finalize("counts", "counts", "join") \/ FinalizeRaises("counts", "counts")
    \/ BuildObservations \/ AssignSplits
    \/ Ended

Spec == Init /\ [][Next]_vars

-----------------------------------------------------------------------------
Sources == {Article(a) : a \in Articles} \cup {Count(d) : d \in Days}

\* When a source is known: an article when published, a count when its day is over.
KnownAt(x) == IF x[1] = "article" THEN published[x[2]] ELSE Midnight[x[2] + 1]

FeatureType ==
    [method : Methods, session : Sessions, sources : SUBSET Sources,
     history : SUBSET Sessions, start : Int, end : Int, available : Int, cutoff : Int]

DaysOrNoBar == Days \cup {NoBar}

ObservationType ==
    [news : FeatureType, session : Sessions, mapping : Mappings,
     missing : BOOLEAN, prior : DaysOrNoBar, complete : BOOLEAN,
     targets : [Offsets -> DaysOrNoBar], adjusted : BOOLEAN,
     benchmark : [Offsets -> DaysOrNoBar]]

Labels == {"development", "embargo", "validation", "holdout"}

\* The inputs, what is left to read, the buckets, the records and the labels
\* of a build have the shapes the code gives them.
TypeOK ==
    /\ published \in [Articles -> Nat]
    /\ countDays \subseteq Days
    /\ bars \in [Symbols -> SUBSET Days]
    /\ config \in Configs
    /\ pc \in Pcs
    /\ todo \subseteq Sources
    /\ bucket \in [Methods -> [Sessions -> SUBSET Sources]]
    /\ \A f \in features : f \in FeatureType
    /\ \A o \in observations : o \in ObservationType
    /\ DOMAIN label \subseteq Sessions
    /\ \A s \in DOMAIN label : label[s] \in Labels

\* What an observation offers a predictor was known at its cutoff: its own news,
\* the news of the sessions it is compared with and the bar before it; the
\* cutoff is not after the open, and the bars it is to predict close after it.
NoLookahead ==
    \A o \in observations :
        LET f == o.news IN
        /\ \A x \in f.sources : KnownAt(x) <= f.cutoff
        /\ \A u \in f.history : \A x \in bucket[f.method][u] : KnownAt(x) <= f.cutoff
        /\ o.prior # NoBar => Closing[o.prior] <= f.cutoff
        /\ f.cutoff <= Opening[o.session]
        /\ \A k \in Offsets : o.targets[k] # NoBar => f.cutoff < Closing[o.targets[k]]

Usable(a) == CanUse(config.policy, config.buffer, published[a])

AssignedTo(x, m) == {s \in Sessions : x \in bucket[m][s]}

CountedOnce(a) ==
    LET used == AssignedTo(Article(a), "articles") IN
    IF pc = "market" \/ Article(a) \in todo THEN used = {}
    ELSE pc # "raised" =>
         \/ used = {} /\ Usable(a) = {}
         \/ \E s \in Usable(a) : used = {s} /\ \A u \in Usable(a) : s <= u

\* Every article that was read counts once, in the first session that could
\* use it, and is dropped only if no session of the calendar could.
NewsCountedOnce == \A a \in Articles : CountedOnce(a)

\* The last day an observation depends on through its targets.
Reach(o) == IF o.complete THEN o.targets[Horizon - 1] ELSE o.session

\* Every instrument has a bar in every session.
NoGaps == \A g \in Mappings : bars[g.symbol] = Sessions

Order == [development |-> 1, validation |-> 2, holdout |-> 3]

PartitionsApart ==
    \A o \in observations : \A s \in DOMAIN label :
        (/\ label[o.session] # "embargo" /\ label[s] # "embargo"
         /\ Order[label[o.session]] < Order[label[s]])
        => Reach(o) < s

\* Without gaps in the bars, the targets of an observation end before every
\* session of a later partition: the embargo is long enough.
EmbargoSeparates == NoGaps => PartitionsApart

\* No session lies between the bars of a complete horizon: it is never one of
\* later sessions than the documentation says.
HorizonIsSessions ==
    \A o \in observations : o.complete =>
        \A k \in Offsets \ {0} : o.targets[k] = NextSession(o.targets[k - 1])

=============================================================================

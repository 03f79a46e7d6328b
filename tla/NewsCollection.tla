--------------------------- MODULE NewsCollection ---------------------------
(***************************************************************************)
(* The collection pipelines (configs/collections): fetch from the GDELT    *)
(* DOC API through the response cache, filter, deduplicate, tag, aggregate *)
(* per day and topic, then append the new rows to the feature store and    *)
(* the new articles to the article store.  Runs share the cache and both   *)
(* files without a lock.                                                   *)
(*                                                                         *)
(* A file is what has been flushed to it: the two halves of the text of a  *)
(* record, and line ends.  A buffer that is full, or a run that is         *)
(* stopped, ends anywhere in it.                                           *)
(***************************************************************************)
EXTENDS Integers, SequencesExt

CONSTANTS
    Runs,           \* executions of the pipeline, one process each
    None,           \* a field that is empty
    Kind,           \* the articles: [url, title, domain, language, stamp, wide]: stamp is
                    \* published_at or None, and wide says that the text, when cut,
                    \* is cut within a character
    Tags,           \* _match_topics: topics in order, by query and article
    Untagged,       \* the topic "untagged"; topics are numbered in string order
    Answers,        \* what the API answers to each query, depending on the hour
    Collections,    \* [query, language, strategy]
    DayOf, Unknown, \* the date of a stamp, and "unknown", which sorts after the dates
    MaxAttempts,    \* MAX_RETRIES
    MaxStops, MaxSplits     \* bounds of the environment

Articles == DOMAIN Kind
Files == {"features", "articles"}

ASSUME CollectionAssumption ==
    /\ MaxAttempts \in Nat \ {0}
    /\ \A c \in Collections : c.query \in DOMAIN Tags \cap DOMAIN Answers
    /\ \A q \in DOMAIN Answers : Answers[q] \subseteq Seq(Articles)
    /\ \A a \in Articles :
          Kind[a].stamp = None \/ (Kind[a].stamp \in Int /\ DayOf[Kind[a].stamp] \in Int)
    /\ Unknown \in Int /\ Untagged \in Int
    /\ \A q \in DOMAIN Tags : \A a \in Articles : Tags[q][a] \in Seq(Int)

VARIABLES
    responses,      \* .cache/gdelt_doc: the response of each query, or None
    file,           \* what each of Files holds
    run,            \* each run: [pc, of, attempt, news, batch, pending, into]
    claimed,        \* keys that a run reported as stored or as known (history)
    overlapped,     \* files that two runs have worked on at a time (history)
    torn,           \* how often a run stopped within a line of each file (history)
    stops, splits   \* counters of the bounds

vars == <<responses, file, run, claimed, overlapped, torn, stops, splits>>

NoBatch == [f \in Files |-> <<>>]
NewRun == [pc |-> "start", of |-> None, attempt |-> 0, news |-> <<>>,
           batch |-> NoBatch, pending |-> <<>>, into |-> "features"]

Init ==
    /\ responses = [q \in DOMAIN Tags |-> None]
    /\ file = [f \in Files |-> <<>>]
    /\ run = [r \in Runs |-> NewRun]
    /\ claimed = [f \in Files |-> {}]
    /\ overlapped = {}
    /\ torn = [f \in Files |-> 0]
    /\ stops = 0 /\ splits = 0

history == <<claimed, overlapped, torn>>
bounds == <<stops, splits>>
stores == <<file, history>>

-----------------------------------------------------------------------------
(* From the response to the rows and records of a run *)

\* The members of a finite set, in the order given by a set of pairs.
Ascending(S, before) ==
    CHOOSE s \in [1..Cardinality(S) -> S] :
        \A i, j \in 1..Cardinality(S) : i < j => <<s[i], s[j]>> \in before

\* The elements of a sequence at some of its places.
Picked(s, places) ==
    LET order == Ascending(places, {p \in places \X places : p[1] < p[2]})
    IN  [n \in DOMAIN order |-> s[order[n]]]

\* filter_articles
Filtered(c, news) ==
    Picked(news, {i \in DOMAIN news : c.language \in {None, Kind[news[i]].language}})

\* _build_key of dedupe_articles
DedupeKey(strategy, a) ==
    CASE strategy = "url" -> Kind[a].url
      [] strategy = "title" \/ Kind[a].title = None -> Kind[a].title
      [] OTHER -> <<Kind[a].title, Kind[a].domain>>

\* The sequence without the elements whose key is in known or came before.
FirstByKey(s, keys, known) ==
    LET First(i) == keys[i] \notin known /\ \A j \in 1..(i - 1) : keys[j] # keys[i]
    IN  Picked(s, {i \in DOMAIN s : keys[i] = None \/ First(i)})

Deduped(c, news) == FirstByKey(news, [i \in DOMAIN news |-> DedupeKey(c.strategy, news[i])], {})

\* _extract_date and _extract_topics
DateOf(a) == IF Kind[a].stamp = None THEN Unknown ELSE DayOf[Kind[a].stamp]
TopicsOf(c, a) == IF Tags[c.query][a] = <<>> THEN <<Untagged>> ELSE Tags[c.query][a]

\* aggregate_article_features: one row per date and topic, in that order.
FeatureRows(c, news) ==
    LET members(d, t) == {a \in ToSet(news) : DateOf(a) = d /\ t \in ToSet(TopicsOf(c, a))}
        stamps(d, t) == {Kind[a].stamp : a \in members(d, t)} \ {None}
        Row(d, t) == [date |-> d, topic |-> t, count |-> Cardinality(members(d, t)),
                      earliest |-> IF stamps(d, t) = {} THEN None ELSE Min(stamps(d, t)),
                      latest |-> IF stamps(d, t) = {} THEN None ELSE Max(stamps(d, t))]
        buckets == UNION {{<<DateOf(a), t>> : t \in ToSet(TopicsOf(c, a))} : a \in ToSet(news)}
        Before(p, q) == p.date < q.date \/ (p.date = q.date /\ p.topic < q.topic)
        rows == {Row(b[1], b[2]) : b \in buckets}
    IN  Ascending(rows, {p \in rows \X rows : Before(p[1], p[2])})

\* The record of an article carries the query and the topics of the run.
ArticleRecords(c, news) ==
    [i \in DOMAIN news |-> [article |-> news[i], query |-> c.query, topics |-> TopicsOf(c, news[i])]]

-----------------------------------------------------------------------------
(* The stores *)

\* A bug: the key of a row leaves out its last article.
KeyToEarliest(f, record) ==
    IF f = "features" THEN <<record.date, record.topic, record.earliest>>
    ELSE <<Kind[record.article].url, Kind[record.article].title>>

\* _feature_key and _article_key
Key(f, record) ==
    IF f = "features"
    THEN <<record.date, record.topic, record.earliest, record.latest>>
    ELSE LET x == Kind[record.article] IN
         IF x.url # None THEN <<x.url>>
         ELSE IF x.title # None \/ x.domain # None THEN <<x.title, x.domain>>
         ELSE None

Keys(f, records) == [i \in DOMAIN records |-> Key(f, records[i])]

\* json.dumps(record) + "\n"
Text(record) == <<[part |-> "head", of |-> record], [part |-> "rest", of |-> record],
                  [part |-> "end", of |-> None]>>
Texts(records) ==
    [n \in 1..(3 * Len(records)) |-> Text(records[(n + 2) \div 3])[1 + ((n - 1) % 3)]]

Wide(f, record) == f = "articles" /\ Kind[record.article].wide

\* A character cut in two is not followed by its other half.
Decodable(f) ==
    \A i \in DOMAIN file[f] :
        (file[f][i].part = "head" /\ Wide(f, file[f][i].of)) =>
            i < Len(file[f]) /\ file[f][i + 1] = [file[f][i] EXCEPT !.part = "rest"]

\* The places where a line that can be parsed begins: it holds one whole record,
\* and the last line of the file need not be ended.
Readable(text) ==
    {i \in 1..(Len(text) - 1) :
        /\ i = 1 \/ text[i - 1].part = "end"
        /\ text[i].part = "head"
        /\ text[i + 1] = [text[i] EXCEPT !.part = "rest"]
        /\ i + 1 = Len(text) \/ text[i + 2].part = "end"}

KeyAt(f, i) == Key(f, file[f][i].of)

\* A bug: a line that cannot be parsed ends the loop instead of being skipped.
KnownUntilBroken(f) ==
    {KeyAt(f, i) : i \in {j \in Readable(file[f]) :
                            \A k \in 1..(j \div 3) : 3 * k - 2 \in Readable(file[f])}} \ {None}

\* The keys of the lines that can be parsed.
KnownKeys(f) == {KeyAt(f, i) : i \in Readable(file[f])} \ {None}

-----------------------------------------------------------------------------
(* A run *)

Set(r, new) == run' = [run EXCEPT ![r] = new]
Failed(r) == Set(r, [NewRun EXCEPT !.pc = "failed"])

\* get_or_fetch_json without a policy: a response that is there is used, however old.
Start(r) ==
    /\ run[r].pc = "start"
    /\ \E c \in Collections :
          LET cached == responses[c.query] IN
          Set(r, IF cached = None THEN [run[r] EXCEPT !.pc = "fetch", !.of = c, !.attempt = 1]
                 ELSE [run[r] EXCEPT !.pc = "process", !.of = c, !.news = cached])
    /\ UNCHANGED <<responses, stores, bounds>>

\* fetch of doc.py: a connection error, a timeout or a 429 is tried again ...
Retry(r) ==
    /\ run[r].pc = "fetch" /\ run[r].attempt < MaxAttempts
    /\ Set(r, [run[r] EXCEPT !.attempt = @ + 1])
    /\ UNCHANGED <<responses, stores, bounds>>

\* ... any other status, a text that is not an object and the last attempt are not.
FetchFails(r) ==
    /\ run[r].pc = "fetch"
    /\ Failed(r)
    /\ UNCHANGED <<responses, stores, bounds>>

Fetch(r) ==
    /\ run[r].pc = "fetch"
    /\ \E news \in Answers[run[r].of.query] :
          Set(r, [run[r] EXCEPT !.pc = "save", !.attempt = 0, !.news = news])
    /\ UNCHANGED <<responses, stores, bounds>>

\* save_json_cache: a temporary file and os.replace, before anything looks at the response.
Save(r) ==
    /\ run[r].pc = "save"
    /\ responses' = [responses EXCEPT ![run[r].of.query] = run[r].news]
    /\ Set(r, [run[r] EXCEPT !.pc = "process"])
    /\ UNCHANGED <<stores, bounds>>

\* The tasks in between work on the memory of the run alone.
Process(r) ==
    /\ run[r].pc = "process"
    /\ LET c == run[r].of
           news == Deduped(c, Filtered(c, run[r].news))
       IN  Set(r, [run[r] EXCEPT !.pc = "load", !.news = <<>>,
                       !.batch = [f \in Files |-> IF f = "features" THEN FeatureRows(c, news)
                                                  ELSE ArticleRecords(c, news)]])
    /\ UNCHANGED <<responses, stores, bounds>>

\* _load_existing_keys and the choice of what is new.
Load(r) ==
    LET f == run[r].into
        new == FirstByKey(run[r].batch[f], Keys(f, run[r].batch[f]), KnownKeys(f))
    IN
    /\ run[r].pc = "load" /\ Decodable(f)
    /\ Set(r, [run[r] EXCEPT !.pc = "append", !.pending = Texts(new)])
    /\ overlapped' = overlapped \cup {g \in {f} : \E s \in Runs \ {r} :
                                        run[s].pc = "append" /\ run[s].into = f}
    /\ UNCHANGED <<responses, file, claimed, torn, bounds>>

\* UnicodeDecodeError is not caught.
LoadFails(r) ==
    /\ run[r].pc = "load" /\ ~Decodable(run[r].into)
    /\ Failed(r)
    /\ UNCHANGED <<responses, stores, bounds>>

\* The buffer of the file is full: all but the rest of the text goes out.
Split(r) ==
    /\ run[r].pc = "append" /\ splits < MaxSplits
    /\ \E n \in 1..(Len(run[r].pending) - 1) :
          /\ file' = [file EXCEPT ![run[r].into] = @ \o SubSeq(run[r].pending, 1, n)]
          /\ Set(r, [run[r] EXCEPT !.pending = SubSeq(@, n + 1, Len(@))])
    /\ splits' = splits + 1
    /\ UNCHANGED <<responses, history, stops>>

\* A bug: the file is opened for writing instead of appending.
CloseOverwriting(r) ==
    LET f == run[r].into
        keys == ToSet(Keys(f, run[r].batch[f]))
    IN
    /\ run[r].pc = "append"
    /\ file' = [file EXCEPT ![f] = run[r].pending]
    /\ claimed' = [claimed EXCEPT ![f] = @ \cup (keys \ {None})]
    /\ Set(r, IF f = "features"
              THEN [run[r] EXCEPT !.pc = "load", !.into = "articles", !.pending = <<>>]
              ELSE [NewRun EXCEPT !.pc = "done"])
    /\ UNCHANGED <<responses, overlapped, torn, bounds>>

\* The file is closed, the summary counts appended and skipped records, and the
\* next store begins.
Close(r) ==
    LET f == run[r].into
        keys == ToSet(Keys(f, run[r].batch[f]))
    IN
    /\ run[r].pc = "append"
    /\ file' = [file EXCEPT ![f] = @ \o run[r].pending]
    /\ claimed' = [claimed EXCEPT ![f] = @ \cup (keys \ {None})]
    /\ Set(r, IF f = "features"
              THEN [run[r] EXCEPT !.pc = "load", !.into = "articles", !.pending = <<>>]
              ELSE [NewRun EXCEPT !.pc = "done"])
    /\ UNCHANGED <<responses, overlapped, torn, bounds>>

\* The process is killed, or a write fails: what is in its buffer is lost.
Stop(r) ==
    LET f == run[r].into IN
    /\ run[r].pc \notin {"start", "done", "failed"} /\ stops < MaxStops
    /\ torn' = IF run[r].pc = "append" /\ file[f] # <<>> /\ Last(file[f]).part # "end"
               THEN [torn EXCEPT ![f] = @ + 1] ELSE torn
    /\ stops' = stops + 1
    /\ Failed(r)
    /\ UNCHANGED <<responses, file, claimed, overlapped, splits>>

RunStep(r) ==
    \/ Start(r) \/ Retry(r) \/ FetchFails(r) \/ Fetch(r) \/ Save(r) \/ Process(r)
    \/ Load(r) \/ LoadFails(r) \/ Split(r) \/ Close(r) \/ Stop(r)

Next == \E r \in Runs : RunStep(r)

Spec == Init /\ [][Next]_vars

-----------------------------------------------------------------------------
(* Properties *)

\* Two lines of a store have one key only if two runs have worked on the file
\* at a time: whatever else was stopped or torn, a later run does not store again
\* what it can read (store_articles.py, store_features.py).
StoredOnce ==
    \A f \in Files \ overlapped : \A i, j \in Readable(file[f]) :
        (KeyAt(f, i) = KeyAt(f, j) /\ KeyAt(f, i) # None) => i = j

\* What a run has reported as stored, or skipped as stored before, can be read
\* later, unless runs overlapped: a run stopped within a line costs at most that
\* line and the one that the next run joins to it.
LossBounded ==
    \A f \in Files \ overlapped : Cardinality(claimed[f] \ KnownKeys(f)) <= 2 * torn[f]

\* The two stores fit together: a stored article lies, for each of its topics, in
\* the span of a stored row, even if that row came from another run that did not
\* see the article, and whichever of the runs was stopped between the stores.
\* A feature file with a broken line is no witness.
Whole(f) == Cardinality(Readable(file[f])) * 3 \in {Len(file[f]), Len(file[f]) + 1}
Spanned(record, topic) ==
    LET stamp == Kind[record.article].stamp IN
    \E i \in Readable(file["features"]) :
        LET row == file["features"][i].of IN
        /\ row.date = DateOf(record.article) /\ row.topic = topic
        /\ stamp = None \/ (row.earliest <= stamp /\ stamp <= row.latest)

RowsSpanArticles ==
    Whole("features") =>
        \A i \in Readable(file["articles"]) :
            LET record == file["articles"][i].of IN
            \A topic \in ToSet(record.topics) : Spanned(record, topic)

=============================================================================

# Kinetic: a TLA+ model of the research pipeline

Kinetic collects news and market data, joins them into research datasets and
supports a manual annotation study. Most of it is sequential Python, but the
parts that carry its guarantees are not: several processes share warehouse
files, a cost ledger, a query cache, run directories and an SQLite log; browser
sessions interrupt each other; a provider fails half-way; and a dataset must
not use what was not known at its cutoff. This directory models those parts in
TLA+, checks them with TLC on small instances, and proves what matters most
for every instance with TLAPS. Paths below are relative to `src/`; `kinetic/`
abbreviates `src/kinetic/`.

## 1. The system

| component | state | operations | with whom | what is hard | what makes it correct |
|---|---|---|---|---|---|
| financial record store (`kinetic/data/storage/jsonl.py`) | data file, metadata sidecar, lock file, temporary files | upsert, read | every task that stores bars or actions; other processes | kills between steps, stale locks, exceptions in the locked block | one writer, no lost update, truthful counts, unchanged records keep their stamp |
| cost guard (`kinetic/ingestion/warehouse/bigquery/client.py`, `cache.py`, `kinetic/ingestion/cost/`) | append-only ledger, cache files | dry run, evaluate caps, execute, record | all BigQuery tasks; other processes | evaluate and record are apart; a day or cycle ends in between; torn cache files | caps hold, money is accounted for, a query is not billed again and again |
| annotation log and pages (`tools/annotation/annotation_store.py`, `pages/`, `page_common.py`) | event table, assignment status, session-state tokens | render, save, rotate, skip, re-import | several tabs, double clicks | a click interrupts a running script anywhere it touches session state | one event per decision, gapless revisions, status follows events |
| annotation service, adjudication, export (`tools/annotation/pilot_service.py`, `pages/`) | assignments, adjudications, exports | select a run, import, annotate, adjudicate, export, audit | the log; files of a pilot run | the article file changes under an open page, events arrive while the adjudicator decides, a save of two steps fails between them, the export is recorded after the file is renamed | decisions rest on the content and the events they were made of, readiness is true, what is published is recorded |
| pipeline runner (`kinetic/core/pipeline/`, `kinetic/core/artifacts.py`) | run directories, hook state | allocate, run steps, hooks | every task; other runs | exceptions and interrupts at any step or hook, directories chosen by looking | a run directory tells what happened |
| plan, legacy plan, configuration (`kinetic/core/`) | none | parse, include, merge, translate | runner | precedence and order of merges | pure functions (planned) |
| Alpaca client (`kinetic/ingestion/market/alpaca/client.py`) | one fetch | request, retry, next page | an unreliable provider | retries of all pages, token cycles, limits | a bounded number of requests, no page twice |
| Alpaca ingestion (`tasks.py`, `provider.py`, `kinetic/ingestion/caching.py`) | response cache, store | stat, read, fetch, save, normalize, upsert | client, store, other runs | cached before validated; stamps of cached data; revisions | only valid bars stored, with the stamp of their download |
| session calendar and alignment (`kinetic/processing/market/calendar.py`, `kinetic/processing/cross_asset/alignment.py`) | none | session searches, assignment, windows | dataset builder | cutoffs, midnight, early closes, range limits | an article informs the first session that may use it |
| news-market dataset (`kinetic/research/datasets/builder.py`, `news/features.py`, `market/features.py`, `cross_asset/join.py`) | buckets, features, observations, labels | build | calendar, store, corpus | look-ahead, missing bars, embargo | nothing is used before it is known; partitions do not overlap |
| article deduplication (`kinetic/processing/news/deduplication.py`, local corpus) | none | import rows, cluster, find near duplicates | relevance pilot | evidence is transitive; links arrive in any order | clusters are the components of the evidence |
| relevance pilot and benchmark (`kinetic/ml/relevance/`) | artifacts and `pilot_state.json` of a run | preflight, import, cluster, sample, plan, gate, reconcile, split, evaluate | corpus, annotation | quotas that overlap, small frames, a phase that raises after files were written, copies across periods | samples as large as promised, no state announced without its files, periods apart |
| GDELT DOC collections (`kinetic/ingestion/news/gdelt/`, `configs/collections/`, `tools/run_collections.py`) | response cache, feature store, article store | fetch with retries, filter, deduplicate, tag, aggregate, append | each other: no lock | overlapping runs, a stop inside a line, a joined torn line | nothing stored twice by runs that do not overlap, losses bounded |
| GDELT BigQuery tasks (`.../gdelt/bigquery/`, `kinetic/processing/news/themes/`) | result cache | counts, discovery, seeded discovery, scoring | cost guard | which requests share a cache file, limits that cut a family, torn files | a run works on rows of its own query; a truncated family is not corrected |
| statistics, linking, views, CLI, schemas, fixtures | – | – | – | – | see section 7 |

`PROJECT.json` lists the components with their sources and, under `hazards`,
each place where the code can go wrong in a way a unit test hardly reaches,
with the properties that would notice.

## 2. Modules

| module | what it is | checked through | proofs |
|---|---|---|---|
| `FinancialRecords` | records, batches, collapse and merge of the store | `JsonlStore` | `JsonlStoreProofs` |
| `AtomicUpsert` | what the store promises: an upsert is one step or none | property `ImplementsAtomicUpsert` | `JsonlStoreProofs` |
| `JsonlStore` | `_upsert` step by step, in several processes | `MCJsonlStore` | `JsonlStoreProofs` |
| `CostGuard` | `safe_query` with ledger, caps and cache | `MCCostGuard` | `BigQueryProofs` |
| `EventLog` | what the annotation tables promise: a save is one step | property `ImplementsEventLog` | `SubmissionLogProofs` |
| `SubmissionLog` | saving a form of the annotation pages | `MCSubmissionLog` | `SubmissionLogProofs` |
| `PipelineRun` | `run_pipeline`, its hooks and run directories | `MCPipelineRun` | `PipelineRunProofs` |
| `AlpacaClient` | `fetch_pages` with retries and pagination | `MCAlpacaClient` | `AlpacaProofs` |
| `AlpacaIngest` | the bars task: cache, download, normalization, store | `MCAlpacaIngest` | `AlpacaProofs` |
| `SessionCalendar`, `SessionAlignment` | searches of the calendar; both alignment policies | `MCNewsMarketDataset` | `NewsMarketDatasetProofs` |
| `NewsMarketDataset` | `build_dataset` | `MCNewsMarketDataset` | `NewsMarketDatasetProofs` |
| `PilotReview` | the annotation study at the level of its transactions | `MCPilotReview` | `StudyProofs` |
| `AnnotationExport` | the exports beside it, extends `PilotReview` | `MCPilotReview` | `StudyProofs` |
| `ArticleClusters` | corpus, union-find of duplicates, near duplicates | `MCRelevance` | `CorpusProofs` |
| `PilotSampling` | eligibility and every sample of the pilot, extends `ArticleClusters` | `MCRelevance` | lemmas in `CorpusProofs` |
| `PilotTask` | a run of the pilot, phase by phase, extends `PilotSampling` | `MCRelevance` | `CorpusProofs` |
| `RelevanceBenchmark` | the benchmark's sample, splits and evaluation, extends `PilotTask` | `MCRelevance` | `CorpusProofs` |
| `GdeltQueries` | what the four statements return on a table of GKG records | `MCGdelt` | `BigQueryProofs` |
| `ThemeScores` | tests, corrections, screens, classification, extends `GdeltQueries` | `MCGdelt` | `BigQueryProofs` |
| `GdeltTask` | the four tasks with the cache between runs, extends `ThemeScores` | `MCGdelt` | `BigQueryProofs` |
| `NewsCollection` | the collection pipelines over shared files | `MCNewsCollection` | `CorpusProofs` |

`AlpacaIngest` composes the others: it takes the records and the merge of the
store from `FinancialRecords`, treats an upsert as one step because
`JsonlStore` implements `AtomicUpsert`, and a fetch as one step per page
because `AlpacaClient` settles retries and limits. `NewsMarketDataset` extends
`SessionAlignment`, which extends `SessionCalendar`. `PilotReview` is above
`SubmissionLog`: a save, there many steps, is one step here, which may draw the
revision that another tab has just used, as `SubmissionLog` shows it can and as
`EventLog`, which `SubmissionLog` implements, allows.

A definition whose comment begins "A bug:" or "As if" is a plausible mistake in
the code. It is used by no specification; it replaces the correct definition
when we ask whether a property would notice.

### How state and actions correspond to the code

**JsonlStore.** `pc` names the next statement of `_upsert` of a process; the
variables of the disk are files. `AcquireLock` is `os.open(O_CREAT|O_EXCL)`;
`StageMetadata`/`ReplaceMetadata` and `StageData`/`ReplaceData` are the two
halves of a write through a temporary file, the half before and at
`os.replace`. `Raise` is any exception inside the `with` block, whose
`finally` is `Release`. `Crash` is a kill: nothing is cleaned up.
`RemoveStaleLock` is the manual removal the error message asks for; it assumes
the operator has checked that the owner no longer runs. A `KeyboardInterrupt`
between `os.open` and the `try` of `_writer_lock` leaves a lock behind just as
a kill does, and has no action of its own.

**CostGuard.** One ledger is two sums of ALLOW records, per day and per billing
cycle, which is all `summarize` reads. `Ask` starts a call; `UseCache`,
`EstimateOnly`, `Block`, `BlockUnconfirmed` and `Admit` are its exits and the
step past the caps; `Execute`, `TruncateCache`, `FillCache`, `RecordAllow`
follow in the order of the code. `Abort` is an exception or a kill at any
step. `Midnight` moves the date. Costs are integers (the ledger rounds to eight
digits).

**SubmissionLog.** A script run of a tab renders, gets the token, looks it up,
appends, rotates and goes on. `ClickAgain` queues a click; `Interrupt` lets it
take over where a Streamlit script yields (it touches session state or the
page). That yielding is how `src/` relies on Streamlit; the library itself is
external. The token and its fingerprint are two writes of session state, and so is
their removal: `InterruptHalfway` lets a click take over between the two. `row` and
`began` of an event are history: its place in the table, and how many rows the table
had when its append looked the latest revision up.

**PipelineRun.** `ctx` holds the keys the hooks keep in `ctx.state`. Every
statement of `run_pipeline` that touches the disk or calls a hook is an action;
`Interrupt` is an exception that is not an `Exception`, `TracebackFails` and
`GitTimeout` are hooks that raise. Runs with one slug share a root.

**AlpacaClient, AlpacaIngest.** Every answer of the provider is possible. In the
ingestion, `Revise` is the provider publishing a new version of a bar, `Tick`
moves time, and each run performs stat, read or fetch, save, normalize and
upsert.

**NewsMarketDataset.** `bucket[m][s]` is the set of articles or count days a
session is computed from; `Feature` and `Observation` say what each record is
computed from, not its numbers. Loops over rows are one action per row.
`Midnight`, `Opening` and `Closing` are instants, so a daylight-saving change
is a day of another length and an early close another `Closing`.

**PilotReview, AnnotationExport.** `artifact` is the article file of the run, a
version per article, which another preflight may rewrite (`Preflight`). Page 1
binds a session to the file as it is (`Select`) and imports the batch row by row
(`ImportRow`; `ImportFails` leaves the rows written so far); a row that is there
keeps its hashes. `View` and `Save` are page 2, with the hash check in both. On
page 4 the widgets are rendered from the disagreements of one script run and a
click starts another, so `Show`, `Click` and `Rendered` are apart and `shown` is
what the adjudicator looked at. A ruling is an upsert (`UpsertRuling`) and an event
(`AppendDecision`), between which the validation may refuse (`ClickFails`). The
readiness operators are the counts of `get_pilot_annotation_status`. An export
is `Begin` (the rows, in one transaction), `Open` and `Write` (the temporary
file, which both exporters may have open), `Replace` and `Record`.

**ArticleClusters, PilotSampling, PilotTask, RelevanceBenchmark.** An article is a
record of what the code compares: titles and bodies are sets of features. The
rank by SHA-256 is a constant injection per salt, so every order is possible.
Samples are functions of the frame, with allocation, round robin over reasons
and roles as the code computes them. `PilotTask` has an action for each phase
that writes files or `pilot_state.json`, and `Raise` may end any of them; the
inputs that may be missing (corpus, provenance, labels, approval) are the
parameters of a run.

**GdeltQueries, ThemeScores, GdeltTask.** A table is a set of GKG records; theme
codes, organizations and patterns are sequences of atoms, so that word bounds,
delimiters and case are what the SQL sees (`_` in a term is the wildcard it is in `LIKE`). The four builders are four operators
from a table to rows, with their `WHERE`, `GROUP BY`, `HAVING`, `ORDER BY` and
`LIMIT`. Fractions are whole numbers of a thousandth or so; logarithmic ramps
keep their order. In `GdeltTask` a run looks its key up, executes, writes the
file (`FlushCache`, `CloseCache`) and works on the rows; `Kill` leaves the file as it is, and
`Publish` lets the archive grow between runs.

**NewsCollection.** A file is a sequence of pieces: two halves of each record's text
and line ends. `Split` is a buffer that is flushed when full, anywhere in a
record; `Stop` loses the buffer. `Load` is the reading of the known keys,
`Readable` the lines that parse as one whole record, `LoadFails` the decoding error
of a file cut inside a character. The batch runner starts one process per
collection; schedules may overlap, so runs interleave freely.

## 3. Properties

Each property relates several steps or several actors. The types are part of
the theorems and are not run.

- Store: `LockOwned` (mutual exclusion whatever kills and operators do),
  `SnapshotCurrent` (no lost update), `ResultDescribesFile` (content and counts),
  `ImplementsAtomicUpsert`, `LockEventuallyFree`; proved and not run:
  `SchemaBeforeData`, `RetrievedAtStable`.
- Cost guard: `SequentialCaps` (calls that do not overlap never pass a cap),
  `OvershootBounded` (overlapping ones by at most one single-query cap for each
  other process),
  `SpendAccounted`, `PaidBounded`; proved and not run: `ExecutesOnlyApproved` and
  `MonthlyCapShadowed` (with a validated policy the monthly cap is never the
  reason for a block: the emergency stop lies below it).
- Annotation: `TokenStandsForSave`, `RevisionsSound` (numbers without gaps, above all
  that an append found, and shared only by tabs whose appends overlapped),
  `EventsBoundedByClicks`, `ImplementsEventLog`; proved and not run: `StatusMatchesEvents`, which adds to the
  refinement what an import done again does to an assignment with events.
- Study: `AnnotatedAsBound`, `DecisionsGrounded`, `AdjudicatedAsShown`,
  `ReadinessTruthful`, `PublishedRecorded`.
- Pipeline: `FailureReported`, `SuccessIsComplete`, `MetadataTruthful`,
  `GroupsKeptApart`; proved and not run: `StepsInOrder`.
- Alpaca: `RequestsBounded`, `PagesChained`; `NeverRestamped`,
  `RefreshBringsCurrent`.
- Dataset: `NoLookahead`, `NewsCountedOnce`, `EmbargoSeparates`.
- Relevance: `ClustersAreComponents`, `SamplesSound`, `PlanHonest`,
  `StateBackedByFiles`, `BenchmarkSound`.
- GDELT: `CacheServesOwnQuery`, `FamilyGate`, `StatisticsSound`, which is `TablesSplit`
  (the table of each candidate counts the archive) and `StepUpSound` (the adjusted
  values are those Benjamini-Hochberg prescribes).
- Collections: `StoredOnce`, `LossBounded`, `RowsSpanArticles`.

## 4. Runs

Each passing run explores its whole state space. Every property has a mutant of
a mapped definition under which TLC finds it violated.

| run | instance and why it is enough |
|---|---|
| `jsonl_store` | two processes, two keys, two initial files and four batches (one with a duplicate, one that is partly stored already, a conflicting one, an empty one), so that keys are inserted, updated and skipped; one kill; `FairSpec`. Two processes make every race over one lock; a third adds only more waiting. |
| `cost_guard` | two processes, three queries, three days in two billing cycles, one aborted call. Caps are small enough that each of them refuses something. |
| `submission` | two decisions in one tab or in two, two assignments, two labels, a reload; the annotation page (revision in the fingerprint, two save buttons) and the duplicate page; double clicks, failed saves, a reload, repeated imports. |
| `pipeline_run` | two runs, two run ids (so possibly the same), plans in which a registered and an unregistered task are first, last and alone, one interrupt. |
| `alpaca_client` | as many tokens as pages, three attempts, a Retry-After that is absent, zero, short and too long. |
| `alpaca_ingest` | two runs of overlapping requests, each bar revised once, three cache policies, one invalid version. |
| `news` | a calendar of nine days with a holiday, an early close and a long day. Two articles at any of 50 instants and one too late, both policies, cutoffs at or one tick before the open; counts beside articles, with and without the downgrade; only counts, with series of bars that have any gaps. The code insists on a horizon of five; two is the least for which positions and sessions differ, and keeps the number of gap patterns small. |
| `pilot_review` | two articles, two annotators and the adjudicator, two versions of the text, two exporters, in five studies that start where the interesting part begins: before any import (with a preflight and two selections), after it, with two disagreements and another save, with two adjudications, and with two overlapping exports. One study with all of it would only multiply independent steps. |
| `relevance` | every order of four kinds of articles, twice (copies by record, url and body, a similar one, an unusable one, one of two entities); larger frames for the quotas, one with most units in one stratum; invalid and repeated rows; no article at all; every combination of what may be supplied to the gates. Any phase may raise. The benchmark is drawn from each of these corpora with caps of one and two, sizes below and above the number of categories met, and embargoes of none to two days. |
| `gdelt` | an archive of six records around two seeds and one more that arrives late; fourteen requests that differ in a term, its case, a limit, a mode, a cap or a floor; two runs in a row with the cache between them, either killed anywhere. Two runs are the least in which one finds what another has left. |
| `collection` | three runs of two collections that overlap in any way, one stop and one write cut in two. Three runs let a third one read what a stopped one and its successor have left. |

One run expects a violation. `gdelt_torn_family`: a run killed while the result cache
is written leaves a beginning of the rows, the next run takes the file for a
complete result, and Benjamini-Hochberg runs on a truncated family, which
`score.py` says must never happen. The finding in `PROJECT.json` quotes the line.

### What the code does not promise

The models contain behaviours that the repository's own words exclude or that a
reader of them would not expect. Where a property is named it is defined in the
module but named by no cfg; add it to the cfg of the run to see the counterexample.

*Cost guard.* The ledger says that "every cost decision (dry-run, block, cache hit,
real execution) is written as a single JSON line" (`ledger.py:4`), but the ALLOW
record is appended after the query and the cache file: a call that ends in between
leaves billed money out of the ledger (`EveryExecutionRecorded`). Two processes
that evaluate the caps before either has recorded pass the daily cap together
(`OvershootBounded` says by how much).

*Pipeline.* A run directory "always contains" `run_metadata.json`
(`artifacts.py:3-9`); a `git` call that times out in `before_run` is neither caught nor
inside the `try` (`MetadataAlwaysWritten`). Two pipelines started together choose
one group, and with one run id one directory (`GroupsKeptApart` says that only such
runs can).

*Annotation.* "Double-click / rerun does not create duplicate events"
(`tools/annotation/README.md:70`): the fingerprint holds the saved revision and the
token is rotated after the save, so a second click on the annotation page draws a
new token and appends a second event (`OneEventPerDecision`).

*Study.* Adjudication assignments exist only after a click, so the status can say
that nothing is left to adjudicate while disagreements are open; the upsert of a
ruling precedes the validation of its reason; importing again resets the status of
completed assignments; an import that stops after some rows leaves them as the whole
batch, which readiness then counts; after events have changed, a click's rerun starts from the
default widgets and may adjudicate another article; an export of identical
content raises after the file was replaced; overlapping exports share one `.tmp`.

*Ingestion.* A refresh of the response cache replaces the raw response, even by one
that normalization then rejects. A bar revised between the start of a run and the
download of its page is stamped with an instant at which it did not exist.

*Dataset.* "Horizons are never silently shortened" (`news-market-dataset.md:176`):
targets count bars, not sessions, so with a gap a complete horizon is longer than it
says (`HorizonIsSessions`). With a buffer that reaches past midnight, an article
published after the cutoff is used at it (the proofs assume `MorningCutoff`). News
of the trading hours is used for the next session but lies outside the window that
session declares; with gaps in the bars the benchmark's returns are of other
sessions than the instrument's, and the embargo can be too short
(`EmbargoSeparates` is stated for series without gaps).

*Relevance.* Calibration units are not excluded from the formal batch although the
manifest says so (`pilot_task.py:514`); the pairs for review include articles
whose rights are not cleared; a canonical article that is not eligible drops its whole
cluster; cluster ids hash the members, so they change as the corpus grows; READY depends
on the approval string alone; an empty adjudication file leaves
FORMAL_BATCH_READY; missing provenance writes no readiness decision; the
first pass of the benchmark may exceed the sample size; a later copy of a story may
be published in a later period than its split; an override of zero is ignored.

*GDELT BigQuery.* The daily counts are grouped by the 14-digit stamp and cut to ten
characters afterwards, so a day has several rows (`OneRowPerDay`). The key of the
counts cache lowers the case of terms that the SQL compares exactly; a window
that includes today is cached for good. Records whose partition is the day after
their stamp are lost at the end of a filtered window. A theme that only seeded
records carry has no lift and can never be eligible; with every record seeded the
table is invalid, yet its p-value of one counts in the family. Structured seeds with
one canonical name are not merged; the order of ties at a LIMIT is arbitrary. An
empty torn cache file passes as a complete family of none.

*Collections.* A response is cached under its query without an age: "the last 12
hours", even an empty answer, is what every later run gets, and its articles are
stamped with the time of the later run. One kill inside a multi-byte character makes
`articles.jsonl` undecodable and every later run fail. Overlapping runs store
duplicates and cut each other's lines; a torn line and the line joined to it are both
lost. A feature row is skipped when one with its date, topic and span is there, though
made of other articles; an article keeps the topics of the first collection
that saw it; articles without a key are appended by every run; the summary's total
counts keys, not lines.

Bounds that are part of a specification are constants named `Max...` or
`Last...`; they only stop the environment (kills, aborts, decisions, reloads,
revisions, days), never the code. Deadlock is checked where the system never ends
(`JsonlStore`, `CostGuard`, `SubmissionLog`, `NewsMarketDataset`, which stutters
explicitly when the build is over); runs of models whose processes end say
`CHECK_DEADLOCK FALSE`. Six runs use the symmetry of runs,
processes, tabs or articles that the specification does not tell apart; none of
those checks liveness.

Fairness: `JsonlStore!FairSpec` assumes that a process that is not killed keeps
taking its own steps (weak fairness of `Step` per process), as an operating
system provides. It assumes nothing of the caller, of exceptions or of the
operator. `LockEventuallyFree` is therefore stated up to kills: the lock is freed,
or a process has been killed and an operator has to look. No other property is a
liveness property; those of the fetch are bounds on its steps.

## 5. Proofs

The theorems hold for every value of the constants that satisfies the named
assumptions (`WritersAssumption`, `PolicyAssumption`, `SubmissionAssumption`, `PlansAssumption`,
`ConfigAssumption`, `IngestAssumption`, `CalendarAssumption`, `DatasetAssumption`,
`ReviewAssumption`, `ExportAssumption`, `CollectionAssumption`, `PilotAssumption`,
`BenchmarkAssumption`, `GdeltAssumption`), which TLC evaluates in every run. They type the
constants, keep the model value `None` apart from data, ask for finitely many processes,
queries or tokens where something is counted, and repeat what the code validates of a
policy or a configuration. `GdeltAssumption` says of the archive that an id names one
GKG record and that no real theme begins with the marker of the synthetic rows, on which the
SQL's `COUNT(DISTINCT rec_id)` and `STARTS_WITH` rely, and of the requests what the builders
validate. `PilotAssumption` says that hash ranks are numbers that differ from unit to unit
under each salt (the code sorts by the hash and then by the id), that an article has finitely
many mentions of numbered entities, and of the parameters what the code makes of them: targets
count units, an override of zero is none and a negative one raises, an empty list of
scenarios means the default ones, and a scenario asks for at least one unit. `BenchmarkAssumption`
repeats what `SamplingConfig` and `SplitConfig` validate, sizes and caps of at least one and periods
that follow on each other, and says that an article has a day or none; the two labellings it is
evaluated with are any. A study may start from an imported batch and an annotated log
(`StudyRecord`, `ReviewAssumption`): what the earlier steps of the same study leave, with
each event made by an annotator the article was given to and of the content it was bound to.

- `JsonlStoreProofs`. `IInv` adds to the type and to `LockOwned` and
  `SnapshotCurrent` two facts without which they are not inductive:
  `SidecarReady` (who reaches the data file has a sidecar) and `CommittedOnDisk`
  (who releases after success finds its merge on disk). From it follow the
  truthful result, both action properties and the refinement: `ReplaceData` is
  the upsert of `AtomicUpsert`, every other step is a stutter. `MergedFacts` and
  `CollapsedType` are the lemmas about the data. For the counts of the result,
  `KeysCounted` and `CountsAddUp` compare the keys of the file before and after with those of
  the batch as finite sets. The instance's operators are
  shown equal to the store's first (`SameRecords`).
- `BigQueryProofs`, cost guard. Between the caps and the record nothing holds the budget.
  `RoomLeft` says that as long as calls have not overlapped the one in flight
  still fits under the caps, `OneInFlight` that there is only one, and
  `FutureUncharged` that a new day starts at zero.
  The sums over days, queries and calls are the size of a set of units
  (`Total`), so that the theorems about finite sets apply: `TotalUpdate` says what
  one changed entry does to a sum, `DueStep` what one step of a call does to what is
  due. For `OvershootBounded`, `Affordable` says that every call in flight was within
  the caps by itself; when one more is admitted the others are at most all
  processes but one, each within the single-query cap (`FlyingBound`), and a
  record only moves a price from what flies to the day (`Overshoot`). For
  `SpendAccounted` each step moves a price between bill, dues, ledger and loss
  (`Accounted`). For `PaidBounded`, `Thrift`: before the first cache file every
  bill belongs to a process that is about to write it or to an aborted call; after
  it, those that missed before can still be billed, and nobody joins them.
- `SubmissionLogProofs`. The token protocol is sound because of three facts about the
  keys: an event carries a token its session has drawn (`EventsKeyed`), a session's
  live tokens are different, and an event stored under a live one records the form the
  token was drawn for (`TokensSound`; this is why the fingerprint must be compared).
  `RunSound` carries them through a run and adds that a run about to insert has
  everything its own session stored, and every row that was there when it began, below its
  base. `RowsSound` says that rows are numbered as they were inserted, and with it an
  insert keeps `RevisionsOrdered`: above what its append found. A fingerprint may be of
  another form than the token beside it as long as no event has that token, which is all
  an interrupt between the two writes leaves. Hence an insert adds the next
  revision or one that another session has just used (`InsertNext`), which keeps the
  revisions gapless although read and insert are two steps. `Clicked` bounds the
  events of a decision plus the saves still due (the queued click, and the run that
  has not inserted yet) by the clicks. For the refinement, `InsertAppends` shows from
  `RunSound` that an insert is the step `Append` of `EventLog`: what the run has looked
  up, though stale, still gives a fresh key and a revision that skips none; an import
  done again is `Reset`, every other step a stutter.
- `PipelineRunProofs`. `Progress` ties each point of the loop to the steps
  handled and recorded so far; `Reported` and `Complete` describe the directory
  of a run that has ended and shares it with no one. `FreeGroupFound` shows by a
  cardinality argument that the search for a group name ends. For `MetadataTruthful`,
  `Tally` follows what the context has recorded against what the loop has handled:
  the record misses at most the step in progress.
- `AlpacaProofs`, client. `Walk` says that the tokens asked with form a chain
  without repetition, `Budget` that the requests so far fit the pages read and
  the attempts of the current one. Powers of two are outside the provers, so
  the waits stay out of the invariant (`Shape` instead of `TypeOK`).
- `AlpacaProofs`, ingestion. `NeverRestamped` is about the store alone and not inductive:
  `CopiesGenuine` says the same of every copy of a bar, in a run's hands or in the
  cache, and `RunSound` that the pages read so far carry the start of their own run.
  A copy is genuine if its version had not been replaced at its stamp;
  `StaysGenuine` shows that no step of the provider changes that, since a new
  version is published no earlier than any stamp. `BatchFacts` and `MergedFacts`
  follow a bar from the response into the store. For
  `RefreshBringsCurrent`, `Current` says that until somebody disturbs it a forced run
  holds the provider's present version of every bar of the pages it has read, and
  that it stores only when it has read them all.
- `NewsMarketDatasetProofs`. First the alignment alone (`AssignedToFirst`,
  `AssignedIsKnown`): for every calendar and instant both policies return
  the least session that could use an article. The code's search (this day or the
  next session, and one further if the cutoff has passed) is compared with the
  set `CanUse`. The assumption is that the cutoff lies on the day of its
  session (`MorningCutoff`); without it the theorem is false (section 4).
  Then `NewsIsCountedOnce`, from `BuildType` and the first of them, and
  `DatasetNeverLooksAhead` from `Causal`: everything in a bucket is known at the cutoff of its session, features are computed from their
  own bucket and compared with earlier ones, and an observation is made of a
  feature and bars on sessions. Buckets only grow, so the facts survive, and
  the order of midnights, opens and closes does the rest. `EmbargoIsEnough` needs
  no assumption on cutoffs. `Labelled` says that labels are a function of the
  rank of a session among the observed ones. Ranks in different partitions
  outside the embargo are more than a horizon apart (`EmbargoIsLong`), and a
  session not after the last bar of a complete horizon is at most a horizon of
  ranks away (`RankByBars`: with no bar missing, the observed sessions between are
  among the bars between).
- `StudyProofs`, over `ExportSpec`, so with the exports running beside the study.
  `Bound`: what is annotated, or on a page, is imported and has the version its
  assignment is bound to; a row is bound once (`ImportBinds`) and `Save` compares
  again. `ClickGrounded` and `AllGrounded`: a pair that was validated has
  its grounds in the log as far as it reached then, and a log that grows takes no
  grounds away (`GroundsKept`); `LatestIsLargest` finds the greatest revision with
  `LeastNatural`, there being no induction. `ShownFresh` and `ClickFaithful`: as
  long as the log has not grown, the page is what the log gives and the click's
  rerun renders the same. `StatusBacked` and `RulingsBacked`: completed means that
  the event or the decision exists; with `BothImported` this is what readiness
  promises. `FilesInv`: `OwnFiles` keeps the files of the kinds apart, `Orderly`
  says that one exporter at a time has a kind's temporary file open and how it has
  left it, and `Published` that what stands at a destination is recorded or about
  to be. The last two are claimed only of kinds without overlapping or failed
  exports, as the property is.

- `BigQueryProofs`, GDELT tasks. `GdeltInv` says of every cached file that it holds a
  beginning of what the query of *every* request with its key returned on a table the archive has
  contained (`FilesOwn`), of a run that its rows are such rows, the whole of them if it executed
  its query (`RowsOwn`), and that its state is their score (`StateOwn`). A key determines its
  SQL, the counts task apart (`OneKeyOneQuery`); hence a hit is of the run's own query
  whoever wrote the file and wherever the writer was killed (`CacheServesOwnQueryHolds`).
  For the gate, the rows are enumerated by an order: `InOrder` gives each place its row because
  the number of rows ahead is different for each (`Orders` and its lemmas), and the `ORDER BY` of
  the scoring query is shown to be a strict total order on the rows of a table, its fractions
  cross-multiplied. The result is then `Leading`: a beginning, in that order, of one row per
  theme. Synthetic rows come first and there are at most `1 + Len(seeds)` of them,
  so a family within the cap is `Whole` after the `LIMIT`, and one beyond it is known by the
  independent count on every row, which no truncation changes
  (`FamilyGateHolds`). As any beginning that has a candidate has the `__TOTAL__` row, the
  tables are right even where the file is torn (`TablesSplitHolds`).
  For the correction, a recursive function is reasoned about through the least place at which
  it would go wrong (`LeastNatural`): factorials are positive (`FactorialFacts`), so every
  p-value of a table of numbers is a number or `None` (`HypothesisFacts`). The walk holds at
  each place the least of what it passed, and the function is shown to exist by giving it
  (`WalkFacts`). A place scales its value by a rank that is at most the number of values as
  small, and exactly that number at the first place of equal values (`BehindPlace`,
  `FirstPlace`). So the walk ends at each value with the minimum Benjamini and Hochberg
  prescribe, ties included (`BenjaminiHochbergIs`, `StatisticsSoundHolds`).
- `CorpusProofs`, collections. `StoreInv`: unless two runs worked on a file at a time it has at
  most one writer (`OneWriter`), no key twice (`NoRepeats`), and everything reported can be read
  or lies beside a break, of which there are no more than stops (`AtRest`, `Accounted`); while a run
  writes, the same holds of the text that the file will be when the buffer is written
  (`WriterSound`), so a buffer may be flushed anywhere. `AppendedShape`, `AppendedOnce`
  and `AppendedKnown` follow the readable lines of a text through an append. `SpanInv` is about what has *begun* to
  be written, not about lines: a run carries, for each topic of each article, a row that covers
  it, and has begun that row, or found one with its date, topic and span, before it begins the
  article. It needs no assumption on overlap; that a begun row can be read is the
  condition `Whole` of the property.
- `CorpusProofs`, pilot. `PilotInv`: the files that each phase relies on (`Held`) are there when it
  begins, whatever raised before. `SampleInv`: a drawn representative sample is the one of
  the frame that is still there; with `Representative` of the size asked for or the
  whole frame, and the corrected size of a scenario no smaller than its classes
  (`ScenarioFacts`), a plan that does not report a shortfall has room for every scenario
  (`PlanHonestHolds`).
- `CorpusProofs`, clusters. A tree of parents is good when every parent is at most its child: the
  search for a root then ends (`RootFound`), although it is a recursive function, because one that
  has a value at every smaller id exists by well-founded recursion over a finite set. `UnionRooted`
  says what a union does to the roots, and `LinkedFacts` that after a fold over links two
  articles share a root if, and only if, no set of articles closed under the links has one of
  them alone. This is what the four rules keep between them whatever their order
  (`ParentsFacts`), so a cluster is a component of the evidence (`ClustersAreComponentsHolds`).
- `CorpusProofs`, samples. `DrawInv` says how each sample that is still there was drawn, from
  which frame; with `ClusterInv`, `SampleInv` and `PilotInv` the property is one of the operators.
  `LowestRankedExact`: a draw by rank returns as many units as asked for, or all, because ranks
  differ. `AllocationFits`: no stratum is asked for more than it has, the least units are there
  when the target allows, and the sum does not exceed the target, for any rounding
  (`SharedBounded`); what is left is made up for, so `RepresentativeSound`. The rounds of the
  challenge and calibration samples are folds: one round is unfolded over the seven reasons
  (`RoundIs`, `RoundFacts`), and as many rounds as units are followed by an invariant over the
  rounds (`RoundRobinIs`, `RoundRobinSound`): a round takes a unit or there is none left, and
  the first round has every reason it can have. `DoublyAnnotatedSound` counts units that both
  picks share; `CanonicalFacts` that canonical articles are one per cluster; `ReviewedPairs`
  that a pair under review is of two clusters. Together `SamplesSoundHolds`.
- `CorpusProofs`, benchmark. Both passes of the sampling are folds, over the categories and over
  the units by rank. What they keep is that no entity has more units than its cap (`Selections`):
  a unit is taken only if none of its entities is full (`OneMoreUnit`), so each step keeps it
  (`WithFirstFacts`, `WithUnitFacts`), and the library of folds from the samples carries it to the end
  (`FirstPassSelects`, `SampleSelects`). `SplitFacts` bounds the day of a cluster by its split, from
  which two successive periods are apart (`PeriodsAreApart`). The evaluation looks only at labels
  outside a closed holdout, and five disjoint cells share the articles of a split
  (`HoldoutIsClosed`). With `ClusterInv` follows `BenchmarkSoundHolds`.

Only checked by TLC: liveness (`LockEventuallyFree`), which the provers do not treat.

## 6. Plan

Done: the store, cost guard, annotation forms, runner, Alpaca client and ingestion,
alignment and dataset with their proofs; the study with adjudication and exports;
clusters, sampling, phases and benchmark of the relevance pilot; the GDELT BigQuery
tasks; the collections; the proofs of cost guard, study, embargo and event log; those of
the collections, of the pilot's phases, plan, clusters, samples and benchmark, of the query cache, the family gate and
the tables it admits. In this order:

1. `UsEquityCalendar`: the holiday and early-close rules with day arithmetic, against
   a reference for Easter; it satisfies `CalendarAssumption`.
2. `LegacyPlan`, `ConfigMerge`, `DateWindows`, `BillingCycle`: pure functions against
   reference definitions over bounded inputs.
3. `build_views` and the reporting tool's direct calls as clients of `CostGuard`; the
   ledger as a sequence of lines, with a torn one.
4. The selection of event windows and the manifests of datasets.

## 7. Not modelled

- Numbers: statistics, features' values, odds ratios and their intervals, risk
  differences, agreement coefficients. They are floating-point computations without
  state; the p-values of the themes are there because their order decides.
- Text: entity linking, the guardrails' reading of SQL, normalization, rendering of reports. Where a text
  decides (a statement passes the guardrails, a bar is valid) its outcome is an
  input.
- The command line dispatches to the runner. A caller that passes `run_dir`
  itself bypasses the allocation and is left out.
- Migrations of the annotation database, navigation of its pages, the content controls
  and the reconciliation of the pilot with real labels.
- Catalogs, schemas and serialization validate single records: a record is valid or
  not in the models that store one. Reports, fixtures and case-study scripts render
  or generate.
- Torn or hand-edited ledger lines; files corrupted from outside.
- In the dataset builder: several topics (each is built alike), the truncated
  baseline flag, the numeric columns, the manifest, the audit (it repeats what the
  schema has checked).
- `require_dry_run` of the policy is read by nothing in `src/` and so by nothing
  here.

## 8. Running

    tlc -workers 2 -config MCJsonlStore.cfg MCJsonlStore
    tlapm JsonlStoreProofs.tla

Each run ends within one to three minutes on two cores.

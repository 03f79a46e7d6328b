------------------------------ MODULE GdeltTask ------------------------------
(***************************************************************************)
(* The four BigQuery tasks of ingestion/news/gdelt/bigquery/tasks (daily   *)
(* counts, theme discovery, seeded theme discovery, seeded theme scoring)  *)
(* run one after another over a growing GKG archive, with the result cache *)
(* of SafeBigQueryClient.safe_query between them.  A run may be killed     *)
(* between any two of its steps; the cache file it was writing stays.      *)
(***************************************************************************)
EXTENDS ThemeScores

CONSTANTS
    Archive,        \* the records of the archive when the first run starts
    Arriving,       \* the records that may be added later
    Requests,       \* the configured tasks
    IndustryWords,  \* classify_seed's list
    Targets,        \* _MANUAL_REVIEW_THEMES
    EvidenceTopN,
    MaxRuns

Atoms == DOMAIN LowerOf
Codes == ToSet(Collation)
Windows == [start : Int, end : Int]
SeededQueries ==
    [window : Windows, partitioned : BOOLEAN, seeds : {<<>>}, week : Nat \ {0},
     sample : Nat, limit : Nat]
ScoringQueries ==
    [window : Windows, partitioned : BOOLEAN, seeds : {<<>>}, week : Nat \ {0},
     sample : Nat, limit : Nat, candidate_limit : Nat, min_support : Nat]

\* Lowering an atom gives an atom; an id names one GKG record, whose themes are
\* not synthetic codes; and what the settings of the tasks hold.
ASSUME GdeltAssumption ==
    /\ NULL \notin Int
    /\ LowerOf \in [Atoms -> Atoms] /\ Collation \in Seq(Codes)
    /\ IsFiniteSet(Archive) /\ IsFiniteSet(Arriving)
    /\ \A r, s \in Archive \cup Arriving : r.id = s.id => r = s
    /\ \A r \in Archive \cup Arriving :
        r.codes \in Seq(Codes) /\ \A c \in ThemesOf(r) : ~Synthetic(c)
    /\ \A req \in Requests :
        /\ req.task \in {"counts", "discovery", "seeded", "scoring"}
        /\ req.task = "discovery" => req.q.limit \in Nat
        /\ req.task = "seeded" => req.q \in SeededQueries
        /\ req.task = "scoring" => req.q \in ScoringQueries
        /\ req.task \in {"seeded", "scoring"} =>
            /\ req.terms \in Seq(Seq(Atoms)) /\ req.specs \in Seq(ToSet(req.specs))
            /\ \A s \in ToSet(req.specs) : s.canonical \in Seq(Atoms)
            /\ {TotalCode} \cup {SeedCode(s.canonical) :
                    s \in ToSet(ResolveSeeds(req.specs, req.terms, IndustryWords))}
                \subseteq Codes

VARIABLES
    archive,   \* the GKG table
    cacheFiles,     \* data/cache: a file of rows by key, with the query and table it is of
    run,       \* the run in progress or the last one
    runs       \* how many were started

taskVars == <<archive, cacheFiles, run, runs>>

NoRun == [status |-> "none"]

TaskInit ==
    /\ archive = Archive
    /\ cacheFiles = <<>>
    /\ run = NoRun
    /\ runs = 0

-----------------------------------------------------------------------------
(* Parameters, query and cache key.                                        *)

\* The terms of a counts request; an empty bundle is a ConfigError.
Terms(req) ==
    IF req.bundle = NULL THEN req.q.terms ELSE ResolveTerms(req.q.terms, req.bundle)

Seeds(req) == ResolveSeeds(req.specs, req.terms, IndustryWords)

\* The checks of the task and of the SQL builder, which precede every artifact.
Accepted(req) ==
    /\ req.topic # ""
    /\ req.q.window.start <= req.q.window.end
    /\ CASE req.task = "counts" -> req.bundle # <<>> /\ Terms(req) # <<>>
                                   /\ req.q.columns # {}
         [] req.task = "discovery" -> req.q.patterns # <<>> /\ req.q.limit > 0
         [] req.task \in {"seeded", "scoring"} ->
                req.terms # <<>> \/ req.specs # <<>>

\* What the SQL text says.
Sql(req) ==
    CASE req.task = "counts" -> [req.q EXCEPT !.terms = Terms(req)]
      [] req.task = "discovery" -> req.q
      [] req.task \in {"seeded", "scoring"} -> [req.q EXCEPT !.seeds = Seeds(req)]

\* The row sequences BigQuery may return.
Results(req, table) ==
    CASE req.task = "counts" -> DailyCounts(table, Sql(req))
      [] req.task = "discovery" -> ThemeDiscovery(table, Sql(req))
      [] req.task = "seeded" -> SeededDiscovery(table, Sql(req))
      [] req.task = "scoring" -> ThemeScoring(table, Sql(req))

KeyTerms(req) ==
    CASE req.task = "counts" -> {Lower(t) : t \in ToSet(Terms(req))}
      [] req.task = "discovery" -> {Lower(t) : t \in ToSet(req.q.patterns)}
      [] req.task \in {"seeded", "scoring"} -> {Lower(t) : t \in ToSet(req.terms)}

\* A bug: no task folds its SQL into the key.
KeyWithoutSql(req) ==
    [task |-> req.task, topic |-> req.topic, window |-> req.q.window,
     partitioned |-> req.q.partitioned, terms |-> KeyTerms(req), sql |-> NULL]

\* build_cache_key: the counts task alone leaves the SQL out, and names its columns.
CacheKey(req) ==
    [task |-> req.task, topic |-> req.topic, window |-> req.q.window,
     partitioned |-> req.q.partitioned, terms |-> KeyTerms(req),
     sql |-> IF req.task = "counts" THEN req.q.columns ELSE <<req.name, Sql(req)>>]

-----------------------------------------------------------------------------
(* Starting a run.                                                         *)

Idle == run.status \notin {"query", "caching", "result", "rows", "summary"}

Fresh(req) ==
    [status |-> "query", req |-> req, artifacts |-> {"sql"}, decision |-> NULL,
     rows |-> <<>>, state |-> NULL, derived |-> NULL, summary |-> NULL, at |-> {}]

\* A PipelineError, ConfigError or ValueError: nothing was written.
Reject ==
    /\ Idle /\ runs < MaxRuns
    /\ \E req \in Requests :
        /\ ~Accepted(req)
        /\ run' = [Fresh(req) EXCEPT !.status = "rejected", !.artifacts = {}]
    /\ runs' = runs + 1
    /\ UNCHANGED <<archive, cacheFiles>>

\* The SQL artifact comes before the guarded query.
Start ==
    /\ Idle /\ runs < MaxRuns
    /\ \E req \in Requests : Accepted(req) /\ run' = Fresh(req)
    /\ runs' = runs + 1
    /\ UNCHANGED <<archive, cacheFiles>>

-----------------------------------------------------------------------------
(* safe_query                                                              *)

Key == CacheKey(run.req)
Cached == run.req.use_cache /\ Key \in DOMAIN cacheFiles

\* load_cached_rows: an existing file is a hit, with whatever rows it holds.
ServeFromCache ==
    /\ run.status = "query" /\ Cached
    /\ run' = [run EXCEPT !.status = "result", !.decision = "USE_CACHE",
                          !.rows = cacheFiles[Key].rows, !.at = cacheFiles[Key].at]
    /\ UNCHANGED <<archive, cacheFiles, runs>>

DryRunOnly ==
    /\ run.status = "query" /\ ~Cached /\ run.req.dry_run
    /\ run' = [run EXCEPT !.status = "result", !.decision = "DRY_RUN_ONLY"]
    /\ UNCHANGED <<archive, cacheFiles, runs>>

\* A guardrail or the missing confirmation: CostGuardrailError.
BlockQuery ==
    /\ run.status = "query" /\ ~Cached /\ ~run.req.dry_run
    /\ \E decision \in {"BLOCK_OVER_MAX_BYTES", "BLOCK_MISSING_EXECUTE_CONFIRMATION"} :
        /\ decision = "BLOCK_MISSING_EXECUTE_CONFIRMATION" => ~run.req.confirmed
        /\ run' = [run EXCEPT !.status = "result", !.decision = decision]
    /\ UNCHANGED <<archive, cacheFiles, runs>>

\* An error of the BigQuery client itself is no CostGuardrailError.
ClientError ==
    /\ run.status = "query" /\ ~Cached
    /\ run' = [run EXCEPT !.status = "failed"]
    /\ UNCHANGED <<archive, cacheFiles, runs>>

\* run_query, then write_cached_rows opens the file, truncating it.
ExecuteQuery ==
    /\ run.status = "query" /\ ~Cached /\ ~run.req.dry_run /\ run.req.confirmed
    /\ \E rows \in Results(run.req, archive) :
        /\ run' = [run EXCEPT !.status = "caching", !.decision = "ALLOW",
                              !.rows = rows, !.at = archive]
        /\ cacheFiles' = [key \in DOMAIN cacheFiles \cup {Key} |->
                IF key = Key THEN [rows |-> <<>>, at |-> archive] ELSE cacheFiles[key]]
    /\ UNCHANGED <<archive, runs>>

\* A part of the rows reaches the disk.
FlushCache ==
    /\ run.status = "caching"
    /\ \E n \in 1..(Len(run.rows) - 1) :
        /\ n > Len(cacheFiles[Key].rows)
        /\ cacheFiles' = [cacheFiles EXCEPT ![Key].rows = SubSeq(run.rows, 1, n)]
    /\ UNCHANGED <<archive, run, runs>>

CloseCache ==
    /\ run.status = "caching"
    /\ cacheFiles' = [cacheFiles EXCEPT ![Key].rows = run.rows]
    /\ run' = [run EXCEPT !.status = "result"]
    /\ UNCHANGED <<archive, runs>>

-----------------------------------------------------------------------------
(* The task's artifacts.                                                   *)

HasRows(decision) == decision \in {"ALLOW", "USE_CACHE"}
Blocked(decision) == decision \notin {"ALLOW", "USE_CACHE", "DRY_RUN_ONLY"}

\* _normalize_date of the 14 digit stamp: its first ten digits, the day and the hour.
NormalizeDate(stamp) == <<stamp[1], stamp[2] \div 4>>

NormalizeCounts(rows) ==
    [i \in DOMAIN rows |-> [date |-> NormalizeDate(rows[i].date),
                            article_count |-> rows[i].article_count]]

RejectedMatches(rows, rejected) == SelectSeq(rows, LAMBDA r : r.theme \in rejected)

\* What the run puts in ctx.state.
Exposed(req, rows) ==
    CASE req.task = "counts" -> NormalizeCounts(rows)
      [] req.task \in {"discovery", "seeded"} -> rows
      [] req.task = "scoring" -> ScoreRows(rows, req.q.candidate_limit)

RowCount(req, state) ==
    IF state = NULL THEN 0
    ELSE IF req.task = "scoring" THEN Len(state.candidates) ELSE Len(state)

Warnings(req, decision, state) ==
    (IF Blocked(decision) THEN {"blocked"} ELSE {})
      \cup (IF req.task # "counts" /\ HasRows(decision) /\ RowCount(req, state) = 0
            THEN {"nothing returned"} ELSE {})
      \cup (IF req.task = "discovery" /\ state # NULL
               /\ RejectedMatches(state, req.rejected) # <<>>
            THEN {"known rejected"} ELSE {})
      \cup (IF req.task = "scoring" /\ state # NULL /\ ~state.family_complete
            THEN {"statistically incomplete"} ELSE {})

\* The estimate and the decision come first, for a blocked query too.
WriteDecision ==
    /\ run.status = "result"
    /\ run' = [run EXCEPT !.artifacts = @ \cup {"estimate", "decision"},
                          !.status = IF HasRows(run.decision) THEN "rows" ELSE "summary"]
    /\ UNCHANGED <<archive, cacheFiles, runs>>

\* The rows go to ctx.state and to their files; scoring adds the derived tables.
WriteRows ==
    /\ run.status = "rows"
    /\ LET state == Exposed(run.req, run.rows) IN
        run' = [run EXCEPT
            !.state = state,
            !.derived = IF run.req.task # "scoring" THEN NULL
                ELSE [review |-> TopRanked(state.candidates, run.req.q.limit),
                      evidence |-> Evidence(state.candidates, EvidenceTopN, Targets,
                                            run.req.q)],
            !.artifacts = @ \cup {"rows"},
            !.status = "summary"]
    /\ UNCHANGED <<archive, cacheFiles, runs>>

\* The summary is the last file; a blocked run raises after it.
WriteSummary ==
    /\ run.status = "summary"
    /\ run' = [run EXCEPT
            !.summary = [decision |-> run.decision,
                         cache_hit |-> run.decision = "USE_CACHE",
                         row_count |-> RowCount(run.req, run.state),
                         warnings |-> Warnings(run.req, run.decision, run.state)],
            !.artifacts = @ \cup {"summary"},
            !.status = IF Blocked(run.decision) THEN "raised" ELSE "done"]
    /\ UNCHANGED <<archive, cacheFiles, runs>>

Kill ==
    /\ ~Idle
    /\ run' = [run EXCEPT !.status = "killed"]
    /\ UNCHANGED <<archive, cacheFiles, runs>>

\* The archive goes on growing, also in days already queried.
Publish ==
    /\ Idle
    /\ \E r \in Arriving \ archive : archive' = archive \cup {r}
    /\ UNCHANGED <<cacheFiles, run, runs>>

TaskNext ==
    \/ Reject \/ Start
    \/ ServeFromCache \/ DryRunOnly \/ BlockQuery \/ ClientError
    \/ ExecuteQuery \/ FlushCache \/ CloseCache
    \/ WriteDecision \/ WriteRows \/ WriteSummary
    \/ Kill \/ Publish

TaskSpec == TaskInit /\ [][TaskNext]_taskVars

-----------------------------------------------------------------------------
(* Properties.                                                             *)

Served == run.status = "result" /\ HasRows(run.decision)

\* A discovery, seeded discovery or scoring run works on rows that its own query
\* returned, now or when the cached file was written: the whole of them, or a
\* beginning where the writer was killed.  Two requests whose SQL differs in a
\* limit, a mode, an alias or a floor never share a file (build_cache_key folds the
\* SQL in so that a change "can never reuse a stale cached result").
CacheServesOwnQuery ==
    Served /\ run.req.task # "counts" =>
        \E rows \in Results(run.req, run.at) : IsPrefix(run.rows, rows)

Scored == run.status = "done" /\ run.state # NULL /\ run.req.task = "scoring"

\* The support-qualified family and its arms, counted on the archive itself.
Arm(seeded) == {r \in Themed(run.at, Sql(run.req)) :
                    (MatchedSeeds(r, Seeds(run.req)) # <<>>) = seeded}
With(records, code) == {r \in records : code \in ThemesOf(r)}
Family == {c \in UNION {ThemesOf(r) : r \in Arm(TRUE) \cup Arm(FALSE)} :
            Cardinality(With(Arm(TRUE), c)) >= run.req.q.min_support}

\* Adjusted p-values exist only for a family within the safety cap.  A run that
\* executed its query scores exactly the themes with the support asked for when they
\* are within the cap, and corrects none of them when they are not: the LIMIT of the
\* SQL never cuts a synthetic row or a theme of a family that passes for complete.
FamilyGate ==
    Scored =>
        LET cs == run.state.candidates IN
        /\ (\E i \in DOMAIN cs : cs[i].adjusted_p_value # NULL)
            => Cardinality(Family) <= run.req.q.candidate_limit
        /\ run.decision = "ALLOW" =>
            IF Cardinality(Family) <= run.req.q.candidate_limit
            THEN run.state.family_complete /\ {cs[i].theme : i \in DOMAIN cs} = Family
            ELSE ~run.state.family_complete

\* Every candidate's table splits the archive's records into the seed arm and the
\* rest, each with and without the theme.
TablesSplit ==
    Scored =>
        LET cs == run.state.candidates IN
        \A i \in DOMAIN cs :
            cs[i].table = [a |-> Cardinality(With(Arm(TRUE), cs[i].theme)),
                           n1 |-> Cardinality(Arm(TRUE)),
                           c |-> Cardinality(With(Arm(FALSE), cs[i].theme)),
                           n0 |-> Cardinality(Arm(FALSE))]

\* The adjusted values are what Benjamini-Hochberg prescribes over the tested
\* candidates: the least p m / rank among the p-values at least as large.
StepUpSound ==
    Scored =>
        LET cs == run.state.candidates
            tested == {i \in DOMAIN cs : cs[i].p_value # NULL}
            scaled(j) == (cs[j].p_value * Cardinality(tested))
                            \div Cardinality({k \in tested : cs[k].p_value <= cs[j].p_value})
        IN  run.state.family_complete =>
                \A i \in tested :
                    cs[i].adjusted_p_value =
                        Min({Scale} \cup {scaled(j) : j \in {k \in tested :
                                                cs[k].p_value >= cs[i].p_value}})

\* What the scores of a run rest on: tables of the archive, and values adjusted over
\* the whole family.
StatisticsSound == TablesSplit /\ StepUpSound

\* What score.py says of its gate: "must never let Benjamini-Hochberg run on a
\* truncated hypothesis family".
WholeFamilyCorrected ==
    Scored =>
        \A i \in DOMAIN run.state.candidates :
            run.state.candidates[i].adjusted_p_value # NULL
                => run.state.returned = run.state.total_qualified

\* What the counts task is for: one row for each day (the docstring of
\* build_gdelt_daily_counts_query: "Build a daily-count query").
OneRowPerDay ==
    run.status = "done" /\ run.req.task = "counts" /\ run.state # NULL =>
        \A i, j \in DOMAIN run.state :
            (run.state[i].date[1] = run.state[j].date[1]) => i = j
=============================================================================

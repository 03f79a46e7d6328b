----------------------------- MODULE PilotTask -----------------------------
(***************************************************************************)
(* run_semiconductor_relevance_real_corpus_pilot: one run of the task over *)
(* a corpus.  It publishes its progress in pilot_state.json, which every   *)
(* phase overwrites, and stops at the gate it cannot pass.  Any phase may  *)
(* raise; what was written until then stays.                               *)
(***************************************************************************)
EXTENDS PilotSampling

CONSTANTS
    Given       \* the inputs of a run: [rows, params]

PilotStates ==
    {"CORPUS_PREFLIGHT", "BLOCKED_MISSING_CORPUS", "BLOCKED_MISSING_RIGHTS_CLEARED_CORPUS",
     "BLOCKED_RIGHTS_VALIDATION", "SAMPLE_PLAN_READY", "CALIBRATION_BATCH_READY",
     "CALIBRATION_LABELS_INCOMPLETE", "CALIBRATION_REVIEW_REQUIRED",
     "FORMAL_PILOT_APPROVAL_REQUIRED", "FORMAL_BATCH_READY", "FORMAL_LABELS_INCOMPLETE",
     "ADJUDICATION_REQUIRED", "PILOT_ANALYSIS_READY", "BENCHMARK_BUILD_REVIEW_REQUIRED"}

ReadinessStatuses == {"NOT_READY", "REVIEW_REQUIRED", "READY"}

\* What the draws of a run are ranked under.
Salts == {<<"main">>, <<"double">>, <<"calib">>}
         \cup {<<use, Reasons[i]>> : use \in {"challenge", "calib"}, i \in 1..Len(Reasons)}

\* Article ids are ordered, and so are ranks (hash digests, then the id), which differ from
\* unit to unit; entities are numbered; the targets are numbers of units (an override of zero
\* counts as none); there are scenarios of prevalence (no list means the default ones), each
\* asks for at least one unit (minimum_n_for_wilson_half_width), a multiple below one raises.
ASSUME PilotAssumption ==
    /\ Absent \notin PilotStates \cup ReadinessStatuses \cup {"adjudicated"}
    /\ \A given \in Given :
          /\ Len(given.rows) \in Nat
          /\ \A i \in 1..Len(given.rows) :
                /\ given.rows[i].id \in Int
                /\ Valid(given.rows[i]) =>
                      /\ IsFiniteSet(given.rows[i].article.mentions)
                      /\ \A m \in given.rows[i].article.mentions : m.entity \in Int
          /\ \A salt \in Salts : \A i, j \in 1..Len(given.rows) :
                /\ Rank(salt, given.rows[i].id) \in Int
                /\ Rank(salt, given.rows[i].id) = Rank(salt, given.rows[j].id) =>
                      given.rows[i].id = given.rows[j].id
          /\ IsFiniteSet(given.params.scenarios) /\ given.params.scenarios # {}
          /\ \A s \in given.params.scenarios :
                s.precision \in Nat \ {0} /\ s.positive \in Nat /\ s.negative \in Nat
          /\ given.params.multiple \in Nat \ {0}
          /\ given.params.override \in (Nat \ {0}) \cup {Absent}
          /\ given.params.challenge \in Nat /\ given.params.calibration \in Nat
          /\ given.params.doubled \in Nat

VARIABLES
    rows,       \* the corpus file
    params,     \* what the configuration gives
    pc,
    state,      \* pilot_state.json
    files,      \* the artifacts written
    records,    \* the imported articles
    clusters,   \* their clusters of exact duplicates
    frame,      \* the sampling frame
    samples,    \* the samples drawn from it
    readiness   \* the status in pilot_readiness_decision.json

inputs == <<rows, params>>
drawn == <<records, clusters, frame, samples>>
pilotVars == <<inputs, pc, state, files, drawn, readiness>>

NoSamples == [representative |-> {}, sizes |-> << >>, challenge |-> {},
              calibration |-> {}, pairs |-> {}, formal |-> << >>, doubled |-> {}]

PilotInit ==
    /\ \E given \in Given : rows = given.rows /\ params = given.params
    /\ pc = "start" /\ state = Absent /\ files = {} /\ readiness = Absent
    /\ records = << >> /\ clusters = {} /\ frame = << >> /\ samples = NoSamples

-----------------------------------------------------------------------------
Write(from, to, new) ==
    /\ pc = from /\ pc' = to
    /\ files' = files \cup new
    /\ UNCHANGED <<inputs, state, drawn, readiness>>

\* _emit_state: a state it does not know raises.
Emit(from, to, s) ==
    /\ pc = from /\ pc' = to
    /\ s \in PilotStates
    /\ state' = s
    /\ UNCHANGED <<inputs, files, drawn, readiness>>

\* build_readiness_decision: only the typed approval makes a run READY.
Decision(available, complete) ==
    IF params.approved THEN "READY"
    ELSE IF available /\ ~complete THEN "NOT_READY" ELSE "REVIEW_REQUIRED"

Decide(from, to, status, new) ==
    /\ pc = from /\ pc' = to
    /\ readiness' = status
    /\ files' = files \cup {"readiness"} \cup new
    /\ UNCHANGED <<inputs, state, drawn>>

\* No corpus: the state, then a decision for which nothing is available.
MissingCorpus == ~params.corpus /\ Emit("start", "no corpus", "BLOCKED_MISSING_CORPUS")
DecideMissingCorpus == Decide("no corpus", "done", Decision(FALSE, FALSE), {"limitations"})

MissingProvenance ==
    /\ params.corpus /\ ~params.provenance
    /\ Emit("start", "no provenance", "BLOCKED_RIGHTS_VALIDATION")
SummarizeMissingProvenance == Write("no provenance", "done", {"summary"})

Preflight ==
    /\ params.corpus /\ params.provenance
    /\ Emit("start", "import", "CORPUS_PREFLIGHT")

Import ==
    /\ pc = "import" /\ pc' = "cluster"
    /\ records' = Imported(rows)
    /\ files' = files \cup {"records", "rejections", "provenance"}
    /\ UNCHANGED <<inputs, state, clusters, frame, samples, readiness>>

Cluster ==
    /\ pc = "cluster" /\ pc' = "eligibility"
    /\ clusters' = ExactClusters(records)
    /\ files' = files \cup {"clusters", "decisions", "exclusions"}
    /\ UNCHANGED <<inputs, state, records, frame, samples, readiness>>

Counts == FlowCounts(records, clusters, Rejections(rows))

EmptyFrame ==
    /\ Counts.frameUnits = 0
    /\ Emit("eligibility", "empty frame", "BLOCKED_RIGHTS_VALIDATION")
DecideEmptyFrame ==
    Decide("empty frame", "done", Decision(FALSE, FALSE), {"summary", "limitations"})

BuildFrame ==
    /\ pc = "eligibility" /\ pc' = "sample"
    /\ Counts.frameUnits # 0
    /\ frame' = Frame(records, clusters, NearPairs(records, clusters, params.distance))
    /\ files' = files \cup {"frame"}
    /\ UNCHANGED <<inputs, state, records, clusters, samples, readiness>>

-----------------------------------------------------------------------------
(* plan_from_config and the targets *)

\* What the plan requires of a population of n: a scenario of prevalence asks
\* for the corrected size of its interval and for enough units of each class,
\* to which the finite population correction does not apply.
Corrected(size, n) == (n * size + (n + size - 2)) \div (n + size - 1)

\* As if the correction applied to the classes as well.
ScenarioNeedsCorrected(s, n) ==
    LET least == IF s.positive > s.negative THEN s.positive ELSE s.negative
    IN  Corrected(IF s.precision > least THEN s.precision ELSE least, n)

ScenarioNeeds(s, n) ==
    LET corrected == Corrected(s.precision, n)
        least == IF s.positive > s.negative THEN s.positive ELSE s.negative
    IN  IF corrected > least THEN corrected ELSE least
Required(n) ==
    CHOOSE size \in {ScenarioNeeds(s, n) : s \in params.scenarios} :
        \A s \in params.scenarios : ScenarioNeeds(s, n) <= size

Underfilled(n) == Required(n) > n

\* A tenth is added for unusable records, the sum rounded up to a multiple,
\* and the draw capped at n.
Operational(n) ==
    LET reserved == (10 * Required(n) + 8) \div 9
        multiple == params.multiple
    IN  AtMost(multiple * ((reserved + multiple - 1) \div multiple), n)

\* An override of the sample size wins, then the whole frame if the plan is
\* underfilled, then the plan.
RepresentativeTarget ==
    LET n == Cardinality(DOMAIN frame) IN
    IF params.override # Absent THEN params.override
    ELSE IF Underfilled(n) THEN n ELSE Operational(n)

\* The samples of the run; the formal batch is drawn later.
Sample ==
    /\ pc = "sample" /\ pc' = "sampled"
    /\ LET drawnUnits == Representative(frame, RepresentativeTarget)
           pairs == PairFrame(records, clusters, params.distance, params.cap)
       IN  samples' = [samples EXCEPT
              !.representative = drawnUnits.units,
              !.sizes = drawnUnits.sizes,
              !.challenge = Challenge(frame, params.challenge),
              !.calibration = Calibration(frame, params.calibration),
              !.pairs = ReviewPairs(pairs, params.candidates, params.below)]
    /\ files' = files \cup {"plan", "representative", "challenge", "overlap", "pairs"}
    /\ UNCHANGED <<inputs, state, records, clusters, frame, readiness>>

PlanReady == Emit("sampled", "summary", "SAMPLE_PLAN_READY")
Summarize == Write("summary", "calibration", {"summary"})

-----------------------------------------------------------------------------
(* Calibration *)

\* As if the batch were announced before it is there.
WriteCalibrationLater == Write("calibration", "calibrated", {})

WriteCalibration == Write("calibration", "calibrated", {"calibration batch"})
CalibrationReady == Emit("calibrated", "labels", "CALIBRATION_BATCH_READY")

CalibrationLabels ==
    /\ params.calibrationLabels
    /\ Write("labels", "review", {"calibration labels", "calibration decision"})

\* Supplied adjudications keep the state of the batch.
CalibrationReview ==
    /\ ~params.calibrationAdjudicated
    /\ Emit("review", "gate", "CALIBRATION_REVIEW_REQUIRED")
CalibrationAdjudicated ==
    /\ params.calibrationAdjudicated
    /\ Write("review", "gate", {})

CalibrationIncomplete ==
    /\ ~params.calibrationLabels
    /\ Emit("labels", "blocked", "CALIBRATION_LABELS_INCOMPLETE")
DecideCalibration == Write("blocked", "gate", {"calibration decision"})

-----------------------------------------------------------------------------
(* The gate of the formal pilot *)

ApprovalRequired ==
    /\ ~params.formalPilot
    /\ Emit("gate", "unapproved", "FORMAL_PILOT_APPROVAL_REQUIRED")
DecideUnapproved ==
    Decide("unapproved", "done", Decision(TRUE, samples.representative # {}),
           {"report", "limitations", "config"})

\* The formal batch: the units of both samples, whether or not they were
\* used to calibrate the guidelines.
FormalBatch ==
    /\ pc = "gate" /\ pc' = "formal"
    /\ params.formalPilot
    /\ LET units == Merged(samples.representative, samples.challenge) IN
       samples' = [samples EXCEPT !.formal = units,
                                  !.doubled = DoublyAnnotated(units, params.doubled)]
    /\ files' = files \cup {"formal batch"}
    /\ UNCHANGED <<inputs, state, records, clusters, frame, readiness>>

FormalReady == Emit("formal", "formal labels", "FORMAL_BATCH_READY")

FormalIncomplete ==
    /\ params.formalLabels = Absent
    /\ Emit("formal labels", "duplicates", "FORMAL_LABELS_INCOMPLETE")

FormalLabels ==
    /\ params.formalLabels # Absent
    /\ Write("formal labels", "adjudication", {"formal labels", "agreement"})

\* The adjudicated labels are missing, an empty file, or labels.
AdjudicationRequired ==
    /\ params.formalLabels = "raw"
    /\ Emit("adjudication", "duplicates", "ADJUDICATION_REQUIRED")
LoadAdjudicated ==
    /\ params.formalLabels \in {"empty", "adjudicated"}
    /\ Write("adjudication", "duplicates", {"adjudicated labels"})

WriteBaselines == Write("duplicates", "analysis", {"predictions"})

Adjudicated == params.formalLabels = "adjudicated"

WriteMetrics == Adjudicated /\ Write("analysis", "analyzed", {"metrics", "prevalence"})
AnalysisReady == Emit("analyzed", "reconcile", "PILOT_ANALYSIS_READY")
NoAnalysis == ~Adjudicated /\ Write("analysis", "reconcile", {})

-----------------------------------------------------------------------------
(* reconcile_pilot_counts *)

StratumTotal ==
    LET total[done \in SUBSET DOMAIN samples.sizes] ==
            IF done = {} THEN 0
            ELSE LET h == CHOOSE x \in done : TRUE IN samples.sizes[h] + total[done \ {h}]
    IN  total[DOMAIN samples.sizes]

Reconciled ==
    /\ Counts.input = Counts.accepted + Counts.rejected
    /\ Counts.accepted = Counts.rightsEligible + Counts.rightsIneligible
    /\ Counts.rightsEligible = Counts.corpusEligible + Counts.excluded
    /\ Counts.frameUnits = Cardinality(DOMAIN frame)
    /\ Cardinality(samples.representative) = StratumTotal

Reconcile ==
    /\ pc = "reconcile" /\ pc' = "decide"
    /\ files' = files \cup {"reconciliation"}
    /\ state' = IF Reconciled THEN state ELSE "BENCHMARK_BUILD_REVIEW_REQUIRED"
    /\ UNCHANGED <<inputs, drawn, readiness>>

FinalDecision == Decision(TRUE, Counts.corpusEligible > 0 /\ samples.representative # {})

\* Labels alone do not make a run ready: the state goes back to a review.
ReviewRequired ==
    /\ FinalDecision # "READY" /\ Adjudicated /\ Reconciled
    /\ Emit("decide", "publish", "BENCHMARK_BUILD_REVIEW_REQUIRED")
NoReview ==
    /\ ~(FinalDecision # "READY" /\ Adjudicated /\ Reconciled)
    /\ Write("decide", "publish", {})

Publish ==
    Decide("publish", "done", FinalDecision, {"report", "limitations", "config", "metadata"})

\* Any phase may raise.
Raise == pc \notin {"done", "raised"} /\ Write(pc, "raised", {})

PilotNext ==
    \/ MissingCorpus \/ DecideMissingCorpus \/ MissingProvenance \/ SummarizeMissingProvenance
    \/ Preflight \/ Import \/ Cluster \/ EmptyFrame \/ DecideEmptyFrame \/ BuildFrame
    \/ Sample \/ PlanReady \/ Summarize \/ WriteCalibration \/ CalibrationReady
    \/ CalibrationLabels \/ CalibrationReview \/ CalibrationAdjudicated
    \/ CalibrationIncomplete \/ DecideCalibration \/ ApprovalRequired \/ DecideUnapproved
    \/ FormalBatch \/ FormalReady \/ FormalIncomplete \/ FormalLabels
    \/ AdjudicationRequired \/ LoadAdjudicated \/ WriteBaselines \/ WriteMetrics
    \/ AnalysisReady \/ NoAnalysis \/ Reconcile \/ ReviewRequired \/ NoReview
    \/ Publish \/ Raise

PilotSpec == PilotInit /\ [][PilotNext]_pilotVars

-----------------------------------------------------------------------------
(* Properties *)

Evidence(a, b) ==
    \/ SameRecord(records[a], records[b])
    \/ SameUrl(records[a], records[b])
    \/ SameBody(records[a], records[b])

\* The union-find of exact duplicates returns the components of the graph of
\* evidence: every article is in one cluster, no evidence joins two clusters,
\* and no part of a cluster is without evidence to the rest of it.  A copy in
\* a second cluster would be sampled twice.
ClustersAreComponents ==
    clusters # {} =>
        /\ UNION clusters = DOMAIN records
        /\ \A c, d \in clusters : c # d =>
              c \cap d = {} /\ ~\E a \in c, b \in d : Evidence(a, b)
        /\ \A c \in clusters : \A part \in (SUBSET c) \ {{}, c} :
              \E a \in part, b \in c \ part : Evidence(a, b)

Size(set) == Cardinality(set)
Target(n, available) == AtMost(n, Size(available))

\* The samples are as large as asked for, or as what there is, whatever the
\* overlap of strata, reasons and roles: the representative sample has a unit
\* of every stratum it can have and as many of each as the bookkeeping of its
\* weights says, the challenge sample has every reason it can have, the units
\* annotated twice are not fewer because a unit has both roles, and every unit
\* is the usable canonical article of a cluster of its own.
SamplesSound ==
    "representative" \in files =>
        /\ Size(samples.representative) = Target(RepresentativeTarget, DOMAIN frame)
        /\ \A h \in DOMAIN samples.sizes :
              samples.sizes[h] = Size(samples.representative \cap InStratum(frame, h))
        /\ RepresentativeTarget >= Size(Strata(frame)) =>
              \A h \in Strata(frame) : samples.representative \cap InStratum(frame, h) # {}
        /\ Size(samples.challenge) = Target(params.challenge, DOMAIN frame)
        /\ LET reasons == UNION {ReasonsOf(frame, u) : u \in DOMAIN frame} IN
           params.challenge >= Size(reasons) =>
              \A r \in reasons : \E u \in samples.challenge : r \in ReasonsOf(frame, u)
        /\ Size(samples.calibration) = Target(params.calibration, DOMAIN frame)
        /\ \A u \in samples.representative \cup samples.challenge \cup samples.calibration :
              u \in CleanRights(records) /\ u = Canonical(ClusterOf(clusters, u))
        /\ \A pair \in samples.pairs : ~Evidence(pair[1], pair[2])
        /\ "formal batch" \in files =>
              /\ DOMAIN samples.formal = samples.representative \cup samples.challenge
              /\ Size(samples.doubled) = Target(params.doubled, DOMAIN samples.formal)

\* A plan that does not say that it is underfilled has room for the classes of
\* every scenario: neither the correction for a finite population nor the
\* rounding takes a unit they need.
PlanHonest ==
    /\ "representative" \in files
    /\ params.override = Absent
    /\ ~Underfilled(Size(DOMAIN frame))
    => \A s \in params.scenarios :
          Size(samples.representative) >= s.positive /\ Size(samples.representative) >= s.negative

\* What each state announces.
Announced(s) ==
    CASE s = "SAMPLE_PLAN_READY" -> {"plan", "representative", "challenge", "pairs"}
      [] s = "CALIBRATION_BATCH_READY" -> {"representative", "calibration batch"}
      [] s = "CALIBRATION_REVIEW_REQUIRED" -> {"calibration batch", "calibration labels"}
      [] s = "FORMAL_BATCH_READY" -> {"representative", "challenge", "formal batch"}
      [] s = "PILOT_ANALYSIS_READY" -> {"adjudicated labels", "predictions", "metrics"}
      [] s = "BENCHMARK_BUILD_REVIEW_REQUIRED" -> {"reconciliation"}
      [] OTHER -> {}

\* Whenever the task stops, by itself or because a phase raised, what its
\* published state announces has been written, and the decision is READY only
\* with the typed approval of a person.
StateBackedByFiles ==
    /\ Announced(state) \subseteq files
    /\ readiness = "READY" => params.approved
    /\ "metadata" \in files => readiness # Absent /\ state # Absent

=============================================================================

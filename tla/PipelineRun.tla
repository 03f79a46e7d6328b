---------------------------- MODULE PipelineRun ----------------------------
(***************************************************************************)
(* The execution loop of core/pipeline (runner.py with the default hooks   *)
(* of hooks.py) and the run directories of core/artifacts.py.  Every run   *)
(* is a process; runs whose names have one slug share a runs root, where   *)
(* each allocates a directory <group>/<run id> by looking for an unused    *)
(* group name and creates it later.  A task may return, raise, or be       *)
(* interrupted; only exceptions are reported to the hooks.                 *)
(***************************************************************************)
EXTENDS Integers, Sequences, FiniteSets

CONSTANTS
    Runs,           \* runs of pipelines whose names have the same slug
    RunIds,         \* run ids: fixed by the caller, or fresh
    Tasks,          \* task ids that occur in plans
    Registered,     \* those the registry resolves, aliases included
    Plans,          \* the plans run: non-empty sequences of task ids
    NoRun, NoDir, NoMetadata,
    MaxInterrupts   \* bound on Ctrl-C, SystemExit and hooks that cannot write

\* <group>/<run id>; group 1 is the slug, group n is slug_n.
Dir == [group : Nat, id : RunIds]

ASSUME PlansAssumption ==
    /\ Registered \subseteq Tasks
    /\ Plans \subseteq Seq(Tasks) \ {<<>>}
    /\ NoRun \notin Runs /\ NoDir \notin Dir
    /\ MaxInterrupts \in Nat

VARIABLES
    metadata,       \* run_metadata.json of each existing run directory
    config,         \* the run whose config_resolved.yaml a directory holds
    traceback,      \* directories with a traceback.txt
    pc,             \* where each run is in run_pipeline
    plan, runId,    \* its plan and its run id
    runDir,         \* the directory it has computed
    ctx,            \* the hooks' keys of ctx.state
    result,         \* how it ended
    handled,        \* steps whose task has returned, in order (history)
    culprit,        \* the step whose exception is re-raised, 0 if none (history)
    racing,         \* another run allocated between its allocation and its mkdir (history)
    interrupts      \* interrupts and failed writes so far

diskVars == <<metadata, config, traceback>>
localVars == <<pc, plan, runId, runDir, ctx, result>>
historyVars == <<handled, culprit, racing, interrupts>>
vars == <<diskVars, localVars, historyVars>>

Pcs == {"start", "allocate", "create", "config", "beforeRun", "step", "task", "onError",
        "afterStep", "afterRun", "ended"}

\* Inside the try block of _execute, whose finally clause runs the after_run hooks.
TryPcs == {"step", "task", "onError", "afterStep"}

Results == {"none", "returned", "taskError", "interrupted", "hookError"}

Existing == DOMAIN config

HookState ==
    [index : Nat,           \* CURRENT_STEP_INDEX
     timing : BOOLEAN,      \* TIMING_START is set
     executed : Seq(Nat),   \* STEPS_EXECUTED
     status : {"unset", "completed", "failed"},     \* FINAL_STATUS
     failed : Nat]          \* FAILED_STEP, 0 for None

Metadata ==
    [run : Runs, executed : Seq(Nat), status : {"completed", "failed"}, failed : Nat]

Init ==
    /\ metadata = [d \in {} |-> NoMetadata]
    /\ config = [d \in {} |-> NoRun]
    /\ traceback = {}
    /\ pc = [r \in Runs |-> "start"]
    /\ plan \in [Runs -> Plans]
    /\ runId \in [Runs -> RunIds]
    /\ runDir = [r \in Runs |-> NoDir]
    /\ ctx = [r \in Runs |-> [index |-> 0, timing |-> FALSE, executed |-> <<>>,
                              status |-> "unset", failed |-> 0]]
    /\ result = [r \in Runs |-> "none"]
    /\ handled = [r \in Runs |-> <<>>]
    /\ culprit = [r \in Runs |-> 0]
    /\ racing = {}
    /\ interrupts = 0

Goto(r, from, to) == pc[r] = from /\ pc' = [pc EXCEPT ![r] = to]
SetCtx(r, new) == ctx' = [ctx EXCEPT ![r] = new]

\* parse_plan has accepted the config; a config it rejects leaves no trace.
Start(r) ==
    /\ Goto(r, "start", "allocate")
    /\ UNCHANGED <<diskVars, plan, runId, runDir, ctx, result, historyVars>>

UsedGroups == {d.group : d \in Existing}

\* allocate_group_slug: the first group name that does not exist.
FreeGroup ==
    CHOOSE n \in 1..Cardinality(UsedGroups) + 1 :
        /\ n \notin UsedGroups
        /\ \A k \in 1..n - 1 : k \in UsedGroups

\* Runs that have computed a directory they have not created yet, when r computes its own.
Racing(r) ==
    LET others == {q \in Runs \ {r} : pc[q] = "create"}
    IN  racing' = racing \cup others \cup (IF others = {} THEN {} ELSE {r})

\* A bug: the slug itself is always taken for free.
AllocateSlug(r) ==
    /\ Goto(r, "allocate", "create")
    /\ runDir' = [runDir EXCEPT ![r] = [group |-> 1, id |-> runId[r]]]
    /\ Racing(r)
    /\ UNCHANGED <<diskVars, plan, runId, ctx, result, handled, culprit, interrupts>>

\* allocate_run_dir computes the directory without creating it.
Allocate(r) ==
    /\ Goto(r, "allocate", "create")
    /\ runDir' = [runDir EXCEPT ![r] = [group |-> FreeGroup, id |-> runId[r]]]
    /\ Racing(r)
    /\ UNCHANGED <<diskVars, plan, runId, ctx, result, handled, culprit, interrupts>>

\* RunContext.__post_init__: mkdir with exist_ok.
Create(r) ==
    LET d == runDir[r]
    IN  /\ Goto(r, "create", "config")
        /\ config' = [e \in Existing \cup {d} |-> IF e \in Existing THEN config[e] ELSE NoRun]
        /\ metadata' = [e \in Existing \cup {d} |->
                            IF e \in Existing THEN metadata[e] ELSE NoMetadata]
        /\ UNCHANGED <<traceback, plan, runId, runDir, ctx, result, historyVars>>

\* write_resolved_config, before the first hook.
WriteConfig(r) ==
    /\ Goto(r, "config", "beforeRun")
    /\ config' = [config EXCEPT ![runDir[r]] = r]
    /\ UNCHANGED <<metadata, traceback, plan, runId, runDir, ctx, result, historyVars>>

\* TimingHook and MetadataHook set up their keys.
BeforeRun(r) ==
    /\ Goto(r, "beforeRun", "step")
    /\ SetCtx(r, [ctx[r] EXCEPT !.executed = <<>>, !.status = "completed", !.failed = 0])
    /\ UNCHANGED <<diskVars, plan, runId, runDir, result, historyVars>>

\* git rev-parse takes more than three seconds: TimeoutExpired is not among the
\* exceptions git_head_sha turns into None, and before_run is outside the try block.
GitTimeout(r) ==
    /\ Goto(r, "beforeRun", "ended")
    /\ result' = [result EXCEPT ![r] = "hookError"]
    /\ UNCHANGED <<diskVars, plan, runId, runDir, ctx, historyVars>>

\* The next step: its index, registry.resolve, and the before_step hooks.
BeginStep(r) ==
    LET i == ctx[r].index + 1
    IN  /\ pc[r] = "step"
        /\ i <= Len(plan[r])
        /\ \/ /\ plan[r][i] \in Registered
              /\ Goto(r, "step", "task")
              /\ SetCtx(r, [ctx[r] EXCEPT !.index = i, !.timing = TRUE])
              /\ UNCHANGED culprit
           \/ /\ plan[r][i] \notin Registered
              /\ Goto(r, "step", "onError")
              /\ SetCtx(r, [ctx[r] EXCEPT !.index = i])
              /\ culprit' = [culprit EXCEPT ![r] = i]
        /\ UNCHANGED <<diskVars, plan, runId, runDir, result, handled, racing, interrupts>>

TaskReturns(r) ==
    /\ Goto(r, "task", "afterStep")
    /\ handled' = [handled EXCEPT ![r] = Append(@, ctx[r].index)]
    /\ UNCHANGED <<diskVars, plan, runId, runDir, ctx, result, culprit, racing, interrupts>>

\* A bug: the loop breaks without telling the hooks.
TaskRaisesQuietly(r) ==
    /\ Goto(r, "task", "afterRun")
    /\ UNCHANGED <<diskVars, plan, runId, runDir, ctx, result, historyVars>>

TaskRaises(r) ==
    /\ Goto(r, "task", "onError")
    /\ culprit' = [culprit EXCEPT ![r] = ctx[r].index]
    /\ UNCHANGED <<diskVars, plan, runId, runDir, ctx, result, handled, racing, interrupts>>

Failed(r) ==
    SetCtx(r, [ctx[r] EXCEPT !.timing = FALSE, !.failed = ctx[r].index, !.status = "failed"])

\* TimingHook drops the timing, ErrorHook records the step and its traceback; break.
OnError(r) ==
    /\ Goto(r, "onError", "afterRun")
    /\ Failed(r)
    /\ traceback' = traceback \cup {runDir[r]}
    /\ UNCHANGED <<metadata, config, plan, runId, runDir, result, historyVars>>

\* traceback.txt cannot be written: the OSError replaces the task's exception.
TracebackFails(r) ==
    /\ interrupts < MaxInterrupts
    /\ interrupts' = interrupts + 1
    /\ Goto(r, "onError", "afterRun")
    /\ Failed(r)
    /\ result' = [result EXCEPT ![r] = "hookError"]
    /\ UNCHANGED <<diskVars, plan, runId, runDir, handled, culprit, racing>>

\* A bug: a step is recorded when it begins to be torn down, whether or not it is timed,
\* under the index of the step that follows.
AfterStepNextIndex(r) ==
    /\ Goto(r, "afterStep", "step")
    /\ SetCtx(r, [ctx[r] EXCEPT !.timing = FALSE, !.executed = Append(@, ctx[r].index + 1)])
    /\ UNCHANGED <<diskVars, plan, runId, runDir, result, historyVars>>

\* TimingHook.after_step appends the record of a timed step.
AfterStep(r) ==
    /\ Goto(r, "afterStep", "step")
    /\ SetCtx(r, [ctx[r] EXCEPT
                    !.timing = FALSE,
                    !.executed = IF ctx[r].timing THEN Append(@, ctx[r].index) ELSE @])
    /\ UNCHANGED <<diskVars, plan, runId, runDir, result, historyVars>>

LastStepDone(r) ==
    /\ ctx[r].index = Len(plan[r])
    /\ Goto(r, "step", "afterRun")
    /\ UNCHANGED <<diskVars, plan, runId, runDir, ctx, result, historyVars>>

\* KeyboardInterrupt or SystemExit inside the try block: on_error is not called, the
\* finally clause is.  Anywhere else the run ends there and then, and a directory it has
\* only computed is forgotten.
Interrupt(r) ==
    /\ interrupts < MaxInterrupts
    /\ interrupts' = interrupts + 1
    /\ pc[r] \notin {"start", "ended"}
    /\ pc' = [pc EXCEPT ![r] = IF @ \in TryPcs THEN "afterRun" ELSE "ended"]
    /\ result' = [result EXCEPT ![r] = "interrupted"]
    /\ runDir' = [runDir EXCEPT ![r] = IF pc[r] = "create" THEN NoDir ELSE @]
    /\ UNCHANGED <<diskVars, plan, runId, ctx, handled, culprit, racing>>

\* The exception the run ends with, if any.
Outcome(r) ==
    IF result[r] # "none" THEN result[r]
    ELSE IF culprit[r] # 0 THEN "taskError"
    ELSE "returned"

\* A bug: the hooks' state is written as it was before the failure.
AfterRunCompleted(r) ==
    /\ Goto(r, "afterRun", "ended")
    /\ metadata' = [metadata EXCEPT ![runDir[r]] =
           [run |-> r, executed |-> ctx[r].executed, status |-> "completed", failed |-> 0]]
    /\ result' = [result EXCEPT ![r] = Outcome(r)]
    /\ UNCHANGED <<config, traceback, plan, runId, runDir, ctx, historyVars>>

\* MetadataHook.after_run writes run_metadata.json; then the task's exception is raised.
AfterRun(r) ==
    /\ Goto(r, "afterRun", "ended")
    /\ metadata' = [metadata EXCEPT ![runDir[r]] =
           [run |-> r, executed |-> ctx[r].executed, status |-> ctx[r].status,
            failed |-> ctx[r].failed]]
    /\ result' = [result EXCEPT ![r] = Outcome(r)]
    /\ UNCHANGED <<config, traceback, plan, runId, runDir, ctx, historyVars>>

Step(r) ==
    \/ Start(r) \/ Allocate(r) \/ Create(r) \/ WriteConfig(r) \/ BeforeRun(r)
    \/ GitTimeout(r) \/ BeginStep(r) \/ TaskReturns(r) \/ TaskRaises(r) \/ OnError(r)
    \/ TracebackFails(r) \/ AfterStep(r) \/ LastStepDone(r) \/ Interrupt(r) \/ AfterRun(r)

Next == \E r \in Runs : Step(r)

Spec == Init /\ [][Next]_vars

-----------------------------------------------------------------------------

\* The shape of the run directories and of the runs.
TypeOK ==
    /\ DOMAIN metadata = DOMAIN config
    /\ \A d \in Existing :
          /\ d \in Dir
          /\ config[d] \in Runs \cup {NoRun}
          /\ metadata[d] \in Metadata \cup {NoMetadata}
    /\ traceback \subseteq Existing
    /\ pc \in [Runs -> Pcs]
    /\ plan \in [Runs -> Plans]
    /\ runId \in [Runs -> RunIds]
    /\ runDir \in [Runs -> Dir \cup {NoDir}]
    /\ ctx \in [Runs -> HookState]
    /\ result \in [Runs -> Results]
    /\ handled \in [Runs -> Seq(Nat)]
    /\ culprit \in [Runs -> Nat]
    /\ racing \subseteq Runs
    /\ interrupts \in Nat

\* Nobody else has used the run's directory (two runs with one id that raced for a group may).
Alone(r) == \A q \in Runs \ {r} : runDir[q] = runDir[r] => pc[q] = "create"

UpTo(n) == [i \in 1..n |-> i]

\* The steps of a plan run one after the other from the first, each once, and none runs
\* after one that failed.
StepsInOrder ==
    \A r \in Runs :
        /\ handled[r] = UpTo(Len(handled[r]))
        /\ culprit[r] # 0 => Len(handled[r]) = culprit[r] - 1

\* run_pipeline's docstring: a task's exception is raised only after run_metadata.json says
\* failed, names the step and lists exactly the steps before it, next to traceback.txt.
FailureReported ==
    \A r \in Runs :
        result[r] = "taskError" /\ Alone(r) =>
            /\ metadata[runDir[r]] = [run |-> r, executed |-> UpTo(culprit[r] - 1),
                                     status |-> "failed", failed |-> culprit[r]]
            /\ runDir[r] \in traceback

\* A run that returns its context has run, and recorded, every step of its plan.
SuccessIsComplete ==
    \A r \in Runs :
        result[r] = "returned" /\ Alone(r) =>
            /\ Len(handled[r]) = Len(plan[r])
            /\ metadata[runDir[r]] = [run |-> r, executed |-> UpTo(Len(plan[r])),
                                     status |-> "completed", failed |-> 0]

\* What the metadata lists has happened, all of it but at most one step, and a run that is
\* recorded as completed with steps missing was interrupted (Ctrl-C is not a failed step).
MetadataTruthful ==
    \A d \in Existing :
        metadata[d] # NoMetadata =>
            LET m == metadata[d]
                missing == Len(handled[m.run]) - Len(m.executed)
            IN  /\ m.executed = UpTo(Len(m.executed))
                /\ missing \in 0..1
                /\ m.status = "completed" /\ Len(m.executed) < Len(plan[m.run])
                       => result[m.run] = "interrupted"

\* Runs that do not compute their directories at the same time never share a group.
GroupsKeptApart ==
    \A r, q \in Runs :
        r # q /\ runDir[r] # NoDir /\ runDir[q] # NoDir /\ ~({r, q} \subseteq racing)
            => runDir[r].group # runDir[q].group

\* "A run directory ... always contains ... run_metadata.json" (core/artifacts.py).
MetadataAlwaysWritten ==
    \A r \in Runs :
        pc[r] = "ended" /\ runDir[r] \in Existing => metadata[runDir[r]] # NoMetadata
=============================================================================

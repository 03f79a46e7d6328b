--------------------------- MODULE MCPipelineRun ---------------------------
(* Two runs of pipelines with one slug, and the plans in which a registered  *)
(* and an unknown task come first, last and alone.                           *)
EXTENDS PipelineRun, TLC

CONSTANTS r1, r2, idA, idB, good, unknown

MCRuns == {r1, r2}
OneRun == {r1}
MCRunIds == {idA, idB}
MCTasks == {good, unknown}
MCRegistered == {good}
MCPlans == {<<good>>, <<unknown>>, <<good, good>>, <<good, unknown>>, <<unknown, good>>}
MCSymmetry == Permutations(MCRuns) \cup Permutations(MCRunIds)
=============================================================================

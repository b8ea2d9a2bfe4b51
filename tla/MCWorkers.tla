------------------------------ MODULE MCWorkers ------------------------------
(***************************************************************************)
(* One run for three small components that have no state in common, each   *)
(* with goroutines that come and go: the callback queue, the concurrent    *)
(* batcher and the tool loop.  An execution is one of one component,       *)
(* chosen at the start, while the others stay as they were created: the    *)
(* states add up.                                                          *)
(***************************************************************************)
EXTENDS CallbackQueue, ConcurrentBatcher, RunTools

VARIABLE which

suiteVars == <<which, vars, batchVars, toolsVars>>

\* Components not under test are created one way only.
SuiteInit ==
    /\ which \in {"callbacks", "batch", "tools"}
    /\ Init /\ BatchInit /\ ToolsInit
    /\ which # "batch" => continueOnError

SuiteNext ==
    \/ which = "callbacks" /\ Next /\ UNCHANGED <<which, batchVars, toolsVars>>
    \/ which = "batch" /\ BatchNext /\ UNCHANGED <<which, vars, toolsVars>>
    \/ which = "tools" /\ ToolsNext /\ UNCHANGED <<which, vars, batchVars>>

\* The fairness of the component that runs.
SuiteFairness ==
    /\ which = "callbacks" => Fairness
    /\ which = "batch" => BatchFairness
    /\ which = "tools" => ToolsFairness

SuiteSpec == SuiteInit /\ [][SuiteNext]_suiteVars /\ SuiteFairness

-----------------------------------------------------------------------------
\* ProcessBatch returns, and so does RunTools, which leaves no goroutine behind.
WorkersEnd ==
    /\ which = "batch" => BatchReturns
    /\ which = "tools" => AllToolsEnd
=============================================================================

---------------------------- MODULE RetryBudget ----------------------------
(***************************************************************************)
(* The retry budget of Run.  The history variable failures counts the      *)
(* iterations of the loop that have failed since one last ended well: with *)
(* a batch, with a rollback, or by finding nothing to do.                  *)
(***************************************************************************)
EXTENDS IndexerProperties

VARIABLE failures

IterationFails == consecutiveErrors' = consecutiveErrors + 1
IterationEndsWell ==
  \/ NothingToDo
  \/ pc \in {"load", "commit", "rollback"} /\ pc' = "head"

CountFailures ==
  failures' = IF IterationFails THEN failures + 1
              ELSE IF IterationEndsWell \/ pc = "stopped" THEN 0
              ELSE failures

BudgetInit == Init /\ failures = 0
BudgetNext == Next /\ CountFailures
BudgetSpec == BudgetInit /\ [][BudgetNext]_<<vars, failures>>

\* The indexer never works on after maxLoopRetries failed iterations in a row,
\* whichever calls have failed in them.
GivesUpInTime == pc # "stopped" => failures < MaxLoopRetries

=============================================================================

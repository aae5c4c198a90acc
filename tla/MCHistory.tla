----------------------------- MODULE MCHistory -----------------------------
\* The instances of MCIndexer with the histories of RetryBudget and ReorgWalk, and
\* with the fairness that a signal needs to be noticed.
EXTENDS MCIndexer, RetryBudget, ReorgWalk

HistoryInit == Init /\ failures = 0 /\ moved = FALSE
HistoryNext == Next /\ CountFailures /\ FollowChain
HistorySpec ==
  /\ HistoryInit
  /\ [][HistoryNext]_<<vars, failures, moved>>
  /\ Scheduling

=============================================================================

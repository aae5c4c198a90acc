---------------------------- MODULE HeaderFetch ----------------------------
(***************************************************************************)
(* How Run fetches the headers of a batch: one goroutine per block in an   *)
(* errgroup with a limit, each with one call through the RetryTransport,   *)
(* all under the context of the group, which the first error cancels.      *)
(* Indexer abstracts all this to FetchHeader and FetchHeadersFails.        *)
(***************************************************************************)
EXTENDS RetryTransport, FiniteSets

CONSTANTS
  BatchLength,        \* to - from + 1
  HeaderConcurrency   \* HEADER_CONCURRENCY

ASSUME FetchAssumption ==
  /\ BatchLength \in Nat \ {0}
  /\ HeaderConcurrency \in Int
  /\ Requests = 1..BatchLength

VARIABLES
  started,    \* the loop has called g.Go for the blocks 1..started
  finished,   \* the goroutines that have returned
  slots,      \* the headers that have been stored
  groupErr,   \* the block whose error the group keeps, 0 if none
  result      \* what g.Wait returned

fetchVars == <<started, finished, slots, groupErr, result>>
vars == <<transportVars, ctxDone, fetchVars>>

Limit == IF HeaderConcurrency <= 0 THEN 1 ELSE HeaderConcurrency

Running == (1..started) \ finished

FetchInit ==
  /\ TransportInit
  /\ started = 0
  /\ finished = {}
  /\ slots = {}
  /\ groupErr = 0
  /\ result = "none"

\* [mutant] the limit lets one goroutine too many run
Go_OverLimit ==
  /\ started < BatchLength
  /\ Cardinality(Running) <= Limit
  /\ started' = started + 1
  /\ Start(started + 1) \/ BodyUnreadable(started + 1)
  /\ UNCHANGED <<finished, slots, groupErr, result>>

\* g.Go waits for a place, and does not ask whether the group has failed.
Go ==
  /\ started < BatchLength
  /\ Cardinality(Running) < Limit
  /\ started' = started + 1
  /\ Start(started + 1) \/ BodyUnreadable(started + 1)
  /\ UNCHANGED <<finished, slots, groupErr, result>>

Call(r) ==
  /\ r \in Running
  /\ TransportStep(r)
  /\ UNCHANGED fetchVars

\* The call returns a header and the goroutine stores it.
Succeed(r) ==
  /\ r \in Running
  /\ outcome[r] = "ok"
  /\ finished' = finished \cup {r}
  /\ slots' = slots \cup {r}
  /\ UNCHANGED <<transportVars, ctxDone, started, groupErr, result>>

\* [mutant] the goroutine returns nil for a call that failed
Fail_Swallowed(r) ==
  /\ r \in Running
  /\ phase[r] = "done"
  /\ finished' = finished \cup {r}
  /\ UNCHANGED <<transportVars, ctxDone, started, slots, groupErr, result>>

\* [mutant] the group has no context that its first error cancels
Fail_NoCancel(r) ==
  /\ r \in Running
  /\ phase[r] = "done"
  /\ finished' = finished \cup {r}
  /\ groupErr' = IF groupErr = 0 THEN r ELSE groupErr
  /\ UNCHANGED <<transportVars, ctxDone, started, slots, result>>

\* The call fails: an error of the transport, an HTTP status that is no
\* success, or an answer without the block.  The group keeps the first error.
Fail(r) ==
  /\ r \in Running
  /\ phase[r] = "done"
  /\ finished' = finished \cup {r}
  /\ IF groupErr = 0 THEN groupErr' = r /\ ctxDone' = TRUE
                     ELSE UNCHANGED <<groupErr, ctxDone>>
  /\ UNCHANGED <<transportVars, started, slots, result>>

\* [mutant] the group is not waited for once it has failed
Wait_OnFirstError ==
  /\ result = "none"
  /\ groupErr # 0 \/ (started = BatchLength /\ Running = {})
  /\ result' = IF groupErr = 0 THEN "headers" ELSE "error"
  /\ UNCHANGED <<transportVars, ctxDone, started, finished, slots, groupErr>>

\* g.Wait waits for every goroutine; it also cancels the context.
Wait ==
  /\ result = "none"
  /\ started = BatchLength
  /\ Running = {}
  /\ result' = IF groupErr = 0 THEN "headers" ELSE "error"
  /\ ctxDone' = TRUE
  /\ UNCHANGED <<transportVars, started, finished, slots, groupErr>>

\* The process is told to stop: ctx, the parent of the group's context.
ParentCancelled ==
  /\ result = "none"
  /\ ~ ctxDone
  /\ ctxDone' = TRUE
  /\ UNCHANGED <<transportVars, fetchVars>>

FetchNext ==
  \/ Go \/ Wait \/ ParentCancelled
  \/ \E r \in Requests : Call(r) \/ Succeed(r) \/ Fail(r)

FetchSpec == FetchInit /\ [][FetchNext]_vars

(***************************************************************************)
(* Fairness: goroutines run and timers fire.  Nothing makes the node       *)
(* answer: the HTTP client has no timeout, so a call may hang until its    *)
(* context is done.                                                        *)
(***************************************************************************)
Runs(r) == (BackoffEnds(r) \/ BackoffCut(r)) /\ UNCHANGED fetchVars
Aborts(r) == ctxDone /\ NoResponse(r) /\ UNCHANGED fetchVars
FairFetchSpec ==
  /\ FetchSpec
  /\ WF_vars(Go) /\ WF_vars(Wait)
  /\ \A r \in Requests : WF_vars(Runs(r)) /\ WF_vars(Aborts(r)) /\ WF_vars(Succeed(r) \/ Fail(r))

\* At most HEADER_CONCURRENCY calls are under way at once, and one if that is
\* not positive.
WithinLimit == Cardinality({r \in Requests : phase[r] \in {"send", "backoff"}}) <= Limit

\* While the group has not failed, a block is fetched with fewer headers below
\* it missing than goroutines may run: the window that Indexer's Started is, in
\* which FetchHeader may store a header and FetchHeadersFails may miss one.
FetchedInOrder ==
  groupErr = 0 =>
    \A n \in Running : Cardinality({m \in 1..(n - 1) : m \notin slots}) < Limit

\* When Wait reports no error every slot of headers has been filled, so none
\* of the hashes written to indexed_blocks is the zero value.
AllSlotsFilled == result = "headers" => slots = Requests

\* When Wait returns, no goroutine is left that could still write to a slot.
NothingLeftRunning ==
  result # "none" => \A r \in Requests : phase[r] = "done" /\ r \in finished

\* Once the group has failed or the process is told to stop, Run gets its
\* answer, even if the node never answers any call again.
CancelEndsGroup == ctxDone \/ groupErr # 0 ~> result # "none"

=============================================================================

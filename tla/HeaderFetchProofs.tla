------------------------- MODULE HeaderFetchProofs -------------------------
(***************************************************************************)
(* Proofs about the header fetches, for every length of the batch, limit   *)
(* and number of retries.                                                  *)
(***************************************************************************)
EXTENDS HeaderFetch, FiniteSetTheorems, TLAPS

\* The group keeps the first error; until there is one, what has finished has
\* filled its slot; it is waited for until nothing runs.
FetchInv ==
  /\ started \in 0..BatchLength
  /\ finished \subseteq 1..started
  /\ slots \subseteq finished
  /\ groupErr \in Nat
  /\ groupErr = 0 => finished \subseteq slots
  /\ result # "none" => started = BatchLength /\ Running = {}
  /\ result = "headers" => groupErr = 0

LEMMA FetchInvHolds == FetchSpec => []FetchInv
<1>1. FetchInit => FetchInv
  BY FetchAssumption DEF FetchInit, FetchInv
<1>2. FetchInv /\ [FetchNext]_vars => FetchInv'
  <2> SUFFICES ASSUME FetchInv, [FetchNext]_vars PROVE FetchInv'
    OBVIOUS
  <2> USE DEF FetchInv, Running
  <2>1. CASE Go
    BY <2>1, FetchAssumption DEF Go
  <2>2. CASE Wait
    BY <2>2 DEF Wait
  <2>3. CASE ParentCancelled
    BY <2>3 DEF ParentCancelled, fetchVars
  <2>4. ASSUME NEW r \in Requests, Call(r) PROVE FetchInv'
    BY <2>4 DEF Call, fetchVars
  <2>5. ASSUME NEW r \in Requests, Succeed(r) PROVE FetchInv'
    BY <2>5, FetchAssumption DEF Succeed
  <2>6. ASSUME NEW r \in Requests, Fail(r) PROVE FetchInv'
    BY <2>6, FetchAssumption DEF Fail
  <2>7. CASE UNCHANGED vars
    BY <2>7 DEF vars, fetchVars
  <2> QED BY <2>1, <2>2, <2>3, <2>4, <2>5, <2>6, <2>7 DEF FetchNext
<1> QED BY <1>1, <1>2, PTL DEF FetchSpec

\* When Wait reports no error, every slot of headers has been filled, however
\* many goroutines ran at once and in whatever order they returned.
THEOREM HeadersAreComplete == FetchSpec => []AllSlotsFilled
<1>1. FetchInv => AllSlotsFilled
  BY FetchAssumption DEF FetchInv, AllSlotsFilled, Running
<1> QED BY <1>1, FetchInvHolds, PTL

\* What a call has returned is there exactly when it is over; a body is unread
\* from the start of an attempt, or of the pause before it, to its end.
TransportInv ==
  /\ \A r \in Requests : outcome[r] = "none" <=> phase[r] # "done"
  /\ \A r \in Requests : phase[r] \in {"idle", "send"} => body[r] = "unread"
  /\ NoBodyLeaks
  /\ NotGivenUpEarly

\* A call that has come to a place where its variables fit together.
LEMMA CallArrives ==
  ASSUME TransportTypeOK, TransportInv, NEW r \in Requests,
         NEW p \in Phases, NEW a \in 0..MaxRetries, NEW b \in {"unread", "read"},
         NEW w \in SUBSET (0..MaxRetries), NEW o \in Outcomes,
         phase' = [phase EXCEPT ![r] = p], attempt' = [attempt EXCEPT ![r] = a],
         body' = [body EXCEPT ![r] = b], open' = [open EXCEPT ![r] = w],
         outcome' = [outcome EXCEPT ![r] = o], UNCHANGED ctxDone,
         o = "none" <=> p # "done",
         p \in {"idle", "send"} => b = "unread",
         w = (IF o \in Responses THEN {a} ELSE {}),
         o \in {"retryable", "noresponse"} => a = MaxRetries
  PROVE  TransportTypeOK' /\ TransportInv'
<1> USE DEF TransportTypeOK, TransportInv
<1>1. TransportTypeOK'
  OBVIOUS
<1>2. NoBodyLeaks'
  BY DEF NoBodyLeaks
<1>3. NotGivenUpEarly'
  BY DEF NotGivenUpEarly
<1> QED BY <1>1, <1>2, <1>3

LEMMA CallKeeps ==
  ASSUME TransportTypeOK, TransportInv, NEW r \in Requests,
         Start(r) \/ BodyUnreadable(r) \/ TransportStep(r)
  PROVE  TransportTypeOK' /\ TransportInv'
<1> DEFINE Moves(p, a, b, w, o) ==
      /\ phase' = [phase EXCEPT ![r] = p] /\ attempt' = [attempt EXCEPT ![r] = a]
      /\ body' = [body EXCEPT ![r] = b] /\ open' = [open EXCEPT ![r] = w]
      /\ outcome' = [outcome EXCEPT ![r] = o] /\ UNCHANGED ctxDone
<1>1. /\ attempt[r] \in 0..MaxRetries /\ {attempt[r]} \in SUBSET (0..MaxRetries)
      /\ body[r] \in {"unread", "read"}
      /\ attempt = [attempt EXCEPT ![r] = @] /\ body = [body EXCEPT ![r] = @]
      /\ open = [open EXCEPT ![r] = @] /\ outcome = [outcome EXCEPT ![r] = @]
  BY DEF TransportTypeOK
<1>2. phase[r] # "done" => outcome[r] = "none" /\ open[r] = {}
  BY DEF TransportInv, NoBodyLeaks, Responses
<1>3. phase[r] = "idle" => body[r] = "unread"
  BY DEF TransportInv
<1>4. CASE Start(r)
  <2>1. Moves("send", attempt[r], "unread", {}, "none")
    BY <1>1, <1>2, <1>3, <1>4 DEF Start
  <2> QED BY <1>1, <2>1, CallArrives DEF Phases, Outcomes, Responses
<1>5. CASE BodyUnreadable(r)
  <2>1. Moves("done", attempt[r], "read", {}, "unreadable")
    BY <1>1, <1>2, <1>5 DEF BodyUnreadable, Return
  <2> QED BY <1>1, <2>1, CallArrives DEF Phases, Outcomes, Responses
<1>6. CASE Answer(r)
  <2>1. Moves("done", attempt[r], "read", {attempt[r]}, "ok")
    BY <1>1, <1>2, <1>6 DEF Answer, Return
  <2> QED BY <1>1, <2>1, CallArrives DEF Phases, Outcomes, Responses
<1>7. CASE (RetryableAnswer(r) \/ NoResponse(r)) /\ attempt[r] < MaxRetries
  <2>1. Moves("backoff", attempt[r] + 1, "read", {}, "none")
    BY <1>1, <1>2, <1>7 DEF RetryableAnswer, NoResponse, NextAttempt
  <2>2. attempt[r] + 1 \in 0..MaxRetries
    BY <1>1, <1>7, RetryAssumption
  <2> QED BY <2>1, <2>2, CallArrives DEF Phases, Outcomes, Responses
<1>8. CASE RetryableAnswer(r) /\ ~ (attempt[r] < MaxRetries)
  <2>1. Moves("done", attempt[r], "read", {attempt[r]}, "retryable")
    BY <1>1, <1>2, <1>8 DEF RetryableAnswer, NextAttempt, Return
  <2>2. attempt[r] = MaxRetries
    BY <1>1, <1>8, RetryAssumption
  <2> QED BY <1>1, <2>1, <2>2, CallArrives DEF Phases, Outcomes, Responses
<1>9. CASE NoResponse(r) /\ ~ (attempt[r] < MaxRetries)
  <2>1. Moves("done", attempt[r], "read", {}, "noresponse")
    BY <1>1, <1>2, <1>9 DEF NoResponse, NextAttempt, Return
  <2>2. attempt[r] = MaxRetries
    BY <1>1, <1>9, RetryAssumption
  <2> QED BY <1>1, <2>1, <2>2, CallArrives DEF Phases, Outcomes, Responses
<1>10. CASE BackoffEnds(r)
  <2>1. Moves("send", attempt[r], "unread", {}, "none")
    BY <1>1, <1>2, <1>10 DEF BackoffEnds
  <2> QED BY <1>1, <2>1, CallArrives DEF Phases, Outcomes, Responses
<1>11. CASE BackoffCut(r)
  <2>1. Moves("done", attempt[r], body[r], {}, "canceled")
    BY <1>1, <1>2, <1>11 DEF BackoffCut, Return
  <2> QED BY <1>1, <2>1, CallArrives DEF Phases, Outcomes, Responses
<1> QED BY <1>4, <1>5, <1>6, <1>7, <1>8, <1>9, <1>10, <1>11 DEF TransportStep

\* Nothing but a call changes what the calls are about.
LEMMA OthersKeep ==
  ASSUME TransportTypeOK, TransportInv, UNCHANGED transportVars, ctxDone' \in BOOLEAN
  PROVE  TransportTypeOK' /\ TransportInv'
BY DEF TransportTypeOK, TransportInv, NoBodyLeaks, NotGivenUpEarly, transportVars

\* A call has begun when its goroutine has, and is over before its goroutine.
GroupInv ==
  /\ \A r \in Requests : phase[r] = "idle" <=> started < r
  /\ \A r \in finished : phase[r] = "done"
  /\ Cardinality(Running) <= Limit

LEMMA LimitIsPositive == Limit \in Nat /\ 1 <= Limit
BY FetchAssumption DEF Limit

LEMMA RunningIsFinite ==
  ASSUME FetchInv PROVE IsFiniteSet(Running) /\ Cardinality(Running) \in Nat
<1>1. IsFiniteSet(1..started)
  BY FS_Interval DEF FetchInv
<1>2. IsFiniteSet(Running)
  BY <1>1, FS_Subset DEF Running
<1> QED BY <1>2, FS_CardinalityType

LEMMA GroupInvInit == FetchInit => GroupInv
<1> SUFFICES ASSUME FetchInit PROVE GroupInv
  OBVIOUS
<1>1. Running = {}
  BY DEF FetchInit, Running
<1> QED
  BY <1>1, FS_EmptySet, LimitIsPositive, FetchAssumption DEF FetchInit, TransportInit, GroupInv

LEMMA GroupInvStep ==
  ASSUME FetchInv, TransportTypeOK, TransportInv, GroupInv, [FetchNext]_vars
  PROVE  GroupInv'
<1> USE DEF GroupInv
<1>1. CASE Go
  <2>1. PICK r \in Requests : r = started + 1
    BY <1>1, FetchAssumption DEF Go, FetchInv
  <2>2. Running' = Running \cup {r}
    BY <1>1, <2>1 DEF Go, Running, FetchInv
  <2>3. Cardinality(Running') <= Limit
    <3>1. Cardinality(Running \cup {r}) =
            IF r \in Running THEN Cardinality(Running) ELSE Cardinality(Running) + 1
      BY RunningIsFinite, FS_AddElement, Zenon
    <3>2. Cardinality(Running) \in Nat
      BY RunningIsFinite
    <3>3. Cardinality(Running) < Limit
      BY <1>1 DEF Go
    <3> QED BY <2>2, <3>1, <3>2, <3>3, LimitIsPositive
  <2>4. started' = r /\ r \notin finished /\ finished' = finished
    BY <1>1, <2>1 DEF Go, FetchInv
  <2>5. CASE Start(r)
    BY <2>1, <2>3, <2>4, <2>5, FetchAssumption DEF Start, TransportTypeOK, FetchInv, Limit
  <2>6. CASE BodyUnreadable(r)
    BY <2>1, <2>3, <2>4, <2>6, FetchAssumption
    DEF BodyUnreadable, Return, TransportTypeOK, FetchInv, Limit
  <2> QED BY <1>1, <2>1, <2>5, <2>6 DEF Go
<1>2. ASSUME NEW r \in Requests, Call(r) PROVE GroupInv'
  <2>1. phase[r] \in {"send", "backoff"} /\ phase' \in [Requests -> Phases]
        /\ phase'[r] # "idle" /\ \A q \in Requests \ {r} : phase'[q] = phase[q]
    BY <1>2 DEF Call, TransportStep, Answer, RetryableAnswer, NoResponse, NextAttempt,
                BackoffEnds, BackoffCut, Return, TransportTypeOK, Phases
  <2>2. r \notin finished /\ finished \subseteq Requests
    BY <1>2, <2>1, FetchAssumption DEF Call, FetchInv, Running
  <2> QED BY <1>2, <2>1, <2>2 DEF Call, fetchVars, Running, Limit
<1>3. ASSUME NEW r \in Requests, Succeed(r) \/ Fail(r) PROVE GroupInv'
  <2>1. phase[r] = "done" /\ phase' = phase /\ started' = started
        /\ finished' = finished \cup {r}
    BY <1>3 DEF Succeed, Fail, TransportInv, transportVars
  <2>2. Running' = Running \ {r}
    BY <2>1 DEF Running
  <2>3. Cardinality(Running') <= Limit
    <3>1. Cardinality(Running \ {r}) <= Cardinality(Running)
      BY RunningIsFinite, FS_RemoveElement
    <3>2. Cardinality(Running) \in Nat /\ Cardinality(Running \ {r}) \in Nat
      BY RunningIsFinite, FS_RemoveElement, FS_CardinalityType
    <3> QED BY <2>2, <3>1, <3>2, LimitIsPositive
  <2> QED BY <2>1, <2>3 DEF Limit
<1>4. CASE Wait \/ ParentCancelled \/ UNCHANGED vars
  BY <1>4 DEF Wait, ParentCancelled, vars, transportVars, fetchVars, Running, Limit
<1> QED BY <1>1, <1>2, <1>3, <1>4 DEF FetchNext

LEMMA FetchTypesInvariant == FetchSpec => [](TransportTypeOK /\ TransportInv /\ GroupInv)
<1>1. FetchInit => TransportTypeOK /\ TransportInv /\ GroupInv
  <2> SUFFICES ASSUME FetchInit PROVE TransportTypeOK /\ TransportInv
    BY GroupInvInit
  <2> USE DEF FetchInit, TransportInit
  <2>1. TransportTypeOK
    <3>1. {} \in SUBSET (0..MaxRetries) /\ 0 \in 0..MaxRetries
      BY RetryAssumption
    <3> QED BY <3>1 DEF TransportTypeOK, Phases, Outcomes
  <2>2. TransportInv
    BY DEF TransportInv, NoBodyLeaks, NotGivenUpEarly, Responses
  <2> QED BY <2>1, <2>2
<1>2. ASSUME FetchInv, TransportTypeOK, TransportInv, GroupInv, [FetchNext]_vars
      PROVE  TransportTypeOK' /\ TransportInv' /\ GroupInv'
  <2>1. CASE Go
    <3>1. started + 1 \in Requests
      BY <2>1, <1>2, FetchAssumption DEF Go, FetchInv
    <3> QED BY <2>1, <3>1, <1>2, CallKeeps, GroupInvStep DEF Go
  <2>2. ASSUME NEW r \in Requests, Call(r) PROVE TransportTypeOK' /\ TransportInv' /\ GroupInv'
    BY <2>2, <1>2, CallKeeps, GroupInvStep DEF Call
  <2>3. CASE UNCHANGED transportVars /\ ctxDone' \in BOOLEAN
    BY <2>3, <1>2, OthersKeep, GroupInvStep
  <2>4. ASSUME NEW r \in Requests, Succeed(r) \/ Fail(r)
        PROVE  UNCHANGED transportVars /\ ctxDone' \in BOOLEAN
    BY <2>4, <1>2 DEF Succeed, Fail, TransportTypeOK
  <2>5. CASE Wait \/ ParentCancelled \/ UNCHANGED vars
    BY <2>3, <2>5, <1>2 DEF Wait, ParentCancelled, vars, TransportTypeOK
  <2> QED BY <1>2, <2>1, <2>2, <2>3, <2>4, <2>5 DEF FetchNext
<1> QED BY <1>1, <1>2, FetchInvHolds, PTL DEF FetchSpec

\* The transport's five variables keep their types in every run of a batch.
THEOREM TransportTypesHold == FetchSpec => []TransportTypeOK
BY FetchTypesInvariant, PTL

\* Whatever the node answers, and however often, a request that is retried
\* leaves no response open but the one its caller gets.
THEOREM NothingLeaks == FetchSpec => []NoBodyLeaks
<1>1. TransportInv => NoBodyLeaks
  BY DEF TransportInv
<1> QED BY <1>1, FetchTypesInvariant, PTL

\* Each attempt of a request, from the first to the last one that MaxRetries
\* allows, sends the whole body.
THEOREM EveryAttemptIsWhole == FetchSpec => []WholeBodySent
<1>1. TransportInv => WholeBodySent
  BY DEF TransportInv, WholeBodySent
<1> QED BY <1>1, FetchTypesInvariant, PTL

\* A request ends with a failure of the node only after MaxRetries retries.
THEOREM AttemptsAreUsedUp == FetchSpec => []NotGivenUpEarly
<1>1. TransportInv => NotGivenUpEarly
  BY DEF TransportInv
<1> QED BY <1>1, FetchTypesInvariant, PTL

\* However long the batch, no more calls are under way than HEADER_CONCURRENCY
\* allows, and one at most when it is zero or negative.
THEOREM LimitIsKept == FetchSpec => []WithinLimit
<1>1. ASSUME FetchInv, TransportInv, GroupInv PROVE WithinLimit
  <2> DEFINE Active == {r \in Requests : phase[r] \in {"send", "backoff"}}
  <2>1. Active \subseteq Running
    BY <1>1, FetchAssumption DEF GroupInv, FetchInv, Running
  <2>2. Cardinality(Active) <= Cardinality(Running) /\ Cardinality(Active) \in Nat
    BY <1>1, <2>1, RunningIsFinite, FS_Subset, FS_CardinalityType
  <2>3. Cardinality(Active) <= Limit
    BY <1>1, <2>2, RunningIsFinite, LimitIsPositive DEF GroupInv
  <2> QED BY <2>3 DEF WithinLimit
<1> QED BY <1>1, FetchInvHolds, FetchTypesInvariant, PTL

\* When Wait returns, with headers or with an error, every goroutine of the
\* group has returned and every call is over: nothing writes to a slot later.
THEOREM NothingIsLeftRunning == FetchSpec => []NothingLeftRunning
<1>1. FetchInv /\ GroupInv => NothingLeftRunning
  BY FetchAssumption DEF FetchInv, GroupInv, NothingLeftRunning, Running
<1> QED BY <1>1, FetchInvHolds, FetchTypesInvariant, PTL

\* However the calls of a batch overtake each other, the headers that are
\* missing below a block that is fetched are being fetched themselves, so that
\* there are fewer of them than HEADER_CONCURRENCY.
THEOREM WindowIsKept == FetchSpec => []FetchedInOrder
<1>1. ASSUME FetchInv, GroupInv, groupErr = 0, NEW n \in Running
      PROVE  Cardinality({m \in 1..(n - 1) : m \notin slots}) < Limit
  <2> DEFINE Missing == {m \in 1..(n - 1) : m \notin slots}
             Others == Running \ {n}
  <2>1. n \in 1..started /\ started \in Nat
    BY <1>1 DEF FetchInv, Running
  <2>2. Missing \subseteq Others
    BY <1>1, <2>1 DEF FetchInv, Running
  <2>3. /\ IsFiniteSet(Others) /\ Cardinality(Others) \in Nat
        /\ Cardinality(Others) = Cardinality(Running) - 1
    BY <1>1, RunningIsFinite, FS_RemoveElement, FS_CardinalityType
  <2>4. Cardinality(Missing) <= Cardinality(Others) /\ Cardinality(Missing) \in Nat
    BY <2>2, <2>3, FS_Subset, FS_CardinalityType
  <2>5. Cardinality(Running) \in Nat /\ Cardinality(Running) <= Limit /\ Limit \in Nat
    BY <1>1, RunningIsFinite, LimitIsPositive DEF GroupInv
  <2> HIDE DEF Missing, Others
  <2>6. Cardinality(Missing) < Limit
    BY <2>3, <2>4, <2>5
  <2> QED BY <2>6 DEF Missing
<1>2. FetchInv /\ GroupInv => FetchedInOrder
  BY <1>1 DEF FetchedInOrder
<1> QED BY <1>2, FetchInvHolds, FetchTypesInvariant, PTL

=============================================================================

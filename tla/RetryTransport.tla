--------------------------- MODULE RetryTransport ---------------------------
(***************************************************************************)
(* retryTransport.RoundTrip of internal/eth: every HTTP request to the     *)
(* node is tried up to MaxRetries + 1 times, with a pause between two      *)
(* attempts that the request's context cuts short.  Requests that run at   *)
(* the same time share the transport, which keeps no state of its own, and *)
(* here also their context.                                                *)
(***************************************************************************)
EXTENDS Integers

CONSTANTS
  Requests,    \* the requests under way
  MaxRetries   \* RETRY_MAX_RETRIES

ASSUME RetryAssumption == MaxRetries \in Nat

VARIABLES
  phase,      \* phase[r]: where RoundTrip(r) is
  attempt,    \* attempt[r]: the attempt under way, or the last one
  body,       \* body[r]: whether req.Body is still to be read
  open,       \* open[r]: the attempts whose response body is open
  outcome,    \* outcome[r]: what RoundTrip(r) returned
  ctxDone     \* the context of the requests is done

transportVars == <<phase, attempt, body, open, outcome>>

Phases == {"idle", "send", "backoff", "done"}

\* ok and retryable are responses, the others are errors; noresponse is what
\* the last attempt's base.RoundTrip returned.
Outcomes == {"none", "ok", "retryable", "noresponse", "unreadable", "canceled"}
Responses == {"ok", "retryable"}

TransportInit ==
  /\ phase = [r \in Requests |-> "idle"]
  /\ attempt = [r \in Requests |-> 0]
  /\ body = [r \in Requests |-> "unread"]
  /\ open = [r \in Requests |-> {}]
  /\ outcome = [r \in Requests |-> "none"]
  /\ ctxDone = FALSE

Return(r, o) ==
  /\ phase' = [phase EXCEPT ![r] = "done"]
  /\ outcome' = [outcome EXCEPT ![r] = o]

\* The body is read into memory and given anew to each attempt.
Start(r) ==
  /\ phase[r] = "idle"
  /\ phase' = [phase EXCEPT ![r] = "send"]
  /\ UNCHANGED <<attempt, body, open, outcome, ctxDone>>

BodyUnreadable(r) ==
  /\ phase[r] = "idle"
  /\ Return(r, "unreadable")
  /\ body' = [body EXCEPT ![r] = "read"]
  /\ UNCHANGED <<attempt, open, ctxDone>>

\* The loop goes on with a pause, or ends with what the attempt gave.
NextAttempt(r, o) ==
  IF attempt[r] < MaxRetries
    THEN /\ phase' = [phase EXCEPT ![r] = "backoff"]
         /\ attempt' = [attempt EXCEPT ![r] = @ + 1]
         /\ UNCHANGED outcome
    ELSE Return(r, o) /\ UNCHANGED attempt

\* A status that is not retryable is the answer, whatever it is.
Answer(r) ==
  /\ phase[r] = "send"
  /\ Return(r, "ok")
  /\ body' = [body EXCEPT ![r] = "read"]
  /\ open' = [open EXCEPT ![r] = @ \cup {attempt[r]}]
  /\ UNCHANGED <<attempt, ctxDone>>

\* [mutant] the response of an attempt that is given up is not closed
RetryableAnswer_NotClosed(r) ==
  /\ phase[r] = "send"
  /\ NextAttempt(r, "retryable")
  /\ body' = [body EXCEPT ![r] = "read"]
  /\ open' = [open EXCEPT ![r] = @ \cup {attempt[r]}]
  /\ UNCHANGED ctxDone

\* 429, 502, 503 or 504: only the last response is kept open.
RetryableAnswer(r) ==
  /\ phase[r] = "send"
  /\ NextAttempt(r, "retryable")
  /\ body' = [body EXCEPT ![r] = "read"]
  /\ open' = [open EXCEPT ![r] = IF attempt[r] < MaxRetries THEN @ ELSE @ \cup {attempt[r]}]
  /\ UNCHANGED ctxDone

\* [mutant] an error of the connection is returned without a retry
NoResponse_NotRetried(r) ==
  /\ phase[r] = "send"
  /\ Return(r, "noresponse")
  /\ body' = [body EXCEPT ![r] = "read"]
  /\ UNCHANGED <<attempt, open, ctxDone>>

\* The attempt fails, as every attempt does once the context is done.
NoResponse(r) ==
  /\ phase[r] = "send"
  /\ NextAttempt(r, "noresponse")
  /\ body' = [body EXCEPT ![r] = "read"]
  /\ UNCHANGED <<open, ctxDone>>

\* [mutant] the request is sent again with the body the last attempt has read
BackoffEnds_SameBody(r) ==
  /\ phase[r] = "backoff"
  /\ phase' = [phase EXCEPT ![r] = "send"]
  /\ UNCHANGED <<attempt, body, open, outcome, ctxDone>>

BackoffEnds(r) ==
  /\ phase[r] = "backoff"
  /\ phase' = [phase EXCEPT ![r] = "send"]
  /\ body' = [body EXCEPT ![r] = "unread"]
  /\ UNCHANGED <<attempt, open, outcome, ctxDone>>

BackoffCut(r) ==
  /\ phase[r] = "backoff"
  /\ ctxDone
  /\ Return(r, "canceled")
  /\ UNCHANGED <<attempt, body, open, ctxDone>>

TransportStep(r) ==
  \/ Answer(r) \/ RetryableAnswer(r) \/ NoResponse(r)
  \/ BackoffEnds(r) \/ BackoffCut(r)

TransportTypeOK ==
  /\ phase \in [Requests -> Phases]
  /\ attempt \in [Requests -> 0..MaxRetries]
  /\ body \in [Requests -> {"unread", "read"}]
  /\ open \in [Requests -> SUBSET (0..MaxRetries)]
  /\ outcome \in [Requests -> Outcomes]
  /\ ctxDone \in BOOLEAN

\* Of all the responses of a request, only the one that is returned stays
\* open: the caller, who closes that one, leaks no connection.
NoBodyLeaks ==
  \A r \in Requests :
    open[r] = IF outcome[r] \in Responses THEN {attempt[r]} ELSE {}

\* Every attempt sends the whole body, however many have failed before it.
WholeBodySent == \A r \in Requests : phase[r] = "send" => body[r] = "unread"

\* A request is given up only when its attempts are used up.
NotGivenUpEarly ==
  \A r \in Requests :
    outcome[r] \in {"retryable", "noresponse"} => attempt[r] = MaxRetries

=============================================================================

----------------------------- MODULE ApiRequest -----------------------------
(***************************************************************************)
(* The requests of internal/api: the route a request takes through the     *)
(* middlewares, cors -> requestID -> recovery -> requestLogger -> appMux,  *)
(* which the probes bypass; its use of a connection of the pool; and the   *)
(* response that its handler writes, through statusWriter where there is   *)
(* one, before the request is logged.                                      *)
(***************************************************************************)
EXTENDS Startup

CONSTANTS
  Requests,   \* the requests that clients may send
  PoolSize    \* the connections the pool may open

ASSUME PoolAssumption == PoolSize \in Nat \ {0}

VARIABLES
  at,       \* at[r]: unsent, handler, query (it holds a connection), written, over
  route,    \* route[r]: see Routes
  reply,    \* reply[r]: the status and the Cache-Control that net/http will send
  seen,     \* seen[r]: statusWriter.status
  logged    \* logged[r]: the status in "request completed", or panic

requestVars == <<at, route, reply, seen, logged>>

\* preflight: OPTIONS;  unrouted: no handler of appMux;  malformed: the address
\* is no address;  auction: GET of an address;  health, ready: the probes.
Routes == {"preflight", "unrouted", "malformed", "auction", "health", "ready"}
Probes == {"health", "ready"}
Statuses == {"none", "200", "204", "400", "404", "500", "503"}
Caching == {"none", "no-store", "immutable"}

RequestInit ==
  /\ at = [r \in Requests |-> "unsent"]
  /\ route = [r \in Requests |-> "none"]
  /\ reply = [r \in Requests |-> [status |-> "none", cache |-> "none"]]
  /\ seen = [r \in Requests |-> "200"]
  /\ logged = [r \in Requests |-> "none"]

\* [mutant] the liveness probe asks the database too
NeedsStore_Health(r) == route[r] \in {"auction", "ready", "health"}

NeedsStore(r) == route[r] \in {"auction", "ready"}
Holders == {r \in Requests : at[r] = "query"}

\* cors answers a preflight before there is anything to log, and the probes
\* have no middlewares.
IsLogged(r) == route[r] \notin Probes \cup {"preflight"}

\* The header as net/http keeps it: the first WriteHeader counts, and what is
\* set or written after it changes nothing.
Header(r, status, cache) ==
  IF reply[r].status = "none" THEN [status |-> status, cache |-> cache] ELSE reply[r]

\* The handler writes its response, to a statusWriter if there is one: that keeps
\* the last status it is given, whatever net/http makes of it.
Write(r, status, cache) ==
  /\ at' = [at EXCEPT ![r] = "written"]
  /\ reply' = [reply EXCEPT ![r] = Header(r, status, cache)]
  /\ seen' = [seen EXCEPT ![r] = IF IsLogged(r) THEN status ELSE @]
  /\ UNCHANGED <<route, logged>>

\* Replies that take no query.
AnswerAtOnce(r) ==
  /\ at[r] = "handler"
  /\ ~ NeedsStore(r)
  /\ \/ route[r] = "preflight" /\ Write(r, "204", "none")
     \/ route[r] = "unrouted" /\ Write(r, "404", "none")
     \/ route[r] = "malformed" /\ Write(r, "400", "none")
     \/ route[r] = "health" /\ Write(r, "200", "no-store")

\* GetByAddress, or Ping, takes a connection ...
Acquire(r) ==
  /\ at[r] = "handler"
  /\ NeedsStore(r)
  /\ store = "open"
  /\ Cardinality(Holders) < PoolSize
  /\ at' = [at EXCEPT ![r] = "query"]
  /\ UNCHANGED <<route, reply, seen, logged>>

\* [mutant] Get sets Cache-Control before it knows whether there is an auction
AnswerQuery_CachesFirst(r) ==
  /\ at[r] = "query"
  /\ \/ route[r] = "auction" /\ \E s \in {"200", "404"} : Write(r, s, "immutable")
     \/ route[r] \in Probes /\ Write(r, "200", "no-store")

\* ... and gives it back when the query has been answered.
AnswerQuery(r) ==
  /\ at[r] = "query"
  /\ \/ route[r] = "auction" /\ Write(r, "200", "immutable")
     \/ route[r] = "auction" /\ Write(r, "404", "none")
     \/ route[r] \in Probes /\ Write(r, "200", "no-store")

\* [mutant] no return after the WriteError of Get, which goes on to WriteNotFound
QueryFails_GoesOn(r) ==
  /\ at[r] \in {"handler", "query"}
  /\ route[r] = "auction"
  /\ at' = [at EXCEPT ![r] = "written"]
  /\ reply' = [reply EXCEPT ![r] = Header(r, "500", "none")]
  /\ seen' = [seen EXCEPT ![r] = "404"]
  /\ UNCHANGED <<route, logged>>

\* The query fails, or there is no connection for it: the pool is being closed,
\* the database cannot be reached, or the client has gone.
QueryFails(r) ==
  /\ at[r] \in {"handler", "query"}
  /\ \/ route[r] = "auction" /\ Write(r, "500", "none")
     \/ route[r] = "ready" /\ Write(r, "503", "no-store")

\* The handler returns, and requestLogger logs what statusWriter has seen.
Return(r) ==
  /\ at[r] = "written"
  /\ at' = [at EXCEPT ![r] = "over"]
  /\ logged' = [logged EXCEPT ![r] = IF IsLogged(r) THEN seen[r] ELSE @]
  /\ UNCHANGED <<route, reply, seen>>

\* The handler panics in the query: before it nothing can panic, and after it
\* only fields are copied and written that are never nil.  The panic passes
\* requestLogger, which logs nothing then; recovery logs it, and answers past
\* statusWriter.
Panics(r) ==
  /\ at[r] = "query"
  /\ route[r] = "auction"
  /\ at' = [at EXCEPT ![r] = "over"]
  /\ reply' = [reply EXCEPT ![r] = Header(r, "500", "none")]
  /\ logged' = [logged EXCEPT ![r] = "panic"]
  /\ UNCHANGED <<route, seen>>

\* The probe panics in the query: recovery is not there, and net/http closes the
\* connection without an answer.
ProbePanics(r) ==
  /\ at[r] = "query"
  /\ route[r] \in Probes
  /\ at' = [at EXCEPT ![r] = "over"]
  /\ UNCHANGED <<route, reply, seen, logged>>

RequestStep(r) ==
  \/ AnswerAtOnce(r) \/ Acquire(r) \/ AnswerQuery(r) \/ QueryFails(r) \/ Return(r)
  \/ Panics(r) \/ ProbePanics(r)

=============================================================================

----------------------------- MODULE ApiServer -----------------------------
(***************************************************************************)
(* The life of the API process (cmd/api: main and run): the main goroutine *)
(* from its start to its end, the goroutine that serves, the signal, and   *)
(* the requests whose handlers use the store that run closes when it       *)
(* returns.                                                                *)
(***************************************************************************)
EXTENDS ApiRequest

CONSTANT Signals   \* whether a signal may arrive

ASSUME SignalsAssumption == Signals \in BOOLEAN

VARIABLES
  server,    \* the serving goroutine: none, new, listening, failed, reported, stopped
  errCh,     \* the number of errors in errCh, of capacity 1
  draining   \* srv.Shutdown has been called

serverVars == <<server, errCh, draining>>
mainVars == <<main, result, store, ctxDone>>
vars == <<mainVars, startVars, requestVars, serverVars>>

InHandler == {r \in Requests : at[r] \in {"handler", "query", "written"}}

Init ==
  /\ StartInit
  /\ RequestInit
  /\ server = "none"
  /\ errCh = 0
  /\ draining = FALSE

(***************************************************************************)
(* The serving goroutine.                                                  *)
(***************************************************************************)
\* run starts it before it selects.
Go ==
  /\ main = "select" /\ server = "none"
  /\ server' = "new"
  /\ UNCHANGED <<mainVars, startVars, requestVars, errCh, draining>>

\* ListenAndServe binds the port; after Shutdown it returns ErrServerClosed.
Listen ==
  /\ server = "new"
  /\ server' = IF draining THEN "stopped" ELSE "listening"
  /\ UNCHANGED <<mainVars, startVars, requestVars, errCh, draining>>

\* The port is taken, or Accept fails for good.
ServeFails ==
  /\ server \in {"new", "listening"}
  /\ ~ draining
  /\ server' = "failed"
  /\ UNCHANGED <<mainVars, startVars, requestVars, errCh, draining>>

\* [mutant] the goroutine reports the error and serves again
ReportError_Retries ==
  /\ server = "failed"
  /\ errCh' = errCh + 1
  /\ server' = "new"
  /\ UNCHANGED <<mainVars, startVars, requestVars, draining>>

ReportError ==
  /\ server = "failed"
  /\ errCh' = 1
  /\ server' = "reported"
  /\ UNCHANGED <<mainVars, startVars, requestVars, draining>>

CancelContext ==
  /\ server = "reported"
  /\ ctxDone' = TRUE
  /\ server' = "stopped"
  /\ UNCHANGED <<main, result, store, startVars, requestVars, errCh, draining>>

Signal ==
  /\ Signals
  /\ ~ ctxDone
  /\ ctxDone' = TRUE
  /\ UNCHANGED <<main, result, store, startVars, requestVars, serverVars>>

(***************************************************************************)
(* run.                                                                    *)
(***************************************************************************)
\* The deferred st.Close() starts.
Leave(what) ==
  /\ result' = what
  /\ main' = "closing"
  /\ store' = "closing"
  /\ UNCHANGED <<ctxDone, startVars, requestVars>>

SelectError ==
  /\ main = "select"
  /\ errCh = 1
  /\ errCh' = 0
  /\ Leave("server error")
  /\ UNCHANGED <<server, draining>>

\* Go selects at random when both channels are ready.
SelectDone ==
  /\ main = "select" /\ server # "none"
  /\ ctxDone
  /\ main' = "shutdown"
  /\ draining' = TRUE
  /\ server' = IF server = "listening" THEN "stopped" ELSE server
  /\ UNCHANGED <<result, store, ctxDone, startVars, requestVars, errCh>>

\* [mutant] run leaves after closing the listeners
ShutdownDone_NoDrain ==
  /\ main = "shutdown"
  /\ Leave("graceful")
  /\ UNCHANGED serverVars

\* Shutdown waits for the handlers that are running.
ShutdownDone ==
  /\ main = "shutdown"
  /\ InHandler = {}
  /\ Leave("graceful")
  /\ UNCHANGED serverVars

\* [mutant] Shutdown is given a context without a deadline
ShutdownTimeout_Never == FALSE /\ UNCHANGED vars

\* Ten seconds have passed and handlers are still running.
ShutdownTimeout ==
  /\ main = "shutdown"
  /\ InHandler # {}
  /\ Leave("shutdown error")
  /\ UNCHANGED serverVars

\* pool.Close() waits for the connections that are in use.
StoreClosed ==
  /\ store = "closing"
  /\ Holders = {}
  /\ store' = "closed"
  /\ main' = "returned"
  /\ UNCHANGED <<result, ctxDone, startVars, requestVars, serverVars>>

(***************************************************************************)
(* Requests.                                                               *)
(***************************************************************************)
\* The outer mux gives the probes to healthMux, the rest to the middlewares.
Arrive(r) ==
  /\ at[r] = "unsent"
  /\ server = "listening"
  /\ at' = [at EXCEPT ![r] = "handler"]
  /\ \E x \in Routes : route' = [route EXCEPT ![r] = x]
  /\ UNCHANGED <<mainVars, startVars, reply, seen, logged, serverVars>>

\* The process ends with main, whatever its handlers are doing.
Handle(r) ==
  /\ main # "returned"
  /\ RequestStep(r)
  /\ UNCHANGED <<mainVars, startVars, serverVars>>

RunStep == SelectError \/ SelectDone \/ ShutdownDone \/ ShutdownTimeout \/ StoreClosed
ServeStep == Go \/ Listen \/ ReportError \/ CancelContext
Begin == StartStep /\ UNCHANGED <<requestVars, serverVars>>
Other == OtherMigrates /\ UNCHANGED <<requestVars, serverVars>>

Next ==
  \/ Begin \/ Other
  \/ RunStep \/ ServeStep \/ ServeFails \/ Signal
  \/ \E r \in Requests : Arrive(r) \/ Handle(r)

Spec == Init /\ [][Next]_vars

\* Goroutines run, timers fire, the database answers every query it is asked,
\* and the migrations end or fail; a handler may wait for a connection for ever.
Answers(r) == (AnswerAtOnce(r) \/ AnswerQuery(r) \/ Return(r)) /\ Handle(r)
FairSpec ==
  /\ Spec
  /\ WF_vars(RunStep) /\ WF_vars(ServeStep) /\ WF_vars(Begin)
  /\ \A r \in Requests : WF_vars(Answers(r))

TypeOK ==
  /\ main \in {"connect", "migrate", "select", "shutdown", "closing", "returned"}
  /\ result \in {"none", "startup error", "server error", "graceful", "shutdown error"}
  /\ store \in {"none", "open", "closing", "closed"}
  /\ ctxDone \in BOOLEAN /\ draining \in BOOLEAN
  /\ schema \in {"absent", "dirty", "ready"} /\ migrator \in {"none", "self", "other"}
  /\ at \in [Requests -> {"unsent", "handler", "query", "written", "over"}]
  /\ route \in [Requests -> Routes \cup {"none"}]
  /\ reply \in [Requests -> [status : Statuses, cache : Caching]]
  /\ seen \in [Requests -> Statuses]
  /\ logged \in [Requests -> Statuses \cup {"panic"}]
  /\ server \in {"none", "new", "listening", "failed", "reported", "stopped"}
  /\ errCh \in 0..1

\* A stop that counts as graceful has let every request finish with the store
\* still open: none is cut off or refused because of it.
GracefulMeansServed ==
  result = "graceful" => \A r \in Requests : at[r] \in {"unsent", "over"}

\* The process never serves from a schema that is not there, or that another
\* process is still making or has left half made.
ServesMigrated == server \in {"new", "listening"} => schema = "ready"

\* Every request that has passed the middlewares is accounted for in the log,
\* by requestLogger with the status of the response that net/http sends, though
\* statusWriter is told of each WriteHeader and net/http takes only the first; or,
\* if its handler panicked, by recovery alone, and then the response is a 500.
\* Whether the response reaches the client is not known when it is logged.
LogTellsStatus ==
  \A r \in Requests : at[r] = "over" =>
    IF ~ IsLogged(r) THEN logged[r] = "none"
    ELSE \/ logged[r] = reply[r].status
         \/ logged[r] = "panic" /\ reply[r].status = "500"

\* Clients and proxies keep an answer for good only if it is an auction: no
\* failure, no absent auction and no probe is cached
\* (internal/api/handlers/cache_test.go).
OnlyAuctionsCached ==
  \A r \in Requests :
    reply[r].cache = "immutable" => route[r] = "auction" /\ reply[r].status = "200"

\* run never returns without an error while the error of the server lies in
\* errCh (cmd/api/main.go:48, "Errors are returned to the caller").
ErrorsAreReturned == result = "graceful" => errCh = 0

\* A signal or a failure of the server ends the process, though requests hang
\* on for longer than the shutdown waits.
EndsWhenTold == ctxDone ~> main = "returned"

\* A liveness probe is answered as long as the process lives, even if every
\* connection of the pool is taken or cannot be had (cmd/api/main.go:59, "Health
\* probes bypass the middleware chain so they stay fast, dependency-free").
HealthAnswers ==
  \A r \in Requests :
    at[r] = "handler" /\ route[r] = "health" ~> at[r] = "over" \/ main = "returned"

=============================================================================

-------------------------- MODULE ApiServerProofs --------------------------
(***************************************************************************)
(* Proofs about the API process, for every number of requests, of          *)
(* connections in the pool, and with or without a signal.                  *)
(***************************************************************************)
EXTENDS ApiServer, TLAPS

(***************************************************************************)
(* The inductive invariant, in parts.                                      *)
(***************************************************************************)
Mains == {"connect", "migrate", "select", "shutdown", "closing", "returned"}
Results == {"none", "startup error", "server error", "graceful", "shutdown error"}
Stores == {"none", "open", "closing", "closed"}
Servers == {"none", "new", "listening", "failed", "reported", "stopped"}
Stages == {"unsent", "handler", "query", "written", "over"}

\* The types of what the goroutines of the process share, and of the requests.
StateTypes ==
  /\ main \in Mains /\ result \in Results /\ store \in Stores
  /\ schema \in {"absent", "dirty", "ready"} /\ migrator \in {"none", "self", "other"}
  /\ server \in Servers /\ errCh \in {0, 1}

FlagTypes == ctxDone \in BOOLEAN /\ draining \in BOOLEAN

ProcessTypes == StateTypes /\ FlagTypes

RequestTypes ==
  /\ at \in [Requests -> Stages]
  /\ route \in [Requests -> Routes \cup {"none"}]
  /\ reply \in [Requests -> [status : Statuses, cache : Caching]]
  /\ seen \in [Requests -> Statuses]
  /\ logged \in [Requests -> Statuses \cup {"panic"}]

LEMMA TypesSplit == TypeOK <=> ProcessTypes /\ RequestTypes
<1>1. 0..1 = {0, 1}
  OBVIOUS
<1> QED BY <1>1
 DEF TypeOK, ProcessTypes, StateTypes, FlagTypes, RequestTypes, Mains, Results, Stores, Servers,
     Stages

\* The lock of the migrations is held as long as the version is dirty, and main
\* gets past New, and so to the serving goroutine, only with a ready one.
SchemaInv ==
  /\ migrator # "none" => schema = "dirty"
  /\ migrator = "self" => main = "migrate"
  /\ store = "closing" => main = "closing"
  /\ main \in {"select", "shutdown"} \/ server # "none" => schema = "ready"

\* After the shutdown has begun no listener accepts a request.
ShutdownInv ==
  /\ draining => server # "listening"
  /\ main = "shutdown" \/ result = "graceful" => draining
  /\ GracefulMeansServed

\* A request is logged when it is over, and has no response before its handler
\* has written one; between the two statusWriter and net/http have been told the
\* same, because every handler writes once.
ReplyInv ==
  /\ \A r \in Requests :
       /\ at[r] # "over" => logged[r] = "none"
       /\ at[r] \in {"unsent", "handler", "query"} =>
            reply[r] = [status |-> "none", cache |-> "none"]
       /\ at[r] = "written" /\ IsLogged(r) => seen[r] = reply[r].status
  /\ LogTellsStatus
  /\ OnlyAuctionsCached

(***************************************************************************)
(* The steps of main before it serves, which no request takes part in.     *)
(***************************************************************************)
LEMMA RequestsRest ==
  ASSUME RequestTypes, ReplyInv, UNCHANGED requestVars
  PROVE  RequestTypes' /\ ReplyInv'
BY DEF RequestTypes, ReplyInv, LogTellsStatus, OnlyAuctionsCached, requestVars, IsLogged

\* The two Booleans: the context is cancelled and the listeners are closed only.
LEMMA FlagsKeep ==
  ASSUME FlagTypes, Begin \/ Other \/ RunStep \/ ServeStep \/ ServeFails \/ Signal
  PROVE  FlagTypes'
<1> USE DEF FlagTypes, serverVars, mainVars
<1>1. CASE Begin \/ Other
  <2>1. UNCHANGED <<ctxDone, draining>>
    BY <1>1, Zenon DEF Begin, Other, StartStep, Connect, ConnectFails, StartFails, NoChange,
                       MigrationBegins, MigrationEnds, MigrationFails, OtherMigrates
  <2> QED BY <2>1, Zenon
<1>2. CASE SelectError \/ ShutdownDone \/ ShutdownTimeout \/ StoreClosed \/ Go \/ Listen
             \/ ReportError \/ ServeFails
  <2>1. UNCHANGED <<ctxDone, draining>>
    BY <1>2, Zenon DEF SelectError, ShutdownDone, ShutdownTimeout, StoreClosed, Go, Listen,
                       ReportError, ServeFails, Leave
  <2> QED BY <2>1, Zenon
<1>3. CASE SelectDone
  BY <1>3, Zenon DEF SelectDone
<1>4. CASE CancelContext \/ Signal
  <2>1. ctxDone' = TRUE /\ UNCHANGED draining
    BY <1>4, Zenon DEF CancelContext, Signal
  <2> QED BY <2>1, Zenon
<1> QED BY <1>1, <1>2, <1>3, <1>4 DEF RunStep, ServeStep

LEMMA BeginKeeps ==
  ASSUME ProcessTypes, SchemaInv, ShutdownInv, Begin \/ Other
  PROVE  ProcessTypes' /\ SchemaInv' /\ ShutdownInv'
<1> USE DEF startVars
<1>1. UNCHANGED requestVars /\ UNCHANGED <<server, errCh, draining>>
  BY DEF Begin, Other, serverVars
<1>2. StateTypes /\ FlagTypes'
  BY FlagsKeep DEF ProcessTypes
\* Whoever starts ends with no result or with an error.
<1>3. /\ main' # "shutdown" \/ main' = main
      /\ result' = "graceful" => result = "graceful"
  BY DEF Begin, Other, StartStep, Connect, ConnectFails, StartFails, NoChange, MigrationBegins,
         MigrationEnds, MigrationFails, OtherMigrates
<1>4. ShutdownInv'
  BY <1>1, <1>3 DEF ShutdownInv, GracefulMeansServed, requestVars
<1>5. CASE Other
  <2> USE <1>5 DEF Other, OtherMigrates
  <2>0. /\ UNCHANGED <<main, result, store>>
        /\ schema' \in {"absent", "dirty", "ready"} /\ migrator' \in {"none", "self", "other"}
    OBVIOUS
  <2>1. StateTypes'
    BY <1>1, <1>2, <2>0 DEF StateTypes
  <2>2. SchemaInv'
    BY <1>1 DEF SchemaInv
  <2> QED BY <1>2, <1>4, <2>1, <2>2 DEF ProcessTypes
<1>6. CASE Connect \/ ConnectFails \/ NoChange
  <2> USE <1>6 DEF Connect, ConnectFails, StartFails, NoChange
  <2>1. StateTypes'
    BY <1>1, <1>2 DEF StateTypes, Mains, Results, Stores
  <2>2. SchemaInv'
    BY <1>1 DEF SchemaInv
  <2> QED BY <1>2, <1>4, <2>1, <2>2 DEF ProcessTypes
<1>7. CASE MigrationBegins \/ MigrationEnds \/ MigrationFails
  <2> USE <1>7 DEF MigrationBegins, MigrationEnds, MigrationFails, StartFails
  <2>1. StateTypes'
    BY <1>1, <1>2 DEF StateTypes, Mains, Results, Stores
  <2>2. SchemaInv'
    BY <1>1 DEF SchemaInv
  <2> QED BY <1>2, <1>4, <2>1, <2>2 DEF ProcessTypes
<1> QED BY <1>5, <1>6, <1>7 DEF Begin, StartStep

(***************************************************************************)
(* The steps of run, of the serving goroutine and of the signal.           *)
(***************************************************************************)
LEMMA ProcessKeeps ==
  ASSUME ProcessTypes, RequestTypes, SchemaInv, ShutdownInv,
         RunStep \/ ServeStep \/ ServeFails \/ Signal
  PROVE  ProcessTypes' /\ SchemaInv' /\ ShutdownInv'
<1>0. StateTypes /\ FlagTypes'
  BY FlagsKeep DEF ProcessTypes
<1> USE DEF mainVars, startVars, requestVars, serverVars
<1>1. CASE SelectError
  <2> USE <1>1 DEF SelectError, Leave
  <2>1. StateTypes'
    BY <1>0 DEF StateTypes, Mains, Results, Stores
  <2>2. SchemaInv'
    BY DEF SchemaInv
  <2>3. ShutdownInv'
    BY DEF ShutdownInv, GracefulMeansServed
  <2> QED BY <1>0, <2>1, <2>2, <2>3 DEF ProcessTypes
<1>2. CASE SelectDone
  <2> USE <1>2 DEF SelectDone
  <2>1. StateTypes'
    BY <1>0 DEF StateTypes, Mains, Servers
  <2>2. SchemaInv'
    BY DEF SchemaInv
  <2>3. ShutdownInv'
    BY DEF ShutdownInv, GracefulMeansServed
  <2> QED BY <1>0, <2>1, <2>2, <2>3 DEF ProcessTypes
<1>3. CASE ShutdownDone
  <2> USE <1>3 DEF ShutdownDone, Leave
  <2>1. StateTypes'
    BY <1>0 DEF StateTypes, Mains, Results, Stores
  <2>2. SchemaInv'
    BY DEF SchemaInv
  <2>3. ShutdownInv'
    BY DEF ShutdownInv, GracefulMeansServed, InHandler, RequestTypes, Stages
  <2> QED BY <1>0, <2>1, <2>2, <2>3 DEF ProcessTypes
<1>4. CASE ShutdownTimeout
  <2> USE <1>4 DEF ShutdownTimeout, Leave
  <2>1. StateTypes'
    BY <1>0 DEF StateTypes, Mains, Results, Stores
  <2>2. SchemaInv'
    BY DEF SchemaInv
  <2>3. ShutdownInv'
    BY DEF ShutdownInv, GracefulMeansServed
  <2> QED BY <1>0, <2>1, <2>2, <2>3 DEF ProcessTypes
<1>5. CASE StoreClosed
  <2> USE <1>5 DEF StoreClosed
  <2>1. StateTypes'
    BY <1>0 DEF StateTypes, Mains, Stores
  <2>2. SchemaInv'
    BY DEF SchemaInv
  <2>3. ShutdownInv'
    BY DEF ShutdownInv, GracefulMeansServed
  <2> QED BY <1>0, <2>1, <2>2, <2>3 DEF ProcessTypes
<1>6. CASE Go
  <2> USE <1>6 DEF Go
  <2>1. StateTypes'
    BY <1>0 DEF StateTypes, Servers
  <2>2. SchemaInv'
    BY DEF SchemaInv
  <2>3. ShutdownInv'
    BY DEF ShutdownInv, GracefulMeansServed
  <2> QED BY <1>0, <2>1, <2>2, <2>3 DEF ProcessTypes
<1>7. CASE Listen
  <2> USE <1>7 DEF Listen
  <2>1. StateTypes'
    BY <1>0 DEF StateTypes, Servers
  <2>2. SchemaInv'
    BY DEF SchemaInv
  <2>3. ShutdownInv'
    BY DEF ShutdownInv, GracefulMeansServed
  <2> QED BY <1>0, <2>1, <2>2, <2>3 DEF ProcessTypes
<1>8. CASE ReportError
  <2> USE <1>8 DEF ReportError
  <2>1. StateTypes'
    BY <1>0 DEF StateTypes, Servers
  <2>2. SchemaInv'
    BY DEF SchemaInv
  <2>3. ShutdownInv'
    BY DEF ShutdownInv, GracefulMeansServed
  <2> QED BY <1>0, <2>1, <2>2, <2>3 DEF ProcessTypes
<1>9. CASE CancelContext
  <2> USE <1>9 DEF CancelContext
  <2>1. StateTypes'
    BY <1>0 DEF StateTypes, Servers
  <2>2. SchemaInv'
    BY DEF SchemaInv
  <2>3. ShutdownInv'
    BY DEF ShutdownInv, GracefulMeansServed
  <2> QED BY <1>0, <2>1, <2>2, <2>3 DEF ProcessTypes
<1>10. CASE ServeFails
  <2> USE <1>10 DEF ServeFails
  <2>1. StateTypes'
    BY <1>0 DEF StateTypes, Servers
  <2>2. SchemaInv'
    BY DEF SchemaInv
  <2>3. ShutdownInv'
    BY DEF ShutdownInv, GracefulMeansServed
  <2> QED BY <1>0, <2>1, <2>2, <2>3 DEF ProcessTypes
<1>11. CASE Signal
  <2>0. UNCHANGED <<main, result, store, startVars, requestVars, serverVars>>
    BY <1>11 DEF Signal
  <2>1. StateTypes'
    <3>1. /\ main' = main /\ result' = result /\ store' = store
          /\ schema' = schema /\ migrator' = migrator /\ server' = server /\ errCh' = errCh
      BY <2>0
    <3> QED BY <1>0, <3>1 DEF StateTypes
  <2>2. SchemaInv'
    BY <2>0 DEF SchemaInv
  <2>3. ShutdownInv'
    BY <2>0 DEF ShutdownInv, GracefulMeansServed
  <2> QED BY <1>0, <2>1, <2>2, <2>3 DEF ProcessTypes
<1> QED BY <1>1, <1>2, <1>3, <1>4, <1>5, <1>6, <1>7, <1>8, <1>9, <1>10, <1>11 DEF RunStep, ServeStep

LEMMA ProcessLeavesRequests ==
  Begin \/ Other \/ RunStep \/ ServeStep \/ ServeFails \/ Signal => UNCHANGED requestVars
BY DEF Begin, Other, RunStep, SelectError, SelectDone, ShutdownDone, ShutdownTimeout, StoreClosed,
       Leave, ServeStep, Go, Listen, ReportError, CancelContext, ServeFails, Signal, serverVars,
       mainVars

(***************************************************************************)
(* The steps of a request.                                                 *)
(***************************************************************************)
\* A handler that writes its response, with a status of its route.
LEMMA WriteKeeps ==
  ASSUME RequestTypes, ReplyInv, NEW r \in Requests, at[r] \in {"handler", "query"},
         NEW s \in Statuses, NEW c \in Caching, Write(r, s, c),
         c = "immutable" => route[r] = "auction" /\ s = "200"
  PROVE  RequestTypes' /\ ReplyInv'
<1> DEFINE h == [status |-> s, cache |-> c]
<1>1. reply[r] = [status |-> "none", cache |-> "none"]
  BY DEF ReplyInv
<1>2. Header(r, s, c) = h /\ h \in [status : Statuses, cache : Caching]
  BY <1>1 DEF Header
<1>3. /\ at' = [at EXCEPT ![r] = "written"] /\ reply' = [reply EXCEPT ![r] = h]
      /\ seen' = [seen EXCEPT ![r] = IF IsLogged(r) THEN s ELSE @]
      /\ route' = route /\ logged' = logged
  BY <1>2 DEF Write
<1>4. h.status = s /\ h.cache = c
  OBVIOUS
<1> HIDE DEF h
<1>5. RequestTypes'
  BY <1>2, <1>3 DEF RequestTypes, Stages
<1>6. \A q \in Requests : IsLogged(q)' = IsLogged(q)
  BY <1>3 DEF IsLogged
<1>7. /\ at'[r] = "written" /\ reply'[r] = h /\ logged'[r] = logged[r]
      /\ IsLogged(r) => seen'[r] = s
  BY <1>3 DEF RequestTypes
<1>8. \A q \in Requests \ {r} :
        at'[q] = at[q] /\ reply'[q] = reply[q] /\ seen'[q] = seen[q] /\ logged'[q] = logged[q]
  BY <1>3 DEF RequestTypes
<1>9. LogTellsStatus'
  BY <1>6, <1>7, <1>8 DEF ReplyInv, LogTellsStatus
<1>10. OnlyAuctionsCached'
  BY <1>3, <1>4, <1>7, <1>8 DEF ReplyInv, OnlyAuctionsCached
<1> QED BY <1>4, <1>5, <1>6, <1>7, <1>8, <1>9, <1>10 DEF ReplyInv

\* A request that ends: with the line of requestLogger if it is logged, of
\* recovery if its handler has panicked, and with none if it is a probe.
LEMMA EndKeeps ==
  ASSUME RequestTypes, ReplyInv, NEW r \in Requests, at[r] # "over",
         NEW x \in [status : Statuses, cache : Caching], NEW l \in Statuses \cup {"panic"},
         at' = [at EXCEPT ![r] = "over"], reply' = [reply EXCEPT ![r] = x],
         logged' = [logged EXCEPT ![r] = l], route' = route, seen' = seen,
         x.cache = "immutable" => route[r] = "auction" /\ x.status = "200",
         IF IsLogged(r) THEN l = x.status \/ (l = "panic" /\ x.status = "500") ELSE l = "none"
  PROVE  RequestTypes' /\ ReplyInv'
<1>1. RequestTypes'
  BY DEF RequestTypes, Stages
<1>2. \A q \in Requests : IsLogged(q)' = IsLogged(q)
  BY DEF IsLogged
<1>3. at'[r] = "over" /\ reply'[r] = x /\ logged'[r] = l
  BY DEF RequestTypes
<1>4. \A q \in Requests \ {r} :
        at'[q] = at[q] /\ reply'[q] = reply[q] /\ seen'[q] = seen[q] /\ logged'[q] = logged[q]
  BY DEF RequestTypes
<1>5. LogTellsStatus'
  BY <1>2, <1>3, <1>4 DEF ReplyInv, LogTellsStatus
<1>6. OnlyAuctionsCached'
  BY <1>3, <1>4 DEF ReplyInv, OnlyAuctionsCached
<1> QED BY <1>1, <1>2, <1>3, <1>4, <1>5, <1>6 DEF ReplyInv

LEMMA RequestKeeps ==
  ASSUME RequestTypes, ReplyInv, NEW r \in Requests, RequestStep(r)
  PROVE  /\ at[r] \in {"handler", "query", "written"}
         /\ RequestTypes' /\ ReplyInv'
<1> DEFINE Unchanged(f) == [f EXCEPT ![r] = f[r]] = f
<1>1. CASE AnswerAtOnce(r) \/ AnswerQuery(r) \/ QueryFails(r)
  <2>1. PICK s \in Statuses, c \in Caching :
          /\ Write(r, s, c)
          /\ c = "immutable" => route[r] = "auction" /\ s = "200"
    BY <1>1 DEF AnswerAtOnce, AnswerQuery, QueryFails, Statuses, Caching
  <2>2. at[r] \in {"handler", "query"}
    BY <1>1 DEF AnswerAtOnce, AnswerQuery, QueryFails
  <2> QED BY <2>1, <2>2, WriteKeeps
<1>2. CASE Acquire(r)
  BY <1>2 DEF Acquire, RequestTypes, Stages, ReplyInv, LogTellsStatus, OnlyAuctionsCached, IsLogged
<1>3. Unchanged(reply) /\ Unchanged(logged)
  BY DEF RequestTypes
<1>4. /\ reply[r] \in [status : Statuses, cache : Caching]
      /\ reply[r].cache = "immutable" => route[r] = "auction" /\ reply[r].status = "200"
  BY DEF RequestTypes, ReplyInv, OnlyAuctionsCached
<1>5. CASE Return(r)
  <2> DEFINE l == IF IsLogged(r) THEN seen[r] ELSE logged[r]
  <2>1. /\ at[r] = "written" /\ at' = [at EXCEPT ![r] = "over"]
        /\ logged' = [logged EXCEPT ![r] = l] /\ UNCHANGED <<route, reply, seen>>
    BY <1>5 DEF Return
  <2>2. logged[r] = "none" /\ (IsLogged(r) => seen[r] = reply[r].status)
    BY <2>1 DEF ReplyInv
  <2>3. /\ l \in Statuses \cup {"panic"}
        /\ IsLogged(r) => l = reply[r].status
        /\ ~ IsLogged(r) => l = "none"
    BY <2>2 DEF RequestTypes
  <2> HIDE DEF l
  <2>4. reply' = [reply EXCEPT ![r] = reply[r]] /\ route' = route /\ seen' = seen
    BY <2>1, <1>3
  <2> QED BY <2>1, <2>3, <2>4, <1>4, EndKeeps
<1>6. CASE Panics(r)
  <2> DEFINE x == [status |-> "500", cache |-> "none"]
  <2>1. at[r] = "query" /\ reply[r] = [status |-> "none", cache |-> "none"] /\ IsLogged(r)
    BY <1>6 DEF Panics, ReplyInv, IsLogged, Probes
  <2>2. x = Header(r, "500", "none") /\ x \in [status : Statuses, cache : Caching]
    BY <2>1 DEF Header, Statuses, Caching
  <2>3. x.status = "500" /\ x.cache = "none"
    OBVIOUS
  <2>4. /\ at' = [at EXCEPT ![r] = "over"] /\ reply' = [reply EXCEPT ![r] = x]
        /\ logged' = [logged EXCEPT ![r] = "panic"] /\ UNCHANGED <<route, seen>>
    BY <1>6, <2>2 DEF Panics
  <2> HIDE DEF x
  <2> QED BY <2>1, <2>2, <2>3, <2>4, EndKeeps
<1>7. CASE ProbePanics(r)
  <2>1. /\ at[r] = "query" /\ ~ IsLogged(r) /\ at' = [at EXCEPT ![r] = "over"]
        /\ UNCHANGED <<route, reply, seen, logged>>
    BY <1>7 DEF ProbePanics, IsLogged
  <2>2. logged[r] = "none" /\ "none" \in Statuses
    BY <2>1 DEF ReplyInv, Statuses
  <2>3. reply' = [reply EXCEPT ![r] = reply[r]] /\ logged' = [logged EXCEPT ![r] = "none"]
    BY <2>1, <2>2, <1>3
  <2> QED BY <2>1, <2>2, <2>3, <1>4, EndKeeps
<1>8. at[r] \in {"handler", "query", "written"}
  BY DEF RequestStep, AnswerAtOnce, Acquire, AnswerQuery, QueryFails, Return, Panics, ProbePanics
<1> QED BY <1>1, <1>2, <1>5, <1>6, <1>7, <1>8 DEF RequestStep

\* The steps of requests leave the process alone.
LEMMA StillKeeps ==
  ASSUME ProcessTypes, SchemaInv, UNCHANGED <<mainVars, startVars, serverVars>>
  PROVE  ProcessTypes' /\ SchemaInv'
<1>1. /\ main' = main /\ result' = result /\ store' = store
      /\ schema' = schema /\ migrator' = migrator /\ server' = server /\ errCh' = errCh
  BY DEF mainVars, startVars, serverVars
<1>2. UNCHANGED <<ctxDone, draining>>
  BY Zenon DEF mainVars, serverVars
<1>3. StateTypes'
  BY <1>1 DEF ProcessTypes, StateTypes
<1>4. FlagTypes'
  BY <1>2, Zenon DEF ProcessTypes, FlagTypes
<1>5. SchemaInv'
  BY <1>1 DEF SchemaInv
<1> QED BY <1>3, <1>4, <1>5 DEF ProcessTypes

LEMMA StepKeeps ==
  ASSUME ProcessTypes, RequestTypes, SchemaInv, ShutdownInv, ReplyInv, [Next]_vars
  PROVE  ProcessTypes' /\ RequestTypes' /\ SchemaInv' /\ ShutdownInv' /\ ReplyInv'
<1>1. CASE Begin \/ Other \/ RunStep \/ ServeStep \/ ServeFails \/ Signal
  BY <1>1, BeginKeeps, ProcessKeeps, ProcessLeavesRequests, RequestsRest
<1>2. ASSUME NEW r \in Requests, Arrive(r) \/ Handle(r)
      PROVE  ProcessTypes' /\ SchemaInv'
  <2>1. UNCHANGED <<mainVars, startVars, serverVars>>
    BY <1>2 DEF Arrive, Handle
  <2> QED BY <2>1, StillKeeps
<1>3. ASSUME NEW r \in Requests, Arrive(r)
      PROVE  RequestTypes' /\ ShutdownInv' /\ ReplyInv'
  <2>1. /\ at'[r] = "handler" /\ reply' = reply /\ seen' = seen /\ logged' = logged
        /\ \A q \in Requests \ {r} : at'[q] = at[q] /\ route'[q] = route[q]
    BY <1>3 DEF Arrive, RequestTypes
  <2>2. reply[r] = [status |-> "none", cache |-> "none"] /\ logged[r] = "none"
    BY <1>3 DEF Arrive, ReplyInv
  <2>3. RequestTypes'
    BY <1>3 DEF Arrive, RequestTypes, Stages
  <2>4. ShutdownInv'
    BY <1>3 DEF Arrive, ShutdownInv, GracefulMeansServed, mainVars, serverVars
  <2>5. ReplyInv'
    BY <2>1, <2>2 DEF ReplyInv, LogTellsStatus, OnlyAuctionsCached, IsLogged
  <2> QED BY <2>3, <2>4, <2>5
<1>4. ASSUME NEW r \in Requests, Handle(r)
      PROVE  RequestTypes' /\ ShutdownInv' /\ ReplyInv'
  <2>1. UNCHANGED <<mainVars, startVars, serverVars>> /\ RequestStep(r)
    BY <1>4 DEF Handle
  <2>2. result # "graceful"
    BY <2>1, RequestKeeps DEF ShutdownInv, GracefulMeansServed
  <2>3. ShutdownInv'
    BY <2>1, <2>2 DEF ShutdownInv, GracefulMeansServed, mainVars, serverVars
  <2> QED BY <2>1, <2>3, RequestKeeps
<1>5. CASE UNCHANGED vars
  <2> USE <1>5 DEF vars, mainVars, startVars, requestVars, serverVars
  <2>1. ProcessTypes' /\ SchemaInv'
    BY <1>5, StillKeeps DEF vars
  <2>2. ShutdownInv'
    BY DEF ShutdownInv, GracefulMeansServed
  <2> QED BY <2>1, <2>2, RequestsRest
<1> QED BY <1>1, <1>2, <1>3, <1>4, <1>5 DEF Next

LEMMA ProcessInvariant == Spec => [](ProcessTypes /\ RequestTypes /\ SchemaInv /\ ShutdownInv /\ ReplyInv)
<1>1. Init => ProcessTypes /\ RequestTypes /\ SchemaInv /\ ShutdownInv /\ ReplyInv
  <2> SUFFICES ASSUME Init PROVE ProcessTypes /\ RequestTypes /\ SchemaInv /\ ShutdownInv /\ ReplyInv
    OBVIOUS
  <2> USE DEF Init, StartInit, RequestInit
  <2>1. ProcessTypes /\ RequestTypes
    BY DEF ProcessTypes, StateTypes, FlagTypes, RequestTypes, Mains, Results, Stores, Servers,
           Statuses, Caching, Stages
  <2>2. SchemaInv /\ ShutdownInv
    BY DEF SchemaInv, ShutdownInv, GracefulMeansServed
  <2>3. ReplyInv
    BY DEF ReplyInv, LogTellsStatus, OnlyAuctionsCached
  <2> QED BY <2>1, <2>2, <2>3
<1> QED BY <1>1, StepKeeps, PTL DEF Spec

\* The variables of the process keep their types.
THEOREM ServerTypes == Spec => []TypeOK
BY ProcessInvariant, TypesSplit, PTL

\* No request is ever served from a schema that is missing, half made, or being
\* made by another process, whenever that one dies.
THEOREM OnlyMigratedIsServed == Spec => []ServesMigrated
<1>1. SchemaInv => ServesMigrated
  BY DEF SchemaInv, ServesMigrated
<1> QED BY <1>1, ProcessInvariant, PTL

\* A graceful end has cut off no request, however many there are and whenever
\* the signal, or the error of the server, comes.
THEOREM GracefulEndsServe == Spec => []GracefulMeansServed
<1>1. ShutdownInv => GracefulMeansServed
  BY DEF ShutdownInv
<1> QED BY <1>1, ProcessInvariant, PTL

\* The log of every request that has passed the middlewares agrees with its
\* response, though statusWriter and net/http keep statuses of their own: no
\* handler writes a second one, and recovery answers only where nothing has been
\* written.
THEOREM LogIsTrue == Spec => []LogTellsStatus
<1>1. ReplyInv => LogTellsStatus
  BY DEF ReplyInv
<1> QED BY <1>1, ProcessInvariant, PTL

\* Nothing but an auction that was found is marked as immutable.
THEOREM OnlyFoundIsCached == Spec => []OnlyAuctionsCached
<1>1. ReplyInv => OnlyAuctionsCached
  BY DEF ReplyInv
<1> QED BY <1>1, ProcessInvariant, PTL

=============================================================================

----------------------------- MODULE BatchRange -----------------------------
(***************************************************************************)
(* The arithmetic of Run in uint64, for every configuration that           *)
(* LoadIndexer accepts: Config checks that numbers parse, not that they    *)
(* make sense.  Sums and differences wrap around.  The chain only grows,   *)
(* and the store is left out but for the cursor: Indexer has the rest.     *)
(***************************************************************************)
EXTENDS Config

CONSTANTS
  Envs,            \* the environments a process may be started in
  MaxHead,         \* bound: the highest chain head, and what make can allocate
  MaxLoopRetries   \* maxLoopRetries, 5 in the code

\* What make can allocate is below 2^63, the bound of its int.
ASSUME RangeAssumption ==
  /\ MaxHead \in Nat /\ 2 * MaxHead <= Modulus
  /\ MaxLoopRetries \in Nat \ {0}

VARIABLES
  env,          \* the environment the process is started in
  cfg,          \* its configuration, Error before it is loaded
  pc,           \* start, head, logs, headers, commit; refused, stopped, panic
  chainHead,    \* the head of the chain
  cursor, from, to,
  consecutiveErrors

vars == <<env, cfg, pc, chainHead, cursor, from, to, consecutiveErrors>>

Add(a, b) == (a + b) % Modulus
Sub(a, b) == (a - b) % Modulus

Init ==
  /\ env \in Envs
  /\ cfg = Error
  /\ pc = "start"
  /\ chainHead \in 0..MaxHead
  /\ cursor = 0 /\ from = 0 /\ to = 0
  /\ consecutiveErrors = 0

Refused ==
  /\ pc = "start"
  /\ LoadIndexer(env) = Error
  /\ pc' = "refused"
  /\ UNCHANGED <<env, cfg, chainHead, cursor, from, to, consecutiveErrors>>

StartingCursor(start) == IF start > 0 THEN Sub(start, 1) ELSE 0

\* The tables are empty when the process starts for the first time.
Load ==
  /\ pc = "start"
  /\ LoadIndexer(env) # Error
  /\ cfg' = LoadIndexer(env)
  /\ cursor' = StartingCursor(cfg'.startBlock)
  /\ pc' = "head"
  /\ UNCHANGED <<env, chainHead, from, to, consecutiveErrors>>

LoopError ==
  /\ consecutiveErrors' = consecutiveErrors + 1
  /\ pc' = IF consecutiveErrors' >= MaxLoopRetries THEN "stopped" ELSE "head"
  /\ UNCHANGED <<env, cfg, chainHead, cursor, from, to>>

\* With RETRY_MAX_RETRIES below zero RoundTrip makes no attempt, and returns
\* neither a response nor an error, which http.Client turns into an error.
CallsWork == cfg.maxRetries >= 0

CallFails ==
  /\ pc = "head"
  /\ ~ CallsWork
  /\ LoopError

SafeHead == Sub(chainHead, cfg.confirmations)

\* [mutant] the head is not compared with the confirmations
NothingToDo_Unguarded == cursor >= SafeHead

NothingToDo == chainHead < cfg.confirmations \/ cursor >= SafeHead

Min2(a, b) == IF a < b THEN a ELSE b

TakeRange ==
  /\ pc = "head"
  /\ CallsWork
  /\ ~ NothingToDo
  /\ from' = Add(cursor, 1)
  /\ to' = Min2(Add(cursor, cfg.blockBatchSize), SafeHead)
  /\ pc' = "logs"
  /\ UNCHANGED <<env, cfg, chainHead, cursor, consecutiveErrors>>

ReadLogs ==
  /\ pc = "logs"
  /\ pc' = "headers"
  /\ UNCHANGED <<env, cfg, chainHead, cursor, from, to, consecutiveErrors>>

\* A node may refuse a range that ends before it begins.
RangeRefused ==
  /\ pc = "logs"
  /\ to < from
  /\ LoopError

\* [mutant] a slot is missing
Slots_OneTooFew == Sub(to, from)

Slots == Add(Sub(to, from), 1)

\* make cannot allocate the slots, or headers[to-from] is out of range.
Panics == Slots > MaxHead \/ Sub(to, from) >= Slots

\* [mutant] a HEADER_CONCURRENCY that is not positive goes to SetLimit as it is
Concurrency_AsGiven == cfg.headerConcurrency

Concurrency == IF cfg.headerConcurrency <= 0 THEN 1 ELSE cfg.headerConcurrency

\* SetLimit(0) would keep every fetch from starting, and Run from going on.
FetchHeaders ==
  /\ pc = "headers"
  /\ ~ Panics
  /\ Concurrency # 0
  /\ pc' = "commit"
  /\ UNCHANGED <<env, cfg, chainHead, cursor, from, to, consecutiveErrors>>

Panic ==
  /\ pc = "headers"
  /\ Panics
  /\ pc' = "panic"
  /\ UNCHANGED <<env, cfg, chainHead, cursor, from, to, consecutiveErrors>>

Commit ==
  /\ pc = "commit"
  /\ cursor' = to
  /\ consecutiveErrors' = 0
  /\ pc' = "head"
  /\ UNCHANGED <<env, cfg, chainHead, from, to>>

ChainGrows ==
  /\ chainHead < MaxHead
  /\ chainHead' = chainHead + 1
  /\ UNCHANGED <<env, cfg, pc, cursor, from, to, consecutiveErrors>>

RunStep ==
  \/ Refused \/ Load \/ CallFails \/ TakeRange \/ ReadLogs \/ RangeRefused
  \/ FetchHeaders \/ Panic \/ Commit

Next == RunStep \/ ChainGrows

Spec == Init /\ [][Next]_vars
FairSpec == Spec /\ WF_vars(RunStep)

\* The cursor stays in the range of its type, and an accepted configuration has
\* every number in the range of its own.
TypeOK ==
  /\ chainHead \in 0..MaxHead
  /\ {cursor, from, to} \subseteq Uint64
  /\ pc \notin {"start", "refused"} =>
       /\ {cfg.blockBatchSize, cfg.confirmations, cfg.startBlock} \subseteq Uint64
       /\ {cfg.headerConcurrency, cfg.maxRetries} \subseteq Int64

\* No batch leaves a gap to the one before, none is empty or too long, and
\* none reads a block that is before START_BLOCK or not confirmed yet, however
\* the unsigned numbers of Run wrap around.
RangeIsSound ==
  pc = "commit" =>
    /\ from = cursor + 1
    /\ from >= cfg.startBlock
    /\ to \in from..(cursor + cfg.blockBatchSize)
    /\ to + cfg.confirmations <= chainHead

\* Run panics only for a BLOCK_BATCH_SIZE of 0, or for one so large that the
\* end of a batch wraps around.
PanicMeansMisconfigured ==
  pc = "panic" =>
    cfg.blockBatchSize = 0 \/ cursor + cfg.blockBatchSize >= Modulus

\* A process runs only if each of the eight numbers of its environment is missing,
\* or is the number it runs with: none is replaced by a default, by its value
\* modulo 2^64, or by another variable's.  The one exception is stated by the code
\* and its test: a HEADER_CONCURRENCY that is not positive is run as 1
\* (TestIndexer_HeaderConcurrencyDefaultsToOne).
RunsAsConfigured ==
  pc \notin {"start", "refused"} =>
    /\ env.CHAIN_ID \in {Unset, cfg.chainID}
    /\ env.POLL_INTERVAL \in {Unset, cfg.pollInterval}
    /\ env.BLOCK_BATCH_SIZE \in {Unset, cfg.blockBatchSize}
    /\ env.CONFIRMATIONS \in {Unset, cfg.confirmations}
    /\ env.START_BLOCK \in {Unset, cfg.startBlock}
    /\ env.RETRY_MAX_RETRIES \in {Unset, cfg.maxRetries}
    /\ env.RETRY_BASE_DELAY \in {Unset, cfg.baseDelay}
    /\ \/ env.HEADER_CONCURRENCY \in {Unset, Concurrency}
       \/ env.HEADER_CONCURRENCY \in Int64 \ 1..Modulus /\ Concurrency = 1

\* Whatever it is given, the process refuses to start, ends, or indexes what
\* there is to index: no accepted configuration makes it hang.
AdvancesOrEnds ==
  <>[](\/ pc \in {"refused", "stopped", "panic"}
       \/ pc = "head" /\ (chainHead < cfg.confirmations \/ cursor >= chainHead - cfg.confirmations))

=============================================================================

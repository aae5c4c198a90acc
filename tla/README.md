# A TLA+ model of the CCA indexer

The program indexes the `AuctionCreated` events of a factory contract on an EVM
chain into PostgreSQL (`cmd/indexer`) and serves the auctions over HTTP
(`cmd/api`). This directory specifies it in TLA+, model-checks small instances
with TLC and proves the central invariants for all instances with TLAPS.

## Inventory

| Component | State | Operations | Hard behaviour | What makes it correct |
|---|---|---|---|---|
| chain indexer (`internal/indexer/indexer.go`) | `cursor`, `consecutiveErrors`, the batch being read | one poll loop: head, reorg check, logs, headers, transaction | the chain moves between any two calls; calls fail; the process is told to stop or dies | the tables are the image of one branch, and catch up with the chain |
| reorg handling (`reorg.go`) | the ancestor of the walk | `detectReorg`, `handleReorg` | a reorg during the walk, block 0, unstored blocks, `maxReorgDepth` | nothing of the branch that is left survives, nothing more is lost than must be |
| store (`internal/store`) | cursor, blocks, raw events, auctions | inserts with `ON CONFLICT DO NOTHING`, deletes from a block, one transaction per batch; migrations at the start | a COMMIT that is applied but not acknowledged, or late; transactions left behind; locks; rows kept on a conflict; a migration cut short | rows of the four tables always belong together; no writer waits for ever |
| event handlers (`handler.go`, `handlers/`) | the registry | dispatch by topic, decode, insert | a failing log fails the batch | every log gives its event and its auction |
| RPC transport (`internal/eth`) | per request: attempt, body, open responses | `RoundTrip` | retries, cancellation in a pause, no timeout of its own | no leaked response, the whole body each time, all attempts used |
| header fetches (`indexer.go:182-216`) | slots, group error, context | `errgroup` with a limit | the first error cancels the rest | no empty slot, no goroutine left, the limit kept |
| API process (`cmd/api/main.go`) | `errCh`, `ctx`, server, pool | start, select, shutdown, deferred close | signal, server failure and requests race | it ends; a graceful stop has served everybody; errors are returned |
| API requests (`internal/api`) | per request: status in `statusWriter`, response, logger | middleware chain, auction, health | a status is kept twice, by `statusWriter` and by net/http; panics pass `requestLogger`; `immutable` answers of rows that a rollback takes away | the log agrees with the response; cached answers stay true |
| configuration (`internal/config`) | the environment | parsing, defaults, validation | numbers that parse and make no sense, in unsigned arithmetic | no number that is given is replaced (but a concurrency below 1, by 1); the process never hangs or leaves a gap |
| logging, domain types, simulations | none | formatting, scripts | - | - |

The indexer calls the node through the transport and writes to the store in one
transaction per batch or rollback; the API process only reads the store. The two
processes share nothing but the tables. `PROJECT.json` lists the components, the
code's hazards line by line, and the source lines of each definition.

## Modules

* `Ethereum` (external to the code) is the chain: a tree of blocks, of which one
  branch is canonical. A hash commits to its ancestry, so a hash IS the sequence
  of labels from block 1 up; its ancestors are its prefixes. `Mine` grows the
  canonical chain, `Reorg` replaces any part of it that is not final; a block is
  final once it has been `FinalityDepth` below the head. `LogsOf` and `HeaderAt`
  answer calls from the chain of that moment.
* `Store` is the committed content of the tables and the effect of each
  statement. `indexedBlocks` is a function from heights to hashes, events and
  auctions are sets of rows with the primary keys of the migration.
* `Indexer` is the process: `pc` names the next call of `Run` or `handleReorg`.
  Each action is everything from one call to the node (or transaction) to the
  next; a database read shares the step of the RPC call after it because the
  indexer is the only writer. `GetHead`/`NothingToDo`, `DetectReorg`/
  `DetectNoReorg`, `FilterLogs`, `FetchHeader(n)`, `CommitBatch`, `WalkBack`,
  `Rollback` are the successes; `...Fails` and `...AckLost` the failures, with
  what `handleLoopError` or the caller makes of them; `Signal`, `Crash`,
  `Restart` and `ChainStep` are the environment. The constant `Faults` selects
  the failures that may happen; `MidBatchReorgs` says whether a reorg may strike
  between the calls that read one batch.
* `IndexerProperties` states the properties, the fairness and the refinement;
  `Mirror` is the abstract specification: the tables show one branch, and a
  transaction extends it by at most a batch or cuts it back. `MCIndexer` gives the
  constants values.
* Three modules add one variable each to `Indexer`, and `MCHistory` (the first
  two) and `MCCaches` check them with those values: `RetryBudget` counts the iterations that fail in a
  row; `ReorgWalk` remembers whether the chain has left its branch since
  `detectReorg` saw the reorg in work; `Caches` holds the answers of `Get` that
  caches keep as immutable.
* `Transactions` takes the transactions of `Indexer` apart: `WithTx` begins one,
  `HandleLogs` inserts the event and the auction of each log, the blocks and the
  cursor follow, or the three deletes and the cursor of a rollback, and `work` is
  what the transaction sees until COMMIT. The chain moves, and the process stops
  or dies, between any two statements. `Poison` holds transactions whose log can
  never be handled: data that does not decode, or a uint64 beyond BIGINT, which
  fails in the second insert. `ImplementsIndexer` is the refinement to `Indexer`
  (a poisonous log is there a transaction that fails); the tables of `Indexer`
  change only at COMMIT, so what is proved of them carries over
  (`StatementsKeepTables`, `StatementsMirror`, `StatementsStayCanonical`).
* `Writers` is the database with several sessions: two indexers of one chain,
  transactions that a crash or a lost connection leaves behind, COMMITs that
  arrive late, the wait of an INSERT for an uncommitted row of the same key, and
  `idle_in_transaction_session_timeout`, which `postgres.New` sets. It takes the
  statements in their order but abstracts rows to their table and block, which is
  enough where blocks are final (see `Canonical` and `NeverRollsBack`).
* `Config` is the environment as `LoadIndexer` reads it, `BatchRange` the
  arithmetic of `Run` in uint64 for whatever passes: `Add` and `Sub` wrap around.
* `RetryTransport` is `RoundTrip` for a set of concurrent requests that share a
  context; `HeaderFetch` is the errgroup over it. `Indexer` abstracts both to
  `FetchHeader` and `FetchHeadersFails`: a slot is filled or the batch fails.
  `FetchedInOrder` says that the calls begin in the window that `Started` of
  `Indexer` allows.
* `Startup` is `postgres.New`: pool, ping and migrations, beside another process
  that migrates and may die over it. `ApiRequest` is one request: its route
  through the middlewares, its connection, and its response: `Write` tells
  `statusWriter` (`seen`) and net/http (`Header`), `Return` and `Panics` log.
  `ApiServer` extends both with `run` of `cmd/api`: its goroutine, its channel,
  its contexts, the shutdown and the closing of the pool.
* `IndexerProofs` (types, finality), `TablesProofs` (the tables and the process
  under every reorg, `Mirror`), `HistoryProofs` (`RetryBudget`, `Caches` and
  `ReorgWalk`), `TransactionsProofs`,
  `WritersProofs`, `BatchRangeProofs`, `HeaderFetchProofs` (group and transport)
  and `ApiServerProofs` hold the theorems; each extends the module it is about.

Definitions marked `[mutant]` are plausible mistakes, kept beside the definition
they distort; `PROJECT.json` says which property notices which mutant.

## What is abstracted

Logs carry what tells them apart: block, transaction, hash. A transaction emits
one `AuctionCreated`, so `log_index` is not needed. A block has at most one
creation of an address per branch (`TxAssumption`: CREATE2 addresses are unique
on a branch, but two branches may create the same one by different
transactions). `parent_hash` is stored but never read by the code and is left
out. Poll intervals and pauses are steps without time. In `Indexer` integers are
unbounded, `BlockBatchSize` is positive and there is one writer: the code checks
none of this, and `BatchRange` and `Writers` show what becomes of it;
`SaneRangesAreTrue` proves that for a positive batch size that does not wrap around
above the chain the ranges of uint64 are those of unbounded integers. One event is
registered, so `HandleLogs` has one group, and no handler of the program takes its
batch path. `Writers` has no rollbacks: two indexers below finality are not
claimed to be safe. The environment of `Config` is a record of values, unset or
junk; the durations are numbers. Replies are a status and a Cache-Control.

## Runs

Chains of `MCIndexer` have two labels; the branches are a...ab...b, so that they
part at every height up to `MaxFork`. An auction of the same address is created in block 1 or 2
by one of two transactions, depending on the branch: a rollback must take one
away before the other is written. Batches have two blocks and two fetches at a
time, so that batches are partly filled, headers come in both orders, and several
batches, rollbacks and restarts follow each other. The bounds are the height of
the tree (`MaxHeight`), `MaxFork`, `MaxLoopRetries` (5 in the code) and
`MaxReorgDepth` (128 in the code): what matters is that they are reached or, as
8, are beyond every height. All state spaces are finite without a constraint.

| Run | Setting | Shows |
|---|---|---|
| `reorgs` | reorgs at any time, height 4, MaxReorgDepth 3, failing calls and transactions, signals, crashes | `TypeOK`; `CursorIsTop`: no hole, no stray block, cursor row equal to the last block; `RowsAreRelated`: events and auctions follow their blocks; `CursorIsDurable`: the memory of the process never runs ahead of the row; `RowsMoveWithCursor`: transactions are atomic |
| `quiet` | no reorg while one batch is read, START_BLOCK 2, MaxReorgDepth 3, height 5 with branches that part from the fourth block down, signals and crashes, scheduled but with no call that has to succeed | `OneBranch`, the refinement of `Mirror`; `GivesUpInTime`: `maxLoopRetries` failed iterations in a row end `Run`; `ShutsDown`: a signal at any step ends the process. Reorgs between the walk's steps, before the COMMIT and between batches are included, and so are walks that end too deep. Unless the chain leaves its branch during the walk: `TakesAllOrphans`: a rollback deletes exactly the blocks that are off the chain; `DeepIsDeep`: it is refused only if `maxReorgDepth` blocks are, or all that are stored |
| `final` | Confirmations = FinalityDepth = 2, height 6, every fault including lost acknowledgements, and caches that keep answers for any time | `Canonical`, `NeverRollsBack`; `CachedIsStored`: no answer ever differs from its row |
| `live` | reorgs at any time, failing calls and transactions, fair | `CatchesUp` |
| `headers` | three headers, two at once, one retry | the properties of transport and errgroup, and `FetchedInOrder` |
| `statements` | transactions statement by statement, height 4, reorgs except while a batch is read, every fault, one log that cannot be handled on one of the branches | `ImplementsIndexer`; `NothingSkipped`: no block with such a log is ever stored, so the cursor stays below it |
| `two` | two processes, START_BLOCK 2, batches of two, logs in blocks 2 and 3, safe head up to 4, two faults of any kind | `NothingMissing`: whoever commits, and however late, no block below a stored one, the cursor row or a cursor is missing; `NoDeadlock`: the order in which `HandleLogs` and `Run` insert keeps two writers from waiting for each other; `EveryBlockStored` |
| `config` | integers of 4 bits, heads up to 7; environments with one defect each, and 240 combinations of batch size, confirmations, start block and concurrency, 0 and the largest included | `RangeIsSound`: no gap, no unconfirmed block, no batch that is empty or too long; `PanicMeansMisconfigured`: `make` and `headers[to-from]` fail only for a batch size of 0 or one that wraps around; `RunsAsConfigured`: each of the eight numbers is missing or is the one `Run` works with, but for a `HEADER_CONCURRENCY` below 1, which `indexer.go:183` runs as 1; `AdvancesOrEnds`: negative retries, no concurrency and refused ranges end the process or leave it working |
| `api` | start beside another migration, two requests, one connection, signal, failing server, failing queries, panics | `GracefulMeansServed`, `EndsWhenTold`; `ServesMigrated`: never a schema that is absent, in the making or dirty; `LogTellsStatus`, `OnlyAuctionsCached`, `HealthAnswers` |

Between them the runs take every action. `headers`, `api` and `config` stop when
their work is done, and `two` when every block is stored, so deadlock is not
checked there. The bounds of `quiet` and of the last four: height 5 leaves room
for a rollback of one or two blocks out of several, and for one that is refused;
a batch of two blocks with logs in both needs a height of 4 to be followed by
another one; two faults make a process, its successor and the other one hold
transactions at the same time; with four bits every sum and difference of the
code wraps around for some environment; two requests and one connection leave
one request waiting.

### Disagreements

Each of these runs violates one statement of the repository (`PROJECT.json`,
`findings`):

* `mixed_batch`: a reorg between `FilterLogs` and the header fetches commits
  events of the orphaned branch below canonical hashes, where no later check
  finds them. Nothing compares the `BlockHash` of a log with the header.
* `too_deep`: with START_BLOCK at or above `maxReorgDepth`, losing the only
  stored block counts as a reorg deeper than `maxReorgDepth`, after every restart
  too.
* `api_error`: the error of a server that cannot listen may be lost to the
  `ctx.Done()` case.

Seen while modelling, without a run of their own:

* A COMMIT whose acknowledgement is lost and then a reorg: `Run` goes on from its
  older cursor, so the batch is read again from the new branch, and `ON CONFLICT
  DO NOTHING` keeps the old rows below a canonical cursor row (`ReorgSafe` fails in
  `mixed_batch` with `Faults = {"lostack"}` and `MidBatchReorgs = FALSE`; hence
  `quiet` leaves this fault out).
* With fewer confirmations than finality needs (the default is none), an auction
  given away as "immutable on-chain data" (`internal/api/handlers/auction.go:15`) is
  deleted by a rollback: `CachedIsStored` fails in `final` with `Confirmations = 0`.
* A signal during the load of the cursor or inside `handleReorg` makes the
  process exit with status 1: the error is wrapped, and `main` compares it with
  `context.Canceled` by identity (`cmd/indexer/main.go:61`).
* Errors with quiet polls between them add up to `maxLoopRetries`
  (`indexer.go:84`), though `simulate/resilience/README.md:10` calls them
  consecutive.
* A log that cannot be handled stops the indexer for good (`NothingSkipped`); so
  does a version left dirty by a crash in the migrations.
* `BLOCK_BATCH_SIZE` 0, or near 2^64, panics; a negative `RETRY_MAX_RETRIES` makes
  every call fail.
* A request whose handler panics has no "request completed" line, though
  `middleware.go:86` speaks of each request; recovery logs it. No handler can
  panic once it has written (it only copies and encodes fields that are set), so
  a panic after a partial answer is not modelled.
* `requestLogger` logs before net/http flushes a short response. If `WriteTimeout`
  has passed or the client has gone, 200 is logged for an answer that nobody gets;
  `LogTellsStatus` speaks of the response as written.
* `IsHexAddress` accepts an address without 0x, which then finds no row.

## Fairness

`Scheduling` is weak fairness of the process's own steps and of its restart:
goroutines run, timers fire, the supervisor restarts. `FairCalls` is strong
fairness of each successful call, at each stage of a batch (after k headers) and
at each height of a walk: a call tried again and again at the same stage works at
last. Without it a node that fails for ever keeps the indexer from anything; a
weaker form would let every batch fail at its last header for ever. Nothing is assumed of the
chain: `CatchesUp` speaks of behaviours where it comes to rest. `ShutsDown` needs
`Scheduling` only. In `HeaderFetch` no call has to be answered, since the HTTP
client has no timeout; only a cancelled call must return. In `ApiServer` goroutines
run, the database answers the queries it is asked, as `pool.Close()` waits for
them, and migrations end or fail, as golang-migrate bounds the wait for its lock;
a request may wait for a connection for ever. In `Writers` each process
takes steps and is restarted, and the server ends an idle transaction; faults are
bounded by `MaxFaults`, because nothing keeps a database that fails for ever from
stopping the work. `BatchRange` needs weak fairness of the loop alone: its head
grows a finite number of times.

## Proofs

Every invariant, every action property and both refinements that a passing run
checks are proved for all values of the constants: block trees of any height and
branching, any batch size, number of requests, writers, faults and retries. The
inductive invariants were checked by TLC on the instances of the runs first.

*Types and finality* (`IndexerProofs`).

* `TypeCorrect`: `Spec => []TypeOK`. `TypeOK` is not inductive: the row written
  at COMMIT takes `headers[To]`, so `BatchIsReady` (the range read is not empty,
  its last header is there) is added and proved as `BatchAlwaysReady`.
* `TablesAreCanonical`, `ReorgsAreNeverSeen`, `AuctionsNeverChange`: if
  `FinalityDepth <= Confirmations`, the tables are those of the canonical chain,
  no rollback happens and no auction ever changes, with every fault and reorgs at
  every moment. The inductive invariant `FinalityInv` says that the safe head, the
  logs and headers read so far and all that is stored lie in the final part of
  the chain. `AncestorOfAncestor` and `FinalStays` show that this part does not
  move; `EventsMerge` and `AuctionsMerge` show that `ON CONFLICT DO NOTHING`
  loses nothing between rows of one branch, so that repeating a batch after a
  lost acknowledgement is harmless.

*The tables when blocks are not final* (`TablesProofs`), if `"lostack" \notin
Faults`: no COMMIT is applied whose acknowledgement is lost to a process that goes
on. The assumption is needed: with that fault TLC refutes each of the four
properties, since the process then works with an older cursor than the tables.

* `BlocksAreGapless` (`CursorIsTop`), `RowsStayRelated`, `CursorStaysDurable` and
  `RowsMoveOnlyWithCursor`, whatever reorgs come at whatever moment. They are
  inductive only together, as `TablesIInv`: `RangeInv` fixes where the range of
  blocks may begin (at START_BLOCK, or at 1 if that is 0 or after a rollback to 0),
  and `WorkInv` says that the batch in work lies above the cursor row, that its
  headers are all there at COMMIT, and that the walk back ends at a stored block,
  at 0 or too deep. Without the last part a rollback could leave a cursor row
  without its block.
* `RowsAreOfOneBranch` and `IndexerMirrors`, if moreover `~ MidBatchReorgs`, which
  `mixed_batch` shows to be needed; `CanonicalCursorIsEnough` follows: `ReorgSafe`,
  which `mixed_batch` refutes in general, holds under these two assumptions. `FollowInv` relates the batch to a branch: it
  is the canonical one until the last header is read, and some branch of the tree
  from then on, as the chain may leave it before COMMIT. For the refinement,
  `ImageInv` says which image `Mirror` sees, and every transaction is mapped to
  `Start`, `Extend`, `Retreat` or `Clear`, every other step to a stutter.

*What came before* (`HistoryProofs`).

* `BudgetIsKept` (`GivesUpInTime`): the history variable never runs ahead of
  `consecutiveErrors`, which is below the budget while the process runs.
* `AnswersStayTrue` (`CachedIsStored`), if `FinalityDepth <= Confirmations`: from
  the invariant of `TablesAreCanonical`, under which no auction ever goes.
* `RollbackTakesOrphans` (`LosesOnlyOrphans`: a rollback deletes only blocks that are
  off the chain), with `TablesIInv`, so without lost acknowledgements but with reorgs
  inside batches; `RollbackIsExact` (`TakesAllOrphans`), if moreover
  `~ MidBatchReorgs`; `DeepReorgsAreDeep` (`DeepIsDeep`) for every START_BLOCK: what
  `too_deep` refutes is true unless every stored block is gone. `WalkInv` says that,
  while the chain only grows, every block above the ancestor of the walk is off the
  chain, and that the walk ends on the chain, at 0, or too deep. That the blocks at
  and below the ancestor are all canonical follows from `OneBranch`: blocks of one
  branch that agree with the chain at one height agree with it below.

*Transactions* (`TransactionsProofs`).

* `StatementsAreOneStep`: `TxSpec => ImplementsIndexer` for every setting, lost
  acknowledgements and reorgs inside a batch included. `TxInv` says, for each
  statement, what the transaction sees (`Seen`): the committed tables and the rows
  that it has inserted so far, or those left after the deletes so far. At COMMIT
  this is what `BatchTx` or `RollbackTx` of `Indexer` compute in one step.
* Hence `StatementsKeepTables` (`CursorIsTop`, `RowsAreRelated`), `StatementsMirror`
  and `StatementsStayCanonical`, each under the assumptions of its counterpart of
  `Indexer`: they are proved of the statements, not of the single steps.
* `NoLogIsSkipped` (`NothingSkipped`), if `~ MidBatchReorgs`: otherwise the logs
  may be those of another branch than the headers. `UnmovedInv` ties both to
  one branch, `HandledInv` says that the logs done so far could be handled.

*Several writers* (`WritersProofs`), for any number of processes and of
transactions that nobody looks after.

* `NothingGoesMissing` (`NothingMissing`): what is complete in the tables stays
  so, as rows are only added. `WholeInv` demands of every open transaction, with
  or without a client, that the tables are complete below its batch and that each
  row of the batch is still to come, inserted, or committed by another one:
  passing over a row because of a conflict is safe as that row is committed.
* `WritersNeverDeadlock` (`NoDeadlock`) and, stronger, `WaitingClimbs`: a
  transaction has inserted only rows of lower rank than those still to come
  (`OrderInv`), so a waiting one is behind the one it waits for. That rules out
  circles of any length, of which TLC with two processes sees the shortest.

*Arithmetic* (`BatchRangeProofs`). `NumbersStayInRange`, `BatchesAreSound`,
`PanicsAreMisconfigured` and `EnvironmentIsTaken` for every `Modulus` and every set
of environments: 2^64 and the code's defaults are an instance. The lemmas `Wraps`,
`SumWraps` and `DifferenceWraps` say what `Add` and `Sub` return; `ArithInv` keeps
the three ways in which a range may have come about (sound, of a batch size of 0,
or wrapped around) until `make` and `headers[to-from]` tell them apart.
`SaneRangesAreTrue`: with a batch size between 1 and `Modulus - MaxHead` nothing
wraps around, which is what lets `Indexer` compute with unbounded integers.

*Transport and header fetches* (`HeaderFetchProofs`). `HeadersAreComplete`,
`LimitIsKept`, `WindowIsKept` and `NothingIsLeftRunning` of the group; `NothingLeaks`,
`EveryAttemptIsWhole`, `AttemptsAreUsedUp` and `TransportTypesHold` of each request.
`FetchInv` speaks of the slots, `TransportInv` of the calls, `GroupInv` joins them:
a call has begun when its goroutine has and is over before it.

*API process* (`ApiServerProofs`). `ServerTypes`, `OnlyMigratedIsServed`,
`GracefulEndsServe`, `LogIsTrue` and `OnlyFoundIsCached`. `SchemaInv` needs who
holds the lock of the migrations (a version is dirty as long as somebody does) and
that the store is closed by `main` alone; `ShutdownInv` that no listener accepts
once the shutdown has begun; `ReplyInv` that a request has no response before its
handler writes one and no log line before it is over, and that in between
`statusWriter` and net/http, which keep the last and the first status they are
told, have been told the same: that is what `LogIsTrue` rests on, and what a
handler that writes twice would break.

The theorems rest on the named assumptions of the modules, which TLC evaluates in
the runs: `BlockTreeAssumption`, `TxAssumption`, `ConfigAssumption` and their like,
for `BatchRange` that the defaults are numbers of their type (`Modulus >= 12`), that
what does not parse is no number and only stands where a number is read, and that
no slice longer than 2^63 is made (`2 * MaxHead <= Modulus`).

Model-checked only: the liveness properties, which are out of reach of the prover
(`CatchesUp`, `ShutsDown`, `CancelEndsGroup`, `AdvancesOrEnds`, `EveryBlockStored`,
`EndsWhenTold`, `HealthAnswers`). The disagreements are refuted by TLC.

## Not modelled

Logging, response bodies, ABI decoding (it succeeds or fails), the encoding of
columns, the SQL of the migrations beyond their tables: formats without control
flow. The lengths of back-off pauses: the overflow of `1<<(attempt-1)` needs more
than thirty retries and shortens a pause, which no property sees. Dialling the
node, which fails before there is any state. Several chains in one database:
every statement names its `chain_id`. The simulations are scripts for
manual runs. `PROJECT.json` gives the reasons per component.

## What remains

That a batch repeated after a lost acknowledgement does no harm as long as no reorg
comes between is checked in no run of its own: the theorems about the tables exclude
the fault altogether, those about finality include it. Several chains in one
database, and two indexers below finality, remain to be modelled.

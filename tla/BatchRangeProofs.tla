-------------------------- MODULE BatchRangeProofs --------------------------
(***************************************************************************)
(* Proofs about the arithmetic of Run in unsigned numbers, for every       *)
(* Modulus and every environment: where sums and differences wrap around,  *)
(* and where they do not.                                                  *)
(***************************************************************************)
EXTENDS BatchRange, TLAPS

(***************************************************************************)
(* The configuration.                                                      *)
(***************************************************************************)
\* What ParseEnv takes is the default of an unset variable or a number in range.
LEMMA Parses ==
  ASSUME NEW v, NEW range, NEW default \in range, ParseEnv(v, range, default) # Error
  PROVE  /\ ParseEnv(v, range, default) \in range
         /\ v \in {Unset, ParseEnv(v, range, default)}
         /\ v = Unset \/ v \in range
BY DEF ParseEnv

LEMMA Defaults ==
  /\ 0 \in Uint64 /\ DefaultBatchSize \in Uint64
  /\ 0 \in Int64 /\ 1 \in Int64 /\ 5 \in Int64
BY ModulusAssumption DEF Uint64, Int64

\* A configuration that is accepted has every number in the range of its type.
Ranged(c) ==
  /\ {c.blockBatchSize, c.confirmations, c.startBlock} \subseteq Uint64
  /\ {c.headerConcurrency, c.maxRetries} \subseteq Int64

LEMMA LoadedConfig ==
  ASSUME NEW e, LoadIndexer(e) # Error
  PROVE  LoadIndexer(e) = LoadBase(e) /\ ValidBase(LoadBase(e))
BY DEF LoadIndexer, LoadAPI

LEMMA LoadedNumbers ==
  ASSUME NEW e, LoadIndexer(e) # Error
  PROVE  LET c == LoadIndexer(e) IN
         /\ Ranged(c)
         /\ e.CHAIN_ID \in {Unset, c.chainID} /\ e.POLL_INTERVAL \in {Unset, c.pollInterval}
         /\ e.BLOCK_BATCH_SIZE \in {Unset, c.blockBatchSize}
         /\ e.CONFIRMATIONS \in {Unset, c.confirmations}
         /\ e.START_BLOCK \in {Unset, c.startBlock}
         /\ e.HEADER_CONCURRENCY \in {Unset, c.headerConcurrency}
         /\ e.RETRY_MAX_RETRIES \in {Unset, c.maxRetries}
         /\ e.RETRY_BASE_DELAY \in {Unset, c.baseDelay}
<1> DEFINE c == LoadBase(e)
<1>1. LoadIndexer(e) = c /\ \A f \in DOMAIN c : c[f] # Error
  BY LoadedConfig DEF ValidBase
<1>2. /\ c.chainID = ParseEnv(e.CHAIN_ID, Int64, 0)
      /\ c.pollInterval = ParseEnv(e.POLL_INTERVAL, Int64, 1)
      /\ c.blockBatchSize = ParseEnv(e.BLOCK_BATCH_SIZE, Uint64, DefaultBatchSize)
      /\ c.confirmations = ParseEnv(e.CONFIRMATIONS, Uint64, 0)
      /\ c.startBlock = ParseEnv(e.START_BLOCK, Uint64, 0)
      /\ c.headerConcurrency = ParseEnv(e.HEADER_CONCURRENCY, Int64, 1)
      /\ c.maxRetries = ParseEnv(e.RETRY_MAX_RETRIES, Int64, 5)
      /\ c.baseDelay = ParseEnv(e.RETRY_BASE_DELAY, Int64, 1)
  BY DEF LoadBase
<1>3. {"chainID", "pollInterval", "blockBatchSize", "confirmations", "startBlock",
       "headerConcurrency", "maxRetries", "baseDelay"} \subseteq DOMAIN c
  BY DEF LoadBase
<1>4. /\ c.chainID # Error /\ c.pollInterval # Error /\ c.blockBatchSize # Error
      /\ c.confirmations # Error /\ c.startBlock # Error /\ c.headerConcurrency # Error
      /\ c.maxRetries # Error /\ c.baseDelay # Error
  <2> HIDE DEF c
  <2> QED BY <1>1, <1>3
<1> HIDE DEF c
<1>5. /\ c.blockBatchSize \in Uint64 /\ c.confirmations \in Uint64 /\ c.startBlock \in Uint64
      /\ c.headerConcurrency \in Int64 /\ c.maxRetries \in Int64
      /\ e.BLOCK_BATCH_SIZE \in {Unset, c.blockBatchSize}
      /\ e.CONFIRMATIONS \in {Unset, c.confirmations}
      /\ e.START_BLOCK \in {Unset, c.startBlock}
  BY <1>2, <1>4, Parses, Defaults
<1>6. /\ e.CHAIN_ID \in {Unset, c.chainID} /\ e.POLL_INTERVAL \in {Unset, c.pollInterval}
      /\ e.HEADER_CONCURRENCY \in {Unset, c.headerConcurrency}
      /\ e.RETRY_MAX_RETRIES \in {Unset, c.maxRetries}
      /\ e.RETRY_BASE_DELAY \in {Unset, c.baseDelay}
  BY <1>2, <1>4, Parses, Defaults
<1> QED BY <1>1, <1>5, <1>6 DEF Ranged

\* A number wraps around at most once in what follows.
LEMMA Wraps ==
  ASSUME NEW a \in Int
  PROVE  /\ a % Modulus \in Uint64
         /\ a \in 0..(Modulus - 1) => a % Modulus = a
         /\ a \in Modulus..(2 * Modulus - 1) => a % Modulus = a - Modulus
         /\ a \in (-Modulus)..(-1) => a % Modulus = a + Modulus
<1>1. a % Modulus \in Uint64
  BY ModulusAssumption DEF Uint64
<1>2. a \in 0..(Modulus - 1) => a % Modulus = a
  BY ModulusAssumption
<1>3. a \in Modulus..(2 * Modulus - 1) => a % Modulus = a - Modulus
  BY ModulusAssumption
<1>4. a \in (-Modulus)..(-1) => a % Modulus = a + Modulus
  BY ModulusAssumption
<1> QED BY <1>1, <1>2, <1>3, <1>4

LEMMA SumWraps ==
  ASSUME NEW a \in Uint64, NEW b \in Uint64
  PROVE  /\ Add(a, b) \in Uint64
         /\ Add(a, b) = IF a + b < Modulus THEN a + b ELSE a + b - Modulus
<1>1. a + b \in 0..(2 * Modulus - 1) /\ Modulus \in Nat
  BY ModulusAssumption DEF Uint64
<1> DEFINE s == a + b
<1>2. s \in Int /\ Add(a, b) = s % Modulus
  BY <1>1 DEF Add
<1>3. s < Modulus => s \in 0..(Modulus - 1)
  BY <1>1
<1>4. ~ (s < Modulus) => s \in Modulus..(2 * Modulus - 1)
  BY <1>1
<1> HIDE DEF s
<1>5. /\ Add(a, b) \in Uint64
      /\ Add(a, b) = IF s < Modulus THEN s ELSE s - Modulus
  BY <1>2, <1>3, <1>4, Wraps
<1> QED BY <1>1, <1>5, ModulusAssumption DEF s, Uint64

LEMMA DifferenceWraps ==
  ASSUME NEW a \in Uint64, NEW b \in Uint64
  PROVE  /\ Sub(a, b) \in Uint64
         /\ Sub(a, b) = IF b <= a THEN a - b ELSE a - b + Modulus
<1>1. a - b \in (-Modulus)..(Modulus - 1) /\ Modulus \in Nat
  BY ModulusAssumption DEF Uint64
<1> DEFINE d == a - b
<1>2. d \in Int /\ Sub(a, b) = d % Modulus
  BY <1>1 DEF Sub
<1>3. b <= a => d \in 0..(Modulus - 1)
  BY <1>1 DEF Uint64
<1>4. ~ (b <= a) => d \in (-Modulus)..(-1)
  BY <1>1 DEF Uint64
<1> HIDE DEF d
<1>5. /\ Sub(a, b) \in Uint64
      /\ Sub(a, b) = IF b <= a THEN d ELSE d + Modulus
  BY <1>2, <1>3, <1>4, Wraps
<1> QED BY <1>5 DEF d

(***************************************************************************)
(* The range of a batch.                                                   *)
(***************************************************************************)
Loaded == pc \notin {"start", "refused"}
HoldsRange == pc \in {"logs", "headers", "commit", "panic"}

\* The cursor is below the range that was taken, which ends below the safe head
\* of then.  Either the range begins where it should, or BLOCK_BATCH_SIZE is 0
\* and it ends at the cursor, or its end has wrapped around.
RangeInv ==
  /\ from = cursor + 1
  /\ cursor < chainHead
  /\ to + cfg.confirmations <= chainHead
  /\ \/ cfg.blockBatchSize = 0 /\ to = cursor
     \/ cursor + cfg.blockBatchSize < Modulus /\ to \in from..(cursor + cfg.blockBatchSize)
     \/ /\ cursor + cfg.blockBatchSize >= Modulus
        /\ to = cursor + cfg.blockBatchSize - Modulus

ArithInv ==
  /\ TypeOK
  /\ Loaded =>
       /\ cfg = LoadIndexer(env) /\ LoadIndexer(env) # Error
       /\ cfg.startBlock > 0 => cursor >= cfg.startBlock - 1
  /\ HoldsRange => RangeInv
  /\ pc = "commit" => ~ Panics
  /\ pc = "panic" => Panics
  /\ env \in Envs

\* What Run holds are numbers.
LEMMA Numbers ==
  ASSUME ArithInv
  PROVE  /\ cursor \in Uint64 /\ from \in Uint64 /\ to \in Uint64 /\ chainHead \in Uint64
         /\ chainHead <= MaxHead
         /\ Modulus \in Nat /\ MaxHead \in Nat /\ 2 * MaxHead <= Modulus /\ 1 \in Uint64
         /\ 0 \in Uint64 /\ \A n \in Uint64 : n \in Nat /\ n < Modulus
         /\ Loaded => /\ cfg.blockBatchSize \in Uint64 /\ cfg.confirmations \in Uint64
                      /\ cfg.startBlock \in Uint64 /\ cfg.headerConcurrency \in Int
                      /\ cfg.maxRetries \in Int
<1>1. Modulus \in Nat /\ Modulus >= 12 /\ MaxHead \in Nat /\ 2 * MaxHead <= Modulus
  BY ModulusAssumption, RangeAssumption
<1>2. chainHead \in 0..MaxHead /\ cursor \in Uint64 /\ from \in Uint64 /\ to \in Uint64
  BY DEF ArithInv, TypeOK
<1>3. chainHead \in Uint64 /\ 1 \in Uint64 /\ 0 \in Uint64
  BY <1>1, <1>2 DEF Uint64
<1>4. Loaded => /\ cfg.blockBatchSize \in Uint64 /\ cfg.confirmations \in Uint64
                /\ cfg.startBlock \in Uint64 /\ cfg.headerConcurrency \in Int
                /\ cfg.maxRetries \in Int
  BY <1>1, LoadedNumbers DEF ArithInv, Ranged, Int64
<1> QED BY <1>1, <1>2, <1>3, <1>4 DEF Uint64

\* No batch has more slots than it has blocks, and Run panics on the others.
LEMMA SlotsOfRange ==
  ASSUME ArithInv, HoldsRange
  PROVE  Panics <=> ~ (cursor + cfg.blockBatchSize < Modulus
                        /\ to \in from..(cursor + cfg.blockBatchSize))
<1> DEFINE b == cfg.blockBatchSize
           m == Sub(to, from)
<1>1. Loaded /\ RangeInv
  BY DEF ArithInv, HoldsRange, Loaded
<1>2. /\ cursor \in Nat /\ from \in Uint64 /\ from \in Nat /\ to \in Uint64 /\ to \in Nat
      /\ b \in Nat /\ chainHead \in Nat /\ cfg.confirmations \in Nat
      /\ Modulus \in Nat /\ MaxHead \in Nat /\ 1 \in Uint64 /\ b < Modulus
      /\ chainHead <= MaxHead /\ 2 * MaxHead <= Modulus /\ Modulus >= 12
  BY <1>1, Numbers, ModulusAssumption
<1>3. /\ m \in Uint64 /\ m \in Nat
      /\ m = IF from <= to THEN to - from ELSE to - from + Modulus
      /\ Slots = IF m + 1 < Modulus THEN m + 1 ELSE m + 1 - Modulus
  <2>1. m \in Uint64 /\ m = IF from <= to THEN to - from ELSE to - from + Modulus
    BY <1>2, DifferenceWraps
  <2>2. m \in Nat
    BY <2>1, Numbers
  <2>3. Slots = Add(m, 1)
    BY DEF Slots
  <2> HIDE DEF m
  <2> QED BY <1>2, <2>1, <2>2, <2>3, SumWraps
<1>4. Panics <=> Slots > MaxHead \/ m >= Slots
  BY DEF Panics
<1> HIDE DEF m, b
<1>5. CASE b = 0 /\ to = cursor
  BY <1>1, <1>2, <1>3, <1>4, <1>5 DEF RangeInv, b
<1>6. CASE cursor + b < Modulus /\ to \in from..(cursor + b)
  BY <1>1, <1>2, <1>3, <1>4, <1>6 DEF RangeInv, b
<1>7. CASE cursor + b >= Modulus /\ to = cursor + b - Modulus
  BY <1>1, <1>2, <1>3, <1>4, <1>7 DEF RangeInv, b
<1> QED BY <1>1, <1>5, <1>6, <1>7 DEF RangeInv, b

\* The range that TakeRange takes.
LEMMA RangeTaken ==
  ASSUME ArithInv, TakeRange
  PROVE  RangeInv' /\ from' \in Uint64 /\ to' \in Uint64
<1> DEFINE b == cfg.blockBatchSize
           c == cfg.confirmations
<1>1. Loaded
  BY DEF TakeRange, Loaded
<1>2. /\ cursor \in Uint64 /\ cursor \in Nat /\ cursor < Modulus /\ chainHead \in Nat
      /\ b \in Uint64 /\ c \in Uint64 /\ b \in Nat /\ c \in Nat /\ b < Modulus
      /\ chainHead \in Uint64 /\ chainHead <= MaxHead /\ Modulus \in Nat /\ MaxHead \in Nat
      /\ 2 * MaxHead <= Modulus /\ 1 \in Uint64 /\ Modulus >= 12
  BY <1>1, Numbers, ModulusAssumption
<1>3. c <= chainHead /\ cursor < SafeHead
  <2>1. SafeHead \in Nat
    BY <1>2, DifferenceWraps, Numbers DEF SafeHead
  <2> QED BY <1>2, <2>1 DEF TakeRange, NothingToDo
<1>4. SafeHead = chainHead - c
  BY <1>2, <1>3, DifferenceWraps DEF SafeHead
<1>5. cursor + 1 < Modulus
  BY <1>2, <1>3, <1>4
<1>6. from' = cursor + 1
  BY <1>2, <1>5, SumWraps DEF TakeRange
<1>7. Add(cursor, b) = IF cursor + b < Modulus THEN cursor + b ELSE cursor + b - Modulus
  BY <1>2, SumWraps
<1>8. to' = IF Add(cursor, b) < SafeHead THEN Add(cursor, b) ELSE SafeHead
  BY DEF TakeRange, Min2
<1>9. UNCHANGED <<cursor, cfg, chainHead>>
  BY DEF TakeRange
<1>10. from' \in Uint64 /\ to' \in Uint64
  BY <1>2, <1>3, <1>4, <1>5, <1>6, <1>7, <1>8 DEF Uint64
<1>11. cursor < chainHead /\ to' + c <= chainHead
  BY <1>2, <1>3, <1>4, <1>7, <1>8
<1>12. \/ b = 0 /\ to' = cursor
       \/ cursor + b < Modulus /\ to' \in from'..(cursor + b)
       \/ cursor + b >= Modulus /\ to' = cursor + b - Modulus
  BY <1>2, <1>3, <1>4, <1>6, <1>7, <1>8
<1> QED BY <1>6, <1>9, <1>10, <1>11, <1>12 DEF RangeInv

\* From one batch to the next, whatever the numbers are.
LEMMA ArithStep == ArithInv /\ [Next]_vars => ArithInv'
<1> SUFFICES ASSUME ArithInv, [Next]_vars PROVE ArithInv'
  OBVIOUS
<1> USE DEF Loaded, HoldsRange
<1>1. CASE Refused
  BY <1>1 DEF Refused, ArithInv, TypeOK
<1>2. CASE Load
  <2> DEFINE c == LoadIndexer(env)
  <2>1. c # Error /\ cfg' = c /\ env' = env /\ pc' = "head" /\ cursor' = StartingCursor(c.startBlock)
        /\ UNCHANGED <<chainHead, from, to>>
    BY <1>2 DEF Load
  <2>2. Ranged(c) /\ c.startBlock \in Uint64
    BY <2>1, LoadedNumbers DEF Ranged
  <2> HIDE DEF c
  <2>3. cursor' \in Uint64 /\ (c.startBlock > 0 => cursor' >= c.startBlock - 1)
    BY <2>1, <2>2, Numbers, DifferenceWraps DEF StartingCursor
  <2> QED BY <2>1, <2>2, <2>3 DEF ArithInv, TypeOK, Ranged, c
<1>3. CASE CallFails
  BY <1>3 DEF CallFails, LoopError, ArithInv, TypeOK
<1>4. CASE TakeRange
  <2>1. UNCHANGED <<env, cfg, chainHead, cursor>> /\ pc = "head" /\ pc' = "logs"
    BY <1>4 DEF TakeRange
  <2> QED BY <1>4, <2>1, RangeTaken DEF ArithInv, TypeOK
<1>5. CASE ReadLogs
  BY <1>5 DEF ReadLogs, ArithInv, TypeOK, RangeInv
<1>6. CASE RangeRefused
  BY <1>6 DEF RangeRefused, LoopError, ArithInv, TypeOK
<1>7. CASE FetchHeaders
  <2>1. ~ Panics /\ ~ Panics'
    BY <1>7 DEF FetchHeaders, Panics, Slots
  <2> QED BY <1>7, <2>1 DEF FetchHeaders, ArithInv, TypeOK, RangeInv
<1>8. CASE Panic
  <2>1. Panics /\ Panics'
    BY <1>8 DEF Panic, Panics, Slots
  <2> QED BY <1>8, <2>1 DEF Panic, ArithInv, TypeOK, RangeInv
<1>9. CASE Commit
  <2>1. to \in from..(cursor + cfg.blockBatchSize) /\ from = cursor + 1
    BY <1>9, SlotsOfRange DEF Commit, ArithInv, RangeInv
  <2>2. cfg.startBlock > 0 => to >= cfg.startBlock - 1
    BY <1>9, <2>1, Numbers DEF Commit, ArithInv
  <2> QED BY <1>9, <2>2 DEF Commit, ArithInv, TypeOK
<1>10. CASE ChainGrows
  <2>1. chainHead' \in 0..MaxHead /\ chainHead < chainHead'
    BY <1>10, Numbers DEF ChainGrows, ArithInv, TypeOK
  <2>2. UNCHANGED <<env, cfg, pc, cursor, from, to>> /\ (Panics' <=> Panics)
    BY <1>10 DEF ChainGrows, Panics, Slots
  <2>3. HoldsRange => RangeInv'
    <3>1. HoldsRange => RangeInv /\ cfg.confirmations \in Nat
      BY Numbers DEF ArithInv
    <3> QED BY <2>1, <2>2, <3>1, Numbers DEF RangeInv
  <2> QED BY <2>1, <2>2, <2>3 DEF ArithInv, TypeOK
<1>11. CASE UNCHANGED vars
  BY <1>11 DEF vars, ArithInv, TypeOK, RangeInv, Panics, Slots
<1> QED
  BY <1>1, <1>2, <1>3, <1>4, <1>5, <1>6, <1>7, <1>8, <1>9, <1>10, <1>11 DEF Next, RunStep

LEMMA ArithInvariant == Spec => []ArithInv
<1>1. Init => ArithInv
  BY Defaults, RangeAssumption DEF Init, ArithInv, TypeOK, Loaded, HoldsRange
<1> QED BY <1>1, ArithStep, PTL DEF Spec

\* Whatever the environment holds, Run computes with numbers of its types.
THEOREM NumbersStayInRange == Spec => []TypeOK
BY ArithInvariant, PTL DEF ArithInv

\* However sums and differences of uint64 wrap around, a batch that is written
\* follows the one before, is neither empty nor too long, and is confirmed.
THEOREM BatchesAreSound == Spec => []RangeIsSound
<1>1. ASSUME ArithInv, pc = "commit" PROVE RangeIsSound
  <2>1. Loaded /\ RangeInv /\ to \in from..(cursor + cfg.blockBatchSize)
    BY <1>1, SlotsOfRange DEF ArithInv, Loaded, HoldsRange
  <2> QED BY <1>1, <2>1, Numbers DEF ArithInv, RangeInv, RangeIsSound
<1> QED BY <1>1, ArithInvariant, PTL DEF RangeIsSound

LEMMA PanicHasCause ==
  ASSUME ArithInv
  PROVE  PanicMeansMisconfigured
<1> SUFFICES ASSUME pc = "panic" PROVE PanicMeansMisconfigured
  BY DEF PanicMeansMisconfigured
<1>1. Loaded /\ RangeInv /\ ~ (cursor + cfg.blockBatchSize < Modulus
                                /\ to \in from..(cursor + cfg.blockBatchSize))
  BY SlotsOfRange DEF ArithInv, Loaded, HoldsRange
<1> QED BY <1>1 DEF RangeInv, PanicMeansMisconfigured

\* The panics of Run have one cause, which no check of the configuration stops:
\* a BLOCK_BATCH_SIZE of 0 or close to 2^64.
THEOREM PanicsAreMisconfigured == Spec => []PanicMeansMisconfigured
BY PanicHasCause, ArithInvariant, PTL

\* Whatever its environment is, a process runs with each number that it holds, a
\* HEADER_CONCURRENCY that is not positive excepted, or does not run.
THEOREM EnvironmentIsTaken == Spec => []RunsAsConfigured
<1>1. ASSUME ArithInv, Loaded PROVE RunsAsConfigured
  <2>1. cfg = LoadIndexer(env) /\ LoadIndexer(env) # Error
    BY <1>1 DEF ArithInv
  <2>2. /\ cfg.headerConcurrency \in Int64
        /\ env.HEADER_CONCURRENCY \in {Unset, cfg.headerConcurrency}
    BY <2>1, LoadedNumbers DEF Ranged
  <2>3. \/ env.HEADER_CONCURRENCY \in {Unset, Concurrency}
        \/ env.HEADER_CONCURRENCY \in Int64 \ 1..Modulus /\ Concurrency = 1
    <3>1. CASE cfg.headerConcurrency \in 1..Modulus
      BY <2>2, <3>1, ModulusAssumption DEF Concurrency, Int64
    <3>2. CASE cfg.headerConcurrency \notin 1..Modulus
      BY <2>2, <3>2, ModulusAssumption DEF Concurrency, Int64
    <3> QED BY <3>1, <3>2
  <2> QED BY <2>1, <2>3, LoadedNumbers DEF RunsAsConfigured
<1> QED BY <1>1, ArithInvariant, PTL DEF RunsAsConfigured, Loaded

\* The range of a batch in integers that do not wrap around, as in Indexer.
TrueRange ==
  /\ from' = cursor + 1
  /\ to' = Min2(cursor + cfg.blockBatchSize, chainHead - cfg.confirmations)

\* With a BLOCK_BATCH_SIZE that is neither 0 nor close to 2^64, Run never panics
\* and takes every range as if its numbers were unbounded, whatever CONFIRMATIONS,
\* START_BLOCK and HEADER_CONCURRENCY are: there Indexer may count in integers.
THEOREM SaneRangesAreTrue ==
  ASSUME \A e \in Envs : LoadIndexer(e) # Error =>
           LoadIndexer(e).blockBatchSize \in 1..(Modulus - MaxHead)
  PROVE  Spec => [](pc # "panic") /\ [][TakeRange => TrueRange]_vars
<1>1. ASSUME ArithInv, Loaded, cursor < chainHead
      PROVE  0 < cfg.blockBatchSize /\ cursor + cfg.blockBatchSize < Modulus
  <2>1. cfg.blockBatchSize \in 1..(Modulus - MaxHead)
    BY <1>1 DEF ArithInv
  <2> QED BY <1>1, <2>1, Numbers
<1>2. ArithInv => pc # "panic"
  <2> SUFFICES ASSUME ArithInv, pc = "panic" PROVE FALSE
    OBVIOUS
  <2>1. Loaded /\ HoldsRange
    BY DEF Loaded, HoldsRange
  <2>2. cursor < chainHead /\ Panics
    BY <2>1 DEF ArithInv, RangeInv
  <2>3. PanicMeansMisconfigured
    BY PanicHasCause
  <2> QED BY <1>1, <2>1, <2>2, <2>3, Numbers DEF PanicMeansMisconfigured
<1>3. ASSUME ArithInv, TakeRange PROVE TrueRange
  <2>1. Loaded /\ cfg.confirmations <= chainHead /\ cursor < SafeHead
    <3>1. Loaded
      BY <1>3 DEF TakeRange, Loaded
    <3>2. /\ cursor \in Nat /\ chainHead \in Nat /\ cfg.confirmations \in Nat
          /\ SafeHead \in Nat
      BY <1>3, <3>1, Numbers, DifferenceWraps DEF SafeHead
    <3> QED BY <1>3, <3>1, <3>2 DEF TakeRange, NothingToDo
  <2>2. SafeHead = chainHead - cfg.confirmations
    BY <1>3, <2>1, Numbers, DifferenceWraps DEF SafeHead
  <2>3. cursor < chainHead
    BY <1>3, <2>1, <2>2, Numbers
  <2>4. Add(cursor, cfg.blockBatchSize) = cursor + cfg.blockBatchSize /\ Add(cursor, 1) = cursor + 1
    BY <1>1, <1>3, <2>1, <2>3, Numbers, SumWraps
  <2> QED BY <1>3, <2>2, <2>4 DEF TakeRange, TrueRange
<1>4. []ArithInv /\ [][Next]_vars => [](pc # "panic") /\ [][TakeRange => TrueRange]_vars
  BY <1>2, <1>3, PTL
<1> QED BY <1>4, ArithInvariant, PTL DEF Spec

=============================================================================

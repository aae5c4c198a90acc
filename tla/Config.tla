------------------------------- MODULE Config -------------------------------
(***************************************************************************)
(* internal/config: the environment of a process and the configuration it  *)
(* is read into, or Error.  A variable of the environment is Unset, Junk   *)
(* (text that does not parse), or a value; a number that is out of range   *)
(* does not parse either.  LOG_LEVEL, LOG_FORMAT, HOST and PORT are        *)
(* strings with defaults that nothing can fail on and are left out.        *)
(***************************************************************************)
EXTENDS Integers

CONSTANTS
  Modulus,           \* 2^64: uint64 holds 0..Modulus - 1, int64 half of it
  DefaultBatchSize,  \* 100 in the code
  Unset, Junk, Error

ASSUME ModulusAssumption ==
  /\ Modulus \in Nat /\ Modulus >= 12   \* the defaults are in range
  /\ DefaultBatchSize \in 1..(Modulus - 1)

Uint64 == 0..(Modulus - 1)
Int64 == -(Modulus \div 2)..((Modulus \div 2) - 1)

ASSUME JunkAssumption == Junk # Unset /\ Junk \notin Uint64 \cup Int64

\* The variables that hold a number: no other can hold what does not parse.
Parsed == {"CHAIN_ID", "POLL_INTERVAL", "BLOCK_BATCH_SIZE", "CONFIRMATIONS", "START_BLOCK",
           "HEADER_CONCURRENCY", "RETRY_MAX_RETRIES", "RETRY_BASE_DELAY"}

\* [mutant] what does not parse is replaced by the default
ParseEnv_DefaultOnError(v, range, default) == IF v \in range THEN v ELSE default

\* [mutant] a number is not held against the range of its type
ParseEnv_AnyNumber(v, range, default) ==
  IF v = Unset THEN default ELSE IF v = Junk THEN Error ELSE v

\* parseUint64Env, parseIntEnv and parseDurationEnv: only an unset variable
\* takes its default.
ParseEnv(v, range, default) ==
  IF v = Unset THEN default ELSE IF v \in range THEN v ELSE Error

\* The durations are numbers of no further interest.
LoadBase(env) ==
  [databaseURL       |-> env.DATABASE_URL,
   databaseReadURL   |-> IF env.DATABASE_READ_URL = Unset THEN env.DATABASE_URL
                                                          ELSE env.DATABASE_READ_URL,
   chainID           |-> ParseEnv(env.CHAIN_ID, Int64, 0),
   rpcURL            |-> env.RPC_URL,
   factoryAddr       |-> env.FACTORY_ADDRESS,
   pollInterval      |-> ParseEnv(env.POLL_INTERVAL, Int64, 1),
   blockBatchSize    |-> ParseEnv(env.BLOCK_BATCH_SIZE, Uint64, DefaultBatchSize),
   confirmations     |-> ParseEnv(env.CONFIRMATIONS, Uint64, 0),
   startBlock        |-> ParseEnv(env.START_BLOCK, Uint64, 0),
   headerConcurrency |-> ParseEnv(env.HEADER_CONCURRENCY, Int64, 1),
   maxRetries        |-> ParseEnv(env.RETRY_MAX_RETRIES, Int64, 5),
   baseDelay         |-> ParseEnv(env.RETRY_BASE_DELAY, Int64, 1)]

\* validateBase, after the errors of loadBase.
ValidBase(cfg) ==
  /\ \A f \in DOMAIN cfg : cfg[f] # Error
  /\ cfg.databaseURL # Unset
  /\ cfg.chainID # 0

LoadAPI(env) == IF ValidBase(LoadBase(env)) THEN LoadBase(env) ELSE Error

LoadIndexer(env) ==
  IF LoadAPI(env) = Error \/ env.RPC_URL = Unset \/ env.FACTORY_ADDRESS = Unset
    THEN Error ELSE LoadBase(env)

=============================================================================

---------------------------- MODULE MCBatchRange ----------------------------
(***************************************************************************)
(* Integers of four bits, and the environments that are good, have one     *)
(* variable that is missing or junk, or any numbers for Run.               *)
(***************************************************************************)
EXTENDS BatchRange

Good ==
  [DATABASE_URL |-> 1, DATABASE_READ_URL |-> Unset, CHAIN_ID |-> 1, RPC_URL |-> 1,
   FACTORY_ADDRESS |-> 1, POLL_INTERVAL |-> 3, BLOCK_BATCH_SIZE |-> 2,
   CONFIRMATIONS |-> 1, START_BLOCK |-> 2, HEADER_CONCURRENCY |-> 2,
   RETRY_MAX_RETRIES |-> 2, RETRY_BASE_DELAY |-> 4]

Defective ==
  {[Good EXCEPT ![v] = Unset] : v \in DOMAIN Good}
    \cup {[Good EXCEPT ![v] = x] : v \in Parsed, x \in {Junk, -9, 16, 0, -1}}

MCEnvs ==
  Defective \cup
  {[Good EXCEPT !.BLOCK_BATCH_SIZE = b, !.CONFIRMATIONS = c, !.START_BLOCK = s,
                !.HEADER_CONCURRENCY = h] :
     b \in {0, 1, 2, 3, 12, 15}, c \in {0, 1, 2, 15}, s \in {0, 1, 2, 6, 15}, h \in {0, 1}}

=============================================================================

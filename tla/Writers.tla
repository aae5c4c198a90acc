------------------------------ MODULE Writers ------------------------------
(***************************************************************************)
(* Several writers of one chain in PostgreSQL.  Nothing in the code keeps  *)
(* a second indexer away, and one indexer alone has several sessions: a    *)
(* process that dies, or a connection that is lost, leaves a transaction   *)
(* behind which holds its rows until the server ends it, or whose COMMIT   *)
(* is still on its way.  Transactions are READ COMMITTED; an INSERT waits  *)
(* for the transaction that has inserted the same key.                     *)
(*                                                                         *)
(* All this is for Confirmations >= FinalityDepth.  No block that is read  *)
(* can change then and no rollback happens (IndexerProofs, Canonical and   *)
(* NeverRollsBack), so a row is named by its table and its block.          *)
(***************************************************************************)
EXTENDS Integers, Sequences, FiniteSets

CONSTANTS
  Processes,       \* the indexers of the chain
  StartBlock,      \* START_BLOCK
  BlockBatchSize,  \* BLOCK_BATCH_SIZE
  HasLog,          \* the blocks that hold an AuctionCreated log
  MaxSafeHead,     \* bound: the highest safe head
  MaxFaults        \* bound: the failures of all processes together

ASSUME WritersAssumption ==
  /\ StartBlock \in Nat
  /\ BlockBatchSize \in Nat \ {0}
  /\ MaxSafeHead \in Nat /\ MaxFaults \in Nat
  /\ HasLog \subseteq 1..MaxSafeHead

VARIABLES
  safeHead,   \* the chain head minus the confirmations
  stored,     \* the committed rows
  row,        \* the committed block of the cursor row, 0 when there is none
  pc,         \* pc[p]: load, head, tx, or stopped
  cursor,     \* cursor[p]: Run's cursor
  tx,         \* tx[p]: the transaction of p
  orphans,    \* the transactions of the server that no client looks after
  faults      \* the number of failures so far

vars == <<safeHead, stored, row, pc, cursor, tx, orphans, faults>>

FirstBlock == IF StartBlock = 0 THEN 1 ELSE StartBlock
CursorLock == [table |-> "cursor", block |-> 0]
Rows(table, blocks) == {[table |-> table, block |-> n] : n \in blocks}
BlockStored(n) == [table |-> "block", block |-> n] \in stored

\* inserted: the rows it has inserted and locked; ahead: those still to come.
NoTx == [to |-> 0, inserted |-> {}, ahead |-> {}]

RowsOfBatch(from, to) ==
  Rows("event", HasLog \cap from..to) \cup Rows("auction", HasLog \cap from..to)
    \cup Rows("block", from..to) \cup {CursorLock}

Init ==
  /\ safeHead = 0
  /\ stored = {}
  /\ row = 0
  /\ pc = [p \in Processes |-> "load"]
  /\ cursor = [p \in Processes |-> 0]
  /\ tx = [p \in Processes |-> NoTx]
  /\ orphans = {}
  /\ faults = 0

(***************************************************************************)
(* The order of the statements of a batch, and what they wait for.         *)
(***************************************************************************)
Rank(r) ==
  CASE r.table = "event" -> 2 * r.block
    [] r.table = "auction" -> 2 * r.block + 1
    [] r.table = "block" -> 2 * MaxSafeHead + 2 + r.block
    [] r.table = "cursor" -> 3 * MaxSafeHead + 3

\* [mutant] the logs are dispatched in the order of a map
NextStatements_AnyOrder(p) ==
  IF \E r \in tx[p].ahead : r.table \in {"event", "auction"}
    THEN {r \in tx[p].ahead : r.table \in {"event", "auction"}}
    ELSE {r \in tx[p].ahead : \A s \in tx[p].ahead : Rank(r) <= Rank(s)}

\* The logs in their order, each with its event before its auction, then the
\* blocks in their order, then the cursor.
NextStatements(p) == {r \in tx[p].ahead : \A s \in tx[p].ahead : Rank(r) <= Rank(s)}

LockedBy(p, q) ==
  \E r \in NextStatements(p) : r \in tx[q].inserted /\ r \notin stored

MustWait(p, r) ==
  /\ r \notin stored
  /\ \/ \E q \in Processes \ {p} : r \in tx[q].inserted
     \/ \E o \in orphans : r \in o.inserted

(***************************************************************************)
(* A process.                                                              *)
(***************************************************************************)
Load(p) ==
  /\ pc[p] = "load"
  /\ cursor' = [cursor EXCEPT ![p] = IF row = 0 /\ StartBlock > 0 THEN StartBlock - 1 ELSE row]
  /\ pc' = [pc EXCEPT ![p] = "head"]
  /\ UNCHANGED <<safeHead, stored, row, tx, orphans, faults>>

BatchEnd(p) ==
  IF cursor[p] + BlockBatchSize < safeHead THEN cursor[p] + BlockBatchSize ELSE safeHead

\* The calls to the node, then BEGIN.
Begin(p) ==
  /\ pc[p] = "head"
  /\ cursor[p] < safeHead
  /\ tx' = [tx EXCEPT ![p] = [to |-> BatchEnd(p), inserted |-> {},
                              ahead |-> RowsOfBatch(cursor[p] + 1, BatchEnd(p))]]
  /\ pc' = [pc EXCEPT ![p] = "tx"]
  /\ UNCHANGED <<safeHead, stored, row, cursor, orphans, faults>>

\* ON CONFLICT DO NOTHING for a row that is committed, else the row is inserted.
Execute(p) ==
  /\ pc[p] = "tx"
  /\ \E r \in NextStatements(p) :
       /\ ~ MustWait(p, r)
       /\ tx' = [tx EXCEPT ![p].ahead = @ \ {r},
                           ![p].inserted = IF r \in stored THEN @ ELSE @ \cup {r}]
  /\ UNCHANGED <<safeHead, stored, row, pc, cursor, orphans, faults>>

Apply(t) ==
  /\ stored' = stored \cup (t.inserted \ {CursorLock})
  /\ row' = t.to

\* [mutant] the cursor is moved in a transaction of its own, before the rows
Commit_CursorFirst(p) ==
  /\ pc[p] = "tx"
  /\ row' = tx[p].to
  /\ \/ tx[p].ahead = {} /\ stored' = stored \cup (tx[p].inserted \ {CursorLock})
                         /\ tx' = [tx EXCEPT ![p] = NoTx]
                         /\ cursor' = [cursor EXCEPT ![p] = tx[p].to]
                         /\ pc' = [pc EXCEPT ![p] = "head"]
     \/ tx[p].inserted = {} /\ row # tx[p].to /\ UNCHANGED <<stored, tx, cursor, pc>>
  /\ UNCHANGED <<safeHead, orphans, faults>>

Commit(p) ==
  /\ pc[p] = "tx" /\ tx[p].ahead = {}
  /\ Apply(tx[p])
  /\ cursor' = [cursor EXCEPT ![p] = tx[p].to]
  /\ tx' = [tx EXCEPT ![p] = NoTx]
  /\ pc' = [pc EXCEPT ![p] = "head"]
  /\ UNCHANGED <<safeHead, orphans, faults>>

Fault == faults < MaxFaults /\ faults' = faults + 1

\* The server reports an error and WithTx rolls back: the next iteration of
\* Run, or the next process, tries again.
Fail(p) ==
  /\ pc[p] = "tx"
  /\ Fault
  /\ tx' = [tx EXCEPT ![p] = NoTx]
  /\ pc' = [pc EXCEPT ![p] = "head"]
  /\ UNCHANGED <<safeHead, stored, row, cursor, orphans>>

\* The connection is lost: Run goes on with another one, the server knows
\* nothing.  If the statements are done, COMMIT may be on its way.
Abandon(p) ==
  /\ Fault
  /\ tx' = [tx EXCEPT ![p] = NoTx]
  /\ orphans' = IF pc[p] = "tx" THEN orphans \cup {tx[p]} ELSE orphans

LoseConnection(p) ==
  /\ pc[p] = "tx"
  /\ Abandon(p)
  /\ pc' = [pc EXCEPT ![p] = "head"]
  /\ UNCHANGED <<safeHead, stored, row, cursor>>

Crash(p) ==
  /\ pc[p] # "stopped"
  /\ Abandon(p)
  /\ pc' = [pc EXCEPT ![p] = "stopped"]
  /\ UNCHANGED <<safeHead, stored, row, cursor>>

Restart(p) ==
  /\ pc[p] = "stopped"
  /\ pc' = [pc EXCEPT ![p] = "load"]
  /\ UNCHANGED <<safeHead, stored, row, cursor, tx, orphans, faults>>

(***************************************************************************)
(* The server and the chain.                                               *)
(***************************************************************************)
\* [mutant] the connections are made without idle_in_transaction_session_timeout
EndIdle_Never == FALSE /\ UNCHANGED vars

\* AfterConnect has set idle_in_transaction_session_timeout: the server rolls
\* back a transaction whose client is silent.
EndIdle ==
  /\ \E o \in orphans : orphans' = orphans \ {o}
  /\ UNCHANGED <<safeHead, stored, row, pc, cursor, tx, faults>>

\* A COMMIT that was on its way arrives.
LateCommit ==
  /\ \E o \in orphans : o.ahead = {} /\ Apply(o) /\ orphans' = orphans \ {o}
  /\ UNCHANGED <<safeHead, pc, cursor, tx, faults>>

ChainGrows ==
  /\ safeHead < MaxSafeHead
  /\ safeHead' = safeHead + 1
  /\ UNCHANGED <<stored, row, pc, cursor, tx, orphans, faults>>

Works(p) == Load(p) \/ Begin(p) \/ Execute(p) \/ Commit(p)
Next ==
  \/ EndIdle \/ LateCommit \/ ChainGrows
  \/ \E p \in Processes :
       Works(p) \/ Fail(p) \/ LoseConnection(p) \/ Crash(p) \/ Restart(p)

Spec == Init /\ [][Next]_vars

\* The processes run, the supervisor restarts them, and the server ends idle
\* transactions; it is for MaxFaults that they fail only so often.
FairSpec ==
  /\ Spec
  /\ WF_vars(EndIdle)
  /\ \A p \in Processes : WF_vars(Works(p)) /\ WF_vars(Restart(p))

\* Whoever writes, and however late: no block is missing below a stored one,
\* below the cursor row, or below the cursor of any process (so none is ever
\* skipped, though the cursor row of a slower writer may go back), and every
\* stored block has the event and the auction of its log.
NothingMissing ==
  LET complete(n) ==
        /\ FirstBlock..n \subseteq {m \in 1..MaxSafeHead : BlockStored(m)}
        /\ Rows("event", HasLog \cap FirstBlock..n) \subseteq stored
        /\ Rows("auction", HasLog \cap FirstBlock..n) \subseteq stored
  IN /\ complete(row)
     /\ \A n \in 1..MaxSafeHead : BlockStored(n) => complete(n)
     /\ \A p \in Processes : pc[p] \in {"head", "tx"} => complete(cursor[p])

\* Two writers never wait for each other: HandleLogs dispatches "preserving
\* encounter order" (internal/indexer/handler.go:72), so that all transactions
\* take their rows in one order.
NoDeadlock ==
  \A p, q \in Processes : p # q => ~ (LockedBy(p, q) /\ LockedBy(q, p))

\* Every block gets stored once it is safe: no transaction left behind by a
\* dead process or a lost connection holds up the others for ever.
EveryBlockStored ==
  \A n \in 1..MaxSafeHead : (safeHead >= n /\ n >= FirstBlock) ~> BlockStored(n)

=============================================================================

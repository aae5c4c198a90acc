---------------------------- MODULE WritersProofs ----------------------------
(***************************************************************************)
(* Proofs about the writers of one chain, for any number of them, any      *)
(* number of faults and any range: their transactions overlap, and still   *)
(* no block is missing and no two of them wait for each other.             *)
(***************************************************************************)
EXTENDS Writers, TLAPS

(***************************************************************************)
(* Types and rows.                                                         *)
(***************************************************************************)
Row ==
  Rows("event", 1..MaxSafeHead) \cup Rows("auction", 1..MaxSafeHead)
    \cup Rows("block", 1..MaxSafeHead) \cup {CursorLock}

Tx == [to : Nat, inserted : SUBSET Row, ahead : SUBSET Row]

WriterTypes ==
  /\ safeHead \in 0..MaxSafeHead
  /\ stored \subseteq Row
  /\ row \in Nat
  /\ pc \in [Processes -> {"load", "head", "tx", "stopped"}]
  /\ cursor \in [Processes -> Nat]
  /\ tx \in [Processes -> Tx]
  /\ orphans \subseteq Tx
  /\ faults \in Nat

\* The rows of a batch are rows of the tables.
LEMMA BatchRows ==
  ASSUME NEW from \in Nat \ {0}, NEW to \in 0..MaxSafeHead
  PROVE  RowsOfBatch(from, to) \subseteq Row
<1>1. from..to \subseteq 1..MaxSafeHead
  BY WritersAssumption
<1> QED BY <1>1 DEF RowsOfBatch, Row, Rows

\* No two rows have the same place in the order of the statements.
LEMMA RanksDiffer ==
  ASSUME NEW r \in Row, NEW s \in Row
  PROVE  /\ Rank(r) \in Nat
         /\ Rank(r) = Rank(s) => r = s
<1>1. MaxSafeHead \in Nat
  BY WritersAssumption
<1> QED BY <1>1 DEF Row, Rows, CursorLock, Rank

LEMMA BatchOfProcess ==
  ASSUME WriterTypes, NEW p \in Processes, cursor[p] < safeHead
  PROVE  /\ BatchEnd(p) \in Nat
         /\ cursor[p] < BatchEnd(p) /\ BatchEnd(p) <= MaxSafeHead
         /\ RowsOfBatch(cursor[p] + 1, BatchEnd(p)) \subseteq Row
<1>1. cursor[p] \in Nat /\ BlockBatchSize \in Nat \ {0} /\ safeHead \in Nat
      /\ safeHead <= MaxSafeHead /\ MaxSafeHead \in Nat
  BY WritersAssumption DEF WriterTypes
<1>2. BatchEnd(p) \in Nat /\ cursor[p] < BatchEnd(p) /\ BatchEnd(p) <= MaxSafeHead
  BY <1>1 DEF BatchEnd
<1> QED BY <1>1, <1>2, BatchRows

\* The transaction after one more statement.
Executed(t, r) ==
  [t EXCEPT !.ahead = @ \ {r}, !.inserted = IF r \in stored THEN @ ELSE @ \cup {r}]

LEMMA ExecutedTx ==
  ASSUME NEW t \in Tx, NEW r \in t.ahead
  PROVE  /\ Executed(t, r) \in Tx
         /\ Executed(t, r).to = t.to
         /\ Executed(t, r).ahead = t.ahead \ {r}
         /\ Executed(t, r).inserted = IF r \in stored THEN t.inserted ELSE t.inserted \cup {r}
<1> DEFINE left == t.ahead \ {r}
           ins == IF r \in stored THEN t.inserted ELSE t.inserted \cup {r}
<1>1. t.inserted \subseteq Row /\ t.ahead \subseteq Row
  BY DEF Tx
<1>2. left \in SUBSET Row /\ ins \in SUBSET Row
  BY <1>1
<1>3. Executed(t, r) = [t EXCEPT !.ahead = left, !.inserted = ins]
  BY DEF Executed
<1> HIDE DEF left, ins
<1>4. [t EXCEPT !.ahead = left, !.inserted = ins] \in Tx
  BY <1>2 DEF Tx
<1>5. ASSUME NEW u, u = [t EXCEPT !.ahead = left, !.inserted = ins]
      PROVE  u.to = t.to /\ u.ahead = left /\ u.inserted = ins
  BY <1>2, <1>5 DEF Tx
<1> QED BY <1>3, <1>4, <1>5 DEF left, ins

LEMMA ExecuteAdds ==
  ASSUME WriterTypes, NEW p \in Processes, Execute(p)
  PROVE  \E r \in NextStatements(p) :
           ~ MustWait(p, r) /\ tx' = [tx EXCEPT ![p] = Executed(tx[p], r)]
<1>1. PICK r \in NextStatements(p) :
        /\ ~ MustWait(p, r)
        /\ tx' = [tx EXCEPT ![p].ahead = @ \ {r},
                            ![p].inserted = IF r \in stored THEN @ ELSE @ \cup {r}]
  BY DEF Execute
<1>2. tx \in [Processes -> Tx]
  BY DEF WriterTypes
<1> QED BY <1>1, <1>2 DEF Executed

LEMMA StepWriterTypes == WriterTypes /\ [Next]_vars => WriterTypes'
<1> SUFFICES ASSUME WriterTypes, [Next]_vars PROVE WriterTypes'
  OBVIOUS
<1>1. NoTx \in Tx
  BY DEF NoTx, Tx
<1>2. ASSUME NEW p \in Processes, Load(p) PROVE WriterTypes'
  <2>1. (IF row = 0 /\ StartBlock > 0 THEN StartBlock - 1 ELSE row) \in Nat
    BY WritersAssumption DEF WriterTypes
  <2> QED BY <1>2, <2>1 DEF Load, WriterTypes
<1>3. ASSUME NEW p \in Processes, Begin(p) PROVE WriterTypes'
  <2> DEFINE t == [to |-> BatchEnd(p), inserted |-> {},
                   ahead |-> RowsOfBatch(cursor[p] + 1, BatchEnd(p))]
  <2>1. t \in Tx
    BY <1>3, BatchOfProcess DEF Begin, Tx
  <2> HIDE DEF t
  <2>2. tx' = [tx EXCEPT ![p] = t]
    BY <1>3 DEF Begin, t
  <2> QED BY <1>3, <2>1, <2>2 DEF Begin, WriterTypes
<1>4. ASSUME NEW p \in Processes, Execute(p) PROVE WriterTypes'
  <2>1. PICK r \in NextStatements(p) : tx' = [tx EXCEPT ![p] = Executed(tx[p], r)]
    BY <1>4, ExecuteAdds
  <2>2. tx[p] \in Tx /\ r \in tx[p].ahead
    BY <2>1 DEF WriterTypes, NextStatements
  <2>3. Executed(tx[p], r) \in Tx
    BY <2>2, ExecutedTx
  <2> QED BY <1>4, <2>1, <2>3 DEF Execute, WriterTypes
<1>5. ASSUME NEW p \in Processes, Commit(p) PROVE WriterTypes'
  <2>1. tx[p] \in Tx
    BY DEF WriterTypes
  <2>2. stored' \subseteq Row /\ row' \in Nat
    BY <1>5, <2>1 DEF Commit, Apply, Tx, WriterTypes
  <2> QED BY <1>1, <1>5, <2>1, <2>2 DEF Commit, Apply, WriterTypes, Tx
<1>6. ASSUME NEW p \in Processes, Fail(p) PROVE WriterTypes'
  BY <1>1, <1>6 DEF Fail, Fault, WriterTypes
<1>7. ASSUME NEW p \in Processes, LoseConnection(p) \/ Crash(p) PROVE WriterTypes'
  BY <1>1, <1>7 DEF LoseConnection, Crash, Abandon, Fault, WriterTypes
<1>8. ASSUME NEW p \in Processes, Restart(p) PROVE WriterTypes'
  BY <1>8 DEF Restart, WriterTypes
<1>9. CASE EndIdle
  BY <1>9 DEF EndIdle, WriterTypes
<1>10. CASE LateCommit
  BY <1>10 DEF LateCommit, Apply, WriterTypes, Tx
<1>11. CASE ChainGrows
  BY <1>11, WritersAssumption DEF ChainGrows, WriterTypes
<1>12. CASE UNCHANGED vars
  BY <1>12 DEF vars, WriterTypes
<1> QED
  BY <1>2, <1>3, <1>4, <1>5, <1>6, <1>7, <1>8, <1>9, <1>10, <1>11, <1>12 DEF Next, Works

\* The types of the state always hold.
THEOREM WritersTypes == Spec => []WriterTypes
<1>1. Init => WriterTypes
  BY WritersAssumption DEF Init, WriterTypes, NoTx, Tx, Row
<1> QED BY <1>1, StepWriterTypes, PTL DEF Spec

(***************************************************************************)
(* What a transaction still has to do, and what the tables hold, in terms  *)
(* of the set of the committed rows.  The rows are only added to, so both  *)
(* stay true whatever another writer commits.                              *)
(***************************************************************************)
\* All blocks up to n are among these rows, with the rows of their logs.
Whole(rows, n) ==
  \A m \in FirstBlock..n :
    /\ m \in 1..MaxSafeHead
    /\ [table |-> "block", block |-> m] \in rows
    /\ m \in HasLog => /\ [table |-> "event", block |-> m] \in rows
                       /\ [table |-> "auction", block |-> m] \in rows

\* Of the batch from this block on, each row is yet to come, inserted, or
\* was committed before, by whomever.
Covers(rows, from, t) ==
  /\ t.to <= MaxSafeHead
  /\ t.inserted \subseteq RowsOfBatch(from, t.to)
  /\ t.ahead \subseteq RowsOfBatch(from, t.to)
  /\ RowsOfBatch(from, t.to) \ {CursorLock} \subseteq t.ahead \cup t.inserted \cup rows

Supported(rows, t) ==
  \E from \in Nat \ {0} : Whole(rows, from - 1) /\ Covers(rows, from, t)

WholeInv ==
  /\ Whole(stored, row)
  /\ \A n \in 1..MaxSafeHead : BlockStored(n) => Whole(stored, n)
  /\ \A p \in Processes : pc[p] \in {"head", "tx"} => Whole(stored, cursor[p])
  /\ \A p \in Processes : pc[p] = "tx" => Covers(stored, cursor[p] + 1, tx[p])
  /\ \A o \in orphans : Supported(stored, o)

\* A transaction has gone through its rows in their order.
OrderInv ==
  \A p \in Processes : \A r \in tx[p].inserted, s \in tx[p].ahead : Rank(r) < Rank(s)

LEMMA MoreRows ==
  ASSUME NEW rows, NEW more, rows \subseteq more
  PROVE  /\ \A n \in Int : Whole(rows, n) => Whole(more, n)
         /\ \A from, t : Covers(rows, from, t) => Covers(more, from, t)
         /\ \A t : Supported(rows, t) => Supported(more, t)
<1>1. \A n \in Int : Whole(rows, n) => Whole(more, n)
  BY DEF Whole
<1>2. \A from, t : Covers(rows, from, t) => Covers(more, from, t)
  BY DEF Covers
<1>3. \A from \in Nat \ {0} : from - 1 \in Int
  OBVIOUS
<1> QED BY <1>1, <1>2, <1>3 DEF Supported

LEMMA FewerBlocks ==
  ASSUME NEW rows, NEW m \in Int, NEW n \in Int, m <= n, Whole(rows, n)
  PROVE  Whole(rows, m)
<1>1. FirstBlock \in Nat
  BY WritersAssumption DEF FirstBlock
<1>2. FirstBlock..m \subseteq FirstBlock..n
  BY <1>1
<1> QED BY <1>2 DEF Whole

\* The rows of a block of a batch.
LEMMA RowsOfOneBlock ==
  ASSUME NEW from \in Nat \ {0}, NEW to \in Nat, NEW m \in from..to
  PROVE  /\ [table |-> "block", block |-> m] \in RowsOfBatch(from, to) \ {CursorLock}
         /\ m \in HasLog =>
              /\ [table |-> "event", block |-> m] \in RowsOfBatch(from, to) \ {CursorLock}
              /\ [table |-> "auction", block |-> m] \in RowsOfBatch(from, to) \ {CursorLock}
<1>1. \A name \in {"block", "event", "auction"} : [table |-> name, block |-> m] # CursorLock
  BY DEF CursorLock
<1>2. [table |-> "block", block |-> m] \in Rows("block", from..to)
  BY DEF Rows
<1>3. m \in HasLog =>
        /\ [table |-> "event", block |-> m] \in Rows("event", HasLog \cap from..to)
        /\ [table |-> "auction", block |-> m] \in Rows("auction", HasLog \cap from..to)
  BY DEF Rows
<1> QED BY <1>1, <1>2, <1>3 DEF RowsOfBatch

\* And the only blocks among them are those of the range.
LEMMA BlocksOfBatch ==
  ASSUME NEW from, NEW to, NEW n, [table |-> "block", block |-> n] \in RowsOfBatch(from, to)
  PROVE  n \in from..to
<1> DEFINE r == [table |-> "block", block |-> n]
<1>1. r.table = "block" /\ r.block = n
  OBVIOUS
<1>2. \A s \in Rows("event", HasLog \cap from..to) \cup Rows("auction", HasLog \cap from..to)
               \cup {CursorLock} : s.table # "block"
  BY DEF Rows, CursorLock
<1>3. \A s \in Rows("block", from..to) : s.block \in from..to
  BY DEF Rows
<1> QED BY <1>1, <1>2, <1>3 DEF RowsOfBatch

\* A transaction whose statements are done leaves whole tables.
LEMMA AppliedIsWhole ==
  ASSUME NEW rows, NEW t \in Tx, Supported(rows, t), t.ahead = {},
         NEW more, more = rows \cup (t.inserted \ {CursorLock})
  PROVE  /\ Whole(more, t.to)
         /\ \A n \in 1..MaxSafeHead :
              [table |-> "block", block |-> n] \in more =>
                [table |-> "block", block |-> n] \in rows \/ Whole(more, n)
<1>1. PICK from \in Nat \ {0} : Whole(rows, from - 1) /\ Covers(rows, from, t)
  BY DEF Supported
<1>2. t.to \in Nat /\ t.to <= MaxSafeHead /\ MaxSafeHead \in Nat
  BY <1>1, WritersAssumption DEF Tx, Covers
<1>3. RowsOfBatch(from, t.to) \ {CursorLock} \subseteq more
  BY <1>1 DEF Covers
<1>4. from - 1 \in Int /\ rows \subseteq more
  OBVIOUS
<1>5. Whole(more, from - 1)
  BY <1>1, <1>4, MoreRows
<1>6. FirstBlock \in Nat \ {0}
  BY WritersAssumption DEF FirstBlock
<1>7. Whole(more, t.to)
  <2> SUFFICES ASSUME NEW m \in FirstBlock..t.to
               PROVE  /\ m \in 1..MaxSafeHead
                      /\ [table |-> "block", block |-> m] \in more
                      /\ m \in HasLog => /\ [table |-> "event", block |-> m] \in more
                                         /\ [table |-> "auction", block |-> m] \in more
    BY DEF Whole
  <2>1. m \in 1..MaxSafeHead
    BY <1>2, <1>6
  <2>2. CASE m \in FirstBlock..(from - 1)
    BY <1>5, <2>2 DEF Whole
  <2>3. CASE m \in from..t.to
    BY <1>2, <1>3, <2>1, <2>3, RowsOfOneBlock
  <2>4. m \in FirstBlock..(from - 1) \/ m \in from..t.to
    BY <1>2, <1>6
  <2> QED BY <2>2, <2>3, <2>4
<1>8. ASSUME NEW n \in 1..MaxSafeHead, [table |-> "block", block |-> n] \in more,
             [table |-> "block", block |-> n] \notin rows
      PROVE  Whole(more, n)
  <2>1. [table |-> "block", block |-> n] \in RowsOfBatch(from, t.to)
    BY <1>1, <1>8 DEF Covers
  <2>2. n \in from..t.to
    BY <2>1, BlocksOfBatch
  <2> QED BY <1>2, <1>7, <2>2, FewerBlocks
<1> QED BY <1>7, <1>8

\* One more statement takes a row from those to come to those inserted, unless
\* it is committed already.
LEMMA ExecutedCovers ==
  ASSUME NEW from, NEW t \in Tx, Covers(stored, from, t), NEW r \in t.ahead
  PROVE  Covers(stored, from, Executed(t, r))
<1>1. /\ Executed(t, r).to = t.to
      /\ Executed(t, r).ahead = t.ahead \ {r}
      /\ Executed(t, r).inserted = IF r \in stored THEN t.inserted ELSE t.inserted \cup {r}
  BY ExecutedTx
<1> HIDE DEF Executed
<1>2. r \in RowsOfBatch(from, t.to)
  BY DEF Covers
<1>3. t.inserted \cup t.ahead \cup stored
        = Executed(t, r).inserted \cup Executed(t, r).ahead \cup stored
  BY <1>1
<1> QED BY <1>1, <1>2, <1>3 DEF Covers

LEMMA SupportedTx ==
  ASSUME WriterTypes, WholeInv, NEW p \in Processes, pc[p] = "tx"
  PROVE  Supported(stored, tx[p])
<1>1. cursor[p] \in Nat
  BY DEF WriterTypes
<1>2. cursor[p] + 1 \in Nat \ {0} /\ (cursor[p] + 1) - 1 = cursor[p]
  BY <1>1
<1>3. Whole(stored, cursor[p]) /\ Covers(stored, cursor[p] + 1, tx[p])
  BY DEF WholeInv
<1> QED BY <1>2, <1>3 DEF Supported

\* What a step has to do to the processes, once the tables are dealt with.
LEMMA KeepsWhole ==
  ASSUME WriterTypes, WholeInv, [Next]_vars, WriterTypes',
         stored' = stored, row' = row,
         \A p \in Processes : pc'[p] \in {"head", "tx"} =>
           \/ pc[p] \in {"head", "tx"} /\ cursor'[p] = cursor[p]
           \/ Whole(stored, cursor'[p]),
         \A p \in Processes : pc'[p] = "tx" =>
           \/ pc[p] = "tx" /\ cursor'[p] = cursor[p] /\ tx'[p] = tx[p]
           \/ Covers(stored, cursor'[p] + 1, tx'[p]),
         \A o \in orphans' : o \in orphans \/ Supported(stored, o)
  PROVE  WholeInv'
<1>1. Whole(stored', row')
  BY DEF WholeInv
<1>2. \A n \in 1..MaxSafeHead : BlockStored(n)' => Whole(stored', n)
  BY DEF WholeInv, BlockStored
<1>3. \A p \in Processes : pc'[p] \in {"head", "tx"} => Whole(stored', cursor'[p])
  BY DEF WholeInv
<1>4. \A p \in Processes : pc'[p] = "tx" => Covers(stored', cursor'[p] + 1, tx'[p])
  BY DEF WholeInv
<1>5. \A o \in orphans' : Supported(stored', o)
  BY DEF WholeInv
<1> QED BY <1>1, <1>2, <1>3, <1>4, <1>5 DEF WholeInv

\* When a transaction is applied, what it leaves is whole, and all that the
\* others rely on is still there.
LEMMA AppliesWhole ==
  ASSUME WriterTypes, WholeInv, NEW t \in Tx, Supported(stored, t), t.ahead = {}, Apply(t)
  PROVE  /\ Whole(stored', row')
         /\ Whole(stored', t.to)
         /\ \A n \in 1..MaxSafeHead : BlockStored(n)' => Whole(stored', n)
         /\ \A p \in Processes : pc[p] \in {"head", "tx"} => Whole(stored', cursor[p])
         /\ \A p \in Processes : pc[p] = "tx" => Covers(stored', cursor[p] + 1, tx[p])
         /\ \A o \in orphans : Supported(stored', o)
<1>1. stored' = stored \cup (t.inserted \ {CursorLock}) /\ row' = t.to
  BY DEF Apply
<1>2. stored \subseteq stored'
  BY <1>1
<1>3. /\ Whole(stored', t.to)
      /\ \A n \in 1..MaxSafeHead :
           [table |-> "block", block |-> n] \in stored' =>
             [table |-> "block", block |-> n] \in stored \/ Whole(stored', n)
  BY <1>1, AppliedIsWhole
<1>4. \A n \in Int : Whole(stored, n) => Whole(stored', n)
  BY <1>2, MoreRows
<1>5. \A n \in 1..MaxSafeHead : BlockStored(n)' => Whole(stored', n)
  BY <1>3, <1>4 DEF WholeInv, BlockStored
<1>6. \A p \in Processes : cursor[p] \in Int
  BY DEF WriterTypes
<1>7. \A p \in Processes : pc[p] \in {"head", "tx"} => Whole(stored', cursor[p])
  BY <1>4, <1>6 DEF WholeInv
<1>8. \A p \in Processes : pc[p] = "tx" => Covers(stored', cursor[p] + 1, tx[p])
  BY <1>2, MoreRows DEF WholeInv
<1>9. \A o \in orphans : Supported(stored', o)
  BY <1>2, MoreRows DEF WholeInv
<1> QED BY <1>1, <1>3, <1>5, <1>7, <1>8, <1>9

LEMMA CommitStep ==
  ASSUME WriterTypes, WholeInv, NEW p \in Processes, Commit(p)
  PROVE  WholeInv'
<1>1. tx[p] \in Tx /\ Supported(stored, tx[p]) /\ tx[p].ahead = {} /\ Apply(tx[p])
  BY SupportedTx DEF Commit, WriterTypes
<1>2. /\ Whole(stored', row') /\ Whole(stored', tx[p].to)
      /\ \A n \in 1..MaxSafeHead : BlockStored(n)' => Whole(stored', n)
      /\ \A q \in Processes : pc[q] \in {"head", "tx"} => Whole(stored', cursor[q])
      /\ \A q \in Processes : pc[q] = "tx" => Covers(stored', cursor[q] + 1, tx[q])
      /\ \A o \in orphans : Supported(stored', o)
  BY <1>1, AppliesWhole
<1>3. /\ cursor' = [cursor EXCEPT ![p] = tx[p].to]
      /\ tx' = [tx EXCEPT ![p] = NoTx]
      /\ pc' = [pc EXCEPT ![p] = "head"] /\ orphans' = orphans
      /\ cursor \in [Processes -> Nat]
      /\ tx \in [Processes -> Tx]
      /\ pc \in [Processes -> {"load", "head", "tx", "stopped"}]
  BY DEF Commit, WriterTypes
<1>4. \A q \in Processes : pc'[q] \in {"head", "tx"} => Whole(stored', cursor'[q])
  BY <1>2, <1>3
<1>5. \A q \in Processes : pc'[q] = "tx" => Covers(stored', cursor'[q] + 1, tx'[q])
  BY <1>2, <1>3
<1> QED BY <1>2, <1>3, <1>4, <1>5 DEF WholeInv

LEMMA LateCommitStep ==
  ASSUME WriterTypes, WholeInv, LateCommit
  PROVE  WholeInv'
<1>1. PICK o \in orphans : o.ahead = {} /\ Apply(o) /\ orphans' = orphans \ {o}
  BY DEF LateCommit
<1>2. o \in Tx /\ Supported(stored, o)
  BY DEF WriterTypes, WholeInv
<1>3. /\ Whole(stored', row')
      /\ \A n \in 1..MaxSafeHead : BlockStored(n)' => Whole(stored', n)
      /\ \A q \in Processes : pc[q] \in {"head", "tx"} => Whole(stored', cursor[q])
      /\ \A q \in Processes : pc[q] = "tx" => Covers(stored', cursor[q] + 1, tx[q])
      /\ \A u \in orphans : Supported(stored', u)
  BY <1>1, <1>2, AppliesWhole
<1>4. pc' = pc /\ cursor' = cursor /\ tx' = tx /\ orphans' \subseteq orphans
  BY <1>1 DEF LateCommit
<1> QED BY <1>3, <1>4 DEF WholeInv

LEMMA WholeStep == WriterTypes /\ WholeInv /\ [Next]_vars => WholeInv'
<1> SUFFICES ASSUME WriterTypes, WholeInv, [Next]_vars PROVE WholeInv'
  OBVIOUS
<1> DEFINE Heads == \A p \in Processes : pc'[p] \in {"head", "tx"} =>
                      \/ pc[p] \in {"head", "tx"} /\ cursor'[p] = cursor[p]
                      \/ Whole(stored, cursor'[p])
           Txs == \A p \in Processes : pc'[p] = "tx" =>
                    \/ pc[p] = "tx" /\ cursor'[p] = cursor[p] /\ tx'[p] = tx[p]
                    \/ Covers(stored, cursor'[p] + 1, tx'[p])
           Orphans == \A o \in orphans' : o \in orphans \/ Supported(stored, o)
<1>1. WriterTypes'
  BY StepWriterTypes
<1>2. /\ cursor \in [Processes -> Nat]
      /\ tx \in [Processes -> Tx]
      /\ pc \in [Processes -> {"load", "head", "tx", "stopped"}]
      /\ row \in Nat
  BY DEF WriterTypes
<1>3. ASSUME stored' = stored, row' = row, Heads, Txs, Orphans PROVE WholeInv'
  BY <1>1, <1>3, KeepsWhole
<1>4. ASSUME NEW p \in Processes, Load(p) PROVE WholeInv'
  <2>1. Whole(stored, IF row = 0 /\ StartBlock > 0 THEN StartBlock - 1 ELSE row)
    <3>1. CASE row = 0 /\ StartBlock > 0
      <4>1. FirstBlock = StartBlock /\ StartBlock \in Nat
        BY <3>1, WritersAssumption DEF FirstBlock
      <4>2. FirstBlock..(StartBlock - 1) = {}
        BY <4>1
      <4> QED BY <3>1, <4>2 DEF Whole
    <3>2. CASE ~ (row = 0 /\ StartBlock > 0)
      BY <3>2 DEF WholeInv
    <3> QED BY <3>1, <3>2
  <2>2. /\ cursor' = [cursor EXCEPT
                        ![p] = IF row = 0 /\ StartBlock > 0 THEN StartBlock - 1 ELSE row]
        /\ pc' = [pc EXCEPT ![p] = "head"]
        /\ tx' = tx /\ orphans' = orphans /\ stored' = stored /\ row' = row
    BY <1>4 DEF Load
  <2>3. Heads
    BY <1>2, <2>1, <2>2
  <2>4. Txs
    BY <1>2, <2>2
  <2> QED BY <1>3, <2>2, <2>3, <2>4
<1>5. ASSUME NEW p \in Processes, Begin(p) PROVE WholeInv'
  <2> DEFINE t == [to |-> BatchEnd(p), inserted |-> {},
                   ahead |-> RowsOfBatch(cursor[p] + 1, BatchEnd(p))]
  <2>1. /\ pc[p] = "head" /\ pc' = [pc EXCEPT ![p] = "tx"]
        /\ tx' = [tx EXCEPT ![p] = t]
        /\ cursor' = cursor /\ orphans' = orphans /\ stored' = stored /\ row' = row
    BY <1>5 DEF Begin
  <2>2. BatchEnd(p) <= MaxSafeHead
    BY <1>5, BatchOfProcess DEF Begin
  <2>3. Covers(stored, cursor[p] + 1, t)
    BY <2>2 DEF Covers
  <2> HIDE DEF t
  <2>4. Heads
    BY <1>2, <2>1
  <2>5. Txs
    BY <1>2, <2>1, <2>3
  <2> QED BY <1>3, <2>1, <2>4, <2>5
<1>6. ASSUME NEW p \in Processes, Execute(p) PROVE WholeInv'
  <2>1. PICK r \in NextStatements(p) : tx' = [tx EXCEPT ![p] = Executed(tx[p], r)]
    BY <1>6, ExecuteAdds
  <2>2. /\ pc[p] = "tx" /\ pc' = pc
        /\ cursor' = cursor /\ orphans' = orphans /\ stored' = stored /\ row' = row
    BY <1>6 DEF Execute
  <2>3. Covers(stored, cursor[p] + 1, tx[p])
    BY <2>2 DEF WholeInv
  <2>4. tx[p] \in Tx /\ r \in tx[p].ahead
    BY <1>2 DEF NextStatements
  <2>5. Covers(stored, cursor[p] + 1, Executed(tx[p], r))
    BY <2>3, <2>4, ExecutedCovers
  <2>6. Heads
    BY <2>2
  <2>7. Txs
    BY <1>2, <2>1, <2>2, <2>5
  <2> QED BY <1>3, <2>2, <2>6, <2>7
<1>7. ASSUME NEW p \in Processes, Commit(p) PROVE WholeInv'
  BY <1>7, CommitStep
<1>8. ASSUME NEW p \in Processes, Fail(p) PROVE WholeInv'
  <2>1. /\ pc[p] = "tx" /\ pc' = [pc EXCEPT ![p] = "head"] /\ tx' = [tx EXCEPT ![p] = NoTx]
        /\ cursor' = cursor /\ orphans' = orphans /\ stored' = stored /\ row' = row
    BY <1>8 DEF Fail
  <2>2. Heads /\ Txs
    BY <1>2, <2>1
  <2> QED BY <1>3, <2>1, <2>2
<1>9. ASSUME NEW p \in Processes, LoseConnection(p) \/ Crash(p) PROVE WholeInv'
  <2>1. /\ \/ pc[p] = "tx" /\ pc' = [pc EXCEPT ![p] = "head"]
           \/ pc' = [pc EXCEPT ![p] = "stopped"]
        /\ tx' = [tx EXCEPT ![p] = NoTx]
        /\ orphans' = IF pc[p] = "tx" THEN orphans \cup {tx[p]} ELSE orphans
        /\ cursor' = cursor /\ stored' = stored /\ row' = row
    BY <1>9 DEF LoseConnection, Crash, Abandon
  <2>2. Orphans
    BY <2>1, SupportedTx
  <2>3. Heads /\ Txs
    BY <1>2, <2>1
  <2> QED BY <1>3, <2>1, <2>2, <2>3
<1>10. ASSUME NEW p \in Processes, Restart(p) PROVE WholeInv'
  <2>1. /\ pc' = [pc EXCEPT ![p] = "load"]
        /\ UNCHANGED <<cursor, tx, orphans, stored, row>>
    BY <1>10 DEF Restart
  <2>2. Heads /\ Txs
    BY <1>2, <2>1
  <2> QED BY <1>3, <2>1, <2>2
<1>11. CASE LateCommit
  BY <1>11, LateCommitStep
<1>12. CASE EndIdle \/ ChainGrows \/ UNCHANGED vars
  <2>1. UNCHANGED <<pc, cursor, tx, stored, row>> /\ orphans' \subseteq orphans
    BY <1>12 DEF EndIdle, ChainGrows, vars
  <2> QED BY <1>3, <2>1
<1> QED
  BY <1>4, <1>5, <1>6, <1>7, <1>8, <1>9, <1>10, <1>11, <1>12 DEF Next, Works

\* What WholeInv says of the tables is what the reader of them is promised.
LEMMA WholeTables ==
  ASSUME NEW n, Whole(stored, n)
  PROVE  /\ FirstBlock..n \subseteq {m \in 1..MaxSafeHead : BlockStored(m)}
         /\ Rows("event", HasLog \cap FirstBlock..n) \subseteq stored
         /\ Rows("auction", HasLog \cap FirstBlock..n) \subseteq stored
  BY DEF Whole, BlockStored, Rows

\* Whoever writes the chain, with any number of crashes, lost connections and
\* late COMMITs among any number of indexers: the committed rows are complete
\* up to the cursor row, below every stored block, and up to the cursor of
\* every process (commitBatch and WithTx write a batch in one transaction, and
\* ON CONFLICT DO NOTHING only passes over what is committed).
THEOREM NothingGoesMissing == Spec => []NothingMissing
<1>1. Init => WholeInv
  <2> SUFFICES ASSUME Init PROVE WholeInv
    OBVIOUS
  <2>1. FirstBlock \in Nat \ {0}
    BY WritersAssumption DEF FirstBlock
  <2>2. Whole(stored, 0)
    BY <2>1 DEF Whole
  <2> QED BY <2>2 DEF Init, WholeInv, BlockStored
<1>2. WholeInv => NothingMissing
  BY WholeTables DEF WholeInv, NothingMissing
<1> QED BY <1>1, <1>2, WritersTypes, WholeStep, PTL DEF Spec

(***************************************************************************)
(* The order of the rows, and what the writers wait for.                   *)
(***************************************************************************)
LEMMA OrderStep == WriterTypes /\ OrderInv /\ [Next]_vars => OrderInv'
<1> SUFFICES ASSUME WriterTypes, OrderInv, [Next]_vars PROVE OrderInv'
  OBVIOUS
<1> DEFINE Ordered(t) == \A r \in t.inserted, s \in t.ahead : Rank(r) < Rank(s)
<1>1. tx \in [Processes -> Tx] /\ \A p \in Processes : Ordered(tx[p])
  BY DEF WriterTypes, OrderInv
<1>2. ASSUME NEW p \in Processes, NEW t, tx' = [tx EXCEPT ![p] = t], Ordered(t)
      PROVE  OrderInv'
  <2>1. \A q \in Processes : tx'[q] = IF q = p THEN t ELSE tx[q]
    BY <1>1, <1>2
  <2>2. \A q \in Processes : Ordered(tx'[q])
    BY <1>1, <1>2, <2>1
  <2> QED BY <2>2 DEF OrderInv, Rank
<1>3. Ordered(NoTx)
  BY DEF NoTx
<1>4. CASE tx' = tx
  BY <1>4 DEF OrderInv, Rank
<1>5. ASSUME NEW p \in Processes, Begin(p) PROVE OrderInv'
  <2> DEFINE t == [to |-> BatchEnd(p), inserted |-> {},
                   ahead |-> RowsOfBatch(cursor[p] + 1, BatchEnd(p))]
  <2>1. tx' = [tx EXCEPT ![p] = t]
    BY <1>5 DEF Begin
  <2>2. t.inserted = {}
    OBVIOUS
  <2> HIDE DEF t
  <2> QED BY <1>2, <2>1, <2>2
<1>6. ASSUME NEW p \in Processes, Execute(p) PROVE OrderInv'
  <2>1. PICK r \in NextStatements(p) : tx' = [tx EXCEPT ![p] = Executed(tx[p], r)]
    BY <1>6, ExecuteAdds
  <2>2. tx[p] \in Tx /\ r \in tx[p].ahead /\ \A s \in tx[p].ahead : Rank(r) <= Rank(s)
    BY <1>1 DEF NextStatements
  <2>3. \A s \in tx[p].ahead : s \in Row
    BY <2>2 DEF Tx
  <2>4. \A s \in tx[p].ahead \ {r} : Rank(r) < Rank(s)
    BY <2>2, <2>3, RanksDiffer
  <2>5. /\ Executed(tx[p], r).ahead = tx[p].ahead \ {r}
        /\ Executed(tx[p], r).inserted \subseteq tx[p].inserted \cup {r}
    BY <2>2, ExecutedTx
  <2>6. Ordered(Executed(tx[p], r))
    BY <1>1, <2>4, <2>5
  <2> QED BY <1>2, <2>1, <2>6
<1>7. ASSUME NEW p \in Processes, tx' = [tx EXCEPT ![p] = NoTx] PROVE OrderInv'
  BY <1>2, <1>3, <1>7
<1> QED
  BY <1>4, <1>5, <1>6, <1>7
     DEF Next, Works, Load, Commit, Fail, LoseConnection, Crash, Abandon, Restart, EndIdle,
         LateCommit, ChainGrows, vars

\* What a writer waits for lies behind the one it waits for: that one has gone
\* further through the order of the rows.
WaitsClimb ==
  \A p, q \in Processes :
    LockedBy(p, q) =>
      \A r \in NextStatements(p), s \in NextStatements(q) : Rank(r) < Rank(s)

LEMMA OrderClimbs == WriterTypes /\ OrderInv => WaitsClimb
<1> SUFFICES ASSUME WriterTypes, OrderInv,
                    NEW p \in Processes, NEW q \in Processes, LockedBy(p, q),
                    NEW r \in NextStatements(p), NEW s \in NextStatements(q)
             PROVE  Rank(r) < Rank(s)
  BY DEF WaitsClimb
<1>1. PICK x \in NextStatements(p) : x \in tx[q].inserted
  BY DEF LockedBy
<1>2. tx[p] \in Tx /\ tx[q] \in Tx
  BY DEF WriterTypes
<1>3. r \in Row /\ x \in Row /\ s \in Row
  BY <1>1, <1>2 DEF NextStatements, Tx
<1>4. Rank(r) <= Rank(x)
  BY <1>1 DEF NextStatements
<1>5. Rank(x) < Rank(s)
  BY <1>1 DEF OrderInv, NextStatements
<1> QED BY <1>3, <1>4, <1>5, RanksDiffer

LEMMA WritersInOrder == Spec => [](WriterTypes /\ OrderInv)
<1>1. Init => OrderInv
  BY DEF Init, OrderInv, NoTx
<1> QED BY <1>1, WritersTypes, OrderStep, PTL DEF Spec

\* Whoever waits is behind the one it waits for in one order of all rows, so no
\* circle of writers, of whatever length, can wait for one another (HandleLogs
\* dispatches the logs in their order, internal/indexer/handler.go:72).
THEOREM WaitingClimbs == Spec => []WaitsClimb
  BY WritersInOrder, OrderClimbs, PTL

\* Two writers in particular never do.
THEOREM WritersNeverDeadlock == Spec => []NoDeadlock
<1>1. WriterTypes /\ OrderInv => NoDeadlock
  <2> SUFFICES ASSUME WriterTypes, OrderInv, NEW p \in Processes, NEW q \in Processes,
                      LockedBy(p, q), LockedBy(q, p)
               PROVE  FALSE
    BY DEF NoDeadlock
  <2>1. PICK r \in NextStatements(p) : r \in tx[q].inserted
    BY DEF LockedBy
  <2>2. PICK s \in NextStatements(q) : s \in tx[p].inserted
    BY DEF LockedBy
  <2>3. r \in Row /\ s \in Row
    BY <2>1, <2>2 DEF NextStatements, WriterTypes, Tx
  <2>4. Rank(r) < Rank(s) /\ Rank(s) < Rank(r)
    BY OrderClimbs DEF WaitsClimb
  <2> QED BY <2>3, <2>4, RanksDiffer
<1> QED BY <1>1, WritersInOrder, PTL

=============================================================================

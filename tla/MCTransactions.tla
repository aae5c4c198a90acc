--------------------------- MODULE MCTransactions ---------------------------
(***************************************************************************)
(* Instances of Transactions on the block tree of MCIndexer.  Block 1 has  *)
(* an auction on either branch, at one address; after an a, block 2 has a  *)
(* second one, which cannot be handled if that block is a b.               *)
(***************************************************************************)
EXTENDS MCIndexer, Transactions

CONSTANTS t3, t4, addr2

MCTxTxs == {t1, t2, t3, t4}
MCTxAddresses == {addr, addr2}

MCTxTxsIn ==
  [h \in MCBlocks |->
     IF h = <<"a">> THEN {t1}
     ELSE IF h = <<"b">> THEN {t2}
     ELSE IF h = <<"a", "a">> THEN {t3}
     ELSE IF h = <<"a", "b">> THEN {t4}
     ELSE {}]

MCTxAuctionOf == [t \in MCTxTxs |-> IF t \in {t1, t2} THEN addr ELSE addr2]

MCPoison == {t4}

=============================================================================

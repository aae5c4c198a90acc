----------------------------- MODULE MCIndexer -----------------------------
(***************************************************************************)
(* Small instances of Indexer: the branches of the chain are MaxHeight     *)
(* blocks long, start with some a blocks, at most MaxFork, and go on with  *)
(* b blocks.                                                               *)
(***************************************************************************)
EXTENDS IndexerProperties

CONSTANTS MaxHeight, MaxFork, t1, t2, addr

MCLabel == {"a", "b"}

RepeatLabel(x, k) == [i \in 1..k |-> x]

\* a...a, and a...a followed by b...b.
MCBlocks ==
  {RepeatLabel("a", i) \o RepeatLabel("b", j) :
     i \in 0..MaxFork, j \in 0..MaxHeight} \cap UNION {[1..k -> MCLabel] : k \in 0..MaxHeight}

MCTxs == {t1, t2}
MCAddresses == {addr}

\* Every branch creates one auction at the same address, but by another
\* transaction and in another block: t1 in block 1 if that is a b, in block 2
\* if block 1 is an a and block 2 a b; t2 in block 2 of the branches a, a.
MCTxsIn ==
  [h \in MCBlocks |->
     IF h \in {<<"b">>, <<"a", "b">>} THEN {t1}
     ELSE IF h = <<"a", "a">> THEN {t2}
     ELSE {}]

MCAuctionOf == [t \in MCTxs |-> addr]

=============================================================================

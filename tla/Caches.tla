------------------------------- MODULE Caches -------------------------------
(***************************************************************************)
(* The auctions that the API has given away: Get answers from the table    *)
(* that the indexer writes, and tells whoever receives the answer that it  *)
(* is immutable.  A replica of the database that lags behind answers as    *)
(* the database did at an earlier moment, which is one more way for an     *)
(* answer to be old.                                                       *)
(***************************************************************************)
EXTENDS IndexerProperties

VARIABLE cached   \* the auctions in answers on their way, or kept by a cache

CachesInit == Init /\ cached = {}

\* At most one row, the address being a key with the chain.
GetByAddress(address) == {a \in auctions : a.address = address}

\* The answer that there is none may not be kept.
Get(address) ==
  \E a \in GetByAddress(address) :
    /\ cached' = cached \cup {a}
    /\ UNCHANGED vars

\* The answer has been received and not kept, or its max-age is over.
Forget ==
  \E a \in cached :
    /\ cached' = cached \ {a}
    /\ UNCHANGED vars

CachesNext ==
  \/ Next /\ UNCHANGED cached
  \/ \E address \in Addresses : Get(address)
  \/ Forget

CachesSpec == CachesInit /\ [][CachesNext]_<<vars, cached>>

\* What has been said of an auction is still true of it, however long ago it
\* was said: this is what immutable means to a cache, which will not ask again
\* (internal/api/handlers/auction.go:15 says that the data "never changes once
\* indexed").
CachedIsStored == cached \subseteq auctions

=============================================================================

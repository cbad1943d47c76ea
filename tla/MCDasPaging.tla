------------------------------ MODULE MCDasPaging ------------------------------
(* An instance of DasPaging for TLC.                                        *)
EXTENDS DasPaging

\* Up to three pages of two on mainnet, one on devnet.
Items       == 1..6
HomeOfItems == [i \in Items |-> IF i = 6 THEN "devnet" ELSE "mainnet"]

\* Something to drop and something to choke on between what is wanted.
FungibleItems == Items \ {3}
PricedItems   == Items \ {2}
BareItems     == {1}
VoteItems     == {3}
=============================================================================

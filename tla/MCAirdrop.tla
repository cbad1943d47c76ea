------------------------------ MODULE MCAirdrop ------------------------------
(* Instances of Airdrop for TLC.                                            *)
EXTENDS Airdrop

\* No recipient, one batch exactly, a last batch of one, three batches, and
\* more than the maximum.
AnyCount == {0, 15, 16, 31, 46}
=============================================================================

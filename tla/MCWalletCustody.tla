--------------------------- MODULE MCWalletCustody ---------------------------
(* Instances of WalletCustody for TLC.                                      *)
EXTENDS WalletCustody, TLC

\* The endpoint the identity provider calls when it has verified a user.
Webhook == {"webhook"}

\* The endpoints that write.
Writing == AllOps \ Readers

\* Names are interchangeable, and so are requests.
Symmetry == Permutations(Names) \cup Permutations(Reqs)
=============================================================================

---------------------------- MODULE MCWhitelist ----------------------------
(* Instances of Whitelist for TLC.                                          *)
EXTENDS Whitelist, TLC

Symmetry == Permutations(Users) \cup Permutations(Codes) \cup Permutations(Reqs)
=============================================================================

---------------------------- MODULE MCTxSubmission ----------------------------
(* Instances of TxSubmission for TLC.                                       *)
EXTENDS TxSubmission

\* One endpoint for each way a plan ends, and those that are like no other.
\* Tip links, pump.fun and staking are checked like lend, tokens and NFTs
\* confirmed like collection, cancellations and transfers sent like list.
EveryEnd == {"collection", "lend", "faucet", "list", "swap", "rps"}

Swap == {"swap"}
=============================================================================

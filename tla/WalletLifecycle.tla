--------------------------- MODULE WalletLifecycle ---------------------------
(***************************************************************************)
(* What wallet custody promises about one generated key pair, with the     *)
(* stores abstracted away.  A wallet is usable when its encrypted private  *)
(* key and the key that decrypts it can both be found.  A wallet has one   *)
(* life: it becomes usable at most once, perhaps with nobody left to be    *)
(* told, and once it is lost or revoked it is retired for good, whatever   *)
(* later requests, restores, crashes and late writes do.                   *)
(***************************************************************************)
CONSTANT Wallets

VARIABLE life   \* life[w]: how far wallet w has come

Stages == {"unborn", "usable", "retired"}

Init == life \in [Wallets -> Stages]

\* Any wallet may be lost: revoked, overwritten, or never to be completed.
LoseSome(W) == \A v \in W : life'[v] \in {life[v], "retired"}

\* Both halves of the key material of w are in place; storing them may have
\* displaced those of another wallet.
Activate(w) ==
    /\ life[w] = "unborn"
    /\ life'[w] = "usable"
    /\ LoseSome(Wallets \ {w})

\* A crash ends several creations at once.
Retire == LoseSome(Wallets)

Next ==
    /\ life' \in [Wallets -> Stages]
    /\ Retire \/ \E w \in Wallets : Activate(w)

Spec == Init /\ [][Next]_life
=============================================================================

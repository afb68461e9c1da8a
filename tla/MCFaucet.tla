------------------------------ MODULE MCFaucet ------------------------------
(* Small instances of Faucet: two requests, one payment left of each leg. *)
EXTENDS Faucet, TLC

CONSTANTS w1, w2, r1, r2

Symmetry == Permutations(Wallets) \cup Permutations(Requests)
OneWallet == {w1}
TwoWallets == {w1, w2}
TwoRequests == {r1, r2}
OneEach == [l \in Legs |-> 1]
TwoEach == [l \in Legs |-> 2]
=============================================================================

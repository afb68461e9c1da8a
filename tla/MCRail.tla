------------------------------- MODULE MCRail -------------------------------
(* Small instances of Rail: two users, one deposit each. *)
EXTENDS Rail

CONSTANTS alice, bob, d1, d2

OneDeposit == {d1}
AliceOne == d1 :> [account |-> alice, amount |-> 1]
TwoAccounts == {alice, bob}
OneUnit == {1}
TwoDeposits == {d1, d2}
AliceThenBob == d1 :> [account |-> alice, amount |-> 1] @@ d2 :> [account |-> bob, amount |-> 1]
=============================================================================

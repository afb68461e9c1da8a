---------------------------- MODULE MCProvision ----------------------------
(* Small instances of Provision: one or two wallets, one or two tabs. *)
EXTENDS Provision, TLC

CONSTANTS w1, w2, t1, t2

MCWallets == {w1, w2}
MCTabs == {t1, t2}

\* Two tabs of one wallet without faults; one tab with two; two wallets.
TwoTabs == [wallets |-> {w1}, tabs |-> {t1, t2}, faults |-> 0]
TwoFaults == [wallets |-> {w1}, tabs |-> {t1}, faults |-> 2]
TwoWallets == [wallets |-> {w1, w2}, tabs |-> {t1, t2}, faults |-> 0]
Mixed == {TwoTabs, TwoFaults, TwoWallets}
=============================================================================

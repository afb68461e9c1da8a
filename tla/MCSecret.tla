------------------------------ MODULE MCSecret ------------------------------
(* Small instances of SecretClients: one name to grant to, one to recover. *)
EXTENDS SecretClients, TLC

CONSTANTS alice, bob, vault, ka, kb, kb2, kv, kt, c1, c2, v1, v2

MCNames == {bob, vault}
MCKeys == {ka, kb, kb2, kv, kt}
OneClient == {c1}
TwoClients == {c1, c2}
OneValue == {v1}
TwoValues == {v1, v2}

\* bob is granted directly or as a team; vault is the recovery entry, and may
\* be granted as well.
TeamCandidates == [role \in ListRoles |->
    CASE role = "grantee" -> {bob, vault}
      [] role = "subtree" -> {bob}
      [] role = "recovery" -> {vault}]

\* Either name may be a recovery entry.
RecoveryCandidates == [role \in ListRoles |->
    CASE role = "grantee" -> {bob}
      [] role = "subtree" -> {}
      [] role = "recovery" -> {bob, vault}]

\* bob is granted, vault recovers.
PlainCandidates == [role \in ListRoles |->
    CASE role = "grantee" -> {bob}
      [] role = "subtree" -> {}
      [] role = "recovery" -> {vault}]

\* A delegate slips vault in beside bob.
ForgedGrants == [role \in ListRoles |-> IF role = "grantee" THEN {vault} ELSE {}]

\* bob may move to another key.
BobDrifts == [name \in Names |-> IF name = bob THEN {kb, kb2} ELSE {kv}]
\* vault may clear its key, or publish the owner's own.
VaultDrifts == [name \in Names |-> IF name = bob THEN {kb} ELSE {kv, ka, NoKey}]
FixedKeys == [name \in Names |-> IF name = bob THEN {kb} ELSE {kv}]
BobTeam == [name \in Names |-> IF name = bob THEN {kt} ELSE {NoKey}]
NoTeam == [name \in Names |-> {NoKey}]

BasicOps == {"create", "overwrite", "grant", "revoke", "rotate", "forget"}
AllOps == BasicOps \cup {"reauthorize"}

DelegateOps == {"create", "grant", "revoke", "rotate"}


Symmetry == Permutations(Clients)
=============================================================================

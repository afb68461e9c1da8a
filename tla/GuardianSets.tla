---------------------------- MODULE GuardianSets ----------------------------
(***************************************************************************)
(* Guardian recovery: the owner publishes a set (guardians.init), each     *)
(* guardian seals its share again to the replacement key and publishes it  *)
(* on its own name (approve), and the replacement wallet gathers what it   *)
(* finds (collect) and rebuilds the key (recover, recoverWithShares; all   *)
(* of the SDK's client.ts and guardians.ts).                               *)
(*                                                                         *)
(* A set may be replaced and a guardian may move to a new key at any time; *)
(* the records of before stay where they are.                              *)
(***************************************************************************)
EXTENDS Integers, FiniteSets

CONSTANTS Guardians,
          MaxSets,    \* bound: sets published
          Chosen,     \* the guardians of each set
          Threshold,  \* and its threshold
          XOf,        \* the x coordinate of each guardian's share in it
          MaxDrifts   \* bound: guardians that move to a new key

GuardianSetIds == 1..MaxSets

ASSUME GuardianAssumptions ==
    /\ MaxSets \in Nat /\ MaxDrifts \in Nat /\ IsFiniteSet(Guardians)
    /\ Chosen \in [GuardianSetIds -> SUBSET Guardians]
    /\ Threshold \in [GuardianSetIds -> Nat]
    /\ \A s \in GuardianSetIds : 2 <= Threshold[s] /\ Threshold[s] <= Cardinality(Chosen[s])
    /\ \A s \in GuardianSetIds : \A g, h \in Chosen[s] : g # h => XOf[s][g] # XOf[s][h]

VARIABLES
    set,        \* the owner's name: the set it publishes, 0 for none
    share,      \* and the share it holds for each guardian: [set, key]
    gkey,       \* each guardian's key, numbered
    approval,   \* rewall.reshare on each guardian's name: the set of the piece, or 0
    initcall,   \* guardians.init: the set in the making and the keys it read
    approving,  \* approve: the piece each guardian is about to publish, or 0
    gathering,  \* collect and recover
    made,       \* count
    approvers,  \* ghost: who ever published a piece of each set
    ready,      \* ghost: whose name held a piece of the set when collect began, but for
                \* the names collect failed to read since
    outcome     \* ghost: what recover answered

guardianVars == <<set, share, gkey, approval, initcall, approving, gathering, made, approvers,
                  ready, outcome>>

NoShare == [set |-> 0, key |-> 0]
NoInit == [set |-> 0, keys |-> [g \in Guardians |-> 0]]
NotGathering == [at |-> "idle", left |-> {}, pieces |-> {}]
NoOutcome == [expected |-> 0, got |-> 0, replaced |-> FALSE]
Keys == 0..MaxDrifts

GuardianSetsInit ==
    /\ set = 0 /\ made = 0
    /\ share = [g \in Guardians |-> NoShare]
    /\ gkey = [g \in Guardians |-> 0]
    /\ approval = [g \in Guardians |-> 0]
    /\ initcall = NoInit
    /\ approving = [g \in Guardians |-> 0]
    /\ gathering = NotGathering
    /\ approvers = [s \in GuardianSetIds |-> {}]
    /\ ready = {} /\ outcome = NoOutcome

\* guardians.init reads the guardians' keys and splits a new key among them.
BeginSet ==
    /\ initcall.set = 0 /\ made < MaxSets
    /\ made' = made + 1
    /\ initcall' = [set |-> made + 1, keys |-> gkey]
    /\ UNCHANGED <<set, share, gkey, approval, approving, gathering, approvers, ready, outcome>>

\* One transaction: the key, the threshold, the list and a share for each guardian.
\* The share of one who is no longer a guardian stays.
LandSet ==
    /\ initcall.set # 0
    /\ set' = initcall.set
    /\ share' = [g \in Guardians |-> IF g \in Chosen[initcall.set]
                                     THEN [set |-> initcall.set, key |-> initcall.keys[g]]
                                     ELSE share[g]]
    /\ initcall' = NoInit
    /\ outcome' = [outcome EXCEPT !.replaced = @ \/ gathering.at = "collect"]
    /\ UNCHANGED <<gkey, approval, approving, gathering, made, approvers, ready>>

\* A guardian publishes another key.
Move(g) ==
    /\ gkey[g] < MaxDrifts
    /\ \A h \in Guardians \ {g} : gkey[h] = 0
    /\ gkey' = [gkey EXCEPT ![g] = @ + 1]
    /\ UNCHANGED <<set, share, approval, initcall, approving, gathering, made, approvers, ready, outcome>>

\* reshare reads the share under the guardian's own key; there may be none.
Approve(g) ==
    /\ approving[g] = 0
    /\ share[g].set # 0 /\ share[g].key = gkey[g]
    /\ approving' = [approving EXCEPT ![g] = share[g].set]
    /\ UNCHANGED <<set, share, gkey, approval, initcall, gathering, made, approvers, ready, outcome>>

\* approve writes it on the guardian's own name, over what it published before.
Publish(g) ==
    /\ approving[g] # 0
    /\ approval' = [approval EXCEPT ![g] = approving[g]]
    /\ approvers' = [approvers EXCEPT ![approving[g]] = @ \cup {g}]
    /\ approving' = [approving EXCEPT ![g] = 0]
    /\ UNCHANGED <<set, share, gkey, initcall, gathering, made, ready, outcome>>

\* collect reads the list of guardians, and then the names on it.
BeginCollect ==
    /\ gathering.at = "idle" /\ set # 0
    /\ gathering' = [at |-> "collect", left |-> Chosen[set], pieces |-> {}]
    /\ ready' = {g \in Chosen[set] : approval[g] = set}
    /\ outcome' = NoOutcome
    /\ UNCHANGED <<set, share, gkey, approval, initcall, approving, made, approvers>>

\* The names are read at once.  A read that fails is caught and passes for a name that
\* has published nothing: nobody is told.
Collect(g) ==
    /\ gathering.at = "collect" /\ g \in gathering.left
    /\ \E read \in BOOLEAN :
          /\ gathering' = [gathering EXCEPT !.left = @ \ {g},
                !.pieces = @ \cup (IF ~read \/ approval[g] = 0 THEN {}
                                   ELSE {[set |-> approval[g], x |-> XOf[approval[g]][g]]})]
          /\ ready' = IF read THEN ready ELSE ready \ {g}
    /\ UNCHANGED <<set, share, gkey, approval, initcall, approving, made, approvers, outcome>>

\* combine: the key of a set from enough pieces of it, and otherwise no key of any.
Combine(pieces) ==
    LET sets == {p.set : p \in pieces}
        s == CHOOSE s \in sets : TRUE
    IN IF Cardinality(sets) = 1 /\ Cardinality(pieces) >= Threshold[s] THEN s ELSE 0

\* Mutant of Rebuilds: all the pieces are combined at once.
RebuildsAll(pieces, expected) == Combine(pieces) = expected

\* recoverWithShares: some combination of exactly threshold pieces, no two of one x,
\* gives the published key.
Rebuilds(pieces, expected) ==
    \E combo \in SUBSET pieces :
        /\ Cardinality(combo) = Threshold[expected]
        /\ Cardinality({p.x : p \in combo}) = Cardinality(combo)
        /\ Combine(combo) = expected

\* recover reads the published key and threshold.
Recover ==
    /\ gathering.at = "collect" /\ gathering.left = {}
    /\ outcome' = [outcome EXCEPT !.expected = set,
                                  !.got = IF Rebuilds(gathering.pieces, set) THEN set ELSE 0]
    /\ gathering' = NotGathering
    /\ UNCHANGED <<set, share, gkey, approval, initcall, approving, made, approvers, ready>>

GuardianSetsNext ==
    \/ BeginSet \/ LandSet \/ BeginCollect \/ Recover
    \/ \E g \in Guardians : Move(g) \/ Approve(g) \/ Publish(g) \/ Collect(g)

GuardianSetsSpec == GuardianSetsInit /\ [][GuardianSetsNext]_guardianVars
----------------------------------------------------------------------------
\* Properties.

\* Every variable keeps its type.
GuardianSetsTypeOK ==
    /\ set \in 0..MaxSets /\ made \in 0..MaxSets
    /\ share \in [Guardians -> [set : 0..MaxSets, key : Keys]]
    /\ gkey \in [Guardians -> Keys]
    /\ {approval, approving} \subseteq [Guardians -> 0..MaxSets]
    /\ initcall.set \in 0..MaxSets
    /\ gathering.at \in {"idle", "collect"} /\ gathering.left \subseteq Guardians
    /\ approvers \in [GuardianSetIds -> SUBSET Guardians] /\ ready \subseteq Guardians
    /\ outcome.expected \in 0..MaxSets /\ outcome.got \in 0..MaxSets

\* A quorum recovers, and nothing less: when threshold guardians' names hold a piece of
\* the published set as collect begins, and its read of those names does not fail, recover
\* gives the set's key, whatever pieces of older sets the others left and whatever other
\* reads fail, unless the set is replaced meanwhile; and it gives the key of no set that
\* fewer than its threshold approved.
QuorumRecovers ==
    LET e == outcome.expected
    IN e # 0 =>
        /\ Cardinality(ready) >= Threshold[e] /\ ~outcome.replaced => outcome.got = e
        /\ outcome.got # 0 => Cardinality(approvers[outcome.got]) >= Threshold[outcome.got]
=============================================================================

--------------------------- MODULE SecretClients ---------------------------
(***************************************************************************)
(* One secret and the programs that write it (sdk/src/client.ts).  Each    *)
(* client runs with the owner's wallet: a dashboard tab, an extension, a   *)
(* script.  A call reads the records, resolves the names it will seal to,  *)
(* asks the wallet for a signature and sends one transaction, so other     *)
(* writes land between its steps.  Nothing on chain orders two calls.      *)
(*                                                                         *)
(* The environment: names republish their keys, and a write delegate       *)
(* rewrites records (SPEC.md section 2), which it can do but not sign.     *)
(***************************************************************************)
EXTENDS SecretRecords

CONSTANTS
    Clients,       \* programs holding the owner's wallet
    Candidates,    \* names the owner would ever put on each list
    Publishable,   \* keys each name may publish as its own
    TeamKeys,      \* keys each name may publish as its subtree key
    Ops,           \* calls the clients make
    LegacyStart,   \* the secret may predate key binding
    TornReads,     \* a block may land between two record reads of one call
    Forgeable,     \* names a delegate would add to each list
    Delegated      \* records a write delegate holds the role for

ASSUME ClientAssumptions ==
    /\ Candidates \in Lists /\ Forgeable \in Lists
    /\ Publishable \in [Names -> SUBSET (Keys \cup {NoKey})]
    /\ TeamKeys \in [Names -> SUBSET (Keys \cup {NoKey})]
    /\ LegacyStart \in BOOLEAN /\ TornReads \in BOOLEAN
    /\ Delegated \subseteq {"signed", "holders"}

VARIABLES
    rec,       \* the records of the secret, as the chain holds them
    pubkey,    \* rewall.pubkey of each name, or a guardian set's recovery key
    teamkey,   \* rewall.subtree.pubkey of each name
    pc,        \* where each client is in its call
    snap,      \* the records each client read
    resolved,  \* the approvals a create resolved before it read anything
    plan,      \* the write each client has signed and not yet sent
    nextDek,   \* randomDek never repeats
    approved,  \* ghost: entries the owner approved with their key, ever
    sealed,    \* ghost: entries an owner's client sealed a data key to, ever
    history    \* ghost: signatures a delegate can find in chain history

world == <<rec, pubkey, teamkey>>
clientVars == <<pc, snap, resolved, plan, nextDek>>
ghosts == <<approved, sealed, history>>
vars == <<rec, pubkey, teamkey, pc, snap, resolved, plan, nextDek,
          approved, sealed, history>>

Offered == {l \in Lists : \A role \in ListRoles : l[role] \subseteq Candidates[role]}

\* publicKeyOf, resolveRecovery and subtreeKeyOf.
KeyFor(role, name) == IF role = "subtree" THEN teamkey[name] ELSE pubkey[name]

\* A name that no longer resolves stops the call rather than dropping out.
Resolvable(lists) ==
    \A role \in ListRoles : \A name \in lists[role] : KeyFor(role, name) # NoKey

Resolve(lists) ==
    {OwnerApproval} \cup
    UNION {{Approval(role, name, KeyFor(role, name)) : name \in lists[role]} :
              role \in ListRoles}

----------------------------------------------------------------------------
\* A secret written before rewall.auth.keys existed: signed names, no keys.
LegacyRecords(as, val) ==
    LET p == SealPlan(as, 1, val, 1, {})
    IN [Apply(NoRecords, p) EXCEPT !.keys = {}, !.sig = LegacyPayload(1, p.lists)]

Init ==
    /\ pubkey \in [Names -> Keys \cup {NoKey}]
    /\ teamkey \in [Names -> Keys \cup {NoKey}]
    /\ \A name \in Names : pubkey[name] \in Publishable[name] /\ teamkey[name] \in TeamKeys[name]
    /\ pc = [c \in Clients |-> "idle"]
    /\ snap = [c \in Clients |-> NoRecords]
    /\ resolved = [c \in Clients |-> {}]
    /\ plan = [c \in Clients |-> NoPlan]
    /\ \/ /\ rec = NoRecords
          /\ nextDek = 1
          /\ approved = {} /\ sealed = {}
       \/ \E lists \in Offered : \E val \in Values :
             /\ LegacyStart /\ MaxDek >= 1
             /\ Resolvable(lists) /\ Sealable(Resolve(lists))
             /\ rec = LegacyRecords(Resolve(lists), val)
             /\ nextDek = 2
             /\ approved = Resolve(lists) /\ sealed = Resolve(lists)
    /\ history = IF "signed" \in Delegated THEN {rec.sig} \ {NoSig} ELSE {}

----------------------------------------------------------------------------
\* Reading.

\* readForRotate, and the reads that open a forget.
Read(c) ==
    /\ pc[c] = "idle"
    /\ pc' = [pc EXCEPT ![c] = "read"]
    /\ snap' = [snap EXCEPT ![c] = rec]
    /\ UNCHANGED <<world, resolved, plan, nextDek, ghosts>>

\* readTexts is one eth_call for each record, each at the latest block: some
\* records of the snapshot may come from a later state than the others.
ReadMore(c) ==
    /\ TornReads
    /\ pc[c] = "read" /\ snap[c] # rec
    /\ \E later \in SUBSET {"signed", "blob", "holders", "wrap"} :
          snap' = [snap EXCEPT ![c] =
             [lists   |-> IF "signed" \in later THEN rec.lists ELSE @.lists,
              n       |-> IF "signed" \in later THEN rec.n ELSE @.n,
              keys    |-> IF "signed" \in later THEN rec.keys ELSE @.keys,
              sig     |-> IF "signed" \in later THEN rec.sig ELSE @.sig,
              blob    |-> IF "blob" \in later THEN rec.blob ELSE @.blob,
              holders |-> IF "holders" \in later THEN rec.holders ELSE @.holders,
              wrap    |-> IF "wrap" \in later THEN rec.wrap ELSE @.wrap]]
    /\ UNCHANGED <<world, pc, resolved, plan, nextDek, ghosts>>

\* A refusal, a rejected wallet prompt or a reverted transaction: the call
\* throws, and nothing of it was written.
Abandon(c) ==
    /\ pc[c] # "idle"
    /\ pc' = [pc EXCEPT ![c] = "idle"]
    /\ snap' = [snap EXCEPT ![c] = NoRecords]
    /\ resolved' = [resolved EXCEPT ![c] = {}]
    /\ plan' = [plan EXCEPT ![c] = NoPlan]
    /\ UNCHANGED <<world, nextDek, ghosts>>

----------------------------------------------------------------------------
\* Planning and signing.  Every call below ends with a signed write.

Sign(c, p) ==
    /\ p.n <= MaxCounter
    /\ pc' = [pc EXCEPT ![c] = "signed"]
    /\ snap' = [snap EXCEPT ![c] = NoRecords]
    /\ resolved' = [resolved EXCEPT ![c] = {}]
    /\ plan' = [plan EXCEPT ![c] = p]
    /\ UNCHANGED <<world, history>>

\* Mutant of Draw: a rotation seals under the data key it had.
DrawAgain == nextDek <= MaxDek /\ UNCHANGED nextDek

\* randomDek, in planSecret.
Draw == nextDek <= MaxDek /\ nextDek' = nextDek + 1

Approve(as) == approved' = approved \cup as
Seal(as) == sealed' = sealed \cup as

\* create resolves every key first, on trust: naming a party is the approval.
CreateResolve(c, lists) ==
    /\ "create" \in Ops
    /\ pc[c] = "idle"
    /\ Resolvable(lists)
    /\ pc' = [pc EXCEPT ![c] = "resolved"]
    /\ resolved' = [resolved EXCEPT ![c] = Resolve(lists)]
    /\ UNCHANGED <<world, snap, plan, nextDek, ghosts>>

\* Then it reads what is there, plans and signs, always with counter 1.
CreateSign(c, val) ==
    /\ pc[c] = "resolved"
    /\ rec.blob # NoBlob => "overwrite" \in Ops
    /\ Sealable(resolved[c])
    /\ Draw
    /\ Sign(c, SealPlan(resolved[c], nextDek, val, 1, rec.holders))
    /\ Approve(resolved[c]) /\ Seal(resolved[c])

\* rotateTo: refuses a list the owner never signed and a key it never approved.
RotateTo(c, lists, accept, val) ==
    LET r == snap[c]
        next == Resolve(lists)
    IN /\ pc[c] = "read"
       /\ Verified(r)
       /\ val = Keep => OwnerOpens(r)
       /\ Resolvable(lists)
       /\ AllApproved(Rebind(r.keys, accept), next)
       /\ Sealable(next)
       /\ Draw
       /\ Sign(c, SealPlan(next, nextDek, IF val = Keep THEN r.blob.val ELSE val,
                           r.n + 1, r.holders \cup ({OwnerKey} \cap Wrapped(r))))
       /\ Approve(accept) /\ Seal(next)

\* rotate, with a new plaintext or with the one it decrypts.
Rotate(c, val) ==
    /\ "rotate" \in Ops
    /\ RotateTo(c, snap[c].lists, {}, val)

\* revoke: not the last recovery entry, nor a grant whose name stays a recovery.
Revoke(c, role, name) ==
    LET lists == snap[c].lists
    IN /\ "revoke" \in Ops
       /\ name \in lists[role]
       /\ role = "recovery" => lists["recovery"] # {name}
       /\ role = "grantee" => name \notin lists["recovery"]
       /\ RotateTo(c, [lists EXCEPT ![role] = @ \ {name}], {}, Keep)

\* grant of a name already listed: its key may have changed, so it rotates.
Regrant(c, role, name) ==
    /\ "grant" \in Ops
    /\ name \in snap[c].lists[role]
    /\ KeyFor(role, name) # NoKey
    /\ RotateTo(c, snap[c].lists, {Approval(role, name, KeyFor(role, name))}, Keep)

\* grant of a new name: one wrap of the data key the owner's own wrap opens to.
Grant(c, role, name) ==
    LET r == snap[c]
        a == Approval(role, name, KeyFor(role, name))
    IN /\ "grant" \in Ops
       /\ pc[c] = "read"
       /\ Verified(r)
       /\ name \notin r.lists[role]
       /\ KeyFor(role, name) # NoKey
       /\ r.wrap[OwnerKey] # NoDek
       /\ Sign(c, GrantPlan(r, a))
       /\ Approve({a}) /\ Seal({a})
       /\ UNCHANGED nextDek

\* reauthorize: re-signs lists over a verified or a legacy baseline.  A key
\* that changed must be in accept; a legacy list bound none.
Reauthorize(c, lists) ==
    LET r == snap[c]
        next == Resolve(lists)
        prior == IF Verified(r) THEN r.keys ELSE {}
        named == {a \in next : \A p \in prior : ~SameEntry(a, p)}
    IN /\ "reauthorize" \in Ops
       /\ pc[c] = "read"
       /\ Verified(r) \/ Legacy(r)
       /\ lists["recovery"] # {}
       /\ Resolvable(lists)
       /\ \E accept \in SUBSET Changed(prior, next) :
             /\ UnacceptedChanges(prior, next, accept) = {}
             /\ Approve(named \cup accept)
       /\ Sign(c, ReauthorizePlan(next, r.n + 1))
       /\ UNCHANGED <<nextDek, sealed>>

\* forget: clears every record and the wraps rewall.holders names, unsigned.
Forget(c) ==
    /\ "forget" \in Ops
    /\ pc[c] = "read"
    /\ snap[c].blob # NoBlob
    /\ Sign(c, ClearPlan(snap[c].holders))
    /\ UNCHANGED <<nextDek, approved, sealed>>

----------------------------------------------------------------------------
\* The transaction: one multicall on one resolver, over whatever is there now.
Write(c) ==
    /\ pc[c] = "signed"
    /\ rec' = Apply(rec, plan[c])
    /\ pc' = [pc EXCEPT ![c] = "idle"]
    /\ plan' = [plan EXCEPT ![c] = NoPlan]
    /\ history' = IF "signed" \in Delegated THEN history \cup ({plan[c].sig} \ {NoSig})
                                           ELSE history
    /\ UNCHANGED <<pubkey, teamkey, snap, resolved, nextDek, approved, sealed>>

----------------------------------------------------------------------------
\* The environment.

\* A name publishes another key, or clears it.
Publish(name) ==
    /\ \E k \in Publishable[name] : pubkey' = [pubkey EXCEPT ![name] = k]
    /\ UNCHANGED <<rec, teamkey, clientVars, ghosts>>

PublishTeam(name) ==
    /\ \E k \in TeamKeys[name] : teamkey' = [teamkey EXCEPT ![name] = k]
    /\ UNCHANGED <<rec, pubkey, clientVars, ghosts>>

\* A write delegate edits lists or keys with no signature to go with them.
DelegateForge ==
    /\ "signed" \in Delegated
    /\ \/ \E role \in ListRoles : \E name \in Forgeable[role] :
             rec' = [rec EXCEPT !.lists[role] = @ \cup {name}]
       \/ \E name \in Names : pubkey[name] # NoKey /\
             rec' = [rec EXCEPT !.keys =
                        Rebind(@, {Approval("grantee", name, pubkey[name])})]
    /\ UNCHANGED <<pubkey, teamkey, clientVars, ghosts>>

\* It rolls the signed records back to others the owner did sign.
DelegateRollback ==
    /\ "signed" \in Delegated
    /\ \E s \in history :
          rec' = [rec EXCEPT !.lists = s.lists, !.n = s.n, !.keys = s.keys, !.sig = s]
    /\ UNCHANGED <<pubkey, teamkey, clientVars, ghosts>>

\* It hides a fingerprint from the list a rotation clears wraps by.
DelegateHide ==
    /\ "holders" \in Delegated
    /\ \E k \in rec.holders : rec' = [rec EXCEPT !.holders = @ \ {k}]
    /\ UNCHANGED <<pubkey, teamkey, clientVars, ghosts>>

ClientStep(c) ==
    \/ Read(c) \/ ReadMore(c) \/ Abandon(c)
    \/ \E lists \in Offered : CreateResolve(c, lists) \/ Reauthorize(c, lists)
    \/ \E val \in Values : CreateSign(c, val)
    \/ \E val \in Values \cup {Keep} : Rotate(c, val)
    \/ \E role \in ListRoles : \E name \in Names : Revoke(c, role, name)
    \/ \E role \in {"grantee", "subtree"} : \E name \in Candidates[role] :
          Grant(c, role, name) \/ Regrant(c, role, name)
    \/ Forget(c)
    \/ Write(c)

Environment ==
    \/ \E name \in Names : Publish(name) \/ PublishTeam(name)
    \/ DelegateForge \/ DelegateRollback \/ DelegateHide

Next == (\E c \in Clients : ClientStep(c)) \/ Environment

Spec == Init /\ [][Next]_vars
----------------------------------------------------------------------------
\* Properties.

\* Every variable keeps its type, the shape text records are parsed into.
TypeOK ==
    /\ rec \in Records
    /\ pubkey \in [Names -> Keys \cup {NoKey}]
    /\ teamkey \in [Names -> Keys \cup {NoKey}]
    /\ pc \in [Clients -> {"idle", "read", "resolved", "signed"}]
    /\ snap \in [Clients -> Records]
    /\ resolved \in [Clients -> SUBSET Approvals]
    /\ plan \in [Clients -> Plans]
    /\ nextDek \in 1..(MaxDek + 1)
    /\ approved \subseteq Approvals
    /\ sealed \subseteq Approvals
    /\ history \subseteq Signatures

\* An owner's client never seals a data key to a key its owner did not approve
\* for that name in that role, whatever names republish and delegates write
\* (assertAuthorized, assertApproved, unacceptedChanges).
SealedOnlyToApproved == sealed \subseteq approved

\* Its inductive form: a signature that binds keys, wherever a client or a
\* delegate could take it from, binds only approved ones.
Within(sig, as) == sig # NoSig /\ sig.v = 2 => sig.keys \subseteq as

Binding ==
    /\ SealedOnlyToApproved
    /\ Within(rec.sig, approved)
    /\ \A c \in Clients : Within(snap[c].sig, approved) /\ Within(plan[c].sig, approved)
    /\ \A s \in history : Within(s, approved)

\* A list the owner signed always names a recovery entry, rolled back or not,
\* so no later rotation is refused for want of one (planSecret, reauthorize).
SignedRecovery == Verified(rec) => rec.lists["recovery"] # {}

\* Its inductive form, over every signature a client or a delegate can reuse.
NamesRecovery(sig) == sig # NoSig => sig.lists["recovery"] # {}

RecoveryKept ==
    /\ NamesRecovery(rec.sig)
    /\ \A c \in Clients : NamesRecovery(snap[c].sig) /\ NamesRecovery(plan[c].sig)
    /\ \A s \in history : NamesRecovery(s)

\* rewall.holders names exactly the keys that have a wrap, so a rotation finds
\* every wrap it must clear (holders in grant, rotateTo, create and forget).
HoldersAreWraps == rec.holders = Wrapped(rec)

\* The keys that open the stored blob are the keys on the signed lists: a grant
\* gives access, a revoke takes it even where rewall.holders was edited to hide
\* a wrap from the rotation, and a changed key keeps none (a fresh data key).
ReadersAreListed == rec.blob # NoBlob => Readers(rec) = KeysOf(rec.keys)

\* A secret that exists carries a signature the next call accepts, so its owner
\* can go on granting, revoking and rotating (signAuthorization in each call).
StaysManageable == rec.blob # NoBlob => Verified(rec) \/ Legacy(rec)

\* The owner's key opens every blob its clients leave on the name.
OwnerKeepsAccess == rec.blob # NoBlob => OwnerOpens(rec)

\* What that rests on: no name the owner may grant to publishes the owner's key.
OwnerNotGranted ==
    /\ \A name \in Candidates["grantee"] : OwnerKey \notin Publishable[name]
    /\ \A name \in Candidates["subtree"] : OwnerKey \notin TeamKeys[name]

\* A write after which the owner opens the blob if it did before, whatever the
\* records are when it lands.
KeepsOwner(p) ==
    \/ p.blob = NoBlob
    \/ p.blob = Keep /\ p.wrap[OwnerKey] = Keep
    \/ p.blob \in Blobs /\ p.wrap[OwnerKey] = p.blob.dek

\* Its inductive form: every write under way keeps the owner, and every create
\* resolved the owner's own entry.
OwnerKept ==
    /\ OwnerKeepsAccess
    /\ \A c \in Clients : /\ pc[c] = "resolved" => OwnerApproval \in resolved[c]
                          /\ pc[c] = "signed" => KeepsOwner(plan[c])
    /\ \A name \in Names : /\ pubkey[name] \in Publishable[name]
                           /\ teamkey[name] \in TeamKeys[name]

\* So does some key that is not the owner's: losing the wallet strands nothing.
NotStranded == rec.blob # NoBlob => Readers(rec) \ {OwnerKey} # {}
=============================================================================

--------------------------- MODULE SecretRecords ---------------------------
(***************************************************************************)
(* The text records of one secret (sdk/src/records.ts), the payload its    *)
(* owner signs (sdk/src/authorization.ts) and the planning functions that  *)
(* turn a list of names into records to write (sdk/src/secret.ts).  Pure   *)
(* operators only: SecretClients.tla holds the state machine.              *)
(*                                                                         *)
(* A public key and its fingerprint are one value, a member of Keys.  A    *)
(* data key is a number, fresh for each create and each rotation.  A name  *)
(* list is a set: joinNames dedupes and sorts, so order carries nothing.   *)
(***************************************************************************)
EXTENDS Naturals, FiniteSets

CONSTANTS
    Names,       \* names and guardian entries an owner may put on a list
    Owner,       \* the name that owns the secret
    Keys,        \* fingerprints
    OwnerKey,    \* the owner's identity key, derived from its wallet
    Values,      \* plaintexts
    MaxDek,      \* bound: data keys the clients may draw
    MaxCounter,  \* bound: value of rewall.auth.n a client may sign
    NoKey,       \* a name that has published no key
    NoBlob,      \* an unset rewall.blob
    NoSig,       \* an unset rewall.auth.sig
    Keep         \* a record a write leaves alone

ASSUME RecordAssumptions ==
    /\ OwnerKey \in Keys
    /\ NoKey \notin Keys
    /\ MaxDek \in Nat
    /\ MaxCounter \in Nat

ListRoles == {"grantee", "subtree", "recovery"}

Lists == [ListRoles -> SUBSET Names]
NoLists == [role \in ListRoles |-> {}]

\* One entry of rewall.auth.keys: a name, in a role, bound to a key.
Approval(role, name, key) == [role |-> role, name |-> name, key |-> key]
OwnerApproval == Approval("owner", Owner, OwnerKey)
Approvals == [role : ListRoles, name : Names, key : Keys] \cup {OwnerApproval}
SameEntry(a, b) == a.role = b.role /\ a.name = b.name

NoDek == 0
Deks == 1..MaxDek
Blobs == [dek : Deks, val : Values]

\* What a signature covers: version 2 binds the keys, version 1 only names.
Signatures == [v : {1, 2}, n : Nat, lists : Lists, keys : SUBSET Approvals]
Payload(n, lists, keys) == [v |-> 2, n |-> n, lists |-> lists, keys |-> keys]
LegacyPayload(n, lists) == [v |-> 1, n |-> n, lists |-> lists, keys |-> {}]

ASSUME SignatureAssumption == NoSig \notin Signatures

\* What marks an unset blob or a record left alone is no value of a record.
ASSUME SentinelAssumption ==
    /\ NoBlob \notin Blobs
    /\ Keep \notin Blobs \cup {NoBlob}
    /\ Keep \notin Deks \cup {NoDek}
    /\ \A names \in SUBSET Names : Keep # names
    /\ \A keys \in SUBSET Keys : Keep # keys

Records == [lists : Lists, n : Nat, keys : SUBSET Approvals,
            sig : Signatures \cup {NoSig}, blob : Blobs \cup {NoBlob},
            holders : SUBSET Keys, wrap : [Keys -> Deks \cup {NoDek}]]

NoRecords == [lists |-> NoLists, n |-> 0, keys |-> {}, sig |-> NoSig,
              blob |-> NoBlob, holders |-> {}, wrap |-> [k \in Keys |-> NoDek]]

----------------------------------------------------------------------------
\* Reading what is stored.

\* Mutant of Verified: the signature is checked against the names alone.
VerifiedNames(r) == r.sig # NoSig /\ r.sig.n = r.n /\ r.sig.lists = r.lists

\* isAuthorizedBy: the signature covers exactly the lists that are stored.
Verified(r) == r.sig = Payload(r.n, r.lists, r.keys)

\* isLegacyAuthorizedBy: it covers the stored names, under the old payload.
Legacy(r) == r.sig = LegacyPayload(r.n, r.lists)

\* Keys whose holder opens the blob that is stored now.
Readers(r) == {k \in Keys : r.blob # NoBlob /\ r.wrap[k] = r.blob.dek}

\* openSecret, for the owner's own key.
OwnerOpens(r) == OwnerKey \in Readers(r)

Wrapped(r) == {k \in Keys : r.wrap[k] # NoDek}

----------------------------------------------------------------------------
\* Approvals.

KeysOf(as) == {a.key : a \in as}
ListsOf(as) == [role \in ListRoles |-> {a.name : a \in {b \in as : b.role = role}}]

\* joinApprovals over a concatenation: the last binding of an entry wins.
Rebind(as, more) == {a \in as : \A b \in more : ~SameEntry(a, b)} \cup more

\* assertApproved: every resolved key is the key that entry is bound to.
AllApproved(as, resolved) == resolved \subseteq as

\* unacceptedChanges: entries bound to another key and not named in accept.
Changed(prior, next) ==
    {a \in next : \E p \in prior : SameEntry(p, a) /\ p.key # a.key}
UnacceptedChanges(prior, next, accept) == Changed(prior, next) \ accept

----------------------------------------------------------------------------
\* Planning a write.  A plan names every record: Keep leaves it alone.

Plans == [lists : [ListRoles -> (SUBSET Names) \cup {Keep}], n : Nat,
          keys : SUBSET Approvals, sig : Signatures \cup {NoSig},
          blob : Blobs \cup {NoBlob, Keep}, holders : (SUBSET Keys) \cup {Keep},
          wrap : [Keys -> Deks \cup {NoDek, Keep}]]

NoPlan == [lists |-> NoLists, n |-> 0, keys |-> {}, sig |-> NoSig,
           blob |-> Keep, holders |-> Keep, wrap |-> [k \in Keys |-> Keep]]

KeepLists == [role \in ListRoles |-> Keep]
KeepWraps == [k \in Keys |-> Keep]

\* Mutants of Sealable: each drops one refusal.
SealableToOwner(as) == ListsOf(as)["recovery"] # {}
SealableUnrecoverable(as) == KeysOf(as) # {OwnerKey}

\* planSecret's refusals: no recovery entry, or nobody but the owner's key.
Sealable(as) == ListsOf(as)["recovery"] # {} /\ KeysOf(as) # {OwnerKey}

\* Mutant of SealPlan: the dropped wraps stay.
SealPlanKeeping(as, dek, val, n, previous) ==
    LET kept == KeysOf(as)
    IN [lists |-> ListsOf(as), n |-> n, keys |-> as,
        sig |-> Payload(n, ListsOf(as), as),
        blob |-> [dek |-> dek, val |-> val], holders |-> kept,
        wrap |-> [k \in Keys |-> IF k \in kept THEN dek ELSE Keep]]

\* planSecret and planRotate: one wrap for each key, the dropped ones cleared.
SealPlan(as, dek, val, n, previous) ==
    LET kept == KeysOf(as)
    IN [lists |-> ListsOf(as), n |-> n, keys |-> as,
        sig |-> Payload(n, ListsOf(as), as),
        blob |-> [dek |-> dek, val |-> val], holders |-> kept,
        wrap |-> [k \in Keys |-> IF k \in kept THEN dek
                                 ELSE IF k \in previous THEN NoDek ELSE Keep]]

\* Mutants of GrantPlan: one signs the old counter, one rewraps the owner too.
GrantPlanOldCounter(r, a) ==
    LET lists == [r.lists EXCEPT ![a.role] = @ \cup {a.name}]
        keys == Rebind(r.keys, {a})
    IN [lists |-> [KeepLists EXCEPT ![a.role] = lists[a.role]], n |-> r.n + 1,
        keys |-> keys, sig |-> Payload(r.n, lists, keys), blob |-> Keep,
        holders |-> r.holders \cup {a.key},
        wrap |-> [KeepWraps EXCEPT ![a.key] = r.wrap[OwnerKey]]]

GrantPlanRewrap(r, a) ==
    LET lists == [r.lists EXCEPT ![a.role] = @ \cup {a.name}]
        keys == Rebind(r.keys, {a})
    IN [lists |-> [KeepLists EXCEPT ![a.role] = lists[a.role]], n |-> r.n + 1,
        keys |-> keys, sig |-> Payload(r.n + 1, lists, keys), blob |-> Keep,
        holders |-> r.holders \cup {a.key},
        wrap |-> [k \in Keys |-> IF k \in {a.key, OwnerKey} THEN r.wrap[OwnerKey]
                                 ELSE Keep]]

\* planGrant: the data key the caller's own wrap opens to, sealed to one key.
GrantPlan(r, a) ==
    LET lists == [r.lists EXCEPT ![a.role] = @ \cup {a.name}]
        keys == Rebind(r.keys, {a})
    IN [lists |-> [KeepLists EXCEPT ![a.role] = lists[a.role]], n |-> r.n + 1,
        keys |-> keys, sig |-> Payload(r.n + 1, lists, keys), blob |-> Keep,
        holders |-> r.holders \cup {a.key},
        wrap |-> [KeepWraps EXCEPT ![a.key] = r.wrap[OwnerKey]]]

\* reauthorize: the lists and the signature, and no wrap.
ReauthorizePlan(as, n) ==
    [lists |-> ListsOf(as), n |-> n, keys |-> as,
     sig |-> Payload(n, ListsOf(as), as), blob |-> Keep, holders |-> Keep,
     wrap |-> KeepWraps]

\* clearSecretRecords: everything, and the wraps the caller knows of.
ClearPlan(holders) ==
    [lists |-> NoLists, n |-> 0, keys |-> {}, sig |-> NoSig, blob |-> NoBlob,
     holders |-> {},
     wrap |-> [k \in Keys |-> IF k \in holders THEN NoDek ELSE Keep]]

Merge(old, new) == IF new = Keep THEN old ELSE new

\* The multicall: every record of the plan, in one transaction.
Apply(r, p) ==
    [lists |-> [role \in ListRoles |-> Merge(r.lists[role], p.lists[role])],
     n |-> p.n, keys |-> p.keys, sig |-> p.sig,
     blob |-> Merge(r.blob, p.blob), holders |-> Merge(r.holders, p.holders),
     wrap |-> [k \in Keys |-> Merge(r.wrap[k], p.wrap[k])]]
=============================================================================

------------------------ MODULE SecretClients_proofs ------------------------
(***************************************************************************)
(* Proofs about SecretClients, for every number of clients, names, keys    *)
(* and data keys: its type invariant, that no client ever seals a data key *)
(* to a key its owner did not approve, that every signed list names a      *)
(* recovery entry, and that the owner keeps access to what is stored; and, *)
(* where one client of an owner writes at a time, that somebody else keeps *)
(* access too, that it stays manageable, that rewall.holders names every   *)
(* wrap and that the listed keys alone open it.                            *)
(***************************************************************************)
EXTENDS SecretClients, TLAPS

----------------------------------------------------------------------------
\* What the planning operators return.

\* The lists read off a set of approvals name only names (ListsOf).
LEMMA ListsOfType ==
    ASSUME NEW as \in SUBSET Approvals
    PROVE  ListsOf(as) \in Lists
<1> SUFFICES ASSUME NEW role \in ListRoles, NEW a \in as, a.role = role
             PROVE  a.name \in Names
    BY DEF ListsOf, Lists
<1>1. a # OwnerApproval
    BY DEF OwnerApproval, Approval, ListRoles
<1> QED
    BY <1>1 DEF Approvals

\* A current payload over typed lists is a signature, and its fields are its own.
LEMMA PayloadType ==
    ASSUME NEW n \in Nat, NEW lists \in Lists, NEW keys \in SUBSET Approvals
    PROVE  /\ Payload(n, lists, keys) \in Signatures
           /\ Payload(n, lists, keys).v = 2
           /\ Payload(n, lists, keys).keys = keys
    BY DEF Payload, Signatures

\* A record set that verifies binds the keys its signature covers.
LEMMA VerifiedKeys ==
    ASSUME NEW r \in Records, Verified(r)
    PROVE  r.sig \in Signatures /\ r.sig.v = 2 /\ r.sig.keys = r.keys
    BY PayloadType DEF Verified, Records

\* The keys of a set of approvals are keys.
LEMMA KeysOfType ==
    ASSUME NEW as \in SUBSET Approvals
    PROVE  KeysOf(as) \in SUBSET Keys
<1> SUFFICES ASSUME NEW a \in as
             PROVE  a.key \in Keys
    BY DEF KeysOf
<1>1. CASE a = OwnerApproval
    BY <1>1, RecordAssumptions DEF OwnerApproval, Approval
<1>2. CASE a \in [role : ListRoles, name : Names, key : Keys]
    BY <1>2
<1> QED
    BY <1>1, <1>2 DEF Approvals

\* A planned rotation is a plan, and keeps its approvals (planRotate).
LEMMA SealPlanType ==
    ASSUME NEW as \in SUBSET Approvals, NEW dek \in Deks, NEW val \in Values,
           NEW n \in Nat, NEW previous \in SUBSET Keys
    PROVE  /\ SealPlan(as, dek, val, n, previous) \in Plans
           /\ SealPlan(as, dek, val, n, previous).sig = Payload(n, ListsOf(as), as)
<1>1. ListsOf(as) \in [ListRoles -> (SUBSET Names) \cup {Keep}]
    BY ListsOfType DEF Lists
<1>2. Payload(n, ListsOf(as), as) \in Signatures
    BY ListsOfType, PayloadType
<1>3. KeysOf(as) \in SUBSET Keys
    BY KeysOfType
<1>4. [dek |-> dek, val |-> val] \in Blobs
    BY DEF Blobs
<1> QED
    BY <1>1, <1>2, <1>3, <1>4 DEF SealPlan, Plans

\* A planned grant is a plan over the caller's records (planGrant).
LEMMA GrantPlanType ==
    ASSUME NEW r \in Records, NEW a \in [role : ListRoles, name : Names, key : Keys]
    PROVE  /\ GrantPlan(r, a) \in Plans
           /\ \E lists \in Lists :
                 GrantPlan(r, a).sig = Payload(r.n + 1, lists, Rebind(r.keys, {a}))
<1> DEFINE lists == [r.lists EXCEPT ![a.role] = @ \cup {a.name}]
           keys == Rebind(r.keys, {a})
<1>1. lists \in Lists
    BY DEF Lists, Records
<1>2. keys \in SUBSET Approvals
    BY DEF Rebind, Records, Approvals
<1>3. r.n + 1 \in Nat
    BY DEF Records
<1> HIDE DEF lists, keys
<1>8. Payload(r.n + 1, lists, keys) \in Signatures
    BY <1>1, <1>2, <1>3, PayloadType
<1> USE DEF lists, keys
<1>4. [KeepLists EXCEPT ![a.role] = lists[a.role]] \in [ListRoles -> (SUBSET Names) \cup {Keep}]
    BY <1>1 DEF KeepLists, Lists
<1>5. r.wrap[OwnerKey] \in Deks \cup {NoDek}
    BY RecordAssumptions DEF Records
<1>6. [KeepWraps EXCEPT ![a.key] = r.wrap[OwnerKey]] \in [Keys -> Deks \cup {NoDek, Keep}]
    BY <1>5 DEF KeepWraps
<1>7. r.holders \cup {a.key} \in SUBSET Keys
    BY DEF Records
<1> QED
    BY <1>1, <1>2, <1>3, <1>4, <1>6, <1>7, <1>8 DEF GrantPlan, Plans

\* So is a re-authorization, and it keeps the approvals it signs.
LEMMA ReauthorizePlanType ==
    ASSUME NEW as \in SUBSET Approvals, NEW n \in Nat
    PROVE  /\ ReauthorizePlan(as, n) \in Plans
           /\ ReauthorizePlan(as, n).sig = Payload(n, ListsOf(as), as)
<1>1. ListsOf(as) \in [ListRoles -> (SUBSET Names) \cup {Keep}]
    BY ListsOfType DEF Lists
<1>2. Payload(n, ListsOf(as), as) \in Signatures
    BY ListsOfType, PayloadType
<1>3. KeepWraps \in [Keys -> Deks \cup {NoDek, Keep}]
    BY DEF KeepWraps
<1> QED
    BY <1>1, <1>2, <1>3 DEF ReauthorizePlan, Plans

\* And a forget, which signs nothing (clearSecretRecords).
LEMMA ClearPlanType ==
    ASSUME NEW holders
    PROVE  ClearPlan(holders) \in Plans /\ ClearPlan(holders).sig = NoSig
    BY DEF ClearPlan, Plans, NoLists

LEMMA NoPlanType == NoPlan \in Plans /\ NoPlan.sig = NoSig
    BY DEF NoPlan, Plans, NoLists

LEMMA NoRecordsType == NoRecords \in Records /\ NoRecords.sig = NoSig
    BY DEF NoRecords, Records, NoLists, Lists

\* Writing a plan over records gives records, signed as the plan is (multicall).
LEMMA ApplyType ==
    ASSUME NEW r \in Records, NEW p \in Plans
    PROVE  Apply(r, p) \in Records /\ Apply(r, p).sig = p.sig
<1>1. ASSUME NEW role \in ListRoles
      PROVE  Merge(r.lists[role], p.lists[role]) \in SUBSET Names
    BY DEF Merge, Records, Plans, Lists
<1>2. ASSUME NEW k \in Keys
      PROVE  Merge(r.wrap[k], p.wrap[k]) \in Deks \cup {NoDek}
    BY DEF Merge, Records, Plans
<1>3. Merge(r.blob, p.blob) \in Blobs \cup {NoBlob}
    BY DEF Merge, Records, Plans
<1>4. Merge(r.holders, p.holders) \in SUBSET Keys
    BY DEF Merge, Records, Plans
<1>5. p.n \in Nat /\ p.keys \in SUBSET Approvals /\ p.sig \in Signatures \cup {NoSig}
    BY DEF Plans
<1> QED
    BY <1>1, <1>2, <1>3, <1>4, <1>5 DEF Apply, Records, Lists
----------------------------------------------------------------------------
\* Type correctness.

\* What names resolve to is a set of approvals (publicKeyOf, subtreeKeyOf).
LEMMA ResolveType ==
    ASSUME TypeOK, NEW lists \in Lists, Resolvable(lists)
    PROVE  Resolve(lists) \in SUBSET Approvals
<1> SUFFICES ASSUME NEW role \in ListRoles, NEW name \in lists[role]
             PROVE  Approval(role, name, KeyFor(role, name)) \in Approvals
    BY DEF Resolve, Approvals
<1>1. name \in Names
    BY DEF Lists
<1>2. KeyFor(role, name) \in Keys
    BY <1>1 DEF Resolvable, KeyFor, TypeOK
<1> QED
    BY <1>1, <1>2 DEF Approval, Approvals

LEMMA ChangedType ==
    ASSUME NEW as \in SUBSET Approvals, NEW prior
    PROVE  Changed(prior, as) \in SUBSET Approvals
    BY DEF Changed

\* Signing a typed plan leaves everything it touches typed (signAuthorization).
LEMMA SignType ==
    ASSUME TypeOK, NEW c \in Clients, NEW p \in Plans, Sign(c, p),
           nextDek' \in 1..(MaxDek + 1), approved' \subseteq Approvals,
           sealed' \subseteq Approvals
    PROVE  TypeOK'
    BY NoRecordsType DEF TypeOK, Sign, world

\* A rotation's plan, and the approvals it adds and seals (rotateTo).
LEMMA RotateToType ==
    ASSUME TypeOK, NEW c \in Clients, NEW lists \in Lists,
           NEW accept \in SUBSET Approvals, NEW val \in Values \cup {Keep},
           RotateTo(c, lists, accept, val)
    PROVE  TypeOK'
<1> DEFINE r == snap[c]
           next == Resolve(lists)
           chosen == IF val = Keep THEN r.blob.val ELSE val
           previous == r.holders \cup ({OwnerKey} \cap Wrapped(r))
           p == SealPlan(next, nextDek, chosen, r.n + 1, previous)
<1>1. r \in Records
    BY DEF TypeOK
<1>2. next \in SUBSET Approvals
    BY ResolveType DEF RotateTo
<1>3. nextDek \in Deks /\ nextDek' \in 1..(MaxDek + 1)
    BY RecordAssumptions DEF RotateTo, Draw, TypeOK, Deks
<1>4. chosen \in Values
    BY <1>1 DEF RotateTo, OwnerOpens, Readers, Records, Blobs
<1>5. previous \in SUBSET Keys /\ r.n + 1 \in Nat
    BY <1>1, RecordAssumptions DEF Records
<1>6. p \in Plans
    <2> HIDE DEF next, chosen, previous
    <2> QED BY <1>2, <1>3, <1>4, <1>5, SealPlanType
<1>7. Sign(c, p) /\ approved' \subseteq Approvals /\ sealed' \subseteq Approvals
    BY <1>2 DEF RotateTo, Approve, Seal, TypeOK
<1> HIDE DEF p
<1> QED
    BY <1>3, <1>6, <1>7, SignType

\* The initial records are typed: nothing, or a secret signed before key binding.
LEMMA InitType == Init => TypeOK
<1> SUFFICES ASSUME Init
             PROVE  TypeOK
    OBVIOUS
<1>1. /\ pubkey \in [Names -> Keys \cup {NoKey}]
      /\ teamkey \in [Names -> Keys \cup {NoKey}]
      /\ pc \in [Clients -> {"idle", "read", "resolved", "signed"}]
      /\ snap \in [Clients -> Records]
      /\ resolved \in [Clients -> SUBSET Approvals]
      /\ plan \in [Clients -> Plans]
    BY NoRecordsType, NoPlanType DEF Init
<1>2. /\ rec \in Records
      /\ nextDek \in 1..(MaxDek + 1)
      /\ approved \subseteq Approvals /\ sealed \subseteq Approvals
    <2>1. CASE rec = NoRecords /\ nextDek = 1 /\ approved = {} /\ sealed = {}
        BY <2>1, NoRecordsType, RecordAssumptions
    <2>2. ASSUME NEW lists \in Offered, NEW val \in Values,
                 LegacyStart, MaxDek >= 1, Resolvable(lists),
                 rec = LegacyRecords(Resolve(lists), val), nextDek = 2,
                 approved = Resolve(lists), sealed = Resolve(lists)
          PROVE  /\ rec \in Records
                 /\ nextDek \in 1..(MaxDek + 1)
                 /\ approved \subseteq Approvals /\ sealed \subseteq Approvals
        <3>1. lists \in Lists
            BY DEF Offered
        <3>2. Resolve(lists) \in SUBSET Approvals
            <4> SUFFICES ASSUME NEW role \in ListRoles, NEW name \in lists[role]
                         PROVE  Approval(role, name, KeyFor(role, name)) \in Approvals
                BY DEF Resolve, Approvals
            <4>1. name \in Names
                BY <3>1 DEF Lists
            <4>2. KeyFor(role, name) \in Keys
                BY <1>1, <2>2, <4>1 DEF Resolvable, KeyFor
            <4> QED
                BY <4>1, <4>2 DEF Approval, Approvals
        <3> DEFINE p == SealPlan(Resolve(lists), 1, val, 1, {})
        <3>3. 1 \in Deks /\ nextDek \in 1..(MaxDek + 1)
            BY <2>2, RecordAssumptions DEF Deks
        <3>4. p \in Plans
            BY <3>2, <3>3, SealPlanType
        <3>5. Apply(NoRecords, p) \in Records
            BY <3>4, NoRecordsType, ApplyType
        <3>6. p.lists \in Lists
            BY <3>2, ListsOfType DEF SealPlan
        <3>7. LegacyPayload(1, p.lists) \in Signatures
            BY <3>6 DEF LegacyPayload, Signatures
        <3>8. rec = [Apply(NoRecords, p) EXCEPT !.keys = {}, !.sig = LegacyPayload(1, p.lists)]
            BY <2>2 DEF LegacyRecords
        <3> HIDE DEF p
        <3>9. rec \in Records
            BY <3>5, <3>7, <3>8 DEF Records
        <3> QED
            BY <2>2, <3>2, <3>3, <3>9
    <2> QED
        BY <2>1, <2>2 DEF Init
<1>3. history \subseteq Signatures
    BY <1>2 DEF Init, Records
<1> QED
    BY <1>1, <1>2, <1>3 DEF TypeOK

\* Reading, and giving up, keep the types.
LEMMA ReadType ==
    ASSUME TypeOK, NEW c \in Clients, Read(c) \/ ReadMore(c) \/ Abandon(c)
    PROVE  TypeOK'
<1>1. CASE Read(c)
    BY <1>1 DEF TypeOK, Read, world, ghosts
<1>2. CASE ReadMore(c)
    <2>1. snap' \in [Clients -> Records]
        BY <1>2 DEF TypeOK, ReadMore, Records
    <2> QED
        BY <1>2, <2>1 DEF TypeOK, ReadMore, world, ghosts
<1>3. CASE Abandon(c)
    BY <1>3, NoRecordsType, NoPlanType DEF TypeOK, Abandon, world, ghosts
<1> QED
    BY <1>1, <1>2, <1>3

\* So do the calls that sign a plan of their own.
LEMMA CreateType ==
    ASSUME TypeOK, NEW c \in Clients, NEW val \in Values, CreateSign(c, val)
    PROVE  TypeOK'
<1> DEFINE as == resolved[c]
           p == SealPlan(as, nextDek, val, 1, rec.holders)
<1>1. as \in SUBSET Approvals /\ rec.holders \in SUBSET Keys
    BY DEF TypeOK, Records
<1>2. nextDek \in Deks /\ nextDek' \in 1..(MaxDek + 1)
    BY RecordAssumptions DEF CreateSign, Draw, TypeOK, Deks
<1>3. p \in Plans
    BY <1>1, <1>2, SealPlanType
<1>4. Sign(c, p) /\ approved' \subseteq Approvals /\ sealed' \subseteq Approvals
    BY <1>1 DEF CreateSign, Approve, Seal, TypeOK
<1> HIDE DEF p
<1> QED
    BY <1>2, <1>3, <1>4, SignType

LEMMA GrantType ==
    ASSUME TypeOK, NEW c \in Clients, NEW role \in {"grantee", "subtree"},
           NEW name \in Names, Grant(c, role, name)
    PROVE  TypeOK'
<1> DEFINE a == Approval(role, name, KeyFor(role, name))
           p == GrantPlan(snap[c], a)
<1>1. snap[c] \in Records
    BY DEF TypeOK
<1>2. a \in [role : ListRoles, name : Names, key : Keys]
    BY DEF TypeOK, Grant, KeyFor, Approval, ListRoles
<1>3. p \in Plans
    <2> HIDE DEF a
    <2> QED BY <1>1, <1>2, GrantPlanType
<1>4. Sign(c, p) /\ approved' \subseteq Approvals /\ sealed' \subseteq Approvals
         /\ nextDek' \in 1..(MaxDek + 1)
    BY <1>2 DEF Grant, Approve, Seal, TypeOK, Approvals
<1> HIDE DEF p
<1> QED
    BY <1>3, <1>4, SignType

LEMMA ReauthorizeType ==
    ASSUME TypeOK, NEW c \in Clients, NEW lists \in Offered, Reauthorize(c, lists)
    PROVE  TypeOK'
<1> DEFINE next == Resolve(lists)
           p == ReauthorizePlan(next, snap[c].n + 1)
<1>1. next \in SUBSET Approvals
    BY ResolveType DEF Reauthorize, Offered
<1>2. snap[c].n + 1 \in Nat
    BY DEF TypeOK, Records
<1>3. p \in Plans
    <2> HIDE DEF next
    <2> QED BY <1>1, <1>2, ReauthorizePlanType
<1>4. Sign(c, p) /\ sealed' \subseteq Approvals /\ nextDek' \in 1..(MaxDek + 1)
    BY DEF Reauthorize, TypeOK
<1>5. approved' \subseteq Approvals
    BY <1>1 DEF Reauthorize, Approve, TypeOK, Changed
<1> HIDE DEF p
<1> QED
    BY <1>3, <1>4, <1>5, SignType

LEMMA ForgetType ==
    ASSUME TypeOK, NEW c \in Clients, Forget(c)
    PROVE  TypeOK'
<1>1. /\ Sign(c, ClearPlan(snap[c].holders))
      /\ nextDek' \in 1..(MaxDek + 1)
      /\ approved' \subseteq Approvals /\ sealed' \subseteq Approvals
    BY DEF Forget, TypeOK
<1> QED
    BY <1>1, ClearPlanType, SignType

LEMMA WriteType ==
    ASSUME TypeOK, NEW c \in Clients, Write(c)
    PROVE  TypeOK'
<1>1. rec' \in Records
    BY ApplyType DEF Write, TypeOK
<1>2. history' \subseteq Signatures
    <2>1. plan[c].sig \in Signatures \cup {NoSig}
        BY DEF TypeOK, Plans
    <2> QED
        BY <2>1 DEF Write, TypeOK
<1>3. plan' \in [Clients -> Plans] /\ pc' \in [Clients -> {"idle", "read", "resolved", "signed"}]
    BY NoPlanType DEF Write, TypeOK
<1> QED
    BY <1>1, <1>2, <1>3 DEF Write, TypeOK

\* Names and delegates write records, never what a client holds.
LEMMA EnvironmentType ==
    ASSUME TypeOK, Environment
    PROVE  TypeOK'
<1>1. ASSUME NEW name \in Names, Publish(name) \/ PublishTeam(name)
      PROVE  TypeOK'
    BY <1>1, ClientAssumptions DEF TypeOK, Publish, PublishTeam, clientVars, ghosts
<1>2. CASE DelegateForge
    <2>1. rec' \in Records
        <3>1. ASSUME NEW role \in ListRoles, NEW name \in Forgeable[role],
                     rec' = [rec EXCEPT !.lists[role] = @ \cup {name}]
              PROVE  rec' \in Records
            <4> DEFINE ls == [rec.lists EXCEPT ![role] = @ \cup {name}]
            <4>1. ls \in Lists
                BY <3>1, ClientAssumptions DEF TypeOK, Records, Lists
            <4>2. rec' = [rec EXCEPT !.lists = ls]
                BY <3>1 DEF TypeOK, Records
            <4> HIDE DEF ls
            <4> QED
                BY <4>1, <4>2 DEF TypeOK, Records
        <3>2. ASSUME NEW name \in Names, pubkey[name] # NoKey,
                     rec' = [rec EXCEPT !.keys =
                                Rebind(@, {Approval("grantee", name, pubkey[name])})]
              PROVE  rec' \in Records
            <4>1. Approval("grantee", name, pubkey[name]) \in Approvals
                BY <3>2 DEF TypeOK, Approval, Approvals, ListRoles
            <4>2. Rebind(rec.keys, {Approval("grantee", name, pubkey[name])}) \in SUBSET Approvals
                BY <4>1 DEF TypeOK, Records, Rebind
            <4> QED
                BY <3>2, <4>2 DEF TypeOK, Records
        <3> QED
            BY <1>2, <3>1, <3>2 DEF DelegateForge
    <2> QED
        BY <1>2, <2>1 DEF TypeOK, DelegateForge, clientVars, ghosts
<1>3. CASE DelegateRollback
    <2>1. rec' \in Records
        BY <1>3 DEF DelegateRollback, TypeOK, Records, Signatures
    <2> QED
        BY <1>3, <2>1 DEF TypeOK, DelegateRollback, clientVars, ghosts
<1>4. CASE DelegateHide
    <2>1. rec' \in Records
        BY <1>4 DEF DelegateHide, TypeOK, Records
    <2> QED
        BY <1>4, <2>1 DEF TypeOK, DelegateHide, clientVars, ghosts
<1> QED
    BY <1>1, <1>2, <1>3, <1>4 DEF Environment

\* Each step of a client keeps the types.
LEMMA ClientType ==
    ASSUME TypeOK, NEW c \in Clients, ClientStep(c)
    PROVE  TypeOK'
<1>1. CASE Read(c) \/ ReadMore(c) \/ Abandon(c)
    BY <1>1, ReadType
<1>2. ASSUME NEW lists \in Offered, CreateResolve(c, lists)
      PROVE  TypeOK'
    <2>1. Resolve(lists) \in SUBSET Approvals
        BY <1>2, ResolveType DEF CreateResolve, Offered
    <2> QED
        BY <1>2, <2>1 DEF TypeOK, CreateResolve, world, ghosts
<1>3. ASSUME NEW lists \in Offered, Reauthorize(c, lists)
      PROVE  TypeOK'
    BY <1>3, ReauthorizeType
<1>4. ASSUME NEW val \in Values, CreateSign(c, val)
      PROVE  TypeOK'
    BY <1>4, CreateType
<1>5. ASSUME NEW val \in Values \cup {Keep}, Rotate(c, val)
      PROVE  TypeOK'
    <2>1. snap[c].lists \in Lists
        BY DEF TypeOK, Records
    <2> QED
        BY <1>5, <2>1, RotateToType DEF Rotate
<1>6. ASSUME NEW role \in ListRoles, NEW name \in Names, Revoke(c, role, name)
      PROVE  TypeOK'
    <2>1. [snap[c].lists EXCEPT ![role] = @ \ {name}] \in Lists
        BY DEF TypeOK, Records, Lists
    <2>2. RotateTo(c, [snap[c].lists EXCEPT ![role] = @ \ {name}], {}, Keep)
        BY <1>6 DEF Revoke
    <2> QED
        BY <2>1, <2>2, RotateToType
<1>7. ASSUME NEW role \in {"grantee", "subtree"}, NEW name \in Candidates[role],
             Grant(c, role, name)
      PROVE  TypeOK'
    <2>1. name \in Names
        BY ClientAssumptions DEF Lists, ListRoles
    <2> QED
        BY <1>7, <2>1, GrantType
<1>8. ASSUME NEW role \in {"grantee", "subtree"}, NEW name \in Candidates[role],
             Regrant(c, role, name)
      PROVE  TypeOK'
    <2>1. name \in Names /\ snap[c].lists \in Lists
        BY ClientAssumptions DEF Lists, ListRoles, TypeOK, Records
    <2>2. Approval(role, name, KeyFor(role, name)) \in Approvals
        BY <1>8, <2>1 DEF TypeOK, Regrant, KeyFor, Approval, Approvals, ListRoles
    <2>3. RotateTo(c, snap[c].lists, {Approval(role, name, KeyFor(role, name))}, Keep)
        BY <1>8 DEF Regrant
    <2> QED
        BY <2>1, <2>2, <2>3, RotateToType
<1>9. CASE Forget(c)
    BY <1>9, ForgetType
<1>10. CASE Write(c)
    BY <1>10, WriteType
<1> QED
    BY <1>1, <1>2, <1>3, <1>4, <1>5, <1>6, <1>7, <1>8, <1>9, <1>10 DEF ClientStep

\* Records, snapshots and signed plans keep their types in every behaviour, with
\* any number of clients, of delegates and of republished keys.
THEOREM TypeCorrect == Spec => []TypeOK
<1>1. Init => TypeOK
    BY InitType
<1>2. TypeOK /\ [Next]_vars => TypeOK'
    <2> SUFFICES ASSUME TypeOK, [Next]_vars
                 PROVE  TypeOK'
        OBVIOUS
    <2>1. CASE UNCHANGED vars
        BY <2>1 DEF TypeOK, vars
    <2> QED
        BY <2>1, ClientType, EnvironmentType DEF Next
<1> QED
    BY <1>1, <1>2, PTL DEF Spec

----------------------------------------------------------------------------
\* Sealed only to approved keys.

LEMMA WithinGrows ==
    ASSUME NEW sig, NEW as, NEW bs, Within(sig, as), as \subseteq bs
    PROVE  Within(sig, bs)
    BY DEF Within

\* A verified snapshot binds only approved keys, torn reads and rollbacks included.
LEMMA VerifiedWithin ==
    ASSUME TypeOK, Binding, NEW c \in Clients, Verified(snap[c])
    PROVE  snap[c].keys \subseteq approved
<1>1. snap[c] \in Records
    BY DEF TypeOK
<1>2. snap[c].sig \in Signatures /\ snap[c].sig.v = 2 /\ snap[c].sig.keys = snap[c].keys
    BY <1>1, VerifiedKeys
<1> QED
    BY <1>2, SignatureAssumption DEF Binding, Within

\* A call that signs and seals within what is approved keeps the invariant.
LEMMA SignBinding ==
    ASSUME TypeOK, Binding, NEW c \in Clients, NEW p, Sign(c, p),
           Within(p.sig, approved'), approved \subseteq approved',
           sealed' \subseteq approved'
    PROVE  Binding'
<1>1. Within(rec'.sig, approved')
    BY WithinGrows DEF Binding, Sign, world
<1>2. ASSUME NEW s \in history'
      PROVE  Within(s, approved')
    BY WithinGrows DEF Binding, Sign
<1>3. ASSUME NEW d \in Clients
      PROVE  Within(snap'[d].sig, approved') /\ Within(plan'[d].sig, approved')
    <2>1. CASE d = c
        <3>1. snap'[d] = NoRecords /\ plan'[d] = p
            BY <2>1 DEF Sign, TypeOK
        <3> QED
            BY <3>1, NoRecordsType DEF Within
    <2>2. CASE d # c
        <3>1. snap'[d] = snap[d] /\ plan'[d] = plan[d]
            BY <2>2 DEF Sign, TypeOK
        <3> QED
            BY <3>1, WithinGrows DEF Binding
    <2> QED
        BY <2>1, <2>2
<1> QED
    BY <1>1, <1>2, <1>3 DEF Binding, SealedOnlyToApproved

\* A rotation: every key it seals to is bound already, or accepted by the owner.
LEMMA RotateToBinding ==
    ASSUME TypeOK, Binding, NEW c \in Clients, NEW lists \in Lists,
           NEW accept \in SUBSET Approvals, NEW val \in Values \cup {Keep},
           RotateTo(c, lists, accept, val)
    PROVE  Binding'
<1> DEFINE r == snap[c]
           next == Resolve(lists)
           p == SealPlan(next, nextDek, IF val = Keep THEN r.blob.val ELSE val,
                         r.n + 1, r.holders \cup ({OwnerKey} \cap Wrapped(r)))
<1>1. r.keys \subseteq approved
    BY VerifiedWithin DEF RotateTo
<1>2. next \subseteq r.keys \cup accept
    BY DEF RotateTo, AllApproved, Rebind
<1>3. approved' = approved \cup accept /\ sealed' = sealed \cup next
    BY DEF RotateTo, Approve, Seal
<1>4. next \subseteq approved' /\ sealed' \subseteq approved'
    BY <1>1, <1>2, <1>3 DEF Binding, SealedOnlyToApproved
<1>5. p.sig = Payload(r.n + 1, ListsOf(next), next)
    BY DEF SealPlan
<1>6. Within(p.sig, approved')
    BY <1>4, <1>5 DEF Within, Payload
<1>7. Sign(c, p)
    BY DEF RotateTo
<1> HIDE DEF p, next
<1> QED
    BY <1>3, <1>4, <1>6, <1>7, SignBinding

\* A create approves what it resolved, and seals to nothing else.
LEMMA CreateBinding ==
    ASSUME TypeOK, Binding, NEW c \in Clients, NEW val \in Values, CreateSign(c, val)
    PROVE  Binding'
<1> DEFINE as == resolved[c]
           p == SealPlan(as, nextDek, val, 1, rec.holders)
<1>1. approved' = approved \cup as /\ sealed' = sealed \cup as
    BY DEF CreateSign, Approve, Seal
<1>2. sealed' \subseteq approved'
    BY <1>1 DEF Binding, SealedOnlyToApproved
<1>3. Within(p.sig, approved')
    BY <1>1 DEF SealPlan, Payload, Within
<1>4. Sign(c, p)
    BY DEF CreateSign
<1> HIDE DEF p
<1> QED
    BY <1>1, <1>2, <1>3, <1>4, SignBinding

\* A grant adds the one approval the owner gave by naming the grantee.
LEMMA GrantBinding ==
    ASSUME TypeOK, Binding, NEW c \in Clients, NEW role \in {"grantee", "subtree"},
           NEW name \in Names, Grant(c, role, name)
    PROVE  Binding'
<1> DEFINE a == Approval(role, name, KeyFor(role, name))
           p == GrantPlan(snap[c], a)
<1>1. snap[c].keys \subseteq approved
    BY VerifiedWithin DEF Grant
<1>2. approved' = approved \cup {a} /\ sealed' = sealed \cup {a}
    BY DEF Grant, Approve, Seal
<1>3. Rebind(snap[c].keys, {a}) \subseteq approved' /\ sealed' \subseteq approved'
    BY <1>1, <1>2 DEF Rebind, Binding, SealedOnlyToApproved
<1>4. p.sig.keys = Rebind(snap[c].keys, {a})
    BY DEF GrantPlan, Payload
<1>5. Within(p.sig, approved')
    BY <1>3, <1>4 DEF Within
<1>6. Sign(c, p)
    BY DEF Grant
<1> HIDE DEF p, a
<1> QED
    BY <1>2, <1>3, <1>5, <1>6, SignBinding

\* A re-authorization: each entry keeps its key, or was accepted, or is newly
\* named by the owner.
LEMMA ReauthorizeBinding ==
    ASSUME TypeOK, Binding, NEW c \in Clients, NEW lists \in Offered,
           Reauthorize(c, lists)
    PROVE  Binding'
<1> DEFINE r == snap[c]
           next == Resolve(lists)
           prior == IF Verified(r) THEN r.keys ELSE {}
           named == {a \in next : \A q \in prior : ~SameEntry(a, q)}
           p == ReauthorizePlan(next, r.n + 1)
<1>1. prior \subseteq approved
    BY VerifiedWithin
<1>2. PICK accept \in SUBSET Changed(prior, next) :
         /\ UnacceptedChanges(prior, next, accept) = {}
         /\ approved' = approved \cup (named \cup accept)
    BY DEF Reauthorize, Approve
<1>3. prior \subseteq Approvals /\ next \subseteq Approvals
    <2>1. prior \subseteq Approvals
        BY DEF TypeOK, Records
    <2>2. next \subseteq Approvals
        BY ResolveType DEF Reauthorize, Offered
    <2> QED
        BY <2>1, <2>2
<1>4. ASSUME NEW a \in next
      PROVE  a \in approved'
    <2>1. CASE a \in named
        BY <1>2, <2>1
    <2>2. CASE \E q \in prior : SameEntry(a, q) /\ q.key = a.key
        <3>1. PICK q \in prior : SameEntry(a, q) /\ q.key = a.key
            BY <2>2
        <3>2. a = q
            <4>1. ASSUME NEW x \in Approvals
                  PROVE  x = Approval(x.role, x.name, x.key)
                BY <4>1 DEF Approvals, OwnerApproval, Approval
            <4>2. a \in Approvals /\ q \in Approvals
                BY <1>3, <3>1
            <4>3. a = Approval(a.role, a.name, a.key) /\ q = Approval(q.role, q.name, q.key)
                BY <4>1, <4>2
            <4> QED
                BY <3>1, <4>3 DEF SameEntry
        <3> QED
            BY <1>1, <1>2, <3>2
    <2>3. CASE \E q \in prior : SameEntry(a, q) /\ q.key # a.key
        <3>1. a \in Changed(prior, next)
            BY <2>3 DEF Changed, SameEntry
        <3>2. a \in accept
            BY <1>2, <3>1 DEF UnacceptedChanges
        <3> QED
            BY <1>2, <3>2
    <2> QED
        BY <2>1, <2>2, <2>3
<1>5. approved \subseteq approved' /\ sealed' \subseteq approved'
    BY <1>2 DEF Reauthorize, Binding, SealedOnlyToApproved
<1>6. Within(p.sig, approved')
    <2>1. p.sig.keys = next
        BY DEF ReauthorizePlan, Payload
    <2>2. next \subseteq approved'
        BY <1>4
    <2> QED
        BY <2>1, <2>2 DEF Within
<1>7. Sign(c, p)
    BY DEF Reauthorize
<1> HIDE DEF p
<1> QED
    BY <1>5, <1>6, <1>7, SignBinding

\* Reading copies signatures, giving up drops them, a forget signs nothing.
LEMMA ReadBinding ==
    ASSUME TypeOK, Binding, NEW c \in Clients,
           \/ Read(c) \/ ReadMore(c) \/ Abandon(c)
           \/ \E lists \in Offered : CreateResolve(c, lists)
    PROVE  Binding'
<1>1. /\ rec' = rec /\ approved' = approved /\ sealed' = sealed /\ history' = history
      /\ \A d \in Clients : plan'[d] = plan[d] \/ plan'[d] = NoPlan
    BY DEF Read, ReadMore, Abandon, CreateResolve, world, ghosts, TypeOK
<1>2. ASSUME NEW d \in Clients
      PROVE  \/ snap'[d] = snap[d] \/ snap'[d] = NoRecords
             \/ snap'[d].sig = rec.sig \/ snap'[d].sig = snap[d].sig
    <2>1. CASE ReadMore(c)
        BY <2>1 DEF ReadMore, TypeOK
    <2>2. CASE Read(c) \/ Abandon(c) \/ \E lists \in Offered : CreateResolve(c, lists)
        BY <2>2 DEF Read, Abandon, CreateResolve, TypeOK
    <2> QED
        BY <2>1, <2>2
<1>3. Within(NoRecords.sig, approved) /\ Within(NoPlan.sig, approved)
    BY NoRecordsType, NoPlanType DEF Within
<1> QED
    BY <1>1, <1>2, <1>3 DEF Binding, SealedOnlyToApproved

LEMMA ForgetBinding ==
    ASSUME TypeOK, Binding, NEW c \in Clients, Forget(c)
    PROVE  Binding'
<1>1. Sign(c, ClearPlan(snap[c].holders)) /\ approved' = approved /\ sealed' = sealed
    BY DEF Forget
<1>2. Within(ClearPlan(snap[c].holders).sig, approved')
    BY ClearPlanType DEF Within
<1>3. sealed' \subseteq approved'
    BY <1>1 DEF Binding, SealedOnlyToApproved
<1> QED
    BY <1>1, <1>2, <1>3, SignBinding

\* A write moves a signature from a plan to the records and into chain history.
LEMMA WriteBinding ==
    ASSUME TypeOK, Binding, NEW c \in Clients, Write(c)
    PROVE  Binding'
<1>1. approved' = approved /\ sealed' = sealed /\ snap' = snap
    BY DEF Write
<1>2. rec'.sig = plan[c].sig
    BY ApplyType DEF Write, TypeOK
<1>3. history' \subseteq history \cup {plan[c].sig}
    BY DEF Write
<1>4. \A d \in Clients : plan'[d] = plan[d] \/ plan'[d].sig = NoSig
    BY NoPlanType DEF Write, TypeOK
<1> QED
    BY <1>1, <1>2, <1>3, <1>4 DEF Binding, SealedOnlyToApproved, Within

\* The environment has no signatures but those it finds.
LEMMA EnvironmentBinding ==
    ASSUME TypeOK, Binding, Environment
    PROVE  Binding'
<1>1. /\ approved' = approved /\ sealed' = sealed /\ history' = history
      /\ snap' = snap /\ plan' = plan
    BY DEF Environment, Publish, PublishTeam, DelegateForge, DelegateRollback,
           DelegateHide, clientVars, ghosts
<1>2. rec'.sig = rec.sig \/ rec'.sig \in history
    <2>1. CASE \E name \in Names : Publish(name) \/ PublishTeam(name)
        BY <2>1 DEF Publish, PublishTeam
    <2>2. CASE DelegateForge
        BY <2>2 DEF DelegateForge, TypeOK, Records
    <2>3. CASE DelegateRollback
        BY <2>3 DEF DelegateRollback, TypeOK, Records
    <2>4. CASE DelegateHide
        BY <2>4 DEF DelegateHide, TypeOK, Records
    <2> QED
        BY <2>1, <2>2, <2>3, <2>4 DEF Environment
<1> QED
    BY <1>1, <1>2 DEF Binding, SealedOnlyToApproved

LEMMA InitBinding == Init => Binding
<1> SUFFICES ASSUME Init
             PROVE  Binding
    OBVIOUS
<1>1. sealed = approved
    BY DEF Init
<1>2. Within(rec.sig, approved)
    <2>1. CASE rec = NoRecords
        BY <2>1, NoRecordsType DEF Within
    <2>2. ASSUME NEW as, NEW val, rec = LegacyRecords(as, val)
          PROVE  Within(rec.sig, approved)
        <3>1. rec.sig.v = 1
            BY <2>2 DEF LegacyRecords, LegacyPayload, Apply
        <3> QED
            BY <3>1 DEF Within
    <2> QED
        BY <2>1, <2>2 DEF Init
<1>3. \A c \in Clients : snap[c].sig = NoSig /\ plan[c].sig = NoSig
    BY NoRecordsType, NoPlanType DEF Init
<1>4. history \subseteq {rec.sig}
    BY DEF Init
<1> QED
    BY <1>1, <1>2, <1>3, <1>4 DEF Binding, SealedOnlyToApproved, Within

LEMMA ClientBinding ==
    ASSUME TypeOK, Binding, NEW c \in Clients, ClientStep(c)
    PROVE  Binding'
<1>1. CASE \/ Read(c) \/ ReadMore(c) \/ Abandon(c)
           \/ \E lists \in Offered : CreateResolve(c, lists)
    BY <1>1, ReadBinding
<1>2. ASSUME NEW lists \in Offered, Reauthorize(c, lists)
      PROVE  Binding'
    BY <1>2, ReauthorizeBinding
<1>3. ASSUME NEW val \in Values, CreateSign(c, val)
      PROVE  Binding'
    BY <1>3, CreateBinding
<1>4. ASSUME NEW val \in Values \cup {Keep}, Rotate(c, val)
      PROVE  Binding'
    <2>1. snap[c].lists \in Lists
        BY DEF TypeOK, Records
    <2> QED
        BY <1>4, <2>1, RotateToBinding DEF Rotate
<1>5. ASSUME NEW role \in ListRoles, NEW name \in Names, Revoke(c, role, name)
      PROVE  Binding'
    <2>1. [snap[c].lists EXCEPT ![role] = @ \ {name}] \in Lists
        BY DEF TypeOK, Records, Lists
    <2>2. RotateTo(c, [snap[c].lists EXCEPT ![role] = @ \ {name}], {}, Keep)
        BY <1>5 DEF Revoke
    <2> QED
        BY <2>1, <2>2, RotateToBinding
<1>6. ASSUME NEW role \in {"grantee", "subtree"}, NEW name \in Candidates[role],
             Grant(c, role, name)
      PROVE  Binding'
    <2>1. name \in Names
        BY ClientAssumptions DEF Lists, ListRoles
    <2> QED
        BY <1>6, <2>1, GrantBinding
<1>7. ASSUME NEW role \in {"grantee", "subtree"}, NEW name \in Candidates[role],
             Regrant(c, role, name)
      PROVE  Binding'
    <2>1. name \in Names /\ snap[c].lists \in Lists
        BY ClientAssumptions DEF Lists, ListRoles, TypeOK, Records
    <2>2. Approval(role, name, KeyFor(role, name)) \in Approvals
        BY <1>7, <2>1 DEF TypeOK, Regrant, KeyFor, Approval, Approvals, ListRoles
    <2>3. RotateTo(c, snap[c].lists, {Approval(role, name, KeyFor(role, name))}, Keep)
        BY <1>7 DEF Regrant
    <2> QED
        BY <2>1, <2>2, <2>3, RotateToBinding
<1>8. CASE Forget(c)
    BY <1>8, ForgetBinding
<1>9. CASE Write(c)
    BY <1>9, WriteBinding
<1> QED
    BY <1>1, <1>2, <1>3, <1>4, <1>5, <1>6, <1>7, <1>8, <1>9 DEF ClientStep

\* No client of the owner ever seals a data key to a key the owner did not
\* approve for that name and role: not when names republish keys between two
\* calls, not when calls and record reads interleave, not when a delegate
\* forges or rolls back the signed records.
THEOREM SealsAreApproved == Spec => []SealedOnlyToApproved
<1>1. Init => Binding
    BY InitBinding
<1>2. TypeOK /\ Binding /\ [Next]_vars => Binding'
    <2> SUFFICES ASSUME TypeOK, Binding, [Next]_vars
                 PROVE  Binding'
        OBVIOUS
    <2>1. CASE UNCHANGED vars
        BY <2>1 DEF Binding, SealedOnlyToApproved, vars
    <2> QED
        BY <2>1, ClientBinding, EnvironmentBinding DEF Next
<1>3. Binding => SealedOnlyToApproved
    BY DEF Binding
<1> QED
    BY <1>1, <1>2, <1>3, TypeCorrect, PTL DEF Spec

----------------------------------------------------------------------------
\* Every signed list names a recovery entry.

\* A verified snapshot lists a recovery entry, because its signature does.
LEMMA VerifiedRecovery ==
    ASSUME NEW r \in Records, Verified(r), NamesRecovery(r.sig)
    PROVE  r.lists["recovery"] # {}
<1>1. r.sig \in Signatures
    BY VerifiedKeys
<1>2. r.sig.lists = r.lists
    BY DEF Verified, Payload
<1> QED
    BY <1>1, <1>2, SignatureAssumption DEF NamesRecovery

LEMMA SignRecovery ==
    ASSUME TypeOK, RecoveryKept, NEW c \in Clients, NEW p, Sign(c, p),
           NamesRecovery(p.sig)
    PROVE  RecoveryKept'
<1>1. rec' = rec /\ history' = history
    BY DEF Sign, world
<1>2. \A d \in Clients : /\ snap'[d] = snap[d] \/ snap'[d].sig = NoSig
                         /\ plan'[d] = plan[d] \/ plan'[d] = p
    BY NoRecordsType DEF Sign, TypeOK
<1> QED
    BY <1>1, <1>2 DEF RecoveryKept, NamesRecovery

\* planSecret refuses a set without a recovery entry, in a create and a rotation.
LEMMA SealRecovery ==
    ASSUME NEW as, NEW dek, NEW val, NEW n, NEW previous, Sealable(as)
    PROVE  NamesRecovery(SealPlan(as, dek, val, n, previous).sig)
    BY DEF Sealable, SealPlan, Payload, NamesRecovery

LEMMA RotateToRecovery ==
    ASSUME TypeOK, RecoveryKept, NEW c \in Clients, NEW lists, NEW accept, NEW val,
           RotateTo(c, lists, accept, val)
    PROVE  RecoveryKept'
<1> DEFINE next == Resolve(lists)
           p == SealPlan(next, nextDek, IF val = Keep THEN snap[c].blob.val ELSE val,
                         snap[c].n + 1,
                         snap[c].holders \cup ({OwnerKey} \cap Wrapped(snap[c])))
<1>1. NamesRecovery(p.sig)
    BY SealRecovery DEF RotateTo
<1>2. Sign(c, p)
    BY DEF RotateTo
<1> HIDE DEF p
<1> QED
    BY <1>1, <1>2, SignRecovery

LEMMA GrantRecovery ==
    ASSUME TypeOK, RecoveryKept, NEW c \in Clients, NEW role \in {"grantee", "subtree"},
           NEW name, Grant(c, role, name)
    PROVE  RecoveryKept'
<1> DEFINE p == GrantPlan(snap[c], Approval(role, name, KeyFor(role, name)))
<1>1. snap[c] \in Records
    BY DEF TypeOK
<1>2. snap[c].lists["recovery"] # {}
    BY <1>1, VerifiedRecovery DEF Grant, RecoveryKept
<1>3. p.sig.lists["recovery"] = snap[c].lists["recovery"]
    BY <1>1 DEF GrantPlan, Payload, Approval, Records, Lists, ListRoles
<1>4. NamesRecovery(p.sig)
    BY <1>2, <1>3 DEF NamesRecovery
<1>5. Sign(c, p)
    BY DEF Grant
<1> HIDE DEF p
<1> QED
    BY <1>4, <1>5, SignRecovery

LEMMA ReauthorizeRecovery ==
    ASSUME TypeOK, RecoveryKept, NEW c \in Clients, NEW lists \in Offered,
           Reauthorize(c, lists)
    PROVE  RecoveryKept'
<1> DEFINE next == Resolve(lists)
           p == ReauthorizePlan(next, snap[c].n + 1)
<1>1. PICK name \in lists["recovery"] : TRUE
    BY DEF Reauthorize
<1>2. Approval("recovery", name, KeyFor("recovery", name)) \in next
    BY <1>1 DEF Resolve, ListRoles
<1>3. name \in ListsOf(next)["recovery"]
    <2>1. ListsOf(next)["recovery"] = {a.name : a \in {b \in next : b.role = "recovery"}}
        BY DEF ListsOf, ListRoles
    <2> HIDE DEF next
    <2> QED
        BY <1>2, <2>1 DEF Approval
<1>4. NamesRecovery(p.sig)
    BY <1>3 DEF NamesRecovery, ReauthorizePlan, Payload
<1>5. Sign(c, p)
    BY DEF Reauthorize
<1> HIDE DEF p
<1> QED
    BY <1>4, <1>5, SignRecovery

LEMMA ClientRecovery ==
    ASSUME TypeOK, RecoveryKept, NEW c \in Clients, ClientStep(c)
    PROVE  RecoveryKept'
<1>1. CASE \/ Read(c) \/ ReadMore(c) \/ Abandon(c)
           \/ \E lists \in Offered : CreateResolve(c, lists)
    <2>1. /\ rec' = rec /\ history' = history
          /\ \A d \in Clients : plan'[d] = plan[d] \/ plan'[d].sig = NoSig
        BY <1>1, NoPlanType DEF Read, ReadMore, Abandon, CreateResolve, world, ghosts, TypeOK
    <2>2. \A d \in Clients : snap'[d].sig \in {snap[d].sig, rec.sig, NoSig}
        <3>1. CASE ReadMore(c)
            BY <3>1 DEF ReadMore, TypeOK
        <3>2. CASE Read(c) \/ Abandon(c) \/ \E lists \in Offered : CreateResolve(c, lists)
            BY <3>2, NoRecordsType DEF Read, Abandon, CreateResolve, TypeOK
        <3> QED
            BY <1>1, <3>1, <3>2
    <2> QED
        BY <2>1, <2>2 DEF RecoveryKept, NamesRecovery
<1>2. ASSUME NEW lists \in Offered, Reauthorize(c, lists)
      PROVE  RecoveryKept'
    BY <1>2, ReauthorizeRecovery
<1>3. ASSUME NEW val \in Values, CreateSign(c, val)
      PROVE  RecoveryKept'
    <2>1. NamesRecovery(SealPlan(resolved[c], nextDek, val, 1, rec.holders).sig)
        BY <1>3, SealRecovery DEF CreateSign
    <2> QED
        BY <1>3, <2>1, SignRecovery DEF CreateSign
<1>4. ASSUME NEW val \in Values \cup {Keep}, Rotate(c, val)
      PROVE  RecoveryKept'
    BY <1>4, RotateToRecovery DEF Rotate
<1>5. ASSUME NEW role \in ListRoles, NEW name \in Names, Revoke(c, role, name)
      PROVE  RecoveryKept'
    BY <1>5, RotateToRecovery DEF Revoke
<1>6. ASSUME NEW role \in {"grantee", "subtree"}, NEW name \in Candidates[role],
             Grant(c, role, name) \/ Regrant(c, role, name)
      PROVE  RecoveryKept'
    <2>1. CASE Grant(c, role, name)
        BY <2>1, GrantRecovery
    <2>2. CASE Regrant(c, role, name)
        BY <2>2, RotateToRecovery DEF Regrant
    <2> QED
        BY <1>6, <2>1, <2>2
<1>7. CASE Forget(c)
    <2>1. NamesRecovery(ClearPlan(snap[c].holders).sig)
        BY ClearPlanType DEF NamesRecovery
    <2> QED
        BY <1>7, <2>1, SignRecovery DEF Forget
<1>8. CASE Write(c)
    <2>1. rec'.sig = plan[c].sig /\ history' \subseteq history \cup {plan[c].sig} /\ snap' = snap
        BY <1>8, ApplyType DEF Write, TypeOK
    <2>2. \A d \in Clients : plan'[d] = plan[d] \/ plan'[d].sig = NoSig
        BY <1>8, NoPlanType DEF Write, TypeOK
    <2> QED
        BY <2>1, <2>2 DEF RecoveryKept, NamesRecovery
<1> QED
    BY <1>1, <1>2, <1>3, <1>4, <1>5, <1>6, <1>7, <1>8 DEF ClientStep

LEMMA EnvironmentRecovery ==
    ASSUME TypeOK, RecoveryKept, Environment
    PROVE  RecoveryKept'
<1>1. history' = history /\ snap' = snap /\ plan' = plan
    BY DEF Environment, Publish, PublishTeam, DelegateForge, DelegateRollback,
           DelegateHide, clientVars, ghosts
<1>2. rec'.sig = rec.sig \/ rec'.sig \in history
    <2>1. CASE \E name \in Names : Publish(name) \/ PublishTeam(name)
        BY <2>1 DEF Publish, PublishTeam
    <2>2. CASE DelegateForge
        BY <2>2 DEF DelegateForge, TypeOK, Records
    <2>3. CASE DelegateRollback
        BY <2>3 DEF DelegateRollback, TypeOK, Records
    <2>4. CASE DelegateHide
        BY <2>4 DEF DelegateHide, TypeOK, Records
    <2> QED
        BY <2>1, <2>2, <2>3, <2>4 DEF Environment
<1> QED
    BY <1>1, <1>2 DEF RecoveryKept

LEMMA InitRecovery == Init => RecoveryKept
<1> SUFFICES ASSUME Init
             PROVE  RecoveryKept
    OBVIOUS
<1>1. NamesRecovery(rec.sig)
    <2>1. CASE rec = NoRecords
        BY <2>1, NoRecordsType DEF NamesRecovery
    <2>2. ASSUME NEW lists, NEW val, Sealable(Resolve(lists)),
                 rec = LegacyRecords(Resolve(lists), val)
          PROVE  NamesRecovery(rec.sig)
        <3>1. rec.sig.lists = ListsOf(Resolve(lists))
            BY <2>2 DEF LegacyRecords, LegacyPayload, SealPlan, Apply
        <3> QED
            BY <2>2, <3>1 DEF Sealable, NamesRecovery
    <2> QED
        BY <2>1, <2>2 DEF Init
<1>2. \A c \in Clients : snap[c].sig = NoSig /\ plan[c].sig = NoSig
    BY NoRecordsType, NoPlanType DEF Init
<1>3. history \subseteq {rec.sig}
    BY DEF Init
<1> QED
    BY <1>1, <1>2, <1>3 DEF RecoveryKept, NamesRecovery

\* Whatever list of the owner's is on record, rolled back by a delegate or not,
\* it names a recovery entry: no call signs one that does not.
THEOREM SignedListsRecover == Spec => []SignedRecovery
<1>1. Init => RecoveryKept
    BY InitRecovery
<1>2. TypeOK /\ RecoveryKept /\ [Next]_vars => RecoveryKept'
    <2> SUFFICES ASSUME TypeOK, RecoveryKept, [Next]_vars
                 PROVE  RecoveryKept'
        OBVIOUS
    <2>1. CASE UNCHANGED vars
        BY <2>1 DEF RecoveryKept, vars
    <2> QED
        BY <2>1, ClientRecovery, EnvironmentRecovery DEF Next
<1>3. TypeOK /\ RecoveryKept => SignedRecovery
    BY VerifiedRecovery DEF TypeOK, RecoveryKept, SignedRecovery
<1> QED
    BY <1>1, <1>2, <1>3, TypeCorrect, PTL DEF Spec
----------------------------------------------------------------------------
\* The owner opens what its clients leave on the name.

LEMMA OwnerIsKey == OwnerKey \in Keys
    BY RecordAssumptions

LEMMA OwnerKeyHeld ==
    ASSUME NEW as, OwnerApproval \in as
    PROVE  OwnerKey \in KeysOf(as)
<1>1. OwnerApproval.key = OwnerKey
    BY DEF OwnerApproval, Approval
<1> QED
    BY <1>1 DEF KeysOf

\* A create or a rotation seals to the owner (planSecret, planRotate).
LEMMA SealOwner ==
    ASSUME NEW as, OwnerApproval \in as, NEW dek \in Deks, NEW val \in Values,
           NEW n, NEW previous
    PROVE  KeepsOwner(SealPlan(as, dek, val, n, previous))
<1> DEFINE p == SealPlan(as, dek, val, n, previous)
<1>1. OwnerKey \in KeysOf(as)
    BY OwnerKeyHeld
<1>2. p.wrap[OwnerKey] = dek
    BY <1>1, OwnerIsKey DEF SealPlan
<1>3. p.blob = [dek |-> dek, val |-> val] /\ p.blob \in Blobs
    BY DEF SealPlan, Blobs
<1> QED
    BY <1>2, <1>3 DEF KeepsOwner

\* A plan that leaves the blob and the owner's wrap alone.
LEMMA KeepOwner ==
    ASSUME NEW p, p.blob = Keep, p.wrap[OwnerKey] = Keep
    PROVE  KeepsOwner(p)
    BY DEF KeepsOwner

\* The write itself, over whatever records it meets (multicall).
LEMMA ApplyOwner ==
    ASSUME NEW r \in Records, NEW p \in Plans, KeepsOwner(p),
           r.blob # NoBlob => OwnerOpens(r)
    PROVE  Apply(r, p).blob # NoBlob => OwnerOpens(Apply(r, p))
<1> DEFINE q == Apply(r, p)
<1>1. q.blob = Merge(r.blob, p.blob) /\ q.wrap[OwnerKey] = Merge(r.wrap[OwnerKey], p.wrap[OwnerKey])
    BY OwnerIsKey DEF Apply
<1>2. CASE p.blob = NoBlob
    BY <1>1, <1>2, SentinelAssumption DEF Merge
<1>3. CASE p.blob = Keep /\ p.wrap[OwnerKey] = Keep
    BY <1>1, <1>3, OwnerIsKey DEF Merge, OwnerOpens, Readers
<1>4. CASE p.blob \in Blobs /\ p.wrap[OwnerKey] = p.blob.dek
    <2>1. p.blob # Keep /\ p.wrap[OwnerKey] # Keep
        BY <1>4, SentinelAssumption DEF Blobs
    <2>2. q.blob = p.blob /\ q.wrap[OwnerKey] = p.blob.dek
        BY <1>1, <1>4, <2>1 DEF Merge
    <2> SUFFICES OwnerOpens(q)
        OBVIOUS
    <2> HIDE DEF q
    <2> QED
        BY <1>4, <2>2, OwnerIsKey, SentinelAssumption DEF OwnerOpens, Readers
<1> QED
    BY <1>2, <1>3, <1>4 DEF KeepsOwner

\* Every list resolves with the owner's own entry (rotateTo, create).
LEMMA ResolveOwner ==
    ASSUME NEW lists
    PROVE  OwnerApproval \in Resolve(lists)
    BY DEF Resolve

\* A call that signs a write of that kind leaves the others as they were.
LEMMA SignOwner ==
    ASSUME TypeOK, OwnerKept, NEW c \in Clients, NEW p, Sign(c, p), KeepsOwner(p)
    PROVE  OwnerKept'
<1>1. rec' = rec /\ pubkey' = pubkey /\ teamkey' = teamkey
    BY DEF Sign, world
<1>2. ASSUME NEW d \in Clients
      PROVE  /\ pc'[d] = "resolved" => OwnerApproval \in resolved'[d]
             /\ pc'[d] = "signed" => KeepsOwner(plan'[d])
    <2>1. CASE d = c
        <3>1. pc'[d] = "signed" /\ plan'[d] = p
            BY <2>1 DEF Sign, TypeOK
        <3> QED
            BY <3>1
    <2>2. CASE d # c
        <3>1. pc'[d] = pc[d] /\ plan'[d] = plan[d] /\ resolved'[d] = resolved[d]
            BY <2>2 DEF Sign, TypeOK
        <3> QED
            BY <3>1 DEF OwnerKept
    <2> QED
        BY <2>1, <2>2
<1> QED
    BY <1>1, <1>2 DEF OwnerKept, OwnerKeepsAccess

LEMMA RotateToOwner ==
    ASSUME TypeOK, OwnerKept, NEW c \in Clients, NEW lists, NEW accept,
           NEW val \in Values \cup {Keep}, RotateTo(c, lists, accept, val)
    PROVE  OwnerKept'
<1> DEFINE r == snap[c]
           next == Resolve(lists)
           chosen == IF val = Keep THEN r.blob.val ELSE val
           p == SealPlan(next, nextDek, chosen, r.n + 1,
                         r.holders \cup ({OwnerKey} \cap Wrapped(r)))
<1>1. r \in Records
    BY DEF TypeOK
<1>2. nextDek \in Deks
    BY RecordAssumptions DEF RotateTo, Draw, TypeOK, Deks
<1>3. chosen \in Values
    BY <1>1 DEF RotateTo, OwnerOpens, Readers, Records, Blobs
<1>4. OwnerApproval \in next
    BY ResolveOwner
<1>5. KeepsOwner(p)
    <2> HIDE DEF next, chosen, r
    <2> QED BY <1>2, <1>3, <1>4, SealOwner
<1>6. Sign(c, p)
    BY DEF RotateTo
<1> HIDE DEF p
<1> QED
    BY <1>5, <1>6, SignOwner

\* A grant adds a wrap of the data key it read, which a rotation may have
\* replaced: that is harmless to the owner while the wrap is not the owner's.
LEMMA GrantOwner ==
    ASSUME TypeOK, OwnerKept, OwnerNotGranted, NEW c \in Clients,
           NEW role \in {"grantee", "subtree"}, NEW name \in Candidates[role],
           Grant(c, role, name)
    PROVE  OwnerKept'
<1> DEFINE key == KeyFor(role, name)
           p == GrantPlan(snap[c], Approval(role, name, key))
<1>1. name \in Names
    BY ClientAssumptions DEF Lists, ListRoles
<1>2. key # OwnerKey
    BY <1>1 DEF OwnerNotGranted, OwnerKept, KeyFor
<1>3. p.blob = Keep
    BY DEF GrantPlan
<1>4. p.wrap = [KeepWraps EXCEPT ![key] = snap[c].wrap[OwnerKey]]
    BY DEF GrantPlan, Approval
<1>5. p.wrap[OwnerKey] = Keep
    <2> HIDE DEF key, p
    <2> QED BY <1>2, <1>4, OwnerIsKey DEF KeepWraps
<1>6. Sign(c, p)
    BY DEF Grant
<1> HIDE DEF p
<1> QED
    BY <1>3, <1>5, <1>6, KeepOwner, SignOwner

LEMMA ReadOwner ==
    ASSUME TypeOK, OwnerKept, NEW c \in Clients,
           \/ Read(c) \/ ReadMore(c) \/ Abandon(c)
           \/ \E lists \in Offered : CreateResolve(c, lists)
    PROVE  OwnerKept'
<1>1. rec' = rec /\ pubkey' = pubkey /\ teamkey' = teamkey
    BY DEF Read, ReadMore, Abandon, CreateResolve, world
<1>2. ASSUME NEW d \in Clients
      PROVE  /\ pc'[d] = "resolved" => OwnerApproval \in resolved'[d]
             /\ pc'[d] = "signed" => KeepsOwner(plan'[d])
    <2>1. CASE Read(c) \/ ReadMore(c) \/ Abandon(c)
        <3>1. \/ pc'[d] \in {"idle", "read"}
              \/ pc'[d] = pc[d] /\ plan'[d] = plan[d] /\ resolved'[d] = resolved[d]
            BY <2>1 DEF Read, ReadMore, Abandon, TypeOK
        <3> QED
            BY <3>1 DEF OwnerKept
    <2>2. ASSUME NEW lists \in Offered, CreateResolve(c, lists)
          PROVE  /\ pc'[d] = "resolved" => OwnerApproval \in resolved'[d]
                 /\ pc'[d] = "signed" => KeepsOwner(plan'[d])
        <3>1. \/ pc'[d] = "resolved" /\ resolved'[d] = Resolve(lists)
              \/ pc'[d] = pc[d] /\ plan'[d] = plan[d] /\ resolved'[d] = resolved[d]
            BY <2>2 DEF CreateResolve, TypeOK
        <3> QED
            BY <3>1, ResolveOwner DEF OwnerKept
    <2> QED
        BY <2>1, <2>2
<1> QED
    BY <1>1, <1>2 DEF OwnerKept, OwnerKeepsAccess

LEMMA WriteOwner ==
    ASSUME TypeOK, OwnerKept, NEW c \in Clients, Write(c)
    PROVE  OwnerKept'
<1>1. rec' = Apply(rec, plan[c]) /\ KeepsOwner(plan[c])
    BY DEF Write, OwnerKept
<1>2. OwnerKeepsAccess'
    BY <1>1, ApplyOwner DEF OwnerKept, OwnerKeepsAccess, TypeOK
<1> QED
    BY <1>2 DEF OwnerKept, Write, TypeOK

LEMMA EnvironmentOwner ==
    ASSUME TypeOK, OwnerKept, Environment
    PROVE  OwnerKept'
<1>1. pc' = pc /\ resolved' = resolved /\ plan' = plan
    BY DEF Environment, Publish, PublishTeam, DelegateForge, DelegateRollback,
           DelegateHide, clientVars
<1>2. \A name \in Names : /\ pubkey'[name] \in Publishable[name]
                          /\ teamkey'[name] \in TeamKeys[name]
    BY DEF Environment, Publish, PublishTeam, DelegateForge, DelegateRollback,
           DelegateHide, TypeOK, OwnerKept
<1>3. rec'.blob = rec.blob /\ rec'.wrap = rec.wrap
    BY DEF Environment, Publish, PublishTeam, DelegateForge, DelegateRollback,
           DelegateHide, TypeOK, Records
<1> QED
    BY <1>1, <1>2, <1>3 DEF OwnerKept, OwnerKeepsAccess, OwnerOpens, Readers

LEMMA InitOwner == Init => OwnerKept
<1> SUFFICES ASSUME Init
             PROVE  OwnerKept
    OBVIOUS
<1>1. OwnerKeepsAccess
    <2>1. CASE rec = NoRecords
        BY <2>1 DEF NoRecords, OwnerKeepsAccess
    <2>2. ASSUME NEW lists \in Offered, NEW val \in Values, MaxDek >= 1,
                 Resolvable(lists), rec = LegacyRecords(Resolve(lists), val)
          PROVE  OwnerKeepsAccess
        <3> DEFINE p == SealPlan(Resolve(lists), 1, val, 1, {})
        <3>1. 1 \in Deks
            BY <2>2, RecordAssumptions DEF Deks
        <3>2. p.blob = [dek |-> 1, val |-> val] /\ p.blob \in Blobs
            BY <3>1 DEF SealPlan, Blobs
        <3>3. OwnerKey \in KeysOf(Resolve(lists))
            BY ResolveOwner, OwnerKeyHeld
        <3>4. p.wrap[OwnerKey] = 1
            BY <3>3, OwnerIsKey DEF SealPlan
        <3>5. /\ rec.blob = Merge(NoRecords.blob, p.blob)
              /\ rec.wrap[OwnerKey] = Merge(NoRecords.wrap[OwnerKey], p.wrap[OwnerKey])
            BY <2>2, OwnerIsKey DEF LegacyRecords, Apply
        <3>6. rec.blob = p.blob /\ rec.wrap[OwnerKey] = 1
            BY <3>1, <3>2, <3>4, <3>5, SentinelAssumption DEF Merge
        <3> QED
            BY <3>2, <3>6, OwnerIsKey DEF OwnerKeepsAccess, OwnerOpens, Readers
    <2> QED
        BY <2>1, <2>2 DEF Init
<1> QED
    BY <1>1 DEF Init, OwnerKept

LEMMA ClientOwner ==
    ASSUME TypeOK, OwnerKept, OwnerNotGranted, NEW c \in Clients, ClientStep(c)
    PROVE  OwnerKept'
<1>1. CASE \/ Read(c) \/ ReadMore(c) \/ Abandon(c)
           \/ \E lists \in Offered : CreateResolve(c, lists)
    BY <1>1, ReadOwner
<1>2. ASSUME NEW lists \in Offered, Reauthorize(c, lists)
      PROVE  OwnerKept'
    <2> DEFINE p == ReauthorizePlan(Resolve(lists), snap[c].n + 1)
    <2>1. p.blob = Keep /\ p.wrap[OwnerKey] = Keep
        BY OwnerIsKey DEF ReauthorizePlan, KeepWraps
    <2>2. Sign(c, p)
        BY <1>2 DEF Reauthorize
    <2> HIDE DEF p
    <2> QED
        BY <2>1, <2>2, KeepOwner, SignOwner
<1>3. ASSUME NEW val \in Values, CreateSign(c, val)
      PROVE  OwnerKept'
    <2>1. nextDek \in Deks
        BY <1>3, RecordAssumptions DEF CreateSign, Draw, TypeOK, Deks
    <2>2. OwnerApproval \in resolved[c]
        <3>1. pc[c] = "resolved"
            BY <1>3 DEF CreateSign
        <3> QED
            BY <3>1 DEF OwnerKept
    <2>3. KeepsOwner(SealPlan(resolved[c], nextDek, val, 1, rec.holders))
        BY <2>1, <2>2, SealOwner
    <2> QED
        BY <1>3, <2>3, SignOwner DEF CreateSign
<1>4. ASSUME NEW val \in Values \cup {Keep}, Rotate(c, val)
      PROVE  OwnerKept'
    BY <1>4, RotateToOwner DEF Rotate
<1>5. ASSUME NEW role \in ListRoles, NEW name \in Names, Revoke(c, role, name)
      PROVE  OwnerKept'
    BY <1>5, RotateToOwner DEF Revoke
<1>6. ASSUME NEW role \in {"grantee", "subtree"}, NEW name \in Candidates[role],
             Grant(c, role, name) \/ Regrant(c, role, name)
      PROVE  OwnerKept'
    <2>1. CASE Grant(c, role, name)
        BY <2>1, GrantOwner
    <2>2. CASE Regrant(c, role, name)
        BY <2>2, RotateToOwner DEF Regrant
    <2> QED
        BY <1>6, <2>1, <2>2
<1>7. CASE Forget(c)
    <2>1. KeepsOwner(ClearPlan(snap[c].holders))
        BY DEF ClearPlan, KeepsOwner
    <2> QED
        BY <1>7, <2>1, SignOwner DEF Forget
<1>8. CASE Write(c)
    BY <1>8, WriteOwner
<1> QED
    BY <1>1, <1>2, <1>3, <1>4, <1>5, <1>6, <1>7, <1>8 DEF ClientStep

\* However its calls interleave and its reads tear, and whatever names and
\* delegates write, the owner's key opens every blob its clients leave, as long
\* as no name it may grant to publishes the owner's own key (planSecret,
\* planGrant, planRotate).
THEOREM OwnerStays ==
    ASSUME OwnerNotGranted
    PROVE  Spec => []OwnerKeepsAccess
<1>1. Init => OwnerKept
    BY InitOwner
<1>2. TypeOK /\ OwnerKept /\ [Next]_vars => OwnerKept'
    <2> SUFFICES ASSUME TypeOK, OwnerKept, [Next]_vars
                 PROVE  OwnerKept'
        OBVIOUS
    <2>1. CASE UNCHANGED vars
        BY <2>1 DEF OwnerKept, OwnerKeepsAccess, vars
    <2> QED
        BY <2>1, ClientOwner, EnvironmentOwner DEF Next
<1>3. OwnerKept => OwnerKeepsAccess
    BY DEF OwnerKept
<1> QED
    BY <1>1, <1>2, <1>3, TypeCorrect, PTL DEF Spec
----------------------------------------------------------------------------
\* One client at a time.  What two clients of an owner may do to each other's
\* writes is the subject of the theorems above; the ones below are about a single
\* client, whose calls only delegates and republished keys interrupt.

Alone == \A c, d \in Clients : c = d

\* Nothing but a rotation changes what a signed entry is bound to.
Stable == "signed" \notin Delegated /\ "reauthorize" \notin Ops /\ ~LegacyStart

\* Records that differ only in what a delegate may write.
Alike(r, s) ==
    /\ r.blob = s.blob /\ r.wrap = s.wrap
    /\ "holders" \notin Delegated => r.holders = s.holders
    /\ "signed" \notin Delegated =>
          r.lists = s.lists /\ r.n = s.n /\ r.keys = s.keys /\ r.sig = s.sig

\* The signed entries are those whose keys open the blob.
Bound(r) ==
    /\ r.blob # NoBlob => /\ Readers(r) = KeysOf(r.keys) /\ r.lists = ListsOf(r.keys)
                          /\ OwnerApproval \in r.keys
    /\ r.blob = NoBlob => r.sig = NoSig

\* What a client's write leaves on the name.
Sound(r) ==
    /\ "holders" \notin Delegated => r.holders = Wrapped(r)
    /\ "signed" \notin Delegated /\ r.blob # NoBlob => Verified(r) \/ Legacy(r)
    /\ r.blob # NoBlob => OwnerOpens(r) /\ Readers(r) \ {OwnerKey} # {}
    /\ Stable => Bound(r)

\* A data key that is drawn next is in no wrap yet, nor in one that is under way.
DeksDrawn ==
    /\ \A k \in Keys : rec.wrap[k] < nextDek
    /\ \A c \in Clients : \A k \in Keys : plan[c].wrap[k] # Keep => plan[c].wrap[k] < nextDek

AloneInv ==
    /\ DeksDrawn /\ Sound(rec)
    /\ \A c \in Clients :
          /\ pc[c] = "resolved" => OwnerApproval \in resolved[c]
          /\ pc[c] = "read" => Alike(snap[c], rec)
          /\ pc[c] = "signed" => Sound(Apply(rec, plan[c]))

LEMMA AlikeSound ==
    ASSUME NEW r \in Records, NEW s \in Records, Alike(r, s), Sound(r)
    PROVE  Sound(s)
<1>1. Readers(s) = Readers(r) /\ Wrapped(s) = Wrapped(r) /\ (OwnerOpens(s) <=> OwnerOpens(r))
    BY DEF Alike, Readers, Wrapped, OwnerOpens
<1>2. "signed" \notin Delegated => /\ Verified(s) <=> Verified(r)
                                   /\ Legacy(s) <=> Legacy(r)
                                   /\ Bound(s) <=> Bound(r)
    BY <1>1 DEF Alike, Verified, Legacy, Bound
<1> QED
    BY <1>1, <1>2 DEF Alike, Sound, Stable

\* The same write over records that are alike leaves records that are alike.
LEMMA ApplyAlike ==
    ASSUME NEW r \in Records, NEW s \in Records, Alike(r, s), NEW p
    PROVE  Alike(Apply(r, p), Apply(s, p))
    BY DEF Alike, Apply, Merge

\* What a create or a rotation writes: exactly the listed keys open the new blob,
\* whatever wraps a delegate had hidden, because its data key is new (planSecret).
LEMMA SealSound ==
    ASSUME NEW r \in Records, NEW as \in SUBSET Approvals, OwnerApproval \in as, Sealable(as),
           NEW dek \in Deks, NEW val \in Values, NEW n \in Nat, NEW previous \in SUBSET Keys,
           "holders" \notin Delegated => Wrapped(r) \subseteq previous,
           \A k \in Keys : r.wrap[k] < dek
    PROVE  Sound(Apply(r, SealPlan(as, dek, val, n, previous)))
<1> DEFINE p == SealPlan(as, dek, val, n, previous)
           q == Apply(r, p)
           kept == KeysOf(as)
<1>1. kept \in SUBSET Keys /\ ListsOf(as) \in Lists /\ OwnerKey \in kept
    BY KeysOfType, ListsOfType, OwnerKeyHeld
<1>2. dek \in Nat /\ dek # NoDek /\ dek # Keep /\ NoDek # Keep
    BY SentinelAssumption DEF Deks, NoDek
<1>3. [dek |-> dek, val |-> val] \in Blobs
    BY DEF Blobs
<1>4. q.blob = [dek |-> dek, val |-> val] /\ q.blob # NoBlob /\ q.blob.dek = dek
    <2>1. p.blob = [dek |-> dek, val |-> val]
        BY DEF SealPlan
    <2>2. q.blob = Merge(r.blob, p.blob)
        BY DEF Apply
    <2> HIDE DEF p, q
    <2> QED BY <2>1, <2>2, <1>3, SentinelAssumption DEF Merge
<1>5. q.holders = kept
    <2>1. p.holders = kept /\ q.holders = Merge(r.holders, p.holders)
        BY DEF SealPlan, Apply
    <2> HIDE DEF p, q, kept
    <2> QED BY <2>1, <1>1, SentinelAssumption DEF Merge
<1>6. ASSUME NEW k \in Keys
      PROVE  /\ k \in kept => q.wrap[k] = dek
             /\ k \notin kept => q.wrap[k] = NoDek \/ (q.wrap[k] = r.wrap[k] /\ k \notin previous)
    <2>1. p.wrap[k] = IF k \in kept THEN dek ELSE IF k \in previous THEN NoDek ELSE Keep
        BY DEF SealPlan
    <2>2. q.wrap[k] = Merge(r.wrap[k], p.wrap[k])
        BY DEF Apply
    <2> HIDE DEF p, q, kept
    <2> QED BY <2>1, <2>2, <1>2 DEF Merge
<1>7. /\ q.lists = ListsOf(as) /\ q.n = n /\ q.keys = as
      /\ q.sig = Payload(n, ListsOf(as), as)
    <2>1. p.lists = ListsOf(as) /\ p.n = n /\ p.keys = as /\ p.sig = Payload(n, ListsOf(as), as)
        BY DEF SealPlan
    <2>2. /\ q.lists = [role \in ListRoles |-> Merge(r.lists[role], p.lists[role])]
          /\ q.n = p.n /\ q.keys = p.keys /\ q.sig = p.sig
        BY DEF Apply
    <2>3. \A role \in ListRoles : Merge(r.lists[role], ListsOf(as)[role]) = ListsOf(as)[role]
        BY <1>1, SentinelAssumption DEF Merge, Lists
    <2>4. ListsOf(as) = [role \in ListRoles |-> ListsOf(as)[role]]
        BY <1>1 DEF Lists
    <2> HIDE DEF p, q
    <2> QED BY <2>1, <2>2, <2>3, <2>4
<1> HIDE DEF p, q, kept
<1>8. Readers(q) = kept
    <2>1. \A k \in Keys : k \notin kept => q.wrap[k] # dek
        BY <1>2, <1>6 DEF Records, NoDek
    <2> QED BY <2>1, <1>1, <1>4, <1>6 DEF Readers
<1>9. "holders" \notin Delegated => Wrapped(q) = kept
    BY <1>1, <1>2, <1>6 DEF Wrapped
<1>10. Verified(q)
    BY <1>7 DEF Verified
<1>11. OwnerOpens(q) /\ kept \ {OwnerKey} # {}
    <2>1. kept # {OwnerKey}
        BY DEF Sealable, kept
    <2> QED BY <2>1, <1>1, <1>8 DEF OwnerOpens
<1>12. Bound(q)
    BY <1>4, <1>7, <1>8 DEF Bound, kept
<1> QED
    BY <1>4, <1>5, <1>8, <1>9, <1>10, <1>11, <1>12 DEF Sound, p, q

\* A grant to a new name adds its key to those that open the blob, and takes no
\* entry's place (planGrant).
LEMMA GrantSound ==
    ASSUME NEW r \in Records, Sound(r), Verified(r), NEW role \in {"grantee", "subtree"},
           NEW name \in Names \ r.lists[role], NEW key \in Keys, r.wrap[OwnerKey] # NoDek
    PROVE  Sound(Apply(r, GrantPlan(r, Approval(role, name, key))))
<1> DEFINE a == Approval(role, name, key)
           p == GrantPlan(r, a)
           q == Apply(r, p)
           dek == r.wrap[OwnerKey]
           lists == [r.lists EXCEPT ![role] = @ \cup {name}]
           keys == Rebind(r.keys, {a})
<1>0. a.role = role /\ a.name = name /\ a.key = key /\ role \in ListRoles
    BY DEF Approval, ListRoles
<1>1. dek \in Deks /\ dek # NoDek /\ dek # Keep /\ dek \in Nat
    BY OwnerIsKey, SentinelAssumption DEF Records, Deks
<1>2. lists \in Lists
    BY DEF Lists, Records
<1>3. q.blob = r.blob
    BY DEF GrantPlan, Apply, Merge
<1>4. "holders" \notin Delegated => q.holders = r.holders \cup {key}
    <2>1. p.holders = r.holders \cup {key} /\ q.holders = Merge(r.holders, p.holders)
        BY <1>0 DEF GrantPlan, Apply
    <2>2. r.holders \cup {key} \in SUBSET Keys
        BY DEF Records
    <2> HIDE DEF p, q
    <2> QED BY <2>1, <2>2, SentinelAssumption DEF Merge
<1>5. \A k \in Keys : q.wrap[k] = IF k = key THEN dek ELSE r.wrap[k]
    <2> SUFFICES ASSUME NEW k \in Keys
                 PROVE  q.wrap[k] = IF k = key THEN dek ELSE r.wrap[k]
        OBVIOUS
    <2>1. p.wrap[k] = IF k = key THEN dek ELSE Keep
        BY <1>0 DEF GrantPlan, KeepWraps
    <2>2. q.wrap[k] = Merge(r.wrap[k], p.wrap[k])
        BY DEF Apply
    <2> HIDE DEF p, q, dek
    <2> QED BY <2>1, <2>2, <1>1 DEF Merge
<1>6. q.lists = lists /\ q.n = r.n + 1 /\ q.keys = keys /\ q.sig = Payload(r.n + 1, lists, keys)
    <2>1. /\ p.lists = [KeepLists EXCEPT ![role] = lists[role]] /\ p.n = r.n + 1 /\ p.keys = keys
          /\ p.sig = Payload(r.n + 1, lists, keys)
        BY <1>0 DEF GrantPlan
    <2>2. /\ q.lists = [l \in ListRoles |-> Merge(r.lists[l], p.lists[l])]
          /\ q.n = p.n /\ q.keys = p.keys /\ q.sig = p.sig
        BY DEF Apply
    <2>3. \A l \in ListRoles : p.lists[l] = IF l = role THEN lists[role] ELSE Keep
        BY <2>1, <1>0 DEF KeepLists
    <2>4. \A l \in ListRoles : lists[l] # Keep /\ (l # role => lists[l] = r.lists[l])
        BY <1>0, <1>2, SentinelAssumption DEF Lists, Records
    <2>5. lists = [l \in ListRoles |-> lists[l]]
        BY <1>2 DEF Lists
    <2> HIDE DEF p, q, lists
    <2>6. \A l \in ListRoles : Merge(r.lists[l], p.lists[l]) = lists[l]
        BY <2>3, <2>4 DEF Merge
    <2> QED BY <2>1, <2>2, <2>5, <2>6
<1>7. Verified(q)
    BY <1>6 DEF Verified
<1>8. Wrapped(q) = Wrapped(r) \cup {key}
    BY <1>1, <1>5 DEF Wrapped
<1>9. r.blob # NoBlob => Readers(q) = Readers(r) \cup {key}
    BY <1>3, <1>5 DEF Sound, OwnerOpens, Readers
<1>10. ASSUME r.blob # NoBlob
       PROVE  OwnerOpens(q) /\ Readers(q) \ {OwnerKey} # {}
    BY <1>9, <1>10 DEF Sound, OwnerOpens
<1>11. ASSUME Stable, Bound(r)
       PROVE  Bound(q)
    <2>1. r.blob # NoBlob
        <3>1. Payload(r.n, r.lists, r.keys) # NoSig
            BY PayloadType, SignatureAssumption DEF Records
        <3> QED BY <3>1, <1>11 DEF Bound, Verified
    <2>2. r.lists = ListsOf(r.keys) /\ Readers(r) = KeysOf(r.keys) /\ OwnerApproval \in r.keys
        BY <2>1, <1>11 DEF Bound
    <2>3. \A b \in r.keys : ~SameEntry(b, a)
        <3>1. r.lists[role] = {b.name : b \in {d \in r.keys : d.role = role}}
            BY <2>2, <1>0 DEF ListsOf
        <3> HIDE DEF a
        <3> QED BY <3>1, <1>0 DEF SameEntry
    <2>4. keys = r.keys \cup {a}
        BY <2>3 DEF Rebind
    <2> HIDE DEF a, keys
    <2>5. KeysOf(keys) = KeysOf(r.keys) \cup {key}
        BY <2>4, <1>0 DEF KeysOf
    <2>6. ListsOf(keys) = lists
        <3> DEFINE named(as, l) == {b.name : b \in {d \in as : d.role = l}}
        <3>1. \A l \in ListRoles : /\ ListsOf(keys)[l] = named(keys, l)
                                   /\ r.lists[l] = named(r.keys, l)
            BY <2>2 DEF ListsOf
        <3>2. named(keys, role) = named(r.keys, role) \cup {name}
            BY <2>4, <1>0
        <3>3. \A l \in ListRoles \ {role} : named(keys, l) = named(r.keys, l)
            BY <2>4, <1>0
        <3> HIDE DEF named
        <3>4. \A l \in ListRoles : lists[l] = IF l = role THEN r.lists[l] \cup {name} ELSE r.lists[l]
            BY <1>0 DEF Records, Lists
        <3>5. \A l \in ListRoles : ListsOf(keys)[l] = lists[l]
            BY <3>1, <3>2, <3>3, <3>4
        <3>6. ListsOf(keys) = [l \in ListRoles |-> ListsOf(keys)[l]] /\ lists = [l \in ListRoles |-> lists[l]]
            BY <1>2 DEF ListsOf, Lists
        <3> HIDE DEF lists
        <3> QED BY <3>5, <3>6
    <2>7. OwnerApproval \in keys
        BY <2>2, <2>4
    <2> QED BY <2>1, <2>2, <2>5, <2>6, <2>7, <1>3, <1>6, <1>9 DEF Bound
<1> HIDE DEF p, q
<1> QED
    <2>1. "holders" \notin Delegated => q.holders = Wrapped(q)
        BY <1>4, <1>8 DEF Sound
    <2>2. q.blob # NoBlob => OwnerOpens(q) /\ Readers(q) \ {OwnerKey} # {}
        BY <1>3, <1>10
    <2>3. Stable => Bound(q)
        BY <1>11 DEF Sound
    <2>4. Sound(q)
        BY <2>1, <2>2, <2>3, <1>7 DEF Sound
    <2> QED BY <2>4 DEF p, q, a

\* A re-authorization writes no wrap and no blob (reauthorize).
LEMMA ReauthorizeSound ==
    ASSUME NEW r \in Records, Sound(r), NEW as \in SUBSET Approvals, NEW n \in Nat,
           "reauthorize" \in Ops
    PROVE  Sound(Apply(r, ReauthorizePlan(as, n)))
<1> DEFINE p == ReauthorizePlan(as, n)
           q == Apply(r, p)
<1>1. q.blob = r.blob /\ q.holders = r.holders
    BY DEF Apply, ReauthorizePlan, Merge
<1>2. \A k \in Keys : q.wrap[k] = r.wrap[k]
    BY DEF Apply, ReauthorizePlan, Merge, KeepWraps
<1>3. q.lists = ListsOf(as) /\ q.n = n /\ q.keys = as /\ q.sig = Payload(n, ListsOf(as), as)
    <2>1. p.lists = ListsOf(as) /\ p.n = n /\ p.keys = as /\ p.sig = Payload(n, ListsOf(as), as)
        BY DEF ReauthorizePlan
    <2>2. /\ q.lists = [role \in ListRoles |-> Merge(r.lists[role], p.lists[role])]
          /\ q.n = p.n /\ q.keys = p.keys /\ q.sig = p.sig
        BY DEF Apply
    <2>3. ListsOf(as) \in Lists
        BY ListsOfType
    <2>4. \A role \in ListRoles : Merge(r.lists[role], ListsOf(as)[role]) = ListsOf(as)[role]
        BY <2>3, SentinelAssumption DEF Merge, Lists
    <2>5. ListsOf(as) = [role \in ListRoles |-> ListsOf(as)[role]]
        BY <2>3 DEF Lists
    <2> HIDE DEF p, q
    <2> QED BY <2>1, <2>2, <2>4, <2>5
<1> HIDE DEF p, q
<1>4. Readers(q) = Readers(r) /\ Wrapped(q) = Wrapped(r) /\ (OwnerOpens(q) <=> OwnerOpens(r))
    BY <1>1, <1>2 DEF Readers, Wrapped, OwnerOpens
<1>5. Verified(q)
    BY <1>3 DEF Verified
<1>6. Sound(q)
    BY <1>1, <1>4, <1>5 DEF Sound, Stable
<1> QED
    BY <1>6 DEF p, q

\* A forget clears what rewall.holders names (clearSecretRecords).
LEMMA ClearSound ==
    ASSUME NEW r \in Records, Sound(r), NEW holders \in SUBSET Keys,
           "holders" \notin Delegated => holders = r.holders
    PROVE  Sound(Apply(r, ClearPlan(holders)))
<1> DEFINE p == ClearPlan(holders)
           q == Apply(r, p)
<1>1. q.blob = NoBlob /\ q.sig = NoSig /\ q.holders = {}
    BY SentinelAssumption DEF Apply, ClearPlan, Merge
<1>2. \A k \in Keys : q.wrap[k] = IF k \in holders THEN NoDek ELSE r.wrap[k]
    <2> SUFFICES ASSUME NEW k \in Keys
                 PROVE  q.wrap[k] = IF k \in holders THEN NoDek ELSE r.wrap[k]
        OBVIOUS
    <2>1. p.wrap[k] = IF k \in holders THEN NoDek ELSE Keep
        BY DEF ClearPlan
    <2>2. q.wrap[k] = Merge(r.wrap[k], p.wrap[k])
        BY DEF Apply
    <2> HIDE DEF p, q
    <2> QED BY <2>1, <2>2, SentinelAssumption DEF Merge
<1> HIDE DEF p, q
<1>3. "holders" \notin Delegated => Wrapped(q) = {}
    BY <1>2 DEF Wrapped, Sound
<1>4. Sound(q)
    BY <1>1, <1>3 DEF Sound, Bound
<1> QED
    BY <1>4 DEF p, q

LEMMA SealWraps ==
    ASSUME NEW as, NEW dek, NEW val, NEW n, NEW previous, NEW k \in Keys
    PROVE  SealPlan(as, dek, val, n, previous).wrap[k] \in {dek, NoDek, Keep}
    BY DEF SealPlan

\* Signing, by the only client, what leaves sound records wherever it lands.
LEMMA SignAlone ==
    ASSUME TypeOK, TypeOK', Alone, AloneInv, NEW c \in Clients, NEW p, Sign(c, p),
           Sound(Apply(rec, p)), nextDek' >= nextDek,
           \A k \in Keys : p.wrap[k] # Keep => p.wrap[k] < nextDek'
    PROVE  AloneInv'
<1>1. rec' = rec /\ Clients = {c}
    BY DEF Sign, world, Alone
<1>2. pc'[c] = "signed" /\ plan'[c] = p
    BY DEF Sign, TypeOK
<1>3. \A k \in Keys : rec.wrap[k] < nextDek'
    <2>1. \A k \in Keys : rec.wrap[k] < nextDek /\ rec.wrap[k] \in Nat
        BY DEF AloneInv, DeksDrawn, TypeOK, Records, Deks, NoDek
    <2>2. nextDek \in Nat /\ nextDek' \in Nat
        BY RecordAssumptions DEF TypeOK
    <2> QED BY <2>1, <2>2
<1>4. DeksDrawn'
    BY <1>1, <1>2, <1>3 DEF DeksDrawn
<1> QED
    BY <1>1, <1>2, <1>4 DEF AloneInv

\* A rotation is planned over records that are still what it read (rotateTo).
LEMMA RotateToAlone ==
    ASSUME TypeOK, TypeOK', Alone, AloneInv, NEW c \in Clients, NEW lists \in Lists, NEW accept,
           NEW val \in Values \cup {Keep}, RotateTo(c, lists, accept, val)
    PROVE  AloneInv'
<1> DEFINE r == snap[c]
           next == Resolve(lists)
           chosen == IF val = Keep THEN r.blob.val ELSE val
           previous == r.holders \cup ({OwnerKey} \cap Wrapped(r))
           p == SealPlan(next, nextDek, chosen, r.n + 1, previous)
<1>1. r \in Records /\ rec \in Records /\ Alike(r, rec) /\ Sound(rec)
    BY DEF TypeOK, AloneInv, RotateTo
<1>2. next \in SUBSET Approvals /\ OwnerApproval \in next /\ Sealable(next)
    BY ResolveType, ResolveOwner DEF RotateTo
<1>3. nextDek \in Deks /\ nextDek' = nextDek + 1 /\ nextDek \in Nat
    BY RecordAssumptions DEF RotateTo, Draw, TypeOK, Deks
<1>4. chosen \in Values
    BY <1>1 DEF RotateTo, OwnerOpens, Readers, Records, Blobs
<1>5. previous \in SUBSET Keys /\ r.n + 1 \in Nat
    BY <1>1, RecordAssumptions DEF Records
<1>6. "holders" \notin Delegated => Wrapped(rec) \subseteq previous
    BY <1>1 DEF Alike, Sound
<1>7. \A k \in Keys : rec.wrap[k] < nextDek
    BY DEF AloneInv, DeksDrawn
<1>8. Sound(Apply(rec, p))
    <2> HIDE DEF next, chosen, previous, r
    <2> QED BY <1>1, <1>2, <1>3, <1>4, <1>5, <1>6, <1>7, SealSound
<1>9. Sign(c, p)
    BY DEF RotateTo
<1>10. \A k \in Keys : p.wrap[k] # Keep => p.wrap[k] < nextDek'
    <2>1. \A k \in Keys : p.wrap[k] \in {nextDek, NoDek, Keep}
        BY SealWraps
    <2> HIDE DEF p
    <2> QED BY <1>3, <2>1 DEF NoDek
<1> HIDE DEF p
<1> QED
    BY <1>3, <1>8, <1>9, <1>10, SignAlone

LEMMA CreateAlone ==
    ASSUME TypeOK, TypeOK', Alone, AloneInv, NEW c \in Clients, NEW val \in Values, CreateSign(c, val)
    PROVE  AloneInv'
<1> DEFINE p == SealPlan(resolved[c], nextDek, val, 1, rec.holders)
<1>1. rec \in Records /\ Sound(rec) /\ rec.holders \in SUBSET Keys
    BY DEF TypeOK, AloneInv, Records
<1>2. resolved[c] \in SUBSET Approvals /\ OwnerApproval \in resolved[c] /\ Sealable(resolved[c])
    BY DEF TypeOK, AloneInv, CreateSign
<1>3. nextDek \in Deks /\ nextDek' = nextDek + 1 /\ nextDek \in Nat
    BY RecordAssumptions DEF CreateSign, Draw, TypeOK, Deks
<1>4. "holders" \notin Delegated => Wrapped(rec) \subseteq rec.holders
    BY <1>1 DEF Sound
<1>5. \A k \in Keys : rec.wrap[k] < nextDek
    BY DEF AloneInv, DeksDrawn
<1>6. Sound(Apply(rec, p))
    BY <1>1, <1>2, <1>3, <1>4, <1>5, SealSound
<1>7. Sign(c, p)
    BY DEF CreateSign
<1>8. \A k \in Keys : p.wrap[k] # Keep => p.wrap[k] < nextDek'
    <2>1. \A k \in Keys : p.wrap[k] \in {nextDek, NoDek, Keep}
        BY SealWraps
    <2> HIDE DEF p
    <2> QED BY <1>3, <2>1 DEF NoDek
<1> HIDE DEF p
<1> QED
    BY <1>3, <1>6, <1>7, <1>8, SignAlone

\* The data key a grant hands on is that of the blob it will land on.
LEMMA GrantAlone ==
    ASSUME TypeOK, TypeOK', Alone, AloneInv, NEW c \in Clients,
           NEW role \in {"grantee", "subtree"}, NEW name \in Candidates[role], Grant(c, role, name)
    PROVE  AloneInv'
<1> DEFINE r == snap[c]
           key == KeyFor(role, name)
           p == GrantPlan(r, Approval(role, name, key))
<1>1. r \in Records /\ rec \in Records /\ Alike(r, rec) /\ Alike(rec, r) /\ Sound(rec)
    BY DEF TypeOK, AloneInv, Grant, Alike
<1>2. Sound(r)
    BY <1>1, AlikeSound
<1>3. name \in Names \ r.lists[role] /\ key \in Keys
    <2>1. name \in Names
        BY ClientAssumptions DEF Lists, ListRoles
    <2> QED BY <2>1 DEF Grant, KeyFor, TypeOK
<1>4. Verified(r) /\ r.wrap[OwnerKey] # NoDek /\ Sign(c, p) /\ nextDek' = nextDek
    BY DEF Grant
<1>5. p \in Plans
    BY <1>1, <1>3, GrantPlanType DEF Approval, ListRoles
<1>6. Sound(Apply(r, p))
    <2> HIDE DEF r, key
    <2> QED BY <1>1, <1>2, <1>3, <1>4, GrantSound
<1>7. Sound(Apply(rec, p))
    <2> HIDE DEF p, r
    <2> QED BY <1>1, <1>5, <1>6, ApplyAlike, ApplyType, AlikeSound
<1>8. \A k \in Keys : p.wrap[k] # Keep => p.wrap[k] < nextDek'
    <2>1. \A k \in Keys : p.wrap[k] = IF k = key THEN r.wrap[OwnerKey] ELSE Keep
        BY DEF GrantPlan, KeepWraps, Approval
    <2>2. r.wrap[OwnerKey] = rec.wrap[OwnerKey] /\ rec.wrap[OwnerKey] < nextDek
        BY <1>1, OwnerIsKey DEF AloneInv, DeksDrawn, Alike
    <2> QED BY <2>1, <2>2, <1>4
<1>9. nextDek' >= nextDek
    BY <1>4, RecordAssumptions DEF TypeOK
<1> HIDE DEF p, r
<1> QED
    BY <1>4, <1>7, <1>8, <1>9, SignAlone

LEMMA ReauthorizeAlone ==
    ASSUME TypeOK, TypeOK', Alone, AloneInv, NEW c \in Clients, NEW lists \in Offered,
           Reauthorize(c, lists)
    PROVE  AloneInv'
<1> DEFINE p == ReauthorizePlan(Resolve(lists), snap[c].n + 1)
<1>1. rec \in Records /\ Sound(rec) /\ "reauthorize" \in Ops /\ Sign(c, p) /\ nextDek' = nextDek
    BY DEF TypeOK, AloneInv, Reauthorize
<1>2. Resolve(lists) \in SUBSET Approvals /\ snap[c].n + 1 \in Nat
    BY ResolveType DEF Reauthorize, Offered, TypeOK, Records
<1>3. Sound(Apply(rec, p))
    BY <1>1, <1>2, ReauthorizeSound
<1>4. \A k \in Keys : p.wrap[k] = Keep
    BY DEF ReauthorizePlan, KeepWraps
<1>5. nextDek' >= nextDek
    BY <1>1, RecordAssumptions DEF TypeOK
<1> HIDE DEF p
<1> QED
    BY <1>1, <1>3, <1>4, <1>5, SignAlone

LEMMA ForgetAlone ==
    ASSUME TypeOK, TypeOK', Alone, AloneInv, NEW c \in Clients, Forget(c)
    PROVE  AloneInv'
<1> DEFINE p == ClearPlan(snap[c].holders)
<1>1. rec \in Records /\ Sound(rec) /\ Sign(c, p) /\ nextDek' = nextDek
    BY DEF TypeOK, AloneInv, Forget
<1>2. snap[c].holders \in SUBSET Keys /\ ("holders" \notin Delegated => snap[c].holders = rec.holders)
    BY DEF TypeOK, Records, AloneInv, Forget, Alike
<1>3. Sound(Apply(rec, p))
    BY <1>1, <1>2, ClearSound
<1>4. nextDek \in 1..(MaxDek + 1)
    BY DEF TypeOK
<1>5. \A k \in Keys : p.wrap[k] # Keep => p.wrap[k] < nextDek'
    BY <1>1, <1>4, RecordAssumptions DEF ClearPlan, NoDek
<1> HIDE DEF p
<1> QED
    BY <1>1, <1>3, <1>4, <1>5, RecordAssumptions, SignAlone

\* A read finds the records, and a second read of some of them finds them again.
LEMMA ReadAlone ==
    ASSUME TypeOK, Alone, AloneInv, NEW c \in Clients,
           \/ Read(c) \/ ReadMore(c) \/ Abandon(c)
           \/ \E lists \in Offered : CreateResolve(c, lists)
    PROVE  AloneInv'
<1>1. rec' = rec /\ nextDek' = nextDek /\ Clients = {c}
    BY DEF Read, ReadMore, Abandon, CreateResolve, world, Alone
<1>2. plan'[c] = plan[c] \/ plan'[c] = NoPlan
    BY DEF Read, ReadMore, Abandon, CreateResolve, TypeOK
<1>3. DeksDrawn'
    BY <1>1, <1>2 DEF AloneInv, DeksDrawn, NoPlan
<1>4. pc'[c] = "resolved" => OwnerApproval \in resolved'[c]
    BY ResolveOwner DEF Read, ReadMore, Abandon, CreateResolve, TypeOK
<1>5. pc'[c] = "read" => Alike(snap'[c], rec)
    <2>1. CASE Read(c)
        BY <2>1 DEF Read, TypeOK, Alike
    <2>2. CASE ReadMore(c)
        <3>1. Alike(snap[c], rec)
            BY <2>2 DEF ReadMore, AloneInv
        <3> QED BY <2>2, <3>1 DEF ReadMore, TypeOK, Alike
    <2>3. CASE Abandon(c) \/ \E lists \in Offered : CreateResolve(c, lists)
        BY <2>3 DEF Abandon, CreateResolve, TypeOK
    <2> QED BY <2>1, <2>2, <2>3
<1>6. pc'[c] # "signed"
    BY DEF Read, ReadMore, Abandon, CreateResolve, TypeOK
<1> QED
    BY <1>1, <1>3, <1>4, <1>5, <1>6 DEF AloneInv

LEMMA WriteAlone ==
    ASSUME TypeOK, Alone, AloneInv, NEW c \in Clients, Write(c)
    PROVE  AloneInv'
<1>1. rec' = Apply(rec, plan[c]) /\ Sound(rec') /\ nextDek' = nextDek /\ Clients = {c}
    BY DEF Write, AloneInv, Alone
<1>2. pc'[c] = "idle" /\ plan'[c] = NoPlan
    BY DEF Write, TypeOK
<1>3. DeksDrawn'
    <2>1. \A k \in Keys : rec'.wrap[k] = Merge(rec.wrap[k], plan[c].wrap[k])
        BY <1>1 DEF Apply
    <2>2. \A k \in Keys : rec'.wrap[k] < nextDek
        BY <2>1 DEF AloneInv, DeksDrawn, Merge
    <2> QED BY <2>2, <1>1, <1>2 DEF DeksDrawn, NoPlan
<1> QED
    BY <1>1, <1>2, <1>3 DEF AloneInv

\* A delegate changes only what it may write, and no wrap or blob.
LEMMA EnvironmentAlone ==
    ASSUME TypeOK, TypeOK', AloneInv, Environment
    PROVE  AloneInv'
<1>1. pc' = pc /\ snap' = snap /\ resolved' = resolved /\ plan' = plan /\ nextDek' = nextDek
    BY DEF Environment, Publish, PublishTeam, DelegateForge, DelegateRollback,
           DelegateHide, clientVars
<1>2. Alike(rec, rec')
    <2>1. CASE \E name \in Names : Publish(name) \/ PublishTeam(name)
        BY <2>1 DEF Publish, PublishTeam, Alike
    <2>2. CASE DelegateForge
        BY <2>2 DEF DelegateForge, TypeOK, Records, Alike
    <2>3. CASE DelegateRollback
        BY <2>3 DEF DelegateRollback, TypeOK, Records, Alike
    <2>4. CASE DelegateHide
        BY <2>4 DEF DelegateHide, TypeOK, Records, Alike
    <2> QED BY <2>1, <2>2, <2>3, <2>4 DEF Environment
<1>3. Sound(rec')
    BY <1>2, AlikeSound DEF TypeOK, AloneInv
<1>4. DeksDrawn'
    BY <1>1, <1>2 DEF AloneInv, DeksDrawn, Alike
<1>5. ASSUME NEW c \in Clients, pc[c] = "signed"
      PROVE  Sound(Apply(rec', plan[c]))
    <2>1. rec \in Records /\ rec' \in Records /\ plan[c] \in Plans
        BY DEF TypeOK
    <2>2. Sound(Apply(rec, plan[c]))
        BY <1>5 DEF AloneInv
    <2> QED BY <2>1, <2>2, <1>2, ApplyAlike, ApplyType, AlikeSound
<1>6. ASSUME NEW c \in Clients, pc[c] = "read"
      PROVE  Alike(snap[c], rec')
    BY <1>2, <1>6 DEF AloneInv, Alike
<1> QED
    BY <1>1, <1>3, <1>4, <1>5, <1>6 DEF AloneInv

LEMMA ClientAlone ==
    ASSUME TypeOK, TypeOK', Alone, AloneInv, NEW c \in Clients, ClientStep(c)
    PROVE  AloneInv'
<1>0. snap[c].lists \in Lists
    BY DEF TypeOK, Records
<1>1. CASE \/ Read(c) \/ ReadMore(c) \/ Abandon(c)
           \/ \E lists \in Offered : CreateResolve(c, lists)
    BY <1>1, ReadAlone
<1>2. ASSUME NEW lists \in Offered, Reauthorize(c, lists)
      PROVE  AloneInv'
    BY <1>2, ReauthorizeAlone
<1>3. ASSUME NEW val \in Values, CreateSign(c, val)
      PROVE  AloneInv'
    BY <1>3, CreateAlone
<1>4. ASSUME NEW val \in Values \cup {Keep}, Rotate(c, val)
      PROVE  AloneInv'
    BY <1>0, <1>4, RotateToAlone DEF Rotate
<1>5. ASSUME NEW role \in ListRoles, NEW name \in Names, Revoke(c, role, name)
      PROVE  AloneInv'
    <2>1. [snap[c].lists EXCEPT ![role] = @ \ {name}] \in Lists
        BY <1>0 DEF Lists
    <2> QED BY <1>5, <2>1, RotateToAlone DEF Revoke
<1>6. ASSUME NEW role \in {"grantee", "subtree"}, NEW name \in Candidates[role],
             Grant(c, role, name) \/ Regrant(c, role, name)
      PROVE  AloneInv'
    <2>1. CASE Grant(c, role, name)
        BY <2>1, GrantAlone
    <2>2. CASE Regrant(c, role, name)
        BY <1>0, <2>2, RotateToAlone DEF Regrant
    <2> QED BY <1>6, <2>1, <2>2
<1>7. CASE Forget(c)
    BY <1>7, ForgetAlone
<1>8. CASE Write(c)
    BY <1>8, WriteAlone
<1> QED
    BY <1>1, <1>2, <1>3, <1>4, <1>5, <1>6, <1>7, <1>8 DEF ClientStep

\* Nothing is stored at first, or a secret that was sealed and signed the old way.
LEMMA InitAlone == Init => AloneInv
<1> SUFFICES ASSUME Init
             PROVE  AloneInv
    OBVIOUS
<1>0. TypeOK
    BY InitType
<1>1. \A c \in Clients : pc[c] = "idle" /\ plan[c] = NoPlan
    BY DEF Init
<1>2. Sound(rec) /\ \A k \in Keys : rec.wrap[k] < nextDek
    <2>1. CASE rec = NoRecords /\ nextDek = 1
        <3>1. Wrapped(rec) = {} /\ rec.holders = {} /\ rec.blob = NoBlob /\ rec.sig = NoSig
            BY <2>1 DEF NoRecords, Wrapped
        <3>2. \A k \in Keys : rec.wrap[k] < nextDek
            BY <2>1 DEF NoRecords, NoDek
        <3> QED BY <3>1, <3>2 DEF Sound, Bound
    <2>2. ASSUME NEW lists \in Offered, NEW val \in Values, LegacyStart, MaxDek >= 1,
                 Resolvable(lists), Sealable(Resolve(lists)),
                 rec = LegacyRecords(Resolve(lists), val), nextDek = 2
          PROVE  Sound(rec) /\ \A k \in Keys : rec.wrap[k] < nextDek
        <3> DEFINE as == Resolve(lists)
                   p == SealPlan(as, 1, val, 1, {})
                   q == Apply(NoRecords, p)
        <3>1. as \in SUBSET Approvals /\ OwnerApproval \in as
            BY <1>0, <2>2, ResolveType, ResolveOwner DEF Offered
        <3>2. 1 \in Deks
            BY <2>2, RecordAssumptions DEF Deks
        <3>3. NoRecords \in Records /\ Wrapped(NoRecords) = {} /\ \A k \in Keys : NoRecords.wrap[k] < 1
            BY NoRecordsType DEF NoRecords, Wrapped, NoDek
        <3>4. Sound(q)
            <4> HIDE DEF as
            <4> QED BY <2>2, <3>1, <3>2, <3>3, SealSound DEF as
        <3>5. /\ rec.blob = q.blob /\ rec.holders = q.holders /\ rec.wrap = q.wrap
              /\ rec.n = 1 /\ rec.lists = q.lists /\ rec.sig = LegacyPayload(1, p.lists)
            BY <2>2 DEF LegacyRecords, Apply, SealPlan
        <3>6. q.lists = p.lists
            <4>1. p.lists = ListsOf(as) /\ q.lists = [role \in ListRoles |-> Merge(NoRecords.lists[role], p.lists[role])]
                BY DEF SealPlan, Apply
            <4>2. ListsOf(as) \in Lists
                BY <3>1, ListsOfType
            <4>3. \A role \in ListRoles : Merge(NoRecords.lists[role], ListsOf(as)[role]) = ListsOf(as)[role]
                BY <4>2, SentinelAssumption DEF Merge, Lists
            <4>4. ListsOf(as) = [role \in ListRoles |-> ListsOf(as)[role]]
                BY <4>2 DEF Lists
            <4> HIDE DEF p, q, as
            <4> QED BY <4>1, <4>3, <4>4
        <3>7. \A k \in Keys : rec.wrap[k] < nextDek
            <4>1. \A k \in Keys : p.wrap[k] \in {1, NoDek, Keep} /\ q.wrap[k] = Merge(NoDek, p.wrap[k])
                BY SealWraps DEF Apply, NoRecords
            <4> HIDE DEF p, q
            <4> QED BY <4>1, <3>5, <2>2 DEF Merge, NoDek
        <3> HIDE DEF p, q
        <3>8. Legacy(rec)
            BY <3>5, <3>6 DEF Legacy
        <3>9. /\ Readers(rec) = Readers(q) /\ Wrapped(rec) = Wrapped(q)
              /\ OwnerOpens(rec) <=> OwnerOpens(q)
            BY <3>5 DEF Readers, Wrapped, OwnerOpens
        <3> QED BY <2>2, <3>4, <3>5, <3>7, <3>8, <3>9 DEF Sound, Stable
    <2> QED BY <2>1, <2>2 DEF Init
<1> QED
    BY <1>1, <1>2 DEF AloneInv, DeksDrawn, NoPlan

\* What one client's calls keep, whatever a delegate writes between their steps.
LEMMA AloneHolds ==
    ASSUME Alone
    PROVE  Spec => [](TypeOK /\ AloneInv)
<1>1. TypeOK /\ TypeOK' /\ AloneInv /\ [Next]_vars => AloneInv'
    <2> SUFFICES ASSUME TypeOK, TypeOK', AloneInv, [Next]_vars
                 PROVE  AloneInv'
        OBVIOUS
    <2>1. CASE UNCHANGED vars
        BY <2>1 DEF AloneInv, DeksDrawn, vars
    <2> QED
        BY <2>1, ClientAlone, EnvironmentAlone DEF Next
<1> QED
    BY <1>1, InitAlone, TypeCorrect, PTL DEF Spec

\* With one client, rewall.holders names exactly the keys that have a wrap, as long as
\* no delegate may rewrite it: grants add to it, rotations and forgets clear by it.
THEOREM HoldersKeepTrack ==
    ASSUME Alone, "holders" \notin Delegated
    PROVE  Spec => []HoldersAreWraps
<1>1. AloneInv => HoldersAreWraps
    BY DEF AloneInv, Sound, HoldersAreWraps
<1> QED
    BY <1>1, AloneHolds, PTL

\* With one client and no delegate of the signed records, a secret that exists can be
\* granted, revoked and rotated again: the write that lands last signed all of them.
THEOREM OneClientManages ==
    ASSUME Alone, "signed" \notin Delegated
    PROVE  Spec => []StaysManageable
<1>1. AloneInv => StaysManageable
    BY DEF AloneInv, Sound, StaysManageable
<1> QED
    BY <1>1, AloneHolds, PTL

\* With one client, the owner and somebody else open what is stored, whatever names
\* publish (the owner's own key included) and delegates write.
THEOREM OneClientStrandsNothing ==
    ASSUME Alone
    PROVE  Spec => [](OwnerKeepsAccess /\ NotStranded)
<1>1. AloneInv => OwnerKeepsAccess /\ NotStranded
    BY DEF AloneInv, Sound, OwnerKeepsAccess, NotStranded
<1> QED
    BY <1>1, AloneHolds, PTL

\* With one client that re-signs nothing without sealing it again, the keys that open
\* the blob are those on the signed lists, although a delegate may hide wraps from
\* rotations: each rotation draws a data key no wrap left behind can hold.
THEOREM OnlyListedRead ==
    ASSUME Alone, Stable
    PROVE  Spec => []ReadersAreListed
<1>1. AloneInv => ReadersAreListed
    BY DEF AloneInv, Sound, Bound, ReadersAreListed
<1> QED
    BY <1>1, AloneHolds, PTL
=============================================================================

---------------------------- MODULE Dashboard_proofs ----------------------------
(***************************************************************************)
(* Theorems about the dashboard, for any number of wallets, forms, calls   *)
(* and tickets: each of its parts keeps its promise, in the behaviours of  *)
(* Owners, which follow one part each.                                     *)
(***************************************************************************)
EXTENDS Owners, TLAPS

----------------------------------------------------------------------------
\* A step of an owner is a step of each part of the dashboard, or leaves it alone.
LEMMA OwnersSteps ==
    [OwnersNext]_ownersVars =>
        /\ [WorkspaceNext]_workspaceVars /\ [SessionNext]_sessionVars
        /\ [PaymentsNext]_paymentVars /\ [WithdrawalsNext]_withdrawalVars
        /\ [RevealsNext]_revealVars /\ [GrantsNext]_grantVars /\ [StoresNext]_storeVars
<1> USE DEF transferVars, drawerVars
<1>1. UNCHANGED dashboardVars =>
          /\ UNCHANGED workspaceVars /\ UNCHANGED sessionVars
          /\ UNCHANGED paymentVars /\ UNCHANGED withdrawalVars
          /\ UNCHANGED revealVars /\ UNCHANGED grantVars /\ UNCHANGED storeVars
  BY DEF dashboardVars
<1>2. TransfersNext => [PaymentsNext]_paymentVars /\ [WithdrawalsNext]_withdrawalVars
  BY DEF TransfersNext
<1>3. DrawerNext => [RevealsNext]_revealVars /\ [GrantsNext]_grantVars /\ [StoresNext]_storeVars
  BY DEF DrawerNext
<1> QED  BY <1>1, <1>2, <1>3 DEF OwnersNext, DashboardNext, ownersVars

LEMMA OwnersInits ==
    OwnersInit => /\ WorkspaceInit /\ SessionInit /\ PaymentsInit /\ WithdrawalsInit
                  /\ RevealsInit /\ GrantsInit /\ StoresInit
  BY DEF OwnersInit, DashboardInit

----------------------------------------------------------------------------
\* Who is granted.  What is shown, and what a call was begun with, fits the name in the field
\* unless it is late, and no name goes back to a key it published before.
Looked == [name : Grantees, list : Lists, late : BOOLEAN]
GrantCalls == [at : {"none", "reading", "writing", "revoking"}, name : Grantees \cup {NoGrantee},
               list : Lists \cup {"none"}, shown : Fingerprints \cup {NoKey}, here : BOOLEAN]
Key(n, l) == published[[name |-> n, list |-> l]]
Agrees(seen, n, l) == seen.late \/ (seen.name = n /\ seen.list = l /\ seen.key <= Key(n, l))
Reading(call) == call.name \in Grantees /\ call.list \in Lists /\ Agrees(call.shown, call.name, call.list)

GrantTypes ==
    /\ adding \in Lists \cup {"none"} /\ entered \in Grantees \cup {NoGrantee}
    /\ fingerprint \in Fingerprints \cup {NoKey} /\ looks \subseteq Looked
    /\ published \in [Questions -> 1..MaxPublished] /\ granting \in [Grantings -> GrantCalls]

GrantInv ==
    /\ GrantTypes
    /\ \A q \in looks : adding = "none" \/ q.late \/ (q.name = entered /\ q.list = adding)
    /\ adding = "none" \/ fingerprint = NoKey \/ Agrees(fingerprint, entered, adding)
    /\ \A g \in Grantings : granting[g].at = "reading" => Reading(granting[g])
    /\ GrantsWhoIsShown

LEMMA NoGrantTyped == NoGrant \in GrantCalls /\ Written \in GrantCalls /\ NoGrant.at = "none" /\ Written.at = "writing"
  BY DEF NoGrant, Written, GrantCalls

LEMMA GrantsInitInv == GrantsInit => GrantInv
<1> SUFFICES ASSUME GrantsInit PROVE GrantInv
  OBVIOUS
<1>1. granting \in [Grantings -> GrantCalls] /\ \A g \in Grantings : granting[g].at # "reading"
  BY NoGrantTyped DEF GrantsInit
<1>2. published \in [Questions -> 1..MaxPublished]
  BY GrantAssumptions DEF GrantsInit
<1> QED  BY <1>1, <1>2 DEF GrantsInit, GrantInv, GrantTypes, GrantsWhoIsShown

LEMMA GrantsStep == GrantInv /\ [GrantsNext]_grantVars => GrantInv'
<1> SUFFICES ASSUME GrantInv, [GrantsNext]_grantVars PROVE GrantInv'
  OBVIOUS
<1> USE DEF GrantInv, GrantTypes
<1>a. Outrun \subseteq Looked /\ \A q \in Outrun : q.late
  BY DEF Outrun, Looked
<1>b. ASSUME FormCloses, UNCHANGED <<published, grants>>, looks' \subseteq looks,
             \A g \in Grantings : granting'[g].at = "reading" => granting[g].at = "reading" /\
                 granting'[g].name = granting[g].name /\ granting'[g].list = granting[g].list
                 /\ granting'[g].shown = granting[g].shown,
             granting' \in [Grantings -> GrantCalls]
      PROVE  GrantInv'
  BY <1>b DEF FormCloses, GrantsWhoIsShown, Reading, Agrees, Key
<1>1. ASSUME NEW list \in Lists, Choose(list) PROVE GrantInv'
  BY <1>1, <1>a DEF Choose, GoesOn, GrantsWhoIsShown, Reading, Agrees, Key
<1>2. ASSUME NEW n \in Grantees \cup {NoGrantee}, Name(n) PROVE GrantInv'
  <2>1. UNCHANGED <<adding, published, granting, grants>> /\ entered' = n /\ fingerprint' = NoKey
    BY <1>2 DEF Name
  <2>2. looks' \subseteq Looked /\ \A q \in looks' : adding = "none" \/ q.late \/ (q.name = n /\ q.list = adding)
    <3>1. adding \in Lists
      BY <1>2 DEF Name
    <3>2. looks' = Outrun \cup (IF n = NoGrantee THEN {} ELSE {[name |-> n, list |-> adding, late |-> FALSE]})
      BY <1>2 DEF Name
    <3>3. CASE n = NoGrantee
      BY <1>a, <3>2, <3>3
    <3>4. CASE n # NoGrantee
      <4> DEFINE q == [name |-> n, list |-> adding, late |-> FALSE]
      <4>1. q \in Looked /\ q.name = n /\ q.list = adding
        BY <3>1, <3>4 DEF Looked
      <4>2. looks' = Outrun \cup {q}
        BY <3>2, <3>4
      <4> HIDE DEF q
      <4> QED  BY <1>a, <4>1, <4>2
    <3> QED  BY <3>3, <3>4
  <2> QED  BY <2>1, <2>2 DEF GrantsWhoIsShown, Reading, Agrees, Key
<1>3. ASSUME NEW look \in looks, Found(look) PROVE GrantInv'
  <2> DEFINE q == [name |-> look.name, list |-> look.list]
             found == [name |-> q.name, list |-> q.list, key |-> published[q], late |-> look.late]
  <2>1. /\ UNCHANGED <<adding, entered, published, granting, grants>> /\ looks' \subseteq looks
        /\ fingerprint' = NoKey \/ fingerprint' = found
    BY <1>3 DEF Found
  <2>2. look \in Looked /\ q \in Questions
    BY DEF Looked, Questions
  <2>3. found \in Fingerprints /\ found.key = Key(look.name, look.list)
    BY <2>2 DEF Key, Fingerprints, Looked
  <2>4. adding = "none" \/ Agrees(found, entered, adding)
    BY <2>2, <2>3 DEF Agrees, Fingerprints
  <2> HIDE DEF found
  <2> QED  BY <2>1, <2>3, <2>4 DEF GrantsWhoIsShown, Reading, Agrees, Key
\* A name publishes another key.
<1>4. ASSUME NEW p \in Questions, Republish(p) PROVE GrantInv'
  <2>1. UNCHANGED <<adding, entered, fingerprint, looks, granting, grants>>
    BY <1>4 DEF Republish, grantForm
  <2>2. published' \in [Questions -> 1..MaxPublished] /\ \A r \in Questions : published'[r] >= published[r]
    <3>1. published' = [published EXCEPT ![p] = published[p] + 1] /\ published[p] + 1 \in 1..MaxPublished
      BY <1>4, GrantAssumptions DEF Republish
    <3> QED  BY <3>1, GrantAssumptions
  <2>3. \A n \in Grantees, l \in Lists : Key(n, l)' >= Key(n, l) /\ Key(n, l) \in Nat /\ Key(n, l)' \in Nat
    <3> TAKE n \in Grantees, l \in Lists
    <3> DEFINE r == [name |-> n, list |-> l]
    <3>1. r \in Questions
      BY DEF Questions
    <3>2. Key(n, l) = published[r] /\ Key(n, l)' = published'[r]
      BY DEF Key
    <3> HIDE DEF r
    <3> QED  BY <2>2, <3>1, <3>2, GrantAssumptions
  <2>4. ASSUME NEW seen \in Fingerprints, NEW n \in Grantees, NEW l \in Lists, Agrees(seen, n, l)
        PROVE  Agrees(seen, n, l)'
    BY <2>3, <2>4, GrantAssumptions DEF Agrees, Fingerprints
  <2>5. ASSUME NEW g \in Grantings, granting[g].at = "reading" PROVE Reading(granting[g])'
    <3>1. granting[g].shown \in Fingerprints
      <4>1. /\ granting[g].shown \in Fingerprints \cup {NoKey}
            /\ granting[g].shown.late \/ granting[g].shown.name \in Grantees
        BY <2>5 DEF GrantCalls, Reading, Agrees
      <4> QED  BY <4>1, GrantAssumptions DEF NoKey
    <3>2. Reading(granting[g]) /\ granting'[g] = granting[g]
      BY <2>1, <2>5
    <3>3. Agrees(granting[g].shown, granting[g].name, granting[g].list)'
      BY <2>1, <2>4, <3>1, <3>2 DEF Reading
    <3> QED  BY <2>1, <3>2, <3>3 DEF Reading
  <2>6. adding = "none" \/ fingerprint = NoKey \/ Agrees(fingerprint, entered, adding)'
    <3> SUFFICES ASSUME adding # "none", fingerprint # NoKey PROVE Agrees(fingerprint, entered, adding)'
      OBVIOUS
    <3>1. fingerprint \in Fingerprints /\ adding \in Lists /\ Agrees(fingerprint, entered, adding)
      OBVIOUS
    <3>2. CASE fingerprint.late
      BY <2>1, <3>2 DEF Agrees
    <3>3. CASE ~fingerprint.late
      <4>1. entered \in Grantees
        BY <3>1, <3>3 DEF Agrees, Fingerprints
      <4> QED  BY <2>1, <2>4, <3>1, <4>1
    <3> QED  BY <3>2, <3>3
  <2> QED  BY <2>1, <2>2, <2>5, <2>6 DEF GrantsWhoIsShown
<1>5. ASSUME NEW g \in Grantings, SubmitGrant(g) PROVE GrantInv'
  <2> DEFINE r == [at |-> "reading", name |-> entered, list |-> adding, shown |-> fingerprint, here |-> TRUE]
  <2>1. /\ UNCHANGED <<grantForm, looks, published, grants>> /\ granting' = [granting EXCEPT ![g] = r]
        /\ adding # "none" /\ entered # NoGrantee /\ fingerprint # NoKey
    BY <1>5 DEF SubmitGrant, CallsFor
  <2>2. r \in GrantCalls /\ Reading(r)
    BY <2>1 DEF GrantCalls, Reading
  <2> HIDE DEF r
  <2> QED  BY <2>1, <2>2 DEF grantForm, GrantsWhoIsShown, Reading, Agrees, Key
<1>6. ASSUME NEW g \in Grantings, GrantReads(g) PROVE GrantInv'
  <2> DEFINE call == granting[g]
             added == [name |-> call.name, list |-> call.list, key |-> Key(call.name, call.list), shown |-> call.shown]
  <2>1. /\ UNCHANGED <<grantForm, looks, published>> /\ Reading(call)
        /\ grants' = grants \cup {added}
        /\ granting' = [granting EXCEPT ![g] = IF call.here THEN Written ELSE NoGrant]
    BY <1>6 DEF GrantReads, Key
  <2>2. added.shown.late \/ (added.shown.name = added.name /\ added.shown.list = added.list /\ added.shown.key <= added.key)
    BY <2>1 DEF Reading, Agrees
  <2>3. GrantsWhoIsShown'
    BY <2>1, <2>2 DEF GrantsWhoIsShown
  <2> HIDE DEF added
  <2>4. granting' \in [Grantings -> GrantCalls]
        /\ \A h \in Grantings : granting'[h].at = "reading" => granting'[h] = granting[h]
    BY <2>1, NoGrantTyped
  <2> QED  BY <2>1, <2>3, <2>4 DEF grantForm, Reading, Agrees, Key
<1>7. ASSUME NEW g \in Grantings, Revoke(g) PROVE GrantInv'
  <2> DEFINE r == [at |-> "revoking", name |-> NoGrantee, list |-> "none", shown |-> NoKey, here |-> TRUE]
  <2>1. UNCHANGED <<grantForm, looks, published, grants>> /\ granting' = [granting EXCEPT ![g] = r]
    BY <1>7 DEF Revoke, CallsFor
  <2>2. r \in GrantCalls /\ r.at # "reading"
    BY DEF GrantCalls
  <2> HIDE DEF r
  <2> QED  BY <2>1, <2>2 DEF grantForm, GrantsWhoIsShown, Reading, Agrees, Key
<1>8. ASSUME NEW g \in Grantings, GrantEnds(g) PROVE GrantInv'
  <2>1. granting' = [granting EXCEPT ![g] = NoGrant] /\ UNCHANGED <<looks, published, grants>>
        /\ (FormCloses \/ UNCHANGED grantForm)
    BY <1>8 DEF GrantEnds
  <2>2. granting' \in [Grantings -> GrantCalls]
        /\ \A h \in Grantings : granting'[h].at = "reading" => granting'[h] = granting[h]
    BY <2>1, NoGrantTyped
  <2>3. CASE FormCloses
    BY <1>b, <2>1, <2>2, <2>3
  <2>4. CASE UNCHANGED grantForm
    BY <2>1, <2>2, <2>4 DEF grantForm, GrantsWhoIsShown, Reading, Agrees, Key
  <2> QED  BY <2>1, <2>3, <2>4
<1>9. CASE Reopen
  <2>1. FormCloses /\ looks' = {} /\ UNCHANGED <<published, grants>>
        /\ granting' = [g \in Grantings |-> IF granting[g].at = "reading" THEN [granting[g] EXCEPT !.here = FALSE]
                                            ELSE NoGrant]
    BY <1>9 DEF Reopen
  <2>2. ASSUME NEW g \in Grantings
        PROVE  /\ granting'[g] \in GrantCalls
               /\ granting'[g].at = "reading" =>
                      /\ granting[g].at = "reading" /\ granting'[g].name = granting[g].name
                      /\ granting'[g].list = granting[g].list /\ granting'[g].shown = granting[g].shown
    <3>1. granting[g] \in GrantCalls
      OBVIOUS
    <3>2. [granting[g] EXCEPT !.here = FALSE] \in GrantCalls
      BY <3>1 DEF GrantCalls
    <3> QED  BY <2>1, <3>1, <3>2, NoGrantTyped DEF GrantCalls
  <2>3. granting' \in [Grantings -> GrantCalls]
    BY <2>1, <2>2
  <2> QED  BY <1>b, <2>1, <2>2, <2>3
<1>10. CASE UNCHANGED grantVars
  BY <1>10 DEF grantVars, grantForm, GrantsWhoIsShown, Reading, Agrees, Key
<1> QED  BY <1>1, <1>2, <1>3, <1>4, <1>5, <1>6, <1>7, <1>8, <1>9, <1>10 DEF GrantsNext

----------------------------------------------------------------------------
\* What the value panel shows.  While no call of the panel crosses another, it has one at
\* most, and what that brings is no older than what the panel was told.
ViewerTypes == [kind : {"none", "reveal", "replace"}, at : {"idle", "unlocking", "ready", "done"},
                view : Nat, got : Nat]

RevealInv ==
    /\ version \in Nat /\ revealed \in Nat /\ confirmed \in 0..version /\ view \in Nat
    /\ viewer \in [Viewers -> ViewerTypes]
    /\ \A v \in Viewers : viewer[v].got <= version /\ viewer[v].view <= view
    /\ ~crossing => /\ \A v, w \in Ours : v = w
                    /\ \A v \in Ours : viewer[v].at = "done" => viewer[v].got >= confirmed
                    /\ revealed # 0 => revealed >= confirmed

LEMMA RevealsInitInv == RevealsInit => RevealInv
  BY DEF RevealsInit, RevealInv, ViewerTypes, NoView, Looking, Ours

LEMMA BeginsReveal == ASSUME RevealInv, NEW v \in Viewers, NEW kind \in {"reveal", "replace"}, Begins(v, kind)
                      PROVE  RevealInv'
<1>1. viewer' \in [Viewers -> ViewerTypes] /\ viewer'[v].got = 0 /\ viewer'[v].at = "unlocking"
      /\ viewer'[v].view = view /\ \A w \in Viewers \ {v} : viewer'[w] = viewer[w]
  BY DEF Begins, RevealInv, ViewerTypes
<1>2. /\ version' = version /\ revealed' = revealed /\ confirmed' = confirmed /\ view' = view
  BY DEF Begins
<1>3. Ours' \subseteq Ours \cup {v}
  BY <1>1, <1>2 DEF Looking, Ours
<1>4. ~crossing' => ~crossing /\ Ours' \subseteq {v}
  BY <1>3 DEF Begins, RevealInv
<1> QED  BY <1>1, <1>2, <1>4 DEF RevealInv

LEMMA RevealsStep == RevealInv /\ [RevealsNext]_revealVars => RevealInv'
<1> SUFFICES ASSUME RevealInv, [RevealsNext]_revealVars PROVE RevealInv'
  OBVIOUS
<1> USE DEF RevealInv, Looking, Ours, ViewerTypes
<1>1. ASSUME NEW v \in Viewers, Reveal(v) \/ Replace(v) PROVE RevealInv'
  BY <1>1, BeginsReveal DEF Reveal, Replace
<1>2. ASSUME NEW v \in Viewers, Ready(v) PROVE RevealInv'
  BY <1>2 DEF Ready
<1>3. ASSUME NEW v \in Viewers, ReadsValue(v) PROVE RevealInv'
  <2>1. /\ viewer' \in [Viewers -> ViewerTypes] /\ viewer'[v].got = version /\ viewer'[v].view = viewer[v].view
        /\ \A w \in Viewers \ {v} : viewer'[w] = viewer[w]
    BY <1>3 DEF ReadsValue
  <2>2. UNCHANGED <<version, confirmed, revealed, view, crossing>> /\ v \in Looking
    BY <1>3 DEF ReadsValue
  <2>3. Ours' \subseteq Ours
    BY <2>1, <2>2
  <2> QED  BY <2>1, <2>2, <2>3
<1>4. ASSUME NEW v \in Viewers, StoresValue(v) PROVE RevealInv'
  <2>1. /\ viewer' \in [Viewers -> ViewerTypes] /\ viewer'[v].got = version + 1 /\ viewer'[v].view = viewer[v].view
        /\ \A w \in Viewers \ {v} : viewer'[w] = viewer[w]
    BY <1>4 DEF StoresValue
  <2>2. UNCHANGED <<confirmed, revealed, view, crossing>> /\ version' = version + 1 /\ v \in Looking
    BY <1>4 DEF StoresValue
  <2>3. Ours' \subseteq Ours
    BY <2>1, <2>2
  <2> QED  BY <2>1, <2>2, <2>3
<1>5. ASSUME NEW v \in Viewers, viewer' = [viewer EXCEPT ![v] = NoView]
      PROVE  /\ viewer' \in [Viewers -> ViewerTypes]
             /\ \A w \in Viewers : viewer'[w].got <= version /\ viewer'[w].view <= view
             /\ view' = view => Ours' \subseteq Ours \ {v}
             /\ \A w \in Viewers \ {v} : viewer'[w] = viewer[w]
  BY <1>5 DEF NoView
<1>6. ASSUME NEW v \in Viewers, ShowsValue(v) PROVE RevealInv'
  <2> DEFINE here == viewing /\ viewer[v].view = view
  <2>1. /\ viewer' = [viewer EXCEPT ![v] = NoView] /\ viewer[v].at = "done"
        /\ revealed' = (IF here THEN viewer[v].got ELSE revealed)
        /\ confirmed' = (IF here /\ viewer[v].kind = "replace" THEN viewer[v].got ELSE confirmed)
        /\ UNCHANGED <<version, view, crossing>>
    BY <1>6 DEF ShowsValue
  <2>2. viewer[v].got \in 0..version
    OBVIOUS
  <2>3. Ours' \subseteq Ours \ {v} /\ (here => v \in Ours)
    BY <1>5, <2>1
  <2>4. ~crossing /\ here => Ours' = {} /\ viewer[v].got >= confirmed
    BY <2>1, <2>3
  <2> HIDE DEF here
  <2>5. CASE here
    <3>1. revealed' = viewer[v].got /\ confirmed' \in {confirmed, viewer[v].got} /\ UNCHANGED <<version, view, crossing>>
      BY <2>1, <2>5
    <3>2. ~crossing' => Ours' = {} /\ revealed' >= confirmed'
      BY <2>2, <2>4, <2>5, <3>1
    <3>3. viewer' \in [Viewers -> ViewerTypes] /\ \A w \in Viewers : viewer'[w].got <= version /\ viewer'[w].view <= view
      BY <1>5, <2>1
    <3>4. revealed' \in Nat /\ confirmed' \in 0..version
      BY <2>2, <3>1
    <3> QED  BY <3>1, <3>2, <3>3, <3>4
  <2>6. CASE ~here
    BY <1>5, <2>1, <2>3, <2>6
  <2> QED  BY <2>5, <2>6
<1>7. ASSUME NEW v \in Viewers, ViewFails(v) PROVE RevealInv'
  <2>1. viewer' = [viewer EXCEPT ![v] = NoView] /\ UNCHANGED <<version, confirmed, revealed, view, crossing>>
    BY <1>7 DEF ViewFails
  <2> QED  BY <1>5, <2>1
<1>8. CASE OpenPanel
  <2>1. /\ view' = view + 1 /\ revealed' = 0 /\ confirmed' = 0 /\ UNCHANGED <<version, viewer>>
    BY <1>8 DEF OpenPanel
  <2>2. Ours' = {}
    BY <2>1
  <2> QED  BY <2>1, <2>2
<1>9. CASE ClosePanel \/ KeyLocks
  BY <1>9 DEF ClosePanel, KeyLocks
<1>10. CASE Hide
  BY <1>10 DEF Hide
<1>11. CASE UNCHANGED revealVars
  BY <1>11 DEF revealVars
<1> QED  BY <1>1, <1>2, <1>3, <1>4, <1>6, <1>7, <1>8, <1>9, <1>10, <1>11 DEF RevealsNext

LEMMA RevealsShow == RevealInv => ShowsTheLatest
  BY DEF RevealInv, ShowsTheLatest, Value

----------------------------------------------------------------------------
\* What the forms store.  A call carries what was submitted; one of the form that is open
\* carries what the form shows, unless a field changed under it; and one that may write
\* without being asked to replace has found nothing there, unless another took the name since.
StoreCalls == [at : {"none", "checking", "writing"}, entry : Entry, sent : Entry, shown : Entry,
               overwrite : BOOLEAN, here : BOOLEAN, edited : BOOLEAN, raced : BOOLEAN]

CallAgrees(call) ==
    /\ call.entry = call.sent
    /\ call.edited \/ call.entry = call.shown
    /\ call.here /\ ~call.overwrite => call.edited \/ call.entry = entry
    /\ call.at = "writing" => call.overwrite \/ call.raced \/ call.entry.target \notin live

StoreInv ==
    /\ entry \in Entry /\ conflict \in Entry /\ {drifted, busy} \subseteq BOOLEAN
    /\ storing \in [Storings -> StoreCalls] /\ \A s \in Storings : CallAgrees(storing[s])
    /\ conflict # Empty => conflict = origin /\ (drifted \/ conflict = entry)
    /\ ReplacesWhatWasAsked

LEMMA DoneTyped == /\ Empty \in Entry /\ Done \in StoreCalls /\ CallAgrees(Done) /\ CallAgrees(Done)'
                   /\ Done.here = FALSE /\ Done.at = "none"
  BY StoreAssumptions DEF Done, Empty, Entry, StoreCalls, CallAgrees

LEMMA StoresInitInv == StoresInit => StoreInv
<1> SUFFICES ASSUME StoresInit PROVE StoreInv
  OBVIOUS
<1>1. ReplacesWhatWasAsked
  BY DEF StoresInit, Nothing, ReplacesWhatWasAsked
<1>2. storing \in [Storings -> StoreCalls] /\ \A s \in Storings : CallAgrees(storing[s])
  BY DoneTyped DEF StoresInit
<1> QED  BY <1>1, <1>2, DoneTyped DEF StoresInit, StoreInv

\* The form is closed: what is out goes on without it.
LEMMA UnseenAgrees ==
  ASSUME NEW call \in StoreCalls, CallAgrees(call),
         call.at = "writing" => call.raced \/ call.overwrite \/ call.entry.target \notin live'
  PROVE  Unseen(call) \in StoreCalls /\ CallAgrees(Unseen(call))'
<1>1. CASE call.at = "none"
  BY <1>1, DoneTyped DEF Unseen
<1>2. CASE call.at # "none"
  <2> DEFINE r == [call EXCEPT !.here = FALSE]
  <2>1. /\ r \in StoreCalls /\ r.here = FALSE /\ r.at = call.at /\ r.entry = call.entry /\ r.sent = call.sent
        /\ r.shown = call.shown /\ r.overwrite = call.overwrite /\ r.edited = call.edited /\ r.raced = call.raced
    BY DEF StoreCalls
  <2>2. Unseen(call) = r
    BY <1>2 DEF Unseen
  <2> HIDE DEF r
  <2> QED  BY <2>1, <2>2 DEF CallAgrees
<1> QED  BY <1>1, <1>2

\* A field changes: the calls that were not asked to replace are no longer what the form shows.
LEMMA ChangedAgrees ==
  ASSUME StoreInv, NEW e \in Entry, Changes(e)
  PROVE  storing' \in [Storings -> StoreCalls] /\ \A s \in Storings : CallAgrees(storing[s])'
<1>1. ASSUME NEW s \in Storings PROVE storing'[s] \in StoreCalls /\ CallAgrees(storing[s])'
  <2> DEFINE call == storing[s]
             r == [call EXCEPT !.edited = TRUE]
  <2>1. call \in StoreCalls /\ CallAgrees(call) /\ live' = live /\ entry' = e
    BY DEF StoreInv, Changes
  <2>2. storing'[s] = IF call.here /\ ~call.overwrite THEN r ELSE call
    BY DEF Changes
  <2>3. /\ r \in StoreCalls /\ r.edited /\ r.at = call.at /\ r.entry = call.entry /\ r.sent = call.sent
        /\ r.overwrite = call.overwrite /\ r.raced = call.raced
    BY <2>1 DEF StoreCalls
  <2> HIDE DEF r, call
  <2>4. CASE call.here /\ ~call.overwrite
    BY <2>1, <2>2, <2>3, <2>4 DEF CallAgrees
  <2>5. CASE ~(call.here /\ ~call.overwrite)
    BY <2>1, <2>2, <2>5 DEF CallAgrees
  <2> QED  BY <2>4, <2>5
<1>2. storing' = [s \in Storings |-> storing'[s]]
  BY DEF Changes
<1> QED  BY <1>1, <1>2

\* The offer goes with a change of one field, and stands over one of another.
LEMMA ChangesStep ==
  ASSUME StoreInv, NEW e \in Entry, Changes(e), NoOffer \/ Leaves, ReplacesWhatWasAsked'
  PROVE  StoreInv'
<1>1. entry' = e /\ UNCHANGED <<busy, live>>
  BY DEF Changes
<1>2. storing' \in [Storings -> StoreCalls] /\ \A s \in Storings : CallAgrees(storing[s])'
  BY ChangedAgrees
<1>3. conflict' \in Entry /\ drifted' \in BOOLEAN
      /\ (conflict' # Empty => conflict' = origin' /\ (drifted' \/ conflict' = entry'))
  BY DoneTyped DEF StoreInv, NoOffer, Leaves
<1> QED  BY <1>1, <1>2, <1>3 DEF StoreInv

\* A call begins, with what was submitted and what the form shows.
LEMMA StoreStep ==
  ASSUME StoreInv, NEW s \in Storings, NEW e \in Entry, NEW sent \in Entry, NEW overwrite \in BOOLEAN, NEW edited \in BOOLEAN,
         Store(s, e, sent, overwrite, edited), NoOffer \/ UNCHANGED offer, e = sent, edited \/ e = entry,
         ReplacesWhatWasAsked'
  PROVE  StoreInv'
<1> DEFINE r == [at |-> "checking", entry |-> e, sent |-> sent, shown |-> entry, overwrite |-> overwrite,
                 here |-> TRUE, edited |-> edited, raced |-> FALSE]
<1>1. storing' = [storing EXCEPT ![s] = r] /\ busy' = TRUE /\ UNCHANGED <<entry, live>>
  BY DEF Store
<1>2. r \in StoreCalls /\ CallAgrees(r)'
  BY <1>1 DEF StoreCalls, CallAgrees, StoreInv
<1>0. r' = r
  BY <1>1
<1> HIDE DEF r
<1>3. conflict' \in Entry /\ drifted' \in BOOLEAN
      /\ (conflict' # Empty => conflict' = origin' /\ (drifted' \/ conflict' = entry'))
  BY <1>1, DoneTyped DEF StoreInv, NoOffer, offer
<1>4. storing' \in [Storings -> StoreCalls]
  BY <1>1, <1>2 DEF StoreInv
<1>5. ASSUME NEW t \in Storings PROVE CallAgrees(storing[t])'
  <2>1. CASE t = s
    <3>1. storing'[t] = r
      BY <1>1, <2>1 DEF StoreInv
    <3> QED  BY <1>0, <1>2, <3>1
  <2>2. CASE t # s
    <3>1. storing'[t] = storing[t] /\ CallAgrees(storing[t])
      BY <1>1, <2>2 DEF StoreInv
    <3> QED  BY <1>1, <3>1 DEF CallAgrees
  <2> QED  BY <2>1, <2>2
<1> QED  BY <1>1, <1>3, <1>4, <1>5 DEF StoreInv

\* A transaction is mined: those that have checked the same name are raced.
LEMMA RivalsAgree ==
  ASSUME StoreInv, NEW s \in Storings, live' = live \cup {storing[s].entry.target}
  PROVE  \A t \in Storings :
             /\ Rivals(s)[t] \in StoreCalls /\ CallAgrees(Rivals(s)[t])
             /\ Rivals(s)[t].at = "writing" => Rivals(s)[t].raced \/ Rivals(s)[t].overwrite
                                               \/ Rivals(s)[t].entry.target \notin live'
<1> TAKE t \in Storings
<1> DEFINE call == storing[t]
           r == [call EXCEPT !.raced = TRUE]
<1>1. call \in StoreCalls /\ CallAgrees(call)
  BY DEF StoreInv
<1>2. Rivals(s)[t] = IF t = s THEN Done ELSE IF Races(s, t) THEN r ELSE call
  BY DEF Rivals
<1>3. /\ r \in StoreCalls /\ r.raced /\ r.at = call.at /\ r.entry = call.entry /\ r.sent = call.sent
      /\ r.shown = call.shown /\ r.overwrite = call.overwrite /\ r.edited = call.edited /\ r.here = call.here
  BY <1>1 DEF StoreCalls
<1>4. r \in StoreCalls /\ CallAgrees(r) /\ r.raced
  BY <1>1, <1>3 DEF CallAgrees
<1>5. ~Races(s, t) => call.at # "writing" \/ call.entry.target # storing[s].entry.target
  BY DEF Races
<1> HIDE DEF r, call
<1>6. CASE t = s
  BY <1>2, <1>6, DoneTyped
<1>7. CASE t # s /\ Races(s, t)
  BY <1>2, <1>4, <1>7
<1>8. CASE t # s /\ ~Races(s, t)
  BY <1>1, <1>2, <1>5, <1>8 DEF CallAgrees
<1> QED  BY <1>6, <1>7, <1>8

\* A step that replaces nothing.
LEMMA NothingAgrees == replaced' = Nothing => ReplacesWhatWasAsked'
  BY DEF Nothing, ReplacesWhatWasAsked

\* What it replaces, if anything, is as it was asked.
LEMMA MinedReplaces ==
  ASSUME StoreInv, NEW s \in Storings, Mined(s)
  PROVE  ReplacesWhatWasAsked'
<1> DEFINE call == storing[s]
           r == [asked |-> call.overwrite, raced |-> call.raced, edited |-> call.edited,
                 entry |-> call.entry, sent |-> call.sent, shown |-> call.shown]
<1>1. call.at = "writing" /\ CallAgrees(call)
  BY DEF Mined, StoreInv
<1>2. replaced' = IF call.entry.target \notin live THEN Nothing ELSE r
  BY DEF Mined
<1>3. CASE call.entry.target \notin live
  BY <1>2, <1>3, NothingAgrees
<1>4. CASE call.entry.target \in live
  BY <1>1, <1>2, <1>4 DEF CallAgrees, ReplacesWhatWasAsked
<1> QED  BY <1>3, <1>4

\* Every call goes on without the form.
LEMMA ClosedStep ==
  ASSUME StoreInv, Closed, ReplacesWhatWasAsked',
         NEW f \in [Storings -> StoreCalls], storing' = [t \in Storings |-> Unseen(f[t])],
         \A t \in Storings : CallAgrees(f[t]) /\ (f[t].at = "writing" => f[t].raced \/ f[t].overwrite \/ f[t].entry.target \notin live')
  PROVE  StoreInv'
<1>1. entry' = Empty /\ conflict' = Empty /\ drifted' = FALSE /\ busy' = FALSE
  BY DEF Closed, NoOffer
<1>2. ASSUME NEW t \in Storings PROVE storing'[t] \in StoreCalls /\ CallAgrees(storing[t])'
  <2>1. f[t] \in StoreCalls /\ storing'[t] = Unseen(f[t])
    OBVIOUS
  <2> QED  BY <2>1, UnseenAgrees
<1>3. storing' \in [Storings -> StoreCalls]
  BY <1>2
<1> QED  BY <1>1, <1>2, <1>3, DoneTyped DEF StoreInv

LEMMA StoresStep == StoreInv /\ [StoresNext]_storeVars => StoreInv'
<1> SUFFICES ASSUME StoreInv, [StoresNext]_storeVars PROVE StoreInv'
  OBVIOUS
<1>0. ASSUME UNCHANGED <<entry, busy, conflict, drifted, origin, storing, live>>, ReplacesWhatWasAsked' PROVE StoreInv'
  BY <1>0 DEF StoreInv, CallAgrees
<1>1. ASSUME NEW p \in Panels, OpenForm(p), ReplacesWhatWasAsked' PROVE StoreInv'
  BY <1>0, <1>1 DEF OpenForm, offer
<1>2. ASSUME CloseForm, ReplacesWhatWasAsked' PROVE StoreInv'
  <2>1. /\ Closed /\ storing' = [s \in Storings |-> Unseen(storing[s])] /\ UNCHANGED live
        /\ storing \in [Storings -> StoreCalls]
    BY <1>2 DEF CloseForm, StoreInv
  <2>3. \A t \in Storings : /\ CallAgrees(storing[t])
                            /\ storing[t].at = "writing" => storing[t].raced \/ storing[t].overwrite
                                                            \/ storing[t].entry.target \notin live'
    BY <2>1 DEF StoreInv, CallAgrees
  <2> QED  BY <1>2, <2>1, <2>3, ClosedStep
<1>3. ASSUME RefuseEntry, ReplacesWhatWasAsked' PROVE StoreInv'
  <2>1. conflict' = Empty /\ drifted' = FALSE /\ UNCHANGED <<entry, busy, storing, live>>
    BY <1>3 DEF RefuseEntry, NoOffer, storeForm
  <2>2. \A s \in Storings : CallAgrees(storing[s])'
    BY <2>1 DEF StoreInv, CallAgrees
  <2> QED  BY <1>3, <2>1, <2>2, DoneTyped DEF StoreInv
<1>4. ASSUME NEW t \in Targets \cup {NoTarget}, FillTarget(t), ReplacesWhatWasAsked' PROVE StoreInv'
  <2> DEFINE e == [entry EXCEPT !.target = t]
  <2>1. e \in Entry
    BY DEF StoreInv, Entry
  <2>2. Changes(e) /\ (NoOffer \/ Leaves)
    BY <1>4 DEF FillTarget
  <2> HIDE DEF e
  <2> QED  BY <1>4, <2>1, <2>2, ChangesStep
<1>5. ASSUME NEW t \in Targets, SuggestAgain(t), ReplacesWhatWasAsked' PROVE StoreInv'
  <2> DEFINE e == [entry EXCEPT !.target = t]
  <2>1. e \in Entry
    BY DEF StoreInv, Entry
  <2>2. Changes(e) /\ (NoOffer \/ Leaves)
    BY <1>5 DEF SuggestAgain
  <2> HIDE DEF e
  <2> QED  BY <1>5, <2>1, <2>2, ChangesStep
<1>6. ASSUME NEW v \in Values \cup {NoValue}, NEW t \in Targets \cup {NoTarget}, FillSetupKey(v, t), ReplacesWhatWasAsked' PROVE StoreInv'
  <2> DEFINE e == [entry EXCEPT !.value = v, !.target = t]
  <2>1. e \in Entry
    BY DEF StoreInv, Entry
  <2>2. Changes(e) /\ (NoOffer \/ Leaves)
    BY <1>6 DEF FillSetupKey
  <2> HIDE DEF e
  <2> QED  BY <1>6, <2>1, <2>2, ChangesStep
<1>7. ASSUME NEW d \in Details, NEW t \in Targets \cup {NoTarget}, FillSite(d, t), ReplacesWhatWasAsked' PROVE StoreInv'
  <2> DEFINE e == [entry EXCEPT !.detail = d, !.target = t]
  <2>1. e \in Entry
    BY DEF StoreInv, Entry
  <2>2. Changes(e) /\ (NoOffer \/ Leaves)
    BY <1>7 DEF FillSite
  <2> HIDE DEF e
  <2> QED  BY <1>7, <2>1, <2>2, ChangesStep
<1>8. ASSUME NEW v \in Values \cup {NoValue}, NEW d \in Details, FillValue(v, d), ReplacesWhatWasAsked' PROVE StoreInv'
  <2> DEFINE e == [entry EXCEPT !.value = v, !.detail = d]
  <2>1. e \in Entry
    BY DEF StoreInv, Entry
  <2>2. Changes(e) /\ (NoOffer \/ Leaves)
    BY <1>8 DEF FillValue
  <2> HIDE DEF e
  <2> QED  BY <1>8, <2>1, <2>2, ChangesStep
<1>9. ASSUME NEW s \in Storings, SubmitEntry(s), ReplacesWhatWasAsked' PROVE StoreInv'
  <2>1. entry \in Entry
    BY DEF StoreInv
  <2> QED  BY <1>9, <2>1, StoreStep DEF SubmitEntry
<1>10. ASSUME NEW s \in Storings, ReplaceIt(s), ReplacesWhatWasAsked' PROVE StoreInv'
  <2>1. /\ conflict \in Entry /\ origin = conflict /\ drifted \in BOOLEAN /\ (drifted \/ conflict = entry)
    BY <1>10 DEF StoreInv, ReplaceIt
  <2> QED  BY <1>10, <2>1, StoreStep DEF ReplaceIt
<1>11. ASSUME NEW s \in Storings, NEW r \in StoreCalls, CallAgrees(r), storing' = [storing EXCEPT ![s] = r],
              UNCHANGED <<live, entry>>
       PROVE  storing' \in [Storings -> StoreCalls] /\ \A t \in Storings : CallAgrees(storing[t])'
  <2>1. storing' \in [Storings -> StoreCalls]
    BY <1>11 DEF StoreInv
  <2>2. ASSUME NEW t \in Storings PROVE CallAgrees(storing'[t])
    BY <1>11 DEF StoreInv
  <2> QED  BY <1>11, <2>1, <2>2 DEF CallAgrees
<1>12. ASSUME NEW s \in Storings, Conflicts(s), ReplacesWhatWasAsked' PROVE StoreInv'
  <2> DEFINE call == storing[s]
  <2>1. /\ conflict' = (IF call.here THEN call.entry ELSE conflict) /\ drifted' = (IF call.here THEN call.edited ELSE drifted)
        /\ origin' = (IF call.here THEN call.sent ELSE origin) /\ busy' = (busy /\ ~call.here) /\ ~call.overwrite
        /\ storing' = [storing EXCEPT ![s] = Done] /\ UNCHANGED <<entry, live>>
    BY <1>12 DEF Conflicts
  <2>2. storing' \in [Storings -> StoreCalls] /\ \A t \in Storings : CallAgrees(storing[t])'
    BY <1>11, <2>1, DoneTyped
  <2>3. call \in StoreCalls /\ CallAgrees(call)
    BY DEF StoreInv
  <2> HIDE DEF call
  <2>4. conflict' \in Entry /\ drifted' \in BOOLEAN /\ busy' \in BOOLEAN
        /\ (conflict' # Empty => conflict' = origin' /\ (drifted' \/ conflict' = entry'))
    BY <2>1, <2>3 DEF StoreInv, StoreCalls, CallAgrees
  <2> QED  BY <1>12, <2>1, <2>2, <2>4 DEF StoreInv
<1>13. ASSUME NEW s \in Storings, MayStore(s), ReplacesWhatWasAsked' PROVE StoreInv'
  <2> DEFINE call == storing[s]
             r == [call EXCEPT !.at = "writing"]
  <2>1. /\ call.overwrite \/ call.entry.target \notin live
        /\ storing' = [storing EXCEPT ![s] = r] /\ UNCHANGED <<storeForm, offer, live>>
    BY <1>13 DEF MayStore
  <2>2. call \in StoreCalls /\ CallAgrees(call)
    BY DEF StoreInv
  <2>3. r \in StoreCalls /\ CallAgrees(r)
    BY <2>1, <2>2 DEF StoreCalls, CallAgrees
  <2> HIDE DEF r
  <2>4. storing' \in [Storings -> StoreCalls] /\ \A t \in Storings : CallAgrees(storing[t])'
    BY <1>11, <2>1, <2>3 DEF storeForm
  <2> QED  BY <1>13, <2>1, <2>4 DEF StoreInv, storeForm, offer
<1>14. ASSUME NEW s \in Storings PROVE Rivals(s) \in [Storings -> StoreCalls] \/ ~Mined(s)
  <2> SUFFICES ASSUME Mined(s) PROVE Rivals(s) \in [Storings -> StoreCalls]
    OBVIOUS
  <2>1. live' = live \cup {storing[s].entry.target}
    BY DEF Mined
  <2>2. Rivals(s) = [t \in Storings |-> Rivals(s)[t]]
    BY DEF Rivals
  <2> QED  BY <2>1, <2>2, RivalsAgree
<1>15. ASSUME NEW s \in Storings, EntryStored(s) PROVE StoreInv'
  <2> DEFINE f == Rivals(s)
  <2>1. /\ Mined(s) /\ Closed /\ storing' = [t \in Storings |-> Unseen(f[t])]
        /\ live' = live \cup {storing[s].entry.target}
    BY <1>15 DEF EntryStored, Mined
  <2>2. f \in [Storings -> StoreCalls] /\ ReplacesWhatWasAsked'
    BY <1>14, <2>1, MinedReplaces
  <2>3. \A t \in Storings : CallAgrees(f[t]) /\ (f[t].at = "writing" => f[t].raced \/ f[t].overwrite \/ f[t].entry.target \notin live')
    BY <2>1, RivalsAgree
  <2> HIDE DEF f
  <2> QED  BY <2>1, <2>2, <2>3, ClosedStep
<1>16. ASSUME NEW s \in Storings, StoreFails(s) PROVE StoreInv'
  <2>1. UNCHANGED <<entry, offer>> /\ busy' \in BOOLEAN
    BY <1>16 DEF StoreFails, StoreInv, StoreCalls
  <2>2. CASE Mined(s) /\ storing' = Rivals(s)
    <3>1. live' = live \cup {storing[s].entry.target} /\ storing' \in [Storings -> StoreCalls] /\ ReplacesWhatWasAsked'
      BY <1>14, <2>2, MinedReplaces DEF Mined
    <3>2. ASSUME NEW t \in Storings PROVE CallAgrees(storing[t])'
      <4>1. /\ CallAgrees(storing'[t])
            /\ storing'[t].at = "writing" => storing'[t].raced \/ storing'[t].overwrite \/ storing'[t].entry.target \notin live'
        BY <2>2, <3>1, RivalsAgree
      <4> QED  BY <2>1, <4>1 DEF CallAgrees
    <3> QED  BY <2>1, <3>1, <3>2 DEF StoreInv, offer
  <2>3. CASE storing' = [storing EXCEPT ![s] = Done] /\ UNCHANGED live /\ replaced' = Nothing
    <3>1. storing' \in [Storings -> StoreCalls] /\ \A t \in Storings : CallAgrees(storing[t])'
      BY <1>11, <2>1, <2>3, DoneTyped
    <3> QED  BY <2>1, <2>3, <3>1, NothingAgrees DEF StoreInv, offer
  <2> QED  BY <1>16, <2>2, <2>3 DEF StoreFails
<1>17. CASE UNCHANGED storeVars
  <2>1. ReplacesWhatWasAsked'
    BY <1>17 DEF storeVars, StoreInv, ReplacesWhatWasAsked
  <2> QED  BY <1>0, <1>17, <2>1 DEF storeVars, storeForm, offer
<1> QED  BY <1>1, <1>2, <1>3, <1>4, <1>5, <1>6, <1>7, <1>8, <1>9, <1>10, <1>12, <1>13, <1>15, <1>16, <1>17, NothingAgrees DEF StoresNext


----------------------------------------------------------------------------
\* The drawer acts on what it showed: the value, the grants and what is replaced.
THEOREM DrawerKeepsItsWord == OwnersSpec => []DrawerActsAsShown
<1>1. OwnersInit => GrantInv /\ RevealInv /\ StoreInv
  BY OwnersInits, GrantsInitInv, RevealsInitInv, StoresInitInv
<1>2. GrantInv /\ RevealInv /\ StoreInv /\ [OwnersNext]_ownersVars => (GrantInv /\ RevealInv /\ StoreInv)'
  BY OwnersSteps, GrantsStep, RevealsStep, StoresStep
<1>3. GrantInv /\ RevealInv /\ StoreInv => DrawerActsAsShown
  <2>1. GrantInv => GrantsWhoIsShown
    BY DEF GrantInv, GrantsWhoIsShown
  <2>2. StoreInv => ReplacesWhatWasAsked
    BY DEF StoreInv
  <2> QED  BY <2>1, <2>2, RevealsShow DEF DrawerActsAsShown
<1> QED  BY <1>1, <1>2, <1>3, PTL DEF OwnersSpec

----------------------------------------------------------------------------
\* The ticket that is kept.  While the provider is the one every call began under, it holds
\* the kept ticket.  While a ticket is asked for when no other call is out, nothing is kept
\* as it is asked for, and what is redeemed is the kept ticket or none is kept.
IssuedTickets == [deadline : Int, redeemed : BOOLEAN, told : BOOLEAN]
ErrandTypes == [at : {"resting", "asking", "issued", "redeeming", "redeemed"},
                by : Providers \cup {NoProvider}, ticket : Nat]

WithdrawalTypes ==
    /\ minute \in Int /\ issued \in Seq(IssuedTickets) /\ kept \in DOMAIN issued \cup {0}
    /\ provider \in Providers /\ display \in [Providers -> DOMAIN issued \cup {0}]
    /\ errand \in [Errands -> ErrandTypes]

ErrandFits(r) ==
    /\ r.at # "resting" => r.by \in Providers
    /\ r.at \in {"issued", "redeeming", "redeemed"} => r.ticket \in DOMAIN issued
    /\ r.at = "redeemed" => issued[r.ticket].redeemed

Mounted == display[provider] = kept /\ \A e \in Out : errand[e].by = provider

Unforgotten(n) == issued[n].told /\ ~issued[n].redeemed /\ Unexpired(n) => n \in waived \cup {kept}

OneTicket ==
    /\ \A e \in Errands : errand[e].at \in {"asking", "issued"} => kept = 0 /\ Out = {e}
    /\ \A e \in Errands : errand[e].at \in {"redeeming", "redeemed"} => kept \in {0, errand[e].ticket}
    /\ \A n \in DOMAIN issued : Unforgotten(n)

TicketInv ==
    /\ WithdrawalTypes /\ \A e \in Errands : ErrandFits(errand[e])
    /\ ~remounted => Mounted
    /\ ~remounted /\ ~doubled => OneTicket

LEMMA WithdrawalsInitInv == WithdrawalsInit => TicketInv
<1> SUFFICES ASSUME WithdrawalsInit PROVE TicketInv
  OBVIOUS
<1>1. Out = {} /\ \A e \in Errands : errand[e] = Resting
  BY DEF WithdrawalsInit, Out, Resting
<1>2. issued \in Seq(IssuedTickets) /\ DOMAIN issued = {}
  BY DEF WithdrawalsInit
<1> QED  BY <1>1, <1>2 DEF WithdrawalsInit, TicketInv, WithdrawalTypes, Mounted, OneTicket, ErrandFits,
               Resting, ErrandTypes, Out

\* One call is put in another state.
LEMMA PutErrand ==
  ASSUME WithdrawalTypes, NEW e \in Errands, NEW r \in ErrandTypes, errand' = [errand EXCEPT ![e] = r]
  PROVE  /\ errand' \in [Errands -> ErrandTypes] /\ errand'[e] = r
         /\ \A d \in Errands \ {e} : errand'[d] = errand[d]
         /\ Out' = IF r.at = "resting" THEN Out \ {e} ELSE Out \cup {e}
  BY DEF WithdrawalTypes, Out

\* One ticket changes.
LEMMA PutTicket ==
  ASSUME NEW n \in DOMAIN issued, issued \in Seq(IssuedTickets), NEW t \in IssuedTickets
  PROVE  LET new == [issued EXCEPT ![n] = t]
         IN  /\ new \in Seq(IssuedTickets) /\ DOMAIN new = DOMAIN issued /\ new[n] = t
             /\ \A m \in DOMAIN issued \ {n} : new[m] = issued[m]
  OBVIOUS

LEMMA TicketTyped == ASSUME WithdrawalTypes, NEW n \in DOMAIN issued PROVE issued[n] \in IssuedTickets
<1>1. issued \in Seq(IssuedTickets)
  BY DEF WithdrawalTypes
<1> QED  BY <1>1

LEMMA AskTicketInv == ASSUME TicketInv, NEW e \in Errands, AskTicket(e) PROVE TicketInv'
<1> DEFINE r == [at |-> "asking", by |-> provider, ticket |-> 0]
<1>1. /\ e \notin Out /\ display[provider] = 0 /\ errand' = [errand EXCEPT ![e] = r]
      /\ UNCHANGED <<minute, issued, kept, provider, display, waived, remounted>>
      /\ (~doubled' => ~doubled /\ Out = {})
  BY DEF AskTicket
<1>2. r \in ErrandTypes /\ r.at = "asking" /\ r.by = provider /\ provider \in Providers /\ WithdrawalTypes
  BY DEF ErrandTypes, TicketInv, WithdrawalTypes
<1> HIDE DEF r
<1>3. /\ errand' \in [Errands -> ErrandTypes] /\ errand'[e] = r
      /\ \A d \in Errands \ {e} : errand'[d] = errand[d]
      /\ Out' = Out \cup {e}
  BY <1>1, <1>2, PutErrand
<1>4. WithdrawalTypes' /\ \A d \in Errands : ErrandFits(errand[d])'
  BY <1>1, <1>2, <1>3 DEF TicketInv, WithdrawalTypes, ErrandFits
<1>5. ~remounted' => Mounted'
  BY <1>1, <1>2, <1>3 DEF TicketInv, Mounted, Out
<1>6. ~remounted' /\ ~doubled' => OneTicket'
  <2> SUFFICES ASSUME ~remounted', ~doubled' PROVE OneTicket'
    OBVIOUS
  <2>1. OneTicket /\ Mounted /\ Out' = {e} /\ kept = 0 /\ \A d \in Errands \ {e} : errand[d].at = "resting"
    BY <1>1, <1>3 DEF TicketInv, Mounted, Out
  <2>2. \A n \in DOMAIN issued' : Unforgotten(n)'
    BY <1>1, <2>1 DEF OneTicket, Unforgotten, Unexpired
  <2> QED  BY <1>1, <1>2, <1>3, <2>1, <2>2 DEF OneTicket
<1> QED  BY <1>4, <1>5, <1>6 DEF TicketInv

LEMMA RailIssuesInv == ASSUME TicketInv, NEW e \in Errands, RailIssues(e) PROVE TicketInv'
<1> DEFINE t == [deadline |-> minute + TicketLife, redeemed |-> FALSE, told |-> FALSE]
           r == [errand[e] EXCEPT !.at = "issued", !.ticket = Len(issued) + 1]
<1>1. /\ errand[e].at = "asking" /\ issued' = Append(issued, t)
      /\ errand' = [errand EXCEPT ![e] = r]
      /\ UNCHANGED <<minute, kept, provider, display, waived, doubled, remounted>>
  BY DEF RailIssues, TicketInv, WithdrawalTypes, ErrandTypes
<1>2. WithdrawalTypes /\ e \in Out /\ t \in IssuedTickets /\ ~t.told
  BY <1>1, WithdrawalAssumptions DEF TicketInv, WithdrawalTypes, Out, IssuedTickets
<1>3. /\ issued \in Seq(IssuedTickets) /\ Len(issued) \in Nat /\ issued' \in Seq(IssuedTickets)
      /\ DOMAIN issued' = DOMAIN issued \cup {Len(issued) + 1} /\ 0 \notin DOMAIN issued
      /\ issued'[Len(issued) + 1] = t /\ \A n \in DOMAIN issued : issued'[n] = issued[n]
  BY <1>1, <1>2 DEF WithdrawalTypes
<1>4. r \in ErrandTypes /\ r.at = "issued" /\ r.by = errand[e].by /\ r.ticket = Len(issued) + 1
  <2>1. errand[e] \in ErrandTypes /\ Len(issued) + 1 \in Nat
    BY <1>2 DEF WithdrawalTypes
  <2> QED  BY <2>1 DEF ErrandTypes
<1> HIDE DEF r, t
<1>5. /\ errand' \in [Errands -> ErrandTypes] /\ errand'[e] = r
      /\ \A d \in Errands \ {e} : errand'[d] = errand[d]
  BY <1>1, <1>2, <1>4, PutErrand
<1>6. Out' = Out
  <2>1. Out' = Out \cup {e}
    BY <1>1, <1>2, <1>4, PutErrand
  <2> QED  BY <1>2, <2>1
<1>7. WithdrawalTypes'
  BY <1>1, <1>3, <1>5 DEF TicketInv, WithdrawalTypes
<1>8. \A d \in Errands : ErrandFits(errand[d])'
  BY <1>1, <1>2, <1>3, <1>4, <1>5 DEF TicketInv, ErrandFits
<1>9. ~remounted' => Mounted'
  BY <1>1, <1>2, <1>4, <1>5, <1>6 DEF TicketInv, Mounted, Out
<1>10. ~remounted' /\ ~doubled' => OneTicket'
  <2> SUFFICES ASSUME ~remounted', ~doubled' PROVE OneTicket'
    OBVIOUS
  <2>1. OneTicket /\ kept = 0 /\ Out = {e} /\ \A d \in Errands \ {e} : errand[d].at = "resting"
    BY <1>1 DEF TicketInv, OneTicket, Out
  <2>2. \A n \in DOMAIN issued' : Unforgotten(n)'
    BY <1>1, <1>2, <1>3, <2>1 DEF OneTicket, Unforgotten, Unexpired
  <2> QED  BY <1>1, <1>4, <1>5, <1>6, <2>1, <2>2 DEF OneTicket
<1> QED  BY <1>7, <1>8, <1>9, <1>10 DEF TicketInv

\* A call rests.
LEMMA RestedErrand ==
  ASSUME TicketInv, NEW e \in Out, errand' = Rests(e)
  PROVE  /\ e \in Errands /\ Out' = Out \ {e} /\ errand' \in [Errands -> ErrandTypes]
         /\ \A d \in Errands \ {e} : errand'[d] = errand[d]
         /\ errand'[e].at = "resting" /\ ErrandFits(errand[e])'
<1>1. e \in Errands /\ Resting \in ErrandTypes /\ Resting.at = "resting" /\ WithdrawalTypes
  BY DEF Out, Resting, ErrandTypes, TicketInv
<1>2. errand' = [errand EXCEPT ![e] = Resting]
  BY DEF Rests
<1>3. errand'[e] = Resting /\ Out' = Out \ {e} /\ errand' \in [Errands -> ErrandTypes]
      /\ \A d \in Errands \ {e} : errand'[d] = errand[d]
  BY <1>1, <1>2, PutErrand
<1> QED  BY <1>1, <1>3 DEF ErrandFits

LEMMA ErrandFailsInv == ASSUME TicketInv, NEW e \in Errands, ErrandFails(e) PROVE TicketInv'
<1>1. e \in Out /\ errand' = Rests(e)
      /\ UNCHANGED <<minute, issued, kept, provider, display, waived, doubled, remounted>>
  BY DEF ErrandFails
<1>2. /\ Out' = Out \ {e} /\ errand' \in [Errands -> ErrandTypes]
      /\ \A d \in Errands \ {e} : errand'[d] = errand[d]
      /\ errand'[e].at = "resting" /\ ErrandFits(errand[e])'
  BY <1>1, RestedErrand
<1>3. WithdrawalTypes' /\ \A d \in Errands : ErrandFits(errand[d])'
  BY <1>1, <1>2 DEF TicketInv, WithdrawalTypes, ErrandFits
<1>4. ~remounted' => Mounted'
  BY <1>1, <1>2 DEF TicketInv, Mounted, Out
<1>5. ~remounted' /\ ~doubled' => OneTicket'
  BY <1>1, <1>2 DEF TicketInv, OneTicket, Unforgotten, Unexpired, Out
<1> QED  BY <1>3, <1>4, <1>5 DEF TicketInv

LEMMA TicketArrivesInv == ASSUME TicketInv, NEW e \in Errands, TicketArrives(e) PROVE TicketInv'
<1> DEFINE n == errand[e].ticket
           by == errand[e].by
<1>1. /\ errand[e].at = "issued" /\ e \in Out /\ errand' = Rests(e) /\ kept' = n
      /\ display' = [display EXCEPT ![by] = n] /\ issued' = [issued EXCEPT ![n].told = TRUE]
      /\ UNCHANGED <<minute, provider, waived, doubled, remounted>>
  BY DEF TicketArrives, Out
<1>2. WithdrawalTypes /\ n \in DOMAIN issued /\ by \in Providers
  BY <1>1 DEF TicketInv, ErrandFits
<1> HIDE DEF n, by
<1>3. /\ Out' = Out \ {e} /\ errand' \in [Errands -> ErrandTypes]
      /\ \A d \in Errands \ {e} : errand'[d] = errand[d]
      /\ errand'[e].at = "resting" /\ ErrandFits(errand[e])'
  BY <1>1, RestedErrand
<1>4. /\ issued' \in Seq(IssuedTickets) /\ DOMAIN issued' = DOMAIN issued
      /\ \A m \in DOMAIN issued \ {n} : issued'[m] = issued[m]
      /\ issued'[n].redeemed = issued[n].redeemed
  <2>1. issued[n] \in IssuedTickets /\ issued \in Seq(IssuedTickets)
    BY <1>2, TicketTyped DEF WithdrawalTypes
  <2> DEFINE t == [issued[n] EXCEPT !.told = TRUE]
  <2>2. t \in IssuedTickets /\ t.redeemed = issued[n].redeemed /\ issued' = [issued EXCEPT ![n] = t]
    BY <1>1, <2>1 DEF IssuedTickets
  <2> HIDE DEF t
  <2> QED  BY <1>2, <2>1, <2>2, PutTicket
<1>5. display' \in [Providers -> DOMAIN issued \cup {0}] /\ display'[by] = n
  BY <1>1, <1>2 DEF WithdrawalTypes
<1>6. WithdrawalTypes'
  BY <1>1, <1>2, <1>3, <1>4, <1>5 DEF WithdrawalTypes
<1>7. \A d \in Errands : ErrandFits(errand[d])'
  <2>1. \A m \in DOMAIN issued : issued'[m].redeemed = issued[m].redeemed
    BY <1>4
  <2>2. ASSUME NEW d \in Errands \ {e} PROVE ErrandFits(errand[d])'
    <3>1. ErrandFits(errand[d])
      BY DEF TicketInv
    <3> QED  BY <1>3, <1>4, <2>1, <3>1 DEF ErrandFits
  <2> QED  BY <1>3, <2>2
<1>8. ~remounted' => Mounted'
  <2> SUFFICES ASSUME ~remounted PROVE Mounted'
    BY <1>1
  <2>1. by = provider /\ \A d \in Out : errand[d].by = provider
    BY <1>1 DEF TicketInv, Mounted, by
  <2>2. display'[provider'] = kept'
    BY <1>1, <1>5, <2>1
  <2>3. ASSUME NEW d \in Out' PROVE errand'[d].by = provider'
    BY <1>1, <1>3, <2>1 DEF Out
  <2> QED  BY <2>2, <2>3 DEF Mounted
<1>9. ~remounted' /\ ~doubled' => OneTicket'
  <2> SUFFICES ASSUME ~remounted', ~doubled' PROVE OneTicket'
    OBVIOUS
  <2>1. OneTicket /\ kept = 0 /\ Out' = {} /\ \A d \in Errands : errand'[d].at = "resting"
    BY <1>1, <1>3 DEF TicketInv, OneTicket, Out
  <2>2. 0 \notin DOMAIN issued
    BY <1>2 DEF WithdrawalTypes
  <2>3. \A m \in DOMAIN issued : Unforgotten(m)'
    BY <1>1, <1>4, <2>1, <2>2 DEF OneTicket, Unforgotten, Unexpired
  <2> QED  BY <1>4, <2>1, <2>3 DEF OneTicket
<1> QED  BY <1>6, <1>7, <1>8, <1>9 DEF TicketInv

LEMMA BeginRedeemInv == ASSUME TicketInv, NEW e \in Errands, BeginRedeem(e) PROVE TicketInv'
<1> DEFINE r == [at |-> "redeeming", by |-> provider, ticket |-> display[provider]]
<1>1. /\ e \notin Out /\ display[provider] # 0 /\ errand' = [errand EXCEPT ![e] = r]
      /\ UNCHANGED <<minute, issued, kept, provider, display, waived, doubled, remounted>>
  BY DEF BeginRedeem
<1>2. WithdrawalTypes /\ provider \in Providers /\ display[provider] \in DOMAIN issued
  BY <1>1 DEF TicketInv, WithdrawalTypes
<1>3. r \in ErrandTypes /\ r.at = "redeeming" /\ r.by = provider /\ r.ticket = display[provider]
  <2>1. display[provider] \in Nat
    BY <1>2 DEF WithdrawalTypes
  <2> QED  BY <1>2, <2>1 DEF ErrandTypes
<1> HIDE DEF r
<1>4. /\ errand' \in [Errands -> ErrandTypes] /\ errand'[e] = r
      /\ \A d \in Errands \ {e} : errand'[d] = errand[d]
      /\ Out' = Out \cup {e}
  BY <1>1, <1>2, <1>3, PutErrand
<1>5. WithdrawalTypes' /\ \A d \in Errands : ErrandFits(errand[d])'
  BY <1>1, <1>2, <1>3, <1>4 DEF TicketInv, WithdrawalTypes, ErrandFits
<1>6. ~remounted' => Mounted'
  BY <1>1, <1>3, <1>4 DEF TicketInv, Mounted, Out
<1>7. ~remounted' /\ ~doubled' => OneTicket'
  <2> SUFFICES ASSUME ~remounted', ~doubled' PROVE OneTicket'
    OBVIOUS
  <2>1. OneTicket /\ kept = display[provider] /\ kept # 0
    BY <1>1 DEF TicketInv, Mounted
  <2>2. \A d \in Errands : errand[d].at \notin {"asking", "issued"}
    BY <2>1 DEF OneTicket
  <2>3. \A m \in DOMAIN issued : Unforgotten(m)'
    BY <1>1, <2>1 DEF OneTicket, Unforgotten, Unexpired
  <2> QED  BY <1>1, <1>3, <1>4, <2>1, <2>2, <2>3 DEF OneTicket
<1> QED  BY <1>5, <1>6, <1>7 DEF TicketInv

LEMMA VaultHonoursInv == ASSUME TicketInv, NEW e \in Errands, VaultHonours(e) PROVE TicketInv'
<1> DEFINE n == errand[e].ticket
           r == [errand[e] EXCEPT !.at = "redeemed"]
<1>1. /\ errand[e].at = "redeeming" /\ issued' = [issued EXCEPT ![n].redeemed = TRUE]
      /\ errand' = [errand EXCEPT ![e] = r]
      /\ UNCHANGED <<minute, kept, provider, display, waived, doubled, remounted>>
  BY DEF VaultHonours, TicketInv, WithdrawalTypes, ErrandTypes
<1>2. WithdrawalTypes /\ n \in DOMAIN issued /\ e \in Out
  BY <1>1 DEF TicketInv, ErrandFits, Out
<1>3. r \in ErrandTypes /\ r.at = "redeemed" /\ r.by = errand[e].by /\ r.ticket = n
  <2>1. errand[e] \in ErrandTypes
    BY <1>2 DEF WithdrawalTypes
  <2> QED  BY <2>1 DEF ErrandTypes
<1> HIDE DEF r
<1>4. /\ errand' \in [Errands -> ErrandTypes] /\ errand'[e] = r
      /\ \A d \in Errands \ {e} : errand'[d] = errand[d]
      /\ Out' = Out \cup {e}
  BY <1>1, <1>2, <1>3, PutErrand
<1>5. Out' = Out
  BY <1>2, <1>4
<1>6. /\ issued' \in Seq(IssuedTickets) /\ DOMAIN issued' = DOMAIN issued
      /\ issued'[n].redeemed /\ \A m \in DOMAIN issued \ {n} : issued'[m] = issued[m]
  <2> HIDE DEF n
  <2>1. issued[n] \in IssuedTickets /\ issued \in Seq(IssuedTickets)
    BY <1>2, TicketTyped DEF WithdrawalTypes
  <2> DEFINE t == [issued[n] EXCEPT !.redeemed = TRUE]
  <2>2. t \in IssuedTickets /\ t.redeemed /\ issued' = [issued EXCEPT ![n] = t]
    BY <1>1, <2>1 DEF IssuedTickets
  <2> HIDE DEF t
  <2> QED  BY <1>2, <2>1, <2>2, PutTicket
<1>7. WithdrawalTypes' /\ \A d \in Errands : ErrandFits(errand[d])'
  <2>1. WithdrawalTypes'
    BY <1>1, <1>2, <1>4, <1>6 DEF WithdrawalTypes
  <2>2. \A d \in Errands : ErrandFits(errand[d])
    BY DEF TicketInv
  <2> HIDE DEF n
  <2>3. \A d \in Errands \ {e} : ErrandFits(errand[d])'
    BY <1>4, <1>6, <2>2 DEF ErrandFits
  <2>4. r.by \in Providers
    BY <1>1, <1>3, <2>2 DEF ErrandFits
  <2>5. ErrandFits(errand[e])'
    BY <1>2, <1>3, <1>4, <1>6, <2>4 DEF ErrandFits
  <2> QED  BY <2>1, <2>3, <2>5
<1>8. ~remounted' => Mounted'
  BY <1>1, <1>3, <1>4, <1>5 DEF TicketInv, Mounted, Out
<1>9. ~remounted' /\ ~doubled' => OneTicket'
  <2> SUFFICES ASSUME ~remounted', ~doubled' PROVE OneTicket'
    OBVIOUS
  <2>1. OneTicket
    BY <1>1 DEF TicketInv
  <2>2. \A m \in DOMAIN issued' : Unforgotten(m)'
    BY <1>1, <1>6, <2>1 DEF OneTicket, Unforgotten, Unexpired
  <2> QED  BY <1>1, <1>3, <1>4, <1>5, <2>1, <2>2 DEF OneTicket
<1> QED  BY <1>7, <1>8, <1>9 DEF TicketInv

LEMMA RedeemedInv == ASSUME TicketInv, NEW e \in Errands, Redeemed(e) PROVE TicketInv'
<1> DEFINE by == errand[e].by
<1>1. /\ errand[e].at = "redeemed" /\ e \in Out /\ errand' = Rests(e) /\ kept' = 0
      /\ display' = [display EXCEPT ![by] = 0]
      /\ UNCHANGED <<minute, issued, provider, waived, doubled, remounted>>
  BY DEF Redeemed, Out
<1>2. WithdrawalTypes /\ by \in Providers /\ issued[errand[e].ticket].redeemed
  BY <1>1 DEF TicketInv, ErrandFits
<1>3. /\ Out' = Out \ {e} /\ errand' \in [Errands -> ErrandTypes]
      /\ \A d \in Errands \ {e} : errand'[d] = errand[d]
      /\ errand'[e].at = "resting" /\ ErrandFits(errand[e])'
  BY <1>1, RestedErrand
<1> HIDE DEF by
<1>4. display' \in [Providers -> DOMAIN issued \cup {0}] /\ display'[by] = 0
  BY <1>1, <1>2 DEF WithdrawalTypes
<1>5. WithdrawalTypes' /\ \A d \in Errands : ErrandFits(errand[d])'
  <2>1. WithdrawalTypes'
    BY <1>1, <1>2, <1>3, <1>4 DEF WithdrawalTypes
  <2>2. ASSUME NEW d \in Errands \ {e} PROVE ErrandFits(errand[d])'
    BY <1>1, <1>3 DEF TicketInv, ErrandFits
  <2> QED  BY <1>3, <2>1, <2>2
<1>6. ~remounted' => Mounted'
  <2> SUFFICES ASSUME ~remounted PROVE Mounted'
    BY <1>1
  <2>1. by = provider /\ \A d \in Out : errand[d].by = provider
    BY <1>1 DEF TicketInv, Mounted, by
  <2>2. display'[provider'] = kept'
    BY <1>1, <1>4, <2>1
  <2>3. ASSUME NEW d \in Out' PROVE errand'[d].by = provider'
    BY <1>1, <1>3, <2>1 DEF Out
  <2> QED  BY <2>2, <2>3 DEF Mounted
<1>7. ~remounted' /\ ~doubled' => OneTicket'
  <2> SUFFICES ASSUME ~remounted', ~doubled' PROVE OneTicket'
    OBVIOUS
  <2>1. OneTicket /\ kept \in {0, errand[e].ticket}
    BY <1>1 DEF TicketInv, OneTicket
  <2>2. \A d \in Errands : errand[d].at \notin {"asking", "issued"}
    BY <1>1, <2>1 DEF OneTicket
  <2>3. 0 \notin DOMAIN issued
    BY <1>2 DEF WithdrawalTypes
  <2>4. \A m \in DOMAIN issued : Unforgotten(m)'
    BY <1>1, <1>2, <2>1, <2>3 DEF OneTicket, Unforgotten, Unexpired
  <2> QED  BY <1>1, <1>3, <2>2, <2>4 DEF OneTicket
<1> QED  BY <1>5, <1>6, <1>7 DEF TicketInv

LEMMA DismissTicketInv == ASSUME TicketInv, DismissTicket PROVE TicketInv'
<1>1. /\ waived' = waived \cup {display[provider]} /\ kept' = 0
      /\ display' = [display EXCEPT ![provider] = 0] /\ display[provider] # 0
      /\ UNCHANGED <<minute, issued, provider, errand, doubled, remounted>>
  BY DEF DismissTicket
<1>2. WithdrawalTypes' /\ \A d \in Errands : ErrandFits(errand[d])'
  BY <1>1 DEF TicketInv, WithdrawalTypes, ErrandFits
<1>3. ~remounted' => Mounted'
  BY <1>1 DEF TicketInv, WithdrawalTypes, Mounted, Out
<1>4. ~remounted' /\ ~doubled' => OneTicket'
  BY <1>1 DEF TicketInv, Mounted, OneTicket, Unforgotten, Unexpired, Out
<1> QED  BY <1>2, <1>3, <1>4 DEF TicketInv

LEMMA RemountInv == ASSUME TicketInv, NEW p \in Providers, Remount(p) PROVE TicketInv'
<1>1. /\ p # provider /\ provider' = p /\ display' = [display EXCEPT ![p] = kept, ![provider] = 0]
      /\ (~remounted' => ~remounted /\ Out = {})
      /\ UNCHANGED <<minute, issued, kept, errand, waived, doubled>>
  BY DEF Remount
<1>2. WithdrawalTypes' /\ \A d \in Errands : ErrandFits(errand[d])'
  BY <1>1 DEF TicketInv, WithdrawalTypes, ErrandFits
<1>3. ~remounted' => Mounted'
  BY <1>1 DEF TicketInv, WithdrawalTypes, Mounted, Out
<1>4. ~remounted' /\ ~doubled' => OneTicket'
  BY <1>1 DEF TicketInv, OneTicket, Unforgotten, Unexpired, Out
<1> QED  BY <1>2, <1>3, <1>4 DEF TicketInv

LEMMA ReloadRailInv == ASSUME TicketInv, ReloadRail PROVE TicketInv'
<1>1. /\ errand' = [e \in Errands |-> Resting]
      /\ display' = [p \in Providers |-> IF p = provider THEN kept ELSE 0]
      /\ UNCHANGED <<minute, issued, kept, provider, waived, doubled, remounted>>
  BY DEF ReloadRail
<1>2. Resting \in ErrandTypes /\ Resting.at = "resting"
  BY DEF Resting, ErrandTypes
<1>3. errand' \in [Errands -> ErrandTypes] /\ \A e \in Errands : errand'[e].at = "resting"
  BY <1>1, <1>2
<1>4. WithdrawalTypes' /\ \A d \in Errands : ErrandFits(errand[d])'
  BY <1>1, <1>3 DEF TicketInv, WithdrawalTypes, ErrandFits
<1>5. ~remounted' => Mounted'
  BY <1>1, <1>3 DEF TicketInv, WithdrawalTypes, Mounted, Out
<1>6. ~remounted' /\ ~doubled' => OneTicket'
  BY <1>1, <1>3 DEF TicketInv, OneTicket, Unforgotten, Unexpired
<1> QED  BY <1>4, <1>5, <1>6 DEF TicketInv

LEMMA MinuteInv == ASSUME TicketInv, Minute PROVE TicketInv'
<1>1. minute' = minute + 1
      /\ UNCHANGED <<issued, kept, provider, display, errand, waived, doubled, remounted>>
  BY DEF Minute
<1>2. WithdrawalTypes' /\ \A d \in Errands : ErrandFits(errand[d])'
  BY <1>1 DEF TicketInv, WithdrawalTypes, ErrandFits
<1>3. ~remounted' => Mounted'
  BY <1>1 DEF TicketInv, Mounted, Out
<1>4. ~remounted' /\ ~doubled' => OneTicket'
  <2>1. \A n \in DOMAIN issued : Unexpired(n)' => Unexpired(n)
    <3>1. ASSUME NEW n \in DOMAIN issued PROVE issued[n].deadline \in Int
      BY TicketTyped DEF TicketInv, IssuedTickets
    <3>2. minute \in Int
      BY DEF TicketInv, WithdrawalTypes
    <3> QED  BY <1>1, <3>1, <3>2 DEF Unexpired
  <2> QED  BY <1>1, <2>1 DEF TicketInv, OneTicket, Unforgotten, Out
<1> QED  BY <1>2, <1>3, <1>4 DEF TicketInv

LEMMA WithdrawalsStep == TicketInv /\ [WithdrawalsNext]_withdrawalVars => TicketInv'
<1> SUFFICES ASSUME TicketInv, [WithdrawalsNext]_withdrawalVars PROVE TicketInv'
  OBVIOUS
<1>1. CASE UNCHANGED withdrawalVars
  BY <1>1 DEF withdrawalVars, TicketInv, WithdrawalTypes, ErrandFits, Mounted, OneTicket, Unforgotten,
              Unexpired, Out
<1>2. CASE WithdrawalsNext
  BY <1>2, AskTicketInv, RailIssuesInv, TicketArrivesInv, BeginRedeemInv, VaultHonoursInv, RedeemedInv,
     ErrandFailsInv, DismissTicketInv, RemountInv, ReloadRailInv, MinuteInv DEF WithdrawalsNext
<1> QED  BY <1>1, <1>2

LEMMA TicketsAreKept == TicketInv => TicketsKept
  BY DEF TicketInv, Mounted, OneTicket, Unforgotten, TicketsKept

\* A ticket the rail has answered with is kept until it is redeemed, dismissed or void.
THEOREM TicketsNotForgotten == OwnersSpec => []TicketsKept
<1>1. OwnersInit => TicketInv
  BY OwnersInits, WithdrawalsInitInv
<1>2. TicketInv /\ [OwnersNext]_ownersVars => TicketInv'
  BY OwnersSteps, WithdrawalsStep
<1> QED  BY <1>1, <1>2, TicketsAreKept, PTL DEF OwnersSpec

----------------------------------------------------------------------------
\* The payment whose receipt is missing.  A form that knows of one writes it, or is in the
\* drawer; while payments do not overlap, the slot holds it until it is written or the user
\* has its id.  And while the user waits for each lookup, a form asks for what its field
\* says, and pays whom it found under that name.
FormTypes == [field : Payees \cup {NoPayee}, candidate : Payees \cup {NoPayee}, asked : SUBSET Payees,
              step : Steps, to : Payees \cup {NoPayee}, name : Payees \cup {NoPayee},
              missing : Nat, exists : BOOLEAN]
PaidTypes == [to : Payees \cup {NoPayee}, name : Payees \cup {NoPayee}, known : BOOLEAN]

PaymentTypes ==
    /\ form \in [Forms -> FormTypes] /\ paid \in Seq(PaidTypes) /\ slot \in Nat
    /\ drawer \in Forms \cup {NoForm}

\* What a form says of the slot, for a drawer and a slot.
Knows(r, f) ==
    /\ r.step = "storing" => r.missing # 0
    /\ r.missing # 0 => /\ r.step \in {"storing", "idle"} /\ slot \in {0, r.missing}
                        /\ r.step = "idle" => drawer = f
                        /\ drawer = f => slot = r.missing

Recorded(tx) == paid[tx].known => tx \in receipts \cup dismissed \cup {slot}

Asks(r) ==
    /\ r.asked \subseteq {r.field} /\ r.candidate \in {r.field, NoPayee}
    /\ r.to = r.name

PaymentInv ==
    /\ PaymentTypes
    /\ ~overlapped => /\ \A f \in Forms : Knows(form[f], f)
                      /\ \A tx \in DOMAIN paid : Recorded(tx)
    /\ ~hasty => /\ \A f \in Forms : Asks(form[f])
                 /\ \A tx \in DOMAIN paid : paid[tx].to = paid[tx].name

LEMMA FreshForm ==
    \A n \in Nat : /\ Fresh(n) \in FormTypes /\ Fresh(n).step = "idle" /\ Fresh(n).missing = n
                   /\ Asks(Fresh(n))
  BY DEF Fresh, FormTypes, Steps, Asks

LEMMA PaymentsInitInv == PaymentsInit => PaymentInv
<1> SUFFICES ASSUME PaymentsInit PROVE PaymentInv
  OBVIOUS
<1>1. /\ Fresh(0) \in FormTypes /\ Fresh(0).step = "idle" /\ Fresh(0).missing = 0 /\ Asks(Fresh(0))
  BY FreshForm
<1>2. \A f \in Forms : form[f] = Fresh(0)
  BY DEF PaymentsInit
<1>3. paid \in Seq(PaidTypes) /\ DOMAIN paid = {}
  BY DEF PaymentsInit
<1>4. form \in [Forms -> FormTypes]
  BY <1>1 DEF PaymentsInit
<1> QED  BY <1>1, <1>2, <1>3, <1>4 DEF PaymentsInit, PaymentInv, PaymentTypes, Knows

\* A form changes and the payments made stay.
LEMMA PutForm ==
  ASSUME PaymentInv, NEW f \in Forms, NEW r \in FormTypes, form' = [form EXCEPT ![f] = r],
         UNCHANGED <<paid, overlapped>>, slot' = slot, drawer' = drawer,
         receipts \subseteq receipts', dismissed \subseteq dismissed', ~hasty' => ~hasty,
         ~overlapped => Knows(r, f), ~hasty' => Asks(r)
  PROVE  PaymentInv'
<1>1. PaymentTypes
  BY DEF PaymentInv
<1>2. form' \in [Forms -> FormTypes] /\ form'[f] = r /\ \A g \in Forms \ {f} : form'[g] = form[g]
  BY <1>1 DEF PaymentTypes
<1>3. PaymentTypes'
  BY <1>1, <1>2 DEF PaymentTypes
<1>4. ASSUME ~overlapped' PROVE /\ \A g \in Forms : Knows(form[g], g)'
                                /\ \A tx \in DOMAIN paid' : Recorded(tx)'
  <2>1. \A g \in Forms : Knows(form'[g], g)
    BY <1>2, <1>4 DEF PaymentInv
  <2>2. \A tx \in DOMAIN paid : Recorded(tx)'
    BY <1>4 DEF PaymentInv, Recorded
  <2> QED  BY <2>1, <2>2 DEF Knows
<1>5. ASSUME ~hasty' PROVE /\ \A g \in Forms : Asks(form[g])'
                           /\ \A tx \in DOMAIN paid' : paid'[tx].to = paid'[tx].name
  BY <1>2, <1>5 DEF PaymentInv, Asks
<1> QED  BY <1>3, <1>4, <1>5 DEF PaymentInv

LEMMA FormHas == ASSUME PaymentInv, NEW f \in Forms PROVE form[f] \in FormTypes
  BY DEF PaymentInv, PaymentTypes

LEMMA TypesInv == ASSUME PaymentInv, NEW f \in Forms, NEW p \in Payees \cup {NoPayee}, Types(f, p) PROVE PaymentInv'
<1> DEFINE r == Looks(form[f], p)
<1>1. /\ form' = [form EXCEPT ![f] = r] /\ (~hasty' => ~hasty /\ form[f].asked = {})
      /\ UNCHANGED <<drawer, slot, paid, receipts, dismissed, overlapped>>
  BY DEF Types
<1>2. form[f] \in FormTypes
  BY FormHas
<1>3. /\ r \in FormTypes /\ r.step = form[f].step /\ r.missing = form[f].missing
      /\ r.asked = form[f].asked \cup ({p} \ {NoPayee}) /\ r.field = p /\ r.candidate = NoPayee
      /\ r.to = form[f].to /\ r.name = form[f].name
  BY <1>2 DEF Looks, FormTypes
<1>4. ~overlapped => Knows(r, f)
  BY <1>3 DEF PaymentInv, Knows
<1>5. ~hasty' => Asks(r)
  BY <1>1, <1>3 DEF PaymentInv, Asks
<1> HIDE DEF r
<1> QED  BY <1>1, <1>3, <1>4, <1>5, PutForm

LEMMA LookAnswersInv ==
  ASSUME PaymentInv, NEW f \in Forms, NEW p \in form[f].asked, LookAnswers(f, p) PROVE PaymentInv'
<1>1. PICK found \in {p, NoPayee} : form' = [form EXCEPT ![f].asked = @ \ {p}, ![f].candidate = found]
  BY DEF LookAnswers
<1> DEFINE r == [form[f] EXCEPT !.asked = @ \ {p}, !.candidate = found]
<1>2. form[f] \in FormTypes
  BY FormHas
<1>3. /\ form' = [form EXCEPT ![f] = r]
      /\ UNCHANGED <<drawer, slot, paid, receipts, dismissed, hasty, overlapped>>
  BY <1>1, <1>2 DEF LookAnswers, FormTypes, PaymentInv, PaymentTypes
<1>4. /\ r \in FormTypes /\ r.step = form[f].step /\ r.missing = form[f].missing
      /\ r.asked = form[f].asked \ {p} /\ r.field = form[f].field /\ r.candidate = found
      /\ r.to = form[f].to /\ r.name = form[f].name
  BY <1>2 DEF FormTypes
<1>5. ~overlapped => Knows(r, f)
  BY <1>4 DEF PaymentInv, Knows
<1>6. ~hasty' => Asks(r)
  BY <1>3, <1>4 DEF PaymentInv, Asks
<1> HIDE DEF r
<1> QED  BY <1>3, <1>4, <1>5, <1>6, PutForm

LEMMA SubmitsInv == ASSUME PaymentInv, NEW f \in Forms, Submits(f) PROVE PaymentInv'
<1> DEFINE r == [form[f] EXCEPT !.step = "checking", !.to = form[f].candidate, !.name = form[f].field]
<1>1. form[f] \in FormTypes
  BY FormHas
<1>2. /\ form' = [form EXCEPT ![f] = r] /\ form[f].candidate \in Payees /\ form[f].missing = 0
      /\ UNCHANGED <<drawer, slot, paid, receipts, dismissed, hasty, overlapped>>
  BY <1>1 DEF Submits, Fillable, AtWork, FormTypes, PaymentInv, PaymentTypes
<1>3. /\ r \in FormTypes /\ r.step = "checking" /\ r.missing = 0 /\ r.asked = form[f].asked
      /\ r.field = form[f].field /\ r.candidate = form[f].candidate
      /\ r.to = form[f].candidate /\ r.name = form[f].field
  BY <1>1, <1>2 DEF FormTypes, Steps
<1>4. ~overlapped => Knows(r, f)
  BY <1>3 DEF Knows
<1>5. ~hasty' => Asks(r)
  BY <1>2, <1>3, PaymentAssumptions DEF PaymentInv, Asks
<1> HIDE DEF r
<1> QED  BY <1>2, <1>3, <1>4, <1>5, PutForm

\* A form that comes to rest in the drawer, or closed.
LEMMA RestedForm ==
  ASSUME PaymentInv, NEW f \in Forms, drawer' = drawer, form' = Rested(f, form[f].missing)
  PROVE  \E r \in FormTypes : /\ form' = [form EXCEPT ![f] = r] /\ r.step = "idle"
                              /\ r.missing = (IF drawer = f THEN form[f].missing ELSE 0)
                              /\ Asks(form[f]) => Asks(r)
<1>1. form[f] \in FormTypes /\ form[f].missing \in Nat
  BY FormHas DEF FormTypes
<1> DEFINE q == [form[f] EXCEPT !.step = "idle", !.to = NoPayee, !.name = NoPayee,
                                !.missing = form[f].missing, !.exists = FALSE]
<1>2. /\ q \in FormTypes /\ q.step = "idle" /\ q.missing = form[f].missing /\ q.to = q.name
      /\ q.asked = form[f].asked /\ q.field = form[f].field /\ q.candidate = form[f].candidate
  BY <1>1 DEF FormTypes, Steps
<1>3. form' = [form EXCEPT ![f] = IF drawer # f THEN Fresh(0) ELSE q]
  BY DEF Rested, PaymentInv, PaymentTypes
<1> HIDE DEF q
<1>4. CASE drawer = f
  BY <1>2, <1>3, <1>4 DEF Asks
<1>5. CASE drawer # f
  BY <1>3, <1>5, FreshForm
<1> QED  BY <1>4, <1>5

LEMMA AffordsInv == ASSUME PaymentInv, NEW f \in Forms, Affords(f) PROVE PaymentInv'
<1>1. form[f].step = "checking" /\ form[f] \in FormTypes
      /\ UNCHANGED <<drawer, slot, paid, receipts, dismissed, hasty, overlapped>>
  BY FormHas DEF Affords
<1>2. ~overlapped => form[f].missing = 0
  BY <1>1 DEF PaymentInv, Knows
<1>3. CASE form' = [form EXCEPT ![f].step = "paying"]
  <2> DEFINE r == [form[f] EXCEPT !.step = "paying"]
  <2>1. form' = [form EXCEPT ![f] = r]
    BY <1>3 DEF PaymentInv, PaymentTypes
  <2>2. /\ r \in FormTypes /\ r.step = "paying" /\ r.missing = form[f].missing /\ (Asks(form[f]) => Asks(r))
    BY <1>1 DEF FormTypes, Steps, Asks
  <2> HIDE DEF r
  <2>3. (~overlapped => Knows(r, f)) /\ (~hasty' => Asks(r))
    BY <1>1, <1>2, <2>2 DEF PaymentInv, Knows
  <2> QED  BY <1>1, <2>1, <2>2, <2>3, PutForm
<1>4. CASE form' = Rested(f, form[f].missing)
  <2>2. PICK r \in FormTypes : /\ form' = [form EXCEPT ![f] = r] /\ r.step = "idle"
                               /\ r.missing = (IF drawer = f THEN form[f].missing ELSE 0)
                               /\ Asks(form[f]) => Asks(r)
    BY <1>1, <1>4, RestedForm
  <2>3. (~overlapped => Knows(r, f)) /\ (~hasty' => Asks(r))
    BY <1>1, <1>2, <2>2 DEF PaymentInv, Knows
  <2> QED  BY <1>1, <2>2, <2>3, PutForm
<1> QED  BY <1>3, <1>4 DEF Affords

LEMMA RetriesInv == ASSUME PaymentInv, NEW f \in Forms, Retries(f) PROVE PaymentInv'
<1> DEFINE found == form[f].missing \in receipts
           r == [form[f] EXCEPT !.step = "storing", !.exists = found]
<1>1. form[f] \in FormTypes /\ found \in BOOLEAN /\ form \in [Forms -> FormTypes]
  BY FormHas DEF PaymentInv, PaymentTypes
<1>2. form[f].missing # 0 /\ UNCHANGED <<drawer, slot, paid, receipts, dismissed, hasty, overlapped>>
  BY DEF Retries, Warned
<1>3. form' = [form EXCEPT ![f].step = "storing", ![f].exists = found]
  BY DEF Retries
<1> HIDE DEF found
<1>4. form' = [form EXCEPT ![f] = r]
  BY <1>1, <1>3
<1>5. r \in FormTypes /\ r.step = "storing" /\ r.missing = form[f].missing /\ (Asks(form[f]) => Asks(r))
  BY <1>1 DEF FormTypes, Steps, Asks
<1> HIDE DEF r
<1>6. (~overlapped => Knows(r, f)) /\ (~hasty' => Asks(r))
  BY <1>2, <1>5 DEF PaymentInv, Knows
<1> QED  BY <1>2, <1>4, <1>5, <1>6, PutForm

LEMMA OpenDrawerInv == ASSUME PaymentInv, NEW f \in Forms, OpenDrawer(f) PROVE PaymentInv'
<1>1. /\ drawer = NoForm /\ drawer' = f /\ form[f].step = "idle" /\ form' = [form EXCEPT ![f] = Fresh(slot)]
      /\ UNCHANGED <<slot, paid, receipts, dismissed, hasty, overlapped>>
  BY DEF OpenDrawer, AtWork
<1>2. PaymentTypes /\ slot \in Nat /\ NoForm \notin Forms
  BY PaymentAssumptions DEF PaymentInv, PaymentTypes, NoForm
<1> DEFINE r == Fresh(slot)
<1>3. r \in FormTypes /\ r.step = "idle" /\ r.missing = slot /\ Asks(r)
  BY <1>2, FreshForm
<1> HIDE DEF r
<1>4. form' \in [Forms -> FormTypes] /\ form'[f] = r /\ \A g \in Forms \ {f} : form'[g] = form[g]
  BY <1>1, <1>2, <1>3 DEF PaymentTypes, r
<1>5. PaymentTypes'
  BY <1>1, <1>2, <1>4 DEF PaymentTypes
<1>6. ASSUME ~overlapped PROVE /\ \A g \in Forms : Knows(form[g], g)'
                               /\ \A tx \in DOMAIN paid' : Recorded(tx)'
  <2>1. ASSUME NEW g \in Forms \ {f} PROVE Knows(form[g], g)'
    BY <1>1, <1>2, <1>4, <1>6 DEF PaymentInv, Knows
  <2>2. Knows(form[f], f)'
    BY <1>1, <1>3, <1>4 DEF Knows
  <2>3. \A tx \in DOMAIN paid' : Recorded(tx)'
    BY <1>1, <1>6 DEF PaymentInv, Recorded
  <2> QED  BY <2>1, <2>2, <2>3
<1>7. ASSUME ~hasty PROVE /\ \A g \in Forms : Asks(form[g])'
                          /\ \A tx \in DOMAIN paid' : paid'[tx].to = paid'[tx].name
  BY <1>1, <1>3, <1>4, <1>7 DEF PaymentInv, Asks
<1> QED  BY <1>1, <1>5, <1>6, <1>7 DEF PaymentInv

\* The drawer closes over the forms.
LEMMA UnmountedForms ==
  ASSUME NEW forms \in [Forms -> FormTypes]
  PROVE  /\ Unmounted(forms) \in [Forms -> FormTypes]
         /\ \A f \in Forms :
               /\ Unmounted(forms)[f].step = forms[f].step
               /\ forms[f].step = "idle" => Unmounted(forms)[f].missing = 0
               /\ forms[f].step # "idle" => Unmounted(forms)[f].missing = forms[f].missing
               /\ Asks(forms[f]) => Asks(Unmounted(forms)[f])
<1> SUFFICES ASSUME NEW f \in Forms
             PROVE  /\ Unmounted(forms)[f] \in FormTypes
                    /\ Unmounted(forms)[f].step = forms[f].step
                    /\ forms[f].step = "idle" => Unmounted(forms)[f].missing = 0
                    /\ forms[f].step # "idle" => Unmounted(forms)[f].missing = forms[f].missing
                    /\ Asks(forms[f]) => Asks(Unmounted(forms)[f])
  BY DEF Unmounted
<1> DEFINE q == [forms[f] EXCEPT !.field = NoPayee, !.candidate = NoPayee, !.asked = {}]
<1>1. Unmounted(forms)[f] = IF forms[f].step = "idle" THEN Fresh(0) ELSE q
  BY DEF Unmounted
<1>2. q \in FormTypes /\ q.step = forms[f].step /\ q.missing = forms[f].missing /\ (Asks(forms[f]) => Asks(q))
  BY DEF FormTypes, Asks
<1> HIDE DEF q
<1>3. CASE forms[f].step = "idle"
  BY <1>1, <1>3, FreshForm
<1>4. CASE forms[f].step # "idle"
  BY <1>1, <1>2, <1>4
<1> QED  BY <1>3, <1>4

LEMMA CloseDrawerInv == ASSUME PaymentInv, CloseDrawer PROVE PaymentInv'
<1>1. /\ drawer' = NoForm /\ form' = Unmounted(form) /\ form \in [Forms -> FormTypes]
      /\ UNCHANGED <<slot, paid, receipts, dismissed, hasty, overlapped>>
  BY DEF CloseDrawer, PaymentInv, PaymentTypes
<1>2. NoForm \notin Forms
  BY PaymentAssumptions DEF NoForm
<1>3. /\ form' \in [Forms -> FormTypes]
      /\ \A f \in Forms : /\ form'[f].step = form[f].step
                          /\ form[f].step = "idle" => form'[f].missing = 0
                          /\ form[f].step # "idle" => form'[f].missing = form[f].missing
                          /\ Asks(form[f]) => Asks(form'[f])
  BY <1>1, UnmountedForms
<1>4. PaymentTypes'
  BY <1>1, <1>3 DEF PaymentInv, PaymentTypes
<1>5. ASSUME ~overlapped PROVE /\ \A g \in Forms : Knows(form[g], g)'
                               /\ \A tx \in DOMAIN paid' : Recorded(tx)'
  <2>1. ASSUME NEW g \in Forms PROVE Knows(form[g], g)'
    BY <1>1, <1>2, <1>3, <1>5 DEF PaymentInv, Knows
  <2>2. \A tx \in DOMAIN paid' : Recorded(tx)'
    BY <1>1, <1>5 DEF PaymentInv, Recorded
  <2> QED  BY <2>1, <2>2
<1>6. ASSUME ~hasty PROVE /\ \A g \in Forms : Asks(form[g])'
                          /\ \A tx \in DOMAIN paid' : paid'[tx].to = paid'[tx].name
  <2>1. \A g \in Forms : Asks(form'[g])
    BY <1>3, <1>6 DEF PaymentInv
  <2> QED  BY <1>1, <1>6, <2>1 DEF PaymentInv, Asks
<1> QED  BY <1>1, <1>4, <1>5, <1>6 DEF PaymentInv

LEMMA ReloadsInv == ASSUME PaymentInv, Reloads PROVE PaymentInv'
<1>1. /\ form' = [f \in Forms |-> Fresh(0)] /\ drawer' = NoForm
      /\ UNCHANGED <<slot, paid, receipts, dismissed, hasty, overlapped>>
  BY DEF Reloads
<1>2. Fresh(0) \in FormTypes /\ Fresh(0).step = "idle" /\ Fresh(0).missing = 0 /\ Asks(Fresh(0))
  BY FreshForm
<1>3. form' \in [Forms -> FormTypes] /\ \A f \in Forms : form'[f] = Fresh(0)
  BY <1>1, <1>2
<1>4. PaymentTypes'
  BY <1>1, <1>3 DEF PaymentInv, PaymentTypes
<1>5. \A g \in Forms : Knows(form[g], g)'
  BY <1>2, <1>3 DEF Knows
<1>6. ~overlapped => \A tx \in DOMAIN paid' : Recorded(tx)'
  BY <1>1 DEF PaymentInv, Recorded
<1>7. \A g \in Forms : Asks(form[g])'
  BY <1>2, <1>3 DEF Asks
<1> QED  BY <1>1, <1>4, <1>5, <1>6, <1>7 DEF PaymentInv

\* One payment is appended.
LEMMA PaidOne ==
  ASSUME PaymentInv, NEW f \in Forms, NEW told \in BOOLEAN, paid' = Append(paid, Payment(form[f], told))
  PROVE  /\ paid' \in Seq(PaidTypes) /\ 0 \notin DOMAIN paid /\ Len(paid) + 1 \in Nat /\ Len(paid) + 1 # 0
         /\ DOMAIN paid' = DOMAIN paid \cup {Len(paid) + 1}
         /\ \A tx \in DOMAIN paid : paid'[tx] = paid[tx]
         /\ paid'[Len(paid) + 1].known = told
         /\ ~hasty => paid'[Len(paid) + 1].to = paid'[Len(paid) + 1].name
<1> DEFINE p == Payment(form[f], told)
<1>1. form[f] \in FormTypes /\ paid \in Seq(PaidTypes)
  BY FormHas DEF PaymentInv, PaymentTypes
<1>2. p \in PaidTypes /\ p.known = told /\ p.to = form[f].to /\ p.name = form[f].name
  BY <1>1 DEF Payment, PaidTypes, FormTypes
<1>3. ~hasty => p.to = p.name
  BY <1>2 DEF PaymentInv, Asks
<1> HIDE DEF p
<1>4. paid' = Append(paid, p)
  BY DEF p
<1>5. Len(paid) \in Nat /\ DOMAIN paid = 1..Len(paid)
  BY <1>1
<1>6. DOMAIN paid' = 1..(Len(paid) + 1) /\ paid'[Len(paid) + 1] = p /\ paid' \in Seq(PaidTypes)
      /\ \A tx \in DOMAIN paid : paid'[tx] = paid[tx]
  BY <1>1, <1>2, <1>4
<1>7. DOMAIN paid' = DOMAIN paid \cup {Len(paid) + 1} /\ 0 \notin DOMAIN paid
  BY <1>5, <1>6
<1> QED  BY <1>2, <1>3, <1>5, <1>6, <1>7

LEMMA PaysInv == ASSUME PaymentInv, NEW f \in Forms, Pays(f) PROVE PaymentInv'
<1>0. PICK tx : tx = Len(paid) + 1
  OBVIOUS
<1> DEFINE r == [form[f] EXCEPT !.step = "storing", !.to = NoPayee, !.name = NoPayee, !.missing = tx]
<1>1. /\ paid' = Append(paid, Payment(form[f], TRUE)) /\ slot' = tx
      /\ form' = [form EXCEPT ![f].step = "storing", ![f].to = NoPayee, ![f].name = NoPayee, ![f].missing = tx]
      /\ UNCHANGED <<drawer, receipts, dismissed, hasty>>
  BY <1>0 DEF Pays
<1>2. ~overlapped' => ~overlapped /\ slot = 0 /\ \A g \in Forms \ {f} : form[g].step # "storing"
  BY DEF Pays, WritingReceipt
<1>3. /\ paid' \in Seq(PaidTypes) /\ 0 \notin DOMAIN paid /\ tx \in Nat /\ tx # 0
      /\ DOMAIN paid' = DOMAIN paid \cup {tx}
      /\ \A n \in DOMAIN paid : paid'[n] = paid[n]
      /\ ~hasty => paid'[tx].to = paid'[tx].name
  BY <1>0, <1>1, PaidOne
<1>4. form[f] \in FormTypes /\ form \in [Forms -> FormTypes] /\ PaymentTypes
  BY FormHas DEF PaymentInv, PaymentTypes
<1>5. form' = [form EXCEPT ![f] = r]
  BY <1>1, <1>4
<1>6. r \in FormTypes /\ r.step = "storing" /\ r.missing = tx /\ (Asks(form[f]) => Asks(r))
  BY <1>3, <1>4 DEF FormTypes, Steps, Asks
<1> HIDE DEF r
<1>7. form' \in [Forms -> FormTypes] /\ form'[f] = r /\ \A g \in Forms \ {f} : form'[g] = form[g]
  BY <1>4, <1>5, <1>6
<1>8. PaymentTypes'
  BY <1>1, <1>3, <1>4, <1>7 DEF PaymentTypes
<1>9. ASSUME ~overlapped' PROVE /\ \A g \in Forms : Knows(form[g], g)'
                                /\ \A n \in DOMAIN paid' : Recorded(n)'
  <2>1. Knows(form[f], f)'
    BY <1>1, <1>3, <1>6, <1>7 DEF Knows
  <2>2. ASSUME NEW g \in Forms \ {f} PROVE form[g].step # "storing" /\ form[g].missing = 0
    BY <1>2, <1>9 DEF PaymentInv, Knows
  <2>3. \A g \in Forms \ {f} : Knows(form[g], g)'
    BY <1>7, <2>2 DEF Knows
  <2>4. Recorded(tx)'
    BY <1>1 DEF Recorded
  <2>5. ASSUME NEW n \in DOMAIN paid PROVE Recorded(n)'
    BY <1>1, <1>2, <1>3, <1>9 DEF PaymentInv, Recorded
  <2> QED  BY <1>3, <2>1, <2>3, <2>4, <2>5
<1>10. ASSUME ~hasty PROVE /\ \A g \in Forms : Asks(form[g])'
                           /\ \A n \in DOMAIN paid' : paid'[n].to = paid'[n].name
  <2>1. \A g \in Forms : Asks(form'[g])
    BY <1>6, <1>7, <1>10 DEF PaymentInv
  <2>2. \A n \in DOMAIN paid' : paid'[n].to = paid'[n].name
    BY <1>3, <1>10 DEF PaymentInv
  <2> QED  BY <2>1, <2>2 DEF Asks
<1> QED  BY <1>1, <1>8, <1>9, <1>10 DEF PaymentInv

LEMMA PayFailsInv == ASSUME PaymentInv, NEW f \in Forms, PayFails(f) PROVE PaymentInv'
<1>1. /\ form[f].step = "paying" /\ drawer' = drawer /\ form' = Rested(f, form[f].missing)
      /\ UNCHANGED <<slot, receipts, dismissed, hasty, overlapped>>
  BY DEF PayFails
<1>2. form[f].missing \in Nat /\ form \in [Forms -> FormTypes]
  BY FormHas DEF FormTypes, PaymentInv, PaymentTypes
<1>4. PICK r \in FormTypes : /\ form' = [form EXCEPT ![f] = r] /\ r.step = "idle"
                             /\ r.missing = (IF drawer = f THEN form[f].missing ELSE 0)
                             /\ Asks(form[f]) => Asks(r)
  BY <1>1, RestedForm
<1>5. (~overlapped => Knows(r, f)) /\ (~hasty => Asks(r))
  BY <1>1, <1>4 DEF PaymentInv, Knows
<1>6. CASE UNCHANGED paid
  BY <1>1, <1>4, <1>5, <1>6, PutForm
<1>7. CASE paid' = Append(paid, Payment(form[f], FALSE))
  <2>0. PICK tx : tx = Len(paid) + 1
    OBVIOUS
  <2>1. /\ paid' \in Seq(PaidTypes) /\ DOMAIN paid' = DOMAIN paid \cup {tx} /\ ~paid'[tx].known
        /\ \A n \in DOMAIN paid : paid'[n] = paid[n]
        /\ ~hasty => paid'[tx].to = paid'[tx].name
    BY <1>7, <2>0, PaidOne
  <2>2. form' \in [Forms -> FormTypes] /\ form'[f] = r /\ \A g \in Forms \ {f} : form'[g] = form[g]
    BY <1>2, <1>4
  <2>3. PaymentTypes'
    BY <1>1, <2>1, <2>2 DEF PaymentInv, PaymentTypes
  <2>4. ASSUME ~overlapped PROVE /\ \A g \in Forms : Knows(form[g], g)'
                                 /\ \A n \in DOMAIN paid' : Recorded(n)'
    <3>1. \A g \in Forms : Knows(form'[g], g)
      BY <1>5, <2>2, <2>4 DEF PaymentInv
    <3>2. \A n \in DOMAIN paid : Recorded(n)'
      BY <1>1, <2>1, <2>4 DEF PaymentInv, Recorded
    <3>3. Recorded(tx)'
      BY <2>1 DEF Recorded
    <3>4. \A g \in Forms : Knows(form[g], g)'
      BY <1>1, <3>1 DEF Knows
    <3> QED  BY <2>1, <3>2, <3>3, <3>4
  <2>5. ASSUME ~hasty PROVE /\ \A g \in Forms : Asks(form[g])'
                            /\ \A n \in DOMAIN paid' : paid'[n].to = paid'[n].name
    <3>1. \A g \in Forms : Asks(form'[g])
      BY <1>5, <2>2, <2>5 DEF PaymentInv
    <3>2. \A n \in DOMAIN paid' : paid'[n].to = paid'[n].name
      BY <2>1, <2>5 DEF PaymentInv
    <3> QED  BY <3>1, <3>2 DEF Asks
  <2> QED  BY <1>1, <2>3, <2>4, <2>5 DEF PaymentInv
<1> QED  BY <1>6, <1>7 DEF PayFails

LEMMA WriteFailsInv == ASSUME PaymentInv, NEW f \in Forms, WriteFails(f) PROVE PaymentInv'
<1>1. /\ form[f].step = "storing" /\ drawer' = drawer /\ form' = Rested(f, form[f].missing)
      /\ receipts \subseteq receipts'
      /\ UNCHANGED <<slot, paid, dismissed, hasty, overlapped>>
  BY DEF WriteFails, WritingReceipt
<1>2. form[f].missing \in Nat /\ form \in [Forms -> FormTypes]
  BY FormHas DEF FormTypes, PaymentInv, PaymentTypes
<1>4. PICK r \in FormTypes : /\ form' = [form EXCEPT ![f] = r] /\ r.step = "idle"
                             /\ r.missing = (IF drawer = f THEN form[f].missing ELSE 0)
                             /\ Asks(form[f]) => Asks(r)
  BY <1>1, RestedForm
<1>5. (~overlapped => Knows(r, f)) /\ (~hasty => Asks(r))
  BY <1>1, <1>4 DEF PaymentInv, Knows
<1> QED  BY <1>1, <1>4, <1>5, PutForm

LEMMA WritesInv == ASSUME PaymentInv, NEW f \in Forms, Writes(f) PROVE PaymentInv'
<1> DEFINE left == [form EXCEPT ![f] = Fresh(0)]
<1>1. /\ form[f].step = "storing" /\ receipts' = receipts \cup {form[f].missing} /\ slot' = 0
      /\ drawer' = NoForm /\ form' = Unmounted(left) /\ form \in [Forms -> FormTypes]
      /\ UNCHANGED <<paid, dismissed, hasty, overlapped>>
  BY DEF Writes, WritingReceipt, PaymentInv, PaymentTypes
<1>2. NoForm \notin Forms
  BY PaymentAssumptions DEF NoForm
<1>3. /\ left \in [Forms -> FormTypes] /\ left[f] = Fresh(0) /\ \A g \in Forms \ {f} : left[g] = form[g]
  BY <1>1, FreshForm
<1> HIDE DEF left
<1>4. /\ form' \in [Forms -> FormTypes]
      /\ \A g \in Forms : /\ form'[g].step = left[g].step
                          /\ left[g].step = "idle" => form'[g].missing = 0
                          /\ left[g].step # "idle" => form'[g].missing = left[g].missing
                          /\ Asks(left[g]) => Asks(form'[g])
  BY <1>1, <1>3, UnmountedForms
<1>5. PaymentTypes'
  BY <1>1, <1>4 DEF PaymentInv, PaymentTypes
<1>6. ASSUME ~overlapped PROVE /\ \A g \in Forms : Knows(form[g], g)'
                               /\ \A tx \in DOMAIN paid' : Recorded(tx)'
  <2>1. ASSUME NEW g \in Forms \ {f} PROVE Knows(form[g], g)'
    BY <1>1, <1>2, <1>3, <1>4, <1>6 DEF PaymentInv, Knows
  <2>2. Knows(form[f], f)'
    BY <1>3, <1>4, FreshForm DEF Knows
  <2>3. slot \in {0, form[f].missing}
    BY <1>1, <1>6 DEF PaymentInv, Knows
  <2>4. ASSUME NEW tx \in DOMAIN paid PROVE Recorded(tx)'
    <3>1. tx # 0
      BY DEF PaymentInv, PaymentTypes
    <3> QED  BY <1>1, <1>6, <2>3, <3>1 DEF PaymentInv, Recorded
  <2> QED  BY <1>1, <2>1, <2>2, <2>4
<1>7. ASSUME ~hasty PROVE /\ \A g \in Forms : Asks(form[g])'
                          /\ \A tx \in DOMAIN paid' : paid'[tx].to = paid'[tx].name
  <2>1. \A g \in Forms : Asks(form'[g])
    BY <1>3, <1>4, <1>7, FreshForm DEF PaymentInv
  <2> QED  BY <1>1, <1>7, <2>1 DEF PaymentInv, Asks
<1> QED  BY <1>1, <1>5, <1>6, <1>7 DEF PaymentInv

LEMMA DismissesInv == ASSUME PaymentInv, NEW f \in Forms, Dismisses(f) PROVE PaymentInv'
<1> DEFINE r == [form[f] EXCEPT !.missing = 0]
<1>1. /\ drawer = f /\ form[f].missing # 0 /\ form[f].step = "idle"
      /\ slot' = 0 /\ dismissed' = dismissed \cup {form[f].missing}
      /\ form \in [Forms -> FormTypes] /\ form[f] \in FormTypes
      /\ UNCHANGED <<drawer, paid, receipts, hasty, overlapped>>
  BY FormHas DEF Dismisses, Warned, AtWork, PaymentInv, PaymentTypes
<1>2. form' = [form EXCEPT ![f] = r]
  BY <1>1 DEF Dismisses
<1>3. r \in FormTypes /\ r.step = "idle" /\ r.missing = 0 /\ (Asks(form[f]) => Asks(r))
  BY <1>1 DEF FormTypes, Asks
<1> HIDE DEF r
<1>4. form' \in [Forms -> FormTypes] /\ form'[f] = r /\ \A g \in Forms \ {f} : form'[g] = form[g]
  BY <1>1, <1>2, <1>3
<1>5. PaymentTypes'
  BY <1>1, <1>4 DEF PaymentInv, PaymentTypes
<1>6. ASSUME ~overlapped PROVE /\ \A g \in Forms : Knows(form[g], g)'
                               /\ \A tx \in DOMAIN paid' : Recorded(tx)'
  <2>1. ASSUME NEW g \in Forms \ {f} PROVE Knows(form[g], g)'
    BY <1>1, <1>4, <1>6 DEF PaymentInv, Knows
  <2>2. Knows(form[f], f)'
    BY <1>3, <1>4 DEF Knows
  <2>3. slot = form[f].missing
    BY <1>1, <1>6 DEF PaymentInv, Knows
  <2>4. ASSUME NEW tx \in DOMAIN paid PROVE Recorded(tx)'
    BY <1>1, <1>6, <2>3 DEF PaymentInv, Recorded
  <2> QED  BY <1>1, <2>1, <2>2, <2>4
<1>7. ASSUME ~hasty PROVE /\ \A g \in Forms : Asks(form[g])'
                          /\ \A tx \in DOMAIN paid' : paid'[tx].to = paid'[tx].name
  <2>1. \A g \in Forms : Asks(form'[g])
    BY <1>3, <1>4, <1>7 DEF PaymentInv
  <2> QED  BY <1>1, <1>7, <2>1 DEF PaymentInv, Asks
<1> QED  BY <1>1, <1>5, <1>6, <1>7 DEF PaymentInv

LEMMA PaymentsStep == PaymentInv /\ [PaymentsNext]_paymentVars => PaymentInv'
<1> SUFFICES ASSUME PaymentInv, [PaymentsNext]_paymentVars PROVE PaymentInv'
  OBVIOUS
<1>1. CASE UNCHANGED paymentVars
  BY <1>1 DEF paymentVars, PaymentInv, PaymentTypes, Knows, Recorded, Asks
<1>2. CASE PaymentsNext
  BY <1>2, OpenDrawerInv, SubmitsInv, AffordsInv, PaysInv, PayFailsInv, WritesInv, WriteFailsInv, RetriesInv,
     DismissesInv, TypesInv, LookAnswersInv, CloseDrawerInv, ReloadsInv DEF PaymentsNext
<1> QED  BY <1>1, <1>2

LEMMA PaymentsAreRecorded == PaymentInv => PaymentsRecorded
<1> SUFFICES ASSUME PaymentInv PROVE PaymentsRecorded
  OBVIOUS
<1>1. DOMAIN paid = 1..Len(paid)
  BY DEF PaymentInv, PaymentTypes
<1> QED  BY <1>1 DEF PaymentInv, Recorded, PaymentsRecorded

\* A payment the rail has answered is recorded, and under the name it was paid to.
THEOREM PaymentsNotForgotten == OwnersSpec => []PaymentsRecorded
<1>1. OwnersInit => PaymentInv
  BY OwnersInits, PaymentsInitInv
<1>2. PaymentInv /\ [OwnersNext]_ownersVars => PaymentInv'
  BY OwnersSteps, PaymentsStep
<1> QED  BY <1>1, <1>2, PaymentsAreRecorded, PTL DEF OwnersSpec

----------------------------------------------------------------------------
\* The session.  What each call holds belongs to the session it is for: the one that asks
\* the wallet is the one the others wait for, a client that is being built has the key that
\* is held unless a lock came, and every key but the one that is held is wiped.  And while
\* no call outlives its wallet, keys are for the wallet that each call was begun by.
SignerNames == Signers \cup {NoSigner}
CallerTypes == [kind : CallKinds \cup {"none"}, at : CallStates, wallet : SignerNames, name : SignerNames,
                on : Callers \cup {NoCaller}, started : Nat, key : Nat, by : SignerNames, life : Nat]
ClientTypes == [wallet : SignerNames, name : SignerNames, key : Nat]

SessionTypes ==
    /\ generation \in Nat /\ lifecycle \in Nat /\ signer \in SignerNames
    /\ derived \in Seq(SignerNames) /\ wiped \subseteq DOMAIN derived /\ identity \in DOMAIN derived \cup {0}
    /\ client \in ClientTypes /\ caller \in [Callers -> CallerTypes]
    /\ pending \in Callers \cup {NoCaller}
    /\ unlocked \in BOOLEAN /\ shown \in BOOLEAN /\ (unlocked <=> identity # 0)
    /\ openSeed \in Nat /\ openReceipt \in Nat

\* The session is locked and the effects have not seen it.
Clearing == shown /\ ~unlocked

Fitting(r, c) ==
    /\ r.started <= generation /\ r.life <= lifecycle /\ r.name \in {NoSigner, r.wallet}
    /\ r.at = "signing" /\ r.started = generation => pending = c /\ identity = 0
    /\ r.at = "building" => r.key \in DOMAIN derived /\ (r.started = generation => r.key = identity)
    /\ r.at \in {"reading", "opened"} => r.key \in DOMAIN derived
    /\ r.at = "opened" /\ r.life = lifecycle /\ ~Clearing => r.key = identity

Follows(r) == r.at = "waiting" => r.on \in Callers /\ caller[r.on].at = "signing"

Owned(r) ==
    /\ r.at = "signing" /\ r.started = generation => r.wallet = signer
    /\ r.at = "waiting" => r.wallet = caller[r.on].wallet
    /\ r.at = "building" => derived[r.key] = r.wallet
    /\ r.at = "reading" => derived[r.key] = r.by

CallsFit == \A c \in Callers : Fitting(caller[c], c) /\ Follows(caller[c])
CallsOwned == \A c \in Callers : Owned(caller[c])

KeyFits ==
    /\ \A k \in DOMAIN derived : k \in wiped <=> k # identity
    /\ client # NoClient => client.key \in DOMAIN derived
    /\ ~rebuilt /\ identity # 0 => client.key = identity
    /\ ~Clearing => {openSeed, openReceipt} \subseteq {0, identity}
TurnFits == pending # NoCaller => caller[pending].at = "signing" /\ caller[pending].started = generation

KeyOwned ==
    /\ misplaced = {}
    /\ identity # 0 => derived[identity] = signer
    /\ client # NoClient => derived[client.key] = client.wallet

SessionInv ==
    /\ SessionTypes /\ CallsFit /\ KeyFits /\ TurnFits
    /\ ~outlived => CallsOwned /\ KeyOwned

LEMMA EaseTyped ==
    /\ AtEase \in CallerTypes /\ AtEase.at = "idle" /\ AtEase.kind = "none" /\ AtEase.started = 0
    /\ AtEase.life = 0 /\ AtEase.name = NoSigner /\ NoClient \in ClientTypes
    /\ NoClient.name = NoSigner /\ NoClient.key = 0
  BY DEF AtEase, CallerTypes, CallStates, SignerNames, NoClient, ClientTypes

\* A call at rest fits any session.
LEMMA EaseFits ==
    ASSUME NEW c, generation \in Nat, lifecycle \in Nat
    PROVE  Fitting(AtEase, c) /\ Follows(AtEase) /\ Owned(AtEase)
  BY EaseTyped DEF Fitting, Follows, Owned

LEMMA SessionInitInv == SessionInit => SessionInv
<1> SUFFICES ASSUME SessionInit PROVE SessionInv
  OBVIOUS
<1>1. caller \in [Callers -> CallerTypes] /\ \A c \in Callers : caller[c] = AtEase
  BY EaseTyped DEF SessionInit
<1>2. SessionTypes
  <2>1. derived \in Seq(SignerNames) /\ wiped \subseteq DOMAIN derived
    BY DEF SessionInit
  <2> QED  BY <1>1, <2>1, EaseTyped DEF SessionInit, SessionTypes, SignerNames
<1>3. CallsFit /\ CallsOwned
  BY <1>1, <1>2, EaseFits DEF CallsFit, CallsOwned, SessionTypes
<1>4. KeyFits /\ TurnFits /\ KeyOwned
  BY DEF SessionInit, KeyFits, TurnFits, KeyOwned
<1> QED  BY <1>2, <1>3, <1>4 DEF SessionInv

\* What a call goes on with, for the keys D.
LEMMA ContinuedCall ==
  ASSUME NEW r \in CallerTypes, NEW D, NEW key \in Nat, NEW held \in ClientTypes, key \in DOMAIN D,
         held # NoClient => held.key \in DOMAIN D, generation \in Nat
  PROVE  LET q == Continued(r, key, held)
         IN  /\ q \in CallerTypes
             /\ \/ q = AtEase
                \/ /\ q.at = "reading" /\ held # NoClient /\ q.key = held.key /\ q.by = held.wallet
                   /\ q.key \in DOMAIN D
                   /\ q.wallet = r.wallet /\ q.name = r.name /\ q.started = r.started /\ q.life = r.life
                \/ /\ q.at = "building" /\ q.key = key /\ q.started = generation
                   /\ q.wallet = r.wallet /\ q.name = r.name /\ q.life = r.life
<1> DEFINE a == [r EXCEPT !.at = "reading", !.key = held.key, !.by = held.wallet]
           b == [r EXCEPT !.at = "building", !.key = key, !.started = generation]
<1>1. held.key \in Nat /\ held.wallet \in SignerNames
  BY DEF ClientTypes
<1>2. /\ a \in CallerTypes /\ a.at = "reading" /\ a.key = held.key /\ a.by = held.wallet
      /\ a.wallet = r.wallet /\ a.name = r.name /\ a.started = r.started /\ a.life = r.life
  BY <1>1 DEF CallerTypes, CallStates
<1>3. /\ b \in CallerTypes /\ b.at = "building" /\ b.key = key /\ b.started = generation
      /\ b.wallet = r.wallet /\ b.name = r.name /\ b.life = r.life
  BY DEF CallerTypes, CallStates
<1>4. Continued(r, key, held) = IF r.kind = "pair" THEN AtEase
                                ELSE IF held # NoClient /\ held.name = r.name THEN a ELSE b
  BY DEF Continued
<1> HIDE DEF a, b
<1> QED  BY <1>2, <1>3, <1>4, EaseTyped

\* Of what a call goes by, nothing changes but the call.
Still == UNCHANGED <<generation, identity, unlocked, wiped, signer, lifecycle, shown, derived, pending>>

\* One call goes on, and nobody waits for it.
LEMMA PutCaller ==
  ASSUME SessionInv, NEW c \in Callers, caller[c].at # "signing", NEW q \in CallerTypes,
         caller' = [caller EXCEPT ![c] = q], Still,
         client' \in ClientTypes, openSeed' \in Nat, openReceipt' \in Nat
  PROVE  /\ SessionTypes' /\ TurnFits'
         /\ UNCHANGED <<client, openSeed, openReceipt, rebuilt>> => KeyFits'
         /\ Fitting(q, c) /\ Follows(q) => CallsFit'
         /\ q.at # "waiting" => Follows(q)
         /\ CallsOwned /\ Owned(q) /\ Follows(q) => CallsOwned'
<1>1. SessionTypes /\ CallsFit /\ KeyFits /\ TurnFits
  BY DEF SessionInv
<1>2. caller' \in [Callers -> CallerTypes] /\ caller'[c] = q /\ \A d \in Callers \ {c} : caller'[d] = caller[d]
  BY <1>1 DEF SessionTypes
<1>3. SessionTypes'
  BY <1>1, <1>2 DEF SessionTypes, Still
<1>4. UNCHANGED <<client, openSeed, openReceipt, rebuilt>> => KeyFits'
  BY <1>1 DEF KeyFits, Still, Clearing
<1>5. TurnFits'
  <2>1. pending # NoCaller => pending # c /\ pending \in Callers
    BY <1>1 DEF TurnFits, SessionTypes
  <2> QED  BY <1>1, <1>2, <2>1 DEF TurnFits, Still
<1>6. \A d \in Callers : caller[d].at = "signing" => caller'[d] = caller[d]
  BY <1>2
<1>7. ASSUME NEW r, NEW d, Fitting(r, d) PROVE Fitting(r, d)'
  BY <1>7 DEF Fitting, Still, Clearing
<1>8. ASSUME NEW r, Follows(r) PROVE Follows(r)' /\ (Owned(r) => Owned(r)')
  BY <1>6, <1>8 DEF Follows, Owned, Still
<1>9. ASSUME Fitting(q, c), Follows(q) PROVE CallsFit'
  BY <1>1, <1>2, <1>7, <1>8, <1>9 DEF CallsFit
<1>10. ASSUME CallsOwned, Owned(q), Follows(q) PROVE CallsOwned'
  BY <1>1, <1>2, <1>8, <1>10 DEF CallsFit, CallsOwned
<1>11. q.at # "waiting" => Follows(q)
  BY DEF Follows
<1> QED  BY <1>3, <1>4, <1>5, <1>9, <1>10, <1>11

\* The same, when the keys and what is open stay as they are.
LEMMA GoesOnAlone ==
  ASSUME SessionInv, NEW c \in Callers, caller[c].at # "signing", NEW q \in CallerTypes,
         caller' = [caller EXCEPT ![c] = q], Still, UNCHANGED <<client, openSeed, openReceipt, rebuilt>>,
         Fitting(q, c), Follows(q), ~outlived' => ~outlived /\ Owned(q) /\ misplaced' = {}
  PROVE  SessionInv'
<1>1. client' \in ClientTypes /\ openSeed' \in Nat /\ openReceipt' \in Nat
  BY DEF SessionInv, SessionTypes
<1>2. SessionTypes' /\ TurnFits' /\ KeyFits' /\ CallsFit'
  BY <1>1, PutCaller
<1>3. ASSUME ~outlived' PROVE CallsOwned' /\ KeyOwned'
  <2>1. CallsOwned /\ KeyOwned /\ Owned(q) /\ misplaced' = {}
    BY <1>3 DEF SessionInv
  <2>2. CallsOwned'
    BY <1>1, <2>1, PutCaller
  <2>3. KeyOwned'
    BY <2>1 DEF KeyOwned, Still
  <2> QED  BY <2>2, <2>3
<1> QED  BY <1>2, <1>3 DEF SessionInv

\* A call looks for the key.
LEMMA LiveStep ==
  ASSUME SessionInv, NEW c \in Callers, caller[c].at # "signing", NEW r \in CallerTypes,
         r.at \in {"idle", "paying"}, r.started <= generation, r.life <= lifecycle, r.name \in {NoSigner, r.wallet},
         Live(c, r),
         UNCHANGED <<generation, identity, unlocked, wiped, signer, lifecycle, shown, derived>>,
         UNCHANGED <<client, openSeed, openReceipt, rebuilt>>
  PROVE  SessionInv'
<1>1. SessionTypes /\ CallsFit /\ KeyFits /\ TurnFits /\ (~outlived => CallsOwned /\ KeyOwned)
  BY DEF SessionInv
<1>2. ~outlived' => ~outlived /\ r.wallet = signer
  BY DEF Live
<1>3. ASSUME identity # 0 PROVE SessionInv'
  <2> DEFINE q == Continued(r, identity, client)
  <2>1. /\ caller' = [caller EXCEPT ![c] = q] /\ UNCHANGED pending
        /\ misplaced' = misplaced \cup Misgiven({r}, derived[identity])
    BY <1>3 DEF Live
  <2>2. identity \in DOMAIN derived /\ identity \in Nat /\ client \in ClientTypes /\ generation \in Nat
        /\ lifecycle \in Nat /\ (client # NoClient => client.key \in DOMAIN derived)
    BY <1>1, <1>3 DEF SessionTypes, KeyFits
  <2>3. /\ q \in CallerTypes
        /\ \/ q = AtEase
           \/ /\ q.at = "reading" /\ client # NoClient /\ q.key = client.key /\ q.by = client.wallet
              /\ q.key \in DOMAIN derived
              /\ q.wallet = r.wallet /\ q.name = r.name /\ q.started = r.started /\ q.life = r.life
           \/ /\ q.at = "building" /\ q.key = identity /\ q.started = generation
              /\ q.wallet = r.wallet /\ q.name = r.name /\ q.life = r.life
    BY <2>2, ContinuedCall
  <2> HIDE DEF q
  <2>4. r.started \in Nat
    BY DEF CallerTypes
  <2>5. Fitting(q, c) /\ Follows(q)
    BY <2>2, <2>3, EaseFits DEF Fitting, Follows
  <2>6. ASSUME ~outlived' PROVE ~outlived /\ Owned(q) /\ misplaced' = {}
    <3>1. KeyOwned /\ r.wallet = signer /\ ~outlived
      BY <1>1, <1>2, <2>6
    <3>2. derived[identity] = signer /\ misplaced = {}
      BY <1>3, <3>1 DEF KeyOwned
    <3>3. Misgiven({r}, derived[identity]) = {}
      BY <3>1, <3>2 DEF Misgiven
    <3>4. Owned(q)
      BY <2>2, <2>3, <3>1, <3>2, EaseFits DEF Owned, KeyOwned
    <3> QED  BY <2>1, <3>1, <3>2, <3>3, <3>4
  <2>7. Still
    BY <2>1 DEF Still
  <2> QED  BY <2>1, <2>3, <2>5, <2>6, <2>7, GoesOnAlone
<1>4. ASSUME identity = 0, pending = NoCaller PROVE SessionInv'
  <2> DEFINE q == [r EXCEPT !.at = "signing", !.started = generation]
  <2>1. caller' = [caller EXCEPT ![c] = q] /\ pending' = c /\ misplaced' = misplaced
    BY <1>4 DEF Live
  <2>2. q \in CallerTypes /\ q.at = "signing" /\ q.started = generation /\ q.wallet = r.wallet
        /\ q.name = r.name /\ q.life = r.life
    BY <1>1 DEF SessionTypes, CallerTypes, CallStates
  <2> HIDE DEF q
  <2>3. caller' \in [Callers -> CallerTypes] /\ caller'[c] = q /\ \A d \in Callers \ {c} : caller'[d] = caller[d]
    BY <1>1, <2>1, <2>2 DEF SessionTypes
  <2>4. SessionTypes'
    BY <1>1, <2>1, <2>3 DEF SessionTypes
  <2>5. KeyFits' /\ TurnFits'
    BY <1>1, <2>1, <2>2, <2>3 DEF KeyFits, TurnFits, Clearing
  <2>6. \A d \in Callers : ~(caller[d].at = "signing" /\ caller[d].started = generation)
    BY <1>1, <1>4, SessionAssumptions DEF CallsFit, Fitting, NoCaller
  <2>7. ASSUME NEW d \in Callers \ {c} PROVE Fitting(caller[d], d)' /\ Follows(caller[d])'
    <3>1. Fitting(caller[d], d) /\ Follows(caller[d]) /\ caller'[d] = caller[d]
      BY <1>1, <2>3 DEF CallsFit
    <3>2. Fitting(caller[d], d)'
      BY <2>6, <3>1 DEF Fitting, Clearing
    <3>3. Follows(caller[d])'
      BY <2>3, <3>1 DEF Follows
    <3> QED  BY <3>2, <3>3
  <2>8. Fitting(caller[c], c)' /\ Follows(caller[c])'
    BY <1>1, <1>4, <2>1, <2>2, <2>3 DEF Fitting, Follows, SessionTypes
  <2>9. CallsFit'
    BY <2>3, <2>7, <2>8 DEF CallsFit
  <2>10. ASSUME ~outlived' PROVE CallsOwned' /\ KeyOwned'
    <3>1. CallsOwned /\ KeyOwned /\ r.wallet = signer
      BY <1>1, <1>2, <2>10
    <3>2. ASSUME NEW d \in Callers \ {c} PROVE Owned(caller[d])'
      <4>1. Owned(caller[d]) /\ Follows(caller[d]) /\ caller'[d] = caller[d]
        BY <1>1, <2>3, <3>1 DEF CallsOwned, CallsFit
      <4> QED  BY <2>3, <4>1 DEF Owned, Follows
    <3>3. Owned(caller[c])'
      BY <2>2, <2>3, <3>1 DEF Owned
    <3>4. CallsOwned'
      BY <2>3, <3>2, <3>3 DEF CallsOwned
    <3> QED  BY <2>1, <3>1, <3>4 DEF KeyOwned
  <2> QED  BY <2>4, <2>5, <2>9, <2>10 DEF SessionInv
<1>5. ASSUME identity = 0, pending # NoCaller PROVE SessionInv'
  <2> DEFINE q == [r EXCEPT !.at = "waiting", !.on = pending]
  <2>1. caller' = [caller EXCEPT ![c] = q] /\ pending' = pending /\ misplaced' = misplaced
    BY <1>5 DEF Live
  <2>2. q \in CallerTypes /\ q.at = "waiting" /\ q.on = pending /\ q.wallet = r.wallet
        /\ q.name = r.name /\ q.life = r.life /\ q.started = r.started
    BY <1>1 DEF SessionTypes, CallerTypes, CallStates
  <2> HIDE DEF q
  <2>3. pending \in Callers /\ caller[pending].at = "signing" /\ caller[pending].started = generation
    BY <1>1, <1>5 DEF SessionTypes, TurnFits
  <2>4. Fitting(q, c) /\ Follows(q)
    BY <2>2, <2>3 DEF Fitting, Follows
  <2>5. ASSUME ~outlived' PROVE ~outlived /\ Owned(q) /\ misplaced' = {}
    <3>1. CallsOwned /\ KeyOwned /\ r.wallet = signer /\ ~outlived
      BY <1>1, <1>2, <2>5
    <3> QED  BY <2>1, <2>2, <2>3, <3>1 DEF CallsOwned, Owned, KeyOwned
  <2>6. Still
    BY <2>1 DEF Still
  <2> QED  BY <2>1, <2>2, <2>4, <2>5, <2>6, GoesOnAlone
<1> QED  BY <1>3, <1>4, <1>5

LEMMA BeginReadStep == ASSUME SessionInv, NEW c \in Callers, NEW kind \in CallKinds, BeginRead(c, kind)
                       PROVE  SessionInv'
<1> DEFINE r == [AtEase EXCEPT !.kind = kind, !.wallet = signer, !.life = lifecycle,
                               !.name = IF naming = "unknown" THEN NoSigner ELSE signer]
<1>1. signer \in SignerNames /\ lifecycle \in Nat /\ generation \in Nat
  BY DEF SessionInv, SessionTypes
<1>2. /\ r \in CallerTypes /\ r.at = "idle" /\ r.started = 0 /\ r.life = lifecycle
      /\ r.name \in {NoSigner, signer} /\ r.wallet = signer
  BY <1>1 DEF AtEase, CallerTypes, CallStates, SignerNames
<1>3. Live(c, r) /\ caller[c].at = "idle"
  BY EaseTyped DEF BeginRead
<1>4. UNCHANGED <<generation, identity, unlocked, wiped, signer, lifecycle, shown, derived>>
      /\ UNCHANGED <<client, openSeed, openReceipt, rebuilt>>
  BY DEF BeginRead, walletVars, heldVars, openedVars
<1> HIDE DEF r
<1> QED  BY <1>1, <1>2, <1>3, <1>4, LiveStep

LEMMA PaidStep == ASSUME SessionInv, NEW c \in Callers, Paid(c) PROVE SessionInv'
<1>1. caller[c] \in CallerTypes /\ Fitting(caller[c], c)
  BY DEF SessionInv, SessionTypes, CallsFit
<1>2. UNCHANGED <<generation, identity, unlocked, wiped, signer, lifecycle, shown, derived>>
      /\ UNCHANGED <<client, openSeed, openReceipt, rebuilt>>
  BY DEF Paid, walletVars, heldVars, openedVars
<1> QED  BY <1>1, <1>2, LiveStep DEF Paid, Fitting

LEMMA BeginWriteStep == ASSUME SessionInv, NEW c \in Callers, BeginWrite(c) PROVE SessionInv'
<1> DEFINE q == [AtEase EXCEPT !.kind = "write", !.at = "paying", !.wallet = signer,
                               !.name = signer, !.life = lifecycle]
<1>1. signer \in SignerNames /\ lifecycle \in Nat /\ generation \in Nat
  BY DEF SessionInv, SessionTypes
<1>2. /\ q \in CallerTypes /\ q.at = "paying" /\ q.started = 0 /\ q.life = lifecycle /\ q.name = q.wallet
  BY <1>1 DEF AtEase, CallerTypes, CallStates, CallKinds, SignerNames
<1>3. caller' = [caller EXCEPT ![c] = q] /\ caller[c].at = "idle"
  BY EaseTyped DEF BeginWrite
<1>4. Still /\ UNCHANGED <<client, openSeed, openReceipt, rebuilt, misplaced, outlived>>
  BY DEF BeginWrite, walletVars, heldVars, openedVars, ghosts, Still
<1> HIDE DEF q
<1>5. Fitting(q, c) /\ Follows(q) /\ Owned(q)
  BY <1>1, <1>2 DEF Fitting, Follows, Owned
<1>6. ~outlived' => ~outlived /\ misplaced' = {}
  BY <1>4 DEF SessionInv, KeyOwned
<1> QED  BY <1>2, <1>3, <1>4, <1>5, <1>6, GoesOnAlone

\* Every call of a group goes on, and what goes on with it.
LEMMA SignStep == ASSUME SessionInv, NEW c \in Callers, Sign(c) PROVE SessionInv'
<1> DEFINE r == caller[c]
           key == Len(derived) + 1
           new == [wallet |-> r.wallet, name |-> r.name, key |-> key]
           G == Group(c)
           D == Append(derived, r.wallet)
<1>1. SessionTypes /\ CallsFit /\ KeyFits /\ TurnFits /\ (~outlived => CallsOwned /\ KeyOwned)
  BY DEF SessionInv
<1>2. r \in CallerTypes /\ r.at = "signing" /\ r.started = generation /\ Fitting(r, c) /\ shown = unlocked
  BY <1>1 DEF Sign, Lands, Rendered, SessionTypes, CallsFit
<1>3. pending = c /\ identity = 0 /\ unlocked = FALSE /\ shown = FALSE
  BY <1>1, <1>2 DEF Fitting, SessionTypes
<1>4. /\ D \in Seq(SignerNames) /\ DOMAIN D = DOMAIN derived \cup {key} /\ key \in Nat /\ key \notin DOMAIN derived
      /\ D[key] = r.wallet /\ \A k \in DOMAIN derived : D[k] = derived[k]
      /\ 0 \notin DOMAIN derived /\ key # 0
  <2>1. derived \in Seq(SignerNames) /\ r.wallet \in SignerNames
    BY <1>1, <1>2 DEF SessionTypes, CallerTypes
  <2>2. Len(derived) \in Nat /\ DOMAIN derived = 1..Len(derived)
    BY <2>1
  <2>3. D \in Seq(SignerNames) /\ Len(D) = key /\ DOMAIN D = 1..key
    BY <2>1
  <2> QED  BY <2>1, <2>2, <2>3
<1>5. new \in ClientTypes /\ new # NoClient /\ new.key = key /\ new.wallet = r.wallet /\ new.name = r.name
  BY <1>2, <1>4 DEF ClientTypes, CallerTypes, NoClient
<1>6. /\ G \subseteq Callers /\ c \in G
      /\ \A d \in G : d # c => caller[d].at = "waiting" /\ caller[d].on = c
      /\ \A d \in Callers \ G : caller[d].at = "waiting" => caller[d].on # c
  BY DEF Group
<1>7. /\ derived' = D /\ identity' = key /\ client' = new /\ unlocked' = TRUE /\ pending' = NoCaller
      /\ caller' = [d \in Callers |-> IF d \in G THEN Continued(caller[d], key, new) ELSE caller[d]]
      /\ misplaced' = misplaced \cup Misgiven({caller[d] : d \in G}, r.wallet)
  BY <1>3 DEF Sign, Lands, Forgets
<1>8. /\ generation' = generation /\ shown' = shown /\ wiped' = wiped /\ outlived' = outlived /\ rebuilt' = rebuilt
      /\ signer' = signer /\ lifecycle' = lifecycle /\ openSeed' = openSeed /\ openReceipt' = openReceipt
  BY DEF Sign, Lands, walletVars, openedVars
<1> HIDE DEF D, new, key, G
<1>9. ASSUME NEW d \in G
      PROVE  /\ caller'[d] \in CallerTypes
             /\ \/ caller'[d] = AtEase
                \/ /\ caller'[d].at = "reading" /\ caller'[d].key = key /\ caller'[d].by = r.wallet
                   /\ caller'[d].wallet = caller[d].wallet /\ caller'[d].name = caller[d].name
                   /\ caller'[d].started = caller[d].started /\ caller'[d].life = caller[d].life
                \/ /\ caller'[d].at = "building" /\ caller'[d].key = key /\ caller'[d].started = generation
                   /\ caller'[d].wallet = caller[d].wallet /\ caller'[d].name = caller[d].name
                   /\ caller'[d].life = caller[d].life
  <2>1. caller'[d] = Continued(caller[d], key, new) /\ caller[d] \in CallerTypes /\ generation \in Nat
    BY <1>1, <1>6, <1>7 DEF SessionTypes
  <2>2. key \in Nat /\ key \in DOMAIN D /\ new \in ClientTypes /\ new.key \in DOMAIN D /\ new.key = key /\ new.wallet = r.wallet
    BY <1>4, <1>5
  <2> HIDE DEF r
  <2> QED  BY <2>1, <2>2, ContinuedCall
<1>10. \A d \in Callers \ G : caller'[d] = caller[d]
  BY <1>7
<1>11. SessionTypes'
  <2>1. caller' \in [Callers -> CallerTypes]
    <3>1. \A d \in Callers : caller'[d] \in CallerTypes
      BY <1>1, <1>9, <1>10 DEF SessionTypes
    <3> QED  BY <1>7, <3>1
  <2>2. derived' \in Seq(SignerNames) /\ wiped' \subseteq DOMAIN derived' /\ identity' \in DOMAIN derived'
        /\ identity' # 0 /\ client' \in ClientTypes
    BY <1>1, <1>4, <1>5, <1>7, <1>8 DEF SessionTypes
  <2> QED  BY <1>1, <1>7, <1>8, <2>1, <2>2 DEF SessionTypes
<1>12. KeyFits' /\ TurnFits'
  <2>1. \A k \in DOMAIN derived' : k \in wiped' <=> k # identity'
    <3>1. \A k \in DOMAIN derived : k \in wiped
      BY <1>1, <1>3, <1>4 DEF KeyFits
    <3>2. key \notin wiped
      BY <1>1, <1>4 DEF SessionTypes
    <3> QED  BY <1>4, <1>7, <1>8, <3>1, <3>2
  <2>2. client'.key = key /\ key \in DOMAIN derived' /\ identity' = key
    BY <1>4, <1>5, <1>7
  <2>3. {openSeed', openReceipt'} \subseteq {0}
    BY <1>1, <1>3, <1>8 DEF KeyFits, Clearing
  <2>4. pending' = NoCaller
    BY <1>7
  <2> QED  BY <2>1, <2>2, <2>3, <2>4 DEF KeyFits, TurnFits
<1>13. ASSUME NEW d \in G PROVE Fitting(caller[d], d)' /\ Follows(caller[d])'
  <2>1. Fitting(caller[d], d) /\ generation \in Nat /\ lifecycle \in Nat
    BY <1>1, <1>6 DEF CallsFit, SessionTypes
  <2> HIDE DEF r
  <2>2. key \in DOMAIN derived' /\ identity' = key
    BY <1>4, <1>7
  <2> QED  BY <1>8, <1>9, <2>1, <2>2, EaseTyped DEF Fitting, Follows
<1>14. ASSUME NEW d \in Callers \ G PROVE Fitting(caller[d], d)' /\ Follows(caller[d])'
  <2>1. Fitting(caller[d], d) /\ Follows(caller[d]) /\ caller'[d] = caller[d] /\ d # c
    BY <1>1, <1>6, <1>10 DEF CallsFit
  <2>6. caller[d].at = "waiting" => caller[d].on \in Callers \ G /\ caller[caller[d].on].at = "signing"
    BY <1>6, <2>1 DEF Follows
  <2>2. Follows(caller[d])'
    BY <1>10, <2>1, <2>6 DEF Follows
  <2>3. DOMAIN derived \subseteq DOMAIN derived' /\ ~(shown' /\ ~unlocked') /\ ~(shown /\ ~unlocked)
    BY <1>3, <1>4, <1>7, <1>8
  <2>4. /\ ~(caller[d].at = "signing" /\ caller[d].started = generation)
        /\ ~(caller[d].at = "building" /\ caller[d].started = generation)
        /\ ~(caller[d].at = "opened" /\ caller[d].life = lifecycle)
    BY <1>3, <1>4, <2>1, <2>3 DEF Fitting, Clearing
  <2>5. Fitting(caller[d], d)'
    BY <1>8, <2>1, <2>3, <2>4 DEF Fitting, Clearing
  <2> QED  BY <2>2, <2>5
<1>15. CallsFit'
  BY <1>13, <1>14 DEF CallsFit
<1>16. ASSUME ~outlived' PROVE CallsOwned' /\ KeyOwned'
  <2>1. CallsOwned /\ KeyOwned
    BY <1>1, <1>8, <1>16
  <2>2. r.wallet = signer
    BY <1>2, <2>1 DEF CallsOwned, Owned
  <2>3. \A d \in G : caller[d].wallet = r.wallet
    BY <1>6, <2>1 DEF CallsOwned, Owned
  <2>4. ASSUME NEW d \in G PROVE Owned(caller[d])'
    <3>1. derived'[key] = r.wallet /\ caller[d].wallet = r.wallet
      BY <1>4, <1>7, <2>3
    <3> HIDE DEF r
    <3> QED  BY <1>9, <3>1, EaseTyped DEF Owned
  <2>5. ASSUME NEW d \in Callers \ G PROVE Owned(caller[d])'
    <3>1. Owned(caller[d]) /\ Fitting(caller[d], d) /\ Follows(caller[d]) /\ caller'[d] = caller[d]
      BY <1>1, <1>10, <2>1 DEF CallsFit, CallsOwned
    <3>2. \A k \in DOMAIN derived : derived'[k] = derived[k]
      BY <1>4, <1>7
    <3>3. caller[d].at = "waiting" => caller'[caller[d].on] = caller[caller[d].on]
      <4>1. caller[d].at = "waiting" => caller[d].on \in Callers \ G
        BY <1>6, <3>1 DEF Follows
      <4> QED  BY <1>10, <4>1
    <3> QED  BY <1>8, <3>1, <3>2, <3>3 DEF Owned, Fitting
  <2>6. misplaced' = {}
    <3>1. \A d \in G : caller[d].name \in {NoSigner, r.wallet}
      BY <1>1, <1>6, <2>3 DEF CallsFit, Fitting
    <3>2. Misgiven({caller[d] : d \in G}, r.wallet) = {}
      BY <3>1 DEF Misgiven
    <3> QED  BY <1>7, <2>1, <3>2 DEF KeyOwned
  <2>7. KeyOwned'
    BY <1>4, <1>5, <1>7, <1>8, <2>2, <2>6 DEF KeyOwned
  <2>8. CallsOwned'
    BY <2>4, <2>5 DEF CallsOwned
  <2> QED  BY <2>7, <2>8
<1> QED  BY <1>11, <1>12, <1>15, <1>16 DEF SessionInv

LEMMA SignFailsStep == ASSUME SessionInv, NEW c \in Callers, SignFails(c) PROVE SessionInv'
<1> DEFINE G == Group(c)
<1>1. SessionTypes /\ CallsFit /\ KeyFits /\ TurnFits /\ (~outlived => CallsOwned /\ KeyOwned)
  BY DEF SessionInv
<1>2. /\ G \subseteq Callers /\ c \in G /\ caller[c].at = "signing"
      /\ \A d \in G : d # c => caller[d].at = "waiting" /\ caller[d].on = c
      /\ \A d \in Callers \ G : caller[d].at = "waiting" => caller[d].on # c
  BY DEF Group, SignFails
<1>3. /\ caller' = [d \in Callers |-> IF d \in G THEN AtEase ELSE caller[d]]
      /\ pending' = IF pending = c THEN NoCaller ELSE pending
  BY DEF SignFails, Fails, Forgets
<1>4. UNCHANGED <<generation, identity, client, unlocked, wiped, signer, lifecycle, openSeed, openReceipt,
                  shown, derived, rebuilt, outlived, misplaced>>
  BY DEF SignFails, walletVars, heldVars, openedVars, ghosts
<1> HIDE DEF G
<1>5. SessionTypes'
  <2>1. caller' \in [Callers -> CallerTypes]
    BY <1>1, <1>3, EaseTyped DEF SessionTypes
  <2> QED  BY <1>1, <1>3, <1>4, <2>1 DEF SessionTypes
<1>6. KeyFits' /\ TurnFits'
  <2>1. KeyFits'
    BY <1>1, <1>4 DEF KeyFits, Clearing
  <2>2. pending' # NoCaller => pending' = pending /\ pending \in Callers \ G
    BY <1>1, <1>2, <1>3 DEF SessionTypes, TurnFits
  <2>3. TurnFits'
    BY <1>1, <1>3, <1>4, <2>2 DEF TurnFits
  <2> QED  BY <2>1, <2>3
<1>7. ASSUME NEW d \in G PROVE Fitting(caller[d], d)' /\ Follows(caller[d])' /\ Owned(caller[d])'
  BY <1>1, <1>2, <1>3, <1>4, EaseTyped DEF Fitting, Follows, Owned, SessionTypes
<1>8. ASSUME NEW d \in Callers \ G
      PROVE  Fitting(caller[d], d)' /\ Follows(caller[d])' /\ (Owned(caller[d]) => Owned(caller[d])')
  <2>1. Fitting(caller[d], d) /\ Follows(caller[d]) /\ caller'[d] = caller[d] /\ d # c
    BY <1>1, <1>2, <1>3 DEF CallsFit
  <2>2. caller[d].at = "waiting" => caller'[caller[d].on] = caller[caller[d].on]
    <3>1. caller[d].at = "waiting" => caller[d].on \in Callers \ G
      BY <1>2, <2>1 DEF Follows
    <3> QED  BY <1>3, <3>1
  <2>3. Follows(caller[d])' /\ (Owned(caller[d]) => Owned(caller[d])')
    BY <1>4, <2>1, <2>2 DEF Follows, Owned
  <2>4. pending = d => pending' = d
    BY <1>3, <2>1
  <2>5. Fitting(caller[d], d)'
    BY <1>4, <2>1, <2>4 DEF Fitting, Clearing
  <2> QED  BY <2>3, <2>5
<1>9. CallsFit'
  BY <1>7, <1>8 DEF CallsFit
<1>10. ASSUME ~outlived' PROVE CallsOwned' /\ KeyOwned'
  <2>1. CallsOwned /\ KeyOwned
    BY <1>1, <1>4, <1>10
  <2> QED  BY <1>4, <1>7, <1>8, <2>1 DEF CallsOwned, KeyOwned
<1> QED  BY <1>5, <1>6, <1>9, <1>10 DEF SessionInv

LEMMA RebuildStep == ASSUME SessionInv, NEW c \in Callers, Rebuild(c) PROVE SessionInv'
<1> DEFINE r == caller[c]
           q == [r EXCEPT !.at = "reading", !.by = r.wallet]
<1>1. SessionTypes /\ CallsFit /\ KeyFits /\ TurnFits /\ (~outlived => CallsOwned /\ KeyOwned)
  BY DEF SessionInv
<1>2. r \in CallerTypes /\ r.at = "building" /\ Fitting(r, c)
  BY <1>1 DEF Rebuild, SessionTypes, CallsFit
<1>3. /\ q \in CallerTypes /\ q.at = "reading" /\ q.by = r.wallet /\ q.wallet = r.wallet /\ q.name = r.name
      /\ q.key = r.key /\ q.started = r.started /\ q.life = r.life
  BY <1>2 DEF CallerTypes, CallStates
<1>4. caller' = [caller EXCEPT ![c] = q]
  <2>1. caller' = [caller EXCEPT ![c].at = "reading", ![c].by = r.wallet]
    BY DEF Rebuild
  <2> QED  BY <1>1, <2>1 DEF SessionTypes
<1>5. client' = [wallet |-> r.wallet, name |-> r.name, key |-> r.key] /\ rebuilt' = (rebuilt \/ r.started # generation)
  BY DEF Rebuild
<1>6. Still /\ UNCHANGED <<openSeed, openReceipt, misplaced, outlived>>
  BY DEF Rebuild, Still, walletVars, openedVars
<1> HIDE DEF q
<1>7. client' \in ClientTypes /\ openSeed' \in Nat /\ openReceipt' \in Nat
  BY <1>1, <1>2, <1>5, <1>6 DEF SessionTypes, ClientTypes, CallerTypes
<1>8. Fitting(q, c) /\ Follows(q)
  BY <1>2, <1>3 DEF Fitting, Follows
<1>9. SessionTypes' /\ TurnFits' /\ CallsFit' /\ (CallsOwned /\ Owned(q) => CallsOwned')
  BY <1>2, <1>3, <1>4, <1>6, <1>7, <1>8, PutCaller
<1>10. KeyFits'
  BY <1>1, <1>2, <1>5, <1>6 DEF KeyFits, Still, Clearing, Fitting
<1>11. ASSUME ~outlived' PROVE CallsOwned' /\ KeyOwned'
  <2>1. CallsOwned /\ KeyOwned /\ derived[r.key] = r.wallet
    BY <1>1, <1>2, <1>6, <1>11 DEF CallsOwned, Owned
  <2>2. Owned(q)
    BY <1>3, <2>1 DEF Owned
  <2>3. KeyOwned'
    BY <1>5, <1>6, <2>1 DEF KeyOwned, Still
  <2> QED  BY <1>9, <2>1, <2>2, <2>3
<1> QED  BY <1>9, <1>10, <1>11 DEF SessionInv

LEMMA OpensStep == ASSUME SessionInv, NEW c \in Callers, Opens(c) PROVE SessionInv'
<1> DEFINE r == caller[c]
           q == [r EXCEPT !.at = "opened"]
<1>1. SessionTypes /\ CallsFit /\ KeyFits
  BY DEF SessionInv
<1>2. r \in CallerTypes /\ r.at = "reading" /\ Fitting(r, c) /\ r.key \notin wiped
  BY <1>1 DEF Opens, SessionTypes, CallsFit
<1>3. /\ q \in CallerTypes /\ q.at = "opened" /\ q.wallet = r.wallet /\ q.name = r.name
      /\ q.key = r.key /\ q.started = r.started /\ q.life = r.life
  BY <1>2 DEF CallerTypes, CallStates
<1>4. caller' = [caller EXCEPT ![c] = q]
  <2>1. caller' = [caller EXCEPT ![c].at = "opened"]
    BY DEF Opens
  <2> QED  BY <1>1, <2>1 DEF SessionTypes
<1>5. Still /\ UNCHANGED <<client, openSeed, openReceipt, rebuilt, misplaced, outlived>>
  BY DEF Opens, Still, walletVars, heldVars, openedVars, ghosts
<1> HIDE DEF q
<1>6. r.key = identity
  BY <1>1, <1>2 DEF Fitting, KeyFits
<1>7. Fitting(q, c) /\ Follows(q) /\ Owned(q)
  BY <1>2, <1>3, <1>6 DEF Fitting, Follows, Owned
<1>8. ~outlived' => ~outlived /\ misplaced' = {}
  BY <1>5 DEF SessionInv, KeyOwned
<1> QED  BY <1>2, <1>3, <1>4, <1>5, <1>7, <1>8, GoesOnAlone

LEMMA SealsStep == ASSUME SessionInv, NEW c \in Callers, Seals(c) PROVE SessionInv'
<1>1. Still /\ UNCHANGED <<client, openSeed, openReceipt, rebuilt, outlived>>
  BY DEF Seals, Still, walletVars, heldVars, openedVars
<1>2. generation \in Nat /\ lifecycle \in Nat /\ caller[c].at = "reading" /\ caller' = [caller EXCEPT ![c] = AtEase]
  BY DEF Seals, SessionInv, SessionTypes
<1>3. ASSUME ~outlived' PROVE misplaced' = {}
  <2>1. Owned(caller[c]) /\ misplaced = {}
    BY <1>1, <1>3 DEF SessionInv, CallsOwned, KeyOwned
  <2>2. caller[c].by = derived[caller[c].key]
    BY <1>2, <2>1 DEF Owned
  <2> QED  BY <2>1, <2>2 DEF Seals
<1> QED  BY <1>1, <1>2, <1>3, EaseTyped, EaseFits, GoesOnAlone

LEMMA CallFailsStep == ASSUME SessionInv, NEW c \in Callers, CallFails(c) PROVE SessionInv'
<1>1. Still /\ UNCHANGED <<client, openSeed, openReceipt, rebuilt, misplaced, outlived>>
  BY DEF CallFails, Still, walletVars, heldVars, openedVars, ghosts
<1>2. generation \in Nat /\ lifecycle \in Nat /\ caller[c].at # "signing"
  BY DEF CallFails, SessionInv, SessionTypes
<1>3. caller' = [caller EXCEPT ![c] = AtEase]
  BY DEF CallFails, Fails, SessionInv, SessionTypes
<1>4. ~outlived' => ~outlived /\ misplaced' = {}
  BY <1>1 DEF SessionInv, KeyOwned
<1> QED  BY <1>1, <1>2, <1>3, <1>4, EaseTyped, EaseFits, GoesOnAlone

LEMMA DeliversStep == ASSUME SessionInv, NEW c \in Callers, Delivers(c) PROVE SessionInv'
<1>1. SessionTypes /\ CallsFit /\ KeyFits /\ TurnFits /\ (~outlived => CallsOwned /\ KeyOwned)
  BY DEF SessionInv
<1>2. Still /\ UNCHANGED <<client, rebuilt, misplaced, outlived>>
  BY DEF Delivers, Still, walletVars, heldVars, ghosts
<1>3. /\ caller[c] \in CallerTypes /\ caller[c].at = "opened" /\ Fitting(caller[c], c)
      /\ caller' = [caller EXCEPT ![c] = AtEase]
  BY <1>1 DEF Delivers, SessionTypes, CallsFit
<1>4. /\ openSeed' \in {openSeed, caller[c].key} /\ openReceipt' \in {openReceipt, caller[c].key}
      /\ caller[c].life # lifecycle => UNCHANGED <<openSeed, openReceipt>>
  BY DEF Delivers
<1>5. client' \in ClientTypes /\ openSeed' \in Nat /\ openReceipt' \in Nat
  BY <1>1, <1>2, <1>3, <1>4 DEF SessionTypes, CallerTypes
<1>6. Fitting(AtEase, c) /\ Follows(AtEase) /\ Owned(AtEase)
  BY <1>1, EaseFits DEF SessionTypes
<1>7. SessionTypes' /\ TurnFits' /\ CallsFit' /\ (CallsOwned => CallsOwned')
  BY <1>2, <1>3, <1>5, <1>6, EaseTyped, PutCaller
<1>8. KeyFits'
  BY <1>1, <1>2, <1>3, <1>4 DEF KeyFits, Still, Clearing, Fitting
<1>9. KeyOwned => KeyOwned'
  BY <1>2 DEF KeyOwned, Still
<1> QED  BY <1>1, <1>2, <1>7, <1>8, <1>9 DEF SessionInv

\* A lock ends the session for every call, and what was opened in it is taken away at once
\* or by the effects.
LEMMA LockedStep ==
  ASSUME SessionInv, Locked, UNCHANGED <<caller, derived, shown, misplaced, outlived, rebuilt>>,
         signer' \in SignerNames,
         \/ shown /\ UNCHANGED <<lifecycle, openSeed, openReceipt>>
         \/ lifecycle' = lifecycle + 1 /\ openSeed' = 0 /\ openReceipt' = 0
  PROVE  SessionInv'
<1>1. SessionTypes /\ CallsFit /\ KeyFits /\ TurnFits /\ (~outlived => CallsOwned /\ KeyOwned)
  BY DEF SessionInv
<1>2. SessionTypes'
  <2>1. identity # 0 => identity \in DOMAIN derived
    BY <1>1 DEF SessionTypes
  <2>2. wiped' \subseteq DOMAIN derived /\ client' \in ClientTypes /\ generation' \in Nat
    BY <1>1, <2>1, EaseTyped DEF SessionTypes, Locked
  <2>3. openSeed' \in Nat /\ openReceipt' \in Nat /\ lifecycle' \in Nat /\ pending' = NoCaller
        /\ identity' = 0 /\ unlocked' = FALSE
    BY <1>1 DEF SessionTypes, Locked
  <2> QED  BY <1>1, <2>2, <2>3 DEF SessionTypes
<1>3. KeyFits' /\ TurnFits'
  <2>1. \A k \in DOMAIN derived : k \in wiped' /\ k # 0
    BY <1>1 DEF SessionTypes, KeyFits, Locked
  <2>2. client' = NoClient /\ identity' = 0 /\ pending' = NoCaller /\ unlocked' = FALSE
    BY DEF Locked
  <2>3. ~(shown' /\ ~unlocked') => {openSeed', openReceipt'} \subseteq {0}
    BY <2>2
  <2> QED  BY <2>1, <2>2, <2>3 DEF KeyFits, TurnFits, Clearing
<1>4. ASSUME NEW c \in Callers PROVE Fitting(caller[c], c)' /\ Follows(caller[c])'
  <2>1. /\ Fitting(caller[c], c) /\ Follows(caller[c]) /\ generation \in Nat /\ lifecycle \in Nat
        /\ caller[c] \in CallerTypes
    BY <1>1 DEF CallsFit, SessionTypes
  <2>2. /\ caller[c].started \in Nat /\ generation' = generation + 1 /\ caller[c].started # generation'
        /\ caller[c].started <= generation' /\ unlocked' = FALSE
    BY <2>1 DEF Fitting, Locked, CallerTypes
  <2>3. caller[c].life <= lifecycle' /\ (shown' \/ caller[c].life # lifecycle')
    BY <2>1 DEF Fitting, CallerTypes
  <2>4. Fitting(caller[c], c)'
    BY <2>1, <2>2, <2>3 DEF Fitting, Clearing, CallerTypes
  <2> QED  BY <2>1, <2>4 DEF Follows
<1>5. ASSUME ~outlived' PROVE CallsOwned' /\ KeyOwned'
  <2>1. CallsOwned /\ KeyOwned
    BY <1>1, <1>5
  <2>2. ASSUME NEW c \in Callers PROVE Owned(caller[c])'
    <3>1. Owned(caller[c]) /\ caller[c].started < generation'
      BY <1>1, <2>1 DEF CallsOwned, CallsFit, Fitting, SessionTypes, CallerTypes, Locked
    <3> QED  BY <3>1, <1>1 DEF Owned, SessionTypes, CallerTypes, Locked
  <2> QED  BY <2>1, <2>2 DEF CallsOwned, KeyOwned, Locked
<1> QED  BY <1>2, <1>3, <1>4, <1>5 DEF SessionInv, CallsFit

\* The provider of what is open is cleared, or the effects or the user find nothing to clear.
LEMMA ClearedStep ==
  ASSUME SessionInv, UNCHANGED <<caller, derived, misplaced, outlived, rebuilt, signer, pending>>,
         UNCHANGED heldVars, shown' \in BOOLEAN,
         \/ lifecycle' = lifecycle + 1 /\ openSeed' = 0 /\ openReceipt' = 0
         \/ /\ lifecycle' = lifecycle /\ openSeed' \in {0, openSeed} /\ openReceipt' = openReceipt
            /\ Clearing => Clearing'
  PROVE  SessionInv'
<1>1. SessionTypes /\ CallsFit /\ KeyFits /\ TurnFits /\ (~outlived => CallsOwned /\ KeyOwned)
  BY DEF SessionInv
<1>2. /\ generation' = generation /\ identity' = identity /\ client' = client /\ unlocked' = unlocked
      /\ wiped' = wiped
  BY DEF heldVars
<1>3. SessionTypes'
  BY <1>1, <1>2 DEF SessionTypes
<1>4. TurnFits'
  BY <1>1, <1>2 DEF TurnFits
<1>5. KeyFits'
  BY <1>1, <1>2 DEF KeyFits
<1>6. ASSUME NEW c \in Callers PROVE Fitting(caller[c], c)' /\ Follows(caller[c])'
  <2>1. Fitting(caller[c], c) /\ Follows(caller[c]) /\ lifecycle \in Nat /\ caller[c].life \in Nat
    BY <1>1 DEF CallsFit, SessionTypes, CallerTypes
  <2>2. Follows(caller[c])'
    BY <2>1 DEF Follows
  <2>3. Fitting(caller[c], c)'
    BY <1>2, <2>1 DEF Fitting
  <2> QED  BY <2>2, <2>3
<1>7. CallsOwned /\ KeyOwned => CallsOwned' /\ KeyOwned'
  BY <1>2 DEF CallsOwned, Owned, KeyOwned
<1> QED  BY <1>1, <1>3, <1>4, <1>5, <1>6, <1>7 DEF SessionInv, CallsFit

LEMMA SessionStepInv == SessionInv /\ [SessionNext]_sessionVars => SessionInv'
<1> SUFFICES ASSUME SessionInv, [SessionNext]_sessionVars PROVE SessionInv'
  OBVIOUS
<1>1. ASSUME NEW c \in Callers, SessionStep(c) PROVE SessionInv'
  <2>1. ASSUME NEW kind \in CallKinds, BeginRead(c, kind) PROVE SessionInv'
    BY <2>1, BeginReadStep
  <2>2. CASE BeginWrite(c) \/ Paid(c)
    BY <2>2, BeginWriteStep, PaidStep
  <2>3. CASE Sign(c) \/ SignFails(c)
    BY <2>3, SignStep, SignFailsStep
  <2>4. CASE Rebuild(c) \/ Opens(c) \/ Seals(c)
    BY <2>4, RebuildStep, OpensStep, SealsStep
  <2>5. CASE CallFails(c) \/ Delivers(c)
    BY <2>5, CallFailsStep, DeliversStep
  <2> QED  BY <1>1, <2>1, <2>2, <2>3, <2>4, <2>5 DEF SessionStep
<1>2. CASE HideCode
  BY <1>2, ClearedStep DEF HideCode, walletVars, ghosts, SessionInv, SessionTypes, Clearing, heldVars
<1>3. CASE LockNow
  <2>1. SessionTypes
    BY DEF SessionInv
  <2> QED  BY <1>3, <2>1, LockedStep DEF LockNow, Rendered, walletVars, openedVars, ghosts, SessionTypes
<1>4. ASSUME NEW w \in Signers \cup {NoSigner}, Switch(w) PROVE SessionInv'
  BY <1>4, LockedStep DEF Switch, ghosts, Remounted, SignerNames
<1>5. CASE NameResolves
  BY <1>5, ClearedStep DEF NameResolves, openedVars, ghosts, SessionInv, SessionTypes, Clearing, heldVars
<1>6. CASE VaultLoads
  BY <1>6, ClearedStep DEF VaultLoads, ghosts, SessionInv, SessionTypes, Remounted
<1>7. CASE Effects
  <2>1. SessionTypes
    BY DEF SessionInv
  <2>2. unlocked => UNCHANGED openedVars /\ ~Clearing
    BY <1>7 DEF Effects, Clearing
  <2> QED  BY <1>7, <2>1, <2>2, ClearedStep DEF Effects, walletVars, openedVars, ghosts, SessionTypes
<1>8. CASE UNCHANGED sessionVars
  BY <1>8, ClearedStep DEF sessionVars, walletVars, heldVars, openedVars, ghosts, SessionInv, SessionTypes, Clearing
<1> QED  BY <1>1, <1>2, <1>3, <1>4, <1>5, <1>6, <1>7, <1>8 DEF SessionNext

LEMMA SessionInvHolds == OwnersSpec => []SessionInv
<1>1. OwnersInit => SessionInv
  BY OwnersInits, SessionInitInv
<1>2. SessionInv /\ [OwnersNext]_ownersVars => SessionInv'
  BY OwnersSteps, SessionStepInv
<1> QED  BY <1>1, <1>2, PTL DEF OwnersSpec

\* There is one session: its calls share one prompt, the key that is held is whole and the
\* connected wallet's, and the client that is held holds it (identity.tsx).
THEOREM OneSessionHeld == OwnersSpec => []OneSession
<1>1. SessionInv => OneSession
  <2> SUFFICES ASSUME SessionInv PROVE OneSession
    OBVIOUS
  <2>1. \A c \in Callers : caller[c].at = "signing" /\ caller[c].started = generation => pending = c
    BY DEF SessionInv, CallsFit, Fitting
  <2>2. ~outlived => (identity # 0 => derived[identity] = signer /\ identity \notin wiped) /\ misplaced = {}
    BY DEF SessionInv, KeyOwned, SessionTypes, KeyFits
  <2>3. ~outlived /\ ~rebuilt /\ identity # 0 => client.key = identity
    BY DEF SessionInv, KeyFits
  <2> QED  BY <2>1, <2>2, <2>3 DEF OneSession
<1> QED  BY <1>1, SessionInvHolds, PTL

\* What is open was decrypted in this session (private-data.tsx).
THEOREM SeedsStayInSession == OwnersSpec => []SeedsOfThisSession
<1>1. SessionInv => SeedsOfThisSession
  BY DEF SessionInv, KeyFits, Clearing, SeedsOfThisSession, Rendered
<1> QED  BY <1>1, SessionInvHolds, PTL

----------------------------------------------------------------------------
\* Which vault is shown.  A lookup that may still decide was asked by the wallet that is
\* connected, before it adopted a name, and knows what the device remembers; the vault that
\* was asked for last is that of the name.  All of it until something outlives a switch.
Lookups == [account : Wallets, since : Nat, stored : Names \cup {NoName}, active : BOOLEAN, at : {"owner", "reverse"}]

WorkspaceTypes ==
    /\ account \in Wallets \cup {NoWallet}
    /\ resolved \in [address : Wallets \cup {NoWallet}, name : Names \cup {NoName}]
    /\ adopted \in Nat /\ latest \in Nat /\ broken \in BOOLEAN
    /\ adoptions \subseteq [address : Wallets, name : Names]
    /\ lookups \subseteq Lookups /\ \A l \in lookups : l.since <= adopted
    /\ loads \subseteq [number : Nat, name : Names] /\ \A l \in loads : l.number <= latest
    /\ flows \subseteq Names /\ vault \in Names \cup {NoName}
    /\ cached \in [Wallets -> Names \cup {NoName}]

\* Nothing but the lookup of the connected wallet may change its name.
NameDecided ==
    /\ account # NoWallet => /\ resolved.address = account
                             /\ choice # NoName => resolved.name = choice
    /\ account # NoWallet => \/ verified = account
                             \/ \E l \in lookups : l.active /\ l.since = adopted
    /\ \A l \in lookups : /\ l.active => l.account = account
                          /\ l.active /\ l.since = adopted => choice = NoName

VaultDecided ==
    OwnName # NoName => /\ \A l \in loads : l.number = latest => l.name = OwnName
                        /\ \/ vault = OwnName \/ broken
                           \/ \E l \in loads : l.number = latest

\* The lookup that may write the connected wallet's name, and what it knows.
DeviceDecided ==
    /\ \A l, m \in lookups : l.account = m.account => l = m
    /\ \A l \in lookups : l.account = account =>
           /\ l.active /\ l.since = adopted
           /\ cached[account] = IF l.at = "owner" THEN l.stored ELSE NoName
    /\ account # NoWallet /\ (\A l \in lookups : l.account # account) => cached[account] = resolved.name

WorkspaceInv ==
    /\ WorkspaceTypes
    /\ ~strayed => NameDecided /\ VaultDecided
    /\ ~strayed /\ ~raced => DeviceDecided

LEMMA WorkspaceInitInv == WorkspaceInit => WorkspaceInv
<1> SUFFICES ASSUME WorkspaceInit PROVE WorkspaceInv
  OBVIOUS
<1>1. WorkspaceTypes
  BY WorkspaceAssumptions DEF WorkspaceInit, WorkspaceTypes, Named
<1>2. NameDecided /\ VaultDecided /\ DeviceDecided
  BY DEF WorkspaceInit, NameDecided, VaultDecided, DeviceDecided, OwnName, Named
<1> QED  BY <1>1, <1>2 DEF WorkspaceInv

LEMMA OwnNameTyped == WorkspaceTypes => OwnName \in Names \cup {NoName}
  BY DEF WorkspaceTypes, OwnName

\* The vault that is read last is the last of those that are asked for.
LEMMA Loaded ==
  ASSUME WorkspaceTypes, NEW names \in Seq(Names), Load(names)
  PROVE  /\ latest' \in Nat /\ broken' \in BOOLEAN
         /\ loads' \subseteq [number : Nat, name : Names] /\ \A l \in loads' : l.number <= latest'
         /\ names = <<>> => UNCHANGED <<loads, latest, broken>>
         /\ names # <<>> => /\ \E l \in loads' : l.number = latest'
                            /\ \A l \in loads' : l.number = latest' => l.name = names[Len(names)]
<1>1. /\ latest \in Nat /\ broken \in BOOLEAN /\ loads \subseteq [number : Nat, name : Names]
      /\ \A l \in loads : l.number <= latest
  BY DEF WorkspaceTypes
<1>2. Len(names) \in Nat /\ \A i \in 1..Len(names) : names[i] \in Names
  OBVIOUS
<1> DEFINE new == {[number |-> latest + i, name |-> names[i]] : i \in 1..Len(names)}
<1>3. latest' = latest + Len(names) /\ loads' = loads \cup new /\ broken' = (broken /\ names = <<>>)
  BY DEF Load
<1>4. \A l \in new : /\ l \in [number : Nat, name : Names] /\ latest < l.number /\ l.number <= latest'
                     /\ l.number = latest' => l.name = names[Len(names)]
  <2> SUFFICES ASSUME NEW i \in 1..Len(names)
               PROVE  /\ latest + i \in Nat /\ names[i] \in Names /\ latest < latest + i
                      /\ latest + i <= latest' /\ (latest + i = latest' => names[i] = names[Len(names)])
    OBVIOUS
  <2>1. latest' = latest + Len(names) /\ i \in Nat /\ i > 0 /\ i <= Len(names)
    BY <1>2, <1>3
  <2>2. latest + i = latest' => i = Len(names)
    BY <1>1, <1>2, <2>1
  <2> QED  BY <1>1, <1>2, <2>1, <2>2
<1>5. names # <<>> => Len(names) \in 1..Len(names)
  BY <1>2
<1>6. ASSUME names # <<>> PROVE \E l \in new : l.number = latest'
  <2> DEFINE last == [number |-> latest + Len(names), name |-> names[Len(names)]]
  <2>1. last \in new /\ last.number = latest'
    BY <1>3, <1>5, <1>6
  <2> QED  BY <2>1
<1>7. names = <<>> => new = {} /\ Len(names) = 0
  BY <1>2
<1>8. latest' \in Nat /\ latest <= latest'
  BY <1>1, <1>2, <1>3
<1>9. names # <<>> => latest < latest'
  BY <1>1, <1>2, <1>3
<1> HIDE DEF new
<1>10. loads' \subseteq [number : Nat, name : Names]
  BY <1>1, <1>3, <1>4
<1>11. \A l \in loads' : l.number <= latest'
  <2> TAKE l \in loads'
  <2>1. CASE l \in loads
    <3>1. l.number \in Nat /\ l.number <= latest
      BY <1>1, <2>1
    <3> QED  BY <1>1, <1>8, <3>1
  <2> QED  BY <1>3, <1>4, <2>1
<1>12. names # <<>> => \A l \in loads' : l.number = latest' => l.name = names[Len(names)]
  <2> SUFFICES ASSUME names # <<>>, NEW l \in loads', l.number = latest' PROVE l \in new
    BY <1>4
  <2>1. CASE l \in loads
    <3>1. l.number \in Nat /\ l.number <= latest
      BY <1>1, <2>1
    <3> QED  BY <1>1, <1>8, <1>9, <3>1
  <2> QED  BY <1>3, <2>1
<1>13. names = <<>> => UNCHANGED <<loads, latest, broken>>
  BY <1>1, <1>3, <1>7
<1> QED  BY <1>1, <1>3, <1>6, <1>8, <1>10, <1>11, <1>12, <1>13

\* A name that changes, or is chosen, is loaded last.
LEMMA OwnLoaded ==
  ASSUME WorkspaceTypes, NEW first \in {<<>>} \cup {<<n>> : n \in Names}, LoadOwn(first), vault' = vault,
         OwnName' \in Names \cup {NoName}
  PROVE  /\ latest' \in Nat /\ broken' \in BOOLEAN
         /\ loads' \subseteq [number : Nat, name : Names] /\ \A l \in loads' : l.number <= latest'
         /\ first = <<>> /\ VaultDecided => VaultDecided'
         /\ first = <<OwnName'>> => VaultDecided'
<1>1. PICK own \in Names \cup {NoName} : own = OwnName'
  OBVIOUS
<1> DEFINE names == IF own \notin {OwnName, NoName} THEN Append(first, own) ELSE first
<1>2. first \in Seq(Names) /\ names \in Seq(Names)
  <2>1. first \in Seq(Names)
    <3>1. CASE first = <<>>
      BY <3>1
    <3>2. ASSUME NEW n \in Names, first = <<n>> PROVE first \in Seq(Names)
      BY <3>2
    <3> QED  BY <3>1, <3>2
  <2>2. own \in Names => Append(first, own) \in Seq(Names)
    BY <2>1
  <2> QED  BY <2>1, <2>2
<1>3. Load(names)
  BY <1>1 DEF LoadOwn
<1>4. ASSUME own \notin {OwnName, NoName} PROVE names # <<>> /\ names[Len(names)] = own
  <2>1. first \in Seq(Names) /\ own \in Names
    BY <1>2, <1>4
  <2>2. names = Append(first, own)
    BY <1>4
  <2>3. Len(Append(first, own)) = Len(first) + 1 /\ Append(first, own)[Len(first) + 1] = own /\ Len(first) \in Nat
        /\ Append(first, own) \in Seq(Names)
    BY <2>1
  <2> HIDE DEF names
  <2> QED  BY <2>2, <2>3
<1>5. ASSUME first = <<own>> PROVE names # <<>> /\ names[Len(names)] = own
  BY <1>4, <1>5
<1>6. ASSUME first = <<>>, own \in {OwnName, NoName} PROVE names = <<>>
  BY <1>6, Zenon
<1> HIDE DEF names
<1>7. /\ latest' \in Nat /\ broken' \in BOOLEAN
      /\ loads' \subseteq [number : Nat, name : Names] /\ \A l \in loads' : l.number <= latest'
      /\ names = <<>> => UNCHANGED <<loads, latest, broken>>
      /\ names # <<>> => /\ \E l \in loads' : l.number = latest'
                         /\ \A l \in loads' : l.number = latest' => l.name = names[Len(names)]
  BY <1>2, <1>3, Loaded
<1>8. names # <<>> /\ names[Len(names)] = own => VaultDecided'
  BY <1>1, <1>7 DEF VaultDecided
<1>9. first = <<>> /\ VaultDecided => VaultDecided'
  <2>1. CASE own = NoName
    BY <1>1, <2>1 DEF VaultDecided
  <2>2. CASE own = OwnName /\ first = <<>>
    BY <1>1, <1>6, <1>7, <2>2 DEF VaultDecided
  <2> QED  BY <1>4, <1>8, <2>1, <2>2
<1> QED  BY <1>1, <1>5, <1>7, <1>8, <1>9

LEMMA ConnectStep == ASSUME WorkspaceInv, NEW w \in Wallets \cup {NoWallet}, Connect(w) PROVE WorkspaceInv'
<1> DEFINE Gone(l) == [l EXCEPT !.active = FALSE]
           L == [account |-> w, since |-> adopted, stored |-> cached[w], active |-> TRUE,
                 at |-> IF cached[w] = NoName THEN "reverse" ELSE "owner"]
<1>1. WorkspaceTypes
  BY DEF WorkspaceInv
<1>2. /\ account' = w /\ choice' = NoName /\ strayed' = strayed
      /\ raced' = (raced \/ \E l \in lookups : l.account = w)
      /\ UNCHANGED <<verified, adopted, adoptions, vault, flows, cached>>
      /\ LoadOwn(<<>>)
  BY DEF Connect
<1>3. resolved' = IF w # NoWallet /\ resolved.address # w THEN Named(w, cached[w]) ELSE resolved
  BY <1>2 DEF Connect, Seeded
<1>4. lookups' = {Gone(l) : l \in lookups} \cup IF w = NoWallet THEN {} ELSE {L}
  BY DEF Connect
<1>5. \A l \in lookups : /\ Gone(l) \in Lookups /\ Gone(l).active = FALSE /\ Gone(l).account = l.account
                         /\ Gone(l).since = l.since /\ l.account \in Wallets
  BY <1>1 DEF WorkspaceTypes, Lookups
<1>6. w # NoWallet => /\ L \in Lookups /\ L.active /\ L.account = w /\ L.since = adopted /\ cached[w] \in Names \cup {NoName}
                      /\ cached[w] = IF L.at = "owner" THEN L.stored ELSE NoName
  BY <1>1 DEF WorkspaceTypes, Lookups
<1> HIDE DEF Gone, L
<1>7. resolved' \in [address : Wallets \cup {NoWallet}, name : Names \cup {NoName}]
      /\ (w # NoWallet => resolved'.address = w)
  BY <1>1, <1>3, <1>6 DEF WorkspaceTypes, Named
<1>8. OwnName' \in Names \cup {NoName}
  BY <1>7 DEF OwnName
<1>9. /\ latest' \in Nat /\ broken' \in BOOLEAN
      /\ loads' \subseteq [number : Nat, name : Names] /\ \A l \in loads' : l.number <= latest'
      /\ VaultDecided => VaultDecided'
  BY <1>1, <1>2, <1>8, OwnLoaded
<1>10. WorkspaceTypes'
  <2>1. lookups' \subseteq Lookups /\ \A l \in lookups' : l.since <= adopted
    <3>1. \A l \in lookups : Gone(l).since <= adopted
      BY <1>1, <1>5 DEF WorkspaceTypes
    <3>2. adopted <= adopted
      BY <1>1 DEF WorkspaceTypes
    <3> QED  BY <1>4, <1>5, <1>6, <3>1, <3>2
  <2> QED  BY <1>1, <1>2, <1>7, <1>9, <2>1 DEF WorkspaceTypes
<1>11. NameDecided'
  <2>1. w # NoWallet => L \in lookups'
    BY <1>4
  <2>2. \A l \in lookups' : l.active => l.account = w
    BY <1>4, <1>5, <1>6
  <2> QED  BY <1>2, <1>6, <1>7, <2>1, <2>2 DEF NameDecided
<1>12. ASSUME ~strayed', ~raced' PROVE DeviceDecided'
  <2>1. \A l \in lookups : l.account # w
    BY <1>2, <1>12
  <2>2. \A l, m \in lookups : l.account = m.account => l = m
    BY <1>2, <1>12 DEF WorkspaceInv, DeviceDecided
  <2>3. \A l, m \in lookups' : l.account = m.account => l = m
    BY <1>4, <1>5, <1>6, <2>1, <2>2
  <2>4. \A l \in lookups' : l.account = w => w # NoWallet /\ l = L
    BY <1>4, <1>5, <2>1
  <2>5. w # NoWallet => \E l \in lookups' : l.account = w
    BY <1>4, <1>6
  <2> QED  BY <1>2, <1>6, <2>3, <2>4, <2>5 DEF DeviceDecided
<1> QED  BY <1>2, <1>9, <1>10, <1>11, <1>12 DEF WorkspaceInv

\* A lookup returns what the device remembers by then.
LEMMA FindsStep ==
  ASSUME WorkspaceInv, NEW l \in lookups, NEW found \in Names \cup {NoName}, Finds(l, found),
         cached' \in [Wallets -> Names \cup {NoName}], \A w \in Wallets \ {l.account} : cached'[w] = cached[w],
         ~strayed /\ ~raced /\ l.account = account => cached'[account] = found
  PROVE  WorkspaceInv'
<1>1. WorkspaceTypes
  BY DEF WorkspaceInv
<1>2. UNCHANGED <<account, adopted, adoptions, vault, flows, choice, strayed, raced>> /\ lookups' = lookups \ {l}
  BY DEF Finds
<1>3. l \in Lookups /\ l.account \in Wallets
  BY <1>1 DEF WorkspaceTypes, Lookups
<1>4. CASE l.active /\ adopted = l.since
  <2>1. resolved' = Named(l.account, found) /\ verified' = l.account /\ LoadOwn(<<>>)
    BY <1>4 DEF Finds
  <2>2. /\ resolved' \in [address : Wallets \cup {NoWallet}, name : Names \cup {NoName}]
        /\ resolved'.address = l.account /\ resolved'.name = found
    BY <1>3, <2>1 DEF Named
  <2>3. OwnName' \in Names \cup {NoName}
    BY <2>2 DEF OwnName
  <2>4. /\ latest' \in Nat /\ broken' \in BOOLEAN
        /\ loads' \subseteq [number : Nat, name : Names] /\ \A k \in loads' : k.number <= latest'
        /\ VaultDecided => VaultDecided'
    BY <1>1, <1>2, <2>1, <2>3, OwnLoaded
  <2>5. WorkspaceTypes'
    BY <1>1, <1>2, <2>2, <2>4 DEF WorkspaceTypes
  <2>6. ASSUME ~strayed PROVE NameDecided'
    BY <1>2, <1>4, <2>1, <2>2, <2>6 DEF WorkspaceInv, NameDecided
  <2>7. ASSUME ~strayed, ~raced PROVE DeviceDecided'
    <3>1. l.account = account /\ \A m \in lookups' : m.account # account
      BY <1>2, <1>4, <2>7 DEF WorkspaceInv, NameDecided, DeviceDecided
    <3> QED  BY <1>2, <2>2, <2>7, <3>1 DEF WorkspaceInv, DeviceDecided
  <2> QED  BY <1>2, <2>4, <2>5, <2>6, <2>7 DEF WorkspaceInv
<1>5. CASE ~(l.active /\ adopted = l.since)
  <2>1. UNCHANGED <<resolved, verified, loads, latest, broken>>
    BY <1>5 DEF Finds
  <2>2. WorkspaceTypes'
    BY <1>1, <1>2, <2>1 DEF WorkspaceTypes
  <2>3. ASSUME ~strayed PROVE NameDecided' /\ VaultDecided'
    BY <1>2, <1>5, <2>1, <2>3 DEF WorkspaceInv, NameDecided, VaultDecided, OwnName
  <2>4. ASSUME ~strayed, ~raced PROVE DeviceDecided'
    <3>1. DeviceDecided /\ l.account # account
      BY <1>5, <2>4 DEF WorkspaceInv, DeviceDecided
    <3>2. account # NoWallet => cached'[account] = cached[account]
      BY <1>1, <3>1 DEF WorkspaceTypes
    <3>3. \A m \in lookups : m.account = account => account # NoWallet
      BY <1>1, WorkspaceAssumptions DEF WorkspaceTypes, Lookups
    <3> QED  BY <1>2, <2>1, <3>1, <3>2, <3>3 DEF DeviceDecided
  <2> QED  BY <1>2, <2>2, <2>3, <2>4 DEF WorkspaceInv
<1> QED  BY <1>4, <1>5

LEMMA OwnerIsAnotherStep == ASSUME WorkspaceInv, NEW l \in lookups, OwnerIsAnother(l) PROVE WorkspaceInv'
<1> DEFINE m == [l EXCEPT !.at = "reverse"]
<1>1. WorkspaceTypes /\ l \in Lookups /\ l.account \in Wallets /\ l.since <= adopted
  BY DEF WorkspaceInv, WorkspaceTypes, Lookups
<1>2. /\ m \in Lookups /\ m.account = l.account /\ m.since = l.since /\ m.active = l.active /\ m.at = "reverse"
  BY <1>1 DEF Lookups
<1>3. /\ lookups' = (lookups \ {l}) \cup {m}
      /\ cached' = [cached EXCEPT ![l.account] = NoName]
      /\ UNCHANGED <<account, resolved, verified, adopted, adoptions, loads, latest, vault, broken, flows,
                     choice, strayed, raced>>
  BY DEF OwnerIsAnother
<1> HIDE DEF m
<1>4. /\ cached' \in [Wallets -> Names \cup {NoName}] /\ cached'[l.account] = NoName
      /\ \A w \in Wallets \ {l.account} : cached'[w] = cached[w]
  BY <1>1, <1>3 DEF WorkspaceTypes
<1>5. WorkspaceTypes'
  BY <1>1, <1>2, <1>3, <1>4 DEF WorkspaceTypes
<1>6. ASSUME ~strayed PROVE NameDecided' /\ VaultDecided'
  <2>1. NameDecided /\ VaultDecided
    BY <1>6 DEF WorkspaceInv
  <2>2. (\E k \in lookups : k.active /\ k.since = adopted) => \E k \in lookups' : k.active /\ k.since = adopted
    BY <1>2, <1>3
  <2>3. \A k \in lookups' : /\ k.active => k.account = account
                            /\ k.active /\ k.since = adopted => choice = NoName
    BY <1>2, <1>3, <2>1 DEF NameDecided
  <2>4. VaultDecided'
    BY <1>3, <2>1 DEF VaultDecided, OwnName
  <2> QED  BY <1>3, <2>1, <2>2, <2>3, <2>4 DEF NameDecided
<1>7. ASSUME ~strayed, ~raced PROVE DeviceDecided'
  <2>1. DeviceDecided
    BY <1>7 DEF WorkspaceInv
  <2>2. \A j, k \in lookups' : j.account = k.account => j = k
    BY <1>2, <1>3, <2>1 DEF DeviceDecided
  <2>3. ASSUME NEW k \in lookups', k.account = account
        PROVE  /\ k.active /\ k.since = adopted
               /\ cached'[account] = IF k.at = "owner" THEN k.stored ELSE NoName
    <3>1. CASE k = m
      BY <1>2, <1>4, <2>1, <2>3, <3>1 DEF DeviceDecided
    <3>2. CASE k \in lookups \ {l}
      <4>1. k.account # l.account /\ k.account \in Wallets
        BY <1>1, <2>1, <3>2 DEF DeviceDecided, WorkspaceTypes, Lookups
      <4> QED  BY <1>4, <2>1, <2>3, <3>2, <4>1 DEF DeviceDecided
    <3> QED  BY <1>3, <3>1, <3>2
  <2>4. account # NoWallet /\ (\A k \in lookups' : k.account # account) => cached'[account] = resolved.name
    <3> SUFFICES ASSUME account # NoWallet, \A k \in lookups' : k.account # account
                 PROVE  cached'[account] = resolved.name
      OBVIOUS
    <3>1. l.account # account /\ \A k \in lookups : k.account # account
      BY <1>2, <1>3
    <3> QED  BY <1>1, <1>4, <2>1, <3>1 DEF DeviceDecided, WorkspaceTypes
  <2> QED  BY <1>3, <2>2, <2>3, <2>4 DEF DeviceDecided
<1> QED  BY <1>3, <1>5, <1>6, <1>7 DEF WorkspaceInv

LEMMA AdoptStep == ASSUME WorkspaceInv, NEW c \in adoptions, Adopt(c) PROVE WorkspaceInv'
<1>1. WorkspaceTypes /\ c \in [address : Wallets, name : Names] /\ c.address \in Wallets /\ c.name \in Names
  BY DEF WorkspaceInv, WorkspaceTypes
<1>2. /\ UNCHANGED <<account, lookups, vault, flows>> /\ adoptions' = adoptions \ {c} /\ adopted' = adopted + 1
      /\ cached' = [cached EXCEPT ![c.address] = c.name] /\ choice' = c.name /\ verified' = c.address
      /\ resolved' = IF account # NoWallet /\ c.address # account THEN Named(account, cached'[account]) ELSE c
      /\ strayed' = (strayed \/ c.address # account)
      /\ raced' = (raced \/ \E l \in lookups : l.account = c.address)
      /\ LoadOwn(<<c.name>>)
  BY DEF Adopt, Seeded
<1>3. /\ cached' \in [Wallets -> Names \cup {NoName}] /\ cached'[c.address] = c.name
  BY <1>1, <1>2 DEF WorkspaceTypes
<1>4. resolved' \in [address : Wallets \cup {NoWallet}, name : Names \cup {NoName}]
  <2>1. account # NoWallet => cached'[account] \in Names \cup {NoName}
    BY <1>1, <1>3 DEF WorkspaceTypes
  <2> QED  BY <1>1, <1>2, <2>1 DEF WorkspaceTypes, Named
<1>5. OwnName' \in Names \cup {NoName}
  BY <1>4 DEF OwnName
<1>6. /\ latest' \in Nat /\ broken' \in BOOLEAN
      /\ loads' \subseteq [number : Nat, name : Names] /\ \A l \in loads' : l.number <= latest'
      /\ c.name = OwnName' => VaultDecided'
  BY <1>1, <1>2, <1>5, OwnLoaded
<1>7. WorkspaceTypes'
  <2>1. adopted' \in Nat /\ \A l \in lookups' : l.since <= adopted'
    BY <1>1, <1>2 DEF WorkspaceTypes, Lookups
  <2> QED  BY <1>1, <1>2, <1>3, <1>4, <1>6, <2>1 DEF WorkspaceTypes
<1>8. ASSUME ~strayed' PROVE /\ NameDecided' /\ VaultDecided'
                             /\ ~raced' => DeviceDecided'
  <2>1. ~strayed /\ c.address = account /\ account # NoWallet
    BY <1>1, <1>2, <1>8, WorkspaceAssumptions
  <2>2. resolved' = c /\ account' = account
    BY <1>2, <2>1
  <2>3. VaultDecided'
    BY <1>6, <2>1, <2>2 DEF OwnName
  <2>4. \A l \in lookups : l.active => l.account = account /\ l.since # adopted'
    BY <1>1, <1>2, <2>1 DEF WorkspaceInv, NameDecided, WorkspaceTypes, Lookups
  <2>5. NameDecided'
    BY <1>2, <2>1, <2>2, <2>4 DEF NameDecided
  <2>6. ASSUME ~raced' PROVE DeviceDecided'
    <3>1. DeviceDecided /\ \A l \in lookups : l.account # account
      BY <1>2, <2>1, <2>6 DEF WorkspaceInv
    <3> QED  BY <1>2, <1>3, <2>1, <2>2, <3>1 DEF DeviceDecided
  <2> QED  BY <2>3, <2>5, <2>6
<1> QED  BY <1>7, <1>8 DEF WorkspaceInv

LEMMA LoadAnswersStep == ASSUME WorkspaceInv, NEW l \in loads, LoadAnswers(l) PROVE WorkspaceInv'
<1>1. WorkspaceTypes
  BY DEF WorkspaceInv
<1>2. /\ loads' = loads \ {l}
      /\ UNCHANGED <<account, resolved, verified, adopted, lookups, adoptions, latest, flows, cached, choice,
                     strayed, raced>>
      /\ \/ l.number # latest /\ UNCHANGED <<vault, broken>>
         \/ vault' = l.name /\ broken' = broken
         \/ broken' = TRUE /\ vault' = vault
      /\ l.number # latest => UNCHANGED <<vault, broken>>
  BY DEF LoadAnswers
<1>3. WorkspaceTypes'
  BY <1>1, <1>2 DEF WorkspaceTypes
<1>4. NameDecided => NameDecided'
  BY <1>2 DEF NameDecided
<1>5. DeviceDecided => DeviceDecided'
  BY <1>2 DEF DeviceDecided
<1>6. VaultDecided => VaultDecided'
  BY <1>2 DEF VaultDecided, OwnName
<1> QED  BY <1>2, <1>3, <1>4, <1>5, <1>6 DEF WorkspaceInv

LEMMA RefreshStep == ASSUME WorkspaceInv, NEW n \in flows, Refresh(n) PROVE WorkspaceInv'
<1>1. WorkspaceTypes /\ n \in Names
  BY DEF WorkspaceInv, WorkspaceTypes
<1>2. /\ flows' = flows \ {n} /\ Load(<<n>>) /\ strayed' = (strayed \/ n # OwnName)
      /\ UNCHANGED <<account, resolved, verified, adopted, lookups, adoptions, vault, cached, choice, raced>>
  BY DEF Refresh
<1>3. <<n>> \in Seq(Names) /\ <<n>> # <<>> /\ <<n>>[Len(<<n>>)] = n
  BY <1>1
<1>4. PICK names \in Seq(Names) : names = <<n>>
  BY <1>3
<1>5. names # <<>> /\ names[Len(names)] = n /\ Load(names)
  BY <1>2, <1>3, <1>4
<1>6. /\ latest' \in Nat /\ broken' \in BOOLEAN
      /\ loads' \subseteq [number : Nat, name : Names] /\ \A l \in loads' : l.number <= latest'
      /\ \E l \in loads' : l.number = latest'
      /\ \A l \in loads' : l.number = latest' => l.name = n
  BY <1>1, <1>5, Loaded
<1>7. WorkspaceTypes'
  BY <1>1, <1>2, <1>6 DEF WorkspaceTypes
<1>8. NameDecided => NameDecided'
  BY <1>2 DEF NameDecided
<1>9. DeviceDecided => DeviceDecided'
  BY <1>2 DEF DeviceDecided
<1>10. ~strayed' => VaultDecided'
  BY <1>2, <1>6 DEF VaultDecided, OwnName
<1> QED  BY <1>2, <1>7, <1>8, <1>9, <1>10 DEF WorkspaceInv

LEMMA WorkspaceStepInv == WorkspaceInv /\ [WorkspaceNext]_workspaceVars => WorkspaceInv'
<1> SUFFICES ASSUME WorkspaceInv, [WorkspaceNext]_workspaceVars PROVE WorkspaceInv'
  OBVIOUS
<1>1. ASSUME NEW w \in Wallets \cup {NoWallet}, Connect(w) PROVE WorkspaceInv'
  BY <1>1, ConnectStep
<1>2. ASSUME NEW l \in lookups, OwnerKept(l) PROVE WorkspaceInv'
  <2>1. /\ l.stored \in Names \cup {NoName} /\ cached' = cached /\ cached \in [Wallets -> Names \cup {NoName}]
        /\ Finds(l, l.stored)
    BY <1>2 DEF OwnerKept, WorkspaceInv, WorkspaceTypes, Lookups
  <2>2. ~strayed /\ ~raced /\ l.account = account => cached[account] = l.stored
    BY <1>2 DEF OwnerKept, WorkspaceInv, DeviceDecided
  <2> QED  BY <2>1, <2>2, FindsStep
<1>3. ASSUME NEW l \in lookups, OwnerIsAnother(l) PROVE WorkspaceInv'
  BY <1>3, OwnerIsAnotherStep
<1>4. ASSUME NEW l \in lookups, ReverseAnswers(l) PROVE WorkspaceInv'
  <2>1. l.account \in Wallets /\ cached \in [Wallets -> Names \cup {NoName}] /\ l.at = "reverse"
    BY <1>4 DEF ReverseAnswers, WorkspaceInv, WorkspaceTypes, Lookups
  <2>2. Reverse[l.account] \in Names \cup {NoName}
    BY <2>1, WorkspaceAssumptions
  <2>3. CASE cached' = [cached EXCEPT ![l.account] = Reverse[l.account]] /\ Finds(l, Reverse[l.account])
    <3>1. /\ cached' \in [Wallets -> Names \cup {NoName}] /\ cached'[l.account] = Reverse[l.account]
          /\ \A w \in Wallets \ {l.account} : cached'[w] = cached[w]
      BY <2>1, <2>2, <2>3
    <3> QED  BY <2>2, <2>3, <3>1, FindsStep
  <2>4. CASE UNCHANGED cached /\ Finds(l, NoName)
    <3>1. ~strayed /\ ~raced /\ l.account = account => cached[account] = NoName
      BY <2>1 DEF WorkspaceInv, DeviceDecided
    <3> QED  BY <2>1, <2>4, <3>1, FindsStep
  <2> QED  BY <1>4, <2>3, <2>4 DEF ReverseAnswers
<1> USE DEF WorkspaceInv, WorkspaceTypes, NameDecided, VaultDecided, DeviceDecided, OwnName
<1>5. ASSUME NEW n \in Names, BeginClaim(n) PROVE WorkspaceInv'
  BY <1>5 DEF BeginClaim, Named
<1>6. ASSUME NEW c \in adoptions, Refused(c) PROVE WorkspaceInv'
  BY <1>6 DEF Refused
<1>7. ASSUME NEW c \in adoptions, Adopt(c) PROVE WorkspaceInv'
  BY <1>7, AdoptStep
<1>8. ASSUME NEW l \in loads, LoadAnswers(l) PROVE WorkspaceInv'
  BY <1>8, LoadAnswersStep
<1>9. CASE BeginFlow
  <2>1. flows' \subseteq Names
    BY <1>9, OwnNameTyped DEF BeginFlow
  <2> QED  BY <1>9, <2>1 DEF BeginFlow
<1>10. ASSUME NEW n \in flows, Refresh(n) PROVE WorkspaceInv'
  BY <1>10, RefreshStep
<1>11. ASSUME NEW n \in Names, NEW w \in Wallets, Moves(n, w) PROVE WorkspaceInv'
  BY <1>11 DEF Moves
<1>12. CASE UNCHANGED workspaceVars
  BY <1>12 DEF workspaceVars
<1> QED  BY <1>1, <1>2, <1>3, <1>4, <1>5, <1>6, <1>7, <1>8, <1>9, <1>10, <1>11, <1>12 DEF WorkspaceNext

\* The dashboard settles on the name the user adopted, and on the vault of that name
\* (dashboard-shell.tsx).
THEOREM WorkspaceSettled == OwnersSpec => []WorkspaceSettles
<1>1. OwnersInit => WorkspaceInv
  BY OwnersInits, WorkspaceInitInv
<1>2. WorkspaceInv /\ [OwnersNext]_ownersVars => WorkspaceInv'
  BY OwnersSteps, WorkspaceStepInv
<1>3. WorkspaceInv => WorkspaceSettles
  <2> SUFFICES ASSUME WorkspaceInv PROVE WorkspaceSettles
    OBVIOUS
  <2>1. ASSUME ~strayed
        PROVE  /\ account # NoWallet /\ choice # NoName => OwnName = choice
               /\ account # NoWallet /\ (\A l \in lookups : ~l.active) => verified = account
               /\ OwnName # NoName /\ loads = {} => vault = OwnName \/ broken
               /\ account # NoWallet => OwnName = resolved.name
    BY <2>1 DEF WorkspaceInv, NameDecided, VaultDecided, OwnName
  <2>2. account # NoWallet /\ ~strayed /\ ~raced /\ (\A l \in lookups : l.account # account)
           => cached[account] = resolved.name
    BY DEF WorkspaceInv, DeviceDecided
  <2> QED  BY <2>1, <2>2 DEF WorkspaceSettles
<1> QED  BY <1>1, <1>2, <1>3, PTL DEF OwnersSpec
=============================================================================

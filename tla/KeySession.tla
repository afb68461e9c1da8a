------------------------------ MODULE KeySession ------------------------------
(***************************************************************************)
(* The key of the dashboard (web/src/components/dashboard/identity.tsx):   *)
(* derived from a wallet's signature when a call needs it, shared by every *)
(* call until the lock, and the seeds and receipts that calls opened with  *)
(* it (private-data.tsx).                                                  *)
(*                                                                         *)
(* A call works with the wallet and the name of the render that began it,  *)
(* and waits for the wallet, the chain and the other calls; the wallet may *)
(* be switched and the key locked under it.  A render and its effects are  *)
(* done before the wallet or the user answers.                             *)
(***************************************************************************)
EXTENDS Integers, Sequences

CONSTANTS Signers, NoSigner,  \* the wallets, each of which holds one name
          Callers,            \* bound: calls at once
          MaxKeys,            \* bound: keys that are derived
          Visits              \* bound: the kinds of calls, and how many, and switches of the wallet

ASSUME SessionAssumptions ==
    NoSigner \notin Signers /\ "none" \notin Callers /\ MaxKeys \in Nat

VARIABLES
    visit,            \* the visit of this behaviour
    signer, naming,   \* the connected wallet, and whether its name is unknown, known or loaded
    generation,       \* locks so far
    identity,         \* the key that is held, 0 for none
    client,           \* the client that is held
    pending,          \* the call whose signature the others wait for
    unlocked, shown,  \* the state of the session, and the one the effects have seen
    lifecycle,        \* private-data.tsx: generation
    inFlight,         \* a code is being opened
    openSeed, openReceipt,  \* the key the open seed and receipt were decrypted with, 0 for none
    caller,           \* the calls
    derived,          \* the wallet each key was derived from
    wiped,            \* the keys that were zeroed
    switches, begun,  \* switches of the wallet and calls so far
    misplaced,        \* ghost: keys of one wallet given to the extension, or sealed to, for another
    outlived,         \* ghost: a call took a session of another wallet than its own
    rebuilt           \* ghost: a client was rebuilt for a session that had ended

walletVars == <<signer, naming, switches>>
heldVars == <<generation, identity, client, unlocked, wiped>>
openedVars == <<lifecycle, openSeed, openReceipt>>
ghosts == <<misplaced, outlived, rebuilt>>
sessionVars == <<walletVars, heldVars, openedVars, ghosts, visit, pending, shown, inFlight, caller, derived, begun>>

CallKinds == {"code", "receipt", "write", "pair"}
CallStates == {"idle", "paying", "signing", "waiting", "building", "reading", "opened"}
NoClient == [wallet |-> NoSigner, name |-> NoSigner, key |-> 0]
NoCaller == "none"
AtEase == [kind |-> "none", at |-> "idle", wallet |-> NoSigner, name |-> NoSigner, on |-> NoCaller,
           started |-> 0, key |-> 0, by |-> NoSigner, life |-> 0]

SessionInit ==
    /\ visit \in Visits
    /\ signer \in Signers /\ naming \in {"unknown", "known"}
    /\ generation = 0 /\ identity = 0 /\ client = NoClient /\ pending = NoCaller
    /\ unlocked = FALSE /\ shown = FALSE /\ lifecycle = 0 /\ inFlight = FALSE
    /\ openSeed = 0 /\ openReceipt = 0
    /\ caller = [c \in Callers |-> AtEase]
    /\ derived = <<>> /\ wiped = {} /\ switches = 0 /\ begun = 0
    /\ misplaced = {} /\ outlived = FALSE /\ rebuilt = FALSE
----------------------------------------------------------------------------
\* What live() does next for a call once there is a key: the client that is held serves it
\* if it has the call's name, and is rebuilt if not.  handOff needs the key alone.
Continued(r, key, held) ==
    IF r.kind = "pair" THEN AtEase
    ELSE IF held # NoClient /\ held.name = r.name
         THEN [r EXCEPT !.at = "reading", !.key = held.key, !.by = held.wallet]
         ELSE [r EXCEPT !.at = "building", !.key = key, !.started = generation]

\* The names of these calls that another wallet's key is handed over for.
Misgiven(rs, wallet) == {r.name : r \in {q \in rs : q.kind = "pair"}} \ {wallet, NoSigner}

Live(c, r) ==
    /\ outlived' = (outlived \/ r.wallet # signer)
    /\ IF identity # 0
       THEN /\ caller' = [caller EXCEPT ![c] = Continued(r, identity, client)]
            /\ misplaced' = misplaced \cup Misgiven({r}, derived[identity])
            /\ UNCHANGED pending
       ELSE /\ IF pending = NoCaller
               THEN /\ caller' = [caller EXCEPT ![c] = [r EXCEPT !.at = "signing", !.started = generation]]
                    /\ pending' = c
               ELSE /\ caller' = [caller EXCEPT ![c] = [r EXCEPT !.at = "waiting", !.on = pending]]
                    /\ UNCHANGED pending
            /\ UNCHANGED misplaced

\* Mutant of Live: a call that finds no key asks the wallet, whoever asked before.
LiveAlone(c, r) ==
    /\ outlived' = (outlived \/ r.wallet # signer)
    /\ IF identity # 0
       THEN /\ caller' = [caller EXCEPT ![c] = Continued(r, identity, client)]
            /\ misplaced' = misplaced \cup Misgiven({r}, derived[identity])
            /\ UNCHANGED pending
       ELSE /\ caller' = [caller EXCEPT ![c] = [r EXCEPT !.at = "signing", !.started = generation]]
            /\ pending' = c /\ UNCHANGED misplaced

Rendered == shown = unlocked

\* The user opens a code or a receipt, or pairs the extension.
BeginRead(c, kind) ==
    /\ Rendered /\ begun < visit.calls /\ begun' = begun + 1
    /\ caller[c] = AtEase /\ signer # NoSigner /\ kind \in visit.kinds \ {"write"}
    /\ kind = "code" => ~inFlight
    /\ inFlight' = (inFlight \/ kind = "code")
    /\ Live(c, [AtEase EXCEPT !.kind = kind, !.wallet = signer, !.life = lifecycle,
                              !.name = IF naming = "unknown" THEN NoSigner ELSE signer])
    /\ UNCHANGED <<walletVars, heldVars, openedVars, shown, derived, rebuilt>>

\* A payment is sent, and its receipt is written when the rail has answered.
BeginWrite(c) ==
    /\ Rendered /\ begun < visit.calls /\ begun' = begun + 1
    /\ caller[c] = AtEase /\ signer # NoSigner /\ naming # "unknown"
    /\ "write" \in visit.kinds
    /\ caller' = [caller EXCEPT ![c] = [AtEase EXCEPT !.kind = "write", !.at = "paying", !.wallet = signer,
                                                      !.name = signer, !.life = lifecycle]]
    /\ UNCHANGED <<walletVars, heldVars, openedVars, ghosts, pending, shown, inFlight, derived>>

Paid(c) ==
    /\ caller[c].at = "paying"
    /\ Live(c, caller[c])
    /\ UNCHANGED <<walletVars, heldVars, openedVars, shown, inFlight, derived, begun, rebuilt>>

\* The calls that an attempt to unlock was for.
Group(c) == {c} \cup {d \in Callers : caller[d].at = "waiting" /\ caller[d].on = c}
Forgets(c) == pending' = IF pending = c THEN NoCaller ELSE pending

\* The wallet has signed and the key lands: every call that waited for it goes on.
Lands(c) ==
    LET r == caller[c]
        key == Len(derived) + 1
        new == [wallet |-> r.wallet, name |-> r.name, key |-> key]
    IN /\ Rendered /\ r.at = "signing" /\ key <= MaxKeys
       /\ derived' = Append(derived, r.wallet)
       /\ identity' = key /\ client' = new /\ unlocked' = TRUE
       /\ caller' = [d \in Callers |->
                        IF d \in Group(c) THEN Continued(caller[d], key, new) ELSE caller[d]]
       /\ misplaced' = misplaced \cup Misgiven({caller[d] : d \in Group(c)}, r.wallet)
       /\ Forgets(c)
       /\ UNCHANGED <<walletVars, openedVars, generation, shown, inFlight, wiped, begun, outlived,
                      rebuilt>>

\* Mutant of Sign: the key of a session that ended lands too.
SignAnyway(c) == Lands(c)
Sign(c) == caller[c].started = generation /\ Lands(c)

\* Calls that fail; the finally of the one that opens a code.
Fails(group) ==
    /\ caller' = [d \in Callers |-> IF d \in group THEN AtEase ELSE caller[d]]
    /\ inFlight' = (inFlight /\ \A d \in group : caller[d].kind = "code" => caller[d].life # lifecycle)

\* The wallet refuses, its signatures differ, or the session ended meanwhile: the key is wiped.
SignFails(c) ==
    /\ caller[c].at = "signing"
    /\ Fails(Group(c)) /\ Forgets(c)
    /\ UNCHANGED <<walletVars, heldVars, openedVars, ghosts, shown, derived, begun>>

\* build() with the key that was held returns.
Rebuild(c) ==
    LET r == caller[c]
    IN /\ r.at = "building"
       /\ client' = [wallet |-> r.wallet, name |-> r.name, key |-> r.key]
       /\ caller' = [caller EXCEPT ![c].at = "reading", ![c].by = r.wallet]
       /\ rebuilt' = (rebuilt \/ r.started # generation)
       /\ UNCHANGED <<walletVars, openedVars, generation, identity, pending, unlocked, shown, inFlight,
                      derived, wiped, begun, misplaced, outlived>>

\* get() decrypts, which a key that was wiped or another wallet's cannot.
Opens(c) ==
    LET r == caller[c]
    IN /\ r.at = "reading" /\ r.kind # "write"
       /\ r.key \notin wiped /\ derived[r.key] = r.wallet
       /\ caller' = [caller EXCEPT ![c].at = "opened"]
       /\ UNCHANGED <<walletVars, heldVars, openedVars, ghosts, pending, shown, inFlight, derived,
                      begun>>

\* create() seals to the public half of the client's key, which outlives a wipe.
Seals(c) ==
    LET r == caller[c]
    IN /\ r.at = "reading" /\ r.kind = "write"
       /\ misplaced' = misplaced \cup ({r.by} \ {derived[r.key]})
       /\ caller' = [caller EXCEPT ![c] = AtEase]
       /\ UNCHANGED <<walletVars, heldVars, openedVars, pending, shown, inFlight, derived, begun,
                      outlived, rebuilt>>

CallFails(c) ==
    /\ caller[c].at \in {"paying", "building", "reading"}
    /\ Fails({c})
    /\ UNCHANGED <<walletVars, heldVars, openedVars, ghosts, pending, shown, derived, begun>>

\* Mutant of Delivers: what was opened is shown, whatever came in between.
DeliversAnyway(c) ==
    LET r == caller[c]
    IN /\ r.at = "opened"
       /\ openSeed' = IF r.kind = "code" THEN r.key ELSE openSeed
       /\ openReceipt' = IF r.kind = "receipt" THEN r.key ELSE openReceipt
       /\ inFlight' = (inFlight /\ r.kind # "code")
       /\ caller' = [caller EXCEPT ![c] = AtEase]
       /\ UNCHANGED <<walletVars, heldVars, ghosts, pending, shown, lifecycle, derived, begun>>

\* What was opened is shown if the provider that asked is still there and was not cleared.
Delivers(c) ==
    LET r == caller[c]
        current == r.life = lifecycle
    IN /\ r.at = "opened"
       /\ openSeed' = IF current /\ r.kind = "code" THEN r.key ELSE openSeed
       /\ openReceipt' = IF current /\ r.kind = "receipt" THEN r.key ELSE openReceipt
       /\ inFlight' = (inFlight /\ ~(current /\ r.kind = "code"))
       /\ caller' = [caller EXCEPT ![c] = AtEase]
       /\ UNCHANGED <<walletVars, heldVars, ghosts, pending, shown, lifecycle, derived, begun>>

\* The user hides a code.
HideCode ==
    /\ openSeed # 0 /\ openSeed' = 0
    /\ UNCHANGED <<walletVars, heldVars, ghosts, pending, shown, lifecycle, inFlight, openReceipt,
                   caller, derived, begun>>

----------------------------------------------------------------------------
Locked ==
    /\ generation' = generation + 1
    /\ pending' = NoCaller /\ identity' = 0 /\ client' = NoClient
    /\ unlocked' = FALSE
    /\ wiped' = wiped \cup ({identity} \ {0})

\* PrivateDataProvider is remounted.
Remounted == lifecycle' = lifecycle + 1 /\ inFlight' = FALSE /\ openSeed' = 0 /\ openReceipt' = 0

\* The button, or a quarter of an hour without the user.
LockNow ==
    /\ unlocked /\ Rendered
    /\ Locked
    /\ UNCHANGED <<walletVars, openedVars, ghosts, shown, inFlight, caller, derived, begun>>

\* Another wallet, whose name the device may remember.
Switch(w) ==
    /\ Rendered /\ w # signer /\ switches < visit.switches
    /\ signer' = w /\ switches' = switches + 1
    /\ naming' \in IF w = NoSigner THEN {"unknown"} ELSE {"unknown", "known"}
    /\ Locked /\ Remounted
    /\ UNCHANGED <<ghosts, shown, caller, derived, begun>>

NameResolves ==
    /\ Rendered /\ naming = "unknown" /\ signer # NoSigner
    /\ naming' = "known"
    /\ UNCHANGED <<heldVars, openedVars, ghosts, signer, pending, shown, inFlight, caller, derived,
                   switches, begun>>

VaultLoads ==
    /\ Rendered /\ naming = "known"
    /\ naming' = "loaded"
    /\ Remounted
    /\ UNCHANGED <<heldVars, ghosts, signer, pending, shown, caller, derived, switches, begun>>

\* Mutant of Effects: a lock leaves what was opened.
EffectsLess ==
    /\ ~Rendered
    /\ shown' = unlocked
    /\ UNCHANGED <<walletVars, heldVars, openedVars, ghosts, pending, inFlight, caller, derived, begun>>

\* The effect of PrivateDataProvider on unlocked.
Effects ==
    /\ ~Rendered
    /\ shown' = unlocked
    /\ IF unlocked THEN UNCHANGED <<openedVars>>
       ELSE lifecycle' = lifecycle + 1 /\ openSeed' = 0 /\ openReceipt' = 0
    /\ UNCHANGED <<walletVars, heldVars, ghosts, pending, inFlight, caller, derived, begun>>

SessionStep(c) ==
    \/ \E kind \in CallKinds : BeginRead(c, kind)
    \/ BeginWrite(c) \/ Paid(c)
    \/ Sign(c) \/ SignFails(c)
    \/ Rebuild(c) \/ Opens(c) \/ Seals(c) \/ CallFails(c)
    \/ Delivers(c)

SessionNext ==
    /\ UNCHANGED visit
    /\ \/ \E c \in Callers : SessionStep(c)
       \/ HideCode
       \/ LockNow
       \/ \E w \in Signers \cup {NoSigner} : Switch(w)
       \/ NameResolves \/ VaultLoads
       \/ Effects
----------------------------------------------------------------------------
SessionTypeOK ==
    /\ visit \in Visits /\ signer \in Signers \cup {NoSigner} /\ naming \in {"unknown", "known", "loaded"}
    /\ generation \in Nat /\ lifecycle \in Nat /\ identity \in 0..Len(derived) /\ wiped \subseteq 1..Len(derived)
    /\ client \in [wallet : Signers \cup {NoSigner}, name : Signers \cup {NoSigner}, key : 0..Len(derived)]
    /\ pending \in Callers \cup {NoCaller}
    /\ {unlocked, shown, inFlight, outlived, rebuilt} \subseteq BOOLEAN
    /\ {openSeed, openReceipt} \subseteq 0..Len(derived)
    /\ derived \in Seq(Signers) /\ misplaced \subseteq Signers
    /\ caller \in [Callers -> [kind : CallKinds \cup {"none"}, at : CallStates, wallet : Signers \cup {NoSigner},
                               name : Signers \cup {NoSigner}, on : Callers \cup {NoCaller}, started : Nat,
                               key : 0..Len(derived), by : Signers \cup {NoSigner}, life : Nat]]

\* There is one session.  While no lock comes, its calls share one prompt of the wallet; the
\* key that is held is the connected wallet's and whole, the client that is held holds it,
\* the extension is given it under that wallet's name, and what is written is sealed to it
\* (identity.tsx).  A call that goes on after a switch of the wallet takes the new session
\* for its own, and a client that is being rebuilt during a lock is put back.
OneSession ==
    /\ \A c, d \in Callers : /\ caller[c].at = "signing" /\ caller[c].started = generation
                            /\ caller[d].at = "signing" /\ caller[d].started = generation
                            => c = d
    /\ ~outlived =>
         /\ identity # 0 => derived[identity] = signer /\ identity \notin wiped
         /\ misplaced = {}
    /\ ~outlived /\ ~rebuilt /\ identity # 0 => client.key = identity

\* Seeds and receipts that are open were decrypted in this session: a lock and a switch of
\* the wallet take them away, and what a call opens later is dropped (private-data.tsx).
SeedsOfThisSession == Rendered => {openSeed, openReceipt} \subseteq {0, identity}
=============================================================================

-------------------------------- MODULE Reveals --------------------------------
(***************************************************************************)
(* The value of a secret in the drawer (SecretValue in secret-value.tsx):  *)
(* revealed and hidden, replaced by another, and taken off the screen      *)
(* while the session is locked.  The drawer may be closed over a call that *)
(* is out, whose answer then goes nowhere, and opened again.               *)
(***************************************************************************)
EXTENDS Integers

CONSTANTS Viewers,      \* bound: calls at once
          MaxViews,     \* bound: times the drawer is opened
          MaxReplaced,  \* bound: replacements
          MaxKeyLocks   \* bound: locks

ASSUME RevealAssumptions == {MaxViews, MaxReplaced, MaxKeyLocks} \subseteq Nat

VARIABLES
    view,       \* how often the drawer was opened
    viewing,    \* it is open
    keyHeld,    \* the session is unlocked
    version,    \* the secret on chain: the values it has had
    revealed,   \* the version the panel holds, 0 for none
    confirmed,  \* the version the panel was told it had stored, 0 for none
    viewer,     \* the calls
    keyLocks,   \* locks so far
    crossing    \* ghost: the value on screen, or to come, may be of a read that a replacement overtook

revealVars == <<view, viewing, keyHeld, version, revealed, confirmed, viewer, keyLocks, crossing>>

NoView == [kind |-> "none", at |-> "idle", view |-> 0, got |-> 0]

RevealsInit ==
    /\ view = 0 /\ viewing = FALSE /\ keyHeld \in BOOLEAN
    /\ version = 1 /\ revealed = 0 /\ confirmed = 0
    /\ viewer = [v \in Viewers |-> NoView] /\ keyLocks = 0 /\ crossing = FALSE
----------------------------------------------------------------------------
Value == IF keyHeld THEN revealed ELSE 0
Looking == {v \in Viewers : viewer[v].at # "idle"}

\* The calls of the panel that is open; a button waits for its own.
Ours == {v \in Looking : viewer[v].view = view}
Waiting(kind) == \E v \in Ours : viewer[v].kind = kind

OpenPanel ==
    /\ ~viewing /\ view < MaxViews
    /\ viewing' = TRUE /\ view' = view + 1 /\ revealed' = 0 /\ confirmed' = 0 /\ crossing' = FALSE
    /\ UNCHANGED <<keyHeld, version, viewer, keyLocks>>

ClosePanel ==
    /\ viewing /\ viewing' = FALSE
    /\ UNCHANGED <<view, keyHeld, version, revealed, confirmed, viewer, keyLocks, crossing>>

Begins(v, kind) ==
    /\ viewing /\ v \notin Looking /\ ~Waiting(kind)
    /\ viewer' = [viewer EXCEPT ![v] = [kind |-> kind, at |-> "unlocking", view |-> view, got |-> 0]]
    /\ crossing' = (crossing \/ Ours # {})
    /\ UNCHANGED <<view, viewing, keyHeld, version, revealed, confirmed, keyLocks>>

Reveal(v) == Value = 0 /\ Begins(v, "reveal")
Replace(v) == version < MaxReplaced + 1 /\ Begins(v, "replace")

\* live(): the session is unlocked, if need be by the wallet.
Ready(v) ==
    /\ viewer[v].at = "unlocking"
    /\ keyHeld' = TRUE /\ viewer' = [viewer EXCEPT ![v].at = "ready"]
    /\ UNCHANGED <<view, viewing, version, revealed, confirmed, keyLocks, crossing>>

\* get reads the records, and decrypts them afterwards.
ReadsValue(v) ==
    /\ viewer[v].at = "ready" /\ viewer[v].kind = "reveal"
    /\ viewer' = [viewer EXCEPT ![v].at = "done", ![v].got = version]
    /\ UNCHANGED <<view, viewing, keyHeld, version, revealed, confirmed, keyLocks, crossing>>

\* rotate is mined.
StoresValue(v) ==
    /\ viewer[v].at = "ready" /\ viewer[v].kind = "replace" /\ version < MaxReplaced + 1
    /\ version' = version + 1
    /\ viewer' = [viewer EXCEPT ![v].at = "done", ![v].got = version + 1]
    /\ UNCHANGED <<view, viewing, keyHeld, revealed, confirmed, keyLocks, crossing>>

ShowsValue(v) ==
    LET r == viewer[v]
        here == viewing /\ r.view = view
    IN /\ r.at = "done"
       /\ revealed' = IF here THEN r.got ELSE revealed
       /\ confirmed' = IF here /\ r.kind = "replace" THEN r.got ELSE confirmed
       /\ viewer' = [viewer EXCEPT ![v] = NoView]
       /\ UNCHANGED <<view, viewing, keyHeld, version, keyLocks, crossing>>

\* The wallet refuses, or the chain; or a receipt does not come.
ViewFails(v) ==
    /\ v \in Looking
    /\ viewer' = [viewer EXCEPT ![v] = NoView]
    /\ UNCHANGED <<view, viewing, keyHeld, version, revealed, confirmed, keyLocks, crossing>>

Hide ==
    /\ viewing /\ Value # 0 /\ revealed' = 0 /\ crossing' = (crossing /\ Ours # {})
    /\ UNCHANGED <<view, viewing, keyHeld, version, confirmed, viewer, keyLocks>>

KeyLocks ==
    /\ keyHeld /\ keyLocks < MaxKeyLocks
    /\ keyHeld' = FALSE /\ keyLocks' = keyLocks + 1
    /\ UNCHANGED <<view, viewing, version, revealed, confirmed, viewer, crossing>>

RevealsNext ==
    \/ \E v \in Viewers : \/ Reveal(v) \/ Replace(v) \/ Ready(v) \/ ReadsValue(v)
                          \/ StoresValue(v) \/ ShowsValue(v) \/ ViewFails(v)
    \/ OpenPanel \/ ClosePanel \/ Hide \/ KeyLocks
----------------------------------------------------------------------------
RevealsTypeOK ==
    /\ view \in 0..MaxViews /\ version \in 1..(MaxReplaced + 1)
    /\ {revealed, confirmed} \subseteq 0..version
    /\ {viewing, keyHeld, crossing} \subseteq BOOLEAN /\ keyLocks \in 0..MaxKeyLocks
    /\ viewer \in [Viewers -> [kind : {"none", "reveal", "replace"},
                               at : {"idle", "unlocking", "ready", "done"},
                               view : 0..view, got : 0..version]]

\* The panel never shows a value older than the one it has said it stored, through failures,
\* locks, and calls of drawers that were closed over them.  A revealed value is shown as it
\* comes, so this is until one is read by the panel as it stores another, and again once that
\* is hidden or the drawer is opened anew (secret-value.tsx).
ShowsTheLatest == viewing /\ Value # 0 /\ ~crossing => Value >= confirmed
=============================================================================

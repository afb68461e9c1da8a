-------------------------------- MODULE Vault --------------------------------
(***************************************************************************)
(* The vault of the browser extension: the paired identity on disk, the    *)
(* open vault in session storage with its deadline and its idle timer      *)
(* (extension/entrypoints/background.ts), and the popup, which unlocks it, *)
(* reads the accounts from the chain, holds back the sites that changed    *)
(* and writes the accounts beside the key (entrypoints/popup/main.ts).     *)
(*                                                                         *)
(* The popup runs several chains of calls at once, its own and one for     *)
(* each button; every await is a step, and closing the popup drops those   *)
(* that are not waiting in the worker.                                     *)
(***************************************************************************)
EXTENDS Integers, FiniteSets

CONSTANTS
    Secrets, Hosts,
    NoHost,       \* an empty rewall.site, or a site not seen yet
    NoSecret,
    Presses,      \* bound: presses of a button in flight at once
    Own,          \* the chain of calls a popup makes by itself
    SiteAtFirst,  \* what each secret's rewall.site says at first
    MaxUnlocks, MaxNonces,  \* bounds
    Plays         \* bound: what a behaviour starts with, and how often things happen

Flows == Presses \cup {Own}
Sites == [Secrets -> Hosts \cup {NoHost}]

ASSUME VaultAssumptions ==
    /\ NoHost \notin Hosts /\ NoSecret \notin Secrets /\ Own \notin Presses
    /\ SiteAtFirst \in Sites
    /\ MaxUnlocks \in Nat /\ MaxNonces \in Nat
    /\ \A p \in Plays :
          /\ p.popup \in BOOLEAN /\ p.presses \subseteq Presses
          /\ p.met \in BOOLEAN /\ p.opened \in BOOLEAN /\ p.ends \in BOOLEAN
          /\ p.opened => p.met /\ p.unlocks # 0
          /\ p.paired \in 0..MaxNonces
          /\ p.unlocks \in 0..MaxUnlocks /\ p.nonces \in 0..MaxNonces /\ p.moves \in Nat

VARIABLES
    play,      \* the play of this behaviour
    open,      \* session storage: the open vault
    paired,    \* local storage: the pairing that is wrapped on disk, 0 for none
    seen,      \* local storage: the site each secret was last seen with
    offered, arrived,  \* the worker: nonce on offer, pairing waiting for a passphrase
    timer,     \* the worker: the unlock its idle timer counts from, 0 for none
    removing,  \* the worker found the vault expired and is removing it
    site,      \* the chain: rewall.site, unsigned
    lapsed,    \* unlocks up to this one are more than IDLE_LOCK_MS ago
    section, moved, rendered,  \* the popup: what it shows, and the sites it holds back
    flow,      \* its chains of calls
    unlocks, moves, nonces,    \* counts
    over,      \* ghost: unlocks that ended
    loose,     \* ghost: those a chain of calls still held a copy of
    consent,   \* ghost: the sites the user accepted or a secret was first seen with
    twice      \* ghost: two chains of calls read the vault, or accepted sites, at once

disk == <<paired, seen>>
worker == <<offered, arrived, timer>>
popup == <<section, moved, rendered>>
world == <<site, lapsed>>
counts == <<play, unlocks, moves, nonces>>
endings == <<over, loose>>
vaultVars == <<play, open, disk, worker, removing, popup, flow, world, counts, endings, consent, twice>>

NoAccounts == [h \in Hosts |-> NoSecret]
NoSites == [s \in Secrets |-> NoHost]

\* expiresAt is kept as the unlock it was counted from.
Closed == [n |-> 0, until |-> 0, accounts |-> NoAccounts]
OpenVaults == [n : 0..MaxUnlocks, until : 0..MaxUnlocks, accounts : [Hosts -> Secrets \cup {NoSecret}]]

Idle == [at |-> "idle", orphan |-> FALSE, pairing |-> 0, copy |-> Closed, sites |-> NoSites,
         prior |-> NoSites]
InWorker == {"unlock", "unwrap", "protect", "wrap", "paired", "lock", "opened", "refused", "locked"}
Painting == {"opened", "refused", "locked"}
InLoad == {"read", "seen", "remember", "write"}
InAccept == {"accept", "accepting"}
Awaits == InWorker \cup InLoad \cup InAccept \cup
          {"idle", "first", "get", "render", "reopen", "reopening"}
Sections == {"closed", "blank", "pair", "protect", "locked", "open"}

\* One account per hostname: of two secrets that claim one, neither fills.
Claimants(h, sites) == {s \in Secrets : sites[s] = h}
Accounts(sites) ==
    [h \in Hosts |-> IF Cardinality(Claimants(h, sites)) = 1
                     THEN CHOOSE s \in Secrets : sites[s] = h ELSE NoSecret]

VaultInit ==
    /\ play \in Plays
    /\ open = IF play.opened THEN [n |-> 1, until |-> 1, accounts |-> Accounts(SiteAtFirst)] ELSE Closed
    /\ paired = play.paired
    /\ seen = IF play.met THEN SiteAtFirst ELSE NoSites
    /\ offered = 0 /\ arrived = 0 /\ removing = FALSE
    /\ unlocks = (IF play.opened THEN 1 ELSE 0) /\ timer = unlocks
    /\ site = SiteAtFirst /\ lapsed = 0
    /\ section = "closed" /\ moved = NoSites /\ rendered = NoSites
    /\ flow = [f \in Flows |-> Idle]
    /\ moves = 0 /\ nonces = play.paired
    /\ over = {} /\ loose = {} /\ twice = FALSE
    /\ consent = [s \in Secrets |-> {seen[s]} \ {NoHost}]

----------------------------------------------------------------------------
\* The open vault.

Expired(vault) == vault.until # 0 /\ vault.until <= lapsed

\* What session answers.
Session == IF Expired(open) THEN Closed ELSE open
AccountFor(h) == Session.accounts[h]

\* An unlock ends when its vault is locked or replaced.
Ending(n) ==
    /\ over' = over \cup ({n} \ {0})
    /\ loose' = loose \cup {m \in {n} \ {0} : \E f \in Flows : flow[f].at # "idle" /\ flow[f].copy.n = m}

\* session reads an expired vault and removes it, whatever is there by then.
FindExpired ==
    /\ Expired(open)
    /\ removing' = TRUE

Remove ==
    /\ removing
    /\ removing' = FALSE
    /\ open' = Closed
    /\ Ending(open.n)
    /\ UNCHANGED <<disk, worker, popup, flow, world, counts, consent, twice>>

\* The idle timer of unlock and set-passphrase fires, and the buttons are painted.
TimerFires ==
    /\ timer # 0 /\ timer <= lapsed
    /\ timer' = 0
    /\ open' = Closed
    /\ Ending(open.n)
    /\ UNCHANGED <<disk, offered, arrived, removing, popup, flow, world, counts, consent, twice>>

\* IDLE_LOCK_MS passes after an unlock.
Lapse ==
    /\ play.ends /\ lapsed < unlocks
    /\ lapsed' = lapsed + 1
    /\ UNCHANGED <<open, disk, worker, removing, popup, flow, site, counts, endings, consent, twice>>

\* A code for the popup: session is asked again.
ShowCode(h) ==
    /\ section = "open"
    /\ FindExpired
    /\ UNCHANGED <<open, disk, worker, popup, flow, world, counts, endings, consent, twice>>

NewVault == [n |-> unlocks + 1, until |-> unlocks + 1, accounts |-> NoAccounts]

\* unlock and set-passphrase: the vault is set, and touch arms the timer.
Unlocked ==
    /\ unlocks < play.unlocks
    /\ unlocks' = unlocks + 1
    /\ open' = NewVault
    /\ timer' = unlocks + 1
    /\ Ending(open.n)

----------------------------------------------------------------------------
\* Pairing.

\* begin-pairing, request-pairing: the nonce before stops counting.
IssueNonce ==
    /\ nonces < play.nonces
    /\ nonces' = nonces + 1
    /\ offered' = nonces + 1
    /\ UNCHANGED <<open, disk, arrived, timer, removing, popup, flow, world, play, unlocks, moves,
                   endings, consent, twice>>

\* rewall:paired, from a dashboard that was given the nonce.
HandOver(nonce) ==
    /\ offered # 0 /\ nonce = offered
    /\ offered' = 0
    /\ arrived' = nonce
    /\ UNCHANGED <<open, disk, timer, removing, popup, flow, world, counts, endings, consent, twice>>

\* The worker is recycled between two messages, and its memory with it.
Recycle ==
    /\ play.ends
    /\ \A f \in Flows : flow[f].at \notin InWorker
    /\ <<offered, arrived, timer>> # <<0, 0, 0>>
    /\ offered' = 0 /\ arrived' = 0 /\ timer' = 0
    /\ UNCHANGED <<open, disk, removing, popup, flow, world, counts, endings, consent, twice>>

----------------------------------------------------------------------------
\* The popup's chains of calls.

Goto(f, at) == flow' = [flow EXCEPT ![f].at = at]
Stop(f) == flow' = [flow EXCEPT ![f] = Idle]
\* The worker answers; a popup that closed since is not there to go on.
Answered(f, at) == IF flow[f].orphan THEN Stop(f) ELSE flow' = [flow EXCEPT ![f] = [Idle EXCEPT !.at = at]]

Rest == UNCHANGED <<disk, worker, removing, world, counts, consent>>

OpenPopup ==
    /\ play.popup /\ section = "closed" /\ flow[Own].at = "idle"
    /\ section' = "blank" /\ moved' = NoSites /\ rendered' = NoSites
    /\ Goto(Own, "first")
    /\ UNCHANGED <<open, endings, twice>> /\ Rest

ClosePopup ==
    /\ section # "closed"
    /\ section' = "closed" /\ moved' = NoSites /\ rendered' = NoSites
    /\ flow' = [f \in Flows |-> IF flow[f].at \in InWorker THEN [flow[f] EXCEPT !.orphan = TRUE] ELSE Idle]
    /\ UNCHANGED <<open, endings, twice>> /\ Rest

\* Another chain of calls is reading the vault, or accepting its sites.
Beside(f) == \E g \in Flows \ {f} : flow[g].at \in InLoad \cup InAccept

Press(f, where, at) ==
    /\ f \in play.presses /\ flow[f].at = "idle"
    /\ section = where
    /\ Goto(f, at)
    /\ twice' = (twice \/ (at \in InAccept /\ (Beside(f) \/ moved # rendered)))
    /\ UNCHANGED <<open, popup, endings>> /\ Rest

PressUnlock(f) == Press(f, "locked", "unlock")
PressProtect(f) == Press(f, "protect", "protect")
PressLock(f) == Press(f, "open", "lock")
PressAccept(f) ==
    /\ \E s \in Secrets : rendered[s] # NoHost
    /\ Press(f, "open", "accept")

\* unlock reads the wrapped key, and unwraps it with the passphrase it was given.  It
\* paints every button before it answers, a refusal too.
Unlock(f) ==
    /\ flow[f].at = "unlock"
    /\ Goto(f, IF paired = 0 THEN "refused" ELSE "unwrap")
    /\ UNCHANGED <<open, popup, endings, twice>> /\ Rest

Unwrap(f) ==
    /\ flow[f].at = "unwrap"
    /\ \/ Goto(f, "refused") /\ UNCHANGED <<open, timer, unlocks, endings>>
       \/ Unlocked /\ Goto(f, "opened")
    /\ UNCHANGED <<disk, offered, arrived, removing, popup, world, play, moves, nonces, consent, twice>>

\* set-passphrase: what arrived is wrapped, stored and opened.  A pairing that
\* arrived during the wrap is forgotten with it.
Protect(f) ==
    /\ flow[f].at = "protect"
    /\ IF arrived = 0 THEN Stop(f) ELSE flow' = [flow EXCEPT ![f].at = "wrap", ![f].pairing = arrived]
    /\ UNCHANGED <<open, popup, endings, twice>> /\ Rest

Wrap(f) ==
    /\ flow[f].at = "wrap"
    /\ arrived' = 0
    /\ paired' = flow[f].pairing
    /\ flow' = [flow EXCEPT ![f].at = "paired", ![f].pairing = 0]
    /\ UNCHANGED <<open, seen, offered, timer, removing, popup, world, counts, endings, consent, twice>>

Paired(f) ==
    /\ flow[f].at = "paired"
    /\ Unlocked
    /\ Goto(f, "opened")
    /\ UNCHANGED <<disk, offered, arrived, removing, popup, world, play, moves, nonces, consent, twice>>

\* The buttons are painted.  The answer of a paintAll that failed is undefined: the
\* popup finds no error in it and its chain of calls ends there.
Opened(f) ==
    /\ flow[f].at = "opened"
    /\ Answered(f, "get") \/ Stop(f)
    /\ UNCHANGED <<open, popup, endings, twice>> /\ Rest

Refused(f) ==
    /\ flow[f].at = "refused"
    /\ Stop(f)
    /\ UNCHANGED <<open, popup, endings, twice>> /\ Rest

\* Mutant of Lock: the lock answers before it has removed anything.
LockNothing(f) ==
    /\ flow[f].at = "lock"
    /\ Ending(open.n)
    /\ Goto(f, "locked")
    /\ UNCHANGED <<open, popup, twice>> /\ Rest

Lock(f) ==
    /\ flow[f].at = "lock"
    /\ open' = Closed
    /\ Ending(open.n)
    /\ Goto(f, "locked")
    /\ UNCHANGED <<popup, twice>> /\ Rest

\* The buttons are painted.  What the lock answers is not looked at.
Locked(f) ==
    /\ flow[f].at = "locked"
    /\ Answered(f, "render")
    /\ UNCHANGED <<open, popup, endings, twice>> /\ Rest

----------------------------------------------------------------------------
\* loadAccounts.

\* Mutant of Moved: a site that changed is settled like one that did not.
MovedNever(sites, before) == NoSites

\* splitMoved: a first sighting has no prior to disagree with.
Moved(sites, before) ==
    [s \in Secrets |-> IF before[s] # NoHost /\ before[s] # sites[s] THEN sites[s] ELSE NoHost]
Settled(sites, before) ==
    [s \in Secrets |-> IF Moved(sites, before)[s] = NoHost THEN sites[s] ELSE NoHost]

\* { ...before, ...news }
Over(before, news) == [s \in Secrets |-> IF news[s] = NoHost THEN before[s] ELSE news[s]]
HeldBack(sites, before) == {Moved(sites, before)[s] : s \in Secrets} \ {NoHost}
Kept(sites, before) ==
    [h \in Hosts |-> IF h \in HeldBack(sites, before) THEN NoSecret ELSE Accounts(sites)[h]]

\* An open vault that has its accounts is not read again.
Get(f) ==
    /\ flow[f].at = "get"
    /\ IF open = Closed \/ open.accounts # NoAccounts
       THEN Goto(f, "render") /\ UNCHANGED twice
       ELSE /\ flow' = [flow EXCEPT ![f].at = "read", ![f].copy = open]
            /\ twice' = (twice \/ Beside(f))
    /\ UNCHANGED <<open, popup, endings>> /\ Rest

\* readAccounts, over the network; it may fail.
Read(f) ==
    /\ flow[f].at = "read"
    /\ \/ flow' = [flow EXCEPT ![f] = [Idle EXCEPT !.at = "render"]]
       \/ flow' = [flow EXCEPT ![f].at = "seen", ![f].sites = site]
    /\ UNCHANGED <<open, popup, endings, twice>> /\ Rest

Seen(f) ==
    /\ flow[f].at = "seen"
    /\ flow' = [flow EXCEPT ![f].at = "remember", ![f].prior = seen]
    /\ moved' = Moved(flow[f].sites, seen)
    /\ UNCHANGED <<open, section, rendered, endings, twice>> /\ Rest

Remember(f) ==
    LET settled == Settled(flow[f].sites, flow[f].prior)
    IN /\ flow[f].at = "remember"
       /\ seen' = Over(flow[f].prior, settled)
       /\ consent' = [s \in Secrets |-> consent[s] \cup IF seen[s] = NoHost THEN {settled[s]} ELSE {}]
       /\ Goto(f, "write")
       /\ UNCHANGED <<open, paired, worker, removing, popup, world, counts, endings, twice>>

\* Mutant of Write: what is written back leaves the deadline out.
WriteNoDeadline(f) ==
    /\ flow[f].at = "write"
    /\ open' = [flow[f].copy EXCEPT !.accounts = Kept(flow[f].sites, flow[f].prior), !.until = 0]
    /\ flow' = [flow EXCEPT ![f] = [Idle EXCEPT !.at = "render"]]
    /\ UNCHANGED <<popup, endings, twice>> /\ Rest

\* { ...open, accounts }, of the vault that was read before the network was.
Write(f) ==
    /\ flow[f].at = "write"
    /\ open' = [flow[f].copy EXCEPT !.accounts = Kept(flow[f].sites, flow[f].prior)]
    /\ flow' = [flow EXCEPT ![f] = [Idle EXCEPT !.at = "render"]]
    /\ UNCHANGED <<popup, endings, twice>> /\ Rest

\* acceptMoved: the sites held back are remembered, and the accounts read again.
Accept(f) ==
    /\ flow[f].at = "accept"
    /\ flow' = [flow EXCEPT ![f].at = "accepting", ![f].prior = seen]
    /\ UNCHANGED <<open, popup, endings, twice>> /\ Rest

Accepting(f) ==
    /\ flow[f].at = "accepting"
    /\ seen' = Over(flow[f].prior, moved)
    /\ consent' = [s \in Secrets |-> consent[s] \cup ({rendered[s]} \ {NoHost})]
    /\ moved' = NoSites
    /\ flow' = [flow EXCEPT ![f] = [Idle EXCEPT !.at = "reopen"]]
    /\ UNCHANGED <<open, paired, worker, removing, section, rendered, world, counts, endings, twice>>

Reopen(f) ==
    /\ flow[f].at = "reopen"
    /\ IF open = Closed THEN Goto(f, "get")
       ELSE flow' = [flow EXCEPT ![f].at = "reopening", ![f].copy = open]
    /\ UNCHANGED <<open, popup, endings, twice>> /\ Rest

Reopening(f) ==
    /\ flow[f].at = "reopening"
    /\ open' = [flow[f].copy EXCEPT !.accounts = NoAccounts]
    /\ flow' = [flow EXCEPT ![f] = [Idle EXCEPT !.at = "get"]]
    /\ UNCHANGED <<popup, endings, twice>> /\ Rest

\* render asks for the status; the popup's own chain then loads, once.
Render(f) ==
    /\ flow[f].at \in {"first", "render"}
    /\ section' = CASE arrived # 0 -> "protect"
                     [] arrived = 0 /\ paired = 0 -> "pair"
                     [] arrived = 0 /\ paired # 0 /\ Session = Closed -> "locked"
                     [] OTHER -> "open"
    /\ rendered' = IF section' = "open" THEN moved ELSE rendered
    /\ removing' = (removing \/ Expired(open))
    /\ IF flow[f].at = "first" THEN Goto(f, "get") ELSE Stop(f)
    /\ UNCHANGED <<open, disk, worker, moved, world, counts, endings, consent, twice>>

----------------------------------------------------------------------------
\* A delegate rewrites rewall.site.
MoveSite(s, h) ==
    /\ moves < play.moves /\ site[s] # h
    /\ moves' = moves + 1
    /\ site' = [site EXCEPT ![s] = h]
    /\ UNCHANGED <<open, disk, worker, removing, popup, flow, lapsed, play, unlocks, nonces,
                   endings, consent, twice>>

\* The browser closes: session storage is gone, what is on disk stays.
BrowserEnds ==
    /\ open # Closed
    /\ open' = Closed
    /\ Ending(open.n)
    /\ offered' = 0 /\ arrived' = 0 /\ timer' = 0 /\ removing' = FALSE
    /\ section' = "closed" /\ moved' = NoSites /\ rendered' = NoSites
    /\ flow' = [f \in Flows |-> Idle]
    /\ UNCHANGED <<disk, world, counts, consent, twice>>

VaultStep(f) ==
    \/ Unlock(f) \/ Unwrap(f) \/ Opened(f) \/ Refused(f)
    \/ Protect(f) \/ Wrap(f) \/ Paired(f) \/ Lock(f) \/ Locked(f)
    \/ Get(f) \/ Read(f) \/ Seen(f) \/ Remember(f) \/ Write(f)
    \/ Accept(f) \/ Accepting(f) \/ Reopen(f) \/ Reopening(f) \/ Render(f)

\* Every step but the timer's.
VaultCalls ==
    \/ Remove \/ Lapse \/ IssueNonce \/ Recycle
    \/ OpenPopup \/ ClosePopup
    \/ \E nonce \in 1..MaxNonces : HandOver(nonce)
    \/ \E h \in Hosts : ShowCode(h)
    \/ \E f \in Flows : PressUnlock(f) \/ PressProtect(f) \/ PressLock(f) \/ PressAccept(f)
                        \/ VaultStep(f)
    \/ \E s \in Secrets, h \in Hosts \cup {NoHost} : MoveSite(s, h)

VaultNext == TimerFires \/ VaultCalls

VaultSpec == VaultInit /\ [][VaultNext]_vaultVars
----------------------------------------------------------------------------
\* Properties.

\* Every variable keeps its type.
VaultTypeOK ==
    /\ play \in Plays /\ open \in OpenVaults
    /\ paired \in 0..MaxNonces /\ offered \in 0..MaxNonces /\ arrived \in 0..MaxNonces
    /\ seen \in Sites /\ site \in Sites /\ moved \in Sites /\ rendered \in Sites
    /\ timer \in 0..MaxUnlocks /\ lapsed \in 0..MaxUnlocks /\ removing \in BOOLEAN
    /\ section \in Sections
    /\ flow \in [Flows -> [at : Awaits, orphan : BOOLEAN, pairing : 0..MaxNonces,
                           copy : OpenVaults, sites : Sites, prior : Sites]]
    /\ unlocks \in 0..MaxUnlocks /\ moves \in 0..play.moves /\ nonces \in 0..MaxNonces
    /\ over \subseteq 1..MaxUnlocks /\ loose \subseteq 1..MaxUnlocks
    /\ consent \in [Secrets -> SUBSET (Hosts \cup {NoHost})]
    /\ twice \in BOOLEAN

\* An unlock is over IDLE_LOCK_MS after it, however often its vault was written
\* back in between, and with the worker and its timer gone (session).
LocksOnTime == Session # Closed => Session.n > lapsed

\* A vault that was locked stays locked, and one that was replaced does not come
\* back, unless a popup was reading its accounts at the time and writes it back
\* after the lock (lock, unlock, loadAccounts).
OverUnlessLoose == open.n \in over => open.n \in loose

\* A secret fills where it was first seen, or where the user said it may; not so
\* after two readings of the vault at once (splitMoved, acceptMoved).
MovedNeedsConsent ==
    ~twice => \A h \in Hosts : open.accounts[h] # NoSecret => h \in consent[open.accounts[h]]
=============================================================================

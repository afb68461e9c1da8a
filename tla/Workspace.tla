------------------------------ MODULE Workspace ------------------------------
(***************************************************************************)
(* Which name and which vault the dashboard shows for the connected wallet *)
(* (web/src/components/dashboard/dashboard-shell.tsx): the name comes from *)
(* the device at once and from the registry later (web/src/lib/account.ts),*)
(* the user may adopt another in between, and every answer is awaited by   *)
(* the render that asked for it, whichever wallet is connected by then.    *)
(***************************************************************************)
EXTENDS Integers, Sequences

CONSTANTS Wallets, NoWallet,
          Names, NoName,
          Reverse,      \* the name the reverse record of each wallet claims
          Remembered,   \* bound: what the device may remember at first
          Registered,   \* bound: the owners of the names at first
          MaxConnects,  \* bound: changes of the connected wallet
          MaxAdoptions, \* bound: names the user claims
          MaxFlows,     \* bound: calls that refresh the vault when they are done
          MaxMoves      \* bound: names the registry hands to another wallet

ASSUME WorkspaceAssumptions ==
    /\ NoWallet \notin Wallets /\ NoName \notin Names
    /\ Reverse \in [Wallets -> Names \cup {NoName}]
    /\ Remembered \subseteq [Wallets -> Names \cup {NoName}] /\ Registered \in [Names -> Wallets]
    /\ MaxConnects \in Nat /\ MaxAdoptions \in Nat /\ MaxFlows \in Nat /\ MaxMoves \in Nat

VARIABLES
    account,    \* the connected wallet
    resolved,   \* the wallet a name was resolved for, and the name
    verified,   \* the wallet the registry has answered for
    adopted,    \* names adopted so far
    lookups,    \* resolveOwnName calls on their way
    adoptions,  \* claims on their way, with the wallet that made them
    loads, latest,  \* reads of a vault on their way, and the number of the last one
    vault, broken,  \* the vault that was loaded last, and whether the last read failed
    flows,      \* the names that calls on their way will refresh
    cached,     \* local storage: rewall.name of each wallet
    owner,      \* the registry
    tally,      \* connects, adoptions, flows and moves so far
    choice,     \* ghost: the name adopted last since the wallet connected
    strayed,    \* ghost: an answer was taken that another wallet, or another vault, had asked for
    raced     \* ghost: two writers of one wallet's cached name were under way at once

workspaceVars == <<account, resolved, verified, adopted, lookups, adoptions, loads, latest, vault,
                   broken, flows, cached, owner, tally, choice, strayed, raced>>

Named(who, what) == [address |-> who, name |-> what]

OwnName == IF account # NoWallet /\ resolved.address = account THEN resolved.name ELSE NoName
Counted(what) == tally' = [tally EXCEPT ![what] = @ + 1]

WorkspaceInit ==
    /\ account = NoWallet /\ resolved = Named(NoWallet, NoName) /\ verified = NoWallet
    /\ adopted = 0 /\ lookups = {} /\ adoptions = {}
    /\ loads = {} /\ latest = 0 /\ vault = NoName /\ broken = FALSE /\ flows = {}
    /\ cached \in Remembered /\ owner = Registered
    /\ tally = [connect |-> 0, adopt |-> 0, flow |-> 0, move |-> 0]
    /\ choice = NoName /\ strayed = FALSE /\ raced = FALSE

----------------------------------------------------------------------------
\* The vaults that are read next, in this order; the last one counts.
Load(names) ==
    /\ latest' = latest + Len(names)
    /\ loads' = loads \cup {[number |-> latest + i, name |-> names[i]] : i \in 1..Len(names)}
    /\ broken' = (broken /\ names = <<>>)

\* What a render makes of the resolved name: a wallet it is not for starts from its cached name.
Seeded(known, names) ==
    IF account' # NoWallet /\ known.address # account' THEN Named(account', names[account']) ELSE known

\* The effect on ownName: a name that changed is loaded, after what was asked for already.
LoadOwn(first) == Load(IF OwnName' \notin {OwnName, NoName} THEN Append(first, OwnName') ELSE first)

\* Privy reports another wallet, or none.
Connect(w) ==
    /\ w # account /\ tally.connect < MaxConnects
    /\ account' = w
    /\ resolved' = Seeded(resolved, cached)
    /\ lookups' = {[l EXCEPT !.active = FALSE] : l \in lookups}
                  \cup IF w = NoWallet THEN {}
                       ELSE {[account |-> w, since |-> adopted, stored |-> cached[w], active |-> TRUE,
                              at |-> IF cached[w] = NoName THEN "reverse" ELSE "owner"]}
    /\ LoadOwn(<<>>)
    /\ raced' = (raced \/ \E l \in lookups : l.account = w)
    /\ choice' = NoName
    /\ Counted("connect")
    /\ UNCHANGED <<verified, adopted, adoptions, vault, flows, cached, owner, strayed>>

\* resolveOwnName returns to the effect that called it.
Finds(l, found) ==
    /\ UNCHANGED <<account, adopted, adoptions, vault, flows, owner, tally, choice, strayed, raced>>
    /\ lookups' = lookups \ {l}
    /\ IF l.active /\ adopted = l.since
       THEN /\ resolved' = Named(l.account, found)
            /\ verified' = l.account
            /\ LoadOwn(<<>>)
       ELSE UNCHANGED <<resolved, verified, loads, latest, broken>>

\* The registry answers for the stored name; an answer that fails keeps the name.
OwnerKept(l) ==
    /\ l.at = "owner"
    /\ Finds(l, l.stored)
    /\ UNCHANGED cached

OwnerIsAnother(l) ==
    /\ l.at = "owner" /\ owner[l.stored] # l.account
    /\ cached' = [cached EXCEPT ![l.account] = NoName]
    /\ lookups' = (lookups \ {l}) \cup {[l EXCEPT !.at = "reverse"]}
    /\ UNCHANGED <<account, resolved, verified, adopted, adoptions, loads, latest, vault, broken, flows,
                   owner, tally, choice, strayed, raced>>

\* The reverse record answers; a name counts if the registry agrees.
ReverseAnswers(l) ==
    LET n == Reverse[l.account]
    IN /\ l.at = "reverse"
       /\ \/ /\ n # NoName /\ owner[n] = l.account
             /\ cached' = [cached EXCEPT ![l.account] = n]
             /\ Finds(l, n)
          \/ /\ UNCHANGED cached
             /\ Finds(l, NoName)

\* The user claims a name; claimName asks the registry.
BeginClaim(n) ==
    /\ account # NoWallet /\ tally.adopt < MaxAdoptions
    /\ adoptions' = adoptions \cup {Named(account, n)}
    /\ Counted("adopt")
    /\ UNCHANGED <<account, resolved, verified, adopted, lookups, loads, latest, vault, broken, flows,
                   cached, owner, choice, strayed, raced>>

Refused(c) ==
    /\ adoptions' = adoptions \ {c}
    /\ UNCHANGED <<account, resolved, verified, adopted, lookups, loads, latest, vault, broken, flows,
                   cached, owner, tally, choice, strayed, raced>>

\* adoptName, for the wallet of the render that claimed.
Adopt(c) ==
    /\ owner[c.name] = c.address
    /\ UNCHANGED <<account, lookups, vault, flows, owner, tally>>
    /\ adoptions' = adoptions \ {c}
    /\ adopted' = adopted + 1
    /\ cached' = [cached EXCEPT ![c.address] = c.name]
    /\ choice' = c.name
    /\ resolved' = Seeded(c, cached')
    /\ verified' = c.address
    /\ LoadOwn(<<c.name>>)
    /\ strayed' = (strayed \/ c.address # account)
    /\ raced' = (raced \/ \E l \in lookups : l.account = c.address)

\* loadVault answers; LoadAnswersAny is its mutant, in which the last answer wins.
LoadAnswersAny(l) ==
    /\ loads' = loads \ {l}
    /\ vault' = l.name /\ UNCHANGED broken
    /\ UNCHANGED <<account, resolved, verified, adopted, lookups, adoptions, latest, flows, cached, owner,
                   tally, choice, strayed, raced>>

LoadAnswers(l) ==
    /\ loads' = loads \ {l}
    /\ IF l.number = latest
       THEN \/ vault' = l.name /\ UNCHANGED broken
            \/ broken' = TRUE /\ UNCHANGED vault
       ELSE UNCHANGED <<vault, broken>>
    /\ UNCHANGED <<account, resolved, verified, adopted, lookups, adoptions, latest, flows, cached, owner,
                   tally, choice, strayed, raced>>

\* A call that writes to the vault begins; it will refresh what is shown now.
BeginFlow ==
    /\ OwnName # NoName /\ tally.flow < MaxFlows
    /\ flows' = flows \cup {IF vault # NoName THEN vault ELSE OwnName}
    /\ Counted("flow")
    /\ UNCHANGED <<account, resolved, verified, adopted, lookups, adoptions, loads, latest, vault, broken,
                   cached, owner, choice, strayed, raced>>

Refresh(n) ==
    /\ flows' = flows \ {n}
    /\ Load(<<n>>)
    /\ strayed' = (strayed \/ n # OwnName)
    /\ UNCHANGED <<account, resolved, verified, adopted, lookups, adoptions, vault, cached, owner, tally,
                   choice, raced>>

\* The registry hands a name to another wallet.
Moves(n, w) ==
    /\ owner[n] # w /\ tally.move < MaxMoves
    /\ owner' = [owner EXCEPT ![n] = w]
    /\ Counted("move")
    /\ UNCHANGED <<account, resolved, verified, adopted, lookups, adoptions, loads, latest, vault, broken,
                   flows, cached, choice, strayed, raced>>

WorkspaceNext ==
    \/ \E w \in Wallets \cup {NoWallet} : Connect(w)
    \/ \E l \in lookups : OwnerKept(l) \/ OwnerIsAnother(l) \/ ReverseAnswers(l)
    \/ \E n \in Names : BeginClaim(n)
    \/ \E c \in adoptions : Refused(c) \/ Adopt(c)
    \/ \E l \in loads : LoadAnswers(l)
    \/ BeginFlow
    \/ \E n \in flows : Refresh(n)
    \/ \E n \in Names, w \in Wallets : Moves(n, w)
----------------------------------------------------------------------------
WorkspaceTypeOK ==
    /\ account \in Wallets \cup {NoWallet} /\ verified \in Wallets \cup {NoWallet}
    /\ resolved \in [address : Wallets \cup {NoWallet}, name : Names \cup {NoName}]
    /\ adopted \in 0..MaxAdoptions /\ latest \in Nat /\ broken \in BOOLEAN
    /\ adoptions \subseteq [address : Wallets, name : Names]
    /\ lookups \subseteq [account : Wallets, since : 0..MaxAdoptions, stored : Names \cup {NoName},
                          active : BOOLEAN, at : {"owner", "reverse"}]
    /\ loads \subseteq [number : 1..latest, name : Names] /\ vault \in Names \cup {NoName}
    /\ flows \subseteq Names
    /\ cached \in [Wallets -> Names \cup {NoName}] /\ owner \in [Names -> Wallets]
    /\ choice \in Names \cup {NoName} /\ strayed \in BOOLEAN /\ raced \in BOOLEAN

\* A name the user adopted stays until the wallet changes.  Once nothing is on its way for
\* the connected wallet, the dashboard no longer waits for its name, shows the vault of that
\* name, and finds the same name on the device after a reload: lookups, adoptions and reads
\* of earlier renders decide nothing (dashboard-shell.tsx).  A claim or a refresh that
\* outlives a switch of the wallet still decides, and the two that may write the device's
\* name do not wait for each other.
WorkspaceSettles ==
    /\ account # NoWallet /\ ~strayed /\ choice # NoName => OwnName = choice
    /\ account # NoWallet /\ ~strayed /\ (\A l \in lookups : ~l.active) => verified = account
    /\ OwnName # NoName /\ ~strayed /\ loads = {} => vault = OwnName \/ broken
    /\ account # NoWallet /\ ~strayed /\ ~raced /\ (\A l \in lookups : l.account # account)
           => cached[account] = OwnName
=============================================================================

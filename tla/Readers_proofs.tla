---------------------------- MODULE Readers_proofs ----------------------------
(***************************************************************************)
(* The readers of a vault.  The extension's vault locks on time and stays  *)
(* locked, fills only where the user agreed, and loses no captured code;   *)
(* its toolbar sends a code to a page of its host, and its fields and its  *)
(* buttons end up those of the pages and the vault; the MCP server keeps   *)
(* its budgets, sends a value only where its record allows and wipes the   *)
(* keys of its callers: for any number of secrets, hosts, presses, tabs,   *)
(* handlers, captures, agents, requests and calls.                         *)
(***************************************************************************)
EXTENDS Readers, FiniteSetTheorems, SequenceTheorems, TLAPS

----------------------------------------------------------------------------
\* The inductive invariant of the vault.
Chains == [at : Awaits, orphan : BOOLEAN, pairing : 0..MaxNonces,
           copy : OpenVaults, sites : Sites, prior : Sites]

VaultTypes ==
    /\ play \in Plays /\ open \in OpenVaults
    /\ paired \in 0..MaxNonces /\ offered \in 0..MaxNonces /\ arrived \in 0..MaxNonces
    /\ seen \in Sites /\ site \in Sites /\ moved \in Sites /\ rendered \in Sites
    /\ timer \in 0..MaxUnlocks /\ lapsed \in 0..MaxUnlocks /\ removing \in BOOLEAN
    /\ section \in Sections
    /\ flow \in [Flows -> Chains]
    /\ unlocks \in 0..MaxUnlocks /\ moves \in 0..play.moves /\ nonces \in 0..MaxNonces
    /\ over \subseteq 1..MaxUnlocks /\ loose \subseteq 1..MaxUnlocks
    /\ consent \in [Secrets -> SUBSET (Hosts \cup {NoHost})]
    /\ twice \in BOOLEAN

LEMMA VaultTypesAre == VaultTypes <=> VaultTypeOK
  BY DEF VaultTypes, VaultTypeOK, Chains

LEMMA Bases ==
  /\ Closed \in OpenVaults /\ NoSites \in Sites /\ NoAccounts \in [Hosts -> Secrets \cup {NoSecret}]
  /\ Idle \in Chains
<1>1. Closed \in OpenVaults /\ NoSites \in Sites /\ NoAccounts \in [Hosts -> Secrets \cup {NoSecret}]
  BY VaultAssumptions DEF Closed, OpenVaults, NoSites, Sites, NoAccounts
<1> QED  BY <1>1, VaultAssumptions DEF Idle, Chains, Awaits

LEMMA AccountsTyped ==
  ASSUME NEW sites \in Sites
  PROVE  /\ Accounts(sites) \in [Hosts -> Secrets \cup {NoSecret}]
         /\ \A h \in Hosts : Accounts(sites)[h] # NoSecret => sites[Accounts(sites)[h]] = h
<1> SUFFICES ASSUME NEW h \in Hosts
             PROVE  /\ Accounts(sites)[h] \in Secrets \cup {NoSecret}
                    /\ Accounts(sites)[h] # NoSecret => sites[Accounts(sites)[h]] = h
  BY DEF Accounts
<1>1. CASE Cardinality(Claimants(h, sites)) = 1
  <2>1. Claimants(h, sites) # {}
    BY <1>1, FS_EmptySet
  <2>2. \E s \in Secrets : sites[s] = h
    BY <2>1 DEF Claimants
  <2> QED  BY <1>1, <2>2 DEF Accounts
<1>2. CASE Cardinality(Claimants(h, sites)) # 1
  BY <1>2 DEF Accounts
<1> QED  BY <1>1, <1>2

LEMMA SitesTyped ==
  ASSUME NEW sites \in Sites, NEW before \in Sites
  PROVE  /\ Moved(sites, before) \in Sites /\ Settled(sites, before) \in Sites
         /\ Over(before, sites) \in Sites
         /\ Kept(sites, before) \in [Hosts -> Secrets \cup {NoSecret}]
  BY AccountsTyped, VaultAssumptions DEF Moved, Settled, Over, Kept, Sites

\* An account that is not held back is of a secret whose site is settled.
LEMMA KeptSettled ==
  ASSUME NEW sites \in Sites, NEW before \in Sites, NEW h \in Hosts, Kept(sites, before)[h] # NoSecret
  PROVE  /\ Kept(sites, before)[h] \in Secrets
         /\ Settled(sites, before)[Kept(sites, before)[h]] = h
<1> DEFINE s == Accounts(sites)[h]
<1>1. Kept(sites, before)[h] = s /\ h \notin HeldBack(sites, before)
  BY DEF Kept
<1>2. s \in Secrets /\ sites[s] = h /\ h # NoHost
  BY <1>1, AccountsTyped, VaultAssumptions
<1>3. Moved(sites, before)[s] = NoHost
  <2>1. Moved(sites, before)[s] # h
    BY <1>1, <1>2, VaultAssumptions DEF HeldBack
  <2> QED  BY <1>2, <2>1 DEF Moved
<1> QED  BY <1>1, <1>2, <1>3 DEF Settled

\* What the vault and the copies of it say of their unlock: its deadline is kept with
\* it, and an unlock that ended lives on only in a chain of calls that held it.
Copying == {"read", "seen", "remember", "write", "reopening"}
Tells(vault) ==
    /\ vault.until = vault.n /\ vault.n <= unlocks
    /\ vault.n \in over => vault.n \in loose
Carries(chain) ==
    /\ Tells(chain.copy)
    /\ chain.at \in Copying => chain.copy.n # 0
    /\ chain.at = "idle" => chain.copy.n = 0

LockInv ==
    /\ Tells(open)
    /\ open.n = 0 => open = Closed
    /\ \A f \in Flows : Carries(flow[f])
    /\ over \subseteq 1..unlocks

\* Sites the user agreed to.  One chain of calls at a time works on them.
AtWork == InLoad \cup InAccept
ConsentInv ==
    ~twice =>
        /\ \A s \in Secrets : seen[s] # NoHost => seen[s] \in consent[s]
        /\ \A h \in Hosts : open.accounts[h] # NoSecret => h \in consent[open.accounts[h]]
        /\ \A f, g \in Flows : f # g /\ flow[f].at \in AtWork => flow[g].at \notin AtWork
        /\ \A f \in Flows :
              /\ flow[f].at \in {"remember", "accepting"} => flow[f].prior = seen
              /\ flow[f].at \in InAccept => moved = rendered
              /\ flow[f].at = "write" => \A s \in Secrets :
                    LET h == Settled(flow[f].sites, flow[f].prior)[s] IN h # NoHost => h \in consent[s]

VaultInv == VaultTypes /\ LockInv /\ ConsentInv

LEMMA InitVault == VaultInit => VaultInv
<1> SUFFICES ASSUME VaultInit PROVE VaultInv
  OBVIOUS
<1> USE VaultAssumptions, Bases
<1>o. open \in OpenVaults /\ (play.opened \/ open = Closed) /\ (play.opened => open.n = 1 /\ open.until = 1)
  <2>1. CASE play.opened
    <3>1. Accounts(SiteAtFirst) \in [Hosts -> Secrets \cup {NoSecret}]
      BY AccountsTyped
    <3>2. play \in Plays /\ 1 \in 0..MaxUnlocks
      BY <2>1 DEF VaultInit
    <3> QED  BY <2>1, <3>1, <3>2 DEF VaultInit, OpenVaults
  <2>2. CASE ~play.opened
    BY <2>2 DEF VaultInit
  <2> QED  BY <2>1, <2>2
<1>1. VaultTypes
  <2>0. play \in Plays /\ (play.opened => 1 \in 0..MaxUnlocks)
    BY DEF VaultInit
  <2>1. unlocks \in 0..MaxUnlocks /\ timer = unlocks
    BY <2>0 DEF VaultInit
  <2>2. seen \in Sites
    BY DEF VaultInit
  <2>3. consent \in [Secrets -> SUBSET (Hosts \cup {NoHost})]
    BY <2>2 DEF VaultInit, Sites
  <2>4. play.paired \in 0..MaxNonces /\ play.moves \in Nat
    BY <2>0
  <2>5. flow \in [Flows -> Chains] /\ section \in Sections
    BY DEF VaultInit, Sections
  <2>6. /\ paired \in 0..MaxNonces /\ offered \in 0..MaxNonces /\ arrived \in 0..MaxNonces
        /\ nonces \in 0..MaxNonces /\ moves \in 0..play.moves /\ lapsed \in 0..MaxUnlocks
    BY <2>4 DEF VaultInit
  <2>7. /\ site \in Sites /\ moved \in Sites /\ rendered \in Sites
        /\ over = {} /\ loose = {} /\ removing = FALSE /\ twice = FALSE
    BY DEF VaultInit
  <2> QED  BY <1>o, <2>0, <2>1, <2>2, <2>3, <2>5, <2>6, <2>7 DEF VaultTypes
<1>2. LockInv
  BY <1>o DEF VaultInit, LockInv, Tells, Carries, Idle, Closed, Copying
<1>3. ConsentInv
  <2>1. \A s \in Secrets : seen[s] # NoHost => seen[s] \in consent[s]
    BY DEF VaultInit
  <2>2. ASSUME NEW h \in Hosts, open.accounts[h] # NoSecret PROVE h \in consent[open.accounts[h]]
    <3>1. CASE play.opened
      <4>1. seen = SiteAtFirst /\ open.accounts = Accounts(SiteAtFirst)
        BY <3>1 DEF VaultInit
      <4>2. open.accounts[h] \in Secrets /\ SiteAtFirst[open.accounts[h]] = h /\ h # NoHost
        BY <2>2, <4>1, AccountsTyped
      <4> QED  BY <2>1, <4>1, <4>2
    <3>2. CASE ~play.opened
      BY <2>2, <3>2, <1>o DEF Closed, NoAccounts
    <3> QED  BY <3>1, <3>2
  <2>3. \A f \in Flows : flow[f].at = "idle"
    BY DEF VaultInit, Idle
  <2> QED  BY <2>1, <2>2, <2>3 DEF ConsentInv, AtWork, InLoad, InAccept
<1> QED  BY <1>1, <1>2, <1>3 DEF VaultInv

----------------------------------------------------------------------------
\* Steps of the popup's chains of calls: one of them changes.
LEMMA ChainSet ==
  ASSUME VaultTypes, NEW f \in Flows, NEW c \in Chains
  PROVE  [flow EXCEPT ![f] = c] \in [Flows -> Chains]
  BY DEF VaultTypes

LEMMA Gone ==
  ASSUME VaultTypes, NEW f \in Flows, NEW at \in Awaits,
         Goto(f, at) \/ Stop(f) \/ Answered(f, at)
  PROVE  /\ flow' \in [Flows -> Chains]
         /\ flow'[f].at \in {at, "idle"}
         /\ \A g \in Flows \ {f} : flow'[g] = flow[g]
<1>1. flow[f] \in Chains
  BY DEF VaultTypes
<1>2. [flow[f] EXCEPT !.at = at] \in Chains /\ [Idle EXCEPT !.at = at] \in Chains /\ Idle \in Chains
  BY <1>1, Bases DEF Chains
<1>3. \/ flow' = [flow EXCEPT ![f] = [flow[f] EXCEPT !.at = at]]
      \/ flow' = [flow EXCEPT ![f] = Idle]
      \/ flow' = [flow EXCEPT ![f] = [Idle EXCEPT !.at = at]]
  BY DEF Goto, Stop, Answered
<1>4. Idle.at = "idle" /\ [Idle EXCEPT !.at = at].at = at /\ [flow[f] EXCEPT !.at = at].at = at
  BY <1>1 DEF Idle, Chains
<1> QED  BY <1>2, <1>3, <1>4, ChainSet DEF VaultTypes

LEMMA VaultTyped ==
  ASSUME VaultTypes, VaultNext \/ BrowserEnds
  PROVE  VaultTypes'
<1> USE VaultAssumptions, Bases DEF VaultTypes, disk, worker, popup, world, counts, endings, Rest
<1>e. ASSUME NEW n \in 0..MaxUnlocks, Ending(n)
      PROVE  over' \subseteq 1..MaxUnlocks /\ loose' \subseteq 1..MaxUnlocks
  <2>1. {n} \ {0} \subseteq 1..MaxUnlocks
    OBVIOUS
  <2>2. over' \subseteq over \cup ({n} \ {0}) /\ loose' \subseteq loose \cup ({n} \ {0})
    BY <1>e DEF Ending
  <2> QED  BY <2>1, <2>2
<1>n. open.n \in 0..MaxUnlocks
  BY DEF OpenVaults
<1>1. CASE Remove
  BY <1>1, <1>e, <1>n DEF Remove
<1>2. CASE TimerFires
  BY <1>2, <1>e, <1>n DEF TimerFires
<1>3. CASE Lapse
  BY <1>3 DEF Lapse
<1>4. CASE IssueNonce
  BY <1>4 DEF IssueNonce
<1>5. CASE Recycle
  BY <1>5 DEF Recycle
<1>6. CASE OpenPopup
  <2>1. flow' \in [Flows -> Chains]
    BY <1>6, Gone DEF OpenPopup, Flows, Awaits
  <2> QED  BY <1>6, <2>1 DEF OpenPopup, Sections
<1>7. CASE ClosePopup
  <2>1. flow' \in [Flows -> Chains]
    <3> SUFFICES ASSUME NEW f \in Flows PROVE flow'[f] \in Chains
      BY <1>7 DEF ClosePopup
    <3>1. [flow[f] EXCEPT !.orphan = TRUE] \in Chains
      BY DEF Chains
    <3> QED  BY <1>7, <3>1 DEF ClosePopup
  <2> QED  BY <1>7, <2>1 DEF ClosePopup, Sections
<1>8. ASSUME NEW nonce \in 1..MaxNonces, HandOver(nonce) PROVE VaultTypes'
  BY <1>8 DEF HandOver
<1>9. ASSUME NEW h \in Hosts, ShowCode(h) PROVE VaultTypes'
  BY <1>9 DEF ShowCode, FindExpired
<1>10. ASSUME NEW s \in Secrets, NEW h \in Hosts \cup {NoHost}, MoveSite(s, h) PROVE VaultTypes'
  BY <1>10 DEF MoveSite, Sites
<1>11. ASSUME NEW f \in Flows, PressUnlock(f) \/ PressProtect(f) \/ PressLock(f) \/ PressAccept(f)
       PROVE  VaultTypes'
  <2>1. flow' \in [Flows -> Chains]
    BY <1>11, Gone DEF PressUnlock, PressProtect, PressLock, PressAccept, Press, Awaits, InWorker, InAccept
  <2>2. twice' \in BOOLEAN
    BY <1>11 DEF PressUnlock, PressProtect, PressLock, PressAccept, Press
  <2> QED  BY <1>11, <2>1, <2>2 DEF PressUnlock, PressProtect, PressLock, PressAccept, Press
<1>12. ASSUME NEW f \in Flows, VaultStep(f) PROVE VaultTypes'
  <2>0. flow[f] \in Chains
    OBVIOUS
  <2>a. /\ InWorker \subseteq Awaits /\ InLoad \subseteq Awaits /\ InAccept \subseteq Awaits
        /\ {"idle", "first", "get", "render", "reopen", "reopening"} \subseteq Awaits
    BY DEF Awaits
  <2>u. ASSUME Unlocked
        PROVE  /\ open' \in OpenVaults /\ timer' \in 0..MaxUnlocks /\ unlocks' \in 0..MaxUnlocks
               /\ over' \subseteq 1..MaxUnlocks /\ loose' \subseteq 1..MaxUnlocks
    <3>1. unlocks + 1 \in 0..MaxUnlocks
      BY <2>u DEF Unlocked
    <3>2. NewVault \in OpenVaults
      BY <3>1 DEF NewVault, OpenVaults
    <3> QED  BY <2>u, <1>e, <1>n, <3>1, <3>2 DEF Unlocked
  <2>1. CASE Unlock(f)
    BY <2>1, <2>a, Gone DEF Unlock, InWorker
  <2>2. CASE Unwrap(f)
    BY <2>2, <2>a, <2>u, Gone DEF Unwrap, InWorker
  <2>17. CASE Opened(f)
    BY <2>17, <2>a, Gone DEF Opened
  <2>18. CASE Refused(f)
    BY <2>18, <2>a, Gone DEF Refused
  <2>19. CASE Locked(f)
    BY <2>19, <2>a, Gone DEF Locked
  <2>3. CASE Protect(f)
    <3>1. [[flow[f] EXCEPT !.at = "wrap"] EXCEPT !.pairing = arrived] \in Chains
      BY <2>0, <2>a DEF Chains, InWorker
    <3>2. flow' \in [Flows -> Chains]
      BY <2>3, <2>a, <3>1, Gone, ChainSet DEF Protect
    <3> QED  BY <2>3, <3>2 DEF Protect
  <2>4. CASE Wrap(f)
    <3>1. [[flow[f] EXCEPT !.at = "paired"] EXCEPT !.pairing = 0] \in Chains
      <4>1. "paired" \in Awaits /\ 0 \in 0..MaxNonces
        BY <2>a DEF InWorker
      <4> QED  BY <2>0, <4>1 DEF Chains
    <3> QED  BY <2>0, <2>4, <3>1, ChainSet DEF Wrap, Chains
  <2>5. CASE Paired(f)
    BY <2>5, <2>a, <2>u, Gone DEF Paired, InWorker
  <2>6. CASE Lock(f)
    BY <2>6, <2>a, <1>e, <1>n, Gone DEF Lock, InWorker
  <2>7. CASE Get(f)
    <3>1. [[flow[f] EXCEPT !.at = "read"] EXCEPT !.copy = open] \in Chains
      BY <2>0, <2>a DEF Chains, InLoad
    <3>2. flow' \in [Flows -> Chains]
      BY <2>7, <2>a, <3>1, Gone, ChainSet DEF Get
    <3> QED  BY <2>7, <3>2 DEF Get
  <2>8. CASE Read(f)
    <3>1. /\ [[flow[f] EXCEPT !.at = "seen"] EXCEPT !.sites = site] \in Chains
          /\ [Idle EXCEPT !.at = "render"] \in Chains
      BY <2>0, <2>a DEF Chains, InLoad
    <3>2. flow' \in [Flows -> Chains]
      BY <2>8, <3>1, ChainSet DEF Read
    <3> QED  BY <2>8, <3>2 DEF Read
  <2>9. CASE Seen(f)
    <3>1. [[flow[f] EXCEPT !.at = "remember"] EXCEPT !.prior = seen] \in Chains
      BY <2>0, <2>a DEF Chains, InLoad
    <3>2. Moved(flow[f].sites, seen) \in Sites
      BY <2>0, SitesTyped DEF Chains
    <3> QED  BY <2>9, <3>1, <3>2, ChainSet DEF Seen
  <2>10. CASE Remember(f)
    <3>1. /\ Settled(flow[f].sites, flow[f].prior) \in Sites
          /\ Over(flow[f].prior, Settled(flow[f].sites, flow[f].prior)) \in Sites
      BY <2>0, SitesTyped DEF Chains
    <3>2. consent' \in [Secrets -> SUBSET (Hosts \cup {NoHost})]
      BY <2>10, <3>1 DEF Remember, Sites
    <3>3. flow' \in [Flows -> Chains]
      BY <2>10, <2>a, Gone DEF Remember, InLoad
    <3> QED  BY <2>10, <3>1, <3>2, <3>3 DEF Remember
  <2>11. CASE Write(f)
    <3>1. [Idle EXCEPT !.at = "render"] \in Chains
      BY <2>a DEF Chains
    <3>2. [flow[f].copy EXCEPT !.accounts = Kept(flow[f].sites, flow[f].prior)] \in OpenVaults
      BY <2>0, SitesTyped DEF Chains, OpenVaults
    <3> QED  BY <2>11, <3>1, <3>2, ChainSet DEF Write
  <2>12. CASE Accept(f)
    <3>1. [[flow[f] EXCEPT !.at = "accepting"] EXCEPT !.prior = seen] \in Chains
      BY <2>0, <2>a DEF Chains, InAccept
    <3> QED  BY <2>12, <3>1, ChainSet DEF Accept
  <2>13. CASE Accepting(f)
    <3>1. [Idle EXCEPT !.at = "reopen"] \in Chains
      BY <2>a DEF Chains
    <3>2. Over(flow[f].prior, moved) \in Sites
      BY <2>0, SitesTyped DEF Chains
    <3>3. consent' \in [Secrets -> SUBSET (Hosts \cup {NoHost})]
      BY <2>13 DEF Accepting, Sites
    <3> QED  BY <2>13, <3>1, <3>2, <3>3, ChainSet DEF Accepting
  <2>14. CASE Reopen(f)
    <3>1. [[flow[f] EXCEPT !.at = "reopening"] EXCEPT !.copy = open] \in Chains
      BY <2>0, <2>a DEF Chains
    <3>2. flow' \in [Flows -> Chains]
      BY <2>14, <2>a, <3>1, Gone, ChainSet DEF Reopen
    <3> QED  BY <2>14, <3>2 DEF Reopen
  <2>15. CASE Reopening(f)
    <3>1. [Idle EXCEPT !.at = "get"] \in Chains
      BY <2>a DEF Chains
    <3>2. [flow[f].copy EXCEPT !.accounts = NoAccounts] \in OpenVaults
      BY <2>0 DEF Chains, OpenVaults
    <3> QED  BY <2>15, <3>1, <3>2, ChainSet DEF Reopening
  <2>16. CASE Render(f)
    <3>1. flow' \in [Flows -> Chains]
      BY <2>16, <2>a, Gone DEF Render
    <3>2. section' \in Sections /\ rendered' \in Sites /\ removing' \in BOOLEAN
      BY <2>16 DEF Render, Sections
    <3> QED  BY <2>16, <3>1, <3>2 DEF Render
  <2> QED  BY <1>12, <2>1, <2>2, <2>3, <2>4, <2>5, <2>6, <2>7, <2>8, <2>9, <2>10, <2>11, <2>12,
              <2>13, <2>14, <2>15, <2>16, <2>17, <2>18, <2>19 DEF VaultStep
<1>13. CASE BrowserEnds
  <2>1. over' \subseteq 1..MaxUnlocks /\ loose' \subseteq 1..MaxUnlocks
    BY <1>13, <1>e, <1>n DEF BrowserEnds
  <2>2. flow' \in [Flows -> Chains] /\ section' \in Sections
    BY <1>13 DEF BrowserEnds, Sections
  <2>3. /\ offered' \in 0..MaxNonces /\ arrived' \in 0..MaxNonces /\ timer' \in 0..MaxUnlocks
        /\ removing' \in BOOLEAN /\ moved' \in Sites /\ rendered' \in Sites /\ open' \in OpenVaults
    <3>1. 0 \in 0..MaxNonces /\ 0 \in 0..MaxUnlocks
      OBVIOUS
    <3> QED  BY <1>13, <3>1 DEF BrowserEnds
  <2> QED  BY <1>13, <2>1, <2>2, <2>3 DEF BrowserEnds
<1> QED  BY <1>1, <1>2, <1>3, <1>4, <1>5, <1>6, <1>7, <1>8, <1>9, <1>10, <1>11, <1>12, <1>13 DEF VaultNext, VaultCalls
----------------------------------------------------------------------------
\* Locking.  What a chain of calls holds of the vault goes on to tell the truth.
Grows == unlocks' \in {unlocks, unlocks + 1}

LEMMA StillTells ==
  ASSUME VaultTypes, LockInv, Grows, UNCHANGED endings \/ Ending(open.n),
         NEW f \in Flows, NEW v, v = flow[f].copy
  PROVE  Tells(v)'
<1>1. Tells(v) /\ v \in OpenVaults /\ (flow[f].at = "idle" => v.n = 0)
  BY DEF LockInv, Carries, VaultTypes, Chains
<1>2. v.n <= unlocks'
  BY <1>1 DEF Tells, OpenVaults, VaultTypes, Grows
<1>3. CASE UNCHANGED endings
  BY <1>1, <1>2, <1>3 DEF Tells, endings
<1>4. CASE Ending(open.n)
  <2>1. v.n \in over' => v.n \in loose'
    BY <1>1, <1>4 DEF Ending, Tells
  <2> QED  BY <1>1, <1>2, <2>1 DEF Tells
<1> QED  BY <1>3, <1>4

LEMMA NothingTells == ASSUME VaultTypes, NEW v, v.n = 0, v.until = 0, Grows, 0 \notin over'
                      PROVE  Tells(v)'
  BY DEF Tells, VaultTypes, Grows

LEMMA OverWithin ==
  ASSUME VaultTypes, LockInv, Grows, UNCHANGED endings \/ Ending(open.n)
  PROVE  over' \subseteq 1..unlocks' /\ 0 \notin over' /\ over' \subseteq 1..unlocks
<1>1. over \subseteq 1..unlocks /\ open.n \in 0..unlocks /\ unlocks \in Nat
  BY DEF LockInv, Tells, VaultTypes, OpenVaults
<1>2. over' \subseteq over \cup ({open.n} \ {0})
  BY DEF Ending, endings
<1>3. over' \subseteq 1..unlocks
  BY <1>1, <1>2
<1>4. 1..unlocks \subseteq 1..unlocks'
  BY <1>1 DEF Grows
<1> QED  BY <1>3, <1>4

\* A chain that goes on with the copy it had, or with none.
Goes(chain, new) ==
    \/ new.copy = chain.copy /\ (new.at \in Copying => chain.at \in Copying)
                             /\ (new.at = "idle" => chain.at = "idle")
    \/ new.copy = Closed /\ new.at \notin Copying

LEMMA GoesOn ==
  ASSUME VaultTypes, LockInv, Grows, UNCHANGED endings \/ Ending(open.n),
         NEW f \in Flows, NEW new, Goes(flow[f], new)
  PROVE  Carries(new)'
<1>1. Carries(flow[f])
  BY DEF LockInv
<1>2. CASE new.copy = Closed /\ new.at \notin Copying
  <2>1. Tells(new.copy)'
    <3>1. Closed.n = 0 /\ Closed.until = 0 /\ 0 \notin over'
      BY OverWithin DEF Closed
    <3> QED  BY <1>2, <3>1, NothingTells
  <2> QED  BY <1>2, <2>1 DEF Carries, Closed
<1>3. CASE new.copy = flow[f].copy /\ (new.at \in Copying => flow[f].at \in Copying)
                                   /\ (new.at = "idle" => flow[f].at = "idle")
  <2>1. Tells(new.copy)'
    BY <1>3, StillTells
  <2> QED  BY <1>1, <1>3, <2>1 DEF Carries
<1> QED  BY <1>2, <1>3 DEF Goes

\* The vault after a step: as it was, closed, new, or a copy that a chain wrote back.
LEMMA VaultTells ==
  ASSUME VaultTypes, LockInv, Grows,
         \/ UNCHANGED <<open, over, loose>>
         \/ open' = Closed /\ Ending(open.n)
         \/ Unlocked
         \/ UNCHANGED <<endings, unlocks>> /\ \E f \in Flows : flow[f].at \in Copying
              /\ open'.n = flow[f].copy.n /\ open'.until = flow[f].copy.until
  PROVE  Tells(open)' /\ (open'.n = 0 => open' = Closed) /\ (over \subseteq 1..unlocks)'
<1> USE DEF endings
<1>1. CASE UNCHANGED <<open, over, loose>>
  <2>1. Tells(open) /\ (open.n = 0 => open = Closed)
    BY DEF LockInv
  <2> QED  BY <1>1, <2>1, OverWithin DEF Tells, Grows, VaultTypes, OpenVaults
<1>2. CASE open' = Closed /\ Ending(open.n)
  <2>1. open'.n = 0 /\ open'.until = 0 /\ 0 \notin over'
    BY <1>2, OverWithin DEF Closed
  <2> QED  BY <1>2, <2>1, OverWithin DEF Tells, Grows, VaultTypes
<1>3. CASE Unlocked
  <2>1. open'.n = unlocks' /\ open'.until = unlocks' /\ unlocks' = unlocks + 1 /\ Ending(open.n)
    BY <1>3 DEF Unlocked, NewVault
  <2>2. unlocks' \notin over' /\ unlocks' \in Nat /\ unlocks' # 0
    BY <2>1, OverWithin DEF VaultTypes
  <2> QED  BY <2>1, <2>2, OverWithin DEF Tells
<1>4. CASE UNCHANGED <<endings, unlocks>> /\ \E f \in Flows : flow[f].at \in Copying
              /\ open'.n = flow[f].copy.n /\ open'.until = flow[f].copy.until
  <2>1. PICK f \in Flows : flow[f].at \in Copying
              /\ open'.n = flow[f].copy.n /\ open'.until = flow[f].copy.until
    BY <1>4
  <2>2. Tells(flow[f].copy) /\ flow[f].copy.n # 0
    BY <2>1 DEF LockInv, Carries
  <2> QED  BY <1>4, <2>1, <2>2, OverWithin DEF Tells
<1> QED  BY <1>1, <1>2, <1>3, <1>4

\* A chain that takes a copy of the open vault.
Takes(new) ==
    /\ UNCHANGED <<open, endings, unlocks>>
    /\ open.n # 0 /\ new.copy = open /\ new.at \in Copying

LEMMA LockFrom ==
  ASSUME VaultTypes, LockInv, Grows, UNCHANGED endings \/ Ending(open.n),
         \/ UNCHANGED <<open, over, loose>>
         \/ open' = Closed /\ Ending(open.n)
         \/ Unlocked
         \/ UNCHANGED <<endings, unlocks>> /\ \E f \in Flows : flow[f].at \in Copying
              /\ open'.n = flow[f].copy.n /\ open'.until = flow[f].copy.until,
         \A g \in Flows : Goes(flow[g], flow'[g]) \/ Takes(flow'[g])
  PROVE  LockInv'
<1>1. Tells(open)' /\ (open'.n = 0 => open' = Closed) /\ (over \subseteq 1..unlocks)'
  BY VaultTells
<1>2. ASSUME NEW g \in Flows PROVE Carries(flow[g])'
  <2>1. CASE Goes(flow[g], flow'[g])
    <3>1. \A new : new = flow'[g] => Carries(new)'
      BY <2>1, GoesOn
    <3> QED  BY <3>1 DEF Carries, Tells
  <2>2. CASE Takes(flow'[g])
    <3>1. Tells(open)
      BY DEF LockInv
    <3> QED  BY <2>2, <3>1 DEF Takes, Carries, Tells, Copying, endings
  <2> QED  BY <2>1, <2>2
<1> QED  BY <1>1, <1>2 DEF LockInv

LEMMA LockKept ==
  ASSUME VaultTypes, LockInv, VaultNext \/ BrowserEnds
  PROVE  LockInv'
<1> USE DEF disk, worker, popup, world, counts, endings, Rest
<1>s. ASSUME UNCHANGED <<flow>> PROVE \A g \in Flows : Goes(flow[g], flow'[g])
  BY <1>s DEF Goes
<1>q. ASSUME UNCHANGED <<open, over, loose, unlocks>>,
             \A g \in Flows : Goes(flow[g], flow'[g]) \/ Takes(flow'[g])
      PROVE  LockInv'
  BY <1>q, LockFrom DEF Grows
<1>c. ASSUME open' = Closed, Ending(open.n), UNCHANGED unlocks, \A g \in Flows : Goes(flow[g], flow'[g])
      PROVE  LockInv'
  BY <1>c, LockFrom DEF Grows
<1>1. CASE Remove
  BY <1>1, <1>s, <1>c DEF Remove
<1>2. CASE TimerFires
  BY <1>2, <1>s, <1>c DEF TimerFires
<1>3. CASE Lapse
  BY <1>3, <1>s, <1>q DEF Lapse
<1>4. CASE IssueNonce
  BY <1>4, <1>s, <1>q DEF IssueNonce
<1>5. CASE Recycle
  BY <1>5, <1>s, <1>q DEF Recycle
<1>g. ASSUME NEW f \in Flows, NEW at, at \notin Copying \cup {"idle"}, Goto(f, at)
      PROVE  \A g \in Flows : Goes(flow[g], flow'[g])
  BY <1>g DEF Goto, Goes, VaultTypes, Chains
<1>i. ASSUME NEW f \in Flows, NEW at, at \notin Copying, flow' = [flow EXCEPT ![f] = [Idle EXCEPT !.at = at]]
      PROVE  \A g \in Flows : Goes(flow[g], flow'[g])
  BY <1>i DEF Idle, Goes, VaultTypes, Chains
<1>z. ASSUME NEW f \in Flows, Stop(f) PROVE \A g \in Flows : Goes(flow[g], flow'[g])
  BY <1>z DEF Stop, Idle, Goes, VaultTypes, Chains, Copying
<1>6. CASE OpenPopup
  BY <1>6, <1>g, <1>q DEF OpenPopup, Flows, Copying
<1>7. CASE ClosePopup
  <2>1. \A g \in Flows : flow'[g] = IF flow[g].at \in InWorker THEN [flow[g] EXCEPT !.orphan = TRUE] ELSE Idle
    BY <1>7 DEF ClosePopup
  <2>2. \A g \in Flows : Goes(flow[g], flow'[g])
    <3> SUFFICES ASSUME NEW g \in Flows PROVE Goes(flow[g], flow'[g])
      OBVIOUS
    <3>1. CASE flow'[g] = Idle
      BY <3>1 DEF Goes, Idle, Copying
    <3>2. CASE flow'[g] = [flow[g] EXCEPT !.orphan = TRUE]
      <4>1. flow[g] \in Chains
        BY DEF VaultTypes
      <4>2. flow'[g].at = flow[g].at /\ flow'[g].copy = flow[g].copy
        BY <3>2, <4>1 DEF Chains
      <4> QED  BY <4>2 DEF Goes
    <3> QED  BY <2>1, <3>1, <3>2
  <2> QED  BY <1>7, <2>2, <1>q DEF ClosePopup
<1>8. ASSUME NEW nonce \in 1..MaxNonces, HandOver(nonce) PROVE LockInv'
  BY <1>8, <1>s, <1>q DEF HandOver
<1>9. ASSUME NEW h \in Hosts, ShowCode(h) PROVE LockInv'
  BY <1>9, <1>s, <1>q DEF ShowCode, FindExpired
<1>10. ASSUME NEW s \in Secrets, NEW h \in Hosts \cup {NoHost}, MoveSite(s, h) PROVE LockInv'
  BY <1>10, <1>s, <1>q DEF MoveSite
<1>11. ASSUME NEW f \in Flows, PressUnlock(f) \/ PressProtect(f) \/ PressLock(f) \/ PressAccept(f)
       PROVE  LockInv'
  BY <1>11, <1>g, <1>q DEF PressUnlock, PressProtect, PressLock, PressAccept, Press, Copying
<1>12. ASSUME NEW f \in Flows, VaultStep(f) PROVE LockInv'
  <2>0. flow[f] \in Chains /\ Carries(flow[f])
    BY DEF VaultTypes, LockInv
  <2>u. ASSUME Unlocked, \A g \in Flows : Goes(flow[g], flow'[g]) PROVE LockInv'
    BY <2>u, LockFrom DEF Grows, Unlocked
  <2>n. ASSUME NEW at, at \notin Copying, Answered(f, at) PROVE \A g \in Flows : Goes(flow[g], flow'[g])
    BY <2>n, <1>i, <1>z DEF Answered
  <2>1. CASE Unlock(f)
    BY <2>1, <1>g, <1>z, <1>q DEF Unlock, Copying
  <2>2. CASE Unwrap(f)
    <3>1. CASE Goto(f, "refused") /\ UNCHANGED <<open, timer, unlocks, endings>>
      BY <3>1, <1>g, <1>q DEF Copying
    <3>2. CASE Unlocked /\ Goto(f, "opened")
      BY <3>2, <1>g, <2>u DEF Copying
    <3> QED  BY <2>2, <3>1, <3>2 DEF Unwrap
  <2>17. CASE Opened(f)
    <3>1. \A g \in Flows : Goes(flow[g], flow'[g])
      BY <2>17, <2>n, <1>z DEF Opened, Copying
    <3> QED  BY <2>17, <3>1, <1>q DEF Opened
  <2>18. CASE Refused(f)
    BY <2>18, <1>z, <1>q DEF Refused
  <2>19. CASE Locked(f)
    BY <2>19, <2>n, <1>q DEF Locked, Copying
  <2>3. CASE Protect(f)
    <3>1. \A g \in Flows : Goes(flow[g], flow'[g])
      <4>1. CASE Stop(f)
        BY <4>1, <1>z
      <4>2. CASE flow' = [flow EXCEPT ![f].at = "wrap", ![f].pairing = arrived]
        BY <4>2 DEF Goes, VaultTypes, Chains, Copying
      <4> QED  BY <2>3, <4>1, <4>2 DEF Protect
    <3> QED  BY <2>3, <3>1, <1>q DEF Protect
  <2>4. CASE Wrap(f)
    <3>1. \A g \in Flows : Goes(flow[g], flow'[g])
      BY <2>4 DEF Wrap, Goes, VaultTypes, Chains, Copying
    <3> QED  BY <2>4, <3>1, <1>q DEF Wrap
  <2>5. CASE Paired(f)
    BY <2>5, <1>g, <2>u DEF Paired, Copying
  <2>6. CASE Lock(f)
    BY <2>6, <1>g, <1>c DEF Lock, Copying
  <2>7. CASE Get(f)
    <3>1. CASE Goto(f, "render")
      BY <2>7, <3>1, <1>g, <1>q DEF Get, Copying
    <3>2. CASE open # Closed /\ flow' = [flow EXCEPT ![f].at = "read", ![f].copy = open]
      <4>1. open.n # 0
        BY <3>2 DEF LockInv
      <4>2. \A g \in Flows : Goes(flow[g], flow'[g]) \/ Takes(flow'[g])
        BY <2>7, <3>2, <4>1 DEF Get, Goes, Takes, VaultTypes, Chains, Copying
      <4> QED  BY <2>7, <4>2, <1>q DEF Get
    <3> QED  BY <2>7, <3>1, <3>2 DEF Get
  <2>8. CASE Read(f)
    <3>1. \A g \in Flows : Goes(flow[g], flow'[g])
      <4>1. CASE flow' = [flow EXCEPT ![f] = [Idle EXCEPT !.at = "render"]]
        BY <4>1, <1>i DEF Copying
      <4>2. CASE flow' = [flow EXCEPT ![f].at = "seen", ![f].sites = site]
        BY <2>8, <4>2 DEF Read, Goes, VaultTypes, Chains, Copying
      <4> QED  BY <2>8, <4>1, <4>2 DEF Read
    <3> QED  BY <2>8, <3>1, <1>q DEF Read
  <2>9. CASE Seen(f)
    <3>1. \A g \in Flows : Goes(flow[g], flow'[g])
      BY <2>9 DEF Seen, Goes, VaultTypes, Chains, Copying
    <3> QED  BY <2>9, <3>1, <1>q DEF Seen
  <2>10. CASE Remember(f)
    <3>1. \A g \in Flows : Goes(flow[g], flow'[g])
      BY <2>10 DEF Remember, Goto, Goes, VaultTypes, Chains, Copying
    <3> QED  BY <2>10, <3>1, <1>q DEF Remember
  <2>w. ASSUME NEW at, at \notin Copying, NEW accounts, flow[f].at \in Copying,
               open' = [flow[f].copy EXCEPT !.accounts = accounts],
               flow' = [flow EXCEPT ![f] = [Idle EXCEPT !.at = at]], UNCHANGED <<endings, unlocks>>
        PROVE  LockInv'
    <3>1. open'.n = flow[f].copy.n /\ open'.until = flow[f].copy.until
      BY <2>w, <2>0 DEF Chains, OpenVaults
    <3>2. \A g \in Flows : Goes(flow[g], flow'[g])
      BY <2>w, <1>i
    <3> QED  BY <2>w, <3>1, <3>2, LockFrom DEF Grows
  <2>11. CASE Write(f)
    <3>1. /\ flow[f].at \in Copying /\ "render" \notin Copying
          /\ flow' = [flow EXCEPT ![f] = [Idle EXCEPT !.at = "render"]] /\ UNCHANGED <<endings, unlocks>>
      BY <2>11 DEF Write, Copying
    <3>2. open' = [flow[f].copy EXCEPT !.accounts = Kept(flow[f].sites, flow[f].prior)]
      BY <2>11 DEF Write
    <3> QED  BY <3>1, <3>2, <2>w
  <2>12. CASE Accept(f)
    <3>1. \A g \in Flows : Goes(flow[g], flow'[g])
      BY <2>12 DEF Accept, Goes, VaultTypes, Chains, Copying
    <3> QED  BY <2>12, <3>1, <1>q DEF Accept
  <2>13. CASE Accepting(f)
    BY <2>13, <1>i, <1>q DEF Accepting, Copying
  <2>14. CASE Reopen(f)
    <3>1. CASE Goto(f, "get")
      BY <2>14, <3>1, <1>g, <1>q DEF Reopen, Copying
    <3>2. CASE open # Closed /\ flow' = [flow EXCEPT ![f].at = "reopening", ![f].copy = open]
      <4>1. open.n # 0
        BY <3>2 DEF LockInv
      <4>2. \A g \in Flows : Goes(flow[g], flow'[g]) \/ Takes(flow'[g])
        BY <2>14, <3>2, <4>1 DEF Reopen, Goes, Takes, VaultTypes, Chains, Copying
      <4> QED  BY <2>14, <4>2, <1>q DEF Reopen
    <3> QED  BY <2>14, <3>1, <3>2 DEF Reopen
  <2>15. CASE Reopening(f)
    <3>1. /\ flow[f].at \in Copying /\ "get" \notin Copying
          /\ flow' = [flow EXCEPT ![f] = [Idle EXCEPT !.at = "get"]] /\ UNCHANGED <<endings, unlocks>>
      BY <2>15 DEF Reopening, Copying
    <3>2. open' = [flow[f].copy EXCEPT !.accounts = NoAccounts]
      BY <2>15 DEF Reopening
    <3> QED  BY <3>1, <3>2, <2>w
  <2>16. CASE Render(f)
    <3>1. \A g \in Flows : Goes(flow[g], flow'[g])
      BY <2>16, <1>g, <1>z DEF Render, Copying
    <3> QED  BY <2>16, <3>1, <1>q DEF Render
  <2> QED  BY <1>12, <2>1, <2>2, <2>3, <2>4, <2>5, <2>6, <2>7, <2>8, <2>9, <2>10, <2>11, <2>12,
              <2>13, <2>14, <2>15, <2>16, <2>17, <2>18, <2>19 DEF VaultStep
<1>13. CASE BrowserEnds
  <2>1. \A g \in Flows : Goes(flow[g], flow'[g])
    BY <1>13 DEF BrowserEnds, Idle, Goes, Copying
  <2> QED  BY <1>13, <2>1, <1>c DEF BrowserEnds
<1> QED  BY <1>1, <1>2, <1>3, <1>4, <1>5, <1>6, <1>7, <1>8, <1>9, <1>10, <1>11, <1>12, <1>13 DEF VaultNext, VaultCalls

----------------------------------------------------------------------------
\* Consent.
SeenAgreed == \A s \in Secrets : seen[s] # NoHost => seen[s] \in consent[s]
OpenAgreed == \A h \in Hosts : open.accounts[h] # NoSecret => h \in consent[open.accounts[h]]
AloneAtWork == \A f, g \in Flows : f # g /\ flow[f].at \in AtWork => flow[g].at \notin AtWork
Agrees(f) ==
    /\ flow[f].at \in {"remember", "accepting"} => flow[f].prior = seen
    /\ flow[f].at \in InAccept => moved = rendered
    /\ flow[f].at = "write" => \A s \in Secrets :
          LET h == Settled(flow[f].sites, flow[f].prior)[s] IN h # NoHost => h \in consent[s]

LEMMA ConsentSplit ==
  ConsentInv <=> (~twice => SeenAgreed /\ OpenAgreed /\ AloneAtWork /\ \A f \in Flows : Agrees(f))
  BY DEF ConsentInv, SeenAgreed, OpenAgreed, AloneAtWork, Agrees

\* A step that begins no work, and goes on with none.
Calm(chain, new) ==
    new.at \notin AtWork \/ (new.at = chain.at /\ new.prior = chain.prior /\ new.sites = chain.sites)

LEMMA CalmKeeps ==
  ASSUME VaultTypes, ConsentInv, ~twice, UNCHANGED <<seen, consent>>,
         open'.accounts \in {open.accounts, NoAccounts},
         moved = rendered => moved' = rendered',
         \A g \in Flows : Calm(flow[g], flow'[g])
  PROVE  ConsentInv'
<1>1. SeenAgreed /\ OpenAgreed /\ AloneAtWork /\ \A f \in Flows : Agrees(f)
  BY ConsentSplit
<1>2. SeenAgreed'
  BY <1>1 DEF SeenAgreed
<1>3. OpenAgreed'
  BY <1>1 DEF OpenAgreed, NoAccounts
<1>4. AloneAtWork'
  BY <1>1 DEF AloneAtWork, Calm
<1>5. ASSUME NEW f \in Flows PROVE Agrees(f)'
  <2>1. CASE flow'[f].at \notin AtWork
    BY <2>1 DEF Agrees, AtWork, InLoad, InAccept
  <2>2. CASE flow'[f].at = flow[f].at /\ flow'[f].prior = flow[f].prior /\ flow'[f].sites = flow[f].sites
    BY <1>1, <2>2 DEF Agrees
  <2> QED  BY <2>1, <2>2 DEF Calm
<1> QED  BY <1>2, <1>3, <1>4, <1>5 DEF ConsentInv, SeenAgreed, OpenAgreed, AloneAtWork, Agrees

\* A step of the chain that is at work, or begins to be.
LEMMA AloneKeeps ==
  ASSUME NEW f \in Flows, \A g \in Flows \ {f} : flow'[g].at \notin AtWork,
         SeenAgreed', OpenAgreed', Agrees(f)'
  PROVE  ConsentInv'
<1>1. AloneAtWork'
  BY DEF AloneAtWork
<1>2. ASSUME NEW g \in Flows PROVE Agrees(g)'
  <2>1. CASE g # f
    BY <2>1 DEF Agrees, AtWork, InLoad, InAccept
  <2> QED  BY <2>1
<1> QED  BY <1>1, <1>2 DEF ConsentInv, SeenAgreed, OpenAgreed, AloneAtWork, Agrees

LEMMA ConsentKept ==
  ASSUME VaultTypes, VaultTypes', ConsentInv, VaultNext \/ BrowserEnds
  PROVE  ConsentInv'
<1> USE DEF disk, worker, popup, world, counts, endings, Rest
<1> SUFFICES ASSUME ~twice' PROVE ConsentInv'
  BY DEF ConsentInv
<1>s. ASSUME UNCHANGED <<flow>> PROVE \A g \in Flows : Calm(flow[g], flow'[g])
  BY <1>s DEF Calm
<1>q. ASSUME ~twice, UNCHANGED <<seen, consent, moved, rendered>>,
             open' = open \/ open' = Closed \/ Unlocked,
             \A g \in Flows : Calm(flow[g], flow'[g])
      PROVE  ConsentInv'
  <2>1. open'.accounts \in {open.accounts, NoAccounts}
    BY <1>q DEF Closed, Unlocked, NewVault
  <2> QED  BY <1>q, <2>1, CalmKeeps
<1>g. ASSUME NEW f \in Flows, NEW at, at \notin AtWork, Goto(f, at)
      PROVE  \A g \in Flows : Calm(flow[g], flow'[g])
  BY <1>g DEF Goto, Calm, VaultTypes, Chains
<1>i. ASSUME NEW f \in Flows, NEW at, at \notin AtWork, flow' = [flow EXCEPT ![f] = [Idle EXCEPT !.at = at]]
      PROVE  \A g \in Flows : Calm(flow[g], flow'[g])
  BY <1>i DEF Idle, Calm, VaultTypes, Chains
<1>z. ASSUME NEW f \in Flows, Stop(f) PROVE \A g \in Flows : Calm(flow[g], flow'[g])
  BY <1>z DEF Stop, Idle, Calm, VaultTypes, Chains, AtWork, InLoad, InAccept
<1>n. ASSUME NEW f \in Flows, NEW at, at \notin AtWork, Answered(f, at)
      PROVE  \A g \in Flows : Calm(flow[g], flow'[g])
  BY <1>n, <1>i, <1>z DEF Answered
<1>1. CASE Remove
  BY <1>1, <1>s, <1>q DEF Remove
<1>2. CASE TimerFires
  BY <1>2, <1>s, <1>q DEF TimerFires
<1>3. CASE Lapse
  BY <1>3, <1>s, <1>q DEF Lapse
<1>4. CASE IssueNonce
  BY <1>4, <1>s, <1>q DEF IssueNonce
<1>5. CASE Recycle
  BY <1>5, <1>s, <1>q DEF Recycle
<1>6. CASE OpenPopup
  <2>1. \A g \in Flows : Calm(flow[g], flow'[g])
    BY <1>6, <1>g DEF OpenPopup, Flows, AtWork, InLoad, InAccept
  <2> QED  BY <1>6, <2>1, CalmKeeps DEF OpenPopup
<1>7. CASE ClosePopup
  <2>1. \A g \in Flows : flow'[g] = IF flow[g].at \in InWorker THEN [flow[g] EXCEPT !.orphan = TRUE] ELSE Idle
    BY <1>7 DEF ClosePopup
  <2>2. ASSUME NEW g \in Flows PROVE Calm(flow[g], flow'[g])
    <3>1. CASE flow'[g] = Idle
      BY <3>1 DEF Calm, Idle, AtWork, InLoad, InAccept
    <3>2. CASE flow'[g] = [flow[g] EXCEPT !.orphan = TRUE]
      <4>1. flow[g] \in Chains
        BY DEF VaultTypes
      <4> QED  BY <3>2, <4>1 DEF Calm, Chains
    <3> QED  BY <2>1, <3>1, <3>2
  <2> QED  BY <1>7, <2>2, CalmKeeps DEF ClosePopup
<1>8. ASSUME NEW nonce \in 1..MaxNonces, HandOver(nonce) PROVE ConsentInv'
  BY <1>8, <1>s, <1>q DEF HandOver
<1>9. ASSUME NEW h \in Hosts, ShowCode(h) PROVE ConsentInv'
  BY <1>9, <1>s, <1>q DEF ShowCode, FindExpired
<1>10. ASSUME NEW s \in Secrets, NEW h \in Hosts \cup {NoHost}, MoveSite(s, h) PROVE ConsentInv'
  BY <1>10, <1>s, <1>q DEF MoveSite
<1>13. CASE BrowserEnds
  <2>1. \A g \in Flows : Calm(flow[g], flow'[g])
    BY <1>13 DEF BrowserEnds, Idle, Calm, AtWork, InLoad, InAccept
  <2>2. open'.accounts \in {open.accounts, NoAccounts}
    BY <1>13 DEF BrowserEnds, Closed
  <2> QED  BY <1>13, <2>1, <2>2, CalmKeeps DEF BrowserEnds
<1>11. ASSUME NEW f \in Flows, PressUnlock(f) \/ PressProtect(f) \/ PressLock(f) \/ PressAccept(f)
       PROVE  ConsentInv'
  <2>1. CASE PressUnlock(f) \/ PressProtect(f) \/ PressLock(f)
    BY <2>1, <1>g, <1>q DEF PressUnlock, PressProtect, PressLock, Press, AtWork, InLoad, InAccept
  <2>2. CASE PressAccept(f)
    <3>1. ~twice /\ ~Beside(f) /\ moved = rendered /\ UNCHANGED <<open, seen, consent, moved, rendered>>
          /\ flow' = [flow EXCEPT ![f].at = "accept"]
      BY <2>2 DEF PressAccept, Press, InAccept, Goto
    <3>2. \A g \in Flows \ {f} : flow'[g].at \notin AtWork
      BY <3>1 DEF Beside, AtWork
    <3>3. SeenAgreed' /\ OpenAgreed'
      BY <3>1, ConsentSplit DEF SeenAgreed, OpenAgreed
    <3>4. Agrees(f)'
      BY <3>1 DEF Agrees, VaultTypes, Chains
    <3> QED  BY <3>2, <3>3, <3>4, AloneKeeps
  <2> QED  BY <1>11, <2>1, <2>2
<1>12. ASSUME NEW f \in Flows, VaultStep(f) PROVE ConsentInv'
  <2>0. flow[f] \in Chains
    BY DEF VaultTypes
  <2>s. ~twice => SeenAgreed /\ OpenAgreed /\ AloneAtWork /\ \A g \in Flows : Agrees(g)
    BY ConsentSplit
  <2>a. ASSUME ~twice, flow[f].at \in AtWork, NEW new, flow' = [flow EXCEPT ![f] = new]
        PROVE  \A g \in Flows \ {f} : flow'[g].at \notin AtWork
    <3>1. AloneAtWork
      BY <2>a, <2>s
    <3> QED  BY <2>a, <3>1 DEF AloneAtWork
  <2>1. CASE Unlock(f)
    BY <2>1, <1>g, <1>z, <1>q DEF Unlock, AtWork, InLoad, InAccept
  <2>2. CASE Unwrap(f)
    <3>1. CASE Goto(f, "refused") /\ UNCHANGED open
      <4>1. \A g \in Flows : Calm(flow[g], flow'[g])
        BY <3>1, <1>g DEF AtWork, InLoad, InAccept
      <4> QED  BY <2>2, <3>1, <4>1, <1>q DEF Unwrap
    <3>2. CASE Unlocked /\ Goto(f, "opened")
      <4>1. \A g \in Flows : Calm(flow[g], flow'[g])
        BY <3>2, <1>g DEF AtWork, InLoad, InAccept
      <4> QED  BY <2>2, <3>2, <4>1, <1>q DEF Unwrap
    <3> QED  BY <2>2, <3>1, <3>2 DEF Unwrap
  <2>17. CASE Opened(f)
    <3>1. \A g \in Flows : Calm(flow[g], flow'[g])
      BY <2>17, <1>n, <1>z DEF Opened, AtWork, InLoad, InAccept
    <3> QED  BY <2>17, <3>1, <1>q DEF Opened
  <2>18. CASE Refused(f)
    BY <2>18, <1>z, <1>q DEF Refused
  <2>19. CASE Locked(f)
    <3>1. \A g \in Flows : Calm(flow[g], flow'[g])
      BY <2>19, <1>n DEF Locked, AtWork, InLoad, InAccept
    <3> QED  BY <2>19, <3>1, <1>q DEF Locked
  <2>3. CASE Protect(f)
    <3>1. \A g \in Flows : Calm(flow[g], flow'[g])
      <4>1. CASE Stop(f)
        BY <4>1, <1>z
      <4>2. CASE flow' = [flow EXCEPT ![f].at = "wrap", ![f].pairing = arrived]
        BY <4>2, <2>0 DEF Calm, VaultTypes, Chains, AtWork, InLoad, InAccept
      <4> QED  BY <2>3, <4>1, <4>2 DEF Protect
    <3> QED  BY <2>3, <3>1, <1>q DEF Protect
  <2>4. CASE Wrap(f)
    <3>1. \A g \in Flows : Calm(flow[g], flow'[g])
      BY <2>4, <2>0 DEF Wrap, Calm, VaultTypes, Chains, AtWork, InLoad, InAccept
    <3> QED  BY <2>4, <3>1, <1>q DEF Wrap
  <2>5. CASE Paired(f)
    <3>1. \A g \in Flows : Calm(flow[g], flow'[g])
      BY <2>5, <1>g DEF Paired, AtWork, InLoad, InAccept
    <3> QED  BY <2>5, <3>1, <1>q DEF Paired
  <2>6. CASE Lock(f)
    <3>1. \A g \in Flows : Calm(flow[g], flow'[g])
      BY <2>6, <1>g DEF Lock, AtWork, InLoad, InAccept
    <3> QED  BY <2>6, <3>1, <1>q DEF Lock
  <2>7. CASE Get(f)
    <3>1. CASE Goto(f, "render") /\ UNCHANGED twice
      BY <2>7, <3>1, <1>g, <1>q DEF Get, AtWork, InLoad, InAccept
    <3>2. CASE flow' = [flow EXCEPT ![f].at = "read", ![f].copy = open] /\ twice' = (twice \/ Beside(f))
      <4>0. ~twice /\ ~Beside(f)
        BY <3>2
      <4>1. \A g \in Flows \ {f} : flow'[g].at \notin AtWork
        <5>1. \A g \in Flows \ {f} : flow'[g] = flow[g]
          BY <3>2 DEF VaultTypes
        <5> QED  BY <4>0, <5>1 DEF Beside, AtWork
      <4>2. SeenAgreed' /\ OpenAgreed'
        BY <2>7, <4>0, <2>s DEF Get, SeenAgreed, OpenAgreed
      <4>3. Agrees(f)'
        BY <2>0, <3>2 DEF Agrees, InAccept, VaultTypes, Chains
      <4> QED  BY <4>1, <4>2, <4>3, AloneKeeps
    <3> QED  BY <2>7, <3>1, <3>2 DEF Get
  <2>8. CASE Read(f)
    <3>0. ~twice /\ flow[f].at \in AtWork
      BY <2>8 DEF Read, AtWork, InLoad
    <3>1. CASE flow' = [flow EXCEPT ![f] = [Idle EXCEPT !.at = "render"]]
      BY <2>8, <3>0, <3>1, <1>i, <1>q DEF Read, AtWork, InLoad, InAccept
    <3>2. CASE flow' = [flow EXCEPT ![f].at = "seen", ![f].sites = site]
      <4>1. \A g \in Flows \ {f} : flow'[g].at \notin AtWork
        BY <3>0, <3>2, <2>a
      <4>2. SeenAgreed' /\ OpenAgreed'
        BY <2>8, <3>0, <2>s DEF Read, SeenAgreed, OpenAgreed
      <4>3. Agrees(f)'
        BY <2>0, <3>2 DEF Agrees, InAccept, VaultTypes, Chains
      <4> QED  BY <4>1, <4>2, <4>3, AloneKeeps
    <3> QED  BY <2>8, <3>1, <3>2 DEF Read
  <2>9. CASE Seen(f)
    <3>0. ~twice /\ flow[f].at \in AtWork
      BY <2>9 DEF Seen, AtWork, InLoad
    <3>1. \A g \in Flows \ {f} : flow'[g].at \notin AtWork
      BY <2>9, <3>0, <2>a DEF Seen
    <3>2. SeenAgreed' /\ OpenAgreed'
      BY <2>9, <3>0, <2>s DEF Seen, SeenAgreed, OpenAgreed
    <3>3. Agrees(f)'
      BY <2>0, <2>9 DEF Seen, Agrees, InAccept, VaultTypes, Chains
    <3> QED  BY <3>1, <3>2, <3>3, AloneKeeps
  <2>10. CASE Remember(f)
    <3> DEFINE settled == Settled(flow[f].sites, flow[f].prior)
    <3>0. ~twice /\ flow[f].at \in AtWork /\ flow[f].at = "remember" /\ flow[f].prior = seen
      BY <2>10, <2>s DEF Remember, AtWork, InLoad, Agrees
    <3>1. \A g \in Flows \ {f} : flow'[g].at \notin AtWork
      BY <2>10, <3>0, <2>a DEF Remember, Goto
    <3>2. seen' = Over(seen, settled)
          /\ \A s \in Secrets : consent'[s] = consent[s] \cup IF seen[s] = NoHost THEN {settled[s]} ELSE {}
      BY <2>10, <3>0 DEF Remember
    <3>3. ASSUME NEW s \in Secrets, settled[s] # NoHost PROVE settled[s] \in consent'[s]
      <4>1. CASE seen[s] = NoHost
        BY <3>2, <4>1
      <4>2. CASE seen[s] # NoHost
        <5>1. settled[s] = seen[s]
          BY <3>0, <3>3, <4>2 DEF Settled, Moved
        <5> QED  BY <3>0, <3>2, <4>2, <5>1, <2>s DEF SeenAgreed
      <4> QED  BY <4>1, <4>2
    <3>4. SeenAgreed'
      <4> SUFFICES ASSUME NEW s \in Secrets, seen'[s] # NoHost PROVE seen'[s] \in consent'[s]
        BY DEF SeenAgreed
      <4>1. seen'[s] = IF settled[s] = NoHost THEN seen[s] ELSE settled[s]
        BY <3>2 DEF Over
      <4> QED  BY <3>0, <3>2, <3>3, <4>1, <2>s DEF SeenAgreed
    <3>5. OpenAgreed'
      <4> SUFFICES ASSUME NEW h \in Hosts, open.accounts[h] # NoSecret
                   PROVE  h \in consent'[open.accounts[h]]
        BY <2>10 DEF Remember, OpenAgreed
      <4>1. open.accounts[h] \in Secrets
        BY DEF VaultTypes, OpenVaults
      <4> QED  BY <3>0, <3>2, <4>1, <2>s DEF OpenAgreed
    <3>6. Agrees(f)'
      <4>1. flow'[f].at = "write" /\ flow'[f].sites = flow[f].sites /\ flow'[f].prior = flow[f].prior
        BY <2>0, <2>10 DEF Remember, Goto, VaultTypes, Chains
      <4> QED  BY <3>3, <4>1 DEF Agrees, InAccept
    <3> QED  BY <3>1, <3>4, <3>5, <3>6, AloneKeeps
  <2>11. CASE Write(f)
    <3>0. ~twice /\ flow[f].at \in AtWork /\ flow[f].at = "write" /\ Agrees(f)
      BY <2>11, <2>s DEF Write, AtWork, InLoad
    <3>1. \A g \in Flows \ {f} : flow'[g].at \notin AtWork
      BY <2>11, <3>0, <2>a DEF Write
    <3>2. SeenAgreed'
      BY <2>11, <3>0, <2>s DEF Write, SeenAgreed
    <3>3. open'.accounts = Kept(flow[f].sites, flow[f].prior)
      BY <2>0, <2>11 DEF Write, Chains, OpenVaults
    <3>4. OpenAgreed'
      <4> SUFFICES ASSUME NEW h \in Hosts, open'.accounts[h] # NoSecret
                   PROVE  h \in consent[open'.accounts[h]]
        BY <2>11 DEF Write, OpenAgreed
      <4>1. /\ open'.accounts[h] \in Secrets
            /\ Settled(flow[f].sites, flow[f].prior)[open'.accounts[h]] = h
        BY <2>0, <3>3, KeptSettled DEF Chains
      <4>2. h # NoHost
        BY VaultAssumptions
      <4> QED  BY <3>0, <4>1, <4>2 DEF Agrees
    <3>5. Agrees(f)'
      BY <2>0, <2>11 DEF Write, Agrees, InAccept, VaultTypes, Chains, Idle
    <3> QED  BY <3>1, <3>2, <3>4, <3>5, AloneKeeps
  <2>12. CASE Accept(f)
    <3>0. ~twice /\ flow[f].at \in AtWork /\ flow[f].at \in InAccept /\ Agrees(f)
      BY <2>12, <2>s DEF Accept, AtWork, InAccept
    <3>1. \A g \in Flows \ {f} : flow'[g].at \notin AtWork
      BY <2>12, <3>0, <2>a DEF Accept
    <3>2. SeenAgreed' /\ OpenAgreed'
      BY <2>12, <3>0, <2>s DEF Accept, SeenAgreed, OpenAgreed
    <3>3. Agrees(f)'
      BY <2>0, <2>12, <3>0 DEF Accept, Agrees, VaultTypes, Chains
    <3> QED  BY <3>1, <3>2, <3>3, AloneKeeps
  <2>13. CASE Accepting(f)
    <3>0. ~twice /\ flow[f].at \in AtWork /\ flow[f].prior = seen /\ moved = rendered
      BY <2>13, <2>s DEF Accepting, AtWork, InAccept, Agrees
    <3>1. \A g \in Flows \ {f} : flow'[g].at \notin AtWork
      BY <2>13, <3>0, <2>a DEF Accepting
    <3>2. \A s \in Secrets : /\ consent'[s] = consent[s] \cup ({moved[s]} \ {NoHost})
                             /\ seen'[s] = IF moved[s] = NoHost THEN seen[s] ELSE moved[s]
      BY <2>13, <3>0 DEF Accepting, Over
    <3>3. SeenAgreed'
      BY <3>0, <3>2, <2>s DEF SeenAgreed
    <3>4. OpenAgreed'
      <4> SUFFICES ASSUME NEW h \in Hosts, open.accounts[h] # NoSecret
                   PROVE  h \in consent'[open.accounts[h]]
        BY <2>13 DEF Accepting, OpenAgreed
      <4>1. open.accounts[h] \in Secrets
        BY DEF VaultTypes, OpenVaults
      <4> QED  BY <3>0, <3>2, <4>1, <2>s DEF OpenAgreed
    <3>5. Agrees(f)'
      BY <2>0, <2>13 DEF Accepting, Agrees, InAccept, VaultTypes, Chains, Idle
    <3> QED  BY <3>1, <3>3, <3>4, <3>5, AloneKeeps
  <2>14. CASE Reopen(f)
    <3>1. \A g \in Flows : Calm(flow[g], flow'[g])
      <4>1. CASE Goto(f, "get")
        BY <4>1, <1>g DEF AtWork, InLoad, InAccept
      <4>2. CASE flow' = [flow EXCEPT ![f].at = "reopening", ![f].copy = open]
        BY <4>2, <2>0 DEF Calm, VaultTypes, Chains, AtWork, InLoad, InAccept
      <4> QED  BY <2>14, <4>1, <4>2 DEF Reopen
    <3> QED  BY <2>14, <3>1, <1>q DEF Reopen
  <2>15. CASE Reopening(f)
    <3>1. \A g \in Flows : Calm(flow[g], flow'[g])
      BY <2>15, <1>i DEF Reopening, AtWork, InLoad, InAccept
    <3>2. open'.accounts \in {open.accounts, NoAccounts}
      BY <2>0, <2>15 DEF Reopening, Chains, OpenVaults
    <3> QED  BY <2>15, <3>1, <3>2, CalmKeeps DEF Reopening
  <2>16. CASE Render(f)
    <3>1. \A g \in Flows : Calm(flow[g], flow'[g])
      BY <2>16, <1>g, <1>z DEF Render, AtWork, InLoad, InAccept
    <3>2. moved = rendered => moved' = rendered'
      BY <2>16 DEF Render
    <3> QED  BY <2>16, <3>1, <3>2, CalmKeeps DEF Render
  <2> QED  BY <1>12, <2>1, <2>2, <2>3, <2>4, <2>5, <2>6, <2>7, <2>8, <2>9, <2>10, <2>11, <2>12,
              <2>13, <2>14, <2>15, <2>16, <2>17, <2>18, <2>19 DEF VaultStep
<1> QED  BY <1>1, <1>2, <1>3, <1>4, <1>5, <1>6, <1>7, <1>8, <1>9, <1>10, <1>11, <1>12, <1>13 DEF VaultNext, VaultCalls

----------------------------------------------------------------------------
\* The captures.  A seed is in the map, was handed out, or is being claimed, unless a
\* call wrote over it.
CaptureTypes ==
    /\ captures \subseteq Captured /\ given \in [Captured -> Nat]
    /\ call \in [Calls -> [kind : {"none", "hand", "claim"}, id : Captured \cup {0}, copy : SUBSET Captured]]

\* An id that is being handed to the dashboard is nobody else's yet.
Fresh ==
    /\ \A c \in Calls : call[c].kind # "none" => call[c].id \in Captured
    /\ \A c \in Calls : call[c].kind = "hand" => call[c].id \notin handed
    /\ \A c \in Calls : call[c].kind = "claim" => call[c].id \in handed
    /\ \A i \in Captured \ handed : given[i] = 0

Conserved(i) ==
    /\ i \in captures => given[i] = 0
    /\ given[i] \in {0, 1}
    /\ i \notin late => i \in captures \/ given[i] = 1

CaptureInv ==
    /\ CaptureTypes /\ Fresh /\ handed \subseteq Captured
    /\ \A c, d \in Calls : c # d /\ call[c].kind = "hand" /\ call[d].kind = "hand" => call[c].id # call[d].id
    /\ \A i \in handed \ spoiled : Conserved(i)

LEMMA CapturesKept ==
  ASSUME CaptureInv, CapturesNext \/ CapturesGone
  PROVE  CaptureInv'
<1> USE DEF CaptureInv
<1>1. ASSUME NEW c \in Calls, NEW i \in Captured, Hand(c, i) PROVE CaptureInv'
  <2>1. call' = [call EXCEPT ![c] = [kind |-> "hand", id |-> i, copy |-> captures]]
        /\ UNCHANGED <<captures, handed, late, claims, given, spoiled>>
        /\ i \notin handed /\ \A d \in Calls : call[d].id # i
    BY <1>1 DEF Hand, Made
  <2>2. CaptureTypes'
    BY <2>1 DEF CaptureTypes
  <2>3. Fresh'
    BY <2>1 DEF Fresh, CaptureTypes
  <2>4. (\A d, e \in Calls : d # e /\ call[d].kind = "hand" /\ call[e].kind = "hand" => call[d].id # call[e].id)'
    BY <2>1 DEF CaptureTypes
  <2> QED  BY <2>1, <2>2, <2>3, <2>4 DEF Conserved
<1>2. ASSUME NEW c \in Calls, NEW i \in Captured, Claim(c, i) PROVE CaptureInv'
  <2>1. call' = [call EXCEPT ![c] = [kind |-> "claim", id |-> i, copy |-> captures]]
        /\ UNCHANGED <<captures, handed, late, given, spoiled>> /\ i \in handed
    BY <1>2 DEF Claim
  <2>2. CaptureTypes' /\ Fresh'
    BY <2>1 DEF CaptureTypes, Fresh
  <2>3. (\A d, e \in Calls : d # e /\ call[d].kind = "hand" /\ call[e].kind = "hand" => call[d].id # call[e].id)'
    BY <2>1 DEF CaptureTypes
  <2> QED  BY <2>1, <2>2, <2>3 DEF Conserved
<1>r. ASSUME NEW c \in Calls, call' = [call EXCEPT ![c] = NoCall]
      PROVE  \A d \in Calls : call'[d].kind # "none" => d # c /\ call'[d] = call[d]
  BY <1>r DEF CaptureTypes, NoCall
<1>t. ASSUME NEW c \in Calls, call' = [call EXCEPT ![c] = NoCall]
      PROVE  call' \in [Calls -> [kind : {"none", "hand", "claim"}, id : Captured \cup {0}, copy : SUBSET Captured]]
  BY <1>t DEF CaptureTypes, NoCall
<1>3. ASSUME NEW c \in Calls, Handed(c) PROVE CaptureInv'
  <2> DEFINE i == call[c].id
             copy == call[c].copy
  <2>1. /\ call[c].kind = "hand" /\ captures' = copy \cup {i} /\ handed' = handed \cup {i}
        /\ spoiled' = spoiled \cup Overwrites(copy) /\ call' = [call EXCEPT ![c] = NoCall]
        /\ UNCHANGED <<late, given>>
    BY <1>3 DEF Handed
  <2>r. \A d \in Calls : call'[d].kind # "none" => d # c /\ call'[d] = call[d]
    BY <2>1, <1>r
  <2>2. i \in Captured /\ i \notin handed /\ given[i] = 0 /\ copy \subseteq Captured
    BY <2>1 DEF Fresh, CaptureTypes
  <2>3. CaptureTypes'
    BY <2>1, <2>2, <1>t DEF CaptureTypes
  <2>4. Fresh'
    BY <2>1, <2>2, <2>r DEF Fresh
  <2>5. (\A d, e \in Calls : d # e /\ call[d].kind = "hand" /\ call[e].kind = "hand" => call[d].id # call[e].id)'
    BY <2>r
  <2>6. ASSUME NEW k \in handed' \ spoiled' PROVE Conserved(k)'
    <3>1. CASE k = i
      BY <2>1, <2>2, <3>1 DEF Conserved
    <3>2. CASE k # i
      <4>1. k \in handed \ spoiled /\ (k \in captures <=> k \in captures')
        BY <2>1, <3>2 DEF Overwrites
      <4> QED  BY <2>1, <4>1 DEF Conserved
    <3> QED  BY <3>1, <3>2
  <2> QED  BY <2>1, <2>2, <2>3, <2>4, <2>5, <2>6
<1>4. ASSUME NEW c \in Calls, Claimed(c) PROVE CaptureInv'
  <2> DEFINE i == call[c].id
             copy == call[c].copy
  <2>1. /\ call[c].kind = "claim" /\ captures' = (copy \ {i}) \ late
        /\ spoiled' = spoiled \cup Overwrites(copy) /\ call' = [call EXCEPT ![c] = NoCall]
        /\ given' = IF i \in copy \ late THEN [given EXCEPT ![i] = @ + 1] ELSE given
        /\ UNCHANGED <<handed, late>>
    BY <1>4 DEF Claimed
  <2>r. \A d \in Calls : call'[d].kind # "none" => d # c /\ call'[d] = call[d]
    BY <2>1, <1>r
  <2>2. i \in Captured /\ i \in handed /\ copy \subseteq Captured
    BY <2>1 DEF Fresh, CaptureTypes
  <2>g. /\ given' \in [Captured -> Nat] /\ \A k \in Captured \ {i} : given'[k] = given[k]
        /\ given'[i] = given[i] + IF i \in copy \ late THEN 1 ELSE 0
    BY <2>1, <2>2 DEF CaptureTypes
  <2>3. CaptureTypes'
    BY <2>1, <2>2, <2>g, <1>t DEF CaptureTypes
  <2>4. Fresh'
    BY <2>1, <2>2, <2>g, <2>r DEF Fresh
  <2>5. (\A d, e \in Calls : d # e /\ call[d].kind = "hand" /\ call[e].kind = "hand" => call[d].id # call[e].id)'
    BY <2>r
  <2>6. ASSUME NEW k \in handed' \ spoiled' PROVE Conserved(k)'
    <3>1. k \in handed \ spoiled /\ k \in Captured /\ (k \in captures <=> k \in copy) /\ Conserved(k)
      BY <2>1 DEF Overwrites
    <3>2. CASE k = i
      BY <2>1, <2>g, <3>1, <3>2 DEF Conserved
    <3>3. CASE k # i
      BY <2>1, <2>g, <3>1, <3>3 DEF Conserved
    <3> QED  BY <3>2, <3>3
  <2> QED  BY <2>1, <2>2, <2>3, <2>4, <2>5, <2>6
<1>5. ASSUME NEW i \in Captured, Expire(i) PROVE CaptureInv'
  BY <1>5 DEF Expire, CaptureTypes, Fresh, Conserved
<1>6. CASE CapturesGone
  <2>1. /\ \A c \in Calls : call'[c].kind = "none"
        /\ captures' = {} /\ spoiled' = spoiled \cup captures /\ UNCHANGED <<handed, late, given>>
    BY <1>6 DEF CapturesGone, NoCall
  <2>2. CaptureTypes' /\ Fresh'
    BY <1>6, <2>1 DEF CapturesGone, NoCall, CaptureTypes, Fresh
  <2> QED  BY <2>1, <2>2 DEF Conserved
<1> QED  BY <1>1, <1>2, <1>3, <1>4, <1>5, <1>6 DEF CapturesNext

LEMMA CapturesHeld == ASSUME CaptureInv PROVE CapturesConserved
<1> SUFFICES ASSUME NEW i \in handed \ spoiled
             PROVE  /\ given[i] + Cardinality({i} \cap captures) <= 1
                    /\ i \notin late => given[i] + Cardinality({i} \cap captures) = 1
  BY DEF CapturesConserved
<1>1. Conserved(i)
  BY DEF CaptureInv
<1>2. CASE i \in captures
  <2>1. Cardinality({i} \cap captures) = 1
    <3>1. {i} \cap captures = {i}
      BY <1>2
    <3> QED  BY <3>1, FS_Singleton
  <2> QED  BY <1>1, <1>2, <2>1 DEF Conserved
<1>3. CASE i \notin captures
  <2>1. Cardinality({i} \cap captures) = 0
    <3>1. {i} \cap captures = {}
      BY <1>3
    <3> QED  BY <3>1, FS_EmptySet
  <2> QED  BY <1>1, <1>3, <2>1 DEF Conserved
<1> QED  BY <1>2, <1>3

----------------------------------------------------------------------------
\* The extension.
ExtensionInv == VaultInv /\ CaptureInv

LEMMA VaultIdle ==
  ASSUME VaultInv, removing' \in BOOLEAN,
         UNCHANGED <<open, disk, worker, popup, flow, world, counts, endings, consent, twice>>
  PROVE  VaultInv'
<1> USE DEF VaultInv, disk, worker, popup, world, counts, endings
<1>1. VaultTypes'
  BY DEF VaultTypes
<1>2. LockInv'
  BY DEF LockInv, Tells, Carries
<1>3. ConsentInv'
  BY DEF ConsentInv
<1> QED  BY <1>1, <1>2, <1>3

LEMMA Holds == Spec => []ExtensionInv
<1>1. Init => ExtensionInv
  <2> SUFFICES ASSUME Init PROVE ExtensionInv
    OBVIOUS
  <2>1. CaptureInv
    BY DEF Init, CapturesInit, CaptureInv, CaptureTypes, Fresh, NoCall
  <2> QED  BY <2>1, InitVault DEF Init, ExtensionInv
<1>2. ExtensionInv /\ [Next]_vars => ExtensionInv'
  <2> SUFFICES ASSUME ExtensionInv, [Next]_vars PROVE ExtensionInv'
    OBVIOUS
  <2> USE DEF ExtensionInv
  <2>v. ASSUME VaultNext \/ BrowserEnds PROVE VaultInv'
    <3>1. VaultTypes'
      BY <2>v, VaultTyped DEF VaultInv
    <3> QED  BY <2>v, <3>1, LockKept, ConsentKept DEF VaultInv
  <2>c. ASSUME UNCHANGED captureVars PROVE CaptureInv'
    BY <2>c DEF captureVars, CaptureInv, CaptureTypes, Fresh, Conserved
  <2>b. removing \in BOOLEAN
    BY DEF VaultInv, VaultTypes
  <2>1. CASE VaultActs
    <3>1. VaultNext /\ UNCHANGED captureVars
      BY <2>1 DEF VaultActs, VaultNext
    <3> QED  BY <3>1, <2>v, <2>c
  <2>2. CASE ToolbarActs
    <3>1. removing' \in BOOLEAN
      BY <2>2, <2>b DEF ToolbarActs
    <3> QED  BY <2>2, <2>c, <3>1, VaultIdle DEF ToolbarActs, captureVars
  <2>3. CASE CapturesAct
    BY <2>3, <2>b, CapturesKept, VaultIdle DEF CapturesAct, vaultVars
  <2>4. CASE Restart
    BY <2>4, <2>v, CapturesKept DEF Restart
  <2>5. CASE UNCHANGED vars
    BY <2>5, <2>b, <2>c, VaultIdle DEF vars, vaultVars
  <2> QED  BY <2>1, <2>2, <2>3, <2>4, <2>5 DEF Next
<1> QED  BY <1>1, <1>2, PTL DEF Spec

\* An unlock is over IDLE_LOCK_MS after it, however many chains of calls wrote its
\* vault back, and with the worker and its timer gone (session, touch).
THEOREM VaultLocksOnTime == Spec => []LocksOnTime
<1>1. ExtensionInv => LocksOnTime
  <2> SUFFICES ASSUME VaultInv, Session # Closed PROVE Session.n > lapsed
    BY DEF ExtensionInv, LocksOnTime
  <2>1. Session = open /\ ~Expired(open) /\ open # Closed
    BY DEF Session
  <2>2. open.until = open.n /\ open.n # 0 /\ open.n \in Nat /\ lapsed \in Nat
    BY <2>1 DEF VaultInv, VaultTypes, OpenVaults, LockInv, Tells
  <2> QED  BY <2>1, <2>2 DEF Expired
<1> QED  BY <1>1, Holds, PTL

\* A vault that was locked or replaced comes back only by a chain of calls that held
\* a copy of it at the time (lock, unlock, loadAccounts).
THEOREM VaultStaysLocked == Spec => []OverUnlessLoose
<1>1. ExtensionInv => OverUnlessLoose
  BY DEF ExtensionInv, VaultInv, LockInv, Tells, OverUnlessLoose
<1> QED  BY <1>1, Holds, PTL

\* An account fills where its secret was first seen, or where the user said it may,
\* unless the vault was read twice at once (splitMoved, acceptMoved).
THEOREM FillsWithConsent == Spec => []MovedNeedsConsent
<1>1. ExtensionInv => MovedNeedsConsent
  BY DEF ExtensionInv, VaultInv, ConsentInv, MovedNeedsConsent
<1> QED  BY <1>1, Holds, PTL

\* A captured seed that no other call wrote over is handed out at most once, and is
\* in the map until it is, or until it expires (handCapture, claimCapture).
THEOREM SeedsConserved == Spec => []CapturesConserved
<1>1. ExtensionInv => CapturesConserved
  BY CapturesHeld DEF ExtensionInv
<1> QED  BY <1>1, Holds, PTL

----------------------------------------------------------------------------
\* The toolbar.  What its variables hold.
Pages == [host : Hosts \cup {NoHost}, field : BOOLEAN,
          said : {"nothing", "present", "absent"}, routed : BOOLEAN]
Events == [kind : Kinds, tab : Tabs \cup {0}, host : Hosts \cup {NoHost}, present : BOOLEAN]
Tasks == [kind : Kinds \cup {"none"},
          at : {"idle", "held", "query", "get", "set", "keys", "paint", "account", "mode"},
          tab : Tabs \cup {0}, host : Hosts \cup {NoHost}, present : BOOLEAN,
          copy : [Tabs -> Hosts \cup {NoHost}], todo : SUBSET Tabs, hit : BOOLEAN]
Clicks == [at : {"idle", "fields", "account", "send"}, tab : Tabs \cup {0},
           host : Hosts \cup {NoHost}, late : BOOLEAN]

\* Which handler an event starts, and what it knows at each await.
EventFits(e) == /\ e.kind # "repaint" => e.tab \in Tabs
                /\ e.kind \in {"updated", "removed", "seen"} => e.host = NoHost
TaskFits(r) ==
    /\ r.at = "held" => r.kind = "announce"
    /\ r.at = "query" => r.kind = "seen" /\ r.host = NoHost
    /\ r.at \in {"get", "set"} => r.kind \in {"announce", "seen", "updated", "removed"}
    /\ r.at \in {"get", "set"} /\ r.kind \in {"updated", "removed"} => r.host = NoHost
    /\ r.at \notin {"idle", "keys"} => r.tab \in Tabs
    /\ r.at = "account" => r.host # NoHost

ToolTypes ==
    /\ page \in [Tabs -> Pages] /\ fields \in [Tabs -> Hosts \cup {NoHost}]
    /\ mode \in [Tabs -> {"menu", "fill"}] /\ inbox \in Seq(Events)
    /\ task \in [Handlers -> Tasks] /\ click \in Clicks
    /\ mixed \in BOOLEAN /\ astray \in BOOLEAN
    /\ \A i \in DOMAIN inbox : EventFits(inbox[i])
    /\ \A s \in Handlers : TaskFits(task[s])
    /\ \A s \in Handlers \ Slots : task[s].at \notin Updating
    /\ click.at # "idle" => click.tab \in Tabs

\* A call of the popup waits for its paintAll.
Waits == \A f \in Flows : task[f].at # "idle" => flow[f].at \in Painting

\* Unless handlers crossed, one of them at most is changing fields, over what they are.
Works(s, t) == task[s].at \in Updating /\ task[s].tab = t
OneWriter ==
    /\ \A r, s \in Slots : task[r].at \in Updating /\ task[s].at \in Updating => r = s
    /\ \A s \in Slots : task[s].at = "set" => task[s].copy = fields

\* A host an event, a handler or a field holds for a tab is the page's, until a
\* navigation of the tab is handled.
Coming(t, i) == \E j \in DOMAIN inbox : j > i /\ inbox[j].tab = t /\ inbox[j].kind = "updated"
Home(t, h) == h \in {NoHost, page[t].host}
Posted(t, i) == inbox[i].tab = t /\ inbox[i].kind = "announce"

TabHome(t) ==
    /\ \A i \in DOMAIN inbox : Posted(t, i) => Home(t, inbox[i].host) \/ Coming(t, i)
    /\ \A s \in Slots : Works(s, t) => Home(t, task[s].host) \/ Coming(t, 0)
    /\ Home(t, fields[t]) \/ Leaving(t)

\* Without a navigation under way, all of them are.
Truthful(t) ==
    /\ \A i \in DOMAIN inbox : Posted(t, i) => Home(t, inbox[i].host)
    /\ \A s \in Slots : Works(s, t) => Home(t, task[s].host)
    /\ Home(t, fields[t])

ClickHome ==
    click.at # "idle" /\ ~click.late =>
        /\ page[click.tab].host # NoHost
        /\ click.at = "fields" => Truthful(click.tab)
        /\ click.at \in {"account", "send"} => click.host = page[click.tab].host

HomeInv ==
    /\ ~astray
    /\ ~mixed => /\ OneWriter /\ ClickHome
                 /\ \A t \in Tabs : page[t].host # NoHost => TabHome(t)

\* What the script of a page last said of its field, and what an event or a handler
\* makes of the field.
SaidOf(t) == IF page[t].said = "present" THEN page[t].host ELSE NoHost
About(e, t) == e.tab = t /\ e.kind # "repaint"
Effect(e, t) ==
    IF e.kind = "announce" /\ e.present THEN e.host
    ELSE IF e.kind = "seen" /\ e.present THEN page[t].host ELSE NoHost
Closes(e, t) == page[t].host = NoHost => e.kind = "removed"
TaskEffect(r, t) == IF r.at \in {"get", "set"} THEN r.host ELSE Effect(r, t)

\* The last thing that happens to a field of a tab makes it what its page said.
Quiescent(t) == \A i \in DOMAIN inbox : ~About(inbox[i], t)
TabSaid(t) ==
    /\ \A i \in DOMAIN inbox :
          About(inbox[i], t) /\ (\A j \in DOMAIN inbox : j > i => ~About(inbox[j], t))
              => Effect(inbox[i], t) = SaidOf(t) /\ Closes(inbox[i], t)
    /\ Quiescent(t) => \A s \in Slots :
          Works(s, t) => TaskEffect(task[s], t) = SaidOf(t) /\ Closes(task[s], t)
    /\ Quiescent(t) /\ (\A s \in Slots : ~Works(s, t)) => fields[t] = SaidOf(t)

SaidInv == ~mixed => \A t \in Tabs : ~page[t].routed => TabSaid(t)

\* A button is right, or a paint that will make it right is on its way: a handler that is to
\* come to its tab, or that read it as it is.  A handler whose tab no other has painted since
\* it read it knows what it is, or such a paint is still to come.
Matches(h) == h # NoHost /\ open.accounts[h] # NoSecret
Right(t) == (mode[t] = "fill") <=> Matches(fields[t])
Loosely(t) == Expired(open) /\ fields[t] # NoHost
Repainting == \E i \in DOMAIN inbox : inbox[i].kind = "repaint"
AtButton == {"paint", "account", "mode"}
Will(r, t) ==
    \/ r.at = "keys" /\ fields[t] # NoHost
    \/ r.at \in AtButton /\ t \in r.todo
    \/ r.at = "paint" /\ r.tab = t
    \/ r.at = "account" /\ r.tab = t /\ r.host = fields[t]
    \/ r.at = "mode" /\ r.tab = t /\ (r.hit <=> Matches(fields[t]))
Sure(t) ==
    \/ Loosely(t) \/ t \in skipped
    \/ fields[t] # NoHost /\ Repainting
    \/ \E r \in Handlers : Will(task[r], t)
Knows(r, t) ==
    r.tab = t => /\ r.at = "account" => r.host = fields[t] \/ Sure(t)
                 /\ r.at = "mode" => (r.hit <=> Matches(fields[t])) \/ Sure(t)
TabPainted(t) ==
    /\ Right(t) \/ t \in overtaken \/ Sure(t)
    /\ \A s \in Handlers \ behind : Knows(task[s], t)
Shut == /\ \A i \in DOMAIN inbox : inbox[i].kind = "removed" => page[inbox[i].tab].host = NoHost
        /\ \A s \in Slots :
              task[s].at \in Updating /\ task[s].kind = "removed" => page[task[s].tab].host = NoHost
PaintInv ==
    /\ Shut
    /\ ~mixed => \A t \in play.tabs : page[t].host # NoHost => TabPainted(t)

----------------------------------------------------------------------------
LEMMA Appended ==
  ASSUME inbox \in Seq(Events), NEW e \in Events, inbox' = Append(inbox, e)
  PROVE  /\ inbox' \in Seq(Events) /\ DOMAIN inbox = 1..Len(inbox) /\ Len(inbox) \in Nat
         /\ DOMAIN inbox' = DOMAIN inbox \cup {Len(inbox) + 1}
         /\ inbox'[Len(inbox) + 1] = e
         /\ \A i \in DOMAIN inbox : inbox'[i] = inbox[i] /\ i < Len(inbox) + 1 /\ i \in Nat
<1>1. /\ inbox' \in Seq(Events) /\ Len(inbox') = Len(inbox) + 1 /\ inbox'[Len(inbox) + 1] = e
      /\ \A i \in 1..Len(inbox) : inbox'[i] = inbox[i]
  BY AppendProperties
<1>2. DOMAIN inbox = 1..Len(inbox) /\ DOMAIN inbox' = 1..Len(inbox') /\ Len(inbox) \in Nat
  BY <1>1
<1> QED  BY <1>1, <1>2

LEMMA Taken ==
  ASSUME inbox \in Seq(Events), inbox # <<>>, inbox' = Tail(inbox)
  PROVE  /\ inbox' \in Seq(Events) /\ Head(inbox) = inbox[1] /\ 1 \in DOMAIN inbox
         /\ \A i \in DOMAIN inbox' : i + 1 \in DOMAIN inbox /\ i \in Nat /\ i > 0 /\ inbox'[i] = inbox[i + 1]
         /\ \A j \in DOMAIN inbox : j \in Nat /\ (j # 1 => j - 1 \in DOMAIN inbox')
<1>1. /\ Tail(inbox) \in Seq(Events) /\ Len(Tail(inbox)) = Len(inbox) - 1
      /\ \A i \in 1..Len(Tail(inbox)) : Tail(inbox)[i] = inbox[i + 1]
  BY HeadTailProperties
<1>2. DOMAIN inbox = 1..Len(inbox) /\ DOMAIN inbox' = 1..Len(inbox') /\ Len(inbox) \in Nat /\ Len(inbox) # 0
  BY <1>1
<1> QED  BY <1>1, <1>2

LEMMA IdleTask == NoTask \in Tasks /\ TaskFits(NoTask) /\ NoTask.at = "idle"
  BY DEF NoTask, Tasks, TaskFits

LEMMA KeysTask == PaintAll \in Tasks /\ TaskFits(PaintAll) /\ PaintAll.at = "keys"
  BY IdleTask DEF PaintAll, NoTask, Tasks, TaskFits, Kinds

LEMMA SlotsHandle == Slots \subseteq Handlers
  BY DEF Handlers

LEMMA IdleClick == NoClick \in Clicks /\ NoClick.at = "idle"
  BY DEF NoClick, Clicks

LEMMA PageTyped == ASSUME NEW h \in Hosts \cup {NoHost} PROVE Blank(h) \in Pages
  BY DEF Blank, Pages

\* One task goes on.
LEMMA PutTask ==
  ASSUME ToolTypes, NEW s \in Handlers, NEW r \in Tasks, TaskFits(r), task' = [task EXCEPT ![s] = r],
         s \in Slots \/ r.at \notin Updating,
         fields' \in [Tabs -> Hosts \cup {NoHost}], mode' \in [Tabs -> {"menu", "fill"}],
         mixed' \in BOOLEAN, Quiet
  PROVE  ToolTypes'
<1>1. /\ task' \in [Handlers -> Tasks] /\ task'[s] = r /\ \A u \in Handlers \ {s} : task'[u] = task[u]
  BY DEF ToolTypes
<1> QED  BY <1>1 DEF ToolTypes, Quiet, pages

\* One page changes, and one event may be posted.
LEMMA PostTyped ==
  ASSUME ToolTypes, page' \in [Tabs -> Pages], click' \in Clicks, click'.at = click.at, click'.tab = click.tab,
         UNCHANGED <<fields, mode, task, mixed, astray>>,
         \/ UNCHANGED inbox
         \/ \E e \in Events : EventFits(e) /\ inbox' = Append(inbox, e)
  PROVE  ToolTypes'
<1>1. inbox' \in Seq(Events) /\ \A i \in DOMAIN inbox' : EventFits(inbox'[i])
  <2>1. CASE UNCHANGED inbox
    BY <2>1 DEF ToolTypes
  <2>2. ASSUME NEW e \in Events, EventFits(e), inbox' = Append(inbox, e) PROVE <1>1!1 /\ <1>1!2
    BY <2>2, Appended DEF ToolTypes
  <2> QED  BY <2>1, <2>2
<1> QED  BY <1>1 DEF ToolTypes

\* The steps of a page, of a handler that has started, and of a click.
PageDoes(t) ==
    Route(t) \/ CloseTab(t) \/ Mount(t) \/ Announce(t) \/ Describe(t) \/ \E h \in Hosts : Navigate(t, h)
Handles(s) ==
    \/ Held(s) \/ Query(s) \/ GetFields(s) \/ SetFields(s) \/ Keys(s)
    \/ PaintField(s) \/ PaintAccount(s) \/ PaintMode(s) \/ PaintFails(s)
Clicking == (\E t \in Tabs : Click(t)) \/ ClickField \/ ClickAccount \/ Send

\* What a page does: it changes, and posts an event or none.
Posts(e) == inbox' = Append(inbox, e)
PageActs(t, p) ==
    /\ page' = [page EXCEPT ![t] = p] /\ p \in Pages /\ page[t].host # NoHost
    /\ UNCHANGED <<fields, mode, task, mixed, astray, paints>>
    /\ click' = click \/ (click.tab = t /\ click' = [click EXCEPT !.late = TRUE])

Leaves(t, p, h) ==
    /\ p = Blank(h) /\ (h = NoHost => Posts(Event("removed", t, NoHost, FALSE)))
    /\ (h # NoHost => Posts(Event("updated", t, NoHost, FALSE)))
    /\ click.tab = t => click'.late
Stays(t, p, present) ==
    /\ click' = click
    /\ \/ p = [page[t] EXCEPT !.routed = TRUE] /\ Posts(Event("updated", t, NoHost, FALSE))
       \/ p.host = page[t].host /\ p.said = page[t].said /\ p.routed = page[t].routed /\ UNCHANGED inbox
       \/ /\ p = [page[t] EXCEPT !.said = IF present THEN "present" ELSE "absent"]
          /\ Posts(Event("announce", t, page[t].host, present))
       \/ /\ p = [page[t] EXCEPT !.routed = FALSE]
          /\ (present <=> page[t].said = "present") /\ Posts(Event("seen", t, NoHost, present))
PageMoves(t, p, h, present) == Leaves(t, p, h) \/ Stays(t, p, present)

LEMMA RepaintIs ==
  LET e == Event("repaint", 0, NoHost, FALSE) IN e \in Events /\ EventFits(e) /\ e.kind = "repaint"
  BY DEF Event, Events, EventFits, Kinds

LEMMA AnnounceIs ==
  ASSUME NEW t \in Tabs, NEW h \in Hosts \cup {NoHost}, NEW b \in BOOLEAN
  PROVE  LET e == Event("announce", t, h, b)
         IN e \in Events /\ EventFits(e) /\ e.kind = "announce" /\ e.tab = t /\ e.host = h /\ e.present = b
  BY DEF Event, Events, EventFits, Kinds

LEMMA SeenIs ==
  ASSUME NEW t \in Tabs, NEW b \in BOOLEAN
  PROVE  LET e == Event("seen", t, NoHost, b)
         IN e \in Events /\ EventFits(e) /\ e.kind = "seen" /\ e.tab = t /\ e.present = b
  BY DEF Event, Events, EventFits, Kinds

LEMMA MoveIs ==
  ASSUME NEW t \in Tabs
  PROVE  /\ LET e == Event("updated", t, NoHost, FALSE)
            IN e \in Events /\ EventFits(e) /\ e.kind = "updated" /\ e.tab = t
         /\ LET e == Event("removed", t, NoHost, FALSE)
            IN e \in Events /\ EventFits(e) /\ e.kind = "removed" /\ e.tab = t
  BY DEF Event, Events, EventFits, Kinds

LEMMA PageStep ==
  ASSUME ToolTypes, NEW t \in Tabs, PageDoes(t)
      PROVE  \E p \in Pages : \E h \in Hosts \cup {NoHost} : \E present \in BOOLEAN :
            PageActs(t, p) /\ PageMoves(t, p, h, present)
<1>0. page[t] \in Pages /\ page[t].host \in Hosts \cup {NoHost} /\ page[t].field \in BOOLEAN
  BY DEF ToolTypes, Pages
<1>1. click \in Clicks /\ click.late \in BOOLEAN
  BY DEF ToolTypes, Clicks
<1>2. CASE Route(t)
  BY <1>0, <1>2 DEF Route, PageEvent, Post, Posts, PageActs, PageMoves, Leaves, Stays, buttons,
       marks, Pages
<1>3. CASE CloseTab(t)
  BY <1>0, <1>1, <1>3, PageTyped DEF CloseTab, PageEvent, Post, Posts, PageActs, PageMoves, Leaves,
       Stays, buttons, marks, Clicks
<1>4. CASE Mount(t)
  <2>1. /\ page' = [page EXCEPT ![t] = [page[t] EXCEPT !.field = ~page[t].field]]
        /\ page[t].host # NoHost /\ UNCHANGED <<fields, mode, inbox, task, mixed, astray, click, paints>>
    BY <1>4 DEF Mount, PageEvent, buttons, marks, ToolTypes
  <2> DEFINE p == [page[t] EXCEPT !.field = ~page[t].field]
  <2>2. p \in Pages /\ p.host = page[t].host /\ p.said = page[t].said /\ p.routed = page[t].routed
    BY <1>0 DEF Pages
  <2> HIDE DEF p
  <2>3. PageActs(t, p)
    BY <2>1, <2>2 DEF PageActs, p
  <2> QED  BY <1>0, <2>1, <2>2, <2>3 DEF PageMoves, Stays
<1>5. CASE Announce(t)
  <2>1. /\ page' = [page EXCEPT ![t] = [page[t] EXCEPT !.said = IF page[t].field THEN "present" ELSE "absent"]]
        /\ inbox' = Append(inbox, Event("announce", t, page[t].host, page[t].field))
        /\ page[t].host # NoHost /\ UNCHANGED <<fields, mode, task, mixed, astray, click, paints>>
    BY <1>5 DEF Announce, Post, buttons, marks, ToolTypes
  <2>2. [page[t] EXCEPT !.said = IF page[t].field THEN "present" ELSE "absent"] \in Pages
    BY <1>0 DEF Pages
  <2> QED  BY <1>0, <2>1, <2>2 DEF Posts, PageActs, PageMoves, Stays
<1>6. CASE Describe(t)
  <2>1. /\ page' = [page EXCEPT ![t] = [page[t] EXCEPT !.routed = FALSE]]
        /\ inbox' = Append(inbox, Event("seen", t, NoHost, page[t].field))
        /\ page[t].host # NoHost /\ UNCHANGED <<fields, mode, task, mixed, astray, click, paints>>
        /\ page[t].said = IF page[t].field THEN "present" ELSE "absent"
    BY <1>6 DEF Describe, PageEvent, Announced, Post, buttons, marks, ToolTypes
  <2>2. [page[t] EXCEPT !.routed = FALSE] \in Pages
    BY <1>0 DEF Pages
  <2> QED  BY <1>0, <2>1, <2>2 DEF Posts, PageActs, PageMoves, Stays
<1>7. ASSUME NEW h \in Hosts, Navigate(t, h)
      PROVE  \E p \in Pages : PageActs(t, p) /\ PageMoves(t, p, h, FALSE)
  BY <1>0, <1>1, <1>7, PageTyped, VaultAssumptions DEF Navigate, PageEvent, Post, Posts, PageActs,
       PageMoves, Leaves, Stays, buttons, marks, Clicks
<1> QED  BY <1>2, <1>3, <1>4, <1>5, <1>6, <1>7 DEF PageDoes, PageMoves

\* What a handler does at each of its awaits, but the first.
Painted(r, tabs) == \/ tabs = {} /\ r = NoTask
                    \/ \E t \in tabs : r.at = "paint" /\ r.tab = t /\ r.todo = tabs \ {t}
Same(r, q) == r.kind = q.kind /\ r.tab = q.tab /\ r.present = q.present
Asks(q, r) ==
    /\ UNCHANGED <<fields, mode, mixed, paints>>
    /\ \/ /\ q.at = "held" /\ Same(r, q)
          /\ \/ r.at = "get" /\ r.host = (IF q.present THEN q.host ELSE NoHost)
             \/ r.at = "paint" /\ ~q.present /\ fields[q.tab] = NoHost
       \/ q.at = "query" /\ page[q.tab].host = NoHost /\ r = NoTask
       \/ /\ q.at = "query" /\ page[q.tab].host # NoHost /\ Same(r, q)
          /\ r.at = "get" /\ r.host = (IF q.present THEN page[q.tab].host ELSE NoHost)
       \/ q.at = "get" /\ Same(r, q) /\ r.at = "set" /\ r.host = q.host /\ r.copy = fields
Stores(q, r) ==
    /\ q.at = "set" /\ fields' = [q.copy EXCEPT ![q.tab] = q.host] /\ UNCHANGED <<mode, mixed, paints>>
    /\ \/ q.kind = "removed" /\ r = NoTask
       \/ q.kind # "removed" /\ r.at = "paint" /\ r.tab = q.tab
Colours(q, r) ==
    /\ UNCHANGED <<fields, mixed>>
    /\ \/ q.at = "keys" /\ Painted(r, Holding) /\ UNCHANGED mode
       \/ /\ q.at = "paint" /\ r.tab = q.tab /\ r.todo = q.todo /\ UNCHANGED mode
          /\ r.host = fields[q.tab] /\ ~r.hit /\ r.at = (IF r.host = NoHost THEN "mode" ELSE "account")
       \/ /\ q.at = "account" /\ r.at = "mode" /\ r.tab = q.tab /\ r.todo = q.todo /\ UNCHANGED mode
          /\ r.hit <=> AccountFor(q.host) # NoSecret
       \/ /\ q.at = "mode" /\ page[q.tab].host # NoHost /\ Painted(r, q.todo)
          /\ mode' = [mode EXCEPT ![q.tab] = IF q.hit THEN "fill" ELSE "menu"]
       \/ q.at = "mode" /\ page[q.tab].host = NoHost /\ r = NoTask /\ UNCHANGED mode

\* What it marks.
Brushes(s) ==
    /\ task[s].at \in {"keys", "account"} => UNCHANGED paints
    /\ task[s].at = "paint" =>
          behind' = behind \ {s} /\ skipped' = skipped \ {task[s].tab} /\ UNCHANGED overtaken
    /\ task[s].at = "mode" /\ page[task[s].tab].host = NoHost =>
          behind' = behind \ {s} /\ skipped' = skipped \cup task[s].todo /\ UNCHANGED overtaken
    /\ task[s].at = "mode" /\ page[task[s].tab].host # NoHost =>
          LET t == task[s].tab
          IN /\ behind' = (behind \ {s}) \cup Behind(s) /\ UNCHANGED skipped
             /\ overtaken' = IF s \in behind /\ task[s].hit # Fills(t)
                             THEN overtaken \cup {t} ELSE overtaken \ {t}

LEMMA TaskStep ==
  ASSUME ToolTypes, NEW s \in Handlers, Handles(s)
  PROVE  /\ Quiet
         /\ \E r \in Tasks : /\ TaskFits(r) /\ task' = [task EXCEPT ![s] = r]
                             /\ \/ Asks(task[s], r) \/ Stores(task[s], r)
                                \/ Colours(task[s], r) /\ Brushes(s)
<1> DEFINE q == task[s]
<1>0. q \in Tasks /\ TaskFits(q) /\ fields \in [Tabs -> Hosts \cup {NoHost}]
  BY DEF ToolTypes
<1>1. CASE Held(s)
  <2>1. CASE q.present /\ Working(s, "get")
    <3> DEFINE r == [q EXCEPT !.at = "get"]
    <3>1. r \in Tasks /\ TaskFits(r) /\ Same(r, q) /\ r.at = "get" /\ r.host = q.host
      BY <1>0, <1>1 DEF Tasks, TaskFits, Held, Same
    <3>2. task' = [task EXCEPT ![s] = r]
      BY <2>1 DEF Working
    <3> QED  BY <1>1, <2>1, <3>1, <3>2 DEF Held, Asks, buttons
  <2>2. CASE ~q.present /\ task' = [task EXCEPT ![s].at = "get", ![s].host = NoHost]
    <3> DEFINE r == [q EXCEPT !.at = "get", !.host = NoHost]
    <3>1. r \in Tasks /\ TaskFits(r) /\ Same(r, q) /\ r.at = "get" /\ r.host = NoHost
      BY <1>0, <1>1 DEF Tasks, TaskFits, Held, Same
    <3>2. task' = [task EXCEPT ![s] = r]
      BY <2>2
    <3> QED  BY <1>1, <2>2, <3>1, <3>2 DEF Held, Asks, buttons
  <2>3. CASE ~q.present /\ fields[q.tab] = NoHost /\ Working(s, "paint")
    <3> DEFINE r == [q EXCEPT !.at = "paint"]
    <3>1. r \in Tasks /\ TaskFits(r) /\ Same(r, q) /\ r.at = "paint"
      BY <1>0, <1>1 DEF Tasks, TaskFits, Held, Same
    <3>2. task' = [task EXCEPT ![s] = r]
      BY <2>3 DEF Working
    <3> QED  BY <1>1, <2>3, <3>1, <3>2 DEF Held, Asks, buttons
  <2> QED  BY <1>1, <2>1, <2>2, <2>3 DEF Held
<1>2. CASE Query(s)
  <2> DEFINE h == page[q.tab].host
  <2>1. CASE h = NoHost
    BY <1>2, <2>1, IdleTask DEF Query, Done, Asks, buttons
  <2>2. CASE h # NoHost
    <3> DEFINE r == [q EXCEPT !.at = "get", !.host = IF q.present THEN h ELSE NoHost]
    <3>0. h \in Hosts \cup {NoHost}
      BY <1>0, <1>2 DEF ToolTypes, TaskFits, Query, Pages
    <3>1. /\ r \in Tasks /\ TaskFits(r) /\ Same(r, q) /\ r.at = "get"
          /\ r.host = (IF q.present THEN h ELSE NoHost)
      BY <1>0, <1>2, <3>0 DEF Tasks, TaskFits, Query, Same
    <3>2. task' = [task EXCEPT ![s] = r]
      BY <1>2, <2>2 DEF Query
    <3> QED  BY <1>2, <2>2, <3>1, <3>2 DEF Query, Asks, buttons
  <2> QED  BY <2>1, <2>2
<1>3. CASE GetFields(s)
  <2> DEFINE r == [q EXCEPT !.at = "set", !.copy = fields]
  <2>1. /\ r \in Tasks /\ TaskFits(r) /\ Same(r, q) /\ r.at = "set" /\ r.host = q.host /\ r.copy = fields
    BY <1>0, <1>3 DEF Tasks, TaskFits, GetFields, Same
  <2>2. task' = [task EXCEPT ![s] = r]
    BY <1>3 DEF GetFields
  <2> QED  BY <1>3, <2>1, <2>2 DEF GetFields, Asks, buttons
<1>4. CASE SetFields(s)
  <2>1. CASE q.kind = "removed"
    BY <1>4, <2>1, IdleTask DEF SetFields, Done, Stores
  <2>2. CASE q.kind # "removed"
    <3> DEFINE r == [q EXCEPT !.at = "paint"]
    <3>1. r \in Tasks /\ TaskFits(r) /\ r.tab = q.tab /\ r.at = "paint"
      BY <1>0, <1>4 DEF Tasks, TaskFits, SetFields
    <3>2. task' = [task EXCEPT ![s] = r]
      BY <1>4, <2>2 DEF SetFields, Working
    <3> QED  BY <1>4, <2>2, <3>1, <3>2 DEF SetFields, Stores
  <2> QED  BY <2>1, <2>2
<1>5. ASSUME NEW tabs \in SUBSET Tabs, PaintNext(s, tabs)
      PROVE  \E r \in Tasks : TaskFits(r) /\ task' = [task EXCEPT ![s] = r] /\ Painted(r, tabs)
  <2>1. CASE tabs = {}
    BY <1>5, <2>1, IdleTask DEF PaintNext, Done, Painted
  <2>2. CASE tabs # {}
    <3>1. PICK t \in tabs : task' = [task EXCEPT ![s].at = "paint", ![s].tab = t, ![s].todo = tabs \ {t}]
      BY <1>5, <2>2 DEF PaintNext
    <3> DEFINE r == [q EXCEPT !.at = "paint", !.tab = t, !.todo = tabs \ {t}]
    <3>2. r \in Tasks /\ TaskFits(r) /\ r.at = "paint" /\ r.tab = t /\ r.todo = tabs \ {t}
      BY <1>0 DEF Tasks, TaskFits
    <3>3. task' = [task EXCEPT ![s] = r]
      BY <3>1
    <3> QED  BY <3>2, <3>3 DEF Painted
  <2> QED  BY <2>1, <2>2
<1>6. CASE Keys(s)
  <2>1. Holding \in SUBSET Tabs
    BY DEF Holding
  <2> QED  BY <1>5, <1>6, <2>1 DEF Keys, Colours, Brushes, buttons
<1>7. CASE PaintField(s)
  <2> DEFINE h == fields[q.tab]
             r == [q EXCEPT !.at = IF h = NoHost THEN "mode" ELSE "account", !.host = h, !.hit = FALSE]
  <2>0. h \in Hosts \cup {NoHost}
    BY <1>0, <1>7 DEF TaskFits, PaintField
  <2>1. /\ r \in Tasks /\ TaskFits(r) /\ r.tab = q.tab /\ r.todo = q.todo /\ r.host = h /\ ~r.hit
        /\ r.at = (IF h = NoHost THEN "mode" ELSE "account")
    BY <1>0, <1>7, <2>0 DEF Tasks, TaskFits, PaintField
  <2>2. task' = [task EXCEPT ![s] = r]
    BY <1>7 DEF PaintField
  <2>3. Quiet /\ UNCHANGED <<fields, mode, mixed>> /\ q.at = "paint"
    BY <1>7 DEF PaintField, buttons
  <2> HIDE DEF r
  <2>4. Colours(q, r)
    BY <2>1, <2>3 DEF Colours
  <2>5. Brushes(s)
    BY <1>7 DEF PaintField, Brushes
  <2> QED  BY <2>1, <2>2, <2>3, <2>4, <2>5
<1>8. CASE PaintAccount(s)
  <2> DEFINE hit == AccountFor(q.host) # NoSecret
             r == [q EXCEPT !.at = "mode", !.hit = hit]
  <2>1. /\ r \in Tasks /\ TaskFits(r) /\ r.tab = q.tab /\ r.todo = q.todo /\ r.at = "mode"
        /\ r.hit <=> AccountFor(q.host) # NoSecret
    BY <1>0, <1>8 DEF Tasks, TaskFits, PaintAccount
  <2>2. task' = [task EXCEPT ![s] = r]
    BY <1>8 DEF PaintAccount
  <2> QED  BY <1>8, <2>1, <2>2 DEF PaintAccount, Colours, Brushes, buttons
<1>9. CASE PaintMode(s)
  <2>1. q.todo \in SUBSET Tabs
    BY <1>0 DEF Tasks
  <2>2. Brushes(s)
    BY <1>9 DEF PaintMode, Brushes
  <2> QED  BY <1>5, <1>9, <2>1, <2>2 DEF PaintMode, Colours
<1>10. CASE PaintFails(s)
  <2>1. Brushes(s)
    BY <1>10 DEF PaintFails, Brushes
  <2> QED  BY <1>10, <2>1, IdleTask DEF PaintFails, Done, Colours, buttons
<1> QED  BY <1>1, <1>2, <1>3, <1>4, <1>6, <1>7, <1>8, <1>9, <1>10 DEF Handles

\* A handler that starts.
LEMMA StartStep ==
  ASSUME ToolTypes, NEW s \in Slots, Start(s)
  PROVE  /\ inbox # <<>> /\ inbox' = Tail(inbox) /\ Head(inbox) \in Events /\ EventFits(Head(inbox))
         /\ UNCHANGED <<page, fields, mode, click, astray, paints>> /\ task[s].at = "idle" /\ s \in play.slots
         /\ mixed' = (mixed \/ \E u \in Slots : task[u].at \in Updating)
         /\ \E r \in Tasks :
               /\ TaskFits(r) /\ task' = [task EXCEPT ![s] = r] /\ r.at = FirstAwait(Head(inbox).kind)
               /\ Same(r, Head(inbox)) /\ r.host = Head(inbox).host
<1> DEFINE e == Head(inbox)
<1>1. e \in Events /\ EventFits(e) /\ inbox # <<>>
  BY Taken DEF Start, ToolTypes
<1> DEFINE r == [NoTask EXCEPT !.kind = e.kind, !.at = FirstAwait(e.kind),
                               !.tab = e.tab, !.host = e.host, !.present = e.present]
<1>2. FirstAwait(e.kind) \in {"held", "query", "get", "keys"}
  BY <1>1 DEF FirstAwait, Events, Kinds
<1>3. r \in Tasks /\ Same(r, e) /\ r.host = e.host /\ r.at = FirstAwait(e.kind)
  BY <1>1, <1>2 DEF NoTask, Tasks, Events, Same
<1>4. task' = [task EXCEPT ![s] = r]
  BY DEF Start
<1> HIDE DEF r
<1>5. TaskFits(r)
  <2>1. e.kind \in Kinds
    BY <1>1 DEF Events
  <2> HIDE DEF e
  <2> QED  BY <1>1, <1>3, <2>1 DEF TaskFits, EventFits, Same, FirstAwait, Kinds
<1> QED  BY <1>1, <1>3, <1>4, <1>5 DEF Start, pages, buttons

LEMMA ToolTypedFirst == ToolbarInit => ToolTypes /\ Waits
<1> SUFFICES ASSUME ToolbarInit PROVE ToolTypes /\ Waits
  OBVIOUS
<1>1. page \in [Tabs -> Pages]
  <2>1. \A t \in Tabs : PageAtFirst[t] \in Hosts \cup {NoHost}
    BY ToolbarAssumptions
  <2> QED  BY <2>1, PageTyped DEF ToolbarInit, Pages, Blank
<1>2. inbox \in Seq(Events) /\ DOMAIN inbox = {}
  BY DEF ToolbarInit
<1>3. Flows \subseteq Handlers
  BY DEF Handlers
<1> QED  BY <1>1, <1>2, <1>3, IdleTask, IdleClick DEF ToolbarInit, ToolTypes, Waits, Updating

\* A click, from the button to the code.
LEMMA ClickStep ==
  ASSUME ToolTypes, Clicking
  PROVE  /\ UNCHANGED <<page, fields, mode, inbox, task, mixed, paints>> /\ click' \in Clicks
         /\ click'.at # "idle" => click'.tab \in Tabs
         /\ \/ click' = NoClick /\ UNCHANGED astray
            \/ /\ \E t \in Tabs : /\ page[t].host # NoHost /\ click'.at = "fields" /\ click'.tab = t
                                  /\ click'.late <=> Leaving(t)
               /\ UNCHANGED astray
            \/ /\ click.at = "fields" /\ click'.at = "account" /\ click'.host = fields[click.tab]
               /\ click'.host # NoHost
               /\ click'.tab = click.tab /\ click'.late = click.late /\ UNCHANGED astray
            \/ /\ click.at = "account" /\ click'.at = "send" /\ click'.host = click.host
               /\ click'.tab = click.tab /\ click'.late = click.late /\ UNCHANGED astray
            \/ /\ click.at = "send" /\ click' = NoClick
               /\ astray' = (astray \/ (~click.late /\ ~mixed /\ page[click.tab].host # click.host))
<1>0. click \in Clicks /\ (click.at # "idle" => click.tab \in Tabs)
  BY DEF ToolTypes
<1>1. ASSUME NEW t \in Tabs, Click(t)
      PROVE  /\ page[t].host # NoHost /\ click' \in Clicks /\ click'.at = "fields" /\ click'.tab = t
             /\ (click'.late <=> Leaving(t)) /\ UNCHANGED <<page, fields, mode, inbox, task, mixed, astray, paints>>
  <2>1. Leaving(t) \in BOOLEAN
    BY DEF Leaving
  <2> QED  BY <1>1, <2>1 DEF Click, Clicks, pages, buttons, marks
<1>2. CASE ClickField
  <2>1. click.at = "fields" /\ UNCHANGED <<page, fields, mode, inbox, task, mixed, astray, paints>>
    BY <1>2 DEF ClickField, pages, buttons, marks
  <2>2. CASE fields[click.tab] = NoHost
    BY <1>2, <2>1, <2>2, IdleClick DEF ClickField
  <2>3. CASE fields[click.tab] # NoHost
    <3>1. click' = [click EXCEPT !.at = "account", !.host = fields[click.tab]]
      BY <1>2, <2>3 DEF ClickField
    <3>2. fields[click.tab] \in Hosts \cup {NoHost}
      BY <1>0, <2>1 DEF ToolTypes
    <3> QED  BY <1>0, <2>1, <2>3, <3>1, <3>2 DEF Clicks
  <2> QED  BY <2>2, <2>3
<1>3. CASE ClickAccount
  <2>1. click.at = "account" /\ UNCHANGED <<page, fields, mode, inbox, task, mixed, astray, paints>>
    BY <1>3 DEF ClickAccount, pages, buttons, marks
  <2>2. click' = NoClick \/ click' = [click EXCEPT !.at = "send"]
    BY <1>3 DEF ClickAccount
  <2> QED  BY <1>0, <2>1, <2>2, IdleClick DEF Clicks
<1>4. CASE Send
  BY <1>4, IdleClick DEF Send, pages, buttons
<1> QED  BY <1>1, <1>2, <1>3, <1>4 DEF Clicking

\* A step of the extension, as the toolbar sees it.  A call or the timer may begin to paint.
Acts ==
    \/ \E t \in Tabs : PageDoes(t)
    \/ \E s \in Slots : Start(s)
    \/ \E s \in Handlers : Handles(s)
    \/ Clicking
Turns ==
    \/ UNCHANGED task
    \/ \E new \in SUBSET (Handlers \ Slots) :
          /\ \A s \in new : task[s].at = "idle"
          /\ task' = [s \in Handlers |-> IF s \in new THEN PaintAll ELSE task[s]]
Repaints == /\ Posts(Event("repaint", 0, NoHost, FALSE)) /\ Turns
            /\ UNCHANGED <<page, fields, mode, click, mixed, astray, paints>>
Restarts ==
    /\ page' = [t \in Tabs |-> Blank(NoHost)]
    /\ fields' = [t \in Tabs |-> NoHost]
    /\ mode' = [t \in Tabs |-> "menu"]
    /\ inbox' = <<>> /\ task' = [s \in Handlers |-> NoTask] /\ click' = NoClick
    /\ UNCHANGED <<mixed, astray>>

\* A step of the vault leaves the play as it is, and time goes on.
LEMMA VaultGoes ==
  ASSUME VaultNext \/ BrowserEnds
  PROVE  UNCHANGED play /\ (lapsed' = lapsed \/ lapsed' = lapsed + 1)
<1> USE DEF disk, worker, popup, world, counts, endings
<1>1. CASE Remove \/ TimerFires \/ Lapse \/ IssueNonce \/ Recycle \/ BrowserEnds
  BY <1>1 DEF Remove, TimerFires, Lapse, IssueNonce, Recycle, BrowserEnds
<1>2. CASE OpenPopup \/ ClosePopup
  BY <1>2 DEF OpenPopup, ClosePopup, Rest
<1>3. ASSUME NEW nonce, HandOver(nonce) PROVE UNCHANGED <<play, lapsed>>
  BY <1>3 DEF HandOver
<1>4. ASSUME NEW h, ShowCode(h) PROVE UNCHANGED <<play, lapsed>>
  BY <1>4 DEF ShowCode
<1>5. ASSUME NEW s, NEW h, MoveSite(s, h) PROVE UNCHANGED <<play, lapsed>>
  BY <1>5 DEF MoveSite
<1>6. ASSUME NEW f, PressUnlock(f) \/ PressProtect(f) \/ PressLock(f) \/ PressAccept(f)
      PROVE  UNCHANGED <<play, lapsed>>
  BY <1>6 DEF PressUnlock, PressProtect, PressLock, PressAccept, Press, Rest
<1>7. ASSUME NEW f, Unlock(f) \/ Unwrap(f) \/ Protect(f) \/ Wrap(f) \/ Paired(f) \/ Lock(f)
      PROVE  UNCHANGED <<play, lapsed>>
  BY <1>7 DEF Unlock, Unwrap, Protect, Wrap, Paired, Lock, Rest
<1>10. ASSUME NEW f, Opened(f) \/ Refused(f) \/ Locked(f) PROVE UNCHANGED <<play, lapsed>>
  BY <1>10 DEF Opened, Refused, Locked, Rest
<1>8. ASSUME NEW f, Get(f) \/ Read(f) \/ Seen(f) \/ Remember(f) \/ Write(f)
      PROVE  UNCHANGED <<play, lapsed>>
  BY <1>8 DEF Get, Read, Seen, Remember, Write, Rest
<1>9. ASSUME NEW f, Accept(f) \/ Accepting(f) \/ Reopen(f) \/ Reopening(f) \/ Render(f)
      PROVE  UNCHANGED <<play, lapsed>>
  BY <1>9 DEF Accept, Accepting, Reopen, Reopening, Render, Rest
<1> QED  BY <1>1, <1>2, <1>3, <1>4, <1>5, <1>6, <1>7, <1>8, <1>9, <1>10 DEF VaultNext, VaultCalls, VaultStep

\* The open vault changes with a repaint of the tabs, or with the browser.
Unpainted == Turns /\ UNCHANGED <<page, fields, mode, inbox, click, mixed, astray, paints>>

\* Those who begin to paint were not painting.
LEMMA VaultTurns ==
  ASSUME ToolTypes, Waits, VaultActs
  PROVE  Turns /\ Waits'
<1>0. Flows \subseteq Handlers \ Slots /\ IdleTimer \in Handlers \ Slots /\ IdleTimer \notin Flows
  BY ToolbarAssumptions DEF Handlers
<1>1. CASE /\ \A f \in Flows : Turned(f) /\ flow[f].at \in Painting => task[f].at = "idle"
           /\ Paints({f \in Flows : Turned(f) /\ flow'[f].at \in Painting})
  <2> DEFINE new == {f \in Flows : Turned(f) /\ flow'[f].at \in Painting /\ play.tabs # {}}
  <2>1. task' = [s \in Handlers |-> IF s \in new THEN PaintAll ELSE task[s]]
    BY <1>1 DEF Paints
  <2>2. \A s \in new : task[s].at = "idle"
    <3> SUFFICES ASSUME NEW f \in Flows, Turned(f), task[f].at # "idle" PROVE FALSE
      OBVIOUS
    <3>1. flow[f].at \in Painting
      BY DEF Waits
    <3> QED  BY <1>1, <3>1
  <2>3. new \in SUBSET (Handlers \ Slots)
    BY <1>0
  <2>4. ASSUME NEW f \in Flows, task'[f].at # "idle" PROVE flow'[f].at \in Painting
    <3>1. CASE f \in new
      BY <3>1
    <3>2. CASE f \notin new
      <4>1. task[f].at # "idle" /\ flow[f].at \in Painting
        BY <1>0, <2>1, <2>4, <3>2 DEF Waits
      <4> QED  BY <1>1, <4>1 DEF Turned
    <3> QED  BY <3>1, <3>2
  <2> HIDE DEF new
  <2> QED  BY <2>1, <2>2, <2>3, <2>4 DEF Turns, Waits
<1>2. CASE TimerFires /\ task[IdleTimer].at = "idle" /\ Paints({IdleTimer})
  <2> DEFINE new == IF play.tabs = {} THEN {} ELSE {IdleTimer}
  <2>1. task' = [s \in Handlers |-> IF s \in new THEN PaintAll ELSE task[s]]
    BY <1>2 DEF Paints
  <2>2. new \in SUBSET (Handlers \ Slots) /\ \A s \in new : task[s].at = "idle"
    BY <1>0, <1>2
  <2>3. \A f \in Flows : f \notin new
    BY <1>0
  <2> HIDE DEF new
  <2>4. UNCHANGED flow /\ \A f \in Flows : task'[f] = task[f]
    BY <1>0, <1>2, <2>1, <2>3 DEF TimerFires
  <2> QED  BY <2>1, <2>2, <2>4 DEF Turns, Waits
<1> QED  BY <1>1, <1>2 DEF VaultActs

LEMMA ToolStep ==
  ASSUME ToolTypes, Waits, VaultTypes, [Next]_vars
  PROVE  /\ UNCHANGED play /\ (lapsed' = lapsed \/ lapsed' = lapsed + 1)
         /\ \/ Acts /\ UNCHANGED <<open, lapsed, flow>>
            \/ Unpainted /\ (open' = open \/ play.tabs = {})
            \/ Repaints
            \/ Restarts
<1> USE DEF disk, worker, popup, world, counts, endings
<1>1. CASE VaultActs
  <2>1. VaultNext
    BY <1>1 DEF VaultActs, VaultNext
  <2> QED  BY <1>1, <2>1, VaultGoes, VaultTurns DEF VaultActs, Repaint, Repaints, Posts, Unpainted, marks
<1>2. CASE ToolbarActs
  <2>1. UNCHANGED <<play, open, lapsed, flow>> /\ ToolbarNext
    BY <1>2 DEF ToolbarActs
  <2>2. ASSUME NEW s \in Handlers, Start(s) PROVE s \in Slots
    <3>1. s \in play.slots
      BY <2>2 DEF Start
    <3> QED  BY <3>1, ToolbarAssumptions DEF VaultTypes
  <2>3. Acts
    BY <2>1, <2>2 DEF Acts, PageDoes, Handles, Clicking, ToolbarNext, ToolbarStep
  <2> QED  BY <2>1, <2>3
<1>3. CASE CapturesAct
  BY <1>3 DEF CapturesAct, vaultVars, toolbarVars, Unpainted, Turns, paints
<1>4. CASE Restart
  BY <1>4, VaultGoes DEF Restart, Restarts
<1>5. CASE UNCHANGED vars
  BY <1>5 DEF vars, vaultVars, toolbarVars, Unpainted, Turns, paints
<1> QED  BY <1>1, <1>2, <1>3, <1>4, <1>5 DEF Next

\* A handler that no event started only paints.
LEMMA OnlyColours ==
  ASSUME ToolTypes, NEW s \in Handlers \ Slots, NEW r,
         \/ Asks(task[s], r) \/ Stores(task[s], r)
         \/ Colours(task[s], r) /\ Brushes(s)
  PROVE  Colours(task[s], r) /\ Brushes(s) /\ r.at \notin Updating
<1>1. task[s].at \notin Updating
  BY DEF ToolTypes
<1> QED  BY <1>1, IdleTask DEF Asks, Stores, Colours, Painted, Updating

\* What the handlers of events do not notice.
Asides == /\ UNCHANGED <<page, fields, inbox, click, mixed, astray>>
          /\ \A s \in Slots : task'[s] = task[s]

LEMMA TurnsAside ==
  ASSUME ToolTypes, Turns PROVE \A s \in Slots : task'[s] = task[s]
  BY SlotsHandle DEF Turns

LEMMA PaintsAside ==
  ASSUME ToolTypes, NEW s \in Handlers \ Slots, Handles(s) PROVE Asides
<1>1. PICK r \in Tasks : /\ Quiet /\ task' = [task EXCEPT ![s] = r]
                         /\ \/ Asks(task[s], r) \/ Stores(task[s], r)
                            \/ Colours(task[s], r) /\ Brushes(s)
  BY TaskStep
<1>2. Colours(task[s], r)
  BY <1>1, OnlyColours
<1>3. \A u \in Slots : task'[u] = task[u]
  BY <1>1, SlotsHandle DEF ToolTypes
<1> QED  BY <1>1, <1>2, <1>3 DEF Asides, Quiet, pages, Colours

LEMMA WaitsKept ==
  ASSUME ToolTypes, Waits, VaultTypes, [Next]_vars PROVE Waits'
<1>0. Flows \subseteq Handlers \ Slots
  BY ToolbarAssumptions DEF Handlers
<1>1. CASE VaultActs
  BY <1>1, VaultTurns
<1>2. CASE ToolbarActs
  <2>1. UNCHANGED flow
    BY <1>2 DEF ToolbarActs
  <2>2. ASSUME NEW f \in Flows, task'[f].at # "idle" PROVE task[f].at # "idle"
    <3>1. CASE UNCHANGED task
      BY <2>2, <3>1
    <3>2. ASSUME NEW s \in Slots, Start(s) PROVE task[f].at # "idle"
      <4>1. PICK r : task' = [task EXCEPT ![s] = r]
        BY <3>2, StartStep
      <4>2. task'[f] = task[f]
        BY <1>0, <4>1 DEF ToolTypes
      <4> QED  BY <2>2, <4>2
    <3>3. ASSUME NEW s \in Handlers, Handles(s) PROVE task[f].at # "idle"
      <4>1. CASE f = s
        BY <3>3, <4>1 DEF Handles, Held, Query, GetFields, SetFields, Keys, PaintField, PaintAccount,
             PaintMode, PaintFails
      <4>2. CASE f # s
        <5>1. PICK r : task' = [task EXCEPT ![s] = r]
          BY <3>3, TaskStep
        <5>2. task'[f] = task[f]
          BY <1>0, <4>2, <5>1 DEF ToolTypes
        <5> QED  BY <2>2, <5>2
      <4> QED  BY <4>1, <4>2
    <3>4. CASE \E t \in Tabs : PageDoes(t)
      <4>1. UNCHANGED task
        BY <3>4, PageStep DEF PageActs
      <4> QED  BY <3>1, <4>1
    <3>5. CASE Clicking
      BY <3>1, <3>5, ClickStep
    <3>6. Acts
      <4>1. UNCHANGED play /\ ToolbarNext
        BY <1>2 DEF ToolbarActs, counts
      <4>2. ASSUME NEW s \in Handlers, Start(s) PROVE s \in Slots
        BY <4>2, ToolbarAssumptions DEF Start, VaultTypes
      <4> QED  BY <4>1, <4>2 DEF Acts, PageDoes, Handles, Clicking, ToolbarNext, ToolbarStep
    <3> QED  BY <3>2, <3>3, <3>4, <3>5, <3>6 DEF Acts
  <2> QED  BY <2>1, <2>2 DEF Waits
<1>3. CASE CapturesAct \/ UNCHANGED vars
  BY <1>3 DEF CapturesAct, vars, vaultVars, toolbarVars, Waits
<1>4. CASE Restart
  BY <1>0, <1>4, IdleTask DEF Restart, Waits
<1> QED  BY <1>1, <1>2, <1>3, <1>4 DEF Next

LEMMA ToolTyped == ASSUME ToolTypes, Acts \/ Unpainted \/ Repaints \/ Restarts PROVE ToolTypes'
<1>t. ASSUME Turns
      PROVE  /\ task' \in [Handlers -> Tasks] /\ (\A s \in Handlers : TaskFits(task'[s]))
             /\ \A s \in Handlers \ Slots : task'[s].at \notin Updating
  BY <1>t, KeysTask DEF Turns, ToolTypes, Updating
<1>1. CASE Unpainted
  BY <1>1, <1>t DEF ToolTypes, Unpainted
<1>2. ASSUME NEW t \in Tabs, PageDoes(t) PROVE ToolTypes'
  <2>1. PICK p \in Pages : PageActs(t, p) /\ (UNCHANGED inbox
           \/ \E e \in Events : EventFits(e) /\ inbox' = Append(inbox, e))
    <3>1. PICK p \in Pages, h \in Hosts \cup {NoHost}, present \in BOOLEAN :
            PageActs(t, p) /\ PageMoves(t, p, h, present)
      BY <1>2, PageStep
    <3>2. page[t].host \in Hosts \cup {NoHost}
      BY DEF ToolTypes, Pages
    <3> QED  BY <3>1, <3>2, AnnounceIs, SeenIs, MoveIs DEF PageMoves, Leaves, Stays, Posts
  <2>2. click' \in Clicks /\ click'.at = click.at /\ click'.tab = click.tab
    BY <2>1 DEF PageActs, ToolTypes, Clicks
  <2>3. page' \in [Tabs -> Pages] /\ UNCHANGED <<fields, mode, task, mixed, astray>>
    BY <2>1 DEF PageActs, ToolTypes
  <2> QED  BY <2>1, <2>2, <2>3, PostTyped
<1>3. ASSUME NEW s \in Slots, Start(s) PROVE ToolTypes'
  <2>1. PICK r \in Tasks : TaskFits(r) /\ task' = [task EXCEPT ![s] = r]
    BY <1>3, StartStep
  <2>2. inbox' \in Seq(Events) /\ \A i \in DOMAIN inbox' : EventFits(inbox'[i])
    BY <1>3, StartStep, Taken DEF ToolTypes
  <2>3. mixed' \in BOOLEAN /\ UNCHANGED <<page, fields, mode, click, astray>>
    BY <1>3, StartStep DEF ToolTypes
  <2>4. /\ task' \in [Handlers -> Tasks] /\ (\A u \in Handlers : TaskFits(task'[u]))
        /\ \A u \in Handlers \ Slots : task'[u] = task[u]
    BY <2>1, SlotsHandle DEF ToolTypes
  <2> QED  BY <2>2, <2>3, <2>4 DEF ToolTypes
<1>4. ASSUME NEW s \in Handlers, Handles(s) PROVE ToolTypes'
  <2>1. PICK r \in Tasks : /\ Quiet /\ TaskFits(r) /\ task' = [task EXCEPT ![s] = r]
                           /\ \/ Asks(task[s], r) \/ Stores(task[s], r)
                              \/ Colours(task[s], r) /\ Brushes(s)
    BY <1>4, TaskStep
  <2>2. task[s] \in Tasks /\ mixed \in BOOLEAN
    BY DEF ToolTypes
  <2>3. fields' \in [Tabs -> Hosts \cup {NoHost}]
    BY <2>1, <2>2 DEF Asks, Stores, Colours, ToolTypes, Tasks
  <2>4. mode' \in [Tabs -> {"menu", "fill"}] /\ mixed' = mixed
    BY <2>1 DEF Asks, Stores, Colours, ToolTypes
  <2>5. s \in Slots \/ r.at \notin Updating
    BY <2>1, OnlyColours
  <2> QED  BY <2>1, <2>2, <2>3, <2>4, <2>5, PutTask
<1>5. CASE Clicking
  <2>1. /\ UNCHANGED <<page, fields, mode, inbox, task, mixed>> /\ click' \in Clicks
        /\ (click'.at # "idle" => click'.tab \in Tabs) /\ astray' \in BOOLEAN
    BY <1>5, ClickStep DEF ToolTypes
  <2> QED  BY <2>1 DEF ToolTypes
<1>6. CASE Repaints
  <2>1. inbox' \in Seq(Events) /\ \A i \in DOMAIN inbox' : EventFits(inbox'[i])
    <3>1. PICK e \in Events : EventFits(e) /\ inbox' = Append(inbox, e)
      BY <1>6, RepaintIs DEF Repaints, Posts
    <3> QED  BY <3>1, Appended DEF ToolTypes
  <2> QED  BY <1>6, <1>t, <2>1 DEF Repaints, ToolTypes
<1>7. CASE Restarts
  <2>1. page' \in [Tabs -> Pages] /\ inbox' \in Seq(Events) /\ DOMAIN inbox' = {}
    BY <1>7, PageTyped DEF Restarts
  <2>2. /\ click' \in Clicks /\ click'.at = "idle"
        /\ task' \in [Handlers -> Tasks] /\ (\A u \in Handlers : TaskFits(task'[u]))
        /\ \A u \in Handlers : task'[u].at \notin Updating
    BY <1>7, IdleTask, IdleClick DEF Restarts, Updating
  <2> QED  BY <1>7, <2>1, <2>2 DEF Restarts, ToolTypes
<1> QED  BY <1>1, <1>2, <1>3, <1>4, <1>5, <1>6, <1>7 DEF Acts

----------------------------------------------------------------------------
\* The code of a page goes to its host.
Sent(e) == UNCHANGED inbox \/ Posts(e)

\* A tab whose host stays, when an event is posted.
LEMMA PostTab ==
  ASSUME ToolTypes, NEW t \in Tabs, page'[t].host = page[t].host,
         UNCHANGED fields, \A s \in Slots : task'[s] = task[s],
         NEW e \in Events, Sent(e), e.tab = t /\ e.kind = "announce" => e.host = page[t].host
  PROVE  (TabHome(t) => TabHome(t)') /\ (Truthful(t) => Truthful(t)')
<1>1. CASE UNCHANGED inbox
  BY <1>1 DEF TabHome, Truthful, Posted, Home, Coming, Works, Leaving
<1>2. CASE Posts(e)
  <2>1. /\ \A i \in DOMAIN inbox : i \in DOMAIN inbox' /\ inbox'[i] = inbox[i]
        /\ \A i \in DOMAIN inbox' : i \in DOMAIN inbox \/ inbox'[i] = e
    BY <1>2, Appended DEF ToolTypes, Posts
  <2>2. \A i : Coming(t, i) => Coming(t, i)'
    BY <2>1 DEF Coming
  <2>3. Leaving(t) => Leaving(t)'
    BY <2>1 DEF Leaving
  <2>5. ASSUME NEW i \in DOMAIN inbox', Posted(t, i)'
        PROVE  (i \in DOMAIN inbox /\ Posted(t, i) /\ inbox'[i] = inbox[i]) \/ Home(t, inbox[i].host)'
    BY <2>1, <2>5 DEF Posted, Home
  <2>6. TabHome(t) => TabHome(t)'
    <3> SUFFICES ASSUME TabHome(t) PROVE TabHome(t)'
      OBVIOUS
    <3>1. ASSUME NEW i \in DOMAIN inbox', Posted(t, i)' PROVE Home(t, inbox[i].host)' \/ Coming(t, i)'
      BY <3>1, <2>2, <2>5 DEF TabHome, Home
    <3>2. ASSUME NEW s \in Slots, Works(s, t)' PROVE Home(t, task[s].host)' \/ Coming(t, 0)'
      BY <3>2, <2>2 DEF TabHome, Works, Home
    <3>3. Home(t, fields[t])' \/ Leaving(t)'
      BY <2>3 DEF TabHome, Home
    <3> QED  BY <3>1, <3>2, <3>3 DEF TabHome
  <2>7. Truthful(t) => Truthful(t)'
    <3> SUFFICES ASSUME Truthful(t) PROVE Truthful(t)'
      OBVIOUS
    <3>1. ASSUME NEW i \in DOMAIN inbox', Posted(t, i)' PROVE Home(t, inbox[i].host)'
      BY <3>1, <2>5 DEF Truthful, Home
    <3>2. ASSUME NEW s \in Slots, Works(s, t)' PROVE Home(t, task[s].host)'
      BY <3>2 DEF Truthful, Works, Home
    <3>3. Home(t, fields[t])'
      BY DEF Truthful, Home
    <3> QED  BY <3>1, <3>2, <3>3 DEF Truthful
  <2> QED  BY <2>6, <2>7
<1> QED  BY <1>1, <1>2 DEF Sent

LEMMA PostHome ==
  ASSUME ToolTypes, HomeInv, \A t \in Tabs : page'[t].host = page[t].host,
         UNCHANGED <<fields, click, mixed, astray>>, \A s \in Slots : task'[s] = task[s],
         NEW e \in Events, Sent(e), e.kind = "announce" => e.tab \in Tabs /\ e.host = page[e.tab].host
  PROVE  HomeInv'
<1>1. \A t \in Tabs : (TabHome(t) => TabHome(t)') /\ (Truthful(t) => Truthful(t)')
  BY PostTab
<1>2. click.at # "idle" => click.tab \in Tabs
  BY DEF ToolTypes
<1>3. OneWriter => OneWriter'
  BY DEF OneWriter
<1>4. ClickHome => ClickHome'
  BY <1>1, <1>2 DEF ClickHome
<1> QED  BY <1>1, <1>3, <1>4 DEF HomeInv

\* A tab that goes to another page, or closes.
LEMMA LeaveHome ==
  ASSUME ToolTypes, HomeInv, NEW t \in Tabs, NEW h \in Hosts \cup {NoHost},
         page' = [page EXCEPT ![t] = Blank(h)], NEW e \in Events, Posts(e), e.tab = t, e.kind # "announce", h # NoHost => e.kind = "updated",
         UNCHANGED <<fields, task, mixed, astray>>,
         click' = click \/ (click.tab = t /\ click' = [click EXCEPT !.late = TRUE]),
         click.tab = t => click'.late
  PROVE  HomeInv'
<1>0. page'[t] = Blank(h) /\ \A u \in Tabs \ {t} : page'[u] = page[u]
  BY DEF ToolTypes
<1>1. \A u \in Tabs \ {t} : (TabHome(u) => TabHome(u)') /\ (Truthful(u) => Truthful(u)')
  BY <1>0, PostTab DEF Sent
<1>2. ASSUME h # NoHost PROVE TabHome(t)'
  <2>1. /\ Len(inbox) + 1 \in DOMAIN inbox' /\ inbox'[Len(inbox) + 1] = e
        /\ \A i \in DOMAIN inbox' : i < Len(inbox) + 1 \/ i = Len(inbox) + 1
        /\ 0 < Len(inbox) + 1
    BY Appended DEF ToolTypes, Posts
  <2>2. \A i : i < Len(inbox) + 1 => Coming(t, i)'
    BY <1>2, <2>1 DEF Coming
  <2>3. Leaving(t)'
    BY <1>2, <2>1 DEF Leaving
  <2>4. \A i \in DOMAIN inbox' : Posted(t, i)' => i < Len(inbox) + 1
    BY <2>1 DEF Posted
  <2> QED  BY <2>1, <2>2, <2>3, <2>4 DEF TabHome
<1>3. page'[t].host = h
  BY <1>0 DEF Blank
<1>4. OneWriter => OneWriter'
  BY DEF OneWriter
<1>5. ClickHome => ClickHome'
  <2> SUFFICES ASSUME ClickHome, click'.at # "idle", ~click'.late PROVE ClickHome'
    BY DEF ClickHome
  <2>1. click.tab # t /\ click' = click /\ click.tab \in Tabs
    BY DEF ToolTypes
  <2> QED  BY <1>0, <1>1, <2>1 DEF ClickHome
<1> QED  BY <1>1, <1>2, <1>3, <1>4, <1>5 DEF HomeInv

\* A handler starts on the first event.
LEMMA StartHome ==
  ASSUME ToolTypes, HomeInv, NEW s \in Slots, Start(s) PROVE HomeInv'
<1>1. /\ inbox # <<>> /\ inbox' = Tail(inbox) /\ Head(inbox) \in Events /\ EventFits(Head(inbox))
      /\ UNCHANGED <<page, fields, click, astray>>
      /\ mixed' = (mixed \/ \E u \in Slots : task[u].at \in Updating)
  BY StartStep
<1>2. PICK r \in Tasks : /\ TaskFits(r) /\ task' = [task EXCEPT ![s] = r] /\ r.at = FirstAwait(Head(inbox).kind)
                         /\ Same(r, Head(inbox)) /\ r.host = Head(inbox).host
  BY StartStep
<1>3. /\ Head(inbox) = inbox[1] /\ 1 \in DOMAIN inbox
      /\ \A i \in DOMAIN inbox' : i + 1 \in DOMAIN inbox /\ i \in Nat /\ i > 0 /\ inbox'[i] = inbox[i + 1]
      /\ \A j \in DOMAIN inbox : j \in Nat /\ (j # 1 => j - 1 \in DOMAIN inbox')
  BY <1>1, Taken DEF ToolTypes
<1>4. task'[s] = r /\ \A u \in Slots \ {s} : task'[u] = task[u]
  BY <1>2, SlotsHandle DEF ToolTypes
<1> SUFFICES ASSUME ~mixed, \A u \in Slots : task[u].at \notin Updating, OneWriter, ClickHome,
                    \A t \in Tabs : page[t].host # NoHost => TabHome(t)
             PROVE  OneWriter' /\ ClickHome' /\ \A t \in Tabs : page'[t].host # NoHost => TabHome(t)'
  BY <1>1 DEF HomeInv
<1>5. OneWriter'
  <2>1. r.at # "set"
    BY <1>1, <1>2 DEF FirstAwait, Events, Kinds
  <2> QED  BY <1>4, <2>1 DEF OneWriter, Updating
<1> DEFINE e == Head(inbox)
<1>6. ASSUME NEW t \in Tabs, NEW i \in Nat PROVE Coming(t, i + 1) => Coming(t, i)'
  <2> SUFFICES ASSUME NEW j \in DOMAIN inbox, j > i + 1, inbox[j].tab = t, inbox[j].kind = "updated"
               PROVE  Coming(t, i)'
    BY DEF Coming
  <2>1. j - 1 \in DOMAIN inbox' /\ j - 1 > i /\ inbox'[j - 1] = inbox[j]
    <3>1. j \in Nat /\ j # 1 /\ j - 1 \in DOMAIN inbox'
      BY <1>3
    <3>2. inbox'[j - 1] = inbox[(j - 1) + 1]
      BY <1>3, <3>1
    <3> QED  BY <3>1, <3>2
  <2> QED  BY <2>1 DEF Coming
<1>7. ASSUME NEW t \in Tabs, NEW i \in DOMAIN inbox'
      PROVE  i + 1 \in DOMAIN inbox /\ (Posted(t, i)' => Posted(t, i + 1)) /\ inbox'[i] = inbox[i + 1]
  BY <1>3 DEF Posted
<1>8. ASSUME NEW t \in Tabs, NEW u \in Slots, Works(u, t)'
      PROVE  task'[u].host = e.host /\ (Posted(t, 1) \/ e.host = NoHost) /\ e = inbox[1]
  <2>1. u = s /\ e.tab = t /\ r.at \in Updating
    BY <1>2, <1>4, <1>8 DEF Works, Same
  <2>2. e.kind # "repaint"
    BY <1>2, <2>1 DEF FirstAwait, Updating
  <2>3. e.kind \in Kinds
    BY <1>1 DEF Events
  <2>4. e.kind = "announce" \/ e.host = NoHost
    BY <1>1, <2>2, <2>3 DEF EventFits, Kinds
  <2> QED  BY <1>2, <1>3, <1>4, <2>1, <2>4 DEF Posted
<1>9. ASSUME NEW t \in Tabs, TabHome(t) PROVE TabHome(t)'
  <2>1. ASSUME NEW i \in DOMAIN inbox', Posted(t, i)' PROVE Home(t, inbox[i].host)' \/ Coming(t, i)'
    BY <1>1, <1>3, <1>6, <1>7, <1>9, <2>1 DEF TabHome, Home
  <2>2. ASSUME NEW u \in Slots, Works(u, t)' PROVE Home(t, task[u].host)' \/ Coming(t, 0)'
    <3>1. Coming(t, 1) => Coming(t, 0)'
      BY <1>6, 0 + 1 = 1
    <3>2. task'[u].host = NoHost \/ (Posted(t, 1) /\ task'[u].host = inbox[1].host)
      BY <1>8, <2>2
    <3>3. task'[u].host \in {NoHost, page[t].host} \/ Coming(t, 1)
      BY <1>3, <1>9, <3>2 DEF TabHome, Home
    <3> QED  BY <1>1, <3>1, <3>3 DEF Home
  <2>3. Leaving(t) => Leaving(t)'
    <3> SUFFICES ASSUME NEW j \in DOMAIN inbox, inbox[j].tab = t, inbox[j].kind = "updated"
                 PROVE  Leaving(t)'
      BY DEF Leaving
    <3>1. CASE j = 1
      <4>1. r.tab = t /\ r.kind = "updated" /\ r.at = "get"
        BY <1>2, <1>3, <3>1 DEF Same, FirstAwait
      <4> QED  BY <1>4, <4>1 DEF Leaving, Updating
    <3>2. CASE j # 1
      <4>1. j \in Nat /\ j - 1 \in DOMAIN inbox' /\ inbox'[j - 1] = inbox[(j - 1) + 1]
        BY <1>3, <3>2
      <4>2. inbox'[j - 1] = inbox[j]
        BY <4>1
      <4> QED  BY <4>1, <4>2 DEF Leaving
    <3> QED  BY <3>1, <3>2
  <2>4. Home(t, fields[t])' \/ Leaving(t)'
    BY <1>1, <1>9, <2>3 DEF TabHome, Home
  <2> QED  BY <2>1, <2>2, <2>4 DEF TabHome
<1>10. ASSUME NEW t \in Tabs, Truthful(t) PROVE Truthful(t)'
  <2>1. ASSUME NEW i \in DOMAIN inbox', Posted(t, i)' PROVE Home(t, inbox[i].host)'
    BY <1>1, <1>7, <1>10, <2>1 DEF Truthful, Home
  <2>2. ASSUME NEW u \in Slots, Works(u, t)' PROVE Home(t, task[u].host)'
    <3>1. task'[u].host = NoHost \/ (Posted(t, 1) /\ task'[u].host = inbox[1].host)
      BY <1>8, <2>2
    <3> QED  BY <1>1, <1>3, <1>10, <3>1 DEF Truthful, Home
  <2>3. Home(t, fields[t])'
    BY <1>1, <1>10 DEF Truthful, Home
  <2> QED  BY <2>1, <2>2, <2>3 DEF Truthful
<1>11. ClickHome'
  <2>1. click.at # "idle" => click.tab \in Tabs
    BY DEF ToolTypes
  <2> QED  BY <1>1, <1>10, <2>1 DEF ClickHome
<1> QED  BY <1>1, <1>5, <1>9, <1>11

\* A handler goes on.  What it holds for a tab stays its host, and what it stores was.
LEMMA WorkHome ==
  ASSUME ToolTypes, OneWriter, NEW s \in Slots, NEW r \in Tasks, TaskFits(r), Quiet,
         task' = [task EXCEPT ![s] = r],
         Asks(task[s], r) \/ Stores(task[s], r) \/ Colours(task[s], r)
  PROVE  /\ OneWriter'
         /\ \A t \in Tabs : (TabHome(t) => TabHome(t)') /\ (Truthful(t) => Truthful(t)')
<1> DEFINE q == task[s]
<1>0. /\ task'[s] = r /\ \A u \in Slots \ {s} : task'[u] = task[u]
      /\ TaskFits(q) /\ UNCHANGED <<page, inbox, click>>
  BY SlotsHandle DEF ToolTypes, Quiet, pages
<1>1. /\ \A t : Coming(t, 0)' <=> Coming(t, 0)
      /\ \A t, i : Coming(t, i)' <=> Coming(t, i)
      /\ \A t, i : Posted(t, i)' <=> Posted(t, i)
  BY <1>0 DEF Coming, Posted
<1>2. ASSUME Asks(q, r)
      PROVE  /\ r.at \in Updating => q.at \in Updating /\ r.tab = q.tab /\ r.kind = q.kind
             /\ r.at \in Updating => r.host \in {q.host, NoHost, page[q.tab].host}
             /\ q.at \in Updating /\ q.kind = "updated" =>
                  r.at \in Updating /\ r.kind = "updated" /\ r.tab = q.tab
             /\ r.at = "set" => r.copy = fields
             /\ UNCHANGED fields
  BY <1>0, <1>2, IdleTask DEF Asks, Same, Updating, TaskFits
<1>3. ASSUME Colours(q, r) PROVE q.at \notin Updating /\ r.at \notin Updating /\ UNCHANGED fields
  BY <1>3, IdleTask DEF Colours, Painted, Updating
<1>4. ASSUME Stores(q, r)
      PROVE  /\ q.at \in Updating /\ r.at \notin Updating /\ q.tab \in Tabs
             /\ fields' = [fields EXCEPT ![q.tab] = q.host]
             /\ \A u \in Slots \ {s} : task[u].at \notin Updating
  <2>1. q.at = "set" /\ fields' = [q.copy EXCEPT ![q.tab] = q.host] /\ r.at \notin Updating
    BY <1>4, IdleTask DEF Stores, Updating
  <2>2. q.copy = fields /\ \A u \in Slots \ {s} : task[u].at \notin Updating
    BY <2>1 DEF OneWriter, Updating
  <2> QED  BY <1>0, <2>1, <2>2 DEF TaskFits, Updating
<1>5. OneWriter'
  <2>1. \A u \in Slots : task'[u].at \in Updating => task[u].at \in Updating
    BY <1>0, <1>2, <1>3, <1>4
  <2>2. \A u \in Slots : task'[u].at = "set" => task'[u].copy = fields'
    BY <1>0, <1>2, <1>3, <1>4 DEF OneWriter, Updating
  <2> QED  BY <2>1, <2>2 DEF OneWriter
<1>6. ASSUME NEW t \in Tabs, NEW u \in Slots, Works(u, t)'
      PROVE  Works(u, t) /\ (Home(t, task[u].host) => Home(t, task[u].host)')
             /\ (Home(t, task[u].host)' \/ task'[u].host = task[u].host)
  <2>1. CASE u # s
    BY <1>0, <1>6, <2>1 DEF Works, Home
  <2>2. CASE u = s
    <3>1. r.at \in Updating /\ r.tab = t
      BY <1>0, <1>6, <2>2 DEF Works
    <3>2. q.at \in Updating /\ q.tab = t /\ r.host \in {q.host, NoHost, page[t].host}
      BY <1>2, <1>3, <1>4, <3>1
    <3> QED  BY <1>0, <2>2, <3>2 DEF Works, Home
  <2> QED  BY <2>1, <2>2
<1>7. ASSUME NEW t \in Tabs
      PROVE  \/ fields'[t] = fields[t] /\ (Leaving(t) => Leaving(t)')
             \/ Works(s, t) /\ fields'[t] = task[s].host
  <2>1. ASSUME NEW u \in Slots \ {s}, task[u].tab = t, task[u].kind = "updated", task[u].at \in Updating
        PROVE  Leaving(t)'
    BY <1>0, <2>1 DEF Leaving
  <2>2. ASSUME q.tab # t \/ q.kind # "updated" \/ q.at \notin Updating PROVE Leaving(t) => Leaving(t)'
    BY <1>0, <2>1, <2>2 DEF Leaving
  <2>3. CASE Asks(q, r)
    <3>1. CASE q.at \in Updating /\ q.kind = "updated" /\ q.tab = t
      <4>1. r.at \in Updating /\ r.kind = "updated" /\ r.tab = t
        BY <1>2, <2>3, <3>1
      <4> QED  BY <1>0, <1>2, <2>3, <4>1 DEF Leaving
    <3> QED  BY <1>2, <2>2, <2>3, <3>1
  <2>4. CASE Colours(q, r)
    BY <1>3, <2>2, <2>4
  <2>5. CASE Stores(q, r)
    <3>1. CASE q.tab = t
      BY <1>4, <2>5, <3>1 DEF Works, ToolTypes
    <3>2. CASE q.tab # t
      BY <1>4, <2>2, <2>5, <3>2 DEF ToolTypes
    <3> QED  BY <3>1, <3>2
  <2> QED  BY <2>3, <2>4, <2>5
<1>8. ASSUME NEW t \in Tabs, TabHome(t) PROVE TabHome(t)'
  <2>1. ASSUME NEW i \in DOMAIN inbox', Posted(t, i)' PROVE Home(t, inbox[i].host)' \/ Coming(t, i)'
    BY <1>0, <1>1, <1>8, <2>1 DEF TabHome, Home
  <2>2. ASSUME NEW u \in Slots, Works(u, t)' PROVE Home(t, task[u].host)' \/ Coming(t, 0)'
    BY <1>1, <1>6, <1>8, <2>2 DEF TabHome
  <2>3. Home(t, fields[t])' \/ Leaving(t)'
    <3>1. CASE Works(s, t) /\ fields'[t] = task[s].host
      <4>1. Home(t, task[s].host) \/ Coming(t, 0)
        BY <1>8, <3>1 DEF TabHome
      <4>2. Coming(t, 0) => Leaving(t)'
        BY <1>0 DEF Coming, Leaving
      <4> QED  BY <1>0, <3>1, <4>1, <4>2 DEF Home
    <3>2. CASE fields'[t] = fields[t] /\ (Leaving(t) => Leaving(t)')
      BY <1>0, <1>8, <3>2 DEF TabHome, Home
    <3> QED  BY <1>7, <3>1, <3>2
  <2> QED  BY <2>1, <2>2, <2>3 DEF TabHome
<1>9. ASSUME NEW t \in Tabs, Truthful(t) PROVE Truthful(t)'
  <2>1. ASSUME NEW i \in DOMAIN inbox', Posted(t, i)' PROVE Home(t, inbox[i].host)'
    BY <1>0, <1>1, <1>9, <2>1 DEF Truthful, Home
  <2>2. ASSUME NEW u \in Slots, Works(u, t)' PROVE Home(t, task[u].host)'
    BY <1>6, <1>9, <2>2 DEF Truthful
  <2>3. Home(t, fields[t])'
    BY <1>0, <1>7, <1>9 DEF Truthful, Home
  <2> QED  BY <2>1, <2>2, <2>3 DEF Truthful
<1> QED  BY <1>5, <1>8, <1>9

\* With nothing held and nothing under way there is nothing to be wrong.
Untouched ==
    /\ inbox = <<>> /\ (\A s \in Handlers : task[s] = NoTask) /\ click = NoClick
    /\ \A t \in Tabs : fields[t] = NoHost /\ mode[t] = "menu"
LEMMA FreshHome == Untouched /\ ~astray => HomeInv
<1> SUFFICES ASSUME Untouched, ~astray PROVE HomeInv
  OBVIOUS
<1> USE DEF Untouched
<1>1. DOMAIN inbox = {} /\ \A s \in Slots : task[s].at \notin Updating
  BY IdleTask, SlotsHandle DEF Updating
<1>2. OneWriter
  BY <1>1 DEF OneWriter, Updating
<1>3. ClickHome
  BY IdleClick DEF ClickHome
<1>4. \A t \in Tabs : TabHome(t)
  BY <1>1 DEF TabHome, Works, Home
<1> QED  BY <1>2, <1>3, <1>4 DEF HomeInv

LEMMA HomeKept ==
  ASSUME ToolTypes, HomeInv, Acts \/ Unpainted \/ Repaints \/ Restarts PROVE HomeInv'
<1>a. ASSUME Asides PROVE HomeInv'
  BY <1>a DEF Asides, HomeInv, OneWriter, ClickHome, TabHome, Truthful, Home, Coming, Posted,
       Works, Leaving
<1>1. CASE Unpainted
  BY <1>1, <1>a, TurnsAside DEF Unpainted, Asides
<1>2. ASSUME NEW t \in Tabs, PageDoes(t) PROVE HomeInv'
  <2>0. page[t] \in Pages /\ page[t].host \in Hosts \cup {NoHost}
    BY DEF ToolTypes, Pages
  <2>1. PICK p \in Pages, h \in Hosts \cup {NoHost}, present \in BOOLEAN :
            PageActs(t, p) /\ PageMoves(t, p, h, present)
    BY <1>2, PageStep
  <2>2. /\ page' = [page EXCEPT ![t] = p] /\ UNCHANGED <<fields, task, mixed, astray>>
        /\ click' = click \/ (click.tab = t /\ click' = [click EXCEPT !.late = TRUE])
    BY <2>1 DEF PageActs
  <2>3. CASE Leaves(t, p, h)
    <3>1. PICK e \in Events : Posts(e) /\ e.tab = t /\ e.kind # "announce" /\ (h # NoHost => e.kind = "updated")
      BY <2>3, MoveIs DEF Leaves
    <3> QED  BY <2>2, <2>3, <3>1, LeaveHome DEF Leaves
  <2>4. CASE Stays(t, p, present)
    <3>1. p.host = page[t].host /\ click' = click
      BY <2>0, <2>4 DEF Stays, Pages
    <3>2. \A u \in Tabs : page'[u].host = page[u].host
      BY <2>2, <3>1 DEF ToolTypes
    <3>3. PICK e \in Events : Sent(e) /\ (e.kind = "announce" => e.tab \in Tabs /\ e.host = page[e.tab].host)
      <4>1. CASE UNCHANGED inbox
        <5>1. PICK e \in Events : e.kind = "removed"
          BY MoveIs
        <5> QED  BY <4>1, <5>1 DEF Sent
      <4>2. CASE Posts(Event("updated", t, NoHost, FALSE))
        BY <4>2, MoveIs DEF Sent
      <4>3. CASE Posts(Event("announce", t, page[t].host, present))
        BY <2>0, <4>3, AnnounceIs DEF Sent
      <4>4. CASE Posts(Event("seen", t, NoHost, present))
        BY <4>4, SeenIs DEF Sent
      <4> QED  BY <2>4, <4>1, <4>2, <4>3, <4>4 DEF Stays
    <3> QED  BY <2>2, <3>1, <3>2, <3>3, PostHome
  <2> QED  BY <2>1, <2>3, <2>4 DEF PageMoves
<1>3. ASSUME NEW s \in Slots, Start(s) PROVE HomeInv'
  BY <1>3, StartHome
<1>b. ASSUME NEW s \in Handlers \ Slots, Handles(s) PROVE HomeInv'
  BY <1>a, <1>b, PaintsAside
<1>4. ASSUME NEW s \in Slots, Handles(s) PROVE HomeInv'
  <2>1. PICK r \in Tasks : /\ Quiet /\ TaskFits(r) /\ task' = [task EXCEPT ![s] = r]
                           /\ Asks(task[s], r) \/ Stores(task[s], r) \/ Colours(task[s], r)
    BY <1>4, TaskStep, SlotsHandle
  <2>2. UNCHANGED <<page, click, mixed, astray>>
    BY <2>1 DEF Quiet, pages, Asks, Stores, Colours
  <2>3. click.at # "idle" => click.tab \in Tabs
    BY DEF ToolTypes
  <2>4. CASE mixed
    BY <2>2, <2>4 DEF HomeInv
  <2>5. CASE ~mixed
    <3>1. OneWriter /\ ClickHome /\ \A t \in Tabs : page[t].host # NoHost => TabHome(t)
      BY <2>5 DEF HomeInv
    <3>2. OneWriter' /\ \A t \in Tabs : (TabHome(t) => TabHome(t)') /\ (Truthful(t) => Truthful(t)')
      BY <2>1, <3>1, WorkHome
    <3>3. ClickHome'
      BY <2>2, <2>3, <3>1, <3>2 DEF ClickHome
    <3> QED  BY <2>2, <3>1, <3>2, <3>3 DEF HomeInv
  <2> QED  BY <2>4, <2>5
<1>5. CASE Clicking
  <2>1. UNCHANGED <<page, fields, mode, inbox, task, mixed>> /\ (click.at # "idle" => click.tab \in Tabs)
    BY <1>5, ClickStep DEF ToolTypes
  <2>2. \A t \in Tabs : (TabHome(t)' <=> TabHome(t)) /\ (Truthful(t)' <=> Truthful(t))
    BY <2>1 DEF TabHome, Truthful, Home, Coming, Posted, Works, Leaving
  <2>3. OneWriter' <=> OneWriter
    BY <2>1 DEF OneWriter
  <2>4. ASSUME ~mixed PROVE ClickHome' /\ ~astray'
    <3>1. ClickHome /\ ~astray /\ \A t \in Tabs : page[t].host # NoHost => TabHome(t)
      BY <2>4 DEF HomeInv
    <3>2. CASE click' = NoClick /\ UNCHANGED astray
      BY <3>1, <3>2, IdleClick DEF ClickHome
    <3>3. ASSUME NEW t \in Tabs, page[t].host # NoHost, click'.at = "fields", click'.tab = t,
                 click'.late <=> Leaving(t), UNCHANGED astray
          PROVE  ClickHome' /\ ~astray'
      <4>1. TabHome(t) /\ (~Leaving(t) => Truthful(t))
        BY <3>1, <3>3 DEF TabHome, Truthful, Coming, Leaving
      <4> QED  BY <2>1, <2>2, <3>1, <3>3, <4>1 DEF ClickHome
    <3>4. CASE /\ click.at = "fields" /\ click'.at = "account" /\ click'.host = fields[click.tab]
               /\ click'.host # NoHost
               /\ click'.tab = click.tab /\ click'.late = click.late /\ UNCHANGED astray
      BY <2>1, <3>1, <3>4 DEF ClickHome, Truthful, Home
    <3>5. CASE /\ click.at = "account" /\ click'.at = "send" /\ click'.host = click.host
               /\ click'.tab = click.tab /\ click'.late = click.late /\ UNCHANGED astray
      BY <2>1, <3>1, <3>5 DEF ClickHome
    <3>6. CASE /\ click.at = "send" /\ click' = NoClick
               /\ astray' = (astray \/ (~click.late /\ ~mixed /\ page[click.tab].host # click.host))
      BY <3>1, <3>6, IdleClick DEF ClickHome
    <3> QED  BY <1>5, <3>2, <3>3, <3>4, <3>5, <3>6, ClickStep
  <2>5. ASSUME mixed PROVE ~astray'
    <3>1. ~astray
      BY DEF HomeInv
    <3> QED  BY <1>5, <2>5, <3>1, ClickStep
  <2> QED  BY <2>1, <2>2, <2>3, <2>4, <2>5 DEF HomeInv
<1>6. CASE Repaints
  <2>1. PICK e \in Events : Sent(e) /\ e.kind # "announce"
    BY <1>6, RepaintIs DEF Repaints, Sent
  <2> QED  BY <1>6, <2>1, PostHome, TurnsAside DEF Repaints
<1>7. CASE Restarts
  <2>1. Untouched' /\ ~astray'
    BY <1>7 DEF Restarts, Untouched, marks, HomeInv
  <2> QED  BY <2>1, FreshHome, PTL
<1> QED  BY <1>1, <1>2, <1>3, <1>4, <1>b, <1>5, <1>6, <1>7 DEF Acts

ToolInv == ToolTypes /\ Waits /\ HomeInv
LEMMA HomeHolds == Spec => []ToolInv
<1>1. Init => ToolInv
  <2>1. Init => ToolTypes /\ Waits
    BY ToolTypedFirst DEF Init
  <2>2. Init => Untouched /\ ~astray
    BY DEF Init, ToolbarInit, Untouched
  <2> QED  BY <2>1, <2>2, FreshHome DEF ToolInv
<1>2. VaultInv /\ ToolInv /\ [Next]_vars => ToolInv'
  <2>1. VaultTypes /\ ToolTypes /\ Waits /\ [Next]_vars => Acts \/ Unpainted \/ Repaints \/ Restarts
    BY ToolStep
  <2> QED  BY <2>1, ToolTyped, WaitsKept, HomeKept DEF ToolInv, VaultInv
<1> QED  BY <1>1, <1>2, Holds, PTL DEF Spec, ExtensionInv

\* A code goes to a page of the host its account is for, unless the page is on its
\* way out when the button is clicked, or two handlers wrote fields over each other
\* (remember, onUpdated, fillTab).
THEOREM CodesGoHome == Spec => []CodeGoesHome
<1>1. ToolInv => CodeGoesHome
  BY DEF ToolInv, HomeInv, CodeGoesHome
<1> QED  BY <1>1, HomeHolds, PTL

----------------------------------------------------------------------------
\* The fields are those of the pages.  A tab that is not spoken of stays as it is.
LEMMA SaidSame ==
  ASSUME NEW t \in Tabs, page'[t].host = page[t].host, page'[t].said = page[t].said,
         UNCHANGED <<fields, inbox>>, \A s \in Slots : task'[s] = task[s]
  PROVE  TabSaid(t) => TabSaid(t)'
  BY DEF TabSaid, SaidOf, About, Effect, Closes, TaskEffect, Quiescent, Works

LEMMA PostSaid ==
  ASSUME ToolTypes, NEW t \in Tabs, page'[t].host = page[t].host, page'[t].said = page[t].said,
         UNCHANGED fields, \A s \in Slots : task'[s] = task[s], NEW e \in Events, Posts(e), ~About(e, t)
  PROVE  TabSaid(t) => TabSaid(t)'
<1> SUFFICES ASSUME TabSaid(t) PROVE TabSaid(t)'
  OBVIOUS
<1>1. /\ \A i \in DOMAIN inbox : i \in DOMAIN inbox' /\ inbox'[i] = inbox[i]
      /\ \A i \in DOMAIN inbox' : i \in DOMAIN inbox \/ inbox'[i] = e
  BY Appended DEF ToolTypes, Posts
<1>2. ASSUME NEW i \in DOMAIN inbox', About(inbox[i], t)',
             \A j \in DOMAIN inbox' : j > i => ~About(inbox[j], t)'
      PROVE  Effect(inbox[i], t)' = SaidOf(t)' /\ Closes(inbox[i], t)'
  <2>1. i \in DOMAIN inbox /\ inbox'[i] = inbox[i] /\ About(inbox[i], t)
    BY <1>1, <1>2 DEF About
  <2>2. \A j \in DOMAIN inbox : j > i => ~About(inbox[j], t)
    BY <1>1, <1>2 DEF About
  <2>3. Effect(inbox[i], t) = SaidOf(t) /\ Closes(inbox[i], t)
    BY <2>1, <2>2 DEF TabSaid
  <2> QED  BY <2>1, <2>3 DEF Effect, SaidOf, Closes
<1>3. Quiescent(t)' => Quiescent(t)
  BY <1>1 DEF Quiescent, About
<1>4. ASSUME Quiescent(t)', NEW s \in Slots, Works(s, t)'
      PROVE  TaskEffect(task[s], t)' = SaidOf(t)' /\ Closes(task[s], t)'
  <2>1. TaskEffect(task[s], t) = SaidOf(t) /\ Closes(task[s], t)
    BY <1>3, <1>4 DEF TabSaid, Works
  <2> QED  BY <2>1 DEF TaskEffect, Effect, SaidOf, Closes
<1>5. ASSUME Quiescent(t)', \A s \in Slots : ~Works(s, t)' PROVE fields'[t] = SaidOf(t)'
  <2>1. fields[t] = SaidOf(t)
    BY <1>3, <1>5 DEF TabSaid, Works
  <2> QED  BY <2>1 DEF SaidOf
<1> QED  BY <1>2, <1>3, <1>4, <1>5 DEF TabSaid

\* What is said of a tab last is what counts.
LEMMA PostLast ==
  ASSUME ToolTypes, NEW t \in Tabs, NEW e \in Events, Posts(e), About(e, t),
         Effect(e, t)' = SaidOf(t)', Closes(e, t)'
  PROVE  TabSaid(t)'
<1>1. /\ Len(inbox) + 1 \in DOMAIN inbox' /\ inbox'[Len(inbox) + 1] = e
      /\ \A i \in DOMAIN inbox' : i < Len(inbox) + 1 \/ i = Len(inbox) + 1
  BY Appended DEF ToolTypes, Posts
<1>3. ~Quiescent(t)'
  BY <1>1 DEF Quiescent, About
<1>4. ASSUME NEW i \in DOMAIN inbox', About(inbox[i], t)',
             \A j \in DOMAIN inbox' : j > i => ~About(inbox[j], t)'
      PROVE  Effect(inbox[i], t)' = SaidOf(t)' /\ Closes(inbox[i], t)'
  <2>1. i = Len(inbox) + 1 /\ inbox'[i] = e
    BY <1>1, <1>4 DEF About
  <2> QED  BY <2>1 DEF Effect, Closes
<1> QED  BY <1>3, <1>4 DEF TabSaid

\* A handler that starts takes over what its event makes of the field.
LEMMA StartSaid ==
  ASSUME ToolTypes, NEW s \in Slots, Start(s), \A u \in Slots : task[u].at \notin Updating,
         NEW t \in Tabs, TabSaid(t)
  PROVE  TabSaid(t)'
<1>1. /\ inbox # <<>> /\ inbox' = Tail(inbox) /\ Head(inbox) \in Events /\ EventFits(Head(inbox))
      /\ UNCHANGED <<page, fields>>
  BY StartStep
<1> DEFINE e == Head(inbox)
<1>2. PICK r \in Tasks : /\ TaskFits(r) /\ task' = [task EXCEPT ![s] = r] /\ r.at = FirstAwait(e.kind)
                         /\ Same(r, e) /\ r.host = e.host
  BY StartStep
<1>3. /\ e = inbox[1] /\ 1 \in DOMAIN inbox
      /\ \A i \in DOMAIN inbox' : i + 1 \in DOMAIN inbox /\ i \in Nat /\ i > 0 /\ inbox'[i] = inbox[i + 1]
      /\ \A j \in DOMAIN inbox : j \in Nat /\ (j # 1 => j - 1 \in DOMAIN inbox')
  BY <1>1, Taken DEF ToolTypes
<1>4. task'[s] = r /\ \A u \in Slots \ {s} : task'[u] = task[u]
  BY <1>2, SlotsHandle DEF ToolTypes
<1>5. \A j \in DOMAIN inbox : j # 1 => j - 1 \in DOMAIN inbox' /\ inbox'[j - 1] = inbox[j]
  <2> SUFFICES ASSUME NEW j \in DOMAIN inbox, j # 1
               PROVE  j - 1 \in DOMAIN inbox' /\ inbox'[j - 1] = inbox[j]
    OBVIOUS
  <2>1. j \in Nat /\ j - 1 \in DOMAIN inbox' /\ inbox'[j - 1] = inbox[(j - 1) + 1]
    BY <1>3
  <2> QED  BY <2>1
<1>6. ASSUME NEW i \in DOMAIN inbox', About(inbox[i], t)',
             \A j \in DOMAIN inbox' : j > i => ~About(inbox[j], t)'
      PROVE  Effect(inbox[i], t)' = SaidOf(t)' /\ Closes(inbox[i], t)'
  <2>1. i + 1 \in DOMAIN inbox /\ inbox'[i] = inbox[i + 1] /\ About(inbox[i + 1], t)
    BY <1>3, <1>6 DEF About
  <2>2. \A j \in DOMAIN inbox : j > i + 1 => ~About(inbox[j], t)
    <3> SUFFICES ASSUME NEW j \in DOMAIN inbox, j > i + 1 PROVE ~About(inbox[j], t)
      OBVIOUS
    <3>1. j - 1 \in DOMAIN inbox' /\ inbox'[j - 1] = inbox[j] /\ j - 1 > i
      BY <1>3, <1>5
    <3> QED  BY <1>6, <3>1 DEF About
  <2>3. Effect(inbox[i + 1], t) = SaidOf(t) /\ Closes(inbox[i + 1], t)
    BY <2>1, <2>2 DEF TabSaid
  <2> QED  BY <1>1, <2>1, <2>3 DEF Effect, SaidOf, Closes
<1>7. ASSUME Quiescent(t)' PROVE \A j \in DOMAIN inbox : j # 1 => ~About(inbox[j], t)
  BY <1>5, <1>7 DEF Quiescent, About
<1>8. ASSUME Quiescent(t)', About(e, t) PROVE Effect(e, t) = SaidOf(t) /\ Closes(e, t)
  <2>1. \A j \in DOMAIN inbox : j > 1 => ~About(inbox[j], t)
    BY <1>3, <1>7, <1>8
  <2> QED  BY <1>3, <1>8, <2>1 DEF TabSaid
<1>9. ASSUME NEW u \in Slots, Works(u, t)' PROVE u = s /\ About(e, t) /\ r.at \in {"held", "query", "get"}
  <2>1. u = s /\ r.at \in Updating /\ r.tab = t
    BY <1>4, <1>9 DEF Works
  <2> QED  BY <1>1, <1>2, <2>1 DEF About, Same, FirstAwait, Updating, Events, Kinds
<1>10. ASSUME Quiescent(t)', NEW u \in Slots, Works(u, t)'
       PROVE  TaskEffect(task[u], t)' = SaidOf(t)' /\ Closes(task[u], t)'
  <2>1. u = s /\ About(e, t) /\ r.at \in {"held", "query", "get"} /\ task'[u] = r
    BY <1>4, <1>9, <1>10
  <2>2. Effect(e, t) = SaidOf(t) /\ Closes(e, t)
    BY <1>8, <1>10, <2>1
  <2>3. r.kind = e.kind /\ r.present = e.present /\ r.host = e.host
    BY <1>2 DEF Same
  <2>4. r.at = "get" => e.kind \in {"updated", "removed"} /\ e.host = NoHost
    BY <1>1, <1>2 DEF FirstAwait, EventFits, Events, Kinds
  <2>5. TaskEffect(r, t) = Effect(e, t)
    BY <2>1, <2>3, <2>4 DEF TaskEffect, Effect
  <2>6. TaskEffect(task[u], t)' = TaskEffect(r, t) /\ SaidOf(t)' = SaidOf(t)
    BY <1>1, <2>1 DEF TaskEffect, Effect, SaidOf
  <2> QED  BY <1>1, <2>1, <2>2, <2>3, <2>5, <2>6 DEF Closes
<1>11. ASSUME Quiescent(t)', \A u \in Slots : ~Works(u, t)' PROVE fields'[t] = SaidOf(t)'
  <2>1. ~About(e, t)
    <3>1. CASE About(e, t)
      <4>1. r.at \in Updating /\ r.tab = t
        BY <1>1, <1>2, <3>1 DEF About, Same, FirstAwait, Updating, Events, Kinds
      <4> QED  BY <1>4, <1>11, <4>1 DEF Works
    <3> QED  BY <3>1
  <2>2. Quiescent(t) /\ \A u \in Slots : ~Works(u, t)
    BY <1>3, <1>7, <1>11, <2>1 DEF Quiescent, Works
  <2> QED  BY <1>1, <2>2 DEF TabSaid, SaidOf
<1> QED  BY <1>6, <1>10, <1>11 DEF TabSaid

\* A handler that goes on makes of the field what it set out to.
LEMMA WorkSaid ==
  ASSUME ToolTypes, OneWriter, NEW s \in Slots, NEW r \in Tasks, TaskFits(r), Quiet,
         task' = [task EXCEPT ![s] = r],
         Asks(task[s], r) \/ Stores(task[s], r) \/ Colours(task[s], r),
         NEW t \in Tabs, TabSaid(t)
  PROVE  TabSaid(t)'
<1> DEFINE q == task[s]
<1>0. /\ task'[s] = r /\ \A u \in Slots \ {s} : task'[u] = task[u]
      /\ TaskFits(q) /\ UNCHANGED <<page, inbox>>
  BY SlotsHandle DEF ToolTypes, Quiet, pages
<1>1. Quiescent(t)' <=> Quiescent(t)
  BY <1>0 DEF Quiescent, About
<1>2. /\ SaidOf(t)' = SaidOf(t)
      /\ \A u \in Slots \ {s} : 
            TaskEffect(task[u], t)' = TaskEffect(task[u], t) /\ (Closes(task[u], t)' <=> Closes(task[u], t))
      /\ TaskEffect(task[s], t)' = TaskEffect(r, t) /\ (Closes(task[s], t)' <=> Closes(r, t))
  BY <1>0 DEF SaidOf, TaskEffect, Effect, Closes
<1>3. ASSUME NEW i \in DOMAIN inbox', About(inbox[i], t)',
             \A j \in DOMAIN inbox' : j > i => ~About(inbox[j], t)'
      PROVE  Effect(inbox[i], t)' = SaidOf(t)' /\ Closes(inbox[i], t)'
  <2>1. Effect(inbox[i], t) = SaidOf(t) /\ Closes(inbox[i], t)
    BY <1>0, <1>3 DEF TabSaid, About
  <2> QED  BY <1>0, <2>1 DEF Effect, SaidOf, Closes
<1>4. ASSUME Works(s, t)'
      PROVE  Works(s, t) /\ TaskEffect(r, t) = TaskEffect(q, t) /\ (Closes(q, t) => Closes(r, t))
  <2>1. r.at \in Updating /\ r.tab = t
    BY <1>0, <1>4 DEF Works
  <2>2. Asks(q, r) /\ r # NoTask
    BY <2>1, IdleTask DEF Stores, Colours, Painted, Updating
  <2>3. Same(r, q) /\ q.at \in Updating
    BY <2>1, <2>2 DEF Asks, Updating
  <2>4. CASE q.at = "held"
    BY <1>0, <2>1, <2>2, <2>3, <2>4 DEF Asks, TaskFits, TaskEffect, Effect, Same, Works, Closes, Updating
  <2>5. CASE q.at = "query"
    BY <1>0, <2>1, <2>2, <2>3, <2>5 DEF Asks, TaskFits, TaskEffect, Effect, Same, Works, Closes, Updating
  <2>6. CASE q.at \notin {"held", "query"}
    BY <1>0, <2>1, <2>2, <2>3, <2>6 DEF Asks, TaskEffect, Same, Works, Closes, Updating
  <2> QED  BY <2>4, <2>5, <2>6
<1>5. ASSUME Quiescent(t)', NEW u \in Slots, Works(u, t)'
      PROVE  TaskEffect(task[u], t)' = SaidOf(t)' /\ Closes(task[u], t)'
  <2>1. CASE u = s
    <3>1. TaskEffect(q, t) = SaidOf(t) /\ Closes(q, t)
      BY <1>1, <1>4, <1>5, <2>1 DEF TabSaid
    <3> QED  BY <1>2, <1>4, <1>5, <2>1, <3>1
  <2>2. CASE u # s
    <3>1. Works(u, t)
      BY <1>0, <1>5, <2>2 DEF Works
    <3>2. TaskEffect(task[u], t) = SaidOf(t) /\ Closes(task[u], t)
      BY <1>1, <1>5, <3>1 DEF TabSaid
    <3> QED  BY <1>2, <2>2, <3>2
  <2> QED  BY <2>1, <2>2
<1>6. ASSUME Quiescent(t)', \A u \in Slots : ~Works(u, t)' PROVE fields'[t] = SaidOf(t)
  <2>1. \A u \in Slots \ {s} : ~Works(u, t)
    BY <1>0, <1>6 DEF Works
  <2>2. ~(r.at \in Updating /\ r.tab = t)
    BY <1>0, <1>6 DEF Works
  <2>3. CASE Works(s, t)
    <3>1. q.tab = t /\ q.at \in Updating /\ TaskEffect(q, t) = SaidOf(t) /\ Closes(q, t)
      BY <1>1, <1>6, <2>3 DEF TabSaid, Works
    <3>2. CASE Asks(q, r)
      <4>1. \/ q.at = "held" /\ ~q.present /\ fields[t] = NoHost
            \/ q.at = "query" /\ page[t].host = NoHost
        BY <2>2, <3>1, <3>2 DEF Asks, Same, Updating
      <4>2. UNCHANGED fields
        BY <3>2 DEF Asks
      <4>3. q.at # "query"
        BY <1>0, <3>1, <4>1 DEF TaskFits, Closes
      <4> QED  BY <1>0, <3>1, <4>1, <4>2, <4>3 DEF TaskFits, TaskEffect, Effect
    <3>3. CASE Stores(q, r)
      <4>1. q.at = "set" /\ fields' = [fields EXCEPT ![t] = q.host]
        BY <3>1, <3>3 DEF Stores, OneWriter
      <4> QED  BY <3>1, <4>1 DEF TaskEffect, ToolTypes
    <3>4. CASE Colours(q, r)
      BY <3>1, <3>4 DEF Colours, Updating
    <3> QED  BY <3>2, <3>3, <3>4
  <2>4. CASE ~Works(s, t)
    <3>1. fields[t] = SaidOf(t)
      BY <1>1, <1>6, <2>1, <2>4 DEF TabSaid
    <3>2. fields'[t] = fields[t]
      <4>1. CASE Stores(q, r)
        <5>1. q.at = "set" /\ fields' = [fields EXCEPT ![q.tab] = q.host] /\ q.tab # t
          BY <2>4, <4>1 DEF Stores, OneWriter, Works, Updating
        <5> QED  BY <5>1 DEF ToolTypes
      <4>2. CASE Asks(q, r) \/ Colours(q, r)
        BY <4>2 DEF Asks, Colours
      <4> QED  BY <4>1, <4>2
    <3> QED  BY <3>1, <3>2
  <2> QED  BY <2>3, <2>4
<1> QED  BY <1>2, <1>3, <1>5, <1>6 DEF TabSaid

LEMMA FreshSaid == Untouched /\ (\A t \in Tabs : page[t].said = "nothing") => SaidInv
<1> SUFFICES ASSUME Untouched, NEW t \in Tabs, page[t].said = "nothing" PROVE TabSaid(t)
  BY DEF SaidInv
<1>1. DOMAIN inbox = {} /\ \A s \in Slots : task[s].at \notin Updating
  BY IdleTask, SlotsHandle DEF Updating, Untouched
<1> QED  BY <1>1 DEF TabSaid, SaidOf, Works, Untouched

LEMMA SaidKept ==
  ASSUME ToolTypes, HomeInv, SaidInv, Acts \/ Unpainted \/ Repaints \/ Restarts PROVE SaidInv'
<1>a. ASSUME Asides PROVE SaidInv'
  <2>1. \A t \in Tabs : (TabSaid(t) => TabSaid(t)') /\ page'[t].routed = page[t].routed
    BY <1>a, SaidSame DEF Asides
  <2> QED  BY <1>a, <2>1 DEF SaidInv, Asides
<1>1. CASE Unpainted
  BY <1>1, <1>a, TurnsAside DEF Unpainted, Asides
<1>2. ASSUME NEW t \in Tabs, PageDoes(t) PROVE SaidInv'
  <2>0. page[t] \in Pages /\ page[t].host \in Hosts \cup {NoHost}
    BY DEF ToolTypes, Pages
  <2>1. PICK p \in Pages, h \in Hosts \cup {NoHost}, present \in BOOLEAN :
            PageActs(t, p) /\ PageMoves(t, p, h, present)
    BY <1>2, PageStep
  <2>2. /\ UNCHANGED <<fields, task, mixed>> /\ page[t].host # NoHost
        /\ page'[t] = p /\ \A u \in Tabs \ {t} : page'[u] = page[u]
    BY <2>1 DEF PageActs, ToolTypes
  <2>3. ASSUME NEW e \in Events, Posts(e), e.tab = t, ~p.routed => (Effect(e, t)' = SaidOf(t)' /\ Closes(e, t)'),
               e.kind # "repaint"
        PROVE  SaidInv'
    <3>1. \A u \in Tabs \ {t} : TabSaid(u) => TabSaid(u)'
      BY <2>2, <2>3, PostSaid DEF About
    <3>2. ~p.routed => TabSaid(t)'
      BY <2>3, PostLast DEF About
    <3> QED  BY <2>2, <3>1, <3>2 DEF SaidInv
  <2>4. CASE Leaves(t, p, h)
    <3>1. PICK e \in Events : /\ Posts(e) /\ e.tab = t /\ e.kind \in {"updated", "removed"}
                              /\ (h = NoHost => e.kind = "removed")
      BY <2>4, MoveIs DEF Leaves
    <3>2. page'[t].host = h /\ page'[t].said = "nothing"
      BY <2>2, <2>4 DEF Leaves, Blank
    <3>3. Effect(e, t)' = SaidOf(t)' /\ Closes(e, t)'
      BY <3>1, <3>2 DEF Effect, SaidOf, Closes
    <3> QED  BY <2>3, <3>1, <3>3
  <2>5. CASE p = [page[t] EXCEPT !.routed = TRUE] /\ Posts(Event("updated", t, NoHost, FALSE))
    <3>1. p.routed
      BY <2>0, <2>5 DEF Pages
    <3> QED  BY <2>3, <2>5, <3>1, MoveIs
  <2>6. CASE p.host = page[t].host /\ p.said = page[t].said /\ p.routed = page[t].routed /\ UNCHANGED inbox
    <3>1. \A u \in Tabs : (TabSaid(u) => TabSaid(u)') /\ page'[u].routed = page[u].routed
      BY <2>2, <2>6, SaidSame
    <3> QED  BY <2>2, <3>1 DEF SaidInv
  <2>7. CASE /\ p = [page[t] EXCEPT !.said = IF present THEN "present" ELSE "absent"]
             /\ Posts(Event("announce", t, page[t].host, present))
    <3>1. p.host = page[t].host /\ (p.said = "present" <=> present)
      BY <2>0, <2>7 DEF Pages
    <3>2. PICK e \in Events : /\ Posts(e) /\ e.tab = t /\ e.kind = "announce" /\ e.host = page[t].host
                              /\ e.present = present
      BY <2>0, <2>7, AnnounceIs
    <3>3. Effect(e, t)' = SaidOf(t)' /\ Closes(e, t)'
      BY <2>2, <3>1, <3>2 DEF Effect, SaidOf, Closes
    <3> QED  BY <2>3, <3>2, <3>3
  <2>8. CASE /\ p = [page[t] EXCEPT !.routed = FALSE]
             /\ (present <=> page[t].said = "present") /\ Posts(Event("seen", t, NoHost, present))
    <3>1. p.host = page[t].host /\ (p.said = "present" <=> present)
      BY <2>0, <2>8 DEF Pages
    <3>2. PICK e \in Events : Posts(e) /\ e.tab = t /\ e.kind = "seen" /\ e.present = present
      BY <2>8, SeenIs
    <3>3. Effect(e, t)' = SaidOf(t)' /\ Closes(e, t)'
      BY <2>2, <3>1, <3>2 DEF Effect, SaidOf, Closes
    <3> QED  BY <2>3, <3>2, <3>3
  <2> QED  BY <2>1, <2>4, <2>5, <2>6, <2>7, <2>8 DEF PageMoves, Stays
<1>3. ASSUME NEW s \in Slots, Start(s) PROVE SaidInv'
  <2>1. UNCHANGED page /\ mixed' = (mixed \/ \E u \in Slots : task[u].at \in Updating)
    BY <1>3, StartStep
  <2> QED  BY <1>3, <2>1, StartSaid DEF SaidInv
<1>b. ASSUME NEW s \in Handlers \ Slots, Handles(s) PROVE SaidInv'
  BY <1>a, <1>b, PaintsAside
<1>4. ASSUME NEW s \in Slots, Handles(s) PROVE SaidInv'
  <2>1. PICK r \in Tasks : /\ Quiet /\ TaskFits(r) /\ task' = [task EXCEPT ![s] = r]
                           /\ Asks(task[s], r) \/ Stores(task[s], r) \/ Colours(task[s], r)
    BY <1>4, TaskStep, SlotsHandle
  <2>2. UNCHANGED <<page, mixed>>
    BY <2>1 DEF Quiet, pages, Asks, Stores, Colours
  <2>3. ~mixed => OneWriter
    BY DEF HomeInv
  <2> QED  BY <2>1, <2>2, <2>3, WorkSaid DEF SaidInv
<1>5. CASE Clicking
  <2>1. UNCHANGED <<page, fields, inbox, task, mixed>>
    BY <1>5, ClickStep
  <2>2. \A t \in Tabs : TabSaid(t) => TabSaid(t)'
    BY <2>1, SaidSame
  <2> QED  BY <2>1, <2>2 DEF SaidInv
<1>6. CASE Repaints
  <2>1. PICK e \in Events : Posts(e) /\ e.kind = "repaint"
    BY <1>6, RepaintIs DEF Repaints
  <2>2. \A t \in Tabs : TabSaid(t) => TabSaid(t)'
    BY <1>6, <2>1, PostSaid, TurnsAside DEF Repaints, About
  <2> QED  BY <1>6, <2>2 DEF SaidInv, Repaints
<1>7. CASE Restarts
  <2>1. Untouched' /\ (\A t \in Tabs : page[t].said = "nothing")'
    BY <1>7 DEF Restarts, Untouched, Blank
  <2> QED  BY <2>1, FreshSaid, PTL
<1> QED  BY <1>1, <1>2, <1>3, <1>4, <1>b, <1>5, <1>6, <1>7 DEF Acts

\* Once the worker is done, it holds exactly the fields of open pages, each under the
\* host of its page, but for pages that changed their own address and handlers that
\* wrote over each other (announce, remember, onUpdated, onRemoved, describeTab).
THEOREM FieldsFollowPages == Spec => []FieldsMatchPages
<1>1. Init => SaidInv
  <2>1. Init => Untouched /\ (\A t \in Tabs : page[t].said = "nothing")
    BY DEF Init, ToolbarInit, Untouched, Blank
  <2> QED  BY <2>1, FreshSaid
<1>2. ExtensionInv /\ ToolInv /\ SaidInv /\ [Next]_vars => SaidInv'
  BY ToolStep, SaidKept DEF ToolInv, ExtensionInv, VaultInv
<1>3. ExtensionInv /\ SaidInv => FieldsMatchPages
  <2> SUFFICES ASSUME ExtensionInv, SaidInv, AtRest, ~mixed, NEW t \in play.tabs, Announced(t), ~page[t].routed
               PROVE  fields[t] = FieldOf(t)
    BY DEF FieldsMatchPages
  <2>1. t \in Tabs
    BY ToolbarAssumptions DEF ExtensionInv, VaultInv, VaultTypes
  <2>2. DOMAIN inbox = {} /\ \A s \in Slots : task[s].at \notin Updating
    BY SlotsHandle DEF AtRest, Updating
  <2>3. fields[t] = SaidOf(t)
    BY <2>1, <2>2 DEF SaidInv, TabSaid, Quiescent, Works
  <2> QED  BY <2>3 DEF Announced, SaidOf, FieldOf
<1> QED  BY <1>1, <1>2, <1>3, HomeHolds, Holds, PTL DEF Spec

----------------------------------------------------------------------------
\* The buttons are those of the open vault.  A paint that is on its way to a tab stays so, and
\* what a handler knows of a tab it goes on knowing.
LEMMA PaintSame ==
  ASSUME NEW t \in Tabs, TabPainted(t), UNCHANGED <<mode, paints>>,
         fields'[t] = fields[t], Matches(fields[t])' <=> Matches(fields[t]),
         Sure(t) => Sure(t)',
         \A s \in Handlers : task'[s] = task[s] \/ task'[s].at \notin {"account", "mode"}
  PROVE  TabPainted(t)'
<1>1. Right(t)' <=> Right(t)
  BY DEF Right
<1>2. ASSUME NEW s \in Handlers \ behind PROVE Knows(task[s], t)'
  <2>1. CASE task'[s] = task[s]
    <3>1. Knows(task[s], t)
      BY <1>2 DEF TabPainted
    <3> QED  BY <2>1, <3>1 DEF Knows
  <2>2. CASE task'[s].at \notin {"account", "mode"}
    BY <2>2 DEF Knows
  <2> QED  BY <2>1, <2>2
<1> QED  BY <1>1, <1>2 DEF TabPainted, paints

LEMMA SureSame ==
  ASSUME NEW t \in Tabs, fields'[t] = fields[t], Loosely(t) => Loosely(t)', t \in skipped => Sure(t)',
         Matches(fields[t])' <=> Matches(fields[t]),
         fields[t] # NoHost /\ Repainting => Sure(t)',
         \A s \in Handlers : Will(task[s], t) => task'[s] = task[s] \/ Will(task[s], t)' \/ Sure(t)'
  PROVE  Sure(t) => Sure(t)'
<1>1. ASSUME NEW s \in Handlers, Will(task[s], t), task'[s] = task[s] PROVE Will(task[s], t)'
  BY <1>1 DEF Will
<1> QED  BY <1>1 DEF Sure

\* Pages and clicks leave the tasks alone, and the vault adds some.
LEMMA TurnPaint ==
  ASSUME ToolTypes, Turns, NEW t \in Tabs, TabPainted(t), UNCHANGED <<fields, mode, paints>>,
         UNCHANGED open /\ Loosely(t) => Loosely(t)', Repainting => Repainting',
         \/ UNCHANGED open
         \/ Repainting'
  PROVE  TabPainted(t)'
<1>1. ASSUME NEW s \in Handlers PROVE task'[s] = task[s] \/ (task[s].at = "idle" /\ task'[s].at = "keys")
  BY <1>1, KeysTask DEF Turns, ToolTypes
<1>2. CASE fields[t] # NoHost /\ ~UNCHANGED open
  <2>1. Sure(t)'
    BY <1>2 DEF Sure
  <2>2. ASSUME NEW s PROVE Knows(task[s], t)'
    BY <2>1 DEF Knows
  <2> QED  BY <2>1, <2>2 DEF TabPainted
<1>3. CASE fields[t] = NoHost \/ UNCHANGED open
  <2>1. Matches(fields[t])' <=> Matches(fields[t])
    BY <1>3 DEF Matches
  <2>2. fields[t] # NoHost /\ Repainting => Sure(t)'
    BY DEF Sure
  <2>3. t \in skipped => Sure(t)'
    BY DEF Sure, paints
  <2>4. \A s \in Handlers : Will(task[s], t) => task'[s] = task[s]
    BY <1>1 DEF Will, AtButton
  <2>5. Loosely(t) => Loosely(t)'
    BY <1>3 DEF Loosely
  <2>6. Sure(t) => Sure(t)'
    BY <2>1, <2>2, <2>3, <2>4, <2>5, SureSame
  <2> QED  BY <1>1, <2>1, <2>6, PaintSame
<1> QED  BY <1>2, <1>3

LEMMA StartPaint ==
  ASSUME ToolTypes, NEW s \in Slots, Start(s), UNCHANGED <<open, lapsed>>, NEW t \in Tabs, TabPainted(t)
  PROVE  TabPainted(t)'
<1>1. /\ inbox # <<>> /\ inbox' = Tail(inbox) /\ Head(inbox) \in Events
      /\ UNCHANGED <<page, fields, mode, paints>> /\ task[s].at = "idle"
  BY StartStep
<1> DEFINE e == Head(inbox)
<1>2. PICK r \in Tasks : task' = [task EXCEPT ![s] = r] /\ r.at = FirstAwait(e.kind)
  BY StartStep
<1>3. s \in Handlers /\ task'[s] = r /\ \A u \in Handlers \ {s} : task'[u] = task[u]
  BY <1>2, SlotsHandle DEF ToolTypes
<1>4. r.at \in {"held", "query", "get", "keys"} /\ (e.kind = "repaint" => r.at = "keys")
  BY <1>1, <1>2 DEF FirstAwait, Events, Kinds
<1>5. Repainting => Repainting' \/ r.at = "keys"
  <2> SUFFICES ASSUME NEW j \in DOMAIN inbox, inbox[j].kind = "repaint", r.at # "keys" PROVE Repainting'
    BY DEF Repainting
  <2>1. e = inbox[1] /\ j # 1
    BY <1>1, <1>4, Taken DEF ToolTypes
  <2>2. j \in Nat /\ j - 1 \in DOMAIN inbox' /\ inbox'[j - 1] = inbox[(j - 1) + 1]
    BY <1>1, <2>1, Taken DEF ToolTypes
  <2>3. inbox'[j - 1] = inbox[j]
    BY <2>2
  <2> QED  BY <2>2, <2>3 DEF Repainting
<1>6. Matches(fields[t])' <=> Matches(fields[t])
  BY <1>1 DEF Matches
<1>7. fields[t] # NoHost /\ Repainting => Sure(t)'
  <2>1. r.at = "keys" /\ fields[t] # NoHost => Will(task[s], t)'
    BY <1>1, <1>3 DEF Will
  <2> QED  BY <1>1, <1>3, <1>5, <2>1 DEF Sure
<1>8. /\ Loosely(t) => Loosely(t)'
      /\ t \in skipped => Sure(t)'
  BY <1>1 DEF Loosely, Expired, Sure, paints
<1>9. \A u \in Handlers : Will(task[u], t) => task'[u] = task[u]
  BY <1>1, <1>3 DEF Will, AtButton
<1>10. Sure(t) => Sure(t)'
  BY <1>1, <1>6, <1>7, <1>8, <1>9, SureSame
<1> QED  BY <1>1, <1>3, <1>4, <1>6, <1>10, PaintSame

\* A handler goes on.
LEMMA WorkPaint ==
  ASSUME ToolTypes, VaultTypes, Shut, OneWriter, NEW s \in Handlers, UNCHANGED <<open, lapsed>>,
         NEW r \in Tasks, TaskFits(r), Quiet, task' = [task EXCEPT ![s] = r],
         \/ Asks(task[s], r) \/ Stores(task[s], r)
         \/ Colours(task[s], r) /\ Brushes(s),
         NEW t \in Tabs, page[t].host # NoHost, TabPainted(t)
  PROVE  TabPainted(t)'
<1> DEFINE q == task[s]
<1>0. /\ task'[s] = r /\ (\A u \in Handlers \ {s} : task'[u] = task[u])
      /\ TaskFits(q) /\ UNCHANGED <<page, inbox>> /\ q \in Tasks
      /\ fields \in [Tabs -> Hosts \cup {NoHost}]
  BY DEF ToolTypes, Quiet, pages
<1>a. /\ Repainting' <=> Repainting
      /\ Expired(open)' <=> Expired(open)
      /\ \A h : Matches(h)' <=> Matches(h)
  BY <1>0 DEF Repainting, Expired, Matches
<1>s. ASSUME fields'[t] = fields[t], t \in skipped => Sure(t)', Will(q, t) => Will(task[s], t)' \/ Sure(t)'
      PROVE  Sure(t) => Sure(t)'
  <2>1. Loosely(t) => Loosely(t)'
    BY <1>s, <1>a DEF Loosely
  <2>2. fields[t] # NoHost /\ Repainting => Sure(t)'
    BY <1>s, <1>a DEF Sure
  <2>3. Matches(fields[t])' <=> Matches(fields[t])
    BY <1>s, <1>a
  <2> QED  BY <1>0, <1>s, <2>1, <2>2, <2>3, SureSame
<1>n. ASSUME fields'[t] = fields[t], UNCHANGED <<mode, paints>>, r.at \notin {"account", "mode"},
             Will(q, t) => Will(task[s], t)' \/ Sure(t)'
      PROVE  TabPainted(t)'
  <2>1. t \in skipped => Sure(t)'
    BY <1>n DEF Sure, paints
  <2>2. Sure(t) => Sure(t)'
    BY <1>n, <1>s, <2>1
  <2>3. Matches(fields[t])' <=> Matches(fields[t])
    BY <1>n, <1>a
  <2> QED  BY <1>0, <1>n, <2>2, <2>3, PaintSame
<1>v. ASSUME Sure(t)' PROVE TabPainted(t)'
  BY <1>v DEF TabPainted, Knows
<1>1. CASE Asks(q, r)
  <2>1. UNCHANGED <<fields, mode, paints>> /\ q.at \in Updating /\ r.at \in {"get", "paint", "idle", "set"}
    BY <1>1, IdleTask DEF Asks, Updating
  <2>2. ~Will(q, t)
    BY <2>1 DEF Will, Updating, AtButton
  <2> QED  BY <1>n, <2>1, <2>2
<1>2. CASE Stores(q, r)
  <2>1. /\ q.at = "set" /\ UNCHANGED <<mode, paints>> /\ r.at \in {"idle", "paint"}
        /\ q.kind # "removed" => r.at = "paint" /\ r.tab = q.tab
    BY <1>2, IdleTask DEF Stores
  <2>2. s \in Slots
    BY <2>1 DEF ToolTypes, Updating
  <2>3. fields' = [fields EXCEPT ![q.tab] = q.host] /\ q.tab \in Tabs
    BY <1>0, <1>2, <2>1, <2>2 DEF Stores, OneWriter, TaskFits
  <2>4. CASE t = q.tab
    <3>1. r.at = "paint" /\ r.tab = t
      BY <2>1, <2>2, <2>4 DEF Shut, Updating
    <3>2. Will(task[s], t)'
      BY <1>0, <3>1 DEF Will
    <3> QED  BY <1>v, <3>2 DEF Sure
  <2>5. CASE t # q.tab
    <3>1. fields'[t] = fields[t]
      BY <1>0, <2>3, <2>5
    <3>2. ~Will(q, t)
      BY <2>1 DEF Will, AtButton
    <3> QED  BY <1>n, <2>1, <3>1, <3>2
  <2> QED  BY <2>4, <2>5
<1>3. ASSUME q.at = "keys", Painted(r, Holding), UNCHANGED <<fields, mode>>, Brushes(s) PROVE TabPainted(t)'
  <2>1. r.at \in {"paint", "idle"} /\ UNCHANGED paints
    BY <1>3, IdleTask DEF Painted, Brushes
  <2>2. Will(q, t) => r.at = "paint" /\ (r.tab = t \/ t \in r.todo)
    BY <1>3 DEF Will, AtButton, Painted, Holding
  <2>3. Will(q, t) => Will(task[s], t)'
    BY <1>0, <2>2 DEF Will, AtButton
  <2> QED  BY <1>n, <1>3, <2>1, <2>3
\* What the others know of a tab that no button call is made for.
<1>o. ASSUME NEW u \in Handlers \ {s}, u \notin behind', behind \ {s} \subseteq behind', UNCHANGED fields,
             Sure(t) => Sure(t)'
      PROVE  Knows(task[u], t)'
  <2>1. Knows(task[u], t) /\ task'[u] = task[u]
    BY <1>0, <1>o DEF TabPainted
  <2> QED  BY <1>a, <1>o, <2>1 DEF Knows
<1>4. ASSUME q.at = "paint", r.tab = q.tab, r.todo = q.todo, UNCHANGED <<fields, mode>>, Brushes(s),
             r.host = fields[q.tab], ~r.hit, r.at = (IF r.host = NoHost THEN "mode" ELSE "account")
      PROVE  TabPainted(t)'
  <2>1. behind' = behind \ {s} /\ skipped' = skipped \ {q.tab} /\ UNCHANGED overtaken
    BY <1>4 DEF Brushes
  <2>2. CASE t = q.tab
    <3>1. Will(task[s], t)'
      BY <1>0, <1>4, <2>2 DEF Will, Matches
    <3> QED  BY <1>v, <3>1 DEF Sure
  <2>3. CASE t # q.tab
    <3>1. Will(q, t) => Will(task[s], t)'
      BY <1>0, <1>4, <2>3 DEF Will, AtButton
    <3>2. t \in skipped => Sure(t)'
      BY <2>1, <2>3 DEF Sure
    <3>3. Sure(t) => Sure(t)'
      BY <1>4, <1>s, <3>1, <3>2
    <3>4. Knows(task[s], t)'
      BY <1>0, <1>4, <2>3 DEF Knows
    <3>5. \A u \in Handlers \ behind' : Knows(task[u], t)'
      BY <1>4, <1>o, <2>1, <3>3, <3>4
    <3>6. Right(t)' <=> Right(t)
      BY <1>4, <1>a DEF Right
    <3> QED  BY <2>1, <3>3, <3>5, <3>6 DEF TabPainted
  <2> QED  BY <2>2, <2>3
<1>5. ASSUME q.at = "account", r.at = "mode", r.tab = q.tab, r.todo = q.todo, UNCHANGED <<fields, mode>>,
             r.hit <=> AccountFor(q.host) # NoSecret, Brushes(s)
      PROVE  TabPainted(t)'
  <2>0. UNCHANGED paints /\ q.host # NoHost
    BY <1>0, <1>5 DEF Brushes, TaskFits
  <2>1. q.host = fields[t] => (r.hit <=> Matches(fields[t])) \/ Loosely(t)
    BY <1>5, <2>0 DEF AccountFor, Session, Matches, Loosely
  <2>2. t \in skipped => Sure(t)'
    BY <2>0 DEF Sure, paints
  <2>3. Loosely(t) => Sure(t)'
    BY <1>5, <1>a DEF Loosely, Sure
  <2>4. Will(q, t) => Will(task[s], t)' \/ Sure(t)'
    BY <1>0, <1>5, <1>a, <2>1, <2>3 DEF Will, AtButton
  <2>5. Sure(t) => Sure(t)'
    BY <1>5, <1>s, <2>2, <2>4
  <2>6. ASSUME s \notin behind PROVE Knows(task[s], t)'
    <3>1. Knows(q, t)
      BY <2>6 DEF TabPainted
    <3> QED  BY <1>0, <1>5, <1>a, <2>1, <2>3, <2>5, <3>1 DEF Knows
  <2>7. \A u \in Handlers \ behind' : Knows(task[u], t)'
    BY <1>5, <1>o, <2>0, <2>5, <2>6 DEF paints
  <2>8. Right(t)' <=> Right(t)
    BY <1>5, <1>a DEF Right
  <2> QED  BY <2>0, <2>5, <2>7, <2>8 DEF TabPainted, paints
<1>6. ASSUME q.at = "mode", page[q.tab].host # NoHost, Painted(r, q.todo), UNCHANGED fields,
             mode' = [mode EXCEPT ![q.tab] = IF q.hit THEN "fill" ELSE "menu"], Brushes(s)
      PROVE  TabPainted(t)'
  <2>0. /\ r.at \in {"paint", "idle"} /\ q.tab \in Tabs /\ UNCHANGED skipped
        /\ behind' = (behind \ {s}) \cup Behind(s)
        /\ overtaken' = IF s \in behind /\ q.hit # Fills(q.tab)
                        THEN overtaken \cup {q.tab} ELSE overtaken \ {q.tab}
    BY <1>0, <1>6, IdleTask DEF Painted, TaskFits, Brushes
  <2>1. t \in q.todo => Will(task[s], t)'
    BY <1>0, <1>6 DEF Painted, Will, AtButton
  <2>2. t \in skipped => Sure(t)'
    BY <2>0 DEF Sure
  <2>3. Knows(task[s], t)'
    BY <1>0, <2>0 DEF Knows
  <2>4. CASE t # q.tab
    <3>1. Will(q, t) => Will(task[s], t)'
      BY <1>6, <2>1, <2>4 DEF Will, AtButton
    <3>2. Sure(t) => Sure(t)'
      BY <1>6, <1>s, <2>2, <3>1
    <3>3. \A u \in Handlers \ behind' : Knows(task[u], t)'
      BY <1>6, <1>o, <2>0, <2>3, <3>2
    <3>4. (Right(t)' <=> Right(t)) /\ (t \in overtaken => t \in overtaken')
      BY <1>6, <1>a, <2>0, <2>4 DEF Right, ToolTypes
    <3> QED  BY <3>2, <3>3, <3>4 DEF TabPainted
  <2>5. CASE t = q.tab
    <3>1. ASSUME NEW u \in Handlers \ behind', u # s PROVE Knows(task[u], t)'
      <4>1. task'[u] = task[u] /\ u \notin Behind(s)
        BY <1>0, <2>0, <3>1
      <4> QED  BY <2>5, <3>1, <4>1 DEF Behind, Knows
    <3>2. mode'[t] = (IF q.hit THEN "fill" ELSE "menu") /\ q.hit \in BOOLEAN /\ Fills(t) \in BOOLEAN
      BY <1>0, <1>6, <2>5 DEF ToolTypes, Tasks, Fills
    <3>3. ~Loosely(t) => (Fills(t) <=> Matches(fields[t]))
      BY DEF Loosely, Fills, AccountFor, Session, Matches
    <3>4. Right(t)' \/ t \in overtaken' \/ Sure(t)'
      <4>1. CASE q.hit <=> Matches(fields[t])
        BY <1>6, <1>a, <3>2, <4>1 DEF Right
      <4>2. CASE Loosely(t)
        BY <1>6, <1>a, <4>2 DEF Loosely, Sure
      <4>3. CASE ~(q.hit <=> Matches(fields[t])) /\ ~Loosely(t) /\ s \in behind
        BY <2>0, <2>5, <3>2, <3>3, <4>3
      <4>4. CASE ~(q.hit <=> Matches(fields[t])) /\ ~Loosely(t) /\ s \notin behind
        <5>1. Sure(t)
          BY <1>6, <2>5, <4>4 DEF TabPainted, Knows
        <5>2. Will(q, t) => Will(task[s], t)'
          BY <1>6, <2>1, <4>4 DEF Will, AtButton
        <5> QED  BY <1>6, <1>s, <2>2, <5>1, <5>2
      <4> QED  BY <4>1, <4>2, <4>3, <4>4
    <3> QED  BY <2>3, <3>1, <3>4 DEF TabPainted
  <2> QED  BY <2>4, <2>5
<1>7. ASSUME q.at = "mode", page[q.tab].host = NoHost, r = NoTask, UNCHANGED <<fields, mode>>, Brushes(s)
      PROVE  TabPainted(t)'
  <2>0. behind' = behind \ {s} /\ skipped' = skipped \cup q.todo /\ UNCHANGED overtaken /\ q.tab # t
    BY <1>7 DEF Brushes
  <2>1. Will(q, t) => Sure(t)'
    BY <1>7, <2>0 DEF Will, AtButton, Sure
  <2>2. t \in skipped => Sure(t)'
    BY <2>0 DEF Sure
  <2>3. Sure(t) => Sure(t)'
    BY <1>7, <1>s, <2>1, <2>2
  <2>4. Knows(task[s], t)'
    BY <1>0, <1>7, IdleTask DEF Knows
  <2>5. \A u \in Handlers \ behind' : Knows(task[u], t)'
    BY <1>7, <1>o, <2>0, <2>3, <2>4
  <2>6. Right(t)' <=> Right(t)
    BY <1>7, <1>a DEF Right
  <2> QED  BY <2>0, <2>3, <2>5, <2>6 DEF TabPainted
<1>8. CASE Colours(q, r) /\ Brushes(s)
  BY <1>3, <1>4, <1>5, <1>6, <1>7, <1>8 DEF Colours
<1> QED  BY <1>1, <1>2, <1>8

LEMMA FreshPaint == Untouched /\ play.tabs \subseteq Tabs => PaintInv
<1> SUFFICES ASSUME Untouched, play.tabs \subseteq Tabs PROVE PaintInv
  OBVIOUS
<1>1. DOMAIN inbox = {} /\ \A s \in Handlers : task[s].at = "idle"
  BY IdleTask DEF Untouched
<1>2. Shut
  BY <1>1, SlotsHandle DEF Shut, Updating
<1>3. ASSUME NEW t \in Tabs PROVE TabPainted(t)
  <2>1. Right(t)
    BY DEF Untouched, Right, Matches
  <2>2. \A s \in Handlers : Knows(task[s], t)
    BY <1>1 DEF Knows
  <2> QED  BY <2>1, <2>2 DEF TabPainted
<1> QED  BY <1>2, <1>3 DEF PaintInv

\* A tab that is closed stays closed.
LEMMA ShutKept ==
  ASSUME ToolTypes, Shut, Acts \/ Unpainted \/ Repaints \/ Restarts
  PROVE  Shut' /\ (\A t \in Tabs : page'[t].host # NoHost => page[t].host # NoHost)
<1> USE DEF Shut
<1>0. \A i \in DOMAIN inbox : inbox[i].kind = "removed" => inbox[i].tab \in Tabs
  BY DEF ToolTypes, EventFits
<1>1. CASE Unpainted \/ Clicking
  <2>1. UNCHANGED <<page, inbox>> /\ \A s \in Slots : task'[s] = task[s]
    BY <1>1, ClickStep, TurnsAside DEF Unpainted
  <2> QED  BY <2>1
<1>2. ASSUME NEW t \in Tabs, PageDoes(t)
      PROVE  Shut' /\ (\A u \in Tabs : page'[u].host # NoHost => page[u].host # NoHost)
  <2>1. PICK p \in Pages, h \in Hosts \cup {NoHost}, present \in BOOLEAN :
            PageActs(t, p) /\ PageMoves(t, p, h, present)
    BY <1>2, PageStep
  <2>2. /\ UNCHANGED task /\ page[t].host # NoHost
        /\ page'[t] = p /\ \A u \in Tabs \ {t} : page'[u] = page[u]
    BY <2>1 DEF PageActs, ToolTypes
  <2>3. page[t].host \in Hosts \cup {NoHost}
    BY DEF ToolTypes, Pages
  <2>4. UNCHANGED inbox \/ \E e \in Events : Posts(e) /\ e.tab = t /\ (e.kind = "removed" => p.host = NoHost)
    <3>1. CASE Leaves(t, p, h)
      <4>1. p.host = h
        BY <3>1 DEF Leaves, Blank
      <4> QED  BY <3>1, <4>1, MoveIs DEF Leaves
    <3>2. CASE Stays(t, p, present)
      BY <2>3, <3>2, MoveIs, SeenIs, AnnounceIs DEF Stays
    <3> QED  BY <2>1, <3>1, <3>2 DEF PageMoves
  <2>5. ASSUME NEW s \in Slots, task[s].at \in Updating, task[s].kind = "removed"
        PROVE  page'[task[s].tab].host = NoHost
    <3>1. task[s].tab \in Tabs
      BY <2>5, SlotsHandle DEF ToolTypes, TaskFits, Updating
    <3> QED  BY <2>2, <2>5, <3>1
  <2>6. ASSUME NEW i \in DOMAIN inbox', inbox'[i].kind = "removed"
        PROVE  page'[inbox'[i].tab].host = NoHost
    <3>1. \A j \in DOMAIN inbox : inbox[j].kind = "removed" => page'[inbox[j].tab].host = NoHost
      BY <1>0, <2>2
    <3>2. CASE UNCHANGED inbox
      BY <2>6, <3>1, <3>2
    <3>3. ASSUME NEW e \in Events, Posts(e), e.tab = t, e.kind = "removed" => p.host = NoHost
          PROVE  page'[inbox'[i].tab].host = NoHost
      <4>1. (i \in DOMAIN inbox /\ inbox'[i] = inbox[i]) \/ inbox'[i] = e
        BY <3>3, Appended DEF ToolTypes, Posts
      <4> QED  BY <2>2, <2>6, <3>1, <3>3, <4>1
    <3> QED  BY <2>4, <3>2, <3>3
  <2>7. \A u \in Tabs : page'[u].host # NoHost => page[u].host # NoHost
    BY <2>2
  <2> QED  BY <2>2, <2>5, <2>6, <2>7
<1>3. ASSUME NEW s \in Slots, Start(s) PROVE Shut' /\ UNCHANGED page
  <2>1. /\ inbox # <<>> /\ inbox' = Tail(inbox) /\ Head(inbox) \in Events /\ UNCHANGED page
    BY <1>3, StartStep
  <2>2. PICK r \in Tasks : task' = [task EXCEPT ![s] = r] /\ Same(r, Head(inbox))
    BY <1>3, StartStep
  <2>3. /\ Head(inbox) = inbox[1] /\ 1 \in DOMAIN inbox
        /\ \A i \in DOMAIN inbox' : i + 1 \in DOMAIN inbox /\ inbox'[i] = inbox[i + 1]
    BY <2>1, Taken DEF ToolTypes
  <2>4. task'[s] = r /\ \A u \in Slots \ {s} : task'[u] = task[u]
    BY <2>2, SlotsHandle DEF ToolTypes
  <2> QED  BY <2>1, <2>2, <2>3, <2>4 DEF Same
<1>7. ASSUME NEW s \in Handlers \ Slots, Handles(s) PROVE Shut' /\ UNCHANGED page
  BY <1>7, PaintsAside DEF Asides
<1>4. ASSUME NEW s \in Slots, Handles(s) PROVE Shut' /\ UNCHANGED page
  <2>1. PICK r \in Tasks : /\ Quiet /\ TaskFits(r) /\ task' = [task EXCEPT ![s] = r]
                           /\ Asks(task[s], r) \/ Stores(task[s], r) \/ Colours(task[s], r)
    BY <1>4, TaskStep, SlotsHandle
  <2>2. /\ UNCHANGED <<page, inbox>> /\ task'[s] = r /\ \A u \in Slots \ {s} : task'[u] = task[u]
    BY <2>1, SlotsHandle DEF Quiet, pages, ToolTypes
  <2>3. r.at \in Updating => task[s].at \in Updating /\ Same(r, task[s])
    BY <2>1, IdleTask DEF Asks, Stores, Colours, Painted, Updating
  <2> QED  BY <2>2, <2>3 DEF Same
<1>5. CASE Repaints
  <2>1. PICK e \in Events : Posts(e) /\ e.kind = "repaint"
    BY <1>5, RepaintIs DEF Repaints
  <2>2. UNCHANGED page /\ \A s \in Slots : task'[s] = task[s]
    BY <1>5, TurnsAside DEF Repaints
  <2>3. \A i \in DOMAIN inbox' : (i \in DOMAIN inbox /\ inbox'[i] = inbox[i]) \/ inbox'[i] = e
    BY <2>1, Appended DEF ToolTypes, Posts
  <2> QED  BY <2>1, <2>2, <2>3
<1>6. CASE Restarts
  <2>1. DOMAIN inbox' = {} /\ (\A s \in Slots : task'[s].at \notin Updating)
        /\ \A t \in Tabs : page'[t].host = NoHost
    BY <1>6, IdleTask, SlotsHandle DEF Restarts, Updating, Blank
  <2> QED  BY <2>1
<1> QED  BY <1>1, <1>2, <1>3, <1>4, <1>7, <1>5, <1>6 DEF Acts

LEMMA PaintKept == ASSUME ToolInv, VaultTypes, PaintInv, [Next]_vars PROVE PaintInv'
<1> USE DEF ToolInv
<1>1. /\ UNCHANGED play /\ (lapsed' = lapsed \/ lapsed' = lapsed + 1)
      /\ \/ Acts /\ UNCHANGED <<open, lapsed>>
         \/ Unpainted /\ (open' = open \/ play.tabs = {})
         \/ Repaints
         \/ Restarts
  BY ToolStep
<1>2. Shut' /\ (\A t \in Tabs : page'[t].host # NoHost => page[t].host # NoHost)
  BY <1>1, ShutKept DEF PaintInv
<1>3. play.tabs \subseteq Tabs /\ lapsed \in Nat /\ open.until \in Nat
  BY ToolbarAssumptions DEF VaultTypes, OpenVaults
<1>4. CASE Restarts
  <2>1. Untouched' /\ (play.tabs \subseteq Tabs)'
    BY <1>1, <1>3, <1>4 DEF Restarts, Untouched
  <2> QED  BY <2>1, FreshPaint, PTL
<1> SUFFICES ASSUME ~Restarts, ~mixed', NEW t \in play.tabs, page'[t].host # NoHost
             PROVE  TabPainted(t)'
  BY <1>1, <1>2, <1>4 DEF PaintInv
<1>5. mixed => mixed'
  <2>1. ASSUME NEW s \in Handlers, Handles(s) PROVE UNCHANGED mixed
    BY <2>1, TaskStep DEF Asks, Stores, Colours
  <2>2. ASSUME NEW s \in Slots, Start(s) PROVE mixed => mixed'
    BY <2>2 DEF Start
  <2>3. ASSUME NEW u \in Tabs, PageDoes(u) PROVE UNCHANGED mixed
    BY <2>3, PageStep DEF PageActs
  <2> QED  BY <1>1, <2>1, <2>2, <2>3, ClickStep DEF Acts, Unpainted, Repaints
<1>6. t \in Tabs /\ page[t].host # NoHost /\ TabPainted(t) /\ OneWriter /\ Shut
  BY <1>2, <1>3, <1>5 DEF PaintInv, HomeInv
<1>7. ASSUME UNCHANGED open PROVE Loosely(t) /\ fields'[t] = fields[t] => Loosely(t)'
  BY <1>1, <1>3, <1>7 DEF Loosely, Expired
<1>8. CASE Unpainted /\ (open' = open \/ play.tabs = {})
  <2>1. UNCHANGED open /\ (Repainting => Repainting')
    BY <1>8 DEF Unpainted, Repainting
  <2> QED  BY <1>6, <1>7, <1>8, <2>1, TurnPaint DEF Unpainted
<1>9. CASE Repaints
  <2>1. PICK e \in Events : Posts(e) /\ e.kind = "repaint"
    BY <1>9, RepaintIs DEF Repaints
  <2>2. Repainting'
    BY <2>1, Appended DEF Posts, ToolTypes, Repainting
  <2> QED  BY <1>6, <1>7, <1>9, <2>2, TurnPaint DEF Repaints
<1>10. ASSUME NEW u \in Tabs, UNCHANGED <<open, lapsed>>, PageDoes(u) PROVE TabPainted(t)'
  <2>1. PICK p \in Pages, h \in Hosts \cup {NoHost}, present \in BOOLEAN :
            PageActs(u, p) /\ PageMoves(u, p, h, present)
    BY <1>10, PageStep
  <2>2. UNCHANGED inbox \/ \E e \in Events : Posts(e)
    <3>1. page[u].host \in Hosts \cup {NoHost}
      BY DEF ToolTypes, Pages
    <3> QED  BY <2>1, <3>1, MoveIs, SeenIs, AnnounceIs DEF PageMoves, Leaves, Stays
  <2>3. Repainting => Repainting'
    BY <2>2, Appended DEF Posts, ToolTypes, Repainting
  <2>4. UNCHANGED <<fields, mode, task, paints>>
    BY <2>1 DEF PageActs
  <2> QED  BY <1>6, <1>7, <1>10, <2>3, <2>4, TurnPaint DEF Turns
<1>11. ASSUME NEW u \in Slots, Start(u), UNCHANGED <<open, lapsed>> PROVE TabPainted(t)'
  BY <1>6, <1>11, StartPaint
<1>12. ASSUME NEW u \in Handlers, UNCHANGED <<open, lapsed>>, Handles(u) PROVE TabPainted(t)'
  <2>1. PICK r \in Tasks : /\ Quiet /\ TaskFits(r) /\ task' = [task EXCEPT ![u] = r]
                           /\ \/ Asks(task[u], r) \/ Stores(task[u], r)
                              \/ Colours(task[u], r) /\ Brushes(u)
    BY <1>12, TaskStep
  <2> QED  BY <1>6, <1>12, <2>1, WorkPaint
<1>13. ASSUME Clicking, UNCHANGED <<open, lapsed>> PROVE TabPainted(t)'
  <2>1. UNCHANGED <<fields, mode, inbox, task, paints>> /\ (Repainting => Repainting')
    BY <1>13, ClickStep DEF Repainting
  <2> QED  BY <1>6, <1>7, <1>13, <2>1, TurnPaint DEF Turns
<1> QED  BY <1>1, <1>8, <1>9, <1>10, <1>11, <1>12, <1>13 DEF Acts

\* A button fills exactly when the tab's field has an account in the open vault, once the
\* worker is done, however many handlers, calls and timers painted at once: unless one that
\* read the tab before another painted it wrote its button last, or one that was to come to
\* the tab ended at a tab that was gone (paint, paintAll, the change of open).
THEOREM ButtonsFollowVault == Spec => []ButtonsMatchVault
<1>1. Init => PaintInv
  <2>1. Init => Untouched /\ play.tabs \subseteq Tabs
    BY ToolbarAssumptions DEF Init, VaultInit, ToolbarInit, Untouched
  <2> QED  BY <2>1, FreshPaint
<1>2. ExtensionInv /\ ToolInv /\ PaintInv /\ [Next]_vars => PaintInv'
  BY PaintKept DEF ExtensionInv, VaultInv
<1>3. PaintInv => ButtonsMatchVault
  <2> SUFFICES ASSUME PaintInv, AtRest, ~mixed, ~Expired(open),
                      NEW t \in play.tabs, page[t].host # NoHost, t \notin overtaken \cup skipped
               PROVE  (mode[t] = "fill") = (fields[t] # NoHost /\ open.accounts[fields[t]] # NoSecret)
    BY DEF ButtonsMatchVault
  <2>1. ~Repainting /\ \A s \in Handlers : task[s].at = "idle"
    BY DEF AtRest, Repainting
  <2>2. ~Sure(t)
    BY <2>1 DEF Sure, Will, AtButton, Loosely
  <2>3. Right(t)
    BY <2>2 DEF PaintInv, TabPainted
  <2> QED  BY <2>3 DEF Right, Matches
<1> QED  BY <1>1, <1>2, <1>3, HomeHolds, Holds, PTL DEF Spec

----------------------------------------------------------------------------
\* The requests of the MCP server.  A request that is open holds the key of its own identity
\* until it is closed, and a host is checked against the record that was read with it.
Requests == [at : {"free", "arrived", "admitted", "reading", "opening", "sent", "answered"},
             agent : Agents \cup {NoSeed}, tool : Tools, closed : BOOLEAN, meta : Contents,
             host : Servers \cup {NoSeed}]
Records == [{a.secret : a \in Agents} -> Contents]

RequestFits(r) ==
    /\ r.at # "free" => r.agent \in Agents
    /\ r.at = "sent" => r.tool = "http"
    /\ r.at = "opening" /\ r.tool = "http" => r.host \in r.meta.allow

RequestInv ==
    /\ scene \in Scenes /\ record \in Records
    /\ request \in [Asked -> Requests] /\ \A q \in Asked : RequestFits(request[q])
    /\ Fallback \in scalars
    /\ SentWhereAllowed /\ KeysWiped

LEMMA FreeFits == Free \in Requests /\ RequestFits(Free) /\ Free.at = "free" /\ Free.closed = FALSE
  BY McpAssumptions DEF Free, Requests, RequestFits, Tools

\* What becomes of a request that is done.
LEMMA EndedFits ==
  ASSUME NEW r \in Requests, r.agent \in Agents
  PROVE  /\ Ended(r) \in Requests /\ RequestFits(Ended(r))
         /\ Ended(r).at \in {"free", "answered"}
         /\ ~r.closed => Ended(r).at # "free" /\ ~Ended(r).closed
<1> DEFINE e == [Free EXCEPT !.at = "answered", !.agent = r.agent]
<1>1. e \in Requests /\ e.at = "answered" /\ e.agent = r.agent /\ e.closed = FALSE
  BY McpAssumptions DEF Free, Requests, Tools
<1>2. Ended(r) = IF r.closed THEN Free ELSE e
  BY DEF Ended
<1>3. r.closed \in BOOLEAN
  BY DEF Requests
<1> HIDE DEF e
<1> QED  BY <1>1, <1>2, <1>3, FreeFits DEF RequestFits

\* One request goes on; its key is wiped if it is closed or free again.
LEMMA PutRequest ==
  ASSUME RequestInv, NEW q \in Asked, NEW r \in Requests, RequestFits(r),
         request' = [request EXCEPT ![q] = r],
         scene' = scene, record' \in Records, Fallback \in scalars',
         scalars' \subseteq scalars \cup {q}, q \in scalars' => r.at # "free" /\ ~r.closed,
         sent' = sent \/ SentWhereAllowed', starved' = starved \/ ~starved'
  PROVE  RequestInv'
<1>1. /\ request' \in [Asked -> Requests] /\ request'[q] = r /\ \A p \in Asked \ {q} : request'[p] = request[p]
  BY DEF RequestInv
<1>2. \A p \in Asked : RequestFits(request'[p])
  BY <1>1 DEF RequestInv
<1>3. KeysWiped'
  BY <1>1 DEF RequestInv, KeysWiped
<1>4. SentWhereAllowed'
  BY DEF RequestInv, SentWhereAllowed
<1> QED  BY <1>1, <1>2, <1>3, <1>4 DEF RequestInv, RequestFits

LEMMA RequestInitInv == McpInit => RequestInv
<1> SUFFICES ASSUME McpInit PROVE RequestInv
  OBVIOUS
<1>1. record \in Records /\ request \in [Asked -> Requests] /\ \A q \in Asked : request[q] = Free
  BY FreeFits, McpAssumptions DEF McpInit, Records
<1>2. Asked \cap scalars = {}
  BY McpAssumptions DEF McpInit
<1> QED  BY <1>1, <1>2, FreeFits DEF McpInit, RequestInv, SentWhereAllowed, KeysWiped

LEMMA RequestStep == RequestInv /\ [McpNext]_mcpVars => RequestInv'
<1> SUFFICES ASSUME RequestInv, [McpNext]_mcpVars PROVE RequestInv'
  OBVIOUS
<1>1. /\ scene \in Scenes /\ record \in Records /\ request \in [Asked -> Requests] /\ Fallback \in scalars
      /\ \A q \in Asked : RequestFits(request[q]) /\ request[q] \in Requests
      /\ \A q \in Asked \cap scalars : request[q].at # "free" /\ ~request[q].closed
      /\ scene.asked \subseteq Asked /\ Fallback \notin Asked /\ scene.agents \subseteq Agents /\ scene.tools \subseteq Tools
  BY McpAssumptions DEF RequestInv, KeysWiped
<1>2. ASSUME NEW q \in scene.asked, NEW a \in Agents, NEW tool \in Tools, Arrive(q, a, tool) PROVE RequestInv'
  <2>1. /\ UNCHANGED <<scene, record, sent, starved>> /\ request[q].at = "free"
        /\ \/ UNCHANGED <<request, scalars>>
           \/ /\ request' = [request EXCEPT ![q] = [Free EXCEPT !.at = "arrived", !.agent = a, !.tool = tool]]
              /\ scalars' = scalars \cup (IF a.seed = NoSeed THEN {} ELSE {q})
    BY <1>2 DEF Arrive
  <2>2. CASE UNCHANGED <<request, scalars>>
    BY <2>1, <2>2 DEF RequestInv, SentWhereAllowed, KeysWiped, RequestFits
  <2>3. CASE /\ request' = [request EXCEPT ![q] = [Free EXCEPT !.at = "arrived", !.agent = a, !.tool = tool]]
             /\ scalars' = scalars \cup (IF a.seed = NoSeed THEN {} ELSE {q})
    <3> DEFINE r == [Free EXCEPT !.at = "arrived", !.agent = a, !.tool = tool]
    <3>1. r \in Requests /\ r.at = "arrived" /\ r.agent = a /\ r.closed = FALSE
      BY McpAssumptions DEF Free, Requests
    <3>2. request' = [request EXCEPT ![q] = r]
      BY <2>3
    <3> HIDE DEF r
    <3>3. RequestFits(r)
      BY <3>1 DEF RequestFits
    <3> QED  BY <1>1, <2>1, <2>3, <3>1, <3>2, <3>3, PutRequest
  <2> QED  BY <2>1, <2>2, <2>3
<1>3. ASSUME NEW q \in scene.asked, Admit(q) PROVE RequestInv'
  <2>1. UNCHANGED <<scene, record, sent, starved>> /\ request[q].at = "arrived" /\ q \in Asked
    BY <1>1, <1>3 DEF Admit, tallies
  <2>2. CASE Wipe(q) /\ request' = [request EXCEPT ![q] = Free]
    BY <1>1, <2>1, <2>2, FreeFits, PutRequest DEF Wipe
  <2>3. CASE request' = [request EXCEPT ![q].at = "admitted"] /\ scalars' = scalars
    <3> DEFINE r == [request[q] EXCEPT !.at = "admitted"]
    <3>1. r \in Requests /\ r.at = "admitted" /\ r.agent = request[q].agent /\ r.closed = request[q].closed
      BY <1>1, <2>1 DEF Requests
    <3>2. request' = [request EXCEPT ![q] = r]
      BY <1>1, <2>1, <2>3
    <3> HIDE DEF r
    <3>3. RequestFits(r)
      BY <1>1, <2>1, <3>1 DEF RequestFits
    <3> QED  BY <1>1, <2>1, <2>3, <3>1, <3>2, <3>3, PutRequest
  <2> QED  BY <1>3, <2>2, <2>3 DEF Admit
<1>4. ASSUME NEW q \in scene.asked, Begin(q) PROVE RequestInv'
  <2>1. UNCHANGED <<scene, record, sent, starved, scalars>> /\ request[q].at = "admitted" /\ q \in Asked
    BY <1>1, <1>4 DEF Begin, tallies
  <2> DEFINE r == [request[q] EXCEPT !.at = "reading"]
  <2>2. r \in Requests /\ r.at = "reading" /\ r.agent = request[q].agent /\ r.closed = request[q].closed
    BY <1>1, <2>1 DEF Requests
  <2>3. request' = [request EXCEPT ![q] = r] \/ request' = [request EXCEPT ![q] = Ended(request[q])]
    BY <1>1, <1>4, <2>1 DEF Begin
  <2> HIDE DEF r
  <2>4. RequestFits(r) /\ request[q].agent \in Agents
    BY <1>1, <2>1, <2>2 DEF RequestFits
  <2>5. CASE request' = [request EXCEPT ![q] = r]
    BY <1>1, <2>1, <2>2, <2>4, <2>5, PutRequest
  <2>6. CASE request' = [request EXCEPT ![q] = Ended(request[q])]
    <3>1. PICK e : e = Ended(request[q])
      OBVIOUS
    <3>2. e \in Requests /\ RequestFits(e) /\ (~request[q].closed => e.at # "free" /\ ~e.closed)
      BY <1>1, <2>1, <2>4, <3>1, EndedFits
    <3> QED  BY <1>1, <2>1, <2>6, <3>1, <3>2, PutRequest
  <2> QED  BY <2>3, <2>5, <2>6
<1>5. ASSUME NEW q \in scene.asked, NEW host \in Servers, ReadMeta(q, host) PROVE RequestInv'
  <2>1. UNCHANGED <<scene, record, sent, starved, scalars>> /\ request[q].at = "reading" /\ q \in Asked
    BY <1>1, <1>5 DEF ReadMeta, tallies, history
  <2>2. request[q] \in Requests /\ request[q].agent \in Agents
    BY <1>1, <2>1 DEF RequestFits
  <2> DEFINE meta == record[request[q].agent.secret]
             r == [request[q] EXCEPT !.at = "opening", !.meta = meta, !.host = host]
  <2>3. meta \in Contents
    BY <1>1, <2>2 DEF Records
  <2>4. /\ r \in Requests /\ r.at = "opening" /\ r.agent = request[q].agent /\ r.closed = request[q].closed
        /\ r.meta = meta /\ r.host = host /\ r.tool = request[q].tool
    BY <2>2, <2>3 DEF Requests
  <2>5. \/ request' = [request EXCEPT ![q] = r] /\ (r.tool = "http" => host \in meta.allow)
        \/ request' = [request EXCEPT ![q] = Ended(request[q])]
    <3>1. PICK on \in BOOLEAN : /\ on => (r.tool = "http" => host \in meta.allow)
                                /\ request' = [request EXCEPT ![q] = IF on THEN r ELSE Ended(request[q])]
      <4> DEFINE go == /\ Identity(request[q].agent) \in meta.readers
                       /\ CASE request[q].tool = "http" -> meta.type \notin NeverOverHttp /\ CheckUrl(host, meta.allow)
                            [] request[q].tool = "otp" -> meta.type = "totp"
                            [] request[q].tool = "sign" -> meta.type = "privkey"
      <4>1. request' = [request EXCEPT ![q] = IF go THEN r ELSE Ended(request[q])]
        BY <1>1, <1>5, <2>1 DEF ReadMeta
      <4>2. go => (request[q].tool = "http" => host \in meta.allow)
        BY DEF CheckUrl
      <4>3. r.tool = request[q].tool
        BY <2>4
      <4>4. PICK b \in BOOLEAN : b <=> go
        OBVIOUS
      <4> HIDE DEF go, r, meta
      <4>5. request' = [request EXCEPT ![q] = IF b THEN r ELSE Ended(request[q])]
        BY <4>1, <4>4
      <4> QED  BY <4>2, <4>3, <4>4, <4>5
    <3> QED  BY <3>1
  <2> HIDE DEF r, meta
  <2>6. CASE request' = [request EXCEPT ![q] = r] /\ (r.tool = "http" => host \in meta.allow)
    <3>1. RequestFits(r)
      BY <2>2, <2>4, <2>6 DEF RequestFits
    <3> QED  BY <1>1, <2>1, <2>4, <2>6, <3>1, PutRequest
  <2>7. CASE request' = [request EXCEPT ![q] = Ended(request[q])]
    <3>1. PICK e : e = Ended(request[q])
      OBVIOUS
    <3>2. e \in Requests /\ RequestFits(e) /\ (~request[q].closed => e.at # "free" /\ ~e.closed)
      BY <2>2, <3>1, EndedFits
    <3> QED  BY <1>1, <2>1, <2>7, <3>1, <3>2, PutRequest
  <2> QED  BY <2>5, <2>6, <2>7
<1>6. ASSUME NEW q \in scene.asked, GetSecret(q) PROVE RequestInv'
  <2>1. UNCHANGED <<scene, record, scalars>> /\ ~starved' /\ request[q].at = "opening" /\ q \in Asked
    <3>1. ~starved
      BY DEF RequestInv, KeysWiped
    <3> QED  BY <1>1, <1>6, <3>1 DEF GetSecret, tallies
  <2>2. request[q] \in Requests /\ request[q].agent \in Agents /\ RequestFits(request[q])
    BY <1>1, <2>1 DEF RequestFits
  <2> DEFINE content == record[request[q].agent.secret]
             r == [request[q] EXCEPT !.at = "sent"]
             new == [host |-> request[q].host, content |-> content, torn |-> content # request[q].meta]
  <2>4. /\ r \in Requests /\ r.at = "sent" /\ r.agent = request[q].agent /\ r.closed = request[q].closed
        /\ r.tool = request[q].tool
    BY <2>2 DEF Requests
  <2>5. \/ /\ request' = [request EXCEPT ![q] = r] /\ r.tool = "http" /\ ~content.keylike
           /\ sent' = sent \cup {new}
        \/ request' = [request EXCEPT ![q] = Ended(request[q])] /\ sent' = sent
    BY <1>1, <1>6, <2>1, <2>4 DEF GetSecret, Travels
  <2>6. ASSUME r.tool = "http", ~content.keylike
        PROVE  ~new.content.keylike /\ (new.torn \/ new.host \in new.content.allow)
    BY <2>1, <2>2, <2>4, <2>6 DEF RequestFits
  <2> HIDE DEF r, content, new
  <2>7. CASE /\ request' = [request EXCEPT ![q] = r] /\ r.tool = "http" /\ ~content.keylike
             /\ sent' = sent \cup {new}
    <3>1. RequestFits(r)
      BY <2>2, <2>4, <2>7 DEF RequestFits
    <3>2. SentWhereAllowed'
      BY <2>6, <2>7 DEF RequestInv, SentWhereAllowed
    <3> QED  BY <1>1, <2>1, <2>4, <2>7, <3>1, <3>2, PutRequest
  <2>8. CASE request' = [request EXCEPT ![q] = Ended(request[q])] /\ sent' = sent
    <3>1. PICK e : e = Ended(request[q])
      OBVIOUS
    <3>2. e \in Requests /\ RequestFits(e) /\ (~request[q].closed => e.at # "free" /\ ~e.closed)
      BY <2>2, <3>1, EndedFits
    <3> QED  BY <1>1, <2>1, <2>8, <3>1, <3>2, PutRequest
  <2> QED  BY <2>5, <2>7, <2>8
<1>7. ASSUME NEW q \in scene.asked, Echo(q) \/ Answer(q) PROVE RequestInv'
  <2>1. /\ UNCHANGED <<scene, record, scalars, sent, starved>> /\ request[q].at = "sent" /\ q \in Asked
        /\ request' = [request EXCEPT ![q] = Ended(request[q])]
    BY <1>1, <1>7 DEF Echo, Answer, tallies, history
  <2>2. request[q] \in Requests /\ request[q].agent \in Agents
    BY <1>1, <2>1 DEF RequestFits
  <2>3. PICK e : e = Ended(request[q])
    OBVIOUS
  <2>4. e \in Requests /\ RequestFits(e) /\ (~request[q].closed => e.at # "free" /\ ~e.closed)
    BY <2>2, <2>3, EndedFits
  <2> QED  BY <1>1, <2>1, <2>3, <2>4, PutRequest
<1>8. ASSUME NEW q \in scene.asked, Close(q) PROVE RequestInv'
  <2>1. /\ UNCHANGED <<scene, record, sent, starved>> /\ q \in Asked /\ scalars' = scalars \ {q}
        /\ request[q].at # "free"
    BY <1>1, <1>8 DEF Close, Wipe, tallies, history
  <2>2. CASE request' = [request EXCEPT ![q] = Free]
    BY <1>1, <2>1, <2>2, FreeFits, PutRequest
  <2>3. CASE request' = [request EXCEPT ![q].closed = TRUE]
    <3> DEFINE r == [request[q] EXCEPT !.closed = TRUE]
    <3>1. /\ r \in Requests /\ r.at = request[q].at /\ r.agent = request[q].agent /\ r.tool = request[q].tool
          /\ r.meta = request[q].meta /\ r.host = request[q].host
      BY <1>1, <2>1 DEF Requests
    <3>2. request' = [request EXCEPT ![q] = r]
      BY <1>1, <2>1, <2>3
    <3> HIDE DEF r
    <3>3. RequestFits(r)
      BY <1>1, <2>1, <3>1 DEF RequestFits
    <3> QED  BY <1>1, <2>1, <3>1, <3>2, <3>3, PutRequest
  <2> QED  BY <1>8, <2>2, <2>3 DEF Close
<1>9. ASSUME NEW s \in DOMAIN record, NEW content \in Contents, Store(s, content) PROVE RequestInv'
  <2>1. UNCHANGED <<scene, request, scalars, sent, starved>> /\ record' = [record EXCEPT ![s] = content]
    BY <1>9 DEF Store, history
  <2>2. record' \in Records
    BY <1>1, <2>1 DEF Records
  <2> QED  BY <2>1, <2>2 DEF RequestInv, RequestFits, SentWhereAllowed, KeysWiped
<1>10. CASE TimePasses \/ UNCHANGED mcpVars
  <2>1. UNCHANGED <<scene, record, request, scalars, sent, starved>>
    BY <1>10 DEF TimePasses, mcpVars, tallies, history
  <2> QED  BY <2>1 DEF RequestInv, RequestFits, SentWhereAllowed, KeysWiped
<1> QED  BY <1>2, <1>3, <1>4, <1>5, <1>6, <1>7, <1>8, <1>9, <1>10 DEF McpNext

LEMMA RequestInvHolds == McpSpec => []RequestInv
  BY RequestInitInv, RequestStep, PTL DEF McpSpec

\* A value goes only to a host that its own record allows, and a key goes nowhere.
THEOREM SendsWhereAllowed == McpSpec => []SentWhereAllowed
<1>1. RequestInv => SentWhereAllowed
  BY DEF RequestInv
<1> QED  BY <1>1, RequestInvHolds, PTL

\* The key of a caller is gone when its response is closed, the shared one never is.
THEOREM WipesKeys == McpSpec => []KeysWiped
<1>1. RequestInv => KeysWiped
  BY DEF RequestInv
<1> QED  BY <1>1, RequestInvHolds, PTL

----------------------------------------------------------------------------
\* The maps that forget.  A key is in a map once, the newest keys are kept, and a key that
\* was let through and is gone had as many others come after it as the map holds.
Distinct(map) == \A i, j \in DOMAIN map : map[i].key = map[j].key => i = j

LEMMA EntryIs ==
  ASSUME NEW map, Distinct(map), NEW i \in DOMAIN map
  PROVE  Found(map, map[i].key) /\ Place(map, map[i].key) = i /\ Entry(map, map[i].key) = map[i]
  BY DEF Found, Place, Entry, Distinct

LEMMA PlaceIs ==
  ASSUME NEW map, NEW key, Found(map, key)
  PROVE  Place(map, key) \in DOMAIN map /\ map[Place(map, key)].key = key
  BY DEF Found, Place

\* What is left of a map without a key, and where each entry was.
LEMMA WithoutIs ==
  ASSUME NEW E, NEW map \in Seq(E), Distinct(map), NEW key
  PROVE  LET left == Without(map, key)
         IN  /\ left \in Seq(E)
             /\ Len(left) = IF Found(map, key) THEN Len(map) - 1 ELSE Len(map)
             /\ \E o \in [DOMAIN left -> DOMAIN map] :
                   /\ \A p \in DOMAIN left : left[p] = map[o[p]] /\ map[o[p]].key # key
                   /\ \A p, q \in DOMAIN left : p < q => o[p] < o[q]
                   /\ \A i \in DOMAIN map : map[i].key # key => \E p \in DOMAIN left : o[p] = i
                   /\ ~Found(map, key) => \A p \in DOMAIN left : o[p] = p
<1> DEFINE left == Without(map, key)
           at == Place(map, key)
           n == Len(map)
<1>1. n \in Nat /\ DOMAIN map = 1..n /\ \A i \in 1..n : map[i] \in E
  OBVIOUS
<1>2. CASE ~Found(map, key)
  <2>1. left = map
    BY <1>2 DEF Without
  <2> DEFINE o == [p \in DOMAIN left |-> p]
  <2>2. o \in [DOMAIN left -> DOMAIN map]
    BY <2>1
  <2>3. \A p \in DOMAIN left : left[p] = map[o[p]] /\ map[o[p]].key # key
    BY <1>2, <2>1 DEF Found
  <2>4. \A p, q \in DOMAIN left : p < q => o[p] < o[q]
    OBVIOUS
  <2>5. \A i \in DOMAIN map : \E p \in DOMAIN left : o[p] = i
    BY <2>1
  <2>6. \A p \in DOMAIN left : o[p] = p
    OBVIOUS
  <2> HIDE DEF o, left
  <2>7. left \in Seq(E) /\ Len(left) = Len(map)
    BY <2>1
  <2> QED  BY <1>2, <2>2, <2>3, <2>4, <2>5, <2>6, <2>7 DEF left
<1>3. CASE Found(map, key)
  <2>1. at \in 1..n /\ map[at].key = key
    BY <1>1, <1>3, PlaceIs
  <2> HIDE DEF at
  <2> DEFINE o == [p \in 1..n - 1 |-> IF p < at THEN p ELSE p + 1]
  <2>2. n - 1 \in Nat /\ o \in [1..n - 1 -> 1..n] /\ \A p \in 1..n - 1 : o[p] # at /\ o[p] \in 1..n
    BY <1>1, <2>1
  <2>3. left = [p \in 1..n - 1 |-> map[o[p]]]
    BY <1>3 DEF Without, at
  <2>4. \A p, q \in 1..n - 1 : p < q => o[p] < o[q]
    BY <1>1, <2>1
  <2>5. \A i \in 1..n : i # at => \E p \in 1..n - 1 : o[p] = i
    <3> TAKE i \in 1..n
    <3>1. CASE i < at
      <4>1. i \in 1..n - 1 /\ o[i] = i
        BY <1>1, <2>1, <3>1
      <4> QED  BY <4>1
    <3>2. CASE i > at
      <4>1. i - 1 \in 1..n - 1 /\ o[i - 1] = i
        BY <1>1, <2>1, <3>2
      <4> QED  BY <4>1
    <3> QED  BY <1>1, <2>1, <3>1, <3>2
  <2> HIDE DEF o, left
  <2>6. \A p \in 1..n - 1 : map[o[p]] \in E
    BY <1>1, <2>2
  <2>7. left \in [1..n - 1 -> E]
    BY <2>3, <2>6
  <2>8. left \in Seq(E) /\ Len(left) = n - 1 /\ DOMAIN left = 1..n - 1
    BY <2>2, <2>7
  <2>9. \A p \in 1..n - 1 : map[o[p]].key # key
    BY <1>1, <2>1, <2>2 DEF Distinct
  <2>10. \A p \in 1..n - 1 : left[p] = map[o[p]]
    BY <2>3
  <2>11. \A i \in DOMAIN map : map[i].key # key => \E p \in DOMAIN left : o[p] = i
    BY <1>1, <2>1, <2>5, <2>8
  <2>12. /\ o \in [DOMAIN left -> DOMAIN map]
         /\ \A p \in DOMAIN left : left[p] = map[o[p]] /\ map[o[p]].key # key
         /\ \A p, q \in DOMAIN left : p < q => o[p] < o[q]
    BY <1>1, <2>2, <2>4, <2>8, <2>9, <2>10
  <2>13. left \in Seq(E) /\ Len(left) = IF Found(map, key) THEN Len(map) - 1 ELSE Len(map)
    BY <1>3, <2>8
  <2>14. \E f \in [DOMAIN left -> DOMAIN map] :
            /\ \A p \in DOMAIN left : left[p] = map[f[p]] /\ map[f[p]].key # key
            /\ \A p, q \in DOMAIN left : p < q => f[p] < f[q]
            /\ \A i \in DOMAIN map : map[i].key # key => \E p \in DOMAIN left : f[p] = i
            /\ ~Found(map, key) => \A p \in DOMAIN left : f[p] = p
    BY <1>3, <2>11, <2>12
  <2> QED  BY <2>13, <2>14 DEF left
<1> QED  BY <1>2, <1>3

\* What Keep makes of a map: the entry is the newest, the others stay in their order, and
\* of the others only the oldest may be gone, from a map that is full.
KeptIn(map, entry, new) ==
    /\ Distinct(new) /\ Len(new) \in 1..Capacity /\ new[Len(new)] = entry
    /\ Len(map) = Capacity => Len(new) = Capacity
    /\ \E o \in [1..Len(new) - 1 -> DOMAIN map] :
          /\ \A p \in 1..Len(new) - 1 : new[p] = map[o[p]] /\ map[o[p]].key # entry.key
          /\ \A p, q \in 1..Len(new) - 1 : p < q => o[p] < o[q]
          /\ \A i \in DOMAIN map : map[i].key # entry.key =>
                 \/ \E p \in 1..Len(new) - 1 : o[p] = i
                 \/ i = 1 /\ Len(map) = Capacity /\ ~Found(map, entry.key)

LEMMA KeepIs ==
  ASSUME NEW E, NEW map \in Seq(E), Distinct(map), Len(map) <= Capacity, NEW entry \in E
  PROVE  Keep(map, entry) \in Seq(E) /\ KeptIn(map, entry, Keep(map, entry))
<1> DEFINE key == entry.key
           left == Without(map, key)
           all == Append(left, entry)
           n == Len(map)
<1>1. n \in Nat /\ DOMAIN map = 1..n /\ Capacity \in Nat /\ Capacity > 0
  BY McpAssumptions
<1>2. left \in Seq(E) /\ Len(left) = (IF Found(map, key) THEN n - 1 ELSE n)
  BY WithoutIs
<1>3. PICK f \in [DOMAIN left -> DOMAIN map] :
                   /\ \A p \in DOMAIN left : left[p] = map[f[p]] /\ map[f[p]].key # key
                   /\ \A p, q \in DOMAIN left : p < q => f[p] < f[q]
                   /\ \A i \in DOMAIN map : map[i].key # key => \E p \in DOMAIN left : f[p] = i
                   /\ ~Found(map, key) => \A p \in DOMAIN left : f[p] = p
  BY WithoutIs
<1>4. Keep(map, entry) = IF Len(all) > Capacity THEN Tail(all) ELSE all
  BY DEF Keep, Capped
<1> HIDE DEF left
<1>5. /\ all \in Seq(E) /\ Len(all) = Len(left) + 1 /\ all[Len(left) + 1] = entry
      /\ \A p \in 1..Len(left) : all[p] = left[p]
      /\ Len(left) \in Nat /\ DOMAIN left = 1..Len(left)
  BY <1>2
<1>6. \A i, j \in DOMAIN left : left[i].key = left[j].key => i = j
  <2> SUFFICES ASSUME NEW i \in DOMAIN left, NEW j \in DOMAIN left, left[i].key = left[j].key PROVE i = j
    OBVIOUS
  <2>1. f[i] = f[j]
    BY <1>3 DEF Distinct
  <2>2. i \in Nat /\ j \in Nat /\ f[i] \in Nat
    BY <1>1, <1>3, <1>5
  <2> QED  BY <1>3, <2>1, <2>2
<1> HIDE DEF all
<1>7. Found(map, key) => n > 0
  BY <1>1 DEF Found
<1>10. n \in Nat /\ n <= Capacity /\ Capacity \in Nat /\ Len(left) \in Nat /\ Len(all) = Len(left) + 1
  BY <1>1, <1>5
<1>8. CASE Len(all) <= Capacity
  <2>1. Keep(map, entry) = all
    BY <1>1, <1>4, <1>5, <1>8
  <2>2. Distinct(all)
    <3>1. DOMAIN all = 1..Len(left) + 1
      BY <1>5
    <3>2. \A i \in 1..Len(left) : all[i].key # key
      BY <1>3, <1>5
    <3> QED  BY <1>5, <1>6, <3>1, <3>2 DEF Distinct
  <2>3. Len(all) \in 1..Capacity /\ all[Len(all)] = entry /\ Len(all) - 1 = Len(left)
    BY <1>1, <1>5, <1>8
  <2>4. n = Capacity => Len(all) = Capacity
    BY <1>1, <1>2, <1>5, <1>8
  <2>5. /\ f \in [1..Len(all) - 1 -> DOMAIN map]
        /\ \A p \in 1..Len(all) - 1 : all[p] = map[f[p]] /\ map[f[p]].key # key
        /\ \A p, q \in 1..Len(all) - 1 : p < q => f[p] < f[q]
        /\ \A i \in DOMAIN map : map[i].key # key => \E p \in 1..Len(all) - 1 : f[p] = i
    BY <1>3, <1>5, <2>3
  <2>6. \E o \in [1..Len(all) - 1 -> DOMAIN map] :
          /\ \A p \in 1..Len(all) - 1 : all[p] = map[o[p]] /\ map[o[p]].key # entry.key
          /\ \A p, q \in 1..Len(all) - 1 : p < q => o[p] < o[q]
          /\ \A i \in DOMAIN map : map[i].key # entry.key =>
                 \/ \E p \in 1..Len(all) - 1 : o[p] = i
                 \/ i = 1 /\ Len(map) = Capacity /\ ~Found(map, entry.key)
    BY <2>5, Zenon
  <2>7. KeptIn(map, entry, all)
    BY <2>2, <2>3, <2>4, <2>6 DEF KeptIn
  <2> QED  BY <1>5, <2>1, <2>7
<1>9. CASE Len(all) > Capacity
  <2>1. ~Found(map, key) /\ n = Capacity /\ Len(left) = n
    <3>1. Len(left) # n - 1
      BY <1>9, <1>10
    <3>2. ~Found(map, key) /\ Len(left) = n
      BY <1>2, <3>1
    <3> QED  BY <1>9, <1>10, <3>2
  <2> DEFINE new == Tail(all)
  <2>2. /\ new \in Seq(E) /\ Len(new) = n /\ DOMAIN new = 1..n
        /\ \A p \in 1..n : new[p] = all[p + 1]
    BY <1>1, <1>5, <2>1
  <2>3. Keep(map, entry) = new
    BY <1>4, <1>9
  <2> HIDE DEF new
  <2>4. new[n] = entry /\ \A p \in 1..n - 1 : new[p] = left[p + 1] /\ p + 1 \in DOMAIN left
    <3>1. n \in 1..n /\ new[n] = all[n + 1] /\ all[n + 1] = entry
      BY <1>1, <1>5, <2>1, <2>2
    <3>2. \A p \in 1..n - 1 : p \in 1..n /\ p + 1 \in 1..n /\ new[p] = all[p + 1]
      BY <1>1, <2>2
    <3>3. \A p \in 1..n : all[p] = left[p] /\ p \in DOMAIN left
      BY <1>5, <2>1
    <3> QED  BY <3>1, <3>2, <3>3
  <2>5. Distinct(new)
    <3>1. \A p \in 1..n - 1 : new[p].key # key
      BY <1>3, <2>4
    <3>2. \A p, q \in 1..n - 1 : new[p].key = new[q].key => p = q
      <4> SUFFICES ASSUME NEW p \in 1..n - 1, NEW q \in 1..n - 1, new[p].key = new[q].key PROVE p = q
        OBVIOUS
      <4>1. p + 1 = q + 1
        BY <1>6, <2>4
      <4> QED  BY <1>1, <4>1
    <3>3. new[n].key = key
      BY <2>4
    <3>4. \A p \in 1..n : p = n \/ p \in 1..n - 1
      BY <1>10
    <3> QED  BY <2>2, <3>1, <3>2, <3>3, <3>4 DEF Distinct
  <2> DEFINE o == [p \in 1..n - 1 |-> p + 1]
  <2>6. /\ o \in [1..n - 1 -> DOMAIN map] /\ \A p, q \in 1..n - 1 : p < q => o[p] < o[q]
        /\ \A i \in DOMAIN map : i = 1 \/ \E p \in 1..n - 1 : o[p] = i
    <3>1. \A i \in 1..n : i # 1 => i - 1 \in 1..n - 1 /\ o[i - 1] = i
      BY <1>1
    <3>2. \A i \in DOMAIN map : i = 1 \/ \E p \in 1..n - 1 : o[p] = i
      BY <1>1, <3>1
    <3> QED  BY <1>1, <3>2
  <2>7. \A p \in 1..n - 1 : new[p] = map[o[p]] /\ map[o[p]].key # key
    <3> TAKE p \in 1..n - 1
    <3>1. new[p] = left[p + 1] /\ p + 1 \in DOMAIN left /\ o[p] = p + 1
      BY <2>4
    <3>2. left[p + 1] = map[f[p + 1]] /\ map[f[p + 1]].key # key /\ f[p + 1] = p + 1
      BY <1>3, <2>1, <3>1
    <3> QED  BY <3>1, <3>2
  <2> HIDE DEF o
  <2>8. Len(new) \in 1..Capacity /\ new[Len(new)] = entry /\ Len(new) - 1 = n - 1
    BY <1>1, <2>1, <2>2, <2>4
  <2>9. \E h \in [1..Len(new) - 1 -> DOMAIN map] :
          /\ \A p \in 1..Len(new) - 1 : new[p] = map[h[p]] /\ map[h[p]].key # key
          /\ \A p, q \in 1..Len(new) - 1 : p < q => h[p] < h[q]
          /\ \A i \in DOMAIN map : map[i].key # key =>
                 \/ \E p \in 1..Len(new) - 1 : h[p] = i
                 \/ i = 1 /\ n = Capacity /\ ~Found(map, key)
    <3>1. Len(new) - 1 = n - 1
      BY <2>8
    <3>2. /\ o \in [1..Len(new) - 1 -> DOMAIN map]
          /\ \A p \in 1..Len(new) - 1 : new[p] = map[o[p]] /\ map[o[p]].key # key
          /\ \A p, q \in 1..Len(new) - 1 : p < q => o[p] < o[q]
      BY <2>6, <2>7, <3>1
    <3>3. \A i \in DOMAIN map : i = 1 \/ \E p \in 1..Len(new) - 1 : o[p] = i
      BY <2>6, <3>1
    <3> QED  BY <2>1, <3>2, <3>3, Zenon
  <2> QED  BY <2>1, <2>2, <2>3, <2>5, <2>8, <2>9 DEF KeptIn
<1> QED  BY <1>1, <1>5, <1>8, <1>9

----------------------------------------------------------------------------
\* One budget: its map B, what it let through, S, and its limit.  A newer key of the map was
\* let through since any time an older one was; a key that is gone was followed by all that
\* the map holds.  The map holds the time of each call that counts.
After(S, i) == {S[h].key : h \in i..Len(S)} \ {S[i].key}
Counting(S, k, now) ==
    {i \in DOMAIN S : S[i].key = k /\ now - S[i].at < Minute /\ Cardinality(After(S, i)) < Capacity}

Later(S, i, k) == \E h \in DOMAIN S : h > i /\ S[h].key = k
NewestKept(B, S) ==
    /\ \A p, q \in DOMAIN B : p < q =>
           \A i \in DOMAIN S : S[i].key = B[p].key => Later(S, i, B[q].key)
    /\ \A i \in DOMAIN S : ~Found(B, S[i].key) =>
           Len(B) = Capacity /\ \A p \in DOMAIN B : Later(S, i, B[p].key)

\* Each of the calls C of S has a time of its own among times.
Timed(C, S, times) ==
    \E g \in [C -> DOMAIN times] : /\ \A i \in DOMAIN g : times[g[i]] = S[i].at
                                  /\ \A i, j \in DOMAIN g : g[i] = g[j] => i = j

Tracks(e, S, now) ==
    /\ \A a, b \in DOMAIN e.times : a <= b => e.times[a] <= e.times[b]
    /\ \A a \in DOMAIN e.times : e.times[a] <= now
    /\ Timed(Counting(S, e.key, now), S, e.times)

Passing(S, j) == {i \in 1..j : /\ S[i].key = S[j].key /\ S[j].at - S[i].at < Minute
                               /\ Cardinality({S[h].key : h \in i..j} \ {S[j].key}) < Capacity}

Entries(Ks) == [key : Ks, times : Seq(Nat)]
Through(Ks) == [key : Ks, at : Nat]

BudgetFits(Ks, B, S, now, limit) ==
    /\ B \in Seq(Entries(Ks)) /\ Distinct(B) /\ Len(B) <= Capacity
    /\ S \in Seq(Through(Ks)) /\ \A i \in DOMAIN S : S[i].at <= now
    /\ NewestKept(B, S)
    /\ \A p \in DOMAIN B : Tracks(B[p], S, now)
    /\ \A j \in DOMAIN S : Cardinality(Passing(S, j)) <= limit

\* What Recent is, of a map.
RecentOf(B, key, now) ==
    IF Found(B, key)
    THEN LET times == Entry(B, key).times
             fresh == Cardinality({i \in DOMAIN times : now - times[i] < Minute})
         IN SubSeq(times, Len(times) - fresh + 1, Len(times))
    ELSE <<>>

LEMMA RecentIs == \A m, key : Recent(m, key) = RecentOf(budgets[m], key, clock)
  BY DEF Recent, RecentOf

\* The numbers up to n are n.
LEMMA UpTo ==
  ASSUME NEW n \in Nat
  PROVE  IsFiniteSet(1..n) /\ Cardinality(1..n) = n
<1>1. 1 \in Int /\ n \in Int
  OBVIOUS
<1>2. IsFiniteSet(1..n) /\ Cardinality(1..n) = IF 1 > n THEN 0 ELSE n - 1 + 1
  BY <1>1, FS_Interval
<1> QED  BY <1>2

LEMMA InjectsInto ==
  ASSUME NEW S, NEW T, IsFiniteSet(T), NEW g \in [S -> T], \A x, y \in S : g[x] = g[y] => x = y
  PROVE  IsFiniteSet(S) /\ Cardinality(S) \in Nat /\ Cardinality(T) \in Nat /\ Cardinality(S) <= Cardinality(T)
<1>1. g \in Injection(S, T)
  BY DEF Injection, IsInjective
<1> QED  BY <1>1, FS_Injection, FS_CardinalityType

LEMMA AfterFinite ==
  ASSUME NEW E, NEW S \in Seq(E), NEW i \in DOMAIN S
  PROVE  IsFiniteSet(After(S, i)) /\ Cardinality(After(S, i)) \in Nat
<1> DEFINE I == i..Len(S)
           T == {S[h].key : h \in I}
           f == [h \in I |-> S[h].key]
<1>1. i \in Int /\ Len(S) \in Int
  OBVIOUS
<1>2. IsFiniteSet(I)
  BY <1>1, FS_Interval
<1>3. f \in Surjection(I, T)
  BY DEF Surjection
<1> HIDE DEF f
<1>4. IsFiniteSet(T)
  BY <1>2, <1>3, FS_Surjection
<1>5. After(S, i) \in SUBSET T
  BY DEF After
<1> HIDE DEF T
<1> QED  BY <1>4, <1>5, FS_Subset, FS_CardinalityType

\* A key that the map forgot has no call that counts.
LEMMA ForgottenCountsNot ==
  ASSUME NEW Ks, NEW B, NEW S, NEW now \in Nat, NEW limit, BudgetFits(Ks, B, S, now, limit), NEW k, ~Found(B, k)
  PROVE  Counting(S, k, now) = {}
<1> SUFFICES ASSUME NEW i \in Counting(S, k, now) PROVE FALSE
  OBVIOUS
<1>1. i \in DOMAIN S /\ S[i].key = k /\ Cardinality(After(S, i)) < Capacity
  BY DEF Counting
<1>2. B \in Seq(Entries(Ks)) /\ S \in Seq(Through(Ks)) /\ Distinct(B) /\ NewestKept(B, S)
  BY DEF BudgetFits
<1>3. Len(B) = Capacity /\ \A p \in DOMAIN B : Later(S, i, B[p].key)
  BY <1>1, <1>2 DEF NewestKept
<1> DEFINE g == [p \in DOMAIN B |-> B[p].key]
<1>4. \A p \in DOMAIN B : B[p].key \in After(S, i)
  <2> TAKE p \in DOMAIN B
  <2>1. PICK h \in DOMAIN S : h > i /\ S[h].key = B[p].key
    BY <1>3 DEF Later
  <2>2. h \in i..Len(S)
    BY <1>1, <1>2, <2>1
  <2>3. B[p].key # k
    BY DEF Found
  <2> QED  BY <1>1, <2>1, <2>2, <2>3 DEF After
<1>5. g \in [DOMAIN B -> After(S, i)] /\ \A p, q \in DOMAIN B : g[p] = g[q] => p = q
  BY <1>2, <1>4 DEF Distinct
<1>6. IsFiniteSet(After(S, i)) /\ Cardinality(After(S, i)) \in Nat
  BY <1>1, <1>2, AfterFinite
<1> HIDE DEF g
<1>7. Cardinality(DOMAIN B) <= Cardinality(After(S, i))
  BY <1>5, <1>6, InjectsInto
<1>8. Len(B) \in Nat /\ DOMAIN B = 1..Len(B) /\ Cardinality(1..Len(B)) = Len(B)
  <2>1. Len(B) \in Nat /\ DOMAIN B = 1..Len(B)
    BY <1>2
  <2> QED  BY <2>1, UpTo
<1> QED  BY <1>1, <1>3, <1>6, <1>7, <1>8

\* The calls that count are no more than the times that are left.
LEMMA RecentCounts ==
  ASSUME NEW Ks, NEW B, NEW S, NEW now \in Nat, NEW limit, BudgetFits(Ks, B, S, now, limit), NEW k \in Ks
  PROVE  LET R == RecentOf(B, k, now)
         IN  /\ R \in Seq(Nat) /\ Len(R) \in Nat
             /\ \A a, b \in DOMAIN R : a <= b => R[a] <= R[b]
             /\ \A a \in DOMAIN R : R[a] <= now
             /\ IsFiniteSet(Counting(S, k, now)) /\ Cardinality(Counting(S, k, now)) \in Nat
             /\ Cardinality(Counting(S, k, now)) <= Len(R)
             /\ Timed(Counting(S, k, now), S, R)
<1> DEFINE R == RecentOf(B, k, now)
           C == Counting(S, k, now)
<1>1. CASE ~Found(B, k)
  <2>1. R = <<>> /\ C = {}
    BY <1>1, ForgottenCountsNot DEF RecentOf
  <2>2. R \in Seq(Nat) /\ Len(R) = 0 /\ DOMAIN R = {}
    BY <2>1
  <2>3. IsFiniteSet(C) /\ Cardinality(C) = 0
    BY <2>1, FS_EmptySet
  <2> DEFINE g == [i \in {} |-> 1]
  <2>4. g \in [C -> DOMAIN R] /\ DOMAIN g = {}
    BY <2>1
  <2>5. \A i, j \in DOMAIN g : g[i] = g[j] => i = j
    BY <2>4
  <2>6. \A i \in DOMAIN g : R[g[i]] = S[i].at
    BY <2>4
  <2> HIDE DEF g, R, C
  <2>7. Timed(C, S, R)
    BY <2>4, <2>5, <2>6, Zenon DEF Timed
  <2>8. /\ Len(R) \in Nat /\ Cardinality(C) \in Nat /\ Cardinality(C) <= Len(R)
        /\ \A a, b \in DOMAIN R : a <= b => R[a] <= R[b]
        /\ \A a \in DOMAIN R : R[a] <= now
    BY <2>2, <2>3
  <2> QED  BY <2>2, <2>3, <2>7, <2>8 DEF R, C
<1>2. CASE Found(B, k)
  <2> DEFINE T == Entry(B, k).times
             K == {i \in DOMAIN T : now - T[i] < Minute}
             n == Len(T)
             f == Cardinality(K)
  <2>1. PICK p \in DOMAIN B : B[p].key = k /\ Entry(B, k) = B[p]
    BY <1>2, PlaceIs DEF Entry
  <2>2. B[p] \in Entries(Ks) /\ Tracks(B[p], S, now)
    BY <2>1 DEF BudgetFits
  <2>3. T = B[p].times /\ T \in Seq(Nat)
    BY <2>1, <2>2 DEF Entries
  <2>4. /\ \A a, b \in DOMAIN T : a <= b => T[a] <= T[b]
        /\ \A a \in DOMAIN T : T[a] <= now
    BY <2>2, <2>3 DEF Tracks
  <2>5. PICK g \in [C -> DOMAIN T] : /\ \A i \in DOMAIN g : T[g[i]] = S[i].at
                                     /\ \A i, j \in DOMAIN g : g[i] = g[j] => i = j
    BY <2>1, <2>2, <2>3 DEF Tracks, Timed
  <2>6. R = SubSeq(T, n - f + 1, n)
    BY <1>2 DEF RecentOf
  <2> HIDE DEF T, R
  <2>7. n \in Nat /\ DOMAIN T = 1..n /\ \A a \in 1..n : T[a] \in Nat
    BY <2>3
  <2>8. IsFiniteSet(1..n) /\ Cardinality(1..n) = n
    BY <2>7, UpTo
  <2>9. IsFiniteSet(K) /\ f \in Nat /\ f <= n
    BY <2>7, <2>8, FS_Subset, FS_CardinalityType
  <2>10. \A a \in K : a >= n - f + 1
    <3> TAKE a \in K
    <3>1. a \in 1..n /\ now - T[a] < Minute
      BY <2>7
    <3>2. \A b \in a..n : b \in K
      <4> TAKE b \in a..n
      <4>1. b \in 1..n /\ a <= b /\ T[a] <= T[b] /\ T[a] \in Nat /\ T[b] \in Nat
        BY <2>4, <2>7, <3>1
      <4>2. now - T[b] < Minute
        BY <3>1, <4>1, McpAssumptions
      <4> QED  BY <2>7, <4>1, <4>2
    <3>3. (a..n) \in SUBSET K
      BY <3>2
    <3>4. Cardinality(a..n) = n - a + 1
      BY <2>7, <3>1, FS_Interval
    <3> HIDE DEF K
    <3>5. Cardinality(a..n) <= f
      BY <2>9, <3>3, FS_Subset
    <3> QED  BY <2>7, <2>9, <3>1, <3>4, <3>5
  <2> HIDE DEF K, f, n
  <2>11. /\ R \in Seq(Nat) /\ Len(R) = f /\ DOMAIN R = 1..f
         /\ \A i \in 1..f : R[i] = T[n - f + i] /\ n - f + i \in 1..n
    <3>1. n - f + 1 \in Int /\ n \in Int /\ n - (n - f + 1) + 1 = f
      BY <2>7, <2>9
    <3>2. \A i \in (n - f + 1)..n : i \in 1..n /\ T[i] \in Nat
      BY <2>7, <2>9
    <3>3. /\ R \in Seq(Nat) /\ Len(R) = (IF n - f + 1 <= n THEN n - (n - f + 1) + 1 ELSE 0)
          /\ \A i \in 1..n - (n - f + 1) + 1 : R[i] = T[n - f + 1 + i - 1]
      BY <2>6, <3>1, <3>2, SubSeqProperties
    <3>4. Len(R) = f
      BY <2>7, <2>9, <3>3
    <3>5. \A i \in 1..f : n - f + 1 + i - 1 = n - f + i /\ n - f + i \in 1..n
      BY <2>7, <2>9
    <3> QED  BY <3>1, <3>3, <3>4, <3>5
  <2>12. /\ \A a, b \in DOMAIN R : a <= b => R[a] <= R[b]
         /\ \A a \in DOMAIN R : R[a] <= now
    <3>1. \A a \in 1..f : R[a] = T[n - f + a] /\ n - f + a \in DOMAIN T
      BY <2>7, <2>11
    <3>2. \A a, b \in 1..f : a <= b => R[a] <= R[b]
      <4> SUFFICES ASSUME NEW a \in 1..f, NEW b \in 1..f, a <= b PROVE R[a] <= R[b]
        OBVIOUS
      <4>1. n - f + a <= n - f + b
        BY <2>7, <2>9
      <4> QED  BY <2>4, <3>1, <4>1
    <3>3. \A a \in 1..f : R[a] <= now
      BY <2>4, <3>1
    <3> QED  BY <2>11, <3>2, <3>3
  <2>13. \A i \in C : g[i] \in K /\ S[i].at = T[g[i]]
    BY <2>5 DEF Counting, K
  <2>14. Cardinality(C) <= f /\ IsFiniteSet(C) /\ Cardinality(C) \in Nat
    <3>1. g \in [C -> K] /\ \A i, j \in C : g[i] = g[j] => i = j
      BY <2>5, <2>13
    <3> QED  BY <2>9, <3>1, InjectsInto DEF f
  <2> DEFINE h == [i \in C |-> g[i] - (n - f)]
  <2>15. \A i \in C : g[i] \in 1..n /\ g[i] >= n - f + 1
    BY <2>5, <2>7, <2>10, <2>13
  <2>16. \A i \in C : h[i] \in 1..f /\ n - f + h[i] = g[i]
    BY <2>7, <2>9, <2>15
  <2>17. h \in [C -> DOMAIN R] /\ DOMAIN h = C
    BY <2>11, <2>16
  <2>18. \A i \in C : R[h[i]] = S[i].at
    BY <2>11, <2>13, <2>16
  <2>19. \A i, j \in C : h[i] = h[j] => i = j
    BY <2>5, <2>16
  <2> HIDE DEF h, C
  <2>20. Timed(C, S, R)
    BY <2>17, <2>18, <2>19, Zenon DEF Timed
  <2> QED  BY <2>9, <2>11, <2>12, <2>14, <2>20 DEF R, C
<1> QED  BY <1>1, <1>2

----------------------------------------------------------------------------
\* One call more, S2, leaves what came before as it was.
LEMMA OneMore ==
  ASSUME NEW E, NEW S \in Seq(E), NEW c \in E
  PROVE  LET S2 == Append(S, c)
         IN  /\ S2 \in Seq(E) /\ DOMAIN S = 1..Len(S) /\ DOMAIN S2 = 1..Len(S) + 1
             /\ Len(S) \in Nat /\ Len(S2) = Len(S) + 1 /\ S2[Len(S) + 1] = c
             /\ \A i \in 1..Len(S) : S2[i] = S[i]
             /\ \A i \in 1..Len(S) : After(S, i) \subseteq After(S2, i)
             /\ \A i \in 1..Len(S) : Cardinality(After(S, i)) <= Cardinality(After(S2, i))
             /\ \A i \in 1..Len(S) : \A key : Later(S, i, key) => Later(S2, i, key)
<1> DEFINE S2 == Append(S, c)
           n == Len(S)
<1>1. /\ S2 \in Seq(E) /\ DOMAIN S = 1..n /\ DOMAIN S2 = 1..n + 1
      /\ n \in Nat /\ Len(S2) = n + 1 /\ S2[n + 1] = c
      /\ \A i \in 1..n : S2[i] = S[i]
  OBVIOUS
<1> HIDE DEF S2, n
<1>2. \A i \in 1..n : After(S, i) \subseteq After(S2, i)
  <2> SUFFICES ASSUME NEW i \in 1..n, NEW x \in After(S, i) PROVE x \in After(S2, i)
    OBVIOUS
  <2>1. PICK h \in i..n : x = S[h].key /\ x # S[i].key
    BY DEF After, n
  <2>2. h \in i..Len(S2) /\ S2[h] = S[h] /\ S2[i] = S[i]
    BY <1>1, <2>1
  <2> QED  BY <2>1, <2>2 DEF After
<1>3. \A i \in 1..n : Cardinality(After(S, i)) <= Cardinality(After(S2, i))
  <2> TAKE i \in 1..n
  <2>1. IsFiniteSet(After(S2, i))
    BY <1>1, AfterFinite
  <2> QED  BY <1>2, <2>1, FS_Subset
<1>4. \A i \in 1..n : \A key : Later(S, i, key) => Later(S2, i, key)
  BY <1>1 DEF Later
<1> QED  BY <1>1, <1>2, <1>3, <1>4 DEF S2, n

\* A map of one budget goes on as before when fewer calls count.
LEMMA TracksFewer ==
  ASSUME NEW e, e.times \in Seq(Nat), NEW S, NEW S2, NEW now \in Nat, NEW now2 \in Nat, now <= now2,
         Tracks(e, S, now),
         \A i \in Counting(S2, e.key, now2) : i \in Counting(S, e.key, now) /\ S2[i].at = S[i].at
  PROVE  Tracks(e, S2, now2)
<1> DEFINE C == Counting(S, e.key, now)
           C2 == Counting(S2, e.key, now2)
<1>1. PICK g \in [C -> DOMAIN e.times] : /\ \A i \in DOMAIN g : e.times[g[i]] = S[i].at
                                         /\ \A i, j \in DOMAIN g : g[i] = g[j] => i = j
  BY DEF Tracks, Timed
<1> DEFINE d == [i \in C2 |-> g[i]]
<1>2. d \in [C2 -> DOMAIN e.times] /\ DOMAIN d = C2
  OBVIOUS
<1>3. \A i \in C2 : i \in C /\ d[i] = g[i] /\ S2[i].at = S[i].at
  OBVIOUS
<1> HIDE DEF d, C, C2
<1>4. \A i \in DOMAIN d : e.times[d[i]] = S2[i].at
  BY <1>1, <1>2, <1>3
<1>5. \A i, j \in DOMAIN d : d[i] = d[j] => i = j
  BY <1>1, <1>2, <1>3
<1>6. \A a \in DOMAIN e.times : e.times[a] <= now2
  <2> TAKE a \in DOMAIN e.times
  <2>1. e.times[a] \in Nat /\ e.times[a] <= now
    BY DEF Tracks
  <2> QED  BY <2>1
<1>7. Timed(C2, S2, e.times)
  BY <1>2, <1>4, <1>5, Zenon DEF Timed
<1> QED  BY <1>6, <1>7 DEF Tracks, C2

\* A call that a budget lets through.
LEMMA LetThrough ==
  ASSUME NEW Ks, NEW B, NEW S, NEW now \in Nat, NEW limit \in Nat, BudgetFits(Ks, B, S, now, limit),
         NEW k \in Ks, Len(RecentOf(B, k, now)) < limit
  PROVE  BudgetFits(Ks, Keep(B, [key |-> k, times |-> Append(RecentOf(B, k, now), now)]),
                    Append(S, [key |-> k, at |-> now]), now, limit)
<1> DEFINE R == RecentOf(B, k, now)
           e == [key |-> k, times |-> Append(R, now)]
           c == [key |-> k, at |-> now]
           N == Keep(B, e)
           S2 == Append(S, c)
           n == Len(S)
           M == Len(N)
           C == Counting(S, k, now)
<1>1. /\ B \in Seq(Entries(Ks)) /\ Distinct(B) /\ Len(B) <= Capacity
      /\ S \in Seq(Through(Ks)) /\ \A i \in DOMAIN S : S[i].at <= now
      /\ NewestKept(B, S)
      /\ \A p \in DOMAIN B : Tracks(B[p], S, now)
      /\ \A j \in DOMAIN S : Cardinality(Passing(S, j)) <= limit
  BY DEF BudgetFits
<1>2. /\ R \in Seq(Nat) /\ Len(R) \in Nat /\ Len(R) < limit
      /\ \A a, b \in DOMAIN R : a <= b => R[a] <= R[b]
      /\ \A a \in DOMAIN R : R[a] <= now
      /\ IsFiniteSet(C) /\ Cardinality(C) \in Nat
      /\ Cardinality(C) <= Len(R)
      /\ Timed(C, S, R)
  BY RecentCounts
<1> HIDE DEF R
<1>3. e \in Entries(Ks) /\ c \in Through(Ks) /\ e.key = k /\ c.key = k /\ c.at = now
  BY <1>2 DEF Entries, Through
<1>4. N \in Seq(Entries(Ks)) /\ KeptIn(B, e, N)
  BY <1>1, <1>3, KeepIs
<1>5. /\ S2 \in Seq(Through(Ks)) /\ DOMAIN S = 1..n /\ DOMAIN S2 = 1..n + 1
      /\ n \in Nat /\ S2[n + 1] = c
      /\ \A i \in 1..n : S2[i] = S[i]
      /\ \A i \in 1..n : After(S, i) \subseteq After(S2, i)
      /\ \A i \in 1..n : Cardinality(After(S, i)) <= Cardinality(After(S2, i))
      /\ \A i \in 1..n : \A key : Later(S, i, key) => Later(S2, i, key)
  BY <1>1, <1>3, OneMore
<1> DEFINE etimes == e.times
<1>6. /\ etimes \in Seq(Nat) /\ DOMAIN etimes = 1..Len(R) + 1 /\ DOMAIN R = 1..Len(R) /\ etimes[Len(R) + 1] = now
      /\ \A a \in 1..Len(R) : etimes[a] = R[a] /\ R[a] \in Nat
  BY <1>2
<1> HIDE DEF e, c, N, S2, n, C, etimes
<1>7. /\ Distinct(N) /\ M \in 1..Capacity /\ N[M] = e
      /\ Len(B) = Capacity => M = Capacity
  BY <1>4 DEF KeptIn
<1>8. PICK o \in [1..M - 1 -> DOMAIN B] :
          /\ \A p \in 1..M - 1 : N[p] = B[o[p]] /\ B[o[p]].key # k
          /\ \A p, q \in 1..M - 1 : p < q => o[p] < o[q]
          /\ \A i \in DOMAIN B : B[i].key # k =>
                 \/ \E p \in 1..M - 1 : o[p] = i
                 \/ i = 1 /\ Len(B) = Capacity /\ ~Found(B, k)
  BY <1>3, <1>4 DEF KeptIn
<1>9. /\ DOMAIN N = 1..M /\ M \in Nat /\ M > 0 /\ Len(B) \in Nat /\ DOMAIN B = 1..Len(B)
      /\ \A p \in 1..M : p = M \/ p \in 1..M - 1
  BY <1>1, <1>4, <1>7, McpAssumptions
<1> HIDE DEF M
<1>10. \A i \in 1..n + 1 : i = n + 1 \/ i \in 1..n
  BY <1>5
<1>11. \A i \in 1..n : Later(S2, i, k)
  <2> TAKE i \in 1..n
  <2>1. n + 1 \in DOMAIN S2 /\ n + 1 > i /\ S2[n + 1].key = k
    BY <1>3, <1>5
  <2> QED  BY <2>1 DEF Later
<1>12. NewestKept(N, S2)
  <2>1. ASSUME NEW p \in DOMAIN N, NEW q \in DOMAIN N, p < q, NEW i \in DOMAIN S2, S2[i].key = N[p].key
        PROVE  Later(S2, i, N[q].key)
    <3>1. p \in 1..M - 1 /\ N[p] = B[o[p]] /\ B[o[p]].key # k
      BY <1>8, <1>9, <2>1
    <3>2. i \in 1..n /\ S[i] = S2[i]
      BY <1>3, <1>5, <1>10, <2>1, <3>1
    <3>3. CASE q = M
      BY <1>3, <1>7, <1>11, <3>2, <3>3
    <3>4. CASE q \in 1..M - 1
      <4>1. o[p] \in DOMAIN B /\ o[q] \in DOMAIN B /\ o[p] < o[q] /\ N[q] = B[o[q]]
        BY <1>8, <2>1, <3>1, <3>4
      <4>2. Later(S, i, B[o[q]].key)
        BY <1>1, <1>5, <2>1, <3>1, <3>2, <4>1 DEF NewestKept
      <4> QED  BY <1>5, <3>2, <4>1, <4>2
    <3> QED  BY <1>9, <3>3, <3>4
  <2>2. ASSUME NEW i \in DOMAIN S2, ~Found(N, S2[i].key)
        PROVE  Len(N) = Capacity /\ \A p \in DOMAIN N : Later(S2, i, N[p].key)
    <3>1. S2[i].key # k
      BY <1>3, <1>7, <1>9, <2>2 DEF Found
    <3>2. i \in 1..n /\ S[i] = S2[i]
      BY <1>3, <1>5, <1>10, <3>1
    <3>3. \A p \in 1..M - 1 : B[o[p]].key # S[i].key
      <4>1. \A p \in 1..M - 1 : p \in DOMAIN N /\ N[p].key = B[o[p]].key
        BY <1>8, <1>9
      <4>2. \A p \in DOMAIN N : N[p].key # S[i].key
        BY <2>2, <3>2 DEF Found
      <4> QED  BY <4>1, <4>2
    <3>4. Len(B) = Capacity /\ \A p \in 1..M - 1 : Later(S, i, B[o[p]].key)
      <4>1. CASE ~Found(B, S[i].key)
        BY <1>1, <1>5, <1>8, <3>2, <4>1 DEF NewestKept
      <4>2. CASE Found(B, S[i].key)
        <5>1. PICK b \in DOMAIN B : B[b].key = S[i].key
          BY <4>2 DEF Found
        <5>2. ~\E p \in 1..M - 1 : o[p] = b
          BY <3>3, <5>1
        <5>3. b = 1 /\ Len(B) = Capacity
          BY <1>8, <3>1, <3>2, <5>1, <5>2
        <5>4. \A p \in 1..M - 1 : o[p] \in DOMAIN B /\ b < o[p]
          BY <1>8, <1>9, <5>2, <5>3
        <5> QED  BY <1>1, <1>5, <3>2, <5>1, <5>3, <5>4 DEF NewestKept
      <4> QED  BY <4>1, <4>2
    <3>5. ASSUME NEW p \in DOMAIN N PROVE Later(S2, i, N[p].key)
      <4>1. CASE p = M
        BY <1>3, <1>7, <1>11, <3>2, <4>1
      <4>2. CASE p \in 1..M - 1
        BY <1>5, <1>8, <3>2, <3>4, <4>2
      <4> QED  BY <1>9, <4>1, <4>2
    <3>6. Len(N) = Capacity
      BY <1>7, <3>4 DEF M
    <3> QED  BY <3>5, <3>6
  <2> QED  BY <2>1, <2>2 DEF NewestKept
<1>13. \A x : \A i \in Counting(S2, x, now) :
          \/ i \in Counting(S, x, now) /\ S2[i].at = S[i].at /\ i \in 1..n
          \/ i = n + 1 /\ x = k
  <2> SUFFICES ASSUME NEW x, NEW i \in Counting(S2, x, now), ~(i = n + 1 /\ x = k)
               PROVE  i \in Counting(S, x, now) /\ S2[i].at = S[i].at /\ i \in 1..n
    OBVIOUS
  <2>1. i \in DOMAIN S2 /\ S2[i].key = x /\ now - S2[i].at < Minute /\ Cardinality(After(S2, i)) < Capacity
    BY DEF Counting
  <2>2. i \in 1..n /\ S2[i] = S[i]
    BY <1>3, <1>5, <1>10, <2>1
  <2>3. Cardinality(After(S, i)) <= Cardinality(After(S2, i))
    BY <1>5, <2>2
  <2>4. Cardinality(After(S, i)) \in Nat /\ Cardinality(After(S2, i)) \in Nat
    BY <1>1, <1>5, <2>1, <2>2, AfterFinite
  <2>5. Cardinality(After(S, i)) < Capacity
    BY <2>1, <2>3, <2>4, McpAssumptions
  <2> QED  BY <1>5, <2>1, <2>2, <2>5 DEF Counting
<1>14. ASSUME NEW p \in DOMAIN N PROVE Tracks(N[p], S2, now)
  <2>1. CASE p \in 1..M - 1
    <3>1. o[p] \in DOMAIN B /\ N[p] = B[o[p]] /\ N[p].key # k
      BY <1>8, <2>1
    <3>2. Tracks(N[p], S, now) /\ N[p] \in Entries(Ks)
      BY <1>1, <3>1
    <3>4. N[p].times \in Seq(Nat) /\ now <= now
      BY <3>2 DEF Entries
    <3>3. \A i \in Counting(S2, N[p].key, now) : i \in Counting(S, N[p].key, now) /\ S2[i].at = S[i].at
      BY <1>13, <3>1
    <3> QED  BY <3>2, <3>3, <3>4, TracksFewer
  <2>2. CASE p = M
    <3> DEFINE C2 == Counting(S2, k, now)
    <3>1. \A a, b \in DOMAIN etimes : a <= b => etimes[a] <= etimes[b]
      <4> SUFFICES ASSUME NEW a \in DOMAIN etimes, NEW b \in DOMAIN etimes, a <= b PROVE etimes[a] <= etimes[b]
        OBVIOUS
      <4>1. \A x \in DOMAIN etimes : x = Len(R) + 1 \/ x \in 1..Len(R)
        BY <1>2, <1>6
      <4>2. CASE b = Len(R) + 1 /\ a = Len(R) + 1
        BY <1>6, <4>2
      <4>3. CASE b = Len(R) + 1 /\ a \in 1..Len(R)
        <5>1. R[a] <= now /\ etimes[a] = R[a] /\ etimes[b] = now
          BY <1>2, <1>6, <4>3
        <5> QED  BY <5>1
      <4>4. CASE b \in 1..Len(R) /\ a \in 1..Len(R)
        <5>1. R[a] <= R[b] /\ etimes[a] = R[a] /\ etimes[b] = R[b]
          BY <1>2, <1>6, <4>4
        <5> QED  BY <5>1
      <4>5. ~(b \in 1..Len(R) /\ a = Len(R) + 1)
        BY <1>2
      <4> QED  BY <4>1, <4>2, <4>3, <4>4, <4>5
    <3>2. \A a \in DOMAIN etimes : etimes[a] <= now
      <4> TAKE a \in DOMAIN etimes
      <4>1. a = Len(R) + 1 \/ a \in 1..Len(R)
        BY <1>2, <1>6
      <4>2. CASE a = Len(R) + 1
        BY <1>6, <4>2
      <4>3. CASE a \in 1..Len(R)
        <5>1. R[a] <= now /\ etimes[a] = R[a]
          BY <1>2, <1>6, <4>3
        <5> QED  BY <5>1
      <4> QED  BY <4>1, <4>2, <4>3
    <3>3. PICK g \in [C -> DOMAIN R] : /\ \A i \in DOMAIN g : R[g[i]] = S[i].at
                                       /\ \A i, j \in DOMAIN g : g[i] = g[j] => i = j
      BY <1>2 DEF Timed
    <3> DEFINE d == [i \in C2 |-> IF i = n + 1 THEN Len(R) + 1 ELSE g[i]]
    <3>4. \A i \in C2 : \/ i = n + 1 /\ d[i] = Len(R) + 1
                        \/ i # n + 1 /\ i \in C /\ d[i] = g[i] /\ S2[i].at = S[i].at
      BY <1>5, <1>13 DEF C
    <3>5. \A i \in C : g[i] \in 1..Len(R)
      BY <1>6
    <3>6. d \in [C2 -> DOMAIN etimes] /\ DOMAIN d = C2
      BY <1>2, <1>6, <3>4, <3>5
    <3> HIDE DEF d, C2
    <3>7. \A i \in DOMAIN d : etimes[d[i]] = S2[i].at
      <4> SUFFICES ASSUME NEW i \in C2 PROVE etimes[d[i]] = S2[i].at
        BY <3>6
      <4>1. CASE i = n + 1 /\ d[i] = Len(R) + 1
        BY <1>3, <1>5, <1>6, <4>1
      <4>2. CASE i # n + 1 /\ i \in C /\ d[i] = g[i] /\ S2[i].at = S[i].at
        <5>1. R[g[i]] = S[i].at /\ g[i] \in 1..Len(R)
          BY <3>3, <3>5, <4>2
        <5>2. etimes[g[i]] = R[g[i]]
          BY <1>6, <5>1
        <5> QED  BY <4>2, <5>1, <5>2
      <4> QED  BY <3>4, <4>1, <4>2
    <3>8. \A i, j \in DOMAIN d : d[i] = d[j] => i = j
      BY <1>2, <3>3, <3>4, <3>5, <3>6
    <3>9. Timed(C2, S2, etimes)
      BY <3>6, <3>7, <3>8, Zenon DEF Timed
    <3> QED  BY <1>3, <1>7, <2>2, <3>1, <3>2, <3>9 DEF Tracks, etimes, C2
  <2> QED  BY <1>9, <2>1, <2>2
<1>15. ASSUME NEW j \in DOMAIN S2 PROVE Cardinality(Passing(S2, j)) <= limit
  <2>1. CASE j \in 1..n
    <3>1. \A i \in 1..j : i \in 1..n /\ S2[i] = S[i] /\ S2[j] = S[j]
      BY <1>5, <2>1
    <3>2. \A i \in 1..j : {S2[h].key : h \in i..j} = {S[h].key : h \in i..j}
      <4> TAKE i \in 1..j
      <4>1. \A h \in i..j : S2[h] = S[h]
        BY <1>5, <2>1
      <4> QED  BY <4>1
    <3>3. Passing(S2, j) = Passing(S, j)
      BY <3>1, <3>2 DEF Passing
    <3> QED  BY <1>1, <1>5, <2>1, <3>3
  <2>2. CASE j = n + 1
    <3>1. ASSUME NEW i \in Passing(S2, j) PROVE i \in C \cup {n + 1}
      <4>1. i \in 1..j /\ S2[i].key = k /\ now - S2[i].at < Minute
            /\ Cardinality({S2[h].key : h \in i..j} \ {k}) < Capacity
        BY <1>3, <1>5, <2>2 DEF Passing
      <4>2. CASE i = n + 1
        BY <4>2
      <4>3. CASE i # n + 1
        <5>1. i \in 1..n /\ S2[i] = S[i] /\ j = Len(S2)
          BY <1>5, <2>2, <4>1, <4>3
        <5>2. {S2[h].key : h \in i..j} \ {k} = After(S2, i)
          BY <4>1, <5>1 DEF After
        <5>4. Cardinality(After(S2, i)) < Capacity
          BY <4>1, <5>2
        <5>5. i \in DOMAIN S2
          BY <1>5, <5>1
        <5>3. i \in Counting(S2, k, now)
          BY <4>1, <5>4, <5>5 DEF Counting
        <5> QED  BY <1>13, <4>3, <5>3 DEF C
      <4> QED  BY <4>2, <4>3
    <3>2. IsFiniteSet(C \cup {n + 1}) /\ Cardinality(C \cup {n + 1}) <= Cardinality(C) + 1
          /\ Cardinality(C \cup {n + 1}) \in Nat
      <4>1. /\ IsFiniteSet(C \cup {n + 1})
            /\ \/ Cardinality(C \cup {n + 1}) = Cardinality(C)
               \/ Cardinality(C \cup {n + 1}) = Cardinality(C) + 1
        BY <1>2, FS_AddElement
      <4> QED  BY <1>2, <4>1
    <3>3. Passing(S2, j) \in SUBSET (C \cup {n + 1})
      BY <3>1
    <3>4. Cardinality(Passing(S2, j)) <= Cardinality(C \cup {n + 1}) /\ Cardinality(Passing(S2, j)) \in Nat
      BY <3>2, <3>3, FS_Subset, FS_CardinalityType
    <3> QED  BY <1>2, <3>2, <3>4
  <2> QED  BY <1>5, <1>10, <2>1, <2>2
<1>16. \A i \in DOMAIN S2 : S2[i].at <= now
  BY <1>1, <1>3, <1>5, <1>10
<1>17. Len(N) <= Capacity
  BY <1>7, McpAssumptions DEF M
<1>18. BudgetFits(Ks, N, S2, now, limit)
  BY <1>4, <1>5, <1>7, <1>12, <1>14, <1>15, <1>16, <1>17 DEF BudgetFits
<1> QED  BY <1>18 DEF N, S2, e, c, R

----------------------------------------------------------------------------
\* A budget stays as it is while time passes.
LEMMA BudgetLater ==
  ASSUME NEW Ks, NEW B, NEW S, NEW now \in Nat, NEW limit, BudgetFits(Ks, B, S, now, limit)
  PROVE  BudgetFits(Ks, B, S, now + 1, limit)
<1>1. /\ B \in Seq(Entries(Ks)) /\ Distinct(B) /\ Len(B) <= Capacity
      /\ S \in Seq(Through(Ks)) /\ \A i \in DOMAIN S : S[i].at <= now
      /\ NewestKept(B, S)
      /\ \A p \in DOMAIN B : Tracks(B[p], S, now)
      /\ \A j \in DOMAIN S : Cardinality(Passing(S, j)) <= limit
  BY DEF BudgetFits
<1>2. \A i \in DOMAIN S : S[i] \in Through(Ks)
  BY <1>1
<1>3. \A i \in DOMAIN S : S[i].at \in Nat
  BY <1>2 DEF Through
<1>4. ASSUME NEW x, NEW i \in Counting(S, x, now + 1) PROVE i \in Counting(S, x, now)
  <2>1. i \in DOMAIN S /\ S[i].key = x /\ (now + 1) - S[i].at < Minute /\ Cardinality(After(S, i)) < Capacity
    BY DEF Counting
  <2>2. now - S[i].at < Minute
    BY <1>3, <2>1, McpAssumptions
  <2> QED  BY <2>1, <2>2 DEF Counting
<1>5. ASSUME NEW p \in DOMAIN B PROVE Tracks(B[p], S, now + 1)
  <2>1. B[p] \in Entries(Ks) /\ Tracks(B[p], S, now)
    BY <1>1
  <2>2. B[p].times \in Seq(Nat) /\ now <= now + 1 /\ now + 1 \in Nat
    BY <2>1 DEF Entries
  <2> QED  BY <1>4, <2>1, <2>2, TracksFewer
<1>6. \A i \in DOMAIN S : S[i].at <= now + 1
  BY <1>1, <1>3
<1> QED  BY <1>1, <1>5, <1>6 DEF BudgetFits

KeysOf(m) == {KeyOf(m, a) : a \in Agents}

BudgetInv ==
    /\ clock \in Nat /\ DOMAIN budgets = Maps /\ DOMAIN served = Maps
    /\ \A m \in Maps : BudgetFits(KeysOf(m), budgets[m], served[m], clock, Limit[m])

LEMMA BudgetInitInv == McpInit => BudgetInv
<1> SUFFICES ASSUME McpInit PROVE BudgetInv
  OBVIOUS
<1>1. clock = 0 /\ DOMAIN budgets = Maps /\ DOMAIN served = Maps
      /\ \A m \in Maps : budgets[m] = <<>> /\ served[m] = <<>>
  BY DEF McpInit
<1>2. ASSUME NEW m \in Maps PROVE BudgetFits(KeysOf(m), <<>>, <<>>, 0, Limit[m])
  <2>1. <<>> \in Seq(Entries(KeysOf(m))) /\ <<>> \in Seq(Through(KeysOf(m))) /\ DOMAIN <<>> = {} /\ Len(<<>>) = 0
    OBVIOUS
  <2> QED  BY <2>1, McpAssumptions DEF BudgetFits, Distinct, NewestKept
<1> QED  BY <1>1, <1>2 DEF BudgetInv

\* A budget lets a caller through.
LEMMA LetKeeps ==
  ASSUME BudgetInv, NEW m \in Maps, NEW a \in Agents, Let(m, a), UNCHANGED clock
  PROVE  BudgetInv'
<1> DEFINE k == KeyOf(m, a)
           new == Keep(budgets[m], [key |-> k, times |-> Append(Recent(m, k), clock)])
           more == Append(served[m], [key |-> k, at |-> clock])
<1>1. /\ ~(Len(Recent(m, k)) >= Limit[m])
      /\ budgets' = [budgets EXCEPT ![m] = new] /\ served' = [served EXCEPT ![m] = more]
  BY DEF BudgetInv, Let, Spent
<1>2. Recent(m, k) = RecentOf(budgets[m], k, clock)
  BY RecentIs
<1>3. k \in KeysOf(m) /\ clock \in Nat /\ BudgetFits(KeysOf(m), budgets[m], served[m], clock, Limit[m])
  BY DEF BudgetInv, KeysOf
<1>4. Limit[m] \in Nat
  BY McpAssumptions
<1>5. Len(RecentOf(budgets[m], k, clock)) < Limit[m]
  <2>1. Len(RecentOf(budgets[m], k, clock)) \in Nat
    BY <1>3, RecentCounts
  <2> QED  BY <1>1, <1>2, <1>4, <2>1
<1>6. BudgetFits(KeysOf(m), new, more, clock, Limit[m])
  BY <1>2, <1>3, <1>4, <1>5, LetThrough
<1> HIDE DEF new, more
<1>7. /\ budgets'[m] = new /\ served'[m] = more /\ DOMAIN budgets' = Maps /\ DOMAIN served' = Maps
      /\ \A n \in Maps \ {m} : budgets'[n] = budgets[n] /\ served'[n] = served[n]
  BY <1>1 DEF BudgetInv
<1>8. \A n \in Maps : BudgetFits(KeysOf(n), budgets'[n], served'[n], clock, Limit[n])
  BY <1>6, <1>7 DEF BudgetInv
<1>9. clock' = clock
  OBVIOUS
<1> QED  BY <1>3, <1>7, <1>8, <1>9 DEF BudgetInv, KeysOf, KeyOf, Key, Identity, BudgetFits

LEMMA BudgetStep == RequestInv /\ BudgetInv /\ [McpNext]_mcpVars => BudgetInv'
<1> SUFFICES ASSUME RequestInv, BudgetInv, [McpNext]_mcpVars PROVE BudgetInv'
  OBVIOUS
<1>1. scene.asked \subseteq Asked /\ \A q \in Asked : request[q].at # "free" => request[q].agent \in Agents
  BY McpAssumptions DEF RequestInv, RequestFits
<1>2. ASSUME UNCHANGED <<clock, budgets, served>> PROVE BudgetInv'
  BY <1>2 DEF BudgetInv, KeysOf, KeyOf, Key, Identity, BudgetFits
<1>3. ASSUME NEW q \in scene.asked, NEW a \in Agents, NEW tool \in Tools, Arrive(q, a, tool) PROVE BudgetInv'
  <2>1. UNCHANGED clock /\ (Let("peer", a) \/ UNCHANGED <<budgets, served>>)
    BY <1>3 DEF Arrive
  <2> QED  BY <1>2, <2>1, LetKeeps DEF Maps
<1>4. ASSUME NEW q \in scene.asked, Admit(q) PROVE BudgetInv'
  <2>1. UNCHANGED clock /\ (Let("identity", request[q].agent) \/ UNCHANGED <<budgets, served>>)
    BY <1>4 DEF Admit
  <2>2. request[q].agent \in Agents
    BY <1>1, <1>4 DEF Admit
  <2> QED  BY <1>2, <2>1, <2>2, LetKeeps DEF Maps
<1>5. ASSUME NEW q \in scene.asked, Begin(q) PROVE BudgetInv'
  <2>1. UNCHANGED clock /\ (Let("call", request[q].agent) \/ UNCHANGED <<budgets, served>>)
    BY <1>5 DEF Begin
  <2>2. request[q].agent \in Agents
    BY <1>1, <1>5 DEF Begin
  <2> QED  BY <1>2, <2>1, <2>2, LetKeeps DEF Maps
<1>6. ASSUME NEW q \in scene.asked,
             GetSecret(q) \/ Echo(q) \/ Answer(q) \/ Close(q) \/ (\E host \in Servers : ReadMeta(q, host))
      PROVE  BudgetInv'
  BY <1>2, <1>6 DEF GetSecret, Echo, Answer, Close, ReadMeta, limits, history
<1>7. ASSUME NEW s \in DOMAIN record, NEW content \in Contents, Store(s, content) PROVE BudgetInv'
  BY <1>2, <1>7 DEF Store, limits, history
<1>8. CASE TimePasses
  <2>1. clock' = clock + 1 /\ UNCHANGED <<budgets, served>>
    BY <1>8 DEF TimePasses, limits, history
  <2>2. clock' \in Nat /\ \A m \in Maps : BudgetFits(KeysOf(m), budgets[m], served[m], clock', Limit[m])
    BY <2>1, BudgetLater DEF BudgetInv
  <2> QED  BY <2>1, <2>2 DEF BudgetInv, KeysOf, KeyOf, Key, Identity, BudgetFits
<1>9. CASE UNCHANGED mcpVars
  BY <1>2, <1>9 DEF mcpVars
<1> QED  BY <1>3, <1>4, <1>5, <1>6, <1>7, <1>8, <1>9 DEF McpNext

----------------------------------------------------------------------------
\* The counter of echoes.  It is kept or forgotten as a whole, and the calls that passed it
\* and have not ended are the only ones that may still add to it.
Counters == [key : CallKeys, count : Nat]
Under(k) == {q \in scene.asked : /\ request[q].at \in {"reading", "opening", "sent"}
                                 /\ request[q].tool = "http" /\ Key(request[q].agent) = k}

EchoInv ==
    /\ IsFiniteSet(scene.asked)
    /\ redactions \in Seq(Counters) /\ Distinct(redactions) /\ Len(redactions) <= Capacity
    /\ echoes \in [CallKeys -> Nat]
    /\ \A k \in CallKeys : Echoed(k) = echoes[k]
    /\ \A k \in CallKeys : echoes[k] + Cardinality(Under(k)) <= RedactionLimit + Cardinality(scene.asked) - 1

\* What Keep leaves of the other counters.
LEMMA KeptEntries ==
  ASSUME NEW E, NEW map \in Seq(E), Distinct(map), NEW entry, NEW new \in Seq(E), KeptIn(map, entry, new)
  PROVE  /\ Found(new, entry.key) /\ Entry(new, entry.key) = entry
         /\ \A k : k # entry.key /\ Found(new, k) => Found(map, k) /\ Entry(new, k) = Entry(map, k)
<1>1. Distinct(new) /\ Len(new) \in 1..Capacity /\ new[Len(new)] = entry
  BY DEF KeptIn
<1>2. PICK o \in [1..Len(new) - 1 -> DOMAIN map] :
          \A p \in 1..Len(new) - 1 : new[p] = map[o[p]] /\ map[o[p]].key # entry.key
  BY DEF KeptIn
<1>3. Len(new) \in DOMAIN new /\ \A p \in DOMAIN new : p = Len(new) \/ p \in 1..Len(new) - 1
  BY <1>1
<1>4. Found(new, entry.key) /\ Entry(new, entry.key) = entry
  BY <1>1, <1>3, EntryIs
<1>5. ASSUME NEW k, k # entry.key, Found(new, k) PROVE Found(map, k) /\ Entry(new, k) = Entry(map, k)
  <2>1. PICK p \in DOMAIN new : new[p].key = k
    BY <1>5 DEF Found
  <2>2. p \in 1..Len(new) - 1
    BY <1>1, <1>3, <1>5, <2>1
  <2>3. o[p] \in DOMAIN map /\ new[p] = map[o[p]]
    BY <1>2, <2>2
  <2>4. Entry(new, k) = new[p]
    BY <1>1, <2>1, EntryIs
  <2>5. Found(map, k) /\ Entry(map, k) = map[o[p]]
    BY <2>1, <2>3, EntryIs
  <2> QED  BY <2>3, <2>4, <2>5
<1> QED  BY <1>4, <1>5

LEMMA EchoInitInv == McpInit => EchoInv
<1> SUFFICES ASSUME McpInit PROVE EchoInv
  OBVIOUS
<1>1. scene \in Scenes /\ redactions = <<>> /\ request = [q \in Asked |-> Free] /\ echoes = [k \in CallKeys |-> 0]
  BY DEF McpInit
<1>2. scene.asked \in SUBSET Asked /\ IsFiniteSet(Asked)
  BY <1>1, McpAssumptions
<1>3. IsFiniteSet(scene.asked) /\ Cardinality(scene.asked) \in Nat
  BY <1>2, FS_Subset, FS_CardinalityType
<1>4. \A k : ~Found(redactions, k)
  BY <1>1 DEF Found
<1>5. \A k \in CallKeys : Echoed(k) = echoes[k] /\ echoes[k] = 0
  BY <1>1, <1>4 DEF Echoed
<1>6. \A k : Cardinality(Under(k)) = 0
  <2>1. \A k : Under(k) = {}
    BY <1>1, <1>2 DEF Under, Free
  <2> QED  BY <2>1, FS_EmptySet
<1>7. redactions \in Seq(Counters) /\ Distinct(redactions) /\ Len(redactions) <= Capacity
  BY <1>1, McpAssumptions DEF Distinct
<1>8. echoes \in [CallKeys -> Nat]
  BY <1>1
<1>9. RedactionLimit \in Nat /\ RedactionLimit > 0
  BY McpAssumptions
<1>10. \A k \in CallKeys : echoes[k] + Cardinality(Under(k)) <= RedactionLimit + Cardinality(scene.asked) - 1
  BY <1>3, <1>5, <1>6, <1>9
<1> QED  BY <1>3, <1>5, <1>7, <1>8, <1>10 DEF EchoInv

\* A request goes on while no counter changes; only one under its limit is let in.
LEMMA OthersUnder ==
  ASSUME RequestInv, EchoInv, NEW q \in scene.asked, NEW r \in Requests, request' = [request EXCEPT ![q] = r],
         UNCHANGED <<scene, redactions, echoes>>,
         \/ r.at \notin {"reading", "opening", "sent"}
         \/ r.tool # "http"
         \/ /\ request[q].at \in {"reading", "opening", "sent"}
            /\ r.agent = request[q].agent /\ r.tool = request[q].tool
         \/ r.agent \in Agents /\ Echoed(Key(r.agent)) < RedactionLimit
  PROVE  EchoInv'
<1>1. /\ scene.asked \in SUBSET Asked /\ q \in Asked /\ request'[q] = r
      /\ \A p \in Asked \ {q} : request'[p] = request[p]
  BY McpAssumptions DEF RequestInv
<1>2. IsFiniteSet(scene.asked) /\ Cardinality(scene.asked) \in Nat
  BY FS_CardinalityType DEF EchoInv
<1>3. \A k : /\ Under(k) \in SUBSET scene.asked /\ Under(k)' \in SUBSET scene.asked
  BY DEF Under
<1>4. \A k : /\ IsFiniteSet(Under(k)) /\ Cardinality(Under(k)) \in Nat /\ Cardinality(Under(k)') \in Nat
             /\ Cardinality(Under(k)') <= Cardinality(scene.asked)
  BY <1>2, <1>3, FS_Subset, FS_CardinalityType
<1>5. ASSUME NEW k \in CallKeys
      PROVE  echoes[k] + Cardinality(Under(k)') <= RedactionLimit + Cardinality(scene.asked) - 1
  <2>1. echoes[k] \in Nat /\ Echoed(k) = echoes[k] /\ RedactionLimit \in Nat
        /\ echoes[k] + Cardinality(Under(k)) <= RedactionLimit + Cardinality(scene.asked) - 1
    BY McpAssumptions DEF EchoInv
  <2>2. CASE Under(k)' \in SUBSET Under(k)
    <3>1. Cardinality(Under(k)') <= Cardinality(Under(k))
      BY <1>4, <2>2, FS_Subset
    <3> QED  BY <1>2, <1>4, <2>1, <3>1
  <2>3. CASE ~(Under(k)' \in SUBSET Under(k))
    <3>1. \A p \in Under(k)' : p # q => p \in Under(k)
      BY <1>1, <1>3 DEF Under
    <3>2. q \in Under(k)' /\ q \notin Under(k)
      BY <2>3, <3>1
    <3>3. r.at \in {"reading", "opening", "sent"} /\ r.tool = "http" /\ Key(r.agent) = k
      BY <1>1, <3>2 DEF Under, Key, Identity
    <3>4. ~(/\ request[q].at \in {"reading", "opening", "sent"}
            /\ r.agent = request[q].agent /\ r.tool = request[q].tool)
      BY <3>2, <3>3 DEF Under
    <3>5. Echoed(k) < RedactionLimit
      BY <3>3, <3>4
    <3>6. echoes[k] <= RedactionLimit - 1
      BY <2>1, <3>5
    <3> QED  BY <1>2, <1>4, <2>1, <3>6
  <2> QED  BY <2>2, <2>3
<1>6. \A k : Echoed(k)' = Echoed(k)
  BY DEF Echoed, Found, Entry, Place
<1>7. CallKeys' = CallKeys /\ Counters' = Counters
  BY DEF CallKeys, Counters, Key, Identity
<1> QED  BY <1>5, <1>6, <1>7 DEF EchoInv, Distinct

----------------------------------------------------------------------------
\* A host echoes a secret.
LEMMA EchoKeeps ==
  ASSUME RequestInv, EchoInv, NEW q \in scene.asked, Echo(q)
  PROVE  EchoInv'
<1>0. PICK key : key = Key(request[q].agent)
  OBVIOUS
<1> DEFINE entry == [key |-> key, count |-> Count(key)]
           new == Keep(redactions, entry)
<1>1. /\ redactions \in Seq(Counters) /\ Distinct(redactions) /\ Len(redactions) <= Capacity
      /\ echoes \in [CallKeys -> Nat] /\ IsFiniteSet(scene.asked)
      /\ \A k \in CallKeys : Echoed(k) = echoes[k]
      /\ \A k \in CallKeys : echoes[k] + Cardinality(Under(k)) <= RedactionLimit + Cardinality(scene.asked) - 1
  BY DEF EchoInv
<1>2. /\ request[q].at = "sent" /\ redactions' = new /\ UNCHANGED <<scene, clock>>
      /\ echoes' = [k \in CallKeys |-> IF k = key THEN echoes[k] + 1
                                       ELSE IF Found(new, k) THEN echoes[k] ELSE 0]
      /\ request' = [request EXCEPT ![q] = Ended(request[q])]
  BY <1>0 DEF Echo, tallies
<1>3. /\ scene.asked \in SUBSET Asked /\ q \in Asked /\ request[q] \in Requests
      /\ request[q].agent \in Agents /\ request[q].tool = "http"
  BY <1>2, McpAssumptions DEF RequestInv, RequestFits
<1>4. /\ request'[q].at \notin {"reading", "opening", "sent"}
      /\ \A p \in Asked \ {q} : request'[p] = request[p]
  <2>1. Ended(request[q]).at \in {"free", "answered"}
    BY <1>3, EndedFits
  <2> QED  BY <1>2, <1>3, <2>1 DEF RequestInv
<1>5. key \in CallKeys /\ Echoed(key) = echoes[key] /\ Count(key) = echoes[key] + 1 /\ echoes[key] \in Nat
  BY <1>0, <1>1, <1>3 DEF CallKeys, Count
<1>6. entry \in Counters /\ entry.key = key /\ entry.count = echoes[key] + 1
  BY <1>5 DEF Counters
<1>7. new \in Seq(Counters) /\ KeptIn(redactions, entry, new)
  BY <1>1, <1>6, KeepIs
<1> HIDE DEF entry, new
<1>8. /\ Found(new, key) /\ Entry(new, key) = entry
      /\ \A k : k # key /\ Found(new, k) => Found(redactions, k) /\ Entry(new, k) = Entry(redactions, k)
  BY <1>1, <1>6, <1>7, KeptEntries
<1>9. Distinct(new) /\ Len(new) <= Capacity
  BY <1>7, McpAssumptions DEF KeptIn
<1>10. \A k : Echoed(k)' = IF Found(new, k) THEN Entry(new, k).count ELSE 0
  BY <1>2 DEF Echoed, Found, Entry, Place
<1>11. ASSUME NEW k \in CallKeys
       PROVE  echoes'[k] \in Nat /\ Echoed(k)' = echoes'[k]
              /\ (k = key => echoes'[k] = echoes[k] + 1) /\ (k # key => echoes'[k] <= echoes[k])
  <2>1. CASE k = key
    <3>1. echoes'[k] = echoes[k] + 1
      BY <1>2, <2>1
    <3> QED  BY <1>5, <1>6, <1>8, <1>10, <2>1, <3>1
  <2>2. CASE k # key /\ Found(new, k)
    <3>1. echoes'[k] = echoes[k] /\ Echoed(k) = Entry(redactions, k).count
      BY <1>2, <1>8, <2>2 DEF Echoed
    <3>2. echoes[k] \in Nat
      BY <1>1
    <3> QED  BY <1>1, <1>8, <1>10, <2>2, <3>1, <3>2
  <2>3. CASE k # key /\ ~Found(new, k)
    <3>1. echoes'[k] = 0 /\ Echoed(k)' = 0
      BY <1>2, <1>10, <2>3
    <3>2. echoes[k] \in Nat
      BY <1>1
    <3> QED  BY <2>3, <3>1, <3>2
  <2> QED  BY <2>1, <2>2, <2>3
<1>12. /\ \A k : Under(k)' \in SUBSET Under(k) /\ q \notin Under(k)'
       /\ q \in Under(key)
  <2>1. \A k : q \notin Under(k)'
    BY <1>4 DEF Under
  <2>2. ASSUME NEW k, NEW p \in Under(k)' PROVE p \in Under(k)
    <3>1. p \in Asked \ {q} /\ request'[p] = request[p] /\ scene' = scene
      BY <1>2, <1>3, <1>4, <2>1 DEF Under
    <3> QED  BY <3>1 DEF Under, Key, Identity
  <2>3. q \in Under(key)
    BY <1>0, <1>2, <1>3 DEF Under
  <2> QED  BY <2>1, <2>2, <2>3
<1>13. \A k : IsFiniteSet(Under(k)) /\ IsFiniteSet(Under(k)')
  <2>1. \A k : Under(k) \in SUBSET scene.asked
    BY DEF Under
  <2> QED  BY <1>1, <1>12, <2>1, FS_Subset
<1>14. \A k : /\ Cardinality(Under(k)) \in Nat /\ Cardinality(Under(k)') \in Nat
              /\ Cardinality(Under(k)') <= Cardinality(Under(k))
  BY <1>12, <1>13, FS_Subset, FS_CardinalityType
<1>15. Cardinality(Under(key)') <= Cardinality(Under(key)) - 1
  <2>1. /\ IsFiniteSet(Under(key) \ {q}) /\ Cardinality(Under(key) \ {q}) = Cardinality(Under(key)) - 1
    BY <1>12, <1>13, FS_RemoveElement
  <2>2. Under(key)' \in SUBSET (Under(key) \ {q})
    BY <1>12
  <2> QED  BY <2>1, <2>2, FS_Subset
<1>16. Cardinality(scene.asked) \in Nat /\ RedactionLimit \in Nat /\ scene' = scene
  BY <1>1, <1>2, FS_CardinalityType, McpAssumptions
<1>17. ASSUME NEW k \in CallKeys
       PROVE  echoes'[k] + Cardinality(Under(k)') <= RedactionLimit + Cardinality(scene.asked) - 1
  <2>1. echoes[k] \in Nat /\ echoes'[k] \in Nat
        /\ echoes[k] + Cardinality(Under(k)) <= RedactionLimit + Cardinality(scene.asked) - 1
    BY <1>1, <1>11
  <2>2. CASE k = key
    <3>1. echoes'[k] = echoes[k] + 1 /\ Cardinality(Under(k)') <= Cardinality(Under(k)) - 1
      BY <1>11, <1>15, <2>2
    <3> QED  BY <1>14, <1>16, <2>1, <3>1
  <2>3. CASE k # key
    <3>1. echoes'[k] <= echoes[k]
      BY <1>11, <2>3
    <3> QED  BY <1>14, <1>16, <2>1, <3>1
  <2> QED  BY <2>2, <2>3
<1>18. echoes' \in [CallKeys -> Nat]
  BY <1>2, <1>11
<1>19. CallKeys' = CallKeys /\ Counters' = Counters
  BY DEF CallKeys, Counters, Key, Identity
<1>20. redactions' \in Seq(Counters) /\ Distinct(redactions)' /\ Len(redactions') <= Capacity
  BY <1>2, <1>7, <1>9 DEF Distinct
<1>21. IsFiniteSet(scene.asked)'
  BY <1>1, <1>16
<1> QED  BY <1>11, <1>16, <1>17, <1>18, <1>19, <1>20, <1>21 DEF EchoInv

LEMMA EchoStep == RequestInv /\ EchoInv /\ [McpNext]_mcpVars => EchoInv'
<1> SUFFICES ASSUME RequestInv, EchoInv, [McpNext]_mcpVars PROVE EchoInv'
  OBVIOUS
<1>1. /\ scene.asked \subseteq Asked /\ request \in [Asked -> Requests]
      /\ \A q \in Asked : request[q] \in Requests /\ RequestFits(request[q])
  BY McpAssumptions DEF RequestInv
<1>2. ASSUME UNCHANGED <<scene, redactions, echoes, request>> PROVE EchoInv'
  BY <1>2 DEF EchoInv, Distinct, Echoed, Found, Entry, Place, CallKeys, Counters, Key, Identity, Under
<1>3. ASSUME NEW q \in scene.asked, NEW a \in Agents, NEW tool \in Tools, Arrive(q, a, tool) PROVE EchoInv'
  <2> DEFINE r == [Free EXCEPT !.at = "arrived", !.agent = a, !.tool = tool]
  <2>1. UNCHANGED <<scene, redactions, echoes>> /\ (UNCHANGED request \/ request' = [request EXCEPT ![q] = r])
    BY <1>3 DEF Arrive
  <2>2. r \in Requests /\ r.at = "arrived"
    BY McpAssumptions DEF Free, Requests
  <2> HIDE DEF r
  <2>3. CASE UNCHANGED request
    BY <1>2, <2>1, <2>3
  <2>4. CASE request' = [request EXCEPT ![q] = r]
    BY <2>1, <2>2, <2>4, OthersUnder
  <2> QED  BY <2>1, <2>3, <2>4
<1>4. ASSUME NEW q \in scene.asked, UNCHANGED <<scene, redactions, echoes>>, request[q].agent \in Agents,
             request' = [request EXCEPT ![q] = Ended(request[q])]
      PROVE  EchoInv'
  <2>1. PICK e : e = Ended(request[q])
    OBVIOUS
  <2>2. e \in Requests /\ e.at \in {"free", "answered"}
    BY <1>1, <1>4, <2>1, EndedFits
  <2> QED  BY <1>4, <2>1, <2>2, OthersUnder
<1>5. ASSUME NEW q \in scene.asked, UNCHANGED <<scene, redactions, echoes>>, NEW r \in Requests,
             request' = [request EXCEPT ![q] = r], r.agent = request[q].agent, r.tool = request[q].tool,
             request[q].at \in {"reading", "opening", "sent"} \/ r.at \notin {"reading", "opening", "sent"}
      PROVE  EchoInv'
  BY <1>5, OthersUnder
<1>6. ASSUME NEW q \in scene.asked, Admit(q) PROVE EchoInv'
  <2>1. UNCHANGED <<scene, redactions, echoes>>
    BY <1>6 DEF Admit, tallies
  <2> DEFINE r == [request[q] EXCEPT !.at = "admitted"]
  <2>2. r \in Requests /\ r.agent = request[q].agent /\ r.tool = request[q].tool /\ r.at = "admitted"
    BY <1>1 DEF Requests
  <2>3. request' = [request EXCEPT ![q] = r] \/ request' = [request EXCEPT ![q] = Free]
    BY <1>1, <1>6 DEF Admit
  <2> HIDE DEF r
  <2>4. CASE request' = [request EXCEPT ![q] = r]
    BY <1>5, <2>1, <2>2, <2>4
  <2>5. CASE request' = [request EXCEPT ![q] = Free]
    BY <2>1, <2>5, FreeFits, OthersUnder
  <2> QED  BY <2>3, <2>4, <2>5
<1>7. ASSUME NEW q \in scene.asked, Begin(q) PROVE EchoInv'
  <2>1. UNCHANGED <<scene, redactions, echoes>> /\ request[q].agent \in Agents
    BY <1>1, <1>7 DEF Begin, tallies, RequestFits
  <2> DEFINE r == [request[q] EXCEPT !.at = "reading"]
             on == ~Spent("call", request[q].agent) /\ Offered(q)
                   /\ (request[q].tool = "http" => Echoed(Key(request[q].agent)) < RedactionLimit)
  <2>2. r \in Requests /\ r.agent = request[q].agent /\ r.tool = request[q].tool
    BY <1>1 DEF Requests
  <2>3. request' = [request EXCEPT ![q] = IF on THEN r ELSE Ended(request[q])]
    BY <1>1, <1>7 DEF Begin
  <2>4. on => (r.tool = "http" => Echoed(Key(r.agent)) < RedactionLimit)
    BY <2>2
  <2> HIDE DEF r, on
  <2>5. CASE on
    BY <2>1, <2>2, <2>3, <2>4, <2>5, OthersUnder
  <2>6. CASE ~on
    BY <1>4, <2>1, <2>3, <2>6
  <2> QED  BY <2>5, <2>6
<1>8. ASSUME NEW q \in scene.asked, NEW host \in Servers, ReadMeta(q, host) PROVE EchoInv'
  <2>1. UNCHANGED <<scene, redactions, echoes>> /\ request[q].at = "reading" /\ request[q].agent \in Agents
    BY <1>1, <1>8 DEF ReadMeta, limits, tallies, history, RequestFits
  <2> DEFINE meta == record[request[q].agent.secret]
             r == [request[q] EXCEPT !.at = "opening", !.meta = meta, !.host = host]
  <2>2. meta \in Contents
    BY <2>1 DEF RequestInv, Records
  <2>3. r \in Requests /\ r.agent = request[q].agent /\ r.tool = request[q].tool
    BY <1>1, <2>2 DEF Requests
  <2>4. request' = [request EXCEPT ![q] = r] \/ request' = [request EXCEPT ![q] = Ended(request[q])]
    <3> HIDE DEF r
    <3>1. PICK b \in BOOLEAN : request' = [request EXCEPT ![q] = IF b THEN r ELSE Ended(request[q])]
      <4> DEFINE go == /\ Identity(request[q].agent) \in meta.readers
                       /\ CASE request[q].tool = "http" -> meta.type \notin NeverOverHttp /\ CheckUrl(host, meta.allow)
                            [] request[q].tool = "otp" -> meta.type = "totp"
                            [] request[q].tool = "sign" -> meta.type = "privkey"
      <4>1. request' = [request EXCEPT ![q] = IF go THEN r ELSE Ended(request[q])]
        BY <1>1, <1>8 DEF ReadMeta, r
      <4>2. PICK b \in BOOLEAN : b <=> go
        OBVIOUS
      <4> HIDE DEF go
      <4> QED  BY <4>1, <4>2
    <3> QED  BY <3>1
  <2> HIDE DEF r
  <2>5. CASE request' = [request EXCEPT ![q] = r]
    BY <1>5, <2>1, <2>3, <2>5
  <2>6. CASE request' = [request EXCEPT ![q] = Ended(request[q])]
    BY <1>4, <2>1, <2>6
  <2> QED  BY <2>4, <2>5, <2>6
<1>9. ASSUME NEW q \in scene.asked, GetSecret(q) PROVE EchoInv'
  <2>1. UNCHANGED <<scene, redactions, echoes>> /\ request[q].at = "opening" /\ request[q].agent \in Agents
    BY <1>1, <1>9 DEF GetSecret, limits, tallies, RequestFits
  <2> DEFINE r == [request[q] EXCEPT !.at = "sent"]
  <2>2. r \in Requests /\ r.agent = request[q].agent /\ r.tool = request[q].tool
    BY <1>1 DEF Requests
  <2>3. request' = [request EXCEPT ![q] = r] \/ request' = [request EXCEPT ![q] = Ended(request[q])]
    BY <1>1, <1>9 DEF GetSecret
  <2> HIDE DEF r
  <2>4. CASE request' = [request EXCEPT ![q] = r]
    BY <1>5, <2>1, <2>2, <2>4
  <2>5. CASE request' = [request EXCEPT ![q] = Ended(request[q])]
    BY <1>4, <2>1, <2>5
  <2> QED  BY <2>3, <2>4, <2>5
<1>10. ASSUME NEW q \in scene.asked, Echo(q) PROVE EchoInv'
  BY <1>10, EchoKeeps
<1>11. ASSUME NEW q \in scene.asked, Answer(q) PROVE EchoInv'
  <2>1. /\ UNCHANGED <<scene, redactions, echoes>> /\ request[q].agent \in Agents
        /\ request' = [request EXCEPT ![q] = Ended(request[q])]
    BY <1>1, <1>11 DEF Answer, limits, tallies, history, RequestFits
  <2> QED  BY <1>4, <2>1
<1>12. ASSUME NEW q \in scene.asked, Close(q) PROVE EchoInv'
  <2>1. UNCHANGED <<scene, redactions, echoes>>
    BY <1>12 DEF Close, limits, tallies, history
  <2> DEFINE r == [request[q] EXCEPT !.closed = TRUE]
  <2>2. r \in Requests /\ r.agent = request[q].agent /\ r.tool = request[q].tool /\ r.at = request[q].at
    BY <1>1 DEF Requests
  <2>3. request' = [request EXCEPT ![q] = r] \/ request' = [request EXCEPT ![q] = Free]
    BY <1>1, <1>12 DEF Close
  <2> HIDE DEF r
  <2>4. CASE request' = [request EXCEPT ![q] = r]
    BY <1>5, <2>1, <2>2, <2>4
  <2>5. CASE request' = [request EXCEPT ![q] = Free]
    BY <2>1, <2>5, FreeFits, OthersUnder
  <2> QED  BY <2>3, <2>4, <2>5
<1>13. ASSUME NEW s \in DOMAIN record, NEW content \in Contents, Store(s, content) PROVE EchoInv'
  BY <1>2, <1>13 DEF Store, limits, history
<1>14. CASE TimePasses \/ UNCHANGED mcpVars
  BY <1>2, <1>14 DEF TimePasses, limits, tallies, history, mcpVars
<1> QED  BY <1>3, <1>6, <1>7, <1>8, <1>9, <1>10, <1>11, <1>12, <1>13, <1>14 DEF McpNext

\* No budget lets more through than its limit, and what hosts echoed goes out of use.
THEOREM BudgetsAreHeld == McpSpec => []BudgetsHold
<1>1. McpInit => BudgetInv /\ EchoInv
  BY BudgetInitInv, EchoInitInv
<1>2. RequestInv /\ (BudgetInv /\ EchoInv) /\ [McpNext]_mcpVars => (BudgetInv /\ EchoInv)'
  BY BudgetStep, EchoStep
<1>3. BudgetInv /\ EchoInv => BudgetsHold
  <2> SUFFICES ASSUME BudgetInv, EchoInv PROVE BudgetsHold
    OBVIOUS
  <2>1. ASSUME NEW m \in Maps, NEW j \in DOMAIN served[m]
        PROVE  Cardinality({i \in 1..j : /\ served[m][i].key = served[m][j].key
                                         /\ served[m][j].at - served[m][i].at < Minute
                                         /\ Cardinality(Between(m, i, j)) < Capacity}) <= Limit[m]
    <3>1. Cardinality(Passing(served[m], j)) <= Limit[m]
      BY DEF BudgetInv, BudgetFits
    <3> QED  BY <3>1 DEF Passing, Between
  <2>2. ASSUME NEW k \in CallKeys PROVE echoes[k] <= RedactionLimit + Cardinality(scene.asked) - 1
    <3>1. echoes[k] \in Nat /\ echoes[k] + Cardinality(Under(k)) <= RedactionLimit + Cardinality(scene.asked) - 1
          /\ IsFiniteSet(scene.asked) /\ Under(k) \in SUBSET scene.asked
      BY DEF EchoInv, Under
    <3>2. Cardinality(Under(k)) \in Nat /\ Cardinality(scene.asked) \in Nat /\ RedactionLimit \in Nat
      BY <3>1, FS_Subset, FS_CardinalityType, McpAssumptions
    <3> QED  BY <3>1, <3>2
  <2> QED  BY <2>1, <2>2 DEF BudgetsHold
<1> QED  BY <1>1, <1>2, <1>3, RequestInvHolds, PTL DEF McpSpec

----------------------------------------------------------------------------
\* A run of the readers is a run of the extension and a run of the server, so what is
\* proved of either holds of it.
LEMMA ReadersAreEither == ReadersSpec => Spec /\ McpSpec
<1>1. ReadersInit => Init /\ McpInit
  BY DEF ReadersInit
<1>2. [ReadersNext]_readerVars => [Next]_vars /\ [McpNext]_mcpVars
  BY DEF ReadersNext, readerVars
<1> QED  BY <1>1, <1>2, PTL DEF ReadersSpec, Spec, McpSpec
=============================================================================

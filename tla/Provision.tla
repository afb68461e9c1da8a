------------------------------ MODULE Provision ------------------------------
(***************************************************************************)
(* Sponsored setup: the wizard (web/src/components/dashboard/              *)
(* setup-wizard.tsx) asks the server (web/src/app/api/provision/route.ts)  *)
(* to start and then to finish; lib/provision.ts deploys three proxies,    *)
(* commits to the name, registers it and hands over its registry, in waves *)
(* of transactions of the one sponsor wallet (lib/server-chain.ts).        *)
(*                                                                         *)
(* A tab has one request out at a time.  A request works from the document *)
(* it read first; every await is a step, except that reads with nothing    *)
(* done between them are one.  A wave is submitted under the nonce queue,  *)
(* in one step, and the sponsor's transactions are mined in nonce order.   *)
(***************************************************************************)
EXTENDS Integers, FiniteSets, Sequences

CONSTANTS
    Wallets,
    Tabs,         \* open wizards, each with at most one request out
    Nobody,       \* the wallet of a tab with nothing to show for it
    None, Lost,   \* a recovery key not published; one whose phrase is gone
    Cap,          \* REWALL_PROVISION_CAP
    Scenarios     \* bound: the wallets and tabs of a behaviour, and its faults:
                  \* crashes, late receipts, failed calls, names others take

ASSUME ProvisionAssumptions ==
    /\ Nobody \notin Wallets \cup Tabs
    /\ None \notin Tabs /\ Lost \notin Tabs /\ None # Lost
    /\ Cap \in Nat
    /\ Scenarios \subseteq [wallets : SUBSET Wallets, tabs : SUBSET Tabs, faults : Nat]

VARIABLES
    doc,        \* the ledger: each wallet's document
    site,       \* the chain: each wallet's proxies, commitment, name and roles
    usdc,       \* names the sponsor's tokens pay for
    allowance,  \* names the registrar may charge it for
    mempool,    \* the sponsor's pending transactions, in nonce order
    req,        \* the request of each tab
    shown,      \* the wallet whose phrase a tab shows
    scenario,   \* who plays, and how many faults there may be
    faults,     \* faults so far
    harm        \* ghost: what got in the way of each wallet's setup

chain == <<site, usdc, allowance>>
bounds == <<scenario, faults>>
vars == <<doc, site, usdc, allowance, mempool, req, shown, scenario, faults, harm>>

Proxies == {"resolver", "registry", "namespaces"}
Harms == {"two starts", "crash", "words gone", "finish failed"}
DeployOrder == [resolver |-> 1, registry |-> 2, namespaces |-> 3]
Kinds == Proxies \cup {"commit", "mint", "approve", "register", "grant", "label", "revoke"}

\* Provisioned: what a document, and a request's copy of it, say.
Unprovisioned == [proxies |-> {}, committed |-> FALSE, registered |-> FALSE]
States == [proxies : SUBSET Proxies, committed : BOOLEAN, registered : BOOLEAN]

Idle == [at |-> "idle", wallet |-> Nobody, phase |-> "start", state |-> Unprovisioned,
         todo |-> {}, wave |-> <<>>, rest |-> <<>>, ok |-> TRUE]
Places == {"idle", "cap", "available", "plan", "funds", "send", "receipts", "save",
           "rescue", "answer", "check"}

Init ==
    /\ doc = [w \in Wallets |-> [begun |-> FALSE, done |-> FALSE, state |-> Unprovisioned]]
    /\ site = [w \in Wallets |->
          [proxies |-> {}, key |-> None, commitment |-> "none", name |-> "free",
           projectRoot |-> FALSE, userRoot |-> FALSE, labelled |-> FALSE]]
    /\ usdc = 0 /\ allowance = 0
    /\ mempool = <<>>
    /\ req = [t \in Tabs |-> Idle]
    /\ shown = [t \in Tabs |-> Nobody]
    /\ scenario \in Scenarios /\ faults = 0
    /\ harm = [w \in Wallets |-> {}]

----------------------------------------------------------------------------
\* Transactions.

Tx(kind, t) == [kind |-> kind, wallet |-> req[t].wallet, by |-> t,
                key |-> IF kind = "resolver" THEN t ELSE None]

\* Whether it would go through on the chain as it is.
Succeeds(tx) ==
    LET s == site[tx.wallet]
    IN CASE tx.kind \in Proxies -> tx.kind \notin s.proxies
         [] tx.kind = "register" -> /\ s.commitment = "mature" /\ s.name = "free"
                                    /\ usdc > 0 /\ allowance > 0
         [] tx.kind \in {"grant", "revoke"} -> s.projectRoot
         [] tx.kind = "label" -> s.projectRoot /\ ~s.labelled
         [] OTHER -> TRUE

\* What it does to its wallet's contracts.
After(tx, s) ==
    CASE tx.kind = "resolver" -> [s EXCEPT !.proxies = @ \cup {"resolver"}, !.key = tx.key]
      [] tx.kind = "registry" -> [s EXCEPT !.proxies = @ \cup {"registry"}, !.projectRoot = TRUE]
      [] tx.kind = "namespaces" -> [s EXCEPT !.proxies = @ \cup {"namespaces"}]
      [] tx.kind = "commit" -> [s EXCEPT !.commitment = "fresh"]
      [] tx.kind = "register" -> [s EXCEPT !.name = "mine"]
      [] tx.kind = "grant" -> [s EXCEPT !.userRoot = TRUE]
      [] tx.kind = "label" -> [s EXCEPT !.labelled = TRUE]
      [] tx.kind = "revoke" -> [s EXCEPT !.projectRoot = FALSE]
      [] OTHER -> s

\* mint tops the balance up; approve sets the allowance, it does not add to it.
Mine ==
    /\ mempool # <<>>
    /\ LET tx == Head(mempool)
       IN \/ /\ Succeeds(tx)
             /\ site' = [site EXCEPT ![tx.wallet] = After(tx, @)]
             /\ usdc' = usdc + CASE tx.kind = "mint" -> 1
                                 [] tx.kind = "register" -> -1 [] OTHER -> 0
             /\ allowance' = CASE tx.kind = "approve" -> 1
                               [] tx.kind = "register" -> allowance - 1
                               [] OTHER -> allowance
             /\ UNCHANGED req
          \/ /\ ~Succeeds(tx)
             /\ req' = IF tx.by \in Tabs THEN [req EXCEPT ![tx.by].ok = FALSE] ELSE req
             /\ UNCHANGED chain
    /\ mempool' = Tail(mempool)
    /\ UNCHANGED <<doc, shown, bounds, harm>>

\* MIN_COMMITMENT_AGE passes.
Mature(w) ==
    /\ site[w].commitment = "fresh"
    /\ site' = [site EXCEPT ![w].commitment = "mature"]
    /\ UNCHANGED <<doc, usdc, allowance, mempool, req, shown, bounds, harm>>

\* Somebody else registers the name.
Squat(w) ==
    /\ site[w].name = "free" /\ faults < scenario.faults
    /\ faults' = faults + 1
    /\ site' = [site EXCEPT ![w].name = "taken"]
    /\ UNCHANGED <<doc, usdc, allowance, mempool, req, shown, scenario, harm>>

\* A request that ends stops waiting; what it broadcast stays broadcast.
Disowned(tabs, pool) ==
    [i \in DOMAIN pool |-> IF pool[i].by \in tabs THEN [pool[i] EXCEPT !.by = Nobody] ELSE pool[i]]

----------------------------------------------------------------------------
\* The wizard's two calls.

Serves(t, w) == req[t].at # "idle" /\ req[t].wallet = w
Begin(t, w, phase, at) ==
    req' = [req EXCEPT ![t] = [Idle EXCEPT !.at = at, !.wallet = w, !.phase = phase,
                                           !.state = doc[w].state]]

\* The words of the tab's last attempt, if it had one, are gone.
Forgetting(t, pool) ==
    [i \in DOMAIN pool |-> IF pool[i].key = t THEN [pool[i] EXCEPT !.key = Lost] ELSE pool[i]]
ForgetWords(t) ==
    /\ site' = [w \in Wallets |-> IF site[w].key = t THEN [site[w] EXCEPT !.key = Lost] ELSE site[w]]
    /\ mempool' = Forgetting(t, mempool)
WordsGone(t) == {w \in Wallets :
    \/ site[w].key = t
    \/ \E i \in DOMAIN mempool : mempool[i].wallet = w /\ mempool[i].kind = "resolver"
                                 /\ mempool[i].key = t}
TwoStarts(t, w) ==
    IF \E u \in Tabs \ {t} : Serves(u, w) /\ req[u].phase = "start" THEN {w} ELSE {}

Harmed(how, wallets) == [w \in Wallets |-> harm[w] \cup IF w \in wallets THEN {how} ELSE {}]

\* claim makes new words and posts a start.  For a wallet whose setup is complete
\* the answer is done, with no key to compare: the words are shown.
Claim(t, w) ==
    /\ req[t].at = "idle" /\ shown[t] = Nobody
    /\ ForgetWords(t)
    /\ \/ /\ doc[w].done
          /\ shown' = [shown EXCEPT ![t] = w]
          /\ UNCHANGED <<req, harm>>
       \/ /\ ~doc[w].done
          /\ Begin(t, w, "start", IF doc[w].begun THEN "available" ELSE "cap")
          /\ harm' = Harmed("two starts", TwoStarts(t, w))
          /\ UNCHANGED shown
    /\ UNCHANGED <<doc, usdc, allowance, bounds>>

\* finish, once the words are saved; an immature commitment answers 425 and the
\* wizard asks again.
Finish(t) ==
    LET w == shown[t]
    IN /\ req[t].at = "idle" /\ w # Nobody
       /\ \/ /\ doc[w].done
             /\ shown' = [shown EXCEPT ![t] = Nobody]
             /\ UNCHANGED req
          \/ /\ ~doc[w].done /\ doc[w].state.committed /\ site[w].commitment = "mature"
             /\ Begin(t, w, "finish", "check")
             /\ UNCHANGED shown
       /\ UNCHANGED <<doc, chain, mempool, bounds, harm>>

\* The page is reloaded, and the words on it are gone.
Reload(t) ==
    /\ req[t].at = "idle" /\ shown[t] # Nobody
    /\ shown' = [shown EXCEPT ![t] = Nobody]
    /\ ForgetWords(t)
    /\ harm' = Harmed("words gone", WordsGone(t))
    /\ UNCHANGED <<doc, usdc, allowance, req, bounds>>

----------------------------------------------------------------------------
\* A request, await by await.

\* The steps of a request leave the chain, the mempool and the tab alone.
Quiet == UNCHANGED <<chain, mempool, shown, bounds, harm>>
Goto(t, at) == req' = [req EXCEPT ![t].at = at]
End(t) == req' = [req EXCEPT ![t] = Idle]

\* An error: start saves what it has, finish does not.
Throw(t, keep) ==
    IF req[t].phase = "start"
    THEN req' = [req EXCEPT ![t] = [Idle EXCEPT !.at = "rescue", !.wallet = req[t].wallet,
                                                !.state = keep]]
    ELSE End(t)

\* The cap, counted over the documents there are now.
ReadCap(t) ==
    /\ req[t].at = "cap"
    /\ \/ Cardinality({w \in Wallets : doc[w].begun}) < Cap /\ Goto(t, "available")
       \/ Cardinality({w \in Wallets : doc[w].begun}) >= Cap /\ End(t)
    /\ UNCHANGED doc /\ Quiet

\* Mutant of Missing: a planned address is trusted without looking at the chain.
MissingFromDoc(t) == Proxies \ req[t].state.proxies

\* A planned address is never trusted until it holds code.
Missing(t) == Proxies \ (req[t].state.proxies \cap site[req[t].wallet].proxies)

\* isAvailable, and the three deployed.
Available(t) ==
    /\ req[t].at = "available"
    /\ \/ /\ site[req[t].wallet].name = "free" \/ req[t].state.committed
          /\ req' = [req EXCEPT ![t].at = "plan", ![t].todo = Missing(t)]
       \/ /\ ~(site[req[t].wallet].name = "free" \/ req[t].state.committed)
          /\ Throw(t, req[t].state)
    /\ UNCHANGED doc /\ Quiet

FirstOf(proxies) == CHOOSE p \in proxies : \A q \in proxies : DeployOrder[p] <= DeployOrder[q]

\* planProxy, one after another; a salt already spent makes the simulation throw.
Plan(t) ==
    LET p == FirstOf(req[t].todo)
    IN /\ req[t].at = "plan" /\ req[t].todo # {}
       /\ \/ /\ p \notin site[req[t].wallet].proxies
             /\ req' = [req EXCEPT ![t].todo = @ \ {p}, ![t].wave = Append(@, p),
                                   ![t].state.proxies = @ \cup {p}]
          \/ /\ p \in site[req[t].wallet].proxies
             /\ Throw(t, req[t].state)
       /\ UNCHANGED doc /\ Quiet

\* A resumed setup sends the deploys it still lacks, any other reads the price,
\* the balance and the allowance and sends the commitment first.
Funds(t) ==
    /\ req[t].at = "plan" /\ req[t].todo = {}
    /\ LET mint == IF usdc < 1 THEN <<"mint">> ELSE <<>>
           approve == IF allowance < 1 THEN <<"approve">> ELSE <<>>
           wave == IF req[t].state.committed THEN req[t].wave
                   ELSE <<"commit">> \o mint \o approve \o req[t].wave
       IN req' = [req EXCEPT ![t].at = "send", ![t].wave = wave]
    /\ UNCHANGED doc /\ Quiet

\* Mutant of Handover: the project keeps its root.
HandoverKept(s) ==
    [first |-> <<"register">> \o (IF s.userRoot THEN <<>> ELSE <<"grant">>),
     second |-> IF s.labelled THEN <<>> ELSE <<"label">>]

\* Mutant of Handover: the project gives up its root beside the registration.
HandoverEarly(s) ==
    [first |-> <<"register">> \o (IF s.userRoot THEN <<>> ELSE <<"grant">>)
                              \o (IF s.projectRoot THEN <<"revoke">> ELSE <<>>),
     second |-> IF s.labelled THEN <<>> ELSE <<"label">>]

\* The two waves of finish, from one reading of the registry: the namespace needs
\* the name, and the root that revoke gives up.
Handover(s) ==
    [first |-> <<"register">> \o (IF s.userRoot THEN <<>> ELSE <<"grant">>),
     second |-> (IF s.labelled THEN <<>> ELSE <<"label">>)
                \o (IF s.projectRoot THEN <<"revoke">> ELSE <<>>)]

Check(t) ==
    /\ req[t].at = "check"
    /\ LET waves == Handover(site[req[t].wallet])
       IN req' = [req EXCEPT ![t].at = "send", ![t].wave = waves.first,
                             ![t].rest = waves.second]
    /\ UNCHANGED doc /\ Quiet

\* The transactions of a wave whose gas can be estimated on the chain as it is:
\* the first that would fail throws, and what went before it has gone.
Estimated(t) ==
    Cardinality({k \in DOMAIN req[t].wave : \A i \in 1..k : Succeeds(Tx(req[t].wave[i], t))})
Sent(t, k) == [i \in 1..k |-> Tx(req[t].wave[i], t)]

Submit(t) ==
    /\ req[t].at = "send"
    /\ LET k == Estimated(t)
       IN \/ /\ k = Len(req[t].wave)
             /\ mempool' = mempool \o Sent(t, k)
             /\ Goto(t, "receipts")
          \/ /\ k < Len(req[t].wave)
             /\ mempool' = mempool \o Disowned({t}, Sent(t, k))
             /\ Throw(t, req[t].state)
    /\ UNCHANGED <<doc, chain, shown, bounds, harm>>

Waiting(t) == \E i \in DOMAIN mempool : mempool[i].by = t

\* Every receipt came.  A revert throws; else the next wave, or the save.
Receipts(t) ==
    /\ req[t].at = "receipts" /\ ~Waiting(t)
    /\ \/ /\ ~req[t].ok
          /\ Throw(t, req[t].state)
       \/ /\ req[t].ok /\ req[t].phase = "start"
          /\ req' = [req EXCEPT ![t].at = "save", ![t].state.committed = TRUE]
       \/ /\ req[t].ok /\ req[t].phase = "finish" /\ ~req[t].state.registered
          /\ req' = [req EXCEPT ![t].at = "send", ![t].state.registered = TRUE,
                                ![t].wave = req[t].rest]
       \/ /\ req[t].ok /\ req[t].phase = "finish" /\ req[t].state.registered
          /\ Goto(t, "save")
    /\ UNCHANGED doc /\ Quiet

Store(t, done) ==
    doc' = [doc EXCEPT ![req[t].wallet] =
        [begun |-> TRUE, done |-> @.done \/ done, state |-> req[t].state]]

Save(t) ==
    /\ req[t].at = "save"
    /\ Store(t, req[t].phase = "finish")
    /\ IF req[t].phase = "start"
       THEN Goto(t, "answer") /\ UNCHANGED shown
       ELSE End(t) /\ shown' = [shown EXCEPT ![t] = Nobody]
    /\ UNCHANGED <<chain, mempool, bounds, harm>>

\* Mutant of Rescue: the state of a start that failed is not saved.
RescueNothing(t) ==
    /\ req[t].at = "rescue"
    /\ End(t)
    /\ harm' = Harmed("words gone", WordsGone(t))
    /\ UNCHANGED <<doc, chain, mempool, shown, bounds>>

\* The wizard drops the words of a start that failed.
Rescue(t) ==
    /\ req[t].at = "rescue"
    /\ Store(t, FALSE)
    /\ End(t)
    /\ harm' = Harmed("words gone", WordsGone(t))
    /\ UNCHANGED <<chain, mempool, shown, bounds>>

\* Mutant of Answer: the words are shown whatever key the resolver holds.
AnswerAnyKey(t) ==
    /\ req[t].at = "answer"
    /\ End(t)
    /\ shown' = [shown EXCEPT ![t] = req[t].wallet]
    /\ UNCHANGED <<doc, chain, mempool, bounds, harm>>

\* publishedRecoveryKey, and the wizard's comparison with its own.
Answer(t) ==
    /\ req[t].at = "answer"
    /\ End(t)
    /\ shown' = [shown EXCEPT ![t] = IF site[req[t].wallet].key = t THEN req[t].wallet ELSE @]
    /\ UNCHANGED <<doc, chain, mempool, bounds, harm>>

----------------------------------------------------------------------------
\* Faults.

\* A fault that a retry of start gets over does no harm of its own.
Fault(t) ==
    /\ faults < scenario.faults
    /\ faults' = faults + 1
    /\ harm' = IF req[t].phase = "start" THEN harm ELSE Harmed("finish failed", {req[t].wallet})

\* The RPC fails in the middle of a wave.
SubmitFails(t) ==
    /\ req[t].at = "send"
    /\ Fault(t)
    /\ \E k \in 0..Estimated(t) : mempool' = mempool \o Disowned({t}, Sent(t, k))
    /\ Throw(t, req[t].state)
    /\ UNCHANGED <<doc, chain, shown, scenario>>

\* RECEIPT_TIMEOUT: the transactions may land later.
ReceiptLate(t) ==
    /\ req[t].at = "receipts" /\ Waiting(t)
    /\ Fault(t)
    /\ mempool' = Disowned({t}, mempool)
    /\ Throw(t, req[t].state)
    /\ UNCHANGED <<doc, chain, shown, scenario>>

\* Every request dies; the open wizards get an error.
Crash ==
    /\ faults < scenario.faults
    /\ faults' = faults + 1
    /\ mempool' = Disowned(Tabs, mempool)
    /\ harm' = Harmed("crash", {w \in Wallets : \E t \in Tabs : Serves(t, w)})
    /\ req' = [t \in Tabs |-> Idle]
    /\ UNCHANGED <<doc, chain, shown, scenario>>

Step(t) ==
    \/ ReadCap(t) \/ Available(t) \/ Plan(t) \/ Funds(t) \/ Check(t)
    \/ Submit(t) \/ Receipts(t) \/ Save(t) \/ Rescue(t) \/ Answer(t)

Next ==
    \/ \E t \in scenario.tabs : Step(t) \/ Finish(t) \/ Reload(t) \/ SubmitFails(t) \/ ReceiptLate(t)
    \/ \E t \in scenario.tabs, w \in scenario.wallets : Claim(t, w)
    \/ \E w \in scenario.wallets : Mature(w) \/ Squat(w)
    \/ Mine \/ Crash

ClaimSome(w) == \E t \in scenario.tabs : w \in scenario.wallets /\ Claim(t, w)

\* Requests go on, transactions are mined and commitments mature; the user of a
\* wallet presses each button again and again.
Fairness ==
    /\ WF_vars(Mine)
    /\ \A t \in Tabs : WF_vars(Step(t)) /\ SF_vars(Finish(t))
    /\ \A w \in Wallets : WF_vars(Mature(w)) /\ SF_vars(ClaimSome(w))

Spec == Init /\ [][Next]_vars
FairSpec == Spec /\ Fairness
----------------------------------------------------------------------------
\* Properties.

\* Every variable keeps its type.
TypeOK ==
    /\ doc \in [Wallets -> [begun : BOOLEAN, done : BOOLEAN, state : States]]
    /\ site \in [Wallets -> [proxies : SUBSET Proxies, key : Tabs \cup {None, Lost},
                             commitment : {"none", "fresh", "mature"},
                             name : {"free", "mine", "taken"},
                             projectRoot : BOOLEAN, userRoot : BOOLEAN, labelled : BOOLEAN]]
    /\ usdc \in Nat /\ allowance \in Nat
    /\ \A i \in DOMAIN mempool : mempool[i] \in [kind : Kinds, wallet : Wallets,
                                                 by : Tabs \cup {Nobody}, key : Tabs \cup {None, Lost}]
    /\ req \in [Tabs -> [at : Places, wallet : Wallets \cup {Nobody}, phase : {"start", "finish"},
                         state : States, todo : SUBSET Proxies, wave : Seq(Kinds),
                         rest : Seq(Kinds), ok : BOOLEAN]]
    /\ shown \in [Tabs -> Wallets \cup {Nobody}]
    /\ scenario \in Scenarios /\ faults \in 0..scenario.faults
    /\ harm \in [Wallets -> SUBSET Harms]

\* A registry never loses its root: the project keeps its own until the user has
\* theirs and the rewall label is registered (the order of the second wave).
RootIsHandedOver ==
    \A w \in Wallets : "registry" \in site[w].proxies /\ ~site[w].projectRoot
                          => site[w].userRoot /\ site[w].labelled /\ site[w].name = "mine"

\* completedAt is true of the chain and stays true of it, whatever a start that
\* was still running writes over the document.
DoneIsDone ==
    \A w \in Wallets : doc[w].done =>
        /\ site[w].name = "mine" /\ site[w].labelled
        /\ site[w].userRoot /\ ~site[w].projectRoot

\* Once its requests are over, a wallet's document knows every salt the factory
\* has spent for it, or a retry would deploy it again and fail for good, but for
\* two starts at once or a crash (the partial state saved before rethrowing).
SaltsRemembered ==
    \A w \in Wallets :
        harm[w] \cap {"two starts", "crash"} = {} /\ (\A t \in Tabs : ~Serves(t, w))
            => site[w].proxies \subseteq doc[w].state.proxies

\* The words a tab shows recover the vault it set up: their key is the one on the
\* resolver.  Not so for a setup that was complete before: start then answers done
\* without a key to compare (see Claim).
FreshPhraseRecovers ==
    \A t \in Tabs : shown[t] # Nobody /\ ~doc[shown[t]].done => site[shown[t]].key = t

\* Setup ends for a wallet that nobody races for its name or for the sponsor's
\* tokens, whose words are not lost on the way and whose finish does not fail: a
\* start that failed before its resolver was sent is resumed.
Alone(w) == \A v \in Wallets \ {w} : ~doc[v].begun /\ \A t \in Tabs : ~Serves(t, v)
SetupFinishes ==
    \A w \in Wallets :
        [](w \in scenario.wallets /\ Alone(w) /\ harm[w] = {} /\ site[w].name # "taken")
            => <>doc[w].done
=============================================================================

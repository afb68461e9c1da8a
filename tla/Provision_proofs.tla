-------------------------- MODULE Provision_proofs --------------------------
(***************************************************************************)
(* Sponsored setup, proved for any number of wallets, tabs and faults: a   *)
(* registry never loses its root, completedAt is true and stays true, the  *)
(* words on the screen are those of the vault, and no spent salt is        *)
(* forgotten.  The first two come from HandInv, which says of a request at *)
(* every await, and of a revocation that waits to be mined, what it counts *)
(* on; the other two from HandInv and what the tabs and documents share.   *)
(***************************************************************************)
EXTENDS Provision, FiniteSetTheorems, SequenceTheorems, TLAPS

----------------------------------------------------------------------------
\* The inductive invariant of sponsored setup.
Txs == [kind : Kinds, wallet : Wallets, by : Tabs \cup {Nobody}, key : Tabs \cup {None, Lost}]
Sites == [proxies : SUBSET Proxies, key : Tabs \cup {None, Lost},
          commitment : {"none", "fresh", "mature"}, name : {"free", "mine", "taken"},
          projectRoot : BOOLEAN, userRoot : BOOLEAN, labelled : BOOLEAN]
Docs == [begun : BOOLEAN, done : BOOLEAN, state : States]
Reqs == [at : Places, wallet : Wallets \cup {Nobody}, phase : {"start", "finish"},
         state : States, todo : SUBSET Proxies, wave : Seq(Kinds), rest : Seq(Kinds), ok : BOOLEAN]

ProvTypes ==
    /\ doc \in [Wallets -> Docs] /\ site \in [Wallets -> Sites] /\ mempool \in Seq(Txs)
    /\ req \in [Tabs -> Reqs] /\ shown \in [Tabs -> Wallets \cup {Nobody}]
    /\ harm \in [Wallets -> SUBSET Harms] /\ scenario \in Scenarios

\* What waits to be mined, and what is done for good.
Pending(w, kind, t) == \E i \in DOMAIN mempool : /\ mempool[i].wallet = w /\ mempool[i].kind = kind
                                                 /\ mempool[i].by = t
Deployed(w) == site[w].proxies = Proxies
Owned(w) == site[w].name = "mine" /\ site[w].userRoot
HandedOver(w) == Owned(w) /\ site[w].labelled /\ ~site[w].projectRoot

Holds(wave, kind) == \E i \in DOMAIN wave : wave[i] = kind

\* A second wave: the label, if it is not there yet, goes before the revocation.
LabelFirst(wave) ==
    \E i \in DOMAIN wave : wave[i] = "label" /\ \A j \in DOMAIN wave : wave[j] = "revoke" => i < j
RestFits(w, wave) ==
    /\ \A i \in DOMAIN wave : wave[i] \in {"label", "revoke"}
    /\ site[w].labelled \/ LabelFirst(wave)
    /\ ~site[w].projectRoot \/ Holds(wave, "revoke")

\* A start: what it planned is in its state, and on its way where it is not deployed.
StartFits(t, r) ==
    /\ r.at \in {"cap", "available", "plan", "send", "receipts", "save", "rescue", "answer"}
    /\ r.state.registered => doc[r.wallet].done
    /\ r.at = "cap" => r.state.proxies = {}
    /\ r.at \in {"cap", "available"} => r.wave = <<>>
    /\ r.at = "plan" => \A p \in Proxies \ r.todo :
          p \in r.state.proxies /\ (p \in site[r.wallet].proxies \/ Holds(r.wave, p))
    /\ r.at = "send" => \A p \in Proxies :
          p \in r.state.proxies /\ (p \in site[r.wallet].proxies \/ Holds(r.wave, p))
    /\ r.at = "receipts" => \A p \in Proxies :
          p \in r.state.proxies /\ (p \in site[r.wallet].proxies \/ Pending(r.wallet, p, t))
    /\ r.at \in {"save", "answer"} => r.state.committed
    /\ r.at \in {"plan", "send"} =>
          \A i \in DOMAIN r.wave : r.wave[i] \in r.state.proxies \cup {"commit", "mint", "approve"}

\* A finish: what each wave is there for is done, or on its way while no receipt failed.
FinishFits(t, r) ==
    LET w == r.wallet
    IN  /\ r.at \in {"check", "send", "receipts", "save"}
        /\ r.state.committed
        /\ r.at = "check" => ~r.state.registered
        /\ r.at \in {"send", "receipts"} /\ ~r.state.registered => RestFits(w, r.rest)
        /\ r.at \in {"send", "receipts"} /\ r.state.registered => Owned(w)
        /\ r.at = "send" /\ ~r.state.registered =>
              /\ Holds(r.wave, "register")
              /\ site[w].userRoot \/ Holds(r.wave, "grant")
              /\ \A i \in DOMAIN r.wave : r.wave[i] \in {"register", "grant"}
        /\ r.at = "send" /\ r.state.registered => RestFits(w, r.wave)
        /\ r.at = "receipts" /\ ~r.state.registered /\ r.ok =>
              /\ site[w].name = "mine" \/ Pending(w, "register", t)
              /\ site[w].userRoot \/ Pending(w, "grant", t)
        /\ r.at = "receipts" /\ r.state.registered /\ r.ok =>
              /\ site[w].labelled \/ Pending(w, "label", t)
              /\ ~site[w].projectRoot \/ Pending(w, "revoke", t)
        /\ r.at = "save" => HandedOver(w)

Fits(t, r) ==
    IF r.at = "idle" THEN r.phase = "start"
    ELSE /\ r.wallet \in Wallets
         /\ r.state.committed => r.state.proxies = Proxies /\ Deployed(r.wallet)
         /\ r.phase = "start" => StartFits(t, r)
         /\ r.phase = "finish" => FinishFits(t, r)

SiteFits(w) ==
    /\ "registry" \in site[w].proxies /\ ~site[w].projectRoot => HandedOver(w)
    /\ site[w].key \in Tabs => "resolver" \in site[w].proxies
DocFits(w) ==
    /\ doc[w].state.committed => doc[w].state.proxies = Proxies /\ Deployed(w)
    /\ ~doc[w].begun => doc[w].state.proxies = {}
    /\ doc[w].state.registered => doc[w].done
    /\ doc[w].done => Deployed(w) /\ HandedOver(w)

\* A revocation on its way finds the wallet in charge, and the label there or before it.
RevokeFits(pool, i) ==
    LET w == pool[i].wallet
    IN  pool[i].kind = "revoke" =>
           /\ Deployed(w) /\ Owned(w)
           /\ site[w].labelled \/ \E j \in DOMAIN pool : j < i /\ pool[j].wallet = w /\ pool[j].kind = "label"

HandInv ==
    /\ ProvTypes
    /\ \A t \in Tabs : Fits(t, req[t])
    /\ \A w \in Wallets : SiteFits(w) /\ DocFits(w)
    /\ \A i \in DOMAIN mempool : RevokeFits(mempool, i)

\* What no step takes back.
Grows == \A w \in Wallets :
    /\ site[w].proxies \subseteq site'[w].proxies
    /\ site[w].name = "mine" => site'[w].name = "mine"
    /\ site[w].userRoot => site'[w].userRoot
    /\ site[w].labelled => site'[w].labelled
    /\ "registry" \in site[w].proxies /\ ~site[w].projectRoot => ~site'[w].projectRoot
    /\ doc[w].done => doc'[w].done

LEMMA GrowsOn ==
  ASSUME ProvTypes, ProvTypes', Grows, NEW w \in Wallets
  PROVE  /\ Deployed(w) => Deployed(w)'
         /\ Owned(w) => Owned(w)'
         /\ Deployed(w) /\ HandedOver(w) => HandedOver(w)'
         /\ Deployed(w) => \A wave : RestFits(w, wave) => RestFits(w, wave)'
<1>1. site[w] \in Sites /\ site'[w] \in Sites
  BY DEF ProvTypes
<1>2. site[w].proxies \subseteq site'[w].proxies /\ site'[w].proxies \subseteq Proxies
  BY <1>1 DEF Grows, Sites
<1>3. Deployed(w) => Deployed(w)' /\ "registry" \in site[w].proxies
  BY <1>2 DEF Deployed, Proxies
<1>4. Owned(w) => Owned(w)'
  BY DEF Grows, Owned
<1>5. Deployed(w) /\ HandedOver(w) => HandedOver(w)'
  BY <1>3, <1>4 DEF Grows, HandedOver
<1>6. ASSUME Deployed(w), NEW wave, RestFits(w, wave) PROVE RestFits(w, wave)'
  <2>1. site[w].labelled => site'[w].labelled
    BY DEF Grows
  <2>2. ~site[w].projectRoot => ~site'[w].projectRoot
    BY <1>3, <1>6 DEF Grows
  <2> QED  BY <1>6, <2>1, <2>2 DEF RestFits, LabelFirst, Holds
<1> QED  BY <1>3, <1>4, <1>5, <1>6

\* What a transaction is sent for is done.
Landed(w, kind) ==
    /\ kind \in Proxies => kind \in site[w].proxies
    /\ kind = "register" => site[w].name = "mine"
    /\ kind = "grant" => site[w].userRoot
    /\ kind = "label" => site[w].labelled
    /\ kind = "revoke" => ~site[w].projectRoot

\* A request goes on fitting while what it waits for waits, lands, or fails it.
LEMMA FitsOn ==
  ASSUME ProvTypes, ProvTypes', Grows, NEW t \in Tabs, NEW r \in Reqs, Fits(t, r),
         \A kind : Pending(r.wallet, kind, t) =>
             Pending(r.wallet, kind, t)' \/ Landed(r.wallet, kind)' \/ (~r.ok /\ kind \notin Proxies)
  PROVE  Fits(t, r)'
<1>1. CASE r.at = "idle"
  BY <1>1 DEF Fits
<1>2. CASE r.at # "idle"
  <2> DEFINE w == r.wallet
  <2>1. /\ w \in Wallets
        /\ r.state.committed => r.state.proxies = Proxies /\ Deployed(w)
        /\ r.phase = "start" => StartFits(t, r)
        /\ r.phase = "finish" => FinishFits(t, r)
    BY <1>2 DEF Fits
  <2>2. /\ Deployed(w) => Deployed(w)'
        /\ Owned(w) => Owned(w)'
        /\ Deployed(w) /\ HandedOver(w) => HandedOver(w)'
        /\ Deployed(w) => \A wave : RestFits(w, wave) => RestFits(w, wave)'
    BY <2>1, GrowsOn
  <2>3. /\ site[w].proxies \subseteq site'[w].proxies
        /\ site[w].name = "mine" => site'[w].name = "mine"
        /\ site[w].userRoot => site'[w].userRoot
        /\ site[w].labelled => site'[w].labelled
        /\ Deployed(w) /\ ~site[w].projectRoot => ~site'[w].projectRoot
        /\ doc[w].done => doc'[w].done
    BY <2>1 DEF Grows, Deployed, Proxies
  <2>4. CASE r.phase = "start"
    <3>1. \A p \in Proxies : Pending(w, p, t) => Pending(w, p, t)' \/ p \in site'[w].proxies
      BY DEF Landed
    <3>2. StartFits(t, r)
      BY <2>1, <2>4
    <3>3. r.at = "receipts" => \A p \in Proxies : /\ p \in r.state.proxies
                                                  /\ p \in site'[w].proxies \/ Pending(w, p, t)'
      BY <2>3, <3>1, <3>2 DEF StartFits
    <3>4. StartFits(t, r)'
      BY <2>3, <3>2, <3>3 DEF StartFits, Holds
    <3> QED  BY <1>2, <2>1, <2>2, <2>4, <3>4 DEF Fits
  <2>5. CASE r.phase = "finish"
    <3>1. Deployed(w)
      BY <2>1, <2>5 DEF FinishFits
    <3>2. /\ r.ok /\ Pending(w, "register", t) => Pending(w, "register", t)' \/ site'[w].name = "mine"
          /\ r.ok /\ Pending(w, "grant", t) => Pending(w, "grant", t)' \/ site'[w].userRoot
          /\ r.ok /\ Pending(w, "label", t) => Pending(w, "label", t)' \/ site'[w].labelled
          /\ r.ok /\ Pending(w, "revoke", t) => Pending(w, "revoke", t)' \/ ~site'[w].projectRoot
      BY DEF Landed
    <3>3. FinishFits(t, r)
      BY <2>1, <2>5
    <3>4. FinishFits(t, r)'
      BY <2>2, <2>3, <3>1, <3>2, <3>3 DEF FinishFits, Holds
    <3> QED  BY <1>2, <2>1, <2>2, <2>5, <3>4 DEF Fits
  <2>6. r.phase \in {"start", "finish"}
    BY DEF Reqs
  <2> QED  BY <2>4, <2>5, <2>6
<1> QED  BY <1>1, <1>2

LEMMA FitsStays ==
  ASSUME ProvTypes, ProvTypes', Grows, NEW t \in Tabs, NEW r \in Reqs, Fits(t, r),
         \A w, kind : Pending(w, kind, t) => Pending(w, kind, t)'
  PROVE  Fits(t, r)'
BY FitsOn

\* A request that no step touches.
LEMMA Waits ==
  ASSUME HandInv, ProvTypes', Grows, NEW u \in Tabs, req'[u] = req[u],
         \A w, kind : Pending(w, kind, u) => Pending(w, kind, u)'
  PROVE  Fits(u, req[u])'
<1>1. ProvTypes /\ req \in [Tabs -> Reqs]
  BY DEF HandInv, ProvTypes
<1>2. PICK s \in Reqs : s = req[u]
  BY <1>1
<1>3. Fits(u, s)
  BY <1>2 DEF HandInv
<1>4. Fits(u, s)'
  BY <1>1, <1>3, FitsStays
<1> QED  BY <1>2, <1>4 DEF Fits, StartFits, FinishFits

\* One request moves, and the others stay as they are.
LEMMA Moves ==
  ASSUME HandInv, NEW t \in Tabs, NEW r \in Reqs, req' = [req EXCEPT ![t] = r], ProvTypes', Grows,
         \A u \in Tabs \ {t} : \A w, kind : Pending(w, kind, u) => Pending(w, kind, u)',
         Fits(t, r)',
         \A w \in Wallets : SiteFits(w)' /\ DocFits(w)',
         \A i \in DOMAIN mempool' : RevokeFits(mempool, i)'
  PROVE  HandInv'
<1>1. req \in [Tabs -> Reqs]
  BY DEF HandInv, ProvTypes
<1>2. req'[t] = r /\ \A u \in Tabs \ {t} : req'[u] = req[u]
  BY <1>1
<1>3. Fits(t, req[t])'
  BY <1>2 DEF Fits, StartFits, FinishFits
<1>4. \A u \in Tabs \ {t} : Fits(u, req[u])'
  BY <1>2, Waits
<1> QED  BY <1>3, <1>4 DEF HandInv

\* No request moves.
LEMMA Rests ==
  ASSUME HandInv, req' = req, ProvTypes', Grows,
         \A u \in Tabs : \A w, kind : Pending(w, kind, u) => Pending(w, kind, u)',
         \A w \in Wallets : SiteFits(w)' /\ DocFits(w)',
         \A i \in DOMAIN mempool' : RevokeFits(mempool, i)'
  PROVE  HandInv'
<1>1. \A u \in Tabs : Fits(u, req[u])'
  BY Waits
<1> QED  BY <1>1 DEF HandInv

\* A step of a request that only reads.
LEMMA Reads ==
  ASSUME HandInv, NEW t \in Tabs, NEW r \in Reqs, req' = [req EXCEPT ![t] = r],
         UNCHANGED <<doc, site, mempool, shown, harm, scenario>>, Fits(t, r)
  PROVE  HandInv'
<1>1. ProvTypes' /\ Grows
  BY DEF HandInv, ProvTypes, Grows
<1>2. \A u \in Tabs : \A w, kind : Pending(w, kind, u) => Pending(w, kind, u)'
  BY DEF Pending
<1>3. Fits(t, r)'
  BY <1>1, <1>2, FitsStays DEF HandInv
<1>4. \A w \in Wallets : SiteFits(w)' /\ DocFits(w)'
  BY DEF HandInv, SiteFits, DocFits, HandedOver, Owned, Deployed
<1>5. \A i \in DOMAIN mempool' : RevokeFits(mempool, i)'
  BY DEF HandInv, RevokeFits, Owned, Deployed
<1> QED  BY <1>1, <1>2, <1>3, <1>4, <1>5, Moves

----------------------------------------------------------------------------
\* Sequences of transactions.

LEMMA Joined ==
  ASSUME NEW T, NEW p \in Seq(T), NEW s \in Seq(T)
  PROVE  /\ p \o s \in Seq(T) /\ Len(p \o s) = Len(p) + Len(s)
         /\ \A i \in DOMAIN p : i \in DOMAIN (p \o s) /\ (p \o s)[i] = p[i]
         /\ \A i \in DOMAIN s : Len(p) + i \in DOMAIN (p \o s) /\ (p \o s)[Len(p) + i] = s[i]
         /\ \A i \in DOMAIN (p \o s) : \/ i \in DOMAIN p
                                       \/ i - Len(p) \in DOMAIN s /\ (p \o s)[i] = s[i - Len(p)]
OBVIOUS

\* Disowning changes nothing but the owner.
LEMMA DisownedKeeps ==
  ASSUME NEW tabs, NEW pool \in Seq(Txs)
  PROVE  /\ Disowned(tabs, pool) \in Seq(Txs) /\ Len(Disowned(tabs, pool)) = Len(pool)
         /\ DOMAIN Disowned(tabs, pool) = DOMAIN pool
         /\ \A i \in DOMAIN pool :
               /\ Disowned(tabs, pool)[i].kind = pool[i].kind
               /\ Disowned(tabs, pool)[i].wallet = pool[i].wallet
               /\ Disowned(tabs, pool)[i].key = pool[i].key
               /\ pool[i].by \notin tabs => Disowned(tabs, pool)[i].by = pool[i].by
<1> DEFINE q == Disowned(tabs, pool)
<1>1. DOMAIN q = 1..Len(pool)
  BY DEF Disowned
<1>2. ASSUME NEW i \in 1..Len(pool)
      PROVE  /\ q[i] \in Txs /\ q[i].kind = pool[i].kind /\ q[i].wallet = pool[i].wallet
             /\ q[i].key = pool[i].key
             /\ pool[i].by \notin tabs => q[i].by = pool[i].by
  <2>1. pool[i] \in Txs
    OBVIOUS
  <2>2. q[i] = IF pool[i].by \in tabs THEN [pool[i] EXCEPT !.by = Nobody] ELSE pool[i]
    BY <1>2 DEF Disowned
  <2> QED  BY <2>1, <2>2 DEF Txs
<1>3. q = [i \in 1..Len(pool) |-> q[i]]
  BY DEF Disowned
<1> HIDE DEF q
<1>4. q \in Seq(Txs) /\ Len(q) = Len(pool)
  BY <1>2, <1>3
<1> QED  BY <1>1, <1>2, <1>4 DEF q

\* What a tab sends.
LEMMA EstimatedFits ==
  ASSUME ProvTypes, NEW t \in Tabs
  PROVE  Estimated(t) \in 0..Len(req[t].wave)
<1> DEFINE n == Len(req[t].wave)
           K == {k \in DOMAIN req[t].wave : \A i \in 1..k : Succeeds(Tx(req[t].wave[i], t))}
<1>1. req[t].wave \in Seq(Kinds)
  BY DEF ProvTypes, Reqs
<1>2. n \in Nat /\ K \subseteq 1..n
  BY <1>1
<1>3. Estimated(t) = Cardinality(K)
  BY DEF Estimated
<1> HIDE DEF n, K
<1>4. IsFiniteSet(1..n) /\ Cardinality(1..n) = n
  BY <1>2, FS_Interval
<1>5. Cardinality(K) \in Nat /\ Cardinality(K) <= n
  BY <1>2, <1>4, FS_Subset, FS_CardinalityType
<1>6. Estimated(t) \in 0..n
  BY <1>2, <1>3, <1>5
<1> QED  BY <1>6 DEF n

\* The first k transactions of a tab's wave, whoever owns them.
OfWave(sent, t, k) ==
    /\ sent \in Seq(Txs) /\ DOMAIN sent = 1..k
    /\ \A i \in 1..k : /\ sent[i].kind = req[t].wave[i] /\ sent[i].wallet = req[t].wallet
                       /\ sent[i].key = IF req[t].wave[i] = "resolver" THEN t ELSE None

LEMMA SentFits ==
  ASSUME ProvTypes, NEW t \in Tabs, req[t].wallet \in Wallets, NEW k \in 0..Len(req[t].wave)
  PROVE  OfWave(Sent(t, k), t, k) /\ \A i \in 1..k : Sent(t, k)[i].by = t
<1>1. req[t].wave \in Seq(Kinds)
  BY DEF ProvTypes, Reqs
<1>2. ASSUME NEW i \in 1..k PROVE Tx(req[t].wave[i], t) \in Txs
  <2>1. req[t].wave[i] \in Kinds
    BY <1>1
  <2> QED  BY <2>1 DEF Tx, Txs
<1>3. Sent(t, k) \in Seq(Txs) /\ Len(Sent(t, k)) = k
  BY <1>2 DEF Sent
<1> QED  BY <1>3 DEF Sent, Tx, OfWave

LEMMA DisownedFits ==
  ASSUME NEW t, NEW k \in Nat, NEW sent, OfWave(sent, t, k)
  PROVE  OfWave(Disowned({t}, sent), t, k)
<1>1. sent \in Seq(Txs) /\ DOMAIN sent = 1..k
  BY DEF OfWave
<1>2. /\ Disowned({t}, sent) \in Seq(Txs) /\ DOMAIN Disowned({t}, sent) = 1..k
      /\ \A i \in 1..k : /\ Disowned({t}, sent)[i].kind = sent[i].kind
                         /\ Disowned({t}, sent)[i].wallet = sent[i].wallet
                         /\ Disowned({t}, sent)[i].key = sent[i].key
  BY <1>1, DisownedKeeps
<1> QED  BY <1>2 DEF OfWave

\* A wave joins the pool: whatever was pending still is, and a revocation fits.
LEMMA WaveFits ==
  ASSUME HandInv, NEW t \in Tabs, req[t].at = "send", NEW k \in 0..Len(req[t].wave), NEW sent,
         OfWave(sent, t, k), mempool' = mempool \o sent, UNCHANGED <<doc, site>>
  PROVE  /\ mempool' \in Seq(Txs)
         /\ \A u, w, kind : Pending(w, kind, u) => Pending(w, kind, u)'
         /\ \A i \in DOMAIN mempool' : RevokeFits(mempool, i)'
<1> DEFINE r == req[t]
           w == req[t].wallet
<1>1. /\ mempool \in Seq(Txs) /\ r \in Reqs /\ Fits(t, r)
      /\ \A i \in DOMAIN mempool : RevokeFits(mempool, i)
      /\ sent \in Seq(Txs) /\ DOMAIN sent = 1..k /\ k <= Len(req[t].wave)
      /\ \A i \in DOMAIN sent : sent[i].kind = req[t].wave[i] /\ sent[i].wallet = w
  BY DEF HandInv, ProvTypes, Reqs, OfWave
<1>2. mempool' \in Seq(Txs)
  BY <1>1, Joined
<1>3. \A i \in DOMAIN mempool : i \in DOMAIN mempool' /\ mempool'[i] = mempool[i]
  BY <1>1, Joined
<1>4. \A i \in DOMAIN sent : Len(mempool) + i \in DOMAIN mempool' /\ mempool'[Len(mempool) + i] = sent[i]
  BY <1>1, Joined
<1>5. \A u, v, kind : Pending(v, kind, u) => Pending(v, kind, u)'
  BY <1>3 DEF Pending
<1>6. ASSUME NEW i \in DOMAIN mempool' PROVE RevokeFits(mempool, i)'
  <2>1. CASE i \in DOMAIN mempool
    <3>1. mempool'[i] = mempool[i] /\ RevokeFits(mempool, i)
      BY <1>1, <1>3, <2>1
    <3>2. PICK v : v = mempool[i].wallet
      OBVIOUS
    <3>3. SUFFICES ASSUME mempool[i].kind = "revoke"
                   PROVE  /\ Deployed(v) /\ Owned(v)
                          /\ site[v].labelled \/ \E j \in DOMAIN mempool' :
                                j < i /\ mempool'[j].wallet = v /\ mempool'[j].kind = "label"
      BY <3>1, <3>2 DEF RevokeFits, Deployed, Owned
    <3>4. /\ Deployed(v) /\ Owned(v)
          /\ site[v].labelled \/ \E j \in DOMAIN mempool :
                j < i /\ mempool[j].wallet = v /\ mempool[j].kind = "label"
      BY <3>1, <3>2, <3>3 DEF RevokeFits
    <3> QED  BY <1>3, <3>4
  <2>2. CASE i - Len(mempool) \in DOMAIN sent /\ mempool'[i] = sent[i - Len(mempool)]
    <3>1. PICK m \in DOMAIN sent : m = i - Len(mempool)
      BY <2>2
    <3>2. m \in 1..k /\ Len(mempool) \in Nat /\ i \in Int
      BY <1>1, <1>2
    <3>3. i = Len(mempool) + m /\ mempool'[i] = sent[m]
      BY <2>2, <3>1, <3>2
    <3>4. PICK v : v = w
      OBVIOUS
    <3>5. mempool'[i].kind = sent[m].kind /\ mempool'[i].wallet = v
      BY <1>1, <3>1, <3>3, <3>4
    <3>6. SUFFICES ASSUME sent[m].kind = "revoke"
                   PROVE  /\ Deployed(v) /\ Owned(v)
                          /\ site[v].labelled \/ \E j \in DOMAIN mempool' :
                                j < i /\ mempool'[j].wallet = v /\ mempool'[j].kind = "label"
      BY <3>5 DEF RevokeFits, Deployed, Owned
    <3>7. r.wave[m] = "revoke" /\ m \in DOMAIN r.wave /\ r.wave \in Seq(Kinds)
      BY <1>1, <3>1, <3>2, <3>6 DEF Reqs
    <3>8. r.phase = "finish"
      <4>1. r.phase = "start" => StartFits(t, r)
        BY <1>1 DEF Fits
      <4>2. r.state.proxies \subseteq Proxies
        BY <1>1 DEF Reqs, States
      <4>3. "revoke" \notin Proxies \cup {"commit", "mint", "approve"}
        BY DEF Proxies
      <4>4. r.phase # "start"
        BY <3>7, <4>1, <4>2, <4>3 DEF StartFits
      <4> QED  BY <1>1, <4>4 DEF Reqs
    <3>9. FinishFits(t, r) /\ (r.state.committed => Deployed(w))
      BY <1>1, <3>8 DEF Fits
    <3>10. r.state.registered
      BY <3>7, <3>9 DEF FinishFits
    <3>11. Deployed(w) /\ Owned(w) /\ RestFits(w, r.wave)
      BY <3>9, <3>10 DEF FinishFits
    <3>12. CASE ~site[w].labelled
      <4>1. PICK l \in DOMAIN r.wave : r.wave[l] = "label" /\ \A j \in DOMAIN r.wave : r.wave[j] = "revoke" => l < j
        BY <3>11, <3>12 DEF RestFits, LabelFirst
      <4>2. l < m /\ l \in Nat /\ l >= 1
        BY <3>7, <4>1
      <4>3. l \in DOMAIN sent
        BY <1>1, <3>2, <4>2
      <4>4. sent[l].kind = "label" /\ sent[l].wallet = w
        BY <1>1, <4>1, <4>3
      <4>5. Len(mempool) + l < i
        BY <3>2, <3>3, <4>2
      <4> QED  BY <1>4, <3>11, <3>4, <4>3, <4>4, <4>5
    <3> QED  BY <3>11, <3>12, <3>4
  <2> QED  BY <1>1, <2>1, <2>2, Joined
<1> QED  BY <1>2, <1>5, <1>6

----------------------------------------------------------------------------
\* The steps of a request.

LEMMA Still ==
  ASSUME HandInv, UNCHANGED <<doc, site>>
  PROVE  Grows /\ \A w \in Wallets : SiteFits(w)' /\ DocFits(w)'
BY DEF HandInv, Grows, SiteFits, DocFits, HandedOver, Owned, Deployed

LEMMA HarmedFits ==
  ASSUME ProvTypes, NEW how \in Harms, NEW ws
  PROVE  Harmed(how, ws) \in [Wallets -> SUBSET Harms]
BY DEF ProvTypes, Harmed

LEMMA IdleFits ==
  /\ Idle \in Reqs /\ Idle.at = "idle" /\ Idle.phase = "start" /\ Idle.wave = <<>>
  /\ Unprovisioned \in States /\ Unprovisioned.proxies = {}
  /\ Unprovisioned.committed = FALSE /\ Unprovisioned.registered = FALSE
BY DEF Idle, Reqs, Places, Unprovisioned, States, Proxies

\* A request that fails saves what it has, or is over.
LEMMA ThrowFits ==
  ASSUME HandInv, NEW t \in Tabs, req[t].at # "idle", Throw(t, req[t].state)
  PROVE  \E r \in Reqs : req' = [req EXCEPT ![t] = r] /\ Fits(t, r)
<1>1. req[t] \in Reqs /\ Fits(t, req[t])
  BY DEF HandInv, ProvTypes
<1>2. CASE req[t].phase = "start"
  <2> DEFINE r == [Idle EXCEPT !.at = "rescue", !.wallet = req[t].wallet, !.state = req[t].state]
  <2>1. r \in Reqs
    BY <1>1, IdleFits DEF Reqs, Places
  <2>2. /\ r.at = "rescue" /\ r.wallet = req[t].wallet /\ r.state = req[t].state /\ r.phase = "start"
    BY <1>1, IdleFits DEF Reqs, Places
  <2>3. Fits(t, r)
    BY <1>1, <1>2, <2>2 DEF Fits, StartFits
  <2>4. req' = [req EXCEPT ![t] = r]
    BY <1>2 DEF Throw
  <2> QED  BY <2>1, <2>3, <2>4
<1>3. CASE req[t].phase # "start"
  <2>1. req' = [req EXCEPT ![t] = Idle]
    BY <1>3 DEF Throw, End
  <2>2. Fits(t, Idle)
    BY IdleFits DEF Fits
  <2> QED  BY <2>1, <2>2, IdleFits
<1> QED  BY <1>2, <1>3

LEMMA ReadCapKeeps ==
  ASSUME HandInv, NEW t \in Tabs, ReadCap(t)
  PROVE  HandInv'
<1>1. req[t] \in Reqs /\ Fits(t, req[t]) /\ req \in [Tabs -> Reqs]
  BY DEF HandInv, ProvTypes
<1>2. UNCHANGED <<doc, site, mempool, shown, harm, scenario>>
  BY DEF ReadCap, Quiet, chain, bounds
<1>3. CASE Goto(t, "available")
  <2> DEFINE r == [req[t] EXCEPT !.at = "available"]
  <2>1. /\ r \in Reqs /\ r.at = "available" /\ r.wallet = req[t].wallet /\ r.state = req[t].state
        /\ r.phase = req[t].phase /\ r.wave = req[t].wave
    BY <1>1 DEF Reqs, Places
  <2>2. Fits(t, r)
    BY <1>1, <2>1 DEF Fits, StartFits, FinishFits, ReadCap
  <2>3. req' = [req EXCEPT ![t] = r]
    BY <1>3 DEF Goto
  <2> QED  BY <1>2, <2>1, <2>2, <2>3, Reads
<1>4. CASE End(t)
  <2>1. Fits(t, Idle)
    BY IdleFits DEF Fits
  <2> QED  BY <1>2, <1>4, <2>1, IdleFits, Reads DEF End
<1> QED  BY <1>3, <1>4 DEF ReadCap

LEMMA AvailableKeeps ==
  ASSUME HandInv, NEW t \in Tabs, Available(t)
  PROVE  HandInv'
<1>1. req[t] \in Reqs /\ Fits(t, req[t]) /\ req \in [Tabs -> Reqs] /\ site \in [Wallets -> Sites]
  BY DEF HandInv, ProvTypes
<1>2. UNCHANGED <<doc, site, mempool, shown, harm, scenario>>
  BY DEF Available, Quiet, chain, bounds
<1>3. CASE req' = [req EXCEPT ![t].at = "plan", ![t].todo = Missing(t)]
  <2> DEFINE r == [req[t] EXCEPT !.at = "plan", !.todo = Missing(t)]
  <2>1. Missing(t) \subseteq Proxies
    BY DEF Missing
  <2>2. /\ r \in Reqs /\ r.at = "plan" /\ r.wallet = req[t].wallet /\ r.state = req[t].state
        /\ r.phase = req[t].phase /\ r.wave = req[t].wave /\ r.todo = Missing(t)
    BY <1>1, <2>1 DEF Reqs, Places
  <2>3. req[t].phase = "start" /\ StartFits(t, req[t]) /\ req[t].wallet \in Wallets
    BY <1>1 DEF Fits, FinishFits, Available, Reqs
  <2>4. req[t].wave = <<>>
    BY <2>3 DEF StartFits, Available
  <2>5. StartFits(t, r)
    BY <2>2, <2>3, <2>4 DEF StartFits, Missing
  <2>6. Fits(t, r)
    BY <1>1, <2>2, <2>3, <2>5 DEF Fits, Available
  <2>7. req' = [req EXCEPT ![t] = r]
    BY <1>1, <1>3
  <2> QED  BY <1>2, <2>2, <2>6, <2>7, Reads
<1>4. CASE Throw(t, req[t].state)
  <2>1. PICK r \in Reqs : req' = [req EXCEPT ![t] = r] /\ Fits(t, r)
    BY <1>4, ThrowFits DEF Available
  <2> QED  BY <1>2, <2>1, Reads
<1> QED  BY <1>3, <1>4 DEF Available

LEMMA FirstFits ==
  ASSUME NEW ps \in SUBSET Proxies, ps # {}
  PROVE  FirstOf(ps) \in ps
<1>1. DeployOrder["resolver"] = 1 /\ DeployOrder["registry"] = 2 /\ DeployOrder["namespaces"] = 3
  BY DEF DeployOrder
<1>2. \E p \in ps : \A q \in ps : DeployOrder[p] <= DeployOrder[q]
  <2>1. CASE "resolver" \in ps
    BY <1>1, <2>1 DEF Proxies
  <2>2. CASE "resolver" \notin ps /\ "registry" \in ps
    BY <1>1, <2>2 DEF Proxies
  <2>3. CASE "resolver" \notin ps /\ "registry" \notin ps
    <3>1. ps = {"namespaces"}
      BY <2>3 DEF Proxies
    <3> QED  BY <1>1, <3>1
  <2> QED  BY <2>1, <2>2, <2>3
<1> QED  BY <1>2 DEF FirstOf

LEMMA PlanKeeps ==
  ASSUME HandInv, NEW t \in Tabs, Plan(t)
  PROVE  HandInv'
<1>1. req[t] \in Reqs /\ Fits(t, req[t]) /\ req \in [Tabs -> Reqs] /\ site \in [Wallets -> Sites]
  BY DEF HandInv, ProvTypes
<1>2. UNCHANGED <<doc, site, mempool, shown, harm, scenario>>
  BY DEF Plan, Quiet, chain, bounds
<1>3. PICK p \in req[t].todo : p = FirstOf(req[t].todo) /\ p \in Proxies
  BY <1>1, FirstFits DEF Plan, Reqs
<1>4. CASE /\ p \notin site[req[t].wallet].proxies
           /\ req' = [req EXCEPT ![t].todo = @ \ {p}, ![t].wave = Append(@, p), ![t].state.proxies = @ \cup {p}]
  <2> DEFINE ps == req[t].state.proxies \cup {p}
             st == [req[t].state EXCEPT !.proxies = ps]
             r == [req[t] EXCEPT !.todo = req[t].todo \ {p}, !.wave = Append(req[t].wave, p), !.state = st]
  <2>1. /\ st \in States /\ st.proxies = ps /\ st.committed = req[t].state.committed
        /\ st.registered = req[t].state.registered
    BY <1>1, <1>3 DEF Reqs, States
  <2>2. Append(req[t].wave, p) \in Seq(Kinds)
    BY <1>1, <1>3 DEF Reqs, Kinds
  <2>3. /\ r \in Reqs /\ r.at = "plan" /\ r.wallet = req[t].wallet /\ r.state = st
        /\ r.phase = req[t].phase /\ r.wave = Append(req[t].wave, p) /\ r.todo = req[t].todo \ {p}
    BY <1>1, <2>1, <2>2 DEF Reqs, Plan
  <2>4. req[t].phase = "start" /\ StartFits(t, req[t]) /\ req[t].wallet \in Wallets
    BY <1>1 DEF Fits, FinishFits, Plan, Reqs
  <2>5. /\ \A i \in DOMAIN r.wave : r.wave[i] = p \/ (i \in DOMAIN req[t].wave /\ r.wave[i] = req[t].wave[i])
        /\ \A kind : Holds(req[t].wave, kind) => Holds(r.wave, kind)
        /\ Holds(r.wave, p)
    <3>1. req[t].wave \in Seq(Kinds) /\ p \in Kinds
      BY <1>1, <1>3 DEF Reqs, Kinds
    <3>2. /\ Len(r.wave) = Len(req[t].wave) + 1 /\ DOMAIN r.wave = 1..(Len(req[t].wave) + 1)
          /\ \A i \in 1..Len(req[t].wave) : r.wave[i] = req[t].wave[i]
          /\ r.wave[Len(req[t].wave) + 1] = p
      BY <2>3, <3>1
    <3>3. DOMAIN req[t].wave = 1..Len(req[t].wave) /\ Len(req[t].wave) \in Nat
      BY <3>1
    <3> HIDE DEF r
    <3>4. Holds(r.wave, p)
      BY <3>2, <3>3 DEF Holds
    <3>5. \A kind : Holds(req[t].wave, kind) => Holds(r.wave, kind)
      BY <3>2, <3>3 DEF Holds
    <3>6. \A i \in DOMAIN r.wave : r.wave[i] = p \/ (i \in DOMAIN req[t].wave /\ r.wave[i] = req[t].wave[i])
      <4>1. PICK n \in Nat : n = Len(req[t].wave)
        BY <3>3
      <4>2. \A i \in 1..(n + 1) : i = n + 1 \/ i \in 1..n
        OBVIOUS
      <4> QED  BY <3>2, <3>3, <4>1, <4>2
    <3> QED  BY <3>4, <3>5, <3>6
  <2>6. ~req[t].state.committed
    BY <1>1, <1>3, <1>4, <2>4 DEF Fits, Deployed, Plan
  <2> HIDE DEF r, st, ps
  <2>7. /\ \A q \in Proxies \ r.todo : q \in r.state.proxies /\ (q \in site[r.wallet].proxies \/ Holds(r.wave, q))
        /\ \A i \in DOMAIN r.wave : r.wave[i] \in r.state.proxies \cup {"commit", "mint", "approve"}
    <3>1. /\ \A q \in Proxies \ req[t].todo :
                 /\ q \in req[t].state.proxies
                 /\ q \in site[req[t].wallet].proxies \/ Holds(req[t].wave, q)
          /\ \A i \in DOMAIN req[t].wave :
                 req[t].wave[i] \in req[t].state.proxies \cup {"commit", "mint", "approve"}
      BY <2>4 DEF StartFits, Plan
    <3>2. r.state.proxies = req[t].state.proxies \cup {p}
      BY <2>1, <2>3 DEF ps
    <3>3. \A q \in Proxies \ r.todo : q = p \/ q \in Proxies \ req[t].todo
      BY <2>3
    <3>4. \A q \in Proxies \ r.todo : q \in r.state.proxies /\ (q \in site[r.wallet].proxies \/ Holds(r.wave, q))
      BY <2>3, <2>5, <3>1, <3>2, <3>3
    <3>5. \A i \in DOMAIN r.wave : r.wave[i] \in r.state.proxies \cup {"commit", "mint", "approve"}
      BY <2>5, <3>1, <3>2
    <3> QED  BY <3>4, <3>5
  <2>8. StartFits(t, r)
    <3>1. r.state.registered => doc[r.wallet].done
      BY <2>1, <2>3, <2>4 DEF StartFits
    <3>2. r.at = "plan"
      BY <2>3
    <3> QED  BY <2>7, <3>1, <3>2 DEF StartFits
  <2>9. Fits(t, r)
    BY <1>1, <2>1, <2>3, <2>4, <2>6, <2>8 DEF Fits, Plan
  <2>10. req' = [req EXCEPT ![t] = r]
    BY <1>1, <1>4 DEF r, st, ps, Reqs, States
  <2> QED  BY <1>2, <2>3, <2>9, <2>10, Reads
<1>5. CASE Throw(t, req[t].state)
  <2>1. PICK r \in Reqs : req' = [req EXCEPT ![t] = r] /\ Fits(t, r)
    BY <1>5, ThrowFits DEF Plan
  <2> QED  BY <1>2, <2>1, Reads
<1> QED  BY <1>3, <1>4, <1>5 DEF Plan

LEMMA FundsKeeps ==
  ASSUME HandInv, NEW t \in Tabs, Funds(t)
  PROVE  HandInv'
<1>1. req[t] \in Reqs /\ Fits(t, req[t]) /\ req \in [Tabs -> Reqs]
  BY DEF HandInv, ProvTypes
<1>2. UNCHANGED <<doc, site, mempool, shown, harm, scenario>>
  BY DEF Funds, Quiet, chain, bounds
<1> DEFINE C == {"commit", "mint", "approve"}
           mint == IF usdc < 1 THEN <<"mint">> ELSE <<>>
           approve == IF allowance < 1 THEN <<"approve">> ELSE <<>>
           pre == <<"commit">> \o mint \o approve
           wave == IF req[t].state.committed THEN req[t].wave ELSE pre \o req[t].wave
           r == [req[t] EXCEPT !.at = "send", !.wave = wave]
<1>3. pre \in Seq(C) /\ pre \in Seq(Kinds)
  <2>1. <<"commit">> \in Seq(C) /\ mint \in Seq(C) /\ approve \in Seq(C)
    <3>1. <<"commit">> \in Seq(C) /\ <<"mint">> \in Seq(C) /\ <<"approve">> \in Seq(C) /\ <<>> \in Seq(C)
      OBVIOUS
    <3> QED  BY <3>1
  <2>2. C \subseteq Kinds
    BY DEF Kinds
  <2> HIDE DEF C, mint, approve
  <2>3. pre \in Seq(C)
    BY <2>1
  <2> QED  BY <2>2, <2>3
<1>4. req[t].wave \in Seq(Kinds)
  BY <1>1 DEF Reqs
<1>5. /\ wave \in Seq(Kinds)
      /\ \A kind : Holds(req[t].wave, kind) => Holds(wave, kind)
      /\ \A i \in DOMAIN wave : wave[i] \in C \/ Holds(req[t].wave, wave[i])
  <2> HIDE DEF pre, C
  <2>1. CASE req[t].state.committed
    BY <1>4, <2>1 DEF Holds
  <2>2. CASE ~req[t].state.committed
    <3> DEFINE all == pre \o req[t].wave
    <3>1. /\ all \in Seq(Kinds)
          /\ \A i \in DOMAIN req[t].wave : Len(pre) + i \in DOMAIN all /\ all[Len(pre) + i] = req[t].wave[i]
          /\ \A i \in DOMAIN all : \/ i \in DOMAIN pre
                                   \/ i - Len(pre) \in DOMAIN req[t].wave /\ all[i] = req[t].wave[i - Len(pre)]
          /\ \A i \in DOMAIN pre : i \in DOMAIN all /\ all[i] = pre[i]
      BY <1>3, <1>4, Joined
    <3>2. \A i \in DOMAIN pre : pre[i] \in C
      BY <1>3
    <3> HIDE DEF all
    <3>3. \A kind : Holds(req[t].wave, kind) => Holds(all, kind)
      BY <3>1 DEF Holds
    <3>4. \A i \in DOMAIN all : all[i] \in C \/ Holds(req[t].wave, all[i])
      BY <3>1, <3>2 DEF Holds
    <3>5. wave = all
      BY <2>2 DEF all
    <3> QED  BY <3>1, <3>3, <3>4, <3>5
  <2> QED  BY <2>1, <2>2
<1> HIDE DEF wave
<1>6. /\ r \in Reqs /\ r.at = "send" /\ r.wallet = req[t].wallet /\ r.state = req[t].state
      /\ r.phase = req[t].phase /\ r.wave = wave
  BY <1>1, <1>5 DEF Reqs, Places
<1> HIDE DEF r
<1>7. req[t].phase = "start" /\ StartFits(t, req[t]) /\ req[t].wallet \in Wallets
  BY <1>1 DEF Fits, FinishFits, Funds, Reqs
<1>8. /\ \A p \in Proxies : /\ p \in req[t].state.proxies
                            /\ p \in site[req[t].wallet].proxies \/ Holds(req[t].wave, p)
      /\ \A i \in DOMAIN req[t].wave : req[t].wave[i] \in req[t].state.proxies \cup C
      /\ req[t].state.registered => doc[req[t].wallet].done
  BY <1>7 DEF StartFits, Funds
<1>9. \A p \in Proxies : p \in r.state.proxies /\ (p \in site[r.wallet].proxies \/ Holds(r.wave, p))
  BY <1>5, <1>6, <1>8
<1>10. \A i \in DOMAIN r.wave : r.wave[i] \in r.state.proxies \cup C
  BY <1>5, <1>6, <1>8 DEF Holds
<1>11. StartFits(t, r)
  BY <1>6, <1>8, <1>9, <1>10 DEF StartFits
<1>12. Fits(t, r)
  BY <1>1, <1>6, <1>7, <1>11 DEF Fits, Funds
<1>13. req' = [req EXCEPT ![t] = r]
  BY <1>1 DEF Funds, r, wave
<1> QED  BY <1>2, <1>6, <1>12, <1>13, Reads

LEMMA TwoInOrder ==
  ASSUME NEW a, NEW b
  PROVE  <<a>> \o <<b>> = <<a, b>>
<1>1. <<a>> \in Seq({a, b}) /\ <<b>> \in Seq({a, b}) /\ <<a, b>> \in Seq({a, b})
  OBVIOUS
<1>2. Len(<<a>>) = 1 /\ Len(<<b>>) = 1 /\ Len(<<a, b>>) = 2 /\ <<a>>[1] = a /\ <<b>>[1] = b
  OBVIOUS
<1>3. (<<a>> \o <<b>>)[1] = a /\ (<<a>> \o <<b>>)[2] = b /\ Len(<<a>> \o <<b>>) = 2
  BY <1>1, <1>2, ConcatProperties
<1>4. <<a>> \o <<b>> \in Seq({a, b})
  BY <1>1, ConcatProperties
<1>5. \A i \in 1..2 : (<<a>> \o <<b>>)[i] = <<a, b>>[i]
  BY <1>3
<1> QED  BY <1>1, <1>2, <1>3, <1>4, <1>5, SeqEqual

LEMMA HandoverFits ==
  ASSUME NEW w \in Wallets, site[w] \in Sites
  PROVE  LET waves == Handover(site[w])
         IN  /\ waves.first \in Seq(Kinds) /\ waves.second \in Seq(Kinds)
             /\ Holds(waves.first, "register")
             /\ site[w].userRoot \/ Holds(waves.first, "grant")
             /\ \A i \in DOMAIN waves.first : waves.first[i] \in {"register", "grant"}
             /\ RestFits(w, waves.second)
<1> DEFINE first == Handover(site[w]).first
           second == Handover(site[w]).second
<1>1. /\ first \in Seq(Kinds) /\ Holds(first, "register")
      /\ site[w].userRoot \/ Holds(first, "grant")
      /\ \A i \in DOMAIN first : first[i] \in {"register", "grant"}
  <2>1. CASE site[w].userRoot
    <3>1. first = <<"register">>
      BY <2>1 DEF Handover
    <3> QED  BY <2>1, <3>1 DEF Holds, Kinds
  <2>2. CASE ~site[w].userRoot
    <3>1. first = <<"register", "grant">>
      BY <2>2, TwoInOrder DEF Handover
    <3>2. first[1] = "register" /\ first[2] = "grant" /\ DOMAIN first = {1, 2}
      BY <3>1
    <3>3. first \in Seq(Kinds)
      BY <3>1 DEF Kinds
    <3> HIDE DEF first
    <3> QED  BY <3>2, <3>3 DEF Holds
  <2> QED  BY <2>1, <2>2
<1>2. second \in Seq(Kinds) /\ RestFits(w, second)
  <2>1. CASE site[w].labelled /\ ~site[w].projectRoot
    <3>1. second = <<>>
      BY <2>1 DEF Handover
    <3> QED  BY <2>1, <3>1 DEF RestFits
  <2>2. CASE site[w].labelled /\ site[w].projectRoot
    <3>1. second = <<"revoke">>
      BY <2>2 DEF Handover
    <3>2. second \in Seq(Kinds) /\ second[1] = "revoke" /\ DOMAIN second = {1}
      BY <3>1 DEF Kinds
    <3> HIDE DEF second
    <3> QED  BY <2>2, <3>2 DEF RestFits, Holds
  <2>3. CASE ~site[w].labelled /\ ~site[w].projectRoot
    <3>1. second = <<"label">>
      BY <2>3 DEF Handover
    <3>2. second \in Seq(Kinds) /\ second[1] = "label" /\ DOMAIN second = {1}
      BY <3>1 DEF Kinds
    <3> HIDE DEF second
    <3> QED  BY <2>3, <3>2 DEF RestFits, LabelFirst
  <2>4. CASE ~site[w].labelled /\ site[w].projectRoot
    <3>1. second = <<"label", "revoke">>
      BY <2>4, TwoInOrder DEF Handover
    <3>2. second \in Seq(Kinds) /\ second[1] = "label" /\ second[2] = "revoke" /\ DOMAIN second = {1, 2}
      BY <3>1 DEF Kinds
    <3> HIDE DEF second
    <3>3. LabelFirst(second)
      BY <3>2 DEF LabelFirst
    <3> QED  BY <2>4, <3>2, <3>3 DEF RestFits, Holds
  <2> QED  BY <2>1, <2>2, <2>3, <2>4
<1> QED  BY <1>1, <1>2

LEMMA CheckKeeps ==
  ASSUME HandInv, NEW t \in Tabs, Check(t)
  PROVE  HandInv'
<1>1. req[t] \in Reqs /\ Fits(t, req[t]) /\ req \in [Tabs -> Reqs] /\ site \in [Wallets -> Sites]
  BY DEF HandInv, ProvTypes
<1>2. UNCHANGED <<doc, site, mempool, shown, harm, scenario>>
  BY DEF Check, Quiet, chain, bounds
<1>3. req[t].phase = "finish" /\ FinishFits(t, req[t]) /\ req[t].wallet \in Wallets
  BY <1>1 DEF Fits, StartFits, Check, Reqs
<1> DEFINE w == req[t].wallet
           waves == Handover(site[w])
           r == [req[t] EXCEPT !.at = "send", !.wave = waves.first, !.rest = waves.second]
<1>4. /\ waves.first \in Seq(Kinds) /\ waves.second \in Seq(Kinds)
      /\ Holds(waves.first, "register")
      /\ site[w].userRoot \/ Holds(waves.first, "grant")
      /\ \A i \in DOMAIN waves.first : waves.first[i] \in {"register", "grant"}
      /\ RestFits(w, waves.second)
  BY <1>1, <1>3, HandoverFits
<1>5. req' = [req EXCEPT ![t] = r]
  BY <1>1 DEF Check
<1> HIDE DEF waves
<1>6. /\ r \in Reqs /\ r.at = "send" /\ r.wallet = w /\ r.state = req[t].state
      /\ r.phase = "finish" /\ r.wave = waves.first /\ r.rest = waves.second
  BY <1>1, <1>3, <1>4 DEF Reqs, Places
<1> HIDE DEF r
<1>7. req[t].state.committed /\ ~req[t].state.registered
  BY <1>3 DEF FinishFits, Check
<1>8. FinishFits(t, r)
  BY <1>4, <1>6, <1>7 DEF FinishFits
<1>9. Fits(t, r)
  BY <1>1, <1>3, <1>6, <1>8 DEF Fits, Check
<1> QED  BY <1>2, <1>5, <1>6, <1>9, Reads

----------------------------------------------------------------------------
\* Waves, receipts and faults.

\* The pool keeps its kinds and wallets: the revocations in it go on fitting.
LEMMA PoolStays ==
  ASSUME HandInv, ProvTypes', Grows, DOMAIN mempool' = DOMAIN mempool,
         \A i \in DOMAIN mempool : mempool'[i].kind = mempool[i].kind /\ mempool'[i].wallet = mempool[i].wallet
  PROVE  \A i \in DOMAIN mempool' : RevokeFits(mempool, i)'
<1> SUFFICES ASSUME NEW i \in DOMAIN mempool, mempool[i].kind = "revoke"
             PROVE  RevokeFits(mempool, i)'
  BY DEF RevokeFits
<1>1. ProvTypes /\ mempool[i] \in Txs
  BY DEF HandInv, ProvTypes
<1>2. PICK v \in Wallets : v = mempool[i].wallet
  BY <1>1 DEF Txs
<1>3. /\ Deployed(v) /\ Owned(v)
      /\ site[v].labelled \/ \E j \in DOMAIN mempool :
            j < i /\ mempool[j].wallet = v /\ mempool[j].kind = "label"
  BY <1>2 DEF HandInv, RevokeFits
<1>4. Deployed(v)' /\ Owned(v)' /\ (site[v].labelled => site'[v].labelled)
  BY <1>1, <1>3, GrowsOn DEF Grows
<1>5. mempool'[i].wallet = v
  BY <1>2
<1>6. site'[v].labelled \/ \E j \in DOMAIN mempool' :
            j < i /\ mempool'[j].wallet = v /\ mempool'[j].kind = "label"
  BY <1>3, <1>4
<1> QED  BY <1>4, <1>5, <1>6 DEF RevokeFits, Deployed, Owned

\* Requests end, and leave what they broadcast.
LEMMA GivenUp ==
  ASSUME HandInv, NEW tabs, mempool' = Disowned(tabs, mempool), UNCHANGED <<doc, site, shown, scenario>>,
         req' \in [Tabs -> Reqs], harm' \in [Wallets -> SUBSET Harms]
  PROVE  /\ ProvTypes'
         /\ \A i \in DOMAIN mempool' : RevokeFits(mempool, i)'
         /\ \A u : u \notin tabs => \A w, kind : Pending(w, kind, u) => Pending(w, kind, u)'
<1>1. mempool \in Seq(Txs)
  BY DEF HandInv, ProvTypes
<1>2. /\ mempool' \in Seq(Txs) /\ DOMAIN mempool' = DOMAIN mempool
      /\ \A i \in DOMAIN mempool :
            /\ mempool'[i].kind = mempool[i].kind /\ mempool'[i].wallet = mempool[i].wallet
            /\ mempool[i].by \notin tabs => mempool'[i].by = mempool[i].by
  BY <1>1, DisownedKeeps
<1>3. ProvTypes'
  BY <1>2 DEF HandInv, ProvTypes
<1>4. \A i \in DOMAIN mempool' : RevokeFits(mempool, i)'
  BY <1>2, <1>3, Still, PoolStays
<1>5. \A u : u \notin tabs => \A w, kind : Pending(w, kind, u) => Pending(w, kind, u)'
  BY <1>2 DEF Pending
<1> QED  BY <1>3, <1>4, <1>5

\* A wave that went out whole.
LEMMA SubmitWhole ==
  ASSUME HandInv, NEW t \in Tabs, req[t].at = "send", Goto(t, "receipts"),
         mempool' = mempool \o Sent(t, Len(req[t].wave)),
         UNCHANGED <<doc, site, shown, scenario, harm>>
  PROVE  HandInv'
<1>1. req[t] \in Reqs /\ Fits(t, req[t]) /\ req \in [Tabs -> Reqs] /\ ProvTypes /\ mempool \in Seq(Txs)
  BY DEF HandInv, ProvTypes
<1>2. req[t].wallet \in Wallets /\ Len(req[t].wave) \in Nat /\ DOMAIN req[t].wave = 1..Len(req[t].wave)
  BY <1>1 DEF Fits, Reqs
<1>3. PICK w \in Wallets, k \in Nat : w = req[t].wallet /\ k = Len(req[t].wave) /\ DOMAIN req[t].wave = 1..k
  BY <1>2
<1>4. PICK sent : sent = Sent(t, k)
  OBVIOUS
<1>5. OfWave(sent, t, k) /\ \A i \in 1..k : sent[i].by = t
  <2>1. k \in 0..Len(req[t].wave) /\ req[t].wallet \in Wallets
    BY <1>3
  <2> QED  BY <1>1, <1>4, <2>1, SentFits
<1>6. /\ sent \in Seq(Txs) /\ DOMAIN sent = 1..k
       /\ \A i \in 1..k : sent[i].kind = req[t].wave[i] /\ sent[i].by = t /\ sent[i].wallet = w
  BY <1>5, <1>3 DEF OfWave
<1>7. /\ mempool' \in Seq(Txs)
      /\ \A u, v, kind : Pending(v, kind, u) => Pending(v, kind, u)'
      /\ \A i \in DOMAIN mempool' : RevokeFits(mempool, i)'
  <2>1. k \in 0..Len(req[t].wave) /\ mempool' = mempool \o sent
    BY <1>3, <1>4
  <2> QED  BY <1>5, <2>1, WaveFits
<1>8. \A i \in 1..k : Len(mempool) + i \in DOMAIN mempool' /\ mempool'[Len(mempool) + i] = sent[i]
  BY <1>1, <1>3, <1>4, <1>6, Joined
<1>9. \A kind : Holds(req[t].wave, kind) => Pending(w, kind, t)'
  <2>1. ASSUME NEW kind, NEW i \in DOMAIN req[t].wave, req[t].wave[i] = kind
        PROVE  Pending(w, kind, t)'
    <3>1. i \in 1..k
      BY <1>3, <2>1
    <3>2. PICK j \in DOMAIN mempool' : mempool'[j] = sent[i]
      BY <1>8, <3>1
    <3>3. sent[i].kind = kind /\ sent[i].by = t /\ sent[i].wallet = w
      BY <1>6, <2>1, <3>1
    <3> QED  BY <3>2, <3>3 DEF Pending
  <2> QED  BY <2>1 DEF Holds
<1>10. PICK r : r = [req[t] EXCEPT !.at = "receipts"]
  OBVIOUS
<1>11. /\ r \in Reqs /\ r.at = "receipts" /\ r.wallet = w /\ r.state = req[t].state
      /\ r.phase = req[t].phase /\ r.rest = req[t].rest /\ r.ok = req[t].ok
      /\ req' = [req EXCEPT ![t] = r]
  BY <1>1, <1>3, <1>10 DEF Reqs, Places, Goto
<1>12. ASSUME req[t].phase = "start" PROVE Fits(t, r)'
  <2>1. StartFits(t, req[t])
    BY <1>1, <1>12 DEF Fits
  <2>2. \A p \in Proxies : p \in req[t].state.proxies /\ (p \in site[w].proxies \/ Holds(req[t].wave, p))
    BY <1>3, <2>1 DEF StartFits
  <2>3. \A p \in Proxies : p \in r.state.proxies /\ (p \in site'[r.wallet].proxies \/ Pending(r.wallet, p, t)')
    BY <1>9, <1>11, <2>2
  <2>4. r.state.registered => doc'[r.wallet].done
    BY <1>11, <1>3, <2>1 DEF StartFits
  <2>5. StartFits(t, r)'
    BY <1>11, <2>3, <2>4 DEF StartFits
  <2>6. Fits(t, r)'
    BY <1>1, <1>3, <1>11, <1>12, <2>5 DEF Fits, Deployed
  <2> QED  BY <2>6
<1>13. ASSUME req[t].phase = "finish" PROVE Fits(t, r)'
  <2>1. FinishFits(t, req[t])
    BY <1>1, <1>13 DEF Fits
  <2>2. /\ r.state.committed
        /\ ~r.state.registered => RestFits(w, r.rest)
        /\ r.state.registered => Owned(w)
    BY <1>11, <1>3, <2>1 DEF FinishFits
  <2>3. ASSUME ~r.state.registered
        PROVE  /\ site'[w].name = "mine" \/ Pending(w, "register", t)'
               /\ site'[w].userRoot \/ Pending(w, "grant", t)'
    BY <1>9, <1>11, <1>3, <2>1, <2>3 DEF FinishFits
  <2>4. ASSUME r.state.registered
        PROVE  /\ site'[w].labelled \/ Pending(w, "label", t)'
               /\ ~site'[w].projectRoot \/ Pending(w, "revoke", t)'
    <3>1. RestFits(w, req[t].wave)
      BY <1>11, <1>3, <2>1, <2>4 DEF FinishFits
    <3>2. LabelFirst(req[t].wave) => Holds(req[t].wave, "label")
      BY DEF LabelFirst, Holds
    <3> QED  BY <1>9, <3>1, <3>2 DEF RestFits
  <2>5. RestFits(w, r.rest) => RestFits(w, r.rest)'
    BY DEF RestFits
  <2>6. Owned(w) => Owned(w)'
    BY DEF Owned
  <2>7. FinishFits(t, r)'
    BY <1>11, <2>2, <2>3, <2>4, <2>5, <2>6 DEF FinishFits
  <2>8. Fits(t, r)'
    BY <1>1, <1>3, <1>11, <1>13, <2>7 DEF Fits, Deployed
  <2> QED  BY <2>8
<1>14. Fits(t, r)'
  BY <1>1, <1>12, <1>13 DEF Reqs
<1>15. ProvTypes'
  BY <1>1, <1>7, <1>11 DEF ProvTypes
<1> QED  BY <1>7, <1>11, <1>14, <1>15, Still, Moves

\* A wave that stopped on the way, for a call that would fail or one that did.
LEMMA SubmitPart ==
  ASSUME HandInv, NEW t \in Tabs, req[t].at = "send", Throw(t, req[t].state),
         NEW k \in 0..Len(req[t].wave), mempool' = mempool \o Disowned({t}, Sent(t, k)),
         UNCHANGED <<doc, site, shown, scenario>>, harm' \in [Wallets -> SUBSET Harms]
  PROVE  HandInv'
<1>1. req[t] \in Reqs /\ Fits(t, req[t]) /\ req \in [Tabs -> Reqs] /\ ProvTypes
  BY DEF HandInv, ProvTypes
<1>2. req[t].wallet \in Wallets /\ k \in Nat
  BY <1>1 DEF Fits
<1>3. PICK sent : sent = Disowned({t}, Sent(t, k))
  OBVIOUS
<1>4. OfWave(Sent(t, k), t, k)
  BY <1>1, <1>2, SentFits
<1>5. OfWave(sent, t, k)
  BY <1>2, <1>3, <1>4, DisownedFits
<1>6. /\ mempool' \in Seq(Txs)
      /\ \A u, v, kind : Pending(v, kind, u) => Pending(v, kind, u)'
      /\ \A i \in DOMAIN mempool' : RevokeFits(mempool, i)'
  BY <1>3, <1>5, WaveFits
<1>7. PICK r \in Reqs : req' = [req EXCEPT ![t] = r] /\ Fits(t, r)
  BY ThrowFits
<1>8. ProvTypes'
  BY <1>1, <1>6, <1>7 DEF ProvTypes
<1>9. Fits(t, r)'
  BY <1>1, <1>6, <1>7, <1>8, Still, FitsStays
<1> QED  BY <1>6, <1>7, <1>8, <1>9, Still, Moves

LEMMA SubmitKeeps ==
  ASSUME HandInv, NEW t \in Tabs, Submit(t)
  PROVE  HandInv'
<1>1. req[t].at = "send" /\ UNCHANGED <<doc, site, shown, scenario, harm>>
  BY DEF Submit, chain, bounds
<1>2. PICK k \in 0..Len(req[t].wave) : k = Estimated(t)
  BY EstimatedFits DEF HandInv
<1>3. CASE k = Len(req[t].wave) /\ mempool' = mempool \o Sent(t, k) /\ Goto(t, "receipts")
  BY <1>1, <1>3, SubmitWhole
<1>4. CASE mempool' = mempool \o Disowned({t}, Sent(t, k)) /\ Throw(t, req[t].state)
  BY <1>1, <1>4, SubmitPart DEF HandInv, ProvTypes
<1> QED  BY <1>2, <1>3, <1>4 DEF Submit

LEMMA FaultFits ==
  ASSUME HandInv, NEW t \in Tabs, Fault(t)
  PROVE  harm' \in [Wallets -> SUBSET Harms]
<1>1. "finish failed" \in Harms
  BY DEF Harms
<1> QED  BY <1>1, HarmedFits DEF HandInv, ProvTypes, Fault

LEMMA SubmitFailsKeeps ==
  ASSUME HandInv, NEW t \in Tabs, SubmitFails(t)
  PROVE  HandInv'
<1>1. req[t].at = "send" /\ Throw(t, req[t].state) /\ UNCHANGED <<doc, site, shown, scenario>>
  BY DEF SubmitFails, chain
<1>2. PICK k \in 0..Estimated(t) : mempool' = mempool \o Disowned({t}, Sent(t, k))
  BY DEF SubmitFails
<1>3. k \in 0..Len(req[t].wave)
  BY <1>2, EstimatedFits DEF HandInv
<1> QED  BY <1>1, <1>2, <1>3, FaultFits, SubmitPart DEF SubmitFails

LEMMA ReceiptLateKeeps ==
  ASSUME HandInv, NEW t \in Tabs, ReceiptLate(t)
  PROVE  HandInv'
<1>1. /\ req[t].at = "receipts" /\ Throw(t, req[t].state) /\ UNCHANGED <<doc, site, shown, scenario>>
      /\ mempool' = Disowned({t}, mempool)
  BY DEF ReceiptLate, chain
<1>2. PICK r \in Reqs : req' = [req EXCEPT ![t] = r] /\ Fits(t, r)
  BY <1>1, ThrowFits
<1>3. req' \in [Tabs -> Reqs] /\ harm' \in [Wallets -> SUBSET Harms]
  BY <1>2, FaultFits DEF ReceiptLate, HandInv, ProvTypes
<1>4. /\ ProvTypes'
      /\ \A i \in DOMAIN mempool' : RevokeFits(mempool, i)'
      /\ \A u : u \notin {t} => \A w, kind : Pending(w, kind, u) => Pending(w, kind, u)'
  BY <1>1, <1>3, GivenUp
<1>5. Grows /\ \A w \in Wallets : SiteFits(w)' /\ DocFits(w)'
  BY <1>1, Still
<1>6. Fits(t, r)'
  <2>1. req'[t] = r /\ req[t] \in Reqs
    BY <1>2 DEF HandInv, ProvTypes
  <2>2. CASE req' = [req EXCEPT ![t] = Idle]
    BY <1>2, <2>1, <2>2, IdleFits DEF Fits, HandInv, ProvTypes
  <2>3. CASE req' = [req EXCEPT ![t] = [Idle EXCEPT !.at = "rescue", !.wallet = req[t].wallet, !.state = req[t].state]]
    <3>1. r = [Idle EXCEPT !.at = "rescue", !.wallet = req[t].wallet, !.state = req[t].state]
      BY <2>1, <2>3 DEF HandInv, ProvTypes
    <3>2. r.at = "rescue" /\ r.phase = "start"
      BY <3>1, IdleFits DEF Reqs
    <3> QED  BY <1>1, <1>2, <3>2 DEF Fits, StartFits, Deployed
  <2> QED  BY <1>1, <2>2, <2>3 DEF Throw, End
<1> QED  BY <1>2, <1>4, <1>5, <1>6, Moves

LEMMA CrashKeeps ==
  ASSUME HandInv, Crash
  PROVE  HandInv'
<1>1. /\ mempool' = Disowned(Tabs, mempool) /\ req' = [t \in Tabs |-> Idle]
      /\ UNCHANGED <<doc, site, shown, scenario>>
  BY DEF Crash, chain
<1>2. harm' \in [Wallets -> SUBSET Harms] /\ req' \in [Tabs -> Reqs]
  BY <1>1, HarmedFits, IdleFits DEF Crash, HandInv, Harms
<1>3. ProvTypes' /\ \A i \in DOMAIN mempool' : RevokeFits(mempool, i)'
  BY <1>1, <1>2, GivenUp
<1>4. \A w \in Wallets : SiteFits(w)' /\ DocFits(w)'
  BY <1>1, Still
<1>5. \A t \in Tabs : Fits(t, req[t])'
  BY <1>1, IdleFits DEF Fits
<1> QED  BY <1>3, <1>4, <1>5 DEF HandInv

LEMMA ReceiptsKeeps ==
  ASSUME HandInv, NEW t \in Tabs, Receipts(t)
  PROVE  HandInv'
<1>1. /\ req[t] \in Reqs /\ Fits(t, req[t]) /\ req \in [Tabs -> Reqs] /\ site \in [Wallets -> Sites]
      /\ req[t].at = "receipts"
  BY DEF HandInv, ProvTypes, Receipts
<1>2. UNCHANGED <<doc, site, mempool, shown, harm, scenario>>
  BY DEF Receipts, Quiet, chain, bounds
<1>3. PICK w \in Wallets : w = req[t].wallet
  BY <1>1 DEF Fits
<1>4. \A kind : ~Pending(w, kind, t)
  BY DEF Receipts, Waiting, Pending
<1>5. site[w] \in Sites /\ req[t].state \in States /\ req[t].rest \in Seq(Kinds)
  BY <1>1, <1>3 DEF Reqs
<1>6. CASE Throw(t, req[t].state)
  <2>1. PICK r \in Reqs : req' = [req EXCEPT ![t] = r] /\ Fits(t, r)
    BY <1>1, <1>6, ThrowFits
  <2> QED  BY <1>2, <2>1, Reads
<1>7. CASE req[t].phase = "start" /\ req' = [req EXCEPT ![t].at = "save", ![t].state.committed = TRUE]
  <2> DEFINE st == [req[t].state EXCEPT !.committed = TRUE]
  <2>1. PICK r : r = [req[t] EXCEPT !.at = "save", !.state = st]
    OBVIOUS
  <2>2. /\ st \in States /\ st.proxies = req[t].state.proxies /\ st.registered = req[t].state.registered
        /\ st.committed
    BY <1>5 DEF States
  <2>3. /\ r \in Reqs /\ r.at = "save" /\ r.wallet = w /\ r.phase = "start" /\ r.state = st
    BY <1>1, <1>3, <1>7, <2>1, <2>2 DEF Reqs, Places
  <2>4. req' = [req EXCEPT ![t] = r]
    BY <1>1, <1>5, <1>7, <2>1 DEF Reqs, States
  <2> HIDE DEF st
  <2>5. StartFits(t, req[t])
    BY <1>1, <1>7 DEF Fits
  <2>6. \A p \in Proxies : p \in st.proxies /\ p \in site[w].proxies
    BY <1>1, <1>3, <1>4, <2>2, <2>5 DEF StartFits
  <2>7. st.proxies = Proxies /\ Deployed(w)
    BY <1>5, <2>2, <2>6 DEF States, Sites, Deployed
  <2>8. st.registered => doc[w].done
    BY <1>3, <2>2, <2>5 DEF StartFits
  <2>9. StartFits(t, r)
    BY <2>2, <2>3, <2>8 DEF StartFits
  <2>10. Fits(t, r)
    BY <2>3, <2>7, <2>9 DEF Fits
  <2> QED  BY <1>2, <2>3, <2>4, <2>10, Reads
<1>8. ASSUME req[t].phase = "finish", req[t].ok
      PROVE  /\ FinishFits(t, req[t]) /\ req[t].state.committed
             /\ req[t].state.proxies = Proxies /\ Deployed(w)
             /\ ~req[t].state.registered => Owned(w) /\ RestFits(w, req[t].rest)
             /\ req[t].state.registered => HandedOver(w)
  <2>1. FinishFits(t, req[t])
    BY <1>1, <1>8 DEF Fits
  <2>2. req[t].state.committed
    BY <2>1 DEF FinishFits
  <2>3. req[t].state.proxies = Proxies /\ Deployed(w)
    BY <1>1, <1>3, <2>2 DEF Fits
  <2>4. ~req[t].state.registered => Owned(w) /\ RestFits(w, req[t].rest)
    BY <1>1, <1>3, <1>4, <1>8, <2>1 DEF FinishFits, Owned
  <2>5. req[t].state.registered => HandedOver(w)
    BY <1>1, <1>3, <1>4, <1>8, <2>1 DEF FinishFits, HandedOver
  <2> QED  BY <2>1, <2>2, <2>3, <2>4, <2>5
<1>9. CASE /\ req[t].ok /\ req[t].phase = "finish" /\ ~req[t].state.registered
           /\ req' = [req EXCEPT ![t].at = "send", ![t].state.registered = TRUE, ![t].wave = req[t].rest]
  <2> DEFINE st == [req[t].state EXCEPT !.registered = TRUE]
  <2>1. PICK r : r = [req[t] EXCEPT !.at = "send", !.state = st, !.wave = req[t].rest]
    OBVIOUS
  <2>2. /\ st \in States /\ st.proxies = req[t].state.proxies /\ st.registered
        /\ st.committed = req[t].state.committed
    BY <1>5 DEF States
  <2>3. /\ r \in Reqs /\ r.at = "send" /\ r.wallet = w /\ r.phase = "finish" /\ r.state = st
        /\ r.wave = req[t].rest
    BY <1>1, <1>3, <1>5, <1>9, <2>1, <2>2 DEF Reqs, Places
  <2>4. req' = [req EXCEPT ![t] = r]
    BY <1>1, <1>5, <1>9, <2>1 DEF Reqs, States
  <2> HIDE DEF st
  <2>5. FinishFits(t, r)
    BY <1>8, <1>9, <2>2, <2>3 DEF FinishFits
  <2>6. Fits(t, r)
    BY <1>8, <1>9, <2>2, <2>3, <2>5 DEF Fits
  <2> QED  BY <1>2, <2>3, <2>4, <2>6, Reads
<1>10. CASE req[t].ok /\ req[t].phase = "finish" /\ req[t].state.registered /\ Goto(t, "save")
  <2>1. PICK r : r = [req[t] EXCEPT !.at = "save"]
    OBVIOUS
  <2>2. r \in Reqs /\ r.at = "save" /\ r.wallet = w /\ r.phase = "finish" /\ r.state = req[t].state
    BY <1>1, <1>3, <1>10, <2>1 DEF Reqs, Places
  <2>3. FinishFits(t, r)
    BY <1>8, <1>10, <2>2 DEF FinishFits
  <2>4. Fits(t, r)
    BY <1>8, <1>10, <2>2, <2>3 DEF Fits
  <2> QED  BY <1>2, <1>10, <2>1, <2>2, <2>4, Reads DEF Goto
<1> QED  BY <1>6, <1>7, <1>9, <1>10 DEF Receipts

----------------------------------------------------------------------------
\* What a request says when it is done.

\* A document written over: what it says fits, if the state it is given does.
LEMMA StoreFits ==
  ASSUME HandInv, NEW t \in Tabs, NEW w \in Wallets, req[t].wallet = w, NEW d \in BOOLEAN, Store(t, d),
         UNCHANGED site, req[t].state.committed => req[t].state.proxies = Proxies /\ Deployed(w),
         req[t].state.registered => doc[w].done \/ d, d => Deployed(w) /\ HandedOver(w)
  PROVE  /\ doc' \in [Wallets -> Docs] /\ Grows
         /\ \A v \in Wallets : SiteFits(v)' /\ DocFits(v)'
         /\ doc'[w].done = (doc[w].done \/ d)
<1>1. doc \in [Wallets -> Docs] /\ req[t] \in Reqs /\ req[t].state \in States
  BY DEF HandInv, ProvTypes, Reqs
<1>2. doc' = [doc EXCEPT ![w] = [begun |-> TRUE, done |-> doc[w].done \/ d, state |-> req[t].state]]
  BY DEF Store
<1>3. /\ doc' \in [Wallets -> Docs]
      /\ doc'[w] = [begun |-> TRUE, done |-> doc[w].done \/ d, state |-> req[t].state]
      /\ \A v \in Wallets \ {w} : doc'[v] = doc[v]
  BY <1>1, <1>2 DEF Docs
<1>4. doc'[w].begun /\ doc'[w].done = (doc[w].done \/ d) /\ doc'[w].state = req[t].state
  BY <1>3
<1>5. Grows
  BY <1>3, <1>4 DEF Grows
<1>6. \A v \in Wallets : SiteFits(v)'
  BY DEF HandInv, SiteFits, HandedOver, Owned
<1>7. ASSUME NEW v \in Wallets \ {w} PROVE DocFits(v)'
  BY <1>3 DEF HandInv, DocFits, HandedOver, Owned, Deployed
<1>8. DocFits(w)'
  <2>1. doc[w].done => Deployed(w) /\ HandedOver(w)
    BY DEF HandInv, DocFits
  <2> QED  BY <1>4, <2>1 DEF DocFits, HandedOver, Owned, Deployed
<1> QED  BY <1>3, <1>4, <1>5, <1>6, <1>7, <1>8

LEMMA SaveKeeps ==
  ASSUME HandInv, NEW t \in Tabs, Save(t)
  PROVE  HandInv'
<1>1. /\ req[t] \in Reqs /\ Fits(t, req[t]) /\ req \in [Tabs -> Reqs] /\ ProvTypes
      /\ req[t].at = "save" /\ UNCHANGED <<site, mempool, harm, scenario>>
  BY DEF HandInv, ProvTypes, Save, chain, bounds
<1>2. PICK w \in Wallets : w = req[t].wallet
  BY <1>1 DEF Fits
<1>3. PICK d \in BOOLEAN : d = (req[t].phase = "finish")
  OBVIOUS
<1>4. req[t].state.committed => req[t].state.proxies = Proxies /\ Deployed(w)
  BY <1>1, <1>2 DEF Fits
<1>5. req[t].state.registered => doc[w].done \/ d
  BY <1>1, <1>2, <1>3 DEF Fits, StartFits, Reqs
<1>6. d => Deployed(w) /\ HandedOver(w)
  BY <1>1, <1>2, <1>3 DEF Fits, FinishFits
<1>7. /\ doc' \in [Wallets -> Docs] /\ Grows
      /\ \A v \in Wallets : SiteFits(v)' /\ DocFits(v)'
      /\ doc'[w].done = (doc[w].done \/ d)
  BY <1>1, <1>2, <1>3, <1>4, <1>5, <1>6, StoreFits DEF Save
<1>8. shown' \in [Tabs -> Wallets \cup {Nobody}]
  BY <1>1 DEF ProvTypes, Save
<1>9. ASSUME NEW r \in Reqs, req' = [req EXCEPT ![t] = r], Fits(t, r)'
      PROVE  HandInv'
  <2>1. ProvTypes'
    BY <1>1, <1>7, <1>8, <1>9 DEF ProvTypes
  <2>2. \A u \in Tabs : \A v, kind : Pending(v, kind, u) => Pending(v, kind, u)'
    BY <1>1 DEF Pending
  <2>3. \A i \in DOMAIN mempool' : RevokeFits(mempool, i)'
    BY <1>1, <1>7, <2>1, PoolStays
  <2> QED  BY <1>7, <1>9, <2>1, <2>2, <2>3, Moves
<1>10. CASE req[t].phase = "start"
  <2>1. PICK r : r = [req[t] EXCEPT !.at = "answer"]
    OBVIOUS
  <2>2. r \in Reqs /\ r.at = "answer" /\ r.wallet = w /\ r.phase = "start" /\ r.state = req[t].state
    BY <1>1, <1>2, <1>10, <2>1 DEF Reqs, Places
  <2>3. StartFits(t, req[t])
    BY <1>1, <1>10 DEF Fits
  <2>4. StartFits(t, r)'
    BY <1>1, <1>2, <1>7, <2>2, <2>3 DEF StartFits
  <2>5. Fits(t, r)'
    BY <1>1, <1>4, <2>2, <2>4 DEF Fits, Deployed
  <2>6. req' = [req EXCEPT ![t] = r]
    BY <1>10, <2>1 DEF Save, Goto
  <2> QED  BY <1>9, <2>2, <2>5, <2>6
<1>11. CASE req[t].phase # "start"
  <2>1. req' = [req EXCEPT ![t] = Idle] /\ Idle \in Reqs
    BY <1>11, IdleFits DEF Save, End
  <2>2. Fits(t, Idle)'
    BY IdleFits DEF Fits
  <2> QED  BY <1>9, <2>1, <2>2
<1> QED  BY <1>10, <1>11

LEMMA RescueKeeps ==
  ASSUME HandInv, NEW t \in Tabs, Rescue(t)
  PROVE  HandInv'
<1>1. /\ req[t] \in Reqs /\ Fits(t, req[t]) /\ req \in [Tabs -> Reqs] /\ ProvTypes
      /\ req[t].at = "rescue" /\ UNCHANGED <<site, mempool, shown, scenario>>
  BY DEF HandInv, ProvTypes, Rescue, chain, bounds
<1>2. PICK w \in Wallets : w = req[t].wallet
  BY <1>1 DEF Fits
<1>3. req[t].phase = "start" /\ StartFits(t, req[t])
  BY <1>1 DEF Fits, FinishFits, Reqs
<1>4. /\ doc' \in [Wallets -> Docs] /\ Grows
      /\ \A v \in Wallets : SiteFits(v)' /\ DocFits(v)'
  <2>1. req[t].state.committed => req[t].state.proxies = Proxies /\ Deployed(w)
    BY <1>1, <1>2 DEF Fits
  <2>2. req[t].state.registered => doc[w].done
    BY <1>2, <1>3 DEF StartFits
  <2> QED  BY <1>1, <1>2, <2>1, <2>2, StoreFits DEF Rescue
<1>5. req' = [req EXCEPT ![t] = Idle] /\ Idle \in Reqs /\ Fits(t, Idle)'
  BY IdleFits DEF Rescue, End, Fits
<1>6. harm' \in [Wallets -> SUBSET Harms]
  BY <1>1, HarmedFits DEF Rescue, Harms
<1>7. ProvTypes'
  BY <1>1, <1>4, <1>5, <1>6 DEF ProvTypes
<1>8. \A u \in Tabs : \A v, kind : Pending(v, kind, u) => Pending(v, kind, u)'
  BY <1>1 DEF Pending
<1>9. \A i \in DOMAIN mempool' : RevokeFits(mempool, i)'
  BY <1>1, <1>4, <1>7, PoolStays
<1> QED  BY <1>4, <1>5, <1>7, <1>8, <1>9, Moves

LEMMA AnswerKeeps ==
  ASSUME HandInv, NEW t \in Tabs, Answer(t)
  PROVE  HandInv'
<1>1. ProvTypes /\ UNCHANGED <<doc, site, mempool, harm, scenario>> /\ req[t].wallet \in Wallets \cup {Nobody}
  BY DEF HandInv, ProvTypes, Answer, chain, bounds, Reqs
<1>2. req' = [req EXCEPT ![t] = Idle] /\ Idle \in Reqs /\ Fits(t, Idle)'
  BY IdleFits DEF Answer, End, Fits
<1>3. shown' \in [Tabs -> Wallets \cup {Nobody}]
  BY <1>1 DEF ProvTypes, Answer
<1>4. ProvTypes'
  BY <1>1, <1>2, <1>3 DEF ProvTypes
<1>5. \A u \in Tabs : \A v, kind : Pending(v, kind, u) => Pending(v, kind, u)'
  BY <1>1 DEF Pending
<1>6. \A i \in DOMAIN mempool' : RevokeFits(mempool, i)'
  BY <1>1, <1>4, Still, PoolStays
<1> QED  BY <1>1, <1>2, <1>4, <1>5, <1>6, Still, Moves

----------------------------------------------------------------------------
\* The wizard.

\* The words of a tab are gone: only its key, where it was published or sent, is lost.
LEMMA ForgetFits ==
  ASSUME HandInv, NEW t \in Tabs, ForgetWords(t), UNCHANGED <<doc, scenario>>, req' \in [Tabs -> Reqs],
         shown' \in [Tabs -> Wallets \cup {Nobody}], harm' \in [Wallets -> SUBSET Harms]
  PROVE  /\ ProvTypes' /\ Grows
         /\ \A w \in Wallets : SiteFits(w)' /\ DocFits(w)'
         /\ \A u : \A w, kind : Pending(w, kind, u) => Pending(w, kind, u)'
         /\ \A i \in DOMAIN mempool' : RevokeFits(mempool, i)'
<1>1. /\ ProvTypes /\ doc \in [Wallets -> Docs] /\ site \in [Wallets -> Sites] /\ mempool \in Seq(Txs)
      /\ Lost \notin Tabs
  BY ProvisionAssumptions DEF HandInv, ProvTypes
<1>2. ASSUME NEW w \in Wallets
      PROVE  /\ site'[w] \in Sites /\ site'[w].proxies = site[w].proxies /\ site'[w].name = site[w].name
             /\ site'[w].userRoot = site[w].userRoot /\ site'[w].labelled = site[w].labelled
             /\ site'[w].projectRoot = site[w].projectRoot
             /\ site'[w].key \in Tabs => site[w].key \in Tabs
  <2>1. site[w] \in Sites
    BY <1>1
  <2>2. site'[w] = IF site[w].key = t THEN [site[w] EXCEPT !.key = Lost] ELSE site[w]
    BY DEF ForgetWords
  <2> QED  BY <1>1, <2>1, <2>2 DEF Sites
<1>3. site' \in [Wallets -> Sites]
  <2>1. site' = [w \in Wallets |-> site'[w]]
    BY DEF ForgetWords
  <2> QED  BY <1>2, <2>1
<1>4. DOMAIN mempool' = 1..Len(mempool) /\ DOMAIN mempool = 1..Len(mempool)
  BY <1>1 DEF ForgetWords, Forgetting
<1>5. ASSUME NEW i \in 1..Len(mempool)
      PROVE  /\ mempool'[i] \in Txs /\ mempool'[i].kind = mempool[i].kind
             /\ mempool'[i].wallet = mempool[i].wallet /\ mempool'[i].by = mempool[i].by
  <2>1. mempool[i] \in Txs
    BY <1>1
  <2>2. mempool'[i] = IF mempool[i].key = t THEN [mempool[i] EXCEPT !.key = Lost] ELSE mempool[i]
    BY <1>4 DEF ForgetWords, Forgetting
  <2> QED  BY <2>1, <2>2 DEF Txs
<1>6. mempool' \in Seq(Txs)
  <2>1. mempool' = [i \in 1..Len(mempool) |-> mempool'[i]]
    BY <1>4 DEF ForgetWords, Forgetting
  <2> QED  BY <1>1, <1>5, <2>1
<1>7. ProvTypes' /\ Grows
  BY <1>1, <1>2, <1>3, <1>6 DEF ProvTypes, Grows
<1>8. \A w \in Wallets : SiteFits(w)' /\ DocFits(w)'
  BY <1>2 DEF HandInv, SiteFits, DocFits, HandedOver, Owned, Deployed
<1>9. \A u : \A w, kind : Pending(w, kind, u) => Pending(w, kind, u)'
  BY <1>4, <1>5 DEF Pending
<1>10. \A i \in DOMAIN mempool' : RevokeFits(mempool, i)'
  BY <1>4, <1>5, <1>7, PoolStays
<1> QED  BY <1>7, <1>8, <1>9, <1>10

\* A request begins from a document that fits.
LEMMA BeginFits ==
  ASSUME HandInv, NEW t \in Tabs, NEW w \in Wallets, NEW phase, NEW at, Begin(t, w, phase, at), ~doc[w].done,
         \/ phase = "start" /\ at = (IF doc[w].begun THEN "available" ELSE "cap")
         \/ phase = "finish" /\ at = "check" /\ doc[w].state.committed
  PROVE  \E r \in Reqs : req' = [req EXCEPT ![t] = r] /\ Fits(t, r)
<1>1. doc[w] \in Docs /\ DocFits(w)
  BY DEF HandInv, ProvTypes
<1>2. PICK r : r = [Idle EXCEPT !.at = at, !.wallet = w, !.phase = phase, !.state = doc[w].state]
  OBVIOUS
<1>3. doc[w].state \in States /\ at \in {"available", "cap", "check"} /\ phase \in {"start", "finish"}
  BY <1>1 DEF Docs
<1>4. /\ r \in Reqs /\ r.at = at /\ r.wallet = w /\ r.phase = phase /\ r.state = doc[w].state
      /\ r.wave = <<>>
  BY <1>2, <1>3, IdleFits DEF Reqs, Places
<1>5. /\ doc[w].state.committed => doc[w].state.proxies = Proxies /\ Deployed(w)
      /\ ~doc[w].begun => doc[w].state.proxies = {}
      /\ ~doc[w].state.registered
  BY <1>1 DEF DocFits
<1>6. CASE phase = "start" /\ at = (IF doc[w].begun THEN "available" ELSE "cap")
  <2>1. StartFits(t, r)
    BY <1>4, <1>5, <1>6 DEF StartFits
  <2> QED  BY <1>2, <1>3, <1>4, <1>5, <1>6, <2>1 DEF Fits, Begin
<1>7. CASE phase = "finish" /\ at = "check" /\ doc[w].state.committed
  <2>1. FinishFits(t, r)
    BY <1>4, <1>5, <1>7 DEF FinishFits
  <2> QED  BY <1>2, <1>3, <1>4, <1>5, <1>7, <2>1 DEF Fits, Begin
<1> QED  BY <1>6, <1>7

LEMMA ClaimKeeps ==
  ASSUME HandInv, NEW t \in Tabs, NEW w \in Wallets, Claim(t, w)
  PROVE  HandInv'
<1>1. ProvTypes /\ ForgetWords(t) /\ UNCHANGED <<doc, scenario>>
  BY DEF HandInv, Claim, bounds
<1>2. shown' \in [Tabs -> Wallets \cup {Nobody}]
  BY <1>1 DEF Claim, ProvTypes
<1>3. harm' \in [Wallets -> SUBSET Harms]
  BY <1>1, HarmedFits DEF Claim, ProvTypes, Harms
<1>4. CASE req' = req
  <2>1. req' \in [Tabs -> Reqs]
    BY <1>1, <1>4 DEF ProvTypes
  <2>2. /\ ProvTypes' /\ Grows
        /\ \A v \in Wallets : SiteFits(v)' /\ DocFits(v)'
        /\ \A u : \A v, kind : Pending(v, kind, u) => Pending(v, kind, u)'
        /\ \A i \in DOMAIN mempool' : RevokeFits(mempool, i)'
    BY <1>1, <1>2, <1>3, <2>1, ForgetFits
  <2> QED  BY <1>4, <2>2, Rests
<1>5. CASE ~doc[w].done /\ Begin(t, w, "start", IF doc[w].begun THEN "available" ELSE "cap")
  <2>1. PICK r \in Reqs : req' = [req EXCEPT ![t] = r] /\ Fits(t, r)
    BY <1>5, BeginFits
  <2>2. req' \in [Tabs -> Reqs]
    BY <1>1, <2>1 DEF ProvTypes
  <2>3. /\ ProvTypes' /\ Grows
        /\ \A v \in Wallets : SiteFits(v)' /\ DocFits(v)'
        /\ \A u : \A v, kind : Pending(v, kind, u) => Pending(v, kind, u)'
        /\ \A i \in DOMAIN mempool' : RevokeFits(mempool, i)'
    BY <1>1, <1>2, <1>3, <2>2, ForgetFits
  <2>4. Fits(t, r)'
    BY <1>1, <2>1, <2>3, FitsStays
  <2> QED  BY <2>1, <2>3, <2>4, Moves
<1> QED  BY <1>4, <1>5 DEF Claim

LEMMA FinishKeeps ==
  ASSUME HandInv, NEW t \in Tabs, Finish(t)
  PROVE  HandInv'
<1>1. /\ ProvTypes /\ UNCHANGED <<doc, site, mempool, harm, scenario>>
      /\ shown[t] \in Wallets
  BY DEF HandInv, ProvTypes, Finish, bounds, chain
<1>2. shown' \in [Tabs -> Wallets \cup {Nobody}]
  BY <1>1 DEF Finish, ProvTypes
<1>3. \A u : \A v, kind : Pending(v, kind, u) => Pending(v, kind, u)'
  BY <1>1 DEF Pending
<1>4. Grows /\ \A v \in Wallets : SiteFits(v)' /\ DocFits(v)'
  BY <1>1, Still
<1>5. CASE req' = req
  <2>1. ProvTypes'
    BY <1>1, <1>2, <1>5 DEF ProvTypes
  <2>2. \A i \in DOMAIN mempool' : RevokeFits(mempool, i)'
    BY <1>1, <1>4, <2>1, PoolStays
  <2> QED  BY <1>3, <1>4, <1>5, <2>1, <2>2, Rests
<1>6. CASE /\ ~doc[shown[t]].done /\ doc[shown[t]].state.committed
           /\ Begin(t, shown[t], "finish", "check")
  <2>1. PICK r \in Reqs : req' = [req EXCEPT ![t] = r] /\ Fits(t, r)
    BY <1>1, <1>6, BeginFits
  <2>2. ProvTypes'
    BY <1>1, <1>2, <2>1 DEF ProvTypes
  <2>3. \A i \in DOMAIN mempool' : RevokeFits(mempool, i)'
    BY <1>1, <1>4, <2>2, PoolStays
  <2>4. Fits(t, r)'
    BY <1>1, <1>3, <1>4, <2>1, <2>2, FitsStays
  <2> QED  BY <1>3, <1>4, <2>1, <2>2, <2>3, <2>4, Moves
<1> QED  BY <1>5, <1>6 DEF Finish

LEMMA ReloadKeeps ==
  ASSUME HandInv, NEW t \in Tabs, Reload(t)
  PROVE  HandInv'
<1>1. ProvTypes /\ ForgetWords(t) /\ UNCHANGED <<doc, scenario, req>>
  BY DEF HandInv, Reload, bounds
<1>2. shown' \in [Tabs -> Wallets \cup {Nobody}] /\ req' \in [Tabs -> Reqs]
  BY <1>1 DEF Reload, ProvTypes
<1>3. harm' \in [Wallets -> SUBSET Harms]
  BY <1>1, HarmedFits DEF Reload, Harms
<1>4. /\ ProvTypes' /\ Grows
      /\ \A v \in Wallets : SiteFits(v)' /\ DocFits(v)'
      /\ \A u : \A v, kind : Pending(v, kind, u) => Pending(v, kind, u)'
      /\ \A i \in DOMAIN mempool' : RevokeFits(mempool, i)'
  BY <1>1, <1>2, <1>3, ForgetFits
<1> QED  BY <1>1, <1>4, Rests

----------------------------------------------------------------------------
\* The chain.

\* A wallet's contracts change, and nothing else.
LEMMA SiteMoves ==
  ASSUME HandInv, NEW w \in Wallets, NEW s \in Sites, site' = [site EXCEPT ![w] = s],
         UNCHANGED <<doc, mempool, req, shown, harm, scenario>>,
         s.proxies = site[w].proxies, s.key = site[w].key, s.projectRoot = site[w].projectRoot,
         s.userRoot = site[w].userRoot, s.labelled = site[w].labelled,
         site[w].name = "mine" => s.name = "mine"
  PROVE  HandInv'
<1>1. ProvTypes /\ site \in [Wallets -> Sites]
  BY DEF HandInv, ProvTypes
<1>2. site'[w] = s /\ \A v \in Wallets \ {w} : site'[v] = site[v]
  BY <1>1
<1>3. ProvTypes' /\ Grows
  BY <1>1, <1>2 DEF ProvTypes, Grows
<1>4. \A v \in Wallets : SiteFits(v)' /\ DocFits(v)'
  BY <1>2 DEF HandInv, SiteFits, DocFits, HandedOver, Owned, Deployed
<1>5. \A u : \A v, kind : Pending(v, kind, u) => Pending(v, kind, u)'
  BY DEF Pending
<1>6. \A i \in DOMAIN mempool' : RevokeFits(mempool, i)'
  BY <1>3, PoolStays
<1> QED  BY <1>3, <1>4, <1>5, <1>6, Rests

LEMMA MatureKeeps ==
  ASSUME HandInv, NEW w \in Wallets, Mature(w)
  PROVE  HandInv'
<1>1. site[w] \in Sites /\ UNCHANGED <<doc, mempool, req, shown, harm, scenario>>
  BY DEF HandInv, ProvTypes, Mature, bounds
<1>2. PICK s : s = [site[w] EXCEPT !.commitment = "mature"]
  OBVIOUS
<1>3. /\ s \in Sites /\ s.proxies = site[w].proxies /\ s.key = site[w].key /\ s.name = site[w].name
      /\ s.projectRoot = site[w].projectRoot /\ s.userRoot = site[w].userRoot /\ s.labelled = site[w].labelled
  BY <1>1, <1>2 DEF Sites
<1>4. site' = [site EXCEPT ![w] = s]
  BY <1>2 DEF Mature
<1> QED  BY <1>1, <1>3, <1>4, SiteMoves

LEMMA SquatKeeps ==
  ASSUME HandInv, NEW w \in Wallets, Squat(w)
  PROVE  HandInv'
<1>1. site[w] \in Sites /\ UNCHANGED <<doc, mempool, req, shown, harm, scenario>> /\ site[w].name = "free"
  BY DEF HandInv, ProvTypes, Squat
<1>2. PICK s : s = [site[w] EXCEPT !.name = "taken"]
  OBVIOUS
<1>3. /\ s \in Sites /\ s.proxies = site[w].proxies /\ s.key = site[w].key
      /\ s.projectRoot = site[w].projectRoot /\ s.userRoot = site[w].userRoot /\ s.labelled = site[w].labelled
  BY <1>1, <1>2 DEF Sites
<1>4. site' = [site EXCEPT ![w] = s]
  BY <1>2 DEF Squat
<1> QED  BY <1>1, <1>3, <1>4, SiteMoves

\* What a transaction does to the contracts of its wallet.
Effect(n, s, tx) ==
    /\ n \in Sites
    /\ n.proxies = IF tx.kind \in Proxies THEN s.proxies \cup {tx.kind} ELSE s.proxies
    /\ n.key = IF tx.kind = "resolver" THEN tx.key ELSE s.key
    /\ n.name = IF tx.kind = "register" THEN "mine" ELSE s.name
    /\ n.userRoot = (s.userRoot \/ tx.kind = "grant")
    /\ n.labelled = (s.labelled \/ tx.kind = "label")
    /\ n.projectRoot = (tx.kind = "registry" \/ (s.projectRoot /\ tx.kind # "revoke"))

LEMMA AfterFits ==
  ASSUME NEW tx \in Txs, NEW s \in Sites
  PROVE  Effect(After(tx, s), s, tx)
<1>1. tx.kind \in Kinds /\ tx.key \in Tabs \cup {None, Lost}
  BY DEF Txs
<1>2. CASE tx.kind = "resolver"
  BY <1>1, <1>2 DEF After, Effect, Sites, Proxies
<1>3. CASE tx.kind = "registry"
  BY <1>1, <1>3 DEF After, Effect, Sites, Proxies
<1>4. CASE tx.kind = "namespaces"
  BY <1>1, <1>4 DEF After, Effect, Sites, Proxies
<1>5. CASE tx.kind = "commit"
  BY <1>1, <1>5 DEF After, Effect, Sites, Proxies
<1>6. CASE tx.kind = "mint"
  BY <1>1, <1>6 DEF After, Effect, Sites, Proxies
<1>7. CASE tx.kind = "approve"
  BY <1>1, <1>7 DEF After, Effect, Sites, Proxies
<1>8. CASE tx.kind = "register"
  BY <1>1, <1>8 DEF After, Effect, Sites, Proxies
<1>9. CASE tx.kind = "grant"
  BY <1>1, <1>9 DEF After, Effect, Sites, Proxies
<1>10. CASE tx.kind = "label"
  BY <1>1, <1>10 DEF After, Effect, Sites, Proxies
<1>11. CASE tx.kind = "revoke"
  BY <1>1, <1>11 DEF After, Effect, Sites, Proxies
<1> QED  BY <1>1, <1>2, <1>3, <1>4, <1>5, <1>6, <1>7, <1>8, <1>9, <1>10, <1>11 DEF Kinds, Proxies

\* A transaction that goes through: it has landed, and took nothing back.
LEMMA GoesThrough ==
  ASSUME HandInv, mempool # <<>>, NEW tx \in Txs, tx = mempool[1], 1 \in DOMAIN mempool,
         Succeeds(tx), site' = [site EXCEPT ![tx.wallet] = After(tx, @)], UNCHANGED doc
  PROVE  /\ site' \in [Wallets -> Sites] /\ Grows /\ Landed(tx.wallet, tx.kind)'
         /\ \A w \in Wallets : SiteFits(w)' /\ DocFits(w)'
<1>1. /\ doc \in [Wallets -> Docs] /\ site \in [Wallets -> Sites]
  BY DEF HandInv, ProvTypes
<1>2. PICK v \in Wallets : v = tx.wallet
  BY DEF Txs
<1>3. PICK s \in Sites : s = site[v]
  BY <1>1
<1>4. PICK n : n = After(tx, s) /\ Effect(n, s, tx)
  BY AfterFits
<1>5. /\ n \in Sites
      /\ n.proxies = IF tx.kind \in Proxies THEN s.proxies \cup {tx.kind} ELSE s.proxies
      /\ n.key = IF tx.kind = "resolver" THEN tx.key ELSE s.key
      /\ n.name = IF tx.kind = "register" THEN "mine" ELSE s.name
      /\ n.userRoot = (s.userRoot \/ tx.kind = "grant")
      /\ n.labelled = (s.labelled \/ tx.kind = "label")
      /\ n.projectRoot = (tx.kind = "registry" \/ (s.projectRoot /\ tx.kind # "revoke"))
  BY <1>4 DEF Effect
<1>6. site'[v] = n /\ (\A w \in Wallets \ {v} : site'[w] = site[w]) /\ site' \in [Wallets -> Sites]
  BY <1>1, <1>2, <1>3, <1>4, <1>5
<1>7. tx.kind \in Proxies => tx.kind \notin s.proxies
  <2>1. CASE tx.kind = "resolver"
    BY <1>2, <1>3, <2>1 DEF Succeeds, Proxies
  <2>2. CASE tx.kind = "registry"
    BY <1>2, <1>3, <2>2 DEF Succeeds, Proxies
  <2>3. CASE tx.kind = "namespaces"
    BY <1>2, <1>3, <2>3 DEF Succeeds, Proxies
  <2> QED  BY <2>1, <2>2, <2>3 DEF Proxies
<1>8. "registry" \in s.proxies /\ ~s.projectRoot => ~n.projectRoot
  BY <1>5, <1>7 DEF Proxies
<1>9. Grows
  BY <1>3, <1>5, <1>6, <1>8 DEF Grows
<1>10. Landed(v, tx.kind)'
  BY <1>5, <1>6 DEF Landed, Proxies
<1>11. ASSUME NEW w \in Wallets \ {v} PROVE SiteFits(w)' /\ DocFits(w)'
  BY <1>6 DEF HandInv, SiteFits, DocFits, HandedOver, Owned, Deployed
<1>12. tx.kind = "revoke" => Deployed(v) /\ Owned(v) /\ s.labelled
  <2>1. RevokeFits(mempool, 1) /\ DOMAIN mempool = 1..Len(mempool)
    BY DEF HandInv, ProvTypes
  <2>2. \A j \in DOMAIN mempool : ~(j < 1)
    BY <2>1
  <2> QED  BY <1>2, <1>3, <2>1, <2>2 DEF RevokeFits
<1>13. SiteFits(v) /\ DocFits(v)
  BY DEF HandInv
<1>14. ASSUME "registry" \in n.proxies, ~n.projectRoot
       PROVE  n.name = "mine" /\ n.userRoot /\ n.labelled
  <2>1. tx.kind # "registry"
    BY <1>5, <1>14
  <2>2. "registry" \in s.proxies
    BY <1>5, <1>14, <2>1
  <2>3. CASE tx.kind = "revoke"
    BY <1>3, <1>5, <1>12, <2>3 DEF Owned, Proxies
  <2>4. CASE tx.kind # "revoke"
    <3>1. ~s.projectRoot
      BY <1>5, <1>14, <2>1, <2>4
    <3>2. s.name = "mine" /\ s.userRoot /\ s.labelled
      BY <1>3, <1>13, <2>2, <3>1 DEF SiteFits, HandedOver, Owned
    <3> QED  BY <1>5, <3>2
  <2> QED  BY <2>3, <2>4
<1>15. n.key \in Tabs => "resolver" \in n.proxies
  BY <1>3, <1>5, <1>13 DEF SiteFits, Proxies
<1>16. SiteFits(v)'
  BY <1>6, <1>14, <1>15 DEF SiteFits, HandedOver, Owned
<1>17. (Deployed(v) => n.proxies = Proxies) /\ (Deployed(v) /\ HandedOver(v) => n.name = "mine" /\ n.userRoot /\ n.labelled /\ ~n.projectRoot)
  BY <1>3, <1>5, <1>8 DEF Deployed, HandedOver, Owned, Proxies, Sites
<1>18. DocFits(v)'
  BY <1>6, <1>13, <1>17 DEF DocFits, Deployed, HandedOver, Owned
<1> QED  BY <1>2, <1>6, <1>9, <1>10, <1>11, <1>16, <1>18

\* One that is mined, whether it goes through or not, leaves the revocations behind
\* it fitting: a label that could not be registered is registered already.
LEMMA MineKeeps ==
  ASSUME HandInv, Mine
  PROVE  HandInv'
<1>1. /\ ProvTypes /\ mempool # <<>> /\ mempool' = Tail(mempool)
      /\ UNCHANGED <<doc, shown, harm, scenario>>
  BY DEF HandInv, Mine, bounds
<1>2. mempool \in Seq(Txs) /\ req \in [Tabs -> Reqs] /\ site \in [Wallets -> Sites]
  BY <1>1 DEF ProvTypes
<1>3. PICK tx \in Txs : tx = mempool[1] /\ tx = Head(mempool) /\ 1 \in DOMAIN mempool
  BY <1>1, <1>2
<1>4. PICK n \in Nat : Len(mempool) = n + 1 /\ DOMAIN mempool = 1..(n + 1)
  BY <1>1, <1>2
<1>5. /\ mempool' \in Seq(Txs) /\ DOMAIN mempool' = 1..n
      /\ \A i \in 1..n : mempool'[i] = mempool[i + 1]
  BY <1>1, <1>2, <1>4
<1>6. \A i \in DOMAIN mempool : i = 1 \/ (i - 1 \in DOMAIN mempool' /\ mempool'[i - 1] = mempool[i])
  <2>1. ASSUME NEW i \in 1..(n + 1), i # 1 PROVE i - 1 \in 1..n /\ (i - 1) + 1 = i
    BY <2>1
  <2> QED  BY <1>4, <1>5, <2>1
<1>7. \A w, kind, u : Pending(w, kind, u) =>
          Pending(w, kind, u)' \/ (tx.wallet = w /\ tx.kind = kind /\ tx.by = u)
  BY <1>3, <1>6 DEF Pending
<1>8. PICK v \in Wallets : v = tx.wallet
  BY DEF Txs
<1>9. \/ Succeeds(tx) /\ site' = [site EXCEPT ![tx.wallet] = After(tx, @)] /\ req' = req
      \/ ~Succeeds(tx) /\ site' = site
         /\ req' = IF tx.by \in Tabs THEN [req EXCEPT ![tx.by].ok = FALSE] ELSE req
  BY <1>3 DEF Mine, chain
<1>10. site' \in [Wallets -> Sites] /\ Grows /\ \A w \in Wallets : SiteFits(w)' /\ DocFits(w)'
  <2>1. CASE Succeeds(tx) /\ site' = [site EXCEPT ![tx.wallet] = After(tx, @)]
    BY <1>1, <1>3, <2>1, GoesThrough
  <2>2. CASE site' = site
    BY <1>1, <1>2, <2>2, Still
  <2> QED  BY <1>9, <2>1, <2>2
<1>11. Landed(v, tx.kind)' \/ (~Succeeds(tx) /\ (tx.kind \in Proxies => Landed(v, tx.kind)'))
  <2>1. CASE Succeeds(tx) /\ site' = [site EXCEPT ![tx.wallet] = After(tx, @)]
    BY <1>1, <1>3, <1>8, <2>1, GoesThrough
  <2>2. CASE ~Succeeds(tx) /\ site' = site
    BY <1>8, <2>2 DEF Succeeds, Landed, Proxies
  <2> QED  BY <1>9, <2>1, <2>2
<1>12. ASSUME NEW u \in Tabs
       PROVE  /\ req'[u] \in Reqs /\ Fits(u, req'[u])
              /\ ~Succeeds(tx) /\ tx.by = u => ~req'[u].ok
  <2>1. req[u] \in Reqs /\ Fits(u, req[u])
    BY <1>2 DEF HandInv
  <2>2. CASE req'[u] = req[u] /\ ~(~Succeeds(tx) /\ tx.by = u)
    BY <2>1, <2>2
  <2>3. CASE req'[u] = [req[u] EXCEPT !.ok = FALSE]
    <3>1. PICK r : r = [req[u] EXCEPT !.ok = FALSE]
      OBVIOUS
    <3>2. /\ r \in Reqs /\ r.at = req[u].at /\ r.wallet = req[u].wallet /\ r.phase = req[u].phase
          /\ r.state = req[u].state /\ r.wave = req[u].wave /\ r.rest = req[u].rest
          /\ r.todo = req[u].todo /\ ~r.ok
      BY <2>1, <3>1 DEF Reqs
    <3>3. StartFits(u, req[u]) => StartFits(u, r)
      BY <3>2 DEF StartFits
    <3>4. FinishFits(u, req[u]) => FinishFits(u, r)
      BY <3>2 DEF FinishFits
    <3>5. Fits(u, r)
      BY <2>1, <3>2, <3>3, <3>4 DEF Fits
    <3> QED  BY <2>3, <3>1, <3>2, <3>5
  <2>4. \/ req'[u] = req[u] /\ ~(~Succeeds(tx) /\ tx.by = u)
        \/ req'[u] = [req[u] EXCEPT !.ok = FALSE]
    BY <1>2, <1>9
  <2> QED  BY <2>2, <2>3, <2>4
<1>13. req' \in [Tabs -> Reqs]
  <2>1. DOMAIN req' = Tabs /\ req' = [u \in Tabs |-> req'[u]]
    BY <1>2, <1>9
  <2> QED  BY <1>12, <2>1
<1>14. ProvTypes'
  BY <1>1, <1>5, <1>10, <1>13 DEF ProvTypes
<1>15. ASSUME NEW u \in Tabs PROVE Fits(u, req[u])'
  <2>1. PICK r \in Reqs : r = req'[u] /\ Fits(u, r) /\ (~Succeeds(tx) /\ tx.by = u => ~r.ok)
    BY <1>12
  <2>2. \A kind : Pending(r.wallet, kind, u) =>
             Pending(r.wallet, kind, u)' \/ Landed(r.wallet, kind)' \/ (~r.ok /\ kind \notin Proxies)
    <3>1. ASSUME NEW kind, Pending(r.wallet, kind, u), ~Pending(r.wallet, kind, u)'
          PROVE  Landed(r.wallet, kind)' \/ (~r.ok /\ kind \notin Proxies)
      <4>1. PICK w : w = r.wallet
        OBVIOUS
      <4>2. v = w /\ tx.kind = kind /\ tx.by = u
        BY <1>7, <1>8, <3>1, <4>1
      <4>3. Landed(w, kind)' \/ (~r.ok /\ kind \notin Proxies)
        BY <1>11, <2>1, <4>2
      <4> QED  BY <4>1, <4>3
    <3> QED  BY <3>1
  <2>3. Fits(u, r)'
    BY <1>1, <1>10, <1>14, <2>1, <2>2, FitsOn
  <2> QED  BY <2>1, <2>3 DEF Fits, StartFits, FinishFits
<1>16. ASSUME NEW i \in DOMAIN mempool' PROVE RevokeFits(mempool, i)'
  <2>1. PICK k \in DOMAIN mempool : k = i + 1 /\ mempool'[i] = mempool[k]
    BY <1>4, <1>5
  <2>2. PICK w \in Wallets : w = mempool[k].wallet
    <3>1. mempool[k] \in Txs
      BY <1>2
    <3> QED  BY <3>1 DEF Txs
  <2>3. SUFFICES ASSUME mempool[k].kind = "revoke"
                 PROVE  /\ Deployed(w)' /\ Owned(w)'
                        /\ site'[w].labelled \/ \E j \in DOMAIN mempool' :
                              j < i /\ mempool'[j].wallet = w /\ mempool'[j].kind = "label"
    BY <2>1, <2>2 DEF RevokeFits, Deployed, Owned
  <2>4. RevokeFits(mempool, k)
    BY DEF HandInv
  <2>5. /\ Deployed(w) /\ Owned(w)
        /\ site[w].labelled \/ \E j \in DOMAIN mempool :
              j < k /\ mempool[j].wallet = w /\ mempool[j].kind = "label"
    BY <2>2, <2>3, <2>4 DEF RevokeFits
  <2>6. Deployed(w)' /\ Owned(w)' /\ (site[w].labelled => site'[w].labelled)
    BY <1>1, <1>10, <1>14, <2>5, GrowsOn DEF Grows
  <2>7. ASSUME ~site[w].labelled, NEW j \in DOMAIN mempool, j < k, mempool[j].wallet = w, mempool[j].kind = "label"
        PROVE  site'[w].labelled \/ \E m \in DOMAIN mempool' :
                   m < i /\ mempool'[m].wallet = w /\ mempool'[m].kind = "label"
    <3>1. CASE j = 1
      <4>1. tx.kind = "label" /\ v = w
        BY <1>3, <1>8, <2>7, <3>1
      <4>2. "registry" \in site[w].proxies /\ SiteFits(w)
        BY <2>5 DEF HandInv, Deployed, Proxies
      <4>3. site[w].projectRoot
        BY <2>7, <4>2 DEF SiteFits, HandedOver
      <4>4. Succeeds(tx)
        BY <1>8, <2>7, <4>1, <4>3 DEF Succeeds, Proxies
      <4>5. Landed(v, tx.kind)'
        BY <1>11, <4>4
      <4> QED  BY <4>1, <4>5 DEF Landed
    <3>2. CASE j # 1
      <4>1. PICK m \in DOMAIN mempool' : m = j - 1 /\ mempool'[m] = mempool[j]
        BY <1>6, <3>2
      <4>2. j \in Nat /\ i \in Nat
        BY <1>4, <1>5
      <4>3. m < i
        BY <2>1, <2>7, <4>1, <4>2
      <4> QED  BY <2>7, <4>1, <4>3
    <3> QED  BY <3>1, <3>2
  <2> QED  BY <2>5, <2>6, <2>7
<1> QED  BY <1>10, <1>14, <1>15, <1>16 DEF HandInv

----------------------------------------------------------------------------
\* Sponsored setup.

LEMMA InitHand ==
  Init => HandInv
<1> SUFFICES ASSUME Init PROVE HandInv
  OBVIOUS
<1>1. None \notin Tabs
  BY ProvisionAssumptions
<1>2. ProvTypes
  BY IdleFits DEF Init, ProvTypes, Docs, Sites, States, Harms
<1>3. \A t \in Tabs : Fits(t, req[t])
  BY IdleFits DEF Init, Fits
<1>4. \A w \in Wallets : SiteFits(w) /\ DocFits(w)
  BY <1>1, IdleFits DEF Init, SiteFits, DocFits
<1>5. \A i \in DOMAIN mempool : RevokeFits(mempool, i)
  BY DEF Init
<1> QED  BY <1>2, <1>3, <1>4, <1>5 DEF HandInv

LEMMA StepHand ==
  HandInv /\ [Next]_vars => HandInv'
<1> SUFFICES ASSUME HandInv, [Next]_vars PROVE HandInv'
  OBVIOUS
<1>1. scenario.tabs \subseteq Tabs /\ scenario.wallets \subseteq Wallets
  BY ProvisionAssumptions DEF HandInv, ProvTypes
<1>2. ASSUME NEW t \in scenario.tabs, Step(t) PROVE HandInv'
  BY <1>1, <1>2, ReadCapKeeps, AvailableKeeps, PlanKeeps, FundsKeeps, CheckKeeps, SubmitKeeps,
     ReceiptsKeeps, SaveKeeps, RescueKeeps, AnswerKeeps DEF Step
<1>3. ASSUME NEW t \in scenario.tabs, Finish(t) \/ Reload(t) \/ SubmitFails(t) \/ ReceiptLate(t)
      PROVE  HandInv'
  BY <1>1, <1>3, FinishKeeps, ReloadKeeps, SubmitFailsKeeps, ReceiptLateKeeps
<1>4. ASSUME NEW t \in scenario.tabs, NEW w \in scenario.wallets, Claim(t, w) PROVE HandInv'
  BY <1>1, <1>4, ClaimKeeps
<1>5. ASSUME NEW w \in scenario.wallets, Mature(w) \/ Squat(w) PROVE HandInv'
  BY <1>1, <1>5, MatureKeeps, SquatKeeps
<1>6. ASSUME UNCHANGED vars PROVE HandInv'
  <2>1. UNCHANGED <<doc, site, mempool, req, shown, harm, scenario>>
    BY <1>6 DEF vars
  <2>2. ProvTypes' /\ \A u : \A v, kind : Pending(v, kind, u) => Pending(v, kind, u)'
    BY <2>1 DEF HandInv, ProvTypes, Pending
  <2>3. \A i \in DOMAIN mempool' : RevokeFits(mempool, i)'
    BY <2>1, <2>2, Still, PoolStays
  <2> QED  BY <2>1, <2>2, <2>3, Still, Rests
<1> QED  BY <1>2, <1>3, <1>4, <1>5, <1>6, MineKeeps, CrashKeeps DEF Next

\* What the steps of setup keep, all together.
THEOREM HandInvHolds == Spec => []HandInv
<1> QED  BY InitHand, StepHand, PTL DEF Spec

\* A registry never loses its root: the project gives up its own (the second wave of
\* finishProvisioning) only when the wallet has its own, its name and the rewall label.
THEOREM RegistryKeepsItsRoot == Spec => []RootIsHandedOver
<1>1. HandInv => RootIsHandedOver
  BY DEF HandInv, SiteFits, HandedOver, Owned, RootIsHandedOver
<1> QED  BY <1>1, HandInvHolds, PTL

\* completedAt is true of the chain, and stays true of it whatever a start that was
\* still running writes over the document.
THEOREM CompletedIsTrue == Spec => []DoneIsDone
<1>1. HandInv => DoneIsDone
  BY DEF HandInv, DocFits, HandedOver, Owned, DoneIsDone
<1> QED  BY <1>1, HandInvHolds, PTL

----------------------------------------------------------------------------
\* The words a tab shows.

\* A key that is published stays, until the words of its tab are gone.
LEMMA KeyStays ==
  ASSUME HandInv, Mine, NEW t \in Tabs, NEW w \in Wallets, site[w].key = t
  PROVE  site'[w].key = t
<1>1. site \in [Wallets -> Sites] /\ site[w] \in Sites /\ SiteFits(w)
  BY DEF HandInv, ProvTypes
<1>2. PICK tx \in Txs : /\ tx = Head(mempool)
                        /\ \/ Succeeds(tx) /\ site' = [site EXCEPT ![tx.wallet] = After(tx, @)]
                           \/ site' = site
  <2>1. Head(mempool) \in Txs
    BY DEF HandInv, ProvTypes, Mine
  <2> QED  BY <2>1 DEF Mine, chain
<1>3. CASE Succeeds(tx) /\ site' = [site EXCEPT ![tx.wallet] = After(tx, @)] /\ tx.wallet = w
  <2>1. site'[w] = After(tx, site[w]) /\ Effect(After(tx, site[w]), site[w], tx)
    BY <1>1, <1>3, AfterFits
  <2>2. tx.kind # "resolver"
    <3>1. "resolver" \in site[w].proxies
      BY <1>1 DEF SiteFits
    <3> QED  BY <1>3, <3>1 DEF Succeeds, Proxies
  <2> QED  BY <2>1, <2>2 DEF Effect
<1>4. CASE ~(Succeeds(tx) /\ site' = [site EXCEPT ![tx.wallet] = After(tx, @)] /\ tx.wallet = w)
  BY <1>1, <1>2, <1>4
<1> QED  BY <1>3, <1>4

WordInv == HandInv /\ FreshPhraseRecovers

LEMMA StepWord ==
  WordInv /\ [Next]_vars => WordInv'
<1> SUFFICES ASSUME WordInv, [Next]_vars
             PROVE  FreshPhraseRecovers'
  BY StepHand DEF WordInv
<1>1. HandInv /\ HandInv' /\ ProvTypes /\ ProvTypes'
  BY StepHand DEF WordInv, HandInv
<1>2. scenario.tabs \subseteq Tabs /\ scenario.wallets \subseteq Wallets
  BY <1>1, ProvisionAssumptions DEF ProvTypes
<1>3. \A t \in Tabs : shown[t] # Nobody /\ ~doc[shown[t]].done => site[shown[t]].key = t
  BY DEF WordInv, FreshPhraseRecovers
<1>4. /\ site \in [Wallets -> Sites] /\ shown \in [Tabs -> Wallets \cup {Nobody}]
      /\ doc \in [Wallets -> Docs] /\ req \in [Tabs -> Reqs]
  BY <1>1 DEF ProvTypes
<1>5. ASSUME \A t \in Tabs, w \in Wallets :
                 shown'[t] = w /\ ~doc'[w].done =>
                     \/ shown[t] = w /\ ~doc[w].done /\ (site[w].key = t => site'[w].key = t)
                     \/ site'[w].key = t
      PROVE  FreshPhraseRecovers'
  <2>1. shown' \in [Tabs -> Wallets \cup {Nobody}]
    BY <1>1 DEF ProvTypes
  <2>2. Nobody \notin Wallets
    BY ProvisionAssumptions
  <2>3. ASSUME NEW t \in Tabs, shown'[t] # Nobody, ~doc'[shown'[t]].done PROVE site'[shown'[t]].key = t
    <3>1. PICK w \in Wallets : w = shown'[t]
      BY <2>1, <2>3
    <3>2. site'[w].key = t
      BY <1>3, <1>5, <2>2, <2>3, <3>1
    <3> QED  BY <3>1, <3>2
  <2> QED  BY <2>3 DEF FreshPhraseRecovers
<1>6. ASSUME UNCHANGED <<site, shown, doc>> PROVE FreshPhraseRecovers'
  BY <1>5, <1>6
<1>7. ASSUME NEW t \in Tabs, ReadCap(t) \/ Available(t) \/ Plan(t) \/ Funds(t) \/ Check(t) \/ Receipts(t)
      PROVE  FreshPhraseRecovers'
  BY <1>6, <1>7 DEF ReadCap, Available, Plan, Funds, Check, Receipts, Quiet, chain
<1>8. ASSUME NEW t \in Tabs, Submit(t) \/ SubmitFails(t) \/ ReceiptLate(t)
      PROVE  FreshPhraseRecovers'
  BY <1>6, <1>8 DEF Submit, SubmitFails, ReceiptLate, chain
<1>9. ASSUME NEW t \in Tabs, NEW d \in BOOLEAN, Store(t, d) PROVE \A w \in Wallets : doc[w].done => doc'[w].done
  BY <1>4, <1>9 DEF Store, Docs
<1>10. ASSUME NEW t \in Tabs, Save(t) PROVE FreshPhraseRecovers'
  <2>1. \A w \in Wallets : doc[w].done => doc'[w].done
    BY <1>9, <1>10 DEF Save
  <2>2. UNCHANGED site /\ \A u \in Tabs : shown'[u] \in {shown[u], Nobody}
    BY <1>4, <1>10 DEF Save, chain
  <2>3. Nobody \notin Wallets
    BY ProvisionAssumptions
  <2> QED  BY <1>5, <2>1, <2>2, <2>3
<1>11. ASSUME NEW t \in Tabs, Rescue(t) PROVE FreshPhraseRecovers'
  <2>1. \A w \in Wallets : doc[w].done => doc'[w].done
    BY <1>9, <1>11 DEF Rescue
  <2>2. UNCHANGED <<site, shown>>
    BY <1>11 DEF Rescue, chain
  <2> QED  BY <1>5, <2>1, <2>2
<1>12. ASSUME NEW t \in Tabs, Answer(t) PROVE FreshPhraseRecovers'
  <2>1. UNCHANGED <<site, doc>>
    BY <1>12 DEF Answer, chain
  <2>2. shown' = [shown EXCEPT ![t] = IF site[req[t].wallet].key = t THEN req[t].wallet ELSE @]
    BY <1>12 DEF Answer
  <2>3. \A u \in Tabs : shown'[u] = shown[u] \/ (u = t /\ site[shown'[u]].key = u)
    BY <1>4, <2>2
  <2> QED  BY <1>5, <2>1, <2>3
<1>13. ASSUME NEW t \in Tabs, ForgetWords(t) PROVE \A u \in Tabs \ {t}, w \in Wallets : site[w].key = u => site'[w].key = u
  BY <1>13 DEF ForgetWords
<1>14. ASSUME NEW t \in Tabs, NEW w \in Wallets, Claim(t, w) PROVE FreshPhraseRecovers'
  <2>1. ForgetWords(t) /\ UNCHANGED doc /\ shown[t] = Nobody
    BY <1>14 DEF Claim
  <2>2. shown' = shown \/ (doc[w].done /\ shown' = [shown EXCEPT ![t] = w])
    BY <1>14 DEF Claim
  <2>3. \A u \in Tabs : \/ u # t /\ shown'[u] = shown[u]
                        \/ u = t /\ (shown'[u] = Nobody \/ (shown'[u] = w /\ doc[w].done))
    BY <1>4, <2>1, <2>2
  <2>4. Nobody \notin Wallets
    BY ProvisionAssumptions
  <2> QED  BY <1>5, <1>13, <2>1, <2>3, <2>4
<1>15. ASSUME NEW t \in Tabs, Finish(t) PROVE FreshPhraseRecovers'
  <2>1. UNCHANGED <<site, doc>> /\ \A u \in Tabs : shown'[u] \in {shown[u], Nobody}
    BY <1>4, <1>15 DEF Finish, chain
  <2>2. Nobody \notin Wallets
    BY ProvisionAssumptions
  <2> QED  BY <1>5, <2>1, <2>2
<1>16. ASSUME NEW t \in Tabs, Reload(t) PROVE FreshPhraseRecovers'
  <2>1. ForgetWords(t) /\ UNCHANGED doc
    BY <1>16 DEF Reload
  <2>2. shown'[t] = Nobody /\ \A u \in Tabs \ {t} : shown'[u] = shown[u]
    BY <1>4, <1>16 DEF Reload
  <2>3. Nobody \notin Wallets
    BY ProvisionAssumptions
  <2> QED  BY <1>5, <1>13, <2>1, <2>2, <2>3
<1>17. ASSUME NEW w \in Wallets, Mature(w) \/ Squat(w) PROVE FreshPhraseRecovers'
  <2>1. UNCHANGED <<shown, doc>> /\ \A v \in Wallets : site'[v].key = site[v].key
    BY <1>4, <1>17 DEF Mature, Squat, Sites
  <2> QED  BY <1>5, <2>1
<1>18. CASE Mine
  <2>1. UNCHANGED <<shown, doc>>
    BY <1>18 DEF Mine
  <2>2. \A t \in Tabs, w \in Wallets : site[w].key = t => site'[w].key = t
    BY <1>1, <1>18, KeyStays
  <2> QED  BY <1>5, <2>1, <2>2
<1>19. CASE Crash
  BY <1>6, <1>19 DEF Crash, chain
<1>20. CASE UNCHANGED vars
  BY <1>6, <1>20 DEF vars
<1>21. ASSUME NEW t \in scenario.tabs, Step(t) \/ Finish(t) \/ Reload(t) \/ SubmitFails(t) \/ ReceiptLate(t)
       PROVE  FreshPhraseRecovers'
  BY <1>2, <1>7, <1>8, <1>10, <1>11, <1>12, <1>15, <1>16, <1>21 DEF Step
<1>22. ASSUME NEW t \in scenario.tabs, NEW w \in scenario.wallets, Claim(t, w) PROVE FreshPhraseRecovers'
  BY <1>2, <1>14, <1>22
<1>23. ASSUME NEW w \in scenario.wallets, Mature(w) \/ Squat(w) PROVE FreshPhraseRecovers'
  BY <1>2, <1>17, <1>23
<1> QED  BY <1>18, <1>19, <1>20, <1>21, <1>22, <1>23 DEF Next

\* The words a tab shows for a setup that is not complete are those whose key the
\* resolver holds: nobody else's deploy, and no later start, takes the key's place.
THEOREM ShownWordsRecover == Spec => []FreshPhraseRecovers
<1>1. Init => WordInv
  <2>1. Init => FreshPhraseRecovers
    BY DEF Init, FreshPhraseRecovers
  <2> QED  BY <2>1, InitHand DEF WordInv
<1>2. WordInv => FreshPhraseRecovers
  BY DEF WordInv
<1> QED  BY <1>1, <1>2, StepWord, PTL DEF Spec

----------------------------------------------------------------------------
\* The salts a wallet has spent.

Starts(t, w) == Serves(t, w) /\ req[t].phase = "start"
Spent(w, p) ==
    \/ p \in site[w].proxies
    \/ \E i \in DOMAIN mempool : mempool[i].wallet = w /\ mempool[i].kind = p

\* The document knows it, or a start that is going to save it.
Known(w, p) ==
    \/ p \in doc[w].state.proxies
    \/ \E t \in Tabs : Starts(t, w) /\ req[t].at # "answer" /\ p \in req[t].state.proxies

Undisturbed(w) == harm[w] \cap {"two starts", "crash"} = {}

\* A wallet has one start at a time, which knows what the document says; a finish
\* comes after the commitment; and a salt that is spent is known.
OneStart(w) == \A t, u \in Tabs : Starts(t, w) /\ Starts(u, w) => t = u
StartKnows(w) ==
    \A t \in Tabs : Starts(t, w) =>
        /\ doc[w].state.proxies \subseteq req[t].state.proxies
        /\ doc[w].state.committed => req[t].state.committed
FinishLater(w) ==
    \A t \in Tabs : Serves(t, w) /\ req[t].phase = "finish" => doc[w].state.committed
SpentKnown(w) == \A p \in Proxies : Spent(w, p) => Known(w, p)
SaltFits(w) == Undisturbed(w) => OneStart(w) /\ StartKnows(w) /\ FinishLater(w) /\ SpentKnown(w)

SaltInv == HandInv /\ \A w \in Wallets : SaltFits(w)

HarmGrows == \A w \in Wallets : harm[w] \subseteq harm'[w]

LEMMA HarmedGrows ==
  ASSUME ProvTypes, \/ harm' = harm
                    \/ \E how, ws : harm' = Harmed(how, ws)
  PROVE  HarmGrows
BY DEF ProvTypes, Harmed, HarmGrows

LEMMA HarmStays ==
  ASSUME HarmGrows, NEW w \in Wallets, Undisturbed(w)'
  PROVE  Undisturbed(w)
BY DEF HarmGrows, Undisturbed

\* No request moves but for its receipts, and no document.
LEMMA SaltRests ==
  ASSUME SaltInv, HarmGrows, UNCHANGED doc,
         \A t \in Tabs : /\ req'[t].at = req[t].at /\ req'[t].wallet = req[t].wallet
                         /\ req'[t].phase = req[t].phase /\ req'[t].state = req[t].state,
         \A w \in Wallets : \A p \in Proxies : Spent(w, p)' => Spent(w, p)
  PROVE  \A w \in Wallets : SaltFits(w)'
<1> SUFFICES ASSUME NEW w \in Wallets, Undisturbed(w)'
             PROVE  OneStart(w)' /\ StartKnows(w)' /\ FinishLater(w)' /\ SpentKnown(w)'
  BY DEF SaltFits
<1>1. OneStart(w) /\ StartKnows(w) /\ FinishLater(w) /\ SpentKnown(w)
  BY HarmStays DEF SaltInv, SaltFits
<1>2. \A t \in Tabs : (Starts(t, w)' <=> Starts(t, w)) /\ (Serves(t, w)' <=> Serves(t, w))
  BY DEF Starts, Serves
<1>3. OneStart(w)' /\ StartKnows(w)' /\ FinishLater(w)'
  BY <1>1, <1>2 DEF OneStart, StartKnows, FinishLater
<1>4. \A p \in Proxies : Known(w, p) => Known(w, p)'
  BY <1>2 DEF Known
<1>5. SpentKnown(w)'
  BY <1>1, <1>4 DEF SpentKnown
<1> QED  BY <1>3, <1>5

\* A request goes on, knowing no less, or ends with nothing that is not saved.
GoesOn(q, r) ==
    /\ r.at # "idle" => /\ q.at # "idle" /\ r.at # "answer"
                        /\ r.wallet = q.wallet /\ r.phase = q.phase
                        /\ q.state.proxies \subseteq r.state.proxies
                        /\ q.state.committed => r.state.committed
    /\ r.at = "idle" /\ q.phase = "start" => q.at = "answer" \/ q.state.proxies = {}

LEMMA SaltMoves ==
  ASSUME SaltInv, HarmGrows, UNCHANGED doc, NEW t \in Tabs, NEW r \in Reqs, req' = [req EXCEPT ![t] = r],
         GoesOn(req[t], r),
         \A w \in Wallets : \A p \in Proxies : Spent(w, p)' => Spent(w, p) \/ Known(w, p)
  PROVE  \A w \in Wallets : SaltFits(w)'
<1> SUFFICES ASSUME NEW w \in Wallets, Undisturbed(w)'
             PROVE  OneStart(w)' /\ StartKnows(w)' /\ FinishLater(w)' /\ SpentKnown(w)'
  BY DEF SaltFits
<1>1. OneStart(w) /\ StartKnows(w) /\ FinishLater(w) /\ SpentKnown(w)
  BY HarmStays DEF SaltInv, SaltFits
<1>2. req \in [Tabs -> Reqs]
  BY DEF SaltInv, HandInv, ProvTypes
<1>3. req'[t] = r /\ \A u \in Tabs \ {t} : req'[u] = req[u]
  BY <1>2
<1>4. \A u \in Tabs : /\ Starts(u, w)' => Starts(u, w)
                      /\ Serves(u, w)' /\ req'[u].phase = "finish" => Serves(u, w) /\ req[u].phase = "finish"
  BY <1>3 DEF Starts, Serves, GoesOn
<1>5. \A u \in Tabs : Starts(u, w)' => /\ req[u].state.proxies \subseteq req'[u].state.proxies
                                       /\ req[u].state.committed => req'[u].state.committed
  BY <1>3 DEF Starts, Serves, GoesOn
<1>6. OneStart(w)' /\ StartKnows(w)' /\ FinishLater(w)'
  BY <1>1, <1>4, <1>5 DEF OneStart, StartKnows, FinishLater
<1>7. ASSUME NEW p \in Proxies, Known(w, p) PROVE Known(w, p)'
  <2>1. CASE p \in doc[w].state.proxies
    BY <2>1 DEF Known
  <2>2. ASSUME NEW u \in Tabs, Starts(u, w), req[u].at # "answer", p \in req[u].state.proxies
        PROVE  Known(w, p)'
    <3>1. CASE u # t
      BY <1>3, <2>2, <3>1 DEF Known, Starts, Serves
    <3>2. CASE u = t
      <4>1. r.at # "idle"
        BY <2>2, <3>2 DEF GoesOn, Starts
      <4>2. Starts(t, w)' /\ req'[t].at # "answer" /\ p \in req'[t].state.proxies
        BY <1>3, <2>2, <3>2, <4>1 DEF GoesOn, Starts, Serves
      <4> QED  BY <4>2 DEF Known
    <3> QED  BY <3>1, <3>2
  <2> QED  BY <1>7, <2>1, <2>2 DEF Known
<1>8. SpentKnown(w)'
  BY <1>1, <1>7 DEF SpentKnown
<1> QED  BY <1>6, <1>8

\* A request that fails saves what it knows.
LEMMA ThrowGoesOn ==
  ASSUME HandInv, NEW t \in Tabs, req[t].at # "idle", Throw(t, req[t].state)
  PROVE  \E r \in Reqs : req' = [req EXCEPT ![t] = r] /\ GoesOn(req[t], r)
<1>1. req[t] \in Reqs
  BY DEF HandInv, ProvTypes
<1>2. CASE req[t].phase = "start"
  <2>1. PICK r : r = [Idle EXCEPT !.at = "rescue", !.wallet = req[t].wallet, !.state = req[t].state]
    OBVIOUS
  <2>2. /\ r \in Reqs /\ r.at = "rescue" /\ r.wallet = req[t].wallet /\ r.state = req[t].state
        /\ r.phase = "start"
    BY <1>1, <2>1, IdleFits DEF Reqs, Places
  <2>3. GoesOn(req[t], r)
    BY <1>2, <2>2 DEF GoesOn
  <2> QED  BY <1>2, <2>1, <2>2, <2>3 DEF Throw
<1>3. CASE req[t].phase # "start"
  <2>1. GoesOn(req[t], Idle)
    BY <1>3, IdleFits DEF GoesOn
  <2> QED  BY <1>3, <2>1, IdleFits DEF Throw, End
<1> QED  BY <1>2, <1>3

\* The steps of a request that only reads.
LEMMA ReadsGoOn ==
  ASSUME HandInv, NEW t \in Tabs,
         ReadCap(t) \/ Available(t) \/ Plan(t) \/ Funds(t) \/ Check(t) \/ Receipts(t)
  PROVE  \E r \in Reqs : req' = [req EXCEPT ![t] = r] /\ GoesOn(req[t], r)
<1>1. req[t] \in Reqs /\ Fits(t, req[t]) /\ req \in [Tabs -> Reqs] /\ req' \in [Tabs -> Reqs]
  <2>1. HandInv'
    BY ReadCapKeeps, AvailableKeeps, PlanKeeps, FundsKeeps, CheckKeeps, ReceiptsKeeps
  <2> QED  BY <2>1 DEF HandInv, ProvTypes
<1>2. CASE Throw(t, req[t].state) /\ req[t].at # "idle"
  BY <1>2, ThrowGoesOn
<1>3. ASSUME NEW r, req' = [req EXCEPT ![t] = r], GoesOn(req[t], r)
      PROVE  \E q \in Reqs : req' = [req EXCEPT ![t] = q] /\ GoesOn(req[t], q)
  <2>1. r \in Reqs
    BY <1>1, <1>3
  <2> QED  BY <1>3, <2>1
<1>4. CASE ReadCap(t)
  <2>1. CASE Goto(t, "available")
    <3> DEFINE r == [req[t] EXCEPT !.at = "available"]
    <3>1. GoesOn(req[t], r)
      BY <1>1, <1>4, <2>1 DEF GoesOn, Reqs, ReadCap
    <3>2. req' = [req EXCEPT ![t] = r]
      BY <2>1 DEF Goto
    <3> QED  BY <1>3, <3>1, <3>2
  <2>2. CASE End(t)
    <3>1. req[t].state.proxies = {}
      BY <1>1, <1>4 DEF Fits, StartFits, FinishFits, ReadCap, Reqs
    <3>2. GoesOn(req[t], Idle)
      BY <3>1, IdleFits DEF GoesOn
    <3> QED  BY <1>3, <2>2, <3>2 DEF End
  <2> QED  BY <1>4, <2>1, <2>2 DEF ReadCap
<1>5. CASE req[t].at = "available" /\ req' = [req EXCEPT ![t].at = "plan", ![t].todo = Missing(t)]
  <2> DEFINE r == [req[t] EXCEPT !.at = "plan", !.todo = Missing(t)]
  <2>1. GoesOn(req[t], r)
    BY <1>1, <1>5 DEF GoesOn, Reqs
  <2>2. req' = [req EXCEPT ![t] = r]
    BY <1>1, <1>5
  <2> QED  BY <1>3, <2>1, <2>2
<1>6. ASSUME NEW p, req[t].at = "plan",
             req' = [req EXCEPT ![t].todo = @ \ {p}, ![t].wave = Append(@, p), ![t].state.proxies = @ \cup {p}]
      PROVE  \E q \in Reqs : req' = [req EXCEPT ![t] = q] /\ GoesOn(req[t], q)
  <2> DEFINE st == [req[t].state EXCEPT !.proxies = req[t].state.proxies \cup {p}]
             r == [req[t] EXCEPT !.todo = req[t].todo \ {p}, !.wave = Append(req[t].wave, p), !.state = st]
  <2>1. st.proxies = req[t].state.proxies \cup {p} /\ st.committed = req[t].state.committed
    BY <1>1 DEF Reqs, States
  <2>2. r.at = req[t].at /\ r.wallet = req[t].wallet /\ r.phase = req[t].phase /\ r.state = st
    BY <1>1 DEF Reqs
  <2>3. req' = [req EXCEPT ![t] = r]
    BY <1>1, <1>6 DEF Reqs, States
  <2> HIDE DEF r, st
  <2>4. GoesOn(req[t], r)
    BY <1>6, <2>1, <2>2 DEF GoesOn
  <2> QED  BY <1>3, <2>3, <2>4
<1>7. CASE Funds(t) \/ Check(t)
  <2>1. PICK wave, rest : req' = [req EXCEPT ![t] = [req[t] EXCEPT !.at = "send", !.wave = wave, !.rest = rest]]
    <3>1. CASE Funds(t)
      <4>1. PICK wave : req' = [req EXCEPT ![t].at = "send", ![t].wave = wave]
        BY <3>1 DEF Funds
      <4>2. req' = [req EXCEPT ![t] = [req[t] EXCEPT !.at = "send", !.wave = wave]]
        BY <1>1, <4>1
      <4>3. [req[t] EXCEPT !.at = "send", !.wave = wave] = [req[t] EXCEPT !.at = "send", !.wave = wave, !.rest = req[t].rest]
        BY <1>1 DEF Reqs
      <4> QED  BY <4>2, <4>3
    <3>2. CASE Check(t)
      <4>1. PICK waves : req' = [req EXCEPT ![t].at = "send", ![t].wave = waves.first, ![t].rest = waves.second]
        BY <3>2 DEF Check
      <4>2. PICK first, second : first = waves.first /\ second = waves.second
        OBVIOUS
      <4>3. req' = [req EXCEPT ![t].at = "send", ![t].wave = first, ![t].rest = second]
        BY <4>1, <4>2
      <4>4. req' = [req EXCEPT ![t] = [req[t] EXCEPT !.at = "send", !.wave = first, !.rest = second]]
        BY <1>1, <4>3 DEF Reqs
      <4> QED  BY <4>4
    <3> QED  BY <1>7, <3>1, <3>2
  <2> DEFINE r == [req[t] EXCEPT !.at = "send", !.wave = wave, !.rest = rest]
  <2>2. r.at = "send" /\ r.wallet = req[t].wallet /\ r.phase = req[t].phase /\ r.state = req[t].state
    BY <1>1 DEF Reqs
  <2>3. req[t].at # "idle"
    BY <1>7 DEF Funds, Check
  <2> HIDE DEF r
  <2>4. GoesOn(req[t], r)
    BY <2>2, <2>3 DEF GoesOn
  <2> QED  BY <1>3, <2>1, <2>4 DEF r
<1>8. ASSUME req[t].at = "receipts", NEW at \in {"save", "send"}, NEW st \in States, NEW wave,
             st.proxies = req[t].state.proxies, req[t].state.committed => st.committed,
             req' = [req EXCEPT ![t] = [req[t] EXCEPT !.at = at, !.state = st, !.wave = wave]]
      PROVE  \E q \in Reqs : req' = [req EXCEPT ![t] = q] /\ GoesOn(req[t], q)
  <2>1. PICK r : r = [req[t] EXCEPT !.at = at, !.state = st, !.wave = wave]
    OBVIOUS
  <2>2. r.at = at /\ r.wallet = req[t].wallet /\ r.phase = req[t].phase /\ r.state = st
    BY <1>1, <2>1 DEF Reqs
  <2>3. GoesOn(req[t], r)
    BY <1>8, <2>2 DEF GoesOn
  <2> QED  BY <1>3, <1>8, <2>1, <2>3
<1>9. CASE Receipts(t)
  <2> DEFINE st == req[t].state
  <2>1. st \in States /\ req[t].at = "receipts"
    BY <1>1, <1>9 DEF Reqs, Receipts
  <2>2. CASE req' = [req EXCEPT ![t].at = "save", ![t].state.committed = TRUE]
    <3>1. PICK s : s = [st EXCEPT !.committed = TRUE]
      OBVIOUS
    <3>2. s \in States /\ s.proxies = st.proxies /\ s.committed
      BY <2>1, <3>1 DEF States
    <3>3. req' = [req EXCEPT ![t] = [req[t] EXCEPT !.at = "save", !.state = s]]
      BY <1>1, <2>1, <2>2, <3>1
    <3>4. [req[t] EXCEPT !.at = "save", !.state = s] = [req[t] EXCEPT !.at = "save", !.state = s, !.wave = req[t].wave]
      BY <1>1 DEF Reqs
    <3> QED  BY <1>8, <2>1, <3>2, <3>3, <3>4
  <2>3. CASE req' = [req EXCEPT ![t].at = "send", ![t].state.registered = TRUE, ![t].wave = req[t].rest]
    <3>1. PICK s : s = [st EXCEPT !.registered = TRUE]
      OBVIOUS
    <3>2. s \in States /\ s.proxies = st.proxies /\ s.committed = st.committed
      BY <2>1, <3>1 DEF States
    <3>3. req' = [req EXCEPT ![t] = [req[t] EXCEPT !.at = "send", !.state = s, !.wave = req[t].rest]]
      BY <1>1, <2>1, <2>3, <3>1 DEF Reqs, States
    <3> QED  BY <1>8, <2>1, <3>2, <3>3
  <2>4. CASE Goto(t, "save")
    <3>1. req' = [req EXCEPT ![t] = [req[t] EXCEPT !.at = "save", !.state = st, !.wave = req[t].wave]]
      BY <1>1, <2>4 DEF Goto, Reqs
    <3> QED  BY <1>8, <2>1, <3>1
  <2> QED  BY <1>2, <1>9, <2>1, <2>2, <2>3, <2>4 DEF Receipts
<1>10. CASE Available(t)
  BY <1>2, <1>5, <1>10 DEF Available
<1>11. CASE Plan(t)
  BY <1>2, <1>6, <1>11 DEF Plan
<1> QED  BY <1>4, <1>7, <1>9, <1>10, <1>11

\* A wave spends the salts its start knows.
LEMMA WaveSpends ==
  ASSUME HandInv, NEW t \in Tabs, req[t].at = "send", NEW k \in 0..Len(req[t].wave), NEW sent,
         OfWave(sent, t, k), mempool' = mempool \o sent, UNCHANGED site
  PROVE  \A w \in Wallets : \A p \in Proxies : Spent(w, p)' => Spent(w, p) \/ Known(w, p)
<1>1. req[t] \in Reqs /\ Fits(t, req[t]) /\ mempool \in Seq(Txs)
  BY DEF HandInv, ProvTypes
<1>2. /\ sent \in Seq(Txs) /\ DOMAIN sent = 1..k
      /\ \A i \in 1..k : sent[i].kind = req[t].wave[i] /\ sent[i].wallet = req[t].wallet
  BY DEF OfWave
<1>3. \A i \in 1..k : i \in DOMAIN req[t].wave
  BY <1>1 DEF Reqs
<1>4. \A i \in DOMAIN mempool' : \/ i \in DOMAIN mempool /\ mempool'[i] = mempool[i]
                                 \/ \E j \in 1..k : mempool'[i] = sent[j]
  BY <1>1, <1>2, Joined
<1>5. ASSUME NEW p \in Proxies, NEW j \in 1..k, sent[j].kind = p
      PROVE  req[t].phase = "start" /\ p \in req[t].state.proxies
  <2>1. req[t].wave[j] = p /\ j \in DOMAIN req[t].wave
    BY <1>2, <1>3, <1>5
  <2>2. CASE req[t].phase = "start"
    <3>1. StartFits(t, req[t])
      BY <1>1, <2>2 DEF Fits
    <3>2. p \in req[t].state.proxies \cup {"commit", "mint", "approve"}
      BY <2>1, <3>1 DEF StartFits
    <3> QED  BY <2>2, <3>2 DEF Proxies
  <2>3. CASE req[t].phase = "finish"
    <3>1. FinishFits(t, req[t])
      BY <1>1, <2>3 DEF Fits
    <3>2. req[t].wave[j] \in {"register", "grant", "label", "revoke"}
      BY <2>1, <3>1 DEF FinishFits, RestFits
    <3> QED  BY <2>1, <3>2 DEF Proxies
  <2> QED  BY <1>1, <2>2, <2>3 DEF Reqs
<1>6. ASSUME NEW w \in Wallets, NEW p \in Proxies, Spent(w, p)', ~Spent(w, p)
      PROVE  Known(w, p)
  <2>1. PICK i \in DOMAIN mempool' : mempool'[i].wallet = w /\ mempool'[i].kind = p
    BY <1>6 DEF Spent
  <2>2. PICK j \in 1..k : mempool'[i] = sent[j]
    BY <1>4, <1>6, <2>1 DEF Spent
  <2>3. sent[j].kind = p /\ req[t].wallet = w
    BY <1>2, <2>1, <2>2
  <2> QED  BY <1>5, <2>3 DEF Known, Starts, Serves
<1> QED  BY <1>6

LEMMA SubmitSalts ==
  ASSUME SaltInv, NEW t \in Tabs, Submit(t) \/ SubmitFails(t)
  PROVE  \A w \in Wallets : SaltFits(w)'
<1>1. HandInv /\ ProvTypes /\ req[t] \in Reqs /\ Fits(t, req[t])
  BY DEF SaltInv, HandInv, ProvTypes
<1>2. req[t].at = "send" /\ UNCHANGED <<doc, site>>
  BY DEF Submit, SubmitFails, chain
<1>3. HarmGrows
  <2>1. harm' = harm \/ \E how, ws : harm' = Harmed(how, ws)
    BY DEF Submit, SubmitFails, Fault
  <2> QED  BY <1>1, <2>1, HarmedGrows
<1>4. req[t].wallet \in Wallets
  BY <1>1, <1>2 DEF Fits
<1>5. ASSUME NEW k \in 0..Len(req[t].wave), mempool' = mempool \o Disowned({t}, Sent(t, k)), Throw(t, req[t].state)
      PROVE  \A w \in Wallets : SaltFits(w)'
  <2>1. PICK sent : sent = Disowned({t}, Sent(t, k))
    OBVIOUS
  <2>2. OfWave(Sent(t, k), t, k) /\ k \in Nat
    BY <1>1, <1>4, SentFits
  <2>3. OfWave(sent, t, k)
    BY <2>1, <2>2, DisownedFits
  <2>4. \A w \in Wallets : \A p \in Proxies : Spent(w, p)' => Spent(w, p) \/ Known(w, p)
    BY <1>1, <1>2, <1>5, <2>1, <2>3, WaveSpends
  <2>5. PICK r \in Reqs : req' = [req EXCEPT ![t] = r] /\ GoesOn(req[t], r)
    BY <1>1, <1>2, <1>5, ThrowGoesOn
  <2> QED  BY <1>2, <1>3, <2>4, <2>5, SaltMoves
<1>6. ASSUME NEW k \in 0..Len(req[t].wave), mempool' = mempool \o Sent(t, k), Goto(t, "receipts")
      PROVE  \A w \in Wallets : SaltFits(w)'
  <2>1. PICK sent : sent = Sent(t, k)
    OBVIOUS
  <2>2. OfWave(sent, t, k)
    BY <1>1, <1>4, <2>1, SentFits
  <2>3. \A w \in Wallets : \A p \in Proxies : Spent(w, p)' => Spent(w, p) \/ Known(w, p)
    BY <1>1, <1>2, <1>6, <2>1, <2>2, WaveSpends
  <2>4. PICK r : r = [req[t] EXCEPT !.at = "receipts"]
    OBVIOUS
  <2>5. /\ r \in Reqs /\ r.at = "receipts" /\ r.wallet = req[t].wallet /\ r.phase = req[t].phase
        /\ r.state = req[t].state
    BY <1>1, <2>4 DEF Reqs, Places
  <2>6. GoesOn(req[t], r)
    BY <1>2, <2>5 DEF GoesOn
  <2>7. req' = [req EXCEPT ![t] = r]
    BY <1>6, <2>4 DEF Goto
  <2> QED  BY <1>2, <1>3, <2>3, <2>5, <2>6, <2>7, SaltMoves
<1>7. CASE Submit(t)
  <2>1. PICK k \in 0..Len(req[t].wave) : k = Estimated(t)
    BY <1>1, EstimatedFits
  <2> QED  BY <1>5, <1>6, <1>7, <2>1 DEF Submit
<1>8. CASE SubmitFails(t)
  <2>1. PICK k \in 0..Estimated(t) : mempool' = mempool \o Disowned({t}, Sent(t, k))
    BY <1>8 DEF SubmitFails
  <2>2. k \in 0..Len(req[t].wave)
    BY <1>1, <2>1, EstimatedFits
  <2> QED  BY <1>5, <1>8, <2>1, <2>2 DEF SubmitFails
<1> QED  BY <1>7, <1>8

LEMMA ReceiptLateSalts ==
  ASSUME SaltInv, NEW t \in Tabs, ReceiptLate(t)
  PROVE  \A w \in Wallets : SaltFits(w)'
<1>1. HandInv /\ ProvTypes /\ mempool \in Seq(Txs)
  BY DEF SaltInv, HandInv, ProvTypes
<1>2. /\ req[t].at = "receipts" /\ UNCHANGED <<doc, site>> /\ mempool' = Disowned({t}, mempool)
      /\ Throw(t, req[t].state)
  BY DEF ReceiptLate, chain
<1>3. HarmGrows
  <2>1. harm' = harm \/ \E how, ws : harm' = Harmed(how, ws)
    BY DEF ReceiptLate, Fault
  <2> QED  BY <1>1, <2>1, HarmedGrows
<1>4. DOMAIN mempool' = DOMAIN mempool /\ \A i \in DOMAIN mempool :
          mempool'[i].kind = mempool[i].kind /\ mempool'[i].wallet = mempool[i].wallet
  BY <1>1, <1>2, DisownedKeeps
<1>5. \A w \in Wallets : \A p \in Proxies : Spent(w, p)' => Spent(w, p) \/ Known(w, p)
  BY <1>2, <1>4 DEF Spent
<1>6. PICK r \in Reqs : req' = [req EXCEPT ![t] = r] /\ GoesOn(req[t], r)
  BY <1>1, <1>2, ThrowGoesOn
<1> QED  BY <1>2, <1>3, <1>5, <1>6, SaltMoves

LEMMA ReadsSalts ==
  ASSUME SaltInv, NEW t \in Tabs,
         ReadCap(t) \/ Available(t) \/ Plan(t) \/ Funds(t) \/ Check(t) \/ Receipts(t) \/ Answer(t)
  PROVE  \A w \in Wallets : SaltFits(w)'
<1>1. HandInv /\ ProvTypes
  BY DEF SaltInv, HandInv
<1>2. UNCHANGED <<doc, site, mempool, harm>>
  BY DEF ReadCap, Available, Plan, Funds, Check, Receipts, Answer, Quiet, chain, bounds
<1>3. HarmGrows
  BY <1>1, <1>2, HarmedGrows
<1>4. \A w \in Wallets : \A p \in Proxies : Spent(w, p)' => Spent(w, p) \/ Known(w, p)
  BY <1>2 DEF Spent
<1>5. PICK r \in Reqs : req' = [req EXCEPT ![t] = r] /\ GoesOn(req[t], r)
  <2>1. CASE Answer(t)
    <3>1. GoesOn(req[t], Idle)
      BY <2>1, IdleFits DEF GoesOn, Answer
    <3> QED  BY <2>1, <3>1, IdleFits DEF Answer, End
  <2> QED  BY <1>1, <2>1, ReadsGoOn
<1> QED  BY <1>2, <1>3, <1>4, <1>5, SaltMoves

\* The document is written over by a request that knows what it said.
LEMMA StoreSalts ==
  ASSUME SaltInv, NEW t \in Tabs, NEW d \in BOOLEAN, Store(t, d), UNCHANGED <<site, mempool>>, HarmGrows,
         req[t].at \in {"save", "rescue"}, d = (req[t].phase = "finish"), HandInv',
         \/ req[t].phase = "start" /\ req[t].at = "save" /\ Goto(t, "answer")
         \/ End(t)
  PROVE  \A w \in Wallets : SaltFits(w)'
<1>1. /\ HandInv /\ ProvTypes /\ req[t] \in Reqs /\ Fits(t, req[t]) /\ req \in [Tabs -> Reqs]
      /\ doc \in [Wallets -> Docs]
  BY DEF SaltInv, HandInv, ProvTypes
<1>2. PICK v \in Wallets : v = req[t].wallet
  BY <1>1 DEF Fits
<1>3. /\ doc'[v].state = req[t].state
      /\ \A w \in Wallets \ {v} : doc'[w] = doc[w]
  BY <1>1, <1>2 DEF Store, Docs
<1>4. /\ \A u \in Tabs \ {t} : req'[u] = req[u]
      /\ \/ /\ req'[t].at = "answer" /\ req'[t].wallet = v /\ req'[t].phase = "start"
            /\ req'[t].state = req[t].state /\ req[t].phase = "start"
         \/ req'[t].at = "idle"
  BY <1>1, <1>2, IdleFits DEF Goto, End, Reqs
<1>5. \A w \in Wallets, p \in Proxies : Spent(w, p)' => Spent(w, p)
  BY DEF Spent
<1>6. \A w, u : u \in Tabs => /\ Starts(u, w)' => Starts(u, w)
                              /\ Serves(u, w)' /\ req'[u].phase = "finish" => Serves(u, w) /\ req[u].phase = "finish" /\ u # t
                              /\ u # t => (Starts(u, w) => Starts(u, w)')
  <2>1. ASSUME NEW w, NEW u \in Tabs
        PROVE  /\ Starts(u, w)' => Starts(u, w)
               /\ Serves(u, w)' /\ req'[u].phase = "finish" => Serves(u, w) /\ req[u].phase = "finish" /\ u # t
               /\ u # t => (Starts(u, w) => Starts(u, w)')
    <3>1. CASE u # t
      BY <1>4, <3>1 DEF Starts, Serves
    <3>2. CASE u = t
      BY <1>2, <1>4, <3>2 DEF Starts, Serves
    <3> QED  BY <3>1, <3>2
  <2> QED  BY <2>1
<1>7. ASSUME NEW w \in Wallets, Undisturbed(w)', w # v
      PROVE  OneStart(w)' /\ StartKnows(w)' /\ FinishLater(w)' /\ SpentKnown(w)'
  <2>1. OneStart(w) /\ StartKnows(w) /\ FinishLater(w) /\ SpentKnown(w)
    BY <1>7, HarmStays DEF SaltInv, SaltFits
  <2>2. ~Starts(t, w) /\ ~Starts(t, w)' /\ ~Serves(t, w) /\ ~Serves(t, w)'
    BY <1>2, <1>4, <1>7 DEF Starts, Serves
  <2>3. OneStart(w)' /\ FinishLater(w)'
    BY <1>3, <1>6, <1>7, <2>1 DEF OneStart, FinishLater
  <2>4. StartKnows(w)'
    BY <1>3, <1>4, <1>6, <1>7, <2>1, <2>2 DEF StartKnows
  <2>5. \A p : Known(w, p) => Known(w, p)'
    BY <1>3, <1>4, <1>6, <1>7, <2>2 DEF Known
  <2> QED  BY <1>5, <2>1, <2>3, <2>4, <2>5 DEF SpentKnown
<1>8. ASSUME Undisturbed(v)'
      PROVE  OneStart(v)' /\ StartKnows(v)' /\ FinishLater(v)' /\ SpentKnown(v)'
  <2>1. OneStart(v) /\ StartKnows(v) /\ FinishLater(v) /\ SpentKnown(v)
    BY <1>8, HarmStays DEF SaltInv, SaltFits
  <2>2. OneStart(v)'
    BY <1>6, <2>1 DEF OneStart
  <2>3. CASE req[t].phase = "start"
    <3>1. Starts(t, v) /\ \A u \in Tabs : Starts(u, v) => u = t
      BY <1>2, <2>1, <2>3 DEF Starts, Serves, OneStart
    <3>2. /\ doc[v].state.proxies \subseteq req[t].state.proxies
          /\ doc[v].state.committed => req[t].state.committed
      BY <2>1, <3>1 DEF StartKnows
    <3>3. StartKnows(v)'
      BY <1>3, <1>4, <1>6, <3>1 DEF StartKnows, Starts, Serves
    <3>4. FinishLater(v)'
      BY <1>3, <1>6, <2>1, <3>2 DEF FinishLater
    <3>5. \A p : Known(v, p) => Known(v, p)'
      BY <1>3, <3>1, <3>2 DEF Known
    <3> QED  BY <1>5, <2>1, <2>2, <3>3, <3>4, <3>5 DEF SpentKnown
  <2>4. CASE req[t].phase = "finish"
    <3>1. req[t].state.committed /\ req[t].state.proxies = Proxies /\ doc[v].state.committed
      BY <1>1, <1>2, <2>1, <2>4 DEF Fits, FinishFits, FinishLater, Serves
    <3>2. req'[t].at = "idle"
      BY <1>1, <2>4, IdleFits DEF End
    <3>3. FinishLater(v)'
      BY <1>3, <3>1 DEF FinishLater
    <3>4. SpentKnown(v)'
      BY <1>3, <3>1 DEF SpentKnown, Known
    <3>5. ASSUME NEW u \in Tabs, Starts(u, v)'
          PROVE  req'[u].state.committed /\ req'[u].state.proxies = Proxies
      <4>1. u # t /\ Starts(u, v) /\ req'[u] = req[u]
        BY <1>4, <1>6, <3>2, <3>5 DEF Starts, Serves
      <4>2. req[u].state.committed /\ Fits(u, req[u]) /\ req[u].at # "idle"
        BY <1>1, <2>1, <3>1, <4>1 DEF StartKnows, HandInv, Starts, Serves
      <4> QED  BY <4>1, <4>2 DEF Fits
    <3>6. StartKnows(v)'
      BY <1>3, <3>1, <3>5 DEF StartKnows
    <3> QED  BY <2>2, <3>3, <3>4, <3>6
  <2> QED  BY <1>1, <2>3, <2>4 DEF Reqs
<1> QED  BY <1>7, <1>8 DEF SaltFits

LEMMA SaveSalts ==
  ASSUME SaltInv, NEW t \in Tabs, Save(t) \/ Rescue(t)
  PROVE  \A w \in Wallets : SaltFits(w)'
<1>1. HandInv /\ ProvTypes /\ req[t] \in Reqs /\ Fits(t, req[t])
  BY DEF SaltInv, HandInv, ProvTypes
<1>2. HandInv'
  BY <1>1, SaveKeeps, RescueKeeps
<1>3. PICK d \in BOOLEAN : d = (req[t].phase = "finish")
  OBVIOUS
<1>4. HarmGrows
  <2>1. harm' = harm \/ \E how, ws : harm' = Harmed(how, ws)
    BY DEF Save, Rescue, bounds
  <2> QED  BY <1>1, <2>1, HarmedGrows
<1>5. UNCHANGED <<site, mempool>> /\ req[t].at \in {"save", "rescue"}
  BY DEF Save, Rescue, chain
<1>6. Store(t, d)
  <2>1. req[t].at = "rescue" => req[t].phase = "start"
    BY <1>1 DEF Fits, FinishFits, Reqs
  <2> QED  BY <1>3, <2>1 DEF Save, Rescue
<1>7. \/ req[t].phase = "start" /\ req[t].at = "save" /\ Goto(t, "answer")
      \/ End(t)
  BY DEF Save, Rescue
<1> QED  BY <1>2, <1>3, <1>4, <1>5, <1>6, <1>7, StoreSalts

\* A request begins, alone in its wallet's setup unless that is on record.
LEMMA BeginSalts ==
  ASSUME SaltInv, HarmGrows, UNCHANGED doc, NEW t \in Tabs, req[t].at = "idle", NEW v \in Wallets,
         NEW phase, NEW at, at # "idle", at # "answer", Begin(t, v, phase, at),
         \A w \in Wallets : \A p \in Proxies : Spent(w, p)' => Spent(w, p),
         \/ phase = "start" /\ (Undisturbed(v)' => \A u \in Tabs \ {t} : ~Starts(u, v))
         \/ phase = "finish" /\ doc[v].state.committed
  PROVE  \A w \in Wallets : SaltFits(w)'
<1>1. req \in [Tabs -> Reqs]
  BY DEF SaltInv, HandInv, ProvTypes
<1>2. /\ \A u \in Tabs \ {t} : req'[u] = req[u]
      /\ req'[t].at = at /\ req'[t].wallet = v /\ req'[t].phase = phase /\ req'[t].state = doc[v].state
  BY <1>1, IdleFits DEF Begin, Reqs, Idle
<1>3. \A w, u : u \in Tabs =>
          /\ Serves(u, w) => Serves(u, w)' /\ req'[u] = req[u] /\ u # t
          /\ Serves(u, w)' => (Serves(u, w) /\ req'[u] = req[u]) \/ (u = t /\ w = v)
  BY <1>2 DEF Serves
<1> SUFFICES ASSUME NEW w \in Wallets, Undisturbed(w)'
             PROVE  OneStart(w)' /\ StartKnows(w)' /\ FinishLater(w)' /\ SpentKnown(w)'
  BY DEF SaltFits
<1>4. OneStart(w) /\ StartKnows(w) /\ FinishLater(w) /\ SpentKnown(w)
  BY HarmStays DEF SaltInv, SaltFits
<1>5. \A u \in Tabs : /\ Starts(u, w) => Starts(u, w)' /\ req'[u] = req[u]
                      /\ Starts(u, w)' => Starts(u, w) \/ (u = t /\ w = v /\ phase = "start")
  BY <1>2, <1>3 DEF Starts
<1>6. OneStart(w)'
  <2>1. CASE w = v /\ phase = "start"
    <3>1. \A u \in Tabs \ {t} : ~Starts(u, w)
      BY <2>1
    <3>2. \A u \in Tabs : Starts(u, w)' => u = t
      BY <1>5, <3>1
    <3> QED  BY <3>2 DEF OneStart
  <2>2. CASE ~(w = v /\ phase = "start")
    BY <1>4, <1>5, <2>2 DEF OneStart
  <2> QED  BY <2>1, <2>2
<1>7. StartKnows(w)'
  <2>1. ASSUME NEW u \in Tabs, Starts(u, w)'
        PROVE  /\ doc[w].state.proxies \subseteq req'[u].state.proxies
               /\ doc[w].state.committed => req'[u].state.committed
    <3>1. CASE Starts(u, w)
      BY <1>4, <1>5, <3>1 DEF StartKnows
    <3>2. CASE u = t /\ w = v
      BY <1>2, <3>2
    <3> QED  BY <1>5, <2>1, <3>1, <3>2
  <2> QED  BY <2>1 DEF StartKnows
<1>8. FinishLater(w)'
  BY <1>2, <1>3, <1>4 DEF FinishLater
<1>9. \A p : Known(w, p) => Known(w, p)'
  BY <1>5 DEF Known
<1> QED  BY <1>4, <1>6, <1>7, <1>8, <1>9 DEF SpentKnown

\* Words are gone, but no salt.
LEMMA ForgetSpends ==
  ASSUME HandInv, NEW t \in Tabs, ForgetWords(t)
  PROVE  \A w \in Wallets : \A p \in Proxies : Spent(w, p)' => Spent(w, p)
<1>1. site \in [Wallets -> Sites] /\ mempool \in Seq(Txs)
  BY DEF HandInv, ProvTypes
<1>2. \A w \in Wallets : site'[w].proxies = site[w].proxies
  BY <1>1 DEF ForgetWords, Sites
<1>3. /\ DOMAIN mempool' = DOMAIN mempool
      /\ \A i \in DOMAIN mempool : mempool'[i].kind = mempool[i].kind /\ mempool'[i].wallet = mempool[i].wallet
  <2>1. \A i \in DOMAIN mempool : mempool[i] \in Txs
    BY <1>1
  <2> QED  BY <2>1 DEF ForgetWords, Forgetting, Txs
<1> QED  BY <1>2, <1>3 DEF Spent

LEMMA WizardSalts ==
  ASSUME SaltInv, NEW t \in Tabs, NEW w \in Wallets, Claim(t, w) \/ Finish(t) \/ Reload(t)
  PROVE  \A v \in Wallets : SaltFits(v)'
<1>1. /\ HandInv /\ ProvTypes /\ UNCHANGED doc /\ req[t].at = "idle"
      /\ shown \in [Tabs -> Wallets \cup {Nobody}] /\ harm \in [Wallets -> SUBSET Harms]
  BY DEF SaltInv, HandInv, ProvTypes, Claim, Finish, Reload
<1>2. HarmGrows
  <2>1. harm' = harm \/ \E how, ws : harm' = Harmed(how, ws)
    BY DEF Claim, Finish, Reload, bounds
  <2> QED  BY <1>1, <2>1, HarmedGrows
<1>3. \A v \in Wallets : \A p \in Proxies : Spent(v, p)' => Spent(v, p)
  <2>1. CASE ForgetWords(t)
    BY <1>1, <2>1, ForgetSpends
  <2>2. CASE UNCHANGED <<site, mempool>>
    BY <2>2 DEF Spent
  <2> QED  BY <2>1, <2>2 DEF Claim, Finish, Reload, chain
<1>4. CASE req' = req
  BY <1>1, <1>2, <1>3, <1>4, SaltRests
<1>5. CASE /\ Begin(t, w, "start", IF doc[w].begun THEN "available" ELSE "cap")
           /\ harm' = Harmed("two starts", TwoStarts(t, w))
  <2>1. Undisturbed(w)' => \A u \in Tabs \ {t} : ~Starts(u, w)
    <3>1. ASSUME NEW u \in Tabs \ {t}, Starts(u, w) PROVE ~Undisturbed(w)'
      <4>1. TwoStarts(t, w) = {w}
        BY <3>1 DEF TwoStarts, Starts
      <4>2. "two starts" \in harm'[w]
        BY <1>5, <4>1 DEF Harmed
      <4> QED  BY <4>2 DEF Undisturbed
    <3> QED  BY <3>1
  <2>2. PICK at : at = (IF doc[w].begun THEN "available" ELSE "cap") /\ at # "idle" /\ at # "answer"
    OBVIOUS
  <2> QED  BY <1>1, <1>2, <1>3, <1>5, <2>1, <2>2, BeginSalts
<1>6. CASE shown[t] # Nobody /\ doc[shown[t]].state.committed /\ Begin(t, shown[t], "finish", "check")
  <2>1. PICK v \in Wallets : v = shown[t]
    BY <1>1, <1>6
  <2> QED  BY <1>1, <1>2, <1>3, <1>6, <2>1, BeginSalts
<1> QED  BY <1>4, <1>5, <1>6 DEF Claim, Finish, Reload

LEMMA CrashSalts ==
  ASSUME SaltInv, Crash
  PROVE  \A w \in Wallets : SaltFits(w)'
<1>1. /\ HandInv /\ ProvTypes /\ UNCHANGED <<doc, site>> /\ mempool \in Seq(Txs)
      /\ mempool' = Disowned(Tabs, mempool) /\ req' = [t \in Tabs |-> Idle]
      /\ harm' = Harmed("crash", {w \in Wallets : \E t \in Tabs : Serves(t, w)})
  BY DEF SaltInv, HandInv, ProvTypes, Crash, chain
<1>2. HarmGrows
  BY <1>1, HarmedGrows
<1>3. DOMAIN mempool' = DOMAIN mempool /\ \A i \in DOMAIN mempool :
          mempool'[i].kind = mempool[i].kind /\ mempool'[i].wallet = mempool[i].wallet
  BY <1>1, DisownedKeeps
<1> SUFFICES ASSUME NEW w \in Wallets, Undisturbed(w)'
             PROVE  OneStart(w)' /\ StartKnows(w)' /\ FinishLater(w)' /\ SpentKnown(w)'
  BY DEF SaltFits
<1>4. SpentKnown(w)
  BY <1>2, HarmStays DEF SaltInv, SaltFits
<1>5. \A t \in Tabs : ~Serves(t, w)
  <2>1. ASSUME NEW t \in Tabs, Serves(t, w) PROVE FALSE
    <3>1. "crash" \in harm'[w]
      BY <1>1, <2>1 DEF Harmed
    <3> QED  BY <3>1 DEF Undisturbed
  <2> QED  BY <2>1
<1>6. \A t \in Tabs : ~Serves(t, w)'
  BY <1>1, IdleFits DEF Serves
<1>7. OneStart(w)' /\ StartKnows(w)' /\ FinishLater(w)'
  BY <1>6 DEF OneStart, StartKnows, FinishLater, Starts
<1>8. \A p \in Proxies : Spent(w, p)' => Spent(w, p)
  BY <1>1, <1>3 DEF Spent
<1>9. \A p : Known(w, p) => Known(w, p)'
  BY <1>1, <1>5 DEF Known, Starts
<1> QED  BY <1>4, <1>7, <1>8, <1>9 DEF SpentKnown

\* The chain spends no salt that was not on its way.
LEMMA ChainSalts ==
  ASSUME SaltInv, Mine \/ \E w \in Wallets : Mature(w) \/ Squat(w)
  PROVE  \A w \in Wallets : SaltFits(w)'
<1>1. /\ HandInv /\ ProvTypes /\ UNCHANGED <<doc, harm>>
      /\ site \in [Wallets -> Sites] /\ mempool \in Seq(Txs) /\ req \in [Tabs -> Reqs]
  BY DEF SaltInv, HandInv, ProvTypes, Mine, Mature, Squat, bounds
<1>2. HarmGrows
  BY <1>1, HarmedGrows
<1>3. \A t \in Tabs : /\ req'[t].at = req[t].at /\ req'[t].wallet = req[t].wallet
                      /\ req'[t].phase = req[t].phase /\ req'[t].state = req[t].state
  <2>1. CASE req' = req
    BY <2>1
  <2>2. ASSUME NEW u \in Tabs, req' = [req EXCEPT ![u].ok = FALSE]
        PROVE  \A t \in Tabs : /\ req'[t].at = req[t].at /\ req'[t].wallet = req[t].wallet
                               /\ req'[t].phase = req[t].phase /\ req'[t].state = req[t].state
    BY <1>1, <2>2 DEF Reqs
  <2> QED  BY <2>1, <2>2 DEF Mine, Mature, Squat
<1>4. \A w \in Wallets : \A p \in Proxies : Spent(w, p)' => Spent(w, p)
  <2>1. CASE Mine
    <3>1. PICK tx \in Txs : tx = Head(mempool) /\ tx = mempool[1] /\ 1 \in DOMAIN mempool
      BY <1>1, <2>1 DEF Mine
    <3>2. \A i \in DOMAIN mempool' : i + 1 \in DOMAIN mempool /\ mempool'[i] = mempool[i + 1]
      BY <1>1, <2>1 DEF Mine
    <3>3. (site' = [site EXCEPT ![tx.wallet] = After(tx, @)]) \/ site' = site
      BY <2>1, <3>1 DEF Mine, chain
    <3>4. ASSUME NEW w \in Wallets, NEW p \in Proxies, p \in site'[w].proxies, p \notin site[w].proxies
          PROVE  tx.wallet = w /\ tx.kind = p
      <4>1. site'[w] = After(tx, site[w]) /\ tx.wallet = w
        BY <1>1, <3>3, <3>4
      <4>2. Effect(After(tx, site[w]), site[w], tx)
        BY <1>1, AfterFits
      <4> QED  BY <3>4, <4>1, <4>2 DEF Effect
    <3> QED  BY <3>1, <3>2, <3>4 DEF Spent
  <2>2. ASSUME NEW w \in Wallets, Mature(w) \/ Squat(w)
        PROVE  \A v \in Wallets : \A p \in Proxies : Spent(v, p)' => Spent(v, p)
    <3>1. mempool' = mempool /\ \A v \in Wallets : site'[v].proxies = site[v].proxies
      BY <1>1, <2>2 DEF Mature, Squat, Sites
    <3> QED  BY <3>1 DEF Spent
  <2> QED  BY <2>1, <2>2
<1> QED  BY <1>1, <1>2, <1>3, <1>4, SaltRests

LEMMA StepSalts ==
  SaltInv /\ [Next]_vars => SaltInv'
<1> SUFFICES ASSUME SaltInv, [Next]_vars
             PROVE  \A w \in Wallets : SaltFits(w)'
  BY StepHand DEF SaltInv
<1>1. scenario.tabs \subseteq Tabs /\ scenario.wallets \subseteq Wallets
  BY ProvisionAssumptions DEF SaltInv, HandInv, ProvTypes
<1>2. ASSUME NEW t \in scenario.tabs, Step(t) PROVE \A w \in Wallets : SaltFits(w)'
  BY <1>1, <1>2, ReadsSalts, SubmitSalts, SaveSalts DEF Step
<1>3. ASSUME NEW t \in scenario.tabs, SubmitFails(t) \/ ReceiptLate(t) PROVE \A w \in Wallets : SaltFits(w)'
  BY <1>1, <1>3, SubmitSalts, ReceiptLateSalts
<1>4. ASSUME NEW t \in scenario.tabs, Finish(t) \/ Reload(t) PROVE \A w \in Wallets : SaltFits(w)'
  BY <1>1, <1>4, WizardSalts
<1>5. ASSUME NEW t \in scenario.tabs, NEW w \in scenario.wallets, Claim(t, w)
      PROVE  \A v \in Wallets : SaltFits(v)'
  BY <1>1, <1>5, WizardSalts
<1>6. ASSUME NEW w \in scenario.wallets, Mature(w) \/ Squat(w) PROVE \A v \in Wallets : SaltFits(v)'
  BY <1>1, <1>6, ChainSalts
<1>7. ASSUME UNCHANGED vars PROVE \A w \in Wallets : SaltFits(w)'
  <2>1. UNCHANGED <<doc, site, mempool, req, harm>> /\ ProvTypes
    BY <1>7 DEF vars, SaltInv, HandInv
  <2>2. HarmGrows /\ \A w \in Wallets : \A p \in Proxies : Spent(w, p)' => Spent(w, p)
    BY <2>1, HarmedGrows DEF Spent
  <2> QED  BY <2>1, <2>2, SaltRests
<1> QED  BY <1>2, <1>3, <1>4, <1>5, <1>6, <1>7, CrashSalts, ChainSalts DEF Next

\* Once its requests are over, a wallet's document knows every salt the factory has
\* spent for it, but for two starts at once or a crash: a retry never simulates a
\* deploy that cannot go through.
THEOREM NoSaltForgotten == Spec => []SaltsRemembered
<1>1. Init => SaltInv
  <2>1. ASSUME Init, NEW w \in Wallets PROVE SaltFits(w)
    BY <2>1, IdleFits DEF Init, SaltFits, OneStart, StartKnows, FinishLater, SpentKnown, Starts, Serves, Spent
  <2> QED  BY <2>1, InitHand DEF SaltInv
<1>2. SaltInv => SaltsRemembered
  <2> SUFFICES ASSUME SaltInv, NEW w \in Wallets, Undisturbed(w), \A t \in Tabs : ~Serves(t, w)
               PROVE  site[w].proxies \subseteq doc[w].state.proxies
    BY DEF SaltsRemembered, Undisturbed
  <2>1. site[w].proxies \subseteq Proxies /\ SpentKnown(w)
    BY DEF SaltInv, SaltFits, HandInv, ProvTypes, Sites
  <2> QED  BY <2>1 DEF SpentKnown, Spent, Known, Starts
<1> QED  BY <1>1, <1>2, StepSalts, PTL DEF Spec
=============================================================================

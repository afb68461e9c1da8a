----------------------------- MODULE Faucet_proofs -----------------------------
(***************************************************************************)
(* The faucet pays a leg of a wallet once for each claim, for any number of*)
(* wallets and requests, any waiting times and any number of faults.       *)
(***************************************************************************)
EXTENDS Faucet, Sums

----------------------------------------------------------------------------
\* Where a request may be, beside the types: it serves a wallet until it is done, and
\* has a transaction exactly between the broadcast and the receipt.
Bound == Max({QueueDelay, ReceiptTimeout})

Serving ==
    \A r \in Requests :
        /\ pc[r] # "idle" => wallet[r] \in Wallets
        /\ tx[r] # "none" <=> pc[r] \in {"record", "receipt"}

FaucetTypes == TypeOK /\ Serving

LEMMA Larger == Bound \in Nat /\ QueueDelay <= Bound /\ ReceiptTimeout <= Bound
<1>1. \E x \in {QueueDelay, ReceiptTimeout} : \A y \in {QueueDelay, ReceiptTimeout} : x >= y
  BY FaucetAssumptions
<1> QED  BY <1>1, FaucetAssumptions DEF Bound, Max

LEMMA Smaller == ASSUME NEW n \in Ages PROVE Min({n + 1, StaleClaim + 1}) \in Ages
<1>1. \E x \in {n + 1, StaleClaim + 1} : \A y \in {n + 1, StaleClaim + 1} : x =< y
  BY FaucetAssumptions DEF Ages
<1> QED  BY <1>1, FaucetAssumptions DEF Ages, Min

Document == [state : {"absent", "pending", "delivered"}, age : Ages]

LEMMA Constants ==
  /\ Absent \in Document /\ Pending \in Document /\ Delivered \in Document
  /\ Documents = [Legs -> Document]
  BY FaucetAssumptions DEF Absent, Pending, Delivered, Document, Documents, Ages

LEMMA Ageing == ASSUME NEW doc \in Documents PROVE OlderDocument(doc) \in Documents
<1> SUFFICES ASSUME NEW l \in Legs PROVE Older(doc[l]) \in Document
  BY Constants DEF OlderDocument
<1>1. doc[l] \in Document
  BY Constants
<1>2. Min({doc[l].age + 1, StaleClaim + 1}) \in Ages
  BY <1>1, Smaller DEF Document
<1> QED  BY <1>1, <1>2 DEF Older, Document

LEMMA InitTypes == Init => FaucetTypes
  BY Constants, Larger, FaucetAssumptions DEF Init, FaucetTypes, TypeOK, Serving, Places, Legs, Bound

\* A leg of the request's wallet is set to a value.
LEMMA SetKeepsType ==
  ASSUME TypeOK, NEW r \in Requests, NEW v \in Document, SetLeg(r, v)
  PROVE  account' \in [Wallets -> Documents]
  BY Constants DEF TypeOK, SetLeg

----------------------------------------------------------------------------
\* A step of one request leaves the others where they are.
Placed ==
    /\ pc \in [Requests -> Places]
    /\ wallet \in [Requests -> Wallets \cup {Nobody}]
    /\ leg \in [Requests -> Legs]
    /\ copy \in [Requests -> Documents]

Moves(r) ==
    /\ Placed'
    /\ \A q \in Requests \ {r} : pc'[q] = pc[q] /\ wallet'[q] = wallet[q] /\ leg'[q] = leg[q]

Sends(r) ==
    /\ tx' \in [Requests -> {"none", "pending", "landed", "reverted"}]
    /\ \A q \in Requests \ {r} : tx'[q] = tx[q]

LEMMA GotoMoves ==
  ASSUME FaucetTypes, NEW r \in Requests, NEW p \in Places, Goto(r, p)
  PROVE  Moves(r) /\ pc'[r] = p /\ wallet'[r] = wallet[r] /\ leg'[r] = leg[r]
  BY DEF FaucetTypes, TypeOK, Moves, Placed, Goto

LEMMA FinishMoves ==
  ASSUME FaucetTypes, NEW r \in Requests, Finish(r)
  PROVE  Moves(r) /\ pc'[r] = "idle"
<1>1. [l \in Legs |-> Absent] \in Documents /\ "dripped" \in Legs /\ "idle" \in Places
  BY Constants DEF Legs, Places
<1> QED  BY <1>1 DEF FaucetTypes, TypeOK, Moves, Placed, Finish

LEMMA NextMoves ==
  ASSUME FaucetTypes, NEW r \in Requests, NextLeg(r)
  PROVE  /\ Moves(r) /\ pc'[r] \in {"idle", "leg"}
         /\ pc'[r] = "leg" => wallet'[r] = wallet[r]
<1>1. CASE leg[r] = "dripped"
  <2>1. "funded" \in Legs /\ "leg" \in Places
    BY DEF Legs, Places
  <2> QED  BY <1>1, <2>1 DEF FaucetTypes, TypeOK, Moves, Placed, NextLeg
<1>2. CASE leg[r] # "dripped"
  BY <1>2, FinishMoves DEF NextLeg
<1> QED  BY <1>1, <1>2

LEMMA Serves ==
  ASSUME FaucetTypes, NEW r \in Requests, Moves(r), Sends(r),
         pc'[r] # "idle" => wallet'[r] \in Wallets,
         tx'[r] # "none" <=> pc'[r] \in {"record", "receipt"}
  PROVE  Serving'
<1> SUFFICES ASSUME NEW q \in Requests
             PROVE  /\ pc'[q] # "idle" => wallet'[q] \in Wallets
                    /\ tx'[q] # "none" <=> pc'[q] \in {"record", "receipt"}
  BY DEF Serving
<1> QED  BY DEF FaucetTypes, Serving, Moves, Sends

\* Each step of a request: where it goes, and what it leaves of its transaction.
Steps(r) ==
    /\ Moves(r) /\ Sends(r)
    /\ Serving'

LEMMA StepMoves ==
  ASSUME FaucetTypes, NEW r \in Requests, Step(r) \/ ReceiptLate(r) \/ LedgerFails(r) \/ Mined(r)
  PROVE  Steps(r)
<1> USE DEF Steps
<1>t. TypeOK /\ Serving /\ (pc[r] # "idle" => wallet[r] \in Wallets)
      /\ (tx[r] # "none" <=> pc[r] \in {"record", "receipt"})
  BY DEF FaucetTypes, Serving
<1>p. {"cap", "look", "release", "confirm", "claim", "recheck", "queued", "record", "receipt"}
        \subseteq Places
  BY DEF Places
<1>s. ASSUME UNCHANGED tx PROVE Sends(r) /\ tx'[r] = tx[r]
  BY <1>s, <1>t DEF Sends, TypeOK
<1>x. ASSUME NEW v \in {"none", "pending", "landed", "reverted"}, tx' = [tx EXCEPT ![r] = v]
      PROVE  Sends(r) /\ tx'[r] = v
  BY <1>x, <1>t DEF Sends, TypeOK
<1>1. CASE EnterLeg(r)
  BY <1>1, <1>t, <1>p, <1>s, GotoMoves, NextMoves, FinishMoves, Serves DEF EnterLeg, Refuse
<1>2. CASE Look(r)
  BY <1>2, <1>t, <1>p, <1>s, GotoMoves, Serves DEF Look
<1>3. CASE Confirm(r)
  BY <1>3, <1>t, <1>s, NextMoves, Serves DEF Confirm
<1>4. CASE Release(r)
  BY <1>4, <1>t, <1>p, <1>s, GotoMoves, Serves DEF Release
<1>5. CASE ReadCap(r)
  BY <1>5, <1>t, <1>p, <1>s, GotoMoves, FinishMoves, Serves DEF ReadCap, Refuse
<1>6. CASE Claim(r)
  BY <1>6, <1>t, <1>p, <1>s, GotoMoves, FinishMoves, Serves DEF Claim, Refuse
<1>7. CASE Recheck(r)
  BY <1>7, <1>t, <1>p, <1>s, GotoMoves, FinishMoves, Serves DEF Recheck, Refuse
<1>8. CASE Broadcast(r)
  BY <1>8, <1>t, <1>p, <1>x, GotoMoves, Serves DEF Broadcast
<1>9. CASE SendFails(r)
  BY <1>9, <1>t, <1>s, FinishMoves, Serves DEF SendFails
<1>10. CASE Record(r)
  BY <1>10, <1>t, <1>p, <1>s, GotoMoves, Serves DEF Record
<1>11. CASE Receipt(r)
  BY <1>11, <1>t, <1>x, NextMoves, FinishMoves, Serves DEF Receipt, Refuse
<1>12. CASE ReceiptLate(r)
  BY <1>12, <1>t, <1>x, FinishMoves, Serves DEF ReceiptLate
<1>13. CASE LedgerFails(r)
  BY <1>13, <1>t, <1>x, FinishMoves, Serves DEF LedgerFails
<1>14. CASE Mined(r)
  <2>1. Moves(r) /\ pc' = pc /\ wallet' = wallet
    BY <1>14, <1>t DEF Mined, Moves, Placed, TypeOK
  <2> QED  BY <1>14, <1>t, <1>x, <2>1, Serves DEF Mined
<1> QED  BY <1>1, <1>2, <1>3, <1>4, <1>5, <1>6, <1>7, <1>8, <1>9, <1>10, <1>11, <1>12, <1>13, <1>14
         DEF Step

\* And what it leaves of everything else.
Kept ==
    /\ account \in [Wallets -> Documents]
    /\ waited \in [Requests -> 0..Bound]
    /\ stray \in [Wallets -> [Legs -> Nat]]
    /\ ether \in [Wallets -> BOOLEAN]
    /\ faults \in 0..MaxFaults
    /\ paid \in [Wallets -> [Legs -> Nat]]
    /\ excused \in [Wallets -> [Legs -> Nat]]

LEMMA TypesSplit ==
  FaucetTypes <=> Placed /\ tx \in [Requests -> {"none", "pending", "landed", "reverted"}] /\ Kept /\ Serving
  BY DEF FaucetTypes, TypeOK, Placed, Kept, Bound

Counts == [Wallets -> [Legs -> Nat]]

LEMMA Bump ==
  ASSUME NEW f \in Counts, NEW w \in Wallets, NEW l \in Legs, NEW n \in Nat
  PROVE  [f EXCEPT ![w][l] = n] \in Counts
<1>1. [f[w] EXCEPT ![l] = n] \in [Legs -> Nat]
  BY DEF Counts
<1> QED  BY <1>1 DEF Counts

LEMMA ArrivesKeeps ==
  ASSUME Kept, NEW w \in Wallets, NEW l \in Legs, Arrives(w, l) \/ UNCHANGED <<ether, paid>>
  PROVE  ether' \in [Wallets -> BOOLEAN] /\ paid' \in Counts
<1>1. CASE UNCHANGED <<ether, paid>>
  BY <1>1 DEF Kept, Counts
<1>2. CASE Arrives(w, l)
  <2>1. paid \in Counts /\ paid[w][l] + 1 \in Nat
    BY DEF Kept, Counts
  <2> QED  BY <1>2, <2>1, Bump DEF Arrives, Kept
<1> QED  BY <1>1, <1>2

LEMMA StepKeeps ==
  ASSUME FaucetTypes, NEW r \in Requests, Step(r) \/ ReceiptLate(r) \/ LedgerFails(r) \/ Mined(r)
  PROVE  Kept'
<1>t. Kept /\ leg[r] \in Legs
  BY TypesSplit DEF Placed
<1>b. pc[r] # "idle" => wallet[r] \in Wallets
  BY TypesSplit DEF Serving
<1>a. ASSUME NEW v \in Document, SetLeg(r, v) PROVE account' \in [Wallets -> Documents]
  BY <1>a, SetKeepsType DEF FaucetTypes
<1>w. ASSUME waited' = [waited EXCEPT ![r] = 0] PROVE waited' \in [Requests -> 0..Bound]
  BY <1>w, <1>t, Larger DEF Kept
<1>e. ASSUME pc[r] # "idle",
             \/ excused' = excused
             \/ excused' = [excused EXCEPT ![wallet[r]][leg[r]] = @ + 1]
      PROVE  excused' \in [Wallets -> [Legs -> Nat]]
  <2>1. wallet[r] \in Wallets => excused[wallet[r]][leg[r]] + 1 \in Nat
    BY <1>t DEF Kept
  <2>2. CASE excused' = excused
    BY <2>2, <1>t DEF Kept
  <2>3. CASE excused' = [excused EXCEPT ![wallet[r]][leg[r]] = @ + 1]
    <3>1. wallet[r] \in Wallets /\ leg[r] \in Legs /\ excused \in Counts
      BY <1>e, <1>b, <1>t DEF Kept, Counts
    <3> QED  BY <2>3, <2>1, <3>1, Bump DEF Counts
  <2> QED  BY <1>e, <2>2, <2>3
<1>s. ASSUME pc[r] # "idle", NEW n \in Nat, stray' = [stray EXCEPT ![wallet[r]][leg[r]] = @ + n]
      PROVE  stray' \in [Wallets -> [Legs -> Nat]]
  <2>1. wallet[r] \in Wallets => stray[wallet[r]][leg[r]] + n \in Nat
    BY <1>t DEF Kept
  <2> QED  BY <1>s, <1>b, <1>t, <2>1, Bump DEF Kept, Counts
<1>f. ASSUME faults < MaxFaults, faults' = faults + 1 PROVE faults' \in 0..MaxFaults
  BY <1>f, <1>t, FaucetAssumptions DEF Kept
<1> USE Constants DEF ghosts, outside
<1>1. CASE EnterLeg(r)
  BY <1>1, <1>t DEF EnterLeg, Kept
<1>2. CASE Look(r)
  BY <1>2, <1>t DEF Look, Kept
<1>3. CASE Confirm(r)
  BY <1>3, <1>t, <1>a DEF Confirm, Kept
<1>4. CASE Release(r)
  BY <1>4, <1>t, <1>a, <1>e DEF Release, Kept
<1>5. CASE ReadCap(r)
  BY <1>5, <1>t DEF ReadCap, Kept
<1>6. CASE Claim(r)
  BY <1>6, <1>t, <1>a DEF Claim, Kept
<1>7. CASE Recheck(r)
  BY <1>7, <1>t, <1>a DEF Recheck, Kept
<1>8. CASE Broadcast(r)
  BY <1>8, <1>t, <1>w DEF Broadcast, Kept
<1>9. CASE SendFails(r)
  <2>1. account' \in [Wallets -> Documents] /\ waited' \in [Requests -> 0..Bound]
    BY <1>9, <1>a, <1>w DEF SendFails
  <2>2. CASE UNCHANGED <<stray, ghosts>>
    BY <1>9, <2>1, <2>2, <1>t DEF SendFails, Kept
  <2>3. CASE /\ faults < MaxFaults
             /\ faults' = faults + 1
             /\ stray' = [stray EXCEPT ![wallet[r]][leg[r]] = @ + 1]
             /\ excused' = [excused EXCEPT ![wallet[r]][leg[r]] = @ + 1]
    <3>1. excused' \in [Wallets -> [Legs -> Nat]] /\ faults' \in 0..MaxFaults
      BY <1>9, <2>3, <1>e, <1>f DEF SendFails
    <3>2. stray' \in [Wallets -> [Legs -> Nat]]
      <4>1. pc[r] # "idle" /\ 1 \in Nat
        BY <1>9 DEF SendFails
      <4> QED  BY <4>1, <2>3, <1>s
    <3> QED  BY <1>9, <2>1, <3>1, <3>2, <1>t DEF SendFails, Kept
  <2> QED  BY <1>9, <2>2, <2>3 DEF SendFails
<1>10. CASE Record(r)
  BY <1>10, <1>t, <1>a DEF Record, Kept
<1>11. CASE Receipt(r)
  BY <1>11, <1>t, <1>a, <1>w DEF Receipt, Kept
<1>12. CASE ReceiptLate(r)
  <2>1. /\ account' \in [Wallets -> Documents] /\ waited' \in [Requests -> 0..Bound]
        /\ stray' \in [Wallets -> [Legs -> Nat]] /\ excused' \in [Wallets -> [Legs -> Nat]]
        /\ faults' \in 0..MaxFaults
    BY <1>12, <1>t, <1>a, <1>w, <1>s, <1>e, <1>f DEF ReceiptLate, Kept
  <2> QED  BY <1>12, <2>1, <1>t DEF ReceiptLate, Kept
<1>13. CASE LedgerFails(r)
  <2>n. (IF tx[r] = "pending" THEN 1 ELSE 0) \in Nat
    OBVIOUS
  <2>1. /\ account' \in [Wallets -> Documents] /\ waited' \in [Requests -> 0..Bound]
        /\ excused' \in [Wallets -> [Legs -> Nat]]
        /\ faults' \in 0..MaxFaults
    BY <1>13, <1>t, <1>a, <1>w, <1>e, <1>f DEF LedgerFails, Kept
  <2>2. stray' \in [Wallets -> [Legs -> Nat]]
    BY <1>13, <1>s, <2>n DEF LedgerFails
  <2> QED  BY <1>13, <2>1, <2>2, <1>t DEF LedgerFails, Kept
<1>14. CASE Mined(r)
  <2>1. wallet[r] \in Wallets
    BY <1>14, <1>b, TypesSplit DEF Mined, Serving
  <2> QED  BY <1>14, <1>t, <2>1, ArrivesKeeps DEF Mined, Kept, Counts
<1> QED  BY <1>1, <1>2, <1>3, <1>4, <1>5, <1>6, <1>7, <1>8, <1>9, <1>10, <1>11, <1>12, <1>13, <1>14
         DEF Step

LEMMA OthersKeepTypes ==
  ASSUME FaucetTypes,
         \/ \E r \in Requests, w \in Wallets : Arrive(r, w)
         \/ \E w \in Wallets : OwnBusiness(w) \/ \E l \in Legs : MinedStray(w, l)
         \/ Tick \/ Crash
  PROVE  FaucetTypes'
<1>t. Placed /\ tx \in [Requests -> {"none", "pending", "landed", "reverted"}] /\ Kept /\ Serving
  BY TypesSplit
<1> SUFFICES Placed' /\ tx' \in [Requests -> {"none", "pending", "landed", "reverted"}] /\ Kept' /\ Serving'
  BY TypesSplit DEF FaucetTypes, TypeOK, Placed, Kept, Bound
<1>1. ASSUME NEW r \in Requests, NEW w \in Wallets, Arrive(r, w)
      PROVE  Placed' /\ tx' \in [Requests -> {"none", "pending", "landed", "reverted"}] /\ Kept' /\ Serving'
  <2>1. "leg" \in Places /\ "dripped" \in Legs
    BY DEF Places, Legs
  <2> QED  BY <1>1, <1>t, <2>1 DEF Arrive, Placed, Kept, Serving, outside, ghosts
<1>2. ASSUME NEW w \in Wallets, OwnBusiness(w) \/ \E l \in Legs : MinedStray(w, l)
      PROVE  Placed' /\ tx' \in [Requests -> {"none", "pending", "landed", "reverted"}] /\ Kept' /\ Serving'
  <2>1. CASE OwnBusiness(w)
    BY <2>1, <1>t DEF OwnBusiness, Placed, Kept, Serving, requests, ghosts
  <2>2. ASSUME NEW l \in Legs, MinedStray(w, l)
        PROVE  Placed' /\ tx' \in [Requests -> {"none", "pending", "landed", "reverted"}] /\ Kept' /\ Serving'
    <3>1. stray \in Counts /\ stray[w][l] - 1 \in Nat
      BY <2>2, <1>t DEF MinedStray, Kept, Counts
    <3>2. stray' = [stray EXCEPT ![w][l] = @ - 1]
      BY <2>2 DEF MinedStray
    <3>3. stray' \in Counts
      BY <3>1, <3>2, Bump
    <3> QED  BY <2>2, <1>t, <3>3, ArrivesKeeps
             DEF MinedStray, Placed, Kept, Serving, requests, ghosts, Counts
  <2> QED  BY <1>2, <2>1, <2>2
<1>3. CASE Tick
  <2>1. account' \in [Wallets -> Documents] /\ copy' \in [Requests -> Documents]
    BY <1>3, <1>t, Ageing DEF Tick, Kept, Placed
  <2>2. waited' \in [Requests -> 0..Bound]
    <3> SUFFICES ASSUME NEW r \in Requests PROVE waited'[r] \in 0..Bound
      BY <1>3 DEF Tick
    <3>1. waited[r] \in Nat /\ waited'[r] = IF pc[r] = "idle" THEN 0 ELSE waited[r] + 1
      BY <1>3, <1>t DEF Tick, Kept
    <3>2. pc[r] = "idle" \/ waited[r] < QueueDelay \/ waited[r] < ReceiptTimeout
      BY <1>3 DEF Tick, Deadline
    <3> QED  BY <3>1, <3>2, Larger, FaucetAssumptions
  <2> QED  BY <1>3, <1>t, <2>1, <2>2 DEF Tick, Placed, Kept, Serving, outside, ghosts
<1>4. CASE Crash
  <2>1. [l \in Legs |-> Absent] \in Documents /\ "dripped" \in Legs /\ "idle" \in Places
    BY Constants DEF Legs, Places
  <2>2. Placed' /\ tx' \in [Requests -> {"none", "pending", "landed", "reverted"}] /\ Serving'
    BY <1>4, <2>1 DEF Crash, Placed, Serving
  <2>3. stray' \in [Wallets -> [Legs -> Nat]]
    <3> SUFFICES ASSUME NEW w \in Wallets, NEW l \in Legs PROVE stray'[w][l] \in Nat
      BY <1>4 DEF Crash
    <3> DEFINE P == {r \in Requests : tx[r] = "pending" /\ wallet[r] = w /\ leg[r] = l}
    <3>1. Cardinality(P) \in Nat
      BY FS_Subset, FS_CardinalityType, FaucetAssumptions
    <3> QED  BY <1>4, <1>t, <3>1 DEF Crash, Kept
  <2>4. faults' \in 0..MaxFaults /\ waited' \in [Requests -> 0..Bound]
    BY <1>4, <1>t, Larger, FaucetAssumptions DEF Crash, Kept
  <2> QED  BY <1>4, <1>t, <2>2, <2>3, <2>4 DEF Crash, Kept
<1> QED  BY <1>1, <1>2, <1>3, <1>4

LEMMA NextTypes == FaucetTypes /\ [Next]_vars => FaucetTypes'
<1> SUFFICES ASSUME FaucetTypes, [Next]_vars PROVE FaucetTypes'
  OBVIOUS
<1>1. ASSUME NEW r \in Requests, Step(r) \/ ReceiptLate(r) \/ LedgerFails(r) \/ Mined(r)
      PROVE  FaucetTypes'
  <2>1. Moves(r) /\ Sends(r) /\ Serving' /\ Kept'
    BY <1>1, StepMoves, StepKeeps DEF Steps
  <2> QED  BY <2>1 DEF FaucetTypes, TypeOK, Moves, Sends, Placed, Kept, Bound
<1>2. CASE UNCHANGED vars
  BY <1>2 DEF vars, FaucetTypes, TypeOK, Serving
<1> QED  BY <1>1, <1>2, OthersKeepTypes DEF Next

\* TypeOK of Faucet.
THEOREM TypeCorrect == Spec => []TypeOK
<1>1. FaucetTypes => TypeOK
  BY DEF FaucetTypes
<1> QED  BY <1>1, InitTypes, NextTypes, PTL DEF Spec
----------------------------------------------------------------------------
\* The inductive invariant.  What was paid for a leg of a wallet, with what may still
\* land, is covered: by the claim that the ledger holds, and by those given up while
\* their payment could land.  A request is in flight from its claim to the receipt, and
\* a reverted transaction with it, until the claim is given up.
InFlight(r) == pc[r] \in {"recheck", "queued"} \/ (pc[r] \in {"record", "receipt"} /\ tx[r] # "landed")
Flies(r, w, l) == wallet[r] = w /\ leg[r] = l /\ InFlight(r)
Flying(w, l) == {r \in Requests : Flies(r, w, l)}

Held(w, l) == IF account[w][l].state = "absent" THEN 0 ELSE 1
Owes(w, l) == paid[w][l] + stray[w][l] + Cardinality(Flying(w, l))
Covered(w, l) == Owes(w, l) <= Held(w, l) + excused[w][l]

FaucetInv ==
    /\ FaucetTypes
    /\ \A w \in Wallets, l \in Legs : Covered(w, l)

Flight(r, w, l) == IF Flies(r, w, l) THEN 1 ELSE 0
Slack(r, w, l) == Held(w, l) + excused[w][l] - paid[w][l] - stray[w][l] - Flight(r, w, l)

\* The others in flight are counted apart from one request.
LEMMA Apart ==
  ASSUME NEW r \in Requests, NEW w, NEW l
  PROVE  /\ Cardinality(Flying(w, l) \ {r}) \in Nat
         /\ Cardinality(Flying(w, l)) = Cardinality(Flying(w, l) \ {r}) + Flight(r, w, l)
<1>1. IsFiniteSet(Flying(w, l))
  BY FS_Subset, FaucetAssumptions DEF Flying
<1>2. r \in Flying(w, l) <=> Flies(r, w, l)
  BY DEF Flying
<1>3. IsFiniteSet(Flying(w, l) \ {r}) /\ Cardinality(Flying(w, l)) \in Nat
      /\ Cardinality(Flying(w, l) \ {r}) \in Nat
  BY <1>1, FS_RemoveElement, FS_CardinalityType
<1>4. Cardinality(Flying(w, l) \ {r}) =
        IF r \in Flying(w, l) THEN Cardinality(Flying(w, l)) - 1 ELSE Cardinality(Flying(w, l))
  BY <1>1, FS_RemoveElement
<1> QED  BY <1>2, <1>3, <1>4 DEF Flight

LEMMA CountTypes ==
  ASSUME FaucetTypes, NEW w \in Wallets, NEW l \in Legs
  PROVE  paid[w][l] \in Nat /\ stray[w][l] \in Nat /\ excused[w][l] \in Nat
         /\ Cardinality(Flying(w, l)) \in Nat
<1>1. IsFiniteSet(Flying(w, l))
  BY FS_Subset, FaucetAssumptions DEF Flying
<1> QED  BY <1>1, FS_CardinalityType DEF FaucetTypes, TypeOK

\* A step of one request is judged by what it changes of its own leg.
LEMMA OneRequest ==
  ASSUME FaucetInv, FaucetTypes', NEW r \in Requests, Moves(r), Sends(r),
         \A w \in Wallets, l \in Legs :
            Covered(w, l)' \/ Slack(r, w, l)' >= Slack(r, w, l)
  PROVE  FaucetInv'
<1> SUFFICES ASSUME NEW w \in Wallets, NEW l \in Legs,
                    Slack(r, w, l)' >= Slack(r, w, l)
             PROVE  Covered(w, l)'
  BY DEF FaucetInv
<1>1. Flying(w, l)' \ {r} = Flying(w, l) \ {r}
  <2>1. \A q \in Requests \ {r} : Flies(q, w, l)' <=> Flies(q, w, l)
    BY DEF Moves, Sends, Flies, InFlight
  <2> QED  BY <2>1 DEF Flying
<1> DEFINE n == Cardinality(Flying(w, l) \ {r})
<1>2. n \in Nat /\ Cardinality(Flying(w, l)) = n + Flight(r, w, l)
  BY Apart
<1>3. Cardinality(Flying(w, l)') = n + Flight(r, w, l)'
  <2>1. IsFiniteSet(Flying(w, l)')
    BY FS_Subset, FaucetAssumptions DEF Flying
  <2>2. r \in Flying(w, l)' <=> Flies(r, w, l)'
    BY DEF Flying
  <2>3. Cardinality(Flying(w, l)' \ {r}) =
        IF r \in Flying(w, l)' THEN Cardinality(Flying(w, l)') - 1 ELSE Cardinality(Flying(w, l)')
    BY <2>1, FS_RemoveElement
  <2>4. Cardinality(Flying(w, l)') \in Nat
    BY <2>1, FS_CardinalityType
  <2>5. Cardinality(Flying(w, l)' \ {r}) = n
    BY <1>1
  <2> HIDE DEF n
  <2>6. CASE Flies(r, w, l)'
    BY <2>2, <2>3, <2>4, <2>5, <2>6 DEF Flight
  <2>7. CASE ~Flies(r, w, l)'
    BY <2>2, <2>3, <2>4, <2>5, <2>7 DEF Flight
  <2> QED  BY <2>6, <2>7
<1>4. paid[w][l] \in Nat /\ stray[w][l] \in Nat /\ excused[w][l] \in Nat
  BY CountTypes DEF FaucetInv
<1>5. paid'[w][l] \in Nat /\ stray'[w][l] \in Nat /\ excused'[w][l] \in Nat
  BY DEF FaucetTypes, TypeOK
<1>6. /\ Held(w, l) \in {0, 1} /\ Held(w, l)' \in {0, 1}
      /\ Flight(r, w, l) \in {0, 1} /\ Flight(r, w, l)' \in {0, 1}
  BY DEF Held, Flight
<1>7. paid[w][l] + stray[w][l] + Cardinality(Flying(w, l)) <= Held(w, l) + excused[w][l]
  BY DEF FaucetInv, Covered, Owes
<1> HIDE DEF n
<1>8. paid'[w][l] + stray'[w][l] + Cardinality(Flying(w, l)') <= Held(w, l)' + excused'[w][l]
  BY <1>2, <1>3, <1>4, <1>5, <1>6, <1>7 DEF Slack
<1> QED  BY <1>8 DEF Covered, Owes

LEMMA StepCovered ==
  ASSUME FaucetInv, NEW r \in Requests, Step(r) \/ ReceiptLate(r) \/ LedgerFails(r) \/ Mined(r)
  PROVE  FaucetInv'
<1>t. FaucetTypes
  BY DEF FaucetInv
<1>m. Moves(r) /\ Sends(r) /\ FaucetTypes'
  <2>1. Moves(r) /\ Sends(r) /\ Serving' /\ Kept'
    BY <1>t, StepMoves, StepKeeps DEF Steps
  <2> QED  BY <2>1 DEF FaucetTypes, TypeOK, Moves, Sends, Placed, Kept, Bound
<1> SUFFICES ASSUME NEW w \in Wallets, NEW l \in Legs
             PROVE  Covered(w, l)' \/ Slack(r, w, l)' >= Slack(r, w, l)
  BY <1>m, OneRequest
<1> DEFINE Own == wallet[r] = w /\ leg[r] = l
<1>w. pc[r] # "idle" => wallet[r] \in Wallets
  BY <1>t DEF FaucetTypes, Serving
<1>x. tx[r] # "none" <=> pc[r] \in {"record", "receipt"}
  BY <1>t DEF FaucetTypes, Serving
<1>l. leg[r] \in Legs
  BY <1>t DEF FaucetTypes, TypeOK
<1>c. /\ paid[w][l] \in Nat /\ stray[w][l] \in Nat /\ excused[w][l] \in Nat
      /\ paid'[w][l] \in Nat /\ stray'[w][l] \in Nat /\ excused'[w][l] \in Nat
  BY <1>t, <1>m DEF FaucetTypes, TypeOK
<1>h. Held(w, l) \in {0, 1} /\ Held(w, l)' \in {0, 1}
  BY DEF Held
<1>f. /\ Flight(r, w, l) = IF Own /\ InFlight(r) THEN 1 ELSE 0
      /\ Flight(r, w, l) \in {0, 1} /\ Flight(r, w, l)' \in {0, 1}
  BY DEF Flight, Flies
<1>down. ~InFlight(r)' => Flight(r, w, l)' = 0
  BY DEF Flight, Flies
<1>up. wallet'[r] = wallet[r] /\ leg'[r] = leg[r] =>
         Flight(r, w, l)' = IF Own /\ InFlight(r)' THEN 1 ELSE 0
  BY DEF Flight, Flies
<1>go. ASSUME NEW p \in Places, Goto(r, p)
       PROVE  pc'[r] = p /\ wallet'[r] = wallet[r] /\ leg'[r] = leg[r]
  BY <1>t, <1>go, GotoMoves
<1>end. Finish(r) \/ NextLeg(r) => ~InFlight(r)'
  BY <1>t, FinishMoves, NextMoves DEF InFlight
<1>set. ASSUME NEW v, SetLeg(r, v)
        PROVE  Held(w, l)' = IF Own THEN (IF v.state = "absent" THEN 0 ELSE 1) ELSE Held(w, l)
  BY <1>set, <1>t DEF SetLeg, Held, FaucetTypes, TypeOK, Documents
<1>same. UNCHANGED account => Held(w, l)' = Held(w, l)
  BY DEF Held
<1>v. Absent.state = "absent" /\ Pending.state # "absent" /\ Delivered.state # "absent"
  BY DEF Absent, Pending, Delivered
<1>p. {"cap", "look", "release", "confirm", "claim", "recheck", "queued", "record", "receipt"}
        \subseteq Places
  BY DEF Places
<1>ex. ASSUME excused' = [excused EXCEPT ![wallet[r]][leg[r]] = @ + 1]
       PROVE  excused'[w][l] = IF Own THEN excused[w][l] + 1 ELSE excused[w][l]
  BY <1>ex, <1>t DEF FaucetTypes, TypeOK
<1>stn. ASSUME NEW n, stray' = [stray EXCEPT ![wallet[r]][leg[r]] = @ + n]
        PROVE  stray'[w][l] = IF Own THEN stray[w][l] + n ELSE stray[w][l]
  BY <1>stn, <1>t DEF FaucetTypes, TypeOK
<1>st. stray' = [stray EXCEPT ![wallet[r]][leg[r]] = @ + 1] =>
         stray'[w][l] = IF Own THEN stray[w][l] + 1 ELSE stray[w][l]
  BY <1>t DEF FaucetTypes, TypeOK
<1> HIDE DEF Own
<1> USE DEF Slack, ghosts, outside
<1>1. CASE EnterLeg(r)
  <2>1. ~InFlight(r) /\ ~InFlight(r)'
    BY <1>1, <1>go, <1>end, <1>p DEF EnterLeg, Refuse, InFlight
  <2> QED  BY <1>1, <2>1, <1>c, <1>h, <1>f, <1>down, <1>same DEF EnterLeg
<1>2. CASE Look(r)
  <2>1. ~InFlight(r) /\ ~InFlight(r)'
    BY <1>2, <1>go, <1>p DEF Look, InFlight
  <2> QED  BY <1>2, <2>1, <1>c, <1>h, <1>f, <1>down, <1>same DEF Look
<1>3. CASE Confirm(r)
  <2>1. ~InFlight(r) /\ ~InFlight(r)'
    BY <1>3, <1>end DEF Confirm, InFlight
  <2>2. Held(w, l)' >= Held(w, l)
    BY <1>3, <1>set, <1>v, <1>h DEF Confirm
  <2> QED  BY <1>3, <2>1, <2>2, <1>c, <1>h, <1>f, <1>down DEF Confirm
<1>5. CASE ReadCap(r)
  <2>1. ~InFlight(r) /\ ~InFlight(r)'
    BY <1>5, <1>go, <1>end, <1>p DEF ReadCap, Refuse, InFlight
  <2> QED  BY <1>5, <2>1, <1>c, <1>h, <1>f, <1>down, <1>same DEF ReadCap
<1>6. CASE Claim(r)
  <2>1. ~InFlight(r)
    BY <1>6 DEF Claim, InFlight
  <2>2. CASE Refuse(r) /\ UNCHANGED account
    BY <1>6, <2>1, <2>2, <1>c, <1>h, <1>f, <1>end, <1>down, <1>same DEF Claim, Refuse
  <2>3. CASE account[wallet[r]][leg[r]].state = "absent" /\ SetLeg(r, Pending) /\ Goto(r, "recheck")
    <3>1. Held(w, l)' = IF Own THEN 1 ELSE Held(w, l)
      BY <2>3, <1>set, <1>v
    <3>2. Own => Held(w, l) = 0
      BY <2>3 DEF Own, Held
    <3>3. Flight(r, w, l)' = 1 => Own
      BY <2>3, <1>go, <1>p, <1>up
    <3> QED  BY <1>6, <2>1, <3>1, <3>2, <3>3, <1>c, <1>h, <1>f DEF Claim
  <2> QED  BY <1>6, <2>2, <2>3 DEF Claim
<1>7. CASE Recheck(r)
  <2>1. InFlight(r)
    BY <1>7 DEF Recheck, InFlight
  <2>2. CASE Goto(r, "queued") /\ UNCHANGED account
    <3>1. Flight(r, w, l)' <= Flight(r, w, l)
      BY <2>1, <2>2, <1>go, <1>p, <1>up, <1>f
    <3> QED  BY <1>7, <2>2, <3>1, <1>c, <1>h, <1>f, <1>same DEF Recheck
  <2>3. CASE SetLeg(r, Absent) /\ Refuse(r)
    <3>1. Held(w, l)' = IF Own THEN 0 ELSE Held(w, l)
      BY <2>3, <1>set, <1>v
    <3>2. Flight(r, w, l)' = 0
      BY <2>3, <1>end, <1>down DEF Refuse
    <3> QED  BY <1>7, <2>1, <3>1, <3>2, <1>c, <1>h, <1>f DEF Recheck
  <2> QED  BY <1>7, <2>2, <2>3 DEF Recheck
<1>8. CASE Broadcast(r)
  <2>1. InFlight(r)
    BY <1>8 DEF Broadcast, InFlight
  <2>2. Flight(r, w, l)' <= Flight(r, w, l)
    BY <1>8, <2>1, <1>go, <1>p, <1>up, <1>f DEF Broadcast
  <2> QED  BY <1>8, <2>2, <1>c, <1>h, <1>f, <1>same DEF Broadcast
<1>10. CASE Record(r)
  <2>1. tx' = tx /\ pc'[r] = "receipt" /\ wallet'[r] = wallet[r] /\ leg'[r] = leg[r]
    BY <1>10, <1>go, <1>p DEF Record
  <2>2. Flight(r, w, l)' <= Flight(r, w, l)
    BY <1>10, <2>1, <1>up, <1>f DEF Record, InFlight
  <2>3. Held(w, l)' >= Held(w, l)
    BY <1>10, <1>set, <1>v, <1>h DEF Record
  <2> QED  BY <1>10, <2>2, <2>3, <1>c, <1>h, <1>f DEF Record
<1>9. CASE SendFails(r)
  <2>1. InFlight(r) /\ Flight(r, w, l)' = 0
    BY <1>9, <1>end, <1>down DEF SendFails, InFlight
  <2>2. Held(w, l)' = IF Own THEN 0 ELSE Held(w, l)
    BY <1>9, <1>set, <1>v DEF SendFails
  <2>3. CASE UNCHANGED <<stray, ghosts>>
    BY <1>9, <2>1, <2>2, <2>3, <1>c, <1>h, <1>f DEF SendFails
  <2>4. CASE /\ stray' = [stray EXCEPT ![wallet[r]][leg[r]] = @ + 1]
             /\ excused' = [excused EXCEPT ![wallet[r]][leg[r]] = @ + 1]
    <3>1. stray'[w][l] = (IF Own THEN stray[w][l] + 1 ELSE stray[w][l])
          /\ excused'[w][l] = (IF Own THEN excused[w][l] + 1 ELSE excused[w][l])
      BY <2>4, <1>st, <1>ex
    <3> QED  BY <1>9, <2>1, <2>2, <3>1, <1>c, <1>h, <1>f DEF SendFails
  <2> QED  BY <1>9, <2>3, <2>4 DEF SendFails
<1>11. CASE Receipt(r)
  <2>1. Flight(r, w, l)' = 0
    BY <1>11, <1>end, <1>down DEF Receipt, Refuse
  <2>2. CASE tx[r] = "landed" /\ SetLeg(r, Delivered)
    <3>1. Held(w, l)' >= Held(w, l)
      BY <2>2, <1>set, <1>v, <1>h
    <3> QED  BY <1>11, <2>1, <3>1, <1>c, <1>h, <1>f DEF Receipt
  <2>3. CASE tx[r] = "reverted" /\ SetLeg(r, Absent)
    <3>1. Held(w, l)' = IF Own THEN 0 ELSE Held(w, l)
      BY <2>3, <1>set, <1>v
    <3>2. InFlight(r)
      BY <1>11, <2>3 DEF Receipt, InFlight
    <3> QED  BY <1>11, <2>1, <3>1, <3>2, <1>c, <1>h, <1>f DEF Receipt
  <2> QED  BY <1>11, <2>2, <2>3 DEF Receipt
<1>12. CASE ReceiptLate(r)
  <2>1. InFlight(r) /\ Flight(r, w, l)' = 0
    BY <1>12, <1>end, <1>down DEF ReceiptLate, InFlight
  <2>2. stray'[w][l] = (IF Own THEN stray[w][l] + 1 ELSE stray[w][l])
    BY <1>12, <1>st DEF ReceiptLate
  <2>3. CASE UNCHANGED <<account, excused>>
    BY <1>12, <2>1, <2>2, <2>3, <1>c, <1>h, <1>f, <1>same DEF ReceiptLate
  <2>4. CASE /\ SetLeg(r, Absent)
             /\ excused' = [excused EXCEPT ![wallet[r]][leg[r]] = @ + 1]
    <3>1. /\ Held(w, l)' = IF Own THEN 0 ELSE Held(w, l)
          /\ excused'[w][l] = IF Own THEN excused[w][l] + 1 ELSE excused[w][l]
      BY <2>4, <1>set, <1>v, <1>ex
    <3> QED  BY <1>12, <2>1, <2>2, <3>1, <1>c, <1>h, <1>f DEF ReceiptLate
  <2> QED  BY <1>12, <2>3, <2>4 DEF ReceiptLate
<1>13. CASE LedgerFails(r)
  <2> DEFINE n == IF tx[r] = "pending" THEN 1 ELSE 0
  <2>1. Flight(r, w, l)' = 0 /\ n \in {0, 1} /\ (n = 1 => InFlight(r))
    BY <1>13, <1>end, <1>down DEF LedgerFails, InFlight
  <2>2. stray'[w][l] = (IF Own THEN stray[w][l] + n ELSE stray[w][l])
    <3>1. stray' = [stray EXCEPT ![wallet[r]][leg[r]] = @ + n]
      BY <1>13 DEF LedgerFails
    <3> HIDE DEF n
    <3> QED  BY <3>1, <1>stn
  <2>p. UNCHANGED paid
    BY <1>13 DEF LedgerFails
  <2>3. CASE UNCHANGED <<account, excused>>
    <3> HIDE DEF n
    <3> QED  BY <2>p, <2>1, <2>2, <2>3, <1>c, <1>h, <1>f, <1>same
  <2>4. CASE /\ SetLeg(r, Absent)
             /\ excused' = [excused EXCEPT ![wallet[r]][leg[r]] = @ + 1]
    <3>1. /\ Held(w, l)' = IF Own THEN 0 ELSE Held(w, l)
          /\ excused'[w][l] = IF Own THEN excused[w][l] + 1 ELSE excused[w][l]
      BY <2>4, <1>set, <1>v, <1>ex
    <3> HIDE DEF n
    <3> QED  BY <2>p, <2>1, <2>2, <3>1, <1>c, <1>h, <1>f
  <2> QED  BY <1>13, <2>3, <2>4 DEF LedgerFails
<1>14. CASE Mined(r)
  <2>1. InFlight(r) /\ pc[r] \in {"record", "receipt"}
    BY <1>14, <1>x DEF Mined, InFlight
  <2>2. pc'[r] = pc[r] /\ wallet'[r] = wallet[r] /\ leg'[r] = leg[r] /\ UNCHANGED account
    BY <1>14 DEF Mined
  <2>3. CASE tx' = [tx EXCEPT ![r] = "landed"] /\ Arrives(wallet[r], leg[r])
    <3>1. ~InFlight(r)'
      BY <2>1, <2>2, <2>3, <1>t DEF InFlight, FaucetTypes, TypeOK
    <3>2. paid'[w][l] = IF Own THEN paid[w][l] + 1 ELSE paid[w][l]
      BY <2>3, <1>t DEF Arrives, Own, FaucetTypes, TypeOK
    <3> QED  BY <1>14, <2>1, <2>2, <3>1, <3>2, <1>c, <1>h, <1>f, <1>down, <1>same DEF Mined
  <2>4. CASE UNCHANGED <<ether, paid>>
    <3>1. Flight(r, w, l)' <= Flight(r, w, l)
      BY <2>1, <2>2, <1>up, <1>f
    <3> QED  BY <1>14, <2>2, <2>4, <3>1, <1>c, <1>h, <1>f, <1>same DEF Mined
  <2> QED  BY <1>14, <2>3, <2>4 DEF Mined
<1>4. CASE Release(r)
  <2>1. ~InFlight(r) /\ ~InFlight(r)'
    BY <1>4, <1>go, <1>p DEF Release, InFlight
  <2>2. Held(w, l)' = IF Own THEN 0 ELSE Held(w, l)
    BY <1>4, <1>set, <1>v DEF Release
  <2>3. CASE ~Own
    <3>1. excused'[w][l] = excused[w][l]
      BY <1>4, <2>3, <1>ex DEF Release
    <3> QED  BY <1>4, <2>1, <2>2, <2>3, <3>1, <1>c, <1>h, <1>f, <1>down DEF Release
  <2>4. CASE Own /\ InDoubt(w, l)
    <3>1. excused'[w][l] = excused[w][l] + 1
      BY <1>4, <2>4, <1>ex DEF Release, Own
    <3> QED  BY <1>4, <2>1, <2>2, <2>4, <3>1, <1>c, <1>h, <1>f, <1>down DEF Release
  <2>5. CASE Own /\ ~InDoubt(w, l)
    <3>1. paid[w][l] = 0 /\ stray[w][l] = 0
      BY <2>5, <1>c DEF InDoubt
    <3>2. ASSUME NEW q \in Requests PROVE ~Flies(q, w, l)'
      <4>1. CASE q = r
        BY <4>1, <2>1 DEF Flies
      <4>2. CASE q # r
        <5>1. ~Flies(q, w, l)
          BY <2>5 DEF InDoubt, Flies, InFlight
        <5> QED  BY <4>2, <5>1, <1>m DEF Moves, Sends, Flies, InFlight
      <4> QED  BY <4>1, <4>2
    <3>3. Cardinality(Flying(w, l)') = 0
      <4>1. Flying(w, l)' = {}
        BY <3>2 DEF Flying
      <4> QED  BY <4>1, FS_EmptySet
    <3> QED  BY <1>4, <3>1, <3>3, <1>c, <1>h DEF Release, Covered, Owes
  <2> QED  BY <2>3, <2>4, <2>5
<1> QED  BY <1>1, <1>2, <1>3, <1>4, <1>5, <1>6, <1>7, <1>8, <1>9, <1>10, <1>11, <1>12, <1>13, <1>14
         DEF Step

LEMMA OthersCovered ==
  ASSUME FaucetInv,
         \/ \E r \in Requests, w \in Wallets : Arrive(r, w)
         \/ \E w \in Wallets : OwnBusiness(w) \/ \E l \in Legs : MinedStray(w, l)
         \/ Tick \/ Crash
  PROVE  FaucetInv'
<1>t. FaucetTypes /\ FaucetTypes'
  BY OthersKeepTypes DEF FaucetInv
<1> SUFFICES ASSUME NEW w \in Wallets, NEW l \in Legs PROVE Covered(w, l)'
  BY <1>t DEF FaucetInv
<1>c. /\ Covered(w, l) /\ Cardinality(Flying(w, l)) \in Nat
      /\ paid[w][l] \in Nat /\ stray[w][l] \in Nat /\ excused[w][l] \in Nat
  BY <1>t, CountTypes DEF FaucetInv
<1>h. Held(w, l) \in {0, 1}
  BY DEF Held
<1>1. ASSUME NEW r \in Requests, NEW v \in Wallets, Arrive(r, v) PROVE Covered(w, l)'
  <2>1. \A q \in Requests : Flies(q, w, l)' <=> Flies(q, w, l)
    BY <1>1, <1>t DEF Arrive, Flies, InFlight, FaucetTypes, TypeOK
  <2>2. Flying(w, l)' = Flying(w, l)
    BY <2>1 DEF Flying
  <2> QED  BY <1>1, <1>c, <2>2 DEF Arrive, Covered, Owes, Held, outside, ghosts
<1>2. ASSUME NEW v \in Wallets, OwnBusiness(v) PROVE Covered(w, l)'
  <2>1. Flying(w, l)' = Flying(w, l)
    BY <1>2 DEF OwnBusiness, requests, Flying, Flies, InFlight
  <2> QED  BY <1>2, <1>c, <2>1 DEF OwnBusiness, Covered, Owes, Held, ghosts
<1>3. ASSUME NEW v \in Wallets, NEW m \in Legs, MinedStray(v, m) PROVE Covered(w, l)'
  <2>1. Flying(w, l)' = Flying(w, l)
    BY <1>3 DEF MinedStray, requests, Flying, Flies, InFlight
  <2>2. stray'[w][l] = IF w = v /\ l = m THEN stray[w][l] - 1 ELSE stray[w][l]
    BY <1>3, <1>t DEF MinedStray, FaucetTypes, TypeOK
  <2>3. paid'[w][l] \in {paid[w][l], IF w = v /\ l = m THEN paid[w][l] + 1 ELSE paid[w][l]}
    BY <1>3, <1>t DEF MinedStray, Arrives, FaucetTypes, TypeOK
  <2>4. Held(w, l)' = Held(w, l) /\ excused'[w][l] = excused[w][l]
    BY <1>3 DEF MinedStray, Held, ghosts
  <2> QED  BY <1>c, <1>h, <2>1, <2>2, <2>3, <2>4 DEF Covered, Owes
<1>4. CASE Tick
  <2>1. Flying(w, l)' = Flying(w, l)
    BY <1>4 DEF Tick, Flying, Flies, InFlight
  <2>2. account'[w][l].state = account[w][l].state
    <3>1. account'[w][l] = Older(account[w][l])
      BY <1>4 DEF Tick, OlderDocument
    <3>2. account[w][l] \in Document
      BY <1>t, Constants DEF FaucetTypes, TypeOK
    <3> QED  BY <3>1, <3>2 DEF Older, Document
  <2> QED  BY <1>4, <1>c, <2>1, <2>2 DEF Tick, Covered, Owes, Held, outside, ghosts
<1>5. CASE Crash
  <2> DEFINE P == {r \in Requests : tx[r] = "pending" /\ wallet[r] = w /\ leg[r] = l}
  <2>1. P \subseteq Flying(w, l)
    BY <1>t DEF Flying, Flies, InFlight, FaucetTypes, Serving
  <2>2. Cardinality(P) \in Nat /\ Cardinality(P) <= Cardinality(Flying(w, l))
    <3>1. IsFiniteSet(Flying(w, l))
      BY FS_Subset, FaucetAssumptions DEF Flying
    <3> QED  BY <2>1, <3>1, FS_Subset, FS_CardinalityType
  <2>3. Cardinality(Flying(w, l)') = 0
    <3>1. Flying(w, l)' = {}
      BY <1>5 DEF Crash, Flying, Flies, InFlight
    <3> QED  BY <3>1, FS_EmptySet
  <2>4. stray'[w][l] = stray[w][l] + Cardinality(P)
    BY <1>5 DEF Crash
  <2>5. paid'[w][l] = paid[w][l] /\ excused'[w][l] = excused[w][l] /\ Held(w, l)' = Held(w, l)
    BY <1>5 DEF Crash, Held
  <2> HIDE DEF P
  <2> QED  BY <1>c, <1>h, <2>2, <2>3, <2>4, <2>5 DEF Covered, Owes
<1> QED  BY <1>1, <1>2, <1>3, <1>4, <1>5

LEMMA InitCovered == Init => FaucetInv
<1> SUFFICES ASSUME Init PROVE FaucetInv
  OBVIOUS
<1>1. FaucetTypes
  BY InitTypes
<1> SUFFICES ASSUME NEW w \in Wallets, NEW l \in Legs PROVE Covered(w, l)
  BY <1>1 DEF FaucetInv
<1>2. Flying(w, l) = {}
  BY DEF Init, Flying, Flies, InFlight
<1>3. Cardinality(Flying(w, l)) = 0
  BY <1>2, FS_EmptySet
<1> QED  BY <1>3 DEF Init, Covered, Owes, Held, Absent

LEMMA NextCovered == FaucetInv /\ [Next]_vars => FaucetInv'
<1> SUFFICES ASSUME FaucetInv, [Next]_vars PROVE FaucetInv'
  OBVIOUS
<1>1. CASE UNCHANGED vars
  BY <1>1 DEF vars, FaucetInv, FaucetTypes, TypeOK, Serving, Covered, Owes, Held, Flying, Flies, InFlight
<1> QED  BY <1>1, StepCovered, OthersCovered DEF Next

\* PaidOncePerClaim of Faucet: no leg of a wallet is paid more often than once and once
\* for each claim that was given up while its payment could land.
THEOREM PaidForEachClaim == Spec => []PaidOncePerClaim
<1>1. FaucetInv => PaidOncePerClaim
  <2> SUFFICES ASSUME FaucetInv, NEW w \in Wallets, NEW l \in Legs
               PROVE  paid[w][l] <= 1 + excused[w][l]
    BY DEF PaidOncePerClaim
  <2>1. Covered(w, l) /\ Held(w, l) \in {0, 1}
    BY DEF FaucetInv, Held
  <2> QED  BY <2>1, CountTypes DEF FaucetInv, Covered, Owes
<1> QED  BY <1>1, InitCovered, NextCovered, PTL DEF Spec
----------------------------------------------------------------------------
\* The cap.  A wallet is beyond its excuses for a leg when what it was paid, what may
\* still land and what was sent on under a checked claim exceed the claims given up.  It
\* gets there only by reading the total again under its claim, and then the claims in the
\* ledger, its own and those of every other wallet beyond its excuses, are within the cap.
Sent(r) == pc[r] = "queued" \/ (pc[r] \in {"record", "receipt"} /\ tx[r] # "landed")
SentFor(r, w, l) == wallet[r] = w /\ leg[r] = l /\ Sent(r)
Sending(w, l) == {r \in Requests : SentFor(r, w, l)}
Spends(w, l) == paid[w][l] + stray[w][l] + Cardinality(Sending(w, l))
Spent(l) == {w \in Wallets : Spends(w, l) > excused[w][l]}

CapInv ==
    /\ FaucetInv
    /\ \A l \in Legs : Cardinality(Spent(l)) <= Cap[l]

Single(r, w, l) == IF SentFor(r, w, l) THEN 1 ELSE 0
Burden(r, w, l) == paid[w][l] + stray[w][l] + Single(r, w, l) - excused[w][l]

LEMMA SpendTypes ==
  ASSUME FaucetTypes, NEW w \in Wallets, NEW l \in Legs
  PROVE  /\ Spends(w, l) \in Nat /\ excused[w][l] \in Nat
         /\ IsFiniteSet(Sending(w, l)) /\ Cardinality(Sending(w, l)) \in Nat
<1>1. IsFiniteSet(Sending(w, l))
  BY FS_Subset, FaucetAssumptions DEF Sending
<1> QED  BY <1>1, CountTypes, FS_CardinalityType DEF Spends

\* What a wallet spends is within what it owes: it holds a claim, or has excuses for all.
LEMMA SpentAreHeld ==
  ASSUME FaucetInv, NEW l \in Legs
  PROVE  \A w \in Spent(l) : account[w][l].state # "absent"
<1> SUFFICES ASSUME NEW w \in Wallets, Spends(w, l) > excused[w][l]
             PROVE  account[w][l].state # "absent"
  BY DEF Spent
<1>t. FaucetTypes
  BY DEF FaucetInv
<1>1. Sending(w, l) \subseteq Flying(w, l) /\ IsFiniteSet(Flying(w, l))
  BY FS_Subset, FaucetAssumptions DEF Sending, Flying, SentFor, Flies, Sent, InFlight
<1>2. Cardinality(Sending(w, l)) <= Cardinality(Flying(w, l))
  BY <1>1, FS_Subset
<1>3. Covered(w, l)
  BY DEF FaucetInv
<1> QED  BY <1>t, <1>2, <1>3, CountTypes, SpendTypes DEF Covered, Owes, Spends, Held

LEMMA SpentFinite ==
  ASSUME NEW l PROVE IsFiniteSet(Spent(l)) /\ Cardinality(Spent(l)) \in Nat
  BY FS_Subset, FS_CardinalityType, FaucetAssumptions DEF Spent

\* A step after which no wallet of a leg is newly beyond its excuses keeps the cap.
LEMMA NoneJoins ==
  ASSUME NEW l \in Legs, Spent(l)' \subseteq Spent(l), Cardinality(Spent(l)) <= Cap[l]
  PROVE  Cardinality(Spent(l)') <= Cap[l]
<1>1. Cardinality(Spent(l)') <= Cardinality(Spent(l)) /\ IsFiniteSet(Spent(l)')
  BY SpentFinite, FS_Subset
<1>2. Cardinality(Spent(l)') \in Nat
  BY <1>1, FS_CardinalityType
<1> QED  BY <1>1, <1>2, SpentFinite, FaucetAssumptions

\* A request is counted apart from the others.
LEMMA SendingApart ==
  ASSUME NEW r \in Requests, NEW w, NEW l
  PROVE  /\ Cardinality(Sending(w, l) \ {r}) \in Nat
         /\ Cardinality(Sending(w, l)) = Cardinality(Sending(w, l) \ {r}) + Single(r, w, l)
<1>1. IsFiniteSet(Sending(w, l))
  BY FS_Subset, FaucetAssumptions DEF Sending
<1>2. r \in Sending(w, l) <=> SentFor(r, w, l)
  BY DEF Sending
<1>3. IsFiniteSet(Sending(w, l) \ {r}) /\ Cardinality(Sending(w, l)) \in Nat
      /\ Cardinality(Sending(w, l) \ {r}) \in Nat
  BY <1>1, FS_RemoveElement, FS_CardinalityType
<1>4. Cardinality(Sending(w, l) \ {r}) =
        IF r \in Sending(w, l) THEN Cardinality(Sending(w, l)) - 1 ELSE Cardinality(Sending(w, l))
  BY <1>1, FS_RemoveElement
<1> QED  BY <1>2, <1>3, <1>4 DEF Single

LEMMA OneBurden ==
  ASSUME FaucetTypes, FaucetTypes', NEW r \in Requests, Moves(r), Sends(r),
         NEW w \in Wallets, NEW l \in Legs, Burden(r, w, l)' <= Burden(r, w, l),
         Spends(w, l)' > excused'[w][l]
  PROVE  Spends(w, l) > excused[w][l]
<1>1. Sending(w, l)' \ {r} = Sending(w, l) \ {r}
  <2>1. \A q \in Requests \ {r} : SentFor(q, w, l)' <=> SentFor(q, w, l)
    BY DEF Moves, Sends, SentFor, Sent
  <2> QED BY <2>1 DEF Sending
<1> DEFINE n == Cardinality(Sending(w, l) \ {r})
<1>2. n \in Nat /\ Cardinality(Sending(w, l)) = n + Single(r, w, l)
  BY SendingApart
<1>3. Cardinality(Sending(w, l)') = n + Single(r, w, l)'
  <2>1. IsFiniteSet(Sending(w, l)')
    BY FS_Subset, FaucetAssumptions DEF Sending
  <2>2. r \in Sending(w, l)' <=> SentFor(r, w, l)'
    BY DEF Sending
  <2>3. Cardinality(Sending(w, l)' \ {r}) =
        IF r \in Sending(w, l)' THEN Cardinality(Sending(w, l)') - 1 ELSE Cardinality(Sending(w, l)')
    BY <2>1, FS_RemoveElement
  <2>4. Cardinality(Sending(w, l)') \in Nat
    BY <2>1, FS_CardinalityType
  <2>5. Cardinality(Sending(w, l)' \ {r}) = n
    BY <1>1
  <2> HIDE DEF n
  <2>6. CASE SentFor(r, w, l)'
    BY <2>2, <2>3, <2>4, <2>5, <2>6 DEF Single
  <2>7. CASE ~SentFor(r, w, l)'
    BY <2>2, <2>3, <2>4, <2>5, <2>7 DEF Single
  <2> QED  BY <2>6, <2>7
<1>4. paid[w][l] \in Nat /\ stray[w][l] \in Nat /\ excused[w][l] \in Nat
  BY CountTypes
<1>5. paid'[w][l] \in Nat /\ stray'[w][l] \in Nat /\ excused'[w][l] \in Nat
  BY DEF FaucetTypes, TypeOK
<1>6. Single(r, w, l) \in {0, 1} /\ Single(r, w, l)' \in {0, 1}
  BY DEF Single
<1>7. paid'[w][l] + stray'[w][l] + Cardinality(Sending(w, l)') > excused'[w][l]
  BY DEF Spends
<1> HIDE DEF n
<1>8. paid[w][l] + stray[w][l] + Cardinality(Sending(w, l)) > excused[w][l]
  BY <1>2, <1>3, <1>4, <1>5, <1>6, <1>7 DEF Burden
<1> QED  BY <1>8 DEF Spends

\* No step of a request but the second reading of the cap puts a wallet beyond its excuses.
LEMMA StepBurden ==
  ASSUME FaucetInv, NEW r \in Requests, Step(r) \/ ReceiptLate(r) \/ LedgerFails(r) \/ Mined(r),
         FaucetTypes', Moves(r), Sends(r), NEW w \in Wallets, NEW l \in Legs
  PROVE  \/ Burden(r, w, l)' <= Burden(r, w, l)
         \/ Recheck(r) /\ LedgerTotal(leg[r]) <= Cap[leg[r]] /\ leg[r] = l /\ wallet[r] = w
              /\ UNCHANGED account
<1>t. FaucetTypes
  BY DEF FaucetInv
<1> DEFINE Own == wallet[r] = w /\ leg[r] = l
<1>x. tx[r] # "none" <=> pc[r] \in {"record", "receipt"}
  BY <1>t DEF FaucetTypes, Serving
<1>c. /\ paid[w][l] \in Nat /\ stray[w][l] \in Nat /\ excused[w][l] \in Nat
      /\ paid'[w][l] \in Nat /\ stray'[w][l] \in Nat /\ excused'[w][l] \in Nat
  BY <1>t DEF FaucetTypes, TypeOK
<1>f. /\ Single(r, w, l) = IF Own /\ Sent(r) THEN 1 ELSE 0
      /\ Single(r, w, l) \in {0, 1} /\ Single(r, w, l)' \in {0, 1}
  BY DEF Single, SentFor
<1>down. ~Sent(r)' => Single(r, w, l)' = 0
  BY DEF Single, SentFor
<1>up. wallet'[r] = wallet[r] /\ leg'[r] = leg[r] =>
         Single(r, w, l)' = IF Own /\ Sent(r)' THEN 1 ELSE 0
  BY DEF Single, SentFor
<1>go. ASSUME NEW p \in Places, Goto(r, p)
       PROVE  pc'[r] = p /\ wallet'[r] = wallet[r] /\ leg'[r] = leg[r]
  BY <1>t, <1>go, GotoMoves
<1>end. Finish(r) \/ NextLeg(r) => ~Sent(r)'
  BY <1>t, FinishMoves, NextMoves DEF Sent
<1>p. {"cap", "look", "release", "confirm", "claim", "recheck", "queued", "record", "receipt"}
        \subseteq Places
  BY DEF Places
<1>ex. ASSUME excused' = [excused EXCEPT ![wallet[r]][leg[r]] = @ + 1]
       PROVE  excused'[w][l] = IF Own THEN excused[w][l] + 1 ELSE excused[w][l]
  BY <1>ex, <1>t DEF FaucetTypes, TypeOK
<1>stn. ASSUME NEW n, stray' = [stray EXCEPT ![wallet[r]][leg[r]] = @ + n]
        PROVE  stray'[w][l] = IF Own THEN stray[w][l] + n ELSE stray[w][l]
  BY <1>stn, <1>t DEF FaucetTypes, TypeOK
<1>st. stray' = [stray EXCEPT ![wallet[r]][leg[r]] = @ + 1] =>
         stray'[w][l] = IF Own THEN stray[w][l] + 1 ELSE stray[w][l]
  BY <1>t DEF FaucetTypes, TypeOK
<1>own. Own <=> wallet[r] = w /\ leg[r] = l
  OBVIOUS
<1> HIDE DEF Own
<1> USE DEF Burden, ghosts, outside
<1>1. CASE EnterLeg(r) \/ Look(r) \/ Confirm(r) \/ ReadCap(r) \/ Claim(r)
  <2>1. ~Sent(r)'
    BY <1>1, <1>go, <1>end, <1>p DEF EnterLeg, Look, Confirm, ReadCap, Claim, Refuse, Sent
  <2>2. UNCHANGED <<paid, stray, excused>>
    BY <1>1 DEF EnterLeg, Look, Confirm, ReadCap, Claim
  <2> QED  BY <2>1, <2>2, <1>c, <1>f, <1>down
<1>4. CASE Release(r)
  <2>1. ~Sent(r)' /\ UNCHANGED <<paid, stray>>
    BY <1>4, <1>go, <1>p DEF Release, Sent
  <2>2. excused'[w][l] >= excused[w][l]
    BY <1>4, <1>ex, <1>c DEF Release
  <2> QED  BY <2>1, <2>2, <1>c, <1>f, <1>down
<1>7. CASE Recheck(r)
  <2>1. ~Sent(r) /\ UNCHANGED <<paid, stray, excused>>
    BY <1>7 DEF Recheck, Sent
  <2>2. CASE LedgerTotal(leg[r]) <= Cap[leg[r]] /\ Goto(r, "queued") /\ UNCHANGED account
    <3>1. CASE Own
      BY <1>7, <2>2, <3>1, <1>own
    <3>2. CASE ~Own
      BY <2>1, <2>2, <3>2, <1>c, <1>f, <1>up, <1>go, <1>p
    <3> QED  BY <3>1, <3>2
  <2>3. CASE Refuse(r)
    BY <2>1, <2>3, <1>c, <1>f, <1>end, <1>down DEF Refuse
  <2> QED  BY <1>7, <2>2, <2>3 DEF Recheck
<1>8. CASE Broadcast(r)
  <2>1. Sent(r) /\ UNCHANGED <<paid, stray, excused>>
    BY <1>8 DEF Broadcast, Sent
  <2>2. wallet'[r] = wallet[r] /\ leg'[r] = leg[r]
    BY <1>8, <1>go, <1>p DEF Broadcast
  <2> QED  BY <2>1, <2>2, <1>c, <1>f, <1>up
<1>9. CASE SendFails(r)
  <2>1. Sent(r) /\ Single(r, w, l)' = 0 /\ UNCHANGED paid
    BY <1>9, <1>end, <1>down DEF SendFails, Sent
  <2>3. CASE UNCHANGED <<stray, ghosts>>
    BY <2>1, <2>3, <1>c, <1>f
  <2>4. CASE /\ stray' = [stray EXCEPT ![wallet[r]][leg[r]] = @ + 1]
             /\ excused' = [excused EXCEPT ![wallet[r]][leg[r]] = @ + 1]
    BY <2>1, <2>4, <1>st, <1>ex, <1>c, <1>f
  <2> QED  BY <1>9, <2>3, <2>4 DEF SendFails
<1>10. CASE Record(r)
  <2>1. tx' = tx /\ pc'[r] = "receipt" /\ wallet'[r] = wallet[r] /\ leg'[r] = leg[r]
        /\ UNCHANGED <<paid, stray, excused>>
    BY <1>10, <1>go, <1>p DEF Record
  <2>2. Single(r, w, l)' <= Single(r, w, l)
    BY <1>10, <2>1, <1>up, <1>f DEF Record, Sent
  <2> QED  BY <2>1, <2>2, <1>c, <1>f
<1>11. CASE Receipt(r)
  <2>1. Single(r, w, l)' = 0 /\ UNCHANGED <<paid, stray, excused>>
    BY <1>11, <1>end, <1>down DEF Receipt, Refuse
  <2> QED  BY <2>1, <1>c, <1>f
<1>12. CASE ReceiptLate(r)
  <2>1. Sent(r) /\ Single(r, w, l)' = 0 /\ UNCHANGED paid
    BY <1>12, <1>end, <1>down DEF ReceiptLate, Sent
  <2>2. stray'[w][l] = (IF Own THEN stray[w][l] + 1 ELSE stray[w][l])
    BY <1>12, <1>st DEF ReceiptLate
  <2>3. excused'[w][l] >= excused[w][l]
    BY <1>12, <1>ex, <1>c DEF ReceiptLate
  <2> QED  BY <2>1, <2>2, <2>3, <1>c, <1>f
<1>13. CASE LedgerFails(r)
  <2> DEFINE n == IF tx[r] = "pending" THEN 1 ELSE 0
  <2>1. Single(r, w, l)' = 0 /\ n \in {0, 1} /\ (n = 1 => Sent(r)) /\ UNCHANGED paid
    BY <1>13, <1>end, <1>down DEF LedgerFails, Sent
  <2>2. stray'[w][l] = (IF Own THEN stray[w][l] + n ELSE stray[w][l])
    <3>1. stray' = [stray EXCEPT ![wallet[r]][leg[r]] = @ + n]
      BY <1>13 DEF LedgerFails
    <3> HIDE DEF n
    <3> QED  BY <3>1, <1>stn
  <2>3. excused'[w][l] >= excused[w][l]
    BY <1>13, <1>ex, <1>c DEF LedgerFails
  <2> HIDE DEF n
  <2> QED  BY <2>1, <2>2, <2>3, <1>c, <1>f
<1>14. CASE Mined(r)
  <2>1. Sent(r) /\ pc[r] \in {"record", "receipt"}
    BY <1>14, <1>x DEF Mined, Sent
  <2>2. pc'[r] = pc[r] /\ wallet'[r] = wallet[r] /\ leg'[r] = leg[r] /\ UNCHANGED <<stray, excused>>
    BY <1>14 DEF Mined
  <2>3. CASE tx' = [tx EXCEPT ![r] = "landed"] /\ Arrives(wallet[r], leg[r])
    <3>1. ~Sent(r)'
      BY <2>1, <2>2, <2>3, <1>t DEF Sent, FaucetTypes, TypeOK
    <3>2. paid'[w][l] = IF Own THEN paid[w][l] + 1 ELSE paid[w][l]
      BY <2>3, <1>t DEF Arrives, Own, FaucetTypes, TypeOK
    <3> QED  BY <2>1, <2>2, <3>1, <3>2, <1>c, <1>f, <1>down
  <2>4. CASE UNCHANGED <<ether, paid>>
    <3>1. Single(r, w, l)' <= Single(r, w, l)
      BY <2>1, <2>2, <1>up, <1>f
    <3> QED  BY <2>2, <2>4, <3>1, <1>c, <1>f
  <2> QED  BY <1>14, <2>3, <2>4 DEF Mined
<1> QED  BY <1>1, <1>4, <1>7, <1>8, <1>9, <1>10, <1>11, <1>12, <1>13, <1>14 DEF Step

\* The claims the ledger counts, wallet by wallet.
Claimed(l) == {w \in Wallets : account[w][l].state # "absent"}
SpentWithinClaims == \A l \in Legs : Spent(l) \subseteq Claimed(l)

LEMMA WithinClaims == FaucetInv => SpentWithinClaims
  BY SpentAreHeld DEF SpentWithinClaims, Claimed, Spent

LEMMA StepCap ==
  ASSUME CapInv, NEW r \in Requests, Step(r) \/ ReceiptLate(r) \/ LedgerFails(r) \/ Mined(r),
         FaucetInv'
  PROVE  CapInv'
<1>t. FaucetInv /\ FaucetTypes /\ FaucetTypes'
  BY DEF CapInv, FaucetInv
<1>m. Moves(r) /\ Sends(r)
  BY <1>t, StepMoves DEF Steps
<1> SUFFICES ASSUME NEW l \in Legs PROVE Cardinality(Spent(l)') <= Cap[l]
  BY DEF CapInv
<1>c. Cardinality(Spent(l)) <= Cap[l]
  BY DEF CapInv
<1>1. CASE \A w \in Wallets : Burden(r, w, l)' <= Burden(r, w, l)
  <2>1. Spent(l)' \subseteq Spent(l)
    <3> SUFFICES ASSUME NEW w \in Wallets, Spends(w, l)' > excused'[w][l]
                 PROVE  Spends(w, l) > excused[w][l]
      BY DEF Spent
    <3> QED  BY <1>1, <1>t, <1>m, OneBurden
  <2> QED  BY <2>1, <1>c, NoneJoins
<1>2. CASE LedgerTotal(l) <= Cap[l] /\ UNCHANGED account
  <2>1. Spent(l)' \subseteq Claimed(l)'
    <3>1. SpentWithinClaims'
      BY <1>t, WithinClaims, PTL
    <3> QED  BY <3>1 DEF SpentWithinClaims
  <2>2. Claimed(l)' = Claimed(l) /\ Cardinality(Claimed(l)) = LedgerTotal(l)
    BY <1>2 DEF Claimed, LedgerTotal
  <2>3. IsFiniteSet(Claimed(l)) /\ Cardinality(Claimed(l)) \in Nat
    BY FS_Subset, FS_CardinalityType, FaucetAssumptions DEF Claimed
  <2>4. /\ IsFiniteSet(Spent(l)') /\ Cardinality(Spent(l)') \in Nat
        /\ Cardinality(Spent(l)') <= Cardinality(Claimed(l))
    BY <2>1, <2>2, <2>3, FS_Subset, FS_CardinalityType
  <2> QED  BY <2>2, <2>3, <2>4, <1>2, FaucetAssumptions
<1> QED  BY <1>1, <1>2, <1>t, <1>m, StepBurden

LEMMA OthersCap ==
  ASSUME CapInv, FaucetInv',
         \/ \E r \in Requests, w \in Wallets : Arrive(r, w)
         \/ \E w \in Wallets : OwnBusiness(w) \/ \E l \in Legs : MinedStray(w, l)
         \/ Tick \/ Crash
  PROVE  CapInv'
<1>t. FaucetInv /\ FaucetTypes /\ FaucetTypes'
  BY DEF CapInv, FaucetInv
<1> SUFFICES ASSUME NEW l \in Legs, NEW w \in Wallets, Spends(w, l)' > excused'[w][l]
             PROVE  Spends(w, l) > excused[w][l]
  BY NoneJoins DEF CapInv, Spent
<1>c. /\ Cardinality(Sending(w, l)) \in Nat
      /\ paid[w][l] \in Nat /\ stray[w][l] \in Nat /\ excused[w][l] \in Nat
  BY <1>t, CountTypes, SpendTypes
<1>1. ASSUME NEW r \in Requests, NEW v \in Wallets, Arrive(r, v)
      PROVE  Spends(w, l) > excused[w][l]
  <2>1. \A q \in Requests : SentFor(q, w, l)' <=> SentFor(q, w, l)
    BY <1>1, <1>t DEF Arrive, SentFor, Sent, FaucetTypes, TypeOK
  <2>2. Sending(w, l)' = Sending(w, l)
    BY <2>1 DEF Sending
  <2> QED  BY <1>1, <2>2 DEF Arrive, Spends, outside, ghosts
<1>2. ASSUME NEW v \in Wallets, OwnBusiness(v) PROVE Spends(w, l) > excused[w][l]
  <2>1. Sending(w, l)' = Sending(w, l)
    BY <1>2 DEF OwnBusiness, requests, Sending, SentFor, Sent
  <2> QED  BY <1>2, <2>1 DEF OwnBusiness, Spends, ghosts
<1>3. ASSUME NEW v \in Wallets, NEW m \in Legs, MinedStray(v, m)
      PROVE  Spends(w, l) > excused[w][l]
  <2>1. Sending(w, l)' = Sending(w, l)
    BY <1>3 DEF MinedStray, requests, Sending, SentFor, Sent
  <2>2. stray'[w][l] = IF w = v /\ l = m THEN stray[w][l] - 1 ELSE stray[w][l]
    BY <1>3, <1>t DEF MinedStray, FaucetTypes, TypeOK
  <2>3. paid'[w][l] \in {paid[w][l], IF w = v /\ l = m THEN paid[w][l] + 1 ELSE paid[w][l]}
    BY <1>3, <1>t DEF MinedStray, Arrives, FaucetTypes, TypeOK
  <2>4. excused'[w][l] = excused[w][l]
    BY <1>3 DEF MinedStray, ghosts
  <2> QED  BY <1>c, <2>1, <2>2, <2>3, <2>4 DEF Spends
<1>4. CASE Tick
  <2>1. Sending(w, l)' = Sending(w, l)
    BY <1>4 DEF Tick, Sending, SentFor, Sent
  <2> QED  BY <1>4, <2>1 DEF Tick, Spends, outside, ghosts
<1>5. CASE Crash
  <2> DEFINE P == {r \in Requests : tx[r] = "pending" /\ wallet[r] = w /\ leg[r] = l}
  <2>1. P \subseteq Sending(w, l)
    BY <1>t DEF Sending, SentFor, Sent, FaucetTypes, Serving
  <2>2. Cardinality(P) \in Nat /\ Cardinality(P) <= Cardinality(Sending(w, l))
    <3>1. IsFiniteSet(Sending(w, l))
      BY <1>t, SpendTypes
    <3> QED  BY <2>1, <3>1, FS_Subset, FS_CardinalityType
  <2>3. Cardinality(Sending(w, l)') = 0
    <3>1. Sending(w, l)' = {}
      BY <1>5 DEF Crash, Sending, SentFor, Sent
    <3> QED  BY <3>1, FS_EmptySet
  <2>4. stray'[w][l] = stray[w][l] + Cardinality(P)
    BY <1>5 DEF Crash
  <2>5. paid'[w][l] = paid[w][l] /\ excused'[w][l] = excused[w][l]
    BY <1>5 DEF Crash
  <2> HIDE DEF P
  <2> QED  BY <1>c, <2>2, <2>3, <2>4, <2>5 DEF Spends
<1> QED  BY <1>1, <1>2, <1>3, <1>4, <1>5

LEMMA InitCap == Init => CapInv
<1> SUFFICES ASSUME Init PROVE CapInv
  OBVIOUS
<1>1. FaucetInv
  BY InitCovered
<1> SUFFICES ASSUME NEW l \in Legs PROVE Cardinality(Spent(l)) <= Cap[l]
  BY <1>1 DEF CapInv
<1>2. Spent(l) = {}
  <2> SUFFICES ASSUME NEW w \in Wallets PROVE ~(Spends(w, l) > excused[w][l])
    BY DEF Spent
  <2>1. Sending(w, l) = {}
    BY DEF Init, Sending, SentFor, Sent
  <2>2. Cardinality(Sending(w, l)) = 0
    BY <2>1, FS_EmptySet
  <2> QED  BY <2>2 DEF Init, Spends
<1> QED  BY <1>2, FS_EmptySet, FaucetAssumptions

LEMMA NextCap == CapInv /\ [Next]_vars => CapInv'
<1> SUFFICES ASSUME CapInv, [Next]_vars PROVE CapInv'
  OBVIOUS
<1>1. FaucetInv'
  BY NextCovered DEF CapInv
<1>2. CASE UNCHANGED vars
  BY <1>1, <1>2 DEF vars, CapInv, Spent, Spends, Sending, SentFor, Sent
<1> QED  BY <1>1, <1>2, StepCap, OthersCap DEF Next

\* CapHolds of Faucet: whoever races for the last drip, the faucet pays no more in all
\* than its cap, and once more for each claim given up while its payment could land.
THEOREM CapNeverPassed == Spec => []CapHolds
<1>1. CapInv => CapHolds
  <2> SUFFICES ASSUME CapInv, NEW l \in Legs
               PROVE  SumFunction([w \in Wallets |-> paid[w][l]])
                        <= Cap[l] + SumFunction([w \in Wallets |-> excused[w][l]])
    BY DEF CapHolds
  <2> DEFINE f == [w \in Wallets |-> paid[w][l]]
             g == [w \in Wallets |-> excused[w][l]]
             Over == {w \in Wallets : f[w] > g[w]}
  <2>t. FaucetInv /\ FaucetTypes
    BY DEF CapInv, FaucetInv
  <2>1. \A w \in Wallets : f[w] \in Int /\ g[w] \in Int /\ f[w] <= g[w] + 1
    <3> SUFFICES ASSUME NEW w \in Wallets PROVE paid[w][l] <= excused[w][l] + 1
      BY <2>t, CountTypes
    <3>1. Covered(w, l) /\ Held(w, l) \in {0, 1}
      BY <2>t DEF FaucetInv, Held
    <3> QED  BY <3>1, <2>t, CountTypes DEF Covered, Owes
  <2>2. Over \subseteq Spent(l)
    <3> SUFFICES ASSUME NEW w \in Wallets, paid[w][l] > excused[w][l]
                 PROVE  Spends(w, l) > excused[w][l]
      BY DEF Spent
    <3> QED  BY <2>t, CountTypes, SpendTypes DEF Spends
  <2>3. Cardinality(Over) <= Cap[l] /\ Cardinality(Over) \in Nat /\ Cap[l] \in Nat
    <3>1. Cardinality(Over) <= Cardinality(Spent(l)) /\ IsFiniteSet(Over)
      BY <2>2, SpentFinite, FS_Subset
    <3>2. Cardinality(Over) \in Nat /\ Cardinality(Spent(l)) <= Cap[l]
      BY <3>1, FS_CardinalityType DEF CapInv
    <3> HIDE DEF Over
    <3> QED  BY <3>1, <3>2, SpentFinite, FaucetAssumptions
  <2>4. DOMAIN f = Wallets /\ DOMAIN g = Wallets
    OBVIOUS
  <2>5. /\ SumFunctionOnSet(f, Wallets) \in Int /\ SumFunctionOnSet(g, Wallets) \in Int
        /\ SumFunctionOnSet(f, Wallets) <= SumFunctionOnSet(g, Wallets) + Cardinality(Over)
    <3> HIDE DEF f, g
    <3> QED  BY <2>1, SumExcess, SumInt, FaucetAssumptions
  <2>6. SumFunction(f) <= Cap[l] + SumFunction(g)
    <3> HIDE DEF f, g, Over
    <3> QED  BY <2>3, <2>4, <2>5 DEF SumFunction
  <2> QED  BY <2>6
<1> QED  BY <1>1, InitCap, NextCap, PTL DEF Spec
=============================================================================

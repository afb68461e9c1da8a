------------------------------- MODULE Faucet -------------------------------
(***************************************************************************)
(* The onboarding faucet: one drip of ether and one of tokens per wallet   *)
(* (web/src/app/api/faucet/route.ts), paid by the project's wallet and     *)
(* claimed in a ledger of one document per wallet (web/src/lib/mongo.ts).  *)
(*                                                                         *)
(* A request reads the wallet's document once and works from that copy.    *)
(* Every await is a step: other requests, the chain, a crash of the        *)
(* process and a receipt that does not come run in between.  A ledger or   *)
(* RPC call takes no time on the scale of the clock; waiting for a turn of *)
(* the sponsor's nonce and for a receipt does.                             *)
(***************************************************************************)
EXTENDS Integers, FiniteSets, FiniteSetsExt

CONSTANTS
    Wallets,
    Requests,        \* requests running at once
    Nobody,          \* the wallet of a request that is not running
    Cap,             \* leg -> payments the faucet makes in all
    StaleClaim,      \* STALE_CLAIM: a pending claim older than this is debris
    ReceiptTimeout,  \* RECEIPT_TIMEOUT: how long a receipt is waited for
    QueueDelay,      \* how long a send may wait in serialized
    MaxFaults        \* bound: crashes, late receipts and lost answers

Legs == {"dripped", "funded"}

ASSUME FaucetAssumptions ==
    /\ Nobody \notin Wallets
    /\ Cap \in [Legs -> Nat]
    /\ StaleClaim \in Nat /\ ReceiptTimeout \in Nat /\ QueueDelay \in Nat
    /\ MaxFaults \in Nat
    /\ IsFiniteSet(Wallets) /\ IsFiniteSet(Requests)

VARIABLES
    account,  \* the ledger: what each wallet's document says of each leg
    pc,       \* the await each request is at
    wallet,   \* whom it serves
    leg,      \* the leg it is in
    copy,     \* the document as it read it
    waited,   \* how long it has been in the queue or waiting for the receipt
    tx,       \* its broadcast transaction
    stray,    \* broadcast transactions nobody waits for
    ether,    \* the wallet holds a drip's worth of ether
    faults,   \* faults so far
    paid,     \* ghost: payments that landed
    excused   \* ghost: claims given up while their payment could still land

ledger == <<account>>
requests == <<pc, wallet, leg, copy, waited, tx>>
outside == <<stray, ether, paid>>
ghosts == <<faults, excused>>
vars == <<account, pc, wallet, leg, copy, waited, tx, stray, ether, faults,
          paid, excused>>

\* A leg of a document; age is now minus at, as far as STALE_CLAIM tells apart.
Ages == 0..(StaleClaim + 1)
Absent == [state |-> "absent", age |-> 0]
Pending == [state |-> "pending", age |-> 0]
Delivered == [state |-> "delivered", age |-> 0]
Documents == [Legs -> [state : {"absent", "pending", "delivered"}, age : Ages]]

Places == {"idle", "leg", "look", "confirm", "release", "cap", "claim", "recheck",
           "queued", "record", "receipt"}

Init ==
    /\ account = [w \in Wallets |-> [l \in Legs |-> Absent]]
    /\ pc = [r \in Requests |-> "idle"]
    /\ wallet = [r \in Requests |-> Nobody]
    /\ leg = [r \in Requests |-> "dripped"]
    /\ copy = [r \in Requests |-> [l \in Legs |-> Absent]]
    /\ waited = [r \in Requests |-> 0]
    /\ tx = [r \in Requests |-> "none"]
    /\ stray = [w \in Wallets |-> [l \in Legs |-> 0]]
    /\ ether = [w \in Wallets |-> FALSE]
    /\ faults = 0
    /\ paid = [w \in Wallets |-> [l \in Legs |-> 0]]
    /\ excused = [w \in Wallets |-> [l \in Legs |-> 0]]

----------------------------------------------------------------------------
\* The ledger.

SetLeg(r, value) == account' = [account EXCEPT ![wallet[r]][leg[r]] = value]

\* drippedTotal, fundedTotal: every claim counts, confirmed or not.
LedgerTotal(l) == Cardinality({w \in Wallets : account[w][l].state # "absent"})

\* STALE_CLAIM, judged on the copy the request read.
Abandoned(d) == d.state = "pending" /\ d.age > StaleClaim

\* A claim taken away now may stand for a payment that can still land, or did.
InDoubt(w, l) ==
    \/ stray[w][l] > 0
    \/ \E r \in Requests : wallet[r] = w /\ leg[r] = l
                           /\ pc[r] \in {"recheck", "queued", "record", "receipt"}
    \/ paid[w][l] > 0

----------------------------------------------------------------------------
\* Moving a request.

Goto(r, place) ==
    /\ pc' = [pc EXCEPT ![r] = place]
    /\ UNCHANGED <<wallet, leg, copy>>

Finish(r) ==
    /\ pc' = [pc EXCEPT ![r] = "idle"]
    /\ wallet' = [wallet EXCEPT ![r] = Nobody]
    /\ leg' = [leg EXCEPT ![r] = "dripped"]
    /\ copy' = [copy EXCEPT ![r] = [l \in Legs |-> Absent]]

\* After the ether, the tokens; after the tokens, the answer.
NextLeg(r) ==
    IF leg[r] = "dripped"
    THEN /\ pc' = [pc EXCEPT ![r] = "leg"]
         /\ leg' = [leg EXCEPT ![r] = "funded"]
         /\ UNCHANGED <<wallet, copy>>
    ELSE Finish(r)

\* A leg that cannot be paid: the drip refuses the request, the tokens are best
\* effort.
Refuse(r) == Finish(r)

Arrive(r, w) ==
    /\ pc[r] = "idle"
    /\ \E l \in Legs : account[w][l].state # "delivered"
    /\ pc' = [pc EXCEPT ![r] = "leg"]
    /\ wallet' = [wallet EXCEPT ![r] = w]
    /\ leg' = [leg EXCEPT ![r] = "dripped"]
    /\ copy' = [copy EXCEPT ![r] = account[w]]
    /\ UNCHANGED <<account, waited, tx, outside, ghosts>>

----------------------------------------------------------------------------
\* What to do about a leg.

EnterLeg(r) ==
    LET d == copy[r][leg[r]]
    IN /\ pc[r] = "leg"
       /\ \/ d.state = "absent" /\ Goto(r, "cap")
          \/ d.state = "delivered" /\ NextLeg(r)
          \/ d.state = "pending" /\ ~Abandoned(d) /\ Refuse(r)
          \/ Abandoned(d) /\ Goto(r, IF leg[r] = "dripped" THEN "look" ELSE "release")
       /\ UNCHANGED <<account, waited, tx, outside, ghosts>>

\* The chain is believed over the ledger: the wallet holds a drip, or it does not.
Look(r) ==
    /\ pc[r] = "look"
    /\ Goto(r, IF ether[wallet[r]] THEN "confirm" ELSE "release")
    /\ UNCHANGED <<account, waited, tx, outside, ghosts>>

Confirm(r) ==
    /\ pc[r] = "confirm"
    /\ SetLeg(r, Delivered)
    /\ NextLeg(r)
    /\ UNCHANGED <<waited, tx, outside, ghosts>>

\* Mutant of Release: an abandoned claim is left where it is.
ReleaseNothing(r) ==
    /\ pc[r] = "release"
    /\ Goto(r, "cap")
    /\ UNCHANGED <<account, waited, tx, outside, ghosts>>

\* releaseDrip, releaseFunding: whatever claim is there now.
Release(r) ==
    /\ pc[r] = "release"
    /\ SetLeg(r, Absent)
    /\ excused' = IF InDoubt(wallet[r], leg[r])
                  THEN [excused EXCEPT ![wallet[r]][leg[r]] = @ + 1] ELSE excused
    /\ Goto(r, "cap")
    /\ UNCHANGED <<waited, tx, outside, faults>>

\* The cap as the ledger has it, and the sponsor's balance, which may be short.
ReadCap(r) ==
    /\ pc[r] = "cap"
    /\ \/ LedgerTotal(leg[r]) + 1 <= Cap[leg[r]] /\ Goto(r, "claim")
       \/ Refuse(r)
    /\ UNCHANGED <<account, waited, tx, outside, ghosts>>

\* Mutant of Claim: the update is not conditional on the leg being absent.
ClaimOver(r) ==
    /\ pc[r] = "claim"
    /\ SetLeg(r, Pending)
    /\ Goto(r, "recheck")
    /\ UNCHANGED <<waited, tx, outside, ghosts>>

\* claimDrip, claimFunding: only one request turns an absent leg into a claim.
Claim(r) ==
    /\ pc[r] = "claim"
    /\ \/ /\ account[wallet[r]][leg[r]].state = "absent"
          /\ SetLeg(r, Pending)
          /\ Goto(r, "recheck")
       \/ /\ account[wallet[r]][leg[r]].state # "absent"
          /\ Refuse(r)
          /\ UNCHANGED account
    /\ UNCHANGED <<waited, tx, outside, ghosts>>

\* Mutant of Recheck: the cap is not read again under the claim.
RecheckNothing(r) ==
    /\ pc[r] = "recheck"
    /\ Goto(r, "queued")
    /\ UNCHANGED <<account, waited, tx, outside, ghosts>>

\* Read again under the claim, or two wallets could both have passed.
Recheck(r) ==
    /\ pc[r] = "recheck"
    /\ \/ /\ LedgerTotal(leg[r]) <= Cap[leg[r]]
          /\ Goto(r, "queued")
          /\ UNCHANGED account
       \/ /\ LedgerTotal(leg[r]) > Cap[leg[r]]
          /\ SetLeg(r, Absent)
          /\ Refuse(r)
    /\ UNCHANGED <<waited, tx, outside, ghosts>>

----------------------------------------------------------------------------
\* Paying.

\* Its turn came and the node took the transaction.
Broadcast(r) ==
    /\ pc[r] = "queued"
    /\ tx' = [tx EXCEPT ![r] = "pending"]
    /\ waited' = [waited EXCEPT ![r] = 0]
    /\ Goto(r, IF leg[r] = "dripped" THEN "record" ELSE "receipt")
    /\ UNCHANGED <<account, outside, ghosts>>

\* The submission threw.  Either nothing was sent, or the answer was lost.
SendFails(r) ==
    /\ pc[r] = "queued"
    /\ \/ UNCHANGED <<stray, ghosts>>
       \/ /\ faults < MaxFaults
          /\ faults' = faults + 1
          /\ stray' = [stray EXCEPT ![wallet[r]][leg[r]] = @ + 1]
          /\ excused' = [excused EXCEPT ![wallet[r]][leg[r]] = @ + 1]
    /\ waited' = [waited EXCEPT ![r] = 0]
    /\ SetLeg(r, Absent)
    /\ Finish(r)
    /\ UNCHANGED <<tx, ether, paid>>

\* The hash goes into the claim before the wait, which starts its age again.
Record(r) ==
    /\ pc[r] = "record"
    /\ SetLeg(r, Pending)
    /\ Goto(r, "receipt")
    /\ UNCHANGED <<waited, tx, outside, ghosts>>

\* The receipt, and how it says the transaction went.
Receipt(r) ==
    /\ pc[r] = "receipt" /\ tx[r] # "pending"
    /\ tx' = [tx EXCEPT ![r] = "none"]
    /\ waited' = [waited EXCEPT ![r] = 0]
    /\ \/ tx[r] = "landed" /\ SetLeg(r, Delivered) /\ NextLeg(r)
       \/ tx[r] = "reverted" /\ SetLeg(r, Absent) /\ Refuse(r)
    /\ UNCHANGED <<outside, ghosts>>

\* A ledger write fails after the broadcast.  The drip's handler takes it for a
\* send that failed; the tokens keep the claim they had.
LedgerFails(r) ==
    /\ faults < MaxFaults
    /\ \/ pc[r] = "record"
       \/ pc[r] = "receipt" /\ tx[r] = "landed"
    /\ faults' = faults + 1
    /\ stray' = [stray EXCEPT ![wallet[r]][leg[r]] = @ + IF tx[r] = "pending" THEN 1 ELSE 0]
    /\ IF leg[r] = "dripped"
       THEN /\ SetLeg(r, Absent)
            /\ excused' = [excused EXCEPT ![wallet[r]][leg[r]] = @ + 1]
       ELSE UNCHANGED <<account, excused>>
    /\ tx' = [tx EXCEPT ![r] = "none"]
    /\ waited' = [waited EXCEPT ![r] = 0]
    /\ Finish(r)
    /\ UNCHANGED <<ether, paid>>

\* No receipt in time.  The drip keeps its claim, the tokens release theirs.
ReceiptLate(r) ==
    /\ pc[r] = "receipt" /\ tx[r] = "pending"
    /\ faults < MaxFaults
    /\ faults' = faults + 1
    /\ tx' = [tx EXCEPT ![r] = "none"]
    /\ waited' = [waited EXCEPT ![r] = 0]
    /\ stray' = [stray EXCEPT ![wallet[r]][leg[r]] = @ + 1]
    /\ \/ leg[r] = "dripped" /\ UNCHANGED <<account, excused>>
       \/ /\ leg[r] = "funded"
          /\ SetLeg(r, Absent)
          /\ excused' = [excused EXCEPT ![wallet[r]][leg[r]] = @ + 1]
    /\ Finish(r)
    /\ UNCHANGED <<ether, paid>>

----------------------------------------------------------------------------
\* The chain, the clock and the process.

Arrives(w, l) ==
    /\ paid' = [paid EXCEPT ![w][l] = @ + 1]
    /\ ether' = IF l = "dripped" THEN [ether EXCEPT ![w] = TRUE] ELSE ether

Mined(r) ==
    /\ tx[r] = "pending"
    /\ \/ tx' = [tx EXCEPT ![r] = "landed"] /\ Arrives(wallet[r], leg[r])
       \/ tx' = [tx EXCEPT ![r] = "reverted"] /\ UNCHANGED <<ether, paid>>
    /\ UNCHANGED <<account, pc, wallet, leg, copy, waited, stray, ghosts>>

\* A transaction nobody waits for lands, or is dropped.
MinedStray(w, l) ==
    /\ stray[w][l] > 0
    /\ stray' = [stray EXCEPT ![w][l] = @ - 1]
    /\ \/ Arrives(w, l)
       \/ UNCHANGED <<ether, paid>>
    /\ UNCHANGED <<account, requests, ghosts>>

\* The wallet spends the drip, or gets as much from somewhere else.
OwnBusiness(w) ==
    /\ ether' = [ether EXCEPT ![w] = ~@]
    /\ UNCHANGED <<account, requests, stray, paid, ghosts>>

Older(d) == [d EXCEPT !.age = IF d.state = "pending" THEN Min({@ + 1, StaleClaim + 1}) ELSE @]
OlderDocument(doc) == [l \in Legs |-> Older(doc[l])]

\* How long a request may hold up: a turn of the nonce, and a receipt.
Deadline(r) ==
    \/ pc[r] = "queued" /\ waited[r] < QueueDelay
    \/ pc[r] = "receipt" /\ waited[r] < ReceiptTimeout

\* Waiting requests get older; no other step takes time.
Tick ==
    /\ \A r \in Requests : pc[r] = "idle" \/ Deadline(r)
    /\ waited' = [r \in Requests |-> IF pc[r] = "idle" THEN 0 ELSE waited[r] + 1]
    /\ account' = [w \in Wallets |-> OlderDocument(account[w])]
    /\ copy' = [r \in Requests |-> OlderDocument(copy[r])]
    /\ UNCHANGED <<pc, wallet, leg, tx, outside, ghosts>>

\* Every request dies; what was broadcast stays broadcast.
Crash ==
    /\ faults < MaxFaults
    /\ faults' = faults + 1
    /\ stray' = [w \in Wallets |-> [l \in Legs |-> stray[w][l] +
          Cardinality({r \in Requests : tx[r] = "pending" /\ wallet[r] = w /\ leg[r] = l})]]
    /\ pc' = [r \in Requests |-> "idle"]
    /\ wallet' = [r \in Requests |-> Nobody]
    /\ leg' = [r \in Requests |-> "dripped"]
    /\ copy' = [r \in Requests |-> [l \in Legs |-> Absent]]
    /\ waited' = [r \in Requests |-> 0]
    /\ tx' = [r \in Requests |-> "none"]
    /\ UNCHANGED <<account, ether, paid, excused>>

Step(r) ==
    \/ EnterLeg(r) \/ Look(r) \/ Confirm(r) \/ Release(r)
    \/ ReadCap(r) \/ Claim(r) \/ Recheck(r)
    \/ Broadcast(r) \/ SendFails(r) \/ Record(r) \/ Receipt(r)

Next ==
    \/ \E r \in Requests : Step(r) \/ ReceiptLate(r) \/ LedgerFails(r) \/ Mined(r)
    \/ \E r \in Requests, w \in Wallets : Arrive(r, w)
    \/ \E w \in Wallets : OwnBusiness(w) \/ \E l \in Legs : MinedStray(w, l)
    \/ Tick \/ Crash

\* A request goes on to its next await, and a transaction is mined.
Fairness == \A r \in Requests : WF_vars(Step(r)) /\ WF_vars(Mined(r))

Spec == Init /\ [][Next]_vars
FairSpec == Spec /\ Fairness
----------------------------------------------------------------------------
\* Properties.

\* Every variable keeps its type.
TypeOK ==
    /\ account \in [Wallets -> Documents]
    /\ pc \in [Requests -> Places]
    /\ wallet \in [Requests -> Wallets \cup {Nobody}]
    /\ leg \in [Requests -> Legs]
    /\ copy \in [Requests -> Documents]
    /\ waited \in [Requests -> 0..Max({QueueDelay, ReceiptTimeout})]
    /\ tx \in [Requests -> {"none", "pending", "landed", "reverted"}]
    /\ stray \in [Wallets -> [Legs -> Nat]]
    /\ ether \in [Wallets -> BOOLEAN]
    /\ faults \in 0..MaxFaults
    /\ paid \in [Wallets -> [Legs -> Nat]]
    /\ excused \in [Wallets -> [Legs -> Nat]]

\* No leg of a wallet is paid twice, but for a claim that was given up while its
\* payment could still land or had landed (claimDrip, claimFunding).
PaidOncePerClaim ==
    \A w \in Wallets, l \in Legs : paid[w][l] <= 1 + excused[w][l]

\* Nor does the faucet pay out more than its cap, whoever races for the last
\* drip (the cap read again under the claim).
CapHolds ==
    \A l \in Legs : SumFunction([w \in Wallets |-> paid[w][l]])
                       <= Cap[l] + SumFunction([w \in Wallets |-> excused[w][l]])

\* Two requests for a wallet cannot both pay it.
PaidOnce == \A w \in Wallets, l \in Legs : paid[w][l] <= 1

\* Time goes on while a claim can get older; ages stop at the oldest that matters,
\* and Tick with them.
NothingAges ==
    \A w \in Wallets, l \in Legs :
        account[w][l].state = "pending" => Abandoned(account[w][l])
TimePasses == []<><<Tick>>_vars \/ []<>NothingAges
KeepsAsking(w) == []<><<\E r \in Requests : Arrive(r, w)>>_vars

\* A claim whose request died does not wedge its wallet: as long as time passes
\* and the wallet keeps asking, the drip's claim is confirmed or given up, and so
\* is the tokens' once the drip is delivered: a wallet whose drip keeps failing
\* never gets as far (abandoned, and the order of the two legs in drip).
NotWedged ==
    \A w \in Wallets : TimePasses /\ KeepsAsking(w) =>
        /\ []<>(account[w]["dripped"].state # "pending")
        /\ []<>(\/ account[w]["funded"].state # "pending"
               \/ account[w]["dripped"].state # "delivered")
=============================================================================

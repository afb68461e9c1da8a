-------------------------------- MODULE Rail --------------------------------
(***************************************************************************)
(* The private transfer rail: the vault that holds the tokens              *)
(* (rail/contracts/RewallTestVault.sol), the SQLite ledger that says who   *)
(* owns them (rail/src/db.ts), the indexer that moves vault events into    *)
(* the ledger (rail/src/indexer.ts) and the endpoints that move balances   *)
(* and issue withdraw tickets (rail/src/server.ts).                        *)
(*                                                                         *)
(* The server is one event loop.  A step is one SQLite statement, which is *)
(* what a crash falls between; a synchronous stretch of code holds the     *)
(* loop (job, or a phase that is not waiting for the RPC), so no handler   *)
(* runs inside it.  Blocks, reorganisations and the clock never wait.      *)
(***************************************************************************)
EXTENDS Integers, FiniteSets, FiniteSetsExt, SequencesExt

CONSTANTS
    Accounts,
    Amounts,        \* amounts a transfer or a withdrawal may move
    DepositTxs,     \* deposit transactions users sent
    DepositOf,      \* [account, amount] of each
    Confirmations,  \* CONFIRMATIONS: blocks on top before a log is read
    Chunk,          \* CHUNK: blocks one getLogs covers
    StartBlock,     \* RAIL_START_BLOCK, or Unset
    Unset,
    TicketTTL,      \* TICKET_TTL_SECONDS
    MaxTickets,     \* bound: tickets issued
    MaxHeight,      \* bound: blocks mined
    MaxTime,        \* bound: the clock
    MaxCrashes      \* bound: restarts of the process

ASSUME RailAssumptions ==
    /\ IsFiniteSet(Accounts) /\ IsFiniteSet(DepositTxs)
    /\ Amounts \subseteq Nat \ {0}
    /\ DepositOf \in [DepositTxs -> [account : Accounts, amount : Amounts]]
    /\ Confirmations \in Nat /\ Chunk \in Nat \ {0}
    /\ StartBlock \in Nat \ {0} \/ StartBlock = Unset
    /\ Unset \notin Int
    /\ TicketTTL \in Nat /\ MaxTickets \in Nat
    /\ MaxHeight \in Nat /\ MaxTime \in Nat /\ MaxCrashes \in Nat

VARIABLES
    chain,     \* blocks: a timestamp and at most one vault log each
    peak,      \* greatest height the chain has had
    now,       \* wall clock
    balance,   \* balances, in SQLite
    seen,      \* seen_logs, in SQLite
    tickets,   \* tickets, in SQLite, indexed by nonce
    cursor,    \* cursor.last_block, in SQLite
    job,       \* the statement a synchronous stretch runs next
    scan,      \* the indexer's tick
    crashed,   \* ghost: the statements a crash skipped, in order
    orphaned,  \* ghost: tokens withdrawn whose Withdraw log found no ticket
    credited   \* ghost: the deposits whose credit has run

chainVars == <<chain, peak>>
database == <<balance, seen, tickets, cursor>>
process == <<job, scan>>
ghosts == <<crashed, orphaned, credited>>
vars == <<chain, peak, now, balance, seen, tickets, cursor, job, scan,
          crashed, orphaned, credited>>

----------------------------------------------------------------------------
\* The vault's logs.  A log's key is its transaction, the same wherever a
\* reorganisation puts it.
Deposit(d) == [event |-> "Deposit", id |-> d]
Withdrawal(n) == [event |-> "Withdraw", id |-> n]
NoLog == [event |-> "none", id |-> 0]

Logs == {Deposit(d) : d \in DepositTxs} \cup {Withdrawal(n) : n \in 1..MaxTickets}
Blocks == [time : 0..MaxTime, log : Logs \cup {NoLog}]

LogsIn(from, to) == {chain[h].log : h \in (from..to) \cap DOMAIN chain} \ {NoLog}
OnChain == LogsIn(1, Len(chain))

OfEvent(event, logs) == {e \in logs : e.event = event}

Who(e) == IF e.event = "Deposit" THEN DepositOf[e.id].account
                                 ELSE tickets[e.id].account
Amount(e) == IF e.event = "Deposit" THEN DepositOf[e.id].amount
                                    ELSE tickets[e.id].amount
Total(logs) == SumFunction([e \in logs |-> Amount(e)])

\* Tokens the vault holds.
Custody == Total(OfEvent("Deposit", OnChain)) - Total(OfEvent("Withdraw", OnChain))

----------------------------------------------------------------------------
Phases == {"idle", "deposits", "crediting", "withdrawals", "settling", "refund"}
Idle == [phase |-> "idle", to |-> 0, safe |-> 0, logs |-> {}, expired |-> {}]

NoJob == [kind |-> "none"]
CreditJob(kind, log, account, amount) ==
    [kind |-> kind, log |-> log, account |-> account, amount |-> amount]
MarkJob(n) == [kind |-> "mark", nonce |-> n]

\* Waiting for the RPC, or between ticks: the loop runs other handlers.
Free == job = NoJob /\ scan.phase \in {"idle", "deposits", "withdrawals"}

Tickets == [account : Accounts, amount : Amounts, deadline : Nat, settled : BOOLEAN]

Init ==
    /\ chain = <<>> /\ peak = 0 /\ now = 0
    /\ balance = [a \in Accounts |-> 0]
    /\ seen = {} /\ tickets = <<>>
    /\ cursor = Unset
    /\ job = NoJob /\ scan = Idle
    /\ crashed = <<>> /\ orphaned = 0 /\ credited = {}

----------------------------------------------------------------------------
\* The chain.

Mine(log) ==
    /\ Len(chain) < MaxHeight
    /\ chain' = Append(chain, [time |-> now, log |-> log])
    /\ peak' = Max({peak, Len(chain) + 1})
    /\ UNCHANGED <<now, database, process, ghosts>>

\* A deposit is mined, for the first time or again after a reorganisation.
MineDeposit(d) == Deposit(d) \notin OnChain /\ Mine(Deposit(d))

\* withdrawWithTicket: unexpired, unused, and the vault holds the tokens.  The
\* holder may also never redeem, or never have received the response.
MineWithdrawal(n) ==
    /\ now <= tickets[n].deadline
    /\ Withdrawal(n) \notin OnChain
    /\ tickets[n].amount <= Custody
    /\ Mine(Withdrawal(n))

MineNothing == Mine(NoLog)

\* A reorganisation drops the last block, never one that had CONFIRMATIONS on
\* top of it.
Reorganise ==
    /\ Len(chain) > 0 /\ Len(chain) > peak - Confirmations
    /\ chain' = Front(chain)
    /\ UNCHANGED <<peak, now, database, process, ghosts>>

Clock ==
    /\ now < MaxTime
    /\ now' = now + 1
    /\ UNCHANGED <<chainVars, database, process, ghosts>>

----------------------------------------------------------------------------
\* The endpoints.  The policy check before each is an eth_call: a denial, an
\* insufficient balance or a bad signature refuses and changes nothing.

\* Mutant of Debit: the balance read before the policy call is trusted after it.
DebitUnchecked(a, amount) == balance' = [balance EXCEPT ![a] = @ - amount]

\* db.debit reads the balance again after that call, and throws if it is short.
Debit(a, amount) ==
    /\ balance[a] >= amount
    /\ balance' = [balance EXCEPT ![a] = @ - amount]

Transfer(sender, recipient, amount) ==
    /\ Free
    /\ Debit(sender, amount)
    /\ job' = CreditJob("transfer", NoLog, recipient, amount)
    /\ UNCHANGED <<chainVars, now, seen, tickets, cursor, scan, ghosts>>

Withdraw(a, amount) ==
    /\ Free
    /\ Len(tickets) < MaxTickets
    /\ Debit(a, amount)
    /\ job' = CreditJob("ticket", NoLog, a, amount)
    /\ UNCHANGED <<chainVars, now, seen, tickets, cursor, scan, ghosts>>

IssueTicket ==
    /\ job.kind = "ticket"
    /\ tickets' = Append(tickets, [account |-> job.account, amount |-> job.amount,
                                   deadline |-> now + TicketTTL, settled |-> FALSE])
    /\ job' = NoJob
    /\ UNCHANGED <<chainVars, now, balance, seen, cursor, scan, ghosts>>

----------------------------------------------------------------------------
\* The indexer's tick.

Expired == {n \in DOMAIN tickets : ~tickets[n].settled /\ tickets[n].deadline < now}

\* Mutants of NextRange: one leaves a last single block, one never sweeps.
NextRangeShort(last, safe) ==
    IF last + 1 < safe
    THEN [Idle EXCEPT !.phase = "deposits", !.safe = safe, !.to = Min({last + Chunk, safe})]
    ELSE [Idle EXCEPT !.phase = "refund", !.expired = Expired]
NextRangeNoSweep(last, safe) ==
    IF last < safe
    THEN [Idle EXCEPT !.phase = "deposits", !.safe = safe, !.to = Min({last + Chunk, safe})]
    ELSE Idle

\* The next chunk below safe, or the sweep once there is none.
NextRange(last, safe) ==
    IF last < safe
    THEN [Idle EXCEPT !.phase = "deposits", !.safe = safe, !.to = Min({last + Chunk, safe})]
    ELSE [Idle EXCEPT !.phase = "refund", !.expired = Expired]

\* Mutant of StartTick: the head is read without CONFIRMATIONS.
StartTickAtHead ==
    /\ Free /\ scan.phase = "idle"
    /\ cursor' = IF cursor = Unset THEN StartBlock - 1 ELSE cursor
    /\ scan' = NextRange(cursor', Len(chain))
    /\ UNCHANGED <<chainVars, now, balance, seen, tickets, job, ghosts>>

StartTick ==
    /\ Free /\ scan.phase = "idle"
    /\ LET safe == Len(chain) - Confirmations
           from == IF StartBlock = Unset THEN safe ELSE StartBlock
       IN /\ cursor' = IF cursor = Unset THEN from - 1 ELSE cursor
          /\ scan' = NextRange(cursor', safe)
    /\ UNCHANGED <<chainVars, now, balance, seen, tickets, job, ghosts>>

\* getLogs, once for Deposit and once for Withdraw.
Fetch(waiting, next, event) ==
    /\ Free /\ scan.phase = waiting
    /\ scan' = [scan EXCEPT !.phase = next,
                            !.logs = OfEvent(event, LogsIn(cursor + 1, scan.to))]
    /\ UNCHANGED <<chainVars, now, database, job, ghosts>>

FetchDeposits == Fetch("deposits", "crediting", "Deposit")
FetchWithdrawals == Fetch("withdrawals", "settling", "Withdraw")

\* Mutant of ClaimLog: a replayed log is applied again.
ClaimLogAgain(e) ==
    /\ job = NoJob /\ scan.phase \in {"crediting", "settling"}
    /\ scan' = [scan EXCEPT !.logs = @ \ {e}]
    /\ seen' = seen \cup {e}
    /\ job' = CreditJob(IF e.event = "Deposit" THEN "credit" ELSE "settle", e,
                        Who(e), Amount(e))
    /\ UNCHANGED <<chainVars, now, balance, tickets, cursor, ghosts>>

\* claimLog: a log applied by an earlier pass over the range is skipped.
ClaimLog(e) ==
    /\ job = NoJob /\ scan.phase \in {"crediting", "settling"}
    /\ scan' = [scan EXCEPT !.logs = @ \ {e}]
    /\ seen' = seen \cup {e}
    /\ job' = IF e \in seen THEN NoJob
              ELSE CreditJob(IF e.event = "Deposit" THEN "credit" ELSE "settle", e,
                             Who(e), Amount(e))
    /\ UNCHANGED <<chainVars, now, balance, tickets, cursor, ghosts>>

\* credit, of a deposit or at the end of a transfer.
Credit ==
    /\ job.kind \in {"credit", "transfer"}
    /\ balance' = [balance EXCEPT ![job.account] = @ + job.amount]
    /\ credited' = credited \cup {d \in DepositTxs : Deposit(d) = job.log}
    /\ job' = NoJob
    /\ UNCHANGED <<chainVars, now, seen, tickets, cursor, scan, crashed, orphaned>>

\* settleTicket: any open ticket of that account and amount.  The log does not
\* say which one it redeemed.
Matching == {n \in DOMAIN tickets : ~tickets[n].settled
                                    /\ tickets[n].account = job.account
                                    /\ tickets[n].amount = job.amount}

Settle ==
    /\ job.kind = "settle"
    /\ \/ \E n \in Matching :
             /\ tickets' = [tickets EXCEPT ![n].settled = TRUE]
             /\ UNCHANGED orphaned
       \/ /\ Matching = {}
          /\ orphaned' = orphaned + job.amount
          /\ UNCHANGED tickets
    /\ job' = NoJob
    /\ UNCHANGED <<chainVars, now, balance, seen, cursor, scan, crashed, credited>>

DepositsDone ==
    /\ job = NoJob /\ scan.phase = "crediting" /\ scan.logs = {}
    /\ scan' = [scan EXCEPT !.phase = "withdrawals"]
    /\ UNCHANGED <<chainVars, now, database, job, ghosts>>

\* Mutant of RangeDone: the cursor moves to the safe head after the first chunk.
RangeDoneAtSafe ==
    /\ job = NoJob /\ scan.phase = "settling" /\ scan.logs = {}
    /\ cursor' = scan.safe
    /\ scan' = NextRange(scan.safe, scan.safe)
    /\ UNCHANGED <<chainVars, now, balance, seen, tickets, job, ghosts>>

\* setCursor, then the next chunk or the sweep.
RangeDone ==
    /\ job = NoJob /\ scan.phase = "settling" /\ scan.logs = {}
    /\ cursor' = scan.to
    /\ scan' = NextRange(scan.to, scan.safe)
    /\ UNCHANGED <<chainVars, now, balance, seen, tickets, job, ghosts>>

\* refundExpiredTickets: credit, then mark, one row after another.
Refund(n) ==
    /\ job = NoJob /\ scan.phase = "refund"
    /\ scan' = [scan EXCEPT !.expired = @ \ {n}]
    /\ balance' = [balance EXCEPT ![tickets[n].account] = @ + tickets[n].amount]
    /\ job' = MarkJob(n)
    /\ UNCHANGED <<chainVars, now, seen, tickets, cursor, ghosts>>

MarkRefunded ==
    /\ job.kind = "mark"
    /\ tickets' = [tickets EXCEPT ![job.nonce].settled = TRUE]
    /\ job' = NoJob
    /\ UNCHANGED <<chainVars, now, balance, seen, cursor, scan, ghosts>>

EndTick ==
    /\ job = NoJob /\ scan.phase = "refund" /\ scan.expired = {}
    /\ scan' = Idle
    /\ UNCHANGED <<chainVars, now, database, job, ghosts>>

\* A getLogs that fails ends the tick: the range is read again from the cursor.
RpcFails ==
    /\ Free /\ scan.phase # "idle"
    /\ scan' = Idle
    /\ UNCHANGED <<chainVars, now, database, job, ghosts>>

\* The process dies between two statements and starts again on its database.
Crash ==
    /\ Len(crashed) < MaxCrashes
    /\ crashed' = Append(crashed, job.kind)
    /\ job' = NoJob /\ scan' = Idle
    /\ UNCHANGED <<chainVars, now, database, orphaned, credited>>

Tick ==
    \/ StartTick \/ FetchDeposits \/ FetchWithdrawals
    \/ \E e \in scan.logs : ClaimLog(e)
    \/ DepositsDone \/ RangeDone
    \/ \E n \in scan.expired : Refund(n)
    \/ EndTick

Statement == Credit \/ IssueTicket \/ Settle \/ MarkRefunded

Next ==
    \/ \E d \in DepositTxs : MineDeposit(d)
    \/ \E n \in DOMAIN tickets : MineWithdrawal(n)
    \/ MineNothing \/ Reorganise \/ Clock
    \/ \E a, b \in Accounts, x \in Amounts : Transfer(a, b, x)
    \/ \E a \in Accounts, x \in Amounts : Withdraw(a, x)
    \/ Tick \/ Statement \/ RpcFails \/ Crash

\* setInterval goes on ticking, the event loop comes back to the indexer between
\* requests however many there are, and the RPC answers now and again.  Nothing
\* is promised of blocks, users or redemptions.
Fairness ==
    /\ SF_vars(Tick) /\ WF_vars(Statement)
    /\ SF_vars(FetchDeposits) /\ SF_vars(FetchWithdrawals)

Spec == Init /\ [][Next]_vars
FairSpec == Spec /\ Fairness
----------------------------------------------------------------------------
\* Properties.

\* Every variable keeps its type.
TypeOK ==
    /\ chain \in Seq(Blocks) /\ Len(chain) <= MaxHeight
    /\ peak \in 0..MaxHeight /\ now \in 0..MaxTime
    /\ balance \in [Accounts -> Nat]
    /\ seen \subseteq Logs
    /\ tickets \in Seq(Tickets)
    /\ cursor \in Int \cup {Unset}
    /\ scan.phase \in Phases /\ scan.logs \subseteq Logs
    /\ scan.expired \subseteq DOMAIN tickets
    /\ orphaned \in Nat /\ credited \subseteq DepositTxs

\* What the ledger owes: balances, open tickets, and what the next statement of
\* a synchronous stretch has still to credit or to close.
Open == {n \in DOMAIN tickets : ~tickets[n].settled}
InFlight ==
    CASE job.kind \in {"credit", "transfer", "ticket"} -> job.amount
      [] job.kind = "settle" /\ Matching # {} -> -job.amount
      [] job.kind = "mark" -> -tickets[job.nonce].amount
      [] OTHER -> 0
Owed == SumFunction(balance) + SumFunction([n \in Open |-> tickets[n].amount]) + InFlight

Unread(event) == Total(OfEvent(event, OnChain) \ seen)
Orphans == orphaned + IF job.kind = "settle" /\ Matching = {} THEN job.amount ELSE 0

\* The ledger owes exactly what the vault holds, adjusted for the logs not read
\* yet, but for withdrawals whose ticket was closed first.  A crash that skipped
\* a credit or a ticket makes it owe less, and only one that skipped the mark
\* of a refund or the settling of a withdrawal lets it owe more.
Accounted ==
    LET gap == Owed + Unread("Deposit") - Custody - Unread("Withdraw") - Orphans
        skipped == Range(crashed) \ {"none"}
    IN /\ skipped = {} => gap = 0
       /\ skipped \cap {"settle", "mark"} = {} => gap <= 0

\* The cursor never passes a log the ledger has not applied, whatever the RPC,
\* reorganisations and restarts do in the middle of a range (setCursor).
NothingSkipped ==
    StartBlock # Unset /\ cursor # Unset => LogsIn(StartBlock, cursor) \subseteq seen

\* The ledger only ever applies logs the chain cannot lose (CONFIRMATIONS).
AppliedIsFinal == seen \subseteq LogsIn(1, peak - Confirmations)

\* The accounts' view: a statement that is still to run has been run.
Posted ==
    IF job.kind \in {"credit", "transfer"}
    THEN [balance EXCEPT ![job.account] = @ + job.amount] ELSE balance
View(t) == [account |-> t.account, amount |-> t.amount, open |-> ~t.settled]
Viewed == [n \in DOMAIN tickets |-> View(tickets[n])]
Issued ==
    CASE job.kind = "ticket" ->
           Append(Viewed, [account |-> job.account, amount |-> job.amount, open |-> TRUE])
      [] job.kind = "mark" -> [Viewed EXCEPT ![job.nonce].open = FALSE]
      [] OTHER -> Viewed

Ledger == INSTANCE Bank WITH
    MaxRestarts <- MaxCrashes, balance <- Posted, tickets <- Issued,
    credited <- {d \in DepositTxs : Deposit(d) \in seen}, restarts <- Len(crashed)

\* The ledger is a Bank: handlers, ticks, replays and reorganisations between its
\* statements show as whole operations, each at most once, and a restart undoes half
\* of no more than the one it interrupts.
KeepsBank == Ledger!Spec

\* A deposit that stays CONFIRMATIONS blocks deep is credited to its account in the
\* end, but for one whose claim (claimLog) and credit a restart fell between: that
\* credit no later pass over the range makes up for.
Confirmed(d) ==
    StartBlock # Unset /\ Deposit(d) \in LogsIn(StartBlock, Len(chain) - Confirmations)
DepositsArrive ==
    \A d \in DepositTxs : <>[]Confirmed(d) => <>(d \in credited \/ "credit" \in Range(crashed))

\* An expired ticket is settled or refunded in the end.
TicketsClose ==
    \A n \in 1..MaxTickets : (n \in Expired) ~> (n \notin Open)
=============================================================================

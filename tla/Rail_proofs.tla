------------------------------ MODULE Rail_proofs ------------------------------
(***************************************************************************)
(* Theorems about Rail, for every finite set of accounts and of deposits   *)
(* and every bound: its variables keep their types, it applies only logs   *)
(* the chain cannot lose and skips none, every statement of the ledger is  *)
(* an operation of the bank or none of it, and the books balance.          *)
(***************************************************************************)
EXTENDS Rail, SequenceTheorems, Sums, TLAPS

----------------------------------------------------------------------------
\* The type invariant, with what TypeOK leaves open: the records inside the
\* process, and that a nonce the code goes by is the nonce of a ticket.
Kinds == {"none", "credit", "settle", "transfer", "ticket", "mark"}
Moves == [kind : {"credit", "settle", "transfer", "ticket"}, log : Logs \cup {NoLog},
          account : Accounts, amount : Amounts]
Marks == [kind : {"mark"}, nonce : 1..MaxTickets]
Jobs == {NoJob} \cup Moves \cup Marks
Scans == [phase : Phases, to : Int, safe : Int, logs : SUBSET Logs, expired : SUBSET (1..MaxTickets)]

Known(logs) == \A e \in logs : e.event = "Withdraw" => e.id \in DOMAIN tickets

ChainTypes ==
    /\ chain \in Seq(Blocks) /\ Len(chain) <= MaxHeight
    /\ peak \in 0..MaxHeight /\ now \in 0..MaxTime
LedgerTypes ==
    /\ balance \in [Accounts -> Nat]
    /\ seen \subseteq Logs
    /\ tickets \in Seq(Tickets) /\ Len(tickets) <= MaxTickets
    /\ cursor \in Int \cup {Unset}
ProcessTypes ==
    /\ job \in Jobs /\ scan \in Scans
    /\ job.kind = "ticket" => Len(tickets) < MaxTickets
    /\ job.kind = "mark" => job.nonce \in DOMAIN tickets
    /\ scan.expired \subseteq DOMAIN tickets
    /\ Known(scan.logs) /\ Known(OnChain)
    /\ crashed \in Seq(Kinds) /\ Len(crashed) <= MaxCrashes
    /\ orphaned \in Nat

RailTypes == ChainTypes /\ LedgerTypes /\ ProcessTypes

----------------------------------------------------------------------------
\* Facts about the operators of Rail.

LEMMA LeastOfTwo ==
  ASSUME NEW a \in Int, NEW b \in Int
  PROVE  Min({a, b}) = (IF a <= b THEN a ELSE b) /\ Max({a, b}) = (IF a >= b THEN a ELSE b)
<1>1. CASE a <= b
  <2>1. \A x \in {a, b} : (\A y \in {a, b} : x <= y) <=> x = a
    BY <1>1
  <2>2. \A x \in {a, b} : (\A y \in {a, b} : x >= y) <=> x = b
    BY <1>1
  <2> QED  BY <1>1, <2>1, <2>2 DEF Min, Max
<1>2. CASE ~(a <= b)
  <2>1. \A x \in {a, b} : (\A y \in {a, b} : x <= y) <=> x = b
    BY <1>2
  <2>2. \A x \in {a, b} : (\A y \in {a, b} : x >= y) <=> x = a
    BY <1>2
  <2> QED  BY <1>2, <2>1, <2>2 DEF Min, Max
<1> QED  BY <1>1, <1>2

\* A log is a deposit or a withdrawal.
LEMMA LogCases ==
  ASSUME NEW e \in Logs
  PROVE  \/ e.event = "Deposit" /\ e.id \in DepositTxs /\ e = Deposit(e.id)
         \/ e.event = "Withdraw" /\ e.id \in 1..MaxTickets /\ e = Withdrawal(e.id)
  BY DEF Logs, Deposit, Withdrawal

LEMMA LogsTyped == ChainTypes => OnChain \subseteq Logs /\ \A i, j \in Int : LogsIn(i, j) \subseteq OnChain
<1> SUFFICES ASSUME ChainTypes PROVE OnChain \subseteq Logs /\ \A i, j \in Int : LogsIn(i, j) \subseteq OnChain
  OBVIOUS
<1>1. DOMAIN chain = 1..Len(chain) /\ \A h \in DOMAIN chain : chain[h].log \in Logs \cup {NoLog}
  <2>1. chain \in Seq(Blocks)
    BY DEF ChainTypes
  <2>2. \A h \in 1..Len(chain) : chain[h] \in Blocks
    BY <2>1
  <2> QED  BY <2>1, <2>2 DEF Blocks
<1> QED  BY <1>1 DEF OnChain, LogsIn

LEMMA NextRangeTyped ==
  ASSUME RailTypes, NEW last \in Int, NEW safe \in Int
  PROVE  /\ NextRange(last, safe) \in Scans
         /\ NextRange(last, safe).logs = {}
         /\ NextRange(last, safe).expired \subseteq DOMAIN tickets
<1>1. last + Chunk \in Int /\ Min({last + Chunk, safe}) \in Int
  BY LeastOfTwo, RailAssumptions
<1>2. Expired \subseteq DOMAIN tickets /\ DOMAIN tickets \subseteq 1..MaxTickets
  BY RailAssumptions DEF Expired, RailTypes, LedgerTypes
<1>3. Idle \in Scans /\ Idle.logs = {} /\ Idle.expired = {}
  BY DEF Idle, Scans, Phases
<1> QED  BY <1>1, <1>2, <1>3 DEF NextRange, Scans, Phases, Idle

----------------------------------------------------------------------------
LEMMA InitTypes == Init => RailTypes
<1> SUFFICES ASSUME Init PROVE RailTypes
  OBVIOUS
<1>1. NoJob \in Jobs /\ Idle \in Scans
  BY DEF Jobs, Idle, Scans, Phases
<1>2. ChainTypes /\ LedgerTypes
  BY RailAssumptions DEF Init, ChainTypes, LedgerTypes
<1>3. Known(OnChain)
  BY DEF Init, Known, OnChain, LogsIn
<1>4. ProcessTypes
  BY <1>1, <1>3, RailAssumptions DEF Init, ProcessTypes, NoJob, Idle, Known
<1> QED  BY <1>2, <1>4 DEF RailTypes

\* The chain.
LEMMA MineTypes ==
  ASSUME RailTypes, NEW log \in Logs \cup {NoLog}, log.event = "Withdraw" => log.id \in DOMAIN tickets,
         Mine(log)
  PROVE  RailTypes'
<1> DEFINE block == [time |-> now, log |-> log]
<1>1. /\ chain' = Append(chain, block) /\ block \in Blocks
      /\ UNCHANGED <<now, balance, seen, tickets, cursor, job, scan, crashed, orphaned>>
  BY DEF Mine, database, process, ghosts, Blocks, RailTypes, ChainTypes
<1>2. peak' \in 0..MaxHeight
  <2>1. Len(chain) + 1 \in 0..MaxHeight /\ peak \in 0..MaxHeight
    BY RailAssumptions DEF Mine, RailTypes, ChainTypes
  <2>2. Max({peak, Len(chain) + 1}) = IF peak >= Len(chain) + 1 THEN peak ELSE Len(chain) + 1
    <3>1. peak \in Int /\ Len(chain) + 1 \in Int
      BY <2>1, RailAssumptions
    <3> HIDE DEF block
    <3> QED  BY <3>1, LeastOfTwo, Zenon
  <2> QED  BY <2>1, <2>2 DEF Mine
<1>3. /\ chain' \in Seq(Blocks) /\ Len(chain') = Len(chain) + 1
      /\ \A h \in 1..Len(chain') : chain'[h] = IF h <= Len(chain) THEN chain[h] ELSE block
  BY <1>1 DEF RailTypes, ChainTypes
<1>4. ChainTypes'
  <2>1. Len(chain) < MaxHeight /\ Len(chain) \in Nat
    BY DEF Mine, RailTypes, ChainTypes
  <2> QED  BY <1>1, <1>2, <1>3, <2>1, RailAssumptions DEF RailTypes, ChainTypes
<1>5. Known(OnChain)'
  <2>1. OnChain' \subseteq OnChain \cup {log}
    BY <1>3 DEF OnChain, LogsIn, RailTypes, ChainTypes
  <2> QED  BY <1>1, <2>1 DEF Known, RailTypes, ProcessTypes
<1> QED  BY <1>1, <1>4, <1>5 DEF RailTypes, LedgerTypes, ProcessTypes, Known

\* The chain without its last block.
LEMMA FrontOf ==
  ASSUME RailTypes, Reorganise
  PROVE  /\ chain' \in Seq(Blocks) /\ Len(chain') = Len(chain) - 1
         /\ \A h \in 1..Len(chain') : chain'[h] = chain[h]
<1> DEFINE n == Len(chain) - 1
<1>1. chain \in Seq(Blocks) /\ Len(chain) > 0 /\ chain' = SubSeq(chain, 1, n)
  BY DEF Reorganise, Front, RailTypes, ChainTypes
<1>2. Len(chain) \in Nat /\ n \in Nat /\ 1 \in Int /\ \A h \in 1..n : chain[h] \in Blocks
  BY <1>1
<1>3. /\ chain' \in Seq(Blocks) /\ Len(chain') = IF 1 <= n THEN n - 1 + 1 ELSE 0
      /\ \A h \in 1..(n - 1 + 1) : chain'[h] = chain[1 + h - 1]
  BY <1>1, <1>2, SubSeqProperties
<1>4. Len(chain') = n
  <2> HIDE DEF n
  <2> QED  BY <1>2, <1>3
<1>5. ASSUME NEW h \in 1..n PROVE chain'[h] = chain[h]
  <2> HIDE DEF n
  <2>1. h \in 1..(n - 1 + 1) /\ 1 + h - 1 = h
    BY <1>2
  <2> QED  BY <1>3, <2>1
<1> QED  BY <1>3, <1>4, <1>5

LEMMA ReorganiseTypes == ASSUME RailTypes, Reorganise PROVE RailTypes'
<1>1. /\ chain' = Front(chain) /\ Len(chain) > 0
      /\ UNCHANGED <<peak, now, balance, seen, tickets, cursor, job, scan, crashed, orphaned>>
  BY DEF Reorganise, database, process, ghosts
<1>2. /\ chain' \in Seq(Blocks) /\ Len(chain') = Len(chain) - 1
      /\ \A h \in 1..Len(chain') : chain'[h] = chain[h]
  BY FrontOf
<1>3. Known(OnChain)'
  <2>1. OnChain' \subseteq OnChain
    BY <1>2 DEF OnChain, LogsIn, RailTypes, ChainTypes
  <2> QED  BY <1>1, <2>1 DEF Known, RailTypes, ProcessTypes
<1>4. ChainTypes'
  <2>1. Len(chain) \in Nat /\ Len(chain) <= MaxHeight
    BY DEF RailTypes, ChainTypes
  <2>2. Len(chain') <= MaxHeight
    BY <1>2, <2>1, RailAssumptions
  <2> QED  BY <1>1, <1>2, <2>2 DEF RailTypes, ChainTypes
<1> QED  BY <1>1, <1>3, <1>4 DEF RailTypes, LedgerTypes, ProcessTypes, Known

LEMMA ClockTypes == ASSUME RailTypes, Clock PROVE RailTypes'
  BY RailAssumptions
     DEF Clock, chainVars, database, process, ghosts, RailTypes, ChainTypes, LedgerTypes, ProcessTypes,
         Known, OnChain, LogsIn

\* The endpoints.
LEMMA DebitTyped ==
  ASSUME RailTypes, NEW a \in Accounts, NEW x \in Amounts, Debit(a, x)
  PROVE  balance' \in [Accounts -> Nat]
  BY RailAssumptions DEF Debit, RailTypes, LedgerTypes

LEMMA MoveTyped ==
  ASSUME NEW kind \in {"credit", "settle", "transfer", "ticket"}, NEW log \in Logs \cup {NoLog},
         NEW a \in Accounts, NEW x \in Amounts
  PROVE  /\ CreditJob(kind, log, a, x) \in Jobs
         /\ CreditJob(kind, log, a, x).kind = kind
  BY DEF CreditJob, Jobs, Moves

LEMMA TransferTypes ==
  ASSUME RailTypes, NEW a \in Accounts, NEW b \in Accounts, NEW x \in Amounts, Transfer(a, b, x)
  PROVE  RailTypes'
<1>1. /\ job' = CreditJob("transfer", NoLog, b, x) /\ Debit(a, x)
      /\ UNCHANGED <<chain, peak, now, seen, tickets, cursor, scan, crashed, orphaned>>
  BY DEF Transfer, chainVars, ghosts
<1>2. job' \in Jobs /\ job'.kind = "transfer" /\ balance' \in [Accounts -> Nat]
  BY <1>1, MoveTyped, DebitTyped
<1> QED  BY <1>1, <1>2 DEF RailTypes, ChainTypes, LedgerTypes, ProcessTypes, Known, OnChain, LogsIn

LEMMA WithdrawTypes ==
  ASSUME RailTypes, NEW a \in Accounts, NEW x \in Amounts, Withdraw(a, x)
  PROVE  RailTypes'
<1>1. /\ job' = CreditJob("ticket", NoLog, a, x) /\ Debit(a, x) /\ Len(tickets) < MaxTickets
      /\ UNCHANGED <<chain, peak, now, seen, tickets, cursor, scan, crashed, orphaned>>
  BY DEF Withdraw, chainVars, ghosts
<1>2. job' \in Jobs /\ job'.kind = "ticket" /\ balance' \in [Accounts -> Nat]
  BY <1>1, MoveTyped, DebitTyped
<1> QED  BY <1>1, <1>2 DEF RailTypes, ChainTypes, LedgerTypes, ProcessTypes, Known, OnChain, LogsIn

LEMMA IdleJob == NoJob \in Jobs /\ NoJob.kind = "none"
  BY DEF NoJob, Jobs

LEMMA MoveFields ==
  ASSUME NEW j \in Jobs, j.kind \in {"credit", "settle", "transfer", "ticket"}
  PROVE  j \in Moves /\ j.account \in Accounts /\ j.amount \in Amounts
  BY DEF Jobs, Moves, Marks, NoJob

LEMMA IssueTypes == ASSUME RailTypes, IssueTicket PROVE RailTypes'
<1> DEFINE ticket == [account |-> job.account, amount |-> job.amount,
                      deadline |-> now + TicketTTL, settled |-> FALSE]
<1>1. /\ job.kind = "ticket" /\ tickets' = Append(tickets, ticket) /\ job' = NoJob
      /\ UNCHANGED <<chain, peak, now, balance, seen, cursor, scan, crashed, orphaned>>
  BY DEF IssueTicket, chainVars, ghosts
<1>2. ticket \in Tickets
  <2>1. job.account \in Accounts /\ job.amount \in Amounts
    BY <1>1, MoveFields DEF RailTypes, ProcessTypes
  <2>2. now + TicketTTL \in Nat
    BY RailAssumptions DEF RailTypes, ChainTypes
  <2> QED  BY <2>1, <2>2 DEF Tickets
<1> HIDE DEF ticket
<1>3. /\ tickets' \in Seq(Tickets) /\ Len(tickets') = Len(tickets) + 1 /\ Len(tickets) \in Nat
      /\ DOMAIN tickets = 1..Len(tickets) /\ DOMAIN tickets' = 1..Len(tickets')
  BY <1>1, <1>2 DEF RailTypes, LedgerTypes
<1>4. DOMAIN tickets \subseteq DOMAIN tickets' /\ Len(tickets') <= MaxTickets
  BY <1>1, <1>3, RailAssumptions DEF RailTypes, ProcessTypes
<1>5. LedgerTypes'
  BY <1>1, <1>3, <1>4 DEF RailTypes, LedgerTypes
<1>6. ProcessTypes'
  BY <1>1, <1>4, IdleJob DEF RailTypes, ProcessTypes, Known, OnChain, LogsIn
<1> QED  BY <1>1, <1>5, <1>6 DEF RailTypes, ChainTypes

----------------------------------------------------------------------------
\* The indexer.  A step of its tick that leaves the ledger alone keeps the types if
\* what it puts in scan is typed.
LEMMA ScanTypes ==
  ASSUME RailTypes, scan' \in Scans, scan'.expired \subseteq DOMAIN tickets, Known(scan'.logs),
         cursor' \in Int \cup {Unset},
         UNCHANGED <<chain, peak, now, balance, seen, tickets, job, crashed, orphaned>>
  PROVE  RailTypes'
  BY DEF RailTypes, ChainTypes, LedgerTypes, ProcessTypes, Known, OnChain, LogsIn

LEMMA StartTypes == ASSUME RailTypes, StartTick PROVE RailTypes'
<1> DEFINE safe == Len(chain) - Confirmations
<1> DEFINE from == IF StartBlock = Unset THEN safe ELSE StartBlock
<1>1. /\ cursor' = (IF cursor = Unset THEN from - 1 ELSE cursor) /\ scan' = NextRange(cursor', safe)
      /\ UNCHANGED <<chain, peak, now, balance, seen, tickets, job, crashed, orphaned>>
  BY DEF StartTick, chainVars, ghosts
<1>2. safe \in Int /\ cursor' \in Int
  BY <1>1, RailAssumptions DEF RailTypes, ChainTypes, LedgerTypes
<1>3. /\ scan' \in Scans /\ scan'.expired \subseteq DOMAIN tickets /\ Known(scan'.logs)
  BY <1>1, <1>2, NextRangeTyped DEF Known
<1> QED  BY <1>1, <1>2, <1>3, ScanTypes

LEMMA RangeDoneTypes == ASSUME RailTypes, RangeDone PROVE RailTypes'
<1>1. /\ cursor' = scan.to /\ scan' = NextRange(scan.to, scan.safe)
      /\ UNCHANGED <<chain, peak, now, balance, seen, tickets, job, crashed, orphaned>>
  BY DEF RangeDone, chainVars, ghosts
<1>2. scan.to \in Int /\ scan.safe \in Int
  BY DEF RailTypes, ProcessTypes, Scans
<1>3. /\ scan' \in Scans /\ scan'.expired \subseteq DOMAIN tickets /\ Known(scan'.logs)
  BY <1>1, <1>2, NextRangeTyped DEF Known
<1> QED  BY <1>1, <1>2, <1>3, ScanTypes

LEMMA FetchTypes ==
  ASSUME RailTypes, NEW waiting \in Phases, NEW next \in Phases, NEW event, Fetch(waiting, next, event)
  PROVE  RailTypes'
<1>1. /\ scan' = [scan EXCEPT !.phase = next, !.logs = OfEvent(event, LogsIn(cursor + 1, scan.to))]
      /\ UNCHANGED <<chain, peak, now, balance, seen, tickets, cursor, job, crashed, orphaned>>
  BY DEF Fetch, chainVars, database, ghosts
<1>2. OfEvent(event, LogsIn(cursor + 1, scan.to)) \subseteq OnChain /\ OnChain \subseteq Logs
  <2>1. LogsIn(cursor + 1, scan.to) \subseteq OnChain
    BY DEF LogsIn, OnChain, RailTypes, ChainTypes
  <2> QED  BY <2>1, LogsTyped DEF OfEvent, RailTypes
<1>3. /\ scan' \in Scans /\ scan'.expired \subseteq DOMAIN tickets /\ Known(scan'.logs)
  BY <1>1, <1>2 DEF RailTypes, ProcessTypes, Scans, Known
<1> QED  BY <1>1, <1>3, ScanTypes DEF RailTypes, LedgerTypes

LEMMA IdleTypes ==
  ASSUME RailTypes, scan' \in {Idle, [scan EXCEPT !.phase = "withdrawals"]},
         UNCHANGED <<chain, peak, now, balance, seen, tickets, cursor, job, crashed, orphaned>>
  PROVE  RailTypes'
<1>1. /\ scan' \in Scans /\ scan'.expired \subseteq DOMAIN tickets /\ Known(scan'.logs)
  BY DEF RailTypes, ProcessTypes, Scans, Idle, Known, Phases
<1> QED  BY <1>1, ScanTypes DEF RailTypes, LedgerTypes

LEMMA ClaimTypes ==
  ASSUME RailTypes, NEW e \in scan.logs, ClaimLog(e)
  PROVE  RailTypes'
<1>1. /\ scan' = [scan EXCEPT !.logs = @ \ {e}] /\ seen' = seen \cup {e}
      /\ job' = NoJob \/ job' = CreditJob(IF e.event = "Deposit" THEN "credit" ELSE "settle", e, Who(e), Amount(e))
      /\ UNCHANGED <<chain, peak, now, balance, tickets, cursor, crashed, orphaned>>
  BY DEF ClaimLog, chainVars, ghosts
<1>2. e \in Logs /\ (e.event = "Withdraw" => e.id \in DOMAIN tickets)
  BY DEF RailTypes, ProcessTypes, Scans, Known
<1>3. Who(e) \in Accounts /\ Amount(e) \in Amounts
  <2>1. CASE e.event = "Deposit"
    BY <1>2, <2>1, LogCases, RailAssumptions DEF Who, Amount
  <2>2. CASE e.event = "Withdraw"
    <3>1. e.id \in 1..Len(tickets) /\ tickets \in Seq(Tickets)
      BY <1>2, <2>2 DEF RailTypes, LedgerTypes
    <3>2. tickets[e.id] \in Tickets
      BY <3>1
    <3> QED  BY <2>2, <3>2 DEF Who, Amount, Tickets
  <2> QED  BY <1>2, <2>1, <2>2, LogCases
<1>4. job' \in Jobs /\ job'.kind \in {"none", "credit", "settle"}
  <2>1. CASE job' = NoJob
    BY <2>1, IdleJob
  <2>2. CASE job' # NoJob
    <3> DEFINE kind == IF e.event = "Deposit" THEN "credit" ELSE "settle"
    <3>1. /\ CreditJob(kind, e, Who(e), Amount(e)) \in Jobs
          /\ CreditJob(kind, e, Who(e), Amount(e)).kind = kind
      BY <1>2, <1>3, MoveTyped
    <3> QED  BY <1>1, <2>2, <3>1
  <2> QED  BY <2>1, <2>2
<1>5. scan' \in Scans /\ scan'.expired = scan.expired /\ scan'.logs = scan.logs \ {e}
  BY <1>1 DEF RailTypes, ProcessTypes, Scans
<1>6. LedgerTypes'
  BY <1>1, <1>2 DEF RailTypes, LedgerTypes
<1>7. ProcessTypes'
  BY <1>1, <1>4, <1>5 DEF RailTypes, ProcessTypes, Known, OnChain, LogsIn
<1> QED  BY <1>1, <1>6, <1>7 DEF RailTypes, ChainTypes

\* Statements that move a balance, and statements that close a ticket.
LEMMA PaidTyped ==
  ASSUME RailTypes, NEW a \in Accounts, NEW x \in Amounts, balance' = [balance EXCEPT ![a] = @ + x]
  PROVE  balance' \in [Accounts -> Nat]
  BY RailAssumptions DEF RailTypes, LedgerTypes

LEMMA CreditTypes == ASSUME RailTypes, Credit PROVE RailTypes'
<1>1. /\ job.kind \in {"credit", "transfer"} /\ job' = NoJob
      /\ balance' = [balance EXCEPT ![job.account] = @ + job.amount]
      /\ UNCHANGED <<chain, peak, now, seen, tickets, cursor, scan, crashed, orphaned>>
  BY DEF Credit, chainVars, ghosts
<1>2. job.account \in Accounts /\ job.amount \in Amounts
  BY <1>1, MoveFields DEF RailTypes, ProcessTypes
<1>3. balance' \in [Accounts -> Nat]
  BY <1>1, <1>2, PaidTyped
<1> QED  BY <1>1, <1>3, IdleJob DEF RailTypes, ChainTypes, LedgerTypes, ProcessTypes, Known, OnChain, LogsIn

\* A ticket that closes is a ticket still, and the others are as they were.
LEMMA ClosedTyped ==
  ASSUME RailTypes, NEW n \in DOMAIN tickets, tickets' = [tickets EXCEPT ![n].settled = TRUE]
  PROVE  /\ tickets' \in Seq(Tickets) /\ DOMAIN tickets' = DOMAIN tickets /\ Len(tickets') = Len(tickets)
         /\ \A m \in DOMAIN tickets :
               tickets'[m] = IF m = n THEN [tickets[n] EXCEPT !.settled = TRUE] ELSE tickets[m]
<1>1. tickets \in Seq(Tickets) /\ DOMAIN tickets = 1..Len(tickets) /\ Len(tickets) \in Nat
  BY DEF RailTypes, LedgerTypes
<1>2. [tickets[n] EXCEPT !.settled = TRUE] \in Tickets
  <2>1. tickets[n] \in Tickets
    BY <1>1
  <2> QED  BY <2>1 DEF Tickets
<1> QED  BY <1>1, <1>2

LEMMA CloseTypes ==
  ASSUME RailTypes, NEW n \in DOMAIN tickets, tickets' = [tickets EXCEPT ![n].settled = TRUE],
         job' = NoJob, orphaned' \in Nat,
         UNCHANGED <<chain, peak, now, balance, seen, cursor, scan, crashed>>
  PROVE  RailTypes'
<1>1. tickets' \in Seq(Tickets) /\ DOMAIN tickets' = DOMAIN tickets /\ Len(tickets') = Len(tickets)
  BY ClosedTyped
<1>2. LedgerTypes'
  BY <1>1 DEF RailTypes, LedgerTypes
<1>3. ProcessTypes'
  BY <1>1, IdleJob DEF RailTypes, ProcessTypes, Known, OnChain, LogsIn
<1> QED  BY <1>2, <1>3 DEF RailTypes, ChainTypes

LEMMA SettleTypes == ASSUME RailTypes, Settle PROVE RailTypes'
<1>1. /\ job.kind = "settle" /\ job' = NoJob
      /\ UNCHANGED <<chain, peak, now, balance, seen, cursor, scan, crashed>>
  BY DEF Settle, chainVars
<1>2. CASE \E n \in Matching : /\ tickets' = [tickets EXCEPT ![n].settled = TRUE]
                              /\ UNCHANGED orphaned
  BY <1>1, <1>2, CloseTypes DEF Matching, RailTypes, ProcessTypes
<1>3. CASE orphaned' = orphaned + job.amount /\ tickets' = tickets
  <2>1. orphaned' \in Nat
    <3>1. job.amount \in Amounts /\ orphaned \in Nat
      BY <1>1, MoveFields DEF RailTypes, ProcessTypes
    <3>2. job.amount \in Nat
      BY <3>1, RailAssumptions
    <3> QED  BY <1>3, <3>1, <3>2
  <2> QED  BY <1>1, <1>3, <2>1, IdleJob
           DEF RailTypes, ChainTypes, LedgerTypes, ProcessTypes, Known, OnChain, LogsIn
<1> QED  BY <1>2, <1>3 DEF Settle

LEMMA RefundTypes == ASSUME RailTypes, NEW n \in scan.expired, Refund(n) PROVE RailTypes'
<1>1. /\ job' = MarkJob(n) /\ scan' = [scan EXCEPT !.expired = @ \ {n}]
      /\ balance' = [balance EXCEPT ![tickets[n].account] = @ + tickets[n].amount]
      /\ UNCHANGED <<chain, peak, now, seen, tickets, cursor, crashed, orphaned>>
  BY DEF Refund, chainVars, ghosts
<1>2. n \in DOMAIN tickets /\ n \in 1..MaxTickets /\ tickets[n] \in Tickets
  BY DEF RailTypes, LedgerTypes, ProcessTypes, Scans
<1>3. balance' \in [Accounts -> Nat]
  BY <1>1, <1>2, PaidTyped DEF Tickets
<1>4. job' \in Jobs /\ job'.kind = "mark" /\ job'.nonce = n
  BY <1>1, <1>2 DEF MarkJob, Jobs, Marks
<1>5. scan' \in Scans /\ scan'.expired \subseteq scan.expired /\ scan'.logs = scan.logs
  BY <1>1 DEF RailTypes, ProcessTypes, Scans
<1> QED  BY <1>1, <1>2, <1>3, <1>4, <1>5
         DEF RailTypes, ChainTypes, LedgerTypes, ProcessTypes, Known, OnChain, LogsIn

LEMMA MarkTypes == ASSUME RailTypes, MarkRefunded PROVE RailTypes'
<1>1. /\ job.kind = "mark" /\ job' = NoJob /\ tickets' = [tickets EXCEPT ![job.nonce].settled = TRUE]
      /\ UNCHANGED <<chain, peak, now, balance, seen, cursor, scan, crashed, orphaned>>
  BY DEF MarkRefunded, chainVars, ghosts
<1> QED  BY <1>1, CloseTypes DEF RailTypes, ProcessTypes

LEMMA CrashTypes == ASSUME RailTypes, Crash PROVE RailTypes'
<1>1. /\ Len(crashed) < MaxCrashes /\ crashed' = Append(crashed, job.kind) /\ job' = NoJob /\ scan' = Idle
      /\ UNCHANGED <<chain, peak, now, balance, seen, tickets, cursor, orphaned>>
  BY DEF Crash, chainVars, database
<1>2. job.kind \in Kinds
  BY DEF RailTypes, ProcessTypes, Jobs, Moves, Marks, NoJob, Kinds
<1>3. crashed' \in Seq(Kinds) /\ Len(crashed') <= MaxCrashes
  <2>1. crashed \in Seq(Kinds) /\ Len(crashed) \in Nat
    BY DEF RailTypes, ProcessTypes
  <2> QED  BY <1>1, <1>2, <2>1, RailAssumptions
<1>4. scan' \in Scans /\ scan'.expired = {} /\ scan'.logs = {}
  BY <1>1 DEF Idle, Scans, Phases
<1> QED  BY <1>1, <1>3, <1>4, IdleJob
         DEF RailTypes, ChainTypes, LedgerTypes, ProcessTypes, Known, OnChain, LogsIn

LEMMA StepTypes == RailTypes /\ [Next]_vars => RailTypes'
<1> SUFFICES ASSUME RailTypes, [Next]_vars PROVE RailTypes'
  OBVIOUS
<1>1. ASSUME NEW d \in DepositTxs, MineDeposit(d) PROVE RailTypes'
  <2>1. Deposit(d) \in Logs /\ Deposit(d).event # "Withdraw"
    BY DEF Logs, Deposit
  <2> QED  BY <1>1, <2>1, MineTypes DEF MineDeposit
<1>2. ASSUME NEW n \in DOMAIN tickets, MineWithdrawal(n) PROVE RailTypes'
  <2>1. n \in 1..MaxTickets
    BY RailAssumptions DEF RailTypes, LedgerTypes
  <2>2. Withdrawal(n) \in Logs /\ Withdrawal(n).id = n
    BY <2>1 DEF Logs, Withdrawal
  <2> QED  BY <1>2, <2>2, MineTypes DEF MineWithdrawal
<1>3. CASE MineNothing
  <2>1. NoLog.event # "Withdraw"
    BY DEF NoLog
  <2> QED  BY <1>3, <2>1, MineTypes DEF MineNothing
<1>4. CASE Reorganise \/ Clock
  BY <1>4, ReorganiseTypes, ClockTypes
<1>5. CASE \E a, b \in Accounts, x \in Amounts : Transfer(a, b, x)
  BY <1>5, TransferTypes
<1>6. CASE \E a \in Accounts, x \in Amounts : Withdraw(a, x)
  BY <1>6, WithdrawTypes
<1>7. CASE Tick
  <2>1. CASE FetchDeposits \/ FetchWithdrawals
    BY <2>1, FetchTypes DEF FetchDeposits, FetchWithdrawals, Phases
  <2>2. CASE DepositsDone \/ EndTick
    BY <2>2, IdleTypes DEF DepositsDone, EndTick, chainVars, database, ghosts
  <2> QED  BY <1>7, <2>1, <2>2, StartTypes, ClaimTypes, RangeDoneTypes, RefundTypes DEF Tick
<1>8. CASE Statement
  BY <1>8, CreditTypes, IssueTypes, SettleTypes, MarkTypes DEF Statement
<1>9. CASE RpcFails
  BY <1>9, IdleTypes DEF RpcFails, chainVars, database, ghosts
<1>10. CASE UNCHANGED vars
  BY <1>10 DEF vars, RailTypes, ChainTypes, LedgerTypes, ProcessTypes, Known, OnChain, LogsIn
<1> QED  BY <1>1, <1>2, <1>3, <1>4, <1>5, <1>6, <1>7, <1>8, <1>9, <1>10, CrashTypes DEF Next

\* What has been credited is a deposit: only Credit adds to it.
DepositsCredited == credited \subseteq DepositTxs
LEMMA CreditedTypes == DepositsCredited /\ [Next]_vars => DepositsCredited'
<1> USE DEF DepositsCredited
<1> SUFFICES ASSUME DepositsCredited, [Next]_vars PROVE DepositsCredited'
  OBVIOUS
<1>1. CASE \/ \E d \in DepositTxs : MineDeposit(d)
           \/ \E n \in DOMAIN tickets : MineWithdrawal(n)
           \/ MineNothing \/ Reorganise \/ Clock \/ RpcFails \/ Crash \/ UNCHANGED vars
  BY <1>1 DEF MineDeposit, MineWithdrawal, MineNothing, Mine, Reorganise, Clock, RpcFails, Crash, ghosts, vars
<1>2. CASE \/ \E a, b \in Accounts, x \in Amounts : Transfer(a, b, x)
           \/ \E a \in Accounts, x \in Amounts : Withdraw(a, x)
  BY <1>2 DEF Transfer, Withdraw, ghosts
<1>3. CASE Tick
  <2>1. CASE StartTick \/ RangeDone \/ DepositsDone \/ EndTick
    BY <2>1 DEF StartTick, RangeDone, DepositsDone, EndTick, ghosts
  <2>2. CASE FetchDeposits \/ FetchWithdrawals
    BY <2>2 DEF FetchDeposits, FetchWithdrawals, Fetch, ghosts
  <2>3. CASE \E e \in scan.logs : ClaimLog(e)
    BY <2>3 DEF ClaimLog, ghosts
  <2>4. CASE \E n \in scan.expired : Refund(n)
    BY <2>4 DEF Refund, ghosts
  <2> QED  BY <1>3, <2>1, <2>2, <2>3, <2>4 DEF Tick
<1>4. CASE Statement
  BY <1>4 DEF Statement, Credit, IssueTicket, Settle, MarkRefunded, ghosts
<1> QED  BY <1>1, <1>2, <1>3, <1>4 DEF Next

\* Every variable keeps its type.
THEOREM RailTypeCorrect == Spec => []TypeOK
<1>1. Spec => []RailTypes
  BY InitTypes, StepTypes, PTL DEF Spec
<1>2. Spec => []DepositsCredited
  <2>1. Init => DepositsCredited
    BY DEF Init, DepositsCredited
  <2> QED  BY <2>1, CreditedTypes, PTL DEF Spec
<1>3. RailTypes /\ DepositsCredited => TypeOK
  BY DEF DepositsCredited, RailTypes, ChainTypes, LedgerTypes, ProcessTypes, Scans, TypeOK
<1> QED  BY <1>1, <1>2, <1>3, PTL

----------------------------------------------------------------------------
\* The inductive invariant of the other two.  What lies CONFIRMATIONS deep stays as it
\* is, and the indexer reads no further; of the range it is at, it has applied what it
\* has claimed, and holds the rest.
LogsOf(c, from, to) == {c[h].log : h \in (from..to) \cap DOMAIN c} \ {NoLog}

Deep == peak - Confirmations
Span == LogsIn(cursor + 1, scan.to)

ChainInv == Len(chain) <= peak /\ Deep <= Len(chain)

CursorInv ==
    cursor # Unset /\ StartBlock # Unset =>
        cursor >= StartBlock - 1 /\ (cursor >= StartBlock => cursor <= Deep)

RangeInv ==
    scan.phase \in {"deposits", "crediting", "withdrawals", "settling"} =>
        cursor # Unset /\ cursor < scan.to /\ scan.to <= scan.safe /\ scan.safe <= Deep

HeldInv ==
    /\ scan.logs \subseteq LogsIn(1, Deep)
    /\ scan.phase = "crediting" => OfEvent("Deposit", Span) \subseteq seen \cup scan.logs
    /\ scan.phase \in {"withdrawals", "settling"} => OfEvent("Deposit", Span) \subseteq seen
    /\ scan.phase = "settling" => OfEvent("Withdraw", Span) \subseteq seen \cup scan.logs

SafeInv == ChainInv /\ CursorInv /\ RangeInv /\ HeldInv /\ AppliedIsFinal /\ NothingSkipped

Ints == /\ Confirmations \in Int /\ peak \in Int /\ Len(chain) \in Nat /\ DOMAIN chain = 1..Len(chain)
        /\ cursor \in Int \cup {Unset} /\ scan.to \in Int /\ scan.safe \in Int
        /\ StartBlock \in Int \cup {Unset} /\ Unset \notin Int

LEMMA IntsHold == RailTypes => Ints
  BY RailAssumptions DEF Ints, RailTypes, ChainTypes, LedgerTypes, ProcessTypes, Scans

LEMMA InitSafe == Init => SafeInv
<1> SUFFICES ASSUME Init PROVE SafeInv
  OBVIOUS
<1>1. ChainInv /\ CursorInv /\ RangeInv
  BY RailAssumptions DEF Init, ChainInv, CursorInv, RangeInv, Deep, Idle
<1>2. HeldInv /\ AppliedIsFinal /\ NothingSkipped
  BY DEF Init, HeldInv, AppliedIsFinal, NothingSkipped, Idle
<1> QED  BY <1>1, <1>2 DEF SafeInv

\* A step that leaves the indexer, what it applied and the chain alone.
LEMMA AloneSafe ==
  ASSUME SafeInv, UNCHANGED <<chain, peak, seen, cursor, scan>>
  PROVE  SafeInv'
  BY DEF SafeInv, ChainInv, CursorInv, RangeInv, HeldInv, AppliedIsFinal, NothingSkipped, Deep, Span,
         LogsIn, OfEvent

LEMMA Deeper ==
  ASSUME NEW p \in Int, NEW q \in Int, NEW c \in Int, p <= q
  PROVE  p - c \in Int /\ q - c \in Int /\ p - c <= q - c
  OBVIOUS

\* A block comes or goes, above what is deep.
LEMMA ChainSafe ==
  ASSUME RailTypes, RailTypes', SafeInv, UNCHANGED <<seen, cursor, scan>>,
         peak <= peak', ChainInv', Deep <= Len(chain'),
         \A h \in 1..Deep : chain'[h] = chain[h]
  PROVE  SafeInv'
<1>1. Ints /\ Ints'
  <2>1. Ints'
    BY RailAssumptions DEF Ints, RailTypes, ChainTypes, LedgerTypes, ProcessTypes, Scans
  <2> QED  BY <2>1, IntsHold
<1>2. ASSUME NEW i \in Int, NEW j \in Int, j <= Deep
      PROVE  LogsOf(chain', i, j) = LogsOf(chain, i, j)
  <2>1. (i..j) \cap DOMAIN chain' = (i..j) \cap DOMAIN chain
    BY <1>1, <1>2 DEF Ints, Deep, ChainInv, SafeInv
  <2>2. \A h \in (i..j) \cap DOMAIN chain : chain'[h] = chain[h]
    BY <1>1, <1>2 DEF Ints, Deep
  <2> QED  BY <2>1, <2>2 DEF LogsOf
<1>3. Deep \in Int /\ Deep' \in Int /\ Deep <= Deep'
  <2>1. peak \in Int /\ peak' \in Int /\ Confirmations \in Int /\ peak <= peak'
    BY <1>1 DEF Ints
  <2> QED  BY <2>1, Deeper, Zenon DEF Deep
<1>4. LogsIn(1, Deep) \subseteq LogsIn(1, Deep)'
  <2>1. LogsOf(chain', 1, Deep) = LogsOf(chain, 1, Deep)
    BY <1>2, <1>3
  <2>2. LogsOf(chain', 1, Deep) \subseteq LogsOf(chain', 1, Deep')
    BY <1>3 DEF LogsOf
  <2> QED  BY <2>1, <2>2 DEF LogsOf, LogsIn
<1>5. CursorInv' /\ RangeInv'
  BY <1>1, <1>3 DEF SafeInv, CursorInv, RangeInv, Ints
<1>6. HeldInv'
  <2>1. CASE scan.phase \in {"deposits", "crediting", "withdrawals", "settling"}
    <3>1. cursor + 1 \in Int /\ scan.to \in Int /\ scan.to <= Deep
      BY <1>1, <1>3, <2>1 DEF SafeInv, RangeInv, Ints
    <3>2. LogsOf(chain', cursor + 1, scan.to) = LogsOf(chain, cursor + 1, scan.to)
      BY <1>2, <3>1
    <3>3. Span' = Span
      BY <3>2 DEF Span, LogsIn, LogsOf
    <3> QED  BY <1>4, <3>3 DEF SafeInv, HeldInv, OfEvent
  <2>2. CASE scan.phase \notin {"deposits", "crediting", "withdrawals", "settling"}
    BY <1>4, <2>2 DEF SafeInv, HeldInv
  <2> QED  BY <2>1, <2>2
<1>7. AppliedIsFinal'
  BY <1>4 DEF SafeInv, AppliedIsFinal, Deep
<1>8. NothingSkipped'
  <2> SUFFICES ASSUME StartBlock # Unset, cursor # Unset
               PROVE  LogsIn(StartBlock, cursor)' \subseteq seen
    BY DEF NothingSkipped
  <2>1. CASE cursor >= StartBlock
    <3>1. cursor \in Int /\ StartBlock \in Int /\ cursor <= Deep
      BY <1>1, <2>1 DEF SafeInv, CursorInv, Ints
    <3>2. LogsOf(chain', StartBlock, cursor) = LogsOf(chain, StartBlock, cursor)
      BY <1>2, <3>1
    <3> QED  BY <3>2 DEF SafeInv, NothingSkipped, LogsIn, LogsOf
  <2>2. CASE ~(cursor >= StartBlock)
    <3>1. (StartBlock..cursor) = {}
      BY <1>1, <2>2 DEF Ints
    <3> QED  BY <3>1 DEF LogsIn
  <2> QED  BY <2>1, <2>2
<1> QED  BY <1>5, <1>6, <1>7, <1>8 DEF SafeInv

LEMMA MineSafe ==
  ASSUME RailTypes, RailTypes', SafeInv, NEW log, Mine(log)
  PROVE  SafeInv'
<1>1. /\ chain' = Append(chain, [time |-> now, log |-> log]) /\ peak' = Max({peak, Len(chain) + 1})
      /\ UNCHANGED <<seen, cursor, scan>>
  BY DEF Mine, database, process
<1>2. Ints
  BY IntsHold
<1>3. peak' = IF peak >= Len(chain) + 1 THEN peak ELSE Len(chain) + 1
  <2>1. peak \in Int /\ Len(chain) + 1 \in Int
    BY <1>2 DEF Ints
  <2>2. Max({peak, Len(chain) + 1}) = IF peak >= Len(chain) + 1 THEN peak ELSE Len(chain) + 1
    BY <2>1, LeastOfTwo, Zenon
  <2> QED  BY <1>1, <2>2
<1>4. Len(chain') = Len(chain) + 1 /\ \A h \in 1..Len(chain) : chain'[h] = chain[h]
  BY <1>1 DEF RailTypes, ChainTypes
<1>5. /\ peak <= peak' /\ ChainInv' /\ Deep <= Len(chain')
      /\ \A h \in 1..Deep : h \in 1..Len(chain)
  BY <1>2, <1>3, <1>4, RailAssumptions DEF Ints, Deep, ChainInv, SafeInv
<1> QED  BY <1>1, <1>4, <1>5, ChainSafe

LEMMA ReorganiseSafe ==
  ASSUME RailTypes, RailTypes', SafeInv, Reorganise
  PROVE  SafeInv'
<1>1. /\ Len(chain) > peak - Confirmations /\ peak' = peak
      /\ UNCHANGED <<seen, cursor, scan>>
  BY DEF Reorganise, database, process
<1>2. Len(chain') = Len(chain) - 1 /\ \A h \in 1..Len(chain') : chain'[h] = chain[h]
  BY FrontOf
<1>3. /\ peak <= peak' /\ ChainInv' /\ Deep <= Len(chain')
      /\ \A h \in 1..Deep : h \in 1..Len(chain')
  BY <1>1, <1>2, IntsHold, RailAssumptions DEF Ints, Deep, ChainInv, SafeInv
<1> QED  BY <1>1, <1>2, <1>3, ChainSafe

\* What NextRange gives: a chunk of what is deep and not read yet, or the sweep.
LEMMA NextRangeBounds ==
  ASSUME NEW last \in Int, NEW safe \in Int
  PROVE  /\ NextRange(last, safe).logs = {}
         /\ NextRange(last, safe).phase \in {"deposits", "refund"}
         /\ NextRange(last, safe).phase = "deposits" =>
               /\ last < NextRange(last, safe).to /\ NextRange(last, safe).to <= safe
               /\ NextRange(last, safe).safe = safe
<1>1. CASE last < safe
  <2>1. Min({last + Chunk, safe}) = IF last + Chunk <= safe THEN last + Chunk ELSE safe
    <3>1. last + Chunk \in Int
      BY RailAssumptions
    <3> QED  BY <3>1, LeastOfTwo, Zenon
  <2>2. last < Min({last + Chunk, safe}) /\ Min({last + Chunk, safe}) <= safe
    BY <1>1, <2>1, RailAssumptions
  <2> QED  BY <1>1, <2>2 DEF NextRange, Idle
<1>2. CASE ~(last < safe)
  BY <1>2 DEF NextRange, Idle
<1> QED  BY <1>1, <1>2

LEMMA StartSafe ==
  ASSUME RailTypes, SafeInv, StartTick
  PROVE  SafeInv'
<1> DEFINE safe == Len(chain) - Confirmations
<1> DEFINE from == IF StartBlock = Unset THEN safe ELSE StartBlock
<1>1. /\ cursor' = (IF cursor = Unset THEN from - 1 ELSE cursor) /\ scan' = NextRange(cursor', safe)
      /\ UNCHANGED <<chain, peak, seen>>
  BY DEF StartTick, chainVars
<1>2. Ints
  BY IntsHold
<1>3. cursor' \in Int /\ safe \in Int /\ safe <= Deep /\ Deep' = Deep
  BY <1>1, <1>2 DEF Ints, SafeInv, ChainInv, Deep
<1> HIDE DEF safe
<1>4. ChainInv' /\ AppliedIsFinal'
  BY <1>1 DEF SafeInv, ChainInv, AppliedIsFinal, Deep, LogsIn
<1>5. CursorInv'
  <2>1. CASE cursor = Unset
    BY <1>1, <1>2, <2>1 DEF Ints, CursorInv
  <2>2. CASE cursor # Unset
    BY <1>1, <1>3, <2>2 DEF SafeInv, CursorInv
  <2> QED  BY <2>1, <2>2
<1>6. RangeInv' /\ HeldInv'
  <2>1. /\ scan'.logs = {} /\ scan'.phase \in {"deposits", "refund"}
        /\ scan'.phase = "deposits" =>
               cursor' < scan'.to /\ scan'.to <= safe /\ scan'.safe = safe
    BY <1>1, <1>3, NextRangeBounds
  <2>2. cursor' # Unset
    BY <1>2, <1>3 DEF Ints
  <2> QED  BY <1>3, <2>1, <2>2 DEF RangeInv, HeldInv
<1>7. NothingSkipped'
  <2> SUFFICES ASSUME StartBlock # Unset PROVE LogsIn(StartBlock, cursor)' \subseteq seen
    BY <1>1 DEF NothingSkipped
  <2>1. CASE cursor = Unset
    <3>1. (StartBlock..cursor') = {}
      BY <1>1, <1>2, <2>1 DEF Ints
    <3> QED  BY <3>1 DEF LogsIn
  <2>2. CASE cursor # Unset
    BY <1>1, <2>2 DEF SafeInv, NothingSkipped, LogsIn
  <2> QED  BY <2>1, <2>2
<1> QED  BY <1>4, <1>5, <1>6, <1>7 DEF SafeInv

\* Both fetches, of a range that is deep.
LEMMA FetchSafe ==
  ASSUME RailTypes, SafeInv,
         FetchDeposits \/ FetchWithdrawals
  PROVE  SafeInv'
<1>1. /\ UNCHANGED <<chain, peak, seen, cursor>>
      /\ scan.phase \in {"deposits", "withdrawals"}
      /\ \/ /\ scan.phase = "deposits"
            /\ scan' = [scan EXCEPT !.phase = "crediting", !.logs = OfEvent("Deposit", Span)]
         \/ /\ scan.phase = "withdrawals"
            /\ scan' = [scan EXCEPT !.phase = "settling", !.logs = OfEvent("Withdraw", Span)]
  BY DEF FetchDeposits, FetchWithdrawals, Fetch, Span, chainVars, database
<1>2. /\ scan'.to = scan.to /\ scan'.safe = scan.safe
      /\ \/ /\ scan.phase = "deposits" /\ scan'.phase = "crediting"
            /\ scan'.logs = OfEvent("Deposit", Span)
         \/ /\ scan.phase = "withdrawals" /\ scan'.phase = "settling"
            /\ scan'.logs = OfEvent("Withdraw", Span)
  BY <1>1 DEF RailTypes, ProcessTypes, Scans
<1>3. ChainInv' /\ CursorInv' /\ AppliedIsFinal' /\ NothingSkipped'
  BY <1>1 DEF SafeInv, ChainInv, CursorInv, AppliedIsFinal, NothingSkipped, Deep, LogsIn
<1>4. RangeInv'
  BY <1>1, <1>2 DEF SafeInv, RangeInv, Deep
<1>5. HeldInv'
  <2>1. Span' = Span /\ LogsIn(1, Deep)' = LogsIn(1, Deep)
    BY <1>1, <1>2 DEF Span, LogsIn, Deep
  <2>2. Span \subseteq LogsIn(1, Deep)
    <3>1. /\ cursor \in Int /\ scan.to \in Int /\ scan.to <= Deep /\ Deep \in Int
          /\ DOMAIN chain = 1..Len(chain) /\ Len(chain) \in Nat
      BY <1>1, IntsHold DEF Ints, SafeInv, RangeInv, Deep
    <3>2. ((cursor + 1)..scan.to) \cap DOMAIN chain \subseteq (1..Deep) \cap DOMAIN chain
      BY <3>1
    <3> QED  BY <3>2 DEF Span, LogsIn
  <2> QED  BY <1>1, <1>2, <2>1, <2>2 DEF SafeInv, HeldInv, OfEvent
<1> QED  BY <1>3, <1>4, <1>5 DEF SafeInv

LEMMA ClaimSafe ==
  ASSUME RailTypes, SafeInv, NEW e \in scan.logs, ClaimLog(e)
  PROVE  SafeInv'
<1>1. /\ UNCHANGED <<chain, peak, cursor>> /\ seen' = seen \cup {e}
      /\ scan' = [scan EXCEPT !.logs = @ \ {e}]
  BY DEF ClaimLog, chainVars
<1>2. /\ scan'.to = scan.to /\ scan'.safe = scan.safe /\ scan'.phase = scan.phase
      /\ scan'.logs = scan.logs \ {e}
  BY <1>1 DEF RailTypes, ProcessTypes, Scans
<1>3. Span' = Span /\ LogsIn(1, Deep)' = LogsIn(1, Deep) /\ LogsIn(StartBlock, cursor)' = LogsIn(StartBlock, cursor)
  BY <1>1, <1>2 DEF Span, LogsIn, Deep
<1>4. ChainInv' /\ CursorInv' /\ RangeInv'
  BY <1>1, <1>2 DEF SafeInv, ChainInv, CursorInv, RangeInv, Deep
<1>5. HeldInv'
  BY <1>1, <1>2, <1>3 DEF SafeInv, HeldInv, OfEvent
<1>6. NothingSkipped'
  BY <1>1, <1>3 DEF SafeInv, NothingSkipped
<1>7. AppliedIsFinal'
  BY <1>1, <1>3 DEF SafeInv, HeldInv, AppliedIsFinal, Deep
<1> QED  BY <1>4, <1>5, <1>6, <1>7 DEF SafeInv

LEMMA RangeDoneSafe ==
  ASSUME RailTypes, SafeInv, RangeDone
  PROVE  SafeInv'
<1>1. /\ scan.phase = "settling" /\ scan.logs = {} /\ cursor' = scan.to
      /\ scan' = NextRange(scan.to, scan.safe) /\ UNCHANGED <<chain, peak, seen>>
  BY DEF RangeDone, chainVars
<1>2. Ints
  BY IntsHold
<1>3. /\ cursor \in Int /\ scan.to \in Int /\ scan.safe \in Int /\ cursor < scan.to
      /\ scan.to <= scan.safe /\ scan.safe <= Deep /\ Deep' = Deep /\ Deep \in Int
  BY <1>1, <1>2 DEF Ints, SafeInv, RangeInv, Deep
<1>4. ChainInv' /\ AppliedIsFinal'
  BY <1>1 DEF SafeInv, ChainInv, AppliedIsFinal, Deep, LogsIn
<1>5. CursorInv'
  BY <1>1, <1>2, <1>3 DEF SafeInv, CursorInv, Ints
<1>6. RangeInv' /\ HeldInv'
  <2>1. /\ scan'.logs = {} /\ scan'.phase \in {"deposits", "refund"}
        /\ scan'.phase = "deposits" =>
               cursor' < scan'.to /\ scan'.to <= scan.safe /\ scan'.safe = scan.safe
    BY <1>1, <1>3, NextRangeBounds
  <2>2. cursor' # Unset
    BY <1>1, <1>2, <1>3 DEF Ints
  <2> QED  BY <1>3, <2>1, <2>2 DEF RangeInv, HeldInv
<1>7. Span \subseteq seen
  <2>1. \A e \in Span : e.event \in {"Deposit", "Withdraw"}
    <3>1. Span \subseteq Logs
      BY <1>3, LogsTyped DEF Span, RailTypes
    <3> QED  BY <3>1, LogCases
  <2> QED  BY <1>1, <2>1 DEF SafeInv, HeldInv, OfEvent
<1>8. NothingSkipped'
  <2> SUFFICES ASSUME StartBlock # Unset PROVE LogsIn(StartBlock, scan.to) \subseteq seen
    BY <1>1 DEF NothingSkipped, LogsIn
  <2>1. StartBlock \in Int /\ StartBlock <= cursor + 1
    BY <1>1, <1>2, <1>3 DEF Ints, SafeInv, CursorInv, RangeInv
  <2>2. (StartBlock..scan.to) \subseteq (StartBlock..cursor) \cup ((cursor + 1)..scan.to)
    BY <1>3, <2>1
  <2>3. LogsIn(StartBlock, scan.to) \subseteq LogsIn(StartBlock, cursor) \cup Span
    BY <2>2 DEF LogsIn, Span
  <2>4. cursor # Unset
    BY <1>2, <1>3 DEF Ints
  <2> QED  BY <1>7, <2>3, <2>4 DEF SafeInv, NothingSkipped
<1> QED  BY <1>4, <1>5, <1>6, <1>8 DEF SafeInv

\* Every step that leaves chain, cursor and seen alone and holds no log, or no new one.
LEMMA QuietSafe ==
  ASSUME RailTypes, SafeInv, UNCHANGED <<chain, peak, seen, cursor>>,
         \/ scan' = Idle
         \/ DepositsDone
         \/ scan.phase = "refund" /\ scan'.phase = "refund" /\ scan'.logs = scan.logs
  PROVE  SafeInv'
<1>1. ChainInv' /\ CursorInv' /\ AppliedIsFinal' /\ NothingSkipped'
  BY DEF SafeInv, ChainInv, CursorInv, AppliedIsFinal, NothingSkipped, Deep, LogsIn
<1>2. LogsIn(1, Deep)' = LogsIn(1, Deep) /\ Deep' = Deep
  BY DEF LogsIn, Deep
<1>3. CASE scan' = Idle
  BY <1>1, <1>3 DEF SafeInv, RangeInv, HeldInv, Idle
<1>4. CASE DepositsDone
  <2>1. scan' = [scan EXCEPT !.phase = "withdrawals"] /\ scan.phase = "crediting" /\ scan.logs = {}
    BY <1>4 DEF DepositsDone
  <2>2. /\ scan'.to = scan.to /\ scan'.safe = scan.safe /\ scan'.phase = "withdrawals"
        /\ scan'.logs = {}
    BY <2>1 DEF RailTypes, ProcessTypes, Scans
  <2>3. Span' = Span
    BY <2>2 DEF Span, LogsIn
  <2> QED  BY <1>1, <1>2, <2>1, <2>2, <2>3 DEF SafeInv, RangeInv, HeldInv, OfEvent
<1>5. CASE scan.phase = "refund" /\ scan'.phase = "refund" /\ scan'.logs = scan.logs
  BY <1>1, <1>2, <1>5 DEF SafeInv, RangeInv, HeldInv
<1> QED  BY <1>3, <1>4, <1>5

LEMMA StepSafe == RailTypes /\ SafeInv /\ [Next]_vars => SafeInv'
<1> SUFFICES ASSUME RailTypes, SafeInv, [Next]_vars PROVE SafeInv'
  OBVIOUS
<1>1. RailTypes'
  BY StepTypes
<1>2. ASSUME NEW log, Mine(log) PROVE SafeInv'
  BY <1>1, <1>2, MineSafe
<1>3. CASE \/ \E d \in DepositTxs : MineDeposit(d)
           \/ \E n \in DOMAIN tickets : MineWithdrawal(n)
           \/ MineNothing
  BY <1>2, <1>3 DEF MineDeposit, MineWithdrawal, MineNothing
<1>4. CASE Reorganise
  BY <1>1, <1>4, ReorganiseSafe
<1>5. CASE \/ Clock \/ \E a, b \in Accounts, x \in Amounts : Transfer(a, b, x)
           \/ \E a \in Accounts, x \in Amounts : Withdraw(a, x)
           \/ Statement \/ UNCHANGED vars
  <2>1. UNCHANGED <<chain, peak, seen, cursor, scan>>
    BY <1>5 DEF Clock, Transfer, Withdraw, Statement, Credit, IssueTicket, Settle, MarkRefunded, vars,
       chainVars, database, process, ghosts
  <2> QED  BY <2>1, AloneSafe
<1>6. CASE RpcFails \/ Crash \/ EndTick \/ DepositsDone
  <2>1. UNCHANGED <<chain, peak, seen, cursor>> /\ (scan' = Idle \/ DepositsDone)
    BY <1>6 DEF RpcFails, Crash, EndTick, DepositsDone, chainVars, database
  <2> QED  BY <2>1, QuietSafe
<1>7. ASSUME NEW n \in scan.expired, Refund(n) PROVE SafeInv'
  <2>1. /\ UNCHANGED <<chain, peak, seen, cursor>> /\ scan.phase = "refund"
        /\ scan' = [scan EXCEPT !.expired = @ \ {n}]
    BY <1>7 DEF Refund, chainVars
  <2>2. scan'.phase = scan.phase /\ scan'.logs = scan.logs
    BY <2>1 DEF RailTypes, ProcessTypes, Scans
  <2> QED  BY <2>1, <2>2, QuietSafe
<1> QED  BY <1>3, <1>4, <1>5, <1>6, <1>7, StartSafe, FetchSafe, ClaimSafe, RangeDoneSafe DEF Next, Tick

LEMMA Safe == Spec => []SafeInv
<1>1. Init => RailTypes /\ SafeInv
  BY InitTypes, InitSafe
<1>2. (RailTypes /\ SafeInv) /\ [Next]_vars => (RailTypes /\ SafeInv)'
  BY StepTypes, StepSafe
<1> QED  BY <1>1, <1>2, PTL DEF Spec

\* The ledger only ever applies logs the chain cannot lose.
THEOREM AppliedStays == Spec => []AppliedIsFinal
<1>1. SafeInv => AppliedIsFinal
  BY DEF SafeInv
<1> QED  BY <1>1, Safe, PTL

\* The cursor never passes a log the ledger has not applied.
THEOREM NoneSkipped == Spec => []NothingSkipped
<1>1. SafeInv => NothingSkipped
  BY DEF SafeInv
<1> QED  BY <1>1, Safe, PTL

----------------------------------------------------------------------------
\* The inductive invariant the mapping needs: whose turn it is on the event loop, and
\* that the sweep holds open tickets, each until its credit is followed by its mark.
Movers == {"credit", "settle", "transfer", "ticket"}

TurnInv ==
    /\ job.kind \in {"credit", "settle"} => scan.phase \in {"crediting", "settling"}
    /\ job.kind \in {"transfer", "ticket"} => scan.phase \in {"idle", "deposits", "withdrawals"}
    /\ job.kind = "mark" => /\ scan.phase = "refund" /\ job.nonce \notin scan.expired
                            /\ ~tickets[job.nonce].settled
    /\ scan.expired # {} => scan.phase = "refund"
    /\ \A n \in scan.expired : ~tickets[n].settled

LEMMA InitTurn == Init => TurnInv
  BY DEF Init, TurnInv, NoJob, Idle

LEMMA SweepsOpen ==
  ASSUME NEW last \in Int, NEW safe \in Int
  PROVE  /\ NextRange(last, safe).expired # {} => NextRange(last, safe).phase = "refund"
         /\ \A n \in NextRange(last, safe).expired : ~tickets[n].settled
<1>1. CASE last < safe
  BY <1>1 DEF NextRange, Idle
<1>2. CASE ~(last < safe)
  BY <1>2 DEF NextRange, Idle, Expired
<1> QED  BY <1>1, <1>2

LEMMA KindIdle == NoJob.kind = "none"
  BY DEF NoJob

\* The loop is at a point where no statement is pending.
LEMMA PauseTurn ==
  ASSUME RailTypes, TurnInv, job' = NoJob, tickets' = tickets,
         scan'.expired = {} \/ (scan'.expired = scan.expired /\ scan'.phase = scan.phase)
  PROVE  TurnInv'
  BY KindIdle DEF TurnInv

LEMMA StepTurn == RailTypes /\ TurnInv /\ [Next]_vars => TurnInv'
<1> SUFFICES ASSUME RailTypes, TurnInv, [Next]_vars PROVE TurnInv'
  OBVIOUS
<1>1. ASSUME UNCHANGED <<job, scan, tickets>> PROVE TurnInv'
  BY <1>1 DEF TurnInv
<1>2. ASSUME NEW log, Mine(log) PROVE TurnInv'
  BY <1>1, <1>2 DEF Mine, process, database
<1>3. CASE \/ \E d \in DepositTxs : MineDeposit(d)
           \/ \E n \in DOMAIN tickets : MineWithdrawal(n)
           \/ MineNothing
  BY <1>2, <1>3 DEF MineDeposit, MineWithdrawal, MineNothing
<1>4. CASE Reorganise \/ Clock \/ UNCHANGED vars
  BY <1>1, <1>4 DEF Reorganise, Clock, process, database, vars
<1>5. ASSUME NEW a \in Accounts, NEW b \in Accounts, NEW x \in Amounts, Transfer(a, b, x) PROVE TurnInv'
  <2>1. job'.kind = "transfer" /\ Free /\ UNCHANGED <<scan, tickets>>
    BY <1>5 DEF Transfer, CreditJob
  <2> QED  BY <2>1 DEF TurnInv, Free
<1>6. ASSUME NEW a \in Accounts, NEW x \in Amounts, Withdraw(a, x) PROVE TurnInv'
  <2>1. job'.kind = "ticket" /\ Free /\ UNCHANGED <<scan, tickets>>
    BY <1>6 DEF Withdraw, CreditJob
  <2> QED  BY <2>1 DEF TurnInv, Free
<1>7. CASE StartTick \/ RangeDone
  <2>1. /\ job' = NoJob /\ tickets' = tickets
        /\ \E last, safe \in Int : scan' = NextRange(last, safe)
    <3>1. CASE RangeDone
      <4>1. scan.to \in Int /\ scan.safe \in Int
        BY DEF RailTypes, ProcessTypes, Scans
      <4> QED  BY <3>1, <4>1 DEF RangeDone
    <3>2. CASE StartTick
      <4> DEFINE safe == Len(chain) - Confirmations
      <4>1. safe \in Int /\ cursor' \in Int
        BY <3>2, IntsHold DEF StartTick, Ints
      <4> QED  BY <3>2, <4>1 DEF StartTick, Free
    <3> QED  BY <1>7, <3>1, <3>2
  <2> QED  BY <2>1, SweepsOpen, KindIdle DEF TurnInv
<1>8. CASE FetchDeposits \/ FetchWithdrawals \/ DepositsDone
  <2>1. /\ job' = NoJob /\ tickets' = tickets /\ scan'.expired = scan.expired
        /\ scan.phase \in {"deposits", "withdrawals", "crediting"}
    BY <1>8 DEF FetchDeposits, FetchWithdrawals, Fetch, Free, DepositsDone, database, RailTypes, ProcessTypes,
       Scans
  <2>2. scan'.expired = {}
    BY <2>1 DEF TurnInv
  <2> QED  BY <2>1, <2>2, PauseTurn
<1>9. CASE RpcFails \/ Crash \/ EndTick
  <2>1. job' = NoJob /\ tickets' = tickets /\ scan' = Idle
    BY <1>9 DEF RpcFails, Crash, EndTick, Free, database
  <2> QED  BY <2>1, PauseTurn DEF Idle
<1>10. ASSUME NEW e \in scan.logs, ClaimLog(e) PROVE TurnInv'
  <2>1. /\ scan.phase \in {"crediting", "settling"} /\ tickets' = tickets
        /\ scan' = [scan EXCEPT !.logs = @ \ {e}]
        /\ job'.kind \in {"none", "credit", "settle"}
    BY <1>10 DEF ClaimLog, CreditJob, NoJob
  <2>2. scan'.phase = scan.phase /\ scan'.expired = scan.expired
    BY <2>1 DEF RailTypes, ProcessTypes, Scans
  <2> QED  BY <2>1, <2>2 DEF TurnInv
<1>11. ASSUME NEW n \in scan.expired, Refund(n) PROVE TurnInv'
  <2>1. /\ scan.phase = "refund" /\ tickets' = tickets /\ scan' = [scan EXCEPT !.expired = @ \ {n}]
        /\ job'.kind = "mark" /\ job'.nonce = n
    BY <1>11 DEF Refund, MarkJob
  <2>2. scan'.phase = scan.phase /\ scan'.expired = scan.expired \ {n}
    BY <2>1 DEF RailTypes, ProcessTypes, Scans
  <2> QED  BY <2>1, <2>2 DEF TurnInv
<1>12. CASE Credit
  BY <1>12, PauseTurn DEF Credit
<1>13. CASE IssueTicket
  <2>1. job' = NoJob /\ scan' = scan /\ scan.expired = {}
    BY <1>13 DEF IssueTicket, TurnInv
  <2> QED  BY <2>1, KindIdle DEF TurnInv
<1>14. CASE Settle
  <2>1. job' = NoJob /\ scan' = scan /\ scan.expired = {}
    BY <1>14 DEF Settle, TurnInv
  <2> QED  BY <2>1, KindIdle DEF TurnInv
<1>15. CASE MarkRefunded
  <2>1. /\ job' = NoJob /\ scan' = scan /\ job.nonce \notin scan.expired /\ job.nonce \in DOMAIN tickets
        /\ tickets' = [tickets EXCEPT ![job.nonce].settled = TRUE]
    BY <1>15 DEF MarkRefunded, TurnInv, RailTypes, ProcessTypes
  <2>2. \A n \in scan.expired : tickets'[n] = tickets[n]
    BY <2>1, ClosedTyped DEF RailTypes, ProcessTypes
  <2> QED  BY <2>1, <2>2, KindIdle DEF TurnInv
<1> QED  BY <1>3, <1>4, <1>5, <1>6, <1>7, <1>8, <1>9, <1>10, <1>11, <1>12, <1>13, <1>14, <1>15
         DEF Next, Tick, Statement

----------------------------------------------------------------------------
\* The mapping: what the accounts see of each state.
Given(logs) == {d \in DepositTxs : Deposit(d) \in logs}
Views == [account : Accounts, amount : Amounts, open : BOOLEAN]

LEMMA BankInit == Init => Ledger!Init
<1> SUFFICES ASSUME Init PROVE Ledger!Init
  OBVIOUS
<1>1. job.kind = "none" /\ balance = [a \in Accounts |-> 0] /\ seen = {} /\ tickets = <<>> /\ crashed = <<>>
  BY KindIdle DEF Init
<1>2. Posted = [a \in Accounts |-> 0]
  BY <1>1 DEF Posted
<1>3. Issued = <<>>
  <2>1. DOMAIN tickets = {}
    BY <1>1
  <2> QED  BY <1>1, <2>1 DEF Issued, Viewed
<1> QED  BY <1>1, <1>2, <1>3 DEF Ledger!Init

\* The views of the tickets, and how they change with them.
LEMMA ViewedTyped ==
  ASSUME RailTypes
  PROVE  /\ Viewed \in Seq(Views) /\ DOMAIN Viewed = DOMAIN tickets /\ Len(Viewed) = Len(tickets)
         /\ Viewed \in [DOMAIN tickets -> Views]
         /\ \A n \in DOMAIN tickets : Viewed[n] = View(tickets[n]) /\ Viewed[n].open = ~tickets[n].settled
<1>1. tickets \in Seq(Tickets) /\ DOMAIN tickets = 1..Len(tickets) /\ Len(tickets) \in Nat
  BY DEF RailTypes, LedgerTypes
<1>2. \A n \in DOMAIN tickets : tickets[n] \in Tickets
  BY <1>1
<1>3. \A n \in DOMAIN tickets : View(tickets[n]) \in Views
  BY <1>2 DEF View, Views, Tickets
<1>4. Viewed = [n \in 1..Len(tickets) |-> View(tickets[n])]
  BY <1>1 DEF Viewed
<1>5. \A n \in DOMAIN tickets : Viewed[n].open = ~tickets[n].settled
  BY DEF Viewed, View
<1> QED  BY <1>1, <1>3, <1>4, <1>5

\* A step that leaves the ledger alone leaves the bank alone.
LEMMA AloneBank ==
  ASSUME UNCHANGED <<balance, job, tickets, seen, crashed>>
  PROVE  UNCHANGED Ledger!vars
  BY DEF Ledger!vars, Posted, Issued, Viewed

LEMMA TransferBank ==
  ASSUME RailTypes, NEW a \in Accounts, NEW b \in Accounts, NEW x \in Amounts, Transfer(a, b, x)
  PROVE  Ledger!Transfer(a, b, x)
<1>1. /\ job.kind = "none" /\ balance[a] >= x /\ balance' = [balance EXCEPT ![a] = @ - x]
      /\ job'.kind = "transfer" /\ job'.account = b /\ job'.amount = x
      /\ UNCHANGED <<seen, tickets, crashed>>
  BY KindIdle DEF Transfer, Free, Debit, CreditJob, ghosts
<1>2. Posted = balance /\ Posted' = [balance' EXCEPT ![b] = @ + x]
  BY <1>1 DEF Posted
<1>3. Issued' = Issued
  BY <1>1 DEF Issued, Viewed
<1> QED  BY <1>1, <1>2, <1>3 DEF Ledger!Transfer

LEMMA WithdrawBank ==
  ASSUME RailTypes, NEW a \in Accounts, NEW x \in Amounts, Withdraw(a, x)
  PROVE  Ledger!Withdraw(a, x)
<1>1. /\ job.kind = "none" /\ balance[a] >= x /\ balance' = [balance EXCEPT ![a] = @ - x]
      /\ job'.kind = "ticket" /\ job'.account = a /\ job'.amount = x
      /\ UNCHANGED <<seen, tickets, crashed>>
  BY KindIdle DEF Withdraw, Free, Debit, CreditJob, ghosts
<1>2. Posted = balance /\ Posted' = balance'
  BY <1>1 DEF Posted
<1>3. Issued = Viewed /\ Issued' = Append(Viewed, [account |-> a, amount |-> x, open |-> TRUE])
  BY <1>1 DEF Issued, Viewed
<1> QED  BY <1>1, <1>2, <1>3 DEF Ledger!Withdraw

\* The ticket was there for the bank when the balance was debited.
LEMMA IssueBank == ASSUME RailTypes, IssueTicket PROVE UNCHANGED Ledger!vars
<1> DEFINE ticket == [account |-> job.account, amount |-> job.amount,
                      deadline |-> now + TicketTTL, settled |-> FALSE]
<1> DEFINE view == [account |-> job.account, amount |-> job.amount, open |-> TRUE]
<1>1. /\ job.kind = "ticket" /\ job'.kind = "none" /\ tickets' = Append(tickets, ticket)
      /\ UNCHANGED <<balance, seen, crashed>>
  BY KindIdle DEF IssueTicket, ghosts
<1>2. Posted' = Posted
  BY <1>1 DEF Posted
<1>3. View(ticket) = view
  BY DEF View
<1>4. ticket \in Tickets
  <2>1. job.account \in Accounts /\ job.amount \in Amounts
    BY <1>1, MoveFields DEF RailTypes, ProcessTypes
  <2>2. now + TicketTTL \in Nat
    BY RailAssumptions DEF RailTypes, ChainTypes
  <2> QED  BY <2>1, <2>2 DEF Tickets
<1> HIDE DEF ticket, view
<1>5. Viewed' = Append(Viewed, view)
  <2>1. /\ tickets \in Seq(Tickets) /\ Len(tickets) \in Nat /\ DOMAIN tickets = 1..Len(tickets)
        /\ Len(tickets') = Len(tickets) + 1 /\ DOMAIN tickets' = 1..(Len(tickets) + 1)
        /\ \A n \in 1..(Len(tickets) + 1) :
              tickets'[n] = IF n <= Len(tickets) THEN tickets[n] ELSE ticket
    BY <1>1, <1>4 DEF RailTypes, LedgerTypes
  <2>2. Viewed' = [n \in 1..(Len(tickets) + 1) |-> View(tickets'[n])]
    BY <2>1 DEF Viewed, View
  <2>3. /\ Viewed \in Seq(Views) /\ Len(Viewed) = Len(tickets)
        /\ \A n \in 1..Len(tickets) : Viewed[n] = View(tickets[n])
    BY <2>1, ViewedTyped
  <2>4. Append(Viewed, view) = [n \in 1..(Len(tickets) + 1) |-> IF n <= Len(tickets) THEN Viewed[n] ELSE view]
    <3>1. view \in Views
      BY <1>1, MoveFields DEF RailTypes, ProcessTypes, view, Views
    <3>2. /\ Append(Viewed, view) \in Seq(Views) /\ Len(Append(Viewed, view)) = Len(tickets) + 1
          /\ \A n \in 1..Len(tickets) : Append(Viewed, view)[n] = Viewed[n]
          /\ Append(Viewed, view)[Len(tickets) + 1] = view
      BY <2>3, <3>1, AppendProperties
    <3>3. \A n \in 1..(Len(tickets) + 1) :
            Append(Viewed, view)[n] = IF n <= Len(tickets) THEN Viewed[n] ELSE view
      BY <2>1, <3>2
    <3>5. Append(Viewed, view) = [n \in 1..(Len(tickets) + 1) |-> Append(Viewed, view)[n]]
      <4>1. Append(Viewed, view) \in [1..(Len(tickets) + 1) -> Views]
        BY <3>2, LenProperties, Zenon
      <4> QED  BY <4>1
    <3> QED  BY <3>3, <3>5, Zenon
  <2>5. \A n \in 1..(Len(tickets) + 1) :
          View(tickets'[n]) = IF n <= Len(tickets) THEN Viewed[n] ELSE view
    BY <1>3, <2>1, <2>3
  <2> QED  BY <2>2, <2>4, <2>5, Zenon
<1>6. Issued = Append(Viewed, view) /\ Issued' = Viewed'
  BY <1>1 DEF Issued, view
<1> QED  BY <1>1, <1>2, <1>5, <1>6 DEF Ledger!vars

\* A deposit is credited when it is claimed; a redemption is not until it settles.
LEMMA ClaimBank ==
  ASSUME RailTypes, NEW e \in scan.logs, ClaimLog(e)
  PROVE  (\E d \in DepositTxs : Ledger!Deposit(d)) \/ UNCHANGED Ledger!vars
<1>1. /\ job.kind = "none" /\ UNCHANGED <<balance, tickets, crashed>> /\ seen' = seen \cup {e}
      /\ job' = IF e \in seen THEN NoJob
                ELSE CreditJob(IF e.event = "Deposit" THEN "credit" ELSE "settle", e, Who(e), Amount(e))
  BY KindIdle DEF ClaimLog, ghosts
<1>2. e \in Logs
  BY DEF RailTypes, ProcessTypes, Scans
<1>3. Posted = balance /\ Issued = Viewed /\ Viewed' = Viewed
  BY <1>1 DEF Posted, Issued, Viewed
<1>4. CASE e \in seen
  <2>1. seen' = seen /\ job'.kind = "none"
    BY <1>1, <1>4, KindIdle
  <2>2. Posted' = Posted /\ Issued' = Issued
    BY <1>1, <1>3, <2>1 DEF Posted, Issued
  <2> QED  BY <1>1, <2>1, <2>2 DEF Ledger!vars
<1>5. CASE e \notin seen /\ e.event = "Withdraw"
  <2>1. job'.kind = "settle"
    BY <1>1, <1>5 DEF CreditJob
  <2>2. \A d \in DepositTxs : Deposit(d) # e
    BY <1>5 DEF Deposit
  <2>3. Posted' = Posted /\ Issued' = Issued
    BY <1>1, <1>3, <2>1 DEF Posted, Issued
  <2> QED  BY <1>1, <2>2, <2>3 DEF Ledger!vars
<1>6. CASE e \notin seen /\ e.event = "Deposit"
  <2>1. e.id \in DepositTxs /\ e = Deposit(e.id)
    BY <1>2, <1>6, LogCases
  <2>2. /\ job'.kind = "credit" /\ job'.account = DepositOf[e.id].account
        /\ job'.amount = DepositOf[e.id].amount
    BY <1>1, <1>6 DEF CreditJob, Who, Amount
  <2>3. \A d \in DepositTxs : Deposit(d) = e => d = e.id
    BY DEF Deposit
  <2>4. /\ e.id \notin {d \in DepositTxs : Deposit(d) \in seen}
        /\ {d \in DepositTxs : Deposit(d) \in seen'} = {d \in DepositTxs : Deposit(d) \in seen} \cup {e.id}
    BY <1>1, <1>6, <2>1, <2>3
  <2>5. /\ Posted' = [Posted EXCEPT ![DepositOf[e.id].account] = @ + DepositOf[e.id].amount]
        /\ Issued' = Issued
    BY <1>1, <1>3, <2>2 DEF Posted, Issued
  <2> QED  BY <1>1, <2>1, <2>4, <2>5 DEF Ledger!Deposit
<1> QED  BY <1>2, <1>4, <1>5, <1>6, LogCases

LEMMA CreditBank == ASSUME RailTypes, Credit PROVE UNCHANGED Ledger!vars
<1>1. /\ job.kind \in {"credit", "transfer"} /\ job'.kind = "none"
      /\ balance' = [balance EXCEPT ![job.account] = @ + job.amount]
      /\ UNCHANGED <<seen, tickets, crashed>>
  BY KindIdle DEF Credit, ghosts
<1>2. Posted' = Posted /\ Issued' = Issued
  BY <1>1 DEF Posted, Issued, Viewed
<1> QED  BY <1>1, <1>2 DEF Ledger!vars

LEMMA Shut ==
  ASSUME NEW a, NEW x, NEW o, NEW p
  PROVE  [[account |-> a, amount |-> x, open |-> o] EXCEPT !.open = p]
           = [account |-> a, amount |-> x, open |-> p]
  OBVIOUS

\* The view of a ticket that closes.
LEMMA ClosedView ==
  ASSUME RailTypes, NEW n \in DOMAIN tickets, tickets' = [tickets EXCEPT ![n].settled = TRUE]
  PROVE  Viewed' = [Viewed EXCEPT ![n].open = FALSE]
<1>1. /\ tickets' \in Seq(Tickets) /\ DOMAIN tickets' = DOMAIN tickets
      /\ \A m \in DOMAIN tickets :
            tickets'[m] = IF m = n THEN [tickets[n] EXCEPT !.settled = TRUE] ELSE tickets[m]
  BY ClosedTyped
<1>2. Viewed' = [m \in DOMAIN tickets |-> View(tickets'[m])]
  BY <1>1 DEF Viewed, View
<1>3. View(tickets'[n]) = [View(tickets[n]) EXCEPT !.open = FALSE]
  <2>1. tickets[n] \in Tickets
    BY DEF RailTypes, LedgerTypes
  <2>2. /\ tickets'[n].account = tickets[n].account /\ tickets'[n].amount = tickets[n].amount
        /\ tickets'[n].settled = TRUE
    BY <1>1, <2>1 DEF Tickets
  <2>3. (~tickets'[n].settled) = FALSE
    BY <2>2
  <2>4. View(tickets'[n]) = [account |-> tickets[n].account, amount |-> tickets[n].amount, open |-> FALSE]
    BY <2>2, <2>3, Zenon DEF View
  <2>5. [View(tickets[n]) EXCEPT !.open = FALSE]
          = [account |-> tickets[n].account, amount |-> tickets[n].amount, open |-> FALSE]
    <3> DEFINE o == ~tickets[n].settled
    <3>1. View(tickets[n]) = [account |-> tickets[n].account, amount |-> tickets[n].amount, open |-> o]
      BY Zenon DEF View
    <3> HIDE DEF o
    <3>2. [[account |-> tickets[n].account, amount |-> tickets[n].amount, open |-> o] EXCEPT !.open = FALSE]
            = [account |-> tickets[n].account, amount |-> tickets[n].amount, open |-> FALSE]
      BY Shut, Zenon
    <3> QED  BY <3>1, <3>2, Zenon
  <2> QED  BY <2>4, <2>5
<1>4. \A m \in DOMAIN tickets : m # n => View(tickets'[m]) = View(tickets[m])
  BY <1>1
<1>5. Viewed = [m \in DOMAIN tickets |-> View(tickets[m])]
  BY DEF Viewed
<1> HIDE DEF View, Viewed
<1> QED  BY <1>2, <1>3, <1>4, <1>5

LEMMA SettleBank ==
  ASSUME RailTypes, Settle
  PROVE  (\E n \in DOMAIN Issued : Ledger!Redeem(n)) \/ UNCHANGED Ledger!vars
<1>1. /\ job.kind = "settle" /\ job'.kind = "none" /\ UNCHANGED <<balance, seen, crashed>>
  BY KindIdle DEF Settle
<1>2. Posted' = Posted /\ Issued = Viewed /\ Issued' = Viewed'
  BY <1>1 DEF Posted, Issued
<1>3. ASSUME NEW n \in Matching, tickets' = [tickets EXCEPT ![n].settled = TRUE]
      PROVE  n \in DOMAIN Issued /\ Ledger!Redeem(n)
  <2>1. n \in DOMAIN tickets /\ ~tickets[n].settled
    BY DEF Matching
  <2>2. n \in DOMAIN Viewed /\ Viewed[n].open
    BY <2>1, ViewedTyped
  <2>3. Viewed' = [Viewed EXCEPT ![n].open = FALSE]
    BY <1>3, <2>1, ClosedView
  <2> QED  BY <1>1, <1>2, <2>2, <2>3 DEF Ledger!Redeem, Ledger!Close
<1>4. CASE tickets' = tickets
  <2>1. Viewed' = Viewed
    BY <1>4 DEF Viewed
  <2> QED  BY <1>1, <1>2, <2>1 DEF Ledger!vars
<1> QED  BY <1>3, <1>4 DEF Settle

\* A refund is the credit for the bank; its mark was counted then.
LEMMA RefundBank ==
  ASSUME RailTypes, TurnInv, NEW n \in scan.expired, Refund(n)
  PROVE  n \in DOMAIN Issued /\ Ledger!Refund(n)
<1>1. /\ job.kind = "none" /\ job'.kind = "mark" /\ job'.nonce = n
      /\ balance' = [balance EXCEPT ![tickets[n].account] = @ + tickets[n].amount]
      /\ UNCHANGED <<seen, tickets, crashed>>
  BY KindIdle DEF Refund, MarkJob, ghosts
<1>2. n \in DOMAIN tickets /\ ~tickets[n].settled
  BY DEF RailTypes, ProcessTypes, TurnInv
<1>3. /\ n \in DOMAIN Viewed /\ Viewed[n].open
      /\ Viewed[n].account = tickets[n].account /\ Viewed[n].amount = tickets[n].amount
  <2>1. n \in DOMAIN Viewed /\ Viewed[n] = View(tickets[n])
    BY <1>2, ViewedTyped
  <2>2. Viewed[n].open
    BY <1>2, ViewedTyped
  <2>3. Viewed[n].account = tickets[n].account /\ Viewed[n].amount = tickets[n].amount
    BY <2>1 DEF View
  <2> QED  BY <2>1, <2>2, <2>3
<1>4. Posted = balance /\ Posted' = balance' /\ Issued = Viewed /\ Issued' = [Viewed EXCEPT ![n].open = FALSE]
  BY <1>1 DEF Posted, Issued, Viewed
<1> QED  BY <1>1, <1>3, <1>4 DEF Ledger!Refund, Ledger!Close

LEMMA MarkBank == ASSUME RailTypes, MarkRefunded PROVE UNCHANGED Ledger!vars
<1>1. /\ job.kind = "mark" /\ job'.kind = "none" /\ job.nonce \in DOMAIN tickets
      /\ tickets' = [tickets EXCEPT ![job.nonce].settled = TRUE] /\ UNCHANGED <<balance, seen, crashed>>
  BY KindIdle DEF MarkRefunded, ghosts, RailTypes, ProcessTypes
<1>2. Viewed' = [Viewed EXCEPT ![job.nonce].open = FALSE]
  BY <1>1, ClosedView
<1>3. Posted' = Posted /\ Issued' = Issued
  BY <1>1, <1>2 DEF Posted, Issued
<1> QED  BY <1>1, <1>3 DEF Ledger!vars

LEMMA Undone ==
  ASSUME NEW f \in [Accounts -> Nat], NEW a \in Accounts, NEW x \in Nat
  PROVE  f = [[f EXCEPT ![a] = @ + x] EXCEPT ![a] = @ - x]
<1> DEFINE h == [f EXCEPT ![a] = @ + x]
<1>1. h = [b \in Accounts |-> IF b = a THEN f[a] + x ELSE f[b]]
  OBVIOUS
<1>2. [h EXCEPT ![a] = @ - x] = [b \in Accounts |-> IF b = a THEN h[a] - x ELSE h[b]]
  BY <1>1
<1>3. h[a] - x = f[a] /\ \A b \in Accounts : b # a => h[b] = f[b]
  BY <1>1
<1>4. f = [b \in Accounts |-> f[b]]
  OBVIOUS
<1> HIDE DEF h
<1>5. [h EXCEPT ![a] = @ - x] = f
  BY <1>2, <1>3, <1>4
<1> QED  BY <1>5 DEF h

\* A crash is a restart that undoes the half of an operation that was still to run.
LEMMA CrashBank == ASSUME RailTypes, TurnInv, Crash PROVE Ledger!Restart
<1>1. /\ Len(crashed) < MaxCrashes /\ crashed' = Append(crashed, job.kind) /\ job'.kind = "none"
      /\ UNCHANGED <<balance, tickets, seen>>
  BY KindIdle DEF Crash, database
<1>2. Len(crashed') = Len(crashed) + 1
  BY <1>1 DEF RailTypes, ProcessTypes
<1>3. Posted' = balance /\ Issued' = Viewed /\ Viewed' = Viewed
  BY <1>1 DEF Posted, Issued, Viewed
<1>4. job.kind \in Kinds
  BY DEF RailTypes, ProcessTypes, Jobs, Moves, Marks, NoJob, Kinds
<1>5. CASE job.kind \in {"none", "settle"}
  <2>1. Posted' = Posted /\ Issued' = Issued
    BY <1>3, <1>5 DEF Posted, Issued
  <2> QED  BY <1>1, <1>2, <2>1 DEF Ledger!Restart
<1>6. CASE job.kind \in {"credit", "transfer"}
  <2>1. job.account \in Accounts /\ job.amount \in Amounts
    BY <1>6, MoveFields DEF RailTypes, ProcessTypes
  <2>2. Posted = [balance EXCEPT ![job.account] = @ + job.amount] /\ Issued' = Issued
    BY <1>3, <1>6 DEF Posted, Issued
  <2>3. balance \in [Accounts -> Nat] /\ job.amount \in Nat
    BY <2>1, RailAssumptions DEF RailTypes, LedgerTypes
  <2>4. Posted' = [Posted EXCEPT ![job.account] = @ - job.amount]
    BY <1>3, <2>1, <2>2, <2>3, Undone
  <2>5. Ledger!CreditLost(job.account, job.amount)
    BY <1>1, <2>2, <2>4 DEF Ledger!CreditLost
  <2> QED  BY <1>1, <1>2, <2>1, <2>5 DEF Ledger!Restart
<1>7. CASE job.kind = "ticket"
  <2> DEFINE view == [account |-> job.account, amount |-> job.amount, open |-> TRUE]
  <2>1. job.account \in Accounts /\ job.amount \in Amounts
    BY <1>7, MoveFields DEF RailTypes, ProcessTypes
  <2>2. view \in Views
    BY <2>1 DEF Views
  <2>3. Posted' = Posted /\ Issued = Append(Viewed, view)
    BY <1>3, <1>7 DEF Posted, Issued
  <2> HIDE DEF view
  <2>4. Viewed \in Seq(Views)
    BY ViewedTyped
  <2>5. Issued # <<>> /\ Issued' = SubSeq(Issued, 1, Len(Issued) - 1)
    <3>1. Issued # <<>> /\ Len(Issued) - 1 = Len(Viewed)
      BY <2>2, <2>3, <2>4
    <3>2. SubSeq(Append(Viewed, view), 1, Len(Viewed)) = Viewed
      BY <2>2, <2>4, AppendProperties
    <3> QED  BY <1>3, <2>3, <3>1, <3>2
  <2> QED  BY <1>1, <1>2, <2>3, <2>5 DEF Ledger!Restart, Ledger!TicketLost
<1>8. CASE job.kind = "mark"
  <2>1. job.nonce \in DOMAIN tickets /\ ~tickets[job.nonce].settled
    BY <1>8 DEF RailTypes, ProcessTypes, TurnInv
  <2>2. Posted' = Posted /\ Issued = [Viewed EXCEPT ![job.nonce].open = FALSE]
    BY <1>3, <1>8 DEF Posted, Issued
  <2>3. /\ Viewed \in [DOMAIN tickets -> Views] /\ job.nonce \in DOMAIN Issued
        /\ Viewed[job.nonce].open = TRUE
    BY <2>1, <2>2, ViewedTyped DEF RailTypes, LedgerTypes
  <2>4. Issued' = [Issued EXCEPT ![job.nonce].open = TRUE]
    BY <1>3, <2>2, <2>3 DEF Views
  <2> QED  BY <1>1, <1>2, <2>2, <2>3, <2>4 DEF Ledger!Restart, Ledger!Reopened
<1> QED  BY <1>4, <1>5, <1>6, <1>7, <1>8 DEF Kinds

LEMMA BankStep == RailTypes /\ TurnInv /\ [Next]_vars => [Ledger!Next]_(Ledger!vars)
<1> SUFFICES ASSUME RailTypes, TurnInv, [Next]_vars PROVE Ledger!Next \/ UNCHANGED Ledger!vars
  OBVIOUS
<1>1. CASE \/ \E d \in DepositTxs : MineDeposit(d)
           \/ \E n \in DOMAIN tickets : MineWithdrawal(n)
           \/ MineNothing \/ Reorganise \/ Clock \/ RpcFails \/ UNCHANGED vars
  BY <1>1, AloneBank DEF MineDeposit, MineWithdrawal, MineNothing, Mine, Reorganise, Clock, RpcFails, vars,
     chainVars, database, process, ghosts
<1>2. CASE StartTick \/ FetchDeposits \/ FetchWithdrawals \/ DepositsDone \/ RangeDone \/ EndTick
  BY <1>2, AloneBank DEF StartTick, FetchDeposits, FetchWithdrawals, Fetch, DepositsDone, RangeDone, EndTick,
     chainVars, database, process, ghosts
<1>3. CASE \E a, b \in Accounts, x \in Amounts : Transfer(a, b, x)
  BY <1>3, TransferBank DEF Ledger!Next
<1>4. CASE \E a \in Accounts, x \in Amounts : Withdraw(a, x)
  BY <1>4, WithdrawBank DEF Ledger!Next
<1>5. CASE \E e \in scan.logs : ClaimLog(e)
  BY <1>5, ClaimBank DEF Ledger!Next
<1>6. CASE \E n \in scan.expired : Refund(n)
  BY <1>6, RefundBank DEF Ledger!Next
<1>7. CASE Statement
  BY <1>7, CreditBank, IssueBank, SettleBank, MarkBank DEF Statement, Ledger!Next
<1>8. CASE Crash
  BY <1>8, CrashBank DEF Ledger!Next
<1> QED  BY <1>1, <1>2, <1>3, <1>4, <1>5, <1>6, <1>7, <1>8 DEF Next, Tick

\* The ledger is a Bank: whatever runs between its statements, they show as whole
\* operations, each at most once, but for what a restart interrupts.
THEOREM RailImplementsBank == Spec => KeepsBank
<1>1. Init => RailTypes /\ TurnInv /\ Ledger!Init
  BY InitTypes, InitTurn, BankInit
<1>2. (RailTypes /\ TurnInv) /\ [Next]_vars => (RailTypes /\ TurnInv)' /\ [Ledger!Next]_(Ledger!vars)
  BY StepTypes, StepTurn, BankStep
<1> QED  BY <1>1, <1>2, PTL DEF Spec, KeepsBank, Ledger!Spec

----------------------------------------------------------------------------
\* The books.  The ledger only applies logs that are on the chain, so that what it owes,
\* less the deposits and plus the withdrawals it has applied, does not depend on the
\* chain; and a pending statement is what the books are out by.
Applied(event) == Total(OfEvent(event, seen))
OpenTotal == SumFunction([n \in Open |-> tickets[n].amount])
Pending == InFlight - IF job.kind = "settle" /\ Matching = {} THEN job.amount ELSE 0
Books == SumFunction(balance) + OpenTotal + Pending
           - Applied("Deposit") + Applied("Withdraw") - orphaned
Skipped == Range(crashed) \ {"none"}

BooksInv ==
    /\ Skipped = {} => Books = 0
    /\ Skipped \cap {"settle", "mark"} = {} => Books <= 0

PendingCases ==
    /\ job.kind \in {"credit", "transfer", "ticket"} =>
         job.amount \in Nat \ {0} /\ Pending = job.amount
    /\ job.kind = "settle" => job.amount \in Nat \ {0} /\ Pending = -job.amount
    /\ job.kind = "mark" => /\ tickets[job.nonce].amount \in Nat \ {0}
                            /\ Pending = -tickets[job.nonce].amount
    /\ job.kind = "none" => Pending = 0

BooksTypes ==
    /\ Known(seen)
    /\ SumFunction(balance) \in Int /\ OpenTotal \in Int
    /\ Applied("Deposit") \in Int /\ Applied("Withdraw") \in Int
    /\ orphaned \in Int /\ Pending \in Int

LEMMA PendingHolds == RailTypes => PendingCases
<1> SUFFICES ASSUME RailTypes PROVE PendingCases
  OBVIOUS
<1>1. job.kind \in Movers => job.amount \in Nat \ {0}
  BY MoveFields, RailAssumptions DEF RailTypes, ProcessTypes, Movers
<1>2. job.kind = "mark" => tickets[job.nonce].amount \in Nat \ {0}
  <2>1. job.kind = "mark" => tickets[job.nonce] \in Tickets
    BY DEF RailTypes, ProcessTypes, LedgerTypes
  <2> QED  BY <2>1, RailAssumptions DEF Tickets
<1>3. CASE job.kind \in {"credit", "transfer", "ticket"}
  <2>1. Pending = job.amount - 0
    BY <1>3 DEF Pending, InFlight
  <2> QED  BY <1>1, <1>3, <2>1 DEF PendingCases, Movers
<1>4. CASE job.kind = "settle"
  <2>1. CASE Matching = {}
    <3>1. Pending = 0 - job.amount
      BY <1>4, <2>1 DEF Pending, InFlight
    <3> QED  BY <1>1, <1>4, <3>1 DEF PendingCases, Movers
  <2>2. CASE Matching # {}
    <3>1. Pending = (-job.amount) - 0
      BY <1>4, <2>2 DEF Pending, InFlight
    <3> QED  BY <1>1, <1>4, <3>1 DEF PendingCases, Movers
  <2> QED  BY <2>1, <2>2
<1>5. CASE job.kind = "mark"
  <2>1. Pending = (-tickets[job.nonce].amount) - 0
    BY <1>5 DEF Pending, InFlight
  <2> QED  BY <1>2, <1>5, <2>1 DEF PendingCases
<1>6. CASE job.kind = "none"
  <2>1. Pending = 0 - 0
    BY <1>6 DEF Pending, InFlight
  <2> QED  BY <1>6, <2>1 DEF PendingCases
<1>7. job.kind \in Kinds
  BY DEF RailTypes, ProcessTypes, Jobs, Moves, Marks, NoJob, Kinds
<1> QED  BY <1>3, <1>4, <1>5, <1>6, <1>7 DEF Kinds

LEMMA AmountsAreNumbers ==
  /\ Amounts \subseteq Nat \ {0} /\ Amounts \subseteq Int
  /\ \A d \in DepositTxs : DepositOf[d].amount \in Int
<1>1. Amounts \subseteq Nat \ {0}
  BY RailAssumptions
<1>2. \A d \in DepositTxs : DepositOf[d].amount \in Amounts
  BY RailAssumptions
<1>3. \A x : x \in Nat \ {0} => x \in Int
  OBVIOUS
<1> QED  BY <1>1, <1>2, <1>3

LEMMA ImageFinite ==
  ASSUME NEW f, IsFiniteSet(DOMAIN f), f = [x \in DOMAIN f |-> f[x]]
  PROVE  IsFiniteSet({f[x] : x \in DOMAIN f})
<1>1. f \in Surjection(DOMAIN f, {f[x] : x \in DOMAIN f})
  BY DEF Surjection
<1> QED  BY <1>1, FS_Surjection DEF Surjection

LEMMA LogsFinite == IsFiniteSet(Logs)
<1>1. IsFiniteSet({Deposit(d) : d \in DepositTxs})
  <2> DEFINE f == [d \in DepositTxs |-> Deposit(d)]
  <2>1. IsFiniteSet({f[d] : d \in DOMAIN f})
    <3>1. IsFiniteSet(DOMAIN f) /\ f = [d \in DOMAIN f |-> f[d]]
      BY RailAssumptions
    <3> HIDE DEF f
    <3> QED  BY <3>1, ImageFinite
  <2> QED  BY <2>1
<1>2. IsFiniteSet({Withdrawal(n) : n \in 1..MaxTickets})
  <2> DEFINE f == [n \in 1..MaxTickets |-> Withdrawal(n)]
  <2>1. IsFiniteSet({f[n] : n \in DOMAIN f})
    <3>1. IsFiniteSet(DOMAIN f) /\ f = [n \in DOMAIN f |-> f[n]]
      BY RailAssumptions, FS_Interval
    <3> HIDE DEF f
    <3> QED  BY <3>1, ImageFinite
  <2> QED  BY <2>1
<1> QED  BY <1>1, <1>2, FS_Union DEF Logs

LEMMA AmountTyped ==
  ASSUME RailTypes, NEW S \in SUBSET Logs, Known(S)
  PROVE  IsFiniteSet(S) /\ \A e \in S : Amount(e) \in Int
<1>1. IsFiniteSet(S)
  BY LogsFinite, FS_Subset
<1>2. ASSUME NEW e \in S PROVE Amount(e) \in Int
  <2>1. CASE e.event = "Deposit" /\ e.id \in DepositTxs
    BY <2>1, AmountsAreNumbers DEF Amount
  <2>2. CASE e.event = "Withdraw"
    <3>1. tickets[e.id] \in Tickets
      BY <2>2 DEF Known, RailTypes, LedgerTypes
    <3> QED  BY <2>2, <3>1, AmountsAreNumbers DEF Amount, Tickets
  <2> QED  BY <2>1, <2>2, LogCases
<1> QED  BY <1>1, <1>2

\* A total is the sum of one table over the set.
LEMMA TotalIs ==
  ASSUME RailTypes, NEW S \in SUBSET Logs, Known(S), NEW T \in SUBSET S
  PROVE  LET amounts == [e \in S |-> Amount(e)]
         IN  Total(T) = SumFunctionOnSet(amounts, T) /\ Total(T) \in Int
<1> DEFINE amounts == [e \in S |-> Amount(e)]
           own == [e \in T |-> Amount(e)]
<1>1. IsFiniteSet(T) /\ \A e \in T : Amount(e) \in Int
  <2>1. Known(T) /\ T \in SUBSET Logs
    BY DEF Known
  <2> QED  BY <2>1, AmountTyped
<1>2. (\A e \in T : own[e] = amounts[e] /\ own[e] \in Int) /\ DOMAIN own = T
  BY <1>1
<1>3. Total(T) = SumFunction(own)
  BY DEF Total
<1>4. Total(T) = SumFunctionOnSet(amounts, T) /\ Total(T) \in Int
  <2> HIDE DEF own, amounts
  <2> QED  BY <1>1, <1>2, <1>3, SumAgrees, SumInt DEF SumFunction
<1> QED  BY <1>4

LEMMA SeenKnown == RailTypes /\ SafeInv => seen \subseteq OnChain /\ Known(seen)
<1> SUFFICES ASSUME RailTypes, SafeInv PROVE seen \subseteq OnChain /\ Known(seen)
  OBVIOUS
<1>1. seen \subseteq LogsIn(1, Deep) /\ Deep \in Int
  BY IntsHold DEF SafeInv, AppliedIsFinal, Deep, Ints
<1>2. LogsIn(1, Deep) \subseteq OnChain
  BY <1>1, LogsTyped DEF RailTypes
<1> QED  BY <1>1, <1>2 DEF RailTypes, ProcessTypes, Known

LEMMA OpenTyped == RailTypes => IsFiniteSet(Open) /\ OpenTotal \in Int
                                /\ \A n \in DOMAIN tickets : tickets[n].amount \in Int
<1> SUFFICES ASSUME RailTypes
             PROVE  IsFiniteSet(Open) /\ OpenTotal \in Int
                    /\ \A n \in DOMAIN tickets : tickets[n].amount \in Int
  OBVIOUS
<1>1. DOMAIN tickets = 1..Len(tickets) /\ Len(tickets) \in Nat /\ Open \subseteq DOMAIN tickets
  BY DEF RailTypes, LedgerTypes, Open
<1>2. IsFiniteSet(Open)
  <2>1. IsFiniteSet(1..Len(tickets))
    BY <1>1, FS_Interval
  <2> QED  BY <1>1, <2>1, FS_Subset
<1>3. \A n \in DOMAIN tickets : tickets[n].amount \in Int
  <2> SUFFICES ASSUME NEW n \in DOMAIN tickets PROVE tickets[n].amount \in Int
    OBVIOUS
  <2>1. tickets[n] \in Tickets
    BY DEF RailTypes, LedgerTypes
  <2> QED  BY <2>1, AmountsAreNumbers DEF Tickets
<1> DEFINE f == [n \in Open |-> tickets[n].amount]
<1>4. DOMAIN f = Open /\ \A n \in Open : f[n] \in Int
  BY <1>1, <1>3
<1>5. SumFunction(f) \in Int
  <2> HIDE DEF f
  <2> QED  BY <1>2, <1>4, SumInt DEF SumFunction
<1> QED  BY <1>2, <1>3, <1>5 DEF OpenTotal

LEMMA BooksTyped == RailTypes /\ SafeInv => BooksTypes
<1> SUFFICES ASSUME RailTypes, SafeInv PROVE BooksTypes
  OBVIOUS
<1>1. SumFunction(balance) \in Int
  <2>1. balance \in [Accounts -> Nat]
    BY DEF RailTypes, LedgerTypes
  <2>2. DOMAIN balance = Accounts /\ \A a \in Accounts : balance[a] \in Int
    BY <2>1
  <2> QED  BY <2>2, SumInt, RailAssumptions DEF SumFunction
<1>2. Known(seen) /\ seen \in SUBSET Logs
  BY SeenKnown DEF RailTypes, LedgerTypes
<1>3. Applied("Deposit") \in Int /\ Applied("Withdraw") \in Int
  <2>1. OfEvent("Deposit", seen) \in SUBSET seen /\ OfEvent("Withdraw", seen) \in SUBSET seen
    BY DEF OfEvent
  <2> QED  BY <1>2, <2>1, TotalIs DEF Applied
<1>4. Pending \in Int /\ orphaned \in Int
  <2>1. job.kind \in Kinds /\ orphaned \in Int
    BY DEF RailTypes, ProcessTypes, Jobs, Moves, Marks, NoJob, Kinds
  <2> QED  BY <2>1, PendingHolds DEF PendingCases, Kinds
<1> QED  BY <1>1, <1>2, <1>3, <1>4, OpenTyped DEF BooksTypes

\* The books are what Accounted compares.
LEMMA BooksAreGap ==
  RailTypes /\ SafeInv =>
    Owed + Unread("Deposit") - Custody - Unread("Withdraw") - Orphans = Books
<1> SUFFICES ASSUME RailTypes, SafeInv
             PROVE  Owed + Unread("Deposit") - Custody - Unread("Withdraw") - Orphans = Books
  OBVIOUS
<1> DEFINE D == OfEvent("Deposit", OnChain)
           W == OfEvent("Withdraw", OnChain)
<1>1. seen \subseteq OnChain /\ OnChain \in SUBSET Logs /\ Known(OnChain)
  BY SeenKnown, LogsTyped DEF RailTypes, ProcessTypes
<1>2. ASSUME NEW event
      PROVE  LET S == OfEvent(event, OnChain)
             IN /\ Total(S) = Applied(event) + Unread(event)
                /\ Total(S) \in Int /\ Applied(event) \in Int /\ Unread(event) \in Int
  <2> DEFINE S == OfEvent(event, OnChain)
             T == OfEvent(event, seen)
             amounts == [e \in S |-> Amount(e)]
  <2>1. S \in SUBSET Logs /\ Known(S) /\ T \in SUBSET S /\ S \ T = S \ seen /\ S \ T \in SUBSET S
    BY <1>1 DEF OfEvent, Known
  <2>2. /\ Total(S) = SumFunctionOnSet(amounts, S) /\ Total(S) \in Int
        /\ Total(T) = SumFunctionOnSet(amounts, T) /\ Total(T) \in Int
        /\ Total(S \ T) = SumFunctionOnSet(amounts, S \ T) /\ Total(S \ T) \in Int
    <3> HIDE DEF S, T
    <3> QED  BY <2>1, TotalIs
  <2>3. IsFiniteSet(S) /\ \A e \in S : amounts[e] \in Int
    <3> HIDE DEF S
    <3> QED  BY <2>1, AmountTyped
  <2>4. SumFunctionOnSet(amounts, S)
          = SumFunctionOnSet(amounts, T) + SumFunctionOnSet(amounts, S \ T)
    <3> HIDE DEF S, T, amounts
    <3> QED  BY <2>1, <2>3, SumSplits
  <2>5. Applied(event) = Total(T) /\ Unread(event) = Total(S \ T)
    BY <2>1 DEF Applied, Unread
  <2> QED  BY <2>2, <2>4, <2>5
<1>3. BooksTypes
  BY BooksTyped
<1>4. Owed = SumFunction(balance) + OpenTotal + InFlight
  BY DEF Owed, OpenTotal
<1> DEFINE none == IF job.kind = "settle" /\ Matching = {} THEN job.amount ELSE 0
<1>5. Orphans = orphaned + none /\ Pending = InFlight - none
  BY DEF Orphans, Pending
<1>6. InFlight \in Int /\ none \in Int
  <2>1. PendingCases /\ job.kind \in Kinds
    BY PendingHolds DEF RailTypes, ProcessTypes, Jobs, Moves, Marks, NoJob, Kinds
  <2> QED  BY <2>1 DEF PendingCases, Kinds, InFlight
<1>7. Custody = Total(D) - Total(W)
  BY DEF Custody
<1>8. /\ Total(D) = Applied("Deposit") + Unread("Deposit")
      /\ Total(W) = Applied("Withdraw") + Unread("Withdraw")
      /\ Unread("Deposit") \in Int /\ Unread("Withdraw") \in Int
  BY <1>2
<1> HIDE DEF D, W, none
<1> QED  BY <1>3, <1>4, <1>5, <1>6, <1>7, <1>8 DEF Books, BooksTypes

----------------------------------------------------------------------------
\* What a statement does to each part of the books.

\* A step of the chain, of the clock or of the indexer between two logs moves no books.
LEMMA QuietBooks ==
  ASSUME BooksInv, UNCHANGED <<balance, seen, tickets, job, orphaned, crashed>>
  PROVE  BooksInv'
  BY DEF BooksInv, Books, Skipped, Applied, OpenTotal, Open, OfEvent, Total, Amount,
         Pending, InFlight, Matching

LEMMA KeptBooks ==
  ASSUME BooksInv, Books' = Books, crashed' = crashed PROVE BooksInv'
  BY DEF BooksInv, Skipped

\* Crediting or debiting one account.
LEMMA BalanceSum ==
  ASSUME RailTypes, NEW a \in Accounts, NEW x \in Int, balance' = [balance EXCEPT ![a] = @ + x]
  PROVE  SumFunction(balance') = SumFunction(balance) + x
<1>1. balance \in [Accounts -> Int] /\ balance[a] \in Int
  BY DEF RailTypes, LedgerTypes
<1>2. SumFunction([balance EXCEPT ![a] = balance[a] + x])
        = (SumFunction(balance) - balance[a]) + (balance[a] + x)
  <2> DEFINE v == balance[a] + x
  <2>1. v \in Int /\ IsFiniteSet(Accounts)
    BY <1>1, RailAssumptions
  <2>2. SumFunction([balance EXCEPT ![a] = v]) = (SumFunction(balance) - balance[a]) + v
    <3> HIDE DEF v
    <3> QED  BY <1>1, <2>1, SumUpdate
  <2> QED  BY <2>2
<1>3. SumFunction(balance) \in Int
  <2>1. DOMAIN balance = Accounts /\ \A b \in Accounts : balance[b] \in Int
    BY <1>1
  <2> QED  BY <2>1, SumInt, RailAssumptions DEF SumFunction
<1>4. balance' = [balance EXCEPT ![a] = balance[a] + x]
  OBVIOUS
<1> DEFINE before == SumFunction(balance)
           after == SumFunction(balance')
<1>5. after = (before - balance[a]) + (balance[a] + x)
  BY <1>2, <1>4
<1> HIDE DEF before, after
<1>6. after = before + x
  BY <1>1, <1>3, <1>5 DEF before
<1> QED  BY <1>6 DEF before, after

\* One number joins the open ones and the others keep their amounts.
LEMMA OpenJoins ==
  \A n : /\ n \notin Open /\ Open' = Open \cup {n} /\ IsFiniteSet(Open)
         /\ \A m \in Open : tickets[m].amount \in Int /\ tickets'[m].amount = tickets[m].amount
         /\ tickets'[n].amount \in Int
         => OpenTotal' = OpenTotal + tickets'[n].amount
<1> SUFFICES ASSUME NEW n PROVE
       /\ n \notin Open /\ Open' = Open \cup {n} /\ IsFiniteSet(Open)
       /\ \A m \in Open : tickets[m].amount \in Int /\ tickets'[m].amount = tickets[m].amount
       /\ tickets'[n].amount \in Int
       => OpenTotal' = OpenTotal + tickets'[n].amount
  OBVIOUS
<1>0. HAVE /\ n \notin Open /\ Open' = Open \cup {n} /\ IsFiniteSet(Open)
           /\ \A m \in Open : tickets[m].amount \in Int /\ tickets'[m].amount = tickets[m].amount
           /\ tickets'[n].amount \in Int
<1> DEFINE f == [m \in Open |-> tickets[m].amount]
           g == [m \in Open' |-> tickets'[m].amount]
<1>1. /\ n \notin Open /\ IsFiniteSet(Open)
      /\ DOMAIN f = Open /\ DOMAIN g = Open \cup {n}
      /\ \A m \in Open : f[m] \in Int /\ g[m] = f[m]
      /\ g[n] = tickets'[n].amount /\ g[n] \in Int
  BY <1>0
<1>2. OpenTotal = SumFunction(f) /\ OpenTotal' = SumFunction(g)
  BY DEF OpenTotal
<1>3. SumFunction(g) = SumFunction(f) + g[n]
  <2>1. PICK F, G, S : F = f /\ G = g /\ S = Open
    OBVIOUS
  <2> HIDE DEF f, g
  <2>2. IsFiniteSet(S) /\ n \notin S
    BY <1>1, <2>1
  <2>3. DOMAIN F = S
    BY <1>1, <2>1
  <2>4. DOMAIN G = S \cup {n}
    BY <1>1, <2>1
  <2>5. \A m \in S : F[m] \in Int /\ G[m] = F[m]
    BY <1>1, <2>1
  <2>6. G[n] \in Int
    BY <1>1, <2>1
  <2>7. SumFunction(G) = SumFunction(F) + G[n]
    BY <2>2, <2>3, <2>4, <2>5, <2>6, SumExtends
  <2> QED  BY <2>1, <2>7
<1> QED  BY <1>1, <1>2, <1>3

\* A ticket opens.
LEMMA OpenGains ==
  ASSUME RailTypes, RailTypes', NEW t \in Tickets, ~t.settled, tickets' = Append(tickets, t)
  PROVE  OpenTotal' = OpenTotal + t.amount
<1>0. PICK n \in Nat : n = Len(tickets) + 1
  BY DEF RailTypes, LedgerTypes
<1>1. /\ tickets \in Seq(Tickets) /\ Len(tickets) \in Nat /\ DOMAIN tickets = 1..Len(tickets)
      /\ DOMAIN tickets' = 1..n /\ tickets'[n] = t
      /\ \A m \in DOMAIN tickets : tickets'[m] = tickets[m]
  BY <1>0 DEF RailTypes, LedgerTypes
<1>2. n \notin Open /\ n \in DOMAIN tickets' /\ DOMAIN tickets' = DOMAIN tickets \cup {n}
  BY <1>0, <1>1 DEF Open
<1>3. Open' = Open \cup {n}
  BY <1>1, <1>2 DEF Open
<1>4. IsFiniteSet(Open) /\ \A m \in DOMAIN tickets : tickets[m].amount \in Int
  BY OpenTyped
<1>5. \A m \in Open : tickets[m].amount \in Int /\ tickets'[m].amount = tickets[m].amount
  BY <1>1, <1>4 DEF Open
<1>6. tickets'[n].amount \in Int /\ tickets'[n].amount = t.amount
  BY <1>1, AmountsAreNumbers DEF Tickets
<1>7. OpenTotal' = OpenTotal + tickets'[n].amount
  BY <1>2, <1>3, <1>4, <1>5, <1>6, OpenJoins
<1> QED  BY <1>6, <1>7

\* An open ticket closes.
LEMMA OpenLoses ==
  ASSUME RailTypes, NEW n \in Open, tickets' = [tickets EXCEPT ![n].settled = TRUE]
  PROVE  OpenTotal = OpenTotal' + tickets[n].amount
<1> DEFINE f == [m \in Open |-> tickets[m].amount]
           g == [m \in Open' |-> tickets'[m].amount]
<1>0. n \in DOMAIN tickets
  BY DEF Open
<1>1. /\ DOMAIN tickets' = DOMAIN tickets
      /\ \A m \in DOMAIN tickets :
            tickets'[m] = IF m = n THEN [tickets[n] EXCEPT !.settled = TRUE] ELSE tickets[m]
  BY <1>0, ClosedTyped
<1>2. tickets[n] \in Tickets /\ tickets'[n].settled
  <2>1. tickets[n] \in Tickets
    BY <1>0 DEF RailTypes, LedgerTypes
  <2> QED  BY <1>0, <1>1, <2>1 DEF Tickets
<1>3. Open = Open' \cup {n} /\ n \notin Open'
  BY <1>0, <1>1, <1>2 DEF Open
<1>4. /\ IsFiniteSet(Open') /\ DOMAIN f = Open' \cup {n} /\ DOMAIN g = Open'
      /\ \A m \in Open' : g[m] \in Int /\ f[m] = g[m]
      /\ f[n] = tickets[n].amount /\ f[n] \in Int
  <2>1. IsFiniteSet(Open) /\ \A m \in DOMAIN tickets : tickets[m].amount \in Int
    BY OpenTyped
  <2>2. Open \subseteq DOMAIN tickets
    BY DEF Open
  <2>3. IsFiniteSet(Open')
    BY <1>3, <2>1, FS_Subset
  <2> QED  BY <1>0, <1>1, <1>3, <2>1, <2>2, <2>3
<1>5. SumFunction(f) = SumFunction(g) + f[n]
  <2> HIDE DEF f, g
  <2> QED  BY <1>3, <1>4, SumExtends
<1>6. OpenTotal = SumFunction(f) /\ OpenTotal' = SumFunction(g)
  BY DEF OpenTotal
<1> QED  BY <1>4, <1>5, <1>6

LEMMA OpenSame == ASSUME UNCHANGED tickets PROVE OpenTotal' = OpenTotal
  BY DEF OpenTotal, Open

\* What was applied stays what it was while the amounts stay.
LEMMA AppliedSame ==
  ASSUME RailTypes, Known(seen), UNCHANGED seen,
         \A n \in DOMAIN tickets : tickets'[n].amount = tickets[n].amount
  PROVE  Applied("Deposit")' = Applied("Deposit") /\ Applied("Withdraw")' = Applied("Withdraw")
<1>1. ASSUME NEW e \in seen PROVE Amount(e)' = Amount(e)
  BY <1>1, LogCases DEF Amount, Known, RailTypes, LedgerTypes
<1> QED  BY <1>1 DEF Applied, OfEvent, Total

\* A log is applied.
LEMMA AppliedGains ==
  ASSUME RailTypes, Known(seen), NEW e \in Logs, e \notin seen, Known({e}),
         seen' = seen \cup {e}, UNCHANGED tickets
  PROVE  /\ Amount(e) \in Int
         /\ Applied("Deposit")' = Applied("Deposit") + IF e.event = "Deposit" THEN Amount(e) ELSE 0
         /\ Applied("Withdraw")' = Applied("Withdraw") + IF e.event = "Deposit" THEN 0 ELSE Amount(e)
<1>0. Amount(e) \in Int
  BY AmountTyped
<1>1. ASSUME NEW event
      PROVE  Applied(event)' = Applied(event) + IF e.event = event THEN Amount(e) ELSE 0
  <2> DEFINE S == OfEvent(event, seen)
             f == [x \in S |-> Amount(x)]
             g == [x \in OfEvent(event, seen') |-> Amount(x)]
  <2>1. Applied(event) = SumFunction(f) /\ Applied(event)' = SumFunction(g)
    BY DEF Applied, Total, Amount
  <2>2. IsFiniteSet(S) /\ \A x \in S : Amount(x) \in Int
    <3>1. S \in SUBSET Logs /\ Known(S)
      BY DEF OfEvent, Known, RailTypes, LedgerTypes
    <3> HIDE DEF S
    <3> QED  BY <3>1, AmountTyped
  <2>3. CASE e.event = event
    <3>1. OfEvent(event, seen') = S \cup {e} /\ e \notin S
      BY <2>3 DEF OfEvent
    <3>2. /\ DOMAIN f = S /\ DOMAIN g = S \cup {e}
          /\ \A x \in S : f[x] \in Int /\ g[x] = f[x]
          /\ g[e] = Amount(e) /\ g[e] \in Int
      BY <1>0, <2>2, <3>1
    <3>3. SumFunction(g) = SumFunction(f) + g[e]
      <4> HIDE DEF f, g, S
      <4> QED  BY <2>2, <3>1, <3>2, SumExtends
    <3> QED  BY <2>1, <2>3, <3>2, <3>3
  <2>4. CASE e.event # event
    <3>1. OfEvent(event, seen') = S
      BY <2>4 DEF OfEvent
    <3>2. SumFunction(g) = SumFunction(f) /\ SumFunction(f) \in Int
      <4>1. f = g /\ DOMAIN f = S /\ \A x \in S : f[x] \in Int
        BY <2>2, <3>1
      <4> HIDE DEF f, g, S
      <4> QED  BY <4>1, <2>2, SumInt DEF SumFunction
    <3> QED  BY <2>1, <2>4, <3>2
  <2> QED  BY <2>3, <2>4
<1>2. e.event \in {"Deposit", "Withdraw"}
  BY LogCases
<1>3. Applied("Deposit")' = Applied("Deposit") + IF e.event = "Deposit" THEN Amount(e) ELSE 0
  BY <1>1
<1>4. Applied("Withdraw")' = Applied("Withdraw") + IF e.event = "Deposit" THEN 0 ELSE Amount(e)
  <2>1. Applied("Withdraw")' = Applied("Withdraw") + IF e.event = "Withdraw" THEN Amount(e) ELSE 0
    BY <1>1
  <2> QED  BY <1>2, <2>1
<1> QED  BY <1>0, <1>3, <1>4

----------------------------------------------------------------------------
\* Each step, by what it changes.
Sound == RailTypes /\ TurnInv /\ SafeInv /\ BooksInv

SoundNumbers ==
    /\ SumFunction(balance) \in Int /\ OpenTotal \in Int
    /\ Applied("Deposit") \in Int /\ Applied("Withdraw") \in Int
    /\ orphaned \in Int /\ Pending \in Int

LEMMA NumbersHold == Sound => SoundNumbers /\ Known(seen) /\ PendingCases
  BY BooksTyped, PendingHolds DEF Sound, BooksTypes, SoundNumbers

Paused == job = NoJob
NonePending == Pending = 0
OpenIsNumber == OpenTotal \in Int

LEMMA PausedHolds == RailTypes /\ Paused => NonePending
  BY PendingHolds, KindIdle DEF PendingCases, Paused, NonePending

LEMMA PausePending == RailTypes /\ job = NoJob => Pending = 0
  BY PausedHolds DEF Paused, NonePending

LEMMA PausedNext == ASSUME RailTypes', job' = NoJob PROVE Pending' = 0
<1>1. RailTypes' /\ Paused' => NonePending'
  BY PausedHolds, PTL
<1> QED  BY <1>1 DEF Paused, NonePending

LEMMA OpenNumber == RailTypes => OpenIsNumber
  BY OpenTyped DEF OpenIsNumber

\* A transfer or a withdrawal takes the amount and has it pending.
LEMMA DebitBooks ==
  ASSUME Sound, RailTypes', NEW a \in Accounts, NEW x \in Amounts, Debit(a, x), job = NoJob,
         NEW k \in {"transfer", "ticket"}, NEW b \in Accounts, job' = CreditJob(k, NoLog, b, x),
         UNCHANGED <<seen, tickets, orphaned, crashed>>
  PROVE  BooksInv'
<1>1. SoundNumbers /\ RailTypes /\ Pending = 0
  BY NumbersHold, PausePending DEF Sound
<1>2. x \in Int /\ -x \in Int
  BY AmountsAreNumbers
<1>3. SumFunction(balance') = SumFunction(balance) + (-x)
  <2>1. balance \in [Accounts -> Nat]
    BY <1>1 DEF RailTypes, LedgerTypes
  <2>2. balance' = [balance EXCEPT ![a] = @ + (-x)]
    BY <1>2, <2>1 DEF Debit
  <2> HIDE DEF Debit
  <2> DEFINE d == -x
  <2>3. d \in Int /\ balance' = [balance EXCEPT ![a] = @ + d]
    BY <1>2, <2>2
  <2> HIDE DEF d
  <2>4. SumFunction(balance') = SumFunction(balance) + d
    BY <1>1, <2>3, BalanceSum
  <2> QED  BY <2>4 DEF d
<1>4. Pending' = x
  <2>1. PendingCases'
    BY PendingHolds, PTL
  <2>2. job'.kind \in {"transfer", "ticket"} /\ job'.amount = x
    BY DEF CreditJob
  <2> QED  BY <2>1, <2>2 DEF PendingCases
<1>5. OpenTotal' = OpenTotal
  BY OpenSame
<1>6. Applied("Deposit")' = Applied("Deposit") /\ Applied("Withdraw")' = Applied("Withdraw")
  BY <1>1, NumbersHold, AppliedSame
<1>7. Books' = Books
  BY <1>1, <1>2, <1>3, <1>4, <1>5, <1>6 DEF Books, SoundNumbers
<1> QED  BY <1>7, KeptBooks DEF Sound

\* A pending credit goes to its account.
LEMMA CreditBooks == ASSUME Sound, RailTypes', Credit PROVE BooksInv'
<1>1. SoundNumbers /\ RailTypes /\ PendingCases /\ Known(seen)
  BY NumbersHold DEF Sound
<1>2. /\ job.kind \in {"credit", "transfer"} /\ job' = NoJob
      /\ balance' = [balance EXCEPT ![job.account] = @ + job.amount]
      /\ UNCHANGED <<seen, tickets, orphaned, crashed>>
  BY DEF Credit, ghosts
<1>3. job.account \in Accounts /\ job.amount \in Int /\ Pending = job.amount
  BY <1>1, <1>2, MoveFields DEF RailTypes, ProcessTypes, PendingCases
<1>4. SumFunction(balance') = SumFunction(balance) + job.amount
  BY <1>1, <1>2, <1>3, BalanceSum
<1>5. Pending' = 0
  BY <1>2, PausedNext
<1>6. OpenTotal' = OpenTotal
  BY <1>2, OpenSame
<1>7. Applied("Deposit")' = Applied("Deposit") /\ Applied("Withdraw")' = Applied("Withdraw")
  BY <1>1, <1>2, AppliedSame
<1>8. Books' = Books
  BY <1>1, <1>2, <1>3, <1>4, <1>5, <1>6, <1>7 DEF Books, SoundNumbers
<1> QED  BY <1>2, <1>8, KeptBooks DEF Sound

\* A ticket is issued for what was taken.
LEMMA IssueBooks == ASSUME Sound, RailTypes', IssueTicket PROVE BooksInv'
<1> DEFINE t == [account |-> job.account, amount |-> job.amount,
                 deadline |-> now + TicketTTL, settled |-> FALSE]
<1>1. SoundNumbers /\ RailTypes /\ PendingCases /\ Known(seen)
  BY NumbersHold DEF Sound
<1>2. /\ job.kind = "ticket" /\ job' = NoJob /\ tickets' = Append(tickets, t)
      /\ UNCHANGED <<balance, seen, orphaned, crashed>>
  BY DEF IssueTicket, ghosts
<1>3. t \in Tickets /\ ~t.settled /\ t.amount = job.amount
  <2>1. job.account \in Accounts /\ job.amount \in Amounts
    BY <1>1, <1>2, MoveFields DEF RailTypes, ProcessTypes
  <2>2. now + TicketTTL \in Nat
    BY <1>1, RailAssumptions DEF RailTypes, ChainTypes
  <2> QED  BY <2>1, <2>2 DEF Tickets
<1>4. Pending = job.amount /\ job.amount \in Int
  BY <1>1, <1>2 DEF PendingCases
<1>5. OpenTotal' = OpenTotal + job.amount
  <2> HIDE DEF t
  <2> QED  BY <1>1, <1>2, <1>3, OpenGains
<1>6. Pending' = 0
  BY <1>2, PausedNext
<1>7. Applied("Deposit")' = Applied("Deposit") /\ Applied("Withdraw")' = Applied("Withdraw")
  <2>1. \A n \in DOMAIN tickets : tickets'[n] = tickets[n]
    <3>1. tickets \in Seq(Tickets)
      BY <1>1 DEF RailTypes, LedgerTypes
    <3> HIDE DEF t
    <3> QED  BY <1>2, <1>3, <3>1
  <2> QED  BY <1>1, <1>2, <2>1, AppliedSame
<1> HIDE DEF t
<1>8. Books' = Books
  <2>1. UNCHANGED <<balance, orphaned>> /\ SoundNumbers
    BY <1>1, <1>2
  <2> QED  BY <2>1, <1>4, <1>5, <1>6, <1>7 DEF Books, SoundNumbers
<1> QED  BY <1>2, <1>8, KeptBooks DEF Sound

\* A log is applied: its credit or its settling is pending.  A replayed one changes nothing.
LEMMA ClaimBooks ==
  ASSUME Sound, RailTypes', NEW e \in scan.logs, ClaimLog(e)
  PROVE  BooksInv'
<1>1. SoundNumbers /\ RailTypes /\ PendingCases /\ Known(seen)
  BY NumbersHold DEF Sound
<1>2. /\ job = NoJob /\ seen' = seen \cup {e}
      /\ UNCHANGED <<balance, tickets, orphaned, crashed>>
      /\ job' = IF e \in seen THEN NoJob
                ELSE CreditJob(IF e.event = "Deposit" THEN "credit" ELSE "settle", e, Who(e), Amount(e))
  BY DEF ClaimLog, ghosts
<1>3. Pending = 0
  BY <1>1, <1>2, PausePending
<1>4. CASE e \in seen
  <2>1. seen' = seen /\ job' = job
    BY <1>2, <1>4
  <2> QED  BY <1>2, <2>1, QuietBooks DEF Sound
<1>5. CASE e \notin seen
  <2>1. e \in Logs /\ Known({e})
    BY <1>1 DEF RailTypes, ProcessTypes, Scans, Known
  <2>2. /\ Amount(e) \in Int
        /\ Applied("Deposit")' = Applied("Deposit") + IF e.event = "Deposit" THEN Amount(e) ELSE 0
        /\ Applied("Withdraw")' = Applied("Withdraw") + IF e.event = "Deposit" THEN 0 ELSE Amount(e)
    BY <1>1, <1>2, <1>5, <2>1, AppliedGains
  <2>3. /\ job'.kind = IF e.event = "Deposit" THEN "credit" ELSE "settle"
        /\ job'.amount = Amount(e)
    BY <1>2, <1>5 DEF CreditJob
  <2>4. Pending' = IF e.event = "Deposit" THEN Amount(e) ELSE -Amount(e)
    <3>1. PendingCases'
      BY PendingHolds, PTL
    <3>2. CASE e.event = "Deposit"
      BY <2>3, <3>1, <3>2 DEF PendingCases
    <3>3. CASE e.event # "Deposit"
      BY <2>3, <3>1, <3>3 DEF PendingCases
    <3> QED  BY <3>2, <3>3
  <2>5. OpenTotal' = OpenTotal
    BY <1>2, OpenSame
  <2>6. Books' = Books
    <3>1. CASE e.event = "Deposit"
      BY <1>1, <1>2, <1>3, <2>2, <2>4, <2>5, <3>1 DEF Books, SoundNumbers
    <3>2. CASE e.event # "Deposit"
      BY <1>1, <1>2, <1>3, <2>2, <2>4, <2>5, <3>2 DEF Books, SoundNumbers
    <3> QED  BY <3>1, <3>2
  <2> QED  BY <1>2, <2>6, KeptBooks DEF Sound
<1> QED  BY <1>4, <1>5

\* A pending statement closes an open ticket of the amount it is out by.
LEMMA CloseBooks ==
  ASSUME Sound, RailTypes', NEW n \in Open, tickets' = [tickets EXCEPT ![n].settled = TRUE],
         Pending = -tickets[n].amount, job' = NoJob,
         UNCHANGED <<balance, seen, orphaned, crashed>>
  PROVE  BooksInv'
<1>1. SoundNumbers /\ RailTypes /\ Known(seen)
  BY NumbersHold DEF Sound
<1>2. OpenTotal = OpenTotal' + tickets[n].amount
  BY <1>1, OpenLoses
<1>3. n \in DOMAIN tickets /\ tickets[n].amount \in Int /\ OpenTotal' \in Int
  <2>1. OpenTotal' \in Int
    <3>1. OpenIsNumber'
      BY OpenNumber, PTL
    <3> QED  BY <3>1 DEF OpenIsNumber
  <2>2. n \in DOMAIN tickets
    BY DEF Open
  <2> QED  BY <1>1, <2>1, <2>2, OpenTyped
<1>4. Pending' = 0
  BY PausedNext
<1>5. Applied("Deposit")' = Applied("Deposit") /\ Applied("Withdraw")' = Applied("Withdraw")
  <2>1. \A m \in DOMAIN tickets : tickets'[m].amount = tickets[m].amount
    <3>1. tickets[n] \in Tickets
      BY <1>1, <1>3 DEF RailTypes, LedgerTypes
    <3> QED  BY <1>1, <1>3, <3>1, ClosedTyped DEF Tickets
  <2> QED  BY <1>1, <2>1, AppliedSame
<1>6. Books' = Books
  BY <1>1, <1>2, <1>3, <1>4, <1>5 DEF Books, SoundNumbers
<1> QED  BY <1>6, KeptBooks DEF Sound

LEMMA SettleBooks == ASSUME Sound, RailTypes', Settle PROVE BooksInv'
<1>1. SoundNumbers /\ RailTypes /\ PendingCases /\ Known(seen)
  BY NumbersHold DEF Sound
<1>2. job.kind = "settle" /\ job' = NoJob /\ UNCHANGED <<balance, seen, crashed>>
  BY DEF Settle
<1>3. Pending = -job.amount /\ job.amount \in Int
  BY <1>1, <1>2 DEF PendingCases
<1>4. ASSUME NEW n \in Matching, tickets' = [tickets EXCEPT ![n].settled = TRUE],
             UNCHANGED orphaned
      PROVE  BooksInv'
  <2>1. n \in Open /\ tickets[n].amount = job.amount
    BY DEF Matching, Open
  <2> QED  BY <1>2, <1>3, <1>4, <2>1, CloseBooks
<1>5. CASE orphaned' = orphaned + job.amount /\ UNCHANGED tickets
  <2>1. Pending' = 0
    BY <1>2, PausedNext
  <2>2. OpenTotal' = OpenTotal
    BY <1>5, OpenSame
  <2>3. Applied("Deposit")' = Applied("Deposit") /\ Applied("Withdraw")' = Applied("Withdraw")
    BY <1>1, <1>2, <1>5, AppliedSame
  <2>4. Books' = Books
    BY <1>1, <1>2, <1>3, <1>5, <2>1, <2>2, <2>3 DEF Books, SoundNumbers
  <2> QED  BY <1>2, <2>4, KeptBooks DEF Sound
<1> QED  BY <1>4, <1>5 DEF Settle

LEMMA MarkBooks == ASSUME Sound, RailTypes', MarkRefunded PROVE BooksInv'
<1>1. RailTypes /\ TurnInv /\ PendingCases
  BY NumbersHold DEF Sound
<1>2. /\ job.kind = "mark" /\ tickets' = [tickets EXCEPT ![job.nonce].settled = TRUE]
      /\ job' = NoJob /\ UNCHANGED <<balance, seen, orphaned, crashed>>
  BY DEF MarkRefunded, ghosts
<1>3. job.nonce \in Open
  BY <1>1, <1>2 DEF TurnInv, Open, RailTypes, ProcessTypes
<1>4. Pending = -tickets[job.nonce].amount
  BY <1>1, <1>2 DEF PendingCases
<1> QED  BY <1>2, <1>3, <1>4, CloseBooks

\* A refund credits the account and has the ticket's closing pending.
LEMMA RefundBooks ==
  ASSUME Sound, RailTypes', NEW n \in scan.expired, Refund(n)
  PROVE  BooksInv'
<1>1. SoundNumbers /\ RailTypes /\ PendingCases /\ Known(seen)
  BY NumbersHold DEF Sound
<1>2. /\ job = NoJob /\ job' = MarkJob(n)
      /\ balance' = [balance EXCEPT ![tickets[n].account] = @ + tickets[n].amount]
      /\ UNCHANGED <<seen, tickets, orphaned, crashed>>
  BY DEF Refund, ghosts
<1>3. tickets[n].account \in Accounts /\ tickets[n].amount \in Int
  <2>1. n \in DOMAIN tickets /\ tickets[n] \in Tickets
    BY <1>1 DEF RailTypes, LedgerTypes, ProcessTypes
  <2> QED  BY <1>1, <2>1, OpenTyped DEF Tickets
<1>4. SumFunction(balance') = SumFunction(balance) + tickets[n].amount
  BY <1>1, <1>2, <1>3, BalanceSum
<1>5. Pending = 0 /\ Pending' = -tickets[n].amount
  <2>1. PendingCases'
    BY PendingHolds, PTL
  <2>2. job'.kind = "mark" /\ job'.nonce = n
    BY <1>2 DEF MarkJob
  <2>3. Pending = 0
    BY <1>1, <1>2, PausePending
  <2> QED  BY <1>2, <2>1, <2>2, <2>3 DEF PendingCases
<1>6. OpenTotal' = OpenTotal
  BY <1>2, OpenSame
<1>7. Applied("Deposit")' = Applied("Deposit") /\ Applied("Withdraw")' = Applied("Withdraw")
  BY <1>1, <1>2, AppliedSame
<1>8. Books' = Books
  BY <1>1, <1>2, <1>3, <1>4, <1>5, <1>6, <1>7 DEF Books, SoundNumbers
<1> QED  BY <1>2, <1>8, KeptBooks DEF Sound

\* A crash drops the pending statement, and the books are out by it for good.
LEMMA CrashBooks == ASSUME Sound, RailTypes', Crash PROVE BooksInv'
<1>1. SoundNumbers /\ RailTypes /\ PendingCases /\ Known(seen) /\ BooksInv
  BY NumbersHold DEF Sound
<1>2. /\ crashed' = Append(crashed, job.kind) /\ job' = NoJob
      /\ UNCHANGED <<balance, seen, tickets, orphaned>>
  BY DEF Crash, database
<1>3. Pending' = 0
  BY <1>2, PausedNext
<1>4. OpenTotal' = OpenTotal
  BY <1>2, OpenSame
<1>5. Applied("Deposit")' = Applied("Deposit") /\ Applied("Withdraw")' = Applied("Withdraw")
  BY <1>1, <1>2, AppliedSame
<1>6. Books' = Books - Pending /\ Books \in Int
  BY <1>1, <1>2, <1>3, <1>4, <1>5 DEF Books, SoundNumbers
<1>7. Range(crashed') = Range(crashed) \cup {job.kind}
  <2>1. crashed \in Seq(Kinds) /\ job.kind \in Kinds
    BY <1>1 DEF RailTypes, ProcessTypes, Jobs, Moves, Marks, NoJob, Kinds
  <2>2. /\ DOMAIN crashed' = DOMAIN crashed \cup {Len(crashed) + 1}
        /\ crashed'[Len(crashed) + 1] = job.kind
        /\ \A i \in DOMAIN crashed : crashed'[i] = crashed[i]
    BY <1>2, <2>1
  <2> QED  BY <2>2 DEF Range
<1>8. job.kind \in Kinds
  BY <1>1 DEF RailTypes, ProcessTypes, Jobs, Moves, Marks, NoJob, Kinds
<1>9. CASE job.kind = "none"
  <2>1. Skipped' = Skipped /\ Books' = Books
    BY <1>1, <1>6, <1>7, <1>9 DEF Skipped, PendingCases
  <2> QED  BY <1>1, <2>1 DEF BooksInv
<1>10. CASE job.kind \in {"settle", "mark"}
  <2>1. job.kind \in Skipped'
    BY <1>7, <1>10 DEF Skipped
  <2> QED  BY <1>10, <2>1 DEF BooksInv
<1>11. CASE job.kind \in {"credit", "transfer", "ticket"}
  <2>1. job.kind \in Skipped' /\ Skipped \subseteq Skipped'
    BY <1>7, <1>11 DEF Skipped
  <2>2. Books <= 0 => Books' <= 0
    BY <1>1, <1>6, <1>11 DEF PendingCases
  <2> QED  BY <1>1, <2>1, <2>2 DEF BooksInv
<1> QED  BY <1>8, <1>9, <1>10, <1>11 DEF Kinds

LEMMA InitBooks == Init => BooksInv
<1> SUFFICES ASSUME Init PROVE BooksInv
  OBVIOUS
<1>1. RailTypes /\ SafeInv
  BY InitTypes, InitSafe
<1>2. SumFunction(balance) = 0
  <2> DEFINE Bad == {T \in SUBSET Accounts : SumFunctionOnSet(balance, T) # 0}
  <2>1. balance = [a \in Accounts |-> 0]
    BY DEF Init
  <2>2. Bad = {}
    <3> SUFFICES ASSUME Bad # {} PROVE FALSE
      OBVIOUS
    <3>1. PICK T \in Bad : \A U \in Bad : U \subseteq T => U = T
      <4>1. Bad \subseteq SUBSET Accounts
        OBVIOUS
      <4> HIDE DEF Bad
      <4> QED  BY <4>1, LeastSet, RailAssumptions
    <3>2. T # {} /\ IsFiniteSet(T)
      <4>1. {} \notin Bad
        BY SumEmpty
      <4>2. IsFiniteSet(T)
        BY FS_Subset, RailAssumptions
      <4> QED  BY <4>1, <4>2
    <3> DEFINE U == T \ {Pick(T)}
    <3>3. Pick(T) \in T /\ U \in SUBSET Accounts /\ U # T /\ U \subseteq T
      BY <3>2, PickIsElement
    <3>4. SumFunctionOnSet(balance, U) = 0
      <4>1. U \notin Bad
        <5> HIDE DEF Bad, U
        <5> QED  BY <3>1, <3>3
      <4> QED  BY <3>3, <4>1
    <3>5. balance[Pick(T)] = 0
      BY <2>1, <3>3
    <3> QED  BY <3>2, <3>4, <3>5, SumPick
  <2>3. SumFunction(balance) = SumFunctionOnSet(balance, Accounts)
    BY <2>1 DEF SumFunction
  <2> QED  BY <2>2, <2>3
<1>3. OpenTotal = 0
  <2>1. Open = {}
    BY DEF Init, Open
  <2>2. DOMAIN [n \in Open |-> tickets[n].amount] = {}
    BY <2>1
  <2> QED  BY <2>2, SumEmpty DEF OpenTotal, SumFunction
<1>4. ASSUME NEW event PROVE Applied(event) = 0
  <2>1. OfEvent(event, seen) = {}
    BY DEF Init, OfEvent
  <2>2. DOMAIN [e \in OfEvent(event, seen) |-> Amount(e)] = {}
    BY <2>1
  <2> QED  BY <2>2, SumEmpty DEF Applied, Total, SumFunction
<1>5. Pending = 0 /\ orphaned = 0
  BY <1>1, PausePending DEF Init
<1>6. Books = 0
  BY <1>2, <1>3, <1>4, <1>5 DEF Books
<1> QED  BY <1>6 DEF BooksInv

LEMMA StepBooks == Sound /\ [Next]_vars => BooksInv'
<1> SUFFICES ASSUME Sound, [Next]_vars PROVE BooksInv'
  OBVIOUS
<1>t. RailTypes' /\ BooksInv
  BY StepTypes DEF Sound
<1>1. ASSUME UNCHANGED <<balance, seen, tickets, job, orphaned, crashed>> PROVE BooksInv'
  BY <1>1, <1>t, QuietBooks
<1>2. ASSUME NEW log, Mine(log) PROVE BooksInv'
  BY <1>1, <1>2 DEF Mine, process, database, ghosts
<1>3. CASE \/ \E d \in DepositTxs : MineDeposit(d)
           \/ \E n \in DOMAIN tickets : MineWithdrawal(n)
           \/ MineNothing
  BY <1>2, <1>3 DEF MineDeposit, MineWithdrawal, MineNothing
<1>4. CASE Reorganise \/ Clock \/ UNCHANGED vars \/ RpcFails
  BY <1>1, <1>4 DEF Reorganise, Clock, RpcFails, process, database, ghosts, vars
<1>5. ASSUME NEW a \in Accounts, NEW b \in Accounts, NEW x \in Amounts, Transfer(a, b, x)
      PROVE  BooksInv'
  <2>1. /\ Debit(a, x) /\ job = NoJob /\ job' = CreditJob("transfer", NoLog, b, x)
        /\ UNCHANGED <<seen, tickets, orphaned, crashed>>
    BY <1>5 DEF Transfer, Free, ghosts
  <2> QED  BY <1>t, <2>1, DebitBooks
<1>6. ASSUME NEW a \in Accounts, NEW x \in Amounts, Withdraw(a, x) PROVE BooksInv'
  <2>1. /\ Debit(a, x) /\ job = NoJob /\ job' = CreditJob("ticket", NoLog, a, x)
        /\ UNCHANGED <<seen, tickets, orphaned, crashed>>
    BY <1>6 DEF Withdraw, Free, ghosts
  <2> QED  BY <1>t, <2>1, DebitBooks
<1>7. CASE Tick
  <2>1. CASE \/ StartTick \/ FetchDeposits \/ FetchWithdrawals \/ DepositsDone
             \/ RangeDone \/ EndTick
    BY <1>1, <2>1
       DEF StartTick, FetchDeposits, FetchWithdrawals, Fetch, DepositsDone, RangeDone, EndTick,
           database, ghosts
  <2> QED  BY <1>t, <1>7, <2>1, ClaimBooks, RefundBooks DEF Tick
<1>8. CASE Statement
  BY <1>t, <1>8, CreditBooks, IssueBooks, SettleBooks, MarkBooks DEF Statement
<1>9. CASE Crash
  BY <1>t, <1>9, CrashBooks
<1> QED  BY <1>3, <1>4, <1>5, <1>6, <1>7, <1>8, <1>9 DEF Next

\* Accounted of Rail: the ledger owes exactly what the vault holds, adjusted for the logs
\* it has not read and the withdrawals whose ticket was closed first, until a crash skips
\* a statement; and owes more only once one skipped a settling or the mark of a refund.
THEOREM LedgerAccounts == Spec => []Accounted
<1>1. Init => Sound
  BY InitTypes, InitTurn, InitSafe, InitBooks DEF Sound
<1>2. Sound /\ [Next]_vars => Sound'
  BY StepTypes, StepTurn, StepSafe, StepBooks DEF Sound
<1>3. Sound => Accounted
  BY BooksAreGap DEF Sound, BooksInv, Accounted, Skipped
<1> QED  BY <1>1, <1>2, <1>3, PTL DEF Spec
=============================================================================

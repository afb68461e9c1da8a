-------------------------------- MODULE Bank --------------------------------
(***************************************************************************)
(* What the rail's ledger promises the accounts it keeps: a deposit is     *)
(* credited once, a transfer moves its amount whole, and the amount of a   *)
(* withdraw ticket is out of the balance until the ticket closes, once, by *)
(* its redemption or by a refund.                                          *)
(*                                                                         *)
(* A restart may undo half of the one operation it interrupts, since the   *)
(* ledger's statements share no transaction; nothing else breaks a promise.*)
(***************************************************************************)
EXTENDS Integers, Sequences

CONSTANTS Accounts, Amounts,
          DepositTxs, DepositOf,  \* deposits and the [account, amount] of each
          MaxRestarts             \* bound: restarts

VARIABLES balance,   \* what each account may spend
          credited,  \* the deposits credited
          tickets,   \* [account, amount, open], by nonce
          restarts   \* count

vars == <<balance, credited, tickets, restarts>>

Init ==
    /\ balance = [a \in Accounts |-> 0]
    /\ credited = {} /\ tickets = <<>> /\ restarts = 0

Deposit(d) ==
    /\ d \notin credited
    /\ credited' = credited \cup {d}
    /\ balance' = [balance EXCEPT ![DepositOf[d].account] = @ + DepositOf[d].amount]
    /\ UNCHANGED <<tickets, restarts>>

Transfer(a, b, amount) ==
    /\ balance[a] >= amount
    /\ balance' = [[balance EXCEPT ![a] = @ - amount] EXCEPT ![b] = @ + amount]
    /\ UNCHANGED <<credited, tickets, restarts>>

Withdraw(a, amount) ==
    /\ balance[a] >= amount
    /\ balance' = [balance EXCEPT ![a] = @ - amount]
    /\ tickets' = Append(tickets, [account |-> a, amount |-> amount, open |-> TRUE])
    /\ UNCHANGED <<credited, restarts>>

Close(n) ==
    /\ tickets[n].open
    /\ tickets' = [tickets EXCEPT ![n].open = FALSE]

Redeem(n) == Close(n) /\ UNCHANGED <<balance, credited, restarts>>

Refund(n) ==
    /\ Close(n)
    /\ balance' = [balance EXCEPT ![tickets[n].account] = @ + tickets[n].amount]
    /\ UNCHANGED <<credited, restarts>>

\* The half of an operation that a restart undoes: the credit of a deposit or of a
\* transfer, the ticket of a withdrawal, the closing of a refunded ticket.
CreditLost(a, amount) ==
    /\ balance' = [balance EXCEPT ![a] = @ - amount]
    /\ UNCHANGED <<credited, tickets>>
TicketLost ==
    /\ tickets # <<>>
    /\ tickets' = SubSeq(tickets, 1, Len(tickets) - 1)
    /\ UNCHANGED <<balance, credited>>
Reopened(n) ==
    /\ tickets' = [tickets EXCEPT ![n].open = TRUE]
    /\ UNCHANGED <<balance, credited>>

Restart ==
    /\ restarts < MaxRestarts
    /\ restarts' = restarts + 1
    /\ \/ UNCHANGED <<balance, credited, tickets>>
       \/ \E a \in Accounts, amount \in Amounts : CreditLost(a, amount)
       \/ TicketLost
       \/ \E n \in DOMAIN tickets : Reopened(n)

Next ==
    \/ \E d \in DepositTxs : Deposit(d)
    \/ \E a, b \in Accounts, amount \in Amounts : Transfer(a, b, amount)
    \/ \E a \in Accounts, amount \in Amounts : Withdraw(a, amount)
    \/ \E n \in DOMAIN tickets : Redeem(n) \/ Refund(n)
    \/ Restart

Spec == Init /\ [][Next]_vars
=============================================================================

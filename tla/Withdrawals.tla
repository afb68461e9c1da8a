----------------------------- MODULE Withdrawals -----------------------------
(***************************************************************************)
(* A withdrawal as the dashboard makes it (rail.tsx, and WithdrawBalance   *)
(* and PendingTicket in transfer-forms.tsx).  The rail debits and answers  *)
(* with a ticket, which is kept in local storage and redeemed on chain     *)
(* before its deadline.  The provider that holds it is mounted again when  *)
(* the wallet changes and comes back; the calls of the old one go on.      *)
(***************************************************************************)
EXTENDS Integers, Sequences

CONSTANTS Providers,    \* bound: mounts of RailProvider at once
          Errands,      \* bound: calls at once
          TicketLife,   \* TICKET_TTL_SECONDS, in minutes
          MaxMinutes,   \* bound: the clock
          MaxIssued     \* bound: tickets

ASSUME WithdrawalAssumptions == {TicketLife, MaxMinutes, MaxIssued} \subseteq Nat

VARIABLES
    minute,     \* the clock, in minutes
    issued,     \* the tickets: deadline, whether the vault honoured it, whether the answer came
    kept,       \* local storage: the ticket, 0 for none
    provider,   \* the provider that is mounted
    display,    \* the ticket each provider holds in memory, 0 for none
    errand,     \* the calls
    waived,     \* the tickets the user dismissed
    doubled,    \* ghost: a ticket was asked for while another call was out
    remounted   \* ghost: the provider was mounted again while a call was out

withdrawalVars == <<minute, issued, kept, provider, display, errand, waived, doubled, remounted>>

NoProvider == "none"
Resting == [at |-> "resting", by |-> NoProvider, ticket |-> 0]
Out == {e \in Errands : errand[e].at # "resting"}

WithdrawalsInit ==
    /\ minute = 0 /\ issued = <<>> /\ kept = 0 /\ waived = {}
    /\ provider \in Providers /\ display = [p \in Providers |-> 0]
    /\ errand = [e \in Errands |-> Resting]
    /\ doubled = FALSE /\ remounted = FALSE
----------------------------------------------------------------------------
Unexpired(n) == minute <= issued[n].deadline

\* The panel counts whole minutes from a clock it reads once a minute, so a ticket in its
\* last minute may look either way.
LooksOpen(n) == minute <= issued[n].deadline
LooksExpired(n) == minute >= issued[n].deadline - 1

Rests(e) == [errand EXCEPT ![e] = Resting]

\* The form is there while the provider holds no ticket.  The drawer can be closed over a
\* call and opened again, so one that is out does not hold the next one back.
AskTicket(e) ==
    /\ e \notin Out /\ display[provider] = 0
    /\ errand' = [errand EXCEPT ![e] = [at |-> "asking", by |-> provider, ticket |-> 0]]
    /\ doubled' = (doubled \/ Out # {})
    /\ UNCHANGED <<minute, issued, kept, provider, display, waived, remounted>>

RailIssues(e) ==
    /\ errand[e].at = "asking" /\ Len(issued) < MaxIssued
    /\ issued' = Append(issued, [deadline |-> minute + TicketLife, redeemed |-> FALSE, told |-> FALSE])
    /\ errand' = [errand EXCEPT ![e].at = "issued", ![e].ticket = Len(issued) + 1]
    /\ UNCHANGED <<minute, kept, provider, display, waived, doubled, remounted>>

TicketArrives(e) ==
    /\ errand[e].at = "issued"
    /\ kept' = errand[e].ticket
    /\ display' = [display EXCEPT ![errand[e].by] = errand[e].ticket]
    /\ issued' = [issued EXCEPT ![errand[e].ticket].told = TRUE]
    /\ errand' = Rests(e)
    /\ UNCHANGED <<minute, provider, waived, doubled, remounted>>

\* Mutant of BeginRedeem: the ticket is forgotten when the transaction is sent.
BeginRedeemForgetting(e) ==
    /\ e \notin Out /\ display[provider] # 0 /\ LooksOpen(display[provider])
    /\ errand' = [errand EXCEPT ![e] = [at |-> "redeeming", by |-> provider,
                                        ticket |-> display[provider]]]
    /\ kept' = 0 /\ display' = [display EXCEPT ![provider] = 0]
    /\ UNCHANGED <<minute, issued, provider, waived, doubled, remounted>>

\* The page and the drawer each have the button, and each looks only at its own call.
BeginRedeem(e) ==
    /\ e \notin Out /\ display[provider] # 0 /\ LooksOpen(display[provider])
    /\ errand' = [errand EXCEPT ![e] = [at |-> "redeeming", by |-> provider,
                                        ticket |-> display[provider]]]
    /\ UNCHANGED <<minute, issued, kept, provider, display, waived, doubled, remounted>>

\* The vault honours a ticket once, until its deadline.
VaultHonours(e) ==
    LET n == errand[e].ticket
    IN /\ errand[e].at = "redeeming" /\ ~issued[n].redeemed /\ Unexpired(n)
       /\ issued' = [issued EXCEPT ![n].redeemed = TRUE]
       /\ errand' = [errand EXCEPT ![e].at = "redeemed"]
       /\ UNCHANGED <<minute, kept, provider, display, waived, doubled, remounted>>

Redeemed(e) ==
    /\ errand[e].at = "redeemed"
    /\ kept' = 0 /\ display' = [display EXCEPT ![errand[e].by] = 0]
    /\ errand' = Rests(e)
    /\ UNCHANGED <<minute, issued, provider, waived, doubled, remounted>>

\* The wallet refuses, the rail or the vault does, or an answer or a receipt does not come.
ErrandFails(e) ==
    /\ e \in Out
    /\ errand' = Rests(e)
    /\ UNCHANGED <<minute, issued, kept, provider, display, waived, doubled, remounted>>

DismissTicket ==
    /\ display[provider] # 0 /\ LooksExpired(display[provider])
    /\ waived' = waived \cup {display[provider]}
    /\ kept' = 0 /\ display' = [display EXCEPT ![provider] = 0]
    /\ UNCHANGED <<minute, issued, provider, errand, doubled, remounted>>

\* Another wallet is connected, and this one again.
Remount(p) ==
    /\ p # provider /\ \A e \in Out : errand[e].by # p
    /\ provider' = p /\ display' = [display EXCEPT ![p] = kept, ![provider] = 0]
    /\ remounted' = (remounted \/ Out # {})
    /\ UNCHANGED <<minute, issued, kept, errand, waived, doubled>>

\* The page is loaded again.
ReloadRail ==
    /\ errand' = [e \in Errands |-> Resting]
    /\ display' = [p \in Providers |-> IF p = provider THEN kept ELSE 0]
    /\ <<errand, display>>' # <<errand, display>>
    /\ UNCHANGED <<minute, issued, kept, provider, waived, doubled, remounted>>

Minute ==
    /\ minute < MaxMinutes /\ minute' = minute + 1
    /\ UNCHANGED <<issued, kept, provider, display, errand, waived, doubled, remounted>>

WithdrawalsNext ==
    \/ \E e \in Errands :
          \/ AskTicket(e) \/ RailIssues(e) \/ TicketArrives(e)
          \/ BeginRedeem(e) \/ VaultHonours(e) \/ Redeemed(e) \/ ErrandFails(e)
    \/ DismissTicket \/ ReloadRail \/ Minute
    \/ \E p \in Providers : Remount(p)
----------------------------------------------------------------------------
WithdrawalsTypeOK ==
    /\ minute \in 0..MaxMinutes /\ kept \in 0..Len(issued) /\ waived \subseteq 1..Len(issued)
    /\ issued \in Seq([deadline : Nat, redeemed : BOOLEAN, told : BOOLEAN])
    /\ provider \in Providers /\ display \in [Providers -> 0..Len(issued)]
    /\ errand \in [Errands -> [at : {"resting", "asking", "issued", "redeeming", "redeemed"},
                               by : Providers \cup {NoProvider}, ticket : 0..Len(issued)]]
    /\ {doubled, remounted} \subseteq BOOLEAN

\* A ticket the rail has debited for and answered with is not forgotten while the vault would
\* still honour it, through refused and failed redemptions, two buttons that redeem it at
\* once, and reloads; and the page shows the one that is kept (withdraw, redeem,
\* forgetTicket).  A redemption forgets whatever ticket is kept by then, and a provider that
\* is mounted while a call of an older one is out does not hear of its outcome.
TicketsKept ==
    /\ ~remounted => display[provider] = kept
    /\ ~remounted /\ ~doubled =>
          \A n \in DOMAIN issued :
              issued[n].told /\ ~issued[n].redeemed /\ Unexpired(n) => n \in waived \cup {kept}
=============================================================================

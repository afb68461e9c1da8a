------------------------------ MODULE Payments -------------------------------
(***************************************************************************)
(* The form that sends a payment (web/src/components/dashboard/            *)
(* transfer-forms.tsx).  It looks up what the user types, pays through the *)
(* rail and then writes a receipt.  The drawer may be closed over a form   *)
(* that is still at work, and a new form opened beside it; all of them     *)
(* keep the payment whose receipt is missing in one slot of local storage. *)
(***************************************************************************)
EXTENDS Integers, Sequences

CONSTANTS Forms,        \* bound: forms at once
          Payees,       \* what the user may type
          NoPayee,      \* nothing that can be paid
          MaxTyped,     \* bound: texts typed
          MaxPayments   \* bound: payments

ASSUME PaymentAssumptions ==
    NoPayee \notin Payees /\ "none" \notin Forms /\ MaxTyped \in Nat /\ MaxPayments \in Nat

VARIABLES
    form,       \* the forms
    drawer,     \* the form that the drawer shows
    slot,       \* local storage: the payment whose receipt is missing, 0 for none
    paid,       \* the payments: whom, under which name, and whether the rail's answer came
    receipts,   \* the payments with a receipt in the vault
    dismissed,  \* the payments whose id the user says to have saved
    typed,      \* texts typed so far
    hasty,      \* ghost: the user typed on while a lookup was out
    overlapped  \* ghost: a payment was made while the receipt of another was missing

paymentVars == <<form, drawer, slot, paid, receipts, dismissed, typed, hasty, overlapped>>

NoForm == "none"
Steps == {"idle", "checking", "paying", "storing"}

\* What was typed, whom the candidate would pay, the lookups that are out, the payment under
\* way, the payment whose receipt the form knows is missing, and whether it was in the vault
\* when the form began to write it.
Fresh(missing) == [field |-> NoPayee, candidate |-> NoPayee, asked |-> {}, step |-> "idle",
                   to |-> NoPayee, name |-> NoPayee, missing |-> missing,
                   exists |-> FALSE]

PaymentsInit ==
    /\ form = [f \in Forms |-> Fresh(0)] /\ drawer = NoForm
    /\ slot = 0 /\ paid = <<>> /\ receipts = {} /\ dismissed = {}
    /\ typed = 0 /\ hasty = FALSE /\ overlapped = FALSE
----------------------------------------------------------------------------
WritingReceipt(f) == form[f].step = "storing"
AtWork(f) == form[f].step # "idle"

\* The drawer closes: what a form has begun goes on without it.
Unmounted(forms) ==
    [f \in Forms |-> IF forms[f].step = "idle" THEN Fresh(0)
                     ELSE [forms[f] EXCEPT !.field = NoPayee, !.candidate = NoPayee, !.asked = {}]]

\* A form is at rest again; nothing is left of it once the drawer is closed.
Rested(f, missing) ==
    [form EXCEPT ![f] = IF drawer' # f THEN Fresh(0)
                        ELSE [@ EXCEPT !.step = "idle", !.to = NoPayee, !.name = NoPayee, !.missing = missing,
                                       !.exists = FALSE]]

\* The form is replaced by the warning once nothing is under way.
Fillable(f) == drawer = f /\ (form[f].missing = 0 \/ AtWork(f))
Warned(f) == drawer = f /\ form[f].missing # 0 /\ ~AtWork(f)

OpenDrawer(f) ==
    /\ drawer = NoForm /\ ~AtWork(f)
    /\ drawer' = f
    /\ form' = [form EXCEPT ![f] = Fresh(slot)]
    /\ UNCHANGED <<slot, paid, receipts, dismissed, typed, hasty, overlapped>>

CloseDrawer ==
    /\ drawer # NoForm
    /\ drawer' = NoForm
    /\ form' = Unmounted(form)
    /\ UNCHANGED <<slot, paid, receipts, dismissed, typed, hasty, overlapped>>

\* Mutant of Looks: what was found for the earlier text stands until the answer comes.
LooksOn(r, p) == [r EXCEPT !.field = p, !.asked = @ \cup ({p} \ {NoPayee})]

Looks(r, p) == [r EXCEPT !.field = p, !.candidate = NoPayee, !.asked = @ \cup ({p} \ {NoPayee})]

Types(f, p) ==
    /\ Fillable(f) /\ p # form[f].field /\ typed < MaxTyped
    /\ typed' = typed + 1
    /\ form' = [form EXCEPT ![f] = Looks(form[f], p)]
    /\ hasty' = (hasty \/ form[f].asked # {})
    /\ UNCHANGED <<drawer, slot, paid, receipts, dismissed, overlapped>>

\* A lookup answers, and the form takes it whatever was typed since.
LookAnswers(f, p) ==
    /\ p \in form[f].asked
    /\ \E found \in {p, NoPayee} :
          form' = [form EXCEPT ![f].asked = @ \ {p}, ![f].candidate = found]
    /\ UNCHANGED <<drawer, slot, paid, receipts, dismissed, typed, hasty, overlapped>>

Submits(f) ==
    /\ Fillable(f) /\ ~AtWork(f) /\ {form[f].candidate, form[f].field} \subseteq Payees
    /\ form' = [form EXCEPT ![f].step = "checking", ![f].to = form[f].candidate, ![f].name = form[f].field]
    /\ UNCHANGED <<drawer, slot, paid, receipts, dismissed, typed, hasty, overlapped>>

\* The gas for the receipt is there; or it is not, or cannot be read, and nothing is paid.
Affords(f) ==
    /\ form[f].step = "checking"
    /\ UNCHANGED drawer
    /\ \/ form' = [form EXCEPT ![f].step = "paying"]
       \/ form' = Rested(f, form[f].missing)
    /\ UNCHANGED <<slot, paid, receipts, dismissed, typed, hasty, overlapped>>

Payment(r, known) == [to |-> r.to, name |-> r.name, known |-> known]

\* Mutant of Pays: the payment is kept by the form alone.
PaysUnkept(f) ==
    LET tx == Len(paid) + 1
    IN /\ form[f].step = "paying" /\ tx <= MaxPayments
       /\ paid' = Append(paid, Payment(form[f], TRUE))
       /\ form' = [form EXCEPT ![f].step = "storing", ![f].to = NoPayee, ![f].name = NoPayee,
                              ![f].missing = tx]
       /\ overlapped' = (overlapped \/ slot # 0 \/ \E g \in Forms \ {f} : WritingReceipt(g))
       /\ UNCHANGED <<drawer, slot, receipts, dismissed, typed, hasty>>

\* The rail pays and answers.
Pays(f) ==
    LET tx == Len(paid) + 1
    IN /\ form[f].step = "paying" /\ tx <= MaxPayments
       /\ paid' = Append(paid, Payment(form[f], TRUE))
       /\ slot' = tx
       /\ form' = [form EXCEPT ![f].step = "storing", ![f].to = NoPayee, ![f].name = NoPayee,
                              ![f].missing = tx]
       /\ overlapped' = (overlapped \/ slot # 0 \/ \E g \in Forms \ {f} : WritingReceipt(g))
       /\ UNCHANGED <<drawer, receipts, dismissed, typed, hasty>>

\* The rail refuses; or it pays and its answer is lost.
PayFails(f) ==
    /\ form[f].step = "paying"
    /\ \/ UNCHANGED paid
       \/ Len(paid) < MaxPayments /\ paid' = Append(paid, Payment(form[f], FALSE))
    /\ UNCHANGED drawer
    /\ form' = Rested(f, form[f].missing)
    /\ UNCHANGED <<slot, receipts, dismissed, typed, hasty, overlapped>>

\* The receipt is in the vault; the drawer closes, whichever form it shows by now.
Writes(f) ==
    /\ WritingReceipt(f) /\ ~form[f].exists
    /\ receipts' = receipts \cup {form[f].missing}
    /\ slot' = 0 /\ drawer' = NoForm
    /\ form' = Unmounted([form EXCEPT ![f] = Fresh(0)])
    /\ UNCHANGED <<paid, dismissed, typed, hasty, overlapped>>

\* The write fails, as it does if the receipt exists; or it is sent and not confirmed in time.
WriteFails(f) ==
    /\ WritingReceipt(f)
    /\ \E sent \in SUBSET {form[f].missing} : receipts' = receipts \cup sent
    /\ UNCHANGED drawer
    /\ form' = Rested(f, form[f].missing)
    /\ UNCHANGED <<slot, paid, dismissed, typed, hasty, overlapped>>

Retries(f) ==
    /\ Warned(f)
    /\ form' = [form EXCEPT ![f].step = "storing", ![f].exists = form[f].missing \in receipts]
    /\ UNCHANGED <<drawer, slot, paid, receipts, dismissed, typed, hasty, overlapped>>

\* The user has saved the id.
Dismisses(f) ==
    /\ Warned(f)
    /\ slot' = 0 /\ dismissed' = dismissed \cup {form[f].missing}
    /\ form' = [form EXCEPT ![f].missing = 0]
    /\ UNCHANGED <<drawer, paid, receipts, typed, hasty, overlapped>>

\* The page is loaded again, and what was under way is cut off.
Reloads ==
    /\ drawer # NoForm \/ \E f \in Forms : AtWork(f)
    /\ form' = [f \in Forms |-> Fresh(0)] /\ drawer' = NoForm
    /\ UNCHANGED <<slot, paid, receipts, dismissed, typed, hasty, overlapped>>

PaymentsNext ==
    \/ \E f \in Forms :
          \/ OpenDrawer(f) \/ Submits(f) \/ Affords(f) \/ Pays(f) \/ PayFails(f)
          \/ Writes(f) \/ WriteFails(f) \/ Retries(f) \/ Dismisses(f)
          \/ \E p \in Payees \cup {NoPayee} : Types(f, p)
          \/ \E p \in form[f].asked : LookAnswers(f, p)
    \/ CloseDrawer \/ Reloads
----------------------------------------------------------------------------
PaymentsTypeOK ==
    /\ form \in [Forms -> [field : Payees \cup {NoPayee}, candidate : Payees \cup {NoPayee},
                           asked : SUBSET Payees, step : Steps, to : Payees \cup {NoPayee},
                           name : Payees \cup {NoPayee}, missing : 0..Len(paid), exists : BOOLEAN]]
    /\ drawer \in Forms \cup {NoForm} /\ slot \in 0..Len(paid)
    /\ paid \in Seq([to : Payees, name : Payees, known : BOOLEAN])
    /\ receipts \subseteq 1..Len(paid) /\ dismissed \subseteq 1..Len(paid)
    /\ typed \in 0..MaxTyped /\ {hasty, overlapped} \subseteq BOOLEAN

\* No payment the rail has answered is forgotten: it has its receipt, or waits for it in
\* local storage, or the user said to have its id, through failed writes, retries, closed
\* drawers and reloads; and it went to the one whose name it is recorded under
\* (transfer-forms.tsx).  One slot cannot hold two payments, and lookups that are out
\* together may answer in either order.
PaymentsRecorded ==
    \A tx \in 1..Len(paid) :
        /\ paid[tx].known /\ ~overlapped => tx \in receipts \cup dismissed \cup {slot}
        /\ ~hasty => paid[tx].to = paid[tx].name
=============================================================================

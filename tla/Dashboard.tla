------------------------------ MODULE Dashboard ------------------------------
(***************************************************************************)
(* The dashboard (web/src/components/dashboard): the shell that shows the  *)
(* vault of the connected wallet, the session of its key, the transfers    *)
(* with their payments and withdrawals, and what the drawer shows of a     *)
(* secret: its value, who may read it, and the forms that store one.  The  *)
(* providers nest in this order and an inner one changes nothing of an     *)
(* outer one but by the calls its module makes itself, so a behaviour      *)
(* follows one of them.                                                    *)
(***************************************************************************)
EXTENDS Workspace, KeySession, Payments, Withdrawals, Reveals, Grants, Stores

VARIABLE desk  \* the part of the dashboard that is followed

transferVars == <<paymentVars, withdrawalVars>>
drawerVars == <<revealVars, grantVars, storeVars>>
dashboardVars == <<workspaceVars, sessionVars, transferVars, drawerVars, desk>>

Desks == {"away", "shell", "session", "payments", "withdrawals", "value", "access", "store"}

\* A part that is not followed rests in one of its initial states.
DashboardInit ==
    /\ desk \in Desks
    /\ WorkspaceInit /\ SessionInit /\ PaymentsInit /\ WithdrawalsInit
    /\ RevealsInit /\ GrantsInit /\ StoresInit
    /\ desk # "shell" => cached = CHOOSE names \in Remembered : TRUE
    /\ desk # "session" => /\ visit = CHOOSE v \in Visits : TRUE
                           /\ signer = CHOOSE w \in Signers : TRUE
                           /\ naming = "unknown"
    /\ desk # "withdrawals" => provider = CHOOSE p \in Providers : TRUE
    /\ desk # "value" => keyHeld = FALSE

TransfersNext ==
    \/ desk = "payments" /\ PaymentsNext /\ UNCHANGED withdrawalVars
    \/ desk = "withdrawals" /\ WithdrawalsNext /\ UNCHANGED paymentVars

DrawerNext ==
    \/ desk = "value" /\ RevealsNext /\ UNCHANGED <<grantVars, storeVars>>
    \/ desk = "access" /\ GrantsNext /\ UNCHANGED <<revealVars, storeVars>>
    \/ desk = "store" /\ StoresNext /\ UNCHANGED <<revealVars, grantVars>>

DashboardNext ==
    \/ desk = "shell" /\ WorkspaceNext /\ UNCHANGED <<sessionVars, transferVars, drawerVars>>
    \/ desk = "session" /\ SessionNext /\ UNCHANGED <<workspaceVars, transferVars, drawerVars>>
    \/ TransfersNext /\ UNCHANGED <<workspaceVars, sessionVars, drawerVars>>
    \/ DrawerNext /\ UNCHANGED <<workspaceVars, sessionVars, transferVars>>

\* Every variable of the dashboard keeps its type.
DashboardTypeOK ==
    /\ desk \in Desks /\ WorkspaceTypeOK /\ SessionTypeOK
    /\ PaymentsTypeOK /\ WithdrawalsTypeOK /\ RevealsTypeOK /\ GrantsTypeOK /\ StoresTypeOK

\* The drawer acts on what it showed: the value it shows is the last it stored, who is
\* granted is the one whose fingerprint was shown, and a secret is replaced as the user
\* agreed to.
DrawerActsAsShown == ShowsTheLatest /\ GrantsWhoIsShown /\ ReplacesWhatWasAsked
=============================================================================

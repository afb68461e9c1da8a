-------------------------------- MODULE Owners -------------------------------
(***************************************************************************)
(* What an owner does to a vault: the calls of the SDK, and the dashboard. *)
(* The dashboard makes no call OwnerCalls models, so a behaviour follows   *)
(* one of the two.                                                         *)
(***************************************************************************)
EXTENDS OwnerCalls, Dashboard

ownersVars == <<ownerVars, dashboardVars>>

\* The calls wait in an initial state while the dashboard is followed.
OwnersInit ==
    /\ OwnerInit /\ DashboardInit
    /\ desk # "away" => part = CHOOSE p \in Parts : TRUE

OwnersNext ==
    \/ desk = "away" /\ OwnerNext /\ UNCHANGED dashboardVars
    \/ desk # "away" /\ DashboardNext /\ UNCHANGED <<ownerVars, desk>>

OwnersSpec == OwnersInit /\ [][OwnersNext]_ownersVars
=============================================================================

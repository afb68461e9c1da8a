------------------------------ MODULE OwnerCalls ------------------------------
(***************************************************************************)
(* What the SDK publishes beside a secret's own records: team keys,        *)
(* guardian sets and the index.  The three share no record, so a behaviour *)
(* follows one of them.                                                    *)
(***************************************************************************)
EXTENDS Teams, GuardianSets, SecretIndex

CONSTANT Parts  \* bound: what a behaviour may follow
VARIABLE part

ASSUME PartsAssumption == Parts \subseteq {"teams", "guardians", "index"}

ownerVars == <<part, teamVars, guardianVars, indexVars>>

OwnerInit ==
    /\ part \in Parts
    /\ TeamsInit /\ GuardianSetsInit /\ SecretIndexInit

OwnerNext ==
    /\ UNCHANGED part
    /\ \/ part = "teams" /\ TeamsNext /\ UNCHANGED <<guardianVars, indexVars>>
       \/ part = "guardians" /\ GuardianSetsNext /\ UNCHANGED <<teamVars, indexVars>>
       \/ part = "index" /\ SecretIndexNext /\ UNCHANGED <<teamVars, guardianVars>>

OwnerSpec == OwnerInit /\ [][OwnerNext]_ownerVars
----------------------------------------------------------------------------
\* Every variable keeps its type.
OwnerTypeOK == TeamsTypeOK /\ GuardianSetsTypeOK /\ SecretIndexTypeOK
=============================================================================

-------------------------------- MODULE Teams --------------------------------
(***************************************************************************)
(* Team keys: a name publishes the key its members share (subtree.init),   *)
(* seals a copy to each member (subtree.distribute), bumps the version to  *)
(* remove one (subtree.rotate), and a secret is sealed to the key that is  *)
(* published (client.ts, subtree.ts of the SDK).  Each call reads the      *)
(* version, waits for the wallet and writes; a distribution sends one      *)
(* transaction for each resolver, any of which may be rejected.            *)
(*                                                                         *)
(* The key is derived from the version, so a version stands for its key.   *)
(***************************************************************************)
EXTENDS Integers, FiniteSets

CONSTANTS Members,
          ResolverOf,   \* the resolver of each member's name
          Parent,       \* the resolver of the team's own name
          TeamClients,  \* bound: calls that run at once
          MaxVersion,   \* bound: rotations
          Unset

Versions == 0..MaxVersion

ASSUME TeamAssumptions == MaxVersion \in Nat /\ Unset \notin Versions

VARIABLES
    team,       \* rewall.subtree.pubkey and rewall.subtree.v
    copy,       \* rewall.subtree.key of each member
    wrap,       \* the team key the secret is sealed to
    tcall,      \* the calls: what they read, and the transactions to come
    known,      \* ghost: the versions each member was ever sent
    addressed,  \* ghost: members a distribution was made for since the last rotation
    given,      \* ghost: members of a distribution completed since
    resealed,   \* ghost: the secret was sealed since
    crossed     \* ghost: a call wrote over a version it had not read

teamVars == <<team, copy, wrap, tcall, known, addressed, given, resealed, crossed>>

NoTeamCall == [op |-> "none", read |-> Unset, who |-> {}, todo |-> {}]
TeamOps == {"init", "distribute", "rotate", "seal"}

TeamsInit ==
    /\ team = Unset /\ wrap = Unset
    /\ copy = [m \in Members |-> Unset]
    /\ tcall = [c \in TeamClients |-> NoTeamCall]
    /\ known = [m \in Members |-> {}]
    /\ addressed = {} /\ given = {}
    /\ resealed = FALSE /\ crossed = FALSE

\* subtreeVersion: an unset version is version 0.
Version(read) == IF read = Unset THEN 0 ELSE read

\* Mutant of Bumped: the version is published again as it is.
BumpedNot(read) == Version(read)
Bumped(read) == Version(read) + 1

\* A call reads the version, or the published key it seals to.
BeginTeam(c, op, who) ==
    /\ tcall[c].op = "none"
    /\ CASE op = "distribute" -> who # {}
         [] op = "rotate" -> who = {} /\ Version(team) < MaxVersion
         [] op = "seal" -> who = {} /\ team # Unset
         [] op = "init" -> who = {}
    /\ tcall' = [tcall EXCEPT ![c] =
                    [op |-> op, read |-> team, who |-> who,
                     todo |-> IF op = "distribute" THEN {ResolverOf[m] : m \in who} ELSE {Parent}]]
    /\ UNCHANGED <<team, copy, wrap, known, addressed, given, resealed, crossed>>

Crosses(c) == crossed' = (crossed \/ team # tcall[c].read)
EndTeam(c) == tcall' = [tcall EXCEPT ![c] = NoTeamCall]

\* init publishes the key of the version it read.
LandInit(c) ==
    /\ tcall[c].op = "init"
    /\ team' = Version(tcall[c].read)
    /\ Crosses(c) /\ EndTeam(c)
    /\ UNCHANGED <<copy, wrap, known, addressed, given, resealed>>

\* rotate publishes the next one: every member is out until it is sent a copy.
LandRotate(c) ==
    /\ tcall[c].op = "rotate"
    /\ team' = Bumped(tcall[c].read)
    /\ addressed' = {} /\ given' = {} /\ resealed' = FALSE
    /\ Crosses(c) /\ EndTeam(c)
    /\ UNCHANGED <<copy, wrap, known>>

\* One transaction of distribute.
LandCopies(c, r) ==
    LET call == tcall[c]
        here == {m \in call.who : ResolverOf[m] = r}
        v == Version(call.read)
    IN /\ call.op = "distribute" /\ r \in call.todo
       /\ copy' = [m \in Members |-> IF m \in here THEN v ELSE copy[m]]
       /\ known' = [m \in Members |-> IF m \in here THEN known[m] \cup {v} ELSE known[m]]
       /\ addressed' = addressed \cup here
       /\ Crosses(c)
       /\ IF call.todo = {r}
          THEN EndTeam(c) /\ given' = given \cup call.who
          ELSE tcall' = [tcall EXCEPT ![c].todo = @ \ {r}] /\ UNCHANGED given
       /\ UNCHANGED <<team, wrap, resealed>>

\* create, grant and rotate of a secret with the team among its grantees: a new data key
\* is wrapped to the key that was read.
LandSeal(c) ==
    /\ tcall[c].op = "seal"
    /\ wrap' = tcall[c].read /\ resealed' = TRUE
    /\ Crosses(c) /\ EndTeam(c)
    /\ UNCHANGED <<team, copy, known, addressed, given>>

\* The wallet refuses a transaction, or it reverts: what was mined before stays.
RejectTeam(c) ==
    /\ tcall[c].op # "none"
    /\ EndTeam(c)
    /\ UNCHANGED <<team, copy, wrap, known, addressed, given, resealed, crossed>>

TeamsNext ==
    \E c \in TeamClients :
        \/ \E op \in TeamOps, who \in SUBSET Members : BeginTeam(c, op, who)
        \/ LandInit(c) \/ LandRotate(c) \/ LandSeal(c) \/ RejectTeam(c)
        \/ \E r \in tcall[c].todo : LandCopies(c, r)

TeamsSpec == TeamsInit /\ [][TeamsNext]_teamVars
----------------------------------------------------------------------------
\* Properties.

\* Every variable keeps its type.
TeamsTypeOK ==
    /\ {team, wrap} \subseteq Versions \cup {Unset}
    /\ copy \in [Members -> Versions \cup {Unset}]
    /\ \A c \in TeamClients : tcall[c].op \in TeamOps \cup {"none"} /\ tcall[c].who \subseteq Members
    /\ known \in [Members -> SUBSET Versions]
    /\ given \subseteq Members /\ addressed \subseteq Members
    /\ resealed \in BOOLEAN /\ crossed \in BOOLEAN

\* A rotation removes: a secret sealed since then opens for every member that was
\* handed the new key and for no member that was not, whatever part of a distribution
\* fails, as long as no two calls cross (subtree.rotate, subtree.distribute, grant).
TeamKept ==
    resealed /\ ~crossed =>
        \A m \in Members : /\ m \in given => copy[m] = wrap
                           /\ m \notin addressed => wrap \notin known[m]
=============================================================================

---------------------------- MODULE OwnerCalls_proofs ----------------------------
(***************************************************************************)
(* What the SDK publishes beside a secret's own records, for any number of *)
(* resolvers, guardians, labels and calls at once: a rotation of a team    *)
(* key removes, a quorum of guardians recovers and nothing less, and the   *)
(* index lists the secrets there are.                                      *)
(***************************************************************************)
EXTENDS OwnerCalls, FiniteSetTheorems, TLAPS

----------------------------------------------------------------------------
\* The inductive invariant.  While no two calls cross, a version is only ever replaced
\* by a later one, so a call whose reading is still the current version is the only
\* kind that can land; and a distribution that is half done has served the resolvers
\* it has sent to.
TeamCallTypes == [op : TeamOps \cup {"none"}, read : Versions \cup {Unset},
              who : SUBSET Members, todo : SUBSET ({ResolverOf[m] : m \in Members} \cup {Parent})]

TeamTypes ==
    /\ team \in Versions \cup {Unset} /\ wrap \in Versions \cup {Unset}
    /\ copy \in [Members -> Versions \cup {Unset}]
    /\ tcall \in [TeamClients -> TeamCallTypes]
    /\ known \in [Members -> SUBSET Versions]
    /\ addressed \subseteq Members /\ given \subseteq Members
    /\ resealed \in BOOLEAN /\ crossed \in BOOLEAN

\* What a call read: a seal has a published key, a rotation a version to go to.
Readings ==
    \A c \in TeamClients :
        /\ tcall[c].op = "seal" => tcall[c].read # Unset
        /\ tcall[c].op = "rotate" => Version(tcall[c].read) < MaxVersion

\* No call read a later version than the current one.
Earlier ==
    \A c \in TeamClients :
        tcall[c].op # "none" /\ tcall[c].read # Unset => team # Unset /\ tcall[c].read <= team

Served ==
    \A c \in TeamClients :
        tcall[c].op = "distribute" /\ tcall[c].read = team =>
            \A m \in tcall[c].who : ResolverOf[m] \in tcall[c].todo \/ copy[m] = Version(team)

Handed ==
    /\ resealed => wrap = team /\ team # Unset
    /\ \A m \in given : copy[m] = Version(team)
    /\ \A m \in Members : \A v \in known[m] : v <= Version(team)
    /\ \A m \in Members \ addressed : Version(team) \notin known[m]

TeamInv == TeamTypes /\ Readings /\ (~crossed => Earlier /\ Served /\ Handed)

----------------------------------------------------------------------------
LEMMA InitTeam == TeamsInit => TeamInv
<1> SUFFICES ASSUME TeamsInit PROVE TeamInv
  OBVIOUS
<1>1. NoTeamCall \in TeamCallTypes /\ \A c \in TeamClients : tcall[c] = NoTeamCall
  BY DEF NoTeamCall, TeamCallTypes, TeamsInit
<1>2. TeamTypes
  BY <1>1 DEF TeamsInit, TeamTypes
<1>3. Readings /\ Earlier /\ Served
  BY <1>1 DEF NoTeamCall, Readings, Earlier, Served
<1>4. Handed
  BY DEF TeamsInit, Handed
<1> QED  BY <1>2, <1>3, <1>4 DEF TeamInv

LEMMA VersionType == \A v \in Versions \cup {Unset} : Version(v) \in Versions
  BY TeamAssumptions DEF Version, Versions

\* A call that begins reads the current version and has served nobody.
LEMMA BeginKeepsTeam ==
  ASSUME TeamInv, NEW c \in TeamClients, NEW op \in TeamOps, NEW who \in SUBSET Members,
         BeginTeam(c, op, who)
  PROVE  TeamInv'
<1> DEFINE call == [op |-> op, read |-> team, who |-> who,
                    todo |-> IF op = "distribute" THEN {ResolverOf[m] : m \in who} ELSE {Parent}]
<1>1. /\ tcall' = [tcall EXCEPT ![c] = call]
      /\ UNCHANGED <<team, copy, wrap, known, addressed, given, resealed, crossed>>
      /\ op = "rotate" => Version(team) < MaxVersion
      /\ op = "seal" => team # Unset
  BY DEF BeginTeam, TeamOps
<1>2. call \in TeamCallTypes
  BY DEF TeamCallTypes, TeamInv, TeamTypes
<1>3. /\ call.op = op /\ call.read = team /\ call.who = who
      /\ op = "distribute" => call.todo = {ResolverOf[m] : m \in who}
  OBVIOUS
<1> HIDE DEF call
<1>4. \A d \in TeamClients : tcall'[d] = IF d = c THEN call ELSE tcall[d]
  BY <1>1 DEF TeamInv, TeamTypes
<1>5. TeamTypes'
  BY <1>1, <1>2 DEF TeamInv, TeamTypes
<1>6. Readings'
  BY <1>1, <1>3, <1>4 DEF TeamInv, Readings
<1>7. ASSUME ~crossed PROVE Earlier' /\ Served' /\ Handed'
  <2>1. Handed'
    BY <1>1, <1>7 DEF TeamInv, Handed
  <2>2. Earlier'
    BY <1>1, <1>3, <1>4, <1>7, TeamAssumptions DEF TeamInv, TeamTypes, Earlier, Versions
  <2>3. Served'
    BY <1>1, <1>3, <1>4, <1>7 DEF TeamInv, Served
  <2> QED  BY <2>1, <2>2, <2>3
<1> QED  BY <1>1, <1>5, <1>6, <1>7 DEF TeamInv

\* A call that ends leaves the others as they are.
LEMMA Ended ==
  ASSUME TeamInv, NEW c \in TeamClients, EndTeam(c)
  PROVE  /\ \A d \in TeamClients : tcall'[d] = IF d = c THEN NoTeamCall ELSE tcall[d]
         /\ tcall' \in [TeamClients -> TeamCallTypes]
         /\ Readings'
  BY TeamAssumptions DEF EndTeam, TeamInv, TeamTypes, TeamCallTypes, NoTeamCall, Readings

LEMMA InitKeepsTeam ==
  ASSUME TeamInv, NEW c \in TeamClients, LandInit(c)
  PROVE  TeamInv'
<1>1. /\ EndTeam(c) /\ team' = Version(tcall[c].read)
      /\ crossed' = (crossed \/ team # tcall[c].read)
      /\ UNCHANGED <<copy, wrap, known, addressed, given, resealed>>
      /\ tcall[c] \in TeamCallTypes
  BY DEF LandInit, Crosses, TeamInv, TeamTypes
<1>2. TeamTypes' /\ Readings'
  BY <1>1, Ended, VersionType DEF TeamInv, TeamTypes, TeamCallTypes
<1>3. ASSUME ~crossed'
      PROVE  Earlier' /\ Served' /\ Handed'
  <2>1. ~crossed /\ team' = Version(team) /\ team' # Unset /\ (team # Unset => team' = team)
    BY <1>1, <1>2, <1>3, TeamAssumptions, VersionType DEF TeamInv, TeamTypes, Version
  <2>2. Version(team') = Version(team)
    BY <2>1 DEF Version
  <2>3. Earlier'
    BY <1>1, <2>1, Ended DEF TeamInv, Earlier, NoTeamCall
  <2>4. Served'
    <3> SUFFICES ASSUME NEW d \in TeamClients,
                        tcall'[d].op = "distribute", tcall'[d].read = team',
                        NEW m \in tcall'[d].who, ResolverOf[m] \notin tcall'[d].todo
                 PROVE  copy'[m] = Version(team')
      BY DEF Served
    <3>1. tcall'[d] = tcall[d]
      BY <1>1, Ended DEF NoTeamCall
    <3>2. tcall[d].read = team
      BY <2>1, <3>1 DEF TeamInv, Earlier
    <3> QED  BY <1>1, <2>1, <2>2, <3>1, <3>2 DEF TeamInv, Served
  <2>5. Handed'
    BY <1>1, <2>1, <2>2 DEF TeamInv, Handed
  <2> QED  BY <2>3, <2>4, <2>5
<1> QED  BY <1>2, <1>3 DEF TeamInv

LEMMA RotateKeepsTeam ==
  ASSUME TeamInv, NEW c \in TeamClients, LandRotate(c)
  PROVE  TeamInv'
<1>1. /\ EndTeam(c) /\ team' = Version(tcall[c].read) + 1
      /\ addressed' = {} /\ given' = {} /\ resealed' = FALSE
      /\ crossed' = (crossed \/ team # tcall[c].read)
      /\ UNCHANGED <<copy, wrap, known>>
      /\ tcall[c] \in TeamCallTypes /\ Version(tcall[c].read) < MaxVersion
  BY DEF LandRotate, Bumped, Crosses, TeamInv, TeamTypes, Readings
<1>2. TeamTypes' /\ Readings'
  <2>1. team' \in Versions
    <3>1. Version(tcall[c].read) \in 0..MaxVersion
      BY <1>1, VersionType DEF TeamCallTypes, Versions
    <3> QED  BY <1>1, <3>1, TeamAssumptions DEF Versions
  <2> QED  BY <1>1, <2>1, Ended DEF TeamInv, TeamTypes
<1>3. ASSUME ~crossed'
      PROVE  Earlier' /\ Served' /\ Handed'
  <2>1. ~crossed /\ team' = Version(team) + 1 /\ team' # Unset /\ Version(team') = team'
        /\ Version(team) \in Nat
    <3>1. ~crossed /\ team' = Version(team) + 1 /\ Version(team) < MaxVersion
      BY <1>1, <1>3
    <3>2. Version(team) \in 0..MaxVersion
      BY VersionType DEF TeamInv, TeamTypes, Versions
    <3>3. team' \in Versions
      BY <3>1, <3>2, TeamAssumptions DEF Versions
    <3>4. team' # Unset
      BY <3>3, TeamAssumptions
    <3> QED  BY <3>1, <3>2, <3>4, TeamAssumptions DEF Version
  <2>2. \A d \in TeamClients : tcall'[d].op # "none" /\ tcall'[d].read # Unset
                               => tcall'[d].read < team' /\ tcall'[d].read \in Nat
    BY <1>1, <2>1, Ended, TeamAssumptions
       DEF TeamInv, TeamTypes, TeamCallTypes, Earlier, NoTeamCall, Version, Versions
  <2>3. Earlier'
    BY <2>1, <2>2 DEF Earlier
  <2>4. Served'
    BY <2>1, <2>2 DEF Served
  <2>5. Handed'
    <3>1. \A m \in Members : \A v \in known[m] : v \in Nat /\ v <= Version(team)
      BY <2>1, TeamAssumptions DEF TeamInv, TeamTypes, Handed, Versions
    <3> QED  BY <1>1, <2>1, <3>1 DEF Handed
  <2> QED  BY <2>3, <2>4, <2>5
<1> QED  BY <1>2, <1>3 DEF TeamInv

LEMMA SealKeepsTeam ==
  ASSUME TeamInv, NEW c \in TeamClients, LandSeal(c)
  PROVE  TeamInv'
<1>1. /\ EndTeam(c) /\ wrap' = tcall[c].read /\ resealed' = TRUE
      /\ crossed' = (crossed \/ team # tcall[c].read)
      /\ UNCHANGED <<team, copy, known, addressed, given>>
      /\ tcall[c] \in TeamCallTypes /\ tcall[c].read # Unset
  BY DEF LandSeal, Crosses, TeamInv, TeamTypes, Readings
<1>2. TeamTypes' /\ Readings'
  BY <1>1, Ended DEF TeamInv, TeamTypes, TeamCallTypes
<1>3. ASSUME ~crossed'
      PROVE  Earlier' /\ Served' /\ Handed'
  <2>1. Earlier' /\ Served'
    <3>1. ~crossed /\ Earlier /\ Served
      BY <1>3, <1>1 DEF TeamInv
    <3>2. \A d \in TeamClients : tcall'[d] = tcall[d] \/ tcall'[d].op = "none"
      BY <1>1, Ended DEF NoTeamCall
    <3> QED  BY <1>1, <3>1, <3>2 DEF Earlier, Served
  <2>2. Handed'
    BY <1>1, <1>3 DEF TeamInv, Handed
  <2> QED  BY <2>1, <2>2
<1> QED  BY <1>2, <1>3 DEF TeamInv

LEMMA CopiesKeepTeam ==
  ASSUME TeamInv, NEW c \in TeamClients, NEW r \in tcall[c].todo, LandCopies(c, r)
  PROVE  TeamInv'
<1> DEFINE call == tcall[c]
<1> DEFINE here == {m \in call.who : ResolverOf[m] = r}
<1> DEFINE v == Version(call.read)
<1>1. /\ call.op = "distribute"
      /\ copy' = [m \in Members |-> IF m \in here THEN v ELSE copy[m]]
      /\ known' = [m \in Members |-> IF m \in here THEN known[m] \cup {v} ELSE known[m]]
      /\ addressed' = addressed \cup here
      /\ crossed' = (crossed \/ team # call.read)
      /\ UNCHANGED <<team, wrap, resealed>>
      /\ \/ call.todo = {r} /\ EndTeam(c) /\ given' = given \cup call.who
         \/ tcall' = [tcall EXCEPT ![c].todo = @ \ {r}] /\ given' = given
  BY DEF LandCopies, Crosses
<1>2. call \in TeamCallTypes /\ v \in Versions /\ here \subseteq Members
  BY VersionType DEF TeamInv, TeamTypes, TeamCallTypes
<1>3. \A d \in TeamClients :
        tcall'[d] \in {NoTeamCall, IF d = c THEN [call EXCEPT !.todo = @ \ {r}] ELSE tcall[d]}
  BY <1>1, Ended DEF TeamInv, TeamTypes
<1>4. TeamTypes' /\ Readings'
  <2>1. tcall' \in [TeamClients -> TeamCallTypes] /\ Readings'
    <3>1. CASE EndTeam(c)
      BY <3>1, Ended
    <3>2. CASE tcall' = [tcall EXCEPT ![c].todo = @ \ {r}]
      BY <3>2, <1>2 DEF TeamInv, TeamTypes, TeamCallTypes, Readings
    <3> QED  BY <1>1, <3>1, <3>2
  <2> QED  BY <1>1, <1>2, <2>1 DEF TeamInv, TeamTypes, TeamCallTypes
<1>5. ASSUME ~crossed'
      PROVE  Earlier' /\ Served' /\ Handed'
  <2>1. ~crossed /\ team = call.read /\ v = Version(team) /\ v \in Nat
    <3>1. ~crossed /\ team = call.read
      BY <1>1, <1>5
    <3>2. v \in 0..MaxVersion
      BY <1>2 DEF Versions
    <3> QED  BY <3>1, <3>2
  <2>2. \A m \in Members : copy[m] = v => copy'[m] = v
    BY <1>1
  <2>3. \A m \in here : copy'[m] = v
    BY <1>1, <1>2
  <2>4. \A d \in TeamClients : tcall'[d].op # "none" =>
          /\ tcall'[d].op = tcall[d].op /\ tcall'[d].read = tcall[d].read /\ tcall'[d].who = tcall[d].who
          /\ tcall'[d].todo = IF d = c THEN tcall[d].todo \ {r} ELSE tcall[d].todo
    <3> SUFFICES ASSUME NEW d \in TeamClients, tcall'[d].op # "none"
                 PROVE  /\ tcall'[d].op = tcall[d].op /\ tcall'[d].read = tcall[d].read
                        /\ tcall'[d].who = tcall[d].who
                        /\ tcall'[d].todo = IF d = c THEN tcall[d].todo \ {r} ELSE tcall[d].todo
      OBVIOUS
    <3>1. tcall'[d] # NoTeamCall
      BY DEF NoTeamCall
    <3>2. CASE d = c
      BY <1>2, <1>3, <3>1, <3>2 DEF TeamCallTypes
    <3>3. CASE d # c
      BY <1>3, <3>1, <3>3
    <3> QED  BY <3>2, <3>3
  <2>5. Earlier'
    BY <1>1, <2>1, <2>4 DEF TeamInv, Earlier
  <2>6. Served'
    <3> SUFFICES ASSUME NEW d \in TeamClients,
                        tcall'[d].op = "distribute", tcall'[d].read = team',
                        NEW m \in tcall'[d].who, ResolverOf[m] \notin tcall'[d].todo
                 PROVE  copy'[m] = v
      BY <1>1, <2>1 DEF Served
    <3>1. /\ tcall[d].op = "distribute" /\ tcall[d].read = team /\ m \in tcall[d].who
          /\ ResolverOf[m] \notin tcall[d].todo \/ (d = c /\ ResolverOf[m] = r)
      BY <1>1, <2>4
    <3>2. CASE ResolverOf[m] \notin tcall[d].todo
      <4>1. m \in Members /\ copy[m] = v
        BY <2>1, <3>1, <3>2 DEF TeamInv, TeamTypes, TeamCallTypes, Served
      <4> QED  BY <2>2, <4>1
    <3>3. CASE d = c /\ ResolverOf[m] = r
      BY <2>3, <3>1, <3>3
    <3> QED  BY <3>1, <3>2, <3>3
  <2>7. Handed'
    <3>1. \A m \in given' : copy'[m] = v
      <4>1. \A m \in given : copy'[m] = v
        BY <2>1, <2>2 DEF TeamInv, TeamTypes, Handed
      <4>2. CASE call.todo = {r}
        <5>1. ASSUME NEW m \in call.who PROVE copy'[m] = v
          <6>1. CASE ResolverOf[m] = r
            BY <2>3, <6>1
          <6>2. CASE ResolverOf[m] # r
            BY <1>1, <1>2, <2>1, <2>2, <4>2, <6>2 DEF TeamInv, Served, TeamCallTypes
          <6> QED  BY <6>1, <6>2
        <5> QED  BY <1>1, <4>1, <5>1
      <4>3. CASE given' = given
        BY <4>1, <4>3
      <4> QED  BY <1>1, <4>2, <4>3
    <3>2. \A m \in Members : \A w \in known'[m] : w <= v
      BY <1>1, <2>1 DEF TeamInv, Handed
    <3>3. \A m \in Members \ addressed' : v \notin known'[m]
      BY <1>1, <2>1 DEF TeamInv, Handed
    <3> QED  BY <1>1, <2>1, <3>1, <3>2, <3>3 DEF TeamInv, Handed
  <2> QED  BY <2>5, <2>6, <2>7
<1> QED  BY <1>4, <1>5 DEF TeamInv

LEMMA RejectKeepsTeam ==
  ASSUME TeamInv, NEW c \in TeamClients, RejectTeam(c)
  PROVE  TeamInv'
<1>1. EndTeam(c) /\ UNCHANGED <<team, copy, wrap, known, addressed, given, resealed, crossed>>
  BY DEF RejectTeam
<1>2. TeamTypes' /\ Readings'
  BY <1>1, Ended DEF TeamInv, TeamTypes
<1>3. ~crossed => Earlier' /\ Served' /\ Handed'
  BY <1>1, Ended DEF TeamInv, Earlier, Served, Handed, NoTeamCall
<1> QED  BY <1>1, <1>2, <1>3 DEF TeamInv

\* Every step keeps the invariant, a stuttering one too.
LEMMA StepKeepsTeam == TeamInv /\ [TeamsNext]_teamVars => TeamInv'
<1> SUFFICES ASSUME TeamInv, [TeamsNext]_teamVars PROVE TeamInv'
  OBVIOUS
<1>1. CASE UNCHANGED teamVars
  BY <1>1 DEF teamVars, TeamInv, TeamTypes, Readings, Earlier, Served, Handed
<1>2. CASE TeamsNext
  BY <1>2, BeginKeepsTeam, InitKeepsTeam, RotateKeepsTeam, SealKeepsTeam, CopiesKeepTeam, RejectKeepsTeam
     DEF TeamsNext
<1> QED  BY <1>1, <1>2

----------------------------------------------------------------------------
\* A secret sealed since the last rotation opens for the members that were handed the
\* new key and for none that was not, as long as no two calls cross.
THEOREM RotationRemoves == TeamsSpec => []TeamKept
<1>1. TeamsSpec => []TeamInv
  BY InitTeam, StepKeepsTeam, PTL DEF TeamsSpec
<1>2. TeamInv => TeamKept
  BY TeamAssumptions DEF TeamInv, TeamTypes, Handed, TeamKept, Version
<1> QED  BY <1>1, <1>2, PTL

----------------------------------------------------------------------------
\* Pieces.  A guardian's piece of a set is known by the set and the guardian's x in it.
PieceOf(s, g) == [set |-> s, x |-> XOf[s][g]]

LEMMA SubsetOfSize ==
  ASSUME NEW S, IsFiniteSet(S), NEW n \in Nat, n <= Cardinality(S)
  PROVE  \E T \in SUBSET S : IsFiniteSet(T) /\ Cardinality(T) = n
<1>1. PICK f : f \in Bijection(1..Cardinality(S), S)
  BY FS_CardinalityType DEF ExistsBijection
<1> DEFINE T == {f[i] : i \in 1..n}
           h == [i \in 1..n |-> f[i]]
<1>2. 1..n \subseteq 1..Cardinality(S)
  BY FS_CardinalityType
<1>3. T \subseteq S
  BY <1>1, <1>2 DEF Bijection, Surjection, Injection, IsInjective
<1>4. h \in Bijection(1..n, T)
  BY <1>1, <1>2 DEF Bijection, Surjection, Injection, IsInjective
<1>5. IsFiniteSet(T) /\ Cardinality(T) = n
  <2> HIDE DEF T, h
  <2>1. ExistsBijection(1..n, T)
    BY <1>4, Zenon DEF ExistsBijection
  <2>2. IsFiniteSet(1..n)
    BY FS_Interval
  <2> QED  BY <2>1, <2>2, FS_CountingElements, FS_Bijection
<1> QED  BY <1>3, <1>5

LEMMA PiecesCounted ==
  ASSUME NEW s \in GuardianSetIds, NEW T, T \subseteq Chosen[s], IsFiniteSet(T)
  PROVE  /\ Cardinality({PieceOf(s, g) : g \in T}) = Cardinality(T)
         /\ Cardinality({p.x : p \in {PieceOf(s, g) : g \in T}}) = Cardinality(T)
<1> DEFINE P == {PieceOf(s, g) : g \in T}
           X == {p.x : p \in P}
<1>1. \A g, h \in T : g # h => XOf[s][g] # XOf[s][h]
  BY GuardianAssumptions
<1>2. [g \in T |-> PieceOf(s, g)] \in Bijection(T, P)
  BY <1>1 DEF Bijection, Surjection, Injection, IsInjective, PieceOf
<1>3. X = {XOf[s][g] : g \in T}
  <2>1. \A g : PieceOf(s, g).x = XOf[s][g]
    BY DEF PieceOf
  <2> QED  BY <2>1
<1>4. [g \in T |-> XOf[s][g]] \in Bijection(T, X)
  BY <1>1, <1>3 DEF Bijection, Surjection, Injection, IsInjective
<1> QED  BY <1>2, <1>4, FS_Bijection DEF ExistsBijection

\* Enough pieces of the published set rebuild its key, whatever lies beside them.
LEMMA QuorumRebuilds ==
  ASSUME NEW e \in GuardianSetIds, NEW Q, Q \subseteq Chosen[e], IsFiniteSet(Q),
         Cardinality(Q) >= Threshold[e],
         NEW pieces, {PieceOf(e, g) : g \in Q} \subseteq pieces
  PROVE  Rebuilds(pieces, e)
<1>1. Threshold[e] \in Nat /\ Threshold[e] >= 2
  BY GuardianAssumptions
<1>2. PICK T \in SUBSET Q : IsFiniteSet(T) /\ Cardinality(T) = Threshold[e]
  BY <1>1, SubsetOfSize
<1> DEFINE combo == {PieceOf(e, g) : g \in T}
<1>3. /\ Cardinality(combo) = Threshold[e]
      /\ Cardinality({p.x : p \in combo}) = Threshold[e]
  <2>1. T \subseteq Chosen[e]
    BY <1>2
  <2> QED  BY <1>2, <2>1, PiecesCounted
<1>4. T # {}
  BY <1>1, <1>2, FS_EmptySet
<1>5. {p.set : p \in combo} = {e}
  <2>1. \A g : PieceOf(e, g).set = e
    BY DEF PieceOf
  <2> QED  BY <1>4, <2>1
<1>6. Cardinality({e}) = 1 /\ (CHOOSE s \in {e} : TRUE) = e
  BY FS_Singleton
<1>7. combo \in SUBSET pieces
  BY <1>2
<1> HIDE DEF combo
<1>8. Combine(combo) = e
  <2>1. Cardinality(combo) >= Threshold[e]
    BY <1>1, <1>3
  <2> QED  BY <2>1, <1>5, <1>6 DEF Combine
<1> QED  BY <1>3, <1>7, <1>8 DEF Rebuilds

\* And a key that is rebuilt took pieces from as many guardians as its threshold.
LEMMA RebuildsNeedsQuorum ==
  ASSUME NEW e \in GuardianSetIds, NEW pieces, IsFiniteSet(pieces), NEW A, IsFiniteSet(A),
         \A p \in pieces : p.set = e => \E g \in A : p = PieceOf(e, g),
         Rebuilds(pieces, e)
  PROVE  Cardinality(A) >= Threshold[e]
<1>1. PICK combo \in SUBSET pieces : Cardinality(combo) = Threshold[e] /\ Combine(combo) = e
  BY DEF Rebuilds
<1> DEFINE sets == {p.set : p \in combo}
<1>2. Cardinality(sets) = 1 /\ e = CHOOSE s \in sets : TRUE
  <2>1. e # 0
    BY DEF GuardianSetIds
  <2> QED  BY <1>1, <2>1 DEF Combine
<1>3. \A p \in combo : p.set = e
  <2>1. IsFiniteSet(combo)
    BY FS_Subset
  <2>2. [p \in combo |-> p.set] \in Surjection(combo, sets)
    BY DEF Surjection
  <2>3. IsFiniteSet(sets)
    BY <2>1, <2>2, FS_Surjection
  <2>4. PICK x : sets = {x}
    BY <1>2, <2>3, FS_Singleton
  <2> QED  BY <1>2, <2>4
<1>4. \A p \in combo : \E g \in A : p = PieceOf(e, g)
  BY <1>1, <1>3
<1> DEFINE f == [p \in combo |-> CHOOSE g \in A : p = PieceOf(e, g)]
<1>5. \A p \in combo : f[p] \in A /\ p = PieceOf(e, f[p])
  BY <1>4
<1>6. f \in Injection(combo, A)
  <2>1. f \in [combo -> A]
    BY <1>5
  <2> HIDE DEF f
  <2> QED  BY <1>5, <2>1 DEF Injection, IsInjective
<1>7. IsFiniteSet(combo) /\ Cardinality(combo) <= Cardinality(A)
  BY <1>6, FS_Injection
<1> QED  BY <1>1, <1>7
----------------------------------------------------------------------------
\* The inductive invariant.  Sets are published in the order they are made, so what is
\* kept of one before never replaces what a guardian published of the present one;
\* and while collect reads, a name that was ready stays so, unless the set is replaced,
\* and its piece is among those gathered once it is read.
SetIds == 0..MaxSets
Pieces == {PieceOf(s, g) : s \in GuardianSetIds, g \in Guardians}

GuardianTypes ==
    /\ set \in SetIds /\ made \in SetIds
    /\ share \in [Guardians -> [set : SetIds, key : Keys]]
    /\ gkey \in [Guardians -> Keys]
    /\ approval \in [Guardians -> SetIds]
    /\ approving \in [Guardians -> SetIds]
    /\ initcall \in [set : SetIds, keys : [Guardians -> Keys]]
    /\ gathering \in [at : {"idle", "collect"}, left : SUBSET Guardians, pieces : SUBSET Pieces]
    /\ approvers \in [GuardianSetIds -> SUBSET Guardians]
    /\ ready \subseteq Guardians
    /\ outcome \in [expected : SetIds, got : SetIds, replaced : BOOLEAN]

InOrder ==
    /\ set <= made
    /\ initcall.set # 0 => initcall.set = made /\ set < made
    /\ \A g \in Guardians : share[g].set <= set /\ approving[g] <= set /\ approval[g] <= set

Current ==
    set # 0 => \A g \in Chosen[set] :
        /\ share[g].set = set
        /\ approval[g] = set /\ approving[g] # 0 => approving[g] = set

Approved == \A g \in Guardians : approval[g] # 0 => g \in approvers[approval[g]]

Gathers ==
    /\ IsFiniteSet(gathering.pieces)
    /\ \A p \in gathering.pieces : \E s \in GuardianSetIds : \E g \in approvers[s] : p = PieceOf(s, g)
    /\ gathering.at = "collect" =>
         /\ set # 0 /\ outcome.expected = 0
         /\ ~outcome.replaced => \A g \in ready :
               /\ g \in Chosen[set] /\ approval[g] = set
               /\ g \in gathering.left \/ PieceOf(set, g) \in gathering.pieces

GuardianInv ==
    /\ GuardianTypes /\ InOrder /\ Current /\ Approved /\ Gathers
    /\ QuorumRecovers

LEMMA InitGuardians == GuardianSetsInit => GuardianInv
<1> USE GuardianAssumptions, FS_EmptySet
<1>1. GuardianSetsInit => GuardianTypes
  BY DEF GuardianSetsInit, GuardianTypes, SetIds, Keys, NoShare, NoInit, NotGathering, NoOutcome
<1>2. GuardianSetsInit => InOrder /\ Current /\ Approved /\ Gathers /\ QuorumRecovers
  BY DEF GuardianSetsInit, InOrder, Current, Approved, Gathers, QuorumRecovers,
         NoShare, NoInit, NotGathering, NoOutcome
<1> QED  BY <1>1, <1>2 DEF GuardianInv

\* What every step but recover's leaves of the last answer.
LEMMA AnswerStays ==
  ASSUME GuardianInv, GuardianTypes', UNCHANGED ready,
         outcome'.expected = outcome.expected, outcome'.got = outcome.got,
         outcome.replaced => outcome'.replaced,
         \A s \in GuardianSetIds : approvers[s] \subseteq approvers'[s]
  PROVE  QuorumRecovers'
<1>1. CASE outcome.got = 0
  BY <1>1 DEF GuardianInv, QuorumRecovers
<1>2. CASE outcome.got # 0
  <2>1. outcome.got \in GuardianSetIds
    BY <1>2 DEF GuardianInv, GuardianTypes, SetIds, GuardianSetIds
  <2> DEFINE A == approvers[outcome.got]
             B == approvers'[outcome.got]
  <2>2. A \subseteq B /\ B \subseteq Guardians
    BY <2>1 DEF GuardianTypes
  <2>3. IsFiniteSet(B)
    BY <2>2, FS_Subset, GuardianAssumptions
  <2>4. Cardinality(A) <= Cardinality(B) /\ Cardinality(A) \in Nat /\ Cardinality(B) \in Nat
    BY <2>2, <2>3, FS_Subset, FS_CardinalityType
  <2>5. Threshold[outcome.got] \in Nat
    BY <2>1, GuardianAssumptions
  <2>6. QuorumRecovers
    BY DEF GuardianInv
  <2> QED  BY <2>4, <2>5, <2>6 DEF QuorumRecovers
<1> QED  BY <1>1, <1>2

LEMMA BeginSetKeeps == ASSUME GuardianInv, BeginSet PROVE GuardianInv'
<1> USE GuardianAssumptions DEF BeginSet
<1>1. GuardianTypes'
  BY DEF GuardianInv, GuardianTypes, SetIds
<1>2. InOrder'
  BY DEF GuardianInv, GuardianTypes, InOrder, SetIds
<1>3. Current' /\ Approved' /\ Gathers'
  BY DEF GuardianInv, Current, Approved, Gathers
<1>4. QuorumRecovers'
  BY <1>1, AnswerStays
<1> QED  BY <1>1, <1>2, <1>3, <1>4 DEF GuardianInv

LEMMA LandSetKeeps == ASSUME GuardianInv, LandSet PROVE GuardianInv'
<1> USE GuardianAssumptions DEF LandSet
<1>1. initcall.set \in GuardianSetIds /\ set < initcall.set /\ initcall.set = made /\ set' = made
  BY DEF GuardianInv, GuardianTypes, InOrder, SetIds, GuardianSetIds
<1>2. GuardianTypes'
  <2>1. share' \in [Guardians -> [set : SetIds, key : Keys]]
    BY <1>1 DEF GuardianInv, GuardianTypes, SetIds, GuardianSetIds
  <2>2. NoInit \in [set : SetIds, keys : [Guardians -> Keys]]
    BY DEF NoInit, SetIds, Keys
  <2> QED  BY <1>1, <2>1, <2>2 DEF GuardianInv, GuardianTypes
<1>3. InOrder'
  BY <1>1 DEF GuardianInv, GuardianTypes, InOrder, SetIds, NoInit
<1>4. Current'
  <2> SUFFICES ASSUME NEW g \in Chosen[set'] PROVE share'[g].set = set' /\ approval[g] # set'
    BY DEF Current
  <2>1. g \in Guardians
    BY <1>1
  <2>2. approval[g] \in Nat /\ approval[g] <= set /\ set \in Nat
    BY <2>1 DEF GuardianInv, GuardianTypes, InOrder, SetIds
  <2> QED  BY <1>1, <2>1, <2>2
<1>5. Approved'
  BY DEF GuardianInv, Approved
<1>6. Gathers'
  BY <1>1 DEF GuardianInv, GuardianTypes, Gathers, GuardianSetIds
<1>7. QuorumRecovers'
  <2>1. outcome'.expected = outcome.expected /\ outcome'.got = outcome.got
        /\ (outcome.replaced => outcome'.replaced)
    BY DEF GuardianInv, GuardianTypes
  <2> QED  BY <1>2, <2>1, AnswerStays
<1> QED  BY <1>2, <1>3, <1>4, <1>5, <1>6, <1>7 DEF GuardianInv

LEMMA MoveKeeps == ASSUME GuardianInv, NEW g \in Guardians, Move(g) PROVE GuardianInv'
<1> USE GuardianAssumptions DEF Move
<1>1. GuardianTypes'
  BY DEF GuardianInv, GuardianTypes, Keys
<1>2. InOrder' /\ Current' /\ Approved' /\ Gathers'
  BY DEF GuardianInv, InOrder, Current, Approved, Gathers
<1>3. QuorumRecovers'
  BY <1>1, AnswerStays
<1> QED  BY <1>1, <1>2, <1>3 DEF GuardianInv

LEMMA ApproveKeeps == ASSUME GuardianInv, NEW g \in Guardians, Approve(g) PROVE GuardianInv'
<1> USE GuardianAssumptions DEF Approve
<1>1. GuardianTypes' /\ share[g].set \in SetIds
  BY DEF GuardianInv, GuardianTypes
<1>2. InOrder'
  BY <1>1 DEF GuardianInv, GuardianTypes, InOrder
<1>3. Current'
  BY <1>1 DEF GuardianInv, GuardianTypes, Current
<1>4. Approved' /\ Gathers'
  BY DEF GuardianInv, Approved, Gathers
<1>5. QuorumRecovers'
  BY <1>1, AnswerStays
<1> QED  BY <1>1, <1>2, <1>3, <1>4, <1>5 DEF GuardianInv

LEMMA PublishKeeps == ASSUME GuardianInv, NEW g \in Guardians, Publish(g) PROVE GuardianInv'
<1> USE GuardianAssumptions DEF Publish
<1>1. approving[g] \in GuardianSetIds
  BY DEF GuardianInv, GuardianTypes, SetIds, GuardianSetIds
<1>2. GuardianTypes'
  <2>1. approvers' \in [GuardianSetIds -> SUBSET Guardians]
    BY <1>1 DEF GuardianInv, GuardianTypes
  <2>2. approval' \in [Guardians -> SetIds] /\ approving' \in [Guardians -> SetIds]
    BY <1>1 DEF GuardianInv, GuardianTypes, SetIds
  <2> QED  BY <2>1, <2>2 DEF GuardianInv, GuardianTypes
<1>3. \A s \in GuardianSetIds : approvers[s] \subseteq approvers'[s]
  BY <1>1 DEF GuardianInv, GuardianTypes
<1>4. InOrder'
  BY <1>1 DEF GuardianInv, GuardianTypes, InOrder, SetIds
<1>5. Current'
  BY <1>1 DEF GuardianInv, GuardianTypes, Current
<1>6. Approved'
  BY <1>1, <1>3 DEF GuardianInv, GuardianTypes, Approved, SetIds, GuardianSetIds
<1>7. Gathers'
  <2>1. \A p \in gathering.pieces : \E s \in GuardianSetIds : \E h \in approvers'[s] : p = PieceOf(s, h)
    BY <1>3 DEF GuardianInv, Gathers
  <2>2. ASSUME gathering.at = "collect", ~outcome.replaced, NEW h \in ready
        PROVE  approval'[h] = set
    <3>1. h \in Guardians /\ h \in Chosen[set] /\ approval[h] = set /\ set # 0
      BY <2>2 DEF GuardianInv, GuardianTypes, Gathers
    <3> QED  BY <1>1, <3>1 DEF GuardianInv, GuardianTypes, Current, GuardianSetIds
  <2> QED  BY <2>1, <2>2 DEF GuardianInv, Gathers
<1>8. QuorumRecovers'
  BY <1>2, <1>3, AnswerStays
<1> QED  BY <1>2, <1>4, <1>5, <1>6, <1>7, <1>8 DEF GuardianInv

LEMMA BeginCollectKeeps == ASSUME GuardianInv, BeginCollect PROVE GuardianInv'
<1> USE GuardianAssumptions DEF BeginCollect
<1>1. set \in GuardianSetIds
  BY DEF GuardianInv, GuardianTypes, SetIds, GuardianSetIds
<1>2. GuardianTypes'
  BY <1>1 DEF GuardianInv, GuardianTypes, NoOutcome, SetIds
<1>3. InOrder' /\ Current' /\ Approved'
  BY DEF GuardianInv, InOrder, Current, Approved
<1>4. Gathers'
  BY FS_EmptySet DEF GuardianInv, Gathers, NoOutcome
<1>5. QuorumRecovers'
  BY DEF QuorumRecovers, NoOutcome
<1> QED  BY <1>2, <1>3, <1>4, <1>5 DEF GuardianInv

LEMMA CollectKeeps == ASSUME GuardianInv, NEW g \in Guardians, Collect(g) PROVE GuardianInv'
<1> USE GuardianAssumptions
<1>1. PICK read \in BOOLEAN :
        /\ gathering' = [gathering EXCEPT !.left = @ \ {g},
              !.pieces = @ \cup (IF ~read \/ approval[g] = 0 THEN {}
                                 ELSE {[set |-> approval[g], x |-> XOf[approval[g]][g]]})]
        /\ ready' = IF read THEN ready ELSE ready \ {g}
  BY DEF Collect
<1> DEFINE new == IF ~read \/ approval[g] = 0 THEN {} ELSE {PieceOf(approval[g], g)}
<1>2. /\ gathering.at = "collect"
      /\ UNCHANGED <<set, share, gkey, approval, initcall, approving, made, approvers, outcome>>
  BY DEF Collect
<1>3. /\ gathering'.at = "collect" /\ gathering'.left = gathering.left \ {g}
      /\ gathering'.pieces = gathering.pieces \cup new
      /\ gathering' \in [at : {"idle", "collect"}, left : SUBSET Guardians, pieces : {gathering'.pieces}]
  BY <1>1, <1>2 DEF GuardianInv, GuardianTypes, PieceOf
<1>4. approval[g] # 0 => approval[g] \in GuardianSetIds /\ g \in approvers[approval[g]]
  BY DEF GuardianInv, GuardianTypes, Approved, SetIds, GuardianSetIds
<1>5. GuardianTypes'
  <2>1. gathering'.pieces \in SUBSET Pieces
    BY <1>3, <1>4 DEF GuardianInv, GuardianTypes, Pieces
  <2>2. ready' \subseteq Guardians
    BY <1>1 DEF GuardianInv, GuardianTypes
  <2> QED  BY <1>2, <1>3, <2>1, <2>2 DEF GuardianInv, GuardianTypes
<1>6. InOrder' /\ Current' /\ Approved'
  BY <1>2 DEF GuardianInv, InOrder, Current, Approved
<1>7. IsFiniteSet(gathering'.pieces)
  <2>1. IsFiniteSet(gathering.pieces)
    BY DEF GuardianInv, Gathers
  <2>2. new = {} \/ new = {PieceOf(approval[g], g)}
    OBVIOUS
  <2>3. CASE new = {}
    BY <1>3, <2>1, <2>3
  <2>4. CASE new = {PieceOf(approval[g], g)}
    BY <1>3, <2>1, <2>4, FS_AddElement
  <2> QED  BY <2>2, <2>3, <2>4
<1>8. \A p \in gathering'.pieces : \E s \in GuardianSetIds : \E h \in approvers[s] : p = PieceOf(s, h)
  BY <1>3, <1>4 DEF GuardianInv, Gathers
<1>9. set # 0 /\ outcome.expected = 0
  BY <1>2 DEF GuardianInv, Gathers
<1>10. ASSUME ~outcome.replaced, NEW h \in ready'
       PROVE  /\ h \in Chosen[set] /\ approval[h] = set
              /\ h \in gathering'.left \/ PieceOf(set, h) \in gathering'.pieces
  <2>1. h \in ready /\ (h = g => read)
    BY <1>1
  <2>2. /\ h \in Chosen[set] /\ approval[h] = set
        /\ h \in gathering.left \/ PieceOf(set, h) \in gathering.pieces
    BY <1>2, <1>10, <2>1 DEF GuardianInv, Gathers
  <2> QED  BY <1>3, <1>9, <2>1, <2>2
<1>11. Gathers'
  BY <1>2, <1>3, <1>7, <1>8, <1>9, <1>10 DEF Gathers
<1>12. QuorumRecovers'
  BY <1>2, <1>9 DEF QuorumRecovers
<1> QED  BY <1>5, <1>6, <1>11, <1>12 DEF GuardianInv

LEMMA RecoverKeeps == ASSUME GuardianInv, Recover PROVE GuardianInv'
<1> USE GuardianAssumptions DEF Recover
<1>1. set \in GuardianSetIds /\ set # 0
  BY DEF GuardianInv, GuardianTypes, Gathers, SetIds, GuardianSetIds
<1>2. /\ outcome'.expected = set /\ outcome'.replaced = outcome.replaced
      /\ outcome'.got = IF Rebuilds(gathering.pieces, set) THEN set ELSE 0
      /\ outcome' \in [expected : SetIds, got : SetIds, replaced : BOOLEAN]
  <2> DEFINE key == IF Rebuilds(gathering.pieces, set) THEN set ELSE 0
  <2>1. outcome' = [outcome EXCEPT !.expected = set, !.got = key]
    OBVIOUS
  <2>2. key \in SetIds /\ set \in SetIds /\ outcome \in [expected : SetIds, got : SetIds, replaced : BOOLEAN]
    BY DEF GuardianInv, GuardianTypes, SetIds
  <2> HIDE DEF key
  <2>3. /\ outcome'.expected = set /\ outcome'.replaced = outcome.replaced /\ outcome'.got = key
        /\ outcome' \in [expected : SetIds, got : SetIds, replaced : BOOLEAN]
    BY <2>1, <2>2
  <2> QED  BY <2>3 DEF key
<1>3. GuardianTypes'
  BY <1>2 DEF GuardianInv, GuardianTypes, NotGathering
<1>4. InOrder' /\ Current' /\ Approved'
  BY DEF GuardianInv, InOrder, Current, Approved
<1>5. Gathers'
  BY FS_EmptySet DEF Gathers, NotGathering
<1>6. ASSUME Cardinality(ready) >= Threshold[set], ~outcome.replaced PROVE outcome'.got = set
  <2>1. ready \subseteq Chosen[set] /\ {PieceOf(set, g) : g \in ready} \subseteq gathering.pieces
    BY <1>6 DEF GuardianInv, Gathers
  <2>2. IsFiniteSet(ready)
    BY FS_Subset DEF GuardianInv, GuardianTypes
  <2> QED  BY <1>1, <1>2, <1>6, <2>1, <2>2, QuorumRebuilds
<1>7. ASSUME Rebuilds(gathering.pieces, set) PROVE Cardinality(approvers[set]) >= Threshold[set]
  <2>1. IsFiniteSet(gathering.pieces)
    BY DEF GuardianInv, Gathers
  <2>2. IsFiniteSet(approvers[set])
    BY <1>1, FS_Subset DEF GuardianInv, GuardianTypes
  <2>3. \A p \in gathering.pieces : p.set = set => \E g \in approvers[set] : p = PieceOf(set, g)
    BY DEF GuardianInv, Gathers, PieceOf
  <2> QED  BY <1>1, <1>7, <2>1, <2>2, <2>3, RebuildsNeedsQuorum
<1>8. QuorumRecovers'
  BY <1>1, <1>2, <1>6, <1>7 DEF QuorumRecovers
<1> QED  BY <1>3, <1>4, <1>5, <1>8 DEF GuardianInv

LEMMA NextGuardians == GuardianInv /\ [GuardianSetsNext]_guardianVars => GuardianInv'
<1> SUFFICES ASSUME GuardianInv, [GuardianSetsNext]_guardianVars PROVE GuardianInv'
  OBVIOUS
<1>1. CASE UNCHANGED guardianVars
  BY <1>1 DEF guardianVars, GuardianInv, GuardianTypes, InOrder, Current, Approved, Gathers, QuorumRecovers
<1> QED  BY <1>1, BeginSetKeeps, LandSetKeeps, MoveKeeps, ApproveKeeps, PublishKeeps,
            BeginCollectKeeps, CollectKeeps, RecoverKeeps DEF GuardianSetsNext

\* QuorumRecovers of GuardianSets: a quorum whose names are read recovers the key of the
\* published set, whatever other reads collect lost, and no key is recovered from fewer
\* approvals than its threshold.
THEOREM QuorumAlone == GuardianSetsSpec => []QuorumRecovers
<1>1. GuardianInv => QuorumRecovers
  BY DEF GuardianInv
<1> QED  BY <1>1, InitGuardians, NextGuardians, PTL DEF GuardianSetsSpec

----------------------------------------------------------------------------
\* The inductive invariant.  IndexMatches needs to know of a call what it has still
\* to send: it writes the index if and only if that changes what it read, and one that
\* is half done has left its secret as it wanted unless another call met it.
Rewrites(call) == Updated(call.op, call.listed, call.label) # call.listed
AsWanted(call) == call.label \in stored <=> call.op = "create"

Whole(call) == call.todo = <<IF Rewrites(call) THEN {"secret", "index"} ELSE {"secret"}>>
Split(call) == Rewrites(call) /\ call.todo = <<{"secret"}, {"index"}>>
Half(call) == Rewrites(call) /\ call.todo = <<{"index"}>> /\ (call.met \/ AsWanted(call))
Hides(call) == call.op = "unindex" /\ Rewrites(call) /\ call.todo = <<{"index"}>>

Plans == {<<>>, <<{"index"}>>, <<{"secret"}>>, <<{"secret", "index"}>>, <<{"secret"}, {"index"}>>}
IndexCallTypes == [op : IndexOps \cup {"none"}, label : Labels \cup {0}, listed : SUBSET Labels,
              met : BOOLEAN, todo : Plans]

CallFits(call) ==
    call.op # "none" =>
        /\ call.label \in Labels
        /\ IF call.op = "unindex" THEN Hides(call) ELSE Whole(call) \/ Split(call) \/ Half(call)

IndexTypes ==
    /\ stored \subseteq Labels /\ index \subseteq Labels /\ spoiled \subseteq Labels
    /\ icall \in [IndexClients -> IndexCallTypes]

IndexInv ==
    /\ IndexTypes
    /\ \A c \in IndexClients : CallFits(icall[c])
    /\ IndexMatches

----------------------------------------------------------------------------
LEMMA InitIndex == SecretIndexInit => IndexInv
  BY DEF SecretIndexInit, IndexInv, IndexTypes, IndexCallTypes, CallFits, NoIndexCall, IndexMatches, IndexOps, Plans

\* What a call plans to send is what CallFits says of it.
LEMMA BeginKeepsIndex ==
  ASSUME IndexInv, NEW c \in IndexClients, NEW op \in IndexOps, NEW l \in Labels, BeginIndex(c, op, l)
  PROVE  IndexInv'
<1> DEFINE call == [op |-> op, label |-> l, listed |-> index, met |-> FALSE, todo |-> Transactions(op, l)]
<1> DEFINE W == Updated(op, index, l) # index
<1>1. icall' = [icall EXCEPT ![c] = call] /\ stored' = stored /\ index' = index /\ spoiled' = spoiled
  BY DEF BeginIndex
<1>2. /\ op = "unindex" => W /\ Transactions(op, l) = <<{"index"}>>
      /\ op # "unindex" => \/ Transactions(op, l) = <<IF W THEN {"secret", "index"} ELSE {"secret"}>>
                           \/ W /\ Transactions(op, l) = <<{"secret"}, {"index"}>>
  <2>1. CASE op = "unindex"
    <3>1. W
      BY <2>1 DEF BeginIndex, Updated
    <3>2. {} \cup {"index"} = {"index"} /\ {"index"} # {"secret", "index"}
      OBVIOUS
    <3> QED  BY <2>1, <3>1, <3>2, Zenon DEF Transactions
  <2>2. CASE op # "unindex"
    <3>1. {"secret"} \cup {"index"} = {"secret", "index"} /\ {"secret"} \cup {} = {"secret"}
          /\ {"secret"} # {"secret", "index"}
      OBVIOUS
    <3>2. CASE W
      BY <2>2, <3>1, <3>2, Zenon DEF Transactions
    <3>3. CASE ~W
      BY <2>2, <3>1, <3>3, Zenon DEF Transactions
    <3> QED  BY <3>2, <3>3
  <2> QED  BY <2>1, <2>2
<1>3. call \in IndexCallTypes /\ CallFits(call)
  <2>1. index \subseteq Labels /\ l \in Labels /\ op \in IndexOps \cup {"none"}
    BY DEF IndexInv, IndexTypes
  <2>2. Transactions(op, l) \in Plans
    BY <1>2 DEF Plans
  <2>3. call \in IndexCallTypes
    BY <2>1, <2>2 DEF IndexCallTypes
  <2>4. /\ Rewrites(call) <=> W
        /\ call.op = op /\ call.label = l /\ call.todo = Transactions(op, l)
    BY DEF Rewrites
  <2> HIDE DEF call, W
  <2>5. CASE op = "unindex"
    BY <1>2, <2>1, <2>3, <2>4, <2>5 DEF CallFits, Hides
  <2>6. CASE op # "unindex"
    <3>1. Whole(call) \/ Split(call)
      BY <1>2, <2>4, <2>6, Zenon DEF Whole, Split
    <3> QED  BY <2>1, <2>3, <2>4, <2>6, <3>1 DEF CallFits
  <2> QED  BY <2>5, <2>6
<1>4. IndexTypes'
  BY <1>1, <1>3 DEF IndexInv, IndexTypes
<1>5. \A d \in IndexClients : CallFits(icall[d])'
  <2> SUFFICES ASSUME NEW d \in IndexClients PROVE CallFits(icall[d])'
    OBVIOUS
  <2>1. icall'[d] = IF d = c THEN call ELSE icall[d]
    BY <1>1 DEF IndexInv, IndexTypes
  <2>2. CASE d = c
    <3>1. icall'[d] = call /\ stored' = stored /\ CallFits(call)
      BY <1>1, <1>3, <2>1, <2>2
    <3> HIDE DEF call
    <3> QED  BY <3>1 DEF CallFits, Hides, Whole, Split, Half, Rewrites, AsWanted
  <2>3. CASE d # c
    <3>1. icall'[d] = icall[d] /\ stored' = stored /\ CallFits(icall[d])
      BY <1>1, <2>1, <2>3 DEF IndexInv
    <3> QED  BY <3>1 DEF CallFits, Hides, Whole, Split, Half, Rewrites, AsWanted
  <2> QED  BY <2>2, <2>3
<1> QED  BY <1>1, <1>4, <1>5 DEF IndexInv, IndexMatches

\* What the next transaction of a fit call is: the last one writes the index if and only
\* if the call changes it, and leaves the secret as the call wanted it.
LEMMA NextTransaction ==
  ASSUME NEW call, call.op # "none", CallFits(call)
  PROVE  \/ /\ Len(call.todo) = 1
            /\ "index" \in Head(call.todo) <=> Rewrites(call)
            /\ call.op = "unindex" => "secret" \notin Head(call.todo) /\ Rewrites(call)
            /\ call.op # "unindex" /\ "secret" \notin Head(call.todo) => call.met \/ AsWanted(call)
         \/ /\ Len(call.todo) # 1 /\ Head(call.todo) = {"secret"} /\ Tail(call.todo) = <<{"index"}>>
            /\ Rewrites(call) /\ call.op # "unindex"
<1>1. CASE Hides(call) \/ Half(call)
  <2>1. Len(call.todo) = 1 /\ Head(call.todo) = {"index"} /\ Rewrites(call)
    BY <1>1 DEF Hides, Half
  <2>2. call.op # "unindex" => call.met \/ AsWanted(call)
    BY <1>1 DEF Hides, Half
  <2> QED  BY <2>1, <2>2
<1>2. CASE Whole(call) /\ call.op # "unindex"
  <2>1. /\ Len(call.todo) = 1
        /\ Head(call.todo) = IF Rewrites(call) THEN {"secret", "index"} ELSE {"secret"}
    BY <1>2 DEF Whole
  <2> QED  BY <1>2, <2>1
<1>3. CASE Split(call) /\ call.op # "unindex"
  BY <1>3 DEF Split
<1> QED  BY <1>1, <1>2, <1>3 DEF CallFits

\* A transaction that is mined leaves every call fit: the other calls about its label
\* are marked as met, and what they read is theirs.
LEMMA LandFits ==
  ASSUME IndexInv, NEW c \in IndexClients, LandIndex(c)
  PROVE  IndexTypes' /\ \A d \in IndexClients : CallFits(icall[d])'
<1> DEFINE call == icall[c]
<1> DEFINE last == Len(call.todo) = 1
<1>1. /\ call \in IndexCallTypes /\ call.op # "none" /\ call.op \in IndexOps /\ call.label \in Labels
      /\ CallFits(call)
  BY DEF IndexInv, IndexTypes, CallFits, LandIndex, IndexCallTypes
<1>2. ~last => /\ Head(call.todo) = {"secret"} /\ Tail(call.todo) = <<{"index"}>>
              /\ Rewrites(call) /\ call.op # "unindex"
  BY <1>1, NextTransaction
<1>3. /\ stored' \subseteq Labels /\ index' \subseteq Labels /\ spoiled' \subseteq Labels
  BY <1>1 DEF LandIndex, IndexInv, IndexTypes, IndexCallTypes, Updated, Crossed, Settled, Hidden
<1>4. ASSUME NEW d \in IndexClients, d # c
      PROVE  icall'[d] \in IndexCallTypes /\ CallFits(icall[d])'
  <2>1. icall'[d] = [icall[d] EXCEPT !.met = @ \/ icall[d].label = call.label]
    BY <1>4 DEF LandIndex
  <2>2. icall[d] \in IndexCallTypes /\ CallFits(icall[d])
    BY DEF IndexInv, IndexTypes
  <2>3. /\ icall'[d] \in IndexCallTypes
        /\ icall'[d].op = icall[d].op /\ icall'[d].label = icall[d].label
        /\ icall'[d].listed = icall[d].listed /\ icall'[d].todo = icall[d].todo
        /\ icall'[d].met = (icall[d].met \/ icall[d].label = call.label)
    BY <2>1, <2>2 DEF IndexCallTypes
  <2>4. icall[d].label # call.label => (icall[d].label \in stored' <=> icall[d].label \in stored)
    BY DEF LandIndex
  <2> QED  BY <2>2, <2>3, <2>4 DEF CallFits, Hides, Whole, Split, Half, Rewrites, AsWanted
<1>5. icall'[c] \in IndexCallTypes /\ CallFits(icall[c])'
  <2>1. CASE last
    <3>1. icall'[c] = NoIndexCall
      BY <2>1 DEF LandIndex
    <3> QED  BY <3>1 DEF NoIndexCall, IndexCallTypes, CallFits, Plans
  <2>2. CASE ~last
    <3>1. /\ Head(call.todo) = {"secret"} /\ Tail(call.todo) = <<{"index"}>>
          /\ Rewrites(call) /\ call.op # "unindex"
      BY <1>2, <2>2
    <3>2. icall'[c] = [call EXCEPT !.todo = <<{"index"}>>]
      BY <2>2, <3>1 DEF LandIndex
    <3>3. stored' = IF call.op = "create" THEN stored \cup {call.label} ELSE stored \ {call.label}
      BY <3>1 DEF LandIndex
    <3>4. /\ icall'[c] \in IndexCallTypes
          /\ icall'[c].op = call.op /\ icall'[c].label = call.label
          /\ icall'[c].listed = call.listed /\ icall'[c].todo = <<{"index"}>>
      BY <1>1, <3>2 DEF IndexCallTypes, Plans
    <3>5. icall'[c].label \in stored' <=> icall'[c].op = "create"
      BY <3>3, <3>4
    <3>6. Updated(icall'[c].op, icall'[c].listed, icall'[c].label) # icall'[c].listed
      BY <3>1, <3>4 DEF Rewrites
    <3> HIDE DEF call
    <3>7. Half(icall[c])'
      BY <3>4, <3>5, <3>6 DEF Half, AsWanted, Rewrites, Updated
    <3> QED  BY <1>1, <3>1, <3>4, <3>7 DEF CallFits
  <2> QED  BY <2>1, <2>2
<1>6. icall' \in [IndexClients -> IndexCallTypes]
  <2>1. DOMAIN icall' = IndexClients /\ icall' = [d \in IndexClients |-> icall'[d]]
    BY DEF LandIndex
  <2> QED  BY <1>4, <1>5, <2>1
<1> QED  BY <1>3, <1>4, <1>5, <1>6 DEF IndexTypes

\* A transaction that is mined leaves index and secrets in agreement.
LEMMA LandMatches ==
  ASSUME IndexInv, NEW c \in IndexClients, LandIndex(c)
  PROVE  IndexMatches'
<1> DEFINE call == icall[c]
<1> DEFINE last == Len(call.todo) = 1
<1> DEFINE tx == Head(call.todo)
<1>1. SUFFICES ASSUME NEW l \in Labels, l \notin spoiled'
               PROVE  l \in index' <=> l \in stored'
  BY DEF IndexMatches
<1>2. /\ call \in IndexCallTypes /\ call.op # "none" /\ call.op \in IndexOps /\ call.label \in Labels
      /\ CallFits(call)
  BY DEF IndexInv, IndexTypes, CallFits, LandIndex, IndexCallTypes
<1>3. /\ stored' = IF "secret" \notin tx THEN stored
                   ELSE IF call.op = "create" THEN stored \cup {call.label} ELSE stored \ {call.label}
      /\ index' = IF "index" \in tx THEN Updated(call.op, call.listed, call.label) ELSE index
      /\ spoiled' = IF last THEN (spoiled \ Settled(call)) \cup Crossed(call) \cup Hidden(call)
                    ELSE spoiled \cup {call.label}
  BY DEF LandIndex
<1>4. CASE ~last
  <2>1. tx = {"secret"} /\ call.op # "unindex"
    BY <1>2, <1>4, NextTransaction
  <2> QED  BY <1>1, <1>2, <1>3, <1>4, <2>1 DEF IndexInv, IndexMatches
<1>5. CASE last
  <2>1. /\ "index" \in tx <=> Rewrites(call)
        /\ call.op = "unindex" => "secret" \notin tx /\ Rewrites(call)
        /\ call.op # "unindex" /\ "secret" \notin tx => call.met \/ AsWanted(call)
    BY <1>2, <1>5, NextTransaction
  <2>2. /\ l \notin Crossed(call) /\ l \notin Hidden(call)
        /\ l \in spoiled => l \in Settled(call)
    BY <1>1, <1>3, <1>5
  <2>3. CASE l = call.label
    <3>1. ~call.met /\ (l \in index <=> l \in call.listed)
      BY <1>2, <2>2, <2>3 DEF Crossed, IndexInv, IndexTypes, IndexCallTypes
    <3>2. CASE call.op = "unindex"
      BY <1>2, <1>3, <2>1, <2>2, <2>3, <3>1, <3>2 DEF Updated, Hidden
    <3>3. CASE call.op = "create"
      BY <1>2, <1>3, <2>1, <2>3, <3>1, <3>3 DEF Updated, Rewrites, AsWanted
    <3>4. CASE call.op = "forget"
      BY <1>2, <1>3, <2>1, <2>3, <3>1, <3>4 DEF Updated, Rewrites, AsWanted
    <3> QED  BY <1>2, <3>2, <3>3, <3>4 DEF IndexOps
  <2>4. CASE l # call.label
    <3>1. l \notin spoiled /\ (l \in index <=> l \in stored)
      BY <1>1, <2>2, <2>4 DEF Settled, IndexInv, IndexMatches
    <3>2. Rewrites(call) => (l \in index <=> l \in call.listed)
      BY <2>2 DEF Crossed, Rewrites
    <3> QED  BY <1>3, <2>1, <2>4, <3>1, <3>2 DEF Updated
  <2> QED  BY <2>3, <2>4
<1> QED  BY <1>4, <1>5

\* A refusal changes nothing but the call.
LEMMA RejectKeepsIndex ==
  ASSUME IndexInv, NEW c \in IndexClients, RejectIndex(c)
  PROVE  IndexInv'
<1>1. NoIndexCall \in IndexCallTypes /\ CallFits(NoIndexCall)
  BY DEF NoIndexCall, IndexCallTypes, Plans, CallFits
<1>2. \A d \in IndexClients : icall'[d] \in {NoIndexCall, icall[d]}
  BY DEF RejectIndex, IndexInv, IndexTypes
<1>3. \A d \in IndexClients : CallFits(icall[d])'
  <2> SUFFICES ASSUME NEW d \in IndexClients PROVE CallFits(icall[d])'
    OBVIOUS
  <2>1. CASE icall'[d] = NoIndexCall
    BY <2>1 DEF CallFits, NoIndexCall
  <2>2. CASE icall'[d] = icall[d]
    <3>1. stored' = stored /\ CallFits(icall[d])
      BY DEF RejectIndex, IndexInv
    <3> QED  BY <2>2, <3>1 DEF CallFits, Hides, Whole, Split, Half, Rewrites, AsWanted
  <2> QED  BY <1>2, <2>1, <2>2
<1> QED  BY <1>1, <1>2, <1>3 DEF RejectIndex, IndexInv, IndexTypes, IndexMatches

\* Every step keeps the invariant, a stuttering one too.
LEMMA StepKeepsIndex == IndexInv /\ [SecretIndexNext]_indexVars => IndexInv'
<1> SUFFICES ASSUME IndexInv, [SecretIndexNext]_indexVars PROVE IndexInv'
  OBVIOUS
<1>1. ASSUME NEW c \in IndexClients, NEW op \in IndexOps, NEW l \in Labels, BeginIndex(c, op, l)
      PROVE  IndexInv'
  BY <1>1, BeginKeepsIndex
<1>2. ASSUME NEW c \in IndexClients, LandIndex(c) PROVE IndexInv'
  BY <1>2, LandFits, LandMatches DEF IndexInv
<1>3. ASSUME NEW c \in IndexClients, RejectIndex(c) PROVE IndexInv'
  BY <1>3, RejectKeepsIndex
<1>4. CASE UNCHANGED indexVars
  BY <1>4 DEF indexVars, IndexInv, IndexTypes, IndexMatches, CallFits, Hides, Whole, Split, Half, Rewrites, AsWanted
<1> QED  BY <1>1, <1>2, <1>3, <1>4 DEF SecretIndexNext

----------------------------------------------------------------------------
\* The index lists the secrets there are, but for labels that crossing calls set back
\* or that a call between two resolvers left half done.
THEOREM IndexIsTrue == SecretIndexSpec => []IndexMatches
<1>1. SecretIndexSpec => []IndexInv
  BY InitIndex, StepKeepsIndex, PTL DEF SecretIndexSpec
<1>2. IndexInv => IndexMatches
  BY DEF IndexInv
<1> QED  BY <1>1, <1>2, PTL
=============================================================================

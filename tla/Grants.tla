-------------------------------- MODULE Grants --------------------------------
(***************************************************************************)
(* The form that grants a secret (SecretAccess in secret-access.tsx).  It  *)
(* looks up the key of what is typed and shows its fingerprint; grant of   *)
(* the SDK (client.ts) is given the name alone, and looks up its key       *)
(* again.  Names publish other keys in between, answers come in any order, *)
(* for the list that was chosen before, and for a drawer that was closed.  *)
(***************************************************************************)
EXTENDS Integers

CONSTANTS Grantees, NoGrantee,
          Moving,        \* bound: names that publish other keys
          Grantings,     \* bound: calls at once
          MaxNamed,      \* bound: names typed and lists chosen
          MaxPublished   \* bound: keys a name publishes for one list

ASSUME GrantAssumptions ==
    NoGrantee \notin Grantees /\ Moving \subseteq Grantees /\ {MaxNamed, MaxPublished} \subseteq Nat \ {0}

Lists == {"grantees", "subtrees"}
Questions == [name : Grantees, list : Lists]  \* a name publishes one key for itself and one for its team
Fingerprints == [name : Grantees, list : Lists, key : 1..MaxPublished, late : BOOLEAN]
NoKey == [name |-> NoGrantee, list |-> "none", key |-> 0, late |-> FALSE]

VARIABLES
    adding,     \* the list that is added to
    entered,    \* the name in the field
    fingerprint,\* the key whose fingerprint is shown
    looks,      \* the lookups that are out, each late if the user went on without it
    published,  \* on chain: which of its keys a name publishes for a list
    granting,   \* the calls that are out
    grants,     \* ghost: the grants asked for, each with its key and the one that was shown
    named       \* names typed and lists chosen so far

grantForm == <<adding, entered, fingerprint>>
grantVars == <<grantForm, looks, published, granting, grants, named>>

\* What a call knows once it has read is no longer told apart, nor one that has no panel.
NoGrant == [at |-> "none", name |-> NoGrantee, list |-> "none", shown |-> NoKey, here |-> FALSE]
Written == [NoGrant EXCEPT !.at = "writing", !.here = TRUE]

GrantsInit ==
    /\ adding = "none" /\ entered = NoGrantee /\ fingerprint = NoKey
    /\ looks = {} /\ granting = [g \in Grantings |-> NoGrant] /\ grants = {} /\ named = 0
    /\ published = [q \in Questions |-> 1]
----------------------------------------------------------------------------
FormCloses == adding' = "none" /\ entered' = NoGrantee /\ fingerprint' = NoKey
GoesOn == named < MaxNamed /\ named' = named + 1
Outrun == {[q EXCEPT !.late = TRUE] : q \in looks}

Choose(list) ==
    /\ GoesOn
    /\ adding' = IF adding = list THEN "none" ELSE list
    /\ entered' = NoGrantee /\ fingerprint' = NoKey /\ looks' = Outrun
    /\ UNCHANGED <<published, granting, grants>>

\* What is no name at all is not looked up.
Name(n) ==
    /\ GoesOn /\ adding # "none" /\ n # entered
    /\ entered' = n /\ fingerprint' = NoKey
    /\ looks' = Outrun \cup (IF n = NoGrantee THEN {} ELSE {[name |-> n, list |-> adding, late |-> FALSE]})
    /\ UNCHANGED <<adding, published, granting, grants>>

\* The key is found, or there is no such name or key.
Found(look) ==
    LET q == [name |-> look.name, list |-> look.list]
    IN /\ looks' = looks \ {look}
       /\ fingerprint' \in {NoKey, [name |-> q.name, list |-> q.list, key |-> published[q], late |-> look.late]}
       /\ UNCHANGED <<adding, entered, published, granting, grants, named>>

\* A name sets up anew, or rotates the key of its team.
Republish(q) ==
    /\ q.name \in Moving /\ published[q] < MaxPublished
    /\ published' = [published EXCEPT ![q] = @ + 1]
    /\ UNCHANGED <<grantForm, looks, granting, grants, named>>

Pending == \E g \in Grantings : granting[g].here
CallsFor(g, at, name, list, shown) ==
    /\ ~Pending /\ granting[g] = NoGrant
    /\ granting' = [granting EXCEPT ![g] = [at |-> at, name |-> name, list |-> list,
                                            shown |-> shown, here |-> TRUE]]
    /\ UNCHANGED <<grantForm, looks, published, grants, named>>

SubmitGrant(g) ==
    /\ adding # "none" /\ entered # NoGrantee /\ fingerprint # NoKey
    /\ CallsFor(g, "reading", entered, adding, fingerprint)

\* grant looks up the key itself, and wraps for that one (publicKeyOf, subtreeKeyOf).
GrantReads(g) ==
    LET call == granting[g]
        q == [name |-> call.name, list |-> call.list]
    IN /\ call.at = "reading"
       /\ grants' = grants \cup {[name |-> q.name, list |-> q.list, key |-> published[q], shown |-> call.shown]}
       /\ granting' = [granting EXCEPT ![g] = IF call.here THEN Written ELSE NoGrant]
       /\ UNCHANGED <<grantForm, looks, published, named>>

\* revoke shares the flag, and leaves the form.
Revoke(g) == CallsFor(g, "revoking", NoGrantee, "none", NoKey)

\* A grant is mined and the form closes, whichever list it is for by now; or a call fails,
\* or it was a revocation.
GrantEnds(g) ==
    /\ granting[g] # NoGrant
    /\ granting' = [granting EXCEPT ![g] = NoGrant]
    /\ \/ granting[g] = Written /\ FormCloses
       \/ UNCHANGED grantForm
    /\ UNCHANGED <<looks, published, grants, named>>

\* The drawer is closed, and opened again: what is out goes on without the panel.
Reopen ==
    /\ FormCloses /\ looks' = {}
    /\ granting' = [g \in Grantings |-> IF granting[g].at = "reading" THEN [granting[g] EXCEPT !.here = FALSE]
                                          ELSE NoGrant]
    /\ UNCHANGED <<published, grants, named>>

GrantsNext ==
    \/ \E list \in Lists : Choose(list)
    \/ \E n \in Grantees \cup {NoGrantee} : Name(n)
    \/ \E look \in looks : Found(look)
    \/ \E q \in Questions : Republish(q)
    \/ \E g \in Grantings : SubmitGrant(g) \/ GrantReads(g) \/ Revoke(g) \/ GrantEnds(g)
    \/ Reopen
----------------------------------------------------------------------------
GrantsTypeOK ==
    /\ adding \in Lists \cup {"none"} /\ entered \in Grantees \cup {NoGrantee}
    /\ fingerprint \in Fingerprints \cup {NoKey}
    /\ looks \subseteq [name : Grantees, list : Lists, late : BOOLEAN]
    /\ published \in [Questions -> 1..MaxPublished]
    /\ grants \subseteq [name : Grantees, list : Lists, key : 1..MaxPublished, shown : Fingerprints]
    /\ granting \in [Grantings -> [at : {"none", "reading", "writing", "revoking"},
                                   name : Grantees \cup {NoGrantee}, list : Lists \cup {"none"},
                                   shown : Fingerprints \cup {NoKey}, here : BOOLEAN]]
    /\ named \in 0..MaxNamed

\* Who is granted is the one whose fingerprint was on the screen, as a person or as a team,
\* by the key that was shown or by one that name has published since: unless what was on the
\* screen is the late answer of a lookup the user had gone on without (look, grant).
GrantsWhoIsShown ==
    \A g \in grants : \/ g.shown.late
                      \/ g.shown.name = g.name /\ g.shown.list = g.list /\ g.shown.key <= g.key
=============================================================================

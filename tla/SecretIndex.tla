----------------------------- MODULE SecretIndex -----------------------------
(***************************************************************************)
(* The index of a namespace, rewall.secrets on the parent name: create adds*)
(* its label, forget and unindex take one out.  Each reads the index, waits*)
(* for the wallet and writes it back with the secret's own records, in one *)
(* transaction when both names have one resolver and in two when not (the  *)
(* SDK's client.ts and records.ts).                                        *)
(***************************************************************************)
EXTENDS Integers, FiniteSets, Sequences

CONSTANTS Labels,
          Apart,         \* the labels whose name has a resolver of its own
          IndexClients   \* bound: calls that run at once

ASSUME IndexAssumptions == Apart \subseteq Labels

VARIABLES
    stored,  \* the labels whose name holds a secret
    index,   \* rewall.secrets
    icall,   \* the calls: what they read, and the transactions to come
    spoiled  \* ghost: labels two calls crossed over, or one left half done

indexVars == <<stored, index, icall, spoiled>>

NoIndexCall == [op |-> "none", label |-> 0, listed |-> {}, met |-> FALSE, todo |-> <<>>]
IndexOps == {"create", "forget", "unindex"}

SecretIndexInit ==
    /\ stored = {} /\ index = {} /\ spoiled = {}
    /\ icall = [c \in IndexClients |-> NoIndexCall]

\* Mutant of Updated: a forgotten label stays.
UpdatedAddsOnly(op, listed, l) == IF op = "create" THEN listed \cup {l} ELSE listed

\* addToIndex and removeFromIndex.
Updated(op, listed, l) == IF op = "create" THEN listed \cup {l} ELSE listed \ {l}

\* The transactions of a call, in order: an index that would not change is not written.
Transactions(op, l) ==
    LET names == (IF op = "unindex" THEN {} ELSE {"secret"})
                 \cup (IF Updated(op, index, l) = index THEN {} ELSE {"index"})
    IN IF names = {"secret", "index"} /\ l \in Apart THEN <<{"secret"}, {"index"}>> ELSE <<names>>

\* forget needs a secret to clear, unindex a label to take out.
BeginIndex(c, op, l) ==
    /\ icall[c].op = "none"
    /\ op = "forget" => l \in stored
    /\ op = "unindex" => l \in index
    /\ icall' = [icall EXCEPT ![c] = [op |-> op, label |-> l, listed |-> index, met |-> FALSE,
                                      todo |-> Transactions(op, l)]]
    /\ UNCHANGED <<stored, index, spoiled>>

\* The labels that came or went since the call read the index and are set back by it,
\* and its own label if another call about it met it on the way.
Crossed(call) ==
    LET changed == (index \ call.listed) \cup (call.listed \ index)
        writes == Updated(call.op, call.listed, call.label) # call.listed
    IN (IF writes THEN changed ELSE changed \cap {call.label}) \cup {l \in {call.label} : call.met}

\* unindex hides a secret that is there.
Hidden(call) == IF call.op = "unindex" THEN {call.label} \cap stored ELSE {}
Settled(call) == IF call.op = "unindex" THEN {} ELSE {call.label}

\* The next transaction of a call is mined.
LandIndex(c) ==
    LET call == icall[c]
        tx == Head(call.todo)
        last == Len(call.todo) = 1
    IN /\ call.op # "none"
       /\ stored' = IF "secret" \notin tx THEN stored
                    ELSE IF call.op = "create" THEN stored \cup {call.label} ELSE stored \ {call.label}
       /\ index' = IF "index" \in tx THEN Updated(call.op, call.listed, call.label) ELSE index
       /\ spoiled' = IF last THEN (spoiled \ Settled(call)) \cup Crossed(call) \cup Hidden(call)
                     ELSE spoiled \cup {call.label}
       /\ icall' = [d \in IndexClients |->
                       IF d # c THEN [icall[d] EXCEPT !.met = @ \/ icall[d].label = call.label]
                       ELSE IF last THEN NoIndexCall ELSE [call EXCEPT !.todo = Tail(@)]]

\* The wallet refuses the next transaction, or it reverts.
RejectIndex(c) ==
    /\ icall[c].op # "none"
    /\ icall' = [icall EXCEPT ![c] = NoIndexCall]
    /\ UNCHANGED <<stored, index, spoiled>>

SecretIndexNext ==
    \E c \in IndexClients :
        \/ \E op \in IndexOps, l \in Labels : BeginIndex(c, op, l)
        \/ LandIndex(c) \/ RejectIndex(c)

SecretIndexSpec == SecretIndexInit /\ [][SecretIndexNext]_indexVars
----------------------------------------------------------------------------
\* Properties.

\* Every variable keeps its type.
SecretIndexTypeOK ==
    /\ stored \subseteq Labels /\ index \subseteq Labels /\ spoiled \subseteq Labels
    /\ \A c \in IndexClients : icall[c].op \in IndexOps \cup {"none"} /\ icall[c].listed \subseteq Labels

\* The index lists the secrets there are, whichever transactions are refused, but for
\* labels that crossing calls set back or that a call between two resolvers left half
\* done; a later create or forget of one puts it right (create, forget, addToIndex).
IndexMatches ==
    \A l \in Labels \ spoiled : l \in index <=> l \in stored
=============================================================================

------------------------------- MODULE Captures -------------------------------
(***************************************************************************)
(* Setup codes captured from the screen: the worker of the browser         *)
(* extension parks each seed in session storage under an id, and the       *)
(* dashboard it opened claims it (handCapture and claimCapture of          *)
(* extension/entrypoints/background.ts).  Both read the map, change it and *)
(* write it back; other calls run in between.                              *)
(***************************************************************************)
EXTENDS Integers, FiniteSets

CONSTANTS Captured,   \* ids: one for each code that is captured
          Calls,      \* bound: calls that run at once
          MaxClaims   \* bound: claims of one id, by pages that have it in their address

ASSUME CaptureAssumptions == MaxClaims \in Nat

VARIABLES
    captures,  \* session storage: the ids it holds a seed for
    handed,    \* ids the dashboard was opened with
    late,      \* ids captured more than CAPTURE_TTL_MS ago
    call,      \* the calls: what they read
    claims,    \* claims of each id so far
    given,     \* ghost: how often the seed of an id was handed out
    spoiled    \* ghost: ids whose seed another call wrote over, or the browser's end took

captureVars == <<captures, handed, late, call, claims, given, spoiled>>

NoCall == [kind |-> "none", id |-> 0, copy |-> {}]
Made == captures \cup handed \cup {call[c].id : c \in Calls}

CapturesInit ==
    /\ captures = {} /\ handed = {} /\ late = {}
    /\ call = [c \in Calls |-> NoCall]
    /\ claims = [i \in Captured |-> 0]
    /\ given = [i \in Captured |-> 0]
    /\ spoiled = {}

\* cropped found a code: handCapture reads the map.
Hand(c, i) ==
    /\ call[c].kind = "none" /\ i \notin Made /\ i \notin late /\ claims[i] = 0
    /\ call' = [call EXCEPT ![c] = [kind |-> "hand", id |-> i, copy |-> captures]]
    /\ UNCHANGED <<captures, handed, late, claims, given, spoiled>>

\* What writing the map does to the seeds that came or went since it was read.
Overwrites(copy) == (captures \ copy) \cup (copy \ captures)

\* The map is written with the new seed, and the dashboard is opened.
Handed(c) ==
    /\ call[c].kind = "hand"
    /\ captures' = call[c].copy \cup {call[c].id}
    /\ spoiled' = spoiled \cup Overwrites(call[c].copy)
    /\ handed' = handed \cup {call[c].id}
    /\ call' = [call EXCEPT ![c] = NoCall]
    /\ UNCHANGED <<late, claims, given>>

\* A dashboard page claims the id in its address.
Claim(c, i) ==
    /\ call[c].kind = "none" /\ i \in handed /\ claims[i] < MaxClaims
    /\ claims' = [claims EXCEPT ![i] = @ + 1]
    /\ call' = [call EXCEPT ![c] = [kind |-> "claim", id |-> i, copy |-> captures]]
    /\ UNCHANGED <<captures, handed, late, given, spoiled>>

\* Mutant of Claimed: the claimed seed stays in the map.
ClaimedKept(c) ==
    LET i == call[c].id
    IN /\ call[c].kind = "claim"
       /\ captures' = call[c].copy \ late
       /\ spoiled' = spoiled \cup Overwrites(call[c].copy)
       /\ given' = IF i \in call[c].copy \ late THEN [given EXCEPT ![i] = @ + 1] ELSE given
       /\ call' = [call EXCEPT ![c] = NoCall]
       /\ UNCHANGED <<handed, late, claims>>

\* The map is written without the seed and the expired ones, and the seed is handed
\* out if it had not expired.
Claimed(c) ==
    LET i == call[c].id
    IN /\ call[c].kind = "claim"
       /\ captures' = (call[c].copy \ {i}) \ late
       /\ spoiled' = spoiled \cup Overwrites(call[c].copy)
       /\ given' = IF i \in call[c].copy \ late THEN [given EXCEPT ![i] = @ + 1] ELSE given
       /\ call' = [call EXCEPT ![c] = NoCall]
       /\ UNCHANGED <<handed, late, claims>>

\* CAPTURE_TTL_MS passes.
Expire(i) ==
    /\ i \in Made \ late
    /\ late' = late \cup {i}
    /\ UNCHANGED <<captures, handed, call, claims, given, spoiled>>

\* The browser ends, and session storage and the calls with it.
CapturesGone ==
    /\ captures' = {}
    /\ spoiled' = spoiled \cup captures
    /\ call' = [c \in Calls |-> NoCall]
    /\ UNCHANGED <<handed, late, claims, given>>

CapturesNext ==
    \/ \E c \in Calls, i \in Captured : Hand(c, i) \/ Claim(c, i)
    \/ \E c \in Calls : Handed(c) \/ Claimed(c)
    \/ \E i \in Captured : Expire(i)

CapturesSpec == CapturesInit /\ [][CapturesNext]_captureVars
----------------------------------------------------------------------------
\* Properties.

\* Every variable keeps its type.
CapturesTypeOK ==
    /\ captures \subseteq Captured /\ handed \subseteq Captured /\ late \subseteq Captured
    /\ call \in [Calls -> [kind : {"none", "hand", "claim"}, id : Captured \cup {0},
                          copy : SUBSET Captured]]
    /\ claims \in [Captured -> 0..MaxClaims] /\ given \in [Captured -> 0..MaxClaims]
    /\ spoiled \subseteq Captured

\* A seed is claimed once and none is lost: until it expires it is held, was handed
\* out or is being claimed, and never two of them, but for seeds that a call which
\* ran at the same time wrote over (handCapture, claimCapture) and those that session
\* storage took with it.
CapturesConserved ==
    \A i \in handed \ spoiled :
        /\ given[i] + Cardinality({i} \cap captures) <= 1
        /\ i \notin late => given[i] + Cardinality({i} \cap captures) = 1
=============================================================================

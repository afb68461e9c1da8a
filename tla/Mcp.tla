--------------------------------- MODULE Mcp ---------------------------------
(***************************************************************************)
(* The MCP server: what an agent asks over HTTP (mcp/src/http.ts), the     *)
(* tool that answers it (mcp/src/tools.ts) and the vault it reads          *)
(* (mcp/src/vault.ts).  Requests run at once and every await is a step:    *)
(* the client may leave and the owner may replace the secret in between.   *)
(*                                                                         *)
(* Three budgets of calls in a minute and one counter of echoes are kept in*)
(* maps that forget the key least recently let through.                    *)
(***************************************************************************)
EXTENDS Integers, FiniteSets, Sequences

CONSTANTS
    Agents,          \* [peer, seed, secret]: who asks, with which identity, for what
    NoSeed,          \* no credential was sent
    Fallback,        \* the identity in the environment
    Servers,         \* hosts a secret may be sent to
    Contents,        \* what an owner stores: [type, allow, keylike, readers]
    FirstContent,
    Asked,           \* bound: requests open at once
    Limit,           \* REWALL_PEER_RPM, REWALL_RPM and CALLS_PER_MINUTE
    RedactionLimit,  \* REDACTION_LIMIT
    Capacity,        \* CAP of every map
    Minute,          \* 60 s
    Scenes           \* bound: what a behaviour starts with, and how often things happen

Maps == {"peer", "identity", "call"}
NeverOverHttp == {"privkey", "totp", "seed"}
Tools == {"http", "otp", "sign"}

ASSUME McpAssumptions ==
    /\ Limit \in [Maps -> Nat \ {0}]
    /\ RedactionLimit \in Nat \ {0} /\ Capacity \in Nat \ {0} /\ Minute \in Nat \ {0}
    /\ FirstContent \in Contents /\ IsFiniteSet(Asked) /\ Fallback \notin Asked
    /\ \A c \in Contents : c.allow \subseteq Servers /\ c.keylike \in BOOLEAN
    /\ \A s \in Scenes :
          /\ s.agents \subseteq Agents /\ s.asked \subseteq Asked /\ s.tools \subseteq Tools
          /\ s.servers \subseteq Servers
          /\ s.shared \in BOOLEAN /\ s.leave \in BOOLEAN
          /\ s.requests \in Nat /\ s.time \in Nat /\ s.stores \in Nat

VARIABLES
    scene,        \* the scene of this behaviour
    clock,        \* Date.now
    record,       \* the chain: what each secret's name holds
    budgets,      \* the three maps, oldest key first: [key, times]
    redactions,   \* the fourth: [key, count]
    request,      \* the requests
    scalars,      \* the requests whose own identity holds its key, and Fallback
    requests, stores,  \* counts
    served,       \* ghost: what each budget let through, in order
    echoes,       \* ghost: the echoes of a key since the last map forgot it
    sent,         \* ghost: what went to which host
    starved       \* ghost: a call of the shared identity found no key

limits == <<budgets, redactions>>
tallies == <<scene, requests, stores>>
history == <<served, echoes, sent, starved>>
mcpVars == <<scene, clock, record, budgets, redactions, request, scalars, requests, stores,
             served, echoes, sent, starved>>

Free == [at |-> "free", agent |-> NoSeed, tool |-> "otp", closed |-> FALSE, meta |-> FirstContent,
         host |-> NoSeed]

\* The tool is done; what it read is gone.
Ended(r) == IF r.closed THEN Free ELSE [Free EXCEPT !.at = "answered", !.agent = r.agent]

Identity(a) == IF a.seed = NoSeed THEN Fallback ELSE a.seed
Borrowed(q) == request[q].agent.seed = NoSeed

\* per: fingerprint, vault and label.  An identity reads one vault here.
Key(a) == <<Identity(a), a.secret>>
CallKeys == {Key(a) : a \in Agents}
KeyOf(map, a) == CASE map = "peer" -> a.peer
                   [] map = "identity" -> Identity(a)
                   [] map = "call" -> Key(a)

McpInit ==
    /\ scene \in Scenes
    /\ clock = 0
    /\ record = [s \in {a.secret : a \in Agents} |-> FirstContent]
    /\ budgets = [m \in Maps |-> <<>>] /\ redactions = <<>>
    /\ request = [q \in Asked |-> Free] /\ scalars = {Fallback}
    /\ requests = 0 /\ stores = 0
    /\ served = [m \in Maps |-> <<>>]
    /\ echoes = [k \in CallKeys |-> 0]
    /\ sent = {} /\ starved = FALSE

----------------------------------------------------------------------------
\* The maps.

Found(map, key) == \E i \in DOMAIN map : map[i].key = key
Place(map, key) == CHOOSE i \in DOMAIN map : map[i].key = key
Entry(map, key) == map[Place(map, key)]
Without(map, key) ==
    IF Found(map, key)
    THEN [i \in 1..Len(map) - 1 |-> map[IF i < Place(map, key) THEN i ELSE i + 1]]
    ELSE map
Capped(map) == IF Len(map) > Capacity THEN Tail(map) ELSE map

\* Mutant of Keep: a known key keeps its old place.
KeepInPlace(map, entry) ==
    IF Found(map, entry.key)
    THEN [i \in DOMAIN map |-> IF map[i].key = entry.key THEN entry ELSE map[i]]
    ELSE Capped(Append(map, entry))

\* keep, and the end of budget: the key becomes the newest, the oldest goes.
Keep(map, entry) == Capped(Append(Without(map, entry.key), entry))

\* The times of the last minute, which are the last ones: the clock never runs back.
Recent(map, key) ==
    IF Found(budgets[map], key)
    THEN LET times == Entry(budgets[map], key).times
             fresh == Cardinality({i \in DOMAIN times : clock - times[i] < Minute})
         IN SubSeq(times, Len(times) - fresh + 1, Len(times))
    ELSE <<>>
Spent(map, a) == Len(Recent(map, KeyOf(map, a))) >= Limit[map]

\* budget and rateLimit, when they let the caller through.
Let(map, a) ==
    LET key == KeyOf(map, a)
    IN /\ ~Spent(map, a)
       /\ budgets' = [budgets EXCEPT ![map] =
                         Keep(@, [key |-> key, times |-> Append(Recent(map, key), clock)])]
       /\ served' = [served EXCEPT ![map] = Append(@, [key |-> key, at |-> clock])]

Echoed(key) == IF Found(redactions, key) THEN Entry(redactions, key).count ELSE 0

----------------------------------------------------------------------------
\* The HTTP handler.

\* perPeer, then the credentials: a caller who sent none is answered only where the
\* operator shares its vault.
Arrive(q, a, tool) ==
    LET refused == a.seed = NoSeed /\ ~scene.shared
    IN /\ request[q].at = "free" /\ requests < scene.requests
       /\ a \in scene.agents /\ tool \in scene.tools
       /\ requests' = requests + 1
       /\ \/ Spent("peer", a) /\ UNCHANGED <<budgets, served, request, scalars>>
          \/ Let("peer", a) /\ refused /\ UNCHANGED <<request, scalars>>
          \/ /\ Let("peer", a) /\ ~refused
             /\ request' = [request EXCEPT ![q] = [Free EXCEPT !.at = "arrived", !.agent = a,
                                                              !.tool = tool]]
             /\ scalars' = scalars \cup (IF a.seed = NoSeed THEN {} ELSE {q})
       /\ UNCHANGED <<scene, clock, record, redactions, stores, echoes, sent, starved>>

\* Mutant of Wipe: the shared identity is wiped as well.
WipeAll(q) == scalars' = scalars \ {IF Borrowed(q) THEN Fallback ELSE q}

\* An own identity is wiped, the borrowed one serves the next caller.
Wipe(q) == scalars' = scalars \ {q}

\* perIdentity: over it an identity of the caller's own is wiped at once.
Admit(q) ==
    LET a == request[q].agent
    IN /\ request[q].at = "arrived"
       /\ \/ /\ Spent("identity", a) /\ Wipe(q)
             /\ request' = [request EXCEPT ![q] = Free]
             /\ UNCHANGED <<budgets, served>>
          \/ /\ Let("identity", a)
             /\ request' = [request EXCEPT ![q].at = "admitted"]
             /\ UNCHANGED scalars
       /\ UNCHANGED <<clock, record, redactions, tallies, echoes, sent, starved>>

\* The response ends, or the client is gone and the tool goes on without it.
Close(q) ==
    /\ request[q].at \notin {"free", "arrived"} /\ ~request[q].closed
    /\ \/ /\ request[q].at = "answered"
          /\ request' = [request EXCEPT ![q] = Free]
       \/ /\ request[q].at # "answered" /\ scene.leave
          /\ request' = [request EXCEPT ![q].closed = TRUE]
    /\ Wipe(q)
    /\ UNCHANGED <<clock, record, limits, tallies, history>>

----------------------------------------------------------------------------
\* The tools.

\* Signing is offered to callers of the shared vault alone.
Offered(q) == request[q].tool = "sign" => Borrowed(q)

\* rateLimit, and for http_with_secret the echoes so far.
Begin(q) ==
    LET a == request[q].agent
        on == ~Spent("call", a) /\ Offered(q)
              /\ (request[q].tool = "http" => Echoed(Key(a)) < RedactionLimit)
    IN /\ request[q].at = "admitted"
       /\ request' = [request EXCEPT ![q] = IF on THEN [@ EXCEPT !.at = "reading"] ELSE Ended(@)]
       /\ IF Spent("call", a) \/ ~Offered(q) THEN UNCHANGED <<budgets, served>> ELSE Let("call", a)
       /\ UNCHANGED <<clock, record, redactions, scalars, tallies, echoes, sent, starved>>

\* Mutant of CheckUrl: any https host will do.
CheckUrlAny(host, allow) == host \in Servers

\* checkUrl, of a url with an https host.
CheckUrl(host, allow) == host \in allow

\* metaOf, and what each tool asks of it: a wrap for this identity, its type, and the
\* host of the url, which the caller chose.
ReadMeta(q, host) ==
    LET r == request[q]
        meta == record[r.agent.secret]
        on == /\ Identity(r.agent) \in meta.readers
              /\ CASE r.tool = "http" -> meta.type \notin NeverOverHttp /\ CheckUrl(host, meta.allow)
                   [] r.tool = "otp" -> meta.type = "totp"
                   [] r.tool = "sign" -> meta.type = "privkey"
    IN /\ r.at = "reading" /\ host \in scene.servers
       /\ request' = [request EXCEPT ![q] = IF on THEN [@ EXCEPT !.at = "opening", !.meta = meta,
                                                                 !.host = host]
                                            ELSE Ended(@)]
       /\ UNCHANGED <<clock, record, limits, scalars, tallies, history>>

\* looksLikeKeyMaterial: the bytes decide, whatever the record claims.
Travels(content) == ~content.keylike

\* get reads the name again, and opens what is there by now with a key that may have
\* been wiped; http_with_secret sends it.
GetSecret(q) ==
    LET r == request[q]
        content == record[r.agent.secret]
        key == IF Borrowed(q) THEN Fallback \in scalars ELSE q \in scalars
        sends == r.tool = "http" /\ key /\ Identity(r.agent) \in content.readers /\ Travels(content)
    IN /\ r.at = "opening"
       /\ request' = [request EXCEPT ![q] = IF sends THEN [@ EXCEPT !.at = "sent"] ELSE Ended(@)]
       /\ sent' = IF sends THEN sent \cup {[host |-> r.host, content |-> content,
                                            torn |-> content # r.meta]} ELSE sent
       /\ starved' = (starved \/ (Borrowed(q) /\ Fallback \notin scalars))
       /\ UNCHANGED <<clock, record, limits, scalars, tallies, served, echoes>>

Count(key) == Echoed(key) + 1

\* The host answers, and a readable body or header quotes the secret.
Echo(q) ==
    LET key == Key(request[q].agent)
        kept == Keep(redactions, [key |-> key, count |-> Count(key)])
    IN /\ request[q].at = "sent"
       /\ redactions' = kept
       /\ echoes' = [k \in CallKeys |-> IF k = key THEN echoes[k] + 1
                                    ELSE IF Found(kept, k) THEN echoes[k] ELSE 0]
       /\ request' = [request EXCEPT ![q] = Ended(@)]
       /\ UNCHANGED <<clock, record, budgets, scalars, tallies, served, sent, starved>>

\* It does not, redirects, sends a type that is not read, or is not reached.
Answer(q) ==
    /\ request[q].at = "sent"
    /\ request' = [request EXCEPT ![q] = Ended(@)]
    /\ UNCHANGED <<clock, record, limits, scalars, tallies, history>>

----------------------------------------------------------------------------
\* The owner stores something else under a name, in one transaction.
Store(s, content) ==
    /\ stores < scene.stores /\ record[s] # content
    /\ stores' = stores + 1
    /\ record' = [record EXCEPT ![s] = content]
    /\ UNCHANGED <<scene, clock, limits, request, scalars, requests, history>>

TimePasses ==
    /\ clock < scene.time
    /\ clock' = clock + 1
    /\ UNCHANGED <<record, limits, request, scalars, tallies, history>>

McpNext ==
    \/ \E q \in scene.asked :
          \/ \E a \in Agents, tool \in Tools : Arrive(q, a, tool)
          \/ Admit(q) \/ Begin(q) \/ GetSecret(q) \/ Echo(q) \/ Answer(q) \/ Close(q)
          \/ \E host \in Servers : ReadMeta(q, host)
    \/ \E s \in DOMAIN record, content \in Contents : Store(s, content)
    \/ TimePasses

McpSpec == McpInit /\ [][McpNext]_mcpVars
----------------------------------------------------------------------------
\* Properties.

\* Every variable keeps its type.
McpTypeOK ==
    /\ scene \in Scenes /\ clock \in 0..scene.time
    /\ \A s \in DOMAIN record : record[s] \in Contents
    /\ \A m \in Maps : Len(budgets[m]) <= Capacity
    /\ Len(redactions) <= Capacity
    /\ \A q \in Asked : request[q].at \in {"free", "arrived", "admitted", "reading", "opening",
                                           "sent", "answered"}
    /\ scalars \subseteq Asked \cup {Fallback} /\ starved \in BOOLEAN
    /\ requests \in 0..scene.requests /\ stores \in 0..scene.stores
    /\ echoes \in [CallKeys -> 0..scene.requests]

\* No budget lets more through in a minute than its limit, but for a key that as many
\* others as the map holds have pushed out since; and a secret that hosts echoed is out of
\* use: while the counter is remembered, no more than the calls already under way echo it
\* again (budget, rateLimit, keep, and the redactions counted after the awaits).
Between(map, i, j) == {served[map][h].key : h \in i..j} \ {served[map][j].key}
BudgetsHold ==
    /\ \A m \in Maps : \A j \in DOMAIN served[m] :
          Cardinality({i \in 1..j : /\ served[m][i].key = served[m][j].key
                                    /\ served[m][j].at - served[m][i].at < Minute
                                    /\ Cardinality(Between(m, i, j)) < Capacity}) <= Limit[m]
    /\ \A k \in CallKeys : echoes[k] <= RedactionLimit + Cardinality(scene.asked) - 1

\* A value goes only to a host its own record allows, and one that is a key goes
\* nowhere; a record replaced between metaOf and get excuses the host, never the key.
SentWhereAllowed ==
    \A s \in sent : ~s.content.keylike /\ (s.torn \/ s.host \in s.content.allow)

\* The identity of a caller is wiped once its response is closed, in whatever order
\* the tool and the client end, and the shared one never fails the callers after it.
KeysWiped ==
    /\ \A q \in Asked \cap scalars : request[q].at # "free" /\ ~request[q].closed
    /\ ~starved
=============================================================================

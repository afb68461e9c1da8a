------------------------------ MODULE MCReaders ------------------------------
(* Small instances of Readers: each behaviour plays one part of it. *)
EXTENDS Readers, TLC

CONSTANTS s1, s2, h1, h2, p1, t1, t2, f1, f2, i1, i2, c1, c2,
          x, y, z, px, py, pz, k, l, m1, m2

MCPages == t1 :> h1 @@ t2 :> h2
MCSites == s1 :> h1 @@ s2 :> h2

\* Nothing happens that a play does not ask for.
Still == [popup |-> FALSE, presses |-> {}, met |-> FALSE, opened |-> FALSE, ends |-> FALSE,
          captures |-> FALSE, paired |-> 1, unlocks |-> 1, moves |-> 0, nonces |-> 1,
          tabs |-> {}, slots |-> {}, events |-> 0, clicks |-> FALSE]

Locking == [Still EXCEPT !.popup = TRUE, !.presses = {p1}, !.unlocks = 2, !.ends = TRUE]
Moving == [Still EXCEPT !.popup = TRUE, !.presses = {p1}, !.met = TRUE, !.moves = 2]
Meeting == [Still EXCEPT !.popup = TRUE, !.presses = {p1}, !.unlocks = 2, !.moves = 1]
Pairing == [Still EXCEPT !.popup = TRUE, !.presses = {p1}, !.paired = 0, !.nonces = 2, !.ends = TRUE]
Filling == [Still EXCEPT !.opened = TRUE, !.met = TRUE, !.tabs = {t1}, !.slots = {f1, f2}, !.events = 2, !.clicks = TRUE]
Browsing == [Still EXCEPT !.opened = TRUE, !.met = TRUE, !.tabs = {t1}, !.slots = {f1}, !.events = 3, !.clicks = TRUE]
Clicking == [Still EXCEPT !.opened = TRUE, !.met = TRUE, !.tabs = {t1}, !.slots = {f1}, !.events = 1, !.clicks = TRUE,
                          !.ends = TRUE]
TwoTabs == [Still EXCEPT !.opened = TRUE, !.met = TRUE, !.tabs = {t1, t2}, !.slots = {f1}, !.events = 1,
                         !.ends = TRUE]
Opening == [Still EXCEPT !.popup = TRUE, !.presses = {p1}, !.met = TRUE, !.tabs = {t1}, !.slots = {f1}]
Capturing == [Still EXCEPT !.captures = TRUE]

MCPlays == {Locking, Moving, Meeting, Pairing, Filling, Browsing, Clicking, TwoTabs, Opening, Capturing, Still}

----------------------------------------------------------------------------
Agent(peer, seed, secret) == [peer |-> peer, seed |-> seed, secret |-> secret]
X == Agent(px, x, k)
Y == Agent(py, y, k)
Z == Agent(pz, z, k)
XToo == Agent(px, x, l)
YAtX == Agent(px, y, k)
Shared == Agent(py, NoSeed, k)
MCAgents == {X, Y, Z, XToo, YAtX, Shared}
Everyone == {x, y, z, Fallback}

Content(type, allow, keylike) == [type |-> type, allow |-> allow, keylike |-> keylike, readers |-> Everyone]
ApiKey == Content("generic", {m1}, FALSE)
Mislabelled == Content("generic", {m1}, TRUE)
MCContents == {ApiKey, Mislabelled, Content("generic", {m2}, FALSE), Content("privkey", {m2}, TRUE),
               [ApiKey EXCEPT !.readers = {}], Content("totp", {}, TRUE)}

MCLimit == [map \in Maps |-> IF map = "call" THEN 1 ELSE 2]

Silent == [agents |-> {}, asked |-> {}, tools |-> {"http"}, servers |-> {m1}, shared |-> FALSE, leave |-> FALSE,
          requests |-> 0, time |-> 0, stores |-> 0]
Crowded == [Silent EXCEPT !.agents = {X, Y, Z}, !.asked = {1}, !.tools = {"otp"}, !.requests = 5, !.time = 1]
Peers == [Silent EXCEPT !.agents = {X, XToo, YAtX}, !.asked = {1}, !.requests = 4, !.time = 1]
Echoing == [Silent EXCEPT !.agents = {X}, !.asked = {1, 2}, !.requests = 3, !.time = 2]
Repeating == [Silent EXCEPT !.agents = {X}, !.asked = {1}, !.requests = 4, !.time = 3]
Storing == [Silent EXCEPT !.agents = {X, Shared}, !.asked = {1}, !.tools = Tools, !.servers = {m1, m2},
                         !.shared = TRUE, !.requests = 1, !.stores = 2]
Closing == [Silent EXCEPT !.agents = {X, Shared}, !.asked = {1, 2}, !.shared = TRUE,
                         !.leave = TRUE, !.requests = 3]
Unshared == [Silent EXCEPT !.agents = {X, Shared}, !.asked = {1}, !.requests = 2]

MCScenes == {Crowded, Peers, Echoing, Repeating, Storing, Closing, Unshared, Silent}
=============================================================================

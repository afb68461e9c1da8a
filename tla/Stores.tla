-------------------------------- MODULE Stores --------------------------------
(***************************************************************************)
(* The forms that store a secret and an authenticator (create-secret.tsx   *)
(* and add-authenticator.tsx).  What is already there is not replaced      *)
(* until the user says so; the offer holds the whole entry it was made     *)
(* for, and stands while some of the fields beside it change.              *)
(***************************************************************************)
EXTENDS Integers

CONSTANTS Targets, NoTarget,  \* names under the namespace
          Taken,              \* those that hold a secret at first
          Values, NoValue,    \* values, or setup keys
          Details,            \* what the other fields may hold
          FirstDetail,        \* what they hold at first
          Storings,           \* bound: calls at once
          MaxFilled,          \* bound: changes of a field
          MaxOpened           \* bound: times the drawer is opened

ASSUME StoreAssumptions ==
    /\ Taken \subseteq Targets /\ NoTarget \notin Targets /\ NoValue \notin Values /\ FirstDetail \in Details
    /\ {MaxFilled, MaxOpened} \subseteq Nat

VARIABLES
    panel,      \* the form: "create", "authenticator", or none
    opened,     \* how often a form was opened
    entry,      \* its fields; the detail is the site, or the type, and who recovers and shares
    worded,     \* the name was typed, not suggested
    conflict,   \* the entry it offers to replace what is there with
    busy,       \* it waits for a call
    storing,    \* the calls
    live,       \* the names that hold a secret on chain
    filled,     \* changes of a field so far
    drifted,    \* ghost: a field was changed since the entry on offer was submitted
    origin,     \* ghost: the entry that was submitted when the offer was made
    replaced    \* ghost: what was asked and shown when the last step replaced one

offer == <<conflict, drifted, origin>>
storeForm == <<panel, entry, worded, busy>>
storeVars == <<storeForm, opened, offer, storing, live, filled, replaced>>

Panels == {"create", "authenticator"}
Entry == [target : Targets \cup {NoTarget}, value : Values \cup {NoValue}, detail : Details]
Empty == [target |-> NoTarget, value |-> NoValue, detail |-> FirstDetail]
Done == [at |-> "none", entry |-> Empty, sent |-> Empty, shown |-> Empty, overwrite |-> FALSE,
         here |-> FALSE, edited |-> FALSE, raced |-> FALSE]
Nothing == [asked |-> TRUE, raced |-> FALSE, edited |-> FALSE, entry |-> Empty, sent |-> Empty, shown |-> Empty]

StoresInit ==
    /\ panel = "none" /\ opened = 0 /\ entry = Empty /\ worded = FALSE /\ conflict = Empty /\ busy = FALSE
    /\ storing = [s \in Storings |-> Done]
    /\ live = Taken
    /\ filled = 0 /\ drifted = FALSE /\ origin = Empty /\ replaced = Nothing
----------------------------------------------------------------------------
OpenForm(p) ==
    /\ panel = "none" /\ opened < MaxOpened
    /\ panel' = p /\ opened' = opened + 1
    /\ UNCHANGED <<entry, worded, busy, offer, storing, live, filled>>

\* What is out goes on without the form.
Unseen(call) == IF call.at = "none" THEN Done ELSE [call EXCEPT !.here = FALSE]
NoOffer == conflict' = Empty /\ drifted' = FALSE /\ origin' = Empty
Closed == panel' = "none" /\ entry' = Empty /\ worded' = FALSE /\ busy' = FALSE /\ NoOffer

CloseForm ==
    /\ panel # "none" /\ Closed
    /\ storing' = [s \in Storings |-> Unseen(storing[s])]
    /\ UNCHANGED <<opened, live, filled>>

\* A field changes under the calls that are out; some changes take the offer away.
Changes(e) ==
    /\ panel # "none" /\ e # entry /\ entry' = e
    /\ filled < MaxFilled /\ filled' = filled + 1
    /\ storing' = [s \in Storings |-> IF storing[s].here /\ ~storing[s].overwrite THEN [storing[s] EXCEPT !.edited = TRUE]
                                      ELSE storing[s]]
    /\ UNCHANGED <<panel, opened, busy, live>>
Leaves == UNCHANGED <<conflict, origin>> /\ drifted' = (drifted \/ conflict # Empty)

\* Mutant of FillTarget: the offer stands when another name is typed.
FillTargetUnder(t) ==
    Changes([entry EXCEPT !.target = t]) /\ worded' = TRUE /\ UNCHANGED offer

FillTarget(t) == Changes([entry EXCEPT !.target = t]) /\ worded' = TRUE /\ NoOffer

\* The form of an authenticator suggests a name, from the key and the site, until one is typed.
Suggests(t) == UNCHANGED worded /\ (t = entry.target \/ ~worded)

FillSetupKey(v, t) ==
    /\ panel = "authenticator" /\ v # entry.value /\ Suggests(t)
    /\ Changes([entry EXCEPT !.value = v, !.target = t]) /\ NoOffer

\* The site, or who recovers: the offer stands, though the name beside it may move.
FillSite(d, t) ==
    /\ panel = "authenticator" /\ d # entry.detail /\ Suggests(t)
    /\ entry.value = NoValue => t = entry.target
    /\ Changes([entry EXCEPT !.detail = d, !.target = t]) /\ Leaves

\* The vault arrives or is read again, and the suggestion moves by itself.
SuggestAgain(t) ==
    /\ panel = "authenticator" /\ entry.value # NoValue /\ Suggests(t)
    /\ Changes([entry EXCEPT !.target = t]) /\ Leaves

\* Everything but the name leaves the offer of the form of a secret.
FillValue(v, d) ==
    /\ panel = "create" /\ (v = entry.value \/ d = entry.detail)
    /\ Changes([entry EXCEPT !.value = v, !.detail = d]) /\ Leaves /\ UNCHANGED worded

Store(s, e, sent, overwrite, edited) ==
    /\ storing[s] = Done
    /\ storing' = [storing EXCEPT ![s] = [at |-> "checking", entry |-> e, sent |-> sent, shown |-> entry, overwrite |-> overwrite,
                                          here |-> TRUE, edited |-> edited, raced |-> FALSE]]
    /\ busy' = TRUE
    /\ UNCHANGED <<panel, opened, entry, worded, live, filled>>

SubmitEntry(s) ==
    /\ panel # "none" /\ ~busy /\ entry.target # NoTarget /\ entry.value # NoValue
    /\ NoOffer
    /\ Store(s, entry, entry, FALSE, FALSE)

\* The site is none, or a name is not complete, or nobody recovers: the offer is gone.
RefuseEntry ==
    /\ panel # "none" /\ ~busy /\ entry.target # NoTarget /\ entry.value # NoValue
    /\ conflict # Empty /\ NoOffer
    /\ UNCHANGED <<storeForm, opened, storing, live, filled>>

\* The button is there as long as the offer is.
ReplaceIt(s) ==
    /\ panel # "none" /\ conflict # Empty
    /\ Store(s, conflict, origin, TRUE, drifted)
    /\ UNCHANGED offer

\* create finds that the secret exists.
Conflicts(s) ==
    LET call == storing[s]
    IN /\ call.at = "checking" /\ ~call.overwrite /\ call.entry.target \in live
       /\ conflict' = IF storing[s].here THEN call.entry ELSE conflict
       /\ drifted' = IF storing[s].here THEN call.edited ELSE drifted
       /\ origin' = IF storing[s].here THEN call.sent ELSE origin
       /\ busy' = (busy /\ ~storing[s].here)
       /\ storing' = [storing EXCEPT ![s] = Done]
       /\ UNCHANGED <<panel, opened, entry, worded, live, filled>>

MayStore(s) ==
    /\ storing[s].at = "checking"
    /\ storing[s].overwrite \/ storing[s].entry.target \notin live
    /\ storing' = [storing EXCEPT ![s].at = "writing"]
    /\ UNCHANGED <<storeForm, opened, offer, live, filled>>

\* The transaction is mined, beside those that have checked the same name.
Races(s, t) == storing[t].at = "writing" /\ storing[t].entry.target = storing[s].entry.target
Rivals(s) ==
    [t \in Storings |-> IF t = s THEN Done
                       ELSE IF Races(s, t) THEN [storing[t] EXCEPT !.raced = TRUE] ELSE storing[t]]
Mined(s) ==
    LET call == storing[s]
    IN /\ call.at = "writing"
       /\ live' = live \cup {call.entry.target}
       /\ replaced' = IF call.entry.target \notin live THEN Nothing
                      ELSE [asked |-> call.overwrite, raced |-> call.raced, edited |-> call.edited,
                            entry |-> call.entry, sent |-> call.sent, shown |-> call.shown]

\* It is confirmed, and the drawer closes, whatever it shows by now.
EntryStored(s) ==
    /\ Mined(s) /\ Closed
    /\ storing' = [t \in Storings |-> Unseen(Rivals(s)[t])]
    /\ UNCHANGED <<opened, filled>>

\* The wallet refuses, or the chain; or the receipt does not come.
StoreFails(s) ==
    /\ storing[s] # Done
    /\ \/ Mined(s) /\ storing' = Rivals(s)
       \/ storing' = [storing EXCEPT ![s] = Done] /\ UNCHANGED live /\ replaced' = Nothing
    /\ busy' = (busy /\ ~storing[s].here)
    /\ UNCHANGED <<panel, opened, entry, worded, offer, filled>>

StoresNext ==
    \/ /\ replaced' = Nothing
       /\ \/ \E p \in Panels : OpenForm(p)
          \/ CloseForm \/ RefuseEntry
          \/ \E t \in Targets \cup {NoTarget} : FillTarget(t)
          \/ \E t \in Targets : SuggestAgain(t)
          \/ \E v \in Values \cup {NoValue}, t \in Targets \cup {NoTarget} : FillSetupKey(v, t)
          \/ \E d \in Details, t \in Targets \cup {NoTarget} : FillSite(d, t)
          \/ \E v \in Values \cup {NoValue}, d \in Details : FillValue(v, d)
          \/ \E s \in Storings : SubmitEntry(s) \/ ReplaceIt(s) \/ Conflicts(s) \/ MayStore(s)
    \/ \E s \in Storings : EntryStored(s) \/ StoreFails(s)
----------------------------------------------------------------------------
StoresTypeOK ==
    /\ panel \in Panels \cup {"none"} /\ opened \in 0..MaxOpened /\ filled \in 0..MaxFilled
    /\ {entry, conflict, origin} \subseteq Entry /\ {busy, worded, drifted} \subseteq BOOLEAN
    /\ live \subseteq Targets
    /\ storing \in [Storings -> [at : {"none", "checking", "writing"}, entry : Entry, sent : Entry, shown : Entry,
                                 overwrite : BOOLEAN, here : BOOLEAN, edited : BOOLEAN, raced : BOOLEAN]]
    /\ replaced \in [asked : BOOLEAN, raced : BOOLEAN, edited : BOOLEAN,
                     entry : Entry, sent : Entry, shown : Entry]

\* A secret is replaced by an entry that was submitted as a whole, and only after the user
\* was told that it is there, or by a call that checked the name before another one took it.
\* What replaces it is what the form showed as the user agreed, unless a field was changed
\* since it was submitted that leaves the offer, or under the call that made it (store,
\* create-secret.tsx and add-authenticator.tsx).
ReplacesWhatWasAsked ==
    LET r == replaced
    IN /\ r.entry = r.sent
       /\ r.asked \/ r.raced
       /\ r.edited \/ r.entry = r.shown
=============================================================================

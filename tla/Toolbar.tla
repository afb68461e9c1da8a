------------------------------- MODULE Toolbar -------------------------------
(***************************************************************************)
(* The toolbar button of the browser extension: pages announce a field for *)
(* a code (extension/entrypoints/otp.content.ts), the worker remembers in  *)
(* session storage which tabs hold one, paints the button of a tab as a    *)
(* menu or as a fill, and a click fills (entrypoints/background.ts).       *)
(*                                                                         *)
(* Messages and browser events reach the worker in order; a handler that   *)
(* awaits lets the next one start.  A call of the popup and the idle timer *)
(* paint every button themselves, beside the handler of the storage event. *)
(* A page is one frame.                                                    *)
(***************************************************************************)
EXTENDS Vault, Sequences

CONSTANTS
    Tabs,
    PageAtFirst,  \* the host each tab shows at first
    Slots,        \* bound: handlers of events that run at once
    IdleTimer,    \* the handler of the idle timer
    MaxInbox      \* bound: events the worker has not started on

ASSUME ToolbarAssumptions ==
    /\ MaxInbox \in Nat /\ PageAtFirst \in [Tabs -> Hosts]
    /\ \A p \in Plays : /\ p.tabs \subseteq Tabs /\ p.slots \subseteq Slots /\ p.events \in Nat
                       /\ IsFiniteSet(p.slots) /\ p.clicks \in BOOLEAN
    /\ Slots \cap (Flows \cup {IdleTimer}) = {} /\ IdleTimer \notin Flows

\* What may paint: a handler of an event, a call of the popup, the idle timer.
Handlers == Slots \cup Flows \cup {IdleTimer}

VARIABLES
    page,    \* what each tab shows: its host, its field, and what its script announced
    fields,  \* session storage: the host of each tab that holds a field
    mode,    \* what a click on the button does in each tab
    inbox,   \* events on their way to the worker
    task,    \* its handlers
    click,   \* the click that is being answered
    events,  \* page events so far
    mixed,   \* ghost: two handlers changed fields at once
    astray,  \* ghost: a code went to a page of another host
    behind,  \* ghost: handlers whose tab another one has painted since they read it
    overtaken,  \* ghost: tabs last painted by one of those, and wrongly
    skipped  \* ghost: tabs a paintAll that failed left out, and no paint has read since

pages == <<page, events>>
buttons == <<fields, mode>>
paints == <<behind, overtaken, skipped>>
marks == <<mixed, astray, paints>>
toolbarVars == <<page, fields, mode, inbox, task, click, events, mixed, astray, behind, overtaken,
                 skipped>>

NoClick == [at |-> "idle", tab |-> 0, host |-> NoHost, late |-> FALSE]
NoTask == [kind |-> "none", at |-> "idle", tab |-> 0, host |-> NoHost, present |-> FALSE,
           copy |-> [t \in Tabs |-> NoHost], todo |-> {}, hit |-> FALSE]
Kinds == {"announce", "updated", "removed", "seen", "repaint"}
Blank(h) == [host |-> h, field |-> FALSE, said |-> "nothing", routed |-> FALSE]
Updating == {"held", "query", "get", "set"}

ToolbarInit ==
    /\ page = [t \in Tabs |-> IF t \in play.tabs THEN [Blank(PageAtFirst[t]) EXCEPT !.field = TRUE]
                              ELSE Blank(NoHost)]
    /\ fields = [t \in Tabs |-> NoHost]
    /\ mode = [t \in Tabs |-> "menu"]
    /\ inbox = <<>>
    /\ task = [s \in Handlers |-> NoTask]
    /\ click = NoClick
    /\ events = 0
    /\ mixed = FALSE /\ astray = FALSE
    /\ behind = {} /\ overtaken = {} /\ skipped = {}

----------------------------------------------------------------------------
\* Pages.

Event(kind, t, host, present) == [kind |-> kind, tab |-> t, host |-> host, present |-> present]
Post(event) == Len(inbox) < MaxInbox /\ inbox' = Append(inbox, event)
PageEvent(t) ==
    /\ t \in play.tabs /\ page[t].host # NoHost
    /\ events < play.events
    /\ events' = events + 1

\* The script of the page has said what it sees.
Announced(t) == page[t].host = NoHost \/ page[t].said = IF page[t].field THEN "present" ELSE "absent"

\* A navigation of the tab, that the worker has not handled.
Leaving(t) ==
    \/ \E i \in DOMAIN inbox : inbox[i].tab = t /\ inbox[i].kind = "updated"
    \/ \E s \in Slots : task[s].tab = t /\ task[s].kind = "updated" /\ task[s].at \in Updating

Navigate(t, h) ==
    /\ PageEvent(t)
    /\ page' = [page EXCEPT ![t] = Blank(h)]
    /\ Post(Event("updated", t, NoHost, FALSE))
    /\ click' = IF click.tab = t THEN [click EXCEPT !.late = TRUE] ELSE click
    /\ UNCHANGED <<buttons, task, marks>>

\* A page that changes its address by itself keeps its script and its field.
Route(t) ==
    /\ PageEvent(t)
    /\ page' = [page EXCEPT ![t].routed = TRUE]
    /\ Post(Event("updated", t, NoHost, FALSE))
    /\ UNCHANGED <<buttons, task, click, marks>>

CloseTab(t) ==
    /\ PageEvent(t)
    /\ page' = [page EXCEPT ![t] = Blank(NoHost)]
    /\ Post(Event("removed", t, NoHost, FALSE))
    /\ click' = IF click.tab = t THEN [click EXCEPT !.late = TRUE] ELSE click
    /\ UNCHANGED <<buttons, task, marks>>

\* The field of a page is mounted, or goes.
Mount(t) ==
    /\ PageEvent(t)
    /\ page' = [page EXCEPT ![t].field = ~@]
    /\ UNCHANGED <<buttons, inbox, task, click, marks>>

\* Mutant of Announce: only a field that appears is announced.
AnnouncePresent(t) ==
    LET said == IF page[t].field THEN "present" ELSE "absent"
    IN /\ t \in play.tabs /\ page[t].host # NoHost /\ page[t].said # said
       /\ page' = [page EXCEPT ![t].said = said]
       /\ IF page[t].field THEN Post(Event("announce", t, page[t].host, TRUE)) ELSE UNCHANGED inbox
       /\ UNCHANGED <<buttons, task, click, events, marks>>

\* announce: what the script last said is not said again.
Announce(t) ==
    LET said == IF page[t].field THEN "present" ELSE "absent"
    IN /\ t \in play.tabs /\ page[t].host # NoHost /\ page[t].said # said
       /\ page' = [page EXCEPT ![t].said = said]
       /\ Post(Event("announce", t, page[t].host, page[t].field))
       /\ UNCHANGED <<buttons, task, click, events, marks>>

\* The menu opens on the tab, asks its page, and tells the worker (describeTab).  The
\* page has scanned itself by then.
Describe(t) ==
    /\ PageEvent(t) /\ mode[t] = "menu" /\ Announced(t)
    /\ page' = [page EXCEPT ![t].routed = FALSE]
    /\ Post(Event("seen", t, NoHost, page[t].field))
    /\ UNCHANGED <<buttons, task, click, marks>>

----------------------------------------------------------------------------
\* Handlers.

Working(s, at) == task' = [task EXCEPT ![s].at = at]
Done(s) == task' = [task EXCEPT ![s] = NoTask]
Quiet == UNCHANGED <<pages, inbox, click, astray>>

FirstAwait(kind) ==
    CASE kind = "announce" -> "held"
      [] kind = "seen" -> "query"
      [] kind \in {"updated", "removed"} -> "get"
      [] kind = "repaint" -> "keys"

Start(s) ==
    /\ s \in play.slots /\ task[s].at = "idle" /\ inbox # <<>>
    /\ LET e == Head(inbox)
       IN task' = [task EXCEPT ![s] = [NoTask EXCEPT !.kind = e.kind, !.at = FirstAwait(e.kind),
                                          !.tab = e.tab, !.host = e.host, !.present = e.present]]
    /\ inbox' = Tail(inbox)
    /\ mixed' = (mixed \/ \E r \in Slots : task[r].at \in Updating)
    /\ UNCHANGED <<pages, buttons, click, astray, paints>>

\* announce: a field that went is forgotten only if the frame is the one held.
Held(s) ==
    /\ task[s].at = "held"
    /\ \/ task[s].present /\ Working(s, "get")
       \/ /\ ~task[s].present /\ fields[task[s].tab] # NoHost
          /\ task' = [task EXCEPT ![s].at = "get", ![s].host = NoHost]
       \/ ~task[s].present /\ fields[task[s].tab] = NoHost /\ Working(s, "paint")
    /\ Quiet /\ UNCHANGED <<buttons, mixed, paints>>

\* seen: the host is the one the tab shows now.
Query(s) ==
    LET h == page[task[s].tab].host
    IN /\ task[s].at = "query"
       /\ IF h = NoHost THEN Done(s)
          ELSE task' = [task EXCEPT ![s].at = "get", ![s].host = IF task[s].present THEN h ELSE NoHost]
       /\ Quiet /\ UNCHANGED <<buttons, mixed, paints>>

\* remember: fields are read, changed and written back.
GetFields(s) ==
    /\ task[s].at = "get"
    /\ task' = [task EXCEPT ![s].at = "set", ![s].copy = fields]
    /\ Quiet /\ UNCHANGED <<buttons, mixed, paints>>

\* Mutant of SetFields: a navigation leaves the field of the page before.
SetFieldsKept(s) ==
    /\ task[s].at = "set"
    /\ fields' = IF task[s].kind = "updated" THEN fields
                 ELSE [task[s].copy EXCEPT ![task[s].tab] = task[s].host]
    /\ IF task[s].kind = "removed" THEN Done(s) ELSE Working(s, "paint")
    /\ Quiet /\ UNCHANGED <<mode, mixed, paints>>

SetFields(s) ==
    /\ task[s].at = "set"
    /\ fields' = [task[s].copy EXCEPT ![task[s].tab] = task[s].host]
    /\ IF task[s].kind = "removed" THEN Done(s) ELSE Working(s, "paint")
    /\ Quiet /\ UNCHANGED <<mode, mixed, paints>>

\* paintAll, one tab after another.
PaintAll == [NoTask EXCEPT !.kind = "repaint", !.at = "keys"]
Holding == {t \in Tabs : fields[t] # NoHost}
PaintNext(s, tabs) ==
    IF tabs = {} THEN Done(s)
    ELSE \E t \in tabs : task' = [task EXCEPT ![s].at = "paint", ![s].tab = t, ![s].todo = tabs \ {t}]
Keys(s) ==
    /\ task[s].at = "keys"
    /\ PaintNext(s, Holding)
    /\ Quiet /\ UNCHANGED <<buttons, mixed, paints>>

\* paint: the field of the tab, its account, and the button.
PaintField(s) ==
    LET h == fields[task[s].tab]
    IN /\ task[s].at = "paint"
       /\ task' = [task EXCEPT ![s] = [@ EXCEPT !.at = IF h = NoHost THEN "mode" ELSE "account",
                                               !.host = h, !.hit = FALSE]]
       /\ behind' = behind \ {s} /\ skipped' = skipped \ {task[s].tab}
       /\ Quiet /\ UNCHANGED <<buttons, mixed, overtaken>>

PaintAccount(s) ==
    /\ task[s].at = "account"
    /\ task' = [task EXCEPT ![s].at = "mode", ![s].hit = AccountFor(task[s].host) # NoSecret]
    /\ Quiet /\ UNCHANGED <<buttons, mixed, paints>>

\* What the button of a tab should do.
Fills(t) == fields[t] # NoHost /\ AccountFor(fields[t]) # NoSecret

\* The others that have read a field of the tab and not yet painted it.
Behind(s) == {r \in Handlers \ {s} : task[r].at \in {"account", "mode"} /\ task[r].tab = task[s].tab}

PaintMode(s) ==
    LET t == task[s].tab
    IN /\ task[s].at = "mode" /\ page[t].host # NoHost
       /\ mode' = [mode EXCEPT ![t] = IF task[s].hit THEN "fill" ELSE "menu"]
       /\ PaintNext(s, task[s].todo)
       /\ behind' = (behind \ {s}) \cup Behind(s)
       /\ overtaken' = IF s \in behind /\ task[s].hit # Fills(t) THEN overtaken \cup {t} ELSE overtaken \ {t}
       /\ Quiet /\ UNCHANGED <<fields, mixed, skipped>>

\* setPopup and the badge calls reject for a tab that is gone: the handler ends there,
\* and the tabs its paintAll had still to come to are not painted.
PaintFails(s) ==
    /\ task[s].at = "mode" /\ page[task[s].tab].host = NoHost
    /\ Done(s)
    /\ skipped' = skipped \cup task[s].todo /\ behind' = behind \ {s}
    /\ Quiet /\ UNCHANGED <<buttons, mixed, overtaken>>

----------------------------------------------------------------------------
\* A click on a button that fills.

Click(t) ==
    /\ play.clicks /\ t \in play.tabs /\ click.at = "idle"
    /\ mode[t] = "fill" /\ page[t].host # NoHost
    /\ click' = [at |-> "fields", tab |-> t, host |-> NoHost, late |-> Leaving(t)]
    /\ UNCHANGED <<pages, buttons, inbox, task, marks>>

ClickField ==
    /\ click.at = "fields"
    /\ click' = IF fields[click.tab] = NoHost THEN NoClick
                ELSE [click EXCEPT !.at = "account", !.host = fields[click.tab]]
    /\ UNCHANGED <<pages, buttons, inbox, task, marks>>

ClickAccount ==
    /\ click.at = "account"
    /\ click' = IF AccountFor(click.host) = NoSecret THEN NoClick ELSE [click EXCEPT !.at = "send"]
    /\ UNCHANGED <<pages, buttons, inbox, task, marks>>

\* Whatever page the tab shows by now gets the code.
Send ==
    /\ click.at = "send"
    /\ astray' = (astray \/ (~click.late /\ ~mixed /\ page[click.tab].host # click.host))
    /\ click' = NoClick
    /\ UNCHANGED <<pages, buttons, inbox, task, mixed, paints>>

\* A step that asked session, and found the vault expired, also removes it.
AsksSession == \/ click.at = "account" /\ click' # click
               \/ \E s \in Handlers : task[s].at = "account" /\ task'[s] # task[s]

ToolbarStep(s) ==
    \/ Start(s) \/ Held(s) \/ Query(s) \/ GetFields(s) \/ SetFields(s) \/ Keys(s)
    \/ PaintField(s) \/ PaintAccount(s) \/ PaintMode(s) \/ PaintFails(s)

ToolbarNext ==
    \/ \E t \in Tabs : Route(t) \/ CloseTab(t) \/ Mount(t) \/ Announce(t) \/ Describe(t) \/ Click(t)
    \/ \E t \in Tabs, h \in Hosts : Navigate(t, h)
    \/ \E s \in Handlers : ToolbarStep(s)
    \/ ClickField \/ ClickAccount \/ Send
----------------------------------------------------------------------------
\* Properties.

\* Every variable keeps its type.
ToolbarTypeOK ==
    /\ page \in [Tabs -> [host : Hosts \cup {NoHost}, field : BOOLEAN,
                         said : {"nothing", "present", "absent"}, routed : BOOLEAN]]
    /\ fields \in [Tabs -> Hosts \cup {NoHost}]
    /\ mode \in [Tabs -> {"menu", "fill"}]
    /\ \A i \in DOMAIN inbox : inbox[i].kind \in Kinds /\ inbox[i].tab \in Tabs \cup {0}
    /\ \A s \in Handlers : task[s].kind \in Kinds \cup {"none"} /\ task[s].todo \subseteq Tabs
    /\ click.at \in {"idle", "fields", "account", "send"}
    /\ events \in 0..play.events
    /\ mixed \in BOOLEAN /\ astray \in BOOLEAN
    /\ behind \subseteq Handlers /\ overtaken \subseteq Tabs /\ skipped \subseteq Tabs

AtRest == inbox = <<>> /\ \A s \in Handlers : task[s].at = "idle"

\* A code goes to a page of the host its account is for, unless the page is on its
\* way out when the button is clicked, or two handlers wrote fields over each other
\* (remember, onUpdated).
CodeGoesHome == ~astray

\* What a tab's entry should be: its page's host, if there is a field.
FieldOf(t) == IF page[t].field THEN page[t].host ELSE NoHost

\* Once the worker is done, it holds exactly the fields of open pages, each under
\* the host of its page, but for pages that changed their own address and handlers
\* that wrote over each other (announce, remember, onUpdated).
FieldsMatchPages ==
    AtRest /\ ~mixed => \A t \in play.tabs :
        Announced(t) => page[t].routed \/ fields[t] = FieldOf(t)

\* Once the worker is done, a button fills exactly when the tab's field has an account
\* in the open vault, whatever ran at once (paint, paintAll, lock, unlock, the change of
\* open).  It is wrong only if a paint that read the tab before another one painted it
\* did so after that one, or if a tab that was gone ended the paintAll that was to come
\* to it; and no handlers wrote fields over each other.
ButtonsMatchVault ==
    AtRest /\ ~mixed /\ ~Expired(open) => \A t \in play.tabs :
        page[t].host # NoHost =>
            \/ (mode[t] = "fill") = (fields[t] # NoHost /\ open.accounts[fields[t]] # NoSecret)
            \/ t \in overtaken \cup skipped
=============================================================================

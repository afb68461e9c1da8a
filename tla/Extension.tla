------------------------------ MODULE Extension ------------------------------
(***************************************************************************)
(* The browser extension: its vault, its toolbar button and its captured   *)
(* setup codes.  A write to the open vault is an event of the worker, which*)
(* paints every button again, and a call or a timer that wrote it does so  *)
(* beside that; reading an expired vault removes it; the browser's end     *)
(* takes session storage and the worker with it.                           *)
(***************************************************************************)
EXTENDS Toolbar, Captures

vars == <<vaultVars, toolbarVars, captureVars>>

Init ==
    /\ VaultInit /\ ToolbarInit /\ CapturesInit

\* Mutant of Repaint: nothing listens to the change of open.
RepaintNothing == UNCHANGED inbox

\* storage.session.onChanged.
Repaint ==
    inbox' = IF open' = open \/ play.tabs = {} THEN inbox
             ELSE Append(inbox, Event("repaint", 0, NoHost, FALSE))

\* lock, unlock and set-passphrase paint every button once they have written the vault,
\* or refused, and answer when that is over.
Paints(handlers) ==
    task' = [s \in Handlers |-> IF s \in handlers /\ play.tabs # {} THEN PaintAll ELSE task[s]]
Turned(f) == flow[f].at # flow'[f].at

VaultActs ==
    /\ \/ /\ VaultCalls
          /\ \A f \in Flows : Turned(f) /\ flow[f].at \in Painting => task[f].at = "idle"
          /\ Paints({f \in Flows : Turned(f) /\ flow'[f].at \in Painting})
       \/ /\ TimerFires
          /\ task[IdleTimer].at = "idle"
          /\ Paints({IdleTimer})
    /\ Repaint
    /\ UNCHANGED <<page, fields, mode, click, events, marks, captureVars>>

ToolbarActs ==
    /\ ToolbarNext
    /\ removing' = (removing \/ (AsksSession /\ Expired(open)))
    /\ UNCHANGED <<open, disk, worker, popup, flow, world, counts, endings, consent, twice, captureVars>>

CapturesAct == play.captures /\ CapturesNext /\ UNCHANGED <<vaultVars, toolbarVars>>

\* The browser ends, with its tabs; session storage is gone, what is on disk stays.
Restart ==
    /\ play.ends
    /\ BrowserEnds
    /\ page' = [t \in Tabs |-> Blank(NoHost)]
    /\ fields' = [t \in Tabs |-> NoHost]
    /\ mode' = [t \in Tabs |-> "menu"]
    /\ inbox' = <<>> /\ task' = [s \in Handlers |-> NoTask] /\ click' = NoClick
    /\ behind' = {} /\ overtaken' = {} /\ skipped' = {}
    /\ CapturesGone
    /\ UNCHANGED <<events, mixed, astray>>

Next == VaultActs \/ ToolbarActs \/ CapturesAct \/ Restart

Spec == Init /\ [][Next]_vars
----------------------------------------------------------------------------
\* Every variable keeps its type.
TypeOK == VaultTypeOK /\ ToolbarTypeOK /\ CapturesTypeOK
=============================================================================

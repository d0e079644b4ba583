----------------------------- MODULE MCFairParts -----------------------------
(***************************************************************************)
(* Components with liveness properties and a fairness of their own, that   *)
(* share no state, checked side by side: `part` says which of them a       *)
(* behaviour is about, and the variables of the others stay at 0.          *)
(* Components that have a variable of the same name share it, as only one  *)
(* of them runs.                                                           *)
(***************************************************************************)
EXTENDS Naturals, Sequences, TLC

CONSTANTS
  InUse, MaxComing, MaxNotes,   \* of ShellPopups
  Users, NoUser, MaxAttempts,   \* of Greeter
  MaxCalls, MaxCloses           \* of Notifications

VARIABLES
  part,   \* the component this behaviour is about
  used, ui, stage, splash, master, screen, card, name, keyUser, phase, batch, power, exit, worker,
  rx, driver, joining, comp, compUser, ipc, queue, late, next_id, channel, configured, calls, closes

\* The surfaces of the shell that are used together in one behaviour.
Groups == { { "launcher", "calendar", "shared" },
            { "launcher", "calendar", "workspace" },
            { "workspace", "shared" },
            { "shared", "wifi" },
            { "launcher", "menu" },
            { "notification", "thumbnail" },
            { "consent", "region", "menu" } }

ASSUME PartsAssumption == MaxAttempts \in Nat /\ MaxCalls \in Nat

ShellPopups   == INSTANCE ShellPopups
Greeter       == INSTANCE Greeter
Notifications == INSTANCE Notifications

vars == <<
  part, used, ui, stage, splash, master, screen, card, name, keyUser, phase, batch, power, exit,
  worker, rx, driver, joining, comp, compUser, ipc, queue, late, next_id, channel, configured,
  calls, closes >>
-----------------------------------------------------------------------------
RestShellPopups == <<
  stage, splash, master, screen, card, name, keyUser, phase, batch, power, exit, worker, rx, driver,
  joining, comp, compUser, ipc, queue, late, next_id, channel, configured, calls, closes >>
InitShellPopups ==
  /\ part = "popups" /\ ShellPopups!Init
  /\ stage = 0 /\ splash = 0 /\ master = 0 /\ screen = 0 /\ card = 0 /\ name = 0 /\ keyUser = 0
     /\ phase = 0 /\ batch = 0 /\ power = 0 /\ exit = 0 /\ worker = 0 /\ rx = 0 /\ driver = 0
     /\ joining = 0 /\ comp = 0 /\ compUser = 0 /\ ipc = 0 /\ queue = 0 /\ late = 0 /\ next_id = 0
     /\ channel = 0 /\ configured = 0 /\ calls = 0 /\ closes = 0
NextShellPopups == part = "popups" /\ ShellPopups!Next /\ UNCHANGED << part, RestShellPopups >>

RestGreeter == <<
  used, ui, next_id, channel, configured, calls, closes >>
InitGreeter ==
  /\ part = "greeter" /\ Greeter!Init
  /\ used = 0 /\ ui = 0 /\ next_id = 0 /\ channel = 0 /\ configured = 0 /\ calls = 0 /\ closes =
     0
NextGreeter == part = "greeter" /\ Greeter!Next /\ UNCHANGED << part, RestGreeter >>

RestNotifications == <<
  used, ui, stage, splash, master, screen, name, keyUser, phase, batch, power, exit, worker, rx,
  driver, joining, comp, compUser, ipc, late >>
InitNotifications ==
  /\ part = "notes" /\ Notifications!Init
  /\ used = 0 /\ ui = 0 /\ stage = 0 /\ splash = 0 /\ master = 0 /\ screen = 0 /\ name = 0
     /\ keyUser = 0 /\ phase = 0 /\ batch = 0 /\ power = 0 /\ exit = 0 /\ worker = 0 /\ rx = 0
     /\ driver = 0 /\ joining = 0 /\ comp = 0 /\ compUser = 0 /\ ipc = 0 /\ late = 0
NextNotifications == part = "notes" /\ Notifications!Next /\ UNCHANGED << part, RestNotifications >>

Init == \/ InitShellPopups
        \/ InitGreeter
        \/ InitNotifications

\* The components that may come to a stop, by themselves or at their bounds.
MayStop == { "popups", "greeter", "notes" }

Next == \/ NextShellPopups
        \/ NextGreeter
        \/ NextNotifications
        \/ part \in MayStop /\ UNCHANGED vars

Spec == Init /\ [][Next]_vars

\* The connection delivers configures and the shell reads them; PAM ends each attempt and both
\* loops of the greeter's main go on; the expiry timer and the main loop of the shell run,
\* and time passes.
Popups(A)  == part = "popups" /\ A /\ UNCHANGED << part, RestShellPopups >>
Greets(A)  == part = "greeter" /\ A /\ UNCHANGED << part, RestGreeter >>
Notifies(A) == part = "notes" /\ A /\ UNCHANGED << part, RestNotifications >>

Fairness ==
  /\ \A s \in ShellPopups!Surfaces : WF_vars(Popups(ShellPopups!Configure(s)))
  /\ WF_vars(Greets(Greeter!Workers)) /\ WF_vars(Greets(Greeter!Joined))
  /\ WF_vars(Greets(Greeter!PollAuth)) /\ WF_vars(Greets(Greeter!PressesDone))
  /\ WF_vars(Greets(Greeter!BindSocket)) /\ WF_vars(Greets(Greeter!Waiting))
  /\ WF_vars(Notifies(Notifications!Main)) /\ WF_vars(Notifies(Notifications!Timer))
  /\ \A i \in 1 .. MaxCalls : WF_vars(Notifies(i \in DOMAIN queue /\ Notifications!Elapse(i)))

FairSpec == Spec /\ Fairness
-----------------------------------------------------------------------------
(* Properties                                                              *)

\* The shell's popups: one at a time, no buffer before its configure on the shared layer, and
\* none on the screen that is closed.
PopupsAgree == part = "popups" => ShellPopups!OnePopup /\ ShellPopups!SharedWaits /\ ShellPopups!NoGhost

\* A popup that is open comes to be shown, is closed again, or the shell ends; see
\* ShellPopups.
OpenIsShown == \A s \in ShellPopups!Surfaces \ { "launcher", "notification" } :
  LET hangs == part = "popups" /\ ShellPopups!Wanted(s) /\ ~ ui.srf[s].mapped /\ ui.err = ShellPopups!NoError
  IN  hangs ~> ~ hangs

\* The greeter leaves nothing behind, and the session outlives the compositor.
GreeterAgrees == part = "greeter" => Greeter!CleanExit /\ Greeter!SessionOutlivesCompositor

\* Once main waits for the compositor, the login's picture is let go of.
LetsGo == (part = "greeter" /\ stage = "waiting") ~> (part = "greeter" => ~ card)

\* A submitted form is decided.
AuthDecided == (part = "greeter" /\ stage = "ui" /\ phase = "auth")
                 ~> (part = "greeter" => phase # "auth" \/ exit # "Continue")

\* The card is one of a notification that is queued.
CardIsQueued == part = "notes" => Notifications!CardIsQueued

\* A notification with a time-out leaves the queue.
TimedOnesGo == \A c \in 1 .. MaxCalls :
  LET waits == part = "notes" /\ \E i \in DOMAIN queue : queue[i].call = c
      timed == part = "notes" /\ \E i \in DOMAIN queue : queue[i].call = c /\ Notifications!MayExpire(queue[i])
  IN  timed ~> ~ waits
=============================================================================

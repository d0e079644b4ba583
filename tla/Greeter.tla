------------------------------ MODULE Greeter ------------------------------
(***************************************************************************)
(* From the boot splash to the desktop: meridian-login takes the display   *)
(* from the splash, asks who logs in, has a worker thread authenticate and *)
(* hold the PAM session, starts the compositor, hands the display over and *)
(* stays until the compositor has exited.  The display is a DRM master and *)
(* a picture; the fade-in, the drawing and the password are left out (PAM  *)
(* accepts or refuses).  waitpid on the one child does not fail.           *)
(***************************************************************************)
EXTENDS Naturals, Sequences

CONSTANTS Users,       \* accounts that can be typed or be on a security key
          NoUser,      \* an empty name, no security key
          MaxAttempts  \* bound on authentication attempts

VARIABLES
  stage,    \* how far main is
  splash,   \* the boot splash: "on", "yielded" the display, "off"
  master,   \* who is DRM master
  screen,   \* whose picture is scanned out
  card,     \* card_opt is Some: the login's picture is kept alive
  name,     \* LoginUiState.username
  keyUser,  \* smartcard_user of the security key that is plugged in
  phase,    \* InputPhase
  batch,    \* the presses that one poll_pointers returned are being handled
  power,    \* pending_power
  exit,     \* the ControlFlow that ends run_animation
  worker,   \* the authentication threads
  rx,       \* auth_rx: the attempt whose result is awaited, or 0
  driver,   \* auth_driver: the attempt whose session is held, or 0
  joining,  \* the attempt whose thread main waits for, or 0
  comp,     \* the compositor process
  compUser, \* the user it was started for
  ipc,      \* the login's socket: "none", "up", "down" (no sender left), "silent"
  queue,    \* ipc_rx
  late      \* the hand-over deadline has passed

ui   == << name, keyUser, phase, batch, power, exit >>
auth == << worker, rx, driver, joining >>
show == << splash, master, screen, card >>
peer == << comp, compUser, ipc, queue, late >>
vars == << stage, show, ui, auth, peer >>

Attempts == 1..MaxAttempts

Idle == [user |-> NoUser, at |-> "none", sent |-> "none"]

Alive == { "starting", "asked", "master", "first", "running" }

Init == /\ stage = "boot"
        /\ splash \in { "on", "off" }
        /\ master = (IF splash = "on" THEN "splash" ELSE "none")
        /\ screen = (IF splash = "on" THEN "splash" ELSE "black")
        /\ card = FALSE
        /\ name = NoUser /\ keyUser = NoUser
        /\ phase = "editing" /\ batch = FALSE /\ power = "none" /\ exit = "Continue"
        /\ worker = [i \in Attempts |-> Idle]
        /\ rx = 0 /\ driver = 0 /\ joining = 0
        /\ comp = "none" /\ compUser = NoUser
        /\ ipc = "none" /\ queue = << >> /\ late = FALSE
-----------------------------------------------------------------------------
(* Taking the display from the splash.                                     *)

\* bootsplash_handover: the splash answers once it has given up the display.
SplashHandover ==
  /\ stage = "boot" /\ splash = "on"
  /\ splash' = "yielded" /\ master' = "none"
  /\ UNCHANGED << stage, screen, card, ui, auth, peer >>

\* set_crtc with the settle frame; without the display main ends with its error.
Modeset ==
  /\ stage = "boot"
  /\ \/ /\ master = "none"
        /\ master' = "login" /\ screen' = "login" /\ card' = TRUE /\ stage' = "lit"
     \/ /\ stage' = "gone"
        /\ UNCHANGED << master, screen, card >>
  /\ UNCHANGED << splash, ui, auth, peer >>

\* bootsplash_exit
SplashExit ==
  /\ stage = "lit"
  /\ stage' = "ui" /\ splash' = "off"
  /\ UNCHANGED << master, screen, card, ui, auth, peer >>
-----------------------------------------------------------------------------
(* The login form: one frame of run_animation after the other.             *)

\* main is in the form, between two handlers, and not waiting for a thread.
InForm == stage = "ui" /\ joining = 0

\* The handlers before the pointer's in a frame.
InKeys == InForm /\ ~ batch /\ exit = "Continue"

\* LoginUiState::reject: dropping the driver joins its thread.
Reject == /\ phase' = "failed"
          /\ driver' = 0 /\ joining' = driver
          /\ UNCHANGED << name, worker, rx >>

\* auth_username
AuthUser == IF keyUser # NoUser THEN keyUser ELSE name

\* Mutant: the driver that is replaced is leaked instead of dropped.
StartAuthLeaks ==
  IF AuthUser = NoUser THEN Reject
  ELSE \E i \in Attempts :
         /\ worker[i] = Idle /\ \A j \in Attempts : j < i => worker[j] # Idle
         /\ worker' = [worker EXCEPT ![i] = [user |-> AuthUser, at |-> "working", sent |-> "none"]]
         /\ rx' = i /\ driver' = i /\ joining' = 0
         /\ phase' = "auth" /\ name' = AuthUser

\* LoginUiState::start_auth: a new thread for the user the form names; a driver that is
\* replaced is dropped, which joins its thread.
StartAuth ==
  IF AuthUser = NoUser THEN Reject
  ELSE \E i \in Attempts :
         /\ worker[i] = Idle /\ \A j \in Attempts : j < i => worker[j] # Idle
         /\ worker' = [worker EXCEPT ![i] = [user |-> AuthUser, at |-> "working", sent |-> "none"]]
         /\ rx' = i /\ driver' = i /\ joining' = driver
         /\ phase' = "auth" /\ name' = AuthUser

\* LoginUiState::apply
Type(u) ==
  /\ InKeys /\ phase = "editing" /\ keyUser = NoUser
  /\ name' = u /\ power' = "none"
  /\ UNCHANGED << stage, show, keyUser, phase, batch, exit, auth, peer >>

PressEnter ==
  /\ InKeys /\ phase = "editing"
  /\ StartAuth /\ power' = "none"
  /\ UNCHANGED << stage, show, keyUser, batch, exit, peer >>

PressEscape ==
  /\ InKeys /\ phase = "editing"
  /\ exit' = "Cancel" /\ power' = "none"
  /\ UNCHANGED << stage, show, name, keyUser, phase, batch, auth, peer >>

\* update_security_key_state: once a second, whatever the phase; the key's user becomes
\* the name in the form.
ProbeKey(u) ==
  /\ InKeys
  /\ keyUser' = u
  /\ name' = IF u # NoUser THEN u ELSE name
  /\ UNCHANGED << stage, show, phase, batch, power, exit, auth, peer >>

\* tick, clear_expired_power_confirmation
Tick ==
  /\ InKeys
  /\ \/ phase = "failed" /\ phase' = "editing" /\ UNCHANGED power
     \/ power # "none" /\ power' = "none" /\ UNCHANGED phase
  /\ UNCHANGED << stage, show, name, keyUser, batch, exit, auth, peer >>

\* poll_auth and what the loop makes of the result.
PollAuth ==
  /\ InKeys
  /\ rx # 0 /\ worker[rx].sent # "none"
  /\ rx' = 0
  /\ \/ /\ worker[rx].sent = "ok"
        /\ exit' = "Submit"
        /\ UNCHANGED << phase, driver, joining >>
     \/ /\ worker[rx].sent = "bad"
        /\ phase' = "failed" /\ driver' = 0 /\ joining' = driver
        /\ UNCHANGED exit
  /\ UNCHANGED << stage, show, name, keyUser, batch, power, worker, peer >>

\* poll_pointers: whether presses count is asked once for all that one call returns.
Presses ==
  /\ InForm /\ ~ batch /\ phase = "editing" /\ exit \in { "Continue", "Cancel" }
  /\ batch' = TRUE
  /\ UNCHANGED << stage, show, name, keyUser, phase, power, exit, auth, peer >>

ClickSubmit ==
  /\ InForm /\ batch
  /\ StartAuth /\ power' = "none"
  /\ UNCHANGED << stage, show, keyUser, batch, exit, peer >>

\* confirm_power_action: the second click of the same button within the time limit.
ClickPower(action) ==
  /\ InForm /\ batch
  /\ \/ /\ power = action
        /\ power' = "none" /\ exit' = action /\ batch' = FALSE
     \/ /\ power' = action       \* also after the limit: is_active is false
        /\ UNCHANGED << exit, batch >>
  /\ UNCHANGED << stage, show, name, keyUser, phase, auth, peer >>

\* A press on a field or beside everything, and the end of the batch.
PressesDone ==
  /\ InForm /\ batch
  /\ batch' = FALSE /\ power' \in { power, "none" }
  /\ UNCHANGED << stage, show, name, keyUser, phase, exit, auth, peer >>
-----------------------------------------------------------------------------
(* The authentication threads.                                             *)

\* Mutant: an attempt ends without a word and nobody notices.
AuthEndsSilently(i) ==
  /\ worker[i].at = "working"
  /\ worker' = [worker EXCEPT ![i].at = "ended"]
  /\ UNCHANGED << stage, show, ui, rx, driver, joining, peer >>

\* run_pam_session: any refusal or error is reported and ends the session; so is, to the
\* receiver, a thread that vanished.
AuthRefused(i) ==
  /\ worker[i].at = "working"
  /\ worker' = [worker EXCEPT ![i].at = "ended", ![i].sent = "bad"]
  /\ UNCHANGED << stage, show, ui, rx, driver, joining, peer >>

AuthAccepted(i) ==
  /\ worker[i].at = "working"
  /\ worker' = [worker EXCEPT ![i].at = "open", ![i].sent = "ok"]
  /\ UNCHANGED << stage, show, ui, rx, driver, joining, peer >>

\* The thread closes its session when its driver is closed or dropped, which is when
\* main waits for it.
SessionClosed(i) ==
  /\ worker[i].at = "open" /\ joining = i
  /\ worker' = [worker EXCEPT ![i].at = "ended"]
  /\ UNCHANGED << stage, show, ui, rx, driver, joining, peer >>

\* The join in AuthDriver's close and drop.
Joined ==
  /\ joining # 0 /\ worker[joining].at = "ended"
  /\ joining' = 0
  /\ UNCHANGED << stage, show, ui, worker, rx, driver, peer >>
-----------------------------------------------------------------------------
(* Starting the compositor and handing the display over.                   *)

\* Closing the card takes the login's picture off the screen and gives up the display.
CloseCard == /\ card' = FALSE
             /\ master' = IF master = "login" THEN "none" ELSE master
             /\ screen' = IF screen = "login" THEN "black" ELSE screen

\* After the form: the input devices are released, then the compositor is started.
Launch ==
  /\ InForm /\ ~ batch /\ exit = "Submit"
  /\ \/ /\ comp' = "starting" /\ compUser' = name /\ stage' = "bind"
        /\ UNCHANGED << card, master, screen >>
     \/ /\ stage' = "closing" /\ CloseCard
        /\ UNCHANGED << comp, compUser >>
  /\ UNCHANGED << splash, ui, auth, ipc, queue, late >>

Leave ==
  /\ InForm /\ ~ batch /\ exit \in { "Cancel", "PowerOff", "Reboot" }
  /\ stage' = "closing" /\ CloseCard
  /\ UNCHANGED << splash, ui, auth, peer >>

\* spawn_login_ipc_server: may fail, which drops the only sender; without a known user
\* there is no server but the sender lives.
BindSocket ==
  /\ stage = "bind"
  /\ stage' = "waiting"
  /\ ipc' \in { "up", "down", "silent" }
  /\ UNCHANGED << show, ui, auth, comp, compUser, queue, late >>

\* The thread that accepts ends with its first error.
AcceptFails ==
  /\ ipc = "up" /\ ipc' = "down"
  /\ UNCHANGED << stage, show, ui, auth, comp, compUser, queue, late >>

\* IpcEvent::Handover: the display is given up, the picture stays.
HandoverReceived ==
  /\ stage = "waiting" /\ queue # << >> /\ Head(queue) = "handover"
  /\ queue' = Tail(queue)
  /\ master' = IF master = "login" THEN "none" ELSE master
  /\ UNCHANGED << stage, splash, screen, card, ui, auth, comp, compUser, ipc, late >>

\* IpcEvent::Exit
FirstFrameReceived ==
  /\ stage = "waiting" /\ queue # << >> /\ Head(queue) = "exit"
  /\ queue' = Tail(queue)
  /\ CloseCard
  /\ UNCHANGED << stage, splash, ui, auth, comp, compUser, ipc, late >>

\* Mutant: the deadline counts only for a compositor that has asked.
DeadlineIfAsked ==
  /\ stage = "waiting" /\ queue = << >> /\ ipc # "down" /\ card /\ master # "login"
  /\ late' = TRUE
  /\ CloseCard
  /\ UNCHANGED << stage, splash, ui, auth, comp, compUser, ipc, queue >>

\* RecvTimeoutError::Timeout after HANDOVER_DEADLINE
HandoverDeadline ==
  /\ stage = "waiting" /\ queue = << >> /\ ipc # "down" /\ card
  /\ late' = TRUE
  /\ CloseCard
  /\ UNCHANGED << stage, splash, ui, auth, comp, compUser, ipc, queue >>

\* RecvTimeoutError::Disconnected
NoSenderLeft ==
  /\ stage = "waiting" /\ queue = << >> /\ ipc = "down" /\ card
  /\ CloseCard
  /\ UNCHANGED << stage, splash, ui, auth, peer >>

\* try_wait returns a status.
CompositorExited ==
  /\ stage = "waiting" /\ comp = "dead"
  /\ CloseCard /\ stage' = "closing"
  /\ UNCHANGED << splash, ui, auth, peer >>

\* The end of main: the driver is closed or dropped, then the process ends.
Finish ==
  /\ stage = "closing" /\ joining = 0
  /\ \/ driver # 0 /\ joining' = driver /\ driver' = 0 /\ UNCHANGED stage
     \/ driver = 0 /\ stage' = "gone" /\ UNCHANGED << joining, driver >>
  /\ UNCHANGED << show, ui, worker, rx, peer >>
-----------------------------------------------------------------------------
(* The compositor, as far as the display is concerned.                     *)

\* login_ipc::send_handover: best effort; the answer comes from the thread that queues
\* the event, not from main.
AskHandover ==
  /\ comp = "starting" /\ comp' = "asked"
  /\ queue' = IF ipc = "up" THEN Append(queue, "handover") ELSE queue
  /\ UNCHANGED << stage, show, ui, auth, compUser, ipc, late >>

\* init_drm: the display is free, or somebody holds it and start-up fails.
TakeDisplay ==
  /\ comp = "asked"
  /\ \/ master = "none" /\ master' = "comp" /\ comp' = "master"
     \/ master = "login" /\ comp' = "dead" /\ UNCHANGED master
  /\ UNCHANGED << stage, splash, screen, card, ui, auth, compUser, ipc, queue, late >>

\* The first queue_frame.
FirstFrame ==
  /\ comp = "master" /\ comp' = "first" /\ screen' = "comp"
  /\ UNCHANGED << stage, splash, master, card, ui, auth, compUser, ipc, queue, late >>

\* login_ipc::send_first_frame
SendFirstFrame ==
  /\ comp = "first" /\ comp' = "running"
  /\ queue' = IF ipc = "up" THEN Append(queue, "exit") ELSE queue
  /\ UNCHANGED << stage, show, ui, auth, compUser, ipc, late >>

\* It may exit or crash at any time.
CompositorDies ==
  /\ comp \in Alive /\ comp' = "dead"
  /\ master' = IF master = "comp" THEN "none" ELSE master
  /\ screen' = IF screen = "comp" THEN "black" ELSE screen
  /\ UNCHANGED << stage, splash, card, ui, auth, compUser, ipc, queue, late >>
-----------------------------------------------------------------------------
Workers == \E i \in Attempts : AuthRefused(i) \/ AuthAccepted(i) \/ SessionClosed(i)

Waiting == HandoverReceived \/ FirstFrameReceived \/ HandoverDeadline \/ NoSenderLeft

Next ==
  \/ SplashHandover \/ Modeset \/ SplashExit
  \/ \E u \in Users \cup {NoUser} : Type(u) \/ ProbeKey(u)
  \/ PressEnter \/ PressEscape \/ Tick \/ PollAuth
  \/ Presses \/ ClickSubmit \/ PressesDone
  \/ \E action \in { "PowerOff", "Reboot" } : ClickPower(action)
  \/ Workers \/ Joined
  \/ Launch \/ Leave \/ BindSocket \/ AcceptFails
  \/ Waiting \/ CompositorExited \/ Finish
  \/ AskHandover \/ TakeDisplay \/ FirstFrame \/ SendFirstFrame \/ CompositorDies

Spec == Init /\ [][Next]_vars

\* PAM ends each attempt, both loops of main go on; nothing is asked of the user or of
\* the compositor.
Fairness == /\ WF_vars(Workers) /\ WF_vars(Joined) /\ WF_vars(PollAuth)
            /\ WF_vars(PressesDone) /\ WF_vars(BindSocket) /\ WF_vars(Waiting)

FairSpec == Spec /\ Fairness
-----------------------------------------------------------------------------
TypeOK ==
  /\ stage \in { "boot", "lit", "ui", "bind", "waiting", "closing", "gone" }
  /\ splash \in { "on", "yielded", "off" }
  /\ master \in { "splash", "login", "comp", "none" }
  /\ screen \in { "splash", "login", "comp", "black" }
  /\ card \in BOOLEAN /\ batch \in BOOLEAN /\ late \in BOOLEAN
  /\ name \in Users \cup {NoUser} /\ keyUser \in Users \cup {NoUser}
  /\ compUser \in Users \cup {NoUser}
  /\ phase \in { "editing", "auth", "failed" }
  /\ power \in { "none", "PowerOff", "Reboot" }
  /\ exit \in { "Continue", "Submit", "Cancel", "PowerOff", "Reboot" }
  /\ \A i \in Attempts : worker[i] # Idle => worker[i] \in
       [user : Users, at : { "working", "open", "ended" }, sent : { "none", "ok", "bad" }]
  /\ { rx, driver, joining } \subseteq 0..MaxAttempts
  /\ comp \in Alive \cup { "none", "dead" }
  /\ ipc \in { "none", "up", "down", "silent" }
  /\ queue \in { << >>, << "handover" >>, << "exit" >>, << "handover", "exit" >> }

\* The greeter leaves nothing behind, whichever way it ends: no PAM session of any
\* attempt, also one a second click replaced, and no hold on the display.
CleanExit == stage = "gone" => /\ \A i \in Attempts : worker[i].at \in { "none", "ended" }
                               /\ ~ card /\ master # "login"

\* As long as a compositor runs, the PAM session it was started under is open: that is
\* what backs its access to the devices (auth.rs, "Handle held by main").
SessionOutlivesCompositor ==
  comp \in Alive => \E i \in Attempts : worker[i].at = "open"

\* No black flash: with a compositor on its way, the login's picture leaves the screen
\* for nothing only when the hand-over was given up (deadline or a dead socket).
NoFlash ==
  [][screen = "login" /\ screen' = "black" /\ comp \in Alive => late' \/ ipc = "down"]_vars

\* The user is not left with the frozen login picture: once main waits for the
\* compositor, the card is closed, also if the compositor never says a word.
LetsGo == stage = "waiting" ~> ~ card

\* A submitted form is decided: the spinner does not stay for ever.
AuthDecided == (stage = "ui" /\ phase = "auth") ~> (phase # "auth" \/ exit # "Continue")

\* The comment in main, "spawn the compositor as the authenticated user": the user of the
\* compositor is one whose session is open.
LaunchedAsAuthenticated ==
  comp \in Alive => \E i \in Attempts : worker[i].at = "open" /\ worker[i].user = compUser
=============================================================================

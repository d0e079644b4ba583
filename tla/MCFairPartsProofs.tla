------------------------- MODULE MCFairPartsProofs -------------------------
(***************************************************************************)
(* Theorems about the components of MCFairParts for any accounts, number   *)
(* of attempts, calls and surfaces in use.  Only one component runs in a   *)
(* behaviour, so each has an inductive invariant of its own, stated for    *)
(* the behaviours it runs in.                                              *)
(***************************************************************************)
EXTENDS MCFairParts, SequenceTheorems, LoopInduction, TLAPS

-----------------------------------------------------------------------------
(* The greeter.  A session that is open, or may become so, is held by main *)
(* (its driver) or waited for; once the form is submitted its driver's     *)
(* session is open, and stays so until the compositor is dead.             *)

Accounts == Users \cup {NoUser}
Work     == [user : Accounts, at : { "none", "working", "open", "ended" },
             sent : { "none", "ok", "bad" }]

GreeterTyped ==
  /\ stage \in { "boot", "lit", "ui", "bind", "waiting", "closing", "gone" }
  /\ name \in Accounts /\ keyUser \in Accounts
  /\ worker \in [1..MaxAttempts -> Work]
  /\ rx \in 0..MaxAttempts /\ driver \in 0..MaxAttempts /\ joining \in 0..MaxAttempts

\* Whose sessions may be open, and what the driver's thread has said of it.
Held ==
  /\ \A i \in 1..MaxAttempts : worker[i].at \in { "working", "open" } => i \in { driver, joining }
  /\ driver # 0 => /\ driver # joining /\ worker[driver].at # "none"
                   /\ worker[driver].sent = "ok" => worker[driver].at = "open"
  /\ stage \in { "boot", "gone" } => driver = 0 /\ joining = 0

\* A result that is awaited is the driver's.
Awaited ==
  stage \in { "boot", "lit", "ui" } /\ rx # 0 => rx = driver /\ phase = "auth" /\ name # NoUser

SessionOpen == driver # 0 /\ joining = 0 /\ worker[driver].at = "open"

Backed ==
  /\ stage \in { "boot", "lit", "ui" } => comp = "none"
  /\ stage \in { "boot", "lit" } => exit = "Continue"
  /\ stage = "ui" /\ exit = "Submit" => ~ batch /\ SessionOpen
  /\ stage \in { "bind", "waiting" } => SessionOpen
  /\ stage \in { "closing", "gone" } => comp \notin Greeter!Alive

Display == stage \in { "boot", "closing", "gone" } => card = FALSE /\ master # "login"

GreeterInv == GreeterTyped /\ Held /\ Awaited /\ Backed /\ Display

LEMMA GreeterStarts == ASSUME Greeter!Init PROVE GreeterInv
<1> USE DEF Greeter!Init, Greeter!Idle, Greeter!Attempts
<1>1. GreeterTyped  BY PartsAssumption DEF GreeterTyped, Work, Accounts
<1>2. Held  BY DEF Held
<1>3. Awaited  BY DEF Awaited
<1>4. Backed  BY DEF Backed, Greeter!Alive
<1>5. Display  BY DEF Display
<1> QED  BY <1>1, <1>2, <1>3, <1>4, <1>5 DEF GreeterInv

LEMMA GreeterHolds == ASSUME GreeterInv PROVE Greeter!CleanExit /\ Greeter!SessionOutlivesCompositor
<1> USE PartsAssumption DEF GreeterInv, GreeterTyped
<1>1. Greeter!CleanExit
  <2> SUFFICES ASSUME stage = "gone"
               PROVE  /\ \A i \in 1..MaxAttempts : worker[i].at \in { "none", "ended" }
                      /\ ~ card /\ master # "login"
    BY DEF Greeter!CleanExit, Greeter!Attempts
  <2>1. ~ card /\ master # "login"  BY DEF Display
  <2>2. ASSUME NEW i \in 1..MaxAttempts PROVE worker[i].at \in { "none", "ended" }
    <3>1. worker[i].at \in { "none", "working", "open", "ended" }  BY DEF Work
    <3>2. i # driver /\ i # joining  BY DEF Held
    <3> QED  BY <3>1, <3>2 DEF Held
  <2> QED  BY <2>1, <2>2
<1>2. Greeter!SessionOutlivesCompositor
  <2> SUFFICES ASSUME comp \in Greeter!Alive PROVE \E i \in 1..MaxAttempts : worker[i].at = "open"
    BY DEF Greeter!SessionOutlivesCompositor, Greeter!Attempts
  <2>1. SessionOpen  BY DEF Backed, Greeter!Alive
  <2> QED  BY <2>1 DEF SessionOpen
<1> QED  BY <1>1, <1>2
(* The handlers that start no attempt and end none. *)
LEMMA GreeterQuiet ==
    ASSUME GreeterInv,
           \/ Greeter!SplashHandover \/ Greeter!Modeset \/ Greeter!SplashExit
           \/ \E u \in Accounts : Greeter!Type(u) \/ Greeter!ProbeKey(u)
           \/ Greeter!PressEscape \/ Greeter!Tick \/ Greeter!Presses \/ Greeter!PressesDone
           \/ \E action \in { "PowerOff", "Reboot" } : Greeter!ClickPower(action)
           \/ Greeter!Launch \/ Greeter!Leave \/ Greeter!BindSocket \/ Greeter!AcceptFails
           \/ Greeter!Waiting \/ Greeter!CompositorExited
           \/ Greeter!AskHandover \/ Greeter!TakeDisplay \/ Greeter!FirstFrame
           \/ Greeter!SendFirstFrame \/ Greeter!CompositorDies
    PROVE  GreeterInv'
<1> USE DEF GreeterInv, GreeterTyped, Held, Awaited, Backed, Display, SessionOpen
<1> USE DEF Greeter!InForm, Greeter!InKeys, Greeter!Alive, Greeter!CloseCard, Greeter!show,
            Greeter!ui, Greeter!auth, Greeter!peer
<1>1. CASE Greeter!SplashHandover  BY <1>1 DEF Greeter!SplashHandover
<1>2. CASE Greeter!Modeset  BY <1>2 DEF Greeter!Modeset
<1>3. CASE Greeter!SplashExit  BY <1>3 DEF Greeter!SplashExit
<1>4. CASE Greeter!PressEscape  BY <1>4 DEF Greeter!PressEscape
<1>5. CASE Greeter!Tick  BY <1>5 DEF Greeter!Tick
<1>6. CASE Greeter!Presses  BY <1>6 DEF Greeter!Presses
<1>7. CASE Greeter!PressesDone  BY <1>7 DEF Greeter!PressesDone
<1>8. CASE Greeter!Launch  BY <1>8 DEF Greeter!Launch
<1>9. CASE Greeter!Leave  BY <1>9 DEF Greeter!Leave
<1>10. CASE Greeter!BindSocket  BY <1>10 DEF Greeter!BindSocket
<1>11. CASE Greeter!AcceptFails  BY <1>11 DEF Greeter!AcceptFails
<1>12. CASE Greeter!HandoverReceived  BY <1>12 DEF Greeter!HandoverReceived
<1>13. CASE Greeter!FirstFrameReceived  BY <1>13 DEF Greeter!FirstFrameReceived
<1>14. CASE Greeter!HandoverDeadline  BY <1>14 DEF Greeter!HandoverDeadline
<1>15. CASE Greeter!NoSenderLeft  BY <1>15 DEF Greeter!NoSenderLeft
<1>16. CASE Greeter!CompositorExited  BY <1>16 DEF Greeter!CompositorExited
<1>17. CASE Greeter!AskHandover  BY <1>17 DEF Greeter!AskHandover
<1>18. CASE Greeter!TakeDisplay  BY <1>18 DEF Greeter!TakeDisplay
<1>19. CASE Greeter!FirstFrame  BY <1>19 DEF Greeter!FirstFrame
<1>20. CASE Greeter!SendFirstFrame  BY <1>20 DEF Greeter!SendFirstFrame
<1>21. CASE Greeter!CompositorDies  BY <1>21 DEF Greeter!CompositorDies
<1>30. ASSUME NEW u \in Accounts, Greeter!Type(u) PROVE GreeterInv'  BY <1>30 DEF Greeter!Type
<1>31. ASSUME NEW u \in Accounts, Greeter!ProbeKey(u) PROVE GreeterInv'
  BY <1>31 DEF Greeter!ProbeKey
<1>32. ASSUME NEW action \in { "PowerOff", "Reboot" }, Greeter!ClickPower(action) PROVE GreeterInv'
  BY <1>32 DEF Greeter!ClickPower
<1> QED  BY <1>1, <1>2, <1>3, <1>4, <1>5, <1>6, <1>7, <1>8, <1>9, <1>10, <1>11, <1>12, <1>13, <1>14, <1>15, <1>16, <1>17, <1>18, <1>19, <1>20, <1>21, <1>30, <1>31, <1>32 DEF Greeter!Waiting
(* An attempt that starts takes the driver's place, and main waits for the *)
(* one before.                                                             *)
LEMMA AttemptStarts ==
    ASSUME GreeterInv, Greeter!InForm, exit # "Submit", Greeter!StartAuth,
           UNCHANGED << stage, master, card, keyUser, batch, exit, comp >>
    PROVE  GreeterInv'
<1> USE DEF GreeterInv, Greeter!InForm, Greeter!AuthUser
<1>1. CASE Greeter!AuthUser = NoUser
  <2>1. /\ phase' = "failed" /\ driver' = 0 /\ joining' = driver
        /\ UNCHANGED << name, worker, rx >>
    BY <1>1 DEF Greeter!StartAuth, Greeter!Reject
  <2>2. rx = 0  BY <1>1 DEF Awaited
  <2>3. GreeterTyped'  BY <2>1 DEF GreeterTyped
  <2>4. Held'  BY <2>1 DEF Held, GreeterTyped
  <2>5. Awaited' /\ Backed' /\ Display'  BY <2>1, <2>2 DEF Awaited, Backed, Display
  <2> QED  BY <2>3, <2>4, <2>5
<1>2. CASE Greeter!AuthUser # NoUser
  <2>1. PICK i \in 1..MaxAttempts :
           /\ worker[i] = Greeter!Idle
           /\ worker' = [worker EXCEPT ![i] = [user |-> Greeter!AuthUser, at |-> "working",
                                               sent |-> "none"]]
           /\ rx' = i /\ driver' = i /\ joining' = driver
           /\ phase' = "auth" /\ name' = Greeter!AuthUser
    BY <1>2 DEF Greeter!StartAuth, Greeter!Attempts
  <2>2. driver # i  BY <2>1 DEF Held, Greeter!Idle
  <2>3. Greeter!AuthUser \in Accounts  BY DEF GreeterTyped
  <2>4. GreeterTyped'  BY <2>1, <2>3, PartsAssumption DEF GreeterTyped, Work
  <2>5. Held'
    <3>1. \A j \in 1..MaxAttempts : j # i => worker'[j] = worker[j]
      BY <2>1 DEF GreeterTyped
    <3>2. worker'[i].at = "working" /\ worker'[i].sent = "none"  BY <2>1 DEF GreeterTyped
    <3> QED  BY <2>1, <2>2, <3>1, <3>2, PartsAssumption DEF Held, GreeterTyped
  <2>6. Awaited' /\ Backed' /\ Display'
    BY <1>2, <2>1 DEF Awaited, Backed, Display
  <2> QED  BY <2>4, <2>5, <2>6
<1> QED  BY <1>1, <1>2

(* What an attempt's thread says and does. *)
LEMMA AttemptGoesOn ==
    ASSUME GreeterInv, NEW i \in 1..MaxAttempts,
           \/ Greeter!AuthRefused(i) \/ Greeter!AuthAccepted(i) \/ Greeter!SessionClosed(i)
    PROVE  GreeterInv'
<1> USE DEF GreeterInv
<1>1. PICK new \in Work :
         /\ worker' = [worker EXCEPT ![i] = new]
         /\ \/ worker[i].at = "working" /\ new.at = "ended" /\ new.sent = "bad"
            \/ worker[i].at = "working" /\ new.at = "open" /\ new.sent = "ok"
            \/ worker[i].at = "open" /\ joining = i /\ new.at = "ended"
  <2> USE DEF GreeterTyped, Work
  <2>1. CASE Greeter!AuthRefused(i)
    <3> DEFINE new == [worker[i] EXCEPT !.at = "ended", !.sent = "bad"]
    <3>1. new \in Work /\ new.at = "ended" /\ new.sent = "bad"  OBVIOUS
    <3>2. worker' = [worker EXCEPT ![i] = new] /\ worker[i].at = "working"
      BY <2>1 DEF Greeter!AuthRefused
    <3> QED  BY <3>1, <3>2
  <2>2. CASE Greeter!AuthAccepted(i)
    <3> DEFINE new == [worker[i] EXCEPT !.at = "open", !.sent = "ok"]
    <3>1. new \in Work /\ new.at = "open" /\ new.sent = "ok"  OBVIOUS
    <3>2. worker' = [worker EXCEPT ![i] = new] /\ worker[i].at = "working"
      BY <2>2 DEF Greeter!AuthAccepted
    <3> QED  BY <3>1, <3>2
  <2>3. CASE Greeter!SessionClosed(i)
    <3> DEFINE new == [worker[i] EXCEPT !.at = "ended"]
    <3>1. new \in Work /\ new.at = "ended"  OBVIOUS
    <3>2. worker' = [worker EXCEPT ![i] = new] /\ worker[i].at = "open" /\ joining = i
      BY <2>3 DEF Greeter!SessionClosed
    <3> QED  BY <3>1, <3>2
  <2> QED  BY <2>1, <2>2, <2>3
<1>2. UNCHANGED << stage, master, card, name, keyUser, phase, batch, exit, rx, driver, joining, comp >>
  BY DEF Greeter!AuthRefused, Greeter!AuthAccepted, Greeter!SessionClosed, Greeter!show,
         Greeter!ui, Greeter!peer
<1>3. \A j \in 1..MaxAttempts : worker'[j] = IF j = i THEN new ELSE worker[j]
  BY <1>1 DEF GreeterTyped
<1>4. GreeterTyped'  BY <1>1, <1>2 DEF GreeterTyped
<1>5. Held'
  <2>1. driver # 0 => driver \in 1..MaxAttempts  BY PartsAssumption DEF GreeterTyped
  <2> QED  BY <1>1, <1>2, <1>3, <2>1 DEF Held
<1>6. Awaited' /\ Display'  BY <1>2 DEF Awaited, Display
<1>7. SessionOpen => SessionOpen'
  <2>1. driver # 0 => driver \in 1..MaxAttempts  BY PartsAssumption DEF GreeterTyped
  <2> QED  BY <1>1, <1>2, <1>3, <2>1 DEF SessionOpen
<1>8. Backed'  BY <1>2, <1>7 DEF Backed
<1> QED  BY <1>4, <1>5, <1>6, <1>8

LEMMA GreeterPolls == ASSUME GreeterInv, Greeter!PollAuth PROVE GreeterInv'
<1> USE DEF GreeterInv, Greeter!PollAuth, Greeter!InKeys, Greeter!InForm
<1>1. /\ stage = "ui" /\ joining = 0 /\ ~ batch /\ exit = "Continue" /\ rx # 0 /\ rx' = 0
      /\ UNCHANGED << stage, master, card, name, keyUser, batch, worker, comp >>
  BY DEF Greeter!show, Greeter!peer
<1>2. rx = driver  BY <1>1 DEF Awaited
<1>3. CASE worker[rx].sent = "ok" /\ exit' = "Submit" /\ UNCHANGED << phase, driver, joining >>
  <2>1. SessionOpen'  BY <1>1, <1>2, <1>3 DEF Held, SessionOpen
  <2>2. GreeterTyped' /\ Held'  BY <1>1, <1>3, PartsAssumption DEF GreeterTyped, Held
  <2>3. Awaited' /\ Backed' /\ Display'  BY <1>1, <1>3, <2>1 DEF Awaited, Backed, Display
  <2> QED  BY <2>2, <2>3
<1>4. CASE phase' = "failed" /\ driver' = 0 /\ joining' = driver /\ UNCHANGED exit
  <2>1. GreeterTyped' /\ Held'  BY <1>1, <1>4, PartsAssumption DEF GreeterTyped, Held
  <2>2. Awaited' /\ Backed' /\ Display'  BY <1>1, <1>4 DEF Awaited, Backed, Display
  <2> QED  BY <2>1, <2>2
<1> QED  BY <1>3, <1>4

(* The thread main waits for ends. *)
LEMMA GreeterJoins == ASSUME GreeterInv, Greeter!Joined PROVE GreeterInv'
<1> USE DEF GreeterInv
<1>1. /\ joining # 0 /\ worker[joining].at = "ended" /\ joining' = 0
      /\ UNCHANGED << stage, master, card, name, keyUser, phase, batch, exit, worker, rx, driver, comp >>
  BY DEF Greeter!Joined, Greeter!show, Greeter!ui, Greeter!peer
<1>2. GreeterTyped' /\ Held'  BY <1>1, PartsAssumption DEF GreeterTyped, Held
<1>3. Awaited' /\ Backed' /\ Display'  BY <1>1 DEF Awaited, Backed, Display, SessionOpen
<1> QED  BY <1>2, <1>3

LEMMA GreeterFinishes == ASSUME GreeterInv, Greeter!Finish PROVE GreeterInv'
<1> USE DEF GreeterInv
<1>1. /\ stage = "closing" /\ joining = 0
      /\ UNCHANGED << master, card, name, keyUser, phase, batch, exit, worker, rx, comp >>
      /\ \/ driver # 0 /\ joining' = driver /\ driver' = 0 /\ stage' = "closing"
         \/ driver = 0 /\ stage' = "gone" /\ UNCHANGED << joining, driver >>
  BY DEF Greeter!Finish, Greeter!show, Greeter!ui, Greeter!peer
<1>2. GreeterTyped' /\ Held'  BY <1>1, PartsAssumption DEF GreeterTyped, Held
<1>3. Awaited' /\ Backed' /\ Display'  BY <1>1 DEF Awaited, Backed, Display
<1> QED  BY <1>2, <1>3

LEMMA GreeterKeeps == ASSUME GreeterInv, Greeter!Next PROVE GreeterInv'
<1>1. CASE Greeter!PressEnter
  <2>1. Greeter!InForm /\ exit # "Submit" /\ Greeter!StartAuth
    BY <1>1 DEF Greeter!PressEnter, Greeter!InKeys
  <2>2. UNCHANGED << stage, master, card, keyUser, batch, exit, comp >>
    BY <1>1 DEF Greeter!PressEnter, Greeter!show, Greeter!peer
  <2> QED  BY <2>1, <2>2, AttemptStarts
<1>2. CASE Greeter!ClickSubmit
  <2>1. Greeter!InForm /\ exit # "Submit" /\ Greeter!StartAuth
    BY <1>2 DEF Greeter!ClickSubmit, Greeter!InForm, GreeterInv, Backed
  <2>2. UNCHANGED << stage, master, card, keyUser, batch, exit, comp >>
    BY <1>2 DEF Greeter!ClickSubmit, Greeter!show, Greeter!peer
  <2> QED  BY <2>1, <2>2, AttemptStarts
<1>3. CASE Greeter!Workers
  BY <1>3, AttemptGoesOn DEF Greeter!Workers, Greeter!Attempts
<1>4. CASE Greeter!PollAuth \/ Greeter!Joined \/ Greeter!Finish
  BY <1>4, GreeterPolls, GreeterJoins, GreeterFinishes
<1>5. CASE \/ Greeter!SplashHandover \/ Greeter!Modeset \/ Greeter!SplashExit
           \/ \E u \in Accounts : Greeter!Type(u) \/ Greeter!ProbeKey(u)
           \/ Greeter!PressEscape \/ Greeter!Tick \/ Greeter!Presses \/ Greeter!PressesDone
           \/ \E action \in { "PowerOff", "Reboot" } : Greeter!ClickPower(action)
           \/ Greeter!Launch \/ Greeter!Leave \/ Greeter!BindSocket \/ Greeter!AcceptFails
           \/ Greeter!Waiting \/ Greeter!CompositorExited
           \/ Greeter!AskHandover \/ Greeter!TakeDisplay \/ Greeter!FirstFrame
           \/ Greeter!SendFirstFrame \/ Greeter!CompositorDies
  BY <1>5, GreeterQuiet
<1> QED  BY <1>1, <1>2, <1>3, <1>4, <1>5 DEF Greeter!Next, Accounts

(* The greeter leaves nothing behind, whichever way it ends: every session *)
(* of PAM is closed and the display given up; and the session a compositor *)
(* was started under stays open as long as it runs.                        *)
THEOREM GreeterIsClean == Spec => []GreeterAgrees
<1> DEFINE I == part = "greeter" => GreeterInv
<1>1. Init => I
  BY GreeterStarts DEF Init, InitShellPopups, InitGreeter, InitNotifications
<1>2. I /\ [Next]_vars => I'
  <2> SUFFICES ASSUME I, [Next]_vars, part' = "greeter" PROVE GreeterInv'  OBVIOUS
  <2>1. CASE NextGreeter  BY <2>1, GreeterKeeps DEF NextGreeter
  <2>2. CASE NextShellPopups \/ NextNotifications
    BY <2>2 DEF NextShellPopups, NextNotifications
  <2>3. CASE UNCHANGED vars
    BY <2>3 DEF vars, GreeterInv, GreeterTyped, Held, Awaited, Backed, Display, SessionOpen
  <2> QED  BY <2>1, <2>2, <2>3 DEF Next
<1>3. I => GreeterAgrees  BY GreeterHolds DEF GreeterAgrees
<1> QED  BY <1>1, <1>2, <1>3, PTL DEF Spec
-----------------------------------------------------------------------------
(* Notifications.  Every handler that changes the queue or configures the  *)
(* layer draws the card anew, so the property carries itself, once the     *)
(* queue is known to be a sequence of notifications.                       *)

Message == [kind : {"notify"}, call : Nat, lasts : Notifications!Timeouts, id : Nat]
             \cup [kind : {"close"}, id : Nat]
Note    == [id : Nat, call : Nat, lasts : Notifications!Timeouts, expired : BOOLEAN]

NotesInv ==
  /\ next_id \in Nat /\ calls \in Nat
  /\ channel \in Seq(Message)
  /\ queue \in Seq(Note)
  /\ Notifications!ShowsNewest

RetainPass(q, kept, u, k) == u \o (IF k \in kept THEN << q[k] >> ELSE << >>)

LEMMA RetainExists ==
    ASSUME NEW q, NEW kept, NEW n \in Nat
    PROVE  \E g : g = [k \in 0..n |-> IF k = 0 THEN << >> ELSE RetainPass(q, kept, g[k-1], k)]
<1> DEFINE S == {m \in Nat : \E g : g = [k \in 0..m |->
                      IF k = 0 THEN << >> ELSE RetainPass(q, kept, g[k-1], k)]}
<1>1. 0 \in S
  <2> DEFINE g == [k \in 0..0 |-> << >>]
  <2>1. g = [k \in 0..0 |-> IF k = 0 THEN << >> ELSE RetainPass(q, kept, g[k-1], k)]  OBVIOUS
  <2> QED  BY <2>1
<1>2. ASSUME NEW m \in 0..n-1, m \in S PROVE m+1 \in S
  <2>1. PICK g : g = [k \in 0..m |-> IF k = 0 THEN << >> ELSE RetainPass(q, kept, g[k-1], k)]  BY <1>2
  <2> DEFINE h == [k \in 0..m+1 |-> IF k = m+1 THEN RetainPass(q, kept, g[m], m+1) ELSE g[k]]
  <2>2. ASSUME NEW k \in 0..m+1
        PROVE  h[k] = IF k = 0 THEN << >> ELSE RetainPass(q, kept, h[k-1], k)
    <3>1. CASE k = m+1  BY <3>1
    <3>2. CASE k \in 0..m /\ k # 0
      <4>1. k-1 \in 0..m /\ k-1 # m+1  BY <3>2
      <4>2. h[k] = g[k] /\ h[k-1] = g[k-1]  BY <3>2, <4>1
      <4>3. g[k] = RetainPass(q, kept, g[k-1], k)  BY <2>1, <3>2
      <4> QED  BY <3>2, <4>2, <4>3
    <3>3. CASE k = 0  BY <2>1, <3>3
    <3> QED  BY <3>1, <3>2, <3>3
  <2>3. h = [k \in 0..m+1 |-> IF k = 0 THEN << >> ELSE RetainPass(q, kept, h[k-1], k)]  BY <2>2
  <2> HIDE DEF h
  <2> QED  BY <2>3
<1>3. n \in S
  <2> HIDE DEF S
  <2> QED  BY <1>1, <1>2, UpTo
<1> QED  BY <1>3

(* What is retained of a queue is a queue. *)
LEMMA RetainIs ==
    ASSUME NEW T, NEW q \in Seq(T), NEW kept
    PROVE  Notifications!Retain(q, kept) \in Seq(T)
<1> DEFINE g == CHOOSE g : g = [k \in 0..Len(q) |->
                                  IF k = 0 THEN << >> ELSE RetainPass(q, kept, g[k-1], k)]
<1>1. Len(q) \in Nat  OBVIOUS
<1>2. g = [k \in 0..Len(q) |-> IF k = 0 THEN << >> ELSE RetainPass(q, kept, g[k-1], k)]
  BY <1>1, RetainExists
<1>3. Notifications!Retain(q, kept) = g[Len(q)]  BY DEF Notifications!Retain, RetainPass
<1> HIDE DEF g
<1> DEFINE S == {k \in 0..Len(q) : g[k] \in Seq(T)}
<1>5. 0 \in S  BY <1>1, <1>2
<1>6. ASSUME NEW k \in 0..Len(q)-1, k \in S PROVE k+1 \in S
  <2>1. k+1 \in 1..Len(q) /\ g[k] \in Seq(T)  BY <1>1, <1>6
  <2>2. g[k+1] = RetainPass(q, kept, g[k], k+1)  BY <1>1, <1>2, <2>1
  <2>3. q[k+1] \in T  BY <2>1
  <2>4. g[k+1] \in Seq(T)  BY <2>1, <2>2, <2>3 DEF RetainPass
  <2> QED  BY <2>1, <2>4
<1>7. \A k \in 0..Len(q) : k \in S
  <2> HIDE DEF S
  <2> QED  BY <1>1, <1>5, <1>6, UpTo
<1>8. Len(q) \in S  BY <1>1, <1>7
<1> QED  BY <1>3, <1>8

(* Whoever draws the queue it leaves shows its newest. *)
LEMMA DrawShows == ASSUME Notifications!Draw(queue') PROVE Notifications!ShowsNewest'
BY DEF Notifications!Draw, Notifications!ShowsNewest

LEMMA NotesKeep == ASSUME NotesInv, Notifications!Next PROVE NotesInv'
<1> USE DEF NotesInv
<1>1. ASSUME NEW r \in 0..MaxCalls, NEW t \in Notifications!Timeouts, Notifications!Notify(r, t)
      PROVE  NotesInv'
  <2> DEFINE m == [kind |-> "notify", call |-> calls', lasts |-> t,
                   id |-> IF r = 0 THEN next_id ELSE r]
  <2>1. /\ calls' = calls + 1 /\ next_id' \in { next_id, next_id + 1 }
        /\ channel' = Append(channel, m)
        /\ UNCHANGED << queue, configured, card >>
    BY <1>1 DEF Notifications!Notify
  <2>2. m \in Message  BY <2>1, PartsAssumption DEF Message
  <2>3. channel' \in Seq(Message)
    <3> HIDE DEF m
    <3> QED  BY <2>1, <2>2
  <2> QED  BY <2>1, <2>3 DEF Notifications!ShowsNewest
<1>2. ASSUME NEW id \in 1..MaxCalls, Notifications!CloseNotification(id) PROVE NotesInv'
  <2> DEFINE m == [kind |-> "close", id |-> id]
  <2>1. channel' = Append(channel, m) /\ UNCHANGED << next_id, queue, configured, card, calls >>
    BY <1>2 DEF Notifications!CloseNotification
  <2>2. m \in Message  BY PartsAssumption DEF Message
  <2>3. channel' \in Seq(Message)
    <3> HIDE DEF m
    <3> QED  BY <2>1, <2>2
  <2> QED  BY <2>1, <2>3 DEF Notifications!ShowsNewest
<1>3. CASE Notifications!OnNotify
  <2> DEFINE n == [id |-> Head(channel).id, call |-> Head(channel).call,
                   lasts |-> Head(channel).lasts, expired |-> FALSE]
  <2>1. /\ channel # << >> /\ Head(channel).kind = "notify" /\ channel' = Tail(channel)
        /\ queue' = Append(queue, n) /\ Notifications!Draw(queue')
        /\ UNCHANGED << next_id, calls >>
    BY <1>3 DEF Notifications!OnNotify
  <2>2. Head(channel) \in Message /\ channel' \in Seq(Message)  BY <2>1
  <2>3. n \in Note  BY <2>1, <2>2 DEF Message, Note
  <2>4. queue' \in Seq(Note)
    <3> HIDE DEF n
    <3> QED  BY <2>1, <2>3
  <2> QED  BY <2>1, <2>2, <2>4, DrawShows
<1>4. CASE Notifications!OnClose
  <2>1. /\ channel # << >> /\ channel' = Tail(channel)
        /\ queue' = Notifications!Retain(queue, { i \in DOMAIN queue : queue[i].id # Head(channel).id })
        /\ Notifications!Draw(queue') /\ UNCHANGED << next_id, calls >>
    BY <1>4 DEF Notifications!OnClose
  <2>2. queue' \in Seq(Note)  BY <2>1, RetainIs
  <2>3. channel' \in Seq(Message)  BY <2>1
  <2> QED  BY <2>1, <2>2, <2>3, DrawShows
<1>8. CASE Notifications!Timer
  <2>1. /\ queue' = Notifications!Retain(queue, { i \in DOMAIN queue : ~ queue[i].expired })
        /\ Notifications!Draw(queue') /\ UNCHANGED << next_id, channel, calls >>
    BY <1>8 DEF Notifications!Timer
  <2>2. queue' \in Seq(Note)  BY <2>1, RetainIs
  <2> QED  BY <2>1, <2>2, DrawShows
<1>5. ASSUME NEW i \in DOMAIN queue, Notifications!Elapse(i) PROVE NotesInv'
  <2> DEFINE new == [queue[i] EXCEPT !.expired = TRUE]
  <2>1. queue' = [queue EXCEPT ![i] = new]
        /\ UNCHANGED << next_id, channel, configured, card, calls >>
    BY <1>5 DEF Notifications!Elapse
  <2>2. i \in 1..Len(queue) /\ queue[i] \in Note  OBVIOUS
  <2>3. new \in Note /\ new.call = queue[i].call  BY <2>2 DEF Note
  <2> HIDE DEF new
  <2>4. /\ queue' \in Seq(Note) /\ Len(queue') = Len(queue)
        /\ \A j \in 1..Len(queue) : queue'[j] = IF j = i THEN new ELSE queue[j]
    BY <2>1, <2>2, <2>3, ExceptSeq
  <2>5. queue # << >> /\ queue' # << >>  BY <2>2, <2>4
  <2>6. Notifications!Last(queue').call = Notifications!Last(queue).call
    BY <2>2, <2>3, <2>4 DEF Notifications!Last
  <2> QED  BY <2>1, <2>4, <2>5, <2>6 DEF Notifications!ShowsNewest
<1>6. CASE Notifications!Configure
  BY <1>6, DrawShows DEF Notifications!Configure
<1>7. CASE Notifications!LayerClosed
  BY <1>7 DEF Notifications!LayerClosed, Notifications!ShowsNewest
<1> QED  BY <1>1, <1>2, <1>3, <1>4, <1>5, <1>6, <1>7, <1>8 DEF Notifications!Next, Notifications!Main

(* The card on the screen is one of a notification that is queued: the     *)
(* newest, by the invariant; and there is none when the queue is empty.    *)
THEOREM QueuedIsShown == Spec => []CardIsQueued
<1> DEFINE I == part = "notes" => NotesInv
<1>1. Init => I
  BY DEF Init, InitShellPopups, InitGreeter, InitNotifications, Notifications!Init, NotesInv,
         Notifications!ShowsNewest
<1>2. I /\ [Next]_vars => I'
  <2> SUFFICES ASSUME I, [Next]_vars, part' = "notes" PROVE NotesInv'  OBVIOUS
  <2>1. CASE NextNotifications  BY <2>1, NotesKeep DEF NextNotifications
  <2>2. CASE NextShellPopups \/ NextGreeter
    BY <2>2 DEF NextShellPopups, NextGreeter
  <2>3. CASE UNCHANGED vars  BY <2>3 DEF vars, NotesInv, Notifications!ShowsNewest
  <2> QED  BY <2>1, <2>2, <2>3 DEF Next
<1>3. I => CardIsQueued
  <2> SUFFICES ASSUME NotesInv PROVE Notifications!CardIsQueued  BY DEF CardIsQueued
  <2>1. ASSUME queue # << >> PROVE Len(queue) \in DOMAIN queue  BY <2>1 DEF NotesInv
  <2> QED  BY <2>1 DEF NotesInv, Notifications!CardIsQueued, Notifications!ShowsNewest, Notifications!Last
<1> QED  BY <1>1, <1>2, <1>3, PTL DEF Spec
-----------------------------------------------------------------------------
(* The popups.  A handler goes through several states of the shell, so the *)
(* invariant is stated of the record w that its operators pass on.  Each   *)
(* operator has a lemma that says what it keeps and what is open after it. *)

Sizes == ShellPopups!Popups \cup ShellPopups!Surfaces \cup { "full", "sni padded", "unset" }

Surface == [mapped : BOOLEAN, acked : BOOLEAN, asked : Sizes, told : Sizes, coming : Int]

Ui == [open : SUBSET ShellPopups!Popups, notes : Nat, full : BOOLEAN, configured : SUBSET ShellPopups!Surfaces,
       srf : [ShellPopups!Surfaces -> Surface],
       err : {ShellPopups!NoError} \cup ({ "size", "unacked" } \X ShellPopups!Surfaces)]

\* What holds also between an unmap and the note that the layer is not configured any more.
Firm(w) ==
  /\ w \in Ui
  /\ w.err # << "unacked", "shared" >>
  /\ \A s \in ShellPopups!Surfaces : w.srf[s].mapped => w.srf[s].asked # "unset"

SharedReady(w) == "shared" \in w.configured => w.srf["shared"].acked

\* Something is open that is drawn on s.
WantedIn(w, s) == IF s = "notification" THEN w.notes > 0 ELSE \E p \in w.open : ShellPopups!Layer(p) = s

\* No surface but s shows what is closed.
ClearBut(w, s) == \A q \in ShellPopups!Surfaces \ {s} : w.srf[q].mapped => WantedIn(w, q)
Clear(w)       == \A q \in ShellPopups!Surfaces : w.srf[q].mapped => WantedIn(w, q)

Sound(w) == Firm(w) /\ SharedReady(w) /\ Clear(w)

\* v is w but for its surfaces and the error, and of the surfaces only s differs.
SameShell(w, v)  == /\ v.open = w.open /\ v.notes = w.notes
                    /\ v.full = w.full /\ v.configured = w.configured
Elsewhere(w, v, s) == \A q \in ShellPopups!Surfaces \ {s} : v.srf[q] = w.srf[q]

LEMMA Layers ==
    /\ \A p \in ShellPopups!Popups : ShellPopups!Layer(p) \in ShellPopups!Surfaces
    /\ \A p \in ShellPopups!Popups \ ShellPopups!Tenants : ShellPopups!Layer(p) = p
    /\ \A p \in ShellPopups!Tenants : ShellPopups!Layer(p) = "shared"
    /\ "nothing" \notin ShellPopups!Popups /\ "unset" \notin ShellPopups!Popups \cup ShellPopups!Surfaces
    /\ "notification" \notin ShellPopups!Popups /\ "shared" \notin ShellPopups!Popups
BY DEF ShellPopups!Popups, ShellPopups!Surfaces, ShellPopups!Layer, ShellPopups!Tenants, ShellPopups!Modals

-----------------------------------------------------------------------------
(* What the compositor makes of a commit.                                  *)

Like(w, v, s) == Firm(v) /\ SameShell(w, v) /\ Elsewhere(w, v, s)

LEMMA FailIs ==
    ASSUME NEW w, Firm(w), NEW s \in ShellPopups!Surfaces, NEW why \in { "size", "unacked" },
           why = "size" \/ s # "shared"
    PROVE  /\ Like(w, ShellPopups!Fail(w, why, s), s)
           /\ ShellPopups!Fail(w, why, s).srf = w.srf
<1> DEFINE v == ShellPopups!Fail(w, why, s)
<1>1. CASE w.err = ShellPopups!NoError
  <2>1. v = [w EXCEPT !.err = << why, s >>]  BY <1>1 DEF ShellPopups!Fail
  <2>2. << why, s >> \in { "size", "unacked" } \X ShellPopups!Surfaces /\ << why, s >> # << "unacked", "shared" >>
    OBVIOUS
  <2>3. v \in Ui /\ v.err = << why, s >> /\ v.srf = w.srf /\ SameShell(w, v)
    BY <2>1, <2>2 DEF Firm, Ui, SameShell
  <2> HIDE DEF v
  <2>4. Firm(v)  BY <2>2, <2>3 DEF Firm
  <2>5. Like(w, v, s)  BY <2>3, <2>4 DEF Like, Elsewhere
  <2> QED  BY <2>3, <2>5 DEF v
<1>2. CASE w.err # ShellPopups!NoError
  BY <1>2 DEF ShellPopups!Fail, Like, SameShell, Elsewhere
<1> QED  BY <1>1, <1>2

(* A surface is replaced by another. *)
LEMMA SurfaceSet ==
    ASSUME NEW w, Firm(w), NEW s \in ShellPopups!Surfaces, NEW new \in Surface,
           new.mapped => new.asked # "unset"
    PROVE  /\ Like(w, [w EXCEPT !.srf = [w.srf EXCEPT ![s] = new]], s)
           /\ [w EXCEPT !.srf = [w.srf EXCEPT ![s] = new]].srf[s] = new
<1> DEFINE f == [w.srf EXCEPT ![s] = new]
           v == [w EXCEPT !.srf = f]
<1>1. /\ f \in [ShellPopups!Surfaces -> Surface] /\ f[s] = new
      /\ \A q \in ShellPopups!Surfaces \ {s} : f[q] = w.srf[q]
  BY DEF Firm, Ui
<1> HIDE DEF f
<1>2. v \in Ui /\ v.srf = f /\ v.err = w.err /\ SameShell(w, v)
  BY <1>1 DEF Firm, Ui, SameShell
<1> HIDE DEF v
<1>3. Like(w, v, s) /\ v.srf[s] = new  BY <1>1, <1>2 DEF Like, Elsewhere, Firm
<1> QED  BY <1>3 DEF v, f

(* It is told its size by one more configure. *)
LEMMA Told ==
    ASSUME NEW r \in Surface, NEW n \in Int
    PROVE  /\ [r EXCEPT !.told = r.asked, !.coming = n] \in Surface
           /\ [r EXCEPT !.told = r.asked, !.coming = n].mapped = r.mapped
           /\ [r EXCEPT !.told = r.asked, !.coming = n].acked = r.acked
           /\ [r EXCEPT !.told = r.asked, !.coming = n].asked = r.asked
BY DEF Surface

(* It acknowledges a configure. *)
LEMMA Acknowledged ==
    ASSUME NEW r \in Surface, NEW n \in Int
    PROVE  /\ [r EXCEPT !.coming = n, !.acked = TRUE] \in Surface
           /\ [r EXCEPT !.coming = n, !.acked = TRUE].mapped = r.mapped
           /\ [r EXCEPT !.coming = n, !.acked = TRUE].acked
           /\ [r EXCEPT !.coming = n, !.acked = TRUE].asked = r.asked
BY DEF Surface

LEMMA ArrangeIs ==
    ASSUME NEW w, Firm(w), NEW s \in ShellPopups!Surfaces
    PROVE  /\ Like(w, ShellPopups!Arrange(w, s), s)
           /\ ShellPopups!Arrange(w, s).srf[s].mapped = w.srf[s].mapped
           /\ ShellPopups!Arrange(w, s).srf[s].acked = w.srf[s].acked
<1> DEFINE v == ShellPopups!Arrange(w, s)
           new == [w.srf[s] EXCEPT !.told = w.srf[s].asked, !.coming = @ + 1]
<1>1. CASE w.srf[s].asked = w.srf[s].told
  BY <1>1 DEF ShellPopups!Arrange, Like, SameShell, Elsewhere
<1>2. CASE w.srf[s].asked # w.srf[s].told
  <2>1. w.srf[s] \in Surface  BY DEF Firm, Ui
  <2>2. /\ new \in Surface /\ new.mapped = w.srf[s].mapped
        /\ new.acked = w.srf[s].acked /\ new.asked = w.srf[s].asked
    <3>1. w.srf[s].coming + 1 \in Int  BY <2>1 DEF Surface
    <3> QED  BY <2>1, <3>1, Told
  <2>3. v = [w EXCEPT !.srf = [w.srf EXCEPT ![s] = new]]
    BY <1>2, <2>1 DEF ShellPopups!Arrange, Firm, Ui, Surface
  <2>4. new.mapped => new.asked # "unset"  BY <2>2 DEF Firm
  <2> HIDE DEF new
  <2> QED  BY <2>2, <2>3, <2>4, SurfaceSet
<1> QED  BY <1>1, <1>2

LEMMA CommitIs ==
    ASSUME NEW w, Firm(w), NEW s \in ShellPopups!Surfaces
    PROVE  /\ Like(w, ShellPopups!Commit(w, s), s)
           /\ ShellPopups!Commit(w, s).srf[s].mapped = w.srf[s].mapped
           /\ ShellPopups!Commit(w, s).srf[s].acked = w.srf[s].acked
<1>1. CASE w.srf[s].asked = "unset"
  BY <1>1, FailIs DEF ShellPopups!Commit
<1>2. CASE w.srf[s].asked # "unset"
  BY <1>2, ArrangeIs DEF ShellPopups!Commit
<1> QED  BY <1>1, <1>2

LEMMA LikeTwice ==
    ASSUME NEW w, NEW u, NEW v, NEW s, Like(w, u, s), Like(u, v, s) PROVE Like(w, v, s)
BY DEF Like, SameShell, Elsewhere

LEMMA AttachIs ==
    ASSUME NEW w, Firm(w), NEW s \in ShellPopups!Surfaces, s = "shared" => w.srf[s].acked
    PROVE  /\ Like(w, ShellPopups!Attach(w, s), s)
           /\ ShellPopups!Attach(w, s).srf[s].acked = w.srf[s].acked
<1>1. CASE w.srf[s].asked = "unset"  BY <1>1, FailIs DEF ShellPopups!Attach
<1>2. CASE w.srf[s].asked # "unset" /\ ~ w.srf[s].acked  BY <1>2, FailIs DEF ShellPopups!Attach
<1>3. CASE w.srf[s].asked # "unset" /\ w.srf[s].acked
  <2> DEFINE new == [w.srf[s] EXCEPT !.mapped = TRUE]
             u == [w EXCEPT !.srf = [w.srf EXCEPT ![s] = new]]
  <2>1. w.srf[s] \in Surface  BY DEF Firm, Ui
  <2>2. new \in Surface /\ new.acked = w.srf[s].acked /\ new.asked = w.srf[s].asked
    BY <2>1 DEF Surface
  <2>3. ShellPopups!Attach(w, s) = ShellPopups!Arrange(u, s)
    BY <1>3 DEF ShellPopups!Attach
  <2> HIDE DEF new
  <2>4. Like(w, u, s) /\ u.srf[s] = new  BY <1>3, <2>2, SurfaceSet
  <2> HIDE DEF u
  <2>5. Like(u, ShellPopups!Arrange(u, s), s) /\ ShellPopups!Arrange(u, s).srf[s].acked = u.srf[s].acked
    BY <2>4, ArrangeIs DEF Like
  <2> QED  BY <2>2, <2>3, <2>4, <2>5, LikeTwice
<1> QED  BY <1>1, <1>2, <1>3

LEMMA DetachIs ==
    ASSUME NEW w, Firm(w), NEW s \in ShellPopups!Surfaces
    PROVE  Like(w, ShellPopups!Detach(w, s), s) /\ ~ ShellPopups!Detach(w, s).srf[s].mapped
<1>1. CASE w.srf[s].asked = "unset"
  <2>1. ~ w.srf[s].mapped  BY <1>1 DEF Firm
  <2>2. ShellPopups!Detach(w, s) = ShellPopups!Fail(w, "size", s)  BY <1>1 DEF ShellPopups!Detach
  <2>3. Like(w, ShellPopups!Fail(w, "size", s), s) /\ ShellPopups!Fail(w, "size", s).srf = w.srf  BY FailIs
  <2> QED  BY <2>1, <2>2, <2>3
<1>2. CASE w.srf[s].asked # "unset" /\ ~ w.srf[s].mapped
  BY <1>2, ArrangeIs DEF ShellPopups!Detach
<1>3. CASE w.srf[s].asked # "unset" /\ w.srf[s].mapped
  <2> DEFINE new == [mapped |-> FALSE, acked |-> FALSE, asked |-> "unset", told |-> "unset",
                     coming |-> w.srf[s].coming + 1]
  <2>1. w.srf[s] \in Surface  BY DEF Firm, Ui
  <2>2. new \in Surface /\ ~ new.mapped
    <3>1. w.srf[s].coming + 1 \in Int  BY <2>1 DEF Surface
    <3>2. "unset" \in Sizes  BY DEF Sizes
    <3> QED  BY <3>1, <3>2 DEF Surface
  <2>3. ShellPopups!Detach(w, s) = [w EXCEPT !.srf = [w.srf EXCEPT ![s] = new]]
    BY <1>3 DEF ShellPopups!Detach, Firm, Ui
  <2> HIDE DEF new
  <2> QED  BY <2>2, <2>3, SurfaceSet
<1> QED  BY <1>1, <1>2, <1>3

LEMMA AskIs ==
    ASSUME NEW w, Firm(w), NEW s \in ShellPopups!Surfaces, NEW size \in Sizes,
           w.srf[s].mapped => size # "unset"
    PROVE  /\ Like(w, ShellPopups!Ask(w, s, size), s)
           /\ ShellPopups!Ask(w, s, size).srf[s].mapped = w.srf[s].mapped
           /\ ShellPopups!Ask(w, s, size).srf[s].acked = w.srf[s].acked
<1> DEFINE new == [w.srf[s] EXCEPT !.asked = size]
<1>1. w.srf[s] \in Surface  BY DEF Firm, Ui
<1>2. /\ new \in Surface /\ new.mapped = w.srf[s].mapped
      /\ new.acked = w.srf[s].acked /\ new.asked = size
  BY <1>1 DEF Surface
<1>3. ShellPopups!Ask(w, s, size) = [w EXCEPT !.srf = [w.srf EXCEPT ![s] = new]]
  BY DEF ShellPopups!Ask, Firm, Ui
<1> HIDE DEF new
<1> QED  BY <1>2, <1>3, SurfaceSet
-----------------------------------------------------------------------------
(* What the shell's own functions make of a sound state.                   *)

LEMMA StaysSound ==
    ASSUME NEW w, NEW v, NEW s \in ShellPopups!Surfaces, SharedReady(w), ClearBut(w, s), Like(w, v, s),
           v.srf[s].mapped => WantedIn(w, s),
           s = "shared" => v.srf[s].acked = w.srf[s].acked
    PROVE  Sound(v)
<1> USE DEF Like, SameShell, Elsewhere
<1>1. \A q \in ShellPopups!Surfaces : WantedIn(v, q) <=> WantedIn(w, q)  BY DEF WantedIn
<1>2. Clear(v)  BY <1>1 DEF Clear, ClearBut
<1>3. SharedReady(v)  BY DEF SharedReady, ShellPopups!Surfaces
<1> QED  BY <1>2, <1>3 DEF Sound

LEMMA CommitSound ==
    ASSUME NEW w, Sound(w), NEW s \in ShellPopups!Surfaces
    PROVE  Sound(ShellPopups!Commit(w, s)) /\ SameShell(w, ShellPopups!Commit(w, s))
<1>1. /\ Like(w, ShellPopups!Commit(w, s), s)
      /\ ShellPopups!Commit(w, s).srf[s].mapped = w.srf[s].mapped
      /\ ShellPopups!Commit(w, s).srf[s].acked = w.srf[s].acked
  BY CommitIs DEF Sound
<1>2. ClearBut(w, s) /\ (w.srf[s].mapped => WantedIn(w, s))  BY DEF Sound, Clear, ClearBut
<1> QED  BY <1>1, <1>2, StaysSound DEF Sound, Like

LEMMA AskSound ==
    ASSUME NEW w, Sound(w), NEW s \in ShellPopups!Surfaces, NEW size \in Sizes \ {"unset"}
    PROVE  Sound(ShellPopups!Ask(w, s, size)) /\ SameShell(w, ShellPopups!Ask(w, s, size))
<1>1. /\ Like(w, ShellPopups!Ask(w, s, size), s)
      /\ ShellPopups!Ask(w, s, size).srf[s].mapped = w.srf[s].mapped
      /\ ShellPopups!Ask(w, s, size).srf[s].acked = w.srf[s].acked
  BY AskIs DEF Sound
<1>2. ClearBut(w, s) /\ (w.srf[s].mapped => WantedIn(w, s))  BY DEF Sound, Clear, ClearBut
<1> QED  BY <1>1, <1>2, StaysSound DEF Sound, Like

LEMMA AttachSound ==
    ASSUME NEW w, Firm(w), SharedReady(w), NEW s \in ShellPopups!Surfaces, ClearBut(w, s), WantedIn(w, s),
           s = "shared" => w.srf[s].acked
    PROVE  Sound(ShellPopups!Attach(w, s)) /\ SameShell(w, ShellPopups!Attach(w, s))
<1>1. Like(w, ShellPopups!Attach(w, s), s) /\ ShellPopups!Attach(w, s).srf[s].acked = w.srf[s].acked
  BY AttachIs
<1> QED  BY <1>1, StaysSound DEF Like

LEMMA DetachSound ==
    ASSUME NEW w, Firm(w), SharedReady(w), NEW s \in ShellPopups!Surfaces, s # "shared", ClearBut(w, s)
    PROVE  Sound(ShellPopups!Detach(w, s)) /\ SameShell(w, ShellPopups!Detach(w, s))
<1>1. Like(w, ShellPopups!Detach(w, s), s) /\ ~ ShellPopups!Detach(w, s).srf[s].mapped  BY DetachIs
<1> QED  BY <1>1, StaysSound DEF Like

LEMMA DrawSound ==
    ASSUME NEW w, Sound(w), NEW p \in ShellPopups!Popups
    PROVE  Sound(ShellPopups!Draw(w, p)) /\ SameShell(w, ShellPopups!Draw(w, p))
<1>1. CASE p \in w.open /\ ShellPopups!Layer(p) \in w.configured
  <2>1. ShellPopups!Layer(p) \in ShellPopups!Surfaces  BY Layers
  <2>2. ClearBut(w, ShellPopups!Layer(p))  BY DEF Sound, Clear, ClearBut
  <2>3. WantedIn(w, ShellPopups!Layer(p))
    <3>1. ShellPopups!Layer(p) # "notification"  BY Layers DEF ShellPopups!Layer
    <3> QED  BY <1>1, <3>1 DEF WantedIn
  <2>4. ShellPopups!Layer(p) = "shared" => w.srf[ShellPopups!Layer(p)].acked  BY <1>1 DEF Sound, SharedReady
  <2>5. ShellPopups!Draw(w, p) = ShellPopups!Attach(w, ShellPopups!Layer(p))  BY <1>1 DEF ShellPopups!Draw
  <2> QED  BY <2>1, <2>2, <2>3, <2>4, <2>5, AttachSound DEF Sound
<1>2. CASE ~ (p \in w.open /\ ShellPopups!Layer(p) \in w.configured)
  <2>1. ShellPopups!Draw(w, p) = w  BY <1>2 DEF ShellPopups!Draw
  <2> QED  BY <2>1 DEF SameShell
<1> QED  BY <1>1, <1>2

LEMMA NotificationSound ==
    ASSUME NEW w, Firm(w), SharedReady(w), ClearBut(w, "notification")
    PROVE  /\ Sound(ShellPopups!DrawNotification(w))
           /\ SameShell(w, ShellPopups!DrawNotification(w))
<1>0. "notification" \in ShellPopups!Surfaces  BY DEF ShellPopups!Surfaces
<1>1. CASE w.notes = 0
  <2>1. ShellPopups!DrawNotification(w) = ShellPopups!Detach(w, "notification")  BY <1>1 DEF ShellPopups!DrawNotification
  <2> QED  BY <1>0, <2>1, DetachSound
<1>2. CASE w.notes # 0
  <2>1. w.notes > 0  BY <1>2 DEF Firm, Ui
  <2>2. WantedIn(w, "notification")  BY <2>1 DEF WantedIn
  <2>3. CASE "notification" \notin w.configured
    <3>1. ShellPopups!DrawNotification(w) = w  BY <1>2, <2>3 DEF ShellPopups!DrawNotification
    <3>2. Sound(w)  BY <2>2 DEF Sound, Clear, ClearBut
    <3> QED  BY <3>1, <3>2 DEF SameShell
  <2>4. CASE "notification" \in w.configured
    <3>1. ShellPopups!DrawNotification(w) = ShellPopups!Attach(w, "notification")
      BY <1>2, <2>4 DEF ShellPopups!DrawNotification
    <3> QED  BY <1>0, <2>2, <3>1, AttachSound
  <2> QED  BY <2>3, <2>4
<1> QED  BY <1>1, <1>2

(* Leaving one popup, of a layer that is about to be unmapped, or entering one. *)
LEMMA LeaveIs ==
    ASSUME NEW w, Sound(w), NEW p \in ShellPopups!Popups
    PROVE  /\ Firm([w EXCEPT !.open = @ \ {p}]) /\ SharedReady([w EXCEPT !.open = @ \ {p}])
           /\ ClearBut([w EXCEPT !.open = @ \ {p}], ShellPopups!Layer(p))
           /\ [w EXCEPT !.open = @ \ {p}].open = w.open \ {p}
           /\ [w EXCEPT !.open = @ \ {p}].notes = w.notes
           /\ [w EXCEPT !.open = @ \ {p}].configured = w.configured
<1> DEFINE v == [w EXCEPT !.open = @ \ {p}]
<1>1. w \in Ui  BY DEF Sound, Firm
<1>2. /\ v \in Ui /\ v.open = w.open \ {p} /\ v.notes = w.notes /\ v.configured = w.configured
      /\ v.srf = w.srf /\ v.err = w.err
  BY <1>1 DEF Ui
<1> HIDE DEF v
<1>3. Firm(v) /\ SharedReady(v)  BY <1>2 DEF Firm, SharedReady, Sound
<1>4. ClearBut(v, ShellPopups!Layer(p))  BY <1>2 DEF Sound, Clear, ClearBut, WantedIn
<1> QED  BY <1>2, <1>3, <1>4 DEF v

LEMMA OpenedSound ==
    ASSUME NEW w, Sound(w), NEW p \in ShellPopups!Popups
    PROVE  /\ Sound(ShellPopups!Opened(w, p))
           /\ ShellPopups!Opened(w, p).open = w.open \cup {p}
           /\ ShellPopups!Opened(w, p).configured = w.configured
<1> DEFINE v == ShellPopups!Opened(w, p)
<1>1. w \in Ui  BY DEF Sound, Firm
<1>2. /\ v \in Ui /\ v.open = w.open \cup {p} /\ v.notes = w.notes /\ v.configured = w.configured
      /\ v.srf = w.srf /\ v.err = w.err
  BY <1>1 DEF Ui, ShellPopups!Opened
<1> HIDE DEF v
<1>3. Firm(v) /\ SharedReady(v)  BY <1>2 DEF Firm, SharedReady, Sound
<1>4. Clear(v)  BY <1>2 DEF Sound, Clear, WantedIn
<1> QED  BY <1>2, <1>3, <1>4 DEF v, Sound

LEMMA CloseSound ==
    ASSUME NEW w, Sound(w), NEW p \in ShellPopups!Popups \cup {"nothing"}
    PROVE  Sound(ShellPopups!Close(w, p)) /\ ShellPopups!Close(w, p).open = w.open \ {p}
<1>1. CASE p \notin w.open
  <2>1. ShellPopups!Close(w, p) = w  BY <1>1 DEF ShellPopups!Close
  <2> QED  BY <1>1, <2>1
<1>2. CASE p \in w.open /\ p \in ShellPopups!Tenants
  <2> DEFINE u == [w EXCEPT !.open = @ \ {p}]
             v == ShellPopups!Detach(u, "shared")
             c == [v EXCEPT !.configured = @ \ {"shared"}]
  <2>0. p \in ShellPopups!Popups /\ ShellPopups!Layer(p) = "shared" /\ "shared" \in ShellPopups!Surfaces
    BY <1>2, Layers DEF ShellPopups!Popups, ShellPopups!Surfaces
  <2>1. Firm(u) /\ ClearBut(u, "shared") /\ u.open = w.open \ {p}
    BY <2>0, LeaveIs
  <2> HIDE DEF u
  <2>2. Like(u, v, "shared") /\ ~ v.srf["shared"].mapped  BY <2>0, <2>1, DetachIs
  <2> HIDE DEF v
  <2>3. v \in Ui  BY <2>2 DEF Like, Firm
  <2>4. /\ c \in Ui /\ c.open = v.open /\ c.notes = v.notes /\ c.srf = v.srf /\ c.err = v.err
        /\ "shared" \notin c.configured
    BY <2>3 DEF Ui
  <2>5. ShellPopups!Close(w, p) = c  BY <1>2 DEF ShellPopups!Close, ShellPopups!CloseTenant, u, v
  <2> HIDE DEF c
  <2>6. Firm(c) /\ SharedReady(c)  BY <2>2, <2>4 DEF Firm, Like, SharedReady
  <2>7. Clear(c)
    BY <2>1, <2>2, <2>4 DEF Clear, ClearBut, Like, SameShell, Elsewhere, WantedIn
  <2>8. c.open = w.open \ {p}  BY <2>1, <2>2, <2>4 DEF Like, SameShell
  <2> QED  BY <2>5, <2>6, <2>7, <2>8 DEF Sound
<1>3. CASE p \in w.open /\ p \notin ShellPopups!Tenants
  <2> DEFINE u == [w EXCEPT !.open = @ \ {p}]
  <2>0. w.open \subseteq ShellPopups!Popups  BY DEF Sound, Firm, Ui
  <2>1. p \in ShellPopups!Popups /\ ShellPopups!Layer(p) = p /\ p \in ShellPopups!Surfaces /\ p # "shared"
    BY <1>3, <2>0, Layers
  <2>2. Firm(u) /\ SharedReady(u) /\ ClearBut(u, p) /\ u.open = w.open \ {p}
    BY <2>1, LeaveIs
  <2> HIDE DEF u
  <2>3. PICK v : /\ Like(u, v, p)
                 /\ ShellPopups!Close(w, p) = ShellPopups!Detach(v, p)
    <3>1. CASE p \in { "menu", "consent", "wifi" }
      <4>1. p \in Sizes /\ p # "unset"  BY <2>1, <3>1, Layers DEF Sizes
      <4>2. Like(u, ShellPopups!Ask(u, p, p), p)  BY <2>1, <2>2, <4>1, AskIs
      <4>3. ShellPopups!Close(w, p) = ShellPopups!Detach(ShellPopups!Ask(u, p, p), p)
        BY <1>3, <3>1 DEF ShellPopups!Close, ShellPopups!CloseOwn, u
      <4> QED  BY <4>2, <4>3
    <3>2. CASE p \notin { "menu", "consent", "wifi" }
      <4>1. Like(u, u, p)  BY <2>2 DEF Like, SameShell, Elsewhere
      <4>2. ShellPopups!Close(w, p) = ShellPopups!Detach(u, p)  BY <1>3, <3>2 DEF ShellPopups!Close, ShellPopups!CloseOwn, u
      <4> QED  BY <4>1, <4>2
    <3> QED  BY <3>1, <3>2
  <2>4. Firm(v) /\ SharedReady(v) /\ ClearBut(v, p) /\ v.open = u.open
    <3>1. "shared" \in ShellPopups!Surfaces \ {p}  BY <2>1 DEF ShellPopups!Surfaces
    <3>2. v.open = u.open /\ v.notes = u.notes /\ v.configured = u.configured
      BY <2>3 DEF Like, SameShell
    <3>3. \A q \in ShellPopups!Surfaces \ {p} : v.srf[q] = u.srf[q]  BY <2>3 DEF Like, Elsewhere
    <3>4. SharedReady(v)  BY <2>2, <3>1, <3>2, <3>3 DEF SharedReady
    <3>5. ClearBut(v, p)  BY <2>2, <3>2, <3>3 DEF ClearBut, WantedIn
    <3> QED  BY <2>3, <3>2, <3>4, <3>5 DEF Like
  <2>5. Sound(ShellPopups!Detach(v, p)) /\ SameShell(v, ShellPopups!Detach(v, p))
    BY <2>1, <2>4, DetachSound
  <2> QED  BY <2>2, <2>3, <2>4, <2>5 DEF SameShell
<1> QED  BY <1>1, <1>2, <1>3
-----------------------------------------------------------------------------
(* Closing several.                                                        *)

ClosePass(ps, kept, u, i) == ShellPopups!Close(u, IF ps[i] = kept THEN "nothing" ELSE ps[i])

LEMMA CloseOthersExists ==
    ASSUME NEW w, NEW ps, NEW kept, NEW n \in Nat
    PROVE  \E g : g = [i \in 0..n |-> IF i = 0 THEN w ELSE ClosePass(ps, kept, g[i-1], i)]
<1> DEFINE S == {m \in Nat : \E g : g = [i \in 0..m |->
                      IF i = 0 THEN w ELSE ClosePass(ps, kept, g[i-1], i)]}
<1>1. 0 \in S
  <2> DEFINE g == [i \in 0..0 |-> w]
  <2>1. g = [i \in 0..0 |-> IF i = 0 THEN w ELSE ClosePass(ps, kept, g[i-1], i)]  OBVIOUS
  <2> QED  BY <2>1
<1>2. ASSUME NEW m \in 0..n-1, m \in S PROVE m+1 \in S
  <2>1. PICK g : g = [i \in 0..m |-> IF i = 0 THEN w ELSE ClosePass(ps, kept, g[i-1], i)]  BY <1>2
  <2> DEFINE h == [i \in 0..m+1 |-> IF i = m+1 THEN ClosePass(ps, kept, g[m], m+1) ELSE g[i]]
  <2>2. ASSUME NEW i \in 0..m+1
        PROVE  h[i] = IF i = 0 THEN w ELSE ClosePass(ps, kept, h[i-1], i)
    <3>1. CASE i = m+1  BY <3>1
    <3>2. CASE i \in 0..m /\ i # 0
      <4>1. i-1 \in 0..m /\ i-1 # m+1  BY <3>2
      <4>2. h[i] = g[i] /\ h[i-1] = g[i-1]  BY <3>2, <4>1
      <4>3. g[i] = ClosePass(ps, kept, g[i-1], i)  BY <2>1, <3>2
      <4> QED  BY <3>2, <4>2, <4>3
    <3>3. CASE i = 0  BY <2>1, <3>3
    <3> QED  BY <3>1, <3>2, <3>3
  <2>3. h = [i \in 0..m+1 |-> IF i = 0 THEN w ELSE ClosePass(ps, kept, h[i-1], i)]  BY <2>2
  <2> HIDE DEF h
  <2> QED  BY <2>3
<1>3. n \in S
  <2> HIDE DEF S
  <2> QED  BY <1>1, <1>2, UpTo
<1> QED  BY <1>3

Upto(ps, n) == {ps[i] : i \in 1..n}

LEMMA CloseOthersSound ==
    ASSUME NEW w, Sound(w), NEW ps \in Seq(ShellPopups!Popups), NEW kept
    PROVE  /\ Sound(ShellPopups!CloseOthers(w, ps, kept))
           /\ ShellPopups!CloseOthers(w, ps, kept).open = w.open \ (Upto(ps, Len(ps)) \ {kept})
<1> DEFINE Arg(i) == IF ps[i] = kept THEN "nothing" ELSE ps[i]
           g == CHOOSE g : g = [i \in 0..Len(ps) |->
                                  IF i = 0 THEN w ELSE ClosePass(ps, kept, g[i-1], i)]
<1>1. Len(ps) \in Nat  OBVIOUS
<1>2. g = [i \in 0..Len(ps) |-> IF i = 0 THEN w ELSE ClosePass(ps, kept, g[i-1], i)]
  BY <1>1, CloseOthersExists
<1>3. ShellPopups!CloseOthers(w, ps, kept) = g[Len(ps)]  BY DEF ShellPopups!CloseOthers, ClosePass
<1>4. \A i \in 1..Len(ps) : Arg(i) \in ShellPopups!Popups \cup {"nothing"}  OBVIOUS
<1> HIDE DEF g
<1> DEFINE Good(i) == Sound(g[i]) /\ g[i].open = w.open \ (Upto(ps, i) \ {kept})
           S == {i \in 0..Len(ps) : Good(i)}
<1>5. 0 \in S
  <2>1. g[0] = w  BY <1>1, <1>2
  <2>2. Upto(ps, 0) = {}  BY DEF Upto
  <2> QED  BY <1>1, <2>1, <2>2
<1>6. ASSUME NEW i \in 0..Len(ps)-1, i \in S PROVE i+1 \in S
  <2>1. i+1 \in 1..Len(ps) /\ Good(i)  BY <1>1, <1>6
  <2>2. g[i+1] = ShellPopups!Close(g[i], Arg(i+1))  BY <1>1, <1>2, <2>1 DEF ClosePass
  <2>3. Sound(g[i+1]) /\ g[i+1].open = g[i].open \ {Arg(i+1)}
    <3>1. Arg(i+1) \in ShellPopups!Popups \cup {"nothing"} /\ Sound(g[i])  BY <1>4, <2>1
    <3> HIDE DEF Arg
    <3> QED  BY <2>2, <3>1, CloseSound
  <2>4. Upto(ps, i+1) = Upto(ps, i) \cup {ps[i+1]}  BY <1>1, <1>6 DEF Upto
  <2>5. "nothing" \notin g[i].open  BY <2>1, Layers DEF Sound, Firm, Ui
  <2>6. g[i+1].open = w.open \ (Upto(ps, i+1) \ {kept})  BY <2>1, <2>3, <2>4, <2>5
  <2> QED  BY <1>1, <2>1, <2>3, <2>6
<1>7. \A i \in 0..Len(ps) : i \in S
  <2> HIDE DEF S
  <2> QED  BY <1>1, <1>5, <1>6, UpTo
<1>8. Good(Len(ps))  BY <1>1, <1>7
<1> QED  BY <1>3, <1>8

LEMMA CloseAllSound ==
    ASSUME NEW w, Sound(w), NEW ps \in Seq(ShellPopups!Popups)
    PROVE  /\ Sound(ShellPopups!CloseAll(w, ps))
           /\ ShellPopups!CloseAll(w, ps).open = w.open \ Upto(ps, Len(ps))
<1>1. "nothing" \notin w.open  BY Layers DEF Sound, Firm, Ui
<1>2. /\ Sound(ShellPopups!CloseOthers(w, ps, "nothing"))
      /\ ShellPopups!CloseOthers(w, ps, "nothing").open = w.open \ (Upto(ps, Len(ps)) \ {"nothing"})
  BY CloseOthersSound
<1> QED  BY <1>1, <1>2 DEF ShellPopups!CloseAll

(* The lists the shell closes. *)
LEMMA CloseTwo ==
    ASSUME NEW w, Sound(w), NEW a \in ShellPopups!Popups, NEW b \in ShellPopups!Popups
    PROVE  Sound(ShellPopups!CloseAll(w, << a, b >>)) /\ ShellPopups!CloseAll(w, << a, b >>).open = w.open \ {a, b}
<1> DEFINE ps == << a, b >>
<1>1. ps \in Seq(ShellPopups!Popups)  OBVIOUS
<1>2. Upto(ps, Len(ps)) = {a, b}
  <2>1. Len(ps) = 2 /\ 1..2 = {1, 2}  OBVIOUS
  <2> QED  BY <2>1 DEF Upto
<1> HIDE DEF ps
<1>3. Sound(ShellPopups!CloseAll(w, ps)) /\ ShellPopups!CloseAll(w, ps).open = w.open \ Upto(ps, Len(ps))
  BY <1>1, CloseAllSound
<1> QED  BY <1>2, <1>3 DEF ps

LEMMA CloseThree ==
    ASSUME NEW w, Sound(w), NEW a \in ShellPopups!Popups, NEW b \in ShellPopups!Popups, NEW c \in ShellPopups!Popups
    PROVE  /\ Sound(ShellPopups!CloseAll(w, << a, b, c >>))
           /\ ShellPopups!CloseAll(w, << a, b, c >>).open = w.open \ {a, b, c}
<1> DEFINE ps == << a, b, c >>
<1>1. ps \in Seq(ShellPopups!Popups)  OBVIOUS
<1>2. Upto(ps, Len(ps)) = {a, b, c}
  <2>1. Len(ps) = 3 /\ 1..3 = {1, 2, 3}  OBVIOUS
  <2> QED  BY <2>1 DEF Upto
<1> HIDE DEF ps
<1>3. Sound(ShellPopups!CloseAll(w, ps)) /\ ShellPopups!CloseAll(w, ps).open = w.open \ Upto(ps, Len(ps))
  BY <1>1, CloseAllSound
<1> QED  BY <1>2, <1>3 DEF ps

LEMMA CloseFour ==
    ASSUME NEW w, Sound(w), NEW a \in ShellPopups!Popups, NEW b \in ShellPopups!Popups, NEW c \in ShellPopups!Popups,
           NEW d \in ShellPopups!Popups
    PROVE  /\ Sound(ShellPopups!CloseAll(w, << a, b, c, d >>))
           /\ ShellPopups!CloseAll(w, << a, b, c, d >>).open = w.open \ {a, b, c, d}
<1> DEFINE ps == << a, b, c, d >>
<1>1. ps \in Seq(ShellPopups!Popups)  OBVIOUS
<1>2. Upto(ps, Len(ps)) = {a, b, c, d}
  <2>1. Len(ps) = 4 /\ 1..4 = {1, 2, 3, 4}  OBVIOUS
  <2> QED  BY <2>1 DEF Upto
<1> HIDE DEF ps
<1>3. Sound(ShellPopups!CloseAll(w, ps)) /\ ShellPopups!CloseAll(w, ps).open = w.open \ Upto(ps, Len(ps))
  BY <1>1, CloseAllSound
<1> QED  BY <1>2, <1>3 DEF ps

LEMMA CloseFive ==
    ASSUME NEW w, Sound(w), NEW a \in ShellPopups!Popups, NEW b \in ShellPopups!Popups, NEW c \in ShellPopups!Popups,
           NEW d \in ShellPopups!Popups, NEW e \in ShellPopups!Popups
    PROVE  /\ Sound(ShellPopups!CloseAll(w, << a, b, c, d, e >>))
           /\ ShellPopups!CloseAll(w, << a, b, c, d, e >>).open = w.open \ {a, b, c, d, e}
<1> DEFINE ps == << a, b, c, d, e >>
<1>1. ps \in Seq(ShellPopups!Popups)  OBVIOUS
<1>2. Upto(ps, Len(ps)) = {a, b, c, d, e}
  <2>1. Len(ps) = 5 /\ 1..5 = {1, 2, 3, 4, 5}  OBVIOUS
  <2> QED  BY <2>1 DEF Upto
<1> HIDE DEF ps
<1>3. Sound(ShellPopups!CloseAll(w, ps)) /\ ShellPopups!CloseAll(w, ps).open = w.open \ Upto(ps, Len(ps))
  BY <1>1, CloseAllSound
<1> QED  BY <1>2, <1>3 DEF ps

(* The surfaces and popups by name. *)
LEMMA Names ==
    /\ { "launcher", "calendar", "workspace", "network", "audio", "osd", "sni", "consent", "wifi",
         "region", "thumbnail", "menu" } = ShellPopups!Popups
    /\ { "launcher", "calendar", "workspace", "consent", "wifi", "region", "thumbnail", "menu",
         "shared", "notification" } = ShellPopups!Surfaces
    /\ { "network", "audio", "osd", "sni" } = ShellPopups!Tenants
    /\ ShellPopups!Popups \cup ShellPopups!Surfaces \cup { "full", "sni padded" } = Sizes \ {"unset"}
<1>1. ShellPopups!Tenants = { "network", "audio", "osd", "sni" }  BY DEF ShellPopups!Tenants
<1>2. ShellPopups!Popups = { "launcher", "calendar", "workspace", "network", "audio", "osd", "sni", "consent",
                    "wifi", "region", "thumbnail", "menu" }
  BY <1>1 DEF ShellPopups!Popups, ShellPopups!Modals
<1>3. ShellPopups!Surfaces = { "launcher", "calendar", "workspace", "consent", "wifi", "region", "thumbnail",
                      "menu", "shared", "notification" }
  BY <1>1, <1>2 DEF ShellPopups!Surfaces
<1> QED  BY <1>1, <1>2, <1>3 DEF Sizes
-----------------------------------------------------------------------------
(* Opening.                                                                *)

LEMMA OpenLauncherSound ==
    ASSUME NEW w, Sound(w)
    PROVE  /\ Sound(ShellPopups!OpenLauncher(w))
           /\ ShellPopups!OpenLauncher(w).open =
                (w.open \ { "calendar", "workspace", "network", "audio" }) \cup {"launcher"}
<1> DEFINE shut == ShellPopups!CloseAll(w, << "calendar", "workspace", "network", "audio" >>)
           wide == [shut EXCEPT !.full = TRUE, !.configured = @ \ {"launcher"}]
           full == ShellPopups!Ask(wide, "launcher", "full")
           up   == ShellPopups!Opened(full, "launcher")
<1>0. ShellPopups!OpenLauncher(w) = ShellPopups!Commit(up, "launcher")  BY DEF ShellPopups!OpenLauncher
<1>1. Sound(shut) /\ shut.open = w.open \ { "calendar", "workspace", "network", "audio" }
  <2>1. /\ "calendar" \in ShellPopups!Popups /\ "workspace" \in ShellPopups!Popups
        /\ "network" \in ShellPopups!Popups /\ "audio" \in ShellPopups!Popups
    BY Names
  <2> QED  BY <2>1, CloseFour
<1> HIDE DEF shut
<1>2. shut \in Ui  BY <1>1 DEF Sound, Firm
<1>3. /\ wide \in Ui /\ wide.open = shut.open /\ wide.notes = shut.notes /\ wide.srf = shut.srf
      /\ wide.err = shut.err /\ wide.configured = shut.configured \ {"launcher"}
  BY <1>2 DEF Ui
<1> HIDE DEF wide
<1>4. Sound(wide)
  <2>1. Firm(wide) /\ SharedReady(wide)  BY <1>1, <1>3 DEF Sound, Firm, SharedReady
  <2>2. Clear(wide)  BY <1>1, <1>3 DEF Sound, Clear, WantedIn
  <2> QED  BY <2>1, <2>2 DEF Sound
<1>5. Sound(full) /\ SameShell(wide, full)  BY <1>4, AskSound, Names
<1> HIDE DEF full
<1>6. Sound(up) /\ up.open = full.open \cup {"launcher"}  BY <1>5, OpenedSound, Names
<1> HIDE DEF up
<1>7. Sound(ShellPopups!Commit(up, "launcher")) /\ SameShell(up, ShellPopups!Commit(up, "launcher"))
  BY <1>6, CommitSound, Names
<1> QED  BY <1>0, <1>1, <1>3, <1>5, <1>6, <1>7 DEF SameShell

(* A popup opens on a surface of its own: it is asked for once it is open. *)
LEMMA OwnSound ==
    ASSUME NEW w, Sound(w), NEW p \in ShellPopups!Popups \ ShellPopups!Tenants
    PROVE  /\ Sound(ShellPopups!Ask(ShellPopups!Opened(w, p), p, p))
           /\ ShellPopups!Ask(ShellPopups!Opened(w, p), p, p).open = w.open \cup {p}
<1>1. p \in ShellPopups!Popups /\ p \in ShellPopups!Surfaces /\ p \in Sizes \ {"unset"}  BY Names
<1>2. Sound(ShellPopups!Opened(w, p)) /\ ShellPopups!Opened(w, p).open = w.open \cup {p}  BY <1>1, OpenedSound
<1> DEFINE u == ShellPopups!Opened(w, p)
<1> HIDE DEF u
<1>3. Sound(u) => Sound(ShellPopups!Ask(u, p, p)) /\ SameShell(u, ShellPopups!Ask(u, p, p))  BY <1>1, AskSound
<1> QED  BY <1>2, <1>3 DEF u, SameShell

LEMMA TenancySound ==
    ASSUME NEW w, Sound(w), NEW p \in ShellPopups!Tenants
    PROVE  Sound(ShellPopups!Tenancy(w, p)) /\ ShellPopups!Tenancy(w, p).open = w.open \cup {p}
<1> DEFINE u == ShellPopups!Opened(w, p)
           asked == ShellPopups!Ask(u, "shared", p)
<1>1. p \in ShellPopups!Popups /\ "shared" \in ShellPopups!Surfaces /\ p \in Sizes \ {"unset"}  BY Names
<1>2. Sound(u) /\ u.open = w.open \cup {p}  BY <1>1, OpenedSound
<1> HIDE DEF u
<1>3. Sound(asked) /\ SameShell(u, asked)  BY <1>1, <1>2, AskSound
<1>4. ShellPopups!Tenancy(w, p) \in { asked, ShellPopups!Commit(asked, "shared") }  BY DEF ShellPopups!Tenancy, u
<1> HIDE DEF asked
<1>5. Sound(ShellPopups!Commit(asked, "shared")) /\ SameShell(asked, ShellPopups!Commit(asked, "shared"))
  BY <1>1, <1>3, CommitSound
<1> QED  BY <1>2, <1>3, <1>4, <1>5 DEF SameShell

Five == { "launcher", "calendar", "workspace", "network", "audio" }

\* Of these five at most one is open.
AtMostOne(w) == \A p, q \in Five \cap w.open : p = q

Good(w) == Sound(w) /\ AtMostOne(w)

LEMMA FewerGood == ASSUME NEW w, NEW v, AtMostOne(w), Five \cap v.open \subseteq w.open PROVE AtMostOne(v)
BY DEF AtMostOne

LEMMA CloseGood ==
    ASSUME NEW w, Good(w), NEW p \in ShellPopups!Popups
    PROVE  Good(ShellPopups!Close(w, p)) /\ ShellPopups!Close(w, p).open = w.open \ {p}
<1>1. Sound(ShellPopups!Close(w, p)) /\ ShellPopups!Close(w, p).open = w.open \ {p}  BY CloseSound DEF Good
<1> QED  BY <1>1, FewerGood DEF Good

LEMMA DrawGood ==
    ASSUME NEW w, Good(w), NEW p \in ShellPopups!Popups
    PROVE  Good(ShellPopups!Draw(w, p)) /\ ShellPopups!Draw(w, p).open = w.open
<1>1. Sound(ShellPopups!Draw(w, p)) /\ SameShell(w, ShellPopups!Draw(w, p))  BY DrawSound DEF Good
<1> QED  BY <1>1, FewerGood DEF Good, SameShell

LEMMA OnlyOne ==
    ASSUME NEW v, NEW p, Sound(v), Five \cap v.open \subseteq {p} PROVE Good(v)
BY DEF Good, AtMostOne

LEMMA SameGood ==
    ASSUME NEW w, NEW v, Good(w), Sound(v), SameShell(w, v) PROVE Good(v)
BY FewerGood DEF Good, SameShell

(* toggle_launcher hides what its caller then unmaps. *)
LEMMA HideIs ==
    ASSUME NEW w, Good(w)
    PROVE  /\ Firm(ShellPopups!HideLauncher(w)) /\ SharedReady(ShellPopups!HideLauncher(w))
           /\ ClearBut(ShellPopups!HideLauncher(w), "launcher")
           /\ AtMostOne(ShellPopups!HideLauncher(w))
           /\ ShellPopups!HideLauncher(w).open = w.open \ {"launcher"}
<1> DEFINE v == ShellPopups!HideLauncher(w)
<1>0. ShellPopups!Layer("launcher") = "launcher"  BY Names DEF ShellPopups!Layer
<1>1. w \in Ui  BY DEF Good, Sound, Firm
<1>2. /\ v \in Ui /\ v.open = w.open \ {"launcher"} /\ v.notes = w.notes
      /\ v.configured = w.configured /\ v.srf = w.srf /\ v.err = w.err
  BY <1>1 DEF Ui, ShellPopups!HideLauncher
<1> HIDE DEF v
<1>3. Firm(v) /\ SharedReady(v)  BY <1>2 DEF Firm, SharedReady, Sound, Good
<1>4. ClearBut(v, "launcher")  BY <1>0, <1>2 DEF Good, Sound, Clear, ClearBut, WantedIn
<1>5. AtMostOne(v)  BY <1>2, FewerGood DEF Good
<1> QED  BY <1>2, <1>3, <1>4, <1>5 DEF v

LEMMA UnmapLauncher ==
    ASSUME NEW w, Firm(w), SharedReady(w), ClearBut(w, "launcher"), AtMostOne(w)
    PROVE  Good(ShellPopups!Detach(w, "launcher"))
<1>1. "launcher" \in ShellPopups!Surfaces /\ "launcher" # "shared"  BY Names
<1>2. /\ Sound(ShellPopups!Detach(w, "launcher"))
      /\ SameShell(w, ShellPopups!Detach(w, "launcher"))
  BY <1>1, DetachSound
<1> QED  BY <1>2, FewerGood DEF Good, SameShell

LEMMA OpenLauncherGood ==
    ASSUME NEW w, Sound(w) PROVE Good(ShellPopups!OpenLauncher(w))
<1> DEFINE v == ShellPopups!OpenLauncher(w)
<1>1. Sound(v) /\ v.open = (w.open \ { "calendar", "workspace", "network", "audio" }) \cup {"launcher"}
  BY OpenLauncherSound
<1> HIDE DEF v
<1>2. Five \cap v.open \subseteq {"launcher"}  BY <1>1 DEF Five
<1> QED  BY <1>1, <1>2, OnlyOne DEF v

LEMMA PanelTogglesLauncherGood ==
    ASSUME NEW w, Good(w) PROVE Good(ShellPopups!PanelTogglesLauncher(w))
<1>1. CASE "launcher" \in w.open
  <2> DEFINE v == ShellPopups!HideLauncher(w)
  <2>1. Firm(v) /\ SharedReady(v) /\ ClearBut(v, "launcher") /\ AtMostOne(v)  BY HideIs
  <2>2. ShellPopups!PanelTogglesLauncher(w) = ShellPopups!Detach(v, "launcher")
    BY <1>1 DEF ShellPopups!PanelTogglesLauncher
  <2> HIDE DEF v
  <2> QED  BY <2>1, <2>2, UnmapLauncher
<1>2. CASE "launcher" \notin w.open
  <2> DEFINE v == ShellPopups!OpenLauncher(w)
  <2>1. Good(v)  BY OpenLauncherGood DEF Good
  <2>2. ShellPopups!PanelTogglesLauncher(w) = ShellPopups!Draw(v, "launcher")
    BY <1>2 DEF ShellPopups!PanelTogglesLauncher, ShellPopups!DrawLauncher
  <2> HIDE DEF v
  <2> QED  BY <2>1, <2>2, DrawGood, Names
<1> QED  BY <1>1, <1>2

(* The calendar and the workspace popup leave the audio popup to the press before them. *)
LEMMA ToggleCalendarGood ==
    ASSUME NEW w, Good(w), Five \cap w.open \subseteq {"calendar"}
    PROVE  Good(ShellPopups!ToggleCalendar(w))
<1>0. /\ "calendar" \in ShellPopups!Popups \ ShellPopups!Tenants /\ "network" \in ShellPopups!Popups
      /\ "workspace" \in ShellPopups!Popups /\ "launcher" \in ShellPopups!Popups
  BY Names
<1>1. CASE "calendar" \in w.open
  <2>1. ShellPopups!ToggleCalendar(w) = ShellPopups!Close(w, "calendar")
    BY <1>1 DEF ShellPopups!ToggleCalendar
  <2> QED  BY <1>0, <2>1, CloseGood
<1>2. CASE "calendar" \notin w.open
  <2> DEFINE shut == ShellPopups!CloseAll(w, << "network", "workspace", "launcher" >>)
             v == ShellPopups!Ask(ShellPopups!Opened(shut, "calendar"), "calendar", "calendar")
  <2>1. Sound(shut) /\ shut.open = w.open \ { "network", "workspace", "launcher" }
    BY <1>0, CloseThree DEF Good
  <2>2. ShellPopups!ToggleCalendar(w) = v  BY <1>2 DEF ShellPopups!ToggleCalendar
  <2> HIDE DEF shut
  <2>3. Sound(v) /\ v.open = shut.open \cup {"calendar"}  BY <1>0, <2>1, OwnSound
  <2> HIDE DEF v
  <2>4. Five \cap v.open \subseteq {"calendar"}  BY <2>1, <2>3
  <2> QED  BY <2>2, <2>3, <2>4, OnlyOne
<1> QED  BY <1>1, <1>2

LEMMA ToggleWorkspaceGood ==
    ASSUME NEW w, Good(w), Five \cap w.open \subseteq {"workspace"}
    PROVE  Good(ShellPopups!ToggleWorkspace(w))
<1>0. /\ "workspace" \in ShellPopups!Popups \ ShellPopups!Tenants /\ "launcher" \in ShellPopups!Popups
      /\ "calendar" \in ShellPopups!Popups /\ "network" \in ShellPopups!Popups
  BY Names
<1>1. CASE "workspace" \in w.open
  <2>1. ShellPopups!ToggleWorkspace(w) = ShellPopups!Close(w, "workspace")
    BY <1>1 DEF ShellPopups!ToggleWorkspace
  <2> QED  BY <1>0, <2>1, CloseGood
<1>2. CASE "workspace" \notin w.open
  <2> DEFINE shut == ShellPopups!CloseAll(w, << "launcher", "calendar", "network" >>)
             v == ShellPopups!Ask(ShellPopups!Opened(shut, "workspace"), "workspace", "workspace")
  <2>1. Sound(shut) /\ shut.open = w.open \ { "launcher", "calendar", "network" }
    BY <1>0, CloseThree DEF Good
  <2>2. ShellPopups!ToggleWorkspace(w) = v  BY <1>2 DEF ShellPopups!ToggleWorkspace
  <2> HIDE DEF shut
  <2>3. Sound(v) /\ v.open = shut.open \cup {"workspace"}  BY <1>0, <2>1, OwnSound
  <2> HIDE DEF v
  <2>4. Five \cap v.open \subseteq {"workspace"}  BY <2>1, <2>3
  <2> QED  BY <2>2, <2>3, <2>4, OnlyOne
<1> QED  BY <1>1, <1>2

LEMMA ToggleNetworkGood ==
    ASSUME NEW w, Good(w) PROVE Good(ShellPopups!ToggleNetwork(w))
<1>0. /\ "network" \in ShellPopups!Popups /\ "network" \in ShellPopups!Tenants
      /\ "osd" \in ShellPopups!Popups /\ "launcher" \in ShellPopups!Popups
      /\ "calendar" \in ShellPopups!Popups /\ "workspace" \in ShellPopups!Popups
      /\ "audio" \in ShellPopups!Popups
  BY Names
<1>1. CASE "network" \in w.open
  <2>1. ShellPopups!ToggleNetwork(w) = ShellPopups!Close(w, "network")
    BY <1>1 DEF ShellPopups!ToggleNetwork
  <2> QED  BY <1>0, <2>1, CloseGood
<1>2. CASE "network" \notin w.open
  <2> DEFINE shut == ShellPopups!CloseAll(w, << "osd", "launcher", "calendar", "workspace", "audio" >>)
             v == ShellPopups!Tenancy(shut, "network")
  <2>1. Sound(shut) /\ shut.open = w.open \ { "osd", "launcher", "calendar", "workspace", "audio" }
    BY <1>0, CloseFive DEF Good
  <2>2. ShellPopups!ToggleNetwork(w) = v  BY <1>2 DEF ShellPopups!ToggleNetwork
  <2> HIDE DEF shut
  <2>3. Sound(v) /\ v.open = shut.open \cup {"network"}  BY <1>0, <2>1, TenancySound
  <2> HIDE DEF v
  <2>4. Five \cap v.open \subseteq {"network"}  BY <2>1, <2>3 DEF Five
  <2> QED  BY <2>2, <2>3, <2>4, OnlyOne
<1> QED  BY <1>1, <1>2

LEMMA ToggleAudioGood ==
    ASSUME NEW w, Good(w) PROVE Good(ShellPopups!ToggleAudio(w))
<1>0. /\ "audio" \in ShellPopups!Popups /\ "audio" \in ShellPopups!Tenants
      /\ "osd" \in ShellPopups!Popups /\ "launcher" \in ShellPopups!Popups
      /\ "calendar" \in ShellPopups!Popups /\ "workspace" \in ShellPopups!Popups
      /\ "network" \in ShellPopups!Popups
  BY Names
<1>1. CASE "audio" \in w.open
  <2>1. ShellPopups!ToggleAudio(w) = ShellPopups!Close(w, "audio")
    BY <1>1 DEF ShellPopups!ToggleAudio
  <2> QED  BY <1>0, <2>1, CloseGood
<1>2. CASE "audio" \notin w.open
  <2> DEFINE shut == ShellPopups!CloseAll(w, << "osd", "launcher", "calendar", "workspace", "network" >>)
             v == ShellPopups!Tenancy(shut, "audio")
  <2>1. Sound(shut) /\ shut.open = w.open \ { "osd", "launcher", "calendar", "workspace", "network" }
    BY <1>0, CloseFive DEF Good
  <2>2. ShellPopups!ToggleAudio(w) = v  BY <1>2 DEF ShellPopups!ToggleAudio
  <2> HIDE DEF shut
  <2>3. Sound(v) /\ v.open = shut.open \cup {"audio"}  BY <1>0, <2>1, TenancySound
  <2> HIDE DEF v
  <2>4. Five \cap v.open \subseteq {"audio"}  BY <2>1, <2>3 DEF Five
  <2> QED  BY <2>2, <2>3, <2>4, OnlyOne
<1> QED  BY <1>1, <1>2

LEMMA ShowOsdGood ==
    ASSUME NEW w, Good(w) PROVE Good(ShellPopups!ShowOsd(w))
<1> DEFINE shut == ShellPopups!CloseAll(w, << "audio", "network" >>)
           v == IF "osd" \in w.open THEN shut ELSE ShellPopups!Tenancy(shut, "osd")
<1>0. /\ "audio" \in ShellPopups!Popups /\ "network" \in ShellPopups!Popups
      /\ "osd" \in ShellPopups!Popups /\ "osd" \in ShellPopups!Tenants
  BY Names
<1>1. Sound(shut) /\ shut.open = w.open \ { "audio", "network" }  BY <1>0, CloseTwo DEF Good
<1>2. ShellPopups!ShowOsd(w) = ShellPopups!Draw(v, "osd")
  BY DEF ShellPopups!ShowOsd, ShellPopups!DrawOsd
<1> HIDE DEF shut
<1>3. Sound(ShellPopups!Tenancy(shut, "osd")) /\ ShellPopups!Tenancy(shut, "osd").open = shut.open \cup {"osd"}
  BY <1>0, <1>1, TenancySound
<1>4. Sound(v) /\ v.open \subseteq w.open \cup {"osd"}  BY <1>1, <1>3
<1> HIDE DEF v
<1>5. Five \cap v.open \subseteq w.open  BY <1>4 DEF Five
<1>6. Good(v)  BY <1>4, <1>5, FewerGood DEF Good
<1> QED  BY <1>0, <1>2, <1>6, DrawGood

LEMMA OpenSniMenuGood ==
    ASSUME NEW w, Good(w) PROVE Good(ShellPopups!OpenSniMenu(w))
<1> DEFINE shut == ShellPopups!CloseAll(w, << "launcher", "calendar", "workspace", "network", "audio" >>)
           v == ShellPopups!Tenancy(shut, "sni")
<1>0. /\ "launcher" \in ShellPopups!Popups /\ "calendar" \in ShellPopups!Popups
      /\ "workspace" \in ShellPopups!Popups /\ "network" \in ShellPopups!Popups
      /\ "audio" \in ShellPopups!Popups
      /\ "sni" \in ShellPopups!Popups /\ "sni" \in ShellPopups!Tenants
  BY Names
<1>1. Sound(shut) /\ shut.open = w.open \ { "launcher", "calendar", "workspace", "network", "audio" }
  BY <1>0, CloseFive DEF Good
<1>2. ShellPopups!OpenSniMenu(w) = ShellPopups!Draw(v, "sni")
  BY DEF ShellPopups!OpenSniMenu, ShellPopups!DrawSni
<1> HIDE DEF shut
<1>3. Sound(v) /\ v.open = shut.open \cup {"sni"}  BY <1>0, <1>1, TenancySound
<1> HIDE DEF v
<1>4. Five \cap v.open \subseteq w.open  BY <1>1, <1>3 DEF Five
<1>5. Good(v)  BY <1>3, <1>4, FewerGood DEF Good
<1> QED  BY <1>0, <1>2, <1>5, DrawGood

LEMMA OpenSettingsGood ==
    ASSUME NEW w, Good(w) PROVE Good(ShellPopups!OpenSettings(w))
<1> DEFINE shut == ShellPopups!CloseAll(w, << "calendar", "workspace", "network", "audio" >>)
           v == IF "launcher" \in w.open THEN shut ELSE ShellPopups!OpenLauncher(shut)
<1>0. /\ "launcher" \in ShellPopups!Popups /\ "calendar" \in ShellPopups!Popups
      /\ "workspace" \in ShellPopups!Popups /\ "network" \in ShellPopups!Popups
      /\ "audio" \in ShellPopups!Popups
  BY Names
<1>1. Sound(shut) /\ shut.open = w.open \ { "calendar", "workspace", "network", "audio" }
  BY <1>0, CloseFour DEF Good
<1>2. ShellPopups!OpenSettings(w) = ShellPopups!Draw(v, "launcher")
  BY DEF ShellPopups!OpenSettings, ShellPopups!DrawLauncher
<1> HIDE DEF shut
<1>3. Good(shut)  BY <1>1, FewerGood DEF Good
<1>4. Good(v)  BY <1>1, <1>3, OpenLauncherGood
<1> HIDE DEF v
<1> QED  BY <1>0, <1>2, <1>4, DrawGood

(* The modals and the menu, on surfaces of their own. *)
LEMMA OwnGood ==
    ASSUME NEW w, Good(w), NEW p \in { "menu", "consent", "wifi", "region", "thumbnail" }
    PROVE  Good(ShellPopups!Ask(ShellPopups!Opened(w, p), p, p))
<1> DEFINE v == ShellPopups!Ask(ShellPopups!Opened(w, p), p, p)
<1>1. p \in ShellPopups!Popups \ ShellPopups!Tenants  BY Names
<1>2. Sound(v) /\ v.open = w.open \cup {p}  BY <1>1, OwnSound DEF Good
<1> HIDE DEF v
<1>3. Five \cap v.open \subseteq w.open  BY <1>2 DEF Five
<1> QED  BY <1>2, <1>3, FewerGood DEF Good, v

LEMMA OpenWifiModalGood ==
    ASSUME NEW w, Good(w) PROVE Good(ShellPopups!OpenWifiModal(w))
<1> DEFINE u == ShellPopups!Close(w, "network")
           v == ShellPopups!Ask(ShellPopups!Opened(u, "wifi"), "wifi", "wifi")
<1>0. "network" \in ShellPopups!Popups /\ "wifi" \in ShellPopups!Popups  BY Names
<1>1. Good(u)  BY <1>0, CloseGood
<1>2. ShellPopups!OpenWifiModal(w) = ShellPopups!Draw(v, "wifi")
  BY DEF ShellPopups!OpenWifiModal, ShellPopups!DrawWifi
<1> HIDE DEF u
<1>3. Good(v)  BY <1>1, OwnGood
<1> HIDE DEF v
<1> QED  BY <1>0, <1>2, <1>3, DrawGood
-----------------------------------------------------------------------------
(* The events.                                                             *)

(* A configure is read and acknowledged before anything is drawn. *)
LEMMA ReadIs ==
    ASSUME NEW w, Good(w), NEW s \in ShellPopups!Surfaces
    PROVE  Good([w EXCEPT !.srf[s].coming = @ - 1, !.srf[s].acked = TRUE,
                          !.configured = @ \cup {s}])
<1> DEFINE new == [w.srf[s] EXCEPT !.coming = @ - 1, !.acked = TRUE]
           u == [w EXCEPT !.srf = [w.srf EXCEPT ![s] = new]]
           v == [u EXCEPT !.configured = w.configured \cup {s}]
           r == [w EXCEPT !.srf[s].coming = @ - 1, !.srf[s].acked = TRUE,
                          !.configured = @ \cup {s}]
<1>0. w \in Ui /\ w.srf[s] \in Surface  BY DEF Good, Sound, Firm, Ui
<1>1. r = v  BY <1>0 DEF Ui, Surface
<1>2. /\ new \in Surface /\ new.mapped = w.srf[s].mapped
      /\ new.acked /\ new.asked = w.srf[s].asked
  <2>1. w.srf[s].coming - 1 \in Int  BY <1>0 DEF Surface
  <2> QED  BY <1>0, <2>1, Acknowledged
<1> HIDE DEF new
<1>3. Like(w, u, s) /\ u.srf[s] = new
  BY <1>2, SurfaceSet DEF Good, Sound, Firm
<1> HIDE DEF u
<1>4. /\ v \in Ui /\ v.open = u.open /\ v.notes = u.notes /\ v.srf = u.srf /\ v.err = u.err
      /\ v.configured = w.configured \cup {s}
  BY <1>0, <1>3 DEF Like, Firm, Ui
<1> HIDE DEF v, r
<1>5. Firm(v)  BY <1>3, <1>4 DEF Like, Firm
<1>6. SharedReady(v)
  BY <1>2, <1>3, <1>4, Names DEF SharedReady, Like, Elsewhere, Good, Sound
<1>7. Clear(v)
  <2>1. \A q \in ShellPopups!Surfaces : v.srf[q].mapped = w.srf[q].mapped
    BY <1>2, <1>3, <1>4 DEF Like, Elsewhere
  <2>2. v.open = w.open /\ v.notes = w.notes  BY <1>3, <1>4 DEF Like, SameShell
  <2> QED  BY <2>1, <2>2 DEF Clear, WantedIn, Good, Sound
<1>8. AtMostOne(v)
  BY <1>3, <1>4, FewerGood DEF Like, SameShell, Good
<1> QED  BY <1>1, <1>5, <1>6, <1>7, <1>8 DEF Good, Sound, r

(* The size it is asked for again is a size, whatever the thumbnail had asked for. *)
LEMMA ReassertedIs ==
    ASSUME NEW w, NEW v, Good(w), Good(v), NEW s \in ShellPopups!Surfaces,
           v.srf[s].asked = w.srf[s].asked
    PROVE  /\ ShellPopups!Reasserted(w, s) \in Sizes
           /\ v.srf[s].mapped => ShellPopups!Reasserted(w, s) # "unset"
<1> DEFINE size == ShellPopups!Reasserted(w, s)
<1>0. { "full", "sni padded", "launcher", "sni", "osd", "audio", "network" } \subseteq Sizes \ {"unset"}
  BY Names
<1>1. CASE s = "launcher"
  <2>1. size \in { "full", "launcher" }  BY <1>1 DEF ShellPopups!Reasserted
  <2> QED  BY <1>0, <2>1
<1>2. CASE s = "shared"
  <2>1. ShellPopups!Shown(w) \in { "sni", "osd", "audio", "network" }  BY DEF ShellPopups!Shown
  <2>2. size \in { "sni padded", ShellPopups!Shown(w) }  BY <1>2 DEF ShellPopups!Reasserted
  <2> QED  BY <1>0, <2>1, <2>2
<1>3. CASE s = "thumbnail"
  <2>1. size = v.srf[s].asked  BY <1>3 DEF ShellPopups!Reasserted
  <2>2. size \in Sizes  BY <2>1 DEF Good, Sound, Firm, Ui, Surface
  <2> QED  BY <2>1, <2>2 DEF Good, Sound, Firm
<1>4. CASE s \notin { "launcher", "shared", "thumbnail" }
  <2>1. size = s  BY <1>4 DEF ShellPopups!Reasserted
  <2>2. s \in Sizes \ {"unset"}  BY Names
  <2> QED  BY <2>1, <2>2
<1> QED  BY <1>1, <1>2, <1>3, <1>4

LEMMA DrawOnGood ==
    ASSUME NEW w, Good(w), NEW s \in ShellPopups!Surfaces PROVE Good(ShellPopups!DrawOn(w, s))
<1>1. CASE s = "shared"
  <2>1. /\ "sni" \in ShellPopups!Popups /\ "osd" \in ShellPopups!Popups
        /\ "audio" \in ShellPopups!Popups /\ "network" \in ShellPopups!Popups
    BY Names
  <2>2. ShellPopups!Shown(w) \in { "sni", "osd", "audio", "network" }  BY DEF ShellPopups!Shown
  <2>3. ShellPopups!DrawOn(w, s) = ShellPopups!DrawShared(w)  BY <1>1 DEF ShellPopups!DrawOn
  <2>4. ShellPopups!DrawShared(w) = ShellPopups!Draw(w, ShellPopups!Shown(w))
    BY <2>2 DEF ShellPopups!DrawShared, ShellPopups!DrawSni, ShellPopups!DrawOsd,
                ShellPopups!DrawAudio, ShellPopups!DrawNetwork
  <2>5. ShellPopups!Shown(w) \in ShellPopups!Popups  BY <2>1, <2>2
  <2> QED  BY <2>3, <2>4, <2>5, DrawGood
<1>2. CASE s = "notification"
  <2>1. ShellPopups!DrawOn(w, s) = ShellPopups!DrawNotification(w)  BY <1>2 DEF ShellPopups!DrawOn
  <2>2. Firm(w) /\ SharedReady(w) /\ ClearBut(w, "notification")
    BY DEF Good, Sound, Clear, ClearBut
  <2> QED  BY <2>1, <2>2, NotificationSound, SameGood
<1>3. CASE s \notin { "shared", "notification" }
  <2>1. ShellPopups!DrawOn(w, s) = ShellPopups!Draw(w, s)  BY <1>3 DEF ShellPopups!DrawOn
  <2>2. s \in ShellPopups!Popups  BY <1>3, Names
  <2> QED  BY <2>1, <2>2, DrawGood
<1> QED  BY <1>1, <1>2, <1>3

LEMMA ConfiguredGood ==
    ASSUME NEW w, Good(w), NEW s \in ShellPopups!Surfaces PROVE Good(ShellPopups!Configured(w, s))
<1> DEFINE r == [w EXCEPT !.srf[s].coming = @ - 1, !.srf[s].acked = TRUE,
                          !.configured = @ \cup {s}]
           size == ShellPopups!Reasserted(w, s)
           v == ShellPopups!Ask(r, s, size)
<1>1. Good(r)  BY ReadIs
<1>2. r.srf[s].asked = w.srf[s].asked  BY DEF Good, Sound, Firm, Ui, Surface
<1>3. ShellPopups!Configured(w, s) = ShellPopups!DrawOn(v, s)  BY DEF ShellPopups!Configured
<1> HIDE DEF r
<1>4. size \in Sizes /\ (r.srf[s].mapped => size # "unset")  BY <1>1, <1>2, ReassertedIs
<1> HIDE DEF size
<1>5. Like(r, v, s) /\ v.srf[s].mapped = r.srf[s].mapped /\ v.srf[s].acked = r.srf[s].acked
  BY <1>1, <1>4, AskIs DEF Good, Sound
<1> HIDE DEF v
<1>6. ClearBut(r, s) /\ SharedReady(r) /\ (r.srf[s].mapped => WantedIn(r, s))
  BY <1>1 DEF Good, Sound, Clear, ClearBut
<1>7. Sound(v)  BY <1>5, <1>6, StaysSound
<1>8. Good(v)  BY <1>1, <1>5, <1>7, SameGood DEF Like
<1> QED  BY <1>3, <1>8, DrawOnGood

(* A press closes what is open; a zone of the panel closes all but its own popup. *)
LEMMA PressedIs ==
    ASSUME NEW w, Good(w), NEW kept
    PROVE  /\ Good(ShellPopups!Pressed(w, kept))
           /\ ShellPopups!Pressed(w, kept).open =
                w.open \ ({ "workspace", "network", "audio", "sni", "launcher" } \ {kept})
<1> DEFINE ps == << "workspace", "network", "audio", "sni", "launcher" >>
<1>1. ps \in Seq(ShellPopups!Popups)
  <2>1. /\ "launcher" \in ShellPopups!Popups /\ "sni" \in ShellPopups!Popups
        /\ "workspace" \in ShellPopups!Popups /\ "network" \in ShellPopups!Popups
        /\ "audio" \in ShellPopups!Popups
    BY Names
  <2> QED  BY <2>1
<1>2. Upto(ps, Len(ps)) = { "workspace", "network", "audio", "sni", "launcher" }
  <2>1. Len(ps) = 5 /\ 1..5 = {1, 2, 3, 4, 5}  OBVIOUS
  <2> QED  BY <2>1 DEF Upto
<1>3. ShellPopups!Pressed(w, kept) = ShellPopups!CloseOthers(w, ps, kept)  BY DEF ShellPopups!Pressed
<1> HIDE DEF ps
<1> DEFINE v == ShellPopups!CloseOthers(w, ps, kept)
<1>4. Sound(v) /\ v.open = w.open \ (Upto(ps, Len(ps)) \ {kept})
  BY <1>1, CloseOthersSound DEF Good
<1> HIDE DEF v
<1>5. Good(v)  BY <1>4, FewerGood DEF Good
<1> QED  BY <1>2, <1>3, <1>4, <1>5 DEF v

LEMMA ClosedForZone ==
    ASSUME NEW w, Good(w), NEW p
    PROVE  LET shut == ShellPopups!CloseOthers(ShellPopups!Pressed(w, p),
                         << "calendar", "workspace", "network", "audio" >>, p)
           IN  Good(shut) /\ Five \cap shut.open \subseteq {p}
<1> DEFINE ps == << "calendar", "workspace", "network", "audio" >>
           u == ShellPopups!Pressed(w, p)
<1>1. ps \in Seq(ShellPopups!Popups)
  <2>1. /\ "calendar" \in ShellPopups!Popups /\ "workspace" \in ShellPopups!Popups
        /\ "network" \in ShellPopups!Popups /\ "audio" \in ShellPopups!Popups
    BY Names
  <2> QED  BY <2>1
<1>2. Upto(ps, Len(ps)) = { "calendar", "workspace", "network", "audio" }
  <2>1. Len(ps) = 4 /\ 1..4 = {1, 2, 3, 4}  OBVIOUS
  <2> QED  BY <2>1 DEF Upto
<1>3. /\ Good(u)
      /\ u.open = w.open \ ({ "workspace", "network", "audio", "sni", "launcher" } \ {p})
  BY PressedIs
<1> HIDE DEF ps, u
<1> DEFINE v == ShellPopups!CloseOthers(u, ps, p)
<1>4. Sound(v) /\ v.open = u.open \ (Upto(ps, Len(ps)) \ {p})
  BY <1>1, <1>3, CloseOthersSound DEF Good
<1> HIDE DEF v
<1>5. Five \cap v.open \subseteq {p}  BY <1>2, <1>3, <1>4 DEF Five
<1>6. Good(v)  BY <1>4, <1>5, OnlyOne
<1> QED  BY <1>5, <1>6 DEF v, u, ps

LEMMA PanelClickGood ==
    ASSUME NEW w, Good(w),
           NEW p \in { "launcher", "workspace", "network", "audio", "calendar", "osd", "region" }
    PROVE  Good(ShellPopups!PanelClick(w, p))
<1> DEFINE shut == ShellPopups!CloseOthers(ShellPopups!Pressed(w, p),
                     << "calendar", "workspace", "network", "audio" >>, p)
           v == ShellPopups!PanelClick(w, p)
<1>0. /\ "workspace" \in ShellPopups!Popups /\ "network" \in ShellPopups!Popups
      /\ "audio" \in ShellPopups!Popups /\ "calendar" \in ShellPopups!Popups
      /\ "region" \in ShellPopups!Popups
  BY Names
<1>1. Good(shut) /\ Five \cap shut.open \subseteq {p}  BY ClosedForZone
<1>2. /\ p = "launcher"  => v = ShellPopups!PanelTogglesLauncher(shut)
      /\ p = "workspace" => v = ShellPopups!Draw(ShellPopups!ToggleWorkspace(shut), "workspace")
      /\ p = "network"   => v = ShellPopups!Draw(ShellPopups!ToggleNetwork(shut), "network")
      /\ p = "audio"     => v = ShellPopups!Draw(ShellPopups!ToggleAudio(shut), "audio")
      /\ p = "calendar"  => v = ShellPopups!Draw(ShellPopups!ToggleCalendar(shut), "calendar")
      /\ p = "osd"       => v = ShellPopups!ShowOsd(shut)
      /\ p = "region"    => v = IF "region" \in w.open THEN shut
                                ELSE ShellPopups!Draw(ShellPopups!OpenRegionPicker(shut), "region")
  BY DEF ShellPopups!PanelClick, ShellPopups!DrawWorkspace, ShellPopups!DrawNetwork,
         ShellPopups!DrawAudio, ShellPopups!DrawCalendar, ShellPopups!DrawRegion
<1> HIDE DEF shut, v
<1>3. CASE p = "launcher"  BY <1>1, <1>2, <1>3, PanelTogglesLauncherGood DEF v
<1>4. CASE p = "workspace"
  <2>1. Good(ShellPopups!ToggleWorkspace(shut))  BY <1>1, <1>4, ToggleWorkspaceGood
  <2> QED  BY <1>0, <1>2, <1>4, <2>1, DrawGood DEF v
<1>5. CASE p = "network"
  <2>1. Good(ShellPopups!ToggleNetwork(shut))  BY <1>1, ToggleNetworkGood
  <2> QED  BY <1>0, <1>2, <1>5, <2>1, DrawGood DEF v
<1>6. CASE p = "audio"
  <2>1. Good(ShellPopups!ToggleAudio(shut))  BY <1>1, ToggleAudioGood
  <2> QED  BY <1>0, <1>2, <1>6, <2>1, DrawGood DEF v
<1>7. CASE p = "calendar"
  <2>1. Good(ShellPopups!ToggleCalendar(shut))  BY <1>1, <1>7, ToggleCalendarGood
  <2> QED  BY <1>0, <1>2, <1>7, <2>1, DrawGood DEF v
<1>8. CASE p = "osd"  BY <1>1, <1>2, <1>8, ShowOsdGood DEF v
<1>9. CASE p = "region"
  <2>1. Good(ShellPopups!OpenRegionPicker(shut))
    BY <1>1, OwnGood DEF ShellPopups!OpenRegionPicker
  <2> QED  BY <1>0, <1>1, <1>2, <1>9, <2>1, DrawGood DEF v
<1> QED  BY <1>3, <1>4, <1>5, <1>6, <1>7, <1>8, <1>9 DEF v

(* redraw_after_ipc, after a launcher that is hidden and still mapped as well. *)
LEMMA RedrawnGood ==
    ASSUME NEW w, NEW dirty \in BOOLEAN, Firm(w), SharedReady(w), ClearBut(w, "launcher"), AtMostOne(w),
           Clear(w) \/ (dirty /\ "launcher" \notin w.open)
    PROVE  Good(ShellPopups!Redrawn(w, dirty))
<1> DEFINE launcher == CASE "launcher" \in w.open -> ShellPopups!Draw(w, "launcher")
                         [] dirty /\ "launcher" \notin w.open -> ShellPopups!Detach(w, "launcher")
                         [] OTHER -> w
<1>0. /\ "launcher" \in ShellPopups!Popups /\ "workspace" \in ShellPopups!Popups
      /\ "menu" \in ShellPopups!Popups /\ "consent" \in ShellPopups!Popups
      /\ "region" \in ShellPopups!Popups
  BY Names
<1>1. Good(launcher)
  <2>1. CASE "launcher" \in w.open
    <3>1. Good(w)  BY <2>1 DEF Good, Sound
    <3>2. launcher = ShellPopups!Draw(w, "launcher")  BY <2>1
    <3> QED  BY <1>0, <3>1, <3>2, DrawGood
  <2>2. CASE "launcher" \notin w.open /\ dirty
    <3>1. launcher = ShellPopups!Detach(w, "launcher")  BY <2>2
    <3> QED  BY <3>1, UnmapLauncher
  <2>3. CASE "launcher" \notin w.open /\ ~ dirty
    <3>1. launcher = w  BY <2>3
    <3> QED  BY <2>3, <3>1 DEF Good, Sound
  <2> QED  BY <2>1, <2>2, <2>3
<1>2. ShellPopups!Redrawn(w, dirty) =
        ShellPopups!Draw(ShellPopups!Draw(ShellPopups!Draw(ShellPopups!Draw(launcher, "workspace"),
          "menu"), "consent"), "region")
  BY DEF ShellPopups!Redrawn, ShellPopups!DrawLauncher, ShellPopups!DrawWorkspace,
         ShellPopups!DrawMenu, ShellPopups!DrawConsent, ShellPopups!DrawRegion
<1> HIDE DEF launcher
<1>3. Good(ShellPopups!Draw(launcher, "workspace"))  BY <1>0, <1>1, DrawGood
<1>4. Good(ShellPopups!Draw(ShellPopups!Draw(launcher, "workspace"), "menu"))  BY <1>0, <1>3, DrawGood
<1>5. Good(ShellPopups!Draw(ShellPopups!Draw(ShellPopups!Draw(launcher, "workspace"), "menu"), "consent"))
  BY <1>0, <1>4, DrawGood
<1> QED  BY <1>0, <1>2, <1>5, DrawGood

LEMMA RedrawnKeeps ==
    ASSUME NEW w, Good(w), NEW dirty \in BOOLEAN PROVE Good(ShellPopups!Redrawn(w, dirty))
<1>1. Firm(w) /\ SharedReady(w) /\ ClearBut(w, "launcher") /\ AtMostOne(w) /\ Clear(w)
  BY DEF Good, Sound, Clear, ClearBut
<1> QED  BY <1>1, RedrawnGood

(* The notifications on the screen become n. *)
LEMMA NotesGood ==
    ASSUME NEW w, Good(w), NEW n \in Nat
    PROVE  Good(ShellPopups!DrawNotification([w EXCEPT !.notes = n]))
<1> DEFINE v == [w EXCEPT !.notes = n]
<1>1. w \in Ui  BY DEF Good, Sound, Firm
<1>2. /\ v \in Ui /\ v.open = w.open /\ v.notes = n /\ v.configured = w.configured
      /\ v.srf = w.srf /\ v.err = w.err
  BY <1>1 DEF Ui
<1> HIDE DEF v
<1>3. Firm(v) /\ SharedReady(v)  BY <1>2 DEF Firm, SharedReady, Sound, Good
<1>4. ClearBut(v, "notification")  BY <1>2 DEF Good, Sound, Clear, ClearBut, WantedIn
<1> DEFINE u == ShellPopups!DrawNotification(v)
<1>5. Sound(u) /\ SameShell(v, u)  BY <1>3, <1>4, NotificationSound
<1> HIDE DEF u
<1>6. Good(u)  BY <1>2, <1>5, FewerGood DEF Good, SameShell
<1> QED  BY <1>6 DEF u, v
-----------------------------------------------------------------------------
(* The steps.                                                              *)

PopInv == Good(ui)

LEMMA StartedGood == Good(ShellPopups!Started)
<1> DEFINE w == ShellPopups!Started
<1>1. ASSUME NEW s \in ShellPopups!Surfaces
      PROVE  w.srf[s] \in Surface /\ ~ w.srf[s].mapped
  <2>1. ShellPopups!Base(s) \in Sizes  BY Names DEF ShellPopups!Base
  <2> QED  BY <2>1 DEF ShellPopups!Started, ShellPopups!Created, Surface
<1>2. w \in Ui
  <2>1. w.srf \in [ShellPopups!Surfaces -> Surface]  BY <1>1 DEF ShellPopups!Started
  <2> QED  BY <2>1 DEF ShellPopups!Started, Ui
<1>3. w.open = {} /\ w.configured = {} /\ w.err = ShellPopups!NoError  BY DEF ShellPopups!Started
<1> HIDE DEF w
<1>4. Firm(w)  BY <1>1, <1>2, <1>3 DEF Firm, ShellPopups!NoError
<1>5. SharedReady(w) /\ Clear(w) /\ AtMostOne(w)  BY <1>1, <1>3 DEF SharedReady, Clear, AtMostOne
<1> QED  BY <1>4, <1>5 DEF Good, Sound, w

(* A press on the shared layer, after it has closed what another popup left open. *)
LEMMA SharedClick ==
    ASSUME PopInv, ShellPopups!ClickShared PROVE Good(ui')
<1> DEFINE w == ShellPopups!CloseAll(ui, << "workspace", "launcher" >>)
<1>0. /\ "sni" \in ShellPopups!Popups /\ "audio" \in ShellPopups!Popups
      /\ "network" \in ShellPopups!Popups /\ "workspace" \in ShellPopups!Popups
      /\ "launcher" \in ShellPopups!Popups
  BY Names
<1>1. Good(w)
  <2>1. Sound(w) /\ w.open = ui.open \ { "workspace", "launcher" }
    BY <1>0, CloseTwo DEF PopInv, Good
  <2> HIDE DEF w
  <2> QED  BY <2>1, FewerGood DEF PopInv, Good
<1>2. \/ ui' = ShellPopups!Close(w, "sni")
      \/ ui' = ShellPopups!Close(w, "audio")
      \/ ui' = ShellPopups!OpenSettings(ShellPopups!Close(w, "audio"))
      \/ ui' = ShellPopups!Close(w, "network")
      \/ ui' = ShellPopups!OpenSettings(ShellPopups!Close(w, "network"))
      \/ ui' = ShellPopups!OpenWifiModal(w)
  BY DEF ShellPopups!ClickShared, ShellPopups!Event
<1> HIDE DEF w
<1>3. /\ Good(ShellPopups!Close(w, "sni")) /\ Good(ShellPopups!Close(w, "audio"))
      /\ Good(ShellPopups!Close(w, "network"))
  BY <1>0, <1>1, CloseGood
<1>4. /\ Good(ShellPopups!OpenSettings(ShellPopups!Close(w, "audio")))
      /\ Good(ShellPopups!OpenSettings(ShellPopups!Close(w, "network")))
  BY <1>3, OpenSettingsGood
<1>5. Good(ShellPopups!OpenWifiModal(w))  BY <1>1, OpenWifiModalGood
<1> QED  BY <1>2, <1>3, <1>4, <1>5

(* A press that the desktop menu takes. *)
LEMMA MenuClick ==
    ASSUME PopInv, ShellPopups!ClickMenu PROVE Good(ui')
<1> DEFINE ps == << "menu", "calendar", "workspace", "network", "audio" >>
           shut == ShellPopups!CloseAll(ui, ps)
<1>0. /\ "menu" \in ShellPopups!Popups /\ "calendar" \in ShellPopups!Popups
      /\ "workspace" \in ShellPopups!Popups /\ "network" \in ShellPopups!Popups
      /\ "audio" \in ShellPopups!Popups
  BY Names
<1>1. Good(shut)
  <2>1. Sound(shut) /\ shut.open = ui.open \ { "menu", "calendar", "workspace", "network", "audio" }
    BY <1>0, CloseFive DEF PopInv, Good
  <2> HIDE DEF shut
  <2> QED  BY <2>1, FewerGood DEF PopInv, Good
<1>2. \/ ui' = ShellPopups!Close(ui, "menu")
      \/ ui' = ShellPopups!PanelTogglesLauncher(shut)
      \/ ui' = ShellPopups!OpenSettings(ShellPopups!Close(ui, "menu"))
  BY DEF ShellPopups!ClickMenu, ShellPopups!Event
<1> HIDE DEF shut
<1>3. Good(ShellPopups!Close(ui, "menu"))  BY <1>0, CloseGood DEF PopInv
<1>4. Good(ShellPopups!PanelTogglesLauncher(shut))  BY <1>1, PanelTogglesLauncherGood
<1>5. Good(ShellPopups!OpenSettings(ShellPopups!Close(ui, "menu")))  BY <1>3, OpenSettingsGood
<1> QED  BY <1>2, <1>3, <1>4, <1>5

LEMMA InputKeeps ==
    ASSUME PopInv, ShellPopups!Input PROVE Good(ui')
<1> USE DEF PopInv
<1>0. ui.open \subseteq ShellPopups!Popups  BY DEF Good, Sound, Firm, Ui
<1>1. ASSUME NEW p \in { "launcher", "workspace", "network", "audio", "calendar", "osd", "region" },
             ShellPopups!ClickPanel(p)
      PROVE  Good(ui')
  <2>1. ui' = ShellPopups!PanelClick(ui, p)  BY <1>1 DEF ShellPopups!ClickPanel, ShellPopups!Event
  <2> QED  BY <2>1, PanelClickGood
<1>2. CASE ShellPopups!ClickElsewhere
  <2>1. ui' = ShellPopups!Pressed(ui, "nothing")  BY <1>2 DEF ShellPopups!ClickElsewhere, ShellPopups!Event
  <2> QED  BY <2>1, PressedIs
<1>3. CASE ShellPopups!ClickLauncher
  <2>1. "launcher" \in ShellPopups!Popups /\ ui' = ShellPopups!Close(ui, "launcher")
    BY <1>0, <1>3 DEF ShellPopups!ClickLauncher, ShellPopups!Event
  <2> QED  BY <2>1, CloseGood
<1>4. CASE ShellPopups!ClickWorkspace
  <2>1. "workspace" \in ShellPopups!Popups /\ ui' = ShellPopups!Close(ui, "workspace")
    BY <1>0, <1>4 DEF ShellPopups!ClickWorkspace, ShellPopups!Event
  <2> QED  BY <2>1, CloseGood
<1>5. CASE ShellPopups!ClickShared  BY <1>5, SharedClick
<1>6. CASE ShellPopups!ClickMenu  BY <1>6, MenuClick
<1>7. CASE ShellPopups!Escape
  <2>1. PICK i \in DOMAIN ShellPopups!EscapeOrder :
          /\ ShellPopups!EscapeOrder[i] \in ui.open
          /\ ui' = ShellPopups!Close(ui, ShellPopups!EscapeOrder[i])
    BY <1>7 DEF ShellPopups!Escape, ShellPopups!Event
  <2>2. ShellPopups!EscapeOrder[i] \in ShellPopups!Popups  BY <1>0, <2>1
  <2> QED  BY <2>1, <2>2, CloseGood
<1>8. ASSUME NEW p \in ShellPopups!Modals, ShellPopups!ClickModal(p) PROVE Good(ui')
  <2>1. p \in ShellPopups!Popups /\ ui' = ShellPopups!Close(ui, p)
    BY <1>0, <1>8 DEF ShellPopups!ClickModal, ShellPopups!Event
  <2> QED  BY <2>1, CloseGood
<1>9. CASE ShellPopups!HoverOpens
  <2> DEFINE v == ShellPopups!Ask(ShellPopups!Opened(ui, "thumbnail"), "thumbnail", "thumbnail")
  <2>1. ui' = ShellPopups!Draw(v, "thumbnail")
    BY <1>9 DEF ShellPopups!HoverOpens, ShellPopups!Event, ShellPopups!DrawThumbnail
  <2>2. Good(v)  BY OwnGood
  <2> HIDE DEF v
  <2> QED  BY <2>1, <2>2, DrawGood, Names
<1>10. CASE ShellPopups!HoverLeaves
  <2>1. "thumbnail" \in ShellPopups!Popups /\ ui' = ShellPopups!Close(ui, "thumbnail")
    BY <1>0, <1>10 DEF ShellPopups!HoverLeaves, ShellPopups!Event
  <2> QED  BY <2>1, CloseGood
<1> QED
  BY <1>1, <1>2, <1>3, <1>4, <1>5, <1>6, <1>7, <1>8, <1>9, <1>10 DEF ShellPopups!Input

LEMMA IpcKeeps ==
    ASSUME PopInv, ShellPopups!Ipc PROVE Good(ui')
<1> USE DEF PopInv, ShellPopups!Event
<1>1. CASE ShellPopups!IpcToggleLauncher
  <2>1. CASE "launcher" \in ui.open
    <3> DEFINE v == ShellPopups!HideLauncher(ui)
    <3>1. /\ Firm(v) /\ SharedReady(v) /\ ClearBut(v, "launcher") /\ AtMostOne(v)
          /\ "launcher" \notin v.open
      BY HideIs
    <3>2. ui' = ShellPopups!Redrawn(v, TRUE)  BY <1>1, <2>1 DEF ShellPopups!IpcToggleLauncher
    <3> HIDE DEF v
    <3> QED  BY <3>1, <3>2, RedrawnGood
  <2>2. CASE "launcher" \notin ui.open
    <3>1. ui' = ShellPopups!Redrawn(ShellPopups!OpenLauncher(ui), TRUE)
      BY <1>1, <2>2 DEF ShellPopups!IpcToggleLauncher
    <3>2. Good(ShellPopups!OpenLauncher(ui))  BY OpenLauncherGood DEF Good
    <3> QED  BY <3>1, <3>2, RedrawnKeeps
  <2> QED  BY <2>1, <2>2
<1>2. CASE ShellPopups!IpcConfigReloaded
  BY <1>2, RedrawnKeeps DEF ShellPopups!IpcConfigReloaded
<1>3. CASE ShellPopups!IpcVolume
  <2>1. ui' = ShellPopups!Redrawn(ShellPopups!ShowOsd(ui), FALSE)  BY <1>3 DEF ShellPopups!IpcVolume
  <2>2. Good(ShellPopups!ShowOsd(ui))  BY ShowOsdGood
  <2> QED  BY <2>1, <2>2, RedrawnKeeps
<1>4. CASE ShellPopups!IpcContextMenu
  <2>1. ui' = ShellPopups!Redrawn(ShellPopups!Ask(ShellPopups!Opened(ui, "menu"), "menu", "menu"), FALSE)
    BY <1>4 DEF ShellPopups!IpcContextMenu
  <2>2. Good(ShellPopups!Ask(ShellPopups!Opened(ui, "menu"), "menu", "menu"))  BY OwnGood
  <2> QED  BY <2>1, <2>2, RedrawnKeeps
<1>5. CASE ShellPopups!IpcFocusChanged
  <2>1. ui' = ShellPopups!Redrawn(ShellPopups!Close(ui, "menu"), FALSE)
    BY <1>5 DEF ShellPopups!IpcFocusChanged
  <2>2. Good(ShellPopups!Close(ui, "menu"))  BY CloseGood, Names
  <2> QED  BY <2>1, <2>2, RedrawnKeeps
<1>6. CASE ShellPopups!IpcConsentRequest
  <2>1. ui' = ShellPopups!Redrawn(ShellPopups!Ask(ShellPopups!Opened(ui, "consent"), "consent", "consent"), FALSE)
    BY <1>6 DEF ShellPopups!IpcConsentRequest
  <2>2. Good(ShellPopups!Ask(ShellPopups!Opened(ui, "consent"), "consent", "consent"))  BY OwnGood
  <2> QED  BY <2>1, <2>2, RedrawnKeeps
<1>7. CASE ShellPopups!IpcRegionRequest
  <2>1. ui' = ShellPopups!Redrawn(ShellPopups!OpenRegionPicker(ui), FALSE)
    BY <1>7 DEF ShellPopups!IpcRegionRequest
  <2>2. Good(ShellPopups!OpenRegionPicker(ui))  BY OwnGood DEF ShellPopups!OpenRegionPicker
  <2> QED  BY <2>1, <2>2, RedrawnKeeps
<1> QED  BY <1>1, <1>2, <1>3, <1>4, <1>5, <1>6, <1>7 DEF ShellPopups!Ipc

LEMMA OtherKeeps ==
    ASSUME PopInv, ShellPopups!Other PROVE Good(ui')
<1> USE DEF PopInv, ShellPopups!Event
<1>0. ui.notes \in Nat  BY DEF Good, Sound, Firm, Ui
<1>1. CASE ShellPopups!SniMenuLayout  BY <1>1, OpenSniMenuGood DEF ShellPopups!SniMenuLayout
<1>2. CASE ShellPopups!OsdExpires  BY <1>2, CloseGood, Names DEF ShellPopups!OsdExpires
<1>3. CASE ShellPopups!ClockTick
  BY <1>3, DrawGood, Names DEF ShellPopups!ClockTick, ShellPopups!DrawCalendar
<1>4. CASE ShellPopups!Notify
  <2>1. /\ ui' = ShellPopups!DrawNotification([ui EXCEPT !.notes = ui.notes + 1])
        /\ ui.notes + 1 \in Nat
    BY <1>0, <1>4 DEF ShellPopups!Notify
  <2> QED  BY <2>1, NotesGood
<1>5. CASE ShellPopups!CloseNotification
  <2>1. PICK n \in Nat : ui' = ShellPopups!DrawNotification([ui EXCEPT !.notes = n])
    BY <1>5 DEF ShellPopups!CloseNotification
  <2> QED  BY <2>1, NotesGood
<1>6. CASE ShellPopups!NotificationExpires
  <2>1. /\ ui' = ShellPopups!DrawNotification([ui EXCEPT !.notes = ui.notes - 1])
        /\ ui.notes - 1 \in Nat
    BY <1>0, <1>6 DEF ShellPopups!NotificationExpires
  <2> QED  BY <2>1, NotesGood
<1> QED  BY <1>1, <1>2, <1>3, <1>4, <1>5, <1>6 DEF ShellPopups!Other

LEMMA PopupsKeep ==
    ASSUME PopInv, ShellPopups!Next PROVE PopInv'
<1>1. CASE ShellPopups!Input  BY <1>1, InputKeeps DEF PopInv
<1>2. CASE ShellPopups!Ipc  BY <1>2, IpcKeeps DEF PopInv
<1>3. CASE ShellPopups!Other  BY <1>3, OtherKeeps DEF PopInv
<1>4. CASE ShellPopups!Restart
  <2>1. ui' = ShellPopups!Started  BY <1>4 DEF ShellPopups!Restart
  <2> QED  BY <2>1, StartedGood DEF PopInv
<1>5. ASSUME NEW s \in ShellPopups!Surfaces, ShellPopups!Configure(s) PROVE PopInv'
  <2>1. ui' = ShellPopups!Configured(ui, s)  BY <1>5 DEF ShellPopups!Configure
  <2> QED  BY <2>1, ConfiguredGood DEF PopInv
<1> QED  BY <1>1, <1>2, <1>3, <1>4, <1>5 DEF ShellPopups!Next

LEMMA PopupsAre ==
    ASSUME PopInv PROVE ShellPopups!OnePopup /\ ShellPopups!SharedWaits /\ ShellPopups!NoGhost
<1>1. ShellPopups!OnePopup  BY DEF PopInv, Good, AtMostOne, Five, ShellPopups!OnePopup
<1>2. ShellPopups!SharedWaits  BY DEF PopInv, Good, Sound, Firm, ShellPopups!SharedWaits
<1>3. ShellPopups!NoGhost
  BY DEF PopInv, Good, Sound, Clear, WantedIn, ShellPopups!NoGhost, ShellPopups!Wanted
<1> QED  BY <1>1, <1>2, <1>3

\* However the panel, the pointer, the keyboard, IPC and the tray open and close them, and
\* however late configures are read: of the five popups one at most is open, network_layer
\* never has a buffer attached before its configure, and no surface shows what is closed.
THEOREM PopupsStayApart == Spec => []PopupsAgree
<1> DEFINE I == part = "popups" => PopInv
<1>1. Init => I
  <2> SUFFICES ASSUME Init, part = "popups" PROVE PopInv  OBVIOUS
  <2>1. ShellPopups!Init  BY DEF Init, InitShellPopups, InitGreeter, InitNotifications
  <2>2. ui = ShellPopups!Started  BY <2>1 DEF ShellPopups!Init
  <2> QED  BY <2>2, StartedGood DEF PopInv
<1>2. I /\ [Next]_vars => I'
  <2> SUFFICES ASSUME I, [Next]_vars, part' = "popups" PROVE PopInv'  OBVIOUS
  <2>1. CASE NextShellPopups  BY <2>1, PopupsKeep DEF NextShellPopups
  <2>2. CASE NextNotifications \/ NextGreeter
    BY <2>2 DEF NextNotifications, NextGreeter
  <2>3. CASE UNCHANGED vars
    <3>1. part' = part /\ ui' = ui  BY <2>3 DEF vars
    <3> QED  BY <3>1 DEF PopInv
  <2> QED  BY <2>1, <2>2, <2>3 DEF Next
<1>3. I => PopupsAgree  BY PopupsAre DEF PopupsAgree
<1> QED  BY <1>1, <1>2, <1>3, PTL DEF Spec
=============================================================================

------------------------- MODULE MCShellPartsProofs -------------------------
(***************************************************************************)
(* Theorems about components of the desktop shell that MCShellParts checks *)
(* side by side, for any applications, buttons, categories, services,      *)
(* menus, networks, modes, texts and names.  Only one component runs in a  *)
(* behaviour, so each has an inductive invariant of its own.               *)
(***************************************************************************)
EXTENDS MCShellParts, FiniteSetTheorems, SequenceTheorems, LoopInduction, TLAPS

(* A step is one of the component the behaviour is about. *)
LEMMA OnlyItsOwn ==
    ASSUME [Next]_vars
    PROVE  /\ part' = part
           /\ part = "web"      => Web!Next \/ UNCHANGED vars
           /\ part = "launcher" => Launcher!Next \/ UNCHANGED vars
           /\ part = "power"    => Power!Next \/ UNCHANGED vars
           /\ part = "defaults" => Defaults!Next \/ UNCHANGED vars
           /\ part = "tray"     => Tray!Next \/ UNCHANGED vars
           /\ part = "network"  => Network!Next \/ UNCHANGED vars
           /\ part = "connecting" => Connecting!Next \/ UNCHANGED vars
           /\ part = "config"   => Config!Next \/ UNCHANGED vars
           /\ part = "settings" => SettingsPages!Next \/ UNCHANGED vars
           /\ part = "devices"  => DevicesPages!Next \/ UNCHANGED vars
           /\ part = "looks"    => LooksPages!Next \/ UNCHANGED vars
           /\ part = "pinning"  => PinningPages!Next \/ UNCHANGED vars
           /\ part = "display"  => DisplaySettings!Next \/ UNCHANGED vars
<1>1. CASE UNCHANGED vars  BY <1>1 DEF vars
<1>2. CASE Next
  BY <1>1, <1>2 DEF Next, NextWebHelpers, NextLauncher, NextPowerButtons, NextSettingsPages,
     NextDevicesPages, NextLooksPages, NextPinningPages, NextNetwork, NextConnecting,
     NextDisplaySettings, NextDefaultApps, NextConfigFile, NextTray
<1> QED  BY <1>1, <1>2

(* What a behaviour starts with is what its component starts with. *)
LEMMA StartsItsOwn ==
    ASSUME Init
    PROVE  /\ part = "web"      => Web!Init
           /\ part = "launcher" => Launcher!Init
           /\ part = "power"    => Power!Init
           /\ part = "defaults" => Defaults!Init
           /\ part = "tray"     => Tray!Init
           /\ part = "network"  => Network!Init
           /\ part = "connecting" => Connecting!Init
           /\ part = "config"   => Config!Init
           /\ part = "settings" => SettingsPages!Init
           /\ part = "devices"  => DevicesPages!Init
           /\ part = "looks"    => LooksPages!Init
           /\ part = "pinning"  => PinningPages!Init
           /\ part = "display"  => DisplaySettings!Init
BY DEF Init, InitWebHelpers, InitLauncher, InitPowerButtons, InitSettingsPages,
   InitDevicesPages, InitLooksPages, InitPinningPages, InitNetwork, InitConnecting,
   InitDisplaySettings, InitDefaultApps, InitConfigFile, InitTray

-----------------------------------------------------------------------------
(* The power buttons.  As long as a button is armed no other action came   *)
(* after the click that armed it.                                          *)

PowerInv == (armed # "none" => strayed # "action") /\ ran # "action"

LEMMA PowerKeeps == ASSUME PowerInv, Power!Next PROVE PowerInv'
<1>1. ASSUME NEW b \in Buttons, Power!Click(b) PROVE PowerInv'
  <2>1. b # "none"  BY ButtonsAssumption
  <2> QED  BY <1>1, <2>1 DEF PowerInv, Power!Click, Power!Arm
<1>2. CASE Power!OtherAction  BY <1>2 DEF PowerInv, Power!OtherAction
<1>3. CASE Power!LaunchRow  BY <1>3 DEF PowerInv, Power!LaunchRow
<1>4. CASE Power!Open \/ Power!Close \/ Power!Elapse \/ Power!Tick

    BY <1>4 DEF PowerInv, Power!Open, Power!Close, Power!Elapse, Power!Tick
<1> QED  BY <1>1, <1>2, <1>3, <1>4 DEF Power!Next

\* However the launcher is opened, closed and left for its settings between two clicks on a
\* power button: with another action between them the command does not run.
THEOREM ChangedMind == Spec => []NeverAfterAction
<1> DEFINE I == part = "power" => PowerInv
<1>1. Init => I
  <2>1. Power!Init => PowerInv  BY DEF Power!Init, PowerInv
  <2> QED  BY <2>1, StartsItsOwn
<1>2. I /\ [Next]_vars => I'
  <2>1. PowerInv /\ UNCHANGED vars => PowerInv'  BY DEF PowerInv, vars
  <2> QED  BY <2>1, OnlyItsOwn, PowerKeeps
<1>3. I => NeverAfterAction  BY DEF PowerInv, NeverAfterAction, Power!NeverAfterAction
<1> QED  BY <1>1, <1>2, <1>3, PTL DEF Spec

-----------------------------------------------------------------------------
(* Default applications.  The index of the page and that of a thread list  *)
(* what is installed, or nothing; a category a thread was told is empty is *)
(* empty still, was filled by another thread with the same application, or *)
(* was picked for.                                                         *)

Lists(ix) == \A c \in Cats : ix[c] = {} \/ ix[c] = installed[c] \ Hidden

Filled(c, ix) == disk[c] = "" \/ user[c] # "" \/ disk[c] = Defaults!Sensible(ix, c)

Filling(t) ==
  /\ t.left \subseteq Cats /\ Lists(t.index)
  /\ t.found # "" => t.found \in Cats /\ t.index[t.found] # {} /\ (t.missed \/ Filled(t.found, t.index))

DefaultsInv ==
  /\ DOMAIN disk = Cats /\ DOMAIN user = Cats /\ Lists(index)
  /\ picker # "" => picker \in Cats
  /\ \A p \in picks : p.cat \in Cats /\ user[p.cat] # ""
  /\ \A t \in auto : Filling(t)

(* What a fill writes depends on the category's applications only. *)
LEMMA SensibleIs ==
    ASSUME NEW ix, NEW jx, NEW c, ix[c] = jx[c]
    PROVE  Defaults!Sensible(ix, c) = Defaults!Sensible(jx, c)
BY DEF Defaults!Sensible

(* A thread as it is made, with a category to fill or on to the next. *)
LEMMA FillIs ==
    ASSUME NEW left, NEW found, NEW missed, NEW ix, left \subseteq Cats, Lists(ix),
           found # "" => found \in Cats /\ ix[found] # {} /\ (missed \/ Filled(found, ix))
    PROVE  Filling(Defaults!Fill(left, found, missed, ix)) /\ Defaults!Fill(left, found, missed, ix).found = found
<1> DEFINE t == Defaults!Fill(left, found, missed, ix)
<1>1. t.left = left /\ t.found = found /\ t.missed = missed /\ t.index = ix
  BY DEF Defaults!Fill
<1> HIDE DEF t
<1>2. Filling(t)  BY <1>1, Zenon DEF Filling
<1> QED  BY <1>1, <1>2 DEF t

LEMMA NextFill ==
    ASSUME NEW left, NEW ix, left \subseteq Cats, Lists(ix)
    PROVE  Filling(Defaults!Fill(left, "", FALSE, ix)) /\ Defaults!Fill(left, "", FALSE, ix).found = ""
<1> DEFINE t == Defaults!Fill(left, "", FALSE, ix)
<1>1. t.left = left /\ t.found = "" /\ t.index = ix  BY DEF Defaults!Fill
<1> HIDE DEF t
<1>2. Filling(t)  BY <1>1, Zenon DEF Filling
<1> QED  BY <1>1, <1>2 DEF t

LEMMA DefaultsStart == ASSUME Defaults!Init PROVE DefaultsInv
<1>1. /\ DOMAIN disk = Cats /\ DOMAIN user = Cats /\ picker = "" /\ picks = {} /\ auto = {}
      /\ \A c \in Cats : index[c] = {}
  BY Zenon DEF Defaults!Init, Defaults!Defaults
<1> QED  BY <1>1, Zenon DEF DefaultsInv, Lists

(* As long as only threads write and picks only add, a fill that is under way stays one. *)
LEMMA FillingStays ==
    ASSUME NEW t, Filling(t), UNCHANGED installed,
           \A c \in Cats : user[c] # "" => user'[c] # "",
           \A c \in Cats : disk'[c] = disk[c] \/ user'[c] # ""
                           \/ (t.found = c => disk'[c] = Defaults!Sensible(t.index, c))
    PROVE  Filling(t)'
<1>1. Lists(t.index)'  BY Zenon DEF Filling, Lists
<1>2. t.found # "" => t.missed \/ Filled(t.found, t.index)'  BY Zenon DEF Filling, Filled
<1> QED  BY <1>1, <1>2, Zenon DEF Filling

LEMMA DefaultsKeep ==
    ASSUME DefaultsInv, Defaults!Next
    PROVE  DefaultsInv' /\ \A c \in DOMAIN disk : disk[c] \notin { "", disk'[c] } =>
                              user[c] # "" \/ \E t \in auto \ auto' : t.found = c /\ t.missed
<1> DEFINE Kept == \A c \in DOMAIN disk : disk[c] \notin { "", disk'[c] } =>
                     user[c] # "" \/ \E t \in auto \ auto' : t.found = c /\ t.missed
<1>0. /\ DOMAIN disk = Cats /\ DOMAIN user = Cats /\ Lists(index)
      /\ picker # "" => picker \in Cats
      /\ \A p \in picks : p.cat \in Cats /\ user[p.cat] # ""
      /\ \A t \in auto : Filling(t)
  BY Zenon DEF DefaultsInv
<1>1. ASSUME UNCHANGED << installed, disk, user >>
      PROVE  Kept /\ \A t : Filling(t) => Filling(t)'
  <2>1. \A t : Filling(t) => Filling(t)'  BY <1>1, FillingStays, Zenon
  <2> QED  BY <1>1, <2>1
<1>2. UNCHANGED installed => /\ Lists(index)
                             /\ Lists(Defaults!Scanned)
                             /\ \A ix : Lists(ix) => Lists(ix)'
  BY <1>0, Zenon DEF Lists, Defaults!Scanned
<1>3. CASE Defaults!Enter
  <2>1. UNCHANGED << installed, disk, picks, auto, user >> /\ picker' = ""
        /\ index' = Defaults!Scanned
    BY <1>3, Zenon DEF Defaults!Enter, Defaults!Refresh
  <2>2. Lists(index)'  BY <1>2, <2>1, Zenon DEF Lists
  <2> QED  BY <1>0, <1>1, <2>1, <2>2, Zenon DEF DefaultsInv
<1>4. CASE Defaults!Leave
  <2>1. UNCHANGED << installed, disk, picks, auto, user, picker, index >>
    BY <1>4 DEF Defaults!Leave
  <2> QED  BY <1>0, <1>1, <1>2, <2>1, Zenon DEF DefaultsInv
<1>5. CASE Defaults!AutoSet
  <2> DEFINE n == Defaults!Fill(Cats, "", FALSE, index)
  <2>1. UNCHANGED << installed, disk, picks, user, picker >> /\ auto' = auto \cup {n}
        /\ index' = Defaults!Scanned
    BY <1>5, Zenon DEF Defaults!AutoSet, Defaults!Refresh
  <2>2. Lists(index)'  BY <1>2, <2>1, Zenon DEF Lists
  <2>3. Filling(n)  BY <1>0, NextFill, Zenon
  <2> HIDE DEF n
  <2>4. \A t \in auto' : Filling(t)'  BY <1>0, <1>1, <2>1, <2>3, Zenon
  <2> QED  BY <1>0, <1>1, <2>1, <2>2, <2>4, Zenon DEF DefaultsInv
<1>6. ASSUME NEW c \in Cats, Defaults!TogglePicker(c) PROVE DefaultsInv' /\ Kept
  <2>1. UNCHANGED << installed, disk, picks, auto, user, index >> /\ picker' \in { c, "" }
    BY <1>6, Zenon DEF Defaults!TogglePicker
  <2> QED  BY <1>0, <1>1, <1>2, <2>1, Zenon DEF DefaultsInv
<1>7. ASSUME NEW a \in Apps, Defaults!Pick(a) PROVE DefaultsInv' /\ Kept
  <2> DEFINE n == [cat |-> picker, app |-> a]
  <2>1. /\ UNCHANGED << installed, disk, auto, index >> /\ picker' = "" /\ picker # ""
        /\ picks' = picks \cup {n} /\ user' = [user EXCEPT ![picker] = a]
    BY <1>7, Zenon DEF Defaults!Pick
  <2>2. a # "" /\ picker \in Cats  BY <1>0, <2>1, AppsAssumption, Zenon
  <2>3. DOMAIN user' = Cats /\ user'[picker] # "" /\ \A c \in Cats : user[c] # "" => user'[c] # ""
    BY <1>0, <2>1, <2>2, Zenon
  <2>6. n.cat = picker  OBVIOUS
  <2> HIDE DEF n
  <2>4. \A p \in picks' : p.cat \in Cats /\ user'[p.cat] # ""
    BY <1>0, <2>1, <2>2, <2>3, <2>6, Zenon
  <2>5. \A t \in auto' : Filling(t)'  BY <1>0, <2>1, <2>3, FillingStays, Zenon
  <2> QED  BY <1>0, <1>2, <2>1, <2>3, <2>4, <2>5, Zenon DEF DefaultsInv
<1>8. ASSUME NEW p \in picks, Defaults!PickWrites(p) PROVE DefaultsInv' /\ Kept
  <2>1. /\ UNCHANGED << installed, user, auto, index, picker >> /\ picks' = picks \ {p}
        /\ disk' = disk \/ disk' = [disk EXCEPT ![p.cat] = p.app]
    BY <1>8 DEF Defaults!PickWrites
  <2>2. p.cat \in Cats /\ user[p.cat] # ""  BY <1>0, Zenon
  <2>3. DOMAIN disk' = Cats /\ \A c \in Cats : disk'[c] = disk[c] \/ user[c] # ""
    BY <1>0, <2>1, <2>2, Zenon
  <2>4. \A t \in auto' : Filling(t)'  BY <1>0, <2>1, <2>3, FillingStays, Zenon
  <2> QED  BY <1>0, <1>2, <2>1, <2>3, <2>4, Zenon DEF DefaultsInv
<1>9. ASSUME NEW t \in auto, Defaults!AutoQueries(t) PROVE DefaultsInv' /\ Kept
  <2>1. UNCHANGED << installed, disk, picks, user, index, picker >>
    BY <1>9, Zenon DEF Defaults!AutoQueries
  <2>2. ASSUME NEW c \in t.left, NEW answer \in { disk[c], "" },
               auto' = (auto \ {t}) \cup
                 { IF answer = "" /\ t.index[c] # {}
                   THEN Defaults!Fill(t.left \ {c}, c, disk[c] # "", t.index)
                   ELSE Defaults!Fill(t.left \ {c}, "", FALSE, t.index) }
        PROVE  \A u \in auto' : Filling(u)
    <3> DEFINE b == disk[c] # ""
               d == Defaults!Fill(t.left \ {c}, "", FALSE, t.index)
               e == Defaults!Fill(t.left \ {c}, c, b, t.index)
    <3>1. c \in Cats /\ t.left \ {c} \subseteq Cats /\ Lists(t.index)  BY <1>0, Zenon DEF Filling
    <3>2. b \/ Filled(c, t.index)  BY Zenon DEF Filled
    <3>3. \A u \in auto' : u \in auto \/ u = d \/ (u = e /\ t.index[c] # {})
      BY <2>2, Zenon
    <3> HIDE DEF b
    <3>4. Filling(d)  BY <3>1, NextFill, Zenon
    <3>5. t.index[c] # {} => Filling(e)  BY <3>1, <3>2, FillIs
    <3> QED  BY <1>0, <3>3, <3>4, <3>5, Zenon
  <2>3. \A u \in auto' : Filling(u)
    <3>1. CASE t.left = {}  BY <1>0, <1>9, <3>1, Zenon DEF Defaults!AutoQueries
    <3>2. CASE t.left # {}  BY <1>9, <2>2, <3>2, Zenon DEF Defaults!AutoQueries, Defaults!Answers
    <3> QED  BY <3>1, <3>2
  <2>4. \A u \in auto' : Filling(u)'  BY <1>1, <2>1, <2>3
  <2> QED  BY <1>0, <1>1, <1>2, <2>1, <2>4, Zenon DEF DefaultsInv
<1>10. ASSUME NEW t \in auto, Defaults!AutoWrites(t) PROVE DefaultsInv' /\ Kept
  <2> DEFINE c == t.found
             v == Defaults!Sensible(t.index, t.found)
             n == Defaults!Fill(t.left, "", FALSE, t.index)
  <2>1. /\ UNCHANGED << installed, user, index, picker, picks >> /\ c # ""
        /\ auto' = (auto \ {t}) \cup {n}
        /\ disk' = disk \/ disk' = [disk EXCEPT ![c] = v]
    BY <1>10, Zenon DEF Defaults!AutoWrites
  <2>2. Filling(t) /\ c \in Cats /\ t.index[c] # {} /\ (t.missed \/ Filled(c, t.index))
    BY <1>0, <2>1, Zenon DEF Filling
  <2>3. Filling(n) /\ n.found = ""
    <3>1. t.left \subseteq Cats /\ Lists(t.index)  BY <2>2, Zenon DEF Filling
    <3> QED  BY <3>1, NextFill, Zenon
  <2>4. \A u \in auto' : Filling(u)
    <3> HIDE DEF n
    <3> QED  BY <1>0, <2>1, <2>3, Zenon
  <2>5. \A u \in auto' : c = u.found => v = Defaults!Sensible(u.index, c)
    <3> SUFFICES ASSUME NEW u \in auto', c = u.found PROVE v = Defaults!Sensible(u.index, c)
      OBVIOUS
    <3>1. Filling(u)  BY <2>4
    <3>2. u.index[c] = t.index[c]  BY <2>1, <2>2, <3>1, Zenon DEF Filling, Lists
    <3> QED  BY <3>2, SensibleIs
  <2> HIDE DEF n, v
  <2>10. t \in auto \ auto'  BY <2>1, <2>3, Zenon
  <2>6. /\ DOMAIN disk' = Cats
        /\ \A x \in Cats : disk'[x] = disk[x] \/ (x = c /\ disk'[x] = v)
    BY <1>0, <2>1, <2>2, Zenon
  <2>7. \A u \in auto' : Filling(u)'
    <3> SUFFICES ASSUME NEW u \in auto' PROVE Filling(u)'  OBVIOUS
    <3>1. \A x \in Cats : disk'[x] = disk[x] \/ user'[x] # ""
                          \/ (u.found = x => disk'[x] = Defaults!Sensible(u.index, x))
      BY <2>5, <2>6, Zenon
    <3> QED  BY <2>1, <2>4, <3>1, FillingStays, Zenon
  <2>8. Kept  BY <1>0, <2>2, <2>6, <2>10, Zenon DEF Filled, v
  <2> QED  BY <1>0, <1>2, <2>1, <2>6, <2>7, <2>8, Zenon DEF DefaultsInv
<1> QED  BY <1>3, <1>4, <1>5, <1>6, <1>7, <1>8, <1>9, <1>10, Zenon DEF Defaults!Next

\* However many fills and picks write at once, and whichever of their calls fail: a default that
\* is set is replaced only in a category the user has picked for, or by a fill whose query for it
\* failed.
THEOREM DefaultsAreKept == Spec => DefaultsKept
<1> DEFINE I == part = "defaults" => DefaultsInv
           A == part = "defaults" => \A c \in DOMAIN disk : disk[c] \notin { "", disk'[c] } =>
                  user[c] # "" \/ \E t \in auto \ auto' : t.found = c /\ t.missed
<1>1. Init => I  BY StartsItsOwn, DefaultsStart
<1>2. I /\ [Next]_vars => I' /\ [A]_vars
  <2> SUFFICES ASSUME I, [Next]_vars, part = "defaults" PROVE DefaultsInv' /\ A
    BY OnlyItsOwn, Zenon
  <2>1. CASE Defaults!Next  BY <2>1, DefaultsKeep, Zenon
  <2>2. CASE UNCHANGED vars
    <3>1. UNCHANGED << installed, disk, user, index, picker, picks, auto >>  BY <2>2 DEF vars
    <3> QED  BY <3>1, Zenon DEF DefaultsInv, Lists, Filling, Filled
  <2> QED  BY <2>1, <2>2, OnlyItsOwn, Zenon
<1>3. Spec => [][A]_vars  BY <1>1, <1>2, PTL DEF Spec
<1> QED  BY <1>3 DEF DefaultsKept
-----------------------------------------------------------------------------
(* The launcher.  What is drawn is current while it is open.  A batch of   *)
(* icons that is under way while the cache counts as warmed was started    *)
(* for the theme in use, and for every application of the list.            *)

Known == /\ Launcher!Members(apps) \subseteq Apps /\ disk \subseteq Apps
         /\ Launcher!Members(scan.list) \subseteq Apps

Current == open => seen = [rows |-> Launcher!Rows, menu |-> menu]

Warmed ==
  /\ \A v, w \in warm : v = w
  /\ warmed => /\ \A w \in warm : w.theme = theme /\ Launcher!Members(apps) \subseteq w.apps
               /\ warm = {} => \A a \in Launcher!Members(apps) : icons[a] = theme

LauncherInv == Known /\ Current /\ Warmed

\* A permutation has no other elements.
LEMMA Ordering ==
    ASSUME NEW S, NEW f \in Launcher!Orders(S) PROVE Launcher!Members(f) \subseteq S
BY DEF Launcher!Orders, Launcher!Members

\* What is drawn is current at the end of a step that draws.
LEMMA DrawnIs == ASSUME Launcher!Draw PROVE Current'
BY DEF Current, Launcher!Draw, Launcher!Grid, Launcher!Rows

\* warm_launcher_icons starts a batch for the theme and every application of the list, unless
\* one is under way or they are warmed already.
LEMMA Warms ==
    ASSUME NEW a, NEW t, NEW w, NEW done
    PROVE  \/ Launcher!Warming(a, t, w, done) = [warm |-> w, warmed |-> done] /\ (done \/ w # {})
           \/ Launcher!Warming(a, t, w, done) = [warm |-> w, warmed |-> TRUE] /\ w = {} /\ a = << >>
           \/ Launcher!Warming(a, t, w, done)
                = [warm |-> {[apps |-> Launcher!Members(a), theme |-> t]}, warmed |-> TRUE]
BY DEF Launcher!Warming

\* The only batch is one for the theme in use and every application of the list.
LEMMA OneBatch ==
    ASSUME NEW S, warm' = {[apps |-> S, theme |-> theme']}, Launcher!Members(apps') \subseteq S
    PROVE  Warmed'
<1> DEFINE b == [apps |-> S, theme |-> theme']
<1>1. b.apps = S /\ b.theme = theme' /\ warm' = {b}  OBVIOUS
<1> HIDE DEF b
<1> QED  BY <1>1 DEF Warmed

LEMMA LauncherKeeps == ASSUME LauncherInv, Launcher!Next PROVE LauncherInv'
<1>0. Known /\ Current /\ Warmed  BY DEF LauncherInv
<1>1. UNCHANGED Launcher!lists => Known' /\ Warmed'  BY <1>0 DEF Known, Warmed, Launcher!lists
<1>2. ASSUME UNCHANGED Launcher!lists, Launcher!Draw PROVE LauncherInv'
  BY <1>1, <1>2, DrawnIs DEF LauncherInv
<1>3. ASSUME UNCHANGED Launcher!lists, open' = FALSE PROVE LauncherInv'
  BY <1>1, <1>3 DEF LauncherInv, Current
<1>4. CASE Launcher!Open
  <2>1. PICK order \in Launcher!Orders(Launcher!Members(apps)) : apps' = order
    BY <1>4 DEF Launcher!Open
  <2>2. Launcher!Members(apps') \subseteq Launcher!Members(apps)  BY <2>1, Ordering
  <2>3. Launcher!Members(scan'.list) \subseteq Apps
    BY <1>0, <1>4 DEF Known, Launcher!Open, Launcher!Requested, Launcher!Members
  <2>4. UNCHANGED << disk, icons, theme >> /\ Launcher!Draw
        /\ warm' = Launcher!Warming(apps, theme, warm, warmed).warm
        /\ warmed' = Launcher!Warming(apps, theme, warm, warmed).warmed
    BY <1>4 DEF Launcher!Open
  <2>5. Known'  BY <1>0, <2>2, <2>3, <2>4 DEF Known
  <2>6. Warmed'
    <3>1. CASE warm' = warm /\ warmed' = warmed  BY <1>0, <2>2, <2>4, <3>1 DEF Warmed
    <3>2. CASE warm' = {} /\ apps = << >>
      <4>1. Launcher!Members(apps') = {}  BY <2>2, <3>2 DEF Launcher!Members
      <4> QED  BY <3>2, <4>1 DEF Warmed
    <3>3. CASE warm' = {[apps |-> Launcher!Members(apps), theme |-> theme]}
      BY <2>2, <2>4, <3>3, OneBatch
    <3>4. \/ warm' = warm /\ warmed' = warmed
          \/ warm' = {} /\ apps = << >>
          \/ warm' = {[apps |-> Launcher!Members(apps), theme |-> theme]}
      <4> DEFINE n == Launcher!Warming(apps, theme, warm, warmed)
      <4>1. \/ n = [warm |-> warm, warmed |-> warmed]
            \/ n = [warm |-> warm, warmed |-> TRUE] /\ warm = {} /\ apps = << >>
            \/ n = [warm |-> {[apps |-> Launcher!Members(apps), theme |-> theme]}, warmed |-> TRUE]
        BY Warms
      <4>2. warm' = n.warm /\ warmed' = n.warmed  BY <2>4
      <4> HIDE DEF n
      <4> QED  BY <4>1, <4>2
    <3> QED  BY <3>1, <3>2, <3>3, <3>4
  <2> QED  BY <2>4, <2>5, <2>6, DrawnIs DEF LauncherInv
<1>5. CASE Launcher!Toggle \/ Launcher!CloseForPopup \/ Launcher!Dismiss

    BY <1>3, <1>5, Zenon DEF Launcher!Toggle, Launcher!CloseForPopup, Launcher!Dismiss,
       Launcher!Closed
<1>6. CASE Launcher!ToggleSettings  BY <1>2, <1>6 DEF Launcher!ToggleSettings
<1>7. ASSUME NEW i, Launcher!Launch(i) PROVE LauncherInv'
  BY <1>3, <1>7, Zenon DEF Launcher!Launch, Launcher!Closed
<1>8. ASSUME NEW i, Launcher!OpenMenu(i) PROVE LauncherInv'  BY <1>2, <1>8 DEF Launcher!OpenMenu
<1>9. CASE Launcher!Enter
  <2>1. CASE Launcher!Closed  BY <1>3, <2>1, Zenon DEF Launcher!Closed
  <2>2. CASE UNCHANGED << open, settings, query, sel, Launcher!lists, pinned, seen >>
    <3>1. UNCHANGED << open, query, menu, seen >> /\ UNCHANGED Launcher!lists
      BY <1>9, <2>2 DEF Launcher!Enter
    <3>2. Current'  BY <1>0, <3>1 DEF Current, Launcher!Rows, Launcher!lists
    <3> QED  BY <1>1, <3>1, <3>2 DEF LauncherInv
  <2> QED  BY <1>9, <2>1, <2>2 DEF Launcher!Enter
<1>10. ASSUME NEW d, Launcher!Select(d) PROVE LauncherInv'  BY <1>2, <1>10 DEF Launcher!Select
<1>11. ASSUME NEW q, Launcher!Search(q) PROVE LauncherInv'  BY <1>2, <1>11 DEF Launcher!Search
<1>12. CASE Launcher!DismissMenu  BY <1>2, <1>12 DEF Launcher!DismissMenu
<1>13. CASE Launcher!PinItem  BY <1>2, <1>13 DEF Launcher!PinItem
<1>14. CASE Launcher!RemoveItem
  <2>1. UNCHANGED << apps, disk, scan, icons, theme, warmed, warm >> /\ Launcher!Draw
    BY <1>14 DEF Launcher!RemoveItem
  <2> QED  BY <1>0, <2>1, DrawnIs DEF LauncherInv, Known, Warmed
<1>15. CASE Launcher!DiskChanges
  <2>1. UNCHANGED << open, apps, scan, icons, theme, warmed, warm, hidden, query, menu, seen >>
        /\ disk' \subseteq Apps
    BY <1>0, <1>15 DEF Launcher!DiskChanges, Known
  <2> QED  BY <1>0, <2>1 DEF LauncherInv, Known, Warmed, Current, Launcher!Rows
<1>16. CASE Launcher!ScanDone
  <2>1. PICK list_ \in Launcher!Orders(disk) : scan' = [at |-> "sent", list |-> list_]
    BY <1>16 DEF Launcher!ScanDone
  <2>2. Launcher!Members(scan'.list) \subseteq Apps  BY <1>0, <2>1, Ordering DEF Known
  <2>3. UNCHANGED << open, apps, disk, icons, theme, warmed, warm, hidden, query, menu, seen >>
    BY <1>16 DEF Launcher!ScanDone
  <2> QED  BY <1>0, <2>2, <2>3 DEF LauncherInv, Known, Warmed, Current, Launcher!Rows
<1>17. CASE Launcher!PollApps
  <2>1. /\ UNCHANGED << disk, icons, theme >> /\ apps' = scan.list /\ Launcher!Draw
        /\ scan' = [at |-> "none", list |-> << >>]
        /\ \/ /\ warm' = Launcher!Warming(scan.list, theme, {}, FALSE).warm
              /\ warmed' = Launcher!Warming(scan.list, theme, {}, FALSE).warmed
           \/ warm' = {} /\ warmed' = FALSE
    BY <1>17, Zenon DEF Launcher!PollApps, Launcher!NoScan
  <2>2. Known'  BY <1>0, <2>1 DEF Known, Launcher!Members
  <2>3. \/ warm' = {} /\ warmed' = FALSE
        \/ warm' = {} /\ scan.list = << >>
        \/ warm' = {[apps |-> Launcher!Members(scan.list), theme |-> theme]}
    <3> DEFINE n == Launcher!Warming(scan.list, theme, {}, FALSE)
    <3>1. \/ n = [warm |-> {}, warmed |-> FALSE]
          \/ n = [warm |-> {}, warmed |-> TRUE] /\ scan.list = << >>
          \/ n = [warm |-> {[apps |-> Launcher!Members(scan.list), theme |-> theme]}, warmed |-> TRUE]
      BY DEF Launcher!Warming
    <3>2. \/ warm' = n.warm /\ warmed' = n.warmed
          \/ warm' = {} /\ warmed' = FALSE
      BY <2>1, Zenon
    <3> HIDE DEF n
    <3> QED  BY <3>1, <3>2
  <2>4. scan.list = << >> => Launcher!Members(apps') = {}  BY <2>1 DEF Launcher!Members
  <2>5. Warmed'
    <3>1. CASE warm' = {} /\ (warmed' = FALSE \/ Launcher!Members(apps') = {})  BY <3>1 DEF Warmed
    <3>2. CASE warm' = {[apps |-> Launcher!Members(scan.list), theme |-> theme]}
      BY <2>1, <3>2, OneBatch
    <3> QED  BY <2>3, <2>4, <3>1, <3>2, Zenon
  <2> QED  BY <2>1, <2>2, <2>5, DrawnIs DEF LauncherInv
<1>18. CASE Launcher!PollIcons
  <2>1. /\ UNCHANGED << apps, disk, scan, theme, warmed >> /\ Launcher!Draw /\ warm # {} /\ warm' = {}
        /\ icons' = [a \in Apps |-> LET of == {w \in warm : a \in w.apps} IN
                                      IF of = {} THEN icons[a] ELSE (CHOOSE w \in of : TRUE).theme]
    BY <1>18 DEF Launcher!PollIcons
  <2>2. ASSUME warmed, NEW a \in Launcher!Members(apps) PROVE icons'[a] = theme
    <3> DEFINE of == {w \in warm : a \in w.apps}
    <3>1. of = warm /\ a \in Apps  BY <1>0, <2>2 DEF Warmed, Known
    <3>2. (CHOOSE w \in of : TRUE) \in warm  BY <2>1, <3>1
    <3>3. icons'[a] = (CHOOSE w \in of : TRUE).theme  BY <2>1, <3>1
    <3> QED  BY <1>0, <2>2, <3>2, <3>3 DEF Warmed
  <2>3. Warmed'  BY <2>1, <2>2 DEF Warmed
  <2> QED  BY <1>0, <2>1, <2>3, DrawnIs DEF LauncherInv, Known
<1>19. CASE Launcher!ThemeChanges
  <2>1. /\ UNCHANGED << apps, disk, warm >> /\ Launcher!Draw /\ warmed' = FALSE
        /\ scan' \in { Launcher!Requested, scan }
    BY <1>19 DEF Launcher!ThemeChanges
  <2>2. Known'  BY <1>0, <2>1 DEF Known, Launcher!Requested, Launcher!Members
  <2>3. Warmed'  BY <1>0, <2>1 DEF Warmed
  <2> QED  BY <2>1, <2>2, <2>3, DrawnIs DEF LauncherInv
<1> QED
  BY <1>4, <1>5, <1>6, <1>7, <1>8, <1>9, <1>10, <1>11, <1>12, <1>13, <1>14, <1>15, <1>16, <1>17,
     <1>18, <1>19, Zenon DEF Launcher!Next, Launcher!Poll

\* However applications come and go, themes change and the two workers' answers overtake each
\* other: a click takes the row that is drawn, and once the icons are warmed and no worker runs,
\* every application of the list has its icon in the theme in use.
THEOREM RowsAreCurrent == Spec => []LauncherAgrees
<1> DEFINE I == part = "launcher" => LauncherInv
<1>1. Init => I
  <2> SUFFICES ASSUME Launcher!Init PROVE LauncherInv  BY StartsItsOwn
  <2>1. /\ open = FALSE /\ disk \subseteq Apps /\ apps \in Launcher!Orders(disk)
        /\ scan.list = << >> /\ warmed = FALSE /\ warm = {}
    BY Zenon DEF Launcher!Init, Launcher!NoScan
  <2>2. Launcher!Members(apps) \subseteq disk /\ Launcher!Members(scan.list) = {}
    BY <2>1, Ordering DEF Launcher!Members
  <2> QED  BY <2>1, <2>2 DEF LauncherInv, Known, Current, Warmed
<1>2. I /\ [Next]_vars => I'
  <2>1. LauncherInv /\ UNCHANGED vars => LauncherInv'
    BY DEF LauncherInv, Known, Current, Warmed, Launcher!Rows, vars
  <2> QED  BY <2>1, OnlyItsOwn, LauncherKeeps
<1>3. I => LauncherAgrees
  <2> SUFFICES ASSUME part = "launcher", LauncherInv
               PROVE  Launcher!SeenIsCurrent /\ Launcher!IconsSettle
    BY DEF LauncherAgrees
  <2>1. Launcher!SeenIsCurrent
    BY DEF LauncherInv, Current, Launcher!SeenIsCurrent, Launcher!Palette
  <2>2. Launcher!IconsSettle  BY DEF LauncherInv, Warmed, Launcher!IconsSettle
  <2> QED  BY <2>1, <2>2
<1> QED  BY <1>1, <1>2, <1>3, PTL DEF Spec
-----------------------------------------------------------------------------
(* The tray.  The zones are those of the panel's list, and that lags       *)
(* behind the watcher's by the lists under way: the last of them is what   *)
(* the watcher lists.  A menu's rows are those of its owner, from the      *)
(* thread that fetched them to the screen.                                 *)

\* A sequence, of whatever is in it.
InSeq(q) == q \in Seq({ q[i] : i \in DOMAIN q })

\* The rows are those of the owner, if there is one.
ItsOwn(owners, menuRows) == \A s \in owners : \A i \in DOMAIN menuRows : menuRows[i].of = s

\* The events under way are a sequence, and a menu's rows are its owner's.
Carries(q) ==
  /\ InSeq(q)
  /\ \A i \in DOMAIN q : q[i].kind = "menu" => ItsOwn({q[i].owner}, q[i].rows)

\* After place n no list is under way.
NoList(q, n) == \A j \in DOMAIN q : j > n => q[j].kind # "items"

\* The last list under way is what the watcher lists; with none under way the panel has it.
LastList(q, tr, its) ==
  /\ NoList(q, 0) => tr = its
  /\ \A i \in DOMAIN q : q[i].kind = "items" /\ NoList(q, i) => q[i].items = its

TrayInv ==
  /\ zones = Tray!Drawn(tray)
  /\ menu = [open |-> menu.open, owner |-> menu.owner, rows |-> menu.rows]
  /\ ItsOwn(menu.owner, menu.rows)
  /\ Carries(channel)
  /\ LastList(channel, tray, items)
  /\ \A c \in clicked : c.to = c.on

\* What Append, and what Head and Tail, do to a sequence.
LEMMA Appending ==
    ASSUME NEW q, InSeq(q), NEW e
    PROVE  /\ InSeq(Append(q, e)) /\ DOMAIN Append(q, e) = DOMAIN q \cup {Len(q) + 1}
           /\ Append(q, e)[Len(q) + 1] = e
           /\ \A i \in DOMAIN q : i \in Nat /\ i <= Len(q) /\ Append(q, e)[i] = q[i]
<1> DEFINE S == { q[i] : i \in DOMAIN q } \cup {e}
           r == Append(q, e)
<1>1. q \in Seq(S) /\ e \in S
  <2>1. q \in Seq({ q[i] : i \in DOMAIN q })  BY DEF InSeq
  <2> DEFINE T == { q[i] : i \in DOMAIN q }
  <2>2. T \subseteq S  OBVIOUS
  <2> HIDE DEF S, T
  <2>3. q \in Seq(T)  BY <2>1 DEF T
  <2>4. q \in Seq(S)  BY <2>2, <2>3
  <2> QED  BY <2>4 DEF S
<1> HIDE DEF S
<1>2. /\ r \in Seq(S) /\ Len(r) = Len(q) + 1 /\ r[Len(q) + 1] = e
      /\ \A i \in 1 .. Len(q) : r[i] = q[i]
  BY <1>1
<1>3. DOMAIN q = 1 .. Len(q) /\ Len(q) \in Nat  BY <1>1
<1> HIDE DEF r
<1>4. DOMAIN r = 1 .. Len(q) + 1  BY <1>1, <1>2, <1>3
<1>5. r \in Seq({ r[i] : i \in DOMAIN r })  BY <1>2
<1> QED  BY <1>2, <1>3, <1>4, <1>5 DEF InSeq, r

LEMMA Taking ==
    ASSUME NEW q, InSeq(q), q # << >>
    PROVE  /\ InSeq(Tail(q)) /\ Head(q) = q[1]
           /\ DOMAIN q = 1 .. Len(q) /\ Len(q) \in Nat \ {0}
           /\ DOMAIN Tail(q) = 1 .. Len(q) - 1
           /\ \A i \in DOMAIN Tail(q) : Tail(q)[i] = q[i + 1]
<1> DEFINE S == { q[i] : i \in DOMAIN q }
           r == Tail(q)
<1>1. q \in Seq(S)  BY DEF InSeq
<1> HIDE DEF S
<1>2. /\ r \in Seq(S) /\ Head(q) = q[1] /\ Len(q) \in Nat \ {0} /\ DOMAIN q = 1 .. Len(q)
      /\ DOMAIN r = 1 .. Len(q) - 1 /\ \A i \in DOMAIN r : r[i] = q[i + 1]
  BY <1>1
<1> HIDE DEF r
<1>3. r \in Seq({ r[i] : i \in DOMAIN r })  BY <1>2
<1> QED  BY <1>2, <1>3 DEF InSeq, r

\* A list that is sent is the last one, whatever the panel has.
LEMMA ListSent ==
    ASSUME NEW q, Carries(q), NEW its
    PROVE  LET r == Append(q, [kind |-> "items", items |-> its]) IN
             Carries(r) /\ \A tr : LastList(r, tr, its)
<1> DEFINE e == [kind |-> "items", items |-> its]
           r == Append(q, e)
<1>1. e.kind = "items" /\ e.items = its  OBVIOUS
<1> HIDE DEF e
<1>2. /\ InSeq(r) /\ DOMAIN r = DOMAIN q \cup {Len(q) + 1} /\ r[Len(q) + 1] = e
      /\ \A i \in DOMAIN q : i \in Nat /\ i <= Len(q) /\ r[i] = q[i]
  BY Appending DEF Carries
<1>3. Len(q) \in Nat  BY DEF Carries, InSeq
<1> HIDE DEF r
<1>4. Carries(r)  BY <1>1, <1>2 DEF Carries
<1>5. ASSUME NEW tr PROVE LastList(r, tr, its)
  <2>1. Len(q) + 1 \in DOMAIN r /\ Len(q) + 1 > 0 /\ r[Len(q) + 1].kind = "items"
    BY <1>1, <1>2, <1>3
  <2>2. ~ NoList(r, 0)  BY <2>1 DEF NoList
  <2>3. ASSUME NEW i \in DOMAIN r, NoList(r, i) PROVE i = Len(q) + 1
    BY <1>2, <1>3, <2>1, <2>3 DEF NoList
  <2> QED  BY <1>1, <1>2, <2>2, <2>3 DEF LastList
<1> QED  BY <1>4, <1>5 DEF r, e

\* A menu that is sent leaves the lists as they are.
LEMMA MenuSent ==
    ASSUME NEW q, Carries(q), NEW s, NEW rws, ItsOwn({s}, rws),
           NEW tr, NEW its, LastList(q, tr, its)
    PROVE  LET r == Append(q, [kind |-> "menu", owner |-> s, rows |-> rws]) IN
             Carries(r) /\ LastList(r, tr, its)
<1> DEFINE e == [kind |-> "menu", owner |-> s, rows |-> rws]
           r == Append(q, e)
<1>1. e.kind = "menu" /\ e.owner = s /\ e.rows = rws  OBVIOUS
<1> HIDE DEF e
<1>2. /\ InSeq(r) /\ DOMAIN r = DOMAIN q \cup {Len(q) + 1} /\ r[Len(q) + 1] = e
      /\ \A i \in DOMAIN q : i \in Nat /\ i <= Len(q) /\ r[i] = q[i]
  BY Appending DEF Carries
<1> HIDE DEF r
<1>4. Carries(r)  BY <1>1, <1>2 DEF Carries
<1>5. \A n : NoList(r, n) => NoList(q, n)  BY <1>2 DEF NoList
<1>6. \A i \in DOMAIN r : r[i].kind = "items" => i \in DOMAIN q /\ r[i] = q[i]  BY <1>1, <1>2
<1>7. LastList(r, tr, its)  BY <1>5, <1>6 DEF LastList
<1> QED  BY <1>4, <1>7 DEF r, e

\* A list that is taken off the channel is the watcher's if it was the last.
LEMMA Received ==
    ASSUME NEW q, Carries(q), q # << >>, NEW tr, NEW its, LastList(q, tr, its)
    PROVE  /\ Carries(Tail(q))
           /\ Head(q).kind = "items" => LastList(Tail(q), Head(q).items, its)
           /\ Head(q).kind = "menu" => LastList(Tail(q), tr, its)
                                       /\ ItsOwn({Head(q).owner}, Head(q).rows)
<1> DEFINE r == Tail(q)
<1>1. /\ InSeq(r) /\ Head(q) = q[1] /\ DOMAIN q = 1 .. Len(q) /\ Len(q) \in Nat \ {0}
      /\ DOMAIN r = 1 .. Len(q) - 1 /\ \A i \in DOMAIN r : r[i] = q[i + 1]
  BY Taking DEF Carries
<1> HIDE DEF r
<1>2. Carries(r)
  <2>1. \A i \in DOMAIN r : i + 1 \in DOMAIN q  BY <1>1
  <2>2. \A i \in DOMAIN q : q[i].kind = "menu" => ItsOwn({q[i].owner}, q[i].rows)  BY DEF Carries
  <2> QED  BY <1>1, <2>1, <2>2 DEF Carries
<1>3. \A i \in DOMAIN r : i + 1 \in DOMAIN q /\ (NoList(r, i) => NoList(q, i + 1))
  <2> SUFFICES ASSUME NEW i \in DOMAIN r, NoList(r, i), NEW j \in DOMAIN q, j > i + 1
               PROVE  i + 1 \in DOMAIN q /\ q[j].kind # "items"
    BY <1>1 DEF NoList
  <2>1. j - 1 \in DOMAIN r /\ j - 1 > i /\ r[j - 1] = q[(j - 1) + 1] /\ (j - 1) + 1 = j  BY <1>1
  <2> QED  BY <1>1, <2>1 DEF NoList
<1>4. \A i \in DOMAIN r : r[i].kind = "items" /\ NoList(r, i) => r[i].items = its
  BY <1>1, <1>3 DEF LastList
<1>5. NoList(r, 0) => NoList(q, 1)
  <2> SUFFICES ASSUME NoList(r, 0), NEW j \in DOMAIN q, j > 1 PROVE q[j].kind # "items"
    BY DEF NoList
  <2>1. j - 1 \in DOMAIN r /\ j - 1 > 0 /\ r[j - 1] = q[(j - 1) + 1] /\ (j - 1) + 1 = j  BY <1>1
  <2> QED  BY <2>1 DEF NoList
<1>6. 1 \in DOMAIN q  BY <1>1
<1>7. Head(q).kind = "items" => LastList(r, Head(q).items, its)
  BY <1>1, <1>4, <1>5, <1>6 DEF LastList
<1>8. ASSUME Head(q).kind = "menu" PROVE LastList(r, tr, its)
  <2>1. NoList(r, 0) => NoList(q, 0)
    <3> SUFFICES ASSUME NoList(r, 0), NEW j \in DOMAIN q PROVE q[j].kind # "items"
      BY DEF NoList
    <3>1. CASE j = 1  BY <1>1, <1>8, <3>1
    <3>2. CASE j > 1  BY <1>5, <3>2 DEF NoList
    <3> QED  BY <1>1, <3>1, <3>2
  <2> QED  BY <1>4, <2>1 DEF LastList
<1>9. Head(q).kind = "menu" => ItsOwn({Head(q).owner}, Head(q).rows)  BY <1>1, <1>6 DEF Carries
<1> QED  BY <1>2, <1>7, <1>8, <1>9 DEF r

LEMMA TrayKeeps == ASSUME TrayInv, Tray!Next PROVE TrayInv'
<1>0. /\ zones = Tray!Drawn(tray) /\ ItsOwn(menu.owner, menu.rows)
      /\ menu = [open |-> menu.open, owner |-> menu.owner, rows |-> menu.rows]
      /\ Carries(channel) /\ LastList(channel, tray, items) /\ \A c \in clicked : c.to = c.on
  BY DEF TrayInv
<1>1. ASSUME NEW s \in Services, Tray!DetailsChange(s) \/ Tray!Register(s) PROVE TrayInv'
  BY <1>0, <1>1 DEF TrayInv, Tray!DetailsChange, Tray!Register
<1>2. ASSUME NEW t \in tasks, Tray!Resolve(t) PROVE TrayInv'
  BY <1>0, <1>2 DEF TrayInv, Tray!Resolve
<1>3. ASSUME NEW t \in tasks, Tray!List(t) PROVE TrayInv'
  <2>1. /\ items' = Tray!Listed(t)
        /\ channel' = Append(channel, [kind |-> "items", items |-> Tray!Listed(t)])
        /\ UNCHANGED << tray, zones, menu, clicked >>
    BY <1>3 DEF Tray!List
  <2>2. Carries(channel') /\ LastList(channel', tray', items')  BY <1>0, <2>1, ListSent
  <2> QED  BY <1>0, <2>1, <2>2 DEF TrayInv
<1>4. ASSUME NEW f \in fetches, Tray!Fetched(f) PROVE TrayInv'
  <2>1. UNCHANGED << items, tray, zones, menu, clicked >>  BY <1>4 DEF Tray!Fetched
  <2>2. ASSUME NEW m \in Menus,
               channel' = Append(channel, [kind |-> "menu", owner |-> f.service, rows |-> Tray!Parsed(f.service, m)])
        PROVE  Carries(channel') /\ LastList(channel', tray, items)
    <3>1. ItsOwn({f.service}, Tray!Parsed(f.service, m))  BY DEF ItsOwn, Tray!Parsed
    <3> QED  BY <1>0, <2>2, <3>1, MenuSent
  <2>3. Carries(channel') /\ LastList(channel', tray, items)  BY <1>0, <1>4, <2>2 DEF Tray!Fetched
  <2> QED  BY <1>0, <2>1, <2>3 DEF TrayInv
<1>5. ASSUME NEW i \in DOMAIN zones, Tray!Activate(i) \/ Tray!ContextMenu(i) PROVE TrayInv'
  <2>1. /\ UNCHANGED << items, channel, tray, zones >> /\ clicked' = Tray!Forwarded(i)
        /\ menu' \in { menu, Tray!Closed }
    BY <1>5 DEF Tray!Activate, Tray!ContextMenu
  <2>2. zones[i] = Tray!Hit(i)  BY <1>0 DEF Tray!Drawn, Tray!Hit
  <2>3. \A c \in clicked' : c.to = c.on  BY <2>1, <2>2 DEF Tray!Forwarded
  <2>4. /\ menu' = [open |-> menu'.open, owner |-> menu'.owner, rows |-> menu'.rows]
        /\ ItsOwn(menu'.owner, menu'.rows)
    BY <1>0, <2>1 DEF Tray!Closed, ItsOwn
  <2> QED  BY <1>0, <2>1, <2>3, <2>4 DEF TrayInv
<1>6. ASSUME NEW i \in DOMAIN menu.rows, Tray!ClickRow(i) PROVE TrayInv'
  <2>1. UNCHANGED << items, channel, tray, zones >> /\ clicked' = Tray!Sent(i) /\ menu' = Tray!Closed
    BY <1>6 DEF Tray!ClickRow
  <2>2. \A c \in clicked' : c.to = c.on  BY <1>0, <2>1 DEF Tray!Sent, ItsOwn
  <2>3. /\ menu' = [open |-> menu'.open, owner |-> menu'.owner, rows |-> menu'.rows]
        /\ ItsOwn(menu'.owner, menu'.rows)
    BY <2>1 DEF Tray!Closed, ItsOwn
  <2> QED  BY <1>0, <2>1, <2>2, <2>3 DEF TrayInv
<1>7. CASE Tray!ItemsChanged
  <2>1. /\ channel # << >> /\ Head(channel).kind = "items" /\ channel' = Tail(channel)
        /\ tray' = Head(channel).items /\ zones' = Tray!Drawn(tray') /\ UNCHANGED << items, clicked >>
        /\ menu' = [menu EXCEPT !.owner = {}]
    BY <1>7 DEF Tray!ItemsChanged
  <2>2. Carries(channel') /\ LastList(channel', tray', items')  BY <1>0, <2>1, Received
  <2>3. menu' = [open |-> menu.open, owner |-> {}, rows |-> menu.rows]  BY <1>0, <2>1
  <2>4. /\ menu' = [open |-> menu'.open, owner |-> menu'.owner, rows |-> menu'.rows]
        /\ ItsOwn(menu'.owner, menu'.rows)
    BY <2>3 DEF ItsOwn
  <2> QED  BY <1>0, <2>1, <2>2, <2>4 DEF TrayInv
<1>8. CASE Tray!MenuLayout
  <2>1. /\ channel # << >> /\ Head(channel).kind = "menu" /\ channel' = Tail(channel)
        /\ UNCHANGED << items, tray, zones, clicked >>
        /\ menu' = [open |-> TRUE, owner |-> {Head(channel).owner}, rows |-> Head(channel).rows]
    BY <1>8 DEF Tray!MenuLayout
  <2>2. /\ Carries(channel') /\ LastList(channel', tray', items')
        /\ ItsOwn({Head(channel).owner}, Head(channel).rows)
    BY <1>0, <2>1, Received
  <2>3. /\ menu' = [open |-> menu'.open, owner |-> menu'.owner, rows |-> menu'.rows]
        /\ ItsOwn(menu'.owner, menu'.rows)
    BY <2>1, <2>2
  <2> QED  BY <1>0, <2>1, <2>2, <2>3 DEF TrayInv
<1>9. CASE Tray!CloseMenu
  <2>1. UNCHANGED << items, channel, tray, zones, clicked >> /\ menu' = Tray!Closed
    BY <1>9 DEF Tray!CloseMenu
  <2>2. /\ menu' = [open |-> menu'.open, owner |-> menu'.owner, rows |-> menu'.rows]
        /\ ItsOwn(menu'.owner, menu'.rows)
    BY <2>1 DEF Tray!Closed, ItsOwn
  <2> QED  BY <1>0, <2>1, <2>2 DEF TrayInv
<1> QED  BY <1>1, <1>2, <1>3, <1>4, <1>5, <1>6, <1>7, <1>8, <1>9 DEF Tray!Next

LEMMA TrayStarts == Tray!Init => TrayInv
<1> SUFFICES ASSUME Tray!Init PROVE TrayInv  OBVIOUS
<1>1. /\ zones = << >> /\ tray = {} /\ items = {} /\ channel = << >> /\ clicked = {}
      /\ menu = Tray!Closed
  BY DEF Tray!Init
<1>2. Tray!Drawn({}) = << >>
  <2>1. Tray!Cardinality({}) = 0  BY FS_EmptySet DEF Tray!Cardinality, Cardinality
  <2> DEFINE n == IF PanelIcons < Tray!Cardinality({}) THEN PanelIcons ELSE Tray!Cardinality({})
             order == Tray!InOrder({})
  <2>2. 1 .. n = {}  BY <2>1, IconsAssumption
  <2>3. Tray!Drawn({}) = [i \in 1 .. n |-> order[i]]  BY DEF Tray!Drawn
  <2> HIDE DEF n, order
  <2> DEFINE d == Tray!Drawn({})
  <2>4. d = [i \in {} |-> order[i]]  BY <2>2, <2>3
  <2> HIDE DEF d
  <2>5. d \in Seq({}) /\ Len(d) = 0  BY <2>4
  <2>6. d = << >>  BY <2>5, EmptySeq
  <2> QED  BY <2>6 DEF d
<1>3. InSeq(<< >>) /\ Carries(<< >>) /\ LastList(<< >>, {}, {})  BY DEF InSeq, Carries, LastList
<1>4. /\ menu = [open |-> menu.open, owner |-> menu.owner, rows |-> menu.rows]
      /\ ItsOwn(menu.owner, menu.rows)
  BY <1>1 DEF Tray!Closed, ItsOwn
<1> QED  BY <1>1, <1>2, <1>3, <1>4 DEF TrayInv

LEMMA TrayGood == TrayInv => Tray!ReachesWhatIsDrawn /\ Tray!TraySettles
<1> SUFFICES ASSUME TrayInv PROVE Tray!ReachesWhatIsDrawn /\ Tray!TraySettles  OBVIOUS
<1>1. Tray!ReachesWhatIsDrawn  BY DEF TrayInv, Tray!ReachesWhatIsDrawn
<1>2. (\A i \in DOMAIN channel : channel[i].kind # "items") => tray = items
  BY DEF TrayInv, LastList, NoList
<1>3. Tray!TraySettles  BY <1>2 DEF TrayInv, Tray!TraySettles
<1> QED  BY <1>1, <1>3

\* However registrations, lists and menus overtake each other: a click reaches the application
\* whose icon or row is drawn, and when no list is under way the panel shows what is listed.
THEOREM TrayReaches == Spec => []TrayAgrees
<1> DEFINE I == part = "tray" => TrayInv
<1>1. Init => I  BY StartsItsOwn, TrayStarts
<1>2. I /\ [Next]_vars => I'
  <2>1. TrayInv /\ UNCHANGED vars => TrayInv'
    <3> SUFFICES ASSUME TrayInv, UNCHANGED vars PROVE TrayInv'  OBVIOUS
    <3>1. UNCHANGED << zones, tray, menu, channel, items, clicked >>  BY DEF vars
    <3> QED  BY <3>1 DEF TrayInv
  <2> QED  BY <2>1, OnlyItsOwn, TrayKeeps
<1>3. I => TrayAgrees
  <2> SUFFICES ASSUME part = "tray", TrayInv
               PROVE  Tray!ReachesWhatIsDrawn /\ Tray!TraySettles
    BY DEF TrayAgrees
  <2> QED  BY TrayGood
<1> QED  BY <1>1, <1>2, <1>3, PTL DEF Spec
-----------------------------------------------------------------------------
(* The web helpers.  What a helper shows and which theme it has come over  *)
(* a pipe it reads when it gets to it, so the invariant is about the last  *)
(* line on the way that decides the one or the other: it agrees with the   *)
(* shell's mirror, and it carries the theme in use; when no such line is   *)
(* on the way, what the helper shows does.                                 *)

\* What the shell writes, the lines that say whether a helper is shown, and which, and those
\* that say its theme.
Line == { l \in [verb : { "theme", "hide", "show", "show-settings" },
                 theme : Web!Themes \cup { "none" }, valid : BOOLEAN] : l.theme # "none" => l.valid }
Decides   == { l \in Line : l.valid /\ l.verb # "theme" }
Recolours == { l \in Line : l.valid /\ l.theme # "none" }

\* The verb and the mirror agree, as far as Web!MirrorAgrees asks for it.
Agrees(h, verb, mirror) == /\ verb # "hide" => mirror = "visible"
                           /\ h = "launcher" /\ mirror = "visible" => verb # "hide"
VerbOf(shown) == IF shown = "hidden" THEN "hide" ELSE "show"

Agreeing(h, mirror) == { l \in Line : Agrees(h, l.verb, mirror) }
Coloured(t) == { l \in Line : l.theme = t }

\* After place n of q there is no line of D; the last line of D in q is one of F.
Without(q, n, D) == \A j \in DOMAIN q : j > n => q[j] \notin D
LastIn(q, D, F) == \A i \in DOMAIN q : q[i] \in D /\ Without(q, i, D) => q[i] \in F

\* The last line of D that r has not read is one of F; there is none.
Ending(r, D, F) == LastIn(r.pipe, D, F) /\ (Without(r.pipe, 0, D) => LastIn(r.buf, D, F))
Done(r, D) == Without(r.pipe, 0, D) /\ Without(r.buf, 0, D)

IsHelper(r) ==
  /\ r = [at |-> r.at, pipe |-> r.pipe, buf |-> r.buf, shown |-> r.shown, theme |-> r.theme]
  /\ r.pipe \in Seq(Line) /\ r.buf \in Seq(Line)

Mirrored(h, mirror, r) ==
  /\ mirror \in { "none", "visible", "hidden" }
  /\ r.at # "gone" => /\ mirror # "none"
                      /\ Ending(r, Decides, Agreeing(h, mirror))
                      /\ Done(r, Decides) => Agrees(h, VerbOf(r.shown), mirror)

WillTurn(r, t) == r.at # "gone" => Ending(r, Recolours, Coloured(t))
HasTurned(r, t) == r.at # "gone" /\ Done(r, Recolours) => r.theme = t

WebInv ==
  /\ DOMAIN held = Web!Helpers /\ DOMAIN helper = Web!Helpers
  /\ theme \in Web!Themes /\ saved \in Web!Themes /\ refresh \in Web!Themes \cup { "none" }
  /\ \A h \in Web!Helpers : IsHelper(helper[h]) /\ Mirrored(h, held[h], helper[h])
  /\ enabled =>
       /\ refresh \in { "none", theme } /\ held["panel"] # "none"
       /\ \A h \in Web!Popups : WillTurn(helper[h], theme)
       /\ HasTurned(helper["quick"], theme)
       /\ ~ guess => HasTurned(helper["launcher"], theme)
       /\ refresh = "none" => WillTurn(helper["panel"], theme) /\ HasTurned(helper["panel"], theme)
-----------------------------------------------------------------------------
\* The lines the shell writes, and what they decide.
LEMMA SaysShow == /\ \A t \in Web!Themes :
                       /\ Web!Tell(t) \in Line /\ Web!Tell(t) \notin Decides
                       /\ Web!Tell(t) \in Recolours /\ Web!Tell(t) \in Coloured(t)
                  /\ Web!Hide \in Line /\ Web!Hide \in Decides /\ Web!Hide.verb = "hide"
                  /\ Web!Hide \notin Recolours
                  /\ \A h : /\ Web!Show(h) \in Line /\ Web!Show(h).verb = "show" /\ Web!Show(h) \notin Recolours
                            /\ h # "quick" => Web!Show(h) \in Decides
                  /\ theme \in Web!Themes =>
                       /\ Web!ShowSettings \in Line /\ Web!ShowSettings \in Decides
                       /\ Web!ShowSettings.verb = "show-settings"
                       /\ Web!ShowSettings \in Recolours /\ Web!ShowSettings \in Coloured(theme)
<1>1. ASSUME NEW t \in Web!Themes
      PROVE  /\ Web!Tell(t) \in Line /\ Web!Tell(t) \notin Decides /\ Web!Tell(t) \in Recolours
             /\ Web!Tell(t) \in Coloured(t)
  BY DEF Web!Tell, Line, Decides, Recolours, Coloured, Web!Themes
<1>2. Web!Hide \in Line /\ Web!Hide \in Decides /\ Web!Hide.verb = "hide" /\ Web!Hide \notin Recolours
  BY DEF Web!Hide, Line, Decides, Recolours, Web!Themes
<1>3. ASSUME NEW h
      PROVE  /\ Web!Show(h) \in Line /\ Web!Show(h).verb = "show" /\ Web!Show(h) \notin Recolours
             /\ h # "quick" => Web!Show(h) \in Decides
  BY DEF Web!Show, Line, Decides, Recolours, Web!Themes
<1>4. theme \in Web!Themes =>
        /\ Web!ShowSettings \in Line /\ Web!ShowSettings \in Decides
        /\ Web!ShowSettings.verb = "show-settings"
        /\ Web!ShowSettings \in Recolours /\ Web!ShowSettings \in Coloured(theme)
  BY DEF Web!ShowSettings, Line, Decides, Recolours, Coloured, Web!Themes
<1> QED  BY <1>1, <1>2, <1>3, <1>4

\* A line more at the end of a queue.
LEMMA Added ==
    ASSUME NEW S, NEW q \in Seq(S), NEW e \in S, NEW D, NEW F
    PROVE  /\ q \o << e >> \in Seq(S) /\ Append(q, e) = q \o << e >>
           /\ e \in D => /\ ~ Without(q \o << e >>, 0, D)
                         /\ e \in F => LastIn(q \o << e >>, D, F)
           /\ e \notin D => /\ Without(q \o << e >>, 0, D) => Without(q, 0, D)
                            /\ LastIn(q, D, F) => LastIn(q \o << e >>, D, F)
<1> DEFINE r == q \o << e >>
<1>1. /\ r \in Seq(S) /\ Len(r) = Len(q) + 1 /\ r[Len(q) + 1] = e
      /\ \A i \in 1 .. Len(q) : r[i] = q[i]
  <2>1. << e >> \in Seq(S) /\ Len(<< e >>) = 1 /\ << e >>[1] = e /\ Len(q) \in Nat  OBVIOUS
  <2> HIDE DEF r
  <2>2. /\ r \in Seq(S) /\ Len(r) = Len(q) + 1
        /\ \A i \in 1 .. Len(q) + 1 : r[i] = IF i <= Len(q) THEN q[i] ELSE << e >>[i - Len(q)]
    BY <2>1, ConcatProperties DEF r
  <2>3. r[Len(q) + 1] = << e >>[1]  BY <2>1, <2>2
  <2> QED  BY <2>1, <2>2, <2>3
<1>2. Append(q, e) = r
  <2> HIDE DEF r
  <2>1. /\ Append(q, e) \in Seq(S) /\ Len(Append(q, e)) = Len(q) + 1
        /\ \A i \in 1 .. Len(q) + 1 : Append(q, e)[i] = r[i]
    BY <1>1
  <2> QED  BY <1>1, <2>1, SeqEqual
<1> HIDE DEF r
<1>3. DOMAIN q = 1 .. Len(q) /\ DOMAIN r = 1 .. Len(q) + 1 /\ Len(q) \in Nat  BY <1>1
<1>4. ASSUME e \in D PROVE ~ Without(r, 0, D) /\ (e \in F => LastIn(r, D, F))
  BY <1>1, <1>3, <1>4 DEF Without, LastIn
<1>5. ASSUME e \notin D
      PROVE  /\ \A n : Without(r, n, D) => Without(q, n, D)
             /\ LastIn(q, D, F) => LastIn(r, D, F)
  <2>1. \A n : Without(r, n, D) => Without(q, n, D)  BY <1>1, <1>3 DEF Without
  <2>2. \A i \in DOMAIN r : r[i] \in D => i \in DOMAIN q /\ r[i] = q[i]  BY <1>1, <1>3, <1>5
  <2> QED  BY <2>1, <2>2 DEF LastIn
<1> QED  BY <1>1, <1>2, <1>4, <1>5 DEF r

\* A line less at its front.
LEMMA Removed ==
    ASSUME NEW S, NEW q \in Seq(S), q # << >>, NEW D, NEW F
    PROVE  /\ Tail(q) \in Seq(S) /\ Head(q) \in S
           /\ LastIn(q, D, F) => /\ LastIn(Tail(q), D, F)
                                 /\ Without(Tail(q), 0, D) /\ Head(q) \in D => Head(q) \in F
           /\ Without(Tail(q), 0, D) /\ Head(q) \notin D => Without(q, 0, D)
           /\ Without(q, 0, D) => Without(Tail(q), 0, D)
<1> DEFINE r == Tail(q)
<1>1. /\ r \in Seq(S) /\ Head(q) = q[1] /\ Len(q) \in Nat \ {0} /\ DOMAIN q = 1 .. Len(q)
      /\ DOMAIN r = 1 .. Len(q) - 1 /\ \A i \in DOMAIN r : r[i] = q[i + 1]
      /\ \A i \in DOMAIN q : q[i] \in S
  OBVIOUS
<1> HIDE DEF r
<1>2. \A j \in DOMAIN q : j > 1 => j - 1 \in DOMAIN r /\ r[j - 1] = q[j]  BY <1>1
<1>3. \A i \in DOMAIN r \cup {0} : Without(r, i, D) => Without(q, i + 1, D)
  <2> SUFFICES ASSUME NEW i \in DOMAIN r \cup {0}, Without(r, i, D), NEW j \in DOMAIN q, j > i + 1
               PROVE  q[j] \notin D
    BY DEF Without
  <2>1. j > 1 /\ j - 1 > i  BY <1>1
  <2> QED  BY <1>2, <2>1 DEF Without
<1>4. LastIn(q, D, F) => LastIn(r, D, F)  BY <1>1, <1>3 DEF LastIn
<1>5. LastIn(q, D, F) /\ Without(r, 0, D) /\ Head(q) \in D => Head(q) \in F
  <2>1. Without(r, 0, D) => Without(q, 1, D)  BY <1>3
  <2> QED  BY <1>1, <2>1 DEF LastIn
<1>6. Without(r, 0, D) /\ Head(q) \notin D => Without(q, 0, D)
  <2>1. Without(r, 0, D) => Without(q, 1, D)  BY <1>3
  <2> QED  BY <1>1, <2>1 DEF Without
<1>7. Without(q, 0, D) => Without(r, 0, D)  BY <1>1 DEF Without
<1> QED  BY <1>1, <1>4, <1>5, <1>6, <1>7 DEF r

\* The empty queue.
LEMMA Nothing == \A D, F : /\ << >> \in Seq(Line) /\ Without(<< >>, 0, D) /\ LastIn(<< >>, D, F)
BY DEF Without, LastIn

\* A queue of one line.
LEMMA Lone ==
    ASSUME NEW e \in Line, NEW D, NEW F
    PROVE  /\ << e >> \in Seq(Line)
           /\ e \notin D \/ e \in F => LastIn(<< e >>, D, F)
           /\ Without(<< e >>, 0, D) => e \notin D
BY DEF Without, LastIn

\* After `d` and `e`, `e` decides, or else `d`.
LEMMA Pair ==
    ASSUME NEW d \in Line, NEW e \in Line, NEW D, NEW F
    PROVE  /\ << d, e >> \in Seq(Line)
           /\ e \in D /\ e \in F => LastIn(<< d, e >>, D, F)
           /\ e \notin D /\ d \in F => LastIn(<< d, e >>, D, F)
           /\ Without(<< d, e >>, 0, D) => e \notin D
<1> DEFINE q == << d, e >>
<1>1. q \in Seq(Line) /\ DOMAIN q = 1 .. 2 /\ q[1] = d /\ q[2] = e  OBVIOUS
<1> HIDE DEF q
<1>2. Without(q, 1, D) => e \notin D  BY <1>1 DEF Without
<1>3. e \in D /\ e \in F => LastIn(q, D, F)  BY <1>1, <1>2 DEF LastIn
<1>4. e \notin D /\ d \in F => LastIn(q, D, F)  BY <1>1 DEF LastIn
<1>5. Without(q, 0, D) => e \notin D  BY <1>1 DEF Without
<1> QED  BY <1>1, <1>3, <1>4, <1>5 DEF q

\* What a write leaves of a helper: a line more, in the pipe or in what it has not read.
LEMMA WriteIs ==
    ASSUME NEW r, IsHelper(r), NEW e \in Line
    PROVE  LET s == [r EXCEPT !.pipe = @ \o << e >>] IN
             /\ IsHelper(s) /\ s.at = r.at /\ s.pipe = r.pipe \o << e >> /\ s.buf = r.buf
             /\ s.shown = r.shown /\ s.theme = r.theme
<1> DEFINE s == [r EXCEPT !.pipe = @ \o << e >>]
<1>1. r = [at |-> r.at, pipe |-> r.pipe, buf |-> r.buf, shown |-> r.shown, theme |-> r.theme]
      /\ r.pipe \in Seq(Line) /\ r.buf \in Seq(Line)
  BY DEF IsHelper
<1>2. s = [at |-> r.at, pipe |-> r.pipe \o << e >>, buf |-> r.buf, shown |-> r.shown, theme |-> r.theme]
  <2> DEFINE q == r.pipe \o << e >>
  <2>1. s = [r EXCEPT !.pipe = q]  OBVIOUS
  <2> HIDE DEF s, q
  <2>2. s = [at |-> r.at, pipe |-> q, buf |-> r.buf, shown |-> r.shown, theme |-> r.theme]
    BY <1>1, <2>1
  <2> QED  BY <2>2 DEF q
<1> HIDE DEF s
<1>3. /\ s.at = r.at /\ s.pipe = r.pipe \o << e >> /\ s.buf = r.buf /\ s.shown = r.shown
      /\ s.theme = r.theme
  BY <1>2
<1>4. s.pipe \in Seq(Line)  BY <1>1, <1>3, Added
<1>5. IsHelper(s)  BY <1>1, <1>2, <1>3, <1>4 DEF IsHelper
<1> QED  BY <1>3, <1>5 DEF s

\* What a helper will have read with one more line.
LEMMA WriteEnds ==
    ASSUME NEW r, IsHelper(r), NEW e \in Line, NEW s,
           s.pipe = r.pipe \o << e >>, s.buf = r.buf, NEW D, NEW F
    PROVE  /\ e \in D => ~ Done(s, D) /\ (e \in F => Ending(s, D, F))
           /\ e \notin D => (Done(s, D) => Done(r, D)) /\ (Ending(r, D, F) => Ending(s, D, F))
<1>1. r.pipe \in Seq(Line)  BY DEF IsHelper
<1>2. /\ e \in D => ~ Without(s.pipe, 0, D) /\ (e \in F => LastIn(s.pipe, D, F))
      /\ e \notin D => /\ Without(s.pipe, 0, D) => Without(r.pipe, 0, D)
                       /\ LastIn(r.pipe, D, F) => LastIn(s.pipe, D, F)
  <2> DEFINE p == r.pipe
             q == p \o << e >>
  <2>1. /\ e \in D => /\ ~ Without(q, 0, D)
                      /\ e \in F => LastIn(q, D, F)
        /\ e \notin D => /\ Without(q, 0, D) => Without(p, 0, D)
                         /\ LastIn(p, D, F) => LastIn(q, D, F)
    <3> HIDE DEF p
    <3>1. p \in Seq(Line)  BY <1>1 DEF p
    <3> QED  BY <3>1, Added
  <2>2. s.pipe = q  OBVIOUS
  <2> HIDE DEF q
  <2> QED  BY <2>1, <2>2
<1> QED  BY <1>2 DEF Ending, Done

\* What a helper will have read after its next line.
NextLine(r) == IF r.buf # << >> THEN Head(r.buf) ELSE Head(r.pipe)
Rest(r) == IF r.buf # << >> THEN Tail(r.buf) ELSE Tail(r.pipe)
Unread(r) == IF r.buf # << >> THEN r.pipe ELSE << >>

\* What a helper has not read once it has read a line.
LEMMA ReadEnds ==
    ASSUME NEW r, IsHelper(r), r.pipe # << >>, NEW s, s.pipe = Unread(r), s.buf = Rest(r),
           NEW D, NEW F
    PROVE  /\ s.pipe \in Seq(Line) /\ s.buf \in Seq(Line) /\ NextLine(r) \in Line
           /\ Ending(r, D, F) => Ending(s, D, F)
           /\ Done(s, D) => /\ NextLine(r) \in D /\ Ending(r, D, F) => NextLine(r) \in F
                            /\ NextLine(r) \notin D => Done(r, D)
<1>0. r.pipe \in Seq(Line) /\ r.buf \in Seq(Line)  BY DEF IsHelper
<1>1. CASE r.buf # << >>
  <2>1. s.pipe = r.pipe /\ s.buf = Tail(r.buf) /\ NextLine(r) = Head(r.buf)
    BY <1>1 DEF Unread, Rest, NextLine
  <2>2. /\ Tail(r.buf) \in Seq(Line) /\ Head(r.buf) \in Line
        /\ LastIn(r.buf, D, F) => /\ LastIn(Tail(r.buf), D, F)
                                  /\ Without(Tail(r.buf), 0, D) /\ Head(r.buf) \in D => Head(r.buf) \in F
        /\ Without(Tail(r.buf), 0, D) /\ Head(r.buf) \notin D => Without(r.buf, 0, D)
    BY <1>0, <1>1, Removed
  <2> QED  BY <1>0, <2>1, <2>2 DEF Ending, Done
<1>2. CASE r.buf = << >>
  <2>1. s.pipe = << >> /\ s.buf = Tail(r.pipe) /\ NextLine(r) = Head(r.pipe)
    BY <1>2 DEF Unread, Rest, NextLine
  <2>2. /\ Tail(r.pipe) \in Seq(Line) /\ Head(r.pipe) \in Line
        /\ LastIn(r.pipe, D, F) => /\ LastIn(Tail(r.pipe), D, F)
                                   /\ Without(Tail(r.pipe), 0, D) /\ Head(r.pipe) \in D => Head(r.pipe) \in F
        /\ Without(Tail(r.pipe), 0, D) /\ Head(r.pipe) \notin D => Without(r.pipe, 0, D)
    BY <1>0, Removed
  <2>3. << >> \in Seq(Line) /\ Without(<< >>, 0, D) /\ LastIn(<< >>, D, F)  BY Nothing
  <2> QED  BY <1>0, <1>2, <2>1, <2>2, <2>3 DEF Ending, Done
<1> QED  BY <1>1, <1>2

-----------------------------------------------------------------------------
\* The shell's tables for h go from what they are to u.
Fares(h, u) ==
  /\ IsHelper(u.helper) /\ Mirrored(h, u.held, u.helper)
  /\ WillTurn(helper[h], theme) => WillTurn(u.helper, theme)
  /\ HasTurned(helper[h], theme) => HasTurned(u.helper, theme)

LEMMA GoneIs == IsHelper(Web!Gone) /\ Web!Gone.at = "gone"
BY Nothing DEF IsHelper, Web!Gone

\* A helper that is gone is behind nothing.
LEMMA GoneFine ==
    ASSUME NEW h, NEW mirror \in { "none", "visible", "hidden" }, NEW t
    PROVE  /\ IsHelper(Web!Gone) /\ Mirrored(h, mirror, Web!Gone) /\ WillTurn(Web!Gone, t)
           /\ HasTurned(Web!Gone, t)
BY GoneIs DEF Mirrored, WillTurn, HasTurned

\* A write of one line that makes the mirror what it says.
LEMMA Writes ==
    ASSUME NEW h, IsHelper(helper[h]), Mirrored(h, held[h], helper[h]), NEW e \in Line,
           NEW to \in { "visible", "hidden" }, NEW u, u = Web!Written(h, << e >>, to),
           \/ e \in Decides /\ Agrees(h, e.verb, to)
           \/ h # "launcher" /\ to = "visible"
           \/ e \notin Decides /\ to = held[h]
    PROVE  /\ IsHelper(u.helper) /\ Mirrored(h, u.held, u.helper)
           /\ \A t : e \in Recolours /\ e \in Coloured(t) =>
                       WillTurn(u.helper, t) /\ HasTurned(u.helper, t)
           /\ \A t : e \notin Recolours => /\ WillTurn(helper[h], t) => WillTurn(u.helper, t)
                                           /\ HasTurned(helper[h], t) => HasTurned(u.helper, t)
           /\ u.helper.at = helper[h].at
           /\ u.held = IF Web!Running(h) THEN to ELSE "none"
<1>1. CASE ~ Web!Running(h)
  <2>1. u.helper = Web!Gone /\ u.held = "none" /\ helper[h].at = "gone"
    BY <1>1 DEF Web!Written, Web!Running
  <2> QED  BY <1>1, <2>1, GoneFine, GoneIs
<1>2. CASE Web!Running(h)
  <2> DEFINE r == helper[h]
             s == [r EXCEPT !.pipe = @ \o << e >>]
  <2>1. u.helper = s /\ u.held = to /\ r.at # "gone"
    BY <1>2 DEF Web!Written, Web!Running
  <2>2. /\ IsHelper(s) /\ s.at = r.at /\ s.pipe = r.pipe \o << e >> /\ s.buf = r.buf
        /\ s.shown = r.shown /\ s.theme = r.theme
    BY WriteIs
  <2> HIDE DEF s
  <2>3. \A D, F : /\ e \in D => ~ Done(s, D) /\ (e \in F => Ending(s, D, F))
                  /\ e \notin D => (Done(s, D) => Done(r, D)) /\ (Ending(r, D, F) => Ending(s, D, F))
    BY <2>2, WriteEnds
  <2>4. Mirrored(h, to, s)
    <3>1. CASE e \in Decides /\ Agrees(h, e.verb, to)
      <4>1. e \in Agreeing(h, to)  BY <3>1 DEF Agreeing
      <4> QED  BY <2>3, <3>1, <4>1 DEF Mirrored
    <3>2. CASE h # "launcher" /\ to = "visible"
      <4>1. \A v : Agrees(h, v, to)  BY <3>2 DEF Agrees
      <4>2. s.pipe \in Seq(Line) /\ s.buf \in Seq(Line)  BY <2>2 DEF IsHelper
      <4>3. Agreeing(h, to) = Line  BY <4>1 DEF Agreeing
      <4>4. Ending(s, Decides, Agreeing(h, to))  BY <4>2, <4>3 DEF Ending, LastIn
      <4> QED  BY <4>1, <4>4 DEF Mirrored
    <3>3. CASE e \notin Decides /\ to = held[h]
      <4>1. /\ Ending(r, Decides, Agreeing(h, to)) /\ (Done(r, Decides) => Agrees(h, VerbOf(r.shown), to))
        BY <2>1, <3>3 DEF Mirrored
      <4> QED  BY <2>2, <2>3, <3>3, <4>1 DEF Mirrored
    <3> QED  BY <3>1, <3>2, <3>3
  <2>5. ASSUME NEW t, e \in Recolours, e \in Coloured(t) PROVE WillTurn(s, t) /\ HasTurned(s, t)
    BY <2>3, <2>5 DEF WillTurn, HasTurned
  <2>6. ASSUME NEW t, e \notin Recolours
        PROVE  (WillTurn(r, t) => WillTurn(s, t)) /\ (HasTurned(r, t) => HasTurned(s, t))
    BY <2>2, <2>3, <2>6 DEF WillTurn, HasTurned
  <2> QED  BY <1>2, <2>1, <2>2, <2>4, <2>5, <2>6
<1> QED  BY <1>1, <1>2

\* A process that is started with some lines, or is not started.
LEMMA Spawns ==
    ASSUME NEW h, NEW lines \in Seq(Line), NEW to \in { "visible", "hidden" },
           LastIn(lines, Decides, Agreeing(h, to)),
           Without(lines, 0, Decides) => Agrees(h, "hide", to),
           LastIn(lines, Recolours, Coloured(theme)), NEW u \in Web!Spawned(lines, to)
    PROVE  /\ IsHelper(u.helper) /\ Mirrored(h, u.held, u.helper)
           /\ WillTurn(u.helper, theme) /\ HasTurned(u.helper, theme)
<1>1. CASE u = [held |-> "none", helper |-> Web!Gone]
  <2>1. u.held = "none" /\ u.helper = Web!Gone  BY <1>1
  <2> QED  BY <2>1, GoneFine
<1>2. CASE u = [held |-> to, helper |-> Web!Started(lines)]
  <2> DEFINE s == Web!Started(lines)
  <2>1. /\ s.at = "starting" /\ s.pipe = lines /\ s.buf = << >> /\ s.shown = "hidden" /\ s.theme = theme
        /\ s = [at |-> s.at, pipe |-> s.pipe, buf |-> s.buf, shown |-> s.shown, theme |-> s.theme]
    BY DEF Web!Started
  <2>2. u.held = to /\ u.helper = s  BY <1>2
  <2> HIDE DEF s
  <2>3. IsHelper(s)  BY <2>1, Nothing DEF IsHelper
  <2>4. \A D, F : LastIn(lines, D, F) => Ending(s, D, F)  BY <2>1, Nothing DEF Ending
  <2>5. Mirrored(h, to, s)  BY <2>1, <2>4 DEF Mirrored, VerbOf, Done
  <2>6. WillTurn(s, theme) /\ HasTurned(s, theme)  BY <2>1, <2>4 DEF WillTurn, HasTurned
  <2> QED  BY <2>2, <2>3, <2>5, <2>6
<1> QED  BY <1>1, <1>2 DEF Web!Spawned

\* What the invariant says of one helper.
LEMMA TypeOf ==
    ASSUME WebInv
    PROVE  /\ DOMAIN held = Web!Helpers /\ DOMAIN helper = Web!Helpers /\ theme \in Web!Themes
           /\ saved \in Web!Themes
           /\ refresh \in Web!Themes \cup { "none" }
           /\ \A h \in Web!Helpers : IsHelper(helper[h]) /\ Mirrored(h, held[h], helper[h])
           /\ \A h \in Web!Helpers : Web!Running(h) => held[h] \in { "visible", "hidden" }
BY DEF WebInv, Mirrored, Web!Running

\* A step of the shell that leaves its theme alone.
LEMMA Became ==
    ASSUME WebInv, NEW u, Web!Become(u), DOMAIN u \subseteq Web!Popups, UNCHANGED << enabled, theme, refresh, guess >>,
           saved' \in Web!Themes, \A h \in DOMAIN u : Fares(h, u[h])
    PROVE  WebInv'
<1>1. /\ DOMAIN held' = Web!Helpers /\ DOMAIN helper' = Web!Helpers
      /\ \A h \in Web!Helpers \ DOMAIN u : held'[h] = held[h] /\ helper'[h] = helper[h]
      /\ \A h \in DOMAIN u : held'[h] = u[h].held /\ helper'[h] = u[h].helper
  BY DEF Web!Become, Web!Popups, Web!Helpers
<1>2. \A h \in Web!Helpers : IsHelper(helper'[h]) /\ Mirrored(h, held'[h], helper'[h])
  BY <1>1, TypeOf DEF Fares
<1>3. \A h \in Web!Helpers : /\ WillTurn(helper[h], theme) => WillTurn(helper'[h], theme)
                             /\ HasTurned(helper[h], theme) => HasTurned(helper'[h], theme)
  BY <1>1 DEF Fares
<1>4. /\ "panel" \notin DOMAIN u /\ Web!Helpers = Web!Popups \cup { "panel" }
      /\ Web!Popups = { "launcher", "quick" }
  BY DEF Web!Popups, Web!Helpers
<1>5. held'["panel"] = held["panel"]  BY <1>1, <1>4
<1>6. enabled' =>
       /\ refresh' \in { "none", theme' } /\ held'["panel"] # "none"
       /\ \A h \in Web!Popups : WillTurn(helper'[h], theme')
       /\ HasTurned(helper'["quick"], theme')
       /\ ~ guess' => HasTurned(helper'["launcher"], theme')
       /\ refresh' = "none" => WillTurn(helper'["panel"], theme') /\ HasTurned(helper'["panel"], theme')
  BY <1>3, <1>4, <1>5 DEF WebInv
<1> QED  BY <1>1, <1>2, <1>6, TypeOf DEF WebInv

\* A step of the shell that writes to one helper only.
LEMMA BecameOne ==
    ASSUME WebInv, NEW h \in Web!Popups, NEW u, Web!Become(Web!Of(h, u)), Fares(h, u),
           UNCHANGED << enabled, theme, refresh, guess >>, saved' \in Web!Themes
    PROVE  WebInv'
<1> DEFINE w == Web!Of(h, u)
<1>1. DOMAIN w = {h} /\ w[h] = u  BY DEF Web!Of
<1>2. Web!Become(w)  OBVIOUS
<1> HIDE DEF w
<1>3. DOMAIN w \subseteq Web!Popups /\ \A x \in DOMAIN w : Fares(x, w[x])  BY <1>1
<1> QED  BY <1>2, <1>3, Became

\* A helper the shell leaves alone.
LEMMA Same == ASSUME WebInv, NEW h \in Web!Helpers PROVE Fares(h, Web!Unchanged(h))
<1>1. Web!Unchanged(h).held = held[h] /\ Web!Unchanged(h).helper = helper[h]
  BY DEF Web!Unchanged
<1> QED  BY <1>1, TypeOf DEF Fares

\* A toggle of a popup.
LEMMA Toggles ==
    ASSUME WebInv, NEW h \in Web!Popups, NEW spawned \in Seq(Line),
           LastIn(spawned, Decides, Agreeing(h, "visible")),
           Without(spawned, 0, Decides) => Agrees(h, "hide", "visible"),
           LastIn(spawned, Recolours, Coloured(theme)), NEW u \in Web!Toggle(h, spawned)
    PROVE  Fares(h, u)
<1>1. /\ h \in Web!Helpers /\ IsHelper(helper[h]) /\ Mirrored(h, held[h], helper[h])
      /\ Web!Hide \in Line /\ Web!Hide \in Decides /\ Web!Hide.verb = "hide" /\ Web!Hide \notin Recolours
      /\ Web!Show(h) \in Line /\ Web!Show(h).verb = "show" /\ Web!Show(h) \notin Recolours
      /\ h # "quick" => Web!Show(h) \in Decides
  BY TypeOf, SaysShow DEF Web!Helpers
<1>2. CASE u = Web!Written(h, << Web!Hide >>, "hidden")
  <2>1. Agrees(h, "hide", "hidden")  BY DEF Agrees
  <2> QED  BY <1>1, <1>2, <2>1, Writes DEF Fares
<1>3. CASE u = Web!Written(h, << Web!Show(h) >>, "visible")
  <2>1. Agrees(h, "show", "visible")  BY DEF Agrees
  <2>2. \/ Web!Show(h) \in Decides /\ Agrees(h, Web!Show(h).verb, "visible")
        \/ h = "quick"
    BY <1>1, <2>1
  <2> QED  BY <1>1, <1>3, <2>2, Writes DEF Fares
<1>4. CASE u \in Web!Spawned(spawned, "visible")  BY <1>4, Spawns DEF Fares
<1> QED  BY <1>2, <1>3, <1>4 DEF Web!Toggle

\* refresh_web_appearance, refresh_web_settings: another line with the theme t.
LEMMA Refreshes ==
    ASSUME NEW h, NEW u, u = [held |-> u.held, helper |-> u.helper], IsHelper(u.helper),
           Mirrored(h, u.held, u.helper), NEW t \in Web!Themes
    PROVE  LET v == Web!Refreshed(u, t) IN
             /\ IsHelper(v.helper) /\ Mirrored(h, v.held, v.helper)
             /\ WillTurn(u.helper, t) => WillTurn(v.helper, t)
             /\ HasTurned(u.helper, t) => HasTurned(v.helper, t)
<1> DEFINE v == Web!Refreshed(u, t)
<1>1. CASE v = u  BY <1>1
<1>2. CASE u.held # "none" /\ u.helper.at # "gone"
  <2> DEFINE r == u.helper
             s == [r EXCEPT !.pipe = Append(@, Web!Tell(t))]
  <2>0. /\ Web!Tell(t) \in Line /\ Web!Tell(t) \notin Decides /\ Web!Tell(t) \in Recolours
        /\ Web!Tell(t) \in Coloured(t)
    BY SaysShow
  <2>1. v = [held |-> u.held, helper |-> s]
    <3>1. v = [u EXCEPT !.helper = s]  BY <1>2 DEF Web!Refreshed
    <3> HIDE DEF v, s
    <3> QED  BY <3>1
  <2>2. s = [r EXCEPT !.pipe = @ \o << Web!Tell(t) >>]
    <3>1. r.pipe \in Seq(Line)  BY DEF IsHelper
    <3>2. Append(r.pipe, Web!Tell(t)) = r.pipe \o << Web!Tell(t) >>
      BY <2>0, <3>1, Added
    <3> QED  BY <3>2
  <2> HIDE DEF v
  <2>3. v.held = u.held /\ v.helper = s  BY <2>1
  <2>4. /\ IsHelper(s) /\ s.at = r.at /\ s.pipe = r.pipe \o << Web!Tell(t) >> /\ s.buf = r.buf
        /\ s.shown = r.shown /\ s.theme = r.theme
    BY <2>0, <2>2, WriteIs
  <2> HIDE DEF s
  <2>5. \A D, F : /\ Web!Tell(t) \in D => ~ Done(s, D) /\ (Web!Tell(t) \in F => Ending(s, D, F))
                  /\ Web!Tell(t) \notin D => (Done(s, D) => Done(r, D)) /\ (Ending(r, D, F) => Ending(s, D, F))
    BY <2>0, <2>4, WriteEnds
  <2>6. Mirrored(h, u.held, s)  BY <2>0, <2>4, <2>5 DEF Mirrored
  <2>7. WillTurn(s, t) /\ HasTurned(s, t)  BY <2>0, <2>5 DEF WillTurn, HasTurned
  <2> QED  BY <2>3, <2>4, <2>6, <2>7 DEF v
<1> QED  BY <1>1, <1>2 DEF Web!Refreshed

\* What the bar and the socket do to one helper.
LEMMA ShellKeeps ==
    ASSUME WebInv,
           \/ Web!ToggleLauncher \/ Web!ToggleQuickSettings \/ Web!OpenSystemSettings \/ Web!Refresh
           \/ \E t \in Web!Themes : Web!AppearanceThemeSet(t)
    PROVE  WebInv'
<1>0. /\ theme \in Web!Themes /\ saved \in Web!Themes /\ Web!Popups = { "launcher", "quick" }
      /\ Web!Popups \subseteq Web!Helpers
      /\ \A h \in Web!Helpers : IsHelper(helper[h]) /\ Mirrored(h, held[h], helper[h])
  BY TypeOf DEF Web!Popups, Web!Helpers
<1>2. CASE Web!ToggleLauncher
  <2> DEFINE q == << Web!Tell(theme), Web!Show("launcher") >>
  <2>1. UNCHANGED << enabled, theme, saved, refresh, guess >>  BY <1>2 DEF Web!ToggleLauncher
  <2>2. CASE UNCHANGED << held, helper >>  BY <2>1, <2>2 DEF WebInv
  <2>3. ASSUME NEW u \in Web!Toggle("launcher", q), Web!Become(Web!Of("launcher", u)) PROVE WebInv'
    <3>1. /\ Web!Tell(theme) \in Line /\ Web!Show("launcher") \in Line
          /\ Web!Show("launcher") \in Decides
          /\ Web!Show("launcher") \notin Recolours /\ Web!Tell(theme) \in Coloured(theme)
          /\ Web!Show("launcher").verb = "show"
      BY <1>0, SaysShow
    <3>2. Web!Show("launcher") \in Agreeing("launcher", "visible")
      BY <3>1 DEF Agreeing, Agrees
    <3>3. /\ q \in Seq(Line) /\ LastIn(q, Decides, Agreeing("launcher", "visible"))
          /\ ~ Without(q, 0, Decides) /\ LastIn(q, Recolours, Coloured(theme))
      BY <3>1, <3>2, Pair
    <3> HIDE DEF q
    <3>4. Fares("launcher", u)  BY <1>0, <2>3, <3>3, Toggles
    <3> QED  BY <1>0, <2>1, <2>3, <3>4, BecameOne
  <2> QED  BY <1>2, <2>2, <2>3 DEF Web!ToggleLauncher
<1>3. CASE Web!ToggleQuickSettings
  <2> DEFINE q == << Web!Show("quick") >>
  <2>1. UNCHANGED << enabled, theme, saved, refresh, guess >>
    BY <1>3 DEF Web!ToggleQuickSettings
  <2>2. PICK u \in Web!Toggle("quick", q) : Web!Become(Web!Of("quick", u))
    BY <1>3 DEF Web!ToggleQuickSettings
  <2>3. Web!Show("quick") \in Line /\ Web!Show("quick") \notin Recolours  BY SaysShow
  <2>4. Agrees("quick", "hide", "visible") /\ Web!Show("quick") \in Agreeing("quick", "visible")
    BY <2>3 DEF Agreeing, Agrees
  <2>5. /\ q \in Seq(Line) /\ LastIn(q, Decides, Agreeing("quick", "visible"))
        /\ LastIn(q, Recolours, Coloured(theme))
    BY <2>3, <2>4, Lone
  <2> HIDE DEF q
  <2>6. Fares("quick", u)  BY <1>0, <2>2, <2>4, <2>5, Toggles
  <2> QED  BY <1>0, <2>1, <2>2, <2>6, BecameOne
<1>4. CASE Web!OpenSystemSettings
  <2> DEFINE e == Web!ShowSettings
             W == Web!Written("launcher", << e >>, "visible")
  <2>1. UNCHANGED << enabled, theme, saved, refresh, guess >>
    BY <1>4 DEF Web!OpenSystemSettings
  <2>2. PICK l : /\ l = W \/ l \in Web!Spawned(<< e >>, "visible")
                 /\ Web!Become([h \in Web!Popups |-> IF h = "quick" THEN Web!HiddenQuick ELSE l])
    BY <1>4 DEF Web!OpenSystemSettings
  <2>3. /\ e \in Line /\ e \in Decides /\ e.verb = "show-settings"
        /\ e \in Recolours /\ e \in Coloured(theme)
    BY <1>0, SaysShow
  <2> HIDE DEF e
  <2>4. Agrees("launcher", e.verb, "visible") /\ e \in Agreeing("launcher", "visible")
    BY <2>3 DEF Agreeing, Agrees
  <2>5. Fares("launcher", l)
    <3>1. CASE l = W  BY <1>0, <2>3, <2>4, <3>1, Writes DEF Fares
    <3>2. CASE l \in Web!Spawned(<< e >>, "visible")
      <4> DEFINE q == << e >>
      <4>1. /\ q \in Seq(Line) /\ LastIn(q, Decides, Agreeing("launcher", "visible"))
            /\ ~ Without(q, 0, Decides) /\ LastIn(q, Recolours, Coloured(theme))
        BY <2>3, <2>4, Lone
      <4>2. l \in Web!Spawned(q, "visible")  BY <3>2
      <4> HIDE DEF q
      <4> QED  BY <4>1, <4>2, Spawns DEF Fares
    <3> QED  BY <2>2, <3>1, <3>2
  <2>6. Fares("quick", Web!HiddenQuick)
    <3>1. CASE Web!HiddenQuick = Web!Unchanged("quick")  BY <1>0, <3>1, Same
    <3>2. CASE Web!HiddenQuick = Web!Written("quick", << Web!Hide >>, "hidden")
      <4>1. /\ Web!Hide \in Line /\ Web!Hide \in Decides /\ Web!Hide.verb = "hide"
            /\ Web!Hide \notin Recolours
        BY SaysShow
      <4>2. Agrees("quick", Web!Hide.verb, "hidden")  BY <4>1 DEF Agrees
      <4> QED  BY <1>0, <3>2, <4>1, <4>2, Writes DEF Fares
    <3> QED  BY <3>1, <3>2 DEF Web!HiddenQuick
  <2> DEFINE u == [h \in Web!Popups |-> IF h = "quick" THEN Web!HiddenQuick ELSE l]
  <2>7. DOMAIN u = Web!Popups /\ \A h \in Web!Popups : Fares(h, u[h])
    BY <1>0, <2>5, <2>6
  <2>8. Web!Become(u)  BY <2>2
  <2> HIDE DEF u
  <2> QED  BY <1>0, <2>1, <2>7, <2>8, Became
<1>5. ASSUME Web!Become(Web!Of("launcher", Web!Refreshed(Web!Unchanged("launcher"), theme))), saved' \in Web!Themes,
             UNCHANGED << enabled, theme, refresh, guess >>
      PROVE  WebInv'
  <2> DEFINE w == Web!Unchanged("launcher")
             v == Web!Refreshed(w, theme)
  <2>1. /\ w = [held |-> w.held, helper |-> w.helper] /\ w.held = held["launcher"]
        /\ w.helper = helper["launcher"]
    BY DEF Web!Unchanged
  <2>2. IsHelper(w.helper) /\ Mirrored("launcher", w.held, w.helper)  BY <1>0, <2>1
  <2> HIDE DEF w
  <2>3. /\ IsHelper(v.helper) /\ Mirrored("launcher", v.held, v.helper)
        /\ WillTurn(w.helper, theme) => WillTurn(v.helper, theme)
        /\ HasTurned(w.helper, theme) => HasTurned(v.helper, theme)
    BY <1>0, <2>1, <2>2, Refreshes
  <2>4. Web!Become(Web!Of("launcher", v))  BY <1>5 DEF w
  <2> HIDE DEF v
  <2>5. Fares("launcher", v)  BY <2>1, <2>3 DEF Fares
  <2> QED  BY <1>0, <1>5, <2>4, <2>5, BecameOne
<1>6. CASE Web!Refresh  BY <1>0, <1>5, <1>6 DEF Web!Refresh
<1>7. ASSUME NEW t \in Web!Themes, Web!AppearanceThemeSet(t) PROVE WebInv'
  <2>1. CASE saved' = t /\ UNCHANGED << held, helper >>
    BY <1>7, <2>1 DEF WebInv, Web!AppearanceThemeSet
  <2>2. CASE /\ Web!Become(Web!Of("launcher", Web!Refreshed(Web!Unchanged("launcher"), theme)))
             /\ UNCHANGED saved
    BY <1>0, <1>5, <1>7, <2>2 DEF Web!AppearanceThemeSet
  <2> QED  BY <1>7, <2>1, <2>2 DEF Web!AppearanceThemeSet
<1> QED  BY <1>2, <1>3, <1>4, <1>6, <1>7

\* sync_web_theme
LEMMA Syncs ==
    ASSUME WebInv, NEW h \in Web!Popups, NEW t \in Web!Themes
    PROVE  LET u == Web!Synced(h, t) IN
             /\ u = [held |-> u.held, helper |-> u.helper]
             /\ IsHelper(u.helper) /\ Mirrored(h, u.held, u.helper)
             /\ WillTurn(u.helper, t) /\ HasTurned(u.helper, t)
<1> DEFINE u == Web!Synced(h, t)
<1>0. /\ IsHelper(helper[h]) /\ Mirrored(h, held[h], helper[h])
      /\ Web!Tell(t) \in Line /\ Web!Tell(t) \notin Decides /\ Web!Tell(t) \in Recolours
      /\ Web!Tell(t) \in Coloured(t)
  BY TypeOf, SaysShow DEF Web!Helpers
<1>1. CASE held[h] = "none"
  <2>1. u = [held |-> held[h], helper |-> helper[h]]
    BY <1>1 DEF Web!Synced, Web!Unchanged
  <2>2. helper[h].at = "gone"  BY <1>0, <1>1 DEF Mirrored
  <2> HIDE DEF u
  <2>3. u.held = held[h] /\ u.helper = helper[h]  BY <2>1
  <2> QED  BY <1>0, <2>1, <2>2, <2>3 DEF u, WillTurn, HasTurned
<1>2. CASE held[h] # "none"
  <2>1. u = Web!Written(h, << Web!Tell(t) >>, held[h])  BY <1>2 DEF Web!Synced
  <2>2. u = [held |-> u.held, helper |-> u.helper]  BY <2>1 DEF Web!Written
  <2>3. held[h] \in { "visible", "hidden" }  BY <1>0, <1>2 DEF Mirrored
  <2> HIDE DEF u
  <2>4. /\ IsHelper(u.helper) /\ Mirrored(h, u.held, u.helper)
        /\ WillTurn(u.helper, t) /\ HasTurned(u.helper, t)
    BY <1>0, <2>1, <2>3, Writes
  <2> QED  BY <2>2, <2>4 DEF u
<1> QED  BY <1>1, <1>2

\* A reload of the configuration: the only step that turns the theme.
LEMMA ReloadKeeps == ASSUME WebInv, Web!ConfigReloaded PROVE WebInv'
<1> DEFINE t == saved
           l == IF t # theme THEN Web!Synced("launcher", t) ELSE Web!Unchanged("launcher")
           q == IF t # theme THEN Web!Synced("quick", t) ELSE Web!Unchanged("quick")
           u == [h \in Web!Popups |-> IF h = "quick" THEN q ELSE Web!Refreshed(l, t)]
<1>0. /\ t \in Web!Themes /\ theme \in Web!Themes /\ Web!Popups = { "launcher", "quick" }
      /\ Web!Popups \subseteq Web!Helpers
      /\ Web!Helpers = Web!Popups \cup { "panel" } /\ t # "none"
      /\ refresh \in Web!Themes \cup { "none" }
      /\ \A h \in Web!Helpers : IsHelper(helper[h]) /\ Mirrored(h, held[h], helper[h])
  BY TypeOf DEF Web!Popups, Web!Helpers, Web!Themes
<1>1. /\ theme' = t /\ UNCHANGED << enabled, saved, guess >> /\ Web!Become(u)
      /\ refresh' = IF t # theme /\ enabled THEN t ELSE refresh
  BY DEF Web!ConfigReloaded
<1>2. DOMAIN u = Web!Popups /\ u["quick"] = q /\ u["launcher"] = Web!Refreshed(l, t)
  BY <1>0
<1> HIDE DEF u
<1>3. CASE t = theme
  <2>1. q = Web!Unchanged("quick") /\ l = Web!Unchanged("launcher")  BY <1>3
  <2>2. Fares("quick", q)  BY <1>0, <2>1, Same
  <2>3. /\ l = [held |-> l.held, helper |-> l.helper] /\ l.held = held["launcher"]
        /\ l.helper = helper["launcher"]
    BY <2>1 DEF Web!Unchanged
  <2> HIDE DEF l, q
  <2>4. Fares("launcher", Web!Refreshed(l, t))  BY <1>0, <1>3, <2>3, Refreshes DEF Fares
  <2>5. \A h \in DOMAIN u : Fares(h, u[h])  BY <1>0, <1>2, <2>2, <2>4
  <2>6. UNCHANGED << enabled, theme, refresh, guess >> /\ saved' \in Web!Themes
    BY <1>0, <1>1, <1>3
  <2> QED  BY <1>1, <1>2, <2>5, <2>6, Became
<1>4. CASE t # theme
  <2>1. q = Web!Synced("quick", t) /\ l = Web!Synced("launcher", t)  BY <1>4
  <2> HIDE DEF l, q
  <2>2. /\ IsHelper(q.helper) /\ Mirrored("quick", q.held, q.helper)
        /\ WillTurn(q.helper, t) /\ HasTurned(q.helper, t)
    BY <1>0, <2>1, Syncs
  <2>3. /\ l = [held |-> l.held, helper |-> l.helper]
        /\ IsHelper(l.helper) /\ Mirrored("launcher", l.held, l.helper)
        /\ WillTurn(l.helper, t) /\ HasTurned(l.helper, t)
    BY <1>0, <2>1, Syncs
  <2> DEFINE v == Web!Refreshed(l, t)
  <2>4. /\ IsHelper(v.helper) /\ Mirrored("launcher", v.held, v.helper)
        /\ WillTurn(v.helper, t) /\ HasTurned(v.helper, t)
    BY <1>0, <2>3, Refreshes
  <2>5. u["launcher"] = v  BY <1>2
  <2> HIDE DEF v, t
  <2>6. /\ DOMAIN held' = Web!Helpers /\ DOMAIN helper' = Web!Helpers
        /\ held'["panel"] = held["panel"] /\ helper'["panel"] = helper["panel"]
        /\ held'["quick"] = q.held /\ helper'["quick"] = q.helper
        /\ held'["launcher"] = v.held /\ helper'["launcher"] = v.helper
    BY <1>0, <1>1, <1>2, <2>5 DEF Web!Become
  <2>7. \A h \in Web!Helpers : IsHelper(helper'[h]) /\ Mirrored(h, held'[h], helper'[h])
    BY <1>0, <2>2, <2>4, <2>6
  <2>8. theme' \in Web!Themes /\ saved' \in Web!Themes /\ refresh' \in Web!Themes \cup { "none" }
    BY <1>0, <1>1 DEF t
  <2>9. enabled' => /\ refresh' = theme' /\ refresh' # "none" /\ held'["panel"] # "none"
                    /\ \A h \in Web!Popups : WillTurn(helper'[h], theme')
                    /\ HasTurned(helper'["quick"], theme') /\ HasTurned(helper'["launcher"], theme')
    BY <1>0, <1>1, <1>4, <2>2, <2>4, <2>6 DEF WebInv
  <2> QED  BY <2>6, <2>7, <2>8, <2>9 DEF WebInv
<1> QED  BY <1>3, <1>4

\* The end of a turn of the event loop, where the panel is told the theme again.
LEMMA DispatchKeeps == ASSUME WebInv, Web!AfterDispatch PROVE WebInv'
<1> DEFINE told == IF refresh # "none" /\ held["panel"] # "none"
                   THEN Web!Written("panel", << Web!Tell(refresh) >>, "visible") ELSE Web!Unchanged("panel")
           u == IF told.helper.at = "gone" THEN [held |-> "none", helper |-> Web!Gone] ELSE told
           w == Web!Of("panel", u)
<1>0. /\ theme \in Web!Themes /\ saved \in Web!Themes /\ refresh \in Web!Themes \cup { "none" }
      /\ Web!Popups = { "launcher", "quick" } /\ Web!Helpers = Web!Popups \cup { "panel" }
      /\ "panel" \notin Web!Popups
      /\ \A h \in Web!Helpers : IsHelper(helper[h]) /\ Mirrored(h, held[h], helper[h])
  BY TypeOf DEF Web!Popups, Web!Helpers
<1>1. /\ Web!Become(w) /\ enabled' = (enabled /\ u.held # "none") /\ refresh' = "none"
      /\ UNCHANGED << theme, saved, guess >>
  BY DEF Web!AfterDispatch
<1>2. DOMAIN w = { "panel" } /\ w["panel"] = u  BY DEF Web!Of
<1>3. /\ IsHelper(told.helper) /\ Mirrored("panel", told.held, told.helper)
      /\ enabled => WillTurn(told.helper, theme) /\ HasTurned(told.helper, theme)
  <2>1. CASE refresh # "none" /\ held["panel"] # "none"
    <3>1. told = Web!Written("panel", << Web!Tell(refresh) >>, "visible")  BY <2>1
    <3>2. /\ Web!Tell(refresh) \in Line /\ Web!Tell(refresh) \in Recolours
          /\ Web!Tell(refresh) \in Coloured(refresh)
      BY <1>0, <2>1, SaysShow
    <3>3. enabled => refresh = theme  BY <2>1 DEF WebInv
    <3> HIDE DEF told
    <3> QED  BY <1>0, <3>1, <3>2, <3>3, Writes
  <2>2. CASE refresh = "none"
    <3>1. told.held = held["panel"] /\ told.helper = helper["panel"]
      BY <2>2 DEF Web!Unchanged
    <3>2. enabled => WillTurn(helper["panel"], theme) /\ HasTurned(helper["panel"], theme)
      BY <2>2 DEF WebInv
    <3> HIDE DEF told
    <3> QED  BY <1>0, <3>1, <3>2
  <2>3. CASE held["panel"] = "none"
    <3>1. told.held = held["panel"] /\ told.helper = helper["panel"]
      BY <2>3 DEF Web!Unchanged
    <3>2. ~ enabled  BY <2>3 DEF WebInv
    <3> HIDE DEF told
    <3> QED  BY <1>0, <3>1, <3>2
  <2> QED  BY <2>1, <2>2, <2>3
<1> HIDE DEF told, w
<1>4. /\ IsHelper(u.helper) /\ Mirrored("panel", u.held, u.helper)
      /\ enabled => WillTurn(u.helper, theme) /\ HasTurned(u.helper, theme)
  <2>1. CASE told.helper.at = "gone"
    <3>1. u.held = "none" /\ u.helper = Web!Gone  BY <2>1
    <3> HIDE DEF u
    <3> QED  BY <3>1, GoneFine
  <2>2. CASE told.helper.at # "gone"  BY <1>3, <2>2
  <2> QED  BY <2>1, <2>2
<1> HIDE DEF u
<1>5. /\ DOMAIN held' = Web!Helpers /\ DOMAIN helper' = Web!Helpers
      /\ held'["panel"] = u.held /\ helper'["panel"] = u.helper
      /\ \A h \in Web!Popups : held'[h] = held[h] /\ helper'[h] = helper[h]
  BY <1>0, <1>1, <1>2 DEF Web!Become
<1>6. \A h \in Web!Helpers : IsHelper(helper'[h]) /\ Mirrored(h, held'[h], helper'[h])
  BY <1>0, <1>4, <1>5
<1>7. enabled' => /\ held'["panel"] # "none"
                  /\ \A h \in Web!Popups : WillTurn(helper'[h], theme')
                  /\ HasTurned(helper'["quick"], theme')
                  /\ ~ guess' => HasTurned(helper'["launcher"], theme')
                  /\ WillTurn(helper'["panel"], theme') /\ HasTurned(helper'["panel"], theme')
  <2> SUFFICES ASSUME enabled' PROVE
                  /\ held'["panel"] # "none"
                  /\ \A h \in Web!Popups : WillTurn(helper'[h], theme')
                  /\ HasTurned(helper'["quick"], theme')
                  /\ ~ guess' => HasTurned(helper'["launcher"], theme')
                  /\ WillTurn(helper'["panel"], theme') /\ HasTurned(helper'["panel"], theme')
    OBVIOUS
  <2>1. enabled /\ u.held # "none"  BY <1>1
  <2>2. /\ \A h \in Web!Popups : WillTurn(helper[h], theme)
        /\ HasTurned(helper["quick"], theme)
        /\ ~ guess => HasTurned(helper["launcher"], theme)
    BY <2>1 DEF WebInv
  <2> QED  BY <1>0, <1>1, <1>4, <1>5, <2>1, <2>2
<1> QED  BY <1>0, <1>1, <1>5, <1>6, <1>7 DEF WebInv

-----------------------------------------------------------------------------
\* A step of a helper, which leaves the shell's tables alone.
LEMMA HelperMoves ==
    ASSUME WebInv, NEW h \in Web!Helpers, NEW r, helper' = [helper EXCEPT ![h] = r],
           UNCHANGED << enabled, theme, saved, refresh, held >>,
           IsHelper(r), Mirrored(h, held[h], r),
           WillTurn(helper[h], theme) => WillTurn(r, theme),
           h # "launcher" /\ WillTurn(helper[h], theme) /\ HasTurned(helper[h], theme)
             => HasTurned(r, theme),
           h # "launcher" => (~ guess' => ~ guess),
           (/\ h = "launcher" /\ ~ guess' /\ WillTurn(helper[h], theme)
            /\ ~ guess => HasTurned(helper[h], theme)) => HasTurned(r, theme)
    PROVE  WebInv'
<1>0. /\ DOMAIN held = Web!Helpers /\ DOMAIN helper = Web!Helpers /\ theme \in Web!Themes
      /\ saved \in Web!Themes
      /\ refresh \in Web!Themes \cup { "none" }
      /\ \A x \in Web!Helpers : IsHelper(helper[x]) /\ Mirrored(x, held[x], helper[x])
  BY TypeOf
<1>1. /\ DOMAIN helper' = Web!Helpers /\ helper'[h] = r
      /\ \A x \in Web!Helpers \ {h} : helper'[x] = helper[x]
  BY <1>0
<1>2. \A x \in Web!Helpers : IsHelper(helper'[x]) /\ Mirrored(x, held'[x], helper'[x])
  BY <1>0, <1>1
<1>3. Web!Helpers = { "launcher", "quick", "panel" } /\ Web!Popups = { "launcher", "quick" }
  BY DEF Web!Helpers, Web!Popups
<1>4. ASSUME enabled'
      PROVE  /\ refresh' \in { "none", theme' } /\ held'["panel"] # "none"
             /\ \A x \in Web!Popups : WillTurn(helper'[x], theme')
             /\ HasTurned(helper'["quick"], theme')
             /\ ~ guess' => HasTurned(helper'["launcher"], theme')
             /\ refresh' = "none" => WillTurn(helper'["panel"], theme') /\ HasTurned(helper'["panel"], theme')
  <2>1. enabled  BY <1>4
  <2>2. /\ refresh \in { "none", theme } /\ held["panel"] # "none"
        /\ \A x \in Web!Popups : WillTurn(helper[x], theme)
        /\ HasTurned(helper["quick"], theme)
        /\ ~ guess => HasTurned(helper["launcher"], theme)
        /\ refresh = "none" => WillTurn(helper["panel"], theme) /\ HasTurned(helper["panel"], theme)
    BY <2>1 DEF WebInv
  <2>3. CASE h = "launcher"
    <3>1. WillTurn(helper["launcher"], theme) /\ (~ guess => HasTurned(helper["launcher"], theme))
      BY <1>3, <2>2
    <3>2. WillTurn(helper'["launcher"], theme) /\ (~ guess' => HasTurned(helper'["launcher"], theme))
      BY <1>1, <2>3, <3>1
    <3>3. helper'["quick"] = helper["quick"] /\ helper'["panel"] = helper["panel"]
      BY <1>1, <1>3, <2>3
    <3> QED  BY <1>3, <2>2, <3>2, <3>3
  <2>4. CASE h = "quick"  BY <1>1, <1>3, <2>2, <2>4
  <2>5. CASE h = "panel"  BY <1>1, <1>3, <2>2, <2>5
  <2> QED  BY <1>3, <2>3, <2>4, <2>5
<1> QED  BY <1>0, <1>1, <1>2, <1>4 DEF WebInv

\* One field of a helper set.
LEMMA OneField ==
    ASSUME NEW r, IsHelper(r), NEW v
    PROVE  /\ [r EXCEPT !.at = v] = [at |-> v, pipe |-> r.pipe, buf |-> r.buf, shown |-> r.shown, theme |-> r.theme]
           /\ [r EXCEPT !.shown = v] = [at |-> r.at, pipe |-> r.pipe, buf |-> r.buf, shown |-> v, theme |-> r.theme]
           /\ [r EXCEPT !.theme = v] = [at |-> r.at, pipe |-> r.pipe, buf |-> r.buf, shown |-> r.shown, theme |-> v]
<1>1. r = [at |-> r.at, pipe |-> r.pipe, buf |-> r.buf, shown |-> r.shown, theme |-> r.theme]
  BY DEF IsHelper
<1> QED  BY <1>1

\* A helper that reads nothing and stays shown or hidden.
LEMMA Stays ==
    ASSUME NEW h, NEW mirror, NEW r, IsHelper(r), Mirrored(h, mirror, r), NEW s,
           s = [at |-> s.at, pipe |-> r.pipe, buf |-> r.buf, shown |-> s.shown, theme |-> s.theme],
           r.at # "gone", VerbOf(s.shown) = VerbOf(r.shown)
    PROVE  /\ IsHelper(s) /\ Mirrored(h, mirror, s)
           /\ \A t : WillTurn(r, t) => WillTurn(s, t)
           /\ s.theme = r.theme => \A t : HasTurned(r, t) => HasTurned(s, t)
<1>1. s.pipe = r.pipe /\ s.buf = r.buf  OBVIOUS
<1>2. IsHelper(s)  BY <1>1 DEF IsHelper
<1>3. \A D : Done(s, D) <=> Done(r, D)  BY <1>1 DEF Done
<1>4. \A D, F : Ending(s, D, F) <=> Ending(r, D, F)  BY <1>1 DEF Ending
<1>5. Mirrored(h, mirror, s)  BY <1>3, <1>4 DEF Mirrored
<1> QED  BY <1>2, <1>3, <1>4, <1>5 DEF WillTurn, HasTurned

LEMMA StartKeeps == ASSUME WebInv, NEW h \in Web!Helpers, Web!Start(h) PROVE WebInv'
<1> DEFINE r == helper[h]
           s == [r EXCEPT !.at = "up"]
<1>1. /\ r.at = "starting" /\ UNCHANGED << enabled, theme, saved, refresh, held, guess >>
      /\ helper' = [helper EXCEPT ![h] = s]
  BY DEF Web!Start
<1>2. IsHelper(r) /\ Mirrored(h, held[h], r)  BY TypeOf
<1>3. s = [at |-> "up", pipe |-> r.pipe, buf |-> r.buf, shown |-> r.shown, theme |-> r.theme]
  BY <1>2, OneField
<1> HIDE DEF s
<1>4. /\ s = [at |-> s.at, pipe |-> r.pipe, buf |-> r.buf, shown |-> s.shown, theme |-> s.theme]
      /\ s.shown = r.shown /\ s.theme = r.theme
  BY <1>3
<1>5. /\ IsHelper(s) /\ Mirrored(h, held[h], s)
      /\ WillTurn(r, theme) => WillTurn(s, theme)
      /\ HasTurned(r, theme) => HasTurned(s, theme)
  <2> HIDE DEF r
  <2> QED  BY <1>1, <1>2, <1>4, Stays
<1> QED  BY <1>1, <1>5, HelperMoves

LEMMA CrashKeeps == ASSUME WebInv, NEW h \in Web!Helpers, Web!Crash(h) PROVE WebInv'
<1>1. /\ UNCHANGED << enabled, theme, saved, refresh, held >>
      /\ helper' = [helper EXCEPT ![h] = Web!Gone]
      /\ h # "launcher" => (~ guess' => ~ guess)
  BY DEF Web!Crash
<1>2. held[h] \in { "none", "visible", "hidden" }  BY TypeOf DEF Mirrored
<1>3. /\ IsHelper(Web!Gone) /\ Mirrored(h, held[h], Web!Gone) /\ WillTurn(Web!Gone, theme)
      /\ HasTurned(Web!Gone, theme)
  BY <1>2, GoneFine
<1> QED  BY <1>1, <1>3, HelperMoves

\* A document that is up changes what it shows, or the theme it shows, by itself.
LEMMA PageKeeps ==
    ASSUME WebInv, Web!Seen("launcher"), UNCHANGED << enabled, theme, saved, refresh, held >>,
           NEW v \in { "apps", "settings" }, NEW t,
           \/ helper' = [helper EXCEPT !["launcher"].shown = v] /\ guess' = guess
           \/ helper' = [helper EXCEPT !["launcher"].theme = t] /\ guess' = TRUE
    PROVE  WebInv'
<1> DEFINE r == helper["launcher"]
<1>1. r.at = "up" /\ r.shown # "hidden" /\ "launcher" \in Web!Helpers
  BY DEF Web!Seen, Web!Helpers, Web!Popups
<1>2. IsHelper(r) /\ Mirrored("launcher", held["launcher"], r)  BY <1>1, TypeOf
<1>3. CASE helper' = [helper EXCEPT !["launcher"].shown = v] /\ guess' = guess
  <2> DEFINE s == [r EXCEPT !.shown = v]
  <2>1. s = [at |-> r.at, pipe |-> r.pipe, buf |-> r.buf, shown |-> v, theme |-> r.theme]
    BY <1>2, OneField
  <2>2. helper' = [helper EXCEPT !["launcher"] = s]  BY <1>3
  <2> HIDE DEF s
  <2>3. /\ s = [at |-> s.at, pipe |-> r.pipe, buf |-> r.buf, shown |-> s.shown, theme |-> s.theme]
        /\ s.theme = r.theme /\ VerbOf(s.shown) = VerbOf(r.shown)
    BY <1>1, <2>1 DEF VerbOf
  <2>4. /\ IsHelper(s) /\ Mirrored("launcher", held["launcher"], s)
        /\ WillTurn(r, theme) => WillTurn(s, theme)
        /\ HasTurned(r, theme) => HasTurned(s, theme)
    <3> HIDE DEF r
    <3> QED  BY <1>1, <1>2, <2>3, Stays
  <2> QED  BY <1>1, <1>3, <2>2, <2>4, HelperMoves
<1>4. CASE helper' = [helper EXCEPT !["launcher"].theme = t] /\ guess' = TRUE
  <2> DEFINE s == [r EXCEPT !.theme = t]
  <2>1. s = [at |-> r.at, pipe |-> r.pipe, buf |-> r.buf, shown |-> r.shown, theme |-> t]
    BY <1>2, OneField
  <2>2. helper' = [helper EXCEPT !["launcher"] = s]  BY <1>4
  <2> HIDE DEF s
  <2>3. /\ s = [at |-> s.at, pipe |-> r.pipe, buf |-> r.buf, shown |-> s.shown, theme |-> s.theme]
        /\ VerbOf(s.shown) = VerbOf(r.shown)
    BY <2>1
  <2>4. /\ IsHelper(s) /\ Mirrored("launcher", held["launcher"], s)
        /\ WillTurn(r, theme) => WillTurn(s, theme)
    <3> HIDE DEF r
    <3> QED  BY <1>1, <1>2, <2>3, Stays
  <2> QED  BY <1>1, <1>4, <2>2, <2>4, HelperMoves
<1> QED  BY <1>3, <1>4

\* Two fields of a helper set.
LEMMA TwoFields ==
    ASSUME NEW o, NEW b, NEW p,
           o = [at |-> o.at, pipe |-> o.pipe, buf |-> o.buf, shown |-> o.shown, theme |-> o.theme]
    PROVE  [o EXCEPT !.buf = b, !.pipe = p]
             = [at |-> o.at, pipe |-> p, buf |-> b, shown |-> o.shown, theme |-> o.theme]
<1> DEFINE n == [o EXCEPT !.buf = b]
<1>1. n = [at |-> o.at, pipe |-> o.pipe, buf |-> b, shown |-> o.shown, theme |-> o.theme]  OBVIOUS
<1>2. [o EXCEPT !.buf = b, !.pipe = p] = [n EXCEPT !.pipe = p]  OBVIOUS
<1> HIDE DEF n
<1>3. [n EXCEPT !.pipe = p] = [at |-> o.at, pipe |-> p, buf |-> b, shown |-> o.shown, theme |-> o.theme]
  BY <1>1
<1> QED  BY <1>2, <1>3

LEMMA OtherFields ==
    ASSUME NEW o, NEW b, NEW p,
           o = [at |-> o.at, pipe |-> o.pipe, buf |-> o.buf, shown |-> o.shown, theme |-> o.theme]
    PROVE  [o EXCEPT !.theme = b, !.shown = p]
             = [at |-> o.at, pipe |-> o.pipe, buf |-> o.buf, shown |-> p, theme |-> b]
<1> DEFINE n == [o EXCEPT !.theme = b]
<1>1. n = [at |-> o.at, pipe |-> o.pipe, buf |-> o.buf, shown |-> o.shown, theme |-> b]  OBVIOUS
<1>2. [o EXCEPT !.theme = b, !.shown = p] = [n EXCEPT !.shown = p]  OBVIOUS
<1> HIDE DEF n
<1>3. [n EXCEPT !.shown = p] = [at |-> o.at, pipe |-> o.pipe, buf |-> o.buf, shown |-> p, theme |-> b]
  BY <1>1
<1> QED  BY <1>2, <1>3

\* What a line does.
LEMMA ObeyedIs ==
    ASSUME NEW r, IsHelper(r), NEW l \in Line, NEW o, o = Web!Obeyed(r, l)
    PROVE  /\ o = [at |-> o.at, pipe |-> o.pipe, buf |-> o.buf, shown |-> o.shown, theme |-> o.theme]
           /\ o.at = r.at
           /\ l \in Decides => VerbOf(o.shown) = IF l.verb = "hide" THEN "hide" ELSE "show"
           /\ l \notin Decides => o.shown = r.shown
           /\ l \in Recolours => o.theme = l.theme
           /\ l \notin Recolours => o.theme = r.theme
<1> DEFINE paint == IF l.theme # "none" THEN l.theme ELSE r.theme
           look == CASE l.verb = "show" -> "apps"
                     [] l.verb = "show-settings" -> "settings"
                     [] l.verb = "hide" -> "hidden"
                     [] OTHER -> r.shown
<1>0. r = [at |-> r.at, pipe |-> r.pipe, buf |-> r.buf, shown |-> r.shown, theme |-> r.theme]
  BY DEF IsHelper
<1>1. /\ l.verb \in { "theme", "hide", "show", "show-settings" } /\ (l.theme # "none" => l.valid)
      /\ l \in Decides <=> l.valid /\ l.verb # "theme"
      /\ l \in Recolours <=> l.valid /\ l.theme # "none"
  BY DEF Line, Decides, Recolours
<1>2. ~ l.valid => o = r  BY DEF Web!Obeyed
<1>3. l.valid => o = [at |-> r.at, pipe |-> r.pipe, buf |-> r.buf, shown |-> look, theme |-> paint]
  <2>1. l.valid => o = [r EXCEPT !.theme = paint, !.shown = look]  BY DEF Web!Obeyed
  <2> HIDE DEF paint, look
  <2>2. [r EXCEPT !.theme = paint, !.shown = look]
          = [at |-> r.at, pipe |-> r.pipe, buf |-> r.buf, shown |-> look, theme |-> paint]
    <3> DEFINE n == [r EXCEPT !.theme = paint]
    <3>1. n = [at |-> r.at, pipe |-> r.pipe, buf |-> r.buf, shown |-> r.shown, theme |-> paint]
      BY <1>0
    <3>2. [r EXCEPT !.theme = paint, !.shown = look] = [n EXCEPT !.shown = look]  OBVIOUS
    <3> HIDE DEF n
    <3>3. [n EXCEPT !.shown = look]
            = [at |-> r.at, pipe |-> r.pipe, buf |-> r.buf, shown |-> look, theme |-> paint]
      BY <3>1
    <3> QED  BY <3>2, <3>3
  <2> QED  BY <2>1, <2>2
<1>4. /\ o = [at |-> o.at, pipe |-> o.pipe, buf |-> o.buf, shown |-> o.shown, theme |-> o.theme]
      /\ o.at = r.at
      /\ ~ l.valid => o.shown = r.shown /\ o.theme = r.theme
      /\ l.valid => o.shown = look /\ o.theme = paint
  <2> HIDE DEF paint, look
  <2>1. CASE l.valid
    <3>1. o = [at |-> r.at, pipe |-> r.pipe, buf |-> r.buf, shown |-> look, theme |-> paint]
      BY <1>3, <2>1
    <3> QED  BY <2>1, <3>1
  <2>2. CASE ~ l.valid  BY <1>0, <1>2, <2>2
  <2> QED  BY <2>1, <2>2
<1>5. l \in Decides => VerbOf(o.shown) = IF l.verb = "hide" THEN "hide" ELSE "show"
  <2>1. CASE l.verb = "hide"  BY <1>1, <1>4, <2>1 DEF VerbOf
  <2>2. CASE l.verb = "show"  BY <1>1, <1>4, <2>2 DEF VerbOf
  <2>3. CASE l.verb = "show-settings"  BY <1>1, <1>4, <2>3 DEF VerbOf
  <2> QED  BY <1>1, <2>1, <2>2, <2>3
<1>6. l \notin Decides => o.shown = r.shown  BY <1>1, <1>4
<1>7. (l \in Recolours => o.theme = l.theme) /\ (l \notin Recolours => o.theme = r.theme)
  BY <1>1, <1>4
<1> QED  BY <1>4, <1>5, <1>6, <1>7

\* A line read.
LEMMA ReadKeeps == ASSUME WebInv, NEW h \in Web!Helpers, Web!ReadLine(h) PROVE WebInv'
<1> DEFINE r == helper[h]
           l == NextLine(r)
           s == [Web!Obeyed(r, l) EXCEPT !.buf = Rest(r), !.pipe = Unread(r)]
<1>1. /\ r.at = "up" /\ r.pipe # << >> /\ helper' = [helper EXCEPT ![h] = s]
      /\ guess' = (guess /\ (h # "launcher" \/ l.theme = "none"))
      /\ UNCHANGED << enabled, theme, saved, refresh, held >>
  BY DEF Web!ReadLine, NextLine, Rest, Unread
<1>2. IsHelper(r) /\ Mirrored(h, held[h], r)  BY TypeOf
<1>3. l \in Line
  <2> HIDE DEF r
  <2> DEFINE z == [pipe |-> Unread(r), buf |-> Rest(r)]
  <2>1. z.pipe = Unread(r) /\ z.buf = Rest(r)  OBVIOUS
  <2> HIDE DEF z
  <2> QED  BY <1>1, <1>2, <2>1, ReadEnds
<1>4. /\ s = [at |-> r.at, pipe |-> Unread(r), buf |-> Rest(r), shown |-> s.shown, theme |-> s.theme]
      /\ s.at = r.at /\ s.pipe = Unread(r) /\ s.buf = Rest(r)
      /\ l \in Decides => VerbOf(s.shown) = IF l.verb = "hide" THEN "hide" ELSE "show"
      /\ l \notin Decides => s.shown = r.shown
      /\ l \in Recolours => s.theme = l.theme
      /\ l \notin Recolours => s.theme = r.theme
  <2> DEFINE o == Web!Obeyed(r, l)
             b == Rest(r)
             p == Unread(r)
  <2>1. s = [o EXCEPT !.buf = b, !.pipe = p]  OBVIOUS
  <2> HIDE DEF s
  <2>2. /\ o = [at |-> o.at, pipe |-> o.pipe, buf |-> o.buf, shown |-> o.shown, theme |-> o.theme]
        /\ o.at = r.at
        /\ l \in Decides => VerbOf(o.shown) = IF l.verb = "hide" THEN "hide" ELSE "show"
        /\ l \notin Decides => o.shown = r.shown
        /\ l \in Recolours => o.theme = l.theme
        /\ l \notin Recolours => o.theme = r.theme
    <3> HIDE DEF r, l
    <3> QED  BY <1>2, <1>3, ObeyedIs
  <2> HIDE DEF r, l, o, b, p
  <2>3. s = [at |-> o.at, pipe |-> p, buf |-> b, shown |-> o.shown, theme |-> o.theme]
    BY <2>1, <2>2, TwoFields
  <2>4. s.at = o.at /\ s.pipe = p /\ s.buf = b /\ s.shown = o.shown /\ s.theme = o.theme  BY <2>3
  <2>5. s = [at |-> r.at, pipe |-> p, buf |-> b, shown |-> s.shown, theme |-> s.theme]
    BY <2>2, <2>3, <2>4
  <2>6. s.at = r.at /\ s.pipe = Unread(r) /\ s.buf = Rest(r)  BY <2>2, <2>4 DEF b, p
  <2>7. s = [at |-> r.at, pipe |-> Unread(r), buf |-> Rest(r), shown |-> s.shown, theme |-> s.theme]
    BY <2>5 DEF b, p
  <2> QED  BY <2>2, <2>4, <2>6, <2>7
<1> HIDE DEF s
<1>5. \A D, F : /\ s.pipe \in Seq(Line) /\ s.buf \in Seq(Line)
                /\ Ending(r, D, F) => Ending(s, D, F)
                /\ Done(s, D) => /\ l \in D /\ Ending(r, D, F) => l \in F
                                 /\ l \notin D => Done(r, D)
  <2> HIDE DEF r
  <2> QED  BY <1>1, <1>2, <1>4, ReadEnds
<1> HIDE DEF l
<1>6. IsHelper(s)  BY <1>4, <1>5 DEF IsHelper
<1>7. Mirrored(h, held[h], s)
  <2> SUFFICES ASSUME Done(s, Decides) PROVE Agrees(h, VerbOf(s.shown), held[h])
    BY <1>1, <1>2, <1>4, <1>5 DEF Mirrored
  <2>0. Ending(r, Decides, Agreeing(h, held[h])) /\ (Done(r, Decides) => Agrees(h, VerbOf(r.shown), held[h]))
    BY <1>1, <1>2 DEF Mirrored
  <2>1. CASE l \in Decides
    <3>1. l \in Agreeing(h, held[h])  BY <1>5, <2>0, <2>1
    <3>2. Agrees(h, l.verb, held[h])  BY <3>1 DEF Agreeing
    <3> QED  BY <1>4, <2>1, <3>2 DEF Agrees
  <2>2. CASE l \notin Decides  BY <1>4, <1>5, <2>0, <2>2
  <2> QED  BY <2>1, <2>2
<1>8. WillTurn(r, theme) => WillTurn(s, theme)  BY <1>4, <1>5 DEF WillTurn
<1>9. ASSUME WillTurn(r, theme), Done(s, Recolours), l \in Recolours PROVE s.theme = theme
  <2>1. l \in Coloured(theme)  BY <1>1, <1>5, <1>9 DEF WillTurn
  <2> QED  BY <1>4, <1>9, <2>1 DEF Coloured
<1>10. WillTurn(r, theme) /\ HasTurned(r, theme) => HasTurned(s, theme)
  BY <1>1, <1>4, <1>5, <1>9 DEF HasTurned
<1>11. l.theme # "none" => l \in Recolours  BY <1>3 DEF Line, Recolours
<1>12. l.theme # "none" /\ WillTurn(r, theme) => HasTurned(s, theme)  BY <1>9, <1>11 DEF HasTurned
<1>13. /\ h # "launcher" => (~ guess' => ~ guess)
       /\ h = "launcher" /\ ~ guess' => ~ guess \/ l.theme # "none"
  BY <1>1
<1> QED  BY <1>1, <1>6, <1>7, <1>8, <1>10, <1>12, <1>13, HelperMoves

LEMMA WebKeeps == ASSUME WebInv, Web!Next PROVE WebInv'
<1>1. CASE Web!ShellStep
  BY <1>1, ShellKeeps, ReloadKeeps, DispatchKeeps DEF Web!ShellStep
<1>2. ASSUME NEW h \in Web!Helpers, Web!HelperStep(h) \/ Web!Crash(h) PROVE WebInv'
  BY <1>2, StartKeeps, ReadKeeps, CrashKeeps DEF Web!HelperStep
<1>3. CASE Web!AudioChanges \/ Web!PanelButton \/ Web!QuickSettingsButton

    BY <1>3 DEF Web!AudioChanges, Web!PanelButton, Web!QuickSettingsButton, WebInv
<1>4. CASE Web!CloseLauncher \/ Web!LeaveSettings \/ Web!ShowSettingsPage
  <2>1. CASE Web!CloseLauncher  BY <2>1, PageKeeps DEF Web!CloseLauncher
  <2>2. CASE Web!LeaveSettings  BY <2>2, PageKeeps DEF Web!LeaveSettings
  <2>3. CASE Web!ShowSettingsPage  BY <2>3, PageKeeps DEF Web!ShowSettingsPage
  <2> QED  BY <1>4, <2>1, <2>2, <2>3
<1>5. ASSUME NEW t \in Web!Themes, Web!PickTheme(t) PROVE WebInv'
  BY <1>5, PageKeeps DEF Web!PickTheme
<1>6. ASSUME NEW t \in Web!Themes, Web!ApplyTheme(t) PROVE WebInv'
  BY <1>6 DEF Web!ApplyTheme, WebInv
<1> QED  BY <1>1, <1>2, <1>3, <1>4, <1>5, <1>6 DEF Web!Next

LEMMA WebStarts == ASSUME Web!Init PROVE WebInv
<1>1. theme \in Web!Themes /\ saved = theme /\ refresh = "none" /\ guess = FALSE
  BY DEF Web!Init
<1> DEFINE None == [held |-> "none", helper |-> Web!Gone]
           q == << Web!Tell(theme) >>
<1>2. PICK panel \in Web!Spawned(<< >>, "visible") :
        /\ enabled = (panel.held # "none")
        /\ \E launcher \in IF enabled THEN Web!Spawned(q, "hidden") ELSE {None},
              quick \in IF enabled THEN Web!Spawned(<< >>, "hidden") ELSE {None} :
             /\ held = [h \in Web!Helpers |-> CASE h = "panel" -> panel.held
                                            [] h = "launcher" -> launcher.held
                                            [] OTHER -> quick.held]
             /\ helper = [h \in Web!Helpers |-> CASE h = "panel" -> panel.helper
                                              [] h = "launcher" -> launcher.helper
                                              [] OTHER -> quick.helper]
  BY DEF Web!Init
<1>3. PICK launcher, quick :
             /\ launcher \in Web!Spawned(q, "hidden") \/ launcher = None
             /\ quick \in Web!Spawned(<< >>, "hidden") \/ quick = None
             /\ held = [h \in Web!Helpers |-> CASE h = "panel" -> panel.held
                                            [] h = "launcher" -> launcher.held
                                            [] OTHER -> quick.held]
             /\ helper = [h \in Web!Helpers |-> CASE h = "panel" -> panel.helper
                                              [] h = "launcher" -> launcher.helper
                                              [] OTHER -> quick.helper]
  BY <1>2
<1>4. Web!Tell(theme) \in Line /\ Web!Tell(theme) \notin Decides /\ Web!Tell(theme) \in Coloured(theme)
  BY <1>1, SaysShow
<1>5. /\ q \in Seq(Line) /\ LastIn(q, Recolours, Coloured(theme))
      /\ \A F : LastIn(q, Decides, F)
  BY <1>4, Lone
<1>6. None.held = "none" /\ None.helper = Web!Gone  OBVIOUS
<1> HIDE DEF q, None
<1>7. \A h : Agrees(h, "hide", "hidden") /\ Agrees("panel", "hide", "visible")  BY DEF Agrees
<1> DEFINE Fine(h, u) == /\ IsHelper(u.helper) /\ Mirrored(h, u.held, u.helper)
                         /\ WillTurn(u.helper, theme) /\ HasTurned(u.helper, theme)
<1>8. Fine("panel", panel)  BY <1>2, <1>7, Nothing, Spawns
<1>9. Fine("launcher", launcher)
  <2>1. CASE launcher \in Web!Spawned(q, "hidden")  BY <1>5, <1>7, <2>1, Spawns
  <2>2. CASE launcher = None  BY <1>6, <2>2, GoneFine
  <2> QED  BY <1>3, <2>1, <2>2
<1>10. Fine("quick", quick)
  <2>1. CASE quick \in Web!Spawned(<< >>, "hidden")  BY <1>7, <2>1, Nothing, Spawns
  <2>2. CASE quick = None  BY <1>6, <2>2, GoneFine
  <2> QED  BY <1>3, <2>1, <2>2
<1>11. Web!Helpers = { "launcher", "quick", "panel" } /\ Web!Popups = { "launcher", "quick" }
  BY DEF Web!Helpers, Web!Popups
<1>12. /\ DOMAIN held = Web!Helpers /\ DOMAIN helper = Web!Helpers
       /\ held["panel"] = panel.held /\ helper["panel"] = panel.helper
       /\ held["launcher"] = launcher.held /\ helper["launcher"] = launcher.helper
       /\ held["quick"] = quick.held /\ helper["quick"] = quick.helper
  BY <1>3, <1>11
<1>13. enabled => held["panel"] # "none"  BY <1>2, <1>12
<1> QED  BY <1>1, <1>8, <1>9, <1>10, <1>11, <1>12, <1>13 DEF WebInv

LEMMA WebGood == ASSUME WebInv PROVE Web!MirrorAgrees /\ Web!ThemesAgree
<1>1. ASSUME NEW h \in Web!Helpers, Web!Drained(h)
      PROVE  /\ helper[h].at # "gone" /\ \A D : Done(helper[h], D)
  BY <1>1 DEF Web!Drained, Done, Without
<1>2. Web!MirrorAgrees
  <2> SUFFICES ASSUME NEW h \in Web!Popups, Web!Drained(h)
               PROVE  /\ helper[h].shown # "hidden" => held[h] = "visible"
                      /\ (h = "launcher" /\ held[h] = "visible") => helper[h].shown # "hidden"
    BY DEF Web!MirrorAgrees
  <2>1. h \in Web!Helpers  BY DEF Web!Helpers
  <2>2. Agrees(h, VerbOf(helper[h].shown), held[h])  BY <1>1, <2>1, TypeOf DEF Mirrored
  <2> QED  BY <2>2 DEF Agrees, VerbOf
<1>3. Web!ThemesAgree
  <2> SUFFICES ASSUME enabled
               PROVE  /\ \A h \in Web!Helpers :
                           (/\ Web!Drained(h)
                            /\ h = "panel" => refresh = "none"
                            /\ h = "launcher" => ~ guess) => helper[h].theme = theme
                      /\ held["panel"] # "none"
    BY DEF Web!ThemesAgree
  <2>1. /\ held["panel"] # "none" /\ HasTurned(helper["quick"], theme)
        /\ ~ guess => HasTurned(helper["launcher"], theme)
        /\ refresh = "none" => HasTurned(helper["panel"], theme)
    BY DEF WebInv
  <2>2. Web!Helpers = { "launcher", "quick", "panel" }
    BY DEF Web!Helpers, Web!Popups
  <2>3. \A h \in Web!Helpers : Web!Drained(h) /\ HasTurned(helper[h], theme) => helper[h].theme = theme
    BY <1>1 DEF HasTurned
  <2> QED  BY <2>1, <2>2, <2>3
<1> QED  BY <1>2, <1>3

\* However often the helpers die, are started again, fall behind with their lines or decide for
\* themselves: once they have read everything, the shell's mirror is what they show and the
\* theme in use is theirs.
THEOREM HelpersFollow == Spec => []HelpersAgree
<1> DEFINE I == part = "web" => WebInv
<1>1. Init => I  BY StartsItsOwn, WebStarts
<1>2. I /\ [Next]_vars => I'
  <2>1. WebInv /\ UNCHANGED vars => WebInv'
    <3> SUFFICES ASSUME WebInv, UNCHANGED vars PROVE WebInv'  OBVIOUS
    <3>1. UNCHANGED << enabled, theme, saved, refresh, held, helper, guess >>  BY DEF vars
    <3> QED  BY <3>1 DEF WebInv
  <2> QED  BY <2>1, OnlyItsOwn, WebKeeps
<1>3. I => HelpersAgree
  <2> SUFFICES ASSUME part = "web", WebInv
               PROVE  Web!MirrorAgrees /\ Web!ThemesAgree
    BY DEF HelpersAgree
  <2> QED  BY WebGood
<1> QED  BY <1>1, <1>2, <1>3, PTL DEF Spec
-----------------------------------------------------------------------------
(* Sorting: a finite set in which of every two elements one comes first    *)
(* can be listed in that order.                                            *)

\* R says of every two elements of X which comes first; f lists X in that order.
OrderedBy(X, R) == /\ \A a, b \in X : a = b \/ << a, b >> \in R \/ << b, a >> \in R
                   /\ \A a, b, c \in X : << a, b >> \in R /\ << b, c >> \in R => << a, c >> \in R
                   /\ \A a \in X : << a, a >> \notin R
Sorted(f, X, R) == /\ f \in [1 .. Cardinality(X) -> X]
                   /\ \A i, k \in DOMAIN f : f[i] = f[k] => i = k
                   /\ \A i, k \in DOMAIN f : i < k => << f[i], f[k] >> \in R

LEMMA Sorts ==
    ASSUME NEW X, IsFiniteSet(X), NEW R, OrderedBy(X, R)
    PROVE  \E f : Sorted(f, X, R)
<1>0. /\ \A a, b \in X : a = b \/ << a, b >> \in R \/ << b, a >> \in R
      /\ \A a, b, c \in X : << a, b >> \in R /\ << b, c >> \in R => << a, c >> \in R
      /\ \A a \in X : << a, a >> \notin R
  BY DEF OrderedBy
<1> DEFINE n == Cardinality(X)
           Low(e) == { x \in X : x = e \/ << x, e >> \in R }
           p == [e \in X |-> Cardinality(Low(e))]
<1>1. n \in Nat /\ IsFiniteSet(1 .. n) /\ Cardinality(1 .. n) = n
  BY FS_CardinalityType, FS_Interval
<1>2. ASSUME NEW e \in X
      PROVE  IsFiniteSet(Low(e)) /\ p[e] = Cardinality(Low(e)) /\ p[e] \in 1 .. n
  <2>1. Low(e) \in SUBSET X /\ Low(e) # {} /\ p[e] = Cardinality(Low(e))  OBVIOUS
  <2> DEFINE low == Low(e)
  <2> HIDE DEF low
  <2>2. IsFiniteSet(low) /\ Cardinality(low) <= Cardinality(X)  BY <2>1, FS_Subset DEF low
  <2>3. Cardinality(low) \in Nat /\ Cardinality(low) # 0
    BY <2>1, <2>2, FS_CardinalityType, FS_EmptySet DEF low
  <2> QED  BY <1>1, <2>1, <2>2, <2>3 DEF low
<1>3. ASSUME NEW a \in X, NEW b \in X, << a, b >> \in R PROVE p[a] < p[b]
  <2>1. Low(a) \in SUBSET Low(b) /\ Low(a) # Low(b)
    <3>1. Low(a) \in SUBSET Low(b)  BY <1>0, <1>3
    <3>2. b \in Low(b)  OBVIOUS
    <3>3. b \notin Low(a)  BY <1>0, <1>3
    <3> QED  BY <3>1, <3>2, <3>3
  <2> DEFINE A == Low(a)
             B == Low(b)
  <2>2. A \in SUBSET B /\ A # B /\ IsFiniteSet(B)  BY <1>2, <2>1
  <2>3. p[a] = Cardinality(A) /\ p[b] = Cardinality(B)  BY <1>2
  <2> HIDE DEF p
  <2>5. p[a] \in 1 .. n /\ p[b] \in 1 .. n  BY <1>2
  <2> HIDE DEF A, B, Low, n
  <2>4. Cardinality(A) <= Cardinality(B) /\ Cardinality(A) # Cardinality(B)  BY <2>2, FS_Subset
  <2> QED  BY <1>1, <2>3, <2>4, <2>5
<1>4. p \in [X -> 1 .. n]
  <2>1. p = [e \in X |-> p[e]]  OBVIOUS
  <2> HIDE DEF p
  <2> QED  BY <1>2, <2>1
<1> HIDE DEF p, Low
<1>5. ASSUME NEW a \in X, NEW b \in X, a # b PROVE p[a] # p[b]
  <2>1. p[a] \in Nat /\ p[b] \in Nat  BY <1>1, <1>4
  <2>2. << a, b >> \in R \/ << b, a >> \in R  BY <1>0, <1>5
  <2>3. CASE << a, b >> \in R  BY <1>3, <2>1, <2>3
  <2>4. CASE << b, a >> \in R  BY <1>3, <2>1, <2>4
  <2> QED  BY <2>2, <2>3, <2>4
<1>6. p \in Injection(X, 1 .. n)  BY <1>4, <1>5 DEF Injection, IsInjective
<1>7. p \in Surjection(X, 1 .. n)
  <2> HIDE DEF n
  <2> QED  BY <1>1, <1>6, FS_Injection DEF n
<1> HIDE DEF n
<1>8. \A i \in 1 .. n : \E e \in X : p[e] = i  BY <1>7 DEF Surjection
<1> DEFINE f == [i \in 1 .. n |-> CHOOSE e \in X : p[e] = i]
<1>9. DOMAIN f = 1 .. n /\ \A i \in 1 .. n : f[i] \in X /\ p[f[i]] = i  BY <1>8
<1>10. f \in [1 .. n -> X]  BY <1>8
<1> HIDE DEF f
<1>11. \A i, k \in DOMAIN f : f[i] = f[k] => i = k  BY <1>9
<1>12. \A i, k \in DOMAIN f : i < k => << f[i], f[k] >> \in R
  <2> SUFFICES ASSUME NEW i \in 1 .. n, NEW k \in 1 .. n, i < k PROVE << f[i], f[k] >> \in R
    BY <1>9
  <2>1. p[f[i]] = i /\ p[f[k]] = k /\ f[i] \in X /\ f[k] \in X  BY <1>9
  <2>2. f[i] # f[k]  BY <1>1, <2>1
  <2>3. << f[k], f[i] >> \notin R  BY <1>1, <1>3, <2>1
  <2> QED  BY <1>0, <2>1, <2>2, <2>3
<1> QED  BY <1>10, <1>11, <1>12 DEF n, Sorted

\* A list of a finite set without repetitions, as long as the set is large, has all of it.
LEMMA Onto ==
    ASSUME NEW X, IsFiniteSet(X), NEW f \in [1 .. Cardinality(X) -> X],
           \A i, k \in DOMAIN f : f[i] = f[k] => i = k
    PROVE  Cardinality(X) \in Nat /\ \A x \in X : \E i \in DOMAIN f : f[i] = x
<1> DEFINE n == Cardinality(X)
<1>1. n \in Nat  BY FS_CardinalityType
<1>2. IsFiniteSet(1 .. n) /\ Cardinality(1 .. n) = n  BY <1>1, FS_Interval
<1> HIDE DEF n
<1>3. f \in Injection(1 .. n, X)  BY DEF Injection, IsInjective, n
<1>4. f \in Surjection(1 .. n, X)  BY <1>2, <1>3, FS_Injection DEF n
<1> QED  BY <1>1, <1>4 DEF Surjection, n
-----------------------------------------------------------------------------
(* The lists of networks.  What parse_wifi_networks keeps of the access    *)
(* points it has read so far has one of each network, and none of them     *)
(* would have taken the place of it; a list without two of a name can be   *)
(* sorted in one way.                                                      *)

\* Which of two access points of a network parse_wifi_networks keeps; those it has of a
\* network; what it keeps after one more; and all of its loop.
Wins(c, e) == (c.inUse /\ ~ e.inUse) \/ (c.inUse = e.inUse /\ c.signal > e.signal)
OfThat(best, s) == { e \in best : e.ssid = s }
Pass(aps, k, best) == IF \A e \in OfThat(best, aps[k].ssid) : Wins(aps[k], e)
                      THEN (best \ OfThat(best, aps[k].ssid)) \cup { aps[k] } ELSE best
Loop(aps, n, f) == f = [k \in 0 .. n |-> IF k = 0 THEN {} ELSE Pass(aps, k, f[k - 1])]

\* After k access points: some of them, for each one that is at least as good, and one a network.
Chosen(aps, k, best) ==
  /\ best \subseteq { aps[i] : i \in 1 .. k }
  /\ \A i \in 1 .. k : \E e \in best : e.ssid = aps[i].ssid /\ ~ Wins(aps[i], e)
  /\ \A e, g \in best : e.ssid = g.ssid => e = g

LEMMA LoopRuns == ASSUME NEW aps, NEW n \in Nat PROVE \E f : Loop(aps, n, f)
<1> DEFINE S == { m \in Nat : \E f : Loop(aps, m, f) }
<1>1. 0 \in S
  <2> DEFINE f == [k \in 0 .. 0 |-> {}]
  <2>1. Loop(aps, 0, f)  BY DEF Loop
  <2> QED  BY <2>1
<1>2. ASSUME NEW m \in 0 .. n - 1, m \in S PROVE m + 1 \in S
  <2>1. PICK f : Loop(aps, m, f)  BY <1>2
  <2> DEFINE g == [k \in 0 .. m + 1 |-> IF k = m + 1 THEN Pass(aps, m + 1, f[m]) ELSE f[k]]
  <2>2. \A k \in 0 .. m : g[k] = f[k]  OBVIOUS
  <2>3. g[m + 1] = Pass(aps, m + 1, f[m])  OBVIOUS
  <2>4. \A k \in 0 .. m : f[k] = IF k = 0 THEN {} ELSE Pass(aps, k, f[k - 1])  BY <2>1 DEF Loop
  <2> DEFINE w == [k \in 0 .. m + 1 |-> IF k = 0 THEN {} ELSE Pass(aps, k, g[k - 1])]
  <2>6. g = [k \in 0 .. m + 1 |-> g[k]]  OBVIOUS
  <2> HIDE DEF g
  <2>7. \A k \in 0 .. m + 1 : g[k] = IF k = 0 THEN {} ELSE Pass(aps, k, g[k - 1])
    <3> TAKE k \in 0 .. m + 1
    <3>1. CASE k = m + 1  BY <2>2, <2>3, <3>1
    <3>2. CASE k \in 0 .. m  BY <2>2, <2>4, <3>2
    <3> QED  BY <3>1, <3>2
  <2>8. g = w  BY <2>6, <2>7
  <2>9. Loop(aps, m + 1, g)  BY <2>8 DEF Loop
  <2> QED  BY <2>9
<1> HIDE DEF S
<1>3. n \in S  BY <1>1, <1>2, UpTo
<1> QED  BY <1>3 DEF S

LEMMA ScanIs ==
    ASSUME NEW aps, Len(aps) \in Nat
    PROVE  \E f : Loop(aps, Len(aps), f) /\ Network!NmcliScan(aps) = Network!Ordered(f[Len(aps)])
<1> DEFINE best == CHOOSE g : g = [k \in 0 .. Len(aps) |-> IF k = 0 THEN {} ELSE Pass(aps, k, g[k - 1])]
<1>1. Network!NmcliScan(aps) = Network!Ordered(Network!Collect(aps, Wins))
  BY DEF Network!NmcliScan, Wins
<1>2. Network!Collect(aps, Wins) = best[Len(aps)]  BY DEF Network!Collect, Pass, OfThat
<1>3. Loop(aps, Len(aps), best)  BY LoopRuns DEF Loop
<1> HIDE DEF best
<1> QED  BY <1>1, <1>2, <1>3

LEMMA BetterStill ==
    ASSUME NEW x \in Network!BSS, NEW c \in Network!BSS, NEW e \in Network!BSS, ~ Wins(x, e), Wins(c, e)
    PROVE  ~ Wins(x, c)
BY DEF Wins, Network!BSS, Network!Signals

LEMMA PassChooses ==
    ASSUME NEW aps \in Seq(Network!BSS), NEW k \in 1 .. Len(aps), NEW best, Chosen(aps, k - 1, best)
    PROVE  Chosen(aps, k, Pass(aps, k, best))
<1> DEFINE c == aps[k]
           old == OfThat(best, c.ssid)
           new == Pass(aps, k, best)
<1>1. c \in Network!BSS /\ \A i \in 1 .. k : aps[i] \in Network!BSS  OBVIOUS
<1>2. best \subseteq { aps[i] : i \in 1 .. k } /\ best \subseteq Network!BSS  BY <1>1 DEF Chosen
<1>3. \A e, g \in best : e.ssid = g.ssid => e = g  BY DEF Chosen
<1>4. \A i \in 1 .. k : i # k => \E e \in best : e.ssid = aps[i].ssid /\ ~ Wins(aps[i], e)
  BY DEF Chosen
<1>5. ~ Wins(c, c)  BY <1>1 DEF Wins, Network!BSS, Network!Signals
<1>6. old = { e \in best : e.ssid = c.ssid }  BY DEF OfThat
<1>7. CASE ~ \A e \in old : Wins(c, e)
  <2>1. new = best  BY <1>7 DEF Pass
  <2>2. PICK e \in best : e.ssid = c.ssid /\ ~ Wins(c, e)  BY <1>6, <1>7
  <2> HIDE DEF new, old
  <2> QED  BY <1>2, <1>3, <1>4, <2>1, <2>2 DEF Chosen, new
<1>8. CASE \A e \in old : Wins(c, e)
  <2>1. new = (best \ old) \cup {c}  BY <1>8 DEF Pass
  <2>2. \A e, g \in new : e.ssid = g.ssid => e = g  BY <1>3, <1>6, <2>1
  <2>3. new \subseteq { aps[i] : i \in 1 .. k }  BY <1>2, <2>1
  <2>4. ASSUME NEW i \in 1 .. k PROVE \E e \in new : e.ssid = aps[i].ssid /\ ~ Wins(aps[i], e)
    <3>1. CASE i = k  BY <1>5, <2>1, <3>1
    <3>2. CASE i # k
      <4>1. PICK e \in best : e.ssid = aps[i].ssid /\ ~ Wins(aps[i], e)  BY <1>4, <3>2
      <4>2. CASE e \in old
        <5>1. ~ Wins(aps[i], c)  BY <1>1, <1>2, <1>8, <4>1, <4>2, BetterStill
        <5> QED  BY <1>6, <2>1, <4>1, <4>2, <5>1
      <4>3. CASE e \notin old  BY <2>1, <4>1, <4>3
      <4> QED  BY <4>2, <4>3
    <3> QED  BY <3>1, <3>2
  <2> HIDE DEF new
  <2> QED  BY <2>2, <2>3, <2>4 DEF Chosen, new
<1> QED  BY <1>7, <1>8

LEMMA LoopChooses ==
    ASSUME NEW aps \in Seq(Network!BSS), NEW f, Loop(aps, Len(aps), f)
    PROVE  Chosen(aps, Len(aps), f[Len(aps)])
<1> DEFINE n == Len(aps)
           S == { k \in 0 .. n : Chosen(aps, k, f[k]) }
<1>0. n \in Nat /\ n = Len(aps)  OBVIOUS
<1> HIDE DEF n
<1>1. f[0] = {} /\ \A k \in 1 .. n : f[k] = Pass(aps, k, f[k - 1])
  <2>1. f = [k \in 0 .. n |-> IF k = 0 THEN {} ELSE Pass(aps, k, f[k - 1])]  BY DEF Loop, n
  <2>2. \A k \in 0 .. n : f[k] = IF k = 0 THEN {} ELSE Pass(aps, k, f[k - 1])  BY <2>1
  <2> QED  BY <1>0, <2>2
<1>2. 0 \in S
  <2>1. Chosen(aps, 0, f[0])  BY <1>1 DEF Chosen
  <2>2. 0 \in 0 .. n  BY <1>0
  <2> QED  BY <2>1, <2>2
<1>3. ASSUME NEW k \in 0 .. n - 1, k \in S PROVE k + 1 \in S
  <2>1. k + 1 \in 1 .. n /\ (k + 1) - 1 = k  BY <1>0
  <2> DEFINE j == k + 1
  <2>2. Chosen(aps, j - 1, f[j - 1])  BY <1>3, <2>1
  <2> HIDE DEF j
  <2>3. Chosen(aps, j, Pass(aps, j, f[j - 1]))  BY <2>1, <2>2, PassChooses DEF j, n
  <2> QED  BY <1>1, <2>1, <2>3 DEF j
<1> HIDE DEF S
<1>4. \A k \in 0 .. n : k \in S  BY <1>0, <1>2, <1>3, UpTo
<1> QED  BY <1>0, <1>4 DEF S
-----------------------------------------------------------------------------
\* How a set may be listed.
LEMMA OrdersAre ==
    ASSUME NEW X
    PROVE  Network!Orders(X) = { f \in [1 .. Cardinality(X) -> X] : \A i, k \in DOMAIN f : f[i] = f[k] => i = k }
BY DEF Network!Orders, Network!Cardinality, Cardinality

LEMMA OrdersList ==
    ASSUME NEW X, IsFiniteSet(X), NEW f \in Network!Orders(X)
    PROVE  Cardinality(X) \in Nat /\ f \in [1 .. Cardinality(X) -> X] /\ \A x \in X : \E i \in DOMAIN f : f[i] = x
<1>1. f \in [1 .. Cardinality(X) -> X] /\ \A i, k \in DOMAIN f : f[i] = f[k] => i = k  BY OrdersAre
<1> QED  BY <1>1, Onto

LEMMA AlphabetIs ==
    \A s \in SSIDs : Network!Position(s) \in Nat /\ Network!SSIDOrder[Network!Position(s)] = s
<1> DEFINE n == Cardinality(SSIDs)
<1>1. PICK f : f \in Bijection(1 .. n, SSIDs)
  BY SSIDsAssumption, FS_CardinalityType DEF ExistsBijection
<1>2. f \in [1 .. n -> SSIDs] /\ \A i, k \in 1 .. n : f[i] = f[k] => i = k
  BY <1>1 DEF Bijection, Injection, Surjection, IsInjective
<1>3. f \in Network!Orders(SSIDs)  BY <1>2, OrdersAre
<1>4. Network!SSIDOrder \in Network!Orders(SSIDs)  BY <1>3 DEF Network!SSIDOrder
<1>5. n \in Nat /\ Network!SSIDOrder \in [1 .. n -> SSIDs] /\ \A s \in SSIDs : \E i \in DOMAIN Network!SSIDOrder : Network!SSIDOrder[i] = s
  BY <1>4, SSIDsAssumption, OrdersList
<1> HIDE DEF n
<1>6. ASSUME NEW s \in SSIDs PROVE Network!Position(s) \in Nat /\ Network!SSIDOrder[Network!Position(s)] = s
  <2>1. Network!Position(s) \in DOMAIN Network!SSIDOrder /\ Network!SSIDOrder[Network!Position(s)] = s
    BY <1>5 DEF Network!Position
  <2> QED  BY <1>5, <2>1
<1> QED  BY <1>6

\* A scan is listed by signal, then by name.
LEMMA ScanSorts ==
    ASSUME NEW X, IsFiniteSet(X),
           \A a, b \in X : a = b \/ Network!Before(a, b) \/ Network!Before(b, a),
           \A a, b, c \in X : Network!Before(a, b) /\ Network!Before(b, c) => Network!Before(a, c),
           \A a \in X : ~ Network!Before(a, a)
    PROVE  /\ Network!Ordered(X) \in Network!Orders(X)
           /\ \A i, k \in DOMAIN Network!Ordered(X) : i < k => Network!Before(Network!Ordered(X)[i], Network!Ordered(X)[k])
<1> DEFINE R == { p \in X \X X : Network!Before(p[1], p[2]) }
<1>1. \A a, b \in X : << a, b >> \in R <=> Network!Before(a, b)  OBVIOUS
<1> HIDE DEF R
<1>2. /\ \A a, b \in X : a = b \/ << a, b >> \in R \/ << b, a >> \in R
      /\ \A a, b, c \in X : << a, b >> \in R /\ << b, c >> \in R => << a, c >> \in R
      /\ \A a \in X : << a, a >> \notin R
  BY <1>1
<1>3. PICK f : Sorted(f, X, R)  BY <1>2, Sorts DEF OrderedBy
<1>4. f \in Network!Orders(X)  BY <1>3, OrdersAre DEF Sorted
<1>5. \A i, k \in DOMAIN f : i < k => Network!Before(f[i], f[k])
  <2> SUFFICES ASSUME NEW i \in DOMAIN f, NEW k \in DOMAIN f, i < k PROVE Network!Before(f[i], f[k])
    OBVIOUS
  <2>1. << f[i], f[k] >> \in R /\ f[i] \in X /\ f[k] \in X  BY <1>3 DEF Sorted
  <2> QED  BY <1>1, <2>1
<1> QED  BY <1>4, <1>5 DEF Network!Ordered
-----------------------------------------------------------------------------
LEMMA ScanGood == ASSUME air \in Seq(Network!BSS) PROVE Network!ScanKeepsConnected
<1>0. Len(air) \in Nat /\ DOMAIN air = 1 .. Len(air) /\ \A i \in DOMAIN air : air[i] \in Network!BSS
  OBVIOUS
<1>1. PICK f : Loop(air, Len(air), f) /\ Network!NmcliScan(air) = Network!Ordered(f[Len(air)])
  BY <1>0, ScanIs
<1> DEFINE X == f[Len(air)]
           l == Network!NmcliScan(air)
<1>2. Chosen(air, Len(air), X)  BY <1>1, LoopChooses
<1>3. l = Network!Ordered(X)  BY <1>1
<1> HIDE DEF X, l
<1>4. /\ X \subseteq Network!BSS /\ \A e \in X : \E i \in DOMAIN air : air[i] = e
      /\ \A i \in DOMAIN air : \E e \in X : e.ssid = air[i].ssid /\ ~ Wins(air[i], e)
      /\ \A e, g \in X : e.ssid = g.ssid => e = g
  BY <1>0, <1>2 DEF Chosen
<1>5. IsFiniteSet(X)
  <2> DEFINE image == { air[i] : i \in 1 .. Len(air) }
             g == [i \in 1 .. Len(air) |-> air[i]]
  <2>1. g \in Surjection(1 .. Len(air), image)  BY DEF Surjection
  <2>2. IsFiniteSet(1 .. Len(air))  BY <1>0, FS_Interval
  <2>3. X \in SUBSET image  BY <1>2 DEF Chosen
  <2> HIDE DEF image, g
  <2>4. IsFiniteSet(image)  BY <2>1, <2>2, FS_Surjection
  <2> QED  BY <2>3, <2>4, FS_Subset
<1>6. \A a \in X : a.signal \in Nat /\ a.ssid \in SSIDs /\ Network!Position(a.ssid) \in Nat
  BY <1>4, AlphabetIs DEF Network!BSS, Network!Signals
<1>7. \A a, b \in X : a # b => Network!Position(a.ssid) # Network!Position(b.ssid)
  <2> SUFFICES ASSUME NEW a \in X, NEW b \in X, a # b PROVE Network!Position(a.ssid) # Network!Position(b.ssid)
    OBVIOUS
  <2>1. a.ssid # b.ssid  BY <1>4
  <2>2. a.ssid \in SSIDs /\ b.ssid \in SSIDs  BY <1>6
  <2> QED  BY <2>1, <2>2, AlphabetIs
<1>8. /\ \A a, b \in X : a = b \/ Network!Before(a, b) \/ Network!Before(b, a)
      /\ \A a, b, c \in X : Network!Before(a, b) /\ Network!Before(b, c) => Network!Before(a, c)
      /\ \A a \in X : ~ Network!Before(a, a)
  BY <1>6, <1>7 DEF Network!Before
<1>9. l \in Network!Orders(X) /\ \A i, k \in DOMAIN l : i < k => Network!Before(l[i], l[k])
  BY <1>3, <1>5, <1>8, ScanSorts
<1>10. /\ Cardinality(X) \in Nat /\ l \in [1 .. Cardinality(X) -> X]
       /\ \A x \in X : \E i \in DOMAIN l : l[i] = x
  BY <1>5, <1>9, OrdersList
<1>11. \A i \in DOMAIN l : l[i] \in X  BY <1>10
<1>12. \A i, k \in DOMAIN l : i # k => l[i] # l[k]  BY <1>9, OrdersAre
<1>13. { l[i].ssid : i \in DOMAIN l } = { air[i].ssid : i \in DOMAIN air }
  <2>1. \A i \in DOMAIN l : \E j \in DOMAIN air : l[i].ssid = air[j].ssid  BY <1>4, <1>11
  <2>2. \A j \in DOMAIN air : \E i \in DOMAIN l : l[i].ssid = air[j].ssid  BY <1>4, <1>10
  <2> QED  BY <2>1, <2>2
<1>14. \A i, k \in DOMAIN l : i < k => l[i].ssid # l[k].ssid /\ l[i].signal >= l[k].signal
  <2> SUFFICES ASSUME NEW i \in DOMAIN l, NEW k \in DOMAIN l, i < k
               PROVE  l[i].ssid # l[k].ssid /\ l[i].signal >= l[k].signal
    OBVIOUS
  <2>1. l[i] \in X /\ l[k] \in X /\ Network!Before(l[i], l[k])  BY <1>9, <1>11
  <2>2. i # k  BY <1>10
  <2>3. l[i].ssid # l[k].ssid  BY <1>4, <1>12, <2>1, <2>2
  <2> QED  BY <1>6, <2>1, <2>3 DEF Network!Before
<1> DEFINE aps(s) == { air[i] : i \in { k \in DOMAIN air : air[k].ssid = s } }
           best(s) == IF \E b \in aps(s) : b.inUse THEN { b \in aps(s) : b.inUse } ELSE aps(s)
<1>15. ASSUME NEW i \in DOMAIN l
       PROVE  l[i] \in best(l[i].ssid) /\ \A b \in best(l[i].ssid) : b.signal <= l[i].signal
  <2> DEFINE e == l[i]
             s == aps(e.ssid)
  <2>1. e \in X /\ e \in Network!BSS  BY <1>4, <1>11
  <2>2. e \in s  BY <1>4, <2>1
  <2>3. ASSUME NEW b \in s PROVE b \in Network!BSS /\ ~ Wins(b, e)
    <3>1. PICK k \in DOMAIN air : b = air[k] /\ air[k].ssid = e.ssid  OBVIOUS
    <3>2. PICK x \in X : x.ssid = air[k].ssid /\ ~ Wins(air[k], x)  BY <1>4
    <3>3. x = e  BY <1>4, <2>1, <3>1, <3>2
    <3> QED  BY <1>0, <3>1, <3>2, <3>3
  <2> HIDE DEF e, s, aps
  <2>4. CASE \E b \in s : b.inUse
    <3>1. best(e.ssid) = { b \in s : b.inUse }  BY <2>4 DEF s
    <3>2. e.inUse /\ \A b \in s : b.inUse => b.signal <= e.signal
      BY <2>1, <2>3, <2>4 DEF Wins, Network!BSS, Network!Signals
    <3> QED  BY <2>2, <3>1, <3>2 DEF e
  <2>5. CASE ~ \E b \in s : b.inUse
    <3>1. best(e.ssid) = s  BY <2>5 DEF s
    <3>2. \A b \in s : b.signal <= e.signal
      BY <2>1, <2>2, <2>3, <2>5 DEF Wins, Network!BSS, Network!Signals
    <3> QED  BY <2>2, <3>1, <3>2 DEF e
  <2> QED  BY <2>4, <2>5
<1> HIDE DEF aps, best
<1> QED  BY <1>13, <1>14, <1>15 DEF Network!ScanKeepsConnected, aps, best, l
-----------------------------------------------------------------------------
\* No device that is up is of a type the backends class apart, or without an IPv4 address.
Alike == \A d \in Network!NmcliUp(devices) : d.link = "inet" /\ d.type \notin { "tunnel", "unlisted" }

LEMMA KindsAgree == ASSUME devices \subseteq Network!Devices PROVE Network!BackendsAgree
<1> SUFFICES ASSUME Alike PROVE Network!NmcliState(TRUE, devices) = Network!IfconfigState(devices)
  BY DEF Network!BackendsAgree, Alike
<1> DEFINE met == { Network!NmcliKind(d) : d \in Network!NmcliUp(devices) }
           up == { Network!IfconfigKind(d) : d \in Network!IfconfigUp(devices) }
           kind == CHOOSE k \in up : \A other \in up : Network!Priority[k] <= Network!Priority[other]
<1>1. /\ \A d : Network!NmcliKind(d) \in Network!Kinds
      /\ met \subseteq Network!Kinds
  <2>1. \A d : Network!NmcliKind(d) \in Network!Kinds  BY DEF Network!NmcliKind, Network!Kinds
  <2> QED  BY <2>1
<1>0. up = met
  <2>1. Network!NmcliUp(devices) = Network!IfconfigUp(devices)
    BY DEF Network!NmcliUp, Network!IfconfigUp, Alike
  <2>2. ASSUME NEW d \in Network!NmcliUp(devices) PROVE Network!NmcliKind(d) = Network!IfconfigKind(d)
    <3>1. d.type \in { "ethernet", "wifi", "vpn", "bridge" }
      BY DEF Network!NmcliUp, Network!Devices, Network!Types, Alike
    <3> QED  BY <3>1 DEF Network!NmcliKind, Network!IfconfigKind
  <2> QED  BY <2>1, <2>2
<1>2. /\ Network!Priority["ethernet"] = 0 /\ Network!Priority["wifi"] = 1 /\ Network!Priority["vpn"] = 2
      /\ Network!Priority["other"] = 3
  BY DEF Network!Priority, Network!Kinds
<1>3. Network!IfconfigState(devices) = IF up = {} THEN "none" ELSE kind
  BY DEF Network!IfconfigState
<1>5. Network!NmcliState(TRUE, devices) =
        CASE "ethernet" \in met -> "ethernet"
          [] "ethernet" \notin met /\ "wifi" \in met -> "wifi"
          [] met \cap { "ethernet", "wifi" } = {} /\ "vpn" \in met -> "vpn"
          [] met \cap { "ethernet", "wifi", "vpn" } = {} -> IF "other" \in met THEN "other" ELSE "none"
  BY DEF Network!NmcliState
<1>6. \A x \in up : x \in { "ethernet", "wifi", "vpn", "other" }  BY <1>0, <1>1 DEF Network!Kinds
<1>4. ASSUME NEW k \in up, \A x \in up : Network!Priority[k] <= Network!Priority[x] PROVE kind = k
  <2> HIDE DEF up
  <2>1. kind \in up /\ \A x \in up : Network!Priority[kind] <= Network!Priority[x]  BY <1>4
  <2> HIDE DEF kind
  <2>3. Network!Priority[kind] = Network!Priority[k]
    <3>1. \A x \in up : Network!Priority[x] \in Nat  BY <1>2, <1>6
    <3> QED  BY <1>4, <2>1, <3>1
  <2> QED  BY <1>2, <1>4, <1>6, <2>1, <2>3
<1> HIDE DEF kind, up, met
<1>7. CASE "ethernet" \in met
  <2>1. "ethernet" \in up /\ \A x \in up : Network!Priority["ethernet"] <= Network!Priority[x]
    BY <1>0, <1>2, <1>6, <1>7
  <2>2. up # {} /\ kind = "ethernet"  BY <1>4, <2>1
  <2>3. Network!NmcliState(TRUE, devices) = "ethernet"  BY <1>5, <1>7
  <2> QED  BY <1>3, <2>2, <2>3
<1>8. CASE "ethernet" \notin met /\ "wifi" \in met
  <2>1. "wifi" \in up /\ \A x \in up : Network!Priority["wifi"] <= Network!Priority[x]
    BY <1>0, <1>2, <1>6, <1>8
  <2>3. Network!NmcliState(TRUE, devices) = "wifi"  BY <1>5, <1>8
  <2>2. up # {} /\ kind = "wifi"  BY <1>4, <2>1
  <2> QED  BY <1>3, <2>2, <2>3
<1>9. CASE met \cap { "ethernet", "wifi" } = {} /\ "vpn" \in met
  <2>1. "vpn" \in up /\ \A x \in up : Network!Priority["vpn"] <= Network!Priority[x]
    BY <1>0, <1>2, <1>6, <1>9
  <2>3. Network!NmcliState(TRUE, devices) = "vpn"  BY <1>5, <1>9
  <2>2. up # {} /\ kind = "vpn"  BY <1>4, <2>1
  <2> QED  BY <1>3, <2>2, <2>3
<1>10. CASE met \cap { "ethernet", "wifi", "vpn" } = {}
  <2>1. Network!NmcliState(TRUE, devices) = IF "other" \in met THEN "other" ELSE "none"  BY <1>5, <1>10
  <2>2. CASE "other" \in met
    <3>1. "other" \in up /\ \A x \in up : Network!Priority["other"] <= Network!Priority[x]
      BY <1>0, <1>2, <1>6, <1>10, <2>2
    <3>3. Network!NmcliState(TRUE, devices) = "other"  BY <2>1, <2>2
    <3>2. up # {} /\ kind = "other"  BY <1>4, <3>1
    <3> QED  BY <1>3, <3>2, <3>3
  <2>3. CASE "other" \notin met
    <3>1. up = {}  BY <1>0, <1>6, <1>10, <2>3
    <3> QED  BY <1>3, <2>1, <2>3, <3>1
  <2> QED  BY <2>2, <2>3
<1> QED  BY <1>7, <1>8, <1>9, <1>10

\* What is around is listed.
AirInv == air \in Seq(Network!BSS) /\ devices \subseteq Network!Devices

LEMMA Listed ==
    ASSUME NEW S, NEW q, q \in UNION { [1 .. n -> S] : n \in 0 .. 2 } PROVE q \in Seq(S)
<1>1. PICK n \in 0 .. 2 : q \in [1 .. n -> S]  OBVIOUS
<1> QED  BY <1>1, SeqDef

LEMMA AirKeeps == ASSUME AirInv, Network!Next PROVE AirInv'
<1>1. CASE UNCHANGED << air, devices >>  BY <1>1 DEF AirInv
<1>2. CASE Network!WorldChanges
  <2>1. air' \in UNION { [1 .. n -> Network!BSS] : n \in 0 .. 2 } => air' \in Seq(Network!BSS)
    BY Listed
  <2>3. \/ air' \in UNION { [1 .. n -> Network!BSS] : n \in 0 .. 2 } /\ UNCHANGED devices
        \/ devices' \subseteq Network!Devices /\ UNCHANGED air
        \/ UNCHANGED << air, devices >>
    BY <1>2 DEF Network!WorldChanges
  <2> QED  BY <1>1, <2>1, <2>3 DEF AirInv
<1>3. CASE Network!QuickSettingsDisconnect
  <2> DEFINE off == [i \in DOMAIN air |-> [air[i] EXCEPT !.inUse = FALSE]]
  <2>1. UNCHANGED devices /\ air' \in { air, off }  BY <1>3 DEF Network!QuickSettingsDisconnect
  <2>2. \A i \in DOMAIN air : [air[i] EXCEPT !.inUse = FALSE] \in Network!BSS
    <3>1. \A b \in Network!BSS : [b EXCEPT !.inUse = FALSE] \in Network!BSS
      BY Zenon DEF Network!BSS
    <3>2. \A i \in DOMAIN air : air[i] \in Network!BSS  BY DEF AirInv
    <3> QED  BY <3>1, <3>2, Zenon
  <2>3. off \in Seq(Network!BSS)
    <3>1. Len(air) \in Nat /\ DOMAIN air = 1 .. Len(air)  BY DEF AirInv
    <3> QED  BY <2>2, <3>1
  <2> HIDE DEF off
  <2> QED  BY <2>1, <2>3 DEF AirInv
<1>4. (Network!PollTimer \/ Network!TogglePopup \/ Network!SwitchTab \/ Network!OpenPage \/ Network!ClosePage \/ Network!QuickSettingsRefresh)
        => UNCHANGED << air, devices >>
  BY DEF Network!PollTimer, Network!TogglePopup, Network!SwitchTab, Network!OpenPage,
     Network!ClosePage, Network!QuickSettingsRefresh
<1>5. (Network!Type \/ Network!Cancel \/ Network!Submit) => UNCHANGED << air, devices >>
  BY DEF Network!Type, Network!Cancel, Network!Submit
<1>6. \A s : Network!QuickSettingsConnect(s) => UNCHANGED << air, devices >>
  BY DEF Network!QuickSettingsConnect
<1>7. \A i : Network!ClickNetwork(i) => UNCHANGED << air, devices >>  BY DEF Network!ClickNetwork
<1>8. \A t : Network!NmcliEnds(t) \/ Network!WpaStep(t) => UNCHANGED << air, devices >>
  BY Zenon DEF Network!NmcliEnds, Network!WpaStep, Network!rest
<1> QED  BY <1>1, <1>2, <1>3, <1>4, <1>5, <1>6, <1>7, <1>8 DEF Network!Next

LEMMA AirStarts == ASSUME Network!Init PROVE AirInv
<1> DEFINE T == { b \in Network!BSS : b.secured /\ ~ b.inUse /\ b.signal = 1 }
<1>1. air \in UNION { [1 .. n -> T] : n \in 0 .. 2 }
  <2>1. air \in UNION { [1 .. n -> T] : n \in { 0, 2 } }  BY Zenon DEF Network!Init
  <2>2. PICK n \in { 0, 2 } : air \in [1 .. n -> T]  BY <2>1
  <2> HIDE DEF T
  <2>3. n \in 0 .. 2  BY <2>2
  <2> QED  BY <2>2, <2>3
<1>2. devices = {}  BY DEF Network!Init
<1>3. T \subseteq Network!BSS  OBVIOUS
<1> HIDE DEF T
<1>4. air \in Seq(T)  BY <1>1, Listed
<1>5. air \in Seq(Network!BSS)  BY <1>3, <1>4, SeqMonotonic
<1> QED  BY <1>2, <1>5 DEF AirInv
-----------------------------------------------------------------------------
(* Connecting.  A thread carries what was typed for its network, and no    *)
(* two threads have the same network with wpa_cli.                         *)

\* A sequence, of whatever; and one whose characters were all typed for s.
IsList(q) == \E S : q \in Seq(S)
For(pw, s) == \A i \in DOMAIN pw : pw[i] = s

\* The steps of a thread that has a network of its own with wpa_cli.
Owning == { "ssid", "psk", "enable" }

\* A thread carries what was typed for the network it is to connect to, and the network it has
\* with wpa_cli is as far as it has brought it.
Under(t, given) ==
  /\ t = [to |-> t.to, with |-> t.with, step |-> t.step, id |-> t.id]
  /\ t.step \in { "nmcli", "add" } \cup Owning /\ For(t.with, t.to)
  /\ t.step \in Owning => t.id \in DOMAIN given
  /\ t.step = "ssid" => given[t.id].psk = << >>
  /\ t.step = "psk" => given[t.id].ssid = t.to

Alone(some) == \A t, u \in some : t.step \in Owning /\ u.step \in Owning /\ t.id = u.id => t = u

Given(given) == \A i \in DOMAIN given :
                  /\ given[i] = [ssid |-> given[i].ssid, psk |-> given[i].psk, on |-> given[i].on]
                  /\ For(given[i].psk, given[i].ssid)

PassInv == /\ IsList(input) /\ For(input, prompt)
           /\ IsList(nets) /\ Given(nets)
           /\ \A t \in threads : Under(t, nets)
           /\ Alone(threads)

\* A list with one entry more.
LEMMA Longer ==
    ASSUME NEW q, IsList(q), NEW e
    PROVE  /\ IsList(Append(q, e)) /\ DOMAIN q = 1 .. Len(q) /\ Len(q) \in Nat
           /\ DOMAIN Append(q, e) = 1 .. Len(q) + 1
           /\ Append(q, e)[Len(q) + 1] = e
           /\ \A i \in DOMAIN q : Append(q, e)[i] = q[i]
<1>1. PICK S : q \in Seq(S)  BY DEF IsList
<1> DEFINE T == S \cup {e}
<1>2. q \in Seq(T) /\ e \in T  BY <1>1, SeqMonotonic
<1> HIDE DEF T
<1>3. Append(q, e) \in Seq(T)  BY <1>2
<1>4. IsList(Append(q, e))  BY <1>3 DEF IsList
<1> QED  BY <1>2, <1>4

\* A list with another entry at place k.
LEMMA Replaced ==
    ASSUME NEW q, IsList(q), NEW k \in DOMAIN q, NEW e
    PROVE  /\ IsList([q EXCEPT ![k] = e]) /\ DOMAIN [q EXCEPT ![k] = e] = DOMAIN q
           /\ [q EXCEPT ![k] = e][k] = e
           /\ \A i \in DOMAIN q : i # k => [q EXCEPT ![k] = e][i] = q[i]
<1>1. PICK S : q \in Seq(S)  BY DEF IsList
<1> DEFINE T == S \cup {e}
<1>2. q \in Seq(T) /\ e \in T /\ k \in 1 .. Len(q)  BY <1>1, SeqMonotonic
<1> HIDE DEF T
<1>3. [q EXCEPT ![k] = e] \in Seq(T)  BY <1>2, ExceptSeq
<1>4. IsList([q EXCEPT ![k] = e])  BY <1>3 DEF IsList
<1> QED  BY <1>2, <1>4

LEMMA Blank == IsList(<< >>) /\ \A s : For(<< >>, s)
<1>1. << >> \in Seq({})  OBVIOUS
<1> QED  BY <1>1 DEF IsList, For

\* A thread is spawned, with nothing or with what was typed for its network.
LEMMA Spawning ==
    ASSUME PassInv, NEW s, NEW pw, For(pw, s), Connecting!Connect(s, pw), UNCHANGED nets
    PROVE  (\A t \in threads' : Under(t, nets')) /\ Alone(threads')
<1> DEFINE step == IF backend = "nmcli" THEN "nmcli" ELSE "add"
           n == [to |-> s, with |-> pw, step |-> step, id |-> 0]
<1>1. threads' = threads \cup {n}  BY DEF Connecting!Connect
<1>2. n.to = s /\ n.with = pw /\ n.step = step /\ n.id = 0 /\ step \in { "nmcli", "add" }  OBVIOUS
<1>3. n = [to |-> n.to, with |-> n.with, step |-> n.step, id |-> n.id]  OBVIOUS
<1> HIDE DEF n, step
<1>4. Under(n, nets)  BY <1>2, <1>3 DEF Under, Owning
<1>5. n.step \notin Owning  BY <1>2 DEF Owning
<1> QED  BY <1>1, <1>4, <1>5 DEF PassInv, Alone

LEMMA TypingKeeps ==
    ASSUME PassInv, Connecting!Type \/ Connecting!Cancel \/ Connecting!OpenPage PROVE PassInv'
<1>1. UNCHANGED << threads, nets >>  BY DEF Connecting!Type, Connecting!Cancel, Connecting!OpenPage
<1>2. IsList(input') /\ For(input', prompt')
  <2>1. CASE input' = << >>  BY <2>1, Blank
  <2>2. CASE Connecting!Type
    <3>1. UNCHANGED prompt  BY <2>2 DEF Connecting!Type
    <3>2. CASE input' = Append(input, prompt)  BY <3>1, <3>2, Longer DEF PassInv, For
    <3>3. CASE input # << >> /\ input' = SubSeq(input, 1, Len(input) - 1)
      <4>1. PICK S : input \in Seq(S)  BY DEF PassInv, IsList
      <4>2. input' \in Seq(S) /\ \A i \in DOMAIN input' : i \in DOMAIN input /\ input'[i] = input[i]
        BY <3>3, <4>1
      <4> QED  BY <3>1, <4>2 DEF PassInv, IsList, For
    <3> QED  BY <2>2, <3>2, <3>3 DEF Connecting!Type
  <2>3. (Connecting!Cancel \/ Connecting!OpenPage) => input' = << >>
    BY Zenon DEF Connecting!Cancel, Connecting!OpenPage
  <2> QED  BY <2>1, <2>2, <2>3
<1> QED  BY <1>1, <1>2 DEF PassInv

LEMMA ClickKeeps == ASSUME PassInv, NEW i, Connecting!ClickNetwork(i) PROVE PassInv'
<1>1. UNCHANGED nets  BY DEF Connecting!ClickNetwork
<1>2. \/ input' = << >> /\ UNCHANGED threads
      \/ UNCHANGED << prompt, input >> /\ Connecting!Connect(scan[i].ssid, << >>)
  BY Zenon DEF Connecting!ClickNetwork, Connecting!OpenModal
<1>3. CASE input' = << >> /\ UNCHANGED threads
  BY <1>1, <1>3, Blank DEF PassInv
<1>4. CASE UNCHANGED << prompt, input >> /\ Connecting!Connect(scan[i].ssid, << >>)
  <2>1. (\A t \in threads' : Under(t, nets')) /\ Alone(threads')  BY <1>1, <1>4, Blank, Spawning
  <2> QED  BY <1>1, <1>4, <2>1 DEF PassInv
<1> QED  BY <1>2, <1>3, <1>4

LEMMA QuickKeeps == ASSUME PassInv, NEW s, Connecting!QuickSettingsConnect(s) PROVE PassInv'
<1>1. UNCHANGED << nets, prompt, input >>  BY DEF Connecting!QuickSettingsConnect
<1>2. PICK pw \in { << >>, << s >> } : Connecting!Connect(s, pw)
  BY DEF Connecting!QuickSettingsConnect
<1>3. For(pw, s)  BY <1>2, Blank DEF For
<1>4. (\A t \in threads' : Under(t, nets')) /\ Alone(threads')  BY <1>1, <1>2, <1>3, Spawning
<1> QED  BY <1>1, <1>4 DEF PassInv

LEMMA SubmitKeeps == ASSUME PassInv, Connecting!Submit PROVE PassInv'
<1>1. UNCHANGED nets /\ input' = << >>  BY Zenon DEF Connecting!Submit
<1>2. Connecting!Connect(prompt, input) \/ UNCHANGED threads  BY Zenon DEF Connecting!Submit
<1>3. (\A t \in threads' : Under(t, nets')) /\ Alone(threads')
  <2>1. For(input, prompt)  BY DEF PassInv
  <2>2. Connecting!Connect(prompt, input) => (\A t \in threads' : Under(t, nets')) /\ Alone(threads')
    BY <1>1, <2>1, Spawning
  <2> QED  BY <1>1, <1>2, <2>2 DEF PassInv
<1> QED  BY <1>1, <1>3, Blank DEF PassInv

\* A thread that is left is as it was when its own network is.
LEMMA Undisturbed ==
    ASSUME NEW t, NEW before, NEW after, Under(t, before), DOMAIN before \subseteq DOMAIN after,
           t.step \in Owning => after[t.id] = before[t.id]
    PROVE  Under(t, after)
BY DEF Under, Owning

LEMMA EndKeeps == ASSUME PassInv, NEW t \in threads, Connecting!NmcliEnds(t) PROVE PassInv'
<1>1. UNCHANGED << prompt, input >> /\ threads' = threads \ {t}
  BY DEF Connecting!NmcliEnds, Connecting!rest
<1>2. Alone(threads')  BY <1>1 DEF PassInv, Alone
<1>3. Under(t, nets)  BY DEF PassInv
<1>4. CASE UNCHANGED nets  BY <1>1, <1>2, <1>4 DEF PassInv
<1>5. CASE nets' = Append(nets, [ssid |-> t.to, psk |-> t.with, on |-> TRUE])
  <2> DEFINE n == [ssid |-> t.to, psk |-> t.with, on |-> TRUE]
  <2>1. n = [ssid |-> n.ssid, psk |-> n.psk, on |-> n.on] /\ For(n.psk, n.ssid)  BY <1>3 DEF Under
  <2> HIDE DEF n
  <2>2. /\ IsList(nets') /\ DOMAIN nets = 1 .. Len(nets) /\ Len(nets) \in Nat
        /\ DOMAIN nets' = 1 .. Len(nets) + 1
        /\ nets'[Len(nets) + 1] = n /\ \A i \in DOMAIN nets : nets'[i] = nets[i]
    BY <1>5, Longer DEF PassInv, n
  <2>3. Given(nets')  BY <2>1, <2>2 DEF PassInv, Given
  <2>4. DOMAIN nets \subseteq DOMAIN nets'  BY <2>2
  <2>5. ASSUME NEW u \in threads' PROVE Under(u, nets')
    <3>1. Under(u, nets)  BY <1>1 DEF PassInv
    <3>2. u.step \in Owning => nets'[u.id] = nets[u.id]  BY <2>2, <3>1 DEF Under
    <3> QED  BY <2>4, <3>1, <3>2, Undisturbed
  <2> QED  BY <1>1, <1>2, <2>2, <2>3, <2>5 DEF PassInv
<1> QED  BY <1>4, <1>5 DEF Connecting!NmcliEnds

\* A thread goes on, and its own network with it.
LEMMA Goes ==
    ASSUME PassInv, NEW t \in threads, UNCHANGED << prompt, input >>,
           NEW u, threads' = (threads \ {t}) \cup {u}, Under(u, nets'), u.step \in Owning,
           IsList(nets'), Given(nets'), DOMAIN nets \subseteq DOMAIN nets',
           \A i \in DOMAIN nets : i # u.id => nets'[i] = nets[i],
           \A v \in threads \ {t} : v.step \in Owning => v.id # u.id
    PROVE  PassInv'
<1>1. ASSUME NEW v \in threads \ {t} PROVE Under(v, nets')
  <2>1. Under(v, nets)  BY DEF PassInv
  <2>2. v.step \in Owning => nets'[v.id] = nets[v.id]  BY <2>1 DEF Under
  <2> QED  BY <2>1, <2>2, Undisturbed
<1>2. Alone(threads')
  <2> SUFFICES ASSUME NEW v \in threads', NEW w \in threads',
                      v.step \in Owning, w.step \in Owning, v.id = w.id
               PROVE  v = w
    BY DEF Alone
  <2>1. v \in threads \ {t} /\ w \in threads \ {t} => v = w  BY DEF PassInv, Alone
  <2> QED  BY <2>1
<1> QED  BY <1>1, <1>2 DEF PassInv

LEMMA WpaKeeps == ASSUME PassInv, NEW t \in threads, Connecting!WpaStep(t) PROVE PassInv'
<1>0. UNCHANGED << prompt, input >>  BY DEF Connecting!WpaStep, Connecting!rest
<1>1. Under(t, nets) /\ t.step \in { "nmcli", "add", "ssid", "psk", "enable" }
      /\ DOMAIN nets = 1 .. Len(nets) /\ Len(nets) \in Nat
  BY Longer DEF PassInv, Under, Owning
<1>2. CASE threads' = threads \ {t} /\ UNCHANGED nets
  BY <1>0, <1>2 DEF PassInv, Alone
<1>3. CASE /\ t.step = "add" /\ nets' = Append(nets, [ssid |-> "", psk |-> << >>, on |-> FALSE])
           /\ threads' = (threads \ {t}) \cup { [t EXCEPT !.step = "ssid", !.id = Len(nets) + 1] }
  <2> DEFINE u == [t EXCEPT !.step = "ssid", !.id = Len(nets) + 1]
  <2>1. PICK n : nets' = Append(nets, n) /\ n = [ssid |-> n.ssid, psk |-> n.psk, on |-> n.on]
                 /\ n.psk = << >>
    <3> DEFINE n == [ssid |-> "", psk |-> << >>, on |-> FALSE]
    <3>1. n = [ssid |-> n.ssid, psk |-> n.psk, on |-> n.on] /\ n.psk = << >>  BY Zenon
    <3>2. nets' = Append(nets, n)  BY <1>3, Zenon
    <3> HIDE DEF n
    <3> QED  BY <3>1, <3>2
  <2>2. /\ u = [to |-> t.to, with |-> t.with, step |-> "ssid", id |-> Len(nets) + 1]
    <3>1. t = [to |-> t.to, with |-> t.with, step |-> t.step, id |-> t.id]  BY <1>1 DEF Under
    <3> DEFINE half == [t EXCEPT !.step = "ssid"]
    <3>2. half = [to |-> t.to, with |-> t.with, step |-> "ssid", id |-> t.id]  BY <3>1
    <3>3. u = [half EXCEPT !.id = Len(nets) + 1]  OBVIOUS
    <3> HIDE DEF half, u
    <3> QED  BY <3>2, <3>3
  <2> HIDE DEF u
  <2>3. u.to = t.to /\ u.with = t.with /\ u.step = "ssid" /\ u.id = Len(nets) + 1
        /\ u = [to |-> u.to, with |-> u.with, step |-> u.step, id |-> u.id]
    BY <2>2
  <2>4. threads' = (threads \ {t}) \cup {u}  BY <1>3 DEF u
  <2>5. /\ IsList(nets') /\ DOMAIN nets' = 1 .. Len(nets) + 1
        /\ nets'[Len(nets) + 1] = n /\ \A i \in DOMAIN nets : nets'[i] = nets[i]
    BY <2>1, Longer DEF PassInv
  <2>6. Given(nets')  BY <1>1, <2>1, <2>5, Blank DEF PassInv, Given
  <2>7. Under(u, nets')  BY <1>1, <2>1, <2>3, <2>5 DEF Under, Owning
  <2>8. u.step \in Owning  BY <2>3 DEF Owning
  <2>9. DOMAIN nets \subseteq DOMAIN nets' /\ \A i \in DOMAIN nets : i # u.id => nets'[i] = nets[i]
    BY <1>1, <2>5
  <2>10. \A v \in threads \ {t} : v.step \in Owning => v.id # u.id
    BY <1>1, <2>3 DEF PassInv, Under
  <2> QED  BY <1>0, <2>4, <2>5, <2>6, <2>7, <2>8, <2>9, <2>10, Goes
<1>4. CASE t.step \in Owning
  <2>0. /\ t.id \in DOMAIN nets /\ For(t.with, t.to)
        /\ nets[t.id] = [ssid |-> nets[t.id].ssid, psk |-> nets[t.id].psk, on |-> nets[t.id].on]
        /\ For(nets[t.id].psk, nets[t.id].ssid)
        /\ t = [to |-> t.to, with |-> t.with, step |-> t.step, id |-> t.id]
    BY <1>1, <1>4 DEF Under, PassInv, Given
  <2>1. ASSUME NEW n, n = [ssid |-> n.ssid, psk |-> n.psk, on |-> n.on], For(n.psk, n.ssid),
               nets' = [nets EXCEPT ![t.id] = n]
        PROVE  /\ IsList(nets') /\ Given(nets') /\ DOMAIN nets' = DOMAIN nets /\ nets'[t.id] = n
               /\ \A i \in DOMAIN nets : i # t.id => nets'[i] = nets[i]
    <3>1. /\ IsList(nets') /\ DOMAIN nets' = DOMAIN nets /\ nets'[t.id] = n
          /\ \A i \in DOMAIN nets : i # t.id => nets'[i] = nets[i]
      BY <2>0, <2>1, Replaced DEF PassInv
    <3>2. Given(nets')
      <4> SUFFICES ASSUME NEW i \in DOMAIN nets'
                   PROVE  /\ nets'[i] = [ssid |-> nets'[i].ssid, psk |-> nets'[i].psk, on |-> nets'[i].on]
                          /\ For(nets'[i].psk, nets'[i].ssid)
        BY DEF Given
      <4>1. CASE i = t.id  BY <2>1, <3>1, <4>1
      <4>2. CASE i # t.id  BY <3>1, <4>2 DEF PassInv, Given
      <4> QED  BY <4>1, <4>2
    <3> QED  BY <3>1, <3>2
  <2>2. \A v \in threads \ {t} : v.step \in Owning => v.id # t.id
    BY <1>4 DEF PassInv, Alone
  <2>3. ASSUME NEW n, n = [ssid |-> n.ssid, psk |-> n.psk, on |-> n.on], For(n.psk, n.ssid),
               nets' = [nets EXCEPT ![t.id] = n], NEW step \in { "psk", "enable" },
               step = "psk" => n.ssid = t.to,
               threads' = (threads \ {t}) \cup { [t EXCEPT !.step = step, !.id = t.id] }
        PROVE  PassInv'
    <3> DEFINE u == [t EXCEPT !.step = step, !.id = t.id]
    <3>1. u = [to |-> t.to, with |-> t.with, step |-> step, id |-> t.id]
      <4> DEFINE half == [t EXCEPT !.step = step]
      <4>1. half = [to |-> t.to, with |-> t.with, step |-> step, id |-> t.id]  BY <2>0
      <4>2. u = [half EXCEPT !.id = t.id]  OBVIOUS
      <4> HIDE DEF half, u
      <4> QED  BY <4>1, <4>2
    <3>2. threads' = (threads \ {t}) \cup {u}  BY <2>3
    <3> HIDE DEF u
    <3>3. u.to = t.to /\ u.with = t.with /\ u.step = step /\ u.id = t.id
          /\ u = [to |-> u.to, with |-> u.with, step |-> u.step, id |-> u.id]
      BY <3>1
    <3>4. /\ IsList(nets') /\ Given(nets') /\ DOMAIN nets' = DOMAIN nets /\ nets'[t.id] = n
          /\ \A i \in DOMAIN nets : i # t.id => nets'[i] = nets[i]
      BY <2>1, <2>3
    <3>5. Under(u, nets') /\ u.step \in Owning  BY <2>0, <2>3, <3>3, <3>4 DEF Under, Owning
    <3>6. \A i \in DOMAIN nets : i # u.id => nets'[i] = nets[i]  BY <3>3, <3>4
    <3>7. \A v \in threads \ {t} : v.step \in Owning => v.id # u.id  BY <2>2, <3>3
    <3> QED  BY <1>0, <3>2, <3>4, <3>5, <3>6, <3>7, Goes
  <2> DEFINE old == nets[t.id]
  <2>4. CASE /\ t.step = "ssid" /\ nets' = [nets EXCEPT ![t.id].ssid = t.to]
             /\ threads' = (threads \ {t}) \cup { [t EXCEPT !.step = "psk", !.id = t.id] }
    <3> DEFINE n == [old EXCEPT !.ssid = t.to]
    <3>1. nets' = [nets EXCEPT ![t.id] = n]  BY <2>4
    <3> HIDE DEF old
    <3>2. n = [ssid |-> t.to, psk |-> old.psk, on |-> old.on]  BY <2>0 DEF old
    <3>3. old.psk = << >>  BY <1>1, <2>4 DEF Under, old
    <3> HIDE DEF n
    <3>4. n = [ssid |-> n.ssid, psk |-> n.psk, on |-> n.on] /\ n.ssid = t.to /\ For(n.psk, n.ssid)
      BY <3>2, <3>3, Blank
    <3> QED  BY <2>3, <2>4, <3>1, <3>4
  <2>5. CASE /\ t.step = "psk" /\ nets' = [nets EXCEPT ![t.id].psk = t.with]
             /\ threads' = (threads \ {t}) \cup { [t EXCEPT !.step = "enable", !.id = t.id] }
    <3> DEFINE n == [old EXCEPT !.psk = t.with]
    <3>1. nets' = [nets EXCEPT ![t.id] = n]  BY <2>5
    <3> HIDE DEF old
    <3>2. n = [ssid |-> old.ssid, psk |-> t.with, on |-> old.on]  BY <2>0 DEF old
    <3>3. old.ssid = t.to  BY <1>1, <2>5 DEF Under, old
    <3> HIDE DEF n
    <3>4. n = [ssid |-> n.ssid, psk |-> n.psk, on |-> n.on] /\ n.ssid = t.to /\ For(n.psk, n.ssid)
      BY <2>0, <3>2, <3>3
    <3> QED  BY <2>3, <2>5, <3>1, <3>4
  <2>6. CASE /\ t.step = "enable" /\ nets' = [nets EXCEPT ![t.id].on = TRUE]
             /\ threads' = threads \ {t}
    <3> DEFINE n == [old EXCEPT !.on = TRUE]
    <3>1. nets' = [nets EXCEPT ![t.id] = n]  BY <2>6
    <3>0. old = [ssid |-> old.ssid, psk |-> old.psk, on |-> old.on]  BY <2>0 DEF old
    <3> HIDE DEF old
    <3>2. n = [ssid |-> old.ssid, psk |-> old.psk, on |-> TRUE]
      <4> DEFINE T == TRUE
      <4>1. n = [old EXCEPT !.on = T]  OBVIOUS
      <4> HIDE DEF T, n
      <4>2. n = [ssid |-> old.ssid, psk |-> old.psk, on |-> T]  BY <3>0, <4>1
      <4> QED  BY <4>2, Zenon DEF T
    <3>3. For(old.psk, old.ssid)  BY <2>0 DEF old
    <3> HIDE DEF n
    <3>4. n = [ssid |-> n.ssid, psk |-> n.psk, on |-> n.on] /\ For(n.psk, n.ssid)
      BY <3>2, <3>3
    <3>5. /\ IsList(nets') /\ Given(nets') /\ DOMAIN nets' = DOMAIN nets
          /\ \A i \in DOMAIN nets : i # t.id => nets'[i] = nets[i]
      BY <2>1, <3>1, <3>4
    <3>6. ASSUME NEW v \in threads' PROVE Under(v, nets')
      <4>1. Under(v, nets) /\ (v.step \in Owning => v.id # t.id)  BY <2>2, <2>6 DEF PassInv
      <4>2. v.step \in Owning => nets'[v.id] = nets[v.id]  BY <3>5, <4>1 DEF Under
      <4> QED  BY <3>5, <4>1, <4>2, Undisturbed
    <3>7. Alone(threads')  BY <2>6 DEF PassInv, Alone
    <3> QED  BY <1>0, <3>5, <3>6, <3>7 DEF PassInv
  <2>7. t.step # "add" /\ t.step # "nmcli"  BY <1>4 DEF Owning
  <2> QED  BY <1>2, <2>4, <2>5, <2>6, <2>7, Zenon DEF Connecting!WpaStep
<1> QED  BY <1>1, <1>2, <1>3, <1>4, Zenon DEF Connecting!WpaStep, Owning

LEMMA PassKeeps == ASSUME PassInv, Connecting!Next PROVE PassInv'
<1>1. CASE Connecting!WorldChanges \/ Connecting!PollTimer \/ Connecting!TogglePopup \/ Connecting!SwitchTab \/ Connecting!ClosePage
           \/ Connecting!QuickSettingsRefresh \/ Connecting!QuickSettingsDisconnect
  <2>1. UNCHANGED << prompt, input, threads, nets >>
    BY <1>1 DEF Connecting!WorldChanges, Connecting!PollTimer, Connecting!TogglePopup,
       Connecting!SwitchTab, Connecting!ClosePage, Connecting!QuickSettingsRefresh,
       Connecting!QuickSettingsDisconnect
  <2> QED  BY <2>1 DEF PassInv
<1> QED  BY <1>1, TypingKeeps, ClickKeeps, QuickKeeps, SubmitKeeps, EndKeeps, WpaKeeps DEF Connecting!Next

LEMMA PassStarts == ASSUME Connecting!Init PROVE PassInv
<1>1. input = << >> /\ threads = {} /\ nets = << >>  BY DEF Connecting!Init
<1>2. IsList(input) /\ IsList(nets) /\ For(input, prompt)  BY <1>1, Blank
<1>3. DOMAIN nets = {}  BY <1>1
<1> QED  BY <1>1, <1>2, <1>3 DEF PassInv, Given, Alone

LEMMA PassGood == ASSUME PassInv PROVE Connecting!PasswordGoesWhereTyped
<1> SUFFICES ASSUME NEW n \in Connecting!Members(nets), NEW i \in DOMAIN n.psk PROVE n.psk[i] = n.ssid
  BY DEF Connecting!PasswordGoesWhereTyped
<1>1. PICK k \in DOMAIN nets : n = nets[k]  BY DEF Connecting!Members
<1>2. For(n.psk, n.ssid)  BY <1>1 DEF PassInv, Given
<1> QED  BY <1>2 DEF For

\* Whatever is in reach, with however many access points of one name, the list has each network
\* once, with the one in use before a stronger one, and both backends see the same kind of
\* connection; and however the threads that connect take turns and fail, no password goes to a
\* network it was not typed for.
THEOREM NetworksAndPasswords == Spec => []NetworkAgrees
<1> DEFINE I == /\ part = "network" => AirInv
                /\ part = "connecting" => PassInv
<1>1. Init => I  BY StartsItsOwn, AirStarts, PassStarts
<1>2. I /\ [Next]_vars => I'
  <2>1. AirInv /\ UNCHANGED vars => AirInv'  BY DEF AirInv, vars
  <2>2. PassInv /\ UNCHANGED vars => PassInv'  BY DEF PassInv, vars
  <2>3. part = "network" /\ AirInv /\ [Next]_vars => AirInv'  BY <2>1, OnlyItsOwn, AirKeeps
  <2>4. part = "connecting" /\ PassInv /\ [Next]_vars => PassInv'  BY <2>2, OnlyItsOwn, PassKeeps
  <2> QED  BY <2>3, <2>4, OnlyItsOwn
<1>3. I => NetworkAgrees
  <2>1. AirInv => Network!ScanKeepsConnected /\ Network!BackendsAgree
    BY ScanGood, KindsAgree DEF AirInv
  <2> QED  BY <2>1, PassGood DEF NetworkAgrees
<1> QED  BY <1>1, <1>2, <1>3, PTL DEF Spec
-----------------------------------------------------------------------------
(* The settings pages.  Each step draws, or leaves alone what is drawn:    *)
(* then the tree on the screen is the one of the moment.                   *)

LEMMA SettingsPagesSame ==
    ASSUME UNCHANGED << page, adding, query, list, powered >>
    PROVE  SettingsPages!Tree' = SettingsPages!Tree /\ SettingsPages!Effective' = SettingsPages!Effective
<1>1. SettingsPages!Effective' = SettingsPages!Effective /\ SettingsPages!Sidebar' = SettingsPages!Sidebar
  BY DEF SettingsPages!Effective, SettingsPages!Sidebar, SettingsPages!Matches, SettingsPages!Hits
<1>2. \A p : SettingsPages!Content(p)' = SettingsPages!Content(p)
  BY DEF SettingsPages!Hits, SettingsPages!Content, SettingsPages!ThemeRows, SettingsPages!CursorRows, SettingsPages!WallpaperRows, SettingsPages!SoundRows, SettingsPages!NetworkRows, SettingsPages!BluetoothRows, SettingsPages!PinnedRows, SettingsPages!ChoiceRow, SettingsPages!WallpaperRow, SettingsPages!DeviceRow, SettingsPages!ProfileRow, SettingsPages!WifiRow, SettingsPages!BluetoothRow, SettingsPages!Row, SettingsPages!First, SettingsPages!FirstOf, SettingsPages!Place, SettingsPages!Narrowed, SettingsPages!Addable
<1> QED  BY <1>1, <1>2 DEF SettingsPages!Tree

LEMMA DevicesPagesSame ==
    ASSUME UNCHANGED << page, adding, query, list, powered >>
    PROVE  DevicesPages!Tree' = DevicesPages!Tree /\ DevicesPages!Effective' = DevicesPages!Effective
<1>1. DevicesPages!Effective' = DevicesPages!Effective /\ DevicesPages!Sidebar' = DevicesPages!Sidebar
  BY DEF DevicesPages!Effective, DevicesPages!Sidebar, DevicesPages!Matches, DevicesPages!Hits
<1>2. \A p : DevicesPages!Content(p)' = DevicesPages!Content(p)
  BY DEF DevicesPages!Hits, DevicesPages!Content, DevicesPages!ThemeRows, DevicesPages!CursorRows, DevicesPages!WallpaperRows, DevicesPages!SoundRows, DevicesPages!NetworkRows, DevicesPages!BluetoothRows, DevicesPages!PinnedRows, DevicesPages!ChoiceRow, DevicesPages!WallpaperRow, DevicesPages!DeviceRow, DevicesPages!ProfileRow, DevicesPages!WifiRow, DevicesPages!BluetoothRow, DevicesPages!Row, DevicesPages!First, DevicesPages!FirstOf, DevicesPages!Place, DevicesPages!Narrowed, DevicesPages!Addable
<1> QED  BY <1>1, <1>2 DEF DevicesPages!Tree

LEMMA LooksPagesSame ==
    ASSUME UNCHANGED << page, adding, query, list, powered >>
    PROVE  LooksPages!Tree' = LooksPages!Tree /\ LooksPages!Effective' = LooksPages!Effective
<1>1. LooksPages!Effective' = LooksPages!Effective /\ LooksPages!Sidebar' = LooksPages!Sidebar
  BY DEF LooksPages!Effective, LooksPages!Sidebar, LooksPages!Matches, LooksPages!Hits
<1>2. \A p : LooksPages!Content(p)' = LooksPages!Content(p)
  BY DEF LooksPages!Hits, LooksPages!Content, LooksPages!ThemeRows, LooksPages!CursorRows, LooksPages!WallpaperRows, LooksPages!SoundRows, LooksPages!NetworkRows, LooksPages!BluetoothRows, LooksPages!PinnedRows, LooksPages!ChoiceRow, LooksPages!WallpaperRow, LooksPages!DeviceRow, LooksPages!ProfileRow, LooksPages!WifiRow, LooksPages!BluetoothRow, LooksPages!Row, LooksPages!First, LooksPages!FirstOf, LooksPages!Place, LooksPages!Narrowed, LooksPages!Addable
<1> QED  BY <1>1, <1>2 DEF LooksPages!Tree

LEMMA PinningPagesSame ==
    ASSUME UNCHANGED << page, adding, query, list, powered >>
    PROVE  PinningPages!Tree' = PinningPages!Tree /\ PinningPages!Effective' = PinningPages!Effective
<1>1. PinningPages!Effective' = PinningPages!Effective /\ PinningPages!Sidebar' = PinningPages!Sidebar
  BY DEF PinningPages!Effective, PinningPages!Sidebar, PinningPages!Matches, PinningPages!Hits
<1>2. \A p : PinningPages!Content(p)' = PinningPages!Content(p)
  BY DEF PinningPages!Hits, PinningPages!Content, PinningPages!ThemeRows, PinningPages!CursorRows, PinningPages!WallpaperRows, PinningPages!SoundRows, PinningPages!NetworkRows, PinningPages!BluetoothRows, PinningPages!PinnedRows, PinningPages!ChoiceRow, PinningPages!WallpaperRow, PinningPages!DeviceRow, PinningPages!ProfileRow, PinningPages!WifiRow, PinningPages!BluetoothRow, PinningPages!Row, PinningPages!First, PinningPages!FirstOf, PinningPages!Place, PinningPages!Narrowed, PinningPages!Addable
<1> QED  BY <1>1, <1>2 DEF PinningPages!Tree

LEMMA SettingsPagesKeep == ASSUME SettingsPages!TreeIsCurrent, SettingsPages!Next \/ UNCHANGED vars PROVE SettingsPages!TreeIsCurrent'
<1>1. SettingsPages!Draw => SettingsPages!TreeIsCurrent'  BY DEF SettingsPages!Draw, SettingsPages!TreeIsCurrent
<1>2. UNCHANGED << view, page, adding, query, list, powered, seen >> => SettingsPages!TreeIsCurrent'
  BY SettingsPagesSame DEF SettingsPages!TreeIsCurrent
<1>3. SettingsPages!Next => SettingsPages!Draw \/ UNCHANGED << view, page, adding, query, list, powered, seen >>
  BY DEF SettingsPages!Open, SettingsPages!Close, SettingsPages!SetCategory, SettingsPages!Search, SettingsPages!Click, SettingsPages!ClickTheme, SettingsPages!ClickChoice, SettingsPages!ClickDevice, SettingsPages!ClickConnection, SettingsPages!ClickFar, SettingsPages!ClickPinned, SettingsPages!ClickAdd, SettingsPages!ToggleBluetooth, SettingsPages!ToggleAdding, SettingsPages!WorldChanges, SettingsPages!JobEnds, SettingsPages!Hear, SettingsPages!TickAudio, SettingsPages!Next
<1> QED  BY <1>1, <1>2, <1>3 DEF vars

LEMMA LooksPagesKeep == ASSUME LooksPages!TreeIsCurrent, LooksPages!Next \/ UNCHANGED vars PROVE LooksPages!TreeIsCurrent'
<1>1. LooksPages!Draw => LooksPages!TreeIsCurrent'  BY DEF LooksPages!Draw, LooksPages!TreeIsCurrent
<1>2. UNCHANGED << view, page, adding, query, list, powered, seen >> => LooksPages!TreeIsCurrent'
  BY LooksPagesSame DEF LooksPages!TreeIsCurrent
<1>3. LooksPages!Next => LooksPages!Draw \/ UNCHANGED << view, page, adding, query, list, powered, seen >>
  BY DEF LooksPages!Open, LooksPages!Close, LooksPages!SetCategory, LooksPages!Search, LooksPages!Click, LooksPages!ClickTheme, LooksPages!ClickChoice, LooksPages!ClickDevice, LooksPages!ClickConnection, LooksPages!ClickFar, LooksPages!ClickPinned, LooksPages!ClickAdd, LooksPages!ToggleBluetooth, LooksPages!ToggleAdding, LooksPages!WorldChanges, LooksPages!JobEnds, LooksPages!Hear, LooksPages!TickAudio, LooksPages!Next
<1> QED  BY <1>1, <1>2, <1>3 DEF vars

LEMMA PinningPagesKeep == ASSUME PinningPages!TreeIsCurrent, PinningPages!Next \/ UNCHANGED vars PROVE PinningPages!TreeIsCurrent'
<1>1. PinningPages!Draw => PinningPages!TreeIsCurrent'  BY DEF PinningPages!Draw, PinningPages!TreeIsCurrent
<1>2. UNCHANGED << view, page, adding, query, list, powered, seen >> => PinningPages!TreeIsCurrent'
  BY PinningPagesSame DEF PinningPages!TreeIsCurrent
<1>3. PinningPages!Next => PinningPages!Draw \/ UNCHANGED << view, page, adding, query, list, powered, seen >>
  BY DEF PinningPages!Open, PinningPages!Close, PinningPages!SetCategory, PinningPages!Search, PinningPages!Click, PinningPages!ClickTheme, PinningPages!ClickChoice, PinningPages!ClickDevice, PinningPages!ClickConnection, PinningPages!ClickFar, PinningPages!ClickPinned, PinningPages!ClickAdd, PinningPages!ToggleBluetooth, PinningPages!ToggleAdding, PinningPages!WorldChanges, PinningPages!JobEnds, PinningPages!Hear, PinningPages!TickAudio, PinningPages!Next
<1> QED  BY <1>1, <1>2, <1>3 DEF vars

\* The tick leaves the page that is shown alone, unless it is the sound's.
LEMMA DevicesPagesTick ==
    ASSUME page \in { "bluetooth", "sound", "cursor" }, DevicesPages!TickAudio, DevicesPages!Effective' # "sound"
    PROVE  DevicesPages!Tree' = DevicesPages!Tree /\ DevicesPages!Effective' = DevicesPages!Effective
<1> DEFINE P == { "bluetooth", "sound", "cursor" }
<1>1. \A p \in P : DevicesPages!Matches(p)' = DevicesPages!Matches(p)  BY DEF DevicesPages!Matches, DevicesPages!TickAudio
<1>2. DevicesPages!Sidebar' = DevicesPages!Sidebar  BY <1>1 DEF DevicesPages!Sidebar
<1>3. DevicesPages!Effective' = DevicesPages!Effective
  BY <1>1, <1>2 DEF DevicesPages!Effective, DevicesPages!TickAudio, DevicesPages!Before, DevicesPages!Categories
<1>4. DevicesPages!Effective \in P
  <2>1. CASE DevicesPages!Matches(page) \/ DevicesPages!Sidebar = {}  BY <2>1 DEF DevicesPages!Effective
  <2>2. CASE ~ DevicesPages!Matches(page) /\ DevicesPages!Sidebar # {}
    <3>1. DevicesPages!Sidebar \subseteq P  BY DEF DevicesPages!Sidebar
    <3> DEFINE First(p) == \E i \in DOMAIN DevicesPages!Categories : DevicesPages!Categories[i] = p /\ DevicesPages!Before(i) \cap DevicesPages!Sidebar = {}
    <3>2. DevicesPages!Before(2) = { "theme" } /\ DevicesPages!Before(6) = { "theme", "cursor", "wallpaper", "pinned", "network" }
          /\ DevicesPages!Before(7) = { "theme", "cursor", "wallpaper", "pinned", "network", "bluetooth" }
      BY DEF DevicesPages!Before, DevicesPages!Categories
    <3>3. \E p \in DevicesPages!Sidebar : First(p)
      <4>1. DOMAIN DevicesPages!Categories = 1 .. 7 /\ DevicesPages!Categories[2] = "cursor" /\ DevicesPages!Categories[6] = "bluetooth"
            /\ DevicesPages!Categories[7] = "sound"
        BY DEF DevicesPages!Categories
      <4>2. CASE "cursor" \in DevicesPages!Sidebar  BY <3>1, <3>2, <4>1, <4>2
      <4>3. CASE "cursor" \notin DevicesPages!Sidebar /\ "bluetooth" \in DevicesPages!Sidebar  BY <3>1, <3>2, <4>1, <4>3
      <4>4. CASE DevicesPages!Sidebar = { "sound" }  BY <3>2, <4>1, <4>4
      <4> QED  BY <2>2, <3>1, <4>2, <4>3, <4>4
    <3>4. DevicesPages!Effective = CHOOSE p \in DevicesPages!Sidebar : First(p)  BY <2>2 DEF DevicesPages!Effective
    <3> QED  BY <3>1, <3>3, <3>4
  <2> QED  BY <2>1, <2>2
<1>5. \A k \in { "bluetooth", "cursor" } : list'[k] = list[k]
  BY DEF DevicesPages!TickAudio, DevicesPages!Read, DevicesPages!Kinds, DevicesPages!Lists
<1>6. DevicesPages!Content("bluetooth")' = DevicesPages!Content("bluetooth") /\ DevicesPages!Content("cursor")' = DevicesPages!Content("cursor")
  BY <1>5 DEF DevicesPages!TickAudio, DevicesPages!Content, DevicesPages!BluetoothRows, DevicesPages!CursorRows, DevicesPages!BluetoothRow, DevicesPages!ChoiceRow, DevicesPages!Row, DevicesPages!First
<1> QED  BY <1>2, <1>3, <1>4, <1>6 DEF DevicesPages!Tree

DevicesInv == page \in { "bluetooth", "sound", "cursor" } /\ DevicesPages!TreeIsCurrent

LEMMA DevicesPagesKeep == ASSUME DevicesInv, DevicesPages!Next \/ UNCHANGED vars PROVE DevicesInv'
<1>1. page' \in { "bluetooth", "sound", "cursor" }
  BY DEF DevicesInv, vars, DevicesPages!Open, DevicesPages!Close, DevicesPages!SetCategory, DevicesPages!Search, DevicesPages!Click, DevicesPages!ClickTheme, DevicesPages!ClickChoice, DevicesPages!ClickDevice, DevicesPages!ClickConnection, DevicesPages!ClickFar, DevicesPages!ClickPinned, DevicesPages!ClickAdd, DevicesPages!ToggleBluetooth, DevicesPages!ToggleAdding, DevicesPages!WorldChanges, DevicesPages!JobEnds, DevicesPages!Hear, DevicesPages!TickAudio, DevicesPages!Next
<1>2. DevicesPages!Draw => DevicesPages!TreeIsCurrent'  BY DEF DevicesPages!Draw, DevicesPages!TreeIsCurrent
<1>3. UNCHANGED << view, page, adding, query, list, powered, seen >> => DevicesPages!TreeIsCurrent'
  BY DevicesPagesSame DEF DevicesPages!TreeIsCurrent, DevicesInv
<1>4. DevicesPages!TickAudio => DevicesPages!TreeIsCurrent'
  BY DevicesPagesTick DEF DevicesPages!TreeIsCurrent, DevicesPages!TickAudio, DevicesInv
<1>5. DevicesPages!Next => DevicesPages!Draw \/ DevicesPages!TickAudio \/ UNCHANGED << view, page, adding, query, list, powered, seen >>
  BY DEF DevicesPages!Open, DevicesPages!Close, DevicesPages!SetCategory, DevicesPages!Search, DevicesPages!Click, DevicesPages!ClickTheme, DevicesPages!ClickChoice, DevicesPages!ClickDevice, DevicesPages!ClickConnection, DevicesPages!ClickFar, DevicesPages!ClickPinned, DevicesPages!ClickAdd, DevicesPages!ToggleBluetooth, DevicesPages!ToggleAdding, DevicesPages!WorldChanges, DevicesPages!JobEnds, DevicesPages!Hear, DevicesPages!Next
<1> QED  BY <1>1, <1>2, <1>3, <1>4, <1>5 DEF DevicesInv, vars

\* A connection that has been up since the list of them was read is marked in the list.
Entries == [name : Names, on : BOOLEAN]
HiddenInv == /\ "profiles" \in DOMAIN list /\ list["profiles"] \in Seq(Entries)
             /\ "profiles" \in DOMAIN world /\ world["profiles"] \in Seq(Entries)
             /\ kept \subseteq SettingsPages!Marked(list["profiles"])

LEMMA ProfilesAreKind == "profiles" \in SettingsPages!Kinds /\ SettingsPages!Kinds = { "profiles", "wifi" }
BY DEF SettingsPages!Kinds, SettingsPages!Lists

LEMMA TruthsAreEntries == ASSUME NEW k PROVE SettingsPages!Truths(k) \subseteq Seq(Entries)
<1> SUFFICES ASSUME NEW l \in SettingsPages!Truths(k) PROVE l \in Seq(Entries)  OBVIOUS
<1>1. PICK n \in 0 .. 2 : l \in [1 .. n -> Entries]  BY DEF SettingsPages!Truths, Entries
<1> QED  BY <1>1, SeqDef

\* The lists are read again: what is up is marked.
LEMMA RereadKeeps ==
    ASSUME HiddenInv, NEW ks, SettingsPages!Read(ks), UNCHANGED world
    PROVE  HiddenInv'
<1>1. "profiles" \in DOMAIN list'  BY ProfilesAreKind DEF SettingsPages!Read
<1>2. list'["profiles"] = IF "profiles" \in ks THEN world["profiles"] ELSE list["profiles"]
  BY ProfilesAreKind DEF SettingsPages!Read
<1>3. kept' = IF "profiles" \in ks THEN SettingsPages!Marked(world["profiles"]) ELSE kept
  BY DEF SettingsPages!Read
<1> QED  BY <1>1, <1>2, <1>3 DEF HiddenInv

\* One more entry is marked.
LEMMA MarkingKeeps ==
    ASSUME NEW l \in Seq(Entries), NEW new, DOMAIN new = DOMAIN l, new = [i \in DOMAIN l |-> new[i]],
           \A i \in DOMAIN l : new[i] = l[i] \/ new[i] = [l[i] EXCEPT !.on = TRUE]
    PROVE  new \in Seq(Entries) /\ SettingsPages!Marked(l) \subseteq SettingsPages!Marked(new)
<1>1. Len(l) \in Nat /\ DOMAIN l = 1 .. Len(l) /\ \A i \in DOMAIN l : l[i] \in Entries
  BY SeqDef, LenProperties
<1>2. \A i \in DOMAIN l : new[i] \in Entries /\ new[i].name = l[i].name /\ (l[i].on => new[i].on)
  BY <1>1 DEF Entries
<1>3. new \in [1 .. Len(l) -> Entries]  BY <1>1, <1>2
<1>4. new \in Seq(Entries)  BY <1>1, <1>3, SeqDef
<1> QED  BY <1>2, <1>4 DEF SettingsPages!Marked

LEMMA ActivationKeeps ==
    ASSUME HiddenInv, NEW r, SettingsPages!ClickConnection(r)
    PROVE  HiddenInv'
<1> DEFINE l == list["profiles"]
           new == [l EXCEPT ![r.id].on = TRUE]
<1>1. list' = [list EXCEPT !["profiles"] = new] /\ UNCHANGED << world, kept >>
  BY DEF SettingsPages!ClickConnection
<1>2. new \in Seq(Entries) /\ SettingsPages!Marked(l) \subseteq SettingsPages!Marked(new)
  <2> HIDE DEF l
  <2>1. l \in Seq(Entries)  BY DEF HiddenInv, l
  <2>2. DOMAIN new = DOMAIN l /\ new = [i \in DOMAIN l |-> new[i]]
        /\ \A i \in DOMAIN l : new[i] = l[i] \/ new[i] = [l[i] EXCEPT !.on = TRUE]
    OBVIOUS
  <2> QED  BY <2>1, <2>2, MarkingKeeps
<1>3. "profiles" \in DOMAIN list' /\ list'["profiles"] = new  BY <1>1 DEF HiddenInv
<1> QED  BY <1>1, <1>2, <1>3 DEF HiddenInv

LEMMA JobKeeps == ASSUME HiddenInv, NEW x, SettingsPages!JobEnds(x) PROVE HiddenInv'
<1> DEFINE l == world["profiles"]
           new == [i \in DOMAIN l |-> IF l[i].name = x THEN [l[i] EXCEPT !.on = TRUE] ELSE l[i]]
<1>1. UNCHANGED << list, kept >> /\ (world' = [world EXCEPT !["profiles"] = new] \/ UNCHANGED world)
  BY DEF SettingsPages!JobEnds
<1>2. new \in Seq(Entries)
  <2> HIDE DEF l
  <2>1. l \in Seq(Entries)  BY DEF HiddenInv, l
  <2>2. DOMAIN new = DOMAIN l /\ new = [i \in DOMAIN l |-> new[i]]
        /\ \A i \in DOMAIN l : new[i] = l[i] \/ new[i] = [l[i] EXCEPT !.on = TRUE]
    OBVIOUS
  <2> QED  BY <2>1, <2>2, MarkingKeeps
<1> QED  BY <1>1, <1>2 DEF HiddenInv

LEMMA NewWorldKeeps == ASSUME HiddenInv, NEW k, SettingsPages!WorldChanges(k) PROVE HiddenInv'
<1>1. PICK w \in SettingsPages!Truths(k) : world' = [world EXCEPT ![k] = w]
  BY DEF SettingsPages!WorldChanges
<1>2. UNCHANGED list /\ kept' \subseteq kept  BY DEF SettingsPages!WorldChanges
<1>3. w \in Seq(Entries)  BY TruthsAreEntries
<1> QED  BY <1>1, <1>2, <1>3 DEF HiddenInv

\* Clicks on other pages leave the list alone.
LEMMA OtherClicksKeep ==
    ASSUME HiddenInv, NEW r,
           \/ SettingsPages!ClickTheme(r) \/ SettingsPages!ClickPinned(r)
           \/ SettingsPages!ClickAdd(r) \/ SettingsPages!ClickFar(r)
           \/ r.kind # "profiles" /\ (SettingsPages!ClickChoice(r) \/ SettingsPages!ClickDevice(r))
    PROVE  HiddenInv'
<1>1. /\ "profiles" \in DOMAIN list' /\ list'["profiles"] = list["profiles"]
      /\ "profiles" \in DOMAIN world' /\ world'["profiles"] = world["profiles"]
      /\ kept' = kept
  <2>1. CASE SettingsPages!ClickTheme(r)  BY <2>1 DEF SettingsPages!ClickTheme, HiddenInv
  <2>2. CASE SettingsPages!ClickDevice(r) /\ r.kind # "profiles"
    BY <2>2, ProfilesAreKind DEF SettingsPages!ClickDevice, SettingsPages!Lists, HiddenInv
  <2>3. CASE SettingsPages!ClickPinned(r)  BY <2>3 DEF SettingsPages!ClickPinned, HiddenInv
  <2>4. CASE SettingsPages!ClickAdd(r)  BY <2>4 DEF SettingsPages!ClickAdd, HiddenInv
  <2>5. CASE SettingsPages!ClickFar(r)  BY <2>5 DEF SettingsPages!ClickFar, HiddenInv
  <2>6. CASE r.kind # "profiles" /\ SettingsPages!ClickChoice(r)
    BY <2>6 DEF SettingsPages!ClickChoice, HiddenInv
  <2> QED  BY <2>1, <2>2, <2>3, <2>4, <2>5, <2>6
<1> QED  BY <1>1 DEF HiddenInv

LEMMA HiddenKeeps == ASSUME HiddenInv, SettingsPages!Next \/ UNCHANGED vars PROVE HiddenInv'
<1>1. CASE SettingsPages!Open  BY <1>1, RereadKeeps DEF SettingsPages!Open
<1>2. ASSUME NEW p, SettingsPages!SetCategory(p) PROVE HiddenInv'
  BY <1>2, RereadKeeps DEF SettingsPages!SetCategory
<1>3. ASSUME NEW ks, SettingsPages!Hear(ks) PROVE HiddenInv'  BY <1>3, RereadKeeps DEF SettingsPages!Hear
<1>4. CASE SettingsPages!TickAudio  BY <1>4, RereadKeeps DEF SettingsPages!TickAudio
<1>5. CASE SettingsPages!Click
  <2>1. \A ks, r : r \in SettingsPages!Rows(ks) => r.kind \in ks  BY DEF SettingsPages!Rows
  <2> QED  BY <1>5, <2>1, ActivationKeeps, OtherClicksKeep DEF SettingsPages!Click
<1>6. ASSUME UNCHANGED << list, world, kept >> PROVE HiddenInv'  BY <1>6 DEF HiddenInv
<1>7. CASE UNCHANGED vars \/ SettingsPages!Close \/ (\E t \in SettingsPages!Terms : SettingsPages!Search(t))
           \/ SettingsPages!ToggleBluetooth \/ SettingsPages!ToggleAdding
  BY <1>6, <1>7 DEF vars, SettingsPages!Close, SettingsPages!Search, SettingsPages!ToggleBluetooth,
     SettingsPages!ToggleAdding
<1> QED  BY <1>1, <1>2, <1>3, <1>4, <1>5, <1>7, JobKeeps, NewWorldKeeps DEF SettingsPages!Next

LEMMA PagesStart ==
    /\ SettingsPages!Init => SettingsPages!TreeIsCurrent /\ HiddenInv
    /\ DevicesPages!Init  => DevicesInv
    /\ LooksPages!Init    => LooksPages!TreeIsCurrent
    /\ PinningPages!Init  => PinningPages!TreeIsCurrent
<1>1. /\ SettingsPages!Init => SettingsPages!TreeIsCurrent
      /\ DevicesPages!Init  => DevicesInv
      /\ LooksPages!Init    => LooksPages!TreeIsCurrent
      /\ PinningPages!Init  => PinningPages!TreeIsCurrent
  BY DEF SettingsPages!Init, DevicesPages!Init, LooksPages!Init, PinningPages!Init, DevicesInv,
     SettingsPages!TreeIsCurrent, DevicesPages!TreeIsCurrent, LooksPages!TreeIsCurrent,
     PinningPages!TreeIsCurrent
<1>2. SettingsPages!Init => HiddenInv
  <2> SUFFICES ASSUME SettingsPages!Init PROVE HiddenInv  OBVIOUS
  <2>1. "profiles" \in DOMAIN world /\ world["profiles"] \in SettingsPages!Truths("profiles")
    BY ProfilesAreKind DEF SettingsPages!Init
  <2>2. "profiles" \in DOMAIN list /\ list["profiles"] = world["profiles"]
        /\ kept = SettingsPages!Marked(world["profiles"])
    BY ProfilesAreKind DEF SettingsPages!Init
  <2> QED  BY <2>1, <2>2, TruthsAreEntries DEF HiddenInv
<1> QED  BY <1>1, <1>2
-----------------------------------------------------------------------------
(* The settings of a display.  What was picked is what the section says,   *)
(* and once it was reloaded what the output has.                           *)

Offering(m) == \E i \in DOMAIN Modes : DisplaySettings!Key(i) = m

(* A mode that is asked for as it is offered is chosen. *)
LEMMA SelectsListed == ASSUME NEW m, Offering(m) PROVE DisplaySettings!Key(DisplaySettings!Select(m)) = m /\ m # DisplaySettings!NoMode
<1> DEFINE S == DisplaySettings!OfSize(m.size)
           hz(j) == DisplaySettings!Distance(Modes[j].hz, m.hz)
<1>1. Len(Modes) \in Nat /\ DOMAIN Modes = 1 .. Len(Modes) /\ \A i \in DOMAIN Modes : Modes[i] \in DisplaySettings!Mode
  BY ModesAssumption, LenProperties, ElementOfSeq
<1>2. PICK i \in DOMAIN Modes : m = [size |-> Modes[i].size, hz |-> Modes[i].hz]  BY DEF Offering, DisplaySettings!Key
<1>3. m.size \in Nat \ {0} /\ m.hz \in Nat \ {0} /\ m # DisplaySettings!NoMode
  BY <1>1, <1>2 DEF DisplaySettings!Mode, DisplaySettings!NoMode
<1>4. /\ S \subseteq DOMAIN Modes /\ i \in S
      /\ \A j \in S : hz(j) \in Nat /\ Modes[j].size = m.size /\ (hz(j) = 0 <=> Modes[j].hz = m.hz)
  BY <1>1, <1>2, <1>3 DEF DisplaySettings!OfSize, DisplaySettings!Distance, DisplaySettings!Mode
<1>5. DisplaySettings!Select(m) =
        CHOOSE a \in S : \A j \in S : DisplaySettings!Less(<< hz(a) >>, << hz(j) >>) \/ (<< hz(a) >> = << hz(j) >> /\ a <= j)
  BY <1>3, <1>4 DEF DisplaySettings!Select, DisplaySettings!BestFor, DisplaySettings!FirstLeast
<1>6. \A a, j \in S : DisplaySettings!Less(<< hz(a) >>, << hz(j) >>) <=> hz(a) < hz(j)
  <2> SUFFICES ASSUME NEW x, NEW y PROVE DisplaySettings!Less(<< x >>, << y >>) <=> x < y  OBVIOUS
  <2>1. DOMAIN << x >> = { 1 } /\ 1 .. 1 - 1 = {} /\ << x >>[1] = x /\ << y >>[1] = y  OBVIOUS
  <2>2. DisplaySettings!Less(<< x >>, << y >>)
          <=> \E n \in DOMAIN << x >> : << x >>[n] < << y >>[n] /\ \A k \in 1 .. n - 1 : << x >>[k] = << y >>[k]
    BY Zenon DEF DisplaySettings!Less
  <2> QED  BY <2>1, <2>2
<1> HIDE DEF hz, S
<1>7. PICK a \in S : \A j \in S : hz(a) < hz(j) \/ (hz(a) = hz(j) /\ a <= j)
  <2> DEFINE T == { j \in S : hz(j) = 0 }
  <2>1. i \in T  BY <1>2, <1>4
  <2>2. T \in SUBSET Nat  BY <1>1, <1>4
  <2>3. PICK a \in T : \A j \in T : a <= j  BY <2>1, <2>2, LeastNat
  <2>4. \A j \in S : j \in T \/ 0 < hz(j)  BY <1>4
  <2> QED  BY <2>3, <2>4
<1>8. DisplaySettings!Select(m) \in S /\ \A j \in S : hz(DisplaySettings!Select(m)) < hz(j) \/ (hz(DisplaySettings!Select(m)) = hz(j) /\ DisplaySettings!Select(m) <= j)
  BY <1>5, <1>6, <1>7
<1>9. hz(DisplaySettings!Select(m)) = 0  BY <1>2, <1>4, <1>8
<1> QED  BY <1>3, <1>4, <1>8, <1>9, <1>2 DEF DisplaySettings!Key

(* What a button of the page cycles through. *)
LEMMA Cycles ==
    /\ \A x : DisplaySettings!After(DisplaySettings!Scales, x) \in Nat \ {0}
    /\ \A x : DisplaySettings!After(DisplaySettings!Rotations, x) # "none"
<1>1. ASSUME NEW cycle, DOMAIN cycle = 1 .. 4, Len(cycle) = 4, NEW x
      PROVE  \E i \in 1 .. 4 : DisplaySettings!After(cycle, x) = cycle[i]
  <2>1. DOMAIN cycle = 1 .. 4 /\ Len(cycle) = 4  BY <1>1
  <2>2. CASE \E i \in DOMAIN cycle : cycle[i] = x
    <3> DEFINE c == CHOOSE i \in DOMAIN cycle : cycle[i] = x
    <3>1. c \in 1 .. 4  BY <2>1, <2>2
    <3>2. DisplaySettings!After(cycle, x) = cycle[(c % 4) + 1]  BY <2>1, <2>2 DEF DisplaySettings!After
    <3> HIDE DEF c
    <3>3. (c % 4) + 1 \in 1 .. 4  BY <3>1
    <3> QED  BY <3>2, <3>3
  <2>3. CASE ~ \E i \in DOMAIN cycle : cycle[i] = x  BY <2>1, <2>3 DEF DisplaySettings!After
  <2> QED  BY <2>2, <2>3
<1>2. /\ DOMAIN DisplaySettings!Scales = 1 .. 4 /\ Len(DisplaySettings!Scales) = 4
      /\ \A i \in 1 .. 4 : DisplaySettings!Scales[i] \in Nat \ {0}
  BY DEF DisplaySettings!Scales
<1>3. /\ DOMAIN DisplaySettings!Rotations = 1 .. 4 /\ Len(DisplaySettings!Rotations) = 4
      /\ \A i \in 1 .. 4 : DisplaySettings!Rotations[i] # "none"
  BY DEF DisplaySettings!Rotations
<1> QED  BY <1>1, <1>2, <1>3

DisplayInv ==
  /\ reloads \in Nat
  /\ disk = [mode |-> disk.mode, scale |-> disk.scale, turn |-> disk.turn]
  /\ picked = [mode |-> picked.mode, scale |-> picked.scale, turn |-> picked.turn]
  /\ picked.mode # DisplaySettings!NoMode => picked.mode = disk.mode /\ Offering(picked.mode)
  /\ picked.scale # 0 => picked.scale = disk.scale /\ picked.scale \in Nat \ {0}
  /\ picked.turn # "none" => picked.turn = disk.turn
  /\ info.marks = DisplaySettings!Marks(mode)
  /\ failed \/ ~ Offering(section.mode) \/ DisplaySettings!Key(mode) = section.mode
  /\ reloads = 0 => /\ picked.mode # DisplaySettings!NoMode => section.mode = picked.mode
                    /\ picked.scale # 0 => info.scale = picked.scale
                    /\ picked.turn # "none" => info.turn = DisplaySettings!Parse(picked.turn)

(* A reload, and what the compositor starts with. *)
LEMMA ReloadKeepsDisplay == ASSUME DisplayInv, NEW n \in 0 .. 1, DisplaySettings!ReloadConfig(n) PROVE DisplayInv'
<1>1. reloads' \in Nat /\ section' = disk /\ UNCHANGED << disk, picked >>
  BY DEF DisplaySettings!ReloadConfig, DisplayInv
<1>2. info'.scale = DisplaySettings!Scale(disk.scale) /\ info'.turn = DisplaySettings!Parse(disk.turn) /\ info'.marks = DisplaySettings!Marks(mode')
  BY DEF DisplaySettings!ReloadConfig, DisplaySettings!SwitchMode, DisplaySettings!Switched, DisplaySettings!Described, DisplayInv
<1>3. failed' \/ ~ Offering(disk.mode) \/ DisplaySettings!Key(mode') = disk.mode
  <2>1. CASE DisplaySettings!Changed /\ DisplaySettings!Switched  BY <2>1, SelectsListed DEF DisplaySettings!Switched
  <2>2. CASE ~ DisplaySettings!Changed /\ UNCHANGED << mode, failed >>
    BY <2>2, SelectsListed DEF DisplaySettings!Changed, DisplayInv
  <2> QED  BY <2>1, <2>2 DEF DisplaySettings!ReloadConfig, DisplaySettings!SwitchMode
<1>4. picked.scale # 0 => DisplaySettings!Scale(disk.scale) = picked.scale  BY DEF DisplaySettings!Scale, DisplayInv
<1> QED  BY <1>1, <1>2, <1>3, <1>4 DEF DisplayInv

LEMMA RestartKeepsDisplay == ASSUME DisplayInv, DisplaySettings!Restart PROVE DisplayInv'
<1>1. reloads' = 0 /\ section' = disk /\ mode' = DisplaySettings!Select(disk.mode) /\ info' = DisplaySettings!Started(disk)
      /\ UNCHANGED << disk, picked >>
  BY DEF DisplaySettings!Restart
<1>2. info'.scale = DisplaySettings!Scale(disk.scale) /\ info'.turn = DisplaySettings!Parse(disk.turn) /\ info'.marks = DisplaySettings!Marks(mode')
  BY <1>1 DEF DisplaySettings!Started
<1>3. ~ Offering(disk.mode) \/ DisplaySettings!Key(mode') = disk.mode  BY <1>1, SelectsListed
<1>4. picked.scale # 0 => DisplaySettings!Scale(disk.scale) = picked.scale  BY DEF DisplaySettings!Scale, DisplayInv
<1> QED  BY <1>1, <1>2, <1>3, <1>4 DEF DisplayInv

(* The clicks: a reload is on its way then. *)
LEMMA ChoiceKeepsDisplay ==
    ASSUME DisplayInv, \/ \E i \in DOMAIN Modes : DisplaySettings!SetOutputMode(i)
                       \/ DisplaySettings!CycleOutputScale \/ DisplaySettings!CycleOutputTransform
    PROVE  DisplayInv'
<1>1. reloads' = reloads + 1 /\ UNCHANGED << info, mode, failed, section >>
  BY DEF DisplaySettings!SetOutputMode, DisplaySettings!CycleOutputScale, DisplaySettings!CycleOutputTransform, DisplaySettings!Choose
<1>2. CASE \E i \in DOMAIN Modes : DisplaySettings!SetOutputMode(i)
  <2>1. PICK i \in DOMAIN Modes : /\ disk' = [disk EXCEPT !.mode = DisplaySettings!Key(i)]
                                  /\ picked' = [picked EXCEPT !.mode = DisplaySettings!Key(i)]
    BY <1>2 DEF DisplaySettings!SetOutputMode, DisplaySettings!Choose
  <2>2. Offering(DisplaySettings!Key(i))  BY DEF Offering
  <2> QED  BY <1>1, <2>1, <2>2 DEF DisplayInv
<1>3. CASE DisplaySettings!CycleOutputScale
  <2>1. PICK s : disk' = [disk EXCEPT !.scale = s] /\ picked' = [picked EXCEPT !.scale = s] /\ s \in Nat \ {0}
    BY <1>3, Cycles DEF DisplaySettings!CycleOutputScale, DisplaySettings!Choose
  <2> QED  BY <1>1, <2>1 DEF DisplayInv
<1>4. CASE DisplaySettings!CycleOutputTransform
  <2>1. PICK s : disk' = [disk EXCEPT !.turn = s] /\ picked' = [picked EXCEPT !.turn = s]
    BY <1>4 DEF DisplaySettings!CycleOutputTransform, DisplaySettings!Choose
  <2> QED  BY <1>1, <2>1 DEF DisplayInv
<1> QED  BY <1>2, <1>3, <1>4

LEMMA DisplayKeeps == ASSUME DisplayInv, DisplaySettings!Next \/ UNCHANGED vars PROVE DisplayInv'
<1>1. ASSUME NEW s \in Sections, DisplaySettings!Edit(s) PROVE DisplayInv'
  <2>1. disk' = s /\ picked' = DisplaySettings!Nothing /\ UNCHANGED << reloads, section, mode, info, failed >>
    BY <1>1 DEF DisplaySettings!Edit
  <2>2. s = [mode |-> s.mode, scale |-> s.scale, turn |-> s.turn]
    BY SectionsAssumption DEF DisplaySettings!Section
  <2> QED  BY <2>1, <2>2 DEF DisplayInv, DisplaySettings!Nothing
<1>2. CASE UNCHANGED << disk, reloads, section, mode, info, picked, failed >>
  BY <1>2 DEF DisplayInv
<1>3. UNCHANGED vars \/ DisplaySettings!ToggleDropdown \/ DisplaySettings!SendSnapshot \/ DisplaySettings!HearSnapshot
        => UNCHANGED << disk, reloads, section, mode, info, picked, failed >>
  BY DEF vars, DisplaySettings!ToggleDropdown, DisplaySettings!SendSnapshot, DisplaySettings!HearSnapshot
<1> QED
  BY <1>1, <1>2, <1>3, ReloadKeepsDisplay, RestartKeepsDisplay, ChoiceKeepsDisplay DEF DisplaySettings!Next

LEMMA DisplayStarts == ASSUME DisplaySettings!Init PROVE DisplayInv
<1>1. disk \in Sections /\ section = disk /\ mode = DisplaySettings!Select(disk.mode) /\ info = DisplaySettings!Started(disk)
      /\ reloads = 0 /\ picked = DisplaySettings!Nothing
  BY DEF DisplaySettings!Init
<1>2. disk = [mode |-> disk.mode, scale |-> disk.scale, turn |-> disk.turn]
  BY <1>1, SectionsAssumption DEF DisplaySettings!Section
<1>3. ~ Offering(section.mode) \/ DisplaySettings!Key(mode) = section.mode  BY <1>1, SelectsListed
<1> QED  BY <1>1, <1>2, <1>3 DEF DisplayInv, DisplaySettings!Nothing, DisplaySettings!Started

\* However lists, searches and pages change: a click on the settings is looked up in the tree
\* that is on the screen (the sound's page aside), no connection that is up loses its mark, and
\* the output runs as it was picked once no reload is on its way, whatever was edited, refused
\* by the driver or restarted in between.
THEOREM PagesAreCurrent == Spec => []PagesAgree
<1> DEFINE I == /\ part = "settings" => SettingsPages!TreeIsCurrent /\ HiddenInv
                /\ part = "devices" => DevicesInv
                /\ part = "looks" => LooksPages!TreeIsCurrent
                /\ part = "pinning" => PinningPages!TreeIsCurrent
                /\ part = "display" => DisplayInv
<1>1. Init => I  BY StartsItsOwn, PagesStart, DisplayStarts
<1>2. I /\ [Next]_vars => I'
  BY OnlyItsOwn, SettingsPagesKeep, HiddenKeeps, DevicesPagesKeep, LooksPagesKeep, PinningPagesKeep,
     DisplayKeeps
<1>3. I => PagesAgree
  <2>1. HiddenInv => SettingsPages!NeverHidden  BY DEF HiddenInv, SettingsPages!NeverHidden
  <2>2. DevicesInv => DevicesPages!TreeIsCurrent  BY DEF DevicesInv
  <2>3. DisplayInv => DisplaySettings!PickedHolds /\ DisplaySettings!MarksTrue
    BY DEF DisplayInv, DisplaySettings!PickedHolds, DisplaySettings!MarksTrue
  <2> QED  BY <2>1, <2>2, <2>3 DEF PagesAgree
<1> QED  BY <1>1, <1>2, <1>3, PTL DEF Spec
-----------------------------------------------------------------------------
(* config.toml.  What a save is about to write keeps everything but what   *)
(* it touches, and a file that nobody is still to reload, and that the     *)
(* shell is still to be told of at most, is the one the compositor runs    *)
(* with.                                                                   *)

\* A text: its sections, each with a header and a body.
IsSection(x) == x = [name |-> x.name, plain |-> x.plain, body |-> x.body]
IsText(f) == IsList(f) /\ \A i \in DOMAIN f : IsSection(f[i])

\* What a section says of one of its keys, and that it is nothing new about (s, k).
Says(x, s, k) == IF k \in DOMAIN x.body THEN x.body[k] ELSE Config!Default(s, k, TRUE)

\* A text says of everything but `touched` what another one did.
Kept(f, g, touched) ==
  /\ Config!Valid(g)
  /\ \A s \in DOMAIN Config!Keys : \A k \in Config!Keys[s] :
       /\ << s, k >> \notin touched
       /\ << s, k >> # << "general", "idle" >> \/ Config!Has(f, "general")
       => Config!Value(g, s, k) = Config!Value(f, s, k)

LEMMA SomeValue ==
    ASSUME NEW f, Config!Valid(f), NEW s, NEW k, NEW i \in DOMAIN f, f[i].name = s
    PROVE  Config!Value(f, s, k) = Says(f[i], s, k)
<1> DEFINE at == { j \in DOMAIN f : f[j].name = s }
           c == CHOOSE j \in at : TRUE
<1>1. at # {} /\ c = i  BY DEF Config!Valid
<1>2. Config!Value(f, s, k) = CASE at = {} -> Config!Default(s, k, FALSE)
                         [] at # {} /\ k \in DOMAIN f[c].body -> f[c].body[k]
                         [] at # {} /\ k \notin DOMAIN f[c].body -> Config!Default(s, k, TRUE)
  BY DEF Config!Value
<1> HIDE DEF at, c
<1> QED  BY <1>1, <1>2 DEF Says

LEMMA NoValue ==
    ASSUME NEW f, NEW s, NEW k, \A i \in DOMAIN f : f[i].name # s
    PROVE  Config!Value(f, s, k) = Config!Default(s, k, FALSE)
<1> DEFINE at == { j \in DOMAIN f : f[j].name = s }
<1>1. at = {}  OBVIOUS
<1> QED  BY <1>1 DEF Config!Value

\* The sections rewritten in place.
LEMMA InPlace ==
    ASSUME NEW f, NEW g, Config!Valid(f), DOMAIN g = DOMAIN f, \A i \in DOMAIN f : g[i].name = f[i].name
    PROVE  /\ Config!Valid(g)
           /\ \A s, k : (\A i \in DOMAIN f : f[i].name = s => Says(g[i], s, k) = Says(f[i], s, k))
                          => Config!Value(g, s, k) = Config!Value(f, s, k)
<1>1. Config!Valid(g)  BY DEF Config!Valid
<1>2. ASSUME NEW s, NEW k, \A i \in DOMAIN f : f[i].name = s => Says(g[i], s, k) = Says(f[i], s, k)
      PROVE  Config!Value(g, s, k) = Config!Value(f, s, k)
  <2>1. CASE \E i \in DOMAIN f : f[i].name = s
    <3>1. PICK i \in DOMAIN f : f[i].name = s  BY <2>1
    <3>2. Config!Value(f, s, k) = Says(f[i], s, k)  BY <3>1, SomeValue
    <3>3. Config!Value(g, s, k) = Says(g[i], s, k)  BY <1>1, <3>1, SomeValue
    <3> QED  BY <1>2, <3>1, <3>2, <3>3
  <2>2. CASE \A i \in DOMAIN f : f[i].name # s
    <3>1. Config!Value(f, s, k) = Config!Default(s, k, FALSE)  BY <2>2, NoValue
    <3>2. Config!Value(g, s, k) = Config!Default(s, k, FALSE)  BY <2>2, NoValue
    <3> QED  BY <3>1, <3>2
  <2> QED  BY <2>1, <2>2
<1> QED  BY <1>1, <1>2

\* g says what f does, and of s what x does.
Ends(f, g, s, x) == /\ Config!Valid(g) /\ \A k : Config!Value(g, s, k) = Says(x, s, k)
                    /\ \A t, k : t # s => Config!Value(g, t, k) = Config!Value(f, t, k)

\* A section at the end that was not there.
LEMMA AtTheEnd ==
    ASSUME NEW f, IsText(f), Config!Valid(f), NEW s, \A i \in DOMAIN f : f[i].name # s, NEW body
    PROVE  /\ IsText(Append(f, Config!Section(s, body)))
           /\ Ends(f, Append(f, Config!Section(s, body)), s, Config!Section(s, body))
<1> DEFINE x == Config!Section(s, body)
           g == Append(f, x)
           n == Len(f)
<1>1. IsSection(x) /\ x.name = s  BY DEF Config!Section, IsSection
<1> HIDE DEF x
<1>2. PICK S : f \in Seq(S)  BY DEF IsText, IsList
<1> DEFINE T == S \cup {x}
<1>3. f \in Seq(T) /\ x \in T  BY <1>2, SeqMonotonic
<1> HIDE DEF T
<1>4. /\ g \in Seq(T) /\ DOMAIN f = 1 .. n /\ n \in Nat /\ DOMAIN g = 1 .. n + 1
      /\ g[n + 1] = x /\ \A i \in DOMAIN f : g[i] = f[i]
  BY <1>3
<1> HIDE DEF g, n
<1>5. IsText(g)  BY <1>1, <1>4 DEF IsText, IsList
<1>6. Config!Valid(g)
  <2> SUFFICES ASSUME NEW i \in DOMAIN g, NEW j \in DOMAIN g, g[i].name = g[j].name PROVE i = j
    BY DEF Config!Valid
  <2>1. (i \in DOMAIN f \/ i = n + 1) /\ (j \in DOMAIN f \/ j = n + 1)  BY <1>4
  <2> QED  BY <1>1, <1>4, <2>1 DEF Config!Valid
<1>7. ASSUME NEW k PROVE Config!Value(g, s, k) = Says(x, s, k)
  <2>1. n + 1 \in DOMAIN g /\ g[n + 1] = x  BY <1>4
  <2> QED  BY <1>1, <1>6, <2>1, SomeValue
<1>8. ASSUME NEW t, NEW k, t # s PROVE Config!Value(g, t, k) = Config!Value(f, t, k)
  <2>1. CASE \E i \in DOMAIN f : f[i].name = t
    <3>1. PICK i \in DOMAIN f : f[i].name = t  BY <2>1
    <3>2. i \in DOMAIN g /\ g[i] = f[i]  BY <1>4
    <3>3. Config!Value(f, t, k) = Says(f[i], t, k)  BY <3>1, SomeValue
    <3>4. Config!Value(g, t, k) = Says(g[i], t, k)  BY <1>6, <3>1, <3>2, SomeValue
    <3> QED  BY <3>2, <3>3, <3>4
  <2>2. CASE \A i \in DOMAIN f : f[i].name # t
    <3>1. \A i \in DOMAIN g : g[i].name # t
      <4> SUFFICES ASSUME NEW i \in DOMAIN g PROVE g[i].name # t  OBVIOUS
      <4>1. i \in DOMAIN f \/ i = n + 1  BY <1>4
      <4> QED  BY <1>1, <1>4, <1>8, <2>2, <4>1
    <3>2. Config!Value(f, t, k) = Config!Default(t, k, FALSE)  BY <2>2, NoValue
    <3>3. Config!Value(g, t, k) = Config!Default(t, k, FALSE)  BY <3>1, NoValue
    <3> QED  BY <3>2, <3>3
  <2> QED  BY <2>1, <2>2
<1>9. Ends(f, g, s, x)  BY <1>6, <1>7, <1>8 DEF Ends
<1> QED  BY <1>5, <1>9 DEF g, x

LEMMA WithIs ==
    ASSUME NEW x, IsSection(x), NEW new
    PROVE  /\ IsSection(Config!With(x, new)) /\ Config!With(x, new).name = x.name
           /\ Config!With(x, new).plain = x.plain
           /\ \A s, k : k \notin DOMAIN new => Says(Config!With(x, new), s, k) = Says(x, s, k)
<1> DEFINE b == [k \in DOMAIN new \cup DOMAIN x.body |-> IF k \in DOMAIN new THEN new[k] ELSE x.body[k]]
           w == Config!With(x, new)
<1>1. w = [x EXCEPT !.body = b]  BY DEF Config!With
<1>2. x = [name |-> x.name, plain |-> x.plain, body |-> x.body]  BY DEF IsSection
<1> HIDE DEF b, w
<1>3. w = [name |-> x.name, plain |-> x.plain, body |-> b]  BY <1>1, <1>2
<1>4. \A s, k : k \notin DOMAIN new => Says(w, s, k) = Says(x, s, k)
  <2> SUFFICES ASSUME NEW s, NEW k, k \notin DOMAIN new PROVE Says(w, s, k) = Says(x, s, k)  OBVIOUS
  <2>1. w.body = b  BY <1>3
  <2>2. k \in DOMAIN b <=> k \in DOMAIN x.body  BY DEF b
  <2>3. k \in DOMAIN b => b[k] = x.body[k]  BY DEF b
  <2> QED  BY <2>1, <2>2, <2>3 DEF Says
<1>5. IsSection(w) /\ w.name = x.name /\ w.plain = x.plain  BY <1>3 DEF IsSection
<1> QED  BY <1>4, <1>5 DEF w

LEMMA LineIs == \A k, v : DOMAIN Config!Line(k, v) = {k}
BY DEF Config!Line

\* A list made from another one, place by place.
LEMMA PlaceByPlace ==
    ASSUME NEW f, IsList(f), NEW g, g = [i \in DOMAIN f |-> g[i]]
    PROVE  IsList(g) /\ DOMAIN g = DOMAIN f
<1>1. PICK S : f \in Seq(S)  BY DEF IsList
<1>2. Len(f) \in Nat /\ DOMAIN f = 1 .. Len(f)  BY <1>1
<1> DEFINE T == { g[i] : i \in 1 .. Len(f) }
<1>3. g \in [1 .. Len(f) -> T]  BY <1>2
<1> HIDE DEF T
<1>4. g \in Seq(T)  BY <1>2, <1>3, SeqDef
<1>5. DOMAIN g = DOMAIN f  BY <1>2, <1>3
<1> QED  BY <1>4, <1>5 DEF IsList

LEMMA LongerText == ASSUME NEW f, IsText(f), NEW x, IsSection(x) PROVE IsText(Append(f, x))
<1>1. PICK S : f \in Seq(S)  BY DEF IsText, IsList
<1> DEFINE T == S \cup {x}
<1>2. f \in Seq(T) /\ x \in T  BY <1>1, SeqMonotonic
<1> HIDE DEF T
<1>3. /\ Append(f, x) \in Seq(T) /\ DOMAIN Append(f, x) = 1 .. Len(f) + 1 /\ Len(f) \in Nat
      /\ DOMAIN f = 1 .. Len(f) /\ Append(f, x)[Len(f) + 1] = x
      /\ \A i \in DOMAIN f : Append(f, x)[i] = f[i]
  BY <1>2
<1>4. \A i \in DOMAIN Append(f, x) : i \in DOMAIN f \/ i = Len(f) + 1  BY <1>3
<1> QED  BY <1>3, <1>4 DEF IsText, IsList

\* Of all the keys but k of s a text says what another one did, or nothing as the other.
KeyOnly(f, g, s, k) ==
  /\ Config!Valid(g)
  /\ \A t, j : t # s \/ j # k =>
       \/ Config!Value(g, t, j) = Config!Value(f, t, j)
       \/ /\ t = s /\ ~ Config!Has(f, s) /\ Config!Value(f, t, j) = Config!Default(s, j, FALSE)
          /\ Config!Value(g, t, j) = Config!Default(s, j, TRUE)

LEMMA SetKeyKeeps ==
    ASSUME NEW f, IsText(f), NEW s, NEW k, NEW v
    PROVE  /\ IsText(Config!SetKey(f, s, k, v))
           /\ Config!Valid(f) /\ Config!Plain(f) => KeyOnly(f, Config!SetKey(f, s, k, v), s, k)
<1> DEFINE g == Config!SetKey(f, s, k, v)
           new == Config!Line(k, v)
<1>1. DOMAIN new = {k}  BY LineIs
<1> HIDE DEF new
<1>2. CASE Config!Has(f, s)
  <2>1. g = [i \in DOMAIN f |-> IF Config!Is(f[i], s) THEN Config!With(f[i], new) ELSE f[i]]
    BY <1>2 DEF Config!SetKey, new
  <2> HIDE DEF g
  <2>2. g = [i \in DOMAIN f |-> g[i]]  BY <2>1
  <2>3. IsList(g) /\ DOMAIN g = DOMAIN f  BY <2>2, PlaceByPlace DEF IsText
  <2>4. \A i \in DOMAIN f : g[i] = IF Config!Is(f[i], s) THEN Config!With(f[i], new) ELSE f[i]
    BY <2>1
  <2>5. \A i \in DOMAIN f : IsSection(g[i]) /\ g[i].name = f[i].name  BY <2>4, WithIs DEF IsText
  <2>6. ASSUME Config!Valid(f), Config!Plain(f)
        PROVE  Config!Valid(g) /\ \A t, j : t # s \/ j # k => Config!Value(g, t, j) = Config!Value(f, t, j)
    <3>1. ASSUME NEW t, NEW j, t # s \/ j # k, NEW i \in DOMAIN f, f[i].name = t
          PROVE  Says(g[i], t, j) = Says(f[i], t, j)
      <4>1. CASE Config!Is(f[i], s)
        <5>1. j \notin DOMAIN new  BY <1>1, <3>1, <4>1 DEF Config!Is
        <5> QED  BY <2>4, <4>1, <5>1, WithIs DEF IsText
      <4>2. CASE ~ Config!Is(f[i], s)  BY <2>4, <4>2
      <4> QED  BY <4>1, <4>2
    <3> QED  BY <2>3, <2>5, <2>6, <3>1, InPlace
  <2>7. IsText(g)  BY <2>3, <2>5 DEF IsText
  <2>8. Config!Valid(f) /\ Config!Plain(f) => KeyOnly(f, g, s, k)  BY <2>6 DEF KeyOnly
  <2> QED  BY <2>7, <2>8 DEF g
<1>3. CASE ~ Config!Has(f, s)
  <2>1. g = Append(f, Config!Section(s, new))  BY <1>3 DEF Config!SetKey, new
  <2>2. IsText(g)
    <3>1. IsSection(Config!Section(s, new))  BY DEF Config!Section, IsSection
    <3> QED  BY <2>1, <3>1, LongerText
  <2>3. ASSUME Config!Valid(f), Config!Plain(f)
        PROVE  /\ Config!Valid(g)
               /\ \A t, j : t # s \/ j # k =>
                     \/ Config!Value(g, t, j) = Config!Value(f, t, j)
                     \/ /\ t = s /\ ~ Config!Has(f, s) /\ Config!Value(f, t, j) = Config!Default(s, j, FALSE)
                        /\ Config!Value(g, t, j) = Config!Default(s, j, TRUE)
    <3>1. \A i \in DOMAIN f : f[i].name # s  BY <1>3, <2>3 DEF Config!Has, Config!Is, Config!Plain
    <3>2. /\ Config!Valid(g) /\ \A j : Config!Value(g, s, j) = Says(Config!Section(s, new), s, j)
          /\ \A t, j : t # s => Config!Value(g, t, j) = Config!Value(f, t, j)
      <4>1. Ends(f, g, s, Config!Section(s, new))  BY <2>1, <2>3, <3>1, AtTheEnd
      <4> QED  BY <4>1 DEF Ends
    <3>3. \A j : Config!Value(f, s, j) = Config!Default(s, j, FALSE)  BY <3>1, NoValue
    <3>4. \A j : j # k => Says(Config!Section(s, new), s, j) = Config!Default(s, j, TRUE)
      BY <1>1 DEF Says, Config!Section
    <3> QED  BY <1>3, <3>2, <3>3, <3>4
  <2>4. Config!Valid(f) /\ Config!Plain(f) => KeyOnly(f, g, s, k)  BY <2>3 DEF KeyOnly
  <2> QED  BY <2>2, <2>4 DEF g
<1> QED  BY <1>2, <1>3
-----------------------------------------------------------------------------
LEMMA AscendingIs ==
    ASSUME NEW n \in Nat, NEW X \in SUBSET (1 .. n)
    PROVE  /\ Cardinality(X) \in Nat /\ Config!Ascending(X) \in [1 .. Cardinality(X) -> X]
           /\ \A i, k \in DOMAIN Config!Ascending(X) : Config!Ascending(X)[i] = Config!Ascending(X)[k] => i = k
           /\ \A x \in X : \E i \in DOMAIN Config!Ascending(X) : Config!Ascending(X)[i] = x
<1> DEFINE R == { p \in X \X X : p[1] < p[2] }
<1>1. IsFiniteSet(X)
  <2>1. IsFiniteSet(1 .. n)  BY FS_Interval
  <2> QED  BY <2>1, FS_Subset
<1>2. \A a, b \in X : << a, b >> \in R <=> a < b  OBVIOUS
<1> HIDE DEF R
<1>3. /\ \A a, b \in X : a = b \/ << a, b >> \in R \/ << b, a >> \in R
      /\ \A a, b, c \in X : << a, b >> \in R /\ << b, c >> \in R => << a, c >> \in R
      /\ \A a \in X : << a, a >> \notin R
  BY <1>2
<1>4. PICK f : Sorted(f, X, R)  BY <1>1, <1>3, Sorts DEF OrderedBy
<1>5. f \in [1 .. Cardinality(X) -> X] /\ \A i, k \in DOMAIN f : i < k => f[i] < f[k]
  BY <1>2, <1>4 DEF Sorted
<1> DEFINE g == Config!Ascending(X)
<1>6. g \in [1 .. Cardinality(X) -> X] /\ \A i, k \in DOMAIN g : i < k => g[i] < g[k]
  BY <1>5 DEF Config!Ascending, Config!Cardinality, Cardinality
<1> HIDE DEF g
<1>7. \A i, k \in DOMAIN g : g[i] = g[k] => i = k
  <2> SUFFICES ASSUME NEW i \in DOMAIN g, NEW k \in DOMAIN g, g[i] = g[k] PROVE i = k  OBVIOUS
  <2>1. Cardinality(X) \in Nat  BY <1>1, FS_CardinalityType
  <2>3. i \in 1 .. Cardinality(X) /\ k \in 1 .. Cardinality(X)  BY <1>6
  <2>4. g[i] \in 1 .. n /\ g[k] \in 1 .. n  BY <1>6, <2>3
  <2>2. i \in Nat /\ k \in Nat /\ g[i] \in Nat /\ g[k] \in Nat  BY <2>1, <2>3, <2>4
  <2> QED  BY <1>6, <2>2
<1>8. Cardinality(X) \in Nat /\ \A x \in X : \E i \in DOMAIN g : g[i] = x  BY <1>1, <1>6, <1>7, Onto
<1> QED  BY <1>6, <1>7, <1>8 DEF g

\* Taking a section out.
LEMMA StripKeeps ==
    ASSUME NEW f, IsText(f), NEW s
    PROVE  /\ IsText(Config!Strip(f, s))
           /\ Config!Valid(f) /\ Config!Plain(f) =>
                /\ Config!Valid(Config!Strip(f, s)) /\ \A i \in DOMAIN Config!Strip(f, s) : Config!Strip(f, s)[i].name # s
                /\ \A t, k : t # s => Config!Value(Config!Strip(f, s), t, k) = Config!Value(f, t, k)
<1> DEFINE others == { i \in DOMAIN f : ~ Config!Is(f[i], s) }
           at == Config!Ascending(others)
           n == Cardinality(others)
           g == Config!Strip(f, s)
<1>1. PICK S : f \in Seq(S)  BY DEF IsText, IsList
<1>2. Len(f) \in Nat /\ DOMAIN f = 1 .. Len(f)  BY <1>1
<1>3. \A i : i \in others <=> i \in DOMAIN f /\ ~ Config!Is(f[i], s)  OBVIOUS
<1>4. g = [i \in 1 .. n |-> f[at[i]]]  BY DEF Config!Strip, Config!Cardinality, Cardinality
<1> HIDE DEF others, g
<1>5. /\ n \in Nat /\ at \in [1 .. n -> others]
      /\ \A i, k \in DOMAIN at : at[i] = at[k] => i = k
      /\ \A x \in others : \E i \in DOMAIN at : at[i] = x
  <2>1. others \in SUBSET (1 .. Len(f))  BY <1>2, <1>3
  <2> QED  BY <1>2, <2>1, AscendingIs
<1> HIDE DEF at, n
<1>6. DOMAIN g = 1 .. n /\ \A i \in 1 .. n : at[i] \in others /\ g[i] = f[at[i]]  BY <1>4, <1>5
<1>7. g \in Seq(S)
  <2>1. \A i \in 1 .. n : g[i] \in S  BY <1>1, <1>2, <1>3, <1>6
  <2>2. g \in [1 .. n -> S]  BY <1>4, <1>6, <2>1
  <2> QED  BY <1>5, <2>2, SeqDef
<1>8. IsText(g)  BY <1>3, <1>6, <1>7 DEF IsText, IsList
<1>9. ASSUME Config!Valid(f), Config!Plain(f)
      PROVE  /\ Config!Valid(g) /\ \A i \in DOMAIN g : g[i].name # s
             /\ \A t, k : t # s => Config!Value(g, t, k) = Config!Value(f, t, k)
  <2>1. Config!Valid(g)
    <3> SUFFICES ASSUME NEW i \in 1 .. n, NEW k \in 1 .. n, g[i].name = g[k].name PROVE i = k
      BY <1>6 DEF Config!Valid
    <3>1. at[i] \in DOMAIN f /\ at[k] \in DOMAIN f /\ f[at[i]].name = f[at[k]].name  BY <1>3, <1>6
    <3>2. at[i] = at[k]  BY <1>9, <3>1 DEF Config!Valid
    <3> QED  BY <1>5, <3>2
  <2>2. \A i \in DOMAIN g : g[i].name # s  BY <1>3, <1>6, <1>9 DEF Config!Is, Config!Plain
  <2>3. ASSUME NEW t, NEW k, t # s PROVE Config!Value(g, t, k) = Config!Value(f, t, k)
    <3>1. CASE \E i \in DOMAIN f : f[i].name = t
      <4>1. PICK i \in DOMAIN f : f[i].name = t  BY <3>1
      <4>2. i \in others  BY <1>3, <2>3, <4>1 DEF Config!Is
      <4>3. PICK j \in 1 .. n : at[j] = i  BY <1>5, <4>2
      <4>4. j \in DOMAIN g /\ g[j] = f[i]  BY <1>6, <4>3
      <4>5. Config!Value(f, t, k) = Says(f[i], t, k)  BY <1>9, <4>1, SomeValue
      <4>6. Config!Value(g, t, k) = Says(g[j], t, k)  BY <2>1, <4>1, <4>4, SomeValue
      <4> QED  BY <4>4, <4>5, <4>6
    <3>2. CASE \A i \in DOMAIN f : f[i].name # t
      <4>1. \A i \in DOMAIN g : g[i].name # t  BY <1>3, <1>6, <3>2
      <4>2. Config!Value(f, t, k) = Config!Default(t, k, FALSE)  BY <3>2, NoValue
      <4>3. Config!Value(g, t, k) = Config!Default(t, k, FALSE)  BY <4>1, NoValue
      <4> QED  BY <4>2, <4>3
    <3> QED  BY <3>1, <3>2
  <2> QED  BY <2>1, <2>2, <2>3
<1> QED  BY <1>8, <1>9 DEF g

LEMMA SetSectionKeeps ==
    ASSUME NEW f, IsText(f), NEW s, NEW body, NEW touched,
           \A k \in Config!Keys[s] : << s, k >> \in touched
    PROVE  /\ IsText(Config!SetSection(f, s, body))
           /\ Config!Valid(f) /\ Config!Plain(f) => Kept(f, Config!SetSection(f, s, body), touched)
<1> DEFINE h == Config!Strip(f, s)
           x == Config!Section(s, body)
           g == Config!SetSection(f, s, body)
<1>1. g = Append(h, x)  BY DEF Config!SetSection
<1>2. IsText(h)  BY StripKeeps
<1>3. IsText(g)  BY <1>1, <1>2, LongerText DEF Config!Section, IsSection
<1>4. ASSUME Config!Valid(f), Config!Plain(f) PROVE Kept(f, g, touched)
  <2>1. /\ Config!Valid(h) /\ \A i \in DOMAIN h : h[i].name # s
        /\ \A t, k : t # s => Config!Value(h, t, k) = Config!Value(f, t, k)
    BY <1>4, StripKeeps
  <2>2. Ends(h, g, s, x)  BY <1>1, <1>2, <2>1, AtTheEnd
  <2> HIDE DEF h, g, x
  <2>3. \A t, k : t # s => Config!Value(g, t, k) = Config!Value(f, t, k)  BY <2>1, <2>2 DEF Ends
  <2> QED  BY <2>2, <2>3 DEF Kept, Ends
<1> QED  BY <1>3, <1>4 DEF g

\* The sections and what they may say.
LEMMA KeysAre ==
    /\ DOMAIN Config!Keys = { "general", "cursor", "wallpaper", "panel" } \cup Outputs
    /\ Config!Keys["general"] = { "theme", "idle" } /\ Config!Keys["cursor"] = { "theme", "size" }
    /\ Config!Keys["wallpaper"] = { "path", "mode" } /\ Config!Keys["panel"] = { "pinned" }
BY DEF Config!Keys

\* A section that was not there says of its other keys what its absence said.
LEMMA SameDefault ==
    /\ Config!Default("general", "theme", TRUE) = Config!Default("general", "theme", FALSE)
    /\ \A o \in Outputs : \A k : Config!Default(o, k, TRUE) = Config!Default(o, k, FALSE)
<1>1. Config!Default("general", "theme", TRUE) = Config!Default("general", "theme", FALSE)
  BY DEF Config!Default
<1>2. ASSUME NEW o \in Outputs, NEW k PROVE Config!Default(o, k, TRUE) = Config!Default(o, k, FALSE)
  <2>1. o # "general" /\ o \notin { "cursor", "wallpaper" }  BY OutputsAssumption
  <2>2. << o, k >> # << "general", "theme" >> /\ << o, k >> # << "general", "idle" >>  BY <2>1
  <2>3. \A b \in BOOLEAN : Config!Default(o, k, b) = "default"  BY <2>1, <2>2 DEF Config!Default
  <2> QED  BY <2>3
<1> QED  BY <1>1, <1>2

LEMMA KeyKept ==
    ASSUME NEW f, IsText(f), NEW s, s \in Outputs \/ s = "general", NEW k, NEW v,
           NEW touched, << s, k >> \in touched
    PROVE  /\ IsText(Config!SetKey(f, s, k, v))
           /\ Config!Valid(f) /\ Config!Plain(f) => Kept(f, Config!SetKey(f, s, k, v), touched)
<1> DEFINE g == Config!SetKey(f, s, k, v)
<1>1. IsText(g)  BY SetKeyKeeps
<1>2. ASSUME Config!Valid(f), Config!Plain(f) PROVE Kept(f, g, touched)
  <2>1. /\ Config!Valid(g)
        /\ \A t, j : t # s \/ j # k =>
             \/ Config!Value(g, t, j) = Config!Value(f, t, j)
             \/ /\ t = s /\ ~ Config!Has(f, s) /\ Config!Value(f, t, j) = Config!Default(s, j, FALSE)
                /\ Config!Value(g, t, j) = Config!Default(s, j, TRUE)
    <3>1. KeyOnly(f, g, s, k)  BY <1>2, SetKeyKeeps
    <3> QED  BY <3>1 DEF KeyOnly
  <2> HIDE DEF g
  <2>2. ASSUME NEW t \in DOMAIN Config!Keys, NEW j \in Config!Keys[t], << t, j >> \notin touched,
               << t, j >> # << "general", "idle" >> \/ Config!Has(f, "general")
        PROVE  Config!Value(g, t, j) = Config!Value(f, t, j)
    <3>1. t # s \/ j # k  BY <2>2
    <3>2. CASE Config!Value(g, t, j) = Config!Value(f, t, j)  BY <3>2
    <3>3. CASE /\ t = s /\ ~ Config!Has(f, s) /\ Config!Value(f, t, j) = Config!Default(s, j, FALSE)
               /\ Config!Value(g, t, j) = Config!Default(s, j, TRUE)
      <4>1. CASE s \in Outputs  BY <3>3, <4>1, SameDefault
      <4>2. CASE s = "general"
        <5>1. j = "theme"  BY <2>2, <3>3, <4>2, KeysAre
        <5> QED  BY <3>3, <4>2, <5>1, SameDefault
      <4> QED  BY <4>1, <4>2
    <3> QED  BY <2>1, <3>1, <3>2, <3>3
  <2> QED  BY <2>1, <2>2 DEF Kept
<1> QED  BY <1>1, <1>2

LEMMA RemoveKept ==
    ASSUME NEW f, IsText(f), NEW s, NEW k, NEW touched, << s, k >> \in touched
    PROVE  /\ IsText(Config!RemoveKey(f, s, k))
           /\ Config!Valid(f) => Kept(f, Config!RemoveKey(f, s, k), touched)
<1> DEFINE less(x) == [j \in DOMAIN x.body \ {k} |-> x.body[j]]
           cut(x) == [x EXCEPT !.body = less(x)]
           g == Config!RemoveKey(f, s, k)
<1>1. ASSUME NEW x, IsSection(x)
      PROVE  /\ IsSection(cut(x)) /\ cut(x).name = x.name
             /\ \A t, j : j # k => Says(cut(x), t, j) = Says(x, t, j)
  <2> DEFINE w == cut(x)
             b == less(x)
  <2>1. w = [x EXCEPT !.body = b]  OBVIOUS
  <2>2. x = [name |-> x.name, plain |-> x.plain, body |-> x.body]  BY <1>1 DEF IsSection
  <2>3. \A j : j # k => (j \in DOMAIN b <=> j \in DOMAIN x.body) /\ (j \in DOMAIN b => b[j] = x.body[j])
    OBVIOUS
  <2> HIDE DEF b, w, cut, less
  <2>4. w = [name |-> x.name, plain |-> x.plain, body |-> b]  BY <2>1, <2>2
  <2>5. \A t, j : j # k => Says(w, t, j) = Says(x, t, j)
    <3> SUFFICES ASSUME NEW t, NEW j, j # k PROVE Says(w, t, j) = Says(x, t, j)  OBVIOUS
    <3>1. w.body = b  BY <2>4
    <3> QED  BY <2>3, <3>1 DEF Says
  <2>6. IsSection(w) /\ w.name = x.name  BY <2>4 DEF IsSection
  <2> QED  BY <2>5, <2>6 DEF w
<1>2. g = [i \in DOMAIN f |-> IF Config!Is(f[i], s) THEN cut(f[i]) ELSE f[i]]
  BY DEF Config!RemoveKey
<1> HIDE DEF g, cut, less
<1>3. g = [i \in DOMAIN f |-> g[i]]  BY <1>2
<1>4. IsList(g) /\ DOMAIN g = DOMAIN f  BY <1>3, PlaceByPlace DEF IsText
<1>5. \A i \in DOMAIN f : g[i] = IF Config!Is(f[i], s) THEN cut(f[i]) ELSE f[i]  BY <1>2
<1>6. \A i \in DOMAIN f : IsSection(g[i]) /\ g[i].name = f[i].name  BY <1>1, <1>5 DEF IsText
<1>7. IsText(g)  BY <1>4, <1>6 DEF IsText
<1>8. ASSUME Config!Valid(f) PROVE Kept(f, g, touched)
  <2>1. ASSUME NEW t, NEW j, << t, j >> \notin touched, NEW i \in DOMAIN f, f[i].name = t
        PROVE  Says(g[i], t, j) = Says(f[i], t, j)
    <3>1. CASE Config!Is(f[i], s)
      <4>1. j # k  BY <2>1, <3>1 DEF Config!Is
      <4> QED  BY <1>1, <1>5, <3>1, <4>1 DEF IsText
    <3>2. CASE ~ Config!Is(f[i], s)  BY <1>5, <3>2
    <3> QED  BY <3>1, <3>2
  <2>2. Config!Valid(g) /\ \A t, j : << t, j >> \notin touched => Config!Value(g, t, j) = Config!Value(f, t, j)
    BY <1>4, <1>6, <1>8, <2>1, InPlace
  <2> QED  BY <2>2 DEF Kept
<1> QED  BY <1>7, <1>8 DEF g

LEMMA PrimaryKept ==
    ASSUME NEW f, IsText(f), NEW o \in Outputs,
           NEW touched, touched = { << x, "primary" >> : x \in Outputs }
    PROVE  /\ IsText(Config!SetPrimary(f, o))
           /\ Config!Valid(f) /\ Config!Plain(f) => Kept(f, Config!SetPrimary(f, o), touched)
<1> DEFINE says(x) == Config!Line("primary", IF x.name = o THEN "true" ELSE "false")
           h == [i \in DOMAIN f |-> IF f[i].plain /\ f[i].name \in Outputs THEN Config!With(f[i], says(f[i])) ELSE f[i]]
           g == Config!SetPrimary(f, o)
<1>1. g = Config!SetKey(h, o, "primary", "true")  BY DEF Config!SetPrimary
<1>2. h = [i \in DOMAIN f |-> h[i]]  OBVIOUS
<1>3. \A i \in DOMAIN f : h[i] = IF f[i].plain /\ f[i].name \in Outputs THEN Config!With(f[i], says(f[i])) ELSE f[i]
  OBVIOUS
<1>4. \A x : DOMAIN says(x) = { "primary" }  BY LineIs
<1> HIDE DEF h, g, says
<1>5. IsList(h) /\ DOMAIN h = DOMAIN f  BY <1>2, PlaceByPlace DEF IsText
<1>6. \A i \in DOMAIN f : IsSection(h[i]) /\ h[i].name = f[i].name /\ h[i].plain = f[i].plain
  BY <1>3, WithIs DEF IsText
<1>7. IsText(h)  BY <1>5, <1>6 DEF IsText
<1>8. << o, "primary" >> \in touched  OBVIOUS
<1>9. IsText(g)  BY <1>1, <1>7, <1>8, KeyKept
<1>10. ASSUME Config!Valid(f), Config!Plain(f) PROVE Kept(f, g, touched)
  <2>1. ASSUME NEW t, NEW j, << t, j >> \notin touched, NEW i \in DOMAIN f, f[i].name = t
        PROVE  Says(h[i], t, j) = Says(f[i], t, j)
    <3>1. CASE f[i].plain /\ f[i].name \in Outputs
      <4>1. j # "primary"  BY <2>1, <3>1
      <4>2. j \notin DOMAIN says(f[i])  BY <1>4, <4>1
      <4> QED  BY <1>3, <3>1, <4>2, WithIs DEF IsText
    <3>2. CASE ~ (f[i].plain /\ f[i].name \in Outputs)  BY <1>3, <3>2
    <3> QED  BY <3>1, <3>2
  <2>2. Config!Valid(h) /\ \A t, j : << t, j >> \notin touched => Config!Value(h, t, j) = Config!Value(f, t, j)
    BY <1>5, <1>6, <1>10, <2>1, InPlace
  <2>3. Config!Plain(h) /\ (Config!Has(f, "general") => Config!Has(h, "general"))
    BY <1>5, <1>6, <1>10 DEF Config!Plain, Config!Has, Config!Is
  <2>4. Kept(h, g, touched)  BY <1>1, <1>7, <1>8, <2>2, <2>3, KeyKept
  <2> QED  BY <2>2, <2>3, <2>4 DEF Kept
<1> QED  BY <1>9, <1>10 DEF g
-----------------------------------------------------------------------------
FileInv ==
  /\ IsText(file)
  /\ \A s \in save : /\ IsText(s.content)
                     /\ Config!Valid(s.read) /\ Config!Plain(s.read) => Kept(s.read, s.content, s.touched)

\* What is left to be done before everybody follows the file: to write it, to reload it, or to
\* hear that it was reloaded.
FollowInv ==
  /\ reloads \in Nat /\ replies \in Seq(BOOLEAN)
  /\ save = {} /\ reloads = 0 /\ Config!Valid(file) /\ ~ untold =>
       /\ running = Config!Reads(file)
       /\ replies = << >> => shell = Config!Shown(file)
       /\ replies # << >> => replies[Len(replies)]

LEMMA NoText == IsText(<< >>)
<1>1. << >> \in Seq({})  OBVIOUS
<1> QED  BY <1>1 DEF IsText, IsList

LEMMA TextsAre == ASSUME NEW t \in Texts PROVE IsText(t)
<1> DEFINE sec(i) == [name |-> t[i].name, plain |-> t[i].plain, body |-> t[i].body]
           T == { sec(i) : i \in 1 .. Len(t) }
<1>1. Len(t) \in Nat /\ t = [i \in 1 .. Len(t) |-> sec(i)]  BY TextsAssumption DEF Section
<1>2. \A i \in 1 .. Len(t) : t[i] = sec(i)
  <2> HIDE DEF sec
  <2> QED  BY <1>1
<1>3. t \in [1 .. Len(t) -> T]
  <2> HIDE DEF sec
  <2> QED  BY <1>1
<1>4. t \in Seq(T)
  <2> HIDE DEF T, sec
  <2> QED  BY <1>1, <1>3, SeqDef
<1>5. DOMAIN t = 1 .. Len(t)
  <2> HIDE DEF T, sec
  <2> QED  BY <1>3
<1>6. \A i \in DOMAIN t : IsSection(t[i])  BY <1>2, <1>5 DEF IsSection
<1> HIDE DEF T
<1> QED  BY <1>4, <1>6 DEF IsText, IsList

LEMMA BeginKeeps ==
    ASSUME FileInv, FollowInv, NEW f, NEW content, NEW touched, NEW told, Config!Begin(f, content, touched, told),
           IsText(content), Config!Valid(f) /\ Config!Plain(f) => Kept(f, content, touched)
    PROVE  FileInv' /\ FollowInv'
<1> DEFINE s == [read |-> f, content |-> content, touched |-> touched, told |-> told]
<1>1. save' = {s} /\ file' = << >> /\ UNCHANGED << reloads, replies >>  BY DEF Config!Begin
<1>2. s.content = content /\ s.touched = touched /\ s.read = f  OBVIOUS
<1> HIDE DEF s
<1>3. FileInv'  BY <1>1, <1>2, NoText DEF FileInv
<1>4. FollowInv'  BY <1>1 DEF FollowInv
<1> QED  BY <1>3, <1>4

LEMMA SavesKeep ==
    ASSUME FileInv, FollowInv,
           \/ \E v : Config!SaveTheme(v) \/ Config!SaveIdle(v)
           \/ \E t, z : Config!SaveCursor(t, z)
           \/ \E p, m : Config!SaveWallpaper(p, m)
           \/ \E v : Config!SavePinned(v)
           \/ \E o \in Outputs : Config!SavePrimary(o) \/ Config!SaveMode(o) \/ Config!SaveScale(o) \/ Config!SaveTransform(o)
    PROVE  FileInv' /\ FollowInv'
<1>0. \A f \in Config!Readings : IsText(f)  BY NoText DEF FileInv, Config!Readings
<1>1. ASSUME NEW v, Config!SaveTheme(v) PROVE FileInv' /\ FollowInv'
  <2>0. PICK f \in Config!Readings : Config!Begin(f, Config!SetKey(f, "general", "theme", v), { << "general", "theme" >> }, TRUE)
    BY <1>1 DEF Config!SaveTheme
  <2> DEFINE T == { << "general", "theme" >> }
             c == Config!SetKey(f, "general", "theme", v)
  <2>1. Config!Begin(f, c, T, TRUE)  BY <2>0
  <2>2. << "general", "theme" >> \in T  OBVIOUS
  <2> HIDE DEF T
  <2>3. IsText(c) /\ (Config!Valid(f) /\ Config!Plain(f) => Kept(f, c, T))
    BY <1>0, <2>2, KeyKept
  <2> QED  BY <2>1, <2>3, BeginKeeps
<1>2. ASSUME NEW v, Config!SaveIdle(v) PROVE FileInv' /\ FollowInv'
  <2>0. PICK f \in Config!Readings : Config!Begin(f, Config!SetKey(f, "general", "idle", v), { << "general", "idle" >> }, TRUE)
                                    \/ Config!Begin(f, Config!RemoveKey(f, "general", "idle"), { << "general", "idle" >> }, TRUE)
    BY <1>2 DEF Config!SaveIdle
  <2> DEFINE T == { << "general", "idle" >> }
             c == Config!SetKey(f, "general", "idle", v)
             d == Config!RemoveKey(f, "general", "idle")
  <2>1. Config!Begin(f, c, T, TRUE) \/ Config!Begin(f, d, T, TRUE)  BY <2>0
  <2>2. << "general", "idle" >> \in T  OBVIOUS
  <2> HIDE DEF T
  <2>3. IsText(c) /\ (Config!Valid(f) /\ Config!Plain(f) => Kept(f, c, T))
    BY <1>0, <2>2, KeyKept
  <2>4. IsText(d) /\ (Config!Valid(f) /\ Config!Plain(f) => Kept(f, d, T))
    BY <1>0, <2>2, RemoveKept
  <2> HIDE DEF c, d
  <2> QED  BY <2>1, <2>3, <2>4, BeginKeeps
<1>3. ASSUME NEW t, NEW z, Config!SaveCursor(t, z) PROVE FileInv' /\ FollowInv'
  <2>0. PICK f \in Config!Readings :
            Config!Begin(f, Config!SetSection(f, "cursor", [theme |-> t, size |-> z]),
                         { << "cursor", "theme" >>, << "cursor", "size" >> }, TRUE)
    BY <1>3 DEF Config!SaveCursor
  <2> DEFINE T == { << "cursor", "theme" >>, << "cursor", "size" >> }
             b == [theme |-> t, size |-> z]
             c == Config!SetSection(f, "cursor", b)
  <2>1. Config!Begin(f, c, T, TRUE)  BY <2>0
  <2>2. \A k \in Config!Keys["cursor"] : << "cursor", k >> \in T  BY KeysAre
  <2> HIDE DEF T, b
  <2>3. IsText(c) /\ (Config!Valid(f) /\ Config!Plain(f) => Kept(f, c, T))
    BY <1>0, <2>2, SetSectionKeeps
  <2> QED  BY <2>1, <2>3, BeginKeeps
<1>4. ASSUME NEW p, NEW m, Config!SaveWallpaper(p, m) PROVE FileInv' /\ FollowInv'
  <2>0. PICK f \in Config!Readings :
            Config!Begin(f, Config!SetSection(f, "wallpaper", [path |-> p, mode |-> m]),
                         { << "wallpaper", "path" >>, << "wallpaper", "mode" >> }, TRUE)
    BY <1>4 DEF Config!SaveWallpaper
  <2> DEFINE T == { << "wallpaper", "path" >>, << "wallpaper", "mode" >> }
             b == [path |-> p, mode |-> m]
             c == Config!SetSection(f, "wallpaper", b)
  <2>1. Config!Begin(f, c, T, TRUE)  BY <2>0
  <2>2. \A k \in Config!Keys["wallpaper"] : << "wallpaper", k >> \in T  BY KeysAre
  <2> HIDE DEF T, b
  <2>3. IsText(c) /\ (Config!Valid(f) /\ Config!Plain(f) => Kept(f, c, T))
    BY <1>0, <2>2, SetSectionKeeps
  <2> QED  BY <2>1, <2>3, BeginKeeps
<1>5. ASSUME NEW v, Config!SavePinned(v) PROVE FileInv' /\ FollowInv'
  <2>0. PICK f \in Config!Readings : Config!Begin(f, Config!SetSection(f, "panel", [pinned |-> v]), { << "panel", "pinned" >> }, FALSE)
    BY <1>5 DEF Config!SavePinned
  <2> DEFINE T == { << "panel", "pinned" >> }
             b == [pinned |-> v]
             c == Config!SetSection(f, "panel", b)
  <2>1. Config!Begin(f, c, T, FALSE)  BY <2>0
  <2>2. \A k \in Config!Keys["panel"] : << "panel", k >> \in T  BY KeysAre
  <2> HIDE DEF T, b
  <2>3. IsText(c) /\ (Config!Valid(f) /\ Config!Plain(f) => Kept(f, c, T))
    BY <1>0, <2>2, SetSectionKeeps
  <2> QED  BY <2>1, <2>3, BeginKeeps
<1>6. ASSUME NEW o \in Outputs, Config!SavePrimary(o) PROVE FileInv' /\ FollowInv'
  <2>0. PICK f \in Config!Readings : Config!Begin(f, Config!SetPrimary(f, o), { << x, "primary" >> : x \in Outputs }, TRUE)
    BY <1>6 DEF Config!SavePrimary
  <2> DEFINE T == { << x, "primary" >> : x \in Outputs }
             c == Config!SetPrimary(f, o)
  <2>1. Config!Begin(f, c, T, TRUE)  BY <2>0
  <2>3. IsText(c) /\ (Config!Valid(f) /\ Config!Plain(f) => Kept(f, c, T))
    BY <1>0, PrimaryKept
  <2> HIDE DEF T, c
  <2> QED  BY <2>1, <2>3, BeginKeeps
<1>7. ASSUME NEW o \in Outputs, NEW k, NEW v, Config!SaveOutput(o, k, v) PROVE FileInv' /\ FollowInv'
  <2>0. PICK f \in Config!Readings : Config!Begin(f, Config!SetKey(f, o, k, v), { << o, k >> }, TRUE)
                                    \/ Config!Begin(f, Config!RemoveKey(f, o, k), { << o, k >> }, TRUE)
    BY <1>7 DEF Config!SaveOutput
  <2> DEFINE T == { << o, k >> }
             c == Config!SetKey(f, o, k, v)
             d == Config!RemoveKey(f, o, k)
  <2>1. Config!Begin(f, c, T, TRUE) \/ Config!Begin(f, d, T, TRUE)  BY <2>0
  <2>2. << o, k >> \in T  OBVIOUS
  <2> HIDE DEF T
  <2>3. IsText(c) /\ (Config!Valid(f) /\ Config!Plain(f) => Kept(f, c, T))
    BY <1>0, <2>2, KeyKept
  <2>4. IsText(d) /\ (Config!Valid(f) /\ Config!Plain(f) => Kept(f, d, T))
    BY <1>0, <2>2, RemoveKept
  <2> HIDE DEF c, d
  <2> QED  BY <2>1, <2>3, <2>4, BeginKeeps
<1>8. \A o : Config!SaveMode(o) \/ Config!SaveScale(o) \/ Config!SaveTransform(o) => \E k, v : Config!SaveOutput(o, k, v)
  BY DEF Config!SaveMode, Config!SaveScale, Config!SaveTransform
<1> QED  BY <1>1, <1>2, <1>3, <1>4, <1>5, <1>6, <1>7, <1>8

LEMMA FinishKeeps == ASSUME FileInv, FollowInv, Config!Finish PROVE FileInv' /\ FollowInv'
<1>1. PICK s \in save : /\ save' = {} /\ file' \in { s.content, << >> }
                        /\ reloads' = (IF s.told THEN reloads + 1 ELSE reloads)
                        /\ untold' = (untold \/ ~ s.told) /\ UNCHANGED replies
  BY DEF Config!Finish
<1>2. FileInv'  BY <1>1, NoText DEF FileInv
<1>3. FollowInv'
  <2>1. reloads \in Nat  BY DEF FollowInv
  <2>2. ~ s.told => untold'  BY <1>1, Zenon
  <2>3. s.told => reloads' = reloads + 1  BY <1>1
  <2>4. reloads' \in Nat  BY <1>1, <2>1
  <2>5. reloads' = 0 => untold'  BY <2>1, <2>2, <2>3
  <2> QED  BY <1>1, <2>4, <2>5 DEF FollowInv
<1> QED  BY <1>2, <1>3

LEMMA FileReloads == ASSUME FileInv, FollowInv, Config!Reload PROVE FileInv' /\ FollowInv'
<1>1. /\ reloads > 0 /\ reloads' = reloads - 1 /\ replies' = Append(replies, Config!Valid(file))
      /\ running' = (IF Config!Valid(file) THEN Config!Reads(file) ELSE running) /\ UNCHANGED << file, save, shell >>
  BY DEF Config!Reload
<1>2. FileInv'  BY <1>1 DEF FileInv
<1>3. FollowInv'
  <2> DEFINE ok == Config!Valid(file)
  <2>1. ok \in BOOLEAN  BY DEF Config!Valid
  <2> HIDE DEF ok
  <2>2. replies' = Append(replies, ok)  BY <1>1 DEF ok
  <2>3. /\ replies' \in Seq(BOOLEAN) /\ replies' # << >> /\ replies'[Len(replies')] = ok
    BY <2>1, <2>2 DEF FollowInv
  <2>4. reloads' \in Nat  BY <1>1 DEF FollowInv
  <2>5. Config!Valid(file)' => ok /\ running' = Config!Reads(file)'
    <3>1. Config!Valid(file)' <=> Config!Valid(file)  BY <1>1 DEF Config!Valid
    <3>2. Config!Reads(file)' = Config!Reads(file)  BY <1>1 DEF Config!Reads, Config!Value
    <3> QED  BY <1>1, <3>1, <3>2 DEF ok
  <2> QED  BY <2>3, <2>4, <2>5 DEF FollowInv
<1> QED  BY <1>2, <1>3

\* What is taken from the front leaves the last one where it was.
LEMMA LastStays ==
    ASSUME NEW S, NEW q \in Seq(S), q # << >>
    PROVE  /\ Tail(q) \in Seq(S)
           /\ Tail(q) = << >> => Head(q) = q[Len(q)]
           /\ Tail(q) # << >> => Tail(q)[Len(Tail(q))] = q[Len(q)]
<1>1. Tail(q) \in Seq(S) /\ Len(Tail(q)) = Len(q) - 1 /\ Len(q) \in Nat \ {0}  OBVIOUS
<1>2. \A i \in 1 .. Len(q) - 1 : Tail(q)[i] = q[i + 1]  OBVIOUS
<1>3. ASSUME Tail(q) = << >> PROVE Head(q) = q[Len(q)]
  <2>1. Len(Tail(q)) = 0  BY <1>1, <1>3, EmptySeq
  <2>2. Len(q) = 1
    <3> DEFINE n == Len(q)
               m == Len(Tail(q))
    <3>1. n \in Nat /\ m = n - 1 /\ m = 0  BY <1>1, <2>1
    <3> HIDE DEF n, m
    <3>2. n = 1  BY <3>1
    <3> QED  BY <3>2 DEF n
  <2> QED  BY <2>2
<1>4. ASSUME Tail(q) # << >> PROVE Tail(q)[Len(Tail(q))] = q[Len(q)]
  <2>1. Len(Tail(q)) # 0  BY <1>1, <1>4
  <2> QED  BY <1>1, <1>2, <2>1
<1> QED  BY <1>1, <1>3, <1>4

LEMMA ShellReloads == ASSUME FileInv, FollowInv, Config!Reloaded PROVE FileInv' /\ FollowInv'
<1>1. /\ replies # << >> /\ save = {} /\ replies' = Tail(replies)
      /\ shell' = (IF Head(replies) /\ Config!Valid(file) THEN Config!Shown(file) ELSE shell)
      /\ UNCHANGED << file, save, reloads, running, untold >>
  BY DEF Config!Reloaded
<1>2. FileInv'  BY <1>1 DEF FileInv
<1>3. replies \in Seq(BOOLEAN)  BY DEF FollowInv
<1>4. /\ replies' \in Seq(BOOLEAN)
      /\ replies' = << >> => Head(replies) = replies[Len(replies)]
      /\ replies' # << >> => replies'[Len(replies')] = replies[Len(replies)]
  BY <1>1, <1>3, LastStays
<1>6. (Config!Valid(file)' <=> Config!Valid(file)) /\ Config!Reads(file)' = Config!Reads(file) /\ Config!Shown(file)' = Config!Shown(file)
  BY <1>1
<1>7. FollowInv'  BY <1>1, <1>3, <1>4, <1>6 DEF FollowInv
<1> QED  BY <1>2, <1>7

LEMMA EditKeeps == ASSUME FileInv, FollowInv, Config!Edit PROVE FileInv' /\ FollowInv'
<1>1. /\ save' = {} /\ file' \in Texts /\ untold' /\ reloads' \in { reloads, reloads + 1 }
      /\ UNCHANGED replies
  BY DEF Config!Edit
<1> QED  BY <1>1, TextsAre DEF FileInv, FollowInv

LEMMA FileKeeps == ASSUME FileInv, FollowInv, Config!Next PROVE FileInv' /\ FollowInv'
<1>1. \/ \E v : Config!SaveTheme(v) \/ Config!SaveIdle(v)
      \/ \E t, z : Config!SaveCursor(t, z)
      \/ \E p, m : Config!SaveWallpaper(p, m)
      \/ \E v : Config!SavePinned(v)
      \/ \E o \in Outputs : Config!SavePrimary(o) \/ Config!SaveMode(o) \/ Config!SaveScale(o) \/ Config!SaveTransform(o)
      \/ Config!Finish \/ Config!Reload \/ Config!Reloaded \/ Config!Edit
  BY DEF Config!Next
<1> QED  BY <1>1, SavesKeep, FinishKeeps, FileReloads, ShellReloads, EditKeeps

LEMMA FileStarts == ASSUME Config!Init PROVE FileInv /\ FollowInv
<1>1. /\ file \in Texts /\ save = {} /\ reloads = 0 /\ replies = << >>
      /\ running = Config!Reads(file) /\ shell = Config!Shown(file)
  BY DEF Config!Init
<1>2. << >> \in Seq(BOOLEAN)  OBVIOUS
<1> QED  BY <1>1, <1>2, TextsAre DEF FileInv, FollowInv

LEMMA FileGood == ASSUME FileInv, FollowInv PROVE Config!KeepsTheRest /\ Config!AllFollow
<1>1. ASSUME NEW s \in save, Config!Valid(s.read), Config!Plain(s.read)
      PROVE  /\ Config!Valid(s.content)
             /\ Config!Untouched(s, { p \in Config!Settings : p # << "general", "idle" >> \/ Config!Has(s.read, "general") })
  <2>1. Kept(s.read, s.content, s.touched)  BY <1>1 DEF FileInv
  <2>2. ASSUME NEW p \in Config!Settings, p # << "general", "idle" >> \/ Config!Has(s.read, "general"), p \notin s.touched
        PROVE  Config!Value(s.content, p[1], p[2]) = Config!Value(s.read, p[1], p[2])
    <3>1. PICK t \in DOMAIN Config!Keys : \E k \in Config!Keys[t] : p = << t, k >>
      BY <2>2 DEF Config!Settings
    <3>2. PICK k \in Config!Keys[t] : p = << t, k >>  BY <3>1
    <3>3. p[1] = t /\ p[2] = k  BY <3>2
    <3> QED  BY <2>1, <2>2, <3>1, <3>2, <3>3 DEF Kept
  <2> QED  BY <2>1, <2>2 DEF Kept, Config!Untouched
<1>2. Config!KeepsTheRest  BY <1>1 DEF Config!KeepsTheRest
<1>3. Config!AllFollow  BY DEF Config!AllFollow, FollowInv
<1> QED  BY <1>2, <1>3

\* However saves, edits and reloads follow each other, and whether a save's write succeeds: a save
\* of one thing leaves every other setting as it was in the text it was made from, the file's or, when
\* that could not be read, an empty one, and once the last reload is handled compositor and shell
\* run with what the file says.
THEOREM FileIsFollowed == Spec => []ConfigAgrees
<1> DEFINE I == part = "config" => FileInv /\ FollowInv
<1>1. Init => I  BY StartsItsOwn, FileStarts
<1>2. I /\ [Next]_vars => I'
  <2>1. FileInv /\ UNCHANGED vars => FileInv'  BY DEF FileInv, vars
  <2>2. FollowInv /\ UNCHANGED vars => FollowInv'
    <3>1. UNCHANGED vars => UNCHANGED << file, save, reloads, replies, running, shell, untold >>
      BY DEF vars
    <3> QED  BY <3>1 DEF FollowInv
  <2>3. part = "config" /\ FileInv /\ FollowInv /\ [Next]_vars => FileInv' /\ FollowInv'
    BY <2>1, <2>2, OnlyItsOwn, FileKeeps
  <2> QED  BY <2>3, OnlyItsOwn
<1>3. I => ConfigAgrees  BY FileGood DEF ConfigAgrees
<1> QED  BY <1>1, <1>2, <1>3, PTL DEF Spec
=============================================================================

------------------------------ MODULE Launcher ------------------------------
(***************************************************************************)
(* The native launcher's palette: the list of applications it shows, the   *)
(* rescan of the desktop entries and the decoding of their icons, which    *)
(* two worker threads do, the search and the keyboard selection, and the   *)
(* context menu of a row.                                                  *)
(*                                                                         *)
(* Only an application whose icon is in the cache has a row, so the rows   *)
(* depend on both workers and on the theme, whose change empties the       *)
(* cache.  What is drawn is kept apart from what is current: a click finds *)
(* its row in the current list (pointer/launcher.rs), the user in the one  *)
(* that was drawn.  An application is its `program`; terminal applications *)
(* never have a row and are left out; a search term matches one of them.   *)
(***************************************************************************)
EXTENDS Naturals, Sequences, FiniteSets

CONSTANTS Apps,        \* the applications, as model values or strings
          MaxChanges   \* bound on installs, removals and theme changes

VARIABLES
  open,     \* launcher_state.open
  settings, \* launcher_settings_open
  apps,     \* launcher_state.apps
  disk,     \* the applications installed
  scan,     \* launcher_apps_rx: none, a worker that is running, or one that sent its list
  icons,    \* icon_cache: for each application the theme its icon was decoded for, 0 for none
  theme,    \* the theme's number
  warmed,   \* launcher_icons_warmed
  warm,     \* launcher_icons_rx: {}, or what its worker decodes and for which theme
  pinned,   \* the programs of pinned_apps
  hidden,   \* hidden_execs
  query,    \* search_query: "" or the application whose name matches
  sel,      \* launcher_selected_idx, 0 for none
  menu,     \* context_menu: {}, or the row it was opened for and whether that was pinned
  seen,     \* the rows, and the menu, of the last draw
  changes   \* how often an application or the theme changed

lists == << apps, disk, scan, icons, theme, warmed, warm, hidden, changes >>
vars == << open, settings, apps, disk, scan, icons, theme, warmed, warm, pinned, hidden,
           query, sel, menu, seen, changes >>

\* The orders a set may be listed in, and what is in a list.
Orders(S)  == { f \in [1 .. Cardinality(S) -> S] : \A i, j \in DOMAIN f : f[i] = f[j] => i = j }
Members(l) == { l[i] : i \in DOMAIN l }

Shown(list, cache, hid, q) ==
  SelectSeq(list, LAMBDA a : a \notin hid /\ cache[a] # 0 /\ q \in {"", a})

\* collect_palette_apps
Rows == Shown(apps, icons, hidden, query)

\* draw_app_grid, draw_search_results: the rows are collected once more for the picture.
Grid == Shown(apps', icons', hidden', query')

\* draw_launcher, at the end of a step: nothing while closed.
Draw == seen' = IF open' THEN [rows |-> Grid, menu |-> menu'] ELSE seen

\* The rows of the settings view are another module's.
Palette == open /\ ~ settings

\* warm_launcher_icons, for the list a and the theme t, where none is under way in `w`: what
\* it starts, and whether the cache then counts as warmed.
Warming(a, t, w, done) ==
  IF done \/ w # {} THEN [warm |-> w, warmed |-> done]
  ELSE IF a = << >> THEN [warm |-> w, warmed |-> TRUE]
  ELSE [warm |-> {[apps |-> Members(a), theme |-> t]}, warmed |-> TRUE]

NoScan == [at |-> "none", list |-> << >>]

\* request_launcher_apps_refresh
Requested == IF scan = NoScan THEN [at |-> "running", list |-> << >>] ELSE scan

\* build_icon_cache: the new cache holds the icons of the pinned applications.
Rebuilt(t) == [a \in Apps |-> IF a \in pinned THEN t ELSE 0]

Init ==
  /\ open = FALSE /\ settings = FALSE
  /\ disk \in SUBSET Apps /\ apps \in Orders(disk)
  /\ scan = NoScan /\ theme = 1 /\ warmed = FALSE /\ warm = {}
  /\ pinned \in {{}, {CHOOSE a \in Apps : TRUE}}
  /\ icons = Rebuilt(1)
  /\ hidden = {} /\ query = "" /\ sel = 0 /\ menu = {}
  /\ seen = [rows |-> << >>, menu |-> {}] /\ changes = 0
-----------------------------------------------------------------------------
(* Opening and closing.                                                    *)

\* toggle_launcher opens: the icons are warmed and the list rescanned off the event loop,
\* and the list in hand is shuffled.
Open ==
  /\ ~ open
  /\ open' = TRUE
  /\ LET w == Warming(apps, theme, warm, warmed) IN warm' = w.warm /\ warmed' = w.warmed
  /\ scan' = Requested
  /\ \E order \in Orders(Members(apps)) : apps' = order
  /\ UNCHANGED << settings, disk, icons, theme, pinned, hidden, query, sel, menu, changes >>
  /\ Draw

\* toggle_launcher closes: the search and the menu stay.
Toggle ==
  /\ open
  /\ open' = FALSE /\ settings' = FALSE
  /\ UNCHANGED << lists, pinned, query, sel, menu, seen >>

\* Another popup or a `closed` event closes the launcher and keeps even the settings view.
CloseForPopup ==
  /\ open
  /\ open' = FALSE
  /\ UNCHANGED << settings, lists, pinned, query, sel, menu, seen >>

\* close_launcher_after_launch
Closed ==
  /\ open' = FALSE /\ settings' = FALSE /\ query' = "" /\ sel' = 0
  /\ UNCHANGED << lists, pinned, seen >>

\* A click beside the launcher, or Escape without a search.
Dismiss ==
  /\ open
  /\ Closed
  /\ UNCHANGED menu

\* The settings button, and Escape in the settings view.
ToggleSettings ==
  /\ open
  /\ settings' = ~ settings
  /\ UNCHANGED << open, lists, pinned, query, sel, menu >>
  /\ Draw
-----------------------------------------------------------------------------
(* Rows.                                                                   *)

\* A click on row i, outside the context menu when there is one.
Launch(i) ==
  /\ Palette /\ i \in 1..Len(Rows)
  /\ menu' = {}
  /\ Closed

\* Enter takes the selected row, or the first; with the selection past the end it does
\* nothing.
Enter ==
  /\ Palette /\ Rows # << >>
  /\ LET i == IF sel = 0 THEN 1 ELSE sel IN
       IF i \in 1..Len(Rows) THEN Closed ELSE UNCHANGED << open, settings, query, sel, lists, pinned, seen >>
  /\ UNCHANGED menu

\* The arrow keys
Select(down) ==
  /\ Palette
  /\ LET n == Len(Rows) IN
       sel' = CASE n = 0 -> sel
                [] n > 0 /\ sel = 0 -> (IF down THEN 1 ELSE n)
                [] n > 0 /\ sel > 0 /\ down -> (IF sel + 1 > n THEN n ELSE sel + 1)
                [] OTHER -> (IF sel > 1 THEN sel - 1 ELSE 1)
  /\ UNCHANGED << open, settings, lists, pinned, query, menu >>
  /\ Draw

\* A character, BackSpace, or Escape with a search
Search(q) ==
  /\ Palette /\ q # query
  /\ query' = q /\ sel' = 0
  /\ UNCHANGED << open, settings, lists, pinned, menu >>
  /\ Draw

\* A right click on row i: the menu keeps the application and whether it was pinned.
OpenMenu(i) ==
  /\ Palette /\ i \in 1..Len(Rows)
  /\ menu' = {[app |-> Rows[i], pinned |-> Rows[i] \in pinned]}
  /\ UNCHANGED << open, settings, lists, pinned, query, sel >>
  /\ Draw

\* Escape, a click beside the menu, or a right click beside the rows
DismissMenu ==
  /\ open /\ menu # {}
  /\ menu' = {}
  /\ UNCHANGED << open, settings, lists, pinned, query, sel >>
  /\ Draw

Clicked == CHOOSE m \in menu : TRUE
Pinned(p) == IF p THEN pinned \ {Clicked.app} ELSE pinned \cup {Clicked.app}

\* PinToPanel or UnpinFromPanel, whichever the menu was opened with
PinItem ==
  /\ open /\ menu # {}
  /\ pinned' = Pinned(Clicked.pinned)
  /\ menu' = {}
  /\ UNCHANGED << open, settings, lists, query, sel >>
  /\ Draw

\* RemoveFromLauncher
RemoveItem ==
  /\ open /\ menu # {}
  /\ hidden' = hidden \cup {Clicked.app}
  /\ menu' = {}
  /\ UNCHANGED << open, settings, apps, disk, scan, icons, theme, warmed, warm, changes,
                  pinned, query, sel >>
  /\ Draw
-----------------------------------------------------------------------------
(* The workers, and the world.                                             *)

\* An application is installed or removed.
DiskChanges ==
  /\ changes < MaxChanges /\ changes' = changes + 1
  /\ \E a \in Apps : disk' = (IF a \in disk THEN disk \ {a} ELSE disk \cup {a})
  /\ UNCHANGED << open, settings, apps, scan, icons, theme, warmed, warm, pinned, hidden,
                  query, sel, menu, seen >>

\* The worker has read the desktop entries.
ScanDone ==
  /\ scan.at = "running"
  /\ \E list \in Orders(disk) : scan' = [at |-> "sent", list |-> list]
  /\ UNCHANGED << open, settings, apps, disk, icons, theme, warmed, warm, pinned, hidden,
                  query, sel, menu, seen, changes >>

\* Mutant: the icons of the new list are taken to be warm already.
PollAppsKeepsWarmed ==
  /\ scan.at = "sent"
  /\ scan' = NoScan /\ apps' = scan.list
  /\ warm' = {}
  /\ UNCHANGED warmed
  /\ UNCHANGED << open, settings, disk, icons, theme, pinned, hidden, query, sel, menu, changes >>
  /\ Draw

\* poll_launcher_apps_refresh
PollApps ==
  /\ scan.at = "sent"
  /\ scan' = NoScan /\ apps' = scan.list
  /\ LET w == IF open THEN Warming(scan.list, theme, {}, FALSE)
                      ELSE [warm |-> {}, warmed |-> FALSE]
     IN warm' = w.warm /\ warmed' = w.warmed
  /\ UNCHANGED << open, settings, disk, icons, theme, pinned, hidden, query, sel, menu, changes >>
  /\ Draw

\* poll_launcher_icons_warm: the batch goes into whatever cache there is by now.
PollIcons ==
  /\ warm # {}
  /\ icons' = [a \in Apps |-> LET of == {w \in warm : a \in w.apps} IN
                                  IF of = {} THEN icons[a] ELSE (CHOOSE w \in of : TRUE).theme]
  /\ warm' = {}
  /\ UNCHANGED << open, settings, apps, disk, scan, theme, warmed, pinned, hidden, query, sel,
                  menu, changes >>
  /\ Draw

\* handle_config_reloaded with another theme, or apply_theme, which leaves the rescan to
\* the reload it asks for.  A worker that decodes icons goes on.
ThemeChanges ==
  /\ changes < MaxChanges /\ changes' = changes + 1
  /\ theme' = theme + 1
  /\ icons' = Rebuilt(theme + 1) /\ warmed' = FALSE
  /\ scan' \in { Requested, scan }
  /\ UNCHANGED << open, settings, apps, disk, warm, pinned, hidden, query, sel, menu >>
  /\ Draw

Poll == PollApps \/ PollIcons

Next ==
  \/ Open \/ Toggle \/ CloseForPopup \/ Dismiss \/ ToggleSettings
  \/ \E i \in 1..Cardinality(Apps) : Launch(i) \/ OpenMenu(i)
  \/ Enter \/ Select(TRUE) \/ Select(FALSE)
  \/ \E q \in Apps \cup {""} : Search(q)
  \/ DismissMenu \/ PinItem \/ RemoveItem
  \/ DiskChanges \/ ScanDone \/ Poll \/ ThemeChanges

Spec == Init /\ [][Next]_vars
-----------------------------------------------------------------------------
(* Properties                                                              *)

\* What a click or Enter takes is what is on the screen: every step that can change a row,
\* in the hand of the user or of a worker, has drawn the launcher by its end
\* (widget_dispatch and ipc_events.rs:495-515), and so has every step that changes what the
\* menu's items do.
SeenIsCurrent ==
  Palette => /\ seen.rows = Rows
             /\ seen.menu = menu

\* No icon stays out, or in the colours of an old theme: once the cache counts as warmed
\* and no worker is under way, every application of the list has an icon, of the theme in
\* use - although a batch that was started for an earlier theme, or an earlier list, may
\* have gone into the cache meanwhile (LAUNCH-3, ipc_events.rs:405-440).
IconsSettle ==
  (warmed /\ warm = {}) => \A a \in Members(apps) : icons[a] = theme
=============================================================================

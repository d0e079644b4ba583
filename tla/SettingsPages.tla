---------------------------- MODULE SettingsPages ----------------------------
(***************************************************************************)
(* The settings view of the native launcher.  Its widget tree is built     *)
(* anew from the shell's lists for every draw and every pointer event, and *)
(* a row carries no more than its index (settings_view, widget_action.rs): *)
(* what a click does is looked up once more, by index, in the list of that *)
(* moment (widget_dispatch).                                               *)
(*                                                                         *)
(* A list is a sequence of entries, each a name and whether it is marked   *)
(* (the theme in use, the default device, a connection that is up).  The   *)
(* pages differ in the lists they show, in which rows can be clicked and   *)
(* in what a click does to list and system.  Pages that show facts only    *)
(* (overview, printers, users, updates), the page of the power buttons     *)
(* (PowerButtons), of the default applications (DefaultApps) and of the    *)
(* outputs (DisplaySettings), and where rows lie, are left out.  A click   *)
(* is the release of the button: that it was pressed on the same row only  *)
(* narrows which row that can be.                                          *)
(***************************************************************************)
EXTENDS Naturals, Sequences, FiniteSets

CONSTANTS Pages,      \* the pages in play, some of Categories
          Names,      \* names of entries
          MaxRows,    \* how many rows of a list have an id
          MaxChanges  \* bound on what changes outside the shell

\* SettingsCategory, in the order of the sidebar: DESKTOP, then SYSTEM.
Categories == << "theme", "cursor", "wallpaper", "pinned", "network", "bluetooth", "sound" >>

\* The lists behind a page.
Lists(p) == CASE p = "pinned"  -> { "pinned", "apps" }
              [] p = "network" -> { "profiles", "wifi" }
              [] p = "sound"   -> { "outputs", "inputs" }
              [] OTHER -> { p }
Kinds == UNION { Lists(p) : p \in Pages }

VARIABLES
  view,     \* the settings view is on the screen
  page,     \* settings_category
  adding,   \* settings_pinned_adding
  query,    \* settings_search
  list,     \* for each kind the list its rows are built from
  powered,  \* bluetooth_snapshot.powered
  world,    \* for each kind what is true of it: files, devices, connections
  seen,     \* the tree of the last draw
  kept,     \* the connections that have been up since the list of them was read
  jobs,     \* connections a thread is bringing up
  changes   \* how often the world has changed

vars == << view, page, adding, query, list, powered, world, seen, kept, jobs, changes >>
-----------------------------------------------------------------------------
(* The widget tree.                                                        *)

\* A term typed into the search is known by the pages with a label or keyword that contains
\* it, and by the entry whose name contains it.  The empty one is contained in everything.
Terms  == [pages : { {}, Pages } \cup { {p} : p \in Pages },
           name  : { "" } \cup (IF Pages \cap { "theme", "wallpaper" } = {} THEN {} ELSE Names)]
NoTerm == [pages |-> Pages, name |-> ""]
NoTree == [page |-> "none", sidebar |-> {}, rows |-> {}]

Hits(k) == { i \in DOMAIN list[k] : list[k][i].name = query.name }

\* cat_matches
Matches(p) == p \in query.pages \/ (p \in { "theme", "wallpaper" } /\ Hits(p) # {})

\* The rows of the sidebar, in the order of Categories.
Sidebar == { p \in Pages : Matches(p) }
Before(i) == { Categories[j] : j \in 1 .. i - 1 }

\* effective_selected: a search that the page does not match shows the first that does.
Effective ==
  IF Matches(page) \/ Sidebar = {} THEN page
  ELSE CHOOSE p \in Sidebar : \E i \in DOMAIN Categories : Categories[i] = p /\ Before(i) \cap Sidebar = {}

\* A row for the entry at i, whose id is its index, or 0 when it cannot be clicked.  The rows of
\* a page lie in the order of their lists, so a set of them is enough.
Row(k, i, dead) ==
  [kind |-> k, at |-> i, name |-> list[k][i].name, on |-> list[k][i].on, id |-> IF dead THEN 0 ELSE i]

ChoiceRow(k, i)    == Row(k, i, FALSE)                \* ThemeRow, CursorThemeRow
WallpaperRow(i)    == Row("wallpaper", i, i > MaxRows)
DeviceRow(k, i)    == Row(k, i, list[k][i].on)        \* the default already
ProfileRow(i)      == Row("profiles", i, list["profiles"][i].on)
WifiRow(i)         == Row("wifi", i, list["wifi"][i].on)
BluetoothRow(i)    == Row("bluetooth", i, list["bluetooth"][i].on)

\* The place of i among the indices S, and the first n of them.
Place(i, S)   == Cardinality({ j \in S : j <= i })
FirstOf(n, S) == { i \in S : Place(i, S) <= n }
First(k)      == { i \in DOMAIN list[k] : i <= MaxRows }
\* The indices in S that the query names, or all when it names none.
Narrowed(k, S) == IF S \cap Hits(k) = {} THEN S ELSE S \cap Hits(k)

ThemeRows  == { ChoiceRow("theme", i) : i \in Narrowed("theme", First("theme")) }
CursorRows == { ChoiceRow("cursor", i) : i \in First("cursor") }
\* One place of the list is for the row that browses.
WallpaperRows ==
  { WallpaperRow(i) : i \in FirstOf(MaxRows - 1, Narrowed("wallpaper", DOMAIN list["wallpaper"])) }
SoundRows == UNION { { DeviceRow(k, i) : i \in First(k) } : k \in { "outputs", "inputs" } }
NetworkRows == { ProfileRow(i) : i \in First("profiles") } \cup { WifiRow(i) : i \in First("wifi") }
BluetoothRows == IF powered THEN { BluetoothRow(i) : i \in First("bluetooth") } ELSE {}

\* The applications that are not pinned, in both places where they are counted.
Addable == { i \in DOMAIN list["apps"] :
               \A j \in DOMAIN list["pinned"] : list["pinned"][j].name # list["apps"][i].name }
PinnedRows ==
  IF adding
    THEN { [Row("apps", i, FALSE) EXCEPT !.id = Place(i, Addable)] : i \in FirstOf(MaxRows, Addable) }
    ELSE { Row("pinned", i, FALSE) : i \in First("pinned") }

Content(p) == CASE p = "theme"     -> ThemeRows
                [] p = "cursor"    -> CursorRows
                [] p = "wallpaper" -> WallpaperRows
                [] p = "pinned"    -> PinnedRows
                [] p = "network"   -> NetworkRows
                [] p = "bluetooth" -> BluetoothRows
                [] p = "sound"     -> SoundRows

\* build_settings_widget_tree
Tree == [page |-> Effective, sidebar |-> Sidebar, rows |-> Content(Effective)]

\* draw_launcher at the end of a step, when the view is up.
Draw == seen' = IF view' THEN Tree' ELSE NoTree
-----------------------------------------------------------------------------
Marked(l) == { l[i].name : i \in { j \in DOMAIN l : l[j].on } }

\* What may be true of a kind: entries that differ, one of them marked where there is one
\* choice, any of them where connections are, none in a list of applications.
Truths(k) ==
  { l \in UNION { [1..n -> [name : Names, on : BOOLEAN]] : n \in 0..2 } :
      /\ \A i, j \in DOMAIN l : l[i].name = l[j].name => i = j
      /\ k \notin { "profiles", "bluetooth" } => \A i, j \in DOMAIN l : (l[i].on /\ l[j].on) => i = j
      /\ k \in { "pinned", "apps" } => Marked(l) = {} }

Init ==
  /\ view = FALSE /\ page \in Pages /\ adding = FALSE /\ query = NoTerm
  /\ world \in { w \in [Kinds -> UNION { Truths(k) : k \in Kinds }] : \A k \in Kinds : w[k] \in Truths(k) }
  /\ list = [k \in Kinds |-> IF k \in { "wifi", "bluetooth" } THEN << >> ELSE world[k]]
  /\ powered = FALSE
  /\ seen = NoTree
  /\ kept = (IF "profiles" \in Kinds THEN Marked(world["profiles"]) ELSE {})
  /\ jobs = {} /\ changes = 0

\* The lists ks are read again.
Read(ks) ==
  /\ list' = [k \in Kinds |-> IF k \in ks THEN world[k] ELSE list[k]]
  /\ kept' = (IF "profiles" \in ks THEN Marked(world["profiles"]) ELSE kept)
-----------------------------------------------------------------------------
(* Moving about.                                                           *)

\* The launcher opens with the settings view: by its button, which forgets a search; on a
\* page that a menu names, of which only the sound's lists are read; or on the network's
\* from the tray.
Open ==
  /\ ~ view /\ view' = TRUE
  /\ \E p \in Pages :
       /\ page' = p
       /\ query' \in (IF p = page THEN { query, NoTerm } ELSE { query })
       /\ Read(IF p = "sound" THEN Lists("sound") ELSE {})
  /\ UNCHANGED << adding, powered, world, jobs, changes >>
  /\ Draw

\* Back to the palette, by button or Escape; or the launcher closes, on the way to a program
\* (close_launcher_after_launch) or by its toggle.
Close ==
  /\ view /\ view' = FALSE
  /\ adding' \in { adding, FALSE }
  /\ page' \in { page } \cup (Pages \cap { Categories[1] })
  /\ UNCHANGED << query, list, powered, world, kept, jobs, changes >>
  /\ Draw

\* SetSettingsCategory, from a row of the sidebar: lists that are asked of the system are
\* asked for now.
SetCategory(p) ==
  /\ view /\ p \in Sidebar
  /\ page' = p
  /\ Read(IF p \in { "sound", "network", "bluetooth" } THEN Lists(p) ELSE {})
  /\ powered' \in (IF p = "bluetooth" THEN BOOLEAN ELSE { powered })
  /\ UNCHANGED << view, adding, query, world, jobs, changes >>
  /\ Draw

\* A character, BackSpace or Escape: another page may match.  Nothing is read for it.
Search(t) ==
  /\ view
  /\ query' = t
  /\ UNCHANGED << view, page, adding, list, powered, world, kept, jobs, changes >>
  /\ Draw
-----------------------------------------------------------------------------
(* Clicks.                                                                 *)

\* The rows whose kind is one of ks and that can be clicked.
Rows(ks) == IF ~ view THEN {}
            ELSE { r \in Content(Effective) : r.kind \in ks /\ r.id # 0 }

\* Only the entry named x is marked.
Choose(l, x) == [i \in DOMAIN l |-> [l[i] EXCEPT !.on = (l[i].name = x)]]
Named(l)     == { l[i].name : i \in DOMAIN l }

\* ApplyThemeByIndex: nothing, when the theme cannot be loaded any more; else it is saved, the
\* compositor told to reload and the list of themes made anew.
ClickTheme(r) ==
  LET x == list["theme"][r.id].name IN
    /\ x \in Named(world["theme"])
    /\ world' = [world EXCEPT !["theme"] = Choose(@, x)]
    /\ list' = [list EXCEPT !["theme"] = world'["theme"]]
    /\ UNCHANGED << view, page, adding, query, powered, kept, jobs, changes >>
    /\ Draw

\* ApplyWallpaperByIndex, ApplyCursorThemeByIndex: saved under its name, and the compositor
\* told to reload.
ClickChoice(r) ==
  LET x == list[r.kind][r.id].name IN
    /\ list' = [list EXCEPT ![r.kind] = Choose(@, x)]
    /\ world' = [world EXCEPT ![r.kind] = Choose(@, x)]
    /\ UNCHANGED << view, page, adding, query, powered, kept, jobs, changes >>
    /\ Draw

\* SetDefaultAudioOutput, SetDefaultAudioInput: by the id of the device, which may be gone;
\* then everything is read again.
ClickDevice(r) ==
  LET x == list[r.kind][r.id].name IN
    /\ world' = [world EXCEPT ![r.kind] = IF x \in Named(@) THEN Choose(@, x) ELSE @]
    /\ list' = [k \in Kinds |-> IF k \in Lists("sound") THEN world'[k] ELSE list[k]]
    /\ UNCHANGED << view, page, adding, query, powered, kept, jobs, changes >>
    /\ Draw

\* Mutant: the marks are switched over as in a list with one choice.
ClickConnectionSwitches(r) ==
  LET x == list["profiles"][r.id].name IN
    /\ list' = [list EXCEPT !["profiles"] = Choose(@, x)]
    /\ jobs' = jobs \cup { x }
    /\ UNCHANGED << view, page, adding, query, powered, world, kept, changes >>
    /\ Draw

\* ActivateConnection: a thread brings it up, the row is marked meanwhile.
ClickConnection(r) ==
  /\ list' = [list EXCEPT !["profiles"][r.id].on = TRUE]
  /\ jobs' = jobs \cup { list["profiles"][r.id].name }
  /\ UNCHANGED << view, page, adding, query, powered, world, kept, changes >>
  /\ Draw

\* WifiConnect and BluetoothDevice leave the lists alone: the password and the threads are
\* in Network.
ClickFar(r) ==
  /\ UNCHANGED << view, page, adding, query, list, powered, world, kept, jobs, changes >>
  /\ Draw

\* ToggleBluetoothPower: shown as switched before it is.
ToggleBluetooth ==
  /\ view /\ Effective = "bluetooth"
  /\ powered' = ~ powered
  /\ UNCHANGED << view, page, adding, query, list, world, kept, jobs, changes >>
  /\ Draw

\* PinnedMoveUp, PinnedMoveDown, PinnedRemove, of which the first and the last row have no
\* use for one each.
ClickPinned(r) ==
  LET l == list["pinned"]
      i == r.id
      moved(j) == [l EXCEPT ![i] = l[j], ![j] = l[i]]
  IN /\ \E new \in { SubSeq(l, 1, i - 1) \o SubSeq(l, i + 1, Len(l)) }
                   \cup { moved(j) : j \in { i - 1, i + 1 } \cap DOMAIN l } :
          list' = [list EXCEPT !["pinned"] = new]
     /\ UNCHANGED << view, page, adding, query, powered, world, kept, jobs, changes >>
     /\ Draw

\* PinnedOpenAdd, PinnedCloseAdd
ToggleAdding ==
  /\ view /\ Effective = "pinned"
  /\ adding' = ~ adding
  /\ UNCHANGED << view, page, query, list, powered, world, kept, jobs, changes >>
  /\ Draw

\* PinnedAddApp: the applications that can be added are counted once more.
ClickAdd(r) ==
  /\ list' = [list EXCEPT !["pinned"] = Append(@, list["apps"][CHOOSE i \in Addable : Place(i, Addable) = r.id])]
  /\ adding' = FALSE
  /\ UNCHANGED << view, page, query, powered, world, kept, jobs, changes >>
  /\ Draw

\* action_for_id gives the action of a row by what its id begins with.
Click ==
  \/ \E r \in Rows({ "theme" }) : ClickTheme(r)
  \/ \E r \in Rows({ "wallpaper", "cursor" }) : ClickChoice(r)
  \/ \E r \in Rows({ "outputs", "inputs" }) : ClickDevice(r)
  \/ \E r \in Rows({ "profiles" }) : ClickConnection(r)
  \/ \E r \in Rows({ "wifi", "bluetooth" }) : ClickFar(r)
  \/ \E r \in Rows({ "pinned" }) : ClickPinned(r)
  \/ \E r \in Rows({ "apps" }) : ClickAdd(r)
-----------------------------------------------------------------------------
(* The world, and what the shell hears of it.                              *)

\* Devices, connections, files and applications come and go.
WorldChanges(k) ==
  /\ changes < MaxChanges /\ changes' = changes + 1
  /\ k # "pinned"
  /\ \E w \in Truths(k) : /\ world' = [world EXCEPT ![k] = w]
                          /\ kept' = (IF k = "profiles" THEN kept \cap Marked(w) ELSE kept)
  /\ UNCHANGED << view, page, adding, query, list, powered, seen, jobs >>

\* The thread's nmcli ends, well or not.
JobEnds(x) ==
  /\ x \in jobs /\ jobs' = jobs \ {x}
  /\ LET l == world["profiles"] IN
       \/ world' = [world EXCEPT !["profiles"] =
                      [i \in DOMAIN l |-> IF l[i].name = x THEN [l[i] EXCEPT !.on = TRUE] ELSE l[i]]]
       \/ UNCHANGED world
  /\ UNCHANGED << view, page, adding, query, list, powered, seen, kept, changes >>

\* Lists arrive over IPC, or are read because of an IPC event, and the launcher is drawn
\* with everything else (redraw_after_ipc): the theme and the wallpaper in use after a
\* reload, the devices at a volume key, the connections for Quick Settings.  The rescan of
\* the applications ends the same way.
Hear(ks) ==
  /\ Read(ks)
  /\ UNCHANGED << view, page, adding, query, powered, world, jobs, changes >>
  /\ Draw
Heard == { { "theme", "wallpaper" }, Lists("sound"), Lists("network"), { "apps" } }

\* The tick reads the devices until the audio service has settled, and draws the panel.
TickAudio ==
  /\ "sound" \in Pages
  /\ Read(Lists("sound"))
  /\ UNCHANGED << view, page, adding, query, powered, world, seen, jobs, changes >>

Next ==
  \/ Open \/ Close
  \/ \E p \in Pages : SetCategory(p)
  \/ \E t \in Terms : Search(t)
  \/ Click \/ ToggleBluetooth \/ ToggleAdding
  \/ \E k \in Kinds : WorldChanges(k)
  \/ \E ks \in Heard : ks \cap Kinds # {} /\ Hear(ks)
  \/ \E x \in Names : JobEnds(x)
  \/ TickAudio

Spec == Init /\ [][Next]_vars
-----------------------------------------------------------------------------
(* Properties                                                              *)

\* The tree on the screen is the one a click is looked up in: whatever changes a list, the
\* search or the page has drawn the launcher by the end of the step, also when the change
\* makes the search show another page.  (Devices are the exception: TickAudio.)
TreeIsCurrent == view /\ Effective # "sound" => seen = Tree

\* "a still-active VPN is never falsely hidden" (dispatch.rs:249): a connection that has
\* been up since the list was read is marked, whichever others were clicked and however
\* their activation ended.
NeverHidden == "profiles" \in Kinds => kept \subseteq Marked(list["profiles"])
=============================================================================

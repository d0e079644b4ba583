--------------------------------- MODULE Tray ---------------------------------
(***************************************************************************)
(* The tray: the StatusNotifierWatcher on a thread of its own, where one   *)
(* task per call asks an application for its details before it is listed;  *)
(* the shell's main loop, which gets the list and the menus through a      *)
(* channel; the threads that fetch a menu or forward a click, one each.    *)
(*                                                                         *)
(* An application is a number, its name's place in the watcher's map.  Its *)
(* details (title, icon, menu path) are one value, the number of times     *)
(* they have changed.  A menu is the sequence of its rows.                 *)
(***************************************************************************)
EXTENDS Naturals, Sequences, FiniteSets

CONSTANTS Services,    \* applications with a tray icon, numbers
          Menus,       \* layouts an application may answer with
          PanelIcons,  \* how many icons the panel has room for (8 SNI_PANEL_IDS)
          MenuRows,    \* how many rows of a menu fit (visible_row_capacity)
          MaxChanges, MaxCalls, MaxClicks  \* bounds on changes of details, registrations and clicks

VARIABLES
  details,  \* Services -> the details an application would give now
  tasks,    \* registrations being handled: [id, service, read], read = {} before the answer
  items,    \* WatcherState.items: what is listed, [service, details]
  channel,  \* the events on their way to the main loop
  fetches,  \* threads that wait for a menu: [id, service]
  tray,     \* status_notifier_items
  zones,    \* panel_state.clicks: the services drawn on the panel, from the left
  menu,     \* status_notifier_menu and its rows: [open, owner, rows]; owner = {} for None
  clicked,  \* history: the last click as {[on, to]}, what was drawn there and whom it reached
  calls, clicks

vars == << details, tasks, items, channel, fetches, tray, zones, menu, clicked, calls, clicks >>

Closed == [open |-> FALSE, owner |-> {}, rows |-> << >>]

Ascending(S) == CHOOSE f \in [1 .. Cardinality(S) -> S] : \A i, j \in DOMAIN f : i < j => f[i] < f[j]

\* snapshot_items: in the order of the map.
InOrder(listed) == Ascending({ x.service : x \in listed })

\* build_panel_widget_tree, action_for_id_as_click: a chip for each of the first ones.
Drawn(list) ==
  [i \in 1 .. (IF PanelIcons < Cardinality(list) THEN PanelIcons ELSE Cardinality(list)) |-> InOrder(list)[i]]

\* parse_dbus_menu_layout: every row that is visible, with the id the application gave it.
\* (`of` is whose row it is, for the property.)
Parsed(s, layout) ==
  LET visible == { i \in DOMAIN layout : layout[i] # "hidden" }
      ids     == Ascending(visible)
  IN  [i \in 1 .. Cardinality(visible) |-> [of |-> s, id |-> ids[i], kind |-> layout[ids[i]]]]

Init ==
  /\ details = [s \in Services |-> 0]
  /\ tasks = {} /\ items = {} /\ channel = << >> /\ fetches = {}
  /\ tray = {} /\ zones = << >> /\ menu = Closed
  /\ clicked = {} /\ calls = 0 /\ clicks = 0
-----------------------------------------------------------------------------
(* The watcher's thread.                                                   *)

DetailsChange(s) ==
  /\ details[s] < MaxChanges
  /\ details' = [details EXCEPT ![s] = @ + 1]
  /\ UNCHANGED << tasks, items, channel, fetches, tray, zones, menu, clicked, calls, clicks >>

\* register_status_notifier_item; an application may call it again, and nothing takes it off
\* the list when it leaves the bus.
Register(s) ==
  /\ calls < MaxCalls /\ calls' = calls + 1
  /\ tasks' = tasks \cup {[id |-> calls, service |-> s, read |-> {}]}
  /\ UNCHANGED << details, items, channel, fetches, tray, zones, menu, clicked, clicks >>

\* resolve_item_details: its properties are read while other calls are handled.
Resolve(t) ==
  /\ t.read = {}
  /\ tasks' = (tasks \ {t}) \cup {[t EXCEPT !.read = {details[t.service]}]}
  /\ UNCHANGED << details, items, channel, fetches, tray, zones, menu, clicked, calls, clicks >>

Listed(t) == { x \in items : x.service # t.service }
             \cup { [service |-> t.service, details |-> d] : d \in t.read }

\* Mutant: the snapshot is taken before the item is in it.
ListStale(t) ==
  /\ t.read # {}
  /\ tasks' = tasks \ {t}
  /\ items' = Listed(t)
  /\ channel' = Append(channel, [kind |-> "items", items |-> items])
  /\ UNCHANGED << details, fetches, tray, zones, menu, clicked, calls, clicks >>

\* The item is inserted and the list sent; no other task of the thread runs in between.
List(t) ==
  /\ t.read # {}
  /\ tasks' = tasks \ {t}
  /\ items' = Listed(t)
  /\ channel' = Append(channel, [kind |-> "items", items |-> Listed(t)])
  /\ UNCHANGED << details, fetches, tray, zones, menu, clicked, calls, clicks >>

\* fetch_dbus_menu_layout: an answer, or an error, which is logged.
Fetched(f) ==
  /\ fetches' = fetches \ {f}
  /\ \/ \E m \in Menus : channel' = Append(channel, [kind |-> "menu", owner |-> f.service, rows |-> Parsed(f.service, m)])
     \/ UNCHANGED channel
  /\ UNCHANGED << details, tasks, items, tray, zones, menu, clicked, calls, clicks >>
-----------------------------------------------------------------------------
(* The main loop.                                                          *)

\* insert_status_notifier_source: the panel is drawn at once, its signature holds the items.
\* A menu that is open stays on the screen without its state.
ItemsChanged ==
  /\ channel # << >> /\ Head(channel).kind = "items"
  /\ channel' = Tail(channel)
  /\ tray' = Head(channel).items
  /\ menu' = [menu EXCEPT !.owner = {}]
  /\ zones' = Drawn(tray')
  /\ UNCHANGED << details, tasks, items, fetches, clicked, calls, clicks >>

\* open_status_notifier_menu: whichever layout comes last is the one on the screen.
MenuLayout ==
  /\ channel # << >> /\ Head(channel).kind = "menu"
  /\ channel' = Tail(channel)
  /\ menu' = [open |-> TRUE, owner |-> {Head(channel).owner}, rows |-> Head(channel).rows]
  /\ UNCHANGED << details, tasks, items, fetches, tray, zones, clicked, calls, clicks >>

\* The zone under the pointer says which entry of the list is meant.
Hit(i) == InOrder(tray)[i]

\* forward_item_activation
Forwarded(i) == {[on |-> << zones[i] >>, to |-> << Hit(i) >>]}

\* inspect_dbus_menu: a thread of its own for every question.
Asked(i) == fetches \cup {[id |-> clicks, service |-> Hit(i)]}

\* handle_panel_click, handle_status_notifier_secondary_activate
Activate(i) ==
  /\ clicks < MaxClicks /\ clicks' = clicks + 1
  /\ i \in DOMAIN InOrder(tray)
  /\ clicked' = Forwarded(i)
  /\ menu' \in { menu, Closed }
  /\ UNCHANGED << details, tasks, items, channel, fetches, tray, zones, calls >>

\* handle_status_notifier_context_menu: the click is forwarded, and an item that named a
\* menu is asked for it.
ContextMenu(i) ==
  /\ clicks < MaxClicks /\ clicks' = clicks + 1
  /\ i \in DOMAIN InOrder(tray)
  /\ clicked' = Forwarded(i)
  /\ fetches' \in { fetches, Asked(i) }
  /\ UNCHANGED << details, tasks, items, channel, tray, zones, menu, calls >>

\* hit_item: a row that fits, is enabled and no separator.
HitRow(i) == menu.open /\ i <= MenuRows /\ menu.rows[i].kind = "enabled"

\* activate_menu_item, for a menu that still has its state
Sent(i) == { [on |-> << menu.rows[i].of, menu.rows[i].id >>, to |-> << s, menu.rows[i].id >>] : s \in menu.owner }

\* The menu closes, also when nothing was sent.
ClickRow(i) ==
  /\ clicks < MaxClicks /\ clicks' = clicks + 1
  /\ HitRow(i)
  /\ clicked' = Sent(i)
  /\ menu' = Closed
  /\ UNCHANGED << details, tasks, items, channel, fetches, tray, zones, calls >>

\* close_status_notifier_menu
CloseMenu ==
  /\ menu.open /\ menu' = Closed
  /\ UNCHANGED << details, tasks, items, channel, fetches, tray, zones, clicked, calls, clicks >>

Next ==
  \/ \E s \in Services : DetailsChange(s) \/ Register(s)
  \/ \E t \in tasks : Resolve(t) \/ List(t)
  \/ \E f \in fetches : Fetched(f)
  \/ \E i \in DOMAIN zones : Activate(i) \/ ContextMenu(i)
  \/ \E i \in DOMAIN menu.rows : ClickRow(i)
  \/ ItemsChanged \/ MenuLayout \/ CloseMenu

Spec == Init /\ [][Next]_vars
-----------------------------------------------------------------------------
(* Properties                                                              *)

\* A click on an icon, or on a row of a menu, never reaches another application than the one
\* whose icon or row is on the screen there, however lists and menus overtake each other.
\* (It may reach none: the first list that arrives takes the state from an open menu.)
ReachesWhatIsDrawn == \A c \in clicked : c.to = c.on

\* When no registration is under way and the channel is empty, the panel shows the
\* applications that are listed, with the details of the registration that was listed last.
TraySettles ==
  (tasks = {} /\ \A i \in DOMAIN channel : channel[i].kind # "items") =>
    tray = items /\ zones = Drawn(items)
=============================================================================

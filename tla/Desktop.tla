------------------------------ MODULE Desktop ------------------------------
(***************************************************************************)
(* The windows of the compositor: on which workspace a window is mapped,   *)
(* which one has the keyboard, what the pointer drags, which ones are      *)
(* minimised, and the list of windows the shell keeps from the compositor's*)
(* events.  An xdg window and an X11 window have different handlers for    *)
(* the same operation; both are here.  Locations and sizes are left out:   *)
(* what matters of a geometry is whether one is remembered.  The stacking  *)
(* order of a space is left out too: the top window that inherits the      *)
(* keyboard is any window of the space.                                    *)
(***************************************************************************)
EXTENDS Naturals, FiniteSets

CONSTANTS Xdg,         \* xdg toplevels
          X11,         \* managed X11 windows
          Workspaces,  \* the nine workspaces of the program, fewer here
          NoWindow     \* no window: no focus

Windows == Xdg \cup X11

ASSUME WindowsAssumption == /\ Xdg \cap X11 = {} /\ NoWindow \notin Windows
                            /\ Workspaces # {} /\ IsFiniteSet(Workspaces)
                            /\ Workspaces \subseteq Nat

VARIABLES
  life,       \* "new", "up", "down" (an X11 window that was withdrawn), "gone"
  active,     \* workspaces.active
  space,      \* workspaces.spaces: the windows mapped on each workspace
  minimized,  \* minimized_windows: a window -> the workspace it left
  maximized,  \* windows with the maximised state, pending or committed
  fullscreen, \* windows with the fullscreen state
  snapped,    \* active_window_snap_states
  halfRestore,\* keys of half_snap_restore_locations
  focus,      \* the keyboard's current focus
  grab,       \* what holds the pointer
  list,       \* the shell's windows: a window -> the workspace it is shown on
  shellFocus  \* the shell's focused_window_id

vars == << life, active, space, minimized, maximized, fullscreen, snapped,
           halfRestore, focus, grab, list, shellFocus >>

NoGrab == [kind |-> "none", win |-> NoWindow, ws |-> CHOOSE s \in Workspaces : TRUE,
           restore |-> FALSE]

GrabSpace == [kind : {"none", "click", "move", "resize"}, win : Windows \cup {NoWindow},
              ws : Workspaces, restore : BOOLEAN]

PartialMap == UNION { [D -> Workspaces] : D \in SUBSET Windows }

Init == /\ life = [w \in Windows |-> "new"]
        /\ active \in Workspaces
        /\ space = [s \in Workspaces |-> {}]
        /\ minimized = << >> /\ list = << >>
        /\ maximized = {} /\ fullscreen = {} /\ snapped = {} /\ halfRestore = {}
        /\ focus = NoWindow /\ shellFocus = NoWindow
        /\ grab = NoGrab
-----------------------------------------------------------------------------
(* Operators on the state.                                                 *)

Shown(w) == w \in space[active]

Mapped(w) == { s \in Workspaces : w \in space[s] }

\* In how many places a window is: the spaces and the minimised windows.
PlaceCount(w) == Cardinality(Mapped(w)) + (IF w \in DOMAIN minimized THEN 1 ELSE 0)

\* Space::map_element: into the workspace s, wherever else the window may be.
MapInto(sp, w, s) == [sp EXCEPT ![s] = @ \cup {w}]

\* Space::refresh: a space forgets the elements that are no longer alive.
Refreshed(sp, s) == [sp EXCEPT ![s] = { w \in @ : life[w] # "gone" }]

Drop(f, w) == [v \in DOMAIN f \ {w} |-> f[v]]

Put(f, w, s) == [v \in DOMAIN f \cup {w} |-> IF v = w THEN s ELSE f[v]]

\* The entries of a full snapshot: the spaces in order, each id once, then the
\* minimised windows whose id was not seen.
Snapshot(sp, min) ==
  LET mapped == UNION { sp[s] : s \in Workspaces }
      first(w) == CHOOSE s \in Workspaces : /\ w \in sp[s]
                                            /\ \A t \in Workspaces : w \in sp[t] => s <= t
  IN  [w \in mapped \cup DOMAIN min |-> IF w \in mapped THEN first(w) ELSE min[w]]

\* What the shell makes of a snapshot: the new list, and the focus if it is on it.
ShellTakes(snapshot, f) == /\ list' = snapshot
                           /\ shellFocus' = IF f \in DOMAIN snapshot THEN f ELSE NoWindow

\* A WindowOpened event, of a new window or of a new title: the shell shows the
\* window on the workspace it believes active.
Opened(w) == Put(list, w, active)

\* A WindowClosed event.
ShellForgets(w) == /\ list' = Drop(list, w)
                   /\ shellFocus' = IF shellFocus = w THEN NoWindow ELSE shellFocus

\* clear_window_runtime_state
Cleared(w) == /\ minimized' = Drop(minimized, w)
              /\ halfRestore' = halfRestore \ {w}
              /\ snapped' = snapped \ {w}

Focus(w) == focus' = w /\ shellFocus' = w

Places == << space, minimized >>
Flags  == << maximized, fullscreen, snapped, halfRestore >>
Shell  == << list, shellFocus >>
-----------------------------------------------------------------------------
(* The life of a window.                                                   *)

\* handle_new_toplevel: announced, mapped on the active workspace, focused.
NewToplevel(w) ==
  /\ w \in Xdg /\ life[w] = "new"
  /\ life' = [life EXCEPT ![w] = "up"]
  /\ space' = MapInto(space, w, active)
  /\ \/ maximized' = maximized \cup {w}
     \/ UNCHANGED maximized
  /\ list' = Opened(w)
  /\ Focus(w)
  /\ UNCHANGED << active, minimized, fullscreen, snapped, halfRestore, grab >>

\* handle_toplevel_destroyed: the window's space keeps it until it is refreshed;
\* the keyboard is not given to another window.
ToplevelDestroyed(w) ==
  /\ w \in Xdg /\ life[w] = "up"
  /\ life' = [life EXCEPT ![w] = "gone"]
  /\ Cleared(w)
  /\ ShellForgets(w)
  /\ maximized' = maximized \ {w} /\ fullscreen' = fullscreen \ {w}
  /\ UNCHANGED << active, space, focus, grab >>

\* apply_initial_x11_maximized_geometry: a window as large as the output starts maximised.
StartsMaximized(w) == maximized' \in { maximized, maximized \cup {w} }

\* map_window_request: an X11 window gets no keyboard focus when it is mapped.
X11Map(w) ==
  /\ w \in X11 /\ life[w] \in {"new", "down"}
  /\ life' = [life EXCEPT ![w] = "up"]
  /\ space' = MapInto(space, w, active)
  /\ StartsMaximized(w)
  /\ list' = Opened(w)
  /\ UNCHANGED << active, minimized, fullscreen, snapped, halfRestore, focus, grab,
                  shellFocus >>

\* unmapped_window: every workspace is searched; a window found on none (it is
\* minimised) keeps its place among the minimised windows and in the list.
X11Unmap(w) ==
  /\ w \in X11 /\ life[w] = "up"
  /\ life' = [life EXCEPT ![w] = "down"]
  /\ \/ /\ Mapped(w) # {}
        /\ \E s \in Mapped(w) : /\ \A t \in Mapped(w) : s <= t
                                /\ space' = [space EXCEPT ![s] = @ \ {w}]
        /\ Cleared(w)
        /\ ShellForgets(w)
     \/ /\ Mapped(w) = {}
        /\ UNCHANGED << Places, snapped, halfRestore, Shell >>
  /\ focus' = IF focus = w THEN NoWindow ELSE focus
  /\ UNCHANGED << active, maximized, fullscreen, grab >>

\* destroyed_window
X11Destroyed(w) ==
  /\ w \in X11 /\ life[w] \in {"up", "down"}
  /\ life' = [life EXCEPT ![w] = "gone"]
  /\ space' = IF Mapped(w) = {} THEN space
              ELSE LET s == CHOOSE s \in Mapped(w) : \A t \in Mapped(w) : s <= t
                   IN  [space EXCEPT ![s] = @ \ {w}]
  /\ Cleared(w)
  /\ ShellForgets(w)
  /\ maximized' = maximized \ {w} /\ fullscreen' = fullscreen \ {w}
  /\ UNCHANGED << active, focus, grab >>

\* handle_surface_metadata_changed of an xdg window; property_notify of an X11 one.
TitleChanged(w) ==
  /\ life[w] = "up"
  /\ \/ w \in Xdg /\ list' = Opened(w) /\ UNCHANGED shellFocus
     \/ w \in X11 /\ ShellTakes(Snapshot(space, minimized), shellFocus)
  /\ UNCHANGED << life, active, Places, Flags, focus, grab >>

\* The space on the screen is refreshed before every frame.
RenderRefresh ==
  /\ space' = Refreshed(space, active)
  /\ UNCHANGED << life, active, minimized, Flags, focus, grab, Shell >>
-----------------------------------------------------------------------------
(* Maximised, fullscreen, minimised.                                       *)

\* handle_maximize_request marks the window wherever it is and moves it if it is on
\* the active workspace; apply_x11_maximize does nothing to a window that is not.
Maximize(w, sp) ==
  /\ maximized' = IF w \in Xdg \/ Shown(w) THEN maximized \cup {w} ELSE maximized
  /\ space' = IF Shown(w) THEN MapInto(sp, w, active) ELSE sp

MaximizeRequest(w) ==
  /\ life[w] = "up"
  /\ Maximize(w, space)
  /\ UNCHANGED << life, active, minimized, fullscreen, snapped, halfRestore, focus, grab,
                  Shell >>

\* handle_unmaximize_request, apply_x11_unmaximize
Unmaximized(w) == IF w \in Xdg \/ Shown(w) THEN maximized \ {w} ELSE maximized

UnmaximizeRequest(w) ==
  /\ life[w] = "up"
  /\ maximized' = Unmaximized(w)
  /\ UNCHANGED << life, active, Places, fullscreen, snapped, halfRestore, focus, grab, Shell >>

\* handle_fullscreen_request, handle_unfullscreen_request: on whatever workspace it is.
FullscreenRequest(w) ==
  /\ w \in Xdg /\ life[w] = "up"
  /\ fullscreen' \in { fullscreen \cup {w}, fullscreen \ {w} }
  /\ UNCHANGED << life, active, Places, maximized, snapped, halfRestore, focus, grab, Shell >>

\* fullscreen_request, unfullscreen_request of an X11 window.
X11FullscreenRequest(w) ==
  /\ w \in X11 /\ Shown(w)
  /\ fullscreen' \in { fullscreen \cup {w}, fullscreen \ {w} }
  /\ UNCHANGED << life, active, Places, maximized, snapped, halfRestore, focus, grab, Shell >>

\* Mutant: the minimised window stays mapped.
MinimizeKeepsMapped(w, s) ==
  /\ minimized' = Put(minimized, w, s)
  /\ focus' = IF focus = w THEN NoWindow ELSE focus
  /\ ShellTakes(Snapshot(space, minimized'), focus')
  /\ UNCHANGED space

\* handle_minimize_request and the minimise button look at the active workspace only,
\* minimize_request of an X11 window at all of them.  A window that had the keyboard
\* passes it to another window of its workspace.
Minimize(w, s) ==
  LET left == space[s] \ {w} IN
  /\ minimized' = Put(minimized, w, s)
  /\ space' = [space EXCEPT ![s] = left]
  /\ \/ /\ focus # w
        /\ UNCHANGED focus
        /\ ShellTakes(Snapshot(space', minimized'), shellFocus)
     \/ /\ focus = w
        /\ \/ \E top \in { v \in left : life[v] = "up" } :
                 /\ focus' = top
                 /\ ShellTakes(Snapshot(space', minimized'), top)
           \/ /\ \A v \in left : life[v] # "up"
              /\ focus' = NoWindow
              /\ ShellTakes(Snapshot(space', minimized'), NoWindow)

MinimizeRequest(w) ==
  /\ life[w] = "up"
  /\ \/ w \in Xdg /\ Shown(w) /\ Minimize(w, active)
     \/ /\ w \in X11
        /\ \E s \in Mapped(w) : (\A t \in Mapped(w) : s <= t) /\ Minimize(w, s)
  /\ UNCHANGED << life, active, Flags, grab >>

\* Mutant: the window is taken out of the minimised ones and mapped nowhere unless its
\* workspace is shown.
UnminimizeIfShown(w) ==
  /\ w \in X11 /\ life[w] = "up" /\ w \in DOMAIN minimized
  /\ minimized' = Drop(minimized, w)
  /\ space' = IF minimized[w] = active THEN MapInto(space, w, active) ELSE space
  /\ focus' = IF minimized[w] = active THEN w ELSE focus
  /\ ShellTakes(Snapshot(space', minimized'), focus')
  /\ UNCHANGED << life, active, Flags, grab >>

\* unminimize_request: mapped where it was minimised, focused only if that is shown.
X11Unminimize(w) ==
  /\ w \in X11 /\ life[w] = "up" /\ w \in DOMAIN minimized
  /\ minimized' = Drop(minimized, w)
  /\ space' = MapInto(space, w, minimized[w])
  /\ \/ /\ minimized[w] = active
        /\ focus' = w
        /\ ShellTakes(Snapshot(space', minimized'), w)
     \/ /\ minimized[w] # active
        /\ UNCHANGED focus
        /\ ShellTakes(Snapshot(space', minimized'), shellFocus)
  /\ UNCHANGED << life, active, Flags, grab >>

\* focus_window_by_id, from the shell's task bar: a window of the active workspace is
\* raised, a minimised one of it is put back, any other request is ignored.
FocusWindow(w) ==
  /\ w \in DOMAIN list
  /\ \/ /\ Shown(w)
        /\ \/ life[w] # "down" /\ Focus(w)
           \/ life[w] = "down" /\ UNCHANGED << focus, shellFocus >>
        /\ UNCHANGED << Places, list >>
     \/ /\ ~ Shown(w) /\ w \in DOMAIN minimized /\ minimized[w] = active
        /\ minimized' = Drop(minimized, w)
        /\ space' = MapInto(space, w, active)
        /\ focus' = IF life[w] = "down" THEN focus ELSE w
        /\ ShellTakes(Snapshot(space', minimized'),
                      IF life[w] = "down" THEN shellFocus ELSE w)
  /\ UNCHANGED << life, active, Flags, grab >>
-----------------------------------------------------------------------------
(* Workspaces.                                                             *)

\* Mutant: the keyboard stays where it was.
SwitchKeepsFocus(s) ==
  /\ grab.kind = "none" /\ s # active
  /\ active' = s
  /\ space' = Refreshed(Refreshed(space, active), s)
  /\ ShellTakes(Snapshot(space', minimized), shellFocus)
  /\ UNCHANGED << life, minimized, focus, Flags, grab >>

\* switch_workspace, switch_workspace_for_focused_output: not while the pointer is held.
SwitchWorkspace(s) ==
  /\ grab.kind = "none" /\ s # active
  /\ active' = s
  /\ space' = Refreshed(Refreshed(space, active), s)
  /\ focus' = NoWindow
  /\ ShellTakes(Snapshot(space', minimized), NoWindow)
  /\ UNCHANGED << life, minimized, Flags, grab >>

\* move_focused_window_to_workspace_consistent: the focused xdg window, whatever the
\* pointer holds.
MoveToWorkspace(s) ==
  /\ focus \in Xdg
  /\ \E source \in Mapped(focus) :
       /\ \A t \in Mapped(focus) : source <= t
       /\ source # s
       /\ LET moved == MapInto([space EXCEPT ![source] = @ \ {focus}], focus, s)
          IN  space' = Refreshed(Refreshed(moved, source), s)
  /\ focus' = NoWindow
  /\ ShellTakes(Snapshot(space', minimized), NoWindow)
  /\ UNCHANGED << life, active, minimized, Flags, grab >>
-----------------------------------------------------------------------------
(* The pointer.                                                            *)

\* A press on a window's content: it is raised and focused, and the button holds the
\* pointer.  A press on nothing takes the keyboard away.
Press(w) ==
  /\ grab.kind = "none" /\ Shown(w) /\ life[w] = "up"
  /\ Focus(w)
  /\ grab' = [NoGrab EXCEPT !.kind = "click", !.win = w]
  /\ UNCHANGED << life, active, Places, Flags, list >>

PressDesktop ==
  /\ grab.kind = "none"
  /\ focus' = NoWindow /\ shellFocus' = NoWindow
  /\ grab' = [NoGrab EXCEPT !.kind = "click"]
  /\ UNCHANGED << life, active, Places, Flags, list >>

MoveGrab(w) == [kind |-> "move", win |-> w, ws |-> active,
                restore |-> w \in maximized /\ w \notin fullscreen]

\* A press on the title bar or the frame.
PressFrame(w) ==
  /\ grab.kind = "none" /\ Shown(w) /\ life[w] = "up"
  /\ Focus(w)
  /\ \/ grab' = MoveGrab(w) /\ UNCHANGED maximized
     \/ /\ grab' = [NoGrab EXCEPT !.kind = "resize", !.win = w]
        /\ maximized' = IF w \in X11 THEN maximized \ {w} ELSE maximized
  /\ UNCHANGED << life, active, Places, fullscreen, snapped, halfRestore, list >>

\* handle_move_request, handle_resize_request: a client's own title bar, with the serial
\* of the press that still holds the pointer.
ClientGrab ==
  /\ grab.kind = "click" /\ grab.win # NoWindow
  /\ LET w == grab.win IN
     /\ Shown(w) /\ life[w] = "up"
     /\ \/ grab' = MoveGrab(w) /\ UNCHANGED maximized
        \/ /\ grab' = [NoGrab EXCEPT !.kind = "resize", !.win = w]
           /\ maximized' = IF w \in X11 THEN maximized \ {w} ELSE maximized
  /\ UNCHANGED << life, active, Places, fullscreen, snapped, halfRestore, focus, Shell >>

\* The first motions of a drag give a maximised or snapped window its size back.
DragRestore(w) ==
  \/ /\ grab.restore
     /\ maximized' = Unmaximized(w)
     /\ grab' = [grab EXCEPT !.restore = FALSE]
     /\ UNCHANGED << snapped, halfRestore >>
  \/ /\ ~ grab.restore
     /\ snapped' = snapped \ {w} /\ halfRestore' = halfRestore \ {w}
     /\ maximized' = IF w \in snapped THEN maximized \ {w} ELSE maximized
     /\ UNCHANGED grab

\* MoveSurfaceGrab::motion: the window is mapped on the workspace where the drag began.
DragMotion ==
  /\ grab.kind = "move"
  /\ DragRestore(grab.win)
  /\ space' = MapInto(space, grab.win, grab.ws)
  /\ UNCHANGED << life, active, minimized, fullscreen, focus, Shell >>

\* MoveSurfaceGrab::button: a release at an edge maximises the window or snaps it to half
\* of the active workspace, if the drag began there.
ReleaseAtEdge(w) ==
  \/ /\ w \in Xdg /\ w \notin maximized \cup fullscreen
     /\ life[w] = "up"
     /\ Maximize(w, space)
     /\ UNCHANGED << snapped, halfRestore >>
  \/ /\ w \in X11 => w \notin fullscreen
     /\ space' = MapInto(space, w, active)
     /\ halfRestore' = IF Shown(w) THEN halfRestore \cup {w} ELSE halfRestore
     /\ \/ w \in Xdg /\ snapped' = snapped \cup {w} /\ maximized' = maximized \ {w}
        \/ w \in X11 /\ UNCHANGED << snapped, maximized >>

Release ==
  /\ grab.kind # "none"
  /\ grab' = NoGrab
  /\ \/ /\ grab.kind = "move" /\ active = grab.ws
        /\ ReleaseAtEdge(grab.win)
     \/ UNCHANGED << space, maximized, snapped, halfRestore >>
  /\ UNCHANGED << life, active, minimized, fullscreen, focus, Shell >>
-----------------------------------------------------------------------------
Next ==
  \/ \E w \in Windows :
       \/ NewToplevel(w) \/ ToplevelDestroyed(w)
       \/ X11Map(w) \/ X11Unmap(w) \/ X11Destroyed(w)
       \/ TitleChanged(w)
       \/ MaximizeRequest(w) \/ UnmaximizeRequest(w)
       \/ FullscreenRequest(w) \/ X11FullscreenRequest(w)
       \/ MinimizeRequest(w) \/ X11Unminimize(w) \/ FocusWindow(w)
       \/ Press(w) \/ PressFrame(w)
  \/ \E s \in Workspaces : SwitchWorkspace(s) \/ MoveToWorkspace(s)
  \/ RenderRefresh \/ PressDesktop \/ ClientGrab \/ DragMotion \/ Release

Spec == Init /\ [][Next]_vars
-----------------------------------------------------------------------------
TypeOK ==
  /\ life \in [Windows -> {"new", "up", "down", "gone"}]
  /\ active \in Workspaces
  /\ space \in [Workspaces -> SUBSET Windows]
  /\ minimized \in PartialMap /\ list \in PartialMap
  /\ maximized \subseteq Windows /\ fullscreen \subseteq Windows
  /\ snapped \subseteq Windows /\ halfRestore \subseteq Windows
  /\ focus \in Windows \cup {NoWindow} /\ shellFocus \in Windows \cup {NoWindow}
  /\ grab \in GrabSpace
  /\ \A w \in DOMAIN minimized : life[w] # "gone"

\* A focused window that still exists is mapped on the active workspace.
FocusVisible == focus # NoWindow /\ life[focus] = "up" => Shown(focus)

\* The keyboard never comes to type into a window that is not on the screen, through
\* switches, moves to another workspace, minimising, drags and requests from the task
\* bar, as long as no window is in two places (see OnlyTheDragDuplicates).
FocusStaysVisible ==
  [][FocusVisible /\ (\A w \in Windows : PlaceCount(w) <= 1) => FocusVisible']_vars

\* No window is lost: one that exists is on some workspace or minimised, and the task
\* bar lists it, so the user can get it back.
NoneLost == \A w \in Windows : life[w] = "up" =>
               /\ Mapped(w) # {} \/ w \in DOMAIN minimized
               /\ w \in DOMAIN list

\* Only the drag of a window, and an X11 window mapped again after it was withdrawn while
\* minimised, puts it in a second place; no other handler leaves the window where it
\* was when it maps it elsewhere.
DuplicatesStep ==
  \A w \in Windows : PlaceCount(w) <= 1 /\ PlaceCount(w)' > 1
                        => \/ grab.kind = "move" /\ grab.win = w
                           \/ life[w] = "down"

OnlyTheDragDuplicates == [][DuplicatesStep]_vars
=============================================================================

--------------------------- MODULE DesktopProofs ---------------------------
(***************************************************************************)
(* Theorems about Desktop for any number of windows and workspaces.        *)
(*                                                                         *)
(* NoneLost needs to know more than where the windows are: a window that   *)
(* has never been mapped is on no workspace and not minimised (NewIs-      *)
(* Nowhere), and one that is dragged has been mapped (GrabHolds), so that  *)
(* dropping it on another workspace puts nothing there that is not in the  *)
(* list.  The two action properties then follow action by action.          *)
(***************************************************************************)
EXTENDS Desktop, FiniteSetTheorems, LoopInduction, TLAPS

SpaceType == [Workspaces -> SUBSET Windows]

-----------------------------------------------------------------------------
(* What the operators on the state do.                                     *)

LEMMA LeastWorkspace ==
    ASSUME NEW S \in SUBSET Workspaces, S # {}
    PROVE  \E s \in S : \A t \in S : s <= t
BY LeastNat, WindowsAssumption

LEMMA MappedInto ==
    ASSUME NEW sp \in SpaceType, NEW w \in Windows, NEW s \in Workspaces
    PROVE  /\ MapInto(sp, w, s) \in SpaceType
           /\ \A t \in Workspaces : \A v \in Windows :
                 v \in MapInto(sp, w, s)[t] <=> v \in sp[t] \/ (v = w /\ t = s)
BY DEF MapInto, SpaceType

LEMMA TakenFrom ==
    ASSUME NEW sp \in SpaceType, NEW w, NEW s
    PROVE  /\ [sp EXCEPT ![s] = @ \ {w}] \in SpaceType
           /\ \A t \in Workspaces : \A v \in Windows :
                 v \in [sp EXCEPT ![s] = @ \ {w}][t] <=> v \in sp[t] /\ ~ (v = w /\ t = s)
BY DEF SpaceType

LEMMA RefreshKeepsLiving ==
    ASSUME NEW sp \in SpaceType, NEW s
    PROVE  /\ Refreshed(sp, s) \in SpaceType
           /\ \A t \in Workspaces : \A v \in Windows :
                 v \in Refreshed(sp, s)[t] <=> v \in sp[t] /\ (t = s => life[v] # "gone")
BY DEF Refreshed, SpaceType

LEMMA DropIs ==
    ASSUME NEW f \in PartialMap, NEW w
    PROVE  /\ Drop(f, w) \in PartialMap
           /\ DOMAIN Drop(f, w) = DOMAIN f \ {w}
<1>1. DOMAIN f \subseteq Windows /\ \A v \in DOMAIN f : f[v] \in Workspaces  BY DEF PartialMap
<1>2. DOMAIN Drop(f, w) = DOMAIN f \ {w}  BY DEF Drop
<1>3. Drop(f, w) \in [DOMAIN f \ {w} -> Workspaces]  BY <1>1 DEF Drop
<1> QED  BY <1>1, <1>2, <1>3 DEF PartialMap

LEMMA PutIs ==
    ASSUME NEW f \in PartialMap, NEW w \in Windows, NEW s \in Workspaces
    PROVE  /\ Put(f, w, s) \in PartialMap
           /\ DOMAIN Put(f, w, s) = DOMAIN f \cup {w}
<1>1. DOMAIN f \subseteq Windows /\ \A v \in DOMAIN f : f[v] \in Workspaces  BY DEF PartialMap
<1>2. DOMAIN Put(f, w, s) = DOMAIN f \cup {w}  BY DEF Put
<1>3. Put(f, w, s) \in [DOMAIN f \cup {w} -> Workspaces]  BY <1>1 DEF Put
<1> QED  BY <1>1, <1>2, <1>3 DEF PartialMap

LEMMA SnapshotIs ==
    ASSUME NEW sp \in SpaceType, NEW min \in PartialMap
    PROVE  /\ Snapshot(sp, min) \in PartialMap
           /\ \A w \in Windows :
                 w \in DOMAIN Snapshot(sp, min)
                     <=> (\E s \in Workspaces : w \in sp[s]) \/ w \in DOMAIN min
<1> DEFINE mapped == UNION { sp[s] : s \in Workspaces }
           first(w) == CHOOSE s \in Workspaces :
                          /\ w \in sp[s]
                          /\ \A t \in Workspaces : w \in sp[t] => s <= t
           snap == [w \in mapped \cup DOMAIN min |-> IF w \in mapped THEN first(w) ELSE min[w]]
<1>1. Snapshot(sp, min) = snap  BY DEF Snapshot
<1>2. mapped \subseteq Windows  BY DEF SpaceType
<1>3. DOMAIN min \subseteq Windows /\ \A v \in DOMAIN min : min[v] \in Workspaces
  BY DEF PartialMap
<1>4. ASSUME NEW w \in mapped PROVE first(w) \in Workspaces
  <2> DEFINE has == { t \in Workspaces : w \in sp[t] }
  <2>1. has # {}  OBVIOUS
  <2>2. PICK s \in has : \A t \in has : s <= t
    BY <2>1, LeastWorkspace
  <2> QED  BY <2>2
<1>5. snap \in [mapped \cup DOMAIN min -> Workspaces]
  <2> HIDE DEF first, mapped
  <2> QED  BY <1>3, <1>4
<1>6. snap \in PartialMap
  <2> HIDE DEF snap
  <2> QED  BY <1>2, <1>3, <1>5 DEF PartialMap
<1>7. \A w \in Windows : w \in mapped <=> \E s \in Workspaces : w \in sp[s]  OBVIOUS
<1>8. DOMAIN snap = mapped \cup DOMAIN min  OBVIOUS
<1> HIDE DEF snap, mapped
<1> QED  BY <1>1, <1>6, <1>7, <1>8

LEMMA NothingMapped == << >> \in PartialMap
<1>1. << >> \in [{} -> Workspaces]  OBVIOUS
<1> QED  BY <1>1 DEF PartialMap

LEMMA NoGrabType == NoGrab \in GrabSpace
BY WindowsAssumption DEF NoGrab, GrabSpace

-----------------------------------------------------------------------------
(* The inductive invariant.                                                *)

(* A window that was never mapped is nowhere. *)
NewIsNowhere ==
    \A w \in Windows : life[w] = "new" => Mapped(w) = {} /\ w \notin DOMAIN minimized

(* What is dragged is a window that was mapped once. *)
GrabHolds == grab.kind = "move" => grab.win \in Windows /\ life[grab.win] # "new"

DesktopInv == TypeOK /\ NoneLost /\ NewIsNowhere /\ GrabHolds

LEMMA InitDesktop == Init => DesktopInv
<1> SUFFICES ASSUME Init PROVE DesktopInv  OBVIOUS
<1>1. TypeOK
  BY NothingMapped, NoGrabType, WindowsAssumption DEF Init, TypeOK
<1>2. NoneLost  BY DEF Init, NoneLost
<1>3. NewIsNowhere  BY DEF Init, NewIsNowhere, Mapped
<1>4. GrabHolds  BY DEF Init, GrabHolds, NoGrab
<1> QED  BY <1>1, <1>2, <1>3, <1>4 DEF DesktopInv

(* A window that was never mapped is not where a step that leaves such     *)
(* windows alone could have brought it.                                    *)
LEMMA Unmoved ==
    ASSUME DesktopInv,
           \A v \in Windows : life'[v] = "new" =>
              /\ life[v] = "new"
              /\ \A s \in Workspaces : v \in space'[s] => v \in space[s]
              /\ v \in DOMAIN minimized' => v \in DOMAIN minimized
    PROVE  NewIsNowhere'
BY DEF DesktopInv, NewIsNowhere, Mapped

(* What the shell takes from a snapshot is typed and lists every window    *)
(* that is somewhere.                                                      *)
LEMMA ShellTakesAll ==
    ASSUME NEW sp \in SpaceType, NEW min \in PartialMap, NEW f \in Windows \cup {NoWindow},
           ShellTakes(Snapshot(sp, min), f)
    PROVE  /\ list' \in PartialMap /\ shellFocus' \in Windows \cup {NoWindow}
           /\ \A w \in Windows : (\E s \in Workspaces : w \in sp[s]) \/ w \in DOMAIN min
                 => w \in DOMAIN list'
BY SnapshotIs DEF ShellTakes

(* A step that keeps every living window somewhere, and listed, loses none. *)
LEMMA StillThere ==
    ASSUME \A v \in Windows : life'[v] = "up" =>
              /\ (\E s \in Workspaces : v \in space'[s]) \/ v \in DOMAIN minimized'
              /\ v \in DOMAIN list'
    PROVE  NoneLost'
BY DEF NoneLost, Mapped

LEMMA Where ==
    ASSUME DesktopInv, NEW v \in Windows, life[v] = "up"
    PROVE  /\ (\E s \in Workspaces : v \in space[s]) \/ v \in DOMAIN minimized
           /\ v \in DOMAIN list
BY DEF DesktopInv, NoneLost, Mapped

-----------------------------------------------------------------------------
(* The life of a window.                                                   *)

(* NewToplevel and X11Map map the window on the active workspace. *)
LEMMA MapKeeps ==
    ASSUME DesktopInv, NEW w \in Windows, NewToplevel(w) \/ X11Map(w)
    PROVE  DesktopInv'
<1> USE DEF SpaceType
<1>1. /\ life' = [life EXCEPT ![w] = "up"] /\ space' = MapInto(space, w, active)
      /\ list' = Put(list, w, active) /\ maximized' \in {maximized, maximized \cup {w}}
      /\ focus' \in {focus, w} /\ shellFocus' \in {shellFocus, w}
      /\ life[w] # "gone"
      /\ UNCHANGED << active, minimized, fullscreen, snapped, halfRestore, grab >>
  BY DEF NewToplevel, X11Map, StartsMaximized, Opened, Focus
<1>2. /\ MapInto(space, w, active) \in SpaceType
      /\ \A t \in Workspaces : \A v \in Windows :
            v \in MapInto(space, w, active)[t] <=> v \in space[t] \/ (v = w /\ t = active)
  BY MappedInto DEF DesktopInv, TypeOK
<1>3. Put(list, w, active) \in PartialMap /\ DOMAIN Put(list, w, active) = DOMAIN list \cup {w}
  BY PutIs DEF DesktopInv, TypeOK
<1>4. TypeOK'
  BY <1>1, <1>2, <1>3 DEF DesktopInv, TypeOK
<1>5. NoneLost'
  <2> SUFFICES ASSUME NEW v \in Windows, life'[v] = "up"
               PROVE  /\ (\E s \in Workspaces : v \in space'[s]) \/ v \in DOMAIN minimized'
                      /\ v \in DOMAIN list'
    BY StillThere
  <2>1. CASE v = w  BY <2>1, <1>1, <1>2, <1>3 DEF DesktopInv, TypeOK
  <2>2. CASE v # w
    <3>1. life[v] = "up"  BY <2>2, <1>1 DEF DesktopInv, TypeOK
    <3> QED  BY <3>1, <1>1, <1>2, <1>3, Where
  <2> QED  BY <2>1, <2>2
<1>6. NewIsNowhere'
  BY <1>1, <1>2, Unmoved DEF DesktopInv, TypeOK
<1>7. GrabHolds'
  BY <1>1 DEF DesktopInv, TypeOK, GrabHolds
<1> QED  BY <1>4, <1>5, <1>6, <1>7 DEF DesktopInv

(* ToplevelDestroyed, X11Unmap and X11Destroyed: the window that leaves    *)
(* takes only itself away.                                                 *)
Ends(w) ==
    /\ life' \in { [life EXCEPT ![w] = "gone"], [life EXCEPT ![w] = "down"] }
    /\ life[w] \in {"up", "down"}
    /\ \E s : space' \in { space, [space EXCEPT ![s] = @ \ {w}] }
    /\ \/ Cleared(w) /\ ShellForgets(w)
       \/ life'[w] = "down" /\ UNCHANGED << minimized, snapped, halfRestore, list, shellFocus >>
    /\ maximized' \subseteq maximized /\ fullscreen' \subseteq fullscreen
    /\ focus' \in {focus, NoWindow}
    /\ UNCHANGED << active, grab >>

LEMMA EndsIs ==
    ASSUME DesktopInv, NEW w \in Windows, ToplevelDestroyed(w) \/ X11Unmap(w) \/ X11Destroyed(w)
    PROVE  Ends(w)
<1>1. CASE ToplevelDestroyed(w)  BY <1>1 DEF ToplevelDestroyed, Ends
<1>2. CASE X11Unmap(w)
  BY <1>2 DEF X11Unmap, Ends, DesktopInv, TypeOK, Places, Shell
<1>3. CASE X11Destroyed(w)  BY <1>3 DEF X11Destroyed, Ends
<1> QED  BY <1>1, <1>2, <1>3

LEMMA EndKeeps ==
    ASSUME DesktopInv, NEW w \in Windows, Ends(w)
    PROVE  DesktopInv'
<1>1. PICK s : space' \in { space, [space EXCEPT ![s] = @ \ {w}] }  BY DEF Ends
<1>2. space' \in SpaceType
  BY <1>1, TakenFrom DEF DesktopInv, TypeOK, SpaceType
<1>3. \A t \in Workspaces : \A v \in Windows :
         /\ v \in space'[t] => v \in space[t]
         /\ v # w /\ v \in space[t] => v \in space'[t]
  BY <1>1, TakenFrom DEF DesktopInv, TypeOK, SpaceType
<1>4. /\ minimized' \in PartialMap /\ list' \in PartialMap
      /\ DOMAIN minimized' \in { DOMAIN minimized, DOMAIN minimized \ {w} }
      /\ DOMAIN list' \in { DOMAIN list, DOMAIN list \ {w} }
      /\ life'[w] = "gone" => w \notin DOMAIN minimized'
  BY DropIs DEF Ends, Cleared, ShellForgets, DesktopInv, TypeOK
<1>5. TypeOK'
  <2>1. /\ life' \in [Windows -> {"new", "up", "down", "gone"}]
        /\ \A v \in Windows : v # w => life'[v] = life[v]
    BY DEF Ends, DesktopInv, TypeOK
  <2>2. \A v \in DOMAIN minimized' : life'[v] # "gone"
    BY <2>1, <1>4 DEF DesktopInv, TypeOK, PartialMap
  <2>3. snapped' \subseteq Windows /\ halfRestore' \subseteq Windows
        /\ shellFocus' \in Windows \cup {NoWindow}
    BY DEF Ends, Cleared, ShellForgets, DesktopInv, TypeOK
  <2> QED  BY <2>1, <2>2, <2>3, <1>2, <1>4 DEF Ends, DesktopInv, TypeOK, SpaceType
<1>6. NoneLost'
  <2> SUFFICES ASSUME NEW v \in Windows, life'[v] = "up"
               PROVE  /\ (\E t \in Workspaces : v \in space'[t]) \/ v \in DOMAIN minimized'
                      /\ v \in DOMAIN list'
    BY StillThere
  <2>1. v # w /\ life[v] = "up"  BY DEF Ends, DesktopInv, TypeOK
  <2> QED  BY <2>1, <1>3, <1>4, Where
<1>7. NewIsNowhere'
  <2>1. \A v \in Windows : life'[v] = "new" => life[v] = "new" /\ v # w
    BY DEF Ends, DesktopInv, TypeOK
  <2> QED  BY <2>1, <1>3, <1>4, Unmoved
<1>8. GrabHolds'
  BY DEF Ends, DesktopInv, TypeOK, GrabHolds
<1> QED  BY <1>5, <1>6, <1>7, <1>8 DEF DesktopInv

-----------------------------------------------------------------------------
(* The steps that leave the lives of the windows alone.                    *)

Somewhere(v, sp, min) == (\E s \in Workspaces : v \in sp[s]) \/ v \in DOMAIN min

(* Where windows are may change, as long as a living one stays somewhere   *)
(* and a new one nowhere; the shell keeps its list or takes a snapshot.    *)
Rearranges ==
    /\ life' = life
    /\ space' \in SpaceType /\ minimized' \in PartialMap
    /\ \A v \in Windows :
          /\ life[v] = "up" => Somewhere(v, space', minimized')
          /\ Somewhere(v, space', minimized') => Somewhere(v, space, minimized) \/ life[v] # "new"
          /\ v \in DOMAIN minimized' => life[v] # "gone"
    /\ \/ list' = list
       \/ \E f \in Windows \cup {NoWindow} : ShellTakes(Snapshot(space', minimized'), f)

RestTyped ==
    /\ active' \in Workspaces
    /\ maximized' \subseteq Windows /\ fullscreen' \subseteq Windows
    /\ snapped' \subseteq Windows /\ halfRestore' \subseteq Windows
    /\ focus' \in Windows \cup {NoWindow} /\ shellFocus' \in Windows \cup {NoWindow}
    /\ grab' \in GrabSpace
    /\ grab'.kind = "move" => grab'.win \in Windows /\ life[grab'.win] # "new"

LEMMA RearrangeKeeps ==
    ASSUME DesktopInv, Rearranges, RestTyped
    PROVE  DesktopInv'
<1>1. list' \in PartialMap
  BY ShellTakesAll DEF Rearranges, DesktopInv, TypeOK
<1>2. \A v \in Windows : life[v] = "up" => v \in DOMAIN list'
  <2> SUFFICES ASSUME NEW v \in Windows, life[v] = "up" PROVE v \in DOMAIN list'  OBVIOUS
  <2>1. CASE list' = list  BY <2>1, Where
  <2>2. ASSUME NEW f \in Windows \cup {NoWindow}, ShellTakes(Snapshot(space', minimized'), f)
        PROVE  v \in DOMAIN list'
    BY <2>2, ShellTakesAll DEF Rearranges, Somewhere
  <2> QED  BY <2>1, <2>2 DEF Rearranges
<1>3. TypeOK'
  BY <1>1 DEF Rearranges, RestTyped, DesktopInv, TypeOK, SpaceType, PartialMap
<1>4. NoneLost'
  BY <1>2, StillThere DEF Rearranges, Somewhere
<1>5. NewIsNowhere'
  BY DEF Rearranges, Somewhere, DesktopInv, NewIsNowhere, Mapped
<1>6. GrabHolds'
  BY DEF Rearranges, RestTyped, GrabHolds
<1> QED  BY <1>3, <1>4, <1>5, <1>6 DEF DesktopInv

(* Nothing moves. *)
LEMMA StaysKeeps ==
    ASSUME DesktopInv, life' = life, space' = space, minimized' = minimized, list' = list,
           RestTyped
    PROVE  DesktopInv'
<1>1. Rearranges
  BY Where DEF Rearranges, Somewhere, DesktopInv, TypeOK, SpaceType
<1> QED  BY <1>1, RearrangeKeeps

(* The window w is mapped on s too, or its request did nothing. *)
LEMMA MappedKeeps ==
    ASSUME DesktopInv, NEW w \in Windows, life[w] # "new", NEW s \in Workspaces,
           space' \in { space, MapInto(space, w, s) },
           life' = life, minimized' = minimized, list' = list, RestTyped
    PROVE  DesktopInv'
<1>1. space' \in SpaceType
  BY MappedInto DEF DesktopInv, TypeOK, SpaceType
<1>2. \A t \in Workspaces : \A v \in Windows :
         /\ v \in space[t] => v \in space'[t]
         /\ v \in space'[t] => v \in space[t] \/ v = w
  BY MappedInto DEF DesktopInv, TypeOK, SpaceType
<1>3. Rearranges
  BY <1>1, <1>2, Where DEF Rearranges, Somewhere, DesktopInv, TypeOK
<1> QED  BY <1>3, RearrangeKeeps

LEMMA QuietKeeps ==
    ASSUME DesktopInv, NEW w \in Windows,
           \/ UnmaximizeRequest(w) \/ FullscreenRequest(w) \/ X11FullscreenRequest(w)
           \/ Press(w) \/ PressFrame(w) \/ PressDesktop \/ ClientGrab
    PROVE  DesktopInv'
<1> USE DEF DesktopInv, TypeOK, RestTyped, GrabHolds
<1>1. CASE UnmaximizeRequest(w)
  BY <1>1, StaysKeeps DEF UnmaximizeRequest, Unmaximized, Places, Shell
<1>2. CASE FullscreenRequest(w)
  BY <1>2, StaysKeeps DEF FullscreenRequest, Places, Shell
<1>3. CASE X11FullscreenRequest(w)
  BY <1>3, StaysKeeps DEF X11FullscreenRequest, Places, Shell
<1>4. \A v \in Windows \cup {NoWindow} :
         /\ [NoGrab EXCEPT !.kind = "click", !.win = v] \in GrabSpace
         /\ [NoGrab EXCEPT !.kind = "resize", !.win = v] \in GrabSpace
         /\ [NoGrab EXCEPT !.kind = "click", !.win = v].kind = "click"
         /\ [NoGrab EXCEPT !.kind = "resize", !.win = v].kind = "resize"
         /\ [NoGrab EXCEPT !.kind = "click"] \in GrabSpace
         /\ [NoGrab EXCEPT !.kind = "click"].kind = "click"
  BY NoGrabType DEF GrabSpace
<1>5. \A v \in Windows : /\ MoveGrab(v) \in GrabSpace
                         /\ MoveGrab(v).win = v
  BY DEF MoveGrab, GrabSpace
<1>6. CASE Press(w)
  BY <1>4, <1>6, StaysKeeps DEF Press, Focus, Places, Flags
<1>7. CASE PressDesktop
  BY <1>4, <1>7, StaysKeeps DEF PressDesktop, Places, Flags
<1>8. CASE PressFrame(w)
  <2>1. grab' \in GrabSpace /\ grab'.kind = "move" => grab'.win = w
    BY <1>4, <1>5, <1>8 DEF PressFrame
  <2>2. grab' \in GrabSpace  BY <1>4, <1>5, <1>8 DEF PressFrame
  <2> QED  BY <2>1, <2>2, <1>8, StaysKeeps DEF PressFrame, Focus, Places
<1>9. CASE ClientGrab
  <2>1. grab.win \in Windows  BY <1>9 DEF ClientGrab, GrabSpace
  <2>2. grab' \in GrabSpace /\ (grab'.kind = "move" => grab'.win = grab.win)
    BY <2>1, <1>4, <1>5, <1>9 DEF ClientGrab
  <2>3. life[grab.win] = "up"  BY <1>9 DEF ClientGrab
  <2>4. maximized' \subseteq Windows  BY <1>9 DEF ClientGrab
  <2> QED  BY <2>1, <2>2, <2>3, <2>4, <1>9, StaysKeeps DEF ClientGrab, Places, Shell
<1> QED  BY <1>1, <1>2, <1>3, <1>6, <1>7, <1>8, <1>9

(* A request to maximise, a drag and its end map the window on one more    *)
(* workspace at most.                                                      *)
LEMMA MaximizeKeeps ==
    ASSUME DesktopInv, NEW w \in Windows, MaximizeRequest(w)
    PROVE  DesktopInv'
<1>1. RestTyped
  BY DEF MaximizeRequest, Maximize, DesktopInv, TypeOK, RestTyped, GrabHolds, Shell
<1>2. space' \in { space, MapInto(space, w, active) }
  BY DEF MaximizeRequest, Maximize
<1> QED
  BY <1>1, <1>2, MappedKeeps DEF MaximizeRequest, DesktopInv, TypeOK, Shell

LEMMA DragKeeps ==
    ASSUME DesktopInv, DragMotion
    PROVE  DesktopInv'
<1>1. grab.win \in Windows /\ life[grab.win] # "new" /\ grab.ws \in Workspaces
  BY DEF DragMotion, DesktopInv, GrabHolds, TypeOK, GrabSpace
<1>2. grab' \in { grab, [grab EXCEPT !.restore = FALSE] }
  BY DEF DragMotion, DragRestore
<1>3. grab' \in GrabSpace /\ grab'.win = grab.win
  BY <1>2 DEF DesktopInv, TypeOK, GrabSpace
<1>4. RestTyped
  BY <1>1, <1>3
  DEF DragMotion, DragRestore, Unmaximized, DesktopInv, TypeOK, RestTyped, Shell
<1> QED  BY <1>1, <1>4, MappedKeeps DEF DragMotion, Shell

LEMMA ReleaseKeeps ==
    ASSUME DesktopInv, Release
    PROVE  DesktopInv'
<1>1. grab' \in GrabSpace /\ grab'.kind = "none"
  BY NoGrabType DEF Release, NoGrab
<1>2. CASE grab.kind = "move" /\ ReleaseAtEdge(grab.win)
  <2>1. grab.win \in Windows /\ life[grab.win] # "new"  BY <1>2 DEF DesktopInv, GrabHolds
  <2>2. RestTyped
    BY <1>1, <1>2, <2>1
    DEF Release, ReleaseAtEdge, Maximize, DesktopInv, TypeOK, RestTyped, Shell
  <2>3. space' \in { space, MapInto(space, grab.win, active) }
    BY <1>2 DEF ReleaseAtEdge, Maximize
  <2> QED
    BY <2>1, <2>2, <2>3, MappedKeeps DEF Release, DesktopInv, TypeOK, Shell
<1>3. CASE UNCHANGED << space, maximized, snapped, halfRestore >>
  <2>1. RestTyped
    BY <1>1, <1>3 DEF Release, DesktopInv, TypeOK, RestTyped, Shell
  <2> QED  BY <2>1, <1>3, StaysKeeps DEF Release, Shell
<1> QED  BY <1>2, <1>3 DEF Release

LEMMA TitleKeeps ==
    ASSUME DesktopInv, NEW w \in Windows, TitleChanged(w)
    PROVE  DesktopInv'
<1>1. CASE w \in Xdg
  <2>2. list' = Put(list, w, active) /\ shellFocus' = shellFocus
    BY <1>1, WindowsAssumption DEF TitleChanged, Opened
  <2>3. list' \in PartialMap /\ DOMAIN list' = DOMAIN list \cup {w}
    BY <2>2, PutIs DEF DesktopInv, TypeOK
  <2>4. TypeOK'
    BY <2>2, <2>3 DEF TitleChanged, Places, Flags, DesktopInv, TypeOK
  <2>5. NoneLost' /\ NewIsNowhere' /\ GrabHolds'
    BY <2>3 DEF TitleChanged, Places, DesktopInv, NoneLost, NewIsNowhere, GrabHolds, Mapped
  <2> QED  BY <2>4, <2>5 DEF DesktopInv
<1>2. CASE w \in X11
  <2>1. ShellTakes(Snapshot(space', minimized'), shellFocus)
    BY <1>2, WindowsAssumption DEF TitleChanged, Places
  <2>2. Rearranges
    BY <2>1, Where DEF TitleChanged, Places, Rearranges, Somewhere, DesktopInv, TypeOK, SpaceType
  <2>3. shellFocus' \in Windows \cup {NoWindow}
    BY <2>1 DEF ShellTakes, DesktopInv, TypeOK
  <2>4. RestTyped
    BY <2>3 DEF TitleChanged, Flags, RestTyped, DesktopInv, TypeOK, GrabHolds
  <2> QED  BY <2>2, <2>4, RearrangeKeeps
<1> QED  BY <1>1, <1>2 DEF Windows

LEMMA RefreshKeeps ==
    ASSUME DesktopInv, RenderRefresh
    PROVE  DesktopInv'
<1>1. Rearranges
  BY RefreshKeepsLiving, Where
  DEF RenderRefresh, Shell, Rearranges, Somewhere, DesktopInv, TypeOK, SpaceType
<1>2. RestTyped
  BY DEF RenderRefresh, Shell, Flags, RestTyped, DesktopInv, TypeOK, GrabHolds
<1> QED  BY <1>1, <1>2, RearrangeKeeps

(* The window leaves a workspace it is on for the minimised ones. *)
LEMMA MinimizeKeeps ==
    ASSUME DesktopInv, NEW w \in Windows, life[w] = "up", NEW s \in Workspaces, Minimize(w, s),
           UNCHANGED << life, active, Flags, grab >>
    PROVE  DesktopInv'
<1>1. minimized' = Put(minimized, w, s) /\ space' = [space EXCEPT ![s] = @ \ {w}]
  BY DEF Minimize
<1>2. minimized' \in PartialMap /\ DOMAIN minimized' = DOMAIN minimized \cup {w}
  BY <1>1, PutIs DEF DesktopInv, TypeOK
<1>3. /\ space' \in SpaceType
      /\ \A t \in Workspaces : \A v \in Windows :
            v \in space'[t] <=> v \in space[t] /\ ~ (v = w /\ t = s)
  BY <1>1, TakenFrom DEF DesktopInv, TypeOK, SpaceType
<1>4. PICK f \in Windows \cup {NoWindow} :
         /\ ShellTakes(Snapshot(space', minimized'), f)
         /\ focus' \in {focus, f}
  <2>1. \A top \in space[s] \ {w} : top \in Windows  BY DEF DesktopInv, TypeOK
  <2> QED  BY <2>1 DEF Minimize, DesktopInv, TypeOK
<1>5. Rearranges
  BY <1>2, <1>3, <1>4, Where DEF Rearranges, Somewhere, DesktopInv, TypeOK
<1>6. RestTyped
  BY <1>4 DEF RestTyped, Flags, ShellTakes, DesktopInv, TypeOK, GrabHolds
<1> QED  BY <1>5, <1>6, RearrangeKeeps

LEMMA MinimizeRequestKeeps ==
    ASSUME DesktopInv, NEW w \in Windows, MinimizeRequest(w)
    PROVE  DesktopInv'
<1>1. PICK s \in Workspaces : Minimize(w, s)
  BY DEF MinimizeRequest, Mapped, DesktopInv, TypeOK
<1> QED  BY <1>1, MinimizeKeeps DEF MinimizeRequest

(* The window leaves the minimised ones for a workspace. *)
LEMMA PutBackKeeps ==
    ASSUME DesktopInv, NEW w \in Windows, w \in DOMAIN minimized, NEW s \in Workspaces,
           minimized' = Drop(minimized, w), space' = MapInto(space, w, s),
           NEW f \in Windows \cup {NoWindow}, ShellTakes(Snapshot(space', minimized'), f),
           focus' \in {focus, w}, UNCHANGED << life, active, Flags, grab >>
    PROVE  DesktopInv'
<1>1. minimized' \in PartialMap /\ DOMAIN minimized' = DOMAIN minimized \ {w}
  BY DropIs DEF DesktopInv, TypeOK
<1>2. /\ space' \in SpaceType
      /\ \A t \in Workspaces : \A v \in Windows :
            v \in space'[t] <=> v \in space[t] \/ (v = w /\ t = s)
  BY MappedInto DEF DesktopInv, TypeOK, SpaceType
<1>3. Rearranges
  BY <1>1, <1>2, Where DEF Rearranges, Somewhere, DesktopInv, TypeOK
<1>4. RestTyped
  BY DEF RestTyped, Flags, ShellTakes, DesktopInv, TypeOK, GrabHolds
<1> QED  BY <1>3, <1>4, RearrangeKeeps

LEMMA UnminimizeKeeps ==
    ASSUME DesktopInv, NEW w \in Windows, X11Unminimize(w)
    PROVE  DesktopInv'
<1>1. minimized[w] \in Workspaces
  BY DEF X11Unminimize, DesktopInv, TypeOK, PartialMap
<1>2. PICK f \in {w, shellFocus} : ShellTakes(Snapshot(space', minimized'), f)
  BY DEF X11Unminimize
<1>3. f \in Windows \cup {NoWindow}  BY DEF DesktopInv, TypeOK
<1> QED  BY <1>1, <1>2, <1>3, PutBackKeeps DEF X11Unminimize

LEMMA FocusWindowKeeps ==
    ASSUME DesktopInv, NEW w \in Windows, FocusWindow(w)
    PROVE  DesktopInv'
<1>1. CASE Shown(w) /\ UNCHANGED << Places, list >> /\ focus' \in {focus, w}
           /\ shellFocus' \in {shellFocus, w}
  <2>1. RestTyped
    BY <1>1 DEF FocusWindow, RestTyped, Flags, DesktopInv, TypeOK, GrabHolds
  <2> QED  BY <1>1, <2>1, StaysKeeps DEF FocusWindow, Places
<1>2. CASE /\ w \in DOMAIN minimized /\ minimized' = Drop(minimized, w)
           /\ space' = MapInto(space, w, active) /\ focus' \in {focus, w}
           /\ \E f \in {w, shellFocus} : ShellTakes(Snapshot(space', minimized'), f)
  <2>1. PICK f \in {w, shellFocus} : ShellTakes(Snapshot(space', minimized'), f)  BY <1>2
  <2>2. f \in Windows \cup {NoWindow} /\ active \in Workspaces  BY DEF DesktopInv, TypeOK
  <2> QED  BY <1>2, <2>1, <2>2, PutBackKeeps DEF FocusWindow
<1> QED  BY <1>1, <1>2 DEF FocusWindow, Focus

LEMMA SwitchKeeps ==
    ASSUME DesktopInv, NEW s \in Workspaces, SwitchWorkspace(s)
    PROVE  DesktopInv'
<1> DEFINE first == Refreshed(space, active)
<1>1. /\ first \in SpaceType
      /\ \A t \in Workspaces : \A v \in Windows :
            v \in first[t] <=> v \in space[t] /\ (t = active => life[v] # "gone")
  BY RefreshKeepsLiving DEF DesktopInv, TypeOK, SpaceType
<1>2. space' = Refreshed(first, s)  BY DEF SwitchWorkspace
<1> HIDE DEF first
<1>3. /\ space' \in SpaceType
      /\ \A t \in Workspaces : \A v \in Windows :
            v \in space'[t] <=> v \in first[t] /\ (t = s => life[v] # "gone")
  BY <1>1, <1>2, RefreshKeepsLiving
<1>4. Rearranges
  BY <1>1, <1>3, Where DEF SwitchWorkspace, Rearranges, Somewhere, DesktopInv, TypeOK
<1>5. RestTyped
  BY DEF SwitchWorkspace, Flags, ShellTakes, RestTyped, DesktopInv, TypeOK, GrabHolds
<1> QED  BY <1>4, <1>5, RearrangeKeeps

(* Where MoveToWorkspace leaves the windows. *)
LEMMA MovedTo ==
    ASSUME DesktopInv, NEW s \in Workspaces, MoveToWorkspace(s)
    PROVE  /\ focus \in Windows /\ space' \in SpaceType
           /\ \E source \in Mapped(focus) : \A t \in Workspaces : \A v \in Windows :
                 v \in space'[t] <=>
                    /\ \/ v \in space[t] /\ ~ (v = focus /\ t = source)
                       \/ v = focus /\ t = s
                    /\ t \in {source, s} => life[v] # "gone"
<1>1. focus \in Windows  BY DEF MoveToWorkspace, Windows
<1> DEFINE taken(source) == [space EXCEPT ![source] = @ \ {focus}]
           moved(source) == MapInto(taken(source), focus, s)
           fresh(source) == Refreshed(moved(source), source)
<1>2. PICK source \in Mapped(focus) : space' = Refreshed(fresh(source), s)
  BY DEF MoveToWorkspace
<1>3. /\ taken(source) \in SpaceType
      /\ \A t \in Workspaces : \A v \in Windows :
            v \in taken(source)[t] <=> v \in space[t] /\ ~ (v = focus /\ t = source)
  BY TakenFrom DEF DesktopInv, TypeOK, SpaceType
<1> HIDE DEF taken
<1>4. /\ moved(source) \in SpaceType
      /\ \A t \in Workspaces : \A v \in Windows :
            v \in moved(source)[t] <=> v \in taken(source)[t] \/ (v = focus /\ t = s)
  BY <1>1, <1>3, MappedInto
<1> HIDE DEF moved
<1>5. /\ fresh(source) \in SpaceType
      /\ \A t \in Workspaces : \A v \in Windows :
            v \in fresh(source)[t] <=>
               v \in moved(source)[t] /\ (t = source => life[v] # "gone")
  BY <1>4, RefreshKeepsLiving
<1> HIDE DEF fresh
<1>6. /\ space' \in SpaceType
      /\ \A t \in Workspaces : \A v \in Windows :
            v \in space'[t] <=> v \in fresh(source)[t] /\ (t = s => life[v] # "gone")
  BY <1>2, <1>5, RefreshKeepsLiving
<1>7. \A t \in Workspaces : \A v \in Windows :
         v \in space'[t] <=>
            /\ \/ v \in space[t] /\ ~ (v = focus /\ t = source)
               \/ v = focus /\ t = s
            /\ t \in {source, s} => life[v] # "gone"
  BY <1>3, <1>4, <1>5, <1>6
<1> QED  BY <1>1, <1>6, <1>7

LEMMA MoveKeeps ==
    ASSUME DesktopInv, NEW s \in Workspaces, MoveToWorkspace(s)
    PROVE  DesktopInv'
<1>1. PICK source \in Mapped(focus) : \A t \in Workspaces : \A v \in Windows :
         v \in space'[t] <=>
            /\ \/ v \in space[t] /\ ~ (v = focus /\ t = source)
               \/ v = focus /\ t = s
            /\ t \in {source, s} => life[v] # "gone"
  BY MovedTo
<1>2. focus \in space[source] /\ source \in Workspaces  BY DEF Mapped
<1>3. life' = life /\ minimized' = minimized /\ ShellTakes(Snapshot(space', minimized'), NoWindow)
  BY DEF MoveToWorkspace
<1>4. ASSUME NEW v \in Windows
      PROVE  /\ life[v] = "up" => Somewhere(v, space', minimized')
             /\ Somewhere(v, space', minimized')
                    => Somewhere(v, space, minimized) \/ life[v] # "new"
  <2>1. CASE v = focus  BY <2>1, <1>1, <1>2, <1>3 DEF Somewhere
  <2>2. CASE v # focus  BY <2>2, <1>1, <1>3, Where DEF Somewhere
  <2> QED  BY <2>1, <2>2
<1>5. Rearranges
  BY <1>3, <1>4, MovedTo DEF Rearranges, DesktopInv, TypeOK
<1>6. RestTyped
  BY DEF MoveToWorkspace, Flags, ShellTakes, RestTyped, DesktopInv, TypeOK, GrabHolds
<1> QED  BY <1>5, <1>6, RearrangeKeeps

-----------------------------------------------------------------------------
LEMMA DesktopStep == DesktopInv /\ [Next]_vars => DesktopInv'
<1> SUFFICES ASSUME DesktopInv, [Next]_vars PROVE DesktopInv'  OBVIOUS
<1>1. ASSUME NEW w \in Windows,
             \/ NewToplevel(w) \/ X11Map(w) \/ ToplevelDestroyed(w) \/ X11Unmap(w)
             \/ X11Destroyed(w)
      PROVE  DesktopInv'
  BY <1>1, MapKeeps, EndsIs, EndKeeps
<1>2. ASSUME NEW w \in Windows,
             \/ UnmaximizeRequest(w) \/ FullscreenRequest(w) \/ X11FullscreenRequest(w)
             \/ Press(w) \/ PressFrame(w)
      PROVE  DesktopInv'
  BY <1>2, QuietKeeps
<1>3. ASSUME PressDesktop \/ ClientGrab PROVE DesktopInv'
  <2>1. CASE \E w \in Windows : TRUE  BY <2>1, <1>3, QuietKeeps
  <2>2. CASE Windows = {}
    <3>1. PressDesktop
      BY <1>3, <2>2 DEF ClientGrab, DesktopInv, TypeOK, GrabSpace
    <3>2. grab' \in GrabSpace /\ grab'.kind = "click"
      BY <3>1, NoGrabType DEF PressDesktop, GrabSpace
    <3>3. RestTyped
      BY <3>1, <3>2 DEF PressDesktop, RestTyped, Flags, DesktopInv, TypeOK
    <3> QED  BY <3>1, <3>3, StaysKeeps DEF PressDesktop, Places
  <2> QED  BY <2>1, <2>2
<1>4. ASSUME NEW w \in Windows,
             \/ TitleChanged(w) \/ MaximizeRequest(w) \/ MinimizeRequest(w)
             \/ X11Unminimize(w) \/ FocusWindow(w)
      PROVE  DesktopInv'
  BY <1>4, TitleKeeps, MaximizeKeeps, MinimizeRequestKeeps, UnminimizeKeeps, FocusWindowKeeps
<1>5. ASSUME NEW s \in Workspaces, SwitchWorkspace(s) \/ MoveToWorkspace(s) PROVE DesktopInv'
  BY <1>5, SwitchKeeps, MoveKeeps
<1>6. CASE RenderRefresh \/ DragMotion \/ Release
  BY <1>6, RefreshKeeps, DragKeeps, ReleaseKeeps
<1>7. CASE UNCHANGED vars
  BY <1>7
  DEF vars, DesktopInv, TypeOK, NoneLost, NewIsNowhere, GrabHolds, Mapped
<1> QED  BY <1>1, <1>2, <1>3, <1>4, <1>5, <1>6, <1>7 DEF Next

(* The inductive invariant. *)
THEOREM Keeping == Spec => []DesktopInv
BY InitDesktop, DesktopStep, PTL DEF Spec

(* Every variable of Desktop keeps its type. *)
THEOREM Typing == Spec => []TypeOK
<1>1. DesktopInv => TypeOK  BY DEF DesktopInv
<1> QED  BY <1>1, Keeping, PTL

(* No window is lost: whatever the handlers do in whatever order, a living *)
(* window is on a workspace or minimised, and the task bar lists it.       *)
THEOREM Kept == Spec => []NoneLost
<1>1. DesktopInv => NoneLost  BY DEF DesktopInv
<1> QED  BY <1>1, Keeping, PTL

-----------------------------------------------------------------------------
(* The keyboard.                                                           *)

(* At most one place, without counting. *)
Single(w) == /\ \A s, t \in Mapped(w) : s = t
             /\ w \in DOMAIN minimized => Mapped(w) = {}

LEMMA OnePlace ==
    ASSUME NEW M \in SUBSET Workspaces, NEW b \in BOOLEAN
    PROVE  Cardinality(M) + (IF b THEN 1 ELSE 0) <= 1
               <=> (\A s, t \in M : s = t) /\ (b => M = {})
<1>1. IsFiniteSet(M)  BY WindowsAssumption, FS_Subset
<1>2. Cardinality(M) \in Nat  BY <1>1, FS_CardinalityType
<1>3. CASE M = {}
  BY <1>3, FS_EmptySet
<1>4. CASE M # {} /\ \A s, t \in M : s = t
  <2>1. PICK s \in M : M = {s}  BY <1>4
  <2>2. Cardinality(M) = 1  BY <2>1, FS_Singleton
  <2> QED  BY <1>4, <2>2
<1>5. CASE \E s, t \in M : s # t
  <2>1. Cardinality(M) # 0  BY <1>1, <1>5, FS_EmptySet
  <2>2. Cardinality(M) # 1
    <3>1. ~ \E x : M = {x}  BY <1>5
    <3> QED  BY <1>1, <3>1, FS_Singleton
  <2> QED  BY <1>2, <1>5, <2>1, <2>2
<1> QED  BY <1>3, <1>4, <1>5

LEMMA SingleIsCount ==
    ASSUME NEW w
    PROVE  /\ PlaceCount(w) <= 1 <=> Single(w)
           /\ PlaceCount(w)' <= 1 <=> Single(w)'
<1>1. Mapped(w) \subseteq Workspaces /\ Mapped(w)' \subseteq Workspaces  BY DEF Mapped
<1>2. PlaceCount(w) <= 1 <=> Single(w)
  BY <1>1, OnePlace DEF PlaceCount, Single
<1>3. PlaceCount(w)' <= 1 <=> Single(w)'
  BY <1>1, OnePlace DEF PlaceCount, Single
<1> QED  BY <1>2, <1>3

LEMMA CountIsNumber == ASSUME NEW w PROVE PlaceCount(w)' \in Nat
<1>1. Mapped(w)' \subseteq Workspaces  BY DEF Mapped
<1>2. Cardinality(Mapped(w)') \in Nat
  BY <1>1, WindowsAssumption, FS_Subset, FS_CardinalityType
<1> QED  BY <1>2 DEF PlaceCount

(* The focused window, if it lives, is still on the screen after a step    *)
(* that leaves the active workspace and that window alone.                 *)
LEMMA StillShown ==
    ASSUME FocusVisible,
           \/ focus' = NoWindow
           \/ life'[focus'] # "up"
           \/ focus' \in space'[active']
           \/ /\ focus' = focus /\ life[focus] = "up" /\ active' = active
              /\ focus \in space[active] => focus \in space'[active]
    PROVE  FocusVisible'
BY DEF FocusVisible, Shown

LEMMA VisibleStep ==
    ASSUME DesktopInv, [Next]_vars, FocusVisible, \A w \in Windows : Single(w)
    PROVE  FocusVisible'
<1> USE DEF DesktopInv, TypeOK, SpaceType
<1>1. ASSUME NEW w \in Windows, NewToplevel(w) PROVE FocusVisible'
  BY <1>1, StillShown, MappedInto DEF NewToplevel, Focus
<1>2. ASSUME NEW w \in Windows, X11Map(w) PROVE FocusVisible'
  <2>1. w \in space'[active'] /\ space[active] \subseteq space'[active]
    BY <1>2, MappedInto DEF X11Map
  <2>2. CASE focus = w  BY <2>1, <2>2, <1>2, StillShown DEF X11Map
  <2>3. CASE focus # w  BY <2>1, <2>3, <1>2, StillShown DEF X11Map
  <2> QED  BY <2>2, <2>3
<1>3. ASSUME NEW w \in Windows, ToplevelDestroyed(w) \/ X11Unmap(w) \/ X11Destroyed(w)
      PROVE  FocusVisible'
  <2>1. Ends(w)  BY <1>3, EndsIs
  <2>2. PICK s : space' \in { space, [space EXCEPT ![s] = @ \ {w}] }  BY <2>1 DEF Ends
  <2>3. \A v \in Windows \ {w} : v \in space[active] => v \in space'[active]
    BY <2>2, TakenFrom
  <2>4. CASE focus' = NoWindow  BY <2>4, StillShown
  <2>5. CASE focus' = focus /\ focus = w  BY <2>1, <2>5, StillShown DEF Ends
  <2>6. CASE focus' = focus /\ focus \in Windows \ {w}
    BY <2>1, <2>3, <2>6, StillShown DEF Ends
  <2> QED  BY <2>1, <2>4, <2>5, <2>6 DEF Ends
<1>4. ASSUME life' = life, space' = space, active' = active,
             focus' = focus \/ focus' = NoWindow \/ focus' \in space[active]
      PROVE  FocusVisible'
  BY <1>4 DEF FocusVisible, Shown
<1>5. ASSUME NEW w \in Windows,
             \/ TitleChanged(w) \/ UnmaximizeRequest(w) \/ FullscreenRequest(w)
             \/ X11FullscreenRequest(w) \/ Press(w) \/ PressFrame(w)
      PROVE  FocusVisible'
  BY <1>4, <1>5
  DEF TitleChanged, UnmaximizeRequest, FullscreenRequest, X11FullscreenRequest, Press,
      PressFrame, Focus, Shown, Places, Shell
<1>6. CASE PressDesktop \/ ClientGrab
  BY <1>4, <1>6 DEF PressDesktop, ClientGrab, Places, Shell
<1>7. ASSUME life' = life, active' = active, focus' = focus,
             NEW w \in Windows, NEW s \in Workspaces, space' \in { space, MapInto(space, w, s) }
      PROVE  FocusVisible'
  <2>1. \A v \in Windows : v \in space[active] => v \in space'[active]
    BY <1>7, MappedInto
  <2> QED  BY <1>7, <2>1 DEF FocusVisible, Shown
<1>8. ASSUME NEW w \in Windows, MaximizeRequest(w) PROVE FocusVisible'
  BY <1>7, <1>8 DEF MaximizeRequest, Maximize, Shell
<1>9. CASE DragMotion
  BY <1>7, <1>9 DEF DragMotion, Shell, GrabHolds, GrabSpace
<1>10. CASE Release
  <2>1. CASE grab.kind = "move" /\ ReleaseAtEdge(grab.win)
    BY <1>7, <1>10, <2>1 DEF Release, ReleaseAtEdge, Maximize, Shell, GrabHolds
  <2>2. CASE space' = space  BY <1>4, <1>10, <2>2 DEF Release, Shell
  <2> QED  BY <1>10, <2>1, <2>2 DEF Release
<1>11. CASE RenderRefresh
  <2>1. \A v \in Windows : v \in space'[active] <=> v \in space[active] /\ life[v] # "gone"
    BY <1>11, RefreshKeepsLiving DEF RenderRefresh
  <2> QED  BY <1>11, <2>1 DEF RenderRefresh, FocusVisible, Shown
<1>12. ASSUME NEW w \in Windows, MinimizeRequest(w) PROVE FocusVisible'
  <2>1. PICK s \in Mapped(w) : Minimize(w, s)
    BY <1>12 DEF MinimizeRequest, Mapped, Shown
  <2>2. \A t \in Workspaces : \A v \in Windows :
           v \in space'[t] <=> v \in space[t] /\ ~ (v = w /\ t = s)
    BY <2>1, TakenFrom DEF Minimize
  <2>3. life' = life /\ active' = active /\ s \in Workspaces /\ w \in space[s]
    BY <1>12, <2>1 DEF MinimizeRequest, Mapped
  <2>4. CASE focus # w /\ focus' = focus
    BY <2>2, <2>3, <2>4 DEF FocusVisible, Shown
  <2>5. CASE focus = w
    <3>1. active \in Mapped(w)
      BY <1>12, <2>5, WindowsAssumption DEF MinimizeRequest, FocusVisible, Shown, Mapped
    <3>2. s = active  BY <2>1, <3>1 DEF Single
    <3>3. focus' \in (space[s] \ {w}) \cup {NoWindow}  BY <2>1, <2>5 DEF Minimize
    <3> QED  BY <2>2, <2>3, <3>2, <3>3, StillShown
  <2> QED  BY <2>1, <2>4, <2>5 DEF Minimize
<1>13. ASSUME NEW w \in Windows, X11Unminimize(w) PROVE FocusVisible'
  <2>1. minimized[w] \in Workspaces  BY <1>13 DEF X11Unminimize, PartialMap
  <2>2. \A t \in Workspaces : \A v \in Windows :
           v \in space'[t] <=> v \in space[t] \/ (v = w /\ t = minimized[w])
    BY <1>13, <2>1, MappedInto DEF X11Unminimize
  <2> QED  BY <1>13, <2>2 DEF X11Unminimize, FocusVisible, Shown
<1>14. ASSUME NEW w \in Windows, FocusWindow(w) PROVE FocusVisible'
  <2>1. CASE space' = MapInto(space, w, active)
    <3>1. \A v \in Windows : v \in space'[active] <=> v \in space[active] \/ v = w
      BY <2>1, MappedInto
    <3> QED  BY <1>14, <3>1 DEF FocusWindow, Focus, FocusVisible, Shown
  <2>2. CASE Shown(w) /\ space' = space
    BY <1>4, <1>14, <2>2 DEF FocusWindow, Focus, Shown
  <2> QED  BY <1>14, <2>1, <2>2 DEF FocusWindow, Places
<1>15. ASSUME NEW s \in Workspaces, SwitchWorkspace(s) \/ MoveToWorkspace(s)
       PROVE  FocusVisible'
  BY <1>15 DEF SwitchWorkspace, MoveToWorkspace, FocusVisible
<1>16. CASE UNCHANGED vars
  BY <1>16 DEF vars, FocusVisible, Shown
<1> HIDE DEF DesktopInv, TypeOK, SpaceType
<1> QED
  BY <1>1, <1>2, <1>3, <1>5, <1>6, <1>8, <1>9, <1>10, <1>11, <1>12, <1>13, <1>14, <1>15, <1>16
  DEF Next

(* The keyboard never comes to type into a window that is not shown, for   *)
(* any number of windows and workspaces and whatever they are asked to do. *)
THEOREM Visible == Spec => FocusStaysVisible
<1>1. DesktopInv /\ [Next]_vars =>
         [FocusVisible /\ (\A w \in Windows : PlaceCount(w) <= 1) => FocusVisible']_vars
  BY VisibleStep, SingleIsCount
<1> QED  BY <1>1, Keeping, PTL DEF Spec, FocusStaysVisible

-----------------------------------------------------------------------------
(* Second places.                                                          *)

(* A window that no step mapped anywhere new is in as few places as before. *)
LEMMA FewerPlaces ==
    ASSUME NEW w, Single(w), Mapped(w)' \subseteq Mapped(w),
           w \in DOMAIN minimized' => w \in DOMAIN minimized
    PROVE  Single(w)'
BY DEF Single

LEMMA SingleStep ==
    ASSUME DesktopInv, [Next]_vars, NEW w \in Windows, Single(w),
           ~ (grab.kind = "move" /\ grab.win = w), life[w] # "down"
    PROVE  Single(w)'
<1> USE DEF DesktopInv, TypeOK, SpaceType
<1>1. ASSUME NEW v \in Windows, NewToplevel(v) \/ X11Map(v) PROVE Single(w)'
  <2>1. /\ space' = MapInto(space, v, active) /\ minimized' = minimized
        /\ v = w => life[w] = "new"
    BY <1>1 DEF NewToplevel, X11Map
  <2>2. \A t \in Workspaces : w \in space'[t] <=> w \in space[t] \/ (v = w /\ t = active)
    BY <2>1, MappedInto
  <2>3. CASE v = w
    <3>1. Mapped(w) = {} /\ w \notin DOMAIN minimized
      BY <2>1, <2>3 DEF NewIsNowhere
    <3>2. \A t \in Mapped(w)' : t = active  BY <2>2, <3>1 DEF Mapped
    <3> QED  BY <2>1, <3>1, <3>2 DEF Single
  <2>4. CASE v # w  BY <2>1, <2>2, <2>4, FewerPlaces DEF Mapped
  <2> QED  BY <2>3, <2>4
<1>2. ASSUME NEW v \in Windows, ToplevelDestroyed(v) \/ X11Unmap(v) \/ X11Destroyed(v)
      PROVE  Single(w)'
  <2>1. Ends(v)  BY <1>2, EndsIs
  <2>2. PICK s : space' \in { space, [space EXCEPT ![s] = @ \ {v}] }  BY <2>1 DEF Ends
  <2>3. \A t \in Workspaces : w \in space'[t] => w \in space[t]
    BY <2>2, TakenFrom
  <2>4. minimized' \in { minimized, Drop(minimized, v) }
    BY <2>1 DEF Ends, Cleared
  <2>5. DOMAIN Drop(minimized, v) = DOMAIN minimized \ {v}  BY DropIs
  <2>6. w \in DOMAIN minimized' => w \in DOMAIN minimized
    <3>1. CASE minimized' = minimized  BY <3>1
    <3>2. CASE minimized' = Drop(minimized, v)  BY <2>5, <3>2
    <3> QED  BY <2>4, <3>1, <3>2
  <2> QED  BY <2>3, <2>6, FewerPlaces DEF Mapped
<1>3. ASSUME space' = space, minimized' = minimized PROVE Single(w)'
  BY <1>3 DEF Single, Mapped
<1>4. ASSUME NEW v \in Windows,
             \/ TitleChanged(v) \/ UnmaximizeRequest(v) \/ FullscreenRequest(v)
             \/ X11FullscreenRequest(v) \/ Press(v) \/ PressFrame(v)
      PROVE  Single(w)'
  BY <1>3, <1>4
  DEF TitleChanged, UnmaximizeRequest, FullscreenRequest, X11FullscreenRequest, Press,
      PressFrame, Places
<1>5. CASE PressDesktop \/ ClientGrab
  BY <1>3, <1>5 DEF PressDesktop, ClientGrab, Places
<1>6. ASSUME minimized' = minimized, NEW v \in Windows, NEW s \in Workspaces,
             space' = MapInto(space, v, s), v # w \/ w \in space[s]
      PROVE  Single(w)'
  <2>1. \A t \in Workspaces : w \in space'[t] <=> w \in space[t] \/ (v = w /\ t = s)
    BY <1>6, MappedInto
  <2> QED  BY <1>6, <2>1, FewerPlaces DEF Mapped
<1>7. ASSUME NEW v \in Windows, MaximizeRequest(v) PROVE Single(w)'
  BY <1>3, <1>6, <1>7 DEF MaximizeRequest, Maximize, Shown
<1>8. CASE DragMotion
  BY <1>6, <1>8 DEF DragMotion, GrabHolds, GrabSpace
<1>9. CASE Release
  <2>1. CASE grab.kind = "move" /\ ReleaseAtEdge(grab.win)
    <3>1. grab.win \in Windows /\ grab.win # w  BY <2>1 DEF GrabHolds
    <3> QED  BY <1>3, <1>6, <1>9, <2>1, <3>1 DEF Release, ReleaseAtEdge, Maximize
  <2>2. CASE space' = space  BY <1>3, <1>9, <2>2 DEF Release
  <2> QED  BY <1>9, <2>1, <2>2 DEF Release
<1>10. CASE RenderRefresh
  <2>1. \A t \in Workspaces : w \in space'[t] => w \in space[t]
    BY <1>10, RefreshKeepsLiving DEF RenderRefresh
  <2> QED  BY <1>10, <2>1, FewerPlaces DEF RenderRefresh, Mapped
<1>11. ASSUME NEW v \in Windows, MinimizeRequest(v) PROVE Single(w)'
  <2>1. PICK s \in Mapped(v) : Minimize(v, s)
    BY <1>11 DEF MinimizeRequest, Mapped, Shown
  <2>2. s \in Workspaces  BY DEF Mapped
  <2>3. \A t \in Workspaces : w \in space'[t] <=> w \in space[t] /\ ~ (v = w /\ t = s)
    BY <2>1, TakenFrom DEF Minimize
  <2>4. DOMAIN minimized' = DOMAIN minimized \cup {v}
    BY <2>1, <2>2, PutIs DEF Minimize
  <2>5. CASE v = w
    <3>1. Mapped(w)' = {}  BY <2>1, <2>3, <2>5 DEF Single, Mapped
    <3> QED  BY <3>1 DEF Single
  <2>6. CASE v # w  BY <2>3, <2>4, <2>6, FewerPlaces DEF Mapped
  <2> QED  BY <2>5, <2>6
<1>12. ASSUME NEW v \in Windows, v \in DOMAIN minimized, NEW s \in Workspaces,
              minimized' = Drop(minimized, v), space' = MapInto(space, v, s)
       PROVE  Single(w)'
  <2>1. DOMAIN minimized' = DOMAIN minimized \ {v}  BY <1>12, DropIs
  <2>2. \A t \in Workspaces : w \in space'[t] <=> w \in space[t] \/ (v = w /\ t = s)
    BY <1>12, MappedInto
  <2>3. CASE v = w
    <3>1. Mapped(w) = {}  BY <1>12, <2>3 DEF Single
    <3>2. \A t \in Mapped(w)' : t = s  BY <2>2, <3>1 DEF Mapped
    <3> QED  BY <2>1, <2>3, <3>2 DEF Single
  <2>4. CASE v # w  BY <2>1, <2>2, <2>4, FewerPlaces DEF Mapped
  <2> QED  BY <2>3, <2>4
<1>13. ASSUME NEW v \in Windows, X11Unminimize(v) PROVE Single(w)'
  <2>1. minimized[v] \in Workspaces  BY <1>13 DEF X11Unminimize, PartialMap
  <2> QED  BY <1>12, <1>13, <2>1 DEF X11Unminimize
<1>14. ASSUME NEW v \in Windows, FocusWindow(v) PROVE Single(w)'
  BY <1>3, <1>12, <1>14 DEF FocusWindow, Places
<1>15. ASSUME NEW s \in Workspaces, SwitchWorkspace(s) PROVE Single(w)'
  <2> DEFINE first == Refreshed(space, active)
  <2>1. first \in SpaceType /\ \A t \in Workspaces : w \in first[t] => w \in space[t]
    BY RefreshKeepsLiving
  <2>2. space' = Refreshed(first, s) /\ minimized' = minimized
    BY <1>15 DEF SwitchWorkspace
  <2> HIDE DEF first
  <2>3. \A t \in Workspaces : w \in space'[t] => w \in first[t]
    BY <2>1, <2>2, RefreshKeepsLiving
  <2> QED  BY <2>1, <2>2, <2>3, FewerPlaces DEF Mapped
<1>16. ASSUME NEW s \in Workspaces, MoveToWorkspace(s) PROVE Single(w)'
  <2>1. PICK source \in Mapped(focus) : \A t \in Workspaces : \A v \in Windows :
           v \in space'[t] <=>
              /\ \/ v \in space[t] /\ ~ (v = focus /\ t = source)
                 \/ v = focus /\ t = s
              /\ t \in {source, s} => life[v] # "gone"
    BY <1>16, MovedTo
  <2>2. minimized' = minimized  BY <1>16 DEF MoveToWorkspace
  <2>3. CASE w = focus
    <3>1. w \notin DOMAIN minimized  BY <2>1, <2>3 DEF Single
    <3>2. \A t \in Mapped(w)' : t = s  BY <2>1, <2>3 DEF Single, Mapped
    <3> QED  BY <2>2, <3>1, <3>2 DEF Single
  <2>4. CASE w # focus
    <3>1. Mapped(w)' \subseteq Mapped(w)  BY <2>1, <2>4 DEF Mapped
    <3> QED  BY <2>2, <3>1, FewerPlaces
  <2> QED  BY <2>3, <2>4
<1>17. CASE UNCHANGED vars
  BY <1>3, <1>17 DEF vars
<1> HIDE DEF DesktopInv, TypeOK, SpaceType
<1> QED
  BY <1>1, <1>2, <1>4, <1>5, <1>7, <1>8, <1>9, <1>10, <1>11, <1>13, <1>14, <1>15, <1>16, <1>17
  DEF Next

(* Only a drag, or an X11 window that comes back, puts a window in a second *)
(* place, for any number of windows and workspaces.                        *)
THEOREM Duplicates == Spec => OnlyTheDragDuplicates
<1>1. DesktopInv /\ [Next]_vars => DuplicatesStep
  <2> SUFFICES ASSUME DesktopInv, [Next]_vars, NEW w \in Windows,
                      PlaceCount(w) <= 1, PlaceCount(w)' > 1,
                      ~ (grab.kind = "move" /\ grab.win = w), life[w] # "down"
               PROVE  FALSE
    BY DEF DuplicatesStep
  <2>1. Single(w)  BY SingleIsCount
  <2>2. Single(w)'  BY <2>1, SingleStep
  <2>3. PlaceCount(w)' <= 1  BY <2>2, SingleIsCount
  <2> QED  BY <2>3, CountIsNumber
<1>2. DesktopInv /\ [Next]_vars => [DuplicatesStep]_vars  BY <1>1
<1> QED  BY <1>2, Keeping, PTL DEF Spec, OnlyTheDragDuplicates
=============================================================================

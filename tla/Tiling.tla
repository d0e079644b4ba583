------------------------------- MODULE Tiling -------------------------------
(***************************************************************************)
(* The tiling of one workspace: the tree of meridian-wm and what the       *)
(* compositor does with it.  A window gets a leaf when it opens while the  *)
(* workspace tiles; a window that leaves the workspace keeps its leaf      *)
(* until the next tile_workspace, and one that comes back gets none until  *)
(* the tree is built again.  Ratios count hundredths, and a product with   *)
(* one is rounded down; windows kept floating one by one are left out      *)
(* (nothing calls set_floating).                                           *)
(***************************************************************************)
EXTENDS Integers, Sequences, SequencesExt

CONSTANTS Windows,
          Screen,    \* the work area of the output
          Gap,       \* decorations.gap
          Delta,     \* the step of the resize-tile key bindings
          NoWindow

Dirs == { "horizontal", "vertical" }

Other(dir) == IF dir = "horizontal" THEN "vertical" ELSE "horizontal"

AtLeastOne(n) == IF n < 1 THEN 1 ELSE n

Clamp(n, low, high) == IF n < low THEN low ELSE IF n > high THEN high ELSE n
-----------------------------------------------------------------------------
(* The tree: empty, a leaf or a split.                                     *)

Empty == << >>

Leaf(w) == [win |-> w]

Split(dir, ratio, left, right) == [dir |-> dir, ratio |-> ratio, left |-> left, right |-> right]

IsLeaf(t) == DOMAIN t = {"win"}

RECURSIVE Leaves(_)
Leaves(t) == IF t = Empty THEN << >>
             ELSE IF IsLeaf(t) THEN << t.win >>
             ELSE Leaves(t.left) \o Leaves(t.right)

ContainsWindow(t, w) == w \in ToSet(Leaves(t))

\* The leaf f becomes a split of f and w.
RECURSIVE InsertNextTo(_, _, _, _)
InsertNextTo(t, f, w, dir) ==
  IF IsLeaf(t) THEN IF t.win = f THEN Split(dir, 50, t, Leaf(w)) ELSE t
  ELSE IF ContainsWindow(t.left, f) THEN [t EXCEPT !.left = InsertNextTo(@, f, w, dir)]
  ELSE [t EXCEPT !.right = InsertNextTo(@, f, w, dir)]

RECURSIVE InsertAtLast(_, _, _)
InsertAtLast(t, w, dir) ==
  IF IsLeaf(t) THEN Split(dir, 50, t, Leaf(w)) ELSE [t EXCEPT !.right = InsertAtLast(@, w, dir)]

InsertUnique(t, f, w, dir) ==
  CASE ContainsWindow(t, w) -> t
    [] ~ ContainsWindow(t, w) /\ ContainsWindow(t, f) -> InsertNextTo(t, f, w, dir)
    [] OTHER -> InsertAtLast(t, w, dir)

\* Mutant: the sibling of the removed leaf goes with it.
RECURSIVE RemoveBoth(_, _)
RemoveBoth(t, w) ==
  IF t = Empty \/ (IsLeaf(t) /\ t.win = w) THEN Empty
  ELSE IF IsLeaf(t) THEN t
  ELSE LET left  == RemoveBoth(t.left, w)
           right == RemoveBoth(t.right, w)
       IN  IF Empty \in { left, right } THEN Empty ELSE [t EXCEPT !.left = left, !.right = right]

\* The sibling of the removed leaf takes the place of the split.
RECURSIVE RemoveFromNode(_, _)
RemoveFromNode(t, w) ==
  IF t = Empty \/ (IsLeaf(t) /\ t.win = w) THEN Empty
  ELSE IF IsLeaf(t) THEN t
  ELSE LET left  == RemoveFromNode(t.left, w)
           right == RemoveFromNode(t.right, w)
       IN  CASE left = Empty  -> right
             [] right = Empty -> left
             [] OTHER         -> [t EXCEPT !.left = left, !.right = right]

\* Every split above w in this direction moves its border away from w.
RECURSIVE AdjustSplit(_, _, _, _)
AdjustSplit(t, w, dir, delta) ==
  IF t = Empty \/ IsLeaf(t) \/ ~ ContainsWindow(t, w) THEN t
  ELSE LET away == IF ContainsWindow(t.left, w) THEN delta ELSE - delta
       IN  [t EXCEPT !.left  = AdjustSplit(@, w, dir, delta),
                     !.right = AdjustSplit(@, w, dir, delta),
                     !.ratio = IF t.dir = dir THEN Clamp(@ + away, 10, 90) ELSE @]
-----------------------------------------------------------------------------
(* The rectangles.                                                         *)

\* The lengths of the two parts of a length, and where the second begins.
Parts(length, ratio) ==
  LET len  == AtLeastOne(length)
      cut  == Clamp((len * ratio) \div 100, 1, AtLeastOne(len - 1))
      half == Gap \div 2
  IN  [first  |-> AtLeastOne(cut - half),
       from   |-> cut + half,
       second |-> AtLeastOne(len - cut - half)]

SplitRect(r, dir, ratio) ==
  IF dir = "horizontal"
  THEN LET p == Parts(r.w, ratio)
       IN  << [r EXCEPT !.w = p.first, !.h = AtLeastOne(@)],
              [x |-> r.x + p.from, y |-> r.y, w |-> p.second, h |-> AtLeastOne(r.h)] >>
  ELSE LET p == Parts(r.h, ratio)
       IN  << [r EXCEPT !.h = p.first, !.w = AtLeastOne(@)],
              [x |-> r.x, y |-> r.y + p.from, w |-> AtLeastOne(r.w), h |-> p.second] >>

\* The rectangle of w below the node t that has r.
RECURSIVE RectOf(_, _, _)
RectOf(t, r, w) ==
  IF IsLeaf(t) THEN r
  ELSE LET two == SplitRect(r, t.dir, t.ratio)
       IN  IF ContainsWindow(t.left, w) THEN RectOf(t.left, two[1], w) ELSE RectOf(t.right, two[2], w)

Inner == [x |-> Screen.x + Gap \div 2, y |-> Screen.y + Gap \div 2,
          w |-> AtLeastOne(Screen.w - Gap), h |-> AtLeastOne(Screen.h - Gap)]
-----------------------------------------------------------------------------
VARIABLES space,      \* the windows mapped in the workspace, from the bottom
          focused,    \* the window that holds the keyboard focus, if it is in the space
          tiling,     \* WorkspaceMode::Tiling
          tree,       \* TilingLayout::root
          nextSplit,  \* TilingLayout::next_split
          placed      \* where tile_workspace put each window

vars == << space, focused, tiling, tree, nextSplit, placed >>

Nowhere == [x |-> 0, y |-> 0, w |-> 0, h |-> 0]

Init == /\ space = << >> /\ focused = NoWindow
        /\ tiling = FALSE /\ tree = Empty /\ nextSplit = "horizontal"
        /\ placed = [w \in Windows |-> Nowhere]

Shown == ToSet(space)

RECURSIVE RemoveAll(_, _)
RemoveAll(t, ws) == IF ws = << >> THEN t ELSE RemoveAll(RemoveFromNode(t, Head(ws)), Tail(ws))

\* tile_workspace, for a tree t, the windows s of the space and their places p: the leaves
\* of windows that went away are removed, and if the workspace tiles each window is mapped
\* at its rectangle, which raises it.
TileWorkspace(t, s, p, on) ==
  LET pruned == RemoveAll(t, SelectSeq(Leaves(t), LAMBDA w : w \notin ToSet(s)))
      leaves == IF on THEN Leaves(pruned) ELSE << >>
  IN  /\ tree'   = pruned
      /\ space'  = SelectSeq(s, LAMBDA w : w \notin ToSet(leaves)) \o leaves
      /\ placed' = [w \in Windows |-> IF w \in ToSet(leaves) THEN RectOf(pruned, Inner, w) ELSE p[w]]

\* TilingLayout::add: a window that is in the tree leaves the next direction alone.
Add(t, f, w, dir) == CASE t = Empty -> << Leaf(w), dir >>
                       [] t # Empty /\ ContainsWindow(t, w) -> << t, dir >>
                       [] OTHER -> << InsertUnique(t, f, w, dir), Other(dir) >>

\* handle_new_toplevel: the window opens beside the focused one and gets the focus.
NewToplevel(w) ==
  /\ w \notin Shown
  /\ ~ ContainsWindow(tree, w)
  /\ IF tiling
     THEN LET added == Add(tree, focused, w, nextSplit)
          IN  TileWorkspace(added[1], Append(space, w), placed, TRUE) /\ nextSplit' = added[2]
     ELSE space' = Append(space, w) /\ UNCHANGED << tree, nextSplit, placed >>
  /\ focused' = w
  /\ UNCHANGED tiling

\* The window closes, is minimised or moves to another workspace.
Leave(w) ==
  /\ w \in Shown
  /\ space' = SelectSeq(space, LAMBDA q : q # w)
  /\ placed' = [placed EXCEPT ![w] = Nowhere]
  /\ \E f \in (Shown \ {w}) \cup {NoWindow} : focused' = IF focused = w THEN f ELSE focused
  /\ UNCHANGED << tiling, tree, nextSplit >>

\* It is restored or moved back: mapped, but not added to the tree.
Return(w) ==
  /\ w \notin Shown
  /\ space' = Append(space, w)
  /\ \E f \in {w, focused} : focused' = f
  /\ UNCHANGED << tiling, tree, nextSplit, placed >>

\* A click or a request of the shell raises and focuses a window.
Focus(w) ==
  /\ w \in Shown
  /\ space' = Append(SelectSeq(space, LAMBDA q : q # w), w)
  /\ focused' = w
  /\ UNCHANGED << tiling, tree, nextSplit, placed >>

\* Any client's commit.
SurfaceCommit == /\ tiling
                 /\ TileWorkspace(tree, space, placed, TRUE)
                 /\ UNCHANGED << focused, tiling, nextSplit >>

RECURSIVE Build(_, _, _)
Build(t, dir, ws) ==
  IF ws = << >> THEN << t, dir >>
  ELSE LET added == Add(t, NoWindow, Head(ws), dir) IN Build(added[1], added[2], Tail(ws))

\* toggle_tiling: the tree is built again from the windows as they are stacked.
ToggleTiling ==
  /\ tiling' = ~ tiling
  /\ IF tiling THEN UNCHANGED << space, tree, nextSplit, placed >>
     ELSE LET built == Build(Empty, "horizontal", space)
          IN  TileWorkspace(built[1], space, placed, TRUE) /\ nextSplit' = built[2]
  /\ UNCHANGED focused

ForceSplit(dir) == nextSplit' = dir /\ UNCHANGED << space, focused, tiling, tree, placed >>

\* resize_focused, in either mode.
ResizeTile(dir, delta) ==
  /\ focused # NoWindow
  /\ TileWorkspace(AdjustSplit(tree, focused, dir, delta), space, placed, tiling)
  /\ UNCHANGED << focused, tiling, nextSplit >>

Next == \/ \E w \in Windows : NewToplevel(w) \/ Leave(w) \/ Return(w) \/ Focus(w)
        \/ SurfaceCommit \/ ToggleTiling
        \/ \E dir \in Dirs : ForceSplit(dir) \/ \E delta \in { Delta, - Delta } : ResizeTile(dir, delta)

Spec == Init /\ [][Next]_vars
-----------------------------------------------------------------------------
(* What holds.                                                             *)

Apart(a, b) == a.x + a.w <= b.x \/ b.x + b.w <= a.x \/ a.y + a.h <= b.y \/ b.y + b.h <= a.y

Inside(a, b) == /\ a.x >= b.x /\ a.x + a.w <= b.x + b.w
                /\ a.y >= b.y /\ a.y + a.h <= b.y + b.h

\* However windows come, go and are resized, the windows tile_workspace placed lie inside
\* the work area and apart from one another: also the ones it placed at different times.
TilesFit ==
  LET tiled == { w \in Windows : placed[w] # Nowhere }
  IN  \A w \in tiled : /\ Inside(placed[w], Inner)
                       /\ tiling => \A q \in tiled \ {w} : Apart(placed[w], placed[q])

\* The key that grows the focused window along a direction never shrinks it, however deep
\* in the tree it is and although every split above it moves.
GrowsStep ==
  \A dir \in Dirs :
    focused # NoWindow /\ tiling /\ placed[focused] # Nowhere /\ ResizeTile(dir, Delta) =>
      IF dir = "horizontal" THEN placed'[focused].w >= placed[focused].w
                            ELSE placed'[focused].h >= placed[focused].h

Order == INSTANCE TileList WITH list <- Leaves(tree), shown <- Shown

\* The tree is a list in which a window keeps its place while it is shown.
Implements == Order!Spec
=============================================================================

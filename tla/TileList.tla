------------------------------ MODULE TileList ------------------------------
(***************************************************************************)
(* What the tiling of a workspace promises, whatever its tree looks like:  *)
(* the tiled windows stand in a list, a new one behind the focused one or  *)
(* at the end; a window keeps its place until it is not shown any more,    *)
(* and only starting to tile orders the windows anew.                      *)
(***************************************************************************)
EXTENDS Sequences, SequencesExt

CONSTANT Windows

VARIABLES list,  \* the tiled windows in order
          shown  \* the windows of the workspace

vars == << list, shown >>

Init == list = << >> /\ shown = {}

Kept(ws, visible) == SelectSeq(ws, LAMBDA w : w \in visible)

\* A window is shown; if it is tiled it stands behind f, or at the end.
Show(w) ==
  /\ w \notin shown
  /\ shown' = shown \cup {w}
  /\ \/ list' = list
     \/ \E i \in 0..Len(list) :
          /\ w \notin ToSet(list)
          /\ i > 0 => list[i] \in shown \/ i = Len(list)
          /\ list' = Kept(InsertAt(list, i + 1, w), shown')

Hide(w) == w \in shown /\ shown' = shown \ {w} /\ list' = list

\* The windows that went away give up their place.
Tidy == list' = Kept(list, shown) /\ UNCHANGED shown

\* Every window gets a place.
StartTiling == list' \in SetToSeqs(shown) /\ UNCHANGED shown

Next == (\E w \in Windows : Show(w) \/ Hide(w)) \/ Tidy \/ StartTiling

Spec == Init /\ [][Next]_vars
=============================================================================

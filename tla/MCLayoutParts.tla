---------------------------- MODULE MCLayoutParts ----------------------------
(***************************************************************************)
(* The outputs, and beside them the tiling of a workspace. Of the          *)
(* components below one is run in a behaviour, which `part` names: they    *)
(* share no state with each other or with the instance extended here,      *)
(* whose variables stay where they start while another component runs.     *)
(***************************************************************************)
EXTENDS MCOutputLifecycle, TLC

CONSTANTS win1, win2, win3, NoWindow

VARIABLES
  part,   \* the component this behaviour is about
  space, tiledFocus, tiling, tree, nextSplit, placed

\* Three windows, and steps that reach both clamps: the innermost parts are a few pixels.
Three == {win1, win2, win3}
Small == [x |-> 100, y |-> 0, w |-> 808, h |-> 608]
Symmetry == Permutations(Three)

Tiling == INSTANCE Tiling WITH
  Windows <- Three, Screen <- Small, Gap <- 8, Delta <- 40, focused <- tiledFocus

partVars == <<
  part, space, tiledFocus, tiling, tree, nextSplit, placed >>
-----------------------------------------------------------------------------
\* This instance: the other components are not there.
InitBase ==
  /\ part = "outputs" /\ Init
  /\ space = 0 /\ tiledFocus = 0 /\ tiling = 0 /\ tree = 0 /\ nextSplit = 0 /\ placed = 0
NextBase == part = "outputs" /\ Next /\ UNCHANGED partVars

RestTiling == << part >>
InitTiling ==
  /\ part = "tiling" /\ Tiling!Init /\ Init /\ connected = {1} /\ config = [off |-> {}, primary |-> NoName]
NextTiling == part = "tiling" /\ Tiling!Next /\ UNCHANGED << RestTiling, vars >>

PartsInit == \/ InitBase
             \/ InitTiling

PartsNext == \/ NextBase
             \/ NextTiling

PartsSpec == PartsInit /\ [][PartsNext]_<< partVars, vars >>
-----------------------------------------------------------------------------
(* Properties                                                              *)

\* The tiled windows lie inside the work area and apart from one another, the tree behaves
\* as a list in which a window keeps its place while it is shown (TileList), and the key that
\* grows the focused window never shrinks it.
TilingImplements ==
  /\ [](part = "tiling" => Tiling!TilesFit)
  /\ part = "tiling" => Tiling!Order!Init
  /\ [][part = "tiling" => Tiling!Order!Next \/ UNCHANGED Tiling!Order!vars]_<< partVars, vars >>
  /\ [][part = "tiling" => Tiling!GrowsStep]_<< partVars, vars >>
=============================================================================

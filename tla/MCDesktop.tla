------------------------------ MODULE MCDesktop ------------------------------
(***************************************************************************)
(* Instance of Desktop: an xdg window and an X11 window on two workspaces, *)
(* the fewest with which a window can be hidden, elsewhere or in two       *)
(* places while the other has the focus.                                   *)
(***************************************************************************)
EXTENDS Desktop

CONSTANTS a, x

OneXdg == {a}
OneX11 == {x}
TwoWorkspaces == {1, 2}
==============================================================================

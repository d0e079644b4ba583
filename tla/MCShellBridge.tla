----------------------------- MODULE MCShellBridge -----------------------------
(***************************************************************************)
(* Instance of ShellBridge: two screenshot requests, two connection        *)
(* numbers for the shell.  A socket holds two events: with one, the events *)
(* a new shell is sent already end its connection.                         *)
(***************************************************************************)
EXTENDS ShellBridge, TLC

CONSTANTS r1, r2, k1, k2

\* What the portal asks for: a screenshot with and without a region to pick.
Portal(i) == [valid |-> TRUE, origin |-> "PortalDbus", interactive |-> i]

MCMessages == {Portal(TRUE), Portal(FALSE)}

MCSymmetry == Permutations({r1, r2}) \cup Permutations({k1, k2})
=============================================================================

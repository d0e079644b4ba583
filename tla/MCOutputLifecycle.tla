------------------------ MODULE MCOutputLifecycle ------------------------
(* Instances of OutputLifecycle for TLC. *)
EXTENDS OutputLifecycle

(* Nothing said, the primary output set by hand, and the first output off, *)
(* which may be the only one.                                              *)
MCConfigs ==
    {[off |-> {0}, primary |-> NoName]} \cup {[off |-> {}, primary |-> n] : n \in {NoName, 1}}
=============================================================================

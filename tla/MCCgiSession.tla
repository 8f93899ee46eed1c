---------------------------- MODULE MCCgiSession ----------------------------
(***************************************************************************)
(* An instance of CgiSession for TLC: one user with a password and one     *)
(* with an empty one, who share the browsers.                              *)
(***************************************************************************)
EXTENDS CgiSession, TLC
CONSTANTS first, second, third

MCRequests == {first, second, third}
MCSymmetry == Permutations(MCRequests)
MCPasswordOf == [u \in Users |-> IF u = "root" THEN "secret" ELSE ""]
=============================================================================

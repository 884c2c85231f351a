---------------------------- MODULE MCContainers ----------------------------
(***************************************************************************)
(* Containers with the attempts and delays of the code, in tenths of a     *)
(* second.  A server may begin to answer at once, after one delay, at the  *)
(* end of the ten seconds of patience, at the last ping of the ladder and  *)
(* just past it, and restart between any two of these.                     *)
(***************************************************************************)
EXTENDS Containers

MCLags == {0, 1, 100, 111, 112}
=============================================================================

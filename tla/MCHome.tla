------------------------------- MODULE MCHome -------------------------------
(***************************************************************************)
(* Home with two URIs that are applied at one of two times, and two polls  *)
(* under way, so that one can overtake the other.                          *)
(***************************************************************************)
EXTENDS Home
=============================================================================

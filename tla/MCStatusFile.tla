---------------------------- MODULE MCStatusFile ----------------------------
(* A small StatusFile for TLC. *)
EXTENDS StatusFile

(* snapshots that shrink, are empty and grow *)
SmallLines == <<2, 1, 0, 2>>
=============================================================================

------------------------------ MODULE MCLibrary ------------------------------
(* NotifyLibrary for TLC. *)
EXTENDS NotifyLibrary

(* Daemons of two major versions, and one that tells a version in which    *)
(* sscanf finds no number.                                                 *)
MCVersions == {1, 2, -1}
=============================================================================

--------------------------- MODULE MCNotification ---------------------------
(* Instances of NotifyNotification for TLC.                                *)
EXTENDS NotifyNotification, TLC

Alike == Permutations(Notifs) \cup Permutations(Tokens)
=============================================================================

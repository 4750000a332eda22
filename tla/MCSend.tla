------------------------------- MODULE MCSend -------------------------------
(* Instances of NotifySend for TLC.                                        *)
EXTENDS NotifySend

(* Without --action the server is not asked for what it is capable of.     *)
AllLines ==
    {a \in [wait : BOOLEAN, actions : BOOLEAN, badHint : BOOLEAN,
            expire_timeout : {-1, 0, 1}, notification_id : {0, 1},
            capable : BOOLEAN] : a.capable \/ a.actions}

(* A few of them: each way to wait, one for good and one for an expire     *)
(* time, beside lines that replace and do not wait, or show and go.        *)
Line(waits, acts, expires, replaces) ==
    [wait |-> waits, actions |-> acts, badHint |-> FALSE,
     expire_timeout |-> expires, notification_id |-> replaces, capable |-> TRUE]
SomeLines ==
    {Line(TRUE, FALSE, 1, 1), Line(FALSE, TRUE, 1, 1), Line(FALSE, TRUE, -1, 1),
     Line(FALSE, FALSE, 0, 0), Line(FALSE, FALSE, 1, 1),
     [Line(TRUE, FALSE, 1, 0) EXCEPT !.badHint = TRUE],
     [Line(TRUE, TRUE, 0, 0) EXCEPT !.capable = FALSE]}
=============================================================================

-------------------------- MODULE NotificationLife --------------------------
(***************************************************************************)
(* What libnotify promises the application about the lives of its          *)
(* NotifyNotification objects, whatever server is behind it: the daemon    *)
(* (NotifyNotification) and the desktop portal (PortalNotification) both   *)
(* implement this specification, in every environment.                     *)
(*                                                                         *)
(* The application sees its own calls and the callbacks it is called with, *)
(* the innermost of them at the head of callbacks.                         *)
(***************************************************************************)
EXTENDS Integers, Sequences

CONSTANT Notifs

VARIABLES
    ref,       \* none | held | kept (only by running callbacks) | gone
    numbered,  \* the "id" property is not 0
    told,      \* the "closed-reason" property is not UNSET
    callbacks

lifeVars == <<ref, numbered, told, callbacks>>

ClosedFrame(n) == [kind |-> "closed", n |-> n]
ActionFrame(n) == [kind |-> "action", n |-> n]

Live(n) == ref[n] \in {"held", "kept"}
Among(n, frames) == \E k \in DOMAIN frames : frames[k].n = n

Init ==
    /\ ref = [n \in Notifs |-> "none"]
    /\ numbered = [n \in Notifs |-> FALSE]
    /\ told = [n \in Notifs |-> FALSE]
    /\ callbacks = << >>

Create(n) ==
    /\ ref[n] = "none"
    /\ ref' = [ref EXCEPT ![n] = "held"]
    /\ UNCHANGED <<numbered, told, callbacks>>

(* A show, also one that fails, may give the notification a number and may *)
(* let its close be told once more.                                        *)
Show(n) ==
    /\ Live(n)
    /\ numbered' \in {numbered, [numbered EXCEPT ![n] = TRUE]}
    /\ told' \in {told, [told EXCEPT ![n] = FALSE]}
    /\ UNCHANGED <<ref, callbacks>>

(* "closed" is emitted of a live object, and not once more until a show.   *)
TellsClosed(n, below) ==
    /\ Live(n) /\ ~ told[n]
    /\ told' = [told EXCEPT ![n] = TRUE]
    /\ callbacks' = <<ClosedFrame(n)>> \o below
    /\ UNCHANGED <<ref, numbered>>

(* It may come inside another callback, but not inside another "closed" of *)
(* the same notification.                                                  *)
Closes(n) ==
    /\ \A k \in DOMAIN callbacks : callbacks[k] # ClosedFrame(n)
    /\ TellsClosed(n, callbacks)

(* An action is invoked of a notification with an id, and never inside     *)
(* another callback.                                                       *)
Activates(n) ==
    /\ callbacks = << >>
    /\ Live(n) /\ numbered[n]
    /\ callbacks' = <<ActionFrame(n)>>
    /\ UNCHANGED <<ref, numbered, told>>

(* A callback returns.  The last one of a notification nobody holds takes  *)
(* the object with it; "closed" takes the id.                              *)
Returns(n) ==
    /\ callbacks # << >> /\ Head(callbacks).n = n
    /\ callbacks' = Tail(callbacks)
    /\ numbered' = IF Head(callbacks).kind = "closed"
                   THEN [numbered EXCEPT ![n] = FALSE] ELSE numbered
    /\ ref' = IF ref[n] = "kept" /\ ~ Among(n, Tail(callbacks))
              THEN [ref EXCEPT ![n] = "gone"] ELSE ref
    /\ UNCHANGED told

(* The close that follows an action. *)
ReturnsToClose(n) ==
    /\ callbacks # << >> /\ Head(callbacks) = ActionFrame(n)
    /\ TellsClosed(n, Tail(callbacks))

Release(n) ==
    /\ ref[n] = "held"
    /\ ref' = [ref EXCEPT ![n] = IF Among(n, callbacks) THEN "kept" ELSE "gone"]
    /\ UNCHANGED <<numbered, told, callbacks>>

Next ==
    \E n \in Notifs :
        \/ Create(n) \/ Show(n) \/ Closes(n) \/ Activates(n)
        \/ Returns(n) \/ ReturnsToClose(n) \/ Release(n)

Spec == Init /\ [][Next]_lifeVars
-----------------------------------------------------------------------------
(* What the promise is worth to a callback: it runs of an object that is   *)
(* there, for which nothing but callbacks of it stand in once the          *)
(* application has let go; an action's callback is the outermost; and no   *)
(* callback of a notification runs inside the same one.                    *)
CallbacksAreSafe ==
    /\ \A k \in DOMAIN callbacks :
           /\ Live(callbacks[k].n)
           /\ callbacks[k].kind = "action" => k = Len(callbacks)
    /\ \A n \in Notifs : ref[n] = "kept" => Among(n, callbacks)
    /\ \A j, k \in DOMAIN callbacks :
           j # k => callbacks[j] # callbacks[k]
=============================================================================

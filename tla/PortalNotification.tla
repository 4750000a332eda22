------------------------- MODULE PortalNotification -------------------------
(***************************************************************************)
(* NotifyNotification objects of a confined application, which talk to the *)
(* desktop portal (org.freedesktop.portal.Notification).  The portal does  *)
(* not expire notifications and does not say when one is dismissed: the    *)
(* library keeps a timer of its own for each notification, numbers         *)
(* notifications itself, and takes an ActionInvoked for a close.           *)
(*                                                                         *)
(* As in NotifyNotification, calls are synchronous, signals are queued and *)
(* emitted one at a time by the main loop.  Here "closed" is also emitted  *)
(* from a timer and from notify_notification_close () itself, so that      *)
(* callbacks nest: stack holds those that are running, innermost first.    *)
(*                                                                         *)
(* What may happen beyond the ordinary is said by Environment, which Init  *)
(* picks from the constant Environments:                                   *)
(*   "again"    the application shows a notification after its close       *)
(*   "update"   it shows one that has not been closed (to update it)       *)
(*   "reshow"   it shows one inside that notification's own callbacks      *)
(*   "fail"     calls fail, icons cannot be read                           *)
(***************************************************************************)
EXTENDS Integers, Sequences

CONSTANTS
    Notifs,       \* the NotifyNotification objects the application creates
    Timed,        \* those with a positive timeout
    Keys,         \* action ids
    Environments, \* see above
    MaxId,        \* bound: portal_notification_count
    MaxQueue,     \* bound: signals waiting for the main loop
    None

ASSUME ConstantsAssumption ==
    /\ MaxId \in Nat /\ MaxQueue \in Nat
    /\ Timed \subseteq Notifs /\ None \notin Notifs
    /\ Environments \subseteq SUBSET {"again", "update", "reshow", "fail"}

Ids == 1 .. MaxId

UNSET == -1
EXPIRED == 1
DISMISSED == 2
API_REQUEST == 3
Reasons == {EXPIRED, DISMISSED, API_REQUEST}

(* "of": the notification the user acted on; the client never reads it.    *)
Signal   == [id : Ids, key : Keys, of : Notifs]
NoSignal == [id |-> 0, key |-> None, of |-> None]

Frame == [kind : {"closed", "action"}, n : Notifs]
ClosedFrame(n) == [kind |-> "closed", n |-> n]
ActionFrame(n) == [kind |-> "action", n |-> n]
NoFrame == [kind |-> "none", n |-> None]

VARIABLES
    id, closed_reason, portal_timeout_id, activating, actions,
    ref,         \* none | held | kept (only by running callbacks) | gone
    handlers,    \* notifications whose proxy_signal_handler is connected
    portal_notification_count,
    queue, signal, todo, stack,
    displayed,   \* the portal: the notification shown under each id ...
    offered,     \* ... and the actions it was added with
    Environment  \* what may happen, never changed

notifyVars == <<id, closed_reason, portal_timeout_id, activating, actions>>
lifeVars   == <<ref, handlers>>
portalVars == <<displayed, offered>>
countVars  == <<portal_notification_count, Environment>>
vars == <<notifyVars, lifeVars, countVars, queue, signal, todo, stack,
          portalVars>>

Live(n) == ref[n] \in {"held", "kept"}
Running == {stack[k] : k \in 1 .. Len(stack)}
InCallback(n) == \E f \in Running : f.n = n
Top == IF stack = << >> THEN NoFrame ELSE Head(stack)

Init ==
    /\ id = [n \in Notifs |-> 0]
    /\ closed_reason = [n \in Notifs |-> UNSET]
    /\ portal_timeout_id = [n \in Notifs |-> FALSE]
    /\ activating = [n \in Notifs |-> FALSE]
    /\ actions = [n \in Notifs |-> {}]
    /\ ref = [n \in Notifs |-> "none"]
    /\ handlers = {}
    /\ portal_notification_count = 0
    /\ Environment \in Environments
    /\ queue = << >> /\ signal = NoSignal /\ todo = {} /\ stack = << >>
    /\ displayed = [i \in Ids |-> None]
    /\ offered = [i \in Ids |-> {}]

(* Application code runs from the main loop, or in the innermost callback. *)
AppRuns == signal = NoSignal \/ stack # << >>
Callable(n) == AppRuns /\ Live(n)

New(n) ==
    /\ AppRuns /\ ref[n] = "none"
    /\ ref' = [ref EXCEPT ![n] = "held"]
    /\ UNCHANGED <<notifyVars, handlers, countVars, queue,
                   signal, todo, stack, portalVars>>

SetActions(n, keys) ==
    /\ actions' = [actions EXCEPT ![n] = keys]
    /\ UNCHANGED <<id, closed_reason, portal_timeout_id, activating, lifeVars,
                   countVars, queue, signal, todo, stack,
                   portalVars>>
AddAction(n, k) == Callable(n) /\ SetActions(n, actions[n] \cup {k})
ClearActions(n) == Callable(n) /\ SetActions(n, {})

(***************************************************************************)
(* notify_notification_show () and add_portal_notification ().             *)
(***************************************************************************)
ShowStarts(n) ==
    /\ Callable(n)
    /\ InCallback(n) => "reshow" \in Environment
    /\ closed_reason[n] # UNSET /\ ~ InCallback(n) => "again" \in Environment
    /\ id[n] # 0 /\ closed_reason[n] = UNSET => "update" \in Environment
    /\ handlers' = handlers \cup {n}
    /\ UNCHANGED <<closed_reason, activating, actions, ref, queue, signal,
                   todo, stack>>

(* Its number, kept from the first time on. *)
Numbered(n) ==
    IF id[n] = 0
    THEN /\ portal_notification_count < MaxId
         /\ portal_notification_count' = portal_notification_count + 1
         /\ UNCHANGED Environment
         /\ id' = [id EXCEPT ![n] = portal_notification_count + 1]
    ELSE UNCHANGED <<id, countVars>>

(* Mutant: the timer is cleared after it was armed. *)
ShowSucceedsUntimed(n) ==
    /\ ShowStarts(n)
    /\ Numbered(n)
    /\ displayed' = [displayed EXCEPT ![id'[n]] = n]
    /\ offered' = [offered EXCEPT ![id'[n]] = actions[n]]
    /\ portal_timeout_id' = [portal_timeout_id EXCEPT ![n] = FALSE]

(* RemoveNotification of what was displayed before, if any, its result     *)
(* ignored, then AddNotification, which replaces it anyway.                *)
ShowSucceeds(n) ==
    /\ ShowStarts(n)
    /\ Numbered(n)
    /\ displayed' = [displayed EXCEPT ![id'[n]] = n]
    /\ offered' = [offered EXCEPT ![id'[n]] = actions[n]]
    /\ portal_timeout_id' = [portal_timeout_id EXCEPT ![n] = n \in Timed]

(* The icon's file cannot be read: an early return. *)
ShowRefused(n) ==
    /\ "fail" \in Environment
    /\ ShowStarts(n)
    /\ UNCHANGED <<id, countVars, portal_timeout_id,
                   portalVars>>

(* AddNotification fails, after a removal that succeeded or failed.        *)
ShowFails(n) ==
    /\ "fail" \in Environment
    /\ ShowStarts(n)
    /\ Numbered(n)
    /\ portal_timeout_id' = [portal_timeout_id EXCEPT ![n] = FALSE]
    /\ \/ UNCHANGED portalVars
       \/ /\ id[n] # 0 /\ closed_reason[n] = UNSET
          /\ displayed' = [displayed EXCEPT ![id[n]] = None]
          /\ offered' = [offered EXCEPT ![id[n]] = {}]

(* Mutant: disposal leaves the timer armed. *)
FinalizesTimed(n) ==
    /\ ref' = [ref EXCEPT ![n] = "gone"]
    /\ handlers' = handlers \ {n}
    /\ todo' = todo \ {n}
    /\ UNCHANGED portal_timeout_id

(***************************************************************************)
(* close_notification (): the callback "closed" on top of what is running. *)
(***************************************************************************)
Finalizes(n) ==
    /\ ref' = [ref EXCEPT ![n] = "gone"]
    /\ portal_timeout_id' = [portal_timeout_id EXCEPT ![n] = FALSE]
    /\ handlers' = handlers \ {n}
    /\ todo' = todo \ {n}

(* Mutant: "closed" is emitted also of what is closed. *)
BeginsAgain(n, reason, below) ==
    /\ closed_reason' = [closed_reason EXCEPT ![n] = reason]
    /\ stack' = <<ClosedFrame(n)>> \o below

Begins(n, reason, below) ==
    /\ closed_reason[n] = UNSET
    /\ closed_reason' = [closed_reason EXCEPT ![n] = reason]
    /\ stack' = <<ClosedFrame(n)>> \o below

(* Mutant: nothing is asked of the portal when the reason is set. *)
RemovesUnlessClosed(n, reason) ==
    /\ portal_timeout_id' = [portal_timeout_id EXCEPT ![n] = FALSE]
    /\ \/ /\ displayed' = [i \in Ids |-> IF i = id[n] THEN None
                                         ELSE displayed[i]]
          /\ offered' = [i \in Ids |-> IF i = id[n] THEN {} ELSE offered[i]]
          /\ Begins(n, reason, stack)
       \/ /\ closed_reason[n] # UNSET
          /\ UNCHANGED <<closed_reason, stack, portalVars>>

(* remove_portal_notification (). *)
Removes(n, reason) ==
    /\ portal_timeout_id' = [portal_timeout_id EXCEPT ![n] = FALSE]
    /\ displayed' = [i \in Ids |-> IF i = id[n] THEN None ELSE displayed[i]]
    /\ offered' = [i \in Ids |-> IF i = id[n] THEN {} ELSE offered[i]]
    /\ \/ Begins(n, reason, stack)
       \/ closed_reason[n] # UNSET /\ UNCHANGED <<closed_reason, stack>>

RemoveFails(n) ==
    /\ "fail" \in Environment
    /\ portal_timeout_id' = [portal_timeout_id EXCEPT ![n] = FALSE]
    /\ UNCHANGED <<closed_reason, stack, portalVars>>

(* notify_notification_close () *)
Close(n) ==
    /\ Callable(n)
    /\ Removes(n, API_REQUEST) \/ RemoveFails(n)
    /\ UNCHANGED <<id, activating, actions, lifeVars,
                   countVars, queue, signal, todo>>

(* Mutant: the timer only forgets itself. *)
TimeoutFiresInVain(n) ==
    /\ signal = NoSignal /\ stack = << >>
    /\ portal_timeout_id[n]
    /\ portal_timeout_id' = [portal_timeout_id EXCEPT ![n] = FALSE]
    /\ UNCHANGED <<id, closed_reason, activating, actions, lifeVars, countVars,
                   queue, signal, todo, stack, portalVars>>

(* on_portal_timeout (): a source of the main loop. *)
TimeoutFires(n) ==
    /\ signal = NoSignal /\ stack = << >>
    /\ portal_timeout_id[n]
    /\ Removes(n, EXPIRED) \/ RemoveFails(n)
    /\ UNCHANGED <<id, activating, actions, lifeVars,
                   countVars, queue, signal, todo>>

Unref(n) ==
    /\ AppRuns /\ ref[n] = "held"
    /\ IF InCallback(n)
       THEN /\ ref' = [ref EXCEPT ![n] = "kept"]
            /\ UNCHANGED <<handlers, todo, portal_timeout_id>>
       ELSE Finalizes(n)
    /\ UNCHANGED <<id, closed_reason, activating, actions,
                   countVars, queue, signal, stack,
                   portalVars>>

(***************************************************************************)
(* The main loop and proxy_g_signal_cb.                                    *)
(***************************************************************************)
Dispatch ==
    /\ signal = NoSignal /\ stack = << >>
    /\ queue # << >>
    /\ signal' = Head(queue)
    /\ queue' = Tail(queue)
    /\ todo' = handlers
    /\ UNCHANGED <<notifyVars, lifeVars, countVars, stack,
                   portalVars>>

Visit(n) ==
    /\ stack = << >>
    /\ n \in todo
    /\ todo' = todo \ {n}
    /\ UNCHANGED <<id, portal_timeout_id, actions, lifeVars,
                   countVars, queue, signal, portalVars>>

Ignore(n) ==
    /\ Visit(n)
    /\ signal.id # id[n]
    /\ UNCHANGED <<closed_reason, activating, stack>>

(* The action's callback, if the notification has that action; else only   *)
(* the close that follows it.                                              *)
ActivateBegins(n) ==
    /\ Visit(n)
    /\ signal.id = id[n] /\ signal.key \in actions[n]
    /\ activating' = [activating EXCEPT ![n] = TRUE]
    /\ stack' = <<ActionFrame(n)>>
    /\ UNCHANGED closed_reason

(* Mutants: the id is not compared; an action that is not known is ignored.*)
UnknownActionOfAny(n) ==
    /\ Visit(n)
    /\ signal.key \notin actions[n]
    /\ \/ Begins(n, DISMISSED, stack)
       \/ closed_reason[n] # UNSET /\ UNCHANGED <<closed_reason, stack>>
    /\ UNCHANGED activating
UnknownActionIgnored(n) ==
    /\ Visit(n)
    /\ signal.id = id[n] /\ signal.key \notin actions[n]
    /\ UNCHANGED <<closed_reason, activating, stack>>

UnknownAction(n) ==
    /\ Visit(n)
    /\ signal.id = id[n] /\ signal.key \notin actions[n]
    /\ \/ Begins(n, DISMISSED, stack)
       \/ closed_reason[n] # UNSET /\ UNCHANGED <<closed_reason, stack>>
    /\ UNCHANGED activating

(* The innermost callback was n's: what held the notification besides the  *)
(* application is given up when no callback of n is left.                  *)
Pops(n) ==
    /\ stack' = Tail(stack)
    /\ IF ref[n] = "kept" /\ \A k \in 2 .. Len(stack) : stack[k].n # n
       THEN Finalizes(n)
       ELSE UNCHANGED <<ref, portal_timeout_id, handlers, todo>>

ActivateEnds(n) ==
    /\ Top = ActionFrame(n)
    /\ activating' = [activating EXCEPT ![n] = FALSE]
    /\ \/ /\ Begins(n, DISMISSED, Tail(stack))
          /\ UNCHANGED <<lifeVars, todo, portal_timeout_id>>
       \/ /\ closed_reason[n] # UNSET
          /\ Pops(n)
          /\ UNCHANGED closed_reason
    /\ UNCHANGED <<id, actions, countVars, queue, signal,
                   portalVars>>

(* Mutant: the id is reset to the wrong value. *)
CloseEndsUnset(n) ==
    /\ Top = ClosedFrame(n)
    /\ id' = [id EXCEPT ![n] = UNSET]
    /\ Pops(n)
    /\ UNCHANGED <<closed_reason, activating, actions, countVars, queue, signal,
                   portalVars>>

CloseEnds(n) ==
    /\ Top = ClosedFrame(n)
    /\ id' = [id EXCEPT ![n] = 0]
    /\ Pops(n)
    /\ UNCHANGED <<closed_reason, activating, actions,
                   countVars, queue, signal, portalVars>>

EndEmission ==
    /\ signal # NoSignal /\ stack = << >> /\ todo = {}
    /\ signal' = NoSignal
    /\ UNCHANGED <<notifyVars, lifeVars, countVars, queue,
                   todo, stack, portalVars>>

(***************************************************************************)
(* The user: an activation closes the notification and is reported, a      *)
(* dismissal is not.                                                       *)
(***************************************************************************)
Vanishes(i) ==
    /\ displayed[i] # None
    /\ displayed' = [displayed EXCEPT ![i] = None]
    /\ offered' = [offered EXCEPT ![i] = {}]
    /\ UNCHANGED <<notifyVars, lifeVars, countVars, signal,
                   todo, stack>>

UserActivates(i, k) ==
    /\ Vanishes(i)
    /\ k \in offered[i] \cup (Keys \cap {"default-action"})
    /\ Len(queue) < MaxQueue
    /\ queue' = Append(queue, [id |-> i, key |-> k, of |-> displayed[i]])

UserDismisses(i) == Vanishes(i) /\ UNCHANGED queue

-----------------------------------------------------------------------------
Handler(n) == \/ Ignore(n) \/ ActivateBegins(n) \/ UnknownAction(n)
              \/ ActivateEnds(n) \/ CloseEnds(n)

App(n) == \/ New(n) \/ ClearActions(n) \/ Close(n) \/ Unref(n)
          \/ \E k \in Keys \ {"default-action"} : AddAction(n, k)
          \/ ShowSucceeds(n) \/ ShowRefused(n) \/ ShowFails(n)

MainLoop == Dispatch \/ EndEmission \/ \E n \in Notifs : Handler(n)

User == \E i \in Ids : UserDismisses(i) \/ \E k \in Keys : UserActivates(i, k)

Next == MainLoop \/ User \/ \E n \in Notifs : App(n) \/ TimeoutFires(n)

Spec == Init /\ [][Next]_vars

(* Handlers return, the main loop runs and serves each of its sources: a   *)
(* timer that is due again and again is served, however busy the rest is.  *)
FairSpec == /\ Spec
            /\ WF_vars(MainLoop)
            /\ \A n \in Notifs : SF_vars(TimeoutFires(n))
-----------------------------------------------------------------------------
TypeOK ==
    /\ id \in [Notifs -> 0 .. MaxId]
    /\ closed_reason \in [Notifs -> Reasons \cup {UNSET}]
    /\ portal_timeout_id \in [Notifs -> BOOLEAN]
    /\ activating \in [Notifs -> BOOLEAN]
    /\ actions \in [Notifs -> SUBSET Keys]
    /\ ref \in [Notifs -> {"none", "held", "kept", "gone"}]
    /\ handlers \subseteq Notifs
    /\ portal_notification_count \in 0 .. MaxId
    /\ queue \in Seq(Signal) /\ Len(queue) <= MaxQueue
    /\ signal \in Signal \cup {NoSignal}
    /\ todo \subseteq Notifs
    /\ stack \in Seq(Frame)
    /\ displayed \in [Ids -> Notifs \cup {None}]
    /\ offered \in [Ids -> SUBSET Keys]
    /\ Environment \in Environments

OnScreen(n) == \E i \in Ids : displayed[i] = n

(* Whatever the application does in nested callbacks, no callback runs, no *)
(* handler is connected and no timer (which holds no reference) is armed   *)
(* for an object that is gone, and only callbacks outlive the              *)
(* application's reference.                                                *)
CallbacksOnLiveObjects ==
    /\ \A f \in Running : Live(f.n)
    /\ \A n \in Notifs : ref[n] = "kept" => InCallback(n)
    /\ \A n \in Notifs : n \in todo \cup handlers \/ portal_timeout_id[n]
                             => Live(n)

(* A notification's callbacks nest at most once each, so "closed" is not   *)
(* emitted from inside its own emission, nor an action inside "closed".    *)
CallbacksDoNotRecur ==
    \A j, k \in 1 .. Len(stack) :
        j < k /\ stack[j].n = stack[k].n =>
            stack[j].kind = "closed" /\ stack[k].kind = "action"

(* For an application that shows a notification again only once it was     *)
(* closed, and not in that notification's callbacks, and a portal that     *)
(* serves its calls:                                                       *)
Ordinary == Environment \subseteq {"again"}

(* What is on screen can be closed and replaced: its object knows its id.  *)
DisplayedIsReachable ==
    Ordinary =>
        \A i \in Ids, n \in Notifs :
            displayed[i] = n /\ Live(n) => id[n] = i

(* The portal does not expire notifications: one with a timeout that is on *)
(* screen has its timer armed, through nested callbacks and re-shows.      *)
ExpiryIsScheduled ==
    Ordinary =>
        \A n \in Timed : OnScreen(n) /\ Live(n) => portal_timeout_id[n]

(* "closed" is emitted of a notification that is not on screen.            *)
ClosedIsTrue ==
    Ordinary =>
        \A n \in Notifs :
            InCallback(n) /\ Top = ClosedFrame(n) => ~ OnScreen(n)

(* notify_notification_close () that returns TRUE has hidden what its      *)
(* notification shows.                                                     *)
CloseHides ==
    [][Ordinary =>
          \A n \in Notifs : Close(n) /\ ~ RemoveFails(n) => ~ OnScreen(n)']_vars

(* Objects number their notifications from one counter, and keep or drop   *)
(* their numbers; still, whatever the environment does, what the user does *)
(* to one notification is told to no other's object, ...                   *)
SignalsReachTheirOwner ==
    \A n \in Notifs : signal # NoSignal /\ signal.id = id[n] => signal.of = n

(* ... and no call, callback or timer of one takes another off the screen. *)
OthersStayOnScreen ==
    [][\A n, m \in Notifs :
          m # n /\ OnScreen(m) /\ (App(n) \/ Handler(n) \/ TimeoutFires(n))
              => OnScreen(m)']_vars

(* A bubble with a timeout goes away, or its object does.                  *)
Expires ==
    \A n \in Timed :
        Ordinary /\ OnScreen(n) /\ Live(n) ~> ~ OnScreen(n) \/ ~ Live(n)

(* The end of a notification that has an id is told the application: when  *)
(* its action has been handled, when its timer removed it, when the        *)
(* application closed it.                                                  *)
HandlesClose(n) ==
    \/ ActivateEnds(n) \/ UnknownAction(n)
    \/ (Close(n) \/ TimeoutFires(n)) /\ ~ RemoveFails(n)
TellsOfClose(n) ==
    id[n] # 0 /\ ClosedFrame(n) \notin Running /\ HandlesClose(n)
        => ClosedFrame(n) \in Running'

(* NEWS of 0.8.8 lists as fixed that "the closed signal only fires once".  *)
EveryCloseIsTold == [][\A n \in Notifs : TellsOfClose(n)]_vars

(* It is told when no notification is shown after its close, however often *)
(* it is updated and whichever calls fail.                                 *)
FirstCloseIsTold ==
    [][Environment \subseteq {"update", "fail"} =>
          \A n \in Notifs : TellsOfClose(n)]_vars

(* The promise to the application, whatever fails and however callbacks    *)
(* nest: NotificationLife.                                                 *)
Life == INSTANCE NotificationLife WITH
            numbered <- [n \in Notifs |-> id[n] # 0],
            told <- [n \in Notifs |-> closed_reason[n] # UNSET],
            callbacks <- stack
KeepsItsPromise == Life!Spec
=============================================================================

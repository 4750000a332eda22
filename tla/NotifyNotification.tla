------------------------- MODULE NotifyNotification -------------------------
(***************************************************************************)
(* NotifyNotification objects of libnotify/notification.c talking to the   *)
(* org.freedesktop.Notifications daemon (the desktop portal is another     *)
(* module).                                                                *)
(*                                                                         *)
(* The client is single-threaded.  A method call on the D-Bus proxy is     *)
(* synchronous and does not run the main loop, so the call, the daemon's   *)
(* handling of it and the reply are one step; the signals the daemon sends *)
(* wait in one FIFO queue, and the main loop takes them one at a time.     *)
(* Each is emitted as "g-signal" to every connected notification, which    *)
(* compares ids (proxy_g_signal_cb) and may run application callbacks;     *)
(* inside them the application calls the API again.                        *)
(*                                                                         *)
(* What the daemon and the application may do beyond the ordinary is said  *)
(* by Environment, which Init picks from the constant Environments:        *)
(*   "restart"     the daemon dies, and a new one allocates ids afresh     *)
(*   "renumbers"   asked to replace an id it has closed by then, the       *)
(*                 daemon shows the notification under a new id, against   *)
(*                 the specification ("If replaces_id is not 0, the        *)
(*                 returned value is the same value as replaces_id")       *)
(*   "reshow"      a "closed" handler shows its own notification again     *)
(*   "lost_reply"  the daemon serves Notify, the client gets an error      *)
(*   "untokened"   actions may be invoked without an ActivationToken       *)
(***************************************************************************)
EXTENDS Integers, Sequences

CONSTANTS
    Notifs,       \* the NotifyNotification objects the application creates
    Keys,         \* action ids; "default" is the one daemons may always invoke
    Tokens,       \* activation tokens
    Environments, \* see above
    Launching,    \* those in which the application keeps launch contexts
    DaemonReasons,\* why the daemon closes a notification of its own accord
    MaxId,        \* bound: ids one daemon allocates
    MaxQueue,     \* bound: signals waiting for the main loop
    MaxEpoch,     \* bound: daemons started, one after the other
    None          \* NULL, "no token", "nobody"

ASSUME ConstantsAssumption ==
    /\ MaxId \in Nat \ {0} /\ MaxQueue \in Nat /\ MaxEpoch \in Nat \ {0}
    /\ None \notin Notifs /\ None \notin Tokens
    /\ DaemonReasons \subseteq {1, 2, 4}     \* EXPIRED, DISMISSED, UNDEFINED
    /\ Environments \subseteq
          SUBSET {"restart", "renumbers", "reshow", "lost_reply", "untokened"}

Ids == 1 .. MaxId
Epochs == 0 .. MaxEpoch                \* 0: nobody owns the bus name

UNSET == -1
EXPIRED == 1
DISMISSED == 2
API_REQUEST == 3
UNDEFINED == 4
Reasons == {EXPIRED, DISMISSED, API_REQUEST, UNDEFINED}

(***************************************************************************)
(* What travels from the daemon and the bus to the main loop.  "of" is the *)
(* notification the daemon meant (and, for an action, the token it sent    *)
(* with it): the client never reads them, properties do.                   *)
(***************************************************************************)
ClosedSignal == [kind : {"NotificationClosed"}, id : Ids, of : Notifs,
                 reason : Reasons]
ActionSignal == [kind : {"ActionInvoked"}, id : Ids, of : Notifs,
                 key : Keys, token : Tokens \cup {None}]
TokenSignal  == [kind : {"ActivationToken"}, id : Ids, of : Notifs,
                 token : Tokens]
OwnerChange  == [kind : {"NameOwnerChanged"}, owner : Epochs]
Signal       == ClosedSignal \cup ActionSignal \cup TokenSignal
NoSignal     == [kind |-> "none"]

(* The application code that is running: none, or a callback of n.         *)
Idle == [kind |-> "idle", n |-> None]
ClosedFrame(n) == [kind |-> "closed", n |-> n]
ActionFrame(n) == [kind |-> "action", n |-> n]

NoContext == [n |-> None, activation_token |-> None, sent |-> None]

VARIABLES
    \* NotifyNotificationPrivate
    id, closed_reason, activation_token, activating, actions,
    ref,         \* none | held | kept (only by a running callback) | gone
    handlers,    \* notifications whose proxy_signal_handler is connected
    \* the proxy and the main loop
    name_owner,  \* the daemon the proxy's calls are addressed to
    queue,       \* what the main loop has not taken yet
    signal,      \* the "g-signal" being emitted
    todo,        \* the handlers that emission has still to run
    frame,       \* the callback running
    context,     \* the launch context kept last: of n, with its token; sent
                 \* is the one the daemon sent for that activation
    \* the daemon
    daemon,      \* which daemon is running
    epochs,      \* how many have been started
    Environment, \* what may happen, never changed
    displayed,   \* the notification on screen under each id
    offered,     \* the actions it was sent with
    nextId,
    crossed      \* history: the ids on screen that were shown while a close
                 \* of the same id was on its way; only properties read it

notifyVars == <<id, closed_reason, activation_token, activating, actions>>
lifeVars   == <<ref, handlers>>
loopVars   == <<signal, todo, frame>>
screenVars == <<displayed, offered, nextId, crossed>>
busVars    == <<daemon, epochs, Environment>>
stateVars  == <<notifyVars, lifeVars, name_owner, queue, loopVars, screenVars,
                busVars>>
vars == <<stateVars, context>>

Live(n) == ref[n] \in {"held", "kept"}

Init ==
    /\ id = [n \in Notifs |-> 0]
    /\ closed_reason = [n \in Notifs |-> UNSET]
    /\ activation_token = [n \in Notifs |-> None]
    /\ activating = [n \in Notifs |-> FALSE]
    /\ actions = [n \in Notifs |-> {}]
    /\ ref = [n \in Notifs |-> "none"]
    /\ handlers = {}
    /\ name_owner = 1 /\ daemon = 1 /\ epochs = 1
    /\ Environment \in Environments
    /\ queue = << >>
    /\ signal = NoSignal /\ todo = {} /\ frame = Idle
    /\ context = NoContext
    /\ displayed = [i \in Ids |-> None]
    /\ offered = [i \in Ids |-> {}]
    /\ nextId = 1
    /\ crossed = {}

(***************************************************************************)
(* The application.  It runs from the main loop between two emissions, or  *)
(* inside a callback, and calls the API on notifications it may still use. *)
(***************************************************************************)
AppRuns == signal = NoSignal \/ frame # Idle
Callable(n) == AppRuns /\ Live(n)

(* notify_notification_new () *)
New(n) ==
    /\ AppRuns /\ ref[n] = "none"
    /\ ref' = [ref EXCEPT ![n] = "held"]
    /\ UNCHANGED <<notifyVars, handlers, name_owner, queue, loopVars,
                   screenVars, busVars, context>>

(* An action of a known id is replaced: as a set of ids, one more or none. *)
AddAction(n, k) ==
    /\ Callable(n)
    /\ actions' = [actions EXCEPT ![n] = @ \cup {k}]
    /\ UNCHANGED <<id, closed_reason, activation_token, activating, lifeVars,
                   name_owner, queue, loopVars, screenVars, busVars, context>>

ClearActions(n) ==
    /\ Callable(n)
    /\ actions' = [actions EXCEPT ![n] = {}]
    /\ UNCHANGED <<id, closed_reason, activation_token, activating, lifeVars,
                   name_owner, queue, loopVars, screenVars, busVars, context>>

(* A call goes to the owner the proxy knows, or, when it knows none, to    *)
(* the well-known name.                                                    *)
Reachable == daemon # 0 /\ name_owner \in {0, daemon}

(* The id Notify answers with: the one it is asked to replace, be it still *)
(* on screen or not.                                                       *)
NotifyId(replaces) ==
    IF replaces # 0
       /\ (displayed[replaces] # None \/ "renumbers" \notin Environment)
    THEN replaces ELSE nextId

(* The client has still to hear, or to hear out, that i was closed.        *)
ClosesId(s, i) == s.kind = "NotificationClosed" /\ s.id = i
CloseIsPending(i) ==
    \/ ClosesId(signal, i)
    \/ \E k \in 1 .. Len(queue) : ClosesId(queue[k], i)

(* The daemon's side of Notify. *)
Displays(n, i) ==
    /\ i \in Ids
    /\ displayed' = [displayed EXCEPT ![i] = n]
    /\ offered' = [offered EXCEPT ![i] = actions[n]]
    /\ nextId' = IF i >= nextId THEN i + 1 ELSE nextId
    /\ crossed' = IF CloseIsPending(i) THEN crossed \cup {i}
                                       ELSE crossed \ {i}

(* Mutant: a second show does not forget that the notification was closed. *)
ShowStartsClosed(n) ==
    /\ Callable(n)
    /\ frame = ClosedFrame(n) => "reshow" \in Environment
    /\ handlers' = handlers \cup {n}
    /\ UNCHANGED <<closed_reason, activation_token, activating, actions, ref,
                   name_owner, queue, loopVars, busVars, context>>

(* What notify_notification_show () does before its call.                  *)
ShowStarts(n) ==
    /\ Callable(n)
    /\ frame = ClosedFrame(n) => "reshow" \in Environment
    /\ handlers' = handlers \cup {n}
    /\ closed_reason' = [closed_reason EXCEPT ![n] = UNSET]
    /\ UNCHANGED <<activation_token, activating, actions, ref, name_owner,
                   queue, loopVars, busVars, context>>

(* Mutant: the id in the reply is only taken by a notification without one.*)
ShowSucceedsKeepsId(n) ==
    /\ ShowStarts(n)
    /\ Reachable
    /\ LET i == NotifyId(id[n]) IN
         /\ Displays(n, i)
         /\ id' = [id EXCEPT ![n] = IF @ = 0 THEN i ELSE @]

(* Mutant: the id is static, that of whichever notification came last.     *)
ShowSucceedsStaticId(n) ==
    /\ ShowStarts(n)
    /\ Reachable
    /\ \E m \in Notifs : LET i == NotifyId(id[m]) IN
         /\ Displays(n, i)
         /\ id' = [id EXCEPT ![n] = i]

ShowSucceeds(n) ==
    /\ ShowStarts(n)
    /\ Reachable
    /\ LET i == NotifyId(id[n]) IN
         /\ Displays(n, i)
         /\ id' = [id EXCEPT ![n] = i]

(* No daemon where the proxy sends the call, or one that refuses it.       *)
ShowFails(n) ==
    /\ ShowStarts(n)
    /\ UNCHANGED <<id, screenVars>>

ShowLosesReply(n) ==
    /\ "lost_reply" \in Environment
    /\ ShowStarts(n)
    /\ Reachable
    /\ Displays(n, NotifyId(id[n]))
    /\ UNCHANGED id

(* The daemon takes i off the screen and says so. *)
Hides(i, reason) ==
    /\ displayed[i] # None
    /\ Len(queue) < MaxQueue
    /\ displayed' = [displayed EXCEPT ![i] = None]
    /\ offered' = [offered EXCEPT ![i] = {}]
    /\ queue' = Append(queue, [kind |-> "NotificationClosed", id |-> i,
                               of |-> displayed[i], reason |-> reason])
    /\ crossed' = crossed \ {i}
    /\ UNCHANGED nextId

(* notify_notification_close (): CloseNotification of an id that is not on *)
(* screen is an error, and an error changes nothing.                       *)
Close(n) ==
    /\ Callable(n)
    /\ Reachable
    /\ id[n] # 0
    /\ Hides(id[n], API_REQUEST)
    /\ UNCHANGED <<notifyVars, lifeVars, name_owner, loopVars, busVars,
                   context>>

(* Mutant: disposal leaves the handler connected. *)
FinalizesConnected(n) ==
    /\ ref' = [ref EXCEPT ![n] = "gone"]
    /\ UNCHANGED <<handlers, todo>>

(* Disposal disconnects the "g-signal" handler. *)
Finalizes(n) ==
    /\ ref' = [ref EXCEPT ![n] = "gone"]
    /\ handlers' = handlers \ {n}
    /\ todo' = todo \ {n}

(* g_object_unref () of the application's reference: a handler that is     *)
(* running keeps its notification until it returns.                        *)
Unref(n) ==
    /\ AppRuns /\ ref[n] = "held"
    /\ IF frame.n = n
       THEN /\ ref' = [ref EXCEPT ![n] = "kept"]
            /\ UNCHANGED <<handlers, todo>>
       ELSE Finalizes(n)
    /\ UNCHANGED <<notifyVars, name_owner, queue, signal, frame, screenVars,
                   busVars, context>>

(***************************************************************************)
(* The launch context of an action's activation (launch-context.c), made   *)
(* in an action's callback and kept by the application: it launches        *)
(* programs with it when it likes, also after the callback, after the      *)
(* notification was activated again or closed, or is gone.                 *)
(***************************************************************************)
(* Mutant: the context is made outside of the callback as well. *)
notification_app_launch_context_new_any(n) ==
    /\ Environment \in Launching
    /\ Callable(n)
    /\ activation_token[n] # None
    /\ context' = [n |-> n, activation_token |-> activation_token[n],
                   sent |-> IF frame = ActionFrame(n) THEN signal.token
                            ELSE None]
    /\ UNCHANGED stateVars

(* notify_notification_get_activation_app_launch_context (): none without  *)
(* a token.                                                                *)
notification_app_launch_context_new(n) ==
    /\ Environment \in Launching
    /\ Callable(n) /\ activating[n]
    /\ activation_token[n] # None
    /\ context' = [n |-> n, activation_token |-> activation_token[n],
                   sent |-> signal.token]
    /\ UNCHANGED stateVars

(* The application has no more use for it. *)
notification_app_launch_context_finalize ==
    /\ AppRuns /\ context # NoContext
    /\ context' = NoContext
    /\ UNCHANGED stateVars

(* Mutant: the token is that of the notification. *)
get_startup_notify_id_of_notification(c) ==
    IF c.n = None THEN None ELSE activation_token[c.n]

get_startup_notify_id(c) == c.activation_token

(***************************************************************************)
(* The main loop and proxy_g_signal_cb.                                    *)
(***************************************************************************)
Dispatch ==
    /\ signal = NoSignal
    /\ queue # << >>
    /\ queue' = Tail(queue)
    /\ IF Head(queue).kind = "NameOwnerChanged"
       THEN name_owner' = Head(queue).owner /\ UNCHANGED <<signal, todo>>
       ELSE /\ signal' = Head(queue)
            /\ todo' = handlers
            /\ UNCHANGED name_owner
    /\ UNCHANGED <<notifyVars, lifeVars, frame, screenVars, busVars, context>>

(* proxy_g_signal_cb is run on n; Mine says it gets past the id check.     *)
Visit(n) ==
    /\ frame = Idle
    /\ n \in todo
    /\ todo' = todo \ {n}
    /\ UNCHANGED <<actions, lifeVars, name_owner, queue, signal, screenVars,
                   busVars, context>>
(* Mutant: the id check is missing. *)
MineAlways(n) == Live(n)

Mine(n) == signal.id = id[n]

Ignore(n) ==
    /\ Visit(n)
    /\ ~ Mine(n)
    /\ UNCHANGED <<id, closed_reason, activation_token, activating, frame>>

(* close_notification () up to the emission of "closed".                   *)
CloseBegins(n) ==
    /\ Visit(n)
    /\ Mine(n) /\ signal.kind = "NotificationClosed"
    /\ IF closed_reason[n] = UNSET
       THEN /\ closed_reason' = [closed_reason EXCEPT ![n] = signal.reason]
            /\ frame' = ClosedFrame(n)
       ELSE UNCHANGED <<closed_reason, frame>>
    /\ UNCHANGED <<id, activation_token, activating>>

(* Mutant: a token that is still there is not replaced. *)
TokenArrivesOnce(n) ==
    /\ Visit(n)
    /\ Mine(n) /\ signal.kind = "ActivationToken"
    /\ activation_token' = [activation_token EXCEPT ![n] =
                               IF @ = None THEN signal.token ELSE @]
    /\ UNCHANGED <<id, closed_reason, activating, frame>>

TokenArrives(n) ==
    /\ Visit(n)
    /\ Mine(n) /\ signal.kind = "ActivationToken"
    /\ activation_token' = [activation_token EXCEPT ![n] = signal.token]
    /\ UNCHANGED <<id, closed_reason, activating, frame>>

(* activate_action () up to the action's callback; it returns early when   *)
(* the notification has no such action.                                    *)
ActivateBegins(n) ==
    /\ Visit(n)
    /\ Mine(n) /\ signal.kind = "ActionInvoked"
    /\ IF signal.key \in actions[n]
       THEN /\ activating' = [activating EXCEPT ![n] = TRUE]
            /\ frame' = ActionFrame(n)
       ELSE UNCHANGED <<activating, frame>>
    /\ UNCHANGED <<id, closed_reason, activation_token>>

(* The handler of n returns, and with it the reference its closure held.   *)
HandlerReturns(n) ==
    /\ frame' = Idle
    /\ IF ref[n] = "kept" THEN Finalizes(n)
                          ELSE UNCHANGED <<ref, handlers, todo>>
    /\ UNCHANGED <<closed_reason, actions, name_owner, queue, signal,
                   screenVars, busVars, context>>

(* Mutants: the id is kept, or reset to the wrong value. *)
CloseEndsKeepsId(n) ==
    /\ frame = ClosedFrame(n)
    /\ HandlerReturns(n)
    /\ UNCHANGED <<id, activation_token, activating>>
CloseEndsUnset(n) ==
    /\ frame = ClosedFrame(n)
    /\ id' = [id EXCEPT ![n] = UNSET]
    /\ HandlerReturns(n)
    /\ UNCHANGED <<activation_token, activating>>

CloseEnds(n) ==
    /\ frame = ClosedFrame(n)
    /\ id' = [id EXCEPT ![n] = 0]
    /\ HandlerReturns(n)
    /\ UNCHANGED <<activation_token, activating>>

(* Mutant: activating is not reset. *)
ActivateEndsActive(n) ==
    /\ frame = ActionFrame(n)
    /\ activation_token' = [activation_token EXCEPT ![n] = None]
    /\ HandlerReturns(n)
    /\ UNCHANGED <<id, activating>>

ActivateEnds(n) ==
    /\ frame = ActionFrame(n)
    /\ activating' = [activating EXCEPT ![n] = FALSE]
    /\ activation_token' = [activation_token EXCEPT ![n] = None]
    /\ HandlerReturns(n)
    /\ UNCHANGED id

EndEmission ==
    /\ signal # NoSignal /\ frame = Idle /\ todo = {}
    /\ signal' = NoSignal
    /\ UNCHANGED <<notifyVars, lifeVars, name_owner, queue, todo, frame,
                   screenVars, busVars, context>>

(***************************************************************************)
(* The daemon: expiry and the user's clicks, its death and its start.      *)
(***************************************************************************)
DaemonCloses(i, reason) ==
    /\ Hides(i, reason)
    /\ UNCHANGED <<notifyVars, lifeVars, name_owner, loopVars, busVars,
                   context>>

Invoke(i, k, t) ==
    /\ displayed[i] # None
    /\ k \in offered[i] \cup (Keys \cap {"default"})
    /\ LET action == [kind |-> "ActionInvoked", id |-> i,
                      of |-> displayed[i], key |-> k, token |-> t]
           token  == [kind |-> "ActivationToken", id |-> i,
                      of |-> displayed[i], token |-> t]
       IN IF t = None
          THEN /\ "untokened" \in Environment
               /\ Len(queue) < MaxQueue
               /\ queue' = Append(queue, action)
          ELSE /\ Len(queue) + 1 < MaxQueue
               /\ queue' = Append(Append(queue, token), action)
    /\ UNCHANGED <<notifyVars, lifeVars, name_owner, loopVars, screenVars,
                   busVars, context>>

Crash ==
    /\ "restart" \in Environment
    /\ daemon # 0
    /\ Len(queue) < MaxQueue
    /\ daemon' = 0
    /\ displayed' = [i \in Ids |-> None]
    /\ offered' = [i \in Ids |-> {}]
    /\ nextId' = 1
    /\ crossed' = {}
    /\ queue' = Append(queue, [kind |-> "NameOwnerChanged", owner |-> 0])
    /\ UNCHANGED <<notifyVars, lifeVars, name_owner, loopVars, epochs,
                   Environment, context>>

Start ==
    /\ daemon = 0
    /\ epochs < MaxEpoch
    /\ Len(queue) < MaxQueue
    /\ epochs' = epochs + 1
    /\ daemon' = epochs + 1
    /\ queue' = Append(queue, [kind |-> "NameOwnerChanged",
                               owner |-> epochs + 1])
    /\ UNCHANGED <<notifyVars, lifeVars, name_owner, loopVars, screenVars,
                   Environment, context>>

-----------------------------------------------------------------------------
App(n) == \/ New(n) \/ ClearActions(n) \/ Close(n) \/ Unref(n)
          \/ \E k \in Keys : AddAction(n, k)
          \/ ShowSucceeds(n) \/ ShowFails(n) \/ ShowLosesReply(n)
          \/ notification_app_launch_context_new(n)

Handler(n) == \/ Ignore(n) \/ CloseBegins(n) \/ TokenArrives(n)
              \/ ActivateBegins(n) \/ CloseEnds(n) \/ ActivateEnds(n)

MainLoop == Dispatch \/ EndEmission \/ \E n \in Notifs : Handler(n)

Daemon ==
    \/ \E i \in Ids, r \in DaemonReasons : DaemonCloses(i, r)
    \/ \E i \in Ids, k \in Keys, t \in Tokens \cup {None} : Invoke(i, k, t)
    \/ Crash \/ Start

Next == \/ MainLoop \/ Daemon \/ \E n \in Notifs : App(n)
        \/ notification_app_launch_context_finalize

Spec == Init /\ [][Next]_vars

(* The main loop is run, handlers return, and nothing else is promised.    *)
FairSpec == Spec /\ WF_vars(MainLoop)
-----------------------------------------------------------------------------
TypeOK ==
    /\ id \in [Notifs -> 0 .. MaxId]
    /\ closed_reason \in [Notifs -> Reasons \cup {UNSET}]
    /\ activation_token \in [Notifs -> Tokens \cup {None}]
    /\ activating \in [Notifs -> BOOLEAN]
    /\ actions \in [Notifs -> SUBSET Keys]
    /\ ref \in [Notifs -> {"none", "held", "kept", "gone"}]
    /\ handlers \subseteq Notifs
    /\ name_owner \in Epochs /\ daemon \in Epochs /\ epochs \in Epochs
    /\ queue \in Seq(Signal \cup OwnerChange) /\ Len(queue) <= MaxQueue
    /\ signal \in Signal \cup {NoSignal}
    /\ todo \subseteq Notifs
    /\ frame \in [kind : {"closed", "action"}, n : Notifs] \cup {Idle}
    /\ displayed \in [Ids -> Notifs \cup {None}]
    /\ offered \in [Ids -> SUBSET Keys]
    /\ nextId \in 1 .. MaxId + 1 /\ crossed \subseteq Ids
    /\ Environment \in Environments
    /\ context.n \in Notifs \cup {None}
    /\ context.activation_token \in Tokens \cup {None}

(* What the daemon and the application do at worst (a handler may drop the *)
(* last reference, a daemon may be replaced in mid-emission), the callback *)
(* running belongs to an object that is alive, only that object outlives   *)
(* the application's reference, and no handler is left on a dead one: the  *)
(* reference close_notification and the handler's closure hold, and the    *)
(* disconnection in notify_notification_dispose.                           *)
CallbacksOnLiveObjects ==
    /\ frame # Idle => Live(frame.n) /\ signal # NoSignal
    /\ \A n \in Notifs : ref[n] = "kept" => frame.n = n
    /\ todo \cup handlers \subseteq {n \in Notifs : Live(n)}

(* notify_notification_get_activation_token () may be called in an action  *)
(* callback and nowhere else, whatever the callback does to its            *)
(* notification, and however many emissions came before.                   *)
ActivatingIsInCallback ==
    \A n \in Notifs : activating[n] <=> frame = ActionFrame(n)

(* A notification the application was told is closed has no id any more    *)
(* once its handler has returned, so showing it again cannot ask the       *)
(* daemon to replace whatever has that id by then.                         *)
ClosedHasNoId ==
    \A n \in Notifs :
        closed_reason[n] # UNSET => id[n] = 0 \/ frame = ClosedFrame(n)

(* Without restarts of the daemon, two notifications never hold the same   *)
(* id: replacing, re-showing after a close the client has not heard of     *)
(* yet, a lost reply and a failed Notify do not make ids meet.             *)
UniqueIds ==
    "restart" \notin Environment =>
        \A m, n \in Notifs :
            m # n /\ Live(m) /\ Live(n) /\ id[m] = id[n] => id[m] = 0

(* Then, too, a signal is handled by the notification the daemon sent it   *)
(* for: none is closed, or activated, on behalf of another one.            *)
OwnSignals == frame # Idle => signal.of = frame.n
SignalReachesItsOwner == "restart" \notin Environment => OwnSignals

(* Whatever daemons do, restart and renumber included, as long as replies  *)
(* arrive and no "closed" handler shows its own notification:              *)
Ordinary == Environment \cap {"lost_reply", "reshow"} = {}

(* the one way to lose a bubble is to show it across a close of its own    *)
(* id, when the daemon's answer, the id it was asked to replace, cannot    *)
(* tell the client that the bubble is a new one.                           *)
Bubble(i) == IF i \in crossed THEN None ELSE displayed[i]

(* Every other one on screen can be closed and replaced: a notification    *)
(* object that is still there knows the id it is displayed under.          *)
DisplayedIsReachable ==
    Ordinary =>
        \A i \in Ids, n \in Notifs : Bubble(i) = n /\ Live(n) => id[n] = i

(* And "closed" is emitted only of what is off the screen, but for such a  *)
(* bubble: a close that waits in the queue while other notifications, or   *)
(* this one under a new id, are shown is not taken for theirs.             *)
ClosedIsTrue ==
    Ordinary =>
        \A n \in Notifs :
            frame = ClosedFrame(n) => \A i \in Ids : Bubble(i) # n

(* There are no such bubbles with a daemon that gives a new id for one that*)
(* it has closed, as the specification does not have it do.                *)
NewIdsDoNotCross ==
    Ordinary /\ "renumbers" \in Environment /\ "restart" \notin Environment
        => crossed = {}

(* notification.c, of "closed": "Emitted when the notification is closed." *)
(* With the daemon of the specification it is also emitted of a bubble     *)
(* that was shown across the close of the one before it.                   *)
ClosedIsOffScreen ==
    \A n \in Notifs :
        frame = ClosedFrame(n) => \A i \in Ids : displayed[i] # n

(* In an action's callback the activation token is the one the daemon sent *)
(* for this very activation, whatever was activated before.                *)
TokenIsOfThisActivation ==
    "untokened" \notin Environment =>
        \A n \in Notifs :
            frame = ActionFrame(n) => activation_token[n] = signal.token

(* A program that is launched with the context gets the token that the     *)
(* daemon sent for the activation the context was made in, whenever it is  *)
(* launched and whatever became of the notification by then.               *)
LaunchesWithItsToken ==
    "untokened" \notin Environment =>
        get_startup_notify_id(context) = context.sent

(* A notification whose bubble is gone is told so, or is shown again, or   *)
(* is dropped by the application: with the main loop running, "closed" is  *)
(* never lost behind other signals, other notifications and their          *)
(* handlers.  (A daemon that dies tells nobody what it showed.)            *)
Unaware(n) == Live(n) /\ id[n] # 0 /\ displayed[id[n]] # n
LearnsOfClose ==
    "restart" \notin Environment =>
        \A n \in Notifs : Unaware(n) ~> ~ Unaware(n)

(* Why: the daemon's word is still to come, in the queue, in the emission  *)
(* that has not come to n yet, or in the handler that is running.  No step *)
(* loses it, in whatever order closes, shows, lost replies, other signals  *)
(* and handlers follow.                                                    *)
OnItsWay(n) ==
    \/ \E k \in 1 .. Len(queue) : ClosesId(queue[k], id[n])
    \/ ClosesId(signal, id[n]) /\ n \in todo
    \/ frame = ClosedFrame(n)
CloseIsOnItsWay ==
    "restart" \notin Environment =>
        \A n \in Notifs : Unaware(n) => OnItsWay(n)

(* While it waits in the queue nothing gets ahead of it: each Dispatch     *)
(* brings it one place nearer, and no other step moves it.                 *)
CloseComesNearer ==
    [][\A n \in Notifs, k \in 1 .. Len(queue) :
          "restart" \notin Environment /\ Unaware(n) /\ Unaware(n)'
            /\ ClosesId(queue[k], id[n]) =>
              \/ ~ Dispatch /\ ClosesId(queue'[k], id'[n])
              \/ Dispatch /\ k = 1 /\ ClosesId(signal', id'[n]) /\ n \in todo'
              \/ Dispatch /\ k > 1 /\ ClosesId(queue'[k - 1], id'[n])]_vars

(* NEWS of 0.8.8, "the closed signal only fires once": a close that comes  *)
(* for a notification is told, however often it was shown and closed, and  *)
(* whatever daemons do.  (Not so in the portal: PortalNotification.)       *)
ClosesAreTold == [][\A n \in Notifs : CloseBegins(n) => frame' = ClosedFrame(n)]_vars

(* The promise to the application, whatever daemons and callbacks do:      *)
(* NotificationLife.                                                       *)
Life == INSTANCE NotificationLife WITH
            numbered <- [n \in Notifs |-> id[n] # 0],
            told <- [n \in Notifs |-> closed_reason[n] # UNSET],
            callbacks <- IF frame = Idle THEN << >> ELSE <<frame>>
KeepsItsPromise == Life!Spec
=============================================================================

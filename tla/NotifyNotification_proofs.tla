--------------------- MODULE NotifyNotification_proofs ---------------------
(* Theorems about NotifyNotification, for any number of notifications,     *)
(* actions, tokens, ids, queued signals and daemons.                       *)
EXTENDS NotifyNotification, TLAPS

-----------------------------------------------------------------------------
(* Facts about messages that the steps below need.                         *)

(* The kind of a signal tells its fields. *)
LEMMA SignalKinds ==
    ASSUME NEW s \in Signal \cup {NoSignal} \cup OwnerChange
    PROVE  /\ s.kind = "NotificationClosed" => s \in ClosedSignal
           /\ s.kind = "ActionInvoked" => s \in ActionSignal
           /\ s.kind = "ActivationToken" => s \in TokenSignal
           /\ s.kind = "NameOwnerChanged" => s \in OwnerChange
           /\ s.kind = "none" => s = NoSignal
           /\ s.kind # "NameOwnerChanged" /\ s.kind # "none" => s \in Signal
  BY DEF Signal, ClosedSignal, ActionSignal, TokenSignal, OwnerChange, NoSignal

(* Hides keeps the daemon's state and the queue well typed. *)
LEMMA HidesTypes ==
    ASSUME TypeOK, NEW i \in Ids, NEW r \in Reasons, Hides(i, r)
    PROVE  /\ queue' \in Seq(Signal \cup OwnerChange) /\ Len(queue') <= MaxQueue
           /\ displayed' \in [Ids -> Notifs \cup {None}]
           /\ offered' \in [Ids -> SUBSET Keys]
           /\ nextId' \in 1 .. MaxId + 1 /\ crossed' \subseteq Ids
  <1> DEFINE m == [kind |-> "NotificationClosed", id |-> i,
                   of |-> displayed[i], reason |-> r]
  <1>1. displayed[i] \in Notifs
    BY DEF TypeOK, Hides
  <1>2. m \in Signal
    BY <1>1 DEF Signal, ClosedSignal
  <1>3. queue' = Append(queue, m) /\ Len(queue) < MaxQueue
    BY DEF Hides
  <1> HIDE DEF m
  <1>4. /\ queue' \in Seq(Signal \cup OwnerChange)
        /\ Len(queue') <= MaxQueue
    BY <1>2, <1>3, ConstantsAssumption DEF TypeOK
  <1> QED BY <1>4 DEF TypeOK, Hides

(* The id the daemon answers with, and what it then displays. *)
LEMMA DisplaysTypes ==
    ASSUME TypeOK, NEW n \in Notifs, NEW i, Displays(n, i)
    PROVE  /\ i \in Ids
           /\ displayed' \in [Ids -> Notifs \cup {None}]
           /\ offered' \in [Ids -> SUBSET Keys]
           /\ nextId' \in 1 .. MaxId + 1 /\ crossed' \subseteq Ids
  <1>1. i \in Ids /\ crossed' \subseteq Ids
    BY DEF TypeOK, Displays
  <1>2. nextId' \in 1 .. MaxId + 1
    BY ConstantsAssumption DEF TypeOK, Displays, Ids
  <1>3. displayed' \in [Ids -> Notifs \cup {None}]
        /\ offered' \in [Ids -> SUBSET Keys]
    BY DEF TypeOK, Displays
  <1> QED BY <1>1, <1>2, <1>3

(* The end of an object's life keeps what it changes well typed. *)
LEMMA FinalizesTypes ==
    ASSUME TypeOK, NEW n \in Notifs,
           Finalizes(n) \/ UNCHANGED <<ref, handlers, todo>>
    PROVE  /\ ref' \in [Notifs -> {"none", "held", "kept", "gone"}]
           /\ handlers' \subseteq Notifs /\ todo' \subseteq Notifs
  <1>1. ref' \in [Notifs -> {"none", "held", "kept", "gone"}]
    BY DEF TypeOK, Finalizes
  <1>2. handlers' \subseteq Notifs /\ todo' \subseteq Notifs
    BY DEF TypeOK, Finalizes
  <1> QED BY <1>1, <1>2

-----------------------------------------------------------------------------
LEMMA TypeInit == Init => TypeOK
  BY ConstantsAssumption
  DEF Init, TypeOK, Ids, Epochs, NoSignal, NoContext, Idle, UNSET

LEMMA TypeNext == TypeOK /\ [Next]_vars => TypeOK'
  <1> SUFFICES ASSUME TypeOK, [Next]_vars PROVE TypeOK'
    OBVIOUS
  <1> USE ConstantsAssumption
  <1>1. ASSUME NEW n \in Notifs, New(n) PROVE TypeOK'
    BY <1>1 DEF New, TypeOK, notifyVars, loopVars, screenVars, busVars
  <1>2. ASSUME NEW n \in Notifs, NEW k \in Keys, AddAction(n, k) PROVE TypeOK'
    BY <1>2 DEF AddAction, TypeOK, lifeVars, loopVars, screenVars, busVars
  <1>3. ASSUME NEW n \in Notifs, ClearActions(n) PROVE TypeOK'
    BY <1>3 DEF ClearActions, TypeOK, lifeVars, loopVars, screenVars, busVars
  <1>4. ASSUME NEW n \in Notifs, ShowSucceeds(n) PROVE TypeOK'
    <2> DEFINE i == NotifyId(id[n])
    <2>1. Displays(n, i) /\ id' = [id EXCEPT ![n] = i]
      BY <1>4 DEF ShowSucceeds
    <2>2. i \in Ids /\ i \in 0 .. MaxId
      BY <2>1, DisplaysTypes DEF Ids
    <2>3. id' \in [Notifs -> 0 .. MaxId]
      BY <2>1, <2>2 DEF TypeOK
    <2> HIDE DEF i
    <2> QED BY <1>4, <2>1, <2>3, DisplaysTypes
            DEF ShowSucceeds, ShowStarts, TypeOK, loopVars, busVars
  <1>5. ASSUME NEW n \in Notifs, ShowFails(n) PROVE TypeOK'
    BY <1>5 DEF ShowFails, ShowStarts, TypeOK, loopVars, screenVars, busVars
  <1>6. ASSUME NEW n \in Notifs, ShowLosesReply(n) PROVE TypeOK'
    BY <1>6, DisplaysTypes
    DEF ShowLosesReply, ShowStarts, TypeOK, loopVars, busVars
  <1>7. ASSUME NEW n \in Notifs, Close(n) PROVE TypeOK'
    <2>1. id[n] \in Ids /\ API_REQUEST \in Reasons /\ Hides(id[n], API_REQUEST)
      BY <1>7 DEF Close, TypeOK, Ids, Reasons
    <2> QED BY <1>7, <2>1, HidesTypes
            DEF Close, TypeOK, notifyVars, lifeVars, loopVars, busVars
  <1>8. ASSUME NEW n \in Notifs, Unref(n) PROVE TypeOK'
    <2>1. ASSUME ref' = [ref EXCEPT ![n] = "kept"], UNCHANGED <<handlers, todo>>
          PROVE  TypeOK'
      <3>1. ref' \in [Notifs -> {"none", "held", "kept", "gone"}]
        BY <2>1 DEF TypeOK
      <3> QED BY <1>8, <2>1, <3>1
              DEF Unref, TypeOK, notifyVars, screenVars, busVars
    <2>2. ASSUME Finalizes(n) PROVE TypeOK'
      <3>1. /\ ref' \in [Notifs -> {"none", "held", "kept", "gone"}]
            /\ handlers' \subseteq Notifs /\ todo' \subseteq Notifs
        BY <2>2, FinalizesTypes
      <3> QED BY <1>8, <3>1
              DEF Unref, TypeOK, notifyVars, screenVars, busVars
    <2> QED BY <1>8, <2>1, <2>2 DEF Unref
  <1>9. CASE Dispatch
    <2>1. Head(queue) \in Signal \cup OwnerChange
          /\ Tail(queue) \in Seq(Signal \cup OwnerChange)
          /\ Len(Tail(queue)) <= MaxQueue
      BY <1>9 DEF Dispatch, TypeOK
    <2>2. IF Head(queue).kind = "NameOwnerChanged"
          THEN Head(queue).owner \in Epochs
          ELSE Head(queue) \in Signal
      BY <2>1, SignalKinds DEF OwnerChange
    <2> QED BY <1>9, <2>1, <2>2
            DEF Dispatch, TypeOK, notifyVars, lifeVars, screenVars, busVars
  <1>10. ASSUME NEW n \in Notifs, Ignore(n) PROVE TypeOK'
    BY <1>10 DEF Ignore, Visit, TypeOK, lifeVars, screenVars, busVars
  <1>11. ASSUME NEW n \in Notifs, CloseBegins(n) PROVE TypeOK'
    <2>1. signal.reason \in Reasons
      BY <1>11, SignalKinds DEF CloseBegins, TypeOK, ClosedSignal
    <2>2. closed_reason' \in [Notifs -> Reasons \cup {UNSET}]
      <3>1. closed_reason \in [Notifs -> Reasons \cup {UNSET}]
        BY DEF TypeOK
      <3>2. \/ UNCHANGED closed_reason
            \/ closed_reason' = [closed_reason EXCEPT ![n] = signal.reason]
        BY <1>11 DEF CloseBegins
      <3> QED BY <2>1, <3>1, <3>2
    <2>3. frame' \in [kind : {"closed", "action"}, n : Notifs] \cup {Idle}
      BY <1>11 DEF CloseBegins, TypeOK, ClosedFrame
    <2> QED BY <1>11, <2>2, <2>3
            DEF CloseBegins, Visit, TypeOK, lifeVars, screenVars, busVars
  <1>12. ASSUME NEW n \in Notifs, TokenArrives(n) PROVE TypeOK'
    <2>1. signal.token \in Tokens
      BY <1>12, SignalKinds DEF TokenArrives, TypeOK, TokenSignal
    <2> QED BY <1>12, <2>1
            DEF TokenArrives, Visit, TypeOK, lifeVars, screenVars, busVars
  <1>13. ASSUME NEW n \in Notifs, ActivateBegins(n) PROVE TypeOK'
    <2>1. frame' \in [kind : {"closed", "action"}, n : Notifs] \cup {Idle}
      BY <1>13 DEF ActivateBegins, TypeOK, ActionFrame
    <2>2. activating' \in [Notifs -> BOOLEAN]
      BY <1>13 DEF ActivateBegins, TypeOK
    <2> QED BY <1>13, <2>1, <2>2
            DEF ActivateBegins, Visit, TypeOK, lifeVars, screenVars, busVars
  <1>14. ASSUME NEW n \in Notifs, CloseEnds(n) PROVE TypeOK'
    <2>1. id' \in [Notifs -> 0 .. MaxId] /\ frame' = Idle
      BY <1>14 DEF CloseEnds, HandlerReturns, TypeOK
    <2>2. /\ ref' \in [Notifs -> {"none", "held", "kept", "gone"}]
          /\ handlers' \subseteq Notifs /\ todo' \subseteq Notifs
      BY <1>14, FinalizesTypes DEF CloseEnds, HandlerReturns
    <2> QED BY <1>14, <2>1, <2>2
            DEF CloseEnds, HandlerReturns, TypeOK, screenVars, busVars
  <1>15. ASSUME NEW n \in Notifs, ActivateEnds(n) PROVE TypeOK'
    <2>1. /\ activating' \in [Notifs -> BOOLEAN]
          /\ activation_token' \in [Notifs -> Tokens \cup {None}]
          /\ frame' = Idle
      BY <1>15 DEF ActivateEnds, HandlerReturns, TypeOK
    <2>2. /\ ref' \in [Notifs -> {"none", "held", "kept", "gone"}]
          /\ handlers' \subseteq Notifs /\ todo' \subseteq Notifs
      BY <1>15, FinalizesTypes DEF ActivateEnds, HandlerReturns
    <2> QED BY <1>15, <2>1, <2>2
            DEF ActivateEnds, HandlerReturns, TypeOK, screenVars, busVars
  <1>16. CASE EndEmission
    BY <1>16 DEF EndEmission, TypeOK, notifyVars, lifeVars, screenVars, busVars
  <1>17. ASSUME NEW i \in Ids, NEW r \in DaemonReasons, DaemonCloses(i, r)
         PROVE  TypeOK'
    <2>1. r \in Reasons
      BY ConstantsAssumption DEF Reasons, EXPIRED, DISMISSED, UNDEFINED
    <2> QED BY <1>17, <2>1, HidesTypes
            DEF DaemonCloses, TypeOK, notifyVars, lifeVars, loopVars, busVars
  <1>18. ASSUME NEW i \in Ids, NEW k \in Keys, NEW t \in Tokens \cup {None},
                Invoke(i, k, t)
         PROVE  TypeOK'
    <2> DEFINE a == [kind |-> "ActionInvoked", id |-> i, of |-> displayed[i],
                     key |-> k, token |-> t]
               b == [kind |-> "ActivationToken", id |-> i,
                     of |-> displayed[i], token |-> t]
    <2>1. displayed[i] \in Notifs
      BY <1>18 DEF Invoke, TypeOK
    <2>2. a \in Signal /\ (t # None => b \in Signal)
      BY <2>1 DEF Signal, ActionSignal, TokenSignal
    <2>3. IF t = None THEN queue' = Append(queue, a) /\ Len(queue) < MaxQueue
          ELSE queue' = Append(Append(queue, b), a) /\ Len(queue) + 1 < MaxQueue
      BY <1>18 DEF Invoke
    <2> HIDE DEF a, b
    <2>4. queue \in Seq(Signal \cup OwnerChange)
      BY DEF TypeOK
    <2>5. /\ queue' \in Seq(Signal \cup OwnerChange)
          /\ Len(queue') <= MaxQueue
      <3>1. CASE t = None
        BY <3>1, <2>2, <2>3, <2>4
      <3>2. CASE t # None
        <4>1. /\ Append(queue, b) \in Seq(Signal \cup OwnerChange)
              /\ Len(Append(queue, b)) = Len(queue) + 1
          BY <3>2, <2>2, <2>4
        <4> QED BY <3>2, <4>1, <2>2, <2>3
      <3> QED BY <3>1, <3>2
    <2> QED BY <1>18, <2>5 DEF Invoke, TypeOK, notifyVars, lifeVars, loopVars,
                               screenVars, busVars
  <1>19. CASE Crash
    <2>1. [kind |-> "NameOwnerChanged", owner |-> 0] \in OwnerChange
      BY DEF OwnerChange, Epochs
    <2>2. /\ queue' \in Seq(Signal \cup OwnerChange)
          /\ Len(queue') <= MaxQueue
      BY <1>19, <2>1 DEF Crash, TypeOK
    <2> QED BY <1>19, <2>2
            DEF Crash, TypeOK, notifyVars, lifeVars, loopVars, Epochs
  <1>20. CASE Start
    <2>1. epochs + 1 \in Epochs
      BY <1>20 DEF Start, TypeOK, Epochs
    <2>2. [kind |-> "NameOwnerChanged", owner |-> epochs + 1] \in OwnerChange
      BY <2>1 DEF OwnerChange
    <2>3. /\ queue' \in Seq(Signal \cup OwnerChange)
          /\ Len(queue') <= MaxQueue
      BY <1>20, <2>2 DEF Start, TypeOK
    <2> QED BY <1>20, <2>1, <2>3
            DEF Start, TypeOK, notifyVars, lifeVars, loopVars, screenVars
  <1>21. CASE UNCHANGED vars
    BY <1>21 DEF vars, stateVars, notifyVars, lifeVars, loopVars, screenVars,
                 busVars, TypeOK
  <1>22. ASSUME NEW n \in Notifs, notification_app_launch_context_new(n)
         PROVE  TypeOK'
    <2>1. /\ context'.n \in Notifs \cup {None}
          /\ context'.activation_token \in Tokens \cup {None}
      BY <1>22 DEF notification_app_launch_context_new, TypeOK
    <2> QED BY <1>22, <2>1
            DEF notification_app_launch_context_new, stateVars, notifyVars,
                lifeVars, loopVars, screenVars, busVars, TypeOK
  <1>23. CASE notification_app_launch_context_finalize
    <2>1. /\ context'.n \in Notifs \cup {None}
          /\ context'.activation_token \in Tokens \cup {None}
      BY <1>23 DEF notification_app_launch_context_finalize, NoContext
    <2> QED BY <1>23, <2>1
            DEF notification_app_launch_context_finalize, stateVars,
                notifyVars, lifeVars, loopVars, screenVars, busVars, TypeOK
  <1> QED
    BY <1>1, <1>2, <1>3, <1>4, <1>5, <1>6, <1>7, <1>8, <1>9, <1>10, <1>11,
       <1>12, <1>13, <1>14, <1>15, <1>16, <1>17, <1>18, <1>19, <1>20, <1>21,
       <1>22, <1>23
    DEF Next, MainLoop, Handler, Daemon, App

(* Every variable keeps its type, whatever the daemon and the application  *)
(* do.                                                                     *)
THEOREM TypeCorrect == Spec => []TypeOK
  BY TypeInit, TypeNext, PTL DEF Spec

-----------------------------------------------------------------------------
(* Lifetimes, "activating" and the id of a closed notification: these      *)
(* three invariants are inductive together with TypeOK.                    *)
HandlerInv ==
    TypeOK /\ CallbacksOnLiveObjects /\ ActivatingIsInCallback /\ ClosedHasNoId

LEMMA HandlerInit == Init => HandlerInv
  <1> SUFFICES ASSUME Init PROVE HandlerInv
    OBVIOUS
  <1>1. TypeOK
    BY TypeInit
  <1>2. CallbacksOnLiveObjects /\ ClosedHasNoId
    BY DEF Init, CallbacksOnLiveObjects, ClosedHasNoId
  <1>3. ActivatingIsInCallback
    BY DEF Init, ActivatingIsInCallback, Idle, ActionFrame
  <1> QED BY <1>1, <1>2, <1>3 DEF HandlerInv

(* The three kinds of step that touch what HandlerInv is about in the same *)
(* way: one that leaves handlers, frames and reasons alone; the start of a *)
(* show; the return of a handler.                                          *)
LEMMA HandlerQuiet ==
    ASSUME HandlerInv, TypeOK',
           UNCHANGED <<ref, handlers, todo, signal, frame, activating,
                       closed_reason, id>>
    PROVE  HandlerInv'
  BY DEF HandlerInv, CallbacksOnLiveObjects, ActivatingIsInCallback,
         ClosedHasNoId, Live

LEMMA HandlerShow ==
    ASSUME HandlerInv, TypeOK', NEW n \in Notifs, ShowStarts(n),
           \A m \in Notifs \ {n} : id'[m] = id[m]
    PROVE  HandlerInv'
  <1>1. CallbacksOnLiveObjects'
    BY DEF HandlerInv, CallbacksOnLiveObjects, ShowStarts, Callable, Live,
           loopVars
  <1>2. ActivatingIsInCallback'
    BY DEF HandlerInv, ActivatingIsInCallback, ShowStarts, loopVars
  <1>3. ClosedHasNoId'
    BY DEF HandlerInv, TypeOK, ClosedHasNoId, ShowStarts, loopVars
  <1> QED BY <1>1, <1>2, <1>3 DEF HandlerInv

LEMMA HandlerReturn ==
    ASSUME HandlerInv, TypeOK', NEW n \in Notifs, frame.n = n,
           HandlerReturns(n)
    PROVE  CallbacksOnLiveObjects'
  <1>1. \A m \in Notifs : ref[m] = "kept" => m = n
    BY DEF HandlerInv, CallbacksOnLiveObjects
  <1>2. CASE ref[n] = "kept"
    <2>1. /\ ref' = [ref EXCEPT ![n] = "gone"]
          /\ handlers' = handlers \ {n} /\ todo' = todo \ {n}
          /\ frame' = Idle
      BY <1>2 DEF HandlerReturns, Finalizes
    <2>2. \A m \in Notifs : ref'[m] # "kept"
      BY <1>1, <2>1 DEF HandlerInv, TypeOK
    <2> QED BY <2>1, <2>2 DEF HandlerInv, TypeOK, CallbacksOnLiveObjects, Live
  <1>3. CASE ref[n] # "kept"
    BY <1>1, <1>3 DEF HandlerInv, CallbacksOnLiveObjects, HandlerReturns, Live
  <1> QED BY <1>2, <1>3

LEMMA HandlerBegins ==
    ASSUME HandlerInv, NEW n \in Notifs, Visit(n), signal # NoSignal,
           frame' = frame \/ frame'.n = n
    PROVE  CallbacksOnLiveObjects'
  <1>1. /\ n \in todo /\ todo' \subseteq todo /\ frame = Idle
        /\ UNCHANGED <<ref, handlers, signal>>
    BY DEF Visit, lifeVars
  <1>2. Live(n) /\ \A m \in Notifs : ref[m] # "kept"
    BY <1>1, ConstantsAssumption DEF HandlerInv, CallbacksOnLiveObjects, Idle
  <1> QED BY <1>1, <1>2 DEF HandlerInv, CallbacksOnLiveObjects, Live

LEMMA HandlerNext == HandlerInv /\ [Next]_vars => HandlerInv'
  <1> SUFFICES ASSUME HandlerInv, [Next]_vars PROVE HandlerInv'
    OBVIOUS
  <1>0. TypeOK /\ TypeOK'
    BY TypeNext DEF HandlerInv
  <1> USE <1>0
  <1>1. ASSUME NEW n \in Notifs, New(n) PROVE HandlerInv'
    <2>1. CallbacksOnLiveObjects'
      BY <1>1 DEF New, HandlerInv, CallbacksOnLiveObjects, TypeOK, Live,
                  loopVars
    <2> QED BY <1>1, <2>1 DEF New, HandlerInv, ActivatingIsInCallback,
                              ClosedHasNoId, notifyVars, loopVars
  <1>2. ASSUME NEW n \in Notifs, NEW k \in Keys, AddAction(n, k)
        PROVE  HandlerInv'
    BY <1>2, HandlerQuiet DEF AddAction, lifeVars, loopVars
  <1>3. ASSUME NEW n \in Notifs, ClearActions(n) PROVE HandlerInv'
    BY <1>3, HandlerQuiet DEF ClearActions, lifeVars, loopVars
  <1>4. ASSUME NEW n \in Notifs, ShowSucceeds(n) PROVE HandlerInv'
    <2>1. \A m \in Notifs \ {n} : id'[m] = id[m]
      BY <1>4 DEF ShowSucceeds, TypeOK
    <2> QED BY <1>4, <2>1, HandlerShow DEF ShowSucceeds
  <1>5. ASSUME NEW n \in Notifs, ShowFails(n) PROVE HandlerInv'
    BY <1>5, HandlerShow DEF ShowFails
  <1>6. ASSUME NEW n \in Notifs, ShowLosesReply(n) PROVE HandlerInv'
    BY <1>6, HandlerShow DEF ShowLosesReply
  <1>7. ASSUME NEW n \in Notifs, Close(n) PROVE HandlerInv'
    BY <1>7, HandlerQuiet DEF Close, notifyVars, lifeVars, loopVars
  <1>8. ASSUME NEW n \in Notifs, Unref(n) PROVE HandlerInv'
    <2>1. CallbacksOnLiveObjects'
      <3>1. CASE frame.n = n
        <4>1. ref' = [ref EXCEPT ![n] = "kept"]
              /\ UNCHANGED <<handlers, todo, frame, signal>>
          BY <1>8, <3>1 DEF Unref
        <4>2. ref'[n] = "kept" /\ \A m \in Notifs \ {n} : ref'[m] = ref[m]
          BY <4>1 DEF TypeOK
        <4> QED BY <3>1, <4>1, <4>2
                DEF HandlerInv, CallbacksOnLiveObjects, Live
      <3>2. CASE frame.n # n
        <4>1. frame # Idle => frame.n \in Notifs
          BY DEF TypeOK
        <4> QED BY <1>8, <3>2, <4>1
                DEF Unref, Finalizes, HandlerInv, CallbacksOnLiveObjects,
                    TypeOK, Live
      <3> QED BY <3>1, <3>2
    <2> QED BY <1>8, <2>1 DEF Unref, HandlerInv, ActivatingIsInCallback,
                              ClosedHasNoId, notifyVars
  <1>9. CASE Dispatch
    <2>1. UNCHANGED <<ref, handlers, frame, activating, closed_reason, id>>
          /\ todo' \in {todo, handlers} /\ signal = NoSignal
      BY <1>9 DEF Dispatch, lifeVars, notifyVars
    <2> QED BY <2>1 DEF HandlerInv, CallbacksOnLiveObjects, Live,
                        ActivatingIsInCallback, ClosedHasNoId
  <1>10. ASSUME NEW n \in Notifs, Ignore(n) PROVE HandlerInv'
    BY <1>10 DEF Ignore, Visit, lifeVars, HandlerInv, CallbacksOnLiveObjects,
                 Live, ActivatingIsInCallback, ClosedHasNoId
  <1>11. ASSUME NEW n \in Notifs, CloseBegins(n) PROVE HandlerInv'
    <2>1. CallbacksOnLiveObjects'
      BY <1>11, HandlerBegins DEF CloseBegins, NoSignal, ClosedFrame
    <2>2. ActivatingIsInCallback'
      <3>1. \A m \in Notifs : frame # ActionFrame(m) /\ frame' # ActionFrame(m)
        BY <1>11 DEF CloseBegins, Visit, ActionFrame, ClosedFrame, Idle
      <3> QED BY <1>11, <3>1
              DEF CloseBegins, HandlerInv, ActivatingIsInCallback
    <2>3. ClosedHasNoId'
      BY <1>11 DEF CloseBegins, Visit, HandlerInv, TypeOK, ClosedHasNoId,
                   ClosedFrame, Idle
    <2> QED BY <2>1, <2>2, <2>3 DEF HandlerInv
  <1>12. ASSUME NEW n \in Notifs, TokenArrives(n) PROVE HandlerInv'
    BY <1>12 DEF TokenArrives, Visit, lifeVars, HandlerInv, Live,
                 CallbacksOnLiveObjects, ActivatingIsInCallback, ClosedHasNoId
  <1>13. ASSUME NEW n \in Notifs, ActivateBegins(n) PROVE HandlerInv'
    <2>1. CallbacksOnLiveObjects'
      BY <1>13, HandlerBegins DEF ActivateBegins, NoSignal, ActionFrame
    <2>2. ActivatingIsInCallback'
      <3>1. \A m \in Notifs : frame # ActionFrame(m)
        BY <1>13 DEF ActivateBegins, Visit, ActionFrame, Idle
      <3>2. \A m \in Notifs : m # n => ActionFrame(n) # ActionFrame(m)
        BY DEF ActionFrame
      <3> QED BY <1>13, <3>1, <3>2
              DEF ActivateBegins, HandlerInv, TypeOK, ActivatingIsInCallback
    <2>3. ClosedHasNoId'
      BY <1>13 DEF ActivateBegins, Visit, HandlerInv, ClosedHasNoId,
                   ClosedFrame, Idle
    <2> QED BY <2>1, <2>2, <2>3 DEF HandlerInv
  <1>14. ASSUME NEW n \in Notifs, CloseEnds(n) PROVE HandlerInv'
    <2>1. CallbacksOnLiveObjects'
      BY <1>14, HandlerReturn DEF CloseEnds, ClosedFrame
    <2>2. ActivatingIsInCallback'
      BY <1>14 DEF CloseEnds, HandlerReturns, HandlerInv, Idle,
                   ActivatingIsInCallback, ActionFrame, ClosedFrame
    <2>3. ClosedHasNoId'
      BY <1>14 DEF CloseEnds, HandlerReturns, HandlerInv, TypeOK,
                   ClosedHasNoId, ClosedFrame
    <2> QED BY <2>1, <2>2, <2>3 DEF HandlerInv
  <1>15. ASSUME NEW n \in Notifs, ActivateEnds(n) PROVE HandlerInv'
    <2>1. CallbacksOnLiveObjects'
      BY <1>15, HandlerReturn DEF ActivateEnds, ActionFrame
    <2>2. ActivatingIsInCallback'
      BY <1>15 DEF ActivateEnds, HandlerReturns, HandlerInv, Idle, TypeOK,
                   ActivatingIsInCallback, ActionFrame
    <2>3. ClosedHasNoId'
      BY <1>15 DEF ActivateEnds, HandlerReturns, HandlerInv, ClosedHasNoId,
                   ClosedFrame, ActionFrame
    <2> QED BY <2>1, <2>2, <2>3 DEF HandlerInv
  <1>16. CASE EndEmission
    BY <1>16 DEF EndEmission, notifyVars, lifeVars, HandlerInv, Live,
                 CallbacksOnLiveObjects, ActivatingIsInCallback, ClosedHasNoId
  <1>17. ASSUME NEW i \in Ids, NEW r \in DaemonReasons, DaemonCloses(i, r)
         PROVE  HandlerInv'
    BY <1>17, HandlerQuiet DEF DaemonCloses, notifyVars, lifeVars, loopVars
  <1>18. ASSUME NEW i \in Ids, NEW k \in Keys, NEW t \in Tokens \cup {None},
                Invoke(i, k, t)
         PROVE  HandlerInv'
    BY <1>18, HandlerQuiet DEF Invoke, notifyVars, lifeVars, loopVars
  <1>19. CASE Crash
    BY <1>19, HandlerQuiet DEF Crash, notifyVars, lifeVars, loopVars
  <1>20. CASE Start
    BY <1>20, HandlerQuiet DEF Start, notifyVars, lifeVars, loopVars
  <1>21. CASE UNCHANGED stateVars
    BY <1>21, HandlerQuiet DEF stateVars, notifyVars, lifeVars, loopVars
  <1> QED
    BY <1>1, <1>2, <1>3, <1>4, <1>5, <1>6, <1>7, <1>8, <1>9, <1>10, <1>11,
       <1>12, <1>13, <1>14, <1>15, <1>16, <1>17, <1>18, <1>19, <1>20, <1>21
    DEF Next, MainLoop, Handler, Daemon, App, vars,
        notification_app_launch_context_new,
        notification_app_launch_context_finalize

LEMMA HandlerInvariant == Spec => []HandlerInv
  BY HandlerInit, HandlerNext, PTL DEF Spec

(* No callback on a dead object, none left connected, in any environment.  *)
THEOREM CallbacksAreOnLiveObjects == Spec => []CallbacksOnLiveObjects
  <1>1. HandlerInv => CallbacksOnLiveObjects
    BY DEF HandlerInv
  <1> QED BY <1>1, HandlerInvariant, PTL

(* "activating" is set exactly while an action callback of the             *)
(* notification runs.                                                      *)
THEOREM ActivatingMeansInCallback == Spec => []ActivatingIsInCallback
  <1>1. HandlerInv => ActivatingIsInCallback
    BY DEF HandlerInv
  <1> QED BY <1>1, HandlerInvariant, PTL

(* A notification that was told it is closed has given its id up.          *)
THEOREM ClosedGivesUpId == Spec => []ClosedHasNoId
  <1>1. HandlerInv => ClosedHasNoId
    BY DEF HandlerInv
  <1> QED BY <1>1, HandlerInvariant, PTL

-----------------------------------------------------------------------------
(* Ids, while the daemon is not replaced.  An id belongs to the one        *)
(* notification the daemon allocated it for: nobody else holds it, and     *)
(* what the daemon shows or has said under that id is about its owner.     *)
Owned(i, m) == i < nextId /\ \A n \in Notifs : id[n] = i => n = m

OwnerInv ==
    /\ \A n \in Notifs : id[n] # 0 => Owned(id[n], n)
    /\ \A i \in Ids : displayed[i] # None => Owned(i, displayed[i])
    /\ \A k \in 1 .. Len(queue) :
          queue[k].kind # "NameOwnerChanged" => Owned(queue[k].id, queue[k].of)
    /\ signal # NoSignal => Owned(signal.id, signal.of)
    /\ OwnSignals

LEMMA SignalFields ==
    ASSUME NEW s \in Signal
    PROVE  s.id \in Ids /\ s.of \in Notifs /\ s.kind # "NameOwnerChanged"
  BY DEF Signal, ClosedSignal, ActionSignal, TokenSignal

LEMMA OwnerInit == Init => OwnerInv
  BY DEF Init, OwnerInv, OwnSignals

(* Ownership outlives any step that gives an id up or hands out a new one. *)
LEMMA OwnedStable ==
    ASSUME TypeOK, nextId' \in Int, nextId' >= nextId,
           NEW n \in Notifs, NEW j,
           id' = [id EXCEPT ![n] = j], j \in {0, id[n], nextId}
    PROVE  \A i \in Ids, m \in Notifs : Owned(i, m) => Owned(i, m)'
  <1> SUFFICES ASSUME NEW i \in Ids, NEW m \in Notifs, Owned(i, m)
               PROVE  Owned(i, m)'
    OBVIOUS
  <1>1. i < nextId' /\ i # 0 /\ i # nextId
    BY ConstantsAssumption DEF TypeOK, Ids, Owned
  <1>2. ASSUME NEW p \in Notifs, id'[p] = i PROVE p = m
    <2>1. id[p] = i
      BY <1>1, <1>2 DEF TypeOK
    <2> QED BY <2>1 DEF Owned
  <1> QED BY <1>1, <1>2 DEF Owned

LEMMA OwnedSame ==
    ASSUME UNCHANGED <<id, nextId>>
    PROVE  \A i, m : Owned(i, m) => Owned(i, m)'
  BY DEF Owned

(* A step that only lengthens the queue by signals about owned ids. *)
LEMMA OwnedAppend ==
    ASSUME TypeOK, OwnerInv, NEW s, queue' = Append(queue, s),
           s.kind # "NameOwnerChanged" => Owned(s.id, s.of)
    PROVE  \A k \in 1 .. Len(queue') :
              queue'[k].kind # "NameOwnerChanged"
                  => Owned(queue'[k].id, queue'[k].of)
  <1>1. queue \in Seq(Signal \cup OwnerChange)
    BY DEF TypeOK
  <1>2. /\ Len(queue') = Len(queue) + 1 /\ Len(queue) \in Nat
        /\ queue'[Len(queue) + 1] = s
        /\ \A k \in 1 .. Len(queue) : queue'[k] = queue[k]
    BY <1>1
  <1>3. ASSUME NEW k \in 1 .. Len(queue'),
               queue'[k].kind # "NameOwnerChanged"
        PROVE  Owned(queue'[k].id, queue'[k].of)
    <2>1. CASE k = Len(queue) + 1
      BY <1>2, <1>3, <2>1
    <2>2. CASE k # Len(queue) + 1
      BY <1>2, <1>3, <2>2 DEF OwnerInv
    <2> QED BY <2>1, <2>2
  <1> QED BY <1>3

(* Both outcomes of a Notify the daemon serves: the client reads the reply *)
(* or loses it.                                                            *)
LEMMA OwnerShow ==
    ASSUME TypeOK, TypeOK', OwnerInv, NEW n \in Notifs,
           Displays(n, NotifyId(id[n])),
           id' = id \/ id' = [id EXCEPT ![n] = NotifyId(id[n])],
           UNCHANGED <<queue, signal, frame>>
    PROVE  OwnerInv'
  <1> DEFINE i == NotifyId(id[n])
  <1>1. i \in {id[n], nextId} /\ i \in Ids
    BY DEF NotifyId, Displays
  <1>2. /\ displayed' = [displayed EXCEPT ![i] = n]
        /\ nextId' \in Int /\ nextId' >= nextId /\ i < nextId'
    BY <1>1, ConstantsAssumption DEF Displays, TypeOK, Ids
  <1>3. id' = id \/ id' = [id EXCEPT ![n] = i]
    OBVIOUS
  <1> HIDE DEF i
  <1>4. \A k \in Ids, m \in Notifs : Owned(k, m) => Owned(k, m)'
    <2>1. id' = [id EXCEPT ![n] = id[n]] \/ id' = [id EXCEPT ![n] = i]
      BY <1>3 DEF TypeOK
    <2>2. CASE id' = [id EXCEPT ![n] = id[n]]
      BY <1>2, <2>2, OwnedStable
    <2>3. CASE id' = [id EXCEPT ![n] = i]
      BY <1>1, <1>2, <2>3, OwnedStable
    <2> QED BY <2>1, <2>2, <2>3
  <1>5. nextId' > i /\ \A p \in Notifs : id'[p] = i => p = n
    <2>1. ASSUME NEW p \in Notifs, id'[p] = i, p # n PROVE FALSE
      <3>1. id[p] = i /\ i # 0
        BY <1>1, <1>3, <2>1 DEF TypeOK, Ids
      <3>2. Owned(i, p)
        BY <3>1 DEF OwnerInv
      <3>3. i = id[n]
        BY <1>1, <3>2, ConstantsAssumption DEF Owned, TypeOK
      <3> QED BY <2>1, <3>2, <3>3 DEF Owned
    <2> QED BY <1>2, <2>1
  <1>6. \A m \in Notifs : (id[m] # 0 => Owned(id[m], m))'
    <2> SUFFICES ASSUME NEW m \in Notifs, id'[m] # 0
                 PROVE  Owned(id[m], m)'
      OBVIOUS
    <2>1. CASE id'[m] = id[m]
      <3>1. id[m] \in Ids /\ Owned(id[m], m)
        BY <2>1 DEF OwnerInv, TypeOK, Ids
      <3>2. id[m] < nextId' /\ \A p \in Notifs : id'[p] = id[m] => p = m
        BY <1>4, <3>1 DEF Owned
      <3> QED BY <2>1, <3>2 DEF Owned
    <2>2. CASE id'[m] # id[m]
      <3>1. m = n /\ id'[m] = i
        BY <1>3, <2>2 DEF TypeOK
      <3> QED BY <1>5, <3>1 DEF Owned
    <2> QED BY <2>1, <2>2
  <1>7. \A k \in Ids : (displayed[k] # None => Owned(k, displayed[k]))'
    <2> SUFFICES ASSUME NEW k \in Ids, displayed'[k] # None
                 PROVE  Owned(k, displayed[k])'
      OBVIOUS
    <2>1. CASE k = i
      <3>1. displayed'[k] = n
        BY <1>2, <2>1 DEF TypeOK
      <3> QED BY <1>5, <2>1, <3>1 DEF Owned
    <2>2. CASE k # i
      <3>1. displayed'[k] = displayed[k] /\ displayed[k] \in Notifs
        BY <1>2, <2>2 DEF TypeOK
      <3>2. Owned(k, displayed[k])
        BY <3>1, ConstantsAssumption DEF OwnerInv
      <3>3. k < nextId' /\ \A p \in Notifs : id'[p] = k => p = displayed[k]
        BY <1>4, <3>1, <3>2 DEF Owned
      <3> QED BY <3>1, <3>3 DEF Owned
    <2> QED BY <2>1, <2>2
  <1>8. \A k \in 1 .. Len(queue) : queue[k].kind # "NameOwnerChanged"
            => (Owned(queue[k].id, queue[k].of))'
    <2> SUFFICES ASSUME NEW k \in 1 .. Len(queue),
                        queue[k].kind # "NameOwnerChanged"
                 PROVE  Owned(queue[k].id, queue[k].of)'
      OBVIOUS
    <2> DEFINE s == queue[k]
    <2>1. s \in Signal \cup OwnerChange
      BY DEF TypeOK
    <2>2. s.id \in Ids /\ s.of \in Notifs
      BY <2>1, SignalFields DEF OwnerChange
    <2>3. Owned(s.id, s.of)
      BY DEF OwnerInv
    <2>4. s.id < nextId' /\ \A p \in Notifs : id'[p] = s.id => p = s.of
      BY <1>4, <2>2, <2>3 DEF Owned
    <2> QED BY <2>4 DEF Owned
  <1>9. signal # NoSignal => (Owned(signal.id, signal.of))'
    <2> SUFFICES ASSUME signal # NoSignal PROVE Owned(signal.id, signal.of)'
      OBVIOUS
    <2>1. signal.id \in Ids /\ signal.of \in Notifs
      BY SignalFields DEF TypeOK
    <2>2. Owned(signal.id, signal.of)
      BY DEF OwnerInv
    <2>3. signal.id < nextId'
          /\ \A p \in Notifs : id'[p] = signal.id => p = signal.of
      BY <1>4, <2>1, <2>2 DEF Owned
    <2> QED BY <2>3 DEF Owned
  <1>10. OwnSignals'
    BY DEF OwnerInv, OwnSignals
  <1> QED BY <1>6, <1>7, <1>8, <1>9, <1>10 DEF OwnerInv

LEMMA OwnerHides ==
    ASSUME TypeOK, OwnerInv, NEW i \in Ids, NEW r, Hides(i, r),
           UNCHANGED <<id, signal, frame>>
    PROVE  OwnerInv'
  <1>1. \A k, m : Owned(k, m) => Owned(k, m)'
    BY OwnedSame DEF Hides
  <1>2. /\ displayed[i] # None
        /\ displayed' = [displayed EXCEPT ![i] = None]
    BY DEF Hides
  <1>3. Owned(i, displayed[i])
    BY <1>2 DEF OwnerInv
  <1>4. \A k \in 1 .. Len(queue') : queue'[k].kind # "NameOwnerChanged"
            => Owned(queue'[k].id, queue'[k].of)
    <2> DEFINE s == [kind |-> "NotificationClosed", id |-> i,
                     of |-> displayed[i], reason |-> r]
    <2>1. queue' = Append(queue, s)
      BY DEF Hides
    <2>2. Owned(s.id, s.of)
      BY <1>3
    <2> HIDE DEF s
    <2> QED BY <2>1, <2>2, OwnedAppend
  <1>5. \A k \in Ids : displayed'[k] # None => Owned(k, displayed'[k])
    BY <1>2 DEF OwnerInv, TypeOK
  <1> QED BY <1>1, <1>4, <1>5 DEF OwnerInv, OwnSignals

(* Steps that leave ids, the screen, the queue and what is being handled   *)
(* alone, and the start of a handler.                                      *)
LEMMA OwnerQuiet ==
    ASSUME OwnerInv, UNCHANGED <<id, nextId, displayed, queue, signal>>,
           frame' \in {frame, Idle} \/ signal.of = frame'.n
    PROVE  OwnerInv'
  <1>1. \A i, m : Owned(i, m) => Owned(i, m)'
    BY OwnedSame
  <1>2. OwnSignals'
    BY DEF OwnerInv, OwnSignals
  <1> QED BY <1>1, <1>2 DEF OwnerInv

LEMMA OwnerVisit ==
    ASSUME TypeOK, OwnerInv, NEW n \in Notifs, Visit(n), Mine(n),
           signal # NoSignal
    PROVE  signal.of = n
  BY SignalFields DEF TypeOK, OwnerInv, Owned, Mine

LEMMA OwnerNext ==
    "restart" \notin Environment /\ HandlerInv /\ TypeOK' /\ OwnerInv
    /\ [Next]_vars => OwnerInv'
  <1> SUFFICES ASSUME "restart" \notin Environment, HandlerInv, TypeOK', OwnerInv,
                      [Next]_vars
               PROVE  OwnerInv'
    OBVIOUS
  <1>0. TypeOK
    BY DEF HandlerInv
  <1> USE <1>0
  <1>1. ASSUME NEW n \in Notifs, New(n) PROVE OwnerInv'
    BY <1>1, OwnerQuiet DEF New, notifyVars, loopVars, screenVars
  <1>2. ASSUME NEW n \in Notifs, NEW k \in Keys, AddAction(n, k) PROVE OwnerInv'
    BY <1>2, OwnerQuiet DEF AddAction, loopVars, screenVars
  <1>3. ASSUME NEW n \in Notifs, ClearActions(n) PROVE OwnerInv'
    BY <1>3, OwnerQuiet DEF ClearActions, loopVars, screenVars
  <1>4. ASSUME NEW n \in Notifs, ShowSucceeds(n) PROVE OwnerInv'
    BY <1>4, OwnerShow DEF ShowSucceeds, ShowStarts, loopVars
  <1>5. ASSUME NEW n \in Notifs, ShowFails(n) PROVE OwnerInv'
    BY <1>5, OwnerQuiet DEF ShowFails, ShowStarts, loopVars, screenVars
  <1>6. ASSUME NEW n \in Notifs, ShowLosesReply(n) PROVE OwnerInv'
    BY <1>6, OwnerShow DEF ShowLosesReply, ShowStarts, loopVars
  <1>7. ASSUME NEW n \in Notifs, Close(n) PROVE OwnerInv'
    <2>1. id[n] \in Ids
      BY <1>7 DEF Close, TypeOK, Ids
    <2> QED BY <1>7, <2>1, OwnerHides DEF Close, notifyVars, loopVars
  <1>8. ASSUME NEW n \in Notifs, Unref(n) PROVE OwnerInv'
    BY <1>8, OwnerQuiet DEF Unref, notifyVars, screenVars
  <1>9. CASE Dispatch
    <2>1. /\ queue \in Seq(Signal \cup OwnerChange) /\ queue # << >>
          /\ queue' = Tail(queue) /\ signal = NoSignal
          /\ UNCHANGED <<id, nextId, displayed, frame>>
      BY <1>9 DEF Dispatch, TypeOK, notifyVars, screenVars
    <2>2. \A k \in 1 .. Len(queue') :
              k + 1 \in 1 .. Len(queue) /\ queue'[k] = queue[k + 1]
      BY <2>1
    <2>3. \A k \in 1 .. Len(queue') : queue'[k].kind # "NameOwnerChanged"
              => Owned(queue'[k].id, queue'[k].of)
      BY <2>2 DEF OwnerInv
    <2>4. signal' # NoSignal => Owned(signal'.id, signal'.of)
      <3>1. 1 \in 1 .. Len(queue) /\ Head(queue) = queue[1]
        BY <2>1
      <3> QED BY <1>9, <3>1 DEF Dispatch, OwnerInv
    <2>5. frame = Idle
      BY <2>1 DEF HandlerInv, CallbacksOnLiveObjects
    <2>6. \A i, m : Owned(i, m) => Owned(i, m)'
      BY <2>1, OwnedSame
    <2>7. OwnSignals'
      BY <2>1, <2>5 DEF OwnerInv, OwnSignals
    <2> QED BY <2>1, <2>3, <2>4, <2>6, <2>7 DEF OwnerInv
  <1>10. ASSUME NEW n \in Notifs, Ignore(n) PROVE OwnerInv'
    BY <1>10, OwnerQuiet DEF Ignore, Visit, screenVars
  <1>11. ASSUME NEW n \in Notifs, CloseBegins(n) PROVE OwnerInv'
    BY <1>11, OwnerQuiet, OwnerVisit
    DEF CloseBegins, Visit, screenVars, ClosedFrame, NoSignal
  <1>12. ASSUME NEW n \in Notifs, TokenArrives(n) PROVE OwnerInv'
    BY <1>12, OwnerQuiet DEF TokenArrives, Visit, screenVars
  <1>13. ASSUME NEW n \in Notifs, ActivateBegins(n) PROVE OwnerInv'
    BY <1>13, OwnerQuiet, OwnerVisit
    DEF ActivateBegins, Visit, screenVars, ActionFrame, NoSignal
  <1>14. ASSUME NEW n \in Notifs, CloseEnds(n) PROVE OwnerInv'
    <2>1. /\ id' = [id EXCEPT ![n] = 0] /\ frame' = Idle
          /\ UNCHANGED <<nextId, displayed, queue, signal>>
      BY <1>14 DEF CloseEnds, HandlerReturns, screenVars
    <2>2. \A i \in Ids, m \in Notifs :
              Owned(i, m) => /\ i < nextId'
                             /\ \A p \in Notifs : id'[p] = i => p = m
      <3>1. nextId' \in Int /\ nextId' >= nextId
        BY <2>1, ConstantsAssumption DEF TypeOK
      <3>2. \A i \in Ids, m \in Notifs : Owned(i, m) => Owned(i, m)'
        BY <2>1, <3>1, OwnedStable
      <3> QED BY <3>2 DEF Owned
    <2>3. \A m \in Notifs : (id[m] # 0 => Owned(id[m], m))'
      BY <2>1 DEF TypeOK, OwnerInv, Owned
    <2>4. \A i \in Ids : displayed[i] # None => Owned(i, displayed[i])'
      <3>1. \A i \in Ids : displayed[i] # None =>
                displayed[i] \in Notifs /\ Owned(i, displayed[i])
        BY DEF OwnerInv, TypeOK
      <3> QED BY <2>1, <2>2, <3>1 DEF Owned
    <2>5. \A k \in 1 .. Len(queue) : queue[k].kind # "NameOwnerChanged"
              => Owned(queue[k].id, queue[k].of)'
      <3>1. \A k \in 1 .. Len(queue) : queue[k] \in Signal \cup OwnerChange
        BY DEF TypeOK
      <3>2. \A k \in 1 .. Len(queue) : queue[k].kind # "NameOwnerChanged"
                => queue[k].id \in Ids /\ queue[k].of \in Notifs
        BY <3>1, SignalFields DEF OwnerChange
      <3>3. \A k \in 1 .. Len(queue) : queue[k].kind # "NameOwnerChanged"
                => Owned(queue[k].id, queue[k].of)
        BY DEF OwnerInv
      <3> QED BY <2>1, <2>2, <3>2, <3>3 DEF Owned
    <2>6. signal # NoSignal => Owned(signal.id, signal.of)'
      <3> SUFFICES ASSUME signal # NoSignal PROVE Owned(signal.id, signal.of)'
        OBVIOUS
      <3>1. signal.id \in Ids /\ signal.of \in Notifs
        BY SignalFields DEF TypeOK
      <3>2. Owned(signal.id, signal.of)
        BY DEF OwnerInv
      <3> QED BY <2>1, <2>2, <3>1, <3>2 DEF Owned
    <2>7. OwnSignals'
      BY <2>1 DEF OwnSignals
    <2> QED BY <2>1, <2>3, <2>4, <2>5, <2>6, <2>7 DEF OwnerInv
  <1>15. ASSUME NEW n \in Notifs, ActivateEnds(n) PROVE OwnerInv'
    BY <1>15, OwnerQuiet DEF ActivateEnds, HandlerReturns, screenVars
  <1>16. CASE EndEmission
    <2>1. OwnSignals'
      BY <1>16 DEF EndEmission, OwnSignals
    <2> QED BY <1>16, <2>1, OwnedSame
            DEF EndEmission, OwnerInv, notifyVars, screenVars
  <1>17. ASSUME NEW i \in Ids, NEW r \in DaemonReasons, DaemonCloses(i, r)
         PROVE  OwnerInv'
    BY <1>17, OwnerHides DEF DaemonCloses, notifyVars, loopVars
  <1>18. ASSUME NEW i \in Ids, NEW k \in Keys, NEW t \in Tokens \cup {None},
                Invoke(i, k, t)
         PROVE  OwnerInv'
    <2> DEFINE a == [kind |-> "ActionInvoked", id |-> i, of |-> displayed[i],
                     key |-> k, token |-> t]
               b == [kind |-> "ActivationToken", id |-> i,
                     of |-> displayed[i], token |-> t]
    <2>1. /\ displayed[i] # None
          /\ queue' = Append(queue, a) \/ queue' = Append(Append(queue, b), a)
          /\ UNCHANGED <<id, nextId, displayed, signal, frame>>
      BY <1>18 DEF Invoke, notifyVars, loopVars, screenVars
    <2>2. Owned(i, displayed[i])
      BY <2>1 DEF OwnerInv
    <2>3. queue \in Seq(Signal \cup OwnerChange)
      BY DEF TypeOK
    <2>4. a.id = i /\ a.of = displayed[i] /\ b.id = i /\ b.of = displayed[i]
      OBVIOUS
    <2> HIDE DEF a, b
    <2>5. \A k1 \in 1 .. Len(queue') :
              \/ queue'[k1] \in {a, b}
              \/ k1 \in 1 .. Len(queue) /\ queue'[k1] = queue[k1]
      BY <2>1, <2>3
    <2>6. \A k1 \in 1 .. Len(queue') : queue'[k1].kind # "NameOwnerChanged"
              => Owned(queue'[k1].id, queue'[k1].of)
      BY <2>2, <2>4, <2>5 DEF OwnerInv
    <2>7. \A p, m : Owned(p, m) => Owned(p, m)'
      BY <2>1, OwnedSame
    <2> QED BY <2>1, <2>6, <2>7 DEF OwnerInv, OwnSignals
  <1>19. CASE Crash
    BY <1>19 DEF Crash
  <1>20. CASE Start
    <2> DEFINE s == [kind |-> "NameOwnerChanged", owner |-> epochs + 1]
    <2>1. /\ queue' = Append(queue, s) /\ s.kind = "NameOwnerChanged"
          /\ UNCHANGED <<id, nextId, displayed, signal, frame>>
      BY <1>20 DEF Start, notifyVars, loopVars, screenVars
    <2> HIDE DEF s
    <2>2. \A k \in 1 .. Len(queue') : queue'[k].kind # "NameOwnerChanged"
              => Owned(queue'[k].id, queue'[k].of)
      BY <2>1, OwnedAppend
    <2>3. \A p, m : Owned(p, m) => Owned(p, m)'
      BY <2>1, OwnedSame
    <2> QED BY <2>1, <2>2, <2>3 DEF OwnerInv, OwnSignals
  <1>21. CASE UNCHANGED stateVars
    BY <1>21, OwnerQuiet DEF stateVars, notifyVars, loopVars, screenVars
  <1> QED
    BY <1>1, <1>2, <1>3, <1>4, <1>5, <1>6, <1>7, <1>8, <1>9, <1>10, <1>11,
       <1>12, <1>13, <1>14, <1>15, <1>16, <1>17, <1>18, <1>19, <1>20, <1>21
    DEF Next, MainLoop, Handler, Daemon, App, vars,
        notification_app_launch_context_new,
        notification_app_launch_context_finalize

LEMMA EnvironmentStays == [Next]_vars => UNCHANGED Environment
  BY DEF Next, MainLoop, Handler, Daemon, App, New, ClearActions, Close, Unref,
         AddAction, ShowStarts, ShowSucceeds, ShowFails, ShowLosesReply, Visit,
         Ignore, CloseBegins, TokenArrives, ActivateBegins, HandlerReturns,
         CloseEnds, ActivateEnds, Dispatch, EndEmission, DaemonCloses, Invoke,
         Crash, Start, busVars, vars, stateVars,
         notification_app_launch_context_new,
         notification_app_launch_context_finalize

OneDaemonInv == "restart" \notin Environment => OwnerInv

LEMMA OneDaemonInvariant == Spec => []OneDaemonInv
  <1>1. Init => OneDaemonInv
    BY OwnerInit DEF OneDaemonInv
  <1>2. HandlerInv /\ TypeOK' /\ OneDaemonInv /\ [Next]_vars => OneDaemonInv'
    BY OwnerNext, EnvironmentStays DEF OneDaemonInv
  <1> QED BY <1>1, <1>2, TypeCorrect, HandlerInvariant, PTL DEF Spec

(* As long as one daemon runs, no two notifications share an id: not after *)
(* a lost reply, a failed show, a close still unheard of, a re-show.       *)
THEOREM IdsAreUnique == Spec => []UniqueIds
  <1>1. OneDaemonInv => UniqueIds
    BY DEF OneDaemonInv, OwnerInv, Owned, UniqueIds
  <1> QED BY <1>1, OneDaemonInvariant, PTL

(* As long as one daemon runs, a notification is closed or activated only  *)
(* by a signal the daemon sent about it.                                   *)
THEOREM SignalsReachTheirOwner == Spec => []SignalReachesItsOwner
  <1>1. OneDaemonInv => SignalReachesItsOwner
    BY DEF OneDaemonInv, OwnerInv, SignalReachesItsOwner
  <1> QED BY <1>1, OneDaemonInvariant, PTL

-----------------------------------------------------------------------------
(* The screen, with replies that arrive and no re-show from inside         *)
(* "closed": a close on its way to the client is not the close of anything *)
(* on screen, but for what was shown across it.                            *)
BubblesAreOpen ==
    \A n \in Notifs : frame = ClosedFrame(n) => \A i \in Ids : Bubble(i) # n

QueueIsOfThePast ==
    \A k \in 1 .. Len(queue) : queue[k].kind = "NotificationClosed"
        => Bubble(queue[k].id) = None

ScreenInv ==
    /\ \A i \in Ids, n \in Notifs : Bubble(i) = n => id[n] = i
    /\ BubblesAreOpen
    /\ QueueIsOfThePast
    /\ signal.kind = "NotificationClosed" => Bubble(signal.id) = None

LEMMA ScreenInit == Init => ScreenInv
  BY ConstantsAssumption
  DEF Init, ScreenInv, BubblesAreOpen, QueueIsOfThePast, Bubble, NoSignal, Idle, ClosedFrame

(* A step that shows and hides nothing, sends nothing and starts nothing.  *)
LEMMA ScreenQuiet ==
    ASSUME ScreenInv, UNCHANGED <<id, displayed, crossed, queue, signal>>,
           \A n \in Notifs : frame' = ClosedFrame(n) => frame = ClosedFrame(n)
    PROVE  ScreenInv'
  BY DEF ScreenInv, BubblesAreOpen, QueueIsOfThePast, Bubble

LEMMA ScreenAppend ==
    ASSUME TypeOK, ScreenInv, NEW s, queue' = Append(queue, s),
           \A i \in Ids : Bubble(i) = None => Bubble(i)' = None,
           s.kind = "NotificationClosed" => Bubble(s.id)' = None
    PROVE  QueueIsOfThePast'
  <1>1. queue \in Seq(Signal \cup OwnerChange)
    BY DEF TypeOK
  <1>2. /\ Len(queue') = Len(queue) + 1 /\ Len(queue) \in Nat
        /\ queue'[Len(queue) + 1] = s
        /\ \A k \in 1 .. Len(queue) :
              queue'[k] = queue[k] /\ queue[k] \in Signal \cup OwnerChange
    BY <1>1
  <1>3. ASSUME NEW k \in 1 .. Len(queue'),
               queue'[k].kind = "NotificationClosed"
        PROVE  Bubble(queue[k].id)' = None
    <2>1. CASE k = Len(queue) + 1
      BY <1>2, <1>3, <2>1 DEF Bubble
    <2>2. CASE k # Len(queue) + 1
      <3>1. k \in 1 .. Len(queue)
        BY <1>2, <2>2
      <3> PICK j \in Ids : j = queue[k].id
        BY <1>2, <1>3, <3>1, SignalFields DEF OwnerChange
      <3>2. Bubble(j) = None
        BY <1>2, <1>3, <3>1 DEF ScreenInv, QueueIsOfThePast
      <3> QED BY <1>2, <3>1, <3>2 DEF Bubble
    <2> QED BY <2>1, <2>2
  <1> QED BY <1>3 DEF QueueIsOfThePast

LEMMA ScreenHides ==
    ASSUME TypeOK, ScreenInv, NEW i \in Ids, NEW r, Hides(i, r),
           UNCHANGED <<id, signal, frame>>
    PROVE  ScreenInv'
  <1> PICK s : s = [kind |-> "NotificationClosed", id |-> i,
                    of |-> displayed[i], reason |-> r]
    OBVIOUS
  <1>1. /\ displayed' = [displayed EXCEPT ![i] = None]
        /\ crossed' = crossed \ {i}
        /\ queue' = Append(queue, s) /\ s.id = i
    BY DEF Hides
  <1>2. /\ Bubble(i)' = None
        /\ \A k \in Ids : k # i => Bubble(k)' = Bubble(k)
    BY <1>1 DEF TypeOK, Bubble
  <1>3. \A k \in Ids : Bubble(k) = None => Bubble(k)' = None
    BY <1>2
  <1>4. Bubble(s.id)' = None
    BY <1>1, <1>2 DEF Bubble
  <1>5. QueueIsOfThePast'
    BY <1>1, <1>3, <1>4, ScreenAppend
  <1>6. \A k \in Ids, n \in Notifs : Bubble(k)' = n => Bubble(k) = n
    BY <1>2, ConstantsAssumption
  <1>7. signal'.kind = "NotificationClosed" => Bubble(signal.id)' = None
    <2> SUFFICES ASSUME signal.kind = "NotificationClosed"
                 PROVE  Bubble(signal.id)' = None
      OBVIOUS
    <2> PICK j \in Ids : j = signal.id
      BY SignalKinds DEF TypeOK, ClosedSignal
    <2>1. Bubble(j)' = None
      BY <1>3 DEF ScreenInv
    <2> QED BY <2>1 DEF Bubble
  <1>8. /\ \A k \in Ids, n \in Notifs : Bubble(k)' = n => id'[n] = k
        /\ BubblesAreOpen'
    BY <1>6 DEF ScreenInv, BubblesAreOpen
  <1> QED BY <1>5, <1>7, <1>8 DEF ScreenInv

LEMMA ScreenShow ==
    ASSUME Ordinary, TypeOK, ScreenInv, NEW n \in Notifs, ShowSucceeds(n)
    PROVE  ScreenInv'
  <1> PICK i \in Ids : i = NotifyId(id[n])
    BY DEF ShowSucceeds, Displays
  <1>1. /\ displayed' = [displayed EXCEPT ![i] = n]
        /\ crossed' = IF CloseIsPending(i) THEN crossed \cup {i}
                                           ELSE crossed \ {i}
        /\ id' = [id EXCEPT ![n] = i]
        /\ frame # ClosedFrame(n)
        /\ UNCHANGED <<queue, signal, frame>>
    BY DEF ShowSucceeds, ShowStarts, Displays, Ordinary, loopVars
  <1>2. id[n] # 0 /\ displayed[id[n]] # None => i = id[n]
    BY DEF NotifyId
  <1>3. /\ Bubble(i)' = IF CloseIsPending(i) THEN None ELSE n
        /\ \A k \in Ids : k # i => Bubble(k)' = Bubble(k)
    BY <1>1 DEF TypeOK, Bubble
  <1>4. ASSUME NEW k \in Ids, Bubble(k) = None, ~ (k = i /\ ~ CloseIsPending(i))
        PROVE  Bubble(k)' = None
    BY <1>3, <1>4
  <1>5. \A k \in Ids, m \in Notifs : Bubble(k)' = m => id'[m] = k
    <2> SUFFICES ASSUME NEW k \in Ids, NEW m \in Notifs, Bubble(k)' = m
                 PROVE  id'[m] = k
      OBVIOUS
    <2>1. CASE k = i
      BY <1>1, <1>3, <2>1, ConstantsAssumption DEF TypeOK
    <2>2. CASE k # i
      <3>1. Bubble(k) = m /\ id[m] = k
        BY <1>3, <2>2 DEF ScreenInv
      <3>2. displayed[k] # None
        BY <3>1, ConstantsAssumption DEF Bubble
      <3>3. m # n
        BY <1>2, <2>2, <3>1, <3>2 DEF Ids
      <3> QED BY <1>1, <3>1, <3>3 DEF TypeOK
    <2> QED BY <2>1, <2>2
  <1>6. BubblesAreOpen'
    <2> SUFFICES ASSUME NEW m \in Notifs, frame = ClosedFrame(m), NEW k \in Ids
                 PROVE  Bubble(k)' # m
      BY <1>1 DEF BubblesAreOpen, ClosedFrame
    <2>1. m # n /\ Bubble(k) # m
      BY <1>1 DEF ScreenInv, BubblesAreOpen
    <2> QED BY <1>3, <2>1, ConstantsAssumption
  <1>7. QueueIsOfThePast'
    <2> SUFFICES ASSUME NEW k \in 1 .. Len(queue),
                        queue[k].kind = "NotificationClosed"
                 PROVE  Bubble(queue[k].id)' = None
      BY <1>1 DEF QueueIsOfThePast
    <2>1. queue[k] \in Signal \cup OwnerChange
      BY DEF TypeOK
    <2> PICK j \in Ids : j = queue[k].id
      BY <2>1, SignalKinds DEF ClosedSignal
    <2>2. Bubble(j) = None
      BY DEF ScreenInv, QueueIsOfThePast
    <2>3. j = i => CloseIsPending(i)
      BY DEF CloseIsPending, ClosesId
    <2>4. Bubble(j)' = None
      BY <1>4, <2>2, <2>3
    <2> QED BY <1>1, <2>4 DEF Bubble
  <1>8. signal'.kind = "NotificationClosed" => Bubble(signal.id)' = None
    <2> SUFFICES ASSUME signal.kind = "NotificationClosed"
                 PROVE  Bubble(signal.id)' = None
      BY <1>1
    <2> PICK j \in Ids : j = signal.id
      BY SignalKinds DEF TypeOK, ClosedSignal
    <2>1. Bubble(j) = None /\ (j = i => CloseIsPending(i))
      BY DEF ScreenInv, CloseIsPending, ClosesId
    <2>2. Bubble(j)' = None
      BY <1>4, <2>1
    <2> QED BY <1>1, <2>2 DEF Bubble
  <1> QED BY <1>5, <1>6, <1>7, <1>8 DEF ScreenInv

LEMMA ScreenNext ==
    Ordinary /\ HandlerInv /\ ScreenInv /\ [Next]_vars => ScreenInv'
  <1> SUFFICES ASSUME Ordinary, HandlerInv, ScreenInv, [Next]_vars
               PROVE  ScreenInv'
    OBVIOUS
  <1>0. TypeOK
    BY DEF HandlerInv
  <1> USE <1>0
  <1>1. ASSUME NEW n \in Notifs, New(n) PROVE ScreenInv'
    BY <1>1, ScreenQuiet DEF New, notifyVars, loopVars, screenVars
  <1>2. ASSUME NEW n \in Notifs, NEW k \in Keys, AddAction(n, k)
        PROVE  ScreenInv'
    BY <1>2, ScreenQuiet DEF AddAction, loopVars, screenVars
  <1>3. ASSUME NEW n \in Notifs, ClearActions(n) PROVE ScreenInv'
    BY <1>3, ScreenQuiet DEF ClearActions, loopVars, screenVars
  <1>4. ASSUME NEW n \in Notifs, ShowSucceeds(n) PROVE ScreenInv'
    BY <1>4, ScreenShow
  <1>5. ASSUME NEW n \in Notifs, ShowFails(n) PROVE ScreenInv'
    BY <1>5, ScreenQuiet DEF ShowFails, ShowStarts, loopVars, screenVars
  <1>6. ASSUME NEW n \in Notifs, ShowLosesReply(n) PROVE ScreenInv'
    BY <1>6 DEF ShowLosesReply, Ordinary
  <1>7. ASSUME NEW n \in Notifs, Close(n) PROVE ScreenInv'
    <2>1. id[n] \in Ids
      BY <1>7 DEF Close, TypeOK, Ids
    <2> QED BY <1>7, <2>1, ScreenHides DEF Close, notifyVars, loopVars
  <1>8. ASSUME NEW n \in Notifs, Unref(n) PROVE ScreenInv'
    BY <1>8, ScreenQuiet DEF Unref, notifyVars, screenVars
  <1>9. CASE Dispatch
    <2>1. /\ queue \in Seq(Signal \cup OwnerChange) /\ queue # << >>
          /\ queue' = Tail(queue)
          /\ signal' \in {signal, Head(queue)}
          /\ UNCHANGED <<id, displayed, crossed, frame>>
      BY <1>9 DEF Dispatch, TypeOK, notifyVars, screenVars
    <2>2. /\ \A k \in 1 .. Len(queue') :
                k + 1 \in 1 .. Len(queue) /\ queue'[k] = queue[k + 1]
          /\ 1 \in 1 .. Len(queue) /\ Head(queue) = queue[1]
      BY <2>1
    <2>3. QueueIsOfThePast'
      BY <2>1, <2>2 DEF ScreenInv, QueueIsOfThePast, Bubble
    <2>4. signal'.kind = "NotificationClosed" => Bubble(signal.id)' = None
      BY <2>1, <2>2 DEF ScreenInv, QueueIsOfThePast, Bubble
    <2> QED BY <2>1, <2>3, <2>4 DEF ScreenInv, BubblesAreOpen, Bubble
  <1>10. ASSUME NEW n \in Notifs, Ignore(n) PROVE ScreenInv'
    BY <1>10, ScreenQuiet DEF Ignore, Visit, screenVars
  <1>11. ASSUME NEW n \in Notifs, CloseBegins(n) PROVE ScreenInv'
    <2>1. /\ frame' \in {frame, ClosedFrame(n)}
          /\ UNCHANGED <<id, displayed, crossed, queue, signal>>
          /\ signal.kind = "NotificationClosed" /\ signal.id = id[n]
      BY <1>11 DEF CloseBegins, Visit, Mine, screenVars
    <2>2. \A j \in Ids : Bubble(j) # n
      <3>1. Bubble(signal.id) = None
        BY <2>1 DEF ScreenInv
      <3> QED BY <2>1, <3>1, ConstantsAssumption DEF ScreenInv
    <2>3. BubblesAreOpen'
      BY <2>1, <2>2 DEF ScreenInv, BubblesAreOpen, ClosedFrame, Bubble
    <2> QED BY <2>1, <2>3 DEF ScreenInv, QueueIsOfThePast, Bubble
  <1>12. ASSUME NEW n \in Notifs, TokenArrives(n) PROVE ScreenInv'
    BY <1>12, ScreenQuiet DEF TokenArrives, Visit, screenVars
  <1>13. ASSUME NEW n \in Notifs, ActivateBegins(n) PROVE ScreenInv'
    BY <1>13, ScreenQuiet
    DEF ActivateBegins, Visit, screenVars, ClosedFrame, ActionFrame
  <1>14. ASSUME NEW n \in Notifs, CloseEnds(n) PROVE ScreenInv'
    <2>1. /\ id' = [id EXCEPT ![n] = 0] /\ frame' = Idle
          /\ UNCHANGED <<displayed, crossed, queue, signal>>
          /\ \A i \in Ids : Bubble(i) # n
      BY <1>14 DEF CloseEnds, HandlerReturns, screenVars, ScreenInv,
                   BubblesAreOpen
    <2>2. \A i \in Ids, m \in Notifs : Bubble(i)' = m => id'[m] = i
      BY <2>1 DEF ScreenInv, TypeOK, Bubble
    <2>3. BubblesAreOpen'
      BY <2>1 DEF BubblesAreOpen, Idle, ClosedFrame
    <2> QED BY <2>1, <2>2, <2>3 DEF ScreenInv, QueueIsOfThePast, Bubble
  <1>15. ASSUME NEW n \in Notifs, ActivateEnds(n) PROVE ScreenInv'
    BY <1>15, ScreenQuiet
    DEF ActivateEnds, HandlerReturns, screenVars, Idle, ClosedFrame
  <1>16. CASE EndEmission
    BY <1>16 DEF EndEmission, ScreenInv, BubblesAreOpen, QueueIsOfThePast,
                 Bubble, NoSignal, notifyVars, screenVars
  <1>17. ASSUME NEW i \in Ids, NEW r \in DaemonReasons, DaemonCloses(i, r)
         PROVE  ScreenInv'
    BY <1>17, ScreenHides DEF DaemonCloses, notifyVars, loopVars
  <1>18. ASSUME NEW i \in Ids, NEW k \in Keys, NEW t \in Tokens \cup {None},
                Invoke(i, k, t)
         PROVE  ScreenInv'
    <2> DEFINE a == [kind |-> "ActionInvoked", id |-> i, of |-> displayed[i],
                     key |-> k, token |-> t]
               b == [kind |-> "ActivationToken", id |-> i,
                     of |-> displayed[i], token |-> t]
    <2>1. /\ queue' = Append(queue, a) \/ queue' = Append(Append(queue, b), a)
          /\ UNCHANGED <<id, displayed, crossed, signal, frame>>
      BY <1>18 DEF Invoke, notifyVars, loopVars, screenVars
    <2>2. queue \in Seq(Signal \cup OwnerChange)
      BY DEF TypeOK
    <2>3. a.kind = "ActionInvoked" /\ b.kind = "ActivationToken"
      OBVIOUS
    <2> HIDE DEF a, b
    <2>4. \A k1 \in 1 .. Len(queue') :
              \/ queue'[k1] \in {a, b}
              \/ k1 \in 1 .. Len(queue) /\ queue'[k1] = queue[k1]
      BY <2>1, <2>2
    <2>5. QueueIsOfThePast'
      BY <2>1, <2>3, <2>4 DEF ScreenInv, QueueIsOfThePast, Bubble
    <2> QED BY <2>1, <2>5 DEF ScreenInv, BubblesAreOpen, Bubble
  <1>19. CASE Crash
    <2> DEFINE s == [kind |-> "NameOwnerChanged", owner |-> 0]
    <2>1. /\ queue' = Append(queue, s) /\ s.kind = "NameOwnerChanged"
          /\ displayed' = [i \in Ids |-> None]
          /\ UNCHANGED <<id, signal, frame>>
      BY <1>19 DEF Crash, notifyVars, loopVars
    <2> HIDE DEF s
    <2>2. \A i \in Ids : Bubble(i)' = None
      BY <2>1 DEF Bubble
    <2>3. QueueIsOfThePast'
      BY <2>1, <2>2, ScreenAppend
    <2>4. signal'.kind = "NotificationClosed" => Bubble(signal.id)' = None
      BY <2>1, <2>2, SignalKinds DEF Bubble, TypeOK, ClosedSignal
    <2> QED BY <2>1, <2>2, <2>3, <2>4, ConstantsAssumption
            DEF ScreenInv, BubblesAreOpen
  <1>20. CASE Start
    <2> DEFINE s == [kind |-> "NameOwnerChanged", owner |-> epochs + 1]
    <2>1. /\ queue' = Append(queue, s) /\ s.kind = "NameOwnerChanged"
          /\ UNCHANGED <<id, displayed, crossed, signal, frame>>
      BY <1>20 DEF Start, notifyVars, loopVars, screenVars
    <2> HIDE DEF s
    <2>2. QueueIsOfThePast'
      BY <2>1, ScreenAppend DEF Bubble
    <2> QED BY <2>1, <2>2 DEF ScreenInv, BubblesAreOpen, Bubble
  <1>21. CASE UNCHANGED stateVars
    BY <1>21, ScreenQuiet DEF stateVars, notifyVars, loopVars, screenVars
  <1> QED
    BY <1>1, <1>2, <1>3, <1>4, <1>5, <1>6, <1>7, <1>8, <1>9, <1>10, <1>11,
       <1>12, <1>13, <1>14, <1>15, <1>16, <1>17, <1>18, <1>19, <1>20, <1>21
    DEF Next, MainLoop, Handler, Daemon, App, vars,
        notification_app_launch_context_new,
        notification_app_launch_context_finalize

OrdinaryInv == Ordinary => ScreenInv

LEMMA OrdinaryInvariant == Spec => []OrdinaryInv
  <1>1. Init => OrdinaryInv
    BY ScreenInit DEF OrdinaryInv
  <1>2. HandlerInv /\ OrdinaryInv /\ [Next]_vars => OrdinaryInv'
    <2> SUFFICES ASSUME HandlerInv, OrdinaryInv, [Next]_vars, Ordinary'
                 PROVE  ScreenInv'
      BY DEF OrdinaryInv
    <2>1. Ordinary
      BY EnvironmentStays DEF Ordinary
    <2> QED BY <2>1, ScreenNext DEF OrdinaryInv
  <1> QED BY <1>1, <1>2, HandlerInvariant, PTL DEF Spec

(* As long as replies arrive and handlers do not show what they are called *)
(* for, every bubble on screen can be closed and replaced by the           *)
(* notification object it belongs to, unless it was shown across a close   *)
(* of its own id: with daemons that keep the id they are asked to replace, *)
(* with those that do not, and with daemons that restart, ...              *)
THEOREM ScreenIsReachable == Spec => []DisplayedIsReachable
  <1>1. OrdinaryInv => DisplayedIsReachable
    BY DEF OrdinaryInv, ScreenInv, DisplayedIsReachable
  <1> QED BY <1>1, OrdinaryInvariant, PTL

(* ... and "closed" is emitted of no other bubble that is on screen.       *)
THEOREM ClosedIsNeverStale == Spec => []ClosedIsTrue
  <1>1. OrdinaryInv => ClosedIsTrue
    BY DEF OrdinaryInv, ScreenInv, BubblesAreOpen, ClosedIsTrue
  <1> QED BY <1>1, OrdinaryInvariant, PTL

(* A daemon that gives new ids for those it has closed leaves no bubble    *)
(* out: a pending close is of an id that was given out before and is not   *)
(* on screen, and such an id is not shown again.                           *)
LEMMA PendingIsPast ==
    ASSUME TypeOK, OwnerInv, ScreenInv, crossed = {}, NEW i \in Ids,
           CloseIsPending(i)
    PROVE  displayed[i] = None /\ i # nextId
  <1>1. CASE ClosesId(signal, i)
    <2>1. signal # NoSignal /\ Bubble(i) = None
      BY <1>1 DEF ClosesId, NoSignal, ScreenInv
    <2>2. i < nextId
      BY <1>1, <2>1 DEF OwnerInv, Owned, ClosesId
    <2> QED BY <2>1, <2>2, ConstantsAssumption DEF Bubble, TypeOK, Ids
  <1>2. CASE \E k \in 1 .. Len(queue) : ClosesId(queue[k], i)
    <2> PICK k \in 1 .. Len(queue) : ClosesId(queue[k], i)
      BY <1>2
    <2>1. Bubble(i) = None /\ i < nextId
      BY DEF ClosesId, ScreenInv, QueueIsOfThePast, OwnerInv, Owned
    <2> QED BY <2>1, ConstantsAssumption DEF Bubble, TypeOK, Ids
  <1> QED BY <1>1, <1>2 DEF CloseIsPending

LEMMA NewIdsNext ==
    HandlerInv /\ OneDaemonInv /\ OrdinaryInv /\ NewIdsDoNotCross /\ [Next]_vars
        => NewIdsDoNotCross'
  <1> SUFFICES ASSUME HandlerInv, OneDaemonInv, OrdinaryInv, NewIdsDoNotCross,
                      [Next]_vars, Ordinary', "renumbers" \in Environment',
                      "restart" \notin Environment'
               PROVE  crossed' = {}
    BY DEF NewIdsDoNotCross
  <1>1. /\ Ordinary /\ "renumbers" \in Environment
        /\ "restart" \notin Environment
    BY EnvironmentStays DEF Ordinary
  <1>2. TypeOK /\ OwnerInv /\ ScreenInv /\ crossed = {}
    BY <1>1 DEF HandlerInv, OneDaemonInv, OrdinaryInv,
                NewIdsDoNotCross
  <1>3. ASSUME NEW n \in Notifs, ShowSucceeds(n) PROVE crossed' = {}
    <2> PICK i \in Ids : i = NotifyId(id[n])
      BY <1>3 DEF ShowSucceeds, Displays
    <2>1. i = nextId \/ displayed[i] # None
      BY <1>1 DEF NotifyId
    <2>2. ~ CloseIsPending(i)
      BY <1>2, <2>1, PendingIsPast
    <2> QED BY <1>2, <1>3, <2>2 DEF ShowSucceeds, Displays
  <1>4. ASSUME NEW i, NEW r, Hides(i, r) PROVE crossed' = {}
    BY <1>2, <1>4 DEF Hides
  <1>5. CASE UNCHANGED crossed
    BY <1>2, <1>5
  <1>6. ASSUME NEW n \in Notifs, ShowLosesReply(n) PROVE FALSE
    BY <1>1, <1>6 DEF ShowLosesReply, Ordinary
  <1>7. CASE Crash
    BY <1>7 DEF Crash
  <1>8. ASSUME NEW n \in Notifs, App(n) PROVE crossed' = {}
    BY <1>3, <1>4, <1>5, <1>6, <1>8
    DEF App, New, AddAction, ClearActions, ShowFails, Close, Unref, stateVars,
        notification_app_launch_context_new, screenVars
  <1>9. CASE MainLoop
    BY <1>5, <1>9
    DEF MainLoop, Handler, Dispatch, EndEmission, Visit, Ignore, CloseBegins,
        TokenArrives, ActivateBegins, HandlerReturns, CloseEnds, ActivateEnds,
        screenVars
  <1>10. CASE Daemon
    BY <1>4, <1>5, <1>7, <1>10 DEF Daemon, DaemonCloses, Invoke, Start,
                                   screenVars
  <1> QED
    BY <1>5, <1>8, <1>9, <1>10
    DEF Next, vars, stateVars, screenVars,
        notification_app_launch_context_finalize

THEOREM NewIdsAreNeverCrossed == Spec => []NewIdsDoNotCross
  <1>1. Init => NewIdsDoNotCross
    BY DEF Init, NewIdsDoNotCross
  <1> QED BY <1>1, NewIdsNext, HandlerInvariant, OneDaemonInvariant,
             OrdinaryInvariant, PTL DEF Spec

-----------------------------------------------------------------------------
(* Closes are not lost.  A notification with an id is connected, so that   *)
(* the emission of the close comes to it.                                  *)
HeardInv ==
    \A n \in Notifs : /\ Live(n) /\ id[n] # 0 => n \in handlers
                      /\ ref[n] = "none" => id[n] = 0

LEMMA HeardInit == Init => HeardInv
  BY DEF Init, HeardInv

LEMMA HeardQuiet ==
    ASSUME HeardInv, UNCHANGED <<id, ref>>, handlers \subseteq handlers'
    PROVE  HeardInv'
  BY DEF HeardInv, Live

LEMMA HeardReturns ==
    ASSUME TypeOK, HeardInv, NEW n \in Notifs, HandlerReturns(n),
           id' = [id EXCEPT ![n] = 0] \/ id' = id
    PROVE  HeardInv'
  <1>1. \/ UNCHANGED <<ref, handlers>>
        \/ /\ ref' = [ref EXCEPT ![n] = "gone"]
           /\ handlers' = handlers \ {n}
    BY DEF HandlerReturns, Finalizes
  <1> QED BY <1>1 DEF TypeOK, HeardInv, Live

LEMMA HeardNext == HandlerInv /\ HeardInv /\ [Next]_vars => HeardInv'
  <1> SUFFICES ASSUME HandlerInv, HeardInv, [Next]_vars PROVE HeardInv'
    OBVIOUS
  <1>0. TypeOK
    BY DEF HandlerInv
  <1> USE <1>0
  <1>1. ASSUME NEW n \in Notifs, New(n) PROVE HeardInv'
    BY <1>1 DEF New, HeardInv, Live, TypeOK, notifyVars
  <1>2. ASSUME NEW n \in Notifs, ShowSucceeds(n) PROVE HeardInv'
    BY <1>2 DEF ShowSucceeds, ShowStarts, Callable, HeardInv, Live, TypeOK
  <1>3. ASSUME NEW n \in Notifs, ShowFails(n) \/ ShowLosesReply(n)
        PROVE  HeardInv'
    BY <1>3, HeardQuiet DEF ShowFails, ShowLosesReply, ShowStarts
  <1>4. ASSUME NEW n \in Notifs, Unref(n) PROVE HeardInv'
    <2>1. \/ ref' = [ref EXCEPT ![n] = "kept"] /\ UNCHANGED <<id, handlers>>
          \/ /\ ref' = [ref EXCEPT ![n] = "gone"] /\ UNCHANGED id
             /\ handlers' = handlers \ {n}
      BY <1>4 DEF Unref, Finalizes, notifyVars
    <2>2. ref[n] = "held"
      BY <1>4 DEF Unref
    <2> QED BY <2>1, <2>2 DEF HeardInv, Live, TypeOK
  <1>5. ASSUME NEW n \in Notifs, CloseEnds(n) PROVE HeardInv'
    BY <1>5, HeardReturns DEF CloseEnds
  <1>6. ASSUME NEW n \in Notifs, ActivateEnds(n) PROVE HeardInv'
    BY <1>6, HeardReturns DEF ActivateEnds
  <1>7. ASSUME UNCHANGED <<id, lifeVars>> PROVE HeardInv'
    BY <1>7, HeardQuiet DEF lifeVars
  <1>8. ASSUME NEW n \in Notifs,
               \/ ClearActions(n) \/ Close(n) \/ (\E k \in Keys : AddAction(n, k))
               \/ Ignore(n) \/ CloseBegins(n) \/ TokenArrives(n)
               \/ ActivateBegins(n) \/ notification_app_launch_context_new(n)
        PROVE  HeardInv'
    BY <1>7, <1>8
    DEF ClearActions, Close, AddAction, Ignore, CloseBegins, TokenArrives, Visit,
        ActivateBegins, notification_app_launch_context_new, stateVars, notifyVars
  <1>9. CASE \/ Dispatch \/ EndEmission \/ Daemon \/ UNCHANGED vars
             \/ notification_app_launch_context_finalize
    BY <1>7, <1>9
    DEF Dispatch, EndEmission, Daemon, DaemonCloses, Invoke, Crash, Start,
        notification_app_launch_context_finalize, vars, stateVars, notifyVars
  <1> QED BY <1>1, <1>2, <1>3, <1>4, <1>5, <1>6, <1>8, <1>9
          DEF Next, MainLoop, Handler, App

(* Only Dispatch takes from the queue; anything else adds at its end.      *)
LEMMA QueueGrows ==
    ASSUME TypeOK, [Next]_vars, ~ Dispatch, NEW k \in 1 .. Len(queue)
    PROVE  k \in 1 .. Len(queue') /\ queue'[k] = queue[k]
  <1>0. queue \in Seq(Signal \cup OwnerChange)
    BY DEF TypeOK
  <1>1. \/ UNCHANGED queue
        \/ \E s : queue' = Append(queue, s)
        \/ \E s, t : queue' = Append(Append(queue, s), t)
    <2>1. ASSUME NEW n \in Notifs, App(n) PROVE <1>1!1 \/ <1>1!2
      BY <2>1 DEF App, New, ClearActions, Close, Hides, Unref, AddAction,
                  ShowSucceeds, ShowFails, ShowLosesReply, ShowStarts,
                  notification_app_launch_context_new, stateVars
    <2>2. ASSUME NEW n \in Notifs, Handler(n) PROVE UNCHANGED queue
      BY <2>2 DEF Handler, Ignore, CloseBegins, TokenArrives, ActivateBegins,
                  CloseEnds, ActivateEnds, Visit, HandlerReturns
    <2>3. ASSUME NEW i \in Ids, NEW r \in DaemonReasons, DaemonCloses(i, r)
          PROVE  \E s : queue' = Append(queue, s)
      BY <2>3 DEF DaemonCloses, Hides
    <2>4. ASSUME NEW i \in Ids, NEW c \in Keys, NEW t \in Tokens \cup {None},
                 Invoke(i, c, t)
          PROVE  \/ \E s : queue' = Append(queue, s)
                 \/ \E s, u : queue' = Append(Append(queue, s), u)
      BY <2>4 DEF Invoke
    <2>5. CASE \/ Crash \/ Start \/ EndEmission \/ UNCHANGED vars
               \/ notification_app_launch_context_finalize
      BY <2>5 DEF Crash, Start, EndEmission, vars, stateVars,
                  notification_app_launch_context_finalize
    <2> QED BY <2>1, <2>2, <2>3, <2>4, <2>5 DEF Next, MainLoop, Daemon
  <1> QED BY <1>0, <1>1

LEMMA DispatchMoves ==
    ASSUME TypeOK, Dispatch
    PROVE  /\ \A k \in 1 .. Len(queue) :
                 k > 1 => /\ k - 1 \in 1 .. Len(queue')
                          /\ queue'[k - 1] = queue[k]
           /\ queue[1].kind = "NotificationClosed"
                 => signal' = queue[1] /\ todo' = handlers
  BY DEF TypeOK, Dispatch

(* A notification that stays unaware keeps its id.                         *)
LEMMA UnawareKeepsId ==
    ASSUME TypeOK, [Next]_vars, NEW n \in Notifs, Unaware(n), Unaware(n)'
    PROVE  id'[n] = id[n]
  <1>1. ASSUME NEW m \in Notifs, ShowSucceeds(m) PROVE id'[n] = id[n]
    <2>1. id' = [id EXCEPT ![m] = NotifyId(id[m])]
          /\ displayed' = [displayed EXCEPT ![NotifyId(id[m])] = m]
          /\ NotifyId(id[m]) \in Ids
      BY <1>1 DEF ShowSucceeds, Displays
    <2> QED BY <2>1 DEF TypeOK, Unaware
  <1>2. ASSUME NEW m \in Notifs, CloseEnds(m) PROVE id'[n] = id[n]
    BY <1>2 DEF CloseEnds, TypeOK, Unaware
  <1>3. CASE UNCHANGED id
    BY <1>3
  <1>4. ASSUME NEW m \in Notifs, App(m) \/ Handler(m) PROVE id'[n] = id[n]
    BY <1>1, <1>2, <1>3, <1>4
    DEF App, Handler, New, ClearActions, Close, AddAction, Unref, ShowFails,
        ShowLosesReply, Ignore, CloseBegins, TokenArrives, Visit, ActivateBegins,
        ActivateEnds, notification_app_launch_context_new, stateVars, notifyVars
  <1>5. CASE \/ Dispatch \/ EndEmission \/ Daemon \/ UNCHANGED vars
             \/ notification_app_launch_context_finalize
    BY <1>3, <1>5
    DEF Dispatch, EndEmission, Daemon, DaemonCloses, Invoke, Crash, Start,
        notification_app_launch_context_finalize, vars, stateVars, notifyVars
  <1> QED BY <1>4, <1>5 DEF Next, MainLoop

(* While a close waits in the queue, nothing gets ahead of it.             *)
LEMMA CloseMoves ==
    ASSUME TypeOK, HeardInv, [Next]_vars, NEW n \in Notifs,
           Unaware(n), Unaware(n)',
           NEW k \in 1 .. Len(queue), ClosesId(queue[k], id[n])
    PROVE  \/ /\ ~ Dispatch
              /\ k \in 1 .. Len(queue') /\ ClosesId(queue'[k], id'[n])
           \/ /\ Dispatch /\ k = 1
              /\ ClosesId(signal', id'[n]) /\ n \in todo'
           \/ /\ Dispatch /\ k > 1
              /\ k - 1 \in 1 .. Len(queue') /\ ClosesId(queue'[k - 1], id'[n])
  <1>1. id'[n] = id[n]
    BY UnawareKeepsId
  <1>2. CASE ~ Dispatch
    BY <1>1, <1>2, QueueGrows DEF ClosesId
  <1>3. CASE Dispatch /\ k = 1
    BY <1>1, <1>3, DispatchMoves DEF ClosesId, HeardInv, Unaware
  <1>4. CASE Dispatch /\ k # 1
    BY <1>1, <1>4, DispatchMoves DEF ClosesId
  <1> QED BY <1>2, <1>3, <1>4

(* A notification becomes unaware of its close only by a step that sends   *)
(* the close.                                                              *)
LEMMA BecomesUnaware ==
    ASSUME "restart" \notin Environment, TypeOK, OwnerInv, HeardInv,
           [Next]_vars, NEW n \in Notifs, ~ Unaware(n), Unaware(n)'
    PROVE  \E k \in 1 .. Len(queue') : ClosesId(queue'[k], id'[n])
  <1> DEFINE Sent == \E k \in 1 .. Len(queue') : ClosesId(queue'[k], id'[n])
  <1> HIDE DEF Sent
  <1>1. ASSUME ref'[n] \in {"held", "kept"} => ref[n] \in {"held", "kept"},
               id'[n] \in {id[n], 0}, UNCHANGED displayed
        PROVE  Sent
    BY <1>1 DEF Unaware, Live
  <1>2. ASSUME NEW m \in Notifs, New(m) PROVE Sent
    BY <1>1, <1>2 DEF New, TypeOK, HeardInv, Unaware, notifyVars, screenVars
  <1>3. ASSUME NEW m \in Notifs, Displays(m, NotifyId(id[m])),
               id' \in {id, [id EXCEPT ![m] = NotifyId(id[m])]}, UNCHANGED ref
        PROVE  Sent
    <2> DEFINE i == NotifyId(id[m])
    <2>1. i \in {id[m], nextId} /\ i \in Ids
          /\ displayed' = [displayed EXCEPT ![i] = m]
      BY <1>3 DEF NotifyId, Displays
    <2>2. id' \in {id, [id EXCEPT ![m] = i]}
      BY <1>3
    <2> HIDE DEF i
    <2>3. CASE m = n
      <3>1. id'[n] = i => displayed'[id'[n]] = n
        BY <2>1, <2>3 DEF TypeOK
      <3>2. id'[n] \in {id[n], i}
        BY <2>2, <2>3 DEF TypeOK
      <3>3. id'[n] = id[n] /\ id[n] # i
        BY <3>1, <3>2 DEF Unaware
      <3>4. displayed'[id[n]] = displayed[id[n]]
        BY <2>1, <3>3 DEF TypeOK, Unaware, Ids
      <3> QED BY <1>3, <3>3, <3>4 DEF Unaware, Live
    <2>4. CASE m # n
      <3>1. id'[n] = id[n]
        BY <2>2, <2>4 DEF TypeOK
      <3>2. Owned(id[n], n) /\ id[n] # 0
        BY <3>1 DEF OwnerInv, Unaware
      <3>3. i # id[n]
        BY <2>1, <2>4, <3>2 DEF Owned, TypeOK, Ids
      <3>4. displayed'[id[n]] = displayed[id[n]]
        BY <2>1, <3>3 DEF TypeOK
      <3> QED BY <1>3, <3>1, <3>4 DEF Unaware, Live
    <2> QED BY <2>3, <2>4
  <1>4. ASSUME NEW i \in Ids, NEW r, Hides(i, r), UNCHANGED <<id, ref>>
        PROVE  Sent
    <2> DEFINE s == [kind |-> "NotificationClosed", id |-> i,
                     of |-> displayed[i], reason |-> r]
    <2>1. queue' = Append(queue, s) /\ displayed' = [displayed EXCEPT ![i] = None]
      BY <1>4 DEF Hides
    <2>2. ClosesId(s, i)
      BY DEF ClosesId
    <2> HIDE DEF s
    <2>3. Len(queue') \in 1 .. Len(queue') /\ queue'[Len(queue')] = s
      BY <2>1 DEF TypeOK
    <2>4. CASE i = id[n]
      BY <1>4, <2>2, <2>3, <2>4 DEF Sent
    <2>5. CASE i # id[n]
      BY <1>4, <2>1, <2>5 DEF Unaware, Live, TypeOK
    <2> QED BY <2>4, <2>5
  <1>5. ASSUME NEW m \in Notifs, ShowSucceeds(m) \/ ShowLosesReply(m) PROVE Sent
    BY <1>3, <1>5 DEF ShowSucceeds, ShowLosesReply, ShowStarts
  <1>6. ASSUME NEW m \in Notifs, Close(m) PROVE Sent
    <2>1. id[m] \in Ids
      BY <1>6 DEF Close, TypeOK, Ids
    <2> QED BY <1>4, <1>6, <2>1 DEF Close, notifyVars, lifeVars
  <1>7. ASSUME NEW i \in Ids, NEW r \in DaemonReasons, DaemonCloses(i, r)
        PROVE  Sent
    BY <1>4, <1>7 DEF DaemonCloses, notifyVars, lifeVars
  <1>8. ASSUME NEW m \in Notifs, Unref(m) PROVE Sent
    <2>1. ref'[n] \in {"held", "kept"} => ref[n] \in {"held", "kept"}
      BY <1>8 DEF Unref, Finalizes, TypeOK
    <2> QED BY <1>1, <1>8, <2>1 DEF Unref, notifyVars, screenVars
  <1>9. ASSUME NEW m \in Notifs, CloseEnds(m) \/ ActivateEnds(m) PROVE Sent
    <2>1. ref'[n] \in {"held", "kept"} => ref[n] \in {"held", "kept"}
      BY <1>9 DEF CloseEnds, ActivateEnds, HandlerReturns, Finalizes, TypeOK
    <2>2. id'[n] \in {id[n], 0} /\ UNCHANGED displayed
      BY <1>9 DEF CloseEnds, ActivateEnds, HandlerReturns, TypeOK, screenVars
    <2> QED BY <1>1, <2>1, <2>2
  <1>10. ASSUME UNCHANGED <<id, ref, displayed>> PROVE Sent
    BY <1>1, <1>10
  <1>11. ASSUME NEW m \in Notifs,
                \/ ClearActions(m) \/ (\E k \in Keys : AddAction(m, k))
                \/ ShowFails(m) \/ Ignore(m) \/ CloseBegins(m) \/ TokenArrives(m)
                \/ ActivateBegins(m) \/ notification_app_launch_context_new(m)
         PROVE  Sent
    BY <1>10, <1>11
    DEF ClearActions, AddAction, ShowFails, ShowStarts, Ignore, CloseBegins, Visit,
        TokenArrives, ActivateBegins, notification_app_launch_context_new,
        stateVars, notifyVars, lifeVars, screenVars
  <1>12. ASSUME \/ Dispatch \/ EndEmission \/ Start \/ UNCHANGED vars
                \/ notification_app_launch_context_finalize
         PROVE  Sent
    BY <1>10, <1>12
    DEF Dispatch, EndEmission, Start, vars, stateVars, notifyVars, lifeVars,
        screenVars, notification_app_launch_context_finalize
  <1>13. ASSUME NEW i \in Ids, NEW k \in Keys, NEW t \in Tokens \cup {None},
                Invoke(i, k, t)
         PROVE  Sent
    BY <1>10, <1>13 DEF Invoke, notifyVars, lifeVars, screenVars
  <1>14. CASE Crash
    BY <1>14 DEF Crash
  <1> QED BY <1>2, <1>5, <1>6, <1>7, <1>8, <1>9, <1>11, <1>12, <1>13, <1>14
          DEF Sent, Next, MainLoop, Handler, Daemon, App

(* The close that an emission has not brought to n yet: the visit to n     *)
(* tells it, since what has an id and runs no handler was not told before. *)
LEMMA EmissionComes ==
    ASSUME HandlerInv, [Next]_vars, NEW n \in Notifs,
           Unaware(n), Unaware(n)', ClosesId(signal, id[n]), n \in todo
    PROVE  \/ ClosesId(signal', id'[n]) /\ n \in todo'
           \/ frame' = ClosedFrame(n)
  <1> DEFINE Comes == \/ ClosesId(signal', id'[n]) /\ n \in todo'
                      \/ frame' = ClosedFrame(n)
  <1>0. TypeOK /\ signal # NoSignal
    BY DEF HandlerInv, ClosesId, NoSignal
  <1>1. id'[n] = id[n]
    BY <1>0, UnawareKeepsId
  <1> HIDE DEF Comes
  <1>2. ASSUME UNCHANGED signal, n \in todo' PROVE Comes
    BY <1>1, <1>2 DEF Comes
  <1>3. ASSUME NEW m \in Notifs, Handler(m), m # n PROVE Comes
    BY <1>2, <1>3
    DEF Handler, Ignore, CloseBegins, TokenArrives, ActivateBegins, Visit,
        CloseEnds, ActivateEnds, HandlerReturns, Finalizes
  <1>4. CASE CloseBegins(n)
    <2>1. frame = Idle /\ id[n] # 0
      BY <1>4 DEF CloseBegins, Visit, Unaware
    <2>2. closed_reason[n] = UNSET
      BY <2>1 DEF HandlerInv, ClosedHasNoId, Idle, ClosedFrame
    <2> QED BY <1>4, <2>2 DEF CloseBegins, Comes
  <1>5. CASE Ignore(n) \/ TokenArrives(n) \/ ActivateBegins(n)
    BY <1>5 DEF Ignore, TokenArrives, ActivateBegins, Mine, ClosesId
  <1>6. CASE CloseEnds(n)
    BY <1>0, <1>6 DEF CloseEnds, Unaware, TypeOK
  <1>7. ASSUME ref[n] = "kept", Finalizes(n) PROVE FALSE
    BY <1>0, <1>7 DEF Finalizes, Unaware, Live, TypeOK
  <1>8. CASE ActivateEnds(n)
    BY <1>2, <1>7, <1>8 DEF ActivateEnds, HandlerReturns
  <1>9. ASSUME NEW m \in Notifs, Unref(m) PROVE Comes
    <2>1. CASE Finalizes(m)
      <3>1. m # n
        BY <1>0, <2>1 DEF Finalizes, Unaware, Live, TypeOK
      <3> QED BY <1>2, <1>9, <2>1, <3>1 DEF Unref, Finalizes
    <2>2. CASE UNCHANGED todo
      BY <1>2, <1>9, <2>2 DEF Unref
    <2> QED BY <1>9, <2>1, <2>2 DEF Unref
  <1>10. ASSUME UNCHANGED <<signal, todo>> PROVE Comes
    BY <1>2, <1>10
  <1>11. ASSUME NEW m \in Notifs, App(m) PROVE Comes
    BY <1>9, <1>10, <1>11
    DEF App, New, ClearActions, Close, AddAction, ShowSucceeds, ShowFails,
        ShowLosesReply, ShowStarts, notification_app_launch_context_new, stateVars,
        loopVars
  <1>12. ASSUME \/ Daemon \/ UNCHANGED vars
                \/ notification_app_launch_context_finalize
         PROVE  Comes
    BY <1>10, <1>12
    DEF Daemon, DaemonCloses, Invoke, Crash, Start, vars, stateVars, loopVars,
        notification_app_launch_context_finalize
  <1>13. ~ Dispatch /\ ~ EndEmission
    BY <1>0 DEF Dispatch, EndEmission
  <1> QED BY <1>3, <1>4, <1>5, <1>6, <1>8, <1>11, <1>12, <1>13
          DEF Comes, Next, MainLoop, Handler

(* The handler told of the close takes the id when it returns.             *)
LEMMA HandlerTakesId ==
    ASSUME HandlerInv, [Next]_vars, NEW n \in Notifs,
           Unaware(n)', frame = ClosedFrame(n)
    PROVE  frame' = ClosedFrame(n)
  <1>0. TypeOK
    BY DEF HandlerInv
  <1>1. CASE UNCHANGED frame
    BY <1>1
  <1>2. ASSUME NEW m \in Notifs, Handler(m) PROVE m = n /\ CloseEnds(n)
    BY <1>2 DEF Handler, Ignore, CloseBegins, TokenArrives, ActivateBegins, Visit,
                CloseEnds, ActivateEnds, Idle, ClosedFrame, ActionFrame
  <1>3. ~ CloseEnds(n)
    BY <1>0 DEF CloseEnds, Unaware, TypeOK
  <1>4. ASSUME NEW m \in Notifs, App(m) PROVE UNCHANGED frame
    BY <1>4
    DEF App, New, ClearActions, Close, AddAction, Unref, ShowSucceeds, ShowFails,
        ShowLosesReply, ShowStarts, notification_app_launch_context_new, stateVars,
        loopVars
  <1>5. CASE \/ Dispatch \/ EndEmission \/ Daemon \/ UNCHANGED vars
             \/ notification_app_launch_context_finalize
    BY <1>5
    DEF Dispatch, EndEmission, Daemon, DaemonCloses, Invoke, Crash, Start, vars,
        stateVars, loopVars, notification_app_launch_context_finalize
  <1> QED BY <1>1, <1>2, <1>3, <1>4, <1>5 DEF Next, MainLoop

LEMMA CloseNext ==
    "restart" \notin Environment /\ HandlerInv /\ OwnerInv /\ HeardInv
    /\ CloseIsOnItsWay /\ [Next]_vars => CloseIsOnItsWay'
  <1> SUFFICES ASSUME "restart" \notin Environment, HandlerInv, OwnerInv,
                      HeardInv, CloseIsOnItsWay, [Next]_vars,
                      NEW n \in Notifs, Unaware(n)'
               PROVE  OnItsWay(n)'
    BY DEF CloseIsOnItsWay
  <1>0. TypeOK
    BY DEF HandlerInv
  <1>1. CASE ~ Unaware(n)
    BY <1>0, <1>1, BecomesUnaware DEF OnItsWay
  <1>2. CASE Unaware(n)
    <2>1. ASSUME NEW k \in 1 .. Len(queue), ClosesId(queue[k], id[n])
          PROVE  OnItsWay(n)'
      BY <1>0, <1>2, <2>1, CloseMoves DEF OnItsWay
    <2>2. CASE ClosesId(signal, id[n]) /\ n \in todo
      BY <1>2, <2>2, EmissionComes DEF OnItsWay
    <2>3. CASE frame = ClosedFrame(n)
      BY <2>3, HandlerTakesId DEF OnItsWay
    <2>4. OnItsWay(n)
      BY <1>2 DEF CloseIsOnItsWay
    <2> QED BY <2>1, <2>2, <2>3, <2>4 DEF OnItsWay
  <1> QED BY <1>1, <1>2

LEMMA HeardInvariant == Spec => []HeardInv
  BY HeardInit, HeardNext, HandlerInvariant, PTL DEF Spec

(* Between the daemon's close of a notification and the moment its object  *)
(* knows, the close is always still to come: it is not lost behind other   *)
(* signals, in other notifications' handlers or in shows.                  *)
THEOREM ClosesAreNotLost == Spec => []CloseIsOnItsWay
  <1>1. Init => CloseIsOnItsWay
    BY DEF Init, CloseIsOnItsWay, Unaware
  <1>2. HandlerInv /\ OneDaemonInv /\ HeardInv /\ CloseIsOnItsWay /\ [Next]_vars
            => CloseIsOnItsWay'
    <2> SUFFICES ASSUME HandlerInv, OneDaemonInv, HeardInv, CloseIsOnItsWay,
                        [Next]_vars
                 PROVE  CloseIsOnItsWay'
      OBVIOUS
    <2>1. CASE "restart" \in Environment
      BY <2>1, EnvironmentStays DEF CloseIsOnItsWay
    <2>2. CASE "restart" \notin Environment
      BY <2>2, CloseNext DEF OneDaemonInv
    <2> QED BY <2>1, <2>2
  <1> QED BY <1>1, <1>2, HandlerInvariant, OneDaemonInvariant, HeardInvariant, PTL
          DEF Spec

(* It comes nearer: signals are handled in the order in which they were    *)
(* sent, and each turn of the main loop takes one.                         *)
THEOREM ClosesAreNotOvertaken == Spec => CloseComesNearer
  <1> DEFINE Nearer ==
        \A n \in Notifs, k \in 1 .. Len(queue) :
          "restart" \notin Environment /\ Unaware(n) /\ Unaware(n)'
            /\ ClosesId(queue[k], id[n]) =>
              \/ ~ Dispatch /\ ClosesId(queue'[k], id'[n])
              \/ Dispatch /\ k = 1 /\ ClosesId(signal', id'[n]) /\ n \in todo'
              \/ Dispatch /\ k > 1 /\ ClosesId(queue'[k - 1], id'[n])
  <1>1. TypeOK /\ HeardInv /\ [Next]_vars => Nearer
    BY CloseMoves
  <1>2. CloseComesNearer <=> [][Nearer]_vars
    BY PTL DEF CloseComesNearer
  <1> HIDE DEF Nearer
  <1> QED BY <1>1, <1>2, TypeCorrect, HeardInvariant, PTL DEF Spec

(* A main loop that has nothing to do has left no notification unaware.    *)
NothingToDo == queue = << >> /\ signal = NoSignal
QuietLoopKnows ==
    "restart" \notin Environment /\ NothingToDo =>
        \A n \in Notifs : ~ Unaware(n)

THEOREM AllIsKnownAtRest == Spec => []QuietLoopKnows
  <1>1. HandlerInv /\ CloseIsOnItsWay => QuietLoopKnows
    <2> SUFFICES ASSUME HandlerInv, CloseIsOnItsWay,
                        "restart" \notin Environment, NothingToDo,
                        NEW n \in Notifs, Unaware(n)
                 PROVE  FALSE
      BY DEF QuietLoopKnows
    <2>1. OnItsWay(n)
      BY DEF CloseIsOnItsWay
    <2>2. frame = Idle
      BY DEF HandlerInv, CallbacksOnLiveObjects, NothingToDo
    <2> QED BY <2>1, <2>2
            DEF OnItsWay, ClosesId, NothingToDo, NoSignal, ClosedFrame, Idle
  <1> QED BY <1>1, HandlerInvariant, ClosesAreNotLost, PTL

(* In every environment a close that reaches its notification is told,     *)
(* also the second and the third.                                          *)
THEOREM EachCloseIsTold == Spec => ClosesAreTold
  <1>1. HandlerInv /\ [Next]_vars =>
            [\A n \in Notifs : CloseBegins(n) => frame' = ClosedFrame(n)]_vars
    <2> SUFFICES ASSUME HandlerInv, NEW n \in Notifs, CloseBegins(n)
                 PROVE  frame' = ClosedFrame(n)
      OBVIOUS
    <2>1. signal.id \in Ids /\ signal.id = id[n] /\ frame = Idle
      BY SignalKinds DEF CloseBegins, Visit, Mine, HandlerInv, TypeOK, ClosedSignal
    <2>2. id[n] # 0
      BY <2>1, ConstantsAssumption DEF Ids
    <2>3. closed_reason[n] = UNSET
      BY <2>1, <2>2 DEF HandlerInv, ClosedHasNoId, Idle, ClosedFrame
    <2> QED BY <2>3 DEF CloseBegins
  <1> QED BY <1>1, HandlerInvariant, PTL DEF Spec, ClosesAreTold
=============================================================================

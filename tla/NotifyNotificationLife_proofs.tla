------------------- MODULE NotifyNotificationLife_proofs -------------------
(* NotifyNotification implements NotificationLife: every step of the       *)
(* library, the main loop and the daemon is one of the steps the           *)
(* application is promised, or is not seen by it.                          *)
EXTENDS NotifyNotification_proofs

numbers == [n \in Notifs |-> id[n] # 0]
tellings == [n \in Notifs |-> closed_reason[n] # UNSET]
running == IF frame = Idle THEN << >> ELSE <<frame>>

LEMMA FramesAreNotIdle ==
    \A n \in Notifs : ClosedFrame(n) # Idle /\ ActionFrame(n) # Idle
                      /\ ClosedFrame(n) # ActionFrame(n)
  BY DEF ClosedFrame, ActionFrame, Idle

LEMMA LifeInit == Init => Life!Init
  BY DEF Init, Life!Init, UNSET

(* What the application sees is unchanged when ids, reasons, references    *)
(* and the callback are.                                                   *)
LEMMA LifeQuiet ==
    ASSUME UNCHANGED <<id, closed_reason, ref, frame>>
    PROVE  UNCHANGED Life!lifeVars
  BY DEF Life!lifeVars

LEMMA LifeShow ==
    ASSUME HandlerInv, NEW n \in Notifs, ShowStarts(n),
           id' = id \/ (\E i \in Ids : id' = [id EXCEPT ![n] = i])
    PROVE  Life!Show(n)
  <1>1. Life!Live(n)
    BY DEF ShowStarts, Callable, Live, Life!Live
  <1>2. tellings' = [tellings EXCEPT ![n] = FALSE]
    BY DEF HandlerInv, TypeOK, ShowStarts, tellings, UNSET
  <1>3. numbers' = numbers \/ numbers' = [numbers EXCEPT ![n] = TRUE]
    <2>1. CASE id' = id
      BY <2>1 DEF numbers
    <2>2. ASSUME NEW i \in Ids, id' = [id EXCEPT ![n] = i]
          PROVE  numbers' = [numbers EXCEPT ![n] = TRUE]
      <3>1. i # 0
        BY DEF Ids
      <3> QED BY <2>2, <3>1 DEF HandlerInv, TypeOK, numbers
    <2> QED BY <2>1, <2>2
  <1>4. UNCHANGED <<ref, running>>
    BY DEF ShowStarts, loopVars, running
  <1> QED BY <1>1, <1>2, <1>3, <1>4
          DEF Life!Show, numbers, tellings, running

(* The return of the handler of n: what becomes of the object.             *)
LEMMA LifeReturn ==
    ASSUME HandlerInv, NEW n \in Notifs, HandlerReturns(n),
           frame = ClosedFrame(n) \/ frame = ActionFrame(n)
    PROVE  /\ running = <<frame>> /\ running' = << >>
           /\ frame.n = n
           /\ ref' = IF ref[n] = "kept" THEN [ref EXCEPT ![n] = "gone"]
                                        ELSE ref
           /\ tellings' = tellings
  <1>1. frame # Idle /\ frame.n = n
    <2>1. frame # Idle
      BY FramesAreNotIdle
    <2>2. ClosedFrame(n).n = n /\ ActionFrame(n).n = n
      BY DEF ClosedFrame, ActionFrame
    <2> QED BY <2>1, <2>2
  <1>2. running = <<frame>> /\ running' = << >>
    BY <1>1 DEF running, HandlerReturns
  <1>3. tellings' = tellings
    BY DEF HandlerReturns, tellings
  <1> QED BY <1>1, <1>2, <1>3 DEF HandlerReturns, Finalizes

LEMMA LifeNext ==
    HandlerInv /\ [Next]_vars => [Life!Next]_Life!lifeVars
  <1> SUFFICES ASSUME HandlerInv, [Next]_vars
               PROVE  [Life!Next]_Life!lifeVars
    OBVIOUS
  <1>0. TypeOK /\ CallbacksOnLiveObjects
    BY DEF HandlerInv
  <1>1. ASSUME NEW n \in Notifs, New(n) PROVE Life!Create(n)
    BY <1>1 DEF New, Life!Create, notifyVars, loopVars
  <1>2. ASSUME NEW n \in Notifs, NEW k \in Keys, AddAction(n, k)
        PROVE  UNCHANGED Life!lifeVars
    BY <1>2, LifeQuiet DEF AddAction, lifeVars, loopVars
  <1>3. ASSUME NEW n \in Notifs, ClearActions(n)
        PROVE  UNCHANGED Life!lifeVars
    BY <1>3, LifeQuiet DEF ClearActions, lifeVars, loopVars
  <1>4. ASSUME NEW n \in Notifs, ShowSucceeds(n) PROVE Life!Show(n)
    BY <1>4, LifeShow DEF ShowSucceeds, Displays
  <1>5. ASSUME NEW n \in Notifs, ShowFails(n) PROVE Life!Show(n)
    BY <1>5, LifeShow DEF ShowFails
  <1>6. ASSUME NEW n \in Notifs, ShowLosesReply(n) PROVE Life!Show(n)
    BY <1>6, LifeShow DEF ShowLosesReply
  <1>7. ASSUME NEW n \in Notifs, Close(n) PROVE UNCHANGED Life!lifeVars
    BY <1>7, LifeQuiet DEF Close, notifyVars, lifeVars, loopVars
  <1>8. ASSUME NEW n \in Notifs, Unref(n) PROVE Life!Release(n)
    <2>1. UNCHANGED <<id, closed_reason, frame>> /\ ref[n] = "held"
      BY <1>8 DEF Unref, notifyVars
    <2>2. Life!Among(n, running) <=> frame.n = n
      BY ConstantsAssumption DEF Life!Among, running, Idle
    <2>3. ref' = [ref EXCEPT ![n] = IF frame.n = n THEN "kept" ELSE "gone"]
      BY <1>8 DEF Unref, Finalizes
    <2> QED BY <2>1, <2>2, <2>3 DEF Life!Release, running
  <1>9. CASE Dispatch
    BY <1>9, LifeQuiet DEF Dispatch, notifyVars, lifeVars
  <1>10. ASSUME NEW n \in Notifs, Ignore(n) PROVE UNCHANGED Life!lifeVars
    BY <1>10, LifeQuiet DEF Ignore, Visit, lifeVars
  <1>11. ASSUME NEW n \in Notifs, CloseBegins(n)
         PROVE  [Life!Closes(n)]_Life!lifeVars
    <2>1. UNCHANGED <<id, ref>> /\ frame = Idle /\ n \in todo
      BY <1>11 DEF CloseBegins, Visit, lifeVars
    <2>2. CASE closed_reason[n] # UNSET
      BY <1>11, <2>1, <2>2, LifeQuiet DEF CloseBegins
    <2>3. CASE closed_reason[n] = UNSET
      <3>1. running = << >> /\ running' = <<ClosedFrame(n)>>
        BY <1>11, <2>1, <2>3, FramesAreNotIdle DEF CloseBegins, running
      <3>2. signal.reason # UNSET
        <4>1. signal \in ClosedSignal
          BY <1>11, <1>0, SignalKinds DEF CloseBegins, TypeOK
        <4>2. signal.reason \in Reasons
          BY <4>1 DEF ClosedSignal
        <4> QED BY <4>2 DEF Reasons, UNSET, EXPIRED, DISMISSED, API_REQUEST,
                            UNDEFINED
      <3>3. tellings' = [tellings EXCEPT ![n] = TRUE] /\ ~ tellings[n]
        <4>1. closed_reason' = [closed_reason EXCEPT ![n] = signal.reason]
          BY <1>11, <2>3 DEF CloseBegins
        <4>2. closed_reason \in [Notifs -> Reasons \cup {UNSET}]
          BY <1>0 DEF TypeOK
        <4> QED BY <2>3, <3>2, <4>1, <4>2 DEF tellings
      <3>4. Life!Live(n)
        BY <1>0, <2>1 DEF CallbacksOnLiveObjects, Live, Life!Live
      <3>5. Life!Closes(n)
        BY <2>1, <3>1, <3>3, <3>4
        DEF Life!Closes, Life!TellsClosed, Life!ClosedFrame, ClosedFrame,
            running, tellings
      <3> QED BY <3>5
    <2> QED BY <2>2, <2>3
  <1>12. ASSUME NEW n \in Notifs, TokenArrives(n)
         PROVE  UNCHANGED Life!lifeVars
    BY <1>12, LifeQuiet DEF TokenArrives, Visit, lifeVars
  <1>13. ASSUME NEW n \in Notifs, ActivateBegins(n)
         PROVE  [Life!Activates(n)]_Life!lifeVars
    <2>1. UNCHANGED <<id, closed_reason, ref>> /\ frame = Idle /\ n \in todo
      BY <1>13 DEF ActivateBegins, Visit, lifeVars
    <2>2. CASE signal.key \notin actions[n]
      BY <1>13, <2>1, <2>2, LifeQuiet DEF ActivateBegins
    <2>3. CASE signal.key \in actions[n]
      <3>1. running = << >> /\ running' = <<ActionFrame(n)>>
        BY <1>13, <2>1, <2>3, FramesAreNotIdle DEF ActivateBegins, running
      <3>2. id[n] # 0
        BY <1>13, <1>0, SignalKinds
        DEF ActivateBegins, Mine, TypeOK, ActionSignal, Ids
      <3>3. Life!Live(n)
        BY <1>0, <2>1 DEF CallbacksOnLiveObjects, Live, Life!Live
      <3>4. Life!Activates(n)
        BY <2>1, <3>1, <3>2, <3>3
        DEF Life!Activates, Life!ActionFrame, ActionFrame, running
      <3> QED BY <3>4
    <2> QED BY <2>2, <2>3
  <1>14. ASSUME NEW n \in Notifs, CloseEnds(n) PROVE Life!Returns(n)
    <2>1. HandlerReturns(n) /\ frame = ClosedFrame(n)
      BY <1>14 DEF CloseEnds
    <2>2. frame.kind = "closed"
      BY <2>1 DEF ClosedFrame
    <2>3. numbers' = [numbers EXCEPT ![n] = FALSE]
      BY <1>14, <1>0 DEF CloseEnds, TypeOK, numbers
    <2> QED BY <2>1, <2>2, <2>3, LifeReturn
            DEF Life!Returns, Life!Among, running, numbers, tellings
  <1>15. ASSUME NEW n \in Notifs, ActivateEnds(n) PROVE Life!Returns(n)
    <2>1. HandlerReturns(n) /\ frame = ActionFrame(n) /\ id' = id
      BY <1>15 DEF ActivateEnds
    <2>2. frame.kind # "closed"
      BY <2>1 DEF ActionFrame
    <2> QED BY <2>1, <2>2, LifeReturn
            DEF Life!Returns, Life!Among, running, tellings
  <1>16. CASE EndEmission
    BY <1>16, LifeQuiet DEF EndEmission, notifyVars, lifeVars
  <1>17. ASSUME NEW i \in Ids, NEW r \in DaemonReasons, DaemonCloses(i, r)
         PROVE  UNCHANGED Life!lifeVars
    BY <1>17, LifeQuiet DEF DaemonCloses, notifyVars, lifeVars, loopVars
  <1>18. ASSUME NEW i \in Ids, NEW k \in Keys, NEW t \in Tokens \cup {None},
                Invoke(i, k, t)
         PROVE  UNCHANGED Life!lifeVars
    BY <1>18, LifeQuiet DEF Invoke, notifyVars, lifeVars, loopVars
  <1>19. CASE Crash
    BY <1>19, LifeQuiet DEF Crash, notifyVars, lifeVars, loopVars
  <1>20. CASE Start
    BY <1>20, LifeQuiet DEF Start, notifyVars, lifeVars, loopVars
  <1>21. CASE UNCHANGED stateVars
    BY <1>21, LifeQuiet DEF stateVars, notifyVars, lifeVars, loopVars
  <1> QED
    BY <1>1, <1>2, <1>3, <1>4, <1>5, <1>6, <1>7, <1>8, <1>9, <1>10, <1>11,
       <1>12, <1>13, <1>14, <1>15, <1>16, <1>17, <1>18, <1>19, <1>20, <1>21
    DEF Next, MainLoop, Handler, Daemon, App, Life!Next, vars,
        notification_app_launch_context_new,
        notification_app_launch_context_finalize

(* Whatever the daemon and the callbacks do, the application sees a        *)
(* behaviour of NotificationLife: "closed" once for each show, actions     *)
(* only of notifications with an id and never in a callback, and no object *)
(* gone while a callback of it runs.                                       *)
THEOREM ThePromiseIsKept == Spec => KeepsItsPromise
  <1>1. Init => Life!Init
    BY LifeInit
  <1>2. HandlerInv /\ [Next]_vars => [Life!Next]_Life!lifeVars
    BY LifeNext
  <1>3. Spec => []HandlerInv
    BY HandlerInvariant
  <1> QED BY <1>1, <1>2, <1>3, PTL DEF Spec, Life!Spec, KeepsItsPromise
=============================================================================

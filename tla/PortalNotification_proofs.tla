--------------------- MODULE PortalNotification_proofs ---------------------
(* Theorems about PortalNotification, for any number of notifications,     *)
(* actions, ids and queued signals, and callbacks nested to any depth.     *)
EXTENDS PortalNotification, TLAPS

-----------------------------------------------------------------------------
(* The stack of callbacks grows and shrinks at its head.                   *)
LEMMA Push ==
    ASSUME NEW f \in Frame, NEW s \in Seq(Frame)
    PROVE  /\ <<f>> \o s \in Seq(Frame) /\ Len(<<f>> \o s) = Len(s) + 1
           /\ (<<f>> \o s)[1] = f
           /\ \A k \in 1 .. Len(s) : (<<f>> \o s)[k + 1] = s[k]
           /\ <<f>> \o s # << >> /\ Head(<<f>> \o s) = f
           /\ Len(s) \in Nat
  OBVIOUS

LEMMA Pop ==
    ASSUME NEW s \in Seq(Frame), s # << >>
    PROVE  /\ Tail(s) \in Seq(Frame) /\ Len(Tail(s)) = Len(s) - 1
           /\ Head(s) = s[1] /\ Len(s) \in Nat \ {0}
           /\ \A k \in 1 .. Len(Tail(s)) : Tail(s)[k] = s[k + 1]
  OBVIOUS

LEMMA FrameKinds ==
    /\ \A n \in Notifs : /\ ClosedFrame(n) \in Frame /\ ActionFrame(n) \in Frame
                         /\ ClosedFrame(n).n = n /\ ActionFrame(n).n = n
                         /\ ClosedFrame(n).kind = "closed"
                         /\ ActionFrame(n).kind = "action"
                         /\ ClosedFrame(n) # NoFrame /\ ActionFrame(n) # NoFrame
    /\ \A f \in Frame : /\ f.n \in Notifs
                        /\ f.kind = "closed" => f = ClosedFrame(f.n)
                        /\ f.kind = "action" => f = ActionFrame(f.n)
  BY DEF ClosedFrame, ActionFrame, NoFrame, Frame

(* The innermost callback is the stack's head. *)
LEMMA TopIsHead ==
    ASSUME TypeOK, NEW f \in Frame, Top = f, f # NoFrame
    PROVE  stack # << >> /\ stack[1] = f /\ Head(stack) = f
  BY DEF Top, TypeOK

LEMMA BeginsTypes ==
    ASSUME TypeOK, NEW n \in Notifs, NEW r \in Reasons, NEW s \in Seq(Frame),
           Begins(n, r, s)
    PROVE  /\ closed_reason' \in [Notifs -> Reasons \cup {UNSET}]
           /\ stack' \in Seq(Frame)
  <1>1. closed_reason' \in [Notifs -> Reasons \cup {UNSET}]
    <2>1. closed_reason \in [Notifs -> Reasons \cup {UNSET}]
      BY DEF TypeOK
    <2>2. closed_reason' = [closed_reason EXCEPT ![n] = r]
      BY DEF Begins
    <2> QED BY <2>1, <2>2
  <1>2. stack' \in Seq(Frame)
    BY Push, FrameKinds DEF Begins
  <1> QED BY <1>1, <1>2

LEMMA RemovesTypes ==
    ASSUME TypeOK, NEW n \in Notifs, NEW r \in Reasons,
           Removes(n, r) \/ RemoveFails(n)
    PROVE  /\ portal_timeout_id' \in [Notifs -> BOOLEAN]
           /\ displayed' \in [Ids -> Notifs \cup {None}]
           /\ offered' \in [Ids -> SUBSET Keys]
           /\ closed_reason' \in [Notifs -> Reasons \cup {UNSET}]
           /\ stack' \in Seq(Frame)
  <1>1. portal_timeout_id' \in [Notifs -> BOOLEAN]
    BY DEF TypeOK, Removes, RemoveFails
  <1>2. displayed' \in [Ids -> Notifs \cup {None}]
    BY DEF TypeOK, Removes, RemoveFails, portalVars
  <1>3. offered' \in [Ids -> SUBSET Keys]
    BY DEF TypeOK, Removes, RemoveFails, portalVars
  <1>4. stack \in Seq(Frame)
    BY DEF TypeOK
  <1>5. /\ closed_reason' \in [Notifs -> Reasons \cup {UNSET}]
        /\ stack' \in Seq(Frame)
    <2>1. CASE Begins(n, r, stack)
      BY <1>4, <2>1, BeginsTypes
    <2>2. CASE UNCHANGED <<closed_reason, stack>>
      BY <2>2 DEF TypeOK
    <2> QED BY <2>1, <2>2 DEF Removes, RemoveFails
  <1> QED BY <1>1, <1>2, <1>3, <1>5

LEMMA NumberedTypes ==
    ASSUME TypeOK, NEW n \in Notifs, Numbered(n)
    PROVE  /\ id' \in [Notifs -> 0 .. MaxId] /\ id'[n] \in Ids
           /\ portal_notification_count' \in 0 .. MaxId
           /\ Environment' = Environment
           /\ \A m \in Notifs : m # n => id'[m] = id[m]
           /\ id[n] # 0 => id'[n] = id[n]
           /\ id[n] = 0 => /\ id'[n] = portal_notification_count'
                           /\ id'[n] = portal_notification_count + 1
           /\ portal_notification_count' >= portal_notification_count
  <1> USE ConstantsAssumption DEF Ids
  <1>1. /\ id \in [Notifs -> 0 .. MaxId]
        /\ portal_notification_count \in 0 .. MaxId
    BY DEF TypeOK
  <1>2. CASE id[n] = 0
    <2>1. /\ portal_notification_count < MaxId
          /\ portal_notification_count' = portal_notification_count + 1
          /\ Environment' = Environment
          /\ id' = [id EXCEPT ![n] = portal_notification_count + 1]
      BY <1>2 DEF Numbered
    <2>2. portal_notification_count + 1 \in Ids
      BY <1>1, <2>1
    <2> QED BY <1>1, <1>2, <2>1, <2>2
  <1>3. CASE id[n] # 0
    <2>1. UNCHANGED <<id, portal_notification_count, Environment>>
      BY <1>3 DEF Numbered, countVars
    <2>2. id[n] \in Ids
      BY <1>1, <1>3
    <2> QED BY <1>1, <1>3, <2>1, <2>2
  <1> QED BY <1>2, <1>3

LEMMA FinalizesTypes ==
    ASSUME TypeOK, NEW n \in Notifs,
           Finalizes(n) \/ UNCHANGED <<ref, handlers, todo, portal_timeout_id>>
    PROVE  /\ ref' \in [Notifs -> {"none", "held", "kept", "gone"}]
           /\ handlers' \subseteq Notifs /\ todo' \subseteq Notifs
           /\ portal_timeout_id' \in [Notifs -> BOOLEAN]
  <1>1. ref' \in [Notifs -> {"none", "held", "kept", "gone"}]
    BY DEF TypeOK, Finalizes
  <1>2. handlers' \subseteq Notifs /\ todo' \subseteq Notifs
    BY DEF TypeOK, Finalizes
  <1>3. portal_timeout_id' \in [Notifs -> BOOLEAN]
    BY DEF TypeOK, Finalizes
  <1> QED BY <1>1, <1>2, <1>3

-----------------------------------------------------------------------------
LEMMA TypeInit == Init => TypeOK
  BY ConstantsAssumption DEF Init, TypeOK, Ids, UNSET

LEMMA TypeNext == TypeOK /\ [Next]_vars => TypeOK'
  <1> SUFFICES ASSUME TypeOK, [Next]_vars PROVE TypeOK'
    OBVIOUS
  <1> USE ConstantsAssumption
  <1>0. API_REQUEST \in Reasons /\ EXPIRED \in Reasons /\ DISMISSED \in Reasons
    BY DEF Reasons
  <1>1. ASSUME NEW n \in Notifs, New(n) PROVE TypeOK'
    BY <1>1 DEF New, TypeOK, notifyVars, countVars, portalVars
  <1>2. ASSUME NEW n \in Notifs, NEW k \in Keys, AddAction(n, k) PROVE TypeOK'
    BY <1>2 DEF AddAction, SetActions, TypeOK, lifeVars, countVars, portalVars
  <1>3. ASSUME NEW n \in Notifs, ClearActions(n) PROVE TypeOK'
    BY <1>3 DEF ClearActions, SetActions, TypeOK, lifeVars, countVars,
                portalVars
  <1>4. ASSUME NEW n \in Notifs, ShowSucceeds(n) PROVE TypeOK'
    <2>1. /\ displayed' = [displayed EXCEPT ![id'[n]] = n]
          /\ offered' = [offered EXCEPT ![id'[n]] = actions[n]]
          /\ portal_timeout_id' = [portal_timeout_id EXCEPT ![n] = n \in Timed]
          /\ ShowStarts(n) /\ Numbered(n)
      BY <1>4 DEF ShowSucceeds
    <2>2. /\ displayed' \in [Ids -> Notifs \cup {None}]
          /\ offered' \in [Ids -> SUBSET Keys]
      BY <2>1, NumberedTypes DEF TypeOK
    <2>3. portal_timeout_id' \in [Notifs -> BOOLEAN]
      BY <2>1 DEF TypeOK
    <2> QED BY <2>1, <2>2, <2>3, NumberedTypes DEF ShowStarts, TypeOK
  <1>5. ASSUME NEW n \in Notifs, ShowRefused(n) PROVE TypeOK'
    BY <1>5 DEF ShowRefused, ShowStarts, TypeOK, countVars, portalVars
  <1>6. ASSUME NEW n \in Notifs, ShowFails(n) PROVE TypeOK'
    <2>1. /\ ShowStarts(n) /\ Numbered(n)
          /\ portal_timeout_id' = [portal_timeout_id EXCEPT ![n] = FALSE]
      BY <1>6 DEF ShowFails
    <2>2. /\ displayed' \in [Ids -> Notifs \cup {None}]
          /\ offered' \in [Ids -> SUBSET Keys]
      BY <1>6 DEF ShowFails, TypeOK, portalVars
    <2>3. portal_timeout_id' \in [Notifs -> BOOLEAN]
      BY <2>1 DEF TypeOK
    <2> QED BY <2>1, <2>2, <2>3, NumberedTypes DEF ShowStarts, TypeOK
  <1>7. ASSUME NEW n \in Notifs, Close(n) PROVE TypeOK'
    <2>1. Removes(n, API_REQUEST) \/ RemoveFails(n)
      BY <1>7 DEF Close
    <2> QED BY <1>0, <1>7, <2>1, RemovesTypes
            DEF Close, TypeOK, lifeVars, countVars
  <1>8. ASSUME NEW n \in Notifs, Unref(n) PROVE TypeOK'
    <2>1. /\ ref' \in [Notifs -> {"none", "held", "kept", "gone"}]
          /\ handlers' \subseteq Notifs /\ todo' \subseteq Notifs
          /\ portal_timeout_id' \in [Notifs -> BOOLEAN]
      <3>1. CASE InCallback(n)
        BY <1>8, <3>1 DEF Unref, TypeOK
      <3>2. CASE ~ InCallback(n)
        BY <1>8, <3>2, FinalizesTypes DEF Unref
      <3> QED BY <3>1, <3>2
    <2> QED BY <1>8, <2>1 DEF Unref, TypeOK, countVars, portalVars
  <1>9. CASE Dispatch
    <2>1. /\ Head(queue) \in Signal /\ Tail(queue) \in Seq(Signal)
          /\ Len(Tail(queue)) <= MaxQueue
      BY <1>9 DEF Dispatch, TypeOK
    <2> QED BY <1>9, <2>1 DEF Dispatch, TypeOK, notifyVars, lifeVars,
                              countVars, portalVars
  <1>10. ASSUME NEW n \in Notifs, Ignore(n) PROVE TypeOK'
    BY <1>10 DEF Ignore, Visit, TypeOK, lifeVars, countVars, portalVars
  <1>11. ASSUME NEW n \in Notifs, ActivateBegins(n) PROVE TypeOK'
    <2>1. stack' \in Seq(Frame) /\ activating' \in [Notifs -> BOOLEAN]
      BY <1>11, FrameKinds DEF ActivateBegins, TypeOK
    <2> QED BY <1>11, <2>1
            DEF ActivateBegins, Visit, TypeOK, lifeVars, countVars, portalVars
  <1>12. ASSUME NEW n \in Notifs, UnknownAction(n) PROVE TypeOK'
    <2>1. stack \in Seq(Frame)
      BY DEF TypeOK
    <2>2. /\ closed_reason' \in [Notifs -> Reasons \cup {UNSET}]
          /\ stack' \in Seq(Frame)
      <3>1. CASE Begins(n, DISMISSED, stack)
        BY <1>0, <2>1, <3>1, BeginsTypes
      <3>2. CASE UNCHANGED <<closed_reason, stack>>
        BY <3>2 DEF TypeOK
      <3> QED BY <1>12, <3>1, <3>2 DEF UnknownAction
    <2> QED BY <1>12, <2>2
            DEF UnknownAction, Visit, TypeOK, lifeVars, countVars, portalVars
  <1>13. ASSUME NEW n \in Notifs, ActivateEnds(n) PROVE TypeOK'
    <2>1. stack \in Seq(Frame) /\ Tail(stack) \in Seq(Frame)
      BY <1>13, TopIsHead, FrameKinds, Pop DEF ActivateEnds, TypeOK
    <2>2. activating' \in [Notifs -> BOOLEAN]
      BY <1>13 DEF ActivateEnds, TypeOK
    <2>3. /\ closed_reason' \in [Notifs -> Reasons \cup {UNSET}]
          /\ stack' \in Seq(Frame)
          /\ Finalizes(n)
             \/ UNCHANGED <<ref, handlers, todo, portal_timeout_id>>
      <3>1. CASE /\ Begins(n, DISMISSED, Tail(stack))
                 /\ UNCHANGED <<lifeVars, todo, portal_timeout_id>>
        BY <1>0, <2>1, <3>1, BeginsTypes DEF lifeVars
      <3>2. CASE Pops(n) /\ UNCHANGED closed_reason
        BY <2>1, <3>2 DEF Pops, TypeOK
      <3> QED BY <1>13, <3>1, <3>2 DEF ActivateEnds
    <2> QED BY <1>13, <2>2, <2>3, FinalizesTypes
            DEF ActivateEnds, TypeOK, countVars, portalVars
  <1>14. ASSUME NEW n \in Notifs, CloseEnds(n) PROVE TypeOK'
    <2>1. Tail(stack) \in Seq(Frame)
      BY <1>14, TopIsHead, FrameKinds, Pop DEF CloseEnds, TypeOK
    <2>2. id' \in [Notifs -> 0 .. MaxId] /\ stack' \in Seq(Frame)
      BY <1>14, <2>1 DEF CloseEnds, Pops, TypeOK
    <2>3. Finalizes(n) \/ UNCHANGED <<ref, handlers, todo, portal_timeout_id>>
      BY <1>14 DEF CloseEnds, Pops
    <2> QED BY <1>14, <2>2, <2>3, FinalizesTypes
            DEF CloseEnds, TypeOK, countVars, portalVars
  <1>15. CASE EndEmission
    BY <1>15 DEF EndEmission, TypeOK, notifyVars, lifeVars, countVars,
                 portalVars
  <1>16. ASSUME NEW n \in Notifs, TimeoutFires(n) PROVE TypeOK'
    <2>1. Removes(n, EXPIRED) \/ RemoveFails(n)
      BY <1>16 DEF TimeoutFires
    <2> QED BY <1>0, <1>16, <2>1, RemovesTypes
            DEF TimeoutFires, TypeOK, lifeVars, countVars
  <1>17. ASSUME NEW i \in Ids, NEW k \in Keys, UserActivates(i, k)
         PROVE  TypeOK'
    <2>1. displayed[i] \in Notifs
      BY <1>17 DEF UserActivates, Vanishes, TypeOK
    <2>2. [id |-> i, key |-> k, of |-> displayed[i]] \in Signal
      BY <2>1 DEF Signal
    <2>3. queue' \in Seq(Signal) /\ Len(queue') <= MaxQueue
      BY <1>17, <2>2 DEF UserActivates, TypeOK
    <2> QED BY <1>17, <2>3 DEF UserActivates, Vanishes, TypeOK, notifyVars,
                               lifeVars, countVars
  <1>18. ASSUME NEW i \in Ids, UserDismisses(i) PROVE TypeOK'
    BY <1>18 DEF UserDismisses, Vanishes, TypeOK, notifyVars, lifeVars,
                 countVars
  <1>19. CASE UNCHANGED vars
    BY <1>19 DEF vars, notifyVars, lifeVars, countVars, portalVars, TypeOK
  <1> QED
    BY <1>1, <1>2, <1>3, <1>4, <1>5, <1>6, <1>7, <1>8, <1>9, <1>10, <1>11,
       <1>12, <1>13, <1>14, <1>15, <1>16, <1>17, <1>18, <1>19
    DEF Next, MainLoop, Handler, User, App

(* Every variable keeps its type, whatever fails and however callbacks     *)
(* nest.                                                                   *)
THEOREM TypeCorrect == Spec => []TypeOK
  BY TypeInit, TypeNext, PTL DEF Spec

-----------------------------------------------------------------------------
(* The running callbacks, innermost first: an action's is the outermost,   *)
(* and each notification is told closed at most once among them, since it  *)
(* has a reason from then on.                                              *)
Nested(s, reason) ==
    /\ \A j, k \in 1 .. Len(s) :
           j < k /\ s[j].n = s[k].n => s[j].kind = "closed"
                                       /\ s[k].kind = "action"
    /\ \A k \in 1 .. Len(s) : s[k].kind = "action" => k = Len(s)
    /\ \A k \in 1 .. Len(s) : s[k].kind = "closed" => reason[s[k].n] # UNSET

CallbackInv ==
    /\ CallbacksOnLiveObjects
    /\ Nested(stack, closed_reason)
    /\ signal = NoSignal => todo = {}

LEMMA NestedPush ==
    ASSUME TypeOK, NEW n \in Notifs, NEW r \in Reasons, NEW s \in Seq(Frame),
           Nested(s, closed_reason), Begins(n, r, s)
    PROVE  Nested(stack', closed_reason')
  <1> DEFINE t == <<ClosedFrame(n)>> \o s
  <1>1. stack' = t /\ closed_reason[n] = UNSET
    BY DEF Begins
  <1>2. /\ closed_reason'[n] # UNSET
        /\ \A m \in Notifs : m # n => closed_reason'[m] = closed_reason[m]
    BY DEF Begins, TypeOK, Reasons, EXPIRED, DISMISSED, API_REQUEST, UNSET
  <1>3. /\ Len(t) = Len(s) + 1 /\ Len(s) \in Nat
        /\ t[1].n = n /\ t[1].kind = "closed"
        /\ \A k \in 1 .. Len(s) : t[k + 1] = s[k]
    BY Push, FrameKinds
  <1>4. \A k \in 1 .. Len(t) : k # 1 =>
            k - 1 \in 1 .. Len(s) /\ t[k] = s[k - 1]
    BY <1>3
  <1>5. \A k \in 1 .. Len(s) : /\ s[k].n \in Notifs
                               /\ s[k].kind \in {"closed", "action"}
                               /\ s[k].n = n => s[k].kind = "action"
    <2> SUFFICES ASSUME NEW k \in 1 .. Len(s)
                 PROVE  /\ s[k].n \in Notifs
                        /\ s[k].kind \in {"closed", "action"}
                        /\ s[k].n = n => s[k].kind = "action"
      OBVIOUS
    <2>1. s[k] \in Frame
      OBVIOUS
    <2> QED BY <2>1, <1>1 DEF Frame, Nested
  <1> HIDE DEF t
  <1>6. ASSUME NEW j \in 1 .. Len(t), NEW k \in 1 .. Len(t),
               j < k, t[j].n = t[k].n
        PROVE  t[j].kind = "closed" /\ t[k].kind = "action"
    <2>1. k - 1 \in 1 .. Len(s) /\ t[k] = s[k - 1]
      BY <1>3, <1>4, <1>6
    <2>2. CASE j = 1
      BY <1>3, <1>5, <1>6, <2>1, <2>2
    <2>3. CASE j # 1
      <3>1. j - 1 \in 1 .. Len(s) /\ t[j] = s[j - 1] /\ j - 1 < k - 1
        BY <1>4, <1>6, <2>3
      <3> QED BY <1>6, <2>1, <3>1 DEF Nested
    <2> QED BY <2>2, <2>3
  <1>7. ASSUME NEW k \in 1 .. Len(t), t[k].kind = "action"
        PROVE  k = Len(t)
    <2>1. k # 1
      BY <1>3, <1>7
    <2>2. k - 1 \in 1 .. Len(s) /\ t[k] = s[k - 1]
      BY <1>4, <2>1
    <2>3. k - 1 = Len(s)
      BY <1>7, <2>2 DEF Nested
    <2> QED BY <1>3, <2>3
  <1>8. ASSUME NEW k \in 1 .. Len(t), t[k].kind = "closed"
        PROVE  closed_reason'[t[k].n] # UNSET
    <2>1. CASE k = 1
      BY <1>2, <1>3, <2>1
    <2>2. CASE k # 1
      BY <1>2, <1>4, <1>5, <1>8, <2>2 DEF Nested
    <2> QED BY <2>1, <2>2
  <1> QED BY <1>1, <1>6, <1>7, <1>8 DEF Nested

LEMMA NestedPop ==
    ASSUME NEW s \in Seq(Frame), s # << >>, NEW reason, Nested(s, reason)
    PROVE  Nested(Tail(s), reason)
  <1>1. /\ Len(Tail(s)) = Len(s) - 1 /\ Len(s) \in Nat \ {0}
        /\ \A k \in 1 .. Len(Tail(s)) :
               Tail(s)[k] = s[k + 1] /\ k + 1 \in 1 .. Len(s)
    BY Pop
  <1>2. ASSUME NEW j \in 1 .. Len(Tail(s)), NEW k \in 1 .. Len(Tail(s)),
               j < k, Tail(s)[j].n = Tail(s)[k].n
        PROVE  Tail(s)[j].kind = "closed" /\ Tail(s)[k].kind = "action"
    <2>1. j + 1 < k + 1 /\ s[j + 1].n = s[k + 1].n
      BY <1>1, <1>2
    <2> QED BY <1>1, <2>1 DEF Nested
  <1>3. ASSUME NEW k \in 1 .. Len(Tail(s)), Tail(s)[k].kind = "action"
        PROVE  k = Len(Tail(s))
    <2> DEFINE l == Len(Tail(s))
    <2>0. l = Len(s) - 1 /\ Len(s) \in Nat /\ k \in 1 .. l
      BY <1>1
    <2>1. k + 1 \in 1 .. Len(s) /\ s[k + 1].kind = "action"
      BY <1>1, <1>3
    <2>2. k + 1 = Len(s)
      BY <2>1 DEF Nested
    <2> HIDE DEF l
    <2>3. k = l
      BY <2>0, <2>2
    <2> QED BY <2>3 DEF l
  <1>4. \A k \in 1 .. Len(Tail(s)) :
            Tail(s)[k].kind = "closed" => reason[Tail(s)[k].n] # UNSET
    BY <1>1 DEF Nested
  <1> QED BY <1>2, <1>3, <1>4 DEF Nested

(* What runs after a callback has begun or returned. *)
LEMMA PushRunning ==
    ASSUME NEW n \in Notifs, NEW s \in Seq(Frame),
           stack' = <<ClosedFrame(n)>> \o s
    PROVE  Running' = {ClosedFrame(n)} \cup {s[k] : k \in 1 .. Len(s)}
  <1> DEFINE t == <<ClosedFrame(n)>> \o s
  <1>1. /\ Len(t) = Len(s) + 1 /\ Len(s) \in Nat /\ t[1] = ClosedFrame(n)
        /\ \A k \in 1 .. Len(s) : t[k + 1] = s[k] /\ k + 1 \in 1 .. Len(t)
    BY Push, FrameKinds
  <1>2. \A k \in 1 .. Len(t) : k # 1 =>
            k - 1 \in 1 .. Len(s) /\ t[k] = s[k - 1]
    BY <1>1
  <1>3. 1 \in 1 .. Len(t)
    BY <1>1
  <1> HIDE DEF t
  <1>4. {t[k] : k \in 1 .. Len(t)}
            = {ClosedFrame(n)} \cup {s[k] : k \in 1 .. Len(s)}
    <2>1. ASSUME NEW k \in 1 .. Len(t)
          PROVE  t[k] \in {ClosedFrame(n)} \cup {s[j] : j \in 1 .. Len(s)}
      <3>1. CASE k = 1
        BY <1>1, <3>1
      <3>2. CASE k # 1
        BY <1>2, <3>2
      <3> QED BY <3>1, <3>2
    <2>2. ClosedFrame(n) \in {t[k] : k \in 1 .. Len(t)}
      BY <1>1, <1>3
    <2>3. ASSUME NEW k \in 1 .. Len(s)
          PROVE  s[k] \in {t[j] : j \in 1 .. Len(t)}
      BY <1>1
    <2> QED BY <2>1, <2>2, <2>3
  <1>5. stack' = t
    BY DEF t
  <1> QED BY <1>4, <1>5 DEF Running

LEMMA PopRunning ==
    ASSUME TypeOK, stack # << >>, stack' = Tail(stack)
    PROVE  /\ Running = {stack[1]} \cup Running'
           /\ Running' = {stack[k] : k \in 2 .. Len(stack)}
  <1>1. stack \in Seq(Frame)
    BY DEF TypeOK
  <1>2. /\ Len(Tail(stack)) = Len(stack) - 1 /\ Len(stack) \in Nat \ {0}
        /\ \A k \in 1 .. Len(Tail(stack)) :
               Tail(stack)[k] = stack[k + 1] /\ k + 1 \in 2 .. Len(stack)
        /\ \A k \in 2 .. Len(stack) :
               k - 1 \in 1 .. Len(Tail(stack))
               /\ Tail(stack)[k - 1] = stack[k]
    BY <1>1, Pop
  <1>3. {Tail(stack)[k] : k \in 1 .. Len(Tail(stack))}
            = {stack[k] : k \in 2 .. Len(stack)}
    <2>1. ASSUME NEW k \in 1 .. Len(Tail(stack))
          PROVE  Tail(stack)[k] \in {stack[j] : j \in 2 .. Len(stack)}
      BY <1>2
    <2>2. ASSUME NEW k \in 2 .. Len(stack)
          PROVE  stack[k] \in {Tail(stack)[j] : j \in 1 .. Len(Tail(stack))}
      BY <1>2
    <2> QED BY <2>1, <2>2
  <1>4. Running = {stack[1]} \cup {stack[k] : k \in 2 .. Len(stack)}
    <2>1. \A k \in 1 .. Len(stack) : k = 1 \/ k \in 2 .. Len(stack)
      BY <1>2
    <2>2. 1 \in 1 .. Len(stack) /\ 2 .. Len(stack) \subseteq 1 .. Len(stack)
      BY <1>2
    <2> QED BY <2>1, <2>2 DEF Running
  <1> QED BY <1>3, <1>4 DEF Running

-----------------------------------------------------------------------------
(* Handlers and timers that are there were there, or are those of a live   *)
(* object; an emission that is over has run its handlers.                  *)
NothingNew ==
    /\ \A n \in Notifs : n \in todo' \cup handlers' \/ portal_timeout_id'[n]
           => \/ n \in todo \cup handlers \/ portal_timeout_id[n]
              \/ Live(n)
    /\ signal' = NoSignal => todo' = {}

LEMMA CallbackQuiet ==
    ASSUME CallbackInv, UNCHANGED <<closed_reason, stack, ref>>, NothingNew
    PROVE  CallbackInv'
  BY DEF CallbackInv, CallbacksOnLiveObjects, NothingNew, Live, InCallback,
         Running

(* "closed" of n is emitted on top of s: of what ran, all but an action of *)
(* n itself.                                                               *)
LEMMA CallbackBegins ==
    ASSUME TypeOK, CallbackInv, NEW n \in Notifs, NEW r \in Reasons,
           NEW s \in Seq(Frame), Nested(s, closed_reason), Begins(n, r, s),
           \A f \in Running : f.n = n \/ f \in {s[k] : k \in 1 .. Len(s)},
           {s[k] : k \in 1 .. Len(s)} \subseteq Running,
           Live(n), ref' = ref, NothingNew
    PROVE  CallbackInv'
  <1>1. Nested(stack', closed_reason')
    BY NestedPush DEF CallbackInv
  <1>2. /\ Running' = {ClosedFrame(n)} \cup {s[k] : k \in 1 .. Len(s)}
        /\ ClosedFrame(n).n = n
    BY PushRunning, FrameKinds DEF Begins
  <1>3. /\ \A f \in Running' : Live(f.n)
        /\ \A m \in Notifs : InCallback(m) => InCallback(m)'
    BY <1>2 DEF CallbackInv, CallbacksOnLiveObjects, InCallback
  <1> QED BY <1>1, <1>3
          DEF CallbackInv, CallbacksOnLiveObjects, NothingNew, Live

LEMMA CallbackPops ==
    ASSUME TypeOK, CallbackInv, NEW n \in Notifs, stack # << >>,
           stack[1].n = n, Pops(n), UNCHANGED <<closed_reason, signal>>
    PROVE  CallbackInv'
  <1>1. stack' = Tail(stack) /\ stack \in Seq(Frame)
    BY DEF Pops, TypeOK
  <1>2. Nested(stack', closed_reason')
    BY <1>1, NestedPop DEF CallbackInv
  <1>3. /\ Running = {stack[1]} \cup Running'
        /\ Running' = {stack[k] : k \in 2 .. Len(stack)}
    BY <1>1, PopRunning
  <1>4. CASE ref[n] = "kept" /\ \A k \in 2 .. Len(stack) : stack[k].n # n
    <2>1. Finalizes(n)
      BY <1>4 DEF Pops
    <2>2. \A f \in Running' : f.n # n
      BY <1>3, <1>4
    <2>3. \A m \in Notifs :
              m # n => /\ ref'[m] = ref[m]
                       /\ InCallback(m) => InCallback(m)'
      BY <2>1, <1>3 DEF Finalizes, TypeOK, InCallback
    <2>4. /\ n \notin todo' \cup handlers' /\ ~ portal_timeout_id'[n]
          /\ ref'[n] = "gone"
      BY <2>1 DEF Finalizes, TypeOK
    <2>5. /\ todo' \subseteq todo /\ handlers' \subseteq handlers
          /\ \A m \in Notifs : portal_timeout_id'[m] => portal_timeout_id[m]
      BY <2>1 DEF Finalizes, TypeOK
    <2>6. \A f \in Running' : f.n \in Notifs
      BY <1>1, <1>3, FrameKinds
    <2>7. \A f \in Running' : Live(f.n)'
      BY <1>3, <2>2, <2>3, <2>6 DEF CallbackInv, CallbacksOnLiveObjects, Live
    <2>8. \A m \in Notifs : ref'[m] = "kept" => InCallback(m)'
      BY <2>3, <2>4 DEF CallbackInv, CallbacksOnLiveObjects
    <2>9. \A m \in Notifs : m \in todo' \cup handlers' \/ portal_timeout_id'[m]
                                => Live(m)'
      BY <2>3, <2>4, <2>5 DEF CallbackInv, CallbacksOnLiveObjects, Live
    <2>10. signal' = NoSignal => todo' = {}
      BY <2>5 DEF CallbackInv
    <2> QED BY <1>2, <2>7, <2>8, <2>9, <2>10
            DEF CallbackInv, CallbacksOnLiveObjects
  <1>5. CASE ~ (ref[n] = "kept" /\ \A k \in 2 .. Len(stack) : stack[k].n # n)
    <2>1. UNCHANGED <<ref, portal_timeout_id, handlers, todo>>
      BY <1>5 DEF Pops
    <2>2. \A m \in Notifs : ref'[m] = "kept" => InCallback(m)'
      <3> SUFFICES ASSUME NEW m \in Notifs, ref[m] = "kept"
                   PROVE  InCallback(m)'
        BY <2>1
      <3>1. CASE m = n
        BY <1>3, <1>5, <3>1 DEF InCallback
      <3>2. CASE m # n
        BY <1>3, <3>2 DEF CallbackInv, CallbacksOnLiveObjects, InCallback
      <3> QED BY <3>1, <3>2
    <2>3. \A f \in Running' : Live(f.n)'
      BY <1>3, <2>1 DEF CallbackInv, CallbacksOnLiveObjects, Live
    <2> QED BY <1>2, <2>1, <2>2, <2>3
            DEF CallbackInv, CallbacksOnLiveObjects, Live
  <1> QED BY <1>4, <1>5

LEMMA CallbackUnref ==
    ASSUME TypeOK, CallbackInv, NEW n \in Notifs, Unref(n)
    PROVE  CallbackInv'
  <1>1. UNCHANGED <<closed_reason, stack, signal>> /\ ref[n] = "held"
    BY DEF Unref
  <1>2. CASE InCallback(n)
    <2>1. /\ ref' = [ref EXCEPT ![n] = "kept"]
          /\ UNCHANGED <<handlers, todo, portal_timeout_id>>
      BY <1>2 DEF Unref
    <2>2. \A m \in Notifs : /\ Live(m) => Live(m)'
                            /\ ref'[m] = "kept" => m = n \/ ref[m] = "kept"
      BY <2>1 DEF Live, TypeOK
    <2>3. \A f \in Running : f.n \in Notifs
      BY FrameKinds DEF TypeOK, Running
    <2> QED BY <1>1, <1>2, <2>1, <2>2, <2>3
            DEF CallbackInv, CallbacksOnLiveObjects, InCallback, Running
  <1>3. CASE ~ InCallback(n)
    <2>1. Finalizes(n)
      BY <1>3 DEF Unref
    <2>2. /\ ref'[n] = "gone" /\ n \notin todo' \cup handlers'
          /\ ~ portal_timeout_id'[n]
          /\ todo' \subseteq todo /\ handlers' \subseteq handlers
          /\ \A m \in Notifs : /\ m # n => ref'[m] = ref[m]
                               /\ portal_timeout_id'[m] => portal_timeout_id[m]
      BY <2>1 DEF Finalizes, TypeOK
    <2>3. \A f \in Running : f.n \in Notifs /\ f.n # n
      BY <1>3, FrameKinds DEF TypeOK, Running, InCallback
    <2> QED BY <1>1, <2>2, <2>3
            DEF CallbackInv, CallbacksOnLiveObjects, InCallback, Running, Live
  <1> QED BY <1>2, <1>3

(* remove_portal_notification () of a live object. *)
LEMMA CallbackRemoves ==
    ASSUME TypeOK, CallbackInv, NEW n \in Notifs, NEW r \in Reasons,
           Removes(n, r) \/ RemoveFails(n), Live(n),
           UNCHANGED <<lifeVars, signal, todo>>
    PROVE  CallbackInv'
  <1>1. NothingNew /\ ref' = ref
    BY DEF NothingNew, Removes, RemoveFails, lifeVars, TypeOK, CallbackInv
  <1>2. CASE Begins(n, r, stack)
    <2>1. stack \in Seq(Frame)
      BY DEF TypeOK
    <2>2. Nested(stack, closed_reason)
      BY DEF CallbackInv
    <2>3. Running = {stack[k] : k \in 1 .. Len(stack)}
      BY DEF Running
    <2> QED BY <1>1, <1>2, <2>1, <2>2, <2>3, CallbackBegins
  <1>3. CASE UNCHANGED <<closed_reason, stack>>
    BY <1>1, <1>3, CallbackQuiet
  <1> QED BY <1>2, <1>3 DEF Removes, RemoveFails

LEMMA CallbackInit == Init => CallbackInv
  <1> SUFFICES ASSUME Init PROVE CallbackInv
    OBVIOUS
  <1>1. Running = {} /\ Len(stack) = 0
    BY DEF Init, Running
  <1> QED BY <1>1 DEF Init, CallbackInv, CallbacksOnLiveObjects, Nested, Live

LEMMA CallbackNext == TypeOK /\ CallbackInv /\ [Next]_vars => CallbackInv'
  <1> SUFFICES ASSUME TypeOK, CallbackInv, [Next]_vars PROVE CallbackInv'
    OBVIOUS
  <1>0. API_REQUEST \in Reasons /\ EXPIRED \in Reasons /\ DISMISSED \in Reasons
    BY DEF Reasons
  <1>00. /\ \A n \in todo \cup handlers : Live(n)
         /\ signal = NoSignal => todo = {}
    BY DEF CallbackInv, CallbacksOnLiveObjects, TypeOK
  <1>1. ASSUME NEW n \in Notifs, New(n) PROVE CallbackInv'
    <2>1. /\ UNCHANGED <<closed_reason, stack, handlers, todo, signal,
                         portal_timeout_id>>
          /\ ref[n] = "none" /\ ref' = [ref EXCEPT ![n] = "held"]
      BY <1>1 DEF New, notifyVars
    <2>2. \A m \in Notifs : /\ Live(m) => Live(m)'
                            /\ ref'[m] = "kept" => ref[m] = "kept"
      BY <2>1 DEF Live, TypeOK
    <2>3. \A f \in Running : f.n \in Notifs
      BY FrameKinds DEF TypeOK, Running
    <2> QED BY <2>1, <2>2, <2>3
            DEF CallbackInv, CallbacksOnLiveObjects, InCallback, Running
  <1>2. ASSUME NEW n \in Notifs, NEW k \in Keys, AddAction(n, k)
        PROVE  CallbackInv'
    BY <1>00, <1>2, CallbackQuiet
    DEF AddAction, SetActions, NothingNew, lifeVars
  <1>3. ASSUME NEW n \in Notifs, ClearActions(n) PROVE CallbackInv'
    BY <1>00, <1>3, CallbackQuiet
    DEF ClearActions, SetActions, NothingNew, lifeVars
  <1>4. ASSUME NEW n \in Notifs, ShowSucceeds(n) PROVE CallbackInv'
    <2>1. ShowStarts(n)
          /\ portal_timeout_id' = [portal_timeout_id EXCEPT ![n] = n \in Timed]
      BY <1>4 DEF ShowSucceeds
    <2>2. NothingNew
      BY <1>00, <2>1 DEF ShowStarts, Callable, NothingNew, TypeOK
    <2> QED BY <2>1, <2>2, CallbackQuiet DEF ShowStarts
  <1>5. ASSUME NEW n \in Notifs, ShowRefused(n) PROVE CallbackInv'
    <2>1. NothingNew
      BY <1>00, <1>5 DEF ShowRefused, ShowStarts, Callable, NothingNew
    <2> QED BY <1>5, <2>1, CallbackQuiet DEF ShowRefused, ShowStarts
  <1>6. ASSUME NEW n \in Notifs, ShowFails(n) PROVE CallbackInv'
    <2>1. ShowStarts(n)
          /\ portal_timeout_id' = [portal_timeout_id EXCEPT ![n] = FALSE]
      BY <1>6 DEF ShowFails
    <2>2. NothingNew
      BY <1>00, <2>1 DEF ShowStarts, Callable, NothingNew, TypeOK
    <2> QED BY <2>1, <2>2, CallbackQuiet DEF ShowStarts
  <1>7. ASSUME NEW n \in Notifs, Close(n) PROVE CallbackInv'
    <2>1. Removes(n, API_REQUEST) \/ RemoveFails(n)
      BY <1>7 DEF Close
    <2> QED BY <1>0, <1>7, <2>1, CallbackRemoves DEF Close, Callable
  <1>8. ASSUME NEW n \in Notifs, Unref(n) PROVE CallbackInv'
    BY <1>8, CallbackUnref
  <1>9. CASE Dispatch
    <2>1. signal' # NoSignal
      <3>1. signal' \in Signal
        BY <1>9 DEF Dispatch, TypeOK
      <3> QED BY <3>1 DEF Signal, NoSignal, Ids
    <2>2. NothingNew
      BY <1>9, <2>1 DEF Dispatch, NothingNew, notifyVars, lifeVars
    <2> QED BY <1>9, <2>2, CallbackQuiet DEF Dispatch, notifyVars, lifeVars
  <1>10. ASSUME NEW n \in Notifs, Visit(n)
         PROVE  /\ NothingNew /\ ref' = ref
                /\ Live(n) /\ stack = << >> /\ Running = {}
    <2>1. Len(stack) = 0
      BY <1>10 DEF Visit
    <2> QED BY <1>00, <1>10, <2>1 DEF Visit, NothingNew, lifeVars, Running
  <1>11. ASSUME NEW n \in Notifs, Ignore(n) PROVE CallbackInv'
    BY <1>10, <1>11, CallbackQuiet DEF Ignore
  <1>12. ASSUME NEW n \in Notifs, ActivateBegins(n) PROVE CallbackInv'
    <2>1. /\ Visit(n) /\ stack' = <<ActionFrame(n)>>
          /\ closed_reason' = closed_reason
      BY <1>12 DEF ActivateBegins
    <2>2. /\ Len(stack') = 1 /\ stack'[1] = ActionFrame(n)
          /\ Running' = {ActionFrame(n)}
      BY <2>1 DEF Running
    <2>3. ActionFrame(n).kind = "action" /\ ActionFrame(n).n = n
      BY FrameKinds
    <2>4. Nested(stack', closed_reason')
      BY <2>2, <2>3 DEF Nested
    <2> QED BY <1>10, <2>1, <2>2, <2>3, <2>4
            DEF CallbackInv, CallbacksOnLiveObjects, InCallback, NothingNew,
                Live
  <1>13. ASSUME NEW n \in Notifs, UnknownAction(n) PROVE CallbackInv'
    <2>1. Visit(n)
      BY <1>13 DEF UnknownAction
    <2>2. CASE Begins(n, DISMISSED, stack)
      <3>1. stack \in Seq(Frame) /\ Nested(stack, closed_reason)
        BY DEF TypeOK, CallbackInv
      <3>2. Running = {stack[k] : k \in 1 .. Len(stack)}
        BY DEF Running
      <3> QED BY <1>0, <1>10, <2>1, <2>2, <3>1, <3>2, CallbackBegins
    <2>3. CASE UNCHANGED <<closed_reason, stack>>
      BY <1>10, <2>1, <2>3, CallbackQuiet
    <2> QED BY <1>13, <2>2, <2>3 DEF UnknownAction
  <1>14. ASSUME NEW n \in Notifs, ActivateEnds(n) PROVE CallbackInv'
    <2>1. /\ stack # << >> /\ stack[1] = ActionFrame(n) /\ stack \in Seq(Frame)
          /\ ActionFrame(n).n = n /\ ActionFrame(n) \in Frame
      BY <1>14, TopIsHead, FrameKinds DEF ActivateEnds, TypeOK
    <2>2. CASE /\ Begins(n, DISMISSED, Tail(stack))
               /\ UNCHANGED <<lifeVars, todo, portal_timeout_id>>
      <3> DEFINE s == Tail(stack)
      <3>1. s \in Seq(Frame) /\ Nested(s, closed_reason)
        BY <2>1, Pop, NestedPop DEF CallbackInv
      <3>2. /\ Len(s) = Len(stack) - 1 /\ Len(stack) \in Nat \ {0}
            /\ \A k \in 1 .. Len(s) : s[k] = stack[k + 1]
                                      /\ k + 1 \in 1 .. Len(stack)
            /\ \A k \in 1 .. Len(stack) : k # 1 =>
                   k - 1 \in 1 .. Len(s) /\ s[k - 1] = stack[k]
        BY <2>1, Pop
      <3>3. Begins(n, DISMISSED, s)
        BY <2>2
      <3> HIDE DEF s
      <3>4. {s[k] : k \in 1 .. Len(s)} \subseteq Running
        BY <3>2 DEF Running
      <3>5. ASSUME NEW f \in Running
            PROVE  f.n = n \/ f \in {s[k] : k \in 1 .. Len(s)}
        <4>1. PICK k \in 1 .. Len(stack) : f = stack[k]
          BY DEF Running
        <4>2. CASE k = 1
          BY <2>1, <4>1, <4>2
        <4>3. CASE k # 1
          BY <3>2, <4>1, <4>3
        <4> QED BY <4>2, <4>3
      <3>6. Live(n)
        <4>1. 1 \in 1 .. Len(stack)
          BY <3>2
        <4>2. ActionFrame(n) \in Running
          BY <2>1, <4>1 DEF Running
        <4> QED BY <2>1, <4>2 DEF CallbackInv, CallbacksOnLiveObjects
      <3>7. NothingNew /\ ref' = ref
        BY <1>00, <1>14, <2>2 DEF ActivateEnds, NothingNew, lifeVars
      <3> QED BY <1>0, <3>1, <3>3, <3>4, <3>5, <3>6, <3>7, CallbackBegins
    <2>3. CASE Pops(n) /\ UNCHANGED closed_reason
      BY <1>14, <2>1, <2>3, CallbackPops DEF ActivateEnds
    <2> QED BY <1>14, <2>2, <2>3 DEF ActivateEnds
  <1>15. ASSUME NEW n \in Notifs, CloseEnds(n) PROVE CallbackInv'
    <2>1. stack # << >> /\ stack[1].n = n
      BY <1>15, TopIsHead, FrameKinds DEF CloseEnds
    <2> QED BY <1>15, <2>1, CallbackPops DEF CloseEnds
  <1>16. CASE EndEmission
    BY <1>00, <1>16, CallbackQuiet
    DEF EndEmission, NothingNew, notifyVars, lifeVars
  <1>17. ASSUME NEW n \in Notifs, TimeoutFires(n) PROVE CallbackInv'
    <2>1. Removes(n, EXPIRED) \/ RemoveFails(n)
      BY <1>17 DEF TimeoutFires
    <2>2. Live(n)
      BY <1>17 DEF TimeoutFires, CallbackInv, CallbacksOnLiveObjects
    <2> QED BY <1>0, <1>17, <2>1, <2>2, CallbackRemoves DEF TimeoutFires
  <1>18. ASSUME NEW i \in Ids, Vanishes(i) PROVE CallbackInv'
    BY <1>00, <1>18, CallbackQuiet
    DEF Vanishes, NothingNew, notifyVars, lifeVars
  <1>19. CASE UNCHANGED vars
    BY <1>00, <1>19, CallbackQuiet DEF vars, NothingNew, notifyVars, lifeVars
  <1> QED
    BY <1>1, <1>2, <1>3, <1>4, <1>5, <1>6, <1>7, <1>8, <1>9, <1>11,
       <1>12, <1>13, <1>14, <1>15, <1>16, <1>17, <1>18, <1>19
    DEF Next, MainLoop, Handler, User, App, UserActivates, UserDismisses

LEMMA CallbackInvariant == Spec => []CallbackInv
  BY CallbackInit, CallbackNext, TypeCorrect, PTL DEF Spec

(* However callbacks nest and whatever is dropped in them, none runs, and  *)
(* no handler and no timer is left, for an object that is gone.            *)
THEOREM NothingOutlivesItsObject == Spec => []CallbacksOnLiveObjects
  <1>1. CallbackInv => CallbacksOnLiveObjects
    BY DEF CallbackInv
  <1> QED BY <1>1, CallbackInvariant, PTL

(* A notification's callbacks nest at most once each: an action, and the   *)
(* "closed" of a close made in it.                                         *)
THEOREM CallbacksNestOnce == Spec => []CallbacksDoNotRecur
  <1>1. CallbackInv => CallbacksDoNotRecur
    BY DEF CallbackInv, Nested, CallbacksDoNotRecur
  <1> QED BY <1>1, CallbackInvariant, PTL

-----------------------------------------------------------------------------
LEMMA EnvironmentStays == TypeOK /\ [Next]_vars => UNCHANGED Environment
  <1> SUFFICES ASSUME TypeOK, [Next]_vars PROVE UNCHANGED Environment
    OBVIOUS
  <1>1. ASSUME NEW n \in Notifs, ShowSucceeds(n) \/ ShowFails(n)
        PROVE  UNCHANGED Environment
    BY <1>1, NumberedTypes DEF ShowSucceeds, ShowFails
  <1>2. ASSUME NEW n \in Notifs, Handler(n) PROVE UNCHANGED Environment
    BY <1>2 DEF Handler, Ignore, ActivateBegins, UnknownAction, ActivateEnds,
                CloseEnds, Visit, countVars
  <1>3. CASE \E n \in Notifs : \/ New(n) \/ ClearActions(n) \/ Close(n)
                               \/ Unref(n) \/ ShowRefused(n) \/ TimeoutFires(n)
                               \/ \E k \in Keys : AddAction(n, k)
    BY <1>3 DEF New, ClearActions, AddAction, SetActions, Close, Unref,
                ShowRefused, TimeoutFires, countVars
  <1>4. CASE Dispatch \/ EndEmission \/ User \/ UNCHANGED vars
    BY <1>4 DEF Dispatch, EndEmission, User, UserDismisses, UserActivates,
                Vanishes, vars, countVars
  <1> QED BY <1>1, <1>2, <1>3, <1>4 DEF Next, MainLoop, App

(* A notification that was told closed has no id, or is being told.        *)
Told ==
    \A n \in Notifs :
        closed_reason[n] # UNSET => id[n] = 0 \/ ClosedFrame(n) \in Running

ToldInv == Environment \subseteq {"update", "fail"} => Told

LEMMA ToldBegins ==
    ASSUME TypeOK, Told, NEW n \in Notifs, NEW r \in Reasons,
           NEW s \in Seq(Frame), Begins(n, r, s), id' = id,
           \A f \in Running : f.kind = "closed"
                                  => f \in {s[k] : k \in 1 .. Len(s)}
    PROVE  Told'
  <1>1. Running' = {ClosedFrame(n)} \cup {s[k] : k \in 1 .. Len(s)}
    BY PushRunning DEF Begins
  <1>2. \A m \in Notifs : m # n => closed_reason'[m] = closed_reason[m]
    BY DEF Begins, TypeOK
  <1>3. \A m \in Notifs : ClosedFrame(m).kind = "closed"
    BY FrameKinds
  <1> QED BY <1>1, <1>2, <1>3 DEF Told, ClosedFrame

LEMMA ToldShow ==
    ASSUME Told, NEW n \in Notifs, ShowStarts(n),
           Environment \subseteq {"update", "fail"},
           \A m \in Notifs : m # n => id'[m] = id[m]
    PROVE  Told'
  <1>1. closed_reason[n] = UNSET
    BY DEF ShowStarts
  <1> QED BY <1>1 DEF ShowStarts, Told, Running

LEMMA ToldNext ==
    /\ TypeOK /\ CallbackInv /\ Told /\ [Next]_vars
    /\ Environment \subseteq {"update", "fail"}
    => Told'
  <1> SUFFICES ASSUME TypeOK, CallbackInv, Told, [Next]_vars,
                      Environment \subseteq {"update", "fail"}
               PROVE  Told'
    OBVIOUS
  <1>0. API_REQUEST \in Reasons /\ EXPIRED \in Reasons /\ DISMISSED \in Reasons
    BY DEF Reasons
  <1>00. /\ stack \in Seq(Frame)
         /\ Running = {stack[k] : k \in 1 .. Len(stack)}
    BY DEF TypeOK, Running
  <1>1. ASSUME UNCHANGED <<id, closed_reason, stack>> PROVE Told'
    BY <1>1 DEF Told, Running
  <1>2. ASSUME NEW n \in Notifs, ShowSucceeds(n) \/ ShowFails(n)
        PROVE  Told'
    BY <1>2, NumberedTypes, ToldShow DEF ShowSucceeds, ShowFails
  <1>3. ASSUME NEW n \in Notifs, NEW r \in Reasons, id' = id,
               \/ Begins(n, r, stack)
               \/ UNCHANGED <<closed_reason, stack>>
        PROVE  Told'
    BY <1>00, <1>1, <1>3, ToldBegins
  <1>4. ASSUME NEW n \in Notifs, Close(n) PROVE Told'
    BY <1>0, <1>3, <1>4 DEF Close, Removes, RemoveFails
  <1>5. ASSUME NEW n \in Notifs, TimeoutFires(n) PROVE Told'
    BY <1>0, <1>3, <1>5 DEF TimeoutFires, Removes, RemoveFails
  <1>6. ASSUME NEW n \in Notifs, UnknownAction(n) PROVE Told'
    BY <1>0, <1>3, <1>6 DEF UnknownAction, Visit
  <1>7. ASSUME NEW n \in Notifs, ActivateBegins(n) PROVE Told'
    <2>1. UNCHANGED <<id, closed_reason>> /\ stack = << >>
      BY <1>7 DEF ActivateBegins, Visit
    <2>2. Running = {}
      <3>1. Len(stack) = 0
        BY <2>1
      <3> QED BY <3>1 DEF Running
    <2> QED BY <2>1, <2>2 DEF Told
  <1>8. ASSUME NEW n \in Notifs, ActivateEnds(n) PROVE Told'
    <2>1. /\ stack # << >> /\ stack[1] = ActionFrame(n)
          /\ ActionFrame(n).kind = "action" /\ id' = id
      BY <1>8, TopIsHead, FrameKinds DEF ActivateEnds
    <2>2. CASE Begins(n, DISMISSED, Tail(stack))
      <3> DEFINE s == Tail(stack)
      <3>1. /\ s \in Seq(Frame) /\ Len(stack) \in Nat \ {0}
            /\ \A k \in 1 .. Len(stack) : k # 1 =>
                   k - 1 \in 1 .. Len(s) /\ s[k - 1] = stack[k]
        BY <1>00, <2>1, Pop
      <3>2. Begins(n, DISMISSED, s)
        BY <2>2
      <3> HIDE DEF s
      <3>3. ASSUME NEW f \in Running, f.kind = "closed"
            PROVE  f \in {s[k] : k \in 1 .. Len(s)}
        <4>1. PICK k \in 1 .. Len(stack) : f = stack[k]
          BY DEF Running
        <4>2. k # 1
          BY <2>1, <3>3, <4>1
        <4> QED BY <3>1, <4>1, <4>2
      <3> QED BY <1>0, <2>1, <3>1, <3>2, <3>3, ToldBegins
    <2>3. CASE Pops(n) /\ UNCHANGED closed_reason
      <3>1. Running = {ActionFrame(n)} \cup Running'
        BY <2>1, <2>3, PopRunning DEF Pops
      <3>2. \A m \in Notifs : ClosedFrame(m) # ActionFrame(n)
        BY DEF ClosedFrame, ActionFrame
      <3> QED BY <2>1, <2>3, <3>1, <3>2 DEF Told
    <2> QED BY <1>8, <2>2, <2>3 DEF ActivateEnds
  <1>9. ASSUME NEW n \in Notifs, CloseEnds(n) PROVE Told'
    <2>1. stack # << >> /\ stack[1] = ClosedFrame(n)
      BY <1>9, TopIsHead, FrameKinds DEF CloseEnds
    <2>2. Running = {ClosedFrame(n)} \cup Running'
      BY <1>9, <2>1, PopRunning DEF CloseEnds, Pops
    <2>3. \A m \in Notifs : m # n => ClosedFrame(m) # ClosedFrame(n)
      BY FrameKinds
    <2> QED BY <1>9, <2>2, <2>3 DEF CloseEnds, TypeOK, Told
  <1>10. CASE \E n \in Notifs : \/ New(n) \/ ClearActions(n) \/ Unref(n)
                                \/ ShowRefused(n) \/ Ignore(n)
                                \/ \E k \in Keys : AddAction(n, k)
    BY <1>1, <1>10 DEF New, ClearActions, AddAction, SetActions, Unref,
                       ShowRefused, ShowStarts, Ignore, Visit, notifyVars
  <1>11. CASE Dispatch \/ EndEmission \/ User \/ UNCHANGED vars
    BY <1>1, <1>11 DEF Dispatch, EndEmission, User, UserDismisses,
                       UserActivates, Vanishes, vars, notifyVars
  <1> QED BY <1>2, <1>4, <1>5, <1>6, <1>7, <1>8, <1>9, <1>10, <1>11
          DEF Next, MainLoop, Handler, App

LEMMA ToldInvariant == Spec => []ToldInv
  <1>1. Init => ToldInv
    BY DEF Init, ToldInv, Told
  <1>2. TypeOK /\ CallbackInv /\ ToldInv /\ [Next]_vars => ToldInv'
    BY ToldNext, EnvironmentStays DEF ToldInv
  <1> QED BY <1>1, <1>2, TypeCorrect, CallbackInvariant, PTL DEF Spec

(* A close that finds an id finds a notification that was not told, and    *)
(* tells it.                                                               *)
LEMMA CloseTells ==
    ASSUME TypeOK, ToldInv, [Next]_vars,
           Environment \subseteq {"update", "fail"}, NEW n \in Notifs
    PROVE  TellsOfClose(n)
  <1> SUFFICES ASSUME id[n] # 0, ClosedFrame(n) \notin Running, HandlesClose(n)
               PROVE  ClosedFrame(n) \in Running'
    BY DEF TellsOfClose
  <1>0. API_REQUEST \in Reasons /\ EXPIRED \in Reasons /\ DISMISSED \in Reasons
    BY DEF Reasons
  <1>1. closed_reason[n] = UNSET
    BY DEF ToldInv, Told
  <1>2. ASSUME NEW r \in Reasons, NEW s \in Seq(Frame), Begins(n, r, s)
        PROVE  ClosedFrame(n) \in Running'
    BY <1>2, PushRunning DEF Begins
  <1>3. stack \in Seq(Frame)
    BY DEF TypeOK
  <1>4. CASE ActivateEnds(n)
    <2>1. stack # << >>
      BY <1>4, TopIsHead, FrameKinds DEF ActivateEnds
    <2>2. Tail(stack) \in Seq(Frame) /\ Begins(n, DISMISSED, Tail(stack))
      BY <1>1, <1>3, <1>4, <2>1, Pop DEF ActivateEnds
    <2> QED BY <1>0, <1>2, <2>2
  <1>5. CASE UnknownAction(n)
    BY <1>0, <1>1, <1>2, <1>3, <1>5 DEF UnknownAction
  <1>6. CASE Close(n) /\ ~ RemoveFails(n)
    BY <1>0, <1>1, <1>2, <1>3, <1>6 DEF Close, Removes
  <1>7. CASE TimeoutFires(n) /\ ~ RemoveFails(n)
    BY <1>0, <1>1, <1>2, <1>3, <1>7 DEF TimeoutFires, Removes
  <1> QED BY <1>4, <1>5, <1>6, <1>7 DEF HandlesClose

(* An application that shows no notification after its close is told of    *)
(* each, however it updates, nests and fails.                              *)
THEOREM FirstCloseIsAlwaysTold == Spec => FirstCloseIsTold
  <1>1. TypeOK /\ ToldInv /\ [Next]_vars
            => [Environment \subseteq {"update", "fail"} =>
                    \A n \in Notifs : TellsOfClose(n)]_vars
    BY CloseTells
  <1> QED BY <1>1, TypeCorrect, ToldInvariant, PTL DEF Spec, FirstCloseIsTold

-----------------------------------------------------------------------------
(* In ordinary surroundings.  A bubble is shown under the id its object    *)
(* has, and its timer is armed; a notification has left the screen when a  *)
(* signal of its id waits (unless it was told closed), when its action's   *)
(* callback runs and when it is told closed.  Ids come from the counter.   *)
Reached ==
    \A i \in Ids, n \in Notifs :
        displayed[i] = n /\ ref[n] # "gone" =>
            id[n] = i /\ (n \in Timed => portal_timeout_id[n])

Waiting(n) ==
    \/ signal.id = id[n]
    \/ \E k \in 1 .. Len(queue) : queue[k].id = id[n]

Leaving ==
    \A n \in Notifs :
        \/ ClosedFrame(n) \in Running
        \/ /\ closed_reason[n] = UNSET
           /\ \/ ActionFrame(n) \in Running
              \/ id[n] # 0 /\ ref[n] # "gone" /\ Waiting(n)
        => ~ OnScreen(n)

Counted ==
    /\ \A n \in Notifs : id[n] <= portal_notification_count
    /\ \A i \in Ids : displayed[i] # None => i <= portal_notification_count
    /\ \A k \in 1 .. Len(queue) : queue[k].id <= portal_notification_count
    /\ signal.id <= portal_notification_count

ScreenInv == Reached /\ Leaving /\ Counted

LEMMA ScreenInit == Init => ScreenInv
  <1> SUFFICES ASSUME Init PROVE ScreenInv
    OBVIOUS
  <1>1. Running = {} /\ Len(queue) = 0
    BY DEF Init, Running
  <1> QED BY <1>1, ConstantsAssumption
          DEF Init, ScreenInv, Reached, Leaving, Counted, OnScreen, NoSignal

(* Nothing appears on the screen, no callback begins, no signal arrives.   *)
LEMMA ScreenQuiet ==
    ASSUME ScreenInv,
           UNCHANGED <<id, closed_reason, queue, signal, displayed, stack,
                       portal_notification_count, portal_timeout_id>>,
           \A n \in Notifs : ref'[n] # "gone" => ref[n] # "gone"
    PROVE  ScreenInv'
  BY DEF ScreenInv, Reached, Leaving, Counted, OnScreen, Waiting, Running

LEMMA LiveAreNotGone ==
    ASSUME CallbackInv
    PROVE  /\ \A n \in Notifs : Live(n) => ref[n] # "gone"
           /\ \A n \in Notifs : InCallback(n) => ref[n] # "gone"
           /\ \A n \in Notifs : n \in todo \/ portal_timeout_id[n]
                                    => ref[n] # "gone"
  BY DEF CallbackInv, CallbacksOnLiveObjects, InCallback, Live

(* The outcome of a show: a bubble under the object's id, which is new to  *)
(* the screen and to the queue unless the object was told closed.          *)
LEMMA ScreenShow ==
    ASSUME TypeOK, CallbackInv, ScreenInv, NEW n \in Notifs,
           Ordinary, ShowSucceeds(n)
    PROVE  ScreenInv'
  <1>1. /\ ShowStarts(n) /\ Numbered(n) /\ ref[n] # "gone"
        /\ displayed' = [displayed EXCEPT ![id'[n]] = n]
        /\ portal_timeout_id' = [portal_timeout_id EXCEPT ![n] = n \in Timed]
        /\ UNCHANGED <<ref, queue, signal, stack, closed_reason, Running>>
    BY LiveAreNotGone DEF ShowSucceeds, ShowStarts, Callable, Running
  <1>2. /\ ~ InCallback(n)
        /\ id[n] = 0 \/ closed_reason[n] # UNSET
    BY <1>1 DEF ShowStarts, Ordinary
  <1>3. /\ id'[n] \in Ids
        /\ \A m \in Notifs : m # n => id'[m] = id[m]
        /\ id[n] # 0 => id'[n] = id[n]
        /\ id[n] = 0 => /\ id'[n] = portal_notification_count'
                        /\ id'[n] = portal_notification_count + 1
        /\ portal_notification_count' >= portal_notification_count
        /\ portal_notification_count \in Nat
        /\ portal_notification_count' \in Nat
        /\ \A m \in Notifs : id[m] \in Nat /\ id'[m] \in Nat
    BY <1>1, NumberedTypes, ConstantsAssumption DEF TypeOK
  <1>4. \A i \in Ids : displayed'[i] = IF i = id'[n] THEN n ELSE displayed[i]
    BY <1>1, <1>3 DEF TypeOK
  <1>5. \A m \in Notifs : m # n => portal_timeout_id'[m] = portal_timeout_id[m]
    BY <1>1 DEF TypeOK
  <1>6. portal_timeout_id'[n] = (n \in Timed)
    BY <1>1 DEF TypeOK
  <1>7. Reached'
    <2> SUFFICES ASSUME NEW i \in Ids, NEW m \in Notifs,
                        displayed'[i] = m, ref[m] # "gone"
                 PROVE  /\ id'[m] = i
                        /\ m \in Timed => portal_timeout_id'[m]
      BY <1>1 DEF Reached
    <2>1. CASE i = id'[n]
      BY <1>4, <1>6, <2>1
    <2>2. CASE i # id'[n]
      <3>1. displayed[i] = m
        BY <1>4, <2>2
      <3>2. id[m] = i /\ (m \in Timed => portal_timeout_id[m])
        BY <3>1 DEF ScreenInv, Reached
      <3>3. m # n
        <4>1. i # 0
          BY DEF Ids
        <4> QED BY <1>3, <2>2, <3>2, <4>1
      <3> QED BY <1>3, <1>5, <3>2, <3>3
    <2> QED BY <2>1, <2>2
  <1>8. \A m \in Notifs : m # n /\ OnScreen(m)' => OnScreen(m)
    BY <1>4 DEF OnScreen
  <1>9. ClosedFrame(n) \notin Running /\ ActionFrame(n) \notin Running
    BY <1>2, FrameKinds DEF InCallback
  <1>10. closed_reason[n] = UNSET => ~ Waiting(n)'
    <2> SUFFICES ASSUME closed_reason[n] = UNSET, Waiting(n)'
                 PROVE  FALSE
      OBVIOUS
    <2>1. id'[n] = portal_notification_count + 1
      BY <1>2, <1>3
    <2>2. signal.id <= portal_notification_count
          /\ \A k \in 1 .. Len(queue) :
                 queue[k].id <= portal_notification_count
      BY DEF ScreenInv, Counted
    <2>3. \A k \in 1 .. Len(queue) : queue[k].id # portal_notification_count + 1
      <3> SUFFICES ASSUME NEW k \in 1 .. Len(queue),
                          queue[k].id = portal_notification_count + 1
                   PROVE  FALSE
        OBVIOUS
      <3>1. queue[k].id <= portal_notification_count
        BY <2>2
      <3> QED BY <1>3, <3>1
    <2>4. signal.id # portal_notification_count + 1
      BY <1>3, <2>2
    <2> QED BY <1>1, <2>1, <2>3, <2>4 DEF Waiting
  <1>11. Leaving'
    <2> SUFFICES ASSUME NEW m \in Notifs,
                        \/ ClosedFrame(m) \in Running
                        \/ /\ closed_reason[m] = UNSET
                           /\ \/ ActionFrame(m) \in Running
                              \/ id'[m] # 0 /\ ref[m] # "gone" /\ Waiting(m)'
                 PROVE  ~ OnScreen(m)'
      BY <1>1 DEF Leaving
    <2>1. m # n
      BY <1>9, <1>10
    <2>2. Waiting(m)' => Waiting(m)
      BY <1>1, <1>3, <2>1 DEF Waiting
    <2> QED BY <1>3, <1>8, <2>1, <2>2 DEF ScreenInv, Leaving
  <1>12. Counted'
    <2>1. \A m \in Notifs : id'[m] <= portal_notification_count'
      BY <1>3 DEF ScreenInv, Counted
    <2>2. \A i \in Ids : displayed'[i] # None
                             => i <= portal_notification_count'
      BY <1>3, <1>4, <2>1 DEF ScreenInv, Counted, Ids
    <2>3. signal.id \in Nat /\ \A k \in 1 .. Len(queue) : queue[k].id \in Nat
      <3>1. \A s \in Signal \cup {NoSignal} : s.id \in Nat
        BY DEF Signal, NoSignal, Ids
      <3>2. /\ signal \in Signal \cup {NoSignal}
            /\ \A k \in 1 .. Len(queue) : queue[k] \in Signal
        BY DEF TypeOK
      <3> QED BY <3>1, <3>2
    <2> QED BY <1>1, <1>3, <2>1, <2>2, <2>3 DEF ScreenInv, Counted
  <1> QED BY <1>7, <1>11, <1>12 DEF ScreenInv

(* A removal takes the object's bubble and its timer. *)
LEMMA ScreenRemoves ==
    ASSUME TypeOK, CallbackInv, ScreenInv, NEW n \in Notifs,
           NEW r \in Reasons, Ordinary, Live(n),
           Removes(n, r) \/ RemoveFails(n),
           UNCHANGED <<id, ref, queue, signal, portal_notification_count>>
    PROVE  ScreenInv' /\ ~ OnScreen(n)'
  <1>1. Removes(n, r) /\ ref[n] # "gone"
    BY LiveAreNotGone DEF RemoveFails, Ordinary
  <1>2. \A i \in Ids : displayed'[i] = IF i = id[n] THEN None ELSE displayed[i]
    BY <1>1 DEF Removes
  <1>3. ~ OnScreen(n)'
    BY <1>1, <1>2, ConstantsAssumption DEF OnScreen, ScreenInv, Reached
  <1>4. \A m \in Notifs : OnScreen(m)' => OnScreen(m)
    BY <1>2, ConstantsAssumption DEF OnScreen
  <1>5. \A m \in Notifs : m # n => portal_timeout_id'[m] = portal_timeout_id[m]
    BY <1>1 DEF Removes, TypeOK
  <1>6. Reached'
    BY <1>2, <1>3, <1>5, ConstantsAssumption DEF ScreenInv, Reached, OnScreen
  <1>7. Counted'
    BY <1>2, ConstantsAssumption DEF ScreenInv, Counted
  <1>8. \A m \in Notifs : m # n =>
            /\ ClosedFrame(m) \in Running' => ClosedFrame(m) \in Running
            /\ ActionFrame(m) \in Running' => ActionFrame(m) \in Running
            /\ closed_reason'[m] = closed_reason[m]
    <2>1. CASE Begins(n, r, stack)
      <3>1. stack \in Seq(Frame)
        BY DEF TypeOK
      <3>2. Running' = {ClosedFrame(n)} \cup Running
        BY <2>1, <3>1, PushRunning DEF Begins, Running
      <3>3. closed_reason' = [closed_reason EXCEPT ![n] = r]
        BY <2>1 DEF Begins
      <3> QED BY <3>2, <3>3 DEF TypeOK, ClosedFrame, ActionFrame
    <2>2. CASE UNCHANGED <<closed_reason, stack>>
      BY <2>2 DEF Running
    <2> QED BY <1>1, <2>1, <2>2 DEF Removes
  <1>9. Leaving'
    <2> SUFFICES ASSUME NEW m \in Notifs, m # n,
                        \/ ClosedFrame(m) \in Running'
                        \/ /\ closed_reason'[m] = UNSET
                           /\ \/ ActionFrame(m) \in Running'
                              \/ id[m] # 0 /\ ref[m] # "gone" /\ Waiting(m)'
                 PROVE  ~ OnScreen(m)'
      BY <1>3 DEF Leaving
    <2> QED BY <1>4, <1>8 DEF ScreenInv, Leaving, Waiting
  <1> QED BY <1>3, <1>6, <1>7, <1>9 DEF ScreenInv

(* "closed" of n begins on top of s, and n is not on screen. *)
LEMMA ScreenBegins ==
    ASSUME TypeOK, ScreenInv, NEW n \in Notifs, NEW r \in Reasons,
           NEW s \in Seq(Frame), Begins(n, r, s), ~ OnScreen(n),
           {s[k] : k \in 1 .. Len(s)} \subseteq Running,
           UNCHANGED <<id, ref, queue, signal, displayed,
                       portal_notification_count, portal_timeout_id>>
    PROVE  ScreenInv'
  <1>1. Running' = {ClosedFrame(n)} \cup {s[k] : k \in 1 .. Len(s)}
    BY PushRunning DEF Begins
  <1>2. \A m \in Notifs : m # n => closed_reason'[m] = closed_reason[m]
    BY DEF Begins, TypeOK
  <1>3. Leaving'
    <2> SUFFICES ASSUME NEW m \in Notifs, m # n,
                        \/ ClosedFrame(m) \in Running'
                        \/ /\ closed_reason'[m] = UNSET
                           /\ \/ ActionFrame(m) \in Running'
                              \/ id[m] # 0 /\ ref[m] # "gone" /\ Waiting(m)'
                 PROVE  ~ OnScreen(m)'
      BY DEF Leaving, OnScreen
    <2>1. ClosedFrame(m) # ClosedFrame(n) /\ ActionFrame(m) # ClosedFrame(n)
      BY DEF ClosedFrame, ActionFrame
    <2> QED BY <1>1, <1>2, <2>1 DEF ScreenInv, Leaving, OnScreen, Waiting
  <1> QED BY <1>3 DEF ScreenInv, Reached, Counted

(* A callback returns, which may be the end of its object. *)
LEMMA ScreenPops ==
    ASSUME TypeOK, ScreenInv, NEW n \in Notifs, Pops(n), stack # << >>,
           UNCHANGED <<closed_reason, queue, signal, displayed,
                       portal_notification_count>>,
           id' = id \/ (id' = [id EXCEPT ![n] = 0] /\ ~ OnScreen(n))
    PROVE  ScreenInv'
  <1>1. Running' \subseteq Running
    BY PopRunning DEF Pops
  <1>2. \A m \in Notifs :
            ref'[m] # "gone" => /\ ref[m] # "gone"
                                /\ portal_timeout_id'[m] = portal_timeout_id[m]
    BY DEF Pops, Finalizes, TypeOK
  <1>3. \A m \in Notifs : id'[m] = id[m] \/ (id'[m] = 0 /\ ~ OnScreen(m))
    BY DEF TypeOK
  <1>4. Reached'
    BY <1>2, <1>3 DEF ScreenInv, Reached, OnScreen
  <1>5. Leaving'
    BY <1>1, <1>2, <1>3 DEF ScreenInv, Leaving, OnScreen, Waiting
  <1>6. Counted'
    BY <1>3 DEF ScreenInv, Counted, TypeOK
  <1> QED BY <1>4, <1>5, <1>6 DEF ScreenInv

(* The user takes a bubble off the screen; the signal that tells of it is  *)
(* of the only id its object has.                                          *)
LEMMA ScreenVanishes ==
    ASSUME TypeOK, ScreenInv, NEW i \in Ids, Vanishes(i),
           \/ UNCHANGED queue
           \/ \E k \in Keys :
                  queue' = Append(queue, [id |-> i, key |-> k,
                                          of |-> displayed[i]])
    PROVE  ScreenInv'
  <1>1. /\ displayed[i] # None /\ displayed' = [displayed EXCEPT ![i] = None]
        /\ UNCHANGED <<id, closed_reason, portal_timeout_id, ref, signal,
                       stack, Running, portal_notification_count>>
    BY DEF Vanishes, notifyVars, lifeVars, countVars, Running
  <1>2. \A j \in Ids : displayed'[j] = IF j = i THEN None ELSE displayed[j]
    BY <1>1 DEF TypeOK
  <1>3. \A k \in 1 .. Len(queue') :
            \/ queue'[k].id = i
            \/ k \in 1 .. Len(queue) /\ queue'[k].id = queue[k].id
    <2>1. CASE UNCHANGED queue
      BY <2>1
    <2>2. ASSUME NEW k \in Keys,
                 queue' = Append(queue, [id |-> i, key |-> k,
                                         of |-> displayed[i]])
          PROVE  \A j \in 1 .. Len(queue') :
                     \/ queue'[j].id = i
                     \/ j \in 1 .. Len(queue) /\ queue'[j].id = queue[j].id
      <3> DEFINE s == [id |-> i, key |-> k, of |-> displayed[i]]
      <3>1. s.id = i /\ s \in Signal
        BY <1>1 DEF Signal, TypeOK
      <3>2. queue' = Append(queue, s) /\ queue \in Seq(Signal)
        BY <2>2 DEF TypeOK
      <3> HIDE DEF s
      <3> QED BY <3>1, <3>2
    <2> QED BY <2>1, <2>2
  <1>4. Reached'
    BY <1>1, <1>2, ConstantsAssumption DEF ScreenInv, Reached
  <1>5. \A m \in Notifs : OnScreen(m)' => OnScreen(m)
    BY <1>2, ConstantsAssumption DEF OnScreen
  <1>6. \A m \in Notifs : id[m] = i /\ ref[m] # "gone" => ~ OnScreen(m)'
    BY <1>1, <1>2, <1>4, ConstantsAssumption DEF Reached, OnScreen
  <1>7. Leaving'
    <2> SUFFICES ASSUME NEW m \in Notifs,
                        \/ ClosedFrame(m) \in Running
                        \/ /\ closed_reason[m] = UNSET
                           /\ \/ ActionFrame(m) \in Running
                              \/ id[m] # 0 /\ ref[m] # "gone" /\ Waiting(m)'
                 PROVE  ~ OnScreen(m)'
      BY <1>1 DEF Leaving
    <2>1. Waiting(m)' => Waiting(m) \/ id[m] = i
      BY <1>1, <1>3 DEF Waiting
    <2> QED BY <1>5, <1>6, <2>1 DEF ScreenInv, Leaving
  <1>8. Counted'
    <2>1. i <= portal_notification_count
      BY <1>1 DEF ScreenInv, Counted
    <2> QED BY <1>1, <1>2, <1>3, <2>1 DEF ScreenInv, Counted
  <1> QED BY <1>4, <1>7, <1>8 DEF ScreenInv

LEMMA ScreenNext ==
    TypeOK /\ CallbackInv /\ ScreenInv /\ Ordinary /\ [Next]_vars => ScreenInv'
  <1> SUFFICES ASSUME TypeOK, CallbackInv, ScreenInv, Ordinary, [Next]_vars
               PROVE  ScreenInv'
    OBVIOUS
  <1>0. API_REQUEST \in Reasons /\ EXPIRED \in Reasons /\ DISMISSED \in Reasons
    BY DEF Reasons
  <1>00. /\ stack \in Seq(Frame)
         /\ Running = {stack[k] : k \in 1 .. Len(stack)}
    BY DEF TypeOK, Running
  <1>1. ASSUME NEW n \in Notifs, New(n) PROVE ScreenInv'
    <2>1. \A m \in Notifs : ref'[m] # "gone" => ref[m] # "gone"
      BY <1>1 DEF New, TypeOK
    <2> QED BY <1>1, <2>1, ScreenQuiet DEF New, notifyVars, countVars,
                                           portalVars
  <1>2. ASSUME NEW n \in Notifs,
               ClearActions(n) \/ \E k \in Keys : AddAction(n, k)
        PROVE  ScreenInv'
    BY <1>2, ScreenQuiet
    DEF ClearActions, AddAction, SetActions, lifeVars, countVars, portalVars
  <1>3. ASSUME NEW n \in Notifs, ShowSucceeds(n) PROVE ScreenInv'
    BY <1>3, ScreenShow
  <1>4. ASSUME NEW n \in Notifs, ShowRefused(n) \/ ShowFails(n)
        PROVE  ScreenInv'
    BY <1>4 DEF ShowRefused, ShowFails, Ordinary
  <1>5. ASSUME NEW n \in Notifs, Close(n) PROVE ScreenInv'
    BY <1>0, <1>5, ScreenRemoves DEF Close, Callable, lifeVars, countVars
  <1>6. ASSUME NEW n \in Notifs, Unref(n) PROVE ScreenInv'
    <2>1. /\ \A m \in Notifs :
                 ref'[m] # "gone" =>
                     /\ ref[m] # "gone"
                     /\ portal_timeout_id'[m] = portal_timeout_id[m]
          /\ UNCHANGED <<id, closed_reason, queue, signal, displayed, stack,
                         portal_notification_count>>
      BY <1>6 DEF Unref, Finalizes, TypeOK, countVars, portalVars
    <2> QED BY <2>1 DEF ScreenInv, Reached, Leaving, Counted, OnScreen,
                        Waiting, Running
  <1>7. CASE Dispatch
    <2>1. /\ queue # << >> /\ signal' = Head(queue) /\ queue' = Tail(queue)
          /\ UNCHANGED <<id, closed_reason, portal_timeout_id, ref, displayed,
                         stack, Running, portal_notification_count>>
      BY <1>7 DEF Dispatch, notifyVars, lifeVars, countVars, portalVars,
                  Running
    <2>2. queue \in Seq(Signal)
      BY DEF TypeOK
    <2>3. /\ signal' = queue[1] /\ 1 \in 1 .. Len(queue)
          /\ \A k \in 1 .. Len(queue') :
                 queue'[k] = queue[k + 1] /\ k + 1 \in 1 .. Len(queue)
      BY <2>1, <2>2
    <2>4. \A m \in Notifs : Waiting(m)' => Waiting(m)
      BY <2>1, <2>3 DEF Waiting
    <2> QED BY <2>1, <2>3, <2>4
            DEF ScreenInv, Reached, Leaving, Counted, OnScreen
  <1>8. CASE EndEmission
    <2>1. /\ signal' = NoSignal
          /\ UNCHANGED <<id, closed_reason, portal_timeout_id, ref, displayed,
                         queue, stack, Running, portal_notification_count>>
      BY <1>8 DEF EndEmission, notifyVars, lifeVars, countVars, portalVars,
                  Running
    <2>2. signal'.id = 0 /\ 0 <= portal_notification_count
      BY <2>1, ConstantsAssumption DEF NoSignal, TypeOK
    <2>3. \A m \in Notifs : id[m] # 0 /\ Waiting(m)' => Waiting(m)
      BY <2>1, <2>2 DEF Waiting
    <2> QED BY <2>1, <2>2, <2>3
            DEF ScreenInv, Reached, Leaving, Counted, OnScreen
  <1>9. ASSUME NEW n \in Notifs, Visit(n)
        PROVE  /\ UNCHANGED <<id, ref, queue, signal, displayed,
                              portal_notification_count, portal_timeout_id>>
               /\ stack = << >> /\ Running = {}
               /\ signal.id = id[n] /\ closed_reason[n] = UNSET
                      => ~ OnScreen(n)
    <2>1. signal \in Signal /\ ref[n] # "gone"
      BY <1>9, LiveAreNotGone DEF Visit, TypeOK, CallbackInv
    <2>2. signal.id # 0
      BY <2>1 DEF Signal, Ids
    <2>3. Len(stack) = 0
      BY <1>9 DEF Visit
    <2> QED BY <1>9, <2>1, <2>2, <2>3
            DEF Visit, lifeVars, countVars, portalVars, Running, ScreenInv,
                Leaving, Waiting
  <1>10. ASSUME NEW n \in Notifs, Ignore(n) PROVE ScreenInv'
    BY <1>9, <1>10, ScreenQuiet DEF Ignore
  <1>11. ASSUME NEW n \in Notifs, ActivateBegins(n) PROVE ScreenInv'
    <2>1. /\ Visit(n) /\ stack' = <<ActionFrame(n)>> /\ signal.id = id[n]
          /\ UNCHANGED closed_reason
      BY <1>11 DEF ActivateBegins
    <2>2. Running' = {ActionFrame(n)}
      <3>1. Len(stack') = 1 /\ stack'[1] = ActionFrame(n)
        BY <2>1
      <3> QED BY <3>1 DEF Running
    <2>3. \A m \in Notifs : /\ ClosedFrame(m) # ActionFrame(n)
                            /\ ActionFrame(m) = ActionFrame(n) => m = n
      BY DEF ClosedFrame, ActionFrame
    <2> QED BY <1>9, <2>1, <2>2, <2>3
            DEF ScreenInv, Reached, Leaving, Counted, OnScreen, Waiting
  <1>12. ASSUME NEW n \in Notifs, UnknownAction(n) PROVE ScreenInv'
    <2>1. Visit(n) /\ signal.id = id[n]
      BY <1>12 DEF UnknownAction
    <2>2. CASE Begins(n, DISMISSED, stack)
      <3>1. ~ OnScreen(n)
        BY <1>9, <2>1, <2>2 DEF Begins
      <3> QED BY <1>0, <1>00, <1>9, <2>1, <2>2, <3>1, ScreenBegins
    <2>3. CASE UNCHANGED <<closed_reason, stack>>
      BY <1>9, <2>1, <2>3, ScreenQuiet
    <2> QED BY <1>12, <2>2, <2>3 DEF UnknownAction
  <1>13. ASSUME NEW n \in Notifs, ActivateEnds(n) PROVE ScreenInv'
    <2>1. /\ stack # << >> /\ stack[1] = ActionFrame(n)
          /\ UNCHANGED <<id, queue, signal, displayed,
                         portal_notification_count>>
      BY <1>13, TopIsHead, FrameKinds
      DEF ActivateEnds, countVars, portalVars
    <2>2. CASE /\ Begins(n, DISMISSED, Tail(stack))
               /\ UNCHANGED <<lifeVars, todo, portal_timeout_id>>
      <3> DEFINE s == Tail(stack)
      <3>1. /\ s \in Seq(Frame) /\ Len(stack) \in Nat \ {0}
            /\ \A k \in 1 .. Len(s) : s[k] = stack[k + 1]
                                      /\ k + 1 \in 1 .. Len(stack)
        BY <1>00, <2>1, Pop
      <3>2. Begins(n, DISMISSED, s)
        BY <2>2
      <3> HIDE DEF s
      <3>3. {s[k] : k \in 1 .. Len(s)} \subseteq Running
        BY <3>1 DEF Running
      <3>4. ActionFrame(n) \in Running
        <4>1. 1 \in 1 .. Len(stack)
          BY <3>1
        <4> QED BY <2>1, <4>1 DEF Running
      <3>5. ~ OnScreen(n)
        BY <3>2, <3>4 DEF Begins, ScreenInv, Leaving
      <3> QED BY <1>0, <2>1, <2>2, <3>1, <3>2, <3>3, <3>5, ScreenBegins
              DEF lifeVars
    <2>3. CASE Pops(n) /\ UNCHANGED closed_reason
      BY <2>1, <2>3, ScreenPops
    <2> QED BY <1>13, <2>2, <2>3 DEF ActivateEnds
  <1>14. ASSUME NEW n \in Notifs, CloseEnds(n) PROVE ScreenInv'
    <2>1. /\ stack # << >> /\ stack[1] = ClosedFrame(n) /\ Pops(n)
          /\ UNCHANGED <<closed_reason, queue, signal, displayed,
                         portal_notification_count>>
          /\ id' = [id EXCEPT ![n] = 0]
      BY <1>14, TopIsHead, FrameKinds DEF CloseEnds, countVars, portalVars
    <2>2. Len(stack) \in Nat \ {0}
      BY <1>00, <2>1, Pop
    <2>3. ClosedFrame(n) \in Running
      BY <2>1, <2>2 DEF Running
    <2>4. ~ OnScreen(n)
      BY <2>3 DEF ScreenInv, Leaving
    <2> QED BY <2>1, <2>4, ScreenPops
  <1>15. ASSUME NEW n \in Notifs, TimeoutFires(n) PROVE ScreenInv'
    <2>1. Live(n)
      BY <1>15 DEF TimeoutFires, CallbackInv, CallbacksOnLiveObjects
    <2> QED BY <1>0, <1>15, <2>1, ScreenRemoves
            DEF TimeoutFires, lifeVars, countVars
  <1>16. ASSUME NEW i \in Ids, NEW k \in Keys, UserActivates(i, k)
         PROVE  ScreenInv'
    BY <1>16, ScreenVanishes DEF UserActivates
  <1>17. ASSUME NEW i \in Ids, UserDismisses(i) PROVE ScreenInv'
    BY <1>17, ScreenVanishes DEF UserDismisses
  <1>18. CASE UNCHANGED vars
    BY <1>18, ScreenQuiet DEF vars, notifyVars, lifeVars, countVars, portalVars
  <1> QED
    BY <1>1, <1>2, <1>3, <1>4, <1>5, <1>6, <1>7, <1>8, <1>10, <1>11, <1>12,
       <1>13, <1>14, <1>15, <1>16, <1>17, <1>18
    DEF Next, MainLoop, Handler, User, App

OrdinaryInv == Ordinary => ScreenInv

LEMMA OrdinaryInvariant == Spec => []OrdinaryInv
  <1>1. Init => OrdinaryInv
    BY ScreenInit DEF OrdinaryInv
  <1>2. TypeOK /\ CallbackInv /\ OrdinaryInv /\ [Next]_vars => OrdinaryInv'
    BY ScreenNext, EnvironmentStays DEF OrdinaryInv, Ordinary
  <1> QED BY <1>1, <1>2, TypeCorrect, CallbackInvariant, PTL DEF Spec

(* In ordinary surroundings, what is on screen is shown under the id its   *)
(* object has, so that a close or a show reaches it, ...                   *)
THEOREM ScreenIsReachable == Spec => []DisplayedIsReachable
  <1>1. CallbackInv /\ OrdinaryInv => DisplayedIsReachable
    BY DEF OrdinaryInv, ScreenInv, Reached, DisplayedIsReachable, Live
  <1> QED BY <1>1, CallbackInvariant, OrdinaryInvariant, PTL

(* ... its timer is armed if it has a timeout, although callbacks nest and *)
(* objects are shown again, ...                                            *)
THEOREM TimersAreArmed == Spec => []ExpiryIsScheduled
  <1>1. CallbackInv /\ OrdinaryInv /\ TypeOK => ExpiryIsScheduled
    BY ConstantsAssumption
    DEF OrdinaryInv, ScreenInv, Reached, ExpiryIsScheduled, OnScreen, Live
  <1> QED BY <1>1, CallbackInvariant, OrdinaryInvariant, TypeCorrect, PTL

(* ... "closed" is emitted only of what has left the screen, ...           *)
THEOREM ClosedIsNeverStale == Spec => []ClosedIsTrue
  <1>1. TypeOK /\ OrdinaryInv => ClosedIsTrue
    <2> SUFFICES ASSUME TypeOK, OrdinaryInv, Ordinary, NEW n \in Notifs,
                        Top = ClosedFrame(n)
                 PROVE  ~ OnScreen(n)
      BY DEF ClosedIsTrue
    <2>1. stack # << >> /\ stack[1] = ClosedFrame(n)
      BY TopIsHead, FrameKinds
    <2>2. Len(stack) \in Nat \ {0}
      BY <2>1, Pop DEF TypeOK
    <2>3. ClosedFrame(n) \in Running
      BY <2>1, <2>2 DEF Running
    <2> QED BY <2>3 DEF OrdinaryInv, ScreenInv, Leaving
  <1> QED BY <1>1, TypeCorrect, OrdinaryInvariant, PTL

(* ... and a close that succeeds hides everything the object shows.        *)
THEOREM CloseAlwaysHides == Spec => CloseHides
  <1>1. TypeOK /\ CallbackInv /\ OrdinaryInv /\ [Next]_vars
            => [Ordinary => \A n \in Notifs :
                    Close(n) /\ ~ RemoveFails(n) => ~ OnScreen(n)']_vars
    <2> SUFFICES ASSUME TypeOK, CallbackInv, ScreenInv, Ordinary,
                        NEW n \in Notifs, Close(n)
                 PROVE  ~ OnScreen(n)'
      BY DEF OrdinaryInv
    <2>1. API_REQUEST \in Reasons
      BY DEF Reasons
    <2> QED BY <2>1, ScreenRemoves DEF Close, Callable, lifeVars, countVars
  <1> QED BY <1>1, TypeCorrect, CallbackInvariant, OrdinaryInvariant, PTL
          DEF Spec, CloseHides

-----------------------------------------------------------------------------
(***************************************************************************)
(* Whose the numbers are, in every environment.                            *)
(***************************************************************************)
Pending == {queue[k] : k \in 1 .. Len(queue)} \cup ({signal} \ {NoSignal})

OwnInv ==
    /\ \A n \in Notifs : id[n] <= portal_notification_count
    /\ \A n, m \in Notifs : id[n] = id[m] /\ id[n] # 0 => n = m
    /\ \A i \in Ids : displayed[i] # None =>
           /\ i <= portal_notification_count
           /\ \A n \in Notifs : id[n] = i => displayed[i] = n
    /\ \A s \in Pending :
           /\ s.id <= portal_notification_count
           /\ \A n \in Notifs : id[n] = s.id => n = s.of

LEMMA OwnInit == Init => OwnInv
  <1> SUFFICES ASSUME Init PROVE OwnInv
    OBVIOUS
  <1>1. /\ \A n \in Notifs : id[n] = 0
        /\ portal_notification_count = 0
        /\ \A i \in Ids : displayed[i] = None
        /\ queue = << >> /\ signal = NoSignal
    BY DEF Init
  <1>2. Pending = {}
    BY <1>1 DEF Pending
  <1> QED BY <1>1, <1>2 DEF OwnInv

LEMMA PendingTypes ==
    ASSUME TypeOK
    PROVE  /\ Ids \subseteq Nat \ {0}
           /\ \A s \in Pending : s \in Signal /\ s.id \in Ids /\ s.id # 0
  <1>1. Ids \subseteq Nat \ {0}
    BY DEF Ids
  <1>2. /\ queue \in Seq(Signal) /\ signal \in Signal \cup {NoSignal}
        /\ \A k \in 1 .. Len(queue) : queue[k] \in Signal
    BY DEF TypeOK
  <1>3. \A s \in Pending : s \in Signal
    BY <1>2 DEF Pending
  <1> QED BY <1>1, <1>3 DEF Signal

(* A step that numbers nothing, shows nothing and reports nothing new.     *)
LEMMA OwnKeeps ==
    ASSUME TypeOK, OwnInv, UNCHANGED portal_notification_count,
           \A n \in Notifs : id'[n] \in {id[n], 0},
           \A i \in Ids : displayed'[i] \in {displayed[i], None},
           Pending' \subseteq Pending
    PROVE  OwnInv'
  <1>0. portal_notification_count \in Nat
    BY ConstantsAssumption DEF TypeOK
  <1>1. /\ Ids \subseteq Nat \ {0}
        /\ \A n \in Notifs : id'[n] <= portal_notification_count
    BY <1>0, PendingTypes DEF OwnInv
  <1>2. \A s \in Pending : s.id # 0
    BY PendingTypes
  <1>3. \A s \in Pending' : /\ s.id <= portal_notification_count
                            /\ \A n \in Notifs : id'[n] = s.id => n = s.of
    BY <1>2 DEF OwnInv
  <1>4. \A n, m \in Notifs : id'[n] = id'[m] /\ id'[n] # 0 => n = m
    BY DEF OwnInv
  <1>5. \A i \in Ids : displayed'[i] # None =>
            /\ i <= portal_notification_count
            /\ \A n \in Notifs : id'[n] = i => displayed'[i] = n
    BY <1>1 DEF OwnInv
  <1> QED BY <1>1, <1>3, <1>4, <1>5 DEF OwnInv

(* The number that a notification is shown under is its own or a new one.  *)
LEMMA OwnNumbered ==
    ASSUME TypeOK, OwnInv, NEW n \in Notifs, Numbered(n)
    PROVE  /\ \A m \in Notifs : id'[m] <= portal_notification_count'
           /\ \A m, l \in Notifs : id'[m] = id'[l] /\ id'[m] # 0 => m = l
           /\ id'[n] \in Ids
           /\ displayed[id'[n]] \in {None, n}
           /\ \A m \in Notifs \ {n} : id'[m] = id[m]
           /\ portal_notification_count <= portal_notification_count'
           /\ id'[n] # id[n] => portal_notification_count < id'[n]
           /\ portal_notification_count \in Nat
           /\ portal_notification_count' \in Nat
  <1>1. /\ id' \in [Notifs -> 0 .. MaxId] /\ id'[n] \in Ids
        /\ portal_notification_count' \in 0 .. MaxId
        /\ \A m \in Notifs : m # n => id'[m] = id[m]
        /\ id[n] # 0 => id'[n] = id[n]
        /\ id[n] = 0 => /\ id'[n] = portal_notification_count'
                        /\ id'[n] = portal_notification_count + 1
        /\ portal_notification_count' >= portal_notification_count
    BY NumberedTypes
  <1>2. /\ portal_notification_count \in Nat /\ portal_notification_count' \in Nat
        /\ id \in [Notifs -> 0 .. MaxId]
        /\ \A m \in Notifs : id[m] \in Nat /\ id[m] <= portal_notification_count
        /\ Ids \subseteq Nat
        /\ displayed \in [Ids -> Notifs \cup {None}]
    BY <1>1, ConstantsAssumption DEF TypeOK, Ids, OwnInv
  <1>3. CASE id[n] # 0
    <2>1. \A m \in Notifs : id'[m] = id[m]
      BY <1>1, <1>3
    <2>2. displayed[id'[n]] \in {None, n}
      BY <1>1, <2>1 DEF OwnInv
    <2>3. \A m, l \in Notifs : id'[m] = id'[l] /\ id'[m] # 0 => m = l
      BY <2>1 DEF OwnInv
    <2>4. \A m \in Notifs : id'[m] <= portal_notification_count'
      BY <1>1, <1>2, <2>1
    <2> QED BY <1>1, <1>2, <2>1, <2>2, <2>3, <2>4
  <1>4. CASE id[n] = 0
    <2>1. portal_notification_count < id'[n]
          /\ portal_notification_count' = id'[n]
      BY <1>1, <1>2, <1>4
    <2>2. displayed[id'[n]] = None
      BY <1>1, <1>2, <2>1 DEF OwnInv
    <2>3. \A m \in Notifs \ {n} : id'[m] # id'[n]
      BY <1>1, <1>2, <2>1
    <2>4. \A m, l \in Notifs : id'[m] = id'[l] /\ id'[m] # 0 => m = l
      <3> SUFFICES ASSUME NEW m \in Notifs, NEW l \in Notifs,
                          id'[m] = id'[l], id'[m] # 0
                   PROVE  m = l
        OBVIOUS
      <3>1. CASE m # n /\ l # n
        BY <1>1, <3>1 DEF OwnInv
      <3> QED BY <2>3, <3>1
    <2>5. \A m \in Notifs : id'[m] <= portal_notification_count'
      BY <1>1, <1>2, <2>1
    <2> QED BY <1>1, <1>2, <2>1, <2>2, <2>4, <2>5
  <1> QED BY <1>3, <1>4

LEMMA OwnShows ==
    ASSUME TypeOK, OwnInv, NEW n \in Notifs, Numbered(n),
           UNCHANGED <<queue, signal>>,
           \A i \in Ids : \/ displayed'[i] \in {displayed[i], None}
                          \/ i = id'[n] /\ displayed'[i] = n
    PROVE  OwnInv'
  <1>1. /\ \A m \in Notifs : id'[m] <= portal_notification_count'
        /\ \A m, l \in Notifs : id'[m] = id'[l] /\ id'[m] # 0 => m = l
        /\ id'[n] \in Ids
        /\ displayed[id'[n]] \in {None, n}
        /\ \A m \in Notifs \ {n} : id'[m] = id[m]
        /\ portal_notification_count <= portal_notification_count'
        /\ id'[n] # id[n] => portal_notification_count < id'[n]
        /\ portal_notification_count \in Nat
        /\ portal_notification_count' \in Nat
    BY OwnNumbered
  <1>2. Ids \subseteq Nat \ {0} /\ \A s \in Pending : s.id \in Ids
    BY PendingTypes
  <1>3. Pending' = Pending
    BY DEF Pending
  <1>4. ASSUME NEW s \in Pending
        PROVE  /\ s.id <= portal_notification_count'
               /\ \A m \in Notifs : id'[m] = s.id => m = s.of
    <2>1. s.id <= portal_notification_count /\ s.id \in Nat
      BY <1>2 DEF OwnInv
    <2>2. s.id <= portal_notification_count'
      BY <1>1, <2>1
    <2>3. ASSUME NEW m \in Notifs, id'[m] = s.id PROVE m = s.of
      <3>1. id'[m] = id[m]
        BY <1>1, <2>1, <2>3
      <3> QED BY <2>3, <3>1 DEF OwnInv
    <2> QED BY <2>2, <2>3
  <1>5. ASSUME NEW i \in Ids, displayed'[i] # None
        PROVE  /\ i <= portal_notification_count'
               /\ \A m \in Notifs : id'[m] = i => displayed'[i] = m
    <2>1. CASE i = id'[n]
      <3>1. \A m \in Notifs : id'[m] = i => m = n
        BY <1>1, <1>2, <2>1
      <3>2. displayed'[i] = n
        BY <1>1, <1>5, <2>1
      <3> QED BY <1>1, <2>1, <3>1, <3>2
    <2>2. CASE i # id'[n]
      <3>1. displayed'[i] = displayed[i] /\ displayed[i] # None
        BY <1>5, <2>2
      <3>2. i <= portal_notification_count /\ i \in Nat
        BY <1>2, <3>1 DEF OwnInv
      <3>3. i <= portal_notification_count'
        BY <1>1, <3>2
      <3>4. ASSUME NEW m \in Notifs, id'[m] = i PROVE displayed'[i] = m
        <4>1. id[m] = i
          BY <1>1, <2>2, <3>4
        <4> QED BY <3>1, <4>1 DEF OwnInv
      <3> QED BY <3>3, <3>4
    <2> QED BY <2>1, <2>2
  <1> QED BY <1>1, <1>3, <1>4, <1>5 DEF OwnInv

(* What the steps of n that do not show it do to ids and screen.           *)
LEMMA OwnHandles ==
    ASSUME TypeOK, NEW n \in Notifs,
           \/ Handler(n) \/ TimeoutFires(n) \/ New(n) \/ ClearActions(n)
           \/ Close(n) \/ Unref(n) \/ ShowRefused(n)
           \/ \E k \in Keys : AddAction(n, k)
    PROVE  /\ UNCHANGED <<portal_notification_count, queue, signal>>
           /\ \A m \in Notifs : id'[m] \in {id[m], 0}
           /\ \A i \in Ids : \/ displayed'[i] = displayed[i]
                             \/ displayed'[i] = None /\ i = id[n]
  <1>0. id \in [Notifs -> 0 .. MaxId]
    BY DEF TypeOK
  <1>1. CASE \/ New(n) \/ ClearActions(n) \/ Unref(n) \/ ShowRefused(n)
             \/ \E k \in Keys : AddAction(n, k)
    BY <1>1 DEF New, ClearActions, AddAction, SetActions, Unref, ShowRefused,
       ShowStarts, notifyVars, countVars, portalVars
  <1>2. CASE Close(n) \/ TimeoutFires(n)
    BY <1>2 DEF Close, TimeoutFires, Removes, RemoveFails, countVars, portalVars
  <1>3. CASE Ignore(n) \/ ActivateBegins(n) \/ UnknownAction(n)
    BY <1>3 DEF Ignore, ActivateBegins, UnknownAction, Visit, countVars,
       portalVars
  <1>4. CASE ActivateEnds(n) \/ CloseEnds(n)
    BY <1>0, <1>4 DEF ActivateEnds, CloseEnds, countVars, portalVars
  <1> QED BY <1>1, <1>2, <1>3, <1>4 DEF Handler

LEMMA OwnNext == TypeOK /\ OwnInv /\ [Next]_vars => OwnInv'
  <1> SUFFICES ASSUME TypeOK, OwnInv, [Next]_vars PROVE OwnInv'
    OBVIOUS
  <1>1. ASSUME NEW n \in Notifs, ShowSucceeds(n) \/ ShowFails(n) PROVE OwnInv'
    <2>1. /\ Numbered(n) /\ UNCHANGED <<queue, signal>>
          /\ \A i \in Ids : \/ displayed'[i] \in {displayed[i], None}
                            \/ i = id'[n] /\ displayed'[i] = n
      <3>1. displayed \in [Ids -> Notifs \cup {None}]
        BY DEF TypeOK
      <3> QED BY <1>1, <3>1 DEF ShowSucceeds, ShowFails, ShowStarts, portalVars
    <2> QED BY <2>1, OwnShows
  <1>2. ASSUME NEW n \in Notifs,
               \/ Handler(n) \/ TimeoutFires(n) \/ New(n) \/ ClearActions(n)
               \/ Close(n) \/ Unref(n) \/ ShowRefused(n)
               \/ \E k \in Keys : AddAction(n, k)
        PROVE  OwnInv'
    <2>1. /\ UNCHANGED <<portal_notification_count, queue, signal>>
          /\ \A m \in Notifs : id'[m] \in {id[m], 0}
          /\ \A i \in Ids : displayed'[i] \in {displayed[i], None}
      BY <1>2, OwnHandles
    <2>2. Pending' = Pending
      BY <2>1 DEF Pending
    <2> QED BY <2>1, <2>2, OwnKeeps
  <1>3. ASSUME UNCHANGED <<portal_notification_count, id, displayed>>,
               Pending' \subseteq Pending
        PROVE  OwnInv'
    BY <1>3, OwnKeeps
  <1>4. CASE Dispatch
    <2>1. /\ queue # << >> /\ signal' = Head(queue) /\ queue' = Tail(queue)
          /\ UNCHANGED <<portal_notification_count, id, displayed>>
          /\ queue \in Seq(Signal)
      BY <1>4 DEF Dispatch, notifyVars, countVars, portalVars, TypeOK
    <2>2. /\ signal' = queue[1] /\ 1 \in 1 .. Len(queue)
          /\ \A k \in 1 .. Len(queue') :
                 queue'[k] = queue[k + 1] /\ k + 1 \in 1 .. Len(queue)
      BY <2>1
    <2>3. Pending' \subseteq Pending
      BY <2>2 DEF Pending
    <2> QED BY <1>3, <2>1, <2>3
  <1>5. CASE EndEmission
    BY <1>3, <1>5 DEF EndEmission, Pending, notifyVars, countVars, portalVars
  <1>6. CASE User
    <2>1. PICK i \in Ids : \/ UserDismisses(i)
                           \/ \E k \in Keys : UserActivates(i, k)
      BY <1>6 DEF User
    <2>2. /\ displayed[i] # None
          /\ UNCHANGED <<portal_notification_count, id, signal>>
          /\ \A j \in Ids : displayed'[j] \in {displayed[j], None}
      <3>1. displayed \in [Ids -> Notifs \cup {None}]
        BY DEF TypeOK
      <3> QED BY <2>1, <3>1 DEF UserDismisses, UserActivates, Vanishes,
              notifyVars, countVars
    <2>3. CASE UserDismisses(i)
      <3>1. Pending' = Pending
        BY <2>2, <2>3 DEF UserDismisses, Pending
      <3> QED BY <2>2, <3>1, OwnKeeps
    <2>4. CASE \E k \in Keys : UserActivates(i, k)
      <3>1. PICK k \in Keys : UserActivates(i, k)
        BY <2>4
      <3> DEFINE s == [id |-> i, key |-> k, of |-> displayed[i]]
      <3>2. s.id = i /\ s.of = displayed[i] /\ s \in Signal
            /\ queue' = Append(queue, s) /\ queue \in Seq(Signal)
        BY <2>2, <3>1 DEF UserActivates, TypeOK, Signal
      <3> HIDE DEF s
      <3>3. \A g \in Pending' : g \in Pending \/ g = s
        BY <2>2, <3>2 DEF Pending
      <3>4. /\ i <= portal_notification_count
            /\ \A n \in Notifs : id[n] = i => displayed[i] = n
        BY <2>2 DEF OwnInv
      <3>5. \A g \in Pending' :
                /\ g.id <= portal_notification_count'
                /\ \A n \in Notifs : id'[n] = g.id => n = g.of
        BY <2>2, <3>2, <3>3, <3>4 DEF OwnInv
      <3>6. \A j \in Ids : displayed'[j] # None =>
                /\ j <= portal_notification_count'
                /\ \A n \in Notifs : id'[n] = j => displayed'[j] = n
        BY <2>2 DEF OwnInv
      <3> QED BY <2>2, <3>5, <3>6 DEF OwnInv
    <2> QED BY <2>1, <2>3, <2>4
  <1>7. CASE UNCHANGED vars
    BY <1>3, <1>7 DEF vars, Pending, notifyVars, countVars, portalVars
  <1> QED BY <1>1, <1>2, <1>4, <1>5, <1>6, <1>7 DEF Next, MainLoop, App

LEMMA OwnInvariant == Spec => [](TypeOK /\ OwnInv)
  BY OwnInit, OwnNext, TypeCorrect, PTL DEF Spec

(* An object that takes a signal for its own is the one whose notification *)
(* the user acted on.                                                      *)
THEOREM SignalsFindTheirOwner == Spec => []SignalsReachTheirOwner
  <1>1. OwnInv => SignalsReachTheirOwner
    BY DEF OwnInv, Pending, SignalsReachTheirOwner
  <1> QED BY <1>1, OwnInvariant, PTL

(* Nothing that is done to or by one notification takes another's bubble   *)
(* off the screen, however often they are shown and closed.                *)
THEOREM NumbersKeepThemApart == Spec => OthersStayOnScreen
  <1> DEFINE A == \A n, m \in Notifs :
                      m # n /\ OnScreen(m) /\ (App(n) \/ Handler(n) \/ TimeoutFires(n))
                          => OnScreen(m)'
  <1>1. TypeOK /\ OwnInv => A
    <2> SUFFICES ASSUME TypeOK, OwnInv, NEW n \in Notifs, NEW m \in Notifs,
                        m # n, OnScreen(m),
                        App(n) \/ Handler(n) \/ TimeoutFires(n)
                 PROVE  OnScreen(m)'
      OBVIOUS
    <2> SUFFICES ASSUME NEW i \in Ids, displayed[i] = m
                 PROVE  displayed'[i] = m
      BY DEF OnScreen
    <2>1. m # None /\ displayed \in [Ids -> Notifs \cup {None}]
          /\ id[n] # i
      BY ConstantsAssumption DEF TypeOK, OwnInv
    <2>2. CASE ShowSucceeds(n)
      <3>1. Numbered(n) /\ displayed' = [displayed EXCEPT ![id'[n]] = n]
        BY <2>2 DEF ShowSucceeds
      <3>2. displayed[id'[n]] \in {None, n}
        BY <3>1, OwnNumbered
      <3> QED BY <2>1, <3>1, <3>2
    <2>3. CASE ShowFails(n)
      BY <2>1, <2>3 DEF ShowFails, portalVars
    <2>4. CASE \/ Handler(n) \/ TimeoutFires(n) \/ New(n) \/ ClearActions(n)
               \/ Close(n) \/ Unref(n) \/ ShowRefused(n)
               \/ \E k \in Keys : AddAction(n, k)
      BY <2>1, <2>4, OwnHandles
    <2> QED BY <2>2, <2>3, <2>4 DEF App
  <1>2. TypeOK /\ OwnInv => [A]_vars
    BY <1>1
  <1>3. [][A]_vars <=> OthersStayOnScreen
    BY PTL DEF OthersStayOnScreen
  <1> QED BY <1>2, <1>3, OwnInvariant, PTL

-----------------------------------------------------------------------------
(* The portal's objects keep the promise of NotificationLife.              *)
numbers == [n \in Notifs |-> id[n] # 0]
tellings == [n \in Notifs |-> closed_reason[n] # UNSET]

LEMMA LifeInit == Init => Life!Init
  BY DEF Init, Life!Init, UNSET

LEMMA LifeQuiet ==
    ASSUME UNCHANGED <<id, closed_reason, ref, stack>>
    PROVE  UNCHANGED Life!lifeVars
  BY DEF Life!lifeVars

(* What the abstract operators say of the stack. *)
LEMMA LifeFrames ==
    /\ \A n \in Notifs : /\ Life!Live(n) <=> Live(n)
                         /\ Life!ClosedFrame(n) = ClosedFrame(n)
                         /\ Life!ActionFrame(n) = ActionFrame(n)
    /\ TypeOK => \A n \in Notifs : Life!Among(n, stack) <=> InCallback(n)
    /\ TypeOK /\ stack # << >> =>
           \A n \in Notifs :
               Life!Among(n, Tail(stack))
                   <=> \E k \in 2 .. Len(stack) : stack[k].n = n
  <1>1. \A n \in Notifs : /\ Life!Live(n) <=> Live(n)
                          /\ Life!ClosedFrame(n) = ClosedFrame(n)
                          /\ Life!ActionFrame(n) = ActionFrame(n)
    BY DEF Life!Live, Live, Life!ClosedFrame, ClosedFrame, Life!ActionFrame,
           ActionFrame
  <1>2. TypeOK => \A n \in Notifs : Life!Among(n, stack) <=> InCallback(n)
    <2> SUFFICES ASSUME TypeOK
                 PROVE  \A n \in Notifs : Life!Among(n, stack) <=> InCallback(n)
      OBVIOUS
    <2>1. DOMAIN stack = 1 .. Len(stack)
      BY DEF TypeOK
    <2> QED BY <2>1 DEF Life!Among, InCallback, Running
  <1>3. ASSUME TypeOK, stack # << >>, NEW n \in Notifs
        PROVE  Life!Among(n, Tail(stack))
                   <=> \E k \in 2 .. Len(stack) : stack[k].n = n
    <2> DEFINE s == Tail(stack)
    <2>1. /\ s \in Seq(Frame) /\ Len(s) = Len(stack) - 1
          /\ Len(stack) \in Nat \ {0}
          /\ \A k \in 1 .. Len(s) : s[k] = stack[k + 1]
                                    /\ k + 1 \in 2 .. Len(stack)
          /\ \A k \in 2 .. Len(stack) : k - 1 \in 1 .. Len(s)
                                        /\ s[k - 1] = stack[k]
      BY <1>3, Pop DEF TypeOK
    <2>2. DOMAIN s = 1 .. Len(s)
      BY <2>1
    <2> HIDE DEF s
    <2>3. (\E k \in DOMAIN s : s[k].n = n)
              <=> \E k \in 2 .. Len(stack) : stack[k].n = n
      BY <2>1, <2>2
    <2> QED BY <2>3 DEF Life!Among, s
  <1> QED BY <1>1, <1>2, <1>3

LEMMA LifeShow ==
    ASSUME TypeOK, NEW n \in Notifs, ShowStarts(n), Numbered(n) \/ id' = id
    PROVE  Life!Show(n)
  <1>1. Life!Live(n) /\ UNCHANGED <<ref, stack, closed_reason>>
    BY LifeFrames DEF ShowStarts, Callable
  <1>2. numbers' = numbers \/ numbers' = [numbers EXCEPT ![n] = TRUE]
    <2>1. CASE id' = id
      BY <2>1 DEF numbers
    <2>2. CASE Numbered(n)
      <3>1. /\ \A m \in Notifs : m # n => id'[m] = id[m]
            /\ id'[n] # 0
        BY <2>2, NumberedTypes DEF Ids
      <3> QED BY <3>1 DEF numbers
    <2> QED BY <2>1, <2>2
  <1> QED BY <1>1, <1>2 DEF Life!Show, numbers

(* close_notification () of a live object, on top of what is left of the   *)
(* stack.                                                                  *)
LEMMA LifeTells ==
    ASSUME TypeOK, NEW n \in Notifs, NEW r \in Reasons, NEW s \in Seq(Frame),
           Begins(n, r, s), Live(n), UNCHANGED <<id, ref>>
    PROVE  Life!TellsClosed(n, s)
  <1>1. /\ closed_reason[n] = UNSET /\ r # UNSET
        /\ closed_reason' = [closed_reason EXCEPT ![n] = r]
        /\ stack' = <<ClosedFrame(n)>> \o s
    BY DEF Begins, Reasons, UNSET, EXPIRED, DISMISSED, API_REQUEST
  <1>2. tellings' = [tellings EXCEPT ![n] = TRUE] /\ ~ tellings[n]
    BY <1>1 DEF tellings, TypeOK
  <1> QED BY <1>1, <1>2, LifeFrames DEF Life!TellsClosed, tellings

LEMMA LifeCloses ==
    ASSUME TypeOK, CallbackInv, NEW n \in Notifs, NEW r \in Reasons, Live(n),
           Begins(n, r, stack) \/ UNCHANGED <<closed_reason, stack>>,
           UNCHANGED <<id, ref>>
    PROVE  [Life!Closes(n)]_(Life!lifeVars)
  <1>1. CASE Begins(n, r, stack)
    <2>1. stack \in Seq(Frame)
      BY DEF TypeOK
    <2>2. \A k \in DOMAIN stack : stack[k] # ClosedFrame(n)
      <3> SUFFICES ASSUME NEW k \in 1 .. Len(stack), stack[k] = ClosedFrame(n)
                   PROVE  FALSE
        BY <2>1
      <3> QED BY <1>1, FrameKinds DEF Begins, CallbackInv, Nested
    <2>3. Life!TellsClosed(n, stack)
      BY <1>1, <2>1, LifeTells DEF Life!TellsClosed
    <2> QED BY <2>2, <2>3, LifeFrames DEF Life!Closes
  <1>2. CASE UNCHANGED <<closed_reason, stack>>
    BY <1>2, LifeQuiet
  <1> QED BY <1>1, <1>2

(* The callback at the head of the stack returns. *)
LEMMA LifeReturns ==
    ASSUME TypeOK, NEW n \in Notifs, stack # << >>, stack[1].n = n, Pops(n),
           UNCHANGED closed_reason,
           id' = IF stack[1].kind = "closed" THEN [id EXCEPT ![n] = 0] ELSE id
    PROVE  Life!Returns(n)
  <1>1. Head(stack) = stack[1] /\ stack' = Tail(stack)
    BY Pop DEF TypeOK, Pops
  <1>2. numbers' = IF Head(stack).kind = "closed"
                   THEN [numbers EXCEPT ![n] = FALSE] ELSE numbers
    BY <1>1 DEF numbers, TypeOK
  <1>3. ref' = IF ref[n] = "kept" /\ ~ Life!Among(n, Tail(stack))
               THEN [ref EXCEPT ![n] = "gone"] ELSE ref
    BY LifeFrames DEF Pops, Finalizes
  <1> QED BY <1>1, <1>2, <1>3 DEF Life!Returns, numbers

LEMMA LifeNext ==
    TypeOK /\ CallbackInv /\ [Next]_vars => [Life!Next]_(Life!lifeVars)
  <1> SUFFICES ASSUME TypeOK, CallbackInv, [Next]_vars
               PROVE  [Life!Next]_(Life!lifeVars)
    OBVIOUS
  <1>0. API_REQUEST \in Reasons /\ EXPIRED \in Reasons /\ DISMISSED \in Reasons
    BY DEF Reasons
  <1>1. ASSUME NEW n \in Notifs, New(n) PROVE Life!Create(n)
    BY <1>1 DEF New, Life!Create, notifyVars
  <1>2. ASSUME NEW n \in Notifs,
               ClearActions(n) \/ \E k \in Keys : AddAction(n, k)
        PROVE  UNCHANGED Life!lifeVars
    BY <1>2, LifeQuiet DEF ClearActions, AddAction, SetActions, lifeVars
  <1>3. ASSUME NEW n \in Notifs,
               ShowSucceeds(n) \/ ShowRefused(n) \/ ShowFails(n)
        PROVE  Life!Show(n)
    BY <1>3, LifeShow DEF ShowSucceeds, ShowRefused, ShowFails
  <1>4. ASSUME NEW n \in Notifs, Close(n)
        PROVE  [Life!Closes(n)]_(Life!lifeVars)
    BY <1>0, <1>4, LifeCloses
    DEF Close, Callable, Removes, RemoveFails, lifeVars
  <1>5. ASSUME NEW n \in Notifs, TimeoutFires(n)
        PROVE  [Life!Closes(n)]_(Life!lifeVars)
    <2>1. Live(n)
      BY <1>5 DEF TimeoutFires, CallbackInv, CallbacksOnLiveObjects
    <2> QED BY <1>0, <1>5, <2>1, LifeCloses
            DEF TimeoutFires, Removes, RemoveFails, lifeVars
  <1>6. ASSUME NEW n \in Notifs, Unref(n) PROVE Life!Release(n)
    <2>1. ref' = [ref EXCEPT ![n] = IF InCallback(n) THEN "kept" ELSE "gone"]
      BY <1>6 DEF Unref, Finalizes
    <2> QED BY <1>6, <2>1, LifeFrames DEF Unref, Life!Release
  <1>7. ASSUME NEW n \in Notifs, Visit(n)
        PROVE  Live(n) /\ UNCHANGED <<id, ref>> /\ stack = << >>
    BY <1>7 DEF Visit, lifeVars, CallbackInv, CallbacksOnLiveObjects
  <1>8. ASSUME NEW n \in Notifs, Ignore(n) PROVE UNCHANGED Life!lifeVars
    BY <1>7, <1>8, LifeQuiet DEF Ignore
  <1>9. ASSUME NEW n \in Notifs, ActivateBegins(n) PROVE Life!Activates(n)
    <2>1. /\ Visit(n) /\ signal.id = id[n] /\ stack' = <<ActionFrame(n)>>
          /\ UNCHANGED closed_reason
      BY <1>9 DEF ActivateBegins
    <2>2. signal \in Signal
      BY <2>1 DEF Visit, TypeOK, CallbackInv
    <2>3. id[n] # 0
      BY <2>1, <2>2 DEF Signal, Ids
    <2> QED BY <1>7, <2>1, <2>3, LifeFrames DEF Life!Activates
  <1>10. ASSUME NEW n \in Notifs, UnknownAction(n)
         PROVE  [Life!Closes(n)]_(Life!lifeVars)
    BY <1>0, <1>7, <1>10, LifeCloses DEF UnknownAction
  <1>11. ASSUME NEW n \in Notifs, ActivateEnds(n)
         PROVE  Life!ReturnsToClose(n) \/ Life!Returns(n)
    <2>1. /\ stack # << >> /\ stack[1] = ActionFrame(n)
          /\ Head(stack) = ActionFrame(n) /\ id' = id
          /\ ActionFrame(n).n = n /\ ActionFrame(n).kind = "action"
      BY <1>11, TopIsHead, FrameKinds DEF ActivateEnds
    <2>2. CASE /\ Begins(n, DISMISSED, Tail(stack))
               /\ UNCHANGED <<lifeVars, todo, portal_timeout_id>>
      <3>1. Tail(stack) \in Seq(Frame) /\ Len(stack) \in Nat \ {0}
        BY <2>1, Pop DEF TypeOK
      <3>2. Live(n)
        <4>1. ActionFrame(n) \in Running
          BY <2>1, <3>1 DEF Running
        <4> QED BY <2>1, <4>1 DEF CallbackInv, CallbacksOnLiveObjects
      <3>3. Life!TellsClosed(n, Tail(stack))
        BY <1>0, <2>1, <2>2, <3>1, <3>2, LifeTells
        DEF Life!TellsClosed, lifeVars
      <3> QED BY <2>1, <3>3, LifeFrames DEF Life!ReturnsToClose
    <2>3. CASE Pops(n) /\ UNCHANGED closed_reason
      BY <2>1, <2>3, LifeReturns
    <2> QED BY <1>11, <2>2, <2>3 DEF ActivateEnds
  <1>12. ASSUME NEW n \in Notifs, CloseEnds(n) PROVE Life!Returns(n)
    <2>1. /\ stack # << >> /\ stack[1] = ClosedFrame(n)
          /\ ClosedFrame(n).n = n /\ ClosedFrame(n).kind = "closed"
      BY <1>12, TopIsHead, FrameKinds DEF CloseEnds
    <2> QED BY <1>12, <2>1, LifeReturns DEF CloseEnds
  <1>13. CASE Dispatch \/ EndEmission \/ User \/ UNCHANGED vars
    BY <1>13, LifeQuiet DEF Dispatch, EndEmission, User, UserDismisses,
       UserActivates, Vanishes, vars, notifyVars, lifeVars
  <1> QED
    BY <1>1, <1>2, <1>3, <1>4, <1>5, <1>6, <1>8, <1>9, <1>10, <1>11, <1>12,
       <1>13
    DEF Next, MainLoop, Handler, App, Life!Next

(* Whatever fails and however callbacks nest, the application sees a       *)
(* behaviour of NotificationLife: "closed" once at most, never inside      *)
(* another "closed" of the notification, actions only of notifications     *)
(* with an id and never in a callback, and no object gone while a callback *)
(* of it runs.                                                             *)
THEOREM ThePromiseIsKept == Spec => KeepsItsPromise
  <1>1. Init => Life!Init
    BY LifeInit
  <1>2. TypeOK /\ CallbackInv /\ [Next]_vars => [Life!Next]_(Life!lifeVars)
    BY LifeNext
  <1> QED BY <1>1, <1>2, TypeCorrect, CallbackInvariant, PTL
          DEF Spec, Life!Spec, KeepsItsPromise

(* Hence, of a portal's notifications, an action's callback is never run   *)
(* inside another callback, whosever it is, and whatever NotificationLife  *)
(* ensures of callbacks.                                                   *)
LifeFacts == INSTANCE NotificationLife_proofs WITH
                 numbered <- [n \in Notifs |-> id[n] # 0],
                 told <- [n \in Notifs |-> closed_reason[n] # UNSET],
                 callbacks <- stack

THEOREM CallbacksAreAsPromised == Spec => []Life!CallbacksAreSafe
  <1>1. Life!Init => LifeFacts!Init
    BY DEF Life!Init, LifeFacts!Init
  <1>2. [Life!Next]_Life!lifeVars => [LifeFacts!Next]_LifeFacts!lifeVars
    BY DEF Life!Next, LifeFacts!Next, Life!lifeVars, LifeFacts!lifeVars,
           Life!Create, LifeFacts!Create, Life!Show, LifeFacts!Show,
           Life!Closes, LifeFacts!Closes, Life!Activates, LifeFacts!Activates,
           Life!Returns, LifeFacts!Returns, Life!ReturnsToClose,
           LifeFacts!ReturnsToClose, Life!Release, LifeFacts!Release,
           Life!TellsClosed, LifeFacts!TellsClosed, Life!Live, LifeFacts!Live,
           Life!Among, LifeFacts!Among, Life!ClosedFrame,
           LifeFacts!ClosedFrame, Life!ActionFrame, LifeFacts!ActionFrame
  <1>3. LifeFacts!CallbacksAreSafe => Life!CallbacksAreSafe
    BY DEF Life!CallbacksAreSafe, LifeFacts!CallbacksAreSafe, Life!Live,
           LifeFacts!Live, Life!Among, LifeFacts!Among
  <1> QED BY <1>1, <1>2, <1>3, ThePromiseIsKept, LifeFacts!ThePromiseIsSafe,
             PTL DEF KeepsItsPromise, Life!Spec, LifeFacts!Spec
=============================================================================

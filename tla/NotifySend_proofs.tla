-------------------------- MODULE NotifySend_proofs --------------------------
(* Theorems about NotifySend, for any number of runs of the program, any   *)
(* command lines and any number of ids.                                    *)
EXTENDS NotifySend, TLAPS

Signals == Closed \cup Invoked

(***************************************************************************)
(* Types.  The environment does not change, and the server's signals are   *)
(* appended to the queues of those that hear them.                         *)
(***************************************************************************)
LEMMA GivenStays == [Next]_vars => UNCHANGED given
  BY DEF Next, Program, Server, ReadsOptions, Shows, DoesNotShow, Exits,
         EntersLoop, DoesNotWait, TakesOther, TakesClosed, TakesAction, Takes,
         on_wait_timeout, on_portal_timeout, on_sigint, LeavesLoop, Disappears,
         Activates, sendVars, vars

LEMMA AppendsSignals ==
    ASSUME NEW s \in Seq(Signals), NEW t \in Seq(Signals)
    PROVE  /\ s \o t \in Seq(Signals)
           /\ \A k \in 1 .. Len(s \o t) :
                 \/ k \in 1 .. Len(s) /\ (s \o t)[k] = s[k]
                 \/ \E j \in 1 .. Len(t) : (s \o t)[k] = t[j]
  <1>1. /\ s \o t \in Seq(Signals) /\ Len(s \o t) = Len(s) + Len(t)
        /\ Len(s) \in Nat /\ Len(t) \in Nat
    OBVIOUS
  <1>2. ASSUME NEW k \in 1 .. Len(s \o t), k \notin 1 .. Len(s)
        PROVE  k - Len(s) \in 1 .. Len(t) /\ (s \o t)[k] = t[k - Len(s)]
    BY <1>1, <1>2
  <1> QED BY <1>1, <1>2

LEMMA AppendsSignal ==
    ASSUME NEW s \in Seq(Signals), NEW g \in Signals
    PROVE  /\ Append(s, g) \in Seq(Signals) /\ Append(s, g) # << >>
           /\ \A k \in 1 .. Len(Append(s, g)) :
                 \/ k \in 1 .. Len(s) /\ Append(s, g)[k] = s[k]
                 \/ Append(s, g)[k] = g
  OBVIOUS

LEMMA TailSignals ==
    ASSUME NEW s \in Seq(Signals), s # << >>
    PROVE  /\ Tail(s) \in Seq(Signals) /\ Head(s) \in Signals
           /\ 1 \in 1 .. Len(s) /\ Head(s) = s[1]
           /\ \A k \in 1 .. Len(Tail(s)) :
                 k + 1 \in 1 .. Len(s) /\ Tail(s)[k] = s[k + 1]
  OBVIOUS

LEMMA SignalTypes ==
    ASSUME NEW i \in Ids
    PROVE  /\ [kind |-> "NotificationClosed", id |-> i] \in Signals
           /\ [kind |-> "ActionInvoked", id |-> i] \in Signals
  BY DEF Signals, Closed, Invoked

(* The signals of a queue come from an old one or are among the new ones.  *)
OnlyGets(s, t, new) ==
    \A k \in 1 .. Len(t) : \/ \E j \in 1 .. Len(s) : t[k] = s[j]
                           \/ t[k] \in new

LEMMA BroadcastQueue ==
    ASSUME TypeOK, NEW new \in Seq(Signals), Broadcast(new)
    PROVE  /\ queue' \in [Procs -> Seq(Signals)]
           /\ \A p \in Procs :
                 /\ pc[p] \in {"start", "exited"} => queue'[p] = queue[p]
                 /\ OnlyGets(queue[p], queue'[p],
                             {new[k] : k \in 1 .. Len(new)})
  <1>1. queue \in [Procs -> Seq(Signals)]
    BY DEF TypeOK, Signals
  <1>2. queue' = [p \in Procs |->
                     IF p \in Hearing THEN queue[p] \o new ELSE queue[p]]
    BY DEF Broadcast
  <1>3. ASSUME NEW p \in Procs
        PROVE  /\ queue'[p] \in Seq(Signals)
               /\ pc[p] \in {"start", "exited"} => queue'[p] = queue[p]
               /\ OnlyGets(queue[p], queue'[p],
                           {new[k] : k \in 1 .. Len(new)})
    <2>1. CASE p \notin Hearing
      <3>1. queue'[p] = queue[p]
        BY <1>2, <2>1
      <3> QED BY <1>1, <3>1 DEF OnlyGets
    <2>2. CASE p \in Hearing
      <3>1. queue'[p] = queue[p] \o new /\ queue[p] \in Seq(Signals)
        BY <1>1, <1>2, <2>2
      <3>2. /\ queue'[p] \in Seq(Signals)
            /\ \A k \in 1 .. Len(queue'[p]) :
                  \/ k \in 1 .. Len(queue[p]) /\ queue'[p][k] = queue[p][k]
                  \/ \E j \in 1 .. Len(new) : queue'[p][k] = new[j]
        BY <3>1, AppendsSignals
      <3>3. OnlyGets(queue[p], queue'[p], {new[k] : k \in 1 .. Len(new)})
        BY <3>2 DEF OnlyGets
      <3> QED BY <2>2, <3>2, <3>3 DEF Hearing
    <2> QED BY <2>1, <2>2
  <1>4. queue' \in [Procs -> Seq(Signals)]
    BY <1>2, <1>3
  <1> QED BY <1>3, <1>4

LEMMA HidesQueue ==
    ASSUME TypeOK, NEW i \in Ids, NEW before \in Seq(Signals), Hides(i, before)
    PROVE  /\ queue' \in [Procs -> Seq(Signals)]
           /\ displayed' = [displayed EXCEPT ![i] = None]
           /\ displayed' \in [Ids -> Procs \cup {None}]
           /\ displayed'[i] = None
           /\ \A k \in Ids : k # i => displayed'[k] = displayed[k]
           /\ \A p \in Procs :
                 /\ pc[p] \in {"start", "exited"} => queue'[p] = queue[p]
                 /\ OnlyGets(queue[p], queue'[p],
                             {before[k] : k \in 1 .. Len(before)}
                             \cup {[kind |-> "NotificationClosed", id |-> i]})
  <1> DEFINE g == [kind |-> "NotificationClosed", id |-> i]
             a == Append(before, g)
  <1>1. a \in Seq(Signals)
        /\ \A k \in 1 .. Len(a) : \/ k \in 1 .. Len(before) /\ a[k] = before[k]
                                  \/ a[k] = g
    BY SignalTypes, AppendsSignal
  <1>3. displayed' = [displayed EXCEPT ![i] = None] /\ Broadcast(a)
    BY DEF Hides
  <1>4. /\ displayed' \in [Ids -> Procs \cup {None}] /\ displayed'[i] = None
        /\ \A k \in Ids : k # i => displayed'[k] = displayed[k]
    BY <1>3 DEF TypeOK
  <1> HIDE DEF a, g
  <1>5. \A k \in 1 .. Len(a) :
            a[k] \in {before[j] : j \in 1 .. Len(before)} \cup {g}
    BY <1>1
  <1>6. /\ queue' \in [Procs -> Seq(Signals)]
        /\ \A p \in Procs :
              /\ pc[p] \in {"start", "exited"} => queue'[p] = queue[p]
              /\ OnlyGets(queue[p], queue'[p], {a[k] : k \in 1 .. Len(a)})
    BY <1>1, <1>3, BroadcastQueue
  <1>7. \A p \in Procs :
            OnlyGets(queue[p], queue'[p],
                     {before[k] : k \in 1 .. Len(before)} \cup {g})
    BY <1>5, <1>6 DEF OnlyGets
  <1> QED BY <1>3, <1>4, <1>6, <1>7 DEF g

(* The close that is signalled when p closes its notification.             *)
ClosedBy(p) == {[kind |-> "NotificationClosed", id |-> i] :
                   i \in {j \in Ids : j = id[p] /\ displayed[j] # None}}

(* CloseNotification, asked for by p, which goes on with what is left of   *)
(* its queue.                                                              *)
LEMMA AsksQueue ==
    ASSUME TypeOK, NEW p \in Procs, NEW left \in Seq(Signals),
           OnlyGets(queue[p], left, {}), AsksToClose(p, left)
    PROVE  /\ queue' \in [Procs -> Seq(Signals)]
           /\ displayed' \in [Ids -> Procs \cup {None}]
           /\ \A q \in Procs :
                 q # p /\ pc[q] \in {"start", "exited"}
                       => queue'[q] = queue[q]
           /\ \/ /\ \A i \in Ids : displayed'[i] = IF i = id[p] THEN None
                                                   ELSE displayed[i]
                 /\ \A q \in Procs :
                       OnlyGets(queue[q], queue'[q], ClosedBy(p))
              \/ /\ "fail" \in Environment /\ UNCHANGED displayed
                 /\ \A q \in Procs : OnlyGets(queue[q], queue'[q], {})
  <1> DEFINE g == [kind |-> "NotificationClosed", id |-> id[p]]
  <1>1. /\ queue \in [Procs -> Seq(Signals)] /\ id[p] \in 0 .. MaxId
        /\ displayed \in [Ids -> Procs \cup {None}]
    BY DEF TypeOK, Signals
  <1>2. CASE /\ ~ Gone(p)
             /\ displayed' = [displayed EXCEPT ![id[p]] = None]
             /\ queue' = [q \in Procs |->
                            IF q = p THEN Append(left, g)
                            ELSE IF q \in Hearing THEN Append(queue[q], g)
                            ELSE queue[q]]
    <2>1. id[p] \in Ids /\ displayed[id[p]] # None
      BY <1>1, <1>2, ConstantsAssumption DEF Ids, Gone
    <2>2. /\ displayed' = [displayed EXCEPT ![id[p]] = None]
          /\ queue' = [q \in Procs |->
                         IF q = p THEN Append(left, g)
                         ELSE IF q \in Hearing THEN Append(queue[q], g)
                         ELSE queue[q]]
      BY <1>2
    <2>3. g \in Signals
      BY <2>1, SignalTypes
    <2> HIDE DEF g
    <2>4. ASSUME NEW q \in Procs
          PROVE  /\ queue'[q] \in Seq(Signals)
                 /\ OnlyGets(queue[q], queue'[q], {g})
                 /\ q # p /\ pc[q] \in {"start", "exited"}
                       => queue'[q] = queue[q]
      <3>1. CASE q = p
        <4>1. queue'[q] = Append(left, g)
          BY <2>2, <3>1
        <4>2. queue'[q] \in Seq(Signals)
              /\ \A k \in 1 .. Len(queue'[q]) :
                    \/ k \in 1 .. Len(left) /\ queue'[q][k] = left[k]
                    \/ queue'[q][k] = g
          BY <2>3, <4>1, AppendsSignal
        <4> QED BY <3>1, <4>2 DEF OnlyGets
      <3>2. CASE q # p /\ q \in Hearing
        <4>1. queue'[q] = Append(queue[q], g) /\ queue[q] \in Seq(Signals)
          BY <1>1, <2>2, <3>2
        <4>2. queue'[q] \in Seq(Signals)
              /\ \A k \in 1 .. Len(queue'[q]) :
                    \/ k \in 1 .. Len(queue[q]) /\ queue'[q][k] = queue[q][k]
                    \/ queue'[q][k] = g
          BY <2>3, <4>1, AppendsSignal
        <4> QED BY <3>2, <4>2 DEF OnlyGets, Hearing
      <3>3. CASE q # p /\ q \notin Hearing
        <4>1. queue'[q] = queue[q] /\ queue[q] \in Seq(Signals)
          BY <1>1, <2>2, <3>3
        <4> QED BY <4>1 DEF OnlyGets
      <3> QED BY <3>1, <3>2, <3>3
    <2>5. queue' \in [Procs -> Seq(Signals)]
      BY <2>2, <2>4
    <2>6. g \in ClosedBy(p)
      BY <2>1 DEF ClosedBy, g
    <2>7. \A q \in Procs : OnlyGets(queue[q], queue'[q], ClosedBy(p))
      BY <2>4, <2>6 DEF OnlyGets
    <2> QED BY <1>1, <2>1, <2>2, <2>4, <2>5, <2>7
  <1>3. CASE /\ Gone(p) \/ "fail" \in Environment
             /\ queue' = [queue EXCEPT ![p] = left] /\ UNCHANGED displayed
    <2>1. queue' = [queue EXCEPT ![p] = left] /\ displayed' = displayed
      BY <1>3
    <2>2. queue' \in [Procs -> Seq(Signals)] /\ queue'[p] = left
          /\ \A q \in Procs : q # p => queue'[q] = queue[q]
      BY <1>1, <2>1
    <2>3. Gone(p) => \A i \in Ids : displayed'[i] = IF i = id[p] THEN None
                                                   ELSE displayed[i]
      BY <2>1 DEF Ids, Gone
    <2>4. \A q \in Procs : /\ OnlyGets(queue[q], queue'[q], {})
                           /\ OnlyGets(queue[q], queue'[q], ClosedBy(p))
      BY <2>2 DEF OnlyGets
    <2> QED BY <1>1, <1>3, <2>1, <2>2, <2>3, <2>4
  <1> QED BY <1>2, <1>3 DEF AsksToClose

-----------------------------------------------------------------------------
LEMMA ShownAsType ==
    ASSUME TypeOK, NEW p \in Procs
    PROVE  /\ id[p] \in 0 .. MaxId /\ nextId \in Nat /\ MaxId \in Nat
           /\ ShownAs(p) \in Nat
  BY ConstantsAssumption DEF TypeOK, ShownAs

LEMMA RemovedType ==
    ASSUME TypeOK, NEW p \in Procs
    PROVE  Removed(p) \in [Ids -> Procs \cup {None}]
  BY DEF TypeOK, Removed

LEMMA ClosedTypes ==
    ASSUME TypeOK, NEW p \in Procs, IsClosed(p, "closed")
    PROVE  /\ closed' \in [Procs -> BOOLEAN] /\ id' \in [Procs -> 0 .. MaxId]
           /\ quit' \in [Procs -> BOOLEAN]
           /\ reason' \in [Procs -> {"none", "closed", "timeout", "sigint"}]
  <1>1. 0 \in 0 .. MaxId
    BY ConstantsAssumption
  <1>2. /\ closed \in [Procs -> BOOLEAN] /\ id \in [Procs -> 0 .. MaxId]
        /\ quit \in [Procs -> BOOLEAN]
        /\ reason \in [Procs -> {"none", "closed", "timeout", "sigint"}]
    BY DEF TypeOK
  <1>3. CASE UNCHANGED <<closed, id, quit, reason>>
    BY <1>2, <1>3
  <1>4. CASE /\ closed' = [closed EXCEPT ![p] = TRUE]
             /\ id' = [id EXCEPT ![p] = 0]
             /\ quit' = [quit EXCEPT ![p] = TRUE]
             /\ reason' = [reason EXCEPT ![p] =
                              IF @ = "none" THEN "closed" ELSE @]
    <2>1. closed' \in [Procs -> BOOLEAN] /\ quit' \in [Procs -> BOOLEAN]
      BY <1>2, <1>4
    <2>2. id' \in [Procs -> 0 .. MaxId]
      BY <1>1, <1>2, <1>4
    <2>3. reason' \in [Procs -> {"none", "closed", "timeout", "sigint"}]
      BY <1>2, <1>4
    <2> QED BY <2>1, <2>2, <2>3
  <1> QED BY <1>3, <1>4 DEF IsClosed, Quits

LEMMA TailType ==
    ASSUME TypeOK, NEW p \in Procs, queue[p] # << >>
    PROVE  /\ queue \in [Procs -> Seq(Signals)]
           /\ queue[p] \in Seq(Signals) /\ Tail(queue[p]) \in Seq(Signals)
           /\ [queue EXCEPT ![p] = Tail(@)] \in [Procs -> Seq(Signals)]
           /\ OnlyGets(queue[p], Tail(queue[p]), {})
  <1>1. queue \in [Procs -> Seq(Signals)] /\ queue[p] \in Seq(Signals)
    BY DEF TypeOK, Signals
  <1>2. Tail(queue[p]) \in Seq(Signals)
        /\ OnlyGets(queue[p], Tail(queue[p]), {})
    BY <1>1, TailSignals DEF OnlyGets
  <1> QED BY <1>1, <1>2

LEMMA TypeNext == TypeOK /\ [Next]_vars => TypeOK'
  <1> SUFFICES ASSUME TypeOK, [Next]_vars PROVE TypeOK'
    OBVIOUS
  <1>0. UNCHANGED given
    BY GivenStays
  <1>1. ASSUME NEW p \in Procs, ReadsOptions(p) PROVE TypeOK'
    <2>1. args[p].notification_id \in 0 .. MaxId
          /\ args[p].wait \in BOOLEAN /\ args[p].actions \in BOOLEAN
          /\ args[p].badHint \in BOOLEAN /\ args[p].capable \in BOOLEAN
      BY DEF TypeOK, CommandLine
    <2>2. /\ id' \in [Procs -> 0 .. MaxId]
          /\ failed' \in [Procs -> BOOLEAN] /\ wait' \in [Procs -> BOOLEAN]
          /\ pc' \in [Procs -> {"start", "options", "shown", "loop", "exited"}]
      BY <1>1, <2>1 DEF ReadsOptions, TypeOK, HasActions
    <2> QED BY <1>0, <1>1, <2>2
            DEF ReadsOptions, TypeOK, given, loopVars, serverVars
  <1>2. ASSUME NEW p \in Procs, Shows(p) PROVE TypeOK'
    <2>1. ShownAs(p) \in Ids /\ ShownAs(p) \in 1 .. MaxId
      BY <1>2 DEF Shows, Ids
    <2>2. nextId' \in 1 .. MaxId + 1
      BY <1>2, <2>1, ConstantsAssumption DEF Shows, TypeOK
    <2>3. /\ pc' \in [Procs -> {"start", "options", "shown", "loop", "exited"}]
          /\ id' \in [Procs -> 0 .. MaxId]
          /\ displayed' \in [Ids -> Procs \cup {None}]
          /\ connected' \in [Procs -> BOOLEAN]
      BY <1>2, <2>1, ConstantsAssumption DEF Shows, TypeOK
    <2>4. timer' \in [Procs -> BOOLEAN]
          /\ portal_timeout_id' \in [Procs -> BOOLEAN]
      <3>1. wait[p] \in BOOLEAN /\ Portal \in BOOLEAN
        BY ConstantsAssumption DEF TypeOK
      <3>2. (wait[p] /\ args[p].expire_timeout # NOTIFY_EXPIRES_NEVER)
               \in BOOLEAN
            /\ (Portal /\ args[p].expire_timeout > 0) \in BOOLEAN
        BY <3>1
      <3> QED BY <1>2, <3>2 DEF Shows, PreparesToWait, TypeOK
    <2> QED BY <1>0, <1>2, <2>2, <2>3, <2>4 DEF Shows, TypeOK, given, sendVars
  <1>3. ASSUME NEW p \in Procs, DoesNotShow(p) PROVE TypeOK'
    <2>1. /\ timer' \in [Procs -> BOOLEAN]
          /\ pc' \in [Procs -> {"start", "options", "shown", "loop", "exited"}]
      BY <1>3 DEF DoesNotShow, PreparesToWait, TypeOK
    <2>2. /\ failed' \in [Procs -> BOOLEAN]
          /\ connected' \in [Procs -> BOOLEAN]
      BY <1>3 DEF DoesNotShow, TypeOK
    <2>3. /\ id' \in [Procs -> 0 .. MaxId]
          /\ displayed' \in [Ids -> Procs \cup {None}]
      <3>1. CASE UNCHANGED <<id, displayed>>
        BY <3>1 DEF TypeOK
      <3>2. CASE /\ id' = [id EXCEPT ![p] = IF @ = 0 THEN 1 ELSE @]
                 /\ displayed' \in {displayed, Removed(p)}
        BY <3>2, RemovedType, ConstantsAssumption DEF TypeOK
      <3> QED BY <1>3, <3>1, <3>2 DEF DoesNotShow
    <2> QED BY <1>0, <1>3, <2>1, <2>2, <2>3 DEF DoesNotShow, TypeOK, given
  <1>4. ASSUME NEW p \in Procs, Exits(p) PROVE TypeOK'
    <2>1. << >> \in Seq(Closed \cup Invoked)
      OBVIOUS
    <2>2. /\ pc' \in [Procs -> {"start", "options", "shown", "loop", "exited"}]
          /\ portal_timeout_id' \in [Procs -> BOOLEAN]
          /\ timer' \in [Procs -> BOOLEAN]
          /\ queue' \in [Procs -> Seq(Closed \cup Invoked)]
      BY <1>4, <2>1 DEF Exits, TypeOK
    <2> QED BY <1>0, <1>4, <2>2 DEF Exits, TypeOK, given, sendVars, serverVars
  <1>5. ASSUME NEW p \in Procs, EntersLoop(p) PROVE TypeOK'
    BY <1>0, <1>5 DEF EntersLoop, TypeOK, given, sendVars, noteVars, loopVars,
                      serverVars
  <1>6. ASSUME NEW p \in Procs, TakesOther(p) \/ TakesClosed(p) PROVE TypeOK'
    <2>1. /\ queue[p] # << >> /\ queue' = [queue EXCEPT ![p] = Tail(@)]
          /\ UNCHANGED <<pc, sendVars, connected, timer, nextId, displayed,
                         portal_timeout_id>>
      BY <1>6 DEF TakesOther, TakesClosed, Takes
    <2>2. queue' \in [Procs -> Seq(Signals)]
      BY <2>1, TailType
    <2>3. UNCHANGED <<id, closed, quit, reason>> \/ IsClosed(p, "closed")
      BY <1>6 DEF TakesOther, TakesClosed
    <2>4. /\ closed' \in [Procs -> BOOLEAN] /\ id' \in [Procs -> 0 .. MaxId]
          /\ quit' \in [Procs -> BOOLEAN]
          /\ reason' \in [Procs -> {"none", "closed", "timeout", "sigint"}]
      BY <2>3, ClosedTypes DEF TypeOK
    <2> QED BY <1>0, <2>1, <2>2, <2>4 DEF TypeOK, Signals, given, sendVars
  <1>7. ASSUME NEW p \in Procs, TakesAction(p) PROVE TypeOK'
    <2>1. /\ queue[p] # << >>
          /\ UNCHANGED <<pc, sendVars, connected, timer, nextId>>
      BY <1>7 DEF TakesAction, Takes
    <2>2. queue' \in [Procs -> Seq(Signals)]
          /\ displayed' \in [Ids -> Procs \cup {None}]
      <3>1. CASE AsksToClose(p, Tail(queue[p]))
        BY <2>1, <3>1, TailType, AsksQueue
      <3>2. CASE /\ queue' = [queue EXCEPT ![p] = Tail(@)]
                 /\ displayed' = Removed(p) \/ UNCHANGED displayed
        BY <2>1, <3>2, TailType, RemovedType DEF TypeOK
      <3> QED BY <1>7, <3>1, <3>2 DEF TakesAction
    <2>3. /\ UNCHANGED <<id, closed, quit, reason>> \/ IsClosed(p, "closed")
          /\ \/ UNCHANGED portal_timeout_id
             \/ portal_timeout_id' = [portal_timeout_id EXCEPT ![p] = FALSE]
      BY <1>7 DEF TakesAction
    <2>4. /\ closed' \in [Procs -> BOOLEAN] /\ id' \in [Procs -> 0 .. MaxId]
          /\ quit' \in [Procs -> BOOLEAN]
          /\ reason' \in [Procs -> {"none", "closed", "timeout", "sigint"}]
          /\ portal_timeout_id' \in [Procs -> BOOLEAN]
      BY <2>3, ClosedTypes DEF TypeOK
    <2> QED BY <1>0, <2>1, <2>2, <2>4 DEF TypeOK, Signals, given, sendVars
  <1>8. ASSUME NEW p \in Procs, on_wait_timeout(p) PROVE TypeOK'
    BY <1>0, <1>8 DEF on_wait_timeout, Quits, TypeOK, given, sendVars, noteVars,
                      serverVars
  <1>9. ASSUME NEW p \in Procs, on_portal_timeout(p) PROVE TypeOK'
    <2>1. /\ portal_timeout_id' = [portal_timeout_id EXCEPT ![p] = FALSE]
          /\ \/ displayed' = Removed(p) /\ IsClosed(p, "closed")
             \/ UNCHANGED <<displayed, closed, id, quit, reason>>
          /\ UNCHANGED <<pc, sendVars, connected, timer, queue, nextId>>
      BY <1>9 DEF on_portal_timeout, Removes
    <2>2. /\ closed' \in [Procs -> BOOLEAN] /\ id' \in [Procs -> 0 .. MaxId]
          /\ quit' \in [Procs -> BOOLEAN]
          /\ reason' \in [Procs -> {"none", "closed", "timeout", "sigint"}]
          /\ displayed' \in [Ids -> Procs \cup {None}]
          /\ portal_timeout_id' \in [Procs -> BOOLEAN]
      BY <2>1, ClosedTypes, RemovedType DEF TypeOK
    <2> QED BY <1>0, <2>1, <2>2 DEF TypeOK, given, sendVars
  <1>10. ASSUME NEW p \in Procs, on_sigint(p) PROVE TypeOK'
    <2>1. /\ quit' \in [Procs -> BOOLEAN]
          /\ reason' \in [Procs -> {"none", "closed", "timeout", "sigint"}]
          /\ UNCHANGED <<pc, sendVars, connected, timer, nextId>>
      BY <1>10 DEF on_sigint, Quits, TypeOK
    <2>2. CASE Portal
      <3>1. /\ portal_timeout_id' = [portal_timeout_id EXCEPT ![p] = FALSE]
            /\ \/ /\ displayed' = Removed(p)
                  /\ closed' = [closed EXCEPT ![p] = TRUE]
                  /\ id' = [id EXCEPT ![p] = IF closed[p] THEN @ ELSE 0]
               \/ UNCHANGED <<displayed, closed, id>>
            /\ UNCHANGED queue
        BY <1>10, <2>2 DEF on_sigint
      <3>2. /\ portal_timeout_id' \in [Procs -> BOOLEAN]
            /\ displayed' \in [Ids -> Procs \cup {None}]
            /\ closed' \in [Procs -> BOOLEAN] /\ id' \in [Procs -> 0 .. MaxId]
        <4>1. 0 \in 0 .. MaxId
          BY ConstantsAssumption
        <4>2. id' \in [Procs -> 0 .. MaxId]
          BY <3>1, <4>1 DEF TypeOK
        <4>3. displayed' \in [Ids -> Procs \cup {None}]
          BY <3>1, RemovedType DEF TypeOK
        <4> QED BY <3>1, <4>2, <4>3 DEF TypeOK
      <3> QED BY <1>0, <2>1, <3>1, <3>2 DEF TypeOK, given, sendVars
    <2>3. CASE ~ Portal
      <3>1. /\ AsksToClose(p, queue[p])
            /\ UNCHANGED <<id, closed, portal_timeout_id>>
        BY <1>10, <2>3 DEF on_sigint
      <3>2. queue[p] \in Seq(Signals) /\ OnlyGets(queue[p], queue[p], {})
        BY DEF TypeOK, Signals, OnlyGets
      <3>3. queue' \in [Procs -> Seq(Signals)]
            /\ displayed' \in [Ids -> Procs \cup {None}]
        BY <3>1, <3>2, AsksQueue
      <3> QED BY <1>0, <2>1, <3>1, <3>3 DEF TypeOK, Signals, given, sendVars
    <2> QED BY <2>2, <2>3
  <1>11. ASSUME NEW i \in Ids, Disappears(i) PROVE TypeOK'
    <2>1. UNCHANGED <<pc, sendVars, noteVars, loopVars, nextId>>
      BY <1>11 DEF Disappears
    <2>2. << >> \in Seq(Signals)
      OBVIOUS
    <2>3. queue' \in [Procs -> Seq(Signals)]
          /\ displayed' \in [Ids -> Procs \cup {None}]
      <3>1. CASE displayed' = [displayed EXCEPT ![i] = None] /\ UNCHANGED queue
        BY <3>1 DEF TypeOK, Signals
      <3>2. CASE Hides(i, << >>)
        BY <2>2, <3>2, HidesQueue
      <3> QED BY <1>11, <3>1, <3>2 DEF Disappears
    <2> QED BY <1>0, <2>1, <2>3
            DEF TypeOK, Signals, given, sendVars, noteVars, loopVars
  <1>12. ASSUME NEW i \in Ids, Activates(i) PROVE TypeOK'
    <2> DEFINE g == [kind |-> "ActionInvoked", id |-> i]
    <2>1. UNCHANGED <<pc, sendVars, noteVars, loopVars, nextId>>
          /\ displayed[i] \in Procs
      BY <1>12 DEF Activates, TypeOK
    <2>2. g \in Signals /\ <<g>> \in Seq(Signals)
      <3>1. g \in Signals
        BY SignalTypes
      <3> HIDE DEF g
      <3> QED BY <3>1
    <2>3. queue' \in [Procs -> Seq(Signals)]
          /\ displayed' \in [Ids -> Procs \cup {None}]
      <3>1. CASE Portal
        <4>1. /\ displayed' = [displayed EXCEPT ![i] = None]
              /\ queue' = [queue EXCEPT ![displayed[i]] =
                              IF displayed[i] \in Hearing
                              THEN Append(@, g) ELSE @]
          BY <1>12, <3>1 DEF Activates
        <4>2. queue \in [Procs -> Seq(Signals)]
              /\ Append(queue[displayed[i]], g) \in Seq(Signals)
          BY <2>1, <2>2, AppendsSignal DEF TypeOK, Signals
        <4> HIDE DEF g
        <4> QED BY <2>1, <4>1, <4>2 DEF TypeOK
      <3>2. CASE Hides(i, <<g>>)
        BY <2>2, <3>2, HidesQueue
      <3>3. CASE Broadcast(<<g>>) /\ UNCHANGED displayed
        BY <2>2, <3>3, BroadcastQueue DEF TypeOK
      <3> QED BY <1>12, <3>1, <3>2, <3>3 DEF Activates
    <2> QED BY <1>0, <2>1, <2>3
            DEF TypeOK, Signals, given, sendVars, noteVars, loopVars
  <1>13. CASE UNCHANGED vars
    BY <1>0, <1>13 DEF TypeOK, vars, given, sendVars, noteVars, loopVars,
                       serverVars
  <1> QED BY <1>1, <1>2, <1>3, <1>4, <1>5, <1>6, <1>7, <1>8, <1>9, <1>10,
             <1>11, <1>12, <1>13
          DEF Next, Program, Server, DoesNotWait, LeavesLoop

(* Every variable keeps its type: no id is outside of those there are, and *)
(* queues hold the server's signals.                                       *)
THEOREM TypeCorrect == Spec => []TypeOK
  <1>1. Init => TypeOK
    <2> SUFFICES ASSUME Init PROVE TypeOK
      OBVIOUS
    <2>1. /\ args \in [Procs -> CommandLine]
      BY ConstantsAssumption DEF Init
    <2>2. << >> \in Seq(Closed \cup Invoked)
      OBVIOUS
    <2>3. queue \in [Procs -> Seq(Closed \cup Invoked)]
      BY <2>2 DEF Init
    <2> QED BY <2>1, <2>3, ConstantsAssumption DEF Init, TypeOK
  <1> QED BY <1>1, TypeNext, PTL DEF Spec

-----------------------------------------------------------------------------
(***************************************************************************)
(* What is on screen.  A run that was not shown while the close of what it *)
(* replaces was in its queue has, while its notification is on screen, no  *)
(* close of it there; so nothing but its timer, or a ^C whose close failed,*)
(* can have made it quit.  In the portal's case such a run has heard       *)
(* nothing at all.                                                         *)
(***************************************************************************)
IsGone(g, shown, p) ==
    g.kind = "NotificationClosed" /\ g.id \in Ids => shown[g.id] # p

DaemonInv ==
    \A p \in Procs \ crossed : \A k \in 1 .. Len(queue[p]) :
        IsGone(queue[p][k], displayed, p)

BeforeShow(p) == pc[p] \in {"start", "options"}

Unclosed(p) ==
    /\ \/ reason[p] \in {"none", "timeout"}
       \/ reason[p] = "sigint" /\ "fail" \in Environment
    /\ Portal => queue[p] = << >>

ScreenInv ==
    /\ \A p \in Procs : BeforeShow(p) => Unclosed(p) /\ p \notin crossed
    /\ \A p \in Procs \ crossed : \A i \in Ids :
           displayed[i] = p => id[p] = i /\ ~ BeforeShow(p) /\ Unclosed(p)

ExitInv ==
    \A p \in Procs : /\ quit[p] => reason[p] # "none"
                     /\ pc[p] = "exited" /\ wait[p] => quit[p]

(* A step that shows nothing keeps the daemon's part if the signals it     *)
(* sends are of closes.                                                    *)
LEMMA DaemonKeeps ==
    ASSUME DaemonInv, TypeOK, UNCHANGED crossed,
           \A i \in Ids : displayed'[i] \in {displayed[i], None},
           \A p \in Procs :
               \E new : /\ OnlyGets(queue[p], queue'[p], new)
                       /\ \A g \in new : IsGone(g, displayed', p)
    PROVE  DaemonInv'
  <1> SUFFICES ASSUME NEW p \in Procs \ crossed, NEW k \in 1 .. Len(queue'[p])
               PROVE  IsGone(queue'[p][k], displayed', p)
    BY DEF DaemonInv
  <1>1. PICK new : /\ OnlyGets(queue[p], queue'[p], new)
                   /\ \A g \in new : IsGone(g, displayed', p)
    OBVIOUS
  <1>2. CASE queue'[p][k] \in new
    BY <1>1, <1>2
  <1>3. CASE queue'[p][k] \notin new
    <2>1. PICK j \in 1 .. Len(queue[p]) : queue'[p][k] = queue[p][j]
      BY <1>1, <1>3 DEF OnlyGets
    <2>2. IsGone(queue[p][j], displayed, p)
      BY DEF DaemonInv
    <2> QED BY <2>1, <2>2, ConstantsAssumption DEF IsGone
  <1> QED BY <1>2, <1>3

LEMMA DaemonQuiet ==
    ASSUME DaemonInv, TypeOK, UNCHANGED crossed,
           \A i \in Ids : displayed'[i] \in {displayed[i], None},
           \A p \in Procs : OnlyGets(queue[p], queue'[p], {})
    PROVE  DaemonInv'
  <1>1. \A p \in Procs : \E new : /\ OnlyGets(queue[p], queue'[p], new)
                                  /\ \A g \in new : IsGone(g, displayed', p)
    <2> TAKE p \in Procs
    <2> WITNESS {}
    <2> QED OBVIOUS
  <1> QED BY <1>1, DaemonKeeps

(* A step that shows nothing keeps who is on screen, if it is quiet for    *)
(* those that are.                                                         *)
LEMMA ScreenKeeps ==
    ASSUME ScreenInv, UNCHANGED crossed,
           \A p \in Procs : BeforeShow(p)' => BeforeShow(p) /\ Unclosed(p)',
           \A p \in Procs \ crossed : \A i \in Ids : displayed'[i] = p =>
               displayed[i] = p /\ id'[p] = id[p] /\ Unclosed(p)'
    PROVE  ScreenInv'
  BY DEF ScreenInv, BeforeShow

ShowInv == TypeOK /\ DaemonInv /\ ScreenInv /\ ExitInv

LEMMA ShowInit == Init => DaemonInv /\ ScreenInv /\ ExitInv
  <1> SUFFICES ASSUME Init PROVE DaemonInv /\ ScreenInv /\ ExitInv
    OBVIOUS
  <1>1. \A p \in Procs : queue[p] = << >> /\ Len(queue[p]) = 0
    BY DEF Init
  <1>2. \A i \in Ids : displayed[i] = None
    BY DEF Init
  <1>3. \A p \in Procs : /\ pc[p] = "start" /\ reason[p] = "none"
                         /\ ~ quit[p] /\ p \notin crossed
    BY DEF Init
  <1>4. DaemonInv
    BY <1>1 DEF DaemonInv
  <1> QED BY <1>1, <1>2, <1>3, <1>4, ConstantsAssumption
          DEF ScreenInv, ExitInv, Unclosed

LEMMA ExitNext == TypeOK /\ ExitInv /\ [Next]_vars => ExitInv'
  <1> SUFFICES ASSUME TypeOK, ExitInv, [Next]_vars PROVE ExitInv'
    OBVIOUS
  <1>0. /\ quit \in [Procs -> BOOLEAN]
        /\ reason \in [Procs -> {"none", "closed", "timeout", "sigint"}]
        /\ pc \in [Procs -> {"start", "options", "shown", "loop", "exited"}]
        /\ wait \in [Procs -> BOOLEAN]
    BY DEF TypeOK
  <1>1. ASSUME NEW p \in Procs, NEW why \in {"closed", "timeout", "sigint"},
               Quits(p, why), UNCHANGED <<pc, wait>>
        PROVE  ExitInv'
    BY <1>0, <1>1 DEF Quits, ExitInv
  <1>2. CASE UNCHANGED <<pc, wait, quit, reason>>
    BY <1>2 DEF ExitInv
  <1>3. ASSUME NEW p \in Procs, pc' = [pc EXCEPT ![p] = "options"],
               \A q \in Procs : q # p => wait'[q] = wait[q],
               UNCHANGED <<quit, reason>>
        PROVE  ExitInv'
    BY <1>0, <1>3 DEF ExitInv
  <1>4. ASSUME NEW p \in Procs, NEW where \in {"shown", "loop"},
               pc' = [pc EXCEPT ![p] = where], UNCHANGED <<wait, quit, reason>>
        PROVE  ExitInv'
    BY <1>0, <1>4 DEF ExitInv
  <1>5. ASSUME NEW p \in Procs, quit[p] \/ ~ wait[p], Exits(p) PROVE ExitInv'
    BY <1>0, <1>5 DEF Exits, ExitInv, sendVars
  <1>6. ASSUME NEW p \in Procs, ReadsOptions(p) PROVE ExitInv'
    <2>1. \A q \in Procs : q # p => wait'[q] = wait[q]
      BY <1>0, <1>6 DEF ReadsOptions
    <2> QED BY <1>3, <1>6, <2>1 DEF ReadsOptions, loopVars
  <1>7. ASSUME NEW p \in Procs, Shows(p) \/ DoesNotShow(p) PROVE ExitInv'
    BY <1>4, <1>7 DEF Shows, DoesNotShow, sendVars
  <1>8. ASSUME NEW p \in Procs, EntersLoop(p) PROVE ExitInv'
    BY <1>4, <1>8 DEF EntersLoop, sendVars, loopVars
  <1>9. ASSUME NEW p \in Procs, UNCHANGED <<pc, wait>>,
               IsClosed(p, "closed") \/ UNCHANGED <<quit, reason>>
        PROVE  ExitInv'
    BY <1>1, <1>2, <1>9 DEF IsClosed
  <1>10. ASSUME NEW p \in Procs,
                TakesOther(p) \/ TakesClosed(p) \/ TakesAction(p)
         PROVE  ExitInv'
    BY <1>9, <1>10 DEF TakesOther, TakesClosed, TakesAction, Takes, sendVars
  <1>11. ASSUME NEW p \in Procs,
                on_wait_timeout(p) \/ on_portal_timeout(p) \/ on_sigint(p)
         PROVE  ExitInv'
    BY <1>1, <1>9, <1>11
    DEF on_wait_timeout, on_portal_timeout, on_sigint, Removes, sendVars
  <1>12. ASSUME NEW p \in Procs, DoesNotWait(p) \/ LeavesLoop(p) PROVE ExitInv'
    BY <1>5, <1>12 DEF DoesNotWait, LeavesLoop
  <1>13. CASE Server \/ UNCHANGED vars
    BY <1>2, <1>13 DEF Server, Disappears, Activates, vars, sendVars, loopVars
  <1> QED BY <1>6, <1>7, <1>8, <1>10, <1>11, <1>12, <1>13 DEF Next, Program

-----------------------------------------------------------------------------
LEMMA DaemonNext == ShowInv /\ [Next]_vars => DaemonInv'
  <1> SUFFICES ASSUME ShowInv, [Next]_vars PROVE DaemonInv'
    OBVIOUS
  <1>0. TypeOK /\ DaemonInv
    BY DEF ShowInv
  <1>1. /\ queue \in [Procs -> Seq(Signals)]
        /\ displayed \in [Ids -> Procs \cup {None}]
        /\ \A p \in Procs : OnlyGets(queue[p], queue[p], {})
    BY <1>0 DEF TypeOK, Signals, OnlyGets
  <1>2. CASE UNCHANGED <<queue, crossed, displayed>>
    BY <1>0, <1>1, <1>2, DaemonQuiet
  <1>3. ASSUME NEW p \in Procs, displayed' = Removed(p),
               UNCHANGED <<queue, crossed>>
        PROVE  DaemonInv'
    <2>1. \A i \in Ids : displayed'[i] \in {displayed[i], None}
      BY <1>3 DEF Removed
    <2> QED BY <1>0, <1>1, <1>3, <2>1, DaemonQuiet
  <1>4. ASSUME NEW p \in Procs, queue[p] # << >>, UNCHANGED crossed,
               queue' = [queue EXCEPT ![p] = Tail(@)],
               displayed' = Removed(p) \/ UNCHANGED displayed
        PROVE  DaemonInv'
    <2>1. \A i \in Ids : displayed'[i] \in {displayed[i], None}
      BY <1>4 DEF Removed
    <2>2. \A q \in Procs : OnlyGets(queue[q], queue'[q], {})
      BY <1>0, <1>1, <1>4, TailType
    <2> QED BY <1>0, <1>4, <2>1, <2>2, DaemonQuiet
  <1>5. ASSUME NEW p \in Procs, NEW left \in Seq(Signals), UNCHANGED crossed,
               OnlyGets(queue[p], left, {}), AsksToClose(p, left)
        PROVE  DaemonInv'
    <2>1. CASE /\ \A i \in Ids : displayed'[i] = IF i = id[p] THEN None
                                                 ELSE displayed[i]
               /\ \A q \in Procs : OnlyGets(queue[q], queue'[q], ClosedBy(p))
      <3>1. \A g \in ClosedBy(p) : \A q \in Procs : IsGone(g, displayed', q)
        BY <2>1, ConstantsAssumption DEF ClosedBy, IsGone
      <3>2. \A i \in Ids : displayed'[i] \in {displayed[i], None}
        BY <2>1
      <3> QED BY <1>0, <1>5, <2>1, <3>1, <3>2, DaemonKeeps
    <2>2. CASE /\ UNCHANGED displayed
               /\ \A q \in Procs : OnlyGets(queue[q], queue'[q], {})
      BY <1>0, <1>5, <2>2, DaemonQuiet
    <2> QED BY <1>0, <1>5, <2>1, <2>2, AsksQueue
  <1>6. ASSUME NEW i \in Ids, NEW before \in Seq(Signals), UNCHANGED crossed,
               \A k \in 1 .. Len(before) : before[k].kind = "ActionInvoked",
               displayed[i] # None, Hides(i, before)
        PROVE  DaemonInv'
    <2> DEFINE new == {before[k] : k \in 1 .. Len(before)}
                      \cup {[kind |-> "NotificationClosed", id |-> i]}
    <2>1. /\ displayed'[i] = None
          /\ \A k \in Ids : k # i => displayed'[k] = displayed[k]
          /\ \A p \in Procs : OnlyGets(queue[p], queue'[p], new)
      BY <1>0, <1>6, HidesQueue
    <2>2. \A g \in new : \A p \in Procs : IsGone(g, displayed', p)
      BY <1>6, <2>1, ConstantsAssumption DEF IsGone
    <2>3. \A k \in Ids : displayed'[k] \in {displayed[k], None}
      BY <2>1
    <2> HIDE DEF new
    <2> QED BY <1>0, <1>6, <2>1, <2>2, <2>3, DaemonKeeps
  <1>7. ASSUME NEW p \in Procs, Shows(p) PROVE DaemonInv'
    <2> DEFINE s == ShownAs(p)
    <2>1. /\ s \in Ids /\ displayed' = [displayed EXCEPT ![s] = p]
          /\ crossed' = IF \E k \in DOMAIN queue[p] : Told(p, k, s)
                        THEN crossed \cup {p} ELSE crossed
          /\ UNCHANGED queue
      BY <1>7 DEF Shows
    <2> HIDE DEF s
    <2>2. /\ displayed'[s] = p
          /\ \A i \in Ids : i # s => displayed'[i] = displayed[i]
      BY <1>1, <2>1
    <2> SUFFICES ASSUME NEW q \in Procs \ crossed',
                        NEW k \in 1 .. Len(queue[q])
                 PROVE  IsGone(queue[q][k], displayed', q)
      BY <2>1 DEF DaemonInv
    <2>3. IsGone(queue[q][k], displayed, q) /\ queue[q][k] \in Signals
      BY <1>0, <1>1, <2>1 DEF DaemonInv
    <2>4. CASE q # p
      BY <2>2, <2>3, <2>4 DEF IsGone
    <2>5. CASE q = p
      <3>1. k \in DOMAIN queue[p]
        BY <1>1, <2>5
      <3>2. queue[p][k] # [kind |-> "NotificationClosed", id |-> s]
        BY <2>1, <2>5, <3>1 DEF Told
      <3>3. queue[p][k].kind = "NotificationClosed" => queue[p][k].id # s
        BY <2>3, <2>5, <3>2 DEF Signals, Closed, Invoked
      <3> QED BY <2>2, <2>3, <2>5, <3>3 DEF IsGone
    <2> QED BY <2>4, <2>5
  <1>8. ASSUME NEW p \in Procs, Exits(p) PROVE DaemonInv'
    <2>1. /\ queue' = [queue EXCEPT ![p] = << >>]
          /\ UNCHANGED <<displayed, crossed>>
      BY <1>8 DEF Exits, sendVars, serverVars
    <2>2. \A q \in Procs : OnlyGets(queue[q], queue'[q], {})
      BY <1>1, <2>1 DEF OnlyGets
    <2> QED BY <1>0, <2>1, <2>2, DaemonQuiet
  <1>9. ASSUME NEW p \in Procs, DoesNotShow(p) PROVE DaemonInv'
    BY <1>2, <1>3, <1>9 DEF DoesNotShow
  <1>10. ASSUME NEW p \in Procs,
                ReadsOptions(p) \/ EntersLoop(p) \/ on_wait_timeout(p)
         PROVE  DaemonInv'
    BY <1>2, <1>10 DEF ReadsOptions, EntersLoop, on_wait_timeout, serverVars,
                       sendVars
  <1>11. ASSUME NEW p \in Procs, TakesOther(p) \/ TakesClosed(p)
         PROVE  DaemonInv'
    BY <1>4, <1>11 DEF TakesOther, TakesClosed, Takes, sendVars
  <1>12. ASSUME NEW p \in Procs, TakesAction(p) PROVE DaemonInv'
    <2>1. queue[p] # << >> /\ UNCHANGED crossed
      BY <1>12 DEF TakesAction, Takes, sendVars
    <2>2. CASE AsksToClose(p, Tail(queue[p]))
      BY <1>0, <1>5, <2>1, <2>2, TailType
    <2>3. CASE /\ queue' = [queue EXCEPT ![p] = Tail(@)]
               /\ displayed' = Removed(p) \/ UNCHANGED displayed
      BY <1>4, <2>1, <2>3
    <2> QED BY <1>12, <2>2, <2>3 DEF TakesAction
  <1>13. ASSUME NEW p \in Procs, on_portal_timeout(p) PROVE DaemonInv'
    BY <1>2, <1>3, <1>13 DEF on_portal_timeout, Removes, sendVars
  <1>14. ASSUME NEW p \in Procs, on_sigint(p) PROVE DaemonInv'
    <2>1. \/ /\ displayed' = Removed(p) \/ UNCHANGED displayed
             /\ UNCHANGED queue
          \/ AsksToClose(p, queue[p])
      BY <1>14 DEF on_sigint
    <2>2. UNCHANGED crossed
      BY <1>14 DEF on_sigint, sendVars
    <2> QED BY <1>1, <1>2, <1>3, <1>5, <2>1, <2>2
  <1>15. ASSUME NEW i \in Ids, Disappears(i) PROVE DaemonInv'
    <2>1. displayed[i] # None /\ UNCHANGED crossed
      BY <1>15 DEF Disappears, sendVars
    <2>2. CASE displayed' = [displayed EXCEPT ![i] = None] /\ UNCHANGED queue
      <3>1. \A k \in Ids : displayed'[k] \in {displayed[k], None}
        BY <1>1, <2>2
      <3> QED BY <1>0, <1>1, <2>1, <2>2, <3>1, DaemonQuiet
    <2>3. CASE Hides(i, << >>)
      <3>1. << >> \in Seq(Signals)
            /\ \A k \in 1 .. Len(<< >>) : << >>[k].kind = "ActionInvoked"
        OBVIOUS
      <3> QED BY <1>6, <2>1, <2>3, <3>1
    <2> QED BY <1>15, <2>2, <2>3 DEF Disappears
  <1>16. ASSUME NEW i \in Ids, Activates(i) PROVE DaemonInv'
    <2> DEFINE g == [kind |-> "ActionInvoked", id |-> i]
    <2>1. displayed[i] # None /\ UNCHANGED crossed
      BY <1>16 DEF Activates, sendVars
    <2>2. g \in Signals /\ g.kind = "ActionInvoked"
      BY SignalTypes
    <2>3. CASE Hides(i, <<g>>)
      <3> HIDE DEF g
      <3>1. /\ <<g>> \in Seq(Signals) /\ Len(<<g>>) = 1 /\ <<g>>[1] = g
        BY <2>2
      <3>2. \A k \in 1 .. Len(<<g>>) : <<g>>[k].kind = "ActionInvoked"
        BY <2>2, <3>1
      <3> QED BY <1>6, <2>1, <2>3, <3>1, <3>2
    <2>4. ASSUME \A k \in Ids : displayed'[k] \in {displayed[k], None},
                 \A q \in Procs : OnlyGets(queue[q], queue'[q], {g})
          PROVE  DaemonInv'
      <3>1. \A q \in Procs : IsGone(g, displayed', q)
        BY <2>2 DEF IsGone
      <3> HIDE DEF g
      <3> QED BY <1>0, <2>1, <2>4, <3>1, DaemonKeeps
    <2>5. CASE Broadcast(<<g>>) /\ UNCHANGED displayed
      <3> HIDE DEF g
      <3>1. /\ <<g>> \in Seq(Signals)
            /\ \A k \in 1 .. Len(<<g>>) : <<g>>[k] \in {g}
        BY <2>2
      <3>2. \A q \in Procs :
                OnlyGets(queue[q], queue'[q], {<<g>>[k] : k \in 1 .. Len(<<g>>)})
        BY <1>0, <2>5, <3>1, BroadcastQueue
      <3>3. \A q \in Procs : OnlyGets(queue[q], queue'[q], {g})
        BY <3>1, <3>2 DEF OnlyGets
      <3> QED BY <2>4, <2>5, <3>3
    <2>6. CASE /\ displayed' = [displayed EXCEPT ![i] = None]
               /\ queue' = [queue EXCEPT ![displayed[i]] =
                               IF displayed[i] \in Hearing
                               THEN Append(@, g) ELSE @]
      <3> HIDE DEF g
      <3>1. \A k \in Ids : displayed'[k] \in {displayed[k], None}
        BY <1>1, <2>6
      <3>2. ASSUME NEW q \in Procs PROVE OnlyGets(queue[q], queue'[q], {g})
        <4>1. queue'[q] \in {queue[q], Append(queue[q], g)}
          BY <1>1, <2>6
        <4>2. CASE queue'[q] = queue[q]
          BY <4>2 DEF OnlyGets
        <4>3. CASE queue'[q] = Append(queue[q], g)
          BY <1>1, <2>2, <4>3, AppendsSignal DEF OnlyGets
        <4> QED BY <4>1, <4>2, <4>3
      <3> QED BY <2>4, <3>1, <3>2
    <2> QED BY <1>16, <2>3, <2>5, <2>6 DEF Activates
  <1>17. CASE UNCHANGED vars
    BY <1>2, <1>17 DEF vars, sendVars, serverVars
  <1> QED BY <1>7, <1>8, <1>9, <1>10, <1>11, <1>12, <1>13, <1>14, <1>15,
             <1>16, <1>17
          DEF Next, Program, Server, DoesNotWait, LeavesLoop

-----------------------------------------------------------------------------
(* What a run does in its main loop concerns no other one's notification.  *)
LEMMA ScreenLoop ==
    ASSUME ShowInv, UNCHANGED <<given, crossed>>, NEW p \in Procs,
           ~ BeforeShow(p),
           ~ BeforeShow(p)',
           \A q \in Procs : q # p =>
               /\ pc'[q] = pc[q] /\ id'[q] = id[q] /\ reason'[q] = reason[q]
               /\ Portal => queue'[q] = queue[q],
           \A i \in Ids : displayed'[i] \in {displayed[i], None},
           p \notin crossed => \A i \in Ids :
               displayed[i] = p /\ displayed'[i] = p =>
                   id'[p] = id[p] /\ Unclosed(p)'
    PROVE  ScreenInv'
  <1>0. ScreenInv
    BY DEF ShowInv
  <1>1. ASSUME NEW q \in Procs, BeforeShow(q)'
        PROVE  BeforeShow(q) /\ Unclosed(q)'
    BY <1>0, <1>1 DEF BeforeShow, Unclosed, ScreenInv, given
  <1>2. ASSUME NEW q \in Procs \ crossed, NEW i \in Ids, displayed'[i] = q
        PROVE  displayed[i] = q /\ id'[q] = id[q] /\ Unclosed(q)'
    <2>1. displayed[i] = q
      BY <1>2, ConstantsAssumption
    <2>2. CASE q = p
      BY <1>2, <2>1, <2>2
    <2>3. CASE q # p
      BY <1>0, <1>2, <2>1, <2>3 DEF ScreenInv, Unclosed, given
    <2> QED BY <2>1, <2>2, <2>3
  <1> QED BY <1>0, <1>1, <1>2, ScreenKeeps

(* A run that has taken its own notification away, or whose signal says    *)
(* that it is away, has none on screen.                                    *)
LEMMA OffScreen ==
    ASSUME ShowInv, NEW p \in Procs \ crossed
    PROVE  /\ \A i \in Ids : displayed[i] = p => id[p] = i
           /\ \A i \in Ids : Removed(p)[i] # p
           /\ Portal /\ queue[p] # << >> => \A i \in Ids : displayed[i] # p
           /\ queue[p] # << >> /\ Head(queue[p]).id = id[p]
                /\ Head(queue[p]).kind = "NotificationClosed"
                  => \A i \in Ids : displayed[i] # p
  <1>1. \A i \in Ids : displayed[i] = p =>
            id[p] = i /\ (Portal => queue[p] = << >>)
    BY DEF ShowInv, ScreenInv, Unclosed
  <1>2. \A i \in Ids : Removed(p)[i] # p
    BY <1>1, ConstantsAssumption DEF Removed
  <1>3. ASSUME queue[p] # << >>, Head(queue[p]).id = id[p],
               Head(queue[p]).kind = "NotificationClosed",
               NEW i \in Ids, displayed[i] = p
        PROVE  FALSE
    <2>1. id[p] = i
      BY <1>1, <1>3
    <2>2. queue[p] \in Seq(Signals)
      BY DEF ShowInv, TypeOK, Signals
    <2>3. 1 \in 1 .. Len(queue[p]) /\ Head(queue[p]) = queue[p][1]
      BY <1>3, <2>2, TailSignals
    <2>4. IsGone(queue[p][1], displayed, p)
      BY <2>3 DEF ShowInv, DaemonInv
    <2> QED BY <1>3, <2>1, <2>3, <2>4 DEF IsGone
  <1> QED BY <1>1, <1>2, <1>3

LEMMA QuitsOther ==
    ASSUME TypeOK, NEW p \in Procs, NEW why, Quits(p, why)
    PROVE  /\ \A q \in Procs : q # p => reason'[q] = reason[q]
           /\ reason'[p] \in {reason[p], why}
  BY DEF TypeOK, Quits

LEMMA ClosedOther ==
    ASSUME TypeOK, NEW p \in Procs, IsClosed(p, "closed")
    PROVE  \A q \in Procs :
               q # p => id'[q] = id[q] /\ reason'[q] = reason[q]
  BY QuitsOther DEF TypeOK, IsClosed

LEMMA ScreenNext == ShowInv /\ [Next]_vars => ScreenInv'
  <1> SUFFICES ASSUME ShowInv, [Next]_vars PROVE ScreenInv'
    OBVIOUS
  <1>0. TypeOK /\ ScreenInv /\ UNCHANGED given
    BY GivenStays DEF ShowInv
  <1>1. /\ queue \in [Procs -> Seq(Signals)] /\ id \in [Procs -> 0 .. MaxId]
        /\ displayed \in [Ids -> Procs \cup {None}]
        /\ pc \in [Procs -> {"start", "options", "shown", "loop", "exited"}]
    BY <1>0 DEF TypeOK, Signals
  <1>2. \A p \in Procs : \A i \in Ids : Removed(p)[i] \in {displayed[i], None}
    BY DEF Removed
  <1>3. ASSUME NEW p \in Procs, ReadsOptions(p) PROVE ScreenInv'
    <2>1. /\ pc[p] = "start" /\ pc'[p] = "options"
          /\ \A q \in Procs : q # p => pc'[q] = pc[q] /\ id'[q] = id[q]
          /\ UNCHANGED <<reason, queue, displayed, crossed>>
      BY <1>1, <1>3 DEF ReadsOptions, loopVars, serverVars
    <2>2. ASSUME NEW q \in Procs, BeforeShow(q)'
          PROVE  BeforeShow(q) /\ Unclosed(q)'
      BY <1>0, <2>1, <2>2 DEF BeforeShow, Unclosed, ScreenInv, given
    <2>3. ASSUME NEW q \in Procs \ crossed, NEW i \in Ids, displayed'[i] = q
          PROVE  displayed[i] = q /\ id'[q] = id[q] /\ Unclosed(q)'
      <3>1. ~ BeforeShow(q) /\ Unclosed(q) /\ displayed[i] = q
        BY <1>0, <2>1, <2>3 DEF ScreenInv
      <3> QED BY <1>0, <2>1, <3>1 DEF BeforeShow, Unclosed, given
    <2> QED BY <1>0, <2>1, <2>2, <2>3, ScreenKeeps
  <1>4. ASSUME NEW p \in Procs, Shows(p) PROVE ScreenInv'
    <2> DEFINE s == ShownAs(p)
    <2>1. /\ s \in Ids /\ displayed' = [displayed EXCEPT ![s] = p]
          /\ id' = [id EXCEPT ![p] = s] /\ pc' = [pc EXCEPT ![p] = "shown"]
          /\ pc[p] = "options" /\ UNCHANGED <<reason, queue>>
          /\ crossed' \in {crossed, crossed \cup {p}}
      BY <1>4 DEF Shows
    <2> HIDE DEF s
    <2>2. /\ displayed'[s] = p /\ id'[p] = s /\ pc'[p] = "shown"
          /\ \A i \in Ids : i # s => displayed'[i] = displayed[i]
          /\ \A q \in Procs : q # p => id'[q] = id[q] /\ pc'[q] = pc[q]
      BY <1>1, <2>1
    <2>3. \A q \in Procs : Unclosed(q)' <=> Unclosed(q)
      BY <1>0, <2>1 DEF Unclosed, given
    <2>4. \A q \in Procs :
              BeforeShow(q)' => Unclosed(q)' /\ q \notin crossed'
      BY <1>0, <2>1, <2>2, <2>3 DEF ScreenInv, BeforeShow
    <2>5. ASSUME NEW q \in Procs \ crossed, NEW i \in Ids, displayed'[i] = q
          PROVE  id'[q] = i /\ ~ BeforeShow(q)' /\ Unclosed(q)'
      <3>1. CASE q = p
        <4>1. BeforeShow(p) /\ Unclosed(p) /\ p \notin crossed
          BY <1>0, <2>1 DEF ScreenInv, BeforeShow
        <4>2. i = s
          BY <1>0, <2>2, <2>5, <3>1, <4>1 DEF ScreenInv
        <4> QED BY <2>2, <2>3, <3>1, <4>1, <4>2 DEF BeforeShow
      <3>2. CASE q # p
        <4>1. displayed[i] = q
          BY <2>2, <2>5, <3>2
        <4>2. id[q] = i /\ ~ BeforeShow(q) /\ Unclosed(q)
          BY <1>0, <2>5, <4>1 DEF ScreenInv
        <4> QED BY <2>2, <2>3, <3>2, <4>2 DEF BeforeShow
      <3> QED BY <3>1, <3>2
    <2> QED BY <2>1, <2>4, <2>5 DEF ScreenInv
  <1>5. ASSUME NEW p \in Procs, DoesNotShow(p) PROVE ScreenInv'
    <2>1. /\ pc[p] = "options" /\ pc'[p] = "shown"
          /\ \A q \in Procs : q # p => pc'[q] = pc[q]
          /\ UNCHANGED <<reason, queue, crossed>>
      BY <1>1, <1>5 DEF DoesNotShow
    <2>2. /\ \A q \in Procs : q # p => id'[q] = id[q]
          /\ \A i \in Ids : displayed'[i] \in {displayed[i], None}
      <3>1. CASE UNCHANGED <<id, displayed>>
        BY <3>1
      <3>2. CASE /\ id' = [id EXCEPT ![p] = IF @ = 0 THEN 1 ELSE @]
                 /\ displayed' \in {displayed, Removed(p)}
        BY <1>1, <1>2, <3>2
      <3> QED BY <1>5, <3>1, <3>2 DEF DoesNotShow
    <2>3. ASSUME NEW q \in Procs, BeforeShow(q)'
          PROVE  BeforeShow(q) /\ Unclosed(q)'
      BY <1>0, <2>1, <2>3 DEF BeforeShow, Unclosed, ScreenInv, given
    <2>4. ASSUME NEW q \in Procs \ crossed, NEW i \in Ids, displayed'[i] = q
          PROVE  displayed[i] = q /\ id'[q] = id[q] /\ Unclosed(q)'
      <3>1. displayed[i] = q
        BY <2>2, <2>4, ConstantsAssumption
      <3>2. ~ BeforeShow(q) /\ Unclosed(q)
        BY <1>0, <2>4, <3>1 DEF ScreenInv
      <3>3. q # p
        BY <2>1, <3>2 DEF BeforeShow
      <3> QED BY <1>0, <2>1, <2>2, <3>1, <3>2, <3>3 DEF Unclosed, given
    <2> QED BY <1>0, <2>1, <2>3, <2>4, ScreenKeeps
  <1>6. ASSUME NEW p \in Procs, Exits(p), ~ BeforeShow(p) PROVE ScreenInv'
    <2>1. /\ pc'[p] = "exited" /\ queue'[p] = << >>
          /\ \A q \in Procs : q # p => pc'[q] = pc[q] /\ queue'[q] = queue[q]
          /\ UNCHANGED <<reason, id, displayed, crossed>>
      BY <1>1, <1>6 DEF Exits, sendVars, serverVars
    <2>2. p \notin crossed => \A i \in Ids : displayed[i] = p => Unclosed(p)'
      BY <1>0, <2>1 DEF ScreenInv, Unclosed, given
    <2>3. ~ BeforeShow(p)'
      BY <2>1 DEF BeforeShow
    <2> QED BY <1>0, <1>6, <2>1, <2>2, <2>3, ScreenLoop
  <1>7. ASSUME NEW p \in Procs, EntersLoop(p) PROVE ScreenInv'
    <2>1. /\ pc[p] = "shown" /\ pc'[p] = "loop"
          /\ \A q \in Procs : q # p => pc'[q] = pc[q]
          /\ UNCHANGED <<reason, queue, id, displayed, crossed>>
      BY <1>1, <1>7 DEF EntersLoop, sendVars, noteVars, loopVars, serverVars
    <2>2. p \notin crossed => \A i \in Ids : displayed[i] = p => Unclosed(p)'
      BY <1>0, <2>1 DEF ScreenInv, Unclosed, given
    <2>3. ~ BeforeShow(p) /\ ~ BeforeShow(p)'
      BY <2>1 DEF BeforeShow
    <2> QED BY <1>0, <2>1, <2>2, <2>3, ScreenLoop
  <1>8. ASSUME NEW p \in Procs, pc[p] = "loop", UNCHANGED <<pc, crossed>>,
               \A q \in Procs : q # p =>
                   /\ id'[q] = id[q] /\ reason'[q] = reason[q]
                   /\ Portal => queue'[q] = queue[q],
               \A i \in Ids : displayed'[i] \in {displayed[i], None},
               \/ p \in crossed
               \/ \A i \in Ids : displayed'[i] # p
               \/ /\ id'[p] = id[p]
                  /\ \/ reason'[p] \in {reason[p], "timeout"}
                     \/ reason'[p] = "sigint" /\ "fail" \in Environment
                  /\ Portal => queue'[p] = queue[p]
        PROVE  ScreenInv'
    <2>1. ~ BeforeShow(p) /\ ~ BeforeShow(p)'
      BY <1>8 DEF BeforeShow
    <2>2. p \notin crossed => \A i \in Ids :
              displayed[i] = p /\ displayed'[i] = p =>
                  id'[p] = id[p] /\ Unclosed(p)'
      BY <1>0, <1>8 DEF ScreenInv, Unclosed, given
    <2> QED BY <1>0, <1>8, <2>1, <2>2, ScreenLoop
  <1>9. ASSUME NEW p \in Procs, TakesOther(p) \/ TakesClosed(p)
        PROVE  ScreenInv'
    <2>1. /\ pc[p] = "loop" /\ queue[p] # << >>
          /\ queue' = [queue EXCEPT ![p] = Tail(@)]
          /\ UNCHANGED <<pc, displayed, crossed>>
      BY <1>9 DEF TakesOther, TakesClosed, Takes, sendVars
    <2>2. \/ UNCHANGED <<id, reason>>
          \/ /\ IsClosed(p, "closed") /\ Head(queue[p]).id = id[p]
             /\ Head(queue[p]).kind = "NotificationClosed"
      BY <1>9 DEF TakesOther, TakesClosed, Takes, Mine
    <2>3. \A q \in Procs : q # p => /\ queue'[q] = queue[q]
                                    /\ id'[q] = id[q] /\ reason'[q] = reason[q]
      BY <1>0, <1>1, <2>1, <2>2, ClosedOther
    <2>4. ASSUME p \notin crossed
          PROVE  \/ \A i \in Ids : displayed'[i] # p
                 \/ UNCHANGED <<id, reason>> /\ ~ Portal
      BY <2>1, <2>2, <2>4, OffScreen
    <2> QED BY <1>8, <2>1, <2>3, <2>4
  <1>10. ASSUME NEW p \in Procs, TakesAction(p) PROVE ScreenInv'
    <2>1. pc[p] = "loop" /\ queue[p] # << >> /\ UNCHANGED <<pc, crossed>>
      BY <1>10 DEF TakesAction, Takes, sendVars
    <2>2. CASE AsksToClose(p, Tail(queue[p])) /\ ~ Portal
                 /\ UNCHANGED <<id, reason>>
      <3>1. \A i \in Ids : displayed'[i] \in {displayed[i], None}
        BY <1>0, <2>1, <2>2, AsksQueue, TailType
      <3> QED BY <1>8, <2>1, <2>2, <3>1
    <2>3. CASE ~ Portal /\ UNCHANGED <<id, reason, displayed>>
      BY <1>8, <2>1, <2>3
    <2>4. CASE /\ Portal /\ IsClosed(p, "closed")
               /\ queue' = [queue EXCEPT ![p] = Tail(@)]
               /\ displayed' = Removed(p) \/ UNCHANGED displayed
      <3>1. \A q \in Procs : q # p => /\ queue'[q] = queue[q]
                                      /\ id'[q] = id[q]
                                      /\ reason'[q] = reason[q]
        BY <1>0, <1>1, <2>4, ClosedOther
      <3>2. \A i \in Ids : displayed'[i] \in {displayed[i], None}
        BY <1>2, <2>4
      <3>3. ASSUME p \notin crossed PROVE \A i \in Ids : displayed'[i] # p
        <4>1. \A i \in Ids : displayed[i] # p
          BY <2>1, <2>4, <3>3, OffScreen
        <4> QED BY <3>2, <4>1, ConstantsAssumption
      <3> QED BY <1>8, <2>1, <3>1, <3>2, <3>3
    <2> QED BY <1>10, <2>2, <2>3, <2>4 DEF TakesAction
  <1>11. ASSUME NEW p \in Procs, on_wait_timeout(p) PROVE ScreenInv'
    <2>1. /\ pc[p] = "loop" /\ Quits(p, "timeout")
          /\ UNCHANGED <<pc, id, queue, displayed, crossed>>
      BY <1>11 DEF on_wait_timeout, sendVars, noteVars, serverVars
    <2>2. /\ \A q \in Procs : q # p => reason'[q] = reason[q]
          /\ reason'[p] \in {reason[p], "timeout"}
      BY <1>0, <2>1, QuitsOther
    <2> QED BY <1>8, <2>1, <2>2
  <1>12. ASSUME NEW p \in Procs, on_portal_timeout(p) PROVE ScreenInv'
    <2>1. /\ pc[p] = "loop" /\ UNCHANGED <<pc, queue, crossed>>
          /\ \/ displayed' = Removed(p) /\ IsClosed(p, "closed")
             \/ UNCHANGED <<displayed, id, reason>>
      BY <1>12 DEF on_portal_timeout, Removes, sendVars
    <2>2. \A q \in Procs : q # p => id'[q] = id[q] /\ reason'[q] = reason[q]
      BY <1>0, <2>1, ClosedOther
    <2>3. \A i \in Ids : displayed'[i] \in {displayed[i], None}
      BY <1>2, <2>1
    <2>4. ASSUME p \notin crossed
          PROVE  \/ \A i \in Ids : displayed'[i] # p
                 \/ UNCHANGED <<id, reason>>
      BY <2>1, <2>4, OffScreen
    <2> QED BY <1>8, <2>1, <2>2, <2>3, <2>4
  <1>13. ASSUME NEW p \in Procs, on_sigint(p) PROVE ScreenInv'
    <2>1. /\ pc[p] = "loop" /\ Quits(p, "sigint")
          /\ UNCHANGED <<pc, crossed>>
      BY <1>13 DEF on_sigint, sendVars
    <2>2. /\ \A q \in Procs : q # p => reason'[q] = reason[q]
          /\ reason'[p] \in {reason[p], "sigint"}
      BY <1>0, <2>1, QuitsOther
    <2>3. CASE Portal
      <3>1. /\ UNCHANGED queue
            /\ \/ /\ displayed' = Removed(p)
                  /\ id' = [id EXCEPT ![p] = IF closed[p] THEN @ ELSE 0]
               \/ "fail" \in Environment /\ UNCHANGED <<displayed, id>>
        BY <1>13, <2>3 DEF on_sigint
      <3>2. \A q \in Procs : q # p => id'[q] = id[q]
        BY <1>1, <3>1
      <3>3. \A i \in Ids : displayed'[i] \in {displayed[i], None}
        BY <1>2, <3>1
      <3>4. ASSUME p \notin crossed
            PROVE  \/ \A i \in Ids : displayed'[i] # p
                   \/ "fail" \in Environment /\ id'[p] = id[p]
        BY <3>1, <3>4, OffScreen
      <3> QED BY <1>8, <2>1, <2>2, <3>1, <3>2, <3>3, <3>4
    <2>4. CASE ~ Portal
      <3>1. AsksToClose(p, queue[p]) /\ UNCHANGED id
        BY <1>13, <2>4 DEF on_sigint
      <3>2. queue[p] \in Seq(Signals) /\ OnlyGets(queue[p], queue[p], {})
        BY <1>1 DEF OnlyGets
      <3>3. \/ \A i \in Ids : displayed'[i] = IF i = id[p] THEN None
                                              ELSE displayed[i]
            \/ "fail" \in Environment /\ UNCHANGED displayed
        BY <1>0, <3>1, <3>2, AsksQueue
      <3>4. ASSUME p \notin crossed
            PROVE  \/ \A i \in Ids : displayed'[i] # p
                   \/ "fail" \in Environment /\ id'[p] = id[p]
        BY <3>1, <3>3, <3>4, OffScreen, ConstantsAssumption
      <3> QED BY <1>8, <2>1, <2>2, <2>4, <3>1, <3>3, <3>4
    <2> QED BY <2>3, <2>4
  <1>14. ASSUME NEW i \in Ids, UNCHANGED <<pc, crossed, noteVars, loopVars>>,
                displayed[i] # None,
                \A k \in Ids : displayed'[k] \in {displayed[k], None},
                Portal => /\ displayed'[i] = None
                          /\ \A q \in Procs :
                                q # displayed[i] => queue'[q] = queue[q]
         PROVE  ScreenInv'
    <2>1. UNCHANGED <<id, reason>> /\ \A q \in Procs : BeforeShow(q)' <=> BeforeShow(q)
      BY <1>14 DEF noteVars, loopVars, BeforeShow
    <2>2. ASSUME NEW q \in Procs, Unclosed(q), Portal => q # displayed[i]
          PROVE  Unclosed(q)'
      BY <1>0, <1>14, <2>1, <2>2 DEF Unclosed, given
    <2>3. ASSUME NEW q \in Procs, BeforeShow(q)'
          PROVE  BeforeShow(q) /\ Unclosed(q)'
      BY <1>0, <2>1, <2>2, <2>3 DEF ScreenInv
    <2>4. ASSUME NEW q \in Procs \ crossed, NEW k \in Ids, displayed'[k] = q
          PROVE  displayed[k] = q /\ id'[q] = id[q] /\ Unclosed(q)'
      <3>1. displayed[k] = q /\ (Portal => k # i)
        BY <1>14, <2>4, ConstantsAssumption
      <3>2. Unclosed(q) /\ (Portal => displayed[i] # q)
        BY <1>0, <2>4, <3>1 DEF ScreenInv
      <3> QED BY <2>1, <2>2, <2>4, <3>1, <3>2
    <2> QED BY <1>0, <1>14, <2>3, <2>4, ScreenKeeps
  <1>15. ASSUME NEW i \in Ids, Disappears(i) PROVE ScreenInv'
    <2>1. UNCHANGED <<pc, crossed, noteVars, loopVars>> /\ displayed[i] # None
      BY <1>15 DEF Disappears, sendVars
    <2>2. /\ displayed' = [displayed EXCEPT ![i] = None]
          /\ Portal => UNCHANGED queue
      BY <1>15 DEF Disappears, Hides
    <2>3. /\ \A k \in Ids : displayed'[k] \in {displayed[k], None}
          /\ displayed'[i] = None
      BY <1>1, <2>2
    <2> QED BY <1>14, <2>1, <2>2, <2>3
  <1>16. ASSUME NEW i \in Ids, Activates(i) PROVE ScreenInv'
    <2>1. UNCHANGED <<pc, crossed, noteVars, loopVars>> /\ displayed[i] # None
      BY <1>16 DEF Activates, sendVars
    <2>2. /\ \/ displayed' = [displayed EXCEPT ![i] = None]
             \/ ~ Portal /\ UNCHANGED displayed
          /\ Portal => queue' = [queue EXCEPT ![displayed[i]] =
                            IF displayed[i] \in Hearing
                            THEN Append(@, [kind |-> "ActionInvoked", id |-> i])
                            ELSE @]
      BY <1>16 DEF Activates, Hides
    <2>3. /\ \A k \in Ids : displayed'[k] \in {displayed[k], None}
          /\ Portal => displayed'[i] = None
      BY <1>1, <2>2
    <2>4. Portal => \A q \in Procs : q # displayed[i] => queue'[q] = queue[q]
      BY <1>1, <2>2
    <2> QED BY <1>14, <2>1, <2>3, <2>4
  <1>17. CASE UNCHANGED vars
    BY <1>0, <1>17 DEF ScreenInv, BeforeShow, Unclosed, vars, given, sendVars,
                       noteVars, loopVars, serverVars
  <1>18. ASSUME NEW p \in Procs, DoesNotWait(p) \/ LeavesLoop(p)
         PROVE  ScreenInv'
    BY <1>6, <1>18 DEF DoesNotWait, LeavesLoop, BeforeShow
  <1> QED BY <1>3, <1>4, <1>5, <1>7, <1>9, <1>10, <1>11, <1>12, <1>13, <1>15,
             <1>16, <1>17, <1>18
          DEF Next, Program, Server

(* A run of notify-send that waited, and was not told for how long, leaves *)
(* nothing of its own on screen: however the runs replace each other, and  *)
(* whatever fails but the close that ^C asks for, with the one exception of*)
(* a run shown while the close of what it replaces was in its queue.       *)
THEOREM WaitingEndsWithTheClose == Spec => []WaitsForClose
  <1>1. TypeOK /\ DaemonInv /\ ScreenInv /\ ExitInv /\ [Next]_vars
            => (DaemonInv /\ ScreenInv /\ ExitInv)'
    BY DaemonNext, ScreenNext, ExitNext DEF ShowInv
  <1>2. ScreenInv /\ ExitInv => WaitsForClose
    BY DEF ScreenInv, ExitInv, WaitsForClose, Unclosed, OnScreen
  <1> QED BY <1>1, <1>2, ShowInit, TypeCorrect, PTL DEF Spec

-----------------------------------------------------------------------------
(***************************************************************************)
(* The wait of a run.  The first invariant is about a run's own state; in  *)
(* a queue the close of a notification stays until the run takes it.       *)
(***************************************************************************)
Waits(p) == ~ Portal /\ pc[p] \in {"shown", "loop"} /\ ~ failed[p]

RunOK(p) ==
    /\ BeforeShow(p) => ~ closed[p] /\ ~ quit[p] /\ ~ timer[p]
    /\ pc[p] = "options" => id[p] = args[p].notification_id
    /\ pc[p] # "start" /\ args[p].badHint => failed[p]
    /\ Waits(p) => connected[p] /\ (closed[p] \/ id[p] # 0)
    /\ closed[p] => quit[p] /\ (~ Portal => id[p] = 0)
    /\ pc[p] = "loop" => wait[p]
    /\ pc[p] \in {"shown", "loop"} /\ wait[p]
         /\ args[p].expire_timeout # NOTIFY_EXPIRES_NEVER
           => timer[p] \/ quit[p]
    /\ portal_timeout_id[p] => connected[p] /\ Portal
    /\ timer[p] \/ reason[p] = "timeout"
           => args[p].expire_timeout # NOTIFY_EXPIRES_NEVER
    /\ reason[p] = "closed" => closed[p] /\ connected[p]
    /\ reason[p] = "none" => ~ quit[p]

RunInv == \A p \in Procs : RunOK(p)

LEMMA RunInit == Init => RunInv
  BY DEF Init, RunInv, RunOK, BeforeShow, Waits

(* The variables of RunOK. *)
own == <<pc, args, Portal, wait, failed, timer, id, closed, connected,
         portal_timeout_id, quit, reason>>

LEMMA RunStays == RunInv /\ UNCHANGED own => RunInv'
  BY DEF RunInv, RunOK, BeforeShow, Waits, own

OwnTypes ==
    /\ pc \in [Procs -> {"start", "options", "shown", "loop", "exited"}]
    /\ args \in [Procs -> CommandLine]
    /\ wait \in [Procs -> BOOLEAN] /\ failed \in [Procs -> BOOLEAN]
    /\ timer \in [Procs -> BOOLEAN] /\ quit \in [Procs -> BOOLEAN]
    /\ id \in [Procs -> 0 .. MaxId]
    /\ closed \in [Procs -> BOOLEAN] /\ connected \in [Procs -> BOOLEAN]
    /\ portal_timeout_id \in [Procs -> BOOLEAN]
    /\ reason \in [Procs -> {"none", "closed", "timeout", "sigint"}]

(* close_notification (), of a notification that may be on screen.         *)
LEMMA RunCloses ==
    ASSUME OwnTypes, RunInv, NEW p \in Procs, pc[p] = "loop", connected[p],
           IsClosed(p, "closed") \/ UNCHANGED <<closed, id, quit, reason>>,
           UNCHANGED <<pc, args, Portal, wait, failed, timer, connected>>,
           \/ UNCHANGED portal_timeout_id
           \/ portal_timeout_id' = [portal_timeout_id EXCEPT ![p] = FALSE]
    PROVE  RunInv'
  <1> SUFFICES ASSUME NEW q \in Procs PROVE RunOK(q)'
    BY DEF RunInv
  <1>1. RunOK(q) /\ RunOK(p)
    BY DEF RunInv
  <1>2. CASE UNCHANGED <<closed, id, quit, reason>>
    BY <1>1, <1>2 DEF RunOK, BeforeShow, Waits, OwnTypes
  <1>3. CASE IsClosed(p, "closed") /\ q # p
    BY <1>1, <1>3 DEF RunOK, BeforeShow, Waits, OwnTypes, IsClosed, Quits
  <1>4. CASE IsClosed(p, "closed") /\ q = p
    BY <1>1, <1>4 DEF RunOK, BeforeShow, Waits, OwnTypes, IsClosed, Quits
  <1> QED BY <1>2, <1>3, <1>4

LEMMA RunNext == TypeOK /\ RunInv /\ [Next]_vars => RunInv'
  <1> SUFFICES ASSUME TypeOK, RunInv, [Next]_vars PROVE RunInv'
    OBVIOUS
  <1>0. OwnTypes /\ UNCHANGED given
    BY GivenStays DEF TypeOK, OwnTypes
  <1>1. \A p \in Procs : /\ args[p].expire_timeout \in Int
                         /\ args[p].notification_id \in 0 .. MaxId
    BY <1>0 DEF OwnTypes, CommandLine, NOTIFY_EXPIRES_DEFAULT
  <1>2. ASSUME NEW p \in Procs, ReadsOptions(p) PROVE RunInv'
    BY <1>0, <1>1, <1>2
    DEF RunInv, RunOK, BeforeShow, Waits, OwnTypes, ReadsOptions, given,
        loopVars
  <1>3. ASSUME NEW p \in Procs, Shows(p) PROVE RunInv'
    <2>1. ShownAs(p) \in Ids /\ ShownAs(p) # 0
      BY <1>3 DEF Shows, Ids
    <2> QED BY <1>0, <1>3, <2>1
        DEF RunInv, RunOK, BeforeShow, Waits, OwnTypes, Shows, PreparesToWait,
            given, sendVars
  <1>4. ASSUME NEW p \in Procs, DoesNotShow(p) PROVE RunInv'
    <2> SUFFICES ASSUME NEW q \in Procs PROVE RunOK(q)'
      BY DEF RunInv
    <2>1. RunOK(p) /\ RunOK(q)
      BY DEF RunInv
    <2>2. /\ pc[p] = "options" /\ pc' = [pc EXCEPT ![p] = "shown"]
          /\ PreparesToWait(p)
          /\ UNCHANGED <<args, Portal, wait, closed, portal_timeout_id, quit,
                         reason>>
      BY <1>4 DEF DoesNotShow, given
    <2>3. CASE args[p].badHint
      <3>1. UNCHANGED <<failed, connected, id>>
        BY <1>4, <2>3 DEF DoesNotShow
      <3> QED BY <1>0, <2>1, <2>2, <2>3, <3>1
          DEF RunOK, BeforeShow, Waits, OwnTypes, PreparesToWait
    <2>4. CASE ~ args[p].badHint
      <3>1. /\ failed' = [failed EXCEPT ![p] = TRUE]
            /\ connected' = [connected EXCEPT ![p] = TRUE]
            /\ \A r \in Procs : r # p => id'[r] = id[r]
        BY <1>0, <1>4, <2>4 DEF DoesNotShow, OwnTypes
      <3> QED BY <1>0, <2>1, <2>2, <3>1
          DEF RunOK, BeforeShow, Waits, OwnTypes, PreparesToWait
    <2> QED BY <2>3, <2>4
  <1>5. ASSUME NEW p \in Procs, EntersLoop(p) PROVE RunInv'
    BY <1>0, <1>5
    DEF RunInv, RunOK, BeforeShow, Waits, OwnTypes, EntersLoop, given,
        sendVars, noteVars, loopVars
  <1>6. ASSUME NEW p \in Procs, DoesNotWait(p) \/ LeavesLoop(p) PROVE RunInv'
    <2> SUFFICES ASSUME NEW q \in Procs PROVE RunOK(q)'
      BY DEF RunInv
    <2>1. RunOK(q)
      BY DEF RunInv
    <2>2. Exits(p) /\ pc[p] \in {"shown", "loop"}
      BY <1>6 DEF DoesNotWait, LeavesLoop
    <2> QED BY <1>0, <2>1, <2>2
        DEF RunOK, BeforeShow, Waits, OwnTypes, Exits, given, sendVars
  <1>7. ASSUME NEW p \in Procs,
               TakesOther(p) \/ TakesClosed(p) \/ TakesAction(p)
        PROVE  RunInv'
    <2>1. CASE TakesOther(p)
      BY <1>0, <2>1, RunStays DEF TakesOther, Takes, own, given, sendVars
    <2>2. CASE TakesClosed(p)
      BY <1>0, <2>2, RunCloses
      DEF TakesClosed, Takes, Mine, given, sendVars
    <2>3. CASE TakesAction(p)
      BY <1>0, <2>3, RunCloses
      DEF TakesAction, Takes, Mine, given, sendVars
    <2> QED BY <1>7, <2>1, <2>2, <2>3
  <1>8. ASSUME NEW p \in Procs, on_wait_timeout(p) PROVE RunInv'
    BY <1>0, <1>8
    DEF RunInv, RunOK, BeforeShow, Waits, OwnTypes, on_wait_timeout, Quits,
        given, sendVars, noteVars
  <1>9. ASSUME NEW p \in Procs, on_portal_timeout(p) PROVE RunInv'
    <2>1. connected[p]
      BY <1>9 DEF on_portal_timeout, RunInv, RunOK
    <2> QED BY <1>0, <1>9, <2>1, RunCloses
        DEF on_portal_timeout, Removes, given, sendVars
  <1>10. ASSUME NEW p \in Procs, on_sigint(p) PROVE RunInv'
    BY <1>0, <1>10
    DEF RunInv, RunOK, BeforeShow, Waits, OwnTypes, on_sigint, Quits, given,
        sendVars
  <1>11. CASE Server \/ UNCHANGED vars
    BY <1>0, <1>11, RunStays
    DEF Server, Disappears, Activates, own, given, vars, sendVars, noteVars,
        loopVars
  <1> QED BY <1>2, <1>3, <1>4, <1>5, <1>6, <1>7, <1>8, <1>9, <1>10, <1>11
      DEF Next, Program

LEMMA RunInvariant == Spec => [](TypeOK /\ RunInv /\ ExitInv)
  <1>1. Init => ExitInv
    BY ShowInit
  <1> QED BY <1>1, RunInit, RunNext, ExitNext, TypeCorrect, PTL DEF Spec

(***************************************************************************)
(* Signals keep their place in a queue to which others are appended, and   *)
(* move up by one when the first is taken.                                 *)
(***************************************************************************)
Keeps(s, t) == \A k \in 1 .. Len(s) : k \in 1 .. Len(t) /\ t[k] = s[k]
Has(s, g) == \E k \in 1 .. Len(s) : s[k] = g
CloseOf(i) == [kind |-> "NotificationClosed", id |-> i]

LEMMA KeepsItself == ASSUME NEW s PROVE Keeps(s, s)
  BY DEF Keeps

LEMMA KeepsHas == ASSUME NEW s, NEW t, NEW g, Keeps(s, t), Has(s, g)
                  PROVE  Has(t, g)
  BY DEF Keeps, Has

LEMMA KeepsAppend ==
    ASSUME NEW s \in Seq(Signals), NEW g \in Signals
    PROVE  Keeps(s, Append(s, g)) /\ Has(Append(s, g), g)
  <1>1. /\ Len(Append(s, g)) = Len(s) + 1 /\ Len(s) \in Nat
        /\ Append(s, g)[Len(s) + 1] = g
        /\ \A k \in 1 .. Len(s) : Append(s, g)[k] = s[k]
    OBVIOUS
  <1>2. Len(s) + 1 \in 1 .. Len(Append(s, g))
    BY <1>1
  <1>3. Has(Append(s, g), g)
    BY <1>1, <1>2 DEF Has
  <1>4. Keeps(s, Append(s, g))
    BY <1>1 DEF Keeps
  <1> QED BY <1>3, <1>4

LEMMA KeepsConcat ==
    ASSUME NEW s \in Seq(Signals), NEW t \in Seq(Signals)
    PROVE  Keeps(s, s \o t) /\ \A g : Has(t, g) => Has(s \o t, g)
  <1>1. /\ Len(s \o t) = Len(s) + Len(t) /\ Len(s) \in Nat /\ Len(t) \in Nat
        /\ \A k \in 1 .. Len(s) : (s \o t)[k] = s[k]
    OBVIOUS
  <1>2. ASSUME NEW j \in 1 .. Len(t)
        PROVE  /\ Len(s) + j \in 1 .. Len(s \o t)
               /\ (s \o t)[Len(s) + j] = t[j]
    <2>1. Len(s) + j \in 1 .. Len(s) + Len(t) /\ ~ (Len(s) + j <= Len(s))
          /\ (Len(s) + j) - Len(s) = j
      BY <1>1
    <2> QED BY <1>1, <2>1
  <1>3. Keeps(s, s \o t)
    BY <1>1 DEF Keeps
  <1>4. ASSUME NEW g, Has(t, g) PROVE Has(s \o t, g)
    BY <1>2, <1>4 DEF Has
  <1> QED BY <1>3, <1>4

LEMMA TailMoves ==
    ASSUME NEW s \in Seq(Signals), s # << >>
    PROVE  \A k \in 1 .. Len(s) :
               \/ k = 1 /\ s[k] = Head(s)
               \/ k - 1 \in 1 .. Len(Tail(s)) /\ Tail(s)[k - 1] = s[k]
  OBVIOUS

LEMMA TailHas ==
    ASSUME NEW s \in Seq(Signals), s # << >>, NEW g, Has(s, g), Head(s) # g
    PROVE  Has(Tail(s), g)
  BY TailMoves DEF Has

(* The daemon's signals reach the runs that hear it ...                    *)
LEMMA HidesKeeps ==
    ASSUME TypeOK, NEW i \in Ids, NEW before \in Seq(Signals), Hides(i, before),
           NEW q \in Procs
    PROVE  /\ Keeps(queue[q], queue'[q])
           /\ q \in Hearing => Has(queue'[q], CloseOf(i))
           /\ \A j \in Ids : j # i => displayed'[j] = displayed[j]
  <1> DEFINE a == Append(before, CloseOf(i))
  <1>1. /\ queue[q] \in Seq(Signals)
        /\ \A j \in Ids : j # i => displayed'[j] = displayed[j]
    BY DEF TypeOK, Signals, Hides
  <1>2. CloseOf(i) \in Signals
    BY SignalTypes DEF CloseOf
  <1>3. a \in Seq(Signals) /\ Has(a, CloseOf(i))
    BY <1>2, KeepsAppend
  <1>4. queue'[q] = IF q \in Hearing THEN queue[q] \o a ELSE queue[q]
    BY DEF Hides, Broadcast, CloseOf
  <1> HIDE DEF a
  <1> QED BY <1>1, <1>3, <1>4, KeepsConcat, KeepsItself

LEMMA BroadcastKeeps ==
    ASSUME TypeOK, NEW new \in Seq(Signals), Broadcast(new), NEW q \in Procs
    PROVE  Keeps(queue[q], queue'[q])
  <1>1. queue[q] \in Seq(Signals)
    BY DEF TypeOK, Signals
  <1>2. queue'[q] = IF q \in Hearing THEN queue[q] \o new ELSE queue[q]
    BY DEF Broadcast
  <1> QED BY <1>1, <1>2, KeepsConcat, KeepsItself

(* What the server does: a notification goes, or its action is invoked.    *)
LEMMA ServerKeeps ==
    ASSUME TypeOK, Server, ~ Portal, NEW q \in Procs
    PROVE  /\ UNCHANGED <<pc, failed, id>>
           /\ Keeps(queue[q], queue'[q])
           /\ \A j \in Ids : \/ displayed'[j] = displayed[j]
                             \/ q \in Hearing => Has(queue'[q], CloseOf(j))
  <1>1. PICK i \in Ids : Disappears(i) \/ Activates(i)
    BY DEF Server
  <1>2. UNCHANGED <<pc, failed, id>>
    BY <1>1 DEF Disappears, Activates, sendVars, noteVars
  <1> DEFINE invoked == [kind |-> "ActionInvoked", id |-> i]
  <1>3. << >> \in Seq(Signals) /\ <<invoked>> \in Seq(Signals)
    <2>1. invoked \in Signals
      BY SignalTypes
    <2> HIDE DEF invoked
    <2> QED BY <2>1
  <1>4. CASE \E before \in Seq(Signals) : Hides(i, before)
    BY <1>2, <1>4, HidesKeeps
  <1>5. CASE Broadcast(<<invoked>>) /\ UNCHANGED displayed
    <2> HIDE DEF invoked
    <2> QED BY <1>2, <1>3, <1>5, BroadcastKeeps
  <1>6. \/ \E before \in Seq(Signals) : Hides(i, before)
        \/ Broadcast(<<invoked>>) /\ UNCHANGED displayed
    BY <1>1, <1>3 DEF Disappears, Activates
  <1> QED BY <1>4, <1>5, <1>6

(* ... also those to what a run asks for.                                  *)
LEMMA AsksKeeps ==
    ASSUME TypeOK, NEW p \in Procs, NEW left \in Seq(Signals),
           AsksToClose(p, left), p \in Hearing, NEW q \in Procs
    PROVE  /\ Keeps(IF q = p THEN left ELSE queue[q], queue'[q])
           /\ \A j \in Ids :
                 \/ displayed'[j] = displayed[j]
                 \/ j = id[p] /\ (q \in Hearing => Has(queue'[q], CloseOf(j)))
  <1>1. /\ queue \in [Procs -> Seq(Signals)] /\ queue[q] \in Seq(Signals)
        /\ id[p] \in 0 .. MaxId /\ displayed \in [Ids -> Procs \cup {None}]
    BY DEF TypeOK, Signals
  <1>2. CASE /\ ~ Gone(p)
             /\ displayed' = [displayed EXCEPT ![id[p]] = None]
             /\ queue' = [r \in Procs |->
                             IF r = p THEN Append(left, CloseOf(id[p]))
                             ELSE IF r \in Hearing
                                  THEN Append(queue[r], CloseOf(id[p]))
                             ELSE queue[r]]
    <2>1. /\ id[p] \in Ids
          /\ displayed' = [displayed EXCEPT ![id[p]] = None]
          /\ queue'[q] = IF q = p THEN Append(left, CloseOf(id[p]))
                         ELSE IF q \in Hearing
                              THEN Append(queue[q], CloseOf(id[p]))
                         ELSE queue[q]
      BY <1>1, <1>2, ConstantsAssumption DEF Gone, Ids
    <2>2. CloseOf(id[p]) \in Signals
      BY <2>1, SignalTypes DEF CloseOf
    <2>3. \A j \in Ids : j # id[p] => displayed'[j] = displayed[j]
      BY <1>1, <2>1
    <2>4. CASE q = p
      BY <2>1, <2>2, <2>3, <2>4, KeepsAppend
    <2>5. CASE q # p /\ q \in Hearing
      BY <1>1, <2>1, <2>2, <2>3, <2>5, KeepsAppend
    <2>6. CASE q # p /\ q \notin Hearing
      BY <2>1, <2>3, <2>6, KeepsItself
    <2> QED BY <2>4, <2>5, <2>6
  <1>3. CASE queue' = [queue EXCEPT ![p] = left] /\ UNCHANGED displayed
    BY <1>1, <1>3, KeepsItself
  <1> QED BY <1>2, <1>3 DEF AsksToClose, CloseOf

(* The close of what is no longer on screen is on its way to the run.      *)
Comes(q) ==
    Waits(q) /\ id[q] # 0 /\ displayed[id[q]] = None
        => Has(queue[q], CloseOf(id[q]))

ComesInv == \A q \in Procs : Comes(q)

LEMMA ComesKeeps ==
    ASSUME TypeOK, NEW q \in Procs, Comes(q), Waits(q)' => Waits(q),
           id'[q] = id[q], Keeps(queue[q], queue'[q]),
           \A j \in Ids : \/ displayed'[j] = displayed[j]
                          \/ displayed'[j] # None
                          \/ q \in Hearing => Has(queue'[q], CloseOf(j))
    PROVE  Comes(q)'
  <1> SUFFICES ASSUME Waits(q)', id'[q] # 0, displayed'[id'[q]] = None
               PROVE  Has(queue'[q], CloseOf(id[q]))
    BY DEF Comes
  <1>1. Waits(q) /\ id[q] \in Ids /\ q \in Hearing
    BY ConstantsAssumption DEF Waits, TypeOK, Ids, Hearing
  <1>2. CASE displayed'[id[q]] = displayed[id[q]]
    BY <1>1, <1>2, KeepsHas DEF Comes
  <1> QED BY <1>1, <1>2

(* p takes a signal that is not the close of its notification.             *)
LEMMA ComesTakes ==
    ASSUME TypeOK, NEW p \in Procs, Comes(p), Waits(p), UNCHANGED id,
           queue[p] # << >>, Head(queue[p]) # CloseOf(id[p]),
           Keeps(Tail(queue[p]), queue'[p]), p \in Hearing,
           \A j \in Ids : \/ displayed'[j] = displayed[j]
                          \/ j = id[p] /\ Has(queue'[p], CloseOf(j))
    PROVE  Comes(p)'
  <1> SUFFICES ASSUME id'[p] # 0, displayed'[id'[p]] = None
               PROVE  Has(queue'[p], CloseOf(id[p]))
    BY DEF Comes
  <1>1. queue[p] \in Seq(Signals) /\ id[p] \in Ids
    BY ConstantsAssumption DEF TypeOK, Signals, Ids
  <1>2. CASE displayed'[id[p]] = displayed[id[p]]
    <2>1. Has(queue[p], CloseOf(id[p]))
      BY <1>2 DEF Comes
    <2>2. Has(Tail(queue[p]), CloseOf(id[p]))
      BY <1>1, <2>1, TailHas
    <2> QED BY <2>2, KeepsHas
  <1> QED BY <1>1, <1>2

LEMMA ComesNext == TypeOK /\ RunInv /\ ComesInv /\ [Next]_vars => ComesInv'
  <1> SUFFICES ASSUME TypeOK, RunInv, ComesInv, [Next]_vars, ~ Portal,
                      NEW q \in Procs
               PROVE  Comes(q)'
    BY GivenStays DEF ComesInv, Comes, Waits, given
  <1>0. /\ UNCHANGED given /\ Comes(q) /\ RunOK(q) /\ OwnTypes
        /\ queue \in [Procs -> Seq(Signals)]
        /\ displayed \in [Ids -> Procs \cup {None}]
    BY GivenStays DEF ComesInv, RunInv, TypeOK, OwnTypes, Signals
  <1>1. ASSUME UNCHANGED <<id, displayed>>, Keeps(queue[q], queue'[q]),
               pc'[q] \in {"shown", "loop"} /\ ~ failed'[q]
                   => pc[q] \in {"shown", "loop"} /\ ~ failed[q]
        PROVE  Comes(q)'
    <2>1. Waits(q)' => Waits(q)
      BY <1>1 DEF Waits
    <2> QED BY <1>0, <1>1, <2>1, ComesKeeps
  <1>2. ASSUME UNCHANGED <<pc, failed, id>>, Keeps(queue[q], queue'[q]),
               \A j \in Ids : \/ displayed'[j] = displayed[j]
                              \/ q \in Hearing => Has(queue'[q], CloseOf(j))
        PROVE  Comes(q)'
    <2>1. Waits(q)' => Waits(q)
      BY <1>0, <1>2 DEF Waits, given
    <2> QED BY <1>0, <1>2, <2>1, ComesKeeps
  <1>3. ASSUME NEW p \in Procs, ReadsOptions(p) PROVE Comes(q)'
    <2>1. CASE q = p
      BY <1>0, <1>3, <2>1 DEF ReadsOptions, Comes, Waits, OwnTypes
    <2>2. CASE q # p
      <3>1. UNCHANGED <<queue, displayed>> /\ pc'[q] = pc[q]
            /\ failed'[q] = failed[q] /\ id'[q] = id[q]
        BY <1>0, <1>3, <2>2 DEF ReadsOptions, serverVars, OwnTypes
      <3>2. (Waits(q)' => Waits(q)) /\ Keeps(queue[q], queue'[q])
        BY <1>0, <3>1, KeepsItself DEF Waits, given
      <3> QED BY <1>0, <3>1, <3>2, ComesKeeps
    <2> QED BY <2>1, <2>2
  <1>4. ASSUME NEW p \in Procs, Shows(p) PROVE Comes(q)'
    <2>1. /\ ShownAs(p) \in Ids /\ id' = [id EXCEPT ![p] = ShownAs(p)]
          /\ displayed' = [displayed EXCEPT ![ShownAs(p)] = p] /\ p # None
          /\ pc' = [pc EXCEPT ![p] = "shown"] /\ UNCHANGED <<failed, queue>>
      BY <1>4, ConstantsAssumption DEF Shows, sendVars
    <2>2. CASE q = p
      BY <1>0, <2>1, <2>2 DEF Comes, OwnTypes
    <2>3. CASE q # p
      <3>1. \A j \in Ids : displayed'[j] = displayed[j] \/ displayed'[j] # None
        BY <1>0, <2>1
      <3>2. (Waits(q)' => Waits(q)) /\ Keeps(queue[q], queue'[q])
            /\ id'[q] = id[q]
        BY <1>0, <2>1, <2>3, KeepsItself DEF Waits, given, OwnTypes
      <3> QED BY <1>0, <3>1, <3>2, ComesKeeps
    <2> QED BY <2>2, <2>3
  <1>5. ASSUME NEW p \in Procs, DoesNotShow(p) PROVE Comes(q)'
    <2>1. pc' = [pc EXCEPT ![p] = "shown"] /\ pc[p] = "options"
          /\ UNCHANGED <<queue, displayed>>
      BY <1>5 DEF DoesNotShow
    <2>2. CASE q = p
      <3>1. failed'[p]
        BY <1>0, <1>5, <2>1, <2>2 DEF DoesNotShow, RunOK, OwnTypes
      <3> QED BY <2>2, <3>1 DEF Comes, Waits
    <2>3. CASE q # p
      <3>1. failed'[q] = failed[q] /\ id'[q] = id[q] /\ pc'[q] = pc[q]
        BY <1>0, <1>5, <2>1, <2>3 DEF DoesNotShow, OwnTypes
      <3>2. (Waits(q)' => Waits(q)) /\ Keeps(queue[q], queue'[q])
        BY <1>0, <2>1, <3>1, KeepsItself DEF Waits, given
      <3> QED BY <1>0, <2>1, <3>1, <3>2, ComesKeeps
    <2> QED BY <2>2, <2>3
  <1>6. ASSUME NEW p \in Procs, EntersLoop(p) PROVE Comes(q)'
    <2>1. UNCHANGED <<id, displayed, queue, failed>> /\ pc[p] = "shown"
          /\ pc' = [pc EXCEPT ![p] = "loop"]
      BY <1>6 DEF EntersLoop, sendVars, noteVars, serverVars
    <2> QED BY <1>0, <1>1, <2>1, KeepsItself DEF OwnTypes
  <1>7. ASSUME NEW p \in Procs, DoesNotWait(p) \/ LeavesLoop(p) PROVE Comes(q)'
    <2>1. UNCHANGED <<id, displayed, failed>>
          /\ pc' = [pc EXCEPT ![p] = "exited"]
          /\ queue' = [queue EXCEPT ![p] = << >>]
      BY <1>7 DEF DoesNotWait, LeavesLoop, Exits, sendVars, serverVars
    <2>2. CASE q = p
      BY <1>0, <2>1, <2>2 DEF Comes, Waits, OwnTypes
    <2>3. CASE q # p
      BY <1>0, <1>1, <2>1, <2>3, KeepsItself DEF OwnTypes
    <2> QED BY <2>2, <2>3
  <1>8. ASSUME NEW p \in Procs,
               TakesOther(p) \/ TakesClosed(p) \/ TakesAction(p)
        PROVE  Comes(q)'
    <2>1. /\ pc[p] = "loop" /\ queue[p] # << >> /\ UNCHANGED <<pc, failed>>
          /\ p \in Hearing
          /\ \A r \in Procs : r # p => id'[r] = id[r]
      <3>1. /\ pc[p] = "loop" /\ queue[p] # << >> /\ UNCHANGED <<pc, failed>>
        BY <1>8 DEF TakesOther, TakesClosed, TakesAction, Takes, sendVars
      <3>2. \A r \in Procs : r # p => id'[r] = id[r]
        BY <1>0, <1>8 DEF TakesOther, TakesClosed, TakesAction, IsClosed, OwnTypes
      <3> QED BY <3>1, <3>2 DEF Hearing
    <2>2. Head(queue[p]) \in Signals /\ Tail(queue[p]) \in Seq(Signals)
      BY <1>0, <2>1, TailSignals
    <2>3. CASE q # p
      <3>1. CASE UNCHANGED displayed /\ queue' = [queue EXCEPT ![p] = Tail(@)]
        <4>1. queue'[q] = queue[q] /\ id'[q] = id[q]
          BY <1>0, <2>1, <2>3, <3>1
        <4>2. (Waits(q)' => Waits(q)) /\ Keeps(queue[q], queue'[q])
          BY <1>0, <2>1, <4>1, KeepsItself DEF Waits, given
        <4> QED BY <1>0, <3>1, <4>1, <4>2, ComesKeeps
      <3>2. CASE AsksToClose(p, Tail(queue[p])) /\ UNCHANGED id
        <4>1. /\ Keeps(queue[q], queue'[q])
              /\ \A j \in Ids : \/ displayed'[j] = displayed[j]
                                \/ q \in Hearing => Has(queue'[q], CloseOf(j))
          BY <2>1, <2>2, <2>3, <3>2, AsksKeeps
        <4> QED BY <1>2, <2>1, <3>2, <4>1
      <3> QED BY <1>8, <3>1, <3>2 DEF TakesOther, TakesClosed, TakesAction
    <2>4. CASE q = p /\ TakesClosed(p)
      <3>1. Head(queue[p]).id = id[p] /\ id[p] # 0 /\ IsClosed(p, "closed")
        BY <2>2, <2>4, ConstantsAssumption
        DEF TakesClosed, Mine, Signals, Closed, Invoked, Ids
      <3>2. ~ closed[p]
        BY <1>0, <2>4, <3>1 DEF RunOK
      <3>3. id'[p] = 0
        BY <1>0, <3>1, <3>2 DEF IsClosed, OwnTypes
      <3> QED BY <2>4, <3>3 DEF Comes
    <2>5. CASE q = p /\ ~ TakesClosed(p)
      <3> SUFFICES ASSUME Waits(p)' PROVE Comes(p)'
        BY <2>5 DEF Comes
      <3>1. Waits(p) /\ connected[p]
        BY <1>0, <2>1, <2>5 DEF Waits, given, RunOK
      <3>2. Head(queue[p]) # CloseOf(id[p])
        <4>1. CASE TakesOther(p)
          BY <3>1, <4>1 DEF TakesOther, Mine, CloseOf
        <4>2. CASE TakesAction(p)
          BY <4>2 DEF TakesAction, Takes, CloseOf
        <4> QED BY <1>8, <2>5, <4>1, <4>2
      <3>3. CASE /\ UNCHANGED <<id, displayed>>
                 /\ queue' = [queue EXCEPT ![p] = Tail(@)]
        <4>1. Keeps(Tail(queue[p]), queue'[p])
          BY <1>0, <3>3, KeepsItself
        <4> QED BY <1>0, <2>1, <2>5, <3>1, <3>2, <3>3, <4>1, ComesTakes
      <3>4. CASE AsksToClose(p, Tail(queue[p])) /\ UNCHANGED id
        <4>1. /\ Keeps(Tail(queue[p]), queue'[p])
              /\ \A j \in Ids : \/ displayed'[j] = displayed[j]
                                \/ j = id[p] /\ Has(queue'[p], CloseOf(j))
          BY <2>1, <2>2, <3>4, AsksKeeps
        <4> QED BY <1>0, <2>1, <2>5, <3>1, <3>2, <3>4, <4>1, ComesTakes
      <3> QED BY <1>8, <2>5, <3>3, <3>4 DEF TakesOther, TakesAction
    <2> QED BY <2>3, <2>4, <2>5
  <1>9. ASSUME NEW p \in Procs, on_wait_timeout(p) PROVE Comes(q)'
    <2>1. UNCHANGED <<pc, failed, id, queue, displayed>>
      BY <1>9 DEF on_wait_timeout, sendVars, noteVars, serverVars
    <2> QED BY <1>2, <2>1, KeepsItself
  <1>10. ASSUME NEW p \in Procs, on_portal_timeout(p) PROVE Comes(q)'
    BY <1>10 DEF on_portal_timeout, RunInv, RunOK
  <1>11. ASSUME NEW p \in Procs, on_sigint(p) PROVE Comes(q)'
    <2>1. /\ UNCHANGED <<pc, failed, id>> /\ AsksToClose(p, queue[p])
          /\ p \in Hearing /\ queue[p] \in Seq(Signals)
      BY <1>0, <1>11 DEF on_sigint, sendVars, Hearing
    <2>2. /\ Keeps(queue[q], queue'[q])
          /\ \A j \in Ids : \/ displayed'[j] = displayed[j]
                            \/ q \in Hearing => Has(queue'[q], CloseOf(j))
      BY <2>1, AsksKeeps
    <2> QED BY <1>2, <2>1, <2>2
  <1>12. CASE Server
    BY <1>2, <1>12, ServerKeeps
  <1>13. CASE UNCHANGED vars
    <2>1. UNCHANGED <<pc, failed, id, queue, displayed>>
      BY <1>13 DEF vars, sendVars, noteVars, serverVars
    <2> QED BY <1>2, <2>1, KeepsItself
  <1> QED BY <1>3, <1>4, <1>5, <1>6, <1>7, <1>8, <1>9, <1>10, <1>11, <1>12, <1>13
      DEF Next, Program

LEMMA ComesInit == Init => ComesInv
  BY DEF Init, ComesInv, Comes, Waits

LEMMA WaitInvariant == Spec => [](TypeOK /\ RunInv /\ ExitInv /\ ComesInv)
  BY RunInvariant, ComesInit, ComesNext, PTL DEF Spec

(* A run that is in its main loop although its notification is no longer   *)
(* on screen has the close still to take, or was made to quit.             *)
THEOREM TheCloseReachesTheLoop == Spec => []TheCloseIsComing
  <1>1. TypeOK /\ RunInv /\ ComesInv => TheCloseIsComing
    <2> SUFFICES ASSUME TypeOK, RunInv, ComesInv, NEW p \in Procs, ~ Portal,
                        pc[p] = "loop", ~ failed[p], Gone(p), ~ quit[p]
                 PROVE  \E k \in DOMAIN queue[p] : Told(p, k, id[p])
      BY DEF TheCloseIsComing
    <2>1. Waits(p) /\ id[p] # 0
      BY DEF Waits, RunInv, RunOK
    <2>2. Has(queue[p], CloseOf(id[p]))
      BY <2>1 DEF ComesInv, Comes, Gone
    <2>3. queue[p] \in Seq(Signals)
      BY DEF TypeOK, Signals
    <2>4. DOMAIN queue[p] = 1 .. Len(queue[p])
      BY <2>3
    <2> QED BY <2>2, <2>4 DEF Told, Has, CloseOf
  <1> QED BY <1>1, WaitInvariant, PTL

(* A run that was told how long to wait has its timer, or was made to quit.*)
THEOREM TheTimerRuns == Spec => []TimeIsKept
  <1>1. TypeOK /\ RunInv => TimeIsKept
    <2> SUFFICES ASSUME TypeOK, RunInv, NEW p \in Procs,
                        args[p].expire_timeout > 0, pc[p] = "loop"
                 PROVE  timer[p] \/ quit[p]
      BY DEF TimeIsKept
    <2>1. args[p].expire_timeout # NOTIFY_EXPIRES_NEVER
      BY DEF NOTIFY_EXPIRES_NEVER
    <2> QED BY <2>1 DEF RunInv, RunOK
  <1> QED BY <1>1, WaitInvariant, PTL

(* The wait of a run that has exited was ended by its time, by the close   *)
(* of a notification that it had asked to show, or by ^C.                  *)
THEOREM NoWaitEndsOfItself == Spec => []WaitsForAReason
  <1>1. TypeOK /\ RunInv /\ ExitInv => WaitsForAReason
    BY DEF TypeOK, RunInv, RunOK, ExitInv, WaitsForAReason
  <1> QED BY <1>1, WaitInvariant, PTL

-----------------------------------------------------------------------------
(***************************************************************************)
(* The close of a run's notification, once queued, ends its wait.          *)
(***************************************************************************)
Nearer(p, k) ==
    \/ quit'[p]
    \/ pc'[p] = "loop" /\ k > 1 /\ Told(p, k - 1, id[p])'
    \/ pc'[p] = "loop" /\ ~ Program(p) /\ Told(p, k, id[p])'

(* Only its own main loop takes from a run's queue.                        *)
LEMMA NearerOthers ==
    ASSUME TypeOK, RunInv, [Next]_vars, ~ Portal, NEW p \in Procs,
           pc[p] = "loop", ~ quit[p], ~ Program(p)
    PROVE  \/ quit'[p]
           \/ /\ pc'[p] = "loop" /\ id'[p] = id[p]
              /\ Keeps(queue[p], queue'[p])
  <1> DEFINE Same == /\ pc'[p] = "loop" /\ id'[p] = id[p]
                     /\ Keeps(queue[p], queue'[p])
             Goal == quit'[p] \/ Same
  <1>0. /\ OwnTypes /\ queue \in [Procs -> Seq(Signals)]
        /\ Keeps(queue[p], queue[p])
    BY KeepsItself DEF TypeOK, OwnTypes, Signals
  <1> HIDE DEF Same, Goal
  <1>1. ASSUME UNCHANGED <<pc, id, queue>> PROVE Goal
    BY <1>0, <1>1 DEF Same, Goal
  <1>2. ASSUME NEW q \in Procs, q # p,
               ReadsOptions(q) \/ Shows(q) \/ DoesNotShow(q) \/ EntersLoop(q)
        PROVE  Goal
    <2>1. /\ \E w \in {"options", "shown", "loop"} : pc' = [pc EXCEPT ![q] = w]
          /\ UNCHANGED queue /\ \A r \in Procs : r # q => id'[r] = id[r]
      BY <1>0, <1>2 DEF ReadsOptions, Shows, DoesNotShow, EntersLoop, noteVars,
         OwnTypes
    <2> QED BY <1>0, <1>2, <2>1 DEF Same, Goal, OwnTypes
  <1>3. ASSUME NEW q \in Procs, q # p, DoesNotWait(q) \/ LeavesLoop(q)
        PROVE  Goal
    BY <1>0, <1>3 DEF DoesNotWait, LeavesLoop, Exits, Same, Goal, OwnTypes
  <1>4. ASSUME NEW q \in Procs, q # p,
               TakesOther(q) \/ TakesClosed(q) \/ TakesAction(q)
        PROVE  Goal
    <2>1. /\ pc[q] = "loop" /\ queue[q] # << >> /\ UNCHANGED pc
          /\ q \in Hearing
          /\ \A r \in Procs : r # q => id'[r] = id[r]
      <3>1. /\ pc[q] = "loop" /\ queue[q] # << >> /\ UNCHANGED pc
        BY <1>4 DEF TakesOther, TakesClosed, TakesAction, Takes
      <3>2. \A r \in Procs : r # q => id'[r] = id[r]
        BY <1>0, <1>4 DEF TakesOther, TakesClosed, TakesAction, IsClosed, OwnTypes
      <3> QED BY <3>1, <3>2 DEF Hearing
    <2>2. Tail(queue[q]) \in Seq(Signals)
      BY <1>0, <2>1, TailSignals
    <2>3. CASE queue' = [queue EXCEPT ![q] = Tail(@)]
      BY <1>0, <1>4, <2>1, <2>3 DEF Same, Goal
    <2>4. CASE AsksToClose(q, Tail(queue[q]))
      <3>1. Keeps(queue[p], queue'[p])
        BY <1>4, <2>1, <2>2, <2>4, AsksKeeps
      <3> QED BY <1>4, <2>1, <3>1 DEF Same, Goal
    <2> QED BY <1>4, <2>3, <2>4 DEF TakesOther, TakesClosed, TakesAction
  <1>5. ASSUME NEW q \in Procs, on_wait_timeout(q) \/ on_portal_timeout(q)
        PROVE  Goal
    <2>1. ~ portal_timeout_id[q]
      BY DEF RunInv, RunOK
    <2> QED BY <1>1, <1>5, <2>1 DEF on_wait_timeout, on_portal_timeout, noteVars
  <1>6. ASSUME NEW q \in Procs, on_sigint(q) PROVE Goal
    <2>1. /\ UNCHANGED <<pc, id>> /\ AsksToClose(q, queue[q])
          /\ q \in Hearing /\ queue[q] \in Seq(Signals)
      BY <1>0, <1>6 DEF on_sigint, Hearing
    <2>2. Keeps(queue[p], queue'[p])
      BY <2>1, AsksKeeps
    <2> QED BY <2>1, <2>2 DEF Same, Goal
  <1>7. ASSUME Server PROVE Goal
    BY <1>7, ServerKeeps DEF Same, Goal
  <1>8. ASSUME UNCHANGED vars PROVE Goal
    BY <1>1, <1>8 DEF vars, noteVars
  <1>9. Goal
    BY <1>2, <1>3, <1>4, <1>5, <1>6, <1>7, <1>8 DEF Next, Program
  <1> QED BY <1>9 DEF Same, Goal

(* A turn of it takes one signal, and quits at that close.                 *)
LEMMA NearerOwn ==
    ASSUME TypeOK, RunInv, ~ Portal, NEW p \in Procs, pc[p] = "loop",
           ~ failed[p], ~ quit[p], Program(p), NEW k \in 1 .. Len(queue[p]),
           queue[p][k] = CloseOf(id[p])
    PROVE  \/ quit'[p]
           \/ /\ pc'[p] = "loop" /\ id'[p] = id[p] /\ k > 1
              /\ k - 1 \in 1 .. Len(queue'[p])
              /\ queue'[p][k - 1] = CloseOf(id[p])
  <1>0. /\ OwnTypes /\ queue \in [Procs -> Seq(Signals)] /\ RunOK(p)
        /\ queue[p] \in Seq(Signals)
    BY DEF TypeOK, OwnTypes, Signals, RunInv
  <1>1. TakesOther(p) \/ TakesClosed(p) \/ TakesAction(p)
    BY DEF Program, ReadsOptions, Shows, DoesNotShow, EntersLoop, DoesNotWait,
           LeavesLoop
  <1>2. /\ queue[p] # << >> /\ UNCHANGED <<pc, connected>> /\ p \in Hearing
        /\ connected[p]
    <2>1. queue[p] # << >> /\ UNCHANGED <<pc, connected>>
      BY <1>1 DEF TakesOther, TakesClosed, TakesAction, Takes
    <2> QED BY <1>0, <2>1 DEF Hearing, RunOK, Waits
  <1>3. CASE TakesClosed(p)
    <2>1. IsClosed(p, "closed") /\ ~ closed[p]
      BY <1>0, <1>3 DEF TakesClosed, RunOK
    <2> QED BY <1>0, <2>1 DEF IsClosed, Quits, OwnTypes
  <1>4. CASE ~ TakesClosed(p)
    <2>1. Head(queue[p]) # CloseOf(id[p])
      <3>1. CASE TakesOther(p)
        BY <1>2, <3>1 DEF TakesOther, Mine, CloseOf
      <3>2. CASE TakesAction(p)
        BY <3>2 DEF TakesAction, Takes, CloseOf
      <3> QED BY <1>1, <1>4, <3>1, <3>2
    <2>2. /\ k - 1 \in 1 .. Len(Tail(queue[p])) /\ k > 1
          /\ Tail(queue[p])[k - 1] = CloseOf(id[p])
          /\ Tail(queue[p]) \in Seq(Signals)
      <3>1. \/ k = 1 /\ queue[p][k] = Head(queue[p])
            \/ /\ k - 1 \in 1 .. Len(Tail(queue[p]))
               /\ Tail(queue[p])[k - 1] = queue[p][k]
        BY <1>0, <1>2, TailMoves
      <3>2. k - 1 \in 1 .. Len(Tail(queue[p])) /\ Tail(queue[p]) \in Seq(Signals)
            /\ Tail(queue[p])[k - 1] = CloseOf(id[p])
        BY <1>0, <1>2, <2>1, <3>1
      <3> QED BY <3>2
    <2>3. UNCHANGED id /\ Keeps(Tail(queue[p]), queue'[p])
      <3>1. CASE UNCHANGED id /\ queue' = [queue EXCEPT ![p] = Tail(@)]
        BY <1>0, <3>1, KeepsItself
      <3>2. CASE AsksToClose(p, Tail(queue[p])) /\ UNCHANGED id
        BY <1>2, <2>2, <3>2, AsksKeeps
      <3> QED BY <1>1, <1>4, <3>1, <3>2 DEF TakesOther, TakesAction
    <2> QED BY <1>2, <2>2, <2>3 DEF Keeps
  <1> QED BY <1>3, <1>4

(* Nothing drops or overtakes the close of a run's notification, and each  *)
(* turn of the run's main loop brings it nearer.                           *)
THEOREM TheCloseEndsTheWait == Spec => TheCloseComesNearer
  <1> DEFINE A == \A p \in Procs : \A k \in DOMAIN queue[p] :
                      ~ Portal /\ pc[p] = "loop" /\ ~ failed[p] /\ ~ quit[p]
                        /\ Told(p, k, id[p]) => Nearer(p, k)
  <1>1. TypeOK /\ TypeOK' /\ RunInv /\ [Next]_vars => A
    <2> SUFFICES ASSUME TypeOK, TypeOK', RunInv, [Next]_vars, NEW p \in Procs,
                        NEW k \in DOMAIN queue[p], ~ Portal, pc[p] = "loop",
                        ~ failed[p], ~ quit[p], Told(p, k, id[p])
                 PROVE  Nearer(p, k)
      OBVIOUS
    <2>1. queue[p] \in Seq(Signals) /\ queue'[p] \in Seq(Signals)
      BY DEF TypeOK, Signals
    <2>2. /\ DOMAIN queue[p] = 1 .. Len(queue[p])
          /\ DOMAIN queue'[p] = 1 .. Len(queue'[p])
      BY <2>1
    <2>3. k \in 1 .. Len(queue[p]) /\ queue[p][k] = CloseOf(id[p])
      BY <2>2 DEF Told, CloseOf
    <2>4. CASE Program(p)
      <3>1. \/ quit'[p]
            \/ /\ pc'[p] = "loop" /\ id'[p] = id[p] /\ k > 1
               /\ k - 1 \in 1 .. Len(queue'[p])
               /\ queue'[p][k - 1] = CloseOf(id[p])
        BY <2>3, <2>4, NearerOwn
      <3> QED BY <2>2, <3>1 DEF Nearer, Told, CloseOf
    <2>5. CASE ~ Program(p)
      <3>1. \/ quit'[p]
            \/ /\ pc'[p] = "loop" /\ id'[p] = id[p]
               /\ Keeps(queue[p], queue'[p])
        BY <2>5, NearerOthers
      <3>2. \/ quit'[p]
            \/ /\ pc'[p] = "loop" /\ id'[p] = id[p]
               /\ k \in 1 .. Len(queue'[p]) /\ queue'[p][k] = CloseOf(id[p])
        BY <2>3, <3>1 DEF Keeps
      <3> QED BY <2>2, <2>5, <3>2 DEF Nearer, Told, CloseOf
    <2> QED BY <2>4, <2>5
  <1>2. TypeOK /\ TypeOK' /\ RunInv /\ [Next]_vars => [A]_vars
    BY <1>1
  <1>3. [][A]_vars <=> TheCloseComesNearer
    BY PTL DEF TheCloseComesNearer, Nearer
  <1> QED BY <1>2, <1>3, WaitInvariant, PTL DEF Spec

-----------------------------------------------------------------------------
(***************************************************************************)
(* The daemon's ids: the next one is not in use.                           *)
(***************************************************************************)
NextIdInv == ~ Portal => \A i \in Ids : displayed[i] # None => i < nextId

LEMMA NextIdNext == TypeOK /\ NextIdInv /\ [Next]_vars => NextIdInv'
  <1> SUFFICES ASSUME TypeOK, NextIdInv, [Next]_vars, ~ Portal PROVE NextIdInv'
    BY GivenStays DEF NextIdInv, given
  <1>0. /\ nextId \in Nat /\ displayed \in [Ids -> Procs \cup {None}]
        /\ Ids \subseteq Nat /\ \A i \in Ids : displayed[i] # None => i < nextId
    BY ConstantsAssumption DEF TypeOK, NextIdInv, Ids
  <1>1. ASSUME UNCHANGED nextId,
               \A i \in Ids : displayed'[i] \in {displayed[i], None}
        PROVE  NextIdInv'
    BY <1>0, <1>1 DEF NextIdInv
  <1>2. ASSUME NEW p \in Procs, Shows(p) PROVE NextIdInv'
    <2>1. /\ ShownAs(p) \in Ids
          /\ displayed' = [displayed EXCEPT ![ShownAs(p)] = p]
          /\ nextId' = IF ShownAs(p) >= nextId THEN ShownAs(p) + 1 ELSE nextId
      BY <1>2 DEF Shows
    <2>2. \A i \in Ids : displayed'[i] # None => i = ShownAs(p) \/ i < nextId
      BY <1>0, <2>1
    <2>3. ShownAs(p) < nextId' /\ nextId <= nextId' /\ nextId' \in Nat
      <3>1. ShownAs(p) \in Nat
        BY <1>0, <2>1
      <3>2. CASE ShownAs(p) >= nextId
        BY <1>0, <2>1, <3>1, <3>2
      <3>3. CASE ~ (ShownAs(p) >= nextId)
        BY <1>0, <2>1, <3>1, <3>3
      <3> QED BY <3>2, <3>3
    <2>4. ASSUME NEW i \in Ids, displayed'[i] # None PROVE i < nextId'
      <3>1. i \in Nat /\ (i = ShownAs(p) \/ i < nextId)
        BY <1>0, <2>2, <2>4
      <3> QED BY <1>0, <2>3, <3>1
    <2> QED BY <2>4 DEF NextIdInv
  <1>3. ASSUME NEW p \in Procs, NEW left, AsksToClose(p, left),
               UNCHANGED nextId
        PROVE  NextIdInv'
    <2>1. \A i \in Ids : displayed'[i] \in {displayed[i], None}
      BY <1>0, <1>3 DEF AsksToClose
    <2> QED BY <1>1, <1>3, <2>1
  <1>4. ASSUME NEW p \in Procs, displayed' = Removed(p), UNCHANGED nextId
        PROVE  NextIdInv'
    BY <1>1, <1>4 DEF Removed
  <1>5. ASSUME UNCHANGED <<displayed, nextId>> PROVE NextIdInv'
    BY <1>1, <1>5
  <1>6. ASSUME NEW p \in Procs,
               ReadsOptions(p) \/ DoesNotShow(p) \/ EntersLoop(p)
                 \/ DoesNotWait(p) \/ LeavesLoop(p)
        PROVE  NextIdInv'
    BY <1>4, <1>5, <1>6 DEF ReadsOptions, DoesNotShow, EntersLoop, DoesNotWait,
       LeavesLoop, Exits, serverVars
  <1>7. ASSUME NEW p \in Procs,
               TakesOther(p) \/ TakesClosed(p) \/ TakesAction(p)
        PROVE  NextIdInv'
    BY <1>3, <1>4, <1>5, <1>7 DEF TakesOther, TakesClosed, TakesAction, Takes
  <1>8. ASSUME NEW p \in Procs,
               on_wait_timeout(p) \/ on_portal_timeout(p) \/ on_sigint(p)
        PROVE  NextIdInv'
    BY <1>3, <1>4, <1>5, <1>8 DEF on_wait_timeout, on_portal_timeout, Removes,
       on_sigint, serverVars
  <1>9. CASE Server
    <2>1. UNCHANGED nextId
          /\ \A i \in Ids : displayed'[i] \in {displayed[i], None}
      BY <1>0, <1>9 DEF Server, Disappears, Activates, Hides
    <2> QED BY <1>1, <2>1
  <1>10. CASE UNCHANGED vars
    BY <1>5, <1>10 DEF vars, serverVars
  <1> QED BY <1>2, <1>6, <1>7, <1>8, <1>9, <1>10 DEF Next, Program

(* What a run takes down by showing its notification is what it was told   *)
(* to replace.                                                             *)
THEOREM ReplacementsAreAskedFor == Spec => ReplacesWhatItWasTold
  <1> DEFINE A == \A p \in Procs, i \in Ids :
                      ~ Portal /\ Shows(p) /\ displayed[i] # None
                        /\ displayed'[i] # displayed[i]
                          => i = args[p].notification_id
  <1>1. TypeOK /\ RunInv /\ NextIdInv => A
    <2> SUFFICES ASSUME TypeOK, RunInv, NextIdInv, NEW p \in Procs,
                        NEW i \in Ids, ~ Portal, Shows(p), displayed[i] # None,
                        displayed'[i] # displayed[i]
                 PROVE  i = args[p].notification_id
      OBVIOUS
    <2>1. displayed' = [displayed EXCEPT ![ShownAs(p)] = p]
          /\ displayed \in [Ids -> Procs \cup {None}] /\ nextId \in Nat
      BY DEF Shows, TypeOK
    <2>2. i = ShownAs(p)
      BY <2>1
    <2>3. i < nextId /\ i \in Nat
      BY DEF NextIdInv, Ids
    <2>4. i = id[p]
      BY <2>1, <2>2, <2>3 DEF ShownAs
    <2> QED BY <2>4 DEF Shows, RunInv, RunOK
  <1>2. TypeOK /\ RunInv /\ NextIdInv => [A]_vars
    BY <1>1
  <1>3. Init => NextIdInv
    BY DEF Init, NextIdInv
  <1>4. [][A]_vars <=> ReplacesWhatItWasTold
    BY PTL DEF ReplacesWhatItWasTold
  <1> QED BY <1>2, <1>3, <1>4, NextIdNext, WaitInvariant, PTL DEF Spec
=============================================================================

------------------- MODULE NotifyNotificationToken_proofs -------------------
(* Which token an activation and its launch context have, for any number   *)
(* of notifications, ids, queued signals and daemons.                      *)
EXTENDS NotifyNotification_proofs

-----------------------------------------------------------------------------
(* What the client hears, in the order in which it was sent.               *)
IsOwnerChange(k) == queue[k].kind = "NameOwnerChanged"

(* A call that is answered comes from a client that knows the daemon which *)
(* answers, or none: BusInv says that such a client has heard, or is about *)
(* to hear, nothing else than that daemon's signals, whose ids it counts.  *)
KnownOwners ==
    /\ name_owner <= epochs /\ daemon <= epochs
    /\ \A k \in 1 .. Len(queue) : IsOwnerChange(k) => queue[k].owner <= epochs
DisplayedIsCounted ==
    \A i \in Ids : displayed[i] # None => i < nextId /\ daemon # 0
KnownDaemon ==
    daemon # 0 /\ name_owner = daemon =>
        /\ signal # NoSignal => signal.id < nextId
        /\ \A k \in 1 .. Len(queue) :
               ~ IsOwnerChange(k) /\ queue[k].id < nextId
AnnouncedDaemon ==
    \A j, k \in 1 .. Len(queue) :
        j < k /\ IsOwnerChange(j) /\ daemon # 0 /\ queue[j].owner = daemon
            => ~ IsOwnerChange(k) /\ queue[k].id < nextId
NobodyIsSilent ==
    /\ name_owner = 0 => /\ signal = NoSignal
                         /\ queue # << >> => IsOwnerChange(1)
    /\ \A k \in 1 .. Len(queue) :
           k > 1 /\ IsOwnerChange(k - 1) /\ queue[k - 1].owner = 0
               => IsOwnerChange(k)
SomebodyIsAnnounced ==
    daemon # 0 => /\ queue = << >> => name_owner # 0
                  /\ queue # << >> /\ IsOwnerChange(Len(queue))
                         => queue[Len(queue)].owner # 0
BusInv == /\ KnownOwners /\ DisplayedIsCounted /\ KnownDaemon
          /\ AnnouncedDaemon /\ NobodyIsSilent /\ SomebodyIsAnnounced


-----------------------------------------------------------------------------
(* The queue loses its first signal, or gets more at its end.              *)
LEMMA QueueTail ==
    ASSUME TypeOK, queue # << >>, queue' = Tail(queue)
    PROVE  /\ Len(queue) \in Nat \ {0} /\ Len(queue') = Len(queue) - 1
           /\ Head(queue) = queue[1]
           /\ \A k \in 1 .. Len(queue') : queue'[k] = queue[k + 1]
  BY DEF TypeOK

Sends == /\ Len(queue) \in Nat /\ Len(queue') \in Nat
         /\ Len(queue') >= Len(queue)
         /\ \A k \in 1 .. Len(queue) : queue'[k] = queue[k]

LEMMA SendsOne ==
    ASSUME TypeOK, NEW s, queue' = Append(queue, s)
    PROVE  /\ Sends /\ queue' # << >> /\ Len(queue') = Len(queue) + 1
           /\ queue'[Len(queue')] = s
  <1>1. queue \in Seq(Signal \cup OwnerChange)
    BY DEF TypeOK
  <1> QED BY <1>1 DEF Sends

LEMMA SendsTwo ==
    ASSUME TypeOK, NEW s, NEW t, queue' = Append(Append(queue, s), t)
    PROVE  /\ Sends /\ queue' # << >> /\ Len(queue') = Len(queue) + 2
           /\ queue'[Len(queue) + 1] = s /\ queue'[Len(queue) + 2] = t
  <1>1. queue \in Seq(Signal \cup OwnerChange)
    BY DEF TypeOK
  <1> DEFINE q == Append(queue, s)
  <1>2. /\ q # << >> /\ Len(q) = Len(queue) + 1 /\ q[Len(queue) + 1] = s
        /\ \A k \in 1 .. Len(queue) : q[k] = queue[k]
        /\ Len(q) \in Nat /\ q \in Seq(Signal \cup OwnerChange \cup {s})
    BY <1>1
  <1>3. /\ queue' # << >> /\ Len(queue') = Len(q) + 1
        /\ queue'[Len(q) + 1] = t
        /\ \A k \in 1 .. Len(q) : queue'[k] = q[k]
    <2> HIDE DEF q
    <2>1. queue' = Append(q, t)
      BY DEF q
    <2> QED BY <1>2, <2>1
  <1> HIDE DEF q
  <1> QED BY <1>1, <1>2, <1>3 DEF Sends

(* The queue is empty exactly when it has no length. *)
LEMMA QueueEmpty ==
    ASSUME TypeOK
    PROVE  Len(queue) \in Nat /\ (queue = << >> <=> Len(queue) = 0)
  BY DEF TypeOK

(* Signals have ids, and only changes of the owner have an owner. *)
LEMMA QueueTypes ==
    ASSUME TypeOK, NEW k \in 1 .. Len(queue)
    PROVE  /\ IsOwnerChange(k) => queue[k].owner \in Epochs
           /\ ~ IsOwnerChange(k) => queue[k].id \in Ids /\ queue[k] \in Signal
  <1>1. queue[k] \in Signal \cup OwnerChange
    BY DEF TypeOK
  <1>2. ASSUME IsOwnerChange(k) PROVE queue[k].owner \in Epochs
    BY <1>1, <1>2, SignalKinds DEF IsOwnerChange, OwnerChange
  <1>3. ASSUME ~ IsOwnerChange(k)
        PROVE  queue[k].id \in Ids /\ queue[k] \in Signal
    <2>1. queue[k] \in Signal
      BY <1>1, <1>3 DEF IsOwnerChange, OwnerChange
    <2> QED BY <2>1 DEF Signal, ClosedSignal, ActionSignal, TokenSignal
  <1> QED BY <1>2, <1>3

-----------------------------------------------------------------------------
LEMMA BusInit == Init => BusInv
  BY ConstantsAssumption
  DEF Init, BusInv, KnownOwners, DisplayedIsCounted, KnownDaemon,
      AnnouncedDaemon, NobodyIsSilent, SomebodyIsAnnounced

busState == <<name_owner, daemon, epochs, queue>>

(* A step that neither sends nor takes a signal, and counts no id less.    *)
LEMMA BusQuiet ==
    ASSUME TypeOK, TypeOK', BusInv, UNCHANGED busState,
           signal' \in {signal, NoSignal}, nextId' >= nextId,
           DisplayedIsCounted'
    PROVE  BusInv'
  <1>1. nextId \in Int /\ nextId' \in Int
    BY ConstantsAssumption DEF TypeOK
  <1>2. KnownOwners' /\ NobodyIsSilent' /\ SomebodyIsAnnounced'
    BY DEF BusInv, KnownOwners, NobodyIsSilent, SomebodyIsAnnounced,
           busState, IsOwnerChange
  <1>3. KnownDaemon'
    <2>1. SUFFICES ASSUME daemon # 0, name_owner = daemon
                   PROVE  /\ signal' # NoSignal => signal'.id < nextId'
                          /\ \A k \in 1 .. Len(queue) :
                              ~ IsOwnerChange(k) /\ queue[k].id < nextId'
      BY DEF KnownDaemon, busState, IsOwnerChange
    <2>2. ASSUME signal' # NoSignal PROVE signal'.id < nextId'
      <3>1. signal' = signal /\ signal.id < nextId /\ signal \in Signal
        BY <2>1, <2>2 DEF BusInv, KnownDaemon, TypeOK
      <3>2. signal.id \in Int
        BY <3>1 DEF Signal, ClosedSignal, ActionSignal, TokenSignal, Ids
      <3> QED BY <1>1, <3>1, <3>2
    <2>3. ASSUME NEW k \in 1 .. Len(queue)
          PROVE  ~ IsOwnerChange(k) /\ queue[k].id < nextId'
      <3>1. ~ IsOwnerChange(k) /\ queue[k].id < nextId
        BY <2>1, <2>3 DEF BusInv, KnownDaemon
      <3>2. queue[k].id \in Int
        BY <2>3, <3>1, QueueTypes DEF Ids
      <3> QED BY <1>1, <3>1, <3>2
    <2> QED BY <2>2, <2>3
  <1>4. AnnouncedDaemon'
    <2>1. SUFFICES ASSUME NEW j \in 1 .. Len(queue), NEW k \in 1 .. Len(queue),
                          j < k, IsOwnerChange(j), daemon # 0,
                          queue[j].owner = daemon
                   PROVE  ~ IsOwnerChange(k) /\ queue[k].id < nextId'
      BY DEF AnnouncedDaemon, busState, IsOwnerChange
    <2>2. ~ IsOwnerChange(k) /\ queue[k].id < nextId
      BY <2>1 DEF BusInv, AnnouncedDaemon
    <2>3. queue[k].id \in Int
      BY <2>1, <2>2, QueueTypes DEF Ids
    <2> QED BY <1>1, <2>2, <2>3
  <1> QED BY <1>2, <1>3, <1>4 DEF BusInv

(* The daemon that runs sends signals of ids it has counted.               *)
LEMMA BusSends ==
    ASSUME TypeOK, TypeOK', BusInv, Sends, daemon # 0, Len(queue') > 0,
           UNCHANGED <<name_owner, daemon, epochs, signal, nextId>>,
           DisplayedIsCounted',
           \A k \in Len(queue) + 1 .. Len(queue') :
               queue'[k].kind # "NameOwnerChanged" /\ queue'[k].id < nextId,
           Len(queue') > Len(queue)
    PROVE  BusInv'
  <1> USE DEF Sends, IsOwnerChange
  <1>1. KnownOwners'
    BY DEF BusInv, KnownOwners
  <1>2. KnownDaemon'
    BY DEF BusInv, KnownDaemon
  <1>3. AnnouncedDaemon'
    <2>1. SUFFICES ASSUME NEW j \in 1 .. Len(queue'),
                          NEW k \in 1 .. Len(queue'),
                          j < k, queue'[j].kind = "NameOwnerChanged",
                          queue'[j].owner = daemon
                   PROVE  queue'[k].kind # "NameOwnerChanged"
                          /\ queue'[k].id < nextId
      BY DEF AnnouncedDaemon
    <2>2. j \in 1 .. Len(queue) /\ queue[j] = queue'[j]
      BY <2>1
    <2>3. CASE k \in 1 .. Len(queue)
      <3>1. queue[k] = queue'[k]
        BY <2>3
      <3> QED BY <2>1, <2>2, <2>3, <3>1 DEF BusInv, AnnouncedDaemon
    <2>4. CASE k \notin 1 .. Len(queue)
      BY <2>1, <2>4
    <2> QED BY <2>3, <2>4
  <1>4. NobodyIsSilent'
    <2>1. name_owner = 0 => queue # << >> /\ Len(queue) >= 1
      BY QueueEmpty DEF BusInv, SomebodyIsAnnounced
    <2>2. name_owner = 0 => queue'[1].kind = "NameOwnerChanged"
      BY <2>1 DEF BusInv, NobodyIsSilent
    <2>3. ASSUME NEW k \in 1 .. Len(queue'), k > 1,
                 queue'[k - 1].kind = "NameOwnerChanged",
                 queue'[k - 1].owner = 0
          PROVE  queue'[k].kind = "NameOwnerChanged"
      <3>1. k - 1 \in 1 .. Len(queue) /\ queue[k - 1] = queue'[k - 1]
        BY <2>3
      <3>2. k - 1 # Len(queue)
        BY <2>3, <3>1, QueueEmpty DEF BusInv, SomebodyIsAnnounced
      <3>3. k \in 1 .. Len(queue) /\ queue[k] = queue'[k]
        BY <2>3, <3>1, <3>2
      <3> QED BY <2>3, <3>1, <3>3 DEF BusInv, NobodyIsSilent
    <2> QED BY <2>2, <2>3 DEF BusInv, NobodyIsSilent
  <1>5. SomebodyIsAnnounced'
    <2>1. Len(queue') \in Len(queue) + 1 .. Len(queue')
      OBVIOUS
    <2>2. queue'[Len(queue')].kind # "NameOwnerChanged" /\ queue' # << >>
      BY <2>1
    <2> QED BY <2>2 DEF SomebodyIsAnnounced
  <1> QED BY <1>1, <1>2, <1>3, <1>4, <1>5 DEF BusInv

(* What the bus says of a daemon's end, or of its start, comes last.       *)
LEMMA BusAnnounces ==
    ASSUME TypeOK, TypeOK', BusInv, NEW o \in Epochs,
           queue' = Append(queue, [kind |-> "NameOwnerChanged", owner |-> o]),
           UNCHANGED <<name_owner, signal>>, daemon' = o, epochs' >= epochs,
           DisplayedIsCounted', o # 0 => o = epochs' /\ o > epochs
    PROVE  BusInv'
  <1> DEFINE s == [kind |-> "NameOwnerChanged", owner |-> o]
  <1>0. /\ Sends /\ queue' # << >> /\ Len(queue') = Len(queue) + 1
        /\ queue'[Len(queue')] = s
    BY SendsOne
  <1>1. /\ epochs \in Int /\ epochs' \in Int /\ name_owner \in Int
        /\ daemon \in Int /\ o \in Nat
    BY DEF TypeOK, Epochs
  <1>2. s.kind = "NameOwnerChanged" /\ s.owner = o
    OBVIOUS
  <1> HIDE DEF s
  <1> USE DEF Sends, IsOwnerChange
  <1>3. \A k \in 1 .. Len(queue) :
            IsOwnerChange(k) => queue[k].owner <= epochs
                                /\ queue[k].owner \in Int
    BY QueueTypes DEF BusInv, KnownOwners, Epochs
  <1>4. KnownOwners'
    <2>1. o <= epochs' /\ name_owner <= epochs'
      BY <1>1 DEF BusInv, KnownOwners, TypeOK, Epochs
    <2>2. ASSUME NEW k \in 1 .. Len(queue'),
                 queue'[k].kind = "NameOwnerChanged"
          PROVE  queue'[k].owner <= epochs'
      <3>1. CASE k = Len(queue')
        BY <1>0, <1>2, <2>1, <3>1
      <3>2. CASE k # Len(queue')
        BY <1>0, <1>1, <1>3, <2>2, <3>2
      <3> QED BY <3>1, <3>2
    <2> QED BY <2>1, <2>2 DEF KnownOwners
  <1>5. KnownDaemon'
    BY <1>1 DEF KnownDaemon, BusInv, KnownOwners
  <1>6. AnnouncedDaemon'
    <2>1. SUFFICES ASSUME NEW j \in 1 .. Len(queue'),
                          NEW k \in 1 .. Len(queue'),
                          j < k, queue'[j].kind = "NameOwnerChanged",
                          o # 0, queue'[j].owner = o
                   PROVE  FALSE
      BY DEF AnnouncedDaemon
    <2>2. j \in 1 .. Len(queue) /\ queue[j] = queue'[j]
      BY <1>0, <2>1
    <2> QED BY <1>1, <1>3, <2>1, <2>2
  <1>7. NobodyIsSilent'
    <2>1. name_owner = 0 => queue'[1].kind = "NameOwnerChanged"
      <3>1. CASE queue = << >>
        BY <1>0, <1>2, <3>1, QueueEmpty
      <3>2. CASE queue # << >>
        BY <1>0, <3>2, QueueEmpty DEF BusInv, NobodyIsSilent
      <3> QED BY <3>1, <3>2
    <2>2. ASSUME NEW k \in 1 .. Len(queue'), k > 1,
                 queue'[k - 1].kind = "NameOwnerChanged",
                 queue'[k - 1].owner = 0
          PROVE  queue'[k].kind = "NameOwnerChanged"
      <3>1. CASE k = Len(queue')
        BY <1>0, <1>2, <3>1
      <3>2. CASE k # Len(queue')
        <4>1. /\ k \in 1 .. Len(queue) /\ k - 1 \in 1 .. Len(queue)
              /\ queue[k] = queue'[k] /\ queue[k - 1] = queue'[k - 1]
          BY <1>0, <2>2, <3>2
        <4> QED BY <2>2, <4>1 DEF BusInv, NobodyIsSilent
      <3> QED BY <3>1, <3>2
    <2> QED BY <2>1, <2>2 DEF BusInv, NobodyIsSilent
  <1>8. SomebodyIsAnnounced'
    BY <1>0, <1>2 DEF SomebodyIsAnnounced
  <1> QED BY <1>4, <1>5, <1>6, <1>7, <1>8 DEF BusInv

(* The main loop takes a signal, or a change of the owner. *)
LEMMA BusDispatch ==
    ASSUME TypeOK, TypeOK', BusInv, Dispatch
    PROVE  BusInv'
  <1>1. /\ queue # << >> /\ queue' = Tail(queue)
        /\ UNCHANGED <<daemon, epochs, displayed, nextId>>
    BY DEF Dispatch, busVars, screenVars
  <1>2. /\ Len(queue) \in Nat \ {0} /\ Len(queue') = Len(queue) - 1
        /\ Head(queue) = queue[1]
        /\ \A k \in 1 .. Len(queue') : queue'[k] = queue[k + 1]
    BY <1>1, QueueTail
  <1>3. \/ /\ queue[1].kind = "NameOwnerChanged"
           /\ name_owner' = queue[1].owner /\ signal' = NoSignal
        \/ /\ queue[1].kind # "NameOwnerChanged"
           /\ name_owner' = name_owner /\ signal' = queue[1]
    BY <1>2 DEF Dispatch
  <1> USE DEF IsOwnerChange
  <1>4. KnownOwners' /\ DisplayedIsCounted'
    <2>1. name_owner' <= epochs
      BY <1>2, <1>3 DEF BusInv, KnownOwners
    <2>2. \A k \in 1 .. Len(queue') : k + 1 \in 1 .. Len(queue)
      BY <1>2
    <2> QED BY <1>1, <1>2, <2>1, <2>2
            DEF BusInv, KnownOwners, DisplayedIsCounted
  <1>5. KnownDaemon'
    <2>1. SUFFICES ASSUME daemon # 0, name_owner' = daemon
                   PROVE  /\ signal' # NoSignal => signal'.id < nextId
                          /\ \A k \in 1 .. Len(queue') :
                                 queue'[k].kind # "NameOwnerChanged"
                                 /\ queue'[k].id < nextId
      BY <1>1 DEF KnownDaemon
    <2>2. CASE queue[1].kind = "NameOwnerChanged"
      <3>1. queue[1].owner = daemon /\ signal' = NoSignal
        BY <1>3, <2>1, <2>2
      <3>2. ASSUME NEW k \in 1 .. Len(queue')
            PROVE  queue'[k].kind # "NameOwnerChanged" /\ queue'[k].id < nextId
        <4>1. /\ k + 1 \in 1 .. Len(queue) /\ 1 \in 1 .. Len(queue)
              /\ 1 < k + 1 /\ queue'[k] = queue[k + 1]
          BY <1>2
        <4> QED BY <2>1, <2>2, <3>1, <4>1 DEF BusInv, AnnouncedDaemon
      <3> QED BY <3>1, <3>2
    <2>3. CASE queue[1].kind # "NameOwnerChanged"
      <3>1. /\ name_owner = daemon /\ signal' = queue[1]
            /\ 1 \in 1 .. Len(queue)
            /\ \A k \in 1 .. Len(queue') : k + 1 \in 1 .. Len(queue)
        BY <1>2, <1>3, <2>1, <2>3
      <3> QED BY <1>2, <2>1, <3>1 DEF BusInv, KnownDaemon
    <2> QED BY <2>2, <2>3
  <1>6. AnnouncedDaemon'
    <2>1. SUFFICES ASSUME NEW j \in 1 .. Len(queue'),
                          NEW k \in 1 .. Len(queue'),
                          j < k, queue'[j].kind = "NameOwnerChanged",
                          daemon # 0, queue'[j].owner = daemon
                   PROVE  queue'[k].kind # "NameOwnerChanged"
                          /\ queue'[k].id < nextId
      BY <1>1 DEF AnnouncedDaemon
    <2>2. /\ j + 1 \in 1 .. Len(queue) /\ k + 1 \in 1 .. Len(queue)
          /\ j + 1 < k + 1 /\ queue'[j] = queue[j + 1]
          /\ queue'[k] = queue[k + 1]
      BY <1>2, <2>1
    <2> QED BY <2>1, <2>2 DEF BusInv, AnnouncedDaemon
  <1>7. NobodyIsSilent'
    <2>1. 1 \in 1 .. Len(queue)
      BY <1>2
    <2>2. ASSUME name_owner' = 0
          PROVE  /\ signal' = NoSignal
                 /\ queue' # << >> => queue'[1].kind = "NameOwnerChanged"
      <3>1. queue[1].kind = "NameOwnerChanged" /\ queue[1].owner = 0
            /\ signal' = NoSignal
        BY <1>1, <1>3, <2>2 DEF BusInv, NobodyIsSilent
      <3>2. ASSUME queue' # << >>
            PROVE  queue'[1].kind = "NameOwnerChanged"
        <4>1. Len(queue') # 0
          BY <3>2 DEF TypeOK
        <4>2. 2 \in 1 .. Len(queue) /\ queue'[1] = queue[2] /\ 2 - 1 = 1
          BY <1>2, <4>1
        <4> QED BY <3>1, <4>2 DEF BusInv, NobodyIsSilent
      <3> QED BY <3>1, <3>2
    <2>3. ASSUME NEW k \in 1 .. Len(queue'), k > 1,
                 queue'[k - 1].kind = "NameOwnerChanged",
                 queue'[k - 1].owner = 0
          PROVE  queue'[k].kind = "NameOwnerChanged"
      <3>1. /\ k + 1 \in 1 .. Len(queue) /\ k + 1 > 1
            /\ queue'[k - 1] = queue[(k + 1) - 1] /\ queue'[k] = queue[k + 1]
        BY <1>2, <2>3
      <3> QED BY <2>3, <3>1 DEF BusInv, NobodyIsSilent
    <2> QED BY <2>2, <2>3 DEF NobodyIsSilent
  <1>8. SomebodyIsAnnounced'
    <2>1. SUFFICES ASSUME daemon # 0
                   PROVE  /\ queue' = << >> => name_owner' # 0
                          /\ queue' # << >> /\
                             queue'[Len(queue')].kind = "NameOwnerChanged"
                               => queue'[Len(queue')].owner # 0
      BY <1>1 DEF SomebodyIsAnnounced
    <2>2. ASSUME queue' = << >> PROVE name_owner' # 0
      <3>1. Len(queue) = 1
        BY <1>2, <2>2
      <3> QED BY <1>1, <1>3, <2>1, <3>1
              DEF BusInv, SomebodyIsAnnounced, NobodyIsSilent
    <2>3. ASSUME queue' # << >> PROVE queue'[Len(queue')] = queue[Len(queue)]
      <3>1. Len(queue') # 0
        BY <2>3 DEF TypeOK
      <3> QED BY <1>2, <3>1
    <2> QED BY <1>1, <2>1, <2>2, <2>3 DEF BusInv, SomebodyIsAnnounced
  <1> QED BY <1>4, <1>5, <1>6, <1>7, <1>8 DEF BusInv

(* The two sides of a call that is answered: what is displayed then.       *)
LEMMA BusDisplays ==
    ASSUME TypeOK, TypeOK', BusInv, NEW n \in Notifs, NEW i, Reachable,
           Displays(n, i), UNCHANGED <<busState, signal>>
    PROVE  BusInv'
  <1>1. nextId \in Int /\ nextId' \in Int /\ daemon # 0
        /\ nextId' = (IF i >= nextId THEN i + 1 ELSE nextId) /\ i \in Ids
    BY ConstantsAssumption DEF TypeOK, Displays, Reachable
  <1>2. nextId' >= nextId /\ i < nextId'
    BY <1>1 DEF Ids
  <1>3. DisplayedIsCounted'
    <2>1. SUFFICES ASSUME NEW j \in Ids, displayed'[j] # None
                   PROVE  j < nextId'
      BY <1>1 DEF DisplayedIsCounted, busState
    <2>2. CASE j = i
      BY <1>2, <2>2
    <2>3. CASE j # i
      <3>1. displayed[j] # None
        BY <2>1, <2>3 DEF Displays, TypeOK
      <3>2. j < nextId
        BY <3>1 DEF BusInv, DisplayedIsCounted
      <3> QED BY <1>1, <1>2, <3>2 DEF Ids
    <2> QED BY <2>2, <2>3
  <1> QED BY <1>2, <1>3, BusQuiet DEF busState

LEMMA BusHides ==
    ASSUME TypeOK, TypeOK', BusInv, NEW i \in Ids, NEW r, Hides(i, r),
           UNCHANGED <<name_owner, daemon, epochs, signal>>
    PROVE  BusInv'
  <1> DEFINE s == [kind |-> "NotificationClosed", id |-> i,
                   of |-> displayed[i], reason |-> r]
  <1>1. /\ displayed[i] # None /\ queue' = Append(queue, s)
        /\ displayed' = [displayed EXCEPT ![i] = None] /\ nextId' = nextId
    BY DEF Hides
  <1>2. s.kind # "NameOwnerChanged" /\ s.id = i
    OBVIOUS
  <1>3. i < nextId /\ daemon # 0
    BY <1>1 DEF BusInv, DisplayedIsCounted
  <1> HIDE DEF s
  <1>4. DisplayedIsCounted'
    BY <1>1 DEF BusInv, DisplayedIsCounted, TypeOK
  <1>5. /\ Sends /\ Len(queue') = Len(queue) + 1
        /\ queue'[Len(queue')] = s
    BY <1>1, SendsOne
  <1>6. /\ Len(queue') > Len(queue) /\ Len(queue') > 0
        /\ \A k \in Len(queue) + 1 .. Len(queue') :
               queue'[k].kind # "NameOwnerChanged" /\ queue'[k].id < nextId
    BY <1>2, <1>3, <1>5 DEF Sends
  <1> QED BY <1>1, <1>3, <1>4, <1>5, <1>6, BusSends

LEMMA BusInvokes ==
    ASSUME TypeOK, TypeOK', BusInv, NEW i \in Ids, NEW k \in Keys,
           NEW t \in Tokens \cup {None}, Invoke(i, k, t)
    PROVE  BusInv'
  <1> DEFINE a == [kind |-> "ActionInvoked", id |-> i, of |-> displayed[i],
                   key |-> k, token |-> t]
             b == [kind |-> "ActivationToken", id |-> i,
                   of |-> displayed[i], token |-> t]
  <1>1. /\ a.kind # "NameOwnerChanged" /\ a.id = i
        /\ b.kind # "NameOwnerChanged" /\ b.id = i
    OBVIOUS
  <1>2. /\ displayed[i] # None
        /\ queue' = Append(queue, a) \/ queue' = Append(Append(queue, b), a)
        /\ UNCHANGED <<name_owner, daemon, epochs, signal, nextId, displayed>>
    BY DEF Invoke, loopVars, screenVars, busVars
  <1>3. i < nextId /\ daemon # 0
    BY <1>2 DEF BusInv, DisplayedIsCounted
  <1>4. DisplayedIsCounted'
    BY <1>2 DEF BusInv, DisplayedIsCounted
  <1> HIDE DEF a, b
  <1>5. /\ Sends /\ Len(queue') > Len(queue) /\ Len(queue') > 0
        /\ \A j \in Len(queue) + 1 .. Len(queue') :
               queue'[j].kind # "NameOwnerChanged" /\ queue'[j].id < nextId
    <2>1. CASE queue' = Append(queue, a)
      BY <1>1, <1>3, <2>1, SendsOne DEF Sends
    <2>2. CASE queue' = Append(Append(queue, b), a)
      <3>1. /\ Sends /\ Len(queue') = Len(queue) + 2
            /\ queue'[Len(queue) + 1] = b /\ queue'[Len(queue) + 2] = a
        BY <2>2, SendsTwo
      <3>2. \A j \in Len(queue) + 1 .. Len(queue') :
                j = Len(queue) + 1 \/ j = Len(queue) + 2
        BY <3>1 DEF Sends
      <3> QED BY <1>1, <1>3, <3>1, <3>2 DEF Sends
    <2> QED BY <1>2, <2>1, <2>2
  <1> QED BY <1>2, <1>3, <1>4, <1>5, BusSends

LEMMA BusStays ==
    ASSUME TypeOK, TypeOK', BusInv,
           UNCHANGED <<busState, displayed, nextId>>,
           signal' \in {signal, NoSignal}
    PROVE  BusInv'
  <1>1. nextId' >= nextId
    BY DEF TypeOK
  <1>2. DisplayedIsCounted'
    BY DEF BusInv, DisplayedIsCounted, busState
  <1> QED BY <1>1, <1>2, BusQuiet

LEMMA BusNext == TypeOK /\ TypeOK' /\ BusInv /\ [Next]_vars => BusInv'
  <1> SUFFICES ASSUME TypeOK, TypeOK', BusInv, [Next]_vars PROVE BusInv'
    OBVIOUS
  <1> USE DEF busState, busVars, loopVars, screenVars
  <1>1. ASSUME NEW n \in Notifs, New(n) PROVE BusInv'
    BY <1>1, BusStays DEF New
  <1>2. ASSUME NEW n \in Notifs, NEW k \in Keys, AddAction(n, k)
        PROVE  BusInv'
    BY <1>2, BusStays DEF AddAction
  <1>3. ASSUME NEW n \in Notifs, ClearActions(n) PROVE BusInv'
    BY <1>3, BusStays DEF ClearActions
  <1>4. ASSUME NEW n \in Notifs, ShowSucceeds(n) PROVE BusInv'
    BY <1>4, BusDisplays DEF ShowSucceeds, ShowStarts
  <1>5. ASSUME NEW n \in Notifs, ShowFails(n) PROVE BusInv'
    BY <1>5, BusStays DEF ShowFails, ShowStarts
  <1>6. ASSUME NEW n \in Notifs, ShowLosesReply(n) PROVE BusInv'
    BY <1>6, BusDisplays DEF ShowLosesReply, ShowStarts
  <1>7. ASSUME NEW n \in Notifs, Close(n) PROVE BusInv'
    <2>1. id[n] \in Ids
      BY <1>7 DEF Close, TypeOK, Ids
    <2> QED BY <1>7, <2>1, BusHides DEF Close
  <1>8. ASSUME NEW n \in Notifs, Unref(n) PROVE BusInv'
    BY <1>8, BusStays DEF Unref
  <1>9. CASE Dispatch
    BY <1>9, BusDispatch
  <1>10. ASSUME NEW n \in Notifs, Ignore(n) PROVE BusInv'
    BY <1>10, BusStays DEF Ignore, Visit
  <1>11. ASSUME NEW n \in Notifs, CloseBegins(n) PROVE BusInv'
    BY <1>11, BusStays DEF CloseBegins, Visit
  <1>12. ASSUME NEW n \in Notifs, TokenArrives(n) PROVE BusInv'
    BY <1>12, BusStays DEF TokenArrives, Visit
  <1>13. ASSUME NEW n \in Notifs, ActivateBegins(n) PROVE BusInv'
    BY <1>13, BusStays DEF ActivateBegins, Visit
  <1>14. ASSUME NEW n \in Notifs, CloseEnds(n) PROVE BusInv'
    BY <1>14, BusStays DEF CloseEnds, HandlerReturns
  <1>15. ASSUME NEW n \in Notifs, ActivateEnds(n) PROVE BusInv'
    BY <1>15, BusStays DEF ActivateEnds, HandlerReturns
  <1>16. CASE EndEmission
    BY <1>16, BusStays DEF EndEmission
  <1>17. ASSUME NEW i \in Ids, NEW r \in DaemonReasons, DaemonCloses(i, r)
         PROVE  BusInv'
    BY <1>17, BusHides DEF DaemonCloses
  <1>18. ASSUME NEW i \in Ids, NEW k \in Keys, NEW t \in Tokens \cup {None},
                Invoke(i, k, t)
         PROVE  BusInv'
    BY <1>18, BusInvokes
  <1>19. CASE Crash
    <2>1. DisplayedIsCounted'
      BY <1>19 DEF Crash, DisplayedIsCounted
    <2>2. 0 \in Epochs /\ epochs' >= epochs
      BY <1>19, ConstantsAssumption DEF Crash, Epochs, TypeOK
    <2> QED BY <1>19, <2>1, <2>2, BusAnnounces DEF Crash
  <1>20. CASE Start
    <2>1. DisplayedIsCounted'
      BY <1>20 DEF Start, BusInv, DisplayedIsCounted
    <2>2. epochs + 1 \in Epochs /\ epochs' = epochs + 1 /\ epochs + 1 >= epochs
          /\ epochs + 1 > epochs
      BY <1>20 DEF Start, Epochs, TypeOK
    <2> QED BY <1>20, <2>1, <2>2, BusAnnounces DEF Start
  <1>21. CASE UNCHANGED stateVars
    BY <1>21, BusStays DEF stateVars
  <1> QED
    BY <1>1, <1>2, <1>3, <1>4, <1>5, <1>6, <1>7, <1>8, <1>9, <1>10, <1>11,
       <1>12, <1>13, <1>14, <1>15, <1>16, <1>17, <1>18, <1>19, <1>20, <1>21
    DEF Next, MainLoop, Handler, Daemon, App, vars,
        notification_app_launch_context_new,
        notification_app_launch_context_finalize

LEMMA BusInvariant == Spec => []BusInv
  BY BusInit, BusNext, TypeCorrect, PTL DEF Spec

-----------------------------------------------------------------------------
(* An action follows its token in the queue; once the token is taken, it   *)
(* is with every notification that the action can be for.                  *)
TokenFor(n, s) == id[n] = s.id => activation_token[n] = s.token
Announces(t, a) ==
    t.kind = "ActivationToken" /\ t.id = a.id /\ t.token = a.token
IsAction(k) == queue[k].kind = "ActionInvoked"

ListenersHaveIds == \A n \in Notifs :
    id[n] # 0 /\ ref[n] # "gone" => n \in handlers
EmissionEnds ==
    /\ signal = NoSignal => todo = {}
    /\ frame # Idle => frame.n \notin todo
    /\ \A n \in Notifs : frame = ActionFrame(n) => signal.kind = "ActionInvoked"
TokensPrecede == \A k \in 1 .. Len(queue) :
    IsAction(k) /\ k > 1 => Announces(queue[k - 1], queue[k])
TokenIsTaken == queue # << >> /\ IsAction(1) =>
    /\ signal = NoSignal \/ Announces(signal, queue[1])
    /\ \A n \in handlers \ todo : TokenFor(n, queue[1])
TokenIsUsed == signal.kind = "ActionInvoked" =>
    /\ \A n \in todo : TokenFor(n, signal)
    /\ \A n \in Notifs :
           frame = ActionFrame(n) => activation_token[n] = signal.token
TokenInv == /\ ListenersHaveIds /\ EmissionEnds
            /\ TokensPrecede /\ TokenIsTaken /\ TokenIsUsed

(* The kinds of frame, and of signal, exclude each other. *)
LEMMA Frames ==
    /\ \A m, n \in Notifs : /\ ActionFrame(m) = ActionFrame(n) => m = n
                            /\ ClosedFrame(m) # ActionFrame(n)
    /\ \A n \in Notifs : ActionFrame(n) # Idle /\ ClosedFrame(n) # Idle
    /\ \A n \in Notifs : ActionFrame(n).n = n /\ ClosedFrame(n).n = n
  BY DEF ActionFrame, ClosedFrame, Idle

LEMMA TokenInit == Init => TokenInv
  BY Frames
  DEF Init, TokenInv, ListenersHaveIds, EmissionEnds, TokensPrecede,
      TokenIsTaken, TokenIsUsed, NoSignal

tokenState == <<id, ref, handlers, activation_token, signal, todo, frame>>

LEMMA TokenQuiet ==
    ASSUME TokenInv, UNCHANGED <<tokenState, queue>>
    PROVE  TokenInv'
  BY DEF TokenInv, ListenersHaveIds, EmissionEnds, TokensPrecede,
         TokenIsTaken, TokenIsUsed, TokenFor, IsAction, tokenState

(* What is sent is no action, or is an action after its token. *)
LEMMA TokenSends ==
    ASSUME TypeOK, TokenInv, Sends, queue' # << >>, UNCHANGED tokenState,
           \A k \in Len(queue) + 1 .. Len(queue') :
               queue'[k].kind = "ActionInvoked" =>
                   k > 1 /\ Announces(queue'[k - 1], queue'[k])
    PROVE  TokenInv'
  <1> USE DEF Sends, IsAction
  <1>1. ListenersHaveIds' /\ EmissionEnds' /\ TokenIsUsed'
    BY DEF TokenInv, ListenersHaveIds, EmissionEnds, TokenIsUsed, TokenFor,
           tokenState
  <1>2. TokensPrecede'
    <2>1. SUFFICES ASSUME NEW k \in 1 .. Len(queue'), k > 1,
                          queue'[k].kind = "ActionInvoked"
                   PROVE  Announces(queue'[k - 1], queue'[k])
      BY DEF TokensPrecede, Announces
    <2>2. CASE k \in 1 .. Len(queue)
      <3>1. queue'[k] = queue[k] /\ queue'[k - 1] = queue[k - 1]
        BY <2>1, <2>2
      <3> QED BY <2>1, <2>2, <3>1 DEF TokenInv, TokensPrecede
    <2>3. CASE k \notin 1 .. Len(queue)
      BY <2>1, <2>3
    <2> QED BY <2>2, <2>3
  <1>3. TokenIsTaken'
    <2>1. SUFFICES ASSUME queue'[1].kind = "ActionInvoked"
                   PROVE  /\ signal = NoSignal \/ Announces(signal, queue'[1])
                          /\ \A n \in handlers \ todo : TokenFor(n, queue'[1])
      BY DEF TokenIsTaken, TokenFor, Announces, tokenState
    <2>2. Len(queue) # 0
      <3>1. SUFFICES ASSUME Len(queue) = 0 PROVE FALSE
        OBVIOUS
      <3>2. Len(queue') # 0
        BY <3>1, QueueEmpty
      <3>3. 1 \in Len(queue) + 1 .. Len(queue')
        BY <3>1, <3>2
      <3> QED BY <2>1, <3>3
    <2>3. queue # << >> /\ queue'[1] = queue[1]
      BY <2>2, QueueEmpty
    <2> QED BY <2>1, <2>3 DEF TokenInv, TokenIsTaken
  <1> QED BY <1>1, <1>2, <1>3 DEF TokenInv

(* A signal that is no action is sent. *)
LEMMA TokenSendsOther ==
    ASSUME TypeOK, TokenInv, NEW s, queue' = Append(queue, s),
           s.kind # "ActionInvoked", UNCHANGED tokenState
    PROVE  TokenInv'
  <1>1. /\ Sends /\ queue' # << >> /\ Len(queue') = Len(queue) + 1
        /\ queue'[Len(queue')] = s
    BY SendsOne
  <1>2. \A k \in Len(queue) + 1 .. Len(queue') : queue'[k] = s
    BY <1>1 DEF Sends
  <1> QED BY <1>1, <1>2, TokenSends

(* An id that a call is answered with is new to every signal that is yet   *)
(* to be handled, or it is the notification's own.                         *)
LEMMA AnswerIsNew ==
    ASSUME TypeOK, BusInv, Reachable
    PROVE  /\ signal # NoSignal => signal.id # nextId /\ signal.id # 0
           /\ queue # << >> /\ IsAction(1) =>
                  queue[1].id # nextId /\ queue[1].id # 0
  <1>1. name_owner = 0 => /\ signal = NoSignal
                          /\ queue # << >> => IsOwnerChange(1)
    BY DEF BusInv, NobodyIsSilent
  <1>2. ASSUME signal # NoSignal PROVE signal.id # nextId /\ signal.id # 0
    <2>1. signal.id < nextId
      BY <1>1, <1>2 DEF Reachable, BusInv, KnownDaemon
    <2>2. signal.id \in Ids
      BY <1>2 DEF TypeOK, Signal, ClosedSignal, ActionSignal, TokenSignal
    <2> QED BY <2>1, <2>2 DEF TypeOK, Ids
  <1>3. ASSUME queue # << >>, IsAction(1)
        PROVE  queue[1].id # nextId /\ queue[1].id # 0
    <2>1. 1 \in 1 .. Len(queue) /\ ~ IsOwnerChange(1)
      BY <1>3, QueueEmpty DEF IsAction, IsOwnerChange
    <2>2. queue[1].id < nextId
      BY <1>1, <1>3, <2>1 DEF Reachable, BusInv, KnownDaemon
    <2>3. queue[1].id \in Ids
      BY <2>1, QueueTypes
    <2> QED BY <2>2, <2>3 DEF TypeOK, Ids
  <1> QED BY <1>2, <1>3

(* Signals have ids, and no notification without id is meant. *)
LEMMA NoSignalIsForZero ==
    ASSUME TypeOK
    PROVE  /\ signal # NoSignal => signal.id # 0
           /\ queue # << >> /\ IsAction(1) => queue[1].id # 0
  <1>1. ASSUME signal # NoSignal PROVE signal.id # 0
    BY <1>1 DEF TypeOK, Signal, ClosedSignal, ActionSignal, TokenSignal, Ids
  <1>2. ASSUME queue # << >>, IsAction(1) PROVE queue[1].id # 0
    <2>1. 1 \in 1 .. Len(queue) /\ ~ IsOwnerChange(1)
      BY <1>2, QueueEmpty DEF IsAction, IsOwnerChange
    <2> QED BY <2>1, QueueTypes DEF Ids
  <1> QED BY <1>1, <1>2

LEMMA TokenShow ==
    ASSUME TypeOK, TokenInv, NEW n \in Notifs, ShowStarts(n),
           \/ UNCHANGED id
           \/ \E j \in {id[n], nextId} : id' = [id EXCEPT ![n] = j],
           signal # NoSignal => id'[n] = id[n] \/ id'[n] # signal.id,
           queue # << >> /\ IsAction(1) =>
               id'[n] = id[n] \/ id'[n] # queue[1].id
    PROVE  TokenInv'
  <1>1. /\ handlers' = handlers \cup {n} /\ ref[n] # "gone"
        /\ UNCHANGED <<activation_token, ref, queue, signal, todo, frame>>
    BY DEF ShowStarts, Callable, Live, loopVars
  <1>2. \A m \in Notifs : m # n => id'[m] = id[m]
    BY DEF TypeOK
  <1>3. ListenersHaveIds'
    BY <1>1, <1>2 DEF TokenInv, ListenersHaveIds
  <1>4. EmissionEnds' /\ TokensPrecede'
    BY <1>1 DEF TokenInv, EmissionEnds, TokensPrecede, IsAction
  <1>5. TokenIsTaken'
    <2>1. SUFFICES ASSUME queue # << >>, IsAction(1),
                          NEW m \in (handlers \cup {n}) \ todo,
                          id'[m] = queue[1].id
                   PROVE  activation_token[m] = queue[1].token
      BY <1>1 DEF TokenInv, TokenIsTaken, IsAction, TokenFor
    <2>2. m \in Notifs
      BY DEF TypeOK
    <2>3. id[m] = queue[1].id /\ id[m] # 0
      BY <1>2, <2>1, <2>2, NoSignalIsForZero
    <2>4. m \in handlers \ todo
      BY <1>1, <2>1, <2>3 DEF TokenInv, ListenersHaveIds
    <2> QED BY <2>1, <2>3, <2>4 DEF TokenInv, TokenIsTaken, TokenFor
  <1>6. TokenIsUsed'
    <2>1. SUFFICES ASSUME signal.kind = "ActionInvoked", NEW m \in todo,
                          id'[m] = signal.id
                   PROVE  activation_token[m] = signal.token
      BY <1>1 DEF TokenInv, TokenIsUsed, TokenFor
    <2>2. m \in Notifs /\ signal # NoSignal
      BY <2>1 DEF TypeOK, NoSignal
    <2>3. id[m] = signal.id
      BY <1>2, <2>1, <2>2
    <2> QED BY <2>1, <2>3 DEF TokenInv, TokenIsUsed, TokenFor
  <1> QED BY <1>3, <1>4, <1>5, <1>6 DEF TokenInv

LEMMA TokenShowAnswered ==
    ASSUME TypeOK, BusInv, TokenInv, NEW n \in Notifs, ShowStarts(n),
           Reachable,
           UNCHANGED id \/ id' = [id EXCEPT ![n] = NotifyId(id[n])]
    PROVE  TokenInv'
  <1>1. NotifyId(id[n]) \in {id[n], nextId}
    BY DEF NotifyId
  <1>2. id'[n] = id[n] \/ id'[n] = nextId
    BY <1>1 DEF TypeOK
  <1> QED BY <1>1, <1>2, AnswerIsNew, TokenShow

(* The end of an object takes it out of the emission.                      *)
LEMMA TokenFinalizes ==
    ASSUME TypeOK, TokenInv, NEW n \in Notifs,
           Finalizes(n) \/ UNCHANGED <<ref, handlers, todo>>,
           UNCHANGED <<queue, signal>>, frame' \in {frame, Idle},
           id' = id \/ id' = [id EXCEPT ![n] = 0],
           \A m \in Notifs :
               activation_token'[m] = activation_token[m]
               \/ /\ m \notin todo /\ signal.kind = "ActionInvoked"
                  /\ frame' = Idle
    PROVE  TokenInv'
  <1>1. /\ ref' \in [Notifs -> {"none", "held", "kept", "gone"}]
        /\ \A m \in Notifs : m # n => ref'[m] = ref[m]
        /\ ref'[n] # "gone" => ref'[n] = ref[n]
        /\ handlers' \subseteq handlers /\ handlers \ {n} \subseteq handlers'
        /\ todo' \subseteq todo /\ handlers' \ todo' \subseteq handlers \ todo
        /\ n \in handlers \ handlers' => ref'[n] = "gone"
        /\ handlers \subseteq Notifs /\ todo \subseteq Notifs
    BY DEF Finalizes, TypeOK
  <1>2. \A m \in Notifs : id'[m] = id[m] \/ id'[m] = 0
    BY DEF TypeOK
  <1>3. ListenersHaveIds'
    <2>1. SUFFICES ASSUME NEW m \in Notifs, id'[m] # 0, ref'[m] # "gone"
                   PROVE  m \in handlers'
      BY DEF ListenersHaveIds
    <2>2. id[m] # 0 /\ ref[m] # "gone"
      BY <1>1, <1>2, <2>1
    <2>3. m \in handlers
      BY <2>2 DEF TokenInv, ListenersHaveIds
    <2> QED BY <1>1, <2>1, <2>3
  <1>4. EmissionEnds'
    BY <1>1, Frames DEF TokenInv, EmissionEnds
  <1>5. TokensPrecede'
    BY DEF TokenInv, TokensPrecede, IsAction
  <1>6. TokenIsTaken'
    <2>1. SUFFICES ASSUME queue # << >>, IsAction(1)
                   PROVE  /\ signal = NoSignal \/ Announces(signal, queue[1])
                          /\ \A m \in handlers' \ todo' :
                                 id'[m] = queue[1].id =>
                                     activation_token'[m] = queue[1].token
      BY DEF TokenIsTaken, IsAction, TokenFor
    <2>2. /\ signal = NoSignal \/ Announces(signal, queue[1])
          /\ signal.kind # "ActionInvoked"
      BY <2>1 DEF TokenInv, TokenIsTaken, Announces, NoSignal
    <2>3. ASSUME NEW m \in handlers' \ todo', id'[m] = queue[1].id
          PROVE  activation_token'[m] = queue[1].token
      <3>1. m \in Notifs /\ m \in handlers \ todo
        BY <1>1, <2>3
      <3>2. id[m] = queue[1].id
        BY <1>2, <2>1, <2>3, <3>1, NoSignalIsForZero
      <3>3. activation_token'[m] = activation_token[m]
        BY <2>2, <3>1
      <3> QED BY <2>1, <3>1, <3>2, <3>3 DEF TokenInv, TokenIsTaken, TokenFor
    <2> QED BY <2>2, <2>3
  <1>7. TokenIsUsed'
    <2>1. SUFFICES ASSUME signal.kind = "ActionInvoked"
                   PROVE  /\ \A m \in todo' : id'[m] = signal.id =>
                                activation_token'[m] = signal.token
                          /\ \A m \in Notifs : frame' = ActionFrame(m) =>
                                activation_token'[m] = signal.token
      BY DEF TokenIsUsed, TokenFor
    <2>2. signal # NoSignal
      BY <2>1 DEF NoSignal
    <2>3. ASSUME NEW m \in todo', id'[m] = signal.id
          PROVE  activation_token'[m] = signal.token
      <3>1. m \in Notifs /\ m \in todo
        BY <1>1, <2>3
      <3>2. id[m] = signal.id
        BY <1>2, <2>2, <2>3, <3>1, NoSignalIsForZero
      <3> QED BY <2>1, <3>1, <3>2 DEF TokenInv, TokenIsUsed, TokenFor
    <2>4. ASSUME NEW m \in Notifs, frame' = ActionFrame(m)
          PROVE  activation_token'[m] = signal.token
      BY <2>1, <2>4, Frames DEF TokenInv, TokenIsUsed
    <2> QED BY <2>3, <2>4
  <1> QED BY <1>3, <1>4, <1>5, <1>6, <1>7 DEF TokenInv

(* proxy_g_signal_cb is done with n, which keeps its id and its reference. *)
LEMMA TokenVisit ==
    ASSUME TypeOK, TokenInv, NEW n \in Notifs, Visit(n), UNCHANGED id,
           \A m \in Notifs \ {n} : activation_token'[m] = activation_token[m],
           \/ frame' = frame
           \/ frame' = ClosedFrame(n)
           \/ frame' = ActionFrame(n) /\ signal.kind = "ActionInvoked",
           signal.kind = "ActivationToken" /\ id[n] = signal.id
               => activation_token'[n] = signal.token,
           frame' = ActionFrame(n) => activation_token'[n] = signal.token
    PROVE  TokenInv'
  <1>1. /\ frame = Idle /\ n \in todo /\ todo' = todo \ {n} /\ n \notin todo'
        /\ UNCHANGED <<id, ref, handlers, queue, signal>>
        /\ handlers \subseteq Notifs /\ todo \subseteq Notifs
        /\ signal # NoSignal
    BY DEF Visit, lifeVars, TypeOK, TokenInv, EmissionEnds
  <1>2. ListenersHaveIds' /\ TokensPrecede'
    BY <1>1 DEF TokenInv, ListenersHaveIds, TokensPrecede, IsAction
  <1>3. EmissionEnds'
    BY <1>1, Frames DEF TokenInv, EmissionEnds
  <1>4. TokenIsTaken'
    <2>1. SUFFICES ASSUME queue # << >>, IsAction(1)
                   PROVE  /\ signal = NoSignal \/ Announces(signal, queue[1])
                          /\ \A m \in handlers \ todo' : id[m] = queue[1].id =>
                                 activation_token'[m] = queue[1].token
      BY <1>1 DEF TokenIsTaken, IsAction, TokenFor
    <2>2. /\ signal.kind = "ActivationToken" /\ signal.id = queue[1].id
          /\ signal.token = queue[1].token /\ Announces(signal, queue[1])
      BY <1>1, <2>1 DEF TokenInv, TokenIsTaken, Announces
    <2>3. ASSUME NEW m \in handlers \ todo', id[m] = queue[1].id
          PROVE  activation_token'[m] = queue[1].token
      <3>1. CASE m = n
        BY <2>2, <2>3, <3>1
      <3>2. CASE m # n
        <4>1. m \in handlers \ todo /\ m \in Notifs \ {n}
          BY <1>1, <3>2
        <4> QED BY <2>1, <2>3, <4>1 DEF TokenInv, TokenIsTaken, TokenFor
      <3> QED BY <3>1, <3>2
    <2> QED BY <2>2, <2>3
  <1>5. TokenIsUsed'
    <2>1. SUFFICES ASSUME signal.kind = "ActionInvoked"
                   PROVE  /\ \A m \in todo' : id[m] = signal.id =>
                                activation_token'[m] = signal.token
                          /\ \A m \in Notifs : frame' = ActionFrame(m) =>
                                activation_token'[m] = signal.token
      BY <1>1 DEF TokenIsUsed, TokenFor
    <2>2. \A m \in todo' : m \in todo /\ m \in Notifs \ {n}
      BY <1>1
    <2>3. \A m \in Notifs : frame' = ActionFrame(m) => m = n
      BY <1>1, Frames
    <2> QED BY <2>1, <2>2, <2>3 DEF TokenInv, TokenIsUsed, TokenFor
  <1> QED BY <1>2, <1>3, <1>4, <1>5 DEF TokenInv

LEMMA TokenDispatch ==
    ASSUME TypeOK, HandlerInv, TokenInv, Dispatch
    PROVE  TokenInv'
  <1>1. /\ queue # << >> /\ queue' = Tail(queue) /\ signal = NoSignal
        /\ UNCHANGED <<id, ref, handlers, activation_token, frame>>
    BY DEF Dispatch, notifyVars, lifeVars
  <1>2. /\ Len(queue) \in Nat \ {0} /\ Len(queue') = Len(queue) - 1
        /\ Head(queue) = queue[1]
        /\ \A k \in 1 .. Len(queue') : queue'[k] = queue[k + 1]
    BY <1>1, QueueTail
  <1>3. frame = Idle /\ todo = {} /\ handlers \subseteq Notifs
    BY <1>1 DEF HandlerInv, CallbacksOnLiveObjects, TokenInv, EmissionEnds,
                TypeOK
  <1>4. \/ /\ queue[1].kind = "NameOwnerChanged"
           /\ signal' = NoSignal /\ todo' = {}
        \/ /\ queue[1].kind # "NameOwnerChanged"
           /\ signal' = queue[1] /\ todo' = handlers
    BY <1>1, <1>2, <1>3 DEF Dispatch
  <1>5. ListenersHaveIds'
    BY <1>1 DEF TokenInv, ListenersHaveIds
  <1>6. EmissionEnds'
    <2>1. 1 \in 1 .. Len(queue) /\ queue[1] \in Signal \cup OwnerChange
      BY <1>2 DEF TypeOK
    <2>2. queue[1] # NoSignal
      BY <2>1 DEF Signal, ClosedSignal, ActionSignal, TokenSignal,
                  OwnerChange, NoSignal
    <2> QED BY <1>1, <1>3, <1>4, <2>2, Frames DEF EmissionEnds
  <1>7. TokensPrecede'
    <2>1. SUFFICES ASSUME NEW k \in 1 .. Len(queue'), k > 1,
                          queue'[k].kind = "ActionInvoked"
                   PROVE  Announces(queue'[k - 1], queue'[k])
      BY DEF TokensPrecede, IsAction, Announces
    <2>2. /\ k + 1 \in 1 .. Len(queue) /\ k + 1 > 1
          /\ queue'[k] = queue[k + 1] /\ queue'[k - 1] = queue[(k + 1) - 1]
      BY <1>2, <2>1
    <2> QED BY <2>1, <2>2 DEF TokenInv, TokensPrecede, IsAction
  <1>8. TokenIsTaken'
    <2>1. SUFFICES ASSUME queue' # << >>, queue'[1].kind = "ActionInvoked"
                   PROVE  /\ signal' = NoSignal
                             \/ Announces(signal', queue'[1])
                          /\ handlers' \ todo' = {}
      BY DEF TokenIsTaken, IsAction, Announces
    <2>2. Len(queue') # 0
      BY <1>1, <2>1 DEF TypeOK
    <2>3. 2 \in 1 .. Len(queue) /\ queue'[1] = queue[2] /\ 2 - 1 = 1
      BY <1>2, <2>2
    <2>4. Announces(queue[1], queue[2])
      BY <2>1, <2>3 DEF TokenInv, TokensPrecede, IsAction
    <2>5. queue[1].kind # "NameOwnerChanged"
      BY <2>4 DEF Announces
    <2> QED BY <1>1, <1>4, <2>3, <2>4, <2>5
  <1>9. TokenIsUsed'
    <2>1. SUFFICES ASSUME signal'.kind = "ActionInvoked"
                   PROVE  \A n \in todo' : id[n] = signal'.id =>
                              activation_token[n] = signal'.token
      BY <1>1, <1>3, Frames DEF TokenIsUsed, TokenFor
    <2>2. signal' = queue[1] /\ todo' = handlers
      BY <1>4, <2>1 DEF NoSignal
    <2> QED BY <1>1, <1>3, <2>1, <2>2
            DEF TokenInv, TokenIsTaken, IsAction, TokenFor
  <1> QED BY <1>5, <1>6, <1>7, <1>8, <1>9 DEF TokenInv

LEMMA TokenInvokes ==
    ASSUME TypeOK, TokenInv, "untokened" \notin Environment,
           NEW i \in Ids, NEW k \in Keys, NEW t \in Tokens \cup {None},
           Invoke(i, k, t)
    PROVE  TokenInv'
  <1> DEFINE a == [kind |-> "ActionInvoked", id |-> i, of |-> displayed[i],
                   key |-> k, token |-> t]
             b == [kind |-> "ActivationToken", id |-> i,
                   of |-> displayed[i], token |-> t]
  <1>1. Announces(b, a) /\ b.kind # "ActionInvoked"
    BY DEF Announces
  <1>2. queue' = Append(Append(queue, b), a) /\ UNCHANGED tokenState
    BY DEF Invoke, tokenState, notifyVars, lifeVars, loopVars
  <1> HIDE DEF a, b
  <1>3. /\ Sends /\ queue' # << >> /\ Len(queue') = Len(queue) + 2
        /\ queue'[Len(queue) + 1] = b /\ queue'[Len(queue) + 2] = a
    BY <1>2, SendsTwo
  <1>4. \A j \in Len(queue) + 1 .. Len(queue') :
            queue'[j].kind = "ActionInvoked" =>
                j > 1 /\ Announces(queue'[j - 1], queue'[j])
    <2>1. SUFFICES ASSUME NEW j \in Len(queue) + 1 .. Len(queue'),
                          queue'[j].kind = "ActionInvoked"
                   PROVE  j > 1 /\ Announces(queue'[j - 1], queue'[j])
      OBVIOUS
    <2>2. j = Len(queue) + 2 /\ j > 1 /\ j - 1 = Len(queue) + 1
      BY <1>1, <1>3, <2>1 DEF Sends
    <2> QED BY <1>1, <1>3, <2>2
  <1> QED BY <1>2, <1>3, <1>4, TokenSends

LEMMA TokenNext ==
    /\ TypeOK /\ HandlerInv /\ BusInv /\ TokenInv
    /\ "untokened" \notin Environment /\ [Next]_vars
    => TokenInv'
  <1> SUFFICES ASSUME TypeOK, HandlerInv, BusInv, TokenInv,
                      "untokened" \notin Environment, [Next]_vars
               PROVE  TokenInv'
    OBVIOUS
  <1> USE DEF tokenState, notifyVars, lifeVars, loopVars
  <1>1. ASSUME NEW n \in Notifs, New(n) PROVE TokenInv'
    <2>1. /\ UNCHANGED <<id, handlers, activation_token, signal, todo, frame,
                         queue>>
          /\ \A m \in Notifs : ref'[m] = "gone" <=> ref[m] = "gone"
      BY <1>1 DEF New, TypeOK
    <2> QED BY <2>1
            DEF TokenInv, ListenersHaveIds, EmissionEnds, TokensPrecede,
                TokenIsTaken, TokenIsUsed, TokenFor, IsAction
  <1>2. ASSUME NEW n \in Notifs, NEW k \in Keys, AddAction(n, k)
        PROVE  TokenInv'
    BY <1>2, TokenQuiet DEF AddAction
  <1>3. ASSUME NEW n \in Notifs, ClearActions(n) PROVE TokenInv'
    BY <1>3, TokenQuiet DEF ClearActions
  <1>4. ASSUME NEW n \in Notifs, ShowSucceeds(n) PROVE TokenInv'
    BY <1>4, TokenShowAnswered DEF ShowSucceeds
  <1>5. ASSUME NEW n \in Notifs, ShowFails(n) PROVE TokenInv'
    BY <1>5, TokenShow DEF ShowFails
  <1>6. ASSUME NEW n \in Notifs, ShowLosesReply(n) PROVE TokenInv'
    BY <1>6, TokenShow DEF ShowLosesReply
  <1>7. ASSUME NEW n \in Notifs, Close(n) PROVE TokenInv'
    BY <1>7, TokenSendsOther DEF Close, Hides
  <1>8. ASSUME NEW n \in Notifs, Unref(n) PROVE TokenInv'
    <2>1. CASE frame.n = n
      <3>1. /\ UNCHANGED <<id, handlers, activation_token, signal, todo,
                           frame, queue>>
            /\ \A m \in Notifs : ref'[m] = "gone" <=> ref[m] = "gone"
        BY <1>8, <2>1 DEF Unref, TypeOK
      <3> QED BY <3>1
              DEF TokenInv, ListenersHaveIds, EmissionEnds, TokensPrecede,
                  TokenIsTaken, TokenIsUsed, TokenFor, IsAction
    <2>2. CASE frame.n # n
      BY <1>8, <2>2, TokenFinalizes DEF Unref
    <2> QED BY <2>1, <2>2
  <1>9. CASE Dispatch
    BY <1>9, TokenDispatch
  <1>10. ASSUME NEW n \in Notifs, Ignore(n) PROVE TokenInv'
    <2>1. frame' # ActionFrame(n) /\ id[n] # signal.id
      BY <1>10, Frames DEF Ignore, Mine, Visit
    <2> QED BY <1>10, <2>1, TokenVisit DEF Ignore
  <1>11. ASSUME NEW n \in Notifs, CloseBegins(n) PROVE TokenInv'
    <2>1. /\ frame' # ActionFrame(n) /\ signal.kind # "ActivationToken"
          /\ frame' = frame \/ frame' = ClosedFrame(n)
      BY <1>11, Frames DEF CloseBegins, Visit
    <2> QED BY <1>11, <2>1, TokenVisit DEF CloseBegins
  <1>12. ASSUME NEW n \in Notifs, TokenArrives(n) PROVE TokenInv'
    <2>1. frame' = frame /\ frame' # ActionFrame(n)
      BY <1>12, Frames DEF TokenArrives, Visit
    <2>2. /\ activation_token'[n] = signal.token
          /\ \A m \in Notifs \ {n} : activation_token'[m] = activation_token[m]
      BY <1>12 DEF TokenArrives, TypeOK
    <2> QED BY <1>12, <2>1, <2>2, TokenVisit DEF TokenArrives
  <1>13. ASSUME NEW n \in Notifs, ActivateBegins(n) PROVE TokenInv'
    <2>1. /\ n \in todo /\ signal.id = id[n] /\ signal.kind = "ActionInvoked"
          /\ frame' = frame \/ frame' = ActionFrame(n)
          /\ UNCHANGED <<id, activation_token>>
      BY <1>13 DEF ActivateBegins, Visit, Mine
    <2>2. activation_token'[n] = signal.token
      BY <2>1 DEF TokenInv, TokenIsUsed, TokenFor
    <2> QED BY <1>13, <2>1, <2>2, TokenVisit DEF ActivateBegins
  <1>14. ASSUME NEW n \in Notifs, CloseEnds(n) PROVE TokenInv'
    <2>1. Finalizes(n) \/ UNCHANGED <<ref, handlers, todo>>
      BY <1>14 DEF CloseEnds, HandlerReturns
    <2> QED BY <1>14, <2>1, TokenFinalizes DEF CloseEnds, HandlerReturns
  <1>15. ASSUME NEW n \in Notifs, ActivateEnds(n) PROVE TokenInv'
    <2>1. Finalizes(n) \/ UNCHANGED <<ref, handlers, todo>>
      BY <1>15 DEF ActivateEnds, HandlerReturns
    <2>2. n \notin todo /\ signal.kind = "ActionInvoked"
      BY <1>15, Frames DEF ActivateEnds, TokenInv, EmissionEnds
    <2>3. \A m \in Notifs : m # n =>
              activation_token'[m] = activation_token[m]
      BY <1>15 DEF ActivateEnds, TypeOK
    <2> QED BY <1>15, <2>1, <2>2, <2>3, TokenFinalizes
            DEF ActivateEnds, HandlerReturns
  <1>16. CASE EndEmission
    <2>1. /\ UNCHANGED <<id, ref, handlers, activation_token, todo, frame,
                         queue>>
          /\ todo = {} /\ frame = Idle /\ signal' = NoSignal
      BY <1>16 DEF EndEmission
    <2> QED BY <2>1, Frames
            DEF TokenInv, ListenersHaveIds, EmissionEnds, TokensPrecede,
                TokenIsTaken, TokenIsUsed, TokenFor, IsAction, NoSignal
  <1>17. ASSUME NEW i \in Ids, NEW r \in DaemonReasons, DaemonCloses(i, r)
         PROVE  TokenInv'
    BY <1>17, TokenSendsOther DEF DaemonCloses, Hides
  <1>18. ASSUME NEW i \in Ids, NEW k \in Keys, NEW t \in Tokens \cup {None},
                Invoke(i, k, t)
         PROVE  TokenInv'
    BY <1>18, TokenInvokes
  <1>19. CASE Crash
    BY <1>19, TokenSendsOther DEF Crash
  <1>20. CASE Start
    BY <1>20, TokenSendsOther DEF Start
  <1>21. CASE UNCHANGED stateVars
    BY <1>21, TokenQuiet DEF stateVars
  <1> QED
    BY <1>1, <1>2, <1>3, <1>4, <1>5, <1>6, <1>7, <1>8, <1>9, <1>10, <1>11,
       <1>12, <1>13, <1>14, <1>15, <1>16, <1>17, <1>18, <1>19, <1>20, <1>21
    DEF Next, MainLoop, Handler, Daemon, App, vars,
        notification_app_launch_context_new,
        notification_app_launch_context_finalize

TokenedInv == "untokened" \notin Environment => TokenInv

LEMMA TokenedInvariant == Spec => []TokenedInv
  <1>1. Init => TokenedInv
    BY TokenInit DEF TokenedInv
  <1>2. TypeOK /\ HandlerInv /\ BusInv /\ TokenedInv /\ [Next]_vars
        => TokenedInv'
    BY TokenNext, EnvironmentStays DEF TokenedInv
  <1> QED BY <1>1, <1>2, TypeCorrect, HandlerInvariant, BusInvariant, PTL
          DEF Spec

(* A daemon that sends a token with each action is never misread: the      *)
(* token in an action's callback is this activation's, whatever daemons    *)
(* died, whatever was shown, activated, closed or dropped before, and in   *)
(* handlers as well.                                                       *)
THEOREM TokensAreOfTheirActivation == Spec => []TokenIsOfThisActivation
  <1>1. TokenedInv => TokenIsOfThisActivation
    BY DEF TokenedInv, TokenInv, EmissionEnds, TokenIsUsed,
           TokenIsOfThisActivation
  <1> QED BY <1>1, TokenedInvariant, PTL

-----------------------------------------------------------------------------
LEMMA LaunchNext ==
    /\ HandlerInv /\ TokenIsOfThisActivation /\ LaunchesWithItsToken
    /\ [Next]_vars
    => LaunchesWithItsToken'
  <1> SUFFICES ASSUME HandlerInv, TokenIsOfThisActivation,
                      LaunchesWithItsToken, [Next]_vars
               PROVE  LaunchesWithItsToken'
    OBVIOUS
  <1>1. UNCHANGED Environment
    BY EnvironmentStays
  <1>2. CASE UNCHANGED context
    BY <1>1, <1>2 DEF LaunchesWithItsToken, get_startup_notify_id
  <1>3. ASSUME NEW n \in Notifs, notification_app_launch_context_new(n)
        PROVE  LaunchesWithItsToken'
    <2>1. frame = ActionFrame(n)
      BY <1>3 DEF notification_app_launch_context_new, HandlerInv,
                  ActivatingIsInCallback
    <2>2. "untokened" \notin Environment =>
              activation_token[n] = signal.token
      BY <2>1 DEF TokenIsOfThisActivation
    <2>3. context' = [n |-> n, activation_token |-> activation_token[n],
                      sent |-> signal.token]
      BY <1>3 DEF notification_app_launch_context_new
    <2> QED BY <1>1, <2>2, <2>3
            DEF LaunchesWithItsToken, get_startup_notify_id
  <1>4. CASE notification_app_launch_context_finalize
    BY <1>4 DEF notification_app_launch_context_finalize, NoContext,
                LaunchesWithItsToken, get_startup_notify_id
  <1>5. \/ UNCHANGED context
        \/ \E n \in Notifs : notification_app_launch_context_new(n)
        \/ notification_app_launch_context_finalize
    BY DEF Next, MainLoop, Handler, Daemon, App, New, ClearActions, Close,
           Unref, AddAction, ShowStarts, ShowSucceeds, ShowFails,
           ShowLosesReply, Visit, Ignore, CloseBegins, TokenArrives,
           ActivateBegins, HandlerReturns, CloseEnds, ActivateEnds, Dispatch,
           EndEmission, DaemonCloses, Invoke, Crash, Start, vars
  <1> QED BY <1>2, <1>3, <1>4, <1>5

(* A launch context that outlives the callback it was made in, or its      *)
(* notification, still has the token of that activation.                   *)
THEOREM ContextsKeepTheirToken == Spec => []LaunchesWithItsToken
  <1>1. Init => LaunchesWithItsToken
    BY DEF Init, LaunchesWithItsToken, get_startup_notify_id, NoContext
  <1> QED BY <1>1, LaunchNext, HandlerInvariant, TokensAreOfTheirActivation,
             PTL DEF Spec
=============================================================================

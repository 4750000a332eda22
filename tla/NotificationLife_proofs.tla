----------------------- MODULE NotificationLife_proofs -----------------------
(* What follows from the promise of NotificationLife, for any number of    *)
(* notifications and callbacks nested to any depth.                        *)
EXTENDS NotificationLife, TLAPS

Frame == [kind : {"closed", "action"}, n : Notifs]

FrameInv ==
    /\ callbacks \in Seq(Frame)
    /\ ref \in [Notifs -> {"none", "held", "kept", "gone"}]
    /\ CallbacksAreSafe

(* A frame is put on top of the others.                                    *)
LEMMA Pushed ==
    ASSUME NEW f \in Frame, NEW s \in Seq(Frame)
    PROVE  /\ <<f>> \o s \in Seq(Frame) /\ Len(<<f>> \o s) = Len(s) + 1
           /\ DOMAIN (<<f>> \o s) = 1 .. Len(s) + 1 /\ DOMAIN s = 1 .. Len(s)
           /\ Len(s) \in Nat
           /\ (<<f>> \o s)[1] = f
           /\ \A k \in 1 .. Len(s) : (<<f>> \o s)[k + 1] = s[k]
           /\ \A k \in 1 .. Len(s) + 1 :
                 k # 1 => k - 1 \in 1 .. Len(s) /\ (<<f>> \o s)[k] = s[k - 1]
  OBVIOUS

LEMMA Popped ==
    ASSUME NEW s \in Seq(Frame), s # << >>
    PROVE  /\ Tail(s) \in Seq(Frame) /\ Len(Tail(s)) = Len(s) - 1
           /\ DOMAIN Tail(s) = 1 .. Len(s) - 1 /\ DOMAIN s = 1 .. Len(s)
           /\ Len(s) \in Nat \ {0} /\ Head(s) = s[1]
           /\ \A k \in 1 .. Len(s) - 1 : Tail(s)[k] = s[k + 1]
           /\ \A k \in 1 .. Len(s) :
                 k # 1 => k - 1 \in 1 .. Len(s) - 1 /\ Tail(s)[k - 1] = s[k]
  OBVIOUS

LEMMA Frames ==
    ASSUME NEW n \in Notifs
    PROVE  /\ ClosedFrame(n) \in Frame /\ ActionFrame(n) \in Frame
           /\ ClosedFrame(n).n = n /\ ActionFrame(n).n = n
           /\ ClosedFrame(n).kind = "closed" /\ ActionFrame(n).kind = "action"
           /\ ClosedFrame(n) # ActionFrame(n)
  BY DEF ClosedFrame, ActionFrame, Frame

LEMMA FrameInit == Init => FrameInv
  BY DEF Init, FrameInv, CallbacksAreSafe, Among

LEMMA FrameCloses ==
    ASSUME FrameInv, NEW n \in Notifs, Closes(n)
    PROVE  FrameInv'
  <1>1. /\ callbacks \in Seq(Frame) /\ ClosedFrame(n) \in Frame
        /\ ref' = ref /\ Live(n) /\ callbacks' = <<ClosedFrame(n)>> \o callbacks
        /\ \A k \in DOMAIN callbacks : callbacks[k] # ClosedFrame(n)
        /\ ClosedFrame(n).n = n /\ ClosedFrame(n).kind = "closed"
    BY Frames DEF FrameInv, Closes, TellsClosed
  <1>2. /\ callbacks' \in Seq(Frame) /\ Len(callbacks') = Len(callbacks) + 1
        /\ DOMAIN callbacks' = 1 .. Len(callbacks) + 1
        /\ DOMAIN callbacks = 1 .. Len(callbacks) /\ Len(callbacks) \in Nat
        /\ callbacks'[1] = ClosedFrame(n)
        /\ \A k \in 1 .. Len(callbacks) :
               callbacks'[k + 1] = callbacks[k] /\ k + 1 \in DOMAIN callbacks'
        /\ \A k \in DOMAIN callbacks' :
              k # 1 => k - 1 \in DOMAIN callbacks
                       /\ callbacks'[k] = callbacks[k - 1]
    BY <1>1, Pushed
  <1>3. ASSUME NEW k \in DOMAIN callbacks'
        PROVE  /\ Live(callbacks[k].n)'
               /\ callbacks'[k].kind = "action" => k = Len(callbacks')
    <2>1. CASE k = 1
      BY <1>1, <1>2, <2>1 DEF Live
    <2>2. CASE k # 1
      <3>1. k - 1 \in DOMAIN callbacks /\ callbacks'[k] = callbacks[k - 1]
        BY <1>2, <2>2
      <3>2. Live(callbacks[k - 1].n)
            /\ (callbacks[k - 1].kind = "action" => k - 1 = Len(callbacks))
        BY <3>1 DEF FrameInv, CallbacksAreSafe
      <3>3. k \in Nat
        BY <1>2
      <3> QED BY <1>1, <1>2, <3>1, <3>2, <3>3 DEF Live
    <2> QED BY <2>1, <2>2
  <1>4. ASSUME NEW m \in Notifs, ref[m] = "kept" PROVE Among(m, callbacks')
    <2>1. PICK k \in DOMAIN callbacks : callbacks[k].n = m
      BY <1>4 DEF FrameInv, CallbacksAreSafe, Among
    <2>2. k + 1 \in DOMAIN callbacks' /\ callbacks'[k + 1].n = m
      BY <1>2, <2>1
    <2> QED BY <2>2 DEF Among
  <1>5. ASSUME NEW j \in DOMAIN callbacks', NEW k \in DOMAIN callbacks', j # k
        PROVE  callbacks'[j] # callbacks'[k]
    <2>1. CASE j = 1 \/ k = 1
      BY <1>1, <1>2, <1>5, <2>1
    <2>2. CASE j # 1 /\ k # 1
      <3>1. /\ j - 1 \in DOMAIN callbacks /\ callbacks'[j] = callbacks[j - 1]
            /\ k - 1 \in DOMAIN callbacks /\ callbacks'[k] = callbacks[k - 1]
        BY <1>2, <2>2
      <3>2. j - 1 # k - 1
        BY <1>2, <1>5
      <3> QED BY <3>1, <3>2 DEF FrameInv, CallbacksAreSafe
    <2> QED BY <2>1, <2>2
  <1>6. CallbacksAreSafe'
    BY <1>1, <1>3, <1>4, <1>5 DEF CallbacksAreSafe
  <1> QED BY <1>1, <1>2, <1>6 DEF FrameInv

LEMMA FrameReturns ==
    ASSUME FrameInv, NEW n \in Notifs, Returns(n)
    PROVE  FrameInv'
  <1>1. /\ callbacks \in Seq(Frame) /\ callbacks # << >>
        /\ Head(callbacks).n = n /\ callbacks' = Tail(callbacks)
        /\ ref \in [Notifs -> {"none", "held", "kept", "gone"}]
        /\ ref' = IF ref[n] = "kept" /\ ~ Among(n, Tail(callbacks))
                  THEN [ref EXCEPT ![n] = "gone"] ELSE ref
    BY DEF FrameInv, Returns
  <1>2. /\ callbacks' \in Seq(Frame) /\ Len(callbacks') = Len(callbacks) - 1
        /\ DOMAIN callbacks' = 1 .. Len(callbacks) - 1
        /\ DOMAIN callbacks = 1 .. Len(callbacks) /\ Len(callbacks) \in Nat \ {0}
        /\ callbacks[1].n = n
        /\ \A k \in DOMAIN callbacks' :
               callbacks'[k] = callbacks[k + 1] /\ k + 1 \in DOMAIN callbacks
        /\ \A k \in DOMAIN callbacks :
              k # 1 => k - 1 \in DOMAIN callbacks'
                       /\ callbacks'[k - 1] = callbacks[k]
    BY <1>1, Popped
  <1>3. /\ ref' \in [Notifs -> {"none", "held", "kept", "gone"}]
        /\ \A m \in Notifs : ref'[m] # ref[m] =>
               m = n /\ ref'[m] = "gone" /\ ~ Among(n, callbacks')
        /\ ref'[n] = "kept" => Among(n, callbacks')
    BY <1>1
  <1>4. ASSUME NEW k \in DOMAIN callbacks'
        PROVE  /\ Live(callbacks[k].n)'
               /\ callbacks'[k].kind = "action" => k = Len(callbacks')
    <2>1. k + 1 \in DOMAIN callbacks /\ callbacks'[k] = callbacks[k + 1]
      BY <1>2
    <2>2. /\ Live(callbacks[k + 1].n)
          /\ callbacks[k + 1].kind = "action" => k + 1 = Len(callbacks)
      BY <2>1 DEF FrameInv, CallbacksAreSafe
    <2>3. Among(callbacks'[k].n, callbacks') /\ callbacks'[k].n \in Notifs
      <3>1. callbacks'[k] \in Frame
        BY <1>2
      <3> QED BY <3>1 DEF Among, Frame
    <2>4. ref'[callbacks'[k].n] = ref[callbacks'[k].n]
      BY <1>3, <2>3
    <2>5. k \in Nat
      BY <1>2
    <2> QED BY <1>2, <2>1, <2>2, <2>4, <2>5 DEF Live
  <1>5. ASSUME NEW m \in Notifs, ref'[m] = "kept" PROVE Among(m, callbacks')
    <2>1. CASE m = n
      BY <1>3, <1>5, <2>1
    <2>2. CASE m # n
      <3>1. ref[m] = "kept"
        BY <1>3, <1>5, <2>2
      <3>2. PICK k \in DOMAIN callbacks : callbacks[k].n = m
        BY <3>1 DEF FrameInv, CallbacksAreSafe, Among
      <3>3. k - 1 \in DOMAIN callbacks' /\ callbacks'[k - 1].n = m
        BY <1>2, <2>2, <3>2
      <3> QED BY <3>3 DEF Among
    <2> QED BY <2>1, <2>2
  <1>6. ASSUME NEW j \in DOMAIN callbacks', NEW k \in DOMAIN callbacks', j # k
        PROVE  callbacks'[j] # callbacks'[k]
    <2>1. /\ j + 1 \in DOMAIN callbacks /\ callbacks'[j] = callbacks[j + 1]
          /\ k + 1 \in DOMAIN callbacks /\ callbacks'[k] = callbacks[k + 1]
      BY <1>2
    <2>2. j + 1 # k + 1
      BY <1>2, <1>6
    <2> QED BY <2>1, <2>2 DEF FrameInv, CallbacksAreSafe
  <1>7. CallbacksAreSafe'
    BY <1>4, <1>5, <1>6 DEF CallbacksAreSafe
  <1> QED BY <1>2, <1>3, <1>7 DEF FrameInv

(* An action's callback is the outermost, so that the close after it is    *)
(* the only callback then.                                                 *)
LEMMA FrameReturnsToClose ==
    ASSUME FrameInv, NEW n \in Notifs, ReturnsToClose(n)
    PROVE  FrameInv'
  <1>1. /\ callbacks \in Seq(Frame) /\ callbacks # << >>
        /\ Head(callbacks) = ActionFrame(n) /\ ref' = ref /\ Live(n)
        /\ callbacks' = <<ClosedFrame(n)>> \o Tail(callbacks)
    BY DEF FrameInv, ReturnsToClose, TellsClosed
  <1>2. /\ callbacks[1] = ActionFrame(n) /\ 1 \in DOMAIN callbacks
        /\ DOMAIN callbacks = 1 .. Len(callbacks)
        /\ Len(Tail(callbacks)) = Len(callbacks) - 1
        /\ Tail(callbacks) \in Seq(Frame)
    BY <1>1, Popped
  <1>3. Len(callbacks) = 1
    BY <1>2, Frames DEF FrameInv, CallbacksAreSafe
  <1>4. Len(Tail(callbacks)) = 0
    BY <1>2, <1>3
  <1>5. /\ callbacks' \in Seq(Frame) /\ Len(callbacks') = 1
        /\ DOMAIN callbacks' = {1} /\ callbacks'[1] = ClosedFrame(n)
    <2>1. ClosedFrame(n) \in Frame
      BY Frames
    <2>2. /\ callbacks' \in Seq(Frame) /\ Len(callbacks') = 0 + 1
          /\ DOMAIN callbacks' = 1 .. 0 + 1 /\ callbacks'[1] = ClosedFrame(n)
      BY <1>1, <1>2, <1>4, <2>1, Pushed
    <2> QED BY <2>2
  <1>6. ASSUME NEW m \in Notifs, ref[m] = "kept" PROVE Among(m, callbacks')
    <2>1. PICK k \in DOMAIN callbacks : callbacks[k].n = m
      BY <1>6 DEF FrameInv, CallbacksAreSafe, Among
    <2>2. k = 1
      BY <1>2, <1>3
    <2>3. m = n
      BY <1>2, <2>1, <2>2, Frames
    <2> QED BY <1>5, <2>3, Frames DEF Among
  <1>7. CallbacksAreSafe'
    BY <1>1, <1>5, <1>6, Frames DEF CallbacksAreSafe, Live
  <1> QED BY <1>1, <1>5, <1>7 DEF FrameInv

LEMMA FrameNext == FrameInv /\ [Next]_lifeVars => FrameInv'
  <1> SUFFICES ASSUME FrameInv, [Next]_lifeVars PROVE FrameInv'
    OBVIOUS
  <1>0. /\ callbacks \in Seq(Frame)
        /\ ref \in [Notifs -> {"none", "held", "kept", "gone"}]
        /\ \A k \in DOMAIN callbacks : callbacks[k].n \in Notifs
    <2>1. callbacks \in Seq(Frame)
      BY DEF FrameInv
    <2>2. \A k \in DOMAIN callbacks : callbacks[k] \in Frame
      BY <2>1
    <2> QED BY <2>1, <2>2 DEF FrameInv, Frame
  <1>1. ASSUME NEW n \in Notifs, Create(n) PROVE FrameInv'
    BY <1>0, <1>1 DEF Create, FrameInv, CallbacksAreSafe, Live, Among
  <1>2. ASSUME NEW n \in Notifs, Show(n) PROVE FrameInv'
    BY <1>2 DEF Show, FrameInv, CallbacksAreSafe, Live, Among
  <1>3. ASSUME NEW n \in Notifs, Activates(n) PROVE FrameInv'
    <2>1. /\ callbacks = << >> /\ Live(n) /\ ref' = ref
          /\ callbacks' = <<ActionFrame(n)>>
      BY <1>3 DEF Activates
    <2>2. /\ callbacks' \in Seq(Frame) /\ DOMAIN callbacks' = {1}
          /\ callbacks'[1] = ActionFrame(n) /\ Len(callbacks') = 1
      BY <2>1, Frames
    <2>3. \A m \in Notifs : ref[m] # "kept"
      BY <2>1 DEF FrameInv, CallbacksAreSafe, Among
    <2> QED BY <2>1, <2>2, <2>3, Frames DEF FrameInv, CallbacksAreSafe, Live
  <1>4. ASSUME NEW n \in Notifs, Release(n) PROVE FrameInv'
    BY <1>0, <1>4 DEF Release, FrameInv, CallbacksAreSafe, Live, Among
  <1>5. CASE UNCHANGED lifeVars
    BY <1>5 DEF lifeVars, FrameInv, CallbacksAreSafe, Live, Among
  <1> QED BY <1>1, <1>2, <1>3, <1>4, <1>5, FrameCloses, FrameReturns,
             FrameReturnsToClose DEF Next

(* The promise is enough for callbacks to be safe.                         *)
THEOREM ThePromiseIsSafe == Spec => []CallbacksAreSafe
  <1>1. FrameInv => CallbacksAreSafe
    BY DEF FrameInv
  <1> QED BY <1>1, FrameInit, FrameNext, PTL DEF Spec
=============================================================================

------------------------ MODULE NotifyLibrary_proofs ------------------------
(* Theorems about NotifyLibrary, for any number of notifications, proxies  *)
(* and daemons, and a list of any length.                                  *)
EXTENDS NotifyLibrary, TLAPS

-----------------------------------------------------------------------------
(* _active_notifications as a list without repetitions.                    *)
Distinct(s) == \A j, k \in 1 .. Len(s) : s[j] = s[k] => j = k

LEMMA PlaceOf ==
    ASSUME active \in Seq(Notifs), NEW n \in Active
    PROVE  /\ Place(n) \in 1 .. Len(active) /\ active[Place(n)] = n
           /\ Len(active) \in Nat
  BY DEF Place, Active

LEMMA WithoutPlace ==
    ASSUME active \in Seq(Notifs), NEW n \in Active
    PROVE  /\ Without(n) \in Seq(Notifs)
           /\ Len(Without(n)) = Len(active) - 1
           /\ \A k \in 1 .. Len(active) - 1 :
                  Without(n)[k] = IF k < Place(n) THEN active[k]
                                                  ELSE active[k + 1]
  <1> DEFINE p == Place(n)
             l == Len(active)
             s == SubSeq(active, 1, p - 1)
             t == SubSeq(active, p + 1, l)
  <1>1. p \in 1 .. l /\ l \in Nat
    BY PlaceOf
  <1> HIDE DEF p
  <1>2. /\ s \in Seq(Notifs) /\ Len(s) = p - 1
        /\ \A k \in 1 .. p - 1 : s[k] = active[k]
    BY <1>1
  <1>3. /\ t \in Seq(Notifs) /\ Len(t) = l - p
        /\ \A k \in 1 .. l - p : t[k] = active[p + k]
    BY <1>1
  <1>4. Without(n) = s \o t
    BY DEF Without, p
  <1> HIDE DEF s, t
  <1>5. Len(s \o t) = l - 1 /\ s \o t \in Seq(Notifs)
    <2>1. s \in Seq(Notifs) /\ t \in Seq(Notifs)
      BY <1>2, <1>3
    <2>2. s \o t \in Seq(Notifs) /\ Len(s \o t) = Len(s) + Len(t)
      BY <2>1
    <2> QED BY <1>1, <1>2, <1>3, <2>1, <2>2
  <1>6. ASSUME NEW k \in 1 .. l - 1
        PROVE  (s \o t)[k] = IF k < p THEN active[k] ELSE active[k + 1]
    <2>1. CASE k < p
      BY <1>1, <1>2, <1>3, <2>1
    <2>2. CASE ~ (k < p)
      <3>1. (s \o t)[k] = t[k - (p - 1)] /\ k - (p - 1) \in 1 .. l - p
        BY <1>1, <1>2, <1>3, <2>2
      <3>2. p + (k - (p - 1)) = k + 1
        BY <1>1
      <3> QED BY <1>3, <2>2, <3>1, <3>2
    <2> QED BY <2>1, <2>2
  <1> QED BY <1>4, <1>5, <1>6 DEF p, l

(* What is left of a list without n.                                       *)
LEMMA WithoutIsTheRest ==
    ASSUME active \in Seq(Notifs), NEW n \in Active, Distinct(active),
           active' = Without(n)
    PROVE  /\ Active' = Active \ {n} /\ Distinct(active')
           /\ active' \in Seq(Notifs)
           /\ \A j, k \in 1 .. Len(active') :
                  j < k => \E i, m \in 1 .. Len(active) :
                               /\ i < m /\ active[i] = active'[j]
                               /\ active[m] = active'[k]
  <1> DEFINE p == Place(n)
             l == Len(active)
             t == Without(n)
  <1>1. p \in 1 .. l /\ l \in Nat /\ active[p] = n
    BY PlaceOf
  <1>2. /\ t \in Seq(Notifs) /\ Len(t) = l - 1
        /\ \A k \in 1 .. l - 1 : t[k] = IF k < p THEN active[k]
                                                 ELSE active[k + 1]
    BY WithoutPlace
  <1>3. \A j, k \in 1 .. l : active[j] = active[k] => j = k
    BY DEF Distinct
  <1>4. active' = t
    OBVIOUS
  <1> HIDE DEF p, l, t
  <1>5. ASSUME NEW k \in 1 .. l - 1 PROVE t[k] \in Active \ {n}
    <2>1. CASE k < p
      BY <1>1, <1>2, <1>3, <2>1 DEF Active, l
    <2>2. CASE ~ (k < p)
      BY <1>1, <1>2, <1>3, <2>2 DEF Active, l
    <2> QED BY <2>1, <2>2
  <1>6. ASSUME NEW m \in Active \ {n} PROVE \E k \in 1 .. l - 1 : t[k] = m
    <2>1. PICK k \in 1 .. l : active[k] = m
      BY DEF Active, l
    <2>2. k # p
      BY <1>1, <2>1
    <2>3. CASE k < p
      BY <1>1, <1>2, <2>1, <2>3
    <2>4. CASE k > p
      <3>1. k - 1 \in 1 .. l - 1 /\ ~ (k - 1 < p) /\ (k - 1) + 1 = k
        BY <1>1, <2>4
      <3>2. t[k - 1] = active[k]
        BY <1>2, <3>1
      <3> QED BY <2>1, <3>1, <3>2
    <2> QED BY <1>1, <2>2, <2>3, <2>4
  <1>7. Active' = Active \ {n}
    <2>1. Active' = {t[k] : k \in 1 .. l - 1}
      BY <1>2, <1>4 DEF Active
    <2> QED BY <1>5, <1>6, <2>1
  <1>8. ASSUME NEW j \in 1 .. l - 1, NEW k \in 1 .. l - 1, j < k
        PROVE  \E i, m \in 1 .. l : /\ i < m /\ active[i] = t[j]
                                    /\ active[m] = t[k]
    <2> DEFINE i == IF j < p THEN j ELSE j + 1
               m == IF k < p THEN k ELSE k + 1
    <2>1. i \in 1 .. l /\ m \in 1 .. l /\ i < m
      BY <1>1, <1>8
    <2>2. active[i] = t[j] /\ active[m] = t[k]
      BY <1>2
    <2> QED BY <2>1, <2>2
  <1>9. Distinct(t)
    <2> SUFFICES ASSUME NEW j \in 1 .. l - 1, NEW k \in 1 .. l - 1,
                        t[j] = t[k], j < k
                 PROVE  FALSE
      BY <1>1, <1>2 DEF Distinct
    <2> QED BY <1>1, <1>3, <1>8
  <1> QED BY <1>2, <1>4, <1>7, <1>8, <1>9 DEF l

LEMMA ListPrepend ==
    ASSUME active \in Seq(Notifs), NEW n \in Notifs, n \notin Active,
           Distinct(active), active' = <<n>> \o active
    PROVE  /\ Active' = Active \cup {n} /\ Distinct(active')
           /\ active' \in Seq(Notifs)
           /\ \A k \in 1 .. Len(active') : k # 1 =>
                  k - 1 \in 1 .. Len(active) /\ active'[k] = active[k - 1]
           /\ active'[1] = n /\ Len(active') = Len(active) + 1
  <1> DEFINE l == Len(active)
             t == <<n>> \o active
  <1>1. /\ l \in Nat /\ Len(t) = l + 1 /\ t \in Seq(Notifs) /\ t[1] = n
        /\ \A k \in 1 .. l : t[k + 1] = active[k]
    OBVIOUS
  <1>2. \A k \in 1 .. l : active[k] # n
    BY DEF Active
  <1>3. \A j, k \in 1 .. l : active[j] = active[k] => j = k
    BY DEF Distinct
  <1>4. active' = t
    OBVIOUS
  <1> HIDE DEF t
  <1>5. \A k \in 1 .. l + 1 : k # 1 => k - 1 \in 1 .. l /\ t[k] = active[k - 1]
    <2> SUFFICES ASSUME NEW k \in 1 .. l + 1, k # 1
                 PROVE  k - 1 \in 1 .. l /\ t[k] = active[k - 1]
      OBVIOUS
    <2>1. l \in Nat
      BY <1>1
    <2> HIDE DEF l
    <2>2. k - 1 \in 1 .. l /\ (k - 1) + 1 = k
      BY <2>1
    <2> QED BY <1>1, <2>2
  <1>6. Active' = Active \cup {n}
    <2>1. Active' = {t[k] : k \in 1 .. l + 1}
      BY <1>1, <1>4 DEF Active
    <2>2. ASSUME NEW k \in 1 .. l + 1 PROVE t[k] \in Active \cup {n}
      BY <1>1, <1>5 DEF Active
    <2>3. ASSUME NEW k \in 1 .. l
          PROVE  \E j \in 1 .. l + 1 : t[j] = active[k]
      BY <1>1
    <2>4. \E j \in 1 .. l + 1 : t[j] = n
      BY <1>1
    <2> QED BY <2>1, <2>2, <2>3, <2>4 DEF Active
  <1>7. Distinct(t)
    <2> SUFFICES ASSUME NEW j \in 1 .. l + 1, NEW k \in 1 .. l + 1,
                        t[j] = t[k]
                 PROVE  j = k
      BY <1>1 DEF Distinct
    <2>1. CASE j = 1 \/ k = 1
      BY <1>1, <1>2, <1>5, <2>1
    <2>2. CASE j # 1 /\ k # 1
      <3>1. j - 1 = k - 1
        BY <1>3, <1>5, <2>2
      <3> QED BY <3>1
    <2> QED BY <2>1, <2>2
  <1> QED BY <1>1, <1>4, <1>5, <1>6, <1>7 DEF l

-----------------------------------------------------------------------------
(* What _notify_get_proxy () leaves.                                       *)
ProxyTypes ==
    /\ _proxy \in 0 .. made /\ made \in 0 .. MaxProxy
    /\ kind \in [Proxies -> {"none", "daemon", "portal"}]
    /\ _spec_version_major \in Nat /\ _portal_version \in {0, 1}
    /\ flatpak_app_set \in BOOLEAN /\ _flatpak_app \in BOOLEAN

LEMMA SpecVersionType ==
    ASSUME TypeOK, NEW portal, NEW owner, NEW answered \in BOOLEAN,
           _notify_update_spec_version(portal, owner, answered)
    PROVE  _spec_version_major' \in Nat
  BY ConstantsAssumption DEF TypeOK, _notify_update_spec_version

LEMMA FlatpakTypes ==
    ASSUME TypeOK,
           ReadsFlatpakApp \/ UNCHANGED <<flatpak_app_set, _flatpak_app>>
    PROVE  flatpak_app_set' \in BOOLEAN /\ _flatpak_app' \in BOOLEAN
  BY DEF TypeOK, ReadsFlatpakApp, _notify_get_flatpak_app

(* The proxy of a library that has none.                                   *)
LEMMA CreatesProxyTypes ==
    ASSUME TypeOK, NEW portal \in BOOLEAN, CreatesProxy(portal)
    PROVE  /\ ProxyTypes'
           /\ _proxy = 0 /\ _proxy' = made' /\ made' = made + 1
           /\ kind'[_proxy'] = IF portal THEN "portal" ELSE "daemon"
           /\ _portal_version' = IF portal THEN 1 ELSE _portal_version
           /\ _notify_update_spec_version(_portal_version' # 0, daemon, TRUE)
  <1>1. /\ _proxy = 0 /\ made < MaxProxy
        /\ _portal_version' = IF portal THEN 1 ELSE _portal_version
        /\ _notify_update_spec_version(_portal_version' # 0, daemon, TRUE)
        /\ made' = made + 1
        /\ _proxy' = made + 1
        /\ kind' = [kind EXCEPT ![made + 1] =
                        IF portal THEN "portal" ELSE "daemon"]
        /\ ReadsFlatpakApp \/ UNCHANGED <<flatpak_app_set, _flatpak_app>>
    BY DEF CreatesProxy
  <1>2. made \in 0 .. MaxProxy /\ made + 1 \in Proxies
    BY <1>1, ConstantsAssumption DEF TypeOK, Proxies
  <1>3. /\ kind' \in [Proxies -> {"none", "daemon", "portal"}]
        /\ kind'[made + 1] = IF portal THEN "portal" ELSE "daemon"
    BY <1>1, <1>2 DEF TypeOK
  <1>4. _portal_version' \in {0, 1}
    BY <1>1 DEF TypeOK
  <1>5. _spec_version_major' \in Nat
    BY <1>1, SpecVersionType
  <1>6. _proxy' \in 0 .. made' /\ made' \in 0 .. MaxProxy
    BY <1>1, <1>2, ConstantsAssumption
  <1>7. flatpak_app_set' \in BOOLEAN /\ _flatpak_app' \in BOOLEAN
    BY <1>1, FlatpakTypes
  <1> QED BY <1>1, <1>3, <1>4, <1>5, <1>6, <1>7 DEF ProxyTypes, TypeOK

LEMMA AsksTypes ==
    ASSUME TypeOK, GetsProxy \/ GetsNoProxy
    PROVE  /\ ProxyTypes'
           /\ _proxy' # _proxy => _proxy = 0
           /\ GetsProxy => _proxy' # 0
           /\ GetsNoProxy => _proxy' = 0 /\ _proxy = 0
  <1>1. CASE _proxy # 0 /\ UNCHANGED <<proxyVars, _spec_version_major,
                                       _portal_version, flatpak_app_set,
                                       _flatpak_app>>
    BY <1>1 DEF TypeOK, ProxyTypes, proxyVars, Proxies, GetsNoProxy
  <1>2. ASSUME NEW portal \in BOOLEAN, CreatesProxy(portal)
        PROVE  ProxyTypes' /\ _proxy = 0 /\ _proxy' # 0
    <2>1. made \in 0 .. MaxProxy
      BY DEF TypeOK
    <2>2. ProxyTypes' /\ _proxy = 0 /\ _proxy' = made' /\ made' = made + 1
      BY <1>2, CreatesProxyTypes
    <2> QED BY <2>1, <2>2, ConstantsAssumption
  <1>3. ASSUME GetsNoProxy PROVE ProxyTypes'
    <2>1. flatpak_app_set' \in BOOLEAN /\ _flatpak_app' \in BOOLEAN
      BY <1>3, FlatpakTypes DEF GetsNoProxy
    <2>2. UNCHANGED <<proxyVars, _portal_version>>
      BY <1>3 DEF GetsNoProxy
    <2>3. _spec_version_major' \in Nat
      BY <1>3, SpecVersionType DEF GetsNoProxy, TypeOK
    <2>4. /\ _proxy' \in 0 .. made' /\ made' \in 0 .. MaxProxy
          /\ kind' \in [Proxies -> {"none", "daemon", "portal"}]
          /\ _spec_version_major' \in Nat /\ _portal_version' \in {0, 1}
      BY <2>2, <2>3 DEF TypeOK, proxyVars, Proxies
    <2> QED BY <2>1, <2>4 DEF ProxyTypes
  <1>4. GetsProxy => _proxy' # 0
    BY <1>1, <1>2 DEF GetsProxy, proxyVars
  <1>5. GetsNoProxy => _proxy' = 0 /\ _proxy = 0
    BY DEF GetsNoProxy, proxyVars
  <1> QED BY <1>1, <1>2, <1>3, <1>4, <1>5 DEF GetsProxy, proxyVars

LEMMA DisposedTypes ==
    ASSUME TypeOK, NEW n \in Notifs, Disposed(n, _proxy')
    PROVE  /\ proxy_signal_handler' \in [Notifs -> 0 .. MaxProxy]
           /\ \A m \in Notifs :
                  m # n => proxy_signal_handler'[m] = proxy_signal_handler[m]
           /\ proxy_signal_handler'[n]
                 = IF _proxy' = 0 THEN proxy_signal_handler[n] ELSE 0
  BY ConstantsAssumption DEF TypeOK, Disposed

(* Where notify_uninit () is: in the handler of the element it walks, or   *)
(* between two elements.                                                   *)
UninitInv ==
    /\ uninit => _initted
    /\ walk # None => uninit
    /\ frame # None => walk = frame /\ Live(frame)
    /\ \A n \in Notifs : ref[n] = "kept" => frame = n /\ "drops" \in Environment
    /\ UninitStaysOnTheList

LibraryInv == TypeOK /\ ListIsOfLiveObjects /\ UninitInv

LEMMA ListDistinct ==
    ASSUME ListIsOfLiveObjects
    PROVE  Distinct(active) /\ \A n \in Notifs : Live(n) <=> n \in Active
  BY DEF ListIsOfLiveObjects, Distinct

LEMMA FinalizesList ==
    ASSUME TypeOK, ListIsOfLiveObjects, NEW n \in Notifs, Live(n),
           Finalizes(n)
    PROVE  /\ ProxyTypes' /\ ListIsOfLiveObjects'
           /\ proxy_signal_handler' \in [Notifs -> 0 .. MaxProxy]
           /\ active' \in Seq(Notifs) /\ Active' = Active \ {n}
           /\ ref' \in [Notifs -> {"none", "held", "kept", "gone"}]
           /\ ref'[n] = "gone"
           /\ \A m \in Notifs : m # n => ref'[m] = ref[m]
  <1>1. ProxyTypes' /\ proxy_signal_handler' \in [Notifs -> 0 .. MaxProxy]
    BY AsksTypes, DisposedTypes DEF Finalizes
  <1>2. Distinct(active) /\ n \in Active /\ active \in Seq(Notifs)
    BY ListDistinct DEF TypeOK
  <1>3. /\ active' \in Seq(Notifs) /\ Active' = Active \ {n}
        /\ Distinct(active')
    BY <1>2, WithoutIsTheRest DEF Finalizes
  <1>4. /\ ref' \in [Notifs -> {"none", "held", "kept", "gone"}]
        /\ ref'[n] = "gone" /\ \A m \in Notifs : m # n => ref'[m] = ref[m]
    BY DEF Finalizes, TypeOK
  <1>5. ListIsOfLiveObjects'
    BY <1>3, <1>4 DEF ListIsOfLiveObjects, Live, Distinct
  <1> QED BY <1>1, <1>3, <1>4, <1>5

LEMMA AfterIsOnTheList ==
    ASSUME TypeOK, NEW n \in Active
    PROVE  After(n) = None \/ After(n) \in Active
  <1>1. /\ Place(n) \in 1 .. Len(active) /\ Len(active) \in Nat
    BY PlaceOf DEF TypeOK
  <1>2. CASE Place(n) # Len(active)
    <2>1. Place(n) + 1 \in 1 .. Len(active)
      BY <1>1, <1>2
    <2> QED BY <1>2, <2>1 DEF After, Active
  <1> QED BY <1>2 DEF After

LEMMA DisposesWalk ==
    ASSUME TypeOK, NEW n \in Active, Disposes(n)
    PROVE  /\ ProxyTypes' /\ UNCHANGED <<active, Active, ref>>
           /\ proxy_signal_handler' \in [Notifs -> 0 .. MaxProxy]
           /\ walk' \in Notifs \cup {None}
           /\ walk' # None => walk' \in Active'
  <1>1. n \in Notifs /\ Active \subseteq Notifs
    BY DEF TypeOK, Active
  <1>2. ProxyTypes' /\ proxy_signal_handler' \in [Notifs -> 0 .. MaxProxy]
    BY <1>1, AsksTypes, DisposedTypes DEF Disposes
  <1>3. UNCHANGED <<active, Active, ref>> /\ walk' = After(n)
    BY DEF Disposes, Active
  <1> QED BY <1>1, <1>2, <1>3, AfterIsOnTheList

LEMMA LibraryInit == Init => LibraryInv
  <1> SUFFICES ASSUME Init PROVE LibraryInv
    OBVIOUS
  <1>1. Active = {} /\ Len(active) = 0
    BY DEF Init, Active
  <1>2. TypeOK
    <2>1. kind \in [Proxies -> {"none", "daemon", "portal"}]
      BY DEF Init
    <2>2. /\ version \in Versions /\ Environment \in Environments
          /\ Confined \in BOOLEAN /\ UsePortal \in {"ignore", "try", "force"}
          /\ _initted \in BOOLEAN /\ aborted \in BOOLEAN /\ uninit \in BOOLEAN
          /\ flatpak_app_set \in BOOLEAN /\ _flatpak_app \in BOOLEAN
          /\ walk \in Notifs \cup {None} /\ frame \in Notifs \cup {None}
      BY DEF Init
    <2>3. /\ _proxy \in 0 .. made /\ made \in 0 .. MaxProxy
          /\ daemon \in 0 .. epochs /\ epochs \in 1 .. MaxEpoch
          /\ _spec_version_major \in Nat /\ _portal_version \in {0, 1}
      BY ConstantsAssumption DEF Init
    <2>4. /\ ref \in [Notifs -> {"none", "held", "kept", "gone"}]
          /\ proxy_signal_handler \in [Notifs -> 0 .. MaxProxy]
      BY ConstantsAssumption DEF Init
    <2>5. /\ active \in Seq(Notifs)
          /\ queue \in Seq(0 .. MaxEpoch) /\ Len(queue) <= MaxQueue
      BY ConstantsAssumption DEF Init
    <2> QED BY <2>1, <2>2, <2>3, <2>4, <2>5 DEF TypeOK
  <1>3. ListIsOfLiveObjects
    BY <1>1 DEF Init, ListIsOfLiveObjects, Live
  <1>4. UninitInv
    BY DEF Init, UninitInv, UninitStaysOnTheList
  <1> QED BY <1>2, <1>3, <1>4 DEF LibraryInv

(* Calls that leave the notifications and the walk alone.                  *)
LEMMA LibraryQuiet ==
    ASSUME LibraryInv, UNCHANGED <<notifyVars, uninitVars, frame, Environment>>,
           _initted' = _initted
    PROVE  ListIsOfLiveObjects' /\ UninitInv'
  BY DEF LibraryInv, ListIsOfLiveObjects, UninitInv, UninitStaysOnTheList,
         Active, Live, notifyVars, uninitVars

LEMMA LibraryNext == LibraryInv /\ [Next]_vars => LibraryInv'
  <1> SUFFICES ASSUME LibraryInv, [Next]_vars PROVE LibraryInv'
    OBVIOUS
  <1>0. TypeOK /\ ListIsOfLiveObjects /\ UninitInv
    BY DEF LibraryInv
  <1>1. ASSUME NEW name \in {"argument", "application", "none"},
               notify_init(name)
        PROVE  LibraryInv'
    <2>1. flatpak_app_set' \in BOOLEAN /\ _flatpak_app' \in BOOLEAN
      BY <1>0, <1>1, FlatpakTypes DEF notify_init
    <2>2. _initted' \in BOOLEAN
      BY <1>1 DEF notify_init
    <2>3. ~ uninit /\ UNCHANGED <<_spec_version_major, _portal_version,
                                  proxyVars, notifyVars, uninitVars, frame,
                                  aborted, busVars, queue>>
      BY <1>0, <1>1 DEF notify_init, UninitInv
    <2>4. TypeOK'
      BY <1>0, <2>1, <2>2, <2>3
      DEF TypeOK, proxyVars, notifyVars, uninitVars, busVars, settings
    <2>5. ListIsOfLiveObjects' /\ UninitInv'
      BY <1>0, <2>3
      DEF ListIsOfLiveObjects, UninitInv, UninitStaysOnTheList, Active, Live,
          notifyVars, uninitVars, busVars, settings
    <2> QED BY <2>4, <2>5 DEF LibraryInv
  <1>2. CASE GetServerInfo
    <2>1. ProxyTypes'
      BY <1>0, <1>2, AsksTypes DEF GetServerInfo
    <2>2. TypeOK'
      BY <1>0, <1>2, <2>1 DEF GetServerInfo, TypeOK, ProxyTypes, notifyVars,
                              uninitVars, busVars, settings
    <2> QED BY <1>2, <2>2, LibraryQuiet
            DEF GetServerInfo, LibraryInv, busVars, settings
  <1>3. ASSUME NEW n \in Notifs, New(n) PROVE LibraryInv'
    <2>1. /\ ref[n] = "none" /\ active' = <<n>> \o active
          /\ ref' = [ref EXCEPT ![n] = "held"]
          /\ UNCHANGED <<staticVars, proxyVars, proxy_signal_handler,
                         uninitVars, frame, aborted, busVars, queue>>
      BY <1>3 DEF New
    <2>2. Distinct(active) /\ n \notin Active /\ active \in Seq(Notifs)
      BY <1>0, <2>1, ListDistinct DEF TypeOK, Live
    <2>3. /\ Active' = Active \cup {n} /\ Distinct(active')
          /\ active' \in Seq(Notifs)
      BY <2>1, <2>2, ListPrepend
    <2>4. /\ ref' \in [Notifs -> {"none", "held", "kept", "gone"}]
          /\ ref'[n] = "held" /\ \A m \in Notifs : m # n => ref'[m] = ref[m]
      BY <1>0, <2>1 DEF TypeOK
    <2>5. TypeOK'
      BY <1>0, <2>1, <2>3, <2>4
      DEF TypeOK, staticVars, proxyVars, uninitVars, busVars, settings
    <2>6. ListIsOfLiveObjects'
      BY <1>0, <2>3, <2>4 DEF ListIsOfLiveObjects, Live, Distinct
    <2>7. UninitInv'
      <3>1. UNCHANGED <<_initted, uninit, walk, frame, Environment>>
        BY <2>1 DEF staticVars, uninitVars, busVars, settings
      <3>2. frame # n \/ frame = None
        BY <1>0, <2>1 DEF UninitInv, Live
      <3>3. frame # None => Live(frame)'
        BY <1>0, <2>4, <3>1, <3>2 DEF UninitInv, Live, TypeOK
      <3> QED BY <1>0, <2>3, <2>4, <3>1, <3>3
              DEF UninitInv, UninitStaysOnTheList
    <2> QED BY <2>5, <2>6, <2>7 DEF LibraryInv
  <1>4. ASSUME NEW n \in Notifs, NEW app_icon \in BOOLEAN, Show(n, app_icon)
        PROVE  LibraryInv'
    <2>1. /\ GetsProxy \/ GetsNoProxy
          /\ UNCHANGED <<_initted, active, ref, uninitVars, frame, busVars,
                         queue>>
      BY <1>4 DEF Show
    <2>2. ProxyTypes'
      BY <1>0, <2>1, AsksTypes
    <2>3. proxy_signal_handler' \in [Notifs -> 0 .. MaxProxy]
      <3>1. _proxy' \in 0 .. MaxProxy
        BY <2>2, ConstantsAssumption DEF ProxyTypes
      <3>2. CASE UNCHANGED proxy_signal_handler
        BY <1>0, <3>2 DEF TypeOK
      <3>3. CASE proxy_signal_handler' =
                     [proxy_signal_handler EXCEPT ![n] =
                         IF @ = 0 THEN _proxy' ELSE @]
        BY <1>0, <3>1, <3>3 DEF TypeOK
      <3> QED BY <1>4, <3>2, <3>3 DEF Show
    <2>4. aborted' \in BOOLEAN
      BY <1>0, <1>4 DEF Show, TypeOK
    <2>5. TypeOK'
      BY <1>0, <2>1, <2>2, <2>3, <2>4
      DEF TypeOK, ProxyTypes, uninitVars, busVars, settings
    <2>6. ListIsOfLiveObjects' /\ UninitInv'
      BY <1>0, <2>1
      DEF ListIsOfLiveObjects, UninitInv, UninitStaysOnTheList, Active, Live,
          uninitVars, busVars, settings
    <2> QED BY <2>5, <2>6 DEF LibraryInv
  <1>5. ASSUME NEW n \in Notifs, Unref(n) PROVE LibraryInv'
    <2>1. /\ ref[n] = "held"
          /\ UNCHANGED <<_initted, uninitVars, frame, aborted, busVars, queue>>
          /\ AppRuns
      BY <1>5 DEF Unref
    <2>2. UNCHANGED <<_initted, uninit, walk, frame, Environment>>
      BY <2>1 DEF uninitVars, busVars, settings
    <2>3. CASE frame = n
      <3>1. /\ "drops" \in Environment
            /\ ref' = [ref EXCEPT ![n] = "kept"]
            /\ UNCHANGED <<active, proxy_signal_handler, proxyVars,
                           _spec_version_major, _portal_version,
                           flatpak_app_set, _flatpak_app>>
        BY <1>5, <2>3 DEF Unref
      <3>2. /\ ref' \in [Notifs -> {"none", "held", "kept", "gone"}]
            /\ ref'[n] = "kept"
            /\ \A m \in Notifs : m # n => ref'[m] = ref[m]
        BY <1>0, <3>1 DEF TypeOK
      <3>3. TypeOK'
        BY <1>0, <2>1, <3>1, <3>2
        DEF TypeOK, proxyVars, uninitVars, busVars, settings
      <3>4. \A m \in Notifs : Live(m)' <=> Live(m)
        BY <2>1, <3>2 DEF Live
      <3>5. ListIsOfLiveObjects' /\ UninitInv'
        BY <1>0, <2>2, <2>3, <3>1, <3>2, <3>4
        DEF ListIsOfLiveObjects, UninitInv, UninitStaysOnTheList, Active, TypeOK
      <3> QED BY <3>3, <3>5 DEF LibraryInv
    <2>4. CASE frame # n
      <3>1. Finalizes(n) /\ Live(n)
        BY <1>5, <2>1, <2>4 DEF Unref, Live
      <3>2. /\ ProxyTypes' /\ ListIsOfLiveObjects'
            /\ proxy_signal_handler' \in [Notifs -> 0 .. MaxProxy]
            /\ active' \in Seq(Notifs) /\ Active' = Active \ {n}
            /\ ref' \in [Notifs -> {"none", "held", "kept", "gone"}]
            /\ ref'[n] = "gone" /\ \A m \in Notifs : m # n => ref'[m] = ref[m]
        BY <1>0, <3>1, FinalizesList
      <3>3. TypeOK'
        BY <1>0, <2>1, <3>2
        DEF TypeOK, ProxyTypes, uninitVars, busVars, settings
      <3>4. walk # n \/ walk = None
        BY <1>0, <2>1, <2>4 DEF UninitInv, AppRuns
      <3>5. frame # None => Live(frame)'
        BY <1>0, <2>2, <2>4, <3>2 DEF UninitInv, Live, TypeOK
      <3>6. UninitInv'
        BY <1>0, <2>2, <3>2, <3>4, <3>5 DEF UninitInv, UninitStaysOnTheList
      <3> QED BY <3>2, <3>3, <3>6 DEF LibraryInv
    <2> QED BY <2>3, <2>4
  <1>6. CASE UninitBegins
    <2>1. /\ uninit' = TRUE /\ walk' = First(active) /\ _initted
          /\ ~ uninit
          /\ UNCHANGED <<staticVars, proxyVars, notifyVars, frame, aborted,
                         busVars, queue>>
      BY <1>6 DEF UninitBegins
    <2>2. walk' = None \/ walk' \in Active
      <3>1. CASE active = << >>
        BY <2>1, <3>1 DEF First
      <3>2. CASE active # << >>
        <4>1. active \in Seq(Notifs)
          BY <1>0 DEF TypeOK
        <4>2. Head(active) = active[1] /\ 1 \in 1 .. Len(active)
          BY <3>2, <4>1
        <4> QED BY <2>1, <3>2, <4>2 DEF First, Active
      <3> QED BY <3>1, <3>2
    <2>3. Active \subseteq Notifs /\ frame = None
      BY <1>0, <2>1 DEF TypeOK, Active, UninitInv
    <2>4. TypeOK'
      BY <1>0, <2>1, <2>2, <2>3
      DEF TypeOK, staticVars, proxyVars, notifyVars, busVars, settings
    <2>5. ListIsOfLiveObjects' /\ UninitInv'
      BY <1>0, <2>1, <2>2, <2>3
      DEF ListIsOfLiveObjects, UninitInv, UninitStaysOnTheList, Active, Live,
          notifyVars, staticVars, busVars, settings
    <2> QED BY <2>4, <2>5 DEF LibraryInv
  <1>7. CASE UninitCloses
    <2>1. /\ GetsProxy /\ frame' = walk /\ walk \in Notifs /\ Live(walk)
          /\ frame = None
          /\ UNCHANGED <<_initted, notifyVars, uninitVars, aborted, busVars,
                         queue>>
      BY <1>7, ConstantsAssumption DEF UninitCloses
    <2>2. ProxyTypes'
      BY <1>0, <2>1, AsksTypes
    <2>3. TypeOK'
      BY <1>0, <2>1, <2>2
      DEF TypeOK, ProxyTypes, notifyVars, uninitVars, busVars, settings
    <2>4. ListIsOfLiveObjects' /\ UninitInv'
      BY <1>0, <2>1, ConstantsAssumption
      DEF ListIsOfLiveObjects, UninitInv, UninitStaysOnTheList, Active, Live,
          notifyVars, uninitVars, busVars, settings
    <2> QED BY <2>3, <2>4 DEF LibraryInv
  <1>8. CASE UninitVisits
    <2>1. /\ walk \in Active /\ Disposes(walk) /\ walk # None /\ frame = None
          /\ UNCHANGED <<_initted, uninit, frame, aborted, busVars, queue>>
      BY <1>8 DEF UninitVisits
    <2>2. /\ ProxyTypes' /\ UNCHANGED <<active, Active, ref>>
          /\ proxy_signal_handler' \in [Notifs -> 0 .. MaxProxy]
          /\ walk' \in Notifs \cup {None} /\ (walk' # None => walk' \in Active')
      BY <1>0, <2>1, DisposesWalk
    <2>3. TypeOK'
      BY <1>0, <2>1, <2>2 DEF TypeOK, ProxyTypes, busVars, settings
    <2>4. ListIsOfLiveObjects' /\ UninitInv'
      BY <1>0, <2>1, <2>2
      DEF ListIsOfLiveObjects, UninitInv, UninitStaysOnTheList, Live, busVars,
          settings
    <2> QED BY <2>3, <2>4 DEF LibraryInv
  <1>9. CASE UninitClosed
    <2>1. /\ frame # None /\ frame' = None /\ frame \in Notifs
          /\ walk = frame /\ Live(frame) /\ uninit
          /\ UNCHANGED <<_initted, uninit, aborted, busVars, queue>>
      BY <1>0, <1>9 DEF UninitClosed, UninitInv, TypeOK
    <2>2. CASE ref[frame] = "kept"
      <3>1. Finalizes(frame) /\ walk' = walk
        BY <1>9, <2>2 DEF UninitClosed
      <3>2. /\ ProxyTypes' /\ ListIsOfLiveObjects'
            /\ proxy_signal_handler' \in [Notifs -> 0 .. MaxProxy]
            /\ active' \in Seq(Notifs)
            /\ ref' \in [Notifs -> {"none", "held", "kept", "gone"}]
            /\ ref'[frame] = "gone"
            /\ \A m \in Notifs : m # frame => ref'[m] = ref[m]
        BY <1>0, <2>1, <3>1, FinalizesList
      <3>3. TypeOK'
        BY <1>0, <2>1, <3>1, <3>2 DEF TypeOK, ProxyTypes, busVars, settings
      <3>4. "drops" \in Environment /\ Environment' = Environment
        BY <1>0, <2>1, <2>2 DEF UninitInv, busVars, settings
      <3>5. \A m \in Notifs : ref'[m] # "kept"
        BY <1>0, <3>2 DEF UninitInv
      <3>6. UninitInv'
        BY <1>0, <2>1, <3>1, <3>4, <3>5 DEF UninitInv, UninitStaysOnTheList
      <3> QED BY <3>2, <3>3, <3>6 DEF LibraryInv
    <2>3. CASE ref[frame] # "kept"
      <3>1. Disposes(frame) /\ frame \in Active
        BY <1>0, <1>9, <2>1, <2>3, ListDistinct DEF UninitClosed
      <3>2. /\ ProxyTypes' /\ UNCHANGED <<active, Active, ref>>
            /\ proxy_signal_handler' \in [Notifs -> 0 .. MaxProxy]
            /\ walk' \in Notifs \cup {None}
            /\ walk' # None => walk' \in Active'
        BY <1>0, <3>1, DisposesWalk
      <3>3. TypeOK'
        BY <1>0, <2>1, <3>2 DEF TypeOK, ProxyTypes, busVars, settings
      <3>4. \A m \in Notifs : ref[m] # "kept"
        BY <1>0, <2>3 DEF UninitInv
      <3>5. ListIsOfLiveObjects' /\ UninitInv'
        BY <1>0, <2>1, <3>2, <3>4
        DEF ListIsOfLiveObjects, UninitInv, UninitStaysOnTheList, Live,
            busVars, settings
      <3> QED BY <3>3, <3>5 DEF LibraryInv
    <2> QED BY <2>2, <2>3
  <1>10. CASE UninitEnds
    <2>1. /\ uninit /\ walk = None /\ frame = None /\ uninit' = FALSE
          /\ _initted' = FALSE /\ _proxy' = 0 /\ _flatpak_app' = FALSE
          /\ queue' = << >>
          /\ UNCHANGED <<_spec_version_major, _portal_version, flatpak_app_set,
                         made, kind, notifyVars, walk, frame, aborted, busVars>>
      BY <1>10 DEF UninitEnds
    <2>2. /\ _proxy' \in 0 .. made' /\ queue' \in Seq(0 .. MaxEpoch)
          /\ Len(queue') <= MaxQueue
      BY <1>0, <2>1, ConstantsAssumption DEF TypeOK
    <2>3. _initted' \in BOOLEAN /\ uninit' \in BOOLEAN
          /\ _flatpak_app' \in BOOLEAN
      BY <2>1
    <2>4. TypeOK'
      BY <1>0, <2>1, <2>2, <2>3 DEF TypeOK, notifyVars, busVars, settings
    <2>5. ListIsOfLiveObjects' /\ UninitInv'
      BY <1>0, <2>1
      DEF ListIsOfLiveObjects, UninitInv, UninitStaysOnTheList, Active, Live,
          notifyVars, busVars, settings
    <2> QED BY <2>4, <2>5 DEF LibraryInv
  <1>11. ASSUME NEW owner \in 0 .. MaxEpoch, Hears(owner)
         PROVE  queue' \in Seq(0 .. MaxEpoch) /\ Len(queue') <= MaxQueue
    <2>1. queue \in Seq(0 .. MaxEpoch) /\ Len(queue) <= MaxQueue
      BY <1>0 DEF TypeOK
    <2>2. CASE Len(queue) < MaxQueue /\ queue' = Append(queue, owner)
      <3>1. /\ Append(queue, owner) \in Seq(0 .. MaxEpoch)
            /\ Len(Append(queue, owner)) = Len(queue) + 1
            /\ Len(queue) \in Nat
        BY <2>1
      <3> QED BY <2>2, <3>1, ConstantsAssumption
    <2>3. CASE UNCHANGED queue
      BY <2>1, <2>3
    <2> QED BY <1>11, <2>2, <2>3 DEF Hears
  <1>12. CASE Crash
    <2>1. /\ daemon' = 0 /\ Hears(0)
          /\ UNCHANGED <<staticVars, proxyVars, notifyVars, uninitVars, frame,
                         aborted, epochs, version, settings>>
      BY <1>12 DEF Crash
    <2>2. queue' \in Seq(0 .. MaxEpoch) /\ Len(queue') <= MaxQueue
      BY <1>11, <2>1, ConstantsAssumption
    <2>3. daemon' \in 0 .. epochs'
      BY <1>0, <2>1 DEF TypeOK
    <2>4. TypeOK'
      BY <1>0, <2>1, <2>2, <2>3
      DEF TypeOK, staticVars, proxyVars, notifyVars, uninitVars, settings
    <2> QED BY <2>1, <2>4, LibraryQuiet
            DEF LibraryInv, staticVars, settings
  <1>13. ASSUME NEW v \in Versions, Start(v) PROVE LibraryInv'
    <2>1. /\ epochs < MaxEpoch /\ epochs' = epochs + 1
          /\ daemon' = epochs + 1 /\ version' = v /\ Hears(epochs + 1)
          /\ UNCHANGED <<staticVars, proxyVars, notifyVars, uninitVars, frame,
                         aborted, settings>>
      BY <1>13 DEF Start
    <2>2. epochs + 1 \in 1 .. MaxEpoch
      BY <1>0, <2>1, ConstantsAssumption DEF TypeOK
    <2>3. queue' \in Seq(0 .. MaxEpoch) /\ Len(queue') <= MaxQueue
      BY <1>11, <2>1, <2>2, ConstantsAssumption
    <2>4. daemon' \in 0 .. epochs' /\ epochs' \in 1 .. MaxEpoch
      BY <2>1, <2>2, ConstantsAssumption
    <2>5. TypeOK'
      BY <1>0, <2>1, <2>3, <2>4
      DEF TypeOK, staticVars, proxyVars, notifyVars, uninitVars, settings
    <2> QED BY <2>1, <2>5, LibraryQuiet
            DEF LibraryInv, staticVars, settings
  <1>14. CASE on_name_owner_changed
    <2>1. /\ queue # << >> /\ queue' = Tail(queue)
          /\ IF Head(queue) = 0 THEN _spec_version_major' = 0
             ELSE \E answered \in BOOLEAN :
                      _notify_update_spec_version(
                          _notify_uses_portal_notifications, Head(queue),
                          answered)
          /\ UNCHANGED <<_initted, _portal_version, flatpak_app_set,
                         _flatpak_app, proxyVars, notifyVars, uninitVars,
                         frame, aborted, busVars>>
      BY <1>14 DEF on_name_owner_changed
    <2>3. _spec_version_major' \in Nat
      BY <1>0, <2>1, SpecVersionType
    <2>4. queue' \in Seq(0 .. MaxEpoch) /\ Len(queue') <= MaxQueue
      <3>1. queue \in Seq(0 .. MaxEpoch) /\ Len(queue) <= MaxQueue
        BY <1>0 DEF TypeOK
      <3>2. /\ Tail(queue) \in Seq(0 .. MaxEpoch)
            /\ Len(Tail(queue)) = Len(queue) - 1 /\ Len(queue) \in Nat
        BY <2>1, <3>1
      <3> QED BY <2>1, <3>1, <3>2, ConstantsAssumption
    <2>5. TypeOK'
      BY <1>0, <2>1, <2>3, <2>4
      DEF TypeOK, proxyVars, notifyVars, uninitVars, busVars, settings
    <2> QED BY <2>1, <2>5, LibraryQuiet DEF LibraryInv, busVars, settings
  <1>15. CASE UNCHANGED vars
    <2>1. TypeOK'
      BY <1>0, <1>15 DEF vars, TypeOK, staticVars, proxyVars, notifyVars,
                         uninitVars, busVars, settings
    <2> QED BY <1>15, <2>1, LibraryQuiet
            DEF LibraryInv, vars, staticVars, busVars, settings
  <1> QED
    BY <1>1, <1>2, <1>3, <1>4, <1>5, <1>6, <1>7, <1>8, <1>9, <1>10, <1>12,
       <1>13, <1>14, <1>15
    DEF Next

LEMMA LibraryInvariant == Spec => []LibraryInv
  BY LibraryInit, LibraryNext, PTL DEF Spec

(* Every variable keeps its type: no version is negative, no proxy is used *)
(* that was not made.                                                      *)
THEOREM TypeCorrect == Spec => []TypeOK
  <1>1. LibraryInv => TypeOK
    BY DEF LibraryInv
  <1> QED BY <1>1, LibraryInvariant, PTL

(* _active_notifications lists the objects that exist, each of them once.  *)
THEOREM ListIsExact == Spec => []ListIsOfLiveObjects
  <1>1. LibraryInv => ListIsOfLiveObjects
    BY DEF LibraryInv
  <1> QED BY <1>1, LibraryInvariant, PTL

(* notify_uninit () goes on from an element that is still on the list,     *)
(* whatever handlers create, show and drop, but for the notification they  *)
(* are called for.                                                         *)
THEOREM WalkIsSafe == Spec => []UninitStaysOnTheList
  <1>1. LibraryInv => UninitStaysOnTheList
    BY DEF LibraryInv, UninitInv
  <1> QED BY <1>1, LibraryInvariant, PTL

-----------------------------------------------------------------------------
LEMMA EnvironmentStays == [Next]_vars => UNCHANGED Environment
  BY DEF Next, notify_init, GetServerInfo, New, Show, Unref, UninitBegins,
         UninitCloses, UninitVisits, UninitClosed, UninitEnds, Crash, Start,
         on_name_owner_changed, vars, busVars, settings

(* What the cached version is about.  A proxy in the daemon's mode is the  *)
(* daemon's; it is told each change of owner, the last of which is the     *)
(* present owner; without any left the version is what that owner said.    *)
(* Nobody is told anything without a proxy, or while one daemon runs, to   *)
(* which it owes its answer.                                               *)
DaemonsProxy == _proxy # 0 /\ _portal_version = 0
Doubtful == {"restart", "unanswered"} \subseteq Environment
VersionFits ==
    /\ daemon = 0 => _spec_version_major = 0
    /\ daemon # 0 /\ version # -1 =>
          \/ _spec_version_major = version
          \/ _spec_version_major = 0 /\ Doubtful

VersionInv ==
    /\ _proxy = 0 => queue = << >>
    /\ "restart" \notin Environment => daemon # 0 /\ queue = << >>
    /\ DaemonsProxy =>
           /\ kind[_proxy] = "daemon"
           /\ queue # << >> => queue[Len(queue)] = daemon
           /\ queue = << >> => VersionFits

(* The proxy, the version and what they come from are as they were.        *)
LEMMA VersionQuiet ==
    ASSUME VersionInv,
           UNCHANGED <<_proxy, kind, queue, _portal_version, daemon, version,
                       _spec_version_major, Environment>>
    PROVE  VersionInv'
  BY DEF VersionInv, DaemonsProxy, VersionFits, Doubtful

LEMMA VersionAsks ==
    ASSUME TypeOK, VersionInv, GetsProxy \/ GetsNoProxy,
           UNCHANGED <<busVars, queue>>
    PROVE  VersionInv'
  <1>1. UNCHANGED <<daemon, version, queue, Environment>>
    BY DEF busVars, settings
  <1>2. CASE _proxy # 0 /\ UNCHANGED <<proxyVars, _spec_version_major,
                                       _portal_version, flatpak_app_set,
                                       _flatpak_app>>
    BY <1>1, <1>2, VersionQuiet DEF proxyVars
  <1>3. ASSUME NEW portal \in BOOLEAN, CreatesProxy(portal) PROVE VersionInv'
    <2>1. /\ _proxy = 0 /\ _proxy' = made' /\ made' = made + 1
          /\ kind'[_proxy'] = IF portal THEN "portal" ELSE "daemon"
          /\ _portal_version' = IF portal THEN 1 ELSE _portal_version
          /\ _notify_update_spec_version(_portal_version' # 0, daemon, TRUE)
      BY <1>3, CreatesProxyTypes
    <2>2. _proxy' # 0 /\ queue' = << >>
      BY <1>1, <2>1, ConstantsAssumption DEF TypeOK, VersionInv
    <2>3. ASSUME _portal_version' = 0
          PROVE  /\ ~ portal /\ daemon # 0
                 /\ version # -1 => _spec_version_major' = version
      BY <2>1, <2>3 DEF _notify_update_spec_version
    <2> QED BY <1>1, <2>1, <2>2, <2>3 DEF VersionInv, DaemonsProxy, VersionFits
  <1>4. CASE GetsNoProxy
    BY <1>1, <1>4 DEF GetsNoProxy, proxyVars, VersionInv, DaemonsProxy
  <1> QED BY <1>2, <1>3, <1>4 DEF GetsProxy

LEMMA VersionHears ==
    ASSUME TypeOK, VersionInv, NEW owner \in 0 .. MaxEpoch, Hears(owner),
           daemon' = owner, "restart" \in Environment,
           UNCHANGED <<staticVars, proxyVars, settings>>
    PROVE  VersionInv'
  <1>1. /\ UNCHANGED <<_proxy, kind, _portal_version, _spec_version_major>>
        /\ "restart" \in Environment'
    BY DEF staticVars, proxyVars, settings
  <1>2. queue \in Seq(0 .. MaxEpoch)
    BY DEF TypeOK
  <1>3. CASE _proxy = 0
    BY <1>1, <1>3 DEF Hears, VersionInv, DaemonsProxy
  <1>4. CASE DaemonsProxy
    <2>1. queue' = Append(queue, owner) /\ kind[_proxy] = "daemon"
      BY <1>4 DEF Hears, VersionInv, DaemonsProxy
    <2>2. queue' # << >> /\ queue'[Len(queue')] = owner
      BY <1>2, <2>1
    <2> QED BY <1>1, <1>4, <2>1, <2>2 DEF VersionInv, DaemonsProxy
  <1>5. CASE _proxy # 0 /\ ~ DaemonsProxy
    BY <1>1, <1>5 DEF VersionInv, DaemonsProxy
  <1> QED BY <1>3, <1>4, <1>5

LEMMA VersionNext ==
    TypeOK /\ VersionInv /\ [Next]_vars => VersionInv'
  <1> SUFFICES ASSUME TypeOK, VersionInv, [Next]_vars PROVE VersionInv'
    OBVIOUS
  <1>1. CASE \E name \in {"argument", "application", "none"} : notify_init(name)
    BY <1>1, VersionQuiet DEF notify_init, proxyVars, busVars, settings
  <1>2. CASE GetServerInfo
    BY <1>2, VersionAsks DEF GetServerInfo
  <1>3. ASSUME NEW n \in Notifs, New(n) PROVE VersionInv'
    BY <1>3, VersionQuiet DEF New, staticVars, proxyVars, busVars, settings
  <1>4. ASSUME NEW n \in Notifs, NEW app_icon \in BOOLEAN, Show(n, app_icon)
        PROVE  VersionInv'
    BY <1>4, VersionAsks DEF Show
  <1>5. ASSUME NEW n \in Notifs, Unref(n) PROVE VersionInv'
    <2>1. UNCHANGED <<busVars, queue>>
      BY <1>5 DEF Unref
    <2>2. CASE Finalizes(n)
      BY <2>1, <2>2, VersionAsks DEF Finalizes
    <2>3. CASE UNCHANGED <<active, proxy_signal_handler, proxyVars,
                           _spec_version_major, _portal_version,
                           flatpak_app_set, _flatpak_app>>
      BY <2>1, <2>3, VersionQuiet DEF proxyVars, busVars, settings
    <2> QED BY <1>5, <2>2, <2>3 DEF Unref
  <1>6. CASE UninitBegins
    BY <1>6, VersionQuiet DEF UninitBegins, staticVars, proxyVars, busVars,
                              settings
  <1>7. CASE UninitCloses
    BY <1>7, VersionAsks DEF UninitCloses
  <1>8. CASE UninitVisits
    BY <1>8, VersionAsks DEF UninitVisits, Disposes
  <1>9. CASE UninitClosed
    BY <1>9, VersionAsks DEF UninitClosed, Disposes, Finalizes
  <1>10. CASE UninitEnds
    BY <1>10 DEF UninitEnds, VersionInv, DaemonsProxy, busVars, settings
  <1>11. CASE Crash
    <2>1. 0 \in 0 .. MaxEpoch
      BY ConstantsAssumption
    <2> QED BY <1>11, <2>1, VersionHears DEF Crash
  <1>12. ASSUME NEW v \in Versions, Start(v) PROVE VersionInv'
    <2>1. epochs + 1 \in 0 .. MaxEpoch
      BY <1>12, ConstantsAssumption DEF Start, TypeOK
    <2>2. "restart" \in Environment
      BY <1>12 DEF Start, VersionInv
    <2> QED BY <1>12, <2>1, <2>2, VersionHears DEF Start
  <1>13. CASE on_name_owner_changed
    <2>1. /\ queue # << >> /\ queue' = Tail(queue)
          /\ IF Head(queue) = 0 THEN _spec_version_major' = 0
             ELSE \E answered \in BOOLEAN :
                      _notify_update_spec_version(
                          _notify_uses_portal_notifications, Head(queue),
                          answered)
          /\ UNCHANGED <<_proxy, kind, _portal_version, daemon, version,
                         Environment>>
      BY <1>13 DEF on_name_owner_changed, proxyVars, busVars, settings
    <2>2. queue \in Seq(0 .. MaxEpoch)
      BY DEF TypeOK
    <2>3. _proxy # 0 /\ "restart" \in Environment
      BY <2>1 DEF VersionInv
    <2>4. ASSUME DaemonsProxy
          PROVE  /\ queue' # << >> => queue'[Len(queue')] = daemon
                 /\ queue' = << >> => VersionFits'
      <3>1. /\ Len(queue) \in Nat \ {0} /\ Head(queue) = queue[1]
            /\ Len(queue') = Len(queue) - 1
            /\ \A k \in 1 .. Len(queue') : queue'[k] = queue[k + 1]
        BY <2>1, <2>2
      <3>2. queue[Len(queue)] = daemon
        BY <2>1, <2>4 DEF VersionInv
      <3>3. CASE queue' = << >>
        <4> DEFINE l == Len(queue)
        <4>1. l \in Nat /\ Len(queue') = l - 1
          BY <3>1
        <4>2. Len(queue') = 0
          BY <3>3
        <4> HIDE DEF l
        <4>3. l = 1
          BY <4>1, <4>2
        <4>4. Head(queue) = daemon
          BY <3>1, <3>2, <4>3 DEF l
        <4>5. CASE daemon = 0
          BY <2>1, <3>3, <4>4, <4>5 DEF VersionFits
        <4>6. CASE daemon # 0
          <5>1. PICK answered \in BOOLEAN :
                    _notify_update_spec_version(FALSE, daemon, answered)
            BY <2>1, <2>4, <4>4, <4>6
               DEF DaemonsProxy, _notify_uses_portal_notifications
          <5>2. CASE answered
            BY <2>1, <3>3, <4>6, <5>1, <5>2
               DEF VersionFits, _notify_update_spec_version
          <5>3. CASE ~ answered
            <6>1. "unanswered" \in Environment /\ _spec_version_major' = 0
              BY <4>6, <5>1, <5>3 DEF _notify_update_spec_version
            <6> QED BY <2>1, <2>3, <3>3, <4>6, <6>1 DEF VersionFits, Doubtful
          <5> QED BY <5>2, <5>3
        <4> QED BY <4>5, <4>6
      <3>4. CASE queue' # << >>
        <4>1. queue' \in Seq(0 .. MaxEpoch)
          BY <2>1, <2>2
        <4>2. Len(queue') \in Nat \ {0}
          BY <3>4, <4>1
        <4>3. Len(queue') \in 1 .. Len(queue') /\ Len(queue') + 1 = Len(queue)
          BY <3>1, <4>2
        <4>4. queue'[Len(queue')] = queue[Len(queue)]
          BY <3>1, <4>3
        <4> QED BY <3>2, <3>4, <4>4
      <3> QED BY <3>3, <3>4
    <2> QED BY <2>1, <2>3, <2>4 DEF VersionInv, DaemonsProxy
  <1>14. CASE UNCHANGED vars
    BY <1>14, VersionQuiet DEF vars, staticVars, proxyVars, busVars, settings
  <1> QED
    BY <1>1, <1>2, <1>3, <1>4, <1>5, <1>6, <1>7, <1>8, <1>9, <1>10, <1>11,
       <1>12, <1>13, <1>14
    DEF Next

LEMMA VersionInvariant == Spec => []VersionInv
  <1>1. Init => VersionInv
    BY DEF Init, VersionInv, DaemonsProxy
  <1> QED BY <1>1, VersionNext, TypeCorrect, PTL DEF Spec

(* When the main loop has seen every change of owner, through any number   *)
(* of daemons, of uninit and of init, the cached version is 0 if no daemon *)
(* runs and else the running one's, 0 again only if that one took another  *)
(* one's place and did not answer.                                         *)
THEOREM VersionIsTheDaemons == Spec => []SpecVersionIsCurrent
  <1>1. VersionInv => SpecVersionIsCurrent
    BY DEF VersionInv, DaemonsProxy, VersionFits, Doubtful,
           SpecVersionIsCurrent, _notify_uses_portal_notifications
  <1> QED BY <1>1, VersionInvariant, PTL

-----------------------------------------------------------------------------
(* One daemon: it is there, nobody hears of another one, and showing finds *)
(* its version.                                                            *)
KnownInv ==
    "restart" \notin Environment =>
        daemon # 0 /\ queue = << >> /\ (version >= 1 => ~ aborted)

LEMMA KnownNext ==
    TypeOK /\ VersionInv /\ VersionInv' /\ KnownInv /\ [Next]_vars => KnownInv'
  <1> SUFFICES ASSUME TypeOK, VersionInv', KnownInv, [Next]_vars,
                      "restart" \notin Environment
               PROVE  /\ daemon' # 0 /\ queue' = << >>
                      /\ version' >= 1 => ~ aborted'
    BY EnvironmentStays DEF KnownInv
  <1>0. daemon # 0 /\ queue = << >> /\ (version >= 1 => ~ aborted)
    BY DEF KnownInv
  <1>1. CASE UNCHANGED <<busVars, queue, aborted>>
    BY <1>0, <1>1 DEF busVars
  <1>2. ASSUME NEW n \in Notifs, NEW app_icon \in BOOLEAN, Show(n, app_icon)
        PROVE  /\ daemon' # 0 /\ queue' = << >>
               /\ version' >= 1 => ~ aborted'
    <2>1. UNCHANGED <<daemon, version, queue>> /\ ~ aborted
      BY <1>2 DEF Show, AppRuns, busVars
    <2>2. CASE GetsNoProxy /\ UNCHANGED <<proxy_signal_handler, aborted>>
      BY <1>0, <2>1, <2>2
    <2>3. CASE GetsProxy
      <3>1. _proxy' # 0
        BY <2>3, AsksTypes
      <3>2. _portal_version' = 0 /\ version # -1
                => _spec_version_major' = version
        BY <1>0, <2>1, <3>1, EnvironmentStays
           DEF VersionInv, DaemonsProxy, VersionFits, Doubtful
      <3>3. aborted' => \/ _portal_version' = 0 /\ _spec_version_major' = 0
                        \/ GetsNoProxy /\ UNCHANGED aborted
        BY <1>2 DEF Show
      <3>4. ASSUME version >= 1 PROVE ~ aborted'
        <4>1. version # -1 /\ version # 0
          BY <3>4
        <4> QED BY <2>1, <3>2, <3>3, <4>1
      <3> QED BY <1>0, <2>1, <3>4
    <2> QED BY <1>2, <2>2, <2>3 DEF Show
  <1>3. CASE UninitEnds
    BY <1>0, <1>3 DEF UninitEnds, busVars
  <1>4. CASE \E name \in {"argument", "application", "none"} : notify_init(name)
    BY <1>1, <1>4 DEF notify_init
  <1>5. CASE \/ GetServerInfo \/ UninitBegins \/ UninitCloses
             \/ UninitVisits \/ UninitClosed
             \/ \E n \in Notifs : New(n) \/ Unref(n)
    BY <1>1, <1>5 DEF GetServerInfo, UninitBegins, UninitCloses, UninitVisits,
                      UninitClosed, New, Unref
  <1>6. ~ Crash /\ ~ on_name_owner_changed /\ \A v \in Versions : ~ Start(v)
    BY <1>0 DEF Crash, Start, on_name_owner_changed
  <1>7. CASE UNCHANGED vars
    BY <1>1, <1>7 DEF vars
  <1> QED BY <1>2, <1>3, <1>4, <1>5, <1>6, <1>7 DEF Next

(* The assertion of _notify_check_spec_version () does not fail while one  *)
(* daemon runs that tells a version.                                       *)
THEOREM AssertionIsSafe == Spec => []VersionIsKnown
  <1>1. Init => KnownInv
    BY DEF Init, KnownInv
  <1>2. KnownInv => VersionIsKnown
    BY DEF KnownInv, VersionIsKnown, AssertionHolds
  <1> QED BY <1>1, <1>2, KnownNext, TypeCorrect, VersionInvariant, PTL
          DEF Spec

-----------------------------------------------------------------------------
(* A library that is initialized once makes its first proxy in a mode that *)
(* nothing has chosen yet.                                                 *)
ModeInv ==
    /\ made = 0 => _portal_version = 0 /\ _proxy = 0
    /\ "reinit" \notin Environment /\ _initted =>
           IF _proxy = 0 THEN made = 0
           ELSE (_portal_version # 0 <=> kind[_proxy] = "portal")

LEMMA ModeQuiet ==
    ASSUME ModeInv, UNCHANGED <<proxyVars, _portal_version, _initted,
                                Environment>>
    PROVE  ModeInv'
  BY DEF ModeInv, proxyVars

LEMMA ModeAsks ==
    ASSUME TypeOK, ModeInv, GetsProxy \/ GetsNoProxy,
           UNCHANGED <<_initted, Environment>>
    PROVE  ModeInv'
  <1>1. CASE UNCHANGED <<proxyVars, _portal_version>>
    BY <1>1, ModeQuiet
  <1>2. ASSUME NEW portal \in BOOLEAN, CreatesProxy(portal) PROVE ModeInv'
    <2>1. /\ _proxy = 0 /\ _proxy' = made' /\ made' = made + 1
          /\ kind'[_proxy'] = IF portal THEN "portal" ELSE "daemon"
          /\ _portal_version' = IF portal THEN 1 ELSE _portal_version
      BY <1>2, CreatesProxyTypes
    <2>2. made' # 0 /\ _proxy' # 0
      BY <2>1, ConstantsAssumption DEF TypeOK
    <2>3. "reinit" \notin Environment /\ _initted => _portal_version = 0
      BY <2>1 DEF ModeInv
    <2> QED BY <2>1, <2>2, <2>3 DEF ModeInv
  <1>3. CASE GetsNoProxy
    BY <1>1, <1>3 DEF GetsNoProxy
  <1> QED BY <1>1, <1>2, <1>3 DEF GetsProxy

LEMMA ModeNext == TypeOK /\ ModeInv /\ [Next]_vars => ModeInv'
  <1> SUFFICES ASSUME TypeOK, ModeInv, [Next]_vars PROVE ModeInv'
    OBVIOUS
  <1>0. UNCHANGED Environment
    BY EnvironmentStays
  <1>1. ASSUME NEW name \in {"argument", "application", "none"},
               notify_init(name)
        PROVE  ModeInv'
    BY <1>0, <1>1 DEF notify_init, ModeInv, proxyVars
  <1>2. CASE GetServerInfo
    BY <1>0, <1>2, ModeAsks DEF GetServerInfo
  <1>3. CASE \E n \in Notifs : New(n)
    BY <1>0, <1>3, ModeQuiet DEF New, staticVars
  <1>4. CASE \E n \in Notifs, app_icon \in BOOLEAN : Show(n, app_icon)
    BY <1>0, <1>4, ModeAsks DEF Show
  <1>5. ASSUME NEW n \in Notifs, Unref(n) PROVE ModeInv'
    BY <1>0, <1>5, ModeAsks, ModeQuiet DEF Unref, Finalizes
  <1>6. CASE UninitBegins
    BY <1>0, <1>6, ModeQuiet DEF UninitBegins, staticVars
  <1>7. CASE UninitCloses
    BY <1>0, <1>7, ModeAsks DEF UninitCloses
  <1>8. CASE UninitVisits \/ UninitClosed
    BY <1>0, <1>8, ModeAsks DEF UninitVisits, UninitClosed, Disposes, Finalizes
  <1>9. CASE UninitEnds
    BY <1>9 DEF UninitEnds, ModeInv
  <1>10. CASE Crash \/ (\E v \in Versions : Start(v)) \/ on_name_owner_changed
    BY <1>0, <1>10, ModeQuiet DEF Crash, Start, on_name_owner_changed,
                                  staticVars
  <1>11. CASE UNCHANGED vars
    BY <1>0, <1>11, ModeQuiet DEF vars, staticVars
  <1> QED BY <1>1, <1>2, <1>3, <1>4, <1>5, <1>6, <1>7, <1>8, <1>9, <1>10,
             <1>11 DEF Next

(* While it is initialized once, the library speaks the portal's protocol  *)
(* to the portal and the daemon's to the daemon.                           *)
THEOREM ProtocolFits == Spec => []ModeFitsProxy
  <1>1. Init => ModeInv
    BY DEF Init, ModeInv
  <1>2. ModeInv => ModeFitsProxy
    BY DEF ModeInv, ModeFitsProxy, _notify_uses_portal_notifications
  <1> QED BY <1>1, <1>2, ModeNext, TypeCorrect, PTL DEF Spec

-----------------------------------------------------------------------------
LEMMA NoProxyNext ==
    LibraryInv /\ UninitLeavesNoProxy /\ [Next]_vars => UninitLeavesNoProxy'
  <1> SUFFICES ASSUME LibraryInv, UninitLeavesNoProxy, [Next]_vars,
                      "late" \notin Environment, ~ _initted'
               PROVE  _proxy' = 0
    BY EnvironmentStays DEF UninitLeavesNoProxy
  <1>1. CASE UNCHANGED <<_proxy, _initted>>
    BY <1>1 DEF UninitLeavesNoProxy
  <1>2. /\ uninit => _initted
        /\ walk # None => uninit
        /\ frame # None => walk # None
    BY DEF LibraryInv, UninitInv
  <1>3. CASE \E name \in {"argument", "application", "none"} : notify_init(name)
    BY <1>3 DEF notify_init, proxyVars, UninitLeavesNoProxy
  <1>4. ~ GetServerInfo
    BY DEF GetServerInfo
  <1>5. ASSUME NEW n \in Notifs, NEW app_icon \in BOOLEAN, Show(n, app_icon)
        PROVE  FALSE
    BY <1>5 DEF Show
  <1>6. ASSUME NEW n \in Notifs, New(n) \/ Unref(n) PROVE FALSE
    <2>1. _initted' = _initted /\ _initted
      BY <1>6 DEF New, Unref, staticVars
    <2> QED BY <2>1
  <1>7. ~ UninitBegins
    BY DEF UninitBegins, staticVars
  <1>8. ~ UninitCloses /\ ~ UninitVisits /\ ~ UninitClosed
    BY <1>2, ConstantsAssumption DEF UninitCloses, UninitVisits, UninitClosed
  <1>9. CASE UninitEnds
    BY <1>9 DEF UninitEnds
  <1>10. CASE Crash \/ (\E v \in Versions : Start(v)) \/ on_name_owner_changed
    BY <1>1, <1>10 DEF Crash, Start, on_name_owner_changed, staticVars,
                       proxyVars
  <1>11. CASE UNCHANGED vars
    BY <1>1, <1>11 DEF vars, staticVars, proxyVars
  <1> QED BY <1>3, <1>4, <1>5, <1>6, <1>7, <1>8, <1>9, <1>10, <1>11 DEF Next

(* Uninitialization leaves no proxy behind, although every disposal it     *)
(* runs makes one if there is none.                                        *)
THEOREM UninitIsClean == Spec => []UninitLeavesNoProxy
  <1>1. Init => UninitLeavesNoProxy
    BY DEF Init, UninitLeavesNoProxy
  <1> QED BY <1>1, NoProxyNext, LibraryInvariant, PTL DEF Spec

-----------------------------------------------------------------------------
(* A new object has no handler, and those notify_uninit () has passed have *)
(* none left, wherever a handler of the application adds and removes       *)
(* others: so nobody is connected when the proxy is given up.              *)
Connected ==
    \A n \in Notifs : Live(n) /\ proxy_signal_handler[n] # 0 =>
                          proxy_signal_handler[n] = _proxy

Passed(j) == walk = None \/ \E k \in 1 .. Len(active) :
                                j < k /\ active[k] = walk

PassedAreFree ==
    uninit => \A j \in 1 .. Len(active) :
                  Passed(j) => proxy_signal_handler[active[j]] = 0

ConnectedInv ==
    /\ \A n \in Notifs : ref[n] = "none" => proxy_signal_handler[n] = 0
    /\ Connected
    /\ PassedAreFree

HandlersInv == "uninit_show" \notin Environment => ConnectedInv

LEMMA ConnectedQuiet ==
    ASSUME ConnectedInv, UNCHANGED <<_proxy, notifyVars, uninitVars>>
    PROVE  ConnectedInv'
  BY DEF ConnectedInv, Connected, PassedAreFree, Passed, Live, notifyVars,
         uninitVars

(* Nobody is connected when there is no proxy, so that a new one is        *)
(* nobody's.                                                               *)
LEMMA ConnectedAsks ==
    ASSUME LibraryInv, Connected, GetsProxy \/ GetsNoProxy
    PROVE  \A n \in Notifs : Live(n) /\ proxy_signal_handler[n] # 0 =>
                                 proxy_signal_handler[n] = _proxy'
  <1>1. TypeOK
    BY DEF LibraryInv
  <1>2. _proxy' # _proxy => _proxy = 0
    BY <1>1, AsksTypes
  <1> QED BY <1>2 DEF Connected

LEMMA ConnectedDisposed ==
    ASSUME LibraryInv, Connected, GetsProxy \/ GetsNoProxy,
           NEW n \in Notifs, Live(n), Disposed(n, _proxy')
    PROVE  /\ proxy_signal_handler'[n] = 0
           /\ \A m \in Notifs :
                  m # n => proxy_signal_handler'[m] = proxy_signal_handler[m]
           /\ \A m \in Notifs : Live(m) /\ proxy_signal_handler'[m] # 0 =>
                                    proxy_signal_handler'[m] = _proxy'
  <1>1. TypeOK
    BY DEF LibraryInv
  <1>2. /\ proxy_signal_handler'[n]
              = IF _proxy' = 0 THEN proxy_signal_handler[n] ELSE 0
        /\ \A m \in Notifs :
              m # n => proxy_signal_handler'[m] = proxy_signal_handler[m]
    BY <1>1, DisposedTypes
  <1>3. proxy_signal_handler[n] # 0 => proxy_signal_handler[n] = _proxy'
    BY ConnectedAsks
  <1> QED BY <1>2, <1>3, ConnectedAsks

LEMMA ConnectedFinalizes ==
    ASSUME LibraryInv, ConnectedInv, NEW n \in Notifs, Live(n), Finalizes(n),
           UNCHANGED uninitVars
    PROVE  ConnectedInv'
  <1>0. TypeOK /\ ListIsOfLiveObjects /\ Connected
    BY DEF LibraryInv, ConnectedInv
  <1>1. (GetsProxy \/ GetsNoProxy) /\ Disposed(n, _proxy')
        /\ active' = Without(n) /\ ref' = [ref EXCEPT ![n] = "gone"]
    BY DEF Finalizes
  <1>2. /\ proxy_signal_handler'[n] = 0
        /\ \A m \in Notifs :
              m # n => proxy_signal_handler'[m] = proxy_signal_handler[m]
        /\ \A m \in Notifs : Live(m) /\ proxy_signal_handler'[m] # 0 =>
                                 proxy_signal_handler'[m] = _proxy'
    BY <1>0, <1>1, ConnectedDisposed
  <1>3. ref'[n] = "gone" /\ \A m \in Notifs : m # n => ref'[m] = ref[m]
    BY <1>0, <1>1 DEF TypeOK
  <1>4. \A m \in Notifs : ref'[m] = "none" => proxy_signal_handler'[m] = 0
    BY <1>2, <1>3 DEF ConnectedInv
  <1>5. Connected'
    BY <1>2, <1>3 DEF Connected, Live
  <1>6. /\ Active' = Active \ {n} /\ active' \in Seq(Notifs)
        /\ \A j, k \in 1 .. Len(active') :
               j < k => \E i, m \in 1 .. Len(active) :
                            /\ i < m /\ active[i] = active'[j]
                            /\ active[m] = active'[k]
    <2>1. Distinct(active) /\ n \in Active /\ active \in Seq(Notifs)
      BY <1>0, ListDistinct DEF TypeOK
    <2> QED BY <1>1, <2>1, WithoutIsTheRest
  <1>7. ASSUME uninit', NEW j \in 1 .. Len(active'), Passed(j)'
        PROVE  proxy_signal_handler'[active'[j]] = 0
    <2>1. uninit /\ walk' = walk
      BY <1>7 DEF uninitVars
    <2>2. active'[j] \in Active' /\ active'[j] \in Notifs /\ active'[j] # n
      <3>1. active'[j] \in Active'
        BY <1>7 DEF Active
      <3>2. active'[j] \in Notifs
        BY <1>6, <1>7
      <3> QED BY <1>6, <3>1, <3>2
    <2>3. \E i \in 1 .. Len(active) : active[i] = active'[j] /\ Passed(i)
      <3>1. CASE walk = None
        <4>1. active'[j] \in Active
          BY <1>6, <2>2
        <4> QED BY <3>1, <4>1 DEF Passed, Active
      <3>2. CASE walk # None
        <4>1. PICK k \in 1 .. Len(active') : j < k /\ active'[k] = walk
          BY <1>7, <2>1, <3>2 DEF Passed
        <4>2. PICK i, m \in 1 .. Len(active) :
                  i < m /\ active[i] = active'[j] /\ active[m] = active'[k]
          BY <1>6, <4>1
        <4> QED BY <4>1, <4>2 DEF Passed
      <3> QED BY <3>1, <3>2
    <2>4. proxy_signal_handler[active'[j]] = 0
      BY <2>1, <2>3 DEF ConnectedInv, PassedAreFree
    <2> QED BY <1>2, <2>2, <2>4
  <1> QED BY <1>4, <1>5, <1>7 DEF ConnectedInv, PassedAreFree

(* The element notify_uninit () disposes of joins those it has passed.     *)
LEMMA ConnectedDisposes ==
    ASSUME LibraryInv, ConnectedInv, uninit, walk \in Active, walk # None,
           Disposes(walk), UNCHANGED uninit
    PROVE  ConnectedInv'
  <1>0. TypeOK /\ ListIsOfLiveObjects /\ Connected
    BY DEF LibraryInv, ConnectedInv
  <1>1. /\ GetsProxy \/ GetsNoProxy
        /\ Disposed(walk, _proxy') /\ walk' = After(walk)
        /\ UNCHANGED <<active, ref>>
    BY DEF Disposes
  <1>2. /\ walk \in Notifs /\ Live(walk)
        /\ Distinct(active) /\ active \in Seq(Notifs)
    BY <1>0, ListDistinct DEF TypeOK, Active
  <1>3. /\ proxy_signal_handler'[walk] = 0
        /\ \A m \in Notifs :
              m # walk => proxy_signal_handler'[m] = proxy_signal_handler[m]
        /\ \A m \in Notifs : Live(m) /\ proxy_signal_handler'[m] # 0 =>
                                 proxy_signal_handler'[m] = _proxy'
    BY <1>0, <1>1, <1>2, ConnectedDisposed
  <1>4. \A m \in Notifs : ref'[m] = "none" => proxy_signal_handler'[m] = 0
    BY <1>1, <1>3 DEF ConnectedInv
  <1>5. Connected'
    BY <1>1, <1>3 DEF Connected, Live
  <1>6. /\ Place(walk) \in 1 .. Len(active) /\ active[Place(walk)] = walk
        /\ Len(active) \in Nat
    BY <1>2, PlaceOf
  <1>7. ASSUME NEW j \in 1 .. Len(active), Passed(j)'
        PROVE  proxy_signal_handler'[active[j]] = 0
    <2>1. active[j] \in Notifs
      BY <1>2
    <2>2. j <= Place(walk)
      <3>1. CASE Place(walk) = Len(active)
        BY <1>6, <3>1
      <3>2. CASE Place(walk) # Len(active)
        <4>1. Place(walk) + 1 \in 1 .. Len(active)
          BY <1>6, <3>2
        <4>2. walk' = active[Place(walk) + 1] /\ walk' # None
          BY <1>1, <1>2, <3>2, <4>1, ConstantsAssumption DEF After
        <4>3. PICK k \in 1 .. Len(active) : j < k /\ active[k] = walk'
          BY <1>1, <1>7, <4>2 DEF Passed
        <4>4. k = Place(walk) + 1
          BY <1>2, <4>1, <4>2, <4>3 DEF Distinct
        <4> QED BY <1>6, <4>3, <4>4
      <3> QED BY <3>1, <3>2
    <2>3. CASE active[j] = walk
      BY <1>3, <2>3
    <2>4. CASE active[j] # walk
      <3>1. j < Place(walk)
        BY <1>6, <2>2, <2>4
      <3>2. Passed(j)
        BY <1>6, <3>1 DEF Passed
      <3> QED BY <1>3, <2>1, <2>4, <3>2 DEF ConnectedInv, PassedAreFree
    <2> QED BY <2>3, <2>4
  <1> QED BY <1>1, <1>4, <1>5, <1>7 DEF ConnectedInv, PassedAreFree

LEMMA HandlersNext ==
    LibraryInv /\ HandlersInv /\ [Next]_vars => HandlersInv'
  <1> SUFFICES ASSUME LibraryInv, ConnectedInv, [Next]_vars,
                      "uninit_show" \notin Environment
               PROVE  ConnectedInv'
    BY EnvironmentStays DEF HandlersInv
  <1>0. /\ TypeOK /\ ListIsOfLiveObjects /\ UninitInv
        /\ Connected /\ PassedAreFree
        /\ \A n \in Notifs : ref[n] = "none" => proxy_signal_handler[n] = 0
    BY DEF LibraryInv, ConnectedInv
  <1>1. CASE \E name \in {"argument", "application", "none"} : notify_init(name)
    BY <1>1, ConnectedQuiet DEF notify_init, proxyVars
  <1>2. CASE GetServerInfo \/ UninitCloses
    <2>1. (GetsProxy \/ GetsNoProxy) /\ UNCHANGED <<notifyVars, uninitVars>>
      BY <1>2 DEF GetServerInfo, UninitCloses
    <2>2. Connected'
      BY <1>0, <2>1, ConnectedAsks DEF Connected, Live, notifyVars
    <2> QED BY <1>0, <2>1, <2>2
            DEF ConnectedInv, PassedAreFree, Passed, notifyVars, uninitVars
  <1>3. ASSUME NEW n \in Notifs, New(n) PROVE ConnectedInv'
    <2>1. /\ ref[n] = "none" /\ active' = <<n>> \o active
          /\ ref' = [ref EXCEPT ![n] = "held"]
          /\ UNCHANGED <<_proxy, proxy_signal_handler, uninit, walk>>
      BY <1>3 DEF New, proxyVars, uninitVars
    <2>2. proxy_signal_handler[n] = 0
      BY <1>0, <2>1
    <2>3. ref'[n] = "held" /\ \A m \in Notifs : m # n => ref'[m] = ref[m]
      BY <1>0, <2>1 DEF TypeOK
    <2>4. Distinct(active) /\ n \notin Active /\ active \in Seq(Notifs)
      BY <1>0, <2>1, ListDistinct DEF TypeOK, Live
    <2>5. /\ \A k \in 1 .. Len(active') : k # 1 =>
                 k - 1 \in 1 .. Len(active) /\ active'[k] = active[k - 1]
          /\ active'[1] = n
      BY <2>1, <2>4, ListPrepend
    <2>6. ASSUME uninit', NEW j \in 1 .. Len(active'), Passed(j)', j # 1
          PROVE  Passed(j - 1)
      <3>1. CASE walk = None
        BY <3>1 DEF Passed
      <3>2. CASE walk # None
        <4>1. PICK k \in 1 .. Len(active') : j < k /\ active'[k] = walk
          BY <2>1, <2>6, <3>2 DEF Passed
        <4>2. k - 1 \in 1 .. Len(active) /\ active[k - 1] = walk
              /\ j - 1 < k - 1
          BY <2>5, <4>1
        <4> QED BY <4>2 DEF Passed
      <3> QED BY <3>1, <3>2
    <2>7. PassedAreFree'
      <3> SUFFICES ASSUME uninit', NEW j \in 1 .. Len(active'), Passed(j)'
                   PROVE  proxy_signal_handler[active'[j]] = 0
        BY <2>1 DEF PassedAreFree
      <3>1. CASE j = 1
        BY <2>2, <2>5, <3>1
      <3>2. CASE j # 1
        <4>1. j - 1 \in 1 .. Len(active) /\ active'[j] = active[j - 1]
          BY <2>5, <3>2
        <4> QED BY <1>0, <2>1, <2>6, <3>2, <4>1 DEF PassedAreFree
      <3> QED BY <3>1, <3>2
    <2>8. Connected' /\ \A m \in Notifs :
                            ref'[m] = "none" => proxy_signal_handler'[m] = 0
      BY <1>0, <2>1, <2>2, <2>3 DEF Connected, Live
    <2> QED BY <2>7, <2>8 DEF ConnectedInv
  <1>4. ASSUME NEW n \in Notifs, NEW app_icon \in BOOLEAN, Show(n, app_icon)
        PROVE  ConnectedInv'
    <2>1. /\ ~ uninit /\ UNCHANGED <<active, ref, uninit, walk>> /\ Live(n)
          /\ GetsProxy \/ GetsNoProxy
      BY <1>4 DEF Show, uninitVars
    <2>2. \/ proxy_signal_handler' =
                 [proxy_signal_handler EXCEPT ![n] =
                     IF @ = 0 THEN _proxy' ELSE @]
          \/ UNCHANGED proxy_signal_handler
      BY <1>4 DEF Show
    <2>3. \A m \in Notifs :
              \/ proxy_signal_handler'[m] = proxy_signal_handler[m]
              \/ m = n /\ proxy_signal_handler'[m] = _proxy'
      BY <1>0, <2>2 DEF TypeOK
    <2>4. \A m \in Notifs : Live(m)' <=> Live(m)
      BY <2>1 DEF Live
    <2>5. Connected'
      BY <1>0, <2>1, <2>3, <2>4, ConnectedAsks DEF Connected
    <2>6. \A m \in Notifs : ref'[m] = "none" => proxy_signal_handler'[m] = 0
      BY <1>0, <2>1, <2>3 DEF Live
    <2> QED BY <2>1, <2>5, <2>6 DEF ConnectedInv, PassedAreFree
  <1>5. ASSUME NEW n \in Notifs, Unref(n) PROVE ConnectedInv'
    <2>1. AppRuns /\ ref[n] = "held" /\ UNCHANGED uninitVars
      BY <1>5 DEF Unref
    <2>2. CASE frame = n
      <3>1. /\ ref' = [ref EXCEPT ![n] = "kept"]
            /\ UNCHANGED <<active, proxy_signal_handler, _proxy>>
        BY <1>5, <2>2 DEF Unref, proxyVars
      <3>2. ref'[n] = "kept" /\ \A m \in Notifs : m # n => ref'[m] = ref[m]
        BY <1>0, <3>1 DEF TypeOK
      <3>3. \A m \in Notifs : Live(m)' <=> Live(m)
        BY <2>1, <3>2 DEF Live
      <3> QED BY <1>0, <2>1, <3>1, <3>2, <3>3
              DEF ConnectedInv, Connected, PassedAreFree, Passed, uninitVars
    <2>3. CASE frame # n
      <3>1. Finalizes(n) /\ Live(n)
        BY <1>5, <2>1, <2>3 DEF Unref, Live
      <3> QED BY <2>1, <3>1, ConnectedFinalizes
    <2> QED BY <2>2, <2>3
  <1>6. CASE UninitBegins
    <2>1. /\ walk' = First(active)
          /\ UNCHANGED <<_proxy, active, ref, proxy_signal_handler>>
      BY <1>6 DEF UninitBegins, proxyVars, notifyVars
    <2>2. Distinct(active) /\ active \in Seq(Notifs)
      BY <1>0, ListDistinct DEF TypeOK
    <2>3. ASSUME NEW j \in 1 .. Len(active), Passed(j)' PROVE FALSE
      <3>1. active # << >> /\ active[1] \in Notifs /\ Head(active) = active[1]
            /\ 1 \in 1 .. Len(active)
        BY <2>2, <2>3
      <3>2. walk' = active[1] /\ walk' # None
        BY <2>1, <3>1, ConstantsAssumption DEF First
      <3>3. PICK k \in 1 .. Len(active) : j < k /\ active[k] = active[1]
        BY <2>1, <2>3, <3>2 DEF Passed
      <3>4. k = 1
        BY <2>2, <3>1, <3>3 DEF Distinct
      <3> QED BY <3>3, <3>4
    <2>4. PassedAreFree'
      BY <2>1, <2>3 DEF PassedAreFree
    <2> QED BY <1>0, <2>1, <2>4 DEF ConnectedInv, Connected, Live
  <1>7. CASE UninitVisits
    <2>1. /\ walk \in Active /\ walk # None /\ Disposes(walk)
          /\ uninit /\ UNCHANGED uninit
      BY <1>0, <1>7 DEF UninitVisits, UninitInv
    <2> QED BY <2>1, ConnectedDisposes
  <1>8. CASE UninitClosed
    <2>1. /\ frame # None /\ walk = frame /\ Live(walk) /\ walk \in Notifs
          /\ uninit /\ UNCHANGED uninit /\ walk \in Active
      <3>1. /\ frame # None /\ walk = frame /\ Live(walk) /\ walk \in Notifs
            /\ uninit /\ UNCHANGED uninit
        BY <1>0, <1>8 DEF UninitClosed, UninitInv, TypeOK
      <3> QED BY <1>0, <3>1, ListDistinct
    <2>2. CASE ref[frame] = "kept"
      <3>1. Finalizes(walk) /\ UNCHANGED uninitVars
        BY <1>8, <2>1, <2>2 DEF UninitClosed, uninitVars
      <3> QED BY <2>1, <3>1, ConnectedFinalizes
    <2>3. CASE ref[frame] # "kept"
      <3>1. Disposes(walk)
        BY <1>8, <2>1, <2>3 DEF UninitClosed
      <3> QED BY <2>1, <3>1, ConnectedDisposes
    <2> QED BY <2>2, <2>3
  <1>9. CASE UninitEnds
    <2>1. /\ uninit /\ walk = None /\ ~ uninit' /\ UNCHANGED notifyVars
      BY <1>9 DEF UninitEnds
    <2>2. \A n \in Notifs : Live(n) => proxy_signal_handler[n] = 0
      <3> SUFFICES ASSUME NEW n \in Notifs, Live(n)
                   PROVE  proxy_signal_handler[n] = 0
        OBVIOUS
      <3>1. PICK j \in 1 .. Len(active) : active[j] = n
        BY <1>0, ListDistinct DEF Active
      <3> QED BY <1>0, <2>1, <3>1 DEF PassedAreFree, Passed
    <2> QED BY <1>0, <2>1, <2>2
            DEF ConnectedInv, Connected, PassedAreFree, Live, notifyVars
  <1>10. CASE Crash \/ (\E v \in Versions : Start(v)) \/ on_name_owner_changed
    BY <1>10, ConnectedQuiet DEF Crash, Start, on_name_owner_changed, proxyVars
  <1>11. CASE UNCHANGED vars
    BY <1>11, ConnectedQuiet DEF vars, proxyVars
  <1> QED BY <1>1, <1>2, <1>3, <1>4, <1>5, <1>6, <1>7, <1>8, <1>9, <1>10,
             <1>11 DEF Next

(* A notification that takes itself to be connected is connected to the    *)
(* proxy in use, across any number of initializations.                     *)
THEOREM HandlersStayConnected == Spec => []HandlersAreConnected
  <1>1. Init => HandlersInv
    BY DEF Init, HandlersInv, ConnectedInv, Connected, PassedAreFree, Live
  <1>2. HandlersInv => HandlersAreConnected
    BY DEF HandlersInv, ConnectedInv, Connected, HandlersAreConnected
  <1> QED BY <1>1, <1>2, HandlersNext, LibraryInvariant, PTL DEF Spec
-----------------------------------------------------------------------------
(***************************************************************************)
(* How far notify_uninit () has still to go.                               *)
(***************************************************************************)
LEMMA PlaceInList ==
    ASSUME NEW s \in Seq(Notifs), Distinct(s), NEW k \in 1 .. Len(s)
    PROVE  (CHOOSE j \in 1 .. Len(s) : s[j] = s[k]) = k
  BY DEF Distinct

LEMMA LeftIs ==
    ASSUME LibraryInv, walk # None, "drops" \notin Environment
    PROVE  /\ walk \in Active /\ walk \in Notifs /\ Len(active) \in Nat
           /\ Place(walk) \in 1 .. Len(active) /\ active[Place(walk)] = walk
           /\ LeftToWalk = Len(active) + 1 - Place(walk)
           /\ active \in Seq(Notifs) /\ Distinct(active)
  <1>1. /\ walk \in Active /\ walk \in Notifs /\ active \in Seq(Notifs)
        /\ Distinct(active)
    BY ListDistinct
       DEF LibraryInv, UninitInv, UninitStaysOnTheList, TypeOK
  <1>2. /\ Place(walk) \in 1 .. Len(active) /\ active[Place(walk)] = walk
        /\ Len(active) \in Nat
    BY <1>1, PlaceOf
  <1> QED BY <1>1, <1>2 DEF LeftToWalk

(* Where the walk is in the list that a step leaves.                       *)
LEMMA LeftMoves ==
    ASSUME active' \in Seq(Notifs), Distinct(active'), walk' # None,
           NEW k \in 1 .. Len(active'), active'[k] = walk'
    PROVE  LeftToWalk' = Len(active') + 1 - k
  <1>1. (CHOOSE j \in 1 .. Len(active') : active'[j] = active'[k]) = k
    BY PlaceInList
  <1>2. Place(walk)' = k
    BY <1>1 DEF Place
  <1> QED BY <1>2 DEF LeftToWalk

LEMMA LeftPrepend ==
    ASSUME LibraryInv, "drops" \notin Environment, walk # None,
           NEW n \in Notifs, n \notin Active, active' = <<n>> \o active,
           walk' = walk
    PROVE  LeftToWalk' = LeftToWalk
  <1>1. PICK q \in 1 .. Len(active) : q = Place(walk)
    BY LeftIs
  <1>2. /\ active[q] = walk /\ LeftToWalk = Len(active) + 1 - q
        /\ Len(active) \in Nat /\ active \in Seq(Notifs) /\ Distinct(active)
    BY <1>1, LeftIs
  <1>3. /\ active' \in Seq(Notifs) /\ Distinct(active')
        /\ Len(active') = Len(active) + 1
        /\ \A k \in 1 .. Len(active') : k # 1 => active'[k] = active[k - 1]
    BY <1>2, ListPrepend
  <1>4. q + 1 \in 1 .. Len(active') /\ q + 1 # 1 /\ (q + 1) - 1 = q
    BY <1>2, <1>3
  <1>5. active'[q + 1] = walk'
    BY <1>2, <1>3, <1>4
  <1>6. LeftToWalk' = Len(active') + 1 - (q + 1)
    BY <1>3, <1>4, <1>5, LeftMoves
  <1> QED BY <1>2, <1>3, <1>6

LEMMA LeftWithout ==
    ASSUME LibraryInv, "drops" \notin Environment, walk # None,
           NEW n \in Active, n # walk, active' = Without(n), walk' = walk
    PROVE  LeftToWalk' <= LeftToWalk
  <1>1. PICK q \in 1 .. Len(active) : q = Place(walk)
    BY LeftIs
  <1>2. /\ active[q] = walk /\ LeftToWalk = Len(active) + 1 - q
        /\ Len(active) \in Nat /\ active \in Seq(Notifs) /\ Distinct(active)
    BY <1>1, LeftIs
  <1>3. PICK p \in 1 .. Len(active) : p = Place(n) /\ active[p] = n
    BY <1>2, PlaceOf
  <1>4. /\ active' \in Seq(Notifs) /\ Distinct(active')
    BY <1>2, WithoutIsTheRest
  <1>5. /\ Len(active') = Len(active) - 1
        /\ \A k \in 1 .. Len(active) - 1 :
              active'[k] = IF k < p THEN active[k] ELSE active[k + 1]
    BY <1>2, <1>3, WithoutPlace
  <1>6. p # q
    BY <1>2, <1>3
  <1>7. CASE q < p
    <2>1. q \in 1 .. Len(active) - 1
      BY <1>2, <1>7
    <2>2. active'[q] = walk'
      BY <1>2, <1>5, <1>7, <2>1
    <2>3. LeftToWalk' = Len(active') + 1 - q
      BY <1>4, <1>5, <2>1, <2>2, LeftMoves
    <2> QED BY <1>2, <1>5, <2>3
  <1>8. CASE p < q
    <2>1. q - 1 \in 1 .. Len(active) - 1 /\ ~ (q - 1 < p) /\ (q - 1) + 1 = q
      BY <1>2, <1>8
    <2>2. active'[q - 1] = walk'
      BY <1>2, <1>5, <2>1
    <2>3. LeftToWalk' = Len(active') + 1 - (q - 1)
      BY <1>4, <1>5, <2>1, <2>2, LeftMoves
    <2> QED BY <1>2, <1>5, <2>3
  <1> QED BY <1>6, <1>7, <1>8

LEMMA LeftDisposes ==
    ASSUME LibraryInv, "drops" \notin Environment, walk # None,
           Disposes(walk)
    PROVE  LeftToWalk' \in Int /\ LeftToWalk' < LeftToWalk
  <1>1. PICK q \in 1 .. Len(active) : q = Place(walk)
    BY LeftIs
  <1>2. /\ active[q] = walk /\ LeftToWalk = Len(active) + 1 - q
        /\ Len(active) \in Nat /\ active \in Seq(Notifs) /\ Distinct(active)
    BY <1>1, LeftIs
  <1>3. active' = active /\ walk' = After(walk)
    BY DEF Disposes
  <1>4. CASE q = Len(active)
    <2>1. walk' = None
      BY <1>1, <1>3, <1>4 DEF After
    <2>2. LeftToWalk' = 0
      BY <2>1 DEF LeftToWalk
    <2> QED BY <1>2, <2>2
  <1>5. CASE q # Len(active)
    <2>1. q + 1 \in 1 .. Len(active)
      BY <1>2, <1>5
    <2>2. walk' = active'[q + 1]
      BY <1>1, <1>3, <1>5 DEF After
    <2>3. active[q + 1] \in Notifs
      BY <1>2, <2>1
    <2>4. walk' # None
      BY <1>3, <2>2, <2>3, ConstantsAssumption
    <2>5. LeftToWalk' = Len(active') + 1 - (q + 1)
      BY <1>2, <1>3, <2>1, <2>2, <2>4, LeftMoves
    <2> QED BY <1>2, <1>3, <2>5
  <1> QED BY <1>4, <1>5

LEMMA LeftStays ==
    ASSUME UNCHANGED <<active, walk>> PROVE LeftToWalk' = LeftToWalk
  BY DEF LeftToWalk, Place

LEMMA LeftTypes ==
    ASSUME LibraryInv, "drops" \notin Environment PROVE LeftToWalk \in Nat
  <1>1. CASE walk = None
    BY <1>1 DEF LeftToWalk
  <1>2. CASE walk # None
    <2>1. PICK q \in 1 .. Len(active) : q = Place(walk)
      BY <1>2, LeftIs
    <2>2. Len(active) \in Nat /\ LeftToWalk = Len(active) + 1 - q
      BY <1>2, <2>1, LeftIs
    <2> QED BY <2>1, <2>2
  <1> QED BY <1>1, <1>2

LEMMA LeftNext ==
    ASSUME LibraryInv, [Next]_vars, uninit, "drops" \notin Environment
    PROVE  /\ LeftToWalk' <= LeftToWalk
           /\ UninitVisits \/ UninitClosed => LeftToWalk' < LeftToWalk
  <1>0. TypeOK /\ ListIsOfLiveObjects /\ UninitInv /\ LeftToWalk \in Nat
    BY LeftTypes DEF LibraryInv
  <1>1. CASE UninitVisits
    <2>1. walk # None /\ Disposes(walk)
      BY <1>1 DEF UninitVisits
    <2>2. LeftToWalk' \in Int /\ LeftToWalk' < LeftToWalk
      BY <2>1, LeftDisposes
    <2>3. LeftToWalk' <= LeftToWalk
      BY <1>0, <2>2
    <2> QED BY <2>2, <2>3
  <1>2. CASE UninitClosed
    <2>1. frame # None /\ walk = frame /\ Live(walk) /\ walk \in Notifs
      BY <1>0, <1>2 DEF UninitClosed, UninitInv, TypeOK
    <2>2. ref[frame] # "kept"
      BY <1>0, <2>1 DEF UninitInv
    <2>3. Disposes(walk)
      BY <1>2, <2>1, <2>2 DEF UninitClosed
    <2>4. walk # None
      BY <2>1
    <2>5. LeftToWalk' \in Int /\ LeftToWalk' < LeftToWalk
      BY <2>3, <2>4, LeftDisposes
    <2>6. LeftToWalk' <= LeftToWalk
      BY <1>0, <2>5
    <2> QED BY <2>5, <2>6
  <1>3. ASSUME UNCHANGED <<active, walk>>, ~ UninitVisits, ~ UninitClosed
        PROVE  /\ LeftToWalk' <= LeftToWalk
               /\ ~ (UninitVisits \/ UninitClosed)
    BY <1>0, <1>3, LeftStays
  <1>4. ASSUME NEW n \in Notifs, New(n)
        PROVE  LeftToWalk' = LeftToWalk
    <2>1. /\ ref[n] = "none" /\ active' = <<n>> \o active /\ walk' = walk
          /\ frame # None
      BY <1>4 DEF New, AppRuns, uninitVars
    <2>2. walk # None /\ n \notin Active
      BY <1>0, <2>1, ListDistinct DEF UninitInv, Live
    <2> QED BY <2>1, <2>2, LeftPrepend
  <1>5. ASSUME NEW n \in Notifs, Unref(n)
        PROVE  LeftToWalk' <= LeftToWalk
    <2>1. frame # None /\ frame # n /\ ref[n] = "held" /\ walk' = walk
      BY <1>5 DEF Unref, AppRuns, uninitVars
    <2>2. active' = Without(n)
      BY <1>5, <2>1 DEF Unref, Finalizes
    <2>3. walk # None /\ n # walk /\ n \in Active
      BY <1>0, <2>1, ListDistinct DEF UninitInv, Live
    <2> QED BY <2>1, <2>2, <2>3, LeftWithout
  <1>6. ASSUME Next, ~ UninitVisits, ~ UninitClosed,
               \A n \in Notifs : ~ New(n) /\ ~ Unref(n)
        PROVE  UNCHANGED <<active, walk>>
    BY <1>6
       DEF Next, notify_init, GetServerInfo, Show, UninitBegins, AppRuns,
           UninitCloses, UninitEnds, Crash, Start, on_name_owner_changed,
           notifyVars, uninitVars
  <1>7. CASE UNCHANGED vars
    <2>1. UNCHANGED <<active, walk>>
      BY <1>7 DEF vars, notifyVars, uninitVars
    <2> QED BY <1>0, <1>1, <1>2, <2>1, LeftStays
  <1>8. CASE Next /\ ~ UninitVisits /\ ~ UninitClosed
    <2>1. CASE \E n \in Notifs : New(n)
      BY <1>0, <1>4, <1>8, <2>1
    <2>2. CASE \E n \in Notifs : Unref(n)
      BY <1>5, <1>8, <2>2
    <2>3. CASE \A n \in Notifs : ~ New(n) /\ ~ Unref(n)
      BY <1>3, <1>6, <1>8, <2>3
    <2> QED BY <2>1, <2>2, <2>3
  <1> QED BY <1>1, <1>2, <1>7, <1>8

(* The loop of notify_uninit () comes to its end: what is left of the list *)
(* shrinks with each object it disposes of, and never grows, whatever its  *)
(* handlers create, show and release but the notification they are for.    *)
THEOREM TheWalkEnds == Spec => WalkComesToItsEnd
  <1> DEFINE Shrinks ==
          uninit /\ "drops" \notin Environment =>
             /\ LeftToWalk' <= LeftToWalk
             /\ UninitVisits \/ UninitClosed => LeftToWalk' < LeftToWalk
  <1>1. LibraryInv /\ [Next]_vars => [Shrinks]_vars
    BY LeftNext
  <1>2. [][Shrinks]_vars <=> WalkComesToItsEnd
    BY PTL DEF WalkComesToItsEnd
  <1> HIDE DEF Shrinks
  <1> QED BY <1>1, <1>2, LibraryInvariant, PTL DEF Spec

(* When the walk is over no object is connected, those that handlers made  *)
(* in the meantime included.                                               *)
THEOREM NobodyStaysConnected == Spec => []UninitDisconnectsAll
  <1>1. Init => HandlersInv
    BY DEF Init, HandlersInv, ConnectedInv, Connected, PassedAreFree, Live
  <1>2. LibraryInv /\ HandlersInv => UninitDisconnectsAll
    <2> SUFFICES ASSUME LibraryInv, ConnectedInv, uninit, walk = None,
                        NEW n \in Notifs, Live(n)
                 PROVE  proxy_signal_handler[n] = 0
      BY DEF HandlersInv, UninitDisconnectsAll
    <2>1. PICK j \in 1 .. Len(active) : active[j] = n
      BY ListDistinct DEF LibraryInv, Active
    <2> QED BY <2>1 DEF ConnectedInv, PassedAreFree, Passed
  <1> QED BY <1>1, <1>2, HandlersNext, LibraryInvariant, PTL DEF Spec
=============================================================================

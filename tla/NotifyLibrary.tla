--------------------------- MODULE NotifyLibrary ---------------------------
(***************************************************************************)
(* The process-wide state of libnotify/notify.c: initialization, the       *)
(* cached D-Bus proxy, the server's specification version, the decision    *)
(* between the notification daemon and the desktop portal, and the list of *)
(* notifications that notify_uninit () walks.  Notifications appear with   *)
(* what this state depends on: their lifetime and their signal handler.    *)
(*                                                                         *)
(* The program runs in surroundings that do not change, picked by Init:    *)
(* Confined says whether a sandbox's metadata name an application,         *)
(* UsePortal is the setting of the NOTIFY_IGNORE_PORTAL and                *)
(* NOTIFY_FORCE_PORTAL variables, and Environment lists what may happen    *)
(* beyond the ordinary:                                                    *)
(*   "restart"      the daemon goes away and another one takes its place   *)
(*   "reinit"       the application initializes libnotify again            *)
(*   "drops"        a "closed" handler run by notify_uninit () drops the   *)
(*                  last reference to its notification                     *)
(*   "uninit_show"  such a handler shows notifications                     *)
(*   "late"         notifications are released after notify_uninit ()      *)
(*   "unanswered"   GetServerInformation fails, times out or is answered   *)
(*                  with another type although its daemon runs, or the     *)
(*                  session bus cannot be reached                          *)
(***************************************************************************)
EXTENDS Integers, Sequences

CONSTANTS
    Notifs,
    Sticky,       \* those with timeout 0 or an action besides "default"
    Versions,     \* major specification versions of the daemons; -1: a
                  \* string that sscanf finds no number in
    Environments, \* see above
    MaxProxy,     \* bound: proxies created in the program's life
    MaxEpoch,     \* bound: daemons started
    MaxQueue,     \* bound: changes of owner the main loop has not seen
    None

ASSUME ConstantsAssumption ==
    /\ MaxProxy \in Nat /\ MaxEpoch \in Nat \ {0} /\ MaxQueue \in Nat
    /\ Sticky \subseteq Notifs /\ None \notin Notifs
    /\ Versions \subseteq Nat \cup {-1}
    /\ Environments \subseteq
          SUBSET {"restart", "reinit", "drops", "uninit_show", "late",
                  "unanswered"}

VARIABLES
    _initted,
    _proxy,              \* which proxy is cached, 0: NULL
    made,                \* how many have been created
    kind,                \* what each talks to: "daemon" | "portal"
    _spec_version_major, _portal_version,
    flatpak_app_set,     \* the once-guard
    _flatpak_app,        \* whether the name it guards is there
    active,              \* _active_notifications, first element first
    ref,                 \* of a notification: none | held | kept | gone
    proxy_signal_handler,\* the proxy its handler was connected to, 0: none
    uninit,              \* notify_uninit () runs
    walk,                \* the list element it is at, None: past the last
    frame,               \* the notification whose "closed" handler runs
    aborted,             \* g_assert failed
    daemon, epochs, version, queue,
    Environment, Confined, UsePortal

staticVars == <<_initted, _spec_version_major, _portal_version,
                flatpak_app_set, _flatpak_app>>
proxyVars  == <<_proxy, made, kind>>
notifyVars == <<active, ref, proxy_signal_handler>>
settings   == <<Environment, Confined, UsePortal>>
busVars    == <<daemon, epochs, version, settings>>
uninitVars == <<uninit, walk>>
vars == <<staticVars, proxyVars, notifyVars, uninitVars, frame, aborted,
          busVars, queue>>

Proxies == 1 .. MaxProxy
Live(n) == ref[n] \in {"held", "kept"}
Active == {active[k] : k \in 1 .. Len(active)}
_notify_uses_portal_notifications == _portal_version # 0

(* The list: where an element is, and what is left without it.             *)
Place(n) == CHOOSE k \in 1 .. Len(active) : active[k] = n
Without(n) == SubSeq(active, 1, Place(n) - 1)
              \o SubSeq(active, Place(n) + 1, Len(active))

Init ==
    /\ _initted = FALSE
    /\ _proxy = 0 /\ made = 0 /\ kind = [p \in Proxies |-> "none"]
    /\ _spec_version_major = 0 /\ _portal_version = 0
    /\ flatpak_app_set = FALSE /\ _flatpak_app = FALSE
    /\ active = << >>
    /\ ref = [n \in Notifs |-> "none"]
    /\ proxy_signal_handler = [n \in Notifs |-> 0]
    /\ uninit = FALSE /\ walk = None /\ frame = None /\ aborted = FALSE
    /\ daemon = 1 /\ epochs = 1 /\ version \in Versions
    /\ queue = << >>
    /\ Environment \in Environments /\ Confined \in BOOLEAN
    /\ UsePortal \in {"ignore", "try", "force"}

(* Code of the application runs, outside of the library or in a handler.   *)
AppRuns == ~ aborted /\ (~ uninit \/ frame # None)

(***************************************************************************)
(* The sandbox.  The name is read once in the life of the program.         *)
(***************************************************************************)
_notify_get_flatpak_app ==
    IF flatpak_app_set THEN _flatpak_app ELSE Confined
ReadsFlatpakApp ==
    /\ flatpak_app_set' = TRUE
    /\ _flatpak_app' = _notify_get_flatpak_app
_notify_is_running_in_sandbox ==
    UsePortal = "force" \/ (UsePortal = "try" /\ _notify_get_flatpak_app)

(* Mutant: the version of a server that does not answer is negative. *)
_notify_update_spec_version_negative(portal, owner, answered) ==
    /\ answered => portal \/ (owner # 0 /\ owner = daemon)
    /\ ~ answered => /\ ~ portal
                     /\ \/ owner = 0 \/ owner # daemon
                        \/ "unanswered" \in Environment
    /\ _spec_version_major' =
          IF ~ answered THEN -1 ELSE IF portal THEN 1
          ELSE IF version = -1 THEN _spec_version_major ELSE version

(***************************************************************************)
(* _notify_update_spec_version (): the portal answers for itself; else the *)
(* owner of the name is asked.  One that is gone does not answer and one   *)
(* that lives may fail to; the version is then 0.  In an answer without a  *)
(* number sscanf finds nothing, and the version stays.                     *)
(***************************************************************************)
_notify_update_spec_version(portal, owner, answered) ==
    /\ answered => portal \/ (owner # 0 /\ owner = daemon)
    /\ ~ answered => /\ ~ portal
                     /\ \/ owner = 0 \/ owner # daemon
                        \/ "unanswered" \in Environment
    /\ _spec_version_major' =
          IF ~ answered THEN 0 ELSE IF portal THEN 1
          ELSE IF version = -1 THEN _spec_version_major ELSE version

(* Mutants: in a sandbox the portal is taken to be there; the version is   *)
(* not asked for.                                                          *)
CreatesProxyHoping(portal) ==
    /\ _proxy = 0 /\ made < MaxProxy
    /\ portal => _notify_is_running_in_sandbox
    /\ IF UsePortal = "try" THEN ReadsFlatpakApp
       ELSE UNCHANGED <<flatpak_app_set, _flatpak_app>>
    /\ _portal_version' = IF _notify_is_running_in_sandbox THEN 1
                          ELSE _portal_version
    /\ _notify_update_spec_version(_portal_version' # 0, daemon, TRUE)
    /\ made' = made + 1
    /\ _proxy' = made + 1
    /\ kind' = [kind EXCEPT ![made + 1] =
                    IF portal THEN "portal" ELSE "daemon"]
CreatesProxyUnasked(portal) ==
    /\ _proxy = 0 /\ made < MaxProxy
    /\ portal => _notify_is_running_in_sandbox
    /\ IF UsePortal = "try" THEN ReadsFlatpakApp
       ELSE UNCHANGED <<flatpak_app_set, _flatpak_app>>
    /\ portal \/ _portal_version # 0 \/ daemon # 0
    /\ _portal_version' = IF portal THEN 1 ELSE _portal_version
    /\ made' = made + 1
    /\ _proxy' = made + 1
    /\ kind' = [kind EXCEPT ![made + 1] =
                    IF portal THEN "portal" ELSE "daemon"]
    /\ UNCHANGED _spec_version_major

(* _notify_get_proxy () when nothing is cached: portal says which service  *)
(* the proxy is made for.  The portal may be missing, also when wanted.    *)
(* The proxy is kept if its server answers; in the portal's mode, which is *)
(* never left, nobody is asked.                                            *)
CreatesProxy(portal) ==
    /\ _proxy = 0 /\ made < MaxProxy
    /\ portal => _notify_is_running_in_sandbox
    /\ IF UsePortal = "try" THEN ReadsFlatpakApp
       ELSE UNCHANGED <<flatpak_app_set, _flatpak_app>>
    /\ _portal_version' = IF portal THEN 1 ELSE _portal_version
    /\ _notify_update_spec_version(_portal_version' # 0, daemon, TRUE)
    /\ made' = made + 1
    /\ _proxy' = made + 1
    /\ kind' = [kind EXCEPT ![made + 1] =
                    IF portal THEN "portal" ELSE "daemon"]

GetsProxy ==
    \/ /\ _proxy # 0
       /\ UNCHANGED <<proxyVars, _spec_version_major, _portal_version,
                      flatpak_app_set, _flatpak_app>>
    \/ \E portal \in BOOLEAN : CreatesProxy(portal)

(* The proxy's server did not answer, so it is dropped again, or no proxy  *)
(* could be made at all.                                                   *)
GetsNoProxy ==
    /\ _proxy = 0
    /\ \/ _notify_update_spec_version(_portal_version # 0, daemon, FALSE)
       \/ "unanswered" \in Environment /\ UNCHANGED _spec_version_major
    /\ IF UsePortal = "try" THEN ReadsFlatpakApp
       ELSE UNCHANGED <<flatpak_app_set, _flatpak_app>>
    /\ UNCHANGED <<proxyVars, _portal_version>>

(***************************************************************************)
(* The application's calls.                                                *)
(***************************************************************************)
(* notify_init (): the application's name is its argument, or else the     *)
(* sandbox's, or else that of the GApplication if there is one.            *)
notify_init(name) ==
    /\ AppRuns /\ ~ _initted
    /\ made # 0 \/ flatpak_app_set => "reinit" \in Environment
    /\ IF name = "argument" THEN UNCHANGED <<flatpak_app_set, _flatpak_app>>
       ELSE ReadsFlatpakApp
    /\ _initted' = (name # "none" \/ _notify_get_flatpak_app)
    /\ UNCHANGED <<_spec_version_major, _portal_version, proxyVars, notifyVars,
                   uninitVars, frame, aborted, busVars, queue>>

(* notify_get_server_info (), notify_get_server_caps () and the close of a *)
(* notification ask for the proxy and change nothing else here.            *)
GetServerInfo ==
    /\ AppRuns /\ _initted
    /\ GetsProxy \/ GetsNoProxy
    /\ UNCHANGED <<_initted, notifyVars, uninitVars, frame, aborted, busVars,
                   queue>>

New(n) ==
    /\ AppRuns /\ _initted /\ ref[n] = "none"
    /\ ref' = [ref EXCEPT ![n] = "held"]
    /\ active' = <<n>> \o active
    /\ UNCHANGED <<staticVars, proxyVars, proxy_signal_handler, uninitVars,
                   frame, aborted, busVars, queue>>

(* notify_notification_show () up to its call.  Without an application     *)
(* icon it asks _notify_check_spec_version (), which asserts; the cached   *)
(* version is asked for after the proxy was got.                           *)
Show(n, app_icon) ==
    /\ AppRuns /\ _initted /\ Live(n)
    /\ uninit => "uninit_show" \in Environment
    /\ \/ /\ GetsProxy
          /\ proxy_signal_handler' =
                [proxy_signal_handler EXCEPT ![n] = IF @ = 0 THEN _proxy' ELSE @]
          /\ aborted' = (/\ _portal_version' = 0 /\ ~ app_icon
                         /\ _spec_version_major' = 0)
       \/ GetsNoProxy /\ UNCHANGED <<proxy_signal_handler, aborted>>
    /\ UNCHANGED <<_initted, active, ref, uninitVars, frame, busVars, queue>>

(* Mutant: the handler's id outlives the handler. *)
DisposedHalf(n, proxy) == UNCHANGED proxy_signal_handler

(* Disposal asks for the proxy, and makes one if there is none, to         *)
(* disconnect the handler from it.                                         *)
Disposed(n, proxy) ==
    proxy_signal_handler' =
        [proxy_signal_handler EXCEPT ![n] = IF proxy = 0 THEN @ ELSE 0]

(* Mutant: the list keeps what is finalized. *)
FinalizesListed(n) ==
    /\ GetsProxy \/ GetsNoProxy
    /\ Disposed(n, _proxy')
    /\ ref' = [ref EXCEPT ![n] = "gone"]
    /\ UNCHANGED active

Finalizes(n) ==
    /\ GetsProxy \/ GetsNoProxy
    /\ Disposed(n, _proxy')
    /\ ref' = [ref EXCEPT ![n] = "gone"]
    /\ active' = Without(n)

(* The application gives its reference up. *)
Unref(n) ==
    /\ AppRuns /\ ref[n] = "held"
    /\ _initted \/ "late" \in Environment
    /\ IF frame = n
       THEN /\ "drops" \in Environment
            /\ ref' = [ref EXCEPT ![n] = "kept"]
            /\ UNCHANGED <<active, proxy_signal_handler, proxyVars,
                           _spec_version_major, _portal_version,
                           flatpak_app_set, _flatpak_app>>
       ELSE Finalizes(n)
    /\ UNCHANGED <<_initted, uninitVars, frame, aborted, busVars, queue>>

(***************************************************************************)
(* notify_uninit ().                                                       *)
(***************************************************************************)
First(s) == IF s = << >> THEN None ELSE Head(s)
After(n) ==
    IF Place(n) = Len(active) THEN None ELSE active[Place(n) + 1]

UninitBegins ==
    /\ AppRuns /\ ~ uninit /\ _initted
    /\ uninit' = TRUE
    /\ walk' = First(active)
    /\ UNCHANGED <<staticVars, proxyVars, notifyVars, frame, aborted, busVars,
                   queue>>

(* Mutant: what is being closed is taken off the list at once. *)
UninitClosesUnlisted ==
    /\ ~ aborted /\ walk \in Sticky /\ frame = None
    /\ Live(walk)
    /\ GetsProxy /\ _portal_version' # 0
    /\ frame' = walk
    /\ active' = Without(walk)
    /\ UNCHANGED <<_initted, ref, proxy_signal_handler, uninitVars, aborted,
                   busVars, queue>>

(* A sticky notification is closed first.  Only the portal's branch of     *)
(* notify_notification_close () emits "closed" right away, and not if the  *)
(* notification was closed before or the call fails.                       *)
UninitCloses ==
    /\ ~ aborted /\ walk \in Sticky /\ frame = None
    /\ Live(walk)
    /\ GetsProxy /\ _portal_version' # 0
    /\ frame' = walk
    /\ UNCHANGED <<_initted, notifyVars, uninitVars, aborted, busVars, queue>>

(* g_object_run_dispose () of the element the loop is at, which like any   *)
(* disposal asks for a proxy, and on to the next one, which is read from   *)
(* that element.                                                           *)
Disposes(n) ==
    /\ GetsProxy \/ GetsNoProxy
    /\ Disposed(n, _proxy')
    /\ walk' = After(n)
    /\ UNCHANGED <<active, ref>>

UninitVisits ==
    /\ ~ aborted /\ walk # None /\ frame = None
    /\ walk \in Active
    /\ Disposes(walk)
    /\ UNCHANGED <<_initted, uninit, frame, aborted, busVars, queue>>

(* The "closed" handler returns, and close_notification () gives up the    *)
(* reference it took.                                                      *)
UninitClosed ==
    /\ ~ aborted /\ frame # None
    /\ frame' = None
    /\ IF ref[frame] = "kept" THEN Finalizes(frame) /\ UNCHANGED walk
                              ELSE Disposes(frame)
    /\ UNCHANGED <<_initted, uninit, aborted, busVars, queue>>

(* Mutant: the proxy is not given up. *)
UninitEndsWithProxy ==
    /\ ~ aborted /\ uninit /\ walk = None /\ frame = None
    /\ uninit' = FALSE
    /\ _initted' = FALSE
    /\ _flatpak_app' = FALSE
    /\ UNCHANGED <<_proxy, queue, _spec_version_major, _portal_version,
                   flatpak_app_set, made, kind, notifyVars, walk, frame,
                   aborted, busVars>>

(* The end: everything static is freed but the version variables and the   *)
(* once-guard.                                                             *)
UninitEnds ==
    /\ ~ aborted /\ uninit /\ walk = None /\ frame = None
    /\ uninit' = FALSE
    /\ _initted' = FALSE
    /\ _proxy' = 0
    /\ _flatpak_app' = FALSE
    /\ queue' = << >>
    /\ UNCHANGED <<_spec_version_major, _portal_version, flatpak_app_set,
                   made, kind, notifyVars, walk, frame, aborted, busVars>>

(***************************************************************************)
(* The bus.  The proxy of the daemon, and only that one, hears of changes  *)
(* of the name's owner.                                                    *)
(***************************************************************************)
Hears(owner) ==
    IF _proxy # 0 /\ kind[_proxy] = "daemon"
    THEN Len(queue) < MaxQueue /\ queue' = Append(queue, owner)
    ELSE UNCHANGED queue

Crash ==
    /\ "restart" \in Environment
    /\ daemon # 0
    /\ daemon' = 0
    /\ Hears(0)
    /\ UNCHANGED <<staticVars, proxyVars, notifyVars, uninitVars, frame,
                   aborted, epochs, version, settings>>

Start(v) ==
    /\ daemon = 0 /\ epochs < MaxEpoch
    /\ epochs' = epochs + 1
    /\ daemon' = epochs + 1
    /\ version' = v
    /\ Hears(epochs + 1)
    /\ UNCHANGED <<staticVars, proxyVars, notifyVars, uninitVars, frame,
                   aborted, settings>>

(* Mutant: a new owner is not asked for its version. *)
on_name_owner_changed_to_nobody ==
    /\ AppRuns /\ ~ uninit
    /\ queue # << >>
    /\ queue' = Tail(queue)
    /\ _spec_version_major' =
          IF Head(queue) = 0 THEN 0 ELSE _spec_version_major
    /\ UNCHANGED <<_initted, _portal_version, flatpak_app_set, _flatpak_app,
                   proxyVars, notifyVars, uninitVars, frame, aborted,
                   busVars>>

on_name_owner_changed ==
    /\ AppRuns /\ ~ uninit
    /\ queue # << >>
    /\ queue' = Tail(queue)
    /\ IF Head(queue) = 0 THEN _spec_version_major' = 0
       ELSE \E answered \in BOOLEAN :
                _notify_update_spec_version(_notify_uses_portal_notifications,
                                            Head(queue), answered)
    /\ UNCHANGED <<_initted, _portal_version, flatpak_app_set, _flatpak_app,
                   proxyVars, notifyVars, uninitVars, frame, aborted,
                   busVars>>

-----------------------------------------------------------------------------
Next ==
    \/ \E name \in {"argument", "application", "none"} : notify_init(name)
    \/ GetServerInfo
    \/ \E n \in Notifs :
          New(n) \/ Unref(n) \/ \E app_icon \in BOOLEAN : Show(n, app_icon)
    \/ UninitBegins \/ UninitCloses \/ UninitVisits \/ UninitClosed
    \/ UninitEnds
    \/ Crash \/ (\E v \in Versions : Start(v)) \/ on_name_owner_changed

Spec == Init /\ [][Next]_vars

-----------------------------------------------------------------------------
TypeOK ==
    /\ _initted \in BOOLEAN /\ aborted \in BOOLEAN
    /\ _proxy \in 0 .. made /\ made \in 0 .. MaxProxy
    /\ kind \in [Proxies -> {"none", "daemon", "portal"}]
    /\ _spec_version_major \in Nat /\ _portal_version \in {0, 1}
    /\ flatpak_app_set \in BOOLEAN /\ _flatpak_app \in BOOLEAN
    /\ active \in Seq(Notifs)
    /\ ref \in [Notifs -> {"none", "held", "kept", "gone"}]
    /\ proxy_signal_handler \in [Notifs -> 0 .. MaxProxy]
    /\ uninit \in BOOLEAN
    /\ walk \in Notifs \cup {None} /\ frame \in Notifs \cup {None}
    /\ daemon \in 0 .. epochs /\ epochs \in 1 .. MaxEpoch
    /\ version \in Versions
    /\ queue \in Seq(0 .. MaxEpoch) /\ Len(queue) <= MaxQueue
    /\ Environment \in Environments /\ Confined \in BOOLEAN
    /\ UsePortal \in {"ignore", "try", "force"}

(* _active_notifications lists the objects that exist, each of them once,  *)
(* whatever handlers create and destroy while notify_uninit () walks it.   *)
ListIsOfLiveObjects ==
    /\ Active = {n \in Notifs : Live(n)}
    /\ \A j, k \in 1 .. Len(active) : active[j] = active[k] => j = k

(* The list element notify_uninit () goes on from, and the object it       *)
(* disposes of next, have not been freed in the meantime, unless a handler *)
(* drops the notification it is called for.                                *)
UninitStaysOnTheList ==
    "drops" \notin Environment /\ walk # None => walk \in Active

(* The walk comes to its end: each object it disposes of brings it nearer, *)
(* and what handlers create and destroy meanwhile never makes it longer.   *)
LeftToWalk == IF walk = None THEN 0 ELSE Len(active) + 1 - Place(walk)
WalkComesToItsEnd ==
    [][uninit /\ "drops" \notin Environment =>
          /\ LeftToWalk' <= LeftToWalk
          /\ UninitVisits \/ UninitClosed => LeftToWalk' < LeftToWalk]_vars

(* Then no object is connected, those included that handlers made behind   *)
(* the walk's back: the proxy has no user when it is given up.             *)
UninitDisconnectsAll ==
    uninit /\ walk = None /\ "uninit_show" \notin Environment =>
        \A n \in Notifs : Live(n) => proxy_signal_handler[n] = 0

(* A notification that takes itself to be connected ("proxy_signal_handler *)
(* is not 0") is connected to the proxy in use, across notify_uninit () and*)
(* another notify_init (): else it would never hear of its close.          *)
HandlersAreConnected ==
    "uninit_show" \notin Environment =>
        \A n \in Notifs :
            Live(n) /\ proxy_signal_handler[n] # 0 =>
                proxy_signal_handler[n] = _proxy

(* The library speaks the portal's protocol to the portal and the daemon's *)
(* to the daemon, while it is initialized once.                            *)
ModeFitsProxy ==
    "reinit" \notin Environment /\ _initted /\ _proxy # 0 =>
        (_notify_uses_portal_notifications <=> kind[_proxy] = "portal")

(* notify_uninit () leaves no proxy behind, although the disposal of every *)
(* notification it visits makes one where there is none, unless            *)
(* notifications are released after it: each release then asks for, and    *)
(* makes, a proxy that nothing gives up.                                   *)
UninitLeavesNoProxy ==
    "late" \notin Environment /\ ~ _initted => _proxy = 0

(* Once the main loop has handled every change of owner, however often     *)
(* daemons came and went before, the cached specification version is the   *)
(* running daemon's, unless that is no number, and 0 when none runs.  Only *)
(* a daemon that took another one's place and did not answer leaves 0.     *)
SpecVersionIsCurrent ==
    _proxy # 0 /\ ~ _notify_uses_portal_notifications /\ queue = << >> =>
        /\ daemon = 0 => _spec_version_major = 0
        /\ daemon # 0 /\ version # -1 =>
              \/ _spec_version_major = version
              \/ /\ _spec_version_major = 0
                 /\ {"restart", "unanswered"} \subseteq Environment

(* The assertion of _notify_check_spec_version (): a version is known when *)
(* one is asked for; it is as long as one daemon runs that tells one, for  *)
(* where it fails to answer the library has no proxy and asks nothing.     *)
AssertionHolds == ~ aborted
VersionIsKnown ==
    "restart" \notin Environment /\ version >= 1 => AssertionHolds
=============================================================================

# Verification of libnotify

TLA+ modules, model-checking configurations and machine-checked proofs about
libnotify (`libnotify/` and `tools/notify-send.c`). A client of a notification
server is a small program with a hard life: the server is another process that
closes, forgets, restarts and reuses what the client believes it owns; its
signals wait in a queue while the client acts on what it last heard; the
application's callbacks call back into the library and may free the object they
are called for. The modules state what the library guarantees in spite of that,
and under which conditions.

## Inventory

| Part | State | Operations | What makes it correct |
|---|---|---|---|
| `NotifyNotification` over the daemon (`notification.c`) | `id`, `closed_reason`, `actions`, `activation_token`, `activating`, `proxy_signal_handler`, references | new, add/clear actions, show, close, unref, `proxy_g_signal_cb`, `close_notification`, `activate_action` | ids do not meet; a signal is for the object that handles it; "closed" is told, and only of what is off screen; callbacks on live objects; the token of this activation |
| `NotifyNotification` over the desktop portal (`notification.c`) | the same, `portal_timeout_id`, `portal_notification_count` | `add_portal_notification`, `remove_portal_notification`, `on_portal_timeout`, the portal's `ActionInvoked` | expiry is scheduled and happens; no timer on a dead object; callbacks do not recur; each close is told |
| Library (`notify.c`) | `_initted`, `_proxy`, `_spec_version_*`, `_portal_version`, `_flatpak_app`, `_snap_*`, `_active_notifications` | init, uninit, `_notify_get_proxy`, `on_name_owner_changed`, server info and capabilities | the cached version is the running daemon's; the protocol fits the proxy; the walk of uninit stays on the list; handlers are connected to the proxy in use |
| `notify-send` (`tools/notify-send.c`) | `wait`, `loop`, the wait timer, errors, one notification | options, show, main loop, `handle_closed`, `handle_action`, `on_sigint`, `on_wait_timeout` | exits when its notification is closed, and not before; bounded by the expire time; replaces only what it is told to |
| Contents of a notification (`notification.c`) | `icon_name`, `icon_pixbuf`, `app_icon`, `hints`, `actions`, `has_nondefault_actions` | update, image, application icon, hints, actions; `get_hint_name`, `maybe_parse_snap_hint_value`, `get_notification_gicon`, the messages of both servers | the last image reaches a daemon of any version and the portal; no hint twice; exactly the actions there are, under ids that lead back to their callbacks |
| Options of `notify-send` (`tools/notify-send.c`) | the command line, the hints and actions read so far | `notify_notification_set_hint_variant`, `handle_action` names | a hint is there with its value or is refused; each action under its name or number |
| Launch context (`launch-context.c`) | a copy of the token | made in an action's callback, `get_startup_notify_id`, finalized | it has the token of the activation it was made in, for ever |

The parts interact as follows. `notify_notification_show`, `_close` and the
disposal of an object get the cached proxy from `notify.c` (which creates it,
asks the server's version and decides between daemon and portal), and connect
`proxy_g_signal_cb` to it. Method calls are synchronous and run no main loop.
The main loop delivers "g-signal" to every connected notification, which
compares ids and runs application callbacks; these call the API again.
`notify_uninit` closes and disposes of the notifications on the list that
constructor and finalizer maintain. `notify-send` is an application of all that.

There are no threads: what is hard is the interleaving of the client's
steps with the server's and the user's through the signal queue, re-entrancy
from callbacks, lifetime, restarts of the daemon, and timers. `PROJECT.json`
("hazards") lists each place with the properties that watch it.

## Modules

* `NotifyNotification` - objects over the daemon. A call, the daemon's handling
  and its reply are one action (`ShowSucceeds`, `ShowFails`, `ShowLosesReply`,
  `Close`); signals are a FIFO `queue`; `Dispatch` starts an emission, `todo`
  holds the handlers it has still to run, and each handler is an action
  (`Ignore`, `CloseBegins`, `TokenArrives`, `ActivateBegins`). A handler that
  calls the application is split in two (`CloseBegins`/`CloseEnds`,
  `ActivateBegins`/`ActivateEnds`) with the callback, `frame`, in between: there
  the application may take any of its actions. `ref` is "kept" when only the
  running handler holds the object. The daemon is external: `NotifyId`,
  `Displays`, `Hides`, `Invoke`, `Crash`, `Start`.
  The application may keep the launch context of an activation, `context`, and
  use it at any later time (`notification_app_launch_context_new`,
  `..._finalize`; `Launching` names the environments in which it does).
* `NotificationLife` - the abstract specification: what the application sees of
  its objects, whatever server is behind them. A notification is created, shown
  (which may number it and lets its close be told again), told closed once per
  show and never inside another "closed" of its own, activated only while it has
  an id and never inside another callback, and it stays until the callbacks of
  it have returned. `NotifyNotification` and `PortalNotification` implement it
  (`KeepsItsPromise`, an INSTANCE with `numbered`, `told` and `callbacks` defined
  from the detailed state), in every environment. `CallbacksAreSafe` is what the
  promise comes to for a callback; `NotificationLife_proofs` has the theorem.
* `NotifyNotification_proofs`, `NotifyNotificationToken_proofs`,
  `NotifyNotificationLife_proofs` - the theorems about `NotifyNotification`:
  invariants, tokens and launch contexts, the refinement.
* `PortalNotification` - objects over the portal. "closed" is also emitted from
  `notify_notification_close` and from the timer, so that callbacks nest:
  `stack`. One action per handler, `TimeoutFires` for the timer.
* `NotifyLibrary` - the static variables of `notify.c`, proxies as numbers, the
  list as a sequence, and the loop of `notify_uninit` one element at a time
  (`UninitBegins`, `UninitCloses`, `UninitVisits`, `UninitClosed`), since
  handlers run inside it.
* `NotifySend` - several runs of the program on one server, with `pc` for where
  `main` is, one action per source of its main loop.
* `NotificationContent` - what one notification holds, as the application's calls
  leave it, and what `notify_notification_show` would say of it: operators of the
  specification version for the daemon (`get_hint_name`, `NotifyHints`,
  `NotifyIcon`, `NotifyActions`), which may be another one at each show, and for
  the portal (`get_notification_gicon`, `Priority`, `Default`, `Buttons`). The
  file system is a set of icons that cannot be read and a function `Relocated`
  for what a snap has under `$SNAP`; `CustomHints` are the names of hints that
  libnotify neither reads nor adds. `given_icon`, `given_pixbuf` and
  `given_actions` remember what was asked for; only properties read them.
* `NotifySendOptions` - `notify-send` as the application of
  `NotificationContent`: urgency and icon, the hints one by one up to the first
  that is wrong, the actions. Numbers keep their widths (a byte, a gint, the
  guint64 of `strtoull`).
* `PortalNotification_proofs`, `NotifyLibrary_proofs`, `NotifySend_proofs`,
  `NotificationContent_proofs` (also about `NotifySendOptions`) - their theorems.
* `MCNotification`, `MCLibrary`, `MCSend`, `MCContent` - definitions for TLC:
  symmetry sets, versions, command lines, icons.

The modules keep the control and abstract the data. Where objects live
(`NotifyNotification`, `PortalNotification`, `NotifyLibrary`, `NotifySend`)
contents are left out and an action is its id; where contents are
(`NotificationContent`) there is one notification and no queue. The
specification version is its major number in `NotifyLibrary`, major and minor in
`NotificationContent`; flatpak and snap metadata are one boolean, `Confined` or
`snap`.

**Environment.** What the server and the application may do beyond the ordinary
is a set of flags in the variable `Environment`, which `Init` picks from the
constant `Environments` and no action changes. The actions' guards consult it,
and a property that needs a well-behaved environment has that as its premise
(`Ordinary`, `"restart" \notin Environment`). So one run, and one theorem,
covers several environments, and each property shows exactly what it relies on.
Without any flag the server is the one of `docs/notification-spec.xml`; in
particular "If replaces_id is not 0, the returned value is the same value as
replaces_id", be it still on screen or not. `"renumbers"` is a daemon that gives
a new id instead for one it has closed. `"unanswered"` (`NotifyLibrary`) lets
`GetServerInformation` fail, time out or come back malformed while the daemon
lives, and `"fail"` (`NotifySend`) does the same to every call, the close that
`on_sigint` and `handle_action` ask for included. Of the portal `NotifySend`
assumes that it takes a notification off the screen when its action is invoked;
the daemon may leave it there (`Activates`), and then `handle_action`'s close is
what removes it.

## Runs

Expected to pass:

| Run | Shows |
|---|---|
| `notification` | ids are unique and signals reach the object they are for while one daemon runs (it keeps or renumbers the ids it is to replace; it loses replies and handlers show again); while replies arrive and no "closed" handler shows its own notification, what is on screen is reachable and "closed" is told of what is off screen, for any of these daemons and for one that restarts, except for a bubble that was shown across a close of its own id (`crossed`); an object whose bubble is gone learns of it |
| `hostile` | with restarts, tokenless actions and handlers that show, close and drop their notification: callbacks on live objects, `activating` exactly in the callback, a closed object has no id, the token and the launch context belong to their activation, and each step is one of `NotificationLife` |
| `portal` | timers and handlers do not outlive the object, callbacks nest at most once each, expiry stays scheduled and happens, "closed" is true, close hides, the first close is told, and each step is one of `NotificationLife` |
| `library` | list, walk, handlers, protocol, version, no proxy left behind, through re-init, uninit with handlers that create, show and drop, releases after uninit, daemon restarts and daemons that do not answer |
| `send` | a run that waited leaves nothing of its own on screen, unless its time was up, the close that ^C asks for failed, or it was shown under an id whose last close was still in its queue; a waiting run exits after its notification is closed, and within the expire time |
| `content` | after any calls of the application: both servers offer the actions there are, the image reaches a daemon of any version and the portal, hints are distinct; after `notify-send` read its options: hints and actions are as given, or refused |

Expected to be violated (the counterexamples are the findings):

| Run | Disagreement |
|---|---|
| `content_pixbuf` | `NEWS` 0.8.8 lists issue 55, "Icon handling requires call to notify_get_server_info", as fixed; a pixbuf that is set before anything asked for the server still becomes a hint that the portal's branch does not read |
| `portal_again` | `NEWS` 0.8.8 lists issue 49, "The closed signal only fires once", as fixed; the reset of `closed_reason` is after the early return of the portal's branch, so there the second close of a notification that was shown again is silent |
| `library_assertion` | `g_assert (_spec_version_major > 0)`: after the daemon went away and the main loop saw it, showing a notification without application icon aborts |
| `send_hint` | a bad hint is tested to end `notify-send` with status 1; with `--wait` or `--action` the program then waits for a notification it has not shown |
| `notification_crossed` | `notification.c:170`, of "closed": "Emitted when the notification is closed." A daemon that answers Notify with the id it is asked to replace, as `docs/notification-spec.xml:1065` says, gives a notification that is shown again the id it had; if the close of its first bubble is still queued, `proxy_g_signal_cb`, which compares ids only, takes it for the new bubble's, emits "closed" and forgets the id while the bubble is on screen |
| `send_replaces` | `--replace-id` is documented as naming what is replaced; in a sandbox two runs without it use the same portal id, and the second replaces the first |

**Bounds.** Two notifications (two runs of `notify-send`) are what the
properties about meeting ids, crossing signals and replaced bubbles relate; two
or three ids per daemon (`MaxId`) let an object be shown again under a new id
while the other is shown too; a queue of two signals holds a stale one behind or
before another one (the pair of token and action counts as two); two daemons
(`MaxEpoch`, three in `library`, of versions 1, 2 and one without a number) give
ids a second life; three proxies cover two
initializations and one that disposal makes. Each bound is a guard on the step
that would exceed it. `notification` has no actions, which `hostile` has; both are needed to take every step of `NotifyNotification`.
`notification_crossed` needs one notification. In `send` a daemon's notification
that stays on screen can be activated again only while no run has more than
`MaxQueue` signals to take, here one, which is enough for a close, an expiry or ^C to
meet an action that is still queued; the other signals are bounded by the ids.
Its command lines are seven (`SomeLines`): `--wait` with a time, actions without
and with a time, two that do not wait, a bad hint, and actions that the server
does not have, four of them replacing. `WaitsForClose` was also checked once with
every combination of the options (`AllLines`, 16 million states). The
contents are bounded by their sets only: one hint of a name of its own beside
those libnotify knows, five icons (a name, a file, a file that
`$SNAP` has as well, that one, one that cannot be read), two pixbufs, six
spellings of four action ids, the versions 1.0, 1.1, 1.2 and 2.0; each of the
environments of `content` frees one part of the interface, the parts share no
state but `connected`. Command lines have up to two hints (each type with each
kind of text and the numbers around each width) and two actions; two are what it
takes for one to replace another. Widths are scaled down: 8 values for a byte,
32 for an int, 128 for what `strtoull` returns. `CHECK_DEADLOCK` is off since the
applications may stop, and the bounds stop the rest.

**Fairness.** `NotifyNotification`: weak fairness of the main loop (signals are
dispatched, handlers return); nothing of the daemon, the user or the
application. `PortalNotification`: also strong fairness of each timer, since a
timer is a source of a main loop that serves each of its sources: emissions in
between disable it for a moment, over and over, and cannot starve it.
`NotifySend`: weak fairness of each program's steps and timers, and of leaving
a main loop that was quit (`g_main_loop_run` looks at that before each
iteration, however many signals are waiting, and a daemon's notification that
stays on screen can be activated for ever), none of the server, of the user or
of ^C. The timer that `--wait` arms without
`--expire-time` has (guint) -1 milliseconds, 49 days: it may fire, and nothing
relies on it.

## Proofs

Every safety property that a run checks is also proved, for all values of the
constants that satisfy the modules' assumptions: any number of notifications,
proxies, programs, tokens and command lines, any bounds, any environments.

`NotifyNotification_proofs`:

* `TypeCorrect`: `TypeOK`, by itself inductive.
* `HandlerInv` is inductive on top of it: handlers and `todo` are live objects,
  a frame belongs to a live object during an emission, `kept` and `activating`
  are tied to the frame, and a closed object has no id outside its handler.
  `CallbacksAreOnLiveObjects`, `ActivatingMeansInCallback` and
  `ClosedGivesUpId` follow. No condition on the environment: these hold under
  restarts, lost replies and everything else.
* `OneDaemonInv` says that without restarts an id has one owner for ever:
  whatever carries the id (an object, a queued or current signal, the screen)
  belongs to the same notification, and ids in use are below `nextId`. The
  invariant has to speak of the queue and the screen since a uniqueness of the
  objects' ids alone is not preserved by a reply that reuses an id.
  `IdsAreUnique` and `SignalsReachTheirOwner` follow.
* `OrdinaryInv` relates the screen to the objects and to the closes on their
  way: what is displayed is known to its object, and a queued close names an id
  that nothing on screen has, unless that id is in `crossed`, the history of
  the ids that were shown while such a close was under way. `ScreenIsReachable`
  and `ClosedIsNeverStale` follow, for the daemon of the specification and for
  any other, restarts included; what they except is what the run
  `notification_crossed` shows. `NewIdsAreNeverCrossed`: with a daemon that
  renumbers, and is not restarted, there is nothing to except.

* `HeardInv` (a live object with an id is connected) is what lets a close find
  its object. With `OneDaemonInv` and the relation of the screen to the closes
  under way it gives `CloseIsOnItsWay`: while the daemon is not restarted, the
  close that an object does not know of is in the queue, in the emission that
  has still to reach it, or in its running handler (`ClosesAreNotLost`). The
  action property `CloseComesNearer` says that no step drops or overtakes it
  (`ClosesAreNotOvertaken`). Both are the safety that `LearnsOfClose` rests on:
  the run adds only that a fair main loop goes on. `AllIsKnownAtRest` is the
  state in which it has nothing left to do. `EachCloseIsTold` needs no
  condition: the daemon's branch of show resets `closed_reason`, which the
  portal's does not (finding `portal_again`).

`EnvironmentStays` (the environment does not change) discharges the premises.

`NotifyNotificationToken_proofs`: `BusInv` says that a client whose call was
answered knows the daemon and has only its signals pending, or knows nobody and
hears nothing before it does. `TokenInv` pairs each token with its action in the
queue and follows the token through the emission into the callback; its premise
is that each activation brings a token. `TokensAreOfTheirActivation` follows;
`ContextsKeepTheirToken` follows from it and from `ActivatingIsInCallback`.

`NotifyNotificationLife_proofs` and the last part of `PortalNotification_proofs`
prove the refinement of `NotificationLife` step by step: each action maps to a
step of the application's view, or leaves that view alone.
`NotificationLife_proofs` shows what the abstract specification is worth:
`FrameInv` (callbacks run on objects that are there, in action frames only at the
bottom, no two alike) is inductive for it, with callbacks nested to any depth;
`CallbacksAreAsPromised` instantiates that theorem and carries it through the
refinement to the portal's objects.

`PortalNotification_proofs`: `CallbackInv` ties `stack` to the objects (one
"closed" inside one action at most, references, handlers and timers of live
objects only); `ToldInv` counts what the application was told; `ScreenInv`
relates the screen, the ids, the queued activations and the timers in ordinary
surroundings. `OwnInv` holds in every environment: ids and queued signals are
numbered no higher than `portal_notification_count`, no two objects have the
same id, and a signal of an object's id is of that object. From it
`SignalsFindTheirOwner`, and `NumbersKeepThemApart`: no step of one notification
takes another off the screen.

`NotifyLibrary_proofs`: `LibraryInv` (types, the list, where the walk of
`notify_uninit` is), for a list of any length: taking an element out keeps the
order of the rest, so the walk's place stays. `VersionInv` describes the owners
a proxy will still be told of, the last of which is the present one; the version
cached when they have been heard is that one's, or 0 where it replaced another
and did not answer. `KnownInv`
and `ModeInv` are about one daemon, and one initialization. `ConnectedInv` says
that what the walk has passed has no handler; so `NobodyStaysConnected` when it
is over. `TheWalkEnds` is the termination of the loop: `LeftToWalk`, the elements
from the walk's to the end, shrinks with each disposal and never grows, since new
objects are put in front of the walk and taking others out keeps the order.

`NotifySend_proofs`: `DaemonInv` (a close that a run has still to take is of an
id that is off the screen or another run's by then; runs in `crossed` excepted), `ScreenInv` (a run whose
notification is on screen has heard of no close of it), `ExitInv` (why a run left
its main loop). `WaitingEndsWithTheClose` needs all three; its premises are the
two cases in which the program does leave a bubble (Conditions). The two liveness properties rest on safety that is proved without premises on
the server. `RunInv` is about the state of one run (what is connected, armed and
known at each `pc`): `TheTimerRuns`, a run that was told how long is never in its
main loop without its timer, and `NoWaitEndsOfItself` follow. `ComesInv` says
that the close of what left the screen is in the queue of the run it belongs to,
where only that run takes it out: `TheCloseReachesTheLoop` and, for its place in
the queue, `TheCloseEndsTheWait`. `NextIdInv` (nothing shown has a number that is
still to come) gives `ReplacementsAreAskedFor`.

`NotificationContent_proofs`, for an application and for `notify-send`:

* `ActionsInv`: no two actions have ids that are alike but for case, so that
  what `find_action_info` finds first is all there is, and each has its last
  callback.
* `IconInv` and `PixbufInv` keep what was given last next to its hint;
  `VersionNumbers` and `NamesAreDistinct` are about the names of hints in a
  version, whatever other names (`CustomHints`) an application uses.
  `HintsAreSentOnce` holds of every state, reachable or not, since renaming is
  injective.
* `ReadInv` and `HintsInv` follow the loops of `notify-send`: which action and
  which hint of a name is the last one read. `SensibleIsMeant` and
  `NoByteIsRefused` are the arithmetic of the widths.

Only model-checked: the last step of liveness (`LearnsOfClose`, `Expires`,
`ExitsWhenClosed`, `WaitIsBounded`), from "it is under way and every turn brings
it nearer" to "it arrives", which needs ENABLED and an induction on the place in
the queue, both out of the prover's reach; and the findings, which are
counterexamples. The other way round, `CloseIsOnItsWay`, `CloseComesNearer`,
`ClosesAreTold`, `NewIdsDoNotCross`, `TheCloseIsComing`, `TheCloseComesNearer`, `TimeIsKept`,
`WaitsForAReason`, `ReplacesWhatItWasTold`, `SignalsReachTheirOwner`,
`OthersStayOnScreen`, `WalkComesToItsEnd`, `UninitDisconnectsAll` and
`CallbacksAreSafe` are proved and in no configuration;
TLC finds no violation when they are added to that of their module
(`CallbacksAreSafe` to `NotificationLife` by itself).

## Conditions worth knowing

Some guarantees need their premise, and TLC shows why when it is dropped:

* a notification that is shown again while the close of its first bubble is
  queued is, with a daemon that keeps the id as the specification says, taken
  for closed and loses its id with the new bubble on screen (finding
  `notification_crossed`); `ClosedIsTrue` and `DisplayedIsReachable` except
  exactly such bubbles;
* for the same reason a `notify-send --replace-id --wait` leaves at the close of
  what it replaces, its own notification on screen, if the daemon closed the
  former between the run's first call and its Notify;
* `on_sigint` ignores the error of `notify_notification_close` and quits: if the
  call fails or times out, over the daemon or over the portal, the notification
  stays. (`NEWS` 0.8.0: "Handles SIGINT gracefully, closing waiting
  notification".) After a failed close in `handle_action` the program goes on
  waiting;
* a daemon that takes another's place and does not answer
  `GetServerInformation` leaves the cached version at 0, behind a warning; the
  next show without an application icon aborts on the assertion, although a
  daemon runs. One that does not answer at the first call leaves no proxy, and
  is asked again;
* an action of `notify-send` without a name is called by its number from 1, as
  in `docs/notify-send.xml:70` ("starting with 1"); the help text in
  `tools/notify-send.c:326` says "(starting with 0)". `ActionsAreAsGiven` states
  what the code and the manual say;
* with a restarted daemon ids start afresh; an object can then receive the
  signals of another's bubble (`notification.c` forgets no id when the owner
  changes);
* a "closed" handler that shows its notification loses the new id when the
  handler returns (`priv->id = 0` after the emission);
* a pixbuf set before the server is known, and an icon taken away in a snap
  (`try_prepend_path` finds the directory `$SNAP` for NULL, which becomes the
  icon), do not come out as given;
* a daemon whose version has no number leaves the previous one's in place, and
  the assertion failing when there was none;
* a hint's number beyond the range of an int wraps: 4294967299 is the byte 3;
* a release after `notify_uninit` makes a proxy that nothing frees;
* a token delivered with an action the object does not have stays until the
  next activation, and a tokenless activation then hands it out;
* a failed `RemoveNotification` has cleared the timer: the bubble never expires;
* updating a portal notification while the user's action on it is queued closes
  the object, and leaves the new bubble;
* a handler that drops its notification inside `notify_uninit` frees the list
  element that the loop goes on from; one that shows it stays connected to the
  old proxy;
* in a sandbox `--expire-time` is a timer of the process: a `notify-send` that
  does not wait exits before it fires, and the notification stays;
* a second initialization in a sandbox finds the application's name freed behind
  its once-guard, and talks to the daemon in the portal's mode.

## Not modelled

Summary, body, category and names, which are copied; the sound hints; the
application icon of the library (`notify_set_app_icon`); hints that an
application sets by the names of older versions; the flatpak, snap and cgroup
metadata beyond their outcome; GVariant and D-Bus encoding; the syntax of
`notify-send`'s options, what it prints and writes; the `id` property set by an
application other than `notify-send`; a portal that restarts; more than one
thread (the library is not thread-safe). A dispose run by `notify_uninit` clears
the handler but the object stays usable; its later use is modelled in
`NotifyLibrary` only. `notify_uninit` is not a step of `NotificationContent`.
Three components are therefore not modelled at all: the parsing of metadata, the
tests and examples, and the build files and documentation.

## Plan

Left: a composition of `NotifyLibrary` with the objects' handlers, so that a
proxy can change under a queued signal; a portal that restarts; `notify_uninit`
as a step of `NotificationContent`; the names of flatpak and snap metadata, as
far as the desktop entry is made from them; an application that sets the `id`
property.

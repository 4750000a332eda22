------------------------ MODULE NotificationContent ------------------------
(***************************************************************************)
(* The contents of one notification (libnotify/notification.c): its icon,  *)
(* image, hints and actions, as the application's calls leave them, and    *)
(* what the next notify_notification_show () would say of them to the      *)
(* daemon (Notify) or to the portal (AddNotification).                     *)
(*                                                                         *)
(* The server's specification version may be another one at each show, so  *)
(* the message to the daemon is an operator of the version, and properties *)
(* quantify over versions.  Icons are names, paths and URIs; what matters  *)
(* of them is which the file system has, and which a snap has elsewhere.   *)
(* Environment, picked by Init, lists what the application does:           *)
(*   "actions" it adds and clears actions                                  *)
(*   "image"   it sets the icon, the image and the application icon        *)
(*   "hints"   it sets and clears hints by name                            *)
(*   "early"   it makes calls before anything was asked of the server      *)
(* The library is initialized once: notify_uninit () forgets the snap.     *)
(***************************************************************************)
EXTENDS Integers, Sequences, FiniteSets

CONSTANTS
    Icons,        \* what the application gives as an icon
    Unreadable,   \* those that are URIs, or files, and cannot be read
    Relocated,    \* function: the place under $SNAP of an icon that is there
    SnapPath,     \* $SNAP itself, a directory
    Pixbufs,
    ActionIds,    \* as the application spells them
    Caseless,     \* function: an action's id but for case
    Callbacks,    \* of actions, so that one can be told from another
    DesktopEntries, \* names of desktop files ...
    Installed,    \* ... of which the system has these
    CustomHints,  \* names of hints that libnotify has no part in
    Versions,     \* of the specification, <<major, minor>>
    Environments, \* see above
    None

(* The names of hints that libnotify looks at or adds.                     *)
ImageNames ==
    {"image-data", "image_data", "icon_data", "image-path", "image_path"}
OtherNames == {"desktop-entry", "sender-pid", "urgency"}

ASSUME ConstantsAssumption ==
    /\ Unreadable \subseteq Icons /\ Installed \subseteq DesktopEntries
    /\ "default" \in ActionIds
    /\ None \notin Icons \cup Pixbufs \cup DesktopEntries \cup Callbacks
    /\ None \notin CustomHints \cup ImageNames \cup OtherNames
    /\ \A h \in CustomHints : h \notin ImageNames \cup OtherNames
    /\ SnapPath \notin Icons \cup {None}
    /\ DOMAIN Relocated \subseteq Icons
    /\ \A icon \in DOMAIN Relocated :
          LET there == Relocated[icon]
          IN there \in Icons
             /\ (there \in DOMAIN Relocated => Relocated[there] = there)
    /\ \A k \in ActionIds : Caseless[k] \in ActionIds
    /\ Caseless["default"] = "default"
    /\ \A v \in Versions : v[1] \in Nat \ {0} /\ v[2] \in Nat
    /\ Environments \subseteq SUBSET {"actions", "image", "hints", "early"}

VARIABLES
    \* NotifyNotificationPrivate
    icon_name, icon_pixbuf, app_icon,
    hints,                  \* by name, None: not in the table
    actions,                \* sequence of [id, cb]
    has_nondefault_actions,
    \* the library and the program
    connected,              \* the proxy was made
    server,                 \* "daemon" | "portal": what it is, or will be
    snap,                   \* whether the program is a snap
    application,            \* whether it has a GApplication
    Environment,
    \* what the application asked for last
    given_icon, given_pixbuf, given_actions

iconVars   == <<icon_name, icon_pixbuf, app_icon, given_icon, given_pixbuf>>
actionVars == <<actions, has_nondefault_actions, given_actions>>
settings   == <<server, snap, application, Environment>>
contentVars == <<iconVars, hints, actionVars, connected, settings>>

ImageData == "image-data"
ImagePath == "image-path"
HintNames == {ImageData, ImagePath} \cup OtherNames \cup CustomHints
_notify_uses_portal_notifications == connected /\ server = "portal"

Init ==
    /\ icon_name = None /\ icon_pixbuf = None /\ app_icon = None
    /\ hints = [h \in HintNames |-> None]
    /\ actions = << >> /\ has_nondefault_actions = FALSE
    /\ connected = FALSE /\ server \in {"daemon", "portal"}
    /\ snap \in BOOLEAN /\ application \in BOOLEAN
    /\ Environment \in Environments
    /\ given_icon = None /\ given_pixbuf = None
    /\ given_actions = [k \in ActionIds |-> None]

(***************************************************************************)
(* The application's calls.                                                *)
(***************************************************************************)
(* Everything that first gets the proxy: notify_get_server_info (), a show.*)
Connects ==
    /\ ~ connected
    /\ connected' = TRUE
    /\ UNCHANGED <<iconVars, hints, actionVars, settings>>
AppRuns == connected \/ "early" \in Environment

(* Mutant: what is at the place under $SNAP is not tested to be there.     *)
try_prepend_snap_untested(icon) ==
    IF ~ snap THEN None
    ELSE IF icon = None THEN SnapPath
    ELSE IF icon \in DOMAIN Relocated THEN Relocated[icon]
    ELSE <<SnapPath, icon>>

(* A path is looked for under $SNAP, unless it is there already.  What is  *)
(* found there of no path at all is $SNAP.                                 *)
try_prepend_snap(icon) ==
    IF snap /\ icon = None THEN SnapPath
    ELSE IF snap /\ icon \in DOMAIN Relocated THEN Relocated[icon]
    ELSE None

(* The desktop file of a snap has the snap's name before its own.          *)
try_prepend_snap_desktop(entry) ==
    IF snap /\ entry \notin Installed THEN <<"snap name", entry>> ELSE None

(* maybe_parse_snap_hint_value () *)
Parsed(name, value) ==
    LET parsed == CASE name = ImagePath -> try_prepend_snap(value)
                    [] name = "desktop-entry" -> try_prepend_snap_desktop(value)
                    [] OTHER -> None
    IN IF parsed = None THEN value ELSE parsed

set_hint(name, value) ==
    hints' = [hints EXCEPT ![name] =
                 IF value = None THEN None ELSE Parsed(name, value)]

(* Mutant: the icon's new name is not made a hint when there was an icon.  *)
UpdateOnce(icon) ==
    /\ \/ icon_name = None /\ icon = None /\ UNCHANGED <<icon_name, hints>>
       \/ /\ icon_name' = IF try_prepend_snap(icon) # None
                          THEN try_prepend_snap(icon) ELSE icon
          /\ IF icon_name = None THEN set_hint(ImagePath, icon_name')
                                 ELSE UNCHANGED hints
    /\ given_icon' = icon
    /\ UNCHANGED <<icon_pixbuf, app_icon, given_pixbuf, actionVars, connected,
                   settings>>

(* notify_notification_update (), and setting the icon when created: with  *)
(* None for NULL, which changes nothing if it was NULL, and for "".        *)
Update(icon) ==
    /\ \/ icon_name = None /\ icon = None /\ UNCHANGED <<icon_name, hints>>
       \/ /\ icon_name' = IF try_prepend_snap(icon) # None
                          THEN try_prepend_snap(icon) ELSE icon
          /\ set_hint(ImagePath, icon_name')
    /\ given_icon' = icon
    /\ UNCHANGED <<icon_pixbuf, app_icon, given_pixbuf, actionVars, connected,
                   settings>>

(* Only a portal that is known of by now gets the pixbuf as such.          *)
SetImageFromPixbuf(pixbuf) ==
    /\ IF pixbuf # None /\ _notify_uses_portal_notifications
       THEN icon_pixbuf' = pixbuf /\ UNCHANGED hints
       ELSE icon_pixbuf' = None /\ set_hint(ImageData, pixbuf)
    /\ given_pixbuf' = pixbuf
    /\ UNCHANGED <<icon_name, app_icon, given_icon, actionVars, connected,
                   settings>>

SetAppIcon(icon) ==
    /\ app_icon' = IF _notify_uses_portal_notifications THEN app_icon ELSE icon
    /\ UNCHANGED <<icon_name, icon_pixbuf, given_icon, given_pixbuf, hints,
                   actionVars, connected, settings>>

(* notify_notification_set_hint () and its variants by type. *)
SetHint(name, value) ==
    /\ set_hint(name, value)
    /\ UNCHANGED <<iconVars, actionVars, connected, settings>>

ClearHints ==
    /\ hints' = [h \in HintNames |-> None]
    /\ UNCHANGED <<iconVars, actionVars, connected, settings>>

(* find_action_info (): ids are compared without regard to case.           *)
Found(id) == {j \in DOMAIN actions : Caseless[actions[j].id] = Caseless[id]}

(* The actions without the first of those found.                           *)
Rest(found) ==
    LET first == CHOOSE j \in found : \A k \in found : j <= k
    IN IF found = {} THEN actions
       ELSE SubSeq(actions, 1, first - 1)
            \o SubSeq(actions, first + 1, Len(actions))

(* Mutant: case matters when it is looked whether the id is there.         *)
AddActionAsSpelt(id, cb) ==
    /\ actions' = Append(Rest({j \in Found(id) : actions[j].id = id}),
                         [id |-> id, cb |-> cb])
    /\ has_nondefault_actions' =
           (has_nondefault_actions \/ Caseless[id] # "default")
    /\ given_actions' = [given_actions EXCEPT ![Caseless[id]] = cb]
    /\ UNCHANGED <<iconVars, hints, connected, settings>>

(* An action of a known id is taken out, and the new one put at the end.   *)
AddAction(id, cb) ==
    /\ actions' = Append(Rest(Found(id)), [id |-> id, cb |-> cb])
    /\ has_nondefault_actions' =
           (has_nondefault_actions \/ Caseless[id] # "default")
    /\ given_actions' = [given_actions EXCEPT ![Caseless[id]] = cb]
    /\ UNCHANGED <<iconVars, hints, connected, settings>>

ClearActions ==
    /\ actions' = << >> /\ has_nondefault_actions' = FALSE
    /\ given_actions' = [k \in ActionIds |-> None]
    /\ UNCHANGED <<iconVars, hints, connected, settings>>

(***************************************************************************)
(* What is said to the daemon.                                             *)
(***************************************************************************)
_notify_check_spec_version(v, major, minor) ==
    v[1] > major \/ (v[1] = major /\ v[2] >= minor)

(* Mutant: the two parts of a version are compared one by one.             *)
get_hint_name_by_parts(hint, v) ==
    LET AtLeast(minor) == v[1] >= 1 /\ v[2] >= minor
    IN IF hint \notin {ImageData, ImagePath} \/ AtLeast(2) THEN hint
       ELSE IF AtLeast(1)
            THEN IF hint = ImageData THEN "image_data" ELSE "image_path"
       ELSE IF hint = ImageData THEN "icon_data" ELSE None

(* The name of a hint in a version, None: it is not sent.                  *)
get_hint_name(hint, v) ==
    IF hint \notin {ImageData, ImagePath}
          \/ _notify_check_spec_version(v, 1, 2) THEN hint
    ELSE IF _notify_check_spec_version(v, 1, 1)
         THEN IF hint = ImageData THEN "image_data" ELSE "image_path"
    ELSE IF hint = ImageData THEN "icon_data" ELSE None

(* What the hint is when the application set none: $SNAP_NAME and the      *)
(* snap's application, or the id of the GApplication.                      *)
TheProgram == <<"program", None>>

Sent(v) ==
    {<<get_hint_name(h, v), hints[h]>> :
        h \in {g \in HintNames :
                   hints[g] # None /\ get_hint_name(g, v) # None}}

NotifyHints(v) ==
    Sent(v) \cup (IF hints["sender-pid"] # None THEN {}
                  ELSE {<<"sender-pid", "pid">>})
            \cup (IF hints["desktop-entry"] # None \/ (~ snap /\ ~ application)
                  THEN {} ELSE {<<"desktop-entry", TheProgram>>})

(* The icon goes as application icon where it could not be told apart.     *)
(* The library's own (notify_set_app_icon ()) is not set.                  *)
NotifyIcon(v) ==
    IF app_icon = None /\ ~ _notify_check_spec_version(v, 1, 1)
    THEN icon_name ELSE app_icon

NotifyActions == {actions[j].id : j \in DOMAIN actions}

(***************************************************************************)
(* What is said to the portal.                                             *)
(***************************************************************************)
Default == IF Found("default") # {} THEN {"default"} ELSE {}
Buttons ==
    IF ~ has_nondefault_actions THEN {}
    ELSE {actions[j].id : j \in {i \in DOMAIN actions :
                                    Caseless[actions[i].id] # "default"}}

(* A file that is not there is taken for the name of a themed icon; one    *)
(* that cannot be read, as a directory, makes the show fail ("error").     *)
get_notification_gicon ==
    IF icon_pixbuf # None THEN icon_pixbuf
    ELSE IF icon_name \in Unreadable \cup {SnapPath} THEN "error"
    ELSE icon_name

(* g_variant_get_byte () of a hint of another type is 0.                   *)
Byte(n) == [type |-> "byte", value |-> n]
Priority ==
    LET urgency == hints["urgency"]
        level == IF urgency.type = "byte" THEN urgency.value ELSE 0
    IN IF urgency = None THEN None
       ELSE CASE level = 0 -> "low" [] level = 1 -> "normal"
              [] level = 2 -> "urgent" [] OTHER -> None

-----------------------------------------------------------------------------
Images ==
    \/ \E icon \in Icons \cup {None} : Update(icon) \/ SetAppIcon(icon)
    \/ \E pixbuf \in Pixbufs \cup {None} : SetImageFromPixbuf(pixbuf)
Hints ==
    \/ ClearHints
    \/ \E entry \in DesktopEntries : SetHint("desktop-entry", entry)
    \/ \E icon \in Icons : SetHint(ImagePath, icon)
    \/ \E name \in CustomHints \cup {"sender-pid"} : SetHint(name, "value")
Actions ==
    \/ \E id \in ActionIds, cb \in Callbacks : AddAction(id, cb)
    \/ ClearActions

App ==
    \/ Connects
    \/ AppRuns /\ "image" \in Environment /\ Images
    \/ AppRuns /\ "hints" \in Environment /\ Hints
    \/ AppRuns /\ "actions" \in Environment /\ Actions
-----------------------------------------------------------------------------
ContentTypeOK ==
    /\ icon_name \in Icons \cup {None, SnapPath}
    /\ app_icon \in Icons \cup {None}
    /\ icon_pixbuf \in Pixbufs \cup {None}
    /\ DOMAIN hints = HintNames
    /\ hints[ImagePath] \in Icons \cup {None, SnapPath}
    /\ hints[ImageData] \in Pixbufs \cup {None}
    /\ actions \in Seq([id : ActionIds, cb : Callbacks])
    /\ has_nondefault_actions \in BOOLEAN /\ connected \in BOOLEAN
    /\ Environment \in Environments

(* Whatever is added, replaced and cleared, and however ids are spelt, the *)
(* server offers every action there is and no other, both servers under an *)
(* id that find_action_info () takes back to the callback that was given   *)
(* last for it; notify_uninit () closes a notification with buttons.       *)
EveryActionIsOffered ==
    \A offered \in {NotifyActions, Default \cup Buttons} :
        /\ \A k \in ActionIds :
              given_actions[k] # None
                  <=> \E id \in offered : Caseless[id] = k
        /\ \A id \in offered :
              \A j \in Found(id) : actions[j].cb = given_actions[Caseless[id]]
        /\ \A k \in ActionIds \ {"default"} :
              given_actions[k] # None => has_nondefault_actions

(* The names by which a daemon of some version knows the image's hints.    *)
KnownAs(hint, v) ==
    LET number == 100 * v[1] + v[2]
    IN CASE number >= 102 -> hint
         [] number = 101 -> IF hint = ImageData THEN "image_data"
                                                ELSE "image_path"
         [] OTHER -> IF hint = ImageData THEN "icon_data" ELSE None

(* The icon the application gave last, at its place in a snap, reaches the *)
(* daemon of any version: as a hint, or as the application icon where      *)
(* there is no such hint, unless the application set another one; and none *)
(* does when the application gave none (in a snap, $SNAP then does).       *)
Place(icon) == IF snap /\ icon \in DOMAIN Relocated THEN Relocated[icon]
               ELSE icon
IconReaches(v) ==
    given_icon # None \/ ~ snap =>
       IF KnownAs(ImagePath, v) = None
       THEN NotifyIcon(v) = IF app_icon = None THEN Place(given_icon)
                            ELSE app_icon
       ELSE /\ NotifyIcon(v) = app_icon
            /\ {h \in NotifyHints(v) : h[1] = KnownAs(ImagePath, v)}
                  = IF given_icon = None THEN {}
                    ELSE {<<KnownAs(ImagePath, v), Place(given_icon)>>}
PixbufReaches(v) ==
    {h \in NotifyHints(v) : h[1] = KnownAs(ImageData, v)}
       = IF given_pixbuf = None THEN {}
         ELSE {<<KnownAs(ImageData, v), given_pixbuf>>}

(* notify_notification_set_image_from_pixbuf (): "Sets the image in the    *)
(* notification"; NEWS of 0.8.8 lists as fixed that this needs a call to   *)
(* notify_get_server_info () first.                                        *)
PixbufIsShown ==
    _notify_uses_portal_notifications /\ given_pixbuf # None =>
        get_notification_gicon = given_pixbuf

(* The portal gets the pixbuf, or else the icon.                           *)
PortalIconIsShown ==
    /\ PixbufIsShown
    /\ _notify_uses_portal_notifications /\ given_pixbuf = None
         /\ (given_icon # None \/ ~ snap) =>
            get_notification_gicon = IF Place(given_icon) \in Unreadable
                                     THEN "error" ELSE Place(given_icon)

(* An application that does not clear hints, and in a sandbox has asked    *)
(* for the server before it sets the pixbuf, has its image shown, whatever *)
(* it set before, and whatever the server turns out to be.                 *)
ImageIsSent ==
    /\ server = "daemon" /\ "hints" \notin Environment =>
           \A v \in Versions : IconReaches(v) /\ PixbufReaches(v)
    /\ "early" \notin Environment => PortalIconIsShown

(* No name is sent twice, whatever is set and cleared in whatever order,   *)
(* and the daemon of any version knows the names of the image's hints; a   *)
(* hint of any other name is sent as it was set, and what libnotify adds   *)
(* itself, the desktop entry and the process, does not replace it.  (The   *)
(* application sets no hints by the names of the image in old versions.)   *)
HintsAreDistinct ==
    \A v \in Versions :
        LET sent == NotifyHints(v)
            known == {KnownAs(ImageData, v), KnownAs(ImagePath, v)}
        IN /\ \A p, q \in sent : p[1] = q[1] => p = q
           /\ \A p \in sent : p[1] \in ImageNames => p[1] \in known
           /\ \A h \in OtherNames \cup CustomHints :
                 hints[h] # None => <<h, hints[h]>> \in sent
=============================================================================

------------------------- MODULE NotifySendOptions -------------------------
(***************************************************************************)
(* How notify-send (tools/notify-send.c) turns its options into the        *)
(* contents of its notification, one option at a time: urgency and icon,   *)
(* then the hints, up to the first that is wrong, then the actions.        *)
(*                                                                         *)
(* The other program here is any application that calls the library as it  *)
(* likes (NotificationContent): program, picked by Init, says which one.   *)
(*                                                                         *)
(* A hint is TYPE:NAME:VALUE.  A value's text is a "number", one with a    *)
(* "minus", one in hexadecimal ("hex"), a "word", or "empty".  Numbers     *)
(* keep their widths, scaled down: a byte has ByteSize values, an int      *)
(* IntSize, and what strtoull () reads from a text WideSize.               *)
(***************************************************************************)
EXTENDS NotificationContent

CONSTANTS
    ByteSize, IntSize, WideSize,
    Numerals,       \* the sequence of the actions' ids that are numbers
    CommandLines    \* records of [urgency, icon, app_icon, hints, actions,
                    \* capable]: hints is a sequence of [type, name, text,
                    \* number], with the type "malformed" for one that is not
                    \* of the form TYPE:NAME:VALUE; actions a sequence of
                    \* names, "" when only a label was given, "skip" when the
                    \* label or the name is empty; capable is the server's

ASSUME SizesAssumption ==
    /\ ByteSize \in Nat \ {0} /\ IntSize \in Nat /\ WideSize \in Nat
    /\ 2 * ByteSize <= IntSize /\ IntSize <= WideSize

(* Names of hints on a command line: any that are not an image's.          *)
OptionNames == OtherNames \cup CustomHints

(* A hint may also have no name, ""; a callback is an action's place on    *)
(* the command line.                                                       *)
ASSUME CommandLinesAssumption ==
    /\ CommandLines # {} /\ \A n \in 0 .. 2 : Byte(n) # None
    /\ \A a \in CommandLines :
          /\ a.capable \in BOOLEAN
          /\ a.icon \in Icons \cup {None} /\ a.app_icon \in Icons \cup {None}
          /\ a.urgency \in 0 .. 2
          /\ DOMAIN a.hints = 1 .. Len(a.hints) /\ Len(a.hints) \in Nat
          /\ \A j \in DOMAIN a.hints :
                /\ a.hints[j].name \in OptionNames \cup {""}
                /\ a.hints[j].number \in Nat
          /\ DOMAIN a.actions = 1 .. Len(a.actions) /\ Len(a.actions) \in Nat
          /\ \A j \in DOMAIN a.actions :
                /\ j \in Callbacks /\ j \in Nat
                /\ IF a.actions[j] = "" THEN Numerals[j] \in ActionIds
                   ELSE a.actions[j] \in ActionIds \cup {"skip"}

VARIABLES
    program,        \* "application" | "notify-send"
    pc,             \* where main () is
    args,           \* its command line
    i,              \* its loop counter
    hint_error, show_error

errorVars == <<hint_error, show_error>>
vars == <<contentVars, program, pc, args, i, errorVars>>

SendInit ==
    /\ Init
    /\ \/ program = "application" /\ pc = "application"
          /\ args = CHOOSE a \in CommandLines : TRUE
       \/ program = "notify-send" /\ pc = "options" /\ args \in CommandLines
          /\ Environment = {} /\ ~ application /\ ~ snap
    /\ i = 1 /\ hint_error = FALSE /\ show_error = FALSE

(* The server is asked who it is before the notification is made.          *)
ReadsOptions ==
    /\ pc = "options"
    /\ pc' = "hints"
    /\ connected' = TRUE
    /\ app_icon' = IF server = "portal" THEN None ELSE args.app_icon
    /\ icon_name' = args.icon /\ given_icon' = args.icon
    /\ hints' = [hints EXCEPT ![ImagePath] = args.icon,
                              !["urgency"] = Byte(args.urgency)]
    /\ UNCHANGED <<icon_pixbuf, given_pixbuf, actionVars, settings,
                   program, args, errorVars, i>>

(* g_ascii_strtoull () of a value and (gint) of it.  Out of its range, a   *)
(* negative number is the greatest one, too.                               *)
strtoull(o, hex) ==
    IF o.text \notin {"number", "minus"} /\ ~ (hex /\ o.text = "hex") THEN 0
    ELSE IF o.number >= WideSize THEN WideSize - 1
    ELSE IF o.text = "minus" THEN (WideSize - o.number) % WideSize
    ELSE o.number
gint(n) == LET low == n % IntSize
           IN IF low < IntSize \div 2 THEN low ELSE low - IntSize

(* Mutant: a byte is cut to its size before it is compared with it.        *)
ByteTruncated(o) == {gint(strtoull(o, TRUE)) % ByteSize}

(* What of a number is taken for a byte, none if it is none.               *)
ByteOf(o) == {gint(strtoull(o, TRUE))} \cap 0 .. ByteSize - 1

Int32 == 0 - (IntSize \div 2) .. (IntSize \div 2) - 1
Signed(o) == IF o.text = "minus" THEN 0 - o.number ELSE o.number
Digits(o) == o.text \in {"number", "hex"}

(* notify_notification_set_hint_variant (): the set of the value, or none  *)
(* for an error.  Only int and double must begin with a digit; GVariant    *)
(* has a number be an int.                                                 *)
HintVariant(o) ==
    LET values ==
        CASE o.type = "string"  -> {o.number}
          [] o.type = "int"     -> IF Digits(o) THEN {gint(strtoull(o, FALSE))}
                                   ELSE {}
          [] o.type = "double"  -> IF Digits(o) THEN {o.number} ELSE {}
          [] o.type = "byte"    -> ByteOf(o)
          [] o.type = "boolean" -> IF Digits(o) /\ strtoull(o, FALSE) # 0
                                   THEN {1} ELSE {0}
          [] o.type = "variant" -> IF Digits(o) \/ o.text = "minus"
                                   THEN {Signed(o)} \cap Int32 ELSE {}
          [] OTHER -> {}
    IN {[type |-> o.type, value |-> n] : n \in values}

(* An empty string is not an error, and no hint.  A hint without a name is *)
(* a critical warning, which notify-send makes fatal.                      *)
ReadsHint ==
    /\ pc = "hints" /\ i \in DOMAIN args.hints
    /\ LET o == args.hints[i] IN
         \/ /\ HintVariant(o) = {}
            /\ hint_error' = TRUE
            /\ pc' = "actions" /\ i' = 1
            /\ UNCHANGED contentVars
         \/ /\ o.type = "string" /\ o.text = "empty"
            /\ i' = i + 1
            /\ UNCHANGED <<contentVars, hint_error, pc>>
         \/ /\ ~ (o.type = "string" /\ o.text = "empty")
            /\ \E value \in HintVariant(o) :
                  IF o.name = "" THEN pc' = "aborted" /\ UNCHANGED contentVars
                                 ELSE SetHint(o.name, value) /\ UNCHANGED pc
            /\ i' = i + 1
            /\ UNCHANGED hint_error
    /\ UNCHANGED <<program, args, show_error>>

(* Also after a wrong hint, the actions are read.                          *)
HintsAreRead ==
    /\ pc = "hints" /\ i \notin DOMAIN args.hints
    /\ pc' = "actions" /\ i' = 1
    /\ UNCHANGED <<contentVars, program, args, errorVars>>

(* Mutant: actions that are skipped are not counted. *)
NameOfTaken(j) ==
    IF args.actions[j] # "" THEN args.actions[j]
    ELSE Numerals[Cardinality({k \in 1 .. j : args.actions[k] # "skip"})]

(* An action without a name is called by its number, counted from 1.       *)
NameOf(j) == IF args.actions[j] # "" THEN args.actions[j] ELSE Numerals[j]

ReadsAction ==
    /\ pc = "actions" /\ args.capable /\ i \in DOMAIN args.actions
    /\ IF args.actions[i] = "skip" THEN UNCHANGED contentVars
                                 ELSE AddAction(NameOf(i), i)
    /\ i' = i + 1
    /\ UNCHANGED <<program, args, errorVars, pc>>

ActionsAreRead ==
    /\ pc = "actions"
    /\ ~ args.capable \/ i \notin DOMAIN args.actions
    /\ show_error' = ~ args.capable
    /\ pc' = "show"
    /\ UNCHANGED <<contentVars, program, args, hint_error, i>>

(* The portal's priority is read from a byte, else that is fatal as well.  *)
Shows ==
    /\ pc = "show"
    /\ pc' = IF hint_error THEN "not shown"
             ELSE IF server = "portal" /\ hints["urgency"].type # "byte"
             THEN "aborted" ELSE "shown"
    /\ UNCHANGED <<contentVars, program, args, errorVars, i>>

-----------------------------------------------------------------------------
Main == ReadsOptions \/ ReadsHint \/ HintsAreRead \/ ReadsAction
           \/ ActionsAreRead \/ Shows

Application ==
    pc = "application" /\ App /\ UNCHANGED <<program, args, errorVars, pc, i>>

Next == Main \/ Application

Spec == SendInit /\ [][Next]_vars

-----------------------------------------------------------------------------
TypeOK ==
    /\ ContentTypeOK
    /\ pc \in {"application", "options", "hints", "actions", "show", "shown",
               "not shown", "aborted"}
    /\ i \in Nat /\ hint_error \in BOOLEAN /\ show_error \in BOOLEAN

(* The hints that make sense: a number that its type has room for, in a    *)
(* notation it can have (an int is not negative or hexadecimal).           *)
Sensible(o) ==
    \/ o.type = "string" /\ o.text # "empty"
    \/ o.type = "int" /\ o.text = "number" /\ o.number < IntSize \div 2
    \/ o.type = "double" /\ Digits(o)
    \/ o.type = "byte" /\ Digits(o) /\ o.number < ByteSize
    \/ o.type = "boolean" /\ o.text = "number"
    \/ o.type = "variant" /\ (Digits(o) \/ o.text = "minus")
         /\ o.number < IntSize \div 2
Meant(o) ==
    [type |-> o.type,
     value |-> IF o.type = "boolean" /\ o.number > 0 THEN 1
               ELSE IF o.type = "variant" THEN Signed(o) ELSE o.number]

(* When notify-send comes to show its notification, the last hint of each  *)
(* name, --urgency counting as the first, is there with its type and its   *)
(* value, and the portal is told of the urgency.  Only a hint that makes   *)
(* no sense keeps it from being shown; a byte out of range is not taken    *)
(* for another one, unless the int that it is first cut to makes it one.   *)
Named(name) == {j \in DOMAIN args.hints : args.hints[j].name = name}
LastNamed(name) ==
    args.hints[CHOOSE j \in Named(name) : \A k \in Named(name) : k <= j]
HintsAreAsGiven ==
    pc = "show" =>
        /\ hint_error =>
              \E j \in DOMAIN args.hints : ~ Sensible(args.hints[j])
        /\ ~ hint_error =>
              \A name \in OptionNames :
                  Named(name) # {} /\ Sensible(LastNamed(name))
                      => hints[name] = Meant(LastNamed(name))
        /\ \A name \in OptionNames \ {"urgency"} :
              Named(name) = {} => hints[name] = None
        /\ Named("urgency") = {} =>
              /\ hints["urgency"] = Byte(args.urgency)
              /\ Priority = <<"low", "normal", "urgent">>[args.urgency + 1]
        /\ \A j \in DOMAIN args.hints :
              args.hints[j].type = "byte" /\ args.hints[j].text = "number"
                 /\ args.hints[j].number \in ByteSize .. IntSize - 1
                     => hint_error

(* Every action of the command line is there under its name, or under its  *)
(* number in which those that are skipped count, unless one after it has   *)
(* the same name: then that one's choice is what is printed.  The first    *)
(* number is 1, as docs/notify-send.xml has it ("starting with 1");        *)
(* the program's own help says otherwise (notify-send.c, "--action":       *)
(* "starting with 0"), and is wrong about its program.                     *)
Called(j) == IF args.actions[j] = "" THEN Numerals[j] ELSE args.actions[j]
ActionsAreAsGiven ==
    pc = "show" /\ args.capable =>
        /\ \A j \in DOMAIN args.actions :
              args.actions[j] # "skip" =>
                 \E k \in Found(Called(j)) : actions[k].cb >= j
        /\ \A k \in DOMAIN actions : actions[k].id = Called(actions[k].cb)
=============================================================================

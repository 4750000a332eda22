----------------------------- MODULE MCContent -----------------------------
(* An instance of NotifySendOptions, and of NotificationContent in it.     *)
EXTENDS NotifySendOptions, TLC

CONSTANTS themed, file, moved, inSnap, missing, p1, p2, own, other, snapPath

(* A themed icon's name, a file, a file that $SNAP has as well, that one,  *)
(* and the URI of nothing.                                                 *)
MCIcons == {themed, file, moved, inSnap, missing}
MCRelocated == (moved :> inSnap) @@ (inSnap :> inSnap)

MCNumerals == <<"1", "2">>
MCIds == {"default", "Default", "open", "OPEN", "1", "2"}
MCCaseless == [k \in MCIds |-> CASE k = "Default" -> "default"
                                 [] k = "OPEN" -> "open"
                                 [] OTHER -> k]
MCVersions == {<<1, 0>>, <<1, 1>>, <<1, 2>>, <<2, 0>>}

Hint(type, name, text, number) ==
    [type |-> type, name |-> name, text |-> text, number |-> number]
HintsFor(name) ==
    {Hint("malformed", name, "word", 0), Hint("other", name, "number", 1),
     Hint("string", name, "word", 1), Hint("string", name, "empty", 0)}
    \cup {Hint(type, name, text, 3) :
             type \in {"int", "double", "byte", "boolean", "variant"},
             text \in {"number", "minus", "hex", "word", "empty"}}
    \cup {Hint(type, name, "number", n) :
             type \in {"int", "byte", "boolean", "variant"},
             n \in {0, ByteSize - 1, ByteSize, IntSize \div 2, IntSize - 1,
                    IntSize, IntSize + 1, WideSize - 1, WideSize}}
Sorts == {Hint("byte", "urgency", "number", 2),
          Hint("int", "urgency", "number", 2),
          Hint("int", "", "number", 1), Hint("int", "x", "word", 0),
          Hint("byte", "x", "number", 1),
          Hint("string", "desktop-entry", "word", 1),
          Hint("int", "sender-pid", "number", 1)}
HintLists ==
    {<<h>> : h \in HintsFor("x") \cup Sorts}
        \cup {<<g, h>> : g \in Sorts, h \in HintsFor("x") \cup Sorts}
        \cup {<<h, g>> : g \in Sorts, h \in HintsFor("x")}
Names == {"", "skip", "default", "1", "2", "open", "OPEN"}
ActionLists == {<<a>> : a \in Names} \cup {<<a, b>> : a \in Names, b \in Names}

Line(hintList, actionList, able) ==
    [urgency |-> 1, icon |-> themed, app_icon |-> None, hints |-> hintList,
     actions |-> actionList, capable |-> able]
MCLines ==
    {[Line(<< >>, << >>, TRUE) EXCEPT
          !.urgency = u, !.icon = icon, !.app_icon = app] :
        u \in 0 .. 2, icon \in {themed, file, missing, None},
        app \in {themed, None}}
    \cup {Line(list, << >>, TRUE) : list \in HintLists}
    \cup {Line(list, <<"open", "">>, able) :
             list \in {<<h>> : h \in Sorts}, able \in BOOLEAN}
    \cup {Line(<< >>, list, able) : list \in ActionLists, able \in BOOLEAN}
=============================================================================

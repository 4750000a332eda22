--------------------- MODULE NotificationContent_proofs ---------------------
(* Theorems about NotificationContent and NotifySendOptions: for any icons,*)
(* ids, snaps, versions of the specification and command lines.            *)
EXTENDS NotifySendOptions, TLAPS

-----------------------------------------------------------------------------
(***************************************************************************)
(* Actions.  No two of them have ids that are alike but for case, so that  *)
(* what find_action_info () finds is the only one, and the list holds what *)
(* was given last for each id.                                             *)
(***************************************************************************)
ActionInfo == [id : ActionIds, cb : Callbacks]
Spelt(a) == Caseless[a.id]

Distinct(s) == \A j, k \in 1 .. Len(s) : Spelt(s[j]) = Spelt(s[k]) => j = k

ActionsInv ==
    /\ actions \in Seq(ActionInfo)
    /\ given_actions \in [ActionIds -> Callbacks \cup {None}]
    /\ has_nondefault_actions \in BOOLEAN
    /\ Distinct(actions)
    /\ \A j \in 1 .. Len(actions) :
          actions[j].cb = given_actions[Spelt(actions[j])]
    /\ \A k \in ActionIds : given_actions[k] # None =>
          \E j \in 1 .. Len(actions) : Spelt(actions[j]) = k
    /\ \A k \in ActionIds \ {"default"} :
          given_actions[k] # None => has_nondefault_actions

LEMMA SpeltType == \A a \in ActionInfo : Spelt(a) \in ActionIds
  BY ConstantsAssumption DEF ActionInfo, Spelt

LEMMA WithoutOne ==
    ASSUME NEW s \in Seq(ActionInfo), NEW f \in 1 .. Len(s)
    PROVE  LET t == SubSeq(s, 1, f - 1) \o SubSeq(s, f + 1, Len(s))
           IN /\ t \in Seq(ActionInfo) /\ Len(t) = Len(s) - 1
              /\ \A k \in 1 .. Len(s) - 1 :
                    t[k] = IF k < f THEN s[k] ELSE s[k + 1]
  <1> DEFINE l == Len(s)
             before == SubSeq(s, 1, f - 1)
             after == SubSeq(s, f + 1, Len(s))
  <1>1. l \in Nat /\ f \in 1 .. l
    OBVIOUS
  <1>2. /\ before \in Seq(ActionInfo) /\ Len(before) = f - 1
        /\ \A k \in 1 .. f - 1 : before[k] = s[k]
    BY <1>1
  <1>3. /\ after \in Seq(ActionInfo) /\ Len(after) = l - f
        /\ \A k \in 1 .. l - f : after[k] = s[f + k]
    BY <1>1
  <1> HIDE DEF l, before, after
  <1>4. Len(before \o after) = l - 1 /\ before \o after \in Seq(ActionInfo)
    <2>1. before \in Seq(ActionInfo) /\ after \in Seq(ActionInfo)
      BY <1>2, <1>3
    <2>2. /\ before \o after \in Seq(ActionInfo)
          /\ Len(before \o after) = Len(before) + Len(after)
      BY <2>1
    <2> QED BY <1>1, <1>2, <1>3, <2>1, <2>2
  <1>5. ASSUME NEW k \in 1 .. l - 1
        PROVE  (before \o after)[k] = IF k < f THEN s[k] ELSE s[k + 1]
    <2>1. CASE k < f
      BY <1>1, <1>2, <1>3, <2>1
    <2>2. CASE ~ (k < f)
      <3>1. /\ (before \o after)[k] = after[k - (f - 1)]
            /\ k - (f - 1) \in 1 .. l - f
        BY <1>1, <1>2, <1>3, <2>2
      <3>2. f + (k - (f - 1)) = k + 1
        BY <1>1
      <3> QED BY <1>3, <2>2, <3>1, <3>2
    <2> QED BY <2>1, <2>2
  <1> QED BY <1>4, <1>5 DEF l, before, after

(* What is left of the list when the action of an id is taken out.         *)
LEMMA RestOf ==
    ASSUME ActionsInv, NEW id \in ActionIds
    PROVE  LET t == Rest(Found(id))
           IN /\ t \in Seq(ActionInfo) /\ Distinct(t)
              /\ \A k \in 1 .. Len(t) :
                    /\ Spelt(t[k]) # Caseless[id]
                    /\ \E j \in 1 .. Len(actions) : t[k] = actions[j]
              /\ \A j \in 1 .. Len(actions) : Spelt(actions[j]) # Caseless[id]
                    => \E k \in 1 .. Len(t) : t[k] = actions[j]
  <1> DEFINE t == Rest(Found(id))
  <1>1. actions \in Seq(ActionInfo) /\ Distinct(actions)
    BY DEF ActionsInv
  <1>2. Found(id) = {j \in 1 .. Len(actions) :
                        Spelt(actions[j]) = Caseless[id]}
    BY <1>1 DEF Found, Spelt
  <1>3. CASE Found(id) = {}
    <2>1. t = actions
      BY <1>3 DEF Rest
    <2> QED BY <1>1, <1>2, <1>3, <2>1
  <1>4. CASE Found(id) # {}
    <2>1. PICK f : f \in Found(id)
      BY <1>4
    <2>2. /\ f \in 1 .. Len(actions) /\ Spelt(actions[f]) = Caseless[id]
          /\ Len(actions) \in Nat /\ f \in Nat
      BY <1>1, <1>2, <2>1
    <2>3. \A j \in 1 .. Len(actions) : Spelt(actions[j]) = Caseless[id] => j = f
      BY <1>1, <2>2 DEF Distinct
    <2>4. Found(id) = {f}
      BY <1>2, <2>1, <2>3
    <2>5. (CHOOSE j \in Found(id) : \A k \in Found(id) : j <= k) = f
      BY <2>2, <2>4
    <2>6. t = SubSeq(actions, 1, f - 1) \o SubSeq(actions, f + 1, Len(actions))
      BY <1>4, <2>5 DEF Rest
    <2> HIDE DEF t
    <2>7. /\ t \in Seq(ActionInfo) /\ Len(t) = Len(actions) - 1
          /\ \A k \in 1 .. Len(actions) - 1 :
                t[k] = IF k < f THEN actions[k] ELSE actions[k + 1]
      BY <1>1, <2>2, <2>6, WithoutOne
    <2> DEFINE Was(k) == IF k < f THEN k ELSE k + 1
    <2>8. \A k \in 1 .. Len(t) : /\ Was(k) \in 1 .. Len(actions) /\ Was(k) # f
                                 /\ t[k] = actions[Was(k)]
      BY <2>2, <2>7
    <2>9. \A j, k \in 1 .. Len(t) : Was(j) = Was(k) => j = k
      BY <2>2, <2>7
    <2>10. ASSUME NEW j \in 1 .. Len(actions), j # f
           PROVE  \E k \in 1 .. Len(t) : t[k] = actions[j]
      <3>1. CASE j < f
        <4>1. j \in 1 .. Len(t) /\ t[j] = actions[j]
          BY <2>2, <2>7, <3>1
        <4> QED BY <4>1
      <3>2. CASE j > f
        <4>1. j - 1 \in 1 .. Len(t) /\ t[j - 1] = actions[j]
          BY <2>2, <2>7, <3>2
        <4> QED BY <4>1
      <3> QED BY <2>2, <2>10, <3>1, <3>2
    <2> HIDE DEF Was
    <2>11. Distinct(t)
      BY <1>1, <2>8, <2>9 DEF Distinct
    <2>12. \A k \in 1 .. Len(t) :
              /\ Spelt(t[k]) # Caseless[id]
              /\ \E j \in 1 .. Len(actions) : t[k] = actions[j]
      BY <2>3, <2>8
    <2> QED BY <2>2, <2>7, <2>10, <2>11, <2>12 DEF t
  <1> QED BY <1>3, <1>4

LEMMA AddActionKeeps ==
    ASSUME ActionsInv, NEW id \in ActionIds, NEW cb \in Callbacks,
           AddAction(id, cb)
    PROVE  /\ ActionsInv'
           /\ Len(actions') \in Nat \ {0}
           /\ actions'[Len(actions')] = [id |-> id, cb |-> cb]
           /\ \A j \in 1 .. Len(actions) : Spelt(actions[j]) # Caseless[id]
                 => \E k \in 1 .. Len(actions') : actions'[k] = actions[j]
           /\ \A k \in 1 .. Len(actions') :
                 \/ actions'[k] = [id |-> id, cb |-> cb]
                 \/ \E j \in 1 .. Len(actions) : actions'[k] = actions[j]
  <1> DEFINE t == Rest(Found(id))
             a == [id |-> id, cb |-> cb]
             c == Caseless[id]
  <1>1. /\ t \in Seq(ActionInfo) /\ Distinct(t)
        /\ \A k \in 1 .. Len(t) :
              /\ Spelt(t[k]) # c
              /\ \E j \in 1 .. Len(actions) : t[k] = actions[j]
        /\ \A j \in 1 .. Len(actions) : Spelt(actions[j]) # c
              => \E k \in 1 .. Len(t) : t[k] = actions[j]
    BY RestOf
  <1>2. /\ actions' = Append(t, a)
        /\ has_nondefault_actions' = (has_nondefault_actions \/ c # "default")
        /\ given_actions' = [given_actions EXCEPT ![c] = cb]
    BY DEF AddAction
  <1>3. a \in ActionInfo /\ Spelt(a) = c /\ c \in ActionIds /\ a.cb = cb
    BY ConstantsAssumption DEF ActionInfo, Spelt
  <1> HIDE DEF t, a, c
  <1>4. /\ actions' \in Seq(ActionInfo) /\ Len(actions') = Len(t) + 1
        /\ Len(t) \in Nat /\ actions'[Len(t) + 1] = a
        /\ \A k \in 1 .. Len(t) : actions'[k] = t[k]
    BY <1>1, <1>2, <1>3
  <1>5. Distinct(actions')
    <2> SUFFICES ASSUME NEW j \in 1 .. Len(actions'),
                        NEW k \in 1 .. Len(actions'),
                        Spelt(actions'[j]) = Spelt(actions'[k])
                 PROVE  j = k
      BY DEF Distinct
    <2>1. CASE j \in 1 .. Len(t) /\ k \in 1 .. Len(t)
      BY <1>1, <1>4, <2>1 DEF Distinct
    <2>2. CASE j = Len(t) + 1 \/ k = Len(t) + 1
      BY <1>1, <1>3, <1>4, <2>2
    <2> QED BY <1>4, <2>1, <2>2
  <1>6. /\ given_actions' \in [ActionIds -> Callbacks \cup {None}]
        /\ given_actions'[c] = cb
        /\ \A k \in ActionIds : k # c => given_actions'[k] = given_actions[k]
    BY <1>2, <1>3 DEF ActionsInv
  <1>7. ASSUME NEW k \in 1 .. Len(actions')
        PROVE  actions'[k].cb = given_actions'[Spelt(actions'[k])]
    <2>1. CASE k \in 1 .. Len(t)
      <3>1. PICK j \in 1 .. Len(actions) : t[k] = actions[j]
        BY <1>1, <2>1
      <3>2. Spelt(t[k]) # c /\ Spelt(t[k]) \in ActionIds
        BY <1>1, <2>1, SpeltType
      <3> QED BY <1>4, <1>6, <2>1, <3>1, <3>2 DEF ActionsInv
    <2>2. CASE k = Len(t) + 1
      BY <1>3, <1>4, <1>6, <2>2
    <2> QED BY <1>4, <2>1, <2>2
  <1>8. \A j \in 1 .. Len(actions) : Spelt(actions[j]) # c
              => \E k \in 1 .. Len(actions') : actions'[k] = actions[j]
    <2> SUFFICES ASSUME NEW j \in 1 .. Len(actions), Spelt(actions[j]) # c
                 PROVE  \E k \in 1 .. Len(actions') : actions'[k] = actions[j]
      OBVIOUS
    <2>1. PICK k \in 1 .. Len(t) : t[k] = actions[j]
      BY <1>1
    <2>2. k \in 1 .. Len(actions') /\ actions'[k] = actions[j]
      BY <1>4, <2>1
    <2> QED BY <2>2
  <1>9. ASSUME NEW k \in ActionIds, given_actions'[k] # None
        PROVE  \E j \in 1 .. Len(actions') : Spelt(actions'[j]) = k
    <2>1. CASE k = c
      <3>1. Len(t) + 1 \in 1 .. Len(actions')
        BY <1>4
      <3> QED BY <1>3, <1>4, <2>1, <3>1
    <2>2. CASE k # c
      <3>1. PICK j \in 1 .. Len(actions) : Spelt(actions[j]) = k
        BY <1>6, <1>9, <2>2 DEF ActionsInv
      <3>2. PICK m \in 1 .. Len(actions') : actions'[m] = actions[j]
        BY <1>8, <2>2, <3>1
      <3> QED BY <3>1, <3>2
    <2> QED BY <2>1, <2>2
  <1>10. /\ has_nondefault_actions' \in BOOLEAN
         /\ \A k \in ActionIds \ {"default"} :
               given_actions'[k] # None => has_nondefault_actions'
    BY <1>2, <1>6 DEF ActionsInv
  <1>11. \A k \in 1 .. Len(actions') :
            \/ actions'[k] = a
            \/ \E j \in 1 .. Len(actions) : actions'[k] = actions[j]
    <2> SUFFICES ASSUME NEW k \in 1 .. Len(actions'), actions'[k] # a
                 PROVE  \E j \in 1 .. Len(actions) : actions'[k] = actions[j]
      OBVIOUS
    <2>1. k \in 1 .. Len(t) /\ actions'[k] = t[k]
      BY <1>4
    <2> QED BY <1>1, <2>1
  <1>12. ActionsInv'
    BY <1>4, <1>5, <1>6, <1>7, <1>9, <1>10 DEF ActionsInv
  <1> QED BY <1>4, <1>8, <1>11, <1>12 DEF a, c

LEMMA ActionsAreOffered == ActionsInv => EveryActionIsOffered
  <1> SUFFICES ASSUME ActionsInv,
                      NEW offered \in {NotifyActions, Default \cup Buttons}
               PROVE  /\ \A k \in ActionIds :
                             given_actions[k] # None
                                 <=> \E id \in offered : Caseless[id] = k
                      /\ \A id \in offered : \A j \in Found(id) :
                             actions[j].cb = given_actions[Caseless[id]]
                      /\ \A k \in ActionIds \ {"default"} :
                             given_actions[k] # None => has_nondefault_actions
    BY DEF EveryActionIsOffered
  <1>1. /\ actions \in Seq(ActionInfo)
        /\ \A j \in 1 .. Len(actions) :
              actions[j].cb = given_actions[Spelt(actions[j])]
        /\ \A k \in ActionIds : given_actions[k] # None =>
              \E j \in 1 .. Len(actions) : Spelt(actions[j]) = k
        /\ \A k \in ActionIds \ {"default"} :
              given_actions[k] # None => has_nondefault_actions
    BY DEF ActionsInv
  <1>2. DOMAIN actions = 1 .. Len(actions)
    BY <1>1
  <1>3. \A j \in 1 .. Len(actions) :
           /\ actions[j] \in ActionInfo /\ Spelt(actions[j]) \in ActionIds
           /\ given_actions[Spelt(actions[j])] # None
    <2> SUFFICES ASSUME NEW j \in 1 .. Len(actions)
                 PROVE  /\ actions[j] \in ActionInfo
                        /\ Spelt(actions[j]) \in ActionIds
                        /\ given_actions[Spelt(actions[j])] # None
      OBVIOUS
    <2>1. actions[j] \in ActionInfo
      BY <1>1
    <2>2. actions[j].cb \in Callbacks /\ actions[j].cb # None
      BY <2>1, ConstantsAssumption DEF ActionInfo
    <2> QED BY <1>1, <2>1, <2>2, SpeltType
  <1>4. \A id : \A j \in Found(id) :
           j \in 1 .. Len(actions) /\ Spelt(actions[j]) = Caseless[id]
    BY <1>2 DEF Found, Spelt
  <1>5. \A id : \A j \in Found(id) :
           actions[j].cb = given_actions[Caseless[id]]
    BY <1>1, <1>4
  <1>6. ASSUME NEW id \in offered
        PROVE  \E j \in 1 .. Len(actions) : Spelt(actions[j]) = Caseless[id]
    <2>1. CASE \E j \in 1 .. Len(actions) : id = actions[j].id
      BY <2>1 DEF Spelt
    <2>2. CASE id = "default" /\ Found("default") # {}
      BY <1>4, <2>2
    <2>3. id \in NotifyActions => \E j \in 1 .. Len(actions) : id = actions[j].id
      BY <1>2 DEF NotifyActions
    <2>4. id \in Buttons => \E j \in 1 .. Len(actions) : id = actions[j].id
      BY <1>2 DEF Buttons
    <2> QED BY <1>6, <2>1, <2>2, <2>3, <2>4 DEF Default
  <1>7. ASSUME NEW j \in 1 .. Len(actions)
        PROVE  \E id \in offered : Caseless[id] = Spelt(actions[j])
    <2>1. CASE offered = NotifyActions
      <3>1. actions[j].id \in NotifyActions
        BY <1>2 DEF NotifyActions
      <3> QED BY <2>1, <3>1 DEF Spelt
    <2>2. CASE offered = Default \cup Buttons /\ Spelt(actions[j]) = "default"
      <3>1. j \in Found("default")
        BY <1>2, <2>2, ConstantsAssumption DEF Found, Spelt
      <3>2. "default" \in offered
        BY <2>2, <3>1 DEF Default
      <3> QED BY <2>2, <3>2, ConstantsAssumption
    <2>3. CASE offered = Default \cup Buttons /\ Spelt(actions[j]) # "default"
      <3>1. has_nondefault_actions
        BY <1>1, <1>3, <2>3
      <3>2. actions[j].id \in Buttons
        BY <1>2, <2>3, <3>1 DEF Buttons, Spelt
      <3> QED BY <2>3, <3>2 DEF Spelt
    <2> QED BY <2>1, <2>2, <2>3
  <1>8. ASSUME NEW k \in ActionIds
        PROVE  given_actions[k] # None <=> \E id \in offered : Caseless[id] = k
    BY <1>1, <1>3, <1>6, <1>7
  <1> QED BY <1>1, <1>5, <1>8

-----------------------------------------------------------------------------
(***************************************************************************)
(* What the steps of the application and of notify-send do to the parts.   *)
(***************************************************************************)
LEMMA HintSet ==
    ASSUME DOMAIN hints = HintNames, NEW name \in HintNames, NEW value,
           set_hint(name, value)
    PROVE  /\ DOMAIN hints' = HintNames
           /\ hints'[name] = IF value = None THEN None ELSE Parsed(name, value)
           /\ \A h \in HintNames \ {name} : hints'[h] = hints[h]
  BY DEF set_hint

LEMMA Names == /\ ImagePath \in HintNames /\ ImageData \in HintNames
               /\ "desktop-entry" \in HintNames /\ "urgency" \in HintNames
               /\ OptionNames \subseteq HintNames /\ ImagePath # ImageData
               /\ "desktop-entry" \in OptionNames /\ "urgency" \in OptionNames
               /\ "sender-pid" \in OptionNames
               /\ HintNames = {ImageData, ImagePath} \cup OptionNames
               /\ ImagePath \notin OptionNames /\ ImageData \notin OptionNames
  BY ConstantsAssumption
     DEF HintNames, ImagePath, ImageData, OptionNames, OtherNames, ImageNames

(* The command line is one of those, and notify-send is no snap.           *)
ArgsInv ==
    /\ args \in CommandLines /\ i \in Nat
    /\ pc # "application" => Environment = {} /\ ~ snap

LEMMA ArgsInit == SendInit => ArgsInv
  <1> SUFFICES ASSUME SendInit PROVE ArgsInv
    OBVIOUS
  <1>1. (CHOOSE a \in CommandLines : TRUE) \in CommandLines
    BY CommandLinesAssumption
  <1>2. args \in CommandLines
    BY <1>1 DEF SendInit
  <1>3. i \in Nat /\ (pc # "application" => Environment = {} /\ ~ snap)
    BY DEF SendInit
  <1> QED BY <1>2, <1>3 DEF ArgsInv

LEMMA ArgsNext == ArgsInv /\ [Next]_vars => ArgsInv'
  <1> SUFFICES ASSUME ArgsInv, [Next]_vars PROVE ArgsInv'
    OBVIOUS
  <1> USE DEF ArgsInv
  <1>1. CASE ReadsOptions
    BY <1>1 DEF ReadsOptions, settings
  <1>2. CASE ReadsHint
    <2>1. UNCHANGED settings
      BY <1>2 DEF ReadsHint, SetHint, contentVars
    <2>2. args' = args /\ pc = "hints" /\ (i' = 1 \/ i' = i + 1)
      BY <1>2 DEF ReadsHint
    <2> QED BY <2>1, <2>2 DEF settings
  <1>3. CASE HintsAreRead
    BY <1>3 DEF HintsAreRead, contentVars, settings
  <1>4. CASE ReadsAction
    BY <1>4 DEF ReadsAction, AddAction, contentVars, settings
  <1>5. CASE ActionsAreRead
    BY <1>5 DEF ActionsAreRead, contentVars, settings
  <1>6. CASE Shows
    BY <1>6 DEF Shows, contentVars, settings
  <1>7. CASE Application
    BY <1>7 DEF Application
  <1>8. CASE UNCHANGED vars
    BY <1>8 DEF vars, contentVars, settings
  <1> QED BY <1>1, <1>2, <1>3, <1>4, <1>5, <1>6, <1>7, <1>8 DEF Next, Main

-----------------------------------------------------------------------------
LEMMA ActionsInit == SendInit => ActionsInv
  <1> SUFFICES ASSUME Init PROVE ActionsInv
    BY DEF SendInit
  <1>1. actions = << >> /\ has_nondefault_actions = FALSE
        /\ given_actions = [k \in ActionIds |-> None]
    BY DEF Init
  <1>2. actions \in Seq(ActionInfo) /\ Len(actions) = 0
    BY <1>1
  <1>3. \A k \in ActionIds : given_actions[k] = None
    BY <1>1
  <1>4. \A j : j \notin 1 .. Len(actions)
    BY <1>2
  <1>5. given_actions \in [ActionIds -> Callbacks \cup {None}]
    BY <1>1
  <1> QED BY <1>1, <1>2, <1>3, <1>4, <1>5 DEF ActionsInv, Distinct

LEMMA ActionsStay ==
    ASSUME ActionsInv, UNCHANGED actionVars PROVE ActionsInv'
  BY DEF ActionsInv, actionVars, Distinct, Spelt

LEMMA ActionsCleared == ASSUME ClearActions PROVE ActionsInv'
  <1>1. actions' = << >> /\ has_nondefault_actions' = FALSE
        /\ given_actions' = [k \in ActionIds |-> None]
    BY DEF ClearActions
  <1>2. actions' \in Seq(ActionInfo) /\ Len(actions') = 0
    BY <1>1
  <1>3. \A k \in ActionIds : given_actions'[k] = None
    BY <1>1
  <1>4. \A j : j \notin 1 .. Len(actions')
    BY <1>2
  <1>5. given_actions' \in [ActionIds -> Callbacks \cup {None}]
    BY <1>1
  <1> QED BY <1>1, <1>2, <1>3, <1>4, <1>5 DEF ActionsInv, Distinct

(* The name of an action of the command line that is not skipped.          *)
LEMMA NameIsId ==
    ASSUME ArgsInv, NEW j \in DOMAIN args.actions, args.actions[j] # "skip"
    PROVE  NameOf(j) \in ActionIds /\ j \in Callbacks /\ j \in Nat
  <1>1. args \in CommandLines
    BY DEF ArgsInv
  <1>2. /\ j \in Callbacks /\ j \in Nat
        /\ IF args.actions[j] = "" THEN Numerals[j] \in ActionIds
           ELSE args.actions[j] \in ActionIds \cup {"skip"}
    BY <1>1, CommandLinesAssumption
  <1> QED BY <1>2 DEF NameOf

LEMMA ActionsNext == ArgsInv /\ ActionsInv /\ [Next]_vars => ActionsInv'
  <1> SUFFICES ASSUME ArgsInv, ActionsInv, [Next]_vars PROVE ActionsInv'
    OBVIOUS
  <1>1. CASE ReadsOptions
    BY <1>1, ActionsStay DEF ReadsOptions
  <1>2. CASE ReadsHint
    BY <1>2, ActionsStay DEF ReadsHint, SetHint, contentVars
  <1>3. CASE HintsAreRead
    BY <1>3, ActionsStay DEF HintsAreRead, contentVars
  <1>4. CASE ReadsAction
    <2>1. CASE args.actions[i] = "skip"
      BY <1>4, <2>1, ActionsStay DEF ReadsAction, contentVars
    <2>2. CASE args.actions[i] # "skip"
      <3>1. i \in DOMAIN args.actions /\ AddAction(NameOf(i), i)
        BY <1>4, <2>2 DEF ReadsAction
      <3>2. NameOf(i) \in ActionIds /\ i \in Callbacks
        BY <2>2, <3>1, NameIsId
      <3> QED BY <3>1, <3>2, AddActionKeeps
    <2> QED BY <2>1, <2>2
  <1>5. CASE ActionsAreRead
    BY <1>5, ActionsStay DEF ActionsAreRead, contentVars
  <1>6. CASE Shows
    BY <1>6, ActionsStay DEF Shows, contentVars
  <1>7. CASE Application
    <2>1. CASE Connects
      BY <2>1, ActionsStay DEF Connects
    <2>2. CASE Images
      BY <2>2, ActionsStay DEF Images, Update, SetAppIcon, SetImageFromPixbuf
    <2>3. CASE Hints
      BY <2>3, ActionsStay DEF Hints, ClearHints, SetHint
    <2>4. CASE Actions
      <3>1. ASSUME NEW id \in ActionIds, NEW cb \in Callbacks,
                   AddAction(id, cb)
            PROVE  ActionsInv'
        BY <3>1, AddActionKeeps
      <3> QED BY <2>4, <3>1, ActionsCleared DEF Actions
    <2> QED BY <1>7, <2>1, <2>2, <2>3, <2>4 DEF Application, App
  <1>8. CASE UNCHANGED vars
    BY <1>8, ActionsStay DEF vars, contentVars
  <1> QED BY <1>1, <1>2, <1>3, <1>4, <1>5, <1>6, <1>7, <1>8 DEF Next, Main

LEMMA Steady == Spec => [](ArgsInv /\ ActionsInv)
  <1>1. SendInit => ArgsInv /\ ActionsInv
    BY ArgsInit, ActionsInit
  <1>2. ArgsInv /\ ActionsInv /\ [Next]_vars => (ArgsInv /\ ActionsInv)'
    BY ArgsNext, ActionsNext
  <1> QED BY <1>1, <1>2, PTL DEF Spec

(* Whatever is added, replaced and cleared, however ids are spelt, both    *)
(* servers are offered exactly the actions there are, each under an id     *)
(* that leads find_action_info () back to its last callback.               *)
THEOREM ActionsReachTheServer == Spec => []EveryActionIsOffered
  <1>1. ArgsInv /\ ActionsInv => EveryActionIsOffered
    BY ActionsAreOffered
  <1> QED BY <1>1, Steady, PTL

-----------------------------------------------------------------------------
(***************************************************************************)
(* The icon and the image.  IconInv: the icon is at the place of the one   *)
(* that was given last, and so is its hint unless the application sets     *)
(* hints itself; where a snap gives no icon, nothing is said of it.        *)
(* PixbufInv: the pixbuf that was given last is the hint for a daemon, and *)
(* is kept for a portal unless it was given before the portal was known.   *)
(***************************************************************************)
ImageTypes ==
    /\ icon_name \in Icons \cup {None, SnapPath}
    /\ app_icon \in Icons \cup {None}
    /\ icon_pixbuf \in Pixbufs \cup {None}
    /\ given_icon \in Icons \cup {None}
    /\ given_pixbuf \in Pixbufs \cup {None}
    /\ DOMAIN hints = HintNames
    /\ hints[ImagePath] \in Icons \cup {None, SnapPath}
    /\ hints[ImageData] \in Pixbufs \cup {None}
    /\ connected \in BOOLEAN /\ Environment \in Environments

IconInv ==
    given_icon # None \/ ~ snap =>
        /\ icon_name = Place(given_icon)
        /\ "hints" \notin Environment => hints[ImagePath] = Place(given_icon)

PixbufInv ==
    /\ server = "daemon" /\ "hints" \notin Environment =>
          hints[ImageData] = given_pixbuf
    /\ server = "portal" /\ "early" \notin Environment =>
          icon_pixbuf = given_pixbuf

ImageInv == ImageTypes /\ IconInv /\ PixbufInv

LEMMA Places == \A icon \in Icons : /\ Place(icon) \in Icons
                                    /\ Place(icon) # None
                                    /\ Place(icon) # SnapPath
  BY ConstantsAssumption DEF Place

LEMMA ParsedHints ==
    /\ \A icon \in Icons \cup {SnapPath} :
          Parsed(ImagePath, icon) \in Icons \cup {SnapPath}
    /\ \A icon \in Icons : Parsed(ImagePath, Place(icon)) = Place(icon)
    /\ \A pixbuf : Parsed(ImageData, pixbuf) = pixbuf
  <1>0. \A icon : Parsed(ImagePath, icon) =
            IF try_prepend_snap(icon) = None THEN icon ELSE try_prepend_snap(icon)
    BY Names DEF Parsed
  <1>1. ASSUME NEW icon \in Icons \cup {SnapPath}
        PROVE  Parsed(ImagePath, icon) \in Icons \cup {SnapPath}
    BY <1>0, <1>1, ConstantsAssumption DEF try_prepend_snap
  <1>2. ASSUME NEW icon \in Icons
        PROVE  Parsed(ImagePath, Place(icon)) = Place(icon)
    <2>1. Place(icon) \in Icons /\ Place(icon) # None
      BY Places
    <2>2. snap /\ Place(icon) \in DOMAIN Relocated
             => Relocated[Place(icon)] = Place(icon)
      BY ConstantsAssumption DEF Place
    <2> HIDE DEF Place
    <2> QED BY <1>0, <2>1, <2>2 DEF try_prepend_snap
  <1>3. \A pixbuf : Parsed(ImageData, pixbuf) = pixbuf
    BY Names DEF Parsed
  <1> QED BY <1>1, <1>2, <1>3

LEMMA ImageInit == SendInit => ImageInv
  BY Names DEF SendInit, Init, ImageInv, ImageTypes, IconInv, PixbufInv, Place,
               HintNames

LEMMA ImageStays ==
    ASSUME ImageInv, UNCHANGED <<iconVars, hints, settings>>,
           connected' \in BOOLEAN
    PROVE  ImageInv'
  BY DEF iconVars, settings, ImageInv, ImageTypes, IconInv, PixbufInv, Place

LEMMA UpdateKeeps ==
    ASSUME ImageInv, NEW icon \in Icons \cup {None}, Update(icon)
    PROVE  ImageInv'
  <1> USE DEF ImageInv
  <1>1. /\ given_icon' = icon
        /\ UNCHANGED <<icon_pixbuf, app_icon, given_pixbuf, connected, settings>>
    BY DEF Update
  <1>2. CASE icon_name = None /\ icon = None /\ UNCHANGED <<icon_name, hints>>
    <2>1. ImageTypes'
      BY <1>1, <1>2 DEF ImageTypes, settings
    <2>2. IconInv'
      <3>1. CASE snap
        BY <1>1, <1>2, <3>1 DEF IconInv, settings
      <3>2. CASE ~ snap
        BY <1>1, <1>2, <3>2 DEF IconInv, settings, Place
      <3> QED BY <3>1, <3>2
    <2>3. PixbufInv'
      BY <1>1, <1>2 DEF PixbufInv, settings
    <2> QED BY <2>1, <2>2, <2>3
  <1>3. CASE /\ icon_name' = IF try_prepend_snap(icon) # None
                             THEN try_prepend_snap(icon) ELSE icon
             /\ set_hint(ImagePath, icon_name')
    <2>1. /\ DOMAIN hints' = HintNames
          /\ hints'[ImagePath] = IF icon_name' = None THEN None
                                 ELSE Parsed(ImagePath, icon_name')
          /\ hints'[ImageData] = hints[ImageData]
      BY <1>3, HintSet, Names DEF ImageTypes
    <2>2. icon_name' \in Icons \cup {None, SnapPath}
      BY <1>3, ConstantsAssumption DEF try_prepend_snap
    <2>3. icon \in Icons =>
             /\ icon_name' = Place(icon) /\ icon_name' # None
             /\ hints'[ImagePath] = Place(icon)
      <3> SUFFICES ASSUME icon \in Icons
                   PROVE  /\ icon_name' = Place(icon) /\ icon_name' # None
                          /\ hints'[ImagePath] = Place(icon)
        OBVIOUS
      <3>1. icon_name' = Place(icon)
        BY <1>3, ConstantsAssumption DEF try_prepend_snap, Place
      <3> QED BY <2>1, <3>1, Places, ParsedHints
    <2>4. icon = None /\ ~ snap => icon_name' = None /\ hints'[ImagePath] = None
      BY <1>3, <2>1 DEF try_prepend_snap
    <2>5. hints'[ImagePath] \in Icons \cup {None, SnapPath}
      BY <2>1, <2>2, ParsedHints
    <2>6. ImageTypes'
      BY <1>1, <2>1, <2>2, <2>5 DEF ImageTypes, settings
    <2>7. IconInv'
      <3>1. CASE icon \in Icons
        <4>1. Place(icon)' = Place(icon)
          BY <1>1 DEF Place, settings
        <4> QED BY <1>1, <2>3, <3>1, <4>1 DEF IconInv, Place, settings
      <3>2. CASE icon = None
        BY <1>1, <2>4, <3>2 DEF IconInv, Place, settings
      <3> QED BY <3>1, <3>2
    <2>8. PixbufInv'
      BY <1>1, <2>1 DEF PixbufInv, settings
    <2> QED BY <2>6, <2>7, <2>8
  <1> QED BY <1>2, <1>3 DEF Update

LEMMA PixbufKeeps ==
    ASSUME ImageInv, NEW pixbuf \in Pixbufs \cup {None}, AppRuns,
           SetImageFromPixbuf(pixbuf)
    PROVE  ImageInv'
  <1> USE DEF ImageInv
  <1>1. /\ given_pixbuf' = pixbuf
        /\ UNCHANGED <<icon_name, app_icon, given_icon, connected, settings>>
    BY DEF SetImageFromPixbuf
  <1>2. CASE /\ pixbuf # None /\ _notify_uses_portal_notifications
             /\ icon_pixbuf' = pixbuf /\ UNCHANGED hints
    BY <1>1, <1>2 DEF ImageTypes, IconInv, PixbufInv, Place, settings,
                      _notify_uses_portal_notifications
  <1>3. CASE /\ pixbuf = None \/ ~ _notify_uses_portal_notifications
             /\ icon_pixbuf' = None /\ set_hint(ImageData, pixbuf)
    <2>1. /\ DOMAIN hints' = HintNames /\ hints'[ImageData] = pixbuf
          /\ hints'[ImagePath] = hints[ImagePath]
      BY <1>3, HintSet, Names, ParsedHints DEF ImageTypes
    <2>2. server = "portal" /\ "early" \notin Environment => pixbuf = None
      BY <1>3 DEF AppRuns, _notify_uses_portal_notifications
    <2> QED BY <1>1, <1>3, <2>1, <2>2
            DEF ImageTypes, IconInv, PixbufInv, Place, settings
  <1> QED BY <1>2, <1>3 DEF SetImageFromPixbuf

LEMMA AppIconKeeps ==
    ASSUME ImageInv, NEW icon \in Icons \cup {None}, SetAppIcon(icon)
    PROVE  ImageInv'
  BY DEF SetAppIcon, ImageInv, ImageTypes, IconInv, PixbufInv, Place, settings

LEMMA HintKeeps ==
    ASSUME ImageInv, NEW name \in HintNames, NEW value, SetHint(name, value),
           name # ImageData,
           name = ImagePath => value \in Icons /\ "hints" \in Environment
    PROVE  ImageInv'
  <1>1. /\ DOMAIN hints' = HintNames
        /\ hints'[name] = IF value = None THEN None ELSE Parsed(name, value)
        /\ \A h \in HintNames \ {name} : hints'[h] = hints[h]
    BY HintSet DEF SetHint, ImageInv, ImageTypes
  <1>2. UNCHANGED <<iconVars, connected, settings>>
    BY DEF SetHint
  <1>3. hints'[ImageData] = hints[ImageData]
    BY <1>1, Names
  <1>4. /\ hints'[ImagePath] \in Icons \cup {None, SnapPath}
        /\ "hints" \notin Environment => hints'[ImagePath] = hints[ImagePath]
    BY <1>1, Names, ParsedHints DEF ImageInv, ImageTypes
  <1> QED BY <1>1, <1>2, <1>3, <1>4
          DEF ImageInv, ImageTypes, IconInv, PixbufInv, Place, iconVars, settings

LEMMA ImageNext == ArgsInv /\ ImageInv /\ [Next]_vars => ImageInv'
  <1> SUFFICES ASSUME ArgsInv, ImageInv, [Next]_vars PROVE ImageInv'
    OBVIOUS
  <1>0. connected \in BOOLEAN
    BY DEF ImageInv, ImageTypes
  <1>1. CASE ReadsOptions
    <2>1. /\ connected' = TRUE /\ icon_name' = args.icon
          /\ given_icon' = args.icon
          /\ app_icon' \in {None, args.app_icon}
          /\ UNCHANGED <<icon_pixbuf, given_pixbuf, settings>>
      BY <1>1 DEF ReadsOptions
    <2>2. /\ args.icon \in Icons \cup {None}
          /\ args.app_icon \in Icons \cup {None} /\ ~ snap
      BY <1>1, CommandLinesAssumption DEF ArgsInv, ReadsOptions
    <2>3. /\ DOMAIN hints' = HintNames /\ hints'[ImagePath] = args.icon
          /\ hints'[ImageData] = hints[ImageData]
      BY <1>1, Names DEF ReadsOptions, ImageInv, ImageTypes
    <2> QED BY <2>1, <2>2, <2>3
            DEF ImageInv, ImageTypes, IconInv, PixbufInv, Place, settings
  <1>2. CASE ReadsHint
    <2>1. CASE UNCHANGED contentVars
      BY <1>0, <2>1, ImageStays DEF contentVars
    <2>2. ASSUME NEW value, i \in DOMAIN args.hints,
                 args.hints[i].name # "", SetHint(args.hints[i].name, value)
          PROVE  ImageInv'
      <3>1. args.hints[i].name \in OptionNames
        <4>1. args \in CommandLines
          BY DEF ArgsInv
        <4>2. \A j \in DOMAIN args.hints :
                 args.hints[j].name \in OptionNames \cup {""}
          BY <4>1, CommandLinesAssumption
        <4> QED BY <2>2, <4>2
      <3> QED BY <2>2, <3>1, HintKeeps, Names
    <2> QED BY <1>2, <2>1, <2>2 DEF ReadsHint
  <1>3. CASE HintsAreRead
    BY <1>0, <1>3, ImageStays DEF HintsAreRead, contentVars
  <1>4. CASE ReadsAction
    BY <1>0, <1>4, ImageStays DEF ReadsAction, AddAction, contentVars
  <1>5. CASE ActionsAreRead
    BY <1>0, <1>5, ImageStays DEF ActionsAreRead, contentVars
  <1>6. CASE Shows
    BY <1>0, <1>6, ImageStays DEF Shows, contentVars
  <1>7. CASE Application
    <2>1. CASE Connects
      BY <2>1, ImageStays DEF Connects
    <2>2. CASE AppRuns /\ Images
      BY <2>2, UpdateKeeps, PixbufKeeps, AppIconKeeps DEF Images
    <2>3. CASE "hints" \in Environment /\ Hints
      <3>1. CASE ClearHints
        BY <2>3, <3>1, Names DEF ClearHints, ImageInv, ImageTypes, IconInv,
                                 PixbufInv, Place, iconVars, settings
      <3>2. ASSUME NEW entry, SetHint("desktop-entry", entry)
            PROVE  ImageInv'
        BY <3>2, HintKeeps, Names
      <3>3. ASSUME NEW icon \in Icons, SetHint(ImagePath, icon)
            PROVE  ImageInv'
        BY <2>3, <3>3, HintKeeps, Names
      <3>4. ASSUME NEW name \in CustomHints \cup {"sender-pid"},
                   SetHint(name, "value")
            PROVE  ImageInv'
        <4>1. name \in OptionNames
          BY DEF OptionNames, OtherNames
        <4> QED BY <3>4, <4>1, HintKeeps, Names
      <3> QED BY <2>3, <3>1, <3>2, <3>3, <3>4 DEF Hints
    <2>4. CASE Actions
      BY <1>0, <2>4, ImageStays DEF Actions, AddAction, ClearActions
    <2> QED BY <1>7, <2>1, <2>2, <2>3, <2>4 DEF Application, App
  <1>8. CASE UNCHANGED vars
    BY <1>0, <1>8, ImageStays DEF vars, contentVars
  <1> QED BY <1>1, <1>2, <1>3, <1>4, <1>5, <1>6, <1>7, <1>8 DEF Next, Main

-----------------------------------------------------------------------------
(***************************************************************************)
(* What is said to a daemon of some version.                               *)
(***************************************************************************)
LEMMA VersionNumbers ==
    ASSUME NEW v \in Versions
    PROVE  /\ KnownAs(ImagePath, v) = get_hint_name(ImagePath, v)
           /\ KnownAs(ImageData, v) = get_hint_name(ImageData, v)
           /\ KnownAs(ImagePath, v) = None
                 <=> ~ _notify_check_spec_version(v, 1, 1)
  <1>1. v[1] \in Nat \ {0} /\ v[2] \in Nat
    BY ConstantsAssumption
  <1> DEFINE number == 100 * v[1] + v[2]
  <1>2. number \in Nat
    BY <1>1
  <1>3. /\ number >= 102 <=> _notify_check_spec_version(v, 1, 2)
        /\ number >= 101 <=> _notify_check_spec_version(v, 1, 1)
    BY <1>1 DEF _notify_check_spec_version
  <1>4. /\ number >= 102 => number # 101 /\ number >= 101
        /\ number = 101 => number >= 101
        /\ number >= 101 => number = 101 \/ number >= 102
    BY <1>2
  <1> HIDE DEF number
  <1>5. /\ ImagePath = "image-path" /\ ImageData = "image-data"
        /\ None \notin {"image-data", "image_data", "icon_data", "image-path",
                        "image_path"}
    BY ConstantsAssumption DEF ImagePath, ImageData, ImageNames
  <1>6. \A h \in {ImagePath, ImageData} :
           KnownAs(h, v) =
               IF number >= 102 THEN h
               ELSE IF number = 101 THEN IF h = ImageData THEN "image_data"
                                                          ELSE "image_path"
               ELSE IF h = ImageData THEN "icon_data" ELSE None
    BY <1>4 DEF KnownAs, number
  <1>7. \A h \in {ImagePath, ImageData} :
           get_hint_name(h, v) =
               IF number >= 102 THEN h
               ELSE IF number >= 101 THEN IF h = ImageData THEN "image_data"
                                                           ELSE "image_path"
               ELSE IF h = ImageData THEN "icon_data" ELSE None
    BY <1>3 DEF get_hint_name
  <1>8. \A h \in {ImagePath, ImageData} : KnownAs(h, v) = get_hint_name(h, v)
    BY <1>4, <1>6, <1>7
  <1>9. KnownAs(ImagePath, v) = None <=> ~ (number >= 101)
    <2>1. CASE number >= 102
      <3>1. KnownAs(ImagePath, v) = "image-path"
        BY <1>5, <1>6, <2>1
      <3> QED BY <1>4, <1>5, <2>1, <3>1
    <2>2. CASE number = 101
      BY <1>4, <1>5, <1>6, <2>2, Names
    <2>3. CASE ~ (number >= 101)
      BY <1>4, <1>6, <2>3, Names
    <2> QED BY <1>4, <2>1, <2>2, <2>3
  <1> QED BY <1>3, <1>8, <1>9

(* The names under which hints are sent.                                   *)
LEMMA SentNames ==
    ASSUME NEW v \in Versions
    PROVE  /\ \A h \in OptionNames : get_hint_name(h, v) = h
           /\ get_hint_name(ImageData, v)
                 \in {"image-data", "image_data", "icon_data"}
           /\ get_hint_name(ImagePath, v) \in {"image-path", "image_path", None}
  BY Names DEF get_hint_name, ImageData, ImagePath

(* No other hint goes by a name that an image's has had in some version.   *)
LEMMA NamesApart ==
    \A h \in OptionNames :
        h \notin {"image-data", "image_data", "icon_data", "image-path",
                  "image_path", None}
  BY ConstantsAssumption DEF OptionNames, OtherNames, ImageNames

LEMMA NamesAreDistinct ==
    ASSUME NEW v \in Versions, NEW g \in HintNames, NEW h \in HintNames,
           get_hint_name(g, v) = get_hint_name(h, v)
    PROVE  g = h
  <1>1. /\ g \in {ImageData, ImagePath} \cup OptionNames
        /\ h \in {ImageData, ImagePath} \cup OptionNames
    BY Names
  <1>2. \A o \in OptionNames : get_hint_name(o, v) = o
    BY SentNames
  <1>3. /\ get_hint_name(ImageData, v)
              \in {"image-data", "image_data", "icon_data"}
        /\ get_hint_name(ImagePath, v) \in {"image-path", "image_path", None}
        /\ None \notin {"image-data", "image_data", "icon_data"}
    BY SentNames, ConstantsAssumption DEF ImageNames
  <1>4. get_hint_name(ImageData, v) # get_hint_name(ImagePath, v)
    BY <1>3
  <1>5. CASE g \in OptionNames /\ h \in OptionNames
    BY <1>2, <1>5
  <1>6. \A o \in OptionNames : /\ o # get_hint_name(ImageData, v)
                              /\ o # get_hint_name(ImagePath, v)
    BY <1>3, NamesApart
  <1> QED BY <1>1, <1>2, <1>4, <1>5, <1>6

(* What is said under a name is what one hint is, or is added in the end.  *)
LEMMA SentIs ==
    ASSUME NEW v \in Versions, NEW p \in NotifyHints(v)
    PROVE  \/ \E h \in HintNames : /\ p = <<get_hint_name(h, v), hints[h]>>
                                   /\ hints[h] # None
                                   /\ get_hint_name(h, v) # None
           \/ p = <<"sender-pid", "pid">> /\ hints["sender-pid"] = None
           \/ p = <<"desktop-entry", TheProgram>> /\ hints["desktop-entry"] = None
  BY DEF NotifyHints, Sent

LEMMA HintIsSent ==
    ASSUME NEW v \in Versions, NEW h \in HintNames, hints[h] # None,
           get_hint_name(h, v) # None
    PROVE  <<get_hint_name(h, v), hints[h]>> \in NotifyHints(v)
  BY DEF NotifyHints, Sent

(* Under the name of an image's hint is that hint, and nothing else.       *)
LEMMA ImageHints ==
    ASSUME NEW v \in Versions, NEW h \in {ImageData, ImagePath},
           get_hint_name(h, v) # None
    PROVE  {p \in NotifyHints(v) : p[1] = get_hint_name(h, v)}
              = IF hints[h] = None THEN {}
                ELSE {<<get_hint_name(h, v), hints[h]>>}
  <1>1. get_hint_name(h, v) \notin {"sender-pid", "desktop-entry"}
    BY SentNames
  <1>2. h \in HintNames
    BY Names
  <1>3. ASSUME NEW p \in NotifyHints(v), p[1] = get_hint_name(h, v)
        PROVE  hints[h] # None /\ p = <<get_hint_name(h, v), hints[h]>>
    <2>1. PICK g \in HintNames : /\ p = <<get_hint_name(g, v), hints[g]>>
                                 /\ hints[g] # None
      BY <1>1, <1>3, SentIs
    <2>2. g = h
      BY <1>2, <1>3, <2>1, NamesAreDistinct
    <2> QED BY <2>1, <2>2
  <1>4. hints[h] # None =>
           <<get_hint_name(h, v), hints[h]>> \in NotifyHints(v)
    BY <1>2, HintIsSent
  <1> QED BY <1>3, <1>4

LEMMA HintsAreDistinctAlways == HintsAreDistinct
  <1> SUFFICES ASSUME NEW v \in Versions
               PROVE  LET sent == NotifyHints(v)
                          known == {KnownAs(ImageData, v), KnownAs(ImagePath, v)}
                      IN /\ \A p, q \in sent : p[1] = q[1] => p = q
                         /\ \A p \in sent : p[1] \in ImageNames => p[1] \in known
                         /\ \A h \in OtherNames \cup CustomHints :
                               hints[h] # None => <<h, hints[h]>> \in sent
    BY DEF HintsAreDistinct
  <1>2. ASSUME NEW h \in HintNames, get_hint_name(h, v) # None
        PROVE  /\ get_hint_name(h, v) = "sender-pid" => h = "sender-pid"
               /\ get_hint_name(h, v) = "desktop-entry" => h = "desktop-entry"
               /\ get_hint_name(h, v) \in ImageNames =>
                     h \in {ImageData, ImagePath}
    <2>1. h \in {ImageData, ImagePath} \cup OptionNames
      BY Names
    <2> QED BY <1>2, <2>1, SentNames, NamesApart DEF ImageNames
  <1>3. ASSUME NEW p \in NotifyHints(v), NEW q \in NotifyHints(v), p[1] = q[1]
        PROVE  p = q
    <2>1. CASE \E h \in HintNames : /\ p = <<get_hint_name(h, v), hints[h]>>
                                     /\ hints[h] # None
                                     /\ get_hint_name(h, v) # None
      <3>1. PICK h \in HintNames : /\ p = <<get_hint_name(h, v), hints[h]>>
                                   /\ hints[h] # None
                                   /\ get_hint_name(h, v) # None
        BY <2>1
      <3>2. q[1] = "sender-pid" => hints["sender-pid"] # None
        BY <1>2, <1>3, <3>1
      <3>3. q[1] = "desktop-entry" => hints["desktop-entry"] # None
        BY <1>2, <1>3, <3>1
      <3>4. PICK g \in HintNames : q = <<get_hint_name(g, v), hints[g]>>
        BY <3>2, <3>3, SentIs
      <3> QED BY <1>3, <3>1, <3>4, NamesAreDistinct
    <2>2. CASE p = <<"sender-pid", "pid">> /\ hints["sender-pid"] = None
      <3>1. q = <<"sender-pid", "pid">>
        BY <1>2, <1>3, <2>2, SentIs
      <3> QED BY <2>2, <3>1
    <2>3. CASE /\ p = <<"desktop-entry", TheProgram>>
               /\ hints["desktop-entry"] = None
      <3>1. q = <<"desktop-entry", TheProgram>>
        BY <1>2, <1>3, <2>3, SentIs
      <3> QED BY <2>3, <3>1
    <2> QED BY <2>1, <2>2, <2>3, SentIs
  <1>4. ASSUME NEW p \in NotifyHints(v), p[1] \in ImageNames
        PROVE  p[1] \in {KnownAs(ImageData, v), KnownAs(ImagePath, v)}
    <2>1. PICK h \in HintNames : /\ p = <<get_hint_name(h, v), hints[h]>>
                                 /\ get_hint_name(h, v) # None
      BY <1>4, SentIs DEF ImageNames
    <2> QED BY <1>2, <1>4, <2>1, VersionNumbers
  <1>5. ASSUME NEW h \in OptionNames, hints[h] # None
        PROVE  <<h, hints[h]>> \in NotifyHints(v)
    <2>1. get_hint_name(h, v) = h /\ h # None /\ h \in HintNames
      BY SentNames, NamesApart, Names
    <2> QED BY <1>5, <2>1, HintIsSent
  <1> QED BY <1>3, <1>4, <1>5 DEF OptionNames

(* No name is sent twice, and an image's hint goes by the name that the    *)
(* daemon's version of the specification has for it.                       *)
THEOREM HintsAreSentOnce == Spec => []HintsAreDistinct
  BY HintsAreDistinctAlways, PTL

-----------------------------------------------------------------------------
LEMMA ImageReaches == ImageInv => ImageIsSent
  <1> SUFFICES ASSUME ImageInv PROVE ImageIsSent
    OBVIOUS
  <1> USE DEF ImageInv
  <1>1. given_icon \in Icons \cup {None} /\ Place(None) = None
    BY ConstantsAssumption DEF ImageTypes, Place
  <1>2. given_icon # None => /\ Place(given_icon) \in Icons
                             /\ Place(given_icon) # None
                             /\ Place(given_icon) # SnapPath
    BY <1>1, Places
  <1>3. ASSUME server = "daemon", "hints" \notin Environment,
               NEW v \in Versions
        PROVE  IconReaches(v)
    <2> SUFFICES ASSUME given_icon # None \/ ~ snap
                 PROVE  IF KnownAs(ImagePath, v) = None
                        THEN NotifyIcon(v) = IF app_icon = None
                                             THEN Place(given_icon)
                                             ELSE app_icon
                        ELSE /\ NotifyIcon(v) = app_icon
                             /\ {h \in NotifyHints(v) :
                                    h[1] = KnownAs(ImagePath, v)}
                                   = IF given_icon = None THEN {}
                                     ELSE {<<KnownAs(ImagePath, v),
                                             Place(given_icon)>>}
      BY DEF IconReaches
    <2>1. icon_name = Place(given_icon) /\ hints[ImagePath] = Place(given_icon)
      BY <1>3 DEF IconInv
    <2>2. hints[ImagePath] = None <=> given_icon = None
      BY <1>1, <1>2, <2>1
    <2>3. CASE KnownAs(ImagePath, v) = None
      BY <2>1, <2>3, VersionNumbers DEF NotifyIcon
    <2>4. CASE KnownAs(ImagePath, v) # None
      <3>1. NotifyIcon(v) = app_icon
        BY <2>4, VersionNumbers DEF NotifyIcon
      <3>2. get_hint_name(ImagePath, v) = KnownAs(ImagePath, v)
        BY VersionNumbers
      <3>3. {h \in NotifyHints(v) : h[1] = KnownAs(ImagePath, v)}
               = IF hints[ImagePath] = None THEN {}
                 ELSE {<<KnownAs(ImagePath, v), hints[ImagePath]>>}
        BY <2>4, <3>2, ImageHints
      <3> QED BY <2>1, <2>2, <2>4, <3>1, <3>3
    <2> QED BY <2>3, <2>4
  <1>4. ASSUME server = "daemon", "hints" \notin Environment,
               NEW v \in Versions
        PROVE  PixbufReaches(v)
    <2>1. hints[ImageData] = given_pixbuf
      BY <1>4 DEF PixbufInv
    <2>2. get_hint_name(ImageData, v) = KnownAs(ImageData, v)
      BY VersionNumbers
    <2>3. get_hint_name(ImageData, v) # None
      BY SentNames, ConstantsAssumption DEF ImageNames
    <2> QED BY <2>1, <2>2, <2>3, ImageHints DEF PixbufReaches
  <1>5. ASSUME "early" \notin Environment
        PROVE  PortalIconIsShown
    <2>1. _notify_uses_portal_notifications => icon_pixbuf = given_pixbuf
      BY <1>5 DEF PixbufInv, _notify_uses_portal_notifications
    <2>2. PixbufIsShown
      BY <2>1 DEF PixbufIsShown, get_notification_gicon
    <2>3. ASSUME _notify_uses_portal_notifications, given_pixbuf = None,
                 given_icon # None \/ ~ snap
          PROVE  get_notification_gicon = IF Place(given_icon) \in Unreadable
                                          THEN "error" ELSE Place(given_icon)
      <3>1. icon_pixbuf = None /\ icon_name = Place(given_icon)
        BY <2>1, <2>3 DEF IconInv
      <3>2. Place(given_icon) # SnapPath
        BY <1>1, <1>2, ConstantsAssumption
      <3> QED BY <3>1, <3>2 DEF get_notification_gicon
    <2> QED BY <2>2, <2>3 DEF PortalIconIsShown
  <1> QED BY <1>3, <1>4, <1>5 DEF ImageIsSent

(* The last icon and the last pixbuf reach a daemon of any version, by the *)
(* name its version has for them, and the portal.                          *)
THEOREM ImagesReachTheServer == Spec => []ImageIsSent
  <1>1. SendInit => ArgsInv /\ ImageInv
    BY ArgsInit, ImageInit
  <1>2. ArgsInv /\ ImageInv /\ [Next]_vars => (ArgsInv /\ ImageInv)'
    BY ArgsNext, ImageNext
  <1>3. ArgsInv /\ ImageInv => ImageIsSent
    BY ImageReaches
  <1> QED BY <1>1, <1>2, <1>3, PTL DEF Spec

-----------------------------------------------------------------------------
(***************************************************************************)
(* Types, and the actions of notify-send: those before the loop's counter  *)
(* are there, each under its name, or a later one is under that name.      *)
(***************************************************************************)
PcInv ==
    /\ pc \in {"application", "options", "hints", "actions", "show", "shown",
               "not shown", "aborted"}
    /\ hint_error \in BOOLEAN /\ show_error \in BOOLEAN

(* Every variable keeps its type: icons, pixbufs and the hints of them are *)
(* such, and actions are those of the application.                         *)
THEOREM TypeCorrect == Spec => []TypeOK
  <1>1. SendInit => ArgsInv /\ ActionsInv /\ ImageInv /\ PcInv
    BY ArgsInit, ActionsInit, ImageInit DEF SendInit, PcInv
  <1>2. ArgsInv /\ PcInv /\ [Next]_vars => PcInv'
    <2> SUFFICES ASSUME ArgsInv, PcInv, [Next]_vars PROVE PcInv'
      OBVIOUS
    <2> USE DEF PcInv
    <2>1. CASE ReadsOptions
      BY <2>1 DEF ReadsOptions, errorVars
    <2>2. CASE ReadsHint
      BY <2>2 DEF ReadsHint
    <2>3. CASE HintsAreRead
      BY <2>3 DEF HintsAreRead, errorVars
    <2>4. CASE ReadsAction
      BY <2>4 DEF ReadsAction, errorVars
    <2>5. CASE ActionsAreRead
      <3>1. args.capable \in BOOLEAN
        BY CommandLinesAssumption DEF ArgsInv
      <3> QED BY <2>5, <3>1 DEF ActionsAreRead
    <2>6. CASE Shows
      BY <2>6 DEF Shows, errorVars
    <2>7. CASE Application
      BY <2>7 DEF Application, errorVars
    <2>8. CASE UNCHANGED vars
      BY <2>8 DEF vars, errorVars
    <2> QED BY <2>1, <2>2, <2>3, <2>4, <2>5, <2>6, <2>7, <2>8 DEF Next, Main
  <1>3. ArgsInv /\ ActionsInv /\ ImageInv /\ PcInv => TypeOK
    BY DEF ArgsInv, ActionsInv, ActionInfo, ImageInv, ImageTypes, PcInv,
           ContentTypeOK, TypeOK
  <1>4. /\ ArgsInv /\ ActionsInv /\ ImageInv /\ PcInv /\ [Next]_vars
              => (ArgsInv /\ ActionsInv /\ ImageInv /\ PcInv)'
    BY <1>2, ArgsNext, ActionsNext, ImageNext
  <1> QED BY <1>1, <1>3, <1>4, PTL DEF Spec

(* The actions before the n-th are there.                                  *)
ReadTo(n) ==
    /\ \A j \in DOMAIN args.actions : j < n /\ args.actions[j] # "skip" =>
          \E k \in Found(Called(j)) : actions[k].cb >= j
    /\ \A k \in DOMAIN actions : /\ actions[k].cb \in 1 .. n - 1
                                 /\ actions[k].id = Called(actions[k].cb)

ReadInv ==
    /\ pc \in {"options", "hints"} => actions = << >>
    /\ pc = "actions" => i \in Nat \ {0} /\ ReadTo(i)
    /\ pc = "show" /\ args.capable => ActionsAreAsGiven

LEMMA ReadStays ==
    ASSUME NEW n, ReadTo(n), UNCHANGED <<actions, args>> PROVE ReadTo(n)'
  BY DEF ReadTo, Found, Called

LEMMA ActionIsRead ==
    ASSUME ActionsInv, ArgsInv, i \in Nat \ {0}, ReadTo(i),
           i \in DOMAIN args.actions, args.actions[i] # "skip",
           AddAction(NameOf(i), i), args' = args, i' = i + 1
    PROVE  ReadTo(i)'
  <1> DEFINE new == [id |-> NameOf(i), cb |-> i]
  <1>1. NameOf(i) \in ActionIds /\ i \in Callbacks /\ NameOf(i) = Called(i)
    BY NameIsId DEF NameOf, Called
  <1>2. /\ ActionsInv' /\ Len(actions') \in Nat \ {0}
        /\ actions'[Len(actions')] = new
        /\ \A j \in 1 .. Len(actions) : Spelt(actions[j]) # Caseless[NameOf(i)]
              => \E k \in 1 .. Len(actions') : actions'[k] = actions[j]
        /\ \A k \in 1 .. Len(actions') :
              \/ actions'[k] = new
              \/ \E j \in 1 .. Len(actions) : actions'[k] = actions[j]
    BY <1>1, AddActionKeeps
  <1>3. /\ actions \in Seq(ActionInfo) /\ DOMAIN actions = 1 .. Len(actions)
        /\ DOMAIN actions' = 1 .. Len(actions')
    BY <1>2 DEF ActionsInv
  <1>4. \A j : Called(j)' = Called(j)
    BY DEF Called
  <1>5. new.id = Called(i) /\ new.cb = i
    BY <1>1
  <1> HIDE DEF new
  <1>6. ASSUME NEW j \in DOMAIN args.actions, j < i + 1,
               args.actions[j] # "skip"
        PROVE  \E k \in Found(Called(j))' : actions'[k].cb >= j
    <2>1. j \in Nat
      <3>1. args \in CommandLines
        BY DEF ArgsInv
      <3> QED BY <3>1, CommandLinesAssumption
    <2>2. CASE Caseless[Called(j)] = Caseless[Called(i)]
      <3>1. Len(actions') \in DOMAIN actions' /\ actions'[Len(actions')] = new
        BY <1>2, <1>3
      <3>2. Len(actions') \in {k \in DOMAIN actions' :
                Caseless[actions'[k].id] = Caseless[Called(j)]}
        BY <1>5, <2>2, <3>1
      <3>3. Len(actions') \in Found(Called(j))'
        BY <1>4, <3>2 DEF Found
      <3>4. i >= j
        BY <1>6, <2>1
      <3> QED BY <1>5, <3>1, <3>3, <3>4
    <2>3. CASE Caseless[Called(j)] # Caseless[Called(i)]
      <3>1. j < i
        BY <1>6, <2>1, <2>3
      <3>2. PICK k \in Found(Called(j)) : actions[k].cb >= j
        BY <1>6, <3>1 DEF ReadTo
      <3>3. k \in 1 .. Len(actions) /\ Spelt(actions[k]) = Caseless[Called(j)]
        BY <1>3, <3>2 DEF Found, Spelt
      <3>4. PICK m \in 1 .. Len(actions') : actions'[m] = actions[k]
        BY <1>1, <1>2, <2>3, <3>3
      <3>5. m \in {n \in DOMAIN actions' :
                Caseless[actions'[n].id] = Caseless[Called(j)]}
        BY <1>3, <3>3, <3>4 DEF Spelt
      <3>6. m \in Found(Called(j))'
        BY <1>4, <3>5 DEF Found
      <3> QED BY <3>2, <3>4, <3>6
    <2> QED BY <2>2, <2>3
  <1>7. ASSUME NEW k \in DOMAIN actions'
        PROVE  /\ actions'[k].cb \in 1 .. (i + 1) - 1
               /\ actions'[k].id = Called(actions'[k].cb)
    <2>1. CASE actions'[k] = new
      BY <1>4, <1>5, <2>1
    <2>2. CASE \E j \in 1 .. Len(actions) : actions'[k] = actions[j]
      <3>1. PICK j \in DOMAIN actions : actions'[k] = actions[j]
        BY <1>3, <2>2
      <3>2. /\ actions[j].cb \in 1 .. i - 1
            /\ actions[j].id = Called(actions[j].cb)
        BY <3>1 DEF ReadTo
      <3> QED BY <1>4, <3>1, <3>2
    <2> QED BY <1>2, <1>3, <2>1, <2>2
  <1>8. \A k \in DOMAIN actions' :
           /\ actions'[k].cb \in 1 .. (i + 1) - 1
           /\ actions'[k].id = IF args'.actions[actions'[k].cb] = ""
                               THEN Numerals[actions'[k].cb]
                               ELSE args'.actions[actions'[k].cb]
    BY <1>7 DEF Called
  <1>9. /\ \A j \in DOMAIN args'.actions :
              j < i' /\ args'.actions[j] # "skip" =>
                 \E k \in Found(Called(j))' : actions'[k].cb >= j
        /\ \A k \in DOMAIN actions' : actions'[k].cb \in 1 .. i' - 1
    BY <1>6, <1>7
  <1> QED BY <1>8, <1>9 DEF ReadTo, Called

LEMMA ReadInit == SendInit => ReadInv
  BY DEF SendInit, Init, ReadInv

LEMMA ReadNext ==
    ArgsInv /\ ActionsInv /\ ReadInv /\ [Next]_vars => ReadInv'
  <1> SUFFICES ASSUME ArgsInv, ActionsInv, ReadInv, [Next]_vars PROVE ReadInv'
    OBVIOUS
  <1>1. CASE ReadsOptions
    BY <1>1 DEF ReadsOptions, ReadInv, actionVars
  <1>2. actions = << >> => ReadTo(1)
    <2>1. \A j \in DOMAIN args.actions : j \in Nat \ {0}
      <3>1. args \in CommandLines
        BY DEF ArgsInv
      <3>2. DOMAIN args.actions = 1 .. Len(args.actions)
            /\ Len(args.actions) \in Nat
        BY <3>1, CommandLinesAssumption
      <3> QED BY <3>2
    <2>2. \A j \in DOMAIN args.actions : ~ (j < 1)
      BY <2>1
    <2> QED BY <2>2 DEF ReadTo
  <1>3. CASE ReadsHint
    <2>1. actions' = actions /\ args' = args /\ actions = << >>
      BY <1>3 DEF ReadsHint, SetHint, contentVars, actionVars, ReadInv
    <2>2. ReadTo(1)'
      BY <1>2, <2>1, ReadStays
    <2>3. \/ pc' = "actions" /\ i' = 1
          \/ pc' \in {"hints", "aborted"}
      BY <1>3 DEF ReadsHint
    <2> QED BY <2>1, <2>2, <2>3 DEF ReadInv, ReadTo
  <1>4. CASE HintsAreRead
    <2>1. actions' = actions /\ args' = args /\ actions = << >>
      BY <1>4 DEF HintsAreRead, contentVars, actionVars, ReadInv
    <2>2. ReadTo(1)'
      BY <1>2, <2>1, ReadStays
    <2> QED BY <1>4, <2>2 DEF HintsAreRead, ReadInv, ReadTo
  <1>5. CASE ReadsAction
    <2>1. /\ i \in Nat \ {0} /\ ReadTo(i) /\ i \in DOMAIN args.actions
          /\ args' = args /\ i' = i + 1 /\ pc' = "actions"
      BY <1>5 DEF ReadsAction, ReadInv
    <2>2. CASE args.actions[i] = "skip"
      <3>1. actions' = actions
        BY <1>5, <2>2 DEF ReadsAction, contentVars, actionVars
      <3>2. ReadTo(i + 1)
        <4>1. \A j \in DOMAIN args.actions :
                 j < i + 1 /\ args.actions[j] # "skip" => j < i
          <5>1. args \in CommandLines
            BY DEF ArgsInv
          <5>2. \A j \in DOMAIN args.actions : j \in Nat
            BY <5>1, CommandLinesAssumption
          <5> QED BY <2>1, <2>2, <5>2
        <4>2. \A n : n \in 1 .. i - 1 => n \in 1 .. (i + 1) - 1
          BY <2>1
        <4> QED BY <2>1, <4>1, <4>2 DEF ReadTo
      <3>3. ReadTo(i)'
        BY <2>1, <3>1, <3>2 DEF ReadTo, Found, Called
      <3> QED BY <2>1, <3>3 DEF ReadInv
    <2>3. CASE args.actions[i] # "skip"
      <3>1. ReadTo(i)'
        BY <1>5, <2>1, <2>3, ActionIsRead DEF ReadsAction
      <3> QED BY <2>1, <3>1 DEF ReadInv
    <2> QED BY <2>2, <2>3
  <1>6. CASE ActionsAreRead
    <2>1. pc' = "show" /\ actions' = actions /\ args' = args
      BY <1>6 DEF ActionsAreRead, contentVars, actionVars
    <2>2. ASSUME args.capable PROVE ActionsAreAsGiven'
      <3>1. i \in Nat \ {0} /\ ReadTo(i) /\ i \notin DOMAIN args.actions
        BY <1>6, <2>2 DEF ActionsAreRead, ReadInv
      <3>2. \A j \in DOMAIN args.actions : j < i
        <4>1. args \in CommandLines
          BY DEF ArgsInv
        <4>2. DOMAIN args.actions = 1 .. Len(args.actions)
              /\ Len(args.actions) \in Nat
          BY <4>1, CommandLinesAssumption
        <4> QED BY <3>1, <4>2
      <3> QED BY <2>1, <3>1, <3>2 DEF ReadTo, ActionsAreAsGiven, Found, Called
    <2> QED BY <2>1, <2>2 DEF ReadInv
  <1>7. CASE Shows
    BY <1>7 DEF Shows, ReadInv
  <1>8. CASE Application
    BY <1>8 DEF Application, ReadInv
  <1>9. CASE UNCHANGED vars
    <2>1. UNCHANGED <<pc, i, args, actions>>
      BY <1>9 DEF vars, contentVars, actionVars
    <2> QED BY <2>1 DEF ReadInv, ReadTo, ActionsAreAsGiven, Found, Called
  <1> QED BY <1>1, <1>3, <1>4, <1>5, <1>6, <1>7, <1>8, <1>9 DEF Next, Main

(* When notify-send shows its notification, every action of the command    *)
(* line is there under its name or its number, or a later one is that was  *)
(* given the same; and no action goes by another's name.                   *)
THEOREM ActionsAreCalledAsGiven == Spec => []ActionsAreAsGiven
  <1>1. SendInit => ArgsInv /\ ActionsInv /\ ReadInv
    BY ArgsInit, ActionsInit, ReadInit
  <1>2. ArgsInv /\ ActionsInv /\ ReadInv /\ [Next]_vars
           => (ArgsInv /\ ActionsInv /\ ReadInv)'
    BY ArgsNext, ActionsNext, ReadNext
  <1>3. ReadInv => ActionsAreAsGiven
    BY DEF ReadInv, ActionsAreAsGiven
  <1> QED BY <1>1, <1>2, <1>3, PTL DEF Spec

-----------------------------------------------------------------------------
(***************************************************************************)
(* The hints of notify-send.  A hint that makes sense is read as what it   *)
(* means; a byte that no byte holds is refused.                            *)
(***************************************************************************)
LEMMA Small == \A n, m \in Nat : n < m => n % m = n
  OBVIOUS

LEMMA IntOf ==
    ASSUME NEW n \in Nat, n < IntSize
    PROVE  /\ n < WideSize
           /\ gint(n) = IF n < IntSize \div 2 THEN n ELSE n - IntSize
  <1>1. IntSize \in Nat /\ WideSize \in Nat /\ n < WideSize
    BY SizesAssumption
  <1>2. n % IntSize = n
    BY <1>1, Small
  <1> QED BY <1>1, <1>2 DEF gint

LEMMA SensibleIsMeant ==
    ASSUME NEW o, o.number \in Nat, Sensible(o)
    PROVE  HintVariant(o) = {Meant(o)}
  <1>0. /\ ByteSize \in Nat /\ IntSize \in Nat /\ WideSize \in Nat
        /\ ByteSize <= IntSize \div 2 /\ IntSize \div 2 <= IntSize
        /\ IntSize \div 2 \in Nat /\ WideSize >= 2
    BY SizesAssumption
  <1>1. CASE o.type = "string"
    BY <1>1 DEF HintVariant, Meant
  <1>2. CASE o.type = "int"
    <2>1. o.text = "number" /\ o.number < IntSize \div 2
      BY <1>2 DEF Sensible
    <2>2. gint(o.number) = o.number /\ o.number < WideSize
      BY <1>0, <2>1, IntOf
    <2>3. strtoull(o, FALSE) = o.number /\ Digits(o)
      BY <1>0, <2>1, <2>2 DEF strtoull, Digits
    <2> QED BY <1>2, <2>2, <2>3 DEF HintVariant, Meant
  <1>3. CASE o.type = "double"
    BY <1>3 DEF Sensible, HintVariant, Meant
  <1>4. CASE o.type = "byte"
    <2>1. o.text \in {"number", "hex"} /\ o.number < ByteSize
      BY <1>4 DEF Sensible, Digits
    <2>2. gint(o.number) = o.number /\ o.number < WideSize
      BY <1>0, <2>1, IntOf
    <2>3. strtoull(o, TRUE) = o.number
      BY <1>0, <2>1, <2>2 DEF strtoull
    <2>4. gint(strtoull(o, TRUE)) = o.number
      BY <2>2, <2>3
    <2>5. o.number \in 0 .. ByteSize - 1
      BY <1>0, <2>1
    <2>6. ByteOf(o) = {o.number}
      BY <2>4, <2>5 DEF ByteOf
    <2> QED BY <1>4, <2>6 DEF HintVariant, Meant
  <1>5. CASE o.type = "boolean"
    <2>1. o.text = "number"
      BY <1>5 DEF Sensible
    <2>3. CASE o.number >= WideSize
      <3>1. strtoull(o, FALSE) = WideSize - 1
        BY <2>1, <2>3 DEF strtoull
      <3>2. WideSize - 1 # 0 /\ o.number > 0
        BY <1>0, <2>3
      <3> QED BY <1>5, <2>1, <3>1, <3>2 DEF HintVariant, Meant, Digits
    <2>4. CASE ~ (o.number >= WideSize)
      <3>2. strtoull(o, FALSE) = o.number
        BY <2>1, <2>4 DEF strtoull
      <3>3. CASE o.number = 0
        BY <1>5, <2>1, <3>2, <3>3 DEF HintVariant, Meant, Digits
      <3>4. CASE o.number > 0
        <4>1. o.number # 0
          BY <3>4
        <4>2. HintVariant(o) = {[type |-> o.type, value |-> n] : n \in {1}}
          BY <1>5, <2>1, <3>2, <4>1 DEF HintVariant, Digits
        <4> QED BY <1>5, <3>4, <4>2 DEF Meant
      <3> QED BY <1>0, <3>3, <3>4
    <2> QED BY <2>3, <2>4
  <1>6. CASE o.type = "variant"
    <2>1. Digits(o) \/ o.text = "minus"
      BY <1>6 DEF Sensible
    <2>2. o.number < IntSize \div 2
      BY <1>6 DEF Sensible
    <2>3. Signed(o) \in Int32
      BY <1>0, <2>2 DEF Signed, Int32
    <2> QED BY <1>6, <2>1, <2>3 DEF HintVariant, Meant
  <1> QED BY <1>1, <1>2, <1>3, <1>4, <1>5, <1>6 DEF Sensible

NoByte(o) == /\ o.type = "byte" /\ o.text = "number"
             /\ o.number \in ByteSize .. IntSize - 1

LEMMA NoByteIsRefused ==
    ASSUME NEW o, NoByte(o) PROVE HintVariant(o) = {}
  <1>0. /\ ByteSize \in Nat /\ IntSize \in Nat /\ WideSize \in Nat
        /\ IntSize <= WideSize
    BY SizesAssumption
  <1>1. o.number \in Nat /\ o.number >= ByteSize /\ o.number < IntSize
    BY <1>0 DEF NoByte
  <1>2. /\ o.number < WideSize
        /\ gint(o.number) \in {o.number, o.number - IntSize}
    BY <1>1, IntOf
  <1>3. strtoull(o, TRUE) = o.number
    BY <1>0, <1>1, <1>2 DEF strtoull, NoByte
  <1>4. gint(o.number) \notin 0 .. ByteSize - 1
    BY <1>0, <1>1, <1>2
  <1>5. ByteOf(o) = {}
    BY <1>3, <1>4 DEF ByteOf
  <1> QED BY <1>5 DEF HintVariant, NoByte

(***************************************************************************)
(* HintsInv: of the hints before the loop's counter, the last of a name    *)
(* that makes sense is there as it is meant, and none was no byte.  The    *)
(* loop ends with all of them read, or at one that makes no sense.         *)
(***************************************************************************)
Option(j) == args.hints[j]
Before(name, n) ==
    {j \in DOMAIN args.hints : j < n /\ args.hints[j].name = name}
Last(j, name, n) ==
    j \in Before(name, n) /\ \A k \in Before(name, n) : k <= j

HintsTo(n) ==
    /\ \A name \in OptionNames :
          Before(name, n) # {} =>
             \E j \in Before(name, n) :
                /\ Last(j, name, n)
                /\ Sensible(Option(j)) => hints[name] = Meant(Option(j))
    /\ \A name \in OptionNames \ {"urgency"} :
          Before(name, n) = {} => hints[name] = None
    /\ Before("urgency", n) = {} => hints["urgency"] = Byte(args.urgency)
    /\ \A j \in DOMAIN args.hints : j < n => ~ NoByte(Option(j))

AllRead(n) == \A j \in DOMAIN args.hints : j < n

HintsInv ==
    /\ pc = "options" =>
          /\ \A name \in OptionNames \ {"urgency"} : hints[name] = None
          /\ i = 1 /\ ~ hint_error
    /\ pc = "hints" => i \in Nat \ {0} /\ HintsTo(i) /\ ~ hint_error
    /\ pc \in {"actions", "show"} =>
          /\ \E n \in Nat : HintsTo(n) /\ (hint_error \/ AllRead(n))
          /\ hint_error => \E j \in DOMAIN args.hints : ~ Sensible(Option(j))

LEMMA OptionType ==
    ASSUME ArgsInv
    PROVE  /\ DOMAIN args.hints = 1 .. Len(args.hints) /\ Len(args.hints) \in Nat
           /\ args.urgency \in 0 .. 2
           /\ \A j \in DOMAIN args.hints :
                 /\ j \in Nat \ {0} /\ Option(j).number \in Nat
                 /\ Option(j).name \in OptionNames \cup {""}
  <1>1. args \in CommandLines
    BY DEF ArgsInv
  <1>2. /\ DOMAIN args.hints = 1 .. Len(args.hints) /\ Len(args.hints) \in Nat
        /\ args.urgency \in 0 .. 2
        /\ \A j \in DOMAIN args.hints :
              /\ args.hints[j].name \in OptionNames \cup {""}
              /\ args.hints[j].number \in Nat
    BY <1>1, CommandLinesAssumption
  <1>3. \A j \in DOMAIN args.hints : j \in Nat \ {0}
    <2>1. DOMAIN args.hints = 1 .. Len(args.hints) /\ Len(args.hints) \in Nat
      BY <1>2
    <2> QED BY <2>1
  <1> QED BY <1>2, <1>3 DEF Option

(* Where neither hints nor the command line change, what was read stays.   *)
LEMMA HintsToStay ==
    ASSUME UNCHANGED <<hints, args>>, NEW n, HintsTo(n) PROVE HintsTo(n)'
  BY DEF HintsTo, Before, Last, Option

LEMMA FirstHint ==
    ASSUME ArgsInv
    PROVE  /\ \A name : Before(name, 1) = {}
           /\ \A j \in DOMAIN args.hints : ~ (j < 1)
  <1>1. \A j \in DOMAIN args.hints : ~ (j < 1)
    <2>1. \A j \in DOMAIN args.hints : j \in Nat \ {0}
      BY OptionType
    <2> QED BY <2>1
  <1> QED BY <1>1 DEF Before

(* One more hint is read: of its name it is the last, of others nothing    *)
(* changes.                                                                *)
LEMMA NextHint ==
    ASSUME ArgsInv, NEW m \in Nat \ {0}, HintsTo(m), m \in DOMAIN args.hints,
           NEW values, ~ NoByte(Option(m)),
           \A name \in OptionNames :
              values[name] =
                 IF Option(m).name = name /\ Sensible(Option(m))
                 THEN Meant(Option(m))
                 ELSE IF Option(m).name = name THEN values[name]
                 ELSE hints[name]
    PROVE  /\ \A name \in OptionNames :
                 Before(name, m + 1) # {} =>
                    \E j \in Before(name, m + 1) :
                       /\ Last(j, name, m + 1)
                       /\ Sensible(Option(j)) => values[name] = Meant(Option(j))
           /\ \A name \in OptionNames \ {"urgency"} :
                 Before(name, m + 1) = {} => values[name] = None
           /\ Before("urgency", m + 1) = {}
                 => values["urgency"] = Byte(args.urgency)
           /\ \A j \in DOMAIN args.hints : j < m + 1 => ~ NoByte(Option(j))
  <1>1. \A j \in DOMAIN args.hints :
           /\ j < m + 1 <=> j < m \/ j = m
           /\ j < m + 1 => j <= m
    <2>1. \A j \in DOMAIN args.hints : j \in Nat \ {0}
      BY OptionType
    <2> QED BY <2>1
  <1>2. ASSUME NEW name
        PROVE  Before(name, m + 1) =
                   IF Option(m).name = name THEN Before(name, m) \cup {m}
                   ELSE Before(name, m)
    BY <1>1 DEF Before, Option
  <1>3. ASSUME NEW name \in OptionNames, Before(name, m + 1) # {}
        PROVE  \E j \in Before(name, m + 1) :
                  /\ Last(j, name, m + 1)
                  /\ Sensible(Option(j)) => values[name] = Meant(Option(j))
    <2>1. CASE Option(m).name = name
      <3>1. m \in Before(name, m + 1)
        BY <1>2, <2>1
      <3>2. \A k \in Before(name, m + 1) : k <= m
        BY <1>1 DEF Before
      <3>3. Sensible(Option(m)) => values[name] = Meant(Option(m))
        BY <2>1
      <3> QED BY <3>1, <3>2, <3>3 DEF Last
    <2>2. CASE Option(m).name # name
      <3>1. Before(name, m + 1) = Before(name, m) /\ values[name] = hints[name]
        BY <1>2, <2>2
      <3>2. PICK j \in Before(name, m) :
               /\ Last(j, name, m)
               /\ Sensible(Option(j)) => hints[name] = Meant(Option(j))
        BY <1>3, <3>1 DEF HintsTo
      <3> QED BY <3>1, <3>2 DEF Last
    <2> QED BY <2>1, <2>2
  <1>4. ASSUME NEW name \in OptionNames, Before(name, m + 1) = {}
        PROVE  Before(name, m) = {} /\ values[name] = hints[name]
    BY <1>2, <1>4
  <1>5. /\ \A name \in OptionNames \ {"urgency"} :
              Before(name, m + 1) = {} => values[name] = None
        /\ Before("urgency", m + 1) = {}
              => values["urgency"] = Byte(args.urgency)
    BY <1>4, Names DEF HintsTo
  <1>6. \A j \in DOMAIN args.hints : j < m + 1 => ~ NoByte(Option(j))
    BY <1>1 DEF HintsTo
  <1> QED BY <1>3, <1>5, <1>6

LEMMA HintsInit == SendInit => HintsInv
  BY Names DEF SendInit, Init, HintsInv

LEMMA HintsNext ==
    ArgsInv /\ ImageInv /\ HintsInv /\ [Next]_vars => HintsInv'
  <1> SUFFICES ASSUME ArgsInv, ImageInv, HintsInv, [Next]_vars
               PROVE  HintsInv'
    OBVIOUS
  <1>0. DOMAIN hints = HintNames
    BY DEF ImageInv, ImageTypes
  <1>1. CASE ReadsOptions
    <2>1. /\ hints' = [hints EXCEPT ![ImagePath] = args.icon,
                                    !["urgency"] = Byte(args.urgency)]
          /\ args' = args /\ i' = i /\ hint_error' = hint_error
          /\ pc = "options" /\ pc' = "hints"
      BY <1>1 DEF ReadsOptions, errorVars
    <2>2. /\ \A name \in OptionNames \ {"urgency"} : hints[name] = None
          /\ i = 1 /\ ~ hint_error
      BY <2>1 DEF HintsInv
    <2>3. /\ \A name \in OptionNames \ {"urgency"} : hints'[name] = None
          /\ hints'["urgency"] = Byte(args.urgency)
      BY <1>0, <2>1, <2>2, Names
    <2>4. HintsTo(i)'
      <3>1. \A j \in DOMAIN args'.hints : ~ (j < i')
        BY <2>1, <2>2, FirstHint
      <3>2. \A name : Before(name, i)' = {}
        BY <3>1 DEF Before
      <3> QED BY <2>1, <2>3, <3>1, <3>2 DEF HintsTo
    <2> QED BY <2>1, <2>2, <2>4 DEF HintsInv
  <1>2. CASE ReadsHint
    <2>1. /\ pc = "hints" /\ i \in DOMAIN args.hints /\ args' = args
          /\ i \in Nat \ {0} /\ HintsTo(i) /\ ~ hint_error
      BY <1>2 DEF ReadsHint, HintsInv
    <2>2. PICK m \in Nat \ {0} : m = i
      BY <2>1
    <2>3. /\ m \in DOMAIN args.hints /\ HintsTo(m) /\ Option(m) = args.hints[i]
          /\ Option(m).number \in Nat
      BY <2>1, <2>2, OptionType DEF Option
    <2> DEFINE o == Option(m)
    <2>4. CASE /\ HintVariant(o) = {} /\ hint_error' = TRUE
               /\ pc' = "actions" /\ i' = 1 /\ UNCHANGED contentVars
      <3>1. HintsTo(m)'
        BY <2>1, <2>3, <2>4, HintsToStay DEF contentVars
      <3>2. ~ Sensible(o)
        <4>1. o.number \in Nat /\ HintVariant(o) # {Meant(o)}
          BY <2>3, <2>4
        <4> QED BY <4>1, SensibleIsMeant
      <3>3. \E j \in DOMAIN args'.hints : ~ Sensible(Option(j))'
        BY <2>1, <2>3, <3>2 DEF Option
      <3> QED BY <2>4, <3>1, <3>3 DEF HintsInv
    <2>5. CASE /\ o.type = "string" /\ o.text = "empty"
               /\ i' = i + 1 /\ UNCHANGED <<contentVars, hint_error, pc>>
      <3>1. ~ NoByte(o) /\ ~ Sensible(o)
        BY <2>5 DEF NoByte, Sensible
      <3>2. hints' = hints
        BY <2>5 DEF contentVars
      <3>3. HintsTo(m + 1)
        <4> HIDE DEF o
        <4>1. \A name \in OptionNames :
                 hints[name] = IF Option(m).name = name /\ Sensible(Option(m))
                               THEN Meant(Option(m))
                               ELSE IF Option(m).name = name THEN hints[name]
                               ELSE hints[name]
          BY <3>1 DEF o
        <4>2. ~ NoByte(Option(m))
          BY <3>1 DEF o
        <4> QED BY <2>3, <4>1, <4>2, NextHint DEF HintsTo
      <3>4. HintsTo(i)'
        BY <2>1, <2>2, <2>5, <3>2, <3>3 DEF HintsTo, Before, Last, Option
      <3>5. i' \in Nat \ {0} /\ pc' = "hints" /\ ~ hint_error'
        BY <2>1, <2>5
      <3> QED BY <3>4, <3>5 DEF HintsInv
    <2>6. ASSUME NEW value \in HintVariant(o), i' = i + 1,
                 UNCHANGED hint_error,
                 IF o.name = "" THEN pc' = "aborted" /\ UNCHANGED contentVars
                                ELSE SetHint(o.name, value) /\ UNCHANGED pc
          PROVE  HintsInv'
      <3>1. CASE o.name = ""
        BY <2>6, <3>1 DEF HintsInv
      <3>2. CASE o.name # ""
        <4>1. o.name \in OptionNames /\ o.name \in HintNames
          BY <2>3, <3>2, OptionType, Names
        <4>2. Parsed(o.name, value) = value
          <5>1. o.name # ImagePath /\ ~ snap
            BY <2>1, <4>1, Names DEF ArgsInv
          <5> QED BY <5>1 DEF Parsed, try_prepend_snap_desktop
        <4>3. /\ hints'[o.name] = value
              /\ \A h \in HintNames \ {o.name} : hints'[h] = hints[h]
          <5>1. set_hint(o.name, value)
            BY <2>6, <3>2 DEF SetHint
          <5> QED BY <1>0, <4>1, <4>2, <5>1, HintSet
        <4>4. ~ NoByte(o) /\ (Sensible(o) => value = Meant(o))
          BY <2>3, <2>6, NoByteIsRefused, SensibleIsMeant
        <4>5. \A name \in OptionNames :
                 hints'[name] = IF Option(m).name = name /\ Sensible(Option(m))
                                THEN Meant(Option(m))
                                ELSE IF Option(m).name = name THEN hints'[name]
                                ELSE hints[name]
          BY <4>3, <4>4, Names
        <4>6. /\ \A name \in OptionNames :
                    Before(name, m + 1) # {} =>
                       \E j \in Before(name, m + 1) :
                          /\ Last(j, name, m + 1)
                          /\ Sensible(Option(j))
                                => hints'[name] = Meant(Option(j))
              /\ \A name \in OptionNames \ {"urgency"} :
                    Before(name, m + 1) = {} => hints'[name] = None
              /\ Before("urgency", m + 1) = {}
                    => hints'["urgency"] = Byte(args.urgency)
              /\ \A j \in DOMAIN args.hints : j < m + 1 => ~ NoByte(Option(j))
          <5>1. ~ NoByte(Option(m))
            BY <4>4
          <5> HIDE DEF o
          <5> QED BY <2>3, <4>5, <5>1, NextHint
        <4>7. HintsTo(i)'
          BY <2>1, <2>2, <2>6, <4>6 DEF HintsTo, Before, Last, Option
        <4>8. i' \in Nat \ {0} /\ pc' = "hints" /\ ~ hint_error'
          <5>1. pc' = pc
            BY <2>6, <3>2
          <5>2. i' = i + 1 /\ hint_error' = hint_error
            BY <2>6
          <5> QED BY <2>1, <5>1, <5>2
        <4> QED BY <4>7, <4>8 DEF HintsInv
      <3> QED BY <3>1, <3>2
    <2> QED BY <1>2, <2>3, <2>4, <2>5, <2>6 DEF ReadsHint
  <1>3. CASE HintsAreRead
    <2>1. /\ pc = "hints" /\ i \notin DOMAIN args.hints /\ pc' = "actions"
          /\ args' = args /\ hints' = hints /\ hint_error' = hint_error
          /\ i \in Nat \ {0} /\ HintsTo(i) /\ ~ hint_error
      BY <1>3 DEF HintsAreRead, HintsInv, contentVars, errorVars
    <2>2. PICK m \in Nat \ {0} : m = i
      BY <2>1
    <2>3. HintsTo(m)'
      BY <2>1, <2>2, HintsToStay
    <2>4. AllRead(m)'
      <3>1. DOMAIN args.hints = 1 .. Len(args.hints) /\ Len(args.hints) \in Nat
        BY OptionType
      <3>2. \A j \in DOMAIN args.hints : j < m
        BY <2>1, <2>2, <3>1
      <3> QED BY <2>1, <3>2 DEF AllRead
    <2> QED BY <2>1, <2>3, <2>4 DEF HintsInv
  <1>4. ASSUME UNCHANGED <<hints, args, hint_error>>,
               pc \in {"actions", "show"}, pc' \in {"actions", "show"}
        PROVE  HintsInv'
    <2>1. PICK n \in Nat : HintsTo(n) /\ (hint_error \/ AllRead(n))
      BY <1>4 DEF HintsInv
    <2>2. HintsTo(n)'
      BY <1>4, <2>1, HintsToStay
    <2>3. hint_error' \/ AllRead(n)'
      BY <1>4, <2>1 DEF AllRead
    <2>4. hint_error' => \E j \in DOMAIN args'.hints : ~ Sensible(Option(j))'
      BY <1>4 DEF HintsInv, Option
    <2> QED BY <1>4, <2>2, <2>3, <2>4 DEF HintsInv
  <1>5. CASE ReadsAction
    BY <1>4, <1>5 DEF ReadsAction, AddAction, contentVars, errorVars
  <1>6. CASE ActionsAreRead
    BY <1>4, <1>6 DEF ActionsAreRead, contentVars
  <1>7. CASE Shows
    BY <1>7 DEF Shows, HintsInv
  <1>8. CASE Application
    BY <1>8 DEF Application, HintsInv
  <1>9. CASE UNCHANGED vars
    <2>1. UNCHANGED <<hints, args, hint_error, pc, i>>
      BY <1>9 DEF vars, contentVars, errorVars
    <2>2. CASE pc \in {"actions", "show"}
      BY <1>4, <2>1, <2>2
    <2>3. CASE pc = "hints"
      BY <2>1, <2>3 DEF HintsInv, HintsTo, Before, Last, Option
    <2>4. CASE pc \notin {"actions", "show", "hints"}
      BY <2>1, <2>4 DEF HintsInv
    <2> QED BY <2>2, <2>3, <2>4
  <1> QED BY <1>1, <1>2, <1>3, <1>5, <1>6, <1>7, <1>8, <1>9 DEF Next, Main

LEMMA HintsAreTaken == ArgsInv /\ HintsInv => HintsAreAsGiven
  <1> SUFFICES ASSUME ArgsInv, HintsInv, pc = "show" PROVE HintsAreAsGiven
    BY DEF HintsAreAsGiven
  <1>1. PICK n \in Nat : HintsTo(n) /\ (hint_error \/ AllRead(n))
    BY DEF HintsInv
  <1>2. hint_error => \E j \in DOMAIN args.hints : ~ Sensible(args.hints[j])
    BY DEF HintsInv, Option
  <1>3. ASSUME ~ hint_error, NEW name \in OptionNames, Named(name) # {},
               Sensible(LastNamed(name))
        PROVE  hints[name] = Meant(LastNamed(name))
    <2>1. Before(name, n) = Named(name)
      BY <1>1, <1>3 DEF AllRead, Before, Named
    <2>2. PICK j \in Named(name) :
             /\ \A k \in Named(name) : k <= j
             /\ Sensible(Option(j)) => hints[name] = Meant(Option(j))
      BY <1>1, <1>3, <2>1 DEF HintsTo, Last
    <2>3. \A k \in Named(name) : k \in Nat
      BY OptionType DEF Named
    <2>4. \A l \in Named(name) : (\A k \in Named(name) : k <= l) => l = j
      BY <2>2, <2>3
    <2>5. (CHOOSE l \in Named(name) : \A k \in Named(name) : k <= l) = j
      BY <2>2, <2>4
    <2>6. LastNamed(name) = Option(j)
      BY <2>5 DEF LastNamed, Option
    <2> QED BY <1>3, <2>2, <2>6
  <1>4. ASSUME NEW name, Named(name) = {} PROVE Before(name, n) = {}
    BY <1>4 DEF Before, Named
  <1>5. \A name \in OptionNames \ {"urgency"} :
           Named(name) = {} => hints[name] = None
    BY <1>1, <1>4 DEF HintsTo
  <1>6. ASSUME Named("urgency") = {}
        PROVE  /\ hints["urgency"] = Byte(args.urgency)
               /\ Priority = <<"low", "normal", "urgent">>[args.urgency + 1]
    <2>1. hints["urgency"] = Byte(args.urgency)
      BY <1>1, <1>4, <1>6 DEF HintsTo
    <2>2. args.urgency \in 0 .. 2
      BY OptionType
    <2>3. Byte(args.urgency) # None
      BY <2>2, CommandLinesAssumption
    <2>4. Priority = IF args.urgency = 0 THEN "low"
                     ELSE IF args.urgency = 1 THEN "normal" ELSE "urgent"
      BY <2>1, <2>2, <2>3 DEF Priority, Byte
    <2>5. args.urgency = 0 \/ args.urgency = 1 \/ args.urgency = 2
      BY <2>2
    <2> QED BY <2>1, <2>4, <2>5
  <1>7. ASSUME NEW j \in DOMAIN args.hints, NoByte(Option(j))
        PROVE  hint_error
    BY <1>1, <1>7 DEF AllRead, HintsTo
  <1>8. \A j \in DOMAIN args.hints :
           args.hints[j].type = "byte" /\ args.hints[j].text = "number"
              /\ args.hints[j].number \in ByteSize .. IntSize - 1 => hint_error
    BY <1>7 DEF NoByte, Option
  <1> QED BY <1>2, <1>3, <1>5, <1>6, <1>8 DEF HintsAreAsGiven

(* When notify-send shows its notification, the last hint of each name is  *)
(* there as it was meant, unless there was one that makes no sense; a byte *)
(* out of range is refused; the portal is told of the urgency.             *)
THEOREM HintsAreReadAsGiven == Spec => []HintsAreAsGiven
  <1>1. SendInit => ArgsInv /\ ImageInv /\ HintsInv
    BY ArgsInit, ImageInit, HintsInit
  <1>2. ArgsInv /\ ImageInv /\ HintsInv /\ [Next]_vars
           => (ArgsInv /\ ImageInv /\ HintsInv)'
    BY ArgsNext, ImageNext, HintsNext
  <1>3. ArgsInv /\ HintsInv => HintsAreAsGiven
    BY HintsAreTaken
  <1> QED BY <1>1, <1>2, <1>3, PTL DEF Spec
=============================================================================

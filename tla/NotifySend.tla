----------------------------- MODULE NotifySend -----------------------------
(***************************************************************************)
(* tools/notify-send.c: several runs of the notify-send program, each with *)
(* its command line, its main loop and its notification, and the server    *)
(* they share (the daemon or, in a sandbox, the desktop portal).           *)
(*                                                                         *)
(* A run asks for the server's information, which makes it hear the        *)
(* server's signals from then on; shows its notification; and, if it is to *)
(* wait, enters the main loop, where the signals that came meanwhile are   *)
(* handled, until something quits the loop.                                *)
(*                                                                         *)
(* The daemon's signals reach every run, the portal's the one that added   *)
(* the notification.  Init picks whether the runs are confined, and        *)
(* Environment, what may happen beyond the ordinary:                       *)
(*   "fail"      calls fail or time out, the server has no actions, hints  *)
(*               are bad                                                   *)
(*   "renumbers" the daemon gives a notification that replaces a closed one*)
(*               a new id; else it does what the specification says, "the  *)
(*               returned value is the same value as replaces_id"          *)
(***************************************************************************)
EXTENDS Integers, Sequences

CONSTANTS
    Procs,        \* the runs of the program
    Portals,      \* whether they may be confined: values of Portal
    CommandLines, \* what they may be called with
    Environments, \* see above
    MaxId,        \* bound: ids the server allocates
    MaxQueue,     \* bound: signals a run has not taken when the daemon's
                  \* notification is activated once more
    None

Ids == 1 .. MaxId
NOTIFY_EXPIRES_DEFAULT == -1      \* without the option
NOTIFY_EXPIRES_NEVER == 0

(* main ()'s options; 0 is the notification_id of no --replace-id.  With   *)
(* them, whether the server will say that it has actions.                  *)
CommandLine == [wait : BOOLEAN, actions : BOOLEAN, badHint : BOOLEAN,
                expire_timeout : Nat \cup {NOTIFY_EXPIRES_DEFAULT},
                notification_id : 0 .. MaxId, capable : BOOLEAN]

ASSUME ConstantsAssumption ==
    /\ MaxId \in Nat \ {0} /\ MaxQueue \in Nat /\ None \notin Procs
    /\ Portals \subseteq BOOLEAN
    /\ CommandLines \subseteq CommandLine
    /\ Environments \subseteq SUBSET {"fail", "renumbers"}

Closed  == [kind : {"NotificationClosed"}, id : Ids]
Invoked == [kind : {"ActionInvoked"}, id : Ids]

VARIABLES
    pc,          \* start | options | shown | loop | exited
    args,        \* the command line
    wait,        \* what has become of --wait
    failed,      \* hint_error or show_error: the exit status
    timer,       \* on_wait_timeout is armed
    id, closed,  \* the notification: its id, closed_reason is set ...
    connected,   \* ... its "g-signal" handler is connected ...
    portal_timeout_id, \* ... and its timer is armed
    quit,        \* g_main_loop_quit () was called
    reason,      \* why, first: closed | timeout | sigint
    queue,       \* the signals a run's main loop has not taken
    displayed,   \* the server: the run whose notification has an id
    nextId,
    crossed,     \* history: the runs that were shown under an id whose last
                 \* close was still in their queue
    Portal, Environment  \* never changed

given     == <<args, Portal, Environment>>
sendVars  == <<given, crossed, wait, failed>>
noteVars  == <<id, closed, connected, portal_timeout_id>>
loopVars  == <<timer, quit, reason>>
serverVars == <<displayed, nextId>>
vars == <<pc, sendVars, noteVars, loopVars, queue, serverVars>>

Init ==
    /\ pc = [p \in Procs |-> "start"]
    /\ Portal \in Portals /\ Environment \in Environments
    /\ args \in [Procs -> {a \in CommandLines :
                              a.badHint \/ (a.actions /\ ~ a.capable)
                                  => "fail" \in Environment}]
    /\ wait = [p \in Procs |-> FALSE] /\ failed = [p \in Procs |-> FALSE]
    /\ timer = [p \in Procs |-> FALSE]
    /\ id = [p \in Procs |-> 0] /\ closed = [p \in Procs |-> FALSE]
    /\ connected = [p \in Procs |-> FALSE]
    /\ portal_timeout_id = [p \in Procs |-> FALSE]
    /\ quit = [p \in Procs |-> FALSE] /\ reason = [p \in Procs |-> "none"]
    /\ queue = [p \in Procs |-> << >>]
    /\ displayed = [i \in Ids |-> None] /\ nextId = 1 /\ crossed = {}

(***************************************************************************)
(* The server's signals.                                                   *)
(***************************************************************************)
Hearing == {p \in Procs : pc[p] \notin {"start", "exited"}}

Broadcast(signals) ==
    queue' = [p \in Procs |->
                 IF p \in Hearing THEN queue[p] \o signals ELSE queue[p]]

(* The daemon takes i off the screen, after the signals before it.         *)
Hides(i, before) ==
    /\ displayed' = [displayed EXCEPT ![i] = None]
    /\ Broadcast(Append(before, [kind |-> "NotificationClosed", id |-> i]))

(***************************************************************************)
(* Up to the main loop.                                                    *)
(***************************************************************************)
(* The actions the notification is given. *)
HasActions(p) == args[p].actions /\ args[p].capable

(* notify_init (), the server's information, and the options.              *)
ReadsOptions(p) ==
    /\ pc[p] = "start"
    /\ pc' = [pc EXCEPT ![p] = "options"]
    /\ id' = [id EXCEPT ![p] = args[p].notification_id]
    /\ failed' = [failed EXCEPT ![p] = \/ args[p].badHint
                                       \/ args[p].actions /\ ~ HasActions(p)]
    /\ wait' = [wait EXCEPT ![p] = args[p].wait \/ HasActions(p)]
    /\ UNCHANGED <<given, crossed, closed, connected, portal_timeout_id,
                   loopVars, queue, serverVars>>

(* Mutant: no timer if there is nothing to show. *)
PreparesToWaitForGood(p) ==
    timer' = [timer EXCEPT ![p] =
                 /\ wait[p] /\ ~ args[p].badHint
                 /\ args[p].expire_timeout # NOTIFY_EXPIRES_NEVER]

(* "closed" is connected and the timer armed before the notification is    *)
(* shown; an option's milliseconds are an int, the timer's an unsigned one.*)
PreparesToWait(p) ==
    timer' = [timer EXCEPT ![p] =
                 wait[p] /\ args[p].expire_timeout # NOTIFY_EXPIRES_NEVER]

(* The id the server shows the notification under.                         *)
ShownAs(p) ==
    IF Portal THEN IF id[p] # 0 THEN id[p] ELSE 1
    ELSE IF /\ id[p] # 0
            /\ displayed[id[p]] # None \/ "renumbers" \notin Environment
         THEN id[p] ELSE nextId

(* The k-th signal p is to take says that i was closed. *)
Told(p, k, i) ==
    k \in DOMAIN queue[p] /\ queue[p][k] = [kind |-> "NotificationClosed", id |-> i]

(* RemoveNotification. *)
Removed(p) == [i \in Ids |-> IF i = id[p] THEN None ELSE displayed[i]]

Shows(p) ==
    /\ pc[p] = "options" /\ ~ args[p].badHint
    /\ pc' = [pc EXCEPT ![p] = "shown"]
    /\ PreparesToWait(p)
    /\ ShownAs(p) \in Ids
    /\ connected' = [connected EXCEPT ![p] = TRUE]
    /\ id' = [id EXCEPT ![p] = ShownAs(p)]
    /\ displayed' = [displayed EXCEPT ![ShownAs(p)] = p]
    /\ nextId' = IF ShownAs(p) >= nextId THEN ShownAs(p) + 1 ELSE nextId
    /\ portal_timeout_id' = [portal_timeout_id EXCEPT ![p] =
                                Portal /\ args[p].expire_timeout > 0]
    /\ crossed' = IF \E k \in DOMAIN queue[p] : Told(p, k, ShownAs(p))
                  THEN crossed \cup {p} ELSE crossed
    /\ UNCHANGED <<given, wait, failed, closed, quit, reason, queue>>

(* Bad hints, or an error of notify_notification_show (): in the portal's  *)
(* case before the notification gets its number, or after, when what it is *)
(* to replace may have been removed already.                               *)
DoesNotShow(p) ==
    /\ pc[p] = "options"
    /\ pc' = [pc EXCEPT ![p] = "shown"]
    /\ PreparesToWait(p)
    /\ IF args[p].badHint THEN UNCHANGED <<failed, connected, id, displayed>>
       ELSE /\ "fail" \in Environment
            /\ failed' = [failed EXCEPT ![p] = TRUE]
            /\ connected' = [connected EXCEPT ![p] = TRUE]
            /\ \/ UNCHANGED <<id, displayed>>
               \/ /\ Portal
                  /\ id' = [id EXCEPT ![p] = IF @ = 0 THEN 1 ELSE @]
                  /\ displayed' \in {displayed, Removed(p)}
    /\ UNCHANGED <<given, crossed, wait, closed, portal_timeout_id, quit,
                   reason, queue, nextId>>

(* Exit: the notification is disposed of, and with it its timer.           *)
Exits(p) ==
    /\ pc' = [pc EXCEPT ![p] = "exited"]
    /\ portal_timeout_id' = [portal_timeout_id EXCEPT ![p] = FALSE]
    /\ timer' = [timer EXCEPT ![p] = FALSE]
    /\ queue' = [queue EXCEPT ![p] = << >>]
    /\ UNCHANGED <<sendVars, id, closed, connected, quit, reason, serverVars>>

EntersLoop(p) ==
    /\ pc[p] = "shown" /\ wait[p]
    /\ pc' = [pc EXCEPT ![p] = "loop"]
    /\ UNCHANGED <<sendVars, noteVars, loopVars, queue, serverVars>>

DoesNotWait(p) == pc[p] = "shown" /\ ~ wait[p] /\ Exits(p)

(***************************************************************************)
(* In the main loop.                                                       *)
(***************************************************************************)
Quits(p, why) ==
    /\ quit' = [quit EXCEPT ![p] = TRUE]
    /\ reason' = [reason EXCEPT ![p] = IF @ = "none" THEN why ELSE @]

(* Mutants: the id is reset to the wrong value; handle_closed () is not    *)
(* connected when it is the actions that imply --wait.                     *)
IsClosedUnset(p, why) ==
    IF closed[p] THEN UNCHANGED <<closed, id, quit, reason>>
    ELSE /\ closed' = [closed EXCEPT ![p] = TRUE]
         /\ id' = [id EXCEPT ![p] = -1]
         /\ Quits(p, why)
IsClosedUnheard(p, why) ==
    IF closed[p] THEN UNCHANGED <<closed, id, quit, reason>>
    ELSE /\ closed' = [closed EXCEPT ![p] = TRUE]
         /\ id' = [id EXCEPT ![p] = 0]
         /\ IF args[p].wait THEN Quits(p, why) ELSE UNCHANGED <<quit, reason>>

(* close_notification () with handle_closed; nothing the second time.      *)
IsClosed(p, why) ==
    IF closed[p] THEN UNCHANGED <<closed, id, quit, reason>>
    ELSE /\ closed' = [closed EXCEPT ![p] = TRUE]
         /\ id' = [id EXCEPT ![p] = 0]
         /\ Quits(p, why)

(* CloseNotification: the daemon's answer is a signal; nothing happens if  *)
(* there is nothing to close, or the call fails.                           *)
Gone(p) == id[p] # 0 => displayed[id[p]] = None
AsksToClose(p, left) ==
    \/ /\ ~ Gone(p)
       /\ displayed' = [displayed EXCEPT ![id[p]] = None]
       /\ LET gone == [kind |-> "NotificationClosed", id |-> id[p]] IN
          queue' = [q \in Procs |->
                       IF q = p THEN Append(left, gone)
                       ELSE IF q \in Hearing THEN Append(queue[q], gone)
                       ELSE queue[q]]
    \/ /\ Gone(p) \/ "fail" \in Environment
       /\ queue' = [queue EXCEPT ![p] = left]
       /\ UNCHANGED displayed

(* remove_portal_notification (), which closes if its call succeeds.       *)
Removes(p, why) ==
    /\ portal_timeout_id' = [portal_timeout_id EXCEPT ![p] = FALSE]
    /\ \/ displayed' = Removed(p) /\ IsClosed(p, why)
       \/ /\ "fail" \in Environment
          /\ UNCHANGED <<displayed, closed, id, quit, reason>>

Takes(p, kind) ==
    /\ pc[p] = "loop"
    /\ queue[p] # << >>
    /\ Head(queue[p]).kind = kind
    /\ UNCHANGED <<pc, sendVars, connected, timer, nextId>>
Mine(p) == connected[p] /\ Head(queue[p]).id = id[p]

TakesOther(p) ==
    /\ Takes(p, "NotificationClosed") \/ Takes(p, "ActionInvoked")
    /\ ~ Mine(p)
    /\ queue' = [queue EXCEPT ![p] = Tail(@)]
    /\ UNCHANGED <<id, closed, portal_timeout_id, quit, reason, displayed>>

TakesClosed(p) ==
    /\ Takes(p, "NotificationClosed")
    /\ Mine(p)
    /\ queue' = [queue EXCEPT ![p] = Tail(@)]
    /\ IsClosed(p, "closed")
    /\ UNCHANGED <<portal_timeout_id, displayed>>

(* handle_action () closes the notification, which ends the wait if that   *)
(* succeeds and the daemon says so; in the portal's case the library closes*)
(* it once more.  An action the notification does not have ("default", sent*)
(* for any) is ignored by the daemon's branch and closes the notification  *)
(* in the portal's.                                                        *)
TakesAction(p) ==
    /\ Takes(p, "ActionInvoked")
    /\ Mine(p)
    /\ \/ /\ ~ Portal /\ HasActions(p)
          /\ AsksToClose(p, Tail(queue[p]))
          /\ UNCHANGED <<id, closed, portal_timeout_id, quit, reason>>
       \/ /\ ~ Portal
          /\ queue' = [queue EXCEPT ![p] = Tail(@)]
          /\ UNCHANGED <<id, closed, portal_timeout_id, quit, reason,
                         displayed>>
       \/ /\ Portal /\ HasActions(p)
          /\ queue' = [queue EXCEPT ![p] = Tail(@)]
          /\ portal_timeout_id' = [portal_timeout_id EXCEPT ![p] = FALSE]
          /\ \/ displayed' = Removed(p)
             \/ "fail" \in Environment /\ UNCHANGED displayed
          /\ IsClosed(p, "closed")
       \/ /\ Portal
          /\ queue' = [queue EXCEPT ![p] = Tail(@)]
          /\ IsClosed(p, "closed")
          /\ UNCHANGED <<portal_timeout_id, displayed>>

on_wait_timeout(p) ==
    /\ pc[p] = "loop" /\ timer[p]
    /\ timer' = [timer EXCEPT ![p] = FALSE]
    /\ Quits(p, "timeout")
    /\ UNCHANGED <<pc, sendVars, noteVars, queue, serverVars>>

on_portal_timeout(p) ==
    /\ pc[p] = "loop" /\ portal_timeout_id[p]
    /\ Removes(p, "closed")
    /\ UNCHANGED <<pc, sendVars, connected, timer, queue, nextId>>

(* Mutant: ^C only quits. *)
on_sigint_quits(p) ==
    /\ pc[p] = "loop" /\ reason[p] # "sigint"
    /\ Quits(p, "sigint")
    /\ UNCHANGED <<pc, sendVars, noteVars, timer, queue, serverVars>>

on_sigint(p) ==
    /\ pc[p] = "loop" /\ reason[p] # "sigint"
    /\ Quits(p, "sigint")
    /\ IF Portal
       THEN /\ portal_timeout_id' = [portal_timeout_id EXCEPT ![p] = FALSE]
            /\ \/ /\ displayed' = Removed(p)
                  /\ closed' = [closed EXCEPT ![p] = TRUE]
                  /\ id' = [id EXCEPT ![p] = IF closed[p] THEN @ ELSE 0]
               \/ "fail" \in Environment /\ UNCHANGED <<displayed, closed, id>>
            /\ UNCHANGED queue
       ELSE /\ AsksToClose(p, queue[p])
            /\ UNCHANGED <<id, closed, portal_timeout_id>>
    /\ UNCHANGED <<pc, sendVars, connected, timer, nextId>>

(* What was ready together with what quit the loop may still be run.       *)
LeavesLoop(p) == pc[p] = "loop" /\ quit[p] /\ Exits(p)

(***************************************************************************)
(* The server and its user.                                                *)
(***************************************************************************)
(* The daemon's notification expires or is dismissed; the portal does not  *)
(* say so.                                                                 *)
Disappears(i) ==
    /\ displayed[i] # None
    /\ IF Portal
       THEN displayed' = [displayed EXCEPT ![i] = None] /\ UNCHANGED queue
       ELSE Hides(i, << >>)
    /\ UNCHANGED <<pc, sendVars, noteVars, loopVars, nextId>>

(* The user picks an action.  The portal's notification goes; the daemon's *)
(* may (it is resident, or the daemon leaves that to the program) stay.    *)
Activates(i) ==
    /\ displayed[i] # None
    /\ LET invoked == [kind |-> "ActionInvoked", id |-> i] IN
       \/ /\ Portal
          /\ displayed' = [displayed EXCEPT ![i] = None]
          /\ queue' = [queue EXCEPT ![displayed[i]] =
                          IF displayed[i] \in Hearing
                          THEN Append(@, invoked) ELSE @]
       \/ ~ Portal /\ Hides(i, <<invoked>>)
       \/ /\ ~ Portal /\ \A p \in Procs : Len(queue[p]) < MaxQueue
          /\ Broadcast(<<invoked>>)
          /\ UNCHANGED displayed
    /\ UNCHANGED <<pc, sendVars, noteVars, loopVars, nextId>>

-----------------------------------------------------------------------------
Program(p) ==
    \/ ReadsOptions(p) \/ Shows(p) \/ DoesNotShow(p)
    \/ EntersLoop(p) \/ DoesNotWait(p)
    \/ TakesOther(p) \/ TakesClosed(p) \/ TakesAction(p)
    \/ LeavesLoop(p)
Server == \E i \in Ids : Disappears(i) \/ Activates(i)

Next ==
    \/ \E p \in Procs :
          Program(p) \/ on_wait_timeout(p) \/ on_portal_timeout(p) \/ on_sigint(p)
    \/ Server

Spec == Init /\ [][Next]_vars

(* Programs run and their timers fire, but for that of no --expire-time,   *)
(* which takes 2^32 - 1 ms; a main loop that was quit ends, whatever else  *)
(* is ready; nobody needs to press ^C or to click.                         *)
FairSpec ==
    /\ Spec
    /\ \A p \in Procs : /\ WF_vars(Program(p))
                        /\ WF_vars(LeavesLoop(p))
                        /\ WF_vars(/\ args[p].expire_timeout > 0
                                   /\ on_wait_timeout(p))
                        /\ WF_vars(on_portal_timeout(p))
-----------------------------------------------------------------------------
TypeOK ==
    /\ pc \in [Procs -> {"start", "options", "shown", "loop", "exited"}]
    /\ args \in [Procs -> CommandLine]
    /\ wait \in [Procs -> BOOLEAN] /\ failed \in [Procs -> BOOLEAN]
    /\ timer \in [Procs -> BOOLEAN] /\ quit \in [Procs -> BOOLEAN]
    /\ id \in [Procs -> 0 .. MaxId]
    /\ closed \in [Procs -> BOOLEAN] /\ connected \in [Procs -> BOOLEAN]
    /\ portal_timeout_id \in [Procs -> BOOLEAN]
    /\ reason \in [Procs -> {"none", "closed", "timeout", "sigint"}]
    /\ queue \in [Procs -> Seq(Closed \cup Invoked)]
    /\ displayed \in [Ids -> Procs \cup {None}]
    /\ Portal \in Portals /\ Environment \in Environments
    /\ nextId \in 1 .. MaxId + 1 /\ crossed \subseteq Procs

OnScreen(p) == \E i \in Ids : displayed[i] = p

(* --wait is for the notification to be closed (notify-send.c:322: "Wait   *)
(* for the notification to be closed before exiting."): a run that waited  *)
(* and was not told how long leaves no notification of its own on screen,  *)
(* whether it was closed, acted upon, or closed by ^C, whatever it replaced*)
(* and whoever replaces it.  Two things defeat it: the close that ^C asks  *)
(* for fails, which on_sigint () does not look at; and the close of what it*)
(* replaces comes before the main loop, to be taken for its own.           *)
WaitsForClose ==
    \A p \in Procs :
        pc[p] = "exited" /\ wait[p] /\ ~ failed[p] /\ p \notin crossed
          /\ reason[p] # "timeout"
          /\ (reason[p] = "sigint" => "fail" \notin Environment)
            => ~ OnScreen(p)

(* A run that waits exits after its notification was closed, also when it  *)
(* was closed before the main loop was entered.                            *)
ExitsWhenClosed ==
    \A p \in Procs :
        ~ Portal /\ pc[p] = "loop" /\ ~ failed[p] /\ Gone(p)
            ~> pc[p] = "exited"

(* What ExitsWhenClosed rests on: while such a run waits and has not been  *)
(* made to quit, the close of its notification is among the signals it is  *)
(* still to take, ...                                                      *)
TheCloseIsComing ==
    \A p \in Procs :
        ~ Portal /\ pc[p] = "loop" /\ ~ failed[p] /\ Gone(p) /\ ~ quit[p]
            => \E k \in DOMAIN queue[p] : Told(p, k, id[p])

(* ... nothing drops or overtakes it, each turn of the main loop brings it *)
(* nearer, and the turn that takes it quits.                               *)
TheCloseComesNearer ==
    [][\A p \in Procs : \A k \in DOMAIN queue[p] :
          ~ Portal /\ pc[p] = "loop" /\ ~ failed[p] /\ ~ quit[p] /\ Told(p, k, id[p])
              => \/ quit'[p]
                 \/ pc'[p] = "loop" /\ k > 1 /\ Told(p, k - 1, id[p])'
                 \/ pc'[p] = "loop" /\ ~ Program(p) /\ Told(p, k, id[p])']_vars

(* --expire-time is the maximum waiting time: whatever fails, such a run   *)
(* comes to its end.                                                       *)
WaitIsBounded ==
    \A p \in Procs :
        args[p].expire_timeout > 0 /\ pc[p] = "loop" ~> pc[p] = "exited"

(* What WaitIsBounded rests on: whatever fails, a run that is told how long*)
(* to wait does not wait without its timer, ...                            *)
TimeIsKept ==
    \A p \in Procs :
        args[p].expire_timeout > 0 /\ pc[p] = "loop" => timer[p] \/ quit[p]

(* ... and no wait ends of itself: the time was up, and there was one; or  *)
(* the notification was closed, which the run had asked to show; or it was *)
(* ^C.                                                                     *)
WaitsForAReason ==
    \A p \in Procs :
        pc[p] = "exited" /\ wait[p] =>
            \/ /\ reason[p] = "timeout"
               /\ args[p].expire_timeout # NOTIFY_EXPIRES_NEVER
            \/ reason[p] = "closed" /\ closed[p] /\ connected[p]
            \/ reason[p] = "sigint"

(* tests/test_notify_send.py: an invalid hint makes notify-send exit, with *)
(* an error.                                                               *)
BadHintExits == \A p \in Procs : args[p].badHint ~> pc[p] = "exited"

(* docs/notify-send.xml: the notification to replace is the one --replace- *)
(* id names; without the option, none is.                                  *)
ReplacesOnlyWhenTold ==
    [][\A p, q \in Procs :
          p # q /\ OnScreen(q) /\ Shows(p) /\ args[p].notification_id = 0
              => OnScreen(q)']_vars

(* And with it: of the daemon's notifications showing one takes down that  *)
(* which --replace-id names, and no other.                                 *)
ReplacesWhatItWasTold ==
    [][\A p \in Procs, i \in Ids :
          ~ Portal /\ Shows(p) /\ displayed[i] # None
            /\ displayed'[i] # displayed[i]
              => i = args[p].notification_id]_vars
=============================================================================

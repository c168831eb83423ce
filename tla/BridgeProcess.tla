--------------------------- MODULE BridgeProcess ---------------------------
(***************************************************************************)
(* The life of the bridge process: it connects what it can, serves calls   *)
(* in worker threads beside the monitor task, and on a signal cancels the  *)
(* monitor, then pending orders, stops the gRPC server, closes the         *)
(* recorder and the terminal session.                                      *)
(*                                                                         *)
(* One event loop runs main, the monitor and the handlers; a step of theirs*)
(* goes from one await to the next, except where the code blocks the loop  *)
(* and worker threads run on.  What execute_signal does under its lock is  *)
(* OrderManager; here a thread checks the connection and sends, and the    *)
(* broker acts on a request when it gets it: during the call, or after it  *)
(* has returned without an answer or with a retcode other than DONE.       *)
(***************************************************************************)
EXTENDS Naturals, FiniteSets

CONSTANTS
    Calls,          \* calls of execute_trade, each made once
    LimitCalls,     \* those with order_type LIMIT
    Leftovers,      \* pending orders of earlier processes, with the bridge's magic number
    MaxReconnects   \* max_retries of reconnect

ASSUME BridgeAssumption ==
    MaxReconnects \in Nat \ {0} /\ LimitCalls \subseteq Calls /\ Leftovers \cap Calls = {}

VARIABLES
    stage,      \* where main is
    flag,       \* MT5Connector._connected
    session,    \* MetaTrader5 is initialised
    linked,     \* the terminal has its broker
    recorder,   \* "none" | "open" | "closed"
    server,     \* "none" | "listening" | "grace" | "stopped"
    monitor,    \* "new" | "sleep" | "beat" | "record" | "shut" | "redial" | "gone"
    tries,      \* attempts of this reconnect()
    handler,    \* call -> "none" | "waiting" | "answered" | "cut"
    thread,     \* call -> "none" | "queued" | "sending" | "done"
    outcome,    \* call -> what execute_trade returns, "none" before
    sent,       \* calls whose request left the terminal
    placed,     \* calls whose order reached the broker
    pending,    \* leftovers and limit orders of calls that wait at the broker
    todo,       \* pending orders main has still to cancel
    kept,       \* history: pending orders main saw or could not see, and did not cancel
    missed      \* history: calls whose order came after main had asked for the list

procVars == <<stage, flag, session, linked, recorder, server, monitor, tries, handler, thread,
              outcome, sent, placed, pending, todo, kept, missed>>

mtVars == <<flag, session>>
callVars == <<handler, thread, outcome>>
orderVars == <<sent, placed, pending, todo, kept, missed>>

\* The loop is not in a blocking part of the monitor or of the shutdown.
LoopFree == monitor \notin {"beat", "shut", "redial"} /\ stage \notin {"list", "cancel", "look"}

Sending == {c \in Calls : thread[c] = "sending"}

-----------------------------------------------------------------------------
(* MT5Connector.                                                           *)

\* is_connected: a terminal that does not answer resets the flag.
IsConnected == flag /\ session /\ linked
FlagAfterLook == flag' = (flag /\ session)

\* connect: initialize and login; a refused login shuts the session again.
Connect(ok) == flag' = ok /\ session' = ok

\* disconnect, also under a thread that is sending.
Disconnect ==
    flag' = FALSE /\ session' = (session /\ ~flag)

-----------------------------------------------------------------------------
(* Start.                                                                  *)

\* Without a database the trades are not recorded.
RecorderConnects == recorder' \in {"none", "open"}

\* With certificates, without, or not at all when grpc is missing.
ServerStarts == server' \in {"none", "listening"}

Boot ==
    /\ stage = "boot"
    /\ \E ok \in BOOLEAN : Connect(ok)
    /\ RecorderConnects /\ ServerStarts
    /\ stage' = "serving" /\ monitor' = "sleep"
    /\ UNCHANGED <<linked, tries, callVars, orderVars>>

-----------------------------------------------------------------------------
(* A call: the handler waits in the loop for its thread.  Neither the rate *)
(* limiter (its abort is not awaited) nor a missing terminal turns it away.*)

ExecuteTrade(c) ==
    /\ LoopFree /\ server = "listening" /\ handler[c] = "none"
    /\ handler' = [handler EXCEPT ![c] = "waiting"]
    /\ thread' = [thread EXCEPT ![c] = "queued"]
    /\ UNCHANGED <<stage, mtVars, linked, recorder, server, monitor, tries, outcome, orderVars>>

Returns(c, status) ==
    /\ thread' = [thread EXCEPT ![c] = "done"]
    /\ outcome' = [outcome EXCEPT ![c] = status]

\* The validation refuses the signal, or a call to the connector or terminal before the
\* order raises: flag down, no session, no price, no margin.
ThreadRefused(c) ==
    /\ thread[c] = "queued" /\ Sending = {}
    /\ \E status \in {"REJECTED", "ERROR"} : Returns(c, status)
    /\ UNCHANGED <<stage, mtVars, linked, recorder, server, monitor, tries, handler, orderVars>>

ThreadSends(c) ==
    /\ thread[c] = "queued" /\ Sending = {} /\ flag /\ session
    /\ thread' = [thread EXCEPT ![c] = "sending"]
    /\ sent' = sent \cup {c}
    /\ UNCHANGED <<stage, mtVars, linked, recorder, server, monitor, tries, handler, outcome,
                   placed, pending, todo, kept, missed>>

\* The broker gets the request, sooner or later: a market order is filled, a limit order waits.
OrderReaches(c) ==
    /\ linked /\ c \in sent \ placed
    /\ placed' = placed \cup {c}
    /\ pending' = IF c \in LimitCalls THEN pending \cup {c} ELSE pending
    /\ missed' = IF stage \in {"boot", "serving", "list"} THEN missed ELSE missed \cup {c}
    /\ UNCHANGED <<stage, mtVars, linked, recorder, server, monitor, tries, callVars, sent, todo, kept>>

\* order_send returns None, also with a session; or a retcode other than DONE, which says
\* a timeout or a part of the order as well as a refusal; or DONE.
SendEnds(c) ==
    /\ thread[c] = "sending"
    /\ \/ \E status \in {"ERROR", "REJECTED"} : Returns(c, status)
       \/ c \in placed /\ Returns(c, IF c \in LimitCalls THEN "PENDING" ELSE "FILLED")
    /\ UNCHANGED <<stage, mtVars, linked, recorder, server, monitor, tries, handler, orderVars>>

\* The handler resumes and answers.
HandlerAnswers(c) ==
    /\ LoopFree /\ handler[c] = "waiting" /\ thread[c] = "done"
    /\ handler' = [handler EXCEPT ![c] = "answered"]
    /\ UNCHANGED <<stage, mtVars, linked, recorder, server, monitor, tries, thread, outcome, orderVars>>

-----------------------------------------------------------------------------
(* position_monitor_loop; what an update does is PositionMonitor.          *)

MonitorUnchanged == UNCHANGED <<stage, linked, recorder, server, callVars, orderVars>>

MonitorWakes ==
    /\ LoopFree /\ monitor = "sleep" /\ stage = "serving"
    /\ FlagAfterLook
    /\ monitor' = IF IsConnected THEN "beat" ELSE "shut"
    /\ tries' = 0
    /\ UNCHANGED session
    /\ MonitorUnchanged

\* It looks again, for heartbeat and update; a terminal lost since is left for next time.
MonitorBeats ==
    /\ monitor = "beat"
    /\ FlagAfterLook
    /\ \/ monitor' = "sleep"
       \/ IsConnected /\ recorder = "open" /\ monitor' = "record"
    /\ UNCHANGED <<session, tries>>
    /\ MonitorUnchanged

\* An INSERT ends, well or not; then the next closed position, or sleep.
RecordEnds ==
    /\ LoopFree /\ monitor = "record"
    /\ monitor' \in {"record", "sleep"}
    /\ UNCHANGED <<mtVars, tries>>
    /\ MonitorUnchanged

\* reconnect, blocking the loop: disconnect and sleep ...
ReconnectShuts ==
    /\ monitor = "shut"
    /\ Disconnect
    /\ monitor' = "redial" /\ tries' = tries + 1
    /\ MonitorUnchanged

\* ... then connect.
ReconnectDials ==
    /\ monitor = "redial"
    /\ \E ok \in BOOLEAN :
          /\ Connect(ok)
          /\ monitor' = IF ok \/ tries = MaxReconnects THEN "sleep" ELSE "shut"
    /\ UNCHANGED tries
    /\ MonitorUnchanged

-----------------------------------------------------------------------------
(* Shutdown.                                                               *)

\* SIGTERM: main wakes up, cancels the monitor where it awaits and, if the terminal has
\* its broker, goes on to the pending orders.
Signal ==
    /\ LoopFree /\ stage = "serving" /\ monitor # "new"
    /\ monitor' = "gone"
    /\ stage' = IF IsConnected THEN "list" ELSE "cancel"
    /\ FlagAfterLook
    /\ kept' = IF IsConnected THEN kept ELSE pending
    /\ UNCHANGED <<session, linked, recorder, server, tries, callVars, sent, placed, pending, todo, missed>>

\* get_pending_orders; a list that could not be had is an empty one.
ListPending(ok) ==
    /\ stage = "list" /\ stage' = "cancel"
    /\ IF ok /\ session THEN todo' = pending /\ UNCHANGED kept
       ELSE kept' = pending /\ UNCHANGED todo
    /\ UNCHANGED <<mtVars, linked, recorder, server, monitor, tries, callVars, sent, placed, pending, missed>>

\* An order that has been filled since is not there to be cancelled.
CancelOrder(o, ok) ==
    LET done == ok /\ session /\ linked /\ o \in pending
    IN  /\ stage = "cancel" /\ o \in todo
        /\ todo' = todo \ {o}
        /\ pending' = IF done THEN pending \ {o} ELSE pending
        /\ kept' = IF done THEN kept ELSE kept \cup {o}
        /\ UNCHANGED <<stage, mtVars, linked, recorder, server, monitor, tries, callVars, sent, placed, missed>>

\* The open positions are logged, and left.
ListPositions ==
    /\ stage = "cancel" /\ todo = {}
    /\ stage' = "look" /\ FlagAfterLook
    /\ UNCHANGED <<session, linked, recorder, server, monitor, tries, callVars, orderVars>>

\* Server.stop: no new call; five seconds for those that wait.
StopServer ==
    /\ stage = "look"
    /\ stage' = "grace" /\ server' = IF server = "none" THEN "none" ELSE "grace"
    /\ UNCHANGED <<mtVars, linked, recorder, monitor, tries, callVars, orderVars>>

\* Sensitivity variant: the server is left without waiting for its handlers.
ServerStoppedAtOnce(tardy) ==
    /\ stage = "grace"
    /\ stage' = "close" /\ server' = IF server = "none" THEN "none" ELSE "stopped"
    /\ UNCHANGED <<mtVars, linked, recorder, monitor, tries, callVars, orderVars>>

\* All handlers have answered, or the time is over and the tardy ones are cancelled, not
\* their threads.
ServerStopped(tardy) ==
    /\ stage = "grace"
    /\ tardy = {c \in Calls : handler[c] = "waiting"}
    /\ handler' = [c \in Calls |-> IF c \in tardy THEN "cut" ELSE handler[c]]
    /\ stage' = "close" /\ server' = IF server = "none" THEN "none" ELSE "stopped"
    /\ UNCHANGED <<mtVars, linked, recorder, monitor, tries, thread, outcome, orderVars>>

CloseRecorder ==
    /\ stage = "close"
    /\ stage' = "disconnect" /\ recorder' = IF recorder = "open" THEN "closed" ELSE recorder
    /\ UNCHANGED <<mtVars, linked, server, monitor, tries, callVars, orderVars>>

DisconnectAtEnd ==
    /\ stage = "disconnect"
    /\ Disconnect
    /\ stage' = "drain"
    /\ UNCHANGED <<linked, recorder, server, monitor, tries, callVars, orderVars>>

\* asyncio.run waits for the threads of the default executor.
ProcessEnds ==
    /\ stage = "drain" /\ \A c \in Calls : thread[c] \in {"none", "done"}
    /\ stage' = "over"
    /\ UNCHANGED <<mtVars, linked, recorder, server, monitor, tries, callVars, orderVars>>

-----------------------------------------------------------------------------
(* Terminal and broker.                                                    *)

\* The terminal dies, or loses and finds its broker.
TerminalChanges ==
    /\ stage # "over"
    /\ \/ linked' = ~linked /\ UNCHANGED session
       \/ session /\ session' = FALSE /\ UNCHANGED linked
    /\ UNCHANGED <<stage, flag, recorder, server, monitor, tries, callVars, orderVars>>

\* The price reaches a pending order.
PendingTriggers(o) ==
    /\ o \in pending
    /\ pending' = pending \ {o}
    /\ UNCHANGED <<stage, mtVars, linked, recorder, server, monitor, tries, callVars, sent, placed,
                   todo, kept, missed>>

BridgeInit ==
    /\ stage = "boot" /\ flag = FALSE /\ session = FALSE /\ linked = TRUE
    /\ recorder = "none" /\ server = "none" /\ monitor = "new" /\ tries = 0
    /\ handler = [c \in Calls |-> "none"] /\ thread = [c \in Calls |-> "none"]
    /\ outcome = [c \in Calls |-> "none"] /\ sent = {} /\ placed = {}
    /\ pending \in SUBSET Leftovers /\ todo = {} /\ kept = {} /\ missed = {}

BridgeNext ==
    \/ Boot \/ MonitorWakes \/ MonitorBeats \/ RecordEnds \/ ReconnectShuts \/ ReconnectDials
    \/ \E c \in Calls : \/ ExecuteTrade(c) \/ ThreadRefused(c) \/ ThreadSends(c) \/ OrderReaches(c)
                        \/ SendEnds(c) \/ HandlerAnswers(c)
    \/ Signal \/ (\E ok \in BOOLEAN : ListPending(ok)) \/ ListPositions \/ StopServer
    \/ \E o \in Leftovers \cup LimitCalls : \/ \E ok \in BOOLEAN : CancelOrder(o, ok)
                                          \/ PendingTriggers(o)
    \/ \E tardy \in SUBSET Calls : ServerStopped(tardy)
    \/ CloseRecorder \/ DisconnectAtEnd \/ ProcessEnds \/ TerminalChanges

BridgeSpec == BridgeInit /\ [][BridgeNext]_procVars

\* A caller that is told FILLED or PENDING has its order at the broker (ERROR and REJECTED
\* tell it nothing: the order may be there, or still come).  And when the process is
\* over, every call was answered or cut by the end of the grace, no thread, session
\* or pool is left, and the broker holds no pending order but those main saw and
\* could not cancel, those it could not see for want of a terminal, and those a
\* worker thread placed after main had asked for the list (main, cancel_order,
\* stop of the server, execute_signal).
BridgeStopsCleanly ==
    /\ \A c \in Calls : handler[c] = "answered" /\ outcome[c] \in {"FILLED", "PENDING"} => c \in placed
    /\ stage = "over" =>
          /\ \A c \in Calls : /\ handler[c] \in {"none", "answered", "cut"}
                              /\ thread[c] \in {"none", "done"}
          /\ ~flag /\ ~session /\ recorder # "open"
          /\ pending \subseteq kept \cup missed
=============================================================================

--------------------------- MODULE FeedConnector ---------------------------
(***************************************************************************)
(* A market data connector of the ingestion service: the WebSocket of      *)
(* PolygonConnector and BinanceConnector, which differ only in what they   *)
(* do on a new connection (Polygon authenticates), and the loop of         *)
(* cmd/server/main.go that reads from it.                                  *)
(*                                                                         *)
(* Goroutines: the main goroutine ("main": Connect, Subscribe, Close), a   *)
(* readLoop per connection ever opened, and the reconnect a failing        *)
(* readLoop starts.  Connections are numbered in the order they are        *)
(* opened, so goroutine c is the readLoop that dial number c started, and  *)
(* its reconnect.  p.mu is held over a whole dial and over each of the     *)
(* short critical sections; what happens without it is a step of its own.  *)
(***************************************************************************)
EXTENDS Integers, Sequences, FiniteSets

CONSTANTS
    Exchanges,      \* which connectors are explored: subset of {"polygon", "binance"}
    MaxConns,       \* bound: connections opened in a behaviour
    MaxMsgs,        \* bound: messages the exchange sends
    ChanCap,        \* capacity of msgChan
    MaxReconnects   \* maxReconnects

ASSUME FeedAssumption ==
    /\ Exchanges \subseteq {"polygon", "binance"} /\ Exchanges # {}
    /\ MaxConns \in Nat \ {0} /\ MaxMsgs \in Nat
    /\ ChanCap \in Nat \ {0} /\ MaxReconnects \in Nat

VARIABLES
    exchange,       \* the connector selected by MONEYMAKER_DATA_CONNECTOR
    state,          \* p.state
    conn,           \* p.conn: number of the connection, 0 is nil
    authenticated,  \* p.authenticated
    opened,         \* connections opened so far
    alive,          \* connections this process has not closed
    broken,         \* of these, the ones the network or the exchange has cut
    subscribed,     \* of these, the ones on which the subscription was sent
    lastSub,        \* p.lastSubscription is set
    mu,             \* holder of p.mu over a dial: Free, Main, or a reconnect
    attempts,       \* p.reconnectAttempts
    stopped,        \* stopChan is closed
    msgChan,        \* p.msgChan
    errs,           \* length of p.errChan
    dropped,        \* p.droppedMessages
    lost,           \* messages taken out of msgChan to make room (history)
    sent,           \* messages the exchange has sent
    gaveUp,         \* a reconnect exceeded maxReconnects (history)
    main,           \* control of the main goroutine
    reader,         \* control of readLoop c
    onConn,         \* the connection readLoop c has taken from p.conn
    hand,           \* the message readLoop c is passing on
    rec,            \* control of the reconnect started by readLoop c
    loop            \* control of main's goroutine that calls ReadMessage

connVars == <<conn, authenticated, opened, alive, broken, subscribed>>
chanVars == <<msgChan, errs, dropped, lost, sent>>
ctlVars == <<main, reader, onConn, hand, rec, loop>>
feedVars == <<exchange, state, connVars, lastSub, mu, attempts, stopped, chanVars, gaveUp, ctlVars>>

Ids == 1..MaxConns
Free == 0
Main == MaxConns + 1

FeedTypeOK ==
    /\ exchange \in Exchanges
    /\ state \in {"disconnected", "connecting", "connected", "reconnecting", "closed"}
    /\ conn \in 0..MaxConns /\ opened \in 0..MaxConns
    /\ authenticated \in BOOLEAN /\ lastSub \in BOOLEAN /\ stopped \in BOOLEAN /\ gaveUp \in BOOLEAN
    /\ alive \subseteq Ids /\ broken \subseteq Ids /\ subscribed \subseteq Ids
    /\ mu \in 0..MaxConns + 1
    /\ attempts \in 0..MaxReconnects + MaxConns
    /\ msgChan \in Seq(1..MaxMsgs) /\ Len(msgChan) <= ChanCap
    /\ errs \in 0..MaxConns /\ sent \in 0..MaxMsgs
    /\ lost \in 0..MaxMsgs /\ dropped \in 0..MaxMsgs
    /\ main \in {"connect", "lock", "dialling", "subscribe", "running", "close", "failed", "done"}
    /\ reader \in [Ids -> {"off", "fetch", "read", "send", "drop", "block"}]
    /\ onConn \in [Ids -> 0..MaxConns]
    /\ hand \in [Ids -> 0..MaxMsgs]
    /\ rec \in [Ids -> {"off", "enter", "loop", "wait", "dial", "lock", "dialling", "resub", "send"}]
    /\ loop \in {"reading", "ended"}

Init ==
    /\ exchange \in Exchanges
    /\ state = "disconnected" /\ conn = 0 /\ authenticated = FALSE
    /\ opened = 0 /\ alive = {} /\ broken = {} /\ subscribed = {}
    /\ lastSub = FALSE /\ mu = Free /\ attempts = 0 /\ stopped = FALSE
    /\ msgChan = <<>> /\ errs = 0 /\ dropped = 0 /\ lost = 0 /\ sent = 0
    /\ gaveUp = FALSE /\ main = "connect"
    /\ reader = [c \in Ids |-> "off"] /\ onConn = [c \in Ids |-> 0]
    /\ hand = [c \in Ids |-> 0] /\ rec = [c \in Ids |-> "off"]
    /\ loop = "reading"

-----------------------------------------------------------------------------
(* Dialling: dialAndAuth and dialAndSetup.  The caller g is Main or the   *)
(* number of a reconnect.                                                  *)

\* Sensitivity variant: the old connection is not closed before the new dial.
LeavesOldConn == alive

\* closeConn on the connection set, with p.mu held.
CloseConn == alive \ {conn}

\* The lock is taken, the old connection closed and the dial begins.  The state
\* was set to connecting before, without the lock.
DialLocked(g) ==
    /\ mu = Free
    /\ mu' = g
    /\ alive' = CloseConn
    /\ conn' = 0
    /\ authenticated' = FALSE
    /\ broken' = broken \ {conn} /\ subscribed' = subscribed \ {conn}
    /\ UNCHANGED opened

\* The new connection is installed, its loops start, the attempts begin anew.
Installs ==
    /\ opened < MaxConns
    /\ opened' = opened + 1
    /\ conn' = opened'
    /\ alive' = alive \cup {opened'}
    /\ state' = "connected"
    /\ attempts' = 0
    /\ reader' = [reader EXCEPT ![opened'] = "fetch"]
    /\ UNCHANGED <<broken, subscribed>>

\* Polygon: the dial and the authentication succeeded.
DialAndAuth == Installs /\ authenticated' = TRUE

\* Binance: the dial succeeded, there is nothing to authenticate.
DialAndSetup == Installs /\ UNCHANGED authenticated

\* Any of the errors of the dial: invalid answer, handshake timeout, send or
\* read failed, authentication refused or not answered in time.  What was
\* opened is closed again.
DialFails ==
    /\ state' = "disconnected"
    /\ UNCHANGED <<connVars, attempts, reader>>

DialEnds ==
    /\ mu' = Free
    /\ \/ exchange = "polygon" /\ DialAndAuth
       \/ exchange = "binance" /\ DialAndSetup
       \/ DialFails

\* sendSubscription with p.mu held: it fails without a connection (Polygon:
\* an authenticated one) and when the write fails, that is on a broken connection.
SendSubscription(ok) ==
    /\ ok = (conn # 0 /\ conn \notin broken /\ (exchange = "polygon" => authenticated))
    /\ subscribed' = IF ok THEN subscribed \cup {conn} ELSE subscribed
    /\ UNCHANGED <<conn, authenticated, opened, alive, broken>>

-----------------------------------------------------------------------------
(* The main goroutine.                                                     *)

Connect ==
    /\ main = "connect"
    /\ state' = "connecting"
    /\ main' = "lock"
    /\ UNCHANGED <<exchange, connVars, lastSub, mu, attempts, stopped, chanVars, gaveUp,
                   reader, onConn, hand, rec, loop>>

ConnectDials ==
    /\ \/ /\ main = "lock" /\ DialLocked(Main) /\ main' = "dialling"
          /\ UNCHANGED <<state, attempts, reader>>
       \/ /\ main = "dialling" /\ DialEnds
          \* logger.Fatal when Connect returned an error
          /\ main' = IF state' = "connected" THEN "subscribe" ELSE "failed"
    /\ UNCHANGED <<exchange, lastSub, stopped, chanVars, gaveUp, onConn, hand, rec, loop>>

\* The subscription is remembered before it is sent; a failure only logs.
Subscribe ==
    /\ main = "subscribe" /\ mu = Free
    /\ lastSub' = TRUE
    /\ \E ok \in BOOLEAN : SendSubscription(ok)
    /\ main' = "running"
    /\ UNCHANGED <<exchange, state, mu, attempts, stopped, chanVars, gaveUp,
                   reader, onConn, hand, rec, loop>>

\* SIGTERM, then the deferred conn.Close(): state and stopChan without the lock ...
CloseSignals ==
    /\ main = "running"
    /\ state' = "closed"
    /\ stopped' = TRUE
    /\ main' = "close"
    /\ UNCHANGED <<exchange, connVars, lastSub, mu, attempts, chanVars, gaveUp,
                   reader, onConn, hand, rec, loop>>

\* ... and the connection under it.
CloseReturns ==
    /\ main = "close" /\ mu = Free
    /\ alive' = CloseConn /\ conn' = 0 /\ authenticated' = FALSE
    /\ broken' = broken \ {conn} /\ subscribed' = subscribed \ {conn}
    /\ main' = "done"
    /\ UNCHANGED <<exchange, state, opened, lastSub, mu, attempts, stopped,
                   chanVars, gaveUp, reader, onConn, hand, rec, loop>>

\* ReadMessage picks one of the ready cases.  The loop goes on after an error
\* unless the service is shutting down, which it is whenever stopChan is closed.
ReadMessage ==
    /\ main \in {"running", "close", "done"} /\ loop = "reading"
    /\ \/ /\ msgChan # <<>> /\ msgChan' = Tail(msgChan) /\ UNCHANGED <<errs, loop>>
       \/ /\ errs > 0 /\ errs' = errs - 1
          /\ loop' = IF stopped THEN "ended" ELSE loop
          /\ UNCHANGED msgChan
       \/ /\ stopped /\ loop' = "ended" /\ UNCHANGED <<msgChan, errs>>
    /\ UNCHANGED <<exchange, state, connVars, lastSub, mu, attempts, stopped, dropped, lost, sent,
                   gaveUp, main, reader, onConn, hand, rec>>

-----------------------------------------------------------------------------
(* readLoop c.                                                             *)

ReaderUnchanged ==
    UNCHANGED <<exchange, state, connVars, lastSub, mu, attempts, stopped, gaveUp, main, loop>>

\* The loop takes whatever p.conn is now, not the connection it was started for.
ReadLoopFetch(c) ==
    /\ reader[c] = "fetch" /\ mu = Free
    /\ IF conn = 0 \/ state = "closed"
       THEN /\ reader' = [reader EXCEPT ![c] = "off"] /\ UNCHANGED onConn
       ELSE /\ reader' = [reader EXCEPT ![c] = "read"]
            /\ onConn' = [onConn EXCEPT ![c] = conn]
    /\ UNCHANGED <<chanVars, hand, rec>>
    /\ ReaderUnchanged

Readable(c) == onConn[c] \in alive /\ onConn[c] \notin broken

\* A status message, or one that cannot be parsed, is skipped; the symbol and
\* channel that parseEventType finds only label the message.
ReadLoopReads(c) ==
    /\ reader[c] = "read" /\ Readable(c)
    /\ onConn[c] \in subscribed /\ sent < MaxMsgs
    /\ sent' = sent + 1
    /\ onConn' = [onConn EXCEPT ![c] = 0]
    /\ \/ /\ hand' = [hand EXCEPT ![c] = sent'] /\ reader' = [reader EXCEPT ![c] = "send"]
       \/ /\ reader' = [reader EXCEPT ![c] = "fetch"] /\ UNCHANGED hand
    /\ UNCHANGED <<msgChan, errs, dropped, lost, rec>>
    /\ ReaderUnchanged

\* Sensitivity variant: only the readLoop of the first connection reconnects.
OnlyFirstReconnects(c) ==
    /\ reader[c] = "read" /\ ~Readable(c)
    /\ reader' = [reader EXCEPT ![c] = "off"]
    /\ onConn' = [onConn EXCEPT ![c] = 0]
    /\ rec' = IF state = "closed" \/ c # 1 THEN rec ELSE [rec EXCEPT ![c] = "enter"]
    /\ UNCHANGED <<chanVars, hand>>
    /\ ReaderUnchanged

\* The read fails: the connection was cut or closed under it.
ReadLoopFails(c) ==
    /\ reader[c] = "read" /\ ~Readable(c)
    /\ reader' = [reader EXCEPT ![c] = "off"]
    /\ onConn' = [onConn EXCEPT ![c] = 0]
    /\ rec' = IF state = "closed" THEN rec ELSE [rec EXCEPT ![c] = "enter"]
    /\ UNCHANGED <<chanVars, hand>>
    /\ ReaderUnchanged

\* Sensitivity variant: a full channel drops a message without counting it.
DropsUncounted(c) == dropped

\* The first select: room, or the counter and then the oldest message goes.
DropCount(c) == dropped + 1

ReadLoopSend(c) ==
    /\ reader[c] = "send"
    /\ IF Len(msgChan) < ChanCap
       THEN /\ msgChan' = Append(msgChan, hand[c])
            /\ reader' = [reader EXCEPT ![c] = "fetch"]
            /\ hand' = [hand EXCEPT ![c] = 0]
            /\ UNCHANGED dropped
       ELSE /\ dropped' = DropCount(c)
            /\ reader' = [reader EXCEPT ![c] = "drop"]
            /\ UNCHANGED <<msgChan, hand>>
    /\ UNCHANGED <<errs, lost, sent, onConn, rec>>
    /\ ReaderUnchanged

\* The second select takes the oldest message, if the consumer has not taken it.
ReadLoopDrop(c) ==
    /\ reader[c] = "drop"
    /\ msgChan' = IF msgChan = <<>> THEN msgChan ELSE Tail(msgChan)
    /\ lost' = IF msgChan = <<>> THEN lost ELSE lost + 1
    /\ reader' = [reader EXCEPT ![c] = "block"]
    /\ UNCHANGED <<errs, dropped, sent, onConn, hand, rec>>
    /\ ReaderUnchanged

\* The send after it blocks until there is room.
ReadLoopBlock(c) ==
    /\ reader[c] = "block" /\ Len(msgChan) < ChanCap
    /\ msgChan' = Append(msgChan, hand[c])
    /\ reader' = [reader EXCEPT ![c] = "fetch"]
    /\ hand' = [hand EXCEPT ![c] = 0]
    /\ UNCHANGED <<errs, dropped, lost, sent, onConn, rec>>
    /\ ReaderUnchanged

-----------------------------------------------------------------------------
(* The reconnect started by readLoop c.                                    *)

RecUnchanged == UNCHANGED <<exchange, lastSub, stopped, main, onConn, hand, loop>>

ReconnectEnter(c) ==
    /\ rec[c] = "enter"
    /\ IF state = "closed"
       THEN rec' = [rec EXCEPT ![c] = "off"] /\ UNCHANGED state
       ELSE rec' = [rec EXCEPT ![c] = "loop"] /\ state' = "reconnecting"
    /\ UNCHANGED <<connVars, mu, attempts, chanVars, gaveUp, reader>>
    /\ RecUnchanged

\* The top of the loop: stop, give up, or wait the exponential back-off.
ReconnectLoop(c) ==
    /\ rec[c] = "loop"
    /\ \/ /\ stopped
          /\ rec' = [rec EXCEPT ![c] = "off"]
          /\ UNCHANGED <<attempts, errs, gaveUp>>
       \/ /\ ~stopped
          /\ attempts' = attempts + 1
          /\ IF attempts' > MaxReconnects
             THEN /\ rec' = [rec EXCEPT ![c] = "off"]
                  /\ errs' = errs + 1 /\ gaveUp' = TRUE
             ELSE /\ rec' = [rec EXCEPT ![c] = "wait"]
                  /\ UNCHANGED <<errs, gaveUp>>
    /\ UNCHANGED <<state, connVars, mu, msgChan, dropped, lost, sent, reader>>
    /\ RecUnchanged

\* The delay passes, or stopChan ends the wait.
ReconnectWait(c) ==
    /\ rec[c] = "wait"
    /\ \/ rec' = [rec EXCEPT ![c] = "dial"]
       \/ stopped /\ rec' = [rec EXCEPT ![c] = "off"]
    /\ UNCHANGED <<state, connVars, mu, attempts, chanVars, gaveUp, reader>>
    /\ RecUnchanged

ReconnectDial(c) ==
    /\ \/ /\ rec[c] = "dial" /\ state' = "connecting"
          /\ rec' = [rec EXCEPT ![c] = "lock"]
          /\ UNCHANGED <<connVars, mu, attempts, reader>>
       \/ /\ rec[c] = "lock" /\ DialLocked(c)
          /\ rec' = [rec EXCEPT ![c] = "dialling"]
          /\ UNCHANGED <<state, attempts, reader>>
       \/ /\ rec[c] = "dialling" /\ DialEnds
          /\ rec' = [rec EXCEPT ![c] = IF state' = "connected" THEN "resub" ELSE "loop"]
    /\ UNCHANGED <<chanVars, gaveUp>>
    /\ RecUnchanged

\* Sensitivity variant: only the first connection is subscribed.
NoResubscribe(c) ==
    /\ rec[c] = "resub" /\ mu = Free
    /\ rec' = [rec EXCEPT ![c] = "off"]
    /\ UNCHANGED <<state, connVars, mu, attempts, chanVars, gaveUp, reader>>
    /\ RecUnchanged

\* The remembered subscription is read under the lock ...
ReconnectReadsSub(c) ==
    /\ rec[c] = "resub" /\ mu = Free
    /\ rec' = [rec EXCEPT ![c] = IF lastSub THEN "send" ELSE "off"]
    /\ UNCHANGED <<state, connVars, mu, attempts, chanVars, gaveUp, reader>>
    /\ RecUnchanged

\* ... and sent under the lock again, on whatever p.conn is by then.
ReconnectResubscribes(c) ==
    /\ rec[c] = "send" /\ mu = Free
    /\ \E ok \in BOOLEAN :
          /\ SendSubscription(ok)
          /\ rec' = [rec EXCEPT ![c] = IF ok THEN "off" ELSE "loop"]
    /\ UNCHANGED <<state, mu, attempts, chanVars, gaveUp, reader>>
    /\ RecUnchanged

-----------------------------------------------------------------------------
\* The exchange closes the connection, the network cuts it, or no pong arrives
\* before the read deadline.
ConnectionBreaks ==
    /\ conn # 0 /\ conn \in alive \ broken
    /\ broken' = broken \cup {conn}
    /\ UNCHANGED <<exchange, state, conn, authenticated, opened, alive, subscribed, lastSub, mu,
                   attempts, stopped, chanVars, gaveUp, ctlVars>>

\* The process has ended, or waits for a signal with nothing left to do.
Idle ==
    /\ main \in {"failed", "done"} \/ (main = "running" /\ sent = MaxMsgs)
    /\ UNCHANGED feedVars

ReaderStep(c) ==
    \/ ReadLoopFetch(c) \/ ReadLoopReads(c) \/ ReadLoopFails(c)
    \/ ReadLoopSend(c) \/ ReadLoopDrop(c) \/ ReadLoopBlock(c)

ReconnectStep(c) ==
    \/ ReconnectEnter(c) \/ ReconnectLoop(c) \/ ReconnectWait(c)
    \/ ReconnectDial(c) \/ ReconnectReadsSub(c) \/ ReconnectResubscribes(c)

MainStep == Connect \/ ConnectDials \/ Subscribe \/ CloseReturns

Next ==
    \/ MainStep \/ CloseSignals \/ ReadMessage
    \/ \E c \in Ids : ReaderStep(c) \/ ReconnectStep(c)
    \/ ConnectionBreaks \/ Idle

FeedSpec == Init /\ [][Next]_feedVars

\* Goroutines are scheduled; the exchange, the network and the signal owe
\* nothing.  A dial ends by its timeouts (handshake, read deadline).
FeedLiveSpec ==
    /\ FeedSpec
    /\ WF_feedVars(MainStep) /\ WF_feedVars(ReadMessage)
    /\ \A c \in Ids :
          /\ WF_feedVars(ReadLoopFetch(c)) /\ WF_feedVars(ReadLoopFails(c))
          /\ WF_feedVars(ReadLoopSend(c) \/ ReadLoopDrop(c) \/ ReadLoopBlock(c))
          /\ SF_feedVars(ReconnectStep(c))

-----------------------------------------------------------------------------
(* Properties.                                                             *)

\* However many reconnects run at once (a failed resubscription dials again
\* while the reader of the abandoned connection starts a reconnect of its own),
\* the process holds no connection but p.conn: every dial closes the one before.
OnlyOneConnection == alive \subseteq {conn}

Reconnecting == \E c \in Ids : rec[c] # "off"

\* "Auto-resubscribe after every reconnection": once no reconnect is running, a
\* connection that works carries the subscription, also when Subscribe failed,
\* came between a dial and its resubscription, or two reconnects overlapped.
ResubscribedWhenQuiet ==
    (lastSub /\ ~Reconnecting /\ conn # 0 /\ conn \notin broken) => conn \in subscribed

\* Messages lost to a full channel never exceed the counter the service
\* reports, though it is raised before the message is taken out and the
\* consumer, or another readLoop, may be quicker.
LossesAreCounted == lost <= dropped

\* A feed that has lost its connection works again, or has given up after
\* maxReconnects, unless the service closes: no goroutine ends without a successor.
FeedRecovers ==
    (main = "running" /\ (conn = 0 \/ conn \in broken))
        ~> (conn # 0 /\ conn \notin broken /\ conn \in subscribed) \/ gaveUp \/ stopped

=============================================================================

------------------------ MODULE FeedConnectorProofs ------------------------
(***************************************************************************)
(* Theorems about the WebSocket connectors for any number of connections,  *)
(* messages and reconnects that overlap: one connection at a time, a       *)
(* subscription on every connection that stays, and no loss uncounted.     *)
(***************************************************************************)
EXTENDS FeedConnector, FiniteSetTheorems, TLAPS

\* The types the proofs need.
FeedTypes ==
    /\ conn \in 0..MaxConns /\ opened \in 0..MaxConns /\ mu \in 0..MaxConns + 1
    /\ alive \subseteq Ids
    /\ reader \in [Ids -> {"off", "fetch", "read", "send", "drop", "block"}]
    /\ rec \in [Ids -> {"off", "enter", "loop", "wait", "dial", "lock", "dialling", "resub", "send"}]
    /\ lost \in Nat /\ dropped \in Nat

\* p.mu belongs to the goroutine that dials, and while it does there is no connection.
MuInv ==
    /\ mu # Free => conn = 0
    /\ main = "dialling" => mu = Main
    /\ \A c \in Ids : rec[c] = "dialling" => mu = c

\* Goroutines of connections that were never opened do not run, and a readLoop that still
\* runs has not started its reconnect.
FreshInv ==
    \A c \in Ids : /\ c > opened => reader[c] = "off"
                   /\ c > opened \/ reader[c] # "off" => rec[c] = "off"

ConnInv == FeedTypes /\ MuInv /\ FreshInv /\ OnlyOneConnection

\* The dial that begins, with the lock taken by g.
LEMMA DialBegins ==
    ASSUME ConnInv, NEW g \in 1..MaxConns + 1, DialLocked(g)
    PROVE  /\ mu = Free /\ mu' = g /\ conn' = 0 /\ alive' = {} /\ opened' = opened
           /\ main # "dialling" /\ \A c \in Ids : rec[c] # "dialling"
BY FeedAssumption
   DEF DialLocked, CloseConn, ConnInv, FeedTypes, MuInv, OnlyOneConnection, Ids, Free, Main

\* The dial that ends, with the lock held by g: nothing was open, and what is open
\* now is the new connection, or nothing.
LEMMA DialOver ==
    ASSUME ConnInv, NEW g \in 1..MaxConns + 1, mu = g, DialEnds
    PROVE  /\ mu' = Free
           /\ \/ /\ state' = "connected" /\ opened' = opened + 1 /\ opened' \in Ids
                 /\ conn' = opened' /\ alive' = {conn'}
                 /\ reader' = [reader EXCEPT ![opened'] = "fetch"]
                 /\ exchange = "polygon" => authenticated' = TRUE
              \/ /\ state' = "disconnected" /\ UNCHANGED <<connVars, reader>>
                 /\ conn = 0 /\ alive = {}
<1>1. conn = 0 /\ alive = {} /\ opened \in 0..MaxConns
  BY FeedAssumption DEF ConnInv, FeedTypes, MuInv, OnlyOneConnection, Ids, Free
<1>2. ASSUME Installs
      PROVE  /\ state' = "connected" /\ opened' = opened + 1 /\ opened' \in Ids
             /\ conn' = opened' /\ alive' = {conn'}
             /\ reader' = [reader EXCEPT ![opened'] = "fetch"]
  BY <1>1, <1>2, FeedAssumption DEF Installs, Ids
<1>3. CASE exchange = "polygon" /\ DialAndAuth
  BY <1>2, <1>3 DEF DialEnds, DialAndAuth
<1>4. CASE exchange = "binance" /\ DialAndSetup
  BY <1>2, <1>4 DEF DialEnds, DialAndSetup
<1>5. CASE DialFails
  BY <1>1, <1>5 DEF DialEnds, DialFails
<1> QED
  BY <1>3, <1>4, <1>5 DEF DialEnds

\* What the end of a dial leaves, with the lock free again.
LEMMA DialSettles ==
    ASSUME ConnInv, NEW g \in 1..MaxConns + 1, mu = g, DialEnds, UNCHANGED <<lost, dropped>>,
           main' # "dialling", \A c \in Ids : rec'[c] # "dialling",
           rec' \in [Ids -> {"off", "enter", "loop", "wait", "dial", "lock", "dialling",
                             "resub", "send"}],
           \A c \in Ids : rec'[c] # rec[c] => rec[c] # "off"
    PROVE  ConnInv'
<1> USE FeedAssumption
<1>0. /\ opened \in 0..MaxConns /\ lost \in Nat /\ dropped \in Nat
      /\ reader \in [Ids -> {"off", "fetch", "read", "send", "drop", "block"}]
      /\ rec \in [Ids -> {"off", "enter", "loop", "wait", "dial", "lock", "dialling",
                          "resub", "send"}]
  BY DEF ConnInv, FeedTypes
<1>1. mu' = Free /\ Free \in 0..MaxConns + 1
  <2>1. mu' = Free
    BY DEF DialEnds
  <2> QED
    BY <2>1 DEF Free
<1>2. MuInv'
  BY <1>1 DEF MuInv
<1>3. CASE /\ opened' = opened + 1 /\ opened' \in Ids
           /\ conn' = opened' /\ alive' = {conn'}
           /\ reader' = [reader EXCEPT ![opened'] = "fetch"]
  <2>1. FeedTypes'
    <3>1. conn' \in 0..MaxConns /\ opened' \in 0..MaxConns
      BY <1>3 DEF Ids
    <3>2. reader' \in [Ids -> {"off", "fetch", "read", "send", "drop", "block"}]
      BY <1>0, <1>3
    <3> QED
      BY <1>0, <1>1, <1>3, <3>1, <3>2 DEF FeedTypes
  <2>2. FreshInv'
    <3> SUFFICES ASSUME NEW c \in Ids
                 PROVE  /\ c > opened' => reader'[c] = "off"
                        /\ c > opened' \/ reader'[c] # "off" => rec'[c] = "off"
      BY DEF FreshInv
    <3>1. c \in Int /\ opened \in Int
      BY <1>0 DEF Ids
    <3>2. CASE c = opened'
      BY <1>3, <3>1, <3>2 DEF ConnInv, FreshInv
    <3>3. CASE c # opened'
      BY <1>0, <1>3, <3>1, <3>3 DEF ConnInv, FreshInv
    <3> QED
      BY <3>2, <3>3
  <2> QED
    BY <1>2, <1>3, <2>1, <2>2 DEF ConnInv, OnlyOneConnection
<1>4. CASE UNCHANGED <<connVars, reader>>
  <2>1. FreshInv'
    BY <1>4 DEF ConnInv, FreshInv, connVars
  <2>2. FeedTypes' /\ OnlyOneConnection'
    BY <1>1, <1>4 DEF ConnInv, FeedTypes, OnlyOneConnection, connVars
  <2> QED
    BY <1>2, <2>1, <2>2 DEF ConnInv
<1> QED
  BY <1>3, <1>4, DialOver

\* Steps that touch neither the connection nor the goroutines it depends on.
LEMMA ConnFrame ==
    ASSUME ConnInv, UNCHANGED <<conn, opened, mu, alive>>,
           lost' \in Nat, dropped' \in Nat,
           main' = main \/ main' # "dialling",
           reader' \in [Ids -> {"off", "fetch", "read", "send", "drop", "block"}],
           rec' \in [Ids -> {"off", "enter", "loop", "wait", "dial", "lock", "dialling",
                             "resub", "send"}],
           \A c \in Ids : rec'[c] = "dialling" => rec[c] = "dialling",
           \A c \in Ids : reader[c] = "off" => reader'[c] = "off",
           \A c \in Ids : rec[c] = "off" => rec'[c] = "off" \/ (reader[c] # "off" /\ reader'[c] = "off")
    PROVE  ConnInv'
<1>1. FeedTypes' /\ OnlyOneConnection'
  BY DEF ConnInv, FeedTypes, OnlyOneConnection
<1>2. MuInv'
  BY DEF ConnInv, MuInv
<1>3. FreshInv'
  BY FeedAssumption DEF ConnInv, FreshInv, FeedTypes, Ids
<1> QED
  BY <1>1, <1>2, <1>3 DEF ConnInv

\* Every step keeps ConnInv.
LEMMA ConnStep ==
    ASSUME ConnInv, [Next]_feedVars
    PROVE  ConnInv'
<1> USE FeedAssumption
<1>0. /\ conn \in 0..MaxConns /\ opened \in 0..MaxConns /\ alive \subseteq Ids
      /\ reader \in [Ids -> {"off", "fetch", "read", "send", "drop", "block"}]
      /\ rec \in [Ids -> {"off", "enter", "loop", "wait", "dial", "lock", "dialling",
                          "resub", "send"}]
      /\ lost \in Nat /\ dropped \in Nat
  BY DEF ConnInv, FeedTypes
<1>1. ASSUME Connect \/ Subscribe \/ CloseSignals \/ ReadMessage PROVE ConnInv'
  BY <1>0, <1>1, ConnFrame DEF Connect, Subscribe, SendSubscription, CloseSignals, ReadMessage,
     connVars, chanVars
<1>2. ASSUME ConnectDials PROVE ConnInv'
  <2>1. Main \in 1..MaxConns + 1 /\ Main # Free
    BY DEF Main, Free
  <2>2. CASE main = "lock" /\ DialLocked(Main) /\ main' = "dialling"
    <3>1. /\ mu' = Main /\ conn' = 0 /\ alive' = {} /\ opened' = opened
          /\ \A c \in Ids : rec[c] # "dialling"
      BY <2>1, <2>2, DialBegins
    <3>2. UNCHANGED <<reader, rec, lost, dropped>>
      BY <1>2, <2>2 DEF ConnectDials, chanVars
    <3> QED
      BY <2>1, <2>2, <3>1, <3>2 DEF ConnInv, FeedTypes, MuInv, FreshInv, OnlyOneConnection
  <2>3. CASE main = "dialling" /\ DialEnds /\ main' # "dialling"
    <3>1. mu = Main
      BY <2>3 DEF ConnInv, MuInv
    <3>2. UNCHANGED <<rec, lost, dropped>>
      BY <1>2 DEF ConnectDials, chanVars
    <3>3. \A c \in Ids : rec[c] # "dialling"
      BY <3>1 DEF ConnInv, MuInv, Ids, Main
    <3> QED
      BY <1>0, <2>1, <2>3, <3>1, <3>2, <3>3, DialSettles
  <2> QED
    BY <1>2, <2>2, <2>3 DEF ConnectDials
<1>3. ASSUME CloseReturns PROVE ConnInv'
  <2>1. alive' = {} /\ conn' = 0 /\ main' = "done"
        /\ UNCHANGED <<opened, mu, reader, rec, lost, dropped>>
    BY <1>3 DEF CloseReturns, CloseConn, ConnInv, OnlyOneConnection, chanVars
  <2> QED
    BY <2>1 DEF ConnInv, FeedTypes, MuInv, FreshInv, OnlyOneConnection
<1>4. ASSUME NEW c \in Ids, ReadLoopFetch(c) PROVE ConnInv'
  BY <1>0, <1>4, ConnFrame DEF ReadLoopFetch, ReaderUnchanged, connVars, chanVars
<1>5. ASSUME NEW c \in Ids, ReadLoopReads(c) PROVE ConnInv'
  BY <1>0, <1>5, ConnFrame DEF ReadLoopReads, ReaderUnchanged, connVars
<1>6. ASSUME NEW c \in Ids, ReadLoopFails(c) PROVE ConnInv'
  BY <1>0, <1>6, ConnFrame DEF ReadLoopFails, ReaderUnchanged, connVars, chanVars
<1>7. ASSUME NEW c \in Ids, ReadLoopSend(c) PROVE ConnInv'
  BY <1>0, <1>7, ConnFrame DEF ReadLoopSend, DropCount, ReaderUnchanged, connVars
<1>8. ASSUME NEW c \in Ids, ReadLoopDrop(c) PROVE ConnInv'
  BY <1>0, <1>8, ConnFrame DEF ReadLoopDrop, ReaderUnchanged, connVars
<1>9. ASSUME NEW c \in Ids, ReadLoopBlock(c) PROVE ConnInv'
  BY <1>0, <1>9, ConnFrame DEF ReadLoopBlock, ReaderUnchanged, connVars
<1>10. ASSUME NEW c \in Ids, rec[c] # "off", UNCHANGED <<conn, opened, mu, alive, reader, main>>,
              UNCHANGED <<lost, dropped>>,
              NEW r \in {"off", "loop", "wait", "dial", "lock", "send"},
              rec' = [rec EXCEPT ![c] = r]
       PROVE  ConnInv'
  BY <1>0, <1>10, ConnFrame
<1>11. ASSUME NEW c \in Ids, ReconnectEnter(c) PROVE ConnInv'
  BY <1>10, <1>11 DEF ReconnectEnter, RecUnchanged, connVars, chanVars
<1>12. ASSUME NEW c \in Ids, ReconnectLoop(c) PROVE ConnInv'
  BY <1>10, <1>12 DEF ReconnectLoop, RecUnchanged, connVars
<1>13. ASSUME NEW c \in Ids, ReconnectWait(c) PROVE ConnInv'
  BY <1>10, <1>13 DEF ReconnectWait, RecUnchanged, connVars, chanVars
<1>14. ASSUME NEW c \in Ids, ReconnectReadsSub(c) PROVE ConnInv'
  BY <1>10, <1>14 DEF ReconnectReadsSub, RecUnchanged, connVars, chanVars
<1>15. ASSUME NEW c \in Ids, ReconnectResubscribes(c) PROVE ConnInv'
  BY <1>10, <1>15 DEF ReconnectResubscribes, SendSubscription, RecUnchanged, chanVars
<1>16. ASSUME NEW c \in Ids, ReconnectDial(c) PROVE ConnInv'
  <2>1. c \in 1..MaxConns + 1 /\ c # Free /\ c # Main
    BY DEF Ids, Main, Free
  <2>2. UNCHANGED <<main, lost, dropped>>
    BY <1>16 DEF ReconnectDial, RecUnchanged, chanVars
  <2>3. CASE rec[c] = "dial" /\ rec' = [rec EXCEPT ![c] = "lock"]
             /\ UNCHANGED <<connVars, mu, reader>>
    BY <1>10, <2>2, <2>3 DEF connVars
  <2>4. CASE rec[c] = "lock" /\ DialLocked(c) /\ rec' = [rec EXCEPT ![c] = "dialling"]
             /\ UNCHANGED reader
    <3>1. /\ mu' = c /\ conn' = 0 /\ alive' = {} /\ opened' = opened
          /\ main # "dialling" /\ \A d \in Ids : rec[d] # "dialling"
      BY <2>1, <2>4, DialBegins
    <3>2. FeedTypes' /\ OnlyOneConnection'
      BY <1>0, <2>1, <2>2, <2>4, <3>1 DEF FeedTypes, OnlyOneConnection
    <3>3. MuInv' /\ FreshInv'
      BY <1>0, <2>1, <2>2, <2>4, <3>1 DEF ConnInv, MuInv, FreshInv
    <3> QED
      BY <3>2, <3>3 DEF ConnInv
  <2>5. CASE rec[c] = "dialling" /\ DialEnds
             /\ rec' = [rec EXCEPT ![c] = IF state' = "connected" THEN "resub" ELSE "loop"]
    <3>1. mu = c
      BY <2>5 DEF ConnInv, MuInv
    <3>2. main # "dialling" /\ \A d \in Ids \ {c} : rec[d] # "dialling"
      BY <2>1, <3>1 DEF ConnInv, MuInv
    <3> QED
      BY <1>0, <2>1, <2>2, <2>5, <3>1, <3>2, DialSettles
  <2> QED
    BY <1>16, <2>3, <2>4, <2>5 DEF ReconnectDial
<1>17. ASSUME ConnectionBreaks \/ Idle \/ UNCHANGED feedVars PROVE ConnInv'
  BY <1>0, <1>17, ConnFrame DEF ConnectionBreaks, Idle, feedVars, connVars, chanVars, ctlVars
<1> QED
  BY <1>1, <1>2, <1>3, <1>4, <1>5, <1>6, <1>7, <1>8, <1>9, <1>11, <1>12, <1>13, <1>14, <1>15,
     <1>16, <1>17 DEF Next, MainStep, ReaderStep, ReconnectStep

\* No connection and no reader at the start.
LEMMA ConnInit == Init => ConnInv
BY FeedAssumption
   DEF Init, ConnInv, FeedTypes, MuInv, FreshInv, OnlyOneConnection, Ids, Free

\* However many reconnects overlap, for any number of connections: p.mu is held over every
\* dial, and every dial closes the connection before it, so the process holds no connection
\* but p.conn and leaks none (polygon.go, binance.go: dialAndAuth, dialAndSetup, reconnect).
THEOREM OneConnectionAlways == FeedSpec => []OnlyOneConnection
<1>1. ConnInv /\ [Next]_feedVars => ConnInv'
  BY ConnStep
<1>2. ConnInv => OnlyOneConnection
  BY DEF ConnInv
<1> QED
  BY <1>1, <1>2, ConnInit, PTL DEF FeedSpec

-----------------------------------------------------------------------------
(* The subscription.                                                       *)

\* A connection that works without a subscription is waited for by a reconnect that is
\* about to send it, or Subscribe has not been called; on Polygon a connection that is
\* installed is authenticated.
SubInv ==
    /\ main \in {"connect", "lock", "dialling", "subscribe"} => ~lastSub
    /\ conn # 0 /\ exchange = "polygon" => authenticated
    /\ lastSub /\ conn # 0 /\ conn \notin broken /\ conn \notin subscribed
          => \E c \in Ids : rec[c] \in {"resub", "send"}

\* The subscription that is sent reaches a connection that works.
LEMMA SendReaches ==
    ASSUME SubInv, NEW ok \in BOOLEAN, SendSubscription(ok)
    PROVE  /\ UNCHANGED <<conn, authenticated, broken>>
           /\ conn # 0 /\ conn \notin broken => conn \in subscribed'
BY DEF SubInv, SendSubscription

\* Every step keeps SubInv.
LEMMA SubStep ==
    ASSUME ConnInv, SubInv, [Next]_feedVars
    PROVE  SubInv'
<1> USE FeedAssumption
<1>0. rec \in [Ids -> {"off", "enter", "loop", "wait", "dial", "lock", "dialling",
                       "resub", "send"}]
  BY DEF ConnInv, FeedTypes
\* Nothing happens to the connection, and who is about to resubscribe still is.
<1>1. ASSUME UNCHANGED <<exchange, lastSub, conn, authenticated, broken, subscribed>>,
             main' \in {"connect", "lock", "dialling", "subscribe"} =>
                 main \in {"connect", "lock", "dialling", "subscribe"},
             \A c \in Ids : rec[c] \in {"resub", "send"} => rec'[c] \in {"resub", "send"}
      PROVE  SubInv'
  BY <1>1 DEF SubInv
\* The connection goes away.
<1>2. ASSUME conn' = 0, UNCHANGED <<exchange, lastSub>>,
             main' \in {"connect", "lock", "dialling", "subscribe"} =>
                 main \in {"connect", "lock", "dialling", "subscribe"}
      PROVE  SubInv'
  BY <1>2 DEF SubInv
<1>3. ASSUME Connect \/ CloseSignals \/ ReadMessage PROVE SubInv'
  BY <1>1, <1>3 DEF Connect, CloseSignals, ReadMessage, connVars
<1>4. ASSUME ConnectDials PROVE SubInv'
  <2>1. Main \in 1..MaxConns + 1 /\ ~lastSub /\ UNCHANGED <<exchange, lastSub, rec>>
    BY <1>4 DEF ConnectDials, SubInv, Main
  <2>2. CASE main = "lock" /\ DialLocked(Main)
    BY <2>1, <2>2 DEF DialLocked, SubInv
  <2>3. CASE main = "dialling" /\ DialEnds
    <3>1. mu = Main
      BY <2>3 DEF ConnInv, MuInv
    <3>2. conn' # 0 /\ exchange = "polygon" => authenticated'
      BY <2>1, <2>3, <3>1, DialOver DEF SubInv, connVars
    <3> QED
      BY <2>1, <3>2 DEF SubInv
  <2> QED
    BY <1>4, <2>2, <2>3 DEF ConnectDials
<1>5. ASSUME Subscribe PROVE SubInv'
  <2>1. main' = "running" /\ exchange' = exchange /\ rec' = rec
    BY <1>5 DEF Subscribe
  <2>2. PICK ok \in BOOLEAN : SendSubscription(ok)
    BY <1>5 DEF Subscribe
  <2> QED
    BY <2>1, <2>2, SendReaches DEF SubInv
<1>6. ASSUME CloseReturns PROVE SubInv'
  BY <1>2, <1>6 DEF CloseReturns
<1>7. ASSUME NEW c \in Ids, ReadLoopFetch(c) \/ ReadLoopReads(c) \/ ReadLoopSend(c)
                            \/ ReadLoopDrop(c) \/ ReadLoopBlock(c)
      PROVE  SubInv'
  BY <1>1, <1>7 DEF ReadLoopFetch, ReadLoopReads, ReadLoopSend, ReadLoopDrop, ReadLoopBlock,
     ReaderUnchanged, connVars
<1>8. ASSUME NEW c \in Ids, ReadLoopFails(c) PROVE SubInv'
  <2>1. rec[c] = "off"
    BY <1>8 DEF ReadLoopFails, ConnInv, FreshInv
  <2> QED
    BY <1>0, <1>1, <1>8, <2>1 DEF ReadLoopFails, ReaderUnchanged, connVars
<1>9. ASSUME NEW c \in Ids, rec[c] \notin {"resub", "send"}, NEW r, rec' = [rec EXCEPT ![c] = r],
             UNCHANGED <<exchange, lastSub, main, connVars>>
      PROVE  SubInv'
  BY <1>0, <1>1, <1>9 DEF connVars
<1>10. ASSUME NEW c \in Ids, ReconnectEnter(c) PROVE SubInv'
  BY <1>9, <1>10 DEF ReconnectEnter, RecUnchanged
<1>11. ASSUME NEW c \in Ids, ReconnectLoop(c) PROVE SubInv'
  BY <1>9, <1>11 DEF ReconnectLoop, RecUnchanged
<1>12. ASSUME NEW c \in Ids, ReconnectWait(c) PROVE SubInv'
  BY <1>9, <1>12 DEF ReconnectWait, RecUnchanged
<1>13. ASSUME NEW c \in Ids, ReconnectDial(c) PROVE SubInv'
  <2>1. c \in 1..MaxConns + 1 /\ UNCHANGED <<exchange, lastSub, main>>
    BY <1>13 DEF Ids, ReconnectDial, RecUnchanged
  <2>2. CASE rec[c] = "dial" /\ rec' = [rec EXCEPT ![c] = "lock"] /\ UNCHANGED connVars
    BY <1>9, <2>1, <2>2
  <2>3. CASE DialLocked(c)
    BY <1>2, <2>1, <2>3 DEF DialLocked
  <2>4. CASE rec[c] = "dialling" /\ DialEnds
             /\ rec' = [rec EXCEPT ![c] = IF state' = "connected" THEN "resub" ELSE "loop"]
    <3>1. mu = c
      BY <2>4 DEF ConnInv, MuInv
    <3>2. CASE state' = "connected"
      <4>1. rec'[c] = "resub"
        BY <1>0, <2>4, <3>2
      <4>2. exchange = "polygon" => authenticated'
        BY <2>1, <2>4, <3>1, <3>2, DialOver
      <4> QED
        BY <2>1, <4>1, <4>2 DEF SubInv
    <3>3. CASE state' # "connected"
      <4>1. conn' = 0
        BY <2>1, <2>4, <3>1, <3>3, DialOver DEF connVars
      <4> QED
        BY <1>2, <2>1, <4>1
    <3> QED
      BY <3>2, <3>3
  <2> QED
    BY <1>13, <2>2, <2>3, <2>4 DEF ReconnectDial
<1>14. ASSUME NEW c \in Ids, ReconnectReadsSub(c) PROVE SubInv'
  <2>1. UNCHANGED <<exchange, lastSub, main, connVars>>
    BY <1>14 DEF ReconnectReadsSub, RecUnchanged
  <2>2. CASE lastSub
    BY <1>0, <1>1, <1>14, <2>1, <2>2 DEF ReconnectReadsSub, connVars
  <2>3. CASE ~lastSub
    BY <2>1, <2>3 DEF SubInv, connVars
  <2> QED
    BY <2>2, <2>3
<1>15. ASSUME NEW c \in Ids, ReconnectResubscribes(c) PROVE SubInv'
  <2>1. UNCHANGED <<exchange, lastSub, main>>
    BY <1>15 DEF ReconnectResubscribes, RecUnchanged
  <2>2. PICK ok \in BOOLEAN : SendSubscription(ok)
    BY <1>15 DEF ReconnectResubscribes
  <2> QED
    BY <2>1, <2>2, SendReaches DEF SubInv
<1>16. ASSUME ConnectionBreaks PROVE SubInv'
  BY <1>16 DEF ConnectionBreaks, SubInv, ctlVars
<1>17. ASSUME Idle \/ UNCHANGED feedVars PROVE SubInv'
  BY <1>1, <1>17 DEF Idle, feedVars, connVars, ctlVars
<1> QED
  BY <1>3, <1>4, <1>5, <1>6, <1>7, <1>8, <1>10, <1>11, <1>12, <1>13, <1>14, <1>15, <1>16, <1>17
     DEF Next, MainStep, ReaderStep, ReconnectStep

\* "Auto-resubscribe after every reconnection" for any number of overlapping reconnects,
\* lost connections and failed dials: once no reconnect runs, a connection that works
\* carries the subscription (polygon.go, binance.go: reconnect, Subscribe, sendSubscription).
THEOREM ResubscribedAlways == FeedSpec => []ResubscribedWhenQuiet
<1>1. Init => SubInv
  BY DEF Init, SubInv
<1>2. ConnInv /\ SubInv /\ [Next]_feedVars => (ConnInv /\ SubInv)'
  BY ConnStep, SubStep
<1>3. SubInv => ResubscribedWhenQuiet
  BY DEF SubInv, ResubscribedWhenQuiet, Reconnecting
<1> QED
  BY <1>1, <1>2, <1>3, ConnInit, PTL DEF FeedSpec

-----------------------------------------------------------------------------
(* The counter of dropped messages.                                        *)

\* The readLoops that have raised the counter and not yet taken a message out.
Dropping == {c \in Ids : reader[c] = "drop"}

LossInv == lost + Cardinality(Dropping) <= dropped

\* There are finitely many readers.
LEMMA DroppingFinite ==
    /\ IsFiniteSet(Dropping) /\ Cardinality(Dropping) \in Nat
    /\ IsFiniteSet(Dropping') /\ Cardinality(Dropping') \in Nat
<1>1. IsFiniteSet(Ids)
  BY FeedAssumption, FS_Interval DEF Ids
<1>2. Dropping \subseteq Ids /\ Dropping' \subseteq Ids
  BY DEF Dropping
<1> QED
  BY <1>1, <1>2, FS_Subset, FS_CardinalityType

\* Every step keeps LossInv.
LEMMA LossStep ==
    ASSUME ConnInv, LossInv, [Next]_feedVars
    PROVE  LossInv'
<1> USE FeedAssumption
<1>0. /\ lost \in Nat /\ dropped \in Nat
      /\ reader \in [Ids -> {"off", "fetch", "read", "send", "drop", "block"}]
      /\ Cardinality(Dropping) \in Nat /\ Cardinality(Dropping') \in Nat
  BY DroppingFinite DEF ConnInv, FeedTypes
<1>1. ASSUME UNCHANGED <<lost, dropped>>, Dropping' \subseteq Dropping PROVE LossInv'
  <2>1. Cardinality(Dropping') <= Cardinality(Dropping)
    BY <1>1, DroppingFinite, FS_Subset
  <2> QED
    BY <1>0, <1>1, <2>1 DEF LossInv
<1>2. ASSUME NEW c \in Ids, ReadLoopSend(c) PROVE LossInv'
  <2>1. CASE Len(msgChan) < ChanCap
    BY <1>0, <1>1, <1>2, <2>1 DEF ReadLoopSend, Dropping
  <2>2. CASE ~(Len(msgChan) < ChanCap)
    <3>1. Dropping' = Dropping \cup {c} /\ c \notin Dropping
      BY <1>0, <1>2, <2>2 DEF ReadLoopSend, Dropping
    <3>2. Cardinality(Dropping \cup {c}) = Cardinality(Dropping) + 1
      BY <3>1, DroppingFinite, FS_AddElement, Zenon
    <3>3. dropped' = dropped + 1 /\ lost' = lost
      BY <1>2, <2>2 DEF ReadLoopSend, DropCount
    <3> QED
      BY <1>0, <3>1, <3>2, <3>3 DEF LossInv
  <2> QED
    BY <2>1, <2>2
<1>3. ASSUME NEW c \in Ids, ReadLoopDrop(c) PROVE LossInv'
  <2>1. Dropping' = Dropping \ {c} /\ c \in Dropping
    BY <1>0, <1>3 DEF ReadLoopDrop, Dropping
  <2>2. Cardinality(Dropping \ {c}) = Cardinality(Dropping) - 1
    BY <2>1, DroppingFinite, FS_RemoveElement, Zenon
  <2>3. dropped' = dropped /\ (lost' = lost \/ lost' = lost + 1)
    BY <1>3 DEF ReadLoopDrop
  <2> QED
    BY <1>0, <2>1, <2>2, <2>3 DEF LossInv
<1>4. ASSUME NEW c \in Ids, ReadLoopFetch(c) \/ ReadLoopReads(c) \/ ReadLoopFails(c)
                            \/ ReadLoopBlock(c)
      PROVE  LossInv'
  <2>1. UNCHANGED <<lost, dropped>>
    BY <1>4 DEF ReadLoopFetch, ReadLoopReads, ReadLoopFails, ReadLoopBlock, chanVars
  <2>2. Dropping' \subseteq Dropping
    BY <1>0, <1>4 DEF ReadLoopFetch, ReadLoopReads, ReadLoopFails, ReadLoopBlock, Dropping
  <2> QED
    BY <1>1, <2>1, <2>2
<1>5. ASSUME DialEnds, UNCHANGED <<lost, dropped>> PROVE LossInv'
  <2>1. Dropping' \subseteq Dropping
    BY <1>0, <1>5 DEF DialEnds, DialAndAuth, DialAndSetup, Installs, DialFails, Dropping
  <2> QED
    BY <1>1, <1>5, <2>1
<1>6. ASSUME UNCHANGED <<reader, lost, dropped>> PROVE LossInv'
  BY <1>1, <1>6 DEF Dropping
<1>7. ASSUME ConnectDials PROVE LossInv'
  BY <1>5, <1>6, <1>7 DEF ConnectDials, chanVars
<1>8. ASSUME Connect \/ Subscribe \/ CloseReturns \/ CloseSignals \/ ReadMessage PROVE LossInv'
  BY <1>6, <1>8 DEF Connect, Subscribe, CloseReturns, CloseSignals, ReadMessage, chanVars
<1>9. ASSUME NEW c \in Ids, ReconnectDial(c) PROVE LossInv'
  BY <1>5, <1>6, <1>9 DEF ReconnectDial, chanVars
<1>10. ASSUME NEW c \in Ids, ReconnectEnter(c) \/ ReconnectLoop(c) \/ ReconnectWait(c)
                             \/ ReconnectReadsSub(c) \/ ReconnectResubscribes(c)
       PROVE  LossInv'
  BY <1>6, <1>10 DEF ReconnectEnter, ReconnectLoop, ReconnectWait, ReconnectReadsSub,
     ReconnectResubscribes, chanVars
<1>11. ASSUME ConnectionBreaks \/ Idle \/ UNCHANGED feedVars PROVE LossInv'
  BY <1>6, <1>11 DEF ConnectionBreaks, Idle, feedVars, chanVars, ctlVars
<1> QED
  BY <1>2, <1>3, <1>4, <1>7, <1>8, <1>9, <1>10, <1>11
     DEF Next, MainStep, ReaderStep, ReconnectStep

\* For any channel capacity and any number of readLoops at once: a message taken out of a
\* full channel was counted before, whoever empties the channel in between
\* (polygon.go, binance.go: readLoop, droppedMessages).
THEOREM LossesCountedAlways == FeedSpec => []LossesAreCounted
<1>1. Init => LossInv
  <2> SUFFICES ASSUME Init PROVE LossInv
    OBVIOUS
  <2>1. Dropping = {} /\ lost = 0 /\ dropped = 0
    BY DEF Init, Dropping
  <2>2. Cardinality(Dropping) = 0
    BY <2>1, FS_EmptySet
  <2> QED
    BY <2>1, <2>2 DEF LossInv
<1>2. ConnInv /\ LossInv /\ [Next]_feedVars => (ConnInv /\ LossInv)'
  BY ConnStep, LossStep
<1>3. ConnInv /\ LossInv => LossesAreCounted
  BY DroppingFinite DEF ConnInv, FeedTypes, LossInv, LossesAreCounted
<1> QED
  BY <1>1, <1>2, <1>3, ConnInit, PTL DEF FeedSpec
=============================================================================

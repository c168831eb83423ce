------------------------- MODULE OrderManagerProofs -------------------------
(***************************************************************************)
(* Theorems about the bridge's OrderManager, alone and with its client,    *)
(* for any number of signals, threads, retries, restarts and any window.   *)
(***************************************************************************)
EXTENDS TradeExecution, FiniteSetTheorems, TLAPS

\* The lock is held exactly by the thread that is sending an order.
LockInv == \A t \in Threads : pc[t] = "sending" <=> lock = t

\* Nothing is dated in the future.
ClockInv ==
    /\ \A s \in DOMAIN recent : recent[s] <= now
    /\ \A i \in DOMAIN orders : orders[i].epoch <= epoch

\* An order of this process is remembered by _recent_signals (or by a later
\* registration of its id), or it is older than the window.
MemoryInv ==
    \A i \in DOMAIN orders :
        orders[i].epoch = epoch =>
            IF orders[i].sig \in DOMAIN recent
              THEN \/ recent[orders[i].sig] = orders[i].at
                   \/ recent[orders[i].sig] - orders[i].at > DedupWindow
              ELSE now - orders[i].at > DedupWindow

\* The order being sent is registered, and no order of its id is within the window.
SendingInv ==
    \A t \in Threads :
        pc[t] = "sending" =>
            /\ sig[t] \in DOMAIN recent
            /\ recent[sig[t]] = since[t]
            /\ \A i \in DOMAIN orders :
                  orders[i].epoch = epoch /\ orders[i].sig = sig[t]
                      => since[t] - orders[i].at > DedupWindow

\* The parts that speak of registrations and orders.
OrderInv == ClockInv /\ MemoryInv /\ SendingInv /\ DedupSpacing

-----------------------------------------------------------------------------
\* A new order is well-formed when its thread is sending.
LEMMA NewOrderTyped ==
    ASSUME TypeOK, NEW t \in Threads, pc[t] = "sending",
           NEW st \in {"open", "pending"}
    PROVE  /\ NewOrder(t, st) \in OrderRecord
           /\ Append(orders, NewOrder(t, st)) \in Seq(OrderRecord)
BY DEF TypeOK, NewOrder, OrderRecord

\* The fields of an order in the history.
LEMMA OrderFields ==
    ASSUME TypeOK, NEW i \in DOMAIN orders
    PROVE  /\ i \in Nat /\ orders[i] \in OrderRecord
           /\ orders[i].at \in Nat /\ orders[i].epoch \in Nat /\ orders[i].sig \in Signals
<1>1. i \in Nat /\ orders[i] \in OrderRecord
  BY DEF TypeOK
<1> QED
  BY <1>1 DEF OrderRecord

\* A step of the bridge keeps the types and the meaning of the lock.  The two go
\* together: a restart reads the signal of the thread that holds the lock.
LEMMA TypeStep ==
    ASSUME TypeOK, LockInv, [Next]_omVars
    PROVE  TypeOK' /\ LockInv'
<1> USE SignalsAssumption, ThreadsAssumption, BoundsAssumption
<1>1. ASSUME NEW t \in Threads, NEW s \in Signals, NEW ts \in Stamps(s), Submit(t, s, ts)
      PROVE  TypeOK' /\ LockInv'
  <2>1. ts \in Nat \cup {NoStamp}
    BY <1>1 DEF Stamps, TypeOK
  <2> QED
    BY <1>1, <2>1 DEF TypeOK, LockInv, Submit
<1>2. ASSUME NEW t \in Threads, RejectEarly(t) PROVE TypeOK' /\ LockInv'
  BY <1>2 DEF TypeOK, LockInv, RejectEarly, Finish, Statuses
<1>3. ASSUME NEW t \in Threads, ConnectorDown(t) PROVE TypeOK' /\ LockInv'
  BY <1>3 DEF TypeOK, LockInv, ConnectorDown, Finish, Statuses
<1>4. ASSUME NEW t \in Threads, RejectByMarket(t) PROVE TypeOK' /\ LockInv'
  BY <1>4 DEF TypeOK, LockInv, RejectByMarket, Finish, Statuses
<1>5. ASSUME NEW t \in Threads, Register(t) PROVE TypeOK' /\ LockInv'
  BY <1>5 DEF TypeOK, LockInv, Register, Registered
<1>6. ASSUME NEW t \in Threads, OrderDone(t) PROVE TypeOK' /\ LockInv'
  <2>1. orders' \in Seq(OrderRecord)
    BY <1>6, NewOrderTyped DEF OrderDone
  <2>2. TypeOK'
    BY <1>6, <2>1 DEF TypeOK, OrderDone, Finish, Statuses, CleanedUp, Restrict
  <2>3. LockInv'
    BY <1>6 DEF TypeOK, LockInv, OrderDone, Finish
  <2> QED
    BY <2>2, <2>3
<1>7. ASSUME NEW t \in Threads, OrderRefused(t) PROVE TypeOK' /\ LockInv'
  BY <1>7 DEF TypeOK, LockInv, OrderRefused, Finish, Statuses, CleanedUp, Restrict
<1>8. ASSUME NEW t \in Threads, OrderError(t) PROVE TypeOK' /\ LockInv'
  <2>1. orders' \in Seq(OrderRecord)
    <3>1. CASE UNCHANGED orders
      BY <3>1 DEF TypeOK
    <3>2. ASSUME NEW st \in {"open", "pending"}, orders' = Append(orders, NewOrder(t, st))
          PROVE  orders' \in Seq(OrderRecord)
      BY <1>8, <3>2, NewOrderTyped DEF OrderError
    <3> QED
      BY <1>8, <3>1, <3>2 DEF OrderError
  <2> QED
    BY <1>8, <2>1 DEF TypeOK, LockInv, OrderError, Finish, Statuses
<1>9. ASSUME NEW t \in Threads, Reply(t) PROVE TypeOK' /\ LockInv'
  BY <1>9 DEF TypeOK, LockInv, Reply, Statuses, NoStamp
<1>10. ASSUME Restart PROVE TypeOK' /\ LockInv'
  <2>1. orders' \in Seq(OrderRecord)
    <3>1. CASE UNCHANGED orders
      BY <3>1 DEF TypeOK
    <3>2. CASE lock # NoThread /\ ~UNCHANGED orders
      <4>1. lock \in Threads /\ pc[lock] = "sending"
        BY <3>2 DEF TypeOK, LockInv
      <4>2. PICK st \in {"open", "pending"} : orders' = Append(orders, NewOrder(lock, st))
        BY <1>10, <3>2 DEF Restart
      <4> QED
        BY <4>1, <4>2, NewOrderTyped
    <3> QED
      BY <1>10, <3>1, <3>2 DEF Restart
  <2> QED
    BY <1>10, <2>1 DEF TypeOK, LockInv, Restart, Statuses, NoStamp
<1>11. ASSUME NEW i \in DOMAIN orders, ClosePosition(i) \/ TriggerPending(i)
       PROVE  TypeOK' /\ LockInv'
  <2>1. orders' \in Seq(OrderRecord)
    <3>1. PICK st \in {"open", "closed"} : orders' = [orders EXCEPT ![i].state = st]
      BY <1>11 DEF ClosePosition, TriggerPending
    <3>2. [orders[i] EXCEPT !.state = st] \in OrderRecord
      <4>1. orders[i] \in OrderRecord
        BY <1>11 DEF TypeOK
      <4> QED
        BY <4>1 DEF OrderRecord
    <3>3. orders' = [orders EXCEPT ![i] = [orders[i] EXCEPT !.state = st]]
      BY <3>1
    <3> QED
      BY <1>11, <3>2, <3>3 DEF TypeOK
  <2> QED
    BY <1>11, <2>1 DEF TypeOK, LockInv, ClosePosition, TriggerPending
<1>12. ASSUME Tick PROVE TypeOK' /\ LockInv'
  BY <1>12 DEF TypeOK, LockInv, Tick
<1>13. ASSUME UNCHANGED omVars PROVE TypeOK' /\ LockInv'
  BY <1>13 DEF TypeOK, LockInv, omVars
<1> QED
  BY <1>1, <1>2, <1>3, <1>4, <1>5, <1>6, <1>7, <1>8, <1>9, <1>10, <1>11, <1>12, <1>13
     DEF Next, ThreadStep, Broker

\* The bridge starts well-typed with a free lock.
LEMMA TypeInit == Init => TypeOK /\ LockInv
BY SignalsAssumption, ThreadsAssumption DEF Init, TypeOK, LockInv, NoStamp, Statuses

\* Every handler of the bridge leaves the table of recent ids, the threads' states
\* and the order history well-formed (order_manager.py:71-157).
THEOREM TypeCorrect == Spec => []TypeOK
<1>1. Init => TypeOK /\ LockInv
  BY TypeInit
<1>2. TypeOK /\ LockInv /\ [Next]_omVars => (TypeOK /\ LockInv)'
  BY TypeStep
<1> QED
  BY <1>1, <1>2, PTL DEF Spec

-----------------------------------------------------------------------------
\* Steps that touch neither the table, the orders, the clock nor a sending thread.
LEMMA OrderInvFrame ==
    ASSUME OrderInv,
           UNCHANGED <<now, recent, epoch, orders>>,
           \A t \in Threads : pc'[t] = "sending" =>
               pc[t] = "sending" /\ sig'[t] = sig[t] /\ since'[t] = since[t]
    PROVE  OrderInv'
<1>1. ClockInv' /\ MemoryInv' /\ DedupSpacing'
  BY DEF OrderInv, ClockInv, MemoryInv, DedupSpacing
<1>2. SendingInv'
  BY DEF OrderInv, SendingInv
<1> QED
  BY <1>1, <1>2 DEF OrderInv

\* Appending an order adds one ticket and keeps the others.
LEMMA AppendedOrders ==
    ASSUME TypeOK, NEW o \in OrderRecord, orders' = Append(orders, o)
    PROVE  /\ DOMAIN orders' = DOMAIN orders \cup {Len(orders) + 1}
           /\ orders'[Len(orders) + 1] = o
           /\ \A i \in DOMAIN orders : orders'[i] = orders[i] /\ i < Len(orders) + 1
BY DEF TypeOK

\* The end of order_send, with or without an order, with or without the cleanup.
LEMMA EndOfSend ==
    ASSUME TypeOK, LockInv, OrderInv, NEW t \in Threads, pc[t] = "sending",
           pc' = [pc EXCEPT ![t] = "done"],
           recent' = recent \/ recent' = CleanedUp,
           orders' = orders \/ \E st \in {"open", "pending"} :
                                  orders' = Append(orders, NewOrder(t, st)),
           UNCHANGED <<now, sig, since, epoch>>
    PROVE  OrderInv'
<1> USE BoundsAssumption DEF OrderInv
<1>1. \A s \in DOMAIN recent : now - recent[s] <= DedupWindow => s \in DOMAIN recent'
  BY DEF CleanedUp, Restrict
<1>2. \A s \in DOMAIN recent' : s \in DOMAIN recent /\ recent'[s] = recent[s]
  BY DEF CleanedUp, Restrict
<1>3. \A u \in Threads : pc'[u] # "sending"
  BY DEF TypeOK, LockInv
<1>4. SendingInv'
  BY <1>3 DEF SendingInv
<1>5. sig[t] \in DOMAIN recent /\ recent[sig[t]] = since[t] /\ since[t] \in Nat
  BY DEF SendingInv, TypeOK
<1>6. CASE orders' = orders
  <2>1. ClockInv' /\ DedupSpacing'
    BY <1>6, <1>2 DEF ClockInv, DedupSpacing
  <2>2. MemoryInv'
    <3> SUFFICES ASSUME NEW i \in DOMAIN orders, orders[i].epoch = epoch
                 PROVE  IF orders[i].sig \in DOMAIN recent'
                          THEN \/ recent'[orders[i].sig] = orders[i].at
                               \/ recent'[orders[i].sig] - orders[i].at > DedupWindow
                          ELSE now - orders[i].at > DedupWindow
      BY <1>6 DEF MemoryInv
    <3>1. orders[i].at \in Nat /\ now \in Nat /\ \A s \in DOMAIN recent : recent[s] \in Nat
      BY OrderFields DEF TypeOK
    <3> QED
      BY <3>1, <1>1, <1>2 DEF MemoryInv, ClockInv
  <2> QED
    BY <2>1, <2>2, <1>4
<1>7. ASSUME NEW st \in {"open", "pending"}, orders' = Append(orders, NewOrder(t, st))
      PROVE  OrderInv'
  <2> DEFINE n == Len(orders) + 1
  <2>1. /\ DOMAIN orders' = DOMAIN orders \cup {n}
        /\ orders'[n] = NewOrder(t, st)
        /\ \A i \in DOMAIN orders : orders'[i] = orders[i] /\ i < n
    BY <1>7, AppendedOrders, NewOrderTyped
  <2>2. /\ orders'[n].sig = sig[t] /\ orders'[n].at = since[t] /\ orders'[n].epoch = epoch
    BY <2>1 DEF NewOrder
  <2>3. n \in Nat /\ now \in Nat /\ epoch \in Nat
        /\ \A s \in DOMAIN recent : recent[s] \in Nat
    BY DEF TypeOK
  <2>4. \A i \in DOMAIN orders : i \in Nat /\ orders[i].at \in Nat /\ orders[i].epoch \in Nat
    BY OrderFields
  <2> HIDE DEF n
  <2>5. ClockInv'
    BY <2>1, <2>2, <2>3, <2>4, <1>2 DEF ClockInv
  <2>6. MemoryInv'
    <3>1. ASSUME NEW i \in DOMAIN orders, orders[i].epoch = epoch
          PROVE  IF orders[i].sig \in DOMAIN recent'
                   THEN \/ recent'[orders[i].sig] = orders[i].at
                        \/ recent'[orders[i].sig] - orders[i].at > DedupWindow
                   ELSE now - orders[i].at > DedupWindow
      BY <3>1, <2>3, <2>4, <1>1, <1>2 DEF MemoryInv, ClockInv
    <3>2. IF sig[t] \in DOMAIN recent'
            THEN recent'[sig[t]] = since[t]
            ELSE now - since[t] > DedupWindow
      BY <1>1, <1>2, <1>5, <2>3
    <3> QED
      BY <2>1, <2>2, <3>1, <3>2 DEF MemoryInv
  <2>7. DedupSpacing'
    <3> SUFFICES ASSUME NEW i \in DOMAIN orders', NEW j \in DOMAIN orders',
                        i < j, orders'[i].sig = orders'[j].sig,
                        orders'[i].epoch = orders'[j].epoch
                 PROVE  orders'[j].at - orders'[i].at > DedupWindow
      BY DEF DedupSpacing
    <3>0. i \in DOMAIN orders /\ orders'[i] = orders[i]
      BY <2>1, <2>3, <2>4
    <3>1. CASE j = n
      <4>1. orders[i].sig = sig[t] /\ orders[i].epoch = epoch
        BY <3>0, <3>1, <2>2
      <4>2. since[t] - orders[i].at > DedupWindow
        BY <3>0, <4>1 DEF SendingInv
      <4> QED
        BY <3>0, <3>1, <4>2, <2>2
    <3>2. CASE j # n
      <4>1. j \in DOMAIN orders /\ orders'[j] = orders[j]
        BY <3>2, <2>1
      <4> QED
        BY <3>0, <4>1 DEF DedupSpacing
    <3> QED
      BY <3>1, <3>2
  <2> QED
    BY <2>5, <2>6, <2>7, <1>4
<1> QED
  BY <1>6, <1>7

\* Every step of the bridge keeps OrderInv.
LEMMA OrderStep ==
    ASSUME TypeOK, LockInv, OrderInv, [Next]_omVars
    PROVE  OrderInv'
<1> USE SignalsAssumption, ThreadsAssumption, BoundsAssumption
<1>1. ASSUME NEW t \in Threads, NEW s \in Signals, NEW ts \in Stamps(s), Submit(t, s, ts)
      PROVE  OrderInv'
  BY <1>1, OrderInvFrame DEF TypeOK, Submit
<1>2. ASSUME NEW t \in Threads, RejectEarly(t) \/ ConnectorDown(t) \/ RejectByMarket(t)
      PROVE  OrderInv'
  BY <1>2, OrderInvFrame DEF TypeOK, RejectEarly, ConnectorDown, RejectByMarket, Finish
<1>3. ASSUME NEW t \in Threads, Register(t) PROVE OrderInv'
  <2>1. /\ sig[t] \in Signals /\ sig[t] \notin DOMAIN recent /\ now \in Nat
        /\ DOMAIN recent' = DOMAIN recent \cup {sig[t]}
        /\ recent'[sig[t]] = now
        /\ \A s \in DOMAIN recent : recent[s] \in Nat /\ recent'[s] = recent[s]
    BY <1>3 DEF Register, Duplicated, Registered, TypeOK
  <2>2. UNCHANGED <<now, epoch, orders, sig>>
    BY <1>3 DEF Register
  <2>3. ClockInv' /\ DedupSpacing'
    BY <2>1, <2>2 DEF OrderInv, ClockInv, DedupSpacing
  <2>4. \A i \in DOMAIN orders : orders[i].epoch = epoch /\ orders[i].sig = sig[t]
            => now - orders[i].at > DedupWindow
    BY <2>1 DEF OrderInv, MemoryInv
  <2>5. MemoryInv'
    BY <2>1, <2>2, <2>4 DEF OrderInv, MemoryInv
  <2>6. SendingInv'
    <3>1. \A u \in Threads : pc'[u] = "sending" => u = t
      BY <1>3 DEF Register, LockInv, TypeOK
    <3>2. since'[t] = now
      BY <1>3 DEF Register, TypeOK
    <3> QED
      BY <2>1, <2>2, <2>4, <3>1, <3>2 DEF SendingInv
  <2> QED
    BY <2>3, <2>5, <2>6 DEF OrderInv
<1>4. ASSUME NEW t \in Threads, OrderDone(t) PROVE OrderInv'
  BY <1>4, EndOfSend DEF OrderDone, Finish
<1>5. ASSUME NEW t \in Threads, OrderRefused(t) PROVE OrderInv'
  BY <1>5, EndOfSend DEF OrderRefused, Finish
<1>6. ASSUME NEW t \in Threads, OrderError(t) PROVE OrderInv'
  BY <1>6, EndOfSend DEF OrderError, Finish
<1>7. ASSUME NEW t \in Threads, Reply(t) PROVE OrderInv'
  BY <1>7, OrderInvFrame DEF TypeOK, Reply
<1>8. ASSUME Restart PROVE OrderInv'
  <2> USE DEF OrderInv
  <2>1. DOMAIN recent' = {} /\ (\A u \in Threads : pc'[u] # "sending") /\ now' = now
        /\ epoch' = epoch + 1 /\ epoch \in Nat
    BY <1>8 DEF Restart, TypeOK
  <2>2. SendingInv'
    BY <2>1 DEF SendingInv
  <2>3. CASE orders' = orders
    BY <2>1, <2>2, <2>3, OrderFields DEF ClockInv, MemoryInv, DedupSpacing
  <2>4. ASSUME NEW st \in {"open", "pending"}, lock # NoThread,
               orders' = Append(orders, NewOrder(lock, st))
        PROVE  OrderInv'
    <3> DEFINE n == Len(orders) + 1
    <3>1. lock \in Threads /\ pc[lock] = "sending"
      BY <2>4 DEF TypeOK, LockInv
    <3>2. /\ DOMAIN orders' = DOMAIN orders \cup {n}
          /\ orders'[n] = NewOrder(lock, st)
          /\ \A i \in DOMAIN orders : orders'[i] = orders[i] /\ i < n
      BY <2>4, <3>1, AppendedOrders, NewOrderTyped
    <3>3. orders'[n].sig = sig[lock] /\ orders'[n].at = since[lock] /\ orders'[n].epoch = epoch
      BY <3>2 DEF NewOrder
    <3>4. n \in Nat
      BY DEF TypeOK
    <3> HIDE DEF n
    <3>5. \A i \in DOMAIN orders' : orders'[i].epoch <= epoch /\ orders'[i].epoch \in Nat
      BY <3>2, <3>3, <2>1, OrderFields DEF ClockInv
    <3>6. ClockInv' /\ MemoryInv'
      BY <2>1, <3>5 DEF ClockInv, MemoryInv
    <3>7. DedupSpacing'
      <4> SUFFICES ASSUME NEW i \in DOMAIN orders', NEW j \in DOMAIN orders',
                          i < j, orders'[i].sig = orders'[j].sig,
                          orders'[i].epoch = orders'[j].epoch
                   PROVE  orders'[j].at - orders'[i].at > DedupWindow
        BY DEF DedupSpacing
      <4>1. CASE j = n
        BY <4>1, <3>1, <3>2, <3>3, <3>4, OrderFields DEF SendingInv
      <4>2. CASE j # n
        BY <4>2, <3>2, <3>4, OrderFields DEF DedupSpacing
      <4> QED
        BY <4>1, <4>2
    <3> QED
      BY <2>2, <3>6, <3>7
  <2> QED
    BY <1>8, <2>3, <2>4 DEF Restart
<1>9. ASSUME NEW k \in DOMAIN orders, ClosePosition(k) \/ TriggerPending(k)
      PROVE  OrderInv'
  <2>1. UNCHANGED <<now, recent, epoch, pc, sig, since>>
    BY <1>9 DEF ClosePosition, TriggerPending
  <2>2. PICK st \in {"open", "closed"} : orders' = [orders EXCEPT ![k].state = st]
    BY <1>9 DEF ClosePosition, TriggerPending
  <2>3. DOMAIN orders' = DOMAIN orders
        /\ \A i \in DOMAIN orders : /\ orders'[i].sig = orders[i].sig
                                   /\ orders'[i].at = orders[i].at
                                   /\ orders'[i].epoch = orders[i].epoch
    BY <2>2, OrderFields DEF TypeOK, OrderRecord
  <2>4. ClockInv' /\ DedupSpacing'
    BY <2>1, <2>3 DEF OrderInv, ClockInv, DedupSpacing
  <2>5. MemoryInv'
    BY <2>1, <2>3 DEF OrderInv, MemoryInv
  <2>6. SendingInv'
    BY <2>1, <2>3 DEF OrderInv, SendingInv
  <2> QED
    BY <2>4, <2>5, <2>6 DEF OrderInv
<1>10. ASSUME Tick PROVE OrderInv'
  <2>1. now' = now + 1 /\ now \in Nat /\ UNCHANGED <<recent, epoch, orders, pc, sig, since>>
        /\ \A s \in DOMAIN recent : recent[s] \in Nat
    BY <1>10 DEF Tick, TypeOK
  <2>2. ClockInv' /\ MemoryInv'
    BY <2>1, OrderFields DEF OrderInv, ClockInv, MemoryInv
  <2>3. SendingInv' /\ DedupSpacing'
    BY <2>1 DEF OrderInv, SendingInv, DedupSpacing
  <2> QED
    BY <2>2, <2>3 DEF OrderInv
<1>11. ASSUME UNCHANGED omVars PROVE OrderInv'
  BY <1>11, OrderInvFrame DEF omVars
<1> QED
  BY <1>1, <1>2, <1>3, <1>4, <1>5, <1>6, <1>7, <1>8, <1>9, <1>10, <1>11
     DEF Next, ThreadStep, Broker

\* De-duplication for every number of signals, threads, orders and restarts: the
\* table of recent ids, registered under the lock before order_send and cleaned
\* only of entries older than the window, keeps two orders of one id from one
\* bridge process more than the window apart (order_manager.py:90-157, 421-428).
THEOREM DedupCorrect == Spec => []DedupSpacing
<1>1. Init => TypeOK /\ LockInv /\ OrderInv
  <2>1. Init => OrderInv
    BY DEF Init, OrderInv, ClockInv, MemoryInv, SendingInv, DedupSpacing
  <2> QED
    BY <2>1, TypeInit
<1>2. TypeOK /\ LockInv /\ OrderInv /\ [Next]_omVars => (TypeOK /\ LockInv /\ OrderInv)'
  BY TypeStep, OrderStep
<1>3. OrderInv => DedupSpacing
  BY DEF OrderInv
<1> QED
  BY <1>1, <1>2, <1>3, PTL DEF Spec

-----------------------------------------------------------------------------
\* While an order is being sent there is room for it; only limit orders are pending.
LimitInv ==
    /\ \A i \in DOMAIN orders : orders[i].state = "pending" => orders[i].sig \in LimitSignals
    /\ lock = NoThread => Cardinality(MarketPositions) <= MaxPositions
    /\ lock # NoThread => Cardinality(MarketPositions) < MaxPositions

\* The open positions are finitely many.
LEMMA OpenFinite ==
    ASSUME TypeOK
    PROVE  /\ IsFiniteSet(OpenTickets) /\ Cardinality(OpenTickets) \in Nat
           /\ IsFiniteSet(MarketPositions) /\ Cardinality(MarketPositions) \in Nat
           /\ Cardinality(MarketPositions) <= Cardinality(OpenTickets)
<1>1. Len(orders) \in Nat /\ OpenTickets \subseteq 1..Len(orders)
  BY DEF TypeOK, OpenTickets
<1>2. IsFiniteSet(1..Len(orders))
  BY <1>1, FS_Interval
<1>3. IsFiniteSet(OpenTickets)
  BY <1>1, <1>2, FS_Subset
<1>4. MarketPositions \subseteq OpenTickets
  BY DEF MarketPositions
<1> QED
  BY <1>3, <1>4, FS_Subset, FS_CardinalityType

\* One more order means at most one more position opened at market.
LEMMA OneMoreOpen ==
    ASSUME TypeOK, NEW t \in Threads, pc[t] = "sending", NEW st \in {"open", "pending"},
           orders' = Append(orders, NewOrder(t, st))
    PROVE  Cardinality(MarketPositions)' <= Cardinality(MarketPositions) + 1
           /\ Cardinality(MarketPositions)' \in Nat
<1> DEFINE n == Len(orders) + 1
<1>1. /\ DOMAIN orders' = DOMAIN orders \cup {n}
      /\ \A i \in DOMAIN orders : orders'[i] = orders[i]
  BY AppendedOrders, NewOrderTyped
<1>2. MarketPositions' \subseteq MarketPositions \cup {n}
  BY <1>1 DEF MarketPositions, OpenTickets
<1> HIDE DEF n
<1>3. IsFiniteSet(MarketPositions \cup {n})
      /\ Cardinality(MarketPositions \cup {n}) <= Cardinality(MarketPositions) + 1
      /\ Cardinality(MarketPositions) \in Nat
  <2>1. IsFiniteSet(MarketPositions) /\ Cardinality(MarketPositions) \in Nat
    BY OpenFinite
  <2>2. /\ IsFiniteSet(MarketPositions \cup {n})
        /\ Cardinality(MarketPositions \cup {n}) =
             IF n \in MarketPositions THEN Cardinality(MarketPositions) ELSE Cardinality(MarketPositions) + 1
    BY <2>1, FS_AddElement, Zenon
  <2> QED
    BY <2>1, <2>2
<1>4. IsFiniteSet(MarketPositions') /\ Cardinality(MarketPositions') <= Cardinality(MarketPositions \cup {n})
  BY <1>2, <1>3, FS_Subset
<1> QED
  BY <1>3, <1>4, FS_CardinalityType

\* Every step keeps LimitInv when positions_get() is reliable.
LEMMA LimitStep ==
    ASSUME PositionsGetMayFail = FALSE,
           TypeOK, LockInv, LimitInv, [Next]_omVars
    PROVE  LimitInv'
<1> USE ThreadsAssumption, BoundsAssumption
<1>0. Cardinality(MarketPositions) \in Nat
  BY OpenFinite
<1>1. ASSUME UNCHANGED <<orders, lock>> PROVE LimitInv'
  BY <1>1 DEF LimitInv, MarketPositions, OpenTickets
<1>2. ASSUME NEW t \in Threads, Register(t) PROVE LimitInv'
  <2>1. Cardinality(OpenTickets) < MaxPositions /\ UNCHANGED orders
    BY <1>2 DEF Register, RoomForPosition, ReportedOpen
  <2>2. Cardinality(MarketPositions) < MaxPositions
    BY <2>1, OpenFinite
  <2> QED
    BY <2>1, <2>2, <1>0 DEF LimitInv, MarketPositions, OpenTickets
<1>3. ASSUME NEW t \in Threads, pc[t] = "sending", lock' = NoThread,
             NEW st \in {"open", "pending"}, st = "pending" => sig[t] \in LimitSignals,
             UNCHANGED orders \/ orders' = Append(orders, NewOrder(t, st))
      PROVE  LimitInv'
  <2>1. lock # NoThread
    BY <1>3 DEF LockInv
  <2>2. CASE UNCHANGED orders
    BY <1>0, <1>3, <2>1, <2>2 DEF LimitInv, MarketPositions, OpenTickets
  <2>3. CASE orders' = Append(orders, NewOrder(t, st))
    <3>1. Cardinality(MarketPositions)' <= Cardinality(MarketPositions) + 1
          /\ Cardinality(MarketPositions)' \in Nat
      BY <1>3, <2>3, OneMoreOpen
    <3>2. Cardinality(MarketPositions)' <= MaxPositions
      BY <1>0, <2>1, <3>1 DEF LimitInv
    <3>3. \A i \in DOMAIN orders' :
             orders'[i].state = "pending" => orders'[i].sig \in LimitSignals
      BY <1>3, <2>3, AppendedOrders, NewOrderTyped DEF LimitInv, NewOrder
    <3> QED
      BY <1>3, <3>2, <3>3 DEF LimitInv
  <2> QED
    BY <1>3, <2>2, <2>3
<1>4. ASSUME NEW t \in Threads, OrderDone(t) \/ OrderRefused(t) \/ OrderError(t)
      PROVE  LimitInv'
  BY <1>3, <1>4 DEF OrderDone, OrderRefused, OrderError
<1>5. ASSUME Restart PROVE LimitInv'
  <2>1. CASE lock = NoThread
    BY <1>1, <1>5, <2>1 DEF Restart
  <2>2. CASE lock # NoThread
    <3>1. lock \in Threads /\ pc[lock] = "sending"
      BY <2>2 DEF TypeOK, LockInv
    <3> QED
      BY <1>3, <1>5, <3>1 DEF Restart
  <2> QED
    BY <2>1, <2>2
<1>6. ASSUME NEW k \in DOMAIN orders, NEW st \in {"open", "closed"}, lock' = lock,
             st = "open" => orders[k].state = "pending",
             orders' = [orders EXCEPT ![k].state = st]
      PROVE  LimitInv'
  <2>1. /\ DOMAIN orders' = DOMAIN orders
        /\ \A i \in DOMAIN orders :
              /\ orders'[i].state = IF i = k THEN st ELSE orders[i].state
              /\ orders'[i].sig = orders[i].sig
    BY <1>6, OrderFields DEF TypeOK, OrderRecord
  <2>2. MarketPositions' \subseteq MarketPositions
    BY <1>6, <2>1 DEF MarketPositions, OpenTickets, LimitInv
  <2>3. /\ Cardinality(MarketPositions') <= Cardinality(MarketPositions)
        /\ Cardinality(MarketPositions') \in Nat
    BY <2>2, OpenFinite, FS_Subset, FS_CardinalityType
  <2> QED
    BY <1>0, <1>6, <2>1, <2>3 DEF LimitInv
<1>7. ASSUME NEW k \in DOMAIN orders, ClosePosition(k) \/ TriggerPending(k) PROVE LimitInv'
  BY <1>6, <1>7 DEF ClosePosition, TriggerPending
<1>8. ASSUME NEW t \in Threads,
             \/ \E s \in Signals : \E ts \in Stamps(s) : Submit(t, s, ts)
             \/ RejectEarly(t) \/ ConnectorDown(t) \/ RejectByMarket(t) \/ Reply(t)
      PROVE  LimitInv'
  BY <1>1, <1>8 DEF Submit, RejectEarly, ConnectorDown, RejectByMarket, Reply
<1>9. ASSUME Tick \/ UNCHANGED omVars PROVE LimitInv'
  BY <1>1, <1>9 DEF Tick, omVars
<1> QED
  BY <1>2, <1>4, <1>5, <1>7, <1>8, <1>9 DEF Next, ThreadStep, Broker

\* The position limit for any number of threads and signals (order_manager.py:90-91,
\* 214-220): as long as positions_get() answers, the check and the fill of a market
\* order cannot be separated by another request, a failed order_send or a restart.
THEOREM PositionLimitHolds ==
    ASSUME PositionsGetMayFail = FALSE
    PROVE  Spec => []PositionLimit
<1>1. Init => TypeOK /\ LockInv /\ LimitInv
  <2>1. Init => MarketPositions = {} /\ lock = NoThread /\ DOMAIN orders = {}
    BY DEF Init, MarketPositions, OpenTickets
  <2>2. Init => LimitInv
    <3>1. Cardinality({}) = 0
      BY FS_EmptySet
    <3>2. ASSUME Init PROVE Cardinality(MarketPositions) <= MaxPositions
      <4>1. Cardinality(MarketPositions) = 0
        BY <2>1, <3>1, <3>2
      <4> QED
        BY <4>1, BoundsAssumption
    <3> QED
      BY <2>1, <3>2 DEF LimitInv
  <2> QED
    BY <2>2, TypeInit
<1>2. TypeOK /\ LockInv /\ LimitInv /\ [Next]_omVars => (TypeOK /\ LockInv /\ LimitInv)'
  BY TypeStep, LimitStep
<1>3. TypeOK /\ LimitInv => PositionLimit
  BY OpenFinite, BoundsAssumption DEF LimitInv, PositionLimit
<1> QED
  BY <1>1, <1>2, <1>3, PTL DEF Spec

-----------------------------------------------------------------------------
(* The client and the bridge together: what is proved of the bridge alone  *)
(* holds in the composition, the circuit breaker bounds the attempts, and  *)
(* under a condition on the wait for the lock a signal is executed at most *)
(* once and the composition implements SignalExecution.                    *)

\* Every step of the composition is a step of the bridge or leaves it alone: the client
\* submits issued signals without a timestamp and touches nothing else of the bridge.
LEMMA BridgeSide ==
    ASSUME ClientTypeOK, phase # "idle" => cur \in Signals, [SysNext]_vars
    PROVE  [Next]_omVars
<1>1. ASSUME NEW t \in Threads, Deliver(t) PROVE Next
  <2>1. cur \in Signals /\ NoStamp \in Stamps(cur) /\ Submit(t, cur, NoStamp)
    BY <1>1, ClientAssumption DEF Deliver, Stamps
  <2> QED
    BY <1>1, <2>1 DEF Next
<1>2. ASSUME NEW t \in Threads, Receive(t) \/ DiscardReply(t) \/ BridgeStep(t) PROVE Next
  BY <1>2 DEF Receive, DiscardReply, BridgeStep, Next
<1>3. ASSUME BridgeRestart \/ BrokerStep \/ SysTick PROVE Next
  BY <1>3 DEF BridgeRestart, BrokerStep, SysTick, Next
<1>4. ASSUME NEW s \in Signals, SendSignal(s) \/ CircuitRefuses(s) PROVE UNCHANGED omVars
  BY <1>4 DEF SendSignal, CircuitRefuses
<1>5. ASSUME RpcDeadline \/ RpcFails \/ Retry PROVE UNCHANGED omVars
  BY <1>5 DEF RpcDeadline, RpcFails, Retry, AttemptFails
<1>6. ASSUME Quiet \/ UNCHANGED vars PROVE UNCHANGED omVars
  BY <1>6 DEF Quiet, vars
<1> QED
  BY <1>1, <1>2, <1>3, <1>4, <1>5, <1>6 DEF SysNext, ClientStep

\* How far send_signal is: a call in progress has a signal that was issued and an attempt
\* number, a backoff is followed by another attempt, and only an attempt has a thread.
CallInv ==
    /\ phase # "idle" => cur \in issued /\ attempt >= 1
    /\ phase = "backoff" => attempt < MaxRetries
    /\ serving # NoThread => phase = "rpc"

\* The client keeps its types and CallInv.
LEMMA ClientStepOK ==
    ASSUME TypeOK, ClientTypeOK, CallInv, [SysNext]_vars
    PROVE  ClientTypeOK' /\ CallInv'
<1> USE ClientAssumption, SignalsAssumption, ThreadsAssumption
<1>1. ASSUME NEW s \in Signals, SendSignal(s) PROVE ClientTypeOK' /\ CallInv'
  BY <1>1 DEF TypeOK, ClientTypeOK, CallInv, SendSignal
<1>2. ASSUME NEW s \in Signals, CircuitRefuses(s) PROVE ClientTypeOK' /\ CallInv'
  BY <1>2 DEF ClientTypeOK, CallInv, CircuitRefuses, Answers
<1>3. ASSUME NEW t \in Threads, Deliver(t) PROVE ClientTypeOK' /\ CallInv'
  BY <1>3 DEF ClientTypeOK, CallInv, Deliver
<1>4. ASSUME NEW a \in Answers, ReturnToLoop(a), phase # "idle", UNCHANGED issued,
             cbFailures' \in Nat, cbOpenSince' \in Nat
      PROVE  ClientTypeOK' /\ CallInv'
  BY <1>4 DEF ClientTypeOK, CallInv, ReturnToLoop
<1>5. ASSUME NEW t \in Threads, Receive(t) PROVE ClientTypeOK' /\ CallInv'
  <2>1. StatusSeen(status[t]) \in Answers
    BY DEF TypeOK, StatusSeen, Statuses, Answers
  <2> QED
    BY <1>4, <1>5, <2>1 DEF Receive, RecordSuccess, ClientTypeOK
<1>6. ASSUME phase = "rpc", AttemptFails PROVE ClientTypeOK' /\ CallInv'
  <2>1. cbFailures' \in Nat /\ cbOpenSince' \in Nat
    BY <1>6 DEF AttemptFails, RecordFailure, TypeOK, ClientTypeOK
  <2>2. CASE MayRetry
    BY <1>6, <2>1, <2>2 DEF AttemptFails, MayRetry, TypeOK, ClientTypeOK, CallInv
  <2>3. CASE ~MayRetry
    BY <1>4, <1>6, <2>1, <2>3 DEF AttemptFails, Answers
  <2> QED
    BY <2>2, <2>3
<1>7. ASSUME Retry PROVE ClientTypeOK' /\ CallInv'
  BY <1>7 DEF Retry, TypeOK, ClientTypeOK, CallInv
<1>8. ASSUME UNCHANGED clientVars PROVE ClientTypeOK' /\ CallInv'
  BY <1>8 DEF clientVars, ClientTypeOK, CallInv
<1> QED
  BY <1>1, <1>2, <1>3, <1>5, <1>6, <1>7, <1>8
     DEF SysNext, ClientStep, RpcDeadline, RpcFails, DiscardReply, BridgeStep,
         BridgeRestart, BrokerStep, SysTick, Quiet, vars

\* What every later proof starts from.
SysBase == TypeOK /\ LockInv /\ ClientTypeOK /\ CallInv

\* The composition starts in it.
LEMMA BaseInit == SysInit => SysBase
<1>1. SysInit => TypeOK /\ LockInv
  BY TypeInit DEF SysInit
<1>2. SysInit => ClientTypeOK /\ CallInv
  BY ClientAssumption DEF SysInit, ClientTypeOK, CallInv, Answers
<1> QED
  BY <1>1, <1>2 DEF SysBase

\* Every step keeps it and is a step of the order manager, or none.
LEMMA BaseStep ==
    ASSUME SysBase, [SysNext]_vars
    PROVE  SysBase' /\ [Next]_omVars
<1>1. phase # "idle" => cur \in Signals
  BY DEF SysBase, ClientTypeOK, CallInv
<1>2. [Next]_omVars
  BY <1>1, BridgeSide DEF SysBase
<1> QED
  BY <1>2, TypeStep, ClientStepOK DEF SysBase

\* The state of the client, of the bridge's threads and of the order history is
\* well-formed whatever is lost, late or restarted (grpc_client.py:229-295,
\* order_manager.py:71-157).
THEOREM SysTypeCorrect == SysSpec => []SysTypeOK
<1>1. SysBase => SysTypeOK
  BY DEF SysBase, SysTypeOK
<1> QED
  BY <1>1, BaseInit, BaseStep, PTL DEF SysSpec

\* The bridge inside the composition behaves as the bridge alone: send_signal with its
\* retries and lost answers is one of the clients OrderManager allows for, so all that is
\* proved of OrderManager holds of the composition (grpc_client.py:229-295, server.py).
THEOREM CompositionKeepsBridge == SysSpec => Spec
<1>1. SysInit => Init
  BY DEF SysInit
<1> QED
  BY <1>1, BaseInit, BaseStep, PTL DEF SysSpec, Spec

\* However send_signal repeats its calls, two orders of a signal from one bridge process
\* are more than the window apart (grpc_client.py:254-295, order_manager.py:97-105).
THEOREM DedupInComposition == SysSpec => []DedupSpacing
BY CompositionKeepsBridge, DedupCorrect, PTL

\* Nor do the retries of send_signal take the bridge over its position limit, as long as
\* positions_get() answers (grpc_client.py:254-295, order_manager.py:214-220).
THEOREM PositionLimitInComposition ==
    ASSUME PositionsGetMayFail = FALSE
    PROVE  SysSpec => []PositionLimit
BY CompositionKeepsBridge, PositionLimitHolds, PTL

-----------------------------------------------------------------------------
\* The recovery periods that have begun by time n, times the attempts of a call.
Allowed(n) == MaxRetries * (n \div CbRecovery)

\* More time, no fewer recovery periods; a whole period more, one more.
LEMMA PeriodsGrow ==
    ASSUME NEW m \in Nat, NEW n \in Nat, m <= n
    PROVE  /\ Allowed(m) \in Nat /\ Allowed(n) \in Nat
           /\ Allowed(m) <= Allowed(n)
           /\ n - m >= CbRecovery => Allowed(m) + MaxRetries <= Allowed(n)
<1> DEFINE p == m \div CbRecovery
           q == n \div CbRecovery
<1>1. p \in Nat /\ q \in Nat /\ p <= q /\ (n - m >= CbRecovery => p + 1 <= q)
  BY ClientAssumption
<1> HIDE DEF p, q
<1>2. /\ MaxRetries * p \in Nat /\ MaxRetries * q \in Nat
      /\ MaxRetries * p <= MaxRetries * q
      /\ p + 1 <= q => MaxRetries * p + MaxRetries <= MaxRetries * q
  BY <1>1, ClientAssumption
<1> QED
  BY <1>1, <1>2 DEF Allowed, p, q

\* Between two calls the failures are below the threshold, or the breaker was last tripped
\* at cbOpenSince; a call in progress has added one failure per attempt that is over.
BreakerInv ==
    /\ cbOpenSince <= now
    /\ phase = "idle" => \/ cbFailures <= CbThreshold - 1
                         \/ cbFailures <= CbThreshold - 1 + MaxRetries + Allowed(cbOpenSince)
    /\ phase = "rpc" => cbFailures <= CbThreshold - 1 + (attempt - 1) + Allowed(now)
    /\ phase = "backoff" => cbFailures <= CbThreshold - 1 + attempt + Allowed(now)

\* Every step keeps BreakerInv.
LEMMA BreakerStep ==
    ASSUME SysBase, BreakerInv, [SysNext]_vars
    PROVE  BreakerInv'
<1> USE ClientAssumption
<1>0. /\ now \in Nat /\ cbOpenSince \in Nat /\ cbFailures \in Nat /\ attempt \in Nat
      /\ attempt <= MaxRetries /\ cbOpenSince <= now
      /\ Allowed(now) \in Nat /\ Allowed(cbOpenSince) \in Nat
      /\ Allowed(cbOpenSince) <= Allowed(now)
  BY PeriodsGrow DEF SysBase, TypeOK, ClientTypeOK, BreakerInv
<1>1. ASSUME NEW s \in Signals, SendSignal(s) PROVE BreakerInv'
  <2>1. /\ phase = "idle" /\ ~CircuitOpen /\ phase' = "rpc" /\ attempt' = 1
        /\ UNCHANGED <<now, cbFailures, cbOpenSince>>
    BY <1>1 DEF SendSignal, omVars
  <2>2. cbFailures <= CbThreshold - 1 + Allowed(now)
    <3>1. CASE cbFailures <= CbThreshold - 1
      BY <1>0, <3>1
    <3>2. CASE ~(cbFailures <= CbThreshold - 1)
      <4>1. now - cbOpenSince >= CbRecovery
        BY <1>0, <2>1, <3>2 DEF CircuitOpen, Tripped
      <4>2. Allowed(cbOpenSince) + MaxRetries <= Allowed(now)
        BY <1>0, <4>1, PeriodsGrow
      <4> QED
        BY <1>0, <2>1, <3>2, <4>2 DEF BreakerInv
    <3> QED
      BY <3>1, <3>2
  <2> QED
    BY <1>0, <2>1, <2>2 DEF BreakerInv, Allowed
<1>2. ASSUME phase = "rpc", AttemptFails PROVE BreakerInv'
  <2>1. /\ cbFailures' = cbFailures + 1 /\ now' = now
        /\ cbOpenSince' = IF cbFailures + 1 >= CbThreshold THEN now ELSE cbOpenSince
    BY <1>2 DEF AttemptFails, RecordFailure, omVars
  <2>2. cbFailures' <= CbThreshold - 1 + attempt + Allowed(now)
    BY <1>0, <1>2, <2>1 DEF BreakerInv
  <2>3. CASE MayRetry
    BY <1>0, <1>2, <2>1, <2>2, <2>3 DEF AttemptFails, BreakerInv, Allowed
  <2>4. CASE ~MayRetry
    <3>1. phase' = "idle" /\ attempt = MaxRetries
      BY <1>0, <1>2, <2>4 DEF AttemptFails, MayRetry, ReturnToLoop
    <3>2. \/ cbFailures' <= CbThreshold - 1
          \/ cbOpenSince' = now
      BY <1>0, <2>1
    <3> QED
      BY <1>0, <2>1, <2>2, <3>1, <3>2 DEF BreakerInv, Allowed
  <2> QED
    BY <2>3, <2>4
<1>3. ASSUME NEW t \in Threads, Receive(t) PROVE BreakerInv'
  BY <1>0, <1>3 DEF Receive, RecordSuccess, ReturnToLoop, Reply, BreakerInv, Allowed
<1>4. ASSUME Retry PROVE BreakerInv'
  BY <1>0, <1>4 DEF Retry, BreakerInv, Allowed, omVars
<1>5. ASSUME UNCHANGED <<phase, attempt, cbFailures, cbOpenSince>>, now' = now \/ now' = now + 1
      PROVE  BreakerInv'
  <2>1. now' \in Nat /\ now <= now' /\ cbOpenSince <= now'
    BY <1>0, <1>5
  <2>2. Allowed(now) <= Allowed(now') /\ Allowed(now') \in Nat
    BY <1>0, <2>1, PeriodsGrow
  <2>3. CbThreshold \in Nat
    BY ClientAssumption
  <2> QED
    BY <1>0, <1>5, <2>1, <2>2, <2>3 DEF BreakerInv, Allowed
<1>6. ASSUME UNCHANGED clientVars, [Next]_omVars PROVE BreakerInv'
  <2>1. now' = now \/ now' = now + 1
    BY <1>6 DEF Next, ThreadStep, Broker, Submit, RejectEarly, ConnectorDown, RejectByMarket,
       Register, OrderDone, OrderRefused, OrderError, Reply, Restart, ClosePosition,
       TriggerPending, Tick, omVars
  <2> QED
    BY <1>5, <1>6, <2>1 DEF clientVars
<1>7. ASSUME NEW s \in Signals, CircuitRefuses(s) PROVE BreakerInv'
  BY <1>5, <1>7 DEF CircuitRefuses, omVars
<1>8. ASSUME NEW t \in Threads, Deliver(t) PROVE BreakerInv'
  BY <1>5, <1>8 DEF Deliver, Submit
<1> QED
  BY <1>1, <1>2, <1>3, <1>4, <1>6, <1>7, <1>8, BaseStep
     DEF SysNext, ClientStep, RpcDeadline, RpcFails, DiscardReply, BridgeStep,
         BridgeRestart, BrokerStep, SysTick, Quiet, vars

\* The breaker's bound for every threshold, number of retries and recovery time, over any
\* number of signals: although a retry never asks the breaker and a late answer resets it,
\* the failures counted stay within one call per recovery period beyond the threshold
\* (grpc_client.py:154-177, 244-295).
THEOREM BreakerBoundsAttempts == SysSpec => []BreakerLimitsAttempts
<1>1. SysInit => BreakerInv
  <2> SUFFICES ASSUME SysInit PROVE BreakerInv
    OBVIOUS
  <2>1. now = 0 /\ cbOpenSince = 0 /\ cbFailures = 0 /\ phase = "idle"
    BY DEF SysInit, Init
  <2> QED
    BY <2>1, ClientAssumption DEF BreakerInv
<1>2. SysBase /\ BreakerInv /\ [SysNext]_vars => (SysBase /\ BreakerInv)'
  BY BaseStep, BreakerStep
<1>3. SysBase /\ BreakerInv => BreakerLimitsAttempts
  <2> SUFFICES ASSUME SysBase, BreakerInv PROVE BreakerLimitsAttempts
    OBVIOUS
  <2>1. /\ now \in Nat /\ cbOpenSince \in Nat /\ cbFailures \in Nat /\ attempt \in Nat
        /\ attempt <= MaxRetries /\ cbOpenSince <= now
        /\ MaxRetries \in Nat /\ CbThreshold \in Nat
    BY ClientAssumption DEF SysBase, TypeOK, ClientTypeOK, BreakerInv
  <2>2. Allowed(cbOpenSince) <= Allowed(now) /\ Allowed(now) \in Nat
        /\ Allowed(cbOpenSince) \in Nat
    BY <2>1, PeriodsGrow
  <2>3. cbFailures <= CbThreshold - 1 + MaxRetries + Allowed(now)
    BY <2>1, <2>2 DEF BreakerInv, SysBase, ClientTypeOK
  <2>4. MaxRetries * (1 + now \div CbRecovery) = MaxRetries + Allowed(now)
    <3> DEFINE q == now \div CbRecovery
    <3>1. q \in Nat
      BY <2>1, ClientAssumption
    <3> HIDE DEF q
    <3>2. MaxRetries * (1 + q) = MaxRetries + MaxRetries * q
      BY <2>1, <3>1
    <3> QED
      BY <3>2 DEF Allowed, q
  <2> HIDE DEF Allowed
  <2>5. cbFailures <= CbThreshold - 1 + (MaxRetries + Allowed(now))
    BY <2>1, <2>2, <2>3
  <2> QED
    BY <2>4, <2>5 DEF BreakerLimitsAttempts
<1> QED
  BY <1>1, <1>2, <1>3, BaseInit, PTL DEF SysSpec

-----------------------------------------------------------------------------
(* At most one execution.  _execution_lock is not fair: a repeated call may *)
(* wait behind it while others come and go, and when it outlasts the window *)
(* its id is forgotten.  The theorems below show that this, and a restart,  *)
(* are the only ways to a second order.                                     *)

\* No call still waits for the lock when the order of its signal is out of the window.
ServedInWindow ==
    \A t \in Threads : \A i \in DOMAIN orders :
        pc[t] = "waiting" /\ sig[t] = orders[i].sig /\ orders[i].epoch = epoch
            => now - orders[i].at <= DedupWindow

\* The order being sent is the first one of its signal in this life of the bridge.
FirstInv ==
    \A t \in Threads : \A i \in DOMAIN orders :
        pc[t] = "sending" /\ orders[i].epoch = epoch => orders[i].sig # sig[t]

OncePerLife ==
    \A i, j \in DOMAIN orders :
        orders[i].sig = orders[j].sig /\ orders[i].epoch = orders[j].epoch => i = j

\* An order is appended by the thread that sends it.
LEMMA OnceAppend ==
    ASSUME TypeOK, FirstInv, OncePerLife, NEW t \in Threads, pc[t] = "sending",
           NEW st \in {"open", "pending"}, orders' = Append(orders, NewOrder(t, st))
    PROVE  OncePerLife'
<1> DEFINE n == Len(orders) + 1
<1>1. /\ DOMAIN orders' = DOMAIN orders \cup {n}
      /\ orders'[n] = NewOrder(t, st)
      /\ \A i \in DOMAIN orders : orders'[i] = orders[i] /\ i < n
  BY AppendedOrders, NewOrderTyped
<1>2. orders'[n].sig = sig[t] /\ orders'[n].epoch = epoch
  BY <1>1 DEF NewOrder
<1> HIDE DEF n
<1> QED
  BY <1>1, <1>2 DEF FirstInv, OncePerLife

\* Every step of the order manager keeps one order per signal and life.
LEMMA OnceStep ==
    ASSUME TypeOK, LockInv, OrderInv, FirstInv, OncePerLife, ServedInWindow, [Next]_omVars
    PROVE  FirstInv' /\ OncePerLife'
<1> USE SignalsAssumption, ThreadsAssumption, BoundsAssumption
<1>1. ASSUME UNCHANGED <<orders, epoch>>,
             \A t \in Threads : pc'[t] = "sending" => pc[t] = "sending" /\ sig'[t] = sig[t]
      PROVE  FirstInv' /\ OncePerLife'
  BY <1>1 DEF FirstInv, OncePerLife
<1>2. ASSUME NEW t \in Threads, Register(t) PROVE FirstInv' /\ OncePerLife'
  <2>1. UNCHANGED <<orders, epoch, sig>> /\ \A u \in Threads : pc'[u] = "sending" => u = t
    BY <1>2 DEF Register, LockInv, TypeOK
  <2>2. \A i \in DOMAIN orders : orders[i].epoch = epoch => orders[i].sig # sig[t]
    <3> SUFFICES ASSUME NEW i \in DOMAIN orders, orders[i].epoch = epoch, orders[i].sig = sig[t]
                 PROVE  FALSE
      OBVIOUS
    <3>1. now - orders[i].at > DedupWindow
      BY <1>2 DEF Register, Duplicated, OrderInv, MemoryInv
    <3>2. now - orders[i].at <= DedupWindow
      BY <1>2 DEF Register, ServedInWindow
    <3> QED
      BY <3>1, <3>2, OrderFields DEF TypeOK
  <2> QED
    BY <2>1, <2>2 DEF FirstInv, OncePerLife
<1>3. ASSUME NEW t \in Threads, pc[t] = "sending", \A u \in Threads : pc'[u] # "sending",
             \/ UNCHANGED orders
             \/ \E st \in {"open", "pending"} : orders' = Append(orders, NewOrder(t, st))
      PROVE  FirstInv' /\ OncePerLife'
  BY <1>3, OnceAppend DEF FirstInv, OncePerLife
<1>4. ASSUME NEW t \in Threads, OrderDone(t) \/ OrderRefused(t) \/ OrderError(t)
      PROVE  FirstInv' /\ OncePerLife'
  <2>1. pc[t] = "sending" /\ \A u \in Threads : pc'[u] # "sending"
    BY <1>4 DEF OrderDone, OrderRefused, OrderError, Finish, LockInv, TypeOK
  <2> QED
    BY <1>3, <1>4, <2>1 DEF OrderDone, OrderRefused, OrderError
<1>5. ASSUME Restart PROVE FirstInv' /\ OncePerLife'
  <2>1. \A u \in Threads : pc'[u] # "sending"
    BY <1>5 DEF Restart
  <2>2. CASE UNCHANGED orders
    BY <2>1, <2>2 DEF FirstInv, OncePerLife
  <2>3. CASE lock # NoThread
    <3>1. lock \in Threads /\ pc[lock] = "sending"
      BY <2>3 DEF TypeOK, LockInv
    <3> QED
      BY <1>3, <1>5, <2>1, <3>1 DEF Restart
  <2> QED
    BY <1>5, <2>2, <2>3 DEF Restart
<1>6. ASSUME NEW k \in DOMAIN orders, ClosePosition(k) \/ TriggerPending(k)
      PROVE  FirstInv' /\ OncePerLife'
  <2>1. UNCHANGED <<epoch, pc, sig>>
    BY <1>6 DEF ClosePosition, TriggerPending
  <2>2. PICK st \in {"open", "closed"} : orders' = [orders EXCEPT ![k].state = st]
    BY <1>6 DEF ClosePosition, TriggerPending
  <2>3. DOMAIN orders' = DOMAIN orders
        /\ \A i \in DOMAIN orders : /\ orders'[i].sig = orders[i].sig
                                   /\ orders'[i].epoch = orders[i].epoch
    BY <2>2, OrderFields DEF TypeOK, OrderRecord
  <2> QED
    BY <2>1, <2>3 DEF FirstInv, OncePerLife
<1>7. ASSUME NEW t \in Threads,
             \/ \E s \in Signals : \E ts \in Stamps(s) : Submit(t, s, ts)
             \/ RejectEarly(t) \/ ConnectorDown(t) \/ RejectByMarket(t) \/ Reply(t)
      PROVE  FirstInv' /\ OncePerLife'
  BY <1>1, <1>7 DEF TypeOK, Submit, RejectEarly, ConnectorDown, RejectByMarket, Reply, Finish
<1>8. ASSUME Tick \/ UNCHANGED omVars PROVE FirstInv' /\ OncePerLife'
  BY <1>1, <1>8 DEF Tick, omVars
<1> QED
  BY <1>2, <1>4, <1>5, <1>6, <1>7, <1>8 DEF Next, ThreadStep, Broker

\* The order history while the bridge lives on: one life, each signal once in it.
OneLifeInv == OrderInv /\ FirstInv /\ OncePerLife /\ epoch = 0

\* No orders at the start.
LEMMA OneLifeInit == SysInit => OneLifeInv
BY DEF SysInit, Init, OneLifeInv, OrderInv, ClockInv, MemoryInv, SendingInv, DedupSpacing,
       FirstInv, OncePerLife

\* Without restarts every step keeps OneLifeInv.
LEMMA OneLifeStep ==
    ASSUME MaxRestarts = 0, SysBase, OneLifeInv, ServedInWindow, [SysNext]_vars
    PROVE  OneLifeInv'
<1>1. [Next]_omVars
  BY BaseStep
<1>2. OrderInv' /\ FirstInv' /\ OncePerLife'
  BY <1>1, OrderStep, OnceStep DEF SysBase, OneLifeInv
<1>3. epoch' = epoch
  <2>1. ~Restart
    BY DEF Restart, OneLifeInv
  <2> QED
    BY <1>1, <2>1 DEF Next, ThreadStep, Broker, Submit, RejectEarly, ConnectorDown,
       RejectByMarket, Register, OrderDone, OrderRefused, OrderError, Reply, ClosePosition,
       TriggerPending, Tick, omVars
<1> QED
  BY <1>2, <1>3 DEF OneLifeInv

\* One order per life is one order, as long as there is one life.
LEMMA OneLifeOnce == SysBase /\ OneLifeInv => AtMostOnce
<1> SUFFICES ASSUME SysBase, OneLifeInv PROVE AtMostOnce
  OBVIOUS
<1>1. \A i \in DOMAIN orders : orders[i].epoch = 0
  BY OrderFields DEF SysBase, OneLifeInv, OrderInv, ClockInv
<1> QED
  BY <1>1 DEF OneLifeInv, OncePerLife, AtMostOnce

\* However the attempts of send_signal overlap in the bridge's threads, a signal is
\* executed at most once, as long as the bridge is not restarted and no call is kept
\* waiting for the lock until its id leaves the window (order_manager.py:90-157,
\* grpc_client.py:254-295).
THEOREM ExecutedAtMostOnce ==
    ASSUME MaxRestarts = 0
    PROVE  SysSpec /\ []ServedInWindow => []AtMostOnce
<1>1. SysBase /\ OneLifeInv /\ ServedInWindow /\ [SysNext]_vars => (SysBase /\ OneLifeInv)'
  BY BaseStep, OneLifeStep
<1> QED
  BY <1>1, BaseInit, OneLifeInit, OneLifeOnce, PTL DEF SysSpec

-----------------------------------------------------------------------------
(* The refinement of SignalExecution.                                      *)

Trades == [i \in DOMAIN orders |-> orders[i].sig]

\* Threads work for signals that were issued, the one that serves the client for the
\* signal the client sends, and FILLED is the answer of a thread whose order is there.
ServeInv ==
    \A t \in Threads :
        /\ pc[t] # "idle" => sig[t] \in issued
        /\ pc[t] # "idle" /\ serving = t => sig[t] = cur
        /\ status[t] = "FILLED" => pc[t] = "done" /\ sig[t] \in Range(Trades)

\* An order that is appended adds its signal to the trades.
LEMMA TradesAppend ==
    ASSUME TypeOK, NEW o \in OrderRecord, orders' = Append(orders, o)
    PROVE  Trades' = Append(Trades, o.sig)
<1> DEFINE n == Len(orders) + 1
<1>0. n \in Nat /\ Len(orders) \in Nat /\ DOMAIN orders = 1..Len(orders)
  BY DEF TypeOK
<1>1. /\ DOMAIN orders' = DOMAIN orders \cup {n}
      /\ orders'[n] = o
      /\ \A i \in DOMAIN orders : orders'[i] = orders[i] /\ i < n
  BY AppendedOrders
<1>2. Trades \in Seq(Signals) /\ Len(Trades) = Len(orders) /\ o.sig \in Signals
  BY <1>0, OrderFields DEF Trades, OrderRecord
<1>3. DOMAIN orders' = 1..n
  BY <1>0, <1>1
<1>4. DOMAIN Append(Trades, o.sig) = 1..n
      /\ \A i \in 1..n : Append(Trades, o.sig)[i] = IF i = n THEN o.sig ELSE Trades[i]
  BY <1>2
<1>5. Trades' = [i \in 1..n |-> orders'[i].sig]
  BY <1>3 DEF Trades
<1>6. \A i \in 1..n : orders'[i].sig = Append(Trades, o.sig)[i]
  BY <1>0, <1>1, <1>4 DEF Trades
<1>7. Append(Trades, o.sig) = [i \in 1..n |-> Append(Trades, o.sig)[i]]
  BY <1>2, <1>4
<1> QED
  BY <1>5, <1>6, <1>7

\* A step of the bridge adds the order of the thread that sends, or no trade at all.
LEMMA TradesStep ==
    ASSUME TypeOK, LockInv, [Next]_omVars
    PROVE  \/ Trades' = Trades
           \/ \E t \in Threads : pc[t] = "sending" /\ Trades' = Append(Trades, sig[t])
<1>1. CASE UNCHANGED orders
  BY <1>1 DEF Trades
<1>2. ASSUME NEW t \in Threads, pc[t] = "sending", NEW st \in {"open", "pending"},
             orders' = Append(orders, NewOrder(t, st))
      PROVE  Trades' = Append(Trades, sig[t])
  BY <1>2, NewOrderTyped, TradesAppend DEF NewOrder
<1>3. ASSUME NEW t \in Threads, OrderDone(t) \/ OrderError(t), ~UNCHANGED orders
      PROVE  pc[t] = "sending" /\ Trades' = Append(Trades, sig[t])
  BY <1>2, <1>3 DEF OrderDone, OrderError
<1>4. ASSUME Restart, ~UNCHANGED orders
      PROVE  lock \in Threads /\ pc[lock] = "sending" /\ Trades' = Append(Trades, sig[lock])
  <2>1. lock \in Threads /\ pc[lock] = "sending"
    BY <1>4 DEF Restart, TypeOK, LockInv
  <2> QED
    BY <1>2, <1>4, <2>1 DEF Restart
<1>5. ASSUME NEW k \in DOMAIN orders, ClosePosition(k) \/ TriggerPending(k)
      PROVE  Trades' = Trades
  <2>1. PICK st \in {"open", "closed"} : orders' = [orders EXCEPT ![k].state = st]
    BY <1>5 DEF ClosePosition, TriggerPending
  <2>2. DOMAIN orders' = DOMAIN orders /\ \A i \in DOMAIN orders : orders'[i].sig = orders[i].sig
    BY <2>1, OrderFields DEF TypeOK, OrderRecord
  <2> QED
    BY <2>2 DEF Trades
<1> QED
  BY <1>1, <1>3, <1>4, <1>5
     DEF Next, ThreadStep, Broker, Submit, RejectEarly, ConnectorDown, RejectByMarket,
         Register, OrderRefused, Reply, Tick, omVars

\* The signals traded so far stay traded.
LEMMA TradedStays ==
    ASSUME TypeOK, LockInv, [Next]_omVars
    PROVE  /\ Range(Trades) \subseteq Range(Trades')
           /\ \A t \in Threads : Trades' = Append(Trades, sig[t]) => sig[t] \in Range(Trades')
<1>0. DOMAIN orders = 1..Len(orders) /\ Len(orders) \in Nat
  BY DEF TypeOK
<1>1. Trades \in Seq(Signals) /\ \A t \in Threads : sig[t] \in Signals \cup {NoSignal}
  <2>1. Trades \in Seq(Signals)
    BY <1>0, OrderFields DEF Trades
  <2> QED
    BY <2>1 DEF TypeOK
<1>2. ASSUME NEW x \in Signals \cup {NoSignal}
      PROVE  Range(Append(Trades, x)) = Range(Trades) \cup {x}
  <2>1. Trades \in Seq(Signals \cup {NoSignal})
    BY <1>1
  <2>2. /\ Len(Trades) \in Nat /\ DOMAIN Trades = 1..Len(Trades)
        /\ DOMAIN Append(Trades, x) = 1..(Len(Trades) + 1)
        /\ \A i \in 1..(Len(Trades) + 1) :
              Append(Trades, x)[i] = IF i = Len(Trades) + 1 THEN x ELSE Trades[i]
    BY <2>1
  <2> QED
    BY <2>2 DEF Range
<1> QED
  BY <1>1, <1>2, TradesStep

\* Every step keeps ServeInv.
LEMMA ServeStep ==
    ASSUME SysBase, ServeInv, [SysNext]_vars
    PROVE  ServeInv'
<1> USE SignalsAssumption, ThreadsAssumption DEF SysBase
<1>0. [Next]_omVars /\ TypeOK' /\ Range(Trades) \subseteq Range(Trades')
  BY BaseStep, TradedStays
<1>1. ASSUME UNCHANGED <<pc, sig, status>>, issued \subseteq issued',
             \A t \in Threads : serving' = t => serving = t /\ cur' = cur
      PROVE  ServeInv'
  BY <1>0, <1>1 DEF ServeInv
<1>2. ASSUME NEW s \in Signals, SendSignal(s) PROVE ServeInv'
  BY <1>1, <1>2 DEF SendSignal, omVars
<1>3. ASSUME NEW s \in Signals, CircuitRefuses(s) PROVE ServeInv'
  BY <1>1, <1>3 DEF CircuitRefuses, omVars
<1>4. ASSUME NEW t \in Threads, Deliver(t) PROVE ServeInv'
  <2>1. cur \in issued /\ pc[t] = "idle" /\ status[t] # "FILLED"
    BY <1>4 DEF Deliver, Submit, CallInv, ServeInv
  <2> QED
    BY <1>0, <1>4, <2>1 DEF Deliver, Submit, ServeInv, TypeOK
<1>5. ASSUME RpcDeadline \/ RpcFails PROVE ServeInv'
  BY <1>1, <1>5 DEF RpcDeadline, RpcFails, AttemptFails, ReturnToLoop, omVars
<1>6. ASSUME Retry PROVE ServeInv'
  BY <1>1, <1>6 DEF Retry, omVars
<1>7. ASSUME NEW t \in Threads, Reply(t), UNCHANGED issued,
             \A u \in Threads : serving' = u => serving = u /\ cur' = cur
      PROVE  ServeInv'
  BY <1>0, <1>7 DEF Reply, ServeInv, TypeOK
<1>8. ASSUME NEW t \in Threads, Receive(t) PROVE ServeInv'
  BY <1>7, <1>8 DEF Receive, ReturnToLoop
<1>9. ASSUME NEW t \in Threads, DiscardReply(t) PROVE ServeInv'
  BY <1>7, <1>9 DEF DiscardReply, clientVars
<1>10. ASSUME NEW t \in Threads, pc[t] # "idle", NEW st \in Statuses, Finish(t, st),
              st = "FILLED" => sig[t] \in Range(Trades'), UNCHANGED <<sig, clientVars>>
       PROVE  ServeInv'
  BY <1>0, <1>10 DEF Finish, ServeInv, TypeOK, clientVars
<1>11. ASSUME NEW t \in Threads, BridgeStep(t) PROVE ServeInv'
  <2> USE DEF Statuses
  <2>1. CASE RejectEarly(t)
    BY <1>10, <1>11, <2>1 DEF BridgeStep, RejectEarly
  <2>2. CASE ConnectorDown(t)
    BY <1>10, <1>11, <2>2 DEF BridgeStep, ConnectorDown
  <2>3. CASE RejectByMarket(t)
    BY <1>10, <1>11, <2>3 DEF BridgeStep, RejectByMarket
  <2>4. CASE Register(t)
    BY <1>0, <1>11, <2>4 DEF BridgeStep, Register, ServeInv, TypeOK, clientVars
  <2>5. CASE OrderDone(t)
    <3>1. Trades' = Append(Trades, sig[t])
      <4>1. PICK st \in {"open", "pending"} : orders' = Append(orders, NewOrder(t, st))
        BY <2>5 DEF OrderDone
      <4> QED
        BY <2>5, <4>1, NewOrderTyped, TradesAppend DEF OrderDone, NewOrder
    <3>2. sig[t] \in Range(Trades')
      BY <1>0, <3>1, TradedStays
    <3> QED
      BY <1>10, <1>11, <2>5, <3>2 DEF BridgeStep, OrderDone
  <2>6. CASE OrderRefused(t)
    BY <1>10, <1>11, <2>6 DEF BridgeStep, OrderRefused
  <2>7. CASE OrderError(t)
    BY <1>10, <1>11, <2>7 DEF BridgeStep, OrderError
  <2> QED
    BY <1>11, <2>1, <2>2, <2>3, <2>4, <2>5, <2>6, <2>7 DEF BridgeStep, ThreadStep
<1>12. ASSUME BridgeRestart PROVE ServeInv'
  BY <1>0, <1>12 DEF BridgeRestart, Restart, ServeInv, clientVars
<1>13. ASSUME BrokerStep \/ SysTick \/ Quiet \/ UNCHANGED vars PROVE ServeInv'
  BY <1>1, <1>13 DEF BrokerStep, Broker, ClosePosition, TriggerPending, SysTick, Tick, Quiet,
     vars, omVars, clientVars
<1> QED
  BY <1>2, <1>3, <1>4, <1>5, <1>6, <1>8, <1>9, <1>11, <1>12, <1>13 DEF SysNext, ClientStep

\* Every step is one of SignalExecution's, or changes nothing it speaks of.
LEMMA RefinementStep ==
    ASSUME MaxRestarts = 0, SysBase, OneLifeInv, ServeInv, [SysNext]_vars
    PROVE  [Abstract!Next]_(Abstract!absVars)
<1> USE SignalsAssumption, ThreadsAssumption DEF SysBase
<1>0. [Next]_omVars
  BY BaseStep
<1>1. ASSUME Trades' = Trades, UNCHANGED <<issued, booked>>
      PROVE  UNCHANGED Abstract!absVars
  BY <1>1 DEF Abstract!absVars, Trades
<1>2. ASSUME NEW s \in Signals, s \notin issued, issued' = issued \cup {s}, Trades' = Trades,
             UNCHANGED booked
      PROVE  Abstract!Next
  BY <1>2 DEF Abstract!Next, Abstract!Issue, Trades
<1>3. ASSUME NEW s \in Signals, s \in Range(Trades), booked' = booked \cup {s}, Trades' = Trades,
             UNCHANGED issued
      PROVE  Abstract!Next
  BY <1>3 DEF Abstract!Next, Abstract!Book, Abstract!Range, Range, Trades
<1>4. ASSUME NEW s \in Signals, s \in issued, s \notin Range(Trades),
             Trades' = Append(Trades, s), UNCHANGED <<issued, booked>>
      PROVE  Abstract!Next
  BY <1>4 DEF Abstract!Next, Abstract!Trade, Abstract!Range, Range, Trades
<1>5. ASSUME NEW s \in Signals, SendSignal(s) \/ CircuitRefuses(s) PROVE Abstract!Next
  BY <1>2, <1>5 DEF SendSignal, CircuitRefuses, Trades, omVars
<1>6. ASSUME NEW t \in Threads, Receive(t)
      PROVE  [Abstract!Next]_(Abstract!absVars)
  <2>1. Trades' = Trades /\ UNCHANGED issued /\ serving = t /\ pc[t] = "done"
    BY <1>6 DEF Receive, Reply, Trades
  <2>2. CASE status[t] = "FILLED"
    <3>1. sig[t] = cur /\ cur \in Range(Trades) /\ cur \in Signals
      BY <2>1, <2>2 DEF ServeInv, TypeOK
    <3>2. booked' = booked \cup {cur}
      BY <1>6, <2>2 DEF Receive, ReturnToLoop, StatusSeen
    <3> QED
      BY <1>3, <2>1, <3>1, <3>2
  <2>3. CASE status[t] # "FILLED"
    BY <1>1, <1>6, <2>1, <2>3 DEF Receive, ReturnToLoop, StatusSeen
  <2> QED
    BY <2>2, <2>3
<1>7. ASSUME UNCHANGED <<issued, booked>>
      PROVE  [Abstract!Next]_(Abstract!absVars)
  <2>1. CASE Trades' = Trades
    BY <1>1, <1>7, <2>1
  <2>2. ASSUME NEW t \in Threads, pc[t] = "sending", Trades' = Append(Trades, sig[t])
        PROVE  Abstract!Next
    <3>1. sig[t] \in Signals /\ sig[t] \in issued
      BY <2>2 DEF ServeInv, TypeOK
    <3>2. sig[t] \notin Range(Trades)
      <4>1. \A i \in DOMAIN orders : orders[i].epoch = epoch
        BY OrderFields DEF OneLifeInv, OrderInv, ClockInv
      <4> QED
        BY <2>2, <4>1 DEF OneLifeInv, FirstInv, Range, Trades
    <3> QED
      BY <1>4, <1>7, <2>2, <3>1, <3>2
  <2> QED
    BY <1>0, <2>1, <2>2, TradesStep
<1>8. ASSUME RpcDeadline \/ RpcFails PROVE UNCHANGED <<issued, booked>>
  BY <1>8 DEF RpcDeadline, RpcFails, AttemptFails, ReturnToLoop
<1> QED
  BY <1>5, <1>6, <1>7, <1>8
     DEF SysNext, ClientStep, Deliver, Retry, DiscardReply, BridgeStep, BridgeRestart,
         BrokerStep, SysTick, Quiet, vars, clientVars

\* The engine and the bridge implement SignalExecution for any number of signals, threads,
\* retries and lost messages, as long as the bridge lives and serves waiting calls within
\* the window: each signal leads to at most one order, only an issued one does, and a fill
\* is booked only where there is an order (grpc_client.py:229-295, main.py:435-441,
\* order_manager.py:90-157).
THEOREM ImplementsAbstract ==
    ASSUME MaxRestarts = 0
    PROVE  SysSpec /\ []ServedInWindow => ImplementsSignalExecution
<1>1. SysInit => Abstract!Init
  BY DEF SysInit, Init, Abstract!Init
<1>2. SysInit => ServeInv
  BY DEF SysInit, Init, ServeInv
<1>3. SysBase /\ OneLifeInv /\ ServeInv /\ ServedInWindow /\ [SysNext]_vars
         => (SysBase /\ OneLifeInv /\ ServeInv)'
  BY BaseStep, OneLifeStep, ServeStep
<1>4. SysBase /\ OneLifeInv /\ ServeInv /\ [SysNext]_vars
         => [Abstract!Next]_(Abstract!absVars)
  BY RefinementStep
<1> QED
  BY <1>1, <1>2, <1>3, <1>4, BaseInit, OneLifeInit, PTL
     DEF SysSpec, ImplementsSignalExecution, Abstract!Spec
=============================================================================

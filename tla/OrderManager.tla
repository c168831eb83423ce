---------------------------- MODULE OrderManager ----------------------------
(***************************************************************************)
(* The execution side of the MT5 bridge: OrderManager.execute_signal, run  *)
(* by the worker threads of the gRPC server's executor, one at a time      *)
(* under _execution_lock, against the broker reached through MT5Connector. *)
(*                                                                         *)
(* A call is one job of a thread:                                          *)
(*    idle --Submit--> waiting --(lock)--> sending --> done --Reply--> idle *)
(* The steps from the acquisition of the lock to the registration of the   *)
(* signal id (duplicate check, validation) read and write nothing another  *)
(* thread may touch without the lock, so they are one action; the call to  *)
(* mt5.order_send takes time and is a state of its own.                    *)
(***************************************************************************)
EXTENDS Integers, Sequences, FiniteSets, Functions

CONSTANTS
    Signals,              \* signal ids
    WellFormed,           \* the ones with a direction, lots, a stop loss and coherent SL/TP
    LimitSignals,         \* the ones with order_type "LIMIT"
    Stamped,              \* the ones whose request carries timestamp_ms
    Threads,              \* worker threads of the executor
    NoThread,             \* nobody holds _execution_lock
    NoSignal,             \* an idle thread's signal
    MaxPositions,         \* max_position_count
    DedupWindow,          \* signal_dedup_window_sec
    SignalMaxAge,         \* signal_max_age_sec
    MaxSend,              \* longest mt5.order_send, in ticks
    PositionsGetMayFail,  \* mt5.positions_get() may return None
    MaxRestarts,          \* bound on restarts of the bridge process
    MaxTime               \* bound on the clock

NoStamp == -1             \* timestamp_ms absent from the request

ASSUME SignalsAssumption ==
    /\ WellFormed \subseteq Signals
    /\ LimitSignals \subseteq Signals
    /\ Stamped \subseteq Signals
    /\ NoSignal \notin Signals
ASSUME ThreadsAssumption == NoThread \notin Threads
ASSUME BoundsAssumption ==
    /\ MaxPositions \in Nat
    /\ DedupWindow \in Nat
    /\ SignalMaxAge \in Nat
    /\ MaxSend \in Nat
    /\ MaxRestarts \in Nat
    /\ MaxTime \in Nat
    /\ PositionsGetMayFail \in BOOLEAN

VARIABLES
    now,       \* time.time()
    recent,    \* _recent_signals: signal id -> time of registration
    lock,      \* holder of _execution_lock
    pc,        \* per thread: where its execute_signal call is
    sig,       \* per thread: the signal it executes
    stamp,     \* per thread: the signal's timestamp, or NoStamp
    since,     \* per thread: when it registered the signal it is sending
    status,    \* per thread: the status its call returned
    epoch,     \* incarnation of the bridge process
    orders     \* history of the orders the broker accepted; index = ticket

omVars == <<now, recent, lock, pc, sig, stamp, since, status, epoch, orders>>

Statuses == {"none", "FILLED", "PENDING", "REJECTED", "ERROR"}

OrderRecord == [sig : Signals, at : Nat, epoch : Nat,
                state : {"open", "pending", "closed"}]

TypeOK ==
    /\ now \in Nat
    /\ DOMAIN recent \subseteq Signals
    /\ recent \in [DOMAIN recent -> Nat]
    /\ lock \in Threads \cup {NoThread}
    /\ pc \in [Threads -> {"idle", "waiting", "sending", "done"}]
    /\ sig \in [Threads -> Signals \cup {NoSignal}]
    /\ stamp \in [Threads -> Nat \cup {NoStamp}]
    /\ since \in [Threads -> Nat]
    /\ status \in [Threads -> Statuses]
    /\ epoch \in Nat
    /\ orders \in Seq(OrderRecord)
    /\ \A t \in Threads : pc[t] # "idle" => sig[t] \in Signals

Init ==
    /\ now = 0
    /\ recent = [s \in {} |-> 0]
    /\ lock = NoThread
    /\ pc = [t \in Threads |-> "idle"]
    /\ sig = [t \in Threads |-> NoSignal]
    /\ stamp = [t \in Threads |-> NoStamp]
    /\ since = [t \in Threads |-> 0]
    /\ status = [t \in Threads |-> "none"]
    /\ epoch = 0
    /\ orders = <<>>

-----------------------------------------------------------------------------
(* Helpers.                                                                *)

OpenTickets == {i \in DOMAIN orders : orders[i].state = "open"}

\* The ones opened by a market order.
MarketPositions == {i \in OpenTickets : orders[i].sig \notin LimitSignals}

\* What len(connector.get_open_positions()) may be: positions_get() = None is
\* reported as an empty list.
ReportedOpen ==
    {Cardinality(OpenTickets)} \cup (IF PositionsGetMayFail THEN {0} ELSE {})

\* Sensitivity variant: the limit itself is still accepted.
RoomUpToLimit == \E n \in ReportedOpen : n <= MaxPositions

\* `len(open_positions) >= self._max_position_count` does not reject.
RoomForPosition == \E n \in ReportedOpen : n < MaxPositions

\* The timestamps a request for s may carry: it was generated earlier, or carries none.
Stamps(s) == IF s \in Stamped THEN 0..now ELSE {NoStamp}

\* The age check runs only when the request carries a timestamp.
TooOld(t) == stamp[t] # NoStamp /\ SignalMaxAge > 0 /\ now - stamp[t] > SignalMaxAge

\* The checks of _validate_signal that precede the first call to the connector.
StaticallyValid(t) == sig[t] \in WellFormed /\ ~TooOld(t)

\* `signal_id in self._recent_signals`
Duplicated(t) == sig[t] \in DOMAIN recent

\* Sensitivity variant: the id is never written to the table.
RegisteredNowhere(s) == recent

\* Sensitivity variant: the table is keyed by something other than the signal's id.
RegisteredUnkeyed(s) == [x \in DOMAIN recent \cup {NoSignal} |-> IF x = NoSignal THEN now ELSE recent[x]]

\* _recent_signals with s registered at the current time.
Registered(s) == [x \in DOMAIN recent \cup {s} |-> IF x = s THEN now ELSE recent[x]]

\* Sensitivity variant: entries as old as the window go too.
CleanedUpEarly == Restrict(recent, {s \in DOMAIN recent : now - recent[s] < DedupWindow})

\* _cleanup_old_signals: entries older than the window go.
CleanedUp == Restrict(recent, {s \in DOMAIN recent : now - recent[s] <= DedupWindow})

NewOrder(t, state) ==
    [sig |-> sig[t], at |-> since[t], epoch |-> epoch, state |-> state]

\* The call of thread t ends with status st.
Finish(t, st) ==
    /\ pc' = [pc EXCEPT ![t] = "done"]
    /\ status' = [status EXCEPT ![t] = st]

-----------------------------------------------------------------------------
(* The gRPC handler hands a signal to a worker thread.                     *)
Submit(t, s, ts) ==
    /\ pc[t] = "idle"
    /\ pc' = [pc EXCEPT ![t] = "waiting"]
    /\ sig' = [sig EXCEPT ![t] = s]
    /\ stamp' = [stamp EXCEPT ![t] = ts]
    /\ UNCHANGED <<now, recent, lock, since, status, epoch, orders>>

\* Sensitivity variant: a duplicate waits until its id is forgotten.
DuplicateWaits(t) ==
    /\ pc[t] = "waiting" /\ lock = NoThread
    /\ IF Duplicated(t) THEN UNCHANGED <<pc, status>>
                       ELSE ~StaticallyValid(t) /\ Finish(t, "REJECTED")
    /\ UNCHANGED <<now, recent, lock, sig, stamp, since, epoch, orders>>

\* The thread gets the lock and the signal is rejected before any connector
\* call: already registered, or statically invalid.  The lock is released.
RejectEarly(t) ==
    /\ pc[t] = "waiting" /\ lock = NoThread
    /\ Duplicated(t) \/ ~StaticallyValid(t)
    /\ Finish(t, "REJECTED")
    /\ UNCHANGED <<now, recent, lock, sig, stamp, since, epoch, orders>>

\* A connector call of _validate_signal raises BrokerError (not connected):
\* execute_trade answers ERROR.  Nothing was registered.
ConnectorDown(t) ==
    /\ pc[t] = "waiting" /\ lock = NoThread
    /\ ~Duplicated(t) /\ StaticallyValid(t)
    /\ Finish(t, "ERROR")
    /\ UNCHANGED <<now, recent, lock, sig, stamp, since, epoch, orders>>

\* The position limit is reached, or one of spread, margin, drawdown and daily
\* loss (broker data the model does not carry) refuses the signal.
RejectByMarket(t) ==
    /\ pc[t] = "waiting" /\ lock = NoThread
    /\ ~Duplicated(t) /\ StaticallyValid(t)
    /\ Finish(t, "REJECTED")
    /\ UNCHANGED <<now, recent, lock, sig, stamp, since, epoch, orders>>

\* Every check passes: the id is registered before the order is sent.
Register(t) ==
    /\ pc[t] = "waiting" /\ lock = NoThread
    /\ ~Duplicated(t) /\ StaticallyValid(t)
    /\ RoomForPosition
    /\ lock' = t
    /\ recent' = Registered(sig[t])
    /\ since' = [since EXCEPT ![t] = now]
    /\ pc' = [pc EXCEPT ![t] = "sending"]
    /\ UNCHANGED <<now, sig, stamp, status, epoch, orders>>

\* order_send answers TRADE_RETCODE_DONE: a market order is filled, a limit
\* order is placed; expired ids are removed and the lock is released.
OrderDone(t) ==
    LET limit == sig[t] \in LimitSignals
    IN  /\ pc[t] = "sending"
        /\ orders' = Append(orders, NewOrder(t, IF limit THEN "pending" ELSE "open"))
        /\ recent' = CleanedUp
        /\ lock' = NoThread
        /\ Finish(t, IF limit THEN "PENDING" ELSE "FILLED")
        /\ UNCHANGED <<now, sig, stamp, since, epoch>>

\* order_send answers another retcode: the result is REJECTED, the id stays.
OrderRefused(t) ==
    /\ pc[t] = "sending"
    /\ recent' = CleanedUp
    /\ lock' = NoThread
    /\ Finish(t, "REJECTED")
    /\ UNCHANGED <<now, sig, stamp, since, epoch, orders>>

\* BrokerError after the registration: no symbol info, no tick, or order_send
\* returned None.  In the last case the broker may have taken the order.  The
\* exception skips the cleanup.
OrderError(t) ==
    LET kind == IF sig[t] \in LimitSignals THEN "pending" ELSE "open"
    IN  /\ pc[t] = "sending"
        /\ \/ UNCHANGED orders
           \/ orders' = Append(orders, NewOrder(t, kind))
        /\ lock' = NoThread
        /\ Finish(t, "ERROR")
        /\ UNCHANGED <<now, recent, sig, stamp, since, epoch>>

\* The answer leaves the thread: execute_trade returns to the gRPC handler.
Reply(t) ==
    /\ pc[t] = "done"
    /\ pc' = [pc EXCEPT ![t] = "idle"]
    /\ sig' = [sig EXCEPT ![t] = NoSignal]
    /\ stamp' = [stamp EXCEPT ![t] = NoStamp]
    /\ since' = [since EXCEPT ![t] = 0]
    /\ status' = [status EXCEPT ![t] = "none"]
    /\ UNCHANGED <<now, recent, lock, epoch, orders>>

\* The bridge process dies and starts again: threads, lock and the table of
\* recent ids are gone.  An order being sent may have reached the broker.
Restart ==
    /\ epoch < MaxRestarts
    /\ epoch' = epoch + 1
    /\ recent' = [s \in {} |-> 0]
    /\ lock' = NoThread
    /\ pc' = [t \in Threads |-> "idle"]
    /\ sig' = [t \in Threads |-> NoSignal]
    /\ stamp' = [t \in Threads |-> NoStamp]
    /\ since' = [t \in Threads |-> 0]
    /\ status' = [t \in Threads |-> "none"]
    /\ \/ UNCHANGED orders
       \/ /\ lock # NoThread
          /\ orders' = Append(orders, NewOrder(lock,
                           IF sig[lock] \in LimitSignals THEN "pending" ELSE "open"))
    /\ UNCHANGED now

-----------------------------------------------------------------------------
(* The broker and the clock.                                               *)

\* A position is closed (stop loss, take profit, by hand).
ClosePosition(i) ==
    /\ orders[i].state = "open"
    /\ orders' = [orders EXCEPT ![i].state = "closed"]
    /\ UNCHANGED <<now, recent, lock, pc, sig, stamp, since, status, epoch>>

\* The price reaches a pending limit order.
TriggerPending(i) ==
    /\ orders[i].state = "pending"
    /\ orders' = [orders EXCEPT ![i].state = "open"]
    /\ UNCHANGED <<now, recent, lock, pc, sig, stamp, since, status, epoch>>

\* Time passes, but no order_send lasts longer than MaxSend, and a thread does not
\* let a tick pass before it takes a free lock.
Tick ==
    /\ now < MaxTime
    /\ lock = NoThread => \A t \in Threads : pc[t] # "waiting"
    /\ \A t \in Threads : pc[t] = "sending" => now - since[t] < MaxSend
    /\ now' = now + 1
    /\ UNCHANGED <<recent, lock, pc, sig, stamp, since, status, epoch, orders>>

-----------------------------------------------------------------------------
\* The steps of one call of execute_signal once it was submitted.
ThreadStep(t) ==
    \/ RejectEarly(t)
    \/ ConnectorDown(t)
    \/ RejectByMarket(t)
    \/ Register(t)
    \/ OrderDone(t)
    \/ OrderRefused(t)
    \/ OrderError(t)

Broker ==
    \E i \in DOMAIN orders : ClosePosition(i) \/ TriggerPending(i)

Next ==
    \/ \E t \in Threads :
          \/ \E s \in Signals : \E ts \in Stamps(s) : Submit(t, s, ts)
          \/ ThreadStep(t)
          \/ Reply(t)
    \/ Restart
    \/ Broker
    \/ Tick

Spec == Init /\ [][Next]_omVars

-----------------------------------------------------------------------------
(* Properties.                                                             *)

\* De-duplication (order_manager.py:98-105, 421-428): two orders the broker
\* accepted for one signal id from one bridge process were registered more than
\* the window apart, whatever the threads, retries and broker errors between
\* them.
DedupSpacing ==
    \A i, j \in DOMAIN orders :
        /\ i < j
        /\ orders[i].sig = orders[j].sig
        /\ orders[i].epoch = orders[j].epoch
        => orders[j].at - orders[i].at > DedupWindow

\* The position limit (order_manager.py:214-220) is checked and the order sent
\* under one lock, so concurrent market requests do not overshoot it, not even around
\* a failed order_send, a restart in the middle of one, or limit orders that trigger
\* meanwhile (those are counted by the check, but nothing holds them back).
PositionLimit == Cardinality(MarketPositions) <= MaxPositions

\* Every submitted call is answered: no exception path keeps _execution_lock
\* (order_manager.py:90-91), so no worker thread is stuck behind another.
EveryCallAnswered ==
    \A t \in Threads : pc[t] = "waiting" ~> pc[t] = "idle"
=============================================================================

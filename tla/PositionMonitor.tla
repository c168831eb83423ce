-------------------------- MODULE PositionMonitor --------------------------
(***************************************************************************)
(* The bridge's position monitor: PositionTracker.update compares the      *)
(* positions MT5 reports with the known ones, moves trailing stops, and    *)
(* the loop hands the closed ones to TradeRecorder.                        *)
(*                                                                         *)
(* Levels are in pips from the opening price, positive in the direction of *)
(* profit, so that BUY and SELL are the same: a SELL's stop falls in price *)
(* when it rises here.  update() blocks the event loop but not the broker  *)
(* and not the gRPC threads: every call to MT5 in it is a step.            *)
(***************************************************************************)
EXTENDS Integers

CONSTANTS
    Tickets,              \* positions, each opened and closed once
    Levels,               \* how far the price is from the opening price
    InitialStop,          \* the stop loss a position is opened with
    Activation,           \* trailing_activation_pips
    Distance,             \* trailing_stop_pips
    NoTarget,             \* a position whose stop is not to be moved
    PositionsGetMayFail,  \* mt5.positions_get() may return None
    LinkMayDrop,          \* the terminal may become unreachable
    InsertMayFail,        \* an INSERT of TradeRecorder may fail
    MayRestart            \* the bridge process may die and start again

ASSUME LevelsAssumption ==
    /\ Levels \subseteq Int
    /\ InitialStop \in Int
    /\ Activation \in Int
    /\ Distance \in Int
    /\ NoTarget \notin Int
ASSUME SwitchesAssumption ==
    /\ PositionsGetMayFail \in BOOLEAN
    /\ LinkMayDrop \in BOOLEAN
    /\ InsertMayFail \in BOOLEAN
    /\ MayRestart \in BOOLEAN

VARIABLES
    state,      \* at the broker: not opened yet, open, closed
    level,      \* at the broker: where the price is
    stop,       \* at the broker: the stop loss
    link,       \* MT5Connector._connected
    known,      \* keys of _known_positions
    target,     \* the stops this update still has to move, and where to
    closedNow,  \* what update() returned and the loop has not recorded yet
    pc,         \* where the monitor loop is
    records     \* how many rows of trade_records a position has

brokerVars == <<state, level, stop>>
monitorVars == <<known, target, closedNow, pc>>
pmVars == <<brokerVars, link, monitorVars, records>>

TypeOK ==
    /\ state \in [Tickets -> {"none", "open", "closed"}]
    /\ level \in [Tickets -> Levels]
    /\ stop \in [Tickets -> Int]
    /\ link \in BOOLEAN
    /\ known \subseteq Tickets
    /\ target \in [Tickets -> Int \cup {NoTarget}]
    /\ closedNow \subseteq Tickets
    /\ pc \in {"idle", "trail", "record"}
    /\ records \in [Tickets -> Nat]
    /\ pc = "idle" => closedNow = {}
    /\ pc # "trail" => target = [t \in Tickets |-> NoTarget]

Init ==
    /\ state = [t \in Tickets |-> "none"]
    /\ level \in [Tickets -> Levels]
    /\ stop = [t \in Tickets |-> InitialStop]
    /\ link = TRUE
    /\ known = {}
    /\ target = [t \in Tickets |-> NoTarget]
    /\ closedNow = {}
    /\ pc = "idle"
    /\ records = [t \in Tickets |-> 0]

-----------------------------------------------------------------------------
(* Helpers.                                                                *)

Open == {t \in Tickets : state[t] = "open"}

\* What get_open_positions() may return: None is turned into an empty list.
Reported == {Open} \cup (IF PositionsGetMayFail THEN {{}} ELSE {})

\* Sensitivity variant: the stop follows the price in both directions.
ImprovesAlways(t) == TRUE

\* The new stop is better than the one in the position list.
Improves(t) == level[t] - Distance > stop[t]

\* _update_trailing_stops: in profit, beyond the activation, and an improvement.
Trails(t) == level[t] > 0 /\ level[t] >= Activation /\ Improves(t)

\* The stops to move, from one reading of the positions.
Targets(reported) ==
    [t \in Tickets |-> IF t \in reported /\ Trails(t) THEN level[t] - Distance ELSE NoTarget]

\* Sensitivity variant: positions that closed stay known.
KnownKept(reported) == known \cup reported

\* _known_positions after an update: the closed ones go, the reported ones stay.
KnownAfter(reported) == reported

-----------------------------------------------------------------------------
(* The monitor loop.                                                       *)

\* update() up to the trailing stops: read the positions, find the closed ones.
Update ==
    /\ pc = "idle" /\ link
    /\ \E reported \in Reported :
          /\ closedNow' = known \ reported
          /\ known' = KnownAfter(reported)
          /\ target' = Targets(reported)
    /\ pc' = "trail"
    /\ UNCHANGED <<brokerVars, link, records>>

\* modify_position_sl: the position may be gone or the broker may refuse.
TrailOne(t) ==
    /\ pc = "trail" /\ link /\ target[t] # NoTarget
    /\ \/ state[t] = "open" /\ stop' = [stop EXCEPT ![t] = target[t]]
       \/ UNCHANGED stop
    /\ target' = [target EXCEPT ![t] = NoTarget]
    /\ UNCHANGED <<state, level, link, known, closedNow, pc, records>>

\* Sensitivity variant: the list of closes outlives the update that raised.
TrailRaisesLate(t) ==
    /\ pc = "trail" /\ ~link /\ target[t] # NoTarget
    /\ target' = [u \in Tickets |-> NoTarget]
    /\ pc' = "idle"
    /\ UNCHANGED <<brokerVars, link, known, closedNow, records>>

\* modify_position_sl raises because the link was lost: update() returns nothing and
\* the positions it had found closed are forgotten.
TrailRaises(t) ==
    /\ pc = "trail" /\ ~link /\ target[t] # NoTarget
    /\ target' = [u \in Tickets |-> NoTarget]
    /\ closedNow' = {}
    /\ pc' = "idle"
    /\ UNCHANGED <<brokerVars, link, known, records>>

TrailDone ==
    /\ pc = "trail" /\ \A t \in Tickets : target[t] = NoTarget
    /\ pc' = "record"
    /\ UNCHANGED <<brokerVars, link, known, target, closedNow, records>>

\* record_closed_trade: a row, or None after an error.
RecordOne(t) ==
    /\ pc = "record" /\ t \in closedNow
    /\ \/ records' = [records EXCEPT ![t] = @ + 1]
       \/ InsertMayFail /\ UNCHANGED records
    /\ closedNow' = closedNow \ {t}
    /\ UNCHANGED <<brokerVars, link, known, target, pc>>

RecordDone ==
    /\ pc = "record" /\ closedNow = {}
    /\ pc' = "idle"
    /\ UNCHANGED <<brokerVars, link, known, target, closedNow, records>>

\* is_connected finds the terminal gone: the loop asks, and the check that main registered
\* with the health checker may at any time.
LinkDrops ==
    /\ LinkMayDrop /\ link
    /\ link' = FALSE
    /\ UNCHANGED <<brokerVars, monitorVars, records>>

\* The loop reconnects.
Reconnect ==
    /\ pc = "idle" /\ ~link
    /\ link' = TRUE
    /\ UNCHANGED <<brokerVars, monitorVars, records>>

\* The bridge process dies and starts again, knowing no position.
Restart ==
    /\ MayRestart
    /\ known' = {} /\ closedNow' = {}
    /\ target' = [t \in Tickets |-> NoTarget]
    /\ pc' = "idle"
    /\ link' = TRUE
    /\ UNCHANGED <<brokerVars, records>>

-----------------------------------------------------------------------------
(* The broker.                                                             *)

BrokerOpens(t) ==
    /\ state[t] = "none"
    /\ state' = [state EXCEPT ![t] = "open"]
    /\ UNCHANGED <<level, stop, link, monitorVars, records>>

BrokerCloses(t) ==
    /\ state[t] = "open"
    /\ state' = [state EXCEPT ![t] = "closed"]
    /\ UNCHANGED <<level, stop, link, monitorVars, records>>

PriceMoves(t) ==
    /\ state[t] = "open"
    /\ \E p \in Levels \ {level[t]} : level' = [level EXCEPT ![t] = p]
    /\ UNCHANGED <<state, stop, link, monitorVars, records>>

-----------------------------------------------------------------------------
MonitorStep ==
    \/ Update
    \/ \E t \in Tickets : TrailOne(t) \/ TrailRaises(t) \/ RecordOne(t)
    \/ TrailDone
    \/ RecordDone
    \/ Reconnect

Broker == \E t \in Tickets : BrokerOpens(t) \/ BrokerCloses(t) \/ PriceMoves(t)

Next ==
    \/ MonitorStep
    \/ LinkDrops
    \/ Restart
    \/ Broker

Spec == Init /\ [][Next]_pmVars

-----------------------------------------------------------------------------
(* Properties.                                                             *)

\* The feedback loop learns from every trade once (position_tracker.py:59-115,
\* main.py:190-208): a position has a row only when it is closed, and never two, over
\* lost links, failed INSERTs and restarts.
RecordedOnceClosed ==
    \A t \in Tickets : records[t] <= 1 /\ (records[t] = 1 => state[t] = "closed")

\* A trailing stop never moves back (position_tracker.py:117-150), although the price
\* moves on between the reading of the positions and the modification.
StopNeverBack ==
    [][\A t \in Tickets : stop'[t] >= stop[t]]_pmVars
=============================================================================

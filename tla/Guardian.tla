------------------------------ MODULE Guardian ------------------------------
(***************************************************************************)
(* The Guardian expert advisor, inside the MT5 terminal, beside the        *)
(* bridge's position monitor.  The bridge writes a heartbeat before every  *)
(* update; the EA's OnTimer reads it and closes positions or moves stops.  *)
(*                                                                         *)
(* OnTimer is one thread, but every order it sends is a round trip: the    *)
(* price, the broker and the bridge go on between two of its steps.        *)
(***************************************************************************)
EXTENDS PositionMonitor

CONSTANTS
    HeartbeatTimeout,  \* InpHeartbeatTimeoutSec
    CheckInterval,     \* InpCheckIntervalSec, and the period of the timer
    ServerOffset,      \* TimeCurrent() minus the UTC clock of the bridge
    AgeCap,            \* ages from here on are alike; also: no heartbeat variable
    Equities,          \* values the account's equity takes
    Balances,          \* values the account's balance takes
    MaxDrawdown,       \* InpMaxDrawdownPct
    MaxDailyLoss,      \* InpMaxDailyLossPct
    CloseMayFail,      \* an OrderSend of the EA may fail
    HeartbeatMayFail,  \* global_variable_set may fail
    EaMayRestart       \* the EA may be loaded anew

ASSUME ClockAssumption ==
    /\ HeartbeatTimeout \in Nat /\ CheckInterval \in Nat \ {0}
    /\ ServerOffset \in Int
    /\ AgeCap \in Nat /\ AgeCap > HeartbeatTimeout + CheckInterval
ASSUME AccountAssumption ==
    /\ Equities \subseteq Nat /\ Balances \subseteq Nat
    /\ MaxDrawdown \in Nat /\ MaxDailyLoss \in Nat

VARIABLES
    beatAge,     \* how long ago the heartbeat was written
    defensive,   \* g_defensiveMode
    killFired,   \* g_drawdownKillFired
    peak,        \* g_peakEquity
    start,       \* g_startBalance
    sinceCheck,  \* time since g_lastCheckTime
    eaPc,        \* where OnTimer is
    todo,        \* tickets the running loop of the EA has still to visit
    aim,         \* the stop the EA is about to send for the ticket it visits
    pending,     \* tickets of pending orders at the broker
    equity, balance,
    friday,      \* it is Friday after InpFridayCloseHour, server time
    calm         \* time since the last heartbeat or start of the EA (history)

account == <<equity, balance>>
eaVars == <<defensive, killFired, peak, start, sinceCheck, eaPc, todo, aim>>
clockVars == <<beatAge, calm>>
gVars == <<pmVars, eaVars, clockVars, pending, account, friday>>

GuardianTypeOK ==
    /\ TypeOK
    /\ beatAge \in 0..AgeCap /\ calm \in 0..AgeCap /\ sinceCheck \in 0..CheckInterval
    /\ defensive \in BOOLEAN /\ killFired \in BOOLEAN /\ friday \in BOOLEAN
    /\ equity \in Equities /\ balance \in Balances
    /\ peak \in Equities /\ start \in Balances
    /\ eaPc \in {"idle", "kill", "killCancel", "fridayCheck", "friday", "fridayCancel",
                 "trailCheck", "trail"}
    /\ todo \subseteq Tickets
    /\ aim \in [Tickets -> Int \cup {NoTarget}]
    /\ pending \subseteq {t \in Tickets : state[t] = "none"}
    /\ eaPc \in {"idle", "fridayCheck", "trailCheck"} => todo = {}
    /\ eaPc # "trail" => aim = [t \in Tickets |-> NoTarget]

GuardianInit ==
    /\ Init
    /\ beatAge = AgeCap /\ calm = 0
    /\ defensive = FALSE /\ killFired = FALSE
    /\ equity \in Equities /\ balance \in Balances
    /\ peak = equity /\ start = balance
    /\ sinceCheck = 0 /\ eaPc = "idle" /\ todo = {}
    /\ aim = [t \in Tickets |-> NoTarget]
    /\ pending = {} /\ friday = FALSE

-----------------------------------------------------------------------------
(* Helpers.                                                                *)

\* Sensitivity variant: a bridge that never wrote the variable is taken for a live one.
StaleIfWritten == beatAge < AgeCap /\ beatAge + ServerOffset > HeartbeatTimeout

\* CheckHeartbeat: the variable is missing, or its age exceeds the timeout.
Stale == beatAge = AgeCap \/ beatAge + ServerOffset > HeartbeatTimeout

\* g_peakEquity after this check.
NewPeak == IF equity > peak THEN equity ELSE peak

\* CheckDrawdownKill: drawdown from the peak, or loss since the EA started.
KillDue ==
    /\ balance > 0
    /\ \/ NewPeak > 0 /\ (NewPeak - equity) * 100 >= MaxDrawdown * NewPeak
       \/ start > 0 /\ equity < start /\ (start - equity) * 100 >= MaxDailyLoss * start

\* Sensitivity variant: the stop follows the price wherever it goes.
EaTrailsAlways(t) == level[t] \in Int

\* ManageEmergencyTrailingStops: beyond the activation, and an improvement.
EaTrails(t) == level[t] >= Activation /\ level[t] - Distance > stop[t]

NoAim == [t \in Tickets |-> NoTarget]

-----------------------------------------------------------------------------
(* OnTimer, also called by OnTick.                                         *)

\* Heartbeat, peak equity, and the decision whether to kill.
Timer ==
    /\ eaPc = "idle" /\ sinceCheck = CheckInterval
    /\ sinceCheck' = 0
    /\ defensive' = Stale
    /\ peak' = NewPeak
    /\ \/ ~killFired /\ KillDue /\ eaPc' = "kill" /\ todo' = Open
       \/ (killFired \/ ~KillDue) /\ eaPc' = "fridayCheck" /\ UNCHANGED todo
    /\ UNCHANGED <<pmVars, clockVars, killFired, start, aim, pending, account, friday>>

\* CloseAllMoneyMakerPositions, one position.
CloseOne(t) ==
    /\ eaPc \in {"kill", "friday"} /\ t \in todo
    /\ todo' = todo \ {t}
    /\ \/ state[t] = "open" /\ state' = [state EXCEPT ![t] = "closed"]
       \/ (CloseMayFail \/ state[t] # "open") /\ UNCHANGED state
    /\ UNCHANGED <<level, stop, link, monitorVars, records, clockVars, defensive, killFired,
                   peak, start, sinceCheck, eaPc, aim, pending, account, friday>>

\* ... and then the pending orders there are by now.
CloseDone ==
    /\ eaPc \in {"kill", "friday"} /\ todo = {}
    /\ eaPc' = IF eaPc = "kill" THEN "killCancel" ELSE "fridayCancel"
    /\ todo' = pending
    /\ UNCHANGED <<pmVars, clockVars, defensive, killFired, peak, start, sinceCheck, aim,
                   pending, account, friday>>

\* CancelAllMoneyMakerPendingOrders, one order.
CancelOne(t) ==
    /\ eaPc \in {"killCancel", "fridayCancel"} /\ t \in todo
    /\ todo' = todo \ {t}
    /\ \/ pending' = pending \ {t}
       \/ CloseMayFail /\ UNCHANGED pending
    /\ UNCHANGED <<pmVars, clockVars, defensive, killFired, peak, start, sinceCheck, eaPc,
                   aim, account, friday>>

CancelDone ==
    /\ eaPc \in {"killCancel", "fridayCancel"} /\ todo = {}
    /\ killFired' = (killFired \/ eaPc = "killCancel")
    /\ eaPc' = IF eaPc = "killCancel" THEN "fridayCheck" ELSE "trailCheck"
    /\ UNCHANGED <<pmVars, clockVars, defensive, peak, start, sinceCheck, todo, aim,
                   pending, account, friday>>

\* Sensitivity variant: the weekend close is tried once, with the kill's flag.
FridayCheckOnce ==
    /\ eaPc = "fridayCheck"
    /\ \/ friday /\ ~killFired /\ Open # {} /\ eaPc' = "friday" /\ todo' = Open
                                           /\ killFired' = TRUE
       \/ ~(friday /\ ~killFired /\ Open # {}) /\ eaPc' = "trailCheck"
                                            /\ UNCHANGED <<todo, killFired>>
    /\ UNCHANGED <<pmVars, clockVars, defensive, peak, start, sinceCheck, aim,
                   pending, account, friday>>

\* CheckFridayClose.
FridayCheck ==
    /\ eaPc = "fridayCheck"
    /\ \/ friday /\ Open # {} /\ eaPc' = "friday" /\ todo' = Open
       \/ ~(friday /\ Open # {}) /\ eaPc' = "trailCheck" /\ UNCHANGED todo
    /\ UNCHANGED <<pmVars, clockVars, defensive, killFired, peak, start, sinceCheck, aim,
                   pending, account, friday>>

TrailCheck ==
    /\ eaPc = "trailCheck"
    /\ \/ defensive /\ eaPc' = "trail" /\ todo' = Open
       \/ ~defensive /\ eaPc' = "idle" /\ UNCHANGED todo
    /\ UNCHANGED <<pmVars, clockVars, defensive, killFired, peak, start, sinceCheck, aim,
                   pending, account, friday>>

\* ManageEmergencyTrailingStops: one position is selected and its new stop computed ...
EaRead(t) ==
    /\ eaPc = "trail" /\ t \in todo /\ aim = NoAim
    /\ todo' = todo \ {t}
    /\ aim' = [aim EXCEPT ![t] = IF t \in Open /\ EaTrails(t) THEN level[t] - Distance
                                                            ELSE NoTarget]
    /\ UNCHANGED <<pmVars, clockVars, defensive, killFired, peak, start, sinceCheck, eaPc,
                   pending, account, friday>>

\* ... and sent.
EaSend(t) ==
    /\ eaPc = "trail" /\ aim[t] # NoTarget
    /\ aim' = NoAim
    /\ \/ state[t] = "open" /\ stop' = [stop EXCEPT ![t] = aim[t]]
       \/ (CloseMayFail \/ state[t] # "open") /\ UNCHANGED stop
    /\ UNCHANGED <<state, level, link, monitorVars, records, clockVars, defensive, killFired,
                   peak, start, sinceCheck, eaPc, todo, pending, account, friday>>

TrailEnds ==
    /\ eaPc = "trail" /\ todo = {} /\ aim = NoAim
    /\ eaPc' = "idle"
    /\ UNCHANGED <<pmVars, clockVars, defensive, killFired, peak, start, sinceCheck, todo, aim,
                   pending, account, friday>>

\* OnDeinit and OnInit: the globals start again.
EaRestart ==
    /\ EaMayRestart
    /\ defensive' = FALSE /\ killFired' = FALSE
    /\ peak' = equity /\ start' = balance
    /\ sinceCheck' = 0 /\ eaPc' = "idle" /\ todo' = {} /\ aim' = NoAim
    /\ calm' = 0
    /\ UNCHANGED <<pmVars, beatAge, pending, account, friday>>

-----------------------------------------------------------------------------
(* The bridge beside it.                                                   *)

\* send_heartbeat and the update that follows it.
BeatAndUpdate ==
    /\ Update
    /\ \/ beatAge' = 0 /\ calm' = 0
       \/ HeartbeatMayFail /\ UNCHANGED clockVars
    /\ UNCHANGED <<eaVars, pending, account, friday>>

\* The other steps of the monitor and of its process.
BridgeGoesOn ==
    /\ \/ \E t \in Tickets : TrailOne(t) \/ TrailRaises(t) \/ RecordOne(t)
       \/ TrailDone \/ RecordDone \/ Reconnect \/ LinkDrops \/ Restart
    /\ UNCHANGED <<eaVars, clockVars, pending, account, friday>>

-----------------------------------------------------------------------------
(* The broker, the account and the clock.                                  *)

\* A market order is filled or a pending one triggers.
Fill(t) ==
    /\ BrokerOpens(t)
    /\ pending' = pending \ {t}
    /\ UNCHANGED <<eaVars, clockVars, account, friday>>

PlacePending(t) ==
    /\ state[t] = "none" /\ t \notin pending
    /\ pending' = pending \cup {t}
    /\ UNCHANGED <<pmVars, eaVars, clockVars, account, friday>>

MarketMoves ==
    /\ \E t \in Tickets : BrokerCloses(t) \/ PriceMoves(t)
    /\ UNCHANGED <<eaVars, clockVars, pending, account, friday>>

AccountMoves ==
    /\ \E e \in Equities, b \in Balances : equity' = e /\ balance' = b
    /\ UNCHANGED <<pmVars, eaVars, clockVars, pending, friday>>

WeekTurns ==
    /\ friday' = ~friday
    /\ UNCHANGED <<pmVars, eaVars, clockVars, pending, account>>

Older(n) == IF n < AgeCap THEN n + 1 ELSE n

\* Time passes, but not past a timer that is due.
Tick ==
    /\ eaPc = "idle" => sinceCheck < CheckInterval
    /\ beatAge' = Older(beatAge) /\ calm' = Older(calm)
    /\ sinceCheck' = IF sinceCheck < CheckInterval THEN sinceCheck + 1 ELSE sinceCheck
    /\ UNCHANGED <<pmVars, defensive, killFired, peak, start, eaPc, todo, aim, pending,
                   account, friday>>

-----------------------------------------------------------------------------
EaStep ==
    \/ Timer \/ CloseDone \/ CancelDone \/ FridayCheck \/ TrailCheck \/ TrailEnds
    \/ \E t \in Tickets : CloseOne(t) \/ CancelOne(t) \/ EaRead(t) \/ EaSend(t)

GuardianNext ==
    \/ EaStep
    \/ EaRestart
    \/ BeatAndUpdate
    \/ BridgeGoesOn
    \/ \E t \in Tickets : Fill(t) \/ PlacePending(t)
    \/ MarketMoves
    \/ AccountMoves
    \/ WeekTurns
    \/ Tick

GuardianSpec == GuardianInit /\ [][GuardianNext]_gVars

\* Closing t, and not only trying to.
Closes(t) == CloseOne(t) /\ state'[t] = "closed"

\* The timer fires, OnTimer returns, the broker does not refuse a close for ever, and
\* the EA is not reloaded for ever.
GuardianLiveSpec ==
    /\ GuardianSpec
    /\ WF_gVars(EaStep)
    /\ WF_gVars(Tick)
    /\ \A t \in Tickets : SF_gVars(Closes(t))
    /\ <>[][~EaRestart]_gVars

-----------------------------------------------------------------------------
(* Properties.                                                             *)

\* The EA takes over in time (GoliathGuardian.mq5:121-207): once the bridge has been
\* silent for the timeout and one check interval, an EA between two checks is in
\* defensive mode, over lost heartbeats, restarts of either side and slow orders.
TakesOverInTime ==
    eaPc = "idle" /\ sinceCheck < CheckInterval /\ calm > HeartbeatTimeout + CheckInterval
        => defensive

\* Whoever moves stops, and however their orders interleave, no position is left with a
\* stop worse than the one it was opened with (position_tracker.py:142,
\* ManageEmergencyTrailingStops).
NeverWorseThanInitial == \A t \in Tickets : stop[t] >= InitialStop

\* Before the weekend all positions are closed although a close may fail
\* (CheckFridayClose): it is tried again at every timer.
FridayFlat == friday ~> Open = {} \/ ~friday

=============================================================================

----------------------- MODULE PositionMonitorProofs -----------------------
(***************************************************************************)
(* Theorems about the position monitor and the Guardian expert advisor     *)
(* beside it, for any set of positions, any timeouts and any trailing      *)
(* parameters, with failing INSERTs, lost links and restarts.              *)
(***************************************************************************)
EXTENDS Guardian, TLAPS

-----------------------------------------------------------------------------
(* The inductive invariants.                                               *)

\* With reliable position lists, what the bridge takes for closed is closed, and a
\* position with a row is out of the monitor's sight for good.
CloseInv ==
    \A t \in Tickets :
        /\ t \in closedNow => state[t] = "closed" /\ t \notin known /\ records[t] = 0
        /\ t \in known => state[t] # "none" /\ records[t] = 0
        /\ records[t] > 0 => state[t] = "closed"
        /\ records[t] <= 1

\* A stop still to be moved is to be moved forward.
TargetInv ==
    \A t \in Tickets : target[t] # NoTarget => target[t] > stop[t]

-----------------------------------------------------------------------------
(* What one reading of the positions gives.                                *)

\* Every reading is a set of open positions, and without failures it is all of them.
LEMMA ReportedIsOpen ==
    ASSUME NEW r \in Reported
    PROVE  r \subseteq Open /\ (~PositionsGetMayFail => r = Open)
BY DEF Reported

\* Every target of a reading is NoTarget or an improvement of the stop just read.
LEMMA TargetsImprove ==
    ASSUME TypeOK, NEW r \in SUBSET Tickets
    PROVE  /\ Targets(r) \in [Tickets -> Int \cup {NoTarget}]
           /\ \A t \in Tickets : Targets(r)[t] # NoTarget => Targets(r)[t] > stop[t]
<1>1. \A t \in Tickets : level[t] \in Int /\ level[t] - Distance \in Int /\ stop[t] \in Int
  <2> TAKE t \in Tickets
  <2>1. level[t] \in Levels /\ stop[t] \in Int BY DEF TypeOK
  <2>2. level[t] \in Int BY <2>1, LevelsAssumption
  <2> QED BY <2>1, <2>2, LevelsAssumption
<1>2. \A t \in Tickets : Targets(r)[t] =
          (IF t \in r /\ Trails(t) THEN level[t] - Distance ELSE NoTarget)
  BY DEF Targets
<1>3. \A t \in Tickets : Targets(r)[t] # NoTarget => Targets(r)[t] > stop[t]
  BY <1>1, <1>2 DEF Trails, Improves
<1>4. Targets(r) \in [Tickets -> Int \cup {NoTarget}]
  BY <1>1 DEF Targets
<1> QED BY <1>3, <1>4

-----------------------------------------------------------------------------
(* Type correctness.                                                       *)

\* Every step keeps the types.
LEMMA TypeStep ==
    ASSUME TypeOK, [Next]_pmVars
    PROVE  TypeOK'
<1> USE LevelsAssumption
<1>1. CASE Update
  <2>1. PICK r \in Reported : closedNow' = known \ r /\ known' = KnownAfter(r)
                              /\ target' = Targets(r)
    BY <1>1 DEF Update
  <2>2. r \subseteq Tickets BY <2>1, ReportedIsOpen DEF Open
  <2>3. target' \in [Tickets -> Int \cup {NoTarget}] BY <2>1, <2>2, TargetsImprove
  <2> QED BY <1>1, <2>1, <2>2, <2>3
          DEF TypeOK, Update, KnownAfter, brokerVars
<1>2. ASSUME NEW t \in Tickets, TrailOne(t) PROVE TypeOK'
  BY <1>2 DEF TypeOK, TrailOne
<1>3. ASSUME NEW t \in Tickets, TrailRaises(t) PROVE TypeOK'
  BY <1>3 DEF TypeOK, TrailRaises, brokerVars
<1>4. ASSUME NEW t \in Tickets, RecordOne(t) PROVE TypeOK'
  BY <1>4 DEF TypeOK, RecordOne, brokerVars
<1>5. CASE TrailDone
  <2>1. target = [t \in Tickets |-> NoTarget] BY <1>5 DEF TypeOK, TrailDone
  <2> QED BY <1>5, <2>1 DEF TypeOK, TrailDone, brokerVars
<1>6. CASE RecordDone BY <1>6 DEF TypeOK, RecordDone, brokerVars
<1>7. CASE Reconnect \/ LinkDrops
  BY <1>7 DEF TypeOK, Reconnect, LinkDrops, brokerVars, monitorVars
<1>8. CASE Restart BY <1>8 DEF TypeOK, Restart, brokerVars
<1>9. CASE Broker
  BY <1>9 DEF TypeOK, Broker, BrokerOpens, BrokerCloses, PriceMoves, monitorVars
<1>10. CASE UNCHANGED pmVars
  BY <1>10 DEF TypeOK, pmVars, brokerVars, monitorVars
<1> QED BY <1>1, <1>2, <1>3, <1>4, <1>5, <1>6, <1>7, <1>8, <1>9, <1>10
        DEF Next, MonitorStep

\* The state of the monitor is well-typed, and between two updates nothing of the last
\* one is left (position_tracker.py:59-150, main.py:178-210).
THEOREM TypeCorrect == Spec => []TypeOK
<1>1. Init => TypeOK BY LevelsAssumption DEF Init, TypeOK
<1>2. TypeOK /\ [Next]_pmVars => TypeOK' BY TypeStep
<1> QED BY <1>1, <1>2, PTL DEF Spec

-----------------------------------------------------------------------------
(* One row per closed position.                                            *)

\* Nothing is recorded at the start.
LEMMA CloseInit ==
    ASSUME Init
    PROVE  CloseInv
<1>1. \A t \in Tickets : records[t] = 0 /\ t \notin closedNow /\ t \notin known
  BY DEF Init
<1>2. ~(0 > 0) /\ 0 <= 1 OBVIOUS
<1> QED BY <1>1, <1>2, Zenon DEF CloseInv

\* Every step keeps CloseInv, unless positions_get fails.
LEMMA CloseStep ==
    ASSUME TypeOK, CloseInv, [Next]_pmVars, PositionsGetMayFail = FALSE
    PROVE  CloseInv'
<1>1. CASE Update
  <2>1. PICK r \in Reported : closedNow' = known \ r /\ known' = KnownAfter(r)
    BY <1>1 DEF Update
  <2>2. r = Open BY <2>1, ReportedIsOpen
  <2>3. \A t \in Tickets : t \notin Open /\ state[t] # "none" => state[t] = "closed"
    BY DEF TypeOK, Open
  <2>4. \A t \in Open : state[t] = "open" /\ records[t] = 0
    BY DEF TypeOK, CloseInv, Open
  <2>5. state' = state /\ records' = records BY <1>1 DEF Update, brokerVars
  <2> QED BY <2>1, <2>2, <2>3, <2>4, <2>5 DEF CloseInv, KnownAfter
<1>2. ASSUME NEW t \in Tickets, TrailOne(t) PROVE CloseInv'
  BY <1>2 DEF CloseInv, TrailOne
<1>3. ASSUME NEW t \in Tickets, TrailRaises(t) PROVE CloseInv'
  BY <1>3 DEF CloseInv, TrailRaises, brokerVars
<1>4. ASSUME NEW t \in Tickets, RecordOne(t) PROVE CloseInv'
  <2>1. state[t] = "closed" /\ t \notin known /\ records[t] = 0
    BY <1>4 DEF CloseInv, RecordOne
  <2>2. records'[t] \in {0, 1} /\ \A u \in Tickets \ {t} : records'[u] = records[u]
    BY <1>4, <2>1 DEF RecordOne, TypeOK
  <2> QED BY <1>4, <2>1, <2>2 DEF CloseInv, RecordOne, brokerVars
<1>5. CASE TrailDone \/ RecordDone
  BY <1>5 DEF CloseInv, TrailDone, RecordDone, brokerVars
<1>6. CASE Reconnect \/ LinkDrops
  BY <1>6 DEF CloseInv, Reconnect, LinkDrops, brokerVars, monitorVars
<1>7. CASE Restart BY <1>7 DEF CloseInv, Restart, brokerVars
<1>8. CASE Broker
  BY <1>8 DEF TypeOK, CloseInv, Broker, BrokerOpens, BrokerCloses, PriceMoves, monitorVars
<1>9. CASE UNCHANGED pmVars
  BY <1>9 DEF CloseInv, pmVars, brokerVars, monitorVars
<1> QED BY <1>1, <1>2, <1>3, <1>4, <1>5, <1>6, <1>7, <1>8, <1>9 DEF Next, MonitorStep

\* With reliable position lists the feedback loop gets at most one row per position, and
\* only for closed ones, over failing INSERTs, lost links and restarts of the bridge
\* (position_tracker.py:59-115, main.py:190-208, trade_recorder.py:120-167).
THEOREM RecordedOnceClosedAlways ==
    ASSUME PositionsGetMayFail = FALSE
    PROVE  Spec => []RecordedOnceClosed
<1>1. Init => CloseInv BY CloseInit
<1>2. TypeOK /\ CloseInv /\ [Next]_pmVars => CloseInv' BY CloseStep
<1>3. TypeOK /\ CloseInv => RecordedOnceClosed
  <2> SUFFICES ASSUME TypeOK, CloseInv, NEW t \in Tickets
               PROVE  records[t] <= 1 /\ (records[t] = 1 => state[t] = "closed")
    BY DEF RecordedOnceClosed
  <2>1. records[t] \in Nat BY DEF TypeOK
  <2> QED BY <2>1 DEF CloseInv
<1> QED BY <1>1, <1>2, <1>3, TypeCorrect, PTL DEF Spec

-----------------------------------------------------------------------------
(* Stops only move forward.                                                *)

\* Every step keeps TargetInv and moves no stop back.
LEMMA TargetStep ==
    ASSUME TypeOK, TargetInv, [Next]_pmVars
    PROVE  TargetInv' /\ \A t \in Tickets : stop'[t] >= stop[t]
<1> USE LevelsAssumption
<1>1. CASE Update
  <2>1. PICK r \in Reported : target' = Targets(r) BY <1>1 DEF Update
  <2>2. r \subseteq Tickets BY <2>1, ReportedIsOpen DEF Open
  <2>3. stop' = stop BY <1>1 DEF Update, brokerVars
  <2>4. \A t \in Tickets : target'[t] # NoTarget => target'[t] > stop'[t]
    BY <2>1, <2>2, <2>3, TargetsImprove
  <2> QED BY <2>3, <2>4 DEF TargetInv, TypeOK
<1>2. ASSUME NEW t \in Tickets, TrailOne(t)
      PROVE  TargetInv' /\ \A u \in Tickets : stop'[u] >= stop[u]
  <2>1. target[t] > stop[t] /\ target[t] \in Int
    BY <1>2 DEF TargetInv, TrailOne, TypeOK
  <2> QED BY <1>2, <2>1 DEF TargetInv, TrailOne, TypeOK
<1>3. ASSUME NEW t \in Tickets, TrailRaises(t)
      PROVE  TargetInv' /\ \A u \in Tickets : stop'[u] >= stop[u]
  BY <1>3 DEF TargetInv, TrailRaises, brokerVars, TypeOK
<1>4. ASSUME NEW t \in Tickets, RecordOne(t)
      PROVE  TargetInv' /\ \A u \in Tickets : stop'[u] >= stop[u]
  BY <1>4 DEF TargetInv, RecordOne, brokerVars, TypeOK
<1>5. CASE TrailDone \/ RecordDone
  BY <1>5 DEF TargetInv, TrailDone, RecordDone, brokerVars, TypeOK
<1>6. CASE Reconnect \/ LinkDrops
  BY <1>6 DEF TargetInv, Reconnect, LinkDrops, brokerVars, monitorVars, TypeOK
<1>7. CASE Restart BY <1>7 DEF TargetInv, Restart, brokerVars, TypeOK
<1>8. CASE Broker
  BY <1>8 DEF TypeOK, TargetInv, Broker, BrokerOpens, BrokerCloses, PriceMoves, monitorVars
<1>9. CASE UNCHANGED pmVars
  BY <1>9 DEF TargetInv, pmVars, brokerVars, monitorVars, TypeOK
<1> QED BY <1>1, <1>2, <1>3, <1>4, <1>5, <1>6, <1>7, <1>8, <1>9 DEF Next, MonitorStep

\* However long the bridge takes between reading the positions and modifying them, a
\* stop it moves goes forward, as long as nobody else moves it
\* (position_tracker.py:117-150, connector.py:231-271).
THEOREM StopNeverBackAlways == Spec => StopNeverBack
<1>1. Init => TargetInv BY DEF Init, TargetInv
<1>2. TypeOK /\ TargetInv /\ [Next]_pmVars => TargetInv' BY TargetStep
<1>3. TypeOK /\ TargetInv /\ [Next]_pmVars => [\A t \in Tickets : stop'[t] >= stop[t]]_pmVars
  BY TargetStep
<1> QED BY <1>1, <1>2, <1>3, TypeCorrect, PTL DEF Spec, StopNeverBack

-----------------------------------------------------------------------------
(* The monitor and the Guardian: the EA takes over in time, no stop gets   *)
(* worse than the initial one, each closed trade is still recorded once.   *)

\* A step of the terminal is a step of the monitor or its broker, leaves them alone, or is
\* the EA's modification of one stop.
LEMMA MonitorSide ==
    ASSUME GuardianTypeOK, [GuardianNext]_gVars
    PROVE  \/ [Next]_pmVars
           \/ \E t \in Tickets : EaSend(t)
<1>1. ASSUME NEW t \in Tickets, CloseOne(t) PROVE [Next]_pmVars
  <2>1. CASE UNCHANGED state
    BY <1>1, <2>1 DEF CloseOne, pmVars, brokerVars
  <2>2. CASE state[t] = "open" /\ state' = [state EXCEPT ![t] = "closed"]
    BY <1>1, <2>2 DEF CloseOne, BrokerCloses, Broker, Next
  <2> QED
    BY <1>1, <2>1, <2>2 DEF CloseOne
<1>2. ASSUME Timer \/ CloseDone \/ CancelDone \/ FridayCheck \/ TrailCheck \/ TrailEnds
      PROVE  UNCHANGED pmVars
  BY <1>2 DEF Timer, CloseDone, CancelDone, FridayCheck, TrailCheck, TrailEnds
<1>3. ASSUME NEW t \in Tickets, CancelOne(t) \/ EaRead(t) PROVE UNCHANGED pmVars
  BY <1>3 DEF CancelOne, EaRead
<1>4. ASSUME EaRestart \/ AccountMoves \/ WeekTurns \/ Tick \/ UNCHANGED gVars
      PROVE  UNCHANGED pmVars
  BY <1>4 DEF EaRestart, AccountMoves, WeekTurns, Tick, gVars
<1>5. ASSUME BeatAndUpdate PROVE Next
  BY <1>5 DEF BeatAndUpdate, Next, MonitorStep
<1>6. ASSUME BridgeGoesOn PROVE Next
  BY <1>6 DEF BridgeGoesOn, Next, MonitorStep
<1>7. ASSUME NEW t \in Tickets, Fill(t) PROVE Next
  BY <1>7 DEF Fill, Next, Broker
<1>8. ASSUME NEW t \in Tickets, PlacePending(t) PROVE UNCHANGED pmVars
  BY <1>8 DEF PlacePending
<1>9. ASSUME MarketMoves PROVE Next
  BY <1>9 DEF MarketMoves, Next, Broker
<1> QED
  BY <1>1, <1>2, <1>3, <1>4, <1>5, <1>6, <1>7, <1>8, <1>9 DEF GuardianNext, EaStep

\* The EA's modification keeps the monitor's types.
LEMMA EaSendTyped ==
    ASSUME GuardianTypeOK, NEW t \in Tickets, EaSend(t)
    PROVE  TypeOK'
<1>1. aim[t] \in Int
  BY DEF GuardianTypeOK, EaSend
<1>2. stop' \in [Tickets -> Int]
  BY <1>1 DEF EaSend, GuardianTypeOK, TypeOK
<1> QED
  BY <1>2 DEF EaSend, GuardianTypeOK, TypeOK, monitorVars

\* What a step leaves in the EA's own variables and in the account.
LEMMA GuardianTypeStep ==
    ASSUME GuardianTypeOK, [GuardianNext]_gVars
    PROVE  GuardianTypeOK'
<1> USE ClockAssumption, AccountAssumption, LevelsAssumption
<1>0. TypeOK'
  BY MonitorSide, EaSendTyped, TypeStep DEF GuardianTypeOK
<1>1. ASSUME Timer PROVE GuardianTypeOK'
  <2>1. NewPeak \in Equities /\ Stale \in BOOLEAN
    BY DEF NewPeak, Stale, GuardianTypeOK
  <2> QED
    BY <1>0, <1>1, <2>1 DEF Timer, GuardianTypeOK, Open, pmVars, brokerVars, clockVars, account
<1>2. ASSUME NEW t \in Tickets, CloseOne(t) PROVE GuardianTypeOK'
  BY <1>0, <1>2 DEF CloseOne, GuardianTypeOK, TypeOK, clockVars, account
<1>3. ASSUME CloseDone PROVE GuardianTypeOK'
  BY <1>0, <1>3 DEF CloseDone, GuardianTypeOK, pmVars, brokerVars, clockVars, account
<1>4. ASSUME NEW t \in Tickets, CancelOne(t) PROVE GuardianTypeOK'
  BY <1>0, <1>4 DEF CancelOne, GuardianTypeOK, pmVars, brokerVars, clockVars, account
<1>5. ASSUME CancelDone PROVE GuardianTypeOK'
  BY <1>0, <1>5 DEF CancelDone, GuardianTypeOK, pmVars, brokerVars, clockVars, account
<1>6. ASSUME FridayCheck PROVE GuardianTypeOK'
  BY <1>0, <1>6 DEF FridayCheck, GuardianTypeOK, Open, pmVars, brokerVars, clockVars, account
<1>7. ASSUME TrailCheck PROVE GuardianTypeOK'
  BY <1>0, <1>7 DEF TrailCheck, GuardianTypeOK, Open, pmVars, brokerVars, clockVars, account
<1>8. ASSUME NEW t \in Tickets, EaRead(t) PROVE GuardianTypeOK'
  <2>1. level[t] \in Int
    BY DEF GuardianTypeOK, TypeOK
  <2>2. aim' \in [Tickets -> Int \cup {NoTarget}]
    BY <1>8, <2>1 DEF EaRead, GuardianTypeOK
  <2> QED
    BY <1>0, <1>8, <2>2 DEF EaRead, GuardianTypeOK, pmVars, brokerVars, clockVars, account
<1>9. ASSUME NEW t \in Tickets, EaSend(t) PROVE GuardianTypeOK'
  BY <1>0, <1>9 DEF EaSend, NoAim, GuardianTypeOK, clockVars, account
<1>10. ASSUME TrailEnds PROVE GuardianTypeOK'
  BY <1>0, <1>10 DEF TrailEnds, NoAim, GuardianTypeOK, pmVars, brokerVars, clockVars, account
<1>11. ASSUME EaRestart PROVE GuardianTypeOK'
  <2>1. aim' = [t \in Tickets |-> NoTarget] /\ aim' \in [Tickets -> Int \cup {NoTarget}]
    BY <1>11 DEF EaRestart, NoAim
  <2>2. 0 \in 0..AgeCap /\ 0 \in 0..CheckInterval
    OBVIOUS
  <2>3. UNCHANGED <<state, beatAge, equity, balance, friday, pending>>
    BY <1>11 DEF EaRestart, pmVars, brokerVars, account
  <2> QED
    BY <1>0, <1>11, <2>1, <2>2, <2>3 DEF EaRestart, GuardianTypeOK
<1>12. ASSUME UNCHANGED <<eaVars, pending, account, friday, state>>,
              beatAge' \in 0..AgeCap, calm' \in 0..AgeCap
       PROVE  GuardianTypeOK'
  BY <1>0, <1>12 DEF GuardianTypeOK, eaVars, account
<1>13. ASSUME BeatAndUpdate PROVE GuardianTypeOK'
  BY <1>12, <1>13 DEF BeatAndUpdate, Update, brokerVars, clockVars, GuardianTypeOK
<1>14. ASSUME BridgeGoesOn PROVE GuardianTypeOK'
  <2>1. UNCHANGED state
    BY <1>14 DEF BridgeGoesOn, TrailOne, TrailRaises, RecordOne, TrailDone, RecordDone,
       Reconnect, LinkDrops, Restart, brokerVars
  <2> QED
    BY <1>12, <1>14, <2>1 DEF BridgeGoesOn, clockVars, GuardianTypeOK
<1>15. ASSUME NEW t \in Tickets, Fill(t) PROVE GuardianTypeOK'
  BY <1>0, <1>15 DEF Fill, BrokerOpens, GuardianTypeOK, TypeOK, eaVars, clockVars, account
<1>16. ASSUME NEW t \in Tickets, PlacePending(t) PROVE GuardianTypeOK'
  BY <1>0, <1>16 DEF PlacePending, GuardianTypeOK, pmVars, brokerVars, eaVars, clockVars, account
<1>17. ASSUME MarketMoves PROVE GuardianTypeOK'
  <2>1. \A t \in Tickets : state[t] = "none" => state'[t] = "none"
    BY <1>17 DEF MarketMoves, BrokerCloses, PriceMoves, GuardianTypeOK, TypeOK
  <2> QED
    BY <1>0, <1>17, <2>1 DEF MarketMoves, GuardianTypeOK, eaVars, clockVars, account
<1>18. ASSUME AccountMoves PROVE GuardianTypeOK'
  BY <1>0, <1>18 DEF AccountMoves, GuardianTypeOK, pmVars, brokerVars, eaVars, clockVars
<1>19. ASSUME WeekTurns PROVE GuardianTypeOK'
  BY <1>0, <1>19 DEF WeekTurns, GuardianTypeOK, pmVars, brokerVars, eaVars, clockVars, account
<1>20. ASSUME Tick PROVE GuardianTypeOK'
  <2>1. Older(beatAge) \in 0..AgeCap /\ Older(calm) \in 0..AgeCap
    BY DEF Older, GuardianTypeOK
  <2>2. sinceCheck' \in 0..CheckInterval
    BY <1>20 DEF Tick, GuardianTypeOK
  <2> QED
    BY <1>0, <1>20, <2>1, <2>2 DEF Tick, GuardianTypeOK, pmVars, brokerVars, account
<1>21. ASSUME UNCHANGED gVars PROVE GuardianTypeOK'
  BY <1>12, <1>21 DEF gVars, pmVars, brokerVars, clockVars, GuardianTypeOK
<1> QED
  BY <1>1, <1>2, <1>3, <1>4, <1>5, <1>6, <1>7, <1>8, <1>9, <1>10, <1>11, <1>13, <1>14, <1>15,
     <1>16, <1>17, <1>18, <1>19, <1>20, <1>21 DEF GuardianNext, EaStep

\* The types at the start.
LEMMA GuardianTypeInit == GuardianInit => GuardianTypeOK
<1> SUFFICES ASSUME GuardianInit PROVE GuardianTypeOK
  OBVIOUS
<1>1. TypeOK
  BY LevelsAssumption DEF GuardianInit, Init, TypeOK
<1>2. AgeCap \in 0..AgeCap /\ 0 \in 0..AgeCap /\ 0 \in 0..CheckInterval
  BY ClockAssumption
<1>3. aim \in [Tickets -> Int \cup {NoTarget}]
  BY DEF GuardianInit
<1> QED
  BY <1>1, <1>2, <1>3 DEF GuardianInit, GuardianTypeOK

\* The EA's and the monitor's states are well-formed, and an EA that waits for its timer
\* has finished with positions and stops (GoliathGuardian.mq5, position_tracker.py).
THEOREM GuardianTypeCorrect == GuardianSpec => []GuardianTypeOK
<1>1. GuardianTypeOK /\ [GuardianNext]_gVars => GuardianTypeOK'
  BY GuardianTypeStep
<1> QED
  BY <1>1, GuardianTypeInit, PTL DEF GuardianSpec

-----------------------------------------------------------------------------
(* The EA takes over in time.                                              *)

\* The heartbeat is at least as old as the silence, and since the last check the EA has
\* been in defensive mode or the silence has not outlasted the timeout by more than the
\* time since then.
SilenceInv ==
    /\ calm <= beatAge
    /\ defensive \/ sinceCheck = CheckInterval \/ calm <= HeartbeatTimeout + sinceCheck

\* Every step keeps SilenceInv.
LEMMA SilenceStep ==
    ASSUME ServerOffset >= 0, GuardianTypeOK, SilenceInv, [GuardianNext]_gVars
    PROVE  SilenceInv'
<1> USE ClockAssumption
<1>0. /\ beatAge \in 0..AgeCap /\ calm \in 0..AgeCap /\ sinceCheck \in 0..CheckInterval
      /\ defensive \in BOOLEAN
  BY DEF GuardianTypeOK
<1>1. ASSUME Timer PROVE SilenceInv'
  <2>1. Stale \/ beatAge <= HeartbeatTimeout
    BY <1>0 DEF Stale
  <2>2. UNCHANGED <<beatAge, calm>> /\ sinceCheck' = 0 /\ defensive' = Stale
    BY <1>1 DEF Timer, clockVars
  <2> QED
    BY <1>0, <2>1, <2>2 DEF SilenceInv
<1>2. ASSUME Tick PROVE SilenceInv'
  BY <1>0, <1>2 DEF Tick, Older, SilenceInv
<1>3. ASSUME EaRestart PROVE SilenceInv'
  BY <1>0, <1>3 DEF EaRestart, SilenceInv
<1>4. ASSUME UNCHANGED <<clockVars, defensive, sinceCheck>> PROVE SilenceInv'
  BY <1>4 DEF SilenceInv, clockVars
<1>5. ASSUME BeatAndUpdate PROVE SilenceInv'
  BY <1>0, <1>4, <1>5 DEF BeatAndUpdate, eaVars, SilenceInv
<1>6. ASSUME NEW t \in Tickets, CloseOne(t) \/ CancelOne(t) \/ EaRead(t) \/ EaSend(t)
             \/ Fill(t) \/ PlacePending(t)
      PROVE  SilenceInv'
  BY <1>4, <1>6 DEF CloseOne, CancelOne, EaRead, EaSend, Fill, PlacePending, eaVars
<1>7. ASSUME CloseDone \/ CancelDone \/ FridayCheck \/ TrailCheck \/ TrailEnds PROVE SilenceInv'
  BY <1>4, <1>7 DEF CloseDone, CancelDone, FridayCheck, TrailCheck, TrailEnds
<1>8. ASSUME BridgeGoesOn \/ MarketMoves \/ AccountMoves \/ WeekTurns \/ UNCHANGED gVars
      PROVE  SilenceInv'
  BY <1>4, <1>8 DEF BridgeGoesOn, MarketMoves, AccountMoves, WeekTurns, gVars, eaVars
<1> QED
  BY <1>1, <1>2, <1>3, <1>5, <1>6, <1>7, <1>8 DEF GuardianNext, EaStep

\* For every timeout and check interval, and however long the EA's own orders take: when
\* the server's clock is not behind the bridge's, an EA between two checks is in defensive
\* mode once the bridge has been silent for the timeout and one interval
\* (GoliathGuardian.mq5:121-207).
THEOREM GuardianTakesOver ==
    ASSUME ServerOffset >= 0
    PROVE  GuardianSpec => []TakesOverInTime
<1>1. GuardianInit => SilenceInv
  BY ClockAssumption DEF GuardianInit, SilenceInv
<1>2. GuardianTypeOK /\ SilenceInv /\ [GuardianNext]_gVars => SilenceInv'
  BY SilenceStep
<1>3. GuardianTypeOK /\ SilenceInv => TakesOverInTime
  BY ClockAssumption DEF GuardianTypeOK, SilenceInv, TakesOverInTime
<1> QED
  BY <1>1, <1>2, <1>3, GuardianTypeCorrect, PTL DEF GuardianSpec

-----------------------------------------------------------------------------
(* The stops, whoever moves them.                                          *)

\* The stops, and those the monitor and the EA are about to send, are not worse than the
\* one a position was opened with.
FloorInv ==
    \A t \in Tickets :
        /\ stop[t] >= InitialStop
        /\ target[t] # NoTarget => target[t] >= InitialStop
        /\ aim[t] # NoTarget => aim[t] >= InitialStop

\* Every step keeps FloorInv.
LEMMA FloorStep ==
    ASSUME GuardianTypeOK, FloorInv, [GuardianNext]_gVars
    PROVE  FloorInv'
<1> USE LevelsAssumption
<1>0. TypeOK /\ stop \in [Tickets -> Int] /\ aim \in [Tickets -> Int \cup {NoTarget}]
      /\ target \in [Tickets -> Int \cup {NoTarget}]
  BY DEF GuardianTypeOK, TypeOK
<1>1. ASSUME Update, UNCHANGED aim PROVE FloorInv'
  <2>1. PICK r \in Reported : target' = Targets(r)
    BY <1>1 DEF Update
  <2>2. r \subseteq Tickets
    BY <2>1, ReportedIsOpen DEF Open
  <2>3. target' \in [Tickets -> Int \cup {NoTarget}]
        /\ \A t \in Tickets : target'[t] # NoTarget => target'[t] > stop[t]
    BY <1>0, <2>1, <2>2, TargetsImprove
  <2>4. stop' = stop
    BY <1>1 DEF Update, brokerVars
  <2> QED
    BY <1>0, <1>1, <2>3, <2>4 DEF FloorInv
<1>2. ASSUME NEW t \in Tickets, TrailOne(t), UNCHANGED aim PROVE FloorInv'
  BY <1>0, <1>2 DEF TrailOne, FloorInv
<1>3. ASSUME UNCHANGED <<stop, aim>>, target' = target \/ target' = [t \in Tickets |-> NoTarget]
      PROVE  FloorInv'
  BY <1>3 DEF FloorInv
<1>4. ASSUME NEW t \in Tickets, EaRead(t) PROVE FloorInv'
  <2>0. level[t] \in Levels /\ stop[t] \in Int
    BY <1>0 DEF TypeOK
  <2>4. level[t] \in Int
    BY <2>0
  <2>1. level[t] \in Int /\ level[t] - Distance \in Int /\ stop[t] \in Int
    BY <2>0, <2>4
  <2>2. EaTrails(t) => level[t] - Distance >= InitialStop
    BY <2>1 DEF EaTrails, FloorInv
  <2>3. UNCHANGED <<stop, target>>
    BY <1>4 DEF EaRead, pmVars, brokerVars, monitorVars
  <2> QED
    BY <1>0, <1>4, <2>1, <2>2, <2>3 DEF EaRead, FloorInv
<1>5. ASSUME NEW t \in Tickets, EaSend(t) PROVE FloorInv'
  BY <1>0, <1>5 DEF EaSend, NoAim, FloorInv, monitorVars
<1>6. ASSUME EaRestart PROVE FloorInv'
  BY <1>0, <1>6 DEF EaRestart, NoAim, FloorInv, pmVars, brokerVars, monitorVars
<1>7. ASSUME BeatAndUpdate PROVE FloorInv'
  BY <1>1, <1>7 DEF BeatAndUpdate, eaVars
<1>8. ASSUME BridgeGoesOn PROVE FloorInv'
  BY <1>2, <1>3, <1>8 DEF BridgeGoesOn, TrailRaises, RecordOne, TrailDone, RecordDone, Reconnect,
     LinkDrops, Restart, eaVars, brokerVars, monitorVars
<1>9. ASSUME NEW t \in Tickets, CloseOne(t) \/ CancelOne(t) \/ Fill(t) \/ PlacePending(t)
      PROVE  FloorInv'
  BY <1>3, <1>9 DEF CloseOne, CancelOne, Fill, BrokerOpens, PlacePending, eaVars, pmVars,
     brokerVars, monitorVars
<1>10. ASSUME \/ Timer \/ CloseDone \/ CancelDone \/ FridayCheck \/ TrailCheck \/ TrailEnds
              \/ MarketMoves \/ AccountMoves \/ WeekTurns \/ Tick \/ UNCHANGED gVars
       PROVE  FloorInv'
  BY <1>3, <1>10 DEF Timer, CloseDone, CancelDone, FridayCheck, TrailCheck, TrailEnds, MarketMoves,
     BrokerCloses, PriceMoves, AccountMoves, WeekTurns, Tick, gVars, eaVars, pmVars, brokerVars,
     monitorVars
<1> QED
  BY <1>4, <1>5, <1>6, <1>7, <1>8, <1>9, <1>10 DEF GuardianNext, EaStep

\* For any trailing parameters and any number of positions: the bridge and the EA move the
\* same stops from readings that may be stale, and still no position is left with a stop
\* worse than its initial one (position_tracker.py:117-150, ManageEmergencyTrailingStops).
THEOREM StopsKeepTheirFloor == GuardianSpec => []NeverWorseThanInitial
<1>1. GuardianInit => FloorInv
  <2>1. InitialStop >= InitialStop
    BY LevelsAssumption
  <2>2. ASSUME GuardianInit, NEW t \in Tickets
        PROVE  stop[t] = InitialStop /\ target[t] = NoTarget /\ aim[t] = NoTarget
    BY <2>2 DEF GuardianInit, Init
  <2> QED
    BY <2>1, <2>2 DEF FloorInv
<1>2. GuardianTypeOK /\ FloorInv /\ [GuardianNext]_gVars => FloorInv'
  BY FloorStep
<1>3. FloorInv => NeverWorseThanInitial
  BY DEF FloorInv, NeverWorseThanInitial
<1> QED
  BY <1>1, <1>2, <1>3, GuardianTypeCorrect, PTL DEF GuardianSpec

-----------------------------------------------------------------------------
(* The monitor beside the EA.                                              *)

\* Positions the EA closes in the middle of an update, and stops it moves, do not disturb
\* the recording of closed trades: at most one row each, and only for closed positions
\* (position_tracker.py:59-115, main.py:190-208, CloseAllMoneyMakerPositions).
THEOREM RecordedOnceBesideGuardian ==
    ASSUME PositionsGetMayFail = FALSE
    PROVE  GuardianSpec => []RecordedOnceClosed
<1>1. GuardianInit => CloseInv
  BY CloseInit DEF GuardianInit
<1>2. GuardianTypeOK /\ CloseInv /\ [GuardianNext]_gVars => CloseInv'
  <2> SUFFICES ASSUME GuardianTypeOK, CloseInv, [GuardianNext]_gVars PROVE CloseInv'
    OBVIOUS
  <2>1. CASE [Next]_pmVars
    BY <2>1, CloseStep DEF GuardianTypeOK
  <2>2. ASSUME NEW t \in Tickets, EaSend(t) PROVE CloseInv'
    BY <2>2 DEF EaSend, CloseInv, monitorVars
  <2> QED
    BY <2>1, <2>2, MonitorSide
<1>3. GuardianTypeOK /\ CloseInv => RecordedOnceClosed
  <2> SUFFICES ASSUME GuardianTypeOK, CloseInv, NEW t \in Tickets
               PROVE  records[t] <= 1 /\ (records[t] = 1 => state[t] = "closed")
    BY DEF RecordedOnceClosed
  <2>1. records[t] \in Nat
    BY DEF GuardianTypeOK, TypeOK
  <2> QED
    BY <2>1 DEF CloseInv
<1> QED
  BY <1>1, <1>2, <1>3, GuardianTypeCorrect, PTL DEF GuardianSpec
=============================================================================

----------------------------- MODULE EngineLoop -----------------------------
(***************************************************************************)
(* The main loop of the algo engine (run_engine) over the kill switch: it  *)
(* asks is_active before it waits for a bar and again before it dispatches *)
(* a signal, sleeps when told to stop or when an iteration raises, and     *)
(* awaits BridgeClient.send_signal with its retries.                       *)
(*                                                                         *)
(* activate() is not in this next-state relation, because the loop never   *)
(* gets there: auto_check is called only for a signal that SignalValidator *)
(* accepted on the same portfolio state and with the same limits, and      *)
(* DrawdownEnforcer.check gets an equity nobody updates and the default    *)
(* peak (see BarSignal).  The model covers one trading                     *)
(* day: the daily loss is not reset.                                       *)
(***************************************************************************)
EXTENDS KillSwitch

CONSTANT MaxAttempts    \* _MAX_RETRIES of BridgeClient

ASSUME AttemptsAssumption == MaxAttempts \in Nat \ {0}

VARIABLES
    pc,          \* where the loop is
    lossOver,    \* the portfolio's daily_loss_pct has reached the limit
    attempts     \* attempts of the current send_signal

loopVars == <<pc, lossOver, attempts>>
vars == <<ksVars, loopVars>>

LoopTypeOK ==
    /\ TypeOK
    /\ pc \in {"boot", "top", "recv", "bar", "check", "send", "sleep", "rested"}
    /\ lossOver \in BOOLEAN
    /\ attempts \in 0..MaxAttempts
    /\ pc = "boot" <=> call = "down"
    /\ call = "get" => pc \in {"top", "check"}
    /\ attempts > 0 <=> pc = "send"

LoopInit ==
    /\ Init
    /\ pc = "boot"
    /\ lossOver = FALSE
    /\ attempts = 0

-----------------------------------------------------------------------------
\* run_engine up to the loop: the kill switch connects and the portfolio takes the
\* day's loss from Redis, if Redis is there.
Boot ==
    /\ pc = "boot"
    /\ \/ Connect /\ lossOver' \in BOOLEAN
       \/ ConnectFails /\ lossOver' = FALSE
    /\ pc' = "top"
    /\ UNCHANGED <<attempts>>

\* The loop asks the kill switch, at its top or before it dispatches.
Ask ==
    /\ pc \in {"top", "check"}
    /\ IsActive
    /\ UNCHANGED loopVars

ReadingStep == Reading /\ UNCHANGED loopVars

\* Sensitivity variant: the second answer is not looked at.
GoOnAnyway == verdict = "inactive" \/ pc = "check"

\* The answer lets the loop go on.
GoOn == verdict = "inactive"

\* The top of the loop: sleep(5) and start again, or wait for a message.
ActOnTop ==
    /\ pc = "top" /\ verdict \in {"active", "inactive"}
    /\ pc' = IF GoOn THEN "recv" ELSE "sleep"
    /\ Consume
    /\ UNCHANGED <<lossOver, attempts>>

\* A signal is dispatched, or dropped because the switch is active.
ActOnCheck ==
    /\ pc = "check" /\ verdict \in {"active", "inactive"}
    /\ pc' = IF GoOn THEN "send" ELSE "top"
    /\ attempts' = IF GoOn THEN 1 ELSE 0
    /\ Consume
    /\ UNCHANGED <<lossOver>>

\* is_active raised: the loop's except logs the error and sleeps.
IterationRaised ==
    /\ verdict = "raised"
    /\ pc' = "sleep"
    /\ Consume
    /\ UNCHANGED <<lossOver, attempts>>

Wake ==
    /\ pc = "rested"
    /\ pc' = "top"
    /\ UNCHANGED <<ksVars, lossOver, attempts>>

\* A message arrives: a bar, or something the loop skips.
Receive ==
    /\ pc = "recv"
    /\ pc' \in {"top", "bar"}
    /\ UNCHANGED <<ksVars, lossOver, attempts>>

\* process_bar gives no signal, or raises.
BarNone ==
    /\ pc = "bar"
    /\ pc' \in {"top", "sleep"}
    /\ UNCHANGED <<ksVars, lossOver, attempts>>

\* process_bar gives a signal.  SignalValidator has refused it if the loss is at its
\* limit, so that auto_check finds nothing to do.
BarSignal ==
    /\ pc = "bar" /\ ~lossOver
    /\ pc' = "check"
    /\ UNCHANGED <<ksVars, lossOver, attempts>>

\* An attempt of send_signal fails and the next one is made.
RetryAttempt ==
    /\ pc = "send" /\ attempts < MaxAttempts
    /\ attempts' = attempts + 1
    /\ UNCHANGED <<ksVars, pc, lossOver>>

\* send_signal returns or raises; the rest of the iteration changes nothing here.
SendDone ==
    /\ pc = "send"
    /\ pc' = "top"
    /\ attempts' = 0
    /\ UNCHANGED <<ksVars, lossOver>>

EngineRestart ==
    /\ Restart
    /\ pc' = "boot"
    /\ attempts' = 0
    /\ lossOver' = FALSE

\* The console, other writers of the key and Redis.
OtherSteps == Environment /\ UNCHANGED loopVars

\* Time passes where the loop awaits something; a sleep lasts a tick at least.
LoopTick ==
    /\ pc \in {"top", "check"} => call = "get"
    /\ Tick
    /\ pc' = IF pc = "sleep" THEN "rested" ELSE pc
    /\ UNCHANGED <<lossOver, attempts>>

\* What the event loop runs as soon as it can.
LoopStep ==
    \/ Boot
    \/ Ask \/ ReadingStep
    \/ ActOnTop \/ ActOnCheck \/ IterationRaised
    \/ Wake
    \/ BarNone \/ BarSignal
    \/ SendDone

LoopNext ==
    \/ LoopStep
    \/ Receive
    \/ RetryAttempt
    \/ EngineRestart
    \/ OtherSteps
    \/ LoopTick

\* The event loop runs, Redis commands and send_signal end, and time does not stand
\* still.  Bars need not arrive.
LoopFairness ==
    /\ WF_vars(LoopStep)
    /\ SF_vars(LoopTick)

LoopSpec == LoopInit /\ [][LoopNext]_vars

LiveSpec == LoopSpec /\ LoopFairness

-----------------------------------------------------------------------------
(* Properties.                                                             *)

\* A dispatch starts only if the key was not there a cache's life or an answer's way
\* ago (main.py:378-385, kill_switch.py:172-199), whatever was awaited between the
\* top of the loop and the dispatch, unless the cache was cleared blindly a moment ago.
\* And an engine that never reached Redis never dispatches, though Redis comes back
\* and however long it runs (kill_switch.py:77, 103-108).
DispatchNoticesStop ==
    [][pc = "check" /\ pc' = "send" =>
          connected /\ (stopAge <= NoticeBound \/ clearedAge < CacheTtl)]_vars

\* A stop that stays stops everything in the end, retries included
\* (main.py:314-323, 378-385).
StopTakesHold == <>[](key # "absent" /\ connected) => <>[](pc # "send")

\* Once the key is gone for good and Redis answers, a connected engine returns to
\* waiting for bars again and again (main.py:314-333, 499-505): no sleep, exception
\* or cached value keeps it out.
Resumes ==
    <>[](key = "absent" /\ redisUp /\ connected) => []<>(pc \in {"recv", "send"})

=============================================================================

--------------------------- MODULE TradeExecution ---------------------------
(***************************************************************************)
(* The path of a signal from the algo engine to the broker: the main loop  *)
(* calls BridgeClient.send_signal (retries with backoff, circuit breaker), *)
(* each attempt is one ExecuteTrade RPC whose request, answer or whole     *)
(* connection may be lost, and the bridge runs it in a worker thread that  *)
(* no client timeout can cancel (module OrderManager).                     *)
(***************************************************************************)
EXTENDS OrderManager

CONSTANTS
    MaxRetries,     \* _MAX_RETRIES
    RpcTimeout,     \* _RPC_TIMEOUT, in ticks
    CbThreshold,    \* _CB_FAILURE_THRESHOLD
    CbRecovery,     \* _CB_RECOVERY_TIMEOUT, in ticks
    LastSend        \* bound: the last tick at which the engine issues a signal

ASSUME ClientAssumption ==
    /\ MaxRetries \in Nat \ {0}
    /\ RpcTimeout \in Nat \ {0}
    /\ CbThreshold \in Nat \ {0}
    /\ CbRecovery \in Nat \ {0}
    /\ LastSend \in Nat
    /\ Stamped = {}     \* the handler passes no timestamp_ms on

VARIABLES
    phase,      \* send_signal: "idle", "rpc" (attempt in flight) or "backoff"
    cur,        \* the signal being sent
    attempt,    \* number of the current attempt
    begun,      \* when the current attempt or backoff began
    serving,    \* worker thread that runs the current attempt, or NoThread
    cbFailures, \* _cb_failures
    cbOpenSince,\* _cb_open_since
    issued,     \* signals handed to send_signal
    answer,     \* per signal: what send_signal gave the main loop
    booked      \* signals in the engine's portfolio (record_fill)

clientVars == <<phase, cur, attempt, begun, serving, cbFailures, cbOpenSince,
                issued, answer, booked>>
vars == <<omVars, clientVars>>

Answers == {"none", "FILLED", "PENDING", "REJECTED", "UNKNOWN", "raised"}

ClientTypeOK ==
    /\ phase \in {"idle", "rpc", "backoff"}
    /\ cur \in Signals \cup {NoSignal}
    /\ attempt \in 0..MaxRetries
    /\ begun \in Nat
    /\ serving \in Threads \cup {NoThread}
    /\ cbFailures \in Nat
    /\ cbOpenSince \in Nat
    /\ issued \subseteq Signals
    /\ answer \in [Signals -> Answers]
    /\ booked \subseteq Signals

SysTypeOK == TypeOK /\ ClientTypeOK

SysInit ==
    /\ Init
    /\ phase = "idle"
    /\ cur = NoSignal
    /\ attempt = 0
    /\ begun = 0
    /\ serving = NoThread
    /\ cbFailures = 0
    /\ cbOpenSince = 0
    /\ issued = {}
    /\ answer = [s \in Signals |-> "none"]
    /\ booked = {}

-----------------------------------------------------------------------------
(* BridgeClient: circuit breaker.                                          *)

\* Sensitivity variant: the breaker trips one failure late.
TrippedLate == cbFailures > CbThreshold

Tripped == cbFailures >= CbThreshold

\* _circuit_open: tripped, and the recovery time has not passed.
CircuitOpen == Tripped /\ now - cbOpenSince < CbRecovery

\* _record_failure: every failure from the threshold on restarts the recovery time.
RecordFailure ==
    /\ cbFailures' = cbFailures + 1
    /\ cbOpenSince' = IF cbFailures + 1 >= CbThreshold THEN now ELSE cbOpenSince

\* _record_success
RecordSuccess ==
    /\ cbFailures' = 0
    /\ UNCHANGED cbOpenSince

\* execution_to_dict: the client's status table has no entry for ERROR.
StatusSeen(st) == IF st = "ERROR" THEN "UNKNOWN" ELSE st

\* send_signal returns to the main loop with outcome a; FILLED is booked by
\* portfolio.record_fill, anything else only logged.
ReturnToLoop(a) ==
    /\ phase' = "idle"
    /\ cur' = NoSignal
    /\ attempt' = 0
    /\ begun' = 0
    /\ serving' = NoThread
    /\ answer' = [answer EXCEPT ![cur] = a]
    /\ booked' = IF a = "FILLED" THEN booked \cup {cur} ELSE booked

-----------------------------------------------------------------------------
(* BridgeClient.send_signal.                                               *)

\* The main loop sends a new signal and the breaker lets the call through.
SendSignal(s) ==
    /\ phase = "idle"
    /\ s \notin issued
    /\ now <= LastSend
    /\ ~CircuitOpen
    /\ phase' = "rpc"
    /\ cur' = s
    /\ attempt' = 1
    /\ begun' = now
    /\ serving' = NoThread
    /\ issued' = issued \cup {s}
    /\ UNCHANGED <<omVars, cbFailures, cbOpenSince, answer, booked>>

\* The breaker is open: RuntimeError, which the main loop logs.  The signal is lost.
CircuitRefuses(s) ==
    /\ phase = "idle"
    /\ s \notin issued
    /\ now <= LastSend
    /\ CircuitOpen
    /\ issued' = issued \cup {s}
    /\ answer' = [answer EXCEPT ![s] = "raised"]
    /\ UNCHANGED <<omVars, phase, cur, attempt, begun, serving, cbFailures,
                   cbOpenSince, booked>>

\* The request reaches the bridge, whose handler gives it to a free thread.
\* The handler passes no timestamp on.
Deliver(t) ==
    /\ phase = "rpc" /\ serving = NoThread
    /\ Submit(t, cur, NoStamp)
    /\ serving' = t
    /\ UNCHANGED <<phase, cur, attempt, begun, cbFailures, cbOpenSince,
                   issued, answer, booked>>

\* The answer arrives before the deadline.
Receive(t) ==
    /\ phase = "rpc" /\ serving = t
    /\ ReturnToLoop(StatusSeen(status[t]))
    /\ Reply(t)
    /\ RecordSuccess
    /\ UNCHANGED issued

\* `attempt < self._MAX_RETRIES`
MayRetry == attempt < MaxRetries

\* The attempt ended in an exception: the client counts the failure and sleeps
\* before the next attempt, or gives up and raises.
AttemptFails ==
    /\ RecordFailure
    /\ IF MayRetry
         THEN /\ phase' = "backoff"
              /\ begun' = now
              /\ serving' = NoThread
              /\ UNCHANGED <<cur, attempt, answer, booked>>
         ELSE ReturnToLoop("raised")
    /\ UNCHANGED <<omVars, issued>>

\* Sensitivity variant: the deadline covers the connection only, not the execution.
RpcDeadlineUnserved ==
    /\ phase = "rpc" /\ now - begun >= RpcTimeout /\ serving = NoThread
    /\ AttemptFails

\* DEADLINE_EXCEEDED.  The thread that runs the attempt is not stopped.
RpcDeadline ==
    /\ phase = "rpc" /\ now - begun >= RpcTimeout
    /\ AttemptFails

\* Any other failure of the call: refused, reset, answer lost on the way.
RpcFails ==
    /\ phase = "rpc" /\ now - begun < RpcTimeout
    /\ AttemptFails

\* The backoff is over; the breaker is not asked again.
Retry ==
    /\ phase = "backoff"
    /\ phase' = "rpc"
    /\ attempt' = attempt + 1
    /\ begun' = now
    /\ UNCHANGED <<omVars, cur, serving, cbFailures, cbOpenSince, issued, answer, booked>>

-----------------------------------------------------------------------------
(* Bridge, broker and clock.                                               *)

\* A thread's answer goes to an attempt the client has given up on.
DiscardReply(t) ==
    /\ serving # t
    /\ Reply(t)
    /\ UNCHANGED clientVars

BridgeStep(t) == ThreadStep(t) /\ UNCHANGED clientVars

\* The thread that was running the current attempt is gone with the process;
\* the client finds out by an error or by its deadline.
BridgeRestart ==
    /\ Restart
    /\ UNCHANGED clientVars

BrokerStep == Broker /\ UNCHANGED clientVars

\* An attempt ends at its deadline; a backoff is shorter than a tick.
SysTick ==
    /\ phase = "rpc" => now - begun < RpcTimeout
    /\ phase = "backoff" => now = begun
    /\ Tick
    /\ UNCHANGED clientVars

\* The engine waits for the next bar, the bridge for the next request.
Quiet ==
    /\ phase = "idle"
    /\ \A t \in Threads : pc[t] = "idle"
    /\ UNCHANGED vars

ClientStep ==
    \/ \E t \in Threads : Deliver(t) \/ Receive(t)
    \/ RpcDeadline
    \/ Retry

SysNext ==
    \/ \E s \in Signals : SendSignal(s) \/ CircuitRefuses(s)
    \/ ClientStep
    \/ RpcFails
    \/ \E t \in Threads : DiscardReply(t) \/ BridgeStep(t)
    \/ BridgeRestart
    \/ BrokerStep
    \/ SysTick
    \/ Quiet

\* asyncio wakes the client at its deadline and after its backoff, worker threads
\* run, order_send returns, and time passes.
SysFairness ==
    /\ WF_vars(RpcDeadline)
    /\ WF_vars(Retry)
    /\ WF_vars(SysTick)
    /\ \A t \in Threads :
          /\ SF_vars(BridgeStep(t))
          /\ WF_vars(DiscardReply(t))

SysSpec == SysInit /\ [][SysNext]_vars

SysLiveSpec == SysSpec /\ SysFairness

-----------------------------------------------------------------------------
(* Properties.                                                             *)

\* One signal, one order (order_manager.py:97-105): however the attempts of
\* send_signal overlap in the bridge's threads, no signal is executed twice.
AtMostOnce ==
    \A i, j \in DOMAIN orders : orders[i].sig = orders[j].sig => i = j

\* The engine and the bridge implement the promise of SignalExecution.
Abstract == INSTANCE SignalExecution WITH
    trades <- [i \in DOMAIN orders |-> orders[i].sig]

\* Refinement: every step of the client, the network and the bridge is a step of
\* SignalExecution or changes nothing it speaks of (grpc_client.py:229-295,
\* main.py:435-441, order_manager.py:93-157).
ImplementsSignalExecution == Abstract!Spec

\* What the breaker is for (grpc_client.py:154-177, 244-248): a bridge that keeps
\* failing is tried at most CbThreshold - 1 + MaxRetries times, plus MaxRetries times
\* per recovery period, although retries within a call never consult the breaker.
BreakerLimitsAttempts ==
    cbFailures <= CbThreshold - 1 + MaxRetries * (1 + now \div CbRecovery)

\* send_signal always returns to the main loop (grpc_client.py:254-295), even when
\* the bridge is dead or every worker thread is stuck behind a slow order_send.
SendReturns == phase # "idle" ~> phase = "idle"

=============================================================================

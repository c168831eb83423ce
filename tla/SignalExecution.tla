--------------------------- MODULE SignalExecution ---------------------------
(***************************************************************************)
(* What the engine and the bridge promise together about a trading signal, *)
(* in the words of the bridge's specification: a signal has a unique id,   *)
(* and "Duplicate order submission is the most dangerous failure mode".    *)
(* Each signal leads to at most one order, and the engine books a fill     *)
(* only for a signal that has one.                                         *)
(***************************************************************************)
EXTENDS Sequences, Functions

CONSTANT Signals

VARIABLES
    issued,   \* signals the engine handed to the bridge client
    trades,   \* the signals that led to an order, in the order of execution
    booked    \* signals the engine recorded as filled

absVars == <<issued, trades, booked>>

Init == issued = {} /\ trades = <<>> /\ booked = {}

\* The engine hands a signal over; a signal is handed over once.
Issue(s) ==
    /\ s \notin issued
    /\ issued' = issued \cup {s}
    /\ UNCHANGED <<trades, booked>>

\* The broker accepts the one order of an issued signal.
Trade(s) ==
    /\ s \in issued
    /\ s \notin Range(trades)
    /\ trades' = Append(trades, s)
    /\ UNCHANGED <<issued, booked>>

\* The engine learns that the signal was filled.
Book(s) ==
    /\ s \in Range(trades)
    /\ booked' = booked \cup {s}
    /\ UNCHANGED <<issued, trades>>

Next == \E s \in Signals : Issue(s) \/ Trade(s) \/ Book(s)

Spec == Init /\ [][Next]_absVars
=============================================================================

-------------------------- MODULE MCTradeExecution --------------------------
(* Instances of TradeExecution for TLC.  One tick is ten seconds, so the     *)
(* production values are RpcTimeout 1, DedupWindow 6, CbRecovery 3 and       *)
(* SignalMaxAge 3.                                                           *)
EXTENDS TradeExecution, TLC

\* Worker threads are interchangeable, and so are signals.
Symmetric == Permutations(Threads) \cup Permutations(Signals)
=============================================================================

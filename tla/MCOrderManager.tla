--------------------------- MODULE MCOrderManager ---------------------------
(* Instances of OrderManager for TLC: any client, any mix of requests.      *)
EXTENDS OrderManager, TLC

\* Worker threads are interchangeable.
ThreadSymmetry == Permutations(Threads)
=============================================================================

-------------------------- MODULE MCFeedConnector --------------------------
(* Instances of FeedConnector for TLC: three connections, so that a failed   *)
(* resubscription and the reconnect of the abandoned reader can overlap.     *)
EXTENDS FeedConnector
=============================================================================

---------------------------- MODULE MCNodeFeed ----------------------------
(* Instances of NodeFeed for TLC: the constants are numbers. *)
EXTENDS NodeFeed
=============================================================================

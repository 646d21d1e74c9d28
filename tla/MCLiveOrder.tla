---------------------------- MODULE MCLiveOrder ----------------------------
(***************************************************************************)
(* Instances of the live order protocol: a market, two-contract orders and *)
(* two polls, so an order can fill between any two reads of it, and two    *)
(* executions, so what the first one leaves behind meets the second.       *)
(***************************************************************************)
EXTENDS LiveOrder, TLC
=============================================================================

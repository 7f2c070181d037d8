------------------------------ MODULE MCClock ------------------------------
(* Three domains for an array of two: the periods divide a second, do not  *)
(* divide it, and exceed it, so that a tick carries zero, one or two       *)
(* seconds.                                                                *)
EXTENDS Clock, TLC

CONSTANTS fast, odd, slow

MCClk == {fast, odd, slow}
MCPeriod == (fast :> 2) @@ (odd :> 3) @@ (slow :> 11)
============================================================================

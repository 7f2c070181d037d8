---------------------------- MODULE MCSimtCache ----------------------------
(* Three lanes and two blocks: block 0 and block 1 have the banks of lanes *)
(* 0 and 1, and lane 2 depends on the shared slot.                         *)
EXTENDS SimtCache

AllOps == (0 .. Lanes - 1) \X {"read", "write"} \X Addr
============================================================================

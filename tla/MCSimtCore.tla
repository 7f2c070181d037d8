---------------------------- MODULE MCSimtCore ----------------------------
(* Three lanes, two blocks of two bytes.  All lanes read block 0, different *)
(* bytes of it, and two of them write it; lanes 1 and 2 use block 1 too.   *)
EXTENDS SimtCore

MCOps ==
  {<<0, "read", 0, 0>>, <<0, "write", 0, 0>>,
   <<1, "read", 0, 1>>, <<1, "write", 0, 1>>, <<1, "read", 1, 0>>,
   <<2, "read", 0, 0>>, <<2, "write", 1, 0>>}
============================================================================

---------------------------- MODULE MCBusSystem ----------------------------
(* Every order of mapping three components in a small address space, and   *)
(* runs of three processors with two of the tables: one as in              *)
(* tests/simple_uart, a memory, a uart and a processor, and one with the   *)
(* uart mapped all around the memory, which is not refused.  The regions   *)
(* of the other processors are outside of the addresses of the transfers.  *)
EXTENDS BusSystem

CONSTANTS mem, uart, core1, core2, core3

MCMaster == {core1, core2, core3}
MCMem == {mem}
MCUart == {uart}
MCSlot == <<mem, uart, core1>>

At(a, s) == [addr |-> a, size |-> s]

MCLayouts == {<<At(0, 2), At(2, 1), At(4, 1)>>,
              <<At(2, 1), At(1, 3), At(4, 1)>>}
============================================================================

------------------------------- MODULE Mesh1D -------------------------------
(***************************************************************************)
(* The node of src/src/mesh/node1d.c: clusters in a line, north being the  *)
(* next one.                                                               *)
(***************************************************************************)
EXTENDS Integers, Sequences, SequencesExt

CONSTANTS Clusters, Elems, Flows, Mem, MaxSend, MaxTime, NoPkt

VARIABLES in, out, time, rx, count

Node == 0 .. Clusters - 1

(* The direction ports follow the local ports in the node's arrays. *)
north == Elems + 0
south == Elems + 1
Dir == {north, south}

(* The wiring the test builds: the next cluster is north. *)
Neighbor(n, d) == IF d = north THEN n + 1 ELSE n - 1
Back(d) == IF d = north THEN south ELSE north

(* north_sel, south_sel and elem_sel on an address: exactly one accepts.   *)
Route(n, to) ==
  CASE to[1] > n -> north
    [] to[1] < n -> south
    [] to[1] = n -> to[2]

(* A direction is fed by the other one, a local port by both. *)
Inputs(p) ==
  CASE p = north -> <<south>>
    [] p = south -> <<north>>
    [] OTHER -> <<north, south>>

(* The loop of the receive callback writes the node's timestamp into the   *)
(* packet on its way past the local ports, so that a packet from another   *)
(* node has it too by the time its port is found.                          *)
RestampsTransit == TRUE

INSTANCE Mesh

ASSUME MeshAssumption == Clusters \in Nat /\ WellPlaced
============================================================================

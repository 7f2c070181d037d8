------------------------------- MODULE Mesh2D -------------------------------
(***************************************************************************)
(* The node of src/src/mesh/node2d.c in an XMax by YMax grid: y is         *)
(* travelled first, north being up, then x, and then the local port.       *)
(***************************************************************************)
EXTENDS Integers, Sequences, SequencesExt

CONSTANTS Columns, Rows, Elems, Flows, Mem, MaxSend, MaxTime, NoPkt

VARIABLES in, out, time, rx, count

Node == (0 .. Columns - 1) \X (0 .. Rows - 1)

(* The direction ports follow the local ports in the node's arrays. *)
north == Elems + 0
east  == Elems + 1
south == Elems + 2
west  == Elems + 3
Dir == north .. west

(* The wiring the tests build: y + 1 is north, x + 1 is east. *)
Neighbor(n, d) ==
  CASE d = north -> <<n[1], n[2] + 1>>
    [] d = east  -> <<n[1] + 1, n[2]>>
    [] d = south -> <<n[1], n[2] - 1>>
    [] d = west  -> <<n[1] - 1, n[2]>>

Back(d) ==
  CASE d = north -> south [] d = south -> north
    [] d = east  -> west  [] d = west  -> east

(* north_sel, south_sel, east_sel, west_sel and elem_sel on an address:    *)
(* exactly one of them accepts it.                                         *)
Route(n, to) ==
  LET x == to[1][1]
      y == to[1][2]
  IN  CASE y > n[2] -> north
        [] y < n[2] -> south
        [] y = n[2] /\ x > n[1] -> east
        [] y = n[2] /\ x < n[1] -> west
        [] y = n[2] /\ x = n[1] -> to[2]

(* A direction is fed by the other three, a local port by all four, listed *)
(* in the order of the ports.                                              *)
Inputs(p) ==
  CASE p = north -> <<east, south, west>>
    [] p = east  -> <<north, south, west>>
    [] p = south -> <<north, east, west>>
    [] p = west  -> <<north, east, south>>
    [] OTHER -> <<north, east, south, west>>

INSTANCE Mesh WITH RestampsTransit <- FALSE

ASSUME MeshAssumption == Columns \in Nat /\ Rows \in Nat /\ WellPlaced
============================================================================

------------------------------- MODULE Mesh3D -------------------------------
(***************************************************************************)
(* The node of src/src/mesh/node3d.c in a box: y is travelled first, north *)
(* being up the y axis, then x, then z, and then the local port.           *)
(***************************************************************************)
EXTENDS Integers, Sequences, SequencesExt

CONSTANTS Columns, Rows, Layers, Elems, Flows, Mem, MaxSend,
          MaxTime, NoPkt

VARIABLES in, out, time, rx, count

Node == (0 .. Columns - 1) \X (0 .. Rows - 1) \X (0 .. Layers - 1)

(* The direction ports follow the local ports in the node's arrays. *)
north == Elems + 0
east  == Elems + 1
south == Elems + 2
west  == Elems + 3
up    == Elems + 4
down  == Elems + 5
Dir == north .. down

(* The wiring the test builds. *)
Neighbor(n, d) ==
  CASE d = north -> [n EXCEPT ![2] = @ + 1]
    [] d = east  -> [n EXCEPT ![1] = @ + 1]
    [] d = south -> [n EXCEPT ![2] = @ - 1]
    [] d = west  -> [n EXCEPT ![1] = @ - 1]
    [] d = up    -> [n EXCEPT ![3] = @ + 1]
    [] d = down  -> [n EXCEPT ![3] = @ - 1]

Back(d) ==
  CASE d = north -> south [] d = south -> north
    [] d = east  -> west  [] d = west  -> east
    [] d = up    -> down  [] d = down  -> up

(* Faulty variant, for NoCyclicWait: every other node prefers to travel    *)
(* along x.                                                                *)
RouteEitherWay(n, to) ==
  LET x == to[1][1]
      y == to[1][2]
      z == to[1][3]
      xFirst == n[1] # n[2]
  IN  CASE y > n[2] /\ ~ (xFirst /\ x # n[1]) -> north
        [] y < n[2] /\ ~ (xFirst /\ x # n[1]) -> south
        [] x > n[1] /\ (xFirst \/ y = n[2]) -> east
        [] x < n[1] /\ (xFirst \/ y = n[2]) -> west
        [] y = n[2] /\ x = n[1] /\ z > n[3] -> up
        [] y = n[2] /\ x = n[1] /\ z < n[3] -> down
        [] to[1] = n -> to[2]

(* north_sel to down_sel and elem_sel on an address: exactly one accepts.  *)
Route(n, to) ==
  LET x == to[1][1]
      y == to[1][2]
      z == to[1][3]
  IN  CASE y > n[2] -> north
        [] y < n[2] -> south
        [] y = n[2] /\ x > n[1] -> east
        [] y = n[2] /\ x < n[1] -> west
        [] y = n[2] /\ x = n[1] /\ z > n[3] -> up
        [] y = n[2] /\ x = n[1] /\ z < n[3] -> down
        [] to[1] = n -> to[2]

(* Every other direction, in the order of the ports but for up and down,   *)
(* which list west before south: it decides between equal timestamps.      *)
Inputs(p) ==
  CASE p = north -> <<east, south, west, up, down>>
    [] p = east  -> <<north, south, west, up, down>>
    [] p = south -> <<north, east, west, up, down>>
    [] p = west  -> <<north, east, south, up, down>>
    [] p = up    -> <<north, east, west, south, down>>
    [] p = down  -> <<north, east, west, south, up>>
    [] OTHER -> <<north, east, south, west, up, down>>

INSTANCE Mesh WITH RestampsTransit <- FALSE

ASSUME MeshAssumption == Columns \in Nat /\ Rows \in Nat /\ Layers \in Nat /\ WellPlaced
============================================================================

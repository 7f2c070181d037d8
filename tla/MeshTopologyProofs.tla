------------------------- MODULE MeshTopologyProofs -------------------------
(***************************************************************************)
(* The nodes of one, two and three dimensions route as MeshProofs assumes: *)
(* along one path per flow, a hop nearer at every node, one dimension      *)
(* after the other.  What is proved there for every such mesh therefore    *)
(* holds of a line of any length, and of grids and boxes of any size.      *)
(***************************************************************************)
EXTENDS Mesh2D, TLAPS

CONSTANTS Clusters, Layers

Line == INSTANCE Mesh1D
Box == INSTANCE Mesh3D

(* How far apart two coordinates are, and whether b is from a to c. *)
Apart(a, b) == IF a < b THEN b - a ELSE a - b
Between(a, b, c) == (a <= b /\ b <= c) \/ (c <= b /\ b <= a)

(* A packet in the line goes straight to its cluster. *)
LineRank(n, t) == Apart(n, t[1])
LineOnPath(s, t, n) == Between(s[1], n, t[1])
LineInPort(s, t, n) ==
  CASE n = s[1] -> s[2]
    [] n # s[1] /\ s[1] < t[1] -> Line!south
    [] n # s[1] /\ s[1] >= t[1] -> Line!north

(* How many links may follow the one by which it enters n at p. *)
LineLinkRank(n, p) == IF p = Line!south THEN Clusters - n ELSE n

(* A packet in the grid goes along y in its first column, then along x in  *)
(* its last row.                                                           *)
GridRank(n, t) == Apart(n[1], t[1][1]) + Apart(n[2], t[1][2])
GridOnPath(s, t, n) ==
  \/ n[1] = s[1][1] /\ Between(s[1][2], n[2], t[1][2])
  \/ n[2] = t[1][2] /\ Between(s[1][1], n[1], t[1][1])
GridInPort(s, t, n) ==
  CASE n = s[1] -> s[2]
    [] n # s[1] /\ n[1] = s[1][1] ->
         IF s[1][2] < t[1][2] THEN south ELSE north
    [] n # s[1] /\ n[1] # s[1][1] ->
         IF s[1][1] < t[1][1] THEN west ELSE east

(* Links along x have any number of them left, links along y more. *)
GridLinkRank(n, p) ==
  CASE p = west -> Columns - n[1]
    [] p = east -> n[1]
    [] p = south -> Columns + 1 + Rows - n[2]
    [] p = north -> Columns + 1 + n[2]

(* A packet in the box goes along y, then along x, then along z. *)
BoxRank(n, t) ==
  Apart(n[1], t[1][1]) + Apart(n[2], t[1][2]) + Apart(n[3], t[1][3])
BoxOnPath(s, t, n) ==
  \/ /\ n[1] = s[1][1] /\ n[3] = s[1][3]
     /\ Between(s[1][2], n[2], t[1][2])
  \/ /\ n[2] = t[1][2] /\ n[3] = s[1][3]
     /\ Between(s[1][1], n[1], t[1][1])
  \/ /\ n[2] = t[1][2] /\ n[1] = t[1][1]
     /\ Between(s[1][3], n[3], t[1][3])
BoxInPort(s, t, n) ==
  CASE n = s[1] -> s[2]
    [] n # s[1] /\ n[3] # s[1][3] ->
         IF s[1][3] < t[1][3] THEN Box!down ELSE Box!up
    [] n # s[1] /\ n[3] = s[1][3] /\ n[1] # s[1][1] ->
         IF s[1][1] < t[1][1] THEN Box!west ELSE Box!east
    [] n # s[1] /\ n[3] = s[1][3] /\ n[1] = s[1][1] ->
         IF s[1][2] < t[1][2] THEN Box!south ELSE Box!north

(* Links along z come last, links along x before, links along y first. *)
BoxLinkRank(n, p) ==
  CASE p = Box!down -> Layers - n[3]
    [] p = Box!up -> n[3]
    [] p = Box!west -> Layers + 1 + Columns - n[1]
    [] p = Box!east -> Layers + 1 + n[1]
    [] p = Box!south -> Layers + Columns + 2 + Rows - n[2]
    [] p = Box!north -> Layers + Columns + 2 + n[2]

AnyLine == INSTANCE MeshProofs WITH
  Node <- Line!Node, Dir <- Line!Dir, Neighbor <- Line!Neighbor,
  Back <- Line!Back, Route <- Line!Route, Inputs <- Line!Inputs,
  RestampsTransit <- TRUE,
  Rank <- LineRank, OnPath <- LineOnPath, InPort <- LineInPort,
  LinkRank <- LineLinkRank

AnyGrid == INSTANCE MeshProofs WITH
  RestampsTransit <- FALSE,
  Rank <- GridRank, OnPath <- GridOnPath, InPort <- GridInPort,
  LinkRank <- GridLinkRank

AnyBox == INSTANCE MeshProofs WITH
  Node <- Box!Node, Dir <- Box!Dir, Neighbor <- Box!Neighbor,
  Back <- Box!Back, Route <- Box!Route, Inputs <- Box!Inputs,
  RestampsTransit <- FALSE,
  Rank <- BoxRank, OnPath <- BoxOnPath, InPort <- BoxInPort,
  LinkRank <- BoxLinkRank

----------------------------------------------------------------------------
(* The grid routes along one path per flow. *)
LEMMA GridIsWired ==
  AnyGrid!Wired
<1>1. WellPlaced /\ Elems \in Nat
  BY MeshAssumption DEF WellPlaced
<1>2. AnyGrid!WellPlaced
  BY <1>1 DEF WellPlaced, AnyGrid!WellPlaced, Elem, AnyGrid!Elem, Endpoint,
     AnyGrid!Endpoint, Packet, AnyGrid!Packet
<1>3. AnyGrid!Elem \cap Dir = {}
  BY <1>1 DEF AnyGrid!Elem, Dir, north, west
<1>4. \A d \in Dir : Back(d) \in Dir /\ Back(Back(d)) = d
  BY <1>1 DEF Dir, Back, north, east, south, west
<1>5. \A p : Inputs(p) \in Seq(Dir)
  <2>1. north \in Dir /\ east \in Dir /\ south \in Dir /\ west \in Dir
    BY <1>1 DEF Dir, north, east, south, west
  <2>2. \A a, b, c, d \in Dir :
          <<a, b, c>> \in Seq(Dir) /\ <<a, b, c, d>> \in Seq(Dir)
    OBVIOUS
  <2> QED
    BY <2>1, <2>2, Zenon DEF Inputs
<1> QED
  BY <1>2, <1>3, <1>4, <1>5 DEF AnyGrid!Wired

(* Every flow of the grid follows its path. *)
LEMMA GridIsRouted ==
  ASSUME NEW s \in Node \X Elem, NEW t \in Node \X Elem
  PROVE  AnyGrid!Routed(s, t)
<1> USE DEF Apart, Between, Node
<1>1. Columns \in Nat /\ Rows \in Nat /\ Elems \in Nat
  BY MeshAssumption DEF WellPlaced
<1>2. PICK sx \in 0 .. Columns - 1, sy \in 0 .. Rows - 1, sp \in Elem :
        s = <<<<sx, sy>>, sp>>
  OBVIOUS
<1>3. PICK tx \in 0 .. Columns - 1, ty \in 0 .. Rows - 1, tp \in Elem :
        t = <<<<tx, ty>>, tp>>
  OBVIOUS
<1>4. /\ \A x, y : GridRank(<<x, y>>, t) = Apart(x, tx) + Apart(y, ty)
      /\ \A x, y : GridOnPath(s, t, <<x, y>>) <=>
           \/ x = sx /\ Between(sy, y, ty)
           \/ y = ty /\ Between(sx, x, tx)
  BY <1>2, <1>3 DEF GridRank, GridOnPath
<1>5. GridOnPath(s, t, s[1]) /\ GridInPort(s, t, s[1]) = s[2]
  BY <1>1, <1>2, <1>4 DEF GridInPort
<1>6. GridRank(t[1], t) = 0
  BY <1>3, <1>4
<1>7. ASSUME NEW n \in Node, GridOnPath(s, t, n)
      PROVE  /\ GridRank(n, t) \in 0 .. GridRank(s[1], t)
             /\ GridInPort(s, t, n) \in AnyGrid!Port
             /\ \/ /\ Route(n, t) \in AnyGrid!Elem
                   /\ t = <<n, Route(n, t)>>
                \/ /\ Route(n, t) \in Dir
                   /\ Neighbor(n, Route(n, t)) \in Node
                   /\ GridOnPath(s, t, Neighbor(n, Route(n, t)))
                   /\ GridRank(Neighbor(n, Route(n, t)), t) = GridRank(n, t) - 1
                   /\ GridInPort(s, t, Neighbor(n, Route(n, t)))
                        = Back(Route(n, t))
  <2>1. PICK x \in 0 .. Columns - 1, y \in 0 .. Rows - 1 : n = <<x, y>>
    BY <1>7
  <2>2. GridRank(n, t) \in 0 .. GridRank(s[1], t)
    BY <1>1, <1>2, <1>4, <1>7, <2>1
  <2>3. GridInPort(s, t, n) \in AnyGrid!Port
    BY <1>1, <1>2, <1>3, <1>7, <2>1
       DEF GridInPort, AnyGrid!Port, AnyGrid!Elem, Elem, Dir,
           north, east, south, west
  <2>4. CASE y < ty
    <3>1. Route(n, t) = north
      BY <1>1, <1>3, <2>1, <2>4 DEF Route
    <3>2. Neighbor(n, north) = <<x, y + 1>> /\ Back(north) = south
      BY <1>1, <2>1 DEF Neighbor, Back, north, south, east, west
    <3>3. x = sx /\ <<x, y + 1>> # s[1]
      BY <1>1, <1>2, <1>4, <1>7, <2>1, <2>4
    <3>4. GridInPort(s, t, <<x, y + 1>>) = south
      BY <1>1, <1>2, <1>3, <1>4, <1>7, <2>1, <2>4, <3>3 DEF GridInPort
    <3>5. north \in Dir
      BY <1>1 DEF Dir, north, west
    <3> QED
      BY <1>1, <1>4, <1>7, <2>1, <2>2, <2>3, <2>4, <3>1, <3>2, <3>3, <3>4, <3>5
  <2>5. CASE y > ty
    <3>1. Route(n, t) = south
      BY <1>1, <1>3, <2>1, <2>5 DEF Route
    <3>2. Neighbor(n, south) = <<x, y - 1>> /\ Back(south) = north
      BY <1>1, <2>1 DEF Neighbor, Back, north, south, east, west
    <3>3. x = sx /\ <<x, y - 1>> # s[1]
      BY <1>1, <1>2, <1>4, <1>7, <2>1, <2>5
    <3>4. GridInPort(s, t, <<x, y - 1>>) = north
      BY <1>1, <1>2, <1>3, <1>4, <1>7, <2>1, <2>5, <3>3 DEF GridInPort
    <3>5. south \in Dir
      BY <1>1 DEF Dir, north, south, west
    <3> QED
      BY <1>1, <1>4, <1>7, <2>1, <2>2, <2>3, <2>5, <3>1, <3>2, <3>3, <3>4, <3>5
  <2>6. CASE y = ty /\ x < tx
    <3>1. Route(n, t) = east
      BY <1>1, <1>3, <2>1, <2>6 DEF Route
    <3>2. Neighbor(n, east) = <<x + 1, y>> /\ Back(east) = west
      BY <1>1, <2>1 DEF Neighbor, Back, north, south, east, west
    <3>3. x + 1 # sx /\ sx < tx
      BY <1>1, <1>2, <1>4, <1>7, <2>1, <2>6
    <3>4. GridInPort(s, t, <<x + 1, y>>) = west
      BY <1>1, <1>2, <1>3, <1>4, <1>7, <2>1, <2>6, <3>3 DEF GridInPort
    <3>5. east \in Dir
      BY <1>1 DEF Dir, north, east, west
    <3> QED
      BY <1>1, <1>4, <1>7, <2>1, <2>2, <2>3, <2>6, <3>1, <3>2, <3>3, <3>4, <3>5
  <2>7. CASE y = ty /\ x > tx
    <3>1. Route(n, t) = west
      BY <1>1, <1>3, <2>1, <2>7 DEF Route
    <3>2. Neighbor(n, west) = <<x - 1, y>> /\ Back(west) = east
      BY <1>1, <2>1 DEF Neighbor, Back, north, south, east, west
    <3>3. x - 1 # sx /\ ~ (sx < tx)
      BY <1>1, <1>2, <1>4, <1>7, <2>1, <2>7
    <3>4. GridInPort(s, t, <<x - 1, y>>) = east
      BY <1>1, <1>2, <1>3, <1>4, <1>7, <2>1, <2>7, <3>3 DEF GridInPort
    <3>5. west \in Dir
      BY <1>1 DEF Dir, north, east, west
    <3> QED
      BY <1>1, <1>4, <1>7, <2>1, <2>2, <2>3, <2>7, <3>1, <3>2, <3>3, <3>4, <3>5
  <2>8. CASE y = ty /\ x = tx
    <3>1. Route(n, t) = tp
      BY <1>1, <1>3, <2>1, <2>8 DEF Route
    <3> QED
      BY <1>3, <2>1, <2>2, <2>3, <2>8, <3>1 DEF AnyGrid!Elem, Elem
  <2> QED
    BY <1>1, <2>1, <2>4, <2>5, <2>6, <2>7, <2>8
<1>8. ASSUME NEW m \in Node, NEW n \in Node,
             GridOnPath(s, t, m), GridOnPath(s, t, n),
             GridRank(m, t) = GridRank(n, t)
      PROVE  m = n
  <2>1. PICK x \in 0 .. Columns - 1, y \in 0 .. Rows - 1 : n = <<x, y>>
    BY <1>8
  <2>2. PICK u \in 0 .. Columns - 1, v \in 0 .. Rows - 1 : m = <<u, v>>
    BY <1>8
  <2>3. u = x /\ v = y
    BY <1>1, <1>4, <1>8, <2>1, <2>2
  <2> QED
    BY <2>1, <2>2, <2>3
<1> QED
  BY <1>5, <1>6, <1>7, <1>8 DEF AnyGrid!Routed

(* So the theorems of MeshProofs hold of it. *)
LEMMA GridTopology ==
  AnyGrid!Topology
<1>1. ASSUME NEW f \in Flows PROVE AnyGrid!Routed(f[1], f[2])
  <2>1. f[1] \in Node \X Elem /\ f[2] \in Node \X Elem
    BY MeshAssumption DEF WellPlaced
  <2> QED
    BY <2>1, GridIsRouted
<1> QED
  BY <1>1, GridIsWired DEF AnyGrid!Topology

(* An output lists every other direction. *)
LEMMA GridLists ==
  ASSUME NEW p \in Dir, NEW d, d # p
  PROVE  \E i \in DOMAIN Inputs(d) : Inputs(d)[i] = p
<1>1. Elems \in Nat
  BY MeshAssumption DEF WellPlaced
<1>2. p \in {north, east, south, west}
  BY <1>1 DEF Dir, north, east, south, west
<1>3. north # east /\ north # south /\ north # west /\ east # south
      /\ east # west /\ south # west
  BY <1>1 DEF north, east, south, west
<1>4. \/ d = north /\ Inputs(d) = <<east, south, west>>
      \/ d = east /\ Inputs(d) = <<north, south, west>>
      \/ d = south /\ Inputs(d) = <<north, east, west>>
      \/ d = west /\ Inputs(d) = <<north, east, south>>
      \/ Inputs(d) = <<north, east, south, west>>
  BY <1>3 DEF Inputs
<1>5. ASSUME NEW a, NEW b, NEW c, Inputs(d) = <<a, b, c>>, p \in {a, b, c}
      PROVE  \E i \in DOMAIN Inputs(d) : Inputs(d)[i] = p
  <2>1. /\ DOMAIN Inputs(d) = 1 .. 3 /\ Inputs(d)[1] = a
        /\ Inputs(d)[2] = b /\ Inputs(d)[3] = c
    BY <1>5
  <2> QED
    BY <1>5, <2>1
<1>6. CASE Inputs(d) = <<north, east, south, west>>
  <2>1. /\ DOMAIN Inputs(d) = 1 .. 4
        /\ Inputs(d)[1] = north /\ Inputs(d)[2] = east
        /\ Inputs(d)[3] = south /\ Inputs(d)[4] = west
    BY <1>6
  <2> QED
    BY <1>2, <2>1
<1> QED
  BY <1>2, <1>4, <1>5, <1>6

(* Its packets travel y before x. *)
LEMMA GridTurns ==
  ASSUME NEW s \in Node \X Elem, NEW t \in Node \X Elem
  PROVE  AnyGrid!Turns(s, t)
<1> USE DEF Between
<1>1. Columns \in Nat /\ Rows \in Nat /\ Elems \in Nat
  BY MeshAssumption DEF WellPlaced
<1>2. PICK sx \in 0 .. Columns - 1, sy \in 0 .. Rows - 1, sp \in Elem :
        s = <<<<sx, sy>>, sp>>
  BY DEF Node
<1>3. PICK tx \in 0 .. Columns - 1, ty \in 0 .. Rows - 1, tp \in Elem :
        t = <<<<tx, ty>>, tp>>
  BY DEF Node
<1>4. \A x, y :
        /\ GridLinkRank(<<x, y>>, west) = Columns - x
        /\ GridLinkRank(<<x, y>>, east) = x
        /\ GridLinkRank(<<x, y>>, south) = Columns + 1 + Rows - y
        /\ GridLinkRank(<<x, y>>, north) = Columns + 1 + y
  BY <1>1 DEF GridLinkRank, north, east, south, west
<1>5. sp \notin Dir /\ tp \notin Dir
  BY <1>1 DEF Elem, Dir, north, west
<1> SUFFICES ASSUME NEW n \in Node, GridOnPath(s, t, n), GridInPort(s, t, n) \in Dir
             PROVE  LET p == GridInPort(s, t, n)
                        d == Route(n, t)
                    IN  /\ \E i \in DOMAIN Inputs(d) : Inputs(d)[i] = p
                        /\ GridLinkRank(n, p) \in Nat
                        /\ d \in Dir =>
                             GridLinkRank(Neighbor(n, d), Back(d))
                               \in 0 .. GridLinkRank(n, p) - 1
  BY Zenon DEF AnyGrid!Turns
<1>6. PICK x \in 0 .. Columns - 1, y \in 0 .. Rows - 1 : n = <<x, y>>
  BY DEF Node
<1>7. PICK p \in Dir : p = GridInPort(s, t, n)
  OBVIOUS
<1>8. ~ (x = sx /\ y = sy)
  BY <1>2, <1>5, <1>6, <1>7 DEF GridInPort
<1>9. \/ p = south /\ sy < y /\ y <= ty /\ x = sx
      \/ p = north /\ y < sy /\ ty <= y /\ x = sx
      \/ p = west /\ y = ty /\ sx < x /\ x <= tx
      \/ p = east /\ y = ty /\ x < sx /\ tx <= x
  <2>1. \/ x = sx /\ Between(sy, y, ty)
        \/ y = ty /\ Between(sx, x, tx)
    BY <1>2, <1>3, <1>6 DEF GridOnPath
  <2>2. x = sx => p = IF sy < ty THEN south ELSE north
    BY <1>2, <1>3, <1>6, <1>7, <1>8 DEF GridInPort
  <2>3. x # sx => p = IF sx < tx THEN west ELSE east
    BY <1>2, <1>3, <1>6, <1>7, <1>8 DEF GridInPort
  <2> QED
    BY <1>8, <2>1, <2>2, <2>3
<1>10. PICK d : d = Route(n, t)
  OBVIOUS
<1>11. \/ d = north /\ y < ty
       \/ d = south /\ y > ty
       \/ d = east /\ y = ty /\ x < tx
       \/ d = west /\ y = ty /\ x > tx
       \/ d = tp /\ y = ty /\ x = tx
  BY <1>3, <1>6, <1>10 DEF Route
<1>12. /\ Neighbor(n, north) = <<x, y + 1>> /\ Back(north) = south
       /\ Neighbor(n, south) = <<x, y - 1>> /\ Back(south) = north
       /\ Neighbor(n, east) = <<x + 1, y>> /\ Back(east) = west
       /\ Neighbor(n, west) = <<x - 1, y>> /\ Back(west) = east
       /\ north # south /\ east # west /\ north # east /\ north # west
       /\ south # east /\ south # west
  BY <1>1, <1>6 DEF Neighbor, Back, north, south, east, west
<1>13. d # p
  BY <1>5, <1>9, <1>11, <1>12
<1>14. \E i \in DOMAIN Inputs(d) : Inputs(d)[i] = p
  BY <1>13, GridLists
<1>15. GridLinkRank(n, p) \in Nat
  BY <1>1, <1>4, <1>6, <1>9
<1>16. ASSUME d \in Dir
       PROVE  GridLinkRank(Neighbor(n, d), Back(d)) \in 0 .. GridLinkRank(n, p) - 1
  <2>1. d # tp
    BY <1>5, <1>16
  <2>2. CASE d = north /\ y < ty
    BY <1>1, <1>4, <1>6, <1>9, <1>12, <2>2
  <2>3. CASE d = south /\ y > ty
    BY <1>1, <1>4, <1>6, <1>9, <1>12, <2>3
  <2>4. CASE d = east /\ y = ty /\ x < tx
    BY <1>1, <1>4, <1>6, <1>9, <1>12, <2>4
  <2>5. CASE d = west /\ y = ty /\ x > tx
    BY <1>1, <1>4, <1>6, <1>9, <1>12, <2>5
  <2> QED
    BY <1>11, <2>1, <2>2, <2>3, <2>4, <2>5
<1> QED
  BY <1>7, <1>10, <1>14, <1>15, <1>16

(* So what MeshProofs says of mutual waiting holds of it, too. *)
LEMMA GridOrder ==
  AnyGrid!DimensionOrder
<1>1. ASSUME NEW f \in Flows PROVE AnyGrid!Turns(f[1], f[2])
  <2>1. f[1] \in Node \X Elem /\ f[2] \in Node \X Elem
    BY MeshAssumption DEF WellPlaced
  <2> QED
    BY <2>1, GridTurns
<1> QED
  BY <1>1, GridTopology DEF AnyGrid!DimensionOrder

(* The grid takes the steps of the mesh that MeshProofs is about. *)
LEMMA GridIsAMesh ==
  /\ Init => AnyGrid!Init
  /\ [Next]_vars => [AnyGrid!Next]_AnyGrid!vars
<1> USE DEF Elem, AnyGrid!Elem, Port, AnyGrid!Port, busy, AnyGrid!busy
<1>1. /\ Endpoint = AnyGrid!Endpoint /\ Client = AnyGrid!Client
      /\ vars = AnyGrid!vars
  BY DEF Endpoint, AnyGrid!Endpoint, Client, AnyGrid!Client, vars,
         AnyGrid!vars
<1>2. Init => AnyGrid!Init
  BY <1>1 DEF Init, AnyGrid!Init
<1>3. \A m, p, x : stamped(m, p, x) = AnyGrid!stamped(m, p, x)
  BY DEF stamped, AnyGrid!stamped
<1>4. \A n \in Node : node_clock(n) => AnyGrid!node_clock(n)
  <2> SUFFICES ASSUME NEW n \in Node, node_clock(n)
               PROVE  AnyGrid!node_clock(n)
    OBVIOUS
  <2>1. sent(n) = AnyGrid!sent(n)
    BY DEF sent, AnyGrid!sent, accepts, AnyGrid!accepts
  <2>2. oldest_local(n) = AnyGrid!oldest_local(n)
    BY DEF oldest_local, AnyGrid!oldest_local, oldest, AnyGrid!oldest
  <2>3. \A e, p : left(n, e, p) = AnyGrid!left(n, e, p)
    BY DEF left, AnyGrid!left
  <2>4. \A e, l : source(n, e, l) = AnyGrid!source(n, e, l)
    BY DEF source, AnyGrid!source, left, AnyGrid!left,
           propagate, AnyGrid!propagate, oldest, AnyGrid!oldest
  <2>5. \A e, m, p : filled(n, e, m, p) = AnyGrid!filled(n, e, m, p)
    BY DEF filled, AnyGrid!filled
  <2>6. \A e, f : clocked(n, e, f) => AnyGrid!clocked(n, e, f)
    BY <1>1, <1>3 DEF clocked, AnyGrid!clocked, left, AnyGrid!left,
                      filled, AnyGrid!filled
  <2> QED
    BY <2>1, <2>2, <2>4, <2>6 DEF node_clock, AnyGrid!node_clock
<1>5. \A s, t : Inject(s, t) => AnyGrid!Inject(s, t)
  BY <1>3 DEF Inject, AnyGrid!Inject
<1>6. \A e : Consume(e) => AnyGrid!Consume(e)
  BY DEF Consume, AnyGrid!Consume
<1>7. \A m : simple_mem_clock(m) => AnyGrid!simple_mem_clock(m)
  BY <1>3 DEF simple_mem_clock, AnyGrid!simple_mem_clock,
              mem_sends, AnyGrid!mem_sends
<1>8. Next => AnyGrid!Next
  BY <1>1, <1>4, <1>5, <1>6, <1>7 DEF Next, AnyGrid!Next
<1> QED
  BY <1>1, <1>2, <1>8 DEF vars, AnyGrid!vars

(* A run of the grid is a run of that mesh. *)
LEMMA GridRuns ==
  Spec => AnyGrid!Init /\ [][AnyGrid!Next]_AnyGrid!vars
BY GridIsAMesh, PTL DEF Spec

(* A grid of nodes delivers every packet once, to the endpoint it is for,  *)
(* and in the order of its flow.                                           *)
THEOREM GridImplementsNetwork ==
  Spec => ImplementsNetwork
<1>1. Spec => AnyGrid!ImplementsNetwork
  BY GridRuns, GridTopology, AnyGrid!MeshImplements, PTL
<1>2. AnyGrid!ImplementsNetwork <=> ImplementsNetwork
  BY DEF ImplementsNetwork, AnyGrid!ImplementsNetwork, Promised!Spec,
         AnyGrid!Promised!Spec, Promised!Init, AnyGrid!Promised!Init,
         Promised!Next, AnyGrid!Promised!Next, Promised!Send,
         AnyGrid!Promised!Send, Promised!Deliver, AnyGrid!Promised!Deliver,
         Promised!deliverable, AnyGrid!Promised!deliverable,
         Promised!Consume, AnyGrid!Promised!Consume, Promised!Reply,
         AnyGrid!Promised!Reply, Promised!Endpoint,
         AnyGrid!Promised!Endpoint, InFlight, AnyGrid!InFlight, Shown,
         AnyGrid!Shown, Endpoint, AnyGrid!Endpoint, Port, AnyGrid!Port, Elem,
         AnyGrid!Elem
<1> QED
  BY <1>1, <1>2, PTL

(* A packet keeps the timestamp it entered the grid with. *)
THEOREM GridKeepsTimestamp ==
  Spec => KeepsTimestamp
<1>1. Spec => AnyGrid!KeepsTimestamp
  BY GridRuns, GridTopology, AnyGrid!MeshKeepsTimestamp, PTL
<1>2. AnyGrid!KeepsTimestamp <=> KeepsTimestamp
  BY DEF KeepsTimestamp, AnyGrid!KeepsTimestamp, InFlight, AnyGrid!InFlight,
         Shown, AnyGrid!Shown, Port, AnyGrid!Port, Elem, AnyGrid!Elem, vars,
         AnyGrid!vars
<1> QED
  BY <1>1, <1>2, PTL

(* A memory of the grid that waits for its own request waits for ever. *)
THEOREM GridWedges ==
  Spec => WedgedForEver
<1>1. Spec => AnyGrid!WedgedForEver
  BY GridRuns, GridTopology, AnyGrid!MeshWedges, PTL
<1>2. AnyGrid!WedgedForEver <=> WedgedForEver
  BY DEF WedgedForEver, AnyGrid!WedgedForEver, Wedged, AnyGrid!Wedged,
         Before, AnyGrid!Before, busy, AnyGrid!busy, Elem, AnyGrid!Elem,
         vars, AnyGrid!vars
<1> QED
  BY <1>1, <1>2, PTL

(* Packets in a grid never wait for each other's links in a circle. *)
THEOREM GridWaits ==
  Spec => []NoCyclicWait
<1>1. Spec => []AnyGrid!NoCyclicWait
  BY GridRuns, GridOrder, AnyGrid!MeshWaits, PTL
<1>2. AnyGrid!NoCyclicWait <=> NoCyclicWait
  BY DEF NoCyclicWait, AnyGrid!NoCyclicWait, Waits, AnyGrid!Waits, Wanted,
         AnyGrid!Wanted, OnLink, AnyGrid!OnLink, After, AnyGrid!After, Link,
         AnyGrid!Link
<1> QED
  BY <1>1, <1>2, PTL

(* While packets are under way in a grid, an endpoint is busy with one or  *)
(* the clock of a node moves one.                                          *)
THEOREM GridNeverStuck ==
  Spec => []NeverStuck
<1>1. Spec => []AnyGrid!NeverStuck
  BY GridRuns, GridOrder, AnyGrid!MeshNeverStuck, PTL
<1> USE DEF Elem, AnyGrid!Elem, Port, AnyGrid!Port, busy, AnyGrid!busy
<1>2. ASSUME NEW n PROVE AnyGrid!CanMove(n) <=> CanMove(n)
  <2>1. sent(n) = AnyGrid!sent(n)
    BY DEF sent, AnyGrid!sent, accepts, AnyGrid!accepts
  <2>2. oldest_local(n) = AnyGrid!oldest_local(n)
    BY DEF oldest_local, AnyGrid!oldest_local, oldest, AnyGrid!oldest
  <2>3. \A e, l : source(n, e, l) = AnyGrid!source(n, e, l)
    BY DEF source, AnyGrid!source, left, AnyGrid!left,
           propagate, AnyGrid!propagate, oldest, AnyGrid!oldest
  <2> QED
    BY <2>1, <2>2, <2>3 DEF CanMove, AnyGrid!CanMove
<1>3. AnyGrid!NeverStuck <=> NeverStuck
  BY <1>2 DEF NeverStuck, AnyGrid!NeverStuck, InFlight, AnyGrid!InFlight,
              Endpoint, AnyGrid!Endpoint
<1> QED
  BY <1>1, <1>3, PTL

----------------------------------------------------------------------------
(* The line routes along one path per flow. *)
LEMMA LineIsWired ==
  ASSUME Line!WellPlaced
  PROVE  AnyLine!Wired
<1>1. Elems \in Nat
  BY DEF Line!WellPlaced
<1>2. AnyLine!WellPlaced
  BY DEF Line!WellPlaced, AnyLine!WellPlaced, Line!Elem, AnyLine!Elem,
     Line!Endpoint, AnyLine!Endpoint, Line!Packet, AnyLine!Packet
<1>3. AnyLine!Elem \cap Line!Dir = {}
  BY <1>1 DEF AnyLine!Elem, Line!Dir, Line!north, Line!south
<1>4. \A d \in Line!Dir :
        Line!Back(d) \in Line!Dir /\ Line!Back(Line!Back(d)) = d
  BY <1>1 DEF Line!Dir, Line!Back, Line!north, Line!south
<1>5. \A p : Line!Inputs(p) \in Seq(Line!Dir)
  <2>1. Line!north \in Line!Dir /\ Line!south \in Line!Dir
    BY DEF Line!Dir
  <2>2. \A a, b \in Line!Dir :
          <<a>> \in Seq(Line!Dir) /\ <<a, b>> \in Seq(Line!Dir)
    OBVIOUS
  <2> QED
    BY <2>1, <2>2, Zenon DEF Line!Inputs
<1> QED
  BY <1>2, <1>3, <1>4, <1>5 DEF AnyLine!Wired

(* Every flow of the line follows its path. *)
LEMMA LineIsRouted ==
  ASSUME Clusters \in Nat, Line!WellPlaced,
         NEW s \in Line!Node \X Line!Elem, NEW t \in Line!Node \X Line!Elem
  PROVE  AnyLine!Routed(s, t)
<1> USE DEF Apart, Between, Line!Node
<1>1. Elems \in Nat
  BY DEF Line!WellPlaced
<1>2. PICK sx \in 0 .. Clusters - 1, sp \in Line!Elem : s = <<sx, sp>>
  OBVIOUS
<1>3. PICK tx \in 0 .. Clusters - 1, tp \in Line!Elem : t = <<tx, tp>>
  OBVIOUS
<1>4. /\ \A x : LineRank(x, t) = Apart(x, tx)
      /\ \A x : LineOnPath(s, t, x) <=> Between(sx, x, tx)
  BY <1>2, <1>3 DEF LineRank, LineOnPath
<1>5. LineOnPath(s, t, s[1]) /\ LineInPort(s, t, s[1]) = s[2]
  BY <1>2, <1>4 DEF LineInPort
<1>6. LineRank(t[1], t) = 0
  BY <1>3, <1>4
<1>7. ASSUME NEW n \in Line!Node, LineOnPath(s, t, n)
      PROVE  LET d == Line!Route(n, t)
                 m == Line!Neighbor(n, d)
             IN  /\ LineRank(n, t) \in 0 .. LineRank(s[1], t)
                 /\ LineInPort(s, t, n) \in AnyLine!Port
                 /\ \/ d \in AnyLine!Elem /\ t = <<n, d>>
                    \/ /\ d \in Line!Dir /\ m \in Line!Node
                       /\ LineOnPath(s, t, m)
                       /\ LineRank(m, t) = LineRank(n, t) - 1
                       /\ LineInPort(s, t, m) = Line!Back(d)
  <2>1. LineRank(n, t) \in 0 .. LineRank(s[1], t)
    BY <1>2, <1>4, <1>7
  <2>2. LineInPort(s, t, n) \in AnyLine!Port
    BY <1>1, <1>2, <1>3, <1>7
       DEF LineInPort, AnyLine!Port, AnyLine!Elem, Line!Elem, Line!Dir
  <2>3. CASE n < tx
    <3>1. Line!Route(n, t) = Line!north
      BY <1>3, <1>7, <2>3 DEF Line!Route
    <3>2. /\ Line!Neighbor(n, Line!north) = n + 1
          /\ Line!Back(Line!north) = Line!south /\ Line!north \in Line!Dir
      BY DEF Line!Neighbor, Line!Back, Line!Dir
    <3>3. n + 1 # sx /\ sx < tx
      BY <1>2, <1>4, <1>7, <2>3
    <3>4. LineInPort(s, t, n + 1) = Line!south
      BY <1>2, <1>3, <3>3 DEF LineInPort
    <3> QED
      BY <1>4, <1>7, <2>1, <2>2, <2>3, <3>1, <3>2, <3>4
  <2>4. CASE n > tx
    <3>1. Line!Route(n, t) = Line!south
      BY <1>3, <1>7, <2>4 DEF Line!Route
    <3>2. /\ Line!Neighbor(n, Line!south) = n - 1
          /\ Line!Back(Line!south) = Line!north /\ Line!south \in Line!Dir
      BY <1>1 DEF Line!Neighbor, Line!Back, Line!Dir, Line!north, Line!south
    <3>3. n - 1 # sx /\ sx >= tx
      BY <1>2, <1>4, <1>7, <2>4
    <3>4. LineInPort(s, t, n - 1) = Line!north
      BY <1>2, <1>3, <3>3 DEF LineInPort
    <3> QED
      BY <1>4, <1>7, <2>1, <2>2, <2>4, <3>1, <3>2, <3>4
  <2>5. CASE n = tx
    <3>1. Line!Route(n, t) = tp
      BY <1>3, <1>7, <2>5 DEF Line!Route
    <3> QED
      BY <1>3, <2>1, <2>2, <2>5, <3>1 DEF AnyLine!Elem, Line!Elem
  <2> QED
    BY <1>7, <2>3, <2>4, <2>5
<1>8. ASSUME NEW m \in Line!Node, NEW n \in Line!Node,
             LineOnPath(s, t, m), LineOnPath(s, t, n),
             LineRank(m, t) = LineRank(n, t)
      PROVE  m = n
  BY <1>2, <1>4, <1>8
<1> QED
  BY <1>5, <1>6, <1>7, <1>8 DEF AnyLine!Routed

(* So the theorems of MeshProofs hold of it. *)
LEMMA LineTopology ==
  ASSUME Clusters \in Nat, Line!WellPlaced
  PROVE  AnyLine!Topology
<1>1. ASSUME NEW f \in Flows PROVE AnyLine!Routed(f[1], f[2])
  <2>1. f[1] \in Line!Node \X Line!Elem /\ f[2] \in Line!Node \X Line!Elem
    BY DEF Line!WellPlaced
  <2> QED
    BY <2>1, LineIsRouted
<1> QED
  BY <1>1, LineIsWired DEF AnyLine!Topology

(* A packet in the line never turns round. *)
LEMMA LineTurns ==
  ASSUME Clusters \in Nat, Line!WellPlaced,
         NEW s \in Line!Node \X Line!Elem, NEW t \in Line!Node \X Line!Elem
  PROVE  AnyLine!Turns(s, t)
<1> USE DEF Between
<1>1. Elems \in Nat /\ Line!north # Line!south
  BY DEF Line!WellPlaced, Line!north, Line!south
<1>2. PICK sx \in 0 .. Clusters - 1, sp \in Line!Elem : s = <<sx, sp>>
  BY DEF Line!Node
<1>3. PICK tx \in 0 .. Clusters - 1, tp \in Line!Elem : t = <<tx, tp>>
  BY DEF Line!Node
<1>4. sp \notin Line!Dir /\ tp \notin Line!Dir
  BY <1>1 DEF Line!Elem, Line!Dir, Line!north, Line!south
<1> SUFFICES ASSUME NEW n \in Line!Node, LineOnPath(s, t, n),
                    LineInPort(s, t, n) \in Line!Dir
             PROVE  LET p == LineInPort(s, t, n)
                        d == Line!Route(n, t)
                    IN  /\ \E i \in DOMAIN Line!Inputs(d) : Line!Inputs(d)[i] = p
                        /\ LineLinkRank(n, p) \in Nat
                        /\ d \in Line!Dir =>
                             LineLinkRank(Line!Neighbor(n, d), Line!Back(d))
                               \in 0 .. LineLinkRank(n, p) - 1
  BY Zenon DEF AnyLine!Turns
<1>5. PICK p \in Line!Dir : p = LineInPort(s, t, n)
  OBVIOUS
<1>A. PICK d : d = Line!Route(n, t)
  OBVIOUS
<1>6. n \in 0 .. Clusters - 1
  BY DEF Line!Node
<1>7. \/ p = Line!south /\ sx < n /\ n <= tx
      \/ p = Line!north /\ n < sx /\ tx <= n
  <2>1. n # sx
    BY <1>2, <1>4, <1>5 DEF LineInPort
  <2>2. p = IF sx < tx THEN Line!south ELSE Line!north
    BY <1>2, <1>3, <1>5, <2>1 DEF LineInPort
  <2> QED
    BY <1>2, <1>3, <1>6, <2>1, <2>2 DEF LineOnPath
<1>8. \/ d = Line!north /\ n < tx
      \/ d = Line!south /\ n > tx
      \/ d = tp /\ n = tx
  BY <1>3, <1>A, <1>6 DEF Line!Route
<1>9. LineLinkRank(n, p) \in Nat
  BY <1>6 DEF LineLinkRank
<1>10. \E i \in DOMAIN Line!Inputs(d) : Line!Inputs(d)[i] = p
  <2>1. \/ Line!Inputs(d) = <<p>>
        \/ Line!Inputs(d) = <<Line!north, Line!south>>
    <3>1. /\ d = Line!north => p = Line!south
          /\ d = Line!south => p = Line!north
      BY <1>1, <1>4, <1>6, <1>7, <1>8 DEF Line!Dir
    <3>2. /\ d = Line!north => Line!Inputs(d) = <<Line!south>>
          /\ d = Line!south => Line!Inputs(d) = <<Line!north>>
          /\ d \notin {Line!north, Line!south} =>
               Line!Inputs(d) = <<Line!north, Line!south>>
      BY <1>1 DEF Line!Inputs
    <3> QED
      BY <3>1, <3>2
  <2>2. CASE Line!Inputs(d) = <<p>>
    <3>1. DOMAIN Line!Inputs(d) = 1 .. 1 /\ Line!Inputs(d)[1] = p
      BY <2>2
    <3> QED
      BY <3>1
  <2>3. CASE Line!Inputs(d) = <<Line!north, Line!south>>
    <3>1. /\ DOMAIN Line!Inputs(d) = 1 .. 2 /\ Line!Inputs(d)[1] = Line!north
          /\ Line!Inputs(d)[2] = Line!south
      BY <2>3
    <3> QED
      BY <1>7, <3>1
  <2> QED
    BY <2>1, <2>2, <2>3
<1>11. ASSUME d \in Line!Dir
       PROVE  LineLinkRank(Line!Neighbor(n, d), Line!Back(d))
                \in 0 .. LineLinkRank(n, p) - 1
  <2>1. d # tp
    BY <1>4, <1>11
  <2>2. \/ d = Line!north /\ p = Line!south /\ n < tx
        \/ d = Line!south /\ p = Line!north /\ n > tx
    BY <1>6, <1>7, <1>8, <2>1
  <2> QED
    BY <1>1, <1>6, <2>2 DEF LineLinkRank, Line!Neighbor, Line!Back
<1> QED
  BY <1>5, <1>A, <1>9, <1>10, <1>11

(* So what MeshProofs says of mutual waiting holds of it, too. *)
LEMMA LineOrder ==
  ASSUME Clusters \in Nat, Line!WellPlaced
  PROVE  AnyLine!DimensionOrder
<1>1. ASSUME NEW f \in Flows PROVE AnyLine!Turns(f[1], f[2])
  <2>1. f[1] \in Line!Node \X Line!Elem /\ f[2] \in Line!Node \X Line!Elem
    BY DEF Line!WellPlaced
  <2> QED
    BY <2>1, LineTurns
<1> QED
  BY <1>1, LineTopology DEF AnyLine!DimensionOrder

(* The line takes the steps of the mesh that MeshProofs is about. *)
LEMMA LineIsAMesh ==
  /\ Line!Init => AnyLine!Init
  /\ [Line!Next]_Line!vars => [AnyLine!Next]_AnyLine!vars
<1> USE DEF Line!Elem, AnyLine!Elem, Line!Port, AnyLine!Port, Line!busy,
            AnyLine!busy
<1>1. /\ Line!Endpoint = AnyLine!Endpoint /\ Line!Client = AnyLine!Client
      /\ Line!vars = AnyLine!vars
  BY DEF Line!Endpoint, AnyLine!Endpoint, Line!Client, AnyLine!Client,
         Line!vars, AnyLine!vars
<1>2. Line!Init => AnyLine!Init
  BY <1>1 DEF Line!Init, AnyLine!Init
<1>3. \A m, p, x : Line!stamped(m, p, x) = AnyLine!stamped(m, p, x)
  BY DEF Line!stamped, AnyLine!stamped, Line!RestampsTransit
<1>4. \A n \in Line!Node : Line!node_clock(n) => AnyLine!node_clock(n)
  <2> SUFFICES ASSUME NEW n \in Line!Node, Line!node_clock(n)
               PROVE  AnyLine!node_clock(n)
    OBVIOUS
  <2>1. Line!sent(n) = AnyLine!sent(n)
    BY DEF Line!sent, AnyLine!sent, Line!accepts, AnyLine!accepts
  <2>2. Line!oldest_local(n) = AnyLine!oldest_local(n)
    BY DEF Line!oldest_local, AnyLine!oldest_local, Line!oldest,
           AnyLine!oldest
  <2>3. \A e, p : Line!left(n, e, p) = AnyLine!left(n, e, p)
    BY DEF Line!left, AnyLine!left
  <2>4. \A e, l : Line!source(n, e, l) = AnyLine!source(n, e, l)
    BY DEF Line!source, AnyLine!source, Line!left, AnyLine!left,
           Line!propagate, AnyLine!propagate, Line!oldest, AnyLine!oldest
  <2>5. \A e, m, p : Line!filled(n, e, m, p) = AnyLine!filled(n, e, m, p)
    BY DEF Line!filled, AnyLine!filled
  <2>6. \A e, f : Line!clocked(n, e, f) => AnyLine!clocked(n, e, f)
    BY <1>1, <1>3 DEF Line!clocked, AnyLine!clocked, Line!left, AnyLine!left,
                      Line!filled, AnyLine!filled
  <2> QED
    BY <2>1, <2>2, <2>4, <2>6 DEF Line!node_clock, AnyLine!node_clock
<1>5. \A s, t : Line!Inject(s, t) => AnyLine!Inject(s, t)
  BY <1>3 DEF Line!Inject, AnyLine!Inject
<1>6. \A e : Line!Consume(e) => AnyLine!Consume(e)
  BY DEF Line!Consume, AnyLine!Consume
<1>7. \A m : Line!simple_mem_clock(m) => AnyLine!simple_mem_clock(m)
  BY <1>3 DEF Line!simple_mem_clock, AnyLine!simple_mem_clock, Line!mem_sends,
              AnyLine!mem_sends
<1>8. Line!Next => AnyLine!Next
  BY <1>1, <1>4, <1>5, <1>6, <1>7 DEF Line!Next, AnyLine!Next
<1> QED
  BY <1>1, <1>2, <1>8 DEF Line!vars, AnyLine!vars

(* A run of the line is a run of that mesh. *)
LEMMA LineRuns ==
  Line!Spec => AnyLine!Init /\ [][AnyLine!Next]_AnyLine!vars
BY LineIsAMesh, PTL DEF Line!Spec

(* A line of nodes delivers every packet once, to the endpoint it is for,  *)
(* and in the order of its flow.                                           *)
THEOREM LineImplementsNetwork ==
  ASSUME Clusters \in Nat, Line!WellPlaced
  PROVE  Line!Spec => Line!ImplementsNetwork
<1>1. Line!Spec => AnyLine!ImplementsNetwork
  BY LineRuns, LineTopology, AnyLine!MeshImplements, PTL
<1>2. AnyLine!ImplementsNetwork <=> Line!ImplementsNetwork
  BY DEF Line!ImplementsNetwork, AnyLine!ImplementsNetwork,
         Line!Promised!Spec, AnyLine!Promised!Spec, Line!Promised!Init,
         AnyLine!Promised!Init, Line!Promised!Next, AnyLine!Promised!Next,
         Line!Promised!Send, AnyLine!Promised!Send, Line!Promised!Deliver,
         AnyLine!Promised!Deliver, Line!Promised!deliverable,
         AnyLine!Promised!deliverable, Line!Promised!Consume,
         AnyLine!Promised!Consume, Line!Promised!Reply,
         AnyLine!Promised!Reply, Line!Promised!Endpoint,
         AnyLine!Promised!Endpoint, Line!InFlight, AnyLine!InFlight,
         Line!Shown, AnyLine!Shown, Line!Endpoint, AnyLine!Endpoint,
         Line!Port, AnyLine!Port, Line!Elem, AnyLine!Elem
<1> QED
  BY <1>1, <1>2, PTL

(* A memory of the line that waits for its own request waits for ever. *)
THEOREM LineWedges ==
  ASSUME Clusters \in Nat, Line!WellPlaced
  PROVE  Line!Spec => Line!WedgedForEver
<1>1. Line!Spec => AnyLine!WedgedForEver
  BY LineRuns, LineTopology, AnyLine!MeshWedges, PTL
<1>2. AnyLine!WedgedForEver <=> Line!WedgedForEver
  BY DEF Line!WedgedForEver, AnyLine!WedgedForEver, Line!Wedged,
         AnyLine!Wedged, Line!Before, AnyLine!Before, Line!busy, AnyLine!busy,
         Line!Elem, AnyLine!Elem, Line!vars, AnyLine!vars
<1> QED
  BY <1>1, <1>2, PTL

(* Packets in a line never wait for each other's links in a circle. *)
THEOREM LineWaits ==
  ASSUME Clusters \in Nat, Line!WellPlaced
  PROVE  Line!Spec => []Line!NoCyclicWait
<1>1. Line!Spec => []AnyLine!NoCyclicWait
  BY LineRuns, LineOrder, AnyLine!MeshWaits, PTL
<1>2. AnyLine!NoCyclicWait <=> Line!NoCyclicWait
  BY DEF Line!NoCyclicWait, AnyLine!NoCyclicWait, Line!Waits,
         AnyLine!Waits, Line!Wanted, AnyLine!Wanted, Line!OnLink,
         AnyLine!OnLink, Line!After, AnyLine!After, Line!Link,
         AnyLine!Link
<1> QED
  BY <1>1, <1>2, PTL

(* While packets are under way in a line, an endpoint is busy with one or  *)
(* the clock of a node moves one.                                          *)
THEOREM LineNeverStuck ==
  ASSUME Clusters \in Nat, Line!WellPlaced
  PROVE  Line!Spec => []Line!NeverStuck
<1>1. Line!Spec => []AnyLine!NeverStuck
  BY LineRuns, LineOrder, AnyLine!MeshNeverStuck, PTL
<1> USE DEF Line!Elem, AnyLine!Elem, Line!Port, AnyLine!Port, Line!busy,
            AnyLine!busy
<1>2. ASSUME NEW n PROVE AnyLine!CanMove(n) <=> Line!CanMove(n)
  <2>1. Line!sent(n) = AnyLine!sent(n)
    BY DEF Line!sent, AnyLine!sent, Line!accepts, AnyLine!accepts
  <2>2. Line!oldest_local(n) = AnyLine!oldest_local(n)
    BY DEF Line!oldest_local, AnyLine!oldest_local, Line!oldest,
           AnyLine!oldest
  <2>3. \A e, l : Line!source(n, e, l) = AnyLine!source(n, e, l)
    BY DEF Line!source, AnyLine!source, Line!left, AnyLine!left,
           Line!propagate, AnyLine!propagate, Line!oldest, AnyLine!oldest
  <2> QED
    BY <2>1, <2>2, <2>3 DEF Line!CanMove, AnyLine!CanMove
<1>3. AnyLine!NeverStuck <=> Line!NeverStuck
  BY <1>2 DEF Line!NeverStuck, AnyLine!NeverStuck, Line!InFlight,
              AnyLine!InFlight, Line!Endpoint, AnyLine!Endpoint
<1> QED
  BY <1>1, <1>3, PTL

----------------------------------------------------------------------------
(* The box routes along one path per flow. *)
LEMMA BoxIsWired ==
  ASSUME Box!WellPlaced
  PROVE  AnyBox!Wired
<1>1. Elems \in Nat
  BY DEF Box!WellPlaced
<1>2. AnyBox!WellPlaced
  BY DEF Box!WellPlaced, AnyBox!WellPlaced, Box!Elem, AnyBox!Elem,
         Box!Endpoint, AnyBox!Endpoint, Box!Packet, AnyBox!Packet
<1> USE DEF Box!north, Box!east, Box!south, Box!west, Box!up, Box!down
<1>3. AnyBox!Elem \cap Box!Dir = {}
  BY <1>1 DEF AnyBox!Elem, Box!Dir
<1>4. \A d \in Box!Dir :
        Box!Back(d) \in Box!Dir /\ Box!Back(Box!Back(d)) = d
  BY <1>1 DEF Box!Dir, Box!Back
<1>5. \A p : Box!Inputs(p) \in Seq(Box!Dir)
  <2>1. /\ Box!north \in Box!Dir /\ Box!east \in Box!Dir
        /\ Box!south \in Box!Dir /\ Box!west \in Box!Dir
        /\ Box!up \in Box!Dir /\ Box!down \in Box!Dir
    BY <1>1 DEF Box!Dir
  <2>2. \A a, b, c, d, e, g \in Box!Dir :
          /\ <<a, b, c, d, e>> \in Seq(Box!Dir)
          /\ <<a, b, c, d, e, g>> \in Seq(Box!Dir)
    OBVIOUS
  <2> QED
    BY <2>1, <2>2, Zenon DEF Box!Inputs
<1> QED
  BY <1>2, <1>3, <1>4, <1>5 DEF AnyBox!Wired

(* Every flow of the box follows its path. *)
LEMMA BoxIsRouted ==
  ASSUME Columns \in Nat, Rows \in Nat, Layers \in Nat, Box!WellPlaced,
         NEW s \in Box!Node \X Box!Elem, NEW t \in Box!Node \X Box!Elem
  PROVE  AnyBox!Routed(s, t)
<1> USE DEF Apart, Between, Box!Node
<1>1. Elems \in Nat
  BY DEF Box!WellPlaced
<1>2. PICK sx \in 0 .. Columns - 1, sy \in 0 .. Rows - 1,
           sz \in 0 .. Layers - 1, sp \in Box!Elem :
        s = <<<<sx, sy, sz>>, sp>>
  OBVIOUS
<1>3. PICK tx \in 0 .. Columns - 1, ty \in 0 .. Rows - 1,
           tz \in 0 .. Layers - 1, tp \in Box!Elem :
        t = <<<<tx, ty, tz>>, tp>>
  OBVIOUS
<1>4. /\ \A x, y, z : BoxRank(<<x, y, z>>, t) =
           Apart(x, tx) + Apart(y, ty) + Apart(z, tz)
      /\ \A x, y, z : BoxOnPath(s, t, <<x, y, z>>) <=>
           \/ x = sx /\ z = sz /\ Between(sy, y, ty)
           \/ y = ty /\ z = sz /\ Between(sx, x, tx)
           \/ y = ty /\ x = tx /\ Between(sz, z, tz)
  BY <1>2, <1>3 DEF BoxRank, BoxOnPath
<1>5. BoxOnPath(s, t, s[1]) /\ BoxInPort(s, t, s[1]) = s[2]
  BY <1>2, <1>4 DEF BoxInPort
<1>6. BoxRank(t[1], t) = 0
  BY <1>3, <1>4
<1>7. ASSUME NEW n \in Box!Node, BoxOnPath(s, t, n)
      PROVE  LET d == Box!Route(n, t)
                 m == Box!Neighbor(n, d)
             IN  /\ BoxRank(n, t) \in 0 .. BoxRank(s[1], t)
                 /\ BoxInPort(s, t, n) \in AnyBox!Port
                 /\ \/ d \in AnyBox!Elem /\ t = <<n, d>>
                    \/ /\ d \in Box!Dir /\ m \in Box!Node
                       /\ BoxOnPath(s, t, m)
                       /\ BoxRank(m, t) = BoxRank(n, t) - 1
                       /\ BoxInPort(s, t, m) = Box!Back(d)
  <2>1. PICK x \in 0 .. Columns - 1, y \in 0 .. Rows - 1,
             z \in 0 .. Layers - 1 : n = <<x, y, z>>
    BY <1>7
  <2>2. BoxRank(n, t) \in 0 .. BoxRank(s[1], t)
    BY <1>2, <1>4, <1>7, <2>1
  <2>3. BoxInPort(s, t, n) \in AnyBox!Port
    BY <1>1, <1>2, <1>3, <1>7, <2>1
       DEF BoxInPort, AnyBox!Port, AnyBox!Elem, Box!Elem, Box!Dir,
           Box!north, Box!east, Box!south, Box!west, Box!up, Box!down
  <2>4. CASE y < ty
    <3>1. Box!Route(n, t) = Box!north
      BY <1>3, <2>1, <2>4 DEF Box!Route
    <3>2. /\ Box!Neighbor(n, Box!north) = <<x, y + 1, z>>
          /\ Box!Back(Box!north) = Box!south /\ Box!north \in Box!Dir
      BY <1>1, <2>1 DEF Box!Neighbor, Box!Back, Box!Dir,
         Box!north, Box!east, Box!south, Box!west, Box!up, Box!down
    <3>3. x = sx /\ z = sz /\ y + 1 # sy /\ sy < ty
      BY <1>2, <1>4, <1>7, <2>1, <2>4
    <3>4. BoxInPort(s, t, <<x, y + 1, z>>) = Box!south
      BY <1>2, <1>3, <3>3 DEF BoxInPort
    <3>5. /\ <<x, y + 1, z>> \in Box!Node
          /\ BoxOnPath(s, t, <<x, y + 1, z>>)
          /\ BoxRank(<<x, y + 1, z>>, t) = BoxRank(n, t) - 1
      BY <1>4, <1>7, <2>1, <2>4, <3>3
    <3> QED
      BY <2>2, <2>3, <3>1, <3>2, <3>4, <3>5
  <2>5. CASE y > ty
    <3>1. Box!Route(n, t) = Box!south
      BY <1>3, <2>1, <2>5 DEF Box!Route
    <3>2. /\ Box!Neighbor(n, Box!south) = <<x, y - 1, z>>
          /\ Box!Back(Box!south) = Box!north /\ Box!south \in Box!Dir
      BY <1>1, <2>1 DEF Box!Neighbor, Box!Back, Box!Dir,
         Box!north, Box!east, Box!south, Box!west, Box!up, Box!down
    <3>3. x = sx /\ z = sz /\ y - 1 # sy /\ ~ (sy < ty)
      BY <1>2, <1>4, <1>7, <2>1, <2>5
    <3>4. BoxInPort(s, t, <<x, y - 1, z>>) = Box!north
      BY <1>2, <1>3, <3>3 DEF BoxInPort
    <3>5. /\ <<x, y - 1, z>> \in Box!Node
          /\ BoxOnPath(s, t, <<x, y - 1, z>>)
          /\ BoxRank(<<x, y - 1, z>>, t) = BoxRank(n, t) - 1
      BY <1>4, <1>7, <2>1, <2>5, <3>3
    <3> QED
      BY <2>2, <2>3, <3>1, <3>2, <3>4, <3>5
  <2>6. CASE y = ty /\ x < tx
    <3>1. Box!Route(n, t) = Box!east
      BY <1>3, <2>1, <2>6 DEF Box!Route
    <3>2. /\ Box!Neighbor(n, Box!east) = <<x + 1, y, z>>
          /\ Box!Back(Box!east) = Box!west /\ Box!east \in Box!Dir
      BY <1>1, <2>1 DEF Box!Neighbor, Box!Back, Box!Dir,
         Box!north, Box!east, Box!south, Box!west, Box!up, Box!down
    <3>3. x + 1 # sx /\ sx < tx /\ z = sz
      BY <1>2, <1>4, <1>7, <2>1, <2>6
    <3>4. BoxInPort(s, t, <<x + 1, y, z>>) = Box!west
      BY <1>2, <1>3, <3>3 DEF BoxInPort
    <3>5. /\ <<x + 1, y, z>> \in Box!Node
          /\ BoxOnPath(s, t, <<x + 1, y, z>>)
          /\ BoxRank(<<x + 1, y, z>>, t) = BoxRank(n, t) - 1
      BY <1>4, <1>7, <2>1, <2>6, <3>3
    <3> QED
      BY <2>2, <2>3, <3>1, <3>2, <3>4, <3>5
  <2>7. CASE y = ty /\ x > tx
    <3>1. Box!Route(n, t) = Box!west
      BY <1>3, <2>1, <2>7 DEF Box!Route
    <3>2. /\ Box!Neighbor(n, Box!west) = <<x - 1, y, z>>
          /\ Box!Back(Box!west) = Box!east /\ Box!west \in Box!Dir
      BY <1>1, <2>1 DEF Box!Neighbor, Box!Back, Box!Dir,
         Box!north, Box!east, Box!south, Box!west, Box!up, Box!down
    <3>3. x - 1 # sx /\ ~ (sx < tx) /\ z = sz
      BY <1>2, <1>4, <1>7, <2>1, <2>7
    <3>4. BoxInPort(s, t, <<x - 1, y, z>>) = Box!east
      BY <1>2, <1>3, <3>3 DEF BoxInPort
    <3>5. /\ <<x - 1, y, z>> \in Box!Node
          /\ BoxOnPath(s, t, <<x - 1, y, z>>)
          /\ BoxRank(<<x - 1, y, z>>, t) = BoxRank(n, t) - 1
      BY <1>4, <1>7, <2>1, <2>7, <3>3
    <3> QED
      BY <2>2, <2>3, <3>1, <3>2, <3>4, <3>5
  <2>8. CASE y = ty /\ x = tx /\ z < tz
    <3>1. Box!Route(n, t) = Box!up
      BY <1>3, <2>1, <2>8 DEF Box!Route
    <3>2. /\ Box!Neighbor(n, Box!up) = <<x, y, z + 1>>
          /\ Box!Back(Box!up) = Box!down /\ Box!up \in Box!Dir
      BY <1>1, <2>1 DEF Box!Neighbor, Box!Back, Box!Dir,
         Box!north, Box!east, Box!south, Box!west, Box!up, Box!down
    <3>3. z + 1 # sz /\ sz < tz
      BY <1>2, <1>4, <1>7, <2>1, <2>8
    <3>4. BoxInPort(s, t, <<x, y, z + 1>>) = Box!down
      BY <1>2, <1>3, <3>3 DEF BoxInPort
    <3>5. /\ <<x, y, z + 1>> \in Box!Node
          /\ BoxOnPath(s, t, <<x, y, z + 1>>)
          /\ BoxRank(<<x, y, z + 1>>, t) = BoxRank(n, t) - 1
      BY <1>4, <1>7, <2>1, <2>8, <3>3
    <3> QED
      BY <2>2, <2>3, <3>1, <3>2, <3>4, <3>5
  <2>9. CASE y = ty /\ x = tx /\ z > tz
    <3>1. Box!Route(n, t) = Box!down
      BY <1>3, <2>1, <2>9 DEF Box!Route
    <3>2. /\ Box!Neighbor(n, Box!down) = <<x, y, z - 1>>
          /\ Box!Back(Box!down) = Box!up /\ Box!down \in Box!Dir
      BY <1>1, <2>1 DEF Box!Neighbor, Box!Back, Box!Dir,
         Box!north, Box!east, Box!south, Box!west, Box!up, Box!down
    <3>3. z - 1 # sz /\ ~ (sz < tz)
      BY <1>2, <1>4, <1>7, <2>1, <2>9
    <3>4. BoxInPort(s, t, <<x, y, z - 1>>) = Box!up
      BY <1>2, <1>3, <3>3 DEF BoxInPort
    <3>5. /\ <<x, y, z - 1>> \in Box!Node
          /\ BoxOnPath(s, t, <<x, y, z - 1>>)
          /\ BoxRank(<<x, y, z - 1>>, t) = BoxRank(n, t) - 1
      BY <1>4, <1>7, <2>1, <2>9, <3>3
    <3> QED
      BY <2>2, <2>3, <3>1, <3>2, <3>4, <3>5
  <2>10. CASE y = ty /\ x = tx /\ z = tz
    <3>1. Box!Route(n, t) = tp
      BY <1>3, <2>1, <2>10 DEF Box!Route
    <3> QED
      BY <1>3, <2>1, <2>2, <2>3, <2>10, <3>1 DEF AnyBox!Elem, Box!Elem
  <2> QED
    BY <2>1, <2>4, <2>5, <2>6, <2>7, <2>8, <2>9, <2>10
<1>8. ASSUME NEW m \in Box!Node, NEW n \in Box!Node,
             BoxOnPath(s, t, m), BoxOnPath(s, t, n),
             BoxRank(m, t) = BoxRank(n, t)
      PROVE  m = n
  <2>1. PICK x \in 0 .. Columns - 1, y \in 0 .. Rows - 1,
             z \in 0 .. Layers - 1 : n = <<x, y, z>>
    BY <1>8
  <2>2. PICK u \in 0 .. Columns - 1, v \in 0 .. Rows - 1,
             w \in 0 .. Layers - 1 : m = <<u, v, w>>
    BY <1>8
  <2>3. Apart(x, tx) + Apart(y, ty) + Apart(z, tz)
          = Apart(u, tx) + Apart(v, ty) + Apart(w, tz)
    BY <1>4, <1>8, <2>1, <2>2
  <2>4. /\ \/ x = sx /\ z = sz /\ Between(sy, y, ty)
           \/ y = ty /\ z = sz /\ Between(sx, x, tx)
           \/ y = ty /\ x = tx /\ Between(sz, z, tz)
        /\ \/ u = sx /\ w = sz /\ Between(sy, v, ty)
           \/ v = ty /\ w = sz /\ Between(sx, u, tx)
           \/ v = ty /\ u = tx /\ Between(sz, w, tz)
    BY <1>4, <1>8, <2>1, <2>2
  <2>5. u = x /\ v = y /\ w = z
    BY <2>3, <2>4
  <2> QED
    BY <2>1, <2>2, <2>5
<1> QED
  BY <1>5, <1>6, <1>7, <1>8 DEF AnyBox!Routed

(* So the theorems of MeshProofs hold of it. *)
LEMMA BoxTopology ==
  ASSUME Columns \in Nat, Rows \in Nat, Layers \in Nat, Box!WellPlaced
  PROVE  AnyBox!Topology
<1>1. ASSUME NEW f \in Flows PROVE AnyBox!Routed(f[1], f[2])
  <2>1. f[1] \in Box!Node \X Box!Elem /\ f[2] \in Box!Node \X Box!Elem
    BY DEF Box!WellPlaced
  <2> QED
    BY <2>1, BoxIsRouted
<1> QED
  BY <1>1, BoxIsWired DEF AnyBox!Topology

(* An output lists every other direction. *)
LEMMA BoxLists ==
  ASSUME Elems \in Nat, NEW p \in Box!Dir, NEW d, d # p
  PROVE  \E i \in DOMAIN Box!Inputs(d) : Box!Inputs(d)[i] = p
<1> DEFINE no == Box!north  ea == Box!east  so == Box!south
           we == Box!west   up == Box!up    do == Box!down
<1>1. p \in {no, ea, so, we, up, do}
  BY DEF Box!Dir, Box!north, Box!east, Box!south, Box!west, Box!up, Box!down
<1>2. \/ d = no /\ Box!Inputs(d) = <<ea, so, we, up, do>>
      \/ d = ea /\ Box!Inputs(d) = <<no, so, we, up, do>>
      \/ d = so /\ Box!Inputs(d) = <<no, ea, we, up, do>>
      \/ d = we /\ Box!Inputs(d) = <<no, ea, so, up, do>>
      \/ d = up /\ Box!Inputs(d) = <<no, ea, we, so, do>>
      \/ d = do /\ Box!Inputs(d) = <<no, ea, we, so, up>>
      \/ Box!Inputs(d) = <<no, ea, so, we, up, do>>
  BY DEF Box!Inputs
<1> HIDE DEF no, ea, so, we, up, do
<1>3. ASSUME NEW a, NEW b, NEW c, NEW e, NEW f,
             Box!Inputs(d) = <<a, b, c, e, f>>, p \in {a, b, c, e, f}
      PROVE  \E i \in DOMAIN Box!Inputs(d) : Box!Inputs(d)[i] = p
  <2>1. /\ DOMAIN Box!Inputs(d) = 1 .. 5 /\ Box!Inputs(d)[1] = a
        /\ Box!Inputs(d)[2] = b /\ Box!Inputs(d)[3] = c
        /\ Box!Inputs(d)[4] = e /\ Box!Inputs(d)[5] = f
    BY <1>3
  <2> QED
    BY <1>3, <2>1
<1>4. CASE Box!Inputs(d) = <<no, ea, so, we, up, do>>
  <2>1. /\ DOMAIN Box!Inputs(d) = 1 .. 6
        /\ Box!Inputs(d)[1] = no /\ Box!Inputs(d)[2] = ea
        /\ Box!Inputs(d)[3] = so /\ Box!Inputs(d)[4] = we
        /\ Box!Inputs(d)[5] = up /\ Box!Inputs(d)[6] = do
    BY <1>4
  <2> QED
    BY <1>1, <2>1
<1> QED
  BY <1>1, <1>2, <1>3, <1>4

(* Its packets travel y before x, and x before z. *)
LEMMA BoxTurns ==
  ASSUME Columns \in Nat, Rows \in Nat, Layers \in Nat, Box!WellPlaced,
         NEW s \in Box!Node \X Box!Elem, NEW t \in Box!Node \X Box!Elem
  PROVE  AnyBox!Turns(s, t)
<1> USE DEF Between
<1>1. Elems \in Nat
  BY DEF Box!WellPlaced
<1>2. PICK sx \in 0 .. Columns - 1, sy \in 0 .. Rows - 1,
           sz \in 0 .. Layers - 1, sp \in Box!Elem :
        s = <<<<sx, sy, sz>>, sp>>
  BY DEF Box!Node
<1>3. PICK tx \in 0 .. Columns - 1, ty \in 0 .. Rows - 1,
           tz \in 0 .. Layers - 1, tp \in Box!Elem :
        t = <<<<tx, ty, tz>>, tp>>
  BY DEF Box!Node
<1>4. \A x, y, z :
        /\ BoxLinkRank(<<x, y, z>>, Box!down) = Layers - z
        /\ BoxLinkRank(<<x, y, z>>, Box!up) = z
        /\ BoxLinkRank(<<x, y, z>>, Box!west) = Layers + 1 + Columns - x
        /\ BoxLinkRank(<<x, y, z>>, Box!east) = Layers + 1 + x
        /\ BoxLinkRank(<<x, y, z>>, Box!south)
             = Layers + Columns + 2 + Rows - y
        /\ BoxLinkRank(<<x, y, z>>, Box!north) = Layers + Columns + 2 + y
  BY <1>1 DEF BoxLinkRank, Box!north, Box!east, Box!south, Box!west,
              Box!up, Box!down
<1>5. sp \notin Box!Dir /\ tp \notin Box!Dir
  BY <1>1 DEF Box!Elem, Box!Dir, Box!north, Box!down
<1> SUFFICES ASSUME NEW n \in Box!Node, BoxOnPath(s, t, n),
                    BoxInPort(s, t, n) \in Box!Dir
             PROVE  LET p == BoxInPort(s, t, n)
                        d == Box!Route(n, t)
                    IN  /\ \E i \in DOMAIN Box!Inputs(d) : Box!Inputs(d)[i] = p
                        /\ BoxLinkRank(n, p) \in Nat
                        /\ d \in Box!Dir =>
                             BoxLinkRank(Box!Neighbor(n, d), Box!Back(d))
                               \in 0 .. BoxLinkRank(n, p) - 1
  BY Zenon DEF AnyBox!Turns
<1>6. PICK x \in 0 .. Columns - 1, y \in 0 .. Rows - 1,
           z \in 0 .. Layers - 1 : n = <<x, y, z>>
  BY DEF Box!Node
<1>7. PICK p \in Box!Dir : p = BoxInPort(s, t, n)
  OBVIOUS
<1>8. ~ (x = sx /\ y = sy /\ z = sz)
  BY <1>2, <1>5, <1>6, <1>7 DEF BoxInPort
<1>9. \/ p = Box!south /\ sy < y /\ y <= ty
      \/ p = Box!north /\ y < sy /\ ty <= y
      \/ p = Box!west /\ y = ty /\ sx < x /\ x <= tx
      \/ p = Box!east /\ y = ty /\ x < sx /\ tx <= x
      \/ p = Box!down /\ y = ty /\ x = tx /\ sz < z /\ z <= tz
      \/ p = Box!up /\ y = ty /\ x = tx /\ z < sz /\ tz <= z
  <2>1. \/ x = sx /\ z = sz /\ Between(sy, y, ty)
        \/ y = ty /\ z = sz /\ Between(sx, x, tx)
        \/ y = ty /\ x = tx /\ Between(sz, z, tz)
    BY <1>2, <1>3, <1>6 DEF BoxOnPath
  <2>2. z # sz => p = IF sz < tz THEN Box!down ELSE Box!up
    BY <1>2, <1>3, <1>6, <1>7, <1>8 DEF BoxInPort
  <2>3. z = sz /\ x # sx => p = IF sx < tx THEN Box!west ELSE Box!east
    BY <1>2, <1>3, <1>6, <1>7, <1>8 DEF BoxInPort
  <2>4. z = sz /\ x = sx => p = IF sy < ty THEN Box!south ELSE Box!north
    BY <1>2, <1>3, <1>6, <1>7, <1>8 DEF BoxInPort
  <2> QED
    BY <1>8, <2>1, <2>2, <2>3, <2>4
<1>10. PICK d : d = Box!Route(n, t)
  OBVIOUS
<1>11. \/ d = Box!north /\ y < ty
       \/ d = Box!south /\ y > ty
       \/ d = Box!east /\ y = ty /\ x < tx
       \/ d = Box!west /\ y = ty /\ x > tx
       \/ d = Box!up /\ y = ty /\ x = tx /\ z < tz
       \/ d = Box!down /\ y = ty /\ x = tx /\ z > tz
       \/ d = tp /\ y = ty /\ x = tx
  BY <1>3, <1>6, <1>10 DEF Box!Route
<1>12. /\ Box!Neighbor(n, Box!north) = <<x, y + 1, z>>
       /\ Box!Neighbor(n, Box!south) = <<x, y - 1, z>>
       /\ Box!Neighbor(n, Box!east) = <<x + 1, y, z>>
       /\ Box!Neighbor(n, Box!west) = <<x - 1, y, z>>
       /\ Box!Neighbor(n, Box!up) = <<x, y, z + 1>>
       /\ Box!Neighbor(n, Box!down) = <<x, y, z - 1>>
  BY <1>1, <1>6 DEF Box!Neighbor, Box!north, Box!east, Box!south, Box!west,
                    Box!up, Box!down
<1>13. /\ Box!Back(Box!north) = Box!south /\ Box!Back(Box!south) = Box!north
       /\ Box!Back(Box!east) = Box!west /\ Box!Back(Box!west) = Box!east
       /\ Box!Back(Box!up) = Box!down /\ Box!Back(Box!down) = Box!up
  BY <1>1 DEF Box!Back, Box!north, Box!east, Box!south, Box!west,
              Box!up, Box!down
<1>14. d # p
  <2>1. /\ Box!north # Box!south /\ Box!east # Box!west /\ Box!up # Box!down
        /\ Box!north \notin {Box!east, Box!west, Box!up, Box!down}
        /\ Box!south \notin {Box!east, Box!west, Box!up, Box!down}
        /\ Box!east \notin {Box!up, Box!down}
        /\ Box!west \notin {Box!up, Box!down}
    BY <1>1 DEF Box!north, Box!east, Box!south, Box!west, Box!up, Box!down
  <2> QED
    BY <1>5, <1>9, <1>11, <2>1
<1>15. \E i \in DOMAIN Box!Inputs(d) : Box!Inputs(d)[i] = p
  BY <1>1, <1>14, BoxLists
<1>16. BoxLinkRank(n, p) \in Nat
  BY <1>4, <1>6, <1>9
<1>17. ASSUME d \in Box!Dir
       PROVE  BoxLinkRank(Box!Neighbor(n, d), Box!Back(d))
                \in 0 .. BoxLinkRank(n, p) - 1
  <2>1. d # tp
    BY <1>5, <1>17
  <2>2. CASE d = Box!north /\ y < ty
    BY <1>4, <1>6, <1>9, <1>12, <1>13, <2>2
  <2>3. CASE d = Box!south /\ y > ty
    BY <1>4, <1>6, <1>9, <1>12, <1>13, <2>3
  <2>4. CASE d = Box!east /\ y = ty /\ x < tx
    BY <1>4, <1>6, <1>9, <1>12, <1>13, <2>4
  <2>5. CASE d = Box!west /\ y = ty /\ x > tx
    BY <1>4, <1>6, <1>9, <1>12, <1>13, <2>5
  <2>6. CASE d = Box!up /\ y = ty /\ x = tx /\ z < tz
    BY <1>4, <1>6, <1>9, <1>12, <1>13, <2>6
  <2>7. CASE d = Box!down /\ y = ty /\ x = tx /\ z > tz
    BY <1>4, <1>6, <1>9, <1>12, <1>13, <2>7
  <2> QED
    BY <1>11, <2>1, <2>2, <2>3, <2>4, <2>5, <2>6, <2>7
<1> QED
  BY <1>7, <1>10, <1>15, <1>16, <1>17

(* So what MeshProofs says of mutual waiting holds of it, too. *)
LEMMA BoxOrder ==
  ASSUME Columns \in Nat, Rows \in Nat, Layers \in Nat, Box!WellPlaced
  PROVE  AnyBox!DimensionOrder
<1>1. ASSUME NEW f \in Flows PROVE AnyBox!Turns(f[1], f[2])
  <2>1. f[1] \in Box!Node \X Box!Elem /\ f[2] \in Box!Node \X Box!Elem
    BY DEF Box!WellPlaced
  <2> QED
    BY <2>1, BoxTurns
<1> QED
  BY <1>1, BoxTopology DEF AnyBox!DimensionOrder

(* The box takes the steps of the mesh that MeshProofs is about. *)
LEMMA BoxIsAMesh ==
  /\ Box!Init => AnyBox!Init
  /\ [Box!Next]_Box!vars => [AnyBox!Next]_AnyBox!vars
<1> USE DEF Box!Elem, AnyBox!Elem, Box!Port, AnyBox!Port, Box!busy,
            AnyBox!busy
<1>1. /\ Box!Endpoint = AnyBox!Endpoint /\ Box!Client = AnyBox!Client
      /\ Box!vars = AnyBox!vars
  BY DEF Box!Endpoint, AnyBox!Endpoint, Box!Client, AnyBox!Client, Box!vars,
         AnyBox!vars
<1>2. Box!Init => AnyBox!Init
  BY <1>1 DEF Box!Init, AnyBox!Init
<1>3. \A m, p, x : Box!stamped(m, p, x) = AnyBox!stamped(m, p, x)
  BY DEF Box!stamped, AnyBox!stamped
<1>4. \A n \in Box!Node : Box!node_clock(n) => AnyBox!node_clock(n)
  <2> SUFFICES ASSUME NEW n \in Box!Node, Box!node_clock(n)
               PROVE  AnyBox!node_clock(n)
    OBVIOUS
  <2>1. Box!sent(n) = AnyBox!sent(n)
    BY DEF Box!sent, AnyBox!sent, Box!accepts, AnyBox!accepts
  <2>2. Box!oldest_local(n) = AnyBox!oldest_local(n)
    BY DEF Box!oldest_local, AnyBox!oldest_local, Box!oldest, AnyBox!oldest
  <2>3. \A e, p : Box!left(n, e, p) = AnyBox!left(n, e, p)
    BY DEF Box!left, AnyBox!left
  <2>4. \A e, l : Box!source(n, e, l) = AnyBox!source(n, e, l)
    BY DEF Box!source, AnyBox!source, Box!left, AnyBox!left, Box!propagate,
           AnyBox!propagate, Box!oldest, AnyBox!oldest
  <2>5. \A e, m, p : Box!filled(n, e, m, p) = AnyBox!filled(n, e, m, p)
    BY DEF Box!filled, AnyBox!filled
  <2>6. \A e, f : Box!clocked(n, e, f) => AnyBox!clocked(n, e, f)
    BY <1>1, <1>3 DEF Box!clocked, AnyBox!clocked, Box!left, AnyBox!left,
                      Box!filled, AnyBox!filled
  <2> QED
    BY <2>1, <2>2, <2>4, <2>6 DEF Box!node_clock, AnyBox!node_clock
<1>5. \A s, t : Box!Inject(s, t) => AnyBox!Inject(s, t)
  BY <1>3 DEF Box!Inject, AnyBox!Inject
<1>6. \A e : Box!Consume(e) => AnyBox!Consume(e)
  BY DEF Box!Consume, AnyBox!Consume
<1>7. \A m : Box!simple_mem_clock(m) => AnyBox!simple_mem_clock(m)
  BY <1>3 DEF Box!simple_mem_clock, AnyBox!simple_mem_clock, Box!mem_sends,
              AnyBox!mem_sends
<1>8. Box!Next => AnyBox!Next
  BY <1>1, <1>4, <1>5, <1>6, <1>7 DEF Box!Next, AnyBox!Next
<1> QED
  BY <1>1, <1>2, <1>8 DEF Box!vars, AnyBox!vars

(* A run of the box is a run of that mesh. *)
LEMMA BoxRuns ==
  Box!Spec => AnyBox!Init /\ [][AnyBox!Next]_AnyBox!vars
BY BoxIsAMesh, PTL DEF Box!Spec

(* A box of nodes delivers every packet once, to the endpoint it is for,   *)
(* and in the order of its flow.                                           *)
THEOREM BoxImplementsNetwork ==
  ASSUME Columns \in Nat, Rows \in Nat, Layers \in Nat, Box!WellPlaced
  PROVE  Box!Spec => Box!ImplementsNetwork
<1>1. Box!Spec => AnyBox!ImplementsNetwork
  BY BoxRuns, BoxTopology, AnyBox!MeshImplements, PTL
<1>2. AnyBox!ImplementsNetwork <=> Box!ImplementsNetwork
  BY DEF Box!ImplementsNetwork, AnyBox!ImplementsNetwork, Box!Promised!Spec,
         AnyBox!Promised!Spec, Box!Promised!Init, AnyBox!Promised!Init,
         Box!Promised!Next, AnyBox!Promised!Next, Box!Promised!Send,
         AnyBox!Promised!Send, Box!Promised!Deliver, AnyBox!Promised!Deliver,
         Box!Promised!deliverable, AnyBox!Promised!deliverable,
         Box!Promised!Consume, AnyBox!Promised!Consume, Box!Promised!Reply,
         AnyBox!Promised!Reply, Box!Promised!Endpoint,
         AnyBox!Promised!Endpoint, Box!InFlight, AnyBox!InFlight, Box!Shown,
         AnyBox!Shown, Box!Endpoint, AnyBox!Endpoint, Box!Port, AnyBox!Port,
         Box!Elem, AnyBox!Elem
<1> QED
  BY <1>1, <1>2, PTL

(* A packet keeps the timestamp it entered the box with. *)
THEOREM BoxKeepsTimestamp ==
  ASSUME Columns \in Nat, Rows \in Nat, Layers \in Nat, Box!WellPlaced
  PROVE  Box!Spec => Box!KeepsTimestamp
<1>1. Box!Spec => AnyBox!KeepsTimestamp
  BY BoxRuns, BoxTopology, AnyBox!MeshKeepsTimestamp, PTL
<1>2. AnyBox!KeepsTimestamp <=> Box!KeepsTimestamp
  BY DEF Box!KeepsTimestamp, AnyBox!KeepsTimestamp, Box!InFlight,
         AnyBox!InFlight, Box!Shown, AnyBox!Shown, Box!Port, AnyBox!Port,
         Box!Elem, AnyBox!Elem, Box!vars, AnyBox!vars
<1> QED
  BY <1>1, <1>2, PTL

(* A memory of the box that waits for its own request waits for ever. *)
THEOREM BoxWedges ==
  ASSUME Columns \in Nat, Rows \in Nat, Layers \in Nat, Box!WellPlaced
  PROVE  Box!Spec => Box!WedgedForEver
<1>1. Box!Spec => AnyBox!WedgedForEver
  BY BoxRuns, BoxTopology, AnyBox!MeshWedges, PTL
<1>2. AnyBox!WedgedForEver <=> Box!WedgedForEver
  BY DEF Box!WedgedForEver, AnyBox!WedgedForEver, Box!Wedged, AnyBox!Wedged,
         Box!Before, AnyBox!Before, Box!busy, AnyBox!busy, Box!Elem,
         AnyBox!Elem, Box!vars, AnyBox!vars
<1> QED
  BY <1>1, <1>2, PTL

(* Packets in a box never wait for each other's links in a circle. *)
THEOREM BoxWaits ==
  ASSUME Columns \in Nat, Rows \in Nat, Layers \in Nat, Box!WellPlaced
  PROVE  Box!Spec => []Box!NoCyclicWait
<1>1. Box!Spec => []AnyBox!NoCyclicWait
  BY BoxRuns, BoxOrder, AnyBox!MeshWaits, PTL
<1>2. AnyBox!NoCyclicWait <=> Box!NoCyclicWait
  BY DEF Box!NoCyclicWait, AnyBox!NoCyclicWait, Box!Waits,
         AnyBox!Waits, Box!Wanted, AnyBox!Wanted, Box!OnLink,
         AnyBox!OnLink, Box!After, AnyBox!After, Box!Link,
         AnyBox!Link
<1> QED
  BY <1>1, <1>2, PTL

(* While packets are under way in a box, an endpoint is busy with one or  *)
(* the clock of a node moves one.                                          *)
THEOREM BoxNeverStuck ==
  ASSUME Columns \in Nat, Rows \in Nat, Layers \in Nat, Box!WellPlaced
  PROVE  Box!Spec => []Box!NeverStuck
<1>1. Box!Spec => []AnyBox!NeverStuck
  BY BoxRuns, BoxOrder, AnyBox!MeshNeverStuck, PTL
<1> USE DEF Box!Elem, AnyBox!Elem, Box!Port, AnyBox!Port, Box!busy,
            AnyBox!busy
<1>2. ASSUME NEW n PROVE AnyBox!CanMove(n) <=> Box!CanMove(n)
  <2>1. Box!sent(n) = AnyBox!sent(n)
    BY DEF Box!sent, AnyBox!sent, Box!accepts, AnyBox!accepts
  <2>2. Box!oldest_local(n) = AnyBox!oldest_local(n)
    BY DEF Box!oldest_local, AnyBox!oldest_local, Box!oldest,
           AnyBox!oldest
  <2>3. \A e, l : Box!source(n, e, l) = AnyBox!source(n, e, l)
    BY DEF Box!source, AnyBox!source, Box!left, AnyBox!left,
           Box!propagate, AnyBox!propagate, Box!oldest, AnyBox!oldest
  <2> QED
    BY <2>1, <2>2, <2>3 DEF Box!CanMove, AnyBox!CanMove
<1>3. AnyBox!NeverStuck <=> Box!NeverStuck
  BY <1>2 DEF Box!NeverStuck, AnyBox!NeverStuck, Box!InFlight,
              AnyBox!InFlight, Box!Endpoint, AnyBox!Endpoint
<1> QED
  BY <1>1, <1>3, PTL
=============================================================================

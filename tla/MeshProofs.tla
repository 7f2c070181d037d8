----------------------------- MODULE MeshProofs -----------------------------
(***************************************************************************)
(* Whatever the topology, a mesh whose routing takes every packet one hop  *)
(* nearer, along one path per flow, delivers everything once and in order, *)
(* and a memory wedged in it stays so.  If, besides, its paths take links  *)
(* in a fixed order, packets never wait for each other in a circle, and    *)
(* the mesh comes to a stop only behind an endpoint.  MeshTopologyProofs   *)
(* shows that the nodes of one, two and three dimensions route so.         *)
(***************************************************************************)
EXTENDS Mesh, SequenceTheorems, WellFoundedInduction, TLAPS

CONSTANTS
  Rank(_, _),      \* Rank(n, t): how many links n is away from endpoint t
  OnPath(_, _, _), \* OnPath(s, t, n): packets from s to t come through n
  InPort(_, _, _), \* InPort(s, t, n): and enter it by this port
  LinkRank(_, _)   \* LinkRank(n, p): how many links may follow the one to p

(* The topology as a graph: ports, and links that lead both ways.          *)
Wired ==
  /\ WellPlaced
  /\ Elem \cap Dir = {}
  /\ \A d \in Dir : Back(d) \in Dir /\ Back(Back(d)) = d
  /\ \A p \in Port : Inputs(p) \in Seq(Dir)

(* Packets from s to t start at the port of s, and each node on their path *)
(* routes them to the next one, until the last one routes them to t.       *)
Routed(s, t) ==
  /\ OnPath(s, t, s[1]) /\ InPort(s, t, s[1]) = s[2]
  /\ Rank(t[1], t) = 0
  /\ \A n \in Node : OnPath(s, t, n) =>
       /\ Rank(n, t) \in 0 .. Rank(s[1], t)
       /\ InPort(s, t, n) \in Port
       /\ \/ /\ Route(n, t) \in Elem
             /\ t = <<n, Route(n, t)>>
          \/ /\ Route(n, t) \in Dir
             /\ Neighbor(n, Route(n, t)) \in Node
             /\ OnPath(s, t, Neighbor(n, Route(n, t)))
             /\ Rank(Neighbor(n, Route(n, t)), t) = Rank(n, t) - 1
             /\ InPort(s, t, Neighbor(n, Route(n, t))) = Back(Route(n, t))
  /\ \A m, n \in Node :
       OnPath(s, t, m) /\ OnPath(s, t, n) /\ Rank(m, t) = Rank(n, t) => m = n

(* The condition of the theorems. *)
Topology == Wired /\ \A f \in Flows : Routed(f[1], f[2])

(* Nodes pass on what enters them by a link, and of two links a packet     *)
(* takes one after the other, fewer may follow the second.                 *)
Turns(s, t) ==
  \A n \in Node : OnPath(s, t, n) /\ InPort(s, t, n) \in Dir =>
    /\ \E i \in DOMAIN Inputs(Route(n, t)) :
         Inputs(Route(n, t))[i] = InPort(s, t, n)
    /\ LinkRank(n, InPort(s, t, n)) \in Nat
    /\ Route(n, t) \in Dir =>
         LinkRank(Neighbor(n, Route(n, t)), Back(Route(n, t)))
           \in 0 .. LinkRank(n, InPort(s, t, n)) - 1

(* The condition of the theorems about mutual waiting. *)
DimensionOrder == Topology /\ \A f \in Flows : Turns(f[1], f[2])

----------------------------------------------------------------------------
(* The registers, by their names. *)
Register == {"in", "out"} \X Node \X Port
held(r) == IF r[1] = "in" THEN in[r[2]][r[3]] ELSE out[r[2]][r[3]]

(* How far a packet to t in register r is from being delivered. *)
Distance(r, t) == 2 * Rank(r[2], t) + (IF r[1] = "in" THEN 1 ELSE 0)

(* A packet is in a register of its path. *)
Placed(r, pkt) ==
  /\ <<pkt.src, pkt.to>> \in Flows
  /\ OnPath(pkt.src, pkt.to, r[2])
  /\ r[3] = IF r[1] = "in" THEN InPort(pkt.src, pkt.to, r[2])
            ELSE Route(r[2], pkt.to)
  /\ pkt.id < count[pkt.src]

SameFlow(p, q) == p.src = q.src /\ p.to = q.to

TypeOK ==
  /\ in \in [Node -> [Port -> Packet \cup {NoPkt}]]
  /\ out \in [Node -> [Port -> Packet \cup {NoPkt}]]
  /\ time \in [Node -> 0 .. MaxTime]
  /\ rx \in [Endpoint -> Packet \cup {NoPkt}]
  /\ count \in [Endpoint -> Nat]

PacketsPlaced == \A r \in Register : busy(held(r)) => Placed(r, held(r))

(* Of two packets of a flow the nearer one is the older one. *)
Ordered ==
  \A q, r \in Register :
    /\ busy(held(q)) /\ busy(held(r)) /\ SameFlow(held(q), held(r))
    /\ Distance(q, held(q).to) < Distance(r, held(r).to)
    => held(q).id < held(r).id

(* An endpoint has packets that were sent to it. *)
Received ==
  \A e \in Endpoint : busy(rx[e]) => rx[e].to = e /\ <<rx[e].src, e>> \in Flows

MeshInv == TypeOK /\ PacketsPlaced /\ Ordered /\ Received

----------------------------------------------------------------------------
(* A set of numbers has a least one. *)
LEMMA LeastNumber ==
  ASSUME NEW S \in SUBSET Nat, S # {}
  PROVE  \E m \in S : \A n \in S : m <= n
<1>1. PICK m \in S : \A n \in S : ~ (<<n, m>> \in OpToRel(<, Nat))
  BY NatLessThanWellFounded, WFMin, Zenon
<1>2. \A n \in S : ~ (n < m)
  BY <1>1 DEF OpToRel
<1> QED
  BY <1>2

(* oldest returns nothing, or one of the busy registers it is to choose    *)
(* from, and that no other one goes before.                                *)
LEMMA OldestIsListed ==
  ASSUME NEW regs, NEW T, NEW cand \in Seq(T), NEW sel,
         \A c \in T : busy(regs[c]) => regs[c].stamp \in Nat
  PROVE  \/ /\ oldest(regs, cand, sel) = << >>
            /\ \A i \in DOMAIN cand :
                 ~ (busy(regs[cand[i]]) /\ cand[i] \in sel)
         \/ \E i \in DOMAIN cand :
              /\ oldest(regs, cand, sel) = <<cand[i]>>
              /\ busy(regs[cand[i]]) /\ cand[i] \in sel
              /\ \A j \in DOMAIN cand :
                   busy(regs[cand[j]]) /\ cand[j] \in sel =>
                     \/ regs[cand[i]].stamp < regs[cand[j]].stamp
                     \/ /\ regs[cand[i]].stamp = regs[cand[j]].stamp
                        /\ i <= j
<1> DEFINE Able == {i \in DOMAIN cand : busy(regs[cand[i]]) /\ cand[i] \in sel}
           Stamp(i) == regs[cand[i]].stamp
           Goes(i, j) == \/ Stamp(i) < Stamp(j)
                         \/ Stamp(i) = Stamp(j) /\ i <= j
           best == CHOOSE i \in Able : \A j \in Able : Goes(i, j)
<1>1. oldest(regs, cand, sel) = IF Able = {} THEN << >> ELSE <<cand[best]>>
  BY DEF oldest
<1>2. CASE Able = {}
  BY <1>1, <1>2
<1>3. CASE Able # {}
  <2>1. DOMAIN cand = 1 .. Len(cand) /\ Len(cand) \in Nat
    OBVIOUS
  <2>2. \A i \in Able : i \in Nat /\ Stamp(i) \in Nat
    BY <2>1
  <2>3. PICK s \in {Stamp(i) : i \in Able} :
          \A n \in {Stamp(i) : i \in Able} : s <= n
    <3>1. {Stamp(i) : i \in Able} \in SUBSET Nat
      BY <2>2
    <3>2. {Stamp(i) : i \in Able} # {}
      BY <1>3
    <3> QED
      BY <3>1, <3>2, LeastNumber
  <2>4. PICK k \in {i \in Able : Stamp(i) = s} :
          \A n \in {i \in Able : Stamp(i) = s} : k <= n
    <3>1. {i \in Able : Stamp(i) = s} \in SUBSET Nat
      BY <2>2
    <3>2. {i \in Able : Stamp(i) = s} # {}
      BY <2>3
    <3> QED
      BY <3>1, <3>2, LeastNumber
  <2>5. k \in Able /\ \A j \in Able : Goes(k, j)
    <3>1. k \in Able /\ Stamp(k) = s
      BY <2>4
    <3>2. ASSUME NEW j \in Able PROVE Goes(k, j)
      <4>1. s <= Stamp(j) /\ s \in Nat /\ Stamp(j) \in Nat
        BY <2>2, <2>3, <3>1
      <4>2. CASE Stamp(j) = s
        BY <2>4, <3>1, <4>2
      <4>3. CASE Stamp(j) # s
        BY <3>1, <4>1, <4>3
      <4> QED
        BY <4>2, <4>3
    <3> QED
      BY <3>1, <3>2
  <2>6. best \in Able /\ \A j \in Able : Goes(best, j)
    BY <2>5
  <2>7. oldest(regs, cand, sel) = <<cand[best]>>
    BY <1>1, <1>3
  <2> HIDE DEF best
  <2>8. PICK i \in Able : i = best
    BY <2>6
  <2> QED
    BY <2>6, <2>7, <2>8
<1> QED
  BY <1>2, <1>3

(* The busy registers of a node hold packets. *)
LEMMA HeldPackets ==
  ASSUME TypeOK, WellPlaced, NEW n \in Node, NEW p \in Port
  PROVE  /\ busy(in[n][p]) => in[n][p] \in Packet /\ in[n][p].stamp \in Nat
         /\ busy(out[n][p]) => out[n][p] \in Packet /\ out[n][p].stamp \in Nat
<1>1. in[n][p] \in Packet \cup {NoPkt} /\ out[n][p] \in Packet \cup {NoPkt}
  BY DEF TypeOK
<1>2. \A pkt \in Packet : pkt.stamp \in Nat
  BY DEF Packet, WellPlaced
<1> QED
  BY <1>1, <1>2 DEF busy

(* The loop over the local ports finds the first of them. *)
LEMMA LocalIsOldest ==
  ASSUME TypeOK, WellPlaced, NEW n \in Node
  PROVE  \/ oldest_local(n) = << >> /\ \A p \in Elem : ~ busy(in[n][p])
         \/ \E p \in Elem :
              /\ oldest_local(n) = <<p>> /\ busy(in[n][p])
              /\ \A q \in Elem : busy(in[n][q]) => ~ Before(in[n], q, p)
<1> DEFINE cand == [i \in 1 .. Elems |-> i - 1]
<1>1. Elems \in Nat /\ Elem = 0 .. Elems - 1 /\ Elem \subseteq Port
  BY DEF WellPlaced, Elem, Port
<1>2. cand \in Seq(Elem) /\ DOMAIN cand = 1 .. Elems
  <2>1. \A i \in 1 .. Elems : i - 1 \in Elem
    BY <1>1
  <2> QED
    BY <1>1, <2>1
<1>3. \A p \in Elem : p + 1 \in DOMAIN cand /\ cand[p + 1] = p
  BY <1>1, <1>2
<1>4. \A p \in Elem : busy(in[n][p]) => in[n][p].stamp \in Nat
  BY <1>1, HeldPackets
<1>5. oldest_local(n) = oldest(in[n], cand, Elem)
  BY DEF oldest_local
<1>6. \A i \in DOMAIN cand : cand[i] = i - 1 /\ cand[i] \in Elem
  BY <1>1, <1>2
<1> HIDE DEF cand
<1>7. CASE /\ oldest(in[n], cand, Elem) = << >>
           /\ \A i \in DOMAIN cand : ~ (busy(in[n][cand[i]]) /\ cand[i] \in Elem)
  BY <1>3, <1>5, <1>7
<1>8. ASSUME NEW i \in DOMAIN cand,
             oldest(in[n], cand, Elem) = <<cand[i]>>,
             busy(in[n][cand[i]]) /\ cand[i] \in Elem,
             \A j \in DOMAIN cand :
               busy(in[n][cand[j]]) /\ cand[j] \in Elem =>
                 \/ in[n][cand[i]].stamp < in[n][cand[j]].stamp
                 \/ in[n][cand[i]].stamp = in[n][cand[j]].stamp /\ i <= j
      PROVE  \E p \in Elem :
               /\ oldest_local(n) = <<p>> /\ busy(in[n][p])
               /\ \A q \in Elem : busy(in[n][q]) => ~ Before(in[n], q, p)
  <2>1. PICK p \in Elem : p = cand[i] /\ i = p + 1
    <3>1. cand[i] \in Elem /\ cand[i] = i - 1 /\ i \in Nat
      BY <1>1, <1>2, <1>6
    <3> QED
      BY <3>1
  <2>2. oldest_local(n) = <<p>> /\ busy(in[n][p])
    BY <1>5, <1>8, <2>1
  <2>3. ASSUME NEW q \in Elem, busy(in[n][q]) PROVE ~ Before(in[n], q, p)
    <3>1. \/ in[n][p].stamp < in[n][q].stamp
          \/ in[n][p].stamp = in[n][q].stamp /\ p + 1 <= q + 1
      BY <1>3, <1>8, <2>1, <2>3
    <3>2. in[n][p].stamp \in Nat /\ in[n][q].stamp \in Nat
      BY <1>4, <2>2, <2>3
    <3> QED
      BY <1>1, <3>1, <3>2 DEF Before
  <2> QED
    BY <2>2, <2>3
<1>9. \/ /\ oldest(in[n], cand, Elem) = << >>
         /\ \A i \in DOMAIN cand : ~ (busy(in[n][cand[i]]) /\ cand[i] \in Elem)
      \/ \E i \in DOMAIN cand :
           /\ oldest(in[n], cand, Elem) = <<cand[i]>>
           /\ busy(in[n][cand[i]]) /\ cand[i] \in Elem
           /\ \A j \in DOMAIN cand :
                busy(in[n][cand[j]]) /\ cand[j] \in Elem =>
                  \/ in[n][cand[i]].stamp < in[n][cand[j]].stamp
                  \/ in[n][cand[i]].stamp = in[n][cand[j]].stamp /\ i <= j
  <2>1. cand \in Seq(Elem)
    BY <1>2
  <2> QED
    BY <1>4, <2>1, OldestIsListed, Zenon
<1> QED
  BY <1>7, <1>8, <1>9, Zenon

(* What propagate moves to an output comes from a busy input whose packet  *)
(* leads there, and from no local port but the oldest one.                 *)
LEMMA SourceLeadsHere ==
  ASSUME TypeOK, Wired, NEW n \in Node, NEW emptied, NEW p \in Port
  PROVE  LET s == source(n, emptied, oldest_local(n))[p]
         IN  \/ s = << >>
             \/ \E q \in Port :
                  /\ s = <<q>> /\ busy(in[n][q])
                  /\ ~ busy(left(n, emptied, p))
                  /\ Route(n, in[n][q].to) = p
                  /\ q \in Elem => oldest_local(n) = <<q>>
<1> DEFINE local == oldest_local(n)
           cand == local \o Inputs(p)
           sel == {q \in Port : busy(in[n][q]) /\ Route(n, in[n][q].to) = p}
<1>1. source(n, emptied, oldest_local(n))[p]
        = propagate(left(n, emptied, p), in[n], cand, sel)
  BY DEF source
<1>2. local \in Seq(Elem)
  <2>1. local = << >> \/ \E q \in Elem : local = <<q>>
    BY LocalIsOldest DEF Wired
  <2>2. \A q \in Elem : <<q>> \in Seq(Elem)
    OBVIOUS
  <2>3. << >> \in Seq(Elem)
    OBVIOUS
  <2> QED
    BY <2>1, <2>2, <2>3
<1>3. Inputs(p) \in Seq(Dir) /\ Elem \subseteq Port /\ Dir \subseteq Port
  BY DEF Wired, Port
<1>4. cand \in Seq(Port) /\ Len(cand) = Len(local) + Len(Inputs(p))
  <2>1. local \in Seq(Port) /\ Inputs(p) \in Seq(Port)
    BY <1>2, <1>3
  <2> HIDE DEF local
  <2> QED
    BY <2>1
<1>5. \A c \in Port : busy(in[n][c]) => in[n][c].stamp \in Nat
  BY HeldPackets DEF Wired
<1>6. CASE propagate(left(n, emptied, p), in[n], cand, sel) = << >>
  BY <1>1, <1>6
<1>7. CASE propagate(left(n, emptied, p), in[n], cand, sel) # << >>
  <2>1. /\ ~ busy(left(n, emptied, p))
        /\ propagate(left(n, emptied, p), in[n], cand, sel) = oldest(in[n], cand, sel)
    BY <1>7 DEF propagate
  <2>2. PICK i \in DOMAIN cand :
          /\ oldest(in[n], cand, sel) = <<cand[i]>>
          /\ busy(in[n][cand[i]]) /\ cand[i] \in sel
    <3> HIDE DEF cand, sel
    <3> QED
      BY <1>4, <1>5, <1>7, <2>1, OldestIsListed
  <2>3. PICK q \in Port : q = cand[i]
    BY <2>2
  <2>4. q \in Elem => local = <<q>>
    <3>1. SUFFICES ASSUME q \in Elem PROVE local = <<q>>
      OBVIOUS
    <3>2. i \in 1 .. Len(cand) /\ Len(local) \in Nat /\ Len(Inputs(p)) \in Nat
      <4> HIDE DEF cand, local
      <4> QED
        BY <1>2, <1>3, <1>4
    <3>3. CASE i > Len(local)
      <4>1. /\ q = Inputs(p)[i - Len(local)]
            /\ i - Len(local) \in 1 .. Len(Inputs(p))
        <5> HIDE DEF local
        <5> QED
          BY <1>2, <1>3, <1>4, <2>3, <3>2, <3>3
      <4>2. q \in Dir
        BY <1>3, <4>1
      <4> QED
        BY <3>1, <4>2 DEF Wired
    <3>4. CASE i <= Len(local)
      <4>1. q = local[i] /\ i \in 1 .. Len(local)
        <5> HIDE DEF local
        <5> QED
          BY <1>2, <1>3, <2>3, <3>2, <3>4
      <4>2. local = << >> \/ \E e \in Elem : local = <<e>>
        BY LocalIsOldest DEF Wired
      <4> HIDE DEF local
      <4> QED
        BY <4>1, <4>2
    <3> QED
      BY <3>2, <3>3, <3>4
  <2> QED
    BY <1>1, <2>1, <2>2, <2>3, <2>4
<1> QED
  BY <1>6, <1>7

----------------------------------------------------------------------------
(* The outputs a clock of n empties and the inputs it moves. *)
Moves(n, emptied, from) ==
  /\ emptied = {p \in Port : busy(out[n][p]) /\ accepts(n, p)}
  /\ \A p \in Port :
       \/ from[p] = << >>
       \/ \E q \in Port :
            /\ from[p] = <<q>> /\ busy(in[n][q]) /\ Route(n, in[n][q].to) = p
            /\ p \in emptied \/ ~ busy(out[n][p])
            /\ q \in Elem => oldest_local(n) = <<q>>

(* Every clock empties and moves such registers. *)
LEMMA ClockMoves ==
  ASSUME TypeOK, Wired, NEW n \in Node, node_clock(n)
  PROVE  \E emptied, from :
           Moves(n, emptied, from) /\ clocked(n, emptied, from)
<1>1. PICK emptied, from : /\ emptied = sent(n)
                           /\ from = source(n, emptied, oldest_local(n))
                           /\ clocked(n, emptied, from)
  BY DEF node_clock
<1>2. emptied = {p \in Port : busy(out[n][p]) /\ accepts(n, p)}
  BY <1>1 DEF sent
<1>3. \A p \in Port :
        \/ from[p] = << >>
        \/ \E q \in Port :
             /\ from[p] = <<q>> /\ busy(in[n][q])
             /\ ~ busy(left(n, emptied, p))
             /\ Route(n, in[n][q].to) = p
             /\ q \in Elem => oldest_local(n) = <<q>>
  BY <1>1, SourceLeadsHere
<1>4. \A p \in Port :
        ~ busy(left(n, emptied, p)) => p \in emptied \/ ~ busy(out[n][p])
  BY DEF left
<1> QED
  BY <1>1, <1>2, <1>3, <1>4 DEF Moves

(* Where the packet that such a clock leaves in register r was before.     *)
Was(n, emptied, from, r) ==
  IF r[1] = "in"
  THEN IF filled(n, emptied, r[2], r[3]) THEN <<"out", n, Back(r[3])>> ELSE r
  ELSE IF r[2] = n /\ from[r[3]] # << >> THEN <<"in", n, from[r[3]][1]>> ELSE r

(* What a placed packet knows of the node it is in. *)
LEMMA PlacedIsRouted ==
  ASSUME Topology, NEW r \in Register, NEW pkt, Placed(r, pkt)
  PROVE  LET n == r[2]
             d == Route(n, pkt.to)
         IN  /\ n \in Node /\ Rank(n, pkt.to) \in Nat
             /\ \/ d \in Elem /\ d \notin Dir /\ pkt.to = <<n, d>>
                \/ /\ d \in Dir /\ d \notin Elem /\ Neighbor(n, d) \in Node
                   /\ OnPath(pkt.src, pkt.to, Neighbor(n, d))
                   /\ Rank(Neighbor(n, d), pkt.to) = Rank(n, pkt.to) - 1
                   /\ InPort(pkt.src, pkt.to, Neighbor(n, d)) = Back(d)
<1>1. Routed(pkt.src, pkt.to)
  <2>1. <<pkt.src, pkt.to>> \in Flows
    BY DEF Placed
  <2> QED
    BY <2>1 DEF Topology
<1>2. r[2] \in Node /\ OnPath(pkt.src, pkt.to, r[2])
  BY DEF Register, Placed
<1>3. Rank(r[2], pkt.to) \in Nat
  BY <1>1, <1>2 DEF Routed
<1>4. Elem \cap Dir = {}
  BY DEF Topology, Wired
<1> QED
  BY <1>1, <1>2, <1>3, <1>4 DEF Routed

(* The packet in register r after the clock of n is one that was in a      *)
(* register before, as near to where it goes or one step further.          *)
LEMMA WasHeld ==
  ASSUME TypeOK, PacketsPlaced, Topology, NEW n \in Node,
         NEW emptied, NEW from, Moves(n, emptied, from),
         clocked(n, emptied, from),
         NEW r \in Register, busy(held(r)')
  PROVE  LET w == Was(n, emptied, from, r)
         IN  /\ w \in Register /\ busy(held(w)) /\ held(w) \in Packet
             /\ held(r)' \in Packet /\ SameFlow(held(r)', held(w))
             /\ held(r)'.id = held(w).id
             /\ ~ RestampsTransit => held(r)' = held(w)
             /\ Placed(r, held(r)')
             /\ Distance(w, held(w).to) \in
                  {Distance(r, held(w).to), Distance(r, held(w).to) + 1}
<1> DEFINE w == Was(n, emptied, from, r)
<1>1. PICK m \in Node, p \in Port :
        /\ r \in {<<"in", m, p>>, <<"out", m, p>>}
        /\ r[2] = m /\ r[3] = p
  BY DEF Register
<1>2. WellPlaced /\ time \in [Node -> 0 .. MaxTime]
  BY DEF Topology, Wired, TypeOK
<1>3. CASE r = <<"in", m, p>>
  <2>1. held(r)' = in'[m][p]
    BY <1>3 DEF held
  <2>2. in'[m][p] = IF m = n /\ \E d \in Port : from[d] = <<p>> THEN NoPkt
                    ELSE IF filled(n, emptied, m, p)
                         THEN stamped(m, p, out[n][Back(p)])
                    ELSE in[m][p]
    BY DEF clocked
  <2>3. CASE filled(n, emptied, m, p)
    <3>1. w = <<"out", n, Back(p)>>
      BY <1>1, <1>3, <2>3 DEF Was
    <3>2. p \in Dir /\ Back(p) \in emptied /\ m = Neighbor(n, Back(p))
      BY <2>3 DEF filled
    <3>3. Back(p) \in Port /\ Back(p) \in Dir /\ Back(Back(p)) = p
      BY <3>2 DEF Topology, Wired, Port
    <3>4. busy(out[n][Back(p)]) /\ out[n][Back(p)] \in Packet
      <4>1. busy(out[n][Back(p)])
        BY <3>2 DEF Moves
      <4> QED
        BY <1>2, <3>3, <4>1, HeldPackets
    <3>5. w \in Register /\ held(w) = out[n][Back(p)] /\ w[2] = n
      BY <3>1, <3>3 DEF Register, held
    <3>6. PICK old \in Packet : old = out[n][Back(p)]
      BY <3>4
    <3>7. Placed(w, old) /\ w[1] = "out" /\ w[3] = Back(p)
      BY <3>1, <3>4, <3>5, <3>6 DEF PacketsPlaced
    <3>8. Route(n, old.to) = Back(p)
      BY <3>5, <3>7 DEF Placed
    <3>9. /\ Rank(n, old.to) \in Nat
          /\ OnPath(old.src, old.to, m)
          /\ Rank(m, old.to) = Rank(n, old.to) - 1
          /\ InPort(old.src, old.to, m) = p
      BY <3>2, <3>3, <3>5, <3>7, <3>8, PlacedIsRouted
    <3>10. held(r)' = stamped(m, p, old)
      <4>1. held(r)' # NoPkt
        BY DEF busy
      <4> QED
        BY <2>1, <2>2, <2>3, <3>6, <4>1
    <3>11. /\ stamped(m, p, old) \in Packet
           /\ SameFlow(stamped(m, p, old), old)
           /\ stamped(m, p, old).id = old.id
           /\ ~ RestampsTransit => stamped(m, p, old) = old
      <4>1. p \notin Elem
        BY <3>2 DEF Topology, Wired
      <4>2. time[m] \in 0 .. MaxTime
        BY <1>2
      <4> QED
        BY <4>1, <4>2 DEF stamped, Packet, SameFlow
    <3>12. PICK new \in Packet : new = held(r)'
      BY <3>10, <3>11
    <3>13. new.src = old.src /\ new.to = old.to /\ new.id = old.id
      BY <3>10, <3>11, <3>12 DEF SameFlow
    <3>14. Placed(r, new)
      BY <1>1, <1>3, <3>7, <3>9, <3>13 DEF Placed
    <3>15. Distance(w, old.to) = Distance(r, old.to) + 1
      BY <1>1, <1>3, <3>5, <3>7, <3>9 DEF Distance
    <3> QED
      BY <3>4, <3>5, <3>6, <3>10, <3>11, <3>12, <3>14, <3>15
  <2>4. CASE ~ filled(n, emptied, m, p)
    <3>1. w = r
      BY <1>1, <1>3, <2>4 DEF Was
    <3>2. held(r)' = in[m][p] /\ held(r) = in[m][p]
      BY <1>3, <2>1, <2>2, <2>4 DEF busy, held
    <3>3. held(r) \in Packet /\ busy(held(r))
      BY <1>2, <3>2, HeldPackets
    <3>4. Placed(r, held(r))
      BY <3>3 DEF PacketsPlaced
    <3>5. PICK old \in Packet : old = held(r)
      BY <3>3
    <3> QED
      BY <3>1, <3>2, <3>3, <3>4, <3>5 DEF SameFlow
  <2> QED
    BY <2>3, <2>4
<1>4. CASE r = <<"out", m, p>>
  <2>1. held(r)' = out'[m][p] /\ held(r) = out[m][p]
    BY <1>4 DEF held
  <2>2. out'[m][p] = IF m = n
                     THEN IF from[p] = << >> THEN left(n, emptied, p)
                          ELSE in[n][from[p][1]]
                     ELSE out[m][p]
    BY DEF clocked, TypeOK
  <2>3. CASE m = n /\ from[p] # << >>
    <3>1. PICK q \in Port :
            from[p] = <<q>> /\ busy(in[n][q]) /\ Route(n, in[n][q].to) = p
      BY <2>3 DEF Moves
    <3>2. w = <<"in", n, q>>
      BY <1>1, <1>4, <2>3, <3>1 DEF Was
    <3>3. w \in Register /\ held(w) = in[n][q] /\ w[2] = n /\ w[1] = "in"
      BY <3>2 DEF Register, held
    <3>4. held(r)' = in[n][q]
      BY <2>1, <2>2, <2>3, <3>1
    <3>5. PICK old \in Packet : old = in[n][q]
      BY <1>2, <3>1, HeldPackets
    <3>6. Placed(w, old)
      BY <3>1, <3>3, <3>5 DEF PacketsPlaced
    <3>7. Rank(n, old.to) \in Nat
      BY <3>3, <3>6, PlacedIsRouted
    <3>8. Placed(r, old)
      BY <1>1, <1>4, <2>3, <3>1, <3>3, <3>5, <3>6 DEF Placed
    <3>9. Distance(w, old.to) = Distance(r, old.to) + 1
      BY <1>1, <1>4, <2>3, <3>3, <3>7 DEF Distance
    <3> QED
      BY <3>1, <3>3, <3>4, <3>5, <3>8, <3>9 DEF SameFlow
  <2>4. CASE ~ (m = n /\ from[p] # << >>)
    <3>1. w = r
      BY <1>1, <1>4, <2>4 DEF Was
    <3>2. held(r)' = held(r)
      BY <2>1, <2>2, <2>4 DEF busy, left
    <3>3. held(r) \in Packet /\ busy(held(r))
      BY <1>2, <2>1, <3>2, HeldPackets
    <3>4. Placed(r, held(r))
      BY <3>3 DEF PacketsPlaced
    <3>5. PICK old \in Packet : old = held(r)
      BY <3>3
    <3> QED
      BY <3>1, <3>2, <3>3, <3>4, <3>5 DEF SameFlow
  <2> QED
    BY <2>3, <2>4
<1> QED
  BY <1>1, <1>3, <1>4

(* No packet of before the clock is in two registers after it. *)
LEMMA WasInjective ==
  ASSUME TypeOK, Topology, NEW n \in Node,
         NEW emptied, NEW from, Moves(n, emptied, from),
         clocked(n, emptied, from),
         NEW q \in Register, NEW r \in Register,
         busy(held(q)'), busy(held(r)'),
         Was(n, emptied, from, q) = Was(n, emptied, from, r)
  PROVE  q = r
<1> DEFINE was(x) == Was(n, emptied, from, x)
           Filled(x) ==
             /\ x[1] = "in" /\ was(x) = <<"out", n, Back(x[3])>>
             /\ Back(x[3]) \in emptied /\ Back(Back(x[3])) = x[3]
             /\ x = <<"in", Neighbor(n, Back(x[3])), x[3]>>
           Stays(x) ==
             /\ x[1] = "in" /\ was(x) = x
             /\ ~ (x[2] = n /\ \E d \in Port : from[d] = <<x[3]>>)
           Taken(x, p) ==
             /\ from[x[3]] = <<p>> /\ was(x) = <<"in", n, p>>
             /\ x = <<"out", n, x[3]>> /\ x[3] \in Port
             /\ Route(n, in[n][p].to) = x[3]
           Rests(x) ==
             /\ x[1] = "out" /\ was(x) = x
             /\ ~ (x[2] = n /\ x[3] \in emptied)
<1>1. ASSUME NEW x \in Register, busy(held(x)')
      PROVE  Filled(x) \/ Stays(x) \/ Rests(x) \/ \E p \in Port : Taken(x, p)
  <2>1. PICK m \in Node, p \in Port :
          /\ x \in {<<"in", m, p>>, <<"out", m, p>>}
          /\ x[2] = m /\ x[3] = p
    BY DEF Register
  <2>2. CASE x = <<"in", m, p>>
    <3>1. held(x)' = in'[m][p]
      BY <2>2 DEF held
    <3>2. in'[m][p] = IF m = n /\ \E d \in Port : from[d] = <<p>> THEN NoPkt
                      ELSE IF filled(n, emptied, m, p)
                           THEN stamped(m, p, out[n][Back(p)])
                      ELSE in[m][p]
      BY DEF clocked
    <3>3. ~ (m = n /\ \E d \in Port : from[d] = <<p>>)
      BY <1>1, <3>1, <3>2 DEF busy
    <3>4. CASE filled(n, emptied, m, p)
      <4>1. p \in Dir /\ Back(p) \in emptied /\ m = Neighbor(n, Back(p))
        BY <3>4 DEF filled
      <4>2. Back(Back(p)) = p
        BY <4>1 DEF Topology, Wired
      <4>3. Was(n, emptied, from, x) = <<"out", n, Back(p)>>
        BY <2>1, <2>2, <3>4 DEF Was
      <4> QED
        BY <2>1, <2>2, <3>4, <4>1, <4>2, <4>3
    <3>5. CASE ~ filled(n, emptied, m, p)
      <4>1. Was(n, emptied, from, x) = x
        BY <2>1, <2>2, <3>5 DEF Was
      <4> QED
        BY <2>1, <2>2, <3>3, <4>1
    <3> QED
      BY <3>4, <3>5
  <2>3. CASE x = <<"out", m, p>>
    <3>1. held(x)' = out'[m][p]
      BY <2>3 DEF held
    <3>2. out'[m][p] = IF m = n
                       THEN IF from[p] = << >> THEN left(n, emptied, p)
                            ELSE in[n][from[p][1]]
                       ELSE out[m][p]
      BY DEF clocked, TypeOK
    <3>3. CASE m = n /\ from[p] # << >>
      <4>1. PICK s \in Port : from[p] = <<s>> /\ Route(n, in[n][s].to) = p
        BY <3>3 DEF Moves
      <4>2. Was(n, emptied, from, x) = <<"in", n, s>>
        BY <2>1, <2>3, <3>3, <4>1 DEF Was
      <4>3. Taken(x, s)
        BY <2>1, <2>3, <3>3, <4>1, <4>2
      <4> QED
        BY <4>3
    <3>4. CASE ~ (m = n /\ from[p] # << >>)
      <4>1. Was(n, emptied, from, x) = x
        BY <2>1, <2>3, <3>4 DEF Was
      <4>2. ~ (m = n /\ p \in emptied)
        BY <1>1, <3>1, <3>2, <3>4 DEF left, busy
      <4> QED
        BY <2>1, <2>3, <4>1, <4>2
    <3> QED
      BY <3>3, <3>4
  <2> QED
    BY <2>1, <2>2, <2>3
<1>2. ASSUME NEW x \in Register, NEW y \in Register,
             Filled(x), was(x) = was(y),
             Filled(y) \/ Stays(y) \/ Rests(y) \/ \E p \in Port : Taken(y, p)
      PROVE  x = y
  <2>1. was(x)[1] = "out" /\ was(x)[2] = n /\ was(x)[3] = Back(x[3])
    BY <1>2
  <2>2. Filled(y) \/ Rests(y)
    BY <1>2, <2>1
  <2>3. CASE Rests(y)
    BY <1>2, <2>1, <2>3
  <2>4. CASE Filled(y)
    <3>1. Back(x[3]) = Back(y[3])
      BY <1>2, <2>1, <2>4
    <3> QED
      BY <1>2, <2>4, <3>1
  <2> QED
    BY <2>2, <2>3, <2>4
<1>3. ASSUME NEW x \in Register, NEW y \in Register,
             NEW p \in Port, Taken(x, p), was(x) = was(y),
             Filled(y) \/ Stays(y) \/ Rests(y) \/ \E s \in Port : Taken(y, s)
      PROVE  x = y
  <2>1. was(x)[1] = "in" /\ was(x)[2] = n /\ was(x)[3] = p
    BY <1>3
  <2>2. ~ Filled(y) /\ ~ Rests(y)
    BY <1>3, <2>1
  <2>3. ~ Stays(y)
    BY <1>3, <2>1
  <2>4. PICK s \in Port : Taken(y, s)
    BY <1>3, <2>2, <2>3
  <2>5. s = p
    BY <1>3, <2>1, <2>4
  <2> QED
    BY <1>3, <2>4, <2>5
<1>4. /\ Filled(q) \/ Stays(q) \/ Rests(q) \/ \E p \in Port : Taken(q, p)
      /\ Filled(r) \/ Stays(r) \/ Rests(r) \/ \E p \in Port : Taken(r, p)
  BY <1>1
<1>5. was(q) = was(r)
  OBVIOUS
<1>6. (Stays(q) \/ Rests(q)) /\ (Stays(r) \/ Rests(r)) => q = r
  BY <1>5
<1> HIDE DEF was, Filled, Stays, Rests, Taken
<1> QED
  BY <1>2, <1>3, <1>4, <1>5, <1>6

(* What a clock delivers: to its own local ports, what is addressed to     *)
(* them, when they are free.                                               *)
LEMMA ClockDelivers ==
  ASSUME TypeOK, PacketsPlaced, Topology, NEW n \in Node,
         NEW emptied, NEW from, Moves(n, emptied, from),
         NEW p \in emptied \cap Elem
  PROVE  /\ <<"out", n, p>> \in Register /\ busy(held(<<"out", n, p>>))
         /\ held(<<"out", n, p>>) = out[n][p] /\ out[n][p] \in Packet
         /\ out[n][p].to = <<n, p>>
         /\ <<out[n][p].src, <<n, p>>>> \in Flows
         /\ <<n, p>> \in Endpoint /\ ~ busy(rx[<<n, p>>])
         /\ Distance(<<"out", n, p>>, <<n, p>>) = 0
<1>1. p \in Port /\ busy(out[n][p]) /\ ~ busy(rx[<<n, p>>]) /\ p \in Elem
  BY DEF Moves, accepts, Port
<1>2. /\ <<"out", n, p>> \in Register
      /\ held(<<"out", n, p>>) = out[n][p]
  BY <1>1 DEF Register, held
<1>3. PICK pkt \in Packet : pkt = out[n][p]
  BY <1>1, HeldPackets DEF Topology, Wired
<1>4. Placed(<<"out", n, p>>, pkt)
  BY <1>1, <1>2, <1>3 DEF PacketsPlaced
<1>5. Route(n, pkt.to) = p /\ <<pkt.src, pkt.to>> \in Flows
  BY <1>4 DEF Placed
<1>6. pkt.to = <<n, p>>
  BY <1>1, <1>2, <1>4, <1>5, PlacedIsRouted
<1>7. <<n, p>> \in Endpoint
  BY <1>5, <1>6 DEF Endpoint
<1>8. Routed(pkt.src, pkt.to)
  BY <1>5 DEF Topology
<1>9. Distance(<<"out", n, p>>, <<n, p>>) = 0
  BY <1>6, <1>8 DEF Distance, Routed
<1> QED
  BY <1>1, <1>2, <1>3, <1>5, <1>6, <1>7, <1>9

(* Every packet the clock does not deliver is in a register after it. *)
LEMMA WasOnto ==
  ASSUME TypeOK, PacketsPlaced, Topology, NEW n \in Node,
         NEW emptied, NEW from, Moves(n, emptied, from),
         clocked(n, emptied, from),
         NEW r \in Register, busy(held(r))
  PROVE  \/ \E p \in emptied \cap Elem : r = <<"out", n, p>>
         \/ \E q \in Register :
              busy(held(q)') /\ Was(n, emptied, from, q) = r
<1>1. PICK m \in Node, p \in Port :
        /\ r \in {<<"in", m, p>>, <<"out", m, p>>}
        /\ r[2] = m /\ r[3] = p
  BY DEF Register
<1>2. WellPlaced /\ time \in [Node -> 0 .. MaxTime]
  BY DEF Topology, Wired, TypeOK
<1>3. CASE r = <<"in", m, p>>
  <2>1. held(r) = in[m][p] /\ held(r)' = in'[m][p]
    BY <1>3 DEF held
  <2>2. CASE m = n /\ \E d \in Port : from[d] = <<p>>
    <3>1. PICK d \in Port : from[d] = <<p>>
      BY <2>2
    <3>2. PICK q \in Register : q = <<"out", n, d>>
      BY DEF Register
    <3>3. Was(n, emptied, from, q) = r
      BY <1>3, <2>2, <3>1, <3>2 DEF Was
    <3>4. held(q)' = out'[n][d]
      BY <3>2 DEF held
    <3>5. out'[n][d] = IF from[d] = << >> THEN left(n, emptied, d)
                       ELSE in[n][from[d][1]]
      BY DEF clocked, TypeOK
    <3>6. out'[n][d] = in[n][p]
      BY <3>1, <3>5
    <3> QED
      BY <2>1, <2>2, <3>3, <3>4, <3>6 DEF busy
  <2>3. CASE ~ (m = n /\ \E d \in Port : from[d] = <<p>>)
    <3>1. ~ filled(n, emptied, m, p)
      <4> SUFFICES ASSUME filled(n, emptied, m, p) PROVE FALSE
        OBVIOUS
      <4>1. p \in Dir /\ Back(p) \in emptied /\ m = Neighbor(n, Back(p))
        BY DEF filled
      <4>2. Back(p) \notin Elem /\ Back(Back(p)) = p
        BY <4>1 DEF Topology, Wired
      <4>3. accepts(n, Back(p))
        BY <4>1 DEF Moves
      <4> QED
        BY <2>1, <4>1, <4>2, <4>3 DEF accepts
    <3>2. held(r)' = held(r)
      BY <2>1, <2>3, <3>1 DEF clocked
    <3>3. Was(n, emptied, from, r) = r
      BY <1>1, <1>3, <3>1 DEF Was
    <3> QED
      BY <3>2, <3>3 DEF busy
  <2> QED
    BY <2>2, <2>3
<1>4. CASE r = <<"out", m, p>>
  <2>1. held(r) = out[m][p] /\ held(r)' = out'[m][p]
    BY <1>4 DEF held
  <2>2. CASE m = n /\ p \in emptied /\ p \in Elem
    BY <1>4, <2>2
  <2>3. CASE m = n /\ p \in emptied /\ p \notin Elem
    <3>1. PICK old \in Packet : old = out[n][p]
      BY <1>2, <2>1, <2>3, HeldPackets
    <3>2. Placed(r, old)
      BY <2>1, <2>3, <3>1 DEF PacketsPlaced
    <3>3. p = Route(n, old.to)
      BY <1>1, <1>4, <2>3, <3>2 DEF Placed
    <3>4. p \in Dir /\ Neighbor(n, p) \in Node
      BY <1>1, <2>3, <3>2, <3>3, PlacedIsRouted
    <3>5. Back(p) \in Dir /\ Back(Back(p)) = p /\ Back(p) \in Port
      BY <3>4 DEF Topology, Wired, Port
    <3>6. PICK k \in Node, d \in Port : k = Neighbor(n, p) /\ d = Back(p)
      BY <3>4, <3>5
    <3>7. filled(n, emptied, k, d)
      BY <2>3, <3>5, <3>6 DEF filled
    <3>8. ~ (k = n /\ \E e \in Port : from[e] = <<d>>)
      <4>1. accepts(n, p)
        BY <2>3 DEF Moves
      <4>2. ~ busy(in[k][d])
        BY <2>3, <3>6, <4>1 DEF accepts
      <4> SUFFICES ASSUME k = n, NEW e \in Port, from[e] = <<d>> PROVE FALSE
        OBVIOUS
      <4>3. PICK c \in Port : from[e] = <<c>> /\ busy(in[n][c])
        BY DEF Moves
      <4> QED
        BY <4>2, <4>3
    <3>9. in'[k][d] = stamped(k, d, old)
      BY <3>1, <3>5, <3>6, <3>7, <3>8 DEF clocked
    <3>10. busy(stamped(k, d, old))
      <4>1. stamped(k, d, old) \in Packet
        BY <1>2 DEF stamped, Packet
      <4> QED
        BY <1>2, <4>1 DEF busy, WellPlaced
    <3>11. PICK q \in Register : q = <<"in", k, d>>
      BY DEF Register
    <3>12. Was(n, emptied, from, q) = r
      BY <1>4, <2>3, <3>5, <3>6, <3>7, <3>11 DEF Was
    <3>13. held(q)' = in'[k][d]
      BY <3>11 DEF held
    <3> QED
      BY <3>9, <3>10, <3>12, <3>13
  <2>4. CASE ~ (m = n /\ p \in emptied)
    <3>1. ~ (m = n /\ from[p] # << >>)
      BY <2>1, <2>4 DEF Moves
    <3>2. held(r)' = held(r)
      BY <2>1, <2>4, <3>1 DEF clocked, TypeOK, left
    <3>3. Was(n, emptied, from, r) = r
      BY <1>1, <1>4, <3>1 DEF Was
    <3> QED
      BY <3>2, <3>3 DEF busy
  <2> QED
    BY <2>2, <2>3, <2>4
<1> QED
  BY <1>1, <1>3, <1>4

----------------------------------------------------------------------------
(* Two packets of a flow are not equally far from where they go. *)
LEMMA SamePlace ==
  ASSUME PacketsPlaced, Topology,
         NEW q \in Register, NEW r \in Register, busy(held(q)), busy(held(r)),
         SameFlow(held(q), held(r)),
         Distance(q, held(q).to) = Distance(r, held(q).to)
  PROVE  q = r
<1> DEFINE t == held(q).to
           s == held(q).src
<1>1. Placed(q, held(q)) /\ Placed(r, held(r))
  BY DEF PacketsPlaced
<1>2. held(r).to = t /\ held(r).src = s
  BY DEF SameFlow
<1>3. Routed(s, t)
  BY <1>1 DEF Topology, Placed
<1>4. /\ q[1] \in {"in", "out"} /\ q[2] \in Node /\ q = <<q[1], q[2], q[3]>>
      /\ r[1] \in {"in", "out"} /\ r[2] \in Node /\ r = <<r[1], r[2], r[3]>>
  BY DEF Register
<1>5. Rank(q[2], t) \in Nat /\ Rank(r[2], t) \in Nat
  BY <1>1, <1>2, <1>3, <1>4 DEF Routed, Placed
<1>6. q[1] = r[1] /\ Rank(q[2], t) = Rank(r[2], t)
  BY <1>4, <1>5 DEF Distance
<1>7. q[2] = r[2]
  BY <1>1, <1>2, <1>3, <1>4, <1>6 DEF Routed, Placed
<1>8. q[3] = r[3]
  BY <1>1, <1>2, <1>6, <1>7 DEF Placed
<1> QED
  BY <1>4, <1>6, <1>7, <1>8

(* How far a placed packet has to go is a number. *)
LEMMA DistanceIsNat ==
  ASSUME Topology, NEW r \in Register, NEW pkt, Placed(r, pkt)
  PROVE  Distance(r, pkt.to) \in Nat
<1>1. Rank(r[2], pkt.to) \in Nat
  BY PlacedIsRouted
<1> QED
  BY <1>1 DEF Distance

(* A packet of a flow is known by its number. *)
LEMMA SameId ==
  ASSUME TypeOK, PacketsPlaced, Ordered, Topology,
         NEW q \in Register, NEW r \in Register, busy(held(q)), busy(held(r)),
         SameFlow(held(q), held(r)), held(q).id = held(r).id
  PROVE  q = r
<1>1. Placed(q, held(q)) /\ Placed(r, held(r)) /\ held(r).to = held(q).to
  BY DEF PacketsPlaced, SameFlow
<1>2. /\ Distance(q, held(q).to) \in Nat
      /\ Distance(r, held(q).to) \in Nat
  BY <1>1, DistanceIsNat
<1>3. held(q).id \in Nat
  <2>1. held(q) \in Packet
    BY HeldPackets DEF Register, held, Topology, Wired
  <2> QED
    BY <2>1 DEF Packet
<1>4. ~ (Distance(q, held(q).to) < Distance(r, held(q).to))
  BY <1>1, <1>3 DEF Ordered
<1>5. ~ (Distance(r, held(q).to) < Distance(q, held(q).to))
  <2>1. SameFlow(held(r), held(q))
    BY DEF SameFlow
  <2> QED
    BY <1>1, <1>3, <2>1 DEF Ordered
<1> QED
  BY <1>2, <1>4, <1>5, SamePlace

(* Endpoints are local ports of nodes, and flows are between endpoints. *)
LEMMA EndpointsAreLocal ==
  ASSUME WellPlaced
  PROVE  /\ \A e \in Endpoint : /\ e[1] \in Node /\ e[2] \in Elem
                                /\ e[2] \in Port /\ e = <<e[1], e[2]>>
         /\ \A f \in Flows : /\ f[1] \in Endpoint /\ f[2] \in Endpoint
                             /\ f = <<f[1], f[2]>>
<1>1. \A f \in Flows : /\ f[1] \in Node \X Elem /\ f[2] \in Node \X Elem
                       /\ f = <<f[1], f[2]>>
  BY DEF WellPlaced
<1>2. \A e \in Endpoint : e \in Node \X Elem
  BY <1>1 DEF Endpoint
<1>3. \A f \in Flows : f[1] \in Endpoint /\ f[2] \in Endpoint
  BY DEF Endpoint
<1> QED
  BY <1>1, <1>2, <1>3 DEF Port

(* A clock keeps the invariant. *)
LEMMA ClockKeeps ==
  ASSUME MeshInv, Topology, NEW n \in Node,
         NEW emptied, NEW from, Moves(n, emptied, from),
         clocked(n, emptied, from)
  PROVE  MeshInv'
<1> USE DEF MeshInv
<1>1. \A r \in Register : busy(held(r)') =>
        LET w == Was(n, emptied, from, r)
        IN  /\ w \in Register /\ busy(held(w)) /\ held(w) \in Packet
            /\ held(r)' \in Packet /\ SameFlow(held(r)', held(w))
            /\ held(r)'.id = held(w).id
            /\ Placed(r, held(r)')
            /\ Distance(w, held(w).to) \in
                 {Distance(r, held(w).to), Distance(r, held(w).to) + 1}
  BY WasHeld
<1>2. TypeOK'
  <2>1. time' \in [Node -> 0 .. MaxTime]
    <3>1. /\ time' = [time EXCEPT ![n] = IF @ < MaxTime THEN @ + 1 ELSE @]
          /\ MaxTime \in Nat /\ time \in [Node -> 0 .. MaxTime]
      BY DEF clocked, Topology, Wired, WellPlaced, TypeOK
    <3> QED
      BY <3>1
  <2>2. count' \in [Endpoint -> Nat]
    BY DEF clocked, TypeOK
  <2>3. \A m \in Node, p \in Port :
          /\ <<"in", m, p>> \in Register /\ <<"out", m, p>> \in Register
          /\ held(<<"in", m, p>>)' = in'[m][p]
          /\ held(<<"out", m, p>>)' = out'[m][p]
    BY DEF Register, held
  <2>4. \A m \in Node, p \in Port :
          in'[m][p] \in Packet \cup {NoPkt} /\ out'[m][p] \in Packet \cup {NoPkt}
    BY <1>1, <2>3 DEF busy
  <2>5. in' \in [Node -> [Port -> Packet \cup {NoPkt}]]
    <3>1. in' = [m \in Node |-> [p \in Port |-> in'[m][p]]]
      BY DEF clocked
    <3> QED
      BY <2>4, <3>1
  <2>6. out' \in [Node -> [Port -> Packet \cup {NoPkt}]]
    <3>1. \A m \in Node : out'[m] = [p \in Port |-> out'[m][p]]
      BY DEF clocked, TypeOK
    <3>2. out' = [m \in Node |-> out'[m]]
      BY DEF clocked, TypeOK
    <3>3. \A m \in Node : out'[m] \in [Port -> Packet \cup {NoPkt}]
      BY <2>4, <3>1
    <3> QED
      BY <3>2, <3>3
  <2>7. rx' \in [Endpoint -> Packet \cup {NoPkt}]
    <3>1. \A e \in Endpoint : out[e[1]][e[2]] \in Packet \cup {NoPkt}
      BY EndpointsAreLocal DEF TypeOK, Topology, Wired
    <3>2. \A e \in Endpoint : rx[e] \in Packet \cup {NoPkt}
      BY DEF TypeOK
    <3> QED
      BY <3>1, <3>2 DEF clocked
  <2> QED
    BY <2>1, <2>2, <2>5, <2>6, <2>7 DEF TypeOK
<1>3. PacketsPlaced'
  <2>1. ASSUME NEW r \in Register, busy(held(r)')
        PROVE  Placed(r, held(r))'
    <3>1. Placed(r, held(r)') /\ count' = count
      BY <1>1, <2>1 DEF clocked
    <3> QED
      BY <3>1 DEF Placed
  <2> QED
    BY <2>1 DEF PacketsPlaced
<1>4. Ordered'
  <2>1. ASSUME NEW q \in Register, NEW r \in Register,
               busy(held(q)'), busy(held(r)'),
               SameFlow(held(q)', held(r)'),
               Distance(q, held(q)'.to) < Distance(r, held(q)'.to)
        PROVE  held(q)'.id < held(r)'.id
    <3>1. PICK v \in Register : v = Was(n, emptied, from, q)
      BY <1>1, <2>1
    <3>2. PICK w \in Register : w = Was(n, emptied, from, r)
      BY <1>1, <2>1
    <3>3. /\ busy(held(v)) /\ SameFlow(held(q)', held(v))
          /\ held(q)'.id = held(v).id /\ Placed(q, held(q)')
          /\ Distance(v, held(v).to) \in
               {Distance(q, held(v).to), Distance(q, held(v).to) + 1}
      BY <1>1, <2>1, <3>1
    <3>4. /\ busy(held(w)) /\ SameFlow(held(r)', held(w))
          /\ held(r)'.id = held(w).id /\ Placed(r, held(r)')
          /\ Distance(w, held(w).to) \in
               {Distance(r, held(w).to), Distance(r, held(w).to) + 1}
      BY <1>1, <2>1, <3>2
    <3>5. /\ SameFlow(held(v), held(w)) /\ held(v).to = held(w).to
          /\ held(v).to = held(q)'.to /\ held(w).to = held(r)'.to
      BY <2>1, <3>3, <3>4 DEF SameFlow
    <3>6. PICK t : t = held(v).to
      OBVIOUS
    <3>7. Distance(q, t) \in Nat /\ Distance(r, t) \in Nat
      BY <3>3, <3>4, <3>5, <3>6, DistanceIsNat
    <3>8. Distance(v, t) <= Distance(w, t)
      BY <2>1, <3>3, <3>4, <3>5, <3>6, <3>7
    <3>9. v # w
      BY <2>1, <3>1, <3>2, <3>5, <3>6, <3>7, WasInjective
    <3>10. Distance(v, t) # Distance(w, t)
      BY <3>3, <3>4, <3>5, <3>6, <3>9, SamePlace
    <3>11. Distance(v, t) < Distance(w, t)
      BY <3>3, <3>4, <3>5, <3>6, <3>7, <3>8, <3>10
    <3>12. held(v).id < held(w).id
      BY <3>3, <3>4, <3>5, <3>6, <3>11 DEF Ordered
    <3> QED
      BY <3>3, <3>4, <3>12
  <2> QED
    BY <2>1 DEF Ordered, Distance, SameFlow
<1>5. Received'
  <2>1. ASSUME NEW e \in Endpoint, busy(rx'[e])
        PROVE  rx'[e].to = e /\ <<rx'[e].src, e>> \in Flows
    <3>1. rx'[e] = IF e[1] = n /\ e[2] \in emptied THEN out[n][e[2]] ELSE rx[e]
      BY DEF clocked
    <3>2. CASE e[1] = n /\ e[2] \in emptied
      <4>1. e = <<n, e[2]>> /\ e[2] \in emptied \cap Elem
        BY <3>2, EndpointsAreLocal DEF Topology, Wired
      <4>2. PICK p \in emptied \cap Elem : p = e[2] /\ e = <<n, p>>
        BY <4>1
      <4>3. out[n][p].to = <<n, p>> /\ <<out[n][p].src, <<n, p>>>> \in Flows
        BY ClockDelivers
      <4> QED
        BY <3>1, <3>2, <4>2, <4>3
    <3>3. CASE ~ (e[1] = n /\ e[2] \in emptied)
      BY <2>1, <3>1, <3>3 DEF Received
    <3> QED
      BY <3>2, <3>3
  <2> QED
    BY <2>1 DEF Received
<1> QED
  BY <1>2, <1>3, <1>4, <1>5

----------------------------------------------------------------------------
(* What Network is told is in flight, and of the endpoints. *)
Flight == {Shown(p) : p \in InFlight}
ShownRx == [e \in Endpoint |-> Shown(rx[e])]

(* What is in flight is what the registers hold. *)
LEMMA InFlightIsHeld ==
  InFlight = {held(r) : r \in {x \in Register : busy(held(x))}}
<1>1. \A x \in Node \X Port :
        /\ <<"in", x[1], x[2]>> \in Register
        /\ held(<<"in", x[1], x[2]>>) = in[x[1]][x[2]]
        /\ <<"out", x[1], x[2]>> \in Register
        /\ held(<<"out", x[1], x[2]>>) = out[x[1]][x[2]]
  BY DEF Register, held
<1>2. InFlight \subseteq {held(r) : r \in {x \in Register : busy(held(x))}}
  BY <1>1 DEF InFlight, busy
<1>3. \A r \in Register : busy(held(r)) =>
        \E x \in Node \X Port :
          held(r) \in {in[x[1]][x[2]], out[x[1]][x[2]]} \ {NoPkt}
  <2> SUFFICES ASSUME NEW r \in Register, busy(held(r))
               PROVE  \E x \in Node \X Port :
                        held(r) \in {in[x[1]][x[2]], out[x[1]][x[2]]} \ {NoPkt}
    OBVIOUS
  <2>1. <<r[2], r[3]>> \in Node \X Port
    BY DEF Register
  <2>2. held(r) \in {in[r[2]][r[3]], out[r[2]][r[3]]} \ {NoPkt}
    BY DEF held, busy
  <2> QED
    BY <2>1, <2>2
<1>4. {held(r) : r \in {x \in Register : busy(held(x))}} \subseteq InFlight
  BY <1>3 DEF InFlight
<1> QED
  BY <1>2, <1>4

(* And so is what the network shows of it. *)
LEMMA FlightIsHeld ==
  Flight = {Shown(held(r)) : r \in {x \in Register : busy(held(x))}}
BY InFlightIsHeld DEF Flight

(* What the network shows of a packet tells its flow and its number. *)
LEMMA ShownPacket ==
  ASSUME WellPlaced, NEW p \in Packet
  PROVE  /\ p # NoPkt /\ Shown(p) # NoPkt
         /\ Shown(p) = [src |-> p.src, to |-> p.to, id |-> p.id]
         /\ Shown(p).src = p.src /\ Shown(p).to = p.to /\ Shown(p).id = p.id
         /\ p.src \in Endpoint /\ p.to \in Endpoint /\ p.id \in Nat
<1>1. p # NoPkt /\ p.src \in Endpoint /\ p.to \in Endpoint /\ p.id \in Nat
  BY DEF WellPlaced, Packet
<1>2. Shown(p) = [src |-> p.src, to |-> p.to, id |-> p.id]
  BY <1>1 DEF Shown
<1>3. Shown(p) \in [src : Endpoint, to : Endpoint, id : Nat]
  BY <1>1, <1>2
<1> QED
  BY <1>1, <1>2, <1>3 DEF WellPlaced

(* Busy registers hold packets. *)
LEMMA HeldIsPacket ==
  ASSUME TypeOK, Topology, NEW r \in Register, busy(held(r))
  PROVE  held(r) \in Packet
BY HeldPackets DEF Register, held, Topology, Wired

(* No register holds after a clock what the clock delivers. *)
LEMMA WasNotDelivered ==
  ASSUME TypeOK, Topology, NEW n \in Node,
         NEW emptied, NEW from, Moves(n, emptied, from),
         clocked(n, emptied, from),
         NEW r \in Register, busy(held(r)'), NEW p \in emptied \cap Elem
  PROVE  Was(n, emptied, from, r) # <<"out", n, p>>
<1>1. PICK m \in Node, d \in Port :
        /\ r \in {<<"in", m, d>>, <<"out", m, d>>}
        /\ r[2] = m /\ r[3] = d
  BY DEF Register
<1> SUFFICES ASSUME Was(n, emptied, from, r) = <<"out", n, p>> PROVE FALSE
  OBVIOUS
<1>2. CASE r = <<"in", m, d>>
  <2>1. filled(n, emptied, m, d) /\ Back(d) = p
    BY <1>1, <1>2 DEF Was
  <2>2. p \in Dir
    BY <2>1 DEF filled, Topology, Wired
  <2> QED
    BY <2>2 DEF Topology, Wired
<1>3. CASE r = <<"out", m, d>>
  <2>1. m = n /\ d = p /\ from[p] = << >>
    BY <1>1, <1>3 DEF Was
  <2>2. held(r)' = out'[n][p] /\ p \in Port
    BY <1>3, <2>1 DEF held
  <2>3. out'[n][p] = NoPkt
    BY <2>1, <2>2 DEF clocked, left, TypeOK
  <2> QED
    BY <2>2, <2>3 DEF busy
<1> QED
  BY <1>1, <1>2, <1>3

(* What a clock takes out of flight. *)
LEMMA ClockFlight ==
  ASSUME MeshInv, Topology, NEW n \in Node,
         NEW emptied, NEW from, Moves(n, emptied, from),
         clocked(n, emptied, from)
  PROVE  /\ Flight' \subseteq Flight
         /\ Flight \ Flight' = {Shown(out[n][p]) : p \in emptied \cap Elem}
<1> USE DEF MeshInv
<1>1. Flight = {Shown(held(r)) : r \in {x \in Register : busy(held(x))}}
  BY FlightIsHeld
<1>2. Flight' = {Shown(held(r)') : r \in {x \in Register : busy(held(x)')}}
  <2>1. (Flight = {Shown(held(r)) : r \in {x \in Register : busy(held(x))}})'
    BY FlightIsHeld, PTL
  <2> QED
    BY <2>1
<1>3. WellPlaced
  BY DEF Topology, Wired
<1>4. ASSUME NEW r \in Register, busy(held(r)')
      PROVE  \E w \in Register :
               /\ w = Was(n, emptied, from, r)
               /\ busy(held(w)) /\ Shown(held(r)') = Shown(held(w))
  <2>1. PICK w \in Register :
          /\ w = Was(n, emptied, from, r)
          /\ busy(held(w)) /\ held(w) \in Packet
          /\ held(r)' \in Packet /\ SameFlow(held(r)', held(w))
          /\ held(r)'.id = held(w).id
    BY <1>4, WasHeld
  <2>2. Shown(held(r)') = Shown(held(w))
    BY <1>3, <2>1, ShownPacket DEF SameFlow
  <2> QED
    BY <2>1, <2>2
<1>5. Flight' \subseteq Flight
  BY <1>1, <1>2, <1>4
<1>6. ASSUME NEW p \in emptied \cap Elem
      PROVE  Shown(out[n][p]) \in Flight /\ Shown(out[n][p]) \notin Flight'
  <2>1. PICK x \in Register :
          /\ x = <<"out", n, p>> /\ busy(held(x)) /\ held(x) = out[n][p]
    BY ClockDelivers
  <2>2. Shown(out[n][p]) \in Flight
    BY <1>1, <2>1
  <2>3. ASSUME NEW r \in Register, busy(held(r)'),
               Shown(held(r)') = Shown(held(x))
        PROVE  FALSE
    <3>1. PICK w \in Register :
            /\ w = Was(n, emptied, from, r)
            /\ busy(held(w)) /\ Shown(held(r)') = Shown(held(w))
      BY <1>4, <2>3
    <3>2. held(w) \in Packet /\ held(x) \in Packet
      BY <2>1, <3>1, HeldIsPacket
    <3>3. SameFlow(held(w), held(x)) /\ held(w).id = held(x).id
      <4>1. Shown(held(w)) = Shown(held(x))
        BY <2>3, <3>1
      <4>2. PICK a \in Packet, b \in Packet : a = held(w) /\ b = held(x)
        BY <3>2
      <4>3. a.src = b.src /\ a.to = b.to /\ a.id = b.id
        BY <1>3, <4>1, <4>2, ShownPacket
      <4> QED
        BY <4>2, <4>3 DEF SameFlow
    <3>4. w = x
      BY <2>1, <3>1, <3>3, SameId
    <3> QED
      BY <2>1, <2>3, <3>1, <3>4, WasNotDelivered
  <2> QED
    BY <1>2, <2>1, <2>2, <2>3
<1>7. ASSUME NEW r \in Register, busy(held(r)), Shown(held(r)) \notin Flight'
      PROVE  \E p \in emptied \cap Elem : Shown(held(r)) = Shown(out[n][p])
  <2>1. ASSUME NEW q \in Register, busy(held(q)'),
               Was(n, emptied, from, q) = r
        PROVE  FALSE
    <3>1. Shown(held(q)') = Shown(held(r))
      BY <1>4, <2>1
    <3> QED
      BY <1>2, <1>7, <2>1, <3>1
  <2>2. PICK p \in emptied \cap Elem : r = <<"out", n, p>>
    BY <1>7, <2>1, WasOnto
  <2>3. held(r) = out[n][p]
    BY <2>2 DEF held
  <2> QED
    BY <2>3
<1> QED
  BY <1>1, <1>5, <1>6, <1>7

(* A clock delivers as Network does, or delivers nothing. *)
LEMMA ClockImplements ==
  ASSUME MeshInv, Topology, NEW n \in Node,
         NEW emptied, NEW from, Moves(n, emptied, from),
         clocked(n, emptied, from)
  PROVE  Promised!Deliver \/ UNCHANGED <<Flight, ShownRx, count>>
<1> USE DEF MeshInv
<1> DEFINE P == Flight \ Flight'
<1>1. WellPlaced
  BY DEF Topology, Wired
<1>2. /\ Flight' \subseteq Flight
      /\ P = {Shown(out[n][p]) : p \in emptied \cap Elem}
  BY ClockFlight
<1>3. \A p \in emptied \cap Elem :
        /\ out[n][p] \in Packet /\ out[n][p].to = <<n, p>>
        /\ <<n, p>> \in Endpoint /\ ~ busy(rx[<<n, p>>])
        /\ Shown(out[n][p]) # NoPkt /\ Shown(out[n][p]).to = <<n, p>>
  BY <1>1, ClockDelivers, ShownPacket
<1>4. \A e \in Endpoint :
        rx'[e] = IF e[1] = n /\ e[2] \in emptied THEN out[n][e[2]] ELSE rx[e]
  BY DEF clocked
<1>5. count' = count
  BY DEF clocked
<1>6. ShownRx' = [e \in Endpoint |-> Shown(rx'[e])]
  BY DEF ShownRx
<1>7. CASE emptied \cap Elem = {}
  <2>1. Flight' = Flight
    BY <1>2, <1>7
  <2>2. \A e \in Endpoint : rx'[e] = rx[e]
    BY <1>1, <1>4, <1>7, EndpointsAreLocal
  <2>3. ShownRx' = ShownRx
    BY <1>6, <2>2 DEF ShownRx
  <2> QED
    BY <1>5, <2>1, <2>3
<1>8. CASE emptied \cap Elem # {}
  <2>1. P # {}
    BY <1>2, <1>8
  <2>2. \A p \in P : Promised!deliverable(p, Flight)
    <3>1. SUFFICES ASSUME NEW p \in emptied \cap Elem
                   PROVE  Promised!deliverable(Shown(out[n][p]), Flight)
      BY <1>2
    <3>2. PICK x \in Register :
            /\ x = <<"out", n, p>> /\ busy(held(x)) /\ held(x) = out[n][p]
            /\ held(x) \in Packet /\ Distance(x, <<n, p>>) = 0
            /\ held(x).to = <<n, p>>
      BY ClockDelivers
    <3>3. ShownRx[<<n, p>>] = NoPkt
      BY <1>3 DEF ShownRx, Shown, busy
    <3>4. ASSUME NEW r \in Register, busy(held(r)), SameFlow(held(r), held(x))
          PROVE  held(x).id <= held(r).id
      <4>1. held(r) \in Packet /\ held(x).id \in Nat /\ held(r).id \in Nat
        BY <1>1, <3>2, <3>4, HeldIsPacket, ShownPacket
      <4>2. held(r).to = <<n, p>> /\ SameFlow(held(x), held(r))
        BY <3>2, <3>4 DEF SameFlow
      <4>3. Distance(r, <<n, p>>) \in Nat
        BY <3>4, <4>2, DistanceIsNat DEF PacketsPlaced
      <4>4. CASE Distance(r, <<n, p>>) = 0
        <5>1. r = x
          BY <3>2, <3>4, <4>2, <4>4, SamePlace
        <5> QED
          BY <4>1, <5>1
      <4>5. CASE Distance(r, <<n, p>>) > 0
        <5>1. held(x).id < held(r).id
          BY <3>2, <3>4, <4>2, <4>5 DEF Ordered
        <5> QED
          BY <4>1, <5>1
      <4> QED
        BY <4>3, <4>4, <4>5
    <3>5. ASSUME NEW f \in Flight, f.src = Shown(held(x)).src,
                 f.to = Shown(held(x)).to
          PROVE  Shown(held(x)).id <= f.id
      <4>1. PICK r \in Register : busy(held(r)) /\ f = Shown(held(r))
        BY FlightIsHeld
      <4>2. held(r) \in Packet
        BY <4>1, HeldIsPacket
      <4>3. SameFlow(held(r), held(x)) /\ f.id = held(r).id
            /\ Shown(held(x)).id = held(x).id
        BY <1>1, <3>2, <3>5, <4>1, <4>2, ShownPacket DEF SameFlow
      <4> QED
        BY <3>4, <4>1, <4>3
    <3>6. Shown(out[n][p]).to = <<n, p>>
      BY <1>3
    <3> QED
      BY <3>2, <3>3, <3>5, <3>6 DEF Promised!deliverable, ShownRx
  <2>3. \A p, q \in P : p.to = q.to => p = q
    <3> SUFFICES ASSUME NEW p \in P, NEW q \in P, p.to = q.to PROVE p = q
      OBVIOUS
    <3>1. PICK i \in emptied \cap Elem : p = Shown(out[n][i])
      BY <1>2
    <3>2. PICK j \in emptied \cap Elem : q = Shown(out[n][j])
      BY <1>2
    <3>3. <<n, i>> = <<n, j>>
      BY <1>3, <3>1, <3>2
    <3> QED
      BY <3>1, <3>2, <3>3
  <2>4. ShownRx' = [e \in Endpoint |->
                      IF \E p \in P : p.to = e THEN CHOOSE p \in P : p.to = e
                      ELSE ShownRx[e]]
    <3>1. ASSUME NEW e \in Endpoint
          PROVE  Shown(rx'[e]) = IF \E p \in P : p.to = e
                                 THEN CHOOSE p \in P : p.to = e
                                 ELSE ShownRx[e]
      <4>1. e = <<e[1], e[2]>> /\ e[2] \in Elem
        BY <1>1, EndpointsAreLocal
      <4>2. CASE e[1] = n /\ e[2] \in emptied
        <5>1. Shown(out[n][e[2]]) \in P /\ Shown(out[n][e[2]]).to = e
          BY <1>2, <1>3, <4>1, <4>2
        <5>2. (CHOOSE p \in P : p.to = e) = Shown(out[n][e[2]])
          BY <2>3, <5>1
        <5> QED
          BY <1>4, <4>2, <5>1, <5>2
      <4>3. CASE ~ (e[1] = n /\ e[2] \in emptied)
        <5>1. ASSUME NEW p \in P PROVE p.to # e
          <6>1. PICK i \in emptied \cap Elem : p = Shown(out[n][i])
            BY <1>2
          <6>2. p.to = <<n, i>>
            BY <1>3, <6>1
          <6> QED
            BY <4>3, <6>2
        <5>2. rx'[e] = rx[e]
          BY <1>4, <4>3
        <5> QED
          BY <5>1, <5>2 DEF ShownRx
      <4> QED
        BY <4>2, <4>3
    <3> HIDE DEF P
    <3> QED
      BY <1>6, <3>1
  <2>5. Promised!Deliver
    <3>1. Promised!Endpoint = Endpoint
      BY DEF Promised!Endpoint, Endpoint
    <3> QED
      BY <1>2, <1>5, <2>1, <2>2, <2>3, <2>4, <3>1
         DEF Promised!Deliver, Flight, ShownRx
  <2> QED
    BY <2>5
<1> QED
  BY <1>7, <1>8

----------------------------------------------------------------------------
(* What Inject and simple_mem_clock have in common: s hands a packet to t  *)
(* over to its node.                                                       *)
Entered(s, t) ==
  /\ ~ busy(in[s[1]][s[2]])
  /\ in' = [in EXCEPT ![s[1]][s[2]] =
       stamped(s[1], s[2],
               [src |-> s, to |-> t, id |-> count[s], stamp |-> 0])]
  /\ count' = [count EXCEPT ![s] = @ + 1]
  /\ out' = out /\ time' = time

(* The register it enters is the first of its path, and its number is      *)
(* greater than those of the packets ahead of it.                          *)
LEMMA EnteredHeld ==
  ASSUME MeshInv, Topology, NEW s, NEW t, <<s, t>> \in Flows, Entered(s, t)
  PROVE  \E first \in Register, pkt \in Packet :
           /\ first = <<"in", s[1], s[2]>> /\ ~ busy(held(first))
           /\ held(first)' = pkt /\ busy(held(first)') /\ s \in Endpoint
           /\ pkt.src = s /\ pkt.to = t /\ pkt.id = count[s]
           /\ Placed(first, pkt)' /\ count[s] \in Nat
           /\ \A r \in Register : r # first => held(r)' = held(r)
<1> USE DEF MeshInv
<1>1. WellPlaced /\ Routed(s, t)
  BY DEF Topology, Wired
<1>2. s \in Endpoint /\ t \in Endpoint
  BY DEF Endpoint
<1>3. s[1] \in Node /\ s[2] \in Port /\ s[2] \in Elem
  BY <1>1, <1>2, EndpointsAreLocal
<1>4. PICK m \in Node, p \in Port : m = s[1] /\ p = s[2]
  BY <1>3
<1>5. PICK first \in Register : first = <<"in", m, p>>
  BY DEF Register
<1>6. ~ busy(held(first))
  BY <1>4, <1>5 DEF Entered, held
<1>7. count[s] \in Nat /\ time[m] \in 0 .. MaxTime
  BY <1>2 DEF TypeOK
<1>8. PICK pkt \in Packet :
        /\ pkt = stamped(m, p, [src |-> s, to |-> t, id |-> count[s],
                                stamp |-> 0])
        /\ pkt.src = s /\ pkt.to = t /\ pkt.id = count[s]
  <2>1. p \in Elem
    BY <1>3, <1>4
  <2>2. stamped(m, p, [src |-> s, to |-> t, id |-> count[s], stamp |-> 0])
          = [src |-> s, to |-> t, id |-> count[s], stamp |-> time[m]]
    BY <2>1 DEF stamped
  <2>3. [src |-> s, to |-> t, id |-> count[s], stamp |-> time[m]] \in Packet
    BY <1>2, <1>7 DEF Packet
  <2> QED
    BY <2>2, <2>3
<1>9. in' = [in EXCEPT ![m][p] = pkt]
  BY <1>4, <1>8 DEF Entered
<1>10. in'[m][p] = pkt
  BY <1>9 DEF TypeOK
<1>11. held(first)' = pkt
  BY <1>5, <1>10 DEF held
<1>12. busy(held(first)')
  BY <1>1, <1>11 DEF busy, WellPlaced
<1>13. ASSUME NEW r \in Register, r # first
       PROVE  held(r)' = held(r)
  <2>1. PICK k \in Node, d \in Port :
          /\ r \in {<<"in", k, d>>, <<"out", k, d>>}
          /\ r[2] = k /\ r[3] = d
    BY DEF Register
  <2>2. CASE r = <<"out", k, d>>
    BY <2>2 DEF held, Entered
  <2>3. CASE r = <<"in", k, d>>
    <3>1. k # m \/ d # p
      BY <1>5, <1>13, <2>3
    <3>2. in'[k][d] = in[k][d]
      BY <1>9, <3>1 DEF TypeOK
    <3> QED
      BY <2>3, <3>2 DEF held
  <2> QED
    BY <2>1, <2>2, <2>3
<1>14. Placed(first, pkt)'
  <2>1. count'[s] = count[s] + 1
    BY <1>2 DEF Entered, TypeOK
  <2>2. pkt.id < count'[pkt.src]
    BY <1>7, <1>8, <2>1
  <2>3. /\ <<pkt.src, pkt.to>> \in Flows
        /\ OnPath(pkt.src, pkt.to, m) /\ p = InPort(pkt.src, pkt.to, m)
    BY <1>1, <1>4, <1>8 DEF Routed
  <2>4. first[1] = "in" /\ first[2] = m /\ first[3] = p
    BY <1>5
  <2> QED
    BY <2>2, <2>3, <2>4 DEF Placed
<1> QED
  BY <1>2, <1>4, <1>5, <1>6, <1>7, <1>8, <1>11, <1>12, <1>13, <1>14

(* So it keeps the invariant and adds one packet to what is in flight. *)
LEMMA EnteredKeeps ==
  ASSUME MeshInv, Topology, NEW s, NEW t, <<s, t>> \in Flows, Entered(s, t),
         rx' \in [Endpoint -> Packet \cup {NoPkt}]
  PROVE  /\ TypeOK' /\ PacketsPlaced' /\ Ordered'
         /\ Flight' = Flight \cup {[src |-> s, to |-> t, id |-> count[s]]}
<1> USE DEF MeshInv
<1>1. PICK first \in Register, pkt \in Packet :
        /\ first = <<"in", s[1], s[2]>> /\ ~ busy(held(first))
        /\ held(first)' = pkt /\ busy(held(first)') /\ s \in Endpoint
        /\ pkt.src = s /\ pkt.to = t /\ pkt.id = count[s]
        /\ Placed(first, pkt)' /\ count[s] \in Nat
        /\ \A r \in Register : r # first => held(r)' = held(r)
  BY EnteredHeld
<1>2. WellPlaced /\ Routed(s, t)
  BY DEF Topology, Wired
<1>3. \A r \in Register : r # first /\ busy(held(r)') =>
        held(r)' = held(r) /\ busy(held(r)) /\ held(r) \in Packet
  BY <1>1, HeldIsPacket
<1>4. /\ count' = [count EXCEPT ![s] = @ + 1]
      /\ count \in [Endpoint -> Nat]
      /\ \A e \in Endpoint : count[e] <= count'[e]
  BY <1>1 DEF Entered, TypeOK
<1>5. TypeOK'
  <2>1. in' \in [Node -> [Port -> Packet \cup {NoPkt}]]
    <3>1. s[1] \in Node /\ s[2] \in Port
      BY <1>1, <1>2, EndpointsAreLocal
    <3>2. in'[s[1]][s[2]] = pkt
      BY <1>1 DEF held
    <3>3. PICK m \in Node, p \in Port : m = s[1] /\ p = s[2]
      BY <3>1
    <3>4. PICK x : in' = [in EXCEPT ![m][p] = x]
      BY <3>3 DEF Entered
    <3>5. x = pkt
      BY <3>2, <3>3, <3>4 DEF TypeOK
    <3> QED
      BY <3>4, <3>5 DEF TypeOK
  <2>2. count' \in [Endpoint -> Nat]
    BY <1>1, <1>4
  <2>3. /\ out' \in [Node -> [Port -> Packet \cup {NoPkt}]]
        /\ time' \in [Node -> 0 .. MaxTime]
    BY DEF TypeOK, Entered
  <2> QED
    BY <2>1, <2>2, <2>3 DEF TypeOK
<1>6. \A r \in Register : busy(held(r)') => Placed(r, held(r))'
  <2>1. ASSUME NEW r \in Register, r # first, busy(held(r)')
        PROVE  Placed(r, held(r))'
    <3>1. Placed(r, held(r)) /\ held(r) \in Packet /\ held(r)' = held(r)
      BY <1>3, <2>1 DEF PacketsPlaced
    <3>2. PICK old \in Packet : old = held(r) /\ old = held(r)'
      BY <3>1
    <3>3. old.src \in Endpoint /\ old.id \in Nat
      BY DEF Packet
    <3>4. old.id < count[old.src]
      BY <3>1, <3>2 DEF Placed
    <3>5. old.id < count'[old.src]
      <4>1. /\ count[old.src] \in Nat /\ count'[old.src] \in Nat
            /\ count[old.src] <= count'[old.src]
        BY <1>4, <3>3
      <4> QED
        BY <3>3, <3>4, <4>1
    <3>6. Placed(r, old)'
      BY <3>1, <3>2, <3>5 DEF Placed
    <3> QED
      BY <3>2, <3>6
  <2>2. Placed(first, held(first))'
    BY <1>1
  <2> QED
    BY <2>1, <2>2
<1>7. PacketsPlaced'
  BY <1>6 DEF PacketsPlaced
<1>8. \A r \in Register :
        /\ r # first /\ busy(held(r)') /\ SameFlow(held(r), pkt)
        => /\ held(r).id < pkt.id
           /\ Distance(r, t) <= Distance(first, t)
  <2> SUFFICES ASSUME NEW r \in Register, r # first, busy(held(r)'),
                      SameFlow(held(r), pkt)
               PROVE  /\ held(r).id < pkt.id
                      /\ Distance(r, t) <= Distance(first, t)
    OBVIOUS
  <2>1. busy(held(r)) /\ Placed(r, held(r))
    BY <1>3 DEF PacketsPlaced
  <2>2. held(r).src = s /\ held(r).to = t
    BY <1>1 DEF SameFlow
  <2>3. held(r).id < pkt.id /\ OnPath(s, t, r[2])
    BY <1>1, <2>1, <2>2 DEF Placed
  <2>4. r[2] \in Node /\ r[1] \in {"in", "out"}
    BY DEF Register
  <2>5. Rank(r[2], t) \in 0 .. Rank(s[1], t)
    BY <1>2, <2>3, <2>4 DEF Routed
  <2>6. first[1] = "in" /\ first[2] = s[1]
    BY <1>1
  <2>7. Rank(s[1], t) \in Nat
    <3>1. s[1] \in Node
      BY <1>1, <1>2, EndpointsAreLocal
    <3> QED
      BY <1>2, <2>5, <3>1 DEF Routed
  <2> QED
    BY <2>3, <2>5, <2>6, <2>7 DEF Distance
<1>9. ASSUME NEW q \in Register, NEW r \in Register,
             busy(held(q)'), busy(held(r)'), SameFlow(held(q)', held(r)'),
             Distance(q, held(q)'.to) < Distance(r, held(q)'.to)
      PROVE  held(q)'.id < held(r)'.id
  <2>1. CASE q # first /\ r # first
    <3>1. /\ held(q)' = held(q) /\ busy(held(q))
          /\ held(r)' = held(r) /\ busy(held(r))
      BY <1>3, <1>9, <2>1
    <3>2. /\ SameFlow(held(q), held(r))
          /\ Distance(q, held(q).to) < Distance(r, held(q).to)
      BY <1>9, <3>1
    <3>3. held(q).to = held(r).to
      BY <3>2 DEF SameFlow
    <3>4. held(q).id < held(r).id
      BY <3>1, <3>2, <3>3 DEF Ordered
    <3> QED
      BY <3>1, <3>4
  <2>2. CASE q # first /\ r = first
    <3>1. held(q)' = held(q) /\ held(r)' = pkt
      BY <1>1, <1>3, <1>9, <2>2
    <3> QED
      BY <1>8, <1>9, <2>2, <3>1
  <2>3. CASE q = first /\ r # first
    <3>1. held(r)' = held(r) /\ held(q)' = pkt /\ pkt.to = t
      BY <1>1, <1>3, <1>9, <2>3
    <3>2. SameFlow(held(r), pkt)
      BY <1>9, <3>1 DEF SameFlow
    <3>3. Distance(r, t) <= Distance(first, t)
      BY <1>8, <1>9, <2>3, <3>2
    <3>4. Distance(first, t) < Distance(r, t)
      BY <1>9, <2>3, <3>1
    <3>5. /\ Distance(first, t) \in Nat /\ Distance(r, t) \in Nat
      <4>2. /\ r[2] \in Node /\ first[2] = s[1] /\ s[1] \in Node
            /\ OnPath(s, t, r[2])
        <5>1. Placed(r, held(r)) /\ held(r).src = s /\ held(r).to = t
          BY <1>1, <1>3, <1>9, <2>3, <3>2 DEF PacketsPlaced, SameFlow
        <5> QED
          BY <1>1, <1>2, <5>1, EndpointsAreLocal DEF Register, Placed
      <4>3. Rank(r[2], t) \in Nat /\ Rank(s[1], t) \in Nat
        BY <1>2, <4>2 DEF Routed
      <4> QED
        BY <4>2, <4>3 DEF Distance
    <3> QED
      BY <3>3, <3>4, <3>5
  <2>4. CASE q = first /\ r = first
    <3>1. Distance(first, held(q)'.to) \in Nat
      <4>1. s[1] \in Node /\ first[2] = s[1] /\ held(q)'.to = t
        BY <1>1, <1>2, <2>4, EndpointsAreLocal
      <4>2. Rank(s[1], t) \in Nat
        BY <1>2, <4>1 DEF Routed
      <4> QED
        BY <4>1, <4>2 DEF Distance
    <3> QED
      BY <1>9, <2>4, <3>1
  <2> QED
    BY <2>1, <2>2, <2>3, <2>4
<1>10. Ordered'
  BY <1>9 DEF Ordered, Distance, SameFlow
<1>11. Flight' = Flight \cup {[src |-> s, to |-> t, id |-> count[s]]}
  <2>1. Flight = {Shown(held(r)) : r \in {x \in Register : busy(held(x))}}
    BY FlightIsHeld
  <2>2. (Flight = {Shown(held(r)) : r \in {x \in Register : busy(held(x))}})'
    BY FlightIsHeld, PTL
  <2>3. Flight' = {Shown(held(r)') : r \in {x \in Register : busy(held(x)')}}
    BY <2>2
  <2>4. Shown(pkt) = [src |-> s, to |-> t, id |-> count[s]]
    BY <1>1, <1>2, ShownPacket
  <2>5. \A r \in Register : r # first /\ busy(held(r)) => held(r)' = held(r)
    BY <1>1
  <2>6. Flight' = Flight \cup {Shown(pkt)}
    BY <1>1, <1>3, <2>1, <2>3, <2>5
  <2> QED
    BY <2>4, <2>6
<1> QED
  BY <1>5, <1>7, <1>10, <1>11

----------------------------------------------------------------------------
(* An empty mesh has the invariant. *)
LEMMA InitHolds ==
  ASSUME Topology, Init
  PROVE  MeshInv
<1>1. WellPlaced
  BY DEF Topology, Wired
<1>2. \A r \in Register : ~ busy(held(r))
  BY DEF Init, Register, held, busy
<1>3. TypeOK
  BY <1>1 DEF Init, TypeOK, WellPlaced
<1>4. Received
  BY DEF Init, Received, busy
<1> QED
  BY <1>2, <1>3, <1>4 DEF MeshInv, PacketsPlaced, Ordered

(* Sending a packet keeps it. *)
LEMMA InjectKeeps ==
  ASSUME MeshInv, Topology, NEW f \in Flows, Inject(f[1], f[2])
  PROVE  /\ Entered(f[1], f[2]) /\ <<f[1], f[2]>> \in Flows
         /\ rx' = rx /\ count[f[1]] < MaxSend[f[1]]
         /\ MeshInv'
         /\ Flight' = Flight \cup
              {[src |-> f[1], to |-> f[2], id |-> count[f[1]]]}
<1>1. <<f[1], f[2]>> \in Flows
  BY EndpointsAreLocal DEF Topology, Wired
<1>2. Entered(f[1], f[2]) /\ rx' = rx /\ count[f[1]] < MaxSend[f[1]]
  BY DEF Inject, Entered
<1>3. rx' \in [Endpoint -> Packet \cup {NoPkt}]
  BY <1>2 DEF MeshInv, TypeOK
<1>4. Received'
  BY <1>2 DEF MeshInv, Received
<1> QED
  BY <1>1, <1>2, <1>3, <1>4, EnteredKeeps DEF MeshInv

(* A memory sends to whoever sent to it. *)
LEMMA AnswerKeeps ==
  ASSUME MeshInv, Topology, NEW m \in Mem, simple_mem_clock(m)
  PROVE  /\ Entered(m, rx[m].src) /\ <<m, rx[m].src>> \in Flows
         /\ m \in Endpoint /\ busy(rx[m])
         /\ rx' = [rx EXCEPT ![m] = NoPkt]
         /\ MeshInv'
         /\ Flight' = Flight \cup
              {[src |-> m, to |-> rx[m].src, id |-> count[m]]}
<1>1. m \in Endpoint /\ busy(rx[m]) /\ rx' = [rx EXCEPT ![m] = NoPkt]
  BY DEF Topology, Wired, WellPlaced, simple_mem_clock, mem_sends
<1>2. Entered(m, rx[m].src)
  BY DEF simple_mem_clock, mem_sends, Entered
<1>3. <<m, rx[m].src>> \in Flows
  <2>1. <<rx[m].src, m>> \in Flows
    BY <1>1 DEF MeshInv, Received
  <2>2. PICK f \in Flows : f = <<rx[m].src, m>>
    BY <2>1
  <2>3. <<f[2], f[1]>> \in Flows
    BY <2>2 DEF Topology, Wired, WellPlaced
  <2> QED
    BY <2>2, <2>3
<1>4. rx' \in [Endpoint -> Packet \cup {NoPkt}]
  BY <1>1 DEF MeshInv, TypeOK
<1>5. Received'
  BY <1>1 DEF MeshInv, Received, TypeOK, busy
<1>6. PICK t : t = rx[m].src
  OBVIOUS
<1>7. /\ TypeOK' /\ PacketsPlaced' /\ Ordered'
      /\ Flight' = Flight \cup {[src |-> m, to |-> t, id |-> count[m]]}
  BY <1>2, <1>3, <1>4, <1>6, EnteredKeeps
<1> QED
  BY <1>1, <1>2, <1>3, <1>5, <1>6, <1>7 DEF MeshInv

(* A client that is done with a packet changes nothing else. *)
LEMMA ConsumeKeeps ==
  ASSUME MeshInv, Topology, NEW e \in Endpoint, Consume(e)
  PROVE  MeshInv' /\ Flight' = Flight
<1>1. /\ in' = in /\ out' = out /\ time' = time /\ count' = count
      /\ rx' = [rx EXCEPT ![e] = NoPkt]
  BY DEF Consume
<1>2. TypeOK' /\ Received'
  BY <1>1 DEF MeshInv, TypeOK, Received, busy
<1>3. \A r : held(r)' = held(r)
  BY <1>1 DEF held
<1>4. PacketsPlaced' /\ Ordered'
  BY <1>1, <1>3 DEF MeshInv, PacketsPlaced, Ordered, Placed
<1>5. Flight' = Flight
  BY <1>1 DEF Flight, InFlight
<1> QED
  BY <1>2, <1>4, <1>5 DEF MeshInv

(* Every step keeps the invariant. *)
LEMMA StepKeeps ==
  ASSUME MeshInv, Topology, [Next]_vars
  PROVE  MeshInv'
<1>1. ASSUME NEW n \in Node, node_clock(n) PROVE MeshInv'
  <2>1. PICK emptied, from :
          Moves(n, emptied, from) /\ clocked(n, emptied, from)
    BY <1>1, ClockMoves DEF MeshInv, Topology
  <2> QED
    BY <2>1, ClockKeeps
<1>2. ASSUME NEW f \in Flows, Inject(f[1], f[2]) PROVE MeshInv'
  BY <1>2, InjectKeeps
<1>3. ASSUME NEW e \in Client, Consume(e) PROVE MeshInv'
  BY <1>3, ConsumeKeeps DEF Client
<1>4. ASSUME NEW m \in Mem, simple_mem_clock(m) PROVE MeshInv'
  BY <1>4, AnswerKeeps
<1>5. CASE UNCHANGED vars
  <2>1. /\ in' = in /\ out' = out /\ time' = time
        /\ count' = count /\ rx' = rx
    BY <1>5 DEF vars
  <2>2. \A r : held(r)' = held(r)
    BY <2>1 DEF held
  <2> QED
    BY <2>1, <2>2 DEF MeshInv, TypeOK, Received, PacketsPlaced, Ordered, Placed
<1> QED
  BY <1>1, <1>2, <1>3, <1>4, <1>5 DEF Next

(* In every mesh that routes along paths, packets are on their paths, and  *)
(* those of a flow in the order they were sent.                            *)
THEOREM MeshCorrect ==
  ASSUME Topology
  PROVE  Init /\ [][Next]_vars => []MeshInv
  BY InitHolds, StepKeeps, PTL

(* The step of the network that a step of the mesh is. *)
LEMMA StepImplements ==
  ASSUME MeshInv, Topology, [Next]_vars
  PROVE  [Promised!Next]_<<Flight, ShownRx, count>>
<1> USE DEF MeshInv
<1>1. WellPlaced /\ Promised!Endpoint = Endpoint
  BY DEF Topology, Wired, Promised!Endpoint, Endpoint
<1>2. ASSUME NEW n \in Node, node_clock(n)
      PROVE  Promised!Deliver \/ UNCHANGED <<Flight, ShownRx, count>>
  <2>1. PICK emptied, from :
          Moves(n, emptied, from) /\ clocked(n, emptied, from)
    BY <1>2, ClockMoves DEF Topology
  <2> QED
    BY <2>1, ClockImplements
<1>3. ASSUME NEW f \in Flows, Inject(f[1], f[2])
      PROVE  Promised!Send(f[1], f[2])
  <2>1. /\ Entered(f[1], f[2]) /\ <<f[1], f[2]>> \in Flows
        /\ rx' = rx /\ count[f[1]] < MaxSend[f[1]]
        /\ Flight' = Flight \cup
             {[src |-> f[1], to |-> f[2], id |-> count[f[1]]]}
    BY <1>3, InjectKeeps
  <2>2. ShownRx' = ShownRx
    BY <2>1 DEF ShownRx
  <2> QED
    BY <2>1, <2>2 DEF Promised!Send, Entered, Flight, ShownRx
<1>4. ASSUME NEW e \in Client, Consume(e)
      PROVE  Promised!Consume(e) /\ e \in Endpoint
  <2>1. e \in Endpoint /\ Flight' = Flight
    BY <1>4, ConsumeKeeps DEF Client
  <2>2. /\ rx' = [rx EXCEPT ![e] = NoPkt] /\ count' = count
        /\ rx[e] # NoPkt /\ rx[e] \in Packet
    BY <1>4, <2>1 DEF Consume, busy, TypeOK
  <2>3. ShownRx[e] # NoPkt
    BY <1>1, <2>1, <2>2, ShownPacket DEF ShownRx
  <2>4. ShownRx' = [ShownRx EXCEPT ![e] = NoPkt]
    BY <2>1, <2>2 DEF ShownRx, TypeOK, Shown
  <2> QED
    BY <2>1, <2>2, <2>3, <2>4 DEF Promised!Consume, Flight, ShownRx
<1>5. ASSUME NEW m \in Mem, simple_mem_clock(m)
      PROVE  Promised!Reply(m) /\ m \in Endpoint
  <2>1. /\ Entered(m, rx[m].src) /\ <<m, rx[m].src>> \in Flows
        /\ m \in Endpoint /\ busy(rx[m])
        /\ rx' = [rx EXCEPT ![m] = NoPkt]
        /\ Flight' = Flight \cup
             {[src |-> m, to |-> rx[m].src, id |-> count[m]]}
    BY <1>5, AnswerKeeps
  <2>2. PICK pkt \in Packet : pkt = rx[m]
    BY <2>1 DEF busy, TypeOK
  <2>3. ShownRx[m] # NoPkt /\ ShownRx[m].src = rx[m].src
    BY <1>1, <2>1, <2>2, ShownPacket DEF ShownRx
  <2>4. ShownRx' = [ShownRx EXCEPT ![m] = NoPkt]
    BY <2>1 DEF ShownRx, TypeOK, Shown
  <2>5. count' = [count EXCEPT ![m] = @ + 1]
    BY <2>1 DEF Entered
  <2> QED
    BY <2>1, <2>3, <2>4, <2>5 DEF Promised!Reply, Flight, ShownRx
<1>6. CASE UNCHANGED vars
  <2>1. UNCHANGED <<Flight, ShownRx, count>>
    BY <1>6 DEF vars, Flight, InFlight, ShownRx
  <2> QED
    BY <2>1
<1> QED
  BY <1>1, <1>2, <1>3, <1>4, <1>5, <1>6 DEF Next, Promised!Next

(* A mesh that routes along paths delivers every packet at most once, to   *)
(* the endpoint it is addressed to, and in the order of its flow, whatever *)
(* the order in which nodes, clients and memories are clocked.             *)
THEOREM MeshImplements ==
  ASSUME Topology
  PROVE  Init /\ [][Next]_vars => ImplementsNetwork
<1>1. Init => Promised!Init
  <2> SUFFICES ASSUME Init PROVE Promised!Init
    OBVIOUS
  <2>1. InFlight = {}
    BY DEF Init, InFlight
  <2>2. Flight = {}
    BY <2>1 DEF Flight
  <2>3. Promised!Endpoint = Endpoint
    BY DEF Promised!Endpoint, Endpoint
  <2> QED
    BY <2>2, <2>3 DEF Promised!Init, Init, Flight, Shown
<1>2. MeshInv /\ [Next]_vars => [Promised!Next]_<<Flight, ShownRx, count>>
  BY StepImplements
<1> QED
  BY <1>1, <1>2, MeshCorrect, PTL
     DEF ImplementsNetwork, Promised!Spec, Flight, ShownRx

----------------------------------------------------------------------------
(* In the state after a step, too. *)
LEMMA InFlightIsHeldNext ==
  InFlight' = {held(r)' : r \in {x \in Register : busy(held(x)')}}
<1>1. (InFlight = {held(r) : r \in {x \in Register : busy(held(x))}})'
  BY InFlightIsHeld, PTL
<1> QED
  BY <1>1

(* A packet seen before and after a step is the same in both, unless the   *)
(* mesh stamps packets in transit.                                         *)
LEMMA StampsKept ==
  ASSUME MeshInv, Topology, ~ RestampsTransit, [Next]_vars,
         NEW p \in InFlight, NEW q \in InFlight', Shown(p) = Shown(q)
  PROVE  p.stamp = q.stamp
<1> USE DEF MeshInv
<1>1. PICK x \in Register : busy(held(x)) /\ p = held(x)
  BY InFlightIsHeld
<1>2. PICK y \in Register : busy(held(y)') /\ q = held(y)'
  BY InFlightIsHeldNext
<1>3. WellPlaced /\ p \in Packet
  BY <1>1, HeldIsPacket DEF Topology, Wired
<1>4. ASSUME NEW w \in Register, busy(held(w)), held(w) = q
      PROVE  p.stamp = q.stamp
  <2>1. q \in Packet
    BY <1>4, HeldIsPacket
  <2>2. p.src = q.src /\ p.to = q.to /\ p.id = q.id
    BY <1>3, <2>1, ShownPacket
  <2>3. SameFlow(held(x), held(w)) /\ held(x).id = held(w).id
    BY <1>1, <1>4, <2>2 DEF SameFlow
  <2>4. x = w
    BY <1>1, <1>4, <2>3, SameId
  <2> QED
    BY <1>1, <1>4, <2>4
<1>5. ASSUME held(y)' = held(y) PROVE p.stamp = q.stamp
  BY <1>2, <1>4, <1>5
<1>6. ASSUME NEW n \in Node, node_clock(n) PROVE p.stamp = q.stamp
  <2>1. PICK emptied, from :
          Moves(n, emptied, from) /\ clocked(n, emptied, from)
    BY <1>6, ClockMoves DEF Topology
  <2>2. PICK w \in Register : busy(held(w)) /\ held(y)' = held(w)
    BY <1>2, <2>1, WasHeld
  <2> QED
    BY <1>2, <1>4, <2>2
<1>7. ASSUME NEW s, NEW t, <<s, t>> \in Flows, Entered(s, t)
      PROVE  p.stamp = q.stamp
  <2>1. PICK first \in Register, pkt \in Packet :
          /\ held(first)' = pkt /\ pkt.src = s /\ pkt.id = count[s]
          /\ count[s] \in Nat
          /\ \A r \in Register : r # first => held(r)' = held(r)
    BY <1>7, EnteredHeld
  <2>2. CASE y = first
    <3>1. p.src = s /\ p.id = count[s]
      BY <1>2, <1>3, <2>1, <2>2, ShownPacket
    <3>2. p.id < count[p.src]
      BY <1>1 DEF PacketsPlaced, Placed
    <3> QED
      BY <2>1, <3>1, <3>2
  <2>3. CASE y # first
    BY <1>5, <2>1, <2>3
  <2> QED
    BY <2>2, <2>3
<1>8. ASSUME NEW f \in Flows, Inject(f[1], f[2]) PROVE p.stamp = q.stamp
  BY <1>7, <1>8, InjectKeeps
<1>9. ASSUME NEW m \in Mem, simple_mem_clock(m) PROVE p.stamp = q.stamp
  BY <1>7, <1>9, AnswerKeeps
<1>10. ASSUME NEW e, Consume(e) PROVE p.stamp = q.stamp
  <2>1. held(y)' = held(y)
    BY <1>10 DEF Consume, held
  <2> QED
    BY <1>5, <2>1
<1>11. CASE UNCHANGED vars
  <2>1. held(y)' = held(y)
    BY <1>11 DEF vars, held
  <2> QED
    BY <1>5, <2>1
<1> QED
  BY <1>6, <1>8, <1>9, <1>10, <1>11 DEF Next

(* Where nodes stamp local packets only, no timestamp ever changes. *)
THEOREM MeshKeepsTimestamp ==
  ASSUME Topology, ~ RestampsTransit
  PROVE  Init /\ [][Next]_vars => KeepsTimestamp
<1>1. MeshInv /\ [Next]_vars =>
        [\A p \in InFlight, q \in InFlight' :
           Shown(p) = Shown(q) => p.stamp = q.stamp]_vars
  BY StampsKept
<1> QED
  BY <1>1, MeshCorrect, PTL DEF KeepsTimestamp

----------------------------------------------------------------------------
(* At its last node a packet is routed to its local port. *)
LEMMA RoutedHome ==
  ASSUME Topology, NEW r \in Register, NEW pkt, Placed(r, pkt),
         pkt.to[1] = r[2]
  PROVE  pkt.to = <<r[2], Route(r[2], pkt.to)>>
<1> DEFINE n == r[2]
           d == Route(n, pkt.to)
<1>1. Routed(pkt.src, pkt.to)
  BY DEF Topology, Placed
<1>2. Rank(n, pkt.to) = 0
  BY <1>1 DEF Routed
<1>3. CASE /\ d \in Dir /\ Neighbor(n, d) \in Node
           /\ OnPath(pkt.src, pkt.to, Neighbor(n, d))
           /\ Rank(Neighbor(n, d), pkt.to) = Rank(n, pkt.to) - 1
  <2>1. Rank(Neighbor(n, d), pkt.to) \in 0 .. Rank(pkt.src[1], pkt.to)
    BY <1>1, <1>3 DEF Routed
  <2> QED
    BY <1>2, <1>3, <2>1
<1> QED
  BY <1>3, PlacedIsRouted

(* No step opens the cycle of a wedged memory. *)
LEMMA WedgeStays ==
  ASSUME MeshInv, Topology, [Next]_vars, NEW m \in Mem, Wedged(m)
  PROVE  Wedged(m)'
<1> USE DEF MeshInv
<1>1. m \in Endpoint /\ WellPlaced
  BY DEF Topology, Wired, WellPlaced
<1>2. PICK n \in Node, p \in Elem : n = m[1] /\ p = m[2] /\ m = <<n, p>>
  BY <1>1, EndpointsAreLocal
<1>3. busy(rx[m]) /\ busy(out[n][p]) /\ busy(in[n][p])
  BY <1>2 DEF Wedged
<1>4. PICK q \in Elem \ {p} :
        busy(in[n][q]) /\ in[n][q].to = m /\ Before(in[n], q, p)
  BY <1>2 DEF Wedged
<1>5. p \in Port /\ q \in Port /\ p \notin Dir /\ q \notin Dir
  BY DEF Port, Topology, Wired
<1>6. ASSUME /\ rx'[m] = rx[m] /\ out'[n][p] = out[n][p]
             /\ in'[n][p] = in[n][p] /\ in'[n][q] = in[n][q]
      PROVE  Wedged(m)'
  <2>1. Before(in[n], q, p)'
    BY <1>4, <1>6 DEF Before
  <2> QED
    BY <1>2, <1>3, <1>4, <1>6, <2>1 DEF Wedged
<1>7. ASSUME NEW k \in Node, node_clock(k) PROVE Wedged(m)'
  <2>1. PICK emptied, from :
          Moves(k, emptied, from) /\ clocked(k, emptied, from)
    BY <1>7, ClockMoves DEF Topology
  <2>2. k = n => p \notin emptied
    BY <1>2, <1>3, <2>1 DEF Moves, accepts
  <2>3. k = n => from[p] = << >>
    BY <1>3, <1>5, <2>1, <2>2 DEF Moves
  <2>4. ~ (k = n /\ \E d \in Port : from[d] = <<p>>)
    <3> SUFFICES ASSUME k = n, NEW d \in Port, from[d] = <<p>> PROVE FALSE
      OBVIOUS
    <3>A. from[d] # << >> /\ Moves(n, emptied, from)
      BY <2>1
    <3>1. PICK c \in Port :
            from[d] = <<c>> /\ (c \in Elem => oldest_local(n) = <<c>>)
      BY <3>A DEF Moves
    <3>2. oldest_local(n) = <<p>>
      <4>1. c = p
        BY <3>1
      <4> QED
        BY <3>1, <4>1
    <3>3. PICK o \in Elem :
            /\ oldest_local(n) = <<o>>
            /\ \A i \in Elem : busy(in[n][i]) => ~ Before(in[n], i, o)
      BY <1>1, <3>2, LocalIsOldest
    <3> QED
      BY <1>4, <3>2, <3>3
  <2>5. ~ (k = n /\ \E d \in Port : from[d] = <<q>>)
    <3> SUFFICES ASSUME k = n, NEW d \in Port, from[d] = <<q>> PROVE FALSE
      OBVIOUS
    <3>A. from[d] # << >> /\ Moves(n, emptied, from)
      BY <2>1
    <3>1. PICK c \in Port : from[d] = <<c>> /\ Route(n, in[n][c].to) = d
      BY <3>A DEF Moves
    <3>2. Route(n, m) = d
      <4>1. c = q
        BY <3>1
      <4> QED
        BY <1>4, <3>1, <4>1
    <3>3. PICK r \in Register : r = <<"in", n, q>>
      BY <1>5 DEF Register
    <3>4. held(r) = in[n][q] /\ r[2] = n
      BY <3>3 DEF held
    <3>5. Placed(r, held(r))
      BY <1>4, <3>4 DEF PacketsPlaced
    <3>6. PICK pkt : pkt = held(r) /\ pkt.to = m
      BY <1>4, <3>4
    <3>7. m = <<n, Route(n, m)>>
      BY <1>2, <3>4, <3>5, <3>6, RoutedHome
    <3>8. d = p
      BY <1>2, <3>2, <3>7
    <3> QED
      BY <2>3, <3>A, <3>8
  <2>6. in'[n][p] = in[n][p] /\ in'[n][q] = in[n][q]
    BY <1>5, <2>1, <2>4, <2>5 DEF clocked, filled
  <2>7. out'[n][p] = out[n][p]
    BY <1>5, <2>1, <2>2, <2>3 DEF clocked, left, TypeOK
  <2>8. rx'[m] = rx[m]
    BY <1>1, <1>2, <2>1, <2>2 DEF clocked
  <2> QED
    BY <1>6, <2>6, <2>7, <2>8
<1>8. ASSUME NEW s \in Endpoint, NEW x, ~ busy(in[s[1]][s[2]]),
             in' = [in EXCEPT ![s[1]][s[2]] = x]
      PROVE  in'[n][p] = in[n][p] /\ in'[n][q] = in[n][q]
  <2>1. PICK k \in Node, d \in Port : k = s[1] /\ d = s[2]
    BY <1>1, EndpointsAreLocal
  <2>2. ~ busy(in[k][d]) /\ in' = [in EXCEPT ![k][d] = x]
    BY <1>8, <2>1
  <2>3. ~ (k = n /\ d = p) /\ ~ (k = n /\ d = q)
    BY <1>3, <1>4, <2>2
  <2> QED
    BY <1>5, <2>2, <2>3 DEF TypeOK
<1>9. ASSUME NEW f \in Flows, Inject(f[1], f[2]) PROVE Wedged(m)'
  <2>1. f[1] \in Endpoint /\ rx' = rx /\ out' = out /\ ~ busy(in[f[1][1]][f[1][2]])
    BY <1>9 DEF Inject, Endpoint
  <2>2. PICK x : in' = [in EXCEPT ![f[1][1]][f[1][2]] = x]
    BY <1>9 DEF Inject
  <2> QED
    BY <1>6, <1>8, <2>1, <2>2
<1>10. ASSUME NEW e \in Client, Consume(e) PROVE Wedged(m)'
  <2>1. e # m /\ e \in Endpoint
    BY DEF Client
  <2>2. rx' = [rx EXCEPT ![e] = NoPkt] /\ in' = in /\ out' = out
    BY <1>10 DEF Consume
  <2> QED
    BY <1>1, <1>6, <2>1, <2>2 DEF TypeOK
<1>11. ASSUME NEW k \in Mem, simple_mem_clock(k) PROVE Wedged(m)'
  <2>1. /\ k \in Endpoint /\ ~ busy(in[k[1]][k[2]])
        /\ rx' = [rx EXCEPT ![k] = NoPkt] /\ out' = out
    BY <1>1, <1>11 DEF simple_mem_clock, mem_sends, WellPlaced
  <2>2. PICK x : in' = [in EXCEPT ![k[1]][k[2]] = x]
    BY <1>11 DEF simple_mem_clock
  <2>3. k # m
    BY <1>2, <1>3, <2>1
  <2> QED
    BY <1>1, <1>6, <1>8, <2>1, <2>2, <2>3 DEF TypeOK
<1>12. CASE UNCHANGED vars
  BY <1>6, <1>12 DEF vars
<1> QED
  BY <1>7, <1>9, <1>10, <1>11, <1>12 DEF Next

(* A memory whose answer waits behind a request to itself waits for ever. *)
THEOREM MeshWedges ==
  ASSUME Topology
  PROVE  Init /\ [][Next]_vars => WedgedForEver
<1>1. MeshInv /\ [Next]_vars =>
        [\A m \in Mem : Wedged(m) => Wedged(m)']_vars
  BY WedgeStays
<1> QED
  BY <1>1, MeshCorrect, PTL DEF WedgedForEver

----------------------------------------------------------------------------
(* A packet on a link has come by it along its path. *)
LEMMA OnLinkIsPlaced ==
  ASSUME MeshInv, Topology, NEW l \in Link, NEW pkt \in OnLink(l)
  PROVE  LET m == Neighbor(l[1], l[2])
         IN  /\ m \in Node /\ Back(l[2]) \in Dir
             /\ <<pkt.src, pkt.to>> \in Flows
             /\ OnPath(pkt.src, pkt.to, m)
             /\ InPort(pkt.src, pkt.to, m) = Back(l[2])
             /\ Route(m, pkt.to) \in Dir => Neighbor(m, Route(m, pkt.to)) \in Node
<1> USE DEF MeshInv
<1>1. PICK n \in Node, d \in Dir : l = <<n, d>> /\ Neighbor(n, d) \in Node
  BY DEF Link
<1>2. PICK m \in Node : m = Neighbor(n, d)
  BY <1>1
<1>3. Back(d) \in Dir /\ d \in Port /\ Back(d) \in Port
  BY DEF Topology, Wired, Port
<1>4. PICK q \in Register, r \in Register :
        q = <<"out", n, d>> /\ r = <<"in", m, Back(d)>>
  BY <1>3 DEF Register
<1>5. \/ busy(held(q)) /\ pkt = held(q)
      \/ busy(held(r)) /\ pkt = held(r)
  BY <1>1, <1>2, <1>4 DEF OnLink, held, busy
<1>6. CASE busy(held(r)) /\ pkt = held(r)
  <2>1. Placed(r, pkt)
    BY <1>6 DEF PacketsPlaced
  <2>2. /\ <<pkt.src, pkt.to>> \in Flows
        /\ OnPath(pkt.src, pkt.to, m)
        /\ InPort(pkt.src, pkt.to, m) = Back(d)
    BY <1>4, <2>1 DEF Placed
  <2>3. Route(m, pkt.to) \in Dir => Neighbor(m, Route(m, pkt.to)) \in Node
    BY <1>4, <2>1, PlacedIsRouted
  <2> QED
    BY <1>1, <1>2, <1>3, <2>2, <2>3
<1>7. CASE busy(held(q)) /\ pkt = held(q)
  <2>1. Placed(q, pkt)
    BY <1>7 DEF PacketsPlaced
  <2>2. /\ <<pkt.src, pkt.to>> \in Flows
        /\ OnPath(pkt.src, pkt.to, n) /\ Route(n, pkt.to) = d
    BY <1>4, <2>1 DEF Placed
  <2>3. Routed(pkt.src, pkt.to)
    BY <2>2 DEF Topology
  <2>4. d \notin Elem
    BY DEF Topology, Wired
  <2>5. /\ OnPath(pkt.src, pkt.to, m)
        /\ InPort(pkt.src, pkt.to, m) = Back(d)
    BY <1>2, <2>2, <2>3, <2>4 DEF Routed
  <2>6. \/ Route(m, pkt.to) \in Elem
        \/ Neighbor(m, Route(m, pkt.to)) \in Node
    BY <2>3, <2>5 DEF Routed
  <2>7. Route(m, pkt.to) \in Dir => Neighbor(m, Route(m, pkt.to)) \in Node
    BY <2>6 DEF Topology, Wired
  <2> QED
    BY <1>1, <1>2, <1>3, <2>2, <2>5, <2>7
<1> QED
  BY <1>5, <1>6, <1>7

(* How many links may follow link l. *)
Following(l) == LinkRank(Neighbor(l[1], l[2]), Back(l[2]))

(* Who waits for a link is on one that more links may follow. *)
LEMMA WaitsDescend ==
  ASSUME MeshInv, DimensionOrder, NEW w \in Waits
  PROVE  /\ Following(w[1]) \in Nat /\ Following(w[2]) \in Nat
         /\ Following(w[2]) < Following(w[1])
<1>A. PICK l \in Link : w[1] = l /\ w[2] \in Wanted(l)
  BY DEF Waits
<1>1. PICK pkt \in OnLink(l) : w[2] = After(l, pkt) /\ After(l, pkt) \in Link
  BY <1>A DEF Wanted
<1>2. PICK m \in Node : m = Neighbor(l[1], l[2])
  BY DEF Link
<1>3. PICK d \in Dir : d = Route(m, pkt.to) /\ After(l, pkt) = <<m, d>>
  BY <1>1, <1>2 DEF After, Link
<1>4. /\ <<pkt.src, pkt.to>> \in Flows
      /\ OnPath(pkt.src, pkt.to, m)
      /\ InPort(pkt.src, pkt.to, m) = Back(l[2])
      /\ Back(l[2]) \in Dir
  BY <1>2, OnLinkIsPlaced DEF DimensionOrder
<1>5. Turns(pkt.src, pkt.to)
  <2>1. PICK f \in Flows : f = <<pkt.src, pkt.to>>
    BY <1>4
  <2> QED
    BY <2>1 DEF DimensionOrder
<1>6. /\ LinkRank(m, Back(l[2])) \in Nat
      /\ LinkRank(Neighbor(m, d), Back(d)) \in 0 .. LinkRank(m, Back(l[2])) - 1
  BY <1>3, <1>4, <1>5 DEF Turns
<1>7. /\ Following(w[1]) = LinkRank(m, Back(l[2]))
      /\ Following(w[2]) = LinkRank(Neighbor(m, d), Back(d))
  BY <1>A, <1>1, <1>2, <1>3 DEF Following
<1> QED
  BY <1>6, <1>7

(* So no set of waits is closed. *)
LEMMA WaitsEnd ==
  ASSUME MeshInv, DimensionOrder
  PROVE  NoCyclicWait
<1> SUFFICES ASSUME NEW W \in SUBSET Waits, W # {}
             PROVE  \E w \in W : \A v \in W : v[1] # w[2]
  BY DEF NoCyclicWait
<1> DEFINE S == {Following(w[2]) : w \in W}
<1>1. S \in SUBSET Nat
  BY WaitsDescend
<1>2. S # {}
  OBVIOUS
<1>3. PICK k \in S : \A j \in S : k <= j
  BY <1>1, <1>2, LeastNumber
<1>4. PICK w \in W : k = Following(w[2])
  BY <1>3
<1>5. ASSUME NEW v \in W, v[1] = w[2] PROVE FALSE
  <2>1. Following(v[2]) \in Nat /\ Following(v[2]) < k
    BY <1>4, <1>5, WaitsDescend
  <2>2. k <= Following(v[2]) /\ k \in Nat
    BY <1>1, <1>3
  <2> QED
    BY <2>1, <2>2
<1> QED
  BY <1>5

(* In a mesh that travels its dimensions in a fixed order, packets never   *)
(* wait for each other's links in a circle.                                *)
THEOREM MeshWaits ==
  ASSUME DimensionOrder
  PROVE  Init /\ [][Next]_vars => []NoCyclicWait
<1>1. Topology
  BY DEF DimensionOrder
<1> QED
  BY <1>1, WaitsEnd, MeshCorrect, PTL

(* In a node that no clock would move, the output of any packet waiting in *)
(* an input that is looked at is taken.                                    *)
LEMMA OutputTaken ==
  ASSUME MeshInv, Topology, NEW n \in Node, ~ CanMove(n),
         NEW q \in Port, busy(in[n][q]), Route(n, in[n][q].to) \in Port,
         \/ oldest_local(n) = <<q>>
         \/ /\ q \in Dir
            /\ \E i \in DOMAIN Inputs(Route(n, in[n][q].to)) :
                 Inputs(Route(n, in[n][q].to))[i] = q
  PROVE  busy(out[n][Route(n, in[n][q].to)])
<1> USE DEF MeshInv
<1> DEFINE p == Route(n, in[n][q].to)
           local == oldest_local(n)
           sel == {x \in Port : busy(in[n][x]) /\ Route(n, in[n][x].to) = p}
           cand == local \o Inputs(p)
<1>1. sent(n) = {} /\ source(n, sent(n), local)[p] = << >>
  BY DEF CanMove
<1>2. propagate(left(n, sent(n), p), in[n], cand, sel) = << >>
  BY <1>1 DEF source
<1>3. left(n, sent(n), p) = out[n][p]
  BY <1>1 DEF left
<1>4. SUFFICES ASSUME ~ busy(out[n][p]) PROVE FALSE
  OBVIOUS
<1>5. oldest(in[n], cand, sel) = << >>
  BY <1>2, <1>3, <1>4 DEF propagate
<1>6. local \in Seq(Port) /\ Inputs(p) \in Seq(Port)
  <2>1. local = << >> \/ \E e \in Elem : local = <<e>>
    BY LocalIsOldest DEF Topology, Wired
  <2>2. \A e \in Elem : e \in Port /\ <<e>> \in Seq(Port)
    BY DEF Port
  <2>3. << >> \in Seq(Port)
    OBVIOUS
  <2>4. local \in Seq(Port)
    BY <2>1, <2>2, <2>3
  <2>5. Inputs(p) \in Seq(Port)
    <3>1. p \in Port
      OBVIOUS
    <3> HIDE DEF p
    <3>2. Inputs(p) \in Seq(Dir) /\ Dir \subseteq Port
      BY <3>1 DEF Topology, Wired, Port
    <3> QED
      BY <3>2
  <2> QED
    BY <2>4, <2>5
<1>7. q \in sel
  OBVIOUS
<1>8. \E i \in DOMAIN cand : cand[i] = q
  <2> HIDE DEF p
  <2>1. CASE local = <<q>>
    <3>1. /\ Len(cand) = Len(local) + Len(Inputs(p))
          /\ Len(local) = 1 /\ cand[1] = q
      BY <1>6, <2>1
    <3> QED
      BY <1>6, <3>1
  <2>2. ASSUME NEW i \in DOMAIN Inputs(p), Inputs(p)[i] = q
        PROVE  \E j \in DOMAIN cand : cand[j] = q
    <3> HIDE DEF local
    <3>1. /\ i \in 1 .. Len(Inputs(p))
          /\ Len(local) \in Nat /\ Len(Inputs(p)) \in Nat
      BY <1>6, <2>2
    <3>2. Len(local) + i \in DOMAIN cand /\ cand[Len(local) + i] = q
      BY <1>6, <2>2, <3>1
    <3> QED
      BY <3>2
  <2> QED
    BY <2>1, <2>2 DEF p
<1>9. \A c \in Port : busy(in[n][c]) => in[n][c].stamp \in Nat
  BY HeldPackets DEF Topology, Wired
<1>10. cand \in Seq(Port)
  BY <1>6
<1>11. PICK i \in DOMAIN cand : cand[i] = q
  BY <1>8
<1> HIDE DEF cand, sel
<1>12. \/ /\ oldest(in[n], cand, sel) = << >>
          /\ \A j \in DOMAIN cand : ~ (busy(in[n][cand[j]]) /\ cand[j] \in sel)
       \/ \E j \in DOMAIN cand : oldest(in[n], cand, sel) = <<cand[j]>>
  <2>1. \/ /\ oldest(in[n], cand, sel) = << >>
           /\ \A j \in DOMAIN cand :
                ~ (busy(in[n][cand[j]]) /\ cand[j] \in sel)
        \/ \E j \in DOMAIN cand :
             /\ oldest(in[n], cand, sel) = <<cand[j]>>
             /\ busy(in[n][cand[j]]) /\ cand[j] \in sel
             /\ \A k \in DOMAIN cand :
                  busy(in[n][cand[k]]) /\ cand[k] \in sel =>
                    \/ in[n][cand[j]].stamp < in[n][cand[k]].stamp
                    \/ /\ in[n][cand[j]].stamp = in[n][cand[k]].stamp
                       /\ j <= k
    BY <1>9, <1>10, OldestIsListed, Zenon
  <2> QED
    BY <2>1, Zenon
<1>13. \A x : << >> # <<x>>
  OBVIOUS
<1> QED
  BY <1>5, <1>7, <1>11, <1>12, <1>13

(* In such a node, any busy input leads to an output that is taken, or to  *)
(* one that another input is to go to first.                               *)
LEMMA SomeOutputTaken ==
  ASSUME MeshInv, DimensionOrder, NEW n \in Node, ~ CanMove(n),
         NEW q \in Port, busy(in[n][q])
  PROVE  /\ \E p \in Port : busy(out[n][p])
         /\ q \in Dir => busy(out[n][Route(n, in[n][q].to)])
<1> USE DEF MeshInv
<1>1. Topology /\ WellPlaced /\ Elem \subseteq Port
  BY DEF DimensionOrder, Topology, Wired, Port
<1>2. ASSUME NEW c \in Port, busy(in[n][c])
      PROVE  /\ Route(n, in[n][c].to) \in Port
             /\ c = InPort(in[n][c].src, in[n][c].to, n)
             /\ OnPath(in[n][c].src, in[n][c].to, n)
             /\ <<in[n][c].src, in[n][c].to>> \in Flows
  <2>1. PICK r \in Register : r = <<"in", n, c>>
    BY DEF Register
  <2>2. Placed(r, in[n][c]) /\ r[2] = n
    BY <1>2, <2>1 DEF PacketsPlaced, held
  <2>3. PICK pkt : pkt = in[n][c]
    OBVIOUS
  <2>4. Placed(r, pkt)
    BY <2>2, <2>3
  <2>5. Route(n, pkt.to) \in Elem \/ Route(n, pkt.to) \in Dir
    BY <1>1, <2>2, <2>4, PlacedIsRouted
  <2> QED
    BY <2>1, <2>2, <2>3, <2>5 DEF Placed, Port
<1>3. ASSUME NEW c \in Dir, busy(in[n][c])
      PROVE  busy(out[n][Route(n, in[n][c].to)])
  <2>1. PICK pkt : pkt = in[n][c]
    OBVIOUS
  <2>2. c \in Port
    BY DEF Port
  <2>3. PICK f \in Flows : f = <<pkt.src, pkt.to>>
    BY <1>2, <1>3, <2>1, <2>2
  <2>4. Turns(pkt.src, pkt.to)
    BY <2>3 DEF DimensionOrder
  <2>5. \E i \in DOMAIN Inputs(Route(n, pkt.to)) :
          Inputs(Route(n, pkt.to))[i] = c
    BY <1>2, <1>3, <2>1, <2>2, <2>4 DEF Turns
  <2> QED
    BY <1>1, <1>2, <1>3, <2>1, <2>2, <2>5, OutputTaken
<1>4. CASE q \in Dir
  BY <1>2, <1>3, <1>4
<1>5. CASE q \in Elem
  <2>1. PICK e \in Elem : oldest_local(n) = <<e>> /\ busy(in[n][e])
    BY <1>1, <1>5, LocalIsOldest
  <2>2. e \in Port /\ Route(n, in[n][e].to) \in Port
    BY <1>1, <1>2, <2>1
  <2>3. busy(out[n][Route(n, in[n][e].to)])
    BY <1>1, <2>1, <2>2, OutputTaken
  <2>4. q \notin Dir
    BY <1>5 DEF DimensionOrder, Topology, Wired
  <2> QED
    BY <2>2, <2>3, <2>4
<1> QED
  BY <1>4, <1>5 DEF Port

(* If nothing moves and no endpoint is busy, an output that is taken leads *)
(* along a link whose other end waits for such an output.                  *)
LEMMA TakenWaitsForTaken ==
  ASSUME MeshInv, DimensionOrder,
         \A e \in Endpoint : ~ busy(rx[e]), \A n \in Node : ~ CanMove(n),
         NEW n \in Node, NEW p \in Port, busy(out[n][p])
  PROVE  /\ <<n, p>> \in Link
         /\ \E w \in Waits : /\ w[1] = <<n, p>>
                             /\ w[2] \in Link /\ busy(out[w[2][1]][w[2][2]])
<1> USE DEF MeshInv
<1>1. Topology /\ WellPlaced
  BY DEF DimensionOrder, Topology, Wired
<1>2. sent(n) = {}
  BY DEF CanMove
<1>3. ~ accepts(n, p)
  BY <1>2 DEF sent
<1>4. PICK pkt : pkt = out[n][p]
  OBVIOUS
<1>5. PICK r \in Register : r = <<"out", n, p>>
  BY DEF Register
<1>6. Placed(r, pkt) /\ r[2] = n
  BY <1>4, <1>5 DEF PacketsPlaced, held
<1>7. p = Route(n, pkt.to) /\ <<pkt.src, pkt.to>> \in Flows
  BY <1>5, <1>6 DEF Placed
<1>8. p \notin Elem
  <2> SUFFICES ASSUME p \in Elem PROVE FALSE
    OBVIOUS
  <2>1. pkt.to = <<n, p>>
    <3>1. p \notin Dir
      BY <1>1 DEF Topology, Wired
    <3> QED
      BY <1>1, <1>6, <1>7, <3>1, PlacedIsRouted
  <2>2. pkt.to \in Endpoint
    <3>1. PICK f \in Flows : f = <<pkt.src, pkt.to>>
      BY <1>7
    <3> QED
      BY <3>1 DEF Endpoint
  <2> QED
    BY <1>3, <2>1, <2>2 DEF accepts
<1>9. p \in Dir
  BY <1>8 DEF Port
<1>10. PICK m \in Node : m = Neighbor(n, p)
  BY <1>1, <1>6, <1>7, <1>8, PlacedIsRouted
<1>11. Back(p) \in Dir /\ Back(p) \in Port
  BY <1>1, <1>9 DEF Topology, Wired, Port
<1>12. busy(in[m][Back(p)])
  BY <1>3, <1>8, <1>10 DEF accepts
<1>13. PICK l \in Link : l = <<n, p>>
  BY <1>9, <1>10 DEF Link
<1>14. PICK next \in OnLink(l) : next = in[m][Back(p)]
  BY <1>10, <1>12, <1>13 DEF OnLink, busy
<1>15. PICK d : d = Route(m, next.to) /\ busy(out[m][d])
  BY <1>11, <1>12, <1>14, SomeOutputTaken
<1>16. After(l, next) = <<m, d>>
  BY <1>10, <1>13, <1>15 DEF After
<1>17. d \in Dir /\ <<m, d>> \in Link
  <2>1. PICK s \in Register : s = <<"in", m, Back(p)>>
    BY <1>11 DEF Register
  <2>2. Placed(s, next) /\ s[2] = m
    BY <1>12, <1>14, <2>1 DEF PacketsPlaced, held
  <2>3. CASE d \in Elem /\ d \notin Dir /\ next.to = <<m, d>>
    <3>1. next.to \in Endpoint
      <4>1. PICK f \in Flows : f = <<next.src, next.to>>
        BY <2>2 DEF Placed
      <4> QED
        BY <4>1 DEF Endpoint
    <3>2. accepts(m, d)
      BY <2>3, <3>1 DEF accepts
    <3>3. d \in sent(m)
      BY <1>15, <2>3, <3>2 DEF sent, Port
    <3> QED
      BY <3>3 DEF CanMove
  <2>4. CASE d \in Dir /\ Neighbor(m, d) \in Node
    BY <2>4 DEF Link
  <2> QED
    BY <1>1, <1>15, <2>2, <2>3, <2>4, PlacedIsRouted
<1>18. PICK w : w = <<l, <<m, d>>>>
  OBVIOUS
<1>19. w \in Waits
  <2>1. <<m, d>> \in Wanted(l)
    BY <1>14, <1>16, <1>17 DEF Wanted
  <2> QED
    BY <1>18, <2>1 DEF Waits
<1> QED
  BY <1>13, <1>15, <1>17, <1>18, <1>19

(* Packets that do not wait for each other in a circle do not all wait.    *)
LEMMA SomethingMoves ==
  ASSUME MeshInv, DimensionOrder
  PROVE  NeverStuck
<1> USE DEF MeshInv
<1> SUFFICES ASSUME InFlight # {}, \A e \in Endpoint : ~ busy(rx[e]),
                    \A n \in Node : ~ CanMove(n)
             PROVE  FALSE
  BY DEF NeverStuck
<1> DEFINE W == {w \in Waits : busy(out[w[2][1]][w[2][2]]) /\ w[2] \in Link}
<1>1. PICK n \in Node, p \in Port : busy(out[n][p])
  <2>1. PICK n \in Node, p \in Port : busy(out[n][p]) \/ busy(in[n][p])
    BY DEF InFlight, busy
  <2>2. CASE busy(in[n][p])
    BY <2>2, SomeOutputTaken
  <2> QED
    BY <2>1, <2>2
<1>2. W # {}
  BY <1>1, TakenWaitsForTaken
<1>3. NoCyclicWait
  BY WaitsEnd
<1>4. PICK w \in W : \A v \in W : v[1] # w[2]
  BY <1>2, <1>3 DEF NoCyclicWait
<1>5. PICK m \in Node, d \in Dir : w[2] = <<m, d>>
  BY <1>4 DEF Link
<1>6. d \in Port /\ busy(out[m][d])
  BY <1>4, <1>5 DEF Port
<1>7. \E v \in Waits : /\ v[1] = <<m, d>>
                       /\ v[2] \in Link /\ busy(out[v[2][1]][v[2][2]])
  BY <1>6, TakenWaitsForTaken
<1>8. \E v \in W : v[1] = w[2]
  BY <1>5, <1>7
<1> QED
  BY <1>4, <1>8

(* A mesh that travels its dimensions in a fixed order never comes to a    *)
(* stop while packets are under way and no endpoint is busy: the clock of  *)
(* some node would move one.                                               *)
THEOREM MeshNeverStuck ==
  ASSUME DimensionOrder
  PROVE  Init /\ [][Next]_vars => []NeverStuck
<1>1. Topology
  BY DEF DimensionOrder
<1> QED
  BY <1>1, SomethingMoves, MeshCorrect, PTL
============================================================================

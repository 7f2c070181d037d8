--------------------------- MODULE SimtCoreProofs ---------------------------
(***************************************************************************)
(* With any number of lanes, blocks and bytes, the core complex finds for  *)
(* every answer the requests it belongs to, forgets no lane, and is to its *)
(* lanes one memory of bytes.                                              *)
(***************************************************************************)
EXTENDS SimtCore, SequenceTheorems, WellFoundedInduction, TLAPS

(* A set of lanes has a lowest one.                                        *)
LEMMA LowestLane ==
  ASSUME NEW S \in SUBSET Lane, S # {}
  PROVE  /\ Min(S) \in S
         /\ \A n \in S : Min(S) <= n
<1>1. S \in SUBSET Nat
  BY CoreAssumption DEF Lane
<1>2. PICK m \in S : \A n \in S : ~ (<<n, m>> \in OpToRel(<, Nat))
  BY <1>1, NatLessThanWellFounded, WFMin
<1>3. \A n \in S : ~ (n < m)
  BY <1>1, <1>2 DEF OpToRel
<1>4. \A n \in S : m <= n
  BY <1>1, <1>3
<1> QED
  BY <1>4 DEF Min

----------------------------------------------------------------------------
(* Three sequences in a row: their length and their elements.              *)
LEMMA Joined ==
  ASSUME NEW S, NEW s \in Seq(S), NEW t \in Seq(S), NEW u \in Seq(S)
  PROVE  /\ s \o t \o u \in Seq(S)
         /\ Len(s) \in Nat /\ Len(t) \in Nat /\ Len(u) \in Nat
         /\ Len(s \o t \o u) = Len(s) + Len(t) + Len(u)
         /\ \A k \in 1 .. Len(s) + Len(t) + Len(u) :
              (s \o t \o u)[k] =
                IF k <= Len(s) THEN s[k]
                ELSE IF k <= Len(s) + Len(t) THEN t[k - Len(s)]
                ELSE u[k - Len(s) - Len(t)]
<1>1. /\ s \o t \in Seq(S) /\ Len(s \o t) = Len(s) + Len(t)
      /\ \A k \in 1 .. Len(s) + Len(t) :
           (s \o t)[k] = IF k <= Len(s) THEN s[k] ELSE t[k - Len(s)]
  BY ConcatProperties
<1>2. /\ s \o t \o u \in Seq(S) /\ Len(s \o t \o u) = Len(s \o t) + Len(u)
      /\ \A k \in 1 .. Len(s \o t) + Len(u) :
           (s \o t \o u)[k] = IF k <= Len(s \o t) THEN (s \o t)[k]
                              ELSE u[k - Len(s \o t)]
  BY <1>1, ConcatProperties
<1>3. Len(s) \in Nat /\ Len(t) \in Nat /\ Len(u) \in Nat
  BY LenProperties
<1> QED
  BY <1>1, <1>2, <1>3

(* The packet of the node moves on to the end of the path.                 *)
LEMMA JoinedMove ==
  ASSUME NEW S, NEW s \in Seq(S), NEW t \in Seq(S), NEW e \in S
  PROVE  s \o Append(t, e) \o << >> = s \o t \o <<e>>
<1>1. Append(t, e) = t \o <<e>> /\ <<e>> \in Seq(S)
  BY AppendIsConcat
<1>2. s \o Append(t, e) \in Seq(S)
  BY <1>1, ConcatProperties
<1>3. s \o Append(t, e) \o << >> = s \o Append(t, e)
  BY <1>2, ConcatEmptySeq
<1>4. (s \o t) \o <<e>> = s \o (t \o <<e>>)
  BY <1>1, ConcatAssociative
<1> QED
  BY <1>1, <1>3, <1>4

(* A packet is added at the end.                                           *)
LEMMA JoinedMore ==
  ASSUME NEW S, NEW s \in Seq(S), NEW t \in Seq(S), NEW e \in S
  PROVE  s \o t \o <<e>> = Append(s \o t \o << >>, e)
<1>1. s \o t \in Seq(S)
  BY ConcatProperties
<1>2. s \o t \o << >> = s \o t
  BY <1>1, ConcatEmptySeq
<1>3. Append(s \o t, e) = s \o t \o <<e>>
  BY <1>1, AppendIsConcat
<1> QED
  BY <1>2, <1>3

(* The first packet of the second sequence goes to the first, as e.        *)
LEMMA JoinedAnswer ==
  ASSUME NEW S, NEW s \in Seq(S), NEW t \in Seq(S), NEW u \in Seq(S),
         NEW e \in S, t # << >>, NEW old, old = s \o t \o u,
         NEW new, new = Append(s, e) \o Tail(t) \o u
  PROVE  /\ Len(new) = Len(old)
         /\ Len(s) + 1 \in 1 .. Len(old) /\ old[Len(s) + 1] = Head(t)
         /\ \A k \in 1 .. Len(old) :
              new[k] = IF k = Len(s) + 1 THEN e ELSE old[k]
<1> DEFINE a == Append(s, e)
           b == Tail(t)
<1>1. /\ a \in Seq(S) /\ Len(a) = Len(s) + 1 /\ a[Len(s) + 1] = e
      /\ \A i \in 1 .. Len(s) : a[i] = s[i]
  BY AppendProperties
<1>2. /\ b \in Seq(S) /\ Len(b) = Len(t) - 1
      /\ \A i \in 1 .. Len(b) : b[i] = t[i + 1]
  BY HeadTailProperties
<1>3. Len(t) >= 1 /\ Head(t) = t[1]
  BY EmptySeq
<1> HIDE DEF a, b
<1>4. a \in Seq(S) /\ b \in Seq(S)
  BY <1>1, <1>2
<1>5. /\ Len(a \o b \o u) = Len(a) + Len(b) + Len(u)
      /\ \A k \in 1 .. Len(a) + Len(b) + Len(u) :
           (a \o b \o u)[k] =
             IF k <= Len(a) THEN a[k]
             ELSE IF k <= Len(a) + Len(b) THEN b[k - Len(a)]
             ELSE u[k - Len(a) - Len(b)]
  BY <1>4, Joined
<1>6. /\ Len(s) \in Nat /\ Len(t) \in Nat /\ Len(u) \in Nat
      /\ Len(s \o t \o u) = Len(s) + Len(t) + Len(u)
      /\ \A k \in 1 .. Len(s) + Len(t) + Len(u) :
           (s \o t \o u)[k] =
             IF k <= Len(s) THEN s[k]
             ELSE IF k <= Len(s) + Len(t) THEN t[k - Len(s)]
             ELSE u[k - Len(s) - Len(t)]
  BY Joined
<1> new = a \o b \o u
  BY DEF a, b
<1>7. Len(new) = Len(old) /\ Len(s) + 1 \in 1 .. Len(old)
  BY <1>1, <1>2, <1>3, <1>5, <1>6
<1>8. old[Len(s) + 1] = Head(t)
  BY <1>3, <1>6, <1>7
<1>9. Len(old) = Len(s) + Len(t) + Len(u)
  BY <1>6
<1>10. /\ Len(a) = Len(s) + 1 /\ Len(a) + Len(b) = Len(s) + Len(t)
       /\ Len(s) + 1 <= Len(s) + Len(t)
       /\ 1 .. Len(a) + Len(b) + Len(u) = 1 .. Len(old)
  BY <1>1, <1>2, <1>3, <1>6, <1>9
<1>11. \A k \in 1 .. Len(old) :
         new[k] = IF k <= Len(s) + 1 THEN a[k]
                  ELSE IF k <= Len(s) + Len(t) THEN b[k - Len(a)]
                  ELSE u[k - Len(a) - Len(b)]
  BY <1>5, <1>10, Zenon
<1>12. \A k \in 1 .. Len(old) :
         old[k] = IF k <= Len(s) THEN s[k]
                  ELSE IF k <= Len(s) + Len(t) THEN t[k - Len(s)]
                  ELSE u[k - Len(s) - Len(t)]
  BY <1>6, <1>9, Zenon
<1>13. ASSUME NEW k \in 1 .. Len(old)
       PROVE  new[k] = IF k = Len(s) + 1 THEN e ELSE old[k]
  <2>1. CASE k <= Len(s)
    <3>1. k \in 1 .. Len(s) /\ k <= Len(s) + 1 /\ k # Len(s) + 1
      BY <1>6, <1>9, <2>1
    <3>2. new[k] = a[k] /\ old[k] = s[k] /\ a[k] = s[k]
      BY <1>1, <1>11, <1>12, <2>1, <3>1, Zenon
    <3> QED
      BY <3>1, <3>2
  <2>2. CASE k = Len(s) + 1
    <3>1. k <= Len(s) + 1
      BY <1>6, <2>2
    <3>2. new[k] = a[k] /\ a[k] = e
      BY <1>1, <1>11, <2>2, <3>1, Zenon
    <3> QED
      BY <2>2, <3>2
  <2>3. CASE k > Len(s) + 1 /\ k <= Len(s) + Len(t)
    <3>1. ~ (k <= Len(s) + 1) /\ ~ (k <= Len(s)) /\ k # Len(s) + 1
      BY <1>6, <1>9, <2>3
    <3>2. new[k] = b[k - Len(a)] /\ old[k] = t[k - Len(s)]
      BY <1>11, <1>12, <2>3, <3>1, Zenon
    <3>3. k - Len(a) \in 1 .. Len(b) /\ (k - Len(a)) + 1 = k - Len(s)
      BY <1>1, <1>2, <1>6, <1>9, <2>3
    <3>4. b[k - Len(a)] = t[k - Len(s)]
      BY <1>2, <3>3
    <3> QED
      BY <3>1, <3>2, <3>4
  <2>4. CASE k > Len(s) + Len(t)
    <3>1. /\ ~ (k <= Len(s) + 1) /\ ~ (k <= Len(s)) /\ k # Len(s) + 1
          /\ ~ (k <= Len(s) + Len(t))
      BY <1>3, <1>6, <1>9, <2>4
    <3>2. new[k] = u[k - Len(a) - Len(b)] /\ old[k] = u[k - Len(s) - Len(t)]
      BY <1>11, <1>12, <3>1, Zenon
    <3>3. k - Len(a) - Len(b) = k - Len(s) - Len(t)
      BY <1>1, <1>2, <1>6, <1>9
    <3> QED
      BY <3>1, <3>2, <3>3
  <2>5. k \in Int /\ Len(s) \in Int /\ Len(t) \in Int
    BY <1>6, <1>9
  <2> QED
    BY <2>1, <2>2, <2>3, <2>4, <2>5
<1> QED
  BY <1>7, <1>8, <1>13

(* The first packet of all is taken.                                       *)
LEMMA JoinedTaken ==
  ASSUME NEW S, NEW s \in Seq(S), NEW t \in Seq(S), NEW u \in Seq(S),
         s # << >>, NEW old, old = s \o t \o u,
         NEW new, new = Tail(s) \o t \o u
  PROVE  /\ Len(new) = Len(old) - 1 /\ Len(old) >= 1
         /\ old[1] = Head(s)
         /\ \A k \in 1 .. Len(new) : new[k] = old[k + 1]
<1> DEFINE b == Tail(s)
<1>1. /\ b \in Seq(S) /\ Len(b) = Len(s) - 1
      /\ \A i \in 1 .. Len(b) : b[i] = s[i + 1]
  BY HeadTailProperties
<1>2. Len(s) >= 1 /\ Head(s) = s[1]
  BY EmptySeq
<1> HIDE DEF b
<1>3. b \in Seq(S)
  BY <1>1
<1>4. /\ Len(b \o t \o u) = Len(b) + Len(t) + Len(u)
      /\ \A k \in 1 .. Len(b) + Len(t) + Len(u) :
           (b \o t \o u)[k] =
             IF k <= Len(b) THEN b[k]
             ELSE IF k <= Len(b) + Len(t) THEN t[k - Len(b)]
             ELSE u[k - Len(b) - Len(t)]
  BY <1>3, Joined
<1>5. /\ Len(s) \in Nat /\ Len(t) \in Nat /\ Len(u) \in Nat
      /\ Len(s \o t \o u) = Len(s) + Len(t) + Len(u)
      /\ \A k \in 1 .. Len(s) + Len(t) + Len(u) :
           (s \o t \o u)[k] =
             IF k <= Len(s) THEN s[k]
             ELSE IF k <= Len(s) + Len(t) THEN t[k - Len(s)]
             ELSE u[k - Len(s) - Len(t)]
  BY Joined
<1> new = b \o t \o u
  BY DEF b
<1>6. Len(new) = Len(old) - 1 /\ Len(old) >= 1 /\ old[1] = Head(s)
  BY <1>1, <1>2, <1>4, <1>5
<1>7. ASSUME NEW k \in 1 .. Len(new)
      PROVE  new[k] = old[k + 1]
  <2>1. CASE k <= Len(b)
    BY <1>1, <1>4, <1>5, <2>1
  <2>2. CASE k > Len(b) /\ k <= Len(b) + Len(t)
    BY <1>1, <1>4, <1>5, <2>2
  <2>3. CASE k > Len(b) + Len(t)
    <3>1. /\ new[k] = u[k - Len(b) - Len(t)]
          /\ old[k + 1] = u[(k + 1) - Len(s) - Len(t)]
      BY <1>1, <1>2, <1>4, <1>5, <1>6, <2>3
    <3>2. k - Len(b) - Len(t) = (k + 1) - Len(s) - Len(t)
      BY <1>1, <1>2, <1>5, <2>3
    <3> QED
      BY <3>1, <3>2
  <2> QED
    BY <1>1, <1>2, <1>4, <1>5, <2>1, <2>2, <2>3
<1> QED
  BY <1>6, <1>7 DEF b
----------------------------------------------------------------------------
(* The registers of the lanes and of the core.  A lane's request and the   *)
(* one in its register are the same; a lane without one is ready.          *)
Registered ==
  /\ req \in [Lane -> Op \cup {NoReq}]
  /\ ldst = req
  /\ lane \in [Lane -> {"ready", "sent", "blocked"}]
  /\ answer \in [Lane -> Value]
  /\ \A i \in Lane : lane[i] = "ready" <=> req[i] = NoReq

(* The packets and the bytes outside the core.                             *)
Travelling ==
  /\ port \in Packet \cup {NoReq}
  /\ path \in [Block -> Seq(Packet)]
  /\ back \in [Block -> Seq(Packet)]
  /\ mem \in [Block -> [Byte -> Value]]
  /\ seen \in [Block \X Byte -> Value]

(* p is what was sent for the request r of its lane.                       *)
SentFor(p, r) ==
  /\ r # NoReq /\ r.kind = p.kind /\ r.addr[1] = p.block
  /\ p.kind = "read" => p.mask = Byte
  /\ p.kind = "write" => p.mask = {r.addr[2]} /\ p.data[r.addr[2]] = r.val

(* Every packet outside the core is what was sent for the request its lane *)
(* waits with, and the only one of that lane.                              *)
Matched ==
  /\ \A b \in Block : \A k \in 1 .. Len(Outside(b)) :
       LET p == Outside(b)[k]
       IN  p.block = b /\ ~ queued[p.lane] /\ SentFor(p, req[p.lane])
  /\ \A b, c \in Block :
       \A k \in 1 .. Len(Outside(b)), l \in 1 .. Len(Outside(c)) :
         Outside(b)[k].lane = Outside(c)[l].lane => b = c /\ k = l

(* v[k] is what memory held before it served the k-th of the responses to  *)
(* its block, v[1] what the lanes have seen.                               *)
Contents(b, v) ==
  /\ v \in [1 .. Len(back[b]) + 1 -> [Byte -> Value]]
  /\ \A x \in Byte : v[1][x] = seen[<<b, x>>]
  /\ \A k \in 1 .. Len(back[b]), x \in Byte :
       /\ v[k + 1][x] = IF x \in back[b][k].mask THEN back[b][k].data[x]
                        ELSE v[k][x]
       /\ back[b][k].kind = "read" => v[k + 1][x] = v[k][x]
  /\ v[Len(back[b]) + 1] = mem[b]

Explained == \A b \in Block : \E v : Contents(b, v)

CoreInv ==
  /\ Registered
  /\ Travelling
  /\ Matched
  /\ OneReaderPerBlock
  /\ NobodyForgotten
  /\ Explained

(* The packet at the node, if it is for block b.                           *)
AtNode(b) == IF port # NoReq /\ port.block = b THEN <<port>> ELSE << >>

(* What is outside the core is a sequence of packets.                      *)
LEMMA OutsideIsSeq ==
  ASSUME Travelling, NEW b \in Block
  PROVE  /\ back[b] \in Seq(Packet) /\ path[b] \in Seq(Packet)
         /\ AtNode(b) \in Seq(Packet)
         /\ Outside(b) = back[b] \o path[b] \o AtNode(b)
         /\ Outside(b) \in Seq(Packet) /\ Len(Outside(b)) \in Nat
         /\ DOMAIN Outside(b) = 1 .. Len(Outside(b))
<1>1. back[b] \in Seq(Packet) /\ path[b] \in Seq(Packet)
  BY DEF Travelling
<1>2. AtNode(b) \in Seq(Packet)
  <2>1. CASE port # NoReq /\ port.block = b
    <3>1. port \in Packet
      BY <2>1 DEF Travelling
    <3> QED
      BY <2>1, <3>1 DEF AtNode
  <2>2. CASE ~ (port # NoReq /\ port.block = b)
    BY <2>2 DEF AtNode
  <2> QED
    BY <2>1, <2>2
<1>3. Outside(b) = back[b] \o path[b] \o AtNode(b)
  BY DEF Outside, AtNode
<1>4. Outside(b) \in Seq(Packet)
  BY <1>1, <1>2, <1>3, Joined
<1> QED
  BY <1>1, <1>2, <1>3, <1>4, LenProperties

(* A lane has a packet outside the core.                                   *)
Out(i) == \E b \in Block : \E k \in 1 .. Len(Outside(b)) : Outside(b)[k].lane = i

(* To have asked is to have a packet queued or outside.                    *)
LEMMA AskedIs ==
  ASSUME Travelling, NEW i
  PROVE  Asked(i) <=> queued[i] \/ Out(i)
<1>1. (\E x \in Place : PacketAt(x).lane = i) <=> Out(i)
  <2>1. ASSUME NEW x \in Place, PacketAt(x).lane = i
        PROVE  Out(i)
    <3>1. PICK b \in Block : \E k \in DOMAIN Outside(b) : x = <<b, k>>
      BY DEF Place
    <3>2. PICK k \in DOMAIN Outside(b) : x = <<b, k>>
      BY <3>1
    <3> QED
      BY <2>1, <3>2, OutsideIsSeq DEF PacketAt, Out
  <2>2. ASSUME NEW b \in Block, NEW k \in 1 .. Len(Outside(b)),
               Outside(b)[k].lane = i
        PROVE  \E x \in Place : PacketAt(x).lane = i
    <3>1. <<b, k>> \in Place
      BY OutsideIsSeq DEF Place
    <3>2. PacketAt(<<b, k>>) = Outside(b)[k]
      BY DEF PacketAt
    <3> QED
      BY <2>2, <3>1, <3>2
  <2> QED
    BY <2>1, <2>2 DEF Out
<1> QED
  BY <1>1 DEF Asked

(* Both facts as a formula.                                                *)
Shape ==
  /\ \A b \in Block :
       /\ back[b] \in Seq(Packet) /\ path[b] \in Seq(Packet)
       /\ AtNode(b) \in Seq(Packet)
       /\ Outside(b) = back[b] \o path[b] \o AtNode(b)
       /\ Outside(b) \in Seq(Packet) /\ Len(Outside(b)) \in Nat
       /\ \A k \in 1 .. Len(Outside(b)) : Outside(b)[k] \in Packet
  /\ \A i : Asked(i) <=> queued[i] \/ Out(i)

(* They hold in the next state, too.                                       *)
LEMMA HasShape ==
  /\ Travelling => Shape
  /\ Travelling' => Shape'
<1>1. Travelling => Shape
  BY OutsideIsSeq, AskedIs, ElementOfSeq DEF Shape
<1>2. Travelling' => Shape'
  BY <1>1, PTL
<1> QED
  BY <1>1, <1>2

(* What is invariant says that answers match requests.                     *)
LEMMA MatchedIsMatch ==
  ASSUME Travelling, Matched
  PROVE  AnswersMatchRequests
<1>1. ASSUME NEW x \in Place
      PROVE  \E b \in Block : \E k \in 1 .. Len(Outside(b)) :
               x = <<b, k>> /\ PacketAt(x) = Outside(b)[k]
  <2>1. PICK b \in Block : \E k \in DOMAIN Outside(b) : x = <<b, k>>
    BY DEF Place
  <2>2. PICK k \in DOMAIN Outside(b) : x = <<b, k>>
    BY <2>1
  <2> QED
    BY <2>2, OutsideIsSeq DEF PacketAt
<1>2. ASSUME NEW x \in Place
      PROVE  LET p == PacketAt(x)
             IN  /\ busy(p.lane) /\ ~ queued[p.lane]
                 /\ req[p.lane].kind = p.kind /\ req[p.lane].addr[1] = p.block
  <2>1. PICK b \in Block : \E k \in 1 .. Len(Outside(b)) :
               x = <<b, k>> /\ PacketAt(x) = Outside(b)[k]
    BY <1>1
  <2>2. PICK k \in 1 .. Len(Outside(b)) :
               x = <<b, k>> /\ PacketAt(x) = Outside(b)[k]
    BY <2>1
  <2> QED
    BY <2>2 DEF Matched, SentFor, busy
<1>3. ASSUME NEW x \in Place, NEW y \in Place,
             PacketAt(x).lane = PacketAt(y).lane
      PROVE  x = y
  <2>1. PICK b \in Block : \E k \in 1 .. Len(Outside(b)) :
               x = <<b, k>> /\ PacketAt(x) = Outside(b)[k]
    BY <1>1
  <2>2. PICK k \in 1 .. Len(Outside(b)) :
               x = <<b, k>> /\ PacketAt(x) = Outside(b)[k]
    BY <2>1
  <2>3. PICK c \in Block : \E l \in 1 .. Len(Outside(c)) :
               y = <<c, l>> /\ PacketAt(y) = Outside(c)[l]
    BY <1>1
  <2>4. PICK l \in 1 .. Len(Outside(c)) :
               y = <<c, l>> /\ PacketAt(y) = Outside(c)[l]
    BY <2>3
  <2> QED
    BY <1>3, <2>2, <2>4 DEF Matched
<1> QED
  BY <1>2, <1>3 DEF AnswersMatchRequests
----------------------------------------------------------------------------
(* A packet that moves, or becomes a response, is still that of its lane.  *)
Kept(p, q) ==
  /\ q.lane = p.lane /\ q.kind = p.kind /\ q.block = p.block /\ q.mask = p.mask
  /\ p.kind = "write" => q.data = p.data

(* A step that only moves packets, or makes responses of them, changes     *)
(* nothing for the lanes.                                                  *)
LEMMA MovingKeeps ==
  ASSUME CoreInv, Travelling', UNCHANGED <<req, queued>>,
         \A b \in Block :
           /\ Len(Outside(b)') = Len(Outside(b))
           /\ \A k \in 1 .. Len(Outside(b)) : Kept(Outside(b)[k], Outside(b)'[k])
  PROVE  Matched' /\ OneReaderPerBlock' /\ NobodyForgotten'
<1>1. Shape /\ Shape'
  BY HasShape DEF CoreInv
<1>2. \A b \in Block : \A k \in 1 .. Len(Outside(b)) :
        LET p == Outside(b)[k]
            q == Outside(b)'[k]
        IN  /\ q.lane = p.lane /\ p.block = b /\ ~ queued[p.lane]
            /\ SentFor(p, req[p.lane]) /\ Kept(p, q)
  BY DEF CoreInv, Matched, Kept
<1>3. \A p, q, r : SentFor(p, r) /\ Kept(p, q) => SentFor(q, r)
  BY DEF SentFor, Kept
<1>4. Matched'
  <2>1. ASSUME NEW b \in Block, NEW k \in 1 .. Len(Outside(b)')
        PROVE  LET q == Outside(b)'[k]
               IN  q.block = b /\ ~ queued'[q.lane] /\ SentFor(q, req'[q.lane])
    <3> DEFINE p == Outside(b)[k]
               q == Outside(b)'[k]
    <3>1. k \in 1 .. Len(Outside(b))
      OBVIOUS
    <3>2. /\ q.lane = p.lane /\ p.block = b /\ ~ queued[p.lane]
          /\ SentFor(p, req[p.lane]) /\ Kept(p, q)
      BY <1>2, <3>1
    <3> HIDE DEF p, q
    <3>3. q.block = b /\ ~ queued'[q.lane] /\ SentFor(q, req'[q.lane])
      BY <1>3, <3>2 DEF Kept
    <3> QED
      BY <3>3 DEF q
  <2>2. ASSUME NEW b \in Block, NEW c \in Block,
               NEW k \in 1 .. Len(Outside(b)'), NEW l \in 1 .. Len(Outside(c)'),
               Outside(b)'[k].lane = Outside(c)'[l].lane
        PROVE  b = c /\ k = l
    <3>1. k \in 1 .. Len(Outside(b)) /\ l \in 1 .. Len(Outside(c))
      OBVIOUS
    <3>2. Outside(b)[k].lane = Outside(c)[l].lane
      BY <1>2, <2>2, <3>1
    <3> QED
      BY <3>1, <3>2 DEF CoreInv, Matched
  <2> QED
    BY <2>1, <2>2 DEF Matched
<1>5. \A i : Out(i)' <=> Out(i)
  BY <1>2 DEF Out
<1>6. \A i : Asked(i)' <=> Asked(i)
  BY <1>1, <1>5 DEF Shape
<1>7. OneReaderPerBlock'
  BY <1>6 DEF CoreInv, OneReaderPerBlock, busy
<1>8. NobodyForgotten'
  BY <1>6 DEF CoreInv, NobodyForgotten, busy
<1> QED
  BY <1>4, <1>7, <1>8

(* The node moves its packet on; nothing outside the core changes order.   *)
LEMMA NodeKeeps ==
  ASSUME CoreInv, node_clock
  PROVE  CoreInv'
<1>1. Shape
  BY HasShape DEF CoreInv
<1>2. port \in Packet /\ port # NoReq /\ port.block \in Block
  BY DEF CoreInv, Travelling, node_clock, Packet
<1>3. path' \in [Block -> Seq(Packet)]
  BY <1>2, AppendProperties DEF CoreInv, Travelling, node_clock
<1>4. Travelling'
  BY <1>3 DEF CoreInv, Travelling, node_clock
<1>5. Shape'
  BY <1>4, HasShape
<1>6. ASSUME NEW b \in Block
      PROVE  Outside(b)' = Outside(b)
  <2>1. AtNode(b)' = << >> /\ back'[b] = back[b]
    BY DEF node_clock, AtNode
  <2>2. Outside(b)' = back[b] \o path'[b] \o << >>
    BY <1>5, <2>1 DEF Shape
  <2>3. CASE port.block = b
    <3>1. AtNode(b) = <<port>> /\ path'[b] = Append(path[b], port)
      BY <1>2, <2>3 DEF AtNode, node_clock, CoreInv, Travelling
    <3>2. back[b] \in Seq(Packet) /\ path[b] \in Seq(Packet)
      BY <1>1 DEF Shape
    <3>3. \A s, t \in Seq(Packet), e \in Packet :
            s \o Append(t, e) \o << >> = s \o t \o <<e>>
      BY JoinedMove
    <3>4. back[b] \o Append(path[b], port) \o << >>
            = back[b] \o path[b] \o <<port>>
      BY <1>2, <3>2, <3>3
    <3> QED
      BY <1>1, <2>2, <3>1, <3>4 DEF Shape
  <2>4. CASE port.block # b
    <3>1. AtNode(b) = << >> /\ path'[b] = path[b]
      BY <2>4 DEF AtNode, node_clock, CoreInv, Travelling
    <3> QED
      BY <1>1, <2>2, <3>1 DEF Shape
  <2> QED
    BY <2>3, <2>4
<1>7. \A b \in Block :
        /\ Len(Outside(b)') = Len(Outside(b))
        /\ \A k \in 1 .. Len(Outside(b)) : Kept(Outside(b)[k], Outside(b)'[k])
  BY <1>6 DEF Kept
<1>8. UNCHANGED <<lane, ldst, req, queued, back, mem, seen, answer>>
  BY DEF node_clock
<1>9. Matched' /\ OneReaderPerBlock' /\ NobodyForgotten'
  BY <1>4, <1>7, <1>8, MovingKeeps
<1>10. Registered' /\ Explained'
  BY <1>8 DEF CoreInv, Registered, Explained, Contents
<1> QED
  BY <1>4, <1>9, <1>10 DEF CoreInv

(* What a memory makes of a packet and of its bytes.                       *)
LEMMA ServedPacket ==
  ASSUME NEW p \in Packet, NEW m \in [Byte -> Value]
  PROVE  /\ response(p, m) \in Packet /\ Kept(p, response(p, m))
         /\ written(p, m) \in [Byte -> Value]
         /\ \A x \in Byte :
              /\ written(p, m)[x] =
                   IF x \in response(p, m).mask THEN response(p, m).data[x] ELSE m[x]
              /\ p.kind = "read" => written(p, m)[x] = m[x]
<1> DEFINE d == [x \in Byte |-> IF p.kind = "read" /\ x \in p.mask THEN m[x]
                                ELSE p.data[x]]
           r == response(p, m)
<1>1. /\ p.data \in [Byte -> Value] /\ p.mask \subseteq Byte
      /\ p.kind \in {"read", "write"}
  BY DEF Packet
<1>2. d \in [Byte -> Value]
  BY <1>1
<1>3. /\ r.data = d /\ r.mask = p.mask /\ r.lane = p.lane /\ r.kind = p.kind
      /\ r.block = p.block /\ r \in Packet
  BY <1>2 DEF response, Packet
<1>4. p.kind = "write" => d = p.data
  BY <1>1
<1>5. Kept(p, r)
  BY <1>3, <1>4 DEF Kept
<1>6. written(p, m) \in [Byte -> Value]
  BY <1>1 DEF written
<1>7. ASSUME NEW x \in Byte
      PROVE  /\ written(p, m)[x] = IF x \in p.mask THEN d[x] ELSE m[x]
             /\ p.kind = "read" => written(p, m)[x] = m[x]
  BY <1>1 DEF written
<1> HIDE DEF d, r
<1> QED
  BY <1>3, <1>5, <1>6, <1>7 DEF r

(* A memory serves a packet: it becomes the last of the responses, and the *)
(* bytes are those that it leaves.                                         *)
LEMMA MemoryExplains ==
  ASSUME Travelling, NEW b \in Block, NEW p \in Packet, NEW v, Contents(b, v),
         back' = [back EXCEPT ![b] = Append(@, response(p, mem[b]))],
         mem' = [mem EXCEPT ![b] = written(p, @)],
         seen' = seen
  PROVE  \E w : Contents(b, w)'
<1> DEFINE r == response(p, mem[b])
           n == Len(back[b])
<1>1. mem[b] \in [Byte -> Value] /\ back[b] \in Seq(Packet)
  BY DEF Travelling
<1>2. r \in Packet /\ r.kind = p.kind
  BY <1>1, ServedPacket DEF Kept
<1>3. /\ written(p, mem[b]) \in [Byte -> Value]
      /\ \A x \in Byte :
           /\ written(p, mem[b])[x] = IF x \in r.mask THEN r.data[x]
                                      ELSE mem[b][x]
           /\ p.kind = "read" => written(p, mem[b])[x] = mem[b][x]
  BY <1>1, ServedPacket
<1>4. /\ back'[b] = Append(back[b], r)
      /\ mem'[b] = written(p, mem[b])
  BY DEF Travelling
<1> HIDE DEF r
<1>5. /\ n \in Nat /\ Len(back'[b]) = n + 1 /\ back'[b][n + 1] = r
      /\ \A k \in 1 .. n : back'[b][k] = back[b][k]
  BY <1>1, <1>2, <1>4, AppendProperties, LenProperties
<1> HIDE DEF n
<1>6. /\ v \in [1 .. n + 1 -> [Byte -> Value]] /\ v[n + 1] = mem[b]
      /\ \A x \in Byte : v[1][x] = seen[<<b, x>>]
      /\ \A k \in 1 .. n, x \in Byte :
           /\ v[k + 1][x] = IF x \in back[b][k].mask THEN back[b][k].data[x]
                            ELSE v[k][x]
           /\ back[b][k].kind = "read" => v[k + 1][x] = v[k][x]
  BY DEF Contents, n
<1>7. PICK w : w = [k \in 1 .. n + 2 |-> IF k <= n + 1 THEN v[k]
                                        ELSE written(p, mem[b])]
  OBVIOUS
<1>8. /\ w \in [1 .. n + 2 -> [Byte -> Value]]
      /\ \A k \in 1 .. n + 1 : w[k] = v[k]
      /\ w[n + 2] = written(p, mem[b])
  BY <1>3, <1>5, <1>6, <1>7
<1>9. \A x \in Byte : w[1][x] = seen'[<<b, x>>]
  BY <1>5, <1>6, <1>8
<1>10. ASSUME NEW k \in 1 .. n + 1, NEW x \in Byte
       PROVE  /\ w[k + 1][x] = IF x \in back'[b][k].mask
                               THEN back'[b][k].data[x] ELSE w[k][x]
              /\ back'[b][k].kind = "read" => w[k + 1][x] = w[k][x]
  <2>1. CASE k \in 1 .. n
    <3>1. w[k] = v[k] /\ w[k + 1] = v[k + 1] /\ back'[b][k] = back[b][k]
      BY <1>5, <1>8, <2>1
    <3> QED
      BY <1>6, <2>1, <3>1
  <2>2. CASE k = n + 1
    <3>1. k + 1 = n + 2 /\ w[k] = mem[b] /\ w[k + 1] = written(p, mem[b])
      BY <1>5, <1>6, <1>8, <2>2
    <3>2. back'[b][k] = r
      BY <1>5, <2>2
    <3> QED
      BY <1>2, <1>3, <3>1, <3>2
  <2> QED
    BY <1>5, <2>1, <2>2
<1>11. w[(n + 1) + 1] = mem'[b] /\ (n + 1) + 1 = n + 2
  BY <1>4, <1>5, <1>8
<1>12. Contents(b, w)'
  BY <1>5, <1>8, <1>9, <1>10, <1>11 DEF Contents
<1> QED
  BY <1>12

(* A memory serves the first packet on the way to it.                      *)
LEMMA MemoryKeeps ==
  ASSUME CoreInv, NEW b \in Block, simple_mem_receive(b)
  PROVE  CoreInv'
<1> DEFINE p == Head(path[b])
           r == response(p, mem[b])
<1>1. /\ path[b] \in Seq(Packet) /\ path[b] # << >> /\ back[b] \in Seq(Packet)
      /\ mem[b] \in [Byte -> Value]
  BY DEF CoreInv, Travelling, simple_mem_receive
<1>2. p \in Packet /\ Tail(path[b]) \in Seq(Packet)
  BY <1>1, HeadTailProperties
<1>3. /\ r \in Packet /\ Kept(p, r)
      /\ written(p, mem[b]) \in [Byte -> Value]
  BY <1>1, <1>2, ServedPacket
<1>4. /\ path' = [path EXCEPT ![b] = Tail(@)]
      /\ back' = [back EXCEPT ![b] = Append(@, r)]
      /\ mem' = [mem EXCEPT ![b] = written(p, @)]
      /\ UNCHANGED <<lane, ldst, req, queued, port, seen, answer>>
  BY DEF simple_mem_receive, CoreInv, Travelling
<1> HIDE DEF p, r
<1>5. Append(back[b], r) \in Seq(Packet)
  BY <1>1, <1>3, AppendProperties
<1>6. Travelling'
  BY <1>2, <1>3, <1>4, <1>5 DEF CoreInv, Travelling
<1>7. Shape /\ Shape'
  BY <1>6, HasShape DEF CoreInv
<1>8. ASSUME NEW c \in Block
      PROVE  /\ Len(Outside(c)') = Len(Outside(c))
             /\ \A k \in 1 .. Len(Outside(c)) : Kept(Outside(c)[k], Outside(c)'[k])
  <2>1. AtNode(c)' = AtNode(c)
    BY <1>4 DEF AtNode
  <2>2. CASE c = b
    <3>1. path'[b] = Tail(path[b]) /\ back'[b] = Append(back[b], r)
      BY <1>4 DEF CoreInv, Travelling
    <3>2. /\ Outside(b) = back[b] \o path[b] \o AtNode(b)
          /\ Outside(b)' = Append(back[b], r) \o Tail(path[b]) \o AtNode(b)
          /\ back[b] \in Seq(Packet) /\ path[b] \in Seq(Packet)
          /\ AtNode(b) \in Seq(Packet) /\ r \in Packet /\ path[b] # << >>
      BY <1>1, <1>3, <1>7, <2>1, <2>2, <3>1 DEF Shape
    <3>3. PICK s, t, u, old, new :
            /\ s = back[b] /\ t = path[b] /\ u = AtNode(b)
            /\ old = Outside(b) /\ new = Outside(b)'
      OBVIOUS
    <3>4. /\ s \in Seq(Packet) /\ t \in Seq(Packet) /\ u \in Seq(Packet)
          /\ r \in Packet /\ t # << >> /\ old = s \o t \o u
          /\ new = Append(s, r) \o Tail(t) \o u
      BY <3>2, <3>3
    <3>5. Len(new) = Len(old)
      BY <3>4, JoinedAnswer
    <3>6. Len(s) + 1 \in 1 .. Len(old) /\ old[Len(s) + 1] = Head(t)
      BY <3>4, JoinedAnswer
    <3>7. \A k \in 1 .. Len(old) :
            new[k] = IF k = Len(s) + 1 THEN r ELSE old[k]
      BY <3>4, JoinedAnswer
    <3> QED
      BY <1>3, <2>2, <3>3, <3>5, <3>6, <3>7 DEF Kept, p
  <2>3. CASE c # b
    <3>1. path'[c] = path[c] /\ back'[c] = back[c]
      BY <1>4, <2>3 DEF CoreInv, Travelling
    <3>2. Outside(c)' = Outside(c)
      BY <1>7, <2>1, <3>1 DEF Shape
    <3> QED
      BY <3>2 DEF Kept
  <2> QED
    BY <2>2, <2>3
<1>9. Matched' /\ OneReaderPerBlock' /\ NobodyForgotten'
  BY <1>4, <1>6, <1>8, MovingKeeps
<1>10. Registered'
  BY <1>4 DEF CoreInv, Registered
<1>11. ASSUME NEW c \in Block
       PROVE  \E w : Contents(c, w)'
  <2>1. PICK v : Contents(c, v)
    BY DEF CoreInv, Explained
  <2>2. CASE c = b
    BY <1>2, <1>4, <2>1, <2>2, MemoryExplains DEF CoreInv, r
  <2>3. CASE c # b
    <3>1. back'[c] = back[c] /\ mem'[c] = mem[c] /\ seen' = seen
      BY <1>4, <2>3 DEF CoreInv, Travelling
    <3>2. Contents(c, v)'
      BY <2>1, <3>1 DEF Contents
    <3> QED
      BY <3>2
  <2> QED
    BY <2>2, <2>3
<1>12. Explained'
  BY <1>11 DEF Explained
<1> QED
  BY <1>6, <1>9, <1>10, <1>12 DEF CoreInv

----------------------------------------------------------------------------
(* The answer p is taken, and every lane that waits for it is free.  None  *)
(* of them has another packet under way or queued: of the readers of a     *)
(* block only one has asked for it.                                        *)
LEMMA TakingKeeps ==
  ASSUME CoreInv, Travelling', NEW b \in Block, NEW p,
         Len(Outside(b)) >= 1, p = Outside(b)[1],
         Len(Outside(b)') = Len(Outside(b)) - 1,
         \A k \in 1 .. Len(Outside(b)') : Outside(b)'[k] = Outside(b)[k + 1],
         \A c \in Block \ {b} : Outside(c)' = Outside(c),
         queued' = queued,
         req' = [i \in Lane |-> IF i \in answered(p) THEN NoReq ELSE req[i]]
  PROVE  Matched' /\ OneReaderPerBlock' /\ NobodyForgotten'
<1>1. Shape /\ Shape'
  BY HasShape DEF CoreInv
<1>2. 1 \in 1 .. Len(Outside(b)) /\ Len(Outside(b)) \in Nat /\ p \in Packet
  <2>1. Len(Outside(b)) \in Nat
    BY <1>1 DEF Shape
  <2>2. 1 \in 1 .. Len(Outside(b))
    BY <2>1
  <2>3. Outside(b)[1] \in Packet
    BY <1>1, <2>2 DEF Shape
  <2> QED
    BY <2>1, <2>2, <2>3
<1>3. /\ p.lane \in Lane /\ p.block = b /\ ~ queued[p.lane]
      /\ SentFor(p, req[p.lane]) /\ Out(p.lane)
  BY <1>2 DEF CoreInv, Matched, Out, Packet
<1>4. p.kind = "read" => ReadOf(req[p.lane], b) /\ Asked(p.lane)
  BY <1>1, <1>3 DEF SentFor, ReadOf, Shape
<1>5. ASSUME NEW i \in Lane, i \in answered(p), Asked(i)
      PROVE  i = p.lane
  BY <1>3, <1>4, <1>5 DEF answered, CoreInv, OneReaderPerBlock
<1>6. ASSUME NEW c \in Block, NEW k \in 1 .. Len(Outside(c)')
      PROVE  \E l \in 1 .. Len(Outside(c)) :
               /\ Outside(c)'[k] = Outside(c)[l]
               /\ l = IF c = b THEN k + 1 ELSE k
               /\ Outside(c)[l].lane # p.lane
  <2>1. CASE c = b
    <3>1. k + 1 \in 1 .. Len(Outside(b)) /\ k + 1 # 1
      BY <1>2, <2>1
    <3>2. Outside(b)[k + 1].lane # p.lane
      BY <1>2, <3>1 DEF CoreInv, Matched
    <3> QED
      BY <2>1, <3>1, <3>2
  <2>2. CASE c # b
    <3>1. Outside(c)' = Outside(c)
      BY <2>2
    <3>2. Outside(c)[k].lane # p.lane
      BY <1>2, <2>2, <3>1 DEF CoreInv, Matched
    <3> QED
      BY <2>2, <3>1, <3>2
  <2> QED
    BY <2>1, <2>2
<1>7. ASSUME NEW c \in Block, NEW k \in 1 .. Len(Outside(c)')
      PROVE  LET q == Outside(c)'[k]
             IN  q.block = c /\ ~ queued'[q.lane] /\ SentFor(q, req'[q.lane])
  <2>1. PICK l \in 1 .. Len(Outside(c)) :
           Outside(c)'[k] = Outside(c)[l] /\ Outside(c)[l].lane # p.lane
    BY <1>6
  <2> DEFINE q == Outside(c)[l]
  <2>2. q.block = c /\ ~ queued[q.lane] /\ SentFor(q, req[q.lane])
    BY DEF CoreInv, Matched
  <2>3. q.lane \in Lane /\ Asked(q.lane)
    BY <1>1 DEF Shape, Out, Packet
  <2>4. q.lane \notin answered(p)
    BY <1>5, <2>1, <2>3
  <2>5. req'[q.lane] = req[q.lane]
    BY <2>3, <2>4
  <2> QED
    BY <2>1, <2>2, <2>5
<1>8. ASSUME NEW c \in Block, NEW d \in Block,
             NEW k \in 1 .. Len(Outside(c)'), NEW l \in 1 .. Len(Outside(d)'),
             Outside(c)'[k].lane = Outside(d)'[l].lane
      PROVE  c = d /\ k = l
  <2>1. PICK m \in 1 .. Len(Outside(c)) :
           Outside(c)'[k] = Outside(c)[m] /\ m = IF c = b THEN k + 1 ELSE k
    BY <1>6
  <2>2. PICK n \in 1 .. Len(Outside(d)) :
           Outside(d)'[l] = Outside(d)[n] /\ n = IF d = b THEN l + 1 ELSE l
    BY <1>6
  <2>3. c = d /\ m = n
    BY <1>8, <2>1, <2>2 DEF CoreInv, Matched
  <2> QED
    BY <2>1, <2>2, <2>3
<1>9. Matched'
  BY <1>7, <1>8 DEF Matched
<1>10. ASSUME NEW i, Asked(i)'
       PROVE  Asked(i)
  <2>1. CASE queued'[i]
    BY <1>1, <2>1 DEF Shape
  <2>2. CASE Out(i)'
    <3>1. PICK c \in Block : \E k \in 1 .. Len(Outside(c)') :
             Outside(c)'[k].lane = i
      BY <2>2 DEF Out
    <3>2. PICK k \in 1 .. Len(Outside(c)') : Outside(c)'[k].lane = i
      BY <3>1
    <3>3. \E l \in 1 .. Len(Outside(c)) : Outside(c)[l].lane = i
      BY <1>6, <3>2
    <3>4. Out(i)
      BY <3>3 DEF Out
    <3> QED
      BY <1>1, <3>4 DEF Shape
  <2> QED
    BY <1>1, <1>10, <2>1, <2>2 DEF Shape
<1>11. ASSUME NEW i, Asked(i), i # p.lane
       PROVE  Asked(i)'
  <2>1. CASE queued[i]
    BY <1>1, <2>1 DEF Shape
  <2>2. CASE Out(i)
    <3>1. PICK c \in Block : \E k \in 1 .. Len(Outside(c)) :
             Outside(c)[k].lane = i
      BY <2>2 DEF Out
    <3>2. PICK k \in 1 .. Len(Outside(c)) : Outside(c)[k].lane = i
      BY <3>1
    <3>3. \E l \in 1 .. Len(Outside(c)') : Outside(c)'[l].lane = i
      <4>1. CASE c = b
        <5>1. k # 1
          BY <1>11, <3>2, <4>1
        <5>2. k - 1 \in 1 .. Len(Outside(b)') /\ (k - 1) + 1 = k
          BY <1>2, <4>1, <5>1
        <5> QED
          BY <3>2, <4>1, <5>2
      <4>2. CASE c # b
        BY <3>2, <4>2
      <4> QED
        BY <4>1, <4>2
    <3>4. Out(i)'
      BY <3>3 DEF Out
    <3> QED
      BY <1>1, <3>4 DEF Shape
  <2> QED
    BY <1>1, <1>11, <2>1, <2>2 DEF Shape
<1>12. \A i \in Lane : req'[i] = IF i \in answered(p) THEN NoReq ELSE req[i]
  OBVIOUS
<1>13. OneReaderPerBlock'
  <2>1. ASSUME NEW i \in Lane, NEW j \in Lane, NEW c \in Block,
               ReadOf(req'[i], c), Asked(i)', ReadOf(req'[j], c), Asked(j)'
        PROVE  i = j
    <3>1. ReadOf(req[i], c) /\ ReadOf(req[j], c)
      BY <1>12, <2>1 DEF ReadOf
    <3>2. Asked(i) /\ Asked(j)
      BY <1>10, <2>1
    <3> QED
      BY <3>1, <3>2 DEF CoreInv, OneReaderPerBlock
  <2>2. ASSUME NEW i \in Lane, queued'[i]
        PROVE  busy(i)'
    <3>1. queued[i] /\ Asked(i) /\ i # p.lane
      BY <1>1, <1>3, <2>2 DEF Shape
    <3>2. i \notin answered(p)
      BY <1>5, <3>1
    <3>3. req[i] # NoReq
      BY <3>1 DEF CoreInv, OneReaderPerBlock, busy
    <3> QED
      BY <1>12, <3>2, <3>3 DEF busy
  <2> QED
    BY <2>1, <2>2 DEF OneReaderPerBlock
<1>14. NobodyForgotten'
  <2> SUFFICES ASSUME NEW i \in Lane, busy(i)', ~ Asked(i)'
               PROVE  /\ req'[i].kind = "read"
                      /\ \E j \in Lane : Asked(j)' /\ ReadOf(req'[j], req'[i].addr[1])
    BY DEF NobodyForgotten
  <2>1. i \notin answered(p) /\ req'[i] = req[i] /\ busy(i)
    BY <1>12 DEF busy
  <2>2. i # p.lane
    BY <2>1 DEF answered
  <2>3. ~ Asked(i)
    BY <1>11, <2>2
  <2>4. PICK j \in Lane : Asked(j) /\ ReadOf(req[j], req[i].addr[1])
    BY <2>1, <2>3 DEF CoreInv, NobodyForgotten
  <2>5. req[i].kind = "read"
    BY <2>1, <2>3 DEF CoreInv, NobodyForgotten
  <2>6. j \notin answered(p)
    <3>1. SUFFICES ASSUME j \in answered(p)
                   PROVE  FALSE
      OBVIOUS
    <3>2. j = p.lane
      BY <1>5, <2>4, <3>1
    <3>3. p.kind = "read" /\ req[i].addr[1] = b
      BY <1>3, <2>4, <3>2 DEF SentFor, ReadOf
    <3>4. ReadOf(req[i], p.block)
      BY <1>3, <2>1, <2>5, <3>3 DEF ReadOf, busy
    <3> QED
      BY <2>1, <3>3, <3>4 DEF answered
  <2>7. j # p.lane
    BY <2>6 DEF answered
  <2>8. Asked(j)' /\ req'[j] = req[j]
    BY <1>11, <1>12, <2>4, <2>6, <2>7
  <2> QED
    BY <2>1, <2>4, <2>5, <2>8
<1> QED
  BY <1>9, <1>13, <1>14

(* The lanes have seen what the oldest response brings.                    *)
LEMMA AnswerExplains ==
  ASSUME Travelling, NEW b \in Block, NEW v, Contents(b, v), back[b] # << >>,
         back' = [back EXCEPT ![b] = Tail(@)], mem' = mem,
         seen' = [a \in Block \X Byte |->
           IF a[1] = b /\ a[2] \in Head(back[b]).mask
           THEN Head(back[b]).data[a[2]] ELSE seen[a]]
  PROVE  \E w : Contents(b, w)'
<1> DEFINE n == Len(back[b])
<1>1. back[b] \in Seq(Packet) /\ back'[b] = Tail(back[b])
  BY DEF Travelling
<1>2. /\ n \in Nat \ {0} /\ Len(back'[b]) = n - 1
      /\ \A k \in 1 .. n - 1 : back'[b][k] = back[b][k + 1]
      /\ Head(back[b]) = back[b][1]
  <2>1. PICK s, t : s = back[b] /\ t = back'[b]
    OBVIOUS
  <2>2. s \in Seq(Packet) /\ s # << >> /\ t = Tail(s)
    BY <1>1, <2>1
  <2>3. Len(s) \in Nat \ {0} /\ Head(s) = s[1]
    BY <2>2, EmptySeq
  <2>4. Len(t) = Len(s) - 1
    BY <2>2, HeadTailProperties
  <2>5. \A k \in 1 .. Len(t) : t[k] = s[k + 1]
    BY <2>2, HeadTailProperties
  <2> QED
    BY <2>1, <2>3, <2>4, <2>5
<1> HIDE DEF n
<1>3. /\ v \in [1 .. n + 1 -> [Byte -> Value]] /\ v[n + 1] = mem[b]
      /\ \A x \in Byte : v[1][x] = seen[<<b, x>>]
      /\ \A k \in 1 .. n, x \in Byte :
           /\ v[k + 1][x] = IF x \in back[b][k].mask THEN back[b][k].data[x]
                            ELSE v[k][x]
           /\ back[b][k].kind = "read" => v[k + 1][x] = v[k][x]
  BY DEF Contents, n
<1>4. PICK w : w = [k \in 1 .. n |-> v[k + 1]]
  OBVIOUS
<1>5. w \in [1 .. n -> [Byte -> Value]] /\ \A k \in 1 .. n : w[k] = v[k + 1]
  BY <1>2, <1>3, <1>4
<1>6. ASSUME NEW x \in Byte
      PROVE  w[1][x] = seen'[<<b, x>>]
  <2>1. w[1][x] = v[1 + 1][x]
    BY <1>2, <1>5
  <2>2. v[1 + 1][x] = IF x \in back[b][1].mask THEN back[b][1].data[x]
                      ELSE seen[<<b, x>>]
    BY <1>2, <1>3
  <2>3. seen'[<<b, x>>] = IF x \in back[b][1].mask THEN back[b][1].data[x]
                          ELSE seen[<<b, x>>]
    BY <1>2
  <2> QED
    BY <2>1, <2>2, <2>3
<1>7. ASSUME NEW k \in 1 .. n - 1, NEW x \in Byte
      PROVE  /\ w[k + 1][x] = IF x \in back'[b][k].mask
                              THEN back'[b][k].data[x] ELSE w[k][x]
             /\ back'[b][k].kind = "read" => w[k + 1][x] = w[k][x]
  <2>1. /\ k + 1 \in 1 .. n /\ k \in 1 .. n
        /\ back'[b][k] = back[b][k + 1]
    BY <1>2
  <2>2. w[k + 1] = v[(k + 1) + 1] /\ w[k] = v[k + 1]
    BY <1>5, <2>1
  <2> QED
    BY <1>3, <2>1, <2>2
<1>8. w[(n - 1) + 1] = mem'[b] /\ (n - 1) + 1 = n
  BY <1>2, <1>3, <1>5
<1>9. Contents(b, w)'
  BY <1>2, <1>5, <1>6, <1>7, <1>8 DEF Contents
<1> QED
  BY <1>9

(* The core takes the oldest response of a block.                          *)
LEMMA ResponseKeeps ==
  ASSUME CoreInv, NEW b \in Block, simt_riscv64_handle_response(b)
  PROVE  CoreInv'
<1> DEFINE p == Head(back[b])
<1>1. back[b] \in Seq(Packet) /\ back[b] # << >>
  BY DEF CoreInv, Travelling, simt_riscv64_handle_response
<1>2. p \in Packet /\ Tail(back[b]) \in Seq(Packet)
  BY <1>1, HeadTailProperties
<1>3. /\ req' = [i \in Lane |-> IF i \in answered(p) THEN NoReq ELSE req[i]]
      /\ lane' = [i \in Lane |-> IF i \in answered(p) THEN "ready" ELSE lane[i]]
      /\ ldst' = [i \in Lane |-> IF i \in answered(p) THEN NoReq ELSE ldst[i]]
      /\ answer' = [i \in Lane |-> IF i \in answered(p) THEN restored(p, i)
                                   ELSE answer[i]]
      /\ seen' = [a \in Block \X Byte |->
           IF a[1] = b /\ a[2] \in p.mask THEN p.data[a[2]] ELSE seen[a]]
      /\ back' = [back EXCEPT ![b] = Tail(@)]
      /\ UNCHANGED <<queued, port, path, mem>>
  BY DEF simt_riscv64_handle_response
<1> HIDE DEF p
<1>4. seen' \in [Block \X Byte -> Value]
  <2>1. \A a \in Block \X Byte : a[2] \in Byte /\ seen[a] \in Value
    BY DEF CoreInv, Travelling
  <2>2. p.data \in [Byte -> Value]
    BY <1>2 DEF Packet
  <2> QED
    BY <1>3, <2>1, <2>2
<1>5. Travelling'
  BY <1>2, <1>3, <1>4 DEF CoreInv, Travelling
<1>6. Shape /\ Shape'
  BY <1>5, HasShape DEF CoreInv
<1>7. \A c \in Block : AtNode(c)' = AtNode(c)
  BY <1>3 DEF AtNode
<1>8. \A c \in Block \ {b} : Outside(c)' = Outside(c)
  <2> SUFFICES ASSUME NEW c \in Block \ {b} PROVE Outside(c)' = Outside(c)
    OBVIOUS
  <2>1. path'[c] = path[c] /\ back'[c] = back[c]
    BY <1>3 DEF CoreInv, Travelling
  <2> QED
    BY <1>6, <1>7, <2>1 DEF Shape
<1>9. /\ Len(Outside(b)) >= 1 /\ p = Outside(b)[1]
      /\ Len(Outside(b)') = Len(Outside(b)) - 1
      /\ \A k \in 1 .. Len(Outside(b)') : Outside(b)'[k] = Outside(b)[k + 1]
  <2>1. back'[b] = Tail(back[b]) /\ path'[b] = path[b]
    BY <1>3 DEF CoreInv, Travelling
  <2>2. PICK s, t, u, old, new :
          /\ s = back[b] /\ t = path[b] /\ u = AtNode(b)
          /\ old = Outside(b) /\ new = Outside(b)'
    OBVIOUS
  <2>3. /\ s \in Seq(Packet) /\ t \in Seq(Packet) /\ u \in Seq(Packet)
        /\ s # << >> /\ old = s \o t \o u /\ new = Tail(s) \o t \o u
    BY <1>1, <1>6, <1>7, <2>1, <2>2 DEF Shape
  <2>4. Len(old) >= 1 /\ old[1] = Head(s) /\ Len(new) = Len(old) - 1
    BY <2>3, JoinedTaken
  <2>5. \A k \in 1 .. Len(new) : new[k] = old[k + 1]
    BY <2>3, JoinedTaken
  <2> QED
    BY <2>2, <2>4, <2>5 DEF p
<1>10. Matched' /\ OneReaderPerBlock' /\ NobodyForgotten'
  BY <1>3, <1>5, <1>8, <1>9, TakingKeeps
<1>11. ASSUME NEW i \in Lane, i \in answered(p)
       PROVE  restored(p, i) \in Value
  <2>1. p.lane \in Lane /\ 1 \in 1 .. Len(Outside(b))
    BY <1>2, <1>6, <1>9 DEF Packet, Shape
  <2>2. req[i] # NoReq
    BY <1>9, <1>11, <2>1 DEF answered, ReadOf, CoreInv, Matched, SentFor
  <2>3. req[i].addr[2] \in Byte
    BY <2>2 DEF CoreInv, Registered, Op
  <2> QED
    BY <1>2, <2>3 DEF restored, Packet
<1>12. Registered'
  <2>1. answer' \in [Lane -> Value]
    BY <1>3, <1>11 DEF CoreInv, Registered
  <2> QED
    BY <1>3, <2>1 DEF CoreInv, Registered
<1>13. ASSUME NEW c \in Block
       PROVE  \E w : Contents(c, w)'
  <2>1. PICK v : Contents(c, v)
    BY DEF CoreInv, Explained
  <2>2. CASE c = b
    BY <1>1, <1>3, <2>1, <2>2, AnswerExplains DEF CoreInv, p
  <2>3. CASE c # b
    <3>1. back'[c] = back[c] /\ mem' = mem
      BY <1>3, <2>3 DEF CoreInv, Travelling
    <3>2. \A x \in Byte : seen'[<<c, x>>] = seen[<<c, x>>]
      BY <1>3, <2>3
    <3>3. Contents(c, v)'
      BY <2>1, <3>1, <3>2 DEF Contents
    <3> QED
      BY <3>3
  <2> QED
    BY <2>2, <2>3
<1>14. Explained'
  BY <1>13 DEF Explained
<1> QED
  BY <1>5, <1>10, <1>12, <1>14 DEF CoreInv
----------------------------------------------------------------------------
(* The lanes are clocked, and lane i SENDs want[i].                        *)
Clocked(want) ==
  /\ \A i \in Lane : want[i] \in wants(i)
  /\ receive_requests(want)
  /\ UNCHANGED <<path, back, mem, seen>>

(* The requests that go to the node in this clock: one at most.            *)
leaves(want) == flushed \cup goesOut(want)

(* A lane that SENDs is ready or repeats the request in its register.      *)
LEMMA Wanted ==
  ASSUME CoreInv, NEW want, \A i \in Lane : want[i] \in wants(i),
         NEW i \in Lane, want[i] # NoReq
  PROVE  /\ want[i] \in Op
         /\ \/ req[i] = NoReq /\ lane[i] = "ready" /\ i \in stored(want)
            \/ /\ req[i] # NoReq /\ lane[i] # "ready" /\ want[i] = req[i]
               /\ i \notin stored(want)
<1>1. want[i] \in wants(i)
  OBVIOUS
<1>2. CASE lane[i] = "ready"
  <2>1. req[i] = NoReq
    BY <1>2 DEF CoreInv, Registered
  <2>2. PICK o \in Ops :
          o[1] = i /\ want[i] = [kind |-> o[2], addr |-> <<o[3], o[4]>>,
                      val |-> IF o[2] = "write" THEN i ELSE InitValue]
    BY <1>1, <1>2 DEF wants
  <2>3. o[2] \in {"read", "write"} /\ o[3] \in Block /\ o[4] \in Byte
    BY CoreAssumption DEF Lane
  <2>4. i \in Value /\ InitValue \in Value
    BY DEF Value
  <2>5. want[i] \in Op
    BY <2>2, <2>3, <2>4 DEF Op
  <2> QED
    BY <1>2, <2>1, <2>5 DEF stored, busy
<1>3. CASE lane[i] = "blocked"
  <2>1. want[i] = req[i]
    BY <1>1, <1>3 DEF wants, CoreInv, Registered
  <2> QED
    BY <1>3, <2>1 DEF stored, busy, CoreInv, Registered
<1>4. CASE lane[i] = "sent"
  BY <1>1, <1>4 DEF wants
<1> QED
  BY <1>2, <1>3, <1>4 DEF CoreInv, Registered

(* What the clock does to the registers.                                   *)
LEMMA ClockedRegisters ==
  ASSUME CoreInv, NEW want, Clocked(want)
  PROVE  /\ Registered'
         /\ \A i \in Lane : req'[i] = IF i \in stored(want) THEN want[i] ELSE req[i]
         /\ \A i \in Lane : queued'[i] <=>
              IF i \in stored(want) THEN i \notin rides(want) \cup goesOut(want)
              ELSE queued[i] /\ i \notin flushed
<1> DEFINE refused == {i \in Lane : want[i] # NoReq} \ (rides(want) \cup goesOut(want))
<1>1. /\ req' = [i \in Lane |-> IF i \in stored(want) THEN want[i] ELSE req[i]]
      /\ queued' = [i \in Lane |-> IF i \in stored(want) THEN i \in refused
                                   ELSE queued[i] /\ i \notin flushed]
      /\ lane' = [i \in Lane |-> IF want[i] = NoReq THEN lane[i]
                                 ELSE IF i \in refused THEN "blocked" ELSE "sent"]
      /\ ldst' = [i \in Lane |-> IF want[i] = NoReq THEN ldst[i] ELSE want[i]]
      /\ answer' = [i \in Lane |-> IF want[i] # NoReq /\ lane[i] = "ready"
                                   THEN InitValue ELSE answer[i]]
  BY DEF Clocked, receive_requests
<1>2. \A i \in stored(want) : i \in Lane /\ want[i] # NoReq
  BY DEF stored
<1>3. \A i \in Lane : req'[i] = IF i \in stored(want) THEN want[i] ELSE req[i]
  BY <1>1
<1>4. ASSUME NEW i \in Lane
      PROVE  queued'[i] <=>
               IF i \in stored(want) THEN i \notin rides(want) \cup goesOut(want)
               ELSE queued[i] /\ i \notin flushed
  <2>1. queued'[i] = IF i \in stored(want) THEN i \in refused
                     ELSE queued[i] /\ i \notin flushed
    BY <1>1
  <2>2. CASE i \in stored(want)
    BY <1>2, <2>1, <2>2
  <2>3. CASE i \notin stored(want)
    BY <2>1, <2>3
  <2> QED
    BY <2>2, <2>3
<1> HIDE DEF refused
<1>5. ASSUME NEW i \in Lane
      PROVE  /\ req'[i] \in Op \cup {NoReq} /\ ldst'[i] = req'[i]
             /\ lane'[i] \in {"ready", "sent", "blocked"}
             /\ answer'[i] \in Value
             /\ lane'[i] = "ready" <=> req'[i] = NoReq
  <2>1. InitValue \in Value
    BY DEF Value
  <2>2. CASE want[i] = NoReq
    <3>1. i \notin stored(want)
      BY <2>2 DEF stored
    <3> QED
      BY <1>1, <2>1, <2>2, <3>1 DEF CoreInv, Registered
  <2>3. CASE want[i] # NoReq
    <3>1. /\ want[i] \in Op
          /\ i \in stored(want) \/ want[i] = req[i]
      BY <2>3, Wanted DEF Clocked
    <3>2. req'[i] = want[i] /\ ldst'[i] = want[i]
      BY <1>1, <2>3, <3>1
    <3>3. lane'[i] \in {"sent", "blocked"} /\ answer'[i] \in Value
      BY <1>1, <2>1, <2>3 DEF CoreInv, Registered
    <3> QED
      BY <2>3, <3>1, <3>2, <3>3
  <2> QED
    BY <2>2, <2>3
<1>6. /\ req' \in [Lane -> Op \cup {NoReq}] /\ ldst' = req'
      /\ lane' \in [Lane -> {"ready", "sent", "blocked"}]
      /\ answer' \in [Lane -> Value]
  BY <1>1, <1>5
<1> QED
  BY <1>3, <1>4, <1>5, <1>6 DEF Registered

(* What is sent for a request.                                             *)
LEMMA SendsPacket ==
  ASSUME NEW i \in Lane, NEW r \in Op
  PROVE  /\ ext_send(i, r) \in Packet /\ ext_send(i, r).lane = i
         /\ ext_send(i, r).block = r.addr[1] /\ SentFor(ext_send(i, r), r)
<1>1. /\ r.kind \in {"read", "write"} /\ r.addr[1] \in Block
      /\ r.addr[2] \in Byte /\ r.val \in Value
  BY DEF Op
<1>2. InitValue \in Value
  BY DEF Value
<1>3. [x \in Byte |-> IF x = r.addr[2] THEN r.val ELSE InitValue]
        \in [Byte -> Value]
  BY <1>1, <1>2
<1>4. ext_send(i, r) \in Packet
  BY <1>1, <1>3 DEF ext_send, Packet
<1>5. r # NoReq
  BY NoReqAssumption
<1>6. SentFor(ext_send(i, r), r)
  BY <1>1, <1>5 DEF SentFor, ext_send
<1> QED
  BY <1>4, <1>6 DEF ext_send

(* The node gets the first queued request, or the first of the new ones    *)
(* that do not ride along, if it has room, or none.                        *)
LEMMA Leaving ==
  ASSUME CoreInv, NEW want, Clocked(want)
  PROVE  /\ flushed \subseteq {i \in Lane : queued[i]}
         /\ goesOut(want) \subseteq stored(want) \ rides(want)
         /\ \/ leaves(want) = {} /\ port' = port
            \/ \E i \in Lane :
                 /\ leaves(want) = {i} /\ port = NoReq
                 /\ req'[i] \in Op /\ port' = ext_send(i, req'[i])
<1>1. flushed = {} \/ (port = NoReq /\ \E i \in Lane : queued[i] /\ flushed = {i})
  BY LowestLane DEF flushed
<1>2. \/ goesOut(want) = {}
      \/ /\ port = NoReq /\ flushed = {}
         /\ \E i \in stored(want) \ rides(want) : goesOut(want) = {i}
  BY LowestLane DEF goesOut, stored
<1>3. port' = CASE flushed # {} ->
                     LET i == Min(flushed) IN ext_send(i, req[i])
                [] goesOut(want) # {} ->
                     LET i == Min(goesOut(want)) IN ext_send(i, want[i])
                [] OTHER -> port
  BY DEF Clocked, receive_requests
<1>4. \A i \in Lane : req'[i] = IF i \in stored(want) THEN want[i] ELSE req[i]
  BY ClockedRegisters
<1>5. CASE flushed # {}
  <2>1. PICK i \in Lane : queued[i] /\ flushed = {i} /\ port = NoReq
    BY <1>1, <1>5
  <2>2. Min(flushed) = i
    <3>1. flushed \in SUBSET Lane /\ flushed # {}
      BY <2>1
    <3>2. Min(flushed) \in flushed
      BY <3>1, LowestLane
    <3> QED
      BY <2>1, <3>2
  <2>3. goesOut(want) = {}
    BY <1>2, <1>5
  <2>4. req[i] # NoReq
    BY <2>1 DEF CoreInv, OneReaderPerBlock, busy
  <2>5. i \notin stored(want) /\ req[i] \in Op
    BY <2>4 DEF stored, busy, CoreInv, Registered
  <2>6. req'[i] = req[i]
    BY <1>4, <2>1, <2>5
  <2>7. port' = ext_send(Min(flushed), req[Min(flushed)])
    BY <1>3, <1>5, <2>3
  <2>8. req'[i] \in Op /\ port' = ext_send(i, req'[i])
    BY <2>2, <2>5, <2>6, <2>7
  <2> QED
    BY <2>1, <2>3, <2>8 DEF leaves
<1>6. CASE flushed = {} /\ goesOut(want) # {}
  <2>1. PICK i \in stored(want) \ rides(want) : goesOut(want) = {i} /\ port = NoReq
    BY <1>2, <1>6
  <2>2. i \in Lane /\ want[i] # NoReq
    BY <2>1 DEF stored
  <2>3. Min(goesOut(want)) = i
    <3>1. goesOut(want) \in SUBSET Lane /\ goesOut(want) # {}
      BY <2>1, <2>2
    <3>2. Min(goesOut(want)) \in goesOut(want)
      BY <3>1, LowestLane
    <3> QED
      BY <2>1, <3>2
  <2>4. want[i] \in Op
    BY <2>2, Wanted DEF Clocked
  <2>5. req'[i] \in Op /\ port' = ext_send(i, req'[i])
    BY <1>3, <1>4, <1>6, <2>2, <2>3, <2>4
  <2> QED
    BY <1>6, <2>1, <2>2, <2>5 DEF leaves
<1>7. CASE flushed = {} /\ goesOut(want) = {}
  BY <1>3, <1>7 DEF leaves
<1> QED
  BY <1>5, <1>6, <1>7

(* What leaves the core is added at the end of what is outside.            *)
LEMMA ClockedOutside ==
  ASSUME CoreInv, NEW want, Clocked(want)
  PROVE  /\ Travelling' /\ Shape'
         /\ \A b \in Block :
              /\ Len(Outside(b)) <= Len(Outside(b)')
              /\ \A k \in 1 .. Len(Outside(b)) : Outside(b)'[k] = Outside(b)[k]
              /\ \A k \in 1 .. Len(Outside(b)') :
                   \/ k \in 1 .. Len(Outside(b))
                   \/ /\ k = Len(Outside(b)) + 1 /\ Outside(b)'[k] = port'
                      /\ port'.lane \in leaves(want) /\ port'.block = b
                      /\ SentFor(port', req'[port'.lane])
         /\ \A i \in Lane : Out(i)' <=> Out(i) \/ i \in leaves(want)
<1>1. UNCHANGED <<path, back, mem, seen>> /\ Shape
  BY HasShape DEF Clocked, CoreInv
<1>2. CASE leaves(want) = {}
  <2>1. port' = port
    BY <1>2, Leaving
  <2>2. Travelling'
    BY <1>1, <2>1 DEF CoreInv, Travelling
  <2>3. Shape'
    BY <2>2, HasShape
  <2>4. \A b \in Block : Outside(b)' = Outside(b)
    BY <1>1, <2>1 DEF Outside
  <2>6. \A b \in Block : Len(Outside(b)) \in Nat
    BY <1>1 DEF Shape
  <2> QED
    BY <1>2, <2>2, <2>3, <2>4, <2>6 DEF Out
<1>3. ASSUME NEW i \in Lane, leaves(want) = {i}, port = NoReq,
             req'[i] \in Op, port' = ext_send(i, req'[i])
      PROVE  /\ Travelling' /\ Shape'
             /\ \A b \in Block :
                  /\ Len(Outside(b)) <= Len(Outside(b)')
                  /\ \A k \in 1 .. Len(Outside(b)) :
                       Outside(b)'[k] = Outside(b)[k]
                  /\ \A k \in 1 .. Len(Outside(b)') :
                       \/ k \in 1 .. Len(Outside(b))
                       \/ /\ k = Len(Outside(b)) + 1 /\ Outside(b)'[k] = port'
                          /\ port'.lane \in leaves(want) /\ port'.block = b
                          /\ SentFor(port', req'[port'.lane])
             /\ \A j \in Lane : Out(j)' <=> Out(j) \/ j \in leaves(want)
  <2>1. /\ port' \in Packet /\ port'.lane = i /\ port'.block \in Block
        /\ SentFor(port', req'[i]) /\ port' # NoReq
    <3>1. \A r \in Op : /\ ext_send(i, r) \in Packet /\ ext_send(i, r).lane = i
                        /\ SentFor(ext_send(i, r), r)
      BY SendsPacket
    <3> QED
      BY <1>3, <3>1, NoReqAssumption DEF Packet
  <2>2. Travelling'
    BY <1>1, <2>1 DEF CoreInv, Travelling
  <2>3. Shape'
    BY <2>2, HasShape
  <2>4. ASSUME NEW b \in Block, b # port'.block
        PROVE  Outside(b)' = Outside(b)
    <3>1. AtNode(b) = << >> /\ AtNode(b)' = << >>
      BY <1>3, <2>4 DEF AtNode
    <3> QED
      BY <1>1, <2>3, <3>1 DEF Shape
  <2>5. PICK c \in Block : c = port'.block
    BY <2>1
  <2>6. /\ Len(Outside(c)) \in Nat /\ Len(Outside(c)') = Len(Outside(c)) + 1
        /\ \A k \in 1 .. Len(Outside(c)) : Outside(c)'[k] = Outside(c)[k]
        /\ Outside(c)'[Len(Outside(c)) + 1] = port'
    <3>1. PICK s, t, e, old, new :
            /\ s = back[c] /\ t = path[c] /\ e = port'
            /\ old = Outside(c) /\ new = Outside(c)'
      OBVIOUS
    <3>2. s \in Seq(Packet) /\ t \in Seq(Packet) /\ e \in Packet
      BY <2>1, <3>1 DEF CoreInv, Travelling
    <3>3. AtNode(c) = << >> /\ AtNode(c)' = <<e>>
      BY <1>3, <2>1, <2>5, <3>1 DEF AtNode
    <3>4. old = s \o t \o << >> /\ new = s \o t \o <<e>>
      BY <1>1, <2>3, <3>1, <3>3 DEF Shape
    <3>5. new = Append(old, e)
      BY <3>2, <3>4, JoinedMore
    <3>6. old \in Seq(Packet)
      BY <1>1, <3>1 DEF Shape
    <3>7. Len(old) \in Nat /\ Len(new) = Len(old) + 1
      BY <3>2, <3>5, <3>6, AppendProperties, LenProperties
    <3>8. \A k \in 1 .. Len(old) : new[k] = old[k]
      BY <3>2, <3>5, <3>6, AppendProperties
    <3>9. new[Len(old) + 1] = e
      BY <3>2, <3>5, <3>6, AppendProperties
    <3> QED
      BY <3>1, <3>7, <3>8, <3>9
  <2>7. ASSUME NEW b \in Block
        PROVE  /\ Len(Outside(b)) <= Len(Outside(b)')
               /\ \A k \in 1 .. Len(Outside(b)) : Outside(b)'[k] = Outside(b)[k]
               /\ \A k \in 1 .. Len(Outside(b)') :
                    \/ k \in 1 .. Len(Outside(b))
                    \/ /\ k = Len(Outside(b)) + 1 /\ Outside(b)'[k] = port'
                       /\ port'.lane \in leaves(want) /\ port'.block = b
                       /\ SentFor(port', req'[port'.lane])
    <3>1. CASE b = c
      <4>1. \A k \in 1 .. Len(Outside(c)') :
              k \in 1 .. Len(Outside(c)) \/ k = Len(Outside(c)) + 1
        BY <2>6
      <4> QED
        BY <1>3, <2>1, <2>6, <2>5, <3>1, <4>1
    <3>2. CASE b # c
      <4>1. Outside(b)' = Outside(b) /\ Len(Outside(b)) \in Nat
        BY <1>1, <2>4, <2>5, <3>2 DEF Shape
      <4> QED
        BY <4>1
    <3> QED
      BY <3>1, <3>2
  <2>8. ASSUME NEW j \in Lane
        PROVE  Out(j)' <=> Out(j) \/ j = i
    <3>1. ASSUME Out(j)
          PROVE  Out(j)'
      <4>1. PICK b \in Block : \E k \in 1 .. Len(Outside(b)) :
                                 Outside(b)[k].lane = j
        BY <3>1 DEF Out
      <4>2. PICK k \in 1 .. Len(Outside(b)) : Outside(b)[k].lane = j
        BY <4>1
      <4>3. k \in 1 .. Len(Outside(b)') /\ Outside(b)'[k].lane = j
        BY <1>1, <2>3, <2>7, <4>2 DEF Shape
      <4> QED
        BY <4>3 DEF Out
    <3>2. ASSUME j = i
          PROVE  Out(j)'
      <4>1. Len(Outside(c)) + 1 \in 1 .. Len(Outside(c)')
        BY <2>6
      <4>2. Outside(c)'[Len(Outside(c)) + 1].lane = j
        BY <2>1, <2>6, <3>2
      <4> QED
        BY <2>5, <4>1, <4>2 DEF Out
    <3>3. ASSUME Out(j)', j # i
          PROVE  Out(j)
      <4>1. PICK b \in Block : \E k \in 1 .. Len(Outside(b)') :
                                 Outside(b)'[k].lane = j
        BY <3>3 DEF Out
      <4>2. PICK k \in 1 .. Len(Outside(b)') : Outside(b)'[k].lane = j
        BY <4>1
      <4>3. k \in 1 .. Len(Outside(b)) /\ Outside(b)[k].lane = j
        BY <2>1, <2>7, <3>3, <4>2
      <4> QED
        BY <4>3 DEF Out
    <3> QED
      BY <3>1, <3>2, <3>3
  <2> QED
    BY <1>3, <2>2, <2>3, <2>7, <2>8
<1> QED
  BY <1>2, <1>3, Leaving

(* A new request asks unless it rides along; the others ask as before.     *)
LEMMA ClockAsks ==
  ASSUME CoreInv, NEW want, Clocked(want)
  PROVE  /\ \A i \in leaves(want) : i \in Lane /\ ~ Out(i) /\ ~ queued'[i]
         /\ \A i \in stored(want) :
              /\ i \in Lane /\ req[i] = NoReq /\ want[i] # NoReq
              /\ req'[i] = want[i] /\ (Asked(i)' <=> i \notin rides(want))
         /\ \A i \in Lane \ stored(want) :
              /\ req'[i] = req[i] /\ (queued'[i] => queued[i])
              /\ Asked(i)' <=> Asked(i)
<1>1. /\ \A i \in Lane : req'[i] = IF i \in stored(want) THEN want[i] ELSE req[i]
      /\ \A i \in Lane : queued'[i] <=>
           IF i \in stored(want) THEN i \notin rides(want) \cup goesOut(want)
           ELSE queued[i] /\ i \notin flushed
  BY ClockedRegisters
<1>2. /\ Shape /\ Shape'
      /\ \A i \in Lane : Out(i)' <=> Out(i) \/ i \in leaves(want)
  BY ClockedOutside, HasShape DEF CoreInv
<1>3. /\ flushed \subseteq {i \in Lane : queued[i]}
      /\ goesOut(want) \subseteq stored(want) \ rides(want)
  BY Leaving
<1>4. ASSUME NEW i \in Lane, Out(i)
      PROVE  req[i] # NoReq /\ ~ queued[i]
  BY <1>4 DEF Out, CoreInv, Matched, SentFor
<1>5. \A i \in Lane : queued[i] => req[i] # NoReq
  BY DEF CoreInv, OneReaderPerBlock, busy
<1>6. \A i \in stored(want) : i \in Lane /\ req[i] = NoReq /\ want[i] # NoReq
  BY DEF stored, busy
<1>7. ASSUME NEW i \in leaves(want)
      PROVE  i \in Lane /\ ~ Out(i) /\ ~ queued'[i]
  <2>1. CASE i \in flushed
    BY <1>1, <1>3, <1>4, <1>5, <1>6, <2>1
  <2>2. CASE i \in goesOut(want)
    BY <1>1, <1>3, <1>4, <1>6, <2>2
  <2> QED
    BY <2>1, <2>2 DEF leaves
<1>8. ASSUME NEW i \in stored(want)
      PROVE  /\ req'[i] = want[i] /\ (Asked(i)' <=> i \notin rides(want))
  <2>1. ~ Out(i) /\ i \notin flushed
    BY <1>3, <1>4, <1>5, <1>6
  <2>2. Asked(i)' <=> queued'[i] \/ i \in goesOut(want)
    BY <1>2, <1>6, <2>1 DEF Shape, leaves
  <2> QED
    BY <1>1, <1>3, <1>6, <2>2
<1>9. ASSUME NEW i \in Lane \ stored(want)
      PROVE  /\ req'[i] = req[i] /\ (queued'[i] => queued[i])
             /\ Asked(i)' <=> Asked(i)
  <2>1. i \notin goesOut(want)
    BY <1>3
  <2>2. Asked(i)' <=> queued'[i] \/ Out(i) \/ i \in flushed
    BY <1>2, <2>1 DEF Shape, leaves
  <2>3. Asked(i) <=> queued[i] \/ Out(i)
    BY <1>2 DEF Shape
  <2> QED
    BY <1>1, <1>3, <2>2, <2>3
<1> QED
  BY <1>6, <1>7, <1>8, <1>9

(* The packet that leaves is the only one of its lane.                     *)
LEMMA ClockMatches ==
  ASSUME CoreInv, NEW want, Clocked(want)
  PROVE  Matched'
<1>1. /\ \A i \in leaves(want) : i \in Lane /\ ~ Out(i) /\ ~ queued'[i]
      /\ \A i \in stored(want) : req[i] = NoReq
      /\ \A i \in Lane \ stored(want) :
           req'[i] = req[i] /\ (queued'[i] => queued[i])
  BY ClockAsks
<1>2. \A b \in Block :
        /\ \A k \in 1 .. Len(Outside(b)) : Outside(b)'[k] = Outside(b)[k]
        /\ \A k \in 1 .. Len(Outside(b)') :
             \/ k \in 1 .. Len(Outside(b))
             \/ /\ k = Len(Outside(b)) + 1 /\ Outside(b)'[k] = port'
                /\ port'.lane \in leaves(want) /\ port'.block = b
                /\ SentFor(port', req'[port'.lane])
  BY ClockedOutside
<1>3. Shape
  BY HasShape DEF CoreInv
<1>4. ASSUME NEW b \in Block, NEW k \in 1 .. Len(Outside(b))
      PROVE  LET p == Outside(b)[k]
             IN  /\ p.lane \in Lane /\ p.lane \notin leaves(want)
                 /\ p.block = b /\ ~ queued'[p.lane] /\ SentFor(p, req'[p.lane])
  <2> DEFINE p == Outside(b)[k]
  <2>1. p.lane \in Lane /\ Out(p.lane)
    BY <1>3 DEF Shape, Packet, Out
  <2>2. p.block = b /\ ~ queued[p.lane] /\ SentFor(p, req[p.lane])
    BY DEF CoreInv, Matched
  <2>3. p.lane \notin stored(want)
    BY <1>1, <2>2 DEF SentFor
  <2> QED
    BY <1>1, <2>1, <2>2, <2>3
<1>5. ASSUME NEW b \in Block, NEW k \in 1 .. Len(Outside(b)')
      PROVE  LET p == Outside(b)'[k]
             IN  p.block = b /\ ~ queued'[p.lane] /\ SentFor(p, req'[p.lane])
  <2>1. CASE k \in 1 .. Len(Outside(b))
    BY <1>2, <1>4, <2>1
  <2>2. CASE k \notin 1 .. Len(Outside(b))
    BY <1>1, <1>2, <2>2
  <2> QED
    BY <2>1, <2>2
<1>6. ASSUME NEW b \in Block, NEW c \in Block,
             NEW k \in 1 .. Len(Outside(b)'), NEW l \in 1 .. Len(Outside(c)'),
             Outside(b)'[k].lane = Outside(c)'[l].lane
      PROVE  b = c /\ k = l
  <2>1. CASE k \in 1 .. Len(Outside(b)) /\ l \in 1 .. Len(Outside(c))
    BY <1>2, <1>6, <2>1 DEF CoreInv, Matched
  <2>2. CASE k \in 1 .. Len(Outside(b)) /\ l \notin 1 .. Len(Outside(c))
    BY <1>2, <1>4, <1>6, <2>2
  <2>3. CASE k \notin 1 .. Len(Outside(b)) /\ l \in 1 .. Len(Outside(c))
    BY <1>2, <1>4, <1>6, <2>3
  <2>4. CASE k \notin 1 .. Len(Outside(b)) /\ l \notin 1 .. Len(Outside(c))
    BY <1>2, <2>4
  <2> QED
    BY <2>1, <2>2, <2>3, <2>4
<1> QED
  BY <1>5, <1>6 DEF Matched

(* A read of a block that another lane reads rides along, so only one of   *)
(* them asks.                                                              *)
LEMMA ClockKeepsOneReader ==
  ASSUME CoreInv, NEW want, Clocked(want)
  PROVE  OneReaderPerBlock'
<1>1. /\ \A i \in stored(want) :
           /\ i \in Lane /\ want[i] # NoReq
           /\ req'[i] = want[i] /\ (Asked(i)' <=> i \notin rides(want))
      /\ \A i \in Lane \ stored(want) :
           /\ req'[i] = req[i] /\ (queued'[i] => queued[i])
           /\ Asked(i)' <=> Asked(i)
  BY ClockAsks
<1>2. ASSUME NEW i \in Lane, NEW j \in Lane, NEW b \in Block, i # j,
             ReadOf(req'[i], b), Asked(i)', ReadOf(req'[j], b), Asked(j)'
      PROVE  FALSE
  <2>1. CASE i \notin stored(want) /\ j \notin stored(want)
    BY <1>1, <1>2, <2>1 DEF CoreInv, OneReaderPerBlock
  <2>2. CASE i \in stored(want) /\ j \notin stored(want)
    <3>1. i \in rides(want)
      BY <1>1, <1>2, <2>2 DEF rides, ReadOf
    <3> QED
      BY <1>1, <1>2, <2>2, <3>1
  <2>3. CASE i \notin stored(want) /\ j \in stored(want)
    <3>1. j \in rides(want)
      BY <1>1, <1>2, <2>3 DEF rides, ReadOf
    <3> QED
      BY <1>1, <1>2, <2>3, <3>1
  <2>4. CASE i \in stored(want) /\ j \in stored(want)
    <3>1. i < j \/ j < i
      BY <1>2, CoreAssumption DEF Lane
    <3>2. CASE j < i
      <4>1. i \in rides(want)
        BY <1>1, <1>2, <2>4, <3>2 DEF rides, ReadOf
      <4> QED
        BY <1>1, <1>2, <2>4, <4>1
    <3>3. CASE i < j
      <4>1. j \in rides(want)
        BY <1>1, <1>2, <2>4, <3>3 DEF rides, ReadOf
      <4> QED
        BY <1>1, <1>2, <2>4, <4>1
    <3> QED
      BY <3>1, <3>2, <3>3
  <2> QED
    BY <2>1, <2>2, <2>3, <2>4
<1>3. ASSUME NEW i \in Lane, queued'[i]
      PROVE  busy(i)'
  BY <1>1, <1>3 DEF busy, CoreInv, OneReaderPerBlock
<1> QED
  BY <1>2, <1>3 DEF OneReaderPerBlock

(* The lowest of the lanes that read a block anew asks for it if none did. *)
LEMMA ClockForgetsNobody ==
  ASSUME CoreInv, NEW want, Clocked(want)
  PROVE  NobodyForgotten'
<1>1. /\ \A i \in stored(want) :
           /\ i \in Lane /\ req[i] = NoReq /\ want[i] # NoReq
           /\ req'[i] = want[i] /\ (Asked(i)' <=> i \notin rides(want))
      /\ \A i \in Lane \ stored(want) :
           /\ req'[i] = req[i]
           /\ Asked(i)' <=> Asked(i)
  BY ClockAsks
<1>2. ASSUME NEW j \in Lane, NEW b, ReadOf(req[j], b)
      PROVE  \E k \in Lane : Asked(k)' /\ ReadOf(req'[k], b)
  <2>1. PICK k \in Lane : Asked(k) /\ ReadOf(req[k], b)
    BY <1>2 DEF ReadOf, CoreInv, NobodyForgotten, busy
  <2>2. k \notin stored(want)
    BY <1>1, <2>1 DEF ReadOf
  <2> QED
    BY <1>1, <2>1, <2>2
<1>3. ASSUME NEW i \in Lane, busy(i)', ~ Asked(i)'
      PROVE  /\ req'[i].kind = "read"
             /\ \E j \in Lane : Asked(j)' /\ ReadOf(req'[j], req'[i].addr[1])
  <2>1. CASE i \notin stored(want)
    <3>1. req'[i] = req[i] /\ busy(i) /\ ~ Asked(i)
      BY <1>1, <1>3, <2>1 DEF busy
    <3>2. PICK j \in Lane : ReadOf(req[j], req[i].addr[1])
      BY <3>1 DEF CoreInv, NobodyForgotten
    <3>3. req[i].kind = "read"
      BY <3>1 DEF CoreInv, NobodyForgotten
    <3> QED
      BY <1>2, <3>1, <3>2, <3>3
  <2>2. CASE i \in stored(want)
    <3> DEFINE b == want[i].addr[1]
               S == {j \in stored(want) : ReadOf(want[j], b)}
    <3>1. i \in rides(want) /\ req'[i] = want[i]
      BY <1>1, <1>3, <2>2
    <3>2. /\ want[i].kind = "read"
          /\ \E j \in Lane \ {i} :
               \/ ReadOf(req[j], b)
               \/ j < i /\ j \in stored(want) /\ ReadOf(want[j], b)
      BY <3>1 DEF rides
    <3>3. CASE \E j \in Lane : ReadOf(req[j], b)
      BY <1>2, <3>1, <3>2, <3>3
    <3>4. CASE ~ \E j \in Lane : ReadOf(req[j], b)
      <4>1. S # {} /\ S \in SUBSET Lane
        BY <1>1, <3>2, <3>4
      <4>2. PICK m \in S : \A n \in S : m <= n
        <5> HIDE DEF S
        <5> QED
          BY <4>1, LowestLane
      <4>3. /\ m \in Lane /\ m \in stored(want) /\ ReadOf(want[m], b)
            /\ want[m].addr[1] = b
        BY <1>1, <4>2 DEF ReadOf
      <4>4. \A j \in stored(want) : ReadOf(want[j], b) => ~ (j < m)
        <5>1. \A j \in Lane : m <= j => ~ (j < m)
          BY <4>3, CoreAssumption DEF Lane
        <5> QED
          BY <1>1, <4>2, <5>1
      <4>5. m \notin rides(want)
        BY <3>4, <4>3, <4>4 DEF rides
      <4> QED
        BY <1>1, <3>1, <3>2, <4>3, <4>5
    <3> QED
      BY <3>3, <3>4
  <2> QED
    BY <2>1, <2>2
<1> QED
  BY <1>3 DEF NobodyForgotten

(* The lanes ask, and the core sends what it can.                          *)
LEMMA ClockKeeps ==
  ASSUME CoreInv, NEW want, Clocked(want)
  PROVE  CoreInv'
<1>1. Registered'
  BY ClockedRegisters
<1>2. Travelling'
  BY ClockedOutside
<1>3. Matched' /\ OneReaderPerBlock' /\ NobodyForgotten'
  BY ClockMatches, ClockKeepsOneReader, ClockForgetsNobody
<1>4. UNCHANGED <<back, mem, seen>>
  BY DEF Clocked
<1>5. Explained'
  BY <1>4 DEF CoreInv, Explained, Contents
<1> QED
  BY <1>1, <1>2, <1>3, <1>5 DEF CoreInv
----------------------------------------------------------------------------
(* Nothing is under way when the program starts.                           *)
LEMMA InitHolds ==
  ASSUME Init
  PROVE  CoreInv
<1>1. InitValue \in Value
  BY DEF Value
<1>2. Registered
  BY <1>1 DEF Init, Registered
<1>3. Travelling
  BY <1>1 DEF Init, Travelling
<1>4. Shape
  BY <1>3, HasShape
<1>5. ASSUME NEW b \in Block
      PROVE  Outside(b) = << >>
  <2>1. back[b] = << >> /\ path[b] = << >> /\ AtNode(b) = << >>
    BY DEF Init, AtNode
  <2>2. << >> \in Seq(Packet)
    OBVIOUS
  <2>3. << >> \o << >> = << >>
    BY <2>2, ConcatEmptySeq
  <2>4. Outside(b) = << >> \o << >> \o << >>
    BY <1>4, <2>1 DEF Shape
  <2> QED
    BY <2>3, <2>4
<1>6. Matched
  BY <1>5 DEF Matched
<1>7. \A i \in Lane : req[i] = NoReq /\ ~ queued[i]
  BY DEF Init
<1>8. OneReaderPerBlock /\ NobodyForgotten
  BY <1>7 DEF OneReaderPerBlock, NobodyForgotten, ReadOf, busy
<1>9. ASSUME NEW b \in Block
      PROVE  \E v : Contents(b, v)
  <2>1. back[b] = << >> /\ Len(back[b]) = 0 /\ mem[b] \in [Byte -> Value]
    BY <1>3 DEF Init, Travelling
  <2>2. \A x \in Byte : mem[b][x] = seen[<<b, x>>]
    BY DEF Init
  <2>3. PICK v : v = [k \in 1 .. 1 |-> mem[b]]
    OBVIOUS
  <2>4. v \in [1 .. 1 -> [Byte -> Value]] /\ v[1] = mem[b]
    BY <2>1, <2>3
  <2>5. /\ 1 .. Len(back[b]) + 1 = 1 .. 1 /\ 1 .. Len(back[b]) = {}
        /\ v[Len(back[b]) + 1] = mem[b]
    BY <2>1, <2>4
  <2>6. Contents(b, v)
    BY <2>2, <2>4, <2>5 DEF Contents
  <2> QED
    BY <2>6
<1> QED
  BY <1>2, <1>3, <1>6, <1>8, <1>9 DEF CoreInv, Explained

(* Every step of the core complex keeps what is invariant.                 *)
LEMMA StepKeeps ==
  ASSUME CoreInv, [Next]_vars
  PROVE  CoreInv'
<1>1. CASE simt_riscv64_clock
  <2>1. PICK want : Clocked(want)
    BY <1>1 DEF simt_riscv64_clock, Clocked
  <2> QED
    BY <2>1, ClockKeeps
<1>2. CASE node_clock
  BY <1>2, NodeKeeps
<1>3. ASSUME NEW b \in Block, simple_mem_receive(b)
      PROVE  CoreInv'
  BY <1>3, MemoryKeeps
<1>4. ASSUME NEW b \in Block, simt_riscv64_handle_response(b)
      PROVE  CoreInv'
  BY <1>4, ResponseKeeps
<1>5. CASE UNCHANGED vars
  <2>1. UNCHANGED <<lane, ldst, req, queued, port, path, back, mem, seen, answer>>
    BY <1>5 DEF vars
  <2>2. Travelling' /\ Registered'
    BY <2>1 DEF CoreInv, Travelling, Registered
  <2>3. \A b \in Block : Outside(b)' = Outside(b)
    BY <2>1 DEF Outside
  <2>4. Matched' /\ OneReaderPerBlock' /\ NobodyForgotten'
    BY <2>1, <2>2, <2>3, MovingKeeps DEF Kept
  <2>5. Explained'
    BY <2>1 DEF CoreInv, Explained, Contents
  <2> QED
    BY <2>2, <2>4, <2>5 DEF CoreInv
<1> QED
  BY <1>1, <1>2, <1>3, <1>4, <1>5 DEF Next

(* Registers, packets, waiting lanes and the bytes of memory agree in      *)
(* every reachable state.                                                  *)
THEOREM CoreCorrect == Spec => []CoreInv
<1>1. Init => CoreInv
  BY InitHolds
<1>2. CoreInv /\ [Next]_vars => CoreInv'
  BY StepKeeps
<1> QED
  BY <1>1, <1>2, PTL DEF Spec

(* Every packet outside the core is the request its lane waits with, and   *)
(* the only one of that lane: what the asserts of                          *)
(* simt_riscv64_handle_response rely on.                                   *)
THEOREM CoreAnswersMatch == Spec => []AnswersMatchRequests
<1>1. CoreInv => AnswersMatchRequests
  BY MatchedIsMatch DEF CoreInv
<1> QED
  BY <1>1, CoreCorrect, PTL

(* However many lanes read a block, one of them asks for it, and what is   *)
(* queued is still in its register.                                        *)
THEOREM CoreAsksOnce == Spec => []OneReaderPerBlock
<1>1. CoreInv => OneReaderPerBlock
  BY DEF CoreInv
<1> QED
  BY <1>1, CoreCorrect, PTL

(* A lane that waits has asked, or waits for the answer to a read that     *)
(* another lane has asked for.                                             *)
THEOREM CoreForgetsNobody == Spec => []NobodyForgotten
<1>1. CoreInv => NobodyForgotten
  BY DEF CoreInv
<1> QED
  BY <1>1, CoreCorrect, PTL
----------------------------------------------------------------------------
(* A clock of the lanes is, to them, that those ask that waited for        *)
(* nothing; that others repeat themselves does not show.                   *)
LEMMA ClockIsRequest ==
  ASSUME CoreInv, NEW want, Clocked(want)
  PROVE  Promised!Request
<1>1. /\ ldst' = [i \in Lane |-> IF want[i] = NoReq THEN ldst[i] ELSE want[i]]
      /\ answer' = [i \in Lane |-> IF want[i] # NoReq /\ lane[i] = "ready"
                                   THEN InitValue ELSE answer[i]]
      /\ seen' = seen
  BY DEF Clocked, receive_requests
<1>2. ldst = req
  BY DEF CoreInv, Registered
<1>3. ASSUME NEW i \in Lane
      PROVE  /\ ldst'[i] # ldst[i] => ldst[i] = NoReq /\ ldst'[i] \in Op
             /\ ldst'[i] # ldst[i] <=> want[i] # NoReq /\ lane[i] = "ready"
  <2>1. CASE want[i] = NoReq
    BY <1>1, <2>1
  <2>2. CASE want[i] # NoReq
    <3>1. /\ want[i] \in Op
          /\ \/ req[i] = NoReq /\ lane[i] = "ready"
             \/ req[i] # NoReq /\ lane[i] # "ready" /\ want[i] = req[i]
      BY <2>2, Wanted DEF Clocked
    <3>2. ldst'[i] = want[i]
      BY <1>1, <2>2
    <3> QED
      BY <1>2, <2>2, <3>1, <3>2
  <2> QED
    BY <2>1, <2>2
<1>4. answer' = [i \in Lane |-> IF ldst'[i] = ldst[i] THEN answer[i] ELSE InitValue]
  BY <1>1, <1>3
<1>5. \A i \in Lane : ldst'[i] # ldst[i] => ldst[i] = NoReq /\ ldst'[i] \in Promised!Op
  BY <1>3 DEF Op, Promised!Op
<1> QED
  BY <1>1, <1>4, <1>5 DEF Promised!Request

(* The oldest response is what was sent for the request its lane waits     *)
(* with.                                                                   *)
LEMMA OldestResponse ==
  ASSUME CoreInv, NEW b \in Block, back[b] # << >>, NEW p, p = Head(back[b])
  PROVE  /\ p \in Packet /\ p.lane \in Lane /\ p.block = b
         /\ SentFor(p, req[p.lane])
         /\ p = back[b][1] /\ 1 \in 1 .. Len(back[b])
<1>1. PICK s, t, u, old : s = back[b] /\ t = path[b] /\ u = AtNode(b) /\ old = Outside(b)
  OBVIOUS
<1>2. /\ s \in Seq(Packet) /\ t \in Seq(Packet) /\ u \in Seq(Packet)
      /\ s # << >> /\ old = s \o t \o u
  BY <1>1, OutsideIsSeq DEF CoreInv
<1>3. Len(s) \in Nat \ {0} /\ Head(s) = s[1] /\ s[1] \in Packet
  BY <1>2, EmptySeq
<1>4. /\ Len(s) \in Nat /\ Len(t) \in Nat /\ Len(u) \in Nat
      /\ Len(old) = Len(s) + Len(t) + Len(u)
  BY <1>2, Joined
<1>5. \A k \in 1 .. Len(s) + Len(t) + Len(u) :
        old[k] = IF k <= Len(s) THEN s[k]
                 ELSE IF k <= Len(s) + Len(t) THEN t[k - Len(s)]
                 ELSE u[k - Len(s) - Len(t)]
  BY <1>2, Joined
<1>6. 1 \in 1 .. Len(old) /\ old[1] = p
  <2>1. 1 \in 1 .. Len(s) + Len(t) + Len(u) /\ 1 <= Len(s)
    BY <1>3, <1>4
  <2>2. old[1] = s[1]
    BY <1>5, <2>1
  <2>3. p = s[1]
    BY <1>1, <1>3
  <2> QED
    BY <1>4, <2>1, <2>2, <2>3
<1>7. p.block = b /\ SentFor(p, req[p.lane])
  BY <1>1, <1>6 DEF CoreInv, Matched
<1> QED
  BY <1>1, <1>3, <1>7 DEF Packet

(* What a read brings is what the lanes have last seen of the block.       *)
LEMMA ReadBringsSeen ==
  ASSUME CoreInv, NEW b \in Block, back[b] # << >>, NEW p, p = Head(back[b]),
         p.kind = "read", NEW x \in Byte
  PROVE  p.data[x] = seen[<<b, x>>]
<1>1. /\ p.mask = Byte /\ p = back[b][1] /\ 1 \in 1 .. Len(back[b])
  BY OldestResponse DEF SentFor
<1>2. PICK v : Contents(b, v)
  BY DEF CoreInv, Explained
<1>3. /\ v[1][x] = seen[<<b, x>>]
      /\ v[1 + 1][x] = IF x \in back[b][1].mask THEN back[b][1].data[x] ELSE v[1][x]
      /\ back[b][1].kind = "read" => v[1 + 1][x] = v[1][x]
  BY <1>1, <1>2 DEF Contents
<1> QED
  BY <1>1, <1>3

(* An answer takes effect for the lanes that wait for it: for the one that *)
(* wrote, or for all that read the block.                                  *)
LEMMA ResponseIsAnswer ==
  ASSUME CoreInv, NEW b \in Block, simt_riscv64_handle_response(b)
  PROVE  \/ \E i \in Lane : Promised!AnswerWrite(i)
         \/ \E S \in SUBSET Lane : Promised!AnswerReads(S)
<1>1. PICK p : p = Head(back[b])
  OBVIOUS
<1>2. /\ back[b] # << >>
      /\ ldst' = [i \in Lane |-> IF i \in answered(p) THEN NoReq ELSE ldst[i]]
      /\ answer' = [i \in Lane |-> IF i \in answered(p) THEN restored(p, i)
                                   ELSE answer[i]]
      /\ seen' = [a \in Block \X Byte |->
           IF a[1] = b /\ a[2] \in p.mask THEN p.data[a[2]] ELSE seen[a]]
  BY <1>1 DEF simt_riscv64_handle_response
<1>3. /\ p \in Packet /\ p.lane \in Lane /\ p.block = b /\ SentFor(p, req[p.lane])
  BY <1>1, <1>2, OldestResponse
<1>4. /\ ldst = req /\ ldst \in [Lane -> Op \cup {NoReq}]
      /\ answer \in [Lane -> Value] /\ seen \in [Block \X Byte -> Value]
  BY DEF CoreInv, Registered, Travelling
<1>5. CASE p.kind = "write"
  <2>1. PICK i \in Lane : i = p.lane
    BY <1>3
  <2>2. answered(p) = {i}
    BY <1>5, <2>1 DEF answered
  <2>3. PICK r \in Op : r = ldst[i]
    BY <1>3, <1>4, <2>1 DEF SentFor
  <2>4. /\ r # NoReq /\ r.kind = "write" /\ r.addr[1] = b
        /\ p.mask = {r.addr[2]} /\ p.data[r.addr[2]] = r.val
    BY <1>3, <1>4, <1>5, <2>1, <2>3 DEF SentFor
  <2>5. r.addr \in Block \X Byte /\ r.addr = <<b, r.addr[2]>>
    BY <2>4 DEF Op
  <2>6. seen' = [seen EXCEPT ![r.addr] = r.val]
    <3>1. ASSUME NEW a \in Block \X Byte
          PROVE  seen'[a] = [seen EXCEPT ![r.addr] = r.val][a]
      <4>1. CASE a = r.addr
        BY <1>2, <1>4, <2>4, <2>5, <4>1
      <4>2. CASE a # r.addr
        <5>1. ~ (a[1] = b /\ a[2] \in p.mask)
          BY <2>4, <2>5, <4>2
        <5> QED
          BY <1>2, <1>4, <4>2, <5>1
      <4> QED
        BY <4>1, <4>2
    <3> QED
      BY <1>2, <1>4, <3>1
  <2>7. restored(p, i) = r.val
    BY <1>4, <2>3, <2>4 DEF restored
  <2>8. answer' = [answer EXCEPT ![i] = r.val]
    BY <1>2, <1>4, <2>2, <2>7
  <2>9. ldst' = [ldst EXCEPT ![i] = NoReq]
    BY <1>2, <1>4, <2>2
  <2>10. Promised!AnswerWrite(i)
    BY <2>3, <2>4, <2>6, <2>8, <2>9 DEF Promised!AnswerWrite
  <2> QED
    BY <2>10
<1>6. CASE p.kind # "write"
  <2>1. p.kind = "read" /\ p.mask = Byte
    BY <1>3, <1>6 DEF Packet, SentFor
  <2>2. PICK S \in SUBSET Lane : S = answered(p)
    BY <1>3 DEF answered
  <2>3. \A i \in S : /\ ldst[i] \in Op /\ ldst[i] # NoReq /\ ldst[i].kind = "read"
                    /\ ldst[i].addr[1] = b
    BY <1>3, <1>4, <2>1, <2>2 DEF answered, ReadOf, SentFor
  <2>4. \A x \in Byte : p.data[x] = seen[<<b, x>>]
    BY <1>1, <1>2, <2>1, ReadBringsSeen
  <2>5. seen' = seen
    <3>1. ASSUME NEW a \in Block \X Byte
          PROVE  seen'[a] = seen[a]
      <4>1. CASE a[1] = b
        BY <1>2, <2>1, <2>4, <4>1
      <4>2. CASE a[1] # b
        BY <1>2, <4>2
      <4> QED
        BY <4>1, <4>2
    <3> QED
      BY <1>2, <1>4, <3>1
  <2>6. ASSUME NEW i \in S
        PROVE  restored(p, i) = seen[ldst[i].addr]
    <3>1. ldst[i].addr = <<b, ldst[i].addr[2]>> /\ ldst[i].addr[2] \in Byte
      BY <2>3 DEF Op
    <3> QED
      BY <1>4, <2>4, <3>1 DEF restored
  <2>7. answer' = [i \in Lane |-> IF i \in S THEN seen[ldst[i].addr] ELSE answer[i]]
    BY <1>2, <2>2, <2>6
  <2>8. ldst' = [i \in Lane |-> IF i \in S THEN NoReq ELSE ldst[i]]
    BY <1>2, <2>2
  <2>9. S # {}
    BY <2>2 DEF answered
  <2>10. Promised!AnswerReads(S)
    BY <2>3, <2>5, <2>7, <2>8, <2>9 DEF Promised!AnswerReads
  <2> QED
    BY <2>10
<1> QED
  BY <1>5, <1>6

(* To its lanes the core is one memory of bytes, in which every request    *)
(* takes effect once, when it is answered, although a read brings a whole  *)
(* block, other lanes take their bytes from it, and refused requests are   *)
(* sent later.                                                             *)
THEOREM CoreIsOneMemory == Spec => ImplementsLaneMemory
<1>1. Init => Promised!Init
  BY DEF Init, Promised!Init
<1>2. CoreInv /\ [Next]_vars => [Promised!Next]_<<ldst, answer, seen>>
  <2> SUFFICES ASSUME CoreInv, [Next]_vars
               PROVE  [Promised!Next]_<<ldst, answer, seen>>
    OBVIOUS
  <2>1. CASE simt_riscv64_clock
    <3>1. PICK want : Clocked(want)
      BY <2>1 DEF simt_riscv64_clock, Clocked
    <3>2. Promised!Request
      BY <3>1, ClockIsRequest
    <3> QED
      BY <3>2 DEF Promised!Next
  <2>2. CASE node_clock
    BY <2>2 DEF node_clock
  <2>3. ASSUME NEW b \in Block, simple_mem_receive(b)
        PROVE  UNCHANGED <<ldst, answer, seen>>
    BY <2>3 DEF simple_mem_receive
  <2>4. ASSUME NEW b \in Block, simt_riscv64_handle_response(b)
        PROVE  Promised!Next
    BY <2>4, ResponseIsAnswer DEF Promised!Next
  <2>5. CASE UNCHANGED vars
    BY <2>5 DEF vars
  <2> QED
    BY <2>1, <2>2, <2>3, <2>4, <2>5 DEF Next
<1> QED
  BY <1>1, <1>2, CoreCorrect, PTL DEF Spec, ImplementsLaneMemory, Promised!Spec

============================================================================

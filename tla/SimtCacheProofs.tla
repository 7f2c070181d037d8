-------------------------- MODULE SimtCacheProofs --------------------------
(***************************************************************************)
(* With any number of lanes and blocks, the cache finds for every answer   *)
(* the requests it belongs to, forgets no lane, and is to its lanes one    *)
(* memory.                                                                 *)
(***************************************************************************)
EXTENDS SimtCache, SequenceTheorems, WellFoundedInduction, TLAPS

(* The registers of the lanes.  What is queued is in a register. *)
Registered ==
  /\ req \in [Lane -> Op \cup {NoReq}]
  /\ queued \in [Lane -> BOOLEAN]
  /\ answer \in [Lane -> Value]
  /\ rr \in Lane
  /\ \A i \in Lane : queued[i] => busy(i)

(* The packets and the blocks outside the cache. *)
Travelling ==
  /\ port \in Packet \cup {NoReq}
  /\ path \in [Addr -> Seq(Packet)]
  /\ back \in [Addr -> Seq(Packet)]
  /\ mem \in [Addr -> Value]
  /\ seen \in [Addr -> Value]

(* Lane i waits with the request that p was sent for. *)
SentFor(p, i) ==
  /\ busy(i) /\ ~ queued[i]
  /\ req[i].kind = p.kind /\ req[i].addr = p.addr
  /\ p.kind = "write" => req[i].val = p.val

(* Every packet outside the cache is what was sent for the request its     *)
(* lane waits with, and the only one of that lane.                         *)
Matched ==
  /\ \A a \in Addr : \A k \in 1 .. Len(Outside(a)) :
       LET p == Outside(a)[k] IN p.addr = a /\ SentFor(p, p.lane)
  /\ \A a, b \in Addr :
       \A k \in 1 .. Len(Outside(a)), l \in 1 .. Len(Outside(b)) :
         Outside(a)[k].lane = Outside(b)[l].lane => a = b /\ k = l

(* A lane sends to its own bank or holds the shared slot, which it keeps   *)
(* until it is answered.                                                   *)
InTurn ==
  \A a \in Addr : \A k \in 1 .. Len(Outside(a)) :
    LET i == Outside(a)[k].lane IN a % Lanes = i \/ i = rr

(* No read of a block is sent after the shared slot's read of it, so that  *)
(* its answer, the last of them, finds none of its readers still waiting   *)
(* for an answer of their own.                                             *)
SharedIsLast ==
  \A a \in Addr : \A k, l \in 1 .. Len(Outside(a)) :
    /\ Outside(a)[k].kind = "read" /\ Outside(a)[l].kind = "read"
    /\ Outside(a)[k].lane = rr
    => l <= k

(* The responses to a block show, one after the other, how it came to hold *)
(* what it holds.                                                          *)
Before(a, k) == IF k = 1 THEN seen[a] ELSE back[a][k - 1].val
Explains(a) ==
  /\ \A k \in 1 .. Len(back[a]) :
       back[a][k].kind = "read" => back[a][k].val = Before(a, k)
  /\ mem[a] = Before(a, Len(back[a]) + 1)
Explained == \A a \in Addr : Explains(a)

CacheInv ==
  /\ Registered
  /\ Travelling
  /\ Matched
  /\ InTurn
  /\ SharedIsLast
  /\ NobodyForgotten
  /\ Explained

----------------------------------------------------------------------------
(* A set of numbers has a least one. *)
LEMMA LeastNumber ==
  ASSUME NEW S \in SUBSET Nat, S # {}
  PROVE  /\ Min(S) \in S
         /\ \A n \in S : Min(S) <= n
<1>1. S \in SUBSET Nat
  OBVIOUS
<1>2. PICK m \in S : \A n \in S : ~ (<<n, m>> \in OpToRel(<, Nat))
  BY <1>1, NatLessThanWellFounded, WFMin, Zenon
<1>3. \A n \in S : ~ (n < m)
  BY <1>1, <1>2 DEF OpToRel
<1>4. \A n \in S : m <= n
  BY <1>1, <1>3
<1> QED
  BY <1>4 DEF Min

(* A sequence with one packet in the middle, and with another one there. *)
LEMMA OneChanged ==
  ASSUME NEW S, NEW s \in Seq(S), NEW w \in Seq(S), NEW h \in S, NEW e \in S,
         NEW old, old = s \o (<<h>> \o w), NEW new, new = s \o (<<e>> \o w)
  PROVE  /\ Len(new) = Len(old)
         /\ Len(s) + 1 \in 1 .. Len(old) /\ old[Len(s) + 1] = h
         /\ \A k \in 1 .. Len(old) :
              new[k] = IF k = Len(s) + 1 THEN e ELSE old[k]
<1>1. Len(s) \in Nat /\ Len(w) \in Nat
  BY LenProperties
<1>2. \A x \in S :
        /\ <<x>> \o w \in Seq(S) /\ Len(<<x>> \o w) = 1 + Len(w)
        /\ \A i \in 1 .. 1 + Len(w) :
             (<<x>> \o w)[i] = IF i = 1 THEN x ELSE w[i - 1]
  <2>1. \A x \in S : <<x>> \in Seq(S) /\ Len(<<x>>) = 1 /\ <<x>>[1] = x
    OBVIOUS
  <2> QED
    BY <1>1, <2>1, ConcatProperties
<1> DEFINE q(x) == s \o (<<x>> \o w)
           n == Len(s)
<1>3. \A x \in S :
        /\ Len(q(x)) = n + (1 + Len(w))
        /\ \A i \in 1 .. n + (1 + Len(w)) :
             q(x)[i] = IF i <= n THEN s[i] ELSE (<<x>> \o w)[i - n]
  BY <1>2, ConcatProperties
<1>4. n \in Nat /\ old = q(h) /\ new = q(e)
  BY <1>1
<1> HIDE DEF q, n
<1>5. ASSUME NEW i \in 1 .. n + (1 + Len(w)), i > n + 1
      PROVE  /\ ~(i <= n) /\ i - n \in 1 .. 1 + Len(w) /\ i - n # 1
             /\ (i - n) - 1 = i - n - 1
  BY <1>1, <1>4, <1>5
<1>6. /\ n + 1 \in 1 .. n + (1 + Len(w)) /\ ~(n + 1 <= n)
      /\ (n + 1) - n = 1 /\ 1 \in 1 .. 1 + Len(w)
  BY <1>1, <1>4
<1>7. ASSUME NEW x \in S
      PROVE  q(x)[n + 1] = x
  <2>1. q(x)[n + 1] = (<<x>> \o w)[(n + 1) - n]
    BY <1>3, <1>6
  <2>2. (<<x>> \o w)[1] = x
    BY <1>2, <1>6
  <2> QED
    BY <1>6, <2>1, <2>2
<1>8. ASSUME NEW i \in 1 .. n + (1 + Len(w)), i # n + 1
      PROVE  q(e)[i] = q(h)[i]
  <2>1. CASE i <= n
    <3>1. \A x \in S : q(x)[i] = s[i]
      BY <1>3, <2>1
    <3> QED
      BY <3>1
  <2>2. CASE i > n + 1
    <3>1. \A x \in S : q(x)[i] = (<<x>> \o w)[i - n]
      BY <1>3, <1>5, <2>2
    <3>2. \A x \in S : (<<x>> \o w)[i - n] = w[(i - n) - 1]
      BY <1>2, <1>5, <2>2
    <3> QED
      BY <3>1, <3>2
  <2>3. i <= n \/ i > n + 1
    BY <1>1, <1>4, <1>8
  <2> QED
    BY <2>1, <2>2, <2>3
<1>9. /\ Len(q(h)) = n + (1 + Len(w)) /\ Len(q(e)) = n + (1 + Len(w))
      /\ q(h)[n + 1] = h /\ q(e)[n + 1] = e
  BY <1>3, <1>7
<1>10. /\ Len(new) = Len(old) /\ n + 1 \in 1 .. Len(old)
       /\ old[n + 1] = h
       /\ \A k \in 1 .. Len(old) :
            new[k] = IF k = n + 1 THEN e ELSE old[k]
  BY <1>4, <1>6, <1>8, <1>9
<1> QED
  BY <1>10 DEF n

(* A sequence without its first packet. *)
LEMMA FirstTaken ==
  ASSUME NEW S, NEW s \in Seq(S), s # << >>
  PROVE  /\ Len(s) \in Nat /\ Len(s) >= 1 /\ Head(s) = s[1] /\ Head(s) \in S
         /\ s = <<Head(s)>> \o Tail(s)
         /\ Tail(s) \in Seq(S) /\ Len(Tail(s)) = Len(s) - 1
         /\ \A k \in 1 .. Len(Tail(s)) : Tail(s)[k] = s[k + 1]
<1>1. Len(s) \in Nat /\ Len(s) >= 1
  BY EmptySeq
<1>2. /\ Head(s) \in S /\ Tail(s) \in Seq(S) /\ Len(Tail(s)) = Len(s) - 1
      /\ \A k \in 1 .. Len(Tail(s)) : Tail(s)[k] = s[k + 1]
  BY HeadTailProperties
<1>3. s = <<s[1]>> \o SubSeq(s, 2, Len(s))
  <2>1. SubSeq(s, 1, Len(s)) = <<s[1]>> \o SubSeq(s, 1 + 1, Len(s))
    BY <1>1, SubSeqRecursiveFirst
  <2> QED
    BY <2>1, SubSeqFull
<1>4. Tail(s) = SubSeq(s, 2, Len(s))
  BY TailIsSubSeq
<1>5. Head(s) = s[1]
  OBVIOUS
<1> QED
  BY <1>1, <1>2, <1>3, <1>4, <1>5

----------------------------------------------------------------------------
(* The packet at the node, if it is for block a.                           *)
AtNode(a) == IF port # NoReq /\ port.addr = a THEN <<port>> ELSE << >>

(* Lane i has a packet outside the cache. *)
Out(i) == \E a \in Addr : \E k \in 1 .. Len(Outside(a)) : Outside(a)[k].lane = i

(* Lane i waits for the answer to the shared slot. *)
Waits(i) ==
  /\ busy(rr) /\ rr # i
  /\ req[i].kind = "read" /\ req[rr].kind = "read"
  /\ req[i].addr = req[rr].addr

Remembered == \A i \in Lane : ~ busy(i) \/ queued[i] \/ Out(i) \/ Waits(i)

(* What is outside the cache is sequences of packets.                      *)
Shape ==
  /\ \A a \in Addr :
       /\ back[a] \in Seq(Packet) /\ path[a] \in Seq(Packet)
       /\ AtNode(a) \in Seq(Packet)
       /\ Outside(a) = back[a] \o path[a] \o AtNode(a)
       /\ Outside(a) = back[a] \o (path[a] \o AtNode(a))
       /\ Outside(a) \in Seq(Packet) /\ Len(Outside(a)) \in Nat
       /\ DOMAIN Outside(a) = 1 .. Len(Outside(a))
       /\ \A k \in 1 .. Len(Outside(a)) : Outside(a)[k] \in Packet
  /\ NobodyForgotten <=> Remembered

(* Sequences of packets they are, in the next state, too.                  *)
LEMMA HasShape ==
  /\ Travelling => Shape
  /\ Travelling' => Shape'
<1>1. ASSUME Travelling, NEW a \in Addr
      PROVE  /\ back[a] \in Seq(Packet) /\ path[a] \in Seq(Packet)
             /\ AtNode(a) \in Seq(Packet)
             /\ Outside(a) = back[a] \o path[a] \o AtNode(a)
             /\ Outside(a) = back[a] \o (path[a] \o AtNode(a))
             /\ Outside(a) \in Seq(Packet) /\ Len(Outside(a)) \in Nat
             /\ DOMAIN Outside(a) = 1 .. Len(Outside(a))
             /\ \A k \in 1 .. Len(Outside(a)) : Outside(a)[k] \in Packet
  <2>1. back[a] \in Seq(Packet) /\ path[a] \in Seq(Packet)
    BY <1>1 DEF Travelling
  <2>2. AtNode(a) \in Seq(Packet)
    <3>1. CASE port # NoReq /\ port.addr = a
      <4>1. port \in Packet
        BY <1>1, <3>1 DEF Travelling
      <4> QED
        BY <3>1, <4>1 DEF AtNode
    <3>2. CASE ~ (port # NoReq /\ port.addr = a)
      BY <3>2 DEF AtNode
    <3> QED
      BY <3>1, <3>2
  <2>3. Outside(a) = back[a] \o path[a] \o AtNode(a)
    BY DEF Outside, AtNode
  <2>4. Outside(a) = back[a] \o (path[a] \o AtNode(a))
    <3>1. \A s, t, u \in Seq(Packet) : s \o t \o u = s \o (t \o u)
      BY ConcatAssociative
    <3> QED
      BY <2>1, <2>2, <2>3, <3>1, Zenon
  <2>5. Outside(a) \in Seq(Packet)
    BY <2>1, <2>2, <2>3, ConcatProperties
  <2>6. /\ Len(Outside(a)) \in Nat
        /\ DOMAIN Outside(a) = 1 .. Len(Outside(a))
    BY <2>5, LenProperties
  <2>7. \A k \in 1 .. Len(Outside(a)) : Outside(a)[k] \in Packet
    BY <2>5, ElementOfSeq
  <2> QED
    BY <2>1, <2>2, <2>3, <2>4, <2>5, <2>6, <2>7
<1>2. ASSUME Travelling, NEW i
      PROVE  (\E x \in PacketsOut : Outside(x[1])[x[2]].lane = i) <=> Out(i)
  <2>1. ASSUME NEW x \in PacketsOut, Outside(x[1])[x[2]].lane = i
        PROVE  Out(i)
    <3>1. PICK a \in Addr : x \in {<<a, k>> : k \in DOMAIN Outside(a)}
      BY DEF PacketsOut
    <3>2. PICK k \in DOMAIN Outside(a) : x = <<a, k>>
      BY <3>1
    <3>3. k \in 1 .. Len(Outside(a)) /\ x[1] = a /\ x[2] = k
      BY <1>1, <1>2, <3>2
    <3> QED
      BY <2>1, <3>3 DEF Out
  <2>2. ASSUME NEW a \in Addr, NEW k \in 1 .. Len(Outside(a)),
               Outside(a)[k].lane = i
        PROVE  \E x \in PacketsOut : Outside(x[1])[x[2]].lane = i
    <3>1. <<a, k>> \in PacketsOut
      BY <1>1, <1>2 DEF PacketsOut
    <3> QED
      BY <2>2, <3>1
  <2> QED
    BY <2>1, <2>2 DEF Out
<1>3. ASSUME Travelling
      PROVE  NobodyForgotten <=> Remembered
  BY <1>2, <1>3 DEF NobodyForgotten, Remembered, Waits
<1>4. Travelling => Shape
  BY <1>1, <1>3 DEF Shape
<1>5. Travelling' => Shape'
  BY <1>4, PTL
<1> QED
  BY <1>4, <1>5
----------------------------------------------------------------------------
(* A packet that moves, or becomes a response, is still that of its lane.  *)
Kept(p, q) ==
  /\ q.lane = p.lane /\ q.kind = p.kind /\ q.addr = p.addr
  /\ p.kind = "write" => q.val = p.val

(* A step that only moves packets, or makes responses of them, changes     *)
(* nothing for the lanes.                                                  *)
LEMMA MovingKeeps ==
  ASSUME CacheInv, Travelling', UNCHANGED <<req, queued, rr>>,
         \A a \in Addr :
           /\ Len(Outside(a)') = Len(Outside(a))
           /\ \A k \in 1 .. Len(Outside(a)) : Kept(Outside(a)[k], Outside(a)'[k])
  PROVE  Matched' /\ InTurn' /\ SharedIsLast' /\ NobodyForgotten'
<1>1. Shape /\ Shape'
  BY HasShape DEF CacheInv
<1>2. \A a \in Addr : \A k \in 1 .. Len(Outside(a)) :
        LET p == Outside(a)[k]
            q == Outside(a)'[k]
        IN  /\ q.lane = p.lane /\ q.kind = p.kind
            /\ p.addr = a /\ SentFor(p, p.lane) /\ Kept(p, q)
  BY DEF CacheInv, Matched, Kept
<1>3. \A p, q, i : SentFor(p, i) /\ Kept(p, q) => SentFor(q, i)
  BY DEF SentFor, Kept
<1>4. Matched'
  <2>1. ASSUME NEW a \in Addr, NEW k \in 1 .. Len(Outside(a)')
        PROVE  LET q == Outside(a)'[k]
               IN  q.addr = a /\ SentFor(q, q.lane)
    <3>1. PICK p, q : p = Outside(a)[k] /\ q = Outside(a)'[k]
      OBVIOUS
    <3>2. /\ q.lane = p.lane /\ p.addr = a
          /\ SentFor(p, p.lane) /\ Kept(p, q)
      BY <1>2, <3>1
    <3>3. q.addr = a /\ SentFor(q, q.lane)
      BY <1>3, <3>2 DEF Kept
    <3> QED
      BY <3>1, <3>3
  <2>2. ASSUME NEW a \in Addr, NEW b \in Addr,
               NEW k \in 1 .. Len(Outside(a)'), NEW l \in 1 .. Len(Outside(b)'),
               Outside(a)'[k].lane = Outside(b)'[l].lane
        PROVE  a = b /\ k = l
    <3>1. k \in 1 .. Len(Outside(a)) /\ l \in 1 .. Len(Outside(b))
      OBVIOUS
    <3>2. Outside(a)[k].lane = Outside(b)[l].lane
      BY <1>2, <2>2, <3>1
    <3> QED
      BY <3>1, <3>2 DEF CacheInv, Matched
  <2> QED
    BY <2>1, <2>2 DEF Matched, SentFor, busy
<1>5. InTurn'
  BY <1>2 DEF CacheInv, InTurn
<1>6. SharedIsLast'
  BY <1>2 DEF CacheInv, SharedIsLast
<1>7. \A i : Out(i)' <=> Out(i)
  BY <1>2 DEF Out
<1>8. \A i \in Lane : Waits(i)' <=> Waits(i)
  BY DEF Waits, busy
<1>9. NobodyForgotten'
  BY <1>1, <1>7, <1>8 DEF CacheInv, Shape, Remembered, busy
<1> QED
  BY <1>4, <1>5, <1>6, <1>9

(* The node moves its packet on; nothing outside the cache changes order.  *)
LEMMA NodeKeeps ==
  ASSUME CacheInv, node_clock
  PROVE  CacheInv'
<1>1. Shape
  BY HasShape DEF CacheInv
<1>2. port \in Packet /\ port # NoReq /\ port.addr \in Addr
  BY DEF CacheInv, Travelling, node_clock, Packet
<1>3. path' \in [Addr -> Seq(Packet)]
  BY <1>2, AppendProperties DEF CacheInv, Travelling, node_clock
<1>4. Travelling'
  BY <1>3 DEF CacheInv, Travelling, node_clock
<1>5. Shape'
  BY <1>4, HasShape
<1>6. ASSUME NEW a \in Addr
      PROVE  Outside(a)' = Outside(a)
  <2>1. /\ back[a] \in Seq(Packet) /\ path[a] \in Seq(Packet)
        /\ Outside(a) = back[a] \o (path[a] \o AtNode(a))
    BY <1>1 DEF Shape
  <2>2. AtNode(a)' = << >> /\ back'[a] = back[a] /\ path'[a] \in Seq(Packet)
    BY <1>3 DEF node_clock, AtNode
  <2>3. path'[a] \o << >> = path'[a]
    BY <2>2, ConcatEmptySeq
  <2>4. Outside(a)' = back[a] \o path'[a]
    BY <1>5, <2>2, <2>3 DEF Shape
  <2>5. path'[a] = path[a] \o AtNode(a)
    <3>1. CASE port.addr = a
      <4>1. AtNode(a) = <<port>> /\ path'[a] = Append(path[a], port)
        BY <1>2, <3>1 DEF AtNode, node_clock, CacheInv, Travelling
      <4> QED
        BY <1>2, <2>1, <4>1, AppendIsConcat
    <3>2. CASE port.addr # a
      <4>1. AtNode(a) = << >> /\ path'[a] = path[a]
        BY <3>2 DEF AtNode, node_clock, CacheInv, Travelling
      <4> QED
        BY <2>1, <4>1, ConcatEmptySeq
    <3> QED
      BY <3>1, <3>2
  <2> QED
    BY <2>1, <2>4, <2>5
<1>7. \A a \in Addr :
        /\ Len(Outside(a)') = Len(Outside(a))
        /\ \A k \in 1 .. Len(Outside(a)) : Kept(Outside(a)[k], Outside(a)'[k])
  BY <1>6 DEF Kept
<1>8. UNCHANGED <<req, queued, rr, back, mem, seen, answer>>
  BY DEF node_clock
<1>9. Matched' /\ InTurn' /\ SharedIsLast' /\ NobodyForgotten'
  BY <1>4, <1>7, <1>8, MovingKeeps
<1>10. Registered' /\ Explained'
  BY <1>8 DEF CacheInv, Registered, Explained, Explains, Before, busy
<1> QED
  BY <1>4, <1>9, <1>10 DEF CacheInv

(* A memory serves the first packet on the way to it.                      *)
LEMMA MemoryKeeps ==
  ASSUME CacheInv, NEW a \in Addr, simple_mem_receive(a)
  PROVE  CacheInv'
<1>1. /\ path[a] \in Seq(Packet) /\ path[a] # << >> /\ back[a] \in Seq(Packet)
      /\ mem[a] \in Value
  BY DEF CacheInv, Travelling, simple_mem_receive
<1>2. PICK p : p = Head(path[a])
  OBVIOUS
<1>3. /\ p \in Packet /\ path[a] = <<p>> \o Tail(path[a])
      /\ Tail(path[a]) \in Seq(Packet)
  BY <1>1, <1>2, FirstTaken
<1>4. PICK w : w = IF p.kind = "write" THEN p.val ELSE mem[a]
  OBVIOUS
<1>5. PICK r : r = [p EXCEPT !.val = w]
  OBVIOUS
<1>6. w \in Value /\ r \in Packet /\ Kept(p, r) /\ r.val = w /\ r.kind = p.kind
  BY <1>1, <1>3, <1>4, <1>5 DEF Packet, Kept
<1>7. /\ path' = [path EXCEPT ![a] = Tail(path[a])]
      /\ back' = [back EXCEPT ![a] = Append(back[a], r)]
      /\ mem' = [mem EXCEPT ![a] = w]
      /\ UNCHANGED <<req, queued, rr, port, seen, answer>>
  BY <1>2, <1>4, <1>5 DEF simple_mem_receive, CacheInv, Travelling
<1>8. /\ Append(back[a], r) \in Seq(Packet)
      /\ Append(back[a], r) = back[a] \o <<r>>
      /\ <<r>> \in Seq(Packet)
  BY <1>1, <1>6, AppendProperties, AppendIsConcat
<1>9. Travelling'
  BY <1>3, <1>6, <1>7, <1>8 DEF CacheInv, Travelling
<1>10. Shape /\ Shape'
  BY <1>9, HasShape DEF CacheInv
<1>11. ASSUME NEW b \in Addr
      PROVE  /\ Len(Outside(b)') = Len(Outside(b))
             /\ \A k \in 1 .. Len(Outside(b)) : Kept(Outside(b)[k], Outside(b)'[k])
  <2>1. AtNode(b)' = AtNode(b)
    BY <1>7 DEF AtNode
  <2>2. CASE b = a
    <3>1. PICK s, t, u : s = back[a] /\ t = Tail(path[a]) /\ u = AtNode(a)
      OBVIOUS
    <3>2. /\ s \in Seq(Packet) /\ t \in Seq(Packet) /\ u \in Seq(Packet)
          /\ <<p>> \in Seq(Packet) /\ <<r>> \in Seq(Packet)
      <4>1. AtNode(a) \in Seq(Packet)
        BY <1>10 DEF Shape
      <4>2. \A x \in Packet : <<x>> \in Seq(Packet)
        OBVIOUS
      <4> QED
        BY <1>1, <1>3, <1>6, <3>1, <4>1, <4>2
    <3>3. Outside(a) = s \o ((<<p>> \o t) \o u)
      BY <1>3, <1>10, <3>1 DEF Shape
    <3>4. path'[a] = t /\ back'[a] = s \o <<r>>
      BY <1>7, <1>8, <3>1 DEF CacheInv, Travelling
    <3>5. Outside(a)' = (s \o <<r>>) \o (t \o u)
      BY <1>10, <2>1, <2>2, <3>1, <3>4 DEF Shape
    <3>6. PICK v : v = t \o u
      OBVIOUS
    <3>7. v \in Seq(Packet)
      BY <3>2, <3>6, ConcatProperties
    <3>8. \A x, y, z \in Seq(Packet) : x \o y \o z = x \o (y \o z)
      BY ConcatAssociative
    <3>9. Outside(a) = s \o (<<p>> \o v) /\ Outside(a)' = s \o (<<r>> \o v)
      <4>1. (<<p>> \o t) \o u = <<p>> \o (t \o u)
        BY <3>2, <3>8
      <4>2. (s \o <<r>>) \o v = s \o (<<r>> \o v)
        BY <3>2, <3>7, <3>8
      <4> QED
        BY <3>3, <3>5, <3>6, <4>1, <4>2, Zenon
    <3>10. PICK old, new : old = Outside(a) /\ new = Outside(a)'
      OBVIOUS
    <3>11. /\ s \in Seq(Packet) /\ v \in Seq(Packet)
           /\ p \in Packet /\ r \in Packet
           /\ old = s \o (<<p>> \o v) /\ new = s \o (<<r>> \o v)
      BY <1>3, <1>6, <3>2, <3>7, <3>9, <3>10, Zenon
    <3>12. Len(new) = Len(old)
      BY <3>11, OneChanged
    <3>13. Len(s) + 1 \in 1 .. Len(old) /\ old[Len(s) + 1] = p
      BY <3>11, OneChanged
    <3>14. \A k \in 1 .. Len(old) :
             new[k] = IF k = Len(s) + 1 THEN r ELSE old[k]
      BY <3>11, OneChanged
    <3> QED
      BY <1>6, <2>2, <3>10, <3>12, <3>13, <3>14 DEF Kept
  <2>3. CASE b # a
    <3>1. path'[b] = path[b] /\ back'[b] = back[b]
      BY <1>7, <2>3 DEF CacheInv, Travelling
    <3>2. Outside(b)' = Outside(b)
      BY <1>10, <2>1, <3>1 DEF Shape
    <3> QED
      BY <3>2 DEF Kept
  <2> QED
    BY <2>2, <2>3
<1>12. Matched' /\ InTurn' /\ SharedIsLast' /\ NobodyForgotten'
  BY <1>7, <1>9, <1>11, MovingKeeps
<1>13. Registered'
  BY <1>7 DEF CacheInv, Registered, busy
<1>14. Explained'
  <2>1. ASSUME NEW b \in Addr
        PROVE  Explains(b)'
    <3>1. CASE b = a
      <4>1. PICK n : n = Len(back[a])
        OBVIOUS
      <4>2. back'[a] = Append(back[a], r) /\ mem'[a] = w /\ seen' = seen
        BY <1>7 DEF CacheInv, Travelling
      <4>3. /\ n \in Nat /\ Len(back'[a]) = n + 1 /\ back'[a][n + 1] = r
            /\ \A k \in 1 .. n : back'[a][k] = back[a][k]
        BY <1>1, <1>6, <4>1, <4>2, AppendProperties, LenProperties
      <4>4. \A k \in 1 .. n + 1 : Before(a, k)' = Before(a, k)
        BY <4>2, <4>3 DEF Before
      <4>5. Before(a, n + 2)' = w
        BY <1>6, <4>3 DEF Before
      <4>6. /\ \A k \in 1 .. n :
                 back[a][k].kind = "read" => back[a][k].val = Before(a, k)
            /\ mem[a] = Before(a, n + 1)
        BY <4>1 DEF CacheInv, Explained, Explains
      <4>7. r.kind = "read" => r.val = Before(a, n + 1)
        BY <1>4, <1>6, <4>6
      <4>8. ASSUME NEW k \in 1 .. n + 1
            PROVE  back'[a][k].kind = "read" => back'[a][k].val = Before(a, k)'
        <5>1. CASE k = n + 1
          BY <4>3, <4>4, <4>7, <5>1
        <5>2. CASE k # n + 1
          <6>1. k \in 1 .. n
            BY <4>3, <5>2
          <6> QED
            BY <4>3, <4>4, <4>6, <6>1
        <5> QED
          BY <5>1, <5>2
      <4>9. (mem[a] = Before(a, Len(back[a]) + 1))'
        <5>1. Len(back'[a]) + 1 = n + 2
          BY <4>3
        <5> QED
          BY <4>2, <4>5, <5>1
      <4> QED
        BY <3>1, <4>3, <4>8, <4>9 DEF Explains
    <3>2. CASE b # a
      <4>1. back'[b] = back[b] /\ mem'[b] = mem[b] /\ seen' = seen
        BY <1>7, <3>2 DEF CacheInv, Travelling
      <4> QED
        BY <4>1 DEF CacheInv, Explained, Explains, Before
    <3> QED
      BY <3>1, <3>2
  <2> QED
    BY <2>1 DEF Explained
<1> QED
  BY <1>9, <1>12, <1>13, <1>14 DEF CacheInv
----------------------------------------------------------------------------
(* The oldest response is what was sent for the request its lane waits     *)
(* with.                                                                   *)
LEMMA OldestResponse ==
  ASSUME CacheInv, NEW a \in Addr, back[a] # << >>, NEW p, p = Head(back[a])
  PROVE  /\ 1 \in 1 .. Len(Outside(a)) /\ Outside(a)[1] = p
         /\ p \in Packet /\ p.lane \in Lane /\ p.addr = a /\ SentFor(p, p.lane)
         /\ 1 \in 1 .. Len(back[a]) /\ back[a][1] = p
<1>1. Shape
  BY HasShape DEF CacheInv
<1>2. PICK s, v : s = back[a] /\ v = path[a] \o AtNode(a)
  OBVIOUS
<1>3. s \in Seq(Packet) /\ v \in Seq(Packet) /\ Outside(a) = s \o v
  BY <1>1, <1>2, ConcatProperties DEF Shape
<1>4. Len(s) \in Nat /\ Len(s) >= 1 /\ p = s[1] /\ p \in Packet
  BY <1>2, <1>3, FirstTaken
<1>5. /\ Len(s \o v) = Len(s) + Len(v) /\ Len(v) \in Nat
      /\ \A i \in 1 .. Len(s) + Len(v) :
           (s \o v)[i] = IF i <= Len(s) THEN s[i] ELSE v[i - Len(s)]
  BY <1>3, ConcatProperties, LenProperties
<1>6. 1 \in 1 .. Len(Outside(a)) /\ Outside(a)[1] = p
  BY <1>3, <1>4, <1>5
<1>7. p.addr = a /\ SentFor(p, p.lane)
  BY <1>6 DEF CacheInv, Matched
<1> QED
  BY <1>2, <1>4, <1>6, <1>7 DEF Packet

(* The oldest response is taken from what is outside.                      *)
LEMMA ResponseOutside ==
  ASSUME CacheInv, NEW a \in Addr, simt_cache_handle_response(a)
  PROVE  /\ Travelling'
         /\ Len(Outside(a)') = Len(Outside(a)) - 1
         /\ \A k \in 1 .. Len(Outside(a)') : Outside(a)'[k] = Outside(a)[k + 1]
         /\ \A b \in Addr \ {a} : Outside(b)' = Outside(b)
<1>1. /\ back[a] # << >> /\ back[a] \in Seq(Packet)
      /\ back' = [back EXCEPT ![a] = Tail(@)]
      /\ seen' = [seen EXCEPT ![a] = Head(back[a]).val]
      /\ UNCHANGED <<port, path, mem>>
  BY DEF CacheInv, Travelling, simt_cache_handle_response
<1>2. /\ Head(back[a]) \in Packet
      /\ back[a] = <<Head(back[a])>> \o Tail(back[a])
      /\ Tail(back[a]) \in Seq(Packet)
  BY <1>1, FirstTaken
<1>3. Head(back[a]).val \in Value
  BY <1>2 DEF Packet
<1>4. Travelling'
  BY <1>1, <1>2, <1>3 DEF CacheInv, Travelling
<1>5. Shape /\ Shape'
  BY <1>4, HasShape DEF CacheInv
<1>6. PICK p, s, v, old, new :
        /\ p = Head(back[a]) /\ s = Tail(back[a]) /\ v = path[a] \o AtNode(a)
        /\ old = Outside(a) /\ new = Outside(a)'
  OBVIOUS
<1>7. /\ p \in Packet /\ s \in Seq(Packet) /\ v \in Seq(Packet)
      /\ <<p>> \in Seq(Packet)
  <2>1. path[a] \in Seq(Packet) /\ AtNode(a) \in Seq(Packet)
    BY <1>5 DEF Shape
  <2>2. \A x \in Packet : <<x>> \in Seq(Packet)
    OBVIOUS
  <2> QED
    BY <1>2, <1>6, <2>1, <2>2, ConcatProperties
<1>8. old = (<<p>> \o s) \o v /\ new = s \o v
  <2>1. Outside(a) = back[a] \o (path[a] \o AtNode(a))
    BY <1>5 DEF Shape
  <2>2. AtNode(a)' = AtNode(a) /\ path' = path /\ back'[a] = Tail(back[a])
    BY <1>1 DEF AtNode, CacheInv, Travelling
  <2>3. Outside(a)' = Tail(back[a]) \o (path[a] \o AtNode(a))
    BY <1>5, <2>2 DEF Shape
  <2> QED
    BY <1>2, <1>6, <2>1, <2>3, Zenon
<1>9. old = <<p>> \o (s \o v) /\ s \o v \in Seq(Packet)
  <2>1. (<<p>> \o s) \o v = <<p>> \o (s \o v)
    BY <1>7, ConcatAssociative
  <2> QED
    BY <1>7, <1>8, <2>1, ConcatProperties
<1>10. new \in Seq(Packet) /\ old = <<p>> \o new /\ Len(<<p>>) = 1
  BY <1>8, <1>9
<1>11. /\ Len(old) = Len(new) + 1 /\ Len(new) \in Nat
       /\ \A i \in 1 .. 1 + Len(new) :
            old[i] = IF i <= 1 THEN <<p>>[i] ELSE new[i - 1]
  BY <1>7, <1>10, ConcatProperties, LenProperties
<1>12. Len(new) = Len(old) - 1 /\ \A k \in 1 .. Len(new) : new[k] = old[k + 1]
  BY <1>11
<1>13. ASSUME NEW b \in Addr, b # a
       PROVE  Outside(b)' = Outside(b)
  <2>1. AtNode(b)' = AtNode(b) /\ path' = path /\ back'[b] = back[b]
    BY <1>1, <1>13 DEF AtNode, CacheInv, Travelling
  <2> QED
    BY <1>5, <2>1 DEF Shape
<1> QED
  BY <1>4, <1>6, <1>12, <1>13

(* The lanes that the answer p frees: its own, and those that read the     *)
(* block with it if it is the shared slot's.                               *)
Freed(p) ==
  IF p.lane = rr /\ p.kind = "read"
  THEN {i \in Lane : busy(i) /\ req[i].kind = "read" /\ req[i].addr = p.addr}
  ELSE {p.lane}

(* What the cache does with an answer, in both cases.                      *)
LEMMA ResponseFrees ==
  ASSUME CacheInv, NEW a \in Addr, simt_cache_handle_response(a),
         NEW p, p = Head(back[a])
  PROVE  /\ back[a] # << >>
         /\ Freed(p) \subseteq Lane /\ p.lane \in Freed(p)
         /\ req' = [i \in Lane |-> IF i \in Freed(p) THEN NoReq ELSE req[i]]
         /\ queued' = [i \in Lane |-> queued[i] /\ i \notin Freed(p)]
         /\ answer' = [i \in Lane |-> IF i \in Freed(p) THEN p.val ELSE answer[i]]
         /\ rr' = IF p.lane = rr THEN after(rr) ELSE rr
         /\ seen' = [seen EXCEPT ![a] = p.val]
         /\ back' = [back EXCEPT ![a] = Tail(@)]
<1>1. /\ back[a] # << >>
      /\ rr' = IF p.lane = rr THEN after(rr) ELSE rr
      /\ seen' = [seen EXCEPT ![a] = p.val]
      /\ back' = [back EXCEPT ![a] = Tail(@)]
      /\ IF p.lane = rr /\ p.kind = "read"
         THEN simt_cache_broadcast(p)
         ELSE /\ req' = [req EXCEPT ![p.lane] = NoReq]
              /\ answer' = [answer EXCEPT ![p.lane] = p.val]
              /\ UNCHANGED queued
  BY DEF simt_cache_handle_response
<1>2. p \in Packet /\ p.lane \in Lane /\ p.addr = a /\ SentFor(p, p.lane)
  BY <1>1, OldestResponse
<1>3. /\ req \in [Lane -> Op \cup {NoReq}] /\ queued \in [Lane -> BOOLEAN]
      /\ answer \in [Lane -> Value]
  BY DEF CacheInv, Registered
<1>4. CASE p.lane = rr /\ p.kind = "read"
  <2>1. Freed(p) \subseteq Lane /\ p.lane \in Freed(p)
    BY <1>2, <1>4 DEF Freed, SentFor
  <2>2. /\ req' = [i \in Lane |-> IF i \in Freed(p) THEN NoReq ELSE req[i]]
        /\ queued' = [i \in Lane |-> queued[i] /\ i \notin Freed(p)]
        /\ answer' = [i \in Lane |-> IF i \in Freed(p) THEN p.val ELSE answer[i]]
    BY <1>1, <1>4 DEF simt_cache_broadcast, Freed
  <2> QED
    BY <1>1, <2>1, <2>2
<1>5. CASE ~ (p.lane = rr /\ p.kind = "read")
  <2>1. Freed(p) = {p.lane} /\ ~ queued[p.lane]
    BY <1>2, <1>5 DEF Freed, SentFor
  <2>2. /\ req' = [i \in Lane |-> IF i \in Freed(p) THEN NoReq ELSE req[i]]
        /\ answer' = [i \in Lane |-> IF i \in Freed(p) THEN p.val ELSE answer[i]]
    BY <1>1, <1>2, <1>3, <1>5, <2>1
  <2>3. queued' = [i \in Lane |-> queued[i] /\ i \notin Freed(p)]
    <3>1. \A i \in Lane : queued[i] = (queued[i] /\ i \notin Freed(p))
      BY <1>2, <1>3, <2>1
    <3>2. queued' = queued
      BY <1>1, <1>5
    <3> QED
      BY <1>3, <3>1, <3>2
  <2> QED
    BY <1>1, <1>2, <2>1, <2>2, <2>3
<1> QED
  BY <1>4, <1>5

(* Of the lanes that an answer frees, only its own had a packet outside:   *)
(* another reader's would have been before the shared slot's.              *)
LEMMA FreedIsAnswered ==
  ASSUME CacheInv, NEW a \in Addr, back[a] # << >>, NEW p, p = Head(back[a]),
         NEW i \in Freed(p), NEW b \in Addr, NEW k \in 1 .. Len(Outside(b)),
         Outside(b)[k].lane = i
  PROVE  b = a /\ k = 1
<1>1. /\ 1 \in 1 .. Len(Outside(a)) /\ Outside(a)[1] = p
      /\ p.addr = a /\ SentFor(p, p.lane)
  BY OldestResponse
<1>2. CASE i = p.lane
  BY <1>1, <1>2 DEF CacheInv, Matched
<1>3. CASE i # p.lane
  <2>1. /\ p.lane = rr /\ p.kind = "read"
        /\ busy(i) /\ req[i].kind = "read" /\ req[i].addr = a
    BY <1>1, <1>3 DEF Freed
  <2>2. Outside(b)[k].addr = b /\ SentFor(Outside(b)[k], i)
    BY DEF CacheInv, Matched
  <2>3. b = a /\ Outside(b)[k].kind = "read"
    BY <2>1, <2>2 DEF SentFor
  <2>4. k <= 1
    BY <1>1, <2>1, <2>3 DEF CacheInv, SharedIsLast
  <2>5. Len(Outside(b)) \in Nat
    BY HasShape DEF CacheInv, Shape
  <2> QED
    BY <2>3, <2>4, <2>5
<1> QED
  BY <1>2, <1>3

(* What is outside after an answer was outside before, is not the answered *)
(* packet, and its lane is not freed.                                      *)
LEMMA StaysOutside ==
  ASSUME CacheInv, NEW a \in Addr, simt_cache_handle_response(a),
         NEW p, p = Head(back[a])
  PROVE  /\ \A b \in Addr : \A k \in 1 .. Len(Outside(b)') :
              LET l == IF b = a THEN k + 1 ELSE k
              IN  /\ l \in 1 .. Len(Outside(b))
                  /\ Outside(b)'[k] = Outside(b)[l]
                  /\ Outside(b)[l].lane \in Lane
                  /\ Outside(b)[l].lane \notin Freed(p)
         /\ \A i \in Lane : Out(i) /\ i \notin Freed(p) => Out(i)'
<1>1. /\ Len(Outside(a)') = Len(Outside(a)) - 1
      /\ \A k \in 1 .. Len(Outside(a)') : Outside(a)'[k] = Outside(a)[k + 1]
      /\ \A b \in Addr \ {a} : Outside(b)' = Outside(b)
  BY ResponseOutside
<1>2. back[a] # << >> /\ p.lane \in Freed(p)
  BY ResponseFrees
<1>3. Shape
  BY HasShape DEF CacheInv
<1>4. ASSUME NEW b \in Addr, NEW k \in 1 .. Len(Outside(b)'), NEW l,
             l = IF b = a THEN k + 1 ELSE k
      PROVE  /\ l \in 1 .. Len(Outside(b))
             /\ Outside(b)'[k] = Outside(b)[l]
             /\ Outside(b)[l].lane \in Lane
             /\ Outside(b)[l].lane \notin Freed(p)
  <2>1. Len(Outside(b)) \in Nat
    BY <1>3 DEF Shape
  <2>2. l \in 1 .. Len(Outside(b)) /\ Outside(b)'[k] = Outside(b)[l]
    BY <1>1, <1>4, <2>1
  <2>3. ~ (b = a /\ l = 1)
    BY <1>1, <1>4, <2>1
  <2>4. Outside(b)[l].lane \notin Freed(p)
    BY <1>2, <2>2, <2>3, FreedIsAnswered
  <2>5. Outside(b)[l] \in Packet
    BY <1>3, <2>2 DEF Shape
  <2> QED
    BY <2>2, <2>4, <2>5 DEF Packet
<1>5. ASSUME NEW i \in Lane, Out(i), i \notin Freed(p)
      PROVE  Out(i)'
  <2>1. PICK b \in Addr : \E l \in 1 .. Len(Outside(b)) : Outside(b)[l].lane = i
    BY <1>5 DEF Out
  <2>2. PICK l \in 1 .. Len(Outside(b)) : Outside(b)[l].lane = i
    BY <2>1
  <2>3. CASE b = a
    <3>1. Outside(a)[1] = p /\ Len(Outside(a)) \in Nat
      BY <1>2, <1>3, OldestResponse DEF Shape
    <3>2. l # 1
      BY <1>2, <1>5, <2>2, <2>3, <3>1
    <3>3. l - 1 \in 1 .. Len(Outside(a)') /\ (l - 1) + 1 = l
      BY <1>1, <2>3, <3>1, <3>2
    <3>4. Outside(a)'[l - 1].lane = i
      BY <1>1, <2>2, <2>3, <3>3
    <3> QED
      BY <3>3, <3>4 DEF Out
  <2>4. CASE b # a
    <3>1. Outside(b)' = Outside(b)
      BY <1>1, <2>4
    <3> QED
      BY <2>2, <3>1 DEF Out
  <2> QED
    BY <2>3, <2>4
<1> QED
  BY <1>4, <1>5

(* After an answer, the packets outside still match.                       *)
LEMMA ResponseMatches ==
  ASSUME CacheInv, NEW a \in Addr, simt_cache_handle_response(a)
  PROVE  Matched'
<1>1. PICK p : p = Head(back[a])
  OBVIOUS
<1>2. /\ req' = [i \in Lane |-> IF i \in Freed(p) THEN NoReq ELSE req[i]]
      /\ queued' = [i \in Lane |-> queued[i] /\ i \notin Freed(p)]
  BY <1>1, ResponseFrees
<1>3. \A b \in Addr : \A k \in 1 .. Len(Outside(b)') :
        LET l == IF b = a THEN k + 1 ELSE k
        IN  /\ l \in 1 .. Len(Outside(b))
            /\ Outside(b)'[k] = Outside(b)[l]
            /\ Outside(b)[l].lane \in Lane
            /\ Outside(b)[l].lane \notin Freed(p)
  BY <1>1, StaysOutside
<1>4. ASSUME NEW b \in Addr, NEW k \in 1 .. Len(Outside(b)')
      PROVE  LET q == Outside(b)'[k]
             IN  q.addr = b /\ req'[q.lane] # NoReq /\ ~ queued'[q.lane]
                 /\ req'[q.lane].kind = q.kind /\ req'[q.lane].addr = q.addr
                 /\ (q.kind = "write" => req'[q.lane].val = q.val)
  <2>1. PICK l : l = IF b = a THEN k + 1 ELSE k
    OBVIOUS
  <2>2. PICK q, i : q = Outside(b)'[k] /\ i = q.lane
    OBVIOUS
  <2>3. /\ l \in 1 .. Len(Outside(b)) /\ q = Outside(b)[l]
        /\ i \in Lane /\ i \notin Freed(p)
    BY <1>3, <2>1, <2>2
  <2>4. q.addr = b /\ SentFor(q, i)
    BY <2>2, <2>3 DEF CacheInv, Matched
  <2>5. req'[i] = req[i] /\ ~ queued'[i]
    BY <1>2, <2>3, <2>4 DEF SentFor
  <2> QED
    BY <2>2, <2>4, <2>5 DEF SentFor, busy
<1>5. ASSUME NEW b \in Addr, NEW c \in Addr,
             NEW k \in 1 .. Len(Outside(b)'), NEW m \in 1 .. Len(Outside(c)'),
             Outside(b)'[k].lane = Outside(c)'[m].lane
      PROVE  b = c /\ k = m
  <2>1. PICK l, n : /\ l = IF b = a THEN k + 1 ELSE k
                    /\ n = IF c = a THEN m + 1 ELSE m
    OBVIOUS
  <2>2. /\ l \in 1 .. Len(Outside(b)) /\ Outside(b)'[k] = Outside(b)[l]
        /\ n \in 1 .. Len(Outside(c)) /\ Outside(c)'[m] = Outside(c)[n]
    BY <1>3, <2>1
  <2>3. b = c /\ l = n
    BY <1>5, <2>2 DEF CacheInv, Matched
  <2> QED
    BY <2>1, <2>3
<1> QED
  BY <1>4, <1>5 DEF Matched, SentFor, busy

(* The slot stays or goes to the next lane.  In the latter case all that   *)
(* is left outside is of lanes that sent to their own bank, at most one of *)
(* each block.                                                             *)
LEMMA ResponseKeepsTurn ==
  ASSUME CacheInv, NEW a \in Addr, simt_cache_handle_response(a)
  PROVE  InTurn' /\ SharedIsLast'
<1>1. PICK p : p = Head(back[a])
  OBVIOUS
<1>2. rr' = IF p.lane = rr THEN after(rr) ELSE rr
  BY <1>1, ResponseFrees
<1>3. \A b \in Addr : \A k \in 1 .. Len(Outside(b)') :
        LET l == IF b = a THEN k + 1 ELSE k
        IN  /\ l \in 1 .. Len(Outside(b))
            /\ Outside(b)'[k] = Outside(b)[l]
            /\ Outside(b)[l].lane \in Lane
            /\ Outside(b)[l].lane \notin Freed(p)
  BY <1>1, StaysOutside
<1>4. \A b \in Addr : \A k \in 1 .. Len(Outside(b)') :
        LET i == Outside(b)'[k].lane IN b % Lanes = i \/ i = rr
  BY <1>3 DEF CacheInv, InTurn
<1>5. CASE p.lane # rr
  <2>1. rr' = rr
    BY <1>2, <1>5
  <2>2. InTurn'
    BY <1>4, <2>1 DEF InTurn
  <2>3. ASSUME NEW b \in Addr,
               NEW k \in 1 .. Len(Outside(b)'), NEW m \in 1 .. Len(Outside(b)'),
               Outside(b)'[k].kind = "read", Outside(b)'[m].kind = "read",
               Outside(b)'[k].lane = rr
        PROVE  m <= k
    <3>1. PICK l, n : /\ l = IF b = a THEN k + 1 ELSE k
                      /\ n = IF b = a THEN m + 1 ELSE m
      OBVIOUS
    <3>2. /\ l \in 1 .. Len(Outside(b)) /\ Outside(b)'[k] = Outside(b)[l]
          /\ n \in 1 .. Len(Outside(b)) /\ Outside(b)'[m] = Outside(b)[n]
      BY <1>3, <3>1
    <3>3. n <= l
      BY <2>3, <3>2 DEF CacheInv, SharedIsLast
    <3> QED
      BY <3>1, <3>3
  <2> QED
    BY <2>1, <2>2, <2>3 DEF SharedIsLast
<1>6. CASE p.lane = rr
  <2>1. rr \in Freed(p)
    BY <1>1, <1>6, ResponseFrees
  <2>2. \A b \in Addr : \A k \in 1 .. Len(Outside(b)') :
          Outside(b)'[k].lane = b % Lanes
    BY <1>3, <1>4, <2>1
  <2>3. InTurn'
    BY <2>2 DEF InTurn
  <2>4. \A b \in Addr : \A k, m \in 1 .. Len(Outside(b)') : k = m
    BY <2>2, ResponseMatches DEF Matched
  <2>5. SharedIsLast'
    BY <2>4 DEF SharedIsLast
  <2> QED
    BY <2>3, <2>5
<1> QED
  BY <1>5, <1>6

(* After an answer, no lane is forgotten: those that waited for the shared *)
(* slot are freed with it.                                                 *)
LEMMA ResponseForgetsNobody ==
  ASSUME CacheInv, NEW a \in Addr, simt_cache_handle_response(a)
  PROVE  NobodyForgotten'
<1>1. PICK p : p = Head(back[a])
  OBVIOUS
<1>2. /\ back[a] # << >> /\ p.lane \in Freed(p)
      /\ req' = [i \in Lane |-> IF i \in Freed(p) THEN NoReq ELSE req[i]]
      /\ queued' = [i \in Lane |-> queued[i] /\ i \notin Freed(p)]
      /\ rr' = IF p.lane = rr THEN after(rr) ELSE rr
  BY <1>1, ResponseFrees
<1>3. Remembered /\ (Remembered' => NobodyForgotten')
  BY ResponseOutside, HasShape DEF CacheInv, Shape
<1>4. rr \in Lane
  BY DEF CacheInv, Registered
<1>5. p.lane \in Lane /\ p.addr = a /\ SentFor(p, p.lane)
  BY <1>1, <1>2, OldestResponse
<1>6. ASSUME NEW j \in Lane, busy(j)'
      PROVE  queued'[j] \/ Out(j)' \/ Waits(j)'
  <2>1. j \notin Freed(p) /\ busy(j) /\ req'[j] = req[j]
    BY <1>2, <1>6 DEF busy
  <2>2. CASE queued[j]
    BY <1>2, <2>1, <2>2
  <2>3. CASE Out(j)
    BY <1>1, <2>1, <2>3, StaysOutside
  <2>4. CASE Waits(j)
    <3>1. p.lane # rr
      <4>1. SUFFICES ASSUME p.lane = rr
                     PROVE  FALSE
        OBVIOUS
      <4>2. p.kind = "read" /\ req[j].kind = "read" /\ req[j].addr = p.addr
        BY <1>5, <2>4, <4>1 DEF Waits, SentFor
      <4> QED
        BY <2>1, <4>1, <4>2 DEF Freed
    <3>2. rr' = rr /\ rr \notin Freed(p)
      BY <1>2, <3>1 DEF Freed
    <3>3. req'[rr] = req[rr]
      BY <1>2, <1>4, <3>2
    <3> QED
      BY <2>1, <2>4, <3>2, <3>3 DEF Waits, busy
  <2> QED
    BY <1>3, <2>1, <2>2, <2>3, <2>4 DEF Remembered
<1>7. Remembered'
  BY <1>6 DEF Remembered
<1> QED
  BY <1>3, <1>7

(* An answer reaches the lanes that wait for it.                           *)
LEMMA ResponseKeeps ==
  ASSUME CacheInv, NEW a \in Addr, simt_cache_handle_response(a)
  PROVE  CacheInv'
<1>1. PICK p : p = Head(back[a])
  OBVIOUS
<1>2. /\ back[a] # << >>
      /\ req' = [i \in Lane |-> IF i \in Freed(p) THEN NoReq ELSE req[i]]
      /\ queued' = [i \in Lane |-> queued[i] /\ i \notin Freed(p)]
      /\ answer' = [i \in Lane |-> IF i \in Freed(p) THEN p.val ELSE answer[i]]
      /\ rr' = IF p.lane = rr THEN after(rr) ELSE rr
      /\ seen' = [seen EXCEPT ![a] = p.val]
      /\ back' = [back EXCEPT ![a] = Tail(@)]
      /\ mem' = mem
  <2>1. mem' = mem
    BY DEF simt_cache_handle_response
  <2> QED
    BY <1>1, <2>1, ResponseFrees
<1>3. p \in Packet /\ 1 \in 1 .. Len(back[a]) /\ back[a][1] = p
  BY <1>1, <1>2, OldestResponse
<1>4. Registered'
  <2>1. after(rr) \in Lane
    BY CacheAssumption DEF after, Lane, CacheInv, Registered
  <2>2. p.val \in Value
    BY <1>3 DEF Packet
  <2>3. /\ req' \in [Lane -> Op \cup {NoReq}] /\ queued' \in [Lane -> BOOLEAN]
        /\ answer' \in [Lane -> Value] /\ rr' \in Lane
    BY <1>2, <2>1, <2>2 DEF CacheInv, Registered
  <2>4. \A i \in Lane : queued'[i] => busy(i)'
    BY <1>2 DEF CacheInv, Registered, busy
  <2> QED
    BY <2>3, <2>4 DEF Registered
<1>5. Travelling' /\ Matched' /\ InTurn' /\ SharedIsLast' /\ NobodyForgotten'
  BY ResponseOutside, ResponseMatches, ResponseKeepsTurn, ResponseForgetsNobody
<1>6. ASSUME NEW b \in Addr
      PROVE  Explains(b)'
  <2>1. CASE b = a
    <3>1. /\ back[a] \in Seq(Packet) /\ back'[a] = Tail(back[a])
          /\ seen'[a] = p.val /\ mem'[a] = mem[a]
      BY <1>2 DEF CacheInv, Travelling
    <3>2. PICK n : n = Len(back'[a])
      OBVIOUS
    <3>3. /\ n \in Nat /\ Len(back[a]) = n + 1
          /\ \A k \in 1 .. n : back'[a][k] = back[a][k + 1]
      <4>1. PICK s : s = back[a]
        OBVIOUS
      <4>2. s \in Seq(Packet) /\ s # << >> /\ back'[a] = Tail(s)
        BY <1>2, <3>1, <4>1
      <4>3. Len(s) \in Nat /\ Len(s) >= 1 /\ Len(Tail(s)) = Len(s) - 1
        BY <4>2, FirstTaken
      <4>4. \A k \in 1 .. Len(Tail(s)) : Tail(s)[k] = s[k + 1]
        BY <4>2, FirstTaken
      <4> QED
        BY <3>2, <4>1, <4>2, <4>3, <4>4
    <3>4. ASSUME NEW k \in 1 .. n + 1
          PROVE  Before(a, k)' = Before(a, k + 1)
      <4>1. CASE k = 1
        BY <1>3, <3>1, <4>1 DEF Before
      <4>2. CASE k # 1
        <5>1. /\ k - 1 \in 1 .. n /\ (k - 1) + 1 = (k + 1) - 1 /\ k + 1 # 1
          BY <3>3, <4>2
        <5> QED
          BY <3>3, <4>2, <5>1 DEF Before
      <4> QED
        BY <4>1, <4>2
    <3>5. /\ \A k \in 1 .. n + 1 :
               back[a][k].kind = "read" => back[a][k].val = Before(a, k)
          /\ mem[a] = Before(a, (n + 1) + 1)
      BY <3>3 DEF CacheInv, Explained, Explains
    <3>6. ASSUME NEW k \in 1 .. n
          PROVE  back'[a][k].kind = "read" => back'[a][k].val = Before(a, k)'
      <4>1. k \in 1 .. n + 1 /\ k + 1 \in 1 .. n + 1
        BY <3>3
      <4> QED
        BY <3>3, <3>4, <3>5, <4>1
    <3>7. mem'[a] = Before(a, n + 1)'
      BY <3>1, <3>3, <3>4, <3>5
    <3> QED
      BY <2>1, <3>2, <3>6, <3>7 DEF Explains
  <2>2. CASE b # a
    <3>1. back'[b] = back[b] /\ seen'[b] = seen[b] /\ mem'[b] = mem[b]
      BY <1>2, <2>2 DEF CacheInv, Travelling
    <3> QED
      BY <3>1 DEF CacheInv, Explained, Explains, Before
  <2> QED
    BY <2>1, <2>2
<1> QED
  BY <1>4, <1>5, <1>6 DEF CacheInv, Explained
----------------------------------------------------------------------------
(* A request is one a lane may make.                                       *)
LEMMA Requested ==
  ASSUME CacheInv, NEW o \in Ops, simt_cache_receive(o[1], o[2], o[3])
  PROVE  /\ o[1] \in Lane /\ req[o[1]] = NoReq
         /\ \E r \in Op : req' = [req EXCEPT ![o[1]] = r]
         /\ queued' = [queued EXCEPT ![o[1]] = TRUE]
         /\ answer' = [answer EXCEPT ![o[1]] = InitValue]
         /\ UNCHANGED <<rr, port, path, back, mem, seen>>
<1>1. /\ o[1] \in 0 .. Lanes - 1 /\ o[2] \in {"read", "write"} /\ o[3] \in Addr
  BY CacheAssumption
<1>2. o[1] \in Lane
  BY <1>1 DEF Lane
<1>3. PICK r : r = [kind |-> o[2], addr |-> o[3],
                    val |-> IF o[2] = "write" THEN o[1] ELSE InitValue]
  OBVIOUS
<1>4. (IF o[2] = "write" THEN o[1] ELSE InitValue) \in Value
  BY <1>2 DEF Value
<1>5. r \in Op
  BY <1>1, <1>3, <1>4 DEF Op
<1>6. req' = [req EXCEPT ![o[1]] = r]
  BY <1>3 DEF simt_cache_receive
<1> QED
  BY <1>2, <1>5, <1>6 DEF simt_cache_receive, busy

(* A lane that asks has nothing outside, and nobody waits for it.          *)
LEMMA ReceiveKeeps ==
  ASSUME CacheInv, NEW o \in Ops, simt_cache_receive(o[1], o[2], o[3])
  PROVE  CacheInv'
<1>1. PICK i : i = o[1]
  OBVIOUS
<1>2. PICK r \in Op : req' = [req EXCEPT ![o[1]] = r]
  BY Requested
<1>3. /\ i \in Lane /\ req[i] = NoReq
      /\ req' = [req EXCEPT ![i] = r]
      /\ queued' = [queued EXCEPT ![i] = TRUE]
      /\ answer' = [answer EXCEPT ![i] = InitValue]
      /\ UNCHANGED <<rr, port, path, back, mem, seen>>
  BY <1>1, <1>2, Requested
<1>4. r # NoReq /\ InitValue \in Value
  BY NoReqAssumption DEF Value
<1>5. Registered'
  BY <1>3, <1>4 DEF CacheInv, Registered, busy
<1>6. Travelling' /\ Explained'
  BY <1>3 DEF CacheInv, Travelling, Explained, Explains, Before
<1>7. Shape /\ Shape'
  BY <1>6, HasShape DEF CacheInv
<1>8. \A a \in Addr : Outside(a)' = Outside(a)
  BY <1>3 DEF Outside
<1>9. \A a \in Addr : \A k \in 1 .. Len(Outside(a)) :
        LET p == Outside(a)[k]
        IN  /\ p.addr = a /\ SentFor(p, p.lane)
            /\ p.lane \in Lane /\ p.lane # i
            /\ req'[p.lane] = req[p.lane] /\ queued'[p.lane] = queued[p.lane]
  <2>1. ASSUME NEW a \in Addr, NEW k \in 1 .. Len(Outside(a)),
               NEW p, p = Outside(a)[k]
        PROVE  /\ p.addr = a /\ SentFor(p, p.lane)
               /\ p.lane \in Lane /\ p.lane # i
               /\ req'[p.lane] = req[p.lane] /\ queued'[p.lane] = queued[p.lane]
    <3>1. p.addr = a /\ SentFor(p, p.lane)
      BY <2>1 DEF CacheInv, Matched
    <3>2. p \in Packet
      BY <1>7, <2>1 DEF Shape
    <3>3. p.lane \in Lane /\ p.lane # i
      BY <1>3, <3>1, <3>2 DEF Packet, SentFor, busy
    <3> QED
      BY <1>3, <3>1, <3>3 DEF CacheInv, Registered
  <2> QED
    BY <2>1
<1>10. Matched'
  BY <1>8, <1>9 DEF CacheInv, Matched, SentFor, busy
<1>11. InTurn' /\ SharedIsLast'
  BY <1>3, <1>8 DEF CacheInv, InTurn, SharedIsLast
<1>12. ASSUME NEW j \in Lane, busy(j)'
       PROVE  queued'[j] \/ Out(j)' \/ Waits(j)'
  <2>1. CASE j = i
    BY <1>3, <2>1 DEF CacheInv, Registered
  <2>2. CASE j # i
    <3>1. req'[j] = req[j] /\ queued'[j] = queued[j] /\ busy(j)
      BY <1>3, <1>12, <2>2 DEF CacheInv, Registered, busy
    <3>2. Out(j) => Out(j)'
      BY <1>8 DEF Out
    <3>3. Waits(j) => Waits(j)'
      <4>1. busy(rr) => req'[rr] = req[rr]
        BY <1>3 DEF CacheInv, Registered, busy
      <4> QED
        BY <1>3, <3>1, <4>1 DEF Waits, busy
    <3>4. queued[j] \/ Out(j) \/ Waits(j)
      BY <1>7, <3>1 DEF CacheInv, Shape, Remembered
    <3> QED
      BY <3>1, <3>2, <3>3, <3>4
  <2> QED
    BY <2>1, <2>2
<1>13. NobodyForgotten'
  BY <1>7, <1>12 DEF Shape, Remembered
<1> QED
  BY <1>5, <1>6, <1>10, <1>11, <1>13 DEF CacheInv

----------------------------------------------------------------------------
(* The slot goes to a lane. *)
LEMMA NextIsLane ==
  ASSUME CacheInv
  PROVE  nextActive \in Lane
<1> DEFINE dist(i) == (i - rr - 1) % Lanes
           active == {i \in Lane : busy(i)}
<1>1. rr \in Lane
  BY DEF CacheInv, Registered
<1>2. CASE active = {}
  BY <1>1, <1>2 DEF nextActive
<1>3. CASE active # {}
  <2>1. \A i \in Lane : dist(i) \in Nat
    BY <1>1, CacheAssumption DEF Lane
  <2>2. PICK D : D = {dist(i) : i \in active}
    OBVIOUS
  <2>3. D \in SUBSET Nat /\ D # {}
    BY <1>3, <2>1, <2>2
  <2>4. PICK n \in D : \A m \in D : n <= m
    BY <2>3, LeastNumber
  <2>5. \E i \in active : \A j \in active : dist(i) <= dist(j)
    BY <2>2, <2>4
  <2>6. nextActive = CHOOSE i \in active : \A j \in active : dist(i) <= dist(j)
    BY <1>3 DEF nextActive
  <2>7. nextActive \in active
    BY <2>5, <2>6
  <2> QED
    BY <2>7
<1> QED
  BY <1>2, <1>3

(* At a clock one lane may send.                                           *)
LEMMA WhoGoesOut ==
  ASSUME CacheInv
  PROVE  \/ goesOut = {}
         \/ \E i \in Lane : /\ goesOut = {i} /\ Min(goesOut) = i
                            /\ mayGoOut(i) /\ port = NoReq
<1>1. PICK able : able = {i \in Lane : mayGoOut(i)}
  OBVIOUS
<1>2. CASE port # NoReq \/ able = {}
  BY <1>1, <1>2 DEF goesOut
<1>3. CASE ~ (port # NoReq \/ able = {})
  <2>1. able \in SUBSET Nat
    BY <1>1, CacheAssumption DEF Lane
  <2>2. Min(able) \in able
    BY <1>3, <2>1, LeastNumber
  <2>3. PICK i \in Lane : i = Min(able) /\ mayGoOut(i)
    BY <1>1, <2>2
  <2>4. goesOut = {i}
    BY <1>1, <1>3, <2>3 DEF goesOut
  <2>5. {i} \in SUBSET Nat
    BY <2>3, CacheAssumption DEF Lane
  <2>6. Min({i}) \in {i}
    BY <2>5, LeastNumber
  <2> QED
    BY <1>3, <2>3, <2>4, <2>6
<1> QED
  BY <1>2, <1>3

(* q is what lane i sends at a clock, after all the packets of block a.    *)
Sent(i, k, a, q) ==
  /\ goesOut = {i} /\ mayGoOut(i) /\ i \in Lane
  /\ a = req[i].addr /\ k = Len(Outside(a)) + 1
  /\ q = [lane |-> i, kind |-> req[i].kind, addr |-> req[i].addr,
          val |-> req[i].val]

(* A clock adds at most one packet, at the end of its block's.             *)
LEMMA ClockOutside ==
  ASSUME CacheInv, simt_cache_clock
  PROVE  /\ Travelling'
         /\ \A a \in Addr : \A k \in 1 .. Len(Outside(a)) :
              /\ k \in 1 .. Len(Outside(a)')
              /\ Outside(a)'[k] = Outside(a)[k]
         /\ \A a \in Addr : \A k \in 1 .. Len(Outside(a)') :
              \/ /\ k \in 1 .. Len(Outside(a))
                 /\ Outside(a)'[k] = Outside(a)[k]
              \/ \E i \in goesOut : Sent(i, k, a, Outside(a)'[k])
         /\ \A i \in goesOut : Out(i)'
<1>1. /\ port' = IF goesOut = {} THEN port
                 ELSE LET i == Min(goesOut)
                      IN  [lane |-> i, kind |-> req[i].kind,
                           addr |-> req[i].addr, val |-> req[i].val]
      /\ UNCHANGED <<req, path, back, mem, seen>>
  BY DEF simt_cache_clock
<1>2. Shape
  BY HasShape DEF CacheInv
<1>3. CASE goesOut = {}
  <2>1. port' = port
    BY <1>1, <1>3
  <2>2. Travelling'
    BY <1>1, <2>1 DEF CacheInv, Travelling
  <2>3. \A a \in Addr : Outside(a)' = Outside(a)
    BY <1>1, <2>1 DEF Outside
  <2> QED
    BY <1>3, <2>2, <2>3
<1>4. ASSUME NEW i \in Lane, goesOut = {i}, Min(goesOut) = i, mayGoOut(i),
             port = NoReq
      PROVE  /\ Travelling'
             /\ \A a \in Addr : \A k \in 1 .. Len(Outside(a)) :
                  /\ k \in 1 .. Len(Outside(a)')
                  /\ Outside(a)'[k] = Outside(a)[k]
             /\ \A a \in Addr : \A k \in 1 .. Len(Outside(a)') :
                  \/ /\ k \in 1 .. Len(Outside(a))
                     /\ Outside(a)'[k] = Outside(a)[k]
                  \/ Sent(i, k, a, Outside(a)'[k])
             /\ Out(i)'
  <2>1. PICK q : q = [lane |-> i, kind |-> req[i].kind,
                      addr |-> req[i].addr, val |-> req[i].val]
    OBVIOUS
  <2>2. req[i] \in Op
    BY <1>4 DEF CacheInv, Registered, mayGoOut, busy
  <2>3. q \in Packet /\ q # NoReq /\ q.addr = req[i].addr /\ q.addr \in Addr
        /\ q.lane = i
    BY <2>1, <2>2, NoReqAssumption DEF Op, Packet
  <2>4. port' = q
    BY <1>1, <1>4, <2>1
  <2>5. Travelling'
    BY <1>1, <2>3, <2>4 DEF CacheInv, Travelling
  <2>6. Shape'
    BY <2>5, HasShape
  <2>7. ASSUME NEW a \in Addr
        PROVE  /\ a = q.addr => Outside(a)' = Append(Outside(a), q)
               /\ a # q.addr => Outside(a)' = Outside(a)
    <3>1. /\ AtNode(a) = << >> /\ path'[a] = path[a] /\ back'[a] = back[a]
          /\ AtNode(a)' = IF q.addr = a THEN <<q>> ELSE << >>
      BY <1>1, <1>4, <2>3, <2>4 DEF AtNode
    <3>2. PICK s : s = back[a] \o path[a]
      OBVIOUS
    <3>3. s \in Seq(Packet)
      BY <1>2, <3>2, ConcatProperties DEF Shape
    <3>4. Outside(a) = s
      BY <1>2, <3>1, <3>2, <3>3, ConcatEmptySeq DEF Shape
    <3>5. Outside(a)' = s \o AtNode(a)'
      BY <2>6, <3>1, <3>2 DEF Shape
    <3>6. Append(s, q) = s \o <<q>> /\ s \o << >> = s
      BY <2>3, <3>3, AppendIsConcat, ConcatEmptySeq
    <3> QED
      BY <3>1, <3>4, <3>5, <3>6
  <2>8. ASSUME NEW a \in Addr, a = q.addr
        PROVE  /\ Len(Outside(a)) \in Nat
               /\ Len(Outside(a)') = Len(Outside(a)) + 1
               /\ Outside(a)'[Len(Outside(a)) + 1] = q
               /\ \A k \in 1 .. Len(Outside(a)) : Outside(a)'[k] = Outside(a)[k]
    <3>1. PICK s, new : s = Outside(a) /\ new = Outside(a)'
      OBVIOUS
    <3>2. s \in Seq(Packet) /\ Len(s) \in Nat /\ new = Append(s, q)
      BY <1>2, <2>7, <2>8, <3>1 DEF Shape
    <3>3. /\ Len(new) = Len(s) + 1 /\ new[Len(s) + 1] = q
          /\ \A k \in 1 .. Len(s) : new[k] = s[k]
      BY <2>3, <3>2, AppendProperties
    <3> QED
      BY <3>1, <3>2, <3>3
  <2>9. ASSUME NEW a \in Addr, NEW k \in 1 .. Len(Outside(a))
        PROVE  k \in 1 .. Len(Outside(a)') /\ Outside(a)'[k] = Outside(a)[k]
    BY <2>7, <2>8
  <2>10. ASSUME NEW a \in Addr, NEW k \in 1 .. Len(Outside(a)')
         PROVE  \/ /\ k \in 1 .. Len(Outside(a))
                   /\ Outside(a)'[k] = Outside(a)[k]
                \/ Sent(i, k, a, Outside(a)'[k])
    <3>1. CASE a # q.addr
      BY <2>7, <3>1
    <3>2. CASE a = q.addr /\ k = Len(Outside(a)) + 1
      BY <1>4, <2>1, <2>3, <2>8, <3>2 DEF Sent
    <3>3. CASE a = q.addr /\ k # Len(Outside(a)) + 1
      BY <2>8, <3>3
    <3> QED
      BY <3>1, <3>2, <3>3
  <2>11. Out(i)'
    <3>1. PICK a \in Addr : a = q.addr
      BY <2>3
    <3>2. PICK k : k = Len(Outside(a)) + 1
      OBVIOUS
    <3>3. k \in 1 .. Len(Outside(a)') /\ Outside(a)'[k].lane = i
      BY <2>3, <2>8, <3>1, <3>2
    <3> QED
      BY <3>3 DEF Out
  <2> QED
    BY <2>5, <2>9, <2>10, <2>11
<1>5. CASE goesOut # {}
  <2>1. PICK i \in Lane : /\ goesOut = {i} /\ Min(goesOut) = i
                          /\ mayGoOut(i) /\ port = NoReq
    BY <1>5, WhoGoesOut
  <2> QED
    BY <1>4, <2>1
<1> QED
  BY <1>3, <1>5

(* What was queued for is sent, and what was sent is no longer queued.     *)
LEMMA ClockMatches ==
  ASSUME CacheInv, simt_cache_clock
  PROVE  Matched'
<1>1. /\ queued' = [i \in Lane |-> queued[i] /\ ~ rides(i) /\ i \notin goesOut]
      /\ req' = req
  BY DEF simt_cache_clock
<1>2. \A a \in Addr : \A k \in 1 .. Len(Outside(a)') :
        \/ /\ k \in 1 .. Len(Outside(a))
           /\ Outside(a)'[k] = Outside(a)[k]
        \/ \E i \in goesOut : Sent(i, k, a, Outside(a)'[k])
  BY ClockOutside
<1>3. Shape
  BY HasShape DEF CacheInv
<1>4. ASSUME NEW a \in Addr, NEW k \in 1 .. Len(Outside(a)),
             NEW q, q = Outside(a)[k]
      PROVE  /\ q.addr = a /\ SentFor(q, q.lane) /\ q.lane \in Lane
             /\ ~ queued[q.lane] /\ ~ queued'[q.lane]
  <2>1. q.addr = a /\ SentFor(q, q.lane) /\ q \in Packet
    BY <1>3, <1>4 DEF CacheInv, Matched, Shape
  <2>2. q.lane \in Lane /\ ~ queued[q.lane]
    BY <2>1 DEF Packet, SentFor
  <2>3. ~ queued'[q.lane]
    BY <1>1, <2>2
  <2> QED
    BY <2>1, <2>2, <2>3
<1>5. ASSUME NEW i \in goesOut, NEW a, NEW k, NEW q, Sent(i, k, a, q)
      PROVE  /\ q.addr = a /\ q.lane = i /\ busy(i) /\ queued[i] /\ ~ queued'[i]
             /\ req[i].kind = q.kind /\ req[i].addr = q.addr /\ req[i].val = q.val
             /\ a = req[i].addr /\ k = Len(Outside(a)) + 1 /\ goesOut = {i}
  <2>1. i \in Lane /\ queued[i]
    BY <1>5 DEF Sent, mayGoOut
  <2>2. ~ queued'[i]
    BY <1>1, <2>1
  <2> QED
    BY <1>5, <2>1, <2>2 DEF Sent, CacheInv, Registered
<1>6. ASSUME NEW a \in Addr, NEW k \in 1 .. Len(Outside(a)'),
             NEW q, q = Outside(a)'[k]
      PROVE  /\ q.addr = a /\ busy(q.lane) /\ ~ queued'[q.lane]
             /\ req[q.lane].kind = q.kind /\ req[q.lane].addr = q.addr
             /\ (q.kind = "write" => req[q.lane].val = q.val)
  <2>1. CASE k \in 1 .. Len(Outside(a)) /\ q = Outside(a)[k]
    BY <1>4, <2>1 DEF SentFor
  <2>2. CASE \E i \in goesOut : Sent(i, k, a, q)
    <3>1. PICK i \in goesOut : Sent(i, k, a, q)
      BY <2>2
    <3> QED
      BY <1>5, <3>1
  <2> QED
    BY <1>2, <1>6, <2>1, <2>2
<1>7. ASSUME NEW a \in Addr, NEW b \in Addr,
             NEW k \in 1 .. Len(Outside(a)'), NEW l \in 1 .. Len(Outside(b)'),
             NEW p, NEW q, p = Outside(a)'[k], q = Outside(b)'[l],
             p.lane = q.lane
      PROVE  a = b /\ k = l
  <2>1. CASE /\ k \in 1 .. Len(Outside(a)) /\ p = Outside(a)[k]
             /\ l \in 1 .. Len(Outside(b)) /\ q = Outside(b)[l]
    BY <1>7, <2>1 DEF CacheInv, Matched
  <2>2. CASE /\ k \in 1 .. Len(Outside(a)) /\ p = Outside(a)[k]
             /\ \E i \in goesOut : Sent(i, l, b, q)
    <3>1. PICK i \in goesOut : Sent(i, l, b, q)
      BY <2>2
    <3>2. q.lane = i /\ queued[i] /\ ~ queued[p.lane]
      BY <1>4, <1>5, <2>2, <3>1
    <3> QED
      BY <1>7, <3>2
  <2>3. CASE /\ l \in 1 .. Len(Outside(b)) /\ q = Outside(b)[l]
             /\ \E i \in goesOut : Sent(i, k, a, p)
    <3>1. PICK i \in goesOut : Sent(i, k, a, p)
      BY <2>3
    <3>2. p.lane = i /\ queued[i] /\ ~ queued[q.lane]
      BY <1>4, <1>5, <2>3, <3>1
    <3> QED
      BY <1>7, <3>2
  <2>4. CASE /\ \E i \in goesOut : Sent(i, k, a, p)
             /\ \E i \in goesOut : Sent(i, l, b, q)
    <3>1. PICK i \in goesOut : Sent(i, k, a, p)
      BY <2>4
    <3>2. PICK j \in goesOut : Sent(j, l, b, q)
      BY <2>4
    <3> QED
      BY <1>5, <3>1, <3>2
  <2> QED
    BY <1>2, <1>7, <2>1, <2>2, <2>3, <2>4
<1>8. \A a, b \in Addr :
        \A k \in 1 .. Len(Outside(a)'), l \in 1 .. Len(Outside(b)') :
          Outside(a)'[k].lane = Outside(b)'[l].lane => a = b /\ k = l
  BY <1>7
<1>9. \A a \in Addr : \A k \in 1 .. Len(Outside(a)') :
        LET q == Outside(a)'[k]
        IN  /\ q.addr = a /\ busy(q.lane) /\ ~ queued'[q.lane]
            /\ req[q.lane].kind = q.kind /\ req[q.lane].addr = q.addr
            /\ (q.kind = "write" => req[q.lane].val = q.val)
  BY <1>6
<1> QED
  BY <1>1, <1>8, <1>9 DEF Matched, SentFor, busy

(* No lane sends out of turn.  While the shared slot has a request, a read *)
(* of the block that it reads waits for it; while it has none, all that is *)
(* outside is of lanes that send to their own bank, and the slot may go to *)
(* any of them.                                                            *)
LEMMA ClockKeepsTurn ==
  ASSUME CacheInv, simt_cache_clock
  PROVE  InTurn' /\ SharedIsLast'
<1>1. rr' = IF busy(rr) THEN rr ELSE nextActive
  BY DEF simt_cache_clock
<1>2. \A a \in Addr : \A k \in 1 .. Len(Outside(a)') :
        \/ /\ k \in 1 .. Len(Outside(a))
           /\ Outside(a)'[k] = Outside(a)[k]
        \/ \E i \in goesOut : Sent(i, k, a, Outside(a)'[k])
  BY ClockOutside
<1>3. ASSUME NEW i \in goesOut, NEW a, NEW k, NEW q, Sent(i, k, a, q)
      PROVE  /\ q.lane = i /\ busy(i) /\ queued[i] /\ ~ rides(i)
             /\ a = req[i].addr /\ q.kind = req[i].kind
             /\ k = Len(Outside(a)) + 1
             /\ a % Lanes = i \/ i = rr
  BY <1>3 DEF Sent, mayGoOut, CacheInv, Registered
<1>4. ASSUME NEW a \in Addr, NEW k \in 1 .. Len(Outside(a)'),
             NEW q, q = Outside(a)'[k]
      PROVE  a % Lanes = q.lane \/ (q.lane = rr /\ busy(rr))
  <2>1. CASE k \in 1 .. Len(Outside(a)) /\ q = Outside(a)[k]
    <3>1. SentFor(q, q.lane)
      BY <2>1 DEF CacheInv, Matched
    <3>2. a % Lanes = q.lane \/ q.lane = rr
      BY <2>1 DEF CacheInv, InTurn
    <3> QED
      BY <3>1, <3>2 DEF SentFor
  <2>2. CASE \E i \in goesOut : Sent(i, k, a, q)
    <3>1. PICK i \in goesOut : Sent(i, k, a, q)
      BY <2>2
    <3> QED
      BY <1>3, <3>1
  <2> QED
    BY <1>2, <1>4, <2>1, <2>2
<1>5. CASE busy(rr)
  <2>1. rr' = rr
    BY <1>1, <1>5
  <2>2. InTurn'
    BY <1>4, <2>1 DEF InTurn
  <2>3. ASSUME NEW a \in Addr,
               NEW k \in 1 .. Len(Outside(a)'), NEW l \in 1 .. Len(Outside(a)'),
               NEW p, NEW q, p = Outside(a)'[k], q = Outside(a)'[l],
               p.kind = "read", q.kind = "read", p.lane = rr
        PROVE  l <= k
    <3>1. Len(Outside(a)) \in Nat
      BY HasShape DEF CacheInv, Shape
    <3>2. CASE \E i \in goesOut : Sent(i, k, a, p)
      <4>1. k = Len(Outside(a)) + 1
        BY <1>3, <3>2
      <4>2. l \in 1 .. Len(Outside(a)) \/ l = Len(Outside(a)) + 1
        BY <1>2, <1>3
      <4> QED
        BY <3>1, <4>1, <4>2
    <3>3. CASE /\ k \in 1 .. Len(Outside(a)) /\ p = Outside(a)[k]
               /\ l \in 1 .. Len(Outside(a)) /\ q = Outside(a)[l]
      BY <2>3, <3>3 DEF CacheInv, SharedIsLast
    <3>4. CASE /\ k \in 1 .. Len(Outside(a)) /\ p = Outside(a)[k]
               /\ \E i \in goesOut : Sent(i, l, a, q)
      <4>1. PICK i \in goesOut : Sent(i, l, a, q)
        BY <3>4
      <4>2. /\ busy(i) /\ queued[i] /\ ~ rides(i)
            /\ req[i].addr = a /\ req[i].kind = "read"
        BY <1>3, <2>3, <4>1
      <4>3. p.addr = a /\ SentFor(p, rr)
        BY <2>3, <3>4 DEF CacheInv, Matched
      <4>4. /\ ~ queued[rr] /\ req[rr].kind = "read" /\ req[rr].addr = a
        BY <2>3, <4>3 DEF SentFor
      <4>5. rides(i)
        BY <1>5, <4>2, <4>4 DEF rides
      <4> QED
        BY <4>2, <4>5
    <3> QED
      BY <1>2, <2>3, <3>2, <3>3, <3>4
  <2>4. \A a \in Addr : \A k, l \in 1 .. Len(Outside(a)') :
          /\ Outside(a)'[k].kind = "read" /\ Outside(a)'[l].kind = "read"
          /\ Outside(a)'[k].lane = rr
          => l <= k
    BY <2>3
  <2> QED
    BY <2>1, <2>2, <2>4 DEF SharedIsLast
<1>6. CASE ~ busy(rr)
  <2>1. \A a \in Addr : \A k \in 1 .. Len(Outside(a)') :
          Outside(a)'[k].lane = a % Lanes
    BY <1>4, <1>6
  <2>2. InTurn'
    BY <2>1 DEF InTurn
  <2>3. \A a \in Addr : \A k, l \in 1 .. Len(Outside(a)') : k = l
    BY <2>1, ClockMatches DEF Matched
  <2>4. \A a \in Addr : \A k, l \in 1 .. Len(Outside(a)') : l <= k
    <3>1. \A a \in Addr : \A k \in 1 .. Len(Outside(a)') : k <= k
      OBVIOUS
    <3> QED
      BY <2>3, <3>1
  <2>5. SharedIsLast'
    BY <2>4 DEF SharedIsLast
  <2> QED
    BY <2>2, <2>5
<1> QED
  BY <1>5, <1>6

(* A lane stops queueing when it has sent, or when it waits for the slot,  *)
(* which then stays.                                                       *)
LEMMA ClockForgetsNobody ==
  ASSUME CacheInv, simt_cache_clock
  PROVE  NobodyForgotten'
<1>1. /\ queued' = [i \in Lane |-> queued[i] /\ ~ rides(i) /\ i \notin goesOut]
      /\ req' = req
      /\ rr' = IF busy(rr) THEN rr ELSE nextActive
  BY DEF simt_cache_clock
<1>2. Remembered /\ (Remembered' => NobodyForgotten')
  BY ClockOutside, HasShape DEF CacheInv, Shape
<1>3. ASSUME NEW j \in Lane, busy(j)'
      PROVE  queued'[j] \/ Out(j)' \/ Waits(j)'
  <2>1. busy(j)
    BY <1>1, <1>3 DEF busy
  <2>2. Waits(j) => Waits(j)'
    BY <1>1 DEF Waits, busy
  <2>3. Out(j) => Out(j)'
    <3>1. ASSUME NEW a \in Addr, NEW k \in 1 .. Len(Outside(a)),
                 Outside(a)[k].lane = j
          PROVE  Out(j)'
      <4>1. k \in 1 .. Len(Outside(a)') /\ Outside(a)'[k] = Outside(a)[k]
        BY ClockOutside
      <4> QED
        BY <3>1, <4>1 DEF Out
    <3> QED
      BY <3>1 DEF Out
  <2>4. CASE queued[j]
    <3>1. rides(j) => Waits(j)
      BY DEF rides, Waits
    <3>2. j \in goesOut => Out(j)'
      BY ClockOutside
    <3> QED
      BY <1>1, <2>2, <2>4, <3>1, <3>2
  <2> QED
    BY <1>2, <2>1, <2>2, <2>3, <2>4 DEF Remembered
<1>4. Remembered'
  BY <1>3 DEF Remembered
<1> QED
  BY <1>2, <1>4

(* A clock of the cache.                                                   *)
LEMMA ClockKeeps ==
  ASSUME CacheInv, simt_cache_clock
  PROVE  CacheInv'
<1>1. /\ queued' = [i \in Lane |-> queued[i] /\ ~ rides(i) /\ i \notin goesOut]
      /\ rr' = IF busy(rr) THEN rr ELSE nextActive
      /\ UNCHANGED <<req, back, mem, seen, answer>>
  BY DEF simt_cache_clock
<1>2. Registered'
  <2>1. rr' \in Lane
    BY <1>1, NextIsLane DEF CacheInv, Registered
  <2>2. queued' \in [Lane -> BOOLEAN]
    BY <1>1 DEF CacheInv, Registered
  <2>3. \A i \in Lane : queued'[i] => busy(i)'
    BY <1>1 DEF CacheInv, Registered, busy
  <2> QED
    BY <1>1, <2>1, <2>2, <2>3 DEF CacheInv, Registered
<1>3. Explained'
  BY <1>1 DEF CacheInv, Explained, Explains, Before
<1>4. Travelling'
  BY ClockOutside
<1> QED
  BY <1>2, <1>3, <1>4, ClockMatches, ClockKeepsTurn, ClockForgetsNobody
     DEF CacheInv
----------------------------------------------------------------------------
(* Nothing is under way when the program starts.                           *)
LEMMA InitHolds ==
  ASSUME Init
  PROVE  CacheInv
<1>1. InitValue \in Value
  BY DEF Value
<1>2. 0 \in Lane
  BY CacheAssumption DEF Lane
<1>3. Registered
  BY <1>1, <1>2 DEF Init, Registered
<1>4. Travelling
  BY <1>1 DEF Init, Travelling
<1>5. Shape
  BY <1>4, HasShape
<1>6. ASSUME NEW a \in Addr
      PROVE  Outside(a) = << >>
  <2>1. back[a] = << >> /\ path[a] = << >> /\ AtNode(a) = << >>
    BY DEF Init, AtNode
  <2>2. << >> \in Seq(Packet)
    OBVIOUS
  <2>3. << >> \o << >> = << >>
    BY <2>2, ConcatEmptySeq
  <2> QED
    BY <1>5, <2>1, <2>3 DEF Shape
<1>7. Matched /\ InTurn /\ SharedIsLast
  BY <1>6 DEF Matched, InTurn, SharedIsLast
<1>8. Remembered
  BY DEF Init, Remembered, busy
<1>9. Explained
  BY DEF Init, Explained, Explains, Before
<1> QED
  BY <1>3, <1>4, <1>5, <1>7, <1>8, <1>9 DEF CacheInv, Shape

(* Every step of cache, node and memory keeps what is invariant.           *)
LEMMA StepKeeps ==
  ASSUME CacheInv, [Next]_vars
  PROVE  CacheInv'
<1>1. ASSUME NEW o \in Ops, simt_cache_receive(o[1], o[2], o[3])
      PROVE  CacheInv'
  BY <1>1, ReceiveKeeps
<1>2. CASE simt_cache_clock
  BY <1>2, ClockKeeps
<1>3. CASE node_clock
  BY <1>3, NodeKeeps
<1>4. ASSUME NEW a \in Addr, simple_mem_receive(a)
      PROVE  CacheInv'
  BY <1>4, MemoryKeeps
<1>5. ASSUME NEW a \in Addr, simt_cache_handle_response(a)
      PROVE  CacheInv'
  BY <1>5, ResponseKeeps
<1>6. CASE UNCHANGED vars
  <2>1. UNCHANGED <<req, queued, rr, port, path, back, mem, seen, answer>>
    BY <1>6 DEF vars
  <2>2. Travelling' /\ Registered' /\ Explained'
    BY <2>1 DEF CacheInv, Travelling, Registered, busy, Explained, Explains,
                Before
  <2>3. \A a \in Addr : Outside(a)' = Outside(a)
    BY <2>1 DEF Outside
  <2>4. Matched' /\ InTurn' /\ SharedIsLast' /\ NobodyForgotten'
    BY <2>1, <2>2, <2>3, MovingKeeps DEF Kept
  <2> QED
    BY <2>2, <2>4 DEF CacheInv
<1> QED
  BY <1>1, <1>2, <1>3, <1>4, <1>5, <1>6 DEF Next

(* What is invariant says that answers match requests.                     *)
LEMMA MatchedIsMatch ==
  ASSUME Travelling, Matched
  PROVE  AnswersMatchRequests
<1>1. Shape
  BY HasShape
<1>2. ASSUME NEW x \in PacketsOut
      PROVE  \E a \in Addr : \E k \in 1 .. Len(Outside(a)) : x = <<a, k>>
  <2>1. PICK a \in Addr : x \in {<<a, k>> : k \in DOMAIN Outside(a)}
    BY DEF PacketsOut
  <2>2. PICK k \in DOMAIN Outside(a) : x = <<a, k>>
    BY <2>1
  <2> QED
    BY <1>1, <2>2 DEF Shape
<1>3. ASSUME NEW x \in PacketsOut
      PROVE  LET p == Outside(x[1])[x[2]]
             IN  /\ busy(p.lane) /\ ~ queued[p.lane]
                 /\ req[p.lane].kind = p.kind /\ req[p.lane].addr = p.addr
  <2>1. PICK a \in Addr : \E k \in 1 .. Len(Outside(a)) : x = <<a, k>>
    BY <1>2
  <2>2. PICK k \in 1 .. Len(Outside(a)) : x[1] = a /\ x[2] = k
    BY <2>1
  <2> QED
    BY <2>2 DEF Matched, SentFor
<1>4. ASSUME NEW x \in PacketsOut, NEW y \in PacketsOut,
             Outside(x[1])[x[2]].lane = Outside(y[1])[y[2]].lane
      PROVE  x = y
  <2>1. PICK a \in Addr : \E k \in 1 .. Len(Outside(a)) : x = <<a, k>>
    BY <1>2
  <2>2. PICK k \in 1 .. Len(Outside(a)) : x = <<a, k>>
    BY <2>1
  <2>3. PICK b \in Addr : \E l \in 1 .. Len(Outside(b)) : y = <<b, l>>
    BY <1>2
  <2>4. PICK l \in 1 .. Len(Outside(b)) : y = <<b, l>>
    BY <2>3
  <2>5. Outside(a)[k].lane = Outside(b)[l].lane
    BY <1>4, <2>2, <2>4
  <2> QED
    BY <2>2, <2>4, <2>5 DEF Matched
<1> QED
  BY <1>3, <1>4 DEF AnswersMatchRequests

(* Registers, packets, the turn of the lanes and what memory holds agree   *)
(* in every reachable state.                                               *)
THEOREM CacheCorrect == Spec => []CacheInv
<1>1. Init => CacheInv
  BY InitHolds
<1>2. CacheInv /\ [Next]_vars => CacheInv'
  BY StepKeeps
<1> QED
  BY <1>1, <1>2, PTL DEF Spec

(* Every packet outside the cache is the request its lane waits with, and  *)
(* the only one of that lane: what the asserts of                          *)
(* simt_cache_handle_response rely on.                                     *)
THEOREM CacheAnswersMatch == Spec => []AnswersMatchRequests
<1>1. CacheInv => AnswersMatchRequests
  BY MatchedIsMatch DEF CacheInv
<1> QED
  BY <1>1, CacheCorrect, PTL

(* A lane that waits is queued, has its packet outside, or waits to read   *)
(* the block that the shared slot is reading.                              *)
THEOREM CacheForgetsNobody == Spec => []NobodyForgotten
<1>1. CacheInv => NobodyForgotten
  BY DEF CacheInv
<1> QED
  BY <1>1, CacheCorrect, PTL
----------------------------------------------------------------------------
(* An answer takes effect for the lanes that wait for it: for the one that *)
(* wrote, for the one that read from its own bank, or for all that read    *)
(* what the shared slot read.                                              *)
LEMMA ResponseIsAnswer ==
  ASSUME CacheInv, NEW a \in Addr, simt_cache_handle_response(a)
  PROVE  \/ \E i \in Lane : Promised!AnswerWrite(i)
         \/ \E S \in SUBSET Lane : Promised!AnswerReads(S)
<1>1. PICK p : p = Head(back[a])
  OBVIOUS
<1>2. /\ back[a] # << >>
      /\ Freed(p) \subseteq Lane /\ p.lane \in Freed(p)
      /\ req' = [i \in Lane |-> IF i \in Freed(p) THEN NoReq ELSE req[i]]
      /\ answer' = [i \in Lane |-> IF i \in Freed(p) THEN p.val ELSE answer[i]]
      /\ seen' = [seen EXCEPT ![a] = p.val]
  BY <1>1, ResponseFrees
<1>3. /\ p \in Packet /\ p.lane \in Lane /\ p.addr = a /\ SentFor(p, p.lane)
      /\ 1 \in 1 .. Len(back[a]) /\ back[a][1] = p
  BY <1>1, <1>2, OldestResponse
<1>4. /\ req \in [Lane -> Op \cup {NoReq}] /\ answer \in [Lane -> Value]
      /\ seen \in [Addr -> Value]
  BY DEF CacheInv, Registered, Travelling
<1>5. CASE p.kind = "write"
  <2>1. PICK i \in Lane : i = p.lane
    BY <1>3
  <2>2. Freed(p) = {i}
    BY <1>5, <2>1 DEF Freed
  <2>3. /\ req[i] # NoReq /\ req[i].kind = "write"
        /\ req[i].addr = a /\ req[i].val = p.val
    BY <1>3, <1>5, <2>1 DEF SentFor, busy
  <2>4. /\ req' = [req EXCEPT ![i] = NoReq]
        /\ answer' = [answer EXCEPT ![i] = p.val]
    BY <1>2, <1>4, <2>1, <2>2
  <2>5. Promised!AnswerWrite(i)
    BY <1>2, <2>3, <2>4 DEF Promised!AnswerWrite
  <2> QED
    BY <2>5
<1>6. CASE p.kind # "write"
  <2>1. p.kind = "read"
    BY <1>3, <1>6 DEF Packet
  <2>2. PICK S \in SUBSET Lane : S = Freed(p)
    BY <1>2
  <2>3. p.val = seen[a]
    BY <1>3, <2>1 DEF CacheInv, Explained, Explains, Before
  <2>4. seen' = seen
    BY <1>2, <1>4, <2>3
  <2>5. \A i \in S : req[i] # NoReq /\ req[i].kind = "read" /\ req[i].addr = a
    BY <1>3, <2>1, <2>2 DEF Freed, SentFor, busy
  <2>6. answer' = [i \in Lane |-> IF i \in S THEN seen[req[i].addr] ELSE answer[i]]
    BY <1>2, <2>2, <2>3, <2>5
  <2>7. req' = [i \in Lane |-> IF i \in S THEN NoReq ELSE req[i]] /\ S # {}
    BY <1>2, <2>2
  <2>8. Promised!AnswerReads(S)
    BY <2>4, <2>5, <2>6, <2>7 DEF Promised!AnswerReads
  <2> QED
    BY <2>8
<1> QED
  BY <1>5, <1>6

(* To its lanes the cache is one memory, in which every request takes      *)
(* effect once, when it is answered, although answers are shared, requests *)
(* wait, and blocks are served out of order.                               *)
THEOREM CacheIsOneMemory == Spec => ImplementsLaneMemory
<1>1. Init => Promised!Init
  BY DEF Init, Promised!Init
<1>2. CacheInv /\ [Next]_vars => [Promised!Next]_<<req, answer, seen>>
  <2> SUFFICES ASSUME CacheInv, [Next]_vars
               PROVE  [Promised!Next]_<<req, answer, seen>>
    OBVIOUS
  <2>1. ASSUME NEW o \in Ops, simt_cache_receive(o[1], o[2], o[3])
        PROVE  Promised!Request
    <3>1. PICK r \in Op : req' = [req EXCEPT ![o[1]] = r]
      BY <2>1, Requested
    <3>2. PICK i : i = o[1]
      OBVIOUS
    <3>3. /\ i \in Lane /\ req[i] = NoReq /\ r # NoReq
          /\ req' = [req EXCEPT ![i] = r]
          /\ answer' = [answer EXCEPT ![i] = InitValue] /\ seen' = seen
      BY <2>1, <3>1, <3>2, Requested, NoReqAssumption
    <3>4. req \in [Lane -> Op \cup {NoReq}] /\ answer \in [Lane -> Value]
      BY DEF CacheInv, Registered
    <3>5. \A j \in Lane : req'[j] # req[j] <=> j = i
      BY <3>3, <3>4
    <3>6. \A j \in Lane : req'[j] # req[j] => req[j] = NoReq /\ req'[j] \in Op
      BY <3>3, <3>4, <3>5
    <3>7. answer' = [j \in Lane |-> IF req'[j] = req[j] THEN answer[j]
                                    ELSE InitValue]
      BY <3>3, <3>4, <3>5
    <3> QED
      BY <3>3, <3>6, <3>7 DEF Promised!Request, Promised!Op, Op
  <2>2. CASE simt_cache_clock
    BY <2>2 DEF simt_cache_clock
  <2>3. CASE node_clock
    BY <2>3 DEF node_clock
  <2>4. ASSUME NEW a \in Addr, simple_mem_receive(a)
        PROVE  UNCHANGED <<req, answer, seen>>
    BY <2>4 DEF simple_mem_receive
  <2>5. ASSUME NEW a \in Addr, simt_cache_handle_response(a)
        PROVE  Promised!Next
    BY <2>5, ResponseIsAnswer DEF Promised!Next
  <2>6. CASE UNCHANGED vars
    BY <2>6 DEF vars
  <2> QED
    BY <2>1, <2>2, <2>3, <2>4, <2>5, <2>6 DEF Next, Promised!Next
<1> QED
  BY <1>1, <1>2, CacheCorrect, PTL DEF Spec, ImplementsLaneMemory, Promised!Spec
============================================================================

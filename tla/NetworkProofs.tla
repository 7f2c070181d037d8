--------------------------- MODULE NetworkProofs ---------------------------
(***************************************************************************)
(* A butterfly of any height is a network, and what gets to its root is    *)
(* sorted.  The ideal NoC is a network between elements that take every    *)
(* packet: whatever its latency, its elements, the flows between them and  *)
(* their packets.                                                          *)
(***************************************************************************)
EXTENDS FatBfly, WellFoundedInduction, TLAPS

(* The ideal NoC, with elements and flows of its own. *)
CONSTANTS Attached, latency, Prompt, NocFlows, NocMaxSend
VARIABLES out, counter

Noc == INSTANCE IdealNoc WITH
  Elem <- Attached, Flows <- NocFlows, MaxSend <- NocMaxSend

(* A set of numbers has a least one. *)
LEMMA LeastOf ==
  ASSUME NEW S \in SUBSET Nat, S # {}
  PROVE  \E m \in S : \A n \in S : m <= n
<1>1. PICK m \in S : \A n \in S : ~ (<<n, m>> \in OpToRel(<, Nat))
  BY NatLessThanWellFounded, WFMin, Zenon
<1>2. \A n \in S : ~ (n < m)
  BY <1>1 DEF OpToRel
<1> QED
  BY <1>2

(* The powers of two, as the recursion gives them. *)
LEMMA Powers ==
  /\ pow2[0] = 1
  /\ \A n \in 1 .. Layers : pow2[n] = 2 * pow2[n - 1]
<1> DEFINE P(g, n) == g = [i \in 0 .. n |-> IF i = 0 THEN 1 ELSE 2 * g[i - 1]]
<1>1. ASSUME NEW n \in Nat
      PROVE  \E g : P(g, n)
  <2>1. PICK Bad : Bad = {i \in Nat : ~ \E g : P(g, i)}
    OBVIOUS
  <2> HIDE DEF P
  <2>2. SUFFICES ASSUME Bad # {}
                 PROVE  FALSE
    BY <2>1
  <2>3. PICK m \in Bad : \A i \in Bad : m <= i
    BY <2>1, <2>2, LeastOf
  <2>4. m # 0
    <3>1. \E g : P(g, 0)
      <4>1. P([i \in 0 .. 0 |-> 1], 0)
        BY DEF P
      <4> QED
        BY <4>1
    <3> QED
      BY <2>1, <3>1
  <2>5. m \in Nat
    BY <2>1
  <2>6. m - 1 \in Nat /\ ~ (m <= m - 1)
    BY <2>4, <2>5
  <2>7. m - 1 \notin Bad
    BY <2>3, <2>6
  <2>8. PICK g : P(g, m - 1)
    BY <2>1, <2>6, <2>7
  <2>9. PICK f : f = [i \in 0 .. m |-> IF i = m THEN 2 * g[m - 1] ELSE g[i]]
    OBVIOUS
  <2>10. P(f, m)
    BY <2>4, <2>5, <2>6, <2>8, <2>9 DEF P
  <2> QED
    BY <2>1, <2>10
<1>2. Layers \in Nat
  BY BflyAssumption
<1>3. \E g : P(g, Layers)
  BY <1>1, <1>2
<1>4. P(pow2, Layers)
  BY <1>3 DEF pow2
<1> QED
  BY <1>2, <1>4

(* They are positive.                                                      *)
LEMMA PowersPositive ==
  \A n \in 0 .. Layers : pow2[n] \in Nat /\ pow2[n] >= 1
<1>1. PICK Bad : Bad = {n \in 0 .. Layers : ~ (pow2[n] \in Nat /\ pow2[n] >= 1)}
  OBVIOUS
<1>2. SUFFICES ASSUME Bad # {}
               PROVE  FALSE
  BY <1>1
<1>3. Bad \in SUBSET Nat
  BY <1>1
<1>4. PICK m \in Bad : \A n \in Bad : m <= n
  BY <1>2, <1>3, LeastOf
<1>5. m \in 0 .. Layers /\ m # 0
  BY <1>1, Powers
<1>6. m - 1 \in 0 .. Layers /\ m \in 1 .. Layers /\ ~ (m <= m - 1)
  BY <1>5, BflyAssumption
<1>7. m - 1 \notin Bad
  BY <1>4, <1>6
<1>8. pow2[m - 1] \in Nat /\ pow2[m - 1] >= 1
  BY <1>1, <1>6, <1>7
<1>9. pow2[m] = 2 * pow2[m - 1]
  BY <1>6, Powers
<1> QED
  BY <1>1, <1>8, <1>9

(* And they grow. *)
LEMMA PowersGrow ==
  \A n \in 0 .. Layers : pow2[n] <= pow2[Layers]
<1>1. PICK Bad : Bad = {d \in 0 .. Layers : ~ (pow2[Layers - d] <= pow2[Layers])}
  OBVIOUS
<1>2. Bad = {}
  <2>1. SUFFICES ASSUME Bad # {}
                 PROVE  FALSE
    OBVIOUS
  <2>2. Bad \in SUBSET Nat
    BY <1>1
  <2>3. PICK d \in Bad : \A n \in Bad : d <= n
    BY <2>1, <2>2, LeastOf
  <2>4. d \in 0 .. Layers /\ ~ (pow2[Layers - d] <= pow2[Layers])
    BY <1>1
  <2>5. Layers \in Nat /\ Layers - 0 = Layers /\ Layers \in 0 .. Layers
    BY BflyAssumption
  <2>6. d # 0
    BY <2>4, <2>5, PowersPositive
  <2>7. d - 1 \in 0 .. Layers /\ ~ (d <= d - 1)
    BY <2>4, <2>5, <2>6
  <2>8. pow2[Layers - (d - 1)] <= pow2[Layers]
    BY <1>1, <2>3, <2>7
  <2>9. Layers - d \in 0 .. Layers /\ Layers - (d - 1) \in 1 .. Layers
        /\ (Layers - (d - 1)) - 1 = Layers - d
    BY <2>4, <2>5, <2>7
  <2>10. pow2[Layers - (d - 1)] = 2 * pow2[Layers - d] /\ pow2[Layers - d] \in Nat
         /\ pow2[Layers] \in Nat
    BY <2>5, <2>9, Powers, PowersPositive
  <2> QED
    BY <2>4, <2>8, <2>10
<1>3. ASSUME NEW n \in 0 .. Layers
      PROVE  pow2[n] <= pow2[Layers]
  <2>1. Layers - n \in 0 .. Layers /\ Layers - (Layers - n) = n
    BY BflyAssumption
  <2>2. pow2[Layers - (Layers - n)] <= pow2[Layers]
    BY <1>1, <1>2, <2>1
  <2> QED
    BY <2>1, <2>2
<1> QED
  BY <1>3

----------------------------------------------------------------------------
(* Division by any number. *)
LEMMA Division ==
  ASSUME NEW x \in Nat, NEW m \in Nat, m > 0
  PROVE  /\ x \div m \in Nat /\ x % m \in Nat /\ x % m < m
         /\ x = m * (x \div m) + (x % m)
<1>1. PICK S : S = {r \in Nat : \E j \in Nat : x = m * j + r}
  OBVIOUS
<1>2. S \in SUBSET Nat /\ S # {}
  <2>1. x = m * 0 + x
    OBVIOUS
  <2> QED
    BY <1>1, <2>1
<1>3. PICK r \in S : \A n \in S : r <= n
  BY <1>2, LeastOf
<1>4. PICK j \in Nat : x = m * j + r
  BY <1>1
<1>5. r \in Nat
  BY <1>2
<1>6. r < m
  <2> SUFFICES ASSUME r >= m
               PROVE  FALSE
    BY <1>5
  <2>1. r - m \in Nat /\ ~ (r <= r - m)
    BY <1>5
  <2>2. x = m * (j + 1) + (r - m)
    BY <1>4, <1>5
  <2>3. r - m \in S
    BY <1>1, <2>1, <2>2
  <2> QED
    BY <1>3, <2>1, <2>3
<1>7. x % m = r
  BY <1>4, <1>5, <1>6
<1>8. x \div m = j
  BY <1>4, <1>5, <1>6
<1> QED
  BY <1>4, <1>5, <1>6, <1>7, <1>8

(* Quotient and remainder are determined. *)
LEMMA Divided ==
  ASSUME NEW x \in Nat, NEW m \in Nat, m > 0, NEW q \in Nat, NEW r \in Nat,
         r < m, x = m * q + r
  PROVE  x \div m = q /\ x % m = r
<1>1. x \div m = q
  OBVIOUS
<1>2. x % m = r
  OBVIOUS
<1> QED
  BY <1>1, <1>2

(* One more bit of a number. *)
LEMMA OneMoreBit ==
  ASSUME NEW x \in Nat, NEW m \in Nat, m > 0
  PROVE  /\ x % (2 * m) = m * ((x \div m) % 2) + (x % m)
         /\ x \div (2 * m) = (x \div m) \div 2
<1> DEFINE q == x \div m
           r == x % m
           b == q % 2
           h == q \div 2
<1>1. q \in Nat /\ r \in Nat /\ r < m /\ x = m * q + r
  BY Division
<1> HIDE DEF q, r
<1>2. b \in 0 .. 1 /\ h \in Nat /\ q = 2 * h + b
  BY <1>1
<1> HIDE DEF b, h
<1>3. m * q = (2 * m) * h + m * b
  BY <1>1, <1>2
<1>4. x = (2 * m) * h + (m * b + r) /\ m * b + r \in Nat /\ m * b + r < 2 * m
  <2>1. m * b = 0 \/ m * b = m
    BY <1>2
  <2>2. m * b \in Nat /\ m * b <= m
    BY <2>1
  <2>3. PICK d \in Nat : d = m * b
    BY <2>2
  <2>4. PICK e \in Int : e = (2 * m) * h
    BY <1>2
  <2>5. x = (e + d) + r /\ d <= m
    BY <1>1, <1>3, <2>2, <2>3, <2>4
  <2>6. x = e + (d + r) /\ d + r \in Nat /\ d + r < 2 * m
    BY <1>1, <2>5
  <2> QED
    BY <2>3, <2>4, <2>6
<1>5. x \div (2 * m) = h /\ x % (2 * m) = m * b + r
  BY <1>2, <1>4, Divided
<1> QED
  BY <1>5 DEF q, r, b, h

(* The same for the powers of two of the tree. *)
LEMMA Bits ==
  ASSUME NEW h \in 0 .. Layers - 1, NEW x \in Nat
  PROVE  /\ pow2[h + 1] = 2 * pow2[h] /\ pow2[h] \in Nat /\ pow2[h] >= 1
         /\ x \div pow2[h] \in Nat /\ x % pow2[h] \in Nat
         /\ x % pow2[h] < pow2[h] /\ x % pow2[h] <= x
         /\ x = pow2[h] * (x \div pow2[h]) + (x % pow2[h])
         /\ x % pow2[h + 1]
              = pow2[h] * ((x \div pow2[h]) % 2) + (x % pow2[h])
         /\ x \div pow2[h + 1] = (x \div pow2[h]) \div 2
         /\ x \div pow2[h + 1] \in Nat /\ x % pow2[h + 1] \in Nat
         /\ x % pow2[h + 1] < pow2[h + 1] /\ x % pow2[h + 1] <= x
<1>1. h \in 0 .. Layers /\ h + 1 \in 1 .. Layers /\ (h + 1) - 1 = h
  BY BflyAssumption
<1>2. PICK m, n : m = pow2[h] /\ n = pow2[h + 1]
  OBVIOUS
<1>3. m \in Nat /\ m > 0 /\ n = 2 * m
  BY <1>1, <1>2, Powers, PowersPositive
<1>4. n \in Nat /\ n > 0
  BY <1>3
<1>5. /\ x \div m \in Nat /\ x % m \in Nat /\ x % m < m
      /\ x = m * (x \div m) + (x % m)
  BY <1>3, Division
<1>6. /\ x \div n \in Nat /\ x % n \in Nat /\ x % n < n
      /\ x = n * (x \div n) + (x % n)
  BY <1>4, Division
<1>7. /\ x % n = m * ((x \div m) % 2) + (x % m)
      /\ x \div n = (x \div m) \div 2
  BY <1>3, OneMoreBit
<1>8. ASSUME NEW a \in Nat, NEW b \in Nat, NEW c \in Nat, x = a * b + c
      PROVE  c <= x
  <2>1. a * b \in Nat
    OBVIOUS
  <2> QED
    BY <1>8, <2>1
<1>9. x % m <= x /\ x % n <= x
  BY <1>3, <1>4, <1>5, <1>6, <1>8
<1> QED
  BY <1>2, <1>3, <1>5, <1>6, <1>7, <1>9

(* What a number has below the height of an output: the register that the  *)
(* output looks at, and the half of the outputs it belongs to.             *)
LEMMA OutputBits ==
  ASSUME NEW h \in 0 .. Layers - 1, NEW i \in 0 .. pow2[h + 1] - 1
  PROVE  /\ i \in Nat /\ i \div pow2[h] \in 0 .. 1
         /\ i % pow2[h] \in 0 .. pow2[h] - 1
         /\ i = pow2[h] * (i \div pow2[h]) + (i % pow2[h])
<1>1. PICK m : m = pow2[h]
  OBVIOUS
<1>2. m \in Nat /\ m >= 1 /\ pow2[h + 1] = 2 * m
  BY <1>1, Bits
<1>3. i \in Nat /\ i < 2 * m
  BY <1>2
<1>4. PICK q, r : q = i \div m /\ r = i % m
  OBVIOUS
<1>5. q \in Nat /\ r \in Nat /\ r < m /\ i = m * q + r
  BY <1>2, <1>3, <1>4, Division
<1>6. q < 2
  <2> SUFFICES ASSUME q >= 2
               PROVE  FALSE
    BY <1>5
  <2>1. PICK d \in Nat : q = d + 2
    BY <1>5
  <2>2. m * d \in Nat
    BY <1>2
  <2>3. m * q = m * d + 2 * m
    BY <1>2, <2>1
  <2> QED
    BY <1>2, <1>3, <1>5, <2>2, <2>3
<1>7. q \in 0 .. 1 /\ r \in 0 .. m - 1
  BY <1>2, <1>5, <1>6
<1> QED
  BY <1>1, <1>3, <1>4, <1>5, <1>7, Zenon

(* An element of the network has so many bits. *)
LEMMA ElementBits ==
  ASSUME NEW x \in Elem
  PROVE  /\ x \in Nat /\ x % pow2[Layers] = x
         /\ \A g \in 0 .. Layers :
              x \div pow2[g] \in Nat /\ x \div pow2[g] < pow2[Layers - g]
<1>1. Layers \in Nat /\ Layers >= 1 /\ Layers \in 0 .. Layers
  BY BflyAssumption
<1>2. PICK m : m = pow2[Layers]
  OBVIOUS
<1>3. m \in Nat /\ m >= 1 /\ x \in Nat /\ x < m
  BY <1>1, <1>2, PowersPositive DEF Elem
<1>4. x % m = x
  <2>1. x = m * 0 + x
    BY <1>3
  <2> QED
    BY <1>3, <2>1, Divided
<1>5. PICK Bad : Bad = {g \in 0 .. Layers :
        ~ (x \div pow2[g] \in Nat /\ x \div pow2[g] < pow2[Layers - g])}
  OBVIOUS
<1>6. Bad = {}
  <2>1. SUFFICES ASSUME Bad # {}
                 PROVE  FALSE
    OBVIOUS
  <2>2. Bad \in SUBSET Nat
    BY <1>5
  <2>3. PICK g \in Bad : \A n \in Bad : g <= n
    BY <2>1, <2>2, LeastOf
  <2>4. g \in 0 .. Layers
    BY <1>5
  <2>5. g # 0
    <3>1. x = 1 * x + 0
      BY <1>3
    <3>2. x \div 1 = x
      BY <1>3
    <3>3. pow2[0] = 1 /\ Layers - 0 = Layers
      BY <1>1, Powers
    <3> QED
      BY <1>2, <1>3, <1>5, <3>2, <3>3
  <2>6. PICK f : f = g - 1
    OBVIOUS
  <2>7. f \in 0 .. Layers - 1 /\ f \in 0 .. Layers /\ f + 1 = g /\ ~ (g <= f)
    BY <1>1, <2>4, <2>5, <2>6
  <2>8. f \notin Bad
    BY <2>3, <2>7
  <2>9. PICK q : q = x \div pow2[f]
    OBVIOUS
  <2>10. q \in Nat /\ q < pow2[Layers - f]
    BY <1>5, <2>7, <2>8, <2>9
  <2>11. x \div pow2[g] = q \div 2
    BY <1>3, <2>7, <2>9, Bits
  <2>12. pow2[Layers - f] = 2 * pow2[Layers - g] /\ pow2[Layers - g] \in Nat
    <3>1. Layers - g \in 0 .. Layers /\ Layers - f \in 1 .. Layers
          /\ (Layers - f) - 1 = Layers - g
      BY <1>1, <2>4, <2>7
    <3> QED
      BY <3>1, Powers, PowersPositive
  <2>13. q \div 2 \in Nat /\ q \div 2 < pow2[Layers - g]
    BY <2>10, <2>12
  <2> QED
    BY <1>5, <2>11, <2>13
<1>7. ASSUME NEW g \in 0 .. Layers
      PROVE  x \div pow2[g] \in Nat /\ x \div pow2[g] < pow2[Layers - g]
  <2>1. g \notin Bad
    BY <1>6
  <2> QED
    BY <1>5, <2>1
<1>8. x \in Nat /\ x % pow2[Layers] = x
  BY <1>2, <1>3, <1>4
<1> QED
  BY <1>7, <1>8

----------------------------------------------------------------------------
(* The way of a packet: the node of each height that it passes, and the    *)
(* registers of that node.                                                 *)
nodeOf(p, h) == <<Layers - h - 1, p.src \div pow2[h + 1]>>
outOf(p, h) == <<nodeOf(p, h), p.to % pow2[h + 1]>>
bankOf(p, h) ==
  <<nodeOf(p, h), IF h = 0 THEN p.src % 2 ELSE bit(p, h - 1), p.to % pow2[h]>>

(* A node and its height. *)
LEMMA NodeHeight ==
  ASSUME NEW n \in Nodes
  PROVE  /\ n = <<n[1], n[2]>> /\ n[1] \in 0 .. Layers - 1 /\ n[2] \in Elem
         /\ height(n[1]) \in 0 .. Layers - 1 /\ n[1] = Layers - height(n[1]) - 1
BY BflyAssumption DEF Nodes, height

(* The nodes that are clocked are nodes of the tree. *)
LEMMA NthIsNode ==
  ASSUME NEW k \in 1 .. pow2[Layers] - 1
  PROVE  nth(k) \in Nodes
<1>1. Layers \in Nat /\ Layers >= 1 /\ Layers \in 0 .. Layers
  BY BflyAssumption
<1>2. pow2[Layers] \in Nat
  BY <1>1, PowersPositive
<1>3. PICK S : S = {l \in 0 .. Layers : k < pow2[l]}
  OBVIOUS
<1>4. S \in SUBSET Nat /\ S # {}
  BY <1>1, <1>2, <1>3
<1>5. PICK m \in S : \A l \in S : m <= l
  BY <1>4, LeastOf
<1>6. m \in 0 .. Layers /\ k < pow2[m] /\ m # 0
  BY <1>2, <1>3, Powers
<1>7. m - 1 \in 0 .. Layers - 1 /\ m - 1 \in 0 .. Layers /\ ~ (m <= m - 1)
      /\ (m - 1) + 1 = m
  BY <1>1, <1>6
<1>8. ~ (k < pow2[m - 1]) /\ pow2[m - 1] \in Nat
  BY <1>3, <1>5, <1>7, PowersPositive
<1>9. \E l \in 0 .. Layers - 1 : pow2[l] <= k /\ k < pow2[l + 1]
  BY <1>2, <1>6, <1>7, <1>8
<1>10. PICK l : l = layer(k)
  OBVIOUS
<1>11. l \in 0 .. Layers - 1 /\ pow2[l] <= k /\ k < pow2[l + 1]
  BY <1>9, <1>10 DEF layer
<1>12. pow2[l + 1] = 2 * pow2[l] /\ pow2[l] \in Nat /\ pow2[l] >= 1
  BY <1>11, Bits
<1>13. k - pow2[l] \in Elem /\ k - pow2[l] < pow2[l]
  BY <1>2, <1>11, <1>12 DEF Elem
<1> QED
  BY <1>10, <1>11, <1>13 DEF nth, Nodes

(* What a packet's addresses are.                                          *)
LEMMA Addresses ==
  ASSUME NEW p \in Packet
  PROVE  /\ p.src \in Endpoint /\ p.to \in Endpoint /\ p.id \in Nat
         /\ p.src \in Elem /\ p.to \in Elem /\ p.src \in Nat /\ p.to \in Nat
         /\ busy(p)
<1>1. p.src \in Endpoint /\ p.to \in Endpoint /\ p.id \in Nat
  BY DEF Packet
<1>2. Endpoint \subseteq Elem
  BY BflyAssumption DEF Endpoint
<1>3. \A e \in Elem : e \in Nat
  BY DEF Elem
<1>4. busy(p)
  BY BflyAssumption DEF busy
<1> QED
  BY <1>1, <1>2, <1>3, <1>4

(* The registers on the way of a packet exist.                             *)
LEMMA WayExists ==
  ASSUME NEW p \in Packet, NEW h \in 0 .. Layers - 1
  PROVE  /\ nodeOf(p, h) \in Nodes /\ nodeOf(p, h)[1] = Layers - h - 1
         /\ height(Layers - h - 1) = h
         /\ outOf(p, h) \in OutReg /\ outOf(p, h)[1] = nodeOf(p, h)
         /\ bankOf(p, h) \in BankReg /\ bankOf(p, h)[1] = nodeOf(p, h)
<1>1. Layers \in Nat /\ h + 1 \in 0 .. Layers /\ Layers - h - 1 \in 0 .. Layers
      /\ Layers - h - 1 \in 0 .. Layers - 1 /\ Layers - (h + 1) = Layers - h - 1
      /\ height(Layers - h - 1) = h /\ h \in 0 .. Layers
  BY BflyAssumption DEF height
<1>2. p.src \in Elem /\ p.to \in Elem /\ p.src \in Nat /\ p.to \in Nat
  BY Addresses
<1>3. /\ p.src \div pow2[h + 1] \in Nat
      /\ p.src \div pow2[h + 1] < pow2[Layers - h - 1]
  BY <1>1, <1>2, ElementBits
<1>4. ASSUME NEW x \in Nat, NEW e \in Elem, x <= e
      PROVE  x \in Elem
  <2>1. pow2[Layers] \in Nat
    BY <1>1, PowersPositive
  <2> QED
    BY <1>4, <2>1 DEF Elem
<1>5. p.src \div pow2[h + 1] \in Elem
  <2>1. PICK m, q, r : m = pow2[h + 1] /\ q = p.src \div m /\ r = p.src % m
    OBVIOUS
  <2>2. m \in Nat /\ m >= 1
    BY <1>1, <2>1, PowersPositive
  <2>3. q \in Nat /\ r \in Nat /\ p.src = m * q + r
    BY <1>2, <2>1, <2>2, Division
  <2>4. m * q >= q
    <3>1. PICK d \in Nat : m = d + 1
      BY <2>2
    <3>2. d * q \in Nat /\ m * q = d * q + q
      BY <2>3, <3>1
    <3> QED
      BY <2>3, <3>2
  <2>5. m * q \in Nat
    BY <2>2, <2>3
  <2>6. q <= p.src
    BY <2>3, <2>4, <2>5
  <2> QED
    BY <1>2, <1>4, <2>1, <2>3, <2>6
<1>6. nodeOf(p, h) \in Nodes /\ nodeOf(p, h)[1] = Layers - h - 1
  BY <1>1, <1>3, <1>5 DEF nodeOf, Nodes
<1>7. /\ p.to % pow2[h] \in Nat /\ p.to % pow2[h] < pow2[h]
      /\ p.to % pow2[h] <= p.to
      /\ p.to % pow2[h + 1] \in Nat /\ p.to % pow2[h + 1] < pow2[h + 1]
      /\ p.to % pow2[h + 1] <= p.to
  BY <1>2, Bits
<1>8. p.to % pow2[h] \in Elem /\ p.to % pow2[h + 1] \in Elem
  BY <1>2, <1>4, <1>7
<1>9. p.to % pow2[h + 1] \in Outputs(Layers - h - 1)
  <2>1. pow2[h + 1] \in Nat
    BY <1>1, PowersPositive
  <2> QED
    BY <1>1, <1>7, <2>1 DEF Outputs
<1>10. outOf(p, h) \in OutReg /\ outOf(p, h)[1] = nodeOf(p, h)
  BY <1>6, <1>8, <1>9 DEF outOf, OutReg
<1>11. (IF h = 0 THEN p.src % 2 ELSE bit(p, h - 1)) \in {left, right}
  <2>1. CASE h = 0
    BY <1>2, <2>1 DEF left, right
  <2>2. CASE h # 0
    <3>1. h - 1 \in 0 .. Layers
      BY <1>1, <2>2
    <3>2. p.to \div pow2[h - 1] \in Nat
      BY <1>2, <3>1, ElementBits
    <3> QED
      BY <2>2, <3>2 DEF bit, left, right
  <2> QED
    BY <2>1, <2>2
<1>12. bankOf(p, h) \in BankReg /\ bankOf(p, h)[1] = nodeOf(p, h)
  BY <1>1, <1>6, <1>7, <1>8, <1>11 DEF bankOf, BankReg
<1> QED
  BY <1>1, <1>6, <1>10, <1>12

(* From an output to the parent: the next register on the way.             *)
LEMMA UpTheWay ==
  ASSUME NEW p \in Packet, NEW h \in 0 .. Layers - 1, h + 1 \in 0 .. Layers - 1
  PROVE  above(nodeOf(p, h), outOf(p, h)[2], p) = bankOf(p, h + 1)
<1>1. Layers \in Nat /\ h + 1 # 0 /\ (h + 1) - 1 = h
      /\ Layers - (h + 1) - 1 = (Layers - h - 1) - 1
  BY BflyAssumption
<1>2. height(nodeOf(p, h)[1]) = h
  BY WayExists
<1>3. p.src \div pow2[(h + 1) + 1] = (p.src \div pow2[h + 1]) \div 2
  BY Addresses, Bits
<1>4. nodeOf(p, h)[1] = Layers - h - 1 /\ nodeOf(p, h)[2] = p.src \div pow2[h + 1]
  BY DEF nodeOf
<1>5. nodeOf(p, h + 1) = <<nodeOf(p, h)[1] - 1, nodeOf(p, h)[2] \div 2>>
  BY <1>1, <1>3, <1>4 DEF nodeOf
<1>6. outOf(p, h)[2] = p.to % pow2[h + 1]
  BY DEF outOf
<1>7. bankOf(p, h + 1) = <<nodeOf(p, h + 1), bit(p, h), p.to % pow2[h + 1]>>
  BY <1>1 DEF bankOf
<1> QED
  BY <1>2, <1>5, <1>6, <1>7 DEF above

(* From a bank to the output that takes the packet: the next register.     *)
LEMMA ThroughTheNode ==
  ASSUME NEW p \in Packet, NEW h \in 0 .. Layers - 1,
         NEW i \in 0 .. pow2[h + 1] - 1,
         p.to % pow2[h] = i % pow2[h], bit(p, h) = i \div pow2[h]
  PROVE  outOf(p, h) = <<nodeOf(p, h), i>>
<1>1. p.to % pow2[h + 1] = pow2[h] * ((p.to \div pow2[h]) % 2) + (p.to % pow2[h])
  BY Addresses, Bits
<1>2. i = pow2[h] * (i \div pow2[h]) + (i % pow2[h])
  BY OutputBits
<1>3. p.to % pow2[h + 1] = i
  BY <1>1, <1>2 DEF bit
<1> QED
  BY <1>3 DEF outOf

(* From the input to the lowest layer: the first register.                 *)
LEMMA StartOfWay ==
  ASSUME NEW p \in Packet
  PROVE  entry(p.src) = bankOf(p, 0)
<1>1. Layers \in Nat /\ 0 \in 0 .. Layers - 1 /\ 1 \in 1 .. Layers
      /\ Layers - 0 - 1 = Layers - 1
  BY BflyAssumption
<1>2. pow2[0] = 1 /\ pow2[0 + 1] = 2
  BY <1>1, Powers
<1>3. p.to % 1 = 0
  BY Addresses
<1> QED
  BY <1>1, <1>2, <1>3 DEF entry, bankOf, nodeOf

(* The last register is the output of the root for the packet's element.   *)
LEMMA EndOfWay ==
  ASSUME NEW p \in Packet
  PROVE  /\ Layers - 1 \in 0 .. Layers - 1
         /\ outOf(p, Layers - 1) = <<root, p.to>>
<1>1. Layers \in Nat /\ Layers - 1 \in 0 .. Layers - 1 /\ (Layers - 1) + 1 = Layers
      /\ Layers - (Layers - 1) - 1 = 0 /\ Layers \in 0 .. Layers /\ Layers - Layers = 0
  BY BflyAssumption
<1>2. p.to % pow2[Layers] = p.to
  BY Addresses, ElementBits
<1>3. p.src \div pow2[Layers] \in Nat /\ p.src \div pow2[Layers] < 1
  BY <1>1, Addresses, ElementBits, Powers
<1>4. p.src \div pow2[Layers] = 0
  BY <1>3
<1>5. outOf(p, Layers - 1) = <<<<Layers - (Layers - 1) - 1, p.src \div pow2[Layers]>>,
                               p.to % pow2[Layers]>>
  BY <1>1 DEF outOf, nodeOf
<1> QED
  BY <1>1, <1>2, <1>4, <1>5 DEF root
----------------------------------------------------------------------------
(* The registers of the tree, and of the inputs.                           *)
NetState == [bank : [BankReg -> Packet \cup {NoPkt}],
             out : [OutReg -> Packet \cup {NoPkt}]]
InState == {x \in [Elem -> Packet \cup {NoPkt}] :
              \A e \in Elem : busy(x[e]) => x[e].src = e}

(* A packet is in a register of its own way. *)
Placed(s) ==
  /\ \A r \in BankReg : busy(s.bank[r])
       => r = bankOf(s.bank[r], height(r[1][1]))
  /\ \A r \in OutReg : busy(s.out[r])
       => r = outOf(s.out[r], height(r[1][1]))

(* The registers of a way are numbered: 0 is the input, 2h + 1 the bank    *)
(* and 2h + 2 the output at height h.                                      *)
Holds(i, s, p, k) ==
  \/ k = 0 /\ i[p.src] = p
  \/ \E h \in 0 .. Layers - 1 : k = 2 * h + 1 /\ s.bank[bankOf(p, h)] = p
  \/ \E h \in 0 .. Layers - 1 : k = 2 * h + 2 /\ s.out[outOf(p, h)] = p

Ordered(i, s) ==
  \A p, q \in Packet : \A a, b \in Nat :
    p.src = q.src /\ p.to = q.to /\ a < b /\ Holds(i, s, p, a) /\ Holds(i, s, q, b)
      => q.id < p.id

Inside(i, s) == {p \in Packet : \E k \in Nat : Holds(i, s, p, k)}

Good(i, s) == i \in InState /\ s \in NetState /\ Placed(s) /\ Ordered(i, s)

(* A step takes packets one register further, and only to a free one.      *)
Moved(i, s, j, t) ==
  \A p \in Packet : \A k \in Nat :
    /\ Holds(j, t, p, k) =>
         \/ Holds(i, s, p, k)
         \/ k >= 1 /\ Holds(i, s, p, k - 1) /\ ~ Holds(j, t, p, k - 1)
    /\ Holds(i, s, p, k) => Holds(j, t, p, k) \/ Holds(j, t, p, k + 1)

(* The three kinds of a place.                                             *)
LEMMA InPlace ==
  ASSUME NEW i, NEW s, NEW p
  PROVE  Holds(i, s, p, 0) <=> i[p.src] = p
<1>1. \A g \in 0 .. Layers - 1 : 0 # 2 * g + 1 /\ 0 # 2 * g + 2
  BY BflyAssumption
<1> QED
  BY <1>1 DEF Holds

(* A place in a bank. *)
LEMMA BankPlace ==
  ASSUME NEW i, NEW s, NEW p, NEW h \in 0 .. Layers - 1
  PROVE  Holds(i, s, p, 2 * h + 1) <=> s.bank[bankOf(p, h)] = p
<1>1. Layers \in Nat /\ h \in Nat /\ 2 * h + 1 # 0
  BY BflyAssumption
<1>2. \A g \in 0 .. Layers - 1 : /\ 2 * h + 1 # 2 * g + 2
                                 /\ 2 * h + 1 = 2 * g + 1 => g = h
  BY <1>1
<1> QED
  BY <1>1, <1>2 DEF Holds

(* A place at an output. *)
LEMMA OutPlace ==
  ASSUME NEW i, NEW s, NEW p, NEW h \in 0 .. Layers - 1
  PROVE  Holds(i, s, p, 2 * h + 2) <=> s.out[outOf(p, h)] = p
<1>1. Layers \in Nat /\ h \in Nat /\ 2 * h + 2 # 0
  BY BflyAssumption
<1>2. \A g \in 0 .. Layers - 1 : /\ 2 * h + 2 # 2 * g + 1
                                 /\ 2 * h + 2 = 2 * g + 2 => g = h
  BY <1>1
<1> QED
  BY <1>1, <1>2 DEF Holds

(* No register is beyond the root.                                         *)
LEMMA LastPlace ==
  ASSUME NEW i, NEW s, NEW p, NEW k \in Nat, Holds(i, s, p, k)
  PROVE  k <= 2 * Layers
BY BflyAssumption DEF Holds

(* One register holds one packet.                                          *)
LEMMA OnePerPlace ==
  ASSUME NEW i, NEW s, NEW p \in Packet, NEW q \in Packet, NEW k \in Nat,
         p.src = q.src, p.to = q.to, Holds(i, s, p, k), Holds(i, s, q, k)
  PROVE  p = q
<1>1. \A h \in 0 .. Layers - 1 : bankOf(p, h) = bankOf(q, h) /\ outOf(p, h) = outOf(q, h)
  BY DEF bankOf, outOf, nodeOf, bit
<1>2. CASE k = 0
  <2>1. \A h \in 0 .. Layers - 1 : 0 # 2 * h + 1 /\ 0 # 2 * h + 2
    BY BflyAssumption
  <2> QED
    BY <1>2, <2>1 DEF Holds
<1>3. CASE \E h \in 0 .. Layers - 1 : k = 2 * h + 1
  <2>1. PICK h \in 0 .. Layers - 1 : k = 2 * h + 1
    BY <1>3
  <2>2. Holds(i, s, p, 2 * h + 1) /\ Holds(i, s, q, 2 * h + 1)
    BY <2>1
  <2>3. s.bank[bankOf(p, h)] = p
    BY <2>2, BankPlace
  <2>4. s.bank[bankOf(q, h)] = q
    BY <2>2, BankPlace
  <2> QED
    BY <1>1, <2>1, <2>3, <2>4
<1>4. CASE \E h \in 0 .. Layers - 1 : k = 2 * h + 2
  <2>1. PICK h \in 0 .. Layers - 1 : k = 2 * h + 2
    BY <1>4
  <2>2. Holds(i, s, p, 2 * h + 2) /\ Holds(i, s, q, 2 * h + 2)
    BY <2>1
  <2>3. s.out[outOf(p, h)] = p
    BY <2>2, OutPlace
  <2>4. s.out[outOf(q, h)] = q
    BY <2>2, OutPlace
  <2> QED
    BY <1>1, <2>3, <2>4
<1> QED
  BY <1>2, <1>3, <1>4 DEF Holds

(* A step that only moves packets loses none, makes none, and lets none    *)
(* overtake another of its flow.                                           *)
LEMMA MovedKeeps ==
  ASSUME NEW i, NEW s, NEW j, NEW t, Ordered(i, s), Moved(i, s, j, t)
  PROVE  Ordered(j, t) /\ Inside(j, t) = Inside(i, s)
<1>1. ASSUME NEW p \in Packet, NEW q \in Packet, NEW a \in Nat, NEW b \in Nat,
             p.src = q.src, p.to = q.to, a < b, Holds(j, t, p, a), Holds(j, t, q, b)
      PROVE  q.id < p.id
  <2>1. Holds(i, s, p, a) \/ (a - 1 \in Nat /\ Holds(i, s, p, a - 1))
    BY <1>1 DEF Moved
  <2>2. \/ Holds(i, s, q, b)
        \/ b - 1 \in Nat /\ Holds(i, s, q, b - 1) /\ ~ Holds(j, t, q, b - 1)
    BY <1>1 DEF Moved
  <2>3. \A c, d \in Nat : c < d /\ Holds(i, s, p, c) /\ Holds(i, s, q, d) => q.id < p.id
    BY <1>1 DEF Ordered
  <2>4. CASE Holds(i, s, q, b)
    <3>1. a - 1 \in Nat => a - 1 < b
      BY <1>1
    <3> QED
      BY <1>1, <2>1, <2>3, <2>4, <3>1
  <2>5. CASE /\ b - 1 \in Nat /\ Holds(i, s, q, b - 1)
             /\ ~ Holds(j, t, q, b - 1)
    <3>1. CASE Holds(i, s, p, a)
      <4>1. CASE a = b - 1
        <5>1. p = q
          BY <1>1, <2>5, <3>1, <4>1, OnePerPlace
        <5> QED
          BY <1>1, <2>5, <4>1, <5>1
      <4>2. CASE a # b - 1
        <5>1. a < b - 1
          BY <1>1, <4>2
        <5> QED
          BY <2>3, <2>5, <3>1, <5>1
      <4> QED
        BY <4>1, <4>2
    <3>2. CASE a - 1 \in Nat /\ Holds(i, s, p, a - 1)
      <4>1. a - 1 < b - 1
        BY <1>1
      <4> QED
        BY <2>3, <2>5, <3>2, <4>1
    <3> QED
      BY <2>1, <3>1, <3>2
  <2> QED
    BY <2>2, <2>4, <2>5
<1>2. Ordered(j, t)
  BY <1>1 DEF Ordered
<1>3. ASSUME NEW p \in Packet
      PROVE  (\E k \in Nat : Holds(j, t, p, k)) <=> \E k \in Nat : Holds(i, s, p, k)
  <2>1. ASSUME NEW k \in Nat, Holds(j, t, p, k)
        PROVE  \E l \in Nat : Holds(i, s, p, l)
    <3>1. Holds(i, s, p, k) \/ (k - 1 \in Nat /\ Holds(i, s, p, k - 1))
      BY <2>1 DEF Moved
    <3> QED
      BY <3>1
  <2>2. ASSUME NEW k \in Nat, Holds(i, s, p, k)
        PROVE  \E l \in Nat : Holds(j, t, p, l)
    <3>1. Holds(j, t, p, k) \/ (k + 1 \in Nat /\ Holds(j, t, p, k + 1))
      BY <2>2 DEF Moved
    <3> QED
      BY <3>1
  <2> QED
    BY <2>1, <2>2
<1> QED
  BY <1>2, <1>3 DEF Inside
----------------------------------------------------------------------------
(* A register of a node, with the packet in it.                            *)
LEMMA PacketInBank ==
  ASSUME NEW s \in NetState, Placed(s), NEW r \in BankReg, busy(s.bank[r])
  PROVE  /\ s.bank[r] \in Packet /\ height(r[1][1]) \in 0 .. Layers - 1
         /\ r = bankOf(s.bank[r], height(r[1][1]))
         /\ r[1] = nodeOf(s.bank[r], height(r[1][1]))
         /\ r[3] = s.bank[r].to % pow2[height(r[1][1])]
<1>1. r[1] \in Nodes
  BY DEF BankReg
<1>2. height(r[1][1]) \in 0 .. Layers - 1
  BY <1>1, NodeHeight
<1>3. s.bank[r] \in Packet /\ r = bankOf(s.bank[r], height(r[1][1]))
  BY DEF NetState, busy, Placed
<1>4. PICK p, h : p = s.bank[r] /\ h = height(r[1][1])
  OBVIOUS
<1>5. r = bankOf(p, h)
  BY <1>3, <1>4
<1>6. r[1] = nodeOf(p, h) /\ r[3] = p.to % pow2[h]
  BY <1>5 DEF bankOf
<1> QED
  BY <1>2, <1>3, <1>4, <1>6

(* The same for an output. *)
LEMMA PacketInOut ==
  ASSUME NEW s \in NetState, Placed(s), NEW r \in OutReg, busy(s.out[r])
  PROVE  /\ s.out[r] \in Packet /\ height(r[1][1]) \in 0 .. Layers - 1
         /\ r = outOf(s.out[r], height(r[1][1]))
         /\ r[1] = nodeOf(s.out[r], height(r[1][1]))
<1>1. r[1] \in Nodes
  BY DEF OutReg
<1>2. height(r[1][1]) \in 0 .. Layers - 1
  BY <1>1, NodeHeight
<1>3. s.out[r] \in Packet /\ r = outOf(s.out[r], height(r[1][1]))
  BY DEF NetState, busy, Placed
<1>4. PICK p, h : p = s.out[r] /\ h = height(r[1][1])
  OBVIOUS
<1>5. r = outOf(p, h)
  BY <1>3, <1>4
<1>6. r[1] = nodeOf(p, h)
  BY <1>5 DEF outOf
<1> QED
  BY <1>2, <1>3, <1>4, <1>6

(* Output o, i of node n at height h, has a next register to send p to, and *)
(* it is free.                                                             *)
HasNext(s, n, i, o, p, h) ==
  /\ p \in Packet /\ h \in 0 .. Layers - 1 /\ h + 1 \in 0 .. Layers - 1
  /\ o = outOf(p, h) /\ bankOf(p, h + 1) \in BankReg
  /\ above(n, i, p) = bankOf(p, h + 1)
  /\ height(bankOf(p, h + 1)[1][1]) = h + 1
  /\ bankOf(p, h + 1)[1] = <<n[1] - 1, n[2] \div 2>>
  /\ bankOf(p, h + 1)[3] = i
  /\ ~ busy(s.bank[bankOf(p, h + 1)])

(* That is so for an output that sends.                                    *)
LEMMA Sending ==
  ASSUME NEW s \in NetState, Placed(s), NEW n \in Nodes, NEW i,
         NEW o \in OutReg, o = <<n, i>>, sends(s, n, i),
         NEW p, p = s.out[o], NEW h, h = height(n[1])
  PROVE  HasNext(s, n, i, o, p, h)
<1>1. PICK r : r = o
  OBVIOUS
<1>2. r \in OutReg /\ r[1] = n /\ r[2] = i /\ busy(p) /\ p = s.out[r] /\ n[1] > 0
      /\ ~ busy(s.bank[above(n, i, p)])
  <2>1. <<n, i>>[1] = n /\ <<n, i>>[2] = i
    OBVIOUS
  <2>2. n[1] > 0 /\ busy(s.out[o]) /\ ~ busy(s.bank[above(n, i, s.out[o])])
    BY DEF sends
  <2> QED
    BY <1>1, <2>1, <2>2
<1>3. p \in Packet /\ h \in 0 .. Layers - 1 /\ r = outOf(p, h) /\ n = nodeOf(p, h)
  BY <1>1, <1>2, PacketInOut
<1>4. h + 1 \in 0 .. Layers - 1
  BY <1>1, <1>2, NodeHeight, BflyAssumption
<1>5. above(n, i, p) = bankOf(p, h + 1)
  BY <1>2, <1>3, <1>4, UpTheWay
<1>6. bankOf(p, h + 1) \in BankReg /\ bankOf(p, h + 1)[1] = nodeOf(p, h + 1)
      /\ nodeOf(p, h + 1)[1] = Layers - (h + 1) - 1
      /\ height(Layers - (h + 1) - 1) = h + 1
  BY <1>3, <1>4, WayExists
<1>7. height(bankOf(p, h + 1)[1][1]) = h + 1
  BY <1>6
<1>8. above(n, i, p)[1] = <<n[1] - 1, n[2] \div 2>> /\ above(n, i, p)[3] = i
  BY DEF above
<1>9. o = outOf(p, h)
  BY <1>1, <1>3
<1>10. ~ busy(s.bank[bankOf(p, h + 1)])
  BY <1>2, <1>5
<1>11. bankOf(p, h + 1)[1] = <<n[1] - 1, n[2] \div 2>> /\ bankOf(p, h + 1)[3] = i
  BY <1>5, <1>8
<1> QED
  BY <1>3, <1>4, <1>5, <1>6, <1>7, <1>9, <1>10, <1>11, Zenon DEF HasNext

(* A step moves packets if it does so for every kind of a place.           *)
LEMMA MovedByKind ==
  ASSUME NEW i, NEW s, NEW j, NEW t,
         \A p \in Packet : j[p.src] = p => i[p.src] = p,
         \A p \in Packet : i[p.src] = p => j[p.src] = p \/ Holds(j, t, p, 1),
         \A p \in Packet : \A h \in 0 .. Layers - 1 :
           /\ t.bank[bankOf(p, h)] = p /\ s.bank[bankOf(p, h)] # p =>
                /\ Holds(i, s, p, 2 * h)
                /\ ~ Holds(j, t, p, 2 * h)
           /\ t.out[outOf(p, h)] = p /\ s.out[outOf(p, h)] # p =>
                /\ Holds(i, s, p, 2 * h + 1)
                /\ ~ Holds(j, t, p, 2 * h + 1)
           /\ s.bank[bankOf(p, h)] = p /\ t.bank[bankOf(p, h)] # p =>
                Holds(j, t, p, 2 * h + 2)
           /\ s.out[outOf(p, h)] = p /\ t.out[outOf(p, h)] # p =>
                Holds(j, t, p, 2 * h + 3)
  PROVE  Moved(i, s, j, t)
<1> SUFFICES ASSUME NEW p \in Packet, NEW k \in Nat
             PROVE  /\ Holds(j, t, p, k) =>
                         \/ Holds(i, s, p, k)
                         \/ k >= 1 /\ Holds(i, s, p, k - 1) /\ ~ Holds(j, t, p, k - 1)
                    /\ Holds(i, s, p, k) => Holds(j, t, p, k) \/ Holds(j, t, p, k + 1)
  BY DEF Moved
<1>1. CASE k = 0
  <2>1. (Holds(i, s, p, 0) <=> i[p.src] = p) /\ (Holds(j, t, p, 0) <=> j[p.src] = p)
    BY InPlace
  <2>2. 0 + 1 = 1
    OBVIOUS
  <2> QED
    BY <1>1, <2>1, <2>2
<1>2. ASSUME NEW h \in 0 .. Layers - 1, k = 2 * h + 1
      PROVE  /\ Holds(j, t, p, k) =>
                  \/ Holds(i, s, p, k)
                  \/ k >= 1 /\ Holds(i, s, p, k - 1) /\ ~ Holds(j, t, p, k - 1)
             /\ Holds(i, s, p, k) => Holds(j, t, p, k) \/ Holds(j, t, p, k + 1)
  <2>1. k - 1 = 2 * h /\ k + 1 = 2 * h + 2 /\ k >= 1
    BY <1>2, BflyAssumption
  <2>2. /\ Holds(i, s, p, 2 * h + 1) <=> s.bank[bankOf(p, h)] = p
        /\ Holds(j, t, p, 2 * h + 1) <=> t.bank[bankOf(p, h)] = p
    BY BankPlace
  <2>3. /\ Holds(i, s, p, k) <=> s.bank[bankOf(p, h)] = p
        /\ Holds(j, t, p, k) <=> t.bank[bankOf(p, h)] = p
    BY <1>2, <2>2
  <2> QED
    BY <2>1, <2>3
<1>3. ASSUME NEW h \in 0 .. Layers - 1, k = 2 * h + 2
      PROVE  /\ Holds(j, t, p, k) =>
                  \/ Holds(i, s, p, k)
                  \/ k >= 1 /\ Holds(i, s, p, k - 1) /\ ~ Holds(j, t, p, k - 1)
             /\ Holds(i, s, p, k) => Holds(j, t, p, k) \/ Holds(j, t, p, k + 1)
  <2>1. k - 1 = 2 * h + 1 /\ k + 1 = 2 * h + 3 /\ k >= 1
    BY <1>3, BflyAssumption
  <2>2. /\ Holds(i, s, p, 2 * h + 2) <=> s.out[outOf(p, h)] = p
        /\ Holds(j, t, p, 2 * h + 2) <=> t.out[outOf(p, h)] = p
    BY OutPlace
  <2>3. /\ Holds(i, s, p, k) <=> s.out[outOf(p, h)] = p
        /\ Holds(j, t, p, k) <=> t.out[outOf(p, h)] = p
    BY <1>3, <2>2
  <2> QED
    BY <2>1, <2>3
<1>4. ASSUME k # 0, ~ \E h \in 0 .. Layers - 1 : k = 2 * h + 1 \/ k = 2 * h + 2
      PROVE  ~ Holds(i, s, p, k) /\ ~ Holds(j, t, p, k)
  BY <1>4 DEF Holds
<1> QED
  BY <1>1, <1>2, <1>3, <1>4

(* What an output sends arrives one register further on its way.           *)
LEMMA PushMoves ==
  ASSUME NEW i, NEW s \in NetState, Placed(s), NEW n \in Nodes
  PROVE  /\ push(s, n) \in NetState /\ Placed(push(s, n))
         /\ Moved(i, s, i, push(s, n))
<1> PICK t : t = push(s, n)
  OBVIOUS
<1>1. SUFFICES t \in NetState /\ Placed(t) /\ Moved(i, s, i, t)
  OBVIOUS
<1>2. /\ t = [bank |-> t.bank, out |-> t.out]
      /\ t.bank = [r \in BankReg |->
           IF /\ r[1] = <<n[1] - 1, n[2] \div 2>>
              /\ sends(s, n, r[3])
              /\ r = above(n, r[3], s.out[<<n, r[3]>>])
           THEN s.out[<<n, r[3]>>] ELSE s.bank[r]]
      /\ t.out = [r \in OutReg |->
           IF r[1] = n /\ sends(s, n, r[2]) THEN NoPkt ELSE s.out[r]]
  BY DEF push
<1>3. s.bank \in [BankReg -> Packet \cup {NoPkt}]
      /\ s.out \in [OutReg -> Packet \cup {NoPkt}]
  BY DEF NetState
<1>4. ASSUME NEW r \in BankReg, r[1] = <<n[1] - 1, n[2] \div 2>>,
             sends(s, n, r[3])
      PROVE  <<n, r[3]>> \in OutReg
  <2>1. n[1] > 0 /\ n[1] \in 0 .. Layers - 1
    BY <1>4, NodeHeight DEF sends
  <2>2. r[3] \in Elem /\ r[3] < pow2[height(n[1] - 1)] /\ r[3] \in Nat
    BY <1>4 DEF BankReg, Elem
  <2>3. height(n[1] - 1) = height(n[1]) + 1 /\ height(n[1] - 1) \in 0 .. Layers
    BY <2>1, BflyAssumption DEF height
  <2>4. pow2[height(n[1] - 1)] \in Nat
    BY <2>3, PowersPositive
  <2>5. r[3] \in Outputs(n[1])
    BY <2>2, <2>3, <2>4 DEF Outputs
  <2> QED
    BY <2>2, <2>5 DEF OutReg
<1>5. ASSUME NEW r \in BankReg, t.bank[r] # s.bank[r]
      PROVE  \E p \in Packet : \E h \in 0 .. Layers - 1 :
               /\ t.bank[r] = p /\ ~ busy(s.bank[r]) /\ h + 1 \in 0 .. Layers - 1
               /\ r = bankOf(p, h + 1) /\ height(r[1][1]) = h + 1
               /\ s.out[outOf(p, h)] = p /\ t.out[outOf(p, h)] = NoPkt
  <2>1. /\ r[1] = <<n[1] - 1, n[2] \div 2>> /\ sends(s, n, r[3])
        /\ r = above(n, r[3], s.out[<<n, r[3]>>])
        /\ t.bank[r] = s.out[<<n, r[3]>>]
    BY <1>2, <1>5
  <2>2. PICK j, o : j = r[3] /\ o = <<n, j>>
    OBVIOUS
  <2>3. o \in OutReg /\ sends(s, n, j) /\ o[1] = n /\ o[2] = j
        /\ r = above(n, j, s.out[o]) /\ t.bank[r] = s.out[o]
    BY <1>4, <2>1, <2>2
  <2>0. PICK p, h : p = s.out[o] /\ h = height(n[1])
    OBVIOUS
  <2>4. HasNext(s, n, j, o, p, h)
    BY <2>0, <2>2, <2>3, Sending
  <2>5. t.out[o] = NoPkt
    BY <1>2, <2>3
  <2>6. p \in Packet /\ h \in 0 .. Layers - 1
    BY <2>4 DEF HasNext
  <2>7. /\ t.bank[r] = p /\ ~ busy(s.bank[r]) /\ h + 1 \in 0 .. Layers - 1
        /\ r = bankOf(p, h + 1) /\ height(r[1][1]) = h + 1
        /\ s.out[outOf(p, h)] = p /\ t.out[outOf(p, h)] = NoPkt
    BY <2>0, <2>3, <2>4, <2>5 DEF HasNext
  <2> QED
    BY <2>6, <2>7
<1>6. ASSUME NEW r \in OutReg, t.out[r] # s.out[r]
      PROVE  \E p \in Packet : \E h \in 0 .. Layers - 1 :
               /\ s.out[r] = p /\ t.out[r] = NoPkt
               /\ r = outOf(p, h) /\ h + 1 \in 0 .. Layers - 1
               /\ t.bank[bankOf(p, h + 1)] = p
  <2>1. r[1] = n /\ sends(s, n, r[2]) /\ t.out[r] = NoPkt
    BY <1>2, <1>6
  <2>2. PICK j : j = r[2]
    OBVIOUS
  <2>3. r = <<n, j>> /\ sends(s, n, j)
    BY <2>1, <2>2 DEF OutReg
  <2>0. PICK p, h : p = s.out[r] /\ h = height(n[1])
    OBVIOUS
  <2>4. HasNext(s, n, j, r, p, h)
    BY <2>0, <2>2, <2>3, Sending
  <2>5. PICK b : b = bankOf(p, h + 1)
    OBVIOUS
  <2>6. b \in BankReg /\ b[1] = <<n[1] - 1, n[2] \div 2>> /\ b[3] = j
        /\ s.out[<<n, j>>] = p /\ b = above(n, j, p) /\ sends(s, n, j)
    BY <2>0, <2>1, <2>2, <2>3, <2>4, <2>5 DEF HasNext
  <2>7. t.bank[b] = p
    BY <1>2, <2>6
  <2>8. p \in Packet /\ h \in 0 .. Layers - 1
    BY <2>4 DEF HasNext
  <2>9. /\ s.out[r] = p /\ t.out[r] = NoPkt
        /\ r = outOf(p, h) /\ h + 1 \in 0 .. Layers - 1
        /\ t.bank[bankOf(p, h + 1)] = p
    BY <2>0, <2>1, <2>4, <2>5, <2>7 DEF HasNext
  <2> QED
    BY <2>8, <2>9
<1>7. t \in NetState
  <2>1. \A r \in BankReg : t.bank[r] \in Packet \cup {NoPkt}
    BY <1>3, <1>5
  <2>2. \A r \in OutReg : t.out[r] \in Packet \cup {NoPkt}
    BY <1>3, <1>6
  <2>3. t.bank \in [BankReg -> Packet \cup {NoPkt}]
        /\ t.out \in [OutReg -> Packet \cup {NoPkt}]
    BY <1>2, <2>1, <2>2
  <2> QED
    BY <1>2, <2>3 DEF NetState
<1>8. Placed(t)
  <2>1. ASSUME NEW r \in BankReg, busy(t.bank[r])
        PROVE  r = bankOf(t.bank[r], height(r[1][1]))
    <3>1. CASE t.bank[r] = s.bank[r]
      BY <2>1, <3>1 DEF Placed
    <3>2. CASE t.bank[r] # s.bank[r]
      BY <1>5, <3>2
    <3> QED
      BY <3>1, <3>2
  <2>2. ASSUME NEW r \in OutReg, busy(t.out[r])
        PROVE  r = outOf(t.out[r], height(r[1][1]))
    <3>1. t.out[r] = s.out[r]
      BY <1>6, <2>2 DEF busy
    <3> QED
      BY <2>2, <3>1 DEF Placed
  <2> QED
    BY <2>1, <2>2 DEF Placed
<1>9. ASSUME NEW p \in Packet, NEW h \in 0 .. Layers - 1,
             t.bank[bankOf(p, h)] = p, s.bank[bankOf(p, h)] # p
      PROVE  Holds(i, s, p, 2 * h) /\ ~ Holds(i, t, p, 2 * h)
  <2>1. bankOf(p, h) \in BankReg /\ height(bankOf(p, h)[1][1]) = h
    BY WayExists
  <2>2. PICK g \in 0 .. Layers - 1 :
          /\ h = g + 1 /\ s.out[outOf(p, g)] = p /\ t.out[outOf(p, g)] = NoPkt
    BY <1>5, <1>9, <2>1
  <2>3. Holds(i, s, p, 2 * g + 2)
    BY <2>2, OutPlace
  <2>4. p # NoPkt
    BY BflyAssumption
  <2>5. ~ Holds(i, t, p, 2 * g + 2)
    BY <2>2, <2>4, OutPlace
  <2>6. 2 * h = 2 * g + 2
    BY <2>2, BflyAssumption
  <2> QED
    BY <2>3, <2>5, <2>6
<1>10. ASSUME NEW p \in Packet, NEW h \in 0 .. Layers - 1,
              t.out[outOf(p, h)] = p
       PROVE  s.out[outOf(p, h)] = p
  <2>1. outOf(p, h) \in OutReg /\ p # NoPkt
    BY WayExists, BflyAssumption
  <2> QED
    BY <1>6, <1>10, <2>1
<1>11. ASSUME NEW p \in Packet, NEW h \in 0 .. Layers - 1,
              s.bank[bankOf(p, h)] = p
       PROVE  t.bank[bankOf(p, h)] = p
  <2>1. bankOf(p, h) \in BankReg /\ busy(p)
    BY WayExists, Addresses
  <2> QED
    BY <1>5, <1>11, <2>1
<1>12. ASSUME NEW p \in Packet, NEW h \in 0 .. Layers - 1,
              s.out[outOf(p, h)] = p, t.out[outOf(p, h)] # p
       PROVE  Holds(i, t, p, 2 * h + 3)
  <2>1. outOf(p, h) \in OutReg /\ height(outOf(p, h)[1][1]) = h
    BY WayExists
  <2>2. PICK g \in 0 .. Layers - 1 :
          /\ outOf(p, h) = outOf(p, g) /\ g + 1 \in 0 .. Layers - 1
          /\ t.bank[bankOf(p, g + 1)] = p
    BY <1>6, <1>12, <2>1
  <2>3. height(outOf(p, g)[1][1]) = g
    BY WayExists
  <2>4. g = h
    BY <2>1, <2>2, <2>3
  <2>5. Holds(i, t, p, 2 * (h + 1) + 1)
    BY <2>2, <2>4, BankPlace
  <2>6. 2 * (h + 1) + 1 = 2 * h + 3
    BY BflyAssumption
  <2> QED
    BY <2>5, <2>6
<1>13. Moved(i, s, i, t)
  BY <1>9, <1>10, <1>11, <1>12, MovedByKind
<1> QED
  BY <1>7, <1>8, <1>13
(* An output that takes a packet takes one, of its node and on its way.    *)
LEMMA Taking ==
  ASSUME NEW s \in NetState, Placed(s), NEW n \in Nodes,
         NEW i \in Outputs(n[1]), NEW r \in takes(s, n, i),
         NEW p, p = s.bank[r], NEW h, h = height(n[1])
  PROVE  /\ p \in Packet /\ h \in 0 .. Layers - 1 /\ r \in BankReg /\ r[1] = n
         /\ r = bankOf(p, h) /\ outOf(p, h) = <<n, i>> /\ <<n, i>> \in OutReg
         /\ takes(s, n, i) = {r} /\ ~ busy(s.out[<<n, i>>])
<1>1. h = height(n[1])
  OBVIOUS
<1>2. h \in 0 .. Layers - 1 /\ i \in 0 .. pow2[h + 1] - 1 /\ n[1] \in 0 .. Layers - 1
  BY <1>1, NodeHeight DEF Outputs
<1>3. PICK able : able = {b \in {left, right} : wants(s, n, b, i)}
  OBVIOUS
<1>4. PICK chosen : chosen = IF right \in able THEN {right} ELSE able
  OBVIOUS
<1>5. takes(s, n, i) = IF busy(s.out[<<n, i>>]) THEN {}
                       ELSE {<<n, b, i % pow2[h]>> : b \in chosen}
  BY <1>1, <1>3, <1>4 DEF takes
<1>6. ~ busy(s.out[<<n, i>>])
  BY <1>5
<1>7. PICK b \in chosen : r = <<n, b, i % pow2[h]>>
  BY <1>5, <1>6
<1>8. b \in {left, right} /\ wants(s, n, b, i)
  BY <1>3, <1>4, <1>7
<1>9. chosen = {b}
  BY <1>3, <1>4, <1>7
<1>10. takes(s, n, i) = {r}
  BY <1>5, <1>6, <1>7, <1>9
<1>11. busy(s.bank[r]) /\ bit(s.bank[r], h) = i \div pow2[h]
  BY <1>1, <1>7, <1>8 DEF wants
<1>12. i \in Nat /\ i % pow2[h] \in Nat /\ i % pow2[h] < pow2[h]
  <2>1. i \in Nat
    BY <1>2, OutputBits
  <2> QED
    BY <1>2, <2>1, Bits
<1>13. i \in Elem /\ i % pow2[h] \in Elem
  <2>1. Layers \in Nat /\ n[1] \in 0 .. Layers /\ h + 1 \in 0 .. Layers
        /\ Layers - (h + 1) = n[1] /\ Layers \in 0 .. Layers
    BY <1>1, <1>2, BflyAssumption DEF height
  <2>2. pow2[h + 1] <= pow2[Layers] /\ pow2[h + 1] \in Nat /\ pow2[Layers] \in Nat
    BY <2>1, PowersGrow, PowersPositive
  <2>3. i % pow2[h] <= i
    BY <1>2, <1>12, Bits
  <2> QED
    BY <1>2, <1>12, <2>2, <2>3 DEF Elem
<1>14. r \in BankReg /\ r[1] = n /\ r[3] = i % pow2[h]
  BY <1>1, <1>7, <1>8, <1>12, <1>13 DEF BankReg
<1>15. <<n, i>> \in OutReg
  BY <1>13 DEF OutReg
<1>16. p = s.bank[r]
  OBVIOUS
<1>17. p \in Packet /\ r = bankOf(p, h) /\ n = nodeOf(p, h) /\ r[3] = p.to % pow2[h]
  BY <1>1, <1>11, <1>14, <1>16, PacketInBank
<1>18. outOf(p, h) = <<n, i>>
  <2>1. p.to % pow2[h] = i % pow2[h] /\ bit(p, h) = i \div pow2[h]
    BY <1>11, <1>14, <1>16, <1>17
  <2> QED
    BY <1>2, <1>17, <2>1, ThroughTheNode
<1> QED
  BY <1>2, <1>6, <1>10, <1>14, <1>15, <1>17, <1>18

(* What an output takes arrives one register further on its way.           *)
LEMMA PullMoves ==
  ASSUME NEW i, NEW s \in NetState, Placed(s), NEW n \in Nodes
  PROVE  /\ pull(s, n) \in NetState /\ Placed(pull(s, n))
         /\ Moved(i, s, i, pull(s, n))
<1> PICK t : t = pull(s, n)
  OBVIOUS
<1>1. SUFFICES t \in NetState /\ Placed(t) /\ Moved(i, s, i, t)
  OBVIOUS
<1>2. /\ t = [bank |-> t.bank, out |-> t.out]
      /\ t.bank = [r \in BankReg |->
           IF r[1] = n /\ \E j \in Outputs(n[1]) : r \in takes(s, n, j)
           THEN NoPkt ELSE s.bank[r]]
      /\ t.out = [r \in OutReg |->
           IF r[1] = n /\ takes(s, n, r[2]) # {}
           THEN s.bank[CHOOSE b \in takes(s, n, r[2]) : TRUE] ELSE s.out[r]]
  BY DEF pull
<1>3. s.bank \in [BankReg -> Packet \cup {NoPkt}]
      /\ s.out \in [OutReg -> Packet \cup {NoPkt}]
  BY DEF NetState
<1>4. ASSUME NEW r \in OutReg, t.out[r] # s.out[r]
      PROVE  \E p \in Packet : \E h \in 0 .. Layers - 1 :
               /\ t.out[r] = p /\ ~ busy(s.out[r])
               /\ r = outOf(p, h) /\ height(r[1][1]) = h
               /\ s.bank[bankOf(p, h)] = p /\ t.bank[bankOf(p, h)] = NoPkt
  <2>1. /\ r[1] = n /\ takes(s, n, r[2]) # {}
        /\ t.out[r] = s.bank[CHOOSE b \in takes(s, n, r[2]) : TRUE]
    BY <1>2, <1>4
  <2>2. PICK j : j = r[2]
    OBVIOUS
  <2>3. r = <<n, j>> /\ j \in Outputs(n[1])
    BY <2>1, <2>2 DEF OutReg
  <2>4. PICK b \in takes(s, n, j) : TRUE
    BY <2>1, <2>2
  <2>0. PICK p, h : p = s.bank[b] /\ h = height(n[1])
    OBVIOUS
  <2>5. /\ p \in Packet /\ h \in 0 .. Layers - 1 /\ b \in BankReg /\ b[1] = n
        /\ b = bankOf(p, h) /\ outOf(p, h) = <<n, j>> /\ <<n, j>> \in OutReg
        /\ takes(s, n, j) = {b} /\ ~ busy(s.out[<<n, j>>])
    BY <2>0, <2>3, <2>4, Taking
  <2>6. (CHOOSE x \in takes(s, n, j) : TRUE) = b
    BY <2>0, <2>5
  <2>7. t.out[r] = p
    BY <2>0, <2>1, <2>2, <2>5, <2>6
  <2>8. t.bank[b] = NoPkt
    BY <1>2, <2>3, <2>4, <2>5
  <2> QED
    BY <2>0, <2>1, <2>3, <2>5, <2>7, <2>8
<1>5. ASSUME NEW r \in BankReg, t.bank[r] # s.bank[r]
      PROVE  \E p \in Packet : \E h \in 0 .. Layers - 1 :
               /\ s.bank[r] = p /\ t.bank[r] = NoPkt
               /\ r = bankOf(p, h) /\ height(r[1][1]) = h
               /\ t.out[outOf(p, h)] = p
  <2>1. r[1] = n /\ t.bank[r] = NoPkt
    BY <1>2, <1>5
  <2>2. PICK j \in Outputs(n[1]) : r \in takes(s, n, j)
    BY <1>2, <1>5
  <2>0. PICK p, h : p = s.bank[r] /\ h = height(n[1])
    OBVIOUS
  <2>3. /\ p \in Packet /\ h \in 0 .. Layers - 1 /\ r \in BankReg /\ r[1] = n
        /\ r = bankOf(p, h) /\ outOf(p, h) = <<n, j>> /\ <<n, j>> \in OutReg
        /\ takes(s, n, j) = {r} /\ ~ busy(s.out[<<n, j>>])
    BY <2>0, <2>2, Taking
  <2>4. PICK o : o = <<n, j>>
    OBVIOUS
  <2>5. o \in OutReg /\ o[1] = n /\ o[2] = j
    BY <2>0, <2>3, <2>4
  <2>6. (CHOOSE x \in takes(s, n, j) : TRUE) = r
    BY <2>0, <2>3
  <2>7. t.out[o] = s.bank[CHOOSE x \in takes(s, n, j) : TRUE]
    <3>1. t.out[o] = IF o[1] = n /\ takes(s, n, o[2]) # {}
            THEN s.bank[CHOOSE x \in takes(s, n, o[2]) : TRUE] ELSE s.out[o]
      BY <1>2, <2>5
    <3>2. takes(s, n, o[2]) = takes(s, n, j) /\ takes(s, n, j) # {}
      BY <2>3, <2>5
    <3>3. t.out[o] = s.bank[CHOOSE x \in takes(s, n, o[2]) : TRUE]
      BY <2>5, <3>1, <3>2
    <3> QED
      BY <2>5, <3>3
  <2> QED
    BY <2>0, <2>1, <2>3, <2>4, <2>6, <2>7
<1>6. t \in NetState
  <2>1. \A r \in BankReg : t.bank[r] \in Packet \cup {NoPkt}
    BY <1>3, <1>5
  <2>2. \A r \in OutReg : t.out[r] \in Packet \cup {NoPkt}
    BY <1>3, <1>4
  <2>3. t.bank \in [BankReg -> Packet \cup {NoPkt}]
        /\ t.out \in [OutReg -> Packet \cup {NoPkt}]
    BY <1>2, <2>1, <2>2
  <2> QED
    BY <1>2, <2>3 DEF NetState
<1>7. Placed(t)
  <2>1. ASSUME NEW r \in BankReg, busy(t.bank[r])
        PROVE  r = bankOf(t.bank[r], height(r[1][1]))
    <3>1. t.bank[r] = s.bank[r]
      BY <1>5, <2>1 DEF busy
    <3> QED
      BY <2>1, <3>1 DEF Placed
  <2>2. ASSUME NEW r \in OutReg, busy(t.out[r])
        PROVE  r = outOf(t.out[r], height(r[1][1]))
    <3>1. CASE t.out[r] = s.out[r]
      BY <2>2, <3>1 DEF Placed
    <3>2. CASE t.out[r] # s.out[r]
      BY <1>4, <3>2
    <3> QED
      BY <3>1, <3>2
  <2> QED
    BY <2>1, <2>2 DEF Placed
<1>8. ASSUME NEW p \in Packet, NEW h \in 0 .. Layers - 1,
             t.bank[bankOf(p, h)] = p
      PROVE  s.bank[bankOf(p, h)] = p
  <2>1. bankOf(p, h) \in BankReg /\ p # NoPkt
    BY WayExists, BflyAssumption
  <2> QED
    BY <1>5, <1>8, <2>1
<1>9. ASSUME NEW p \in Packet, NEW h \in 0 .. Layers - 1,
             t.out[outOf(p, h)] = p, s.out[outOf(p, h)] # p
      PROVE  Holds(i, s, p, 2 * h + 1) /\ ~ Holds(i, t, p, 2 * h + 1)
  <2>1. outOf(p, h) \in OutReg /\ height(outOf(p, h)[1][1]) = h /\ p # NoPkt
    BY WayExists, BflyAssumption
  <2>2. s.bank[bankOf(p, h)] = p /\ t.bank[bankOf(p, h)] = NoPkt
    BY <1>4, <1>9, <2>1
  <2>3. Holds(i, s, p, 2 * h + 1)
    BY <2>2, BankPlace
  <2>4. ~ Holds(i, t, p, 2 * h + 1)
    BY <2>1, <2>2, BankPlace
  <2> QED
    BY <2>3, <2>4
<1>10. ASSUME NEW p \in Packet, NEW h \in 0 .. Layers - 1,
              s.bank[bankOf(p, h)] = p, t.bank[bankOf(p, h)] # p
       PROVE  Holds(i, t, p, 2 * h + 2)
  <2>1. bankOf(p, h) \in BankReg /\ height(bankOf(p, h)[1][1]) = h
    BY WayExists
  <2>2. t.out[outOf(p, h)] = p
    BY <1>5, <1>10, <2>1
  <2> QED
    BY <2>2, OutPlace
<1>11. ASSUME NEW p \in Packet, NEW h \in 0 .. Layers - 1,
              s.out[outOf(p, h)] = p
       PROVE  t.out[outOf(p, h)] = p
  <2>1. outOf(p, h) \in OutReg /\ busy(p)
    BY WayExists, Addresses
  <2> QED
    BY <1>4, <1>11, <2>1
<1>12. Moved(i, s, i, t)
  BY <1>8, <1>9, <1>10, <1>11, MovedByKind
<1> QED
  BY <1>6, <1>7, <1>12
----------------------------------------------------------------------------
(* Both loops of a node.                                                   *)
LEMMA NodeKeeps ==
  ASSUME NEW i, NEW s, Good(i, s), NEW n \in Nodes
  PROVE  /\ Good(i, node_clock(s, n))
         /\ Inside(i, node_clock(s, n)) = Inside(i, s)
<1>1. node_clock(s, n) = pull(push(s, n), n)
  BY DEF node_clock
<1>2. i \in InState /\ s \in NetState /\ Placed(s) /\ Ordered(i, s)
  BY DEF Good
<1>3. PICK u : u = push(s, n)
  OBVIOUS
<1>4. u \in NetState /\ Placed(u) /\ Moved(i, s, i, u)
  BY <1>2, <1>3, PushMoves
<1>5. Ordered(i, u) /\ Inside(i, u) = Inside(i, s)
  BY <1>2, <1>4, MovedKeeps
<1>6. PICK t : t = pull(u, n)
  OBVIOUS
<1>7. t \in NetState /\ Placed(t) /\ Moved(i, u, i, t)
  BY <1>4, <1>6, PullMoves
<1>8. Ordered(i, t) /\ Inside(i, t) = Inside(i, u)
  BY <1>5, <1>7, MovedKeeps
<1>9. node_clock(s, n) = t
  BY <1>1, <1>3, <1>6
<1> QED
  BY <1>2, <1>5, <1>7, <1>8, <1>9 DEF Good

(* The loop over the layers and their nodes does what it says. *)
LEMMA LoopRuns ==
  ASSUME NEW s
  PROVE  \E g : /\ g[0] = s
                /\ \A k \in 1 .. pow2[Layers] - 1 :
                     g[k] = node_clock(g[k - 1], nth(k))
                /\ clock_layers(s) = g[pow2[Layers] - 1]
<1> DEFINE P(g, n) ==
  g = [k \in 0 .. n |-> IF k = 0 THEN s ELSE node_clock(g[k - 1], nth(k))]
<1>1. ASSUME NEW n \in Nat
      PROVE  \E g : P(g, n)
  <2>1. PICK Bad : Bad = {k \in Nat : ~ \E g : P(g, k)}
    OBVIOUS
  <2> HIDE DEF P
  <2>2. SUFFICES ASSUME Bad # {}
                 PROVE  FALSE
    BY <2>1
  <2>3. PICK m \in Bad : \A k \in Bad : m <= k
    BY <2>1, <2>2, LeastOf
  <2>4. m # 0
    <3>1. P([k \in 0 .. 0 |-> s], 0)
      BY DEF P
    <3>2. \E g : P(g, 0)
      BY <3>1
    <3> QED
      BY <2>1, <3>2
  <2>5. m \in Nat
    BY <2>1
  <2>6. m - 1 \in Nat /\ ~ (m <= m - 1)
    BY <2>4, <2>5
  <2>7. m - 1 \notin Bad
    BY <2>3, <2>6
  <2>8. PICK g : P(g, m - 1)
    BY <2>1, <2>6, <2>7
  <2>9. PICK f : f = [k \in 0 .. m |->
          IF k = m THEN node_clock(g[m - 1], nth(m)) ELSE g[k]]
    OBVIOUS
  <2>10. P(f, m)
    BY <2>4, <2>5, <2>6, <2>8, <2>9 DEF P
  <2> QED
    BY <2>1, <2>10
<1>2. PICK N : N = pow2[Layers] - 1
  OBVIOUS
<1>3. N \in Nat
  BY <1>2, PowersPositive, BflyAssumption
<1>4. PICK g : g = CHOOSE f : P(f, N)
  OBVIOUS
<1>5. P(g, N)
  BY <1>1, <1>3, <1>4
<1>6. clock_layers(s) = g[N]
  BY <1>2, <1>4 DEF clock_layers
<1>7. g[0] = s /\ \A k \in 1 .. N : g[k] = node_clock(g[k - 1], nth(k))
  BY <1>3, <1>5
<1> QED
  BY <1>2, <1>6, <1>7

(* All nodes of all layers.                                                *)
LEMMA LayersKeep ==
  ASSUME NEW i, NEW s, Good(i, s)
  PROVE  Good(i, clock_layers(s)) /\ Inside(i, clock_layers(s)) = Inside(i, s)
<1>1. PICK g : /\ g[0] = s
               /\ \A k \in 1 .. pow2[Layers] - 1 :
                    g[k] = node_clock(g[k - 1], nth(k))
               /\ clock_layers(s) = g[pow2[Layers] - 1]
  BY LoopRuns
<1>2. PICK N : N = pow2[Layers] - 1
  OBVIOUS
<1>3. N \in Nat
  BY <1>2, PowersPositive, BflyAssumption
<1>4. PICK Bad : Bad = {k \in 0 .. N :
        ~ (Good(i, g[k]) /\ Inside(i, g[k]) = Inside(i, s))}
  OBVIOUS
<1>5. Bad = {}
  <2>1. SUFFICES ASSUME Bad # {}
                 PROVE  FALSE
    OBVIOUS
  <2>2. Bad \in SUBSET Nat
    BY <1>4
  <2>3. PICK m \in Bad : \A k \in Bad : m <= k
    BY <2>1, <2>2, LeastOf
  <2>4. m \in 0 .. N /\ m # 0
    BY <1>1, <1>4
  <2>5. m - 1 \in 0 .. N /\ m \in 1 .. N /\ ~ (m <= m - 1)
    BY <1>3, <2>4
  <2>6. Good(i, g[m - 1]) /\ Inside(i, g[m - 1]) = Inside(i, s)
    BY <1>4, <2>3, <2>5
  <2>7. nth(m) \in Nodes /\ g[m] = node_clock(g[m - 1], nth(m))
    BY <1>1, <1>2, <2>5, NthIsNode
  <2>8. /\ Good(i, node_clock(g[m - 1], nth(m)))
        /\ Inside(i, node_clock(g[m - 1], nth(m))) = Inside(i, g[m - 1])
    BY <2>6, <2>7, NodeKeeps
  <2> QED
    BY <1>4, <2>6, <2>7, <2>8
<1>6. N \in 0 .. N /\ N \notin Bad /\ clock_layers(s) = g[N]
  BY <1>1, <1>2, <1>3, <1>5
<1> QED
  BY <1>4, <1>6

----------------------------------------------------------------------------
(* What the inputs hold goes to the lowest layer where there is room: the  *)
(* last loop of fat_bfly_clock.                                            *)
Entered(i, s) == {e \in Elem : busy(i[e]) /\ ~ busy(s.bank[entry(e)])}
InputsAfter(i, s) == [e \in Elem |-> IF e \in Entered(i, s) THEN NoPkt ELSE i[e]]
NetAfter(i, s) ==
  [s EXCEPT !.bank = [r \in BankReg |->
     IF \E e \in Entered(i, s) : entry(e) = r
     THEN i[CHOOSE e \in Entered(i, s) : entry(e) = r] ELSE @[r]]]

(* No two elements share a register of the lowest layer. *)
LEMMA EntryOfOne ==
  ASSUME NEW d \in Elem, NEW e \in Elem, entry(d) = entry(e)
  PROVE  d = e
<1>1. d \in Nat /\ e \in Nat
  BY DEF Elem
<1>2. d \div 2 = e \div 2 /\ d % 2 = e % 2
  BY DEF entry
<1> QED
  BY <1>1, <1>2

(* A packet that enters is in the first register of its way. *)
LEMMA EnterMoves ==
  ASSUME NEW i \in InState, NEW s \in NetState, Placed(s)
  PROVE  /\ InputsAfter(i, s) \in InState /\ NetAfter(i, s) \in NetState
         /\ Placed(NetAfter(i, s))
         /\ Moved(i, s, InputsAfter(i, s), NetAfter(i, s))
<1>1. PICK j, t, E : /\ j = InputsAfter(i, s) /\ t = NetAfter(i, s)
                     /\ E = Entered(i, s)
  OBVIOUS
<1>2. /\ t.bank = [r \in BankReg |->
           IF \E e \in E : entry(e) = r
           THEN i[CHOOSE e \in E : entry(e) = r] ELSE s.bank[r]]
      /\ t.out = s.out /\ t = [bank |-> t.bank, out |-> t.out]
  BY <1>1 DEF NetAfter, NetState
<1>3. j = [e \in Elem |-> IF e \in E THEN NoPkt ELSE i[e]]
  BY <1>1 DEF InputsAfter
<1>4. s.bank \in [BankReg -> Packet \cup {NoPkt}]
      /\ s.out \in [OutReg -> Packet \cup {NoPkt}]
  BY DEF NetState
<1>5. ASSUME NEW e \in E
      PROVE  /\ e \in Elem /\ i[e] \in Packet /\ i[e].src = e /\ j[e] = NoPkt
             /\ entry(e) = bankOf(i[e], 0) /\ entry(e) \in BankReg
             /\ height(entry(e)[1][1]) = 0 /\ t.bank[entry(e)] = i[e]
             /\ ~ busy(s.bank[entry(e)]) /\ 0 \in 0 .. Layers - 1
  <2>1. e \in Elem /\ busy(i[e]) /\ ~ busy(s.bank[entry(e)])
    BY <1>1 DEF Entered
  <2>2. i[e] \in Packet /\ i[e].src = e
    BY <2>1 DEF InState, busy
  <2>3. entry(e) = bankOf(i[e], 0)
    BY <2>2, StartOfWay
  <2>4. 0 \in 0 .. Layers - 1
    BY BflyAssumption
  <2>5. entry(e) \in BankReg /\ height(entry(e)[1][1]) = 0
    BY <2>2, <2>3, <2>4, WayExists
  <2>6. \A d \in E : entry(d) = entry(e) => d = e
    BY <1>1, <2>1, EntryOfOne DEF Entered
  <2>7. (CHOOSE d \in E : entry(d) = entry(e)) = e
    BY <2>6
  <2>8. t.bank[entry(e)] = i[e]
    BY <1>2, <2>5, <2>7
  <2>9. j[e] = NoPkt
    BY <1>3, <2>1
  <2> QED
    BY <2>1, <2>2, <2>3, <2>4, <2>5, <2>8, <2>9
<1>6. ASSUME NEW r \in BankReg, t.bank[r] # s.bank[r]
      PROVE  \E e \in E : r = entry(e)
  BY <1>2, <1>6
<1>7. j \in InState
  <2>1. /\ \A e \in Elem : i[e] \in Packet \cup {NoPkt}
        /\ \A e \in Elem : busy(i[e]) => i[e].src = e
    BY Zenon DEF InState
  <2>2. \A e \in Elem : j[e] = i[e] \/ j[e] = NoPkt
    BY <1>3
  <2>3. j \in [Elem -> Packet \cup {NoPkt}]
    BY <1>3, <2>1
  <2>4. \A e \in Elem : busy(j[e]) => j[e].src = e
    BY <2>1, <2>2 DEF busy
  <2> QED
    BY <2>3, <2>4, Zenon DEF InState
<1>8. t \in NetState
  <2>1. \A r \in BankReg : t.bank[r] \in Packet \cup {NoPkt}
    BY <1>4, <1>5, <1>6
  <2>2. t.bank \in [BankReg -> Packet \cup {NoPkt}]
    BY <1>2, <2>1
  <2> QED
    BY <1>2, <1>4, <2>2 DEF NetState
<1>9. Placed(t)
  <2>1. ASSUME NEW r \in BankReg, busy(t.bank[r])
        PROVE  r = bankOf(t.bank[r], height(r[1][1]))
    <3>1. CASE t.bank[r] = s.bank[r]
      BY <2>1, <3>1 DEF Placed
    <3>2. CASE t.bank[r] # s.bank[r]
      BY <1>5, <1>6, <3>2
    <3> QED
      BY <3>1, <3>2
  <2>2. \A r \in OutReg : busy(t.out[r]) => r = outOf(t.out[r], height(r[1][1]))
    BY <1>2 DEF Placed
  <2> QED
    BY <2>1, <2>2 DEF Placed
<1>10. ASSUME NEW p \in Packet, j[p.src] = p
       PROVE  i[p.src] = p
  <2>1. p.src \in Elem /\ p # NoPkt
    BY Addresses, BflyAssumption
  <2> QED
    BY <1>3, <1>10, <2>1
<1>11. ASSUME NEW p \in Packet, i[p.src] = p, j[p.src] # p
       PROVE  Holds(j, t, p, 1)
  <2>1. p.src \in E
    BY <1>3, <1>11, Addresses
  <2>2. t.bank[bankOf(p, 0)] = p /\ 0 \in 0 .. Layers - 1
    BY <1>5, <1>11, <2>1
  <2>3. Holds(j, t, p, 2 * 0 + 1)
    BY <2>2, BankPlace
  <2> QED
    BY <2>3
<1>12. ASSUME NEW p \in Packet, NEW h \in 0 .. Layers - 1,
              t.bank[bankOf(p, h)] = p, s.bank[bankOf(p, h)] # p
       PROVE  Holds(i, s, p, 2 * h) /\ ~ Holds(j, t, p, 2 * h)
  <2>1. bankOf(p, h) \in BankReg /\ height(bankOf(p, h)[1][1]) = h
    BY WayExists
  <2>2. PICK e \in E : bankOf(p, h) = entry(e)
    BY <1>6, <1>12, <2>1
  <2>3. h = 0 /\ i[e] = p /\ p.src = e /\ j[e] = NoPkt
    BY <1>5, <1>12, <2>1, <2>2
  <2>4. p # NoPkt
    BY BflyAssumption
  <2>5. Holds(i, s, p, 0) /\ ~ Holds(j, t, p, 0)
    BY <2>3, <2>4, InPlace
  <2> QED
    BY <2>3, <2>5
<1>13. ASSUME NEW p \in Packet, NEW h \in 0 .. Layers - 1,
              s.bank[bankOf(p, h)] = p
       PROVE  t.bank[bankOf(p, h)] = p
  <2>1. bankOf(p, h) \in BankReg /\ busy(p)
    BY WayExists, Addresses
  <2>2. CASE t.bank[bankOf(p, h)] = s.bank[bankOf(p, h)]
    BY <1>13, <2>2
  <2>3. CASE t.bank[bankOf(p, h)] # s.bank[bankOf(p, h)]
    BY <1>5, <1>6, <1>13, <2>1, <2>3
  <2> QED
    BY <2>2, <2>3
<1>14. Moved(i, s, j, t)
  <2>1. \A p \in Packet : i[p.src] = p => j[p.src] = p \/ Holds(j, t, p, 1)
    BY <1>11
  <2>2. ASSUME NEW p \in Packet, NEW h \in 0 .. Layers - 1
        PROVE  /\ t.bank[bankOf(p, h)] = p /\ s.bank[bankOf(p, h)] # p =>
                    /\ Holds(i, s, p, 2 * h)
                    /\ ~ Holds(j, t, p, 2 * h)
               /\ t.out[outOf(p, h)] = p /\ s.out[outOf(p, h)] # p =>
                    /\ Holds(i, s, p, 2 * h + 1)
                    /\ ~ Holds(j, t, p, 2 * h + 1)
               /\ s.bank[bankOf(p, h)] = p /\ t.bank[bankOf(p, h)] # p =>
                    Holds(j, t, p, 2 * h + 2)
               /\ s.out[outOf(p, h)] = p /\ t.out[outOf(p, h)] # p =>
                    Holds(j, t, p, 2 * h + 3)
    <3>1. s.out[outOf(p, h)] = t.out[outOf(p, h)]
      BY <1>2
    <3> QED
      BY <1>12, <1>13, <3>1
  <2> QED
    BY <1>10, <2>1, <2>2, MovedByKind
<1> QED
  BY <1>1, <1>7, <1>8, <1>9, <1>14
----------------------------------------------------------------------------
(* What is at the root's output of an element is for that element.         *)
LEMMA AtRoot ==
  ASSUME NEW i, NEW s \in NetState, Placed(s), NEW e \in Elem
  PROVE  /\ <<root, e>> \in OutReg
         /\ busy(s.out[<<root, e>>]) =>
              /\ s.out[<<root, e>>] \in Packet /\ s.out[<<root, e>>].to = e
              /\ Holds(i, s, s.out[<<root, e>>], 2 * Layers)
<1>1. Layers \in Nat /\ Layers - 1 \in 0 .. Layers - 1 /\ 0 \in 0 .. Layers - 1
      /\ height(0) = Layers - 1 /\ (Layers - 1) + 1 = Layers
      /\ 2 * (Layers - 1) + 2 = 2 * Layers /\ Layers \in 0 .. Layers
  BY BflyAssumption DEF height
<1>2. root \in Nodes
  <2>1. pow2[Layers] \in Nat /\ pow2[Layers] >= 1 /\ pow2[0] = 1
    BY <1>1, Powers, PowersPositive
  <2>2. 0 \in Elem
    BY <2>1 DEF Elem
  <2> QED
    BY <1>1, <2>1, <2>2 DEF root, Nodes
<1>3. root[1] = 0
  BY DEF root
<1>4. e \in Outputs(root[1])
  BY <1>1, <1>3 DEF Outputs, Elem
<1>5. PICK r : r = <<root, e>>
  OBVIOUS
<1>6. r \in OutReg /\ r[1] = root /\ r[2] = e
  BY <1>2, <1>4, <1>5 DEF OutReg
<1>7. ASSUME busy(s.out[r])
      PROVE  s.out[r] \in Packet /\ s.out[r].to = e /\ Holds(i, s, s.out[r], 2 * Layers)
  <2>1. PICK p : p = s.out[r]
    OBVIOUS
  <2>2. p \in Packet /\ r = outOf(p, Layers - 1)
    BY <1>1, <1>3, <1>6, <1>7, <2>1, PacketInOut
  <2>3. outOf(p, Layers - 1) = <<root, p.to>>
    BY <2>2, EndOfWay
  <2>4. p.to = e
    BY <1>5, <2>2, <2>3
  <2>5. Holds(i, s, p, 2 * (Layers - 1) + 2)
    BY <1>1, <2>1, <2>2, OutPlace
  <2> QED
    BY <1>1, <2>1, <2>2, <2>4, <2>5
<1> QED
  BY <1>5, <1>6, <1>7

(* What leaves at the root is gone, and nothing else is: the first loop of *)
(* fat_bfly_clock.                                                         *)
Drained(s, A) ==
  [s EXCEPT !.out = [r \in OutReg |->
     IF r[1] = root /\ r[2] \in A THEN NoPkt ELSE @[r]]]

(* The emptied root. *)
LEMMA DrainKeeps ==
  ASSUME NEW i, NEW s, Good(i, s), NEW A \in SUBSET Elem,
         \A e \in A : busy(s.out[<<root, e>>])
  PROVE  /\ Good(i, Drained(s, A))
         /\ Inside(i, Drained(s, A))
              = Inside(i, s) \ {s.out[<<root, e>>] : e \in A}
<1>1. i \in InState /\ s \in NetState /\ Placed(s) /\ Ordered(i, s)
  BY DEF Good
<1>2. PICK t, P : t = Drained(s, A) /\ P = {s.out[<<root, e>>] : e \in A}
  OBVIOUS
<1>3. /\ s.bank \in [BankReg -> Packet \cup {NoPkt}]
      /\ s.out \in [OutReg -> Packet \cup {NoPkt}]
  BY <1>1 DEF NetState
<1>4. /\ t.out = [r \in OutReg |->
           IF r[1] = root /\ r[2] \in A THEN NoPkt ELSE s.out[r]]
      /\ t.bank = s.bank /\ t = [bank |-> t.bank, out |-> t.out]
  BY <1>1, <1>2 DEF Drained, NetState
<1>5. /\ \A r \in OutReg : t.out[r] = s.out[r] \/ t.out[r] = NoPkt
      /\ t.bank = s.bank
  BY <1>4
<1>6. t \in NetState
  <2>1. t.out \in [OutReg -> Packet \cup {NoPkt}]
    BY <1>3, <1>4
  <2> QED
    BY <1>3, <1>4, <2>1 DEF NetState
<1>7. Placed(t)
  BY <1>1, <1>4, <1>5 DEF Placed, busy
<1>8. ASSUME NEW p \in Packet, NEW k \in Nat, Holds(i, t, p, k)
      PROVE  Holds(i, s, p, k)
  <2>1. ASSUME NEW h \in 0 .. Layers - 1, t.out[outOf(p, h)] = p
        PROVE  s.out[outOf(p, h)] = p
    <3>1. outOf(p, h) \in OutReg /\ p # NoPkt
      BY WayExists, BflyAssumption
    <3> QED
      BY <1>5, <2>1, <3>1
  <2> QED
    BY <1>5, <1>8, <2>1 DEF Holds
<1>9. Ordered(i, t)
  <2> SUFFICES ASSUME NEW p \in Packet, NEW q \in Packet, NEW a \in Nat, NEW b \in Nat,
                      p.src = q.src, p.to = q.to, a < b,
                      Holds(i, t, p, a), Holds(i, t, q, b)
               PROVE  q.id < p.id
    BY DEF Ordered
  <2>1. Holds(i, s, p, a) /\ Holds(i, s, q, b)
    BY <1>8
  <2> QED
    BY <1>1, <2>1 DEF Ordered
<1>10. ASSUME NEW p \in Packet, NEW k \in Nat, Holds(i, s, p, k), ~ Holds(i, t, p, k)
       PROVE  p \in P
  <2>1. PICK h \in 0 .. Layers - 1 : s.out[outOf(p, h)] = p /\ t.out[outOf(p, h)] # p
    BY <1>5, <1>10 DEF Holds
  <2>2. PICK r : r = outOf(p, h)
    OBVIOUS
  <2>3. r \in OutReg
    BY <2>2, WayExists
  <2>4. r[1] = root /\ r[2] \in A
    BY <1>4, <2>1, <2>2, <2>3
  <2>5. r = <<root, r[2]>>
    BY <2>2, <2>4 DEF outOf
  <2> QED
    BY <1>2, <2>1, <2>2, <2>4, <2>5
<1>11. ASSUME NEW p \in P
       PROVE  p \in Packet /\ ~ \E k \in Nat : Holds(i, t, p, k)
  <2>1. PICK e \in A : p = s.out[<<root, e>>]
    BY <1>2
  <2>2. /\ <<root, e>> \in OutReg /\ p \in Packet /\ p.to = e
        /\ Holds(i, s, p, 2 * Layers)
    BY <1>1, <2>1, AtRoot
  <2>3. ASSUME NEW k \in Nat, Holds(i, t, p, k)
        PROVE  FALSE
    <3>1. Holds(i, s, p, k) /\ k <= 2 * Layers
      BY <1>8, <2>2, <2>3, LastPlace
    <3>2. Layers \in Nat /\ 2 * Layers \in Nat
      BY BflyAssumption
    <3>3. CASE k < 2 * Layers
      <4>1. p.id < p.id /\ p.id \in Nat
        BY <1>1, <2>2, <3>1, <3>2, <3>3, Addresses DEF Ordered
      <4> QED
        BY <4>1
    <3>4. CASE k = 2 * Layers
      <4>1. Layers - 1 \in 0 .. Layers - 1 /\ 2 * (Layers - 1) + 2 = k
        BY <3>2, <3>4, BflyAssumption
      <4>2. Holds(i, t, p, 2 * (Layers - 1) + 2)
        BY <2>3, <4>1
      <4>3. t.out[outOf(p, Layers - 1)] = p
        BY <4>1, <4>2, OutPlace
      <4>4. outOf(p, Layers - 1) = <<root, e>>
        BY <2>2, EndOfWay
      <4>5. t.out[<<root, e>>] = NoPkt
        <5>1. PICK r : r = <<root, e>>
          OBVIOUS
        <5>2. r \in OutReg /\ r[1] = root /\ r[2] \in A
          BY <2>1, <2>2, <5>1
        <5> QED
          BY <1>4, <5>1, <5>2
      <4>6. p # NoPkt
        BY <2>2, BflyAssumption
      <4> QED
        BY <4>3, <4>4, <4>5, <4>6
    <3> QED
      BY <3>1, <3>2, <3>3, <3>4
  <2> QED
    BY <2>2, <2>3
<1>12. Inside(i, t) = Inside(i, s) \ P
  <2>1. ASSUME NEW p \in Inside(i, t)
        PROVE  p \in Inside(i, s) \ P
    BY <1>8, <1>11, <2>1 DEF Inside
  <2>2. ASSUME NEW p \in Inside(i, s), p \notin P
        PROVE  p \in Inside(i, t)
    BY <1>10, <2>2 DEF Inside
  <2> QED
    BY <2>1, <2>2
<1> QED
  BY <1>1, <1>2, <1>6, <1>7, <1>9, <1>12 DEF Good

----------------------------------------------------------------------------
(* Every packet in the butterfly is in a register of its way, the older of *)
(* a flow the further, and ids are given out in order.                     *)
BflyInv ==
  /\ Good(in, net)
  /\ rx \in [Endpoint -> Packet \cup {NoPkt}]
  /\ count \in [Endpoint -> Nat]
  /\ \A p \in Inside(in, net) : p.id < count[p.src]

(* What is in a register is on its way.                                    *)
LEMMA InFlightIsInside == BflyInv => InFlight = Inside(in, net)
<1> SUFFICES ASSUME BflyInv
             PROVE  InFlight = Inside(in, net)
  OBVIOUS
<1>1. in \in InState /\ net \in NetState /\ Placed(net)
  BY DEF BflyInv, Good
<1>2. ASSUME NEW e \in Elem, in[e] # NoPkt
      PROVE  in[e] \in Inside(in, net)
  <2>1. \A x \in Elem : in[x] \in Packet \cup {NoPkt}
    BY <1>1, Zenon DEF InState
  <2>2. \A x \in Elem : busy(in[x]) => in[x].src = x
    BY <1>1, Zenon DEF InState
  <2>3. PICK p : p = in[e]
    OBVIOUS
  <2>4. p \in Packet /\ p.src = e
    BY <1>2, <2>1, <2>2, <2>3 DEF busy
  <2>5. Holds(in, net, p, 0)
    BY <2>3, <2>4, InPlace
  <2> QED
    BY <2>3, <2>4, <2>5 DEF Inside
<1>3. ASSUME NEW r \in BankReg, net.bank[r] # NoPkt
      PROVE  net.bank[r] \in Inside(in, net)
  <2>1. PICK p, h : p = net.bank[r] /\ h = height(r[1][1])
    OBVIOUS
  <2>2. p \in Packet /\ h \in 0 .. Layers - 1 /\ r = bankOf(p, h)
    BY <1>1, <1>3, <2>1, PacketInBank DEF busy
  <2>3. net.bank[bankOf(p, h)] = p
    BY <2>1, <2>2
  <2>4. Holds(in, net, p, 2 * h + 1) /\ 2 * h + 1 \in Nat
    BY <2>2, <2>3, BankPlace, BflyAssumption
  <2> QED
    BY <2>1, <2>2, <2>4 DEF Inside
<1>4. ASSUME NEW r \in OutReg, net.out[r] # NoPkt
      PROVE  net.out[r] \in Inside(in, net)
  <2>1. PICK p, h : p = net.out[r] /\ h = height(r[1][1])
    OBVIOUS
  <2>2. p \in Packet /\ h \in 0 .. Layers - 1 /\ r = outOf(p, h)
    BY <1>1, <1>4, <2>1, PacketInOut DEF busy
  <2>3. net.out[outOf(p, h)] = p
    BY <2>1, <2>2
  <2>4. Holds(in, net, p, 2 * h + 2) /\ 2 * h + 2 \in Nat
    BY <2>2, <2>3, OutPlace, BflyAssumption
  <2> QED
    BY <2>1, <2>2, <2>4 DEF Inside
<1>5. ASSUME NEW p \in Inside(in, net)
      PROVE  p \in InFlight
  <2>1. p \in Packet /\ p # NoPkt /\ p.src \in Elem
    BY Addresses, BflyAssumption DEF Inside
  <2>2. PICK k \in Nat : Holds(in, net, p, k)
    BY DEF Inside
  <2>3. \A h \in 0 .. Layers - 1 : bankOf(p, h) \in BankReg /\ outOf(p, h) \in OutReg
    BY <2>1, WayExists
  <2> QED
    BY <2>1, <2>2, <2>3 DEF Holds, InFlight
<1>6. InFlight \subseteq Inside(in, net)
  BY <1>2, <1>3, <1>4 DEF InFlight
<1> QED
  BY <1>5, <1>6
(* What the elements take in a clock. *)
Accepted == {e \in Elem : busy(net.out[<<root, e>>]) /\ ~ busy(rx[e])}
Arrived == {net.out[<<root, e>>] : e \in Accepted}

(* The three loops of a clock, named.                                      *)
LEMMA ClockLoops ==
  ASSUME fat_bfly_clock
  PROVE  \E s : /\ s = clock_layers(Drained(net, Accepted))
                /\ net' = NetAfter(in, s) /\ in' = InputsAfter(in, s)
                /\ rx' = [e \in Endpoint |->
                     IF e \in Accepted THEN net.out[<<root, e>>] ELSE rx[e]]
                /\ count' = count
BY Zenon DEF fat_bfly_clock, Drained, NetAfter, InputsAfter, Entered, Accepted

(* A clock keeps all that is inside except for what arrives.               *)
LEMMA ClockKeeps ==
  ASSUME BflyInv, fat_bfly_clock
  PROVE  /\ BflyInv'
         /\ Inside(in, net)' = Inside(in, net) \ Arrived
         /\ rx' = [e \in Endpoint |->
              IF e \in Accepted THEN net.out[<<root, e>>] ELSE rx[e]]
         /\ count' = count
<1>1. PICK s : /\ s = clock_layers(Drained(net, Accepted))
               /\ net' = NetAfter(in, s) /\ in' = InputsAfter(in, s)
               /\ rx' = [e \in Endpoint |->
                    IF e \in Accepted THEN net.out[<<root, e>>] ELSE rx[e]]
               /\ count' = count
  BY ClockLoops
<1>2. Good(in, net) /\ net \in NetState /\ Placed(net)
  BY DEF BflyInv, Good
<1>3. PICK d : d = Drained(net, Accepted)
  OBVIOUS
<1>4. Accepted \in SUBSET Elem /\ \A e \in Accepted : busy(net.out[<<root, e>>])
  BY DEF Accepted
<1>5. Good(in, d) /\ Inside(in, d) = Inside(in, net) \ Arrived
  BY <1>2, <1>3, <1>4, DrainKeeps DEF Arrived
<1>6. Good(in, s) /\ Inside(in, s) = Inside(in, d)
  BY <1>1, <1>3, <1>5, LayersKeep
<1>7. in \in InState /\ s \in NetState /\ Placed(s) /\ Ordered(in, s)
  BY <1>6 DEF Good
<1>8. PICK j, t : j = InputsAfter(in, s) /\ t = NetAfter(in, s)
  OBVIOUS
<1>9. j \in InState /\ t \in NetState /\ Placed(t) /\ Moved(in, s, j, t)
  BY <1>7, <1>8, EnterMoves
<1>10. Ordered(j, t) /\ Inside(j, t) = Inside(in, s)
  BY <1>7, <1>9, MovedKeeps
<1>11. in' = j /\ net' = t
  BY <1>1, <1>8
<1>12. Inside(in, net)' = Inside(j, t)
  BY <1>11 DEF Inside, Holds
<1>13. Inside(in, net)' = Inside(in, net) \ Arrived
  BY <1>5, <1>6, <1>10, <1>12
<1>14. Good(in, net)'
  <2>1. Good(j, t)
    BY <1>9, <1>10 DEF Good
  <2> QED
    BY <1>11, <2>1 DEF Good, Placed, Ordered, Holds
<1>15. (rx \in [Endpoint -> Packet \cup {NoPkt}])'
  <2>1. \A e \in Accepted : net.out[<<root, e>>] \in Packet
    BY <1>2, <1>4, AtRoot
  <2> QED
    BY <1>1, <2>1 DEF BflyInv
<1>16. \A p \in Inside(in, net)' : p.id < count'[p.src]
  BY <1>1, <1>13 DEF BflyInv
<1>17. count' \in [Endpoint -> Nat]
  BY <1>1 DEF BflyInv
<1> QED
  BY <1>1, <1>13, <1>14, <1>15, <1>16, <1>17 DEF BflyInv

(* A sending adds the next packet of its element.                          *)
LEMMA SendKeeps ==
  ASSUME BflyInv, NEW f \in Flows, fat_bfly_receive(f[1], f[2])
  PROVE  /\ BflyInv'
         /\ Inside(in, net)' = Inside(in, net)
              \cup {[src |-> f[1], to |-> f[2], id |-> count[f[1]]]}
<1>1. PICK p : p = [src |-> f[1], to |-> f[2], id |-> count[f[1]]]
  OBVIOUS
<1>2. f[1] \in Endpoint /\ f[2] \in Endpoint
  BY DEF Endpoint
<1>3. count \in [Endpoint -> Nat] /\ \A q \in Inside(in, net) : q.id < count[q.src]
  BY DEF BflyInv
<1>4. p \in Packet /\ p.src = f[1] /\ p.to = f[2] /\ p.id = count[f[1]]
  BY <1>1, <1>2, <1>3 DEF Packet
<1>5. p # NoPkt /\ p.src \in Elem
  BY <1>4, Addresses, BflyAssumption
<1>6. /\ in[p.src] = NoPkt /\ in' = [in EXCEPT ![p.src] = p]
      /\ net' = net /\ rx' = rx /\ count' = [count EXCEPT ![p.src] = @ + 1]
  BY <1>1, <1>4 DEF fat_bfly_receive, busy
<1>7. in \in InState /\ net \in NetState /\ Placed(net) /\ Ordered(in, net)
  BY DEF BflyInv, Good
<1>8. /\ in \in [Elem -> Packet \cup {NoPkt}]
      /\ \A e \in Elem : busy(in[e]) => in[e].src = e
  BY <1>7, Zenon DEF InState
<1>9. PICK j : j = in'
  OBVIOUS
<1>10. j = [in EXCEPT ![p.src] = p]
  BY <1>6, <1>9
<1>11. j \in InState
  <2>1. j \in [Elem -> Packet \cup {NoPkt}]
    BY <1>4, <1>5, <1>8, <1>10
  <2>2. \A e \in Elem : j[e] = IF e = p.src THEN p ELSE in[e]
    BY <1>8, <1>10
  <2>3. \A e \in Elem : busy(j[e]) => j[e].src = e
    BY <1>8, <2>2
  <2> QED
    BY <2>1, <2>3, Zenon DEF InState
<1>12. j[p.src] = p
  BY <1>5, <1>8, <1>10
<1>13. ASSUME NEW q \in Packet, NEW k \in Nat
       PROVE  Holds(j, net, q, k) <=> Holds(in, net, q, k) \/ (q = p /\ k = 0)
  <2>1. q.src \in Elem /\ q # NoPkt
    BY Addresses, BflyAssumption
  <2>2. j[q.src] = IF q.src = p.src THEN p ELSE in[q.src]
    BY <1>8, <1>10, <2>1
  <2>3. j[q.src] = q <=> in[q.src] = q \/ q = p
    BY <1>6, <2>1, <2>2
  <2> QED
    BY <2>3 DEF Holds
<1>14. ASSUME NEW q \in Packet, NEW k \in Nat, Holds(in, net, q, k), q.src = p.src
       PROVE  q.id < p.id
  <2>1. q \in Inside(in, net)
    BY <1>14 DEF Inside
  <2> QED
    BY <1>3, <1>4, <1>14, <2>1
<1>15. Ordered(j, net)
  <2> SUFFICES ASSUME NEW q \in Packet, NEW r \in Packet, NEW a \in Nat, NEW b \in Nat,
                      q.src = r.src, q.to = r.to, a < b,
                      Holds(j, net, q, a), Holds(j, net, r, b)
               PROVE  r.id < q.id
    BY DEF Ordered
  <2>1. Holds(in, net, r, b)
    BY <1>13
  <2>2. CASE Holds(in, net, q, a)
    BY <1>7, <2>1, <2>2 DEF Ordered
  <2>3. CASE q = p
    BY <1>14, <2>1, <2>3
  <2> QED
    BY <1>13, <2>2, <2>3
<1>16. Inside(j, net) = Inside(in, net) \cup {p}
  <2>1. Holds(j, net, p, 0)
    BY <1>12, InPlace
  <2> QED
    BY <1>4, <1>13, <2>1 DEF Inside
<1>17. Inside(in, net)' = Inside(j, net)
  BY <1>6, <1>9 DEF Inside, Holds
<1>18. Good(in, net)'
  <2>1. Good(j, net)
    BY <1>7, <1>11, <1>15 DEF Good
  <2> QED
    BY <1>6, <1>9, <2>1 DEF Good, Placed, Ordered, Holds
<1>19. count' \in [Endpoint -> Nat] /\ \A q \in Inside(in, net)' : q.id < count'[q.src]
  <2>1. ASSUME NEW q \in Inside(in, net)
        PROVE  q.src \in Endpoint /\ q.id \in Nat /\ q.id < count[q.src]
    BY <1>3, Addresses DEF Inside
  <2>2. \A e \in Endpoint : count'[e] = IF e = p.src THEN count[e] + 1 ELSE count[e]
    BY <1>3, <1>6
  <2>3. p.src \in Endpoint /\ p.id \in Nat
    BY <1>4, Addresses
  <2>4. \A q \in Inside(in, net) \cup {p} : q.id < count'[q.src]
    BY <1>3, <1>4, <2>1, <2>2, <2>3
  <2>5. count' \in [Endpoint -> Nat]
    BY <1>3, <1>6, <2>3
  <2> QED
    BY <1>16, <1>17, <2>4, <2>5
<1> QED
  BY <1>1, <1>6, <1>16, <1>17, <1>18, <1>19 DEF BflyInv

(* An element that is done changes nothing of the butterfly.               *)
LEMMA ConsumeKeeps ==
  ASSUME BflyInv, NEW e \in Endpoint, Consume(e)
  PROVE  BflyInv' /\ Inside(in, net)' = Inside(in, net)
<1>1. in' = in /\ net' = net /\ count' = count /\ rx' = [rx EXCEPT ![e] = NoPkt]
  BY DEF Consume
<1>2. Inside(in, net)' = Inside(in, net)
  BY <1>1 DEF Inside, Holds
<1>3. Good(in, net)'
  BY <1>1 DEF BflyInv, Good, Placed, Ordered, Holds
<1>4. rx' \in [Endpoint -> Packet \cup {NoPkt}]
  BY <1>1 DEF BflyInv
<1> QED
  BY <1>1, <1>2, <1>3, <1>4 DEF BflyInv

----------------------------------------------------------------------------
(* What the registers of a butterfly of any height hold.                   *)
THEOREM BflyCorrect == Spec => []BflyInv
<1>1. Init => BflyInv
  <2> SUFFICES ASSUME Init
               PROVE  BflyInv
    OBVIOUS
  <2>1. ASSUME NEW p \in Packet, NEW k \in Nat
        PROVE  ~ Holds(in, net, p, k)
    <3>1. p.src \in Elem /\ p # NoPkt
      BY Addresses, BflyAssumption
    <3>2. in[p.src] = NoPkt
      BY <3>1 DEF Init
    <3>3. ASSUME NEW h \in 0 .. Layers - 1
          PROVE  net.bank[bankOf(p, h)] = NoPkt /\ net.out[outOf(p, h)] = NoPkt
      <4>1. bankOf(p, h) \in BankReg /\ outOf(p, h) \in OutReg
        BY WayExists
      <4> QED
        BY <4>1 DEF Init
    <3> QED
      BY <3>1, <3>2, <3>3 DEF Holds
  <2>2. Inside(in, net) = {} /\ Ordered(in, net)
    BY <2>1 DEF Inside, Ordered
  <2>3. in \in InState
    <3>1. in \in [Elem -> Packet \cup {NoPkt}] /\ \A e \in Elem : ~ busy(in[e])
      BY DEF Init, busy
    <3> QED
      BY <3>1, Zenon DEF InState
  <2>4. net \in NetState /\ Placed(net)
    BY DEF Init, NetState, Placed, busy
  <2> QED
    BY <2>2, <2>3, <2>4 DEF Init, BflyInv, Good
<1>2. BflyInv /\ [Next]_vars => BflyInv'
  <2> SUFFICES ASSUME BflyInv, [Next]_vars
               PROVE  BflyInv'
    OBVIOUS
  <2>1. CASE fat_bfly_clock
    BY <2>1, ClockKeeps
  <2>2. ASSUME NEW f \in Flows, fat_bfly_receive(f[1], f[2])
        PROVE  BflyInv'
    BY <2>2, SendKeeps
  <2>3. ASSUME NEW e \in Endpoint, Consume(e)
        PROVE  BflyInv'
    BY <2>3, ConsumeKeeps
  <2>4. CASE UNCHANGED vars
    BY <2>4 DEF vars, BflyInv, Good, Placed, Ordered, Inside, Holds
  <2> QED
    BY <2>1, <2>2, <2>3, <2>4 DEF Next
<1> QED
  BY <1>1, <1>2, PTL DEF Spec

(* The assertion of fat_bfly_clock never fails (fat_bfly.c:153): the bits  *)
(* of the address have chosen the output of the packet's element.          *)
THEOREM BflySorted == Spec => []SortedAtRoot
<1>1. BflyInv => SortedAtRoot
  <2> SUFFICES ASSUME BflyInv, NEW e \in Elem, busy(net.out[<<root, e>>])
               PROVE  net.out[<<root, e>>].to = e
    BY DEF SortedAtRoot
  <2>1. net \in NetState /\ Placed(net)
    BY DEF BflyInv, Good
  <2> QED
    BY <2>1, AtRoot
<1> QED
  BY <1>1, BflyCorrect, PTL

(* What arrives in a clock is the oldest of its flow, one per element that *)
(* is free: a delivery of the network.                                     *)
LEMMA ClockDelivers ==
  ASSUME BflyInv, fat_bfly_clock, Arrived # {}
  PROVE  Promised!Deliver
<1>1. /\ BflyInv' /\ Inside(in, net)' = Inside(in, net) \ Arrived
      /\ rx' = [e \in Endpoint |->
           IF e \in Accepted THEN net.out[<<root, e>>] ELSE rx[e]]
      /\ count' = count
  BY ClockKeeps
<1>2. InFlight = Inside(in, net)
  BY InFlightIsInside
<1>3. InFlight' = Inside(in, net)'
  <2>1. BflyInv'
    BY <1>1
  <2>2. (InFlight = Inside(in, net))'
    BY <2>1, InFlightIsInside, PTL
  <2> QED
    BY <2>2
<1>4. net \in NetState /\ Placed(net) /\ Ordered(in, net)
  BY DEF BflyInv, Good
<1>5. ASSUME NEW e \in Accepted
      PROVE  /\ net.out[<<root, e>>] \in Packet /\ net.out[<<root, e>>].to = e
             /\ Holds(in, net, net.out[<<root, e>>], 2 * Layers)
             /\ rx[e] = NoPkt
  <2>1. e \in Elem /\ busy(net.out[<<root, e>>]) /\ ~ busy(rx[e])
    BY DEF Accepted
  <2> QED
    BY <1>4, <2>1, AtRoot DEF busy
<1>6. ASSUME NEW p \in Arrived
      PROVE  /\ p \in Packet /\ p.to \in Accepted /\ p = net.out[<<root, p.to>>]
             /\ Holds(in, net, p, 2 * Layers) /\ rx[p.to] = NoPkt
  BY <1>5 DEF Arrived
<1>7. 2 * Layers \in Nat
  BY BflyAssumption
<1>8. Arrived \subseteq Inside(in, net)
  BY <1>6, <1>7 DEF Inside
<1>9. InFlight \ InFlight' = Arrived /\ InFlight' \subseteq InFlight
  BY <1>1, <1>2, <1>3, <1>8
<1>10. ASSUME NEW p \in Arrived
       PROVE  Promised!deliverable(p, InFlight)
  <2>1. ASSUME NEW q \in InFlight, q.src = p.src, q.to = p.to
        PROVE  p.id <= q.id
    <3>1. q \in Packet /\ \E k \in Nat : Holds(in, net, q, k)
      BY <1>2 DEF Inside
    <3>2. PICK k \in Nat : Holds(in, net, q, k)
      BY <3>1
    <3>3. k <= 2 * Layers
      BY <3>2, LastPlace
    <3>4. p.id \in Nat /\ q.id \in Nat
      BY <1>6, <3>1, Addresses
    <3>5. CASE k = 2 * Layers
      <4>1. Holds(in, net, q, 2 * Layers)
        BY <3>2, <3>5
      <4>2. p = q
        BY <1>6, <1>7, <2>1, <3>1, <4>1, OnePerPlace
      <4> QED
        BY <3>4, <4>2
    <3>6. CASE k < 2 * Layers
      <4>1. p.id < q.id
        BY <1>4, <1>6, <1>7, <2>1, <3>1, <3>2, <3>6 DEF Ordered
      <4> QED
        BY <3>4, <4>1
    <3> QED
      BY <1>7, <3>3, <3>5, <3>6
  <2> QED
    BY <1>6, <2>1 DEF Promised!deliverable
<1>11. \A p, q \in Arrived : p.to = q.to => p = q
  BY <1>6
<1>12. ASSUME NEW e \in Endpoint
       PROVE  (IF e \in Accepted THEN net.out[<<root, e>>] ELSE rx[e])
                = IF \E p \in Arrived : p.to = e
                  THEN CHOOSE p \in Arrived : p.to = e ELSE rx[e]
  <2>1. CASE e \in Accepted
    <3>1. net.out[<<root, e>>] \in Arrived /\ net.out[<<root, e>>].to = e
      BY <1>5, <2>1 DEF Arrived
    <3>2. (CHOOSE p \in Arrived : p.to = e) = net.out[<<root, e>>]
      BY <1>11, <3>1
    <3> QED
      BY <2>1, <3>1, <3>2
  <2>2. CASE e \notin Accepted
    <3>1. ~ \E p \in Arrived : p.to = e
      BY <1>6, <2>2
    <3> QED
      BY <2>2, <3>1
  <2> QED
    BY <2>1, <2>2
<1>13. rx' = [e \in Endpoint |-> IF \E p \in Arrived : p.to = e
                                 THEN CHOOSE p \in Arrived : p.to = e ELSE rx[e]]
  BY <1>1, <1>12
<1>14. Promised!Endpoint = Endpoint
  BY DEF Promised!Endpoint, Endpoint
<1> QED
  BY <1>1, <1>9, <1>10, <1>11, <1>13, <1>14 DEF Promised!Deliver

(* The butterfly implements the network: every step is a sending, a        *)
(* delivery of what is at the root, an element that is done, or nothing.   *)
THEOREM BflyIsNetwork == Spec => ImplementsNetwork
<1> DEFINE pvars == <<InFlight, rx, count>>
<1>1. Init /\ BflyInv => Promised!Init
  <2> SUFFICES ASSUME Init, BflyInv
               PROVE  Promised!Init
    OBVIOUS
  <2>1. InFlight = {}
    BY DEF Init, InFlight
  <2> QED
    BY <2>1 DEF Init, Promised!Init, Promised!Endpoint, Endpoint
<1>2. BflyInv /\ BflyInv' /\ [Next]_vars => [Promised!Next]_pvars
  <2> SUFFICES ASSUME BflyInv, BflyInv', [Next]_vars
               PROVE  Promised!Next \/ UNCHANGED pvars
    OBVIOUS
  <2>1. InFlight = Inside(in, net)
    BY InFlightIsInside
  <2>2. InFlight' = Inside(in, net)'
    <3>1. (InFlight = Inside(in, net))'
      BY InFlightIsInside, PTL
    <3> QED
      BY <3>1
  <2>3. Promised!Endpoint = Endpoint
    BY DEF Promised!Endpoint, Endpoint
  <2>4. CASE fat_bfly_clock
    <3>1. CASE Arrived # {}
      BY <2>4, <3>1, ClockDelivers DEF Promised!Next
    <3>2. CASE Arrived = {}
      <4>1. Accepted = {}
        BY <3>2 DEF Arrived
      <4>2. /\ Inside(in, net)' = Inside(in, net)
            /\ rx' = [e \in Endpoint |-> rx[e]] /\ count' = count
        BY <2>4, <3>2, <4>1, ClockKeeps
      <4>3. rx' = rx
        BY <4>2 DEF BflyInv
      <4> QED
        BY <2>1, <2>2, <4>2, <4>3
    <3> QED
      BY <3>1, <3>2
  <2>5. ASSUME NEW f \in Flows, fat_bfly_receive(f[1], f[2])
        PROVE  Promised!Next
    <3>1. InFlight' = InFlight
                        \cup {[src |-> f[1], to |-> f[2], id |-> count[f[1]]]}
      BY <2>1, <2>2, <2>5, SendKeeps
    <3>2. /\ count[f[1]] < MaxSend[f[1]]
          /\ count' = [count EXCEPT ![f[1]] = @ + 1] /\ rx' = rx
      BY <2>5 DEF fat_bfly_receive
    <3>3. <<f[1], f[2]>> \in Flows
      BY BflyAssumption
    <3>4. Promised!Send(f[1], f[2])
      BY <3>1, <3>2, <3>3 DEF Promised!Send
    <3> QED
      BY <3>4 DEF Promised!Next
  <2>6. ASSUME NEW e \in Endpoint, Consume(e)
        PROVE  Promised!Next
    <3>1. InFlight' = InFlight /\ count' = count
      BY <2>1, <2>2, <2>6, ConsumeKeeps DEF Consume
    <3>2. rx[e] # NoPkt /\ rx' = [rx EXCEPT ![e] = NoPkt]
      BY <2>6 DEF Consume, busy
    <3>3. Promised!Consume(e)
      BY <3>1, <3>2 DEF Promised!Consume
    <3> QED
      BY <2>3, <3>3 DEF Promised!Next
  <2>7. CASE UNCHANGED vars
    BY <2>7 DEF vars, InFlight
  <2> QED
    BY <2>4, <2>5, <2>6, <2>7 DEF Next
<1> QED
  BY <1>1, <1>2, BflyCorrect, PTL DEF Spec, ImplementsNetwork, Promised!Spec

----------------------------------------------------------------------------
(* Elements exchange packets, NoPkt is none, and none finds an element     *)
(* busy: the conditions of the theorems.                                   *)
PromptElements ==
  /\ Prompt
  /\ \A f \in NocFlows : f = <<f[1], f[2]>>
  /\ Noc!Endpoint \subseteq Attached
  /\ NoPkt \notin Noc!Packet \cup Noc!Promised!Packet

(* Nothing waits at an output, and what waits at an input is for the       *)
(* element the register belongs to.                                        *)
NocInv ==
  /\ in \in [Attached -> Noc!Packet \cup {NoPkt}]
  /\ \A e \in Attached : in[e] # NoPkt => in[e].to = e
  /\ out = [e \in Attached |-> NoPkt]
  /\ counter \in Nat
  /\ rx \in [Noc!Endpoint -> Noc!Packet \cup {NoPkt}]
  /\ count \in [Noc!Endpoint -> Nat]

(* What the network shows of a packet is one of its own packets.           *)
LEMMA ShownPacket ==
  ASSUME PromptElements, NEW p \in Noc!Packet
  PROVE  /\ p # NoPkt /\ Noc!Shown(p) # NoPkt
         /\ Noc!Shown(p) = [src |-> p.src, to |-> p.to, id |-> p.id]
         /\ Noc!Shown(p).src = p.src /\ Noc!Shown(p).to = p.to /\ Noc!Shown(p).id = p.id
         /\ p.src \in Noc!Endpoint /\ p.to \in Noc!Endpoint /\ p.id \in Nat
<1>1. p # NoPkt /\ p.src \in Noc!Endpoint /\ p.to \in Noc!Endpoint /\ p.id \in Nat
  BY DEF PromptElements, Noc!Packet
<1>2. Noc!Shown(p) = [src |-> p.src, to |-> p.to, id |-> p.id]
  BY <1>1 DEF Noc!Shown
<1>3. Noc!Shown(p) \in Noc!Promised!Packet
  BY <1>1, <1>2 DEF Noc!Promised!Packet, Noc!Promised!Endpoint, Noc!Endpoint
<1> QED
  BY <1>1, <1>2, <1>3 DEF PromptElements

(* What is in flight is in an input register.                              *)
Flight == {Noc!Shown(p) : p \in Noc!InFlight}

(* With prompt elements only input registers hold packets.                 *)
LEMMA FlightIsInputs ==
  ASSUME NocInv
  PROVE  Flight = {Noc!Shown(in[e]) : e \in {x \in Attached : in[x] # NoPkt}}
<1>1. \A e \in Attached : out[e] = NoPkt
  BY DEF NocInv
<1>2. Noc!InFlight = {in[e] : e \in {x \in Attached : in[x] # NoPkt}}
  BY <1>1 DEF Noc!InFlight
<1> QED
  BY <1>2 DEF Flight

(* The two ends of a flow are endpoints.                                   *)
LEMMA EndpointsOfFlow ==
  ASSUME NEW f \in NocFlows
  PROVE  f[1] \in Noc!Endpoint /\ f[2] \in Noc!Endpoint
BY DEF Noc!Endpoint

----------------------------------------------------------------------------
(* Sending puts one packet, the next of its sender, in flight.             *)
LEMMA NocReceiveKeeps ==
  ASSUME PromptElements, NocInv, NEW s \in Noc!Endpoint, NEW t \in Noc!Endpoint,
         Noc!ideal_noc_receive(s, t)
  PROVE  /\ NocInv'
         /\ Flight' = Flight \cup {[src |-> s, to |-> t, id |-> count[s]]}
<1> DEFINE p == [src |-> s, to |-> t, id |-> count[s], stamp |-> counter]
<1>1. p \in Noc!Packet /\ p # NoPkt /\ t \in Attached
  BY DEF NocInv, Noc!Packet, PromptElements
<1>2. /\ in' = [in EXCEPT ![t] = p]
      /\ count' = [count EXCEPT ![s] = @ + 1]
      /\ out' = out /\ counter' = counter /\ rx' = rx /\ in[t] = NoPkt
  BY DEF Noc!ideal_noc_receive, Noc!busy
<1>3. Noc!Shown(p) = [src |-> s, to |-> t, id |-> count[s]] /\ p.to = t
  BY <1>1 DEF Noc!Shown
<1> HIDE DEF p
<1>4. NocInv'
  BY <1>1, <1>2, <1>3 DEF NocInv
<1>5. Flight' = {Noc!Shown(in'[e]) : e \in {x \in Attached : in'[x] # NoPkt}}
  BY <1>4, FlightIsInputs DEF Flight, Noc!InFlight, Noc!Shown, NocInv
<1>6. {x \in Attached : in'[x] # NoPkt} = {x \in Attached : in[x] # NoPkt} \cup {t}
  BY <1>1, <1>2 DEF NocInv
<1>7. \A e \in {x \in Attached : in[x] # NoPkt} : in'[e] = in[e]
  BY <1>2 DEF NocInv
<1>8. in'[t] = p
  BY <1>1, <1>2 DEF NocInv
<1>9. Flight' = Flight \cup {Noc!Shown(p)}
  BY <1>5, <1>6, <1>7, <1>8, FlightIsInputs
<1> QED
  BY <1>3, <1>4, <1>9

(* At a clock that is due every input goes straight to its element.        *)
LEMMA NocClockKeeps ==
  ASSUME PromptElements, NocInv, Noc!ideal_noc_clock, Noc!due
  PROVE  /\ NocInv'
         /\ in' = [e \in Attached |-> NoPkt]
         /\ \A e \in Noc!Endpoint : rx[e] = NoPkt /\ rx'[e] = in[e]
         /\ count' = count
<1> DEFINE full == [e \in Attached |-> IF Noc!loaded(e) THEN in[e] ELSE out[e]]
           taken == {e \in Attached : Noc!busy(full[e]) /\ ~ Noc!busy(rx[e])}
<1>1. \A e \in Attached : Noc!loaded(e) <=> in[e] # NoPkt
  BY DEF NocInv, Noc!loaded, Noc!busy
<1>2. full = in
  BY <1>1 DEF NocInv
<1>3. \A e \in Noc!Endpoint : rx[e] = NoPkt
  BY DEF Noc!ideal_noc_clock, PromptElements, Noc!busy
<1>4. /\ in' = [e \in Attached |-> IF Noc!loaded(e) THEN NoPkt ELSE in[e]]
      /\ out' = [e \in Attached |-> IF e \in taken THEN NoPkt ELSE full[e]]
      /\ rx' = [e \in Noc!Endpoint |-> IF e \in taken THEN full[e] ELSE rx[e]]
      /\ counter' = counter /\ count' = count
  BY DEF Noc!ideal_noc_clock
<1>5. taken = {e \in Attached : in[e] # NoPkt}
  <2>1. \A e \in Attached : in[e] # NoPkt => e \in Noc!Endpoint
    BY DEF NocInv, Noc!Packet
  <2> QED
    BY <1>2, <1>3, <2>1 DEF Noc!busy
<1> HIDE DEF full, taken
<1>6. in' = [e \in Attached |-> NoPkt]
  BY <1>1, <1>4
<1>7. out' = [e \in Attached |-> NoPkt]
  BY <1>2, <1>4, <1>5
<1>8. \A e \in Noc!Endpoint : rx'[e] = in[e]
  BY <1>2, <1>3, <1>4, <1>5 DEF PromptElements
<1>9. rx' \in [Noc!Endpoint -> Noc!Packet \cup {NoPkt}]
  <2>1. \A e \in Noc!Endpoint : in[e] \in Noc!Packet \cup {NoPkt}
    BY DEF NocInv, PromptElements
  <2> QED
    BY <1>4, <1>8, <2>1
<1>10. NocInv'
  BY <1>4, <1>6, <1>7, <1>9 DEF NocInv
<1> QED
  BY <1>3, <1>4, <1>6, <1>8, <1>10

(* A receiver that is done with a packet changes nothing in flight.        *)
LEMMA NocConsumeKeeps ==
  ASSUME NocInv, NEW e \in Noc!Endpoint, Noc!Consume(e)
  PROVE  NocInv' /\ Flight' = Flight
BY DEF NocInv, Noc!Consume, Flight, Noc!InFlight, Noc!Shown

(* A clock that is due is one delivery of all that is in flight.           *)
LEMMA NocClockDelivers ==
  ASSUME PromptElements, NocInv, Noc!ideal_noc_clock, Noc!due, Flight # {}
  PROVE  Noc!Promised!Deliver
<1> DEFINE Rx == [e \in Noc!Endpoint |-> Noc!Shown(rx[e])]
           Rx1 == [e \in Noc!Endpoint |-> Noc!Shown(rx'[e])]
           sent == {e \in Attached : in[e] # NoPkt}
<1>1. /\ NocInv' /\ count' = count
      /\ in' = [e \in Attached |-> NoPkt]
      /\ \A e \in Noc!Endpoint : rx[e] = NoPkt /\ rx'[e] = in[e]
  BY NocClockKeeps
<1>2. Flight' = {}
  <2>1. out' = [e \in Attached |-> NoPkt]
    BY <1>1 DEF NocInv
  <2>2. Noc!InFlight' = {}
    BY <1>1, <2>1 DEF Noc!InFlight
  <2> QED
    BY <2>2 DEF Flight
<1>3. Flight = {Noc!Shown(in[e]) : e \in sent}
  BY FlightIsInputs
<1>4. \A e \in sent : /\ in[e] \in Noc!Packet /\ in[e].to = e /\ e \in Noc!Endpoint
                      /\ Noc!Shown(in[e]).to = e /\ Noc!Shown(in[e]).id \in Nat
  BY ShownPacket DEF NocInv
<1>5. \A p \in Flight : \E e \in sent : p = Noc!Shown(in[e]) /\ p.to = e
  BY <1>3, <1>4
<1>6. \A p, q \in Flight : p.to = q.to => p = q
  BY <1>5
<1>7. \A p \in Flight : p.to \in Noc!Endpoint /\ p.id \in Nat /\ p.id <= p.id
  BY <1>4, <1>5
<1>8. \A p \in Flight : Rx[p.to] = NoPkt
  BY <1>1, <1>7 DEF Noc!Shown
<1>9. \A e \in Noc!Endpoint :
        Rx1[e] = IF \E p \in Flight : p.to = e
                 THEN CHOOSE p \in Flight : p.to = e ELSE Rx[e]
  <2> SUFFICES ASSUME NEW e \in Noc!Endpoint
               PROVE  Rx1[e] = IF \E p \in Flight : p.to = e
                               THEN CHOOSE p \in Flight : p.to = e ELSE Rx[e]
    OBVIOUS
  <2>1. Rx1[e] = Noc!Shown(in[e]) /\ Rx[e] = NoPkt
    BY <1>1 DEF Noc!Shown
  <2>2. CASE in[e] # NoPkt
    <3>1. e \in sent
      BY <2>2 DEF PromptElements
    <3>2. Noc!Shown(in[e]) \in Flight /\ Noc!Shown(in[e]).to = e
      BY <1>3, <1>4, <3>1
    <3>3. (CHOOSE p \in Flight : p.to = e) = Noc!Shown(in[e])
      BY <1>6, <3>2
    <3> QED
      BY <2>1, <3>2, <3>3
  <2>3. CASE in[e] = NoPkt
    <3>1. e \notin sent
      BY <2>3
    <3>2. ~ \E p \in Flight : p.to = e
      BY <1>5, <3>1
    <3> QED
      BY <2>1, <2>3, <3>2 DEF Noc!Shown
  <2> QED
    BY <2>2, <2>3
<1>10. Rx1 = [e \in Noc!Endpoint |-> IF \E p \in Flight : p.to = e
                                 THEN CHOOSE p \in Flight : p.to = e
                                 ELSE Rx[e]]
  BY <1>9
<1>11. Flight \ Flight' = Flight /\ Flight' \subseteq Flight
  BY <1>2
<1>12. \A p \in Flight : Noc!Promised!deliverable(p, Flight)
  <2> SUFFICES ASSUME NEW p \in Flight
               PROVE  Noc!Promised!deliverable(p, Flight)
    OBVIOUS
  <2>1. \A q \in Flight : q.src = p.src /\ q.to = p.to => p.id <= q.id
    BY <1>6, <1>7
  <2> QED
    BY <1>8, <2>1 DEF Noc!Promised!deliverable
<1> HIDE DEF Rx, Rx1
<1>13. Noc!Promised!Endpoint = Noc!Endpoint
  BY DEF Noc!Promised!Endpoint, Noc!Endpoint
<1>14. /\ Flight' \subseteq Flight /\ Flight \ Flight' # {}
       /\ \A p \in Flight \ Flight' : Noc!Promised!deliverable(p, Flight)
       /\ \A p, q \in Flight \ Flight' : p.to = q.to => p = q
       /\ Rx1 = [e \in Noc!Promised!Endpoint |->
                   IF \E p \in Flight \ Flight' : p.to = e
                   THEN CHOOSE p \in Flight \ Flight' : p.to = e
                   ELSE Rx[e]]
       /\ count' = count
  BY <1>1, <1>6, <1>10, <1>11, <1>12, <1>13
<1> QED
  BY <1>14, Zenon DEF Noc!Promised!Deliver, Flight, Rx, Rx1

----------------------------------------------------------------------------
(* What the registers of the NoC hold.                                     *)
THEOREM NocCorrect == ASSUME PromptElements PROVE Noc!Spec => []NocInv
<1>1. Noc!Init => NocInv
  BY DEF Noc!Init, NocInv
<1>2. NocInv /\ [Noc!Next]_(Noc!vars) => NocInv'
  <2> SUFFICES ASSUME NocInv, [Noc!Next]_(Noc!vars)
               PROVE  NocInv'
    OBVIOUS
  <2>1. CASE Noc!ideal_noc_clock /\ Noc!due
    BY <2>1, NocClockKeeps
  <2>2. CASE Noc!ideal_noc_clock /\ ~ Noc!due
    BY <2>2 DEF Noc!ideal_noc_clock, NocInv
  <2>3. ASSUME NEW f \in NocFlows, Noc!ideal_noc_receive(f[1], f[2])
        PROVE  NocInv'
    BY <2>3, EndpointsOfFlow, NocReceiveKeeps
  <2>4. ASSUME NEW e \in Noc!Endpoint, Noc!Consume(e)
        PROVE  NocInv'
    BY <2>4, NocConsumeKeeps
  <2>5. CASE UNCHANGED Noc!vars
    BY <2>5 DEF Noc!vars, NocInv
  <2> QED
    BY <2>1, <2>2, <2>3, <2>4, <2>5 DEF Noc!Next
<1> QED
  BY <1>1, <1>2, PTL DEF Noc!Spec

(* The NoC implements the network: every step is a sending, a delivery, a  *)
(* receiver that is done, or nothing.  With a latency of two or more no    *)
(* clock is due and this says only that nothing wrong is delivered.        *)
THEOREM NocIsNetwork == ASSUME PromptElements PROVE Noc!Spec => Noc!ImplementsNetwork
<1> DEFINE pvars == <<{Noc!Shown(p) : p \in Noc!InFlight},
                      [e \in Noc!Endpoint |-> Noc!Shown(rx[e])], count>>
<1>1. Noc!Init => Noc!Promised!Init
  <2> SUFFICES ASSUME Noc!Init
               PROVE  Noc!Promised!Init
    OBVIOUS
  <2>1. Noc!InFlight = {}
    BY DEF Noc!Init, Noc!InFlight
  <2>2. [e \in Noc!Endpoint |-> Noc!Shown(rx[e])] = [e \in Noc!Endpoint |-> NoPkt]
    BY DEF Noc!Init, Noc!Shown
  <2> QED
    <3>1. count = [e \in Noc!Endpoint |-> 0]
      BY Zenon DEF Noc!Init
    <3>2. Noc!Promised!Endpoint = Noc!Endpoint
      BY DEF Noc!Promised!Endpoint, Noc!Endpoint
    <3> QED
      BY <2>1, <2>2, <3>1, <3>2, Zenon DEF Noc!Promised!Init
<1>2. NocInv /\ [Noc!Next]_(Noc!vars) => [Noc!Promised!Next]_pvars
  <2> SUFFICES ASSUME NocInv, [Noc!Next]_(Noc!vars)
               PROVE  Noc!Promised!Next \/ UNCHANGED pvars
    OBVIOUS
  <2>1. CASE Noc!ideal_noc_clock /\ Noc!due
    <3>1. CASE Flight # {}
      BY <2>1, <3>1, NocClockDelivers DEF Noc!Promised!Next
    <3>2. CASE Flight = {}
      <4>1. /\ NocInv' /\ count' = count
            /\ in' = [e \in Attached |-> NoPkt]
            /\ \A e \in Noc!Endpoint : rx[e] = NoPkt /\ rx'[e] = in[e]
        BY <2>1, NocClockKeeps
      <4>2. \A e \in Attached : in[e] = NoPkt
        BY <3>2, FlightIsInputs
      <4>3. Flight' = {}
        BY <4>1 DEF NocInv, Noc!InFlight, Flight
      <4>4. \A e \in Noc!Endpoint : rx'[e] = rx[e]
        BY <4>1, <4>2 DEF PromptElements
      <4> QED
        BY <3>2, <4>1, <4>3, <4>4 DEF Flight
    <3> QED
      BY <3>1, <3>2
  <2>2. CASE Noc!ideal_noc_clock /\ ~ Noc!due
    BY <2>2 DEF Noc!ideal_noc_clock, Noc!InFlight, Noc!Shown
  <2>3. ASSUME NEW f \in NocFlows, Noc!ideal_noc_receive(f[1], f[2])
        PROVE  Noc!Promised!Next
    <3>1. f[1] \in Noc!Endpoint /\ f[2] \in Noc!Endpoint
      BY EndpointsOfFlow
    <3>2. Flight' = Flight \cup {[src |-> f[1], to |-> f[2], id |-> count[f[1]]]}
      BY <2>3, <3>1, NocReceiveKeeps
    <3>3. /\ count[f[1]] < NocMaxSend[f[1]]
          /\ count' = [count EXCEPT ![f[1]] = @ + 1] /\ rx' = rx
      BY <2>3 DEF Noc!ideal_noc_receive
    <3>4. <<f[1], f[2]>> \in NocFlows
      BY DEF PromptElements
    <3>5. Noc!Promised!Send(f[1], f[2])
      BY <3>2, <3>3, <3>4 DEF Noc!Promised!Send, Flight, Noc!Shown
    <3> QED
      BY <3>5 DEF Noc!Promised!Next
  <2>4. ASSUME NEW e \in Noc!Endpoint, Noc!Consume(e)
        PROVE  Noc!Promised!Next
    <3>1. Flight' = Flight /\ count' = count
      BY <2>4, NocConsumeKeeps DEF Noc!Consume
    <3>2. rx[e] # NoPkt /\ rx' = [rx EXCEPT ![e] = NoPkt]
      BY <2>4 DEF Noc!Consume, Noc!busy
    <3>3. Noc!Shown(rx[e]) # NoPkt
      BY <3>2, ShownPacket DEF NocInv
    <3>4. [x \in Noc!Endpoint |-> Noc!Shown(rx'[x])]
            = [[x \in Noc!Endpoint |-> Noc!Shown(rx[x])] EXCEPT ![e] = NoPkt]
      BY <3>2 DEF NocInv, Noc!Shown
    <3>5. Noc!Promised!Consume(e)
      BY <3>1, <3>3, <3>4 DEF Noc!Promised!Consume, Flight
    <3> QED
      BY <3>5 DEF Noc!Promised!Next, Noc!Promised!Endpoint, Noc!Endpoint
  <2>5. CASE UNCHANGED Noc!vars
    BY <2>5 DEF Noc!vars, Noc!InFlight, Noc!Shown
  <2> QED
    BY <2>1, <2>2, <2>3, <2>4, <2>5 DEF Noc!Next
<1> QED
  BY <1>1, <1>2, NocCorrect, PTL DEF Noc!Spec, Noc!ImplementsNetwork, Noc!Promised!Spec
============================================================================

------------------------------ MODULE FatBfly ------------------------------
(***************************************************************************)
(* The fat butterfly of src/src/bfly/fat_bfly.c: a binary tree of nodes    *)
(* that gets wider towards the root.  A node has two banks of input        *)
(* registers and as many outputs as both banks together; an output looks   *)
(* at one register of each bank.  The outputs of the root are those of the *)
(* network, one per element.                                               *)
(*                                                                         *)
(* Layer 0 is the root.  Nothing in the butterfly or in its elements       *)
(* writes a timestamp, so packets have none here.                          *)
(***************************************************************************)
EXTENDS Registers, FiniteSets

CONSTANTS
  Layers,   \* log2 of the number of elements
  Flows,    \* pairs <<src, to>> of elements that exchange packets
  MaxSend   \* bound: packets element e sends, MaxSend[e]

(* 1 << n *)
pow2[n \in 0 .. Layers] == IF n = 0 THEN 1 ELSE 2 * pow2[n - 1]

Elem == 0 .. pow2[Layers] - 1
Endpoint == {f[1] : f \in Flows} \cup {f[2] : f \in Flows}
Packet == [src : Endpoint, to : Endpoint, id : Nat]

ASSUME BflyAssumption ==
  /\ Layers \in Nat \ {0}
  /\ Flows \subseteq Elem \X Elem
  /\ MaxSend \in [Endpoint -> Nat]
  /\ NoPkt \notin Packet

height(l) == Layers - l - 1
Outputs(l) == 0 .. pow2[height(l) + 1] - 1

(* Node j of layer l is <<l, j>>.  fat_bfly_clock clocks layer after layer *)
(* and the nodes of a layer from the first on: nth(k) is the k-th of all.  *)
Nodes == {n \in (0 .. Layers - 1) \X Elem : n[2] < pow2[n[1]]}
layer(k) == CHOOSE l \in 0 .. Layers - 1 : pow2[l] <= k /\ k < pow2[l + 1]
nth(k) == <<layer(k), k - pow2[layer(k)]>>

left == 1
right == 0

OutReg == {r \in Nodes \X Elem : r[2] \in Outputs(r[1][1])}
BankReg == {r \in Nodes \X {left, right} \X Elem :
              r[3] < pow2[height(r[1][1])]}

VARIABLES
  in,     \* in[e]: the packet element e has sent
  net,    \* the registers of the tree: [bank |-> ..., out |-> ...]
  rx,     \* rx[e]: the packet element e received and is busy with
  count   \* count[e]: packets element e has sent

vars == <<in, net, rx, count>>

Init ==
  /\ in = [e \in Elem |-> NoPkt]
  /\ net = [bank |-> [r \in BankReg |-> NoPkt], out |-> [r \in OutReg |-> NoPkt]]
  /\ rx = [e \in Endpoint |-> NoPkt]
  /\ count = [e \in Endpoint |-> 0]

(* What a node decides by: one bit of the address, 1 for left. *)
bit(pkt, h) == (pkt.to \div pow2[h]) % 2

(* The register of the parent that output i of node n sends to: the bank   *)
(* is chosen by the address and not by which child n is.                   *)
above(n, i, pkt) ==
  <<<<n[1] - 1, n[2] \div 2>>, bit(pkt, height(n[1])), i>>

(* Faulty variant, for ImplementsNetwork: the parent's register is taken   *)
(* for free.                                                               *)
SendsOver(s, n, i) == n[1] > 0 /\ busy(s.out[<<n, i>>])

(* The first loop of node_clock: an output sends its packet to the parent  *)
(* if the register there is free.                                          *)
sends(s, n, i) ==
  /\ n[1] > 0
  /\ busy(s.out[<<n, i>>])
  /\ ~ busy(s.bank[above(n, i, s.out[<<n, i>>])])

push(s, n) ==
  [bank |-> [r \in BankReg |->
     IF /\ r[1] = <<n[1] - 1, n[2] \div 2>>
        /\ sends(s, n, r[3])
        /\ r = above(n, r[3], s.out[<<n, r[3]>>])
     THEN s.out[<<n, r[3]>>] ELSE s.bank[r]],
   out |-> [r \in OutReg |->
     IF r[1] = n /\ sends(s, n, r[2]) THEN NoPkt ELSE s.out[r]]]

(* Faulty variant, for SortedAtRoot: an output takes what it finds. *)
WantsAnyway(s, n, b, i) == busy(s.bank[<<n, b, i % pow2[height(n[1])]>>])

(* The second loop: the lower outputs are for bit 0.  A free output takes  *)
(* a packet that goes its way, out of the right bank when both have one.   *)
wants(s, n, b, i) ==
  LET h == height(n[1])
      p == s.bank[<<n, b, i % pow2[h]>>]
  IN  busy(p) /\ bit(p, h) = i \div pow2[h]

(* Faulty variant, for Drains: the left bank is not looked at. *)
TakesRight(s, n, i) ==
  IF busy(s.out[<<n, i>>]) \/ ~ wants(s, n, right, i) THEN {}
  ELSE {<<n, right, i % pow2[height(n[1])]>>}

takes(s, n, i) ==
  LET able == {b \in {left, right} : wants(s, n, b, i)}
      chosen == IF right \in able THEN {right} ELSE able
  IN  IF busy(s.out[<<n, i>>]) THEN {}
      ELSE {<<n, b, i % pow2[height(n[1])]>> : b \in chosen}

pull(s, n) ==
  [bank |-> [r \in BankReg |->
     IF r[1] = n /\ \E i \in Outputs(n[1]) : r \in takes(s, n, i)
     THEN NoPkt ELSE s.bank[r]],
   out |-> [r \in OutReg |->
     IF r[1] = n /\ takes(s, n, r[2]) # {}
     THEN s.bank[CHOOSE b \in takes(s, n, r[2]) : TRUE] ELSE s.out[r]]]

(* Both loops; the CHOOSE only names the one result. *)
node_clock(s, n) ==
  CHOOSE t \in {pull(u, n) : u \in {push(v, n) : v \in {s}}} : TRUE

clock_layers(s) ==
  LET run[k \in 0 .. pow2[Layers] - 1] ==
        IF k = 0 THEN s ELSE node_clock(run[k - 1], nth(k))
  IN  run[pow2[Layers] - 1]

(* The bank register behind the input of element e: odd elements left.     *)
entry(e) == <<<<Layers - 1, e \div 2>>, e % 2, 0>>

root == <<0, 0>>

(* One clock: the root's outputs to the elements, every node from the root *)
(* down, the inputs to the lowest layer.                                   *)
fat_bfly_clock ==
  LET accepted == {e \in Elem : busy(net.out[<<root, e>>]) /\ ~ busy(rx[e])}
  IN  \E emptied \in {[net EXCEPT !.out = [r \in OutReg |->
        IF r[1] = root /\ r[2] \in accepted THEN NoPkt ELSE @[r]]]} :
      \E s \in {clock_layers(emptied)} :
        LET entered == {e \in Elem : busy(in[e]) /\ ~ busy(s.bank[entry(e)])}
        IN  /\ net' = [s EXCEPT !.bank = [r \in BankReg |->
                 IF \E e \in entered : entry(e) = r
                 THEN in[CHOOSE e \in entered : entry(e) = r] ELSE @[r]]]
            /\ in' = [e \in Elem |-> IF e \in entered THEN NoPkt ELSE in[e]]
            /\ rx' = [e \in Endpoint |->
                 IF e \in accepted THEN net.out[<<root, e>>] ELSE rx[e]]
            /\ UNCHANGED count

(* An element SENDs a packet into its own register; EBUSY changes nothing. *)
fat_bfly_receive(s, t) ==
  /\ count[s] < MaxSend[s]
  /\ ~ busy(in[s])
  /\ in' = [in EXCEPT ![s] = [src |-> s, to |-> t, id |-> count[s]]]
  /\ count' = [count EXCEPT ![s] = @ + 1]
  /\ UNCHANGED <<net, rx>>

(* An element is done with a packet; until then it answers EBUSY. *)
Consume(e) ==
  /\ busy(rx[e])
  /\ rx' = [rx EXCEPT ![e] = NoPkt]
  /\ UNCHANGED <<in, net, count>>

Next ==
  \/ fat_bfly_clock
  \/ \E f \in Flows : fat_bfly_receive(f[1], f[2])
  \/ \E e \in Endpoint : Consume(e)

(* As in Mesh: the scheduler clocks the butterfly, and elements finish. *)
Fairness ==
  /\ WF_vars(fat_bfly_clock)
  /\ \A e \in Endpoint : WF_vars(Consume(e))

Spec == Init /\ [][Next]_vars /\ Fairness

----------------------------------------------------------------------------
(* The bits of the address choose output after output such that a packet   *)
(* is at the output of its own element when it gets to the root: the       *)
(* assertion of fat_bfly_clock (fat_bfly.c:153).                           *)
SortedAtRoot ==
  \A e \in Elem : busy(net.out[<<root, e>>]) => net.out[<<root, e>>].to = e

InFlight ==
  ({in[e] : e \in Elem} \cup {net.bank[r] : r \in BankReg}
                        \cup {net.out[r] : r \in OutReg}) \ {NoPkt}

Promised == INSTANCE Network WITH flight <- InFlight

(* Packets are delivered once, to the element they are addressed to, and   *)
(* in order between any two elements, although two children of a node      *)
(* share the registers above them (fat_bfly.c:79-88).                      *)
ImplementsNetwork == Promised!Spec

(* What has entered the butterfly leaves it, given elements that finish    *)
(* what they receive: no register waits for one that waits for it.         *)
Drains == InFlight # {} ~> InFlight = {}
============================================================================

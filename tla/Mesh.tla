-------------------------------- MODULE Mesh --------------------------------
(***************************************************************************)
(* A mesh of nodes, each with local ports (elems) and one port per         *)
(* direction, written once for the three node components of src/src/mesh.  *)
(* Mesh1D, Mesh2D and Mesh3D give the topology, the routing and the order  *)
(* in which a node looks at its inputs.                                    *)
(*                                                                         *)
(* Every SEND is a synchronous call, so a node's clock callback, with all  *)
(* the registers it fills in its neighbours, is one step.  The steps of    *)
(* different nodes and endpoints interleave freely: they may be in         *)
(* different clock domains.                                                *)
(*                                                                         *)
(* Among the endpoints are memories, as in tests/simple_mesh1d: clients    *)
(* send requests, and a simple_mem answers each by a SEND back to its      *)
(* node, keeping the request until the node takes the answer.  A memory    *)
(* thus accepts requests only as fast as the node accepts its answers, and *)
(* both go through the same node.                                          *)
(***************************************************************************)
EXTENDS Registers, FiniteSets, SequencesExt

CONSTANTS
  Node,             \* the coordinates of the nodes
  Dir,              \* the ports that lead to other nodes, after the local ones
  Elems,            \* how many local ports a node has
  Neighbor(_, _),   \* Neighbor(n, d): the coordinates next to n in d
  Back(_),          \* the port by which the neighbour in d is connected back
  Route(_, _),      \* Route(n, to): the only output of n whose sel accepts to
  Inputs(_),        \* Inputs(p): direction inputs listed for output p
  RestampsTransit,  \* TRUE if packets from other nodes get a new timestamp
  Flows,            \* pairs <<src, to>> of endpoints that exchange packets
  Mem,              \* the endpoints that are memories
  MaxSend,          \* bound: packets endpoint e injects, MaxSend[e]
  MaxTime           \* bound: where the timestamp of a node stops counting

VARIABLES
  in, out,  \* in[n][p], out[n][p]: the registers of node n
  time,     \* time[n]: the timestamp counter of node n
  rx,       \* rx[e]: the packet endpoint e received and is busy with
  count     \* count[e]: packets endpoint e has injected

vars == <<in, out, time, rx, count>>

Elem == 0 .. Elems - 1
Port == Elem \cup Dir
Endpoint == {f[1] : f \in Flows} \cup {f[2] : f \in Flows}
Client == Endpoint \ Mem
Packet == [src : Endpoint, to : Endpoint, id : Nat,
           stamp : 0 .. MaxTime]

(* What Mesh1D, Mesh2D and Mesh3D assume: endpoints are local ports of     *)
(* nodes, and a memory may send to whoever sends to it.                    *)
WellPlaced ==
  /\ Elems \in Nat /\ MaxTime \in Nat
  /\ Flows \subseteq (Node \X Elem) \X (Node \X Elem)
  /\ Mem \subseteq Endpoint
  /\ \A f \in Flows : f[2] \in Mem => <<f[2], f[1]>> \in Flows
  /\ NoPkt \notin Packet
  /\ NoPkt \notin [src : Endpoint, to : Endpoint, id : Nat]

Init ==
  /\ in = [n \in Node |-> [p \in Port |-> NoPkt]]
  /\ out = [n \in Node |-> [p \in Port |-> NoPkt]]
  /\ time = [n \in Node |-> 0]
  /\ rx = [e \in Endpoint |-> NoPkt]
  /\ count = [e \in Endpoint |-> 0]

(* Faulty variant, for KeepsTimestamp: a timestamp at every node.          *)
StampedAlways(n, p, pkt) == [pkt EXCEPT !.stamp = time[n]]

(* What the receive callback of node n stores when a packet enters by port *)
(* p: local packets get the node's timestamp.                              *)
stamped(n, p, pkt) ==
  IF p \in Elem \/ RestampsTransit THEN [pkt EXCEPT !.stamp = time[n]] ELSE pkt

(* Faulty variant, for ImplementsNetwork: a node takes a packet into an    *)
(* input register that is busy.                                            *)
AcceptsAnyway(n, p) == p \in Elem => ~ busy(rx[<<n, p>>])

(* Whether the component behind output p of n answers a SEND with OK. *)
accepts(n, p) ==
  IF p \in Elem THEN ~ busy(rx[<<n, p>>])
  ELSE ~ busy(in[Neighbor(n, p)][Back(p)])

(* Faulty variant, for ImplementsNetwork: EBUSY frees an output too.       *)
SentAnyway(n) == {p \in Port : busy(out[n][p])}

(* clock_outputs: the outputs that a clock of n empties. *)
sent(n) == {p \in Port : busy(out[n][p]) /\ accepts(n, p)}

(* Faulty variant, for SettlesOrWedged: the last local input is left out. *)
OldestButLast(n) ==
  oldest(in[n], [i \in 1 .. Elems - 1 |-> i - 1], Elem)

(* Of the local inputs only the oldest is looked at in a clock. *)
oldest_local(n) ==
  oldest(in[n], [i \in 1 .. Elems |-> i - 1], Elem)

(* What such a clock leaves in output p before it looks at the inputs. *)
left(n, emptied, p) == IF p \in emptied THEN NoPkt ELSE out[n][p]

(* The input that propagate moves to each output, after some are emptied.  *)
(* A packet leads to one output, so no two calls compete for an input and  *)
(* their order does not matter.                                            *)
source(n, emptied, local) ==
  [p \in Port |->
     propagate(left(n, emptied, p), in[n], local \o Inputs(p),
               {q \in Port : busy(in[n][q]) /\ Route(n, in[n][q].to) = p})]

(* Whether output Back(p) of n, just emptied, is wired to input p of m. *)
filled(n, emptied, m, p) ==
  p \in Dir /\ Back(p) \in emptied /\ m = Neighbor(n, Back(p))

(* What a clock of n that empties some outputs, and moves to each output   *)
(* the input that from gives it, leaves in all registers.                  *)
clocked(n, emptied, from) ==
  /\ time' = [time EXCEPT ![n] = IF @ < MaxTime THEN @ + 1 ELSE @]
  /\ out' = [out EXCEPT ![n] = [p \in Port |->
       IF from[p] = << >> THEN left(n, emptied, p) ELSE in[n][from[p][1]]]]
  /\ in' = [m \in Node |-> [p \in Port |->
       IF m = n /\ \E d \in Port : from[d] = <<p>> THEN NoPkt
       ELSE IF filled(n, emptied, m, p) THEN stamped(m, p, out[n][Back(p)])
       ELSE in[m][p]]]
  /\ rx' = [e \in Endpoint |->
       IF e[1] = n /\ e[2] \in emptied THEN out[n][e[2]] ELSE rx[e]]
  /\ UNCHANGED count

node_clock(n) ==
  \E emptied \in {sent(n)}, local \in {oldest_local(n)} :
  \E from \in {source(n, emptied, local)} : clocked(n, emptied, from)

(* An endpoint SENDs to its node; an EBUSY answer changes nothing and the  *)
(* endpoint tries again.                                                   *)
Inject(s, t) ==
  /\ count[s] < MaxSend[s]
  /\ ~ busy(in[s[1]][s[2]])
  /\ in' = [in EXCEPT ![s[1]][s[2]] =
       stamped(s[1], s[2],
               [src |-> s, to |-> t, id |-> count[s], stamp |-> 0])]
  /\ count' = [count EXCEPT ![s] = @ + 1]
  /\ UNCHANGED <<out, time, rx>>

(* A client is done with a packet; until then it answers EBUSY.            *)
Consume(e) ==
  /\ busy(rx[e])
  /\ rx' = [rx EXCEPT ![e] = NoPkt]
  /\ UNCHANGED <<in, out, time, count>>

(* Faulty variant, for WedgedForEver: the input register is overwritten.   *)
MemSendsAnyway(m) == busy(rx[m])

(* Whether a clock of memory m hands its answer over: the memory holds one *)
(* and the node's receive callback does not return EBUSY.                  *)
mem_sends(m) == busy(rx[m]) /\ ~ busy(in[m[1]][m[2]])

simple_mem_clock(m) ==
  /\ mem_sends(m)
  /\ in' = [in EXCEPT ![m[1]][m[2]] =
       stamped(m[1], m[2],
               [src |-> m, to |-> rx[m].src, id |-> count[m], stamp |-> 0])]
  /\ rx' = [rx EXCEPT ![m] = NoPkt]
  /\ count' = [count EXCEPT ![m] = @ + 1]
  /\ UNCHANGED <<out, time>>

Next ==
  \/ \E n \in Node : node_clock(n)
  \/ \E f \in Flows : f[1] \in Client /\ Inject(f[1], f[2])
  \/ \E e \in Client : Consume(e)
  \/ \E m \in Mem : simple_mem_clock(m)

(* The scheduler clocks every node and memory for ever                     *)
(* (Clock!EveryDomainAdvances); clients need not inject, but they finish   *)
(* what they receive.                                                      *)
Fairness ==
  /\ \A n \in Node : WF_vars(node_clock(n))
  /\ \A e \in Client : WF_vars(Consume(e))
  /\ \A m \in Mem : WF_vars(simple_mem_clock(m))

Spec == Init /\ [][Next]_vars /\ Fairness

----------------------------------------------------------------------------
InFlight ==
  LET Held(regs) == {regs[x[1]][x[2]] : x \in Node \X Port} \ {NoPkt}
  IN  Held(in) \cup Held(out)

(* A network does not show its timestamps. *)
Shown(pkt) ==
  IF pkt = NoPkt THEN NoPkt
  ELSE [src |-> pkt.src, to |-> pkt.to, id |-> pkt.id]

Promised == INSTANCE Network WITH
  flight <- {Shown(p) : p \in InFlight},
  rx <- [e \in Endpoint |-> Shown(rx[e])]

(* Packets are delivered once, to the endpoint they are addressed to, and  *)
(* in order between any two endpoints, through all the copying from output *)
(* to input registers and the interleaving of the nodes' clocks.           *)
ImplementsNetwork == Promised!Spec

(* A link leaves n by d; of its two registers, one is at either end.       *)
Link == {l \in Node \X Dir : Neighbor(l[1], l[2]) \in Node}
OnLink(l) ==
  {out[l[1]][l[2]], in[Neighbor(l[1], l[2])][Back(l[2])]} \ {NoPkt}
After(l, pkt) ==
  LET n == Neighbor(l[1], l[2]) IN <<n, Route(n, pkt.to)>>
Wanted(l) == {After(l, pkt) : pkt \in OnLink(l)} \cap Link

(* The links that packets are on, with the links they are to take next.    *)
Waits == UNION {{l} \X Wanted(l) : l \in Link}

(* Packets on their way never wait for each other's links in a circle,     *)
(* wherever they are and whichever way they turn: travelling the           *)
(* dimensions in a fixed order keeps nodes, which refuse what they have no *)
(* room for, from filling up so that none of them can move.                *)
NoCyclicWait ==
  \A W \in (SUBSET Waits) \ {{}} : \E w \in W : \A v \in W : v[1] # w[2]

(* Whether a clock of n would move a packet. *)
CanMove(n) ==
  \/ sent(n) # {}
  \/ \E p \in Port : source(n, sent(n), oldest_local(n))[p] # << >>

(* While packets are under way, some endpoint has one to finish, or the    *)
(* clock of some node moves one: backpressure, the choice of one local     *)
(* input per clock and the lists of inputs never bring all to a stop.      *)
NeverStuck ==
  InFlight # {} =>
    \/ \E e \in Endpoint : busy(rx[e])
    \/ \E n \in Node : CanMove(n)

(* A timestamp records when a packet entered the network: moving from      *)
(* register to register does not change it, so that the oldest packet of a *)
(* node is the one that has been in the network longest.                   *)
KeepsTimestamp ==
  [][\A p \in InFlight, q \in InFlight' :
       Shown(p) = Shown(q) => p.stamp = q.stamp]_vars

(* Local input p is looked at before local input q. *)
Before(regs, p, q) ==
  \/ regs[p].stamp < regs[q].stamp
  \/ regs[p].stamp = regs[q].stamp /\ p < q

(* Memory m waits for its node to take an answer, the node for the memory  *)
(* to take a request: the answer before waits behind an older local packet *)
(* that is itself a request to m, and the output to m is taken.            *)
Wedged(m) ==
  \E n \in {m[1]}, p \in {m[2]} :
    /\ busy(rx[m]) /\ busy(out[n][p]) /\ busy(in[n][p])
    /\ \E q \in Elem \ {p} :
         busy(in[n][q]) /\ in[n][q].to = m /\ Before(in[n], q, p)

Settled == InFlight = {} /\ \A e \in Endpoint : ~ busy(rx[e])

(* Offering only the oldest local packet to the outputs closes a cycle     *)
(* through a memory that nothing can open any more: a request ahead of the *)
(* memory's own answer is never passed over.                               *)
WedgedForEver == [][\A m \in Mem : Wedged(m) => Wedged(m)']_vars

(* That cycle is the only way the mesh and its memories come to a stop:    *)
(* outside of it every request is delivered, answered, and its answer      *)
(* consumed.                                                               *)
SettlesOrWedged == []<>(Settled \/ \E m \in Mem : Wedged(m))
============================================================================

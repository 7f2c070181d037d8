----------------------------- MODULE SimtCache -----------------------------
(***************************************************************************)
(* The request coalescer of src/src/cache/simt_cache.c, in front of the    *)
(* lanes of a core complex.  A lane has one request register.  A request   *)
(* goes out if its block belongs to the lane's own bank or if the lane     *)
(* holds the shared slot, which goes round (rr); a read of the block that  *)
(* the shared slot is reading waits for that answer instead.               *)
(*                                                                         *)
(* Behind the cache are the mesh node that takes its packets, one at a     *)
(* time, and the way to a memory and back, which keeps the packets of one  *)
(* block in order (Mesh!ImplementsNetwork, and simple_mem serves one       *)
(* request after the other), but not those of different blocks.            *)
(***************************************************************************)
EXTENDS Integers, Sequences, FiniteSetsExt

CONSTANTS
  Lanes,  \* number of lanes
  Addr,   \* block numbers: address / 64
  Ops,    \* the requests <<lane, kind, addr>> that lanes make
  NoReq   \* a lane that waits for nothing, a register that holds nothing

ASSUME CacheAssumption ==
  /\ Lanes \in Nat \ {0}
  /\ Addr \subseteq Nat
  /\ Ops \subseteq (0 .. Lanes - 1) \X {"read", "write"} \X Addr

Lane == 0 .. Lanes - 1

(* A lane writes its own number, so a value tells who wrote it last. *)
InitValue == Lanes
Value == Lane \cup {InitValue}

VARIABLES
  req,     \* req[i]: the packet in lane i's register; busy if not NoReq
  queued,  \* queued[i]: that packet still has to be sent
  rr,      \* the lane that holds the shared slot
  port,    \* the packet the node has accepted and not yet moved on
  path,    \* path[a]: packets on the way to the memory of block a
  back,    \* back[a]: responses on the way from it
  mem,     \* mem[a]: the contents of block a
  seen,    \* history: what the answers have shown of block a so far
  answer   \* history: the value of the last answer to each lane

vars == <<req, queued, rr, port, path, back, mem, seen, answer>>

Op == [kind : {"read", "write"}, addr : Addr, val : Value]
Packet == [lane : Lane, kind : {"read", "write"}, addr : Addr, val : Value]

ASSUME NoReqAssumption == NoReq \notin Op /\ NoReq \notin Packet

Init ==
  /\ req = [i \in Lane |-> NoReq]
  /\ queued = [i \in Lane |-> FALSE]
  /\ rr = 0
  /\ port = NoReq
  /\ path = [a \in Addr |-> << >>]
  /\ back = [a \in Addr |-> << >>]
  /\ mem = [a \in Addr |-> InitValue]
  /\ seen = [a \in Addr |-> InitValue]
  /\ answer = [i \in Lane |-> InitValue]

busy(i) == req[i] # NoReq

(* A lane SENDs a request; EBUSY while its register is taken. *)
simt_cache_receive(i, kind, a) ==
  /\ ~ busy(i)
  /\ req' = [req EXCEPT ![i] =
       [kind |-> kind, addr |-> a,
        val |-> IF kind = "write" THEN i ELSE InitValue]]
  /\ queued' = [queued EXCEPT ![i] = TRUE]
  /\ answer' = [answer EXCEPT ![i] = InitValue]
  /\ UNCHANGED <<rr, port, path, back, mem, seen>>

(* Faulty variant, for NobodyForgotten: the block is not compared.         *)
RidesAnyRead(i) ==
  /\ queued[i] /\ i # rr /\ busy(rr)
  /\ req[rr].kind = "read" /\ req[i].kind = "read"

(* The shared slot is reading the block lane i wants to read. *)
rides(i) ==
  /\ queued[i] /\ i # rr /\ busy(rr)
  /\ req[rr].kind = "read" /\ req[i].kind = "read"
  /\ req[i].addr = req[rr].addr

(* Faulty variant, for AnswersMatchRequests: a lane asks its own bank for  *)
(* what the shared slot is reading.                                        *)
OwnBankGoesOut(i) == queued[i] /\ (req[i].addr % Lanes = i \/ rr = i)

mayGoOut(i) ==
  queued[i] /\ ~ rides(i) /\ (req[i].addr % Lanes = i \/ rr = i)

(* The node's register takes one packet: the first lane's that may go out, *)
(* and every other lane gets EBUSY and stays queued.                       *)
goesOut ==
  LET able == {i \in Lane : mayGoOut(i)}
  IN  IF port # NoReq \/ able = {} THEN {} ELSE {Min(able)}

(* Faulty variant, for QuietLanesAreAnswered: the loop stops at once.      *)
StaysAtIdle == rr

(* The next busy lane after rr; the loop comes back to rr if none is.      *)
nextActive ==
  LET dist(i) == (i - rr - 1) % Lanes
      active == {i \in Lane : busy(i)}
  IN  IF active = {} THEN rr
      ELSE CHOOSE i \in active : \A j \in active : dist(i) <= dist(j)

simt_cache_clock ==
  /\ queued' = [i \in Lane |-> queued[i] /\ ~ rides(i) /\ i \notin goesOut]
  /\ port' = IF goesOut = {} THEN port
             ELSE LET i == Min(goesOut)
                  IN  [lane |-> i, kind |-> req[i].kind,
                       addr |-> req[i].addr, val |-> req[i].val]
  /\ rr' = IF busy(rr) THEN rr ELSE nextActive
  /\ UNCHANGED <<req, path, back, mem, seen, answer>>

(* The node clocks the packet out of the register the cache SENDs to. *)
node_clock ==
  /\ port # NoReq
  /\ path' = [path EXCEPT ![port.addr] = Append(@, port)]
  /\ port' = NoReq
  /\ UNCHANGED <<req, queued, rr, back, mem, seen, answer>>

(* The memory reads or writes as soon as it receives, and answers.         *)
simple_mem_receive(a) ==
  /\ path[a] # << >>
  /\ LET p == Head(path[a])
         written == IF p.kind = "write" THEN p.val ELSE mem[a]
     IN  /\ mem' = [mem EXCEPT ![a] = written]
         /\ back' = [back EXCEPT ![a] = Append(@, [p EXCEPT !.val = written])]
  /\ path' = [path EXCEPT ![a] = Tail(@)]
  /\ UNCHANGED <<req, queued, rr, port, seen, answer>>

(* Faulty variant, for ImplementsLaneMemory: waiting writes are taken for  *)
(* reads of the block and answered, too.                                   *)
BroadcastToWriters(p) ==
  LET waiting == {i \in Lane : busy(i) /\ req[i].addr = p.addr}
  IN  /\ req' = [i \in Lane |-> IF i \in waiting THEN NoReq ELSE req[i]]
      /\ queued' = [i \in Lane |-> queued[i] /\ i \notin waiting]
      /\ answer' = [i \in Lane |-> IF i \in waiting THEN p.val ELSE answer[i]]

(* Every lane that waits to read the block gets the shared slot's answer.  *)
simt_cache_broadcast(p) ==
  LET readers == {i \in Lane : /\ busy(i) /\ req[i].kind = "read"
                               /\ req[i].addr = p.addr}
  IN  /\ req' = [i \in Lane |-> IF i \in readers THEN NoReq ELSE req[i]]
      /\ queued' = [i \in Lane |-> queued[i] /\ i \notin readers]
      /\ answer' = [i \in Lane |-> IF i \in readers THEN p.val ELSE answer[i]]

(* The slot goes round when its own request is answered. *)
after(i) == (i + 1) % Lanes

simt_cache_handle_response(a) ==
  /\ back[a] # << >>
  /\ LET p == Head(back[a])
     IN  /\ rr' = IF p.lane = rr THEN after(rr) ELSE rr
         /\ IF p.lane = rr /\ p.kind = "read"
            THEN simt_cache_broadcast(p)
            ELSE /\ req' = [req EXCEPT ![p.lane] = NoReq]
                 /\ answer' = [answer EXCEPT ![p.lane] = p.val]
                 /\ UNCHANGED queued
         /\ seen' = [seen EXCEPT ![a] = p.val]
  /\ back' = [back EXCEPT ![a] = Tail(@)]
  /\ UNCHANGED <<port, path, mem>>

Next ==
  \/ \E o \in Ops : simt_cache_receive(o[1], o[2], o[3])
  \/ simt_cache_clock
  \/ node_clock
  \/ \E a \in Addr : simple_mem_receive(a) \/ simt_cache_handle_response(a)

(* Cache, node and memory are clocked for ever (Clock!EveryDomainAdvances) *)
(* and the network delivers (Mesh!NeverStuck); lanes need not ask.         *)
Fairness ==
  /\ WF_vars(simt_cache_clock)
  /\ WF_vars(node_clock)
  /\ \A a \in Addr : /\ WF_vars(simple_mem_receive(a))
                     /\ WF_vars(simt_cache_handle_response(a))

Spec == Init /\ [][Next]_vars /\ Fairness

----------------------------------------------------------------------------
(* All packets for block a outside the cache, oldest first. *)
Outside(a) ==
  back[a] \o path[a] \o (IF port # NoReq /\ port.addr = a THEN <<port>>
                                                          ELSE << >>)

PacketsOut ==
  UNION {{<<a, k>> : k \in DOMAIN Outside(a)} : a \in Addr}

(* A packet outside the cache is the request its lane waits with, and the  *)
(* only one of that lane: no answer finds a register that was meanwhile    *)
(* freed by a broadcast or taken by the lane's next request.  The asserts  *)
(* of simt_cache_handle_response depend on it.                             *)
AnswersMatchRequests ==
  /\ \A x \in PacketsOut :
       LET p == Outside(x[1])[x[2]]
       IN  /\ busy(p.lane) /\ ~ queued[p.lane]
           /\ req[p.lane].kind = p.kind /\ req[p.lane].addr = p.addr
  /\ \A x, y \in PacketsOut :
       Outside(x[1])[x[2]].lane = Outside(y[1])[y[2]].lane => x = y

(* A lane that is neither queued nor has a packet outside reads the block  *)
(* that the shared slot is reading: the slot does not move on before it    *)
(* has answered the lanes that stopped queueing because of it.             *)
NobodyForgotten ==
  \A i \in Lane :
    \/ ~ busy(i) \/ queued[i]
    \/ \E x \in PacketsOut : Outside(x[1])[x[2]].lane = i
    \/ /\ busy(rr) /\ rr # i
       /\ req[i].kind = "read" /\ req[rr].kind = "read"
       /\ req[i].addr = req[rr].addr

Promised == INSTANCE LaneMemory WITH pending <- req, mem <- seen

(* To its lanes the cache is one memory: every answer is that of a memory  *)
(* in which the request takes effect when it is answered, although answers *)
(* are shared, requests wait, and blocks are served out of order.          *)
ImplementsLaneMemory == Promised!Spec

(* Nothing gets stuck: once the lanes make no new requests, all of them    *)
(* are answered, those that wait for their bank's turn at the node, for    *)
(* the shared slot, or for the answer to another lane.  (While the lanes   *)
(* of lower banks ask without end, the slot itself can starve: the clock   *)
(* callback offers the node's register to the lowest lane first.)          *)
Asking == \E o \in Ops : simt_cache_receive(o[1], o[2], o[3])

QuietLanesAreAnswered ==
  <>[][~ Asking]_vars => []<>(\A i \in Lane : ~ busy(i))
============================================================================

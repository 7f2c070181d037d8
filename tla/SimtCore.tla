------------------------------ MODULE SimtCore ------------------------------
(***************************************************************************)
(* The core complex of src/src/cpu/riscv/simt_riscv64.c: processors in     *)
(* lock step (lanes) that share one interface to a memory, and a register  *)
(* per lane in which its request waits.  A read that finds another lane    *)
(* reading the same block waits for that lane's answer; a request that the *)
(* node behind the interface refuses is queued and sent by a later clock,  *)
(* although the lane is told EBUSY and keeps trying.                       *)
(*                                                                         *)
(* The data and the instruction interface are the same code on registers   *)
(* of their own, with a port of the node each; this is one of them.  The   *)
(* network keeps the packets of one interface to one memory in order       *)
(* (Mesh!ImplementsNetwork), and answers to different blocks come in any.  *)
(***************************************************************************)
EXTENDS Integers, Sequences, FiniteSetsExt

CONSTANTS
  Lanes,  \* conf.num_lanes
  Block,  \* 64-byte blocks
  Byte,   \* the bytes of a block
  Ops,    \* the requests <<lane, kind, block, byte>> that lanes make
  NoReq   \* a lane that waits for nothing, a register that is not busy

ASSUME CoreAssumption ==
  /\ Lanes \in Nat \ {0}
  /\ Ops \subseteq (0 .. Lanes - 1) \X {"read", "write"} \X Block \X Byte

Lane == 0 .. Lanes - 1

(* A lane writes its own number, so a value tells who wrote it last. *)
InitValue == Lanes
Value == Lane \cup {InitValue}

VARIABLES
  lane,    \* lane[i]: ready for a request, or its last SEND was answered OK
           \* (sent) or EBUSY (blocked), and no answer has come since
  ldst,    \* ldst[i]: the request lane i waits with, NoReq if it is ready
  req,     \* req[i]: the packet in lane i's register of the core
  queued,  \* queued[i]: the core still has to send what is in req[i]
  port,    \* the packet the node has accepted and not yet moved on
  path,    \* path[b]: packets on the way to the memory of block b
  back,    \* back[b]: responses on the way from it
  mem,     \* mem[b][x]: byte x of block b
  seen,    \* history: what the answers have shown of each byte so far
  answer   \* history: the value of the last answer to each lane

vars == <<lane, ldst, req, queued, port, path, back, mem, seen, answer>>

(* A request of one byte; its mask has that byte only. *)
Op == [kind : {"read", "write"}, addr : Block \X Byte, val : Value]
Packet == [lane : Lane, kind : {"read", "write"}, block : Block,
           mask : SUBSET Byte, data : [Byte -> Value]]

ASSUME NoReqAssumption == NoReq \notin Op /\ NoReq \notin Packet

Init ==
  /\ lane = [i \in Lane |-> "ready"]
  /\ ldst = [i \in Lane |-> NoReq]
  /\ req = [i \in Lane |-> NoReq]
  /\ queued = [i \in Lane |-> FALSE]
  /\ port = NoReq
  /\ path = [b \in Block |-> << >>]
  /\ back = [b \in Block |-> << >>]
  /\ mem = [b \in Block |-> [x \in Byte |-> InitValue]]
  /\ seen = [a \in Block \X Byte |-> InitValue]
  /\ answer = [i \in Lane |-> InitValue]

busy(i) == req[i] # NoReq

(* What simt_riscv64_ext_send sends for op: the lane's number goes along   *)
(* as the address to answer to, and a read asks for the whole block.       *)
ext_send(i, op) ==
  [lane |-> i, kind |-> op.kind, block |-> op.addr[1],
   mask |-> IF op.kind = "read" THEN Byte ELSE {op.addr[2]},
   data |-> [x \in Byte |-> IF x = op.addr[2] THEN op.val ELSE InitValue]]

(* The first loop of the clock callback: what is queued is offered to the  *)
(* node, which takes one packet, the first.                                *)
flushed ==
  IF port # NoReq \/ ~ (\E i \in Lane : queued[i]) THEN {}
  ELSE {Min({i \in Lane : queued[i]})}

(* Faulty variant, for AnswersMatchRequests: a request that a lane repeats *)
(* is taken for a new one.                                                 *)
StoredAgain(want) == {i \in Lane : want[i] # NoReq}

(* The lanes are clocked after that, and want[i] is what lane i SENDs.     *)
(* A register that is busy refuses it.                                     *)
stored(want) == {i \in Lane : want[i] # NoReq /\ ~ busy(i)}

ReadOf(op, b) == op # NoReq /\ op.kind = "read" /\ op.addr[1] = b

(* Faulty variants, for OneReaderPerBlock: every read goes out itself; for *)
(* NobodyForgotten: a read waits for any request of its block.             *)
RidesNever(want) == {}

RidesAny(want) ==
  {i \in stored(want) :
     /\ want[i].kind = "read"
     /\ \E j \in Lane \ {i} : req[j] # NoReq /\ req[j].addr[1] = want[i].addr[1]}

(* The requests that wait for the answer to another lane's read, sent or   *)
(* queued earlier or by a lane clocked before.                             *)
rides(want) ==
  {i \in stored(want) :
     /\ want[i].kind = "read"
     /\ \E j \in Lane \ {i} :
          LET b == want[i].addr[1]
          IN  \/ ReadOf(req[j], b)
              \/ j < i /\ j \in stored(want) /\ ReadOf(want[j], b)}

(* Faulty variant, for QuietLanesAreAnswered: nobody is told EBUSY.        *)
AllGoOut(want) ==
  IF port # NoReq \/ flushed # {} THEN {} ELSE stored(want) \ rides(want)

(* Of the other requests the node takes the first if its register is free. *)
goesOut(want) ==
  LET rest == stored(want) \ rides(want)
  IN  IF port # NoReq \/ flushed # {} \/ rest = {} THEN {} ELSE {Min(rest)}

(* What a lane may SEND when it is clocked: a lane that got EBUSY repeats  *)
(* its request, one that is ready makes one or not.                        *)
wants(i) ==
  CASE lane[i] = "ready"   -> {NoReq} \cup
         {[kind |-> o[2], addr |-> <<o[3], o[4]>>,
           val |-> IF o[2] = "write" THEN i ELSE InitValue] :
          o \in {p \in Ops : p[1] = i}}
    [] lane[i] = "blocked" -> {ldst[i]}
    [] lane[i] = "sent"    -> {NoReq}

(* simt_riscv64_receive from the lanes, each SENDing want[i]. *)
receive_requests(want) ==
  \E new \in {stored(want)}, out \in {goesOut(want)} :
  \E refused \in {{i \in Lane : want[i] # NoReq} \ (rides(want) \cup out)} :
    /\ req' = [i \in Lane |-> IF i \in new THEN want[i] ELSE req[i]]
    /\ queued' = [i \in Lane |-> IF i \in new THEN i \in refused
                                 ELSE queued[i] /\ i \notin flushed]
    /\ lane' = [i \in Lane |-> IF want[i] = NoReq THEN lane[i]
                               ELSE IF i \in refused THEN "blocked" ELSE "sent"]
    /\ ldst' = [i \in Lane |-> IF want[i] = NoReq THEN ldst[i] ELSE want[i]]
    /\ answer' = [i \in Lane |-> IF want[i] # NoReq /\ lane[i] = "ready"
                                 THEN InitValue ELSE answer[i]]
    /\ port' = CASE flushed # {} ->
                      LET i == Min(flushed) IN ext_send(i, req[i])
                 [] out # {} -> LET i == Min(out) IN ext_send(i, want[i])
                 [] OTHER -> port

simt_riscv64_clock ==
  /\ \E want \in [Lane -> UNION {wants(i) : i \in Lane}] :
       /\ \A i \in Lane : want[i] \in wants(i)
       /\ receive_requests(want)
  /\ UNCHANGED <<path, back, mem, seen>>

(* The node clocks the packet out of the register the core SENDs to. *)
node_clock ==
  /\ port # NoReq
  /\ path' = [path EXCEPT ![port.block] = Append(@, port)]
  /\ port' = NoReq
  /\ UNCHANGED <<lane, ldst, req, queued, back, mem, seen, answer>>

(* checked_copyfrom and checked_copyto: only the bytes of the mask. *)
written(p, bytes) ==
  [x \in Byte |-> IF p.kind = "write" /\ x \in p.mask THEN p.data[x]
                  ELSE bytes[x]]
response(p, bytes) ==
  [p EXCEPT !.data = [x \in Byte |-> IF p.kind = "read" /\ x \in p.mask
                                     THEN bytes[x] ELSE p.data[x]]]

simple_mem_receive(b) ==
  /\ path[b] # << >>
  /\ LET p == Head(path[b])
     IN  /\ mem' = [mem EXCEPT ![b] = written(p, @)]
         /\ back' = [back EXCEPT ![b] = Append(@, response(p, mem[b]))]
  /\ path' = [path EXCEPT ![b] = Tail(@)]
  /\ UNCHANGED <<lane, ldst, req, queued, port, seen, answer>>

(* The lane of the packet is answered, and after a read every lane whose   *)
(* register has a read of the block.                                       *)
answered(p) ==
  {p.lane} \cup {i \in Lane : p.kind = "read" /\ ReadOf(req[i], p.block)}

(* Faulty variant, for ImplementsLaneMemory: all lanes get the bytes that  *)
(* the sender's mask names.                                                *)
RestoredOnce(p, i) == p.data[req[p.lane].addr[2]]

(* Each lane gets the bytes of its own mask. *)
restored(p, i) == p.data[req[i].addr[2]]

simt_riscv64_handle_response(b) ==
  /\ back[b] # << >>
  /\ LET p == Head(back[b])
     IN  /\ req' = [i \in Lane |-> IF i \in answered(p) THEN NoReq ELSE req[i]]
         /\ lane' = [i \in Lane |-> IF i \in answered(p) THEN "ready"
                                    ELSE lane[i]]
         /\ ldst' = [i \in Lane |-> IF i \in answered(p) THEN NoReq
                                    ELSE ldst[i]]
         /\ answer' = [i \in Lane |-> IF i \in answered(p) THEN restored(p, i)
                                      ELSE answer[i]]
         /\ seen' = [a \in Block \X Byte |->
              IF a[1] = b /\ a[2] \in p.mask THEN p.data[a[2]] ELSE seen[a]]
  /\ back' = [back EXCEPT ![b] = Tail(@)]
  /\ UNCHANGED <<queued, port, path, mem>>

Next ==
  \/ simt_riscv64_clock
  \/ node_clock
  \/ \E b \in Block : simple_mem_receive(b) \/ simt_riscv64_handle_response(b)

(* Core, node and memory are clocked for ever (Clock!EveryDomainAdvances)  *)
(* and the network delivers (Mesh!NeverStuck); lanes need not ask.         *)
Fairness ==
  /\ WF_vars(simt_riscv64_clock)
  /\ WF_vars(node_clock)
  /\ \A b \in Block : /\ WF_vars(simple_mem_receive(b))
                       /\ WF_vars(simt_riscv64_handle_response(b))

Spec == Init /\ [][Next]_vars /\ Fairness

----------------------------------------------------------------------------
(* All packets for block b outside the core, oldest first. *)
Outside(b) ==
  back[b] \o path[b] \o (IF port # NoReq /\ port.block = b THEN <<port>>
                                                           ELSE << >>)

Place == UNION {{<<b, k>> : k \in DOMAIN Outside(b)} : b \in Block}
PacketAt(x) == Outside(x[1])[x[2]]

(* Lane i's own packet is queued or outside. *)
Asked(i) == queued[i] \/ \E x \in Place : PacketAt(x).lane = i

(* A packet outside the core is the request its lane waits with, and the   *)
(* only one of that lane, although EBUSY means here that the request was   *)
(* taken (simt_riscv64.c:155-157), lanes repeat it, and broadcasts free    *)
(* registers: the asserts of simt_riscv64_handle_response                  *)
(* (simt_riscv64.c:61-65) depend on it.                                    *)
AnswersMatchRequests ==
  /\ \A x \in Place :
       LET p == PacketAt(x)
       IN  /\ busy(p.lane) /\ ~ queued[p.lane]
           /\ req[p.lane].kind = p.kind /\ req[p.lane].addr[1] = p.block
  /\ \A x, y \in Place : PacketAt(x).lane = PacketAt(y).lane => x = y

(* However many lanes read a block, one of them asks for it.  This is also *)
(* why a broadcast, which clears reg.busy and leaves queued alone          *)
(* (simt_riscv64.c:111), never frees a register that is still to be sent.  *)
OneReaderPerBlock ==
  /\ \A i, j \in Lane, b \in Block :
       /\ ReadOf(req[i], b) /\ Asked(i)
       /\ ReadOf(req[j], b) /\ Asked(j)
       => i = j
  /\ \A i \in Lane : queued[i] => busy(i)

(* A lane whose request was not sent reads a block that another lane has   *)
(* asked for and still waits for.                                          *)
NobodyForgotten ==
  \A i \in Lane : busy(i) =>
    \/ Asked(i)
    \/ /\ req[i].kind = "read"
       /\ \E j \in Lane : Asked(j) /\ ReadOf(req[j], req[i].addr[1])

Promised == INSTANCE LaneMemory WITH
  Addr <- Block \X Byte, pending <- ldst, mem <- seen

(* To its lanes the core is one memory of bytes: every request takes       *)
(* effect once, when it is answered, and a lane gets the bytes it asked    *)
(* for although another lane's packet brought them.                        *)
ImplementsLaneMemory == Promised!Spec

(* Nothing gets stuck: when the lanes make no new requests, all of them    *)
(* are answered, those that were refused, queued or ride along included.   *)
Asking == \E i \in Lane : ldst[i] = NoReq /\ ldst'[i] # NoReq

QuietLanesAreAnswered ==
  <>[][~ Asking]_vars => []<>(\A i \in Lane : ~ busy(i))

=============================================================================

---------------------------- MODULE Riscv64Proofs ----------------------------
(***************************************************************************)
(* For every program, every memory, every way the ports are shared and     *)
(* every use of the control page: the states of the processor match the    *)
(* packets under way, no answer to a controller is dropped, and the        *)
(* program is executed one instruction after the other.                    *)
(***************************************************************************)
EXTENDS Riscv64, FiniteSetTheorems, TLAPS

(***************************************************************************)
(* Aligning an access, turning it into a mask and reading address and size *)
(* back off the mask loses nothing, for lines of any length; and a memory  *)
(* that serves the packet touches the bytes of the access and no others.   *)
(***************************************************************************)

Sizes == {1, 2, 4, 8}

(* An address is its line and its place in the line.                       *)
LEMMA AlignedAddress ==
  ASSUME NEW addr \in Nat
  PROVE  /\ addr % Line \in Nat /\ packet_align(addr) \in Int
         /\ packet_align(addr) + (addr % Line) = addr
<1>1. addr % Line \in Nat
  BY PacketsAssumption
<1> QED
  BY <1>1 DEF packet_align

(* The line, the mask and the first byte of a packet that is created.      *)
LEMMA CreatedPacket ==
  ASSUME NEW addr \in Nat, NEW len \in Sizes, NEW data, NEW flag
  PROVE  LET p == create_packet(addr, len, data, flag)
         IN  /\ p.to = packet_align(addr) /\ p.flag = flag
             /\ p.mask = (addr % Line) .. (addr % Line) + len - 1
             /\ p.mask # {} /\ p.mask \subseteq Nat
             /\ start(p) = addr % Line
<1> DEFINE p == create_packet(addr, len, data, flag)
           s == addr % Line
<1>1. s \in Nat
  BY AlignedAddress
<1>2. /\ p.to = packet_align(addr) /\ p.flag = flag
      /\ p.mask = s .. s + len - 1
  BY DEF create_packet, packet_mask
<1> HIDE DEF p, s
<1>3. s \in p.mask /\ \A i \in p.mask : s <= i /\ i \in Nat
  BY <1>1, <1>2 DEF Sizes
<1>4. start(p) = s
  BY <1>1, <1>3 DEF start, Min
<1> QED
  BY <1>2, <1>3, <1>4 DEF p, s

(* packet_convto finds the address that create_packet was given.           *)
THEOREM AddressIsKept ==
  ASSUME NEW addr \in Nat, NEW len \in Sizes, NEW data, NEW flag
  PROVE  packet_convto(create_packet(addr, len, data, flag)) = addr
<1> DEFINE p == create_packet(addr, len, data, flag)
<1>1. p.to = packet_align(addr) /\ p.mask # {} /\ start(p) = addr % Line
  BY CreatedPacket
<1>2. packet_align(addr) + (addr % Line) = addr
  BY AlignedAddress
<1> HIDE DEF p
<1>3. packet_convto(p) = addr
  BY <1>1, <1>2 DEF packet_convto
<1> QED
  BY <1>3 DEF p

(* packet_convsize finds the size, though it looks at eight bits of the    *)
(* mask only.                                                              *)
THEOREM SizeIsKept ==
  ASSUME NEW addr \in Nat, NEW len \in Sizes, NEW data, NEW flag
  PROVE  packet_convsize(create_packet(addr, len, data, flag)) = len
<1> DEFINE p == create_packet(addr, len, data, flag)
           s == addr % Line
<1>1. s \in Nat
  BY AlignedAddress
<1>2. p.mask = s .. s + len - 1 /\ p.mask # {} /\ start(p) = s
  BY CreatedPacket
<1> HIDE DEF p, s
<1>3. p.mask \cap (s .. s + 7) = s .. s + len - 1
  BY <1>1, <1>2 DEF Sizes
<1>4. \A n \in Sizes : s .. s + len - 1 = s .. s + n - 1 => n = len
  <2> SUFFICES ASSUME NEW n \in Sizes, s .. s + len - 1 = s .. s + n - 1,
                      n # len
               PROVE  FALSE
    OBVIOUS
  <2>1. CASE n < len
    <3>1. s + n \in s .. s + len - 1 /\ s + n \notin s .. s + n - 1
      BY <1>1, <2>1 DEF Sizes
    <3> QED
      BY <3>1
  <2>2. CASE len < n
    <3>1. s + len \in s .. s + n - 1 /\ s + len \notin s .. s + len - 1
      BY <1>1, <2>2 DEF Sizes
    <3> QED
      BY <3>1
  <2> QED
    BY <2>1, <2>2 DEF Sizes
<1>5. packet_convsize(p)
        = CHOOSE n \in Sizes : s .. s + len - 1 = s .. s + n - 1
  BY <1>2, <1>3 DEF packet_convsize, Sizes
<1> QED
  BY <1>4, <1>5 DEF p

(* The bytes under the mask are those of the access.                       *)
THEOREM MaskIsAccess ==
  ASSUME NEW addr \in Nat, NEW len \in Sizes, NEW data, NEW flag,
         NEW x \in Int
  PROVE  LET p == create_packet(addr, len, data, flag)
         IN  x - p.to \in p.mask <=> x \in addr .. addr + len - 1
<1>1. /\ addr % Line \in Nat /\ packet_align(addr) \in Int
      /\ packet_align(addr) + (addr % Line) = addr
  BY AlignedAddress
<1> DEFINE p == create_packet(addr, len, data, flag)
           s == addr % Line
           line == packet_align(addr)
<1>2. p.to = line /\ p.mask = s .. s + len - 1
  BY CreatedPacket
<1> HIDE DEF p, s, line
<1>3. s \in Nat /\ line \in Int /\ addr = line + s /\ len \in Nat
  BY <1>1 DEF s, line, Sizes
<1>4. x - line \in s .. s + len - 1 <=> x \in line + s .. line + s + len - 1
  BY <1>3
<1> QED
  BY <1>2, <1>3, <1>4 DEF p

(* A load gets the bytes of memory from its address on, lowest first.      *)
THEOREM ReadsItsBytes ==
  ASSUME NEW addr \in Nat, NEW len \in Sizes, NEW data, NEW cells
  PROVE  LET p == create_packet(addr, len, data, "read")
         IN  first_bytes(checked_copyto(p, cells), len)
               = [k \in 0 .. len - 1 |-> cells[addr + k]]
<1> DEFINE p == create_packet(addr, len, data, "read")
           q == checked_copyto(p, cells)
           s == addr % Line
<1>1. /\ s \in Nat /\ packet_align(addr) \in Int /\ packet_align(addr) + s = addr
  BY AlignedAddress
<1>2. /\ p.to = packet_align(addr) /\ p.mask = s .. s + len - 1 /\ start(p) = s
  BY CreatedPacket
<1>3. /\ q.mask = p.mask /\ q.data = [i \in p.mask |-> cells[p.to + i]]
  BY DEF checked_copyto, create_packet
<1>4. start(q) = s
  BY <1>2, <1>3 DEF start
<1>5. first_bytes(q, len) = [k \in 0 .. len - 1 |-> q.data[s + k]]
  BY <1>4 DEF first_bytes
<1> HIDE DEF p, q, s
<1>6. ASSUME NEW k \in 0 .. len - 1
      PROVE  q.data[s + k] = cells[addr + k]
  <2>1. s + k \in p.mask
    BY <1>1, <1>2 DEF Sizes
  <2>2. q.data[s + k] = cells[p.to + (s + k)]
    BY <1>3, <2>1
  <2>3. p.to + (s + k) = addr + k
    BY <1>1, <1>2 DEF Sizes
  <2> QED
    BY <2>2, <2>3
<1> QED
  BY <1>5, <1>6 DEF p, q

(* A store leaves its bytes at its address and every other byte alone.     *)
THEOREM WritesItsBytes ==
  ASSUME NEW addr \in Nat, NEW len \in Sizes, NEW data,
         NEW Places \in SUBSET Int, NEW cells, DOMAIN cells = Places
  PROVE  checked_copyfrom(create_packet(addr, len, data, "write"), cells)
           = [a \in Places |-> IF a \in addr .. addr + len - 1
                               THEN data[a - addr] ELSE cells[a]]
<1> DEFINE p == create_packet(addr, len, data, "write")
           s == addr % Line
<1>1. /\ s \in Nat /\ packet_align(addr) \in Int /\ packet_align(addr) + s = addr
  BY AlignedAddress
<1>2. /\ p.to = packet_align(addr) /\ p.mask = s .. s + len - 1
  BY CreatedPacket
<1>3. p.data = [i \in p.mask |-> data[i - s]]
  BY DEF create_packet
<1>4. \A a \in Places : a - p.to \in p.mask <=> a \in addr .. addr + len - 1
  BY MaskIsAccess
<1> HIDE DEF p, s
<1>5. ASSUME NEW a \in Places, a - p.to \in p.mask
      PROVE  p.data[a - p.to] = data[a - addr]
  <2>1. (a - p.to) - s = a - addr
    BY <1>1, <1>2
  <2> QED
    BY <1>3, <1>5, <2>1
<1>6. checked_copyfrom(p, cells)
        = [a \in Places |-> IF a - p.to \in p.mask THEN p.data[a - p.to] ELSE cells[a]]
  BY DEF checked_copyfrom
<1> QED
  BY <1>4, <1>5, <1>6 DEF p

----------------------------------------------------------------------------

(* None is no packet: a condition of the theorems.                         *)
NoneIsNoPacket == \A x : None # Fetch(x) /\ None # Data(x)

At(pp, kind) == {p \in Port : pp[p] # None /\ pp[p].kind = kind}
Served(S, kind) == {m \in S : m.kind = kind}

(* One packet of the kind is under way, or none is.                        *)
OnePacket(pp, S, kind, one) ==
  IF one
  THEN \/ (\E p \in Port : At(pp, kind) = {p}) /\ Served(S, kind) = {}
       \/ At(pp, kind) = {} /\ (\E m : Served(S, kind) = {m})
  ELSE At(pp, kind) = {} /\ Served(S, kind) = {}

Controls == {Control(c, s) : c \in Controller, s \in BOOLEAN}

Ports(a, q) == [Port -> {None, Other, Fetch(a), Data(q)} \cup Controls]

IsPacket(q) ==
  q = [to |-> q.to, mask |-> q.mask, flag |-> q.flag, data |-> q.data]

(* The access of q to the memory b has been made: a read holds what memory *)
(* holds, a write would change nothing more.                               *)
Effected(q, b) ==
  /\ mapped(q)
  /\ q.flag = "read" => checked_copyto(q, b) = q
  /\ q.flag = "write" => checked_copyfrom(q, b) = b

(* r is the packet q, or q with the bytes that a read brings.              *)
SameAccess(r, q, b) ==
  /\ r.to = q.to /\ r.mask = q.mask /\ r.flag = q.flag /\ IsPacket(r)
  /\ checked_copyto(r, b) = checked_copyto(q, b)
  /\ q.flag = "write" => r = q

AnswerTo(m, a, q, b) ==
  \/ m = [kind |-> "fetch", what |-> a, err |-> m.err]
  \/ /\ m = [kind |-> "data", what |-> m.what, err |-> m.err]
     /\ SameAccess(m.what, q, b)
     /\ ~ m.err => Effected(m.what, b)

(* The inductive invariant: what the registers behind the ports, the       *)
(* answers and the states have to do with each other.                      *)
ProcessorInv ==
  /\ ils = [state |-> ils.state, pc |-> pc, err |-> ils.err]
  /\ dls = [state |-> dls.state, pkt |-> dls.pkt, reg |-> dls.reg,
            u |-> dls.u, err |-> dls.err]
  /\ IsPacket(dls.pkt)
  /\ port \in Ports(pc, dls.pkt)
  /\ \A m \in served : AnswerTo(m, pc, dls.pkt, mem)
  /\ OnePacket(port, served, "fetch", ils.state = "sent")
  /\ OnePacket(port, served, "data", dls.state = "sent")
  /\ dls.state = "done" /\ ~ dls.err => Effected(dls.pkt, mem)
  /\ waiting = {cls} \ {None}

----------------------------------------------------------------------------
(* The four kinds of messages are told apart.                              *)
LEMMA Kinds ==
  /\ \A x : Fetch(x).kind = "fetch" /\ Data(x).kind = "data"
  /\ \A x \in Controls : x.kind = "control"
  /\ Other.kind = "other"
BY DEF Fetch, Data, Other, Control, Controls

(* A register that is emptied.                                             *)
LEMMA Emptied ==
  ASSUME NEW D, NEW pp \in [Port -> D], NEW p \in Port, NEW kind
  PROVE  At([pp EXCEPT ![p] = None], kind) = At(pp, kind) \ {p}
BY DEF At

(* With no fetch at the ports their contents do not depend on its address, *)
(* and with no transfer not on the packet.                                 *)
LEMMA NoFetch ==
  ASSUME NoneIsNoPacket, NEW a, NEW q, NEW pp \in Ports(a, q),
         At(pp, "fetch") = {}, NEW b
  PROVE  pp \in Ports(b, q)
<1>1. \A p \in Port : pp[p] # Fetch(a)
  BY Kinds DEF At, NoneIsNoPacket
<1> QED
  BY <1>1 DEF Ports

(* The same for the packet of a transfer.                                  *)
LEMMA NoTransfer ==
  ASSUME NoneIsNoPacket, NEW a, NEW q, NEW pp \in Ports(a, q),
         At(pp, "data") = {}, NEW r
  PROVE  pp \in Ports(a, r)
<1>1. \A p \in Port : pp[p] # Data(q)
  BY Kinds DEF At, NoneIsNoPacket
<1> QED
  BY <1>1 DEF Ports

(* What the ports of the next moment hold after a blocked answer went out. *)
LEMMA AfterAnswer ==
  ASSUME ProcessorInv, NEW ports, answer_control(ports)
  PROVE  /\ ports \in Ports(pc, dls.pkt)
         /\ At(ports, "fetch") = At(port, "fetch")
         /\ At(ports, "data") = At(port, "data")
         /\ cls' = None /\ waiting' = {cls'} \ {None}
<1>1. port \in Ports(pc, dls.pkt) /\ ctrl \in Port
  BY DEF ProcessorInv, Port
<1>2. CASE cls = None
  BY <1>1, <1>2 DEF answer_control, ProcessorInv
<1>3. CASE cls # None
  <2>1. port[ctrl] = None /\ ports = [port EXCEPT ![ctrl] = Other]
    BY <1>3 DEF answer_control, free
  <2>2. ports \in Ports(pc, dls.pkt)
    BY <1>1, <2>1 DEF Ports
  <2>3. \A k \in {"fetch", "data"} : At(ports, k) = At(port, k)
    BY <1>1, <2>1, Kinds DEF Ports, At
  <2> QED
    BY <2>2, <2>3 DEF answer_control, ProcessorInv
<1> QED
  BY <1>2, <1>3

(* The fetch at b is sent or blocked.                                      *)
LEMMA FetchSent ==
  ASSUME NoneIsNoPacket, NEW a, NEW q, NEW pp \in Ports(a, q), NEW b,
         At(pp, "fetch") = {}, Served(served, "fetch") = {}, fetch(pp, b)
  PROVE  /\ ils' = [state |-> ils'.state, pc |-> b, err |-> ils'.err]
         /\ port' \in Ports(b, q)
         /\ At(port', "data") = At(pp, "data")
         /\ OnePacket(port', served, "fetch", ils'.state = "sent")
<1>1. imem \in Port /\ pp \in Ports(b, q)
  BY NoFetch DEF Port
<1>2. CASE pp[imem] = None
  <2>1. /\ ils' = [state |-> "sent", pc |-> b, err |-> FALSE]
        /\ port' = [pp EXCEPT ![imem] = Fetch(b)]
    BY <1>2 DEF fetch
  <2>2. At(port', "fetch") = {imem} /\ At(port', "data") = At(pp, "data")
    <3>1. Fetch(b) # None /\ Fetch(b).kind = "fetch"
      BY Kinds DEF NoneIsNoPacket
    <3>2. At(port', "fetch") = At(pp, "fetch") \cup {imem}
      BY <1>1, <1>2, <2>1, <3>1 DEF At, Ports
    <3>3. At(port', "data") = At(pp, "data")
      BY <1>1, <1>2, <2>1, <3>1 DEF At, Ports
    <3> QED
      BY <3>2, <3>3
  <2>3. port' \in Ports(b, q)
    BY <1>1, <2>1 DEF Ports
  <2> QED
    BY <1>1, <2>1, <2>2, <2>3 DEF OnePacket
<1>3. CASE pp[imem] # None
  BY <1>1, <1>3 DEF fetch, OnePacket
<1> QED
  BY <1>2, <1>3

----------------------------------------------------------------------------
(* The answer to a fetch: it was the only packet of the fetch, which is    *)
(* then done.                                                              *)
LEMMA ReceiveInstKeeps ==
  ASSUME ProcessorInv, NEW m, receive_inst(m)
  PROVE  ProcessorInv'
<1>1. /\ m \in served /\ m.kind = "fetch" /\ m.what = pc
      /\ m = [kind |-> "fetch", what |-> pc, err |-> m.err]
  BY DEF receive_inst, ProcessorInv, AnswerTo
<1>2. /\ ils' = [state |-> "done", pc |-> pc, err |-> m.err]
      /\ served' = served \ {m}
      /\ UNCHANGED <<dls, cls, pc, port, mem, waiting>>
  BY <1>1 DEF receive_inst
<1>3. At(port, "fetch") = {} /\ Served(served, "fetch") = {m}
  BY <1>1 DEF ProcessorInv, OnePacket, Served
<1>4. Served(served', "fetch") = {} /\ Served(served', "data") = Served(served, "data")
  BY <1>1, <1>2, <1>3 DEF Served
<1>5. OnePacket(port', served', "fetch", ils'.state = "sent")
  BY <1>2, <1>3, <1>4 DEF OnePacket
<1>6. OnePacket(port', served', "data", dls'.state = "sent")
  BY <1>2, <1>4 DEF OnePacket, ProcessorInv
<1>7. \A x \in served' : AnswerTo(x, pc', dls'.pkt, mem')
  BY <1>2 DEF ProcessorInv
<1>8. ils' = [state |-> ils'.state, pc |-> pc', err |-> ils'.err]
  BY <1>2
<1> QED
  BY <1>2, <1>5, <1>6, <1>7, <1>8 DEF ProcessorInv

(* The answer to a transfer: it was the only packet of the transfer.       *)
LEMMA ReceiveDataKeeps ==
  ASSUME ProcessorInv, NEW m, receive_data(m)
  PROVE  /\ ProcessorInv'
         /\ dls' = [dls EXCEPT !.state = "done", !.pkt = m.what, !.err = m.err]
         /\ dls.state = "sent" /\ SameAccess(m.what, dls.pkt, mem)
<1>1. /\ m \in served /\ m.kind = "data"
      /\ SameAccess(m.what, dls.pkt, mem)
      /\ ~ m.err => Effected(m.what, mem)
  BY DEF receive_data, ProcessorInv, AnswerTo
<1>2. /\ dls' = [dls EXCEPT !.state = "done", !.pkt = m.what, !.err = m.err]
      /\ served' = served \ {m}
      /\ UNCHANGED <<ils, cls, pc, port, mem, waiting>>
  BY <1>1 DEF receive_data
<1>3. /\ At(port, "data") = {} /\ Served(served, "data") = {m}
      /\ dls.state = "sent"
  BY <1>1 DEF ProcessorInv, OnePacket, Served
<1>4. Served(served', "data") = {} /\ Served(served', "fetch") = Served(served, "fetch")
  BY <1>1, <1>2, <1>3 DEF Served
<1>5. /\ dls'.state = "done" /\ dls'.pkt = m.what /\ dls'.err = m.err
      /\ dls' = [state |-> dls'.state, pkt |-> dls'.pkt, reg |-> dls'.reg,
                 u |-> dls'.u, err |-> dls'.err]
  BY <1>2 DEF ProcessorInv
<1>6. OnePacket(port', served', "data", dls'.state = "sent")
  BY <1>2, <1>3, <1>4, <1>5 DEF OnePacket
<1>7. OnePacket(port', served', "fetch", ils'.state = "sent")
  BY <1>2, <1>4 DEF OnePacket, ProcessorInv
<1>8. \A x \in served' : AnswerTo(x, pc', dls'.pkt, mem')
  <2> SUFFICES ASSUME NEW x \in served'
               PROVE  x = [kind |-> "fetch", what |-> pc, err |-> x.err]
    BY <1>2 DEF AnswerTo
  <2>1. x \in served /\ x.kind # "data"
    BY <1>2, <1>4 DEF Served
  <2> QED
    BY <2>1 DEF ProcessorInv, AnswerTo
<1>9. port' \in Ports(pc', dls'.pkt)
  <2>1. \A p \in Port : port[p] # Data(dls.pkt) \/ port[p] = None
    BY <1>3, Kinds DEF At
  <2> QED
    BY <1>2, <2>1 DEF ProcessorInv, Ports
<1>10. IsPacket(dls'.pkt)
  BY <1>1, <1>5 DEF SameAccess, IsPacket
<1>11. (dls.state = "done" /\ ~ dls.err => Effected(dls.pkt, mem))'
  BY <1>1, <1>2, <1>5
<1>12. /\ ils' = [state |-> ils'.state, pc |-> pc', err |-> ils'.err]
       /\ waiting' = {cls'} \ {None}
  BY <1>2 DEF ProcessorInv
<1> QED
  BY <1>1, <1>2, <1>3, <1>5, <1>6, <1>7, <1>8, <1>9, <1>10, <1>11, <1>12
     DEF ProcessorInv

(* A request of a controller that is taken leaves the processor's packets  *)
(* where they are.                                                         *)
LEMMA ReceiveControlKeeps ==
  ASSUME ProcessorInv, NEW c \in Controller, NEW s \in BOOLEAN,
         receive_control(c, s)
  PROVE  ProcessorInv'
<1>1. /\ UNCHANGED <<ils, dls, pc, served, mem>> /\ cls = None
      /\ port \in Ports(pc, dls.pkt) /\ ctrl \in Port /\ inbox \in Port
      /\ port[inbox] = Control(c, s)
  BY DEF receive_control, ProcessorInv, Port
<1>2. port[inbox] \in Controls
  BY <1>1 DEF Controls
<1>3. /\ port' \in Ports(pc, dls.pkt)
      /\ At(port', "fetch") = At(port, "fetch")
      /\ At(port', "data") = At(port, "data")
  <2>1. CASE free(ctrl)
    <3>1. /\ port' = [port EXCEPT ![inbox] = None, ![ctrl] = Other]
          /\ port[ctrl] = None
      BY <2>1 DEF receive_control, free
    <3> QED
      BY <1>1, <1>2, <3>1, Kinds DEF Ports, At
  <2>2. CASE ~ free(ctrl)
    <3>1. port' = [port EXCEPT ![inbox] = None]
      BY <2>2 DEF receive_control
    <3> QED
      BY <1>1, <1>2, <3>1, Kinds DEF Ports, At
  <2> QED
    BY <2>1, <2>2
<1>4. waiting' = {cls'} \ {None}
  BY <1>1, ProcessorAssumption DEF receive_control, ProcessorInv
<1> QED
  BY <1>1, <1>3, <1>4
     DEF ProcessorInv, OnePacket

(* So does one that comes into the register.                               *)
LEMMA RequestKeeps ==
  ASSUME ProcessorInv, NEW c \in Controller, NEW s \in BOOLEAN, Request(c, s)
  PROVE  ProcessorInv'
<1>1. /\ UNCHANGED <<ils, dls, cls, pc, served, mem, waiting>>
      /\ port' = [port EXCEPT ![inbox] = Control(c, s)] /\ port[inbox] = None
      /\ port \in Ports(pc, dls.pkt)
  BY DEF Request, ProcessorInv, free
<1>2. Control(c, s) \in Controls
  BY DEF Controls
<1>3. /\ port' \in Ports(pc, dls.pkt)
      /\ At(port', "fetch") = At(port, "fetch")
      /\ At(port', "data") = At(port, "data")
  BY <1>1, <1>2, Kinds DEF Ports, At
<1> QED
  BY <1>1, <1>3
     DEF ProcessorInv, OnePacket

(* So does a packet of another component.                                  *)
LEMMA OccupyKeeps ==
  ASSUME ProcessorInv, NEW p \in Port, Occupy(p)
  PROVE  ProcessorInv'
<1>1. /\ UNCHANGED <<ils, dls, cls, pc, served, mem, waiting>>
      /\ port' = [port EXCEPT ![p] = Other] /\ port[p] = None
      /\ port \in Ports(pc, dls.pkt)
  BY DEF Occupy, ProcessorInv, free
<1>2. /\ port' \in Ports(pc, dls.pkt)
      /\ At(port', "fetch") = At(port, "fetch")
      /\ At(port', "data") = At(port, "data")
  BY <1>1, Kinds DEF Ports, At
<1> QED
  BY <1>1, <1>2
     DEF ProcessorInv, OnePacket

(* A read can be repeated, and so can a write.                             *)
LEMMA CopyToTwice ==
  ASSUME NEW q, IsPacket(q), NEW b
  PROVE  LET r == checked_copyto(q, b)
         IN  /\ r.to = q.to /\ r.mask = q.mask /\ r.flag = q.flag /\ IsPacket(r)
             /\ checked_copyto(r, b) = r
<1> DEFINE r == checked_copyto(q, b)
           d == [i \in q.mask |-> b[q.to + i]]
<1>1. r = [to |-> q.to, mask |-> q.mask, flag |-> q.flag, data |-> d]
  BY DEF checked_copyto, IsPacket
<1> HIDE DEF r
<1>2. /\ r.to = q.to /\ r.mask = q.mask /\ r.flag = q.flag /\ r.data = d
      /\ IsPacket(r)
  BY <1>1 DEF IsPacket
<1>3. checked_copyto(r, b) = [r EXCEPT !.data = d]
  BY <1>2 DEF checked_copyto
<1>4. [r EXCEPT !.data = d] = r
  BY <1>1, <1>2
<1> QED
  BY <1>2, <1>3, <1>4 DEF r

(* A write that is repeated changes nothing more.                          *)
LEMMA CopyFromTwice ==
  ASSUME NEW q, NEW b
  PROVE  checked_copyfrom(q, checked_copyfrom(q, b)) = checked_copyfrom(q, b)
BY DEF checked_copyfrom

(* A packet that leaves a port and comes back as an answer.                *)
LEMMA ServedPacket ==
  ASSUME ProcessorInv, NEW p \in Port, port[p] # None,
         port' = [port EXCEPT ![p] = None], NEW k \in {"fetch", "data"},
         port[p].kind = k, NEW m, m.kind = k, served' = served \cup {m},
         ils' = ils, dls' = dls, pc' = pc
  PROVE  /\ port' \in Ports(pc', dls'.pkt)
         /\ OnePacket(port', served', "fetch", ils'.state = "sent")
         /\ OnePacket(port', served', "data", dls'.state = "sent")
         /\ k = "data" => dls.state = "sent" /\ Served(served, "data") = {}
<1>1. /\ port \in Ports(pc, dls.pkt)
      /\ OnePacket(port, served, "fetch", ils.state = "sent")
      /\ OnePacket(port, served, "data", dls.state = "sent")
  BY DEF ProcessorInv
<1>2. port' \in Ports(pc', dls'.pkt)
  BY <1>1 DEF Ports
<1>3. \A j \in {"fetch", "data"} : At(port', j) = At(port, j) \ {p}
  BY <1>1 DEF Ports, At
<1>4. p \in At(port, k) /\ \A j \in {"fetch", "data"} \ {k} : p \notin At(port, j)
  BY DEF At
<1>5. At(port, k) = {p} /\ Served(served, k) = {}
  BY <1>1, <1>4 DEF OnePacket
<1>6. /\ At(port', k) = {} /\ Served(served', k) = {m}
      /\ \A j \in {"fetch", "data"} \ {k} :
           At(port', j) = At(port, j) /\ Served(served', j) = Served(served, j)
  <2>1. At(port', k) = {}
    BY <1>3, <1>5
  <2>2. \A j \in {"fetch", "data"} \ {k} : At(port', j) = At(port, j)
    BY <1>3, <1>4
  <2>3. \A j \in {"fetch", "data"} \ {k} : Served(served', j) = Served(served, j)
    BY DEF Served
  <2>4. Served(served', k) = {m}
    BY <1>5 DEF Served
  <2> QED
    BY <2>1, <2>2, <2>3, <2>4
<1>7. \A one : OnePacket(port, served, k, one) => one
  BY <1>5 DEF OnePacket
<1>8. \A one : OnePacket(port, served, k, one) => OnePacket(port', served', k, one)
  BY <1>6, <1>7 DEF OnePacket
<1>9. \A j \in {"fetch", "data"} \ {k} : \A one :
        OnePacket(port, served, j, one) => OnePacket(port', served', j, one)
  BY <1>6 DEF OnePacket
<1>10. OnePacket(port', served', "fetch", ils'.state = "sent")
  BY <1>1, <1>8, <1>9
<1>11. OnePacket(port', served', "data", dls'.state = "sent")
  BY <1>1, <1>8, <1>9
<1> QED
  BY <1>1, <1>2, <1>5, <1>7, <1>10, <1>11

(* A packet that is served becomes an answer, and memory changes only      *)
(* when it is a write.                                                     *)
LEMMA MoveKeeps ==
  ASSUME ProcessorInv, NEW p \in Port, NEW err \in BOOLEAN, Move(p, err)
  PROVE  /\ ProcessorInv'
         /\ \/ mem' = mem
            \/ /\ dls.state = "sent" /\ dls.pkt.flag = "write"
               /\ mapped(dls.pkt) /\ mem' = checked_copyfrom(dls.pkt, mem)
<1> DEFINE q == dls.pkt
<1>1. /\ UNCHANGED <<ils, dls, cls, pc, regs, running, waiting>>
      /\ port' = [port EXCEPT ![p] = None] /\ port[p] # None
      /\ port \in Ports(pc, q) /\ IsPacket(q)
  BY DEF Move, ProcessorInv, free
<1>2. port[p] \in {Other, Fetch(pc), Data(q)}
  BY <1>1, Kinds DEF Ports, Move
<1>3. /\ ils' = [state |-> ils'.state, pc |-> pc', err |-> ils'.err]
      /\ dls' = [state |-> dls'.state, pkt |-> dls'.pkt, reg |-> dls'.reg,
                 u |-> dls'.u, err |-> dls'.err]
      /\ IsPacket(dls'.pkt) /\ waiting' = {cls'} \ {None}
  BY <1>1 DEF ProcessorInv
<1>4. CASE port[p].kind = "other" /\ ~ err /\ UNCHANGED <<served, mem>>
  <2>1. /\ port' \in Ports(pc', dls'.pkt)
        /\ At(port', "fetch") = At(port, "fetch")
        /\ At(port', "data") = At(port, "data")
    BY <1>1, <1>4 DEF Ports, At
  <2>2. /\ OnePacket(port', served', "fetch", ils'.state = "sent")
        /\ OnePacket(port', served', "data", dls'.state = "sent")
    BY <1>1, <1>4, <2>1 DEF ProcessorInv, OnePacket
  <2> QED
    BY <1>1, <1>3, <1>4, <2>1, <2>2 DEF ProcessorInv
<1>5. CASE /\ port[p].kind = "fetch" \/ (port[p].kind = "data" /\ err)
           /\ served' = served \cup {[port[p] EXCEPT !.err = err]}
           /\ UNCHANGED mem
  <2> DEFINE m == [port[p] EXCEPT !.err = err]
  <2>1. CASE port[p].kind = "fetch"
    <3>1. port[p] = Fetch(pc)
      BY <1>2, <2>1, Kinds
    <3>2. m = [kind |-> "fetch", what |-> pc, err |-> err]
      BY <3>1 DEF Fetch
    <3> HIDE DEF m
    <3>3. m.kind = "fetch" /\ AnswerTo(m, pc, q, mem)
      BY <3>2 DEF AnswerTo
    <3>4. \A x \in served' : AnswerTo(x, pc', dls'.pkt, mem')
      BY <1>1, <1>5, <3>3 DEF ProcessorInv, m
    <3>5. /\ port' \in Ports(pc', dls'.pkt)
          /\ OnePacket(port', served', "fetch", ils'.state = "sent")
          /\ OnePacket(port', served', "data", dls'.state = "sent")
      BY <1>1, <1>5, <2>1, <3>3, ServedPacket DEF m
    <3> QED
      BY <1>1, <1>3, <1>5, <3>4, <3>5 DEF ProcessorInv
  <2>2. CASE port[p].kind = "data" /\ err
    <3>1. port[p] = Data(q)
      BY <1>2, <2>2, Kinds
    <3>2. m = [kind |-> "data", what |-> q, err |-> err]
      BY <3>1 DEF Data
    <3> HIDE DEF m
    <3>3. m.kind = "data" /\ AnswerTo(m, pc, q, mem)
      BY <1>1, <2>2, <3>2 DEF AnswerTo, SameAccess
    <3>4. \A x \in served' : AnswerTo(x, pc', dls'.pkt, mem')
      BY <1>1, <1>5, <3>3 DEF ProcessorInv, m
    <3>5. /\ port' \in Ports(pc', dls'.pkt)
          /\ OnePacket(port', served', "fetch", ils'.state = "sent")
          /\ OnePacket(port', served', "data", dls'.state = "sent")
      BY <1>1, <1>5, <2>2, <3>3, ServedPacket DEF m
    <3> QED
      BY <1>1, <1>3, <1>5, <3>4, <3>5 DEF ProcessorInv
  <2> QED
    BY <1>5, <2>1, <2>2
<1>6. CASE /\ port[p].kind = "data" /\ ~ err /\ mapped(port[p].what)
           /\ port[p].what.flag = "read"
           /\ served' = served \cup {Data(checked_copyto(port[p].what, mem))}
           /\ UNCHANGED mem
  <2> DEFINE r == checked_copyto(q, mem)
             m == Data(r)
  <2>1. port[p] = Data(q) /\ port[p].what = q
    <3>1. port[p] = Data(q)
      BY <1>2, <1>6, Kinds
    <3> QED
      BY <3>1 DEF Data
  <2>2. /\ r.to = q.to /\ r.mask = q.mask /\ r.flag = q.flag /\ IsPacket(r)
        /\ checked_copyto(r, mem) = r
    BY <1>1, CopyToTwice
  <2> HIDE DEF r
  <2>3. /\ m = [kind |-> "data", what |-> r, err |-> FALSE]
        /\ m.kind = "data" /\ m.what = r /\ m.err = FALSE
    BY DEF Data
  <2>4. SameAccess(r, q, mem) /\ Effected(r, mem)
    BY <1>6, <2>1, <2>2 DEF SameAccess, Effected, mapped, r
  <2>5. AnswerTo(m, pc, q, mem)
    BY <2>3, <2>4 DEF AnswerTo
  <2>6. served' = served \cup {m}
    BY <1>6, <2>1 DEF r
  <2> HIDE DEF m
  <2>7. \A x \in served' : AnswerTo(x, pc', dls'.pkt, mem')
    BY <1>1, <1>6, <2>5, <2>6 DEF ProcessorInv
  <2>8. /\ port' \in Ports(pc', dls'.pkt)
        /\ OnePacket(port', served', "fetch", ils'.state = "sent")
        /\ OnePacket(port', served', "data", dls'.state = "sent")
    BY <1>1, <1>6, <2>3, <2>6, ServedPacket
  <2> QED
    BY <1>1, <1>3, <1>6, <2>7, <2>8 DEF ProcessorInv
<1>7. CASE /\ port[p].kind = "data" /\ ~ err /\ mapped(port[p].what)
           /\ port[p].what.flag = "write"
           /\ served' = served \cup {port[p]}
           /\ mem' = checked_copyfrom(port[p].what, mem)
  <2>1. /\ port[p] = Data(q) /\ port[p].what = q
        /\ port[p] = [kind |-> "data", what |-> q, err |-> FALSE]
    <3>1. port[p] = Data(q)
      BY <1>2, <1>7, Kinds
    <3> QED
      BY <3>1 DEF Data
  <2>2. SameAccess(q, q, mem') /\ Effected(q, mem')
    BY <1>1, <1>7, <2>1, CopyFromTwice DEF SameAccess, Effected
  <2>3. AnswerTo(port[p], pc, q, mem')
    BY <2>1, <2>2 DEF AnswerTo
  <2>4. /\ port' \in Ports(pc', dls'.pkt)
        /\ OnePacket(port', served', "fetch", ils'.state = "sent")
        /\ OnePacket(port', served', "data", dls'.state = "sent")
        /\ dls.state = "sent" /\ Served(served, "data") = {}
    BY <1>1, <1>7, ServedPacket
  <2>5. \A x \in served : AnswerTo(x, pc, q, mem')
    <3> SUFFICES ASSUME NEW x \in served
                 PROVE  AnswerTo(x, pc, q, mem')
      OBVIOUS
    <3>1. x.kind # "data"
      BY <2>4 DEF Served
    <3>2. x = [kind |-> "fetch", what |-> pc, err |-> x.err]
      BY <3>1 DEF ProcessorInv, AnswerTo
    <3> QED
      BY <3>2 DEF AnswerTo
  <2>6. \A x \in served' : AnswerTo(x, pc', dls'.pkt, mem')
    BY <1>1, <1>7, <2>3, <2>5
  <2>7. ~ (dls'.state = "done")
    BY <1>1, <2>4
  <2> QED
    BY <1>1, <1>3, <1>7, <2>1, <2>4, <2>6, <2>7 DEF ProcessorInv
<1> QED
  BY <1>4, <1>5, <1>6, <1>7 DEF Move

----------------------------------------------------------------------------
(* What dls becomes when instruction i is executed.                        *)
Next_dls(ports, i, r) ==
  IF i.op \in Transfers THEN transfer(ports, i, r) ELSE closed

(* A transfer that is closed keeps all but its state.                      *)
LEMMA ClosedTransfer ==
  ASSUME ProcessorInv
  PROVE  closed = [state |-> "idle", pkt |-> dls.pkt, reg |-> dls.reg,
                   u |-> dls.u, err |-> dls.err]
BY DEF ProcessorInv, closed

(* What create_packet returns is a packet.                                 *)
LEMMA CreatedIsPacket ==
  ASSUME NEW addr, NEW n, NEW data, NEW flag
  PROVE  IsPacket(create_packet(addr, n, data, flag))
BY DEF IsPacket, create_packet

(* A settled transfer has no packet under way, and a fetch that is not     *)
(* sent has none.                                                          *)
LEMMA NoneUnderWay ==
  ASSUME ProcessorInv, NEW ports, answer_control(ports)
  PROVE  /\ dls.state # "sent" => At(ports, "data") = {} /\ Served(served, "data") = {}
         /\ ils.state # "sent" => At(ports, "fetch") = {} /\ Served(served, "fetch") = {}
BY AfterAnswer DEF ProcessorInv, OnePacket

(* An instruction has at most one transfer under way after it has been     *)
(* executed: its own.                                                      *)
LEMMA TransferSent ==
  ASSUME NoneIsNoPacket, ProcessorInv, NEW ports, answer_control(ports),
         dls_settled, NEW i, NEW r
  PROVE  LET d == Next_dls(ports, i, r)
             pp == sent(ports, i, r)
         IN  /\ d = [state |-> d.state, pkt |-> d.pkt, reg |-> d.reg,
                     u |-> d.u, err |-> d.err]
             /\ IsPacket(d.pkt) /\ d.state # "done"
             /\ pp \in Ports(pc, d.pkt)
             /\ At(pp, "fetch") = At(ports, "fetch")
             /\ OnePacket(pp, served, "data", d.state = "sent")
<1> DEFINE d == Next_dls(ports, i, r)
           pp == sent(ports, i, r)
           q == transfer_packet(i, r)
<1>1. /\ ports \in Ports(pc, dls.pkt) /\ dmem \in Port
      /\ At(ports, "data") = {} /\ Served(served, "data") = {}
  BY AfterAnswer, NoneUnderWay DEF dls_settled, Port
<1>2. CASE i.op \in Transfers
  <2>1. d = [state |-> IF ports[dmem] = None THEN "sent" ELSE "blocked",
             pkt |-> q, reg |-> IF i.op = "LOAD" THEN i.rd ELSE 0,
             u |-> i.op = "LOAD" /\ i.alt, err |-> FALSE]
    BY <1>2 DEF Next_dls, transfer
  <2>2. IsPacket(q)
    BY CreatedIsPacket DEF transfer_packet
  <2>3. ports \in Ports(pc, q)
    BY <1>1, NoTransfer
  <2>4. pp = IF ports[dmem] = None THEN [ports EXCEPT ![dmem] = Data(q)] ELSE ports
    BY <1>2 DEF sent
  <2> HIDE DEF d, pp, q
  <2>5. d.pkt = q /\ (d.state = "sent" <=> ports[dmem] = None) /\ d.state # "done"
    BY <2>1
  <2>6. d = [state |-> d.state, pkt |-> d.pkt, reg |-> d.reg, u |-> d.u,
             err |-> d.err]
    BY <2>1
  <2>7. pp \in Ports(pc, q)
    BY <1>1, <2>3, <2>4 DEF Ports
  <2>8. At(pp, "fetch") = At(ports, "fetch")
    BY <1>1, <2>3, <2>4, Kinds DEF Ports, At
  <2>9. ports[dmem] = None => At(pp, "data") = {dmem}
    <3>1. Data(q) # None /\ Data(q).kind = "data"
      BY Kinds DEF NoneIsNoPacket
    <3> QED
      BY <1>1, <2>3, <2>4, <3>1 DEF Ports, At
  <2>10. ports[dmem] # None => At(pp, "data") = {}
    BY <1>1, <2>4
  <2>11. OnePacket(pp, served, "data", d.state = "sent")
    BY <1>1, <2>5, <2>9, <2>10 DEF OnePacket
  <2> QED
    BY <2>2, <2>5, <2>6, <2>7, <2>8, <2>11 DEF d, pp
<1>3. CASE i.op \notin Transfers
  <2>1. /\ pp = ports
        /\ d = [state |-> "idle", pkt |-> dls.pkt, reg |-> dls.reg,
                u |-> dls.u, err |-> dls.err]
    BY <1>3, ClosedTransfer DEF Next_dls, sent
  <2>2. IsPacket(dls.pkt)
    BY DEF ProcessorInv
  <2> HIDE DEF d, pp
  <2>3. d.state = "idle" /\ d.pkt = dls.pkt
    BY <2>1
  <2>4. d = [state |-> d.state, pkt |-> d.pkt, reg |-> d.reg, u |-> d.u,
             err |-> d.err]
    BY <2>1
  <2> QED
    BY <1>1, <2>1, <2>2, <2>3, <2>4 DEF OnePacket, d, pp
<1> QED
  BY <1>2, <1>3

(* The case that executes: the transfer goes out, then the next fetch,     *)
(* perhaps through the same port.                                          *)
LEMMA ExecuteKeeps ==
  ASSUME NoneIsNoPacket, ProcessorInv, NEW ports, answer_control(ports),
         UNCHANGED <<served, mem>>, clock_execute(ports)
  PROVE  ProcessorInv'
<1> DEFINE i == decoded
           r == finalized
           pp == sent(ports, i, r)
<1>1. /\ pc' = after(i, r, pc) /\ dls' = Next_dls(ports, i, r)
      /\ fetch(pp, pc') /\ dls_settled /\ ils.state = "done"
  BY DEF clock_execute, Next_dls
<1>2. /\ dls' = [state |-> dls'.state, pkt |-> dls'.pkt, reg |-> dls'.reg,
                 u |-> dls'.u, err |-> dls'.err]
      /\ IsPacket(dls'.pkt) /\ dls'.state # "done"
      /\ pp \in Ports(pc, dls'.pkt)
      /\ At(pp, "fetch") = At(ports, "fetch")
      /\ OnePacket(pp, served, "data", dls'.state = "sent")
  BY <1>1, TransferSent
<1> HIDE DEF i, r, pp
<1>3. /\ At(ports, "fetch") = {} /\ Served(served, "fetch") = {}
      /\ Served(served, "data") = {}
  BY <1>1, NoneUnderWay DEF dls_settled
<1>4. /\ ils' = [state |-> ils'.state, pc |-> pc', err |-> ils'.err]
      /\ port' \in Ports(pc', dls'.pkt)
      /\ At(port', "data") = At(pp, "data")
      /\ OnePacket(port', served, "fetch", ils'.state = "sent")
  BY <1>1, <1>2, <1>3, FetchSent
<1>5. OnePacket(port', served, "data", dls'.state = "sent")
  BY <1>2, <1>4 DEF OnePacket
<1>6. served = {}
  BY <1>3 DEF ProcessorInv, AnswerTo, Served
<1>7. waiting' = {cls'} \ {None}
  BY AfterAnswer
<1> QED
  BY <1>2, <1>4, <1>5, <1>6, <1>7 DEF ProcessorInv

(* The case that sends a blocked fetch again.                              *)
LEMMA FetchKeeps ==
  ASSUME NoneIsNoPacket, ProcessorInv, NEW ports, answer_control(ports),
         UNCHANGED <<served, mem>>, clock_fetch(ports)
  PROVE  ProcessorInv'
<1>1. /\ dls' = closed /\ fetch(ports, pc) /\ pc' = pc /\ dls_settled
      /\ ils.state = "blocked"
  BY DEF clock_fetch, ProcessorInv
<1>2. /\ At(ports, "fetch") = {} /\ Served(served, "fetch") = {}
      /\ At(ports, "data") = {} /\ Served(served, "data") = {}
      /\ ports \in Ports(pc, dls.pkt)
  BY <1>1, NoneUnderWay, AfterAnswer DEF dls_settled
<1>3. /\ ils' = [state |-> ils'.state, pc |-> pc, err |-> ils'.err]
      /\ port' \in Ports(pc, dls.pkt)
      /\ At(port', "data") = At(ports, "data")
      /\ OnePacket(port', served, "fetch", ils'.state = "sent")
  BY <1>1, <1>2, FetchSent
<1>4. /\ dls' = [state |-> "idle", pkt |-> dls.pkt, reg |-> dls.reg,
                 u |-> dls.u, err |-> dls.err]
      /\ IsPacket(dls.pkt)
  BY <1>1, ClosedTransfer DEF ProcessorInv
<1>5. dls'.state = "idle" /\ dls'.pkt = dls.pkt
  BY <1>4
<1>6. dls' = [state |-> dls'.state, pkt |-> dls'.pkt, reg |-> dls'.reg,
              u |-> dls'.u, err |-> dls'.err]
  BY <1>4
<1>7. served = {}
  BY <1>2 DEF ProcessorInv, AnswerTo, Served
<1>8. OnePacket(port', served, "data", dls'.state = "sent")
  BY <1>2, <1>3, <1>5 DEF OnePacket
<1>9. waiting' = {cls'} \ {None}
  BY AfterAnswer
<1> QED
  BY <1>1, <1>3, <1>4, <1>5, <1>6, <1>7, <1>8, <1>9 DEF ProcessorInv

(* The cases that send nothing but the answer to a controller: the state   *)
(* of the transfer or the fetch may be closed, no packet comes or goes.    *)
Quiet(ports) ==
  /\ port' = ports /\ pc' = pc
  /\ dls' = dls \/ (dls_settled /\ dls' = closed)
  /\ ils' = ils \/ (ils.state = "done" /\ ils' = [ils EXCEPT !.state = "idle"])

(* Those cases keep the invariant.                                         *)
LEMMA QuietClockKeeps ==
  ASSUME ProcessorInv, NEW ports, answer_control(ports),
         UNCHANGED <<served, mem>>, Quiet(ports)
  PROVE  ProcessorInv'
<1>1. /\ port' \in Ports(pc, dls.pkt) /\ waiting' = {cls'} \ {None}
      /\ At(port', "fetch") = At(port, "fetch")
      /\ At(port', "data") = At(port, "data")
  BY AfterAnswer DEF Quiet
<1>2. /\ ils' = [state |-> ils'.state, pc |-> pc', err |-> ils'.err]
      /\ ils'.state = "sent" <=> ils.state = "sent"
  BY DEF ProcessorInv, Quiet
<1>3. closed.state = "idle" /\ closed.pkt = dls.pkt
  BY ClosedTransfer
<1>4. /\ dls' = [state |-> dls'.state, pkt |-> dls'.pkt, reg |-> dls'.reg,
                 u |-> dls'.u, err |-> dls'.err]
      /\ dls'.pkt = dls.pkt
      /\ dls'.state = "sent" <=> dls.state = "sent"
      /\ dls'.state = "done" => dls' = dls
  <2>1. CASE dls' = dls
    BY <2>1 DEF ProcessorInv
  <2>2. CASE dls_settled /\ dls' = closed
    BY <1>3, <2>2, ClosedTransfer DEF dls_settled
  <2> QED
    BY <2>1, <2>2 DEF Quiet
<1>5. /\ OnePacket(port', served', "fetch", ils'.state = "sent")
      /\ OnePacket(port', served', "data", dls'.state = "sent")
  BY <1>1, <1>2, <1>4 DEF ProcessorInv, OnePacket
<1> QED
  BY <1>1, <1>2, <1>4, <1>5 DEF ProcessorInv, Quiet

(* The case that sends a blocked transfer again.                           *)
LEMMA RetryKeeps ==
  ASSUME NoneIsNoPacket, ProcessorInv, NEW ports, answer_control(ports),
         UNCHANGED <<served, mem>>, clock_retry(ports)
  PROVE  ProcessorInv'
<1>1. CASE ports[dmem] # None
  <2>1. Quiet(ports)
    BY <1>1 DEF clock_retry, Quiet
  <2> QED
    BY <2>1, QuietClockKeeps
<1>2. CASE ports[dmem] = None
  <2>1. /\ dls' = [dls EXCEPT !.state = "sent"] /\ dls.state = "blocked"
        /\ port' = [ports EXCEPT ![dmem] = Data(dls.pkt)]
        /\ UNCHANGED <<ils, pc>>
    BY <1>2 DEF clock_retry
  <2>2. /\ ports \in Ports(pc, dls.pkt) /\ dmem \in Port
        /\ At(ports, "data") = {} /\ Served(served, "data") = {}
        /\ At(ports, "fetch") = At(port, "fetch")
        /\ waiting' = {cls'} \ {None}
    BY <2>1, AfterAnswer, NoneUnderWay DEF Port
  <2>3. /\ dls' = [state |-> dls'.state, pkt |-> dls'.pkt, reg |-> dls'.reg,
                   u |-> dls'.u, err |-> dls'.err]
        /\ dls'.pkt = dls.pkt /\ dls'.state = "sent"
    BY <2>1 DEF ProcessorInv
  <2>4. port' \in Ports(pc, dls.pkt)
    BY <2>1, <2>2 DEF Ports
  <2>5. Data(dls.pkt) # None /\ Data(dls.pkt).kind = "data"
    BY Kinds DEF NoneIsNoPacket
  <2>6. At(port', "data") = {dmem}
    BY <2>1, <2>2, <2>5 DEF Ports, At
  <2>7. At(port', "fetch") = At(port, "fetch")
    BY <1>2, <2>1, <2>2, <2>5 DEF Ports, At
  <2>8. /\ OnePacket(port', served', "fetch", ils'.state = "sent")
        /\ OnePacket(port', served', "data", dls'.state = "sent")
    BY <2>1, <2>2, <2>3, <2>6, <2>7 DEF ProcessorInv, OnePacket
  <2> QED
    BY <2>1, <2>2, <2>3, <2>4, <2>8 DEF ProcessorInv
<1> QED
  BY <1>1, <1>2

(* The clock callback, in all its cases, after the answer to a             *)
(* controller.                                                             *)
LEMMA ClockKeeps ==
  ASSUME NoneIsNoPacket, ProcessorInv, simple_riscv64_clock
  PROVE  ProcessorInv'
<1>1. PICK ports :
        /\ answer_control(ports)
        /\ \/ clock_asleep(ports) \/ clock_retry(ports) \/ clock_wait(ports)
           \/ clock_abort(ports) \/ clock_fetch(ports)
           \/ clock_execute(ports) \/ clock_end(ports)
  BY DEF simple_riscv64_clock
<1>2. UNCHANGED <<served, mem>>
  BY DEF simple_riscv64_clock
<1>3. CASE clock_asleep(ports)
  <2>1. Quiet(ports)
    BY <1>3 DEF clock_asleep, Quiet
  <2> QED
    BY <1>1, <1>2, <2>1, QuietClockKeeps
<1>4. CASE clock_retry(ports)
  BY <1>1, <1>2, <1>4, RetryKeeps
<1>5. CASE clock_wait(ports)
  <2>1. Quiet(ports)
    BY <1>5 DEF clock_wait, Quiet
  <2> QED
    BY <1>1, <1>2, <2>1, QuietClockKeeps
<1>6. CASE clock_abort(ports)
  <2>1. Quiet(ports)
    BY <1>6 DEF clock_abort, Quiet
  <2> QED
    BY <1>1, <1>2, <2>1, QuietClockKeeps
<1>7. CASE clock_fetch(ports)
  BY <1>1, <1>2, <1>7, FetchKeeps
<1>8. CASE clock_execute(ports)
  BY <1>1, <1>2, <1>8, ExecuteKeeps
<1>9. CASE clock_end(ports)
  <2>1. Quiet(ports)
    BY <1>9 DEF clock_end, Quiet
  <2> QED
    BY <1>1, <1>2, <2>1, QuietClockKeeps
<1> QED
  BY <1>1, <1>3, <1>4, <1>5, <1>6, <1>7, <1>8, <1>9

(* Before the first clock no packet is under way.                          *)
LEMMA InitHolds ==
  ASSUME Init
  PROVE  ProcessorInv
<1>1. /\ ils.state = "blocked" /\ ils.pc = pc
      /\ ils = [state |-> ils.state, pc |-> pc, err |-> ils.err]
  BY DEF Init
<1>2. /\ dls.state = "idle" /\ dls.pkt = NoData
      /\ dls = [state |-> dls.state, pkt |-> dls.pkt, reg |-> dls.reg,
                u |-> dls.u, err |-> dls.err]
  BY DEF Init
<1>3. IsPacket(NoData)
  BY DEF IsPacket, NoData
<1>4. port = [p \in Port |-> None] /\ served = {} /\ waiting = {} /\ cls = None
  BY DEF Init
<1>5. port \in Ports(pc, dls.pkt)
  BY <1>4 DEF Ports
<1>6. \A k : OnePacket(port, served, k, FALSE)
  BY <1>4 DEF OnePacket, At, Served
<1> QED
  BY <1>1, <1>2, <1>3, <1>4, <1>5, <1>6 DEF ProcessorInv

(* The invariant is inductive.                                             *)
LEMMA StepKeeps ==
  ASSUME NoneIsNoPacket, ProcessorInv, [Next]_vars
  PROVE  ProcessorInv'
<1>1. CASE simple_riscv64_clock
  BY <1>1, ClockKeeps
<1>2. CASE Answer
  BY <1>2, ReceiveInstKeeps, ReceiveDataKeeps DEF Answer
<1>3. CASE \E c \in Controller, s \in BOOLEAN :
             receive_control(c, s) \/ Request(c, s)
  BY <1>3, ReceiveControlKeeps, RequestKeeps
<1>4. CASE \E p \in Port, err \in BOOLEAN : Move(p, err)
  BY <1>4, MoveKeeps
<1>5. CASE \E p \in Port : Occupy(p)
  BY <1>5, OccupyKeeps
<1>6. CASE UNCHANGED vars
  BY <1>6 DEF vars, ProcessorInv
<1> QED
  BY <1>1, <1>2, <1>3, <1>4, <1>5, <1>6 DEF Next

----------------------------------------------------------------------------
(* The registers, the answers and the states match each other.             *)
THEOREM ProcessorCorrect == ASSUME NoneIsNoPacket PROVE Spec => []ProcessorInv
<1>1. ProcessorInv /\ [Next]_vars => ProcessorInv'
  BY StepKeeps
<1> QED
  BY <1>1, InitHolds, PTL DEF Spec

(* The packets of a kind are counted over ports and answers.               *)
LEMMA OnePacketCounts ==
  ASSUME NEW kind, NEW one \in BOOLEAN, OnePacket(port, served, kind, one)
  PROVE  Cardinality(UnderWay(kind)) = IF one THEN 1 ELSE 0
<1>1. UnderWay(kind) = At(port, kind) \cup Served(served, kind)
  BY DEF UnderWay, At, Served
<1>2. CASE one
  <2>1. \E x : UnderWay(kind) = {x}
    BY <1>1, <1>2 DEF OnePacket
  <2> QED
    BY <1>2, <2>1, FS_Singleton
<1>3. CASE ~ one
  <2>1. UnderWay(kind) = {}
    BY <1>1, <1>3 DEF OnePacket
  <2> QED
    BY <1>3, <2>1, FS_EmptySet
<1> QED
  BY <1>2, <1>3

(* A transfer or a fetch is "sent" exactly while one packet of it is at a  *)
(* port or served, so the states in which its answer arrives are those     *)
(* that take it.                                                           *)
THEOREM StatesAreRight ==
  ASSUME NoneIsNoPacket PROVE Spec => []StatesMatchPackets
<1>1. ProcessorInv => StatesMatchPackets
  BY OnePacketCounts DEF ProcessorInv, StatesMatchPackets
<1> QED
  BY <1>1, ProcessorCorrect, PTL

(* Of any number of controllers, those accepted and not answered are the   *)
(* one whose answer is blocked.                                            *)
THEOREM AnswersAreKept ==
  ASSUME NoneIsNoPacket PROVE Spec => []NoAnswerDropped
<1>1. ProcessorInv => NoAnswerDropped
  BY DEF ProcessorInv, NoAnswerDropped
<1> QED
  BY <1>1, ProcessorCorrect, PTL

(* What has a known opcode was fetched without an error.                   *)
LEMMA KnownIsDecoded ==
  ASSUME decoded.op \in Known
  PROVE  ~ ils.err /\ ils.pc \in DOMAIN Prog /\ decoded = Prog[ils.pc]
<1>1. NoInstruction.op \notin Known
  BY DEF NoInstruction, Known, Transfers
<1> QED
  BY <1>1 DEF decoded

(* The run does not go on after a transfer or a fetch that failed.         *)
THEOREM ErrorsEnd == Spec => ErrorsEndTheRun
<1> DEFINE Noticed == running' /\ ils.state = "done" /\ ils'.state # "done"
                        => ~ ils.err /\ ~ (dls.state = "done" /\ dls.err)
<1>1. [Next]_vars => Noticed
  <2> SUFFICES ASSUME [Next]_vars, running', ils.state = "done",
                      ils'.state # "done"
               PROVE  ~ ils.err /\ ~ (dls.state = "done" /\ dls.err)
    OBVIOUS
  <2>1. CASE simple_riscv64_clock
    <3>1. PICK ports :
            \/ clock_asleep(ports) \/ clock_retry(ports) \/ clock_wait(ports)
            \/ clock_abort(ports) \/ clock_fetch(ports)
            \/ clock_execute(ports) \/ clock_end(ports)
      BY <2>1 DEF simple_riscv64_clock
    <3>2. clock_execute(ports)
      <4>1. ils' # ils /\ ~ (running' = FALSE)
        OBVIOUS
      <4>2. ~ clock_asleep(ports) /\ ~ clock_retry(ports) /\ ~ clock_wait(ports)
        BY <4>1 DEF clock_asleep, clock_retry, clock_wait
      <4>3. ~ clock_abort(ports) /\ ~ clock_end(ports)
        BY <4>1 DEF clock_abort, clock_end
      <4>4. ~ clock_fetch(ports)
        BY DEF clock_fetch
      <4> QED
        BY <3>1, <4>2, <4>3, <4>4
    <3>3. dls_settled /\ ~ stops(decoded, finalized)
      BY <3>2 DEF clock_execute
    <3> QED
      BY <3>3, KnownIsDecoded DEF dls_settled, stops
  <2>2. CASE Answer
    <3>1. PICK m \in served : receive_inst(m) \/ receive_data(m)
      BY <2>2 DEF Answer
    <3>2. receive_inst(m) => ils'.state = "done"
      BY DEF receive_inst
    <3>3. receive_data(m) => ils' = ils
      BY DEF receive_data
    <3> QED
      BY <3>1, <3>2, <3>3
  <2>3. CASE \E c \in Controller, s \in BOOLEAN :
               receive_control(c, s) \/ Request(c, s)
    BY <2>3 DEF receive_control, Request
  <2>4. CASE \E p \in Port, err \in BOOLEAN : Move(p, err)
    BY <2>4 DEF Move
  <2>5. CASE \E p \in Port : Occupy(p)
    BY <2>5 DEF Occupy
  <2>6. CASE UNCHANGED vars
    BY <2>6 DEF vars
  <2> QED
    BY <2>1, <2>2, <2>3, <2>4, <2>5, <2>6 DEF Next
<1> QED
  BY <1>1, PTL DEF Spec, ErrorsEndTheRun

----------------------------------------------------------------------------
(* The other condition of the refinement: what one instruction of the      *)
(* program makes of words and bytes are words and bytes, and a transfer    *)
(* has an address and one of the four sizes.  This is arithmetic of        *)
(* Instructions and says nothing of how the processor proceeds.            *)
Registers == [Reg -> 0 .. Word - 1]
Memories == [Cells -> Byte]
ByteStrings(n) == [0 .. n - 1 -> Byte]

InstructionsKeepWords ==
  /\ 0 \in Byte
  /\ \A a \in DOMAIN Prog, r \in Registers :
       LET i == Prog[a]
       IN  /\ i.op \in Known \ Transfers => registers(i, r, a) \in Registers
           /\ i.op \in Transfers => address(i, r) \in Nat /\ size(i) \in Sizes
           /\ i.op = "STORE" => bytes(i, r) \in ByteStrings(size(i))
           /\ i.op = "LOAD" =>
                /\ i.alt \in BOOLEAN
                /\ \A b \in ByteStrings(size(i)) :
                     set_reg(r, i.rd, value(b, size(i), i.alt)) \in Registers

(* The registers and the memory that the program sees hold words and bytes. *)
WordsInv ==
  /\ promised_regs \in Registers
  /\ mem \in Memories /\ promised_mem \in Memories

(* Once a transfer is settled, the processor holds what the program sees.  *)
LEMMA SettledIsPromised ==
  ASSUME ProcessorInv, dls_settled
  PROVE  finalized = promised_regs /\ mem = promised_mem
<1>1. CASE dls.state = "idle"
  BY <1>1 DEF finalized, promised_regs, promised_mem, Open
<1>2. CASE dls.state = "done" /\ ~ dls.err
  <2>1. Effected(dls.pkt, mem)
    BY <1>2 DEF ProcessorInv
  <2>2. \A f : Open(f) <=> dls.pkt.flag = f
    BY <1>2, <2>1 DEF Open, Effected
  <2>3. finalized = promised_regs
    BY <1>2, <2>1, <2>2 DEF finalized, promised_regs, Effected
  <2>4. mem = promised_mem
    BY <2>1, <2>2 DEF promised_mem, Effected
  <2> QED
    BY <2>3, <2>4
<1> QED
  BY <1>1, <1>2 DEF dls_settled

(* A transfer that is closed has taken effect already.                     *)
LEMMA ClosingChangesNothing ==
  ASSUME ProcessorInv, dls_settled, dls' = closed, regs' = finalized, mem' = mem
  PROVE  promised_regs' = promised_regs /\ promised_mem' = promised_mem
<1>1. dls'.state = "idle"
  BY ClosedTransfer
<1>2. promised_regs' = regs' /\ promised_mem' = mem'
  BY <1>1 DEF promised_regs, promised_mem, Open
<1> QED
  BY <1>2, SettledIsPromised

(* Nor does it matter to the program where an open transfer is.            *)
LEMMA MovingChangesNothing ==
  ASSUME regs' = regs, mem' = mem, dls'.pkt = dls.pkt, dls'.reg = dls.reg,
         dls'.u = dls.u, dls'.state # "idle" <=> dls.state # "idle"
  PROVE  promised_regs' = promised_regs /\ promised_mem' = promised_mem
<1>1. \A f : Open(f)' <=> Open(f)
  BY DEF Open, mapped
<1> QED
  BY <1>1 DEF promised_regs, promised_mem

(* The program has seen the transfer before its answer arrives.            *)
LEMMA ReceiveChangesNothing ==
  ASSUME ProcessorInv, NEW m, receive_data(m)
  PROVE  promised_regs' = promised_regs /\ promised_mem' = promised_mem
<1>1. /\ dls' = [dls EXCEPT !.state = "done", !.pkt = m.what, !.err = m.err]
      /\ dls.state = "sent" /\ SameAccess(m.what, dls.pkt, mem)
      /\ regs' = regs /\ mem' = mem
  BY ReceiveDataKeeps DEF receive_data
<1>2. /\ dls'.state = "done" /\ dls'.pkt = m.what /\ dls'.reg = dls.reg
      /\ dls'.u = dls.u
  BY <1>1 DEF ProcessorInv
<1>3. \A f : Open(f)' <=> Open(f)
  BY <1>1, <1>2 DEF Open, mapped, SameAccess
<1>4. checked_copyto(dls'.pkt, mem') = checked_copyto(dls.pkt, mem)
  BY <1>1, <1>2 DEF SameAccess
<1>5. promised_regs' = promised_regs
  BY <1>1, <1>2, <1>3, <1>4 DEF promised_regs
<1>6. Open("write") => m.what = dls.pkt
  BY <1>1 DEF Open, SameAccess
<1>7. promised_mem' = promised_mem
  BY <1>1, <1>2, <1>3, <1>6 DEF promised_mem
<1> QED
  BY <1>5, <1>7

(* It has seen it before memory serves it.                                 *)
LEMMA MoveChangesNothing ==
  ASSUME ProcessorInv, NEW p \in Port, NEW err \in BOOLEAN, Move(p, err)
  PROVE  /\ promised_regs' = promised_regs /\ promised_mem' = promised_mem
         /\ mem' \in {mem, promised_mem}
<1>1. UNCHANGED <<dls, regs>>
  BY DEF Move
<1>2. CASE mem' = mem
  BY <1>1, <1>2, MovingChangesNothing
<1>3. CASE /\ dls.state = "sent" /\ dls.pkt.flag = "write"
           /\ mapped(dls.pkt) /\ mem' = checked_copyfrom(dls.pkt, mem)
  <2>1. Open("write") /\ ~ Open("read") /\ Open("write")' /\ ~ Open("read")'
    BY <1>1, <1>3 DEF Open, mapped
  <2>2. promised_regs' = promised_regs
    BY <1>1, <2>1 DEF promised_regs
  <2>3. mem' = promised_mem
    BY <1>3, <2>1 DEF promised_mem
  <2>4. promised_mem' = checked_copyfrom(dls.pkt, checked_copyfrom(dls.pkt, mem))
    BY <1>1, <1>3, <2>1 DEF promised_mem
  <2> QED
    BY <1>3, <2>2, <2>3, <2>4, CopyFromTwice
<1> QED
  BY <1>2, <1>3, MoveKeeps

----------------------------------------------------------------------------
(* A load makes its value of the bytes from its address on.                *)
LEMMA LoadedValue ==
  ASSUME NEW a \in Nat, NEW n \in Sizes, NEW data, NEW b, NEW u
  PROVE  loaded(checked_copyto(create_packet(a, n, data, "read"), b), u)
           = value([k \in 0 .. n - 1 |-> b[a + k]], n, u)
<1> DEFINE p == create_packet(a, n, data, "read")
           q == checked_copyto(p, b)
<1>1. IsPacket(p)
  BY CreatedIsPacket
<1>2. packet_convsize(p) = n
  BY SizeIsKept
<1>3. first_bytes(q, n) = [k \in 0 .. n - 1 |-> b[a + k]]
  BY ReadsItsBytes
<1> HIDE DEF p
<1>4. q.mask = p.mask
  BY <1>1, CopyToTwice
<1> HIDE DEF q
<1>5. packet_convsize(q) = packet_convsize(p)
  BY <1>4 DEF packet_convsize, start
<1> QED
  BY <1>2, <1>3, <1>5 DEF loaded, p, q

(* A packet finds memory under its whole mask if and only if its access    *)
(* does.                                                                   *)
LEMMA MappedAccess ==
  ASSUME NEW a \in Nat, NEW n \in Sizes, NEW data, NEW flag
  PROVE  mapped(create_packet(a, n, data, flag)) <=> a .. a + n - 1 \subseteq Cells
<1> DEFINE p == create_packet(a, n, data, flag)
<1>1. /\ p.to \in Int /\ p.mask \subseteq Nat
      /\ \A x \in Int : x - p.to \in p.mask <=> x \in a .. a + n - 1
  <2>1. p.to \in Int
    <3>1. p.to = packet_align(a)
      BY CreatedPacket
    <3> QED
      BY <3>1, AlignedAddress
  <2>2. p.mask \subseteq Nat
    BY CreatedPacket
  <2>3. \A x \in Int : x - p.to \in p.mask <=> x \in a .. a + n - 1
    BY MaskIsAccess
  <2> QED
    BY <2>1, <2>2, <2>3
<1> HIDE DEF p
<1>2. ASSUME mapped(p), NEW x \in a .. a + n - 1
      PROVE  x \in Cells
  <2>1. x - p.to \in p.mask /\ p.to + (x - p.to) = x
    BY <1>1
  <2> QED
    BY <1>2, <2>1 DEF mapped
<1>3. ASSUME a .. a + n - 1 \subseteq Cells, NEW k \in p.mask
      PROVE  p.to + k \in Cells
  <2>1. p.to + k \in Int /\ (p.to + k) - p.to = k
    BY <1>1
  <2>2. p.to + k \in a .. a + n - 1
    BY <1>1, <2>1
  <2> QED
    BY <1>3, <2>2
<1> QED
  BY <1>2, <1>3 DEF mapped, p

(* The registers and the memory that the program sees after a transfer     *)
(* has been sent or blocked.                                               *)
LEMMA NewTransfer ==
  ASSUME ProcessorInv, NEW ports, NEW i, NEW r, i.op \in Transfers,
         dls' = transfer(ports, i, r), regs' = r, mem' = mem,
         address(i, r) \in Nat, size(i) \in Sizes
  PROVE  LET p == transfer_packet(i, r)
         IN  /\ promised_regs' =
                  IF i.op = "LOAD" /\ mapped(p)
                  THEN set_reg(r, i.rd, loaded(checked_copyto(p, mem),
                                               i.op = "LOAD" /\ i.alt))
                  ELSE r
             /\ promised_mem' = IF i.op = "STORE" /\ mapped(p)
                                THEN checked_copyfrom(p, mem) ELSE mem
<1> DEFINE p == transfer_packet(i, r)
<1>1. dls' = [state |-> IF ports[dmem] = None THEN "sent" ELSE "blocked",
              pkt |-> p, reg |-> IF i.op = "LOAD" THEN i.rd ELSE 0,
              u |-> i.op = "LOAD" /\ i.alt, err |-> FALSE]
  BY DEF transfer
<1>2. p.flag = IF i.op = "LOAD" THEN "read" ELSE "write"
  BY CreatedPacket DEF transfer_packet
<1> HIDE DEF p
<1>3. /\ dls'.state # "idle" /\ dls'.pkt = p
      /\ dls'.reg = IF i.op = "LOAD" THEN i.rd ELSE 0
      /\ dls'.u = (i.op = "LOAD" /\ i.alt)
  BY <1>1
<1>4. i.op = "LOAD" \/ i.op = "STORE"
  BY DEF Transfers
<1>5. /\ Open("read")' <=> i.op = "LOAD" /\ mapped(p)
      /\ Open("write")' <=> i.op = "STORE" /\ mapped(p)
  BY <1>2, <1>3, <1>4 DEF Open, mapped
<1>6. promised_mem' = IF i.op = "STORE" /\ mapped(p)
                      THEN checked_copyfrom(p, mem) ELSE mem
  BY <1>3, <1>5 DEF promised_mem
<1>7. CASE i.op = "LOAD" /\ mapped(p)
  <2>1. promised_regs' = set_reg(regs', dls'.reg,
                                 loaded(checked_copyto(dls'.pkt, mem'), dls'.u))
    BY <1>5, <1>7 DEF promised_regs
  <2>2. dls'.reg = i.rd
    BY <1>3, <1>7
  <2>3. promised_regs' = set_reg(r, i.rd, loaded(checked_copyto(p, mem),
                                               i.op = "LOAD" /\ i.alt))
    BY <1>3, <2>1, <2>2
  <2> QED
    BY <1>6, <1>7, <2>3 DEF p
<1>8. CASE ~ (i.op = "LOAD" /\ mapped(p))
  BY <1>5, <1>6, <1>8 DEF promised_regs, p
<1> QED
  BY <1>7, <1>8

(* A load that is sent or blocked is a load of the program, or a miss.     *)
LEMMA LoadMaps ==
  ASSUME InstructionsKeepWords, ProcessorInv, WordsInv, NEW ports,
         NEW a \in DOMAIN Prog, NEW i, i = Prog[a], i.op = "LOAD",
         dls' = transfer(ports, i, promised_regs), regs' = promised_regs,
         mem' = mem, mem = promised_mem
  PROVE  /\ Promised!Load(i) \/ Promised!Miss(i)
         /\ WordsInv'
<1> DEFINE r == promised_regs
           x == address(i, r)
           n == size(i)
           p == transfer_packet(i, r)
           b == [k \in 0 .. n - 1 |-> mem[x + k]]
<1>1. i.op \in Transfers /\ r \in Registers /\ mem \in Memories
  BY DEF Transfers, WordsInv
<1>2. x \in Nat /\ n \in Sizes /\ i.alt \in BOOLEAN
  BY <1>1 DEF InstructionsKeepWords
<1>3. p = create_packet(x, n, bytes(i, r), "read")
  BY DEF transfer_packet
<1>4. mapped(p) <=> x .. x + n - 1 \subseteq Cells
  BY <1>2, <1>3, MappedAccess
<1>5. (i.op = "LOAD" /\ i.alt) = i.alt
  BY <1>2
<1>6. loaded(checked_copyto(p, mem), i.alt) = value(b, n, i.alt)
  BY <1>2, <1>3, LoadedValue
<1>7. /\ promised_regs' = IF mapped(p) THEN set_reg(r, i.rd, value(b, n, i.alt))
                          ELSE r
      /\ promised_mem' = mem
  <2>1. /\ promised_regs' =
              IF i.op = "LOAD" /\ mapped(p)
              THEN set_reg(r, i.rd, loaded(checked_copyto(p, mem),
                                           i.op = "LOAD" /\ i.alt))
              ELSE r
        /\ promised_mem' = IF i.op = "STORE" /\ mapped(p)
                           THEN checked_copyfrom(p, mem) ELSE mem
    BY <1>1, <1>2, NewTransfer
  <2> HIDE DEF p, r
  <2> QED
    BY <1>5, <1>6, <2>1
<1>8. CASE mapped(p)
  <2>1. promised_regs' = set_reg(r, i.rd, value(b, n, i.alt)) /\ promised_mem' = mem
    BY <1>7, <1>8
  <2>2. Promised!Load(i)
    BY <1>4, <1>8, <2>1 DEF Promised!Load, Promised!Touched
  <2>3. b \in ByteStrings(n)
    <3>1. \A k \in 0 .. n - 1 : x + k \in Cells
      BY <1>2, <1>4, <1>8 DEF Sizes
    <3> QED
      BY <1>1, <3>1 DEF Memories, ByteStrings
  <2>4. set_reg(r, i.rd, value(b, n, i.alt)) \in Registers
    BY <1>1, <2>3 DEF InstructionsKeepWords
  <2> QED
    BY <1>1, <2>1, <2>2, <2>4 DEF WordsInv
<1>9. CASE ~ mapped(p)
  <2>1. promised_regs' = r /\ promised_mem' = mem
    BY <1>7, <1>9
  <2>2. Promised!Miss(i)
    BY <1>1, <1>4, <1>9, <2>1 DEF Promised!Miss, Promised!Touched
  <2> QED
    BY <1>1, <2>1, <2>2 DEF WordsInv
<1> QED
  BY <1>8, <1>9

(* A store that is sent or blocked is a store of the program, or a miss.   *)
LEMMA StoreMaps ==
  ASSUME InstructionsKeepWords, ProcessorInv, WordsInv, NEW ports,
         NEW a \in DOMAIN Prog, NEW i, i = Prog[a], i.op = "STORE",
         dls' = transfer(ports, i, promised_regs), regs' = promised_regs,
         mem' = mem, mem = promised_mem
  PROVE  /\ Promised!Store(i) \/ Promised!Miss(i)
         /\ WordsInv'
<1> DEFINE r == promised_regs
           x == address(i, r)
           n == size(i)
           p == transfer_packet(i, r)
           b == bytes(i, r)
           stored == [c \in Cells |-> IF c \in x .. x + n - 1
                                      THEN b[c - x] ELSE mem[c]]
<1>1. i.op \in Transfers /\ r \in Registers /\ mem \in Memories
  BY DEF Transfers, WordsInv
<1>2. x \in Nat /\ n \in Sizes /\ b \in ByteStrings(n)
  BY <1>1 DEF InstructionsKeepWords
<1>3. p = create_packet(x, n, b, "write")
  BY DEF transfer_packet
<1>4. mapped(p) <=> x .. x + n - 1 \subseteq Cells
  BY <1>2, <1>3, MappedAccess
<1>5. checked_copyfrom(p, mem) = stored
  <2>1. Cells \in SUBSET Int /\ DOMAIN mem = Cells
    BY <1>1, ProcessorAssumption DEF Memories
  <2> QED
    BY <1>2, <1>3, <2>1, WritesItsBytes
<1>6. promised_regs' = r /\ promised_mem' = IF mapped(p) THEN stored ELSE mem
  <2>1. /\ promised_regs' =
              IF i.op = "LOAD" /\ mapped(p)
              THEN set_reg(r, i.rd, loaded(checked_copyto(p, mem),
                                           i.op = "LOAD" /\ i.alt))
              ELSE r
        /\ promised_mem' = IF i.op = "STORE" /\ mapped(p)
                           THEN checked_copyfrom(p, mem) ELSE mem
    BY <1>1, <1>2, NewTransfer
  <2> HIDE DEF p, r, stored
  <2> QED
    BY <1>5, <2>1
<1>7. CASE mapped(p)
  <2>1. promised_mem' = stored
    BY <1>6, <1>7
  <2>2. stored \in Memories
    <3>1. \A c \in x .. x + n - 1 : b[c - x] \in Byte
      <4>1. \A c \in x .. x + n - 1 : c - x \in 0 .. n - 1
        BY <1>2 DEF Sizes
      <4> QED
        BY <1>2, <4>1 DEF ByteStrings
    <3> QED
      BY <1>1, <3>1 DEF Memories
  <2>3. Promised!Store(i)
    BY <1>4, <1>6, <1>7, <2>1 DEF Promised!Store, Promised!Touched
  <2> QED
    BY <1>1, <1>6, <2>1, <2>2, <2>3 DEF WordsInv
<1>8. CASE ~ mapped(p)
  <2>1. promised_regs' = r /\ promised_mem' = mem
    BY <1>6, <1>8
  <2>2. Promised!Miss(i)
    BY <1>1, <1>4, <1>8, <2>1 DEF Promised!Miss, Promised!Touched
  <2> QED
    BY <1>1, <2>1, <2>2 DEF WordsInv
<1> QED
  BY <1>7, <1>8

(* An instruction that is executed is one step of the program.             *)
LEMMA ExecuteMaps ==
  ASSUME InstructionsKeepWords, ProcessorInv, WordsInv, running, NEW ports,
         clock_execute(ports), mem' = mem
  PROVE  Promised!Step /\ WordsInv'
<1> DEFINE i == decoded
           r == promised_regs
<1>1. finalized = r /\ mem = promised_mem
  BY SettledIsPromised DEF clock_execute
<1>2. /\ i.op \in Known /\ pc' = after(i, r, pc) /\ regs' = registers(i, r, pc)
      /\ dls' = IF i.op \in Transfers THEN transfer(ports, i, r) ELSE closed
      /\ running' = running
  BY <1>1 DEF clock_execute, stops
<1>3. pc \in DOMAIN Prog /\ i = Prog[pc]
  BY <1>2, KnownIsDecoded DEF ProcessorInv
<1> HIDE DEF i
<1>4. i.op \in Transfers => regs' = r
  BY <1>2 DEF registers, Transfers
<1>5. CASE i.op = "LOAD"
  <2>1. Promised!Load(i) \/ Promised!Miss(i)
    BY <1>1, <1>2, <1>3, <1>4, <1>5, LoadMaps DEF Transfers
  <2>2. WordsInv'
    BY <1>1, <1>2, <1>3, <1>4, <1>5, LoadMaps DEF Transfers
  <2> QED
    BY <1>2, <1>3, <2>1, <2>2 DEF Promised!Step
<1>6. CASE i.op = "STORE"
  <2>1. Promised!Store(i) \/ Promised!Miss(i)
    BY <1>1, <1>2, <1>3, <1>4, <1>6, StoreMaps DEF Transfers
  <2>2. WordsInv'
    BY <1>1, <1>2, <1>3, <1>4, <1>6, StoreMaps DEF Transfers
  <2> QED
    BY <1>2, <1>3, <2>1, <2>2 DEF Promised!Step
<1>7. CASE i.op \notin Transfers
  <2>1. dls'.state = "idle"
    BY <1>2, <1>7, ClosedTransfer
  <2>2. promised_regs' = registers(i, r, pc) /\ promised_mem' = promised_mem
    BY <1>1, <1>2, <2>1 DEF promised_regs, promised_mem, Open
  <2>3. Promised!Compute(i)
    BY <1>2, <1>7, <2>2 DEF Promised!Compute
  <2>4. registers(i, r, pc) \in Registers
    BY <1>2, <1>3, <1>7 DEF InstructionsKeepWords, WordsInv
  <2>5. WordsInv'
    BY <1>1, <2>2, <2>4 DEF WordsInv
  <2> QED
    BY <1>2, <1>3, <2>3, <2>5 DEF Promised!Step
<1> QED
  BY <1>5, <1>6, <1>7 DEF Transfers

(* The other cases of the clock are no step of the program, or its end.    *)
LEMMA ClockMaps ==
  ASSUME InstructionsKeepWords, ProcessorInv, WordsInv, simple_riscv64_clock
  PROVE  /\ \/ Promised!Step
            \/ Promised!Stop
            \/ UNCHANGED <<pc, promised_regs, promised_mem, running>>
         /\ WordsInv'
<1>1. PICK ports :
        /\ answer_control(ports)
        /\ \/ clock_asleep(ports) \/ clock_retry(ports) \/ clock_wait(ports)
           \/ clock_abort(ports) \/ clock_fetch(ports)
           \/ clock_execute(ports) \/ clock_end(ports)
  BY DEF simple_riscv64_clock
<1>2. mem' = mem /\ running
  BY <1>1 DEF simple_riscv64_clock, answer_control
<1>3. ASSUME promised_regs' = promised_regs, promised_mem' = promised_mem
      PROVE  WordsInv'
  BY <1>2, <1>3 DEF WordsInv
<1>4. CASE clock_asleep(ports)
  <2>1. promised_regs' = promised_regs /\ promised_mem' = promised_mem
    BY <1>2, <1>4, MovingChangesNothing DEF clock_asleep
  <2> QED
    BY <1>3, <1>4, <2>1 DEF clock_asleep
<1>5. CASE clock_retry(ports)
  <2>1. /\ dls'.pkt = dls.pkt /\ dls'.reg = dls.reg /\ dls'.u = dls.u
        /\ dls'.state # "idle" /\ dls.state # "idle" /\ regs' = regs
    BY <1>5 DEF clock_retry, ProcessorInv
  <2>2. promised_regs' = promised_regs /\ promised_mem' = promised_mem
    BY <1>2, <2>1, MovingChangesNothing
  <2> QED
    BY <1>3, <1>5, <2>2 DEF clock_retry
<1>6. CASE clock_wait(ports)
  <2>1. CASE UNCHANGED <<dls, regs>>
    <3>1. promised_regs' = promised_regs /\ promised_mem' = promised_mem
      BY <1>2, <2>1, MovingChangesNothing
    <3> QED
      BY <1>3, <1>6, <3>1 DEF clock_wait
  <2>2. CASE dls_settled /\ dls' = closed /\ regs' = finalized
    <3>1. promised_regs' = promised_regs /\ promised_mem' = promised_mem
      BY <1>2, <2>2, ClosingChangesNothing
    <3> QED
      BY <1>3, <1>6, <3>1 DEF clock_wait
  <2> QED
    BY <1>6, <2>1, <2>2 DEF clock_wait
<1>7. CASE clock_abort(ports)
  <2>1. promised_regs' = promised_regs /\ promised_mem' = promised_mem
    BY <1>2, <1>7, MovingChangesNothing DEF clock_abort
  <2>2. Promised!Stop
    BY <1>2, <1>7, <2>1 DEF clock_abort, Promised!Stop
  <2> QED
    BY <1>3, <2>1, <2>2
<1>8. CASE clock_fetch(ports)
  <2>1. promised_regs' = promised_regs /\ promised_mem' = promised_mem
    BY <1>2, <1>8, ClosingChangesNothing DEF clock_fetch
  <2> QED
    BY <1>3, <1>8, <2>1 DEF clock_fetch
<1>9. CASE clock_execute(ports)
  BY <1>2, <1>9, ExecuteMaps
<1>10. CASE clock_end(ports)
  <2>1. promised_regs' = promised_regs /\ promised_mem' = promised_mem
    BY <1>2, <1>10, ClosingChangesNothing DEF clock_end
  <2>2. Promised!Stop
    BY <1>2, <1>10, <2>1 DEF clock_end, Promised!Stop
  <2> QED
    BY <1>3, <2>1, <2>2
<1> QED
  BY <1>1, <1>4, <1>5, <1>6, <1>7, <1>8, <1>9, <1>10

(* Every step is one of the program, its end, or nothing to it.            *)
LEMMA StepMaps ==
  ASSUME InstructionsKeepWords, ProcessorInv, WordsInv, [Next]_vars
  PROVE  /\ \/ Promised!Step
            \/ Promised!Stop
            \/ UNCHANGED <<pc, promised_regs, promised_mem, running>>
         /\ WordsInv'
<1>1. ASSUME promised_regs' = promised_regs, promised_mem' = promised_mem,
             mem' \in {mem, promised_mem}
      PROVE  WordsInv'
  BY <1>1 DEF WordsInv
<1>2. CASE simple_riscv64_clock
  BY <1>2, ClockMaps
<1>3. CASE Answer
  <2>1. PICK m \in served : receive_inst(m) \/ receive_data(m)
    BY <1>3 DEF Answer
  <2>2. UNCHANGED <<pc, running, mem>>
    BY <2>1 DEF receive_inst, receive_data
  <2>3. promised_regs' = promised_regs /\ promised_mem' = promised_mem
    <3>1. CASE receive_inst(m)
      BY <3>1, MovingChangesNothing DEF receive_inst
    <3>2. CASE receive_data(m)
      BY <3>2, ReceiveChangesNothing
    <3> QED
      BY <2>1, <3>1, <3>2
  <2> QED
    BY <1>1, <2>2, <2>3
<1>4. CASE \E c \in Controller, s \in BOOLEAN :
             receive_control(c, s) \/ Request(c, s)
  <2>1. UNCHANGED <<dls, regs, mem, pc, running>>
    BY <1>4 DEF receive_control, Request
  <2> QED
    BY <1>1, <2>1, MovingChangesNothing
<1>5. CASE \E p \in Port, err \in BOOLEAN : Move(p, err)
  <2>1. UNCHANGED <<pc, running>>
    BY <1>5 DEF Move
  <2> QED
    BY <1>1, <1>5, <2>1, MoveChangesNothing
<1>6. CASE \E p \in Port : Occupy(p)
  <2>1. UNCHANGED <<dls, regs, mem, pc, running>>
    BY <1>6 DEF Occupy
  <2> QED
    BY <1>1, <2>1, MovingChangesNothing
<1>7. CASE UNCHANGED vars
  <2>1. UNCHANGED <<dls, regs, mem, pc, running>>
    BY <1>7 DEF vars
  <2> QED
    BY <1>1, <2>1, MovingChangesNothing
<1> QED
  BY <1>2, <1>3, <1>4, <1>5, <1>6, <1>7 DEF Next

(* The program starts with the registers and the memory of the processor.  *)
LEMMA InitMaps ==
  ASSUME InstructionsKeepWords, Init
  PROVE  Promised!Init /\ WordsInv
<1>1. dls.state = "idle"
  BY DEF Init
<1>2. promised_regs = regs /\ promised_mem = mem
  BY <1>1 DEF promised_regs, promised_mem, Open
<1>3. regs \in Registers
  BY ProcessorAssumption DEF Init, Registers
<1>4. mem \in Memories
  BY DEF Init, Memories, InstructionsKeepWords
<1>5. Promised!Init
  BY <1>2 DEF Init, Promised!Init
<1> QED
  BY <1>2, <1>3, <1>4, <1>5 DEF WordsInv

(* Whatever else uses the ports, fails, or puts the processor to sleep:    *)
(* what becomes of pc, the registers and the memory is what becomes of     *)
(* them when one instruction after the other is executed as a whole.       *)
THEOREM ProcessorIsSequential ==
  ASSUME NoneIsNoPacket, InstructionsKeepWords PROVE Spec => ImplementsSequential
<1> DEFINE seen == <<pc, promised_regs, promised_mem, running>>
<1>1. Init => Promised!Init /\ WordsInv
  BY InitMaps
<1>2. ProcessorInv /\ WordsInv /\ [Next]_vars
        => WordsInv' /\ [Promised!Step \/ Promised!Stop]_seen
  <2> SUFFICES ASSUME ProcessorInv, WordsInv, [Next]_vars
               PROVE  WordsInv' /\ [Promised!Step \/ Promised!Stop]_seen
    OBVIOUS
  <2>1. \/ Promised!Step
        \/ Promised!Stop
        \/ UNCHANGED <<pc, promised_regs, promised_mem, running>>
    BY StepMaps
  <2>2. WordsInv'
    BY StepMaps
  <2> QED
    BY <2>1, <2>2
<1> QED
  BY <1>1, <1>2, ProcessorCorrect, PTL
     DEF Spec, ImplementsSequential, Promised!Spec
============================================================================

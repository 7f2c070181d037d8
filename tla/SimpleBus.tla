----------------------------- MODULE SimpleBus -----------------------------
(***************************************************************************)
(* Processors and devices on the bus of src/src/bus/simple_bus.c, wired as *)
(* src/tests/simple_uart/sim.c wires them: memories (simple_mem.c), uarts  *)
(* (simple_uart.c) and processors (simple_riscv64.c), each with a region:  *)
(* processors start transfers, and a transfer to the region of one puts it *)
(* to sleep or wakes it.  The bus keeps a packet until the component it is *)
(* for takes it; a device, and a processor whose control page was written, *)
(* keeps its response until the bus takes it.                              *)
(*                                                                         *)
(* A packet's address is represented by the component whose region holds   *)
(* it (BusRegions is about addresses); Nowhere is in no region.  In the    *)
(* region of a processor a request is for the control page (rcv + 128),    *)
(* and answers come to the page for data (rcv).                            *)
(***************************************************************************)
EXTENDS Integers, FiniteSets

CONSTANTS
  Master,   \* processors: one data transfer at a time each
  Mem,      \* memories
  Uart,     \* uarts
  Nowhere,  \* an address that no region covers
  None      \* no packet, no component

ASSUME ComponentsAreDistinct ==
  /\ Nowhere \notin Mem \cup Uart \cup Master
  /\ None \notin Mem \cup Uart \cup Master \cup {Nowhere}
  /\ Master \cap (Mem \cup Uart) = {} /\ Mem \cap Uart = {}

Device == Mem \cup Uart
Component == Device \cup Master
Target == Component \cup {Nowhere}

(* bytes distinguishes a one-byte access, the only one a uart accepts, and *)
(* one that a control page does not.                                       *)
Packet == [from : Target, to : Target, bytes : {1, 8},
           status : {"request", "done", "error"}]

ASSUME NoneIsNoPacket == None \notin Packet
ASSUME MastersAreFinite == IsFiniteSet(Master)

VARIABLES
  bus,      \* the packet in the bus register
  send,     \* the component the bus is sending it to
  resp,     \* resp[c]: the response that device or processor c has to send
  ldst,     \* ldst[m]: state of the data transfer of m
  pkt,      \* pkt[m]: the packet of that transfer, then its answer
  sleep,    \* sleep[m]: m has been put to sleep
  aborted   \* an assertion or an error has ended the simulation

vars == <<bus, send, resp, ldst, pkt, sleep, aborted>>

Init ==
  /\ bus = None
  /\ send = None
  /\ resp = [c \in Component |-> None]
  /\ ldst = [m \in Master |-> "idle"]
  /\ pkt = [m \in Master |-> None]
  /\ sleep = [m \in Master |-> FALSE]
  /\ aborted = FALSE

response(p, status) ==
  [p EXCEPT !.from = p.to, !.to = p.from, !.status = status]

(* Faulty variant, for WedgedForEver: a busy bus takes a packet.           *)
ReceiveOver(p, from) ==
  /\ bus' = IF p.to = Nowhere THEN response(p, "error") ELSE p
  /\ send' = IF p.to = Nowhere THEN from ELSE p.to

(* A busy bus refuses a packet.  A free one looks it up when it receives   *)
(* it; a packet to nowhere goes back to the component it came from.        *)
simple_bus_receive(p, from) ==
  /\ bus = None
  /\ bus' = IF p.to = Nowhere THEN response(p, "error") ELSE p
  /\ send' = IF p.to = Nowhere THEN from ELSE p.to

----------------------------------------------------------------------------
(* The clock of a processor, by what it finds to do.  It begins with the   *)
(* answer to a write of its control page, and goes no further until the    *)
(* bus has taken that.  If it takes it, whatever is sent later in the same *)
(* clock is refused.                                                       *)
answer_control(m) ==
  \/ resp[m] = None /\ UNCHANGED <<bus, send, resp>>
  \/ /\ resp[m] # None
     /\ simple_bus_receive(resp[m], m)
     /\ resp' = [resp EXCEPT ![m] = None]

(* Nothing but that answer: the processor sleeps, or waits for a packet.   *)
clock_answer(m) ==
  /\ resp[m] # None
  /\ sleep[m] \/ ldst[m] # "done"
  /\ answer_control(m)
  /\ UNCHANGED <<ldst, pkt, sleep, aborted>>

(* Faulty variant, for WedgeTakesTwo: a transfer starts while one is under *)
(* way.                                                                    *)
StartAgain(m, target, bytes) ==
  LET p == [from |-> m, to |-> target, bytes |-> bytes, status |-> "request"]
  IN  /\ pkt' = [pkt EXCEPT ![m] = p]
      /\ simple_bus_receive(p, m)
      /\ ldst' = [ldst EXCEPT ![m] = "sent"]
      /\ UNCHANGED <<resp, sleep, aborted>>

(* load and store: a bus that is busy leaves the transfer blocked. *)
start_transfer(m, target, bytes) ==
  LET p == [from |-> m, to |-> target, bytes |-> bytes, status |-> "request"]
  IN  /\ ldst[m] = "idle" /\ ~ sleep[m]
      /\ pkt' = [pkt EXCEPT ![m] = p]
      /\ \/ /\ resp[m] = None /\ UNCHANGED resp
            /\ simple_bus_receive(p, m)
            /\ ldst' = [ldst EXCEPT ![m] = "sent"]
         \/ /\ bus # None \/ resp[m] # None
            /\ answer_control(m)
            /\ ldst' = [ldst EXCEPT ![m] = "blocked"]
      /\ UNCHANGED <<sleep, aborted>>

(* Faulty variant, for QuietBusSettles: the state moves on without a SEND. *)
RetryUnsent(m) ==
  /\ ldst[m] = "blocked"
  /\ ldst' = [ldst EXCEPT ![m] = "sent"]
  /\ UNCHANGED <<bus, send, resp, pkt, sleep, aborted>>

(* A transfer that is blocked is sent again. *)
retry_transfer(m) ==
  /\ ldst[m] = "blocked" /\ ~ sleep[m]
  /\ resp[m] = None
  /\ simple_bus_receive(pkt[m], m)
  /\ ldst' = [ldst EXCEPT ![m] = "sent"]
  /\ UNCHANGED <<resp, pkt, sleep, aborted>>

(* The assertion that an answer is not an error; the processor is then     *)
(* ready for the next transfer.                                            *)
finish_transfer(m) ==
  /\ ldst[m] = "done" /\ ~ sleep[m]
  /\ answer_control(m)
  /\ aborted' = (pkt[m].status = "error")
  /\ ldst' = [ldst EXCEPT ![m] = IF aborted' THEN "done" ELSE "idle"]
  /\ UNCHANGED <<pkt, sleep>>

----------------------------------------------------------------------------
(* An answer to the data transfer.                                         *)
receive_answer(m, p) ==
  /\ p.status # "request"
  /\ ldst' = [ldst EXCEPT ![m] = "done"]
  /\ pkt' = [pkt EXCEPT ![m] = p]
  /\ UNCHANGED <<resp, sleep>>

(* A write of 0 or 1 to the control page, refused with EBUSY while the     *)
(* answer to another is blocked.  The answer is sent at once, to a bus     *)
(* that is still busy with the request, and so it is blocked.              *)
receive_control(m, p) ==
  /\ p.status = "request" /\ p.bytes = 8
  /\ resp[m] = None
  /\ \E s \in BOOLEAN : sleep' = [sleep EXCEPT ![m] = s]
  /\ resp' = [resp EXCEPT ![m] = response(p, "done")]
  /\ UNCHANGED <<ldst, pkt>>

(* The assertion on the size of such a write, and the error code for any   *)
(* other value, which the bus returns and so ends the run.                 *)
illegal_control(m, p) ==
  /\ p.status = "request"
  /\ p.bytes # 8 \/ resp[m] = None
  /\ UNCHANGED <<resp, ldst, pkt, sleep>>

(* Faulty variant, for OnePacketPerTransfer: a busy memory takes a request. *)
MemReceiveOver(d, p) ==
  /\ resp' = [resp EXCEPT ![d] = response(p, "done")]
  /\ UNCHANGED <<ldst, pkt, sleep>>

(* Faulty variant, for ErrorMeansRefused: a uart accepts any size. *)
UartReceiveAll(d, p) ==
  /\ resp[d] = None
  /\ resp' = [resp EXCEPT ![d] = response(p, "done")]
  /\ UNCHANGED <<ldst, pkt, sleep>>

(* A device answers at once and keeps the answer; it is busy until the bus *)
(* has taken it.                                                           *)
simple_mem_receive(d, p) ==
  /\ resp[d] = None
  /\ resp' = [resp EXCEPT ![d] = response(p, "done")]
  /\ UNCHANGED <<ldst, pkt, sleep>>

simple_uart_receive(d, p) ==
  /\ resp[d] = None
  /\ resp' = [resp EXCEPT ![d] =
       response(p, IF p.bytes = 1 THEN "done" ELSE "error")]
  /\ UNCHANGED <<ldst, pkt, sleep>>

simple_bus_clock ==
  /\ bus # None
  /\ \/ send \in Mem /\ simple_mem_receive(send, bus) /\ UNCHANGED aborted
     \/ send \in Uart /\ simple_uart_receive(send, bus) /\ UNCHANGED aborted
     \/ send \in Master /\ receive_answer(send, bus) /\ UNCHANGED aborted
     \/ send \in Master /\ receive_control(send, bus) /\ UNCHANGED aborted
     \/ send \in Master /\ illegal_control(send, bus) /\ aborted' = TRUE
  /\ bus' = None
  /\ send' = None

(* simple_mem_clock and simple_uart_clock. *)
device_clock(d) ==
  /\ resp[d] # None
  /\ simple_bus_receive(resp[d], d)
  /\ resp' = [resp EXCEPT ![d] = None]
  /\ UNCHANGED <<ldst, pkt, sleep, aborted>>

Start(m) ==
  ~ aborted /\ \E t \in Target, b \in {1, 8} : start_transfer(m, t, b)
Retry(m)  == ~ aborted /\ retry_transfer(m)
Finish(m) == ~ aborted /\ finish_transfer(m)
Answer(m) == ~ aborted /\ clock_answer(m)
BusClock  == ~ aborted /\ simple_bus_clock
DeviceClock(d) == ~ aborted /\ device_clock(d)

Next ==
  \/ \E m \in Master : Start(m) \/ Retry(m) \/ Finish(m) \/ Answer(m)
  \/ BusClock
  \/ \E d \in Device : DeviceClock(d)

(* Every component is clocked for ever (Clock!EveryDomainAdvances); a      *)
(* processor need not start a transfer, and one that sleeps does nothing   *)
(* but answer.                                                             *)
Fairness ==
  /\ WF_vars(BusClock)
  /\ \A m \in Master :
       WF_vars(Retry(m)) /\ WF_vars(Finish(m)) /\ WF_vars(Answer(m))
  /\ \A d \in Device : WF_vars(DeviceClock(d))

Spec == Init /\ [][Next]_vars /\ Fairness

----------------------------------------------------------------------------
(* Types: simple_bus_receive (simple_bus.c:58-71) never leaves a packet in *)
(* the bus without a component to send it to.                              *)
TypeOK ==
  /\ bus \in Packet \cup {None}
  /\ send \in Component \cup {None}
  /\ bus = None <=> send = None
  /\ resp \in [Component -> Packet \cup {None}]
  /\ ldst \in [Master -> {"idle", "blocked", "sent", "done"}]
  /\ pkt \in [Master -> Packet \cup {None}]
  /\ sleep \in [Master -> BOOLEAN]
  /\ aborted \in BOOLEAN

(* The packet is a request of m, or an answer to one.                      *)
Belongs(p, m) ==
  p # None /\ m = IF p.status = "request" THEN p.from ELSE p.to

(* The components whose register holds an answer for m. *)
Answering(m) == {c \in Component : Belongs(resp[c], m)}

InBus(m) == IF Belongs(bus, m) THEN 1 ELSE 0

(* As long as the simulation runs, a transfer that has been sent is in     *)
(* exactly one register, request or answer, and no register holds a packet *)
(* of any other transfer: the registers of the bus, of memories, uarts and *)
(* control pages lose nothing, answer nothing twice and answer the right   *)
(* processor, whatever the order of their clocks.                          *)
OnePacketPerTransfer ==
  \A m \in Master : ~ aborted =>
    Cardinality(Answering(m)) + InBus(m) = IF ldst[m] = "sent" THEN 1 ELSE 0

Refused(target, bytes) == target = Nowhere \/ (target \in Uart /\ bytes # 1)

(* A finished transfer was answered with an error if no region covers its  *)
(* address (simple_bus.c:59-65) or a uart refuses its size                 *)
(* (simple_uart.c:35-39), and not otherwise: the flag set in one component *)
(* comes with the right answer through all the others.                     *)
ErrorMeansRefused ==
  \A m \in Master : ldst[m] = "done" =>
    (pkt[m].status = "error" <=> Refused(pkt[m].from, pkt[m].bytes))

(* The bus holds a request for a component that waits for the bus: each    *)
(* refuses the other.  A device is one that has an answer                  *)
(* (simple_bus.c:39-41, simple_mem.c:25-27), and so is a processor whose   *)
(* control page is written again before its answer to the write before has *)
(* gone (simple_riscv64.c:548).  A write of the wrong size is not refused, *)
(* it ends the run.                                                        *)
Wedged ==
  /\ bus # None /\ bus.status = "request" /\ resp[send] # None
  /\ send \in Master => bus.bytes = 8

(* It takes two: with the transfer of one processor alone, as in the tests *)
(* of the repository, the bus never waits for a component that waits for   *)
(* it, not even if the processor writes to its own control page.           *)
WedgeTakesTwo ==
  Wedged => Cardinality({m \in Master : ldst[m] = "sent"}) > 1

(* With two it happens, and it is for ever: no component ever backs off,   *)
(* so no step of any component ends it.                                    *)
WedgedForEver == [][Wedged => Wedged']_vars

(* A processor that has been put to sleep keeps its transfer: it neither   *)
(* sends it again nor looks at the answer, which is there when it wakes.   *)
Dormant(m) == sleep[m] /\ ldst[m] \in {"blocked", "done"}

(* It is the only way to get stuck: once no new transfers are started, the *)
(* system finishes those under way, but for those of processors that       *)
(* sleep, is wedged or has been ended.                                     *)
QuietBusSettles ==
  <>[][\A m \in Master : ~ Start(m)]_vars =>
    []<>(aborted \/ Wedged \/ \A m \in Master : ldst[m] = "idle" \/ Dormant(m))

----------------------------------------------------------------------------
(* What makes the safety properties inductive: the bus sends a request of  *)
(* a processor to the component it is for, or an answer to the processor   *)
(* that asked, components keep answers, and a transfer that has been sent  *)
(* is in one register, until a packet that ends the run is lost with it.   *)
IsRequest(p) ==
  p.status = "request" /\ p.from \in Master /\ p.to \in Target

IsAnswer(p) ==
  /\ p.from \in Target /\ p.to \in Master
  /\ p.status \in {"done", "error"}
  /\ p.status = "error" <=> Refused(p.from, p.bytes)

BusHolds ==
  bus # None =>
    /\ send = bus.to
    /\ \/ IsRequest(bus) /\ bus.to \in Component
       \/ IsAnswer(bus)

ResponsesAnswer == \A c \in Component : resp[c] # None => IsAnswer(resp[c])

TransfersHold ==
  \A m \in Master :
    /\ ldst[m] = "blocked" =>
         pkt[m] # None /\ IsRequest(pkt[m]) /\ pkt[m].from = m
    /\ ldst[m] = "done" => pkt[m] # None /\ IsAnswer(pkt[m])

OneRegister(m) ==
  IF ldst[m] = "sent"
  THEN \/ Belongs(bus, m) /\ Answering(m) = {}
       \/ ~ Belongs(bus, m) /\ \E c \in Component : Answering(m) = {c}
  ELSE ~ Belongs(bus, m) /\ Answering(m) = {}

BusInv ==
  /\ TypeOK
  /\ BusHolds
  /\ ResponsesAnswer
  /\ TransfersHold
  /\ \A m \in Master : (aborted /\ bus = None) \/ OneRegister(m)
============================================================================

------------------------------ MODULE BusProofs ------------------------------
(***************************************************************************)
(* On the bus, with any number of processors, memories and uarts, no       *)
(* transfer is lost or answered twice, errors reach the processor that     *)
(* asked, and a wedge takes two transfers and is for ever.  The table of   *)
(* regions finds one owner for an address and keeps it, for address spaces *)
(* of every size.  Both together are a bus whose table does not matter for *)
(* its transfers.  The region allocator, the other table of regions of a   *)
(* system, is what its abstract one promises, for every set of clients and *)
(* requests.                                                               *)
(***************************************************************************)
EXTENDS BusSystem, IdealAlloc, FiniteSetTheorems, WellFoundedInduction, TLAPS

(* A processor is no device, an address in no region is in neither's.      *)
LEMMA Kinds ==
  /\ Component \subseteq Target
  /\ Device \subseteq Component /\ Master \subseteq Component
  /\ Device \cap Master = {}
  /\ None \notin Target
  /\ None \notin Packet
  /\ Nowhere \notin Component
BY ComponentsAreDistinct, NoneIsNoPacket DEF Target, Component, Device

(* What response (packet.h) does to a request is an answer to it. *)
LEMMA ResponseIsAnswer ==
  ASSUME NEW p \in Packet, IsRequest(p), NEW s \in {"done", "error"},
         s = "error" <=> Refused(p.to, p.bytes)
  PROVE  /\ response(p, s) \in Packet
         /\ IsAnswer(response(p, s))
         /\ response(p, s).to = p.from
         /\ response(p, s).from = p.to
         /\ response(p, s).bytes = p.bytes
BY DEF Packet, IsRequest, IsAnswer, response

(* A request is that of the processor that sent it, an answer that of the  *)
(* processor it goes to, and of no other.                                  *)
LEMMA RequestBelongs ==
  ASSUME NEW p \in Packet, IsRequest(p), NEW m \in Master
  PROVE  Belongs(p, m) <=> m = p.from
BY Kinds DEF Belongs, IsRequest

(* An answer carries the processor whose transfer it is.                   *)
LEMMA AnswerBelongs ==
  ASSUME NEW p \in Packet, IsAnswer(p), NEW m \in Master
  PROVE  Belongs(p, m) <=> m = p.to
BY Kinds DEF Belongs, IsAnswer

(* An empty register is part of no transfer.                               *)
LEMMA NoneBelongs == ASSUME NEW m PROVE ~ Belongs(None, m)
BY DEF Belongs

(* What the bus holds after it has taken a request or an answer.           *)
LEMMA BusTakesRequest ==
  ASSUME NEW m \in Master, NEW p \in Packet, IsRequest(p), p.from = m,
         simple_bus_receive(p, m)
  PROVE  /\ bus' \in Packet /\ bus' # None
         /\ send' \in Component /\ send' # None
         /\ BusHolds'
         /\ \A x \in Master : Belongs(bus', x) <=> x = m
<1>1. CASE p.to = Nowhere
  <2>1. bus' = response(p, "error") /\ send' = m
    BY <1>1 DEF simple_bus_receive
  <2>2. Refused(p.to, p.bytes)
    BY <1>1 DEF Refused
  <2>3. bus' \in Packet /\ IsAnswer(bus') /\ bus'.to = m
    BY <2>1, <2>2, ResponseIsAnswer
  <2>4. IsAnswer(bus)'
    BY <2>3 DEF IsAnswer, Refused
  <2> QED
    BY <2>1, <2>3, <2>4, AnswerBelongs, Kinds DEF BusHolds
<1>2. CASE p.to # Nowhere
  <2>1. bus' = p /\ send' = p.to
    BY <1>2 DEF simple_bus_receive
  <2>2. p.to \in Component
    BY <1>2 DEF IsRequest, Target
  <2>3. IsRequest(bus)'
    BY <2>1 DEF IsRequest
  <2> QED
    BY <2>1, <2>2, <2>3, RequestBelongs, Kinds DEF BusHolds
<1> QED
  BY <1>1, <1>2

(* The same for an answer of a component.                                  *)
LEMMA BusTakesAnswer ==
  ASSUME NEW c \in Component, NEW p \in Packet, IsAnswer(p),
         simple_bus_receive(p, c)
  PROVE  /\ bus' = p /\ bus' # None
         /\ send' \in Component /\ send' # None
         /\ BusHolds'
<1>1. p.to \in Component /\ p.to # Nowhere
  BY Kinds DEF IsAnswer
<1>2. bus' = p /\ send' = p.to
  BY <1>1 DEF simple_bus_receive
<1>3. IsAnswer(bus)'
  BY <1>2 DEF IsAnswer, Refused
<1> QED
  BY <1>1, <1>2, <1>3, Kinds DEF BusHolds

(* Where the registers of components do not change, neither do the answers. *)
LEMMA ResponsesUnchanged ==
  ASSUME BusInv, resp' = resp
  PROVE  /\ resp' \in [Component -> Packet \cup {None}]
         /\ ResponsesAnswer'
         /\ \A x \in Master : Answering(x)' = Answering(x)
BY DEF BusInv, TypeOK, ResponsesAnswer, IsAnswer, Refused, Answering, Belongs

(* What a step leaves in the registers of the bus and of the components.   *)
Registers ==
  /\ bus \in Packet \cup {None} /\ send \in Component \cup {None}
  /\ bus = None <=> send = None
  /\ resp \in [Component -> Packet \cup {None}]
  /\ BusHolds
  /\ ResponsesAnswer

(* A step that leaves them as they are leaves transfers where they were.   *)
LEMMA RegistersUnchanged ==
  ASSUME BusInv, bus' = bus, send' = send, resp' = resp,
         \A x \in Master : ldst'[x] = "sent" <=> ldst[x] = "sent"
  PROVE  /\ Registers'
         /\ \A x \in Master : OneRegister(x) => OneRegister(x)'
<1>1. BusHolds'
  BY DEF BusInv, BusHolds, IsRequest, IsAnswer, Refused
<1>2. Registers'
  BY <1>1, ResponsesUnchanged DEF Registers, BusInv, TypeOK
<1>3. \A x \in Master : /\ Answering(x)' = Answering(x)
                        /\ Belongs(bus', x) <=> Belongs(bus, x)
  BY ResponsesUnchanged
<1> QED
  BY <1>2, <1>3 DEF OneRegister, Belongs

(* A component's answer moves from its register into that of the bus.      *)
LEMMA ResponseMoves ==
  ASSUME BusInv, NEW c \in Component, resp[c] # None,
         simple_bus_receive(resp[c], c),
         resp' = [resp EXCEPT ![c] = None],
         \A x \in Master : ldst'[x] = "sent" <=> ldst[x] = "sent"
  PROVE  /\ Registers'
         /\ \A x \in Master : OneRegister(x) => OneRegister(x)'
<1> DEFINE p == resp[c]
<1>1. p # None /\ simple_bus_receive(p, c)
  OBVIOUS
<1>2. p \in Packet /\ IsAnswer(p)
  BY <1>1 DEF BusInv, TypeOK, ResponsesAnswer
<1>3. /\ bus' = p /\ bus' # None /\ BusHolds'
      /\ send' \in Component /\ send' # None
  BY <1>1, <1>2, BusTakesAnswer
<1>4. bus = None
  BY <1>1 DEF simple_bus_receive
<1>5. resp \in [Component -> Packet \cup {None}]
  BY DEF BusInv, TypeOK
<1>6. ResponsesAnswer'
  BY <1>5 DEF BusInv, ResponsesAnswer, IsAnswer, Refused
<1>7. Registers'
  BY <1>2, <1>3, <1>5, <1>6 DEF Registers
<1>8. ASSUME NEW x \in Master, OneRegister(x)
      PROVE  OneRegister(x)'
  <2>1. ~ Belongs(bus, x)
    BY <1>4, NoneBelongs
  <2>2. CASE Belongs(p, x)
    <3>1. c \in Answering(x)
      BY <2>2 DEF Answering
    <3>2. ldst[x] = "sent" /\ Answering(x) = {c}
      BY <1>8, <3>1, <2>1 DEF OneRegister
    <3>3. Answering(x)' = {}
      BY <3>2, <1>5, NoneBelongs DEF Answering, Belongs
    <3> QED
      BY <3>2, <3>3, <2>2, <1>3 DEF OneRegister, Belongs
  <2>3. CASE ~ Belongs(p, x)
    <3>1. Answering(x)' = Answering(x)
      BY <1>5, <2>3 DEF Answering, Belongs
    <3> QED
      BY <1>8, <3>1, <2>1, <2>3, <1>3 DEF OneRegister, Belongs
  <2> QED
    BY <2>2, <2>3
<1> QED
  BY <1>7, <1>8

(* The answer of a processor to a write of its control page is one.        *)
LEMMA ControlAnswered ==
  ASSUME BusInv, NEW m \in Master, answer_control(m),
         \A x \in Master : ldst'[x] = "sent" <=> ldst[x] = "sent"
  PROVE  /\ Registers'
         /\ \A x \in Master : OneRegister(x) => OneRegister(x)'
BY Kinds, RegistersUnchanged, ResponseMoves DEF answer_control

(* A transfer is sent: by the first attempt or by a later one.             *)
LEMMA SentIsInBus ==
  ASSUME BusInv, NEW m \in Master, NEW p \in Packet, IsRequest(p), p.from = m,
         simple_bus_receive(p, m), resp' = resp,
         ldst[m] # "sent", ldst' = [ldst EXCEPT ![m] = "sent"]
  PROVE  /\ Registers'
         /\ \A x \in Master : OneRegister(x) => OneRegister(x)'
<1>1. bus = None
  BY DEF simple_bus_receive
<1>2. /\ bus' \in Packet /\ bus' # None
      /\ send' \in Component /\ send' # None
      /\ BusHolds'
      /\ \A x \in Master : Belongs(bus', x) <=> x = m
  BY BusTakesRequest
<1>3. \A x \in Master : Answering(x)' = Answering(x)
  BY ResponsesUnchanged
<1>4. ldst \in [Master -> {"idle", "blocked", "sent", "done"}]
  BY DEF BusInv, TypeOK
<1>5. ASSUME NEW x \in Master, OneRegister(x)
      PROVE  OneRegister(x)'
  <2>1. ~ Belongs(bus, x)
    BY <1>1, NoneBelongs
  <2>2. CASE x = m
    <3>1. ldst'[x] = "sent" /\ Answering(x) = {}
      BY <1>4, <1>5, <2>1, <2>2 DEF OneRegister
    <3> QED
      BY <3>1, <1>2, <1>3, <2>2 DEF OneRegister, Belongs
  <2>3. CASE x # m
    <3>1. ldst'[x] = ldst[x] /\ ~ Belongs(bus', x)
      BY <1>2, <1>4, <2>3
    <3> QED
      BY <1>5, <3>1, <1>3, <2>1 DEF OneRegister, Belongs
  <2> QED
    BY <2>2, <2>3
<1>6. Registers'
  BY <1>2, ResponsesUnchanged DEF Registers
<1> QED
  BY <1>5, <1>6

(* A processor that starts a transfer keeps the invariant.                 *)
LEMMA StartKeeps ==
  ASSUME BusInv, ~ aborted, NEW m \in Master, NEW t \in Target,
         NEW b \in {1, 8}, start_transfer(m, t, b)
  PROVE  BusInv'
<1> DEFINE p == [from |-> m, to |-> t, bytes |-> b, status |-> "request"]
<1>1. p \in Packet /\ IsRequest(p) /\ p.from = m
  BY Kinds DEF Packet, IsRequest
<1>2. /\ ldst[m] = "idle" /\ pkt' = [pkt EXCEPT ![m] = p]
      /\ aborted' = aborted /\ sleep' = sleep
      /\ \/ /\ resp' = resp /\ simple_bus_receive(p, m)
            /\ ldst' = [ldst EXCEPT ![m] = "sent"]
         \/ /\ answer_control(m)
            /\ ldst' = [ldst EXCEPT ![m] = "blocked"]
  BY DEF start_transfer
<1> HIDE DEF p
<1>3. TransfersHold'
  BY <1>1, <1>2, Kinds
     DEF BusInv, TypeOK, TransfersHold, IsRequest, IsAnswer, Refused
<1>4. Registers' /\ \A x \in Master : OneRegister(x) => OneRegister(x)'
  <2>1. CASE /\ resp' = resp /\ simple_bus_receive(p, m)
             /\ ldst' = [ldst EXCEPT ![m] = "sent"]
    BY <1>1, <1>2, <2>1, SentIsInBus
  <2>2. CASE answer_control(m) /\ ldst' = [ldst EXCEPT ![m] = "blocked"]
    <3>1. \A x \in Master : ldst'[x] = "sent" <=> ldst[x] = "sent"
      BY <1>2, <2>2 DEF BusInv, TypeOK
    <3> QED
      BY <2>2, <3>1, ControlAnswered
  <2> QED
    BY <1>2, <2>1, <2>2
<1>5. TypeOK'
  BY <1>1, <1>2, <1>4 DEF BusInv, TypeOK, Registers
<1> QED
  BY <1>2, <1>3, <1>4, <1>5 DEF BusInv, Registers

(* So does one that sends a refused transfer again.                        *)
LEMMA RetryKeeps ==
  ASSUME BusInv, ~ aborted, NEW m \in Master, retry_transfer(m)
  PROVE  BusInv'
<1>1. /\ ldst[m] = "blocked" /\ ldst' = [ldst EXCEPT ![m] = "sent"]
      /\ simple_bus_receive(pkt[m], m)
      /\ resp' = resp /\ pkt' = pkt /\ sleep' = sleep /\ aborted' = aborted
  BY DEF retry_transfer
<1>2. pkt[m] \in Packet /\ IsRequest(pkt[m]) /\ pkt[m].from = m
  BY <1>1 DEF BusInv, TypeOK, TransfersHold
<1>3. Registers' /\ \A x \in Master : OneRegister(x) => OneRegister(x)'
  BY <1>1, <1>2, SentIsInBus
<1>4. TypeOK'
  BY <1>1, <1>3 DEF BusInv, TypeOK, Registers
<1>5. TransfersHold'
  BY <1>1 DEF BusInv, TypeOK, TransfersHold, IsRequest, IsAnswer, Refused
<1> QED
  BY <1>1, <1>3, <1>4, <1>5 DEF BusInv, Registers

(* So does one that is done with its transfer.                             *)
LEMMA FinishKeeps ==
  ASSUME BusInv, ~ aborted, NEW m \in Master, finish_transfer(m)
  PROVE  BusInv'
<1>1. /\ ldst[m] = "done" /\ aborted' \in BOOLEAN
      /\ ldst' = [ldst EXCEPT ![m] = IF aborted' THEN "done" ELSE "idle"]
      /\ answer_control(m) /\ pkt' = pkt /\ sleep' = sleep
  BY DEF finish_transfer
<1>2. \A x \in Master : ldst'[x] = "sent" <=> ldst[x] = "sent"
  BY <1>1 DEF BusInv, TypeOK
<1>3. Registers' /\ \A x \in Master : OneRegister(x) => OneRegister(x)'
  BY <1>1, <1>2, ControlAnswered
<1>4. TypeOK'
  BY <1>1, <1>3 DEF BusInv, TypeOK, Registers
<1>5. TransfersHold'
  BY <1>1 DEF BusInv, TypeOK, TransfersHold, IsRequest, IsAnswer, Refused
<1> QED
  BY <1>3, <1>4, <1>5 DEF BusInv, Registers

(* So does a component, device or sleeping processor, that only answers.   *)
LEMMA AnswerKeeps ==
  ASSUME BusInv, ~ aborted, NEW c \in Component, resp[c] # None,
         simple_bus_receive(resp[c], c),
         resp' = [resp EXCEPT ![c] = None],
         UNCHANGED <<ldst, pkt, sleep, aborted>>
  PROVE  BusInv'
<1>1. Registers' /\ \A x \in Master : OneRegister(x) => OneRegister(x)'
  BY ResponseMoves
<1>2. TypeOK'
  BY <1>1 DEF BusInv, TypeOK, Registers
<1>3. TransfersHold'
  BY DEF BusInv, TransfersHold, IsRequest, IsAnswer, Refused
<1> QED
  BY <1>1, <1>2, <1>3 DEF BusInv, Registers

(* A component takes the bus's request and keeps the answer.               *)
LEMMA ComponentTakes ==
  ASSUME BusInv, ~ aborted, bus # None, IsRequest(bus),
         NEW c \in Component, send = c, resp[c] = None,
         NEW s \in {"done", "error"},
         s = "error" <=> Refused(bus.to, bus.bytes),
         resp' = [resp EXCEPT ![c] = response(bus, s)],
         sleep' \in [Master -> BOOLEAN],
         ldst' = ldst, pkt' = pkt, aborted' = aborted,
         bus' = None, send' = None
  PROVE  BusInv'
<1> DEFINE q == response(bus, s)
<1>1. bus \in Packet
  BY DEF BusInv, TypeOK
<1>2. q \in Packet /\ IsAnswer(q) /\ q.to = bus.from
  BY <1>1, ResponseIsAnswer
<1>3. /\ resp' = [resp EXCEPT ![c] = q]
      /\ resp \in [Component -> Packet \cup {None}]
  BY DEF BusInv, TypeOK
<1> HIDE DEF q
<1>4. TypeOK'
  BY <1>2, <1>3 DEF BusInv, TypeOK
<1>5. BusHolds'
  BY DEF BusHolds
<1>6. ResponsesAnswer'
  BY <1>2, <1>3 DEF BusInv, ResponsesAnswer, IsAnswer, Refused
<1>7. TransfersHold'
  BY DEF BusInv, TransfersHold, IsRequest, IsAnswer, Refused
<1>8. ASSUME NEW x \in Master
      PROVE  OneRegister(x)'
  <2>1. Belongs(q, x) <=> Belongs(bus, x)
    BY <1>1, <1>2, RequestBelongs, AnswerBelongs
  <2>2. q # None
    BY <1>2, Kinds
  <2>3. CASE Belongs(bus, x)
    <3>1. ldst[x] = "sent" /\ Answering(x) = {}
      BY <2>3 DEF BusInv, OneRegister
    <3>2. Answering(x)' = {c}
      BY <3>1, <2>1, <2>3, <1>3 DEF Answering, Belongs
    <3> QED
      BY <3>1, <3>2 DEF OneRegister, Belongs
  <2>4. CASE ~ Belongs(bus, x)
    <3>1. Answering(x)' = Answering(x)
      BY <2>1, <2>4, <1>3 DEF Answering, Belongs
    <3> QED
      BY <3>1, <2>4 DEF BusInv, OneRegister, Belongs
  <2> QED
    BY <2>3, <2>4
<1> QED
  BY <1>4, <1>5, <1>6, <1>7, <1>8 DEF BusInv

(* A processor takes the bus's answer.                                     *)
LEMMA MasterTakes ==
  ASSUME BusInv, ~ aborted, bus # None, NEW m \in Master, send = m,
         receive_answer(m, bus),
         bus' = None, send' = None, aborted' = aborted
  PROVE  BusInv'
<1>1. /\ bus.status # "request"
      /\ ldst' = [ldst EXCEPT ![m] = "done"]
      /\ pkt' = [pkt EXCEPT ![m] = bus]
      /\ resp' = resp /\ sleep' = sleep
  BY DEF receive_answer
<1>2. bus \in Packet /\ IsAnswer(bus) /\ bus.to = m
  BY <1>1 DEF BusInv, TypeOK, BusHolds, IsRequest
<1>3. TypeOK'
  BY <1>1, <1>2 DEF BusInv, TypeOK
<1>4. BusHolds'
  BY DEF BusHolds
<1>5. TransfersHold'
  BY <1>1, <1>2, Kinds
     DEF BusInv, TypeOK, TransfersHold, IsRequest, IsAnswer, Refused
<1>6. ASSUME NEW x \in Master
      PROVE  OneRegister(x)'
  <2>1. Answering(x)' = Answering(x) /\ ~ Belongs(bus', x)
    BY <1>1, ResponsesUnchanged, NoneBelongs
  <2>2. Belongs(bus, x) <=> x = m
    BY <1>2, AnswerBelongs
  <2>3. CASE x = m
    <3>1. Answering(x) = {} /\ ldst'[x] = "done"
      BY <1>1, <2>2, <2>3 DEF BusInv, TypeOK, OneRegister
    <3> QED
      BY <3>1, <2>1 DEF OneRegister, Belongs
  <2>4. CASE x # m
    <3>1. ldst'[x] = ldst[x] /\ ~ Belongs(bus, x)
      BY <1>1, <2>2, <2>4 DEF BusInv, TypeOK
    <3> QED
      BY <3>1, <2>1 DEF BusInv, OneRegister, Belongs
  <2> QED
    BY <2>3, <2>4
<1> QED
  BY <1>1, <1>3, <1>4, <1>5, <1>6, ResponsesUnchanged DEF BusInv

(* A write of a control page that ends the run loses its packet, and no    *)
(* register gets another.                                                  *)
LEMMA IllegalKeeps ==
  ASSUME BusInv, NEW m \in Master, illegal_control(m, bus),
         bus' = None, send' = None, aborted' = TRUE
  PROVE  BusInv'
<1>1. resp' = resp /\ ldst' = ldst /\ pkt' = pkt /\ sleep' = sleep
  BY DEF illegal_control
<1>2. TypeOK' /\ BusHolds'
  BY <1>1 DEF BusInv, TypeOK, BusHolds
<1>3. TransfersHold'
  BY <1>1 DEF BusInv, TransfersHold, IsRequest, IsAnswer, Refused
<1> QED
  BY <1>1, <1>2, <1>3, ResponsesUnchanged DEF BusInv

(* The bus holds a request for a device, and for a processor one or the    *)
(* answer to its transfer.                                                 *)
LEMMA BusRequest ==
  ASSUME BusInv, bus # None, send \in Device \/ bus.status = "request"
  PROVE  IsRequest(bus) /\ send = bus.to /\ send \in Component
BY Kinds DEF BusInv, BusHolds, IsAnswer

(* So does the bus that hands its packet on.                               *)
LEMMA BusClockKeeps ==
  ASSUME BusInv, ~ aborted, simple_bus_clock
  PROVE  BusInv'
<1>1. bus # None /\ bus' = None /\ send' = None
  BY DEF simple_bus_clock
<1>2. CASE send \in Mem /\ simple_mem_receive(send, bus) /\ UNCHANGED aborted
  <2>1. send \in Device /\ IsRequest(bus) /\ send = bus.to
    BY <1>1, <1>2, BusRequest DEF Device
  <2>2. ~ Refused(bus.to, bus.bytes)
    BY <1>2, <2>1, ComponentsAreDistinct DEF Refused
  <2>3. /\ resp[send] = None
        /\ resp' = [resp EXCEPT ![send] = response(bus, "done")]
        /\ ldst' = ldst /\ pkt' = pkt /\ sleep' = sleep
    BY <1>2 DEF simple_mem_receive
  <2>4. sleep' \in [Master -> BOOLEAN]
    BY <2>3 DEF BusInv, TypeOK
  <2> QED
    BY <1>1, <1>2, <2>1, <2>2, <2>3, <2>4, ComponentTakes, Kinds
<1>3. CASE send \in Uart /\ simple_uart_receive(send, bus) /\ UNCHANGED aborted
  <2> DEFINE s == IF bus.bytes = 1 THEN "done" ELSE "error"
  <2>1. send \in Device /\ IsRequest(bus) /\ send = bus.to
    BY <1>1, <1>3, BusRequest DEF Device
  <2>2. s \in {"done", "error"} /\ (s = "error" <=> Refused(bus.to, bus.bytes))
    BY <1>3, <2>1, ComponentsAreDistinct DEF Refused
  <2>3. /\ resp[send] = None
        /\ resp' = [resp EXCEPT ![send] = response(bus, s)]
        /\ ldst' = ldst /\ pkt' = pkt /\ sleep' = sleep
    BY <1>3 DEF simple_uart_receive
  <2>4. sleep' \in [Master -> BOOLEAN]
    BY <2>3 DEF BusInv, TypeOK
  <2> HIDE DEF s
  <2> QED
    BY <1>1, <1>3, <2>1, <2>2, <2>3, <2>4, ComponentTakes, Kinds
<1>4. CASE send \in Master /\ receive_answer(send, bus) /\ UNCHANGED aborted
  BY <1>1, <1>4, MasterTakes
<1>5. CASE send \in Master /\ receive_control(send, bus) /\ UNCHANGED aborted
  <2>1. /\ bus.status = "request" /\ bus.bytes = 8 /\ resp[send] = None
        /\ \E s \in BOOLEAN : sleep' = [sleep EXCEPT ![send] = s]
        /\ resp' = [resp EXCEPT ![send] = response(bus, "done")]
        /\ ldst' = ldst /\ pkt' = pkt
    BY <1>5 DEF receive_control
  <2>2. IsRequest(bus) /\ send = bus.to /\ send \in Component
    BY <1>1, <2>1, BusRequest
  <2>3. ~ Refused(bus.to, bus.bytes)
    BY <1>5, <2>2, ComponentsAreDistinct DEF Refused
  <2>4. sleep' \in [Master -> BOOLEAN]
    BY <2>1 DEF BusInv, TypeOK
  <2> QED
    BY <1>1, <1>5, <2>1, <2>2, <2>3, <2>4, ComponentTakes
<1>6. CASE send \in Master /\ illegal_control(send, bus) /\ aborted' = TRUE
  BY <1>1, <1>6, IllegalKeeps
<1> QED
  BY <1>2, <1>3, <1>4, <1>5, <1>6 DEF simple_bus_clock

----------------------------------------------------------------------------
(* The registers are empty and no processor has a transfer at the start. *)
LEMMA InitHolds == Init => BusInv
<1> SUFFICES ASSUME Init
             PROVE  BusInv
  OBVIOUS
<1>1. TypeOK
  BY DEF Init, TypeOK
<1>2. BusHolds /\ ResponsesAnswer /\ TransfersHold
  BY DEF Init, BusHolds, ResponsesAnswer, TransfersHold
<1>3. \A m \in Master : OneRegister(m)
  BY DEF Init, OneRegister, Answering, Belongs
<1> QED
  BY <1>1, <1>2, <1>3 DEF BusInv

(* No step of a component breaks the invariant. *)
LEMMA StepKeeps == BusInv /\ [Next]_vars => BusInv'
<1> SUFFICES ASSUME BusInv, [Next]_vars
             PROVE  BusInv'
  OBVIOUS
<1>1. ASSUME NEW m \in Master, Start(m)
      PROVE  BusInv'
  BY <1>1, StartKeeps DEF Start
<1>2. ASSUME NEW m \in Master, Retry(m)
      PROVE  BusInv'
  BY <1>2, RetryKeeps DEF Retry
<1>3. ASSUME NEW m \in Master, Finish(m)
      PROVE  BusInv'
  BY <1>3, FinishKeeps DEF Finish
<1>4. ASSUME NEW m \in Master, Answer(m)
      PROVE  BusInv'
  BY <1>4, AnswerKeeps, Kinds DEF Answer, clock_answer, answer_control
<1>5. CASE BusClock
  BY <1>5, BusClockKeeps DEF BusClock
<1>6. ASSUME NEW d \in Device, DeviceClock(d)
      PROVE  BusInv'
  BY <1>6, AnswerKeeps, Kinds DEF DeviceClock, device_clock
<1>7. CASE UNCHANGED vars
  <2>1. Registers' /\ \A x \in Master : OneRegister(x) => OneRegister(x)'
    BY <1>7, RegistersUnchanged DEF vars
  <2>2. TypeOK' /\ TransfersHold'
    BY <1>7 DEF BusInv, vars, TypeOK, TransfersHold,
                IsRequest, IsAnswer, Refused
  <2> QED
    BY <1>7, <2>1, <2>2 DEF BusInv, Registers, vars
<1> QED
  BY <1>1, <1>2, <1>3, <1>4, <1>5, <1>6, <1>7 DEF Next

(* What the registers and states of the bus system hold, inductively.      *)
THEOREM BusCorrect == Spec => []BusInv
  BY InitHolds, StepKeeps, PTL DEF Spec

(* The registers of bus, devices and processors hold packets, and the bus  *)
(* has somewhere to send the one it holds.                                 *)
THEOREM TypeCorrect == Spec => []TypeOK
<1>1. BusInv => TypeOK
  BY DEF BusInv
<1> QED
  BY <1>1, BusCorrect, PTL

(* A transfer that is in one register is counted once.                    *)
LEMMA TransfersInv == BusInv => OnePacketPerTransfer
<1> SUFFICES ASSUME BusInv, NEW m \in Master, ~ aborted
             PROVE  Cardinality(Answering(m)) + InBus(m)
                      = IF ldst[m] = "sent" THEN 1 ELSE 0
  BY DEF OnePacketPerTransfer
<1>1. OneRegister(m)
  BY DEF BusInv
<1>2. Answering(m) = {} => Cardinality(Answering(m)) = 0
  BY FS_EmptySet
<1>3. ASSUME NEW c \in Component, Answering(m) = {c}
      PROVE  Cardinality(Answering(m)) = 1
  BY <1>3, FS_Singleton
<1> QED
  BY <1>1, <1>2, <1>3 DEF OneRegister, InBus

(* No register loses a packet, answers it twice or mixes up processors: a  *)
(* transfer is in one register from when it is accepted to when it is      *)
(* answered, with any number of processors and devices.                    *)
THEOREM TransfersAreKept == Spec => []OnePacketPerTransfer
  BY TransfersInv, BusCorrect, PTL

(* A transfer is finished by an answer to it.                             *)
LEMMA ErrorsInv == BusInv => ErrorMeansRefused
BY DEF BusInv, TransfersHold, ErrorMeansRefused, IsAnswer

(* The error flag that the bus or a uart sets arrives with the answer to   *)
(* the very access that was refused.                                       *)
THEOREM ErrorsAreRefusals == Spec => []ErrorMeansRefused
  BY ErrorsInv, BusCorrect, PTL

(* The two packets of a wedge are of different processors.                *)
LEMMA WedgeInv == BusInv => WedgeTakesTwo
<1> SUFFICES ASSUME BusInv, Wedged
             PROVE  Cardinality({m \in Master : ldst[m] = "sent"}) > 1
  BY DEF WedgeTakesTwo
<1> DEFINE open == {m \in Master : ldst[m] = "sent"}
           a == bus.from
           b == resp[send].to
<1>1. bus # None /\ bus.status = "request" /\ resp[send] # None
  BY DEF Wedged
<1>2. IsRequest(bus) /\ send \in Component
  BY <1>1, BusRequest
<1>3. bus \in Packet /\ resp[send] \in Packet
  BY <1>1, <1>2 DEF BusInv, TypeOK
<1>4. a \in Master /\ Belongs(bus, a)
  BY <1>2, <1>3, RequestBelongs DEF IsRequest
<1>5. IsAnswer(resp[send])
  BY <1>1, <1>2 DEF BusInv, ResponsesAnswer
<1>6. b \in Master /\ send \in Answering(b)
  BY <1>2, <1>3, <1>5, AnswerBelongs DEF IsAnswer, Answering
<1>7. OneRegister(a) /\ OneRegister(b)
  BY <1>1, <1>4, <1>6 DEF BusInv
<1>8. a \in open /\ b \in open /\ a # b
  BY <1>4, <1>6, <1>7 DEF OneRegister
<1> HIDE DEF open, a, b
<1>9. IsFiniteSet(open)
  BY MastersAreFinite, FS_Subset DEF open
<1>10. Cardinality(open) \in Nat
  BY <1>9, FS_CardinalityType
<1>11. Cardinality(open) # 0 /\ Cardinality(open) # 1
  BY <1>8, <1>9, FS_EmptySet, FS_Singleton
<1>12. Cardinality(open) > 1
  BY <1>10, <1>11
<1> QED
  BY <1>12 DEF open

(* Bus and component refuse each other only over two different transfers:  *)
(* a system of one processor never gets stuck.                             *)
THEOREM WedgeNeedsTwo == Spec => []WedgeTakesTwo
  BY WedgeInv, BusCorrect, PTL

(* No component can move either packet of a wedge.                         *)
LEMMA WedgeStep == BusInv /\ [Next]_vars => (Wedged => Wedged')
<1> SUFFICES ASSUME BusInv, [Next]_vars, Wedged
             PROVE  Wedged'
  OBVIOUS
<1>1. /\ bus # None /\ bus.status = "request" /\ resp[send] # None
      /\ send \in Master => bus.bytes = 8
  BY DEF Wedged
<1>2. \A p, from : ~ simple_bus_receive(p, from)
  BY <1>1 DEF simple_bus_receive
<1>3. ASSUME NEW m \in Master, Start(m) \/ Retry(m) \/ Finish(m) \/ Answer(m)
      PROVE  bus' = bus /\ send' = send /\ resp' = resp
  BY <1>2, <1>3 DEF Start, start_transfer, Retry, retry_transfer,
                    Finish, finish_transfer, Answer, clock_answer, answer_control
<1>4. ~ BusClock
  BY <1>1, Kinds
     DEF BusClock, simple_bus_clock, simple_mem_receive, simple_uart_receive,
         receive_answer, receive_control, illegal_control, Device
<1>5. ASSUME NEW d \in Device
      PROVE  ~ DeviceClock(d)
  BY <1>2 DEF DeviceClock, device_clock
<1>6. UNCHANGED vars => bus' = bus /\ send' = send /\ resp' = resp
  BY DEF vars
<1>7. bus' = bus /\ send' = send /\ resp' = resp
  BY <1>3, <1>4, <1>5, <1>6 DEF Next
<1> QED
  BY <1>1, <1>7 DEF Wedged

(* Nothing in the code ends a wedge: no component gives up a packet that   *)
(* was refused.                                                            *)
THEOREM WedgeStays == Spec => WedgedForEver
  BY WedgeStep, BusCorrect, PTL DEF Spec, WedgedForEver

----------------------------------------------------------------------------
(***************************************************************************)
(* What the region table keeps, for every number of addresses and regions. *)
(***************************************************************************)

(* A set of numbers has a least one. *)
LEMMA LeastNumber ==
  ASSUME NEW S \in SUBSET Nat, S # {}
  PROVE  /\ Min(S) \in S
         /\ \A n \in S : Min(S) <= n
<1>1. PICK m \in S : \A n \in S : ~ (<<n, m>> \in OpToRel(<, Nat))
  BY NatLessThanWellFounded, WFMin
<1>2. \A n \in S : ~ (n < m)
  BY <1>1 DEF OpToRel
<1>3. \A n \in S : m <= n
  BY <1>2
<1> QED
  BY <1>3 DEF Min

(* The places of the regions that hold an address. *)
Holders(addr) == {i \in 1 .. Len(regions) : holds(regions[i], addr)}

(* find_bus_region returns the first of them. *)
LEMMA FindIsFirst ==
  ASSUME NEW addr, regions \in Seq(Region)
  PROVE  /\ Holders(addr) = {} => find_bus_region(addr) = 0
         /\ Holders(addr) # {} =>
              /\ find_bus_region(addr) \in Holders(addr)
              /\ \A i \in Holders(addr) : find_bus_region(addr) <= i
<1>1. find_bus_region(addr) =
        IF Holders(addr) # {} THEN Min(Holders(addr)) ELSE 0
  BY DEF find_bus_region, SelectInSeq, Holders
<1>2. Holders(addr) \in SUBSET Nat
  BY DEF Holders
<1> QED
  BY <1>1, <1>2, LeastNumber

(* The table grows at its end only. *)
LEMMA AddAppends ==
  ASSUME NEW r \in Region, regions \in Seq(Region), ~ found(r),
         simple_bus_add(r)
  PROVE  /\ regions' \in Seq(Region)
         /\ Len(regions') = Len(regions) + 1
         /\ \A i \in 1 .. Len(regions) : regions'[i] = regions[i]
         /\ regions'[Len(regions) + 1] = r
  BY DEF simple_bus_add

TableOK == regions \in Seq(Region) /\ Len(regions) <= MaxRegions

(* An addition keeps the shape of the table.                               *)
LEMMA TableStep ==
  ASSUME TableOK, AddRegion
  PROVE  TableOK'
<1>1. PICK r \in Region : simple_bus_add(r)
  BY DEF AddRegion
<1>2. CASE found(r)
  BY <1>1, <1>2 DEF simple_bus_add, TableOK
<1>3. CASE ~ found(r)
  BY <1>1, <1>3, AddAppends, SizesArePositive DEF TableOK, AddRegion
<1> QED
  BY <1>2, <1>3

(* Whatever is found goes on being found, at the same place. *)
LEMMA OwnerStays ==
  ASSUME TableOK, AddRegion, NEW a \in Address, find_bus_region(a) # 0
  PROVE  find_bus_region(a)' = find_bus_region(a)
<1>1. PICK r \in Region : simple_bus_add(r)
  BY DEF AddRegion
<1>2. CASE found(r)
  BY <1>1, <1>2 DEF simple_bus_add, find_bus_region, SelectInSeq
<1>3. CASE ~ found(r)
  <2> DEFINE f == find_bus_region(a)
  <2>1. Holders(a) # {} /\ f \in Holders(a) /\ \A i \in Holders(a) : f <= i
    BY FindIsFirst DEF TableOK
  <2>2. /\ regions' \in Seq(Region)
        /\ Len(regions') = Len(regions) + 1
        /\ \A i \in 1 .. Len(regions) : regions'[i] = regions[i]
    BY <1>1, <1>3, AddAppends DEF TableOK
  <2>3. Len(regions) \in Nat
    BY DEF TableOK
  <2>4. f \in Holders(a)'
    BY <2>1, <2>2, <2>3 DEF Holders
  <2>5. \A i \in Holders(a)' : f <= i
    <3> SUFFICES ASSUME NEW i \in Holders(a)' PROVE f <= i
      OBVIOUS
    <3>1. i \in 1 .. Len(regions) + 1 /\ holds(regions'[i], a)
      BY <2>2 DEF Holders, holds, end
    <3>2. CASE i \in 1 .. Len(regions)
      BY <2>1, <2>2, <3>1, <3>2 DEF Holders
    <3>3. CASE i = Len(regions) + 1
      BY <2>1, <2>3, <3>3 DEF Holders
    <3> QED
      BY <2>3, <3>1, <3>2, <3>3
  <2>6. /\ find_bus_region(a)' \in Holders(a)'
        /\ \A i \in Holders(a)' : find_bus_region(a)' <= i
    <3>1. (regions \in Seq(Region))'
      BY <2>2
    <3>2. (Holders(a) # {})'
      BY <2>4
    <3>3. find_bus_region(a)' =
            IF Holders(a)' # {} THEN Min(Holders(a)') ELSE 0
      BY DEF find_bus_region, SelectInSeq, Holders
    <3>4. Holders(a)' \in SUBSET Nat
      BY <2>2, <2>3 DEF Holders
    <3> QED
      BY <3>2, <3>3, <3>4, LeastNumber
  <2>7. f \in Nat /\ find_bus_region(a)' \in Nat
    BY <2>1, <2>2, <2>3, <2>6 DEF Holders
  <2> QED
    BY <2>4, <2>5, <2>6, <2>7
<1> QED
  BY <1>2, <1>3

(* The table is a sequence of regions, of at most MaxRegions.              *)
THEOREM TableCorrect == RegionsSpec => []TableOK
<1>1. NoRegions => TableOK
  BY SizesArePositive DEF NoRegions, TableOK
<1>2. TableOK /\ [AddRegion]_regions => TableOK'
  <2>1. CASE AddRegion
    BY <2>1, TableStep
  <2>2. CASE UNCHANGED regions
    BY <2>2 DEF TableOK
  <2> QED
    BY <2>1, <2>2
<1> QED
  BY <1>1, <1>2, PTL DEF RegionsSpec

(* Nobody loses packets to a component that is added later.                *)
THEOREM OwnersAreStable == RegionsSpec => OwnersStable
<1> DEFINE Kept == \A a \in Address :
      find_bus_region(a) # 0 => find_bus_region(a)' = find_bus_region(a)
<1>1. TableOK /\ [AddRegion]_regions => [Kept]_regions
  BY OwnerStays
<1> QED
  BY <1>1, TableCorrect, PTL DEF RegionsSpec, OwnersStable

(* No region holds the address at which a later one starts, and overlaps   *)
(* are of the one kind: what two look-ups of simple_bus_add come to.       *)
StartsFree ==
  \A i, j \in 1 .. Len(regions) :
    i < j => ~ holds(regions[i], regions[j].addr)

RegionsInv == TableOK /\ StartsFree /\ OverlapsOnlyAround

(* Where a region starts and ends are numbers.                             *)
LEMMA EndIsAddress ==
  ASSUME NEW r \in Region
  PROVE  r.addr \in Nat /\ end(r) \in Nat
  BY SizesArePositive DEF Region, Address, end

(* What is added does not start, nor end, in a region of the table.        *)
LEMMA NotFound ==
  ASSUME TableOK, NEW r \in Region, ~ found(r), NEW i \in 1 .. Len(regions)
  PROVE  ~ holds(regions[i], r.addr) /\ ~ holds(regions[i], end(r))
<1>1. ASSUME NEW a, find_bus_region(a) = 0 PROVE ~ holds(regions[i], a)
  <2>1. Holders(a) = {}
    BY <1>1, FindIsFirst DEF TableOK, Holders
  <2> QED
    BY <2>1 DEF Holders
<1> QED
  BY <1>1 DEF found

(* An added region that overlaps another one begins before it and does not *)
(* end before it.                                                          *)
LEMMA AddedIsAround ==
  ASSUME TableOK, NEW r \in Region, ~ found(r), NEW i \in 1 .. Len(regions),
         NEW a \in Address, holds(regions[i], a), holds(r, a)
  PROVE  r.addr < regions[i].addr /\ end(regions[i]) <= end(r)
<1>1. regions[i] \in Region
  BY DEF TableOK
<1>2. /\ r.addr \in Nat /\ end(r) \in Nat
      /\ regions[i].addr \in Nat /\ end(regions[i]) \in Nat
  BY <1>1, EndIsAddress
<1>3. a \in Nat
  BY SizesArePositive DEF Address
<1>4. ~ holds(regions[i], r.addr) /\ ~ holds(regions[i], end(r))
  BY NotFound
<1> QED
  BY <1>2, <1>3, <1>4 DEF holds

(* An addition keeps the invariant of the table, whatever region it is.    *)
LEMMA RegionsStep ==
  ASSUME RegionsInv, AddRegion
  PROVE  RegionsInv'
<1>1. PICK r \in Region : simple_bus_add(r)
  BY DEF AddRegion
<1>2. TableOK'
  BY TableStep DEF RegionsInv
<1>3. CASE found(r)
  BY <1>1, <1>3 DEF simple_bus_add, RegionsInv, TableOK, StartsFree,
                    OverlapsOnlyAround, holds, end
<1>4. CASE ~ found(r)
  <2> DEFINE n == Len(regions)
  <2>1. /\ Len(regions') = n + 1
        /\ \A i \in 1 .. n : regions'[i] = regions[i]
        /\ regions'[n + 1] = r
    BY <1>1, <1>4, AddAppends DEF RegionsInv, TableOK
  <2>2. n \in Nat /\ DOMAIN regions = 1 .. n /\ DOMAIN regions' = 1 .. n + 1
    BY <1>2, <2>1 DEF RegionsInv, TableOK
  <2>3. ASSUME NEW i \in 1 .. n + 1, NEW j \in 1 .. n + 1, i < j
        PROVE  i \in 1 .. n /\ (j \in 1 .. n \/ j = n + 1)
    BY <2>2, <2>3
  <2>4. StartsFree'
    <3> SUFFICES ASSUME NEW i \in 1 .. n + 1, NEW j \in 1 .. n + 1, i < j
                 PROVE  ~ holds(regions'[i], regions'[j].addr)
      BY <2>1 DEF StartsFree, holds, end
    <3>1. CASE j \in 1 .. n
      BY <2>1, <2>3, <3>1 DEF RegionsInv, StartsFree
    <3>2. CASE j = n + 1
      BY <1>4, <2>1, <2>3, <3>2, NotFound DEF RegionsInv
    <3> QED
      BY <2>3, <3>1, <3>2
  <2>5. OverlapsOnlyAround'
    <3> SUFFICES ASSUME NEW i \in 1 .. n + 1, NEW j \in 1 .. n + 1, i < j,
                        NEW a \in Address, holds(regions'[i], a),
                        holds(regions'[j], a)
                 PROVE  /\ regions'[j].addr < regions'[i].addr
                        /\ end(regions'[i]) <= end(regions'[j])
      BY <2>2 DEF OverlapsOnlyAround, holds, end
    <3>1. CASE j \in 1 .. n
      BY <2>1, <2>2, <2>3, <3>1 DEF RegionsInv, OverlapsOnlyAround
    <3>2. CASE j = n + 1
      BY <1>4, <2>1, <2>3, <3>2, AddedIsAround DEF RegionsInv
    <3> QED
      BY <2>3, <3>1, <3>2
  <2> QED
    BY <1>2, <2>4, <2>5 DEF RegionsInv
<1> QED
  BY <1>3, <1>4

(* The inductive invariant of the table.                                   *)
THEOREM RegionsCorrect == RegionsSpec => []RegionsInv
<1>1. NoRegions => RegionsInv
  BY SizesArePositive
  DEF NoRegions, RegionsInv, TableOK, StartsFree, OverlapsOnlyAround
<1>2. RegionsInv /\ [AddRegion]_regions => RegionsInv'
  <2>1. CASE AddRegion
    BY <2>1, RegionsStep
  <2>2. CASE UNCHANGED regions
    BY <2>2 DEF RegionsInv, TableOK, StartsFree, OverlapsOnlyAround, holds, end
  <2> QED
    BY <2>1, <2>2
<1> QED
  BY <1>1, <1>2, PTL DEF RegionsSpec

(* Overlaps that simple_bus_add lets through all lie around an earlier     *)
(* region.                                                                 *)
THEOREM OverlapsAreAround == RegionsSpec => []OverlapsOnlyAround
<1>1. RegionsInv => OverlapsOnlyAround
  BY DEF RegionsInv
<1> QED
  BY <1>1, RegionsCorrect, PTL

(* A component owns the address it starts at unless its region wraps.      *)
LEMMA StartIsOwned == RegionsInv => OwnsItsStart
<1> SUFFICES ASSUME RegionsInv, NEW i \in DOMAIN regions,
                    regions[i].addr < end(regions[i])
             PROVE  find_bus_region(regions[i].addr) = i
  BY DEF OwnsItsStart
<1> DEFINE a == regions[i].addr
<1>1. i \in 1 .. Len(regions) /\ regions[i] \in Region
  BY DEF RegionsInv, TableOK
<1>2. i \in Holders(a)
  BY <1>1, EndIsAddress DEF Holders, holds
<1>3. /\ find_bus_region(a) \in Holders(a)
      /\ find_bus_region(a) <= i
  BY <1>2, FindIsFirst DEF RegionsInv, TableOK
<1>4. find_bus_region(a) \in 1 .. Len(regions)
  BY <1>3 DEF Holders
<1>5. ~ (find_bus_region(a) < i)
  BY <1>1, <1>3, <1>4 DEF RegionsInv, StartsFree, Holders
<1> QED
  BY <1>1, <1>3, <1>4, <1>5

(* So a component that has been added is found at its own address, however  *)
(* many regions there are.                                                 *)
THEOREM StartsAreOwned == RegionsSpec => []OwnsItsStart
  BY StartIsOwned, RegionsCorrect, PTL

----------------------------------------------------------------------------
(***************************************************************************)
(* What is proved of the bus, where a packet is for some component, and of *)
(* the table of regions, where components are mapped, holds of the two     *)
(* together, where the table decides for which component a packet is.      *)
(***************************************************************************)

(* What simple_bus_receive (simple_bus.c:58-70) finds for an address is a  *)
(* component that has been added, or nothing.                              *)
LEMMA OwnerIsTarget ==
  ASSUME TableOK, NEW addr
  PROVE  owner(addr) \in Target
<1> DEFINE i == find_bus_region(addr)
<1>1. i = 0 \/ i \in 1 .. Len(regions)
  <2>1. CASE Holders(addr) = {}
    BY <2>1, FindIsFirst DEF TableOK
  <2>2. CASE Holders(addr) # {}
    <3>1. i \in Holders(addr)
      BY <2>2, FindIsFirst DEF TableOK
    <3> QED
      BY <3>1 DEF Holders
  <2> QED
    BY <2>1, <2>2
<1>2. Len(regions) \in Nat /\ Len(regions) <= MaxRegions
  BY DEF TableOK
<1>3. /\ Slot \in Seq(Component) /\ Len(Slot) >= MaxRegions
      /\ MaxRegions \in Nat /\ Len(Slot) \in Nat
  BY SystemAssumption, SizesArePositive
<1> HIDE DEF i
<1>4. CASE i = 0
  BY <1>4 DEF owner, Target, i
<1>5. CASE i \in 1 .. Len(regions)
  <2>1. i \in 1 .. Len(Slot) /\ i # 0
    BY <1>2, <1>3, <1>5
  <2>2. Slot[i] \in Component
    BY <1>3, <2>1
  <2> QED
    BY <2>1, <2>2 DEF owner, Target, i
<1> QED
  BY <1>1, <1>4, <1>5

(* Every step of the system is a step of the bus, or none; and a step of   *)
(* the table, or none.                                                     *)
LEMMA SystemStep ==
  ASSUME TableOK, [SystemNext]_systemVars
  PROVE  [Next]_vars /\ [AddRegion]_regions
<1>1. CASE MapComponent
  BY <1>1 DEF MapComponent
<1>2. ASSUME NEW m \in Master, NEW addr \in Address, NEW b \in {1, 8},
             StartAt(m, addr, b)
      PROVE  Next /\ UNCHANGED regions
  <2>1. Start(m)
    BY <1>2, OwnerIsTarget DEF StartAt, Start
  <2> QED
    BY <1>2, <2>1 DEF Next, StartAt
<1>3. ASSUME NEW m \in Master, (Retry(m) \/ Finish(m) \/ Answer(m))
                                /\ UNCHANGED regions
      PROVE  Next /\ UNCHANGED regions
  BY <1>3 DEF Next
<1>4. CASE BusClock /\ UNCHANGED regions
  BY <1>4 DEF Next
<1>5. ASSUME NEW d \in Device, DeviceClock(d) /\ UNCHANGED regions
      PROVE  Next /\ UNCHANGED regions
  BY <1>5 DEF Next
<1>6. CASE UNCHANGED systemVars
  BY <1>6 DEF systemVars
<1> QED
  BY <1>1, <1>2, <1>3, <1>4, <1>5, <1>6 DEF SystemNext

(* The system only ever adds regions as simple_bus_add does.               *)
THEOREM SystemMaps == SystemSpec => RegionsSpec
<1>1. SystemInit => NoRegions /\ TableOK
  BY SizesArePositive DEF SystemInit, NoRegions, TableOK
<1>2. TableOK /\ [SystemNext]_systemVars => [AddRegion]_regions /\ TableOK'
  <2> SUFFICES ASSUME TableOK, [SystemNext]_systemVars
               PROVE  [AddRegion]_regions /\ TableOK'
    OBVIOUS
  <2>1. [AddRegion]_regions
    BY SystemStep
  <2>2. CASE AddRegion
    BY <2>2, TableStep
  <2>3. CASE UNCHANGED regions
    BY <2>3 DEF TableOK
  <2> QED
    BY <2>1, <2>2, <2>3
<1> QED
  BY <1>1, <1>2, PTL DEF SystemSpec, RegionsSpec

(* With addresses looked up in a table of any layout, the bus is the bus   *)
(* of SimpleBus: what the look-up returns is always a component.           *)
THEOREM SystemIsBus == SystemSpec => Init /\ [][Next]_vars
<1>1. SystemInit => Init
  BY DEF SystemInit
<1>2. TableOK /\ [SystemNext]_systemVars => [Next]_vars
  BY SystemStep
<1>3. SystemSpec => []TableOK
  BY SystemMaps, TableCorrect, PTL
<1> QED
  BY <1>1, <1>2, <1>3, PTL DEF SystemSpec

(* So the registers of the composed system hold what those of the bus do.  *)
THEOREM SystemCorrect == SystemSpec => []BusInv
  BY SystemIsBus, InitHolds, StepKeeps, PTL

(* For every layout of regions, overlapping ones included, no register     *)
(* loses a transfer, answers it twice or answers another processor.        *)
THEOREM SystemKeepsTransfers == SystemSpec => []OnePacketPerTransfer
  BY SystemCorrect, TransfersInv, PTL

(* An access ends with an error exactly when the look-up finds no region   *)
(* for its address, or the uart it finds refuses its size.                 *)
THEOREM SystemErrors == SystemSpec => []ErrorMeansRefused
  BY SystemCorrect, ErrorsInv, PTL

(* Bus and component refuse each other only over transfers of two          *)
(* processors.                                                             *)
THEOREM SystemWedgeNeedsTwo == SystemSpec => []WedgeTakesTwo
  BY SystemCorrect, WedgeInv, PTL

(* No step of any component of the system ends a wedge.                    *)
THEOREM SystemWedgeStays == SystemSpec => WedgedForEver
  BY SystemIsBus, SystemCorrect, WedgeStep, PTL DEF WedgedForEver

(* An address that has an owner keeps it.                                  *)
THEOREM SystemOwners == SystemSpec => OwnersStable
  BY SystemMaps, OwnersAreStable, PTL

(* A component whose region does not wrap owns the address it starts at,   *)
(* and the overlaps that simple_bus_add lets through lie around an earlier *)
(* region.                                                                 *)
THEOREM SystemTable == SystemSpec => [](OwnsItsStart /\ OverlapsOnlyAround)
  BY SystemMaps, StartsAreOwned, OverlapsAreAround, PTL

-----------------------------------------------------------------------------
(* A region of disjoint ones that contains what is searched for is the     *)
(* only one, and the search meets it whatever the shape of the tree; if    *)
(* there is none, the search finds nothing.                                *)
LEMMA CmpIsZero ==
  ASSUME NEW r \in Extent, NEW k \in Extent
  PROVE  region_cmp(r, k) = 0 <=> Promised!Contains(r, k)
<1>1. r = k \/ r.start > k.start \/ (r.start <= k.start /\ r.end < k.end)
      \/ (r.start <= k.start /\ r.end >= k.end)
  BY DEF Extent
<1>2. CASE r = k
  BY <1>2 DEF Extent, region_cmp, Promised!Contains
<1>3. CASE r # k /\ r.start > k.start
  BY <1>3 DEF Extent, region_cmp, Promised!Contains
<1>4. CASE r # k /\ r.start <= k.start /\ r.end < k.end
  BY <1>4 DEF Extent, region_cmp, Promised!Contains
<1>5. CASE r # k /\ r.start <= k.start /\ r.end >= k.end
  BY <1>5 DEF Extent, region_cmp, Promised!Contains
<1> QED
  BY <1>1, <1>2, <1>3, <1>4, <1>5

(* In disjoint regions a range has one region around it at most.           *)
LEMMA OneAround ==
  ASSUME NEW T \in SUBSET Extent, Promised!Disjoint(T),
         NEW k \in Extent, NEW r \in T, NEW m \in T,
         Promised!Contains(r, k), Promised!Contains(m, k)
  PROVE  r = m
BY DEF Extent, Promised!Disjoint, Promised!Contains

(* A node that is not the one searched for sends both to the same side.    *)
LEMMA Met ==
  ASSUME NEW T \in SUBSET Extent, Promised!Disjoint(T),
         NEW k \in Extent, NEW r \in T,
         Promised!Contains(r, k)
  PROVE  met(T, k, r)
<1> SUFFICES ASSUME NEW m \in T \ {r}
             PROVE  region_cmp(m, k) = region_cmp(m, r)
  BY DEF met
<1>1. m \in Extent /\ r \in Extent /\ m # r
  OBVIOUS
<1>2. m.end < r.start \/ r.end < m.start
  BY <1>1 DEF Promised!Disjoint
<1>3. r.start <= k.start /\ k.end <= r.end
  BY DEF Promised!Contains
<1>4. /\ m.start \in Int /\ m.end \in Int /\ m.start <= m.end
      /\ r.start \in Int /\ r.end \in Int /\ r.start <= r.end
      /\ k.start \in Int /\ k.end \in Int /\ k.start <= k.end
  BY <1>1 DEF Extent
<1>5. CASE m.end < r.start
  <2>1. /\ m # k /\ ~ (m.start > k.start) /\ ~ (m.start > r.start)
        /\ m.start <= k.start /\ m.end < k.end
        /\ m.start <= r.start /\ m.end < r.end
    BY <1>3, <1>4, <1>5
  <2>2. region_cmp(m, k) = -1
    BY <1>4, <2>1 DEF region_cmp
  <2>3. region_cmp(m, r) = -1
    BY <1>1, <1>4, <2>1 DEF region_cmp
  <2> QED
    BY <2>2, <2>3
<1>6. CASE r.end < m.start
  <2>1. m # k /\ m.start > k.start /\ m.start > r.start
    BY <1>3, <1>4, <1>6
  <2>2. region_cmp(m, k) = 1
    BY <1>4, <2>1 DEF region_cmp
  <2>3. region_cmp(m, r) = 1
    BY <1>1, <1>4, <2>1 DEF region_cmp
  <2> QED
    BY <2>2, <2>3
<1> QED
  BY <1>2, <1>5, <1>6

(* So a search in disjoint regions finds what it should, in every tree.    *)
LEMMA SearchFinds ==
  ASSUME NEW T \in SUBSET Extent, Promised!Disjoint(T),
         NEW k \in Extent, NEW f \in regions_find(T, k)
  PROVE  \/ f \in T /\ Promised!Contains(f, k)
         \/ f = Nothing /\ ~ \E r \in T : Promised!Contains(r, k)
<1> DEFINE able == {r \in T : region_cmp(r, k) = 0}
<1>1. able = {r \in T : Promised!Contains(r, k)}
  BY CmpIsZero
<1>2. \/ f \in able
      \/ f = Nothing /\ ~ \E r \in able : met(T, k, r)
  BY DEF regions_find
<1>3. \A r \in able : met(T, k, r)
  BY <1>1, Met
<1> QED
  BY <1>1, <1>2, <1>3

(* A search in any regions finds one of them, or nothing.                  *)
LEMMA FoundIsThere ==
  ASSUME NEW T, NEW k, NEW f \in regions_find(T, k)
  PROVE  f \in T \/ f = Nothing
BY DEF regions_find

(* The answer to the request in the register is the only thing its client  *)
(* gets, and nothing changes for the others: with the port free or not,    *)
(* and with or without an answer that was refused before.                  *)
LEMMA RespAnswers ==
  ASSUME AllocInv,
         NEW c \in Client, in # Nothing, in.from = c,
         out = Nothing \/ port = Nothing,
         NEW ret \in {"ok", "err_range", "err_space"},
         NEW r \in Extent \cup {Nothing},
         alloc_resp(out = Nothing /\ port = Nothing, ret, r),
         waiting' = waiting
  PROVE  /\ in' = Nothing
         /\ out' \in Answered \cup {Nothing}
         /\ port' \in Answered \cup {Nothing, Others}
         /\ OneRegisterEach'
         /\ AnswerTo(c)' = [ret |-> ret, region |-> r]
         /\ \A d \in Client \ {c} : AnswerTo(d)' = AnswerTo(d)
<1> DEFINE p == [to |-> c, ans |-> [ret |-> ret, region |-> r]]
<1>1. /\ in' = Nothing
      /\ \/ out = Nothing /\ port = Nothing /\ port' = p /\ out' = Nothing
         \/ out = Nothing /\ port # Nothing /\ out' = p /\ port' = port
         \/ out # Nothing /\ port = Nothing /\ out' = p /\ port' = out
  BY DEF alloc_resp
<1>2. p \in Answered /\ p.to = c
      /\ p.ans = [ret |-> ret, region |-> r]
  BY DEF Answered, Reply
<1> HIDE DEF p
<1>3. p # Nothing /\ p # Others
  BY <1>2, RequestAssumption
<1>4. out # Nothing => out \in Answered /\ out # Others
  BY RequestAssumption DEF AllocInv, AllocTypeOK
<1>5. /\ out' \in Answered \cup {Nothing}
      /\ port' \in Answered \cup {Nothing, Others}
  BY <1>1, <1>2, <1>4 DEF AllocInv, AllocTypeOK
<1>6. /\ Asks(c) /\ c \in waiting
      /\ ~ Blocked(c) /\ ~ Answers(c)
  BY DEF AllocInv, OneRegisterEach, Asks
<1>7. \A d \in Client : ~ Asks(d)'
  BY <1>1 DEF Asks
<1>8. \A d \in Client \ {c} :
        /\ ~ (Blocked(d) /\ Answers(d))
        /\ Blocked(d) \/ Answers(d) => d \in waiting
  BY DEF AllocInv, OneRegisterEach
<1>9. CASE out = Nothing /\ port = Nothing /\ port' = p /\ out' = Nothing
  <2>1. \A d \in Client : ~ Blocked(d)'
                          /\ (Answers(d)' <=> d = c)
    BY <1>9, <1>2, <1>3 DEF Blocked, Answers
  <2>2. \A d \in Client : ~ Blocked(d) /\ ~ Answers(d)
    BY <1>9 DEF Blocked, Answers
  <2>3. OneRegisterEach'
    BY <1>6, <1>7, <1>8, <2>1 DEF OneRegisterEach
  <2>4. AnswerTo(c)' = port'.ans
    BY <2>1 DEF AnswerTo
  <2>5. \A d \in Client \ {c} :
          AnswerTo(d)' = Nothing /\ AnswerTo(d) = Nothing
    BY <2>1, <2>2 DEF AnswerTo
  <2> QED
    BY <1>1, <1>2, <1>5, <1>9, <2>3, <2>4, <2>5
<1>10. CASE out = Nothing /\ port # Nothing /\ out' = p /\ port' = port
  <2>1. \A d \in Client : /\ Blocked(d)' <=> d = c
                          /\ Answers(d)' <=> Answers(d)
                          /\ ~ Blocked(d)
    BY <1>10, <1>2, <1>3 DEF Blocked, Answers
  <2>2. OneRegisterEach'
    BY <1>6, <1>7, <1>8, <2>1 DEF OneRegisterEach
  <2>3. AnswerTo(c)' = out'.ans
    BY <2>1 DEF AnswerTo
  <2>4. \A d \in Client \ {c} :
          AnswerTo(d)' = AnswerTo(d)
    BY <1>10, <2>1 DEF AnswerTo
  <2> QED
    BY <1>1, <1>2, <1>5, <1>10, <2>2, <2>3, <2>4
<1>11. CASE out # Nothing /\ port = Nothing /\ out' = p /\ port' = out
  <2>1. out # Others
    BY <1>4, <1>11
  <2>2. \A d \in Client : /\ Blocked(d)' <=> d = c
                          /\ Answers(d)' <=> Blocked(d)
                          /\ ~ Answers(d)
    BY <1>11, <1>2, <1>3, <2>1 DEF Blocked, Answers
  <2>3. OneRegisterEach'
    BY <1>6, <1>7, <1>8, <2>2 DEF OneRegisterEach
  <2>4. AnswerTo(c)' = out'.ans
    BY <2>2 DEF AnswerTo
  <2>5. \A d \in Client \ {c} :
          AnswerTo(d)' = AnswerTo(d)
    BY <1>11, <2>2 DEF AnswerTo
  <2> QED
    BY <1>1, <1>2, <1>5, <1>11, <2>3, <2>4, <2>5
<1> QED
  BY <1>1, <1>9, <1>10, <1>11

(* The answer a refused port kept goes to the same client from there.      *)
LEMMA AnswerMoves ==
  ASSUME AllocInv,
         UNCHANGED <<in, waiting>>,
         out' = IF port = Nothing THEN Nothing ELSE out,
         port' = IF port = Nothing /\ out # Nothing THEN out ELSE port
  PROVE  /\ out' \in Answered \cup {Nothing}
         /\ port' \in Answered \cup {Nothing, Others}
         /\ OneRegisterEach'
         /\ \A d \in Client : Asks(d)' = Asks(d)
         /\ \A d \in Client : AnswerTo(d)' = AnswerTo(d)
<1>1. \A d \in Client : Asks(d)' = Asks(d)
  BY DEF Asks
<1>2. /\ out' \in Answered \cup {Nothing}
      /\ port' \in Answered \cup {Nothing, Others}
  BY DEF AllocInv, AllocTypeOK
<1>3. CASE port = Nothing /\ out # Nothing
  <2>1. out # Others
    BY <1>3, RequestAssumption DEF AllocInv, AllocTypeOK
  <2>2. \A d \in Client : /\ ~ Blocked(d)' /\ ~ Answers(d)
                          /\ Answers(d)' <=> Blocked(d)
    BY <1>3, <2>1 DEF Blocked, Answers
  <2>3. OneRegisterEach'
    BY <1>1, <2>2 DEF OneRegisterEach, AllocInv
  <2>4. \A d \in Client : AnswerTo(d)' = AnswerTo(d)
    BY <1>3, <2>2 DEF AnswerTo
  <2> QED
    BY <1>1, <1>2, <2>3, <2>4
<1>4. CASE ~ (port = Nothing /\ out # Nothing)
  <2>1. out' = out /\ port' = port
    BY <1>4
  <2>2. \A d \in Client : /\ Blocked(d)' <=> Blocked(d)
                          /\ Answers(d)' <=> Answers(d)
    BY <2>1 DEF Blocked, Answers
  <2>3. OneRegisterEach'
    BY <1>1, <2>2 DEF OneRegisterEach, AllocInv
  <2>4. \A d \in Client : AnswerTo(d)' = AnswerTo(d)
    BY <2>1, <2>2 DEF AnswerTo
  <2> QED
    BY <1>1, <1>2, <2>3, <2>4
<1> QED
  BY <1>3, <1>4

(* What a search decides is what the set of regions promises.              *)
LEMMA EffectOfSearch ==
  ASSUME NEW T \in SUBSET Extent, Promised!Disjoint(T),
         NEW q \in Request, NEW k, k = region(q),
         NEW f \in regions_find(T, k)
  PROVE  /\ q.op = "query" =>
              Promised!Effect(T, q, T,
                [ret |-> IF f = Nothing THEN "err_range" ELSE "ok",
                 region |-> f])
         /\ q.op = "rm" =>
              Promised!Effect(T, q, T \ {f},
                [ret |-> IF f = Nothing THEN "err_range" ELSE "ok",
                 region |-> Nothing])
         /\ q.op = "new" /\ f = Nothing =>
              Promised!Effect(T, q, T \cup {k},
                              [ret |-> "ok", region |-> k])
         /\ q.op = "new" /\ f # Nothing =>
              Promised!Effect(T, q, T,
                              [ret |-> "err_range", region |-> Nothing])
<1> DEFINE known == \E r \in T : Promised!Contains(r, q)
<1>1. k \in Extent /\ k.start = q.start /\ k.end = q.end
      /\ k = Promised!Range(q)
  BY RequestAssumption DEF region, Promised!Range
<1>2. \A r : Promised!Contains(r, k) <=> Promised!Contains(r, q)
  BY <1>1 DEF Promised!Contains
<1>3. Nothing \notin T
  BY RequestAssumption
<1>4. \/ f \in T /\ f # Nothing /\ Promised!Contains(f, q)
      \/ f = Nothing /\ ~ known
  BY <1>1, <1>2, <1>3, SearchFinds
<1>5. \A r, m \in T : Promised!Contains(r, q)
                      /\ Promised!Contains(m, q) => r = m
  BY <1>1, <1>2, OneAround
<1>6. CASE f \in T /\ f # Nothing /\ Promised!Contains(f, q)
  <2>1. known
    BY <1>6
  <2>2. f = CHOOSE r \in T : Promised!Contains(r, q)
    BY <1>5, <1>6
  <2>3. T \ {f} = {r \in T : ~ Promised!Contains(r, q)}
    BY <1>5, <1>6
  <2>4. q.op = "query" =>
          Promised!Ok(T, q) = [ret |-> "ok", region |-> f]
    BY <2>2 DEF Promised!Ok, Promised!Answer
  <2>5. q.op = "rm" =>
          Promised!Ok(T, q) = [ret |-> "ok", region |-> Nothing]
    BY DEF Promised!Ok, Promised!Answer
  <2>6. Promised!Answer("err_range", Nothing)
        = [ret |-> "err_range", region |-> Nothing]
    BY DEF Promised!Answer
  <2> HIDE DEF known
  <2> QED
    BY <1>6, <2>1, <2>3, <2>4, <2>5, <2>6
    DEF Promised!Effect, known
<1>7. CASE f = Nothing /\ ~ known
  <2>1. T \ {f} = T
    BY <1>3, <1>7
  <2>2. q.op = "new" =>
          Promised!Ok(T, q) = [ret |-> "ok", region |-> k]
    BY <1>1 DEF Promised!Ok, Promised!Answer
  <2>3. Promised!Answer("err_range", Nothing)
        = [ret |-> "err_range", region |-> Nothing]
    BY DEF Promised!Answer
  <2> QED
    BY <1>1, <1>7, <2>1, <2>2, <2>3 DEF Promised!Effect
<1> QED
  BY <1>4, <1>6, <1>7

(* What the clock does with the request q of client c. *)
Served(c, q) ==
  /\ in' = Nothing
  /\ spaces' \in [Space -> SUBSET Extent]
  /\ out' \in Answered \cup {Nothing}
  /\ port' \in Answered \cup {Nothing, Others}
  /\ OneRegisterEach'
  /\ \A d \in Client \ {c} : AnswerTo(d)' = AnswerTo(d)
  /\ q.space \notin Space =>
       /\ AnswerTo(c)' = [ret |-> "err_space", region |-> Nothing]
       /\ spaces' = spaces
  /\ q.space \in Space =>
       /\ \A t \in Space \ {q.space} : spaces'[t] = spaces[t]
       /\ Promised!Disjoint(spaces[q.space]) =>
            Promised!Effect(spaces[q.space], q,
                                  spaces'[q.space], AnswerTo(c)')

(* A region is put in where the search for a place finds none. *)
LEMMA NewServed ==
  ASSUME AllocInv,
         NEW c \in Client, in # Nothing, in.from = c,
         out = Nothing \/ port = Nothing,
         NEW q \in Request, q.op = "new", q.space \in Space,
         alloc_new(out = Nothing /\ port = Nothing, q.space, region(q)),
         waiting' = waiting
  PROVE  Served(c, q)
<1> DEFINE k == region(q)
           T == spaces[q.space]
<1>1. k \in Extent
  BY RequestAssumption
<1>2. spaces \in [Space -> SUBSET Extent]
      /\ T \in SUBSET Extent
  BY DEF AllocInv, AllocTypeOK
<1>3. PICK f \in regions_find(T, k) :
        IF f = Nothing
        THEN /\ spaces' = [spaces EXCEPT ![q.space] = @ \cup {k}]
             /\ alloc_resp(out = Nothing /\ port = Nothing, "ok", k)
        ELSE /\ alloc_resp(out = Nothing /\ port = Nothing, "err_range",
                           Nothing)
             /\ spaces' = spaces
  BY DEF alloc_new
<1>4. CASE f = Nothing
  <2>1. spaces' = [spaces EXCEPT ![q.space] = @ \cup {k}]
        /\ alloc_resp(out = Nothing /\ port = Nothing, "ok", k)
    BY <1>3, <1>4
  <2>2. /\ spaces' \in [Space -> SUBSET Extent]
        /\ spaces'[q.space] = T \cup {k}
        /\ \A t \in Space \ {q.space} : spaces'[t] = spaces[t]
    BY <1>1, <1>2, <2>1
  <2>3. Promised!Disjoint(T) =>
          Promised!Effect(T, q, T \cup {k}, [ret |-> "ok", region |-> k])
    BY <1>2, <1>3, <1>4, EffectOfSearch
  <2> HIDE DEF k
  <2>4. /\ in' = Nothing
        /\ out' \in Answered \cup {Nothing}
        /\ port' \in Answered \cup {Nothing, Others}
        /\ OneRegisterEach'
        /\ AnswerTo(c)' = [ret |-> "ok", region |-> k]
        /\ \A d \in Client \ {c} : AnswerTo(d)' = AnswerTo(d)
    BY <1>1, <2>1, RespAnswers
  <2> QED
    BY <2>2, <2>3, <2>4 DEF Served
<1>5. CASE f # Nothing
  <2>1. spaces' = spaces
        /\ alloc_resp(out = Nothing /\ port = Nothing, "err_range", Nothing)
    BY <1>3, <1>5
  <2>2. Promised!Disjoint(T) =>
          Promised!Effect(T, q, T, [ret |-> "err_range", region |-> Nothing])
    BY <1>2, <1>3, <1>5, EffectOfSearch
  <2>3. /\ in' = Nothing
        /\ out' \in Answered \cup {Nothing}
        /\ port' \in Answered \cup {Nothing, Others}
        /\ OneRegisterEach'
        /\ AnswerTo(c)' = [ret |-> "err_range", region |-> Nothing]
        /\ \A d \in Client \ {c} : AnswerTo(d)' = AnswerTo(d)
    BY <2>1, RespAnswers
  <2> QED
    BY <1>2, <2>1, <2>2, <2>3 DEF Served
<1> QED
  BY <1>4, <1>5

(* A region that is found is taken out. *)
LEMMA RmServed ==
  ASSUME AllocInv,
         NEW c \in Client, in # Nothing, in.from = c,
         out = Nothing \/ port = Nothing,
         NEW q \in Request, q.op = "rm", q.space \in Space,
         alloc_rm(out = Nothing /\ port = Nothing, q.space, region(q)),
         waiting' = waiting
  PROVE  Served(c, q)
<1> DEFINE k == region(q)
           T == spaces[q.space]
           ret(f) == IF f = Nothing THEN "err_range" ELSE "ok"
<1>1. spaces \in [Space -> SUBSET Extent]
      /\ T \in SUBSET Extent
  BY DEF AllocInv, AllocTypeOK
<1>2. PICK f \in regions_find(T, k) :
        /\ spaces' = [spaces EXCEPT ![q.space] = @ \ {f}]
        /\ alloc_resp(out = Nothing /\ port = Nothing, ret(f), Nothing)
  BY DEF alloc_rm
<1>3. /\ spaces' \in [Space -> SUBSET Extent]
      /\ spaces'[q.space] = T \ {f}
      /\ \A t \in Space \ {q.space} : spaces'[t] = spaces[t]
  BY <1>1, <1>2
<1>4. Promised!Disjoint(T) =>
        Promised!Effect(T, q, T \ {f},
                              [ret |-> ret(f), region |-> Nothing])
  BY <1>1, <1>2, EffectOfSearch
<1>5. ret(f) \in {"ok", "err_range", "err_space"}
  OBVIOUS
<1> HIDE DEF ret
<1>6. /\ in' = Nothing
      /\ out' \in Answered \cup {Nothing}
      /\ port' \in Answered \cup {Nothing, Others}
      /\ OneRegisterEach'
      /\ AnswerTo(c)' = [ret |-> ret(f), region |-> Nothing]
      /\ \A d \in Client \ {c} : AnswerTo(d)' = AnswerTo(d)
  BY <1>2, <1>5, RespAnswers
<1> QED
  BY <1>3, <1>4, <1>6 DEF Served

(* A query gets the region that is found. *)
LEMMA QueryServed ==
  ASSUME AllocInv,
         NEW c \in Client, in # Nothing, in.from = c,
         out = Nothing \/ port = Nothing,
         NEW q \in Request, q.op = "query", q.space \in Space,
         alloc_q(out = Nothing /\ port = Nothing, q.space, region(q)),
         waiting' = waiting
  PROVE  Served(c, q)
<1> DEFINE k == region(q)
           T == spaces[q.space]
           ret(f) == IF f = Nothing THEN "err_range" ELSE "ok"
<1>1. spaces \in [Space -> SUBSET Extent]
      /\ T \in SUBSET Extent
  BY DEF AllocInv, AllocTypeOK
<1>2. spaces' = spaces
  BY DEF alloc_q
<1>3. PICK f \in regions_find(T, k) :
        alloc_resp(out = Nothing /\ port = Nothing, ret(f), f)
  BY DEF alloc_q
<1>4. Promised!Disjoint(T) =>
        Promised!Effect(T, q, T, [ret |-> ret(f), region |-> f])
  BY <1>1, <1>3, EffectOfSearch
<1>5. ret(f) \in {"ok", "err_range", "err_space"}
      /\ f \in Extent \cup {Nothing}
  BY <1>1, <1>3, FoundIsThere
<1> HIDE DEF ret
<1>6. /\ in' = Nothing
      /\ out' \in Answered \cup {Nothing}
      /\ port' \in Answered \cup {Nothing, Others}
      /\ OneRegisterEach'
      /\ AnswerTo(c)' = [ret |-> ret(f), region |-> f]
      /\ \A d \in Client \ {c} : AnswerTo(d)' = AnswerTo(d)
  BY <1>3, <1>5, RespAnswers
<1> QED
  BY <1>1, <1>2, <1>4, <1>6 DEF Served

(* A space that does not exist is refused, whatever is asked. *)
LEMMA SpaceServed ==
  ASSUME AllocInv,
         NEW c \in Client, in # Nothing, in.from = c,
         out = Nothing \/ port = Nothing,
         NEW q \in Request, q.space \notin Space,
         alloc_resp(out = Nothing /\ port = Nothing, "err_space", Nothing),
         UNCHANGED <<spaces, waiting>>
  PROVE  Served(c, q)
<1>1. /\ in' = Nothing
      /\ out' \in Answered \cup {Nothing}
      /\ port' \in Answered \cup {Nothing, Others}
      /\ OneRegisterEach'
      /\ AnswerTo(c)' = [ret |-> "err_space", region |-> Nothing]
      /\ \A d \in Client \ {c} : AnswerTo(d)' = AnswerTo(d)
  BY RespAnswers
<1> QED
  BY <1>1 DEF Served, AllocInv, AllocTypeOK

(* A clock that does not serve the request moves an answer on, or nothing. *)
LEMMA ClockServes ==
  ASSUME AllocInv, alloc_clock
  PROVE  \/ in.from \in Client /\ in.req \in Request
            /\ Served(in.from, in.req)
         \/ /\ UNCHANGED <<spaces, in, waiting>>
            /\ out' = IF port = Nothing THEN Nothing ELSE out
            /\ port' = IF port = Nothing /\ out # Nothing THEN out ELSE port
<1> DEFINE free == out = Nothing /\ port = Nothing
           q == in.req
           k == region(q)
<1>1. serve(free)
  BY DEF alloc_clock
<1>2. in # Nothing /\ (out = Nothing \/ port = Nothing)
  BY DEF alloc_clock
<1>3. in.from \in Client /\ q \in Request
  BY <1>2 DEF AllocInv, AllocTypeOK, Asked
<1>4. /\ q.space >= max_spaces => q.space \notin Space
      /\ q.space < max_spaces => q.space \in Space
  BY <1>3, RequestAssumption DEF Space
<1>5. waiting' = waiting
  BY DEF alloc_clock
<1> HIDE DEF q, free
<1>6. CASE /\ q.space >= max_spaces
           /\ alloc_resp(free, "err_space", Nothing)
           /\ UNCHANGED <<spaces, stopped>>
  BY <1>2, <1>3, <1>4, <1>5, <1>6, SpaceServed DEF q, free
<1>7. CASE q.op = "new" /\ q.space < max_spaces
           /\ alloc_new(free, q.space, k)
  BY <1>2, <1>3, <1>4, <1>5, <1>7, NewServed DEF q, free
<1>8. CASE q.op = "rm" /\ q.space < max_spaces
           /\ alloc_rm(free, q.space, k)
  BY <1>2, <1>3, <1>4, <1>5, <1>8, RmServed DEF q, free
<1>9. CASE q.op = "query" /\ q.space < max_spaces
           /\ alloc_q(free, q.space, k)
  BY <1>2, <1>3, <1>4, <1>5, <1>9, QueryServed DEF q, free
<1>10. CASE /\ q.op = "unknown"
            /\ out' = IF port = Nothing THEN Nothing ELSE out
            /\ port' = IF port = Nothing /\ out # Nothing THEN out ELSE port
            /\ UNCHANGED <<spaces, in, stopped>>
  BY <1>5, <1>10
<1> QED
  BY <1>1, <1>6, <1>7, <1>8, <1>9, <1>10 DEF serve, q

(* In every step of the clock the allocator stops, or it does not.         *)
LEMMA ClockStops ==
  ASSUME alloc_clock
  PROVE  stopped' = stopped \/ stopped' = TRUE
<1>1. serve(out = Nothing /\ port = Nothing)
  BY DEF alloc_clock
<1> QED
  BY <1>1, Zenon
  DEF serve, alloc_new, alloc_rm, alloc_q

(* The invariant of the registers is kept: by the clock, *)
LEMMA AllocClockKeeps ==
  AllocInv /\ alloc_clock => AllocInv'
<1> SUFFICES ASSUME AllocInv, alloc_clock
             PROVE  AllocInv'
  OBVIOUS
<1>1. stopped' \in BOOLEAN /\ waiting' \subseteq Client
  BY ClockStops DEF AllocInv, AllocTypeOK, alloc_clock
<1>2. CASE Served(in.from, in.req)
  BY <1>1, <1>2 DEF Served, AllocInv, AllocTypeOK
<1>3. CASE /\ UNCHANGED <<spaces, in, waiting>>
           /\ out' = IF port = Nothing THEN Nothing ELSE out
           /\ port' = IF port = Nothing /\ out # Nothing THEN out ELSE port
  <2>1. /\ out' \in Answered \cup {Nothing}
        /\ port' \in Answered \cup {Nothing, Others}
        /\ OneRegisterEach'
    BY <1>3, AnswerMoves
  <2> QED
    BY <1>1, <1>3, <2>1 DEF AllocInv, AllocTypeOK
<1> QED
  BY <1>2, <1>3, ClockServes

(* by a request that comes in, *)
LEMMA ReceiveKeeps ==
  ASSUME AllocInv,
         NEW c \in Client, NEW q \in Request, alloc_receive(c, q)
  PROVE  AllocInv' /\ in' = [from |-> c, req |-> q] /\ in' # Nothing
<1>1. /\ in = Nothing /\ c \notin waiting
      /\ in' = [from |-> c, req |-> q]
      /\ waiting' = waiting \cup {c}
      /\ UNCHANGED <<spaces, out, port, stopped>>
  BY DEF alloc_receive
<1>2. in' \in Asked /\ in' # Nothing
  BY <1>1, RequestAssumption DEF Asked
<1>3. AllocTypeOK'
  BY <1>1, <1>2 DEF AllocInv, AllocTypeOK
<1>4. \A d \in Client : /\ Asks(d)' <=> d = c
                        /\ Blocked(d)' <=> Blocked(d)
                        /\ Answers(d)' <=> Answers(d)
  BY <1>1, <1>2 DEF Asks, Blocked, Answers
<1>5. OneRegisterEach'
  BY <1>1, <1>4 DEF AllocInv, OneRegisterEach
<1> QED
  BY <1>1, <1>2, <1>3, <1>5 DEF AllocInv

(* by an answer that reaches its client, and by a packet of others.        *)
LEMMA MoveKeeps ==
  AllocInv /\ (Move \/ Occupy) => AllocInv'
<1> SUFFICES ASSUME AllocInv, Move \/ Occupy
             PROVE  AllocInv'
  OBVIOUS
<1>1. CASE Move
  <2>1. /\ port' = Nothing /\ UNCHANGED <<spaces, in, out, stopped>>
        /\ waiting' = IF port = Others THEN waiting ELSE waiting \ {port.to}
        /\ port # Nothing
    BY <1>1 DEF Move
  <2>2. AllocTypeOK'
    BY <2>1 DEF AllocInv, AllocTypeOK
  <2>3. \A d \in Client : /\ Asks(d)' <=> Asks(d)
                          /\ Blocked(d)' <=> Blocked(d)
                          /\ ~ Answers(d)'
    BY <2>1 DEF Asks, Blocked, Answers
  <2>4. \A d \in Client : d \in waiting /\ ~ Answers(d) => d \in waiting'
    BY <2>1 DEF Answers
  <2>5. OneRegisterEach'
    BY <2>3, <2>4 DEF AllocInv, OneRegisterEach
  <2> QED
    BY <2>2, <2>5 DEF AllocInv
<1>2. CASE Occupy
  <2>1. /\ port = Nothing /\ port' = Others
        /\ UNCHANGED <<spaces, in, out, waiting, stopped>>
    BY <1>2 DEF Occupy
  <2>2. AllocTypeOK'
    BY <2>1 DEF AllocInv, AllocTypeOK
  <2>3. \A d \in Client : /\ Asks(d)' <=> Asks(d)
                          /\ Blocked(d)' <=> Blocked(d)
                          /\ ~ Answers(d)'
    BY <2>1 DEF Asks, Blocked, Answers
  <2>4. OneRegisterEach'
    BY <2>1, <2>3 DEF AllocInv, OneRegisterEach
  <2> QED
    BY <2>2, <2>4 DEF AllocInv
<1> QED
  BY <1>1, <1>2

(* Each client of the allocator is in one of its registers at most, with a *)
(* request or with the answer to it, and only if it waits for one.         *)
THEOREM AllocCorrect == AllocSpec => []AllocInv
<1>1. create_ideal_alloc => AllocInv
  <2> SUFFICES ASSUME create_ideal_alloc
               PROVE  AllocInv
    OBVIOUS
  <2>1. AllocTypeOK
    BY DEF create_ideal_alloc, AllocTypeOK
  <2>2. OneRegisterEach
    BY DEF create_ideal_alloc, OneRegisterEach, Asks, Blocked,
           Answers
  <2> QED
    BY <2>1, <2>2 DEF AllocInv
<1>2. AllocInv /\ [AllocNext]_allocVars => AllocInv'
  <2> SUFFICES ASSUME AllocInv, [AllocNext]_allocVars
               PROVE  AllocInv'
    OBVIOUS
  <2>1. CASE Receive
    BY <2>1, ReceiveKeeps DEF Receive
  <2>2. CASE Clock
    BY <2>2, AllocClockKeeps DEF Clock
  <2>3. CASE Moves \/ Occupied
    BY <2>3, MoveKeeps DEF Moves, Occupied
  <2>4. CASE UNCHANGED allocVars
    BY <2>4 DEF allocVars, AllocInv, AllocTypeOK,
      OneRegisterEach, Asks, Blocked, Answers
  <2> QED
    BY <2>1, <2>2, <2>3, <2>4 DEF AllocNext
<1> QED
  BY <1>1, <1>2, PTL DEF AllocSpec

-----------------------------------------------------------------------------
(* What the clients of the allocator have asked and been answered. *)
Opened == [c \in Client |-> IF Asks(c) THEN in.req ELSE Nothing]
Results == [c \in Client |-> AnswerTo(c)]

(* The clock's service of a request is the moment it takes effect.         *)
LEMMA ServesOne ==
  ASSUME AllocInv, in # Nothing,
         NEW c \in Client, in.from = c,
         NEW q \in Request, in.req = q, Served(c, q)
  PROVE  Promised!Serve(c)
<1>1. q # Nothing
  BY RequestAssumption
<1>2. /\ Opened[c] = q
      /\ \A d \in Client \ {c} : Opened[d] = Nothing
  BY DEF Opened, Asks
<1>3. Opened' = [d \in Client |-> Nothing]
  BY DEF Opened, Served, Asks
<1>4. Opened' = [Opened EXCEPT ![c] = Nothing]
  <2>1. DOMAIN Opened = Client
    BY DEF Opened
  <2>2. Opened = [d \in Client |-> Opened[d]]
    BY DEF Opened
  <2> QED
    BY <1>2, <1>3, <2>1, <2>2
<1>5. /\ Results'[c] = AnswerTo(c)'
      /\ \A d \in Client \ {c} : Results'[d] = Results[d]
  BY DEF Results, Served
<1>6. CASE q.space \notin Space
  <2>1. Results'[c] = Promised!Answer("err_space", Nothing)
        /\ spaces' = spaces
    BY <1>5, <1>6 DEF Served, Promised!Answer
  <2> QED
    BY <1>1, <1>2, <1>4, <1>5, <1>6, <2>1
    DEF Promised!Serve, Opened, Results
<1>7. CASE q.space \in Space
  <2>1. /\ \A t \in Space \ {q.space} : spaces'[t] = spaces[t]
        /\ Promised!Disjoint(spaces[q.space]) =>
             Promised!Effect(spaces[q.space], q,
                                   spaces'[q.space], Results'[c])
    BY <1>5, <1>7 DEF Served
  <2> QED
    BY <1>1, <1>2, <1>4, <1>5, <1>7, <2>1
    DEF Promised!Serve, Opened, Results
<1> QED
  BY <1>6, <1>7

(* A request that comes in is one that has not taken effect.               *)
LEMMA AsksOne ==
  ASSUME AllocInv,
         NEW c \in Client, NEW q \in Request, alloc_receive(c, q)
  PROVE  Promised!Ask(c, q)
<1>1. /\ in = Nothing /\ c \notin waiting
      /\ UNCHANGED <<spaces, out, port>>
  BY DEF alloc_receive
<1>2. in' = [from |-> c, req |-> q] /\ in' # Nothing
  BY ReceiveKeeps
<1>3. ~ Blocked(c) /\ ~ Answers(c)
  BY <1>1 DEF AllocInv, OneRegisterEach
<1>4. Opened[c] = Nothing /\ Opened = [d \in Client |-> Nothing]
  BY <1>1 DEF Opened, Asks
<1>5. Results[c] = Nothing
  BY <1>3 DEF Results, AnswerTo
<1>6. Opened' = [d \in Client |-> IF d = c THEN q ELSE Nothing]
  BY <1>2 DEF Opened, Asks
<1>7. Opened' = [Opened EXCEPT ![c] = q]
  BY <1>4, <1>6
<1>8. Results' = Results
  BY <1>1 DEF Results, AnswerTo, Blocked, Answers
<1> QED
  BY <1>1, <1>4, <1>5, <1>7, <1>8 DEF Promised!Ask, Opened, Results

(* An answer that reaches its client is taken; packets of others are       *)
(* nothing to the clients.                                                 *)
LEMMA TakesOne ==
  ASSUME AllocInv, Move
  PROVE  \/ \E c \in Client : Promised!Take(c)
         \/ UNCHANGED <<spaces, Opened, Results>>
<1>1. /\ port # Nothing /\ port' = Nothing /\ UNCHANGED <<spaces, in, out>>
  BY DEF Move
<1>2. Opened' = Opened
  BY <1>1 DEF Opened, Asks
<1>3. CASE port = Others
  <2>1. Results' = Results
    BY <1>1, <1>3 DEF Results, AnswerTo, Blocked, Answers
  <2> QED
    BY <1>1, <1>2, <2>1
<1>4. CASE port # Others
  <2>1. PICK c \in Client : c = port.to
    BY <1>1, <1>4 DEF AllocInv, AllocTypeOK, Answered
  <2>2. port.ans \in Reply
    BY <1>1, <1>4 DEF AllocInv, AllocTypeOK, Answered
  <2>3. Answers(c) /\ ~ Blocked(c)
    BY <1>1, <1>4, <2>1
    DEF AllocInv, OneRegisterEach, Answers
  <2>4. Results[c] = port.ans /\ Results[c] # Nothing
    BY <2>2, <2>3, RequestAssumption DEF Results, AnswerTo
  <2>5. \A d \in Client :
          AnswerTo(d)' = IF d = c THEN Nothing ELSE AnswerTo(d)
    <3>1. \A d \in Client : /\ Blocked(d)' <=> Blocked(d)
                            /\ ~ Answers(d)'
                            /\ d # c => ~ Answers(d)
      BY <1>1, <2>1 DEF Blocked, Answers
    <3> QED
      BY <1>1, <2>3, <3>1 DEF AnswerTo
  <2>6. Results' = [Results EXCEPT ![c] = Nothing]
    <3>1. Results' = [d \in Client |->
                        IF d = c THEN Nothing ELSE AnswerTo(d)]
      BY <2>5 DEF Results
    <3> QED
      BY <3>1 DEF Results
  <2>7. Promised!Take(c)
    BY <1>1, <1>2, <2>4, <2>6 DEF Promised!Take, Opened, Results
  <2> QED
    BY <2>7
<1> QED
  BY <1>3, <1>4

(* The allocator implements the region table: the clock serves a request   *)
(* at once, as the set of regions does, or leaves it; the ways of the      *)
(* answers do not show.                                                    *)
LEMMA AllocStep ==
  AllocInv /\ [AllocNext]_allocVars
    => [Promised!Next]_<<spaces, Opened, Results>>
<1> SUFFICES ASSUME AllocInv,
                    [AllocNext]_allocVars
             PROVE  \/ \E c \in Client :
                         \/ \E q \in Request : Promised!Ask(c, q)
                         \/ Promised!Serve(c)
                         \/ Promised!Take(c)
                    \/ UNCHANGED <<spaces, Opened, Results>>
  BY DEF Promised!Next
<1>1. CASE Receive
  BY <1>1, AsksOne DEF Receive
<1>2. CASE Clock
  <2>1. alloc_clock /\ in # Nothing
    BY <1>2 DEF Clock, alloc_clock
  <2>2. CASE in.from \in Client /\ in.req \in Request
             /\ Served(in.from, in.req)
    BY <2>1, <2>2, ServesOne
  <2>3. CASE /\ UNCHANGED <<spaces, in, waiting>>
             /\ out' = IF port = Nothing THEN Nothing ELSE out
             /\ port' = IF port = Nothing /\ out # Nothing THEN out ELSE port
    <3>1. /\ \A d \in Client : Asks(d)' = Asks(d)
          /\ \A d \in Client : AnswerTo(d)' = AnswerTo(d)
      BY <2>3, AnswerMoves
    <3>2. Opened' = Opened
      BY <2>3, <3>1 DEF Opened
    <3>3. Results' = Results
      BY <3>1 DEF Results
    <3> QED
      BY <2>3, <3>2, <3>3
  <2> QED
    BY <2>1, <2>2, <2>3, ClockServes
<1>3. CASE Moves
  BY <1>3, TakesOne DEF Moves
<1>4. CASE Occupied
  <2>1. port = Nothing /\ port' = Others /\ UNCHANGED <<spaces, in, out>>
    BY <1>4 DEF Occupied, Occupy
  <2>2. Opened' = Opened /\ Results' = Results
    BY <2>1 DEF Opened, Results, Asks, AnswerTo,
                Blocked, Answers
  <2> QED
    BY <2>1, <2>2
<1>5. CASE UNCHANGED allocVars
  BY <1>5 DEF allocVars, Opened, Results, Asks, AnswerTo,
              Blocked, Answers
<1> QED
  BY <1>1, <1>2, <1>3, <1>4, <1>5 DEF AllocNext

(* With every set of requests for ranges, each request takes effect once   *)
(* and its client gets the one answer to it; while the regions in a space  *)
(* are disjoint it is the answer of the set of regions, whatever the shape *)
(* of the search tree.                                                     *)
THEOREM AllocIsRegionTable ==
  AllocSpec => ImplementsRegionTable
<1>1. create_ideal_alloc => Promised!Init
  <2> SUFFICES ASSUME create_ideal_alloc
               PROVE  Promised!Init
    OBVIOUS
  <2>1. /\ Opened = [c \in Client |-> Nothing]
        /\ Results = [c \in Client |-> Nothing]
    BY DEF create_ideal_alloc, Opened, Results, Asks, AnswerTo,
           Blocked, Answers
  <2> QED
    BY <2>1 DEF create_ideal_alloc, Promised!Init, Opened, Results
<1>2. AllocInv /\ [AllocNext]_allocVars
        => [Promised!Next]_<<spaces, Opened, Results>>
  BY AllocStep
<1>3. AllocSpec => []AllocInv
  BY AllocCorrect
<1> QED
  BY <1>1, <1>2, <1>3, PTL
  DEF AllocSpec, ImplementsRegionTable, Promised!Spec,
      Opened, Results

(* Only a region around one that is spaces, or across its border, can   *)
(* be the first that overlaps.                                             *)
THEOREM FirstOverlapIsSeen ==
  AllocSpec => FirstOverlapIsAround
<1> DEFINE Around ==
      \A s \in Space :
        Promised!Disjoint(spaces[s]) =>
          \A r \in spaces[s], n \in spaces'[s] \ spaces[s] :
            n.start < r.start \/ n.end > r.end
<1>1. AllocInv /\ [AllocNext]_allocVars => [Around]_allocVars
  <2> SUFFICES ASSUME AllocInv, AllocNext,
                      NEW s \in Space,
                      Promised!Disjoint(spaces[s]),
                      NEW r \in spaces[s],
                      NEW n \in spaces'[s] \ spaces[s]
               PROVE  n.start < r.start \/ n.end > r.end
    OBVIOUS
  <2>1. alloc_clock
    BY DEF AllocNext, Receive, alloc_receive, Moves,
      Move, Occupied, Occupy, Clock
  <2>2. spaces \in [Space -> SUBSET Extent]
        /\ spaces[s] \in SUBSET Extent
    BY DEF AllocInv, AllocTypeOK
  <2>3. in.req \in Request /\ in.from \in Client
    BY <2>1 DEF alloc_clock, AllocInv, AllocTypeOK, Asked
  <2> DEFINE k == region(in.req)
  <2>4. k \in Extent
    BY <2>3, RequestAssumption
  <2>5. n = k /\ Nothing \in regions_find(spaces[s], k)
    <3> DEFINE sp == in.req.space
    <3>1. serve(out = Nothing /\ port = Nothing)
      BY <2>1 DEF alloc_clock
    <3>2. \/ spaces' = spaces
          \/ \E f : spaces' = [spaces EXCEPT ![sp] = @ \ {f}]
          \/ /\ Nothing \in regions_find(spaces[sp], k)
             /\ spaces' = [spaces EXCEPT ![sp] = @ \cup {k}]
      BY <3>1, Zenon
      DEF serve, alloc_new, alloc_rm, alloc_q
    <3>3. n \in spaces'[s] /\ n \notin spaces[s]
      OBVIOUS
    <3> HIDE DEF k, sp
    <3>4. ~ \E f : spaces' = [spaces EXCEPT ![sp] = @ \ {f}]
      BY <2>2, <3>3
    <3>5. /\ Nothing \in regions_find(spaces[sp], k)
          /\ spaces' = [spaces EXCEPT ![sp] = @ \cup {k}]
      BY <3>2, <3>3, <3>4
    <3>6. sp = s
      BY <2>2, <3>3, <3>5
    <3> QED
      BY <2>2, <3>3, <3>5, <3>6
  <2>6. ~ Promised!Contains(r, k)
    BY <2>2, <2>4, <2>5, SearchFinds, RequestAssumption
  <2> QED
    BY <2>2, <2>4, <2>5, <2>6
    DEF Promised!Contains, Extent
<1>2. AllocSpec => []AllocInv
  BY AllocCorrect
<1> QED
  BY <1>1, <1>2, PTL DEF AllocSpec, FirstOverlapIsAround
=============================================================================

------------------------------ MODULE Riscv64 ------------------------------
(***************************************************************************)
(* The processor in src/src/cpu/riscv/simple_riscv64.c: the fetch of       *)
(* instructions (ils), the data transfer of a load or store (dls), and the *)
(* control page other processors write to put this one to sleep and to     *)
(* wake it (cls).  Instructions says what each instruction computes.       *)
(*                                                                         *)
(* A port is the register of the component behind imem or dmem, the one    *)
(* that control requests come in by (inbox), or the one their answers go   *)
(* to (ctrl).  A request that comes from a bus is answered to the bus, and *)
(* all but imem are the one register of it in src/tests/simple_uart, where *)
(* imem is a memory of its own.  Other users occupy the ports, too.        *)
(***************************************************************************)
EXTENDS Instructions

CONSTANTS
  Prog,        \* the instructions in memory, by address
  Boot,        \* records [pc, regs] the processor may be started with
  Cells,       \* the addresses at which a memory answers
  Controller,  \* components that write to the control page
  imem, dmem, inbox, ctrl,  \* the ports, which may be the same one
  None         \* nothing in a port, nobody to answer

Port == {imem, dmem, inbox, ctrl}

ASSUME ProcessorAssumption ==
  /\ \A b \in Boot : b.pc \in 0 .. Word - 1 /\ b.regs \in [Reg -> 0 .. Word - 1]
  /\ None \notin Controller
  /\ Cells \subseteq Nat

Fetch(a) == [kind |-> "fetch", what |-> a, err |-> FALSE]
Data(p) == [kind |-> "data", what |-> p, err |-> FALSE]
Control(c, s) == [kind |-> "control", from |-> c, sleep |-> s]
Other == [kind |-> "other"]

VARIABLES
  ils,      \* the fetch: [state, pc, err]
  dls,      \* the data transfer: [state, pkt, reg, u, err]
  cls,      \* the controller whose answer is blocked, or None
  pc,       \* address of the next instruction
  regs,     \* the registers
  sleep,    \* the processor has been put to sleep
  running,  \* the simulation has not been stopped
  port,     \* port[p]: the packet in the register behind p, or None
  served,   \* packets of the processor that have been served, with err
  mem,      \* the bytes in memory
  waiting   \* controllers that have been accepted and not answered

vars ==
  <<ils, dls, cls, pc, regs, sleep, running, port, served, mem, waiting>>

free(p) == port[p] = None

NoData == [to |-> 0, mask |-> {}, flag |-> "none", data |-> << >>]

(* create_simple_riscv64 prepares the first fetch; registers may be set    *)
(* before the run.                                                         *)
Init ==
  /\ \E b \in Boot :
       /\ pc = b.pc
       /\ regs = b.regs
       /\ ils = [state |-> "blocked", pc |-> b.pc, err |-> FALSE]
  /\ dls = [state |-> "idle", pkt |-> NoData, reg |-> 0, u |-> FALSE,
            err |-> FALSE]
  /\ cls = None
  /\ sleep = FALSE
  /\ running = TRUE
  /\ port = [p \in Port |-> None]
  /\ served = {}
  /\ mem = [a \in Cells |-> 0]
  /\ waiting = {}

----------------------------------------------------------------------------
(* Faulty variant, for KeepsExecuting: a processor that sleeps does not    *)
(* look at the answer.                                                     *)
ReceiveAwake(m) ==
  /\ running
  /\ m \in served /\ m.kind = "fetch"
  /\ ils' = IF sleep THEN ils
            ELSE [state |-> "done", pc |-> m.what, err |-> m.err]
  /\ served' = served \ {m}
  /\ UNCHANGED <<dls, cls, pc, regs, sleep, running, port, mem, waiting>>

(* simple_riscv64_receive: an answer to the fetch or to the data transfer. *)
receive_inst(m) ==
  /\ running
  /\ m \in served /\ m.kind = "fetch"
  /\ ils' = [state |-> "done", pc |-> m.what, err |-> m.err]
  /\ served' = served \ {m}
  /\ UNCHANGED <<dls, cls, pc, regs, sleep, running, port, mem, waiting>>

receive_data(m) ==
  /\ running
  /\ m \in served /\ m.kind = "data"
  /\ dls' = [dls EXCEPT !.state = "done", !.pkt = m.what, !.err = m.err]
  /\ served' = served \ {m}
  /\ UNCHANGED <<ils, cls, pc, regs, sleep, running, port, mem, waiting>>

(* Faulty variant, for NoAnswerDropped: a blocked answer is replaced. *)
ControlAnyway(c, s) ==
  /\ running
  /\ port[inbox] = Control(c, s)
  /\ sleep' = s
  /\ cls' = c
  /\ waiting' = waiting \cup {c}
  /\ port' = [port EXCEPT ![inbox] = None]
  /\ UNCHANGED <<ils, dls, pc, regs, running, served, mem>>

(* A write of 0 (sleep) or 1 (wake) to the control page arrives.  While    *)
(* the answer to another is blocked it is refused with EBUSY and stays in  *)
(* its register.  Otherwise it is answered at once, and a bus refuses the  *)
(* answer, because it is still busy with the request.  A write of another  *)
(* size or value ends the run (SimpleBus).                                 *)
receive_control(c, s) ==
  /\ running
  /\ port[inbox] = Control(c, s)
  /\ cls = None
  /\ sleep' = s
  /\ IF free(ctrl)
     THEN /\ port' = [port EXCEPT ![inbox] = None, ![ctrl] = Other]
          /\ UNCHANGED <<cls, waiting>>
     ELSE /\ port' = [port EXCEPT ![inbox] = None]
          /\ cls' = c
          /\ waiting' = waiting \cup {c}
  /\ UNCHANGED <<ils, dls, pc, regs, running, served, mem>>

----------------------------------------------------------------------------
(* Faulty variant, for ControllersAnswered: sleep is looked at first. *)
AnswerAwake(ports) ==
  /\ running
  /\ ~ sleep
  /\ cls = None \/ free(ctrl)
  /\ ports = IF cls = None THEN port ELSE [port EXCEPT ![ctrl] = Other]
  /\ cls' = None
  /\ waiting' = waiting \ {cls}
  /\ UNCHANGED sleep

(* The clock callback.  A blocked answer to a controller is sent first,    *)
(* and nothing else happens until it is accepted; ports is what the ports  *)
(* hold after it.                                                          *)
answer_control(ports) ==
  /\ running
  /\ cls = None \/ free(ctrl)
  /\ ports = IF cls = None THEN port ELSE [port EXCEPT ![ctrl] = Other]
  /\ cls' = None
  /\ waiting' = waiting \ {cls}
  /\ UNCHANGED sleep

(* The fetch at a is sent, or blocked when the port is taken. *)
fetch(ports, a) ==
  LET ok == ports[imem] = None
  IN  /\ ils' = [state |-> IF ok THEN "sent" ELSE "blocked",
                 pc |-> a, err |-> FALSE]
      /\ port' = IF ok THEN [ports EXCEPT ![imem] = Fetch(a)] ELSE ports

(* A processor that sleeps answers controllers, and nothing else. *)
clock_asleep(ports) ==
  /\ sleep
  /\ port' = ports
  /\ UNCHANGED <<ils, dls, pc, regs, running>>

(* Faulty variant, for StatesMatchPackets: EBUSY is not looked at.         *)
RetryAnyway(ports) ==
  /\ ~ sleep /\ dls.state = "blocked"
  /\ dls' = [dls EXCEPT !.state = "sent"]
  /\ port' = IF ports[dmem] = None
             THEN [ports EXCEPT ![dmem] = Data(dls.pkt)] ELSE ports
  /\ UNCHANGED <<ils, pc, regs, running>>

(* A blocked load or store is sent again. *)
clock_retry(ports) ==
  LET ok == ports[dmem] = None
  IN  /\ ~ sleep /\ dls.state = "blocked"
      /\ dls' = IF ok THEN [dls EXCEPT !.state = "sent"] ELSE dls
      /\ port' = IF ok THEN [ports EXCEPT ![dmem] = Data(dls.pkt)] ELSE ports
      /\ UNCHANGED <<ils, pc, regs, running>>

(* Faulty variant, for ImplementsSequential: a transfer that has been      *)
(* accepted holds up nothing.                                              *)
SettledWhenSent == dls.state # "blocked" /\ ~ dls.err

(* Nothing is done while a load or store is open, not even a blocked       *)
(* fetch.  A completed one is closed, whatever becomes of the instruction. *)
dls_settled == dls.state = "idle" \/ (dls.state = "done" /\ ~ dls.err)

(* finalize_dls: the transfer is closed, and a load writes its register.   *)
closed == [dls EXCEPT !.state = "idle"]
finalized ==
  IF dls.state = "done" /\ dls.pkt.flag = "read"
  THEN set_reg(regs, dls.reg, loaded(dls.pkt, dls.u)) ELSE regs

clock_wait(ports) ==
  /\ ~ sleep
  /\ \/ dls.state = "sent" /\ UNCHANGED <<dls, regs>>
     \/ /\ dls_settled /\ ils.state = "sent"
        /\ dls' = closed /\ regs' = finalized
  /\ port' = ports
  /\ UNCHANGED <<ils, pc, running>>

(* The assertion on a failed load or store. *)
clock_abort(ports) ==
  /\ ~ sleep /\ dls.state = "done" /\ dls.err
  /\ running' = FALSE
  /\ port' = ports
  /\ UNCHANGED <<ils, dls, pc, regs>>

clock_fetch(ports) ==
  /\ ~ sleep /\ dls_settled /\ ils.state = "blocked"
  /\ dls' = closed /\ regs' = finalized
  /\ fetch(ports, ils.pc)
  /\ UNCHANGED <<pc, running>>

NoInstruction == [op |-> "none"]

(* Faulty variant, for ErrorsEndTheRun: the fetched word is taken for an   *)
(* instruction.                                                            *)
DecodedAnyway == IF ils.pc \in DOMAIN Prog THEN Prog[ils.pc] ELSE NoInstruction

(* What the processor decodes: a failed fetch comes back as it was sent,   *)
(* zeroes, which is no opcode.                                             *)
decoded ==
  IF ils.err \/ ils.pc \notin DOMAIN Prog THEN NoInstruction ELSE Prog[ils.pc]

(* What the instruction stops at: SYSTEM, an unknown opcode, and the       *)
(* assertions on a transfer and on the next fetch that leave their line.   *)
stops(i, r) ==
  \/ i.op \notin Known
  \/ i.op \in Transfers /\ ~ fits(address(i, r), size(i))
  \/ ~ fits(after(i, r, pc), 4)

(* load and store: the transfer is sent, or blocked.  What dls and the     *)
(* ports hold after it; other instructions only close the one before.      *)
transfer(ports, i, r) ==
  [state |-> IF ports[dmem] = None THEN "sent" ELSE "blocked",
   pkt |-> transfer_packet(i, r), reg |-> IF i.op = "LOAD" THEN i.rd ELSE 0,
   u |-> i.op = "LOAD" /\ i.alt, err |-> FALSE]

sent(ports, i, r) ==
  IF i.op \in Transfers /\ ports[dmem] = None
  THEN [ports EXCEPT ![dmem] = Data(transfer_packet(i, r))] ELSE ports

(* The instruction is executed and the next one fetched. *)
clock_execute(ports) ==
  /\ ~ sleep /\ dls_settled /\ ils.state = "done"
  /\ \E i \in {decoded}, r \in {finalized} :
       /\ ~ stops(i, r)
       /\ pc' = after(i, r, pc)
       /\ regs' = registers(i, r, pc)
       /\ dls' = IF i.op \in Transfers THEN transfer(ports, i, r) ELSE closed
       /\ fetch(sent(ports, i, r), pc')
  /\ UNCHANGED running

(* SYSTEM ends the run; an unknown opcode ends it with an error. *)
clock_end(ports) ==
  /\ ~ sleep /\ dls_settled /\ ils.state = "done"
  /\ stops(decoded, finalized)
  /\ dls' = closed /\ regs' = finalized
  /\ ils' = [ils EXCEPT !.state = "idle"]
  /\ running' = FALSE
  /\ port' = ports
  /\ UNCHANGED pc

simple_riscv64_clock ==
  /\ \E ports \in {port, [port EXCEPT ![ctrl] = Other]} :
       /\ answer_control(ports)
       /\ \/ clock_asleep(ports)
          \/ clock_retry(ports)
          \/ clock_wait(ports)
          \/ clock_abort(ports)
          \/ clock_fetch(ports)
          \/ clock_execute(ports)
          \/ clock_end(ports)
  /\ UNCHANGED <<served, mem>>

----------------------------------------------------------------------------
mapped(p) == \A i \in p.mask : p.to + i \in Cells

(* The component that a packet is for takes it and, when it is one of the  *)
(* processor, serves it: a memory, or one that may answer with an error.   *)
(* Whether it takes a request to the control page is for receive_control.  *)
Move(p, err) ==
  /\ running
  /\ ~ free(p)
  /\ port' = [port EXCEPT ![p] = None]
  /\ \/ port[p].kind = "other" /\ ~ err /\ UNCHANGED <<served, mem>>
     \/ /\ port[p].kind = "fetch" \/ (port[p].kind = "data" /\ err)
        /\ served' = served \cup {[port[p] EXCEPT !.err = err]}
        /\ UNCHANGED mem
     \/ /\ port[p].kind = "data" /\ ~ err /\ mapped(port[p].what)
        /\ \/ /\ port[p].what.flag = "read"
              /\ served' = served \cup
                   {Data(checked_copyto(port[p].what, mem))}
              /\ UNCHANGED mem
           \/ /\ port[p].what.flag = "write"
              /\ served' = served \cup {port[p]}
              /\ mem' = checked_copyfrom(port[p].what, mem)
  /\ UNCHANGED <<ils, dls, cls, pc, regs, sleep, running, waiting>>

(* A controller writes to the control page, one write at a time. *)
Request(c, s) ==
  /\ running
  /\ c \notin waiting
  /\ free(inbox)
  /\ port' = [port EXCEPT ![inbox] = Control(c, s)]
  /\ UNCHANGED <<ils, dls, cls, pc, regs, sleep, running, served, mem, waiting>>

(* Packets of other components take the place. *)
Occupy(p) ==
  /\ running
  /\ free(p)
  /\ port' = [port EXCEPT ![p] = Other]
  /\ UNCHANGED <<ils, dls, cls, pc, regs, sleep, running, served, mem, waiting>>

Answer == \E m \in served : receive_inst(m) \/ receive_data(m)

Next ==
  \/ simple_riscv64_clock
  \/ Answer
  \/ \E c \in Controller, s \in BOOLEAN : receive_control(c, s) \/ Request(c, s)
  \/ \E p \in Port, err \in BOOLEAN : Move(p, err)
  \/ \E p \in Port : Occupy(p)

(* The processor is clocked for ever (Clock!EveryDomainAdvances), and so   *)
(* are the components behind the ports: a packet is taken at last by the   *)
(* one it is for, memory answers, and a request to the control page is     *)
(* taken unless the processor goes on refusing it.  Nobody has to write    *)
(* one.  What a bus and a memory can do to each other when others use them *)
(* (SimpleBus!Wedged) is left out here: of the components that the bus     *)
(* sends to, only this processor refuses a packet for ever.                *)
Fairness ==
  /\ WF_vars(simple_riscv64_clock)
  /\ WF_vars(\E m \in served : receive_inst(m))
  /\ WF_vars(\E m \in served : receive_data(m))
  /\ WF_vars(\E c \in Controller, s \in BOOLEAN : receive_control(c, s))
  /\ \A p \in Port : WF_vars(\E err \in BOOLEAN : Move(p, err))

Spec == Init /\ [][Next]_vars /\ Fairness

----------------------------------------------------------------------------
(* Where the packets of one kind are. *)
UnderWay(kind) ==
  {p \in Port : port[p] # None /\ port[p].kind = kind}
    \cup {m \in served : m.kind = kind}

(* The states say where the packets are: a transfer is "sent" exactly      *)
(* while one packet of it is on its way, so no answer is lost, none comes  *)
(* twice, and none arrives in a state that would not take it               *)
(* (simple_riscv64.c:536-545 do not look at the state).                    *)
StatesMatchPackets ==
  /\ Cardinality(UnderWay("fetch")) = IF ils.state = "sent" THEN 1 ELSE 0
  /\ Cardinality(UnderWay("data")) = IF dls.state = "sent" THEN 1 ELSE 0

(* Every controller whose request was accepted is answered or is the one   *)
(* whose answer is blocked: a request that comes in between is refused and *)
(* takes no answer's place (simple_riscv64.c:548).                         *)
NoAnswerDropped == waiting = {cls} \ {None}

(* A failed transfer never goes unnoticed: the run does not go on with an  *)
(* instruction or a loaded value that did not arrive.  The assertion meant *)
(* for the fetch (simple_riscv64.c:633) looks at the data packet, yet the  *)
(* zeroes of a failed fetch end the run as an unknown opcode.              *)
ErrorsEndTheRun ==
  [][running' /\ ils.state = "done" /\ ils'.state # "done"
       => ~ ils.err /\ ~ (dls.state = "done" /\ dls.err)]_vars

(* A transfer that is not closed counts as done: for the program, a load   *)
(* or store takes effect when it is executed.                              *)
Open(flag) == dls.state # "idle" /\ dls.pkt.flag = flag /\ mapped(dls.pkt)

promised_regs ==
  IF Open("read")
  THEN set_reg(regs, dls.reg, loaded(checked_copyto(dls.pkt, mem), dls.u))
  ELSE regs

promised_mem == IF Open("write") THEN checked_copyfrom(dls.pkt, mem) ELSE mem

Promised == INSTANCE Sequential WITH
  regs <- promised_regs, mem <- promised_mem

(* Whatever the ports refuse, whenever controllers interfere, and although *)
(* a fetch goes out while a load is open: the program sees its             *)
(* instructions executed one after the other on registers and bytes, and   *)
(* every load and store as a whole before the next instruction.            *)
ImplementsSequential == Promised!Spec

(* MISC_MEM is a "nop in this case" (simple_riscv64.c:654): like every     *)
(* other instruction but a jump to itself, it is left behind when it has   *)
(* been executed.                                                          *)
FenceIsNop ==
  [][ils.state = "done" /\ decoded.op = "MISC_MEM" /\ ils'.state # "done"
       => pc' # pc]_vars

OthersQuiet == <>[][\A p \in Port : ~ Occupy(p)]_vars

ControllersQuiet ==
  <>[][\A c \in Controller, s \in BOOLEAN : ~ Request(c, s)]_vars

(* The processor refuses a second request to its control page as long as   *)
(* its answer to the first is blocked (simple_riscv64.c:548), and the bus  *)
(* that keeps that request takes no answer (simple_bus.c:39-41,53).        *)
ControlWedged ==
  cls # None /\ port[ctrl] # None /\ port[ctrl].kind = "control"

(* When others leave the ports and the control page alone, a processor     *)
(* that is awake goes on, unless its answer to a controller is wedged: no  *)
(* answer that came while it slept, or while its answer to a controller    *)
(* was blocked, is forgotten.                                              *)
KeepsExecuting ==
  OthersQuiet /\ ControllersQuiet
    => \/ []<>(ils.state = "done") /\ []<>(ils.state # "done")
       \/ <>[](~ running \/ sleep \/ ControlWedged)

(* A controller is answered even if the processor sleeps and others go on  *)
(* writing to the control page, unless the answer is wedged by a request.  *)
ControllersAnswered ==
  OthersQuiet => \A c \in Controller :
    c \in waiting ~> c \notin waiting \/ ~ running \/ ControlWedged
============================================================================

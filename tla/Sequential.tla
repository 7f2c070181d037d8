----------------------------- MODULE Sequential -----------------------------
(***************************************************************************)
(* What a program may rely on: its instructions are executed one after the *)
(* other, each at the address the one before it left in pc, and each as a  *)
(* whole, on registers and on a memory of bytes.  What one instruction     *)
(* computes is a parameter.                                                *)
(***************************************************************************)
EXTENDS Integers

CONSTANTS
  Prog,   \* the instructions, by address
  Boot,   \* what the program starts with
  Cells,  \* the addresses that memory has
  Known,             \* the opcodes that do not end the program
  Transfers,         \* those of them that load and store
  registers(_,_,_),  \* the registers after another instruction
  after(_,_,_),      \* pc after an instruction
  address(_,_),      \* the first byte that a load or store accesses
  size(_),           \* how many it accesses
  bytes(_,_),        \* the bytes that a store writes
  value(_,_,_),      \* the value that a load makes of bytes
  set_reg(_,_,_)     \* registers with one of them replaced

VARIABLES
  pc,      \* the address of the instruction to execute
  regs,    \* the registers
  mem,     \* the bytes of memory
  running  \* the program has not ended

Init ==
  /\ \E b \in Boot : pc = b.pc /\ regs = b.regs
  /\ mem = [a \in Cells |-> 0]
  /\ running = TRUE

Touched(i) == address(i, regs) .. address(i, regs) + size(i) - 1

Load(i) ==
  /\ i.op = "LOAD" /\ Touched(i) \subseteq Cells
  /\ regs' = set_reg(regs, i.rd,
                value([k \in 0 .. size(i) - 1 |-> mem[address(i, regs) + k]],
                      size(i), i.alt))
  /\ UNCHANGED mem

Store(i) ==
  /\ i.op = "STORE" /\ Touched(i) \subseteq Cells
  /\ mem' = [a \in Cells |->
               IF a \in Touched(i) THEN bytes(i, regs)[a - address(i, regs)]
               ELSE mem[a]]
  /\ UNCHANGED regs

(* An access that no memory answers; the program ends soon after. *)
Miss(i) ==
  /\ i.op \in Transfers /\ ~ (Touched(i) \subseteq Cells)
  /\ UNCHANGED <<regs, mem>>

Compute(i) ==
  /\ i.op \in Known \ Transfers
  /\ regs' = registers(i, regs, pc)
  /\ UNCHANGED mem

Step ==
  /\ running /\ pc \in DOMAIN Prog
  /\ \E i \in {Prog[pc]} :
       /\ Load(i) \/ Store(i) \/ Miss(i) \/ Compute(i)
       /\ pc' = after(i, regs, pc)
  /\ UNCHANGED running

(* The last instruction, or an error of any kind. *)
Stop == running /\ running' = FALSE /\ UNCHANGED <<pc, regs, mem>>

Spec == Init /\ [][Step \/ Stop]_<<pc, regs, mem, running>>
============================================================================

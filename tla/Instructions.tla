---------------------------- MODULE Instructions ----------------------------
(***************************************************************************)
(* What the instructions of src/src/cpu/riscv/simple_riscv64.c compute.    *)
(* An instruction is a record of its opcode and its fields: f is funct3 by *)
(* name, alt says that funct7 is not zero or that a load is unsigned, and  *)
(* imm is the immediate before it is extended.  Words have eight bytes, an *)
(* int has four.                                                           *)
(***************************************************************************)
EXTENDS Packets

CONSTANTS
  Reg,      \* the registers but x0 (1 .. 31 in the code)
  ImmBits,  \* bits of a short immediate (12 in the code)
  JalBits   \* bits that jal extends its immediate from (20 in the code)

Xlen == 8 * ByteBits
Word == 2^Xlen

wrap(x) == x % Word

(* The number that the low n bits of x are in two's complement. *)
extended(x, n) ==
  IF x % 2^n < 2^(n - 1) THEN x % 2^n ELSE (x % 2^n) - 2^n

signed(x) == extended(x, Xlen)

get_reg(regs, i) == IF i = 0 THEN 0 ELSE regs[i]

set_reg(regs, i, v) == IF i = 0 THEN regs ELSE [regs EXCEPT ![i] = v]

truth(b) == IF b THEN 1 ELSE 0

bits(x) == {i \in 0 .. Xlen - 1 : (x \div 2^i) % 2 = 1}
number(S) == MapThenSumSet(LAMBDA i : 2^i, S)

logical(x, n) == x \div 2^n
arithmetic(x, n) == wrap(signed(x) \div 2^n)

(* The functions that op_imm and op have in common.  The code shifts by    *)
(* the whole register in op; shifts of a word or more are undefined there, *)
(* and the processor it runs on takes the count modulo the word.           *)
computed(f, x, y) ==
  CASE f = "add"  -> wrap(x + y)
    [] f = "slt"  -> truth(signed(x) < signed(y))
    [] f = "sltu" -> truth(x < y)
    [] f = "and"  -> number(bits(x) \cap bits(y))
    [] f = "or"   -> number(bits(x) \cup bits(y))
    [] f = "xor"  -> number((bits(x) \ bits(y)) \cup (bits(y) \ bits(x)))
    [] f = "sll"  -> wrap(x * 2^(y % Xlen))

(* op_imm_32 is the same function: nothing is cut to an int.  Any bit of   *)
(* the immediate above the lowest five makes a right shift logical.        *)
op_imm(i, x) ==
  LET imm == wrap(extended(i.imm, ImmBits))
  IN  IF i.f = "sr"
      THEN IF imm >= Xlen \div 2 THEN logical(x, imm % Xlen)
           ELSE arithmetic(x, imm % Xlen)
      ELSE computed(i.f, x, imm)

(* With a funct7 that is not zero, a right shift is the logical one. *)
op(i, x, y) ==
  CASE i.f = "sr" -> IF i.alt THEN logical(x, y % Xlen)
                     ELSE arithmetic(x, y % Xlen)
    [] i.f = "add" /\ i.alt -> wrap(x - y)
    [] OTHER -> computed(i.f, x, y)

(* The immediate of lui and auipc, an int shifted by the short immediate.  *)
upper(i) == extended(i.imm * 2^ImmBits, Xlen \div 2)

taken(f, x, y) ==
  CASE f = "eq"  -> x = y
    [] f = "ne"  -> x # y
    [] f = "lt"  -> signed(x) < signed(y)
    [] f = "ltu" -> x < y
    [] f = "ge"  -> signed(x) >= signed(y)
    [] f = "geu" -> x >= y

Transfers == {"LOAD", "STORE"}

(* The opcodes that the processor executes and goes on after. *)
Known == Transfers \cup
  {"OP_IMM", "OP_IMM_32", "LUI", "AUIPC", "OP", "JAL", "JALR", "BRANCH",
   "MISC_MEM"}

(* What an instruction that is no transfer leaves in the registers. *)
registers(i, regs, pc) ==
  LET x == get_reg(regs, i.rs1)
      y == get_reg(regs, i.rs2)
  IN  CASE i.op \in {"OP_IMM", "OP_IMM_32"} -> set_reg(regs, i.rd, op_imm(i, x))
        [] i.op = "OP" -> set_reg(regs, i.rd, op(i, x, y))
        [] i.op = "LUI" -> set_reg(regs, i.rd, wrap(upper(i)))
        [] i.op = "AUIPC" -> set_reg(regs, i.rd, wrap(pc + upper(i)))
        [] i.op \in {"JAL", "JALR"} -> set_reg(regs, i.rd, wrap(pc + 4))
        [] OTHER -> regs

(* Where it leaves pc.  jalr adds to pc, too; the immediates of branch and *)
(* jal have one bit more than they are extended from; MISC_MEM leaves pc   *)
(* where it is.                                                            *)
after(i, regs, pc) ==
  LET x == get_reg(regs, i.rs1)
      y == get_reg(regs, i.rs2)
  IN  CASE i.op = "JAL" -> wrap(pc + extended(i.imm, JalBits))
        [] i.op = "JALR" -> wrap(pc + x + extended(i.imm, ImmBits))
        [] i.op = "BRANCH" /\ taken(i.f, x, y) ->
             wrap(pc + extended(i.imm, ImmBits))
        [] i.op = "MISC_MEM" -> pc
        [] OTHER -> wrap(pc + 4)

(* The address, the size and the bytes of a load or store. *)
address(i, regs) == wrap(get_reg(regs, i.rs1) + extended(i.imm, ImmBits))

size(i) == CASE i.f = "b" -> 1 [] i.f = "h" -> 2 [] i.f = "w" -> 4
             [] i.f = "d" -> 8

bytes(i, regs) ==
  [k \in 0 .. size(i) - 1 |->
     (get_reg(regs, i.rs2) \div 2^(k * ByteBits)) % 2^ByteBits]

(* What a load or store sends. *)
transfer_packet(i, regs) ==
  create_packet(address(i, regs), size(i), bytes(i, regs),
                IF i.op = "LOAD" THEN "read" ELSE "write")

(* finalize_ld: what the register gets of n loaded bytes.  u is set for    *)
(* the loads that are named unsigned; of the signed ones only a half word  *)
(* is extended, and of words the unsigned one is.                          *)
value(b, n, u) ==
  LET v == packet_conv(b, n)
  IN  IF (n = 2 /\ ~ u) \/ (n = 4 /\ u) THEN wrap(extended(v, n * ByteBits))
      ELSE v

loaded(p, u) ==
  LET n == packet_convsize(p) IN value(first_bytes(p, n), n, u)
============================================================================

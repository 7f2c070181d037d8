----------------------------- MODULE MCRiscv64 -----------------------------
(* A processor on a bus, with a memory of its own for instructions as in   *)
(* tests/simple_uart, and two controllers, booted with one of four         *)
(* programs: the sum of tests/simple_riscv64 with a smaller bound, a loop  *)
(* whose loads and stores overlap in different sizes, one that leaves a    *)
(* line, and one that leaves memory.  FenceProg is for the run about       *)
(* MISC_MEM.                                                               *)
EXTENDS Riscv64, Sequences

MCReg == {10, 11, 12}

I(o, f, rd, rs1, rs2, imm) ==
  [op |-> o, f |-> f, alt |-> FALSE, rd |-> rd, rs1 |-> rs1, rs2 |-> rs2,
   imm |-> imm]
U(i) == [i EXCEPT !.alt = TRUE]
Addi(rd, rs, imm) == I("OP_IMM", "add", rd, rs, 0, imm)
Ebreak == I("SYSTEM", "none", 0, 0, 0, 0)

At(a, code) == [p \in {a + 4 * (k - 1) : k \in DOMAIN code} |->
                  code[((p - a) \div 4) + 1]]

Sum == At(0,
  <<Addi(10, 0, 0), I("LUI", "none", 11, 0, 0, 1), Addi(11, 11, -62),
    Addi(12, 0, 0),
    I("BRANCH", "eq", 0, 10, 11, 16), I("OP", "add", 12, 12, 10, 0),
    Addi(10, 10, 1), I("JAL", "none", 0, 0, 0, -12), Ebreak>>)

Overlap == At(64,
  <<I("LOAD", "h", 10, 0, 0, 2), I("OP_IMM", "xor", 10, 10, 0, -1),
    I("STORE", "d", 0, 0, 10, 0), I("LOAD", "b", 11, 0, 0, 3),
    I("JAL", "none", 0, 0, 0, -16)>>)

Crossing == At(96,
  <<I("AUIPC", "none", 11, 0, 0, 0), I("OP_IMM", "sr", 11, 11, 0, 1),
    I("STORE", "b", 0, 0, 11, 4), U(I("LOAD", "w", 10, 0, 0, 4)),
    I("JALR", "none", 12, 0, 0, 8), Ebreak, I("LOAD", "d", 10, 0, 0, 12)>>)

Missing == At(128, <<I("LOAD", "b", 10, 0, 0, -1), Ebreak>>)

Joined(f, g) ==
  [a \in DOMAIN f \cup DOMAIN g |-> IF a \in DOMAIN f THEN f[a] ELSE g[a]]

MCProg == Joined(Joined(Sum, Overlap), Joined(Crossing, Missing))
Booted(starts) ==
  {[pc |-> a, regs |-> [r \in {10, 11, 12} |-> 0]] : a \in starts}
MCBoot == Booted({0, 64, 96, 128})
MCCells == 0 .. 15

FenceProg == At(0, <<Addi(10, 10, 1), I("MISC_MEM", "none", 0, 0, 0, 0), Ebreak>>)
FenceBoot == Booted({0})
============================================================================

----------------------------- MODULE Registers -----------------------------
(***************************************************************************)
(* The one-packet registers of src/src/common.c that every network         *)
(* component is made of.  A register holds a packet or NoPkt; it is busy   *)
(* in the code exactly when it holds a packet here.                        *)
(***************************************************************************)
EXTENDS Integers, Sequences

CONSTANT NoPkt  \* what a free register holds

busy(r) == r # NoPkt

(* The loop of propagate: among the registers that cand lists and that are *)
(* busy with a packet the selection accepts (sel, the names of those), the *)
(* one with the smallest timestamp, and the first listed on a tie.         *)
(* << >> if there is none, else <<its name>>.                              *)
oldest(regs, cand, sel) ==
  LET Able == {i \in DOMAIN cand : busy(regs[cand[i]]) /\ cand[i] \in sel}
      Stamp(i) == regs[cand[i]].stamp
      Before(i, j) == \/ Stamp(i) < Stamp(j)
                      \/ Stamp(i) = Stamp(j) /\ i <= j
  IN  IF Able = {} THEN << >>
      ELSE <<cand[CHOOSE i \in Able : \A j \in Able : Before(i, j)]>>

(* propagate moves nothing into an output that is still busy: copy_reg     *)
(* leaves both registers as they were.                                     *)
propagate(out, regs, cand, sel) ==
  IF busy(out) THEN << >> ELSE oldest(regs, cand, sel)
============================================================================

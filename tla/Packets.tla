------------------------------ MODULE Packets ------------------------------
(***************************************************************************)
(* The packets of src/include/gran/packet.h: an access to a few bytes is   *)
(* an aligned line, a mask of bytes in it, and data for those bytes.  The  *)
(* bits of the mask are the set of their places.                           *)
(***************************************************************************)
EXTENDS Integers, FiniteSetsExt

CONSTANTS
  Line,     \* bytes in a packet (64 in the code)
  ByteBits  \* bits in a byte (8 in the code)

ASSUME PacketsAssumption == Line \in Nat \ {0}

Byte == 0 .. 2^ByteBits - 1

packet_align(addr) == addr - (addr % Line)

(* The assertion of packet_mask: an access does not leave its line. *)
fits(addr, size) == (addr % Line) + size <= Line

packet_mask(addr, size) == (addr % Line) .. (addr % Line) + size - 1

(* data holds the bytes of a write; a read has none yet. *)
create_packet(addr, size, data, flag) ==
  [to |-> packet_align(addr), mask |-> packet_mask(addr, size), flag |-> flag,
   data |-> [i \in packet_mask(addr, size) |->
               IF flag = "write" THEN data[i - (addr % Line)] ELSE 0]]

(* The place of the lowest bit of the mask. *)
start(p) == Min(p.mask)

(* The size is told from the eight bits of the mask that begin there. *)
packet_convsize(p) ==
  IF p.mask = {} THEN 0
  ELSE LET window == p.mask \cap (start(p) .. start(p) + 7)
       IN  CHOOSE n \in {1, 2, 4, 8} : window = start(p) .. start(p) + n - 1

packet_convto(p) == IF p.mask = {} THEN p.to ELSE p.to + start(p)

(* The first n bytes of those under the mask. *)
first_bytes(p, n) == [k \in 0 .. n - 1 |-> p.data[start(p) + k]]

(* The little-endian number that n bytes are. *)
packet_conv(b, n) ==
  MapThenSumSet(LAMBDA k : b[k] * 2^(k * ByteBits), 0 .. n - 1)

(* What a memory does with a packet: a read takes the bytes of its mask    *)
(* from it, a write leaves them there.                                     *)
checked_copyto(p, mem) ==
  [p EXCEPT !.data = [i \in p.mask |-> mem[p.to + i]]]

checked_copyfrom(p, mem) ==
  [a \in DOMAIN mem |-> IF a - p.to \in p.mask THEN p.data[a - p.to] ELSE mem[a]]
============================================================================

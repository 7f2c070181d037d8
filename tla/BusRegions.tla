---------------------------- MODULE BusRegions ----------------------------
(***************************************************************************)
(* The region table of src/src/bus/simple_bus.c: what find_bus_region      *)
(* answers for an address while simple_bus_add maps components.  The       *)
(* 64-bit addresses of the code are integers modulo Word here, with the    *)
(* same wrapping sum of a region's address and its size.                   *)
(***************************************************************************)
EXTENDS Integers, Sequences, SequencesExt

CONSTANTS
  Word,        \* the number of addresses (2^64 in the code)
  MaxRegions   \* bound: how many regions are mapped

ASSUME SizesArePositive == Word \in Nat \ {0} /\ MaxRegions \in Nat

Address == 0 .. Word - 1

VARIABLE
  regions  \* the table, in the order the regions were added

Region == [addr : Address, size : Address \ {0}]

NoRegions == regions = << >>

end(r) == (r.addr + r.size) % Word

holds(r, addr) == r.addr <= addr /\ addr < end(r)

(* Faulty variant, for OwnersStable: the last region that holds addr.      *)
FindLast(addr) == SelectLastInSeq(regions, LAMBDA r : holds(r, addr))

(* The place in the table of the first region that holds addr; 0 if none. *)
find_bus_region(addr) ==
  SelectInSeq(regions, LAMBDA r : holds(r, addr))

(* Faulty variants, for OwnsItsStart: only the end is looked up; for       *)
(* OverlapsOnlyAround: only the start is.                                  *)
FoundAtStart(r) == find_bus_region(r.addr) # 0

FoundAtEnd(r) == find_bus_region(end(r)) # 0

(* A region is refused when the address it starts at, or the one after its *)
(* last, is mapped already.                                                *)
found(r) == find_bus_region(r.addr) # 0 \/ find_bus_region(end(r)) # 0

simple_bus_add(r) ==
  IF found(r) THEN UNCHANGED regions ELSE regions' = Append(regions, r)

AddRegion ==
  /\ Len(regions) < MaxRegions
  /\ \E r \in Region : simple_bus_add(r)

RegionsSpec == NoRegions /\ [][AddRegion]_regions

----------------------------------------------------------------------------
(* Packets that reached a component still reach it after another one has   *)
(* been added: the linear search of find_bus_region goes on answering with *)
(* the same component even if the new region covers the address too.       *)
OwnersStable ==
  [][\A a \in Address :
       find_bus_region(a) # 0 => find_bus_region(a)' = find_bus_region(a)]_regions

(* Every component but one whose region wraps around answers at its own    *)
(* first address, whatever was added before and after it.                  *)
OwnsItsStart ==
  \A i \in DOMAIN regions :
    regions[i].addr < end(regions[i]) => find_bus_region(regions[i].addr) = i

(* Two lookups do not find every overlap (simple_bus.c:99-100), but what   *)
(* they miss is of one kind: a region that begins before an earlier one    *)
(* and does not end before it, all around it.                              *)
OverlapsOnlyAround ==
  \A i, j \in DOMAIN regions :
    i < j /\ (\E a \in Address : holds(regions[i], a) /\ holds(regions[j], a))
      => /\ regions[j].addr < regions[i].addr
         /\ end(regions[i]) <= end(regions[j])
=============================================================================

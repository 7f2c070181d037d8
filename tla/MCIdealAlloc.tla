--------------------------- MODULE MCIdealAlloc ---------------------------
(* Two clients, two spaces.  In the first space two regions are disjoint,  *)
(* one lies inside the first of them and one around it, and the queries    *)
(* hit that one and a gap; the other space has one region; a third space   *)
(* that is asked for does not exist.                                       *)
EXTENDS IdealAlloc

Req(op, space, start, end) ==
  [op |-> op, space |-> space, start |-> start, end |-> end]

MCRequest ==
  {Req(op, 0, r[1], r[2]) : op \in {"new", "rm"},
                            r \in {<<1, 3>>, <<5, 6>>, <<2, 2>>, <<0, 4>>}}
  \cup {Req("query", 0, a, a) : a \in {2, 4}}
  \cup {Req("new", 1, 1, 3), Req("query", 1, 2, 2)}
  \cup {Req("query", 2, 2, 2), Req("unknown", 0, 0, 0)}
============================================================================

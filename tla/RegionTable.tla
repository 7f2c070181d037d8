---------------------------- MODULE RegionTable ----------------------------
(***************************************************************************)
(* What a region allocator promises its clients: each request takes effect *)
(* at one moment between the asking and the answer, and the answers are    *)
(* those of a set of regions, as long as the regions in it are disjoint.   *)
(***************************************************************************)
EXTENDS Integers

CONSTANTS
  Client,   \* the components that ask
  Space,    \* the address spaces there are
  Request,  \* requests [op, space, start, end]; a query has start = end
  None      \* no request, no answer

VARIABLES
  table,   \* table[s]: the regions allocated in space s
  open,    \* open[c]: the request of client c that has not taken effect
  result   \* result[c]: the answer client c has not received

Init ==
  /\ table = [s \in Space |-> {}]
  /\ open = [c \in Client |-> None]
  /\ result = [c \in Client |-> None]

Range(q) == [start |-> q.start, end |-> q.end]
Contains(r, q) == r.start <= q.start /\ q.end <= r.end
Disjoint(T) == \A r, s \in T : r = s \/ r.end < s.start \/ s.end < r.start

Answer(ret, r) == [ret |-> ret, region |-> r]
Ok(T, q) ==
  IF q.op = "query" THEN Answer("ok", CHOOSE r \in T : Contains(r, q))
  ELSE Answer("ok", IF q.op = "new" THEN Range(q) ELSE None)

(* A client has one request at a time. *)
Ask(c, q) ==
  /\ open[c] = None /\ result[c] = None
  /\ open' = [open EXCEPT ![c] = q]
  /\ UNCHANGED <<table, result>>

(* The new set of regions and the answer to q, among disjoint regions. *)
Effect(T, q, U, a) ==
  LET known == \E r \in T : Contains(r, q)
  IN  CASE q.op = "query" -> /\ U = T
                             /\ a = IF known THEN Ok(T, q)
                                    ELSE Answer("err_range", None)
        [] q.op = "rm"    -> IF known
                             THEN /\ U = {r \in T : ~ Contains(r, q)}
                                  /\ a = Ok(T, q)
                             ELSE U = T /\ a = Answer("err_range", None)
        [] q.op = "new"   -> IF known
                             THEN U = T /\ a = Answer("err_range", None)
                             ELSE U = T \cup {Range(q)} /\ a = Ok(T, q)

Serve(c) ==
  /\ open[c] # None
  /\ open' = [open EXCEPT ![c] = None]
  /\ \A d \in Client \ {c} : result'[d] = result[d]
  /\ IF open[c].space \notin Space
     THEN result'[c] = Answer("err_space", None) /\ UNCHANGED table
     ELSE LET s == open[c].space
          IN  /\ \A t \in Space \ {s} : table'[t] = table[t]
              /\ Disjoint(table[s]) =>
                   Effect(table[s], open[c], table'[s], result'[c])

Take(c) ==
  /\ result[c] # None
  /\ result' = [result EXCEPT ![c] = None]
  /\ UNCHANGED <<table, open>>

Next ==
  \E c \in Client : (\E q \in Request : Ask(c, q)) \/ Serve(c) \/ Take(c)

Spec == Init /\ [][Next]_<<table, open, result>>
============================================================================

----------------------------- MODULE IdealAlloc -----------------------------
(***************************************************************************)
(* The region allocator of src/src/mem/ideal_alloc.c with its clients: a   *)
(* register for one request, a register for one answer that was refused,   *)
(* and for each address space a search tree of regions.                    *)
(*                                                                         *)
(* The tree is a splay tree of a library that is not in the repository.    *)
(* It is modelled by what every search tree does with region_cmp: a key    *)
(* goes left or right of the nodes it meets, which may be any.  The        *)
(* comparison has the node first: the query of                             *)
(* src/tests/simple_ideal_alloc/testbench.c:45 depends on it.              *)
(***************************************************************************)
EXTENDS Integers, FiniteSets

CONSTANTS
  Client,      \* the components that send requests
  max_spaces,  \* how many address spaces there are
  Request,     \* requests [op, space, start, end]; a query has start = end
  Others,      \* a packet that is not from the allocator
  Nothing      \* no request, no answer; a register that is not busy

VARIABLES
  spaces,   \* spaces[s]: the regions in the tree of space s
  in,       \* the packet [from, req] in the request register
  out,      \* the answer [to, ans] that was refused
  port,     \* the packet the component behind send holds
  waiting,  \* the clients that have sent a request and got no answer
  stopped   \* the clock callback has reported EMEM, which ends the run

allocVars == <<spaces, in, out, port, waiting, stopped>>

Space == 0 .. max_spaces - 1

region(q) == [start |-> q.start, end |-> q.end]

(* What the registers may hold. *)
Extent == {r \in [start : Int, end : Int] : r.start <= r.end}
Asked == [from : Client, req : Request]
Reply == [ret : {"ok", "err_range", "err_space"},
          region : Extent \cup {Nothing}]
Answered == [to : Client, ans : Reply]

(* A client asks for regions that end where they start, or later.          *)
ASSUME RequestAssumption ==
  /\ max_spaces \in Nat
  /\ \A q \in Request : q.space \in Nat /\ region(q) \in Extent
  /\ Nothing \notin Request \cup Asked \cup Answered \cup Reply \cup Extent
  /\ Others # Nothing /\ Others \notin Answered

create_ideal_alloc ==
  /\ spaces = [s \in Space |-> {}]
  /\ in = Nothing
  /\ out = Nothing
  /\ port = Nothing
  /\ waiting = {}
  /\ stopped = FALSE

(* Faulty variant, for ImplementsRegionTable: the test for the end has the *)
(* operands swapped.                                                       *)
CmpSwapped(a, b) ==
  CASE a = b             -> 0
    [] a.start > b.start -> 1
    [] a.start < b.start /\ b.end < a.end -> -1
    [] OTHER             -> 0

(* Faulty variant, for FirstOverlapIsAround: a region meets another one    *)
(* only if they are the same.                                              *)
CmpExact(a, b) ==
  CASE a = b             -> 0
    [] a.start > b.start -> 1
    [] OTHER             -> -1

(* 0 if a contains b; an order only between regions that are disjoint.     *)
region_cmp(a, b) ==
  CASE a = b             -> 0
    [] a # b /\ a.start > b.start -> 1
    [] a # b /\ a.start <= b.start /\ a.end < b.end -> -1
    [] OTHER             -> 0

(* r is met on the way of key, or another node that ends the search is: no *)
(* other node can have sent r and key to different sides.                  *)
met(T, key, r) ==
  \A m \in T \ {r} : region_cmp(m, key) \in {0, region_cmp(m, r)}

(* What a search may find in a tree of T, whatever its shape. *)
regions_find(T, key) ==
  LET able == {r \in T : region_cmp(r, key) = 0}
  IN  able \cup (IF \E r \in able : met(T, key, r) THEN {} ELSE {Nothing})

(* A request is refused while one waits.  A client has one at a time.      *)
alloc_receive(c, q) ==
  /\ in = Nothing /\ c \notin waiting
  /\ in' = [from |-> c, req |-> q]
  /\ waiting' = waiting \cup {c}
  /\ UNCHANGED <<spaces, out, port, stopped>>

(* Faulty variant, for AnswersSettle: an answer that is refused is lost.   *)
RespOnce(free, ret, r) ==
  /\ in' = Nothing
  /\ port' = IF free
             THEN [to |-> in.from, ans |-> [ret |-> ret, region |-> r]]
             ELSE port
  /\ out' = Nothing

(* The answer goes out, or into the register if the port is not free.      *)
alloc_resp(free, ret, r) ==
  \E p \in {[to |-> in.from, ans |-> [ret |-> ret, region |-> r]]} :
    /\ in' = Nothing
    /\ IF free THEN port' = p /\ out' = Nothing
       ELSE /\ out' = p
            /\ port' = IF out # Nothing /\ port = Nothing THEN out ELSE port

(* regions_insert gives nothing if the search for a place finds a region.  *)
alloc_new(free, s, r) ==
  \E f \in regions_find(spaces[s], r) :
    IF f = Nothing
    THEN /\ spaces' = [spaces EXCEPT ![s] = @ \cup {r}]
         /\ alloc_resp(free, "ok", r)
         /\ UNCHANGED stopped
    ELSE /\ alloc_resp(free, "err_range", Nothing)
         /\ stopped' = TRUE
         /\ UNCHANGED spaces

alloc_rm(free, s, r) ==
  /\ \E f \in regions_find(spaces[s], r) :
       /\ spaces' = [spaces EXCEPT ![s] = @ \ {f}]
       /\ alloc_resp(free, IF f = Nothing THEN "err_range" ELSE "ok", Nothing)
  /\ UNCHANGED stopped

alloc_q(free, s, r) ==
  /\ \E f \in regions_find(spaces[s], r) :
       alloc_resp(free, IF f = Nothing THEN "err_range" ELSE "ok", f)
  /\ UNCHANGED <<spaces, stopped>>

(* The switch on the address of the request; an unknown one stays.         *)
serve(free) ==
  LET q == in.req
      r == region(q)
  IN  \/ /\ q.op \in {"new", "rm", "query"} /\ q.space >= max_spaces
         /\ alloc_resp(free, "err_space", Nothing)
         /\ UNCHANGED <<spaces, stopped>>
      \/ q.op = "new"   /\ q.space < max_spaces /\ alloc_new(free, q.space, r)
      \/ q.op = "rm"    /\ q.space < max_spaces /\ alloc_rm(free, q.space, r)
      \/ q.op = "query" /\ q.space < max_spaces /\ alloc_q(free, q.space, r)
      \/ /\ q.op = "unknown"
         /\ out' = IF port = Nothing THEN Nothing ELSE out
         /\ port' = IF port = Nothing /\ out # Nothing THEN out ELSE port
         /\ UNCHANGED <<spaces, in, stopped>>

(* Nothing happens without a request.  With one, the answer that was       *)
(* refused goes first, and if it is refused again the request waits.       *)
alloc_clock ==
  /\ in # Nothing
  /\ out = Nothing \/ port = Nothing
  /\ serve(out = Nothing /\ port = Nothing)
  /\ UNCHANGED waiting

(* The component behind send moves on what it holds; an answer reaches its *)
(* client.                                                                 *)
Move ==
  /\ port # Nothing
  /\ port' = Nothing
  /\ waiting' = IF port = Others THEN waiting ELSE waiting \ {port.to}
  /\ UNCHANGED <<spaces, in, out, stopped>>

(* Others use that component, too. *)
Occupy ==
  /\ port = Nothing
  /\ port' = Others
  /\ UNCHANGED <<spaces, in, out, waiting, stopped>>

Receive == \E c \in Client, q \in Request : ~ stopped /\ alloc_receive(c, q)
Clock == ~ stopped /\ alloc_clock
Moves == ~ stopped /\ Move
Occupied == ~ stopped /\ Occupy

AllocNext == Receive \/ Clock \/ Moves \/ Occupied

(* The allocator is clocked for ever and the component behind it moves on  *)
(* what it holds; clients need not ask.                                    *)
AllocFairness == WF_allocVars(Clock) /\ WF_allocVars(Moves)

AllocSpec == create_ideal_alloc /\ [][AllocNext]_allocVars /\ AllocFairness

----------------------------------------------------------------------------
Asks(c) == in # Nothing /\ in.from = c
Blocked(c) == out # Nothing /\ out.to = c
Answers(c) == port \notin {Nothing, Others} /\ port.to = c

AnswerTo(c) ==
  CASE Blocked(c) -> out.ans
    [] ~ Blocked(c) /\ Answers(c) -> port.ans
    [] OTHER -> Nothing

Promised == INSTANCE RegionTable WITH
  None <- Nothing,
  table <- spaces,
  open <- [c \in Client |-> IF Asks(c) THEN in.req ELSE Nothing],
  result <- [c \in Client |-> AnswerTo(c)]

(* Each request takes effect once and its client gets the one answer to    *)
(* it, through a register that may be taken at every step; while the       *)
(* regions in a space are disjoint, the search finds exactly what is       *)
(* allocated, in a tree of any shape, although region_cmp is not an order. *)
ImplementsRegionTable == Promised!Spec

(* Nothing refuses regions that overlap as such.  The first that does is   *)
(* never inside an allocated one (ideal_alloc.c:8-20): it begins before it *)
(* or ends after it.  From then on searches may miss.                      *)
FirstOverlapIsAround ==
  [][\A s \in Space :
       Promised!Disjoint(spaces[s]) =>
         \A r \in spaces[s], n \in spaces'[s] \ spaces[s] :
           n.start < r.start \/ n.end > r.end]_allocVars

(* When no client asks any more and the port is left alone, all have their *)
(* answers but two kinds of client, which wait for ever: the one whose     *)
(* answer was refused and that nobody asks after (ideal_alloc.c:156), and  *)
(* the one that sent an unknown request (ideal_alloc.c:173).               *)
LeftBehind(c) ==
  \/ in = Nothing /\ Blocked(c)
  \/ Asks(c) /\ in.req.op = "unknown"

AnswersSettle ==
  <>[][~ Receive /\ ~ Occupied]_allocVars =>
    <>[](stopped \/ \A c \in waiting : LeftBehind(c))

----------------------------------------------------------------------------
(* What the properties above rest on: a client is in one register at most, *)
(* with its request or with the answer to it, and is waited for.           *)
AllocTypeOK ==
  /\ spaces \in [Space -> SUBSET Extent]
  /\ in \in Asked \cup {Nothing}
  /\ out \in Answered \cup {Nothing}
  /\ port \in Answered \cup {Nothing, Others}
  /\ waiting \subseteq Client
  /\ stopped \in BOOLEAN

OneRegisterEach ==
  \A c \in Client :
    /\ Asks(c) \/ Blocked(c) \/ Answers(c) => c \in waiting
    /\ ~ (Asks(c) /\ Blocked(c))
    /\ ~ (Asks(c) /\ Answers(c))
    /\ ~ (Blocked(c) /\ Answers(c))

AllocInv == AllocTypeOK /\ OneRegisterEach
============================================================================

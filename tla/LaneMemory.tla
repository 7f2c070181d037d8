----------------------------- MODULE LaneMemory -----------------------------
(***************************************************************************)
(* The memory that the lanes of one core complex would like to see: each   *)
(* request a lane makes takes effect at the one moment it is answered, and *)
(* a read is answered with the value last written, whichever lane wrote    *)
(* it.  Several lanes may ask in one step, and reads by several lanes may  *)
(* be answered together.                                                   *)
(***************************************************************************)
CONSTANTS Lane, Addr, Value, InitValue, NoReq

Op == [kind : {"read", "write"}, addr : Addr, val : Value]

VARIABLES
  pending,  \* pending[i]: the request lane i waits for, or NoReq
  answer,   \* answer[i]: the value the last answer to lane i carried
  mem       \* mem[a]: the value last written to a

Init ==
  /\ pending = [i \in Lane |-> NoReq]
  /\ answer = [i \in Lane |-> InitValue]
  /\ mem = [a \in Addr |-> InitValue]

(* Lanes that wait for nothing ask. *)
Request ==
  /\ \A i \in Lane :
       pending'[i] # pending[i] => pending[i] = NoReq /\ pending'[i] \in Op
  /\ answer' = [i \in Lane |-> IF pending'[i] = pending[i] THEN answer[i]
                               ELSE InitValue]
  /\ UNCHANGED mem

AnswerWrite(i) ==
  /\ pending[i] # NoReq /\ pending[i].kind = "write"
  /\ mem' = [mem EXCEPT ![pending[i].addr] = pending[i].val]
  /\ answer' = [answer EXCEPT ![i] = pending[i].val]
  /\ pending' = [pending EXCEPT ![i] = NoReq]

AnswerReads(S) ==
  /\ S # {}
  /\ \A i \in S : pending[i] # NoReq /\ pending[i].kind = "read"
  /\ pending' = [i \in Lane |-> IF i \in S THEN NoReq ELSE pending[i]]
  /\ answer' = [i \in Lane |->
                  IF i \in S THEN mem[pending[i].addr] ELSE answer[i]]
  /\ UNCHANGED mem

Next ==
  \/ Request
  \/ \E i \in Lane : AnswerWrite(i)
  \/ \E S \in SUBSET Lane : AnswerReads(S)

Spec == Init /\ [][Next]_<<pending, answer, mem>>
============================================================================

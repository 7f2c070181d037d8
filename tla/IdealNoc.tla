------------------------------ MODULE IdealNoc ------------------------------
(***************************************************************************)
(* The NoC of src/src/ideal_noc.c: an input and an output register per     *)
(* attached element, both indexed by the element a packet is addressed to. *)
(***************************************************************************)
EXTENDS Registers

CONSTANTS
  Elem,     \* the elements attached to the NoC
  latency,  \* the latency it is created with
  Prompt,   \* TRUE if elements finish a packet before the NoC's next clock
  Flows,    \* pairs <<src, to>> of elements that exchange packets
  MaxSend   \* bound: packets element e sends, MaxSend[e]

VARIABLES
  in, out,  \* in[e], out[e]: the registers for packets to element e
  counter,  \* the latency counter
  rx,       \* rx[e]: the packet element e received and is busy with
  count     \* count[e]: packets element e has sent

vars == <<in, out, counter, rx, count>>

Endpoint == {f[1] : f \in Flows} \cup {f[2] : f \in Flows}
Packet == [src : Endpoint, to : Endpoint, id : Nat, stamp : Nat]

Init ==
  /\ in = [e \in Elem |-> NoPkt]
  /\ out = [e \in Elem |-> NoPkt]
  /\ counter = 0
  /\ rx = [e \in Endpoint |-> NoPkt]
  /\ count = [e \in Endpoint |-> 0]

(* An element SENDs a packet; the register of the addressed element takes  *)
(* it whoever sends it.  EBUSY changes nothing.                            *)
ideal_noc_receive(s, t) ==
  /\ count[s] < MaxSend[s]
  /\ ~ busy(in[t])
  /\ in' = [in EXCEPT ![t] =
              [src |-> s, to |-> t, id |-> count[s], stamp |-> counter]]
  /\ count' = [count EXCEPT ![s] = @ + 1]
  /\ UNCHANGED <<out, counter, rx>>

(* The counter is computed for the decision and not stored. *)
due == latency = 0 \/ (counter + 1) % latency = 0

(* An output holding an older packet keeps it, any other one is written.   *)
loaded(e) ==
  busy(in[e]) /\ ~ (busy(out[e]) /\ out[e].stamp < in[e].stamp)

ideal_noc_clock ==
  /\ Prompt => \A e \in Endpoint : ~ busy(rx[e])
  /\ IF due
     THEN LET full == [e \in Elem |-> IF loaded(e) THEN in[e] ELSE out[e]]
              taken == {e \in Elem : busy(full[e]) /\ ~ busy(rx[e])}
          IN  /\ in' = [e \in Elem |-> IF loaded(e) THEN NoPkt ELSE in[e]]
              /\ out' = [e \in Elem |-> IF e \in taken THEN NoPkt ELSE full[e]]
              /\ rx' = [e \in Endpoint |-> IF e \in taken THEN full[e]
                                           ELSE rx[e]]
     ELSE UNCHANGED <<in, out, rx>>
  /\ UNCHANGED <<counter, count>>

(* An element is done with a packet; until then it answers EBUSY. *)
Consume(e) ==
  /\ busy(rx[e])
  /\ rx' = [rx EXCEPT ![e] = NoPkt]
  /\ UNCHANGED <<in, out, counter, count>>

Next ==
  \/ ideal_noc_clock
  \/ \E f \in Flows : ideal_noc_receive(f[1], f[2])
  \/ \E e \in Endpoint : Consume(e)

(* As in Mesh: the scheduler clocks the NoC, and elements finish. *)
Fairness ==
  /\ WF_vars(ideal_noc_clock)
  /\ \A e \in Endpoint : WF_vars(Consume(e))

Spec == Init /\ [][Next]_vars /\ Fairness

----------------------------------------------------------------------------
InFlight ==
  ({in[e] : e \in Elem} \cup {out[e] : e \in Elem}) \ {NoPkt}

Shown(pkt) ==
  IF pkt = NoPkt THEN NoPkt
  ELSE [src |-> pkt.src, to |-> pkt.to, id |-> pkt.id]

Promised == INSTANCE Network WITH
  flight <- {Shown(p) : p \in InFlight},
  rx <- [e \in Endpoint |-> Shown(rx[e])]

(* Between elements that never refuse a packet, what the NoC delivers it   *)
(* delivers once and in order per pair of elements: NetworkProofs.         *)
ImplementsNetwork == Promised!Spec

(* Oldest first: a packet that waits at the output of an element leaves it *)
(* only to that element, not because a younger one takes its place.        *)
OldestFirst ==
  [][\A e \in Elem : busy(out[e]) /\ out'[e] # out[e] => rx'[e] = out[e]]_vars
============================================================================

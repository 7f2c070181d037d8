------------------------------ MODULE Network ------------------------------
(***************************************************************************)
(* What a network promises the components it connects, however it routes:  *)
(* a packet one endpoint hands over comes out once, at the endpoint it is  *)
(* addressed to, and packets from one endpoint to another come out in the  *)
(* order they were handed over.  The caches rely on both: a read must not  *)
(* overtake the write before it, and a response must answer one request.   *)
(***************************************************************************)
EXTENDS Integers

CONSTANTS
  Flows,    \* the pairs <<src, to>> of endpoints that exchange packets
  MaxSend,  \* bound: packets endpoint e hands over, MaxSend[e]
  NoPkt     \* what an endpoint with nothing received holds

Endpoint == {f[1] : f \in Flows} \cup {f[2] : f \in Flows}
Packet == [src : Endpoint, to : Endpoint, id : Nat]

VARIABLES
  flight,  \* packets handed over and not yet delivered
  rx,      \* rx[e]: the packet endpoint e received and is busy with
  count    \* count[e]: packets endpoint e has handed over

Init ==
  /\ flight = {}
  /\ rx = [e \in Endpoint |-> NoPkt]
  /\ count = [e \in Endpoint |-> 0]

Send(s, t) ==
  /\ <<s, t>> \in Flows
  /\ count[s] < MaxSend[s]
  /\ flight' = flight \cup {[src |-> s, to |-> t, id |-> count[s]]}
  /\ count' = [count EXCEPT ![s] = @ + 1]
  /\ UNCHANGED rx

(* What a delivery takes out of flight: the oldest packets of their flows, *)
(* for endpoints that are free.                                            *)
deliverable(p, F) ==
  /\ rx[p.to] = NoPkt
  /\ \A q \in F : q.src = p.src /\ q.to = p.to => p.id <= q.id

(* One step may deliver to several endpoints, one packet to each. *)
Deliver ==
  \E F \in {flight}, G \in {flight'} :
  \E P \in {F \ G} :
    /\ G \subseteq F
    /\ P # {}
    /\ \A p \in P : deliverable(p, F)
    /\ \A p, q \in P : p.to = q.to => p = q
    /\ rx' = [e \in Endpoint |->
                IF \E p \in P : p.to = e THEN CHOOSE p \in P : p.to = e
                ELSE rx[e]]
    /\ UNCHANGED count

Consume(e) ==
  /\ rx[e] # NoPkt
  /\ rx' = [rx EXCEPT ![e] = NoPkt]
  /\ UNCHANGED <<flight, count>>

(* An endpoint that answers is free again when its answer is handed over.  *)
(* It answers as often as it is asked, so that this needs no bound.        *)
Reply(e) ==
  /\ rx[e] # NoPkt
  /\ <<e, rx[e].src>> \in Flows
  /\ flight' = flight \cup {[src |-> e, to |-> rx[e].src, id |-> count[e]]}
  /\ count' = [count EXCEPT ![e] = @ + 1]
  /\ rx' = [rx EXCEPT ![e] = NoPkt]

Next ==
  \/ \E f \in Flows : Send(f[1], f[2])
  \/ Deliver
  \/ \E e \in Endpoint : Consume(e) \/ Reply(e)

Spec == Init /\ [][Next]_<<flight, rx, count>>
============================================================================

----------------------------- MODULE MCIdealNoc -----------------------------
(* Two senders compete for one element, and it answers one of them. *)
EXTENDS IdealNoc

MCFlows == {<<0, 2>>, <<1, 2>>, <<2, 0>>}

MCMaxSend == [e \in Endpoint |-> 3]
============================================================================

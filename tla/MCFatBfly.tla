----------------------------- MODULE MCFatBfly -----------------------------
(* Four elements: the two of one leaf and one of the other compete for     *)
(* element 2, and element 2 answers the first.                             *)
EXTENDS FatBfly

MCFlows == {<<0, 2>>, <<1, 2>>, <<3, 2>>, <<2, 0>>}

MCMaxSend == [e \in Endpoint |-> IF e = 0 THEN 2 ELSE 1]
============================================================================

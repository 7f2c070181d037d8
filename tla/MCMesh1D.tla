----------------------------- MODULE MCMesh1D -------------------------------
(* One memory in the first of two clusters, with two clients beside it and *)
(* two in the next cluster: as many requests as the cycle takes, from      *)
(* clients that wait for their answers as the cores do.                    *)
EXTENDS Mesh1D

MCMem == {<<0, 2>>}
MCClient == {<<0, 0>>, <<0, 1>>, <<1, 0>>, <<1, 1>>}

MCFlows == (MCClient \X MCMem) \cup (MCMem \X MCClient)

(* One request of a client; a memory only answers.                         *)
MCMaxSend == [e \in MCClient \cup MCMem |-> IF e \in MCMem THEN 0 ELSE 1]
============================================================================

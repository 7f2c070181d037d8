----------------------------- MODULE MCMesh3D ------------------------------
(* A box of two nodes a side with one endpoint per node: the longest route *)
(* with a flow that joins it halfway, and packets between the four corners *)
(* of a side that would fill each other's links if they turned either way. *)
EXTENDS Mesh3D

At(x, y, z) == <<<<x, y, z>>, 0>>

MCFlows == {<<At(0, 0, 0), At(1, 1, 1)>>, <<At(0, 1, 0), At(1, 1, 1)>>,
            <<At(1, 1, 0), At(0, 0, 0)>>, <<At(0, 1, 0), At(1, 0, 0)>>,
            <<At(1, 0, 0), At(0, 1, 0)>>, <<At(1, 1, 1), At(1, 1, 0)>>}

MCMaxSend == [e \in UNION {{f[1], f[2]} : f \in MCFlows} |-> 1]
============================================================================

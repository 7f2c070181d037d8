----------------------------- MODULE MCMesh2D ------------------------------
(* A two by two grid with one endpoint per node, as in the mesh2d test:    *)
(* two flows compete for the last link, and a third comes back through the *)
(* node where the first one turns.                                         *)
EXTENDS Mesh2D

At(x, y) == <<<<x, y>>, 0>>

MCFlows == {<<At(0, 0), At(1, 1)>>, <<At(0, 1), At(1, 1)>>,
            <<At(1, 1), At(0, 0)>>}

MCMaxSend ==
  [e \in UNION {{f[1], f[2]} : f \in MCFlows} |->
     IF e = At(1, 1) THEN 1 ELSE 2]
============================================================================

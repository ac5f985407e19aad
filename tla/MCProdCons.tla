---------------------------- MODULE MCProdCons ----------------------------
(* A small instance of ProdCons: as in the source, the producers together  *)
(* make exactly N values and the consumers together take them all.         *)
EXTENDS ProdCons, TLC
CONSTANTS p1, p2, c1, c2
MCProducers == {p1, p2}
MCConsumers == {c1, c2}
MCChildren  == <<c1, c2, p1, p2>>
MCCount     == (p1 :> 2) @@ (p2 :> 2) @@ (c1 :> 1) @@ (c2 :> 3)
MCBase      == (p1 :> 10) @@ (p2 :> 20)
=============================================================================

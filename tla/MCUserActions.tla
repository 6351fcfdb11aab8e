------------------------------ MODULE MCUserActions ------------------------------
(* UserActions for TLC: a map with few layers, tables and widgets. States that *)
(* differ only in the ids of the layers, or in the order of the analyses, of   *)
(* which there is at most one of a letter, are taken for one.                  *)
EXTENDS UserActions

Shape ==
    <<nodes, [p \in Positions |-> <<layers[p].letter, layers[p].source>>],
      ToSet(analyses), widgets,
      {[r EXCEPT !.lid = 0] : r \in requests}>>
=================================================================================

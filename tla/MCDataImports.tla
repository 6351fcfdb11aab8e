--------------------------- MODULE MCDataImports ----------------------------
(***************************************************************************)
(* Model values for the imports of a user: the configurations say how many *)
(* imports, requests, workers and polls there are.                         *)
(***************************************************************************)
EXTENDS DataImports
=============================================================================

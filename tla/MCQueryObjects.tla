----------------------------- MODULE MCQueryObjects -----------------------------
(* QueryObjects for TLC: two queries, so that the one applied first may come    *)
(* back while the answers of the other are under way.                           *)
EXTENDS QueryObjects
=================================================================================

----------------------------- MODULE MCImportPolling -----------------------------
(* ImportPolling for TLC: few items and imports. *)
EXTENDS ImportPolling
=================================================================================

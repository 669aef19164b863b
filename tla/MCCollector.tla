---------------------------- MODULE MCCollector -----------------------------
(* One session; its events are of every kind.                                 *)
EXTENDS Collector

MCKind == {"observe", "foreign", "body", "attach"}
=============================================================================

---------------------------- MODULE MCSancusFiles ----------------------------
(* SancusFiles on small instances. *)
EXTENDS SancusFiles
=============================================================================

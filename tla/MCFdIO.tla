------------------------------- MODULE MCFdIO -------------------------------
(* FdIO on small instances. *)
EXTENDS FdIO
=============================================================================

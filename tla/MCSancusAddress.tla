--------------------------- MODULE MCSancusAddress ---------------------------
(* SancusAddress on small instances. *)
EXTENDS SancusAddress

MCPorts == {0, 9, 443, 65535, 65536, 65616}
=============================================================================

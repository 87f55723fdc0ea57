----------------------------- MODULE MCSancusLog -----------------------------
(* SancusLog on small instances. *)
EXTENDS SancusLog, TLC

MCNames == {Null, <<" ">>, <<"x", " ">>}
MCTraces == {<<"x", " ">>, <<"x", "x", "x", "x">>}
=============================================================================

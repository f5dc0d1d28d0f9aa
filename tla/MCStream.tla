------------------------------ MODULE MCStream ------------------------------
(* Stream for TLC: a protocol whose plugin knows its frames and one whose  *)
(* plugin does not.                                                        *)
EXTENDS Stream

MCProtocols == <<"H", "G">>

=============================================================================

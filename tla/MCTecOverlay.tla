---------------------------- MODULE MCTecOverlay ----------------------------
(* TecOverlay for TLC: two plugins, found in the order global, regional.   *)
EXTENDS TecOverlay

MCOrder == <<"global", "regional">>

=============================================================================

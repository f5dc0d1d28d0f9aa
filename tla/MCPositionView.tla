--------------------------- MODULE MCPositionView ---------------------------
(* PositionView for TLC.                                                   *)
EXTENDS PositionView

=============================================================================

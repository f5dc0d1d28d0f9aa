----------------------------- MODULE MCFileSend -----------------------------
(* FileSend for TLC: two transports, of which either may be open.          *)
EXTENDS FileSend

CONSTANTS uart, tcp

MCTransports == {uart, tcp}

=============================================================================

-------------------------- MODULE MCNmeaSatellites --------------------------
(* NmeaSatellites for TLC: two GPS satellites and an SBAS one (raw 40).    *)
EXTENDS NmeaSatellites, TLC

MCTracked == (0 :> {4, 5}) @@ (1 :> {4, 40}) @@ (6 :> {4})

=============================================================================

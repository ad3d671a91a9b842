-------------------------- MODULE MCBeaconScanner --------------------------
(***************************************************************************)
(* TLC instance of BeaconScanner: two beacons, of two subscribers.         *)
(***************************************************************************)
EXTENDS BeaconScanner, TLC

CONSTANTS b1, b2, s1, s2

MCOwner == (b1 :> s1) @@ (b2 :> s2)

=============================================================================

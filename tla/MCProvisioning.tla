--------------------------- MODULE MCProvisioning ---------------------------
(***************************************************************************)
(* TLC instances of Provisioning: two subscriptions, of two subscribers or *)
(* of the same one.                                                        *)
(***************************************************************************)
EXTENDS Provisioning, TLC

CONSTANTS b1, b2, s1, s2

MCOwner       == (b1 :> s1) @@ (b2 :> s2)
MCSharedOwner == (b1 :> s1) @@ (b2 :> s1)
MCOwnerOfOne  == b1 :> s1

=============================================================================

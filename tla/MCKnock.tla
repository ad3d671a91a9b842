------------------------------ MODULE MCKnock ------------------------------
(***************************************************************************)
(* TLC instances of Knock: a command may ask for no source filter, or for  *)
(* the address somebody logs in from.                                      *)
(***************************************************************************)
EXTENDS Knock

CONSTANTS AnySource, ip1, ip2

MCSources == {AnySource, ip1}

=============================================================================

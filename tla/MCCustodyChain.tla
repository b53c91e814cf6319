--------------------------- MODULE MCCustodyChain ---------------------------
(* Small instances of CustodyChain for TLC. *)
EXTENDS CustodyChain

MCIds == 1..MaxEvents
=============================================================================

------------------------- MODULE MCReliableClients -------------------------
(***************************************************************************)
(* Instances of ReliableClients for TLC.                                   *)
(***************************************************************************)
EXTENDS ReliableClients
=============================================================================

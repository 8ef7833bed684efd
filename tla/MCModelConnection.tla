--------------------------- MODULE MCModelConnection ---------------------------
(***************************************************************************)
(* A small instance of ModelConnection: the gateway and the Secret it       *)
(* mounts, created in one order and deleted in the other.                   *)
(***************************************************************************)
EXTENDS ModelConnection

CONSTANTS c1, c2, d1, d2, p1

MCCreateOrder == <<"Secret", "Deployment">>
MCDeleteOrder == <<"Deployment", "Secret">>
==============================================================================

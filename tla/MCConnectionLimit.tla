-------------------------- MODULE MCConnectionLimit --------------------------
(***************************************************************************)
(* ConnectionLimit for TLC.                                                *)
(***************************************************************************)
EXTENDS ConnectionLimit

CONSTANTS c1, c2, c3, c4

===============================================================================

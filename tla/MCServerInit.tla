---------------------------- MODULE MCServerInit ----------------------------
(* Server start on a small instance; all values are given in the .cfg files. *)
EXTENDS ServerInit
=============================================================================

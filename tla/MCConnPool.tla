----------------------------- MODULE MCConnPool -----------------------------
(***************************************************************************)
(* ConnPool for TLC.                                                       *)
(***************************************************************************)
EXTENDS ConnPool

CONSTANTS c1, c2, s1, s2, s3

=============================================================================

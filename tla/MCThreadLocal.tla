---------------------------- MODULE MCThreadLocal ----------------------------
(***************************************************************************)
(* ThreadLocal for TLC.                                                    *)
(***************************************************************************)
EXTENDS ThreadLocal

CONSTANTS w1, w2, s1, s2

===============================================================================

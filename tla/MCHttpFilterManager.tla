------------------------- MODULE MCHttpFilterManager -------------------------
(* Instances of HttpFilterManager for TLC: two filters and the terminal    *)
(* one.                                                                    *)
EXTENDS HttpFilterManager
=============================================================================

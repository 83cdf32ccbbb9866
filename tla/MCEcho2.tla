-------------------------------- MODULE MCEcho2 --------------------------------
(***************************************************************************)
(* Echo2 for TLC, with and without early close detection.                  *)
(***************************************************************************)
EXTENDS Echo2

EchoConfigs ==
    {g \in ConfigType : /\ ~g.client /\ g.error = "none"
                        /\ ~g.halfClose /\ ~g.delayedTimeout}

===============================================================================

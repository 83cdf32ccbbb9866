----------------------------- MODULE MCConnection -----------------------------
(***************************************************************************)
(* Connection for TLC: the configurations of the runs.                     *)
(***************************************************************************)
EXTENDS Connection

\* Accepted connections, with and without half-close and a delayed close
\* timeout.
ServerConfigs ==
    {g \in ConfigType : ~g.client /\ g.error = "none" /\ (g.earlyClose \/ ~g.halfClose)}

\* Connections being established, and those the constructor or connect()
\* failed to set up.
ClientConfigs ==
    {g \in ConfigType : g.client /\ g.earlyClose /\ ~g.halfClose}

AllConfigs == ServerConfigs \cup ClientConfigs

===============================================================================

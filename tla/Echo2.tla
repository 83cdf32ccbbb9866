--------------------------------- MODULE Echo2 ---------------------------------
(***************************************************************************)
(* The Echo2 filter (echo2.h, echo2.cc, echo2_config.cc) on an accepted    *)
(* connection.  It is the terminal, here the only, read filter; half-close *)
(* and the delayed close timeout are off as nothing turns them on.         *)
(***************************************************************************)
EXTENDS Connection

ASSUME EchoAssumption ==
    /\ NumFilters = 1
    /\ \A g \in Configs : ~g.client /\ g.error = "none" /\ ~g.halfClose /\ ~g.delayedTimeout

OnNewConnection ==
    /\ Running("onNewConnection")
    /\ FilterReturns("Continue")

\* Mutant of OnData: the data is copied into the write instead of moved.
OnDataCopies ==
    /\ Running("onData")
    /\ conn' = Write(conn, conn.readBuf, FALSE)
    /\ hist' = [hist EXCEPT !.written = @ + conn.readBuf]
    /\ stack' = Return
    /\ filters' = [filters EXCEPT !.stopped[Top.i] = TRUE]
    /\ UNCHANGED <<sock, raised>>

\* onData: connection().write(data, false) moves the whole read buffer into
\* the write buffer, and iteration stops.
OnData ==
    /\ Running("onData")
    /\ conn' = IF State(conn) = "Open"
               THEN Write(DrainRead(conn, conn.readBuf), conn.readBuf, FALSE)
               ELSE conn
    /\ hist' = [hist EXCEPT !.written = @ + (IF State(conn) = "Open"
                                             THEN conn.readBuf ELSE 0)]
    /\ stack' = Return
    /\ filters' = [filters EXCEPT !.stopped[Top.i] = TRUE]
    /\ UNCHANGED <<sock, raised>>

\* The listener goes away and closes its connections.
ListenerCloses ==
    /\ Idle
    /\ UserClose("NoFlush")

EchoNext ==
    \/ Handlers
    \/ Kernel
    \/ OnNewConnection
    \/ OnData
    \/ ListenerCloses

EchoSpec == Init /\ [][EchoNext]_vars

\* The dispatcher runs what is ready, callbacks return, the client reads what
\* it is sent.
EchoFairness ==
    /\ Fairness
    /\ WF_vars(OnNewConnection) /\ WF_vars(OnData)
    /\ WF_vars(PeerReads)

FairEchoSpec == EchoSpec /\ EchoFairness

-------------------------------------------------------------------------------

\* The filter on top of the connection implements the echo service.
Service == INSTANCE EchoService
               WITH received <- hist.received, sent <- hist.sent, open <- conn.open

ImplementsEchoService == Service!Spec

\* Every byte is echoed in the end, unless the connection closes first.
EchoesInTheEnd ==
    \A n \in 1 .. MaxReceive :
        (hist.received >= n) ~> (hist.sent >= n \/ ~conn.open)

\* echo_filter.rst: "it will echo (write) all received data back to the
\* connected downstream client", said of a client that sends, finishes its
\* side, and neither resets the connection nor stops reading.
EchoesBeforeClose ==
    raised = <<"RemoteClose">> /\ ~sock.reset => hist.sent = hist.received

===============================================================================

------------------------------ MODULE Connection ------------------------------
(***************************************************************************)
(* Network::ConnectionImpl with its read filter chain, its raw transport   *)
(* socket, the file event that drives it and the delayed close timer       *)
(* (envoy/source/common/network, common/event).                            *)
(*                                                                         *)
(* Everything here runs on one dispatcher thread, so a handler is          *)
(* interrupted only where it calls filters or connection callbacks: the    *)
(* call stack of the handler is a variable, and the code that is called    *)
(* back may do anything the API lets it do before it returns.  The kernel  *)
(* and the peer move at any time.  Bytes are counted: both buffers are     *)
(* queues, the n-th byte in is the n-th byte out.                          *)
(***************************************************************************)
EXTENDS Integers, Sequences

CONSTANTS
    NumFilters,     \* read filters installed, in order 1 .. NumFilters
    Limit,          \* setBufferLimits; 0 means no limit
    Configs,        \* the configurations of the connections: see ConfigType
    SendRoom,       \* bytes the kernel's send queue takes
    MaxReceive,     \* bound: bytes the peer sends
    MaxWrite,       \* bound: bytes written by the users of the connection
    MaxDisable      \* bound: readDisable(true) calls outstanding

Events == {"Read", "Write", "Closed"}           \* Event::FileReadyType
ConnectionEvents == {"Connected", "LocalClose", "RemoteClose"}
CloseTypes == {"FlushWrite", "NoFlush", "FlushWriteAndDelay"}
Filters == 1 .. NumFilters

\* How the connection was set up: accepted or being connected, the error that
\* the constructor or connect() met ("none" without one), half-close
\* semantics, early close detection, a delayed close timeout that is not 0.
ConfigType ==
    [client : BOOLEAN, error : {"none", "LocalClose", "RemoteClose"},
     halfClose : BOOLEAN, earlyClose : BOOLEAN, delayedTimeout : BOOLEAN]

ASSUME ConnectionAssumption ==
    /\ NumFilters \in Nat
    /\ Limit \in Nat
    /\ Configs \subseteq ConfigType
    /\ \A g \in Configs : g.error # "none" => g.client
    /\ SendRoom \in Nat
    /\ MaxReceive \in Nat
    /\ MaxWrite \in Nat
    /\ MaxDisable \in Nat

VARIABLES
    conn,       \* the members of ConnectionImpl, RawBufferSocket, FileEventImpl
    sock,       \* the kernel's end of the socket and the peer
    stack,      \* the handler's call stack, the running frame last
    filters,    \* ActiveReadFilter::initialized_, and who stopped iteration
    raised,     \* history: events raised to the ConnectionCallbacks
    hist        \* history: bytes and read disables of the users, see Init

vars == <<conn, sock, stack, filters, raised, hist>>

-------------------------------------------------------------------------------
(* The methods of ConnectionImpl that other methods call, as functions of  *)
(* the members c.                                                          *)

State(c) ==
    IF ~c.open THEN "Closed" ELSE IF c.delayed # "None" THEN "Closing" ELSE "Open"

\* FileEventImpl::setEnabled forgets injected events; registering the fd anew
\* makes epoll look at its readiness again.
EnableFileEvents(c, mask) ==
    [c EXCEPT !.enabled = mask, !.armed = TRUE, !.injected = {}]

\* FileEventImpl::activate.
ActivateFileEvents(c, event) == [c EXCEPT !.injected = @ \cup {event}]

FilterChainWantsData(c) == c.disabled = 0 \/ (c.disabled = 1 /\ c.readHigh)

\* readDisable(true).
ReadDisable(c) ==
    LET d == [c EXCEPT !.disabled = @ + 1] IN
    IF State(d) # "Open" \/ d.disabled > 1
    THEN d
    ELSE EnableFileEvents(d, IF d.earlyClose /\ ~d.halfClose
                             THEN {"Write", "Closed"} ELSE {"Write"})

\* Mutant of ReadEnable: the read event is activated before the events are
\* enabled, which drops it.
ReadEnableActivatesFirst(c) ==
    LET d == [c EXCEPT !.disabled = @ - 1]
        e == IF FilterChainWantsData(d) /\ (d.readBuf > 0 \/ d.transportWantsRead)
             THEN ActivateFileEvents([d EXCEPT !.dispatchBuffered = TRUE], "Read")
             ELSE d
    IN  IF State(d) # "Open" THEN d
        ELSE IF d.disabled = 0 THEN EnableFileEvents(e, {"Read", "Write"})
        ELSE e

\* readDisable(false).
ReadEnable(c) ==
    LET d == [c EXCEPT !.disabled = @ - 1]
        e == IF d.disabled = 0 THEN EnableFileEvents(d, {"Read", "Write"}) ELSE d
    IN  IF State(d) # "Open" THEN d
        ELSE IF FilterChainWantsData(e) /\ (e.readBuf > 0 \/ e.transportWantsRead)
        THEN ActivateFileEvents([e EXCEPT !.dispatchBuffered = TRUE], "Read")
        ELSE e

\* WatermarkBuffer: the high watermark is Limit, the low one half of it.
IsAboveHigh(len) == Limit # 0 /\ len > Limit
IsBelowLow(len) == Limit = 0 \/ len <= Limit \div 2

\* n bytes into the read buffer, with onReadBufferHighWatermark.
AppendRead(c, n) ==
    LET d == [c EXCEPT !.readBuf = @ + n] IN
    IF ~d.readHigh /\ IsAboveHigh(d.readBuf)
    THEN LET e == [d EXCEPT !.readHigh = TRUE]
         IN  IF State(e) = "Open" THEN ReadDisable(e) ELSE e
    ELSE d

\* Mutant of DrainRead: nobody listens to the low watermark.
DrainReadSilently(c, n) ==
    LET d == [c EXCEPT !.readBuf = @ - n]
    IN  [d EXCEPT !.readHigh = @ /\ ~ IsBelowLow(d.readBuf)]

\* n bytes out of the read buffer, with onReadBufferLowWatermark.
DrainRead(c, n) ==
    LET d == [c EXCEPT !.readBuf = @ - n] IN
    IF d.readHigh /\ IsBelowLow(d.readBuf)
    THEN LET e == [d EXCEPT !.readHigh = FALSE]
         IN  IF State(e) = "Open" THEN ReadEnable(e) ELSE e
    ELSE d

\* The write buffer; its watermark callbacks go to the ConnectionCallbacks.
AppendWrite(c, n) ==
    [c EXCEPT !.writeBuf = @ + n,
              !.writeHigh = @ \/ IsAboveHigh(c.writeBuf + n)]

DrainWrite(c, n) ==
    [c EXCEPT !.writeBuf = @ - n,
              !.writeHigh = @ /\ ~ IsBelowLow(c.writeBuf - n)]

\* Mutant of SetTransportSocketIsReadable: the wish is noted, nobody is woken.
SetTransportSocketIsReadableQuietly(c) == [c EXCEPT !.transportWantsRead = TRUE]

\* The transport socket stopped reading before the kernel's queue was empty.
SetTransportSocketIsReadable(c) ==
    LET d == [c EXCEPT !.transportWantsRead = TRUE]
    IN  IF d.disabled = 0 THEN ActivateFileEvents(d, "Read") ELSE d

\* The event loop forgets the fd and the write buffer is drained; the read
\* buffer and read_disable_count_ stay as they are.
CloseSocket(c) ==
    IF ~c.open THEN c
    ELSE [DrainWrite(c, c.writeBuf) EXCEPT
             !.open = FALSE, !.timer = FALSE,
             !.enabled = {}, !.armed = FALSE, !.injected = {}]

BothSidesHalfClosed(c) == c.readEnd /\ c.writeEnd /\ c.writeBuf = 0

\* RawBufferSocket::doWrite writes until the buffer is empty or the kernel's
\* queue is full; then it shuts down the write side at the end of the stream.
Writable(c, s) ==
    IF s.state # "up" \/ s.reset THEN 0
    ELSE IF c.writeBuf < s.room THEN c.writeBuf ELSE s.room

WriteFails(c, s) == c.writeBuf > 0 /\ (s.reset \/ s.state = "failed")

\* Mutant of DoWrite: the write side is shut down while bytes are left.
DoWriteShutsDownEarly(c, s, endStream) ==
    [DrainWrite(c, Writable(c, s)) EXCEPT !.shutdown = @ \/ endStream]

DoWrite(c, s, endStream) ==
    LET d == DrainWrite(c, Writable(c, s))
    IN  [d EXCEPT !.shutdown = @ \/ (endStream /\ d.writeBuf = 0)]

\* Mutant of Close: FlushWriteAndDelay waits although no timeout is set.
CloseWaitsWithoutTimer(c, s, type) ==
    IF ~c.open THEN c
    ELSE IF c.writeBuf = 0 \/ type = "NoFlush"
    THEN CloseSocket(IF c.writeBuf > 0 THEN DoWrite(c, s, TRUE) ELSE c)
    ELSE LET d == [c EXCEPT !.delayed = IF type = "FlushWrite"
                                        THEN "CloseAfterFlush"
                                        ELSE "CloseAfterFlushAndWait"]
         IN  IF c.delayed # "None" THEN d
             ELSE EnableFileEvents([d EXCEPT !.timer = c.delayedTimeout],
                                   IF c.halfClose THEN {"Write"} ELSE {"Write", "Closed"})

\* Mutant of Close: a connection with bytes to flush is not registered for
\* write events.
CloseForgetsWriteEvent(c, s, type) ==
    IF ~c.open THEN c
    ELSE IF c.writeBuf = 0 \/ type = "NoFlush"
    THEN CloseSocket(IF c.writeBuf > 0 THEN DoWrite(c, s, TRUE) ELSE c)
    ELSE EnableFileEvents([c EXCEPT !.delayed = "CloseAfterFlush"],
                          IF c.halfClose THEN {} ELSE {"Closed"})

\* close(type): at once, or when the write buffer is flushed, or after the
\* delayed close timeout.
Close(c, s, type) ==
    IF ~c.open THEN c
    ELSE IF c.writeBuf = 0 \/ type = "NoFlush"
    THEN LET d == IF c.writeBuf > 0 THEN DoWrite(c, s, TRUE) ELSE c
         IN  IF type # "FlushWriteAndDelay" \/ ~c.delayedTimeout
             THEN CloseSocket(d)
             ELSE IF c.delayed # "None" THEN d
             ELSE EnableFileEvents([d EXCEPT !.timer = TRUE,
                                             !.delayed = "CloseAfterFlushAndWait"],
                                   IF c.halfClose THEN {} ELSE {"Closed"})
    ELSE LET d == [c EXCEPT !.delayed = IF type = "FlushWrite" \/ ~c.delayedTimeout
                                        THEN "CloseAfterFlush"
                                        ELSE "CloseAfterFlushAndWait"]
         IN  IF c.delayed # "None" THEN d
             ELSE EnableFileEvents([d EXCEPT !.timer = c.delayedTimeout],
                                   IF c.halfClose THEN {"Write"} ELSE {"Write", "Closed"})

\* Mutant of Write: the write event is activated on a connecting socket too.
WriteAlwaysActivates(c, n, endStream) ==
    ActivateFileEvents([AppendWrite(c, n) EXCEPT !.writeEnd = endStream], "Write")

\* Mutant of Write: it is left to the kernel to report a write event.
WriteNeverActivates(c, n, endStream) ==
    [AppendWrite(c, n) EXCEPT !.writeEnd = endStream]

\* write(): what the write filters let through goes into the write buffer.
\* Before the connection is up no write event is activated.
Write(c, n, endStream) ==
    LET d == [AppendWrite(c, n) EXCEPT !.writeEnd = endStream]
    IN  IF c.connecting \/ (n = 0 /\ ~endStream) THEN d
        ELSE ActivateFileEvents(d, "Write")

-------------------------------------------------------------------------------
(* Frames of the call stack.                                               *)

Frame(fn, i) == [fn |-> fn, i |-> i]

\* Frames in which the connection waits for code it called back to return.
CallbackNames == {"onNewConnection", "onData", "onConnected"}

FrameNames == CallbackNames \cup
    {"onContinueReading", "onWriteReady", "afterConnected",
     "flushWriteBuffer", "onReadReady", "closeIfDone", "closeRemote"}

Top == stack[Len(stack)]
Return == SubSeq(stack, 1, Len(stack) - 1)
Running(fn) == stack # <<>> /\ Top.fn = fn
Idle == stack = <<>>

\* User code runs in a callback, or in another event of the same dispatcher.
UserRuns == ~Idle => Top.fn \in CallbackNames

\* The kernel's view of the fd (epoll, as libevent maps it).
Ready(s) ==
    IF s.state = "pending" THEN {}
    ELSE IF s.state = "failed" \/ s.reset THEN {"Read", "Write"}
    ELSE (IF s.rx > 0 \/ s.fin THEN {"Read"} ELSE {})
         \cup (IF s.room > 0 THEN {"Write"} ELSE {})
         \cup (IF s.fin THEN {"Closed"} ELSE {})

Init ==
    \E g \in Configs :
        /\ conn = [open |-> TRUE,
                   connecting |-> g.client /\ g.error # "RemoteClose",
                   immediateError |-> g.error,
                   halfClose |-> g.halfClose, earlyClose |-> g.earlyClose,
                   delayedTimeout |-> g.delayedTimeout,
                   delayed |-> "None", timer |-> FALSE,
                   readBuf |-> 0, readHigh |-> FALSE,
                   writeBuf |-> 0, writeHigh |-> FALSE,
                   disabled |-> 0,
                   readEnd |-> FALSE, readEndRaised |-> FALSE,
                   writeEnd |-> FALSE, shutdown |-> FALSE,
                   dispatchBuffered |-> FALSE, transportWantsRead |-> FALSE,
                   enabled |-> {"Read", "Write"}, armed |-> TRUE,
                   injected |-> IF g.error # "none" THEN {"Write"} ELSE {}]
        /\ sock = [state |-> IF ~g.client THEN "up"
                             ELSE IF g.error # "none" THEN "failed" ELSE "pending",
                   rx |-> 0, fin |-> FALSE, reset |-> FALSE, room |-> SendRoom]
        \* initializeReadFilters()
        /\ stack = <<Frame("onContinueReading", 1)>>
        /\ filters = [initialized |-> [i \in Filters |-> FALSE],
                      stopped |-> [i \in Filters |-> FALSE],
                      ended |-> [i \in Filters |-> 0]]
        /\ raised = <<>>
        /\ hist = [received |-> 0, written |-> 0, sent |-> 0, disables |-> 0]

-------------------------------------------------------------------------------
(* Handlers.                                                               *)

\* Mutant of Becomes: closeSocket() does not look whether the socket is open.
BecomesUnguarded(c, event) ==
    /\ conn' = c
    /\ raised' = IF ~c.open THEN Append(raised, event) ELSE raised

\* conn becomes c; if that closed the socket, the close event is raised.
Becomes(c, event) ==
    /\ conn' = c
    /\ raised' = IF conn.open /\ ~c.open THEN Append(raised, event) ELSE raised

\* doWrite took these bytes from the write buffer.
KernelTook(n) ==
    /\ sock' = [sock EXCEPT !.room = @ - n]
    /\ hist' = [hist EXCEPT !.sent = @ + n]

\* onFileEvent: errors of the constructor, early close, then the write and
\* the read handler.
OnFileEvent(c, events) ==
    IF c.immediateError # "none"
    THEN Becomes(CloseSocket(c), c.immediateError) /\ UNCHANGED stack
    ELSE IF "Closed" \in events
    THEN Becomes(CloseSocket(c), "RemoteClose") /\ UNCHANGED stack
    ELSE LET read == IF "Read" \in events THEN <<Frame("onReadReady", 0)>> ELSE <<>>
         IN  /\ Becomes(c, "none")
             /\ stack' = IF "Write" \in events
                         THEN Append(read, Frame("onWriteReady", 0)) ELSE read

\* The fd is ready: injected events are merged into the callback.
FdEvents == conn.enabled \cap Ready(sock)

FdReady ==
    /\ Idle
    /\ conn.armed
    /\ FdEvents # {}
    /\ OnFileEvent([conn EXCEPT !.armed = FALSE, !.injected = {}],
                   FdEvents \cup conn.injected)
    /\ UNCHANGED <<sock, filters, hist>>

\* The activation callback runs the injected events.
Activation ==
    /\ Idle
    /\ conn.injected # {}
    /\ OnFileEvent([conn EXCEPT !.injected = {}], conn.injected)
    /\ UNCHANGED <<sock, filters, hist>>

DelayedCloseTimeout ==
    /\ Idle
    /\ conn.timer
    /\ Becomes(CloseSocket([conn EXCEPT !.timer = FALSE]), "LocalClose")
    /\ UNCHANGED <<sock, stack, filters, hist>>

\* The rest of onWriteReady once the connection is up.
DoWriteReady ==
    LET n == Writable(conn, sock)
        c == DoWrite(conn, sock, conn.writeEnd)
        done == (c.delayed # "None" /\ c.writeBuf = 0) \/ BothSidesHalfClosed(c)
    IN  /\ IF WriteFails(conn, sock)
           THEN Becomes(CloseSocket(c), "RemoteClose")
           ELSE IF done /\ c.delayed # "CloseAfterFlushAndWait"
           THEN Becomes(CloseSocket(c), "LocalClose")
           ELSE Becomes(c, "none")
        /\ KernelTook(n)
        /\ stack' = Return
        /\ UNCHANGED filters

\* SO_ERROR is set: connect() failed, or the peer has reset the connection.
SocketError == sock.state = "failed" \/ sock.reset

\* onWriteReady: the first write event of a connecting socket tells whether
\* the connection succeeded.
OnWriteReady ==
    /\ Running("onWriteReady")
    /\ \/ /\ ~conn.connecting
          /\ DoWriteReady
       \/ /\ conn.connecting
          /\ SocketError
          /\ Becomes(CloseSocket(conn), "RemoteClose")
          /\ stack' = Return
          /\ UNCHANGED <<sock, filters, hist>>
       \/ /\ conn.connecting
          /\ ~SocketError
          /\ conn' = [conn EXCEPT !.connecting = FALSE]
          /\ raised' = Append(raised, "Connected")
          /\ stack' = Append(Append(Append(Return, Frame("afterConnected", 0)),
                                    Frame("flushWriteBuffer", 0)),
                             Frame("onConnected", 0))
          /\ UNCHANGED <<sock, filters, hist>>

\* raiseEvent(Connected) ends with a flush.
FlushWriteBuffer ==
    /\ Running("flushWriteBuffer")
    /\ IF State(conn) = "Open" /\ conn.writeBuf > 0
       THEN DoWriteReady
       ELSE stack' = Return /\ UNCHANGED <<conn, sock, filters, raised, hist>>

\* onWriteReady goes on after the connected callbacks unless one of them, or
\* somebody before them, has called close().
AfterConnected ==
    /\ Running("afterConnected")
    /\ IF State(conn) = "Open"
       THEN DoWriteReady
       ELSE stack' = Return /\ UNCHANGED <<conn, sock, filters, raised, hist>>

\* Mutant of OnReadEnters: repeated ends of stream are passed on.
OnReadEntersAgain(c) ==
    /\ c.delayed = "None"
    /\ FilterChainWantsData(c)
    /\ c.readBuf > 0 \/ c.readEnd

\* onRead(): the filter chain runs from the first filter.
OnReadEnters(c) ==
    /\ c.delayed = "None"
    /\ FilterChainWantsData(c)
    /\ c.readBuf > 0 \/ c.readEnd
    /\ ~ (c.readEnd /\ c.readEndRaised)

OnRead(c) == IF c.readEnd THEN [c EXCEPT !.readEndRaised = TRUE] ELSE c

\* RawBufferSocket::doRead: the bytes read, how the loop ended.  It ends early
\* once the read buffer has reached its limit.
ReadOutcomes(c, s) ==
    IF s.reset \/ s.state = "failed" THEN {[n |-> 0, end |-> "error"]}
    ELSE {[n |-> n, end |-> "drain"] :
             n \in {k \in 1 .. s.rx : Limit > 0 /\ c.readBuf + k >= Limit}}
         \cup (IF s.rx = 0 \/ Limit = 0 \/ c.readBuf + s.rx < Limit
               THEN {[n |-> s.rx, end |-> IF s.fin THEN "eof" ELSE "again"]}
               ELSE {})

DoRead(c, r) ==
    LET d == IF r.n > 0 THEN AppendRead(c, r.n) ELSE c
    IN  IF r.end = "drain" THEN SetTransportSocketIsReadable(d) ELSE d

\* Read disabled: only data that was read before is dispatched.
OnReadReadyDisabled ==
    /\ Running("onReadReady")
    /\ conn.open
    /\ conn.disabled # 0
    /\ LET c == [conn EXCEPT !.dispatchBuffered = FALSE] IN
       IF conn.dispatchBuffered /\ FilterChainWantsData(c) /\ OnReadEnters(c)
       THEN /\ conn' = OnRead(c)
            /\ stack' = Append(Return, Frame("onContinueReading", 1))
       ELSE /\ conn' = c
            /\ stack' = Return
    /\ UNCHANGED <<sock, filters, raised, hist>>

OnReadReady ==
    /\ Running("onReadReady")
    /\ conn.open
    /\ conn.disabled = 0
    /\ \E r \in ReadOutcomes(conn, sock) :
        LET latched == conn.dispatchBuffered
            c == DoRead([conn EXCEPT !.dispatchBuffered = FALSE,
                                     !.transportWantsRead = FALSE], r)
            ended == r.end = "eof" /\ c.halfClose
            d == [c EXCEPT !.readEnd = @ \/ ended]
            close == r.end = "error" \/ (r.end = "eof" /\ ~c.halfClose)
            after == Append(Return, Frame(IF close THEN "closeRemote" ELSE "closeIfDone", 0))
        IN  /\ IF (r.n > 0 \/ ended \/ (latched /\ d.readBuf > 0)) /\ OnReadEnters(d)
               THEN /\ conn' = OnRead(d)
                    /\ stack' = Append(after, Frame("onContinueReading", 1))
               ELSE /\ conn' = d
                    /\ stack' = after
            /\ sock' = [sock EXCEPT !.rx = @ - r.n]
            /\ hist' = [hist EXCEPT !.received = @ + r.n]
    /\ UNCHANGED <<filters, raised>>

\* A write handler has closed the socket before the read handler.
OnReadReadyClosed ==
    /\ Running("onReadReady")
    /\ ~conn.open
    /\ stack' = Return
    /\ UNCHANGED <<conn, sock, filters, raised, hist>>

\* The end of onReadReady.
CloseRemote ==
    /\ Running("closeRemote")
    /\ Becomes(CloseSocket(conn), "RemoteClose")
    /\ stack' = Return
    /\ UNCHANGED <<sock, filters, hist>>

CloseIfDone ==
    /\ Running("closeIfDone")
    /\ Becomes(IF BothSidesHalfClosed(conn) THEN CloseSocket(conn) ELSE conn,
               "RemoteClose")
    /\ stack' = Return
    /\ UNCHANGED <<sock, filters, hist>>

-------------------------------------------------------------------------------
(* FilterManagerImpl::onContinueReading.                                   *)

\* The loop at filter i: onNewConnection the first time, then onData if there
\* is something to pass, otherwise the next filter.
OnContinueReading ==
    /\ Running("onContinueReading")
    /\ LET i == Top.i IN
       \/ /\ i > NumFilters
          /\ stack' = Return
          /\ UNCHANGED filters
       \/ /\ i <= NumFilters
          /\ ~filters.initialized[i]
          /\ stack' = Append(Return, Frame("onNewConnection", i))
          /\ filters' = [filters EXCEPT !.initialized[i] = TRUE]
       \/ /\ i <= NumFilters
          /\ filters.initialized[i]
          /\ conn.readBuf > 0 \/ conn.readEnd
          /\ stack' = Append(Return, Frame("onData", i))
          /\ filters' = [filters EXCEPT !.stopped[i] = FALSE,
                                        !.ended[i] = @ + (IF conn.readEnd THEN 1 ELSE 0)]
       \/ /\ i <= NumFilters
          /\ filters.initialized[i]
          /\ ~ (conn.readBuf > 0 \/ conn.readEnd)
          /\ stack' = Append(Return, Frame("onContinueReading", i + 1))
          /\ UNCHANGED filters
    /\ UNCHANGED <<conn, sock, raised, hist>>

\* Mutant of FilterReturns: the connection's state is not looked at.
FilterReturnsUnchecked(status) ==
    /\ Running("onNewConnection") \/ Running("onData")
    /\ LET next == IF Top.fn = "onNewConnection" THEN Top.i ELSE Top.i + 1 IN
       /\ stack' = IF status = "StopIteration"
                   THEN Return
                   ELSE Append(Return, Frame("onContinueReading", next))
       /\ filters' = [filters EXCEPT !.stopped[Top.i] = (status = "StopIteration")]
    /\ UNCHANGED <<conn, sock, raised, hist>>

\* The filter returns: the loop stops, or is left because the connection is no
\* longer open, or goes on.
FilterReturns(status) ==
    /\ Running("onNewConnection") \/ Running("onData")
    /\ LET next == IF Top.fn = "onNewConnection" THEN Top.i ELSE Top.i + 1 IN
       /\ stack' = IF status = "StopIteration" \/ State(conn) # "Open"
                   THEN Return
                   ELSE Append(Return, Frame("onContinueReading", next))
       /\ filters' = [filters EXCEPT !.stopped[Top.i] = (status = "StopIteration")]
    /\ UNCHANGED <<conn, sock, raised, hist>>

\* ReadFilterCallbacks::continueReading(), called by a filter that stopped.
ContinueReading(i) ==
    /\ Idle
    /\ filters.stopped[i]
    /\ filters' = [filters EXCEPT !.stopped[i] = FALSE]
    /\ stack' = IF State(conn) = "Open"
                THEN <<Frame("onContinueReading", i + 1)>> ELSE stack
    /\ UNCHANGED <<conn, sock, raised, hist>>

-------------------------------------------------------------------------------
(* What filters and other users of the connection call.                    *)

UserClose(type) ==
    /\ UserRuns
    /\ conn.open
    /\ Becomes(Close(conn, sock, type), "LocalClose")
    /\ KernelTook(IF type = "NoFlush" THEN Writable(conn, sock) ELSE 0)
    /\ UNCHANGED <<stack, filters>>

\* write() by code that respects the API: nothing after the end of the stream,
\* no end of stream without half-close.  Unless the connection is open the
\* filter manager drops it; when a write filter stops it, nothing changes here
\* either and what the filter injects later is a write of its own.
UserWrite(n, endStream) ==
    /\ UserRuns
    /\ State(conn) = "Open"
    /\ ~conn.writeEnd
    /\ endStream => conn.halfClose
    /\ hist.written + n <= MaxWrite
    /\ conn' = Write(conn, n, endStream)
    /\ hist' = [hist EXCEPT !.written = @ + n]
    /\ UNCHANGED <<sock, stack, filters, raised>>

UserReadDisable ==
    /\ UserRuns
    /\ State(conn) = "Open"
    /\ hist.disables < MaxDisable
    /\ conn' = ReadDisable(conn)
    /\ hist' = [hist EXCEPT !.disables = @ + 1]
    /\ UNCHANGED <<sock, stack, filters, raised>>

UserReadEnable ==
    /\ UserRuns
    /\ State(conn) = "Open"
    /\ hist.disables > 0
    /\ conn' = ReadEnable(conn)
    /\ hist' = [hist EXCEPT !.disables = @ - 1]
    /\ UNCHANGED <<sock, stack, filters, raised>>

\* A filter consumes bytes of the buffer onData passes to it.
FilterDrains(n) ==
    /\ Running("onData")
    /\ n <= conn.readBuf
    /\ conn' = DrainRead(conn, n)
    /\ UNCHANGED <<sock, stack, filters, raised, hist>>

ConnectedReturns ==
    /\ Running("onConnected")
    /\ stack' = Return
    /\ UNCHANGED <<conn, sock, filters, raised, hist>>

-------------------------------------------------------------------------------
(* The kernel and the peer.  A change of readiness that is registered for  *)
(* is a new edge.                                                          *)

Wakes(events) == conn' = [conn EXCEPT !.armed = @ \/ conn.enabled \cap events # {}]

ConnectEnds(state) ==
    /\ conn.open
    /\ sock.state = "pending"
    /\ sock' = [sock EXCEPT !.state = state]
    /\ Wakes(Events)
    /\ UNCHANGED <<stack, filters, raised, hist>>

PeerUp == conn.open /\ sock.state = "up" /\ ~sock.reset

PeerSends ==
    /\ PeerUp
    /\ ~sock.fin
    /\ hist.received + sock.rx < MaxReceive
    /\ sock' = [sock EXCEPT !.rx = @ + 1]
    /\ Wakes({"Read"})
    /\ UNCHANGED <<stack, filters, raised, hist>>

PeerFinishes ==
    /\ PeerUp
    /\ ~sock.fin
    /\ sock' = [sock EXCEPT !.fin = TRUE]
    /\ Wakes({"Read", "Closed"})
    /\ UNCHANGED <<stack, filters, raised, hist>>

PeerResets ==
    /\ PeerUp
    /\ sock' = [sock EXCEPT !.reset = TRUE, !.rx = 0]
    /\ Wakes({"Read", "Write"})
    /\ UNCHANGED <<stack, filters, raised, hist>>

PeerReads ==
    /\ PeerUp
    /\ sock.room < SendRoom
    /\ sock' = [sock EXCEPT !.room = SendRoom]
    /\ IF sock.room = 0 THEN Wakes({"Write"}) ELSE UNCHANGED conn
    /\ UNCHANGED <<stack, filters, raised, hist>>

-------------------------------------------------------------------------------

Handlers ==
    \/ FdReady \/ Activation \/ DelayedCloseTimeout
    \/ OnWriteReady \/ FlushWriteBuffer \/ AfterConnected
    \/ OnReadReady \/ OnReadReadyDisabled \/ OnReadReadyClosed
    \/ CloseRemote \/ CloseIfDone
    \/ OnContinueReading \/ ConnectedReturns

Kernel ==
    \/ \E state \in {"up", "failed"} : ConnectEnds(state)
    \/ PeerSends \/ PeerFinishes \/ PeerResets \/ PeerReads

Users ==
    \/ \E status \in {"Continue", "StopIteration"} : FilterReturns(status)
    \/ \E i \in Filters : ContinueReading(i)
    \/ \E type \in CloseTypes : UserClose(type)
    \/ \E n \in 0 .. MaxWrite, endStream \in BOOLEAN : UserWrite(n, endStream)
    \/ UserReadDisable
    \/ UserReadEnable
    \/ \E n \in 1 .. MaxReceive : FilterDrains(n)

Next == Handlers \/ Kernel \/ Users

Spec == Init /\ [][Next]_vars

\* The dispatcher runs what is ready and timers fire.
Fairness ==
    /\ WF_vars(FdReady) /\ WF_vars(Activation) /\ WF_vars(DelayedCloseTimeout)
    /\ WF_vars(OnWriteReady) /\ WF_vars(FlushWriteBuffer) /\ WF_vars(AfterConnected)
    /\ WF_vars(OnReadReady \/ OnReadReadyDisabled \/ OnReadReadyClosed)
    /\ WF_vars(CloseRemote) /\ WF_vars(CloseIfDone)
    /\ WF_vars(OnContinueReading) /\ WF_vars(ConnectedReturns)

-------------------------------------------------------------------------------
(* Properties.                                                             *)

ConnectionType ==
    [open : BOOLEAN, connecting : BOOLEAN,
     immediateError : {"none", "LocalClose", "RemoteClose"},
     halfClose : BOOLEAN, earlyClose : BOOLEAN, delayedTimeout : BOOLEAN,
     delayed : {"None", "CloseAfterFlush", "CloseAfterFlushAndWait"},
     timer : BOOLEAN,
     readBuf : Nat, readHigh : BOOLEAN, writeBuf : Nat, writeHigh : BOOLEAN,
     disabled : Nat, readEnd : BOOLEAN, readEndRaised : BOOLEAN,
     writeEnd : BOOLEAN, shutdown : BOOLEAN,
     dispatchBuffered : BOOLEAN, transportWantsRead : BOOLEAN,
     enabled : SUBSET Events, armed : BOOLEAN, injected : SUBSET Events]

SocketType ==
    [state : {"pending", "up", "failed"}, rx : Nat, fin : BOOLEAN,
     reset : BOOLEAN, room : Nat]

FrameType == [fn : FrameNames, i : Nat]

FiltersType ==
    [initialized : [Filters -> BOOLEAN], stopped : [Filters -> BOOLEAN],
     ended : [Filters -> Nat]]

HistoryType == [received : Nat, written : Nat, sent : Nat, disables : Nat]

\* Types; read_disable_count_, a uint32_t, and the buffer lengths never go
\* below zero.
TypeOK ==
    /\ conn \in ConnectionType
    /\ sock \in SocketType
    /\ stack \in Seq(FrameType)
    /\ filters \in FiltersType
    /\ raised \in Seq(ConnectionEvents)
    /\ hist \in HistoryType

\* readDisable(): while the connection is open, read_disable_count_ is what
\* its users have not undone yet, plus one while the read buffer is above its
\* high watermark.  Nobody can undo another's disable, none leaks.
ReadDisableBalanced ==
    State(conn) = "Open" =>
        conn.disabled = hist.disables + (IF conn.readHigh THEN 1 ELSE 0)

\* Input that the connection still has to take from the transport socket.
InputWaiting ==
    \/ sock.rx > 0
    \/ sock.fin /\ ~conn.readEnd
    \/ sock.state = "up" /\ sock.reset
    \/ conn.transportWantsRead

\* An open, read enabled connection with input is going to be woken: with
\* edge triggers, and with setEnabled() dropping injected events, no
\* sequence of read disables, yields and callbacks loses the last wakeup.
ReadWakeupPending ==
    (Idle /\ State(conn) = "Open" /\ ~conn.connecting /\ conn.disabled = 0 /\ InputWaiting)
    => (conn.armed /\ "Read" \in conn.enabled) \/ "Read" \in conn.injected

\* The same for output: bytes or an end of stream not yet handed to a kernel
\* that would take them.
WriteWakeupPending ==
    (/\ Idle /\ State(conn) = "Open" /\ ~conn.connecting
     /\ conn.writeBuf > 0 \/ (conn.writeEnd /\ ~conn.shutdown)
     /\ "Write" \in Ready(sock))
    => (conn.armed /\ "Write" \in conn.enabled) \/ "Write" \in conn.injected

\* readDisable(false) promises to dispatch what is in the read buffer: while
\* the filter chain wants data the promise has an event that will keep it.
DispatchPending ==
    (/\ Idle /\ State(conn) = "Open" /\ conn.dispatchBuffered /\ conn.readBuf > 0
     /\ FilterChainWantsData(conn))
    => "Read" \in conn.injected

\* No wakeup of the connection is lost, in any of the three ways.
NoWakeupLost == ReadWakeupPending /\ WriteWakeupPending /\ DispatchPending

\* The loop over the filters goes on only while the connection is open: after
\* a close() from a callback no filter is called any more.
FiltersOnlyWhileOpen ==
    Running("onContinueReading") => State(conn) = "Open"

\* onRead() filters out repeated ends of stream, so the first filter sees one.
\* The others get it through the filters before them, and each of those may
\* have stopped an iteration of its own that it continues later: a filter sees
\* one end at most for each of them.  Two filters never see it twice.
EndStreamBounded ==
    \A i \in Filters : filters.ended[i] <= IF i = 1 THEN 1 ELSE i - 1

\* Callbacks see Connected at most once and before the close event, and one
\* close event, exactly when the socket is closed.
OneCloseEvent ==
    /\ conn.open => \A k \in DOMAIN raised : raised[k] = "Connected"
    /\ ~conn.open => /\ raised # <<>>
                     /\ \A k \in DOMAIN raised :
                            raised[k] = "Connected" <=> k < Len(raised)
    /\ \A j, k \in DOMAIN raised :
           raised[j] = "Connected" /\ raised[k] = "Connected" => j = k

\* The assertions in close() and onWriteReady(): waiting after the flush is
\* never without a running delayed close timer, and no timer outlives the
\* socket (the destructor asserts that).
DelayedCloseTimerRuns ==
    /\ conn.delayed = "CloseAfterFlushAndWait" /\ conn.open => conn.timer
    /\ conn.timer => conn.open /\ conn.delayed # "None"

\* A Connected event is raised only for a connection the peer has accepted.
ConnectedIsReal ==
    (\E k \in DOMAIN raised : raised[k] = "Connected") => sock.state = "up"

\* The write side is shut down only after all that was written is sent: the
\* assertion in RawBufferSocket::doWrite.
ShutdownAfterFlush ==
    conn.open /\ conn.shutdown =>
        conn.writeEnd /\ conn.writeBuf = 0 /\ hist.sent = hist.written

\* Both directions end properly: the end of the input is passed on no more often
\* than that, the end of the output follows all of it.
EndOfStreamKept == EndStreamBounded /\ ShutdownAfterFlush

\* close() on an accepted connection ends if the peer reads: while it waits
\* for a flush or for the timer, either the timer runs, or there are bytes to
\* flush and the write event that will flush them is not lost.
ClosingIsWoken ==
    (Idle /\ State(conn) = "Closing" /\ ~conn.connecting /\ raised = <<>> /\ ~conn.timer)
    => /\ conn.writeBuf > 0
       /\ "Write" \in Ready(sock) =>
              (conn.armed /\ "Write" \in conn.enabled) \/ "Write" \in conn.injected

===============================================================================

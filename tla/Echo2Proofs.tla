------------------------------ MODULE Echo2Proofs ------------------------------
(***************************************************************************)
(* The Echo2 filter on a connection implements EchoService, for every      *)
(* buffer limit, send queue and traffic.  The proof rests on the invariant *)
(* of ConnectionProofs, which the echo's own steps keep too.               *)
(***************************************************************************)
EXTENDS Echo2, ConnectionProofs

\* What has been received is in the read buffer or has been written, and the
\* end of the stream is never written.
EchoInv ==
    /\ SInv
    /\ ~conn.writeEnd
    /\ conn.open => hist.written + conn.readBuf = hist.received

\* A step that at most moves bytes of the write buffer to the kernel.
Forwards ==
    /\ conn'.readBuf = conn.readBuf
    /\ conn'.writeEnd = conn.writeEnd
    /\ conn'.open => conn.open
    /\ hist'.received = hist.received
    /\ hist'.written = hist.written
    /\ \/ hist'.sent = hist.sent
       \/ conn.open /\ hist.sent <= hist'.sent /\ hist'.sent <= hist.written

-------------------------------------------------------------------------------
(* Where the bytes of the read buffer go.                                  *)

LEMMA CloseSocketBuffers ==
    ASSUME NEW c \in ConnectionType
    PROVE  LET d == CloseSocket(c)
           IN  ~d.open /\ d.readBuf = c.readBuf /\ d.writeEnd = c.writeEnd
<1> DEFINE high == c.writeHigh /\ ~ IsBelowLow(c.writeBuf - c.writeBuf)
           a == DrainWrite(c, c.writeBuf)
           d == [a EXCEPT !.open = FALSE, !.timer = FALSE,
                          !.enabled = {}, !.armed = FALSE, !.injected = {}]
<1>1. a \in ConnectionType /\ a.readBuf = c.readBuf /\ a.writeEnd = c.writeEnd
  <2>1. high \in BOOLEAN /\ c.writeBuf - c.writeBuf \in Nat
    BY DEF ConnectionType
  <2>2. a = [c EXCEPT !.writeBuf = c.writeBuf - c.writeBuf, !.writeHigh = high]
    BY DEF DrainWrite
  <2> HIDE DEF high, a
  <2> QED BY <2>1, <2>2, SetWriteBufferFields DEF SameInput
<1>2. CloseSocket(c) = IF ~c.open THEN c ELSE d
  BY DEF CloseSocket
<1> HIDE DEF a
<1>3. ~d.open /\ d.readBuf = a.readBuf /\ d.writeEnd = a.writeEnd
  BY <1>1 DEF ConnectionType
<1> HIDE DEF d
<1> QED BY <1>1, <1>2, <1>3

LEMMA ReadDisableBuffer ==
    ASSUME NEW c \in ConnectionType
    PROVE  ReadDisable(c).readBuf = c.readBuf /\ ReadDisable(c).writeEnd = c.writeEnd
<1> DEFINE d == [c EXCEPT !.disabled = @ + 1]
<1>1. d \in ConnectionType /\ d.readBuf = c.readBuf /\ d.writeEnd = c.writeEnd
  BY DEF ConnectionType
<1>2. \/ ReadDisable(c) = d
      \/ \E mask \in SUBSET Events : ReadDisable(c) = EnableFileEvents(d, mask)
  BY DEF ReadDisable, Events
<1> HIDE DEF d
<1>3. \A mask \in SUBSET Events :
         /\ EnableFileEvents(d, mask).readBuf = d.readBuf
         /\ EnableFileEvents(d, mask).writeEnd = d.writeEnd
  BY <1>1, EnableFileEventsFields DEF SameInput, SameOutput
<1> QED BY <1>1, <1>2, <1>3

LEMMA ReadEnableBuffer ==
    ASSUME NEW c \in ConnectionType, c.disabled > 0
    PROVE  ReadEnable(c).readBuf = c.readBuf
<1> DEFINE d == [c EXCEPT !.disabled = @ - 1]
           e == IF d.disabled = 0 THEN EnableFileEvents(d, {"Read", "Write"}) ELSE d
           f == [e EXCEPT !.dispatchBuffered = TRUE]
           g == ActivateFileEvents(f, "Read")
<1>1. d \in ConnectionType /\ d.readBuf = c.readBuf
  BY DEF ConnectionType
<1>2. ReadEnable(c) = d \/ ReadEnable(c) = e \/ ReadEnable(c) = g
  BY DEF ReadEnable
<1> HIDE DEF d
<1>3. e \in ConnectionType /\ e.readBuf = d.readBuf
  <2>1. {"Read", "Write"} \in SUBSET Events
    BY DEF Events
  <2> QED BY <1>1, <2>1, EnableFileEventsFields DEF SameInput
<1> HIDE DEF e
<1>4. f \in ConnectionType /\ f.readBuf = e.readBuf
  BY <1>3 DEF ConnectionType
<1> HIDE DEF f
<1>5. g.readBuf = f.readBuf
  BY <1>4, ActivateFileEventsFields DEF SameInput, Events
<1> QED BY <1>1, <1>2, <1>3, <1>4, <1>5

LEMMA AppendReadBuffer ==
    ASSUME NEW c \in ConnectionType, NEW n \in Nat
    PROVE  LET d == AppendRead(c, n)
           IN  /\ d \in ConnectionType /\ d.readBuf = c.readBuf + n
               /\ d.writeEnd = c.writeEnd /\ d.open = c.open
<1> DEFINE d == [c EXCEPT !.readBuf = @ + n]
           e == [d EXCEPT !.readHigh = TRUE]
           f == ReadDisable(e)
<1>1. /\ d \in ConnectionType /\ d.readBuf = c.readBuf + n
      /\ d.writeEnd = c.writeEnd /\ d.open = c.open
  BY DEF ConnectionType
<1>2. AppendRead(c, n) = d \/ AppendRead(c, n) = e \/ AppendRead(c, n) = f
  BY DEF AppendRead
<1> HIDE DEF d
<1>3. /\ e \in ConnectionType /\ e.readBuf = d.readBuf
      /\ e.writeEnd = d.writeEnd /\ e.open = d.open
  BY <1>1 DEF ConnectionType
<1> HIDE DEF e
<1>4. /\ f \in ConnectionType /\ f.readBuf = e.readBuf
      /\ f.writeEnd = e.writeEnd /\ f.open = e.open
  BY <1>3, ReadDisableBuffer, ReadDisableEffect DEF SameLifecycle
<1> HIDE DEF f
<1> QED BY <1>1, <1>2, <1>3, <1>4

LEMMA DoReadBuffer ==
    ASSUME NEW c \in ConnectionType, NEW o, o.n \in Nat
    PROVE  LET d == DoRead(c, o)
           IN  /\ d \in ConnectionType /\ d.readBuf = c.readBuf + o.n
               /\ d.writeEnd = c.writeEnd /\ d.open = c.open
<1> DEFINE d == IF o.n > 0 THEN AppendRead(c, o.n) ELSE c
           t == [d EXCEPT !.transportWantsRead = TRUE]
           a == ActivateFileEvents(t, "Read")
<1>1. /\ d \in ConnectionType /\ d.readBuf = c.readBuf + o.n
      /\ d.writeEnd = c.writeEnd /\ d.open = c.open
  <2>1. CASE o.n > 0
    BY <2>1, AppendReadBuffer
  <2>2. CASE ~ (o.n > 0)
    BY <2>2 DEF ConnectionType
  <2> QED BY <2>1, <2>2
<1>2. DoRead(c, o) = d \/ DoRead(c, o) = t \/ DoRead(c, o) = a
  BY DEF DoRead, SetTransportSocketIsReadable
<1> HIDE DEF d
<1>3. /\ t \in ConnectionType /\ t.readBuf = d.readBuf
      /\ t.writeEnd = d.writeEnd /\ t.open = d.open
  BY <1>1 DEF ConnectionType
<1> HIDE DEF t
<1>4. /\ a \in ConnectionType /\ a.readBuf = t.readBuf
      /\ a.writeEnd = t.writeEnd /\ a.open = t.open
  BY <1>3, ActivateFileEventsFields DEF SameInput, SameOutput, SameLifecycle, Events
<1> HIDE DEF a
<1> QED BY <1>1, <1>2, <1>3, <1>4

LEMMA DrainReadBuffer ==
    ASSUME NEW c \in ConnectionType, NEW n \in Nat, n <= c.readBuf, NEW h \in Nat,
           Balanced(c, h)
    PROVE  DrainRead(c, n).readBuf = c.readBuf - n
<1> DEFINE d == [c EXCEPT !.readBuf = @ - n]
           e == [d EXCEPT !.readHigh = FALSE]
<1>0. c.readBuf \in Nat /\ c.disabled \in Nat
  BY DEF ConnectionType
<1>1. /\ d \in ConnectionType /\ d.readBuf = c.readBuf - n
      /\ SameLifecycle(c, d) /\ SameReads(c, d)
  BY <1>0 DEF ConnectionType, SameLifecycle, SameReads
<1>2. \/ DrainRead(c, n) = d \/ DrainRead(c, n) = e
      \/ DrainRead(c, n) = ReadEnable(e) /\ d.readHigh /\ State(e) = "Open"
  BY DEF DrainRead
<1> HIDE DEF d
<1>3. /\ e \in ConnectionType /\ e.readBuf = d.readBuf
      /\ SameLifecycle(d, e) /\ e.disabled = d.disabled
  BY <1>1 DEF ConnectionType, SameLifecycle
<1> HIDE DEF e
<1>4. d.readHigh /\ State(e) = "Open" => e.disabled > 0
  BY <1>0, <1>1, <1>3 DEF Balanced, SameLifecycle, SameReads, State
<1>5. e.disabled > 0 => ReadEnable(e).readBuf = e.readBuf
  BY <1>3, ReadEnableBuffer
<1> QED BY <1>1, <1>2, <1>3, <1>4, <1>5

LEMMA WriteBuffer ==
    ASSUME NEW c \in ConnectionType, NEW n \in Nat
    PROVE  /\ Write(c, n, FALSE).readBuf = c.readBuf
           /\ ~Write(c, n, FALSE).writeEnd
<1> DEFINE high == c.writeHigh \/ IsAboveHigh(c.writeBuf + n)
           a == AppendWrite(c, n)
           d == [a EXCEPT !.writeEnd = FALSE]
           e == ActivateFileEvents(d, "Write")
<1>1. a \in ConnectionType /\ a.readBuf = c.readBuf
  <2>1. high \in BOOLEAN /\ c.writeBuf + n \in Nat
    BY DEF ConnectionType
  <2>2. a = [c EXCEPT !.writeBuf = c.writeBuf + n, !.writeHigh = high]
    BY DEF AppendWrite
  <2> HIDE DEF high, a
  <2> QED BY <2>1, <2>2, SetWriteBufferFields DEF SameInput
<1>2. Write(c, n, FALSE) = d \/ Write(c, n, FALSE) = e
  BY DEF Write
<1> HIDE DEF a
<1>3. d \in ConnectionType /\ d.readBuf = a.readBuf /\ ~d.writeEnd
  BY <1>1 DEF ConnectionType
<1> HIDE DEF d
<1>4. e.readBuf = d.readBuf /\ e.writeEnd = d.writeEnd
  BY <1>3, ActivateFileEventsFields DEF SameInput, SameOutput, Events
<1> QED BY <1>1, <1>2, <1>3, <1>4

-------------------------------------------------------------------------------
(* The connection's steps, but for the one that reads.                     *)

\* The connection becomes c, which has the same bytes, or closes on the way.
LEMMA BecomesForwards ==
    ASSUME NEW c \in ConnectionType, c.readBuf = conn.readBuf,
           c.writeEnd = conn.writeEnd, c.open = conn.open,
           conn' = c \/ conn' = CloseSocket(c),
           hist'.received = hist.received, hist'.written = hist.written,
           \/ hist'.sent = hist.sent
           \/ conn.open /\ hist.sent <= hist'.sent /\ hist'.sent <= hist.written
    PROVE  Forwards
BY CloseSocketBuffers DEF Forwards

LEMMA OnFileEventForwards ==
    ASSUME NEW c \in ConnectionType, c.readBuf = conn.readBuf,
           c.writeEnd = conn.writeEnd, c.open = conn.open,
           NEW events, OnFileEvent(c, events), hist' = hist
    PROVE  Forwards
<1>1. conn' = c \/ conn' = CloseSocket(c)
  BY DEF OnFileEvent, Becomes
<1> QED BY <1>1, BecomesForwards

LEMMA EventLoopForwards ==
    ASSUME SInv, FdReady \/ Activation \/ DelayedCloseTimeout
    PROVE  Forwards
<1>1. conn \in ConnectionType
  BY DEF SInv, IInv, ConnInv
<1>2. CASE FdReady
  <2> DEFINE c == [conn EXCEPT !.armed = FALSE, !.injected = {}]
  <2>1. OnFileEvent(c, FdEvents \cup conn.injected) /\ hist' = hist
    BY <1>2 DEF FdReady
  <2>2. /\ c \in ConnectionType /\ c.readBuf = conn.readBuf
        /\ c.writeEnd = conn.writeEnd /\ c.open = conn.open
    BY <1>1 DEF ConnectionType
  <2> HIDE DEF c
  <2> QED BY <2>1, <2>2, OnFileEventForwards
<1>3. CASE Activation
  <2> DEFINE c == [conn EXCEPT !.injected = {}]
  <2>1. OnFileEvent(c, conn.injected) /\ hist' = hist
    BY <1>3 DEF Activation
  <2>2. /\ c \in ConnectionType /\ c.readBuf = conn.readBuf
        /\ c.writeEnd = conn.writeEnd /\ c.open = conn.open
    BY <1>1 DEF ConnectionType
  <2> HIDE DEF c
  <2> QED BY <2>1, <2>2, OnFileEventForwards
<1>4. CASE DelayedCloseTimeout
  <2> DEFINE c == [conn EXCEPT !.timer = FALSE]
  <2>1. conn' = CloseSocket(c) /\ hist' = hist
    BY <1>4 DEF DelayedCloseTimeout, Becomes
  <2>2. /\ c \in ConnectionType /\ c.readBuf = conn.readBuf
        /\ c.writeEnd = conn.writeEnd /\ c.open = conn.open
    BY <1>1 DEF ConnectionType
  <2> HIDE DEF c
  <2> QED BY <2>1, <2>2, BecomesForwards
<1> QED BY <1>2, <1>3, <1>4

\* doWrite() hands the kernel bytes that were written.
LEMMA DoWriteReadyForwards ==
    ASSUME SInv, conn.open, DoWriteReady
    PROVE  Forwards
<1> DEFINE n == Writable(conn, sock)
           c == DoWrite(conn, sock, conn.writeEnd)
<1>1. conn \in ConnectionType /\ sock \in SocketType /\ hist \in HistoryType
  BY DEF SInv, IInv, ConnInv
<1>2. /\ c \in ConnectionType /\ c.readBuf = conn.readBuf
      /\ c.writeEnd = conn.writeEnd /\ c.open = conn.open
  BY <1>1, DoWriteFields DEF SameInput, SameLifecycle
<1>3. n \in Nat /\ n <= conn.writeBuf
  BY <1>1, WritableBounds
<1>4. /\ conn' = c \/ conn' = CloseSocket(c)
      /\ hist' = [hist EXCEPT !.sent = @ + n]
  BY DEF DoWriteReady, Becomes, KernelTook
<1> HIDE DEF n, c
<1>5. /\ hist'.received = hist.received /\ hist'.written = hist.written
      /\ hist'.sent = hist.sent + n /\ hist.sent \in Nat /\ hist.written \in Nat
  BY <1>1, <1>4 DEF HistoryType
<1>6. hist.sent + conn.writeBuf = hist.written /\ conn.writeBuf \in Nat
  BY <1>1 DEF SInv, OutputInv, ConnectionType
<1>7. hist.sent <= hist'.sent /\ hist'.sent <= hist.written
  BY <1>3, <1>5, <1>6
<1> QED BY <1>2, <1>4, <1>5, <1>7, BecomesForwards

LEMMA WriteHandlersForward ==
    ASSUME SInv, OnWriteReady \/ FlushWriteBuffer \/ AfterConnected
    PROVE  Forwards
<1>1. conn \in ConnectionType
  BY DEF SInv, IInv, ConnInv
<1>s. ASSUME conn' = conn, hist' = hist PROVE Forwards
  BY <1>s DEF Forwards
<1>2. CASE OnWriteReady
  <2>1. conn.open
    BY <1>2 DEF OnWriteReady, Running, Top, SInv, IInv, StackOK
  <2>2. CASE DoWriteReady
    BY <2>1, <2>2, DoWriteReadyForwards
  <2>3. CASE conn' = CloseSocket(conn) /\ hist' = hist
    BY <1>1, <2>3, BecomesForwards
  <2>4. CASE conn' = [conn EXCEPT !.connecting = FALSE] /\ hist' = hist
    BY <1>1, <2>4 DEF Forwards, ConnectionType
  <2> QED BY <1>2, <2>2, <2>3, <2>4 DEF OnWriteReady, Becomes
<1>3. CASE FlushWriteBuffer
  <2>1. (conn.open /\ DoWriteReady) \/ UNCHANGED <<conn, hist>>
    BY <1>3 DEF FlushWriteBuffer, State
  <2> QED BY <1>s, <2>1, DoWriteReadyForwards
<1>4. CASE AfterConnected
  <2>1. (conn.open /\ DoWriteReady) \/ UNCHANGED <<conn, hist>>
    BY <1>4 DEF AfterConnected, State
  <2> QED BY <1>s, <2>1, DoWriteReadyForwards
<1> QED BY <1>2, <1>3, <1>4

LEMMA OnReadBuffers ==
    ASSUME NEW c \in ConnectionType
    PROVE  LET d == OnRead(c)
           IN  /\ d \in ConnectionType /\ d.readBuf = c.readBuf
               /\ d.writeEnd = c.writeEnd /\ d.open = c.open
<1> DEFINE d == [c EXCEPT !.readEndRaised = TRUE]
<1>1. /\ d \in ConnectionType /\ d.readBuf = c.readBuf
      /\ d.writeEnd = c.writeEnd /\ d.open = c.open
  BY DEF ConnectionType
<1>2. OnRead(c) = c \/ OnRead(c) = d
  BY DEF OnRead
<1> HIDE DEF d
<1> QED BY <1>1, <1>2

LEMMA ReadHandlersForward ==
    ASSUME SInv,
           \/ OnReadReadyDisabled \/ OnReadReadyClosed \/ CloseRemote \/ CloseIfDone
           \/ OnContinueReading \/ ConnectedReturns
    PROVE  Forwards
<1>1. conn \in ConnectionType
  BY DEF SInv, IInv, ConnInv
<1>2. CASE OnReadReadyDisabled
  <2> DEFINE c == [conn EXCEPT !.dispatchBuffered = FALSE]
  <2>1. (conn' = OnRead(c) \/ conn' = c) /\ hist' = hist
    BY <1>2 DEF OnReadReadyDisabled
  <2>2. /\ c \in ConnectionType /\ c.readBuf = conn.readBuf
        /\ c.writeEnd = conn.writeEnd /\ c.open = conn.open
    BY <1>1 DEF ConnectionType
  <2> HIDE DEF c
  <2> QED BY <2>1, <2>2, OnReadBuffers DEF Forwards
<1>3. CASE CloseRemote \/ CloseIfDone
  <2>1. (conn' = conn \/ conn' = CloseSocket(conn)) /\ hist' = hist
    BY <1>3 DEF CloseRemote, CloseIfDone, Becomes
  <2> QED BY <1>1, <2>1, BecomesForwards
<1>4. CASE OnReadReadyClosed \/ OnContinueReading \/ ConnectedReturns
  <2>1. conn' = conn /\ hist' = hist
    BY <1>4 DEF OnReadReadyClosed, OnContinueReading, ConnectedReturns
  <2> QED BY <2>1 DEF Forwards
<1> QED BY <1>2, <1>3, <1>4

LEMMA KernelForwards ==
    ASSUME SInv, Kernel
    PROVE  Forwards
<1>1. conn \in ConnectionType
  BY DEF SInv, IInv, ConnInv
<1>2. hist' = hist /\ (conn' = conn \/ \E events : Wakes(events))
  BY DEF Kernel, ConnectEnds, PeerSends, PeerFinishes, PeerResets, PeerReads
<1>3. ASSUME NEW events, Wakes(events)
      PROVE  conn'.readBuf = conn.readBuf /\ conn'.writeEnd = conn.writeEnd
             /\ conn'.open = conn.open
  BY <1>1, <1>3 DEF Wakes, ConnectionType
<1> QED BY <1>2, <1>3 DEF Forwards

\* The listener closes the connection; the kernel gets what it still takes.
LEMMA ListenerClosesForwards ==
    ASSUME SInv, ListenerCloses
    PROVE  Forwards
<1> DEFINE n == Writable(conn, sock)
           c == DoWrite(conn, sock, TRUE)
<1>1. conn \in ConnectionType /\ sock \in SocketType /\ hist \in HistoryType
  BY DEF SInv, IInv, ConnInv
<1>2. conn.open /\ hist' = [hist EXCEPT !.sent = @ + n]
  BY DEF ListenerCloses, UserClose, KernelTook
<1>3. conn' = CloseSocket(IF conn.writeBuf > 0 THEN c ELSE conn)
  BY <1>2 DEF ListenerCloses, UserClose, Becomes, Close
<1>4. /\ c \in ConnectionType /\ c.readBuf = conn.readBuf
      /\ c.writeEnd = conn.writeEnd /\ c.open = conn.open
  <2> DEFINE high == conn.writeHigh /\ ~ IsBelowLow(conn.writeBuf - n)
             a == DrainWrite(conn, n)
  <2>1. high \in BOOLEAN /\ conn.writeBuf - n \in Nat
    BY <1>1, WritableBounds DEF ConnectionType
  <2>2. a = [conn EXCEPT !.writeBuf = conn.writeBuf - n, !.writeHigh = high]
    BY DEF DrainWrite
  <2>3. c = [a EXCEPT !.shutdown = @ \/ (TRUE /\ a.writeBuf = 0)]
    BY DEF DoWrite
  <2> HIDE DEF high, a, n, c
  <2>4. /\ a \in ConnectionType /\ a.readBuf = conn.readBuf
        /\ a.writeEnd = conn.writeEnd /\ a.open = conn.open
    BY <1>1, <2>1, <2>2 DEF ConnectionType
  <2> QED BY <2>3, <2>4 DEF ConnectionType
<1>5. n \in Nat /\ n <= conn.writeBuf
  BY <1>1, WritableBounds
<1> HIDE DEF n, c
<1>6. /\ hist'.received = hist.received /\ hist'.written = hist.written
      /\ hist'.sent = hist.sent + n /\ hist.sent \in Nat /\ hist.written \in Nat
  BY <1>1, <1>2 DEF HistoryType
<1>7. hist.sent + conn.writeBuf = hist.written /\ conn.writeBuf \in Nat
  BY <1>1, <1>2 DEF SInv, OutputInv, ConnectionType
<1>8. hist.sent <= hist'.sent /\ hist'.sent <= hist.written
  BY <1>5, <1>6, <1>7
<1>9. conn' = CloseSocket(c) \/ conn' = CloseSocket(conn)
  BY <1>3
<1> QED BY <1>1, <1>2, <1>4, <1>6, <1>8, <1>9, BecomesForwards

-------------------------------------------------------------------------------
(* Reading and echoing.                                                    *)

\* The read handler takes bytes from the client into the read buffer.
Takes ==
    \E n \in Nat :
        /\ conn.open /\ conn'.open
        /\ conn'.readBuf = conn.readBuf + n
        /\ conn'.writeEnd = conn.writeEnd
        /\ hist'.received = hist.received + n
        /\ hist'.written = hist.written
        /\ hist'.sent = hist.sent

LEMMA OnReadReadyTakes ==
    ASSUME SInv, OnReadReady
    PROVE  Takes
<1> DEFINE b == [conn EXCEPT !.dispatchBuffered = FALSE, !.transportWantsRead = FALSE]
<1>1. /\ conn \in ConnectionType /\ sock \in SocketType /\ hist \in HistoryType
  BY DEF SInv, IInv, ConnInv
<1>2. /\ b \in ConnectionType /\ b.readBuf = conn.readBuf
      /\ b.writeEnd = conn.writeEnd /\ b.open = conn.open
  BY <1>1 DEF ConnectionType
<1>3. PICK r \in ReadOutcomes(conn, sock) :
         LET c == DoRead(b, r)
             ended == r.end = "eof" /\ c.halfClose
             d == [c EXCEPT !.readEnd = @ \/ ended]
         IN  /\ conn' = OnRead(d) \/ conn' = d
             /\ hist' = [hist EXCEPT !.received = @ + r.n]
  BY DEF OnReadReady
<1>4. r.n \in Nat
  BY <1>1, ReadOutcomeBounds
<1> DEFINE c == DoRead(b, r)
           ended == r.end = "eof" /\ c.halfClose
           d == [c EXCEPT !.readEnd = @ \/ ended]
<1>5. conn' = OnRead(d) \/ conn' = d
  BY <1>3
<1> HIDE DEF b
<1>6. /\ c \in ConnectionType /\ c.readBuf = conn.readBuf + r.n
      /\ c.writeEnd = conn.writeEnd /\ c.open = conn.open
  BY <1>2, <1>4, DoReadBuffer
<1>7. ended \in BOOLEAN
  OBVIOUS
<1> HIDE DEF c, ended
<1>8. /\ d \in ConnectionType /\ d.readBuf = c.readBuf
      /\ d.writeEnd = c.writeEnd /\ d.open = c.open
  BY <1>6, <1>7 DEF ConnectionType
<1> HIDE DEF d
<1>9. /\ conn'.readBuf = conn.readBuf + r.n
      /\ conn'.writeEnd = conn.writeEnd /\ conn'.open = conn.open
  BY <1>5, <1>6, <1>8, OnReadBuffers
<1>10. conn.open
  BY DEF OnReadReady
<1>11. /\ hist'.received = hist.received + r.n /\ hist'.written = hist.written
       /\ hist'.sent = hist.sent
  BY <1>1, <1>3 DEF HistoryType
<1> QED BY <1>4, <1>9, <1>10, <1>11 DEF Takes

\* onData() moves the read buffer into the write buffer.
LEMMA OnDataMembers ==
    ASSUME EchoInv, OnData
    PROVE  /\ ConnInv(conn', hist.disables) /\ SameLifecycle(conn, conn')
           /\ SameEnds(conn, conn')
           /\ conn.connecting => NoNewWrite(conn, conn')
           /\ Awake(conn', sock, OnStack("onReadReady", stack),
                    OnStack("closeRemote", stack), WritePends(stack))
           /\ ~conn'.writeEnd /\ conn'.shutdown = conn.shutdown
           /\ conn.open /\ conn.delayed = "None" =>
                 /\ conn'.readBuf = 0
                 /\ conn'.writeBuf = conn.writeBuf + conn.readBuf
                 /\ hist' = [hist EXCEPT !.written = @ + conn.readBuf]
           /\ ~ (conn.open /\ conn.delayed = "None") =>
                 /\ conn' = conn
                 /\ hist' = [hist EXCEPT !.written = @ + 0]
<1> DEFINE r == OnStack("onReadReady", stack)
           k == OnStack("closeRemote", stack)
           w == WritePends(stack)
           n == conn.readBuf
           d == DrainRead(conn, n)
           e == Write(d, n, FALSE)
<1>1. /\ conn \in ConnectionType /\ ConnInv(conn, hist.disables) /\ hist.disables \in Nat
      /\ Awake(conn, sock, r, k, w) /\ n \in Nat /\ n <= conn.readBuf /\ ~conn.writeEnd
  BY DEF EchoInv, SInv, IInv, ConnInv, HistoryType, WakeInv, ConnectionType
<1>2. State(conn) = "Open" <=> conn.open /\ conn.delayed = "None"
  BY DEF State
<1>3. CASE State(conn) = "Open"
  <2>1. conn' = e /\ hist' = [hist EXCEPT !.written = @ + n]
    BY <1>3 DEF OnData
  <2> HIDE DEF r, k, w
  <2>2. /\ Awake(d, sock, r, k, w) /\ d \in ConnectionType
        /\ SameLifecycle(conn, d) /\ SameOutput(conn, d) /\ SameEnds(conn, d)
        /\ NoNewWrite(conn, d)
    BY <1>1, DrainReadAwake DEF ConnInv
  <2>3. ConnInv(d, hist.disables)
    BY <1>1, DrainReadInv
  <2>4. d.readBuf = 0
    <3>1. d.readBuf = conn.readBuf - n
      BY <1>1, DrainReadBuffer DEF ConnInv
    <3> QED BY <1>1, <3>1
  <2> HIDE DEF d, n
  <2>5. ~d.writeEnd
    BY <1>1, <2>2 DEF SameOutput
  <2>6. /\ Awake(e, sock, r, k, w) /\ e \in ConnectionType
        /\ SameLifecycle(d, e) /\ SameEnds(d, e)
        /\ d.connecting => NoNewWrite(d, e)
        /\ e.writeBuf = d.writeBuf + n /\ e.shutdown = d.shutdown
    BY <1>1, <2>2, <2>5, WriteAwake
  <2>7. e.readBuf = d.readBuf /\ ~e.writeEnd
    BY <1>1, <2>2, WriteBuffer
  <2>8. SameReads(d, e)
    BY <1>1, <2>2, WriteKeeps
  <2> HIDE DEF e
  <2>9. d.open
    BY <1>2, <1>3, <2>2 DEF SameLifecycle
  <2>10. ConnInv(e, hist.disables)
    BY <1>1, <2>3, <2>6, <2>8, <2>9, MethodKeeps
  <2>11. SameLifecycle(conn, e) /\ SameEnds(conn, e)
    BY <2>2, <2>6 DEF SameLifecycle, SameEnds
  <2>12. conn.connecting => NoNewWrite(conn, e)
    BY <2>2, <2>6 DEF SameLifecycle, NoNewWrite
  <2>13. e.writeBuf = conn.writeBuf + n /\ e.shutdown = conn.shutdown /\ e.readBuf = 0
    BY <2>2, <2>4, <2>6, <2>7 DEF SameOutput
  <2> QED BY <1>2, <1>3, <2>1, <2>6, <2>7, <2>10, <2>11, <2>12, <2>13 DEF r, k, w, n
<1>4. CASE State(conn) # "Open"
  <2>1. conn' = conn /\ hist' = [hist EXCEPT !.written = @ + 0]
    BY <1>4 DEF OnData
  <2> QED BY <1>1, <1>2, <1>4, <2>1 DEF SameLifecycle, SameEnds, NoNewWrite
<1> QED BY <1>3, <1>4

LEMMA OnDataStep ==
    ASSUME EchoInv, OnData
    PROVE  EchoInv'
<1> DEFINE i == Top.i
           S == StoppedIn(filters)
           moved == IF conn.open /\ conn.delayed = "None" THEN conn.readBuf ELSE 0
<1>1. /\ SInv /\ IInv /\ stack # <<>> /\ Top.fn = "onData" /\ Top.fn \in LoopNames
      /\ stack' = Return /\ UNCHANGED <<sock, raised>>
      /\ filters' = [filters EXCEPT !.stopped[i] = TRUE]
  BY DEF EchoInv, SInv, OnData, Running, LoopNames
<1>2. /\ conn \in ConnectionType /\ conn.readBuf \in Nat /\ conn.writeBuf \in Nat
      /\ filters \in FiltersType /\ hist \in HistoryType /\ sock \in SocketType
      /\ hist.sent \in Nat /\ hist.written \in Nat /\ hist.received \in Nat
  BY <1>1 DEF IInv, ConnInv, ConnectionType, HistoryType
<1>3. /\ ConnInv(conn', hist.disables) /\ SameLifecycle(conn, conn')
      /\ SameEnds(conn, conn') /\ (conn.connecting => NoNewWrite(conn, conn'))
      /\ ~conn'.writeEnd /\ conn'.shutdown = conn.shutdown
      /\ hist' = [hist EXCEPT !.written = @ + moved] /\ moved \in Nat
      /\ conn'.readBuf = conn.readBuf - moved
      /\ conn'.writeBuf = conn.writeBuf + moved
  BY <1>2, OnDataMembers
<1> HIDE DEF moved
<1>4. /\ hist'.sent = hist.sent /\ hist'.written = hist.written + moved
      /\ hist'.received = hist.received /\ hist'.disables = hist.disables
      /\ hist' \in HistoryType
  BY <1>2, <1>3 DEF HistoryType
<1>5. /\ i \in Nat /\ i \in Filters
      /\ conn.readEnd => EndsOK(filters, S \cup {i})
      /\ ~conn.readEnd => \A m \in Filters : filters.ended[m] = 0
  BY <1>1, LoopRuns DEF LoopOK, Passed
<1>6. /\ Return \in Seq(FrameType) /\ ~InLoop(Return)
      /\ ~OnStack("onWriteReady", Return)
      /\ \A fn : OnStack(fn, stack) <=> Top.fn = fn \/ OnStack(fn, Return)
  BY <1>1, PopOnStack
<1>7. filters' \in FiltersType
  BY <1>1, <1>2, SetFilterOK
<1>8. IInv'
  <2>1. StackOK(stack', conn')
    BY <1>1, PopOK DEF IInv, Return
  <2>2. EventsOK(raised', conn')
    BY <1>1, <1>3, SameEventsOK DEF IInv, SameLifecycle
  <2> QED BY <1>1, <1>2, <1>3, <1>4, <1>7, <2>1, <2>2 DEF IInv
<1>9. WakeInv'
  <2> DEFINE r == OnStack("onReadReady", stack)
             k == OnStack("closeRemote", stack)
             w == WritePends(stack)
  <2>1. Awake(conn', sock, r, k, w)
    BY OnDataMembers
  <2>2. /\ r <=> OnStack("onReadReady", stack')
        /\ k <=> OnStack("closeRemote", stack')
        /\ w <=> WritePends(stack')
    BY <1>1, <1>6 DEF WritePends
  <2> HIDE DEF r, k, w
  <2> QED BY <1>1, <2>1, <2>2 DEF WakeInv, Awake
<1>10. ConnectInv'
  BY <1>1, <1>3, <1>6 DEF SInv, ConnectInv, ConnectedIsReal, SameLifecycle, NoNewWrite
<1>11. conn'.open => hist'.written + conn'.readBuf = hist'.received
  BY <1>2, <1>3, <1>4 DEF EchoInv, SameLifecycle
<1>12. OutputInv'
  <2>1. conn'.open => hist'.sent + conn'.writeBuf = hist'.written
    BY <1>1, <1>2, <1>3, <1>4 DEF SInv, OutputInv, SameLifecycle
  <2>2. conn.open => ~conn.shutdown
    BY <1>1 DEF SInv, OutputInv, EchoInv
  <2> QED BY <1>3, <2>1, <2>2 DEF OutputInv, SameLifecycle
<1>13. EndInv'
  <2>1. /\ filters'.ended = filters.ended
        /\ filters'.stopped = [filters.stopped EXCEPT ![i] = TRUE]
    BY <1>1, <1>2 DEF FiltersType
  <2>2. StoppedIn(filters') = S \cup {i}
    BY <1>2, <1>5, <2>1 DEF StoppedIn, FiltersType
  <2>3. Held(filters', stack') = S \cup {i}
    BY <1>1, <1>6, <2>2 DEF Held
  <2> HIDE DEF S, i
  <2>4. conn'.readEnd => EndsOK(filters', Held(filters', stack'))
    BY <1>2, <1>3, <1>5, <1>7, <2>1, <2>3, EndsKept DEF SameEnds
  <2>5. conn'.delayed = "None" /\ conn'.readEnd => conn'.readEndRaised
    BY <1>1, <1>3 DEF SInv, EndInv, SameLifecycle, SameEnds
  <2> QED BY <1>1, <1>3, <1>5, <1>6, <2>1, <2>4, <2>5 DEF EndInv, SameEnds
<1> QED BY <1>1, <1>3, <1>8, <1>9, <1>10, <1>11, <1>12, <1>13 DEF EchoInv, SInv

-------------------------------------------------------------------------------
(* Theorems.                                                               *)

LEMMA InitEchoInv == ASSUME Init PROVE EchoInv
<1>1. SInv
  BY InitSInv
<1>2. ~conn.writeEnd /\ conn.readBuf = 0 /\ hist.written = 0 /\ hist.received = 0
  BY DEF Init
<1> QED BY <1>1, <1>2 DEF EchoInv

LEMMA HandlersKeepSInv == ASSUME SInv, Handlers \/ Kernel PROVE SInv'
<1>1. IInv
  BY DEF SInv
<1>2. CASE FdReady \/ Activation \/ DelayedCloseTimeout
  BY <1>1, <1>2, EventLoopInv, EventLoopStep
<1>3. CASE OnWriteReady \/ FlushWriteBuffer \/ AfterConnected
  BY <1>1, <1>3, WriteHandlersInv, WriteHandlersStep
<1>4. CASE OnReadReady
  BY <1>1, <1>4, ReadHandlersInv, OnReadReadyStep
<1>5. CASE OnReadReadyDisabled \/ OnReadReadyClosed \/ CloseRemote \/ CloseIfDone
  BY <1>1, <1>5, ReadHandlersInv, ReadHandlersStep
<1>6. CASE OnContinueReading
  BY <1>1, <1>6, FilterLoopInv, OnContinueReadingStep
<1>7. CASE ConnectedReturns
  BY <1>1, <1>7, FilterLoopInv, ConnectedReturnsStep
<1>8. CASE Kernel
  BY <1>1, <1>8, KernelInv, KernelStep
<1> QED BY <1>2, <1>3, <1>4, <1>5, <1>6, <1>7, <1>8 DEF Handlers

\* Every step of the echo keeps SInv and either forwards, takes or echoes bytes.
LEMMA EchoSteps ==
    ASSUME EchoInv, EchoNext
    PROVE  /\ SInv'
           /\ Forwards \/ Takes \/ OnData
<1>1. SInv /\ IInv
  BY DEF EchoInv, SInv
<1>2. CASE Handlers
  <2>1. SInv'
    BY <1>1, <1>2, HandlersKeepSInv
  <2>2. Forwards \/ Takes
    BY <1>1, <1>2, EventLoopForwards, WriteHandlersForward, ReadHandlersForward,
       OnReadReadyTakes DEF Handlers
  <2> QED BY <2>1, <2>2
<1>3. CASE Kernel
  BY <1>1, <1>3, HandlersKeepSInv, KernelForwards
<1>4. CASE OnNewConnection
  <2>1. FilterReturns("Continue")
    BY <1>4 DEF OnNewConnection
  <2>2. IInv'
    BY <1>1, <2>1, FilterLoopInv
  <2>3. SInv'
    BY <1>1, <2>1, <2>2, FilterReturnsStep
  <2>4. Forwards
    BY <2>1 DEF FilterReturns, Forwards
  <2> QED BY <2>3, <2>4
<1>5. CASE OnData
  BY <1>5, OnDataStep DEF EchoInv
<1>6. CASE ListenerCloses
  <2>1. \E type \in CloseTypes : UserClose(type)
    BY <1>6 DEF ListenerCloses, CloseTypes
  <2>2. IInv'
    BY <1>1, <2>1, UserMethodsInv
  <2>3. SInv'
    BY <1>1, <2>1, <2>2, UserStep
  <2> QED BY <1>1, <1>6, <2>3, ListenerClosesForwards
<1> QED BY <1>2, <1>3, <1>4, <1>5, <1>6 DEF EchoNext

\* The echo's steps keep the invariant of the connection, and the bytes
\* received are in the read buffer or written.
THEOREM EchoInvariance == EchoSpec => []EchoInv
<1>1. Init => EchoInv
  BY InitEchoInv
<1>2. EchoInv /\ [EchoNext]_vars => EchoInv'
  <2> SUFFICES ASSUME EchoInv, [EchoNext]_vars PROVE EchoInv'
    OBVIOUS
  <2>1. hist.written \in Nat /\ hist.received \in Nat /\ conn.readBuf \in Nat
    BY DEF EchoInv, SInv, IInv, ConnInv, HistoryType, ConnectionType
  <2>2. CASE EchoNext /\ Forwards
    BY <2>2, EchoSteps DEF EchoInv, Forwards
  <2>3. CASE EchoNext /\ Takes
    BY <2>1, <2>3, EchoSteps DEF EchoInv, Takes
  <2>4. CASE OnData
    BY <2>4, OnDataStep
  <2>5. CASE UNCHANGED vars
    BY <2>5 DEF vars, EchoInv, SInv, IInv, WakeInv, ConnectInv, ConnectedIsReal, OutputInv,
                EndInv
  <2> QED BY <2>2, <2>3, <2>4, <2>5, EchoSteps
<1> QED BY <1>1, <1>2, PTL DEF EchoSpec

\* While the connection is open, what is sent was received.
LEMMA SentWasReceived ==
    ASSUME EchoInv, conn.open
    PROVE  hist.written <= hist.received /\ hist.sent <= hist.written
<1>1. /\ hist.written \in Nat /\ hist.received \in Nat /\ hist.sent \in Nat
      /\ conn.readBuf \in Nat /\ conn.writeBuf \in Nat
  BY DEF EchoInv, SInv, IInv, ConnInv, HistoryType, ConnectionType
<1> QED BY <1>1 DEF EchoInv, SInv, OutputInv

\* The filter on top of the connection implements EchoService: whatever the
\* limits and the order of reads, writes, watermark callbacks and closes, the
\* n-th byte sent back is the n-th byte received, none is sent twice and none
\* after the close.
THEOREM EchoIsFaithful == EchoSpec => ImplementsEchoService
<1>1. Init => Service!Init
  BY DEF Init, Service!Init
<1>2. EchoInv /\ EchoInv' /\ [EchoNext]_vars => [Service!Next]_(Service!vars)
  <2> SUFFICES ASSUME EchoInv, EchoInv', [EchoNext]_vars
               PROVE  [Service!Next]_(Service!vars)
    OBVIOUS
  <2>1. /\ hist.written \in Nat /\ hist.received \in Nat /\ hist.sent \in Nat
        /\ hist'.written \in Nat /\ hist'.received \in Nat /\ hist'.sent \in Nat
        /\ conn.open \in BOOLEAN /\ conn'.open \in BOOLEAN
    BY DEF EchoInv, SInv, IInv, ConnInv, HistoryType, ConnectionType
  <2>2. conn.open => hist.written <= hist.received /\ hist.sent <= hist.written
    BY SentWasReceived
  <2>3. CASE Forwards
    <3>1. CASE hist'.sent = hist.sent /\ conn'.open = conn.open
      BY <2>3, <3>1 DEF Forwards, Service!vars
    <3>2. CASE conn.open /\ ~conn'.open
      <4>1. hist.sent <= hist'.sent /\ hist'.sent <= hist.received
        BY <2>1, <2>2, <2>3, <3>2 DEF Forwards
      <4>2. Service!Close
        BY <2>1, <2>3, <3>2, <4>1 DEF Forwards, Service!Close
      <4> QED BY <4>2 DEF Service!Next
    <3>3. CASE hist'.sent # hist.sent /\ conn.open /\ conn'.open
      <4>1. hist'.sent > hist.sent /\ hist'.sent <= hist.received
        BY <2>1, <2>2, <2>3, <3>3 DEF Forwards
      <4>2. Service!Echo
        BY <2>1, <2>3, <3>3, <4>1 DEF Forwards, Service!Echo
      <4> QED BY <4>2 DEF Service!Next
    <3> QED BY <2>1, <2>3, <3>1, <3>2, <3>3 DEF Forwards
  <2>4. CASE Takes
    <3>1. PICK n \in Nat :
             /\ conn.open /\ conn'.open /\ hist'.sent = hist.sent
             /\ hist'.received = hist.received + n
      BY <2>4 DEF Takes
    <3>2. CASE n = 0
      BY <2>1, <3>1, <3>2 DEF Service!vars
    <3>3. CASE n > 0
      <4>1. Service!Receive
        BY <2>1, <3>1, <3>3 DEF Service!Receive
      <4> QED BY <4>1 DEF Service!Next
    <3> QED BY <3>2, <3>3
  <2>5. CASE OnData
    <3>1. conn'.open = conn.open
      BY <2>5, OnDataMembers DEF SameLifecycle
    <3>2. hist'.sent = hist.sent /\ hist'.received = hist.received
      BY <2>5 DEF OnData, EchoInv, SInv, IInv, HistoryType
    <3> QED BY <3>1, <3>2 DEF Service!vars
  <2>6. CASE UNCHANGED vars
    BY <2>6 DEF vars, Service!vars
  <2> QED BY <2>3, <2>4, <2>5, <2>6, EchoSteps
<1> QED BY <1>1, <1>2, EchoInvariance, PTL
        DEF EchoSpec, ImplementsEchoService, Service!Spec

\* No wakeup of an echoing connection is lost either, which is what the
\* liveness of the echo depends on.
THEOREM EchoIsWoken == EchoSpec => []NoWakeupLost
<1>1. EchoInv => NoWakeupLost
  BY WakeupsPend DEF EchoInv
<1> QED BY <1>1, EchoInvariance, PTL

===============================================================================

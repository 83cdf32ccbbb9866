--------------------------- MODULE ConnectionProofs ---------------------------
(***************************************************************************)
(* Proofs about Connection, for any number of filters, any buffer limit    *)
(* and any traffic: first its life cycle and its counts, then what flows   *)
(* through it, that no wakeup is lost, that Connected is true and that     *)
(* both ends of stream keep their place.                                   *)
(***************************************************************************)
EXTENDS Connection, SequenceTheorems, FiniteSetTheorems, TLAPS

\* The members that methods other than close() and closeSocket() leave alone.
SameLifecycle(c, d) ==
    /\ d.open = c.open
    /\ d.connecting = c.connecting
    /\ d.immediateError = c.immediateError
    /\ d.delayed = c.delayed
    /\ d.timer = c.timer
    /\ d.delayedTimeout = c.delayedTimeout

\* Neither the read disables nor the read buffer's watermark state change.
SameReads(c, d) ==
    /\ d.disabled = c.disabled
    /\ d.readHigh = c.readHigh

LEMMA EnableFileEventsKeeps ==
    ASSUME NEW c \in ConnectionType, NEW mask \in SUBSET Events
    PROVE  LET d == EnableFileEvents(c, mask)
           IN  d \in ConnectionType /\ SameLifecycle(c, d) /\ SameReads(c, d)
               /\ d.readBuf = c.readBuf /\ d.transportWantsRead = c.transportWantsRead
BY DEF EnableFileEvents, ConnectionType, SameLifecycle, SameReads

LEMMA ActivateFileEventsKeeps ==
    ASSUME NEW c \in ConnectionType, NEW event \in Events
    PROVE  LET d == ActivateFileEvents(c, event)
           IN  d \in ConnectionType /\ SameLifecycle(c, d) /\ SameReads(c, d)
BY DEF ActivateFileEvents, ConnectionType, SameLifecycle, SameReads

LEMMA ReadDisableEffect ==
    ASSUME NEW c \in ConnectionType
    PROVE  LET d == ReadDisable(c)
           IN  /\ d \in ConnectionType /\ SameLifecycle(c, d)
               /\ d.disabled = c.disabled + 1 /\ d.readHigh = c.readHigh
<1> DEFINE d == [c EXCEPT !.disabled = @ + 1]
<1>1. /\ d \in ConnectionType /\ SameLifecycle(c, d)
      /\ d.disabled = c.disabled + 1 /\ d.readHigh = c.readHigh
  BY DEF ConnectionType, SameLifecycle
<1>2. {"Write", "Closed"} \in SUBSET Events /\ {"Write"} \in SUBSET Events
  BY DEF Events
<1> HIDE DEF d
<1>3. \A mask \in SUBSET Events :
         LET e == EnableFileEvents(d, mask)
         IN  e \in ConnectionType /\ SameLifecycle(d, e) /\ SameReads(d, e)
  BY <1>1, EnableFileEventsKeeps
<1>4. \/ ReadDisable(c) = d
      \/ ReadDisable(c) = EnableFileEvents(d, {"Write", "Closed"})
      \/ ReadDisable(c) = EnableFileEvents(d, {"Write"})
  BY DEF ReadDisable, d
<1> QED BY <1>1, <1>2, <1>3, <1>4 DEF SameLifecycle, SameReads

LEMMA ReadEnableEffect ==
    ASSUME NEW c \in ConnectionType, c.disabled > 0
    PROVE  LET d == ReadEnable(c)
           IN  /\ d \in ConnectionType /\ SameLifecycle(c, d)
               /\ d.disabled = c.disabled - 1 /\ d.readHigh = c.readHigh
<1> DEFINE d == [c EXCEPT !.disabled = @ - 1]
           e == IF d.disabled = 0 THEN EnableFileEvents(d, {"Read", "Write"}) ELSE d
           f == [e EXCEPT !.dispatchBuffered = TRUE]
           g == ActivateFileEvents(f, "Read")
<1>1. /\ d \in ConnectionType /\ SameLifecycle(c, d)
      /\ d.disabled = c.disabled - 1 /\ d.readHigh = c.readHigh
  BY DEF ConnectionType, SameLifecycle
<1>2. {"Read", "Write"} \in SUBSET Events /\ "Read" \in Events
  BY DEF Events
<1> HIDE DEF d
<1>3. e \in ConnectionType /\ SameLifecycle(d, e) /\ SameReads(d, e)
  <2>1. CASE d.disabled = 0
    BY <1>1, <1>2, <2>1, EnableFileEventsKeeps
  <2>2. CASE d.disabled # 0
    BY <1>1, <2>2 DEF SameLifecycle, SameReads
  <2> QED BY <2>1, <2>2
<1> HIDE DEF e
<1>4. f \in ConnectionType /\ SameLifecycle(e, f) /\ SameReads(e, f)
  BY <1>3 DEF ConnectionType, SameLifecycle, SameReads
<1> HIDE DEF f
<1>5. g \in ConnectionType /\ SameLifecycle(f, g) /\ SameReads(f, g)
  BY <1>2, <1>4, ActivateFileEventsKeeps
<1> HIDE DEF g
<1>6. ReadEnable(c) = d \/ ReadEnable(c) = e \/ ReadEnable(c) = g
  BY DEF ReadEnable, d, e, f, g
<1> QED BY <1>1, <1>3, <1>4, <1>5, <1>6 DEF SameLifecycle, SameReads

\* read_disable_count_ is h, the users' disables, plus the watermark's.
Balanced(c, h) ==
    State(c) = "Open" => c.disabled = h + (IF c.readHigh THEN 1 ELSE 0)

LEMMA AppendReadEffect ==
    ASSUME NEW c \in ConnectionType, NEW n \in Nat, NEW h \in Nat, Balanced(c, h)
    PROVE  LET d == AppendRead(c, n)
           IN  d \in ConnectionType /\ SameLifecycle(c, d) /\ Balanced(d, h)
<1> DEFINE d == [c EXCEPT !.readBuf = @ + n]
           e == [d EXCEPT !.readHigh = TRUE]
<1>1. d \in ConnectionType /\ SameLifecycle(c, d) /\ SameReads(c, d)
  BY DEF ConnectionType, SameLifecycle, SameReads
<1> HIDE DEF d
<1>2. e \in ConnectionType /\ SameLifecycle(d, e) /\ e.disabled = d.disabled /\ e.readHigh
  BY <1>1 DEF ConnectionType, SameLifecycle
<1> HIDE DEF e
<1>3. /\ ReadDisable(e) \in ConnectionType /\ SameLifecycle(e, ReadDisable(e))
      /\ ReadDisable(e).disabled = e.disabled + 1
      /\ ReadDisable(e).readHigh = e.readHigh
  BY <1>2, ReadDisableEffect
<1>4. c.disabled \in Nat
  BY DEF ConnectionType
<1>5. CASE AppendRead(c, n) = d
  BY <1>1, <1>5 DEF SameLifecycle, SameReads, Balanced, State
<1>6. CASE AppendRead(c, n) = e /\ State(e) # "Open"
  BY <1>1, <1>2, <1>6 DEF SameLifecycle, SameReads, Balanced, State
<1>7. CASE AppendRead(c, n) = ReadDisable(e) /\ ~d.readHigh
  <2> DEFINE r == ReadDisable(e)
  <2>1. ~c.readHigh
    BY <1>1, <1>7 DEF SameReads
  <2>2. State(c) = "Open" => c.disabled = h
    BY <1>4, <2>1 DEF Balanced
  <2>3. State(r) = State(c) /\ SameLifecycle(c, r)
    BY <1>1, <1>2, <1>3 DEF SameLifecycle, State
  <2>4. r.disabled = c.disabled + 1
    BY <1>1, <1>2, <1>3 DEF SameReads
  <2>5. r.readHigh
    BY <1>2, <1>3
  <2> HIDE DEF r
  <2>6. Balanced(r, h)
    BY <1>4, <2>2, <2>3, <2>4, <2>5 DEF Balanced
  <2> QED BY <1>3, <1>7, <2>3, <2>6 DEF r
<1> QED BY <1>5, <1>6, <1>7 DEF AppendRead, d, e

LEMMA DrainReadEffect ==
    ASSUME NEW c \in ConnectionType, NEW n \in Nat, n <= c.readBuf,
           NEW h \in Nat, Balanced(c, h)
    PROVE  LET d == DrainRead(c, n)
           IN  d \in ConnectionType /\ SameLifecycle(c, d) /\ Balanced(d, h)
<1> DEFINE d == [c EXCEPT !.readBuf = @ - n]
           e == [d EXCEPT !.readHigh = FALSE]
<1>1. d \in ConnectionType /\ SameLifecycle(c, d) /\ SameReads(c, d)
  BY DEF ConnectionType, SameLifecycle, SameReads
<1> HIDE DEF d
<1>2. e \in ConnectionType /\ SameLifecycle(d, e) /\ e.disabled = d.disabled /\ ~e.readHigh
  BY <1>1 DEF ConnectionType, SameLifecycle
<1> HIDE DEF e
<1>4. c.disabled \in Nat
  BY DEF ConnectionType
<1>5. CASE DrainRead(c, n) = d
  BY <1>1, <1>5 DEF SameLifecycle, SameReads, Balanced, State
<1>6. CASE DrainRead(c, n) = e /\ State(e) # "Open"
  BY <1>1, <1>2, <1>6 DEF SameLifecycle, SameReads, Balanced, State
<1>7. CASE DrainRead(c, n) = ReadEnable(e) /\ d.readHigh /\ State(e) = "Open"
  <2>1. e.disabled = h + 1
    BY <1>1, <1>2, <1>4, <1>7 DEF SameLifecycle, SameReads, Balanced, State
  <2>2. /\ ReadEnable(e) \in ConnectionType /\ SameLifecycle(e, ReadEnable(e))
        /\ ReadEnable(e).disabled = e.disabled - 1
        /\ ReadEnable(e).readHigh = e.readHigh
    BY <1>2, <2>1, ReadEnableEffect
  <2> QED BY <1>1, <1>2, <1>4, <1>7, <2>1, <2>2
          DEF SameLifecycle, SameReads, Balanced, State
<1> QED BY <1>5, <1>6, <1>7 DEF DrainRead, d, e

LEMMA SetWriteBufferKeeps ==
    ASSUME NEW c \in ConnectionType, NEW len \in Nat, NEW high \in BOOLEAN
    PROVE  LET d == [c EXCEPT !.writeBuf = len, !.writeHigh = high]
           IN  d \in ConnectionType /\ SameLifecycle(c, d) /\ SameReads(c, d)
BY DEF ConnectionType, SameLifecycle, SameReads

LEMMA DrainWriteKeeps ==
    ASSUME NEW c \in ConnectionType, NEW n \in Nat, n <= c.writeBuf
    PROVE  LET d == DrainWrite(c, n)
           IN  d \in ConnectionType /\ SameLifecycle(c, d) /\ SameReads(c, d)
<1> DEFINE w == c.writeHigh /\ ~ IsBelowLow(c.writeBuf - n)
<1>1. w \in BOOLEAN
  OBVIOUS
<1>2. c.writeBuf - n \in Nat
  BY DEF ConnectionType
<1>3. DrainWrite(c, n) = [c EXCEPT !.writeBuf = c.writeBuf - n, !.writeHigh = w]
  BY DEF DrainWrite
<1> HIDE DEF w
<1> QED BY <1>1, <1>2, <1>3, SetWriteBufferKeeps

LEMMA AppendWriteKeeps ==
    ASSUME NEW c \in ConnectionType, NEW n \in Nat
    PROVE  LET d == AppendWrite(c, n)
           IN  d \in ConnectionType /\ SameLifecycle(c, d) /\ SameReads(c, d)
<1> DEFINE w == c.writeHigh \/ IsAboveHigh(c.writeBuf + n)
<1>1. w \in BOOLEAN
  OBVIOUS
<1>2. c.writeBuf + n \in Nat
  BY DEF ConnectionType
<1>3. AppendWrite(c, n) = [c EXCEPT !.writeBuf = c.writeBuf + n, !.writeHigh = w]
  BY DEF AppendWrite
<1> HIDE DEF w
<1> QED BY <1>1, <1>2, <1>3, SetWriteBufferKeeps

LEMMA SetTransportSocketIsReadableKeeps ==
    ASSUME NEW c \in ConnectionType
    PROVE  LET d == SetTransportSocketIsReadable(c)
           IN  d \in ConnectionType /\ SameLifecycle(c, d) /\ SameReads(c, d)
<1> DEFINE d == [c EXCEPT !.transportWantsRead = TRUE]
<1>1. d \in ConnectionType /\ SameLifecycle(c, d) /\ SameReads(c, d)
  BY DEF ConnectionType, SameLifecycle, SameReads
<1> HIDE DEF d
<1>2. /\ ActivateFileEvents(d, "Read") \in ConnectionType
      /\ SameLifecycle(d, ActivateFileEvents(d, "Read"))
      /\ SameReads(d, ActivateFileEvents(d, "Read"))
  BY <1>1, ActivateFileEventsKeeps DEF Events
<1>3. \/ SetTransportSocketIsReadable(c) = d
      \/ SetTransportSocketIsReadable(c) = ActivateFileEvents(d, "Read")
  BY DEF SetTransportSocketIsReadable, d
<1> QED BY <1>1, <1>2, <1>3 DEF SameLifecycle, SameReads

\* After closeSocket() the socket is closed and the timer is gone.
LEMMA CloseSocketEffect ==
    ASSUME NEW c \in ConnectionType, c.timer => c.open
    PROVE  LET d == CloseSocket(c)
           IN  /\ d \in ConnectionType /\ ~d.open /\ ~d.timer
               /\ d.connecting = c.connecting /\ d.delayed = c.delayed
               /\ d.delayedTimeout = c.delayedTimeout
               /\ c.open => d.enabled = {} /\ d.injected = {}
               /\ ~c.open => d = c
<1> DEFINE d == DrainWrite(c, c.writeBuf)
           e == [d EXCEPT !.open = FALSE, !.timer = FALSE,
                          !.enabled = {}, !.armed = FALSE, !.injected = {}]
<1>1. d \in ConnectionType /\ SameLifecycle(c, d)
  BY DrainWriteKeeps DEF ConnectionType
<1> HIDE DEF d
<1>2. /\ e \in ConnectionType /\ ~e.open /\ ~e.timer
      /\ e.connecting = d.connecting /\ e.delayed = d.delayed
      /\ e.delayedTimeout = d.delayedTimeout /\ e.enabled = {} /\ e.injected = {}
  BY <1>1 DEF ConnectionType
<1>3. CASE c.open
  BY <1>1, <1>2, <1>3 DEF CloseSocket, d, SameLifecycle
<1>4. CASE ~c.open
  BY <1>4 DEF CloseSocket, ConnectionType
<1> QED BY <1>3, <1>4

LEMMA WritableBounds ==
    ASSUME NEW c \in ConnectionType, NEW s \in SocketType
    PROVE  /\ Writable(c, s) \in Nat
           /\ Writable(c, s) <= c.writeBuf
           /\ Writable(c, s) <= s.room
BY DEF Writable, ConnectionType, SocketType

LEMMA DoWriteKeeps ==
    ASSUME NEW c \in ConnectionType, NEW s \in SocketType, NEW endStream \in BOOLEAN
    PROVE  LET d == DoWrite(c, s, endStream)
           IN  d \in ConnectionType /\ SameLifecycle(c, d) /\ SameReads(c, d)
<1> DEFINE d == DrainWrite(c, Writable(c, s))
<1>1. d \in ConnectionType /\ SameLifecycle(c, d) /\ SameReads(c, d)
  BY WritableBounds, DrainWriteKeeps
<1> HIDE DEF d
<1>2. DoWrite(c, s, endStream)
      = [d EXCEPT !.shutdown = @ \/ (endStream /\ d.writeBuf = 0)]
  BY DEF DoWrite, d
<1> QED BY <1>1, <1>2 DEF ConnectionType, SameLifecycle, SameReads

LEMMA WriteKeeps ==
    ASSUME NEW c \in ConnectionType, NEW n \in Nat, NEW endStream \in BOOLEAN
    PROVE  LET d == Write(c, n, endStream)
           IN  d \in ConnectionType /\ SameLifecycle(c, d) /\ SameReads(c, d)
<1> DEFINE a == AppendWrite(c, n)
           d == [a EXCEPT !.writeEnd = endStream]
<1>1. a \in ConnectionType /\ SameLifecycle(c, a) /\ SameReads(c, a)
  BY AppendWriteKeeps
<1> HIDE DEF a
<1>2. d \in ConnectionType /\ SameLifecycle(a, d) /\ SameReads(a, d)
  BY <1>1 DEF ConnectionType, SameLifecycle, SameReads
<1> HIDE DEF d
<1>3. /\ ActivateFileEvents(d, "Write") \in ConnectionType
      /\ SameLifecycle(d, ActivateFileEvents(d, "Write"))
      /\ SameReads(d, ActivateFileEvents(d, "Write"))
  BY <1>2, ActivateFileEventsKeeps DEF Events
<1>4. Write(c, n, endStream) = d \/ Write(c, n, endStream) = ActivateFileEvents(d, "Write")
  BY DEF Write, a, d
<1> QED BY <1>1, <1>2, <1>3, <1>4 DEF SameLifecycle, SameReads

-------------------------------------------------------------------------------
(* The inductive invariant.                                                *)

\* What the assertions about the delayed close timer need: the timer runs
\* exactly while a connection that has a timeout is closing, and only such a
\* connection waits after the flush.
TimerInv(c) ==
    /\ c.timer => c.open /\ c.delayed # "None"
    /\ c.open /\ c.delayed # "None" /\ c.delayedTimeout => c.timer
    /\ c.delayed = "CloseAfterFlushAndWait" => c.delayedTimeout

\* The event loop has forgotten a closed socket.
Quiet(c) == ~c.open => c.enabled = {} /\ c.injected = {}

ConnInv(c, h) ==
    /\ c \in ConnectionType
    /\ Balanced(c, h)
    /\ TimerInv(c)
    /\ Quiet(c)

\* Frames that wait for a callee; all others are the running one.
WaitingNames ==
    {"afterConnected", "flushWriteBuffer", "onReadReady", "closeIfDone", "closeRemote"}

AllWaiting(s) == \A k \in 1 .. Len(s) : s[k].fn \in WaitingNames

\* Below the running frame all frames wait; the filter loop runs only in an
\* open connection, and the write handler is entered only with an open socket.
StackOK(s, c) ==
    /\ s \in Seq(FrameType)
    /\ \A k \in 1 .. (Len(s) - 1) : s[k].fn \in WaitingNames
    /\ s # <<>> =>
          /\ s[Len(s)].fn = "onContinueReading" => State(c) = "Open"
          /\ s[Len(s)].fn = "onWriteReady" => c.open

\* The events raised, and why Connected cannot come twice.
EventsOK(r, c) ==
    /\ r \in Seq(ConnectionEvents)
    /\ c.open => \A k \in DOMAIN r : r[k] = "Connected"
    /\ ~c.open => /\ r # <<>>
                  /\ \A k \in DOMAIN r : r[k] = "Connected" <=> k < Len(r)
    /\ \A j, k \in DOMAIN r : r[j] = "Connected" /\ r[k] = "Connected" => j = k
    /\ c.open /\ c.connecting => r = <<>>

IInv ==
    /\ ConnInv(conn, hist.disables)
    /\ sock \in SocketType
    /\ filters \in FiltersType
    /\ hist \in HistoryType
    /\ StackOK(stack, conn)
    /\ EventsOK(raised, conn)

\* A method that leaves the life cycle and the read disables alone keeps
\* Balanced and TimerInv.
LEMMA KeepsInvariants ==
    ASSUME NEW c \in ConnectionType, NEW d \in ConnectionType, NEW h \in Nat,
           SameLifecycle(c, d), TimerInv(c)
    PROVE  /\ TimerInv(d)
           /\ State(d) = State(c)
           /\ SameReads(c, d) /\ Balanced(c, h) => Balanced(d, h)
BY DEF SameLifecycle, SameReads, TimerInv, Balanced, State

\* close() keeps the timer's invariant and never leaves the connection open.
LEMMA CloseEffect ==
    ASSUME NEW c \in ConnectionType, NEW s \in SocketType, NEW type \in CloseTypes,
           TimerInv(c), Quiet(c)
    PROVE  LET d == Close(c, s, type)
           IN  /\ d \in ConnectionType /\ TimerInv(d) /\ Quiet(d) /\ State(d) # "Open"
               /\ d.connecting = c.connecting
               /\ ~c.open => ~d.open
<1>1. CASE ~c.open
  BY <1>1 DEF Close, State, ConnectionType
<1>2. CASE c.open /\ (c.writeBuf = 0 \/ type = "NoFlush")
  <2> DEFINE d == IF c.writeBuf > 0 THEN DoWrite(c, s, TRUE) ELSE c
             w == [d EXCEPT !.timer = TRUE, !.delayed = "CloseAfterFlushAndWait"]
             m == IF c.halfClose THEN {} ELSE {"Closed"}
             e == EnableFileEvents(w, m)
  <2>1. d \in ConnectionType /\ SameLifecycle(c, d)
    BY DoWriteKeeps DEF SameLifecycle
  <2>2. Close(c, s, type) = IF type # "FlushWriteAndDelay" \/ ~c.delayedTimeout
                            THEN CloseSocket(d)
                            ELSE IF c.delayed # "None" THEN d ELSE e
    BY <1>2 DEF Close
  <2> HIDE DEF d
  <2>3. w \in ConnectionType /\ w.timer /\ w.delayed = "CloseAfterFlushAndWait"
        /\ w.open = d.open /\ w.connecting = d.connecting
        /\ w.delayedTimeout = d.delayedTimeout
    BY <2>1 DEF ConnectionType
  <2>4. m \in SUBSET Events
    BY DEF Events
  <2> HIDE DEF w, m
  <2>5. e \in ConnectionType /\ SameLifecycle(w, e)
    BY <2>3, <2>4, EnableFileEventsKeeps
  <2> HIDE DEF e
  <2>6. CASE type # "FlushWriteAndDelay" \/ ~c.delayedTimeout
    <3>1. d.timer => d.open
      BY <2>1 DEF SameLifecycle, TimerInv
    <3>2. /\ CloseSocket(d) \in ConnectionType
          /\ ~CloseSocket(d).open /\ ~CloseSocket(d).timer
          /\ CloseSocket(d).connecting = d.connecting
          /\ CloseSocket(d).delayed = d.delayed
          /\ CloseSocket(d).delayedTimeout = d.delayedTimeout
          /\ d.open => CloseSocket(d).enabled = {} /\ CloseSocket(d).injected = {}
      BY <2>1, <3>1, CloseSocketEffect
    <3> QED BY <1>2, <2>1, <2>2, <2>6, <3>2 DEF SameLifecycle, TimerInv, Quiet, State
  <2>7. CASE type = "FlushWriteAndDelay" /\ c.delayedTimeout /\ c.delayed # "None"
    BY <1>2, <2>1, <2>2, <2>7 DEF SameLifecycle, TimerInv, Quiet, State
  <2>8. CASE type = "FlushWriteAndDelay" /\ c.delayedTimeout /\ c.delayed = "None"
    BY <1>2, <2>1, <2>2, <2>3, <2>5, <2>8 DEF SameLifecycle, TimerInv, Quiet, State
  <2> QED BY <2>6, <2>7, <2>8
<1>3. CASE c.open /\ c.writeBuf # 0 /\ type # "NoFlush"
  <2> DEFINE q == IF type = "FlushWrite" \/ ~c.delayedTimeout
                  THEN "CloseAfterFlush" ELSE "CloseAfterFlushAndWait"
             d == [c EXCEPT !.delayed = q]
             w == [d EXCEPT !.timer = c.delayedTimeout]
             m == IF c.halfClose THEN {"Write"} ELSE {"Write", "Closed"}
             e == EnableFileEvents(w, m)
  <2>1. /\ q \in {"CloseAfterFlush", "CloseAfterFlushAndWait"}
        /\ q = "CloseAfterFlushAndWait" => c.delayedTimeout
    OBVIOUS
  <2>2. Close(c, s, type) = IF c.delayed # "None" THEN d ELSE e
    BY <1>3 DEF Close
  <2> HIDE DEF q
  <2>3. d \in ConnectionType /\ d.delayed = q /\ d.open = c.open /\ d.timer = c.timer
        /\ d.connecting = c.connecting /\ d.delayedTimeout = c.delayedTimeout
    BY <2>1 DEF ConnectionType
  <2>4. m \in SUBSET Events
    BY DEF Events
  <2> HIDE DEF d, m
  <2>5. w \in ConnectionType /\ w.timer = c.delayedTimeout /\ w.delayed = d.delayed
        /\ w.open = d.open /\ w.connecting = d.connecting
        /\ w.delayedTimeout = d.delayedTimeout
    BY <2>3 DEF ConnectionType
  <2> HIDE DEF w
  <2>6. e \in ConnectionType /\ SameLifecycle(w, e)
    BY <2>4, <2>5, EnableFileEventsKeeps
  <2> HIDE DEF e
  <2>7. CASE c.delayed # "None"
    BY <1>3, <2>1, <2>2, <2>3, <2>7 DEF TimerInv, Quiet, State
  <2>8. CASE c.delayed = "None"
    BY <1>3, <2>1, <2>2, <2>3, <2>5, <2>6, <2>8 DEF SameLifecycle, TimerInv, Quiet, State
  <2> QED BY <2>7, <2>8
<1> QED BY <1>1, <1>2, <1>3

-------------------------------------------------------------------------------
(* The call stack and the events.                                          *)

\* The stack without its running frame.
LEMMA PopElements ==
    ASSUME NEW s \in Seq(FrameType), s # <<>>
    PROVE  LET r == SubSeq(s, 1, Len(s) - 1)
           IN  /\ r \in Seq(FrameType) /\ Len(r) = Len(s) - 1
               /\ \A k \in 1 .. Len(r) : r[k] = s[k]
<1> DEFINE r == SubSeq(s, 1, Len(s) - 1)
<1>1. Len(s) \in Nat /\ Len(s) > 0
  OBVIOUS
<1>2. \A k \in 1 .. (Len(s) - 1) : s[k] \in FrameType
  BY <1>1
<1>3. 1 \in Int /\ Len(s) - 1 \in Int
  BY <1>1
<1>4. /\ r \in Seq(FrameType)
      /\ Len(r) = IF 1 <= Len(s) - 1 THEN Len(s) - 1 - 1 + 1 ELSE 0
      /\ \A i \in 1 .. (Len(s) - 1 - 1 + 1) : r[i] = s[1 + i - 1]
  BY <1>2, <1>3, SubSeqProperties
<1> HIDE DEF r
<1>5. ASSUME NEW m \in Nat, m > 0
      PROVE  /\ (IF 1 <= m - 1 THEN m - 1 - 1 + 1 ELSE 0) = m - 1
             /\ \A i \in 1 .. (m - 1) : i \in 1 .. (m - 1 - 1 + 1) /\ 1 + i - 1 = i
  BY <1>5
<1>6. Len(r) = Len(s) - 1
  BY <1>1, <1>4, <1>5, Zenon
<1>7. \A i \in 1 .. Len(r) : i \in 1 .. (Len(s) - 1 - 1 + 1) /\ 1 + i - 1 = i
  BY <1>1, <1>5, <1>6, Zenon
<1>8. \A k \in 1 .. Len(r) : r[k] = s[k]
  BY <1>4, <1>6, <1>7, Zenon
<1> QED BY <1>4, <1>6, <1>8 DEF r

LEMMA PopOK ==
    ASSUME NEW s, NEW c, StackOK(s, c), s # <<>>
    PROVE  LET r == SubSeq(s, 1, Len(s) - 1)
           IN  r \in Seq(FrameType) /\ AllWaiting(r) /\ \A d : StackOK(r, d)
<1> DEFINE r == SubSeq(s, 1, Len(s) - 1)
<1>1. s \in Seq(FrameType) /\ Len(s) \in Nat /\ Len(s) > 0
  BY DEF StackOK
<1>2. r \in Seq(FrameType) /\ Len(r) = Len(s) - 1 /\ \A k \in 1 .. Len(r) : r[k] = s[k]
  BY <1>1, PopElements
<1> HIDE DEF r
<1>3. AllWaiting(r)
  BY <1>1, <1>2 DEF AllWaiting, StackOK
<1>4. r # <<>> => Len(r) \in 1 .. Len(r)
  BY <1>2
<1>5. ASSUME NEW d PROVE StackOK(r, d)
  BY <1>2, <1>3, <1>4 DEF AllWaiting, StackOK, WaitingNames
<1> QED BY <1>2, <1>3, <1>5 DEF r

LEMMA PushOK ==
    ASSUME NEW s \in Seq(FrameType), AllWaiting(s), NEW f \in FrameType, NEW c,
           f.fn = "onContinueReading" => State(c) = "Open",
           f.fn = "onWriteReady" => c.open
    PROVE  /\ StackOK(Append(s, f), c)
           /\ Append(s, f) \in Seq(FrameType)
           /\ f.fn \in WaitingNames => AllWaiting(Append(s, f))
<1> DEFINE t == Append(s, f)
<1>1. t \in Seq(FrameType) /\ Len(t) = Len(s) + 1 /\ t[Len(t)] = f
      /\ \A k \in 1 .. Len(s) : t[k] = s[k]
  OBVIOUS
<1>2. Len(s) \in Nat
  OBVIOUS
<1> HIDE DEF t
<1>3. \A k \in 1 .. (Len(t) - 1) : t[k].fn \in WaitingNames
  BY <1>1, <1>2 DEF AllWaiting
<1>4. StackOK(t, c)
  BY <1>1, <1>3 DEF StackOK
<1>5. f.fn \in WaitingNames => AllWaiting(t)
  BY <1>1, <1>2 DEF AllWaiting
<1> QED BY <1>1, <1>4, <1>5 DEF t

LEMMA FrameIsFrame ==
    ASSUME NEW fn \in FrameNames, NEW i \in Nat
    PROVE  Frame(fn, i) \in FrameType /\ Frame(fn, i).fn = fn /\ Frame(fn, i).i = i
BY DEF Frame, FrameType

\* A stack stays as it is while the connection's state does, and while user
\* code or nobody runs, whatever becomes of the connection.
LEMMA SameStackOK ==
    ASSUME NEW c, StackOK(stack, conn),
           (State(c) = State(conn) /\ c.open = conn.open) \/ UserRuns
    PROVE  StackOK(stack, c)
BY DEF StackOK, UserRuns, Idle, Top, CallbackNames

LEMMA BecomesOK ==
    ASSUME NEW c, NEW event, EventsOK(raised, conn), Becomes(c, event),
           ~conn.open => ~c.open,
           conn.open /\ ~c.open => event \in {"LocalClose", "RemoteClose"},
           c.open => c.connecting = conn.connecting
    PROVE  conn' = c /\ EventsOK(raised', c)
<1>1. CASE conn.open /\ ~c.open
  <2> DEFINE r == Append(raised, event)
  <2>1. raised \in Seq(ConnectionEvents) /\ event \in ConnectionEvents
    BY <1>1 DEF EventsOK, ConnectionEvents
  <2>2. Len(raised) \in Nat /\ DOMAIN raised = 1 .. Len(raised)
    BY <2>1
  <2>3. r \in Seq(ConnectionEvents) /\ Len(r) = Len(raised) + 1
        /\ DOMAIN r = 1 .. (Len(raised) + 1) /\ r[Len(r)] = event
        /\ \A k \in 1 .. Len(raised) : r[k] = raised[k]
    BY <2>1
  <2>4. raised' = r /\ conn' = c
    BY <1>1 DEF Becomes
  <2> HIDE DEF r
  <2>5. \A k \in 1 .. Len(raised) : r[k] = "Connected"
    BY <1>1, <2>2, <2>3 DEF EventsOK
  <2>6. \A k \in DOMAIN r : r[k] = "Connected" <=> k < Len(r)
    BY <1>1, <2>2, <2>3, <2>5
  <2>7. \A j, k \in DOMAIN r : r[j] = "Connected" /\ r[k] = "Connected" => j = k
    BY <2>2, <2>3, <2>6 DEF EventsOK
  <2>8. r # <<>>
    BY <2>2, <2>3
  <2> QED BY <1>1, <2>3, <2>4, <2>6, <2>7, <2>8 DEF EventsOK
<1>2. CASE ~ (conn.open /\ ~c.open)
  BY <1>2 DEF Becomes, EventsOK
<1> QED BY <1>1, <1>2

LEMMA SameEventsOK ==
    ASSUME NEW c, EventsOK(raised, conn), c.open = conn.open,
           c.connecting = conn.connecting
    PROVE  EventsOK(raised, c)
BY DEF EventsOK

-------------------------------------------------------------------------------
(* The methods keep the invariant of the members.                          *)

LEMMA MethodKeeps ==
    ASSUME NEW c, NEW h \in Nat, ConnInv(c, h), NEW d \in ConnectionType,
           SameLifecycle(c, d), SameReads(c, d),
           c.open \/ (d.enabled = c.enabled /\ d.injected = c.injected)
    PROVE  ConnInv(d, h) /\ State(d) = State(c)
BY DEF SameLifecycle, SameReads, ConnInv, TimerInv, Balanced, Quiet, State

LEMMA CloseSocketInv ==
    ASSUME NEW c \in ConnectionType, NEW h \in Nat, c.timer => c.open, Quiet(c),
           c.delayed = "CloseAfterFlushAndWait" => c.delayedTimeout
    PROVE  ConnInv(CloseSocket(c), h) /\ ~CloseSocket(c).open
<1> DEFINE d == CloseSocket(c)
<1>1. /\ d \in ConnectionType /\ ~d.open /\ ~d.timer
      /\ d.delayed = c.delayed /\ d.delayedTimeout = c.delayedTimeout
      /\ c.open => d.enabled = {} /\ d.injected = {}
      /\ ~c.open => d = c
  BY CloseSocketEffect
<1> HIDE DEF d
<1>2. ConnInv(d, h)
  BY <1>1 DEF ConnInv, Balanced, TimerInv, Quiet, State
<1> QED BY <1>1, <1>2 DEF d

LEMMA CloseInv ==
    ASSUME NEW c, NEW h \in Nat, ConnInv(c, h), NEW s \in SocketType,
           NEW type \in CloseTypes
    PROVE  LET d == Close(c, s, type)
           IN  ConnInv(d, h) /\ d.connecting = c.connecting /\ (~c.open => ~d.open)
<1> DEFINE d == Close(c, s, type)
<1>1. /\ d \in ConnectionType /\ TimerInv(d) /\ Quiet(d) /\ State(d) # "Open"
      /\ d.connecting = c.connecting /\ (~c.open => ~d.open)
  BY CloseEffect DEF ConnInv
<1> HIDE DEF d
<1>2. ConnInv(d, h)
  BY <1>1 DEF ConnInv, Balanced
<1> QED BY <1>1, <1>2 DEF d

LEMMA DrainReadInv ==
    ASSUME NEW c, NEW h \in Nat, ConnInv(c, h), NEW n \in Nat, n <= c.readBuf
    PROVE  ConnInv(DrainRead(c, n), h) /\ SameLifecycle(c, DrainRead(c, n))
<1> DEFINE d == DrainRead(c, n)
<1>1. d \in ConnectionType /\ SameLifecycle(c, d) /\ Balanced(d, h)
  BY DrainReadEffect DEF ConnInv
<1>2. ~c.open => d.enabled = c.enabled /\ d.injected = c.injected
  BY DEF DrainRead, State, ConnInv, ConnectionType
<1> HIDE DEF d
<1>3. TimerInv(d) /\ Quiet(d)
  BY <1>1, <1>2 DEF ConnInv, TimerInv, Quiet, SameLifecycle
<1> QED BY <1>1, <1>3 DEF ConnInv, d

LEMMA DoReadInv ==
    ASSUME NEW c, NEW h \in Nat, ConnInv(c, h), c.open, NEW r, r.n \in Nat
    PROVE  ConnInv(DoRead(c, r), h) /\ SameLifecycle(c, DoRead(c, r))
<1> DEFINE d == IF r.n > 0 THEN AppendRead(c, r.n) ELSE c
           e == SetTransportSocketIsReadable(d)
<1>1. d \in ConnectionType /\ SameLifecycle(c, d) /\ Balanced(d, h)
  <2>1. CASE r.n > 0
    BY <2>1, AppendReadEffect DEF ConnInv
  <2>2. CASE ~ (r.n > 0)
    BY <2>2 DEF ConnInv, SameLifecycle
  <2> QED BY <2>1, <2>2
<1>2. DoRead(c, r) = d \/ DoRead(c, r) = e
  BY DEF DoRead
<1> HIDE DEF d
<1>3. ConnInv(d, h) /\ d.open
  BY <1>1 DEF ConnInv, TimerInv, Quiet, SameLifecycle
<1>4. e \in ConnectionType /\ SameLifecycle(d, e) /\ SameReads(d, e)
  BY <1>1, SetTransportSocketIsReadableKeeps
<1> HIDE DEF e
<1>5. ConnInv(e, h)
  BY <1>3, <1>4, MethodKeeps
<1> QED BY <1>1, <1>2, <1>3, <1>4, <1>5 DEF SameLifecycle

LEMMA OnReadInv ==
    ASSUME NEW c, NEW h \in Nat, ConnInv(c, h)
    PROVE  ConnInv(OnRead(c), h) /\ SameLifecycle(c, OnRead(c))
<1> DEFINE d == [c EXCEPT !.readEndRaised = TRUE]
<1>1. d \in ConnectionType /\ SameLifecycle(c, d) /\ SameReads(c, d)
      /\ d.enabled = c.enabled /\ d.injected = c.injected
  BY DEF ConnInv, ConnectionType, SameLifecycle, SameReads
<1>2. OnRead(c) = c \/ OnRead(c) = d
  BY DEF OnRead
<1> HIDE DEF d
<1>3. ConnInv(d, h)
  BY <1>1, MethodKeeps
<1> QED BY <1>1, <1>2, <1>3 DEF SameLifecycle

-------------------------------------------------------------------------------
(* Initial states and steps.                                               *)

LEMMA InitIInv == Init => IInv
<1> SUFFICES ASSUME Init PROVE IInv
  OBVIOUS
<1> USE ConnectionAssumption
<1>1. PICK g \in Configs :
         /\ conn = [open |-> TRUE,
                    connecting |-> g.client /\ g.error # "RemoteClose",
                    immediateError |-> g.error,
                    halfClose |-> g.halfClose, earlyClose |-> g.earlyClose,
                    delayedTimeout |-> g.delayedTimeout,
                    delayed |-> "None", timer |-> FALSE,
                    readBuf |-> 0, readHigh |-> FALSE,
                    writeBuf |-> 0, writeHigh |-> FALSE,
                    disabled |-> 0,
                    readEnd |-> FALSE, readEndRaised |-> FALSE,
                    writeEnd |-> FALSE, shutdown |-> FALSE,
                    dispatchBuffered |-> FALSE, transportWantsRead |-> FALSE,
                    enabled |-> {"Read", "Write"}, armed |-> TRUE,
                    injected |-> IF g.error # "none" THEN {"Write"} ELSE {}]
         /\ sock = [state |-> IF ~g.client THEN "up"
                              ELSE IF g.error # "none" THEN "failed" ELSE "pending",
                    rx |-> 0, fin |-> FALSE, reset |-> FALSE, room |-> SendRoom]
  BY DEF Init
<1>2. g \in ConfigType
  OBVIOUS
<1>3. conn \in ConnectionType
  <2> DEFINE connecting == g.client /\ g.error # "RemoteClose"
             injected == IF g.error # "none" THEN {"Write"} ELSE {}
  <2>1. connecting \in BOOLEAN /\ injected \in SUBSET Events
    BY DEF Events
  <2>2. {"Read", "Write"} \in SUBSET Events
    BY DEF Events
  <2>3. conn.connecting = connecting /\ conn.injected = injected
    BY <1>1
  <2> HIDE DEF connecting, injected
  <2> QED BY <1>1, <1>2, <2>1, <2>2, <2>3 DEF ConnectionType, ConfigType
<1>4. /\ conn.open /\ conn.delayed = "None" /\ ~conn.timer
      /\ conn.disabled = 0 /\ ~conn.readHigh
  BY <1>1
<1>5. hist = [received |-> 0, written |-> 0, sent |-> 0, disables |-> 0]
  BY DEF Init
<1>6. ConnInv(conn, hist.disables) /\ State(conn) = "Open"
  BY <1>3, <1>4, <1>5 DEF ConnInv, Balanced, TimerInv, Quiet, State
<1>7. sock \in SocketType
  BY <1>1 DEF SocketType
<1>8. filters \in FiltersType /\ hist \in HistoryType
  BY <1>5 DEF Init, FiltersType, HistoryType
<1>9. StackOK(stack, conn)
  BY <1>6 DEF Init, StackOK, Frame, FrameType, FrameNames, CallbackNames
<1>10. EventsOK(raised, conn)
  BY <1>4 DEF Init, EventsOK
<1> QED BY <1>6, <1>7, <1>8, <1>9, <1>10 DEF IInv

\* The kernel's steps arm the file event at most.
LEMMA WakesOK ==
    ASSUME IInv, NEW events, Wakes(events), sock' \in SocketType,
           UNCHANGED <<stack, filters, raised, hist>>
    PROVE  IInv'
<1> DEFINE armed == conn.armed \/ conn.enabled \cap events # {}
<1>1. conn' = [conn EXCEPT !.armed = armed] /\ armed \in BOOLEAN
  BY DEF Wakes
<1> HIDE DEF armed
<1>2. /\ conn' \in ConnectionType /\ SameLifecycle(conn, conn')
      /\ SameReads(conn, conn')
      /\ conn'.enabled = conn.enabled /\ conn'.injected = conn.injected
  BY <1>1 DEF IInv, ConnInv, ConnectionType, SameLifecycle, SameReads
<1>3. hist.disables \in Nat
  BY DEF IInv, HistoryType
<1>4. ConnInv(conn', hist.disables) /\ State(conn') = State(conn)
  BY <1>2, <1>3, MethodKeeps DEF IInv
<1>5. StackOK(stack, conn') /\ EventsOK(raised, conn')
  BY <1>2, <1>4, SameStackOK, SameEventsOK DEF IInv, SameLifecycle
<1> QED BY <1>4, <1>5 DEF IInv

LEMMA KernelInv == IInv /\ Kernel => IInv'
<1> SUFFICES ASSUME IInv, Kernel PROVE IInv'
  OBVIOUS
<1> USE ConnectionAssumption
<1>1. ASSUME NEW state \in {"up", "failed"}, ConnectEnds(state) PROVE IInv'
  <2>1. sock' \in SocketType
    BY <1>1 DEF ConnectEnds, IInv, SocketType
  <2> QED BY <1>1, <2>1, WakesOK DEF ConnectEnds
<1>2. CASE PeerSends
  <2>1. sock' \in SocketType
    BY <1>2 DEF PeerSends, IInv, SocketType
  <2> QED BY <1>2, <2>1, WakesOK DEF PeerSends
<1>3. CASE PeerFinishes
  <2>1. sock' \in SocketType
    BY <1>3 DEF PeerFinishes, IInv, SocketType
  <2> QED BY <1>3, <2>1, WakesOK DEF PeerFinishes
<1>4. CASE PeerResets
  <2>1. sock' \in SocketType
    BY <1>4 DEF PeerResets, IInv, SocketType
  <2> QED BY <1>4, <2>1, WakesOK DEF PeerResets
<1>5. CASE PeerReads
  <2>1. sock' \in SocketType
    BY <1>5 DEF PeerReads, IInv, SocketType
  <2>2. CASE Wakes({"Write"})
    BY <1>5, <2>1, <2>2, WakesOK DEF PeerReads
  <2>3. CASE UNCHANGED conn
    BY <1>5, <2>1, <2>3 DEF PeerReads, IInv
  <2> QED BY <1>5, <2>2, <2>3 DEF PeerReads
<1> QED BY <1>1, <1>2, <1>3, <1>4, <1>5 DEF Kernel

LEMMA OnFileEventInv ==
    ASSUME IInv, Idle, conn.open, NEW c, NEW events,
           ConnInv(c, hist.disables), SameLifecycle(conn, c),
           OnFileEvent(c, events), UNCHANGED <<sock, filters, hist>>
    PROVE  IInv'
<1>1. hist.disables \in Nat /\ c \in ConnectionType /\ c.open
  BY DEF IInv, HistoryType, ConnInv, SameLifecycle
<1>2. ASSUME NEW event \in {"LocalClose", "RemoteClose"},
             Becomes(CloseSocket(c), event), UNCHANGED stack
      PROVE  IInv'
  <2>1. ConnInv(CloseSocket(c), hist.disables) /\ ~CloseSocket(c).open
    BY <1>1, CloseSocketInv DEF ConnInv, TimerInv
  <2>2. conn' = CloseSocket(c) /\ EventsOK(raised', conn')
    BY <1>2, <2>1, BecomesOK DEF IInv
  <2>3. StackOK(stack', conn')
    BY <1>2, SameStackOK DEF UserRuns, IInv
  <2> QED BY <2>1, <2>2, <2>3 DEF IInv
<1>3. CASE c.immediateError # "none"
  <2>1. c.immediateError \in {"LocalClose", "RemoteClose"}
    BY <1>1, <1>3 DEF ConnectionType
  <2> QED BY <1>2, <1>3, <2>1 DEF OnFileEvent
<1>4. CASE c.immediateError = "none" /\ "Closed" \in events
  BY <1>2, <1>4 DEF OnFileEvent
<1>5. CASE c.immediateError = "none" /\ "Closed" \notin events
  <2> DEFINE read == IF "Read" \in events THEN <<Frame("onReadReady", 0)>> ELSE <<>>
  <2>1. /\ Becomes(c, "none")
        /\ stack' = IF "Write" \in events THEN Append(read, Frame("onWriteReady", 0))
                    ELSE read
    BY <1>5 DEF OnFileEvent
  <2>2. conn' = c /\ EventsOK(raised', conn')
    BY <1>1, <2>1, BecomesOK DEF IInv, SameLifecycle
  <2>3. Frame("onReadReady", 0) \in FrameType /\ Frame("onWriteReady", 0) \in FrameType
        /\ Frame("onReadReady", 0).fn = "onReadReady"
        /\ Frame("onWriteReady", 0).fn = "onWriteReady"
    BY FrameIsFrame DEF FrameNames
  <2>4. read \in Seq(FrameType) /\ AllWaiting(read) /\ StackOK(read, c)
    BY <2>3 DEF AllWaiting, StackOK, WaitingNames
  <2> HIDE DEF read
  <2>5. StackOK(Append(read, Frame("onWriteReady", 0)), c)
    BY <1>1, <2>3, <2>4, PushOK
  <2> QED BY <2>1, <2>2, <2>4, <2>5 DEF IInv
<1> QED BY <1>3, <1>4, <1>5

LEMMA EventLoopInv == IInv /\ (FdReady \/ Activation \/ DelayedCloseTimeout) => IInv'
<1> SUFFICES ASSUME IInv, FdReady \/ Activation \/ DelayedCloseTimeout PROVE IInv'
  OBVIOUS
<1>1. hist.disables \in Nat /\ conn \in ConnectionType
  BY DEF IInv, HistoryType, ConnInv
<1>2. CASE FdReady
  <2> DEFINE c == [conn EXCEPT !.armed = FALSE, !.injected = {}]
  <2>1. conn.open
    BY <1>2 DEF FdReady, FdEvents, IInv, ConnInv, Quiet
  <2>2. c \in ConnectionType /\ SameLifecycle(conn, c) /\ SameReads(conn, c)
    BY <1>1 DEF ConnectionType, SameLifecycle, SameReads
  <2>3. Idle /\ OnFileEvent(c, FdEvents \cup conn.injected) /\ UNCHANGED <<sock, filters, hist>>
    BY <1>2 DEF FdReady
  <2> HIDE DEF c
  <2>4. ConnInv(c, hist.disables)
    BY <1>1, <2>1, <2>2, MethodKeeps DEF IInv
  <2> QED BY <2>1, <2>2, <2>3, <2>4, OnFileEventInv
<1>3. CASE Activation
  <2> DEFINE c == [conn EXCEPT !.injected = {}]
  <2>1. conn.open
    BY <1>3 DEF Activation, IInv, ConnInv, Quiet
  <2>2. c \in ConnectionType /\ SameLifecycle(conn, c) /\ SameReads(conn, c)
    BY <1>1 DEF ConnectionType, SameLifecycle, SameReads
  <2>3. Idle /\ OnFileEvent(c, conn.injected) /\ UNCHANGED <<sock, filters, hist>>
    BY <1>3 DEF Activation
  <2> HIDE DEF c
  <2>4. ConnInv(c, hist.disables)
    BY <1>1, <2>1, <2>2, MethodKeeps DEF IInv
  <2> QED BY <2>1, <2>2, <2>3, <2>4, OnFileEventInv
<1>4. CASE DelayedCloseTimeout
  <2> DEFINE c == [conn EXCEPT !.timer = FALSE]
  <2>1. c \in ConnectionType /\ ~c.timer /\ Quiet(c)
        /\ (c.delayed = "CloseAfterFlushAndWait" => c.delayedTimeout)
    BY <1>1 DEF ConnectionType, IInv, ConnInv, TimerInv, Quiet
  <2>2. Idle /\ Becomes(CloseSocket(c), "LocalClose") /\ UNCHANGED <<sock, stack, filters, hist>>
    BY <1>4 DEF DelayedCloseTimeout
  <2> HIDE DEF c
  <2>3. ConnInv(CloseSocket(c), hist.disables) /\ ~CloseSocket(c).open
    BY <1>1, <2>1, CloseSocketInv
  <2>4. conn' = CloseSocket(c) /\ EventsOK(raised', conn')
    BY <2>2, <2>3, BecomesOK DEF IInv
  <2>5. StackOK(stack', conn')
    BY <2>2, SameStackOK DEF UserRuns, IInv
  <2> QED BY <2>2, <2>3, <2>4, <2>5 DEF IInv
<1> QED BY <1>2, <1>3, <1>4

LEMMA DoWriteReadyInv ==
    ASSUME IInv, conn.open, stack # <<>>, DoWriteReady
    PROVE  IInv'
<1> DEFINE c == DoWrite(conn, sock, conn.writeEnd)
<1>1. conn \in ConnectionType /\ sock \in SocketType /\ conn.writeEnd \in BOOLEAN
      /\ hist.disables \in Nat /\ hist \in HistoryType
  BY DEF IInv, ConnInv, ConnectionType, HistoryType
<1>2. c \in ConnectionType /\ SameLifecycle(conn, c) /\ SameReads(conn, c)
  BY <1>1, DoWriteKeeps
<1>3. /\ \/ Becomes(CloseSocket(c), "RemoteClose")
         \/ Becomes(CloseSocket(c), "LocalClose")
         \/ Becomes(c, "none")
      /\ KernelTook(Writable(conn, sock))
      /\ stack' = Return
      /\ filters' = filters
  BY DEF DoWriteReady
<1> HIDE DEF c
<1>4. ConnInv(c, hist.disables) /\ c.open
  BY <1>1, <1>2, MethodKeeps DEF IInv, SameLifecycle
<1>5. sock' \in SocketType /\ hist' \in HistoryType /\ hist'.disables = hist.disables
  <2>1. Writable(conn, sock) \in Nat /\ Writable(conn, sock) <= sock.room
    BY <1>1, WritableBounds
  <2> QED BY <1>1, <1>3, <2>1 DEF KernelTook, SocketType, HistoryType
<1>6. \A d : StackOK(Return, d)
  BY PopOK DEF Return, IInv
<1>7. CASE Becomes(c, "none")
  <2>1. conn' = c /\ EventsOK(raised', c)
    BY <1>2, <1>4, <1>7, BecomesOK DEF IInv, SameLifecycle
  <2> QED BY <1>3, <1>4, <1>5, <1>6, <2>1 DEF IInv
<1>8. ASSUME NEW event \in {"LocalClose", "RemoteClose"}, Becomes(CloseSocket(c), event)
      PROVE  IInv'
  <2>1. ConnInv(CloseSocket(c), hist.disables) /\ ~CloseSocket(c).open
    BY <1>1, <1>4, CloseSocketInv DEF ConnInv, TimerInv
  <2>2. conn' = CloseSocket(c) /\ EventsOK(raised', conn')
    BY <1>8, <2>1, BecomesOK DEF IInv
  <2> QED BY <1>3, <1>5, <1>6, <2>1, <2>2 DEF IInv
<1> QED BY <1>3, <1>7, <1>8

\* Steps that close the socket and leave the handler.
LEMMA CloseSocketReturns ==
    ASSUME IInv, stack # <<>>, NEW c, c = conn \/ c = CloseSocket(conn),
           NEW event \in {"LocalClose", "RemoteClose"}, Becomes(c, event),
           stack' = Return, UNCHANGED <<sock, filters, hist>>
    PROVE  IInv'
<1>1. conn \in ConnectionType /\ hist.disables \in Nat
  BY DEF IInv, ConnInv, HistoryType
<1>2. ConnInv(CloseSocket(conn), hist.disables) /\ ~CloseSocket(conn).open
  BY <1>1, CloseSocketInv DEF IInv, ConnInv, TimerInv
<1>3. ConnInv(c, hist.disables)
  BY <1>2 DEF IInv
<1>4. conn' = c /\ EventsOK(raised', conn')
  BY <1>2, BecomesOK DEF IInv
<1>5. StackOK(stack', conn')
  BY PopOK DEF Return, IInv
<1> QED BY <1>3, <1>4, <1>5 DEF IInv

\* Steps that only leave the handler.
LEMMA ReturnInv ==
    ASSUME IInv, stack # <<>>, stack' = Return,
           UNCHANGED <<conn, sock, filters, raised, hist>>
    PROVE  IInv'
<1>1. StackOK(stack', conn')
  BY PopOK DEF Return, IInv
<1> QED BY <1>1 DEF IInv

LEMMA WriteHandlersInv ==
    IInv /\ (OnWriteReady \/ FlushWriteBuffer \/ AfterConnected) => IInv'
<1> SUFFICES ASSUME IInv, OnWriteReady \/ FlushWriteBuffer \/ AfterConnected PROVE IInv'
  OBVIOUS
<1>1. stack # <<>>
  BY DEF OnWriteReady, FlushWriteBuffer, AfterConnected, Running
<1>2. CASE OnWriteReady
  <2>1. conn.open
    BY <1>1, <1>2 DEF OnWriteReady, Running, Top, IInv, StackOK
  <2>2. CASE ~conn.connecting /\ DoWriteReady
    BY <1>1, <2>1, <2>2, DoWriteReadyInv
  <2>3. CASE Becomes(CloseSocket(conn), "RemoteClose") /\ stack' = Return
             /\ UNCHANGED <<sock, filters, hist>>
    BY <1>1, <2>3, CloseSocketReturns
  <2>4. CASE /\ conn.connecting
             /\ conn' = [conn EXCEPT !.connecting = FALSE]
             /\ raised' = Append(raised, "Connected")
             /\ stack' = Append(Append(Append(Return, Frame("afterConnected", 0)),
                                       Frame("flushWriteBuffer", 0)),
                                Frame("onConnected", 0))
             /\ UNCHANGED <<sock, filters, hist>>
    <3>1. ConnInv(conn', hist.disables) /\ conn'.open /\ ~conn'.connecting
      BY <2>1, <2>4 DEF IInv, ConnInv, ConnectionType, Balanced, TimerInv, Quiet, State
    <3>2. raised = <<>>
      BY <2>1, <2>4 DEF IInv, EventsOK
    <3>3. EventsOK(raised', conn')
      BY <2>4, <3>1, <3>2 DEF EventsOK, ConnectionEvents
    <3>4. StackOK(stack', conn')
      <4> DEFINE r == Return
                 s1 == Append(r, Frame("afterConnected", 0))
                 s2 == Append(s1, Frame("flushWriteBuffer", 0))
      <4>1. r \in Seq(FrameType) /\ AllWaiting(r)
        BY <1>1, PopOK DEF Return, IInv
      <4> HIDE DEF r
      <4>2. /\ Frame("afterConnected", 0) \in FrameType
            /\ Frame("flushWriteBuffer", 0) \in FrameType
            /\ Frame("onConnected", 0) \in FrameType
            /\ Frame("afterConnected", 0).fn = "afterConnected"
            /\ Frame("flushWriteBuffer", 0).fn = "flushWriteBuffer"
            /\ Frame("onConnected", 0).fn = "onConnected"
        BY FrameIsFrame DEF FrameNames, CallbackNames
      <4>3. s1 \in Seq(FrameType) /\ AllWaiting(s1)
        BY <4>1, <4>2, PushOK DEF WaitingNames
      <4> HIDE DEF s1
      <4>4. s2 \in Seq(FrameType) /\ AllWaiting(s2)
        BY <4>2, <4>3, PushOK DEF WaitingNames
      <4> HIDE DEF s2
      <4>5. StackOK(Append(s2, Frame("onConnected", 0)), conn')
        BY <4>2, <4>4, PushOK
      <4> QED BY <2>4, <4>5 DEF r, s1, s2
    <3> QED BY <2>4, <3>1, <3>3, <3>4 DEF IInv
  <2> QED BY <1>2, <2>2, <2>3, <2>4 DEF OnWriteReady
<1>3. CASE FlushWriteBuffer
  <2>1. CASE State(conn) = "Open" /\ DoWriteReady
    BY <1>1, <2>1, DoWriteReadyInv DEF State
  <2>2. CASE stack' = Return /\ UNCHANGED <<conn, sock, filters, raised, hist>>
    BY <1>1, <2>2, ReturnInv
  <2> QED BY <1>3, <2>1, <2>2 DEF FlushWriteBuffer
<1>4. CASE AfterConnected
  <2>1. CASE State(conn) = "Open" /\ DoWriteReady
    BY <1>1, <2>1, DoWriteReadyInv DEF State
  <2>2. CASE stack' = Return /\ UNCHANGED <<conn, sock, filters, raised, hist>>
    BY <1>1, <2>2, ReturnInv
  <2> QED BY <1>4, <2>1, <2>2 DEF AfterConnected
<1> QED BY <1>2, <1>3, <1>4

LEMMA ReadOutcomeBounds ==
    ASSUME NEW c, NEW s \in SocketType, NEW r \in ReadOutcomes(c, s)
    PROVE  r.n \in Nat /\ r.n <= s.rx
BY DEF ReadOutcomes, SocketType

\* Entering the filter loop from a handler whose frame was s's last.
LEMMA EnterFiltersOK ==
    ASSUME NEW s \in Seq(FrameType), AllWaiting(s), NEW c, c.open, OnReadEnters(c)
    PROVE  StackOK(Append(s, Frame("onContinueReading", 1)), OnRead(c))
<1>1. /\ Frame("onContinueReading", 1) \in FrameType
      /\ Frame("onContinueReading", 1).fn = "onContinueReading"
  BY FrameIsFrame DEF FrameNames
<1>2. State(OnRead(c)) = "Open"
  BY DEF OnReadEnters, OnRead, State
<1> QED BY <1>1, <1>2, PushOK

LEMMA ReadHandlersInv ==
    IInv /\ (OnReadReady \/ OnReadReadyDisabled \/ OnReadReadyClosed
             \/ CloseRemote \/ CloseIfDone) => IInv'
<1> SUFFICES ASSUME IInv,
                    OnReadReady \/ OnReadReadyDisabled \/ OnReadReadyClosed
                    \/ CloseRemote \/ CloseIfDone
             PROVE  IInv'
  OBVIOUS
<1>1. stack # <<>>
  BY DEF OnReadReady, OnReadReadyDisabled, OnReadReadyClosed, CloseRemote, CloseIfDone,
         Running
<1>2. conn \in ConnectionType /\ hist.disables \in Nat /\ hist \in HistoryType
      /\ sock \in SocketType
  BY DEF IInv, ConnInv, HistoryType
<1>3. Return \in Seq(FrameType) /\ AllWaiting(Return) /\ \A d : StackOK(Return, d)
  BY <1>1, PopOK DEF Return, IInv
<1>4. CASE OnReadReady
  <2>1. conn.open
    BY <1>4 DEF OnReadReady
  <2> DEFINE c0 == [conn EXCEPT !.dispatchBuffered = FALSE, !.transportWantsRead = FALSE]
             cc(r) == DoRead(c0, r)
             ended(r) == r.end = "eof" /\ cc(r).halfClose
             dd(r) == [cc(r) EXCEPT !.readEnd = @ \/ ended(r)]
             close(r) == r.end = "error" \/ (r.end = "eof" /\ ~cc(r).halfClose)
             f(r) == Frame(IF close(r) THEN "closeRemote" ELSE "closeIfDone", 0)
             after(r) == Append(Return, f(r))
  <2>2. PICK r \in ReadOutcomes(conn, sock) :
           /\ \/ /\ OnReadEnters(dd(r))
                 /\ conn' = OnRead(dd(r))
                 /\ stack' = Append(after(r), Frame("onContinueReading", 1))
              \/ /\ conn' = dd(r)
                 /\ stack' = after(r)
           /\ sock' = [sock EXCEPT !.rx = @ - r.n]
           /\ hist' = [hist EXCEPT !.received = @ + r.n]
    BY <1>4 DEF OnReadReady
  <2>3. filters' = filters /\ raised' = raised
    BY <1>4 DEF OnReadReady
  <2>4. r.n \in Nat /\ r.n <= sock.rx
    BY <1>2, ReadOutcomeBounds
  <2>5. sock' \in SocketType /\ hist' \in HistoryType /\ hist'.disables = hist.disables
    <3>1. sock' = [sock EXCEPT !.rx = @ - r.n] /\ hist' = [hist EXCEPT !.received = @ + r.n]
      BY <2>2
    <3> QED BY <1>2, <2>4, <3>1 DEF SocketType, HistoryType
  <2>6. c0 \in ConnectionType /\ SameLifecycle(conn, c0) /\ SameReads(conn, c0)
    BY <1>2 DEF ConnectionType, SameLifecycle, SameReads
  <2> DEFINE c == DoRead(c0, r)
             d == [c EXCEPT !.readEnd = @ \/ ended(r)]
  <2>7. /\ \/ /\ OnReadEnters(d)
              /\ conn' = OnRead(d)
              /\ stack' = Append(after(r), Frame("onContinueReading", 1))
           \/ /\ conn' = d
              /\ stack' = after(r)
    BY <2>2
  <2> HIDE DEF c0
  <2>8. ConnInv(c0, hist.disables) /\ c0.open
    BY <1>2, <2>1, <2>6, MethodKeeps DEF IInv, SameLifecycle
  <2>9. ConnInv(c, hist.disables) /\ SameLifecycle(c0, c)
    BY <1>2, <2>4, <2>8, DoReadInv
  <2> DEFINE e == ended(r)
  <2>10. e \in BOOLEAN /\ d = [c EXCEPT !.readEnd = @ \/ e]
    OBVIOUS
  <2> HIDE DEF c, e, d
  <2>11. c.open /\ c \in ConnectionType
    BY <2>8, <2>9 DEF ConnInv, SameLifecycle
  <2>12. d \in ConnectionType /\ SameLifecycle(c, d) /\ SameReads(c, d)
    <3> DEFINE b == c.readEnd \/ e
    <3>1. b \in BOOLEAN /\ d = [c EXCEPT !.readEnd = b]
      BY <2>10
    <3> HIDE DEF b
    <3> QED BY <2>11, <3>1 DEF ConnectionType, SameLifecycle, SameReads
  <2>13. ConnInv(d, hist.disables) /\ SameLifecycle(conn, d) /\ d.open
    BY <1>2, <2>6, <2>9, <2>11, <2>12, MethodKeeps DEF SameLifecycle
  <2>14. /\ f(r) \in FrameType /\ f(r).fn \in WaitingNames
         /\ f(r).fn # "onContinueReading" /\ f(r).fn # "onWriteReady"
    BY FrameIsFrame DEF FrameNames, WaitingNames
  <2> HIDE DEF f
  <2>15. after(r) \in Seq(FrameType) /\ AllWaiting(after(r)) /\ StackOK(after(r), d)
    BY <1>3, <2>14, PushOK
  <2> HIDE DEF after
  <2>16. CASE conn' = d /\ stack' = after(r)
    <3>1. EventsOK(raised', conn')
      BY <2>3, <2>13, <2>16, SameEventsOK DEF IInv, SameLifecycle
    <3> QED BY <2>3, <2>5, <2>13, <2>15, <2>16, <3>1 DEF IInv
  <2>17. CASE /\ OnReadEnters(d)
              /\ conn' = OnRead(d)
              /\ stack' = Append(after(r), Frame("onContinueReading", 1))
    <3>1. StackOK(stack', conn')
      BY <2>13, <2>15, <2>17, EnterFiltersOK
    <3>2. ConnInv(conn', hist.disables) /\ SameLifecycle(d, conn')
      BY <1>2, <2>13, <2>17, OnReadInv
    <3>3. EventsOK(raised', conn')
      BY <2>3, <2>13, <3>2, SameEventsOK DEF IInv, SameLifecycle
    <3> QED BY <2>3, <2>5, <3>1, <3>2, <3>3 DEF IInv
  <2> QED BY <2>7, <2>16, <2>17
<1>5. CASE OnReadReadyDisabled
  <2> DEFINE c == [conn EXCEPT !.dispatchBuffered = FALSE]
  <2>1. /\ conn.open
        /\ \/ /\ OnReadEnters(c)
              /\ conn' = OnRead(c)
              /\ stack' = Append(Return, Frame("onContinueReading", 1))
           \/ conn' = c /\ stack' = Return
        /\ UNCHANGED <<sock, filters, raised, hist>>
    BY <1>5 DEF OnReadReadyDisabled
  <2>2. c \in ConnectionType /\ SameLifecycle(conn, c) /\ SameReads(conn, c)
    BY <1>2 DEF ConnectionType, SameLifecycle, SameReads
  <2> HIDE DEF c
  <2>3. ConnInv(c, hist.disables) /\ c.open
    BY <1>2, <2>1, <2>2, MethodKeeps DEF IInv, SameLifecycle
  <2>4. CASE conn' = c /\ stack' = Return
    <3>1. EventsOK(raised', conn')
      BY <2>1, <2>2, <2>4, SameEventsOK DEF IInv, SameLifecycle
    <3> QED BY <1>3, <2>1, <2>3, <2>4, <3>1 DEF IInv
  <2>5. CASE /\ OnReadEnters(c)
             /\ conn' = OnRead(c)
             /\ stack' = Append(Return, Frame("onContinueReading", 1))
    <3>1. StackOK(stack', conn')
      BY <1>3, <2>3, <2>5, EnterFiltersOK
    <3>2. ConnInv(conn', hist.disables) /\ SameLifecycle(c, conn')
      BY <1>2, <2>3, <2>5, OnReadInv
    <3>3. EventsOK(raised', conn')
      BY <2>1, <2>2, <3>2, SameEventsOK DEF IInv, SameLifecycle
    <3> QED BY <2>1, <3>1, <3>2, <3>3 DEF IInv
  <2> QED BY <2>1, <2>4, <2>5
<1>6. CASE OnReadReadyClosed
  BY <1>1, <1>6, ReturnInv DEF OnReadReadyClosed
<1>7. CASE CloseRemote
  BY <1>1, <1>7, CloseSocketReturns DEF CloseRemote
<1>8. CASE CloseIfDone
  <2> DEFINE c == IF BothSidesHalfClosed(conn) THEN CloseSocket(conn) ELSE conn
  <2>1. c = conn \/ c = CloseSocket(conn)
    OBVIOUS
  <2>2. Becomes(c, "RemoteClose") /\ stack' = Return /\ UNCHANGED <<sock, filters, hist>>
    BY <1>8 DEF CloseIfDone
  <2> HIDE DEF c
  <2> QED BY <1>1, <2>1, <2>2, CloseSocketReturns
<1> QED BY <1>4, <1>5, <1>6, <1>7, <1>8

LEMMA SetFilterOK ==
    ASSUME filters \in FiltersType, NEW i, NEW b \in BOOLEAN, NEW n \in {0, 1}
    PROVE  /\ [filters EXCEPT !.initialized[i] = b] \in FiltersType
           /\ [filters EXCEPT !.stopped[i] = b] \in FiltersType
           /\ [filters EXCEPT !.stopped[i] = b, !.ended[i] = @ + n] \in FiltersType
<1> DEFINE f == [filters.initialized EXCEPT ![i] = b]
           g == [filters.stopped EXCEPT ![i] = b]
           h == [filters.ended EXCEPT ![i] = @ + n]
<1>1. f \in [Filters -> BOOLEAN] /\ g \in [Filters -> BOOLEAN]
  BY DEF FiltersType
<1>2. h \in [Filters -> Nat]
  <2>1. filters.ended \in [Filters -> Nat] /\ n \in Nat
    BY DEF FiltersType
  <2>2. CASE i \in Filters
    BY <2>1, <2>2
  <2>3. CASE i \notin Filters
    BY <2>1, <2>3
  <2> QED BY <2>2, <2>3
<1>3. /\ [filters EXCEPT !.initialized[i] = b] = [filters EXCEPT !.initialized = f]
      /\ [filters EXCEPT !.stopped[i] = b] = [filters EXCEPT !.stopped = g]
      /\ [filters EXCEPT !.stopped[i] = b, !.ended[i] = @ + n]
         = [filters EXCEPT !.stopped = g, !.ended = h]
  BY DEF FiltersType
<1> HIDE DEF f, g, h
<1> QED BY <1>1, <1>2, <1>3 DEF FiltersType

\* The top frame is replaced by another one.
LEMMA ReplaceTopInv ==
    ASSUME IInv, stack # <<>>, NEW f \in FrameType, stack' = Append(Return, f),
           f.fn = "onContinueReading" => State(conn) = "Open",
           f.fn # "onWriteReady",
           filters' \in FiltersType, UNCHANGED <<conn, sock, raised, hist>>
    PROVE  IInv'
<1>1. Return \in Seq(FrameType) /\ AllWaiting(Return)
  BY PopOK DEF Return, IInv
<1>2. StackOK(stack', conn')
  BY <1>1, PushOK
<1> QED BY <1>2 DEF IInv

LEMMA FilterLoopInv ==
    IInv /\ (\/ OnContinueReading \/ ConnectedReturns
             \/ \E status \in {"Continue", "StopIteration"} : FilterReturns(status)
             \/ \E i \in Filters : ContinueReading(i)) => IInv'
<1> SUFFICES ASSUME IInv,
                    \/ OnContinueReading \/ ConnectedReturns
                    \/ \E status \in {"Continue", "StopIteration"} : FilterReturns(status)
                    \/ \E i \in Filters : ContinueReading(i)
             PROVE  IInv'
  OBVIOUS
<1>1. filters \in FiltersType /\ stack \in Seq(FrameType)
  BY DEF IInv, StackOK
<1>2. stack # <<>> => Top \in FrameType /\ Top.i \in Nat /\ \A c : StackOK(Return, c)
  <2>1. stack # <<>> => Top \in FrameType
    BY <1>1 DEF Top
  <2>2. stack # <<>> => \A c : StackOK(Return, c)
    BY PopOK DEF Return, IInv
  <2> QED BY <2>1, <2>2 DEF FrameType
<1>3. ASSUME NEW i \in Nat
      PROVE  /\ Frame("onContinueReading", i) \in FrameType
             /\ Frame("onNewConnection", i) \in FrameType
             /\ Frame("onData", i) \in FrameType
             /\ Frame("onNewConnection", i).fn = "onNewConnection"
             /\ Frame("onData", i).fn = "onData"
             /\ Frame("onContinueReading", i).fn = "onContinueReading"
  BY FrameIsFrame DEF FrameNames, CallbackNames
<1>4. CASE OnContinueReading
  <2> DEFINE i == Top.i
  <2>1. stack # <<>> /\ State(conn) = "Open" /\ UNCHANGED <<conn, sock, raised, hist>>
    BY <1>4 DEF OnContinueReading, Running, Top, IInv, StackOK
  <2>2. i \in Nat /\ i + 1 \in Nat
    BY <1>2, <2>1
  <2>3. CASE stack' = Return /\ filters' = filters
    BY <2>1, <2>3, ReturnInv
  <2>4. CASE /\ stack' = Append(Return, Frame("onNewConnection", i))
             /\ filters' = [filters EXCEPT !.initialized[i] = TRUE]
    <3>1. filters' \in FiltersType
      BY <1>1, <2>4, SetFilterOK
    <3> QED BY <1>3, <2>1, <2>2, <2>4, <3>1, ReplaceTopInv
  <2>5. CASE /\ stack' = Append(Return, Frame("onData", i))
             /\ filters' = [filters EXCEPT !.stopped[i] = FALSE,
                                          !.ended[i] = @ + (IF conn.readEnd THEN 1 ELSE 0)]
    <3> DEFINE n == IF conn.readEnd THEN 1 ELSE 0
    <3>1. n \in {0, 1} /\ filters' = [filters EXCEPT !.stopped[i] = FALSE, !.ended[i] = @ + n]
      BY <2>5
    <3> HIDE DEF n
    <3>2. filters' \in FiltersType
      BY <1>1, <3>1, SetFilterOK
    <3> QED BY <1>3, <2>1, <2>2, <2>5, <3>2, ReplaceTopInv
  <2>6. CASE stack' = Append(Return, Frame("onContinueReading", i + 1)) /\ filters' = filters
    BY <1>1, <1>3, <2>1, <2>2, <2>6, ReplaceTopInv
  <2> QED BY <1>4, <2>3, <2>4, <2>5, <2>6 DEF OnContinueReading
<1>5. CASE ConnectedReturns
  BY <1>5, ReturnInv DEF ConnectedReturns, Running
<1>6. ASSUME NEW status \in {"Continue", "StopIteration"}, FilterReturns(status)
      PROVE  IInv'
  <2> DEFINE next == IF Top.fn = "onNewConnection" THEN Top.i ELSE Top.i + 1
             b == status = "StopIteration"
  <2>1. stack # <<>> /\ UNCHANGED <<conn, sock, raised, hist>>
    BY <1>6 DEF FilterReturns, Running
  <2>2. next \in Nat
    BY <1>2, <2>1
  <2>3. /\ stack' = IF status = "StopIteration" \/ State(conn) # "Open"
                    THEN Return ELSE Append(Return, Frame("onContinueReading", next))
        /\ filters' = [filters EXCEPT !.stopped[Top.i] = b]
    BY <1>6 DEF FilterReturns
  <2>4. b \in BOOLEAN
    OBVIOUS
  <2> HIDE DEF next, b
  <2>5. filters' \in FiltersType
    BY <1>1, <2>3, <2>4, SetFilterOK
  <2>6. CASE stack' = Return
    BY <1>2, <2>1, <2>5, <2>6 DEF IInv
  <2>7. CASE State(conn) = "Open" /\ stack' = Append(Return, Frame("onContinueReading", next))
    BY <1>3, <2>1, <2>2, <2>5, <2>7, ReplaceTopInv
  <2> QED BY <2>3, <2>6, <2>7
<1>7. ASSUME NEW i \in Filters, ContinueReading(i)
      PROVE  IInv'
  <2>1. filters' \in FiltersType
    BY <1>1, <1>7, SetFilterOK DEF ContinueReading
  <2>2. i + 1 \in Nat
    BY ConnectionAssumption DEF Filters
  <2>3. UNCHANGED <<conn, sock, raised, hist>>
    BY <1>7 DEF ContinueReading
  <2>4. CASE stack' = stack
    BY <2>1, <2>3, <2>4 DEF IInv
  <2>5. CASE State(conn) = "Open" /\ stack' = <<Frame("onContinueReading", i + 1)>>
    <3>1. StackOK(stack', conn')
      BY <1>3, <2>2, <2>3, <2>5 DEF StackOK
    <3> QED BY <2>1, <2>3, <3>1 DEF IInv
  <2> QED BY <1>7, <2>4, <2>5 DEF ContinueReading
<1> QED BY <1>4, <1>5, <1>6, <1>7

\* A user calls a method that leaves the life cycle alone.
LEMMA MethodInv ==
    ASSUME IInv, UserRuns, ConnInv(conn', hist'.disables), SameLifecycle(conn, conn'),
           hist' \in HistoryType, UNCHANGED <<sock, stack, filters, raised>>
    PROVE  IInv'
<1>1. StackOK(stack', conn') /\ EventsOK(raised', conn')
  BY SameStackOK, SameEventsOK DEF IInv, SameLifecycle
<1> QED BY <1>1 DEF IInv

LEMMA UserMethodsInv ==
    IInv /\ (\/ \E type \in CloseTypes : UserClose(type)
             \/ \E n \in 0 .. MaxWrite, endStream \in BOOLEAN : UserWrite(n, endStream)
             \/ UserReadDisable \/ UserReadEnable
             \/ \E n \in 1 .. MaxReceive : FilterDrains(n)) => IInv'
<1> SUFFICES ASSUME IInv,
                    \/ \E type \in CloseTypes : UserClose(type)
                    \/ \E n \in 0 .. MaxWrite, endStream \in BOOLEAN : UserWrite(n, endStream)
                    \/ UserReadDisable \/ UserReadEnable
                    \/ \E n \in 1 .. MaxReceive : FilterDrains(n)
             PROVE  IInv'
  OBVIOUS
<1> USE ConnectionAssumption
<1>1. conn \in ConnectionType /\ hist.disables \in Nat /\ hist \in HistoryType
      /\ sock \in SocketType /\ ConnInv(conn, hist.disables)
  BY DEF IInv, ConnInv, HistoryType
<1>2. ASSUME NEW type \in CloseTypes, UserClose(type)
      PROVE  IInv'
  <2> DEFINE d == Close(conn, sock, type)
             n == IF type = "NoFlush" THEN Writable(conn, sock) ELSE 0
  <2>1. UserRuns /\ Becomes(d, "LocalClose") /\ KernelTook(n) /\ UNCHANGED <<stack, filters>>
    BY <1>2 DEF UserClose
  <2>2. ConnInv(d, hist.disables) /\ d.connecting = conn.connecting /\ (~conn.open => ~d.open)
    BY <1>1, CloseInv
  <2>3. n \in Nat /\ n <= sock.room
    BY <1>1, WritableBounds DEF SocketType
  <2> HIDE DEF d, n
  <2>4. sock' \in SocketType /\ hist' \in HistoryType /\ hist'.disables = hist.disables
    BY <1>1, <2>1, <2>3 DEF KernelTook, SocketType, HistoryType
  <2>5. conn' = d /\ EventsOK(raised', d)
    BY <2>1, <2>2, BecomesOK DEF IInv
  <2>6. StackOK(stack', conn')
    BY <2>1, SameStackOK DEF IInv
  <2> QED BY <2>1, <2>2, <2>4, <2>5, <2>6 DEF IInv
<1>3. ASSUME NEW n \in 0 .. MaxWrite, NEW endStream \in BOOLEAN, UserWrite(n, endStream)
      PROVE  IInv'
  <2>1. /\ UserRuns /\ conn.open /\ conn' = Write(conn, n, endStream)
        /\ hist' = [hist EXCEPT !.written = @ + n]
        /\ UNCHANGED <<sock, stack, filters, raised>>
    BY <1>3 DEF UserWrite, State
  <2>2. conn' \in ConnectionType /\ SameLifecycle(conn, conn') /\ SameReads(conn, conn')
    BY <1>1, <2>1, WriteKeeps
  <2>3. hist' \in HistoryType /\ hist'.disables = hist.disables
    BY <1>1, <2>1 DEF HistoryType
  <2>4. ConnInv(conn', hist.disables)
    BY <1>1, <2>1, <2>2, MethodKeeps
  <2> QED BY <2>1, <2>2, <2>3, <2>4, MethodInv
<1>4. CASE UserReadDisable
  <2>1. /\ UserRuns /\ State(conn) = "Open" /\ conn' = ReadDisable(conn)
        /\ hist' = [hist EXCEPT !.disables = @ + 1]
        /\ UNCHANGED <<sock, stack, filters, raised>>
    BY <1>4 DEF UserReadDisable
  <2>2. /\ conn' \in ConnectionType /\ SameLifecycle(conn, conn')
        /\ conn'.disabled = conn.disabled + 1 /\ conn'.readHigh = conn.readHigh
    BY <1>1, <2>1, ReadDisableEffect
  <2>3. hist' \in HistoryType /\ hist'.disables = hist.disables + 1
    BY <1>1, <2>1 DEF HistoryType
  <2>4. conn.disabled = hist.disables + (IF conn.readHigh THEN 1 ELSE 0)
    BY <1>1, <2>1 DEF ConnInv, Balanced
  <2>5. conn'.disabled = hist'.disables + (IF conn'.readHigh THEN 1 ELSE 0)
    BY <1>1, <2>2, <2>3, <2>4 DEF ConnectionType
  <2>6. ConnInv(conn', hist'.disables)
    BY <1>1, <2>1, <2>2, <2>5 DEF ConnInv, SameLifecycle, Balanced, TimerInv, Quiet, State
  <2> QED BY <2>1, <2>2, <2>3, <2>6, MethodInv
<1>5. CASE UserReadEnable
  <2>1. /\ UserRuns /\ State(conn) = "Open" /\ conn' = ReadEnable(conn)
        /\ hist.disables > 0 /\ hist' = [hist EXCEPT !.disables = @ - 1]
        /\ UNCHANGED <<sock, stack, filters, raised>>
    BY <1>5 DEF UserReadEnable
  <2>2. conn.disabled = hist.disables + (IF conn.readHigh THEN 1 ELSE 0)
    BY <1>1, <2>1 DEF ConnInv, Balanced
  <2>3. conn.disabled > 0
    BY <1>1, <2>1, <2>2
  <2>4. /\ conn' \in ConnectionType /\ SameLifecycle(conn, conn')
        /\ conn'.disabled = conn.disabled - 1 /\ conn'.readHigh = conn.readHigh
    BY <1>1, <2>1, <2>3, ReadEnableEffect
  <2>5. hist' \in HistoryType /\ hist'.disables = hist.disables - 1
    BY <1>1, <2>1 DEF HistoryType
  <2>6. conn'.disabled = hist'.disables + (IF conn'.readHigh THEN 1 ELSE 0)
    BY <1>1, <2>2, <2>4, <2>5 DEF ConnectionType
  <2>7. ConnInv(conn', hist'.disables)
    BY <1>1, <2>1, <2>4, <2>6 DEF ConnInv, SameLifecycle, Balanced, TimerInv, Quiet, State
  <2> QED BY <2>1, <2>4, <2>5, <2>7, MethodInv
<1>6. ASSUME NEW n \in 1 .. MaxReceive, FilterDrains(n)
      PROVE  IInv'
  <2>1. /\ UserRuns /\ n <= conn.readBuf /\ conn' = DrainRead(conn, n)
        /\ UNCHANGED <<sock, stack, filters, raised, hist>>
    BY <1>6 DEF FilterDrains, Running, UserRuns, CallbackNames
  <2>2. ConnInv(conn', hist.disables) /\ SameLifecycle(conn, conn')
    BY <1>1, <2>1, DrainReadInv
  <2> QED BY <1>1, <2>1, <2>2, MethodInv
<1> QED BY <1>2, <1>3, <1>4, <1>5, <1>6

-------------------------------------------------------------------------------
(* Theorems.                                                               *)

\* The inductive invariant of the connection: every handler, every callback
\* of user code and every step of the kernel keeps it.
THEOREM Invariance == Spec => []IInv
<1>1. Init => IInv
  BY InitIInv
<1>2. IInv /\ [Next]_vars => IInv'
  <2> SUFFICES ASSUME IInv, [Next]_vars PROVE IInv'
    OBVIOUS
  <2>1. CASE Handlers
    BY <2>1, EventLoopInv, WriteHandlersInv, ReadHandlersInv, FilterLoopInv DEF Handlers
  <2>2. CASE Kernel
    BY <2>2, KernelInv
  <2>3. CASE Users
    BY <2>3, FilterLoopInv, UserMethodsInv DEF Users
  <2>4. CASE UNCHANGED vars
    BY <2>4 DEF vars, IInv
  <2> QED BY <2>1, <2>2, <2>3, <2>4 DEF Next
<1> QED BY <1>1, <1>2, PTL DEF Spec

\* Types; read_disable_count_ and the lengths of the buffers stay natural
\* numbers, so the unsigned counter of readDisable() never wraps.
THEOREM TypeCorrect == Spec => []TypeOK
<1>1. IInv => TypeOK
  BY DEF IInv, ConnInv, StackOK, EventsOK, TypeOK
<1> QED BY <1>1, Invariance, PTL

\* read_disable_count_ is the users' outstanding disables plus the read
\* buffer's, in any interleaving of users, watermark callbacks and reads.
THEOREM ReadDisablesBalance == Spec => []ReadDisableBalanced
<1>1. IInv => ReadDisableBalanced
  BY DEF IInv, ConnInv, Balanced, ReadDisableBalanced
<1> QED BY <1>1, Invariance, PTL

\* A connection that waits after its flush has a running delayed close timer,
\* and no timer outlives its socket.
THEOREM ClosingIsTimed == Spec => []DelayedCloseTimerRuns
<1>1. IInv => DelayedCloseTimerRuns
  BY DEF IInv, ConnInv, TimerInv, DelayedCloseTimerRuns
<1> QED BY <1>1, Invariance, PTL

\* No filter is called once a callback has closed the connection.
THEOREM FiltersStopAtClose == Spec => []FiltersOnlyWhileOpen
<1>1. IInv => FiltersOnlyWhileOpen
  BY DEF IInv, StackOK, FiltersOnlyWhileOpen, Running, Top
<1> QED BY <1>1, Invariance, PTL

\* Connected at most once and first, one close event, raised when the socket
\* closes, whatever callbacks do.
THEOREM CloseEventsAreUnique == Spec => []OneCloseEvent
<1>1. IInv => OneCloseEvent
  BY DEF IInv, EventsOK, OneCloseEvent
<1> QED BY <1>1, Invariance, PTL

-------------------------------------------------------------------------------
(* What flows: the invariant, on top of the one above.                     *)

\* Only an established connection has input.
SocketOK(s) == s.rx > 0 \/ s.fin \/ s.reset => s.state = "up"

\* What the kernel holds for the connection, and what the connection holds
\* for the kernel.
SocketInput(c, s) ==
    \/ s.rx > 0
    \/ s.fin /\ ~c.readEnd
    \/ s.state = "up" /\ s.reset

OutputWaiting(c) == c.writeBuf > 0 \/ (c.writeEnd /\ ~c.shutdown)

\* A handler is on the call stack and still has to run.
OnStack(fn, s) == \E k \in 1 .. Len(s) : s[k].fn = fn

WritePends(s) == OnStack("onWriteReady", s) \/ OnStack("afterConnected", s)

\* Whatever waits in an open connection has its wakeup: an armed file event
\* that is registered for it, an injected event, or a handler on the stack,
\* r that will read, k that will close, w that will write.
Awake(c, s, r, k, w) ==
    State(c) = "Open" =>
        /\ "Write" \in c.enabled
        /\ "Read" \in c.enabled <=> c.disabled = 0
        /\ c.disabled = 0 /\ SocketInput(c, s) =>
               c.armed \/ "Read" \in c.injected \/ r \/ k
        /\ c.disabled = 0 /\ c.transportWantsRead => "Read" \in c.injected \/ r
        /\ ~c.connecting /\ OutputWaiting(c) /\ "Write" \in Ready(s) =>
               c.armed \/ "Write" \in c.injected \/ w
        /\ c.dispatchBuffered /\ c.readBuf > 0 /\ FilterChainWantsData(c) =>
               "Read" \in c.injected \/ r

WakeInv ==
    Awake(conn, sock, OnStack("onReadReady", stack), OnStack("closeRemote", stack),
          WritePends(stack))

\* The write handler of a connecting socket runs only once the kernel has
\* answered: nobody else injects a write event before.
ConnectInv ==
    /\ conn.open /\ conn.connecting /\ "Write" \in conn.injected =>
           conn.immediateError # "none"
    /\ OnStack("onWriteReady", stack) /\ conn.connecting => sock.state # "pending"
    /\ ConnectedIsReal

\* Bytes written are in the write buffer or with the kernel.
OutputInv ==
    conn.open => /\ hist.sent + conn.writeBuf = hist.written
                 /\ conn.shutdown => conn.writeEnd /\ conn.writeBuf = 0

\* The frames of the loop over the filters.
LoopNames == {"onContinueReading", "onNewConnection", "onData"}
InLoop(s) == s # <<>> /\ s[Len(s)].fn \in LoopNames

\* The filter that the loop has passed; 1 stands for none as well.
Passed(f) == IF f.fn = "onData" THEN f.i ELSE IF f.i = 1 THEN 1 ELSE f.i - 1

\* Filters from which the iteration is going to be continued.
StoppedIn(fs) == {k \in Filters : fs.stopped[k]}
Held(fs, s) == StoppedIn(fs) \cup (IF InLoop(s) THEN {Passed(s[Len(s)])} ELSE {})

\* The loop's frame f: its filter exists, the filter it has passed does not
\* hold the iteration as well, and at the first filter nothing has ended yet.
LoopOK(f, fs, readEnd) ==
    /\ f.i > 0
    /\ f.fn # "onContinueReading" => f.i \in Filters
    /\ readEnd => /\ f.fn = "onData" => ~fs.stopped[f.i]
                  /\ f.fn # "onData" /\ f.i > 1 => ~fs.stopped[f.i - 1]
                  /\ f.fn # "onData" /\ f.i = 1 /\ 1 \in Filters => fs.ended[1] = 0

EndsOK(fs, held) ==
    /\ 1 \in Filters => fs.ended[1] <= 1
    /\ \A m \in Filters \ {1} :
           fs.ended[m] + Cardinality(held \cap (1 .. (m - 1))) <= m - 1

EndInv ==
    /\ conn.delayed = "None" /\ conn.readEnd => conn.readEndRaised
    /\ ~conn.readEnd => \A i \in Filters : filters.ended[i] = 0
    /\ InLoop(stack) => LoopOK(stack[Len(stack)], filters, conn.readEnd)
    /\ conn.readEnd => EndsOK(filters, Held(filters, stack))

SInv ==
    /\ IInv
    /\ SocketOK(sock)
    /\ WakeInv
    /\ ConnectInv
    /\ OutputInv
    /\ EndInv

-------------------------------------------------------------------------------
(* What the methods of the connection leave alone.                         *)

\* Members that are neither events nor life cycle.
SameInput(c, d) ==
    /\ d.readBuf = c.readBuf
    /\ d.dispatchBuffered = c.dispatchBuffered
    /\ d.transportWantsRead = c.transportWantsRead

SameOutput(c, d) ==
    /\ d.writeBuf = c.writeBuf
    /\ d.writeEnd = c.writeEnd
    /\ d.shutdown = c.shutdown

SameEnds(c, d) ==
    /\ d.readEnd = c.readEnd
    /\ d.readEndRaised = c.readEndRaised
    /\ d.halfClose = c.halfClose

SameEvents(c, d) ==
    /\ d.enabled = c.enabled
    /\ d.armed = c.armed
    /\ d.injected = c.injected

NoNewWrite(c, d) == "Write" \in d.injected => "Write" \in c.injected

LEMMA EnableFileEventsFields ==
    ASSUME NEW c \in ConnectionType, NEW mask \in SUBSET Events
    PROVE  LET d == EnableFileEvents(c, mask)
           IN  /\ d \in ConnectionType /\ SameLifecycle(c, d) /\ SameReads(c, d)
               /\ SameInput(c, d) /\ SameOutput(c, d) /\ SameEnds(c, d)
               /\ d.enabled = mask /\ d.armed /\ d.injected = {}
BY DEF EnableFileEvents, ConnectionType, SameLifecycle, SameReads, SameInput, SameOutput,
       SameEnds

LEMMA ActivateFileEventsFields ==
    ASSUME NEW c \in ConnectionType, NEW event \in Events
    PROVE  LET d == ActivateFileEvents(c, event)
           IN  /\ d \in ConnectionType /\ SameLifecycle(c, d) /\ SameReads(c, d)
               /\ SameInput(c, d) /\ SameOutput(c, d) /\ SameEnds(c, d)
               /\ d.enabled = c.enabled /\ d.armed = c.armed
               /\ d.injected = c.injected \cup {event}
BY DEF ActivateFileEvents, ConnectionType, SameLifecycle, SameReads, SameInput, SameOutput,
       SameEnds

\* A method that changes neither members nor socket in what Awake looks at.
LEMMA AwakeKept ==
    ASSUME NEW c \in ConnectionType, NEW d \in ConnectionType, NEW s, NEW r, NEW k, NEW w,
           Awake(c, s, r, k, w), SameLifecycle(c, d), SameReads(c, d), SameInput(c, d),
           SameOutput(c, d), SameEnds(c, d), SameEvents(c, d)
    PROVE  Awake(d, s, r, k, w)
BY DEF Awake, SameLifecycle, SameReads, SameInput, SameOutput, SameEnds, SameEvents,
       State, SocketInput, OutputWaiting, FilterChainWantsData

\* readDisable(true): the injected events that it drops were for reading, or
\* the file event is armed for them.
LEMMA ReadDisableAwake ==
    ASSUME NEW c \in ConnectionType, NEW s, NEW r, NEW k, NEW w, Awake(c, s, r, k, w),
           c.disabled = 0 /\ c.readHigh => ~c.dispatchBuffered
    PROVE  LET d == ReadDisable(c)
           IN  /\ Awake(d, s, r, k, w) /\ d \in ConnectionType
               /\ SameLifecycle(c, d) /\ SameOutput(c, d) /\ SameEnds(c, d)
               /\ SameInput(c, d) /\ NoNewWrite(c, d)
               /\ d.disabled = c.disabled + 1 /\ d.readHigh = c.readHigh
<1> DEFINE d == [c EXCEPT !.disabled = @ + 1]
           e(mask) == EnableFileEvents(d, mask)
<1>1. /\ d \in ConnectionType /\ SameLifecycle(c, d) /\ SameInput(c, d)
      /\ SameOutput(c, d) /\ SameEnds(c, d) /\ SameEvents(c, d)
      /\ d.disabled = c.disabled + 1 /\ d.readHigh = c.readHigh
  BY DEF ConnectionType, SameLifecycle, SameInput, SameOutput, SameEnds, SameEvents
<1>2. {"Write", "Closed"} \in SUBSET Events /\ {"Write"} \in SUBSET Events
  BY DEF Events
<1>3. c.disabled \in Nat
  BY DEF ConnectionType
<1>4. \/ ReadDisable(c) = d /\ (State(d) # "Open" \/ d.disabled > 1)
      \/ ReadDisable(c) = e({"Write", "Closed"}) /\ ~ (d.disabled > 1)
      \/ ReadDisable(c) = e({"Write"}) /\ ~ (d.disabled > 1)
  BY DEF ReadDisable
<1> HIDE DEF d
<1>5. ASSUME NEW mask \in SUBSET Events
      PROVE  /\ e(mask) \in ConnectionType /\ SameLifecycle(d, e(mask))
             /\ SameReads(d, e(mask)) /\ SameInput(d, e(mask)) /\ SameOutput(d, e(mask))
             /\ SameEnds(d, e(mask)) /\ e(mask).enabled = mask
             /\ e(mask).armed /\ e(mask).injected = {}
  BY <1>1, EnableFileEventsFields
<1> HIDE DEF e
<1>6. CASE ReadDisable(c) = d /\ (State(d) # "Open" \/ d.disabled > 1)
  <2>1. Awake(d, s, r, k, w)
    BY <1>1, <1>3, <1>6
       DEF Awake, SameLifecycle, SameInput, SameOutput, SameEnds, SameEvents, State,
           SocketInput, OutputWaiting, FilterChainWantsData
  <2> QED BY <1>1, <1>6, <2>1 DEF NoNewWrite, SameEvents
<1>7. ASSUME NEW mask \in {{"Write", "Closed"}, {"Write"}}, ReadDisable(c) = e(mask),
             ~ (d.disabled > 1)
      PROVE  LET f == ReadDisable(c)
             IN  /\ Awake(f, s, r, k, w) /\ f \in ConnectionType
                 /\ SameLifecycle(c, f) /\ SameOutput(c, f) /\ SameEnds(c, f)
                 /\ SameInput(c, f) /\ NoNewWrite(c, f)
                 /\ f.disabled = c.disabled + 1 /\ f.readHigh = c.readHigh
  <2> DEFINE f == e(mask)
  <2>1. /\ f \in ConnectionType /\ SameLifecycle(d, f)
        /\ SameReads(d, f) /\ SameInput(d, f) /\ SameOutput(d, f)
        /\ SameEnds(d, f) /\ f.enabled = mask /\ f.armed /\ f.injected = {}
    BY <1>2, <1>5, <1>7
  <2> HIDE DEF f
  <2>2. /\ c.disabled = 0 /\ f.disabled = 1 /\ f.readHigh = c.readHigh
        /\ f.dispatchBuffered = c.dispatchBuffered
    BY <1>1, <1>3, <1>7, <2>1 DEF SameReads, SameInput
  <2>3. "Write" \in f.enabled /\ "Read" \notin f.enabled
    BY <1>7, <2>1
  <2>4. Awake(f, s, r, k, w)
    BY <2>1, <2>2, <2>3 DEF Awake, FilterChainWantsData
  <2>5. /\ SameLifecycle(c, f) /\ SameOutput(c, f) /\ SameEnds(c, f) /\ SameInput(c, f)
        /\ NoNewWrite(c, f) /\ f.disabled = c.disabled + 1
    BY <1>1, <2>1, <2>2 DEF SameLifecycle, SameOutput, SameEnds, SameInput, NoNewWrite
  <2> QED BY <1>7, <2>1, <2>2, <2>4, <2>5 DEF f
<1> QED BY <1>4, <1>6, <1>7

\* readDisable(false): what it enables it arms, what is left to dispatch or to
\* read it activates, and in this order.
LEMMA ReadEnableAwake ==
    ASSUME NEW c \in ConnectionType, NEW s, NEW r, NEW k, NEW w, Awake(c, s, r, k, w),
           c.disabled > 0
    PROVE  LET d == ReadEnable(c)
           IN  /\ Awake(d, s, r, k, w) /\ d \in ConnectionType
               /\ SameLifecycle(c, d) /\ SameOutput(c, d) /\ SameEnds(c, d)
               /\ NoNewWrite(c, d)
               /\ d.disabled = c.disabled - 1 /\ d.readHigh = c.readHigh
<1> DEFINE d == [c EXCEPT !.disabled = @ - 1]
           e == IF d.disabled = 0 THEN EnableFileEvents(d, {"Read", "Write"}) ELSE d
           f == [e EXCEPT !.dispatchBuffered = TRUE]
           g == ActivateFileEvents(f, "Read")
           wants == FilterChainWantsData(e) /\ (e.readBuf > 0 \/ e.transportWantsRead)
<1>0. c.disabled \in Nat
  BY DEF ConnectionType
<1>1. /\ d \in ConnectionType /\ SameLifecycle(c, d) /\ SameInput(c, d)
      /\ SameOutput(c, d) /\ SameEnds(c, d) /\ SameEvents(c, d)
      /\ d.disabled = c.disabled - 1 /\ d.readHigh = c.readHigh
  BY DEF ConnectionType, SameLifecycle, SameInput, SameOutput, SameEnds, SameEvents
<1>2. {"Read", "Write"} \in SUBSET Events /\ "Read" \in Events
  BY DEF Events
<1>3. ReadEnable(c) = IF State(d) # "Open" THEN d ELSE IF wants THEN g ELSE e
  BY DEF ReadEnable
<1> HIDE DEF d
<1>4. /\ e \in ConnectionType /\ SameLifecycle(d, e) /\ SameReads(d, e)
      /\ SameInput(d, e) /\ SameOutput(d, e) /\ SameEnds(d, e)
      /\ d.disabled = 0 => e.enabled = {"Read", "Write"} /\ e.armed /\ e.injected = {}
      /\ d.disabled # 0 => SameEvents(d, e)
  <2>1. CASE d.disabled = 0
    BY <1>1, <1>2, <2>1, EnableFileEventsFields
  <2>2. CASE d.disabled # 0
    BY <1>1, <2>2
       DEF SameLifecycle, SameReads, SameInput, SameOutput, SameEnds, SameEvents
  <2> QED BY <2>1, <2>2
<1>w. wants \in BOOLEAN
  OBVIOUS
<1> HIDE DEF e
<1>5. /\ f \in ConnectionType /\ SameLifecycle(e, f) /\ SameReads(e, f)
      /\ SameOutput(e, f) /\ SameEnds(e, f) /\ SameEvents(e, f)
      /\ f.readBuf = e.readBuf /\ f.transportWantsRead = e.transportWantsRead
  BY <1>4 DEF ConnectionType, SameLifecycle, SameReads, SameOutput, SameEnds, SameEvents
<1> HIDE DEF f
<1>6. /\ g \in ConnectionType /\ SameLifecycle(f, g) /\ SameReads(f, g)
      /\ SameInput(f, g) /\ SameOutput(f, g) /\ SameEnds(f, g)
      /\ g.enabled = f.enabled /\ g.armed = f.armed /\ g.injected = f.injected \cup {"Read"}
  BY <1>2, <1>5, ActivateFileEventsFields
<1> HIDE DEF g
<1>7. CASE State(d) # "Open"
  <2>1. Awake(d, s, r, k, w)
    BY <1>7 DEF Awake
  <2> QED BY <1>1, <1>3, <1>7, <2>1 DEF NoNewWrite, SameEvents
<1>8. CASE State(d) = "Open" /\ ~wants
  <2>0. State(c) = "Open"
    BY <1>1, <1>8 DEF SameLifecycle, State
  <2>1. Awake(e, s, r, k, w)
    <3>1. CASE d.disabled = 0
      BY <1>0, <1>1, <1>4, <1>8, <2>0, <3>1
         DEF Awake, SameInput, SameReads, FilterChainWantsData, wants
    <3>2. CASE d.disabled # 0
      BY <1>0, <1>1, <1>4, <1>8, <2>0, <3>2
         DEF Awake, SameLifecycle, SameInput, SameReads, SameOutput, SameEnds, SameEvents,
             OutputWaiting, FilterChainWantsData, wants
    <3> QED BY <3>1, <3>2
  <2>2. SameLifecycle(c, e) /\ SameOutput(c, e) /\ SameEnds(c, e)
        /\ e.disabled = c.disabled - 1 /\ e.readHigh = c.readHigh
    BY <1>1, <1>4 DEF SameLifecycle, SameOutput, SameEnds, SameReads
  <2>3. NoNewWrite(c, e)
    BY <1>1, <1>4 DEF NoNewWrite, SameEvents
  <2> QED BY <1>3, <1>4, <1>8, <2>1, <2>2, <2>3
<1>9. CASE State(d) = "Open" /\ wants
  <2>0. State(c) = "Open"
    BY <1>1, <1>9 DEF SameLifecycle, State
  <2>r. "Read" \in g.injected
    BY <1>6
  <2>d. g.disabled = c.disabled - 1 /\ g.readHigh = c.readHigh
    BY <1>1, <1>4, <1>5, <1>6 DEF SameReads
  <2>e. g.enabled = e.enabled /\ g.armed = e.armed
    BY <1>5, <1>6 DEF SameEvents
  <2>o. SameLifecycle(c, g) /\ SameOutput(c, g) /\ SameEnds(c, g)
    BY <1>1, <1>4, <1>5, <1>6 DEF SameLifecycle, SameOutput, SameEnds
  <2>1. Awake(g, s, r, k, w)
    <3>1. CASE d.disabled = 0
      BY <1>0, <1>1, <1>4, <2>r, <2>d, <2>e, <3>1 DEF Awake
    <3>2. CASE d.disabled # 0
      <4>1. g.enabled = c.enabled /\ g.armed = c.armed /\ g.disabled # 0 /\ c.disabled # 0
            /\ ("Write" \in c.injected => "Write" \in g.injected)
        BY <1>0, <1>1, <1>4, <1>5, <1>6, <2>d, <2>e, <3>2 DEF SameEvents
      <4> QED BY <2>0, <2>r, <2>o, <4>1
              DEF Awake, SameLifecycle, SameOutput, OutputWaiting
    <3> QED BY <3>1, <3>2
  <2>2. NoNewWrite(c, g)
    BY <1>1, <1>4, <1>5, <1>6 DEF NoNewWrite, SameEvents
  <2> QED BY <1>3, <1>6, <1>9, <2>1, <2>2, <2>d, <2>o
<1> QED BY <1>7, <1>8, <1>9, <1>w

\* Bytes into the read buffer; the high watermark disables reading, but the
\* filter chain goes on wanting data.
LEMMA AppendReadAwake ==
    ASSUME NEW c \in ConnectionType, NEW n \in Nat, NEW s, NEW r, NEW k, NEW w,
           Awake(c, s, r, k, w), ~c.dispatchBuffered
    PROVE  LET d == AppendRead(c, n)
           IN  /\ Awake(d, s, r, k, w) /\ d \in ConnectionType
               /\ SameLifecycle(c, d) /\ SameOutput(c, d) /\ SameEnds(c, d)
               /\ NoNewWrite(c, d) /\ ~d.dispatchBuffered
               /\ c.disabled = 0 => FilterChainWantsData(d)
<1> DEFINE d == [c EXCEPT !.readBuf = @ + n]
           e == [d EXCEPT !.readHigh = TRUE]
<1>1. /\ d \in ConnectionType /\ SameLifecycle(c, d) /\ SameReads(c, d)
      /\ SameOutput(c, d) /\ SameEnds(c, d) /\ SameEvents(c, d)
      /\ ~d.dispatchBuffered /\ d.transportWantsRead = c.transportWantsRead
  BY DEF ConnectionType, SameLifecycle, SameReads, SameOutput, SameEnds, SameEvents
<1> HIDE DEF d
<1>2. /\ e \in ConnectionType /\ SameLifecycle(d, e) /\ e.readHigh
      /\ SameOutput(d, e) /\ SameEnds(d, e) /\ SameEvents(d, e) /\ SameInput(d, e)
      /\ e.disabled = d.disabled
  BY <1>1 DEF ConnectionType, SameLifecycle, SameInput, SameOutput, SameEnds, SameEvents
<1> HIDE DEF e
<1>3. AppendRead(c, n) = IF ~d.readHigh /\ IsAboveHigh(d.readBuf)
                         THEN IF State(e) = "Open" THEN ReadDisable(e) ELSE e
                         ELSE d
  BY DEF AppendRead, d, e
<1>4. Awake(d, s, r, k, w)
  BY <1>1 DEF Awake, SameLifecycle, SameReads, SameOutput, SameEnds, SameEvents, State,
              SocketInput, OutputWaiting, FilterChainWantsData
<1>5. Awake(e, s, r, k, w) /\ ~e.dispatchBuffered
  BY <1>1, <1>2, <1>4
     DEF Awake, SameLifecycle, SameInput, SameOutput, SameEnds, SameEvents, State,
         SocketInput, OutputWaiting, FilterChainWantsData
<1>6. CASE AppendRead(c, n) = d
  BY <1>1, <1>4, <1>6 DEF NoNewWrite, SameEvents, SameReads, FilterChainWantsData
<1>7. CASE AppendRead(c, n) = e
  <2>1. SameLifecycle(c, e) /\ SameOutput(c, e) /\ SameEnds(c, e) /\ NoNewWrite(c, e)
    BY <1>1, <1>2 DEF SameLifecycle, SameOutput, SameEnds, NoNewWrite, SameEvents
  <2>2. c.disabled = 0 => FilterChainWantsData(e)
    BY <1>1, <1>2 DEF SameReads, FilterChainWantsData
  <2> QED BY <1>2, <1>5, <1>7, <2>1, <2>2
<1>8. CASE AppendRead(c, n) = ReadDisable(e)
  <2> DEFINE f == ReadDisable(e)
  <2>1. /\ Awake(f, s, r, k, w) /\ f \in ConnectionType
        /\ SameLifecycle(e, f) /\ SameOutput(e, f) /\ SameEnds(e, f)
        /\ SameInput(e, f) /\ NoNewWrite(e, f)
        /\ f.disabled = e.disabled + 1 /\ f.readHigh = e.readHigh
    BY <1>2, <1>5, ReadDisableAwake
  <2> HIDE DEF f
  <2>2. SameLifecycle(c, f) /\ SameOutput(c, f) /\ SameEnds(c, f) /\ NoNewWrite(c, f)
    BY <1>1, <1>2, <2>1 DEF SameLifecycle, SameOutput, SameEnds, NoNewWrite, SameEvents
  <2>3. c.disabled = 0 => FilterChainWantsData(f)
    BY <1>1, <1>2, <2>1 DEF SameReads, FilterChainWantsData
  <2>4. ~f.dispatchBuffered
    BY <1>5, <2>1 DEF SameInput
  <2> QED BY <1>8, <2>1, <2>2, <2>3, <2>4 DEF f
<1> QED BY <1>3, <1>6, <1>7, <1>8

LEMMA SetTransportSocketIsReadableAwake ==
    ASSUME NEW c \in ConnectionType, NEW s, NEW r, NEW k, NEW w, Awake(c, s, r, k, w)
    PROVE  LET d == SetTransportSocketIsReadable(c)
           IN  /\ Awake(d, s, r, k, w) /\ d \in ConnectionType
               /\ SameLifecycle(c, d) /\ SameReads(c, d)
               /\ SameOutput(c, d) /\ SameEnds(c, d) /\ NoNewWrite(c, d)
               /\ d.disabled = 0 => "Read" \in d.injected
<1> DEFINE d == [c EXCEPT !.transportWantsRead = TRUE]
           e == ActivateFileEvents(d, "Read")
<1>1. /\ d \in ConnectionType /\ SameLifecycle(c, d) /\ SameReads(c, d)
      /\ SameOutput(c, d) /\ SameEnds(c, d) /\ SameEvents(c, d)
      /\ d.readBuf = c.readBuf /\ d.dispatchBuffered = c.dispatchBuffered
  BY DEF ConnectionType, SameLifecycle, SameReads, SameOutput, SameEnds, SameEvents
<1>2. SetTransportSocketIsReadable(c) = IF d.disabled = 0 THEN e ELSE d
  BY DEF SetTransportSocketIsReadable
<1> HIDE DEF d
<1>3. /\ e \in ConnectionType /\ SameLifecycle(d, e) /\ SameReads(d, e)
      /\ SameInput(d, e) /\ SameOutput(d, e) /\ SameEnds(d, e)
      /\ e.enabled = d.enabled /\ e.armed = d.armed /\ e.injected = d.injected \cup {"Read"}
  BY <1>1, ActivateFileEventsFields DEF Events
<1> HIDE DEF e
<1>4. CASE d.disabled # 0
  <2>1. Awake(d, s, r, k, w)
    BY <1>1, <1>4 DEF Awake, SameLifecycle, SameReads, SameOutput, SameEnds, SameEvents,
                      State, SocketInput, OutputWaiting, FilterChainWantsData
  <2> QED BY <1>1, <1>2, <1>4, <2>1 DEF NoNewWrite, SameEvents
<1>5. CASE d.disabled = 0
  <2>1. "Read" \in e.injected /\ e.disabled = 0 /\ NoNewWrite(c, e)
        /\ ("Write" \in c.injected => "Write" \in e.injected)
        /\ e.enabled = c.enabled /\ e.armed = c.armed
    BY <1>1, <1>3, <1>5 DEF NoNewWrite, SameEvents, SameReads
  <2>2. SameLifecycle(c, e) /\ SameReads(c, e) /\ SameOutput(c, e) /\ SameEnds(c, e)
    BY <1>1, <1>3 DEF SameLifecycle, SameReads, SameOutput, SameEnds
  <2>3. Awake(e, s, r, k, w)
    BY <2>1, <2>2 DEF Awake, SameLifecycle, SameReads, SameOutput, State, OutputWaiting
  <2> QED BY <1>2, <1>3, <1>5, <2>1, <2>2, <2>3
<1> QED BY <1>4, <1>5

\* doRead(): after it the chain wants data, and a read that ended early has
\* left a read event behind if reading is still enabled.
LEMMA DoReadAwake ==
    ASSUME NEW c \in ConnectionType, NEW o, o.n \in Nat, NEW s, NEW r, NEW k, NEW w,
           Awake(c, s, r, k, w), ~c.dispatchBuffered, c.disabled = 0
    PROVE  LET d == DoRead(c, o)
           IN  /\ Awake(d, s, r, k, w) /\ d \in ConnectionType
               /\ SameLifecycle(c, d) /\ SameOutput(c, d) /\ SameEnds(c, d)
               /\ NoNewWrite(c, d) /\ FilterChainWantsData(d)
               /\ o.end = "drain" /\ d.disabled = 0 => "Read" \in d.injected
<1> DEFINE d == IF o.n > 0 THEN AppendRead(c, o.n) ELSE c
           e == SetTransportSocketIsReadable(d)
<1>1. /\ Awake(d, s, r, k, w) /\ d \in ConnectionType
      /\ SameLifecycle(c, d) /\ SameOutput(c, d) /\ SameEnds(c, d)
      /\ NoNewWrite(c, d) /\ FilterChainWantsData(d)
  <2>1. CASE o.n > 0
    BY <2>1, AppendReadAwake
  <2>2. CASE ~ (o.n > 0)
    BY <2>2 DEF SameLifecycle, SameOutput, SameEnds, NoNewWrite, FilterChainWantsData
  <2> QED BY <2>1, <2>2
<1>2. DoRead(c, o) = IF o.end = "drain" THEN e ELSE d
  BY DEF DoRead
<1> HIDE DEF d
<1>3. /\ Awake(e, s, r, k, w) /\ e \in ConnectionType
      /\ SameLifecycle(d, e) /\ SameReads(d, e)
      /\ SameOutput(d, e) /\ SameEnds(d, e) /\ NoNewWrite(d, e)
      /\ e.disabled = 0 => "Read" \in e.injected
  BY <1>1, SetTransportSocketIsReadableAwake
<1> HIDE DEF e
<1>4. SameLifecycle(c, e) /\ SameOutput(c, e) /\ SameEnds(c, e) /\ NoNewWrite(c, e)
      /\ FilterChainWantsData(e)
  BY <1>1, <1>3 DEF SameLifecycle, SameReads, SameOutput, SameEnds, NoNewWrite,
                    FilterChainWantsData
<1> QED BY <1>1, <1>2, <1>3, <1>4

\* Bytes out of the read buffer; the low watermark enables reading.
LEMMA DrainReadAwake ==
    ASSUME NEW c \in ConnectionType, NEW n \in Nat, n <= c.readBuf, NEW h \in Nat,
           Balanced(c, h), NEW s, NEW r, NEW k, NEW w, Awake(c, s, r, k, w)
    PROVE  LET d == DrainRead(c, n)
           IN  /\ Awake(d, s, r, k, w) /\ d \in ConnectionType
               /\ SameLifecycle(c, d) /\ SameOutput(c, d) /\ SameEnds(c, d)
               /\ NoNewWrite(c, d)
<1> DEFINE d == [c EXCEPT !.readBuf = @ - n]
           e == [d EXCEPT !.readHigh = FALSE]
<1>0. c.readBuf \in Nat /\ c.disabled \in Nat
  BY DEF ConnectionType
<1>1. /\ d \in ConnectionType /\ SameLifecycle(c, d) /\ SameReads(c, d)
      /\ SameOutput(c, d) /\ SameEnds(c, d) /\ SameEvents(c, d)
      /\ d.dispatchBuffered = c.dispatchBuffered
      /\ d.transportWantsRead = c.transportWantsRead /\ d.readBuf = c.readBuf - n
  BY DEF ConnectionType, SameLifecycle, SameReads, SameOutput, SameEnds, SameEvents
<1> HIDE DEF d
<1>2. /\ e \in ConnectionType /\ SameLifecycle(d, e) /\ ~e.readHigh
      /\ SameOutput(d, e) /\ SameEnds(d, e) /\ SameEvents(d, e) /\ SameInput(d, e)
      /\ e.disabled = d.disabled
  BY <1>1 DEF ConnectionType, SameLifecycle, SameInput, SameOutput, SameEnds, SameEvents
<1> HIDE DEF e
<1>3. DrainRead(c, n) = IF d.readHigh /\ IsBelowLow(d.readBuf)
                        THEN IF State(e) = "Open" THEN ReadEnable(e) ELSE e
                        ELSE d
  BY DEF DrainRead, d, e
<1>4. Awake(d, s, r, k, w)
  BY <1>0, <1>1 DEF Awake, SameLifecycle, SameReads, SameOutput, SameEnds, SameEvents,
                    State, SocketInput, OutputWaiting, FilterChainWantsData
<1>5. Awake(e, s, r, k, w)
  BY <1>1, <1>2, <1>4
     DEF Awake, SameLifecycle, SameInput, SameOutput, SameEnds, SameEvents, State,
         SocketInput, OutputWaiting, FilterChainWantsData
<1>6. CASE DrainRead(c, n) = d
  BY <1>1, <1>4, <1>6 DEF NoNewWrite, SameEvents
<1>7. CASE DrainRead(c, n) = e
  <2>1. SameLifecycle(c, e) /\ SameOutput(c, e) /\ SameEnds(c, e) /\ NoNewWrite(c, e)
    BY <1>1, <1>2 DEF SameLifecycle, SameOutput, SameEnds, NoNewWrite, SameEvents
  <2> QED BY <1>2, <1>5, <1>7, <2>1
<1>8. CASE DrainRead(c, n) = ReadEnable(e) /\ d.readHigh /\ State(e) = "Open"
  <2> DEFINE f == ReadEnable(e)
  <2>1. c.disabled = h + 1
    BY <1>1, <1>2, <1>8 DEF Balanced, SameLifecycle, SameReads, State
  <2>2. e.disabled > 0
    BY <1>1, <1>2, <2>1 DEF SameReads
  <2>3. /\ Awake(f, s, r, k, w) /\ f \in ConnectionType
        /\ SameLifecycle(e, f) /\ SameOutput(e, f) /\ SameEnds(e, f) /\ NoNewWrite(e, f)
    BY <1>2, <1>5, <2>2, ReadEnableAwake
  <2> HIDE DEF f
  <2>4. SameLifecycle(c, f) /\ SameOutput(c, f) /\ SameEnds(c, f) /\ NoNewWrite(c, f)
    BY <1>1, <1>2, <2>3 DEF SameLifecycle, SameOutput, SameEnds, NoNewWrite, SameEvents
  <2> QED BY <1>8, <2>3, <2>4 DEF f
<1> QED BY <1>3, <1>6, <1>7, <1>8

\* The write buffer takes or gives bytes: only its length and its watermark
\* state change.
LEMMA SetWriteBufferFields ==
    ASSUME NEW c \in ConnectionType, NEW len \in Nat, NEW high \in BOOLEAN
    PROVE  LET d == [c EXCEPT !.writeBuf = len, !.writeHigh = high]
           IN  /\ d \in ConnectionType /\ SameLifecycle(c, d) /\ SameReads(c, d)
               /\ SameInput(c, d) /\ SameEnds(c, d) /\ SameEvents(c, d)
               /\ d.writeBuf = len /\ d.writeEnd = c.writeEnd /\ d.shutdown = c.shutdown
BY DEF ConnectionType, SameLifecycle, SameReads, SameInput, SameEnds, SameEvents

\* write(): an established connection is woken for what it has to write.
LEMMA WriteAwake ==
    ASSUME NEW c \in ConnectionType, NEW n \in Nat, NEW endStream \in BOOLEAN,
           ~c.writeEnd, NEW s, NEW r, NEW k, NEW w, Awake(c, s, r, k, w)
    PROVE  LET d == Write(c, n, endStream)
           IN  /\ Awake(d, s, r, k, w) /\ d \in ConnectionType
               /\ SameLifecycle(c, d) /\ SameEnds(c, d)
               /\ c.connecting => NoNewWrite(c, d)
               /\ d.writeBuf = c.writeBuf + n /\ d.shutdown = c.shutdown
<1> DEFINE high == c.writeHigh \/ IsAboveHigh(c.writeBuf + n)
           a == AppendWrite(c, n)
           d == [a EXCEPT !.writeEnd = endStream]
           e == ActivateFileEvents(d, "Write")
<1>0. c.writeBuf \in Nat /\ c.writeBuf + n \in Nat
  BY DEF ConnectionType
<1>1. /\ a \in ConnectionType /\ SameLifecycle(c, a) /\ SameReads(c, a)
      /\ SameInput(c, a) /\ SameEnds(c, a) /\ SameEvents(c, a)
      /\ a.writeBuf = c.writeBuf + n /\ a.shutdown = c.shutdown
  <2>1. high \in BOOLEAN
    OBVIOUS
  <2>2. a = [c EXCEPT !.writeBuf = c.writeBuf + n, !.writeHigh = high]
    BY DEF AppendWrite
  <2> HIDE DEF high, a
  <2> QED BY <1>0, <2>1, <2>2, SetWriteBufferFields
<1>2. Write(c, n, endStream) = IF c.connecting \/ (n = 0 /\ ~endStream) THEN d ELSE e
  BY DEF Write
<1> HIDE DEF a
<1>3. /\ d \in ConnectionType /\ SameLifecycle(a, d) /\ SameReads(a, d)
      /\ SameInput(a, d) /\ SameEnds(a, d) /\ SameEvents(a, d)
      /\ d.writeBuf = a.writeBuf /\ d.shutdown = a.shutdown /\ d.writeEnd = endStream
  BY <1>1 DEF ConnectionType, SameLifecycle, SameReads, SameInput, SameEnds, SameEvents
<1> HIDE DEF d
<1>4. /\ d.writeBuf = c.writeBuf + n /\ d.shutdown = c.shutdown
      /\ SameLifecycle(c, d) /\ SameReads(c, d)
      /\ SameInput(c, d) /\ SameEnds(c, d) /\ SameEvents(c, d)
  BY <1>1, <1>3 DEF SameLifecycle, SameReads, SameInput, SameEnds, SameEvents
<1>5. CASE c.connecting \/ (n = 0 /\ ~endStream)
  <2>1. ~d.connecting => (OutputWaiting(d) => OutputWaiting(c))
    BY <1>0, <1>3, <1>4, <1>5 DEF OutputWaiting, SameLifecycle
  <2>2. Awake(d, s, r, k, w)
    BY <1>4, <2>1 DEF Awake, SameLifecycle, SameReads, SameInput, SameEnds, SameEvents,
                      State, SocketInput, FilterChainWantsData
  <2> QED BY <1>2, <1>3, <1>4, <1>5, <2>2 DEF NoNewWrite, SameEvents
<1>6. CASE ~c.connecting /\ ~ (n = 0 /\ ~endStream)
  <2>1. /\ e \in ConnectionType /\ SameLifecycle(d, e) /\ SameReads(d, e)
        /\ SameInput(d, e) /\ SameOutput(d, e) /\ SameEnds(d, e)
        /\ e.enabled = d.enabled /\ e.armed = d.armed /\ e.injected = d.injected \cup {"Write"}
    BY <1>3, ActivateFileEventsFields DEF Events
  <2> HIDE DEF e
  <2>2. /\ "Write" \in e.injected
        /\ "Read" \in c.injected => "Read" \in e.injected
        /\ e.enabled = c.enabled /\ e.armed = c.armed
    BY <1>4, <2>1 DEF SameEvents
  <2>3. /\ SameLifecycle(c, e) /\ SameReads(c, e) /\ SameInput(c, e) /\ SameEnds(c, e)
        /\ e.writeBuf = c.writeBuf + n /\ e.shutdown = c.shutdown
    BY <1>4, <2>1 DEF SameLifecycle, SameReads, SameInput, SameOutput, SameEnds
  <2>4. Awake(e, s, r, k, w)
    BY <2>2, <2>3 DEF Awake, SameLifecycle, SameReads, SameInput, SameEnds, State,
                      SocketInput, FilterChainWantsData
  <2> QED BY <1>2, <1>6, <2>1, <2>3, <2>4
<1> QED BY <1>5, <1>6

\* doWrite() with the connection's own end of stream.
LEMMA DoWriteFields ==
    ASSUME NEW c \in ConnectionType, NEW s \in SocketType
    PROVE  LET d == DoWrite(c, s, c.writeEnd)
           IN  /\ d \in ConnectionType /\ SameLifecycle(c, d) /\ SameReads(c, d)
               /\ SameInput(c, d) /\ SameEnds(c, d) /\ SameEvents(c, d)
               /\ d.writeBuf = c.writeBuf - Writable(c, s) /\ d.writeBuf \in Nat
               /\ d.writeEnd = c.writeEnd
               /\ d.shutdown <=> c.shutdown \/ (c.writeEnd /\ d.writeBuf = 0)
<1> DEFINE n == Writable(c, s)
           high == c.writeHigh /\ ~ IsBelowLow(c.writeBuf - n)
           a == DrainWrite(c, n)
           b == c.shutdown \/ (c.writeEnd /\ a.writeBuf = 0)
           d == DoWrite(c, s, c.writeEnd)
<1>1. n \in Nat /\ n <= c.writeBuf /\ c.writeBuf \in Nat
  BY WritableBounds DEF ConnectionType
<1> HIDE DEF n
<1>2. /\ a \in ConnectionType /\ SameLifecycle(c, a) /\ SameReads(c, a)
      /\ SameInput(c, a) /\ SameEnds(c, a) /\ SameEvents(c, a)
      /\ a.writeBuf = c.writeBuf - n /\ a.writeEnd = c.writeEnd /\ a.shutdown = c.shutdown
  <2>1. high \in BOOLEAN
    OBVIOUS
  <2>2. a = [c EXCEPT !.writeBuf = c.writeBuf - n, !.writeHigh = high]
    BY DEF DrainWrite
  <2>3. c.writeBuf - n \in Nat
    BY <1>1
  <2> HIDE DEF high, a
  <2> QED BY <2>1, <2>2, <2>3, SetWriteBufferFields
<1>3. d = [a EXCEPT !.shutdown = b] /\ b \in BOOLEAN
  <2>1. d = [a EXCEPT !.shutdown = @ \/ (c.writeEnd /\ a.writeBuf = 0)]
    BY DEF DoWrite, n
  <2> HIDE DEF a, d
  <2> QED BY <1>2, <2>1
<1>4. b <=> c.shutdown \/ (c.writeEnd /\ a.writeBuf = 0)
  OBVIOUS
<1> HIDE DEF a, b, d
<1>5. /\ d \in ConnectionType /\ SameLifecycle(a, d) /\ SameReads(a, d)
      /\ SameInput(a, d) /\ SameEnds(a, d) /\ SameEvents(a, d)
      /\ d.writeBuf = a.writeBuf /\ d.writeEnd = a.writeEnd /\ d.shutdown = b
  BY <1>2, <1>3 DEF ConnectionType, SameLifecycle, SameReads, SameInput, SameEnds, SameEvents
<1>6. /\ SameLifecycle(c, d) /\ SameReads(c, d) /\ SameInput(c, d) /\ SameEnds(c, d)
      /\ SameEvents(c, d)
  BY <1>2, <1>5 DEF SameLifecycle, SameReads, SameInput, SameEnds, SameEvents
<1>7. d.writeBuf = c.writeBuf - n /\ d.writeBuf \in Nat /\ d.writeEnd = c.writeEnd
      /\ (d.shutdown <=> c.shutdown \/ (c.writeEnd /\ d.writeBuf = 0))
  BY <1>1, <1>2, <1>4, <1>5
<1> QED BY <1>5, <1>6, <1>7 DEF d, n

\* After a doWrite() that did not fail, all is written or the kernel's queue is
\* full: no wakeup is needed before the peer reads.
LEMMA DoWriteAwake ==
    ASSUME NEW c \in ConnectionType, NEW s \in SocketType, NEW t, NEW r, NEW k, NEW w,
           Awake(c, s, r, k, TRUE), ~WriteFails(c, s),
           t = [s EXCEPT !.room = @ - Writable(c, s)]
    PROVE  Awake(DoWrite(c, s, c.writeEnd), t, r, k, w)
<1> DEFINE d == DoWrite(c, s, c.writeEnd)
           n == Writable(c, s)
<1>1. /\ d \in ConnectionType /\ SameLifecycle(c, d) /\ SameReads(c, d)
      /\ SameInput(c, d) /\ SameEnds(c, d) /\ SameEvents(c, d)
      /\ d.writeBuf = c.writeBuf - n /\ d.writeEnd = c.writeEnd
      /\ d.shutdown <=> c.shutdown \/ (c.writeEnd /\ d.writeBuf = 0)
  BY DoWriteFields
<1>2. c.writeBuf \in Nat /\ s.room \in Nat
  BY DEF ConnectionType, SocketType
<1>3. n = IF s.state # "up" \/ s.reset THEN 0
          ELSE IF c.writeBuf < s.room THEN c.writeBuf ELSE s.room
  BY DEF Writable
<1>4. /\ t.state = s.state /\ t.rx = s.rx /\ t.fin = s.fin /\ t.reset = s.reset
      /\ t.room = s.room - n
  BY DEF SocketType
<1>5. c.writeBuf > 0 => ~s.reset /\ s.state # "failed"
  BY DEF WriteFails
<1>t. s.state \in {"pending", "up", "failed"}
  BY DEF SocketType
<1> HIDE DEF d, n
<1>6. OutputWaiting(d) => "Write" \notin Ready(t)
  <2> SUFFICES ASSUME OutputWaiting(d) PROVE "Write" \notin Ready(t)
    OBVIOUS
  <2>1. d.writeBuf > 0
    BY <1>1, <1>2, <1>3 DEF OutputWaiting
  <2>2. c.writeBuf > 0 /\ (s.state = "pending" \/ (s.state = "up" /\ n = s.room))
    BY <1>1, <1>2, <1>3, <1>5, <1>t, <2>1
  <2> QED BY <1>2, <1>4, <1>5, <2>2 DEF Ready
<1>7. SocketInput(d, t) <=> SocketInput(c, s)
  BY <1>1, <1>4 DEF SocketInput, SameEnds
<1>8. Awake(d, t, r, k, w)
  BY <1>1, <1>6, <1>7 DEF Awake, SameLifecycle, SameReads, SameInput, SameEvents, State,
                          FilterChainWantsData
<1> QED BY <1>8 DEF d

\* closeSocket() leaves the ends of the streams alone.
LEMMA CloseSocketFields ==
    ASSUME NEW c \in ConnectionType
    PROVE  LET d == CloseSocket(c)
           IN  /\ ~d.open /\ d.connecting = c.connecting /\ d.delayed = c.delayed
               /\ SameEnds(c, d)
<1> DEFINE high == c.writeHigh /\ ~ IsBelowLow(c.writeBuf - c.writeBuf)
           a == DrainWrite(c, c.writeBuf)
           d == [a EXCEPT !.open = FALSE, !.timer = FALSE,
                          !.enabled = {}, !.armed = FALSE, !.injected = {}]
<1>1. a \in ConnectionType /\ SameLifecycle(c, a) /\ SameEnds(c, a)
  <2>1. high \in BOOLEAN /\ c.writeBuf - c.writeBuf \in Nat
    BY DEF ConnectionType
  <2>2. a = [c EXCEPT !.writeBuf = c.writeBuf - c.writeBuf, !.writeHigh = high]
    BY DEF DrainWrite
  <2> HIDE DEF high, a
  <2> QED BY <2>1, <2>2, SetWriteBufferFields
<1>2. CloseSocket(c) = IF ~c.open THEN c ELSE d
  BY DEF CloseSocket
<1> HIDE DEF a
<1>3. ~d.open /\ d.connecting = a.connecting /\ d.delayed = a.delayed /\ SameEnds(a, d)
  BY <1>1 DEF ConnectionType, SameEnds
<1> HIDE DEF d
<1> QED BY <1>1, <1>2, <1>3 DEF SameLifecycle, SameEnds

\* close(): while the socket stays open no bytes move and no write is injected.
LEMMA CloseFields ==
    ASSUME NEW c \in ConnectionType, NEW s \in SocketType, NEW type \in CloseTypes
    PROVE  LET d == Close(c, s, type)
           IN  /\ SameEnds(c, d)
               /\ d.delayed = "None" => c.delayed = "None"
               /\ d.open => /\ SameOutput(c, d) /\ NoNewWrite(c, d)
                            /\ d.immediateError = c.immediateError
                            /\ type # "NoFlush"
<1> DEFINE q == Close(c, s, type)
<1>1. CASE ~c.open
  BY <1>1 DEF Close, SameEnds, ConnectionType
<1>2. CASE c.open /\ type = "NoFlush"
  <2> DEFINE d == IF c.writeBuf > 0 THEN DoWrite(c, s, TRUE) ELSE c
  <2>1. q = CloseSocket(d)
    BY <1>2 DEF Close
  <2>2. d \in ConnectionType /\ d.delayed = c.delayed /\ SameEnds(c, d)
    <3> DEFINE a == DrainWrite(c, Writable(c, s))
               b == a.shutdown \/ (TRUE /\ a.writeBuf = 0)
               high == c.writeHigh /\ ~ IsBelowLow(c.writeBuf - Writable(c, s))
    <3>1. a \in ConnectionType /\ SameLifecycle(c, a) /\ SameEnds(c, a)
      <4>1. high \in BOOLEAN /\ c.writeBuf - Writable(c, s) \in Nat
        BY WritableBounds DEF ConnectionType
      <4>2. a = [c EXCEPT !.writeBuf = c.writeBuf - Writable(c, s), !.writeHigh = high]
        BY DEF DrainWrite
      <4> HIDE DEF high, a
      <4> QED BY <4>1, <4>2, SetWriteBufferFields
    <3>2. DoWrite(c, s, TRUE) = [a EXCEPT !.shutdown = b] /\ b \in BOOLEAN
      <4>1. DoWrite(c, s, TRUE) = [a EXCEPT !.shutdown = @ \/ (TRUE /\ a.writeBuf = 0)]
        BY DEF DoWrite
      <4> HIDE DEF a
      <4> QED BY <3>1, <4>1
    <3> HIDE DEF a, b
    <3>3. [a EXCEPT !.shutdown = b] \in ConnectionType
          /\ [a EXCEPT !.shutdown = b].delayed = a.delayed
          /\ SameEnds(a, [a EXCEPT !.shutdown = b])
      BY <3>1, <3>2 DEF ConnectionType, SameEnds
    <3> QED BY <3>1, <3>2, <3>3 DEF SameLifecycle, SameEnds
  <2> HIDE DEF d
  <2>3. ~CloseSocket(d).open /\ CloseSocket(d).delayed = d.delayed
        /\ SameEnds(d, CloseSocket(d))
    BY <2>2, CloseSocketFields
  <2> QED BY <2>1, <2>2, <2>3 DEF SameEnds
<1>3. CASE c.open /\ type # "NoFlush" /\ c.writeBuf = 0
  <2> DEFINE m == IF c.halfClose THEN {} ELSE {"Closed"}
             w == [c EXCEPT !.timer = TRUE, !.delayed = "CloseAfterFlushAndWait"]
  <2>1. q = IF type # "FlushWriteAndDelay" \/ ~c.delayedTimeout THEN CloseSocket(c)
            ELSE IF c.delayed # "None" THEN c ELSE EnableFileEvents(w, m)
    BY <1>3 DEF Close
  <2>2. ~CloseSocket(c).open /\ CloseSocket(c).delayed = c.delayed /\ SameEnds(c, CloseSocket(c))
    BY CloseSocketFields
  <2>3. w \in ConnectionType /\ SameEnds(c, w) /\ SameOutput(c, w)
        /\ w.delayed # "None" /\ w.immediateError = c.immediateError
    BY DEF ConnectionType, SameEnds, SameOutput
  <2>4. m \in SUBSET Events
    BY DEF Events
  <2> DEFINE e == EnableFileEvents(w, m)
  <2> HIDE DEF w, m
  <2>5. SameLifecycle(w, e) /\ SameEnds(w, e) /\ SameOutput(w, e) /\ e.injected = {}
    BY <2>3, <2>4, EnableFileEventsFields
  <2> HIDE DEF e
  <2>6. SameEnds(c, e) /\ SameOutput(c, e) /\ e.delayed # "None"
        /\ e.immediateError = c.immediateError /\ NoNewWrite(c, e)
    BY <2>3, <2>5 DEF SameEnds, SameOutput, SameLifecycle, NoNewWrite
  <2>7. SameEnds(c, c) /\ SameOutput(c, c) /\ NoNewWrite(c, c)
    BY DEF SameEnds, SameOutput, NoNewWrite
  <2> QED BY <1>3, <2>1, <2>2, <2>6, <2>7 DEF e
<1>4. CASE c.open /\ type # "NoFlush" /\ c.writeBuf # 0
  <2> DEFINE l == IF type = "FlushWrite" \/ ~c.delayedTimeout
                  THEN "CloseAfterFlush" ELSE "CloseAfterFlushAndWait"
             m == IF c.halfClose THEN {"Write"} ELSE {"Write", "Closed"}
             d == [c EXCEPT !.delayed = l]
             w == [d EXCEPT !.timer = c.delayedTimeout]
             e == EnableFileEvents(w, m)
  <2>1. l \in {"CloseAfterFlush", "CloseAfterFlushAndWait"} /\ m \in SUBSET Events
    BY DEF Events
  <2>2. q = IF c.delayed # "None" THEN d ELSE e
    BY <1>4 DEF Close
  <2> HIDE DEF l, m
  <2>3. d \in ConnectionType /\ SameEnds(c, d) /\ SameOutput(c, d) /\ NoNewWrite(c, d)
        /\ d.delayed # "None" /\ d.immediateError = c.immediateError
    BY <2>1 DEF ConnectionType, SameEnds, SameOutput, NoNewWrite
  <2>c. c.delayedTimeout \in BOOLEAN
    BY DEF ConnectionType
  <2> HIDE DEF d
  <2>4. w \in ConnectionType /\ SameEnds(d, w) /\ SameOutput(d, w)
        /\ w.delayed = d.delayed /\ w.immediateError = d.immediateError
    BY <2>3, <2>c DEF ConnectionType, SameEnds, SameOutput
  <2> HIDE DEF w
  <2>5. SameLifecycle(w, e) /\ SameEnds(w, e) /\ SameOutput(w, e) /\ e.injected = {}
    BY <2>1, <2>4, EnableFileEventsFields
  <2> HIDE DEF e
  <2>6. SameEnds(c, e) /\ SameOutput(c, e) /\ e.delayed # "None"
        /\ e.immediateError = c.immediateError /\ NoNewWrite(c, e)
    BY <2>3, <2>4, <2>5 DEF SameEnds, SameOutput, SameLifecycle, NoNewWrite
  <2> QED BY <1>4, <2>2, <2>3, <2>6
<1> QED BY <1>1, <1>2, <1>3, <1>4

-------------------------------------------------------------------------------
(* The call stack.                                                         *)

LEMMA PushOnStack ==
    ASSUME NEW s \in Seq(FrameType), NEW f \in FrameType, NEW fn
    PROVE  OnStack(fn, Append(s, f)) <=> f.fn = fn \/ OnStack(fn, s)
<1> DEFINE t == Append(s, f)
<1>1. /\ Len(s) \in Nat /\ Len(t) = Len(s) + 1 /\ t[Len(t)] = f /\ t # <<>>
      /\ \A k \in 1 .. Len(s) : t[k] = s[k]
  OBVIOUS
<1> HIDE DEF t
<1>2. ASSUME OnStack(fn, t) PROVE f.fn = fn \/ OnStack(fn, s)
  <2>1. PICK k \in 1 .. Len(t) : t[k].fn = fn
    BY <1>2 DEF OnStack
  <2>2. k = Len(t) \/ k \in 1 .. Len(s)
    BY <1>1
  <2> QED BY <1>1, <2>1, <2>2 DEF OnStack
<1>3. ASSUME f.fn = fn \/ OnStack(fn, s) PROVE OnStack(fn, t)
  <2>1. Len(t) \in 1 .. Len(t) /\ \A k \in 1 .. Len(s) : k \in 1 .. Len(t)
    BY <1>1
  <2> QED BY <1>1, <1>3, <2>1 DEF OnStack
<1> QED BY <1>2, <1>3 DEF t

LEMMA PushInLoop ==
    ASSUME NEW s \in Seq(FrameType), NEW f \in FrameType
    PROVE  /\ InLoop(Append(s, f)) <=> f.fn \in LoopNames
           /\ Append(s, f) # <<>>
           /\ Append(s, f)[Len(Append(s, f))] = f
BY DEF InLoop

\* What is on the stack is the running frame or waits in a frame below.
LEMMA PopOnStack ==
    ASSUME IInv, stack # <<>>
    PROVE  /\ \A fn : OnStack(fn, stack) <=> Top.fn = fn \/ OnStack(fn, Return)
           /\ ~InLoop(Return)
           /\ ~OnStack("onWriteReady", Return)
           /\ Return \in Seq(FrameType)
<1>1. stack \in Seq(FrameType) /\ Len(stack) \in Nat /\ Len(stack) > 0
  BY DEF IInv, StackOK
<1>2. /\ Return \in Seq(FrameType) /\ Len(Return) = Len(stack) - 1
      /\ \A k \in 1 .. Len(Return) : Return[k] = stack[k]
  BY <1>1, PopElements DEF Return
<1>3. AllWaiting(Return)
  BY PopOK DEF Return, IInv
<1>4. ASSUME NEW fn, OnStack(fn, stack) PROVE Top.fn = fn \/ OnStack(fn, Return)
  <2>1. PICK k \in 1 .. Len(stack) : stack[k].fn = fn
    BY <1>4 DEF OnStack
  <2>2. k = Len(stack) \/ k \in 1 .. Len(Return)
    BY <1>1, <1>2
  <2> QED BY <1>2, <2>1, <2>2 DEF OnStack, Top
<1>5. ASSUME NEW fn, Top.fn = fn \/ OnStack(fn, Return) PROVE OnStack(fn, stack)
  <2>1. Len(stack) \in 1 .. Len(stack) /\ \A k \in 1 .. Len(Return) : k \in 1 .. Len(stack)
    BY <1>1, <1>2
  <2> QED BY <1>2, <1>5, <2>1 DEF OnStack, Top
<1>6. ~InLoop(Return)
  <2>1. Return # <<>> => Len(Return) \in 1 .. Len(Return)
    BY <1>2
  <2> QED BY <1>3, <2>1 DEF InLoop, LoopNames, AllWaiting, WaitingNames
<1>7. ~OnStack("onWriteReady", Return)
  BY <1>3 DEF OnStack, AllWaiting, WaitingNames
<1> QED BY <1>2, <1>4, <1>5, <1>6, <1>7

LEMMA EmptyStack ==
    ASSUME Idle
    PROVE  /\ \A fn : ~OnStack(fn, stack)
           /\ ~InLoop(stack)
BY DEF Idle, OnStack, InLoop

\* Awake asks for less when more handlers are on the stack.
LEMMA AwakeWeaker ==
    ASSUME NEW c, NEW s, NEW r, NEW k, NEW w, NEW q, NEW l, NEW v, Awake(c, s, r, k, w),
           r => q, k => l, w => v
    PROVE  Awake(c, s, q, l, v)
BY DEF Awake

\* A frame that neither reads, writes nor closes returns.
LEMMA ReturnAwake ==
    ASSUME IInv, WakeInv, stack # <<>>, NEW s,
           Top.fn \notin {"onReadReady", "closeRemote", "onWriteReady", "afterConnected"},
           \A fn \in {"onReadReady", "closeRemote", "onWriteReady", "afterConnected"} :
              OnStack(fn, Return) => OnStack(fn, s)
    PROVE  Awake(conn, sock, OnStack("onReadReady", s), OnStack("closeRemote", s),
                 WritePends(s))
<1>1. \A fn : OnStack(fn, stack) <=> Top.fn = fn \/ OnStack(fn, Return)
  BY PopOnStack
<1>2. /\ OnStack("onReadReady", stack) => OnStack("onReadReady", s)
      /\ OnStack("closeRemote", stack) => OnStack("closeRemote", s)
      /\ WritePends(stack) => WritePends(s)
  BY <1>1 DEF WritePends
<1> QED BY <1>2, AwakeWeaker DEF WakeInv

-------------------------------------------------------------------------------
(* Holding the iteration.                                                  *)

\* The filters below m that hold the iteration, when one more or one fewer do.
LEMMA HeldSubset ==
    ASSUME NEW P, NEW Q, Q \subseteq P, NEW m \in Int
    PROVE  /\ Cardinality(Q \cap (1 .. m)) \in Nat
           /\ Cardinality(Q \cap (1 .. m)) <= Cardinality(P \cap (1 .. m))
<1>1. IsFiniteSet(1 .. m)
  BY FS_Interval
<1>2. IsFiniteSet(P \cap (1 .. m))
  BY <1>1, FS_Subset
<1>3. Q \cap (1 .. m) \subseteq P \cap (1 .. m)
  OBVIOUS
<1> QED BY <1>2, <1>3, FS_Subset, FS_CardinalityType

LEMMA HeldAtMost ==
    ASSUME NEW P, NEW m \in Nat
    PROVE  Cardinality(P \cap (1 .. m)) \in Nat /\ Cardinality(P \cap (1 .. m)) <= m
<1>1. IsFiniteSet(1 .. m) /\ Cardinality(1 .. m) = m
  <2>1. (IF 1 > m THEN 0 ELSE m - 1 + 1) = m
    OBVIOUS
  <2> QED BY <2>1, FS_Interval
<1>2. P \cap (1 .. m) \subseteq 1 .. m
  OBVIOUS
<1> QED BY <1>1, <1>2, FS_Subset, FS_CardinalityType

\* The iteration moves on from filter i - 1 to filter i.
LEMMA HeldMoves ==
    ASSUME NEW S, NEW i \in Nat, i > 1, i - 1 \notin S, NEW m \in Nat
    PROVE  LET p == Cardinality((S \cup {i - 1}) \cap (1 .. m))
               q == Cardinality((S \cup {i}) \cap (1 .. m))
           IN  /\ p \in Nat /\ q \in Nat /\ q <= p
               /\ m = i - 1 => q + 1 <= p
<1> DEFINE T == S \cap (1 .. m)
           P == (S \cup {i - 1}) \cap (1 .. m)
           Q == (S \cup {i}) \cap (1 .. m)
<1>1. IsFiniteSet(T) /\ IsFiniteSet(P) /\ IsFiniteSet(Q)
  <2>1. IsFiniteSet(1 .. m)
    BY FS_Interval
  <2> QED BY <2>1, FS_Subset
<1>2. Cardinality(T) \in Nat /\ Cardinality(P) \in Nat /\ Cardinality(Q) \in Nat
  BY <1>1, FS_CardinalityType
<1>3. CASE m < i - 1
  <2>1. P = T /\ Q = T
    BY <1>3
  <2> QED BY <1>2, <1>3, <2>1
<1>4. CASE m = i - 1
  <2>1. Q = T /\ P = T \cup {i - 1} /\ i - 1 \notin T
    BY <1>4
  <2>2. Cardinality(P) = Cardinality(T) + 1
    BY <1>1, <2>1, FS_AddElement
  <2>3. Cardinality(Q) = Cardinality(T)
    BY <2>1
  <2> HIDE DEF T, P, Q
  <2>4. Cardinality(Q) <= Cardinality(P) /\ Cardinality(Q) + 1 <= Cardinality(P)
    BY <1>2, <2>2, <2>3
  <2> QED BY <1>2, <2>4 DEF P, Q
<1>5. CASE m > i - 1
  <2>1. P = T \cup {i - 1} /\ Q = T \cup {i} /\ i - 1 \notin T
    BY <1>5
  <2>2. Cardinality(P) = Cardinality(T) + 1
    BY <1>1, <2>1, FS_AddElement
  <2>3. Cardinality(Q) = Cardinality(T) + 1 \/ Cardinality(Q) = Cardinality(T)
    BY <1>1, <2>1, FS_AddElement
  <2> QED BY <1>2, <1>5, <2>2, <2>3
<1> QED BY <1>3, <1>4, <1>5

\* Fewer filters hold the iteration.
LEMMA EndsKept ==
    ASSUME NEW fs \in FiltersType, NEW gs \in FiltersType, gs.ended = fs.ended,
           NEW held, NEW now, EndsOK(fs, held), now \subseteq held
    PROVE  EndsOK(gs, now)
<1>1. ASSUME NEW m \in Filters \ {1}
      PROVE  gs.ended[m] + Cardinality(now \cap (1 .. (m - 1))) <= m - 1
  <2>1. m \in Nat /\ m - 1 \in Int /\ fs.ended[m] \in Nat
    BY ConnectionAssumption DEF Filters, FiltersType
  <2>2. /\ Cardinality(now \cap (1 .. (m - 1))) \in Nat
        /\ Cardinality(now \cap (1 .. (m - 1))) <= Cardinality(held \cap (1 .. (m - 1)))
        /\ Cardinality(held \cap (1 .. (m - 1))) \in Nat
    BY <2>1, HeldSubset
  <2>3. fs.ended[m] + Cardinality(held \cap (1 .. (m - 1))) <= m - 1
    BY DEF EndsOK
  <2> QED BY <2>1, <2>2, <2>3
<1> QED BY <1>1 DEF EndsOK

-------------------------------------------------------------------------------
(* Steps that neither move the filter loop nor establish the connection.   *)

LEMMA RaisedKeepsConnected ==
    ASSUME raised \in Seq(ConnectionEvents), NEW event \in ConnectionEvents,
           event # "Connected", raised' = Append(raised, event),
           \E k \in DOMAIN raised' : raised'[k] = "Connected"
    PROVE  \E k \in DOMAIN raised : raised[k] = "Connected"
<1>1. PICK k \in DOMAIN raised' : raised'[k] = "Connected"
  OBVIOUS
<1>2. /\ Len(raised) \in Nat /\ DOMAIN raised = 1 .. Len(raised)
      /\ DOMAIN raised' = 1 .. (Len(raised) + 1) /\ raised'[Len(raised) + 1] = event
      /\ \A j \in 1 .. Len(raised) : raised'[j] = raised[j]
  OBVIOUS
<1>3. k \in 1 .. Len(raised)
  BY <1>1, <1>2
<1> QED BY <1>1, <1>2, <1>3

LEMMA EndInvKept ==
    ASSUME IInv, EndInv, filters' = filters, SameEnds(conn, conn'),
           conn'.delayed = "None" => conn.delayed = "None",
           stack' = stack \/ ~InLoop(stack')
    PROVE  EndInv'
<1>1. Held(filters', stack') \subseteq Held(filters, stack)
  BY DEF Held
<1>2. filters \in FiltersType
  BY DEF IInv
<1>3. conn'.readEnd => EndsOK(filters', Held(filters', stack'))
  BY <1>1, <1>2, EndsKept DEF EndInv, SameEnds
<1>4. InLoop(stack') => LoopOK(stack'[Len(stack')], filters', conn'.readEnd)
  BY DEF EndInv, SameEnds
<1> QED BY <1>3, <1>4 DEF EndInv, SameEnds

\* What most steps have in common: no change of the ends of the streams, no
\* write event for a connecting socket, no Connected.
LEMMA CommonParts ==
    ASSUME SInv, filters' = filters, SameEnds(conn, conn'),
           conn'.delayed = "None" => conn.delayed = "None",
           conn'.connecting = conn.connecting,
           conn'.open => /\ conn.open /\ conn'.immediateError = conn.immediateError
                         /\ conn.connecting => NoNewWrite(conn, conn'),
           sock'.state = sock.state,
           stack' = stack \/ (stack # <<>> /\ stack' = Return),
           \/ raised' = raised
           \/ \E event \in {"LocalClose", "RemoteClose"} : raised' = Append(raised, event)
    PROVE  ConnectInv' /\ EndInv'
<1>1. IInv /\ ConnectInv /\ EndInv
  BY DEF SInv
<1>2. stack # <<>> => /\ ~InLoop(Return) /\ ~OnStack("onWriteReady", Return)
  BY <1>1, PopOnStack
<1>3. EndInv'
  BY <1>1, <1>2, EndInvKept
<1>4. OnStack("onWriteReady", stack') => OnStack("onWriteReady", stack)
  BY <1>2
<1>5. ASSUME \E k \in DOMAIN raised' : raised'[k] = "Connected"
      PROVE  \E k \in DOMAIN raised : raised[k] = "Connected"
  <2>1. raised \in Seq(ConnectionEvents)
    BY <1>1 DEF IInv, EventsOK
  <2>2. ASSUME NEW event \in {"LocalClose", "RemoteClose"}, raised' = Append(raised, event)
        PROVE  \E k \in DOMAIN raised : raised[k] = "Connected"
    BY <1>5, <2>1, <2>2, RaisedKeepsConnected DEF ConnectionEvents
  <2> QED BY <1>5, <2>2
<1>6. ConnectedIsReal'
  BY <1>1, <1>5 DEF ConnectInv, ConnectedIsReal
<1>7. ConnectInv'
  BY <1>1, <1>4, <1>6 DEF ConnectInv, NoNewWrite
<1> QED BY <1>3, <1>7

\* A step after which the socket is closed.
LEMMA ClosedStep ==
    ASSUME SInv, IInv', SocketOK(sock'), filters' = filters, SameEnds(conn, conn'),
           conn'.delayed = conn.delayed, conn'.connecting = conn.connecting,
           ~conn'.open, sock'.state = sock.state,
           stack' = stack \/ (stack # <<>> /\ stack' = Return),
           \/ raised' = raised
           \/ \E event \in {"LocalClose", "RemoteClose"} : raised' = Append(raised, event)
    PROVE  SInv'
<1>1. ConnectInv' /\ EndInv'
  BY CommonParts
<1>2. WakeInv' /\ OutputInv'
  BY DEF WakeInv, Awake, State, OutputInv
<1> QED BY <1>1, <1>2 DEF SInv

\* A step that closes the socket of a connection c that is conn but for events.
LEMMA CloseSocketStep ==
    ASSUME SInv, IInv', NEW c \in ConnectionType, SameEnds(conn, c),
           c.connecting = conn.connecting, c.delayed = conn.delayed,
           NEW event \in {"LocalClose", "RemoteClose"}, Becomes(CloseSocket(c), event),
           SocketOK(sock'), sock'.state = sock.state, filters' = filters,
           stack' = stack \/ (stack # <<>> /\ stack' = Return)
    PROVE  SInv'
<1>1. /\ ~CloseSocket(c).open /\ CloseSocket(c).connecting = c.connecting
      /\ CloseSocket(c).delayed = c.delayed /\ SameEnds(c, CloseSocket(c))
  BY CloseSocketFields
<1>2. conn' = CloseSocket(c) /\ (raised' = raised \/ raised' = Append(raised, event))
  BY DEF Becomes
<1>3. SameEnds(conn, conn')
  BY <1>1, <1>2 DEF SameEnds
<1> QED BY <1>1, <1>2, <1>3, ClosedStep

\* A frame returns and nothing else changes.
LEMMA ReturnStep ==
    ASSUME SInv, IInv', stack # <<>>, stack' = Return,
           UNCHANGED <<conn, sock, filters, raised, hist>>,
           \/ Top.fn \notin {"onReadReady", "closeRemote", "onWriteReady", "afterConnected"}
           \/ State(conn) # "Open"
    PROVE  SInv'
<1>1. ConnectInv' /\ EndInv'
  BY CommonParts DEF SameEnds, NoNewWrite
<1>2. WakeInv'
  <2>1. CASE State(conn) # "Open"
    BY <2>1 DEF WakeInv, Awake
  <2>2. CASE Top.fn \notin {"onReadReady", "closeRemote", "onWriteReady", "afterConnected"}
    BY <2>2, ReturnAwake DEF SInv, WakeInv
  <2> QED BY <2>1, <2>2
<1>3. OutputInv' /\ SocketOK(sock')
  BY DEF SInv, OutputInv
<1> QED BY <1>1, <1>2, <1>3 DEF SInv

-------------------------------------------------------------------------------
(* The kernel and the peer.                                                *)

\* The file event is armed at most; the socket's readiness grows only by
\* events the connection is woken for.
LEMMA WakesStep ==
    ASSUME SInv, IInv', NEW events, Wakes(events), SocketOK(sock'),
           UNCHANGED <<stack, filters, raised, hist>>,
           sock.state = "pending" \/ sock'.state = sock.state,
           "Read" \in events \/ (SocketInput(conn, sock') => SocketInput(conn, sock)),
           "Write" \in events \/ ("Write" \in Ready(sock') => "Write" \in Ready(sock))
    PROVE  SInv'
<1> DEFINE b == conn.armed \/ conn.enabled \cap events # {}
<1>1. conn' = [conn EXCEPT !.armed = b] /\ b \in BOOLEAN
  BY DEF Wakes
<1>2. b <=> conn.armed \/ conn.enabled \cap events # {}
  OBVIOUS
<1> HIDE DEF b
<1>3. conn \in ConnectionType
  BY DEF SInv, IInv, ConnInv
<1>4. /\ SameLifecycle(conn, conn') /\ SameReads(conn, conn') /\ SameInput(conn, conn')
      /\ SameOutput(conn, conn') /\ SameEnds(conn, conn')
      /\ conn'.enabled = conn.enabled /\ conn'.injected = conn.injected
      /\ conn'.armed = b
  BY <1>1, <1>3 DEF ConnectionType, SameLifecycle, SameReads, SameInput, SameOutput, SameEnds
<1>5. WakeInv'
  <2> DEFINE r == OnStack("onReadReady", stack)
             k == OnStack("closeRemote", stack)
             w == WritePends(stack)
  <2>1. Awake(conn, sock, r, k, w)
    BY DEF SInv, WakeInv
  <2> HIDE DEF r, k, w
  <2>2. Awake(conn', sock', r, k, w)
    BY <1>2, <1>4, <2>1
       DEF Awake, SameLifecycle, SameReads, SameInput, SameOutput, SameEnds, State,
           SocketInput, OutputWaiting, FilterChainWantsData
  <2> QED BY <2>2 DEF WakeInv, r, k, w
<1>6. OutputInv'
  BY <1>4 DEF SInv, OutputInv, SameLifecycle, SameOutput
<1>7. EndInv'
  BY <1>4, EndInvKept DEF SInv, SameLifecycle
<1>8. ConnectInv'
  BY <1>4 DEF SInv, ConnectInv, ConnectedIsReal, SameLifecycle
<1> QED BY <1>5, <1>6, <1>7, <1>8 DEF SInv

LEMMA KernelStep == ASSUME SInv, IInv', Kernel PROVE SInv'
<1> USE ConnectionAssumption
<1>1. sock \in SocketType /\ SocketOK(sock)
  BY DEF SInv, IInv
<1>2. ASSUME NEW state \in {"up", "failed"}, ConnectEnds(state) PROVE SInv'
  <2>1. /\ sock.state = "pending" /\ sock' = [sock EXCEPT !.state = state] /\ Wakes(Events)
        /\ UNCHANGED <<stack, filters, raised, hist>>
    BY <1>2 DEF ConnectEnds
  <2>2. sock'.rx = sock.rx /\ sock'.fin = sock.fin /\ sock'.reset = sock.reset
    BY <1>1, <2>1 DEF SocketType
  <2>3. SocketOK(sock')
    BY <1>1, <2>1, <2>2 DEF SocketOK
  <2> QED BY <2>1, <2>3, WakesStep DEF Events
<1>3. CASE PeerSends
  <2>1. /\ PeerUp /\ sock' = [sock EXCEPT !.rx = @ + 1] /\ Wakes({"Read"})
        /\ UNCHANGED <<stack, filters, raised, hist>>
    BY <1>3 DEF PeerSends
  <2>2. /\ sock'.state = sock.state /\ sock'.fin = sock.fin /\ sock'.reset = sock.reset
        /\ sock'.room = sock.room /\ sock.state = "up"
    BY <1>1, <2>1 DEF SocketType, PeerUp
  <2>3. SocketOK(sock')
    BY <2>2 DEF SocketOK
  <2>4. "Write" \in Ready(sock') => "Write" \in Ready(sock)
    BY <2>2 DEF Ready
  <2> QED BY <2>1, <2>2, <2>3, <2>4, WakesStep
<1>4. CASE PeerFinishes
  <2>1. /\ PeerUp /\ sock' = [sock EXCEPT !.fin = TRUE] /\ Wakes({"Read", "Closed"})
        /\ UNCHANGED <<stack, filters, raised, hist>>
    BY <1>4 DEF PeerFinishes
  <2>2. /\ sock'.state = sock.state /\ sock'.reset = sock.reset
        /\ sock'.room = sock.room /\ sock.state = "up"
    BY <1>1, <2>1 DEF SocketType, PeerUp
  <2>3. SocketOK(sock')
    BY <2>2 DEF SocketOK
  <2>4. "Write" \in Ready(sock') => "Write" \in Ready(sock)
    BY <2>2 DEF Ready
  <2> QED BY <2>1, <2>2, <2>3, <2>4, WakesStep
<1>5. CASE PeerResets
  <2>1. /\ PeerUp /\ sock' = [sock EXCEPT !.reset = TRUE, !.rx = 0]
        /\ Wakes({"Read", "Write"}) /\ UNCHANGED <<stack, filters, raised, hist>>
    BY <1>5 DEF PeerResets
  <2>2. sock'.state = sock.state /\ sock.state = "up"
    BY <1>1, <2>1 DEF SocketType, PeerUp
  <2>3. SocketOK(sock')
    BY <2>2 DEF SocketOK
  <2> QED BY <2>1, <2>2, <2>3, WakesStep
<1>6. CASE PeerReads
  <2>1. /\ PeerUp /\ sock' = [sock EXCEPT !.room = SendRoom]
        /\ IF sock.room = 0 THEN Wakes({"Write"}) ELSE UNCHANGED conn
        /\ UNCHANGED <<stack, filters, raised, hist>>
    BY <1>6 DEF PeerReads
  <2>2. /\ sock'.state = sock.state /\ sock'.rx = sock.rx /\ sock'.fin = sock.fin
        /\ sock'.reset = sock.reset
    BY <1>1, <2>1 DEF SocketType
  <2>3. SocketOK(sock') /\ (SocketInput(conn, sock') <=> SocketInput(conn, sock))
    BY <1>1, <2>2 DEF SocketOK, SocketInput
  <2>4. CASE Wakes({"Write"})
    BY <2>1, <2>2, <2>3, <2>4, WakesStep
  <2>5. CASE sock.room # 0 /\ conn' = conn
    <3>1. "Write" \in Ready(sock)
      BY <1>1, <2>1, <2>5 DEF Ready, PeerUp, SocketType
    <3>2. WakeInv'
      BY <2>1, <2>3, <2>5, <3>1 DEF SInv, WakeInv, Awake
    <3>3. ConnectInv' /\ EndInv'
      BY <2>1, <2>2, <2>5, CommonParts DEF SameEnds, NoNewWrite
    <3>4. OutputInv'
      BY <2>1, <2>5 DEF SInv, OutputInv
    <3> QED BY <2>3, <3>2, <3>3, <3>4 DEF SInv
  <2> QED BY <2>1, <2>4, <2>5
<1> QED BY <1>2, <1>3, <1>4, <1>5, <1>6 DEF Kernel

-------------------------------------------------------------------------------
(* The event loop.                                                         *)

\* onFileEvent() with the events taken from conn: c is what it leaves behind,
\* and what waits is awake if the handlers of the events are counted.
LEMMA OnFileEventStep ==
    ASSUME SInv, IInv', Idle, NEW c \in ConnectionType, NEW events,
           SameLifecycle(conn, c), SameOutput(conn, c), SameEnds(conn, c),
           c.injected = {}, OnFileEvent(c, events), UNCHANGED <<sock, filters, hist>>,
           Awake(c, sock, "Read" \in events, FALSE, "Write" \in events),
           conn.open /\ conn.connecting /\ "Write" \in events /\ conn.immediateError = "none"
               => sock.state # "pending"
    PROVE  SInv'
<1>0. SocketOK(sock') /\ IInv /\ conn.open \in BOOLEAN /\ sock'.state = sock.state
  BY DEF SInv, IInv, ConnInv, ConnectionType
<1>1. ASSUME NEW event \in {"LocalClose", "RemoteClose"},
             Becomes(CloseSocket(c), event), UNCHANGED stack
      PROVE  SInv'
  BY <1>0, <1>1, CloseSocketStep DEF SameLifecycle
<1>2. CASE c.immediateError # "none"
  <2>1. c.immediateError \in {"LocalClose", "RemoteClose"}
    BY <1>2 DEF ConnectionType
  <2> QED BY <1>1, <1>2, <2>1 DEF OnFileEvent
<1>3. CASE c.immediateError = "none" /\ "Closed" \in events
  BY <1>1, <1>3 DEF OnFileEvent
<1>4. CASE c.immediateError = "none" /\ "Closed" \notin events
  <2> DEFINE read == IF "Read" \in events THEN <<Frame("onReadReady", 0)>> ELSE <<>>
             both == Append(read, Frame("onWriteReady", 0))
  <2>1. /\ conn' = c /\ raised' = raised
        /\ stack' = IF "Write" \in events THEN both ELSE read
    BY <1>0, <1>4 DEF OnFileEvent, Becomes, SameLifecycle
  <2>2. /\ Frame("onReadReady", 0) \in FrameType /\ Frame("onWriteReady", 0) \in FrameType
        /\ Frame("onReadReady", 0).fn = "onReadReady"
        /\ Frame("onWriteReady", 0).fn = "onWriteReady"
    BY FrameIsFrame DEF FrameNames
  <2>3. /\ read \in Seq(FrameType) /\ ~InLoop(read)
        /\ OnStack("onReadReady", read) <=> "Read" \in events
        /\ ~OnStack("onWriteReady", read)
    BY <2>2 DEF OnStack, InLoop, LoopNames
  <2> HIDE DEF read
  <2>4. /\ OnStack("onReadReady", both) <=> "Read" \in events
        /\ OnStack("onWriteReady", both) /\ ~InLoop(both)
    BY <2>2, <2>3, PushOnStack, PushInLoop DEF LoopNames
  <2> HIDE DEF both
  <2>5. /\ OnStack("onReadReady", stack') <=> "Read" \in events
        /\ OnStack("onWriteReady", stack') <=> "Write" \in events
        /\ ~InLoop(stack')
    BY <2>1, <2>3, <2>4
  <2>6. Awake(c, sock, OnStack("onReadReady", stack'), OnStack("closeRemote", stack'),
              WritePends(stack'))
    BY <2>5 DEF WritePends, Awake
  <2>7. WakeInv'
    BY <2>1, <2>6 DEF WakeInv
  <2>8. OutputInv'
    BY <2>1 DEF SInv, OutputInv, SameLifecycle, SameOutput
  <2>9. EndInv'
    BY <1>0, <2>1, <2>5, EndInvKept DEF SInv, SameLifecycle
  <2>10. ConnectInv'
    <3>1. ConnectedIsReal'
      BY <1>0, <2>1 DEF SInv, ConnectInv, ConnectedIsReal
    <3>2. OnStack("onWriteReady", stack') /\ conn'.connecting => sock'.state # "pending"
      <4>1. OnStack("onWriteReady", stack') => conn'.open
        <5>1. "Write" \in events => stack' # <<>> /\ stack'[Len(stack')].fn = "onWriteReady"
          BY <2>1, <2>2, <2>3, PushInLoop DEF both
        <5> QED BY <2>5, <5>1 DEF IInv, StackOK
      <4> QED BY <1>0, <1>4, <2>1, <2>5, <4>1 DEF SameLifecycle
    <3> QED BY <2>1, <3>1, <3>2 DEF ConnectInv
  <2> QED BY <1>0, <2>7, <2>8, <2>9, <2>10 DEF SInv
<1> QED BY <1>2, <1>3, <1>4

LEMMA EventLoopStep ==
    ASSUME SInv, IInv', FdReady \/ Activation \/ DelayedCloseTimeout PROVE SInv'
<1>1. conn \in ConnectionType /\ sock \in SocketType /\ SocketOK(sock) /\ IInv
  BY DEF SInv, IInv, ConnInv
<1>2. Idle => Awake(conn, sock, FALSE, FALSE, FALSE)
  <2> SUFFICES ASSUME Idle PROVE Awake(conn, sock, FALSE, FALSE, FALSE)
    OBVIOUS
  <2>1. \A fn : ~OnStack(fn, stack)
    BY EmptyStack
  <2>2. ~WritePends(stack)
    BY <2>1 DEF WritePends
  <2> QED BY <2>1, <2>2 DEF SInv, WakeInv, Awake
<1>c. conn.open /\ conn.connecting /\ "Write" \in conn.injected => conn.immediateError # "none"
  BY DEF SInv, ConnectInv
<1>3. CASE FdReady
  <2> DEFINE c == [conn EXCEPT !.armed = FALSE, !.injected = {}]
             events == FdEvents \cup conn.injected
  <2>1. Idle /\ OnFileEvent(c, events) /\ UNCHANGED <<sock, filters, hist>>
    BY <1>3 DEF FdReady
  <2>2. /\ c \in ConnectionType /\ SameLifecycle(conn, c) /\ SameReads(conn, c)
        /\ SameInput(conn, c) /\ SameOutput(conn, c) /\ SameEnds(conn, c)
        /\ c.enabled = conn.enabled /\ c.injected = {}
    BY <1>1 DEF ConnectionType, SameLifecycle, SameReads, SameInput, SameOutput, SameEnds
  <2>3. SocketInput(conn, sock) => "Read" \in Ready(sock)
    BY <1>1 DEF SocketInput, SocketOK, Ready
  <2>4. /\ "Read" \in conn.injected => "Read" \in events
        /\ "Write" \in conn.injected => "Write" \in events
        /\ "Read" \in conn.enabled /\ "Read" \in Ready(sock) => "Read" \in events
        /\ "Write" \in conn.enabled /\ "Write" \in Ready(sock) => "Write" \in events
        /\ "Write" \in events => "Write" \in conn.injected \/ sock.state # "pending"
    BY DEF FdEvents, Ready
  <2> HIDE DEF c, events
  <2>5. Awake(c, sock, "Read" \in events, FALSE, "Write" \in events)
    BY <1>2, <2>1, <2>2, <2>3, <2>4
       DEF Awake, SameLifecycle, SameReads, SameInput, SameOutput, SameEnds, State,
           SocketInput, OutputWaiting, FilterChainWantsData
  <2> QED BY <1>c, <2>1, <2>2, <2>4, <2>5, OnFileEventStep
<1>4. CASE Activation
  <2> DEFINE c == [conn EXCEPT !.injected = {}]
             events == conn.injected
  <2>1. Idle /\ OnFileEvent(c, events) /\ UNCHANGED <<sock, filters, hist>>
    BY <1>4 DEF Activation
  <2>2. /\ c \in ConnectionType /\ SameLifecycle(conn, c) /\ SameReads(conn, c)
        /\ SameInput(conn, c) /\ SameOutput(conn, c) /\ SameEnds(conn, c)
        /\ c.enabled = conn.enabled /\ c.armed = conn.armed /\ c.injected = {}
    BY <1>1 DEF ConnectionType, SameLifecycle, SameReads, SameInput, SameOutput, SameEnds
  <2> HIDE DEF c
  <2>3. Awake(c, sock, "Read" \in events, FALSE, "Write" \in events)
    BY <1>2, <2>1, <2>2
       DEF Awake, SameLifecycle, SameReads, SameInput, SameOutput, SameEnds, State,
           SocketInput, OutputWaiting, FilterChainWantsData
  <2> QED BY <1>c, <2>1, <2>2, <2>3, OnFileEventStep
<1>5. CASE DelayedCloseTimeout
  <2> DEFINE c == [conn EXCEPT !.timer = FALSE]
  <2>1. Becomes(CloseSocket(c), "LocalClose") /\ UNCHANGED <<sock, stack, filters, hist>>
    BY <1>5 DEF DelayedCloseTimeout
  <2>2. /\ c \in ConnectionType /\ SameEnds(conn, c)
        /\ c.connecting = conn.connecting /\ c.delayed = conn.delayed
    BY <1>1 DEF ConnectionType, SameEnds
  <2> HIDE DEF c
  <2> QED BY <1>1, <2>1, <2>2, CloseSocketStep
<1> QED BY <1>3, <1>4, <1>5

-------------------------------------------------------------------------------
(* The write handlers.                                                     *)

LEMMA DoWriteReadyStep ==
    ASSUME SInv, IInv', conn.open, stack # <<>>, DoWriteReady,
           Top.fn \in {"onWriteReady", "flushWriteBuffer", "afterConnected"}
    PROVE  SInv'
<1> DEFINE c == DoWrite(conn, sock, conn.writeEnd)
           n == Writable(conn, sock)
<1>1. /\ conn \in ConnectionType /\ sock \in SocketType /\ SocketOK(sock) /\ IInv
      /\ hist \in HistoryType
  BY DEF SInv, IInv, ConnInv
<1>2. /\ c \in ConnectionType /\ SameLifecycle(conn, c) /\ SameEnds(conn, c)
      /\ SameEvents(conn, c) /\ c.writeBuf = conn.writeBuf - n /\ c.writeEnd = conn.writeEnd
      /\ c.shutdown <=> conn.shutdown \/ (conn.writeEnd /\ c.writeBuf = 0)
  BY <1>1, DoWriteFields
<1>3. n \in Nat /\ n <= conn.writeBuf
  BY <1>1, WritableBounds
<1>4. /\ \/ Becomes(CloseSocket(c), "RemoteClose")
         \/ Becomes(CloseSocket(c), "LocalClose")
         \/ ~WriteFails(conn, sock) /\ Becomes(c, "none")
      /\ sock' = [sock EXCEPT !.room = @ - n]
      /\ hist' = [hist EXCEPT !.sent = @ + n]
      /\ stack' = Return
      /\ filters' = filters
  BY DEF DoWriteReady, KernelTook
<1>5. /\ sock'.state = sock.state /\ SocketOK(sock')
      /\ hist'.sent = hist.sent + n /\ hist'.written = hist.written
  BY <1>1, <1>4 DEF SocketType, SocketOK, HistoryType
<1>6. ASSUME NEW event \in {"LocalClose", "RemoteClose"}, Becomes(CloseSocket(c), event)
      PROVE  SInv'
  BY <1>2, <1>4, <1>5, <1>6, CloseSocketStep DEF SameLifecycle
<1>7. CASE ~WriteFails(conn, sock) /\ Becomes(c, "none")
  <2>1. conn' = c /\ raised' = raised
    BY <1>2, <1>7 DEF Becomes, SameLifecycle
  <2> DEFINE r == OnStack("onReadReady", stack')
             k == OnStack("closeRemote", stack')
             w == WritePends(stack')
  <2>2. /\ OnStack("onReadReady", stack) => r
        /\ OnStack("closeRemote", stack) => k
    <3>1. \A fn : OnStack(fn, stack) <=> Top.fn = fn \/ OnStack(fn, Return)
      BY <1>1, PopOnStack
    <3> QED BY <1>4, <3>1
  <2>3. Awake(conn, sock, r, k, TRUE)
    BY <2>2 DEF SInv, WakeInv, Awake
  <2> HIDE DEF r, k, w
  <2>4. Awake(c, sock', r, k, w)
    BY <1>1, <1>4, <1>7, <2>3, DoWriteAwake
  <2>5. WakeInv'
    BY <2>1, <2>4 DEF WakeInv, r, k, w
  <2>6. ConnectInv' /\ EndInv'
    BY <1>2, <1>4, <1>5, <2>1, CommonParts DEF SameLifecycle, SameEvents, NoNewWrite
  <2>7. OutputInv'
    <3>1. /\ hist.sent + conn.writeBuf = hist.written
          /\ conn.shutdown => conn.writeEnd /\ conn.writeBuf = 0
      BY DEF SInv, OutputInv
    <3>2. hist.sent \in Nat /\ conn.writeBuf \in Nat
      BY <1>1 DEF HistoryType, ConnectionType
    <3> HIDE DEF c, n
    <3>3. hist'.sent + c.writeBuf = hist'.written
      BY <1>2, <1>3, <1>5, <3>1, <3>2
    <3>4. c.shutdown => c.writeEnd /\ c.writeBuf = 0
      BY <1>2, <1>3, <3>1, <3>2
    <3> QED BY <2>1, <3>3, <3>4 DEF OutputInv
  <2> QED BY <1>5, <2>5, <2>6, <2>7 DEF SInv
<1> QED BY <1>4, <1>6, <1>7

\* The kernel reports the connection: the write handler raises Connected, and
\* afterwards writes what was written before.
LEMMA ConnectedStep ==
    ASSUME SInv, IInv', Running("onWriteReady"), conn.connecting, sock.state # "failed",
           conn' = [conn EXCEPT !.connecting = FALSE],
           raised' = Append(raised, "Connected"),
           stack' = Append(Append(Append(Return, Frame("afterConnected", 0)),
                                  Frame("flushWriteBuffer", 0)),
                           Frame("onConnected", 0)),
           UNCHANGED <<sock, filters, hist>>
    PROVE  SInv'
<1>1. conn \in ConnectionType /\ sock \in SocketType /\ IInv /\ stack # <<>>
  BY DEF SInv, IInv, ConnInv, Running
<1>2. /\ conn'.open = conn.open /\ conn'.delayed = conn.delayed /\ ~conn'.connecting
      /\ SameReads(conn, conn') /\ SameInput(conn, conn') /\ SameOutput(conn, conn')
      /\ SameEnds(conn, conn') /\ SameEvents(conn, conn')
  BY <1>1 DEF ConnectionType, SameReads, SameInput, SameOutput, SameEnds, SameEvents
<1>3. /\ \A fn : OnStack(fn, stack) <=> Top.fn = fn \/ OnStack(fn, Return)
      /\ Return \in Seq(FrameType)
  BY <1>1, PopOnStack
<1> DEFINE p == Return
           s1 == Append(p, Frame("afterConnected", 0))
           s2 == Append(s1, Frame("flushWriteBuffer", 0))
<1>4. stack' = Append(s2, Frame("onConnected", 0))
  OBVIOUS
<1>f. /\ Frame("afterConnected", 0) \in FrameType
      /\ Frame("flushWriteBuffer", 0) \in FrameType
      /\ Frame("onConnected", 0) \in FrameType
      /\ Frame("afterConnected", 0).fn = "afterConnected"
      /\ Frame("flushWriteBuffer", 0).fn = "flushWriteBuffer"
      /\ Frame("onConnected", 0).fn = "onConnected"
  BY FrameIsFrame DEF FrameNames, CallbackNames
<1>5. s1 \in Seq(FrameType) /\ \A fn : OnStack(fn, s1) <=> "afterConnected" = fn \/ OnStack(fn, p)
  BY <1>3, <1>f, PushOnStack
<1> HIDE DEF s1
<1>6. s2 \in Seq(FrameType) /\ \A fn : OnStack(fn, s2) <=> "flushWriteBuffer" = fn \/ OnStack(fn, s1)
  BY <1>5, <1>f, PushOnStack
<1> HIDE DEF s2
<1> DEFINE f == Frame("onConnected", 0)
<1> HIDE DEF f
<1>t. stack' = Append(s2, f) /\ f \in FrameType /\ f.fn = "onConnected"
  BY <1>4, <1>f DEF f
<1>7. /\ \A fn : OnStack(fn, stack') <=> "onConnected" = fn \/ OnStack(fn, s2)
      /\ ~InLoop(stack')
  <2>1. \A fn : OnStack(fn, Append(s2, f)) <=> f.fn = fn \/ OnStack(fn, s2)
    BY <1>6, <1>t, PushOnStack
  <2>2. InLoop(Append(s2, f)) <=> f.fn \in LoopNames
    BY <1>6, <1>t, PushInLoop
  <2> QED BY <1>t, <2>1, <2>2 DEF LoopNames
<1>8. Top.fn = "onWriteReady"
  BY DEF Running
<1>9. /\ OnStack("onReadReady", stack) => OnStack("onReadReady", stack')
      /\ OnStack("closeRemote", stack) => OnStack("closeRemote", stack')
      /\ WritePends(stack')
      /\ OnStack("onWriteReady", stack)
  BY <1>3, <1>5, <1>6, <1>7, <1>8 DEF WritePends
<1>10. WakeInv'
  BY <1>2, <1>9
     DEF SInv, WakeInv, Awake, SameReads, SameInput, SameOutput, SameEnds, SameEvents, State,
         SocketInput, OutputWaiting, FilterChainWantsData
<1>11. sock.state = "up"
  BY <1>1, <1>9 DEF SInv, ConnectInv, SocketType
<1>12. ConnectInv'
  BY <1>2, <1>11 DEF ConnectInv, ConnectedIsReal
<1>13. OutputInv'
  BY <1>2 DEF SInv, OutputInv, SameOutput
<1>14. EndInv'
  BY <1>1, <1>2, <1>7, EndInvKept DEF SInv
<1>15. SocketOK(sock')
  BY DEF SInv
<1> QED BY <1>10, <1>12, <1>13, <1>14, <1>15 DEF SInv

LEMMA WriteHandlersStep ==
    ASSUME SInv, IInv', OnWriteReady \/ FlushWriteBuffer \/ AfterConnected
    PROVE  SInv'
<1>1. stack # <<>> /\ conn \in ConnectionType /\ IInv /\ SocketOK(sock)
  BY DEF OnWriteReady, FlushWriteBuffer, AfterConnected, Running, SInv, IInv, ConnInv
<1>2. CASE OnWriteReady
  <2>1. Top.fn = "onWriteReady" /\ conn.open
    BY <1>1, <1>2 DEF OnWriteReady, Running, Top, IInv, StackOK
  <2>2. CASE DoWriteReady
    BY <1>1, <2>1, <2>2, DoWriteReadyStep
  <2>3. CASE Becomes(CloseSocket(conn), "RemoteClose") /\ stack' = Return
             /\ UNCHANGED <<sock, filters, hist>>
    BY <1>1, <2>3, CloseSocketStep DEF SameEnds
  <2>4. CASE /\ conn.connecting
             /\ sock.state # "failed"
             /\ conn' = [conn EXCEPT !.connecting = FALSE]
             /\ raised' = Append(raised, "Connected")
             /\ stack' = Append(Append(Append(Return, Frame("afterConnected", 0)),
                                       Frame("flushWriteBuffer", 0)),
                                Frame("onConnected", 0))
             /\ UNCHANGED <<sock, filters, hist>>
    BY <1>2, <2>4, ConnectedStep DEF OnWriteReady
  <2> QED BY <1>2, <2>2, <2>3, <2>4 DEF OnWriteReady, SocketError
<1>3. CASE FlushWriteBuffer
  <2>1. Top.fn = "flushWriteBuffer"
    BY <1>3 DEF FlushWriteBuffer, Running
  <2>2. CASE State(conn) = "Open" /\ DoWriteReady
    BY <1>1, <2>1, <2>2, DoWriteReadyStep DEF State
  <2>3. CASE stack' = Return /\ UNCHANGED <<conn, sock, filters, raised, hist>>
    BY <1>1, <2>1, <2>3, ReturnStep
  <2> QED BY <1>3, <2>2, <2>3 DEF FlushWriteBuffer
<1>4. CASE AfterConnected
  <2>1. Top.fn = "afterConnected"
    BY <1>4 DEF AfterConnected, Running
  <2>2. CASE State(conn) = "Open" /\ DoWriteReady
    BY <1>1, <2>1, <2>2, DoWriteReadyStep DEF State
  <2>3. CASE State(conn) # "Open" /\ stack' = Return
             /\ UNCHANGED <<conn, sock, filters, raised, hist>>
    BY <1>1, <2>3, ReturnStep
  <2> QED BY <1>4, <2>2, <2>3 DEF AfterConnected
<1> QED BY <1>2, <1>3, <1>4

-------------------------------------------------------------------------------
(* The users' methods.                                                     *)

\* A method that keeps the life cycle, called by a user.
LEMMA UserMethodStep ==
    ASSUME SInv, IInv', UNCHANGED <<sock, stack, filters, raised>>,
           SameLifecycle(conn, conn'), SameEnds(conn, conn'),
           conn.connecting => NoNewWrite(conn, conn'),
           Awake(conn', sock, OnStack("onReadReady", stack), OnStack("closeRemote", stack),
                 WritePends(stack)),
           OutputInv'
    PROVE  SInv'
<1>1. ConnectInv' /\ EndInv'
  BY CommonParts DEF SameLifecycle
<1>2. WakeInv' /\ SocketOK(sock')
  BY DEF WakeInv, SInv
<1> QED BY <1>1, <1>2 DEF SInv

LEMMA UserStep ==
    ASSUME SInv, IInv',
           \/ \E type \in CloseTypes : UserClose(type)
           \/ \E n \in 0 .. MaxWrite, endStream \in BOOLEAN : UserWrite(n, endStream)
           \/ UserReadDisable \/ UserReadEnable
           \/ \E n \in 1 .. MaxReceive : FilterDrains(n)
    PROVE  SInv'
<1> USE ConnectionAssumption
<1> DEFINE r == OnStack("onReadReady", stack)
           k == OnStack("closeRemote", stack)
           w == WritePends(stack)
<1>1. /\ conn \in ConnectionType /\ hist.disables \in Nat /\ hist \in HistoryType
      /\ sock \in SocketType /\ SocketOK(sock) /\ ConnInv(conn, hist.disables)
      /\ Awake(conn, sock, r, k, w)
  BY DEF SInv, IInv, ConnInv, HistoryType, WakeInv
<1>o. conn.open => /\ hist.sent + conn.writeBuf = hist.written
                   /\ conn.shutdown => conn.writeEnd /\ conn.writeBuf = 0
  BY DEF SInv, OutputInv
<1> HIDE DEF r, k, w
<1>2. ASSUME NEW type \in CloseTypes, UserClose(type) PROVE SInv'
  <2> DEFINE d == Close(conn, sock, type)
             n == IF type = "NoFlush" THEN Writable(conn, sock) ELSE 0
  <2>1. /\ conn.open /\ Becomes(d, "LocalClose") /\ KernelTook(n)
        /\ UNCHANGED <<stack, filters>>
    BY <1>2 DEF UserClose
  <2>2. /\ SameEnds(conn, d) /\ (d.delayed = "None" => conn.delayed = "None")
        /\ d.open => /\ SameOutput(conn, d) /\ NoNewWrite(conn, d)
                     /\ d.immediateError = conn.immediateError /\ type # "NoFlush"
    BY <1>1, CloseFields
  <2>3. State(d) # "Open" /\ d.connecting = conn.connecting
    BY <1>1, CloseEffect DEF ConnInv
  <2>n. type # "NoFlush" => n = 0
    OBVIOUS
  <2> HIDE DEF d, n
  <2>4. conn' = d /\ (raised' = raised \/ raised' = Append(raised, "LocalClose"))
    BY <2>1 DEF Becomes
  <2>5. /\ sock'.state = sock.state /\ SocketOK(sock')
        /\ hist'.sent = hist.sent + n /\ hist'.written = hist.written
    BY <1>1, <2>1 DEF KernelTook, SocketType, SocketOK, HistoryType
  <2>6. ConnectInv' /\ EndInv'
    BY <2>1, <2>2, <2>3, <2>4, <2>5, CommonParts
  <2>7. WakeInv'
    BY <2>3, <2>4 DEF WakeInv, Awake
  <2>8. OutputInv'
    <3>1. hist.sent \in Nat
      BY <1>1 DEF HistoryType
    <3> QED BY <1>o, <2>1, <2>2, <2>4, <2>5, <2>n, <3>1 DEF OutputInv, SameOutput
  <2> QED BY <2>5, <2>6, <2>7, <2>8 DEF SInv
<1>3. ASSUME NEW n \in 0 .. MaxWrite, NEW endStream \in BOOLEAN, UserWrite(n, endStream)
      PROVE  SInv'
  <2>1. /\ conn.open /\ ~conn.writeEnd /\ conn' = Write(conn, n, endStream)
        /\ hist' = [hist EXCEPT !.written = @ + n]
        /\ UNCHANGED <<sock, stack, filters, raised>> /\ n \in Nat
    BY <1>3 DEF UserWrite, State
  <2>2. /\ Awake(conn', sock, r, k, w) /\ SameLifecycle(conn, conn') /\ SameEnds(conn, conn')
        /\ conn.connecting => NoNewWrite(conn, conn')
        /\ conn'.writeBuf = conn.writeBuf + n /\ conn'.shutdown = conn.shutdown
    BY <1>1, <2>1, WriteAwake
  <2>3. hist'.sent = hist.sent /\ hist'.written = hist.written + n
        /\ hist.sent \in Nat /\ conn.writeBuf \in Nat
    BY <1>1, <2>1 DEF HistoryType, ConnectionType
  <2>4. OutputInv'
    BY <1>o, <2>1, <2>2, <2>3 DEF OutputInv
  <2> QED BY <2>1, <2>2, <2>4, UserMethodStep DEF r, k, w
<1>s. ASSUME SameLifecycle(conn, conn'), SameOutput(conn, conn'),
             hist'.sent = hist.sent, hist'.written = hist.written
      PROVE  OutputInv'
  BY <1>o, <1>s DEF OutputInv, SameLifecycle, SameOutput
<1>4. CASE UserReadDisable
  <2>1. /\ State(conn) = "Open" /\ conn' = ReadDisable(conn)
        /\ hist' = [hist EXCEPT !.disables = @ + 1]
        /\ UNCHANGED <<sock, stack, filters, raised>>
    BY <1>4 DEF UserReadDisable
  <2>2. conn.disabled = 0 => ~conn.readHigh
    BY <1>1, <2>1 DEF ConnInv, Balanced, ConnectionType
  <2>3. /\ Awake(conn', sock, r, k, w) /\ SameLifecycle(conn, conn')
        /\ SameOutput(conn, conn') /\ SameEnds(conn, conn') /\ NoNewWrite(conn, conn')
    BY <1>1, <2>1, <2>2, ReadDisableAwake
  <2>4. hist'.sent = hist.sent /\ hist'.written = hist.written
    BY <1>1, <2>1 DEF HistoryType
  <2> QED BY <1>s, <2>1, <2>3, <2>4, UserMethodStep DEF r, k, w
<1>5. CASE UserReadEnable
  <2>1. /\ State(conn) = "Open" /\ conn' = ReadEnable(conn)
        /\ hist.disables > 0 /\ hist' = [hist EXCEPT !.disables = @ - 1]
        /\ UNCHANGED <<sock, stack, filters, raised>>
    BY <1>5 DEF UserReadEnable
  <2>2. conn.disabled > 0
    BY <1>1, <2>1 DEF ConnInv, Balanced
  <2>3. /\ Awake(conn', sock, r, k, w) /\ SameLifecycle(conn, conn')
        /\ SameOutput(conn, conn') /\ SameEnds(conn, conn') /\ NoNewWrite(conn, conn')
    BY <1>1, <2>1, <2>2, ReadEnableAwake
  <2>4. hist'.sent = hist.sent /\ hist'.written = hist.written
    BY <1>1, <2>1 DEF HistoryType
  <2> QED BY <1>s, <2>1, <2>3, <2>4, UserMethodStep DEF r, k, w
<1>6. ASSUME NEW n \in 1 .. MaxReceive, FilterDrains(n) PROVE SInv'
  <2>1. /\ n \in Nat /\ n <= conn.readBuf /\ conn' = DrainRead(conn, n)
        /\ UNCHANGED <<sock, stack, filters, raised, hist>>
    BY <1>6 DEF FilterDrains
  <2>2. /\ Awake(conn', sock, r, k, w) /\ SameLifecycle(conn, conn')
        /\ SameOutput(conn, conn') /\ SameEnds(conn, conn') /\ NoNewWrite(conn, conn')
    BY <1>1, <2>1, DrainReadAwake DEF ConnInv
  <2> QED BY <1>s, <2>1, <2>2, UserMethodStep DEF r, k, w
<1> QED BY <1>2, <1>3, <1>4, <1>5, <1>6

-------------------------------------------------------------------------------
(* The read handlers.                                                      *)

LEMMA EndsFresh ==
    ASSUME NEW fs \in FiltersType, \A i \in Filters : fs.ended[i] = 0, NEW held
    PROVE  EndsOK(fs, held)
<1>1. ASSUME NEW m \in Filters \ {1}
      PROVE  fs.ended[m] + Cardinality(held \cap (1 .. (m - 1))) <= m - 1
  <2>1. m - 1 \in Nat
    BY ConnectionAssumption DEF Filters
  <2>2. /\ Cardinality(held \cap (1 .. (m - 1))) \in Nat
        /\ Cardinality(held \cap (1 .. (m - 1))) <= m - 1
    BY <2>1, HeldAtMost
  <2> QED BY <2>1, <2>2
<1> QED BY <1>1 DEF EndsOK

\* A read handler has taken what the kernel has; it runs the filters from the
\* first one on only if this is not a repeated end of stream.
LEMMA EndInvAfterRead ==
    ASSUME IInv, EndInv, filters' = filters, conn'.delayed = conn.delayed,
           conn.readEnd => conn'.readEnd,
           conn'.delayed = "None" /\ conn'.readEnd => conn'.readEndRaised,
           \/ ~InLoop(stack')
           \/ /\ stack' # <<>> /\ stack'[Len(stack')] = Frame("onContinueReading", 1)
              /\ conn'.readEnd => ~conn.readEnd
    PROVE  EndInv'
<1>1. filters \in FiltersType
  BY DEF IInv
<1>2. ~conn.readEnd => \A i \in Filters : filters.ended[i] = 0
  BY DEF EndInv
<1>3. InLoop(stack') => LoopOK(stack'[Len(stack')], filters', conn'.readEnd)
  <2> SUFFICES ASSUME InLoop(stack') PROVE LoopOK(stack'[Len(stack')], filters', conn'.readEnd)
    OBVIOUS
  <2>1. /\ Frame("onContinueReading", 1).fn = "onContinueReading"
        /\ Frame("onContinueReading", 1).i = 1
    BY DEF Frame
  <2> QED BY <1>2, <2>1 DEF LoopOK
<1>4. conn'.readEnd => EndsOK(filters', Held(filters', stack'))
  <2>1. CASE ~conn.readEnd
    BY <1>1, <1>2, <2>1, EndsFresh
  <2>2. CASE conn.readEnd
    <3> SUFFICES ASSUME conn'.readEnd PROVE EndsOK(filters', Held(filters', stack'))
      OBVIOUS
    <3>1. Held(filters', stack') \subseteq Held(filters, stack)
      BY <2>2 DEF Held
    <3> QED BY <1>1, <2>2, <3>1, EndsKept DEF EndInv
  <2> QED BY <2>1, <2>2
<1> QED BY <1>2, <1>3, <1>4 DEF EndInv

\* doRead() leaves no input behind that nobody is woken for.
LEMMA ReadLeavesNothing ==
    ASSUME NEW c, NEW s \in SocketType, NEW o \in ReadOutcomes(c, s), NEW d,
           s.rx - o.n = 0 /\ o.end = "eof" => d.readEnd,
           NEW t, t = [s EXCEPT !.rx = @ - o.n], SocketInput(d, t)
    PROVE  o.end \in {"drain", "error"}
<1>1. /\ t.rx = s.rx - o.n /\ t.fin = s.fin /\ t.reset = s.reset /\ t.state = s.state
      /\ s.rx \in Nat
  BY DEF SocketType
<1>2. CASE s.reset \/ s.state = "failed"
  BY <1>2 DEF ReadOutcomes
<1>3. CASE ~ (s.reset \/ s.state = "failed")
  <2>1. \/ o.end = "drain"
        \/ o.n = s.rx /\ o.end = IF s.fin THEN "eof" ELSE "again"
    BY <1>3 DEF ReadOutcomes
  <2> QED BY <1>1, <1>3, <2>1 DEF SocketInput
<1> QED BY <1>2, <1>3

LEMMA OnReadFields ==
    ASSUME NEW c \in ConnectionType
    PROVE  LET d == OnRead(c)
           IN  /\ d \in ConnectionType /\ SameLifecycle(c, d) /\ SameReads(c, d)
               /\ SameInput(c, d) /\ SameOutput(c, d) /\ SameEvents(c, d)
               /\ d.readEnd = c.readEnd /\ (d.readEnd => d.readEndRaised)
<1> DEFINE d == [c EXCEPT !.readEndRaised = TRUE]
<1>1. /\ d \in ConnectionType /\ SameLifecycle(c, d) /\ SameReads(c, d)
      /\ SameInput(c, d) /\ SameOutput(c, d) /\ SameEvents(c, d)
      /\ d.readEnd = c.readEnd /\ d.readEndRaised
  BY DEF ConnectionType, SameLifecycle, SameReads, SameInput, SameOutput, SameEvents
<1>3. CASE c.readEnd
  <2>1. OnRead(c) = d
    BY <1>3 DEF OnRead
  <2> QED BY <1>1, <2>1
<1>4. CASE ~c.readEnd
  <2>1. OnRead(c) = c
    BY <1>4 DEF OnRead
  <2> QED BY <1>4, <2>1 DEF SameLifecycle, SameReads, SameInput, SameOutput, SameEvents
<1> QED BY <1>3, <1>4

LEMMA OnReadReadyStep == ASSUME SInv, IInv', OnReadReady PROVE SInv'
<1>1. /\ conn \in ConnectionType /\ sock \in SocketType /\ SocketOK(sock) /\ IInv
      /\ hist \in HistoryType /\ stack # <<>> /\ Top.fn = "onReadReady"
      /\ conn.open /\ conn.disabled = 0 /\ filters' = filters /\ raised' = raised
  BY DEF SInv, IInv, ConnInv, OnReadReady, Running
<1> DEFINE c0 == [conn EXCEPT !.dispatchBuffered = FALSE, !.transportWantsRead = FALSE]
           cc(o) == DoRead(c0, o)
           ended(o) == o.end = "eof" /\ cc(o).halfClose
           dd(o) == [cc(o) EXCEPT !.readEnd = @ \/ ended(o)]
           close(o) == o.end = "error" \/ (o.end = "eof" /\ ~cc(o).halfClose)
           ff(o) == Frame(IF close(o) THEN "closeRemote" ELSE "closeIfDone", 0)
           af(o) == Append(Return, ff(o))
<1>2. PICK o \in ReadOutcomes(conn, sock) :
         /\ \/ /\ OnReadEnters(dd(o))
               /\ conn' = OnRead(dd(o))
               /\ stack' = Append(af(o), Frame("onContinueReading", 1))
            \/ /\ ~ (ended(o) /\ OnReadEnters(dd(o)))
               /\ conn' = dd(o)
               /\ stack' = af(o)
         /\ sock' = [sock EXCEPT !.rx = @ - o.n]
         /\ hist' = [hist EXCEPT !.received = @ + o.n]
  BY DEF OnReadReady
<1> DEFINE c == DoRead(c0, o)
           e == o.end = "eof" /\ c.halfClose
           d == [c EXCEPT !.readEnd = @ \/ e]
           k == o.end = "error" \/ (o.end = "eof" /\ ~c.halfClose)
           f == Frame(IF k THEN "closeRemote" ELSE "closeIfDone", 0)
           after == Append(Return, f)
           g == Frame("onContinueReading", 1)
           w == WritePends(Return)
<1>3. \/ /\ OnReadEnters(d)
         /\ conn' = OnRead(d)
         /\ stack' = Append(after, g)
      \/ /\ ~ (e /\ OnReadEnters(d))
         /\ conn' = d
         /\ stack' = after
  BY <1>2
<1>4. o.n \in Nat /\ o.n <= sock.rx
  BY <1>1, ReadOutcomeBounds
<1>5. /\ sock'.state = sock.state /\ sock'.fin = sock.fin /\ sock'.reset = sock.reset
      /\ sock'.room = sock.room /\ sock'.rx = sock.rx - o.n
      /\ hist'.sent = hist.sent /\ hist'.written = hist.written
  <2>1. sock' = [sock EXCEPT !.rx = @ - o.n] /\ hist' = [hist EXCEPT !.received = @ + o.n]
    BY <1>2
  <2> QED BY <1>1, <2>1 DEF SocketType, HistoryType
<1>6. SocketOK(sock') /\ ("Write" \in Ready(sock') <=> "Write" \in Ready(sock))
  BY <1>1, <1>4, <1>5 DEF SocketOK, Ready, SocketType
<1>7. /\ c0 \in ConnectionType /\ SameLifecycle(conn, c0) /\ SameReads(conn, c0)
      /\ SameOutput(conn, c0) /\ SameEnds(conn, c0) /\ SameEvents(conn, c0)
      /\ ~c0.dispatchBuffered /\ ~c0.transportWantsRead
  BY <1>1 DEF ConnectionType, SameLifecycle, SameReads, SameOutput, SameEnds, SameEvents
<1>8. /\ \A fn : OnStack(fn, stack) <=> Top.fn = fn \/ OnStack(fn, Return)
      /\ ~OnStack("onWriteReady", Return) /\ Return \in Seq(FrameType)
  BY <1>1, PopOnStack
<1>9. WritePends(stack) => w
  BY <1>1, <1>8 DEF WritePends
<1> HIDE DEF c0, w
<1>10. Awake(c0, sock', FALSE, TRUE, w)
  BY <1>6, <1>7, <1>9
     DEF SInv, WakeInv, Awake, SameLifecycle, SameReads, SameOutput, SameEvents, State,
         OutputWaiting
<1>11. c0.disabled = 0
  BY <1>1, <1>7 DEF SameReads
<1>12. /\ Awake(c, sock', FALSE, TRUE, w) /\ c \in ConnectionType
       /\ SameLifecycle(c0, c) /\ SameOutput(c0, c) /\ SameEnds(c0, c)
       /\ NoNewWrite(c0, c) /\ FilterChainWantsData(c)
       /\ o.end = "drain" /\ c.disabled = 0 => "Read" \in c.injected
  BY <1>4, <1>7, <1>10, <1>11, DoReadAwake
<1>13. e \in BOOLEAN /\ k \in BOOLEAN /\ d = [c EXCEPT !.readEnd = @ \/ e]
       /\ (o.end = "eof" => e \/ k) /\ (o.end = "error" => k)
  OBVIOUS
<1> HIDE DEF c, e, d, k
<1>14. /\ d \in ConnectionType /\ SameLifecycle(c, d) /\ SameReads(c, d)
       /\ SameInput(c, d) /\ SameOutput(c, d) /\ SameEvents(c, d)
       /\ d.readEndRaised = c.readEndRaised /\ (d.readEnd <=> c.readEnd \/ e)
  <2> DEFINE b == c.readEnd \/ e
  <2>1. b \in BOOLEAN /\ d = [c EXCEPT !.readEnd = b] /\ (b <=> c.readEnd \/ e)
    BY <1>13
  <2> HIDE DEF b
  <2> QED BY <1>12, <2>1
          DEF ConnectionType, SameLifecycle, SameReads, SameInput, SameOutput, SameEvents
<1>15. /\ SameLifecycle(conn, d) /\ SameOutput(conn, d) /\ NoNewWrite(conn, d)
       /\ d.readEndRaised = conn.readEndRaised /\ (d.readEnd <=> conn.readEnd \/ e)
       /\ FilterChainWantsData(d)
  BY <1>7, <1>12, <1>14
     DEF SameLifecycle, SameReads, SameOutput, SameEnds, SameEvents, NoNewWrite,
         FilterChainWantsData
<1>16. d.disabled = 0 /\ SocketInput(d, sock') => "Read" \in d.injected \/ k
  <2> SUFFICES ASSUME d.disabled = 0, SocketInput(d, sock') PROVE "Read" \in d.injected \/ k
    OBVIOUS
  <2>1. CASE k
    BY <2>1
  <2>2. CASE ~k
    <3>1. o.end = "eof" => d.readEnd
      BY <1>13, <1>14, <2>2
    <3>2. sock' = [sock EXCEPT !.rx = @ - o.n]
      BY <1>2
    <3>3. o.end \in {"drain", "error"}
      BY <1>1, <3>1, <3>2, ReadLeavesNothing
    <3> QED BY <1>12, <1>13, <1>14, <2>2, <3>3 DEF SameReads, SameEvents
  <2> QED BY <2>1, <2>2
<1>17. Awake(d, sock', FALSE, k, w)
  BY <1>12, <1>14, <1>16
     DEF Awake, SameLifecycle, SameReads, SameInput, SameOutput, SameEvents, State,
         OutputWaiting, FilterChainWantsData
<1>18. /\ f \in FrameType /\ (k => f.fn = "closeRemote")
       /\ f.fn \in {"closeRemote", "closeIfDone"}
  BY <1>13, FrameIsFrame DEF FrameNames
<1>g. g \in FrameType /\ g.fn = "onContinueReading" /\ g.i = 1
  BY FrameIsFrame DEF FrameNames
<1> HIDE DEF f, g
<1>19. /\ after \in Seq(FrameType)
       /\ \A fn : OnStack(fn, after) <=> f.fn = fn \/ OnStack(fn, Return)
       /\ ~InLoop(after)
  BY <1>8, <1>18, PushOnStack, PushInLoop DEF LoopNames
<1> HIDE DEF after
<1>20. /\ \A fn : OnStack(fn, Append(after, g)) <=> g.fn = fn \/ OnStack(fn, after)
       /\ Append(after, g) # <<>> /\ Append(after, g)[Len(Append(after, g))] = g
  BY <1>19, <1>g, PushOnStack, PushInLoop
<1>21. /\ k => OnStack("closeRemote", stack')
       /\ w => WritePends(stack')
       /\ ~OnStack("onWriteReady", stack')
  BY <1>3, <1>8, <1>18, <1>19, <1>20, <1>g DEF WritePends, w
<1>22. /\ SameLifecycle(d, conn') /\ SameReads(d, conn') /\ SameInput(d, conn')
       /\ SameOutput(d, conn') /\ SameEvents(d, conn') /\ conn'.readEnd = d.readEnd
  <2>1. CASE conn' = OnRead(d)
    BY <1>14, <2>1, OnReadFields
  <2>2. CASE conn' = d
    BY <2>2 DEF SameLifecycle, SameReads, SameInput, SameOutput, SameEvents
  <2> QED BY <1>3, <2>1, <2>2
<1>23. WakeInv'
  BY <1>17, <1>21, <1>22
     DEF WakeInv, Awake, SameLifecycle, SameReads, SameInput, SameOutput, SameEvents, State,
         SocketInput, OutputWaiting, FilterChainWantsData
<1>24. OutputInv'
  BY <1>5, <1>15, <1>22 DEF SInv, OutputInv, SameLifecycle, SameOutput
<1>25. ConnectInv'
  BY <1>1, <1>5, <1>15, <1>21, <1>22
     DEF SInv, ConnectInv, ConnectedIsReal, SameLifecycle, SameEvents, NoNewWrite
<1>26. conn.delayed = "None" /\ conn.readEnd => conn.readEndRaised
  BY DEF SInv, EndInv
<1>27. conn'.delayed = "None" /\ conn'.readEnd => conn'.readEndRaised
  <2>1. CASE conn' = OnRead(d)
    BY <1>14, <2>1, OnReadFields
  <2>2. CASE conn' = d /\ ~ (e /\ OnReadEnters(d))
    BY <1>15, <1>26, <2>2 DEF SameLifecycle, OnReadEnters
  <2> QED BY <1>3, <2>1, <2>2
<1>28. OnReadEnters(d) /\ d.readEnd => ~conn.readEnd
  BY <1>15, <1>26 DEF OnReadEnters, SameLifecycle
<1>29. \/ ~InLoop(stack')
       \/ /\ stack' # <<>> /\ stack'[Len(stack')] = Frame("onContinueReading", 1)
          /\ conn'.readEnd => ~conn.readEnd
  BY <1>3, <1>19, <1>20, <1>22, <1>28 DEF g
<1>30. conn'.delayed = conn.delayed /\ (conn.readEnd => conn'.readEnd)
  BY <1>15, <1>22 DEF SameLifecycle
<1>31. EndInv'
  BY <1>1, <1>27, <1>29, <1>30, EndInvAfterRead DEF SInv
<1> QED BY <1>6, <1>23, <1>24, <1>25, <1>31 DEF SInv

LEMMA ReadHandlersStep ==
    ASSUME SInv, IInv', OnReadReadyDisabled \/ OnReadReadyClosed \/ CloseRemote \/ CloseIfDone
    PROVE  SInv'
<1>1. /\ stack # <<>> /\ conn \in ConnectionType /\ IInv /\ SocketOK(sock)
  BY DEF OnReadReadyDisabled, OnReadReadyClosed, CloseRemote, CloseIfDone, Running, SInv,
         IInv, ConnInv
<1>2. CASE OnReadReadyDisabled
  <2> DEFINE c == [conn EXCEPT !.dispatchBuffered = FALSE]
             g == Frame("onContinueReading", 1)
  <2>1. /\ conn.disabled # 0 /\ Top.fn = "onReadReady"
        /\ \/ /\ OnReadEnters(c)
              /\ conn' = OnRead(c)
              /\ stack' = Append(Return, g)
           \/ conn' = c /\ stack' = Return
        /\ UNCHANGED <<sock, filters, raised, hist>>
    BY <1>2 DEF OnReadReadyDisabled, Running
  <2>2. /\ c \in ConnectionType /\ SameLifecycle(conn, c) /\ SameReads(conn, c)
        /\ SameOutput(conn, c) /\ SameEnds(conn, c) /\ SameEvents(conn, c)
        /\ ~c.dispatchBuffered
    BY <1>1 DEF ConnectionType, SameLifecycle, SameReads, SameOutput, SameEnds, SameEvents
  <2> HIDE DEF c
  <2>3. /\ \A fn : OnStack(fn, stack) <=> Top.fn = fn \/ OnStack(fn, Return)
        /\ ~OnStack("onWriteReady", Return) /\ Return \in Seq(FrameType)
        /\ ~InLoop(Return)
    BY <1>1, PopOnStack
  <2>4. g \in FrameType /\ g.fn = "onContinueReading"
    BY FrameIsFrame DEF FrameNames
  <2> HIDE DEF g
  <2>5. /\ \A fn : OnStack(fn, Append(Return, g)) <=> g.fn = fn \/ OnStack(fn, Return)
        /\ Append(Return, g) # <<>> /\ Append(Return, g)[Len(Append(Return, g))] = g
    BY <2>3, <2>4, PushOnStack, PushInLoop
  <2>6. /\ WritePends(stack) => WritePends(stack')
        /\ ~OnStack("onWriteReady", stack')
    BY <2>1, <2>3, <2>4, <2>5 DEF WritePends
  <2>7. /\ SameLifecycle(c, conn') /\ SameReads(c, conn') /\ SameInput(c, conn')
        /\ SameOutput(c, conn') /\ SameEvents(c, conn') /\ conn'.readEnd = c.readEnd
        /\ conn.readEndRaised => conn'.readEndRaised
    <3>1. CASE conn' = OnRead(c)
      BY <2>2, <3>1 DEF OnRead, ConnectionType, SameLifecycle, SameReads, SameInput,
                        SameOutput, SameEvents, SameEnds
    <3>2. CASE conn' = c
      BY <2>2, <3>2 DEF SameLifecycle, SameReads, SameInput, SameOutput, SameEvents, SameEnds
    <3> QED BY <2>1, <3>1, <3>2
  <2>8. WakeInv'
    BY <2>1, <2>2, <2>6, <2>7
       DEF SInv, WakeInv, Awake, SameLifecycle, SameReads, SameInput, SameOutput, SameEvents,
           State, OutputWaiting
  <2>9. OutputInv'
    BY <2>1, <2>2, <2>7 DEF SInv, OutputInv, SameLifecycle, SameOutput
  <2>10. ConnectInv'
    BY <2>1, <2>2, <2>6, <2>7
       DEF SInv, ConnectInv, ConnectedIsReal, SameLifecycle, SameEvents
  <2>11. conn.delayed = "None" /\ conn.readEnd => conn.readEndRaised
    BY DEF SInv, EndInv
  <2>12. /\ conn'.delayed = conn.delayed /\ conn'.readEnd = conn.readEnd
         /\ conn'.delayed = "None" /\ conn'.readEnd => conn'.readEndRaised
    BY <2>2, <2>7, <2>11 DEF SameLifecycle, SameEnds
  <2>13. OnReadEnters(c) => ~conn.readEnd
    BY <2>2, <2>11 DEF OnReadEnters, SameLifecycle, SameEnds
  <2>14. \/ ~InLoop(stack')
         \/ /\ stack' # <<>> /\ stack'[Len(stack')] = Frame("onContinueReading", 1)
            /\ conn'.readEnd => ~conn.readEnd
    BY <2>1, <2>3, <2>5, <2>12, <2>13 DEF g
  <2>15. EndInv'
    BY <1>1, <2>1, <2>12, <2>14, EndInvAfterRead DEF SInv
  <2> QED BY <1>1, <2>1, <2>8, <2>9, <2>10, <2>15 DEF SInv
<1>3. CASE OnReadReadyClosed
  BY <1>1, <1>3, ReturnStep DEF OnReadReadyClosed, State
<1>4. CASE CloseRemote
  BY <1>1, <1>4, CloseSocketStep DEF CloseRemote, SameEnds
<1>5. CASE CloseIfDone
  <2>1. /\ \/ Becomes(CloseSocket(conn), "RemoteClose")
           \/ Becomes(conn, "RemoteClose")
        /\ stack' = Return /\ UNCHANGED <<sock, filters, hist>> /\ Top.fn = "closeIfDone"
    BY <1>5 DEF CloseIfDone, Running
  <2>2. CASE Becomes(CloseSocket(conn), "RemoteClose")
    BY <1>1, <2>1, <2>2, CloseSocketStep DEF SameEnds
  <2>3. CASE Becomes(conn, "RemoteClose")
    BY <1>1, <2>1, <2>3, ReturnStep DEF Becomes
  <2> QED BY <2>1, <2>2, <2>3
<1> QED BY <1>2, <1>3, <1>4, <1>5


-------------------------------------------------------------------------------
(* The loop over the filters.                                              *)

\* The iteration has moved from filter i - 1 to filter i, which may have seen
\* the end of the stream.
LEMMA EndsMoved ==
    ASSUME NEW fs \in FiltersType, NEW gs \in FiltersType, NEW S, NEW i \in Filters,
           i > 1, i - 1 \notin S, EndsOK(fs, S \cup {i - 1}),
           \A m \in Filters : m # i => gs.ended[m] = fs.ended[m],
           gs.ended[i] <= fs.ended[i] + 1
    PROVE  EndsOK(gs, S \cup {i})
<1>1. ASSUME NEW m \in Filters \ {1}
      PROVE  gs.ended[m] + Cardinality((S \cup {i}) \cap (1 .. (m - 1))) <= m - 1
  <2> DEFINE p == Cardinality((S \cup {i - 1}) \cap (1 .. (m - 1)))
             q == Cardinality((S \cup {i}) \cap (1 .. (m - 1)))
  <2>1. /\ m \in Nat /\ m - 1 \in Nat /\ i \in Nat
        /\ fs.ended[m] \in Nat /\ gs.ended[m] \in Nat
    BY ConnectionAssumption DEF Filters, FiltersType
  <2>2. p \in Nat /\ q \in Nat /\ q <= p /\ (m - 1 = i - 1 => q + 1 <= p)
    BY <2>1, HeldMoves
  <2>3. fs.ended[m] + p <= m - 1
    BY DEF EndsOK
  <2> HIDE DEF p, q
  <2>4. gs.ended[m] + q <= m - 1
    <3>1. CASE m = i
      BY <2>1, <2>2, <2>3, <3>1
    <3>2. CASE m # i
      BY <2>1, <2>2, <2>3, <3>2
    <3> QED BY <3>1, <3>2
  <2> QED BY <2>4 DEF q
<1>2. 1 \in Filters => gs.ended[1] <= 1
  BY DEF EndsOK
<1> QED BY <1>1, <1>2 DEF EndsOK

\* The first filter sees the end of the stream.
LEMMA EndsBegun ==
    ASSUME NEW fs \in FiltersType, NEW gs \in FiltersType, NEW held, EndsOK(fs, held),
           \A m \in Filters : m # 1 => gs.ended[m] = fs.ended[m],
           1 \in Filters => gs.ended[1] <= 1
    PROVE  EndsOK(gs, held)
BY DEF EndsOK

\* One filter stops the iteration, or does so no longer.
LEMMA SetStoppedFields ==
    ASSUME NEW fs \in FiltersType, NEW i \in Filters, NEW b \in BOOLEAN, NEW gs,
           gs.stopped = [fs.stopped EXCEPT ![i] = b]
    PROVE  /\ gs.stopped[i] = b
           /\ ~b => StoppedIn(gs) \subseteq StoppedIn(fs)
<1>1. fs.stopped \in [Filters -> BOOLEAN]
  BY DEF FiltersType
<1>2. gs.stopped[i] = b /\ \A m \in Filters : m # i => gs.stopped[m] = fs.stopped[m]
  BY <1>1
<1> QED BY <1>2 DEF StoppedIn

LEMMA PushHeld ==
    ASSUME NEW s \in Seq(FrameType), NEW f \in FrameType, f.fn \in LoopNames, NEW fs
    PROVE  /\ Append(s, f)[Len(Append(s, f))] = f
           /\ Held(fs, Append(s, f)) = StoppedIn(fs) \cup {Passed(f)}
BY PushInLoop DEF Held

\* What the invariant says of a loop that runs.
LEMMA LoopRuns ==
    ASSUME SInv, stack # <<>>, Top.fn \in LoopNames
    PROVE  /\ Top \in FrameType /\ Top.i \in Nat
           /\ LoopOK(Top, filters, conn.readEnd)
           /\ conn.readEnd => EndsOK(filters, StoppedIn(filters) \cup {Passed(Top)})
           /\ ~conn.readEnd => \A m \in Filters : filters.ended[m] = 0
<1>1. Top \in FrameType
  BY DEF SInv, IInv, StackOK, Top
<1>2. InLoop(stack)
  BY DEF InLoop, Top
<1>3. Held(filters, stack) = StoppedIn(filters) \cup {Passed(Top)}
  BY <1>2 DEF Held, Top
<1> QED BY <1>1, <1>2, <1>3 DEF SInv, EndInv, FrameType, Top

\* A step of the loop: it changes the running frame and the filters only.
LEMMA LoopStep ==
    ASSUME SInv, IInv', EndInv', UNCHANGED <<conn, sock, raised, hist>>,
           stack # <<>>, Top.fn \in LoopNames,
           \/ stack' = Return
           \/ \E f \in FrameType : f.fn \in LoopNames /\ stack' = Append(Return, f)
    PROVE  SInv'
<1>1. Return \in Seq(FrameType) /\ ~OnStack("onWriteReady", Return)
  BY PopOnStack DEF SInv
<1>2. \A fn \in FrameNames \ LoopNames : OnStack(fn, stack') <=> OnStack(fn, Return)
  <2>1. ASSUME NEW f \in FrameType, f.fn \in LoopNames, stack' = Append(Return, f)
        PROVE  \A fn \in FrameNames \ LoopNames : OnStack(fn, stack') <=> OnStack(fn, Return)
    <3>1. \A fn : OnStack(fn, Append(Return, f)) <=> f.fn = fn \/ OnStack(fn, Return)
      BY <1>1, PushOnStack
    <3> QED BY <2>1, <3>1
  <2> QED BY <2>1
<1>3. {"onReadReady", "closeRemote", "onWriteReady", "afterConnected"}
         \subseteq FrameNames \ LoopNames
  BY DEF FrameNames, LoopNames
<1>4. WakeInv'
  <2>1. \A fn \in {"onReadReady", "closeRemote", "onWriteReady", "afterConnected"} :
           OnStack(fn, Return) => OnStack(fn, stack')
    BY <1>2, <1>3
  <2>2. Top.fn \notin {"onReadReady", "closeRemote", "onWriteReady", "afterConnected"}
    BY DEF LoopNames
  <2> QED BY <2>1, <2>2, ReturnAwake DEF SInv, WakeInv
<1>5. ConnectInv'
  BY <1>1, <1>2, <1>3 DEF SInv, ConnectInv, ConnectedIsReal
<1>6. OutputInv' /\ SocketOK(sock')
  BY DEF SInv, OutputInv
<1> QED BY <1>4, <1>5, <1>6 DEF SInv

LEMMA OnContinueReadingStep == ASSUME SInv, IInv', OnContinueReading PROVE SInv'
<1> DEFINE i == Top.i
           S == StoppedIn(filters)
<1>1. /\ stack # <<>> /\ Top.fn = "onContinueReading" /\ Top.fn \in LoopNames
      /\ UNCHANGED <<conn, sock, raised, hist>>
  BY DEF OnContinueReading, Running, LoopNames
<1>2. /\ i \in Nat /\ i > 0 /\ LoopOK(Top, filters, conn.readEnd)
      /\ conn.readEnd => EndsOK(filters, S \cup {Passed(Top)})
      /\ ~conn.readEnd => \A m \in Filters : filters.ended[m] = 0
  BY <1>1, LoopRuns DEF LoopOK
<1>3. /\ Return \in Seq(FrameType) /\ filters \in FiltersType /\ filters' \in FiltersType
  BY <1>1, PopOnStack DEF SInv, IInv
<1>4. /\ i <= NumFilters => i \in Filters
      /\ i > 1 /\ i <= NumFilters => i - 1 \in Filters
  BY <1>2, ConnectionAssumption DEF Filters
<1>5. Passed(Top) = IF i = 1 THEN 1 ELSE i - 1
  BY <1>1 DEF Passed
<1>6. conn.readEnd => /\ i > 1 => ~filters.stopped[i - 1]
                      /\ i = 1 /\ 1 \in Filters => filters.ended[1] = 0
  BY <1>1, <1>2 DEF LoopOK
<1>7. CASE stack' = Return /\ filters' = filters
  BY <1>1, <1>7, ReturnStep
<1>8. CASE /\ i <= NumFilters
           /\ stack' = Append(Return, Frame("onNewConnection", i))
           /\ filters' = [filters EXCEPT !.initialized[i] = TRUE]
  <2> DEFINE f == Frame("onNewConnection", i)
  <2>1. f \in FrameType /\ f.fn = "onNewConnection" /\ f.i = i /\ f.fn \in LoopNames
    BY <1>2, FrameIsFrame DEF FrameNames, CallbackNames, LoopNames
  <2>2. filters'.stopped = filters.stopped /\ filters'.ended = filters.ended
    BY <1>3, <1>8 DEF FiltersType
  <2>3. stack' = Append(Return, f)
    BY <1>8
  <2> HIDE DEF f
  <2>4. Passed(f) = Passed(Top) /\ StoppedIn(filters') = S
    BY <1>5, <2>1, <2>2 DEF Passed, StoppedIn
  <2>5. LoopOK(f, filters', conn.readEnd)
    BY <1>2, <1>4, <1>6, <1>8, <2>1, <2>2 DEF LoopOK
  <2>6. /\ stack'[Len(stack')] = f
        /\ Held(filters', stack') = S \cup {Passed(Top)}
    BY <1>3, <2>1, <2>3, <2>4, PushHeld
  <2>7. conn.readEnd => EndsOK(filters', Held(filters', stack'))
    BY <1>2, <1>3, <2>2, <2>6, EndsKept
  <2>8. EndInv'
    BY <1>1, <1>2, <2>2, <2>5, <2>6, <2>7 DEF SInv, EndInv
  <2> QED BY <1>1, <2>1, <2>3, <2>8, LoopStep
<1>9. CASE /\ i <= NumFilters
           /\ stack' = Append(Return, Frame("onData", i))
           /\ filters' = [filters EXCEPT !.stopped[i] = FALSE,
                                        !.ended[i] = @ + (IF conn.readEnd THEN 1 ELSE 0)]
  <2> DEFINE f == Frame("onData", i)
             n == IF conn.readEnd THEN 1 ELSE 0
  <2>1. f \in FrameType /\ f.fn = "onData" /\ f.i = i /\ f.fn \in LoopNames
    BY <1>2, FrameIsFrame DEF FrameNames, CallbackNames, LoopNames
  <2>2. /\ n \in {0, 1} /\ (~conn.readEnd => n = 0)
        /\ filters' = [filters EXCEPT !.stopped[i] = FALSE, !.ended[i] = @ + n]
    BY <1>9
  <2>3. stack' = Append(Return, f)
    BY <1>9
  <2> HIDE DEF f, n
  <2>4. /\ filters'.ended[i] = filters.ended[i] + n
        /\ \A m \in Filters : m # i => filters'.ended[m] = filters.ended[m]
        /\ ~filters'.stopped[i]
        /\ StoppedIn(filters') \cup {i} = S \cup {i}
    <3>1. i \in Filters
      BY <1>4, <1>9
    <3> DEFINE g == [filters.stopped EXCEPT ![i] = FALSE]
               h == [filters.ended EXCEPT ![i] = @ + n]
    <3>2. filters' = [filters EXCEPT !.stopped = g, !.ended = h]
      BY <1>3, <2>2 DEF FiltersType
    <3>3. filters.stopped \in [Filters -> BOOLEAN] /\ filters.ended \in [Filters -> Nat]
      BY <1>3 DEF FiltersType
    <3>4. ~g[i] /\ \A m \in Filters : m # i => g[m] = filters.stopped[m]
      BY <3>1, <3>3
    <3>5. h[i] = filters.ended[i] + n /\ \A m \in Filters : m # i => h[m] = filters.ended[m]
      BY <3>1, <3>3
    <3> HIDE DEF g, h
    <3>6. filters'.stopped = g /\ filters'.ended = h
      BY <1>3, <3>2 DEF FiltersType
    <3> QED BY <3>1, <3>4, <3>5, <3>6 DEF StoppedIn
  <2>5. Passed(f) = i
    BY <2>1 DEF Passed
  <2>6. /\ stack'[Len(stack')] = f
        /\ Held(filters', stack') = S \cup {i}
    BY <1>3, <2>1, <2>3, <2>4, <2>5, PushHeld
  <2>7. LoopOK(f, filters', conn.readEnd)
    BY <1>2, <1>4, <1>9, <2>1, <2>4 DEF LoopOK
  <2>n. filters.ended[i] \in Nat
    BY <1>3, <1>4, <1>9 DEF FiltersType
  <2>8. ASSUME conn.readEnd PROVE EndsOK(filters', Held(filters', stack'))
    <3>1. CASE i = 1
      <4>1. filters'.ended[1] <= 1
        BY <1>4, <1>6, <1>9, <2>2, <2>4, <2>8, <3>1
      <4>2. EndsOK(filters, S \cup {1})
        BY <1>2, <1>5, <2>8, <3>1
      <4> QED BY <1>3, <2>4, <2>6, <3>1, <4>1, <4>2, EndsBegun
    <3>2. CASE i > 1
      <4>1. EndsOK(filters, S \cup {i - 1})
        <5>1. Passed(Top) = i - 1
          BY <1>5, <3>2
        <5> QED BY <1>2, <2>8, <5>1, Zenon
      <4>2. i - 1 \notin S
        BY <1>6, <2>8, <3>2 DEF StoppedIn
      <4>3. filters'.ended[i] <= filters.ended[i] + 1
        BY <2>2, <2>4, <2>n
      <4>4. i \in Filters
        BY <1>4, <1>9
      <4> HIDE DEF i, S
      <4>5. EndsOK(filters', S \cup {i})
        BY <1>3, <2>4, <3>2, <4>1, <4>2, <4>3, <4>4, EndsMoved
      <4> QED BY <2>6, <4>5, Zenon
    <3> QED BY <1>2, <3>1, <3>2
  <2>9. ~conn.readEnd => \A m \in Filters : filters'.ended[m] = 0
    BY <1>2, <1>4, <1>9, <2>2, <2>4
  <2>10. EndInv'
    BY <1>1, <2>6, <2>7, <2>8, <2>9 DEF SInv, EndInv
  <2> QED BY <1>1, <2>1, <2>3, <2>10, LoopStep
<1>10. CASE /\ ~conn.readEnd /\ filters' = filters
            /\ stack' = Append(Return, Frame("onContinueReading", i + 1))
  <2> DEFINE f == Frame("onContinueReading", i + 1)
  <2>1. f \in FrameType /\ f.fn = "onContinueReading" /\ f.i = i + 1 /\ f.fn \in LoopNames
    BY <1>2, FrameIsFrame DEF FrameNames, CallbackNames, LoopNames
  <2>2. stack' = Append(Return, f)
    BY <1>10
  <2> HIDE DEF f
  <2>3. stack'[Len(stack')] = f
    BY <1>3, <2>1, <2>2, PushHeld
  <2>4. LoopOK(f, filters', conn.readEnd)
    BY <1>2, <1>10, <2>1 DEF LoopOK
  <2>5. EndInv'
    BY <1>1, <1>2, <1>10, <2>3, <2>4 DEF EndInv
  <2> QED BY <1>1, <2>1, <2>2, <2>5, LoopStep
<1> QED BY <1>7, <1>8, <1>9, <1>10 DEF OnContinueReading

LEMMA FilterReturnsStep ==
    ASSUME SInv, IInv', NEW status \in {"Continue", "StopIteration"}, FilterReturns(status)
    PROVE  SInv'
<1> DEFINE i == Top.i
           S == StoppedIn(filters)
           b == status = "StopIteration"
           next == IF Top.fn = "onNewConnection" THEN i ELSE i + 1
           f == Frame("onContinueReading", next)
<1>1. /\ stack # <<>> /\ Top.fn \in {"onNewConnection", "onData"} /\ Top.fn \in LoopNames
      /\ UNCHANGED <<conn, sock, raised, hist>>
  BY DEF FilterReturns, Running, LoopNames
<1>2. /\ i \in Nat /\ i > 0 /\ LoopOK(Top, filters, conn.readEnd) /\ i \in Filters
      /\ conn.readEnd => EndsOK(filters, S \cup {Passed(Top)})
      /\ ~conn.readEnd => \A m \in Filters : filters.ended[m] = 0
  BY <1>1, LoopRuns DEF LoopOK
<1>3. /\ Return \in Seq(FrameType) /\ ~InLoop(Return)
      /\ filters \in FiltersType /\ filters' \in FiltersType
  BY <1>1, PopOnStack DEF SInv, IInv
<1>4. /\ filters' = [filters EXCEPT !.stopped[i] = b] /\ b \in BOOLEAN
      /\ \/ stack' = Return
         \/ ~b /\ stack' = Append(Return, f)
  BY DEF FilterReturns
<1>5. conn.readEnd =>
         /\ Top.fn = "onNewConnection" /\ i > 1 => ~filters.stopped[i - 1]
         /\ Top.fn = "onNewConnection" /\ i = 1 => filters.ended[1] = 0
  BY <1>1, <1>2 DEF LoopOK
<1>6. Passed(Top) = IF Top.fn = "onData" \/ i = 1 THEN i ELSE i - 1
  BY <1>1 DEF Passed
<1>7. next \in Nat /\ next > 0
  BY <1>2
<1>8. f \in FrameType /\ f.fn = "onContinueReading" /\ f.i = next /\ f.fn \in LoopNames
  <2> HIDE DEF next
  <2> QED BY <1>7, FrameIsFrame DEF FrameNames, LoopNames
<1>9. next = IF Top.fn = "onNewConnection" THEN i ELSE i + 1
  OBVIOUS
<1> HIDE DEF i, S, b, f, next
<1>10. /\ filters'.ended = filters.ended
       /\ filters'.stopped[i] = b
       /\ \A m \in Filters : m # i => filters'.stopped[m] = filters.stopped[m]
       /\ b => StoppedIn(filters') = S \cup {i}
       /\ ~b => StoppedIn(filters') \subseteq S
  <2>1. filters'.ended = filters.ended /\ filters'.stopped = [filters.stopped EXCEPT ![i] = b]
    BY <1>3, <1>4 DEF FiltersType
  <2>2. i \in Filters /\ b \in BOOLEAN
    BY <1>2, <1>4
  <2>3. /\ filters'.stopped[i] = b
        /\ \A m \in Filters : m # i => filters'.stopped[m] = filters.stopped[m]
    BY <1>3, <2>1, <2>2 DEF FiltersType
  <2>4. b => StoppedIn(filters') = S \cup {i}
    BY <2>2, <2>3 DEF S, StoppedIn
  <2>5. ~b => StoppedIn(filters') \subseteq S
    BY <2>2, <2>3 DEF S, StoppedIn
  <2> QED BY <2>1, <2>3, <2>4, <2>5
<1>11. ~conn.readEnd => \A m \in Filters : filters'.ended[m] = 0
  BY <1>2, <1>10
<1>12. CASE stack' = Return
  <2>1. Held(filters', stack') = StoppedIn(filters')
    BY <1>3, <1>12 DEF Held
  <2>2. ASSUME conn.readEnd PROVE EndsOK(filters', StoppedIn(filters'))
    <3>1. CASE StoppedIn(filters') \subseteq S \cup {Passed(Top)}
      BY <1>2, <1>3, <1>10, <2>2, <3>1, EndsKept
    <3>2. CASE Top.fn = "onNewConnection" /\ i > 1 /\ b
      <4>1. Passed(Top) = i - 1
        BY <1>6, <3>2
      <4>2. EndsOK(filters, S \cup {i - 1})
        BY <1>2, <2>2, <4>1, Zenon
      <4>3. i - 1 \notin S
        BY <1>5, <2>2, <3>2 DEF S, StoppedIn
      <4>4. filters'.ended[i] <= filters.ended[i] + 1
        <5>1. filters.ended[i] \in Nat
          BY <1>2, <1>3 DEF FiltersType
        <5> QED BY <1>10, <5>1
      <4>5. EndsOK(filters', S \cup {i})
        BY <1>2, <1>3, <1>10, <3>2, <4>2, <4>3, <4>4, EndsMoved
      <4> QED BY <1>10, <3>2, <4>5, Zenon
    <3>3. StoppedIn(filters') \subseteq S \cup {Passed(Top)}
          \/ (Top.fn = "onNewConnection" /\ i > 1 /\ b)
      BY <1>1, <1>2, <1>4, <1>6, <1>10
    <3> QED BY <3>1, <3>2, <3>3
  <2>3. EndInv'
    BY <1>1, <1>3, <1>11, <1>12, <2>1, <2>2 DEF SInv, EndInv
  <2> QED BY <1>1, <1>12, <2>3, LoopStep
<1>13. CASE ~b /\ stack' = Append(Return, f)
  <2>1. Passed(f) = Passed(Top)
    BY <1>1, <1>2, <1>6, <1>8, <1>9 DEF Passed
  <2>2. /\ stack'[Len(stack')] = f
        /\ Held(filters', stack') = StoppedIn(filters') \cup {Passed(Top)}
    BY <1>3, <1>8, <1>13, <2>1, PushHeld
  <2>3. LoopOK(f, filters', conn.readEnd)
    <3>1. f.i > 1 /\ conn.readEnd => ~filters'.stopped[f.i - 1]
      <4>1. CASE Top.fn = "onNewConnection"
        <5>1. i > 1 => i - 1 \in Filters /\ i - 1 # i
          BY <1>2, ConnectionAssumption DEF Filters
        <5> QED BY <1>5, <1>8, <1>9, <1>10, <4>1, <5>1
      <4>2. CASE Top.fn # "onNewConnection"
        <5>1. f.i - 1 = i
          BY <1>2, <1>8, <1>9, <4>2
        <5> QED BY <1>10, <1>13, <5>1
      <4> QED BY <4>1, <4>2
    <3>2. f.i = 1 /\ 1 \in Filters /\ conn.readEnd => filters'.ended[1] = 0
      BY <1>1, <1>2, <1>5, <1>8, <1>9, <1>10
    <3> QED BY <1>7, <1>8, <3>1, <3>2 DEF LoopOK
  <2>4. StoppedIn(filters') \cup {Passed(Top)} \subseteq S \cup {Passed(Top)}
    BY <1>10, <1>13
  <2>5. conn.readEnd => EndsOK(filters', Held(filters', stack'))
    BY <1>2, <1>3, <1>10, <2>2, <2>4, EndsKept
  <2>6. EndInv'
    BY <1>1, <1>11, <2>2, <2>3, <2>5 DEF SInv, EndInv
  <2> QED BY <1>1, <1>8, <1>13, <2>6, LoopStep
<1> QED BY <1>4, <1>12, <1>13

LEMMA ContinueReadingStep ==
    ASSUME SInv, IInv', NEW i \in Filters, ContinueReading(i)
    PROVE  SInv'
<1> DEFINE f == Frame("onContinueReading", i + 1)
           S == StoppedIn(filters)
<1>1. /\ Idle /\ stack = <<>> /\ filters.stopped[i]
      /\ filters' = [filters EXCEPT !.stopped[i] = FALSE]
      /\ stack' = <<f>> \/ stack' = stack
      /\ UNCHANGED <<conn, sock, raised, hist>>
  BY DEF ContinueReading, Idle
<1>2. filters \in FiltersType /\ filters' \in FiltersType
  BY DEF SInv, IInv
<1>3. i \in Nat /\ i > 0 /\ i + 1 \in Nat
  BY ConnectionAssumption DEF Filters
<1>4. f \in FrameType /\ f.fn = "onContinueReading" /\ f.i = i + 1 /\ f.fn \in LoopNames
  BY <1>3, FrameIsFrame DEF FrameNames, LoopNames
<1> HIDE DEF f, S
<1>5. /\ filters'.ended = filters.ended
      /\ ~filters'.stopped[i]
      /\ StoppedIn(filters') \subseteq S
  <2>1. filters'.ended = filters.ended /\ filters'.stopped = [filters.stopped EXCEPT ![i] = FALSE]
    BY <1>1, <1>2 DEF FiltersType
  <2> QED BY <1>2, <2>1, SetStoppedFields DEF S
<1>6. i \in S /\ Held(filters, stack) = S
  BY <1>1, EmptyStack DEF Held, S, StoppedIn
<1>7. Passed(f) = i
  BY <1>3, <1>4 DEF Passed
<1>8. /\ stack' # <<>> => stack' = <<f>> /\ Len(stack') = 1 /\ stack'[Len(stack')] = f
  BY <1>1
<1>9. Held(filters', stack') \subseteq Held(filters, stack)
  BY <1>5, <1>6, <1>7, <1>8 DEF Held, InLoop
<1>10. EndInv'
  <2>1. conn.readEnd => EndsOK(filters', Held(filters', stack'))
    BY <1>2, <1>5, <1>9, EndsKept DEF SInv, EndInv
  <2>2. LoopOK(f, filters', conn.readEnd)
    <3>1. f.i > 0 /\ f.i # 1 /\ f.i - 1 = i
      BY <1>3, <1>4
    <3> QED BY <1>4, <1>5, <3>1 DEF LoopOK
  <2> QED BY <1>1, <1>5, <1>8, <2>1, <2>2 DEF SInv, EndInv, InLoop
<1>11. \A fn : fn # "onContinueReading" => ~OnStack(fn, stack')
  <2>1. CASE stack' = stack
    BY <1>1, <2>1, EmptyStack
  <2>2. CASE stack' = <<f>>
    BY <1>4, <2>2 DEF OnStack
  <2> QED BY <1>1, <2>1, <2>2
<1>12. WakeInv'
  BY <1>1, <1>11, EmptyStack DEF SInv, WakeInv, Awake, WritePends
<1>13. ConnectInv'
  BY <1>1, <1>11 DEF SInv, ConnectInv, ConnectedIsReal
<1>14. OutputInv' /\ SocketOK(sock')
  BY <1>1 DEF SInv, OutputInv
<1> QED BY <1>10, <1>12, <1>13, <1>14 DEF SInv

LEMMA ConnectedReturnsStep == ASSUME SInv, IInv', ConnectedReturns PROVE SInv'
BY ReturnStep DEF ConnectedReturns, Running

-------------------------------------------------------------------------------
(* The initial states.                                                     *)

LEMMA InitSInv == ASSUME Init PROVE SInv
<1>1. PICK g \in Configs :
         /\ conn = [open |-> TRUE,
                    connecting |-> g.client /\ g.error # "RemoteClose",
                    immediateError |-> g.error,
                    halfClose |-> g.halfClose, earlyClose |-> g.earlyClose,
                    delayedTimeout |-> g.delayedTimeout,
                    delayed |-> "None", timer |-> FALSE,
                    readBuf |-> 0, readHigh |-> FALSE,
                    writeBuf |-> 0, writeHigh |-> FALSE,
                    disabled |-> 0,
                    readEnd |-> FALSE, readEndRaised |-> FALSE,
                    writeEnd |-> FALSE, shutdown |-> FALSE,
                    dispatchBuffered |-> FALSE, transportWantsRead |-> FALSE,
                    enabled |-> {"Read", "Write"}, armed |-> TRUE,
                    injected |-> IF g.error # "none" THEN {"Write"} ELSE {}]
         /\ sock = [state |-> IF ~g.client THEN "up"
                              ELSE IF g.error # "none" THEN "failed" ELSE "pending",
                    rx |-> 0, fin |-> FALSE, reset |-> FALSE, room |-> SendRoom]
  BY DEF Init
<1>2. /\ ~conn.readEnd /\ ~conn.writeEnd /\ ~conn.shutdown
      /\ ~conn.dispatchBuffered /\ ~conn.transportWantsRead
      /\ conn.writeBuf = 0 /\ conn.disabled = 0 /\ conn.enabled = {"Read", "Write"}
  BY <1>1
<1>3. "Write" \in conn.injected => conn.immediateError # "none"
  BY <1>1
<1>4. sock.rx = 0 /\ ~sock.fin /\ ~sock.reset
  BY <1>1
<1>5. /\ stack = <<Frame("onContinueReading", 1)>> /\ raised = <<>>
      /\ \A i \in Filters : filters.ended[i] = 0
      /\ hist.sent = 0 /\ hist.written = 0
  BY DEF Init
<1> DEFINE f == Frame("onContinueReading", 1)
<1>6. f \in FrameType /\ f.fn = "onContinueReading" /\ f.i = 1 /\ stack = <<f>>
  BY <1>5, FrameIsFrame DEF FrameNames
<1> HIDE DEF f
<1>7. \A fn : fn # "onContinueReading" => ~OnStack(fn, stack)
  BY <1>6 DEF OnStack
<1>8. SocketOK(sock)
  BY <1>4 DEF SocketOK
<1>9. ~SocketInput(conn, sock)
  BY <1>4 DEF SocketInput
<1>10. ~OutputWaiting(conn)
  BY <1>2 DEF OutputWaiting
<1>11. WakeInv
  BY <1>2, <1>9, <1>10 DEF WakeInv, Awake
<1>12. ConnectInv
  BY <1>3, <1>5, <1>7 DEF ConnectInv, ConnectedIsReal
<1>13. OutputInv
  BY <1>2, <1>5 DEF OutputInv
<1>14. EndInv
  <2>1. stack[Len(stack)] = f
    BY <1>6
  <2>2. LoopOK(f, filters, conn.readEnd)
    BY <1>2, <1>6 DEF LoopOK
  <2> QED BY <1>2, <1>5, <2>1, <2>2 DEF EndInv
<1> QED BY <1>8, <1>11, <1>12, <1>13, <1>14, InitIInv DEF SInv

-------------------------------------------------------------------------------
(* Theorems.                                                               *)

\* Every step keeps the invariant of what flows through the connection.
THEOREM FlowInvariance == Spec => []SInv
<1>1. Init => SInv
  BY InitSInv
<1>2. SInv /\ [Next]_vars => SInv'
  <2> SUFFICES ASSUME SInv, [Next]_vars PROVE SInv'
    OBVIOUS
  <2>1. IInv
    BY DEF SInv
  <2>2. CASE Handlers
    <3>1. CASE FdReady \/ Activation \/ DelayedCloseTimeout
      BY <2>1, <3>1, EventLoopInv, EventLoopStep
    <3>2. CASE OnWriteReady \/ FlushWriteBuffer \/ AfterConnected
      BY <2>1, <3>2, WriteHandlersInv, WriteHandlersStep
    <3>3. CASE OnReadReady
      BY <2>1, <3>3, ReadHandlersInv, OnReadReadyStep
    <3>4. CASE OnReadReadyDisabled \/ OnReadReadyClosed \/ CloseRemote \/ CloseIfDone
      BY <2>1, <3>4, ReadHandlersInv, ReadHandlersStep
    <3>5. CASE OnContinueReading
      BY <2>1, <3>5, FilterLoopInv, OnContinueReadingStep
    <3>6. CASE ConnectedReturns
      BY <2>1, <3>6, FilterLoopInv, ConnectedReturnsStep
    <3> QED BY <2>2, <3>1, <3>2, <3>3, <3>4, <3>5, <3>6 DEF Handlers
  <2>3. CASE Kernel
    BY <2>1, <2>3, KernelInv, KernelStep
  <2>4. CASE Users
    <3>1. ASSUME NEW status \in {"Continue", "StopIteration"}, FilterReturns(status)
          PROVE  SInv'
      <4>1. IInv'
        BY <2>1, <3>1, FilterLoopInv
      <4> QED BY <3>1, <4>1, FilterReturnsStep
    <3>2. ASSUME NEW i \in Filters, ContinueReading(i) PROVE SInv'
      <4>1. IInv'
        BY <2>1, <3>2, FilterLoopInv
      <4> QED BY <3>2, <4>1, ContinueReadingStep
    <3>3. CASE \/ \E type \in CloseTypes : UserClose(type)
               \/ \E n \in 0 .. MaxWrite, endStream \in BOOLEAN : UserWrite(n, endStream)
               \/ UserReadDisable \/ UserReadEnable
               \/ \E n \in 1 .. MaxReceive : FilterDrains(n)
      <4>1. IInv'
        BY <2>1, <3>3, UserMethodsInv
      <4> QED BY <3>3, <4>1, UserStep
    <3> QED BY <2>4, <3>1, <3>2, <3>3 DEF Users
  <2>5. CASE UNCHANGED vars
    BY <2>5 DEF vars, SInv, IInv, WakeInv, ConnectInv, ConnectedIsReal, OutputInv, EndInv
  <2> QED BY <2>2, <2>3, <2>4, <2>5 DEF Next
<1> QED BY <1>1, <1>2, PTL DEF Spec

\* With an empty stack only events are left as wakeups.
LEMMA WakeupsPend == SInv => NoWakeupLost
<1> SUFFICES ASSUME SInv PROVE NoWakeupLost
  OBVIOUS
<1>1. Idle => Awake(conn, sock, FALSE, FALSE, FALSE)
  BY EmptyStack DEF SInv, WakeInv, Awake, WritePends
<1>2. ReadWakeupPending
  BY <1>1 DEF ReadWakeupPending, InputWaiting, Awake, SocketInput
<1>3. WriteWakeupPending
  BY <1>1 DEF WriteWakeupPending, Awake, OutputWaiting
<1>4. DispatchPending
  BY <1>1 DEF DispatchPending, Awake
<1> QED BY <1>2, <1>3, <1>4 DEF NoWakeupLost

\* While a connection is open and its event loop idle, whatever waits in the
\* kernel, in the write buffer or in the read buffer of a connection that may
\* process it has an event that will run its handler: no order of
\* readDisable(), reads that end early, watermark callbacks, writes and edges
\* of the fd loses the last wakeup.
THEOREM NoWakeupIsLost == Spec => []NoWakeupLost
BY WakeupsPend, FlowInvariance, PTL

\* Connected is raised only for a connection that the peer has accepted.
THEOREM ConnectedIsTrue == Spec => []ConnectedIsReal
<1>1. SInv => ConnectedIsReal
  BY DEF SInv, ConnectInv
<1> QED BY <1>1, FlowInvariance, PTL

\* For any number of filters, the i-th sees the end of the stream at most
\* i - 1 times, the first one once; and the write side is shut down
\* only when all that was written has been sent.
THEOREM EndsOfStreamAreKept == Spec => []EndOfStreamKept
<1>1. SInv => EndStreamBounded
  <2> SUFFICES ASSUME SInv, NEW i \in Filters
               PROVE  filters.ended[i] <= IF i = 1 THEN 1 ELSE i - 1
    BY DEF EndStreamBounded
  <2>1. i \in Nat /\ i > 0 /\ filters.ended[i] \in Nat
    BY ConnectionAssumption DEF SInv, IInv, FiltersType, Filters
  <2>2. CASE ~conn.readEnd
    BY <2>1, <2>2 DEF SInv, EndInv
  <2>3. CASE conn.readEnd
    <3>1. EndsOK(filters, Held(filters, stack))
      BY <2>3 DEF SInv, EndInv
    <3>2. CASE i = 1
      BY <3>1, <3>2 DEF EndsOK
    <3>3. CASE i # 1
      <4> DEFINE q == Cardinality(Held(filters, stack) \cap (1 .. (i - 1)))
      <4>1. q \in Nat
        <5>1. i - 1 \in Nat
          BY <2>1
        <5> QED BY <5>1, HeldAtMost
      <4>2. filters.ended[i] + q <= i - 1
        BY <3>1, <3>3 DEF EndsOK
      <4> HIDE DEF q
      <4> QED BY <2>1, <3>3, <4>1, <4>2
    <3> QED BY <3>2, <3>3
  <2> QED BY <2>2, <2>3
<1>2. SInv => ShutdownAfterFlush
  <2> SUFFICES ASSUME SInv, conn.open, conn.shutdown
               PROVE  conn.writeEnd /\ conn.writeBuf = 0 /\ hist.sent = hist.written
    BY DEF ShutdownAfterFlush
  <2>1. hist.sent \in Nat
    BY DEF SInv, IInv, HistoryType
  <2> QED BY <2>1 DEF SInv, OutputInv
<1> QED BY <1>1, <1>2, FlowInvariance, PTL DEF EndOfStreamKept
===============================================================================

----------------------- MODULE HttpFilterManagerProofs -----------------------
(***************************************************************************)
(* Proofs about HttpFilterManager, for any number of filters that keep     *)
(* away from the answers of Mishandled: the manager's own assertions, the  *)
(* pausing of the codec, that nobody is called after the response, and     *)
(* that the terminal filter is given the data in order.                    *)
(***************************************************************************)
EXTENDS HttpFilterManager, SequenceTheorems, TLAPS

Iterations == {"Continue", "StopSingleIteration", "StopAllBuffer", "StopAllWatermark"}

Continuations == {"commonContinue", "doHeaders", "doData", "doTrailers", "continued",
                  "maybeContinueDecoding"}
Ops == Continuations \cup {"decodeHeaders", "decodeData", "decodeTrailers", "trailersCallback"}

ManagerType ==
    [iter : [Filters -> Iterations], fromCurrent : [Filters -> BOOLEAN],
     headersContinued : [Filters -> BOOLEAN], endStream : [Filters -> BOOLEAN],
     remoteComplete : BOOLEAN, localComplete : BOOLEAN, aborted : BOOLEAN,
     trailers : BOOLEAN, streaming : BOOLEAN, inTrailers : BOOLEAN,
     exists : BOOLEAN, buffer : Seq(Nat), above : BOOLEAN, paused : Int]

FrameType ==
    [op : Ops, at : 1 .. (N + 1), end : BOOLEAN, data : Seq(Nat),
     buffered : BOOLEAN, mark : 0 .. N]

\* Types.
Types ==
    /\ fm \in ManagerType
    /\ codec \in [headers : BOOLEAN, chunks : Nat]
    /\ stack \in Seq(FrameType)
    /\ contended \in BOOLEAN

-------------------------------------------------------------------------------
(* The invariant.  s is the manager, st the stack.                         *)

\* The response, the buffer and the pause.  A codec that is told to pause is
\* told to go on when the buffer is emptied, unless the stream has ended.
PauseInv(s) ==
    /\ s.paused \in {0, 1}
    /\ s.paused = 1 => s.above
    /\ s.above => s.localComplete \/ s.paused = 1
    /\ s.above => s.exists /\ s.buffer # <<>>
    /\ ~s.exists => s.buffer = <<>>
    /\ s.aborted => s.localComplete

\* Nobody has been given the end of a request that is still coming.
EndInv(s) ==
    /\ s.trailers => s.remoteComplete
    /\ \A i \in Filters : s.endStream[i] => s.remoteComplete

\* commonContinue of filter i is running and has still to send its headers.
Letting(st, i) == st # <<>> /\ st[1].op \in {"commonContinue", "doHeaders"} /\ st[1].at = i

\* Filter i has let the headers pass.
Passed(s, st, i) == s.headersContinued[i] \/ s.localComplete \/ Letting(st, i)

\* The headers have been given to the filters 1..h: those before h have let
\* them pass, and h has stopped them unless they are on their way.
Reach(s, st, h) ==
    /\ \A i \in Filters :
        /\ i > h => canIterate(s, i) /\ ~s.headersContinued[i]
        /\ i < h => s.headersContinued[i]
        /\ i = h /\ ~s.headersContinued[i] /\ canIterate(s, i) =>
               st # <<>> /\ st[1].op = "doHeaders" /\ st[1].at = i
        /\ i = h /\ s.headersContinued[i] /\ h # N =>
               st # <<>> /\ st[1].op = "decodeHeaders"
    /\ N \in Filters => ~stoppedAll(s, N)

\* What holds of every function in progress.
FrameInv(f, s, st, h) ==
    /\ f.end => s.remoteComplete
    /\ f.op \in Continuations => f.at \in Others /\ f.at <= h
    /\ f.op \in {"doData", "doTrailers"} => Passed(s, st, f.at)
    /\ f.op \in {"decodeData", "decodeHeaders"} /\ f.mark # 0 =>
           f.mark \in Others /\ f.mark <= h
    /\ f.op = "decodeData" /\ f.mark # 0 => Passed(s, st, f.mark)
    /\ f.op = "decodeData" /\ f.mark # 0 => s.trailers
    /\ f.op \in {"decodeData", "decodeTrailers"} /\ f.at # N + 1 => f.at <= h
    /\ f.op = "decodeTrailers" => s.remoteComplete
    /\ f.op \in {"decodeTrailers", "trailersCallback"} => s.trailers
    /\ f.op = "trailersCallback" =>
           s.remoteComplete /\ f.at \in Filters /\ f.at <= h /\ ~stoppedAll(s, f.at)

\* What holds of the innermost one.
TopInv(f, s, h) ==
    /\ f.op = "commonContinue" /\ ~s.localComplete => ~canIterate(s, f.at)
    /\ f.op = "doHeaders" => ~s.localComplete
    /\ f.op = "decodeHeaders" =>
           /\ f.at = h + 1
           /\ f.at # N + 1 => ~s.localComplete
           /\ \A j \in Filters : f.at # N + 1 /\ j < f.at => s.headersContinued[j]
           /\ f.end /\ f.mark = 0 => ~s.exists
           /\ f.mark # 0 => s.exists
    /\ f.op = "maybeContinueDecoding" => s.exists
    /\ f.op = "decodeData" /\ f.at # N + 1 =>
           /\ ~s.localComplete
           /\ s.remoteComplete /\ ~s.trailers /\ ~s.exists => f.end

\* A function that has called another one and waits.
Waits(f) ==
    \/ f.op \in {"doData", "doTrailers", "continued", "trailersCallback"}
    \/ f.op = "decodeData" /\ f.at = N + 1

StackInv(s, st, h) ==
    /\ \A k \in 1 .. Len(st) : FrameInv(st[k], s, st, h)
    /\ \A k \in 2 .. Len(st) : Waits(st[k])
    /\ st # <<>> => TopInv(st[1], s, h)

\* Before the headers nothing has happened.
StartInv(c, s, st, h) ==
    /\ ~c.headers => /\ st = <<>> /\ h = 0
                     /\ ~s.localComplete /\ ~s.exists /\ ~s.remoteComplete
    /\ c.headers /\ h = 0 => st # <<>> /\ st[1].op = "decodeHeaders"

\* Who empties a full buffer: a filter that holds the request back, a
\* continuation that has still to send the data, or the one that sends it.
Releases(s, st) ==
    \/ \E i \in Others : ~canIterate(s, i)
    \/ \E k \in 1 .. Len(st) : st[k].op = "doData"
    \/ st # <<>> /\ st[1].op = "decodeData" /\ st[1].buffered /\ st[1].at # N + 1

ReleaseInv(s, st) ==
    s.buffer # <<>> /\ ~s.localComplete /\ ~s.remoteComplete => Releases(s, st)

ControlInv ==
    /\ Types /\ PauseInv(fm) /\ EndInv(fm)
    /\ ReleaseInv(fm, stack)
    /\ \E h \in 0 .. N :
        Reach(fm, stack, h) /\ StackInv(fm, stack, h) /\ StartInv(codec, fm, stack, h)

\* Data that a trailers callback has added, which is no end of the stream.
QuietData(f) == f.op = "decodeData" /\ ~f.end /\ f.mark = 0

\* A trailers callback is on top or waits for such data, and notices a response.
QuietFrame(f, st, k, s) ==
    f.op = "trailersCallback" =>
        /\ s.inTrailers /\ (s.localComplete => s.aborted)
        /\ k = 1 \/ (k = 2 /\ QuietData(st[1]))

\* That is so of every function in progress; trailers are decoded only before a
\* response, and the mark of a trailers callback is there only during one.
ResponseInv ==
    /\ \A k \in 1 .. Len(stack) : QuietFrame(stack[k], stack, k, fm)
    /\ stack # <<>> /\ stack[1].op = "decodeTrailers" =>
           stack[1].at = N + 1 \/ ~fm.localComplete
    /\ fm.inTrailers => \E k \in 1 .. Len(stack) : stack[k].op = "trailersCallback"
-------------------------------------------------------------------------------
(* What the operations on the manager leave alone.                         *)

SameIteration(s, t) ==
    /\ t.iter = s.iter /\ t.fromCurrent = s.fromCurrent
    /\ t.headersContinued = s.headersContinued /\ t.endStream = s.endStream
    /\ t.remoteComplete = s.remoteComplete /\ t.trailers = s.trailers
    /\ t.inTrailers = s.inTrailers

\* The end of the stream is final, and the buffer is not taken away.
Lasts(s, t) ==
    /\ s.localComplete => t.localComplete
    /\ s.aborted => t.aborted
    /\ s.exists => t.exists

\* sendLocalReply ends the response and leaves the iteration alone.
LEMMA ReplyFields ==
    ASSUME NEW s \in ManagerType, NEW inCallback \in BOOLEAN, PauseInv(s)
    PROVE  LET t == sendLocalReply(s, inCallback)
           IN  /\ t \in ManagerType /\ SameIteration(s, t) /\ Lasts(s, t) /\ PauseInv(t)
               /\ t.localComplete /\ t.aborted = (s.aborted \/ inCallback)
               /\ t.above = s.above /\ t.paused = s.paused /\ t.exists = s.exists
               /\ t.streaming = s.streaming /\ t.buffer = s.buffer
<1> DEFINE a == s.aborted \/ inCallback
           t == [s EXCEPT !.localComplete = TRUE, !.aborted = a]
<1>1. sendLocalReply(s, inCallback) = t
  BY DEF sendLocalReply
<1>2. a \in BOOLEAN
  BY DEF ManagerType
<1> HIDE DEF a
<1>3. /\ t \in ManagerType /\ t.localComplete = TRUE /\ t.aborted = a
      /\ t.above = s.above /\ t.paused = s.paused /\ t.exists = s.exists
      /\ t.streaming = s.streaming /\ t.buffer = s.buffer
      /\ SameIteration(s, t)
  BY <1>2 DEF ManagerType, SameIteration
<1> HIDE DEF t
<1> QED BY <1>1, <1>3 DEF a, Lasts, PauseInv

SamePause(s, t) == t.paused = s.paused

EndingKinds == {"none", "sendLocalReply", "encode"}

\* How a callback may end the response.
LEMMA EndedFields ==
    ASSUME NEW s \in ManagerType, NEW inCallback \in BOOLEAN, PauseInv(s),
           NEW ending \in EndingKinds
    PROVE  LET t == Ended(s, ending, inCallback)
           IN  /\ t \in ManagerType /\ SameIteration(s, t) /\ Lasts(s, t) /\ PauseInv(t)
               /\ (t.above <=> s.above) /\ (t.exists <=> s.exists)
               /\ SamePause(s, t)
               /\ t.streaming = s.streaming /\ t.buffer = s.buffer
               /\ ending = "none" => t = s
               /\ t.localComplete => s.localComplete \/ ending # "none"
               /\ ending = "sendLocalReply" /\ inCallback => t.aborted
<1> DEFINE b == ending = "sendLocalReply" /\ inCallback
<1>1. b \in BOOLEAN
  OBVIOUS
<1>2. CASE ending = "none"
  <2>1. Ended(s, ending, inCallback) = s
    BY <1>2 DEF Ended
  <2> QED BY <1>2, <2>1 DEF SameIteration, Lasts, SamePause
<1>3. CASE ending # "none"
  <2>1. Ended(s, ending, inCallback) = sendLocalReply(s, b)
    BY <1>3 DEF Ended
  <2> DEFINE t == sendLocalReply(s, b)
  <2>2. /\ t \in ManagerType /\ SameIteration(s, t) /\ Lasts(s, t) /\ PauseInv(t)
        /\ t.localComplete /\ t.aborted = (s.aborted \/ b)
        /\ t.above = s.above /\ t.paused = s.paused /\ t.exists = s.exists
        /\ t.streaming = s.streaming /\ t.buffer = s.buffer
    BY <1>1, ReplyFields
  <2> HIDE DEF t
  <2> QED BY <1>3, <2>1, <2>2 DEF b, t, SamePause
<1> QED BY <1>2, <1>3

\* Data goes into the buffer, which may pause the codec or end the stream.
LEMMA BufferedFields ==
    ASSUME NEW s \in ManagerType, NEW data \in Seq(Nat), NEW inCallback \in BOOLEAN,
           PauseInv(s)
    PROVE  LET t == Buffered(s, data, inCallback)
           IN  /\ t \in ManagerType /\ SameIteration(s, t) /\ Lasts(s, t) /\ PauseInv(t)
               /\ t.exists /\ t.buffer = s.buffer \o data
               /\ t.localComplete /\ inCallback => s.localComplete \/ t.aborted
<1> DEFINE b == [s EXCEPT !.exists = TRUE, !.buffer = s.buffer \o data]
           u == [b EXCEPT !.above = TRUE]
           p == [b EXCEPT !.above = TRUE, !.paused = b.paused + 1]
<1>1. s.buffer \o data \in Seq(Nat)
  BY DEF ManagerType
<1>2. /\ b \in ManagerType /\ SameIteration(s, b)
      /\ b.exists = TRUE /\ b.buffer = s.buffer \o data
      /\ b.localComplete = s.localComplete /\ b.aborted = s.aborted
      /\ b.above = s.above /\ b.paused = s.paused /\ b.streaming = s.streaming
  BY <1>1 DEF ManagerType, SameIteration
<1>3. s.buffer # <<>> => b.buffer # <<>>
  BY <1>2 DEF ManagerType
<1>4. PauseInv(b)
  BY <1>2, <1>3 DEF PauseInv
<1>5. Buffered(s, data, inCallback) =
        IF Len(b.buffer) > BufferLimit /\ ~b.above
        THEN requestDataTooLarge(b, inCallback) ELSE b
  BY DEF Buffered
<1> HIDE DEF b
<1>6. CASE ~(Len(b.buffer) > BufferLimit /\ ~b.above)
  <2>1. Buffered(s, data, inCallback) = b
    BY <1>5, <1>6
  <2> QED BY <1>2, <1>4, <2>1 DEF Lasts
<1>7. CASE Len(b.buffer) > BufferLimit /\ ~b.above
  <2>0. b.buffer # <<>>
    BY <1>2, <1>7, FiltersAssumption DEF ManagerType
  <2>1. CASE b.streaming
    <3>1. Buffered(s, data, inCallback) = p
      BY <1>5, <1>7, <2>1 DEF requestDataTooLarge
    <3>2. /\ p \in ManagerType /\ SameIteration(b, p)
          /\ p.exists = b.exists /\ p.buffer = b.buffer
          /\ p.localComplete = b.localComplete /\ p.aborted = b.aborted
          /\ p.above = TRUE /\ p.paused = b.paused + 1
      <4>1. b.paused + 1 \in Int
        BY <1>2 DEF ManagerType
      <4> DEFINE n == b.paused + 1
      <4> HIDE DEF n
      <4>2. LET q == [b EXCEPT !.above = TRUE, !.paused = n]
            IN  /\ q \in ManagerType /\ SameIteration(b, q)
                /\ q.exists = b.exists /\ q.buffer = b.buffer
                /\ q.localComplete = b.localComplete /\ q.aborted = b.aborted
                /\ q.above = TRUE /\ q.paused = n
        BY <1>2, <4>1 DEF ManagerType, SameIteration, n
      <4> QED BY <4>2 DEF n
    <3>3. b.paused = 0
      BY <1>4, <1>7 DEF PauseInv
    <3> HIDE DEF p
    <3>4. PauseInv(p)
      BY <1>2, <1>4, <2>0, <3>2, <3>3 DEF PauseInv
    <3>5. SameIteration(s, p) /\ Lasts(s, p)
      BY <1>2, <3>2 DEF SameIteration, Lasts
    <3> QED BY <1>2, <2>1, <3>1, <3>2, <3>4, <3>5
  <2>2. CASE ~b.streaming
    <3> DEFINE t == sendLocalReply(u, inCallback)
    <3>1. Buffered(s, data, inCallback) = t
      BY <1>5, <1>7, <2>2 DEF requestDataTooLarge
    <3>2. /\ u \in ManagerType /\ SameIteration(b, u)
          /\ u.exists = b.exists /\ u.buffer = b.buffer
          /\ u.localComplete = b.localComplete /\ u.aborted = b.aborted
          /\ u.above = TRUE /\ u.paused = b.paused
      BY <1>2 DEF ManagerType, SameIteration
    <3> HIDE DEF u
    <3> DEFINE v == [u EXCEPT !.localComplete = TRUE, !.aborted = u.aborted \/ inCallback]
    <3>3. t = v
      BY DEF sendLocalReply
    <3>4. /\ v \in ManagerType /\ SameIteration(u, v) /\ v.localComplete = TRUE
          /\ v.aborted = (u.aborted \/ inCallback) /\ v.exists = u.exists
          /\ v.buffer = u.buffer /\ v.above = u.above /\ v.paused = u.paused
      BY <3>2 DEF ManagerType, SameIteration
    <3> HIDE DEF v, t
    <3>5. PauseInv(v)
      BY <1>2, <1>4, <2>0, <3>2, <3>4 DEF PauseInv
    <3>6. SameIteration(s, v) /\ Lasts(s, v)
      BY <1>2, <3>2, <3>4 DEF SameIteration, Lasts
    <3> QED BY <1>2, <3>1, <3>2, <3>3, <3>4, <3>5, <3>6
  <2> QED BY <2>1, <2>2
<1> QED BY <1>6, <1>7

\* An emptied buffer lets the codec go on.
LEMMA DrainedFields ==
    ASSUME NEW s \in ManagerType, NEW f \in FrameType, PauseInv(s), s.above => s.paused = 1
    PROVE  LET t == Drained(s, f)
           IN  /\ t \in ManagerType /\ SameIteration(s, t) /\ Lasts(s, t) /\ PauseInv(t)
               /\ t.localComplete = s.localComplete /\ t.aborted = s.aborted
               /\ t.buffer = IF f.buffered THEN <<>> ELSE s.buffer
<1> DEFINE n == IF s.above THEN s.paused - 1 ELSE s.paused
           d == [s EXCEPT !.buffer = <<>>, !.above = FALSE, !.paused = n]
<1>1. Drained(s, f) = IF ~f.buffered THEN s ELSE d
  BY DEF Drained
<1>2. n = 0
  BY DEF PauseInv, ManagerType
<1> HIDE DEF n
<1>3. /\ d \in ManagerType /\ SameIteration(s, d)
      /\ d.localComplete = s.localComplete /\ d.aborted = s.aborted
      /\ d.exists = s.exists /\ d.above = FALSE /\ d.paused = n /\ d.buffer = <<>>
  <2>1. n \in Int /\ <<>> \in Seq(Nat)
    BY <1>2
  <2> QED BY <2>1 DEF ManagerType, SameIteration
<1> HIDE DEF d
<1>4. PauseInv(d)
  BY <1>2, <1>3 DEF PauseInv
<1> QED BY <1>1, <1>3, <1>4 DEF Lasts, SameIteration

\* commonHandleBufferData keeps everything but the buffer.
LEMMA HandleBufferFields ==
    ASSUME NEW s \in ManagerType, NEW f \in FrameType, PauseInv(s)
    PROVE  LET t == commonHandleBufferData(s, f)
           IN  /\ t \in ManagerType /\ SameIteration(s, t) /\ Lasts(s, t) /\ PauseInv(t)
               /\ t.localComplete /\ s.inTrailers => s.localComplete \/ t.aborted
               /\ t.buffer = IF f.buffered THEN s.buffer ELSE s.buffer \o f.data
<1>1. f.data \in Seq(Nat) /\ s.inTrailers \in BOOLEAN
  BY DEF FrameType, ManagerType
<1>2. CASE f.buffered
  BY <1>2 DEF commonHandleBufferData, SameIteration, Lasts
<1>3. CASE ~f.buffered
  <2> DEFINE t == Buffered(s, f.data, s.inTrailers)
  <2>1. commonHandleBufferData(s, f) = t
    BY <1>3 DEF commonHandleBufferData
  <2>2. /\ t \in ManagerType /\ SameIteration(s, t) /\ Lasts(s, t) /\ PauseInv(t)
        /\ t.localComplete /\ s.inTrailers => s.localComplete \/ t.aborted
        /\ t.buffer = s.buffer \o f.data
    BY <1>1, BufferedFields
  <2> HIDE DEF t
  <2> QED BY <1>3, <2>1, <2>2
<1> QED BY <1>2, <1>3

\* One filter's iteration state is set.
LEMMA IterFields ==
    ASSUME NEW s \in ManagerType, NEW i \in Filters, NEW v \in Iterations
    PROVE  LET t == [s EXCEPT !.iter[i] = v]
           IN  /\ t \in ManagerType /\ t.iter = [s.iter EXCEPT ![i] = v]
               /\ t.fromCurrent = s.fromCurrent
               /\ t.headersContinued = s.headersContinued /\ t.endStream = s.endStream
               /\ t.remoteComplete = s.remoteComplete /\ t.trailers = s.trailers
               /\ t.inTrailers = s.inTrailers /\ t.localComplete = s.localComplete
               /\ t.aborted = s.aborted /\ t.streaming = s.streaming
               /\ t.exists = s.exists /\ t.buffer = s.buffer
               /\ t.above = s.above /\ t.paused = s.paused
<1> DEFINE m == [s.iter EXCEPT ![i] = v]
           t == [s EXCEPT !.iter = m]
<1>1. m \in [Filters -> Iterations]
  BY DEF ManagerType
<1>2. [s EXCEPT !.iter[i] = v] = t
  BY DEF ManagerType
<1> HIDE DEF m
<1>3. /\ t \in ManagerType /\ t.iter = m
      /\ t.fromCurrent = s.fromCurrent
      /\ t.headersContinued = s.headersContinued /\ t.endStream = s.endStream
      /\ t.remoteComplete = s.remoteComplete /\ t.trailers = s.trailers
      /\ t.inTrailers = s.inTrailers /\ t.localComplete = s.localComplete
      /\ t.aborted = s.aborted /\ t.streaming = s.streaming
      /\ t.exists = s.exists /\ t.buffer = s.buffer
      /\ t.above = s.above /\ t.paused = s.paused
  BY <1>1 DEF ManagerType
<1> HIDE DEF t
<1> QED BY <1>2, <1>3 DEF m

\* Only the kind of buffering changes.
LEMMA StreamingFields ==
    ASSUME NEW s \in ManagerType, NEW b \in BOOLEAN, PauseInv(s)
    PROVE  LET t == [s EXCEPT !.streaming = b]
           IN  /\ t \in ManagerType /\ SameIteration(s, t) /\ Lasts(s, t) /\ PauseInv(t)
               /\ t.streaming = b /\ t.localComplete = s.localComplete
               /\ t.aborted = s.aborted /\ t.above = s.above
               /\ t.exists = s.exists /\ t.buffer = s.buffer
BY DEF ManagerType, SameIteration, Lasts, PauseInv

DataStatuses == {"Continue", "StopIterationAndBuffer", "StopIterationAndWatermark",
                 "StopIterationNoBuffer"}

\* All but the iteration state.
SameBut(s, t) ==
    /\ t.fromCurrent = s.fromCurrent
    /\ t.headersContinued = s.headersContinued /\ t.endStream = s.endStream
    /\ t.remoteComplete = s.remoteComplete /\ t.trailers = s.trailers
    /\ t.inTrailers = s.inTrailers

\* An empty buffer is kept for the end of the stream.
LEMMA EmptyBufferFields ==
    ASSUME NEW s \in ManagerType, PauseInv(s)
    PROVE  LET t == EmptyBufferAtEnd(s)
           IN  /\ t \in ManagerType /\ SameIteration(s, t) /\ Lasts(s, t) /\ PauseInv(t)
               /\ t.localComplete = s.localComplete /\ t.buffer = s.buffer
<1> DEFINE t == [s EXCEPT !.exists = TRUE]
<1>1. /\ t \in ManagerType /\ SameIteration(s, t) /\ Lasts(s, t) /\ PauseInv(t)
      /\ t.localComplete = s.localComplete /\ t.buffer = s.buffer
  BY DEF ManagerType, SameIteration, Lasts, PauseInv
<1>2. EmptyBufferAtEnd(s) \in {s, t}
  BY DEF EmptyBufferAtEnd
<1> HIDE DEF t
<1> QED BY <1>1, <1>2 DEF SameIteration, Lasts

IterationKept(s, t, i, status) ==
    t.iter = IF status = "Continue" THEN s.iter
             ELSE [s.iter EXCEPT ![i] = "StopSingleIteration"]

\* The data that a frame leaves in the buffer.
DataKept(s, f, status) ==
    IF f.buffered
    THEN IF status = "StopIterationNoBuffer" THEN <<>> ELSE s.buffer
    ELSE IF status = "StopIterationNoBuffer"
            \/ (status = "Continue" /\ s.iter[f.at] # "StopSingleIteration")
         THEN s.buffer ELSE s.buffer \o f.data

\* What a filter's answer to data does to the manager.
LEMMA AfterDataFields ==
    ASSUME NEW s \in ManagerType, NEW f \in FrameType, NEW status \in DataStatuses,
           f.at \in Filters, PauseInv(s), s.above => s.paused = 1
    PROVE  LET t == AfterData(s, f, status)
           IN  /\ t \in ManagerType /\ SameBut(s, t) /\ Lasts(s, t) /\ PauseInv(t)
               /\ IterationKept(s, t, f.at, status)
               /\ status = "Continue" /\ s.iter[f.at] # "StopSingleIteration" => t = s
               /\ status = "StopIterationNoBuffer" => t.localComplete = s.localComplete
               /\ t.buffer = DataKept(s, f, status)
               /\ t.localComplete /\ s.inTrailers => s.localComplete \/ t.aborted
<1> DEFINE t == AfterData(s, f, status)
           i == f.at
           stopped == [s EXCEPT !.iter[i] = "StopSingleIteration"]
<1>0. /\ stopped \in ManagerType
      /\ stopped.iter = [s.iter EXCEPT ![i] = "StopSingleIteration"]
      /\ SameBut(s, stopped) /\ Lasts(s, stopped) /\ PauseInv(stopped)
      /\ stopped.localComplete = s.localComplete /\ stopped.aborted = s.aborted
      /\ stopped.above = s.above /\ stopped.paused = s.paused
      /\ stopped.buffer = s.buffer
  <2>1. "StopSingleIteration" \in Iterations
    BY DEF Iterations
  <2>2. /\ stopped \in ManagerType
        /\ stopped.iter = [s.iter EXCEPT ![i] = "StopSingleIteration"]
        /\ stopped.fromCurrent = s.fromCurrent
        /\ stopped.headersContinued = s.headersContinued
        /\ stopped.endStream = s.endStream
        /\ stopped.remoteComplete = s.remoteComplete /\ stopped.trailers = s.trailers
        /\ stopped.inTrailers = s.inTrailers /\ stopped.localComplete = s.localComplete
        /\ stopped.aborted = s.aborted /\ stopped.exists = s.exists
        /\ stopped.buffer = s.buffer
        /\ stopped.above = s.above /\ stopped.paused = s.paused
    BY <2>1, IterFields
  <2> HIDE DEF stopped
  <2> QED BY <2>2 DEF SameBut, Lasts, PauseInv
<1> HIDE DEF stopped
<1>1. CASE status = "Continue" /\ s.iter[i] # "StopSingleIteration"
  <2>1. t = s
    BY <1>1 DEF AfterData
  <2> HIDE DEF t
  <2> QED BY <1>1, <2>1 DEF SameBut, Lasts, IterationKept, DataKept, t
<1>2. CASE status = "Continue" /\ s.iter[i] = "StopSingleIteration"
  <2>1. t = commonHandleBufferData(s, f)
    BY <1>2 DEF AfterData
  <2>2. /\ t \in ManagerType /\ SameIteration(s, t) /\ Lasts(s, t) /\ PauseInv(t)
        /\ t.localComplete /\ s.inTrailers => s.localComplete \/ t.aborted
        /\ t.buffer = IF f.buffered THEN s.buffer ELSE s.buffer \o f.data
    BY <2>1, HandleBufferFields
  <2> HIDE DEF t
  <2> QED BY <1>2, <2>2 DEF SameBut, SameIteration, IterationKept, DataKept, t
<1>3. CASE status = "StopIterationNoBuffer"
  <2> DEFINE d == Drained(stopped, f)
  <2>1. t = EmptyBufferAtEnd(d)
    BY <1>3 DEF AfterData, stopped
  <2>2. /\ d \in ManagerType /\ SameIteration(stopped, d) /\ Lasts(stopped, d) /\ PauseInv(d)
        /\ d.localComplete = stopped.localComplete /\ d.aborted = stopped.aborted
        /\ d.buffer = IF f.buffered THEN <<>> ELSE stopped.buffer
    BY <1>0, DrainedFields
  <2> HIDE DEF d
  <2>3. /\ t \in ManagerType /\ SameIteration(d, t) /\ Lasts(d, t) /\ PauseInv(t)
        /\ t.localComplete = d.localComplete /\ t.buffer = d.buffer
    BY <2>1, <2>2, EmptyBufferFields
  <2> HIDE DEF t
  <2>4. SameBut(s, t) /\ Lasts(s, t) /\ t.iter = stopped.iter
    BY <1>0, <2>2, <2>3 DEF SameBut, SameIteration, Lasts
  <2> QED BY <1>0, <1>3, <2>2, <2>3, <2>4 DEF IterationKept, DataKept, t
<1>4. CASE status \in {"StopIterationAndBuffer", "StopIterationAndWatermark"}
  <2> DEFINE b == status = "StopIterationAndWatermark"
             d == [stopped EXCEPT !.streaming = b]
  <2>1. t = commonHandleBufferData(d, f)
    BY <1>4 DEF AfterData, stopped
  <2>2. /\ d \in ManagerType /\ SameIteration(stopped, d) /\ Lasts(stopped, d) /\ PauseInv(d)
        /\ d.localComplete = stopped.localComplete /\ d.aborted = stopped.aborted
        /\ d.buffer = stopped.buffer
    <3>1. stopped \in ManagerType /\ PauseInv(stopped) /\ b \in BOOLEAN
      BY <1>0
    <3> HIDE DEF b
    <3> QED BY <3>1, StreamingFields
  <2> HIDE DEF d, t
  <2>3. /\ t \in ManagerType /\ SameIteration(d, t) /\ Lasts(d, t) /\ PauseInv(t)
        /\ t.localComplete /\ d.inTrailers => d.localComplete \/ t.aborted
        /\ t.buffer = IF f.buffered THEN d.buffer ELSE d.buffer \o f.data
    BY <2>1, <2>2, HandleBufferFields
  <2>4. SameBut(s, t) /\ Lasts(s, t) /\ t.iter = stopped.iter
    BY <1>0, <2>2, <2>3 DEF SameBut, SameIteration, Lasts
  <2>5. d.inTrailers = s.inTrailers /\ d.localComplete = s.localComplete
    BY <1>0, <2>2 DEF SameBut, SameIteration
  <2> QED BY <1>0, <1>4, <2>2, <2>3, <2>4, <2>5 DEF IterationKept, DataKept, t
<1> QED BY <1>1, <1>2, <1>3, <1>4 DEF DataStatuses

-------------------------------------------------------------------------------
(* The stack.                                                              *)

\* The elements of a concatenation.
LEMMA Concatenation ==
    ASSUME NEW S, NEW a \in Seq(S), NEW b \in Seq(S)
    PROVE  /\ a \o b \in Seq(S)
           /\ Len(a \o b) = Len(a) + Len(b) /\ Len(a) \in Nat /\ Len(b) \in Nat
           /\ \A k \in 1 .. Len(a) : (a \o b)[k] = a[k]
           /\ \A k \in 1 .. (Len(a) + Len(b)) :
                k > Len(a) => (a \o b)[k] = b[k - Len(a)]
OBVIOUS

\* The innermost function is replaced by those it calls.
LEMMA CalledFrames ==
    ASSUME NEW st \in Seq(FrameType), st # <<>>, NEW fs \in Seq(FrameType)
    PROVE  LET new == fs \o Tail(st)
           IN  /\ new \in Seq(FrameType)
               /\ Len(new) = Len(fs) + Len(st) - 1
               /\ \A k \in 1 .. Len(fs) : new[k] = fs[k]
               /\ \A k \in 1 .. Len(new) :
                    k > Len(fs) => /\ k - Len(fs) + 1 \in 2 .. Len(st)
                                   /\ new[k] = st[k - Len(fs) + 1]
<1> DEFINE tl == Tail(st)
<1>1. /\ tl \in Seq(FrameType) /\ Len(tl) = Len(st) - 1 /\ Len(st) \in Nat
      /\ \A k \in 1 .. Len(tl) : tl[k] = st[k + 1]
  OBVIOUS
<1> HIDE DEF tl
<1>2. /\ fs \o tl \in Seq(FrameType)
      /\ Len(fs \o tl) = Len(fs) + Len(tl) /\ Len(fs) \in Nat /\ Len(tl) \in Nat
      /\ \A k \in 1 .. Len(fs) : (fs \o tl)[k] = fs[k]
      /\ \A k \in 1 .. (Len(fs) + Len(tl)) :
            k > Len(fs) => (fs \o tl)[k] = tl[k - Len(fs)]
  <2>1. tl \in Seq(FrameType)
    BY <1>1
  <2> QED BY <2>1, Concatenation
<1>3. ASSUME NEW k \in 1 .. Len(fs \o tl), k > Len(fs)
      PROVE  /\ k - Len(fs) + 1 \in 2 .. Len(st)
             /\ (fs \o tl)[k] = st[k - Len(fs) + 1]
  <2> DEFINE j == k - Len(fs)
  <2>1. /\ k \in 1 .. (Len(fs) + Len(tl)) /\ j \in 1 .. Len(tl)
        /\ j + 1 \in 2 .. Len(st)
    <3>1. Len(fs \o tl) = Len(fs) + Len(tl) /\ Len(fs) \in Nat /\ Len(tl) \in Nat
      BY <1>2
    <3>2. Len(tl) = Len(st) - 1 /\ Len(st) \in Nat
      BY <1>1
    <3> QED BY <1>3, <3>1, <3>2
  <2>2. (fs \o tl)[k] = tl[j]
    BY <1>2, <1>3, <2>1
  <2> HIDE DEF j
  <2>3. tl[j] = st[j + 1]
    BY <1>1, <2>1
  <2> QED BY <2>1, <2>2, <2>3 DEF j
<1> QED BY <1>1, <1>2, <1>3 DEF tl

\* What a function may not take back while others are in progress.
Grows(s, t, h) ==
    /\ \A i \in Filters : s.headersContinued[i] => t.headersContinued[i]
    /\ s.localComplete => t.localComplete
    /\ s.remoteComplete => t.remoteComplete
    /\ s.trailers => t.trailers
    /\ \A i \in Filters : i <= h /\ stoppedAll(t, i) => stoppedAll(s, i)

\* The frames that were waiting, and those that are called.
LEMMA StackStep ==
    ASSUME NEW s \in ManagerType, NEW t \in ManagerType,
           NEW st \in Seq(FrameType), st # <<>>, NEW fs \in Seq(FrameType),
           NEW h \in 0 .. N, NEW g \in 0 .. N, h <= g,
           StackInv(s, st, h), Grows(s, t, h),
           NEW new, new = fs \o Tail(st),
           \A i \in Filters : Letting(st, i) => Passed(t, new, i),
           \A k \in 1 .. Len(fs) : FrameInv(fs[k], t, new, g),
           \A k \in 2 .. Len(fs) : Waits(fs[k]),
           fs # <<>> => TopInv(fs[1], t, g)
    PROVE  StackInv(t, new, g)
<1>1. /\ new \in Seq(FrameType)
      /\ Len(new) = Len(fs) + Len(st) - 1 /\ Len(fs) \in Nat /\ Len(st) \in Nat
      /\ \A k \in 1 .. Len(fs) : new[k] = fs[k]
      /\ \A k \in 1 .. Len(new) :
            k > Len(fs) => /\ k - Len(fs) + 1 \in 2 .. Len(st)
                           /\ new[k] = st[k - Len(fs) + 1]
  BY CalledFrames
<1>2. ASSUME NEW j \in 2 .. Len(st)
      PROVE  FrameInv(st[j], t, new, g) /\ Waits(st[j])
  <2>1. FrameInv(st[j], s, st, h) /\ Waits(st[j]) /\ st[j] \in FrameType
    BY <1>1 DEF StackInv
  <2> DEFINE f == st[j]
  <2>2. f.at \in 1 .. (N + 1) /\ f.mark \in 0 .. N
    BY <2>1 DEF FrameType
  <2> HIDE DEF f
  <2>3. ASSUME NEW i \in Filters, Passed(s, st, i) PROVE Passed(t, new, i)
    BY <2>3 DEF Grows, Passed
  <2>4. N \in Nat /\ N > 0
    BY FiltersAssumption
  <2>5. \A i \in Others : i \in Filters
    BY <2>4 DEF Others, Filters
  <2>6. f.op \in {"doData", "doTrailers"} => Passed(t, new, f.at)
    BY <2>1, <2>3, <2>5 DEF FrameInv, Continuations, f
  <2>7. f.op = "decodeData" /\ f.mark # 0 => Passed(t, new, f.mark)
    BY <2>1, <2>3, <2>5 DEF FrameInv, f
  <2>8. FrameInv(f, t, new, g)
    BY <2>1, <2>2, <2>4, <2>6, <2>7 DEF FrameInv, Grows, f
  <2> QED BY <2>1, <2>8 DEF f
<1>3. ASSUME NEW k \in 1 .. Len(new) PROVE FrameInv(new[k], t, new, g)
  <2>1. CASE k > Len(fs)
    BY <1>1, <1>2, <2>1
  <2>2. CASE ~(k > Len(fs))
    BY <1>1, <2>2
  <2> QED BY <2>1, <2>2
<1>4. ASSUME NEW k \in 2 .. Len(new) PROVE Waits(new[k])
  <2>1. CASE k > Len(fs)
    BY <1>1, <1>2, <2>1
  <2>2. CASE ~(k > Len(fs))
    BY <1>1, <2>2
  <2> QED BY <2>1, <2>2
<1>5. ASSUME new # <<>> PROVE TopInv(new[1], t, g)
  <2>0. 1 \in 1 .. Len(new)
    BY <1>1, <1>5
  <2>1. CASE Len(fs) = 0
    <3>1. Waits(new[1])
      BY <1>1, <1>2, <2>0, <2>1
    <3> QED BY <3>1 DEF Waits, TopInv
  <2>2. CASE Len(fs) # 0
    <3>1. fs # <<>> /\ 1 \in 1 .. Len(fs)
      BY <1>1, <2>2
    <3> QED BY <1>1, <3>1
  <2> QED BY <2>1, <2>2
<1> QED BY <1>3, <1>4, <1>5 DEF StackInv

\* The headers stay where they are.
LEMMA ReachKept ==
    ASSUME NEW s \in ManagerType, NEW t \in ManagerType, NEW st, NEW new,
           NEW h \in 0 .. N, Reach(s, st, h),
           st # <<>> => st[1].op \notin {"doHeaders", "decodeHeaders"},
           t.headersContinued = s.headersContinued,
           \A i \in Filters : i > h => t.iter[i] = s.iter[i],
           \A i \in Filters : canIterate(t, i) => canIterate(s, i),
           \A i \in Filters : stoppedAll(t, i) => stoppedAll(s, i)
    PROVE  Reach(t, new, h)
BY DEF Reach, canIterate

\* A step of the function on top.
LEMMA StepControl ==
    ASSUME ControlInv, NEW h \in 0 .. N, StackInv(fm, stack, h),
           StartInv(codec, fm, stack, h), stack # <<>>,
           codec' = codec, contended' \in BOOLEAN,
           NEW fs \in Seq(FrameType), stack' = fs \o Tail(stack),
           NEW g \in 0 .. N, h <= g, g > 0,
           fm' \in ManagerType, Grows(fm, fm', h), PauseInv(fm'), EndInv(fm'),
           ReleaseInv(fm', stack'), Reach(fm', stack', g),
           \A i \in Filters : Letting(stack, i) => Passed(fm', stack', i),
           \A k \in 1 .. Len(fs) : FrameInv(fs[k], fm', stack', g),
           \A k \in 2 .. Len(fs) : Waits(fs[k]),
           fs # <<>> => TopInv(fs[1], fm', g)
    PROVE  ControlInv'
<1>1. fm \in ManagerType /\ stack \in Seq(FrameType)
  BY DEF ControlInv, Types
<1>2. stack' \in Seq(FrameType)
  BY <1>1, CalledFrames
<1>3. StackInv(fm', stack', g)
  BY <1>1, StackStep
<1>4. codec.headers
  BY DEF StartInv
<1>5. StartInv(codec', fm', stack', g)
  BY <1>4 DEF StartInv
<1> QED BY <1>2, <1>3, <1>5 DEF ControlInv, Types

\* Whoever releases the buffer still does while nobody lets go.
LEMMA ReleaseKept ==
    ASSUME NEW s \in ManagerType, NEW t \in ManagerType,
           NEW st \in Seq(FrameType), st # <<>>, NEW fs \in Seq(FrameType),
           NEW new, new = fs \o Tail(st), ReleaseInv(s, st),
           st[1].op # "doData",
           st[1].op = "decodeData" => st[1].at = N + 1 \/ ~st[1].buffered,
           t.buffer # <<>> /\ ~t.localComplete /\ ~t.remoteComplete =>
               s.buffer # <<>> /\ ~s.localComplete /\ ~s.remoteComplete,
           \A i \in Others : canIterate(t, i) => canIterate(s, i)
    PROVE  ReleaseInv(t, new)
<1> SUFFICES ASSUME s.buffer # <<>> /\ ~s.localComplete /\ ~s.remoteComplete
             PROVE  Releases(t, new)
  BY DEF ReleaseInv
<1>1. Releases(s, st)
  BY DEF ReleaseInv
<1>2. CASE \E i \in Others : ~canIterate(s, i)
  BY <1>2 DEF Releases
<1>3. CASE \E k \in 1 .. Len(st) : st[k].op = "doData"
  <2>1. PICK k \in 1 .. Len(st) : st[k].op = "doData"
    BY <1>3
  <2>2. k \in 2 .. Len(st)
    BY <2>1
  <2>3. /\ Len(new) = Len(fs) + Len(st) - 1 /\ Len(fs) \in Nat /\ Len(st) \in Nat
        /\ \A j \in 1 .. Len(new) : j > Len(fs) => new[j] = st[j - Len(fs) + 1]
    BY CalledFrames
  <2>4. /\ k + Len(fs) - 1 \in 1 .. Len(new) /\ k + Len(fs) - 1 > Len(fs)
        /\ (k + Len(fs) - 1) - Len(fs) + 1 = k
    BY <2>2, <2>3
  <2>5. new[k + Len(fs) - 1] = st[k]
    BY <2>3, <2>4
  <2> QED BY <2>1, <2>4, <2>5 DEF Releases
<1> QED BY <1>1, <1>2, <1>3 DEF Releases

\* The invariant, of the function that runs.
LEMMA TopFacts ==
    ASSUME ControlInv, stack # <<>>
    PROVE  /\ top = stack[1] /\ top \in FrameType /\ stack \in Seq(FrameType)
           /\ fm \in ManagerType /\ PauseInv(fm) /\ EndInv(fm) /\ ReleaseInv(fm, stack)
           /\ N \in Nat /\ N > 0
           /\ \E h \in 0 .. N :
                /\ Reach(fm, stack, h) /\ StackInv(fm, stack, h)
                /\ StartInv(codec, fm, stack, h)
                /\ FrameInv(top, fm, stack, h) /\ TopInv(top, fm, h)
                /\ top.op # "decodeHeaders" => h > 0
<1>1. stack \in Seq(FrameType) /\ fm \in ManagerType
  BY DEF ControlInv, Types
<1>2. top = stack[1] /\ top \in FrameType /\ 1 \in 1 .. Len(stack)
  BY <1>1 DEF top
<1>3. N \in Nat /\ N > 0
  BY FiltersAssumption
<1>4. PICK h \in 0 .. N :
        Reach(fm, stack, h) /\ StackInv(fm, stack, h) /\ StartInv(codec, fm, stack, h)
  BY DEF ControlInv
<1>5. FrameInv(top, fm, stack, h) /\ TopInv(top, fm, h)
  BY <1>2, <1>4 DEF StackInv
<1>6. top.op # "decodeHeaders" => h > 0
  BY <1>2, <1>3, <1>4 DEF StartInv
<1> QED BY <1>1, <1>2, <1>3, <1>4, <1>5, <1>6 DEF ControlInv

\* A new frame.
LEMMA FrameFields ==
    ASSUME NEW op \in Ops, NEW i \in 1 .. (N + 1)
    PROVE  LET f == Frame(op, i)
           IN  /\ f \in FrameType /\ f.op = op /\ f.at = i /\ f.end = FALSE
               /\ f.data = <<>> /\ f.buffered = FALSE /\ f.mark = 0
<1>1. 0 \in 0 .. N /\ <<>> \in Seq(Nat)
  BY FiltersAssumption
<1> QED BY <1>1 DEF Frame, FrameType

\* A stack of one frame.
LEMMA OneFrame ==
    ASSUME NEW f \in FrameType
    PROVE  /\ <<f>> \in Seq(FrameType) /\ Len(<<f>>) = 1 /\ <<f>>[1] = f /\ <<f>> # <<>>
           /\ \A k \in 1 .. Len(<<f>>) : <<f>>[k] = f
           /\ 2 .. Len(<<f>>) = {}
<1>1. <<f>> \in Seq(FrameType) /\ Len(<<f>>) = 1 /\ <<f>>[1] = f
  OBVIOUS
<1> QED BY <1>1

\* The function on top returns, or is replaced by one that it calls.
LEMMA StepReturns ==
    ASSUME ControlInv, NEW h \in 0 .. N, StackInv(fm, stack, h),
           StartInv(codec, fm, stack, h), stack # <<>>,
           codec' = codec, contended' \in BOOLEAN, Returns,
           NEW g \in 0 .. N, h <= g, g > 0,
           fm' \in ManagerType, Grows(fm, fm', h), PauseInv(fm'), EndInv(fm'),
           ReleaseInv(fm', stack'), Reach(fm', stack', g),
           \A i \in Filters : Letting(stack, i) => Passed(fm', stack', i)
    PROVE  ControlInv'
<1> DEFINE fs == <<>>
<1>1. fs \in Seq(FrameType) /\ 1 .. Len(fs) = {} /\ 2 .. Len(fs) = {} /\ fs = <<>>
  OBVIOUS
<1>2. stack' = fs \o Tail(stack)
  BY DEF Returns, Calls
<1> HIDE DEF fs
<1> QED BY <1>1, <1>2, StepControl

\* A function that calls one other keeps the invariant of the stack.
LEMMA StepCalls ==
    ASSUME ControlInv, NEW h \in 0 .. N, StackInv(fm, stack, h),
           StartInv(codec, fm, stack, h), stack # <<>>,
           codec' = codec, contended' \in BOOLEAN,
           NEW f \in FrameType, Calls(<<f>>),
           NEW g \in 0 .. N, h <= g, g > 0,
           fm' \in ManagerType, Grows(fm, fm', h), PauseInv(fm'), EndInv(fm'),
           ReleaseInv(fm', stack'), Reach(fm', stack', g),
           \A i \in Filters : Letting(stack, i) => Passed(fm', stack', i),
           FrameInv(f, fm', stack', g), TopInv(f, fm', g)
    PROVE  ControlInv'
<1> DEFINE fs == <<f>>
<1>1. /\ fs \in Seq(FrameType) /\ 2 .. Len(fs) = {} /\ fs[1] = f
      /\ \A k \in 1 .. Len(fs) : fs[k] = f
  BY OneFrame
<1>2. stack' = fs \o Tail(stack)
  BY DEF Calls
<1> HIDE DEF fs
<1> QED BY <1>1, <1>2, StepControl

\* What ReleaseKept says of both.
LEMMA ReleaseStep ==
    ASSUME NEW s \in ManagerType, NEW t \in ManagerType,
           stack \in Seq(FrameType), stack # <<>>, ReleaseInv(s, stack),
           NEW f \in FrameType, Returns \/ Calls(<<f>>),
           stack[1].op # "doData",
           stack[1].op = "decodeData" => stack[1].at = N + 1 \/ ~stack[1].buffered,
           t.buffer # <<>> /\ ~t.localComplete /\ ~t.remoteComplete =>
               s.buffer # <<>> /\ ~s.localComplete /\ ~s.remoteComplete,
           \A i \in Others : canIterate(t, i) => canIterate(s, i)
    PROVE  ReleaseInv(t, stack')
<1> DEFINE fs == IF Returns THEN <<>> ELSE <<f>>
<1>1. fs \in Seq(FrameType)
  BY OneFrame
<1>2. stack' = fs \o Tail(stack)
  BY DEF Returns, Calls
<1> HIDE DEF fs
<1> QED BY <1>1, <1>2, ReleaseKept

\* The functions of commonContinue that only look.
LEMMA FromCurrentFields ==
    ASSUME NEW s \in ManagerType, NEW i \in Filters, NEW b \in BOOLEAN
    PROVE  LET t == [s EXCEPT !.fromCurrent[i] = b]
           IN  /\ t \in ManagerType /\ t.iter = s.iter
               /\ t.headersContinued = s.headersContinued /\ t.endStream = s.endStream
               /\ t.remoteComplete = s.remoteComplete /\ t.trailers = s.trailers
               /\ t.inTrailers = s.inTrailers /\ t.localComplete = s.localComplete
               /\ t.aborted = s.aborted /\ t.streaming = s.streaming
               /\ t.exists = s.exists /\ t.buffer = s.buffer
               /\ t.above = s.above /\ t.paused = s.paused
<1> DEFINE m == [s.fromCurrent EXCEPT ![i] = b]
           t == [s EXCEPT !.fromCurrent = m]
<1>1. m \in [Filters -> BOOLEAN]
  BY DEF ManagerType
<1>2. [s EXCEPT !.fromCurrent[i] = b] = t
  BY DEF ManagerType
<1> HIDE DEF m
<1>3. /\ t \in ManagerType /\ t.iter = s.iter
      /\ t.headersContinued = s.headersContinued /\ t.endStream = s.endStream
      /\ t.remoteComplete = s.remoteComplete /\ t.trailers = s.trailers
      /\ t.inTrailers = s.inTrailers /\ t.localComplete = s.localComplete
      /\ t.aborted = s.aborted /\ t.streaming = s.streaming
      /\ t.exists = s.exists /\ t.buffer = s.buffer
      /\ t.above = s.above /\ t.paused = s.paused
  BY <1>1 DEF ManagerType
<1> QED BY <1>2, <1>3

\* continued keeps the invariant.
LEMMA continuedControl == ControlInv /\ continued => ControlInv'
<1> SUFFICES ASSUME ControlInv, continued PROVE ControlInv'
  OBVIOUS
<1>1. stack # <<>> /\ top.op = "continued"
  BY DEF continued, Runs
<1>2. /\ top = stack[1] /\ top \in FrameType /\ stack \in Seq(FrameType)
      /\ fm \in ManagerType /\ PauseInv(fm) /\ EndInv(fm) /\ ReleaseInv(fm, stack)
  BY <1>1, TopFacts
<1>3. PICK h \in 0 .. N :
        /\ Reach(fm, stack, h) /\ StackInv(fm, stack, h)
        /\ StartInv(codec, fm, stack, h) /\ FrameInv(top, fm, stack, h) /\ h > 0
  BY <1>1, TopFacts
<1>4. top.at \in Filters
  BY <1>1, <1>3, FiltersAssumption DEF FrameInv, Continuations, Others, Filters
<1>5. /\ Returns
      /\ fm' = [fm EXCEPT !.fromCurrent[top.at] = FALSE]
      /\ codec' = codec /\ contended' \in BOOLEAN
  BY DEF continued, ControlInv, Types
<1>6. /\ fm' \in ManagerType /\ fm'.iter = fm.iter
      /\ fm'.headersContinued = fm.headersContinued /\ fm'.endStream = fm.endStream
      /\ fm'.remoteComplete = fm.remoteComplete /\ fm'.trailers = fm.trailers
      /\ fm'.localComplete = fm.localComplete /\ fm'.aborted = fm.aborted
      /\ fm'.exists = fm.exists /\ fm'.buffer = fm.buffer
      /\ fm'.above = fm.above /\ fm'.paused = fm.paused
  BY <1>2, <1>4, <1>5, FromCurrentFields
<1>7. PauseInv(fm') /\ EndInv(fm') /\ Grows(fm, fm', h)
  BY <1>2, <1>6 DEF PauseInv, EndInv, Grows, stoppedAll
<1>8. Reach(fm', stack', h)
  BY <1>1, <1>2, <1>3, <1>6, ReachKept DEF canIterate, stoppedAll
<1>9. ReleaseInv(fm', stack')
  BY <1>1, <1>2, <1>5, <1>6, ReleaseStep DEF canIterate
<1>10. \A i \in Filters : Letting(stack, i) => Passed(fm', stack', i)
  BY <1>1, <1>2 DEF Letting
<1>11. h <= h
  BY FiltersAssumption
<1> QED BY <1>1, <1>3, <1>5, <1>6, <1>7, <1>8, <1>9, <1>10, <1>11, StepReturns

\* The function on top returns and changes nothing.
LEMMA JustReturns ==
    ASSUME ControlInv, stack # <<>>, codec' = codec, contended' \in BOOLEAN, fm' = fm, Returns,
           top.op \notin {"doHeaders", "decodeHeaders"}, ReleaseInv(fm', stack'),
           top.op = "commonContinue" => fm.localComplete
    PROVE  ControlInv'
<1>1. /\ top = stack[1] /\ stack \in Seq(FrameType)
      /\ fm \in ManagerType /\ PauseInv(fm) /\ EndInv(fm)
  BY TopFacts
<1>2. PICK h \in 0 .. N :
        /\ Reach(fm, stack, h) /\ StackInv(fm, stack, h)
        /\ StartInv(codec, fm, stack, h) /\ h > 0
  BY TopFacts
<1>3. PauseInv(fm') /\ EndInv(fm') /\ Grows(fm, fm', h) /\ fm' \in ManagerType
  BY <1>1 DEF Grows
<1>4. Reach(fm', stack', h)
  BY <1>1, <1>2, ReachKept
<1>5. \A i \in Filters : Letting(stack, i) => Passed(fm', stack', i)
  BY <1>1 DEF Letting, Passed
<1>6. h <= h
  BY FiltersAssumption
<1> QED BY <1>2, <1>3, <1>4, <1>5, <1>6, StepReturns

\* commonContinue keeps the invariant.
LEMMA commonContinueControl == ControlInv /\ commonContinue => ControlInv'
<1> SUFFICES ASSUME ControlInv, commonContinue PROVE ControlInv'
  OBVIOUS
<1>1. stack # <<>> /\ top.op = "commonContinue" /\ codec' = codec /\ contended' \in BOOLEAN
  BY DEF commonContinue, Runs, ControlInv, Types
<1>2. /\ top = stack[1] /\ top \in FrameType /\ stack \in Seq(FrameType)
      /\ fm \in ManagerType /\ PauseInv(fm) /\ EndInv(fm) /\ ReleaseInv(fm, stack)
  BY <1>1, TopFacts
<1>3. CASE fm.localComplete
  <2>1. Returns /\ fm' = fm
    BY <1>3 DEF commonContinue, canContinue
  <2>2. ReleaseInv(fm', stack')
    BY <1>3, <2>1 DEF ReleaseInv
  <2> QED BY <1>1, <1>3, <2>1, <2>2, JustReturns
<1>4. CASE ~fm.localComplete
  <2> DEFINE i == top.at
             fs == <<Frame("doHeaders", i), Frame("doData", i),
                     Frame("doTrailers", i), Frame("continued", i)>>
             b == fm.fromCurrent[i] \/ stoppedAll(fm, i)
             u == [fm EXCEPT !.iter[i] = "Continue"]
  <2>1. PICK h \in 0 .. N :
          /\ Reach(fm, stack, h) /\ StackInv(fm, stack, h)
          /\ StartInv(codec, fm, stack, h) /\ FrameInv(top, fm, stack, h) /\ h > 0
    BY <1>1, TopFacts
  <2>2. i \in Others /\ i \in Filters /\ i \in 1 .. (N + 1) /\ i <= h
    BY <1>1, <2>1, FiltersAssumption DEF FrameInv, Continuations, Others, Filters
  <2>3. /\ stack' = fs \o Tail(stack)
        /\ fm' = [u EXCEPT !.fromCurrent[i] = b]
    <3>1. /\ stack' = fs \o Tail(stack)
          /\ fm' = [fm EXCEPT !.iter[i] = "Continue",
                              !.fromCurrent[i] = @ \/ stoppedAll(fm, i)]
      BY <1>4 DEF commonContinue, canContinue, Calls
    <3>2. fm' = [u EXCEPT !.fromCurrent[i] = u.fromCurrent[i] \/ stoppedAll(fm, i)]
      BY <3>1, Zenon
    <3>3. u.fromCurrent = fm.fromCurrent
      BY <1>2, <2>2, IterFields DEF Iterations
    <3> QED BY <3>1, <3>2, <3>3, Zenon
  <2>4. /\ fm' \in ManagerType /\ fm'.iter = [fm.iter EXCEPT ![i] = "Continue"]
        /\ fm'.headersContinued = fm.headersContinued /\ fm'.endStream = fm.endStream
        /\ fm'.remoteComplete = fm.remoteComplete /\ fm'.trailers = fm.trailers
        /\ fm'.localComplete = fm.localComplete /\ fm'.aborted = fm.aborted
        /\ fm'.exists = fm.exists /\ fm'.buffer = fm.buffer
        /\ fm'.above = fm.above /\ fm'.paused = fm.paused
    <3>1. /\ u \in ManagerType /\ u.iter = [fm.iter EXCEPT ![i] = "Continue"]
          /\ u.headersContinued = fm.headersContinued /\ u.endStream = fm.endStream
          /\ u.remoteComplete = fm.remoteComplete /\ u.trailers = fm.trailers
          /\ u.localComplete = fm.localComplete /\ u.aborted = fm.aborted
          /\ u.exists = fm.exists /\ u.buffer = fm.buffer
          /\ u.above = fm.above /\ u.paused = fm.paused
      BY <1>2, <2>2, IterFields, ZenonT(30) DEF Iterations
    <3>2. b \in BOOLEAN
      BY <1>2, <2>2 DEF ManagerType, stoppedAll
    <3> HIDE DEF u, b
    <3> QED BY <2>2, <2>3, <3>1, <3>2, FromCurrentFields
  <2> HIDE DEF u, b
  <2>5. PauseInv(fm') /\ EndInv(fm')
    BY <1>2, <2>4 DEF PauseInv, EndInv
  <2>6. fm.iter \in [Filters -> Iterations]
    BY <1>2 DEF ManagerType
  <2>7. Grows(fm, fm', h)
    BY <2>2, <2>4, <2>6 DEF Grows, stoppedAll
  <2>8. /\ fs \in Seq(FrameType) /\ Len(fs) = 4 /\ fs # <<>>
        /\ fs[1] = Frame("doHeaders", i) /\ fs[2] = Frame("doData", i)
        /\ fs[3] = Frame("doTrailers", i) /\ fs[4] = Frame("continued", i)
    <3>1. \A op \in Continuations : Frame(op, i) \in FrameType
      BY <2>2, FrameFields DEF Ops
    <3> QED BY <3>1 DEF Continuations
  <2>9. ASSUME NEW op \in Continuations
        PROVE  LET f == Frame(op, i)
               IN  /\ f \in FrameType /\ f.op = op /\ f.at = i /\ f.end = FALSE /\ f.mark = 0
    <3>1. op \in Ops
      BY DEF Ops
    <3> QED BY <2>2, <3>1, FrameFields
  <2> HIDE DEF fs
  <2>10. stack' # <<>> /\ stack'[1] = Frame("doHeaders", i) /\ stack'[2] = Frame("doData", i)
         /\ 2 \in 1 .. Len(stack')
    <3>1. /\ Len(stack') = Len(fs) + Len(stack) - 1
          /\ \A k \in 1 .. Len(fs) : stack'[k] = fs[k]
          /\ stack' \in Seq(FrameType)
      BY <1>1, <1>2, <2>3, <2>8, CalledFrames
    <3>2. Len(stack) \in Nat /\ Len(stack) > 0
      BY <1>1, <1>2
    <3> QED BY <2>8, <3>1, <3>2
  <2>11. Letting(stack', i) /\ stack'[1].op = "doHeaders" /\ stack'[1].at = i
         /\ stack'[2].op = "doData"
    BY <2>9, <2>10 DEF Letting, Continuations
  <2>12. Reach(fm', stack', h)
    <3>1. ASSUME NEW j \in Filters
          PROVE  /\ j > h => canIterate(fm', j) /\ ~fm'.headersContinued[j]
                 /\ j < h => fm'.headersContinued[j]
                 /\ ~(j = h /\ fm'.headersContinued[j] /\ h # N)
                 /\ j = h /\ ~fm'.headersContinued[j] /\ canIterate(fm', j) => j = i
                 /\ stoppedAll(fm', j) => stoppedAll(fm, j)
      <4>1. CASE j = i
        BY <1>1, <1>2, <2>1, <2>2, <2>4, <2>6, <4>1 DEF Reach, canIterate, stoppedAll
      <4>2. CASE j # i
        <5>1. fm'.iter[j] = fm.iter[j]
          BY <2>2, <2>4, <2>6, <4>2
        <5> QED BY <1>1, <1>2, <2>1, <2>4, <5>1 DEF Reach, canIterate, stoppedAll
      <4> QED BY <4>1, <4>2
    <3>2. ~stoppedAll(fm', N)
      BY <2>1, <3>1, FiltersAssumption DEF Reach, Filters
    <3> QED BY <2>10, <2>11, <3>1, <3>2 DEF Reach
  <2>13. ReleaseInv(fm', stack')
    BY <2>10, <2>11 DEF ReleaseInv, Releases
  <2>14. \A j \in Filters : Letting(stack, j) => Passed(fm', stack', j)
    BY <1>1, <1>2, <2>11 DEF Letting, Passed
  <2>15. \A op \in Continuations \ {"commonContinue"} : FrameInv(Frame(op, i), fm', stack', h)
    BY <2>2, <2>9, <2>11 DEF FrameInv, Passed, Continuations
  <2>16. \A k \in 1 .. Len(fs) : FrameInv(fs[k], fm', stack', h)
    BY <2>8, <2>15 DEF Continuations
  <2>17. \A k \in 2 .. Len(fs) : Waits(fs[k])
    BY <2>8, <2>9 DEF Continuations, Waits
  <2>18. TopInv(fs[1], fm', h)
    BY <1>4, <2>4, <2>8, <2>9 DEF TopInv, Continuations
  <2>19. h <= h
    BY FiltersAssumption
  <2> QED BY <1>1, <2>1, <2>3, <2>4, <2>5, <2>7, <2>8, <2>12, <2>13, <2>14, <2>16, <2>17,
             <2>18, <2>19, StepControl
<1> QED BY <1>3, <1>4

\* One filter's headers are noted as continued.
LEMMA HeadersContinuedFields ==
    ASSUME NEW s \in ManagerType, NEW i \in Filters, NEW b \in BOOLEAN
    PROVE  LET t == [s EXCEPT !.headersContinued[i] = b]
           IN  /\ t \in ManagerType /\ t.iter = s.iter
               /\ t.headersContinued = [s.headersContinued EXCEPT ![i] = b]
               /\ t.fromCurrent = s.fromCurrent /\ t.endStream = s.endStream
               /\ t.remoteComplete = s.remoteComplete /\ t.trailers = s.trailers
               /\ t.inTrailers = s.inTrailers /\ t.localComplete = s.localComplete
               /\ t.aborted = s.aborted /\ t.streaming = s.streaming
               /\ t.exists = s.exists /\ t.buffer = s.buffer
               /\ t.above = s.above /\ t.paused = s.paused
<1> DEFINE m == [s.headersContinued EXCEPT ![i] = b]
           t == [s EXCEPT !.headersContinued = m]
<1>1. m \in [Filters -> BOOLEAN]
  BY DEF ManagerType
<1>2. [s EXCEPT !.headersContinued[i] = b] = t
  BY DEF ManagerType
<1> HIDE DEF m
<1>3. /\ t \in ManagerType /\ t.iter = s.iter /\ t.headersContinued = m
      /\ t.fromCurrent = s.fromCurrent /\ t.endStream = s.endStream
      /\ t.remoteComplete = s.remoteComplete /\ t.trailers = s.trailers
      /\ t.inTrailers = s.inTrailers /\ t.localComplete = s.localComplete
      /\ t.aborted = s.aborted /\ t.streaming = s.streaming
      /\ t.exists = s.exists /\ t.buffer = s.buffer
      /\ t.above = s.above /\ t.paused = s.paused
  BY <1>1 DEF ManagerType
<1> HIDE DEF t
<1> QED BY <1>2, <1>3 DEF m

\* The called function is the innermost one.
LEMMA CallOnTop ==
    ASSUME stack \in Seq(FrameType), stack # <<>>, NEW f \in FrameType, Calls(<<f>>)
    PROVE  stack' # <<>> /\ stack'[1] = f
<1> DEFINE fs == <<f>>
<1>1. fs \in Seq(FrameType) /\ fs[1] = f /\ 1 \in 1 .. Len(fs) /\ Len(fs) = 1
  BY OneFrame
<1>2. stack' = fs \o Tail(stack)
  BY DEF Calls
<1> HIDE DEF fs
<1>3. /\ Len(stack') = Len(fs) + Len(stack) - 1 /\ stack'[1] = fs[1]
      /\ stack' \in Seq(FrameType)
  BY <1>1, <1>2, CalledFrames
<1>4. Len(stack) \in Nat /\ Len(stack) > 0
  OBVIOUS
<1>5. stack' # <<>>
  BY <1>1, <1>3, <1>4
<1> QED BY <1>1, <1>3, <1>5

\* doHeaders keeps the invariant.
LEMMA doHeadersControl == ControlInv /\ doHeaders => ControlInv'
<1> SUFFICES ASSUME ControlInv, doHeaders PROVE ControlInv'
  OBVIOUS
<1> DEFINE i == top.at
<1>1. stack # <<>> /\ top.op = "doHeaders" /\ codec' = codec /\ contended' \in BOOLEAN
  BY DEF doHeaders, Runs, ControlInv, Types
<1>2. /\ top = stack[1] /\ top \in FrameType /\ stack \in Seq(FrameType)
      /\ fm \in ManagerType /\ PauseInv(fm) /\ EndInv(fm) /\ ReleaseInv(fm, stack)
  BY <1>1, TopFacts
<1>3. PICK h \in 0 .. N :
        /\ Reach(fm, stack, h) /\ StackInv(fm, stack, h)
        /\ StartInv(codec, fm, stack, h) /\ FrameInv(top, fm, stack, h)
        /\ TopInv(top, fm, h) /\ h > 0
  BY <1>1, TopFacts
<1>4. i \in Others /\ i \in Filters /\ i <= h /\ i + 1 \in 1 .. (N + 1) /\ i < N
  BY <1>1, <1>3, FiltersAssumption DEF FrameInv, Continuations, Others, Filters
<1>5. h <= h
  BY FiltersAssumption
<1>6. CASE fm.headersContinued[i]
  <2>1. Returns /\ fm' = fm
    BY <1>6 DEF doHeaders
  <2>2. Reach(fm', stack', h)
    BY <1>1, <1>2, <1>3, <1>6, <2>1 DEF Reach
  <2>3. ReleaseInv(fm', stack')
    BY <1>1, <1>2, <2>1, ReleaseStep
  <2>4. \A j \in Filters : Letting(stack, j) => Passed(fm', stack', j)
    BY <1>2, <1>6, <2>1 DEF Letting, Passed
  <2>5. PauseInv(fm') /\ EndInv(fm') /\ Grows(fm, fm', h) /\ fm' \in ManagerType
    BY <1>2, <2>1 DEF Grows
  <2> QED BY <1>1, <1>3, <1>5, <2>1, <2>2, <2>3, <2>4, <2>5, StepReturns
<1>7. CASE ~fm.headersContinued[i]
  <2> DEFINE end == fm.remoteComplete /\ ~fm.exists /\ ~fm.trailers
             f == decodeHeadersCall(i + 1, end)
  <2>0. fm' = [fm EXCEPT !.headersContinued[i] = TRUE] /\ Calls(<<f>>)
    BY <1>7 DEF doHeaders
  <2>1. /\ f \in FrameType /\ f.op = "decodeHeaders" /\ f.at = i + 1 /\ f.end = end
        /\ f.mark = 0
    <3> DEFINE e == Frame("decodeHeaders", i + 1)
    <3>1. end \in BOOLEAN
      BY <1>2 DEF ManagerType
    <3>2. e \in FrameType /\ e.op = "decodeHeaders" /\ e.at = i + 1 /\ e.mark = 0
      BY <1>4, FrameFields DEF Ops
    <3>3. f = [e EXCEPT !.end = end]
      BY DEF decodeHeadersCall
    <3> HIDE DEF e, end, f
    <3> QED BY <3>1, <3>2, <3>3 DEF FrameType
  <2>2. /\ fm' \in ManagerType /\ fm'.iter = fm.iter
        /\ fm'.headersContinued = [fm.headersContinued EXCEPT ![i] = TRUE]
        /\ fm'.endStream = fm.endStream
        /\ fm'.remoteComplete = fm.remoteComplete /\ fm'.trailers = fm.trailers
        /\ fm'.localComplete = fm.localComplete /\ fm'.aborted = fm.aborted
        /\ fm'.exists = fm.exists /\ fm'.buffer = fm.buffer
        /\ fm'.above = fm.above /\ fm'.paused = fm.paused
    <3>1. fm' = [fm EXCEPT !.headersContinued[i] = TRUE]
      BY <2>0
    <3> HIDE DEF end, f, i
    <3> QED BY <1>2, <1>4, <3>1, HeadersContinuedFields
  <2>3. fm.headersContinued \in [Filters -> BOOLEAN]
    BY <1>2 DEF ManagerType
  <2>4. PauseInv(fm') /\ EndInv(fm') /\ Grows(fm, fm', h)
    BY <1>2, <1>4, <2>2, <2>3 DEF PauseInv, EndInv, Grows, stoppedAll
  <2>5. i = h
    <3>1. ~(i < h)
      BY <1>3, <1>4, <1>7 DEF Reach
    <3> QED BY <1>4, <3>1, FiltersAssumption DEF Filters
  <2>6. fm'.headersContinued[i] /\ \A j \in Filters : j # i =>
            fm'.headersContinued[j] = fm.headersContinued[j]
    BY <1>4, <2>2, <2>3
  <2> HIDE DEF f
  <2>7. stack' # <<>> /\ stack'[1] = f
    BY <1>1, <1>2, <2>0, <2>1, CallOnTop
  <2>8. Reach(fm', stack', h)
    <3>1. ~stoppedAll(fm', N)
      BY <1>3, <2>2, FiltersAssumption DEF Reach, stoppedAll, Filters
    <3>2. ASSUME NEW j \in Filters
          PROVE  /\ j > h => canIterate(fm', j) /\ ~fm'.headersContinued[j]
                 /\ j < h => fm'.headersContinued[j]
                 /\ j = h => fm'.headersContinued[j]
      BY <1>3, <1>4, <2>2, <2>5, <2>6 DEF Reach, canIterate
    <3> QED BY <2>1, <2>7, <3>1, <3>2 DEF Reach
  <2>9. ReleaseInv(fm', stack')
    <3>1. /\ Calls(<<f>>) /\ stack[1].op = "doHeaders"
          /\ \A j \in Others : canIterate(fm', j) => canIterate(fm, j)
          /\ fm'.buffer # <<>> /\ ~fm'.localComplete /\ ~fm'.remoteComplete =>
                fm.buffer # <<>> /\ ~fm.localComplete /\ ~fm.remoteComplete
      BY <1>1, <1>2, <2>0, <2>2 DEF canIterate
    <3> QED BY <1>1, <1>2, <2>1, <2>2, <3>1, ReleaseStep
  <2>10. \A j \in Filters : Letting(stack, j) => Passed(fm', stack', j)
    BY <1>2, <2>6 DEF Letting, Passed
  <2>11. FrameInv(f, fm', stack', h)
    BY <2>1, <2>2 DEF FrameInv, Continuations
  <2>12. TopInv(f, fm', h)
    <3>1. ASSUME NEW j \in Filters, j < i + 1 PROVE fm'.headersContinued[j]
      <4>1. CASE j = i
        BY <2>6, <4>1
      <4>2. CASE j # i
        <5>1. j < h
          BY <2>5, <3>1, <4>2, FiltersAssumption DEF Filters
        <5> QED BY <1>3, <2>6, <4>2, <5>1 DEF Reach
      <4> QED BY <4>1, <4>2
    <3> QED BY <1>1, <1>3, <1>4, <2>1, <2>2, <2>5, <3>1 DEF TopInv
  <2> QED BY <1>1, <1>3, <1>5, <2>0, <2>1, <2>2, <2>4, <2>8, <2>9, <2>10, <2>11, <2>12,
             StepCalls
<1> QED BY <1>6, <1>7

\* Where a continuation of filter i goes on.
LEMMA PrefixFacts ==
    ASSUME NEW i \in Others, NEW h \in 0 .. N, i <= h, Reach(fm, stack, h),
           Passed(fm, stack, i), ~fm.localComplete, stack # <<>>,
           stack[1].op \in {"doData", "doTrailers", "decodeData"}
    PROVE  LET p == commonDecodePrefix(i)
           IN  p \in 1 .. (N + 1) /\ p # N + 1 /\ p <= h
<1>1. fm.headersContinued[i]
  BY DEF Passed, Letting
<1>2. i \in Filters /\ i < N /\ i \in Nat /\ i > 0 /\ N \in Nat
  BY FiltersAssumption DEF Others, Filters
<1>3. i # h
  BY <1>1, <1>2 DEF Reach
<1>4. commonDecodePrefix(i) \in {i, i + 1}
  BY DEF commonDecodePrefix
<1> QED BY <1>2, <1>3, <1>4

\* doData keeps the invariant.
LEMMA doDataControl == ControlInv /\ doData => ControlInv'
<1> SUFFICES ASSUME ControlInv, doData PROVE ControlInv'
  OBVIOUS
<1> DEFINE i == top.at
<1>1. /\ stack # <<>> /\ top.op = "doData" /\ codec' = codec /\ contended' \in BOOLEAN
      /\ fm' = fm
  BY DEF doData, Runs, ControlInv, Types
<1>2. /\ top = stack[1] /\ top \in FrameType /\ stack \in Seq(FrameType)
      /\ fm \in ManagerType /\ PauseInv(fm) /\ EndInv(fm) /\ ReleaseInv(fm, stack)
  BY <1>1, TopFacts
<1>3. PICK h \in 0 .. N :
        /\ Reach(fm, stack, h) /\ StackInv(fm, stack, h)
        /\ StartInv(codec, fm, stack, h) /\ FrameInv(top, fm, stack, h) /\ h > 0
  BY <1>1, TopFacts
<1>4. CASE ~fm.exists \/ fm.localComplete
  <2>1. Returns
    BY <1>4 DEF doData, decodeDataCall, Returns
  <2>2. ReleaseInv(fm', stack')
    BY <1>1, <1>2, <1>4 DEF ReleaseInv, PauseInv
  <2> QED BY <1>1, <2>1, <2>2, JustReturns
<1>5. CASE fm.exists /\ ~fm.localComplete
  <2> DEFINE p == commonDecodePrefix(i)
             end == fm.remoteComplete /\ ~fm.trailers
             f == [Frame("decodeData", p) EXCEPT !.buffered = TRUE, !.end = end]
  <2>1. i \in Others /\ i <= h /\ Passed(fm, stack, i)
    BY <1>1, <1>3 DEF FrameInv, Continuations
  <2>2. p \in 1 .. (N + 1) /\ p # N + 1 /\ p <= h
    BY <1>1, <1>2, <1>3, <1>5, <2>1, PrefixFacts
  <2> HIDE DEF p
  <2>3. Calls(<<f>>)
    BY <1>5 DEF doData, decodeDataCall, p
  <2>4. /\ f \in FrameType /\ f.op = "decodeData" /\ f.at = p /\ f.end = end
        /\ f.mark = 0 /\ f.buffered = TRUE
    <3> DEFINE e == Frame("decodeData", p)
    <3>1. end \in BOOLEAN
      BY <1>2 DEF ManagerType
    <3>2. e \in FrameType /\ e.op = "decodeData" /\ e.at = p /\ e.mark = 0
      BY <2>2, FrameFields DEF Ops
    <3>3. f = [e EXCEPT !.buffered = TRUE, !.end = end]
      OBVIOUS
    <3> HIDE DEF e, end, f
    <3> QED BY <3>1, <3>2, <3>3 DEF FrameType
  <2> HIDE DEF f
  <2>5. stack' # <<>> /\ stack'[1] = f
    BY <1>1, <1>2, <2>3, <2>4, CallOnTop
  <2>6. ReleaseInv(fm', stack')
    BY <2>2, <2>4, <2>5 DEF ReleaseInv, Releases
  <2>7. Reach(fm', stack', h)
    BY <1>1, <1>2, <1>3, ReachKept
  <2>8. \A j \in Filters : Letting(stack, j) => Passed(fm', stack', j)
    BY <1>1, <1>2 DEF Letting
  <2>9. FrameInv(f, fm', stack', h)
    BY <1>1, <2>2, <2>4 DEF FrameInv, Continuations
  <2>10. TopInv(f, fm', h)
    BY <1>1, <1>5, <2>2, <2>4 DEF TopInv
  <2>11. PauseInv(fm') /\ EndInv(fm') /\ Grows(fm, fm', h) /\ fm' \in ManagerType
    BY <1>1, <1>2 DEF Grows
  <2>12. h <= h
    BY FiltersAssumption
  <2> QED BY <1>1, <1>3, <2>3, <2>4, <2>6, <2>7, <2>8, <2>9, <2>10, <2>11, <2>12, StepCalls
<1> QED BY <1>4, <1>5

\* doTrailers keeps the invariant.
LEMMA doTrailersControl == ControlInv /\ doTrailers => ControlInv'
<1> SUFFICES ASSUME ControlInv, doTrailers PROVE ControlInv'
  OBVIOUS
<1> DEFINE i == top.at
<1>1. /\ stack # <<>> /\ top.op = "doTrailers" /\ codec' = codec /\ contended' \in BOOLEAN
      /\ fm' = fm
  BY DEF doTrailers, Runs, ControlInv, Types
<1>2. /\ top = stack[1] /\ top \in FrameType /\ stack \in Seq(FrameType)
      /\ fm \in ManagerType /\ PauseInv(fm) /\ EndInv(fm) /\ ReleaseInv(fm, stack)
  BY <1>1, TopFacts
<1>3. PICK h \in 0 .. N :
        /\ Reach(fm, stack, h) /\ StackInv(fm, stack, h)
        /\ StartInv(codec, fm, stack, h) /\ FrameInv(top, fm, stack, h) /\ h > 0
  BY <1>1, TopFacts
<1>4. CASE ~fm.trailers \/ fm.localComplete
  <2>1. Returns
    BY <1>4 DEF doTrailers, decodeTrailersCall, Returns
  <2>2. ReleaseInv(fm', stack')
    BY <1>1, <1>2, <2>1, ReleaseStep
  <2> QED BY <1>1, <2>1, <2>2, JustReturns
<1>5. CASE fm.trailers /\ ~fm.localComplete
  <2> DEFINE p == commonDecodePrefix(i)
             f == Frame("decodeTrailers", p)
  <2>1. i \in Others /\ i <= h /\ Passed(fm, stack, i)
    BY <1>1, <1>3 DEF FrameInv, Continuations
  <2>2. p \in 1 .. (N + 1) /\ p # N + 1 /\ p <= h
    BY <1>1, <1>2, <1>3, <1>5, <2>1, PrefixFacts
  <2> HIDE DEF p
  <2>3. Calls(<<f>>)
    BY <1>5 DEF doTrailers, decodeTrailersCall, p
  <2>4. /\ f \in FrameType /\ f.op = "decodeTrailers" /\ f.at = p /\ f.end = FALSE
        /\ f.mark = 0
    BY <2>2, FrameFields DEF Ops
  <2> HIDE DEF f
  <2>6. ReleaseInv(fm', stack')
    BY <1>1, <1>2, <2>3, <2>4, ReleaseStep
  <2>7. Reach(fm', stack', h)
    BY <1>1, <1>2, <1>3, ReachKept
  <2>8. \A j \in Filters : Letting(stack, j) => Passed(fm', stack', j)
    BY <1>1, <1>2 DEF Letting
  <2>9. FrameInv(f, fm', stack', h)
    BY <1>1, <1>2, <1>5, <2>2, <2>4 DEF FrameInv, Continuations, EndInv
  <2>10. TopInv(f, fm', h)
    BY <2>4 DEF TopInv
  <2>11. PauseInv(fm') /\ EndInv(fm') /\ Grows(fm, fm', h) /\ fm' \in ManagerType
    BY <1>1, <1>2 DEF Grows
  <2>12. h <= h
    BY FiltersAssumption
  <2> QED BY <1>1, <1>3, <2>3, <2>4, <2>6, <2>7, <2>8, <2>9, <2>10, <2>11, <2>12, StepCalls
<1> QED BY <1>4, <1>5

\* maybeContinueDecoding keeps the invariant.
LEMMA maybeContinueDecodingControl == ControlInv /\ maybeContinueDecoding => ControlInv'
<1> SUFFICES ASSUME ControlInv, maybeContinueDecoding PROVE ControlInv'
  OBVIOUS
<1> DEFINE i == top.at
           f == Frame("commonContinue", i)
<1>1. /\ stack # <<>> /\ top.op = "maybeContinueDecoding" /\ codec' = codec
      /\ contended' \in BOOLEAN
      /\ fm' = [fm EXCEPT !.iter[i] = "StopSingleIteration"] /\ Calls(<<f>>)
  BY DEF maybeContinueDecoding, Runs, ControlInv, Types
<1>2. /\ top = stack[1] /\ top \in FrameType /\ stack \in Seq(FrameType)
      /\ fm \in ManagerType /\ PauseInv(fm) /\ EndInv(fm) /\ ReleaseInv(fm, stack)
  BY <1>1, TopFacts
<1>3. PICK h \in 0 .. N :
        /\ Reach(fm, stack, h) /\ StackInv(fm, stack, h)
        /\ StartInv(codec, fm, stack, h) /\ FrameInv(top, fm, stack, h) /\ h > 0
  BY <1>1, TopFacts
<1>4. i \in Others /\ i \in Filters /\ i \in 1 .. (N + 1) /\ i <= h
  BY <1>1, <1>3, FiltersAssumption DEF FrameInv, Continuations, Others, Filters
<1>5. /\ f \in FrameType /\ f.op = "commonContinue" /\ f.at = i /\ f.end = FALSE
      /\ f.mark = 0
  BY <1>4, FrameFields, ZenonT(30) DEF Ops, Continuations
<1> HIDE DEF f
<1>6. /\ fm' \in ManagerType /\ fm'.iter = [fm.iter EXCEPT ![i] = "StopSingleIteration"]
      /\ fm'.headersContinued = fm.headersContinued /\ fm'.endStream = fm.endStream
      /\ fm'.remoteComplete = fm.remoteComplete /\ fm'.trailers = fm.trailers
      /\ fm'.localComplete = fm.localComplete /\ fm'.aborted = fm.aborted
      /\ fm'.exists = fm.exists /\ fm'.buffer = fm.buffer
      /\ fm'.above = fm.above /\ fm'.paused = fm.paused
  BY <1>1, <1>2, <1>4, IterFields, ZenonT(60) DEF Iterations
<1>7. /\ \A j \in Filters : j > h => fm'.iter[j] = fm.iter[j]
      /\ \A j \in Filters : canIterate(fm', j) => canIterate(fm, j)
      /\ \A j \in Filters : stoppedAll(fm', j) => stoppedAll(fm, j)
      /\ ~canIterate(fm', i)
  <2>1. fm.iter \in [Filters -> Iterations]
    BY <1>2 DEF ManagerType
  <2> QED BY <1>4, <1>6, <2>1 DEF canIterate, stoppedAll
<1>8. PauseInv(fm') /\ EndInv(fm') /\ Grows(fm, fm', h)
  BY <1>2, <1>6, <1>7 DEF PauseInv, EndInv, Grows
<1>9. Reach(fm', stack', h)
  BY <1>1, <1>2, <1>3, <1>6, <1>7, ReachKept
<1>10. ReleaseInv(fm', stack')
  <2>1. \A j \in Others : canIterate(fm', j) => canIterate(fm, j)
    BY <1>7, FiltersAssumption DEF Others, Filters
  <2> QED BY <1>1, <1>2, <1>5, <1>6, <2>1, ReleaseStep, ZenonT(30)
<1>11. \A j \in Filters : Letting(stack, j) => Passed(fm', stack', j)
  BY <1>1, <1>2 DEF Letting
<1>12. FrameInv(f, fm', stack', h)
  BY <1>4, <1>5 DEF FrameInv, Continuations
<1>13. TopInv(f, fm', h)
  BY <1>5, <1>7 DEF TopInv
<1>14. h <= h
  BY FiltersAssumption
<1> QED BY <1>1, <1>3, <1>5, <1>6, <1>8, <1>9, <1>10, <1>11, <1>12, <1>13, <1>14, StepCalls

-------------------------------------------------------------------------------
(* decodeHeaders.                                                          *)

\* One filter's end of stream is noted.
LEMMA EndStreamFields ==
    ASSUME NEW s \in ManagerType, NEW i \in Filters, NEW b \in BOOLEAN
    PROVE  LET t == [s EXCEPT !.endStream[i] = b]
           IN  /\ t \in ManagerType /\ t.iter = s.iter
               /\ t.endStream = [s.endStream EXCEPT ![i] = b]
               /\ t.fromCurrent = s.fromCurrent /\ t.headersContinued = s.headersContinued
               /\ t.remoteComplete = s.remoteComplete /\ t.trailers = s.trailers
               /\ t.inTrailers = s.inTrailers /\ t.localComplete = s.localComplete
               /\ t.aborted = s.aborted /\ t.streaming = s.streaming
               /\ t.exists = s.exists /\ t.buffer = s.buffer
               /\ t.above = s.above /\ t.paused = s.paused
<1> DEFINE m == [s.endStream EXCEPT ![i] = b]
           t == [s EXCEPT !.endStream = m]
<1>1. m \in [Filters -> BOOLEAN]
  BY DEF ManagerType
<1>2. [s EXCEPT !.endStream[i] = b] = t
  BY DEF ManagerType
<1> HIDE DEF m
<1>3. /\ t \in ManagerType /\ t.iter = s.iter /\ t.endStream = m
      /\ t.fromCurrent = s.fromCurrent /\ t.headersContinued = s.headersContinued
      /\ t.remoteComplete = s.remoteComplete /\ t.trailers = s.trailers
      /\ t.inTrailers = s.inTrailers /\ t.localComplete = s.localComplete
      /\ t.aborted = s.aborted /\ t.streaming = s.streaming
      /\ t.exists = s.exists /\ t.buffer = s.buffer
      /\ t.above = s.above /\ t.paused = s.paused
  BY <1>1 DEF ManagerType
<1> HIDE DEF t
<1> QED BY <1>2, <1>3 DEF m

\* What decodeHeaders notes about a filter.
Noted(s, i, v, b, e) ==
    [s EXCEPT !.iter[i] = v, !.headersContinued[i] = b, !.endStream[i] = e]

\* A filter's answer to the headers is noted.
LEMMA HeadersFields ==
    ASSUME NEW s \in ManagerType, NEW i \in Filters, NEW v \in Iterations,
           NEW b \in BOOLEAN, NEW e \in BOOLEAN
    PROVE  LET t == Noted(s, i, v, b, e)
           IN  /\ t \in ManagerType
               /\ t.iter = [s.iter EXCEPT ![i] = v]
               /\ t.headersContinued = [s.headersContinued EXCEPT ![i] = b]
               /\ t.endStream = [s.endStream EXCEPT ![i] = e]
               /\ t.remoteComplete = s.remoteComplete /\ t.trailers = s.trailers
               /\ t.localComplete = s.localComplete /\ t.aborted = s.aborted
               /\ t.exists = s.exists /\ t.buffer = s.buffer
               /\ t.above = s.above /\ t.paused = s.paused
               /\ t.inTrailers = s.inTrailers
<1> DEFINE t == Noted(s, i, v, b, e)
           u == [s EXCEPT !.iter[i] = v]
           w == [u EXCEPT !.headersContinued[i] = b]
           x == [w EXCEPT !.endStream[i] = e]
<1>0. t = x
  BY Zenon DEF Noted
<1>1. /\ u \in ManagerType /\ u.iter = [s.iter EXCEPT ![i] = v]
      /\ u.headersContinued = s.headersContinued /\ u.endStream = s.endStream
      /\ u.remoteComplete = s.remoteComplete /\ u.trailers = s.trailers
      /\ u.localComplete = s.localComplete /\ u.aborted = s.aborted
      /\ u.exists = s.exists /\ u.buffer = s.buffer
      /\ u.above = s.above /\ u.paused = s.paused /\ u.inTrailers = s.inTrailers
  BY IterFields
<1> HIDE DEF u, t
<1>2. /\ w \in ManagerType /\ w.iter = u.iter
      /\ w.headersContinued = [u.headersContinued EXCEPT ![i] = b]
      /\ w.endStream = u.endStream
      /\ w.remoteComplete = u.remoteComplete /\ w.trailers = u.trailers
      /\ w.localComplete = u.localComplete /\ w.aborted = u.aborted
      /\ w.exists = u.exists /\ w.buffer = u.buffer
      /\ w.above = u.above /\ w.paused = u.paused /\ w.inTrailers = u.inTrailers
  BY <1>1, HeadersContinuedFields
<1> HIDE DEF w
<1>3. /\ x \in ManagerType /\ x.iter = w.iter
      /\ x.endStream = [w.endStream EXCEPT ![i] = e]
      /\ x.headersContinued = w.headersContinued
      /\ x.remoteComplete = w.remoteComplete /\ x.trailers = w.trailers
      /\ x.localComplete = w.localComplete /\ x.aborted = w.aborted
      /\ x.exists = w.exists /\ x.buffer = w.buffer
      /\ x.above = w.above /\ x.paused = w.paused /\ x.inTrailers = w.inTrailers
  BY <1>2, EndStreamFields
<1> HIDE DEF x
<1> QED BY <1>0, <1>1, <1>2, <1>3 DEF t

\* What a filter does to the manager in its headers callback.
HeadersBack(i, a) ==
    Ended(IF a.adds THEN Buffered([fm EXCEPT !.streaming = FALSE], <<Body(i)>>, TRUE) ELSE fm,
          a.ending, TRUE)

\* What a filter may answer to headers.
LEMMA HeadersAnswerFacts ==
    ASSUME NEW i \in Filters, NEW end \in BOOLEAN, NEW a \in HeadersAnswers(i, end)
    PROVE  /\ a.ending \in EndingKinds /\ a.adds \in BOOLEAN
           /\ a.status \in {"Continue", "StopIteration", "StopAllIterationAndBuffer",
                            "StopAllIterationAndWatermark"}
           /\ i = N => a.status = "StopIteration" /\ a.adds = FALSE
           /\ a.ending = "encode" => a.status # "Continue"
           /\ a.adds => end
BY DEF HeadersAnswers, Endings, StopsIfEnded, EndingKinds

\* The manager when the headers callback is back.
LEMMA HeadersBackFacts ==
    ASSUME fm \in ManagerType, PauseInv(fm), ~fm.localComplete,
           NEW i \in Filters, NEW end \in BOOLEAN, NEW a \in HeadersAnswers(i, end)
    PROVE  LET t == HeadersBack(i, a)
           IN  /\ t \in ManagerType /\ SameIteration(fm, t) /\ PauseInv(t)
               /\ ~a.adds => (t.exists <=> fm.exists)
               /\ fm.exists => t.exists
               /\ t.buffer = IF a.adds THEN fm.buffer \o <<Body(i)>> ELSE fm.buffer
               /\ t.localComplete => t.aborted \/ a.status # "Continue"
<1> DEFINE s == [fm EXCEPT !.streaming = FALSE]
           added == IF a.adds THEN Buffered(s, <<Body(i)>>, TRUE) ELSE fm
           t == HeadersBack(i, a)
<1>1. /\ a.ending \in EndingKinds
      /\ a.ending = "encode" => a.status # "Continue"
      /\ a.adds \in BOOLEAN
  BY HeadersAnswerFacts
<1>2. /\ s \in ManagerType /\ SameIteration(fm, s) /\ PauseInv(s) /\ s.streaming = FALSE
      /\ s.localComplete = fm.localComplete /\ s.aborted = fm.aborted
      /\ s.buffer = fm.buffer /\ Lasts(fm, s)
  BY StreamingFields
<1>3. <<Body(i)>> \in Seq(Nat)
  BY FiltersAssumption DEF Body, Filters
<1> HIDE DEF s
<1>4. /\ added \in ManagerType /\ SameIteration(fm, added) /\ PauseInv(added)
      /\ (~a.adds => added = fm) /\ (fm.exists => added.exists)
      /\ added.buffer = IF a.adds THEN fm.buffer \o <<Body(i)>> ELSE fm.buffer
      /\ added.localComplete => added.aborted
  <2>1. CASE a.adds
    <3> DEFINE b == Buffered(s, <<Body(i)>>, TRUE)
    <3>1. /\ b \in ManagerType /\ SameIteration(s, b) /\ PauseInv(b)
          /\ b.localComplete => s.localComplete \/ b.aborted
          /\ b.buffer = s.buffer \o <<Body(i)>> /\ Lasts(s, b)
      BY <1>2, <1>3, BufferedFields
    <3>2. added = b
      BY <2>1
    <3> HIDE DEF b, added
    <3> QED BY <1>2, <2>1, <3>1, <3>2 DEF SameIteration, Lasts
  <2>2. CASE ~a.adds
    <3>1. added = fm
      BY <2>2
    <3> HIDE DEF added
    <3> QED BY <2>2, <3>1 DEF SameIteration
  <2> QED BY <2>1, <2>2
<1>5. t = Ended(added, a.ending, TRUE)
  BY DEF HeadersBack, s
<1> HIDE DEF added, t
<1>6. /\ t \in ManagerType /\ SameIteration(added, t) /\ Lasts(added, t) /\ PauseInv(t)
      /\ t.buffer = added.buffer /\ (t.exists <=> added.exists)
      /\ t.localComplete => added.localComplete \/ a.ending # "none"
      /\ a.ending = "sendLocalReply" => t.aborted
  <2> DEFINE b == TRUE
             e == a.ending
  <2>1. b \in BOOLEAN /\ b = TRUE /\ e = a.ending
    OBVIOUS
  <2> HIDE DEF b, e
  <2>2. e \in EndingKinds /\ t = Ended(added, e, b)
    BY <1>1, <1>5, <2>1
  <2> DEFINE d == Ended(added, e, b)
  <2>3. d \in ManagerType /\ SameIteration(added, d) /\ Lasts(added, d) /\ PauseInv(d)
    BY <1>4, <2>1, <2>2, EndedFields
  <2>4. d.buffer = added.buffer /\ (d.exists <=> added.exists)
    BY <1>4, <2>1, <2>2, EndedFields
  <2>5. d.localComplete => added.localComplete \/ e # "none"
    BY <1>4, <2>1, <2>2, EndedFields
  <2>6. e = "sendLocalReply" /\ b => d.aborted
    BY <1>4, <2>1, <2>2, EndedFields
  <2> HIDE DEF d
  <2> QED BY <2>1, <2>2, <2>3, <2>4, <2>5, <2>6 DEF d
<1>7. SameIteration(fm, t)
  BY <1>4, <1>6 DEF SameIteration
<1> QED BY <1>1, <1>4, <1>6, <1>7 DEF t, Lasts, EndingKinds

\* The end of a headers iteration.
LEMMA MaybeContinueCall ==
    ASSUME ControlInv, NEW h \in 0 .. N, StackInv(fm, stack, h),
           StartInv(codec, fm, stack, h), stack # <<>>, stack \in Seq(FrameType),
           codec' = codec, contended' \in BOOLEAN,
           stack[1].op = "decodeHeaders",
           NEW m \in 0 .. N, Calls(maybeContinueDecodingCall(m)),
           NEW g \in 0 .. N, h <= g, g > 0,
           m # 0 => m \in Others /\ m <= g /\ fm'.exists,
           fm' \in ManagerType, Grows(fm, fm', h), PauseInv(fm'), EndInv(fm'),
           fm'.buffer # <<>> /\ ~fm'.localComplete /\ ~fm'.remoteComplete =>
               fm.buffer # <<>> /\ ~fm.localComplete /\ ~fm.remoteComplete,
           \A i \in Others : canIterate(fm', i) => canIterate(fm, i),
           Reach(fm', stack', g)
    PROVE  ControlInv'
<1>1. \A i \in Filters : Letting(stack, i) => Passed(fm', stack', i)
  BY DEF Letting
<1>2. fm \in ManagerType /\ ReleaseInv(fm, stack) /\ N \in Nat
  BY FiltersAssumption DEF ControlInv, Types
<1>3. CASE m = 0
  <2>1. Returns
    BY <1>3 DEF maybeContinueDecodingCall, Returns
  <2>2. stack[1] \in FrameType
    OBVIOUS
  <2>3. ReleaseInv(fm', stack')
    BY <1>2, <2>1, <2>2, ReleaseStep
  <2> QED BY <1>1, <2>1, <2>3, StepReturns
<1>4. CASE m # 0
  <2> DEFINE f == Frame("maybeContinueDecoding", m)
  <2>1. Calls(<<f>>)
    BY <1>4 DEF maybeContinueDecodingCall
  <2>2. /\ f \in FrameType /\ f.op = "maybeContinueDecoding" /\ f.at = m
        /\ f.end = FALSE /\ f.mark = 0
    <3>1. m \in 1 .. (N + 1) /\ "maybeContinueDecoding" \in Ops
      BY <1>2, <1>4 DEF Ops, Continuations
    <3> QED BY <3>1, FrameFields
  <2> HIDE DEF f
  <2>3. ReleaseInv(fm', stack')
    BY <1>2, <2>1, <2>2, ReleaseStep
  <2>4. FrameInv(f, fm', stack', g)
    BY <1>4, <2>2 DEF FrameInv, Continuations
  <2>5. TopInv(f, fm', g)
    BY <1>4, <2>2 DEF TopInv
  <2> QED BY <1>1, <2>1, <2>2, <2>3, <2>4, <2>5, StepCalls
<1> QED BY <1>3, <1>4

\* The frame of the iteration at the next filter.
HeadersGoOn(f, s) ==
    [f EXCEPT !.at = f.at + 1,
              !.mark = IF f.end /\ s.exists /\ f.mark = 0 THEN f.at ELSE f.mark]

\* decodeHeaders keeps the invariant.
LEMMA decodeHeadersControl == ControlInv /\ decodeHeaders => ControlInv'
<1> SUFFICES ASSUME ControlInv, decodeHeaders PROVE ControlInv'
  OBVIOUS
<1> DEFINE i == top.at
<1>1. stack # <<>> /\ top.op = "decodeHeaders" /\ codec' = codec
  BY DEF decodeHeaders, Runs
<1>2. /\ top = stack[1] /\ top \in FrameType /\ stack \in Seq(FrameType)
      /\ fm \in ManagerType /\ PauseInv(fm) /\ EndInv(fm) /\ ReleaseInv(fm, stack)
      /\ N \in Nat /\ N > 0
  BY <1>1, TopFacts
<1>3. PICK h \in 0 .. N :
        /\ Reach(fm, stack, h) /\ StackInv(fm, stack, h)
        /\ StartInv(codec, fm, stack, h) /\ FrameInv(top, fm, stack, h)
        /\ TopInv(top, fm, h)
  BY <1>1, TopFacts
<1>4. /\ i = h + 1 /\ i \in 1 .. (N + 1) /\ top.mark \in 0 .. N /\ top.end \in BOOLEAN
      /\ top.mark # 0 => top.mark \in Others /\ top.mark <= h /\ fm.exists
  BY <1>1, <1>2, <1>3 DEF TopInv, FrameInv, FrameType
<1>5. contended \in BOOLEAN
  BY DEF ControlInv, Types
<1>6. CASE i > N
  <2>1. Calls(maybeContinueDecodingCall(top.mark)) /\ fm' = fm /\ contended' \in BOOLEAN
    BY <1>5, <1>6 DEF decodeHeaders
  <2>2. h = N
    BY <1>2, <1>4, <1>6
  <2>3. Reach(fm', stack', h)
    <3>1. \A j \in Filters : ~(j = h /\ ~fm.headersContinued[j] /\ canIterate(fm, j))
      BY <1>1, <1>2, <1>3 DEF Reach
    <3> QED BY <1>3, <2>1, <2>2, <3>1 DEF Reach
  <2>4. PauseInv(fm') /\ EndInv(fm') /\ Grows(fm, fm', h) /\ fm' \in ManagerType
    BY <1>2, <2>1 DEF Grows
  <2>5. h <= h /\ h > 0
    BY <1>2, <2>2
  <2> QED BY <1>1, <1>2, <1>3, <1>4, <2>1, <2>3, <2>4, <2>5, MaybeContinueCall
<1>7. CASE ~(i > N)
  <2> DEFINE end == top.end /\ top.mark = 0
  <2>1. i \in Filters /\ end \in BOOLEAN /\ i \in 0 .. N /\ h <= i /\ i > 0 /\ i # N + 1
    BY <1>2, <1>4, <1>7 DEF Filters
  <2>2. ~fm.localComplete
    BY <1>1, <1>3, <2>1 DEF TopInv
  <2>3. PICK a \in HeadersAnswers(i, end) :
          LET back == HeadersBack(i, a)
              status == StatusIfAborted(back, a.status)
          IN  /\ HoldsBack(i, status # "Continue")
              /\ fm' = Noted(back, i, IterationAfter(back.iter[i], status),
                             status = "Continue", end)
              /\ Calls(IF i # N /\ (back.localComplete \/ status # "Continue")
                       THEN maybeContinueDecodingCall(top.mark)
                       ELSE <<HeadersGoOn(top, back)>>)
    BY <1>7, Zenon DEF decodeHeaders, HeadersBack, Noted, HeadersGoOn
  <2> DEFINE back == HeadersBack(i, a)
             status == StatusIfAborted(back, a.status)
             v == IterationAfter(back.iter[i], status)
             b == status = "Continue"
  <2> HIDE DEF end
  <2>4. /\ a.ending \in EndingKinds /\ a.adds \in BOOLEAN
        /\ a.status \in {"Continue", "StopIteration", "StopAllIterationAndBuffer",
                         "StopAllIterationAndWatermark"}
        /\ i = N => a.status = "StopIteration" /\ a.adds = FALSE
    BY <2>1, HeadersAnswerFacts
  <2>5. /\ back \in ManagerType /\ SameIteration(fm, back) /\ PauseInv(back)
        /\ ~a.adds => (back.exists <=> fm.exists)
        /\ fm.exists => back.exists
        /\ back.buffer = IF a.adds THEN fm.buffer \o <<Body(i)>> ELSE fm.buffer
        /\ back.localComplete => back.aborted \/ a.status # "Continue"
    BY <1>2, <2>1, <2>2, HeadersBackFacts
  <2> HIDE DEF back
  <2>5a. i > h /\ \A j \in Filters : j # i => (j > h => j > i) /\ (j < i => j <= h)
    BY <1>2, <1>4, <2>1 DEF Filters
  <2>5b. canIterate(fm, i) /\ ~fm.headersContinued[i] /\ back.iter[i] = "Continue"
    BY <1>3, <2>1, <2>5, <2>5a DEF Reach, canIterate, SameIteration
  <2>6. /\ status \in {"Continue", "StopIteration", "StopAllIterationAndBuffer",
                       "StopAllIterationAndWatermark"}
        /\ back.localComplete => status # "Continue"
        /\ i = N => status = "StopIteration"
    BY <2>4, <2>5 DEF StatusIfAborted
  <2> HIDE DEF status
  <2>7. /\ v \in Iterations /\ (v = "Continue" <=> b)
        /\ i = N => v = "StopSingleIteration"
        /\ b \in BOOLEAN
    BY <2>5b, <2>6 DEF IterationAfter, Iterations
  <2>8. /\ HoldsBack(i, ~b)
        /\ fm' = Noted(back, i, v, b, end)
        /\ Calls(IF i # N /\ (back.localComplete \/ ~b)
                 THEN maybeContinueDecodingCall(top.mark)
                 ELSE <<HeadersGoOn(top, back)>>)
    BY <2>3 DEF back, status
  <2>9. back.localComplete => ~b
    BY <2>6
  <2> HIDE DEF v, b
  <2>10. /\ fm' \in ManagerType
         /\ fm'.iter = [back.iter EXCEPT ![i] = v]
         /\ fm'.headersContinued = [back.headersContinued EXCEPT ![i] = b]
         /\ fm'.endStream = [back.endStream EXCEPT ![i] = end]
         /\ fm'.remoteComplete = back.remoteComplete /\ fm'.trailers = back.trailers
         /\ fm'.localComplete = back.localComplete /\ fm'.aborted = back.aborted
         /\ fm'.exists = back.exists /\ fm'.buffer = back.buffer
         /\ fm'.above = back.above /\ fm'.paused = back.paused
    BY <2>1, <2>5, <2>7, <2>8, HeadersFields
  <2>11. /\ fm.iter \in [Filters -> Iterations]
         /\ fm.headersContinued \in [Filters -> BOOLEAN]
         /\ fm.endStream \in [Filters -> BOOLEAN]
    BY <1>2 DEF ManagerType
  <2>12. /\ fm'.iter[i] = v /\ fm'.headersContinued[i] = b /\ fm'.endStream[i] = end
         /\ \A j \in Filters : j # i =>
              /\ fm'.iter[j] = fm.iter[j]
              /\ fm'.headersContinued[j] = fm.headersContinued[j]
              /\ fm'.endStream[j] = fm.endStream[j]
         /\ fm'.remoteComplete = fm.remoteComplete /\ fm'.trailers = fm.trailers
    BY <2>1, <2>5, <2>10, <2>11 DEF SameIteration
  <2>13. contended' \in BOOLEAN
    BY <1>5, <2>8 DEF HoldsBack
  <2>14. PauseInv(fm')
    BY <2>5, <2>10 DEF PauseInv
  <2>15. EndInv(fm')
    <3>1. end => fm.remoteComplete
      BY <1>3 DEF FrameInv, end
    <3> QED BY <1>2, <2>12, <3>1 DEF EndInv
  <2>17. canIterate(fm, i) /\ ~fm.headersContinued[i]
    BY <2>5b
  <2>18. Grows(fm, fm', h)
    <3>1. \A j \in Filters : j <= h => j # i
      BY <1>2, <1>4 DEF Filters
    <3> QED BY <2>2, <2>12, <2>17, <3>1 DEF Grows, stoppedAll
  <2>19. /\ fm'.buffer # <<>> /\ ~fm'.localComplete /\ ~fm'.remoteComplete =>
                fm.buffer # <<>> /\ ~fm.localComplete /\ ~fm.remoteComplete
         /\ \A j \in Others : canIterate(fm', j) => canIterate(fm, j)
    <3>1. \A j \in Others : j \in Filters
      BY <1>2 DEF Others, Filters
    <3>2. a.adds => fm.remoteComplete
      <4>1. a.adds => end
        BY <2>1, HeadersAnswerFacts
      <4> QED BY <1>3, <4>1 DEF FrameInv, end
    <3>3. fm'.buffer # <<>> /\ ~fm'.localComplete /\ ~fm'.remoteComplete =>
              fm.buffer # <<>> /\ ~fm.localComplete /\ ~fm.remoteComplete
      BY <2>2, <2>5, <2>10, <2>12, <3>2
    <3>4. \A j \in Others : canIterate(fm', j) => canIterate(fm, j)
      BY <2>12, <2>17, <3>1 DEF canIterate
    <3> QED BY <3>3, <3>4
  <2>20. ASSUME b /\ i # N => stack' # <<>> /\ stack'[1].op = "decodeHeaders"
         PROVE  Reach(fm', stack', i)
    <3>1. ~stoppedAll(fm', N)
      <4>1. CASE i = N
        BY <2>7, <2>12, <4>1 DEF stoppedAll
      <4>2. CASE i # N
        BY <1>2, <1>3, <2>12, <4>2 DEF Reach, stoppedAll, Filters
      <4> QED BY <4>1, <4>2
    <3>2. ASSUME NEW j \in Filters
          PROVE  /\ j > i => canIterate(fm', j) /\ ~fm'.headersContinued[j]
                 /\ j < i => fm'.headersContinued[j]
      <4>1. CASE j > i
        <5>1. j # i /\ j > h
          BY <1>2, <1>4, <4>1 DEF Filters
        <5> QED BY <1>2, <1>3, <1>4, <2>12, <4>1, <5>1 DEF Reach, canIterate, Filters
      <4>2. CASE j < i
        <5>1. j # i
          BY <1>2, <1>4, <4>2 DEF Filters
        <5>2. fm.headersContinued[j]
          BY <1>1, <1>3, <2>1, <4>2 DEF TopInv
        <5> QED BY <1>2, <1>4, <2>12, <4>2, <5>1, <5>2 DEF Filters
      <4>3. CASE j = i
        BY <1>2, <1>4, <4>3
      <4> QED BY <1>2, <1>4, <4>1, <4>2, <4>3 DEF Filters
    <3>3. ~fm'.headersContinued[i] => ~canIterate(fm', i)
      BY <2>7, <2>12 DEF canIterate
    <3> QED BY <2>12, <2>20, <3>1, <3>2, <3>3 DEF Reach
  <2>21. CASE i # N /\ (back.localComplete \/ ~b)
    <3>1. Calls(maybeContinueDecodingCall(top.mark)) /\ ~b
      BY <2>8, <2>9, <2>21
    <3>2. Reach(fm', stack', i)
      BY <2>20, <3>1
    <3>3. top.mark # 0 => top.mark \in Others /\ top.mark <= i /\ fm'.exists
      BY <1>2, <1>4, <2>5, <2>10 DEF Others
    <3> QED BY <1>1, <1>2, <1>3, <1>4, <2>1, <2>10, <2>13, <2>14, <2>15, <2>18, <2>19, <3>1,
               <3>2, <3>3, MaybeContinueCall
  <2>22. CASE ~(i # N /\ (back.localComplete \/ ~b))
    <3> DEFINE m == IF top.end /\ back.exists /\ top.mark = 0 THEN i ELSE top.mark
               f == [top EXCEPT !.at = i + 1, !.mark = m]
    <3>1. Calls(<<f>>)
      <4>1. HeadersGoOn(top, back) = f
        BY Zenon DEF HeadersGoOn
      <4> HIDE DEF f
      <4> QED BY <2>8, <2>22, <4>1
    <3>2. m \in 0 .. N /\ i + 1 \in 1 .. (N + 1)
      BY <1>2, <1>4, <2>1
    <3>3. m # 0 => m \in Others /\ m <= i
      <4>1. CASE m = i
        <5>1. i = N => m = top.mark
          BY <1>1, <1>3, <2>4, <2>5 DEF TopInv
        <5>2. i # N
          BY <1>2, <1>4, <4>1, <5>1 DEF Others
        <5> QED BY <1>2, <2>1, <4>1, <5>2 DEF Others
      <4>2. CASE m = top.mark
        BY <1>2, <1>4, <4>2 DEF Others
      <4> QED BY <4>1, <4>2
    <3>4. /\ m = 0 /\ top.end => ~back.exists /\ top.mark = 0
          /\ m # 0 => back.exists
      BY <1>2, <1>4, <2>1, <2>5
    <3> HIDE DEF m
    <3>5. /\ f \in FrameType /\ f.op = "decodeHeaders" /\ f.at = i + 1 /\ f.mark = m
          /\ f.end = top.end
      BY <1>1, <1>2, <3>2 DEF FrameType
    <3> HIDE DEF f
    <3>6. stack' # <<>> /\ stack'[1] = f
      BY <1>1, <1>2, <3>1, <3>5, CallOnTop
    <3>7. Reach(fm', stack', i)
      BY <2>20, <3>5, <3>6
    <3>8. ReleaseInv(fm', stack')
      BY <1>1, <1>2, <2>10, <2>19, <3>1, <3>5, ReleaseStep
    <3>9. \A j \in Filters : Letting(stack, j) => Passed(fm', stack', j)
      BY <1>1, <1>2 DEF Letting
    <3>10. FrameInv(f, fm', stack', i)
      <4>1. f.end => fm'.remoteComplete
        BY <1>3, <2>12, <3>5 DEF FrameInv
      <4> QED BY <3>3, <3>5, <4>1 DEF FrameInv, Continuations
    <3>11. TopInv(f, fm', i)
      <4>1. f.at # N + 1 => b /\ ~fm'.localComplete
        BY <1>2, <2>9, <2>10, <2>22, <3>5
      <4>2. ASSUME f.at # N + 1, NEW j \in Filters, j < f.at PROVE fm'.headersContinued[j]
        <5>1. CASE j = i
          BY <2>12, <4>1, <4>2, <5>1
        <5>2. CASE j # i
          <6>1. j < i
            BY <1>2, <1>4, <3>5, <4>2, <5>2 DEF Filters
          <6>2. fm.headersContinued[j]
            BY <1>1, <1>3, <2>1, <6>1 DEF TopInv
          <6> QED BY <2>12, <5>2, <6>2
        <5> QED BY <5>1, <5>2
      <4>3. (f.end /\ f.mark = 0 => ~fm'.exists) /\ (f.mark # 0 => fm'.exists)
        BY <2>10, <3>4, <3>5
      <4> QED BY <3>5, <4>1, <4>2, <4>3 DEF TopInv
    <3> QED BY <1>1, <1>3, <2>1, <2>10, <2>13, <2>14, <2>15, <2>18, <3>1, <3>5, <3>7, <3>8,
               <3>9, <3>10, <3>11, StepCalls
  <2> QED BY <2>21, <2>22
<1> QED BY <1>6, <1>7

-------------------------------------------------------------------------------
(* decodeData.                                                             *)

\* A stack of two frames.
LEMMA TwoFrames ==
    ASSUME NEW f \in FrameType, NEW e \in FrameType
    PROVE  /\ <<f, e>> \in Seq(FrameType) /\ <<f, e>> # <<>>
           /\ Len(<<f, e>>) = 2 /\ <<f, e>>[1] = f /\ <<f, e>>[2] = e
OBVIOUS

\* The function on top calls f, and then e.
LEMMA StepCallsTwo ==
    ASSUME ControlInv, NEW h \in 0 .. N, StackInv(fm, stack, h),
           StartInv(codec, fm, stack, h), stack # <<>>,
           codec' = codec, contended' \in BOOLEAN,
           NEW f \in FrameType, NEW e \in FrameType, Calls(<<f, e>>),
           NEW g \in 0 .. N, h <= g, g > 0,
           fm' \in ManagerType, Grows(fm, fm', h), PauseInv(fm'), EndInv(fm'),
           ReleaseInv(fm', stack'), Reach(fm', stack', g),
           \A i \in Filters : Letting(stack, i) => Passed(fm', stack', i),
           FrameInv(f, fm', stack', g), TopInv(f, fm', g),
           FrameInv(e, fm', stack', g), Waits(e)
    PROVE  ControlInv'
<1> DEFINE fs == <<f, e>>
<1>1. fs \in Seq(FrameType) /\ Len(fs) = 2 /\ fs[1] = f /\ fs[2] = e
  BY TwoFrames
<1>2. stack' = fs \o Tail(stack)
  BY DEF Calls
<1> HIDE DEF fs
<1>3. ASSUME NEW k \in 1 .. Len(fs) PROVE FrameInv(fs[k], fm', stack', g)
  <2>1. k = 1 \/ k = 2
    BY <1>1
  <2> QED BY <1>1, <2>1
<1>4. ASSUME NEW k \in 2 .. Len(fs) PROVE Waits(fs[k])
  <2>1. k = 2
    BY <1>1
  <2> QED BY <1>1, <2>1
<1> QED BY <1>1, <1>2, <1>3, <1>4, StepControl

\* Of two called functions the first is the innermost.
LEMMA CallTwoOnTop ==
    ASSUME stack \in Seq(FrameType), stack # <<>>, NEW f \in FrameType, NEW e \in FrameType,
           Calls(<<f, e>>)
    PROVE  stack' # <<>> /\ stack'[1] = f
<1> DEFINE fs == <<f, e>>
<1>1. fs \in Seq(FrameType) /\ Len(fs) = 2 /\ fs[1] = f /\ 1 \in 1 .. Len(fs)
  BY TwoFrames
<1>2. stack' = fs \o Tail(stack)
  BY DEF Calls
<1> HIDE DEF fs
<1>3. /\ Len(stack') = Len(fs) + Len(stack) - 1 /\ stack'[1] = fs[1]
      /\ stack' \in Seq(FrameType)
  BY <1>1, <1>2, CalledFrames
<1>4. Len(stack) \in Nat /\ Len(stack) > 0
  OBVIOUS
<1>5. stack' # <<>>
  BY <1>1, <1>3, <1>4
<1> QED BY <1>1, <1>3, <1>5

\* What a filter may answer to data.
LEMMA DataAnswerFacts ==
    ASSUME NEW i \in Filters, NEW f \in FrameType, NEW a \in DataAnswers(i, f)
    PROVE  /\ a.ending \in EndingKinds /\ a.trailers \in BOOLEAN
           /\ a.status \in DataStatuses
           /\ i = N => a.status = "StopIterationNoBuffer" /\ a.trailers = FALSE
           /\ a.ending = "encode" => a.status # "Continue"
           /\ a.trailers => f.end
           /\ Cautious => ~Mishandled(i, f, a)
           /\ Cautious /\ a.trailers => a.status = "Continue"
<1>1. /\ a.ending \in EndingKinds /\ a.trailers \in BOOLEAN
      /\ a.status \in DataStatuses
      /\ i = N => a.status = "StopIterationNoBuffer" /\ a.trailers = FALSE
      /\ a.ending = "encode" => a.status # "Continue"
      /\ a.trailers => f.end
      /\ Cautious => ~Mishandled(i, f, a)
  BY DEF DataAnswers, Endings, StopsIfEnded, EndingKinds, DataStatuses
<1>2. Cautious /\ a.trailers => a.status = "Continue"
  BY <1>1 DEF Mishandled
<1> QED BY <1>1, <1>2

\* What decodeData notes before the callback's answer is looked at.
DataNoted(s, i, end, more) == [s EXCEPT !.endStream[i] = end, !.trailers = @ \/ more]

\* The end of stream and the trailers that a data callback leaves.
LEMMA DataNotedFields ==
    ASSUME NEW s \in ManagerType, NEW i \in Filters, NEW end \in BOOLEAN, NEW more \in BOOLEAN,
           PauseInv(s), EndInv(s), end \/ more => s.remoteComplete
    PROVE  LET t == DataNoted(s, i, end, more)
           IN  /\ t \in ManagerType /\ PauseInv(t) /\ EndInv(t)
               /\ t.iter = s.iter /\ t.headersContinued = s.headersContinued
               /\ t.fromCurrent = s.fromCurrent
               /\ (t.remoteComplete <=> s.remoteComplete)
               /\ (t.inTrailers <=> s.inTrailers)
               /\ (t.trailers <=> s.trailers \/ more)
               /\ (t.localComplete <=> s.localComplete) /\ (t.above <=> s.above)
               /\ (t.aborted <=> s.aborted) /\ t.buffer = s.buffer
               /\ t.paused = s.paused /\ (t.exists <=> s.exists)
<1> DEFINE t == DataNoted(s, i, end, more)
           u == [s EXCEPT !.endStream[i] = end]
           b == u.trailers \/ more
           x == [u EXCEPT !.trailers = b]
<1>0. t = x
  BY Zenon DEF DataNoted
<1>1. /\ u \in ManagerType /\ u.iter = s.iter
      /\ u.endStream = [s.endStream EXCEPT ![i] = end]
      /\ u.fromCurrent = s.fromCurrent
      /\ u.headersContinued = s.headersContinued
      /\ u.remoteComplete = s.remoteComplete /\ u.trailers = s.trailers
      /\ u.inTrailers = s.inTrailers /\ u.localComplete = s.localComplete
      /\ u.aborted = s.aborted /\ u.exists = s.exists /\ u.buffer = s.buffer
      /\ u.above = s.above /\ u.paused = s.paused
  BY EndStreamFields
<1>2. b \in BOOLEAN /\ b = (s.trailers \/ more)
  BY <1>1 DEF ManagerType
<1> HIDE DEF u, b, t
<1>3. /\ x \in ManagerType /\ x.iter = u.iter /\ x.endStream = u.endStream
      /\ x.headersContinued = u.headersContinued /\ x.fromCurrent = u.fromCurrent
      /\ x.remoteComplete = u.remoteComplete /\ x.trailers = b
      /\ x.inTrailers = u.inTrailers /\ x.localComplete = u.localComplete
      /\ x.aborted = u.aborted /\ x.exists = u.exists /\ x.buffer = u.buffer
      /\ x.above = u.above /\ x.paused = u.paused
  BY <1>1, <1>2 DEF ManagerType
<1> HIDE DEF x
<1>4. PauseInv(x)
  BY <1>1, <1>3 DEF PauseInv
<1>5. EndInv(x)
  <2>1. s.endStream \in [Filters -> BOOLEAN]
    BY DEF ManagerType
  <2>2. ASSUME NEW j \in Filters, x.endStream[j] PROVE x.remoteComplete
    <3>1. CASE j = i
      BY <1>1, <1>3, <2>1, <2>2, <3>1
    <3>2. CASE j # i
      BY <1>1, <1>3, <2>1, <2>2, <3>2 DEF EndInv
    <3> QED BY <3>1, <3>2
  <2>3. x.trailers => x.remoteComplete
    BY <1>1, <1>2, <1>3 DEF EndInv
  <2> QED BY <2>2, <2>3 DEF EndInv
<1> QED BY <1>0, <1>1, <1>2, <1>3, <1>4, <1>5 DEF t

DataBack(i, end, a) == Ended(DataNoted(fm, i, end, a.trailers), a.ending, TRUE)

\* The manager when the data callback is back.
LEMMA DataBackFacts ==
    ASSUME fm \in ManagerType, PauseInv(fm), EndInv(fm), ~fm.localComplete,
           NEW i \in Filters, NEW f \in FrameType, NEW a \in DataAnswers(i, f),
           NEW end \in BOOLEAN, end => f.end, f.end => fm.remoteComplete
    PROVE  LET t == DataBack(i, end, a)
           IN  /\ t \in ManagerType /\ PauseInv(t) /\ EndInv(t)
               /\ t.iter = fm.iter /\ t.headersContinued = fm.headersContinued
               /\ (t.remoteComplete <=> fm.remoteComplete)
               /\ (t.trailers <=> fm.trailers \/ a.trailers)
               /\ (t.inTrailers <=> fm.inTrailers)
               /\ t.buffer = fm.buffer /\ (t.above => t.paused = 1)
               /\ (t.exists <=> fm.exists)
               /\ t.localComplete => t.aborted \/ a.status # "Continue"
               /\ t.localComplete => t.aborted \/ a.ending = "encode"
<1> DEFINE more == a.trailers
           e == a.ending
           b == TRUE
           s == DataNoted(fm, i, end, more)
           t == Ended(s, e, b)
<1>1. /\ e \in EndingKinds /\ more \in BOOLEAN /\ b \in BOOLEAN /\ b = TRUE
      /\ a.ending = "encode" => a.status # "Continue"
      /\ more => f.end
  BY DataAnswerFacts
<1>2. DataBack(i, end, a) = t
  BY DEF DataBack
<1>3. e = a.ending /\ more = a.trailers
  OBVIOUS
<1> HIDE DEF more, e, b
<1>4. /\ s \in ManagerType /\ PauseInv(s) /\ EndInv(s)
      /\ s.iter = fm.iter /\ s.headersContinued = fm.headersContinued
      /\ (s.remoteComplete <=> fm.remoteComplete)
      /\ (s.inTrailers <=> fm.inTrailers)
      /\ (s.trailers <=> fm.trailers \/ more)
      /\ (s.localComplete <=> fm.localComplete) /\ (s.above <=> fm.above)
      /\ s.paused = fm.paused /\ s.buffer = fm.buffer /\ (s.exists <=> fm.exists)
  BY <1>1, DataNotedFields
<1> HIDE DEF s
<1>5. t \in ManagerType /\ SameIteration(s, t) /\ PauseInv(t) /\ SamePause(s, t)
  BY <1>1, <1>4, EndedFields
<1>6. (t.above <=> s.above) /\ t.buffer = s.buffer /\ (t.exists <=> s.exists)
  <2>1. t.above <=> s.above
    BY <1>1, <1>4, EndedFields
  <2>3. t.exists <=> s.exists
    BY <1>1, <1>4, EndedFields
  <2>2. t.buffer = s.buffer
    <3>1. s \in ManagerType /\ PauseInv(s) /\ e \in EndingKinds /\ b \in BOOLEAN
      BY <1>1, <1>4
    <3> QED BY ONLY <3>1, EndedFields
  <2> QED BY <2>1, <2>2, <2>3
<1>7. t.localComplete => s.localComplete \/ e # "none"
  BY <1>1, <1>4, EndedFields
<1>8. e = "sendLocalReply" /\ b => t.aborted
  BY <1>1, <1>4, EndedFields
<1> HIDE DEF t
<1>9. EndInv(t)
  BY <1>4, <1>5 DEF EndInv, SameIteration
<1>10. t.above => t.paused = 1
  BY <1>4, <1>5, <1>6 DEF PauseInv, SamePause
<1>11. t.localComplete => t.aborted \/ a.ending = "encode"
  BY <1>1, <1>3, <1>4, <1>7, <1>8 DEF EndingKinds
<1>12. /\ t.iter = fm.iter /\ t.headersContinued = fm.headersContinued
       /\ (t.remoteComplete <=> fm.remoteComplete)
       /\ (t.trailers <=> fm.trailers \/ a.trailers)
       /\ (t.inTrailers <=> fm.inTrailers)
  BY <1>3, <1>4, <1>5 DEF SameIteration
<1> QED BY <1>1, <1>2, <1>4, <1>5, <1>6, <1>9, <1>10, <1>11, <1>12

\* The frame of decodeData behind the callback.
DataNext(f, i, a) ==
    IF a.trailers /\ f.mark = 0 THEN [f EXCEPT !.end = FALSE, !.mark = i] ELSE f

\* The frame that carries on with the data.
LEMMA DataNextFields ==
    ASSUME NEW f \in FrameType, NEW i \in Filters, NEW a, a.trailers \in BOOLEAN,
           NEW p \in 1 .. (N + 1)
    PROVE  LET e == [DataNext(f, i, a) EXCEPT !.at = p]
           IN  /\ e \in FrameType /\ e.op = f.op /\ e.at = p /\ (e.buffered <=> f.buffered)
               /\ e.data = f.data
               /\ e.end => f.end
               /\ ~a.trailers => (e.end <=> f.end)
               /\ e.mark = IF a.trailers /\ f.mark = 0 THEN i ELSE f.mark
<1> DEFINE n == DataNext(f, i, a)
           e == [n EXCEPT !.at = p]
<1>1. /\ n \in FrameType /\ n.op = f.op /\ n.buffered = f.buffered
      /\ n.data = f.data
      /\ n.end => f.end
      /\ ~a.trailers => n.end = f.end
      /\ n.mark = IF a.trailers /\ f.mark = 0 THEN i ELSE f.mark
  <2>1. CASE a.trailers /\ f.mark = 0
    <3> DEFINE d == [f EXCEPT !.end = FALSE, !.mark = i]
    <3>1. i \in 0 .. N
      BY FiltersAssumption DEF Filters
    <3>2. /\ d \in FrameType /\ d.op = f.op /\ d.buffered = f.buffered
          /\ d.data = f.data
          /\ d.end = FALSE /\ d.mark = i
      BY <3>1 DEF FrameType
    <3>3. n = d
      BY <2>1 DEF DataNext
    <3> HIDE DEF n, d
    <3> QED BY <2>1, <3>2, <3>3
  <2>2. CASE ~(a.trailers /\ f.mark = 0)
    BY <2>2 DEF DataNext
  <2> QED BY <2>1, <2>2
<1> HIDE DEF n
<1>2. /\ e \in FrameType /\ e.op = n.op /\ e.at = p /\ e.buffered = n.buffered
      /\ e.data = n.data
      /\ e.end = n.end /\ e.mark = n.mark
  BY <1>1 DEF FrameType
<1> HIDE DEF e
<1>3. e.mark = IF a.trailers /\ f.mark = 0 THEN i ELSE f.mark
  BY <1>1, <1>2
<1>4. /\ e \in FrameType /\ e.op = f.op /\ e.at = p /\ (e.buffered <=> f.buffered)
      /\ e.end => f.end
      /\ ~a.trailers => (e.end <=> f.end)
  BY <1>1, <1>2
<1>5. e.data = f.data
  BY <1>1, <1>2
<1> QED BY <1>3, <1>4, <1>5 DEF e, n

\* decodeData at the end of the loop.
LEMMA decodeDataBehind ==
    ASSUME ControlInv, decodeData, top.at > N PROVE ControlInv'
<1>1. /\ stack # <<>> /\ top.op = "decodeData" /\ codec' = codec /\ contended' \in BOOLEAN
      /\ fm' = fm
      /\ Calls(IF top.mark # 0 THEN decodeTrailersCall(commonDecodePrefix(top.mark))
               ELSE <<>>)
  BY DEF decodeData, Runs, ControlInv, Types
<1>2. /\ top = stack[1] /\ top \in FrameType /\ stack \in Seq(FrameType)
      /\ fm \in ManagerType /\ PauseInv(fm) /\ EndInv(fm) /\ ReleaseInv(fm, stack)
      /\ N \in Nat /\ N > 0
  BY <1>1, TopFacts
<1>3. PICK h \in 0 .. N :
        /\ Reach(fm, stack, h) /\ StackInv(fm, stack, h)
        /\ StartInv(codec, fm, stack, h) /\ FrameInv(top, fm, stack, h) /\ h > 0
  BY <1>1, TopFacts
<1>4. top.at = N + 1
  BY <1>2 DEF FrameType
<1>5. CASE top.mark = 0 \/ fm.localComplete
  <2>1. Returns
    BY <1>1, <1>5 DEF decodeTrailersCall, Returns
  <2>2. ReleaseInv(fm', stack')
    BY <1>1, <1>2, <1>4, <2>1, ReleaseStep
  <2> QED BY <1>1, <2>1, <2>2, JustReturns
<1>6. CASE top.mark # 0 /\ ~fm.localComplete
  <2> DEFINE m == top.mark
             p == commonDecodePrefix(m)
             f == Frame("decodeTrailers", p)
  <2>1. m \in Others /\ m <= h /\ Passed(fm, stack, m) /\ fm.trailers
    BY <1>1, <1>3, <1>6 DEF FrameInv
  <2>2. p \in 1 .. (N + 1) /\ p # N + 1 /\ p <= h
    BY <1>1, <1>2, <1>3, <1>6, <2>1, PrefixFacts
  <2> HIDE DEF p
  <2>3. Calls(<<f>>)
    BY <1>1, <1>6 DEF decodeTrailersCall, p
  <2>4. /\ f \in FrameType /\ f.op = "decodeTrailers" /\ f.at = p /\ f.end = FALSE
        /\ f.mark = 0
    BY <2>2, FrameFields DEF Ops
  <2> HIDE DEF f
  <2>6. ReleaseInv(fm', stack')
    BY <1>1, <1>2, <1>4, <2>3, <2>4, ReleaseStep
  <2>7. Reach(fm', stack', h)
    BY <1>1, <1>2, <1>3, ReachKept
  <2>8. \A j \in Filters : Letting(stack, j) => Passed(fm', stack', j)
    BY <1>1, <1>2 DEF Letting
  <2>9. FrameInv(f, fm', stack', h)
    BY <1>1, <1>2, <2>1, <2>2, <2>4 DEF FrameInv, Continuations, EndInv
  <2>10. TopInv(f, fm', h)
    BY <2>4 DEF TopInv
  <2>11. PauseInv(fm') /\ EndInv(fm') /\ Grows(fm, fm', h) /\ fm' \in ManagerType
    BY <1>1, <1>2 DEF Grows
  <2>12. h <= h
    BY FiltersAssumption
  <2> QED BY <1>1, <1>3, <2>3, <2>4, <2>6, <2>7, <2>8, <2>9, <2>10, <2>11, <2>12, StepCalls
<1> QED BY <1>5, <1>6

\* decodeData at a filter that has stopped everything.
LEMMA decodeDataStopped ==
    ASSUME ControlInv, decodeData, ~(top.at > N), stoppedAll(fm, top.at) PROVE ControlInv'
<1> DEFINE i == top.at
           b == fm.iter[i] = "StopAllWatermark"
           s == [fm EXCEPT !.streaming = b]
<1>1. /\ stack # <<>> /\ top.op = "decodeData" /\ codec' = codec /\ contended' = contended
      /\ fm' = commonHandleBufferData(s, top) /\ Returns
  BY DEF decodeData, Runs, StoppedAllAt
<1>2. /\ top = stack[1] /\ top \in FrameType /\ stack \in Seq(FrameType)
      /\ fm \in ManagerType /\ PauseInv(fm) /\ EndInv(fm) /\ ReleaseInv(fm, stack)
      /\ N \in Nat /\ N > 0
  BY <1>1, TopFacts
<1>3. PICK h \in 0 .. N :
        /\ Reach(fm, stack, h) /\ StackInv(fm, stack, h)
        /\ StartInv(codec, fm, stack, h) /\ FrameInv(top, fm, stack, h) /\ h > 0
  BY <1>1, TopFacts
<1>4. /\ s \in ManagerType /\ SameIteration(fm, s) /\ Lasts(fm, s) /\ PauseInv(s)
  BY <1>2, StreamingFields
<1> HIDE DEF s
<1>5. /\ fm' \in ManagerType /\ SameIteration(s, fm') /\ Lasts(s, fm') /\ PauseInv(fm')
  BY <1>1, <1>2, <1>4, HandleBufferFields
<1>6. /\ fm'.iter = fm.iter /\ fm'.headersContinued = fm.headersContinued
      /\ fm'.endStream = fm.endStream /\ (fm'.remoteComplete <=> fm.remoteComplete)
      /\ (fm'.trailers <=> fm.trailers) /\ (fm.localComplete => fm'.localComplete)
  BY <1>4, <1>5 DEF SameIteration, Lasts
<1>7. EndInv(fm') /\ Grows(fm, fm', h)
  BY <1>2, <1>6 DEF EndInv, Grows, stoppedAll
<1>8. Reach(fm', stack', h)
  BY <1>1, <1>2, <1>3, <1>5, <1>6, ReachKept DEF canIterate, stoppedAll
<1>9. ReleaseInv(fm', stack')
  <2>1. i \in Filters
    BY <1>2 DEF FrameType, Filters
  <2>2. i # N
    BY <1>2, <1>3 DEF Reach, Filters
  <2>3. i \in Others
    BY <1>2, <2>1, <2>2 DEF Filters, Others
  <2>4. ~canIterate(fm', i)
    BY <1>6 DEF canIterate, stoppedAll
  <2> QED BY <2>3, <2>4 DEF ReleaseInv, Releases
<1>10. \A j \in Filters : Letting(stack, j) => Passed(fm', stack', j)
  BY <1>1, <1>2 DEF Letting
<1>11. h <= h /\ contended' \in BOOLEAN
  BY <1>1, FiltersAssumption DEF ControlInv, Types
<1> QED BY <1>1, <1>3, <1>5, <1>7, <1>8, <1>9, <1>10, <1>11, StepReturns

\* decodeData at a filter that is given the data.
LEMMA decodeDataCalls ==
    ASSUME Cautious, ControlInv, stack # <<>>, top.op = "decodeData", codec' = codec, ~(top.at > N),
           ~stoppedAll(fm, top.at), decodeDataCallback(top)
    PROVE  ControlInv'
<1> DEFINE i == top.at
           end == top.end /\ ~fm.trailers
<1>2. /\ top = stack[1] /\ top \in FrameType /\ stack \in Seq(FrameType)
      /\ fm \in ManagerType /\ PauseInv(fm) /\ EndInv(fm) /\ ReleaseInv(fm, stack)
      /\ N \in Nat /\ N > 0
  BY TopFacts
<1>3. PICK h \in 0 .. N :
        /\ Reach(fm, stack, h) /\ StackInv(fm, stack, h)
        /\ StartInv(codec, fm, stack, h) /\ FrameInv(top, fm, stack, h)
        /\ TopInv(top, fm, h) /\ h > 0
  BY TopFacts
<1>4. /\ i \in Filters /\ i # N + 1 /\ i <= h /\ ~fm.localComplete
      /\ end \in BOOLEAN /\ (end => top.end) /\ (top.end => fm.remoteComplete)
  <2>1. i \in Filters /\ i # N + 1
    BY <1>2 DEF FrameType, Filters
  <2>2. end \in BOOLEAN
    BY <1>2 DEF FrameType, ManagerType
  <2> QED BY <1>3, <2>1, <2>2 DEF TopInv, FrameInv
<1>5. PICK a \in DataAnswers(i, top) :
        LET back == DataBack(i, end, a)
        IN  /\ HoldsBack(i, a.status # "Continue")
            /\ IF back.aborted THEN Returns /\ fm' = back
               ELSE /\ fm' = AfterData(back, top, a.status)
                    /\ Calls(IF ContinuesInline(back, top, a.status)
                             THEN <<Frame("commonContinue", i),
                                    afterDataLoop(DataNext(top, i, a))>>
                             ELSE IF a.status = "Continue"
                             THEN <<[DataNext(top, i, a) EXCEPT !.at = i + 1]>>
                             ELSE <<afterDataLoop(DataNext(top, i, a))>>)
  BY Zenon DEF decodeDataCallback, DataBack, DataNoted, DataNext
<1> DEFINE back == DataBack(i, end, a)
<1>6. /\ a.ending \in EndingKinds /\ a.trailers \in BOOLEAN /\ a.status \in DataStatuses
      /\ i = N => a.status = "StopIterationNoBuffer" /\ a.trailers = FALSE
      /\ a.trailers => top.end /\ a.status = "Continue"
  BY <1>2, <1>4, DataAnswerFacts
<1> HIDE DEF end
<1>7. /\ back \in ManagerType /\ PauseInv(back) /\ EndInv(back)
      /\ back.iter = fm.iter /\ back.headersContinued = fm.headersContinued
      /\ (back.remoteComplete <=> fm.remoteComplete)
      /\ (back.trailers <=> fm.trailers \/ a.trailers)
      /\ back.buffer = fm.buffer /\ (back.above => back.paused = 1)
      /\ (back.exists <=> fm.exists)
      /\ back.localComplete => back.aborted \/ a.status # "Continue"
  BY <1>2, <1>4, DataBackFacts
<1>8. contended' \in BOOLEAN
  BY <1>5 DEF HoldsBack, ControlInv, Types
<1>9. \A j \in Filters : Letting(stack, j) => Passed(fm', stack', j)
  BY <1>2 DEF Letting
<1>10. h <= h /\ i \in Nat /\ i > 0 /\ N + 1 \in 1 .. (N + 1)
  BY <1>2, <1>4 DEF Filters
<1>11. stack[1].op \notin {"doHeaders", "decodeHeaders", "doData"}
  BY <1>2
<1>12. CASE back.aborted
  <2>1. Returns /\ fm' = back
    BY <1>5, <1>12
  <2> HIDE DEF back
  <2>2. ReleaseInv(fm', stack')
    BY <1>7, <1>12, <2>1 DEF ReleaseInv, PauseInv
  <2>3. Reach(fm', stack', h)
    BY <1>2, <1>3, <1>7, <1>11, <2>1, ReachKept DEF canIterate, stoppedAll
  <2>4. Grows(fm, fm', h)
    BY <1>4, <1>7, <2>1 DEF Grows, stoppedAll
  <2> QED BY <1>3, <1>7, <1>8, <1>9, <1>10, <2>1, <2>2, <2>3, <2>4, StepReturns
<1>13. CASE ~back.aborted
  <2> DEFINE next == DataNext(top, i, a)
             inline == ContinuesInline(back, top, a.status)
             m == IF a.trailers /\ top.mark = 0 THEN i ELSE top.mark
  <2>1. /\ fm' = AfterData(back, top, a.status)
        /\ Calls(IF inline THEN <<Frame("commonContinue", i), afterDataLoop(next)>>
                 ELSE IF a.status = "Continue" THEN <<[next EXCEPT !.at = i + 1]>>
                 ELSE <<afterDataLoop(next)>>)
    BY <1>5, <1>13
  <2>1a. inline <=> a.status = "Continue" /\ fm.iter[i] = "StopSingleIteration"
    BY <1>7 DEF ContinuesInline
  <2> HIDE DEF back, inline
  <2>1b. fm' = AfterData(back, top, a.status)
    BY <2>1
  <2>2. /\ fm' \in ManagerType /\ SameBut(back, fm') /\ Lasts(back, fm') /\ PauseInv(fm')
        /\ IterationKept(back, fm', i, a.status)
    BY <1>2, <1>4, <1>6, <1>7, <2>1b, AfterDataFields
  <2>3. a.status = "Continue" /\ fm.iter[i] # "StopSingleIteration" => fm' = back
    <3>1. a.status = "Continue" /\ back.iter[i] # "StopSingleIteration" => fm' = back
      BY <1>2, <1>4, <1>6, <1>7, <2>1b, AfterDataFields
    <3> QED BY <1>7, <3>1
  <2>4. a.status = "StopIterationNoBuffer" =>
          fm'.buffer = IF top.buffered THEN <<>> ELSE fm.buffer
    <3>1. fm'.buffer = DataKept(back, top, a.status)
      BY <1>2, <1>4, <1>6, <1>7, <2>1, AfterDataFields
    <3> QED BY <1>7, <3>1 DEF DataKept
  <2>5. a.status = "StopIterationNoBuffer" => (fm'.localComplete <=> back.localComplete)
    BY <1>2, <1>4, <1>6, <1>7, <2>1, AfterDataFields
  <2>6. /\ fm'.headersContinued = fm.headersContinued
        /\ (fm'.remoteComplete <=> fm.remoteComplete)
        /\ (fm'.trailers <=> fm.trailers \/ a.trailers)
        /\ fm'.endStream = back.endStream
    BY <1>7, <2>2 DEF SameBut
  <2>7. EndInv(fm')
    BY <1>7, <2>2, <2>6 DEF EndInv, SameBut
  <2>8. fm.iter \in [Filters -> Iterations]
    BY <1>2 DEF ManagerType
  <2>9. /\ \A j \in Filters : j > h => fm'.iter[j] = fm.iter[j]
        /\ \A j \in Filters : canIterate(fm', j) => canIterate(fm, j)
        /\ \A j \in Filters : stoppedAll(fm', j) => stoppedAll(fm, j)
        /\ a.status # "Continue" \/ inline => ~canIterate(fm', i)
    <3>1. CASE a.status = "Continue"
      BY <1>7, <2>1a, <2>2, <3>1 DEF canIterate, stoppedAll, IterationKept
    <3>2. CASE a.status # "Continue"
      BY <1>2, <1>4, <1>7, <2>2, <2>8, <3>2 DEF canIterate, stoppedAll, Filters, IterationKept
    <3> QED BY <3>1, <3>2
  <2>10. Grows(fm, fm', h)
    BY <1>4, <2>6, <2>9 DEF Grows
  <2>11. Reach(fm', stack', h)
    BY <1>2, <1>3, <1>11, <2>2, <2>6, <2>9, ReachKept
  <2>12. i # N => i \in Others
    BY <1>2, <1>4 DEF Filters, Others
  <2>13. a.status = "Continue" /\ ~inline =>
            fm.headersContinued[i] /\ i < h /\ i + 1 <= h /\ i + 1 \in 1 .. (N + 1)
    <3>1. ASSUME a.status = "Continue", ~inline PROVE canIterate(fm, i)
      BY <1>4, <2>1a, <2>8, <3>1 DEF canIterate, stoppedAll, Iterations
    <3>2. ASSUME a.status = "Continue", ~inline PROVE fm.headersContinued[i]
      BY <1>2, <1>3, <1>4, <1>11, <3>1, <3>2 DEF Reach, Filters
    <3>3. ASSUME a.status = "Continue", ~inline PROVE i # h
      BY <1>2, <1>3, <1>4, <1>6, <1>11, <3>2, <3>3 DEF Reach, DataStatuses
    <3> QED BY <1>2, <1>4, <1>10, <3>2, <3>3
  <2>14. /\ m # 0 => m \in Others /\ m <= h /\ fm'.trailers
         /\ m # 0 => fm'.headersContinued[m] \/ (inline /\ m = i)
    <3>1. CASE a.trailers /\ top.mark = 0
      <4>1. m = i /\ i # N /\ a.status = "Continue"
        BY <1>6, <3>1
      <4> QED BY <1>4, <2>6, <2>12, <2>13, <3>1, <4>1
    <3>2. CASE ~(a.trailers /\ top.mark = 0)
      <4>1. m = top.mark
        BY <3>2
      <4>2. m # 0 => Passed(fm, stack, m) /\ m \in Others /\ m <= h /\ fm.trailers
        BY <1>3, <4>1 DEF FrameInv
      <4> QED BY <1>2, <1>4, <2>6, <4>1, <4>2 DEF Passed, Letting
    <3> QED BY <3>1, <3>2
  <2> HIDE DEF m
  <2>15. ASSUME NEW e \in FrameType, e.op = "decodeData", e.at = N + 1 \/ e.at <= h,
                e.end => top.end, e.mark = m, inline => Letting(stack', i)
         PROVE  FrameInv(e, fm', stack', h)
    <3>1. m # 0 => Passed(fm', stack', m)
      BY <2>14, <2>15 DEF Passed
    <3> QED BY <1>4, <2>6, <2>14, <2>15, <3>1 DEF FrameInv, Continuations
  <2>16. ASSUME NEW p \in 1 .. (N + 1)
         PROVE  LET e == [next EXCEPT !.at = p]
                IN  /\ e \in FrameType /\ e.op = "decodeData" /\ e.at = p
                    /\ (e.buffered <=> top.buffered) /\ (e.end => top.end) /\ e.mark = m
                    /\ ~a.trailers => (e.end <=> top.end)
    BY <1>2, <1>4, <1>6, DataNextFields DEF m
  <2> DEFINE e == afterDataLoop(next)
  <2>17. /\ e \in FrameType /\ e.op = "decodeData" /\ e.at = N + 1
         /\ (e.end => top.end) /\ e.mark = m
    BY <1>10, <2>16 DEF afterDataLoop
  <2>18. CASE inline
    <3> DEFINE f == Frame("commonContinue", i)
    <3>1. Calls(<<f, e>>)
      BY <2>1, <2>18
    <3>2. /\ f \in FrameType /\ f.op = "commonContinue" /\ f.at = i /\ f.end = FALSE
          /\ f.mark = 0
      <4>1. i \in 1 .. (N + 1) /\ "commonContinue" \in Ops
        BY <1>2, <1>4, <1>10 DEF Ops, Continuations, Filters
      <4> QED BY <4>1, FrameFields, ZenonT(30)
    <3> HIDE DEF f, e, next
    <3>3. stack' # <<>> /\ stack'[1] = f
      BY <1>2, <2>17, <3>1, <3>2, CallTwoOnTop
    <3>4. Letting(stack', i)
      BY <3>2, <3>3 DEF Letting
    <3>5. FrameInv(e, fm', stack', h)
      BY <2>15, <2>17, <3>4
    <3>6. i \in Others
      BY <1>6, <2>1a, <2>12, <2>18
    <3>7. FrameInv(f, fm', stack', h)
      BY <1>4, <3>2, <3>6 DEF FrameInv, Continuations
    <3>8. TopInv(f, fm', h)
      BY <2>9, <2>18, <3>2 DEF TopInv
    <3>9. ReleaseInv(fm', stack')
      BY <2>9, <2>18, <3>6 DEF ReleaseInv, Releases
    <3>10. Waits(e)
      BY <2>17 DEF Waits
    <3> QED BY <1>3, <1>8, <1>9, <1>10, <2>2, <2>7, <2>10, <2>11, <2>17, <3>1, <3>2, <3>5,
               <3>7, <3>8, <3>9, <3>10, StepCallsTwo
  <2>19. CASE ~inline /\ a.status = "Continue"
    <3> DEFINE f == [next EXCEPT !.at = i + 1]
    <3>1. Calls(<<f>>)
      BY <2>1, <2>19
    <3>2. /\ f \in FrameType /\ f.op = "decodeData" /\ f.at = i + 1
          /\ (f.buffered <=> top.buffered) /\ (f.end => top.end) /\ f.mark = m
          /\ ~a.trailers => (f.end <=> top.end)
      BY <2>13, <2>16, <2>19
    <3> HIDE DEF f, next
    <3>3. stack' # <<>> /\ stack'[1] = f
      BY <1>2, <3>1, <3>2, CallOnTop
    <3>4. FrameInv(f, fm', stack', h)
      BY <2>13, <2>15, <2>19, <3>2
    <3>5. fm' = back /\ ~fm'.localComplete
      <4>1. fm' = back
        BY <1>4, <2>1a, <2>3, <2>19
      <4> QED BY <1>7, <1>13, <2>19, <4>1
    <3>6. TopInv(f, fm', h)
      <4>1. fm'.remoteComplete /\ ~fm'.trailers /\ ~fm'.exists => f.end
        BY <1>3, <1>4, <1>7, <3>2, <3>5 DEF TopInv
      <4> QED BY <3>2, <3>5, <4>1 DEF TopInv
    <3>7. ReleaseInv(fm', stack')
      <4>1. CASE top.buffered
        <5>1. i # N
          BY <1>6, <2>19
        <5>2. i + 1 # N + 1
          BY <1>2, <1>10, <5>1
        <5> QED BY <3>2, <3>3, <4>1, <5>2 DEF ReleaseInv, Releases
      <4>2. CASE ~top.buffered
        <5>1. \A j \in Others : canIterate(fm', j) => canIterate(fm, j)
          BY <1>2, <2>9 DEF Others, Filters
        <5>2. fm'.buffer # <<>> /\ ~fm'.localComplete /\ ~fm'.remoteComplete =>
                fm.buffer # <<>> /\ ~fm.localComplete /\ ~fm.remoteComplete
          BY <1>4, <1>7, <2>6, <3>5
        <5> QED BY <1>2, <1>11, <2>2, <3>1, <3>2, <4>2, <5>1, <5>2, ReleaseStep
      <4> QED BY <4>1, <4>2
    <3> QED BY <1>3, <1>8, <1>9, <1>10, <2>2, <2>7, <2>10, <2>11, <3>1, <3>2, <3>4, <3>6,
               <3>7, StepCalls
  <2>20. CASE a.status # "Continue"
    <3>1. Calls(<<e>>) /\ ~inline
      BY <2>1, <2>1a, <2>20
    <3> HIDE DEF e, next
    <3>2. FrameInv(e, fm', stack', h)
      BY <2>15, <2>17, <3>1
    <3>3. TopInv(e, fm', h)
      BY <2>17 DEF TopInv
    <3>4. ReleaseInv(fm', stack')
      <4>1. CASE i \in Others
        BY <2>9, <2>20, <4>1 DEF ReleaseInv, Releases
      <4>2. CASE i \notin Others
        <5>1. a.status = "StopIterationNoBuffer"
          BY <1>6, <2>12, <4>2
        <5>2. CASE top.buffered
          BY <2>4, <5>1, <5>2 DEF ReleaseInv
        <5>3. CASE ~top.buffered
          <6>1. \A j \in Others : canIterate(fm', j) => canIterate(fm, j)
            BY <1>2, <2>9 DEF Others, Filters
          <6>2. fm'.buffer # <<>> /\ ~fm'.localComplete /\ ~fm'.remoteComplete =>
                  fm.buffer # <<>> /\ ~fm.localComplete /\ ~fm.remoteComplete
            BY <1>4, <1>7, <2>4, <2>6, <5>1
          <6> QED BY <1>2, <1>11, <2>2, <2>17, <3>1, <5>3, <6>1, <6>2, ReleaseStep
        <5> QED BY <5>2, <5>3
      <4> QED BY <4>1, <4>2
    <3> QED BY <1>3, <1>8, <1>9, <1>10, <2>2, <2>7, <2>10, <2>11, <2>17, <3>1, <3>2, <3>3,
               <3>4, StepCalls
  <2> QED BY <2>1a, <2>18, <2>19, <2>20
<1> QED BY <1>12, <1>13

\* decodeData keeps the invariant.
LEMMA decodeDataControl ==
    ASSUME Cautious PROVE ControlInv /\ decodeData => ControlInv'
<1> SUFFICES ASSUME ControlInv, decodeData PROVE ControlInv'
  OBVIOUS
<1>1. stack # <<>> /\ top.op = "decodeData" /\ codec' = codec
  BY DEF decodeData, Runs
<1>2. CASE top.at > N
  BY <1>2, decodeDataBehind
<1>3. CASE ~(top.at > N) /\ stoppedAll(fm, top.at)
  BY <1>3, decodeDataStopped
<1>4. CASE ~(top.at > N) /\ ~stoppedAll(fm, top.at) /\ AtEndOfStream(top.at)
  <2>1. Returns /\ fm' = fm /\ contended' \in BOOLEAN
    BY <1>4 DEF decodeData, ControlInv, Types
  <2>2. top \in FrameType /\ EndInv(fm) /\ N \in Nat
    BY <1>1, TopFacts
  <2>3. top.at \in Filters
    BY <1>4, <2>2 DEF FrameType, Filters
  <2>4. ReleaseInv(fm', stack')
    BY <1>4, <2>1, <2>2, <2>3 DEF ReleaseInv, EndInv, AtEndOfStream
  <2> QED BY <1>1, <2>1, <2>4, JustReturns
<1>5. CASE ~(top.at > N) /\ ~stoppedAll(fm, top.at) /\ ~AtEndOfStream(top.at)
  <2>1. decodeDataCallback(top)
    BY <1>5 DEF decodeData
  <2> QED BY <1>1, <1>5, <2>1, decodeDataCalls
<1> QED BY <1>2, <1>3, <1>4, <1>5

-------------------------------------------------------------------------------
(* decodeTrailers.                                                         *)

\* The state of the trailers callback is noted.
LEMMA InTrailersFields ==
    ASSUME NEW s \in ManagerType, NEW b \in BOOLEAN, PauseInv(s)
    PROVE  LET t == [s EXCEPT !.inTrailers = b]
           IN  /\ t \in ManagerType /\ PauseInv(t)
               /\ t.iter = s.iter /\ t.headersContinued = s.headersContinued
               /\ t.endStream = s.endStream /\ t.fromCurrent = s.fromCurrent
               /\ (t.remoteComplete <=> s.remoteComplete) /\ (t.trailers <=> s.trailers)
               /\ (t.localComplete <=> s.localComplete) /\ (t.aborted <=> s.aborted)
               /\ t.inTrailers = b /\ t.buffer = s.buffer
BY DEF ManagerType, PauseInv

\* A request that has been received, and filters that are as they were.
LEMMA ReceivedStep ==
    ASSUME fm \in ManagerType, EndInv(fm), fm.remoteComplete, stack # <<>>,
           NEW h \in 0 .. N, Reach(fm, stack, h),
           stack[1].op \in {"decodeTrailers", "trailersCallback"},
           fm' \in ManagerType, fm'.headersContinued = fm.headersContinued,
           fm'.remoteComplete, fm.trailers => fm'.trailers,
           fm.localComplete => fm'.localComplete,
           \A i \in Filters : i > h => fm'.iter[i] = fm.iter[i],
           \A i \in Filters : canIterate(fm', i) => canIterate(fm, i),
           \A i \in Filters : stoppedAll(fm', i) => stoppedAll(fm, i)
    PROVE  /\ EndInv(fm') /\ Grows(fm, fm', h) /\ ReleaseInv(fm', stack')
           /\ Reach(fm', stack', h)
           /\ \A i \in Filters : Letting(stack, i) => Passed(fm', stack', i)
<1>1. EndInv(fm') /\ Grows(fm, fm', h) /\ ReleaseInv(fm', stack')
  BY DEF EndInv, Grows, ReleaseInv
<1>2. Reach(fm', stack', h)
  BY ReachKept
<1>3. \A i \in Filters : Letting(stack, i) => Passed(fm', stack', i)
  BY DEF Letting
<1> QED BY <1>1, <1>2, <1>3

\* A filter that can iterate has let the headers pass to the next one.
LEMMA PassedOn ==
    ASSUME NEW h \in 0 .. N, Reach(fm, stack, h), NEW i \in Filters, i <= h, i # N,
           canIterate(fm, i), stack # <<>>,
           stack[1].op \notin {"doHeaders", "decodeHeaders"}
    PROVE  i + 1 <= h /\ i + 1 \in 1 .. (N + 1)
<1>1. i # h
  BY DEF Reach
<1> QED BY <1>1, FiltersAssumption DEF Filters

\* One frame called and one that waits.
LEMMA OneAndOne ==
    ASSUME NEW f \in FrameType, NEW c \in FrameType
    PROVE  <<f>> \o <<c>> = <<f, c>>
<1> DEFINE a == <<f>>
           b == <<c>>
           p == <<f, c>>
<1>1. /\ a \in Seq(FrameType) /\ Len(a) = 1 /\ a[1] = f
      /\ b \in Seq(FrameType) /\ Len(b) = 1 /\ b[1] = c
      /\ p \in Seq(FrameType) /\ Len(p) = 2 /\ p[1] = f /\ p[2] = c
  OBVIOUS
<1> HIDE DEF a, b, p
<1>2. a \o b \in Seq(FrameType) /\ Len(a \o b) = 2 /\ (a \o b)[1] = f /\ (a \o b)[2] = c
  <2>1. /\ a \o b \in Seq(FrameType) /\ Len(a \o b) = Len(a) + Len(b)
        /\ \A k \in 1 .. Len(a) : (a \o b)[k] = a[k]
        /\ \A k \in 1 .. (Len(a) + Len(b)) : k > Len(a) => (a \o b)[k] = b[k - Len(a)]
    BY <1>1, Concatenation
  <2>2. 1 \in 1 .. Len(a) /\ 2 \in 1 .. (Len(a) + Len(b)) /\ 2 > Len(a) /\ 2 - Len(a) = 1
    BY <1>1
  <2> QED BY <1>1, <2>1, <2>2
<1>3. \A k \in 1 .. 2 : (a \o b)[k] = p[k]
  BY <1>1, <1>2
<1> DEFINE q == a \o b
<1> HIDE DEF q
<1>4. q = p
  <2>1. q \in Seq(FrameType) /\ Len(q) = Len(p) /\ \A k \in 1 .. Len(q) : q[k] = p[k]
    BY <1>1, <1>2, <1>3 DEF q
  <2> QED BY <1>1, <2>1, SeqEqual
<1> QED BY <1>4 DEF a, b, p, q

\* decodeTrailers keeps the invariant.
LEMMA decodeTrailersControl == ControlInv /\ decodeTrailers => ControlInv'
<1> SUFFICES ASSUME ControlInv, decodeTrailers PROVE ControlInv'
  OBVIOUS
<1> DEFINE i == top.at
           c == Frame("trailersCallback", i)
           inside == [fm EXCEPT !.inTrailers = TRUE]
<1>1. stack # <<>> /\ top.op = "decodeTrailers" /\ codec' = codec
  BY DEF decodeTrailers, Runs
<1>2. /\ top = stack[1] /\ top \in FrameType /\ stack \in Seq(FrameType)
      /\ fm \in ManagerType /\ PauseInv(fm) /\ EndInv(fm) /\ ReleaseInv(fm, stack)
      /\ N \in Nat /\ N > 0
  BY <1>1, TopFacts
<1>3. PICK h \in 0 .. N :
        /\ Reach(fm, stack, h) /\ StackInv(fm, stack, h)
        /\ StartInv(codec, fm, stack, h) /\ FrameInv(top, fm, stack, h) /\ h > 0
  BY <1>1, TopFacts
<1>4. CASE i > N \/ stoppedAll(fm, i)
  <2>1. Returns /\ fm' = fm /\ contended' \in BOOLEAN
    <3>1. i > N \/ (i <= N /\ stoppedAll(fm, i))
      BY <1>2, <1>4 DEF FrameType
    <3> QED BY <3>1 DEF decodeTrailers, ControlInv, Types
  <2>2. ReleaseInv(fm', stack')
    BY <1>1, <1>3, <2>1 DEF ReleaseInv, FrameInv
  <2> QED BY <1>1, <2>1, <2>2, JustReturns
<1>5. CASE ~(i > N) /\ ~stoppedAll(fm, i)
  <2>1. i \in Filters /\ i # N + 1 /\ i \in 1 .. (N + 1)
    BY <1>2, <1>5 DEF FrameType, Filters
  <2>2. i <= h /\ fm.remoteComplete /\ fm.trailers /\ h <= h
    BY <1>1, <1>3, <2>1, FiltersAssumption DEF FrameInv
  <2>3. /\ c \in FrameType /\ c.op = "trailersCallback" /\ c.at = i /\ c.end = FALSE
        /\ c.mark = 0
    BY <2>1, FrameFields, ZenonT(30) DEF Ops
  <2>4. /\ inside \in ManagerType /\ PauseInv(inside)
        /\ inside.iter = fm.iter /\ inside.headersContinued = fm.headersContinued
        /\ inside.endStream = fm.endStream
        /\ (inside.remoteComplete <=> fm.remoteComplete) /\ (inside.trailers <=> fm.trailers)
        /\ (inside.localComplete <=> fm.localComplete)
    BY <1>2, InTrailersFields
  <2>5. stack[1].op \in {"decodeTrailers", "trailersCallback"}
    BY <1>1, <1>2
  <2>6. \/ Calls(<<c>>) /\ fm' = inside /\ contended' = contended
        \/ /\ fm' = Buffered([inside EXCEPT !.streaming = FALSE], <<Extra(i)>>, TRUE)
           /\ Calls(<<c>>) /\ contended' = contended
        \/ /\ i # N /\ canIterate(fm, i) /\ fm' = inside
           /\ contended' = contended
           /\ Calls(decodeDataCall([Frame("decodeData", i + 1) EXCEPT !.data = <<Extra(i)>>])
                    \o <<c>>)
    <3>1. ~(i > N \/ (i <= N /\ stoppedAll(fm, i)))
      BY <1>5
    <3> QED BY <3>1, Zenon DEF decodeTrailers
  <2> HIDE DEF inside, c
  <2>7. ASSUME Calls(<<c>>), contended' \in BOOLEAN, fm' \in ManagerType, PauseInv(fm'),
               fm'.iter = fm.iter, fm'.headersContinued = fm.headersContinued,
               fm'.remoteComplete, fm.trailers => fm'.trailers,
               fm.localComplete => fm'.localComplete
        PROVE  ControlInv'
    <3>1. /\ EndInv(fm') /\ Grows(fm, fm', h) /\ ReleaseInv(fm', stack')
          /\ Reach(fm', stack', h)
          /\ \A j \in Filters : Letting(stack, j) => Passed(fm', stack', j)
      BY <1>1, <1>2, <1>3, <2>2, <2>5, <2>7, ReceivedStep DEF canIterate, stoppedAll
    <3>2. FrameInv(c, fm', stack', h)
      BY <1>5, <2>1, <2>2, <2>3, <2>7 DEF FrameInv, Continuations, stoppedAll
    <3>3. TopInv(c, fm', h)
      BY <2>3 DEF TopInv
    <3> QED BY <1>1, <1>3, <2>2, <2>3, <2>7, <3>1, <3>2, <3>3, StepCalls
  <2>8. CASE Calls(<<c>>) /\ fm' = inside /\ contended' = contended
    <3>1. contended' \in BOOLEAN
      BY <2>8 DEF ControlInv, Types
    <3> QED BY <2>2, <2>4, <2>7, <2>8, <3>1
  <2>9. CASE /\ fm' = Buffered([inside EXCEPT !.streaming = FALSE], <<Extra(i)>>, TRUE)
             /\ Calls(<<c>>) /\ contended' = contended
    <3>1. contended' \in BOOLEAN
      BY <2>9 DEF ControlInv, Types
    <3> DEFINE s == [inside EXCEPT !.streaming = FALSE]
               d == <<Extra(i)>>
               b == TRUE
    <3>2. s \in ManagerType /\ SameIteration(inside, s) /\ Lasts(inside, s) /\ PauseInv(s)
      BY <2>4, StreamingFields
    <3>3. d \in Seq(Nat) /\ b \in BOOLEAN
      BY <2>1, FiltersAssumption DEF Extra, Filters
    <3>4. fm' = Buffered(s, d, b)
      BY <2>9
    <3> HIDE DEF s, d, b
    <3>5. fm' \in ManagerType /\ SameIteration(s, fm') /\ Lasts(s, fm') /\ PauseInv(fm')
      BY <3>2, <3>3, <3>4, BufferedFields
    <3>6. /\ fm'.iter = fm.iter /\ fm'.headersContinued = fm.headersContinued
          /\ fm'.remoteComplete /\ (fm.trailers => fm'.trailers)
          /\ (fm.localComplete => fm'.localComplete)
      BY <2>2, <2>4, <3>2, <3>5 DEF SameIteration, Lasts
    <3> QED BY <2>7, <2>9, <3>1, <3>5, <3>6
  <2>10. CASE /\ i # N /\ canIterate(fm, i) /\ fm' = inside
              /\ contended' = contended
              /\ Calls(decodeDataCall([Frame("decodeData", i + 1) EXCEPT !.data = <<Extra(i)>>])
                       \o <<c>>)
    <3>1. contended' \in BOOLEAN
      BY <2>10 DEF ControlInv, Types
    <3>2. CASE fm.localComplete
      <4> DEFINE fs == <<>>
      <4>1. Calls(fs \o <<c>>)
        BY <2>10, <3>2 DEF decodeDataCall
      <4>2. fs \o <<c>> = <<c>>
        BY <2>3
      <4>3. Calls(<<c>>)
        BY <4>1, <4>2
      <4> QED BY <2>2, <2>4, <2>7, <2>10, <3>1, <4>3
    <3>3. CASE ~fm.localComplete
      <4> DEFINE f == [Frame("decodeData", i + 1) EXCEPT !.data = <<Extra(i)>>]
      <4>1. i + 1 <= h /\ i + 1 \in 1 .. (N + 1)
        BY <1>1, <1>2, <1>3, <2>1, <2>2, <2>10, PassedOn
      <4>2. /\ f \in FrameType /\ f.op = "decodeData" /\ f.at = i + 1 /\ f.end = FALSE
            /\ f.mark = 0
        <5> DEFINE e == Frame("decodeData", i + 1)
                   d == <<Extra(i)>>
        <5>1. d \in Seq(Nat)
          BY <2>1, FiltersAssumption DEF Extra, Filters
        <5>2. e \in FrameType /\ e.op = "decodeData" /\ e.at = i + 1 /\ e.end = FALSE
              /\ e.mark = 0
          BY <4>1, FrameFields, ZenonT(30) DEF Ops
        <5>3. f = [e EXCEPT !.data = d]
          OBVIOUS
        <5> HIDE DEF e, d, f
        <5> QED BY <5>1, <5>2, <5>3 DEF FrameType
      <4>3. Calls(<<f>> \o <<c>>)
        BY <2>10, <3>3 DEF decodeDataCall
      <4> HIDE DEF f
      <4>4. Calls(<<f, c>>)
        <5>1. <<f>> \o <<c>> = <<f, c>>
          BY <2>3, <4>2, OneAndOne
        <5> QED BY <4>3, <5>1
      <4>5. /\ fm' \in ManagerType /\ PauseInv(fm')
            /\ fm'.iter = fm.iter /\ fm'.headersContinued = fm.headersContinued
            /\ fm'.remoteComplete /\ (fm.trailers => fm'.trailers)
            /\ (fm.localComplete <=> fm'.localComplete)
        BY <2>2, <2>4, <2>10
      <4>6. /\ EndInv(fm') /\ Grows(fm, fm', h) /\ ReleaseInv(fm', stack')
            /\ Reach(fm', stack', h)
            /\ \A j \in Filters : Letting(stack, j) => Passed(fm', stack', j)
        BY <1>1, <1>2, <1>3, <2>2, <2>5, <4>5, ReceivedStep DEF canIterate, stoppedAll
      <4>7. FrameInv(c, fm', stack', h) /\ Waits(c)
        BY <1>5, <2>1, <2>2, <2>3, <4>5 DEF FrameInv, Continuations, stoppedAll, Waits
      <4>8. FrameInv(f, fm', stack', h)
        BY <4>1, <4>2 DEF FrameInv, Continuations
      <4>9. TopInv(f, fm', h)
        BY <2>2, <3>3, <4>2, <4>5 DEF TopInv
      <4> QED BY <1>1, <1>3, <2>2, <2>3, <3>1, <4>2, <4>4, <4>5, <4>6, <4>7, <4>8, <4>9,
                 StepCallsTwo
    <3> QED BY <3>2, <3>3
  <2> QED BY <2>6, <2>8, <2>9, <2>10
<1> QED BY <1>4, <1>5

\* What the trailers callback of filter i leaves.
TrailersNoted(s, i) == [s EXCEPT !.endStream[i] = TRUE, !.inTrailers = FALSE]
TrailersBack(i, ending) == TrailersNoted(Ended(fm, ending, fm.inTrailers), i)

\* The manager when the trailers callback is back.
LEMMA TrailersBackFacts ==
    ASSUME fm \in ManagerType, PauseInv(fm), NEW i \in Filters, NEW ending \in EndingKinds
    PROVE  LET t == TrailersBack(i, ending)
           IN  /\ t \in ManagerType /\ PauseInv(t)
               /\ t.iter = fm.iter /\ t.headersContinued = fm.headersContinued
               /\ (t.remoteComplete <=> fm.remoteComplete) /\ (t.trailers <=> fm.trailers)
               /\ (fm.localComplete => t.localComplete) /\ (fm.aborted => t.aborted)
               /\ t.localComplete => fm.localComplete \/ ending # "none"
               /\ ending = "sendLocalReply" /\ fm.inTrailers => t.aborted
               /\ t.buffer = fm.buffer /\ ~t.inTrailers
<1> DEFINE t == TrailersBack(i, ending)
           s == Ended(fm, ending, fm.inTrailers)
           u == [s EXCEPT !.endStream[i] = TRUE]
           x == [u EXCEPT !.inTrailers = FALSE]
<1>0. t = x
  BY Zenon DEF TrailersBack, TrailersNoted
<1>1. fm.inTrailers \in BOOLEAN
  BY DEF ManagerType
<1>2. s \in ManagerType /\ SameIteration(fm, s) /\ Lasts(fm, s) /\ PauseInv(s)
  BY <1>1, EndedFields
<1>3. s.localComplete => fm.localComplete \/ ending # "none"
  BY <1>1, EndedFields
<1>4. (ending = "sendLocalReply" /\ fm.inTrailers => s.aborted) /\ s.buffer = fm.buffer
  <2> USE <1>1
  <2>1. ending = "sendLocalReply" /\ fm.inTrailers => s.aborted
    BY EndedFields
  <2>2. s.buffer = fm.buffer
    BY EndedFields
  <2> QED BY <2>1, <2>2
<1> HIDE DEF s, t
<1>5. /\ u \in ManagerType /\ u.iter = s.iter /\ u.headersContinued = s.headersContinued
      /\ u.remoteComplete = s.remoteComplete /\ u.trailers = s.trailers
      /\ u.localComplete = s.localComplete /\ u.aborted = s.aborted
      /\ u.exists = s.exists /\ u.buffer = s.buffer
      /\ u.above = s.above /\ u.paused = s.paused
  BY <1>2, EndStreamFields
<1> HIDE DEF u
<1>6. PauseInv(u)
  BY <1>2, <1>5 DEF PauseInv
<1>7. /\ x \in ManagerType /\ PauseInv(x)
      /\ x.iter = u.iter /\ x.headersContinued = u.headersContinued
      /\ (x.remoteComplete <=> u.remoteComplete) /\ (x.trailers <=> u.trailers)
      /\ (x.localComplete <=> u.localComplete) /\ (x.aborted <=> u.aborted)
      /\ x.buffer = u.buffer /\ x.inTrailers = FALSE
  BY <1>5, <1>6, InTrailersFields
<1> HIDE DEF x
<1> QED BY <1>0, <1>2, <1>3, <1>4, <1>5, <1>7 DEF t, SameIteration, Lasts

\* trailersCallback keeps the invariant.
LEMMA trailersCallbackControl == ControlInv /\ trailersCallback => ControlInv'
<1> SUFFICES ASSUME ControlInv, trailersCallback PROVE ControlInv'
  OBVIOUS
<1> DEFINE i == top.at
<1>1. stack # <<>> /\ top.op = "trailersCallback" /\ codec' = codec
  BY DEF trailersCallback, Runs
<1>2. /\ top = stack[1] /\ top \in FrameType /\ stack \in Seq(FrameType)
      /\ fm \in ManagerType /\ PauseInv(fm) /\ EndInv(fm) /\ ReleaseInv(fm, stack)
      /\ N \in Nat /\ N > 0
  BY <1>1, TopFacts
<1>3. PICK h \in 0 .. N :
        /\ Reach(fm, stack, h) /\ StackInv(fm, stack, h)
        /\ StartInv(codec, fm, stack, h) /\ FrameInv(top, fm, stack, h) /\ h > 0
  BY <1>1, TopFacts
<1>4. /\ fm.remoteComplete /\ i \in Filters /\ i <= h /\ ~stoppedAll(fm, i) /\ h <= h
      /\ fm.trailers /\ (i # N => i \in Others)
  BY <1>1, <1>3, FiltersAssumption DEF FrameInv, Filters, Others
<1>5. PICK a \in TrailersAnswers(i) :
        LET back == TrailersBack(i, a.ending)
            status == StatusIfAborted(back, a.status)
        IN  /\ HoldsBack(i, status # "Continue")
            /\ fm' = IF status # "Continue" /\ canIterate(back, i)
                     THEN [back EXCEPT !.iter[i] = "StopSingleIteration"] ELSE back
            /\ Calls(IF ContinuesInline(back, top, status) THEN <<Frame("commonContinue", i)>>
                     ELSE IF status = "Continue" THEN <<Frame("decodeTrailers", i + 1)>>
                     ELSE <<>>)
  BY Zenon DEF trailersCallback, TrailersBack, TrailersNoted
<1> DEFINE back == TrailersBack(i, a.ending)
           status == StatusIfAborted(back, a.status)
           stopped == [back EXCEPT !.iter[i] = "StopSingleIteration"]
<1>6. /\ a.ending \in EndingKinds
      /\ a.status \in {"Continue", "StopIteration"} /\ (i = N => a.status # "Continue")
  BY DEF TrailersAnswers, Endings, EndingKinds
<1>7. /\ back \in ManagerType /\ PauseInv(back)
      /\ back.iter = fm.iter /\ back.headersContinued = fm.headersContinued
      /\ (back.remoteComplete <=> fm.remoteComplete) /\ (back.trailers <=> fm.trailers)
      /\ (fm.localComplete => back.localComplete)
  BY <1>2, <1>4, <1>6, TrailersBackFacts
<1>8. contended' \in BOOLEAN
  BY <1>5 DEF HoldsBack, ControlInv, Types
<1>9. i = N => status # "Continue"
  BY <1>6 DEF StatusIfAborted
<1>10. /\ status # "Continue" /\ canIterate(back, i) => fm' = stopped
       /\ ~(status # "Continue" /\ canIterate(back, i)) => fm' = back
       /\ Calls(IF ContinuesInline(back, top, status) THEN <<Frame("commonContinue", i)>>
                ELSE IF status = "Continue" THEN <<Frame("decodeTrailers", i + 1)>>
                ELSE <<>>)
  BY <1>5
<1> HIDE DEF back, status
<1>11. /\ stopped \in ManagerType /\ PauseInv(stopped)
       /\ stopped.iter = [fm.iter EXCEPT ![i] = "StopSingleIteration"]
       /\ stopped.headersContinued = back.headersContinued
       /\ stopped.remoteComplete = back.remoteComplete /\ stopped.trailers = back.trailers
       /\ stopped.localComplete = back.localComplete
  <2>1. "StopSingleIteration" \in Iterations
    BY DEF Iterations
  <2>2. /\ stopped \in ManagerType
        /\ stopped.iter = [back.iter EXCEPT ![i] = "StopSingleIteration"]
        /\ stopped.headersContinued = back.headersContinued
        /\ stopped.remoteComplete = back.remoteComplete /\ stopped.trailers = back.trailers
        /\ stopped.localComplete = back.localComplete /\ stopped.aborted = back.aborted
        /\ stopped.exists = back.exists /\ stopped.buffer = back.buffer
        /\ stopped.above = back.above /\ stopped.paused = back.paused
    BY <1>4, <1>7, <2>1, IterFields
  <2> HIDE DEF stopped
  <2> QED BY <1>7, <2>2 DEF PauseInv
<1> HIDE DEF stopped
<1>12. /\ fm' \in ManagerType /\ PauseInv(fm')
       /\ fm'.headersContinued = fm.headersContinued
       /\ fm'.remoteComplete /\ (fm.trailers => fm'.trailers)
       /\ (fm.localComplete => fm'.localComplete)
       /\ fm'.iter = fm.iter \/ fm'.iter = [fm.iter EXCEPT ![i] = "StopSingleIteration"]
       /\ status = "Continue" => fm'.iter = fm.iter
  BY <1>4, <1>7, <1>10, <1>11
<1>13. fm.iter \in [Filters -> Iterations]
  BY <1>2 DEF ManagerType
<1>14. /\ \A j \in Filters : j > h => fm'.iter[j] = fm.iter[j]
       /\ \A j \in Filters : canIterate(fm', j) => canIterate(fm, j)
       /\ \A j \in Filters : stoppedAll(fm', j) => stoppedAll(fm, j)
  <2>1. CASE fm'.iter = fm.iter
    BY <2>1 DEF canIterate, stoppedAll
  <2>2. CASE fm'.iter = [fm.iter EXCEPT ![i] = "StopSingleIteration"]
    BY <1>2, <1>4, <1>13, <2>2 DEF canIterate, stoppedAll, Filters
  <2> QED BY <1>12, <2>1, <2>2
<1>15. /\ EndInv(fm') /\ Grows(fm, fm', h) /\ ReleaseInv(fm', stack')
       /\ Reach(fm', stack', h)
       /\ \A j \in Filters : Letting(stack, j) => Passed(fm', stack', j)
  BY <1>1, <1>2, <1>3, <1>4, <1>12, <1>14, ReceivedStep
<1>16. ContinuesInline(back, top, status) <=>
         status = "Continue" /\ fm.iter[i] = "StopSingleIteration"
  BY <1>7 DEF ContinuesInline
<1>17. CASE status = "Continue" /\ fm.iter[i] = "StopSingleIteration"
  <2> DEFINE f == Frame("commonContinue", i)
  <2>1. Calls(<<f>>)
    BY <1>10, <1>16, <1>17
  <2>2. f \in FrameType /\ f.op = "commonContinue" /\ f.at = i /\ f.end = FALSE /\ f.mark = 0
    <3>1. i \in 1 .. (N + 1) /\ "commonContinue" \in Ops
      BY <1>2, <1>4 DEF Ops, Continuations, Filters
    <3> QED BY <3>1, FrameFields
  <2> HIDE DEF f
  <2>3. FrameInv(f, fm', stack', h)
    BY <1>4, <1>9, <1>17, <2>2 DEF FrameInv, Continuations
  <2>4. TopInv(f, fm', h)
    BY <1>12, <1>17, <2>2 DEF TopInv, canIterate
  <2> QED BY <1>1, <1>3, <1>4, <1>8, <1>12, <1>15, <2>1, <2>2, <2>3, <2>4, StepCalls
<1>18. CASE status = "Continue" /\ fm.iter[i] # "StopSingleIteration"
  <2> DEFINE f == Frame("decodeTrailers", i + 1)
  <2>1. Calls(<<f>>)
    BY <1>10, <1>16, <1>18
  <2>2. canIterate(fm, i)
    BY <1>4, <1>13, <1>18 DEF canIterate, stoppedAll, Iterations
  <2>3. i + 1 <= h /\ i + 1 \in 1 .. (N + 1)
    BY <1>1, <1>2, <1>3, <1>4, <1>9, <1>18, <2>2, PassedOn
  <2>4. /\ f \in FrameType /\ f.op = "decodeTrailers" /\ f.at = i + 1 /\ f.end = FALSE
        /\ f.mark = 0
    BY <2>3, FrameFields, ZenonT(30) DEF Ops
  <2> HIDE DEF f
  <2>5. FrameInv(f, fm', stack', h)
    BY <1>4, <1>12, <2>3, <2>4 DEF FrameInv, Continuations
  <2>6. TopInv(f, fm', h)
    BY <2>4 DEF TopInv
  <2> QED BY <1>1, <1>3, <1>4, <1>8, <1>12, <1>15, <2>1, <2>4, <2>5, <2>6, StepCalls
<1>19. CASE status # "Continue"
  <2>1. Returns
    BY <1>10, <1>16, <1>19 DEF Returns
  <2> QED BY <1>1, <1>3, <1>4, <1>8, <1>12, <1>15, <2>1, StepReturns
<1> QED BY <1>17, <1>18, <1>19

-------------------------------------------------------------------------------
(* The main loop.                                                          *)

\* The invariant, when no function is in progress.
LEMMA MainFacts ==
    ASSUME ControlInv, MainLoop
    PROVE  /\ fm \in ManagerType /\ PauseInv(fm) /\ EndInv(fm) /\ stack = <<>>
           /\ codec \in [headers : BOOLEAN, chunks : Nat] /\ contended \in BOOLEAN
           /\ N \in Nat /\ N > 0
           /\ fm.buffer # <<>> /\ ~fm.localComplete /\ ~fm.remoteComplete =>
                \E i \in Others : ~canIterate(fm, i)
           /\ \E h \in 0 .. N : /\ Reach(fm, stack, h) /\ StartInv(codec, fm, stack, h)
                                /\ codec.headers => h > 0
<1>1. /\ fm \in ManagerType /\ PauseInv(fm) /\ EndInv(fm) /\ stack = <<>>
      /\ codec \in [headers : BOOLEAN, chunks : Nat] /\ contended \in BOOLEAN
      /\ N \in Nat /\ N > 0
  BY FiltersAssumption DEF ControlInv, Types, MainLoop
<1>2. fm.buffer # <<>> /\ ~fm.localComplete /\ ~fm.remoteComplete =>
        \E i \in Others : ~canIterate(fm, i)
  <2>1. 1 .. Len(stack) = {}
    BY <1>1
  <2> QED BY <1>1, <2>1 DEF ControlInv, ReleaseInv, Releases
<1>3. PICK h \in 0 .. N : Reach(fm, stack, h) /\ StartInv(codec, fm, stack, h)
  BY DEF ControlInv
<1>4. codec.headers => h > 0
  BY <1>1, <1>3 DEF StartInv
<1> QED BY <1>1, <1>2, <1>3, <1>4

\* An event of the main loop calls f, or nothing.
LEMMA MainStep ==
    ASSUME ControlInv, MainLoop, contended' \in BOOLEAN,
           codec' \in [headers : BOOLEAN, chunks : Nat], codec'.headers,
           NEW h \in 0 .. N, Reach(fm', stack', h),
           fm' \in ManagerType, PauseInv(fm'), EndInv(fm'), ReleaseInv(fm', stack'),
           NEW f \in FrameType, stack' = <<>> \/ stack' = <<f>>,
           stack' = <<f>> => FrameInv(f, fm', stack', h) /\ TopInv(f, fm', h),
           h = 0 => stack' = <<f>> /\ f.op = "decodeHeaders"
    PROVE  ControlInv'
<1>1. stack' \in Seq(FrameType)
  <2>1. CASE stack' = <<>>
    BY <2>1
  <2>2. CASE stack' = <<f>>
    BY <2>2, OneFrame
  <2> QED BY <2>1, <2>2
<1>2. StackInv(fm', stack', h)
  <2>1. CASE stack' = <<>>
    <3>1. 1 .. Len(stack') = {} /\ 2 .. Len(stack') = {}
      BY <2>1
    <3> QED BY <2>1, <3>1 DEF StackInv
  <2>2. CASE stack' = <<f>>
    <3>1. /\ 2 .. Len(stack') = {} /\ stack'[1] = f
          /\ \A k \in 1 .. Len(stack') : stack'[k] = f
      BY <2>2, OneFrame
    <3> QED BY <2>2, <3>1 DEF StackInv
  <2> QED BY <2>1, <2>2
<1>3. StartInv(codec', fm', stack', h)
  <2>1. stack' = <<f>> => stack' # <<>> /\ stack'[1] = f
    BY OneFrame
  <2> QED BY <2>1 DEF StartInv
<1> QED BY <1>1, <1>2, <1>3 DEF ControlInv, Types

\* The end of the request is noted.
LEMMA ReceivedFields ==
    ASSUME NEW s \in ManagerType, PauseInv(s), NEW b \in BOOLEAN
    PROVE  LET t == [s EXCEPT !.remoteComplete = b]
           IN  /\ t \in ManagerType /\ PauseInv(t) /\ SamePause(s, t)
               /\ t.iter = s.iter /\ t.headersContinued = s.headersContinued
               /\ t.endStream = s.endStream /\ (t.trailers <=> s.trailers)
               /\ (t.localComplete <=> s.localComplete) /\ t.buffer = s.buffer
               /\ (t.exists <=> s.exists) /\ t.remoteComplete = b
BY DEF ManagerType, PauseInv, SamePause

\* requestHeaders keeps the invariant.
LEMMA requestHeadersControl == ControlInv /\ requestHeaders => ControlInv'
<1> SUFFICES ASSUME ControlInv, requestHeaders PROVE ControlInv'
  OBVIOUS
<1>1. /\ MainLoop /\ ~codec.headers /\ codec' = [codec EXCEPT !.headers = TRUE]
      /\ contended' = contended
  BY DEF requestHeaders
<1>2. PICK end \in BOOLEAN : /\ fm' = [fm EXCEPT !.remoteComplete = end]
                             /\ stack' = <<decodeHeadersCall(1, end)>>
  BY DEF requestHeaders
<1> DEFINE f == decodeHeadersCall(1, end)
<1>3. /\ fm \in ManagerType /\ PauseInv(fm) /\ EndInv(fm) /\ stack = <<>>
      /\ codec \in [headers : BOOLEAN, chunks : Nat] /\ contended \in BOOLEAN
      /\ N \in Nat /\ N > 0
  BY <1>1, MainFacts
<1>4. PICK h \in 0 .. N : Reach(fm, stack, h) /\ StartInv(codec, fm, stack, h)
  BY <1>1, MainFacts
<1>5. h = 0 /\ ~fm.localComplete /\ ~fm.exists /\ ~fm.remoteComplete
  BY <1>1, <1>4 DEF StartInv
<1>6. /\ f \in FrameType /\ f.op = "decodeHeaders" /\ f.at = 1 /\ f.end = end /\ f.mark = 0
  <2> DEFINE e == Frame("decodeHeaders", 1)
  <2>1. 1 \in 1 .. (N + 1)
    BY <1>3
  <2>2. e \in FrameType /\ e.op = "decodeHeaders" /\ e.at = 1 /\ e.mark = 0
    BY <2>1, FrameFields, ZenonT(30) DEF Ops
  <2>3. f = [e EXCEPT !.end = end]
    BY DEF decodeHeadersCall
  <2> HIDE DEF e, f
  <2> QED BY <2>2, <2>3 DEF FrameType
<1>7. stack' = <<f>> /\ stack' # <<>>
  BY <1>2
<1> HIDE DEF f
<1>8. /\ fm' \in ManagerType /\ PauseInv(fm')
      /\ fm'.iter = fm.iter /\ fm'.headersContinued = fm.headersContinued
      /\ fm'.endStream = fm.endStream /\ (fm'.trailers <=> fm.trailers)
      /\ (fm'.localComplete <=> fm.localComplete) /\ fm'.buffer = fm.buffer
      /\ (fm'.exists <=> fm.exists) /\ fm'.remoteComplete = end
  BY <1>2, <1>3, ReceivedFields
<1>9. EndInv(fm')
  BY <1>3, <1>5, <1>8 DEF EndInv
<1>10. ReleaseInv(fm', stack')
  BY <1>5, <1>8 DEF ReleaseInv, PauseInv
<1>11. Reach(fm', stack', h)
  <2>1. \A i \in Filters : i > h /\ i # h /\ ~(i < h)
    BY <1>3, <1>5 DEF Filters
  <2> QED BY <1>4, <1>8, <2>1 DEF Reach, canIterate, stoppedAll
<1>12. FrameInv(f, fm', stack', h)
  BY <1>6, <1>8 DEF FrameInv, Continuations
<1>13. TopInv(f, fm', h)
  <2>1. \A j \in Filters : ~(j < 1)
    BY DEF Filters
  <2>2. f.at = h + 1
    BY <1>5, <1>6
  <2> QED BY <1>5, <1>6, <1>8, <2>1, <2>2 DEF TopInv
<1>14. codec' \in [headers : BOOLEAN, chunks : Nat] /\ codec'.headers
  BY <1>1, <1>3
<1> QED BY <1>1, <1>3, <1>6, <1>7, <1>8, <1>9, <1>10, <1>11, <1>12, <1>13, <1>14, MainStep

\* The codec goes on, and the filters are as they were.
LEMMA GoesOn ==
    ASSUME ControlInv, MainLoop, codec.headers, contended' = contended,
           codec' \in [headers : BOOLEAN, chunks : Nat], codec'.headers,
           fm' \in ManagerType, PauseInv(fm'), EndInv(fm'),
           fm'.iter = fm.iter, fm'.headersContinued = fm.headersContinued,
           fm'.buffer # <<>> /\ ~fm'.localComplete /\ ~fm'.remoteComplete =>
               fm.buffer # <<>> /\ ~fm.localComplete /\ ~fm.remoteComplete,
           NEW f \in FrameType, stack' = <<>> \/ stack' = <<f>>,
           \A h \in 1 .. N : Reach(fm, stack, h) /\ stack' = <<f>> =>
               FrameInv(f, fm', stack', h) /\ TopInv(f, fm', h)
    PROVE  ControlInv'
<1>1. /\ fm \in ManagerType /\ stack = <<>> /\ contended \in BOOLEAN
      /\ N \in Nat /\ N > 0
      /\ fm.buffer # <<>> /\ ~fm.localComplete /\ ~fm.remoteComplete =>
           \E i \in Others : ~canIterate(fm, i)
  BY MainFacts
<1>2. PICK h \in 0 .. N : Reach(fm, stack, h) /\ h > 0
  BY MainFacts
<1>3. h \in 1 .. N
  BY <1>1, <1>2
<1>4. Reach(fm', stack', h)
  BY <1>1, <1>2, ReachKept DEF canIterate, stoppedAll
<1>5. ReleaseInv(fm', stack')
  BY <1>1 DEF ReleaseInv, Releases, canIterate
<1> QED BY <1>1, <1>2, <1>3, <1>4, <1>5, MainStep

\* requestData keeps the invariant.
LEMMA requestDataControl == ControlInv /\ requestData => ControlInv'
<1> SUFFICES ASSUME ControlInv, requestData PROVE ControlInv'
  OBVIOUS
<1>1. MainLoop /\ codec.headers /\ ~fm.remoteComplete /\ contended' = contended
  BY DEF requestData
<1>2. PICK end \in BOOLEAN, empty \in BOOLEAN :
        /\ codec' = IF empty THEN codec ELSE [codec EXCEPT !.chunks = codec.chunks + 1]
        /\ fm' = [fm EXCEPT !.remoteComplete = end]
        /\ stack' = decodeDataCall([Frame("decodeData", 1) EXCEPT !.end = end,
                      !.data = IF empty THEN <<>> ELSE <<Chunk(codec.chunks + 1)>>])
  BY DEF requestData
<1> DEFINE d == IF empty THEN <<>> ELSE <<Chunk(codec.chunks + 1)>>
           f == [Frame("decodeData", 1) EXCEPT !.end = end, !.data = d]
<1>3. /\ fm \in ManagerType /\ PauseInv(fm) /\ EndInv(fm)
      /\ codec \in [headers : BOOLEAN, chunks : Nat]
      /\ N \in Nat /\ N > 0
  BY <1>1, MainFacts
<1>4. d \in Seq(Nat)
  BY <1>3 DEF Chunk
<1>5. /\ f \in FrameType /\ f.op = "decodeData" /\ f.at = 1 /\ f.end = end /\ f.mark = 0
  <2> DEFINE e == Frame("decodeData", 1)
  <2>1. 1 \in 1 .. (N + 1)
    BY <1>3
  <2>2. e \in FrameType /\ e.op = "decodeData" /\ e.at = 1 /\ e.mark = 0
    BY <2>1, FrameFields, ZenonT(30) DEF Ops
  <2>3. f = [e EXCEPT !.end = end, !.data = d]
    OBVIOUS
  <2> HIDE DEF e, f, d
  <2> QED BY <1>4, <2>2, <2>3 DEF FrameType
<1>6. stack' = IF fm.localComplete THEN <<>> ELSE <<f>>
  BY <1>2 DEF decodeDataCall
<1> HIDE DEF f, d
<1>7. /\ fm' \in ManagerType /\ PauseInv(fm')
      /\ fm'.iter = fm.iter /\ fm'.headersContinued = fm.headersContinued
      /\ fm'.endStream = fm.endStream /\ (fm'.trailers <=> fm.trailers)
      /\ (fm'.localComplete <=> fm.localComplete) /\ fm'.buffer = fm.buffer
      /\ fm'.remoteComplete = end
  BY <1>2, <1>3, ReceivedFields
<1>8. EndInv(fm')
  BY <1>1, <1>3, <1>7 DEF EndInv
<1>9. codec' \in [headers : BOOLEAN, chunks : Nat] /\ codec'.headers
  <2>1. CASE empty
    BY <1>1, <1>2, <1>3, <2>1
  <2>2. CASE ~empty
    <3>1. codec' = [codec EXCEPT !.chunks = codec.chunks + 1]
      BY <1>2, <2>2
    <3> QED BY <1>1, <1>3, <3>1
  <2> QED BY <2>1, <2>2
<1>10. <<f>> # <<>>
  OBVIOUS
<1>11. ASSUME NEW h \in 1 .. N, stack' = <<f>>
       PROVE  FrameInv(f, fm', stack', h) /\ TopInv(f, fm', h)
  <2>1. ~fm.localComplete /\ 1 <= h
    BY <1>6, <1>10, <1>11
  <2>2. FrameInv(f, fm', stack', h)
    BY <1>5, <1>7, <2>1 DEF FrameInv, Continuations
  <2>3. TopInv(f, fm', h)
    BY <1>5, <1>7, <2>1 DEF TopInv
  <2> QED BY <2>2, <2>3
<1>12. stack' = <<>> \/ stack' = <<f>>
  BY <1>6
<1> QED BY <1>1, <1>5, <1>7, <1>8, <1>9, <1>11, <1>12, GoesOn

\* requestTrailers keeps the invariant.
LEMMA requestTrailersControl == ControlInv /\ requestTrailers => ControlInv'
<1> SUFFICES ASSUME ControlInv, requestTrailers PROVE ControlInv'
  OBVIOUS
<1> DEFINE f == Frame("decodeTrailers", 1)
<1>1. /\ MainLoop /\ codec.headers /\ ~fm.remoteComplete /\ contended' = contended
      /\ codec' = codec
      /\ fm' = [fm EXCEPT !.remoteComplete = TRUE, !.trailers = TRUE]
      /\ stack' = IF fm.localComplete THEN <<>> ELSE <<f>>
  BY DEF requestTrailers, decodeTrailersCall
<1>2. /\ fm \in ManagerType /\ PauseInv(fm) /\ EndInv(fm)
      /\ codec \in [headers : BOOLEAN, chunks : Nat]
      /\ N \in Nat /\ N > 0
  BY <1>1, MainFacts
<1>3. f \in FrameType /\ f.op = "decodeTrailers" /\ f.at = 1 /\ f.end = FALSE /\ f.mark = 0
  <2>1. 1 \in 1 .. (N + 1)
    BY <1>2
  <2> QED BY <2>1, FrameFields, ZenonT(30) DEF Ops
<1> HIDE DEF f
<1>4. /\ fm' \in ManagerType /\ PauseInv(fm')
      /\ fm'.iter = fm.iter /\ fm'.headersContinued = fm.headersContinued
      /\ fm'.remoteComplete = TRUE /\ fm'.trailers = TRUE
  BY <1>1, <1>2 DEF ManagerType, PauseInv
<1>5. EndInv(fm')
  BY <1>4 DEF EndInv
<1>6. ASSUME NEW h \in 1 .. N
      PROVE  FrameInv(f, fm', stack', h) /\ TopInv(f, fm', h)
  <2>1. 1 <= h
    BY <1>2
  <2>2. FrameInv(f, fm', stack', h)
    BY <1>3, <1>4, <2>1 DEF FrameInv, Continuations
  <2>3. TopInv(f, fm', h)
    BY <1>3 DEF TopInv
  <2> QED BY <2>2, <2>3
<1>7. /\ stack' = <<>> \/ stack' = <<f>>
      /\ codec' \in [headers : BOOLEAN, chunks : Nat] /\ codec'.headers
  BY <1>1, <1>2
<1> QED BY <1>1, <1>3, <1>4, <1>5, <1>6, <1>7, GoesOn

\* responseComplete keeps the invariant.
LEMMA responseCompleteControl == ControlInv /\ responseComplete => ControlInv'
<1> SUFFICES ASSUME ControlInv, responseComplete PROVE ControlInv'
  OBVIOUS
<1> DEFINE b == FALSE
           f == Frame("decodeTrailers", 1)
<1>1. /\ MainLoop /\ codec.headers /\ contended' = contended /\ codec' = codec
      /\ fm' = sendLocalReply(fm, b) /\ stack' = stack /\ b \in BOOLEAN
  BY DEF responseComplete
<1>2. /\ fm \in ManagerType /\ PauseInv(fm) /\ EndInv(fm) /\ stack = <<>>
      /\ codec \in [headers : BOOLEAN, chunks : Nat]
      /\ N \in Nat /\ N > 0
  BY <1>1, MainFacts
<1>3. f \in FrameType
  <2>1. 1 \in 1 .. (N + 1)
    BY <1>2
  <2> QED BY <2>1, FrameFields DEF Ops
<1> HIDE DEF b, f
<1>4. fm' \in ManagerType /\ PauseInv(fm') /\ SameIteration(fm, fm') /\ fm'.localComplete
  BY <1>1, <1>2, ReplyFields
<1>5. EndInv(fm')
  BY <1>2, <1>4 DEF EndInv, SameIteration
<1>6. /\ stack' = <<>> /\ <<f>> # <<>>
      /\ codec' \in [headers : BOOLEAN, chunks : Nat] /\ codec'.headers
  BY <1>1, <1>2
<1> QED BY <1>1, <1>3, <1>4, <1>5, <1>6, GoesOn DEF SameIteration

\* continueDecoding keeps the invariant.
LEMMA continueDecodingControl ==
    ASSUME NEW i \in Others, ControlInv, continueDecoding(i) PROVE ControlInv'
<1> DEFINE f == Frame("commonContinue", i)
<1>1. /\ MainLoop /\ contended' = contended /\ codec' = codec /\ fm' = fm
      /\ stack' = <<f>> /\ ~canIterate(fm, i)
  BY DEF continueDecoding
<1>2. /\ fm \in ManagerType /\ PauseInv(fm) /\ EndInv(fm) /\ stack = <<>>
      /\ codec \in [headers : BOOLEAN, chunks : Nat]
      /\ N \in Nat /\ N > 0
  BY <1>1, MainFacts
<1>3. i \in Filters /\ i \in Nat /\ i > 0 /\ i \in 1 .. (N + 1)
  BY <1>2 DEF Filters, Others
<1>4. f \in FrameType /\ f.op = "commonContinue" /\ f.at = i /\ f.end = FALSE /\ f.mark = 0
  <2>1. "commonContinue" \in Ops
    BY DEF Ops, Continuations
  <2> QED BY <1>3, <2>1, FrameFields
<1> HIDE DEF f
<1>5. \A h \in 0 .. N : Reach(fm, stack, h) => i <= h
  BY <1>1, <1>2, <1>3 DEF Reach
<1>6. codec.headers
  <2>1. PICK h \in 0 .. N : Reach(fm, stack, h) /\ StartInv(codec, fm, stack, h)
    BY <1>1, MainFacts
  <2>2. h # 0
    BY <1>3, <1>5, <2>1
  <2> QED BY <2>1, <2>2 DEF StartInv
<1>7. ASSUME NEW h \in 1 .. N, Reach(fm, stack, h)
      PROVE  FrameInv(f, fm', stack', h) /\ TopInv(f, fm', h)
  <2>1. i <= h
    BY <1>2, <1>5, <1>7
  <2>2. FrameInv(f, fm', stack', h)
    BY <1>4, <2>1 DEF FrameInv, Continuations
  <2>3. TopInv(f, fm', h)
    BY <1>1, <1>4 DEF TopInv
  <2> QED BY <2>2, <2>3
<1> QED BY <1>1, <1>2, <1>4, <1>6, <1>7, GoesOn

\* The invariant holds at the start.
LEMMA InitControl == Init => ControlInv
<1> SUFFICES ASSUME Init PROVE ControlInv
  OBVIOUS
<1>1. N \in Nat /\ N > 0 /\ 0 \in 0 .. N
  BY FiltersAssumption
<1>2. /\ fm \in ManagerType
      /\ fm.iter = [i \in Filters |-> "Continue"]
      /\ fm.headersContinued = [i \in Filters |-> FALSE]
      /\ fm.endStream = [i \in Filters |-> FALSE]
      /\ ~fm.remoteComplete /\ ~fm.localComplete /\ ~fm.aborted /\ ~fm.trailers
      /\ ~fm.exists /\ ~fm.above /\ fm.paused = 0 /\ fm.buffer = <<>>
  <2> DEFINE it == [i \in Filters |-> "Continue"]
             no == [i \in Filters |-> FALSE]
             e == <<>>
  <2>1. it \in [Filters -> Iterations] /\ no \in [Filters -> BOOLEAN] /\ e \in Seq(Nat)
    BY DEF Iterations
  <2>2. fm = [iter |-> it, fromCurrent |-> no, headersContinued |-> no, endStream |-> no,
              remoteComplete |-> FALSE, localComplete |-> FALSE, aborted |-> FALSE,
              trailers |-> FALSE, streaming |-> TRUE, inTrailers |-> FALSE,
              exists |-> FALSE, buffer |-> e, above |-> FALSE, paused |-> 0]
    BY DEF Init
  <2> HIDE DEF it, no, e
  <2>3. fm \in ManagerType
    BY <2>1, <2>2 DEF ManagerType
  <2> QED BY <2>2, <2>3 DEF it, no, e
<1>3. Types /\ stack = <<>> /\ codec.headers = FALSE
  <2>1. stack = <<>> /\ codec = [headers |-> FALSE, chunks |-> 0] /\ contended = FALSE
    BY DEF Init
  <2>2. stack \in Seq(FrameType)
    BY <2>1
  <2>3. codec \in [headers : BOOLEAN, chunks : Nat] /\ codec.headers = FALSE
    BY <2>1
  <2>4. contended \in BOOLEAN
    BY <2>1
  <2> QED BY <1>2, <2>1, <2>2, <2>3, <2>4 DEF Types
<1>4. PauseInv(fm) /\ EndInv(fm) /\ ReleaseInv(fm, stack)
  BY <1>2 DEF PauseInv, EndInv, ReleaseInv
<1>5. Reach(fm, stack, 0)
  <2>1. \A i \in Filters : i > 0 /\ i # 0 /\ ~(i < 0)
    BY DEF Filters
  <2>2. \A i \in Filters : canIterate(fm, i) /\ ~fm.headersContinued[i] /\ ~stoppedAll(fm, i)
    BY <1>2 DEF canIterate, stoppedAll
  <2> QED BY <2>1, <2>2 DEF Reach
<1>6. StackInv(fm, stack, 0) /\ StartInv(codec, fm, stack, 0)
  <2>1. 1 .. Len(stack) = {} /\ 2 .. Len(stack) = {}
    BY <1>3
  <2> QED BY <1>2, <1>3, <2>1 DEF StackInv, StartInv
<1> QED BY <1>1, <1>3, <1>4, <1>5, <1>6 DEF ControlInv

\* Nothing changes.
LEMMA StutterControl == ControlInv /\ UNCHANGED vars => ControlInv'
BY DEF ControlInv, Types, vars, PauseInv, EndInv, ReleaseInv, Releases, Reach, StackInv,
       StartInv, FrameInv, TopInv, Waits, Passed, Letting, canIterate, stoppedAll

\* The invariant of the control flow: for all answers but those of Mishandled,
\* and whoever continues, the headers have reached one filter, and every function
\* in progress agrees with that.
THEOREM ControlInvariance == ASSUME Cautious PROVE Spec => []ControlInv
<1>1. Init => ControlInv
  BY InitControl
<1>2. ControlInv /\ [Next]_vars => ControlInv'
  <2> SUFFICES ASSUME ControlInv, [Next]_vars PROVE ControlInv'
    OBVIOUS
  <2>1. CASE Step
    BY <2>1, commonContinueControl, doHeadersControl, doDataControl, doTrailersControl,
       continuedControl, maybeContinueDecodingControl, decodeHeadersControl,
       decodeDataControl, decodeTrailersControl, trailersCallbackControl DEF Step
  <2>2. CASE requestHeaders \/ requestData \/ requestTrailers \/ responseComplete
    BY <2>2, requestHeadersControl, requestDataControl, requestTrailersControl,
       responseCompleteControl
  <2>3. CASE \E i \in Others : continueDecoding(i)
    BY <2>3, continueDecodingControl
  <2>4. CASE UNCHANGED vars
    BY <2>4, StutterControl
  <2> QED BY <2>1, <2>2, <2>3, <2>4 DEF Next
<1> QED BY <1>1, <1>2, PTL DEF Spec

\* The codec of a request that is still coming is stopped only while a filter
\* holds data back that it can release.
THEOREM PauseIsReleased == ASSUME Cautious PROVE Spec => []PausedByAFilter
<1>1. ControlInv => PausedByAFilter
  <2> SUFFICES ASSUME ControlInv, MainLoop, fm.paused = 1, ~fm.localComplete,
                      ~fm.remoteComplete
               PROVE  fm.buffer # <<>> /\ \E i \in Others : ~canIterate(fm, i)
    BY DEF PausedByAFilter
  <2>1. PauseInv(fm)
    BY MainFacts
  <2>2. fm.above /\ fm.buffer # <<>>
    BY <2>1 DEF PauseInv
  <2> QED BY <2>2, MainFacts
<1> QED BY <1>1, ControlInvariance, PTL

-------------------------------------------------------------------------------
(* Nobody is called after the response.                                    *)

\* The frames of the stack after a call, whatever their type.
LEMMA CalledAny ==
    ASSUME NEW S, NEW fs \in Seq(S), NEW st \in Seq(FrameType), st # <<>>
    PROVE  LET new == fs \o Tail(st)
           IN  /\ Len(new) = Len(fs) + Len(st) - 1 /\ Len(fs) \in Nat /\ Len(st) \in Nat
               /\ \A k \in 1 .. Len(fs) : new[k] = fs[k]
               /\ \A k \in 1 .. Len(new) :
                    k > Len(fs) => /\ k - Len(fs) + 1 \in 2 .. Len(st)
                                   /\ new[k] = st[k - Len(fs) + 1]
               /\ new # <<>> => 1 \in 1 .. Len(new)
<1> DEFINE tl == Tail(st)
           T == S \cup FrameType
           new == fs \o tl
<1>1. /\ tl \in Seq(FrameType) /\ Len(tl) = Len(st) - 1 /\ Len(st) \in Nat
      /\ \A k \in 1 .. Len(tl) : tl[k] = st[k + 1]
  OBVIOUS
<1> HIDE DEF tl
<1>2. tl \in Seq(T) /\ fs \in Seq(T)
  BY <1>1
<1> HIDE DEF T
<1>3. /\ new \in Seq(T)
      /\ Len(new) = Len(fs) + Len(tl) /\ Len(fs) \in Nat /\ Len(tl) \in Nat
      /\ \A k \in 1 .. Len(fs) : new[k] = fs[k]
      /\ \A k \in 1 .. (Len(fs) + Len(tl)) : k > Len(fs) => new[k] = tl[k - Len(fs)]
  BY <1>2, Concatenation
<1> HIDE DEF new
<1>4. ASSUME NEW k \in 1 .. Len(new), k > Len(fs)
      PROVE  /\ k - Len(fs) + 1 \in 2 .. Len(st)
             /\ new[k] = st[k - Len(fs) + 1]
  <2>1. k - Len(fs) \in 1 .. Len(tl) /\ k \in 1 .. (Len(fs) + Len(tl))
    BY <1>3, <1>4
  <2>2. new[k] = tl[k - Len(fs)] /\ tl[k - Len(fs)] = st[k - Len(fs) + 1]
    BY <1>1, <1>3, <1>4, <2>1
  <2>3. k - Len(fs) + 1 \in 2 .. Len(st)
    BY <1>1, <1>3, <2>1
  <2> QED BY <2>2, <2>3
<1>5. new # <<>> => 1 \in 1 .. Len(new)
  BY <1>3
<1> QED BY <1>1, <1>3, <1>4, <1>5 DEF tl, new

\* The function on top calls functions that are no callbacks.
LEMMA QuietStep ==
    ASSUME ControlInv, stack # <<>>,
           \A k \in 2 .. Len(stack) : stack[k].op # "trailersCallback",
           NEW S, NEW fs \in Seq(S), stack' = fs \o Tail(stack),
           \A k \in 1 .. Len(fs) : fs[k].op # "trailersCallback",
           fs # <<>> /\ fs[1].op = "decodeTrailers" =>
               fs[1].at = N + 1 \/ ~fm'.localComplete,
           ~fm'.inTrailers
    PROVE  ResponseInv'
<1>1. stack \in Seq(FrameType) /\ \A k \in 2 .. Len(stack) : Waits(stack[k])
  BY DEF ControlInv, Types, StackInv
<1>2. /\ Len(stack') = Len(fs) + Len(stack) - 1 /\ Len(fs) \in Nat /\ Len(stack) \in Nat
      /\ \A k \in 1 .. Len(fs) : stack'[k] = fs[k]
      /\ \A k \in 1 .. Len(stack') :
            k > Len(fs) => /\ k - Len(fs) + 1 \in 2 .. Len(stack)
                           /\ stack'[k] = stack[k - Len(fs) + 1]
      /\ stack' # <<>> => 1 \in 1 .. Len(stack')
  BY <1>1, CalledAny
<1>3. ASSUME NEW k \in 1 .. Len(stack') PROVE stack'[k].op # "trailersCallback"
  <2>1. CASE k > Len(fs)
    BY <1>2, <2>1
  <2>2. CASE ~(k > Len(fs))
    BY <1>2, <2>2
  <2> QED BY <2>1, <2>2
<1>4. ASSUME stack' # <<>>, stack'[1].op = "decodeTrailers"
      PROVE  stack'[1].at = N + 1 \/ ~fm'.localComplete
  <2>1. CASE Len(fs) = 0
    <3>1. Waits(stack'[1])
      BY <1>1, <1>2, <1>4, <2>1
    <3> QED BY <1>4, <3>1 DEF Waits
  <2>2. CASE Len(fs) # 0
    BY <1>2, <1>4, <2>2
  <2> QED BY <2>1, <2>2
<1> QED BY <1>3, <1>4 DEF ResponseInv, QuietFrame

\* A function that is no trailers callback calls one that is none.
LEMMA QuietOne ==
    ASSUME ControlInv, stack # <<>>,
           \A k \in 2 .. Len(stack) : stack[k].op # "trailersCallback",
           NEW f, Returns \/ Calls(<<f>>),
           Calls(<<f>>) => f.op # "trailersCallback",
           Calls(<<f>>) /\ f.op = "decodeTrailers" => f.at = N + 1 \/ ~fm'.localComplete,
           ~fm'.inTrailers
    PROVE  ResponseInv'
<1>1. CASE Calls(<<f>>)
  <2> DEFINE fs == <<f>>
  <2>1. fs \in Seq({f}) /\ Len(fs) = 1 /\ fs[1] = f
    OBVIOUS
  <2>2. stack' = fs \o Tail(stack)
    BY <1>1 DEF Calls
  <2> HIDE DEF fs
  <2>3. \A k \in 1 .. Len(fs) : fs[k].op # "trailersCallback"
    BY <1>1, <2>1
  <2>4. fs[1].op = "decodeTrailers" => fs[1].at = N + 1 \/ ~fm'.localComplete
    BY <1>1, <2>1
  <2> QED BY <2>1, <2>2, <2>3, <2>4, QuietStep
<1>2. CASE Returns
  <2> DEFINE fs == <<>>
  <2>1. fs \in Seq({f}) /\ 1 .. Len(fs) = {} /\ fs = <<>>
    OBVIOUS
  <2>2. stack' = fs \o Tail(stack)
    BY <1>2 DEF Returns, Calls
  <2> HIDE DEF fs
  <2> QED BY <2>1, <2>2, QuietStep
<1> QED BY <1>1, <1>2

\* It returns.
LEMMA QuietReturns ==
    ASSUME ControlInv, stack # <<>>, Returns, ~fm'.inTrailers,
           \A k \in 2 .. Len(stack) : stack[k].op # "trailersCallback"
    PROVE  ResponseInv'
<1> DEFINE f == [op |-> "decodeData"]
<1>1. f.op = "decodeData"
  OBVIOUS
<1> HIDE DEF f
<1> QED BY <1>1, QuietOne

\* It calls two.
LEMMA QuietTwo ==
    ASSUME ControlInv, stack # <<>>,
           \A k \in 2 .. Len(stack) : stack[k].op # "trailersCallback",
           NEW f, NEW e, Calls(<<f, e>>), ~fm'.inTrailers,
           f.op \notin {"trailersCallback", "decodeTrailers"}, e.op # "trailersCallback"
    PROVE  ResponseInv'
<1> DEFINE fs == <<f, e>>
<1>1. fs \in Seq({f, e}) /\ Len(fs) = 2 /\ fs[1] = f /\ fs[2] = e
  OBVIOUS
<1>2. stack' = fs \o Tail(stack)
  BY DEF Calls
<1> HIDE DEF fs
<1>3. ASSUME NEW k \in 1 .. Len(fs) PROVE fs[k].op # "trailersCallback"
  <2>1. k = 1 \/ k = 2
    BY <1>1
  <2> QED BY <1>1, <2>1
<1> QED BY <1>1, <1>2, <1>3, QuietStep

\* decodeData goes on, or returns, above a callback that waits for it.
LEMMA AboveCallback ==
    ASSUME ControlInv, ResponseInv, stack # <<>>,
           2 \in 1 .. Len(stack), stack[2].op = "trailersCallback",
           NEW f, Returns \/ (Calls(<<f>>) /\ QuietData(f)),
           fm'.inTrailers, fm'.localComplete => fm'.aborted
    PROVE  ResponseInv'
<1>1. /\ stack \in Seq(FrameType) /\ \A k \in 2 .. Len(stack) : Waits(stack[k])
      /\ Len(stack) \in Nat
  BY DEF ControlInv, Types, StackInv
<1>2. ASSUME NEW k \in 3 .. Len(stack) PROVE stack[k].op # "trailersCallback"
  <2>1. k \in 1 .. Len(stack) /\ k # 1 /\ k # 2
    BY <1>1
  <2> QED BY <2>1 DEF ResponseInv, QuietFrame
<1>3. CASE Calls(<<f>>) /\ QuietData(f)
  <2> DEFINE fs == <<f>>
             S == {f}
  <2>1. fs \in Seq(S) /\ Len(fs) = 1 /\ fs[1] = f /\ 1 \in 1 .. Len(fs)
    OBVIOUS
  <2>2. stack' = fs \o Tail(stack)
    BY <1>3 DEF Calls
  <2> HIDE DEF fs, S
  <2>3. /\ Len(stack') = Len(stack)
        /\ stack'[1] = f
        /\ \A k \in 2 .. Len(stack') : stack'[k] = stack[k]
    <3>1. /\ Len(stack') = Len(fs) + Len(stack) - 1 /\ Len(fs) \in Nat /\ Len(stack) \in Nat
          /\ \A k \in 1 .. Len(fs) : stack'[k] = fs[k]
          /\ \A k \in 1 .. Len(stack') :
                k > Len(fs) => /\ k - Len(fs) + 1 \in 2 .. Len(stack)
                               /\ stack'[k] = stack[k - Len(fs) + 1]
      BY <1>1, <2>1, <2>2, CalledAny, ZenonT(30)
    <3>2. ASSUME NEW k \in 2 .. Len(stack')
          PROVE  k \in 1 .. Len(stack') /\ k > Len(fs) /\ k - Len(fs) + 1 = k
      BY <1>1, <2>1, <3>1
    <3> QED BY <2>1, <3>1, <3>2
  <2>4. f.op = "decodeData"
    BY <1>3 DEF QuietData
  <2>5. ASSUME NEW k \in 1 .. Len(stack') PROVE QuietFrame(stack'[k], stack', k, fm')
    <3>1. CASE k = 1
      BY <2>3, <2>4, <3>1 DEF QuietFrame
    <3>2. CASE k = 2
      BY <1>3, <2>3, <3>2 DEF QuietFrame
    <3>3. CASE k # 1 /\ k # 2
      <4>1. k \in 3 .. Len(stack) /\ k \in 2 .. Len(stack')
        BY <1>1, <2>3, <3>3
      <4> QED BY <1>2, <2>3, <4>1 DEF QuietFrame
    <3> QED BY <3>1, <3>2, <3>3
  <2>6. 2 \in 1 .. Len(stack') /\ stack'[2].op = "trailersCallback"
    BY <1>1, <2>3
  <2> QED BY <2>3, <2>4, <2>5, <2>6 DEF ResponseInv
<1>4. CASE Returns
  <2> DEFINE fs == <<>>
  <2>1. fs \in Seq({f}) /\ Len(fs) = 0
    OBVIOUS
  <2>2. stack' = fs \o Tail(stack)
    BY <1>4 DEF Returns, Calls
  <2> HIDE DEF fs
  <2>3. /\ Len(stack') = Len(stack) - 1
        /\ \A k \in 1 .. Len(stack') : k + 1 \in 2 .. Len(stack) /\ stack'[k] = stack[k + 1]
        /\ stack' # <<>> => 1 \in 1 .. Len(stack')
    <3>1. /\ Len(stack') = Len(fs) + Len(stack) - 1 /\ Len(stack) \in Nat
          /\ \A k \in 1 .. Len(stack') :
                k > Len(fs) => /\ k - Len(fs) + 1 \in 2 .. Len(stack)
                               /\ stack'[k] = stack[k - Len(fs) + 1]
          /\ stack' # <<>> => 1 \in 1 .. Len(stack')
      BY <1>1, <2>1, <2>2, CalledAny
    <3>2. ASSUME NEW k \in 1 .. Len(stack') PROVE k > Len(fs) /\ k - Len(fs) + 1 = k + 1
      BY <1>1, <2>1, <3>1
    <3> QED BY <2>1, <3>1, <3>2
  <2>4. ASSUME NEW k \in 1 .. Len(stack') PROVE QuietFrame(stack'[k], stack', k, fm')
    <3>1. CASE k = 1
      BY <3>1 DEF QuietFrame
    <3>2. CASE k # 1
      <4>1. k + 1 \in 3 .. Len(stack)
        BY <1>1, <2>3, <3>2
      <4> QED BY <1>2, <2>3, <4>1 DEF QuietFrame
    <3> QED BY <3>1, <3>2
  <2>5. ASSUME stack' # <<>> PROVE stack'[1].op # "decodeTrailers"
    <3>1. stack'[1] = stack[1 + 1] /\ 1 + 1 \in 2 .. Len(stack)
      BY <2>3, <2>5
    <3> QED BY <1>1, <3>1 DEF Waits
  <2>6. 1 \in 1 .. Len(stack') /\ stack'[1].op = "trailersCallback"
    <3>1. 1 \in 1 .. Len(stack') /\ 1 + 1 = 2
      BY <1>1, <2>3
    <3> QED BY <2>3, <3>1
  <2> QED BY <2>4, <2>5, <2>6 DEF ResponseInv
<1> QED BY <1>3, <1>4

\* A callback waits only below decodeData, and its mark is there only with it.
LEMMA NoneWaits ==
    ASSUME ControlInv, ResponseInv, stack # <<>>,
           \/ top.op # "decodeData"
           \/ \A k \in 1 .. Len(stack) : k = 2 => stack[k].op # "trailersCallback"
    PROVE  /\ \A k \in 2 .. Len(stack) : stack[k].op # "trailersCallback"
           /\ top.op # "trailersCallback" => ~fm.inTrailers
<1>1. top = stack[1] /\ stack \in Seq(FrameType)
  BY TopFacts
<1>2. ASSUME NEW k \in 2 .. Len(stack) PROVE stack[k].op # "trailersCallback"
  <2> SUFFICES ASSUME stack[k].op = "trailersCallback" PROVE FALSE
    OBVIOUS
  <2>1. k \in 1 .. Len(stack) /\ k # 1
    BY <1>1
  <2>2. QuietFrame(stack[k], stack, k, fm)
    BY <2>1 DEF ResponseInv
  <2>3. k = 2 /\ stack[1].op = "decodeData"
    BY <2>1, <2>2 DEF QuietFrame, QuietData
  <2> QED BY <1>1, <2>1, <2>3
<1>3. ASSUME top.op # "trailersCallback", fm.inTrailers PROVE FALSE
  <2>1. PICK k \in 1 .. Len(stack) : stack[k].op = "trailersCallback"
    BY <1>3 DEF ResponseInv
  <2>2. k = 1 \/ k \in 2 .. Len(stack)
    BY <1>1
  <2> QED BY <1>1, <1>2, <1>3, <2>1, <2>2
<1> QED BY <1>2, <1>3

\* The mark is set and taken away by decodeTrailers alone.
LEMMA MarkKept ==
    ASSUME ControlInv,
           \/ commonContinue \/ doHeaders \/ doData \/ doTrailers \/ continued
           \/ maybeContinueDecoding \/ decodeHeaders \/ decodeData
           \/ requestHeaders \/ requestData \/ requestTrailers \/ responseComplete
           \/ \E i \in Others : continueDecoding(i)
    PROVE  fm'.inTrailers <=> fm.inTrailers
<1>1. fm \in ManagerType /\ PauseInv(fm) /\ EndInv(fm)
  BY DEF ControlInv, Types
<1>2. CASE commonContinue \/ doHeaders \/ doData \/ doTrailers \/ continued
             \/ maybeContinueDecoding
  BY <1>1, <1>2 DEF ManagerType, commonContinue, doHeaders, doData, doTrailers, continued,
                    maybeContinueDecoding
<1>3. CASE \/ requestHeaders \/ requestData \/ requestTrailers \/ responseComplete
           \/ \E i \in Others : continueDecoding(i)
  BY <1>1, <1>3 DEF ManagerType, requestHeaders, requestData, requestTrailers,
                    responseComplete, continueDecoding, sendLocalReply
<1>4. CASE decodeHeaders
  <2> DEFINE i == top.at
             end == top.end /\ top.mark = 0
  <2>1. stack # <<>> /\ top.op = "decodeHeaders"
    BY <1>4 DEF decodeHeaders, Runs
  <2>2. top \in FrameType /\ N \in Nat
    BY <2>1, TopFacts
  <2>3. CASE i > N
    BY <1>4, <2>3 DEF decodeHeaders
  <2>4. CASE ~(i > N)
    <3>1. PICK a \in HeadersAnswers(i, end) :
            LET back == HeadersBack(i, a)
                status == StatusIfAborted(back, a.status)
            IN  fm' = Noted(back, i, IterationAfter(back.iter[i], status),
                            status = "Continue", end)
      BY <1>4, <2>4, Zenon DEF decodeHeaders, HeadersBack, Noted
    <3>2. i \in Filters /\ end \in BOOLEAN
      BY <2>2, <2>4 DEF FrameType, Filters
    <3>3. ~fm.localComplete
      <4>1. i # N + 1
        BY <2>2, <2>4 DEF FrameType
      <4> QED BY <2>1, <4>1, TopFacts DEF TopInv
    <3> DEFINE back == HeadersBack(i, a)
    <3> HIDE DEF end
    <3>4. back \in ManagerType /\ back.inTrailers = fm.inTrailers
      BY <1>1, <3>2, <3>3, HeadersBackFacts DEF SameIteration
    <3>5. PICK v, b : fm' = Noted(back, i, v, b, end)
      BY <3>1
    <3> HIDE DEF back
    <3>6. fm'.inTrailers = back.inTrailers
      BY <3>4, <3>5 DEF Noted, ManagerType
    <3> QED BY <3>4, <3>6
  <2> QED BY <2>3, <2>4
<1>5. CASE decodeData
  <2> DEFINE i == top.at
             end == top.end /\ ~fm.trailers
  <2>1. stack # <<>> /\ top.op = "decodeData"
    BY <1>5 DEF decodeData, Runs
  <2>2. top \in FrameType /\ N \in Nat
    BY <2>1, TopFacts
  <2>3. PICK h \in 0 .. N : FrameInv(top, fm, stack, h) /\ TopInv(top, fm, h)
    BY <2>1, TopFacts
  <2>4. CASE i > N \/ (~stoppedAll(fm, i) /\ AtEndOfStream(i))
    BY <1>5, <2>4 DEF decodeData
  <2>5. CASE ~(i > N) /\ stoppedAll(fm, i)
    <3> DEFINE b == fm.iter[i] = "StopAllWatermark"
               s == [fm EXCEPT !.streaming = b]
    <3>1. fm' = commonHandleBufferData(s, top)
      BY <1>5, <2>5 DEF decodeData, StoppedAllAt
    <3>2. s \in ManagerType /\ SameIteration(fm, s) /\ PauseInv(s)
      BY <1>1, StreamingFields
    <3> HIDE DEF s
    <3>3. SameIteration(s, fm')
      BY <2>2, <3>1, <3>2, HandleBufferFields
    <3> QED BY <3>2, <3>3 DEF SameIteration
  <2>6. CASE ~(i > N) /\ ~stoppedAll(fm, i) /\ ~AtEndOfStream(i)
    <3>1. PICK a \in DataAnswers(i, top) :
            LET back == DataBack(i, end, a)
            IN  fm' = back \/ fm' = AfterData(back, top, a.status)
      BY <1>5, <2>6, Zenon DEF decodeData, decodeDataCallback, DataBack, DataNoted
    <3>2. i \in Filters /\ i # N + 1
      BY <2>2, <2>6 DEF FrameType, Filters
    <3>3. end \in BOOLEAN /\ (end => top.end) /\ (top.end => fm.remoteComplete)
      BY <1>1, <2>2, <2>3 DEF FrameType, ManagerType, FrameInv
    <3>4. ~fm.localComplete /\ a.status \in DataStatuses
      BY <2>1, <2>2, <2>3, <3>2, DataAnswerFacts DEF TopInv
    <3> DEFINE back == DataBack(i, end, a)
    <3> HIDE DEF end
    <3>5. /\ back \in ManagerType /\ PauseInv(back) /\ (back.inTrailers <=> fm.inTrailers)
          /\ (back.above => back.paused = 1)
      BY <1>1, <2>2, <3>2, <3>3, <3>4, DataBackFacts
    <3>6. fm' = back \/ fm' = AfterData(back, top, a.status)
      BY <3>1
    <3> HIDE DEF back
    <3>7. CASE fm' = AfterData(back, top, a.status)
      <4>1. SameBut(back, fm')
        BY <2>2, <3>2, <3>4, <3>5, <3>7, AfterDataFields
      <4> QED BY <3>5, <4>1 DEF SameBut
    <3> QED BY <3>5, <3>6, <3>7
  <2> QED BY <2>4, <2>5, <2>6
<1> QED BY <1>2, <1>3, <1>4, <1>5

\* The function of a new frame.
LEMMA FrameOp ==
    ASSUME NEW op, NEW i
    PROVE  Frame(op, i).op = op /\ Frame(op, i).at = i
BY DEF Frame

\* commonContinue and what it calls.
LEMMA continueQuiet ==
    ASSUME ControlInv, ResponseInv,
           commonContinue \/ doHeaders \/ doData \/ doTrailers \/ continued
             \/ maybeContinueDecoding
    PROVE  ResponseInv'
<1>1. stack # <<>> /\ top.op \in Continuations
  BY DEF commonContinue, doHeaders, doData, doTrailers, continued, maybeContinueDecoding,
         Runs, Continuations
<1>2. /\ \A k \in 2 .. Len(stack) : stack[k].op # "trailersCallback"
      /\ ~fm'.inTrailers
  BY <1>1, NoneWaits, MarkKept DEF Continuations
<1> DEFINE i == top.at
<1>3. CASE commonContinue
  <2>1. CASE ~canContinue(fm)
    <3>1. Returns
      BY <1>3, <2>1 DEF commonContinue
    <3> QED BY <1>1, <1>2, <3>1, QuietReturns
  <2>2. CASE canContinue(fm)
    <3> DEFINE a == Frame("doHeaders", i)
               b == Frame("doData", i)
               c == Frame("doTrailers", i)
               d == Frame("continued", i)
               fs == <<a, b, c, d>>
    <3>1. stack' = fs \o Tail(stack)
      BY <1>3, <2>2 DEF commonContinue, Calls
    <3>2. /\ a.op = "doHeaders" /\ b.op = "doData" /\ c.op = "doTrailers"
          /\ d.op = "continued"
      BY FrameOp
    <3> HIDE DEF a, b, c, d
    <3>3. /\ fs \in Seq({a, b, c, d}) /\ Len(fs) = 4
          /\ fs[1] = a /\ fs[2] = b /\ fs[3] = c /\ fs[4] = d
      OBVIOUS
    <3> HIDE DEF fs
    <3>4. ASSUME NEW k \in 1 .. Len(fs) PROVE fs[k].op # "trailersCallback"
      <4>1. k = 1 \/ k = 2 \/ k = 3 \/ k = 4
        BY <3>3
      <4> QED BY <3>2, <3>3, <4>1
    <3> DEFINE S == {a, b, c, d}
    <3>5. fs \in Seq(S) /\ fs[1].op # "decodeTrailers"
      BY <3>2, <3>3
    <3> HIDE DEF S
    <3> QED BY <1>1, <1>2, <3>1, <3>4, <3>5, QuietStep
  <2> QED BY <2>1, <2>2
<1>4. CASE doHeaders
  <2> DEFINE end == fm.remoteComplete /\ ~fm.exists /\ ~fm.trailers
             f == decodeHeadersCall(i + 1, end)
  <2>1. Returns \/ Calls(<<f>>)
    BY <1>4 DEF doHeaders
  <2>2. f.op = "decodeHeaders"
    BY DEF decodeHeadersCall, Frame
  <2> HIDE DEF f
  <2> QED BY <1>1, <1>2, <2>1, <2>2, QuietOne
<1>5. CASE doData
  <2> DEFINE end == fm.remoteComplete /\ ~fm.trailers
             f == [Frame("decodeData", commonDecodePrefix(i)) EXCEPT
                     !.buffered = TRUE, !.end = end]
  <2>1. Returns \/ Calls(<<f>>)
    BY <1>5 DEF doData, decodeDataCall, Returns
  <2>2. f.op = "decodeData"
    BY DEF Frame
  <2> HIDE DEF f
  <2> QED BY <1>1, <1>2, <2>1, <2>2, QuietOne
<1>6. CASE doTrailers
  <2> DEFINE f == Frame("decodeTrailers", commonDecodePrefix(i))
  <2>1. (Returns \/ Calls(<<f>>)) /\ fm' = fm
    BY <1>6 DEF doTrailers, decodeTrailersCall, Returns
  <2>2. f.op = "decodeTrailers"
    BY FrameOp
  <2>3. CASE fm.localComplete
    <3>1. Returns
      BY <1>6, <2>3 DEF doTrailers, decodeTrailersCall, Returns
    <3> QED BY <1>1, <1>2, <3>1, QuietReturns
  <2>4. CASE ~fm.localComplete
    <3> HIDE DEF f
    <3> QED BY <1>1, <1>2, <2>1, <2>2, <2>4, QuietOne
  <2> QED BY <2>3, <2>4
<1>7. CASE continued
  <2>1. Returns
    BY <1>7 DEF continued
  <2> QED BY <1>1, <1>2, <2>1, QuietReturns
<1>8. CASE maybeContinueDecoding
  <2> DEFINE f == Frame("commonContinue", i)
  <2>1. Calls(<<f>>)
    BY <1>8 DEF maybeContinueDecoding
  <2>2. f.op = "commonContinue"
    BY FrameOp
  <2> HIDE DEF f
  <2> QED BY <1>1, <1>2, <2>1, <2>2, QuietOne
<1> QED BY <1>3, <1>4, <1>5, <1>6, <1>7, <1>8

\* Headers are not sent on from a trailers callback.
LEMMA decodeHeadersQuiet ==
    ASSUME ControlInv, ResponseInv, decodeHeaders PROVE ResponseInv'
<1>1. stack # <<>> /\ top.op = "decodeHeaders"
  BY DEF decodeHeaders, Runs
<1>2. /\ \A k \in 2 .. Len(stack) : stack[k].op # "trailersCallback"
      /\ ~fm'.inTrailers
  BY <1>1, NoneWaits, MarkKept
<1>3. PICK s : \/ Calls(maybeContinueDecodingCall(top.mark))
               \/ Calls(<<HeadersGoOn(top, s)>>)
  BY Zenon DEF decodeHeaders, HeadersGoOn
<1>4. CASE Calls(maybeContinueDecodingCall(top.mark))
  <2> DEFINE f == Frame("maybeContinueDecoding", top.mark)
  <2>1. Returns \/ Calls(<<f>>)
    BY <1>4 DEF maybeContinueDecodingCall, Returns
  <2>2. f.op = "maybeContinueDecoding"
    BY FrameOp
  <2> HIDE DEF f
  <2> QED BY <1>1, <1>2, <2>1, <2>2, QuietOne
<1>5. CASE Calls(<<HeadersGoOn(top, s)>>)
  <2> DEFINE p == top.at + 1
             m == IF top.end /\ s.exists /\ top.mark = 0 THEN top.at ELSE top.mark
             e == [top EXCEPT !.at = p, !.mark = m]
             f == HeadersGoOn(top, s)
  <2>1. f = e
    BY Zenon DEF HeadersGoOn
  <2>2. top \in FrameType
    BY <1>1, TopFacts
  <2> HIDE DEF p, m
  <2>3. e.op = "decodeHeaders"
    BY <1>1, <2>2 DEF FrameType
  <2> HIDE DEF e, f
  <2>4. f.op = "decodeHeaders" /\ Calls(<<f>>)
    BY <1>5, <2>1, <2>3 DEF f
  <2> QED BY <1>1, <1>2, <2>4, QuietOne
<1> QED BY <1>3, <1>4, <1>5

\* decodeTrailers starts a trailers callback, before any response.
LEMMA decodeTrailersQuiet ==
    ASSUME ControlInv, ResponseInv, decodeTrailers PROVE ResponseInv'
<1> DEFINE i == top.at
           c == Frame("trailersCallback", i)
           inside == [fm EXCEPT !.inTrailers = TRUE]
<1>1. stack # <<>> /\ top.op = "decodeTrailers"
  BY DEF decodeTrailers, Runs
<1>2. /\ top = stack[1] /\ top \in FrameType /\ stack \in Seq(FrameType)
      /\ fm \in ManagerType /\ PauseInv(fm) /\ N \in Nat /\ N > 0
  BY <1>1, TopFacts
<1>3. /\ \A k \in 2 .. Len(stack) : stack[k].op # "trailersCallback"
      /\ ~fm.inTrailers
  BY <1>1, NoneWaits
<1>4. CASE i > N \/ stoppedAll(fm, i)
  <2>1. Returns /\ fm' = fm
    <3>1. i > N \/ (i <= N /\ stoppedAll(fm, i))
      BY <1>2, <1>4 DEF FrameType
    <3> QED BY <3>1 DEF decodeTrailers
  <2> QED BY <1>1, <1>3, <2>1, QuietReturns
<1>5. CASE ~(i > N) /\ ~stoppedAll(fm, i)
  <2>1. i \in Filters /\ i # N + 1 /\ i \in 1 .. (N + 1)
    BY <1>2, <1>5 DEF FrameType, Filters
  <2>2. ~fm.localComplete
    BY <1>1, <1>2, <2>1 DEF ResponseInv
  <2>3. c.op = "trailersCallback"
    BY FrameOp
  <2>4. /\ inside \in ManagerType /\ PauseInv(inside) /\ inside.iter = fm.iter
        /\ (inside.localComplete <=> fm.localComplete) /\ inside.inTrailers = TRUE
    BY <1>2, InTrailersFields
  <2>6. \/ Calls(<<c>>) /\ fm' = inside
        \/ /\ fm' = Buffered([inside EXCEPT !.streaming = FALSE], <<Extra(i)>>, TRUE)
           /\ Calls(<<c>>)
        \/ /\ i # N /\ fm' = inside
           /\ Calls(decodeDataCall([Frame("decodeData", i + 1) EXCEPT !.data = <<Extra(i)>>])
                    \o <<c>>)
    <3>1. ~(i > N \/ (i <= N /\ stoppedAll(fm, i)))
      BY <1>5
    <3> QED BY <3>1, Zenon DEF decodeTrailers
  <2> HIDE DEF inside, c
  <2>7. ASSUME Calls(<<c>>), fm'.inTrailers, fm'.localComplete => fm'.aborted
        PROVE  ResponseInv'
    <3> DEFINE fs == <<c>>
               S == {c}
    <3>1. fs \in Seq(S) /\ Len(fs) = 1 /\ fs[1] = c /\ 1 \in 1 .. Len(fs)
      OBVIOUS
    <3>2. stack' = fs \o Tail(stack)
      BY <2>7 DEF Calls
    <3> HIDE DEF fs, S
    <3>3. /\ Len(stack') = Len(fs) + Len(stack) - 1 /\ Len(stack) \in Nat
          /\ \A k \in 1 .. Len(fs) : stack'[k] = fs[k]
          /\ \A k \in 1 .. Len(stack') :
                k > Len(fs) => /\ k - Len(fs) + 1 \in 2 .. Len(stack)
                               /\ stack'[k] = stack[k - Len(fs) + 1]
      BY <1>1, <1>2, <3>1, <3>2, CalledAny
    <3>4. ASSUME NEW k \in 1 .. Len(stack') PROVE QuietFrame(stack'[k], stack', k, fm')
      <4>1. CASE k = 1
        BY <2>7, <4>1 DEF QuietFrame
      <4>2. CASE k # 1
        <5>1. k > Len(fs)
          BY <3>1, <3>3, <4>2
        <5>2. stack'[k].op # "trailersCallback"
          BY <1>3, <3>3, <5>1
        <5> QED BY <5>2 DEF QuietFrame
      <4> QED BY <4>1, <4>2
    <3>5. 1 \in 1 .. Len(stack') /\ stack'[1].op = "trailersCallback"
      BY <1>1, <1>2, <2>3, <3>1, <3>3
    <3> QED BY <3>4, <3>5 DEF ResponseInv
  <2>8. CASE Calls(<<c>>) /\ fm' = inside
    BY <2>2, <2>4, <2>7, <2>8
  <2>9. CASE /\ fm' = Buffered([inside EXCEPT !.streaming = FALSE], <<Extra(i)>>, TRUE)
             /\ Calls(<<c>>)
    <3> DEFINE s == [inside EXCEPT !.streaming = FALSE]
               d == <<Extra(i)>>
               b == TRUE
    <3>2. /\ s \in ManagerType /\ SameIteration(inside, s) /\ PauseInv(s)
          /\ s.localComplete = inside.localComplete
      BY <2>4, StreamingFields
    <3>3. d \in Seq(Nat) /\ b \in BOOLEAN /\ b = TRUE
      BY <2>1, FiltersAssumption DEF Extra, Filters
    <3>4. fm' = Buffered(s, d, b)
      BY <2>9
    <3> HIDE DEF s, d, b
    <3>5. /\ fm' \in ManagerType /\ SameIteration(s, fm')
          /\ fm'.localComplete /\ b => s.localComplete \/ fm'.aborted
      BY <3>2, <3>3, <3>4, BufferedFields
    <3>6. fm'.inTrailers /\ (fm'.localComplete => fm'.aborted)
      BY <2>2, <2>4, <3>2, <3>3, <3>5 DEF SameIteration
    <3> QED BY <2>7, <2>9, <3>6
  <2>10. CASE /\ i # N /\ fm' = inside
              /\ Calls(decodeDataCall([Frame("decodeData", i + 1) EXCEPT !.data = <<Extra(i)>>])
                       \o <<c>>)
    <3> DEFINE f == [Frame("decodeData", i + 1) EXCEPT !.data = <<Extra(i)>>]
    <3>1. f.op = "decodeData" /\ f.at = i + 1 /\ f.end = FALSE /\ f.mark = 0
      BY DEF Frame
    <3>2. Calls(<<f>> \o <<c>>)
      BY <2>2, <2>10 DEF decodeDataCall
    <3> HIDE DEF f
    <3> DEFINE a == <<f>>
               b == <<c>>
               fs == a \o b
               S == {f, c}
    <3>3. fs \in Seq(S) /\ Len(fs) = 2 /\ fs[1] = f /\ fs[2] = c
      <4>1. /\ a \in Seq(S) /\ b \in Seq(S) /\ Len(a) = 1 /\ Len(b) = 1
            /\ a[1] = f /\ b[1] = c
        OBVIOUS
      <4> HIDE DEF a, b, S
      <4>2. /\ a \o b \in Seq(S) /\ Len(a \o b) = Len(a) + Len(b)
            /\ \A k \in 1 .. Len(a) : (a \o b)[k] = a[k]
            /\ \A k \in 1 .. (Len(a) + Len(b)) : k > Len(a) => (a \o b)[k] = b[k - Len(a)]
        BY <4>1, Concatenation
      <4>3. 1 \in 1 .. Len(a) /\ 2 \in 1 .. (Len(a) + Len(b)) /\ 2 > Len(a) /\ 2 - Len(a) = 1
        BY <4>1
      <4> QED BY <4>1, <4>2, <4>3
    <3>4. stack' = fs \o Tail(stack)
      BY <3>2 DEF Calls
    <3> HIDE DEF a, b, fs, S
    <3>5. /\ Len(stack') = Len(fs) + Len(stack) - 1 /\ Len(stack) \in Nat
          /\ \A k \in 1 .. Len(fs) : stack'[k] = fs[k]
          /\ \A k \in 1 .. Len(stack') :
                k > Len(fs) => /\ k - Len(fs) + 1 \in 2 .. Len(stack)
                               /\ stack'[k] = stack[k - Len(fs) + 1]
      BY <1>1, <1>2, <3>3, <3>4, CalledAny
    <3>6. stack'[1] = f
      BY <3>3, <3>5
    <3>7. QuietData(f)
      BY <3>1 DEF QuietData
    <3>8. fm'.inTrailers /\ (fm'.localComplete => fm'.aborted)
      BY <2>2, <2>4, <2>10
    <3>9. ASSUME NEW k \in 1 .. Len(stack') PROVE QuietFrame(stack'[k], stack', k, fm')
      <4>1. CASE k = 1
        BY <3>1, <3>6, <4>1 DEF QuietFrame
      <4>2. CASE k = 2
        BY <3>6, <3>7, <3>8, <4>2 DEF QuietFrame
      <4>3. CASE k # 1 /\ k # 2
        <5>1. k > Len(fs)
          BY <3>3, <3>5, <4>3
        <5>2. stack'[k].op # "trailersCallback"
          BY <1>3, <3>5, <5>1
        <5> QED BY <5>2 DEF QuietFrame
      <4> QED BY <4>1, <4>2, <4>3
    <3>10. 2 \in 1 .. Len(stack') /\ stack'[2].op = "trailersCallback"
      BY <1>1, <1>2, <2>3, <3>3, <3>5
    <3> QED BY <3>1, <3>6, <3>9, <3>10 DEF ResponseInv
  <2> QED BY <2>6, <2>8, <2>9, <2>10
<1> QED BY <1>4, <1>5

\* A trailers callback ends, or sends the data it adds to the later filters.
LEMMA trailersCallbackQuiet ==
    ASSUME ControlInv, ResponseInv, trailersCallback PROVE ResponseInv'
<1> DEFINE i == top.at
<1>1. stack # <<>> /\ top.op = "trailersCallback"
  BY DEF trailersCallback, Runs
<1>2. /\ top = stack[1] /\ top \in FrameType /\ stack \in Seq(FrameType)
      /\ fm \in ManagerType /\ PauseInv(fm)
  BY <1>1, TopFacts
<1>3. \A k \in 2 .. Len(stack) : stack[k].op # "trailersCallback"
  BY <1>1, NoneWaits
<1>4. fm.inTrailers /\ (fm.localComplete => fm.aborted)
  <2>1. 1 \in 1 .. Len(stack)
    BY <1>1, <1>2
  <2> QED BY <1>1, <1>2, <2>1 DEF ResponseInv, QuietFrame
<1>5. i \in Filters
  BY <1>1, TopFacts DEF FrameInv
<1>6. PICK a \in TrailersAnswers(i) :
        LET back == TrailersBack(i, a.ending)
            status == StatusIfAborted(back, a.status)
        IN  /\ fm' = IF status # "Continue" /\ canIterate(back, i)
                     THEN [back EXCEPT !.iter[i] = "StopSingleIteration"] ELSE back
            /\ Calls(IF ContinuesInline(back, top, status) THEN <<Frame("commonContinue", i)>>
                     ELSE IF status = "Continue" THEN <<Frame("decodeTrailers", i + 1)>>
                     ELSE <<>>)
  BY Zenon DEF trailersCallback, TrailersBack, TrailersNoted
<1> DEFINE back == TrailersBack(i, a.ending)
           status == StatusIfAborted(back, a.status)
           f == Frame("commonContinue", i)
           e == Frame("decodeTrailers", i + 1)
<1>7. a.ending \in EndingKinds /\ (a.ending = "encode" => a.status # "Continue")
  BY DEF TrailersAnswers, Endings, EndingKinds, StopsIfEnded
<1>8. /\ (fm.aborted => back.aborted) /\ back \in ManagerType /\ ~back.inTrailers
      /\ back.localComplete => fm.localComplete \/ a.ending # "none"
      /\ a.ending = "sendLocalReply" /\ fm.inTrailers => back.aborted
  BY <1>2, <1>5, <1>7, TrailersBackFacts
<1>9. /\ Returns \/ Calls(<<f>>) \/ (Calls(<<e>>) /\ fm' = back /\ status = "Continue")
      /\ fm' = back \/ fm' = [back EXCEPT !.iter[i] = "StopSingleIteration"]
  BY <1>6 DEF Returns
<1> HIDE DEF back
<1>9a. ~fm'.inTrailers
  BY <1>8, <1>9 DEF ManagerType
<1>10. status = "Continue" => ~back.localComplete
  BY <1>4, <1>7, <1>8 DEF StatusIfAborted, EndingKinds
<1>11. f.op = "commonContinue" /\ e.op = "decodeTrailers"
  BY FrameOp
<1> HIDE DEF f, e, status
<1>12. CASE Returns \/ Calls(<<f>>)
  BY <1>1, <1>3, <1>9a, <1>11, <1>12, QuietOne
<1>13. CASE Calls(<<e>>) /\ fm' = back /\ status = "Continue"
  BY <1>1, <1>3, <1>9a, <1>10, <1>11, <1>13, QuietOne
<1> QED BY <1>9, <1>12, <1>13

\* decodeData when no callback waits for it.
LEMMA decodeDataQuiet ==
    ASSUME ControlInv, ResponseInv, decodeData,
           \A k \in 2 .. Len(stack) : stack[k].op # "trailersCallback"
    PROVE  ResponseInv'
<1> DEFINE i == top.at
<1>0. stack # <<>> /\ top.op = "decodeData"
  BY DEF decodeData, Runs
<1>1. stack # <<>> /\ top.op = "decodeData" /\ ~fm'.inTrailers
  <2>1. \A k \in 1 .. Len(stack) : k = 2 => stack[k].op # "trailersCallback"
    BY <1>0 DEF ControlInv, Types
  <2> QED BY <1>0, <2>1, NoneWaits, MarkKept
<1>2. top \in FrameType /\ N \in Nat /\ N > 0
  BY <1>1, TopFacts
<1>3. CASE i > N
  <2> DEFINE f == Frame("decodeTrailers", commonDecodePrefix(top.mark))
  <2>1. fm' = fm /\ (Returns \/ (Calls(<<f>>) /\ ~fm.localComplete))
    BY <1>3 DEF decodeData, decodeTrailersCall, Returns
  <2>2. f.op = "decodeTrailers"
    BY FrameOp
  <2> HIDE DEF f
  <2>3. CASE Returns
    BY <1>1, <2>3, QuietReturns
  <2>4. CASE Calls(<<f>>) /\ ~fm.localComplete
    BY <1>1, <2>1, <2>2, <2>4, QuietOne
  <2> QED BY <2>1, <2>3, <2>4
<1>4. CASE ~(i > N) /\ (stoppedAll(fm, i) \/ AtEndOfStream(i))
  <2>1. Returns
    BY <1>4 DEF decodeData, StoppedAllAt
  <2> QED BY <1>1, <2>1, QuietReturns
<1>5. CASE ~(i > N) /\ ~stoppedAll(fm, i) /\ ~AtEndOfStream(i)
  <2>1. decodeDataCallback(top)
    BY <1>5 DEF decodeData
  <2>2. i \in Filters /\ i + 1 \in 1 .. (N + 1) /\ N + 1 \in 1 .. (N + 1)
    BY <1>2, <1>5 DEF FrameType, Filters
  <2>3. PICK a \in DataAnswers(i, top) :
          \/ Returns
          \/ Calls(<<Frame("commonContinue", i), afterDataLoop(DataNext(top, i, a))>>)
          \/ Calls(<<[DataNext(top, i, a) EXCEPT !.at = i + 1]>>)
          \/ Calls(<<afterDataLoop(DataNext(top, i, a))>>)
    BY <2>1, Zenon DEF decodeDataCallback, DataNext
  <2>4. a.trailers \in BOOLEAN
    BY <1>2, <2>2, DataAnswerFacts
  <2> DEFINE c == Frame("commonContinue", i)
             next == DataNext(top, i, a)
             e == afterDataLoop(next)
             f == [next EXCEPT !.at = i + 1]
  <2>5. c.op = "commonContinue"
    BY FrameOp
  <2> HIDE DEF next
  <2>6. ASSUME NEW p \in 1 .. (N + 1)
         PROVE  [next EXCEPT !.at = p].op = "decodeData"
    <3> DEFINE g == [DataNext(top, i, a) EXCEPT !.at = p]
    <3>1. g \in FrameType /\ g.op = top.op /\ g.at = p /\ (g.buffered <=> top.buffered)
      BY <1>2, <2>2, <2>4, DataNextFields
    <3> QED BY <1>1, <3>1 DEF next
  <2>7. e.op = "decodeData"
    BY <2>2, <2>6 DEF afterDataLoop
  <2>8. f.op = "decodeData"
    BY <2>2, <2>6
  <2>9. Returns \/ Calls(<<c, e>>) \/ Calls(<<f>>) \/ Calls(<<e>>)
    BY <2>3 DEF next
  <2> HIDE DEF c, e, f
  <2>10. CASE Returns
    BY <1>1, <2>10, QuietReturns
  <2>11. CASE Calls(<<c, e>>)
    BY <1>1, <2>5, <2>7, <2>11, QuietTwo
  <2>12. CASE Calls(<<f>>)
    BY <1>1, <2>8, <2>12, QuietOne
  <2>13. CASE Calls(<<e>>)
    BY <1>1, <2>7, <2>13, QuietOne
  <2> QED BY <2>9, <2>10, <2>11, <2>12, <2>13
<1> QED BY <1>3, <1>4, <1>5

\* decodeData of what a trailers callback has added.
LEMMA decodeDataAboveCallback ==
    ASSUME Cautious, ControlInv, ResponseInv, decodeData,
           2 \in 1 .. Len(stack), stack[2].op = "trailersCallback"
    PROVE  ResponseInv'
<1> DEFINE i == top.at
           end == top.end /\ ~fm.trailers
<1>1. stack # <<>> /\ top.op = "decodeData"
  BY DEF decodeData, Runs
<1>2. /\ top = stack[1] /\ top \in FrameType /\ stack \in Seq(FrameType)
      /\ fm \in ManagerType /\ PauseInv(fm) /\ EndInv(fm)
      /\ N \in Nat /\ N > 0
  BY <1>1, TopFacts
<1>3. PICK h \in 0 .. N : /\ Reach(fm, stack, h) /\ FrameInv(top, fm, stack, h)
                          /\ TopInv(top, fm, h)
  BY <1>1, TopFacts
<1>4. fm.inTrailers /\ (fm.localComplete => fm.aborted) /\ QuietData(top)
  <2>1. QuietFrame(stack[2], stack, 2, fm)
    BY DEF ResponseInv
  <2> QED BY <1>2, <2>1 DEF QuietFrame
<1>5. CASE i > N
  <2>1. Returns /\ fm' = fm
    BY <1>4, <1>5 DEF decodeData, Returns, QuietData
  <2> QED BY <1>1, <1>4, <2>1, AboveCallback DEF QuietData
<1>6. CASE ~(i > N)
  <2>1. i \in Filters /\ i # N + 1 /\ i \in Nat
    BY <1>2, <1>6, SMTT(30) DEF FrameType, Filters
  <2>2. ~fm.localComplete
    BY <1>1, <1>3, <2>1 DEF TopInv
  <2>3. CASE stoppedAll(fm, i)
    <3> DEFINE b == fm.iter[i] = "StopAllWatermark"
               s == [fm EXCEPT !.streaming = b]
    <3>1. fm' = commonHandleBufferData(s, top) /\ Returns
      BY <1>6, <2>3 DEF decodeData, StoppedAllAt
    <3>2. /\ s \in ManagerType /\ SameIteration(fm, s) /\ PauseInv(s)
          /\ s.localComplete = fm.localComplete
      BY <1>2, StreamingFields
    <3> HIDE DEF s
    <3>3. /\ SameIteration(s, fm')
          /\ fm'.localComplete /\ s.inTrailers => s.localComplete \/ fm'.aborted
      BY <1>2, <3>1, <3>2, HandleBufferFields
    <3>4. fm'.inTrailers /\ (fm'.localComplete => fm'.aborted)
      BY <1>4, <2>2, <3>2, <3>3 DEF SameIteration
    <3> QED BY <1>1, <3>1, <3>4, AboveCallback
  <2>4. CASE ~stoppedAll(fm, i) /\ AtEndOfStream(i)
    <3>1. Returns /\ fm' = fm
      BY <1>6, <2>4 DEF decodeData
    <3> QED BY <1>1, <1>4, <3>1, AboveCallback
  <2>5. CASE ~stoppedAll(fm, i) /\ ~AtEndOfStream(i)
    <3>1. decodeDataCallback(top)
      BY <1>6, <2>5 DEF decodeData
    <3>2. PICK a \in DataAnswers(i, top) :
            LET back == DataBack(i, end, a)
            IN  IF back.aborted THEN Returns /\ fm' = back
                ELSE /\ fm' = AfterData(back, top, a.status)
                     /\ Calls(IF ContinuesInline(back, top, a.status)
                              THEN <<Frame("commonContinue", i),
                                     afterDataLoop(DataNext(top, i, a))>>
                              ELSE IF a.status = "Continue"
                              THEN <<[DataNext(top, i, a) EXCEPT !.at = i + 1]>>
                              ELSE <<afterDataLoop(DataNext(top, i, a))>>)
      BY <3>1, Zenon DEF decodeDataCallback, DataBack, DataNoted, DataNext
    <3> DEFINE back == DataBack(i, end, a)
    <3>3. /\ a.ending \in EndingKinds /\ a.trailers \in BOOLEAN /\ a.status \in DataStatuses
          /\ i = N => a.status = "StopIterationNoBuffer" /\ a.trailers = FALSE
          /\ a.trailers => top.end
      BY <1>2, <2>1, DataAnswerFacts
    <3>4. a.ending # "encode" /\ (a.status = "Continue" => canIterate(fm, i))
      <4>1. ~Mishandled(i, top, a)
        BY <1>2, <2>1, DataAnswerFacts
      <4> QED BY <1>4, <4>1 DEF Mishandled
    <3>5. end \in BOOLEAN /\ (end => top.end) /\ (top.end => fm.remoteComplete)
      BY <1>2, <1>3 DEF FrameType, ManagerType, FrameInv
    <3>6. ~fm.localComplete
      BY <2>2
    <3> HIDE DEF end
    <3>7. /\ back \in ManagerType /\ PauseInv(back)
          /\ back.iter = fm.iter /\ (back.inTrailers <=> fm.inTrailers)
          /\ (back.above => back.paused = 1)
          /\ back.localComplete => back.aborted \/ a.ending = "encode"
      BY <1>2, <2>1, <3>5, <3>6, DataBackFacts
    <3>8. CASE back.aborted
      <4>1. Returns /\ fm' = back
        BY <3>2, <3>8
      <4> HIDE DEF back
      <4> QED BY <1>1, <1>4, <3>7, <3>8, <4>1, AboveCallback
    <3>9. CASE ~back.aborted
      <4>1. ~ContinuesInline(back, top, a.status)
        BY <3>4, <3>7 DEF ContinuesInline, canIterate
      <4>2. DataNext(top, i, a) = top
        BY <1>4, <3>3 DEF DataNext, QuietData
      <4>3. /\ fm' = AfterData(back, top, a.status)
            /\ a.status = "Continue" => Calls(<<[top EXCEPT !.at = i + 1]>>)
            /\ a.status # "Continue" => Calls(<<afterDataLoop(top)>>)
        BY <3>2, <3>9, <4>1, <4>2
      <4> HIDE DEF back
      <4>4. fm' = AfterData(back, top, a.status)
        BY <4>3
      <4>5. SameBut(back, fm') /\ IterationKept(back, fm', i, a.status)
        BY <1>2, <2>1, <3>3, <3>7, <4>4, AfterDataFields
      <4>6. fm'.localComplete /\ back.inTrailers => back.localComplete \/ fm'.aborted
        BY <1>2, <2>1, <3>3, <3>7, <4>4, AfterDataFields
      <4>7. fm'.inTrailers /\ (fm'.localComplete => fm'.aborted)
        BY <1>4, <3>4, <3>7, <3>9, <4>5, <4>6 DEF SameBut
      <4>8. CASE a.status = "Continue"
        <5> DEFINE p == i + 1
                   f == [top EXCEPT !.at = p]
        <5>1. Calls(<<f>>)
          BY <4>3, <4>8
        <5>2. p \in 1 .. (N + 1) /\ p = i + 1
          BY <1>2, <2>1 DEF Filters
        <5> HIDE DEF p
        <5>3. f.op = top.op /\ f.at = p /\ f.end = top.end /\ f.mark = top.mark
          BY <1>2, <5>2 DEF FrameType
        <5> HIDE DEF f
        <5>4. QuietData(f)
          BY <1>4, <5>3 DEF QuietData
        <5> QED BY <1>1, <4>7, <5>1, <5>4, AboveCallback
      <4>9. CASE a.status # "Continue"
        <5> DEFINE p == N + 1
                   f == [top EXCEPT !.at = p]
        <5>1. Calls(<<f>>)
          BY <4>3, <4>9 DEF afterDataLoop
        <5>2. p \in 1 .. (N + 1) /\ p = N + 1
          BY <1>2
        <5> HIDE DEF p
        <5>3. f.op = top.op /\ f.at = p /\ f.end = top.end /\ f.mark = top.mark
          BY <1>2, <5>2 DEF FrameType
        <5> HIDE DEF f
        <5>4. QuietData(f)
          BY <1>4, <5>3 DEF QuietData
        <5> QED BY <1>1, <4>7, <5>1, <5>4, AboveCallback
      <4> QED BY <4>8, <4>9
    <3> QED BY <3>8, <3>9
  <2> QED BY <2>3, <2>4, <2>5
<1> QED BY <1>5, <1>6

\* An event of the main loop.
LEMMA mainQuiet ==
    ASSUME ControlInv, ResponseInv,
           \/ requestHeaders \/ requestData \/ requestTrailers \/ responseComplete
           \/ \E i \in Others : continueDecoding(i)
    PROVE  ResponseInv'
<1>1. stack = <<>>
  BY DEF requestHeaders, requestData, requestTrailers, responseComplete, continueDecoding,
         MainLoop
<1>1a. ~fm'.inTrailers
  <2>1. 1 .. Len(stack) = {}
    BY <1>1
  <2> QED BY <2>1, MarkKept DEF ResponseInv
<1>2. ASSUME stack' = <<>> PROVE ResponseInv'
  <2>1. 1 .. Len(stack') = {}
    BY <1>2
  <2> QED BY <1>1a, <1>2, <2>1 DEF ResponseInv
<1>3. ASSUME NEW f, stack' = <<f>>, f.op # "trailersCallback",
             f.op = "decodeTrailers" => ~fm'.localComplete
      PROVE  ResponseInv'
  <2>1. Len(stack') = 1 /\ stack'[1] = f
    BY <1>3
  <2>2. \A k \in 1 .. Len(stack') : stack'[k] = f
    BY <2>1
  <2> QED BY <1>1a, <1>3, <2>1, <2>2 DEF ResponseInv, QuietFrame
<1>4. CASE requestHeaders
  <2>1. PICK end \in BOOLEAN : stack' = <<decodeHeadersCall(1, end)>>
    BY <1>4 DEF requestHeaders
  <2> DEFINE f == decodeHeadersCall(1, end)
  <2>2. f.op = "decodeHeaders"
    BY DEF decodeHeadersCall, Frame
  <2> HIDE DEF f
  <2>3. stack' = <<f>>
    BY <2>1 DEF f
  <2> QED BY <1>3, <2>2, <2>3
<1>5. CASE requestData
  <2>1. PICK end, d :
          stack' = decodeDataCall([Frame("decodeData", 1) EXCEPT !.end = end, !.data = d])
    BY <1>5 DEF requestData
  <2> DEFINE f == [Frame("decodeData", 1) EXCEPT !.end = end, !.data = d]
  <2>2. f.op = "decodeData"
    BY DEF Frame
  <2>3. stack' = <<>> \/ stack' = <<f>>
    BY <2>1 DEF decodeDataCall
  <2> HIDE DEF f
  <2> QED BY <1>2, <1>3, <2>2, <2>3
<1>6. CASE requestTrailers
  <2> DEFINE f == Frame("decodeTrailers", 1)
  <2>1. /\ stack' = <<>> \/ (stack' = <<f>> /\ ~fm.localComplete)
        /\ fm' = [fm EXCEPT !.remoteComplete = TRUE, !.trailers = TRUE]
    BY <1>6 DEF requestTrailers, decodeTrailersCall
  <2>2. f.op = "decodeTrailers"
    BY FrameOp
  <2>3. fm'.localComplete = fm.localComplete
    BY <2>1 DEF ControlInv, Types, ManagerType
  <2> HIDE DEF f
  <2>4. stack' = <<>> \/ (stack' = <<f>> /\ ~fm'.localComplete)
    BY <2>1, <2>3
  <2> QED BY <1>2, <1>3, <2>2, <2>4
<1>7. CASE responseComplete
  BY <1>1, <1>2, <1>7 DEF responseComplete
<1>8. CASE \E i \in Others : continueDecoding(i)
  <2>1. PICK i \in Others : stack' = <<Frame("commonContinue", i)>>
    BY <1>8 DEF continueDecoding
  <2> DEFINE f == Frame("commonContinue", i)
  <2>2. f.op = "commonContinue"
    BY FrameOp
  <2> HIDE DEF f
  <2>3. stack' = <<f>>
    BY <2>1 DEF f
  <2> QED BY <1>3, <2>2, <2>3
<1> QED BY <1>4, <1>5, <1>6, <1>7, <1>8

\* A trailers callback in progress is the innermost function, or waits for the
\* data that it has added, and notices a response that was sent meanwhile.
THEOREM ResponseInvariance == ASSUME Cautious PROVE Spec => []ResponseInv
<1>1. Init => ResponseInv
  <2> SUFFICES ASSUME Init PROVE ResponseInv
    OBVIOUS
  <2>1. stack = <<>> /\ 1 .. Len(stack) = {} /\ ~fm.inTrailers
    BY DEF Init
  <2> QED BY <2>1 DEF ResponseInv
<1>2. ControlInv /\ ResponseInv /\ [Next]_vars => ResponseInv'
  <2> SUFFICES ASSUME ControlInv, ResponseInv, [Next]_vars PROVE ResponseInv'
    OBVIOUS
  <2>1. CASE UNCHANGED vars
    BY <2>1 DEF ResponseInv, QuietFrame, QuietData, vars
  <2>2. CASE Next
    <3>2. CASE decodeData
      <4>1. stack # <<>> /\ stack \in Seq(FrameType)
        BY <3>2 DEF decodeData, Runs, ControlInv, Types
      <4>2. CASE 2 \in 1 .. Len(stack) /\ stack[2].op = "trailersCallback"
        BY <3>2, <4>2, decodeDataAboveCallback
      <4>3. CASE ~(2 \in 1 .. Len(stack) /\ stack[2].op = "trailersCallback")
        <5>1. \A k \in 2 .. Len(stack) : stack[k].op # "trailersCallback"
          BY <4>1, <4>3, NoneWaits
        <5> QED BY <3>2, <5>1, decodeDataQuiet
      <4> QED BY <4>2, <4>3
    <3>3. CASE Step /\ ~decodeData
      BY <3>3, continueQuiet, decodeHeadersQuiet, decodeTrailersQuiet,
         trailersCallbackQuiet DEF Step
    <3>4. CASE \/ requestHeaders \/ requestData \/ requestTrailers \/ responseComplete
               \/ \E i \in Others : continueDecoding(i)
      BY <3>4, mainQuiet
    <3> QED BY <2>2, <3>2, <3>3, <3>4 DEF Next
  <2> QED BY <2>1, <2>2
<1> QED BY <1>1, <1>2, ControlInvariance, PTL DEF Spec

\* No filter is called after the response: whoever sent it, from whatever
\* callback, while the request was iterated over or continued, and also when
\* filters contend.
THEOREM ResponseIsFinal == ASSUME Cautious PROVE Spec => NoCallbackAfterResponse
<1>1. ControlInv /\ ResponseInv /\ [Next]_vars =>
        [seen' # seen => ~fm.localComplete]_vars
  <2> SUFFICES ASSUME ControlInv, ResponseInv, Next, seen' # seen
               PROVE  ~fm.localComplete
    BY DEF vars
  <2>1. decodeHeaders \/ decodeData \/ decodeTrailers
    BY DEF Next, Step, commonContinue, doHeaders, doData, doTrailers, continued,
           maybeContinueDecoding, trailersCallback,
           requestHeaders, requestData, requestTrailers, responseComplete, continueDecoding
  <2>2. /\ stack # <<>> /\ ~(top.at > N)
        /\ top.op \in {"decodeHeaders", "decodeData", "decodeTrailers"}
    BY <2>1 DEF decodeHeaders, decodeData, decodeTrailers, Runs
  <2>3. top = stack[1] /\ top \in FrameType /\ N \in Nat
    BY <2>2, TopFacts
  <2>4. PICK h \in 0 .. N : TopInv(top, fm, h)
    BY <2>2, TopFacts
  <2>5. top.at # N + 1
    BY <2>2, <2>3 DEF FrameType
  <2> QED BY <2>2, <2>3, <2>4, <2>5 DEF TopInv, ResponseInv
<1> QED BY <1>1, ControlInvariance, ResponseInvariance, PTL DEF Spec, NoCallbackAfterResponse

\* The manager's ASSERTs hold: a filter is continued only when it is stopped,
\* it is given the headers once, and data and trailers only after them, trailers
\* are not decoded inside a trailers callback, and the buffer is there where a
\* body was added and where the end of the stream is not at hand.
THEOREM ManagerAsserts == ASSUME Cautious PROVE Spec => []StateAsAsserted
<1>1. ControlInv /\ ResponseInv => StateAsAsserted
  <2> SUFFICES ASSUME ControlInv, ResponseInv PROVE StateAsAsserted
    OBVIOUS
  <2>1. fm \in ManagerType /\ PauseInv(fm) /\ stack \in Seq(FrameType)
    BY DEF ControlInv, Types
  <2>2. TypeOK
    <3>1. \A i \in Filters : fm.iter[i] \in Iterations
      BY <2>1 DEF ManagerType
    <3>2. \A k \in DOMAIN stack : stack[k].at \in 1 .. (N + 1) /\ stack[k].mark \in 0 .. N
      <4>1. ASSUME NEW k \in DOMAIN stack PROVE stack[k] \in FrameType
        BY <2>1
      <4> QED BY <4>1 DEF FrameType
    <3> QED BY <2>1, <3>1, <3>2 DEF TypeOK, Iterations, PauseInv
  <2>3. ASSUME stack # <<>>, top.at <= N
        PROVE  /\ top.op = "commonContinue" /\ canContinue(fm) => ~canIterate(fm, top.at)
               /\ top.op = "maybeContinueDecoding" => fm.exists
               /\ top.op = "decodeHeaders" =>
                    canIterate(fm, top.at) /\ ~fm.headersContinued[top.at]
               /\ top.op \in {"decodeData", "decodeTrailers"} /\ canIterate(fm, top.at)
                    => fm.headersContinued[top.at]
               /\ Called("decodeTrailers") => ~fm.inTrailers
               /\ Called("decodeData") /\ fm.remoteComplete /\ ~fm.trailers /\ ~fm.exists
                    => top.end
    <3>1. top = stack[1] /\ top \in FrameType /\ N \in Nat
      BY <2>3, TopFacts
    <3>2. PICK h \in 0 .. N : /\ Reach(fm, stack, h) /\ FrameInv(top, fm, stack, h)
                              /\ TopInv(top, fm, h)
      BY <2>3, TopFacts
    <3>3. top.at \in Filters /\ top.at # N + 1
      BY <2>3, <3>1 DEF FrameType, Filters
    <3>4. top.op = "commonContinue" /\ canContinue(fm) => ~canIterate(fm, top.at)
      BY <3>2 DEF TopInv, canContinue
    <3>5. ASSUME top.op = "decodeHeaders"
          PROVE  canIterate(fm, top.at) /\ ~fm.headersContinued[top.at]
      <4>1. top.at > h
        BY <3>1, <3>2, <3>5 DEF TopInv
      <4> QED BY <3>2, <3>3, <4>1 DEF Reach
    <3>6. ASSUME top.op \in {"decodeData", "decodeTrailers"}, canIterate(fm, top.at)
          PROVE  fm.headersContinued[top.at]
      <4>1. top.at <= h
        BY <3>2, <3>3, <3>6 DEF FrameInv
      <4>2. top.at < h \/ top.at = h
        BY <3>1, <3>3, <4>1 DEF Filters
      <4> QED BY <3>1, <3>2, <3>3, <3>6, <4>2 DEF Reach
    <3>7. top.op = "decodeTrailers" => ~fm.inTrailers
      BY <2>3, NoneWaits
    <3>8. /\ top.op = "maybeContinueDecoding" => fm.exists
          /\ top.op = "decodeData" /\ fm.remoteComplete /\ ~fm.trailers /\ ~fm.exists
               => top.end
      BY <3>2, <3>3 DEF TopInv
    <3> QED BY <3>4, <3>5, <3>6, <3>7, <3>8 DEF Called
  <2> QED BY <2>2, <2>3 DEF StateAsAsserted, AssertionsHold
<1> QED BY <1>1, ControlInvariance, ResponseInvariance, PTL

-------------------------------------------------------------------------------
(* The codec's data at the terminal filter.                                *)

\* x holds none of the codec's data.
NoChunk(x) == \A k \in 1 .. Len(x) : x[k] \notin Chunks

\* The codec's data in x: in order, none of it later than the first n frames,
\* and none of that in a later than what b holds.
Ordered(x) ==
    \A j, k \in 1 .. Len(x) : j < k /\ x[j] \in Chunks /\ x[k] \in Chunks => x[j] < x[k]
Sent(x, n) == \A k \in 1 .. Len(x) : x[k] \in Chunks => x[k] <= Chunk(n)
Before(a, b) ==
    \A j \in 1 .. Len(a), k \in 1 .. Len(b) : a[j] \in Chunks /\ b[k] \in Chunks => a[j] < b[k]

\* A frame that carries the codec's data to the filters for the first time.
Carries(f) ==
    f.op = "decodeData" /\ ~f.buffered /\ f.at # N + 1 /\ ~NoChunk(f.data)

\* That is the last frame of the codec and it is the only function in progress.
\* Data that is buffered already is held by a filter that it has still to reach.
CarriesLast(f, s, given, n) ==
    /\ n > 0 /\ f.data = <<Chunk(n)>>
    /\ Sent(given, n - 1) /\ Sent(s.buffer, n - 1)
    /\ NoChunk(s.buffer) \/ \E j \in Others : j >= f.at /\ ~canIterate(s, j)

\* The codec's data has been given to the terminal filter in order, what is
\* buffered comes after that, and what is on its way after both.
OrderInv ==
    /\ seen \in [Filters -> Seq(Nat)]
    /\ Ordered(seen[N]) /\ Sent(seen[N], codec.chunks) /\ Sent(fm.buffer, codec.chunks)
    /\ ~fm.localComplete => Ordered(fm.buffer) /\ Before(seen[N], fm.buffer)
    /\ stack # <<>> /\ Carries(stack[1]) =>
           Len(stack) = 1 /\ CarriesLast(stack[1], fm, seen[N], codec.chunks)

\* What is not the codec's data.
LEMMA OtherData ==
    ASSUME NEW i \in Filters
    PROVE  /\ Headers \in Nat \ Chunks /\ Body(i) \in Nat \ Chunks
           /\ Extra(i) \in Nat \ Chunks /\ Trailers \in Nat \ Chunks
           /\ EndStream \in Nat \ Chunks
BY FiltersAssumption DEF Headers, Body, Extra, Trailers, EndStream, Chunks, Chunk, Filters

\* A sequence that holds none of it.
LEMMA NoChunkFacts ==
    ASSUME NEW x \in Seq(Nat), NoChunk(x), NEW y \in Seq(Nat), NEW n
    PROVE  /\ Ordered(x) /\ Sent(x, n) /\ Before(x, y) /\ Before(y, x)
BY DEF NoChunk, Ordered, Sent, Before

LEMMA NoChunkJoin ==
    ASSUME NEW x \in Seq(Nat), NEW y \in Seq(Nat), NoChunk(x), NoChunk(y)
    PROVE  x \o y \in Seq(Nat) /\ NoChunk(x \o y)
<1>1. /\ Len(x \o y) = Len(x) + Len(y) /\ Len(x) \in Nat /\ Len(y) \in Nat
      /\ \A m \in 1 .. Len(x) : (x \o y)[m] = x[m]
      /\ \A m \in 1 .. (Len(x) + Len(y)) : m > Len(x) => (x \o y)[m] = y[m - Len(x)]
      /\ x \o y \in Seq(Nat)
  BY Concatenation
<1>2. ASSUME NEW k \in 1 .. Len(x \o y) PROVE (x \o y)[k] \notin Chunks
  <2>1. CASE k \in 1 .. Len(x)
    BY <1>1, <2>1 DEF NoChunk
  <2>2. CASE k > Len(x)
    <3>1. k - Len(x) \in 1 .. Len(y) /\ (x \o y)[k] = y[k - Len(x)]
      BY <1>1, <2>2
    <3> QED BY <3>1 DEF NoChunk
  <2> QED BY <1>1, <2>1, <2>2
<1> QED BY <1>1, <1>2 DEF NoChunk

LEMMA EmptyHasNone == NoChunk(<<>>)
BY DEF NoChunk

LEMMA SingleHasNone ==
    ASSUME NEW v, v \in Nat \ Chunks
    PROVE  <<v>> \in Seq(Nat) /\ NoChunk(<<v>>)
BY DEF NoChunk

\* The end of the stream is no data, nor is what comes before it in a call.
LEMMA EndMarkHasNone ==
    ASSUME NEW e \in BOOLEAN, NEW i \in Filters
    PROVE  /\ EndMark(e) \in Seq(Nat) /\ NoChunk(EndMark(e))
           /\ <<Headers>> \o EndMark(e) \in Seq(Nat) /\ NoChunk(<<Headers>> \o EndMark(e))
<1> DEFINE x == EndMark(e)
           y == <<Headers>>
<1>1. x \in Seq(Nat) /\ NoChunk(x)
  BY OtherData, EmptyHasNone, SingleHasNone DEF EndMark
<1>2. y \in Seq(Nat) /\ NoChunk(y)
  BY OtherData, SingleHasNone
<1> HIDE DEF x, y
<1>3. y \o x \in Seq(Nat) /\ NoChunk(y \o x)
  BY <1>1, <1>2, NoChunkJoin
<1> QED BY <1>1, <1>3 DEF x, y

\* Concatenation and order.
LEMMA OrderedJoin ==
    ASSUME NEW x \in Seq(Nat), NEW y \in Seq(Nat), Ordered(x), Ordered(y), Before(x, y)
    PROVE  Ordered(x \o y)
<1>1. /\ Len(x \o y) = Len(x) + Len(y) /\ Len(x) \in Nat /\ Len(y) \in Nat
      /\ \A m \in 1 .. Len(x) : (x \o y)[m] = x[m]
      /\ \A m \in 1 .. (Len(x) + Len(y)) : m > Len(x) => (x \o y)[m] = y[m - Len(x)]
  BY Concatenation
<1> SUFFICES ASSUME NEW j \in 1 .. Len(x \o y), NEW k \in 1 .. Len(x \o y), j < k,
                    (x \o y)[j] \in Chunks, (x \o y)[k] \in Chunks
             PROVE  (x \o y)[j] < (x \o y)[k]
  BY DEF Ordered
<1>2. CASE k \in 1 .. Len(x)
  <2>1. j \in 1 .. Len(x)
    BY <1>1, <1>2
  <2> QED BY <1>1, <1>2, <2>1 DEF Ordered
<1>3. CASE ~(k \in 1 .. Len(x)) /\ j \in 1 .. Len(x)
  <2>1. k - Len(x) \in 1 .. Len(y) /\ (x \o y)[k] = y[k - Len(x)] /\ (x \o y)[j] = x[j]
    BY <1>1, <1>3
  <2> QED BY <1>3, <2>1 DEF Before
<1>4. CASE ~(k \in 1 .. Len(x)) /\ ~(j \in 1 .. Len(x))
  <2>1. /\ k - Len(x) \in 1 .. Len(y) /\ (x \o y)[k] = y[k - Len(x)]
        /\ j - Len(x) \in 1 .. Len(y) /\ (x \o y)[j] = y[j - Len(x)]
        /\ j - Len(x) < k - Len(x)
    BY <1>1, <1>4
  <2> QED BY <2>1 DEF Ordered
<1> QED BY <1>2, <1>3, <1>4

LEMMA SentJoin ==
    ASSUME NEW x \in Seq(Nat), NEW y \in Seq(Nat), NEW n, Sent(x, n), Sent(y, n)
    PROVE  Sent(x \o y, n)
<1>1. /\ Len(x \o y) = Len(x) + Len(y) /\ Len(x) \in Nat /\ Len(y) \in Nat
      /\ \A m \in 1 .. Len(x) : (x \o y)[m] = x[m]
      /\ \A m \in 1 .. (Len(x) + Len(y)) : m > Len(x) => (x \o y)[m] = y[m - Len(x)]
  BY Concatenation
<1> SUFFICES ASSUME NEW k \in 1 .. Len(x \o y), (x \o y)[k] \in Chunks
             PROVE  (x \o y)[k] <= Chunk(n)
  BY DEF Sent
<1>2. CASE k \in 1 .. Len(x)
  BY <1>1, <1>2 DEF Sent
<1>3. CASE ~(k \in 1 .. Len(x))
  <2>1. k - Len(x) \in 1 .. Len(y) /\ (x \o y)[k] = y[k - Len(x)]
    BY <1>1, <1>3
  <2> QED BY <2>1 DEF Sent
<1> QED BY <1>2, <1>3

LEMMA BeforeJoin ==
    ASSUME NEW x \in Seq(Nat), NEW y \in Seq(Nat), NEW z \in Seq(Nat)
    PROVE  /\ Before(x, z) /\ Before(y, z) => Before(x \o y, z)
           /\ Before(z, x) /\ Before(z, y) => Before(z, x \o y)
<1>1. /\ Len(x \o y) = Len(x) + Len(y) /\ Len(x) \in Nat /\ Len(y) \in Nat
      /\ \A m \in 1 .. Len(x) : (x \o y)[m] = x[m]
      /\ \A m \in 1 .. (Len(x) + Len(y)) : m > Len(x) => (x \o y)[m] = y[m - Len(x)]
  BY Concatenation
<1>2. ASSUME NEW k \in 1 .. Len(x \o y)
      PROVE  \/ k \in 1 .. Len(x) /\ (x \o y)[k] = x[k]
             \/ k - Len(x) \in 1 .. Len(y) /\ (x \o y)[k] = y[k - Len(x)]
  BY <1>1
<1>3. ASSUME Before(x, z), Before(y, z),
             NEW j \in 1 .. Len(x \o y), NEW k \in 1 .. Len(z),
             (x \o y)[j] \in Chunks, z[k] \in Chunks
      PROVE  (x \o y)[j] < z[k]
  BY <1>2, <1>3 DEF Before
<1>4. ASSUME Before(z, x), Before(z, y),
             NEW j \in 1 .. Len(z), NEW k \in 1 .. Len(x \o y),
             z[j] \in Chunks, (x \o y)[k] \in Chunks
      PROVE  z[j] < (x \o y)[k]
  BY <1>2, <1>4 DEF Before
<1> QED BY <1>3, <1>4 DEF Before

\* The next frame of the codec comes after those that it has sent.
LEMMA NextChunk ==
    ASSUME NEW n \in Nat, n > 0, NEW x \in Seq(Nat)
    PROVE  /\ <<Chunk(n)>> \in Seq(Nat)
           /\ Ordered(<<Chunk(n)>>) /\ Sent(<<Chunk(n)>>, n)
           /\ Sent(x, n - 1) => Before(x, <<Chunk(n)>>) /\ Sent(x, n)
<1>0. N \in Nat
  BY FiltersAssumption
<1> DEFINE y == <<Chunk(n)>>
<1>1. y \in Seq(Nat) /\ Len(y) = 1 /\ y[1] = N + n
  BY <1>0 DEF Chunk
<1> HIDE DEF y
<1>2. Ordered(y) /\ Sent(y, n)
  BY <1>0, <1>1 DEF Ordered, Sent, Chunk
<1>3. ASSUME Sent(x, n - 1) PROVE Before(x, y) /\ Sent(x, n)
  <2>1. \A k \in 1 .. Len(x) : x[k] \in Nat
    OBVIOUS
  <2>2. \A k \in 1 .. Len(x) : x[k] \in Chunks => x[k] < N + n
    BY <1>0, <1>3, <2>1 DEF Sent, Chunk
  <2>3. Sent(x, n)
    BY <1>0, <2>1, <2>2 DEF Sent, Chunk
  <2>4. Before(x, y)
    BY <1>1, <2>2 DEF Before
  <2> QED BY <2>3, <2>4
<1> QED BY <1>1, <1>2, <1>3 DEF y

\* What a filter is given.
LEMMA GivenFields ==
    ASSUME seen \in [Filters -> Seq(Nat)], NEW i \in Filters, NEW d \in Seq(Nat), Given(i, d)
    PROVE  /\ seen' \in [Filters -> Seq(Nat)]
           /\ seen'[N] = IF i = N THEN seen[N] \o d ELSE seen[N]
<1>1. N \in Filters
  BY FiltersAssumption DEF Filters
<1>2. seen[i] \o d \in Seq(Nat)
  OBVIOUS
<1> DEFINE w == seen[i] \o d
<1>3. seen' = [seen EXCEPT ![i] = w] /\ w \in Seq(Nat)
  BY <1>2 DEF Given
<1> HIDE DEF w
<1>4. seen' \in [Filters -> Seq(Nat)] /\ seen'[N] = IF i = N THEN w ELSE seen[N]
  BY <1>1, <1>3
<1> QED BY <1>4 DEF w

\* A step that sends none of the codec's data, and may empty the buffer.
LEMMA QuietOrder ==
    ASSUME ControlInv, OrderInv, codec'.chunks = codec.chunks,
           fm.localComplete => fm'.localComplete, seen' \in [Filters -> Seq(Nat)],
           NEW x \in Seq(Nat), NoChunk(x), seen'[N] \in {seen[N], seen[N] \o x},
           NEW y \in Seq(Nat), NoChunk(y),
           fm'.buffer \in {<<>>, fm.buffer, fm.buffer \o y},
           stack' # <<>> => ~Carries(stack'[1])
    PROVE  OrderInv'
<1> DEFINE a == seen[N]
           b == fm.buffer
           c == seen'[N]
           d == fm'.buffer
           n == codec.chunks
<1>1. a \in Seq(Nat) /\ b \in Seq(Nat)
  BY FiltersAssumption DEF OrderInv, ControlInv, Types, ManagerType, Filters
<1>2. /\ Ordered(a) /\ Sent(a, n) /\ Sent(b, n)
      /\ ~fm.localComplete => Ordered(b) /\ Before(a, b)
  BY DEF OrderInv
<1>3. c \in {a, a \o x} /\ d \in {<<>>, b, b \o y}
  OBVIOUS
<1> HIDE DEF a, b, c, d, n
<1>4. c \in Seq(Nat) /\ Ordered(c) /\ Sent(c, n)
  <2>1. Ordered(x) /\ Sent(x, n) /\ Before(a, x)
    BY <1>1, NoChunkFacts
  <2>2. a \o x \in Seq(Nat) /\ Ordered(a \o x) /\ Sent(a \o x, n)
    BY <1>1, <1>2, <2>1, OrderedJoin, SentJoin
  <2> QED BY <1>1, <1>2, <1>3, <2>2
<1>5. \A z \in Seq(Nat) : Before(a, z) => Before(c, z)
  <2> TAKE z \in Seq(Nat)
  <2>1. Before(x, z)
    BY NoChunkFacts
  <2>2. CASE c = a
    BY <2>2
  <2>3. CASE c = a \o x
    BY <1>1, <2>1, <2>3, BeforeJoin
  <2> QED BY <1>3, <2>2, <2>3
<1>6. CASE d = <<>>
  <2>1. d \in Seq(Nat) /\ NoChunk(d)
    BY <1>6, EmptyHasNone
  <2>2. Sent(d, n) /\ Ordered(d) /\ Before(c, d)
    BY <1>4, <2>1, NoChunkFacts
  <2> QED BY <1>4, <2>2 DEF OrderInv, c, d, n
<1>7. CASE d \in {b, b \o y}
  <2>1. Ordered(y) /\ Sent(y, n) /\ Before(a, y) /\ Before(b, y)
    BY <1>1, NoChunkFacts
  <2>2. Sent(d, n)
    BY <1>1, <1>2, <1>7, <2>1, SentJoin
  <2>3. ASSUME ~fm'.localComplete PROVE Ordered(d) /\ Before(c, d)
    <3>1. Ordered(b) /\ Before(a, b)
      BY <1>2, <2>3
    <3>2. Ordered(b \o y) /\ Before(a, b \o y) /\ b \o y \in Seq(Nat)
      BY <1>1, <2>1, <3>1, OrderedJoin, BeforeJoin
    <3> QED BY <1>1, <1>5, <1>7, <3>1, <3>2
  <2> QED BY <1>4, <2>2, <2>3 DEF OrderInv, c, d, n
<1> QED BY <1>3, <1>6, <1>7

\* The same when nobody is given anything.
LEMMA QuietUnseen ==
    ASSUME ControlInv, OrderInv, codec'.chunks = codec.chunks,
           fm.localComplete => fm'.localComplete, seen' = seen, fm'.buffer = fm.buffer,
           stack' # <<>> => ~Carries(stack'[1])
    PROVE  OrderInv'
<1> DEFINE x == <<>>
<1>1. x \in Seq(Nat) /\ NoChunk(x)
  BY EmptyHasNone
<1> HIDE DEF x
<1>2. seen' \in [Filters -> Seq(Nat)]
  BY DEF OrderInv
<1> QED BY <1>1, <1>2, QuietOrder

\* The functions that a step leaves on top.
LEMMA CarriesStep ==
    ASSUME ControlInv, stack # <<>>, NEW S, NEW fs \in Seq(S), stack' = fs \o Tail(stack),
           fs # <<>> => ~Carries(fs[1])
    PROVE  stack' # <<>> => ~Carries(stack'[1])
<1>1. stack \in Seq(FrameType) /\ \A k \in 2 .. Len(stack) : Waits(stack[k])
  BY DEF ControlInv, Types, StackInv
<1>2. /\ Len(fs) \in Nat
      /\ \A k \in 1 .. Len(fs) : stack'[k] = fs[k]
      /\ \A k \in 1 .. Len(stack') :
            k > Len(fs) => /\ k - Len(fs) + 1 \in 2 .. Len(stack)
                           /\ stack'[k] = stack[k - Len(fs) + 1]
      /\ stack' # <<>> => 1 \in 1 .. Len(stack')
  BY <1>1, CalledAny
<1> SUFFICES ASSUME stack' # <<>> PROVE ~Carries(stack'[1])
  OBVIOUS
<1>3. CASE fs = <<>>
  <2>1. Len(fs) = 0 /\ 1 > Len(fs)
    BY <1>3
  <2>2. Waits(stack'[1])
    BY <1>1, <1>2, <2>1
  <2> QED BY <2>2 DEF Waits, Carries
<1>4. CASE fs # <<>>
  <2>1. 1 \in 1 .. Len(fs)
    BY <1>2, <1>4
  <2> QED BY <1>2, <1>4, <2>1
<1> QED BY <1>3, <1>4

LEMMA CarriesNone ==
    ASSUME ControlInv, stack # <<>>, NEW f,
           Returns \/ (Calls(<<f>>) /\ ~Carries(f))
    PROVE  stack' # <<>> => ~Carries(stack'[1])
<1>1. CASE Returns
  <2> DEFINE fs == <<>>
             S == {f}
  <2>1. fs \in Seq(S) /\ fs = <<>> /\ stack' = fs \o Tail(stack)
    BY <1>1 DEF Returns, Calls
  <2> HIDE DEF fs, S
  <2> QED BY <2>1, CarriesStep
<1>2. CASE Calls(<<f>>) /\ ~Carries(f)
  <2> DEFINE fs == <<f>>
             S == {f}
  <2>1. fs \in Seq(S) /\ fs[1] = f /\ stack' = fs \o Tail(stack)
    BY <1>2 DEF Calls
  <2> HIDE DEF fs, S
  <2> QED BY <1>2, <2>1, CarriesStep
<1> QED BY <1>1, <1>2

LEMMA CarriesTwo ==
    ASSUME ControlInv, stack # <<>>, NEW f, NEW g, Calls(<<f, g>>), ~Carries(f)
    PROVE  stack' # <<>> => ~Carries(stack'[1])
<1> DEFINE fs == <<f, g>>
           S == {f, g}
<1>1. fs \in Seq(S) /\ fs[1] = f /\ stack' = fs \o Tail(stack)
  BY DEF Calls
<1> HIDE DEF fs, S
<1> QED BY <1>1, CarriesStep

\* commonContinue and what it calls send what is in the buffer.
LEMMA continueOrder ==
    ASSUME ControlInv, OrderInv,
           commonContinue \/ doHeaders \/ doData \/ doTrailers \/ continued
             \/ maybeContinueDecoding
    PROVE  OrderInv'
<1> DEFINE i == top.at
<1>1. stack # <<>> /\ top.op \in Continuations /\ codec' = codec /\ seen' = seen
  BY DEF commonContinue, doHeaders, doData, doTrailers, continued, maybeContinueDecoding,
         Runs, Continuations
<1>2. /\ fm \in ManagerType /\ fm.iter \in [Filters -> Iterations]
      /\ fm.fromCurrent \in [Filters -> BOOLEAN]
  BY <1>1, TopFacts DEF ManagerType
<1>3. i \in Filters
  <2>1. i \in Others /\ N \in Nat
    BY <1>1, TopFacts DEF FrameInv
  <2> QED BY <2>1 DEF Others, Filters
<1>4. fm'.buffer = fm.buffer /\ fm'.localComplete = fm.localComplete
  <2>1. CASE doData \/ doTrailers
    BY <2>1 DEF doData, doTrailers
  <2>2. CASE continued
    <3>1. fm' = [fm EXCEPT !.fromCurrent[i] = FALSE]
      BY <2>2 DEF continued
    <3> QED BY <1>2, <3>1 DEF ManagerType
  <2>3. CASE maybeContinueDecoding
    <3>1. fm' = [fm EXCEPT !.iter[i] = "StopSingleIteration"]
      BY <2>3 DEF maybeContinueDecoding
    <3> QED BY <1>2, <3>1 DEF ManagerType
  <2>4. CASE doHeaders
    <3>1. fm' = fm \/ fm' = [fm EXCEPT !.headersContinued[i] = TRUE]
      BY <2>4 DEF doHeaders
    <3> QED BY <1>2, <3>1 DEF ManagerType
  <2>5. CASE commonContinue
    <3> DEFINE u == fm.fromCurrent[i] \/ stoppedAll(fm, i)
               s == [fm EXCEPT !.iter[i] = "Continue"]
    <3>1. fm' = fm \/ fm' = [s EXCEPT !.fromCurrent[i] = u]
      BY <1>2, <2>5 DEF commonContinue, ManagerType
    <3>2. s \in ManagerType /\ s.buffer = fm.buffer /\ s.localComplete = fm.localComplete
      BY <1>2, <1>3, IterFields DEF Iterations
    <3> HIDE DEF s, u
    <3> QED BY <3>1, <3>2 DEF ManagerType
  <2> QED BY <2>1, <2>2, <2>3, <2>4, <2>5
<1>5. stack' # <<>> => ~Carries(stack'[1])
  <2>1. CASE commonContinue
    <3> DEFINE a == Frame("doHeaders", i)
               b == Frame("doData", i)
               c == Frame("doTrailers", i)
               d == Frame("continued", i)
               fs == <<a, b, c, d>>
               S == {a, b, c, d}
    <3>1. Returns \/ stack' = fs \o Tail(stack)
      BY <2>1 DEF commonContinue, Calls
    <3>2. a.op = "doHeaders"
      BY FrameOp
    <3> HIDE DEF a, b, c, d
    <3>3. fs \in Seq(S) /\ fs[1] = a
      OBVIOUS
    <3> HIDE DEF fs, S
    <3>4. CASE Returns
      BY <1>1, <3>4, CarriesNone
    <3>5. CASE stack' = fs \o Tail(stack)
      <4>1. ~Carries(fs[1])
        BY <3>2, <3>3 DEF Carries
      <4> QED BY <1>1, <3>3, <3>5, <4>1, CarriesStep
    <3> QED BY <3>1, <3>4, <3>5
  <2>2. CASE doHeaders
    <3> DEFINE end == fm.remoteComplete /\ ~fm.exists /\ ~fm.trailers
               f == decodeHeadersCall(i + 1, end)
    <3>1. Returns \/ Calls(<<f>>)
      BY <2>2 DEF doHeaders
    <3>2. f.op = "decodeHeaders"
      BY DEF decodeHeadersCall, Frame
    <3>3. ~Carries(f)
      BY <3>2 DEF Carries
    <3> HIDE DEF f
    <3> QED BY <1>1, <3>1, <3>3, CarriesNone
  <2>3. CASE doData
    <3> DEFINE end == fm.remoteComplete /\ ~fm.trailers
               f == [Frame("decodeData", commonDecodePrefix(i)) EXCEPT
                       !.buffered = TRUE, !.end = end]
    <3>1. Returns \/ Calls(<<f>>)
      BY <2>3 DEF doData, decodeDataCall, Returns
    <3>2. f.buffered
      BY DEF Frame
    <3>3. ~Carries(f)
      BY <3>2 DEF Carries
    <3> HIDE DEF f
    <3> QED BY <1>1, <3>1, <3>3, CarriesNone
  <2>4. CASE doTrailers
    <3> DEFINE f == Frame("decodeTrailers", commonDecodePrefix(i))
    <3>1. Returns \/ Calls(<<f>>)
      BY <2>4 DEF doTrailers, decodeTrailersCall, Returns
    <3>2. f.op = "decodeTrailers"
      BY FrameOp
    <3>3. ~Carries(f)
      BY <3>2 DEF Carries
    <3> HIDE DEF f
    <3> QED BY <1>1, <3>1, <3>3, CarriesNone
  <2>5. CASE continued
    <3>1. Returns
      BY <2>5 DEF continued
    <3> QED BY <1>1, <3>1, CarriesNone
  <2>6. CASE maybeContinueDecoding
    <3> DEFINE f == Frame("commonContinue", i)
    <3>1. Calls(<<f>>)
      BY <2>6 DEF maybeContinueDecoding
    <3>2. f.op = "commonContinue"
      BY FrameOp
    <3>3. ~Carries(f)
      BY <3>2 DEF Carries
    <3> HIDE DEF f
    <3> QED BY <1>1, <3>1, <3>3, CarriesNone
  <2> QED BY <2>1, <2>2, <2>3, <2>4, <2>5, <2>6
<1> QED BY <1>1, <1>4, <1>5, QuietUnseen

\* Headers are not the codec's data, nor is a body that a filter adds to them.
LEMMA decodeHeadersOrder ==
    ASSUME ControlInv, OrderInv, decodeHeaders PROVE OrderInv'
<1> DEFINE i == top.at
           end == top.end /\ top.mark = 0
<1>1. stack # <<>> /\ top.op = "decodeHeaders" /\ codec' = codec
  BY DEF decodeHeaders, Runs
<1>2. /\ top = stack[1] /\ top \in FrameType
      /\ fm \in ManagerType /\ PauseInv(fm) /\ N \in Nat /\ N > 0
  BY <1>1, TopFacts
<1>3. stack' # <<>> => ~Carries(stack'[1])
  <2>1. PICK s : \/ Calls(maybeContinueDecodingCall(top.mark))
                 \/ Calls(<<HeadersGoOn(top, s)>>)
    BY Zenon DEF decodeHeaders, HeadersGoOn
  <2>2. CASE Calls(maybeContinueDecodingCall(top.mark))
    <3> DEFINE f == Frame("maybeContinueDecoding", top.mark)
    <3>1. Returns \/ Calls(<<f>>)
      BY <2>2 DEF maybeContinueDecodingCall, Returns
    <3>2. f.op = "maybeContinueDecoding"
      BY FrameOp
    <3>3. ~Carries(f)
      BY <3>2 DEF Carries
    <3> HIDE DEF f
    <3> QED BY <1>1, <3>1, <3>3, CarriesNone
  <2>3. CASE Calls(<<HeadersGoOn(top, s)>>)
    <3> DEFINE p == top.at + 1
               m == IF top.end /\ s.exists /\ top.mark = 0 THEN top.at ELSE top.mark
               e == [top EXCEPT !.at = p, !.mark = m]
               f == HeadersGoOn(top, s)
    <3>1. f = e
      BY Zenon DEF HeadersGoOn
    <3> HIDE DEF p, m
    <3>2. e.op = "decodeHeaders"
      BY <1>1, <1>2 DEF FrameType
    <3> HIDE DEF e, f
    <3>3. Calls(<<f>>) /\ ~Carries(f)
      BY <2>3, <3>1, <3>2 DEF f, Carries
    <3> QED BY <1>1, <3>3, CarriesNone
  <2> QED BY <2>1, <2>2, <2>3
<1>4. CASE i > N
  <2>1. fm' = fm /\ seen' = seen
    BY <1>4 DEF decodeHeaders
  <2> QED BY <1>1, <1>3, <2>1, QuietUnseen
<1>5. CASE ~(i > N)
  <2>1. i \in Filters /\ end \in BOOLEAN /\ i # N + 1
    BY <1>2, <1>5 DEF FrameType, Filters
  <2>2. ~fm.localComplete
    BY <1>1, <2>1, TopFacts DEF TopInv
  <2>3. PICK a \in HeadersAnswers(i, end) :
          LET back == HeadersBack(i, a)
              status == StatusIfAborted(back, a.status)
          IN  /\ Given(i, <<Headers>> \o EndMark(end))
              /\ fm' = Noted(back, i, IterationAfter(back.iter[i], status),
                             status = "Continue", end)
    BY <1>5, Zenon DEF decodeHeaders, HeadersBack, Noted
  <2> HIDE DEF end
  <2> DEFINE back == HeadersBack(i, a)
             status == StatusIfAborted(back, a.status)
             v == IterationAfter(back.iter[i], status)
             b == status = "Continue"
             y == <<Body(i)>>
             x == <<Headers>> \o EndMark(end)
  <2>4. a.status \in {"Continue", "StopIteration", "StopAllIterationAndBuffer",
                      "StopAllIterationAndWatermark"}
    BY <2>1, HeadersAnswerFacts
  <2>5. back \in ManagerType /\ back.buffer = IF a.adds THEN fm.buffer \o y ELSE fm.buffer
    BY <1>2, <2>1, <2>2, HeadersBackFacts
  <2>6. fm' = Noted(back, i, v, b, end) /\ Given(i, x)
    BY <2>3
  <2> HIDE DEF back, x, y
  <2>6a. back.iter[i] \in Iterations
    BY <2>1, <2>5 DEF ManagerType
  <2>7. v \in Iterations /\ b \in BOOLEAN
    BY <2>4, <2>6a DEF IterationAfter, Iterations, StatusIfAborted
  <2> HIDE DEF v, b, status
  <2>8. fm'.buffer = back.buffer
    <3>1. back \in ManagerType /\ fm' = Noted(back, i, v, b, end)
      BY <2>5, <2>6
    <3>2. /\ fm' \in ManagerType
          /\ fm'.iter = [back.iter EXCEPT ![i] = v]
          /\ fm'.headersContinued = [back.headersContinued EXCEPT ![i] = b]
          /\ fm'.endStream = [back.endStream EXCEPT ![i] = end]
          /\ fm'.localComplete = back.localComplete /\ fm'.aborted = back.aborted
          /\ fm'.exists = back.exists /\ fm'.buffer = back.buffer
      <4>1. i \in Filters /\ end \in BOOLEAN
        BY <2>1
      <4> HIDE DEF i
      <4> QED BY <2>7, <3>1, <4>1, HeadersFields
    <3> QED BY <3>2
  <2>9. x \in Seq(Nat) /\ NoChunk(x)
    BY <2>1, EndMarkHasNone DEF x
  <2>10. y \in Seq(Nat) /\ NoChunk(y)
    BY <2>1, OtherData, SingleHasNone DEF y
  <2>11. seen' \in [Filters -> Seq(Nat)] /\ seen'[N] \in {seen[N], seen[N] \o x}
    BY <2>1, <2>6, <2>9, GivenFields DEF OrderInv
  <2>12. fm'.buffer \in {<<>>, fm.buffer, fm.buffer \o y}
    BY <2>5, <2>8
  <2> QED BY <1>1, <1>3, <2>2, <2>9, <2>10, <2>11, <2>12, QuietOrder
<1> QED BY <1>4, <1>5

\* Trailers are not, nor is the data that a filter adds to them.
LEMMA decodeTrailersOrder ==
    ASSUME ControlInv, OrderInv, decodeTrailers PROVE OrderInv'
<1> DEFINE i == top.at
           c == Frame("trailersCallback", i)
           inside == [fm EXCEPT !.inTrailers = TRUE]
<1>1. stack # <<>> /\ top.op = "decodeTrailers" /\ codec' = codec
  BY DEF decodeTrailers, Runs
<1>2. /\ top = stack[1] /\ top \in FrameType
      /\ fm \in ManagerType /\ PauseInv(fm) /\ N \in Nat /\ N > 0
  BY <1>1, TopFacts
<1>3. CASE i > N \/ stoppedAll(fm, i)
  <2>1. Returns /\ fm' = fm /\ seen' = seen
    <3>1. i > N \/ (i <= N /\ stoppedAll(fm, i))
      BY <1>2, <1>3 DEF FrameType
    <3> QED BY <3>1 DEF decodeTrailers
  <2>2. stack' # <<>> => ~Carries(stack'[1])
    BY <1>1, <2>1, CarriesNone
  <2> QED BY <1>1, <2>1, <2>2, QuietUnseen
<1>4. CASE ~(i > N) /\ ~stoppedAll(fm, i)
  <2> DEFINE x == <<Trailers, EndStream>>
             y == <<Extra(i)>>
  <2>1. i \in Filters
    BY <1>2, <1>4 DEF FrameType, Filters
  <2>2. c.op = "trailersCallback"
    BY FrameOp
  <2>3. /\ inside \in ManagerType /\ PauseInv(inside) /\ inside.buffer = fm.buffer
        /\ (inside.localComplete <=> fm.localComplete)
    BY <1>2, InTrailersFields
  <2>4. /\ Given(i, x)
        /\ \/ Calls(<<c>>) /\ fm' = inside
           \/ /\ fm' = Buffered([inside EXCEPT !.streaming = FALSE], y, TRUE)
              /\ Calls(<<c>>)
           \/ /\ fm' = inside
              /\ Calls(decodeDataCall([Frame("decodeData", i + 1) EXCEPT !.data = y]) \o <<c>>)
    <3>1. ~(i > N \/ (i <= N /\ stoppedAll(fm, i)))
      BY <1>4
    <3> QED BY <3>1, Zenon DEF decodeTrailers
  <2>5. x \in Seq(Nat) /\ NoChunk(x)
    <3>1. Trailers \in Nat \ Chunks /\ EndStream \in Nat \ Chunks
      BY <2>1, OtherData
    <3>2. x \in Seq(Nat) /\ Len(x) = 2 /\ x[1] = Trailers /\ x[2] = EndStream
      BY <3>1
    <3> HIDE DEF x
    <3> QED BY <3>1, <3>2 DEF NoChunk
  <2>6. y \in Seq(Nat) /\ NoChunk(y)
    BY <2>1, OtherData, SingleHasNone
  <2> HIDE DEF inside, c, x, y
  <2>7. seen' \in [Filters -> Seq(Nat)] /\ seen'[N] \in {seen[N], seen[N] \o x}
    BY <2>1, <2>4, <2>5, GivenFields DEF OrderInv
  <2>8. ~Carries(c)
    BY <2>2 DEF Carries
  <2>9. /\ fm.localComplete => fm'.localComplete
        /\ fm'.buffer \in {<<>>, fm.buffer, fm.buffer \o y}
    <3>1. CASE fm' = inside
      BY <2>3, <3>1
    <3>2. CASE fm' = Buffered([inside EXCEPT !.streaming = FALSE], y, TRUE)
      <4> DEFINE s == [inside EXCEPT !.streaming = FALSE]
                 b == TRUE
      <4>1. /\ s \in ManagerType /\ PauseInv(s) /\ s.buffer = inside.buffer
            /\ s.localComplete = inside.localComplete
        BY <2>3, StreamingFields
      <4>2. b \in BOOLEAN /\ fm' = Buffered(s, y, b)
        BY <3>2
      <4> HIDE DEF s, b
      <4>3. Lasts(s, fm') /\ fm'.buffer = s.buffer \o y
        BY <2>6, <4>1, <4>2, BufferedFields
      <4> QED BY <2>3, <4>1, <4>3 DEF Lasts
    <3> QED BY <2>4, <3>1, <3>2
  <2>10. stack' # <<>> => ~Carries(stack'[1])
    <3>1. CASE Calls(<<c>>)
      BY <1>1, <2>8, <3>1, CarriesNone
    <3>2. CASE Calls(decodeDataCall([Frame("decodeData", i + 1) EXCEPT !.data = y]) \o <<c>>)
      <4> DEFINE f == [Frame("decodeData", i + 1) EXCEPT !.data = y]
                 a == decodeDataCall(f)
                 b == <<c>>
                 fs == a \o b
                 S == {f, c}
      <4>1. f.data = y
        BY DEF Frame
      <4>2. ~Carries(f)
        BY <2>6, <4>1 DEF Carries
      <4> HIDE DEF f
      <4>3. a = <<>> \/ a = <<f>>
        BY DEF decodeDataCall
      <4> HIDE DEF a
      <4>4. a \in Seq(S) /\ b \in Seq(S) /\ b = <<c>>
        <5>1. CASE a = <<>>
          BY <5>1
        <5>2. CASE a = <<f>>
          BY <5>2
        <5> QED BY <4>3, <5>1, <5>2
      <4> HIDE DEF b, S
      <4>5. fs \in Seq(S) /\ fs[1] \in {f, c}
        BY <4>3, <4>4
      <4>6. stack' = fs \o Tail(stack)
        BY <3>2 DEF Calls, fs, a, b, f
      <4> HIDE DEF fs
      <4>7. ~Carries(fs[1])
        BY <2>8, <4>2, <4>5
      <4> QED BY <1>1, <4>5, <4>6, <4>7, CarriesStep
    <3> QED BY <2>4, <3>1, <3>2
  <2> QED BY <1>1, <2>5, <2>6, <2>7, <2>9, <2>10, QuietOrder
<1> QED BY <1>3, <1>4

\* The return of a trailers callback sends nothing.
LEMMA trailersCallbackOrder ==
    ASSUME ControlInv, OrderInv, trailersCallback PROVE OrderInv'
<1> DEFINE i == top.at
<1>1. stack # <<>> /\ top.op = "trailersCallback" /\ codec' = codec /\ seen' = seen
  BY DEF trailersCallback, Runs
<1>2. fm \in ManagerType /\ PauseInv(fm)
  BY <1>1, TopFacts
<1>3. i \in Filters
  BY <1>1, TopFacts DEF FrameInv
<1>4. PICK a \in TrailersAnswers(i) :
        LET back == TrailersBack(i, a.ending)
            status == StatusIfAborted(back, a.status)
        IN  /\ fm' = IF status # "Continue" /\ canIterate(back, i)
                     THEN [back EXCEPT !.iter[i] = "StopSingleIteration"] ELSE back
            /\ Calls(IF ContinuesInline(back, top, status) THEN <<Frame("commonContinue", i)>>
                     ELSE IF status = "Continue" THEN <<Frame("decodeTrailers", i + 1)>>
                     ELSE <<>>)
  BY Zenon DEF trailersCallback, TrailersBack, TrailersNoted
<1> DEFINE back == TrailersBack(i, a.ending)
           f == Frame("commonContinue", i)
           e == Frame("decodeTrailers", i + 1)
           u == [back EXCEPT !.iter[i] = "StopSingleIteration"]
<1>5. a.ending \in EndingKinds
  BY DEF TrailersAnswers, Endings, EndingKinds
<1>6. /\ back \in ManagerType /\ back.buffer = fm.buffer
      /\ (fm.localComplete => back.localComplete)
  BY <1>2, <1>3, <1>5, TrailersBackFacts
<1>7. fm' \in {back, u} /\ (Returns \/ Calls(<<f>>) \/ Calls(<<e>>))
  BY <1>4 DEF Returns
<1> HIDE DEF back
<1>8. u.buffer = back.buffer /\ u.localComplete = back.localComplete
  BY <1>6 DEF ManagerType
<1>9. f.op = "commonContinue" /\ e.op = "decodeTrailers"
  BY FrameOp
<1> HIDE DEF f, e, u
<1>10. fm'.buffer = fm.buffer /\ (fm.localComplete => fm'.localComplete)
  BY <1>6, <1>7, <1>8
<1>11. ~Carries(f) /\ ~Carries(e)
  BY <1>9 DEF Carries
<1>12. stack' # <<>> => ~Carries(stack'[1])
  BY <1>1, <1>7, <1>11, CarriesNone
<1> QED BY <1>1, <1>10, <1>12, QuietUnseen

\* Events of the main loop that bring no data.
LEMMA mainOrder ==
    ASSUME ControlInv, OrderInv,
           \/ requestHeaders \/ requestTrailers \/ responseComplete
           \/ \E i \in Others : continueDecoding(i)
    PROVE  OrderInv'
<1>1. stack = <<>> /\ seen' = seen /\ codec'.chunks = codec.chunks
  BY DEF requestHeaders, requestTrailers, responseComplete, continueDecoding,
         MainLoop, ControlInv, Types
<1>2. fm \in ManagerType
  BY DEF ControlInv, Types
<1>3. fm'.buffer = fm.buffer /\ (fm.localComplete => fm'.localComplete)
  <2>1. CASE requestHeaders
    <3>1. PICK end \in BOOLEAN : fm' = [fm EXCEPT !.remoteComplete = end]
      BY <2>1 DEF requestHeaders
    <3> QED BY <1>2, <3>1 DEF ManagerType
  <2>2. CASE requestTrailers
    <3>1. fm' = [fm EXCEPT !.remoteComplete = TRUE, !.trailers = TRUE]
      BY <2>2 DEF requestTrailers
    <3> QED BY <1>2, <3>1 DEF ManagerType
  <2>3. CASE responseComplete
    <3> DEFINE b == fm.aborted \/ FALSE
    <3>1. fm' = [fm EXCEPT !.localComplete = TRUE, !.aborted = b]
      BY <2>3 DEF responseComplete, sendLocalReply
    <3> HIDE DEF b
    <3> QED BY <1>2, <3>1 DEF ManagerType
  <2>4. CASE \E i \in Others : continueDecoding(i)
    BY <2>4 DEF continueDecoding
  <2> QED BY <2>1, <2>2, <2>3, <2>4
<1>4. stack' # <<>> => ~Carries(stack'[1])
  <2>1. ASSUME NEW f, stack' = <<f>>, f.op # "decodeData" PROVE ~Carries(stack'[1])
    BY <2>1 DEF Carries
  <2>2. CASE requestHeaders
    <3>1. PICK end \in BOOLEAN : stack' = <<decodeHeadersCall(1, end)>>
      BY <2>2 DEF requestHeaders
    <3> DEFINE f == decodeHeadersCall(1, end)
    <3>2. f.op = "decodeHeaders" /\ stack' = <<f>>
      BY <3>1 DEF decodeHeadersCall, Frame
    <3> HIDE DEF f
    <3> QED BY <2>1, <3>2
  <2>3. CASE requestTrailers
    <3> DEFINE f == Frame("decodeTrailers", 1)
    <3>1. stack' = <<>> \/ stack' = <<f>>
      BY <2>3 DEF requestTrailers, decodeTrailersCall
    <3>2. f.op = "decodeTrailers"
      BY FrameOp
    <3> HIDE DEF f
    <3> QED BY <2>1, <3>1, <3>2
  <2>4. CASE responseComplete
    BY <1>1, <2>4 DEF responseComplete
  <2>5. CASE \E i \in Others : continueDecoding(i)
    <3>1. PICK i \in Others : stack' = <<Frame("commonContinue", i)>>
      BY <2>5 DEF continueDecoding
    <3> DEFINE f == Frame("commonContinue", i)
    <3>2. f.op = "commonContinue" /\ stack' = <<f>>
      BY <3>1, FrameOp
    <3> HIDE DEF f
    <3> QED BY <2>1, <3>2
  <2> QED BY <2>2, <2>3, <2>4, <2>5
<1> QED BY <1>1, <1>3, <1>4, QuietUnseen

\* What a filter answers to data, and what the manager makes of it.
DataStep(i, end, a) ==
    LET back == DataBack(i, end, a)
    IN  /\ Given(i, DataOf(top) \o EndMark(end))
        /\ \/ back.aborted /\ Returns /\ fm' = back
           \/ /\ fm' = AfterData(back, top, a.status)
              /\ \/ /\ back.iter[i] = "StopSingleIteration"
                    /\ Calls(<<Frame("commonContinue", i),
                               afterDataLoop(DataNext(top, i, a))>>)
                 \/ /\ a.status = "Continue" /\ back.iter[i] # "StopSingleIteration"
                    /\ Calls(<<[DataNext(top, i, a) EXCEPT !.at = i + 1]>>)
                 \/ /\ a.status # "Continue"
                    /\ Calls(<<afterDataLoop(DataNext(top, i, a))>>)

\* A data callback: what is given, what is left in the buffer, what comes next.
LEMMA DataCallbackFacts ==
    ASSUME ControlInv, OrderInv, stack # <<>>, top.op = "decodeData", ~(top.at > N),
           ~stoppedAll(fm, top.at), decodeDataCallback(top)
    PROVE  \E x \in Seq(Nat) :
             /\ NoChunk(x) /\ DataOf(top) \in Seq(Nat)
             /\ seen' \in [Filters -> Seq(Nat)]
             /\ seen'[N] = IF top.at = N THEN seen[N] \o (DataOf(top) \o x) ELSE seen[N]
             /\ IF top.buffered
                THEN /\ fm'.buffer \in {<<>>, fm.buffer}
                     /\ top.at = N /\ ~fm'.localComplete => fm'.buffer = <<>>
                ELSE /\ fm'.buffer \in {fm.buffer, fm.buffer \o top.data}
                     /\ top.at = N => fm'.buffer = fm.buffer
             /\ \/ stack' # <<>> => ~Carries(stack'[1])
                \/ \E f : /\ stack' = <<f>> \o Tail(stack)
                          /\ f.op = top.op /\ f.at = top.at + 1 /\ f.data = top.data
                          /\ (f.buffered <=> top.buffered)
                          /\ top.at # N /\ canIterate(fm, top.at)
                          /\ fm'.iter = fm.iter /\ fm'.buffer = fm.buffer
<1> DEFINE i == top.at
           end == top.end /\ ~fm.trailers
           x == EndMark(end)
<1>1. /\ top \in FrameType /\ fm \in ManagerType /\ PauseInv(fm) /\ EndInv(fm)
      /\ N \in Nat /\ N > 0
  BY TopFacts
<1>2. i \in Filters /\ i # N + 1 /\ i + 1 \in 1 .. (N + 1) /\ N + 1 \in 1 .. (N + 1)
  BY <1>1 DEF FrameType, Filters
<1>3. ~fm.localComplete
  BY <1>2, TopFacts DEF TopInv
<1>4. end \in BOOLEAN /\ (end => top.end) /\ (top.end => fm.remoteComplete)
  BY <1>1, TopFacts DEF FrameType, ManagerType, FrameInv
<1>5. PICK a \in DataAnswers(i, top) : DataStep(i, end, a)
  <2>1. PICK a \in DataAnswers(i, top) :
            LET back == DataBack(i, end, a)
            IN  /\ Given(i, DataOf(top) \o EndMark(end))
                /\ IF back.aborted THEN Returns /\ fm' = back
                   ELSE /\ fm' = AfterData(back, top, a.status)
                        /\ Calls(IF ContinuesInline(back, top, a.status)
                                 THEN <<Frame("commonContinue", i),
                                        afterDataLoop(DataNext(top, i, a))>>
                                 ELSE IF a.status = "Continue"
                                 THEN <<[DataNext(top, i, a) EXCEPT !.at = i + 1]>>
                                 ELSE <<afterDataLoop(DataNext(top, i, a))>>)
    BY Zenon DEF decodeDataCallback, DataBack, DataNoted, DataNext
  <2>2. DataStep(i, end, a)
    BY <2>1 DEF DataStep, ContinuesInline
  <2> QED BY <2>2
<1> DEFINE back == DataBack(i, end, a)
           c == Frame("commonContinue", i)
           next == DataNext(top, i, a)
           e == afterDataLoop(next)
           f == [next EXCEPT !.at = i + 1]
<1>6. /\ a.status \in DataStatuses /\ a.trailers \in BOOLEAN
      /\ i = N => a.status = "StopIterationNoBuffer"
  BY <1>1, <1>2, DataAnswerFacts
<1> HIDE DEF end
<1>7. /\ back \in ManagerType /\ PauseInv(back) /\ back.iter = fm.iter
      /\ back.buffer = fm.buffer /\ (back.above => back.paused = 1)
  BY <1>1, <1>2, <1>3, <1>4, DataBackFacts
<1>8. x \in Seq(Nat) /\ NoChunk(x)
  BY <1>2, <1>4, EndMarkHasNone
<1>9. DataOf(top) \in Seq(Nat)
  BY <1>1 DEF DataOf, FrameType, ManagerType
<1>10. /\ Given(i, DataOf(top) \o x)
       /\ \/ back.aborted /\ Returns /\ fm' = back
          \/ /\ fm' = AfterData(back, top, a.status)
             /\ \/ Calls(<<c, e>>)
                \/ Calls(<<f>>) /\ a.status = "Continue" /\ back.iter[i] # "StopSingleIteration"
                \/ Calls(<<e>>)
  BY <1>5 DEF DataStep
<1> HIDE DEF back, x, c, next
<1>11. /\ seen' \in [Filters -> Seq(Nat)]
       /\ seen'[N] = IF i = N THEN seen[N] \o (DataOf(top) \o x) ELSE seen[N]
  <2> DEFINE d == DataOf(top) \o x
  <2>1. d \in Seq(Nat) /\ Given(i, d)
    BY <1>8, <1>9, <1>10
  <2> HIDE DEF d
  <2>2. /\ seen' \in [Filters -> Seq(Nat)]
        /\ seen'[N] = IF i = N THEN seen[N] \o d ELSE seen[N]
    BY <1>2, <2>1, GivenFields DEF OrderInv
  <2> QED BY <2>2 DEF d
<1>12. IF top.buffered
       THEN /\ fm'.buffer \in {<<>>, fm.buffer}
            /\ i = N /\ ~fm'.localComplete => fm'.buffer = <<>>
       ELSE /\ fm'.buffer \in {fm.buffer, fm.buffer \o top.data}
            /\ i = N => fm'.buffer = fm.buffer
  <2>1. CASE back.aborted /\ fm' = back
    BY <1>7, <2>1 DEF PauseInv
  <2>2. CASE fm' = AfterData(back, top, a.status)
    <3>1. fm'.buffer = DataKept(back, top, a.status)
      BY <1>1, <1>2, <1>6, <1>7, <2>2, AfterDataFields
    <3> QED BY <1>6, <1>7, <3>1 DEF DataKept
  <2> QED BY <1>10, <2>1, <2>2
<1>13. \/ stack' # <<>> => ~Carries(stack'[1])
       \/ /\ stack' = <<f>> \o Tail(stack)
          /\ f.op = top.op /\ f.at = top.at + 1 /\ f.data = top.data
          /\ (f.buffered <=> top.buffered)
          /\ top.at # N /\ canIterate(fm, top.at)
          /\ fm'.iter = fm.iter /\ fm'.buffer = fm.buffer
  <2>1. c.op = "commonContinue"
    BY FrameOp DEF c
  <2>2. ASSUME NEW p \in 1 .. (N + 1)
        PROVE  LET g == [next EXCEPT !.at = p]
               IN  /\ g.op = top.op /\ g.at = p /\ g.data = top.data
                   /\ (g.buffered <=> top.buffered)
    <3> DEFINE g == [DataNext(top, i, a) EXCEPT !.at = p]
    <3>1. /\ g \in FrameType /\ g.op = top.op /\ g.at = p /\ (g.buffered <=> top.buffered)
          /\ g.data = top.data
      BY <1>1, <1>2, <1>6, DataNextFields
    <3> QED BY <3>1 DEF next
  <2>3. e.at = N + 1
    BY <1>2, <2>2 DEF afterDataLoop
  <2>4. f.op = top.op /\ f.at = i + 1 /\ f.data = top.data /\ (f.buffered <=> top.buffered)
    BY <1>2, <2>2
  <2> HIDE DEF e, f
  <2>5. ~Carries(c) /\ ~Carries(e)
    BY <2>1, <2>3 DEF Carries
  <2>6. CASE Returns \/ Calls(<<e>>)
    BY <2>5, <2>6, CarriesNone
  <2>7. CASE Calls(<<c, e>>)
    BY <2>5, <2>7, CarriesTwo
  <2>8. CASE /\ Calls(<<f>>) /\ a.status = "Continue" /\ back.iter[i] # "StopSingleIteration"
             /\ fm' = AfterData(back, top, a.status)
    <3>1. fm' = back
      BY <2>8 DEF AfterData
    <3>2. canIterate(fm, i)
      BY <1>1, <1>2, <1>7, <2>8 DEF canIterate, stoppedAll, ManagerType, Iterations
    <3>3. i # N
      BY <1>6, <2>8
    <3> QED BY <1>7, <2>4, <2>8, <3>1, <3>2, <3>3 DEF Calls
  <2> QED BY <1>10, <2>6, <2>7, <2>8
<1> QED BY <1>8, <1>9, <1>11, <1>12, <1>13

\* decodeData gives the terminal filter the buffer, or the codec's last frame
\* when none of its data is buffered.
LEMMA decodeDataOrder ==
    ASSUME ControlInv, OrderInv, decodeData PROVE OrderInv'
<1> DEFINE i == top.at
           n == codec.chunks
<1>1. stack # <<>> /\ top.op = "decodeData" /\ codec' = codec
  BY DEF decodeData, Runs
<1>2. /\ top = stack[1] /\ top \in FrameType /\ stack \in Seq(FrameType)
      /\ fm \in ManagerType /\ PauseInv(fm) /\ N \in Nat /\ N > 0
      /\ codec \in [headers : BOOLEAN, chunks : Nat]
  BY <1>1, TopFacts DEF ControlInv, Types
<1>3. /\ seen \in [Filters -> Seq(Nat)] /\ seen[N] \in Seq(Nat) /\ fm.buffer \in Seq(Nat)
      /\ top.data \in Seq(Nat) /\ n \in Nat
  BY <1>2 DEF OrderInv, FrameType, ManagerType, Filters
<1>4. CASE i > N
  <2> DEFINE f == Frame("decodeTrailers", commonDecodePrefix(top.mark))
  <2>1. fm' = fm /\ seen' = seen /\ (Returns \/ Calls(<<f>>))
    BY <1>4 DEF decodeData, decodeTrailersCall, Returns
  <2>2. f.op = "decodeTrailers"
    BY FrameOp
  <2>3. ~Carries(f)
    BY <2>2 DEF Carries
  <2> HIDE DEF f
  <2>4. stack' # <<>> => ~Carries(stack'[1])
    BY <1>1, <2>1, <2>3, CarriesNone
  <2> QED BY <1>1, <2>1, <2>4, QuietUnseen
<1>5. CASE ~(i > N) /\ ~stoppedAll(fm, i) /\ AtEndOfStream(i)
  <2>1. Returns /\ fm' = fm /\ seen' = seen
    BY <1>5 DEF decodeData
  <2>2. stack' # <<>> => ~Carries(stack'[1])
    BY <1>1, <2>1, CarriesNone
  <2> QED BY <1>1, <2>1, <2>2, QuietUnseen
<1> DEFINE d == top.data
           b == fm.buffer
           g == seen[N]
\* The codec's last frame, when there is one of its data in this frame.
<1>6. ASSUME ~(i > N), ~top.buffered, ~NoChunk(d)
      PROVE  /\ Len(stack) = 1 /\ n > 0 /\ d = <<Chunk(n)>>
             /\ Sent(g, n - 1) /\ Sent(b, n - 1)
             /\ NoChunk(b) \/ \E j \in Others : j >= i /\ ~canIterate(fm, j)
             /\ Ordered(d) /\ Sent(d, n) /\ Before(g, d) /\ Before(b, d)
  <2>1. Carries(top)
    BY <1>1, <1>2, <1>6 DEF Carries, FrameType
  <2>2. Len(stack) = 1 /\ CarriesLast(top, fm, g, n)
    BY <1>1, <1>2, <2>1 DEF OrderInv
  <2>3. n > 0 /\ d = <<Chunk(n)>> /\ Sent(g, n - 1) /\ Sent(b, n - 1)
    BY <2>2 DEF CarriesLast
  <2>4. Ordered(d) /\ Sent(d, n) /\ Before(g, d) /\ Before(b, d)
    <3>1. n \in Nat /\ n > 0 /\ g \in Seq(Nat) /\ b \in Seq(Nat)
      BY <1>3, <2>3
    <3>2. Ordered(<<Chunk(n)>>) /\ Sent(<<Chunk(n)>>, n) /\ Before(g, <<Chunk(n)>>)
      BY ONLY <2>3, <3>1, NextChunk
    <3>3. Before(b, <<Chunk(n)>>)
      BY ONLY <2>3, <3>1, NextChunk
    <3> QED BY <2>3, <3>2, <3>3
  <2>5. NoChunk(b) \/ \E j \in Others : j >= i /\ ~canIterate(fm, j)
    BY <2>2 DEF CarriesLast
  <2> QED BY <2>2, <2>3, <2>4, <2>5
\* In any case the data in it comes after all that there is.
<1>7. ASSUME ~(i > N), ~top.buffered
      PROVE  Ordered(d) /\ Sent(d, n) /\ Before(g, d) /\ Before(b, d)
  <2>1. CASE NoChunk(d)
    BY <1>3, <2>1, NoChunkFacts
  <2>2. CASE ~NoChunk(d)
    BY <1>6, <1>7, <2>2
  <2> QED BY <2>1, <2>2
<1>8. /\ Ordered(g) /\ Sent(g, n) /\ Sent(b, n)
      /\ ~fm.localComplete => Ordered(b) /\ Before(g, b)
  BY DEF OrderInv
<1>9. ASSUME ~(i > N) PROVE ~fm.localComplete
  <2>1. i # N + 1
    BY <1>2, <1>9 DEF FrameType
  <2> QED BY <1>1, <2>1, TopFacts DEF TopInv
\* The frame's data joins the buffer.
<1>10. ASSUME ~(i > N), ~top.buffered
       PROVE  /\ b \o d \in Seq(Nat) /\ Ordered(b \o d) /\ Sent(b \o d, n)
              /\ Before(g, b \o d)
  BY <1>3, <1>7, <1>8, <1>9, <1>10, OrderedJoin, SentJoin, BeforeJoin
<1>11. CASE ~(i > N) /\ stoppedAll(fm, i)
  <2> DEFINE w == fm.iter[i] = "StopAllWatermark"
             s == [fm EXCEPT !.streaming = w]
  <2>1. fm' = commonHandleBufferData(s, top) /\ Returns /\ seen' = seen
    BY <1>11 DEF decodeData, StoppedAllAt
  <2>2. s \in ManagerType /\ PauseInv(s) /\ s.buffer = b
    BY <1>2, StreamingFields
  <2> HIDE DEF s
  <2>3. fm'.buffer = IF top.buffered THEN b ELSE b \o d
    BY <1>2, <2>1, <2>2, HandleBufferFields
  <2>4. stack' # <<>> => ~Carries(stack'[1])
    BY <1>1, <2>1, CarriesNone
  <2>5. Ordered(fm'.buffer) /\ Sent(fm'.buffer, n) /\ Before(g, fm'.buffer)
    BY <1>8, <1>9, <1>10, <1>11, <2>3
  <2> QED BY <1>1, <1>3, <1>8, <2>1, <2>4, <2>5 DEF OrderInv
<1>12. CASE ~(i > N) /\ ~stoppedAll(fm, i) /\ ~AtEndOfStream(i)
  <2>1. decodeDataCallback(top)
    BY <1>12 DEF decodeData
  <2>2. PICK x \in Seq(Nat) :
             /\ NoChunk(x) /\ DataOf(top) \in Seq(Nat)
             /\ seen' \in [Filters -> Seq(Nat)]
             /\ seen'[N] = IF top.at = N THEN seen[N] \o (DataOf(top) \o x) ELSE seen[N]
             /\ IF top.buffered
                THEN /\ fm'.buffer \in {<<>>, fm.buffer}
                     /\ top.at = N /\ ~fm'.localComplete => fm'.buffer = <<>>
                ELSE /\ fm'.buffer \in {fm.buffer, fm.buffer \o top.data}
                     /\ top.at = N => fm'.buffer = fm.buffer
             /\ \/ stack' # <<>> => ~Carries(stack'[1])
                \/ \E f : /\ stack' = <<f>> \o Tail(stack)
                          /\ f.op = top.op /\ f.at = top.at + 1 /\ f.data = top.data
                          /\ (f.buffered <=> top.buffered)
                          /\ top.at # N /\ canIterate(fm, top.at)
                          /\ fm'.iter = fm.iter /\ fm'.buffer = fm.buffer
    BY <1>1, <1>12, <2>1, DataCallbackFacts
  <2> DEFINE y == DataOf(top)
             t == fm'.buffer
             h == seen'[N]
  <2>3. y \in Seq(Nat) /\ Ordered(y) /\ Sent(y, n) /\ Before(g, y)
    BY <1>3, <1>7, <1>8, <1>9, <1>12, <2>2 DEF DataOf
  <2>4. /\ y \o x \in Seq(Nat) /\ Ordered(y \o x) /\ Sent(y \o x, n) /\ Before(g, y \o x)
    <3>1. Ordered(x) /\ Sent(x, n) /\ Before(y, x) /\ Before(g, x)
      BY <1>3, <2>2, <2>3, NoChunkFacts
    <3> QED BY <1>3, <2>3, <3>1, OrderedJoin, SentJoin, BeforeJoin
  <2> HIDE DEF y
  <2>5. h = (IF i = N THEN g \o (y \o x) ELSE g) /\ h \in Seq(Nat)
    <3>1. h = IF i = N THEN g \o (y \o x) ELSE g
      BY <2>2 DEF y
    <3>2. N \in Filters
      BY <1>2 DEF Filters
    <3>3. seen' \in [Filters -> Seq(Nat)]
      BY <2>2
    <3>4. h \in Seq(Nat)
      BY <3>2, <3>3
    <3> QED BY <3>1, <3>4
  <2>6. Ordered(h) /\ Sent(h, n)
    BY <1>3, <1>8, <2>4, <2>5, OrderedJoin, SentJoin
  <2>7. Sent(t, n)
    <3>1. t = <<>> \/ t = b \/ (t = b \o d /\ ~top.buffered)
      BY <2>2
    <3>2. Sent(<<>>, n)
      BY DEF Sent
    <3> QED BY <1>8, <1>10, <1>12, <3>1, <3>2
  <2>8. ASSUME ~fm'.localComplete PROVE Ordered(t) /\ Before(h, t)
    <3>1. Ordered(<<>>) /\ Before(h, <<>>)
      BY DEF Ordered, Before
    <3>2. CASE i = N /\ top.buffered
      BY <2>2, <2>8, <3>1, <3>2
    <3>3. CASE i = N /\ ~top.buffered
      <4>1. t = b
        BY <2>2, <3>3
      <4>2. Before(y \o x, b)
        <5>1. CASE NoChunk(b)
          BY <1>3, <2>4, <5>1, NoChunkFacts
        <5>2. CASE ~NoChunk(b)
          <6>1. NoChunk(d)
            <7>1. ~\E j \in Others : j >= i
              BY <1>2, <3>3 DEF Others
            <7> QED BY <1>6, <1>12, <3>3, <5>2, <7>1
          <6>2. y = d
            BY <3>3 DEF y, DataOf
          <6>3. Before(d, b) /\ Before(x, b)
            BY <1>3, <2>2, <6>1, NoChunkFacts
          <6> QED BY <1>3, <6>2, <6>3, BeforeJoin
        <5> QED BY <5>1, <5>2
      <4>3. Before(g \o (y \o x), b)
        BY <1>3, <1>8, <1>9, <1>12, <2>4, <4>2, BeforeJoin
      <4> QED BY <1>8, <1>9, <1>12, <2>5, <3>3, <4>1, <4>3
    <3>4. CASE i # N
      <4>1. h = g
        BY <2>5, <3>4
      <4>2. t = <<>> \/ t = b \/ (t = b \o d /\ ~top.buffered)
        BY <2>2
      <4> QED BY <1>8, <1>9, <1>10, <1>12, <3>1, <4>1, <4>2
    <3> QED BY <3>2, <3>3, <3>4
  <2>9. ASSUME stack' # <<>>, Carries(stack'[1])
        PROVE  Len(stack') = 1 /\ CarriesLast(stack'[1], fm', h, n)
    <3>1. PICK f : /\ stack' = <<f>> \o Tail(stack)
                   /\ f.op = top.op /\ f.at = top.at + 1 /\ f.data = top.data
                   /\ (f.buffered <=> top.buffered)
                   /\ top.at # N /\ canIterate(fm, top.at)
                   /\ fm'.iter = fm.iter /\ fm'.buffer = fm.buffer
      BY <2>2, <2>9
    <3> DEFINE fs == <<f>>
               S == {f}
    <3>2. fs \in Seq(S) /\ Len(fs) = 1 /\ fs[1] = f /\ 1 \in 1 .. Len(fs)
      OBVIOUS
    <3> HIDE DEF fs, S
    <3>3. stack' = fs \o Tail(stack)
      BY <3>1 DEF fs
    <3>4. Len(stack') = Len(fs) + Len(stack) - 1 /\ stack'[1] = f
      <4>1. stack \in Seq(FrameType) /\ stack # <<>> /\ fs \in Seq(S)
        BY <1>1, <1>2, <3>2
      <4>2. /\ Len(fs \o Tail(stack)) = Len(fs) + Len(stack) - 1
            /\ \A k \in 1 .. Len(fs) : (fs \o Tail(stack))[k] = fs[k]
        BY ONLY <4>1, CalledAny
      <4> QED BY <3>2, <3>3, <4>2
    <3>5. ~top.buffered /\ ~NoChunk(d)
      BY <2>9, <3>1, <3>4 DEF Carries
    <3>6. /\ Len(stack) = 1 /\ n > 0 /\ d = <<Chunk(n)>>
          /\ Sent(g, n - 1) /\ Sent(b, n - 1)
          /\ NoChunk(b) \/ \E j \in Others : j >= i /\ ~canIterate(fm, j)
      BY <1>6, <1>12, <3>5
    <3>7. Len(stack') = 1
      BY <3>2, <3>4, <3>6
    <3>8. h = g /\ t = b
      BY <2>5, <3>1
    <3>9. NoChunk(t) \/ \E j \in Others : j >= f.at /\ ~canIterate(fm', j)
      <4>1. CASE NoChunk(b)
        BY <3>8, <4>1
      <4>2. CASE \E j \in Others : j >= i /\ ~canIterate(fm, j)
        <5>1. PICK j \in Others : j >= i /\ ~canIterate(fm, j)
          BY <4>2
        <5>2. j # i /\ ~canIterate(fm', j)
          BY <3>1, <5>1 DEF canIterate
        <5>3. j >= f.at
          BY <1>2, <3>1, <5>1, <5>2 DEF Others, FrameType
        <5> QED BY <5>2, <5>3
      <4> QED BY <3>6, <4>1, <4>2
    <3> QED BY <3>1, <3>4, <3>6, <3>7, <3>8, <3>9 DEF CarriesLast
  <2> QED BY <1>1, <2>2, <2>6, <2>7, <2>8, <2>9 DEF OrderInv
<1> QED BY <1>4, <1>5, <1>11, <1>12

\* The codec sends data.
LEMMA requestDataOrder ==
    ASSUME ControlInv, OrderInv, requestData PROVE OrderInv'
<1> DEFINE n == codec.chunks
           b == fm.buffer
           g == seen[N]
<1>1. MainLoop /\ ~fm.remoteComplete /\ seen' = seen
  BY DEF requestData
<1>2. /\ fm \in ManagerType /\ codec \in [headers : BOOLEAN, chunks : Nat] /\ stack = <<>>
      /\ PauseInv(fm) /\ N \in Nat /\ N > 0
      /\ b # <<>> /\ ~fm.localComplete /\ ~fm.remoteComplete =>
            \E i \in Others : ~canIterate(fm, i)
  BY <1>1, MainFacts
<1>3. g \in Seq(Nat) /\ b \in Seq(Nat) /\ n \in Nat
  BY <1>2 DEF OrderInv, ManagerType, Filters
<1>4. /\ Ordered(g) /\ Sent(g, n) /\ Sent(b, n) /\ seen \in [Filters -> Seq(Nat)]
      /\ ~fm.localComplete => Ordered(b) /\ Before(g, b)
  BY DEF OrderInv
<1>5. PICK end \in BOOLEAN, empty \in BOOLEAN :
        /\ codec' = IF empty THEN codec ELSE [codec EXCEPT !.chunks = @ + 1]
        /\ fm' = [fm EXCEPT !.remoteComplete = end]
        /\ stack' = decodeDataCall([Frame("decodeData", 1) EXCEPT !.end = end,
                      !.data = IF empty THEN <<>> ELSE <<Chunk(codec.chunks + 1)>>])
  BY DEF requestData
<1> DEFINE d == IF empty THEN <<>> ELSE <<Chunk(n + 1)>>
           f == [Frame("decodeData", 1) EXCEPT !.end = end, !.data = d]
<1>6. fm'.buffer = b /\ fm'.localComplete = fm.localComplete /\ fm'.iter = fm.iter
  BY <1>2, <1>5 DEF ManagerType
<1>7. codec'.chunks = IF empty THEN n ELSE n + 1
  BY <1>2, <1>5
<1>8. f.at = 1 /\ f.data = d
  BY DEF Frame
<1>9. stack' = (IF fm.localComplete THEN <<>> ELSE <<f>>)
  BY <1>5 DEF decodeDataCall
<1> HIDE DEF f
<1>10. CASE empty
  <2>1. ~Carries(f)
    BY <1>8, <1>10, EmptyHasNone DEF Carries
  <2>2. stack' # <<>> => ~Carries(stack'[1])
    BY <1>9, <2>1
  <2> QED BY <1>1, <1>6, <1>7, <1>10, <2>2, QuietUnseen
<1>11. CASE ~empty
  <2> DEFINE m == n + 1
  <2>1. m \in Nat /\ m > 0 /\ m - 1 = n /\ codec'.chunks = m
    BY <1>3, <1>7, <1>11
  <2> HIDE DEF m
  <2>2. Sent(g, m - 1) /\ Sent(b, m - 1)
    BY <1>4, <2>1
  <2>3. Sent(g, m) /\ Sent(b, m)
    BY <1>3, <2>1, <2>2, NextChunk
  <2>4. ASSUME stack' # <<>>
        PROVE  Len(stack') = 1 /\ CarriesLast(stack'[1], fm', g, m)
    <3>1. stack' = <<f>> /\ ~fm.localComplete
      BY <1>9, <2>4
    <3>2. Len(stack') = 1 /\ stack'[1] = f
      BY <3>1
    <3>3. f.data = <<Chunk(m)>>
      BY <1>8, <1>11 DEF m
    <3>4. NoChunk(b) \/ \E j \in Others : j >= f.at /\ ~canIterate(fm', j)
      <4>1. CASE b = <<>>
        BY <4>1, EmptyHasNone
      <4>2. CASE b # <<>>
        <5>1. PICK j \in Others : ~canIterate(fm, j)
          BY <1>1, <1>2, <3>1, <4>2
        <5>2. j >= f.at
          BY <1>2, <1>8 DEF Others
        <5> QED BY <1>6, <5>1, <5>2 DEF canIterate
      <4> QED BY <4>1, <4>2
    <3> QED BY <1>6, <2>1, <2>2, <3>2, <3>3, <3>4 DEF CarriesLast
  <2> QED BY <1>1, <1>4, <1>6, <2>1, <2>3, <2>4 DEF OrderInv
<1> QED BY <1>10, <1>11

\* At any time the codec's data at the terminal filter is in order, the buffer
\* holds data that comes later, and a frame on its way comes last.
THEOREM OrderInvariance == ASSUME Cautious PROVE Spec => []OrderInv
<1>1. Init => OrderInv
  <2> SUFFICES ASSUME Init PROVE OrderInv
    OBVIOUS
  <2>1. /\ seen = [i \in Filters |-> <<>>] /\ stack = <<>> /\ fm.buffer = <<>>
        /\ N \in Filters
    BY FiltersAssumption DEF Init, Filters
  <2>2. seen[N] = <<>> /\ seen \in [Filters -> Seq(Nat)]
    BY <2>1
  <2>3. Ordered(<<>>) /\ Sent(<<>>, codec.chunks) /\ Before(<<>>, <<>>)
    BY DEF Ordered, Sent, Before
  <2> QED BY <2>1, <2>2, <2>3 DEF OrderInv
<1>2. ControlInv /\ OrderInv /\ [Next]_vars => OrderInv'
  <2> SUFFICES ASSUME ControlInv, OrderInv, [Next]_vars PROVE OrderInv'
    OBVIOUS
  <2>1. CASE UNCHANGED vars
    BY <2>1 DEF OrderInv, CarriesLast, canIterate, vars
  <2>2. CASE Step
    BY <2>2, continueOrder, decodeHeadersOrder, decodeDataOrder, decodeTrailersOrder,
       trailersCallbackOrder DEF Step
  <2>3. CASE \/ requestHeaders \/ requestTrailers \/ responseComplete
             \/ \E i \in Others : continueDecoding(i)
    BY <2>3, mainOrder
  <2>4. CASE requestData
    BY <2>4, requestDataOrder
  <2> QED BY <2>1, <2>2, <2>3, <2>4 DEF Next
<1> QED BY <1>1, <1>2, ControlInvariance, PTL DEF Spec

\* The terminal filter is given the codec's data in the order in which it came
\* and no part of it twice, whatever the other filters hold back, continue or
\* add, and also when they contend.
THEOREM TerminalOrder == ASSUME Cautious PROVE Spec => []TerminalDataInOrder
<1>1. OrderInv => TerminalDataInOrder
  <2> SUFFICES ASSUME OrderInv PROVE TerminalDataInOrder
    OBVIOUS
  <2>1. N \in Filters
    BY FiltersAssumption DEF Filters
  <2>2. seen[N] \in Seq(Nat) /\ Ordered(seen[N])
    BY <2>1 DEF OrderInv
  <2>3. DOMAIN seen[N] = 1 .. Len(seen[N])
    BY <2>2
  <2> QED BY <2>2, <2>3 DEF TerminalDataInOrder, Ordered
<1> QED BY <1>1, OrderInvariance, PTL
=============================================================================

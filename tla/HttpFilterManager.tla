-------------------------- MODULE HttpFilterManager --------------------------
(***************************************************************************)
(* The decoder side of Http::FilterManager for one request: a chain of     *)
(* filters 1..N that are given the headers, the body and the trailers.     *)
(* The first N - 1 are any filters (the sample decoder filter of this      *)
(* repository is one that always continues); the last is a terminal filter *)
(* like the router, which takes what it is given.  What a filter returns   *)
(* from a callback, and what it calls there, is a choice of the model      *)
(* within the contract of envoy/http/filter.h.                             *)
(*                                                                         *)
(* A filter may hold the request back, and the manager then buffers the    *)
(* body in the one buffer of the stream, to be sent on by commonContinue.  *)
(* That is called by a filter's timer or from inside the iteration, and it *)
(* iterates itself: `stack' holds the functions in progress, the innermost *)
(* first, and one step runs that one up to its next call.                  *)
(***************************************************************************)
EXTENDS Naturals, Sequences, SequencesExt

CONSTANTS N,             \* number of filters
          MaxChunks,     \* bound: data frames that carry data
          BufferLimit,   \* buffer_limit_, in data frames
          Cautious       \* do filters keep away from what Mishandled says?

ASSUME FiltersAssumption ==
    /\ N \in Nat \ {0} /\ MaxChunks \in Nat /\ BufferLimit \in Nat
    /\ Cautious \in BOOLEAN

Filters == 1..N
Others == 1..(N - 1)

VARIABLES fm,      \* the FilterManager and its ActiveStreamDecoderFilters
          codec,   \* what the codec has sent: "none", then a number of chunks
          stack,
          seen,    \* for every filter, what it has been given
          taken,   \* data that a filter kept and did not pass on
          contended  \* has a filter held the request back while a later one did?

vars == <<fm, codec, stack, seen, taken, contended>>

(* What filters are given, numbered in the order in which it belongs.      *)
Headers == 0
Body(i) == i                       \* the body that filter i adds to headers
Chunk(k) == N + k
Extra(i) == N + MaxChunks + i      \* data that filter i adds in its trailers
Trailers == 2 * N + MaxChunks + 1
EndStream == Trailers + 1

-----------------------------------------------------------------------------
Frame(op, i) == [op |-> op, at |-> i, end |-> FALSE, data |-> <<>>,
                 buffered |-> FALSE, mark |-> 0]

top == Head(stack)
Runs(op) == stack # <<>> /\ top.op = op
\* The innermost function ends by calling, one after the other, fs.
Calls(fs) == stack' = fs \o Tail(stack)
Returns == Calls(<<>>)
MainLoop == stack = <<>>

Init ==
    /\ fm = [iter |-> [i \in Filters |-> "Continue"],
             fromCurrent |-> [i \in Filters |-> FALSE],
             headersContinued |-> [i \in Filters |-> FALSE],
             endStream |-> [i \in Filters |-> FALSE],
             remoteComplete |-> FALSE, localComplete |-> FALSE, aborted |-> FALSE,
             trailers |-> FALSE, streaming |-> TRUE, inTrailers |-> FALSE,
             exists |-> FALSE, buffer |-> <<>>, above |-> FALSE, paused |-> 0]
    /\ codec = [headers |-> FALSE, chunks |-> 0]
    /\ stack = <<>>
    /\ seen = [i \in Filters |-> <<>>]
    /\ taken = {}
    /\ contended = FALSE

canIterate(s, i) == s.iter[i] = "Continue"
stoppedAll(s, i) == s.iter[i] \in {"StopAllBuffer", "StopAllWatermark"}

\* A response that was sent, or a reset, ends the stream.
sendLocalReply(s, inCallback) ==
    [s EXCEPT !.localComplete = TRUE, !.aborted = @ \/ inCallback]

\* The buffer has passed its limit.
requestDataTooLarge(s, inCallback) ==
    IF s.streaming THEN [s EXCEPT !.above = TRUE, !.paused = @ + 1]
    ELSE sendLocalReply([s EXCEPT !.above = TRUE], inCallback)

\* Mutant of Buffered: told again for all that is above the limit.
BufferedEveryTime(s, data, inCallback) ==
    LET b == [s EXCEPT !.exists = TRUE, !.buffer = @ \o data]
    IN IF Len(b.buffer) > BufferLimit THEN requestDataTooLarge(b, inCallback) ELSE b

\* data is added to the buffer.
Buffered(s, data, inCallback) ==
    LET b == [s EXCEPT !.exists = TRUE, !.buffer = @ \o data]
    IN IF Len(b.buffer) > BufferLimit /\ ~b.above
       THEN requestDataTooLarge(b, inCallback) ELSE b

\* Mutant of commonHandleBufferData: the buffer is added to itself.
alwaysHandleBufferData(s, f) ==
    Buffered(s, IF f.buffered THEN s.buffer ELSE f.data, s.inTrailers)

\* Mutant of commonHandleBufferData: only in an existing buffer.
bufferIfExists(s, f) ==
    IF f.buffered \/ ~s.exists THEN s ELSE Buffered(s, f.data, s.inTrailers)

\* commonHandleBufferData: what is in the buffer already stays there.
commonHandleBufferData(s, f) ==
    IF f.buffered THEN s ELSE Buffered(s, f.data, s.inTrailers)

\* Mutant of Drained: the codec is not told.
DrainedSilently(s, f) ==
    IF ~f.buffered THEN s ELSE [s EXCEPT !.buffer = <<>>, !.above = FALSE]

\* The filter moves the data it is given out; an emptied buffer tells the
\* codec to go on (requestDataDrained).
Drained(s, f) ==
    IF ~f.buffered THEN s
    ELSE [s EXCEPT !.buffer = <<>>, !.above = FALSE,
                   !.paused = IF s.above THEN @ - 1 ELSE @]

DataOf(f) == IF f.buffered THEN fm.buffer ELSE f.data

-----------------------------------------------------------------------------
(* commonContinue and what it calls.                                       *)

\* commonDecodePrefix: a filter that had stopped everything comes first.
commonDecodePrefix(i) == IF fm.fromCurrent[i] THEN i ELSE i + 1

decodeHeadersCall(i, end) == [Frame("decodeHeaders", i) EXCEPT !.end = end]
decodeTrailersCall(i) == IF fm.localComplete THEN <<>> ELSE <<Frame("decodeTrailers", i)>>
decodeDataCall(f) == IF fm.localComplete THEN <<>> ELSE <<f>>

\* Mutant of canContinue: continues also after a response.
canContinueAlways(s) == TRUE

canContinue(s) == ~s.localComplete

commonContinue ==
    /\ Runs("commonContinue") /\ UNCHANGED <<codec, seen, taken, contended>>
    /\ LET i == top.at
       IN IF ~canContinue(fm) THEN Returns /\ UNCHANGED fm
          ELSE /\ fm' = [fm EXCEPT !.iter[i] = "Continue",
                                   !.fromCurrent[i] = @ \/ stoppedAll(fm, i)]
               /\ Calls(<<Frame("doHeaders", i), Frame("doData", i),
                          Frame("doTrailers", i), Frame("continued", i)>>)

doHeaders ==
    /\ Runs("doHeaders") /\ UNCHANGED <<codec, seen, taken, contended>>
    /\ IF fm.headersContinued[top.at] THEN Returns /\ UNCHANGED fm
       ELSE /\ fm' = [fm EXCEPT !.headersContinued[top.at] = TRUE]
            /\ Calls(<<decodeHeadersCall(top.at + 1,
                          fm.remoteComplete /\ ~fm.exists /\ ~fm.trailers)>>)

doData ==
    /\ Runs("doData") /\ UNCHANGED <<fm, codec, seen, taken, contended>>
    /\ Calls(IF fm.exists
             THEN decodeDataCall([Frame("decodeData", commonDecodePrefix(top.at))
                    EXCEPT !.buffered = TRUE, !.end = fm.remoteComplete /\ ~fm.trailers])
             ELSE <<>>)

doTrailers ==
    /\ Runs("doTrailers") /\ UNCHANGED <<fm, codec, seen, taken, contended>>
    /\ Calls(IF fm.trailers THEN decodeTrailersCall(commonDecodePrefix(top.at)) ELSE <<>>)

continued ==
    /\ Runs("continued") /\ Returns
    /\ fm' = [fm EXCEPT !.fromCurrent[top.at] = FALSE]
    /\ UNCHANGED <<codec, seen, taken, contended>>

\* A filter added a body to a request without one.
maybeContinueDecodingCall(mark) ==
    IF mark = 0 THEN <<>> ELSE <<Frame("maybeContinueDecoding", mark)>>

\* Mutant of maybeContinueDecoding: the filter is not marked as stopped.
continueUnmarked ==
    /\ Runs("maybeContinueDecoding") /\ Calls(<<Frame("commonContinue", top.at)>>)
    /\ UNCHANGED <<fm, codec, seen, taken, contended>>

maybeContinueDecoding ==
    /\ Runs("maybeContinueDecoding") /\ Calls(<<Frame("commonContinue", top.at)>>)
    /\ fm' = [fm EXCEPT !.iter[top.at] = "StopSingleIteration"]
    /\ UNCHANGED <<codec, seen, taken, contended>>

-----------------------------------------------------------------------------
(* What filters do in a callback.                                          *)

\* How a callback may end the stream: by sendLocalReply, or by encoding a
\* response or resetting the stream itself.
Endings == {"none", "sendLocalReply", "encode"}

Ended(s, ending, inCallback) ==
    IF ending = "none" THEN s ELSE sendLocalReply(s, ending = "sendLocalReply" /\ inCallback)

\* A filter that ends the stream itself stops the iteration.
StopsIfEnded(status, ending) == ending = "encode" => status # "Continue"

\* A later filter is holding the request back.
HeldLater(i) == \E j \in Others : j > i /\ ~canIterate(fm, j)

HoldsBack(i, holds) == contended' = (contended \/ (holds /\ HeldLater(i)))

Given(i, what) == seen' = [seen EXCEPT ![i] = @ \o what]
EndMark(end) == IF end THEN <<EndStream>> ELSE <<>>

-----------------------------------------------------------------------------
(* decodeHeaders.                                                          *)

IterationAfter(before, status) ==
    CASE status = "Continue" -> before
      [] status = "StopIteration" -> "StopSingleIteration"
      [] status = "StopAllIterationAndBuffer" -> "StopAllBuffer"
      [] status = "StopAllIterationAndWatermark" -> "StopAllWatermark"

\* Status, ending and whether a body is added to a request without one; a
\* filter that does so does not stop everything.
HeadersAnswers(i, end) ==
    IF i = N THEN [status : {"StopIteration"}, ending : Endings, adds : {FALSE}]
    ELSE {a \in [status : {"Continue", "StopIteration", "StopAllIterationAndBuffer",
                           "StopAllIterationAndWatermark"},
                 ending : Endings, adds : BOOLEAN] :
            /\ StopsIfEnded(a.status, a.ending)
            /\ a.adds => end /\ a.ending = "none"
                             /\ a.status \in {"Continue", "StopIteration"}}

\* Mutant of StatusIfAborted: what the filter returned counts.
StatusReturned(s, status) == status

\* The status that counts after a local reply.
StatusIfAborted(s, status) == IF s.aborted THEN "StopIteration" ELSE status

decodeHeaders ==
    /\ Runs("decodeHeaders") /\ UNCHANGED <<codec, taken>>
    /\ IF top.at > N
       THEN /\ Calls(maybeContinueDecodingCall(top.mark))
            /\ UNCHANGED <<fm, seen, contended>>
       ELSE LET i == top.at
                end == top.end /\ top.mark = 0
            IN \E a \in HeadersAnswers(i, end) :
                 LET added == IF a.adds
                              THEN Buffered([fm EXCEPT !.streaming = FALSE], <<Body(i)>>, TRUE)
                              ELSE fm
                     back == Ended(added, a.ending, TRUE)
                     status == StatusIfAborted(back, a.status)
                 IN /\ Given(i, <<Headers>> \o EndMark(end))
                    /\ HoldsBack(i, status # "Continue")
                    /\ fm' = [back EXCEPT !.iter[i] = IterationAfter(@, status),
                                          !.headersContinued[i] = status = "Continue",
                                          !.endStream[i] = end]
                    /\ Calls(IF i # N /\ (back.localComplete \/ status # "Continue")
                             THEN maybeContinueDecodingCall(top.mark)
                             ELSE <<[top EXCEPT !.at = i + 1,
                                       !.mark = IF top.end /\ back.exists /\ @ = 0
                                                THEN i ELSE @]>>)

-----------------------------------------------------------------------------
(* decodeData.                                                             *)

\* commonContinue is in progress.
Continuing == \E k \in DOMAIN stack : stack[k].op = "doTrailers"

\* Answers to data f that filter.h allows and the manager mishandles.  Under
\* Cautious no filter gives one; without it the model has them as well.
\*  - Trailers are added while this filter or an earlier one lets the request go,
\*    a filter lets go inside an earlier one's data or behind trailers that were
\*    just added, or one that had stopped everything stops again when it is given
\*    the data: the trailers are sent twice, by two calls of commonContinue or by
\*    one and decodeData.
\*  - Trailers are added and the data is stopped: they are sent past the filter
\*    that stopped, and the body that it holds is not sent on later.
\*  - A filter lets go inside the trailers callback of an earlier one: trailers
\*    are decoded inside trailers, against the ASSERT of decodeTrailers, and the
\*    earlier filter's local reply no longer ends the iteration.
\*  - A response is encoded inside the trailers callback of an earlier filter,
\*    whose iteration goes on.
Mishandled(i, f, a) ==
    \/ a.trailers /\ (a.status # "Continue" \/ ~canIterate(fm, i) \/ Continuing)
    \/ /\ a.status = "Continue" /\ ~canIterate(fm, i)
       /\ f.mark # 0 \/ (fm.trailers /\ Continuing) \/ fm.inTrailers
    \/ a.status # "Continue" /\ fm.trailers /\ Continuing /\ fm.fromCurrent[i]
    \/ a.ending = "encode" /\ fm.inTrailers

\* Trailers are added in the last data frame.
DataAnswers(i, f) ==
    {a \in [status : IF i = N THEN {"StopIterationNoBuffer"}
                     ELSE {"Continue", "StopIterationAndBuffer", "StopIterationAndWatermark",
                           "StopIterationNoBuffer"},
            ending : Endings, trailers : BOOLEAN] :
       /\ StopsIfEnded(a.status, a.ending)
       /\ a.trailers => i # N /\ f.end /\ ~fm.trailers /\ a.ending = "none"
       /\ Cautious => ~Mishandled(i, f, a)}

\* Mutant of EmptyBufferAtEnd: no empty buffer.
NoEmptyBuffer(s) == s

\* A filter that keeps the last data leaves an empty buffer, so that the end of
\* the stream can be sent on later.
EmptyBufferAtEnd(s) ==
    IF s.remoteComplete /\ ~s.trailers THEN [s EXCEPT !.exists = TRUE] ELSE s

\* commonHandleAfterDataCallback, with the calls it makes.
AfterData(s, f, status) ==
    LET i == f.at
        stopped == [s EXCEPT !.iter[i] = "StopSingleIteration"]
    IN CASE status = "Continue" /\ s.iter[i] # "StopSingleIteration" -> s
         [] status = "Continue" /\ s.iter[i] = "StopSingleIteration" ->
              commonHandleBufferData(s, f)
         [] status = "StopIterationNoBuffer" -> EmptyBufferAtEnd(Drained(stopped, f))
         [] OTHER -> commonHandleBufferData([stopped EXCEPT
                       !.streaming = status = "StopIterationAndWatermark"], f)

ContinuesInline(s, f, status) == status = "Continue" /\ s.iter[f.at] = "StopSingleIteration"

\* Behind the loop: the trailers that a filter added.
afterDataLoop(f) == [f EXCEPT !.at = N + 1]

\* handleDataIfStopAll
StoppedAllAt(f) ==
    /\ fm' = commonHandleBufferData(
               [fm EXCEPT !.streaming = fm.iter[f.at] = "StopAllWatermark"], f)
    /\ Returns /\ UNCHANGED <<seen, taken, contended>>

decodeDataCallback(f) ==
    LET i == f.at
        end == f.end /\ ~fm.trailers
    IN \E a \in DataAnswers(i, f) :
         LET back == Ended([fm EXCEPT !.endStream[i] = end, !.trailers = @ \/ a.trailers],
                           a.ending, TRUE)
             after == AfterData(back, f, a.status)
             next == IF a.trailers /\ f.mark = 0 THEN [f EXCEPT !.end = FALSE, !.mark = i] ELSE f
         IN /\ Given(i, DataOf(f) \o EndMark(end))
            /\ HoldsBack(i, a.status # "Continue")
            /\ taken' = IF a.status = "StopIterationNoBuffer" /\ i # N
                        THEN taken \cup ToSet(DataOf(f)) ELSE taken
            /\ IF back.aborted THEN Returns /\ fm' = back
               ELSE /\ fm' = after
                    /\ Calls(IF ContinuesInline(back, f, a.status)
                             THEN <<Frame("commonContinue", i), afterDataLoop(next)>>
                             ELSE IF a.status = "Continue" THEN <<[next EXCEPT !.at = i + 1]>>
                             ELSE <<afterDataLoop(next)>>)

\* Mutant of AtEndOfStream: the mark is not looked at.
NeverAtEnd(i) == FALSE

\* The data is not for a filter that has had the end of the stream.
AtEndOfStream(i) == fm.endStream[i]

decodeData ==
    /\ Runs("decodeData") /\ UNCHANGED codec
    /\ IF top.at > N
       THEN /\ Calls(IF top.mark # 0 THEN decodeTrailersCall(commonDecodePrefix(top.mark))
                     ELSE <<>>)
            /\ UNCHANGED <<fm, seen, taken, contended>>
       ELSE IF stoppedAll(fm, top.at) THEN StoppedAllAt(top)
       ELSE IF AtEndOfStream(top.at)
            THEN Returns /\ UNCHANGED <<fm, seen, taken, contended>>
            ELSE decodeDataCallback(top)

-----------------------------------------------------------------------------
(* decodeTrailers.                                                         *)

\* The callback begins; the filter may add data, which goes to the later
\* filters at once unless this filter is holding the request back.
decodeTrailers ==
    /\ Runs("decodeTrailers") /\ UNCHANGED <<codec, taken>>
    /\ LET i == top.at
           callback == Frame("trailersCallback", i)
           inside == [fm EXCEPT !.inTrailers = TRUE]
       IN IF i > N \/ (i <= N /\ stoppedAll(fm, i))
          THEN Returns /\ UNCHANGED <<fm, seen, contended>>
          ELSE /\ Given(i, <<Trailers, EndStream>>)
               /\ UNCHANGED contended
               /\ \/ Calls(<<callback>>) /\ fm' = inside
                  \/ /\ i # N /\ ~canIterate(fm, i) /\ Calls(<<callback>>)
                     /\ fm' = Buffered([inside EXCEPT !.streaming = FALSE], <<Extra(i)>>, TRUE)
                  \/ /\ i # N /\ canIterate(fm, i) /\ fm' = inside
                     /\ Calls(decodeDataCall([Frame("decodeData", i + 1)
                                                EXCEPT !.data = <<Extra(i)>>])
                              \o <<callback>>)

TrailersAnswers(i) ==
    {a \in [status : {"Continue", "StopIteration"}, ending : Endings] :
       StopsIfEnded(a.status, a.ending) /\ (i = N => a.status = "StopIteration")}

\* It returns.
trailersCallback ==
    /\ Runs("trailersCallback") /\ UNCHANGED <<codec, seen, taken>>
    /\ LET i == top.at
       IN \E a \in TrailersAnswers(i) :
            LET back == [Ended(fm, a.ending, fm.inTrailers)
                           EXCEPT !.endStream[i] = TRUE, !.inTrailers = FALSE]
                status == StatusIfAborted(back, a.status)
            IN /\ HoldsBack(i, status # "Continue")
               /\ fm' = IF status # "Continue" /\ canIterate(back, i)
                        THEN [back EXCEPT !.iter[i] = "StopSingleIteration"] ELSE back
               /\ Calls(IF ContinuesInline(back, top, status) THEN <<Frame("commonContinue", i)>>
                        ELSE IF status = "Continue" THEN <<Frame("decodeTrailers", i + 1)>>
                        ELSE <<>>)

-----------------------------------------------------------------------------
(* Events of the main loop.                                                *)

requestHeaders ==
    /\ MainLoop /\ ~codec.headers /\ codec' = [codec EXCEPT !.headers = TRUE]
    /\ \E end \in BOOLEAN :
         /\ fm' = [fm EXCEPT !.remoteComplete = end]
         /\ stack' = <<decodeHeadersCall(1, end)>>
    /\ UNCHANGED <<seen, taken, contended>>

\* ActiveStream::decodeData; the last frame may be empty.
requestData ==
    /\ MainLoop /\ codec.headers /\ ~fm.remoteComplete
    /\ \E end, empty \in BOOLEAN :
         /\ empty => end
         /\ ~empty => codec.chunks < MaxChunks
         /\ codec' = IF empty THEN codec ELSE [codec EXCEPT !.chunks = @ + 1]
         /\ fm' = [fm EXCEPT !.remoteComplete = end]
         /\ stack' = decodeDataCall([Frame("decodeData", 1) EXCEPT !.end = end,
                       !.data = IF empty THEN <<>> ELSE <<Chunk(codec.chunks + 1)>>])
    /\ UNCHANGED <<seen, taken, contended>>

requestTrailers ==
    /\ MainLoop /\ codec.headers /\ ~fm.remoteComplete
    /\ fm' = [fm EXCEPT !.remoteComplete = TRUE, !.trailers = TRUE]
    /\ stack' = decodeTrailersCall(1)
    /\ UNCHANGED <<codec, seen, taken, contended>>

\* A filter that holds the request back lets it go, from a timer or an answer
\* it waited for.
continueDecoding(i) ==
    /\ MainLoop /\ ~canIterate(fm, i) /\ ~fm.localComplete
    /\ stack' = <<Frame("commonContinue", i)>>
    /\ UNCHANGED <<fm, codec, seen, taken, contended>>

\* The response is complete, a timeout answers the request, it is reset.
responseComplete ==
    /\ MainLoop /\ codec.headers /\ ~fm.localComplete
    /\ fm' = sendLocalReply(fm, FALSE)
    /\ UNCHANGED <<codec, stack, seen, taken, contended>>

Step == \/ commonContinue \/ doHeaders \/ doData \/ doTrailers \/ continued
        \/ maybeContinueDecoding \/ decodeHeaders \/ decodeData
        \/ decodeTrailers \/ trailersCallback

Next == \/ Step \/ requestHeaders \/ requestData \/ requestTrailers \/ responseComplete
        \/ \E i \in Others : continueDecoding(i)

\* Functions go on, and a filter that holds the request back continues in the
\* end, as filter.h demands.
Fairness == WF_vars(Step) /\ \A i \in Others : WF_vars(continueDecoding(i))

Spec == Init /\ [][Next]_vars /\ Fairness

-----------------------------------------------------------------------------
(* Properties.                                                             *)

TypeOK ==
    /\ \A i \in Filters :
         fm.iter[i] \in {"Continue", "StopSingleIteration", "StopAllBuffer", "StopAllWatermark"}
    /\ fm.paused \in {0, 1}
    /\ \A k \in DOMAIN stack : stack[k].at \in 1..(N + 1) /\ stack[k].mark \in 0..N

Increasing(s) == \A k \in 1..(Len(s) - 1) : s[k] < s[k + 1]

\* Every filter is given the headers first, then the data in the order in which
\* it came, then the trailers, then the end of the stream, and nothing twice,
\* whatever the filters before it held back, added or took, unless two filters
\* held the request back at once.
GivenInOrder ==
    ~contended => \A i \in Filters :
        Increasing(seen[i]) /\ (seen[i] # <<>> => seen[i][1] = Headers)

\* What the codec may send.
Chunks == {Chunk(k) : k \in 1..MaxChunks}

\* Even then the terminal filter is given the codec's data in order and once.
TerminalDataInOrder ==
    \A j, k \in DOMAIN seen[N] :
        j < k /\ seen[N][j] \in Chunks /\ seen[N][k] \in Chunks => seen[N][j] < seen[N][k]

\* What the terminal filter was given when it sees the end is all that the
\* codec sent, but for what filters took.
NothingLost ==
    EndStream \in ToSet(seen[N]) =>
      {Chunk(k) : k \in 1..codec.chunks} \ taken \subseteq ToSet(seen[N])

\* The request that filters see is the one that was received, however it was
\* held, buffered and passed on: in order, nothing twice, nothing missing.
DataIntact == GivenInOrder /\ TerminalDataInOrder /\ NothingLost

\* No filter is called after the response: not when it is sent in the middle of
\* an iteration or of a continuation, nor when buffering the data provokes it.
NoCallbackAfterResponse == [][seen' # seen => ~fm.localComplete]_vars

\* While the request is still coming, the codec is stopped only as long as a
\* filter holds data that it can release.
PausedByAFilter ==
    MainLoop /\ fm.paused = 1 /\ ~fm.localComplete /\ ~fm.remoteComplete
      => fm.buffer # <<>> /\ \E i \in Others : ~canIterate(fm, i)

\* No filter that had its headers is given trailers twice.  (Comment in decodeData:
\* trailers that were added there are decoded after the loop, for filters to process
\* them.)
TrailersOnce ==
    ~contended => \A i \in Filters :
        seen[i] # <<>> /\ seen[i][1] = Headers
          => Len(SelectSeq(seen[i], LAMBDA x : x = Trailers)) <= 1

\* A filter would be called by the innermost function.
Called(op) == top.op = op /\ ~stoppedAll(fm, top.at)

\* The ASSERTs of the manager: a filter is continued only when it is stopped,
\* gets its headers once and is free then, and lets data or trailers pass only
\* after its headers; trailers are not decoded inside a trailers callback; a
\* buffer is made for the end of the stream only where that is seen, and is
\* there when a body was added to the headers.  (Headers and data callbacks make
\* no call that iterates, so that none is entered inside another.)
AssertionsHold ==
    stack # <<>> /\ top.at <= N =>
      /\ top.op = "commonContinue" /\ canContinue(fm) => ~canIterate(fm, top.at)
      /\ top.op = "maybeContinueDecoding" => fm.exists
      /\ top.op = "decodeHeaders" => canIterate(fm, top.at) /\ ~fm.headersContinued[top.at]
      /\ top.op \in {"decodeData", "decodeTrailers"} /\ canIterate(fm, top.at)
           => fm.headersContinued[top.at]
      /\ Called("decodeTrailers") => ~fm.inTrailers
      /\ Called("decodeData") /\ fm.remoteComplete /\ ~fm.trailers /\ ~fm.exists => top.end

\* The manager's state is well formed, and as its ASSERTs expect it.
StateAsAsserted == TypeOK /\ AssertionsHold

\* A request that has been received ends at the terminal filter, if it is not
\* answered before and no two filters held it back at once.
RequestDelivered ==
    fm.remoteComplete ~> \/ EndStream \in ToSet(seen[N])
                         \/ fm.localComplete \/ contended

=============================================================================

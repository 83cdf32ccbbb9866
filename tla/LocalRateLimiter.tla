--------------------------- MODULE LocalRateLimiter ---------------------------
(***************************************************************************)
(* The token buckets of LocalRateLimiterImpl                               *)
(* (envoy/source/extensions/filters/common/local_ratelimit).               *)
(*                                                                         *)
(* Worker threads take tokens with a load followed by a compare-and-swap   *)
(* loop; the main thread's fill timer adds tokens with the same pattern.   *)
(* Nothing but the atomic word of each bucket is shared, so every access   *)
(* to it is one step of the model.  A compare_exchange_weak that fails     *)
(* although the value matches leaves every variable as it is: it is a      *)
(* stuttering step.                                                        *)
(***************************************************************************)
EXTENDS Integers, Sequences

CONSTANTS
    Workers,        \* threads that call requestAllowed
    Descriptors,    \* descriptors_ configured with a bucket of their own
    Default,        \* the bucket tokens_ of requests that match none
    MaxTokens,      \* [Buckets -> Nat], TokenBucket::max_tokens_
    TokensPerFill,  \* [Buckets -> Nat], TokenBucket::tokens_per_fill_
    FillInterval,   \* [Buckets -> Nat], TokenBucket::fill_interval_
    Requests,       \* request_descriptors of the requests: sequences
    WordSize,       \* 2^32: the tokens are std::atomic<uint32_t>
    MaxTime         \* bound: the clock stops here

Buckets == Descriptors \cup {Default}

ASSUME ConfigAssumption ==
    /\ Default \notin Descriptors
    /\ WordSize \in Nat \ {0}
    /\ MaxTime \in Nat
    /\ MaxTokens \in [Buckets -> 0 .. WordSize - 1]
    /\ TokensPerFill \in [Buckets -> 1 .. WordSize - 1]
    /\ FillInterval \in [Buckets -> Nat]
    /\ \A r \in Requests : DOMAIN r \subseteq Nat

\* The constructor throws unless every descriptor's interval is a multiple of
\* the timer's.  A timer interval of 0 creates no timer, and as the remainder
\* of a division by it is infinite, it then accepts no descriptor at all.
ASSUME IntervalAssumption ==
    /\ FillInterval[Default] = 0 => Descriptors = {}
    /\ \A d \in Descriptors : FillInterval[d] % FillInterval[Default] = 0

VARIABLES
    tokens,     \* TokenState::tokens_ of each bucket
    fillTime,   \* TokenState::fill_time_ of each bucket
    now,        \* time_source_.monotonicTime()
    due,        \* when fill_timer_ is due; NoTimer when there is no timer
    fill,       \* the fill timer's callback on the main thread
    request,    \* the call of requestAllowedHelper of each worker
    admitted,   \* history: requests allowed, per bucket
    credited    \* history: tokens the fills have written into each bucket

vars == <<tokens, fillTime, now, due, fill, request, admitted, credited>>

NoTimer == -1

Idle == [pc |-> "idle", bucket |-> Default, expected |-> 0]

-------------------------------------------------------------------------------

Init ==
    /\ tokens = MaxTokens
    /\ fillTime = [b \in Buckets |-> 0]
    /\ now = 0
    /\ due = IF FillInterval[Default] > 0 THEN FillInterval[Default] ELSE NoTimer
    /\ fill = [pc |-> "idle", bucket |-> Default, expected |-> 0,
               todo |-> {}, time |-> 0]
    /\ request = [w \in Workers |-> Idle]
    /\ admitted = [b \in Buckets |-> 0]
    /\ credited = [b \in Buckets |-> 0]

\* The bucket of the first request descriptor that is configured, or the
\* default one.
BucketOf(r) ==
    LET matching == {i \in DOMAIN r : r[i] \in Descriptors}
    IN  IF matching = {}
        THEN Default
        ELSE r[CHOOSE i \in matching : \A j \in matching : i <= j]

\* One turn of the loop after a load or a failed CAS: with no token the
\* request is refused, otherwise it goes on to the CAS.
AfterLoad(b, value) ==
    IF value = 0 THEN Idle ELSE [pc |-> "cas", bucket |-> b, expected |-> value]

\* requestAllowed picks the bucket, requestAllowedHelper loads its tokens.
RequestLoad(w, r) ==
    /\ request[w].pc = "idle"
    /\ request' = [request EXCEPT ![w] = AfterLoad(BucketOf(r), tokens[BucketOf(r)])]
    /\ UNCHANGED <<tokens, fillTime, now, due, fill, admitted, credited>>

\* Mutant of RequestCas: a plain store of expected - 1, compared with nothing.
RequestStore(w) ==
    LET b == request[w].bucket IN
    /\ request[w].pc = "cas"
    /\ tokens' = [tokens EXCEPT ![b] = request[w].expected - 1]
    /\ admitted' = [admitted EXCEPT ![b] = @ + 1]
    /\ request' = [request EXCEPT ![w] = Idle]
    /\ UNCHANGED <<fillTime, now, due, fill, credited>>

\* The CAS of requestAllowedHelper.  A failed one reloads expected_tokens.
RequestCas(w) ==
    LET b == request[w].bucket IN
    /\ request[w].pc = "cas"
    /\ IF tokens[b] = request[w].expected
       THEN /\ tokens' = [tokens EXCEPT ![b] = @ - 1]
            /\ admitted' = [admitted EXCEPT ![b] = @ + 1]
            /\ request' = [request EXCEPT ![w] = Idle]
       ELSE /\ request' = [request EXCEPT ![w] = AfterLoad(b, tokens[b])]
            /\ UNCHANGED <<tokens, admitted>>
    /\ UNCHANGED <<fillTime, now, due, fill, credited>>

-------------------------------------------------------------------------------

\* Mutant of NewTokensValue: the sum is not limited to max_tokens_.
NewTokensUnlimited(b, expected) == (expected + TokensPerFill[b]) % WordSize

\* std::min(max_tokens_, expected + tokens_per_fill_), a sum of uint32_t.
NewTokensValue(b, expected) ==
    LET sum == (expected + TokensPerFill[b]) % WordSize
    IN  IF sum < MaxTokens[b] THEN sum ELSE MaxTokens[b]

\* onFillTimer: the helper loads the default bucket first.
FillTimer ==
    /\ fill.pc = "idle"
    /\ due # NoTimer
    /\ due <= now
    /\ fill' = [fill EXCEPT !.pc = "cas", !.bucket = Default,
                            !.expected = tokens[Default]]
    /\ UNCHANGED <<tokens, fillTime, now, due, request, admitted, credited>>

\* The CAS of onFillTimerHelper.  After the default bucket the descriptors'
\* turn comes and the time they are compared with is read; after a
\* descriptor's bucket its fill time is set.
FillCas ==
    LET b == fill.bucket IN
    /\ fill.pc = "cas"
    /\ IF tokens[b] = fill.expected
       THEN /\ tokens' = [tokens EXCEPT ![b] = NewTokensValue(b, fill.expected)]
            /\ credited' = [credited EXCEPT
                               ![b] = @ + NewTokensValue(b, fill.expected) - fill.expected]
            /\ fillTime' = [fillTime EXCEPT
                               ![b] = IF b = Default THEN @ ELSE fill.time]
            /\ fill' = IF b = Default
                       THEN [fill EXCEPT !.pc = "scan", !.todo = Descriptors,
                                         !.time = now]
                       ELSE [fill EXCEPT !.pc = "scan"]
       ELSE /\ fill' = [fill EXCEPT !.expected = tokens[b]]
            /\ UNCHANGED <<tokens, credited, fillTime>>
    /\ UNCHANGED <<now, due, request, admitted>>

\* Mutant of FillScan: every descriptor is filled whenever the timer fires.
FillScanAlways(d) ==
    /\ fill.pc = "scan"
    /\ d \in fill.todo
    /\ fill' = [fill EXCEPT !.pc = "cas", !.bucket = d,
                            !.expected = tokens[d], !.todo = @ \ {d}]
    /\ UNCHANGED <<tokens, fillTime, now, due, request, admitted, credited>>

\* The loop of onFillTimerDescriptorHelper: descriptors_ is a hash set, any
\* order is possible.
FillScan(d) ==
    /\ fill.pc = "scan"
    /\ d \in fill.todo
    /\ fill' = IF fill.time - fillTime[d] >= FillInterval[d]
               THEN [fill EXCEPT !.pc = "cas", !.bucket = d,
                                 !.expected = tokens[d], !.todo = @ \ {d}]
               ELSE [fill EXCEPT !.todo = @ \ {d}]
    /\ UNCHANGED <<tokens, fillTime, now, due, request, admitted, credited>>

\* onFillTimer re-arms the timer as its last step.
FillRearm ==
    /\ fill.pc = "scan"
    /\ fill.todo = {}
    /\ fill' = [fill EXCEPT !.pc = "idle"]
    /\ due' = now + FillInterval[Default]
    /\ UNCHANGED <<tokens, fillTime, now, request, admitted, credited>>

Tick ==
    /\ now < MaxTime
    /\ now' = now + 1
    /\ UNCHANGED <<tokens, fillTime, due, fill, request, admitted, credited>>

Next ==
    \/ \E w \in Workers, r \in Requests : RequestLoad(w, r)
    \/ \E w \in Workers : RequestCas(w)
    \/ FillTimer
    \/ FillCas
    \/ \E d \in Descriptors : FillScan(d)
    \/ FillRearm
    \/ Tick

Spec == Init /\ [][Next]_vars

-------------------------------------------------------------------------------

RequestState ==
    [pc : {"idle", "cas"}, bucket : Buckets, expected : 0 .. WordSize - 1]

FillState ==
    [pc : {"idle", "cas", "scan"}, bucket : Buckets,
     expected : 0 .. WordSize - 1, todo : SUBSET Descriptors, time : Nat]

\* Types.  Tokens stay within the uint32_t word: no request takes a token out
\* of an empty bucket (the decrement would wrap).
TypeOK ==
    /\ tokens \in [Buckets -> 0 .. WordSize - 1]
    /\ fillTime \in [Buckets -> Nat]
    /\ now \in Nat
    /\ due \in Nat \cup {NoTimer}
    /\ fill \in FillState
    /\ request \in [Workers -> RequestState]
    /\ admitted \in [Buckets -> Nat]
    /\ credited \in [Buckets -> Int]

\* A request goes on to its CAS only with a token to take.
CasHasToken ==
    \A w \in Workers : request[w].pc = "cas" => request[w].expected > 0

\* No token is lost or made up: whatever the interleaving of loads and CASes,
\* the tokens in a bucket are the initial ones, plus what the fills computed
\* that they added, minus one for each request that was told it is allowed.
TokensConserved ==
    \A b \in Buckets : tokens[b] + admitted[b] = MaxTokens[b] + credited[b]

\* token_bucket.proto: the bucket never contains more than max_tokens tokens.
NeverOverfilled ==
    \A b \in Buckets : tokens[b] <= MaxTokens[b]

\* The limit itself: by any time the requests admitted from a bucket are at
\* most its burst plus tokens_per_fill for each whole interval elapsed.
AdmissionRateBound ==
    \A b \in Buckets :
        FillInterval[b] > 0 =>
            admitted[b] <= MaxTokens[b]
                           + TokensPerFill[b] * (now \div FillInterval[b])

\* token_bucket.proto: tokens are ADDED to the bucket during each fill
\* interval; a fill never leaves a bucket with fewer tokens.
FillNeverRemoves ==
    [][\A b \in Buckets : credited'[b] >= credited[b]]_vars

\* The sum in onFillTimerHelper fits in the uint32_t word.
NoWrap == \A b \in Buckets : MaxTokens[b] + TokensPerFill[b] < WordSize

\* The loops of loads and CASes implement atomic takes and fills: a request is
\* allowed only by taking a token that is in the bucket at that moment, and a
\* fill adds to what is in the bucket at that moment.
Abstract == INSTANCE TokenBucket

ImplementsTokenBucket == Abstract!Spec

===============================================================================

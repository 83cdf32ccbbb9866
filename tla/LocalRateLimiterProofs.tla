------------------------ MODULE LocalRateLimiterProofs ------------------------
(***************************************************************************)
(* Proofs about LocalRateLimiter, for any number of workers, descriptors   *)
(* and any bucket configuration the constructor accepts.                   *)
(***************************************************************************)
EXTENDS LocalRateLimiter, WellFoundedInduction, TLAPS

\* The inductive invariant: besides the types, a request that goes to its CAS
\* saw at least one token, so that a CAS that succeeds cannot wrap the word.
IInv ==
    /\ TypeOK
    /\ CasHasToken
    /\ TokensConserved
    /\ NeverOverfilled

\* A non-empty set of naturals has a smallest element.
LEMMA SmallestNat ==
    ASSUME NEW T, T \subseteq Nat, T # {}
    PROVE  \E i \in T : \A j \in T : i <= j
<1>1. PICK i \in T : \A j \in T : ~ (<<j, i>> \in OpToRel(<, Nat))
  BY NatLessThanWellFounded, WFMin
<1>2. ASSUME NEW j \in T PROVE i <= j
  <2>1. <<j, i>> \in Nat \X Nat /\ <<j, i>>[1] = j /\ <<j, i>>[2] = i
    OBVIOUS
  <2>2. ~ (j < i)
    BY <1>1, <2>1 DEF OpToRel
  <2> QED BY <2>2
<1> QED BY <1>2

\* The bucket that requestAllowed picks is one of the limiter's buckets.
LEMMA BucketOfType == \A r \in Requests : BucketOf(r) \in Buckets
<1> SUFFICES ASSUME NEW r \in Requests PROVE BucketOf(r) \in Buckets
  OBVIOUS
<1> DEFINE matching == {i \in DOMAIN r : r[i] \in Descriptors}
<1>1. CASE matching = {}
  BY <1>1 DEF BucketOf, Buckets
<1>2. CASE matching # {}
  <2>1. matching \subseteq Nat
    BY ConfigAssumption
  <2>2. \E i \in matching : \A j \in matching : i <= j
    BY <1>2, <2>1, SmallestNat
  <2>3. (CHOOSE i \in matching : \A j \in matching : i <= j) \in matching
    BY <2>2
  <2> QED BY <1>2, <2>3 DEF BucketOf, Buckets
<1> QED BY <1>1, <1>2

\* What a fill computes is a number of tokens that fits in the bucket.
LEMMA NewTokensValueType ==
    ASSUME NEW b \in Buckets, NEW e \in 0 .. WordSize - 1
    PROVE  NewTokensValue(b, e) \in 0 .. MaxTokens[b]
<1>1. /\ WordSize \in Nat \ {0}
      /\ MaxTokens[b] \in 0 .. WordSize - 1
      /\ TokensPerFill[b] \in 1 .. WordSize - 1
  BY ConfigAssumption
<1>2. (e + TokensPerFill[b]) % WordSize \in Nat
  BY <1>1
<1> QED BY <1>1, <1>2 DEF NewTokensValue

LEMMA InitIInv == Init => IInv
<1> SUFFICES ASSUME Init PROVE IInv
  OBVIOUS
<1> USE DEF Init, Buckets
<1>1. TypeOK
  BY ConfigAssumption DEF TypeOK, Idle, RequestState, FillState, NoTimer
<1>2. CasHasToken
  BY DEF CasHasToken, Idle
<1>3. TokensConserved /\ NeverOverfilled
  BY ConfigAssumption DEF TokensConserved, NeverOverfilled
<1> QED BY <1>1, <1>2, <1>3 DEF IInv

\* Every action keeps the inductive invariant.
LEMMA NextIInv == IInv /\ [Next]_vars => IInv'
<1> SUFFICES ASSUME IInv, [Next]_vars PROVE IInv'
  OBVIOUS
<1> USE DEF IInv
<1>0. /\ Default \in Buckets /\ Descriptors \subseteq Buckets
      /\ WordSize \in Nat \ {0}
      /\ MaxTokens \in [Buckets -> 0 .. WordSize - 1]
      /\ FillInterval \in [Buckets -> Nat]
  BY ConfigAssumption DEF Buckets
<1>1. ASSUME NEW w \in Workers, NEW r \in Requests, RequestLoad(w, r)
      PROVE  IInv'
  <2> DEFINE b == BucketOf(r)
  <2>1. b \in Buckets
    BY BucketOfType
  <2>2. AfterLoad(b, tokens[b]) \in RequestState
    BY <1>0, <2>1 DEF AfterLoad, Idle, RequestState, TypeOK
  <2>3. TypeOK'
    BY <1>1, <2>2 DEF RequestLoad, TypeOK
  <2>4. CasHasToken'
    BY <1>1, <2>1 DEF RequestLoad, CasHasToken, AfterLoad, Idle, TypeOK
  <2>5. TokensConserved' /\ NeverOverfilled'
    BY <1>1 DEF RequestLoad, TokensConserved, NeverOverfilled
  <2> QED BY <2>3, <2>4, <2>5
<1>2. ASSUME NEW w \in Workers, RequestCas(w)
      PROVE  IInv'
  <2> DEFINE b == request[w].bucket
  <2>1. b \in Buckets /\ request[w].expected \in 1 .. WordSize - 1
    BY <1>2 DEF TypeOK, RequestState, CasHasToken, RequestCas
  <2>2. CASE tokens[b] = request[w].expected
    <3>1. /\ tokens' = [tokens EXCEPT ![b] = @ - 1]
          /\ admitted' = [admitted EXCEPT ![b] = @ + 1]
          /\ request' = [request EXCEPT ![w] = Idle]
          /\ UNCHANGED <<fillTime, now, due, fill, credited>>
      BY <1>2, <2>2 DEF RequestCas
    <3>2. TypeOK'
      BY <1>0, <2>1, <2>2, <3>1 DEF TypeOK, Idle, RequestState
    <3>3. CasHasToken'
      BY <3>1 DEF CasHasToken, Idle, TypeOK
    <3>4. TokensConserved' /\ NeverOverfilled'
      BY <1>0, <2>1, <3>1 DEF TokensConserved, NeverOverfilled, TypeOK
    <3> QED BY <3>2, <3>3, <3>4
  <2>3. CASE tokens[b] # request[w].expected
    <3>1. /\ request' = [request EXCEPT ![w] = AfterLoad(b, tokens[b])]
          /\ UNCHANGED <<tokens, admitted, fillTime, now, due, fill, credited>>
      BY <1>2, <2>3 DEF RequestCas
    <3>2. AfterLoad(b, tokens[b]) \in RequestState
      BY <1>0, <2>1 DEF AfterLoad, Idle, RequestState, TypeOK
    <3>3. TypeOK'
      BY <3>1, <3>2 DEF TypeOK
    <3>4. CasHasToken'
      BY <2>1, <3>1 DEF CasHasToken, AfterLoad, Idle, TypeOK
    <3>5. TokensConserved' /\ NeverOverfilled'
      BY <3>1 DEF TokensConserved, NeverOverfilled
    <3> QED BY <3>3, <3>4, <3>5
  <2> QED BY <2>2, <2>3
<1>3. ASSUME FillTimer PROVE IInv'
  <2>1. TypeOK'
    BY <1>0, <1>3 DEF FillTimer, TypeOK, FillState
  <2> QED BY <1>3, <2>1 DEF FillTimer, CasHasToken, TokensConserved, NeverOverfilled
<1>4. ASSUME FillCas PROVE IInv'
  <2> DEFINE b == fill.bucket
             v == NewTokensValue(b, fill.expected)
  <2>1. b \in Buckets /\ fill.expected \in 0 .. WordSize - 1
    BY DEF TypeOK, FillState
  <2>2. v \in 0 .. MaxTokens[b] /\ v \in 0 .. WordSize - 1
    BY <1>0, <2>1, NewTokensValueType
  <2>3. CASE tokens[b] = fill.expected
    <3>1. /\ tokens' = [tokens EXCEPT ![b] = v]
          /\ credited' = [credited EXCEPT ![b] = @ + v - fill.expected]
          /\ UNCHANGED <<now, due, request, admitted>>
      BY <1>4, <2>3 DEF FillCas
    <3>2. fillTime' \in [Buckets -> Nat]
      BY <1>4, <2>3, <2>1 DEF FillCas, TypeOK, FillState
    <3>3. fill' \in FillState
      BY <1>4, <2>3, <2>1 DEF FillCas, TypeOK, FillState
    <3>4. tokens' \in [Buckets -> 0 .. WordSize - 1] /\ credited' \in [Buckets -> Int]
      BY <2>1, <2>2, <3>1 DEF TypeOK
    <3>5. TypeOK'
      BY <3>1, <3>2, <3>3, <3>4 DEF TypeOK
    <3>6. CasHasToken'
      BY <3>1 DEF CasHasToken
    <3>7. TokensConserved'
      <4> SUFFICES ASSUME NEW c \in Buckets
                   PROVE  tokens'[c] + admitted'[c] = MaxTokens[c] + credited'[c]
        BY DEF TokensConserved
      <4>1. /\ tokens[c] \in Int /\ admitted[c] \in Int /\ credited[c] \in Int
            /\ MaxTokens[c] \in Int /\ v \in Int
            /\ tokens[c] + admitted[c] = MaxTokens[c] + credited[c]
        BY <1>0, <2>2 DEF TokensConserved, TypeOK
      <4>2. tokens'[c] = (IF c = b THEN v ELSE tokens[c])
        BY <3>1 DEF TypeOK
      <4>3. credited'[c] = (IF c = b THEN credited[c] + v - tokens[c] ELSE credited[c])
        BY <2>3, <3>1 DEF TypeOK
      <4>4. admitted'[c] = admitted[c]
        BY <3>1
      <4> HIDE DEF v, b
      <4> QED BY <4>1, <4>2, <4>3, <4>4
    <3>8. NeverOverfilled'
      BY <1>0, <2>1, <2>2, <3>1 DEF NeverOverfilled, TypeOK
    <3> QED BY <3>5, <3>6, <3>7, <3>8
  <2>4. CASE tokens[b] # fill.expected
    <3>1. /\ fill' = [fill EXCEPT !.expected = tokens[b]]
          /\ UNCHANGED <<tokens, credited, fillTime, now, due, request, admitted>>
      BY <1>4, <2>4 DEF FillCas
    <3>2. fill' \in FillState
      BY <2>1, <3>1 DEF TypeOK, FillState
    <3> QED BY <3>1, <3>2 DEF TypeOK, CasHasToken, TokensConserved, NeverOverfilled
  <2> QED BY <2>3, <2>4
<1>5. ASSUME NEW d \in Descriptors, FillScan(d) PROVE IInv'
  <2>1. fill' \in FillState
    BY <1>0, <1>5 DEF FillScan, TypeOK, FillState
  <2> QED BY <1>5, <2>1 DEF FillScan, TypeOK, CasHasToken, TokensConserved, NeverOverfilled
<1>6. ASSUME FillRearm PROVE IInv'
  <2>1. fill' \in FillState /\ due' \in Nat
    BY <1>0, <1>6 DEF FillRearm, TypeOK, FillState
  <2> QED BY <1>6, <2>1 DEF FillRearm, TypeOK, CasHasToken, TokensConserved, NeverOverfilled
<1>7. ASSUME Tick PROVE IInv'
  BY <1>7 DEF Tick, TypeOK, CasHasToken, TokensConserved, NeverOverfilled
<1>8. ASSUME UNCHANGED vars PROVE IInv'
  BY <1>8 DEF vars, TypeOK, CasHasToken, TokensConserved, NeverOverfilled
<1> QED BY <1>1, <1>2, <1>3, <1>4, <1>5, <1>6, <1>7, <1>8 DEF Next

\* The inductive invariant holds in every state of every behaviour.
THEOREM Invariance == Spec => []IInv
BY InitIInv, NextIInv, PTL DEF Spec

\* Types: in particular no request takes a token out of an empty bucket, which
\* would wrap the uint32_t.
THEOREM TypeCorrect == Spec => []TypeOK
<1>1. IInv => TypeOK
  BY DEF IInv
<1> QED BY <1>1, Invariance, PTL

\* Whatever the interleaving of the CAS loops, tokens are neither lost nor
\* made up.
THEOREM Conservation == Spec => []TokensConserved
<1>1. IInv => TokensConserved
  BY DEF IInv
<1> QED BY <1>1, Invariance, PTL

\* No fill takes a bucket above max_tokens_, even when the sum wraps.
THEOREM Capacity == Spec => []NeverOverfilled
<1>1. IInv => NeverOverfilled
  BY DEF IInv
<1> QED BY <1>1, Invariance, PTL

-------------------------------------------------------------------------------

\* Without a wrap a fill computes the minimum that the abstract fill adds.
LEMMA NewTokensValueNoWrap ==
    ASSUME NoWrap, NEW b \in Buckets, NEW e \in 0 .. MaxTokens[b]
    PROVE  NewTokensValue(b, e) = IF e + TokensPerFill[b] < MaxTokens[b]
                                  THEN e + TokensPerFill[b]
                                  ELSE MaxTokens[b]
<1>1. /\ WordSize \in Nat \ {0}
      /\ MaxTokens[b] \in 0 .. WordSize - 1
      /\ TokensPerFill[b] \in 1 .. WordSize - 1
  BY ConfigAssumption
<1>2. e + TokensPerFill[b] \in 0 .. WordSize - 1
  BY <1>1 DEF NoWrap
<1>3. (e + TokensPerFill[b]) % WordSize = e + TokensPerFill[b]
  BY <1>1, <1>2
<1> QED BY <1>3 DEF NewTokensValue

\* Every step is a take, a fill, or leaves the buckets alone.
LEMMA StepRefines ==
    ASSUME NoWrap, IInv, [Next]_vars
    PROVE  [Abstract!Next]_(Abstract!vars)
<1> USE DEF IInv, Abstract!vars
<1>1. ASSUME NEW w \in Workers, NEW r \in Requests, RequestLoad(w, r)
      PROVE  UNCHANGED Abstract!vars
  BY <1>1 DEF RequestLoad
<1>2. ASSUME NEW w \in Workers, RequestCas(w)
      PROVE  [Abstract!Next]_(Abstract!vars)
  <2> DEFINE b == request[w].bucket
  <2>1. b \in Buckets /\ request[w].expected \in 1 .. WordSize - 1
    BY <1>2 DEF TypeOK, RequestState, CasHasToken, RequestCas
  <2>2. CASE tokens[b] = request[w].expected
    <3>1. Abstract!Take(b)
      BY <1>2, <2>1, <2>2 DEF RequestCas, Abstract!Take
    <3> QED BY <2>1, <3>1 DEF Abstract!Next
  <2>3. CASE tokens[b] # request[w].expected
    BY <1>2, <2>3 DEF RequestCas
  <2> QED BY <2>2, <2>3
<1>3. ASSUME FillCas PROVE [Abstract!Next]_(Abstract!vars)
  <2> DEFINE b == fill.bucket
  <2>1. b \in Buckets /\ fill.expected \in 0 .. WordSize - 1
    BY DEF TypeOK, FillState
  <2>2. CASE tokens[b] = fill.expected
    <3>1. tokens[b] \in 0 .. MaxTokens[b]
      BY <2>1, <2>2, ConfigAssumption DEF TypeOK, NeverOverfilled
    <3>2. NewTokensValue(b, tokens[b]) = IF tokens[b] + TokensPerFill[b] < MaxTokens[b]
                                         THEN tokens[b] + TokensPerFill[b]
                                         ELSE MaxTokens[b]
      BY <2>1, <3>1, NewTokensValueNoWrap
    <3>3. Abstract!Fill(b)
      BY <1>3, <2>2, <3>2 DEF FillCas, Abstract!Fill
    <3> QED BY <2>1, <3>3 DEF Abstract!Next
  <2>3. CASE tokens[b] # fill.expected
    BY <1>3, <2>3 DEF FillCas
  <2> QED BY <2>2, <2>3
<1>4. ASSUME \/ FillTimer
             \/ \E d \in Descriptors : FillScan(d)
             \/ FillRearm
             \/ Tick
             \/ UNCHANGED vars
      PROVE  UNCHANGED Abstract!vars
  BY <1>4 DEF FillTimer, FillScan, FillRearm, Tick, vars
<1> QED BY <1>1, <1>2, <1>3, <1>4 DEF Next

\* As long as max_tokens_ + tokens_per_fill_ fits in a uint32_t, the limiter
\* implements atomic takes and fills.
THEOREM Refinement ==
    ASSUME NoWrap PROVE Spec => ImplementsTokenBucket
<1>1. Init => Abstract!Init
  BY DEF Init, Abstract!Init
<1>2. IInv /\ [Next]_vars => [Abstract!Next]_(Abstract!vars)
  BY StepRefines
<1> QED BY <1>1, <1>2, Invariance, PTL DEF Spec, ImplementsTokenBucket, Abstract!Spec

\* Under the same condition no fill takes tokens away.
THEOREM FillsOnlyAdd ==
    ASSUME NoWrap PROVE Spec => FillNeverRemoves
<1>1. ASSUME IInv, [Next]_vars
      PROVE  \A b \in Buckets : credited'[b] >= credited[b]
  <2> USE <1>1 DEF IInv
  <2>1. CASE FillCas
    <3> SUFFICES ASSUME NEW c \in Buckets PROVE credited'[c] >= credited[c]
      OBVIOUS
    <3> DEFINE b == fill.bucket
               v == NewTokensValue(b, fill.expected)
    <3>1. b \in Buckets /\ fill.expected \in 0 .. WordSize - 1
      BY DEF TypeOK, FillState
    <3>2. CASE tokens[b] = fill.expected
      <4>1. /\ tokens[b] \in 0 .. MaxTokens[b]
            /\ MaxTokens[b] \in Nat /\ TokensPerFill[b] \in Nat
        BY <3>1, <3>2, ConfigAssumption DEF TypeOK, NeverOverfilled
      <4>2. v >= fill.expected /\ v \in Int
        BY <3>1, <3>2, <4>1, NewTokensValueNoWrap
      <4>3. credited' = [credited EXCEPT ![b] = @ + v - fill.expected]
        BY <2>1, <3>2 DEF FillCas
      <4>4. /\ credited[c] \in Int /\ fill.expected \in Int
            /\ credited'[c] = IF c = b THEN credited[c] + v - fill.expected
                                       ELSE credited[c]
        BY <3>1, <4>3 DEF TypeOK
      <4> HIDE DEF v, b
      <4> QED BY <4>2, <4>4
    <3>3. CASE tokens[b] # fill.expected
      BY <2>1, <3>3 DEF FillCas, TypeOK
    <3> QED BY <3>2, <3>3
  <2>2. CASE ~ FillCas
    <3>1. UNCHANGED credited
      BY <2>2 DEF Next, RequestLoad, RequestCas, FillTimer, FillScan, FillRearm,
                  Tick, vars
    <3> QED BY <3>1 DEF TypeOK
  <2> QED BY <2>1, <2>2
<1> QED BY <1>1, Invariance, PTL DEF Spec, FillNeverRemoves

-------------------------------------------------------------------------------

\* The tokens that a bucket's fills may have written by time t: one
\* tokens_per_fill_ for each whole interval.
Allowance(b, t) == TokensPerFill[b] * (t \div FillInterval[b])

\* The callback has filled the default bucket and not yet re-armed the timer.
DefaultFilled ==
    \/ fill.pc = "scan"
    \/ fill.pc = "cas" /\ fill.bucket # Default

\* A descriptor's bucket has had at most one fill for each interval up to its
\* fill_time_, and its next one waits until another interval has passed.
DescriptorPaced(d) ==
    FillInterval[d] > 0 =>
        /\ fillTime[d] <= now
        /\ credited[d] <= Allowance(d, fillTime[d])
        /\ fill.pc = "cas" /\ fill.bucket = d =>
               fillTime[d] + FillInterval[d] <= fill.time

\* The timer paces the default bucket: until its callback fills the bucket the
\* fills are those of the intervals before the due time.
DefaultPaced ==
    FillInterval[Default] > 0 =>
        /\ FillInterval[Default] <= due
        /\ due <= now + FillInterval[Default]
        /\ fill.pc # "idle" => due <= now
        /\ credited[Default] <=
              Allowance(Default, IF DefaultFilled THEN due
                                 ELSE due - FillInterval[Default])

\* What AdmissionRateBound needs besides IInv.
RateInv ==
    /\ fill.time <= now
    /\ \A d \in Descriptors : DescriptorPaced(d)
    /\ DefaultPaced

\* The allowance grows with time, and by one fill per interval.
LEMMA AllowanceFacts ==
    ASSUME NEW b \in Buckets, FillInterval[b] > 0,
           NEW s \in Nat, NEW t \in Nat
    PROVE  /\ Allowance(b, t) \in Nat
           /\ s <= t => Allowance(b, s) <= Allowance(b, t)
           /\ Allowance(b, s + FillInterval[b]) = Allowance(b, s) + TokensPerFill[b]
<1> DEFINE n == FillInterval[b]
           k == TokensPerFill[b]
<1>1. n \in Nat \ {0} /\ k \in Nat
  BY ConfigAssumption
<1>2. s \div n \in Nat /\ t \div n \in Nat
  BY <1>1, Z3
<1>3. s <= t => s \div n <= t \div n
  BY <1>1, Z3
<1>4. (s + n) \div n = (s \div n) + 1
  BY <1>1, Z3
<1>5. /\ k * (t \div n) \in Nat
      /\ s \div n <= t \div n => k * (s \div n) <= k * (t \div n)
      /\ k * ((s \div n) + 1) = k * (s \div n) + k
  <2> DEFINE x == s \div n
             y == t \div n
  <2>1. x \in Nat /\ y \in Nat
    BY <1>2
  <2> HIDE DEF x, y, n, k
  <2>2. /\ k * y \in Nat
        /\ x <= y => k * x <= k * y
        /\ k * (x + 1) = k * x + k
    BY <1>1, <2>1, Z3
  <2> QED BY <2>2 DEF x, y
<1> HIDE DEF n, k
<1>6. /\ k * (t \div n) \in Nat
      /\ s <= t => k * (s \div n) <= k * (t \div n)
      /\ k * ((s + n) \div n) = k * (s \div n) + k
  BY <1>3, <1>4, <1>5
<1> QED BY <1>6 DEF Allowance, n, k

\* A fill adds at most tokens_per_fill_, even when the sum wraps.
LEMMA FillAddsAtMost ==
    ASSUME NEW b \in Buckets, NEW e \in 0 .. WordSize - 1
    PROVE  NewTokensValue(b, e) <= e + TokensPerFill[b]
<1>1. /\ WordSize \in Nat \ {0}
      /\ MaxTokens[b] \in Nat
      /\ TokensPerFill[b] \in Nat
      /\ e + TokensPerFill[b] \in Nat
  BY ConfigAssumption
<1>2. /\ (e + TokensPerFill[b]) % WordSize \in Nat
      /\ (e + TokensPerFill[b]) % WordSize <= e + TokensPerFill[b]
  <2> DEFINE x == e + TokensPerFill[b]
  <2>1. x \in Nat
    BY <1>1
  <2> HIDE DEF x
  <2>2. x % WordSize \in Nat /\ x % WordSize <= x
    BY <1>1, <2>1, Z3
  <2> QED BY <2>2 DEF x
<1> QED BY <1>1, <1>2 DEF NewTokensValue

LEMMA InitRateInv == Init => RateInv
<1> SUFFICES ASSUME Init PROVE RateInv
  OBVIOUS
<1>1. Default \in Buckets /\ Descriptors \subseteq Buckets /\ FillInterval \in [Buckets -> Nat]
  BY ConfigAssumption DEF Buckets
<1>2. fill.time <= now
  BY DEF Init
<1>3. ASSUME NEW d \in Descriptors PROVE DescriptorPaced(d)
  <2>1. FillInterval[d] > 0 => Allowance(d, 0) \in Nat
    BY <1>1, AllowanceFacts
  <2> QED BY <1>1, <2>1 DEF Init, DescriptorPaced
<1>4. DefaultPaced
  <2> SUFFICES ASSUME FillInterval[Default] > 0 PROVE DefaultPaced
    BY DEF DefaultPaced
  <2>1. Allowance(Default, 0) \in Nat
    BY <1>1, AllowanceFacts
  <2>2. ~ DefaultFilled /\ due = FillInterval[Default] /\ now = 0 /\ fill.pc = "idle"
    BY DEF Init, DefaultFilled
  <2>3. due - FillInterval[Default] = 0 /\ credited[Default] = 0
    BY <1>1, <2>2 DEF Init
  <2> QED BY <1>1, <2>1, <2>2, <2>3 DEF DefaultPaced
<1> QED BY <1>2, <1>3, <1>4 DEF RateInv

\* Every action keeps the pace: only the fill timer's CAS writes tokens, and
\* only the steps of its callback move the times it is held against.
LEMMA NextRateInv == IInv /\ RateInv /\ [Next]_vars => RateInv'
<1> SUFFICES ASSUME IInv, RateInv, [Next]_vars PROVE RateInv'
  OBVIOUS
<1> USE DEF RateInv
<1>0. /\ Default \in Buckets /\ Descriptors \subseteq Buckets
      /\ Default \notin Descriptors
      /\ FillInterval \in [Buckets -> Nat]
      /\ TokensPerFill \in [Buckets -> Nat]
      /\ fillTime \in [Buckets -> Nat]
      /\ credited \in [Buckets -> Int]
      /\ now \in Nat /\ fill \in FillState
      /\ due \in Int
  BY ConfigAssumption DEF Buckets, IInv, TypeOK, NoTimer
<1>1. ASSUME UNCHANGED <<fillTime, due, fill, credited>>,
             now' \in Nat, now' >= now
      PROVE  RateInv'
  <2>1. fill'.time <= now'
    BY <1>0, <1>1 DEF FillState
  <2>2. ASSUME NEW d \in Descriptors PROVE DescriptorPaced(d)'
    <3>1. DescriptorPaced(d)
      OBVIOUS
    <3> QED BY <1>0, <1>1, <3>1 DEF DescriptorPaced, Allowance
  <2>3. DefaultPaced'
    BY <1>0, <1>1 DEF DefaultPaced, DefaultFilled, Allowance
  <2> QED BY <2>1, <2>2, <2>3
<1>2. ASSUME FillTimer PROVE RateInv'
  <2>1. /\ fill.pc = "idle" /\ due <= now
        /\ fill' = [fill EXCEPT !.pc = "cas", !.bucket = Default,
                                !.expected = tokens[Default]]
        /\ UNCHANGED <<fillTime, now, due, credited>>
    BY <1>2 DEF FillTimer
  <2>2. fill'.pc = "cas" /\ fill'.bucket = Default /\ fill'.time = fill.time
    BY <1>0, <2>1 DEF FillState
  <2>3. ASSUME NEW d \in Descriptors PROVE DescriptorPaced(d)'
    <3>1. DescriptorPaced(d) /\ d # Default
      BY <1>0
    <3> QED BY <2>1, <2>2, <3>1 DEF DescriptorPaced, Allowance
  <2>4. DefaultPaced'
    BY <2>1, <2>2 DEF DefaultPaced, DefaultFilled, Allowance
  <2> QED BY <2>1, <2>2, <2>3, <2>4
<1>3. ASSUME FillCas PROVE RateInv'
  <2> DEFINE b == fill.bucket
             v == NewTokensValue(b, fill.expected)
  <2>1. /\ b \in Buckets /\ fill.expected \in 0 .. WordSize - 1
        /\ fill.pc = "cas" /\ UNCHANGED <<now, due>>
    BY <1>0, <1>3 DEF FillState, FillCas
  <2>2. CASE tokens[b] # fill.expected
    <3>1. /\ fill' = [fill EXCEPT !.expected = tokens[b]]
          /\ UNCHANGED <<credited, fillTime, now, due>>
      BY <1>3, <2>2 DEF FillCas
    <3>2. fill'.pc = fill.pc /\ fill'.bucket = fill.bucket /\ fill'.time = fill.time
      BY <1>0, <3>1 DEF FillState
    <3>3. ASSUME NEW d \in Descriptors PROVE DescriptorPaced(d)'
      <4>1. DescriptorPaced(d)
        OBVIOUS
      <4> QED BY <3>1, <3>2, <4>1 DEF DescriptorPaced, Allowance
    <3>4. DefaultPaced'
      BY <3>1, <3>2 DEF DefaultPaced, DefaultFilled, Allowance
    <3> QED BY <3>1, <3>2, <3>3, <3>4
  <2>3. CASE tokens[b] = fill.expected
    <3>1. /\ v \in Int
          /\ v <= fill.expected + TokensPerFill[b]
      BY <2>1, NewTokensValueType, FillAddsAtMost
    <3>2. credited' = [credited EXCEPT ![b] = @ + v - fill.expected]
      BY <1>3, <2>3 DEF FillCas
    <3>3. /\ \A c \in Buckets : c # b => credited'[c] = credited[c]
          /\ credited'[b] \in Int
          /\ credited'[b] <= credited[b] + TokensPerFill[b]
      <4>1. credited'[b] = credited[b] + v - fill.expected
        BY <1>0, <2>1, <3>2
      <4>2. credited[b] \in Int /\ fill.expected \in Int /\ TokensPerFill[b] \in Int
        BY <1>0, <2>1
      <4>3. \A c \in Buckets : c # b => credited'[c] = credited[c]
        BY <1>0, <3>2
      <4> HIDE DEF v, b
      <4> QED BY <3>1, <4>1, <4>2, <4>3
    <3>4. CASE b = Default
      <4>1. /\ fill' = [fill EXCEPT !.pc = "scan", !.todo = Descriptors, !.time = now]
            /\ fillTime' = fillTime
        <5>1. fillTime' = [fillTime EXCEPT ![b] = @]
          BY <1>3, <2>3, <3>4 DEF FillCas
        <5> QED BY <1>0, <1>3, <2>3, <3>4, <5>1 DEF FillCas
      <4>2. fill'.pc = "scan" /\ fill'.time = now
        BY <1>0, <4>1 DEF FillState
      <4>3. ASSUME NEW d \in Descriptors PROVE DescriptorPaced(d)'
        <5>1. DescriptorPaced(d) /\ credited'[d] = credited[d]
          BY <1>0, <3>3, <3>4
        <5> QED BY <2>1, <4>1, <4>2, <5>1 DEF DescriptorPaced, Allowance
      <4>4. DefaultPaced'
        <5> SUFFICES ASSUME FillInterval[Default] > 0 PROVE DefaultPaced'
          BY DEF DefaultPaced
        <5> DEFINE before == due - FillInterval[Default]
        <5>1. /\ ~ DefaultFilled /\ DefaultFilled'
          BY <2>1, <3>4, <4>2 DEF DefaultFilled
        <5>2. /\ credited[Default] <= Allowance(Default, before)
              /\ FillInterval[Default] <= due
              /\ due <= now + FillInterval[Default] /\ due <= now
          BY <2>1, <5>1 DEF DefaultPaced
        <5>3. before \in Nat /\ before + FillInterval[Default] = due
          BY <1>0, <5>2
        <5>4. /\ Allowance(Default, before) \in Nat
              /\ Allowance(Default, due)
                   = Allowance(Default, before) + TokensPerFill[Default]
          BY <1>0, <5>3, AllowanceFacts
        <5>5. /\ credited[Default] \in Int /\ TokensPerFill[Default] \in Int
              /\ credited'[Default] \in Int
              /\ credited'[Default] <= credited[Default] + TokensPerFill[Default]
          BY <1>0, <3>3, <3>4
        <5> HIDE DEF before
        <5>6. credited'[Default] <= Allowance(Default, due)
          BY <5>2, <5>4, <5>5
        <5> QED BY <2>1, <5>1, <5>2, <5>6 DEF DefaultPaced, Allowance
      <4> QED BY <1>0, <2>1, <4>2, <4>3, <4>4
    <3>5. CASE b # Default
      <4>1. /\ fill' = [fill EXCEPT !.pc = "scan"]
            /\ fillTime' = [fillTime EXCEPT ![b] = fill.time]
        BY <1>3, <2>3, <3>5 DEF FillCas
      <4>2. fill'.pc = "scan" /\ fill'.time = fill.time
        BY <1>0, <4>1 DEF FillState
      <4>3. ASSUME NEW d \in Descriptors PROVE DescriptorPaced(d)'
        <5>1. DescriptorPaced(d)
          OBVIOUS
        <5>2. CASE d # b
          <6>1. credited'[d] = credited[d] /\ fillTime'[d] = fillTime[d]
            BY <1>0, <3>3, <4>1, <5>2
          <6> QED BY <2>1, <4>2, <5>1, <6>1 DEF DescriptorPaced, Allowance
        <5>3. CASE d = b
          <6> SUFFICES ASSUME FillInterval[d] > 0 PROVE DescriptorPaced(d)'
            BY DEF DescriptorPaced
          <6>1. fillTime'[d] = fill.time
            BY <1>0, <4>1, <5>3
          <6>2. /\ credited[d] <= Allowance(d, fillTime[d])
                /\ fillTime[d] + FillInterval[d] <= fill.time
            BY <2>1, <5>1, <5>3 DEF DescriptorPaced
          <6>3. /\ d \in Buckets /\ fillTime[d] \in Nat /\ fill.time \in Nat
                /\ fillTime[d] + FillInterval[d] \in Nat
            BY <1>0 DEF FillState
          <6>4. /\ Allowance(d, fillTime[d]) \in Nat
                /\ Allowance(d, fillTime[d] + FillInterval[d])
                     = Allowance(d, fillTime[d]) + TokensPerFill[d]
            BY <6>3, AllowanceFacts
          <6>5. /\ Allowance(d, fill.time) \in Nat
                /\ Allowance(d, fillTime[d] + FillInterval[d]) <= Allowance(d, fill.time)
            BY <6>2, <6>3, AllowanceFacts
          <6>6. /\ credited[d] \in Int /\ TokensPerFill[d] \in Int
                /\ credited'[d] \in Int
                /\ credited'[d] <= credited[d] + TokensPerFill[d]
            BY <1>0, <3>3, <5>3
          <6>7. credited'[d] <= Allowance(d, fill.time)
            BY <6>2, <6>4, <6>5, <6>6
          <6> QED BY <2>1, <4>2, <6>1, <6>7 DEF DescriptorPaced, Allowance
        <5> QED BY <5>2, <5>3
      <4>4. DefaultPaced'
        <5>1. DefaultFilled /\ DefaultFilled' /\ credited'[Default] = credited[Default]
          BY <1>0, <2>1, <3>3, <3>5, <4>2 DEF DefaultFilled
        <5> QED BY <2>1, <4>2, <5>1 DEF DefaultPaced, Allowance
      <4> QED BY <1>0, <2>1, <4>2, <4>3, <4>4
    <3> QED BY <3>4, <3>5
  <2> QED BY <2>2, <2>3
<1>4. ASSUME NEW d \in Descriptors, FillScan(d) PROVE RateInv'
  <2>1. fill.pc = "scan" /\ UNCHANGED <<fillTime, now, due, credited>>
    BY <1>4 DEF FillScan
  <2>2. /\ fill'.time = fill.time
        /\ \/ fill'.pc = "scan"
           \/ /\ fill'.pc = "cas" /\ fill'.bucket = d
              /\ fill.time - fillTime[d] >= FillInterval[d]
    BY <1>0, <1>4 DEF FillScan, FillState
  <2>3. ASSUME NEW c \in Descriptors PROVE DescriptorPaced(c)'
    <3>1. DescriptorPaced(c)
      OBVIOUS
    <3>2. fillTime[d] \in Nat /\ fill.time \in Nat /\ FillInterval[d] \in Nat
      BY <1>0 DEF FillState
    <3>3. fill'.pc = "cas" => fillTime[d] + FillInterval[d] <= fill.time
      BY <2>2, <3>2
    <3> QED BY <2>1, <2>2, <3>1, <3>3 DEF DescriptorPaced, Allowance
  <2>4. DefaultPaced'
    <3>1. DefaultFilled /\ DefaultFilled'
      BY <1>0, <2>1, <2>2 DEF DefaultFilled
    <3> QED BY <2>1, <2>2, <3>1 DEF DefaultPaced, Allowance
  <2> QED BY <2>1, <2>2, <2>3, <2>4
<1>5. ASSUME FillRearm PROVE RateInv'
  <2>1. /\ fill.pc = "scan" /\ due' = now + FillInterval[Default]
        /\ fill' = [fill EXCEPT !.pc = "idle"]
        /\ UNCHANGED <<fillTime, now, credited>>
    BY <1>5 DEF FillRearm
  <2>2. fill'.pc = "idle" /\ fill'.time = fill.time
    BY <1>0, <2>1 DEF FillState
  <2>3. ASSUME NEW d \in Descriptors PROVE DescriptorPaced(d)'
    <3>1. DescriptorPaced(d)
      OBVIOUS
    <3> QED BY <2>1, <2>2, <3>1 DEF DescriptorPaced, Allowance
  <2>4. DefaultPaced'
    <3> SUFFICES ASSUME FillInterval[Default] > 0 PROVE DefaultPaced'
      BY DEF DefaultPaced
    <3>1. DefaultFilled /\ ~ DefaultFilled'
      BY <2>1, <2>2 DEF DefaultFilled
    <3>2. /\ credited[Default] <= Allowance(Default, due)
          /\ FillInterval[Default] <= due /\ due <= now
      BY <2>1, <3>1 DEF DefaultPaced
    <3>3. due \in Nat
      BY <1>0, <3>2
    <3>4. /\ Allowance(Default, due) \in Nat /\ Allowance(Default, now) \in Nat
          /\ Allowance(Default, due) <= Allowance(Default, now)
      BY <1>0, <3>2, <3>3, AllowanceFacts
    <3>5. credited[Default] <= Allowance(Default, now)
      BY <1>0, <3>2, <3>4
    <3>6. due' - FillInterval[Default] = now
      BY <1>0, <2>1
    <3>7. due' \in Nat /\ FillInterval[Default] <= due'
      BY <1>0, <2>1
    <3> QED BY <1>0, <2>1, <2>2, <3>1, <3>5, <3>6, <3>7 DEF DefaultPaced, Allowance
  <2> QED BY <2>1, <2>2, <2>3, <2>4
<1>6. ASSUME \/ \E w \in Workers, r \in Requests : RequestLoad(w, r)
             \/ \E w \in Workers : RequestCas(w)
             \/ Tick
             \/ UNCHANGED vars
      PROVE  RateInv'
  <2>1. /\ UNCHANGED <<fillTime, due, fill, credited>>
        /\ now' = now \/ now' = now + 1
    BY <1>6 DEF RequestLoad, RequestCas, Tick, vars
  <2>2. now' \in Nat /\ now' >= now
    BY <1>0, <2>1
  <2> QED BY <1>1, <2>1, <2>2
<1> QED BY <1>2, <1>3, <1>4, <1>5, <1>6 DEF Next

\* What has been admitted is what was in the bucket and what the fills wrote,
\* less what is left in it.
LEMMA PacedIsBounded == IInv /\ RateInv => AdmissionRateBound
<1> SUFFICES ASSUME IInv, RateInv, NEW b \in Buckets, FillInterval[b] > 0
             PROVE  admitted[b] <= MaxTokens[b] + Allowance(b, now)
  BY DEF AdmissionRateBound, Allowance
<1>1. /\ FillInterval[b] \in Nat /\ MaxTokens[b] \in Nat
      /\ tokens[b] \in Nat /\ credited[b] \in Int /\ admitted[b] \in Nat
      /\ fillTime[b] \in Nat /\ now \in Nat /\ due \in Int
  BY ConfigAssumption DEF IInv, TypeOK, NoTimer
<1>2. tokens[b] + admitted[b] = MaxTokens[b] + credited[b]
  BY DEF IInv, TokensConserved
<1>3. Allowance(b, now) \in Nat /\ credited[b] <= Allowance(b, now)
  <2>1. PICK t \in Nat : t <= now /\ credited[b] <= Allowance(b, t)
    <3>1. CASE b = Default
      <4>1. /\ DefaultPaced /\ FillInterval[Default] \in Nat
            /\ FillInterval[Default] > 0
        BY <1>1, <3>1 DEF RateInv
      <4>2. CASE DefaultFilled
        <5>1. due \in Nat /\ due <= now /\ credited[b] <= Allowance(b, due)
          BY <1>1, <3>1, <4>1, <4>2 DEF DefaultPaced, DefaultFilled
        <5> QED BY <5>1
      <4>3. CASE ~ DefaultFilled
        <5> DEFINE t == due - FillInterval[Default]
        <5>1. t \in Nat /\ t <= now /\ credited[b] <= Allowance(b, t)
          BY <1>1, <3>1, <4>1, <4>3 DEF DefaultPaced
        <5> QED BY <5>1
      <4> QED BY <4>2, <4>3
    <3>2. CASE b # Default
      <4>1. DescriptorPaced(b)
        BY <3>2 DEF RateInv, Buckets
      <4> QED BY <1>1, <4>1 DEF DescriptorPaced
    <3> QED BY <3>1, <3>2
  <2>2. /\ Allowance(b, now) \in Nat /\ Allowance(b, t) \in Nat
        /\ Allowance(b, t) <= Allowance(b, now)
    BY <1>1, <2>1, AllowanceFacts
  <2> QED BY <1>1, <2>1, <2>2
<1> QED BY <1>1, <1>2, <1>3

\* The limit itself, for every configuration the constructor accepts and every
\* interleaving of the workers' CAS loops with the timer's: a bucket admits at
\* most its burst plus one tokens_per_fill_ for each whole interval elapsed.
THEOREM RateIsKept == Spec => []AdmissionRateBound
<1>1. Spec => []RateInv
  <2>1. Init => RateInv
    BY InitRateInv
  <2>2. IInv /\ RateInv /\ [Next]_vars => RateInv'
    BY NextRateInv
  <2> QED BY <2>1, <2>2, Invariance, PTL DEF Spec
<1>2. IInv /\ RateInv => AdmissionRateBound
  BY PacedIsBounded
<1> QED BY <1>1, <1>2, Invariance, PTL

===============================================================================

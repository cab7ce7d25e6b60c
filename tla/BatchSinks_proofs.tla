--------------------------- MODULE BatchSinks_proofs --------------------------
(* Theorems about BatchSinks: what sinkEmit may report, for any sinks, any      *)
(* batch size and any number of retries, turns, failures and lost answers.      *)
EXTENDS BatchSinks, FunctionTheorems, FiniteSetTheorems, SequenceTheorems, MaximumLemmas

-----------------------------------------------------------------------------
(* The order of a set of turns, and the copies of a turn among lines.      *)

Increasing(q) == \A i, j \in DOMAIN q : i < j => q[i] < q[j]

LEMMA TurnsAreFinite ==
    ASSUME NEW S \in SUBSET Turns
    PROVE  IsFiniteSet(S) /\ Cardinality(S) \in Nat
<1>1. IsFiniteSet(Turns)
  BY SinksAssumption, FS_Interval DEF Turns
<1> QED
  BY <1>1, FS_Subset, FS_CardinalityType

\* Finitely many turns can be put in order: the largest of them goes last.
LEMMA TurnsHaveAnOrder ==
    ASSUME NEW S \in SUBSET Turns
    PROVE  /\ Cardinality(S) \in Nat
           /\ \E q \in [1..Cardinality(S) -> S] : Increasing(q)
<1>1. \A R \in SUBSET Turns : IsFiniteSet(R) /\ Cardinality(R) \in Nat
  BY TurnsAreFinite
<1> DEFINE Orders(n) == \A R \in SUBSET Turns :
                            Cardinality(R) = n => \E q \in [1..n -> R] : Increasing(q)
           T == {n \in Nat : ~Orders(n)}
<1>2. T = {}
  <2> SUFFICES ASSUME T # {}
               PROVE  FALSE
    OBVIOUS
  <2>1. PICK n \in T : \A m \in T : n <= m
    BY NatHasMinimum
  <2>2. PICK R \in SUBSET Turns :
            Cardinality(R) = n /\ ~\E q \in [1..n -> R] : Increasing(q)
    OBVIOUS
  <2>3. CASE n = 0
    <3> DEFINE q == [i \in 1..0 |-> i]
    <3>1. q \in [1..n -> R] /\ Increasing(q)
      BY <2>3 DEF Increasing
    <3> QED
      BY <2>2, <3>1
  <2>4. CASE n # 0
    <3>1. R # {} /\ R \in SUBSET (0..MaxTurns)
      BY <1>1, <2>2, <2>4, FS_EmptySet DEF Turns
    <3>2. PICK x \in R : \A y \in R : y <= x
      BY <3>1, MaxIsMember, SinksAssumption DEF Turns
    <3> DEFINE Q == R \ {x}
    <3>3. Q \in SUBSET Turns /\ Cardinality(Q) = n - 1 /\ n - 1 \in Nat
      BY <1>1, <2>2, <2>4, FS_RemoveElement
    <3>4. Orders(n - 1)
      BY <2>1, <3>3
    <3>5. PICK q \in [1..(n - 1) -> Q] : Increasing(q)
      BY <3>3, <3>4
    <3> DEFINE r == [i \in 1..n |-> IF i = n THEN x ELSE q[i]]
    <3>6. r \in [1..n -> R]
      BY <3>3
    <3>7. \A y \in Q : y < x
      BY <3>2 DEF Turns
    <3>8. Increasing(r)
      <4> SUFFICES ASSUME NEW i \in 1..n, NEW j \in 1..n, i < j
                   PROVE  r[i] < r[j]
        BY DEF Increasing
      <4>1. i \in 1..(n - 1) /\ r[i] = q[i] /\ q[i] \in Q
        OBVIOUS
      <4>2. CASE j = n
        BY <3>7, <4>1, <4>2
      <4>3. CASE j # n
        <5>1. j \in 1..(n - 1) /\ r[j] = q[j]
          BY <4>3
        <5> QED
          BY <3>5, <4>1, <5>1 DEF Increasing
      <4> QED
        BY <4>2, <4>3
    <3> HIDE DEF r
    <3> QED
      BY <2>2, <3>6, <3>8
  <2> QED
    BY <2>3, <2>4
<1>3. Orders(Cardinality(S))
  <2> HIDE DEF Orders
  <2> QED
    BY <1>1, <1>2
<1> QED
  BY <1>1, <1>3

\* In order, no turn of the set is missing and none comes twice.
LEMMA InOrderIs ==
    ASSUME NEW S \in SUBSET Turns
    PROVE  /\ InOrder(S) \in Seq(S) /\ InOrder(S) \in Seq(Turns)
           /\ Range(InOrder(S)) = S /\ IsInjective(InOrder(S))
<1> DEFINE n == Cardinality(S)
           q == InOrder(S)
<1>1. n \in Nat /\ q \in [1..n -> S] /\ Increasing(q)
  <2> HIDE DEF n
  <2>1. n \in Nat /\ \E r \in [1..n -> S] : Increasing(r)
    BY TurnsHaveAnOrder DEF n
  <2> QED
    BY <2>1 DEF InOrder, Increasing, n
<1> HIDE DEF q, n
<1>2. IsInjective(q)
  <2> SUFFICES ASSUME NEW i \in 1..n, NEW j \in 1..n, q[i] = q[j], i # j
               PROVE  FALSE
    BY <1>1 DEF IsInjective
  <2>1. q[i] \in Nat /\ q[j] \in Nat
    <3>1. q[i] \in Turns /\ q[j] \in Turns
      BY <1>1
    <3> QED
      BY <3>1, SinksAssumption DEF Turns
  <2>2. i < j \/ j < i
    BY <1>1
  <2> QED
    BY <1>1, <2>1, <2>2 DEF Increasing
<1>3. IsFiniteSet(S) /\ IsFiniteSet(1..n) /\ Cardinality(1..n) = n
  <2>1. IsFiniteSet(S)
    BY TurnsAreFinite
  <2>2. IsFiniteSet(1..n) /\ Cardinality(1..n) = n
    BY <1>1, FS_Interval
  <2> QED
    BY <2>1, <2>2
<1>4. q \in Injection(1..n, S)
  BY <1>1, <1>2 DEF Injection, IsInjective
<1>5. q \in Surjection(1..n, S)
  BY <1>3, <1>4, FS_Injection DEF n
<1>6. Range(q) = S
  BY <1>1, <1>5 DEF Surjection, Range
<1> QED
  BY <1>1, <1>2, <1>6 DEF q

LEMMA CopiesAre ==
    ASSUME NEW q \in Seq(Turns), NEW t
    PROVE  /\ Copies(q, t) \in Nat
           /\ t \in Range(q) <=> Copies(q, t) > 0
           /\ IsInjective(q) => Copies(q, t) <= 1
<1> DEFINE P == {i \in DOMAIN q : q[i] = t}
<1>1. IsFiniteSet(P) /\ Cardinality(P) \in Nat
  <2>1. IsFiniteSet(1..Len(q)) /\ P \in SUBSET (1..Len(q))
    BY FS_Interval
  <2> QED
    BY <2>1, FS_Subset, FS_CardinalityType
<1>2. t \in Range(q) <=> Cardinality(P) # 0
  <2>1. t \in Range(q) <=> P # {}
    BY DEF Range
  <2> HIDE DEF P
  <2> QED
    BY <1>1, <2>1, FS_EmptySet
<1>3. ASSUME IsInjective(q)
      PROVE  Cardinality(P) <= 1
  <2>1. CASE P = {}
    <3> HIDE DEF P
    <3> QED
      BY <2>1, FS_EmptySet
  <2>2. CASE P # {}
    <3>1. PICK i : P = {i}
      BY <1>3, <2>2 DEF IsInjective
    <3>2. Cardinality({i}) = 1
      BY FS_Singleton
    <3> HIDE DEF P
    <3> QED
      BY <3>1, <3>2
  <2> QED
    BY <2>1, <2>2
<1> QED
  BY <1>1, <1>2, <1>3 DEF Copies

-----------------------------------------------------------------------------
(* Types, and where a call stands.                                         *)

Reasons == {"too_old", "rejected", "undelivered"}

\* A push belongs to a sink Multi is calling; the buffer was taken for it.
CallInv ==
    /\ Pushing => Calling /\ at # 0 /\ buf[Sink] = <<>>
    /\ phase \in {"emit", "flush", "drain"} => at # 0
    /\ phase \in {"emit", "flush"} => failures < MaxFailures /\ last # 0
    /\ phase \notin {"emit", "flush"} => last = 0

LEMMA SinkIsNamed ==
    ASSUME at \in 0..Len(Sinks) + 1, at # 0, at <= Len(Sinks)
    PROVE  at \in 1..Len(Sinks) /\ Sink \in Names /\ Sink = Sinks[at]
BY SinksAssumption DEF Sink, Names, Range

LEMMA LandedIsNat ==
    ASSUME TypeOK
    PROVE  /\ \A s \in Names, t \in Turns : landed[s][t] \in Nat
           /\ \A s \in Names, t \in Turns : landed[s][t] <= landed[s][t]
<1>1. landed \in [Names -> [Turns -> Nat]]
  BY DEF TypeOK
<1>2. \A s \in Names, t \in Turns : landed[s][t] \in Nat
  BY <1>1
<1> QED
  BY <1>2

LEMMA LandType ==
    ASSUME TypeOK, Sink \in Names, Batch \in Seq(Turns), NEW S, Land(S)
    PROVE  landed' \in [Names -> [Turns -> Nat]]
<1>1. \A t \in Turns : Copies(Batch, t) \in Nat
  BY CopiesAre
<1>2. \A t \in Turns : landed[Sink][t] + Copies(Batch, t) \in Nat
  BY <1>1 DEF TypeOK
<1> QED
  BY <1>2 DEF Land, TypeOK

LEMMA CountType ==
    ASSUME TypeOK, Sink \in Names, NEW S, NEW why \in Reasons, Count(S, why)
    PROVE  counted' \in [Names -> [Turns -> SUBSET Reasons]]
BY DEF Count, TypeOK, Reasons

LEMMA DoubtType ==
    ASSUME TypeOK, NEW s \in Names, NEW S, NEW what \in {"lost", "odd", "dropped"},
           Doubt(s, S, what)
    PROVE  doubts' \in [Names -> [Turns -> SUBSET {"lost", "odd", "dropped"}]]
BY DEF Doubt, TypeOK

\* What one request leaves of a push: the rest of the queue, nothing, the same
\* queue to be tried again, or halves.
Moved ==
    /\ queue' \in Seq(Seq(Turns)) /\ at' \in 0..Len(Sinks) + 1
    /\ errs' \subseteq Names /\ attempt' \in 0..MaxRetries
    /\ CallInv'

LEMMA PushingNow ==
    ASSUME TypeOK, CallInv, Answered
    PROVE  /\ at \in 1..Len(Sinks) /\ Sink \in Names /\ Sink = Sinks[at]
           /\ Batch \in Seq(Turns) /\ Tail(queue) \in Seq(Seq(Turns))
           /\ Len(queue) \in Nat \ {0} /\ Len(Sinks) \in Nat
           /\ Range(Batch) \in SUBSET Turns
<1>1. Pushing /\ queue \in Seq(Seq(Turns)) /\ queue # <<>>
  BY DEF Answered, Pushing, TypeOK
<1>2. at \in 1..Len(Sinks) /\ Sink \in Names /\ Sink = Sinks[at]
  BY <1>1, SinkIsNamed DEF CallInv, Calling, TypeOK
<1>3. /\ Batch \in Seq(Turns) /\ Tail(queue) \in Seq(Seq(Turns))
      /\ Len(queue) \in Nat \ {0}
  BY <1>1, HeadTailProperties, EmptySeq DEF Batch
<1>4. Range(Batch) \in SUBSET Turns
  BY <1>3 DEF Range
<1>5. Len(Sinks) \in Nat
  BY SinksAssumption
<1> QED
  BY <1>2, <1>3, <1>4, <1>5

LEMMA TailOfOne ==
    ASSUME TypeOK, Answered, Len(queue) = 1
    PROVE  Tail(queue) = <<>>
<1>1. queue \in Seq(Seq(Turns)) /\ queue # <<>>
  BY DEF TypeOK, Answered, Pushing
<1>2. PICK r : r = Tail(queue)
  OBVIOUS
<1>3. r \in Seq(Seq(Turns)) /\ Len(r) = 0
  BY <1>1, <1>2, HeadTailProperties
<1> QED
  BY <1>2, <1>3, EmptySeq

LEMMA DeliveredMoves ==
    ASSUME TypeOK, CallInv, Answered, Delivered
    PROVE  Moved
<1>1. queue' \in Seq(Seq(Turns)) /\ (queue' # <<>> => Len(queue) # 1)
  BY PushingNow, TailOfOne DEF Delivered
<1>2. /\ at' \in 0..Len(Sinks) + 1 /\ at' # 0
      /\ queue' # <<>> => at' = at
  BY <1>1, PushingNow DEF Delivered
<1>3. errs' \subseteq Names /\ attempt' \in 0..MaxRetries
  BY SinksAssumption DEF Delivered, TypeOK
<1>4. /\ UNCHANGED <<last, phase, failures, buf>>
      /\ Pushing /\ Calling /\ buf[Sink] = <<>>
  BY DEF Answered, CallInv
<1>5. CallInv'
  BY <1>2, <1>4 DEF CallInv, Pushing, Calling, Sink
<1> QED
  BY <1>1, <1>2, <1>3, <1>5 DEF Moved

LEMMA PushFailsMoves ==
    ASSUME TypeOK, CallInv, Answered, PushFails
    PROVE  Moved
<1>1. queue' = <<>> /\ at' \in 0..Len(Sinks) + 1 /\ at' # 0
  BY PushingNow DEF PushFails
<1>2. errs' \subseteq Names /\ attempt' \in 0..MaxRetries
  BY SinksAssumption, PushingNow DEF PushFails, TypeOK
<1>3. CallInv'
  BY <1>1 DEF Answered, CallInv, Pushing
<1> QED
  BY <1>1, <1>2, <1>3 DEF Moved

LEMMA RetryMoves ==
    ASSUME TypeOK, CallInv, Answered, attempt < Retries, Retry
    PROVE  Moved
<1>1. attempt' \in 0..MaxRetries
  BY SinksAssumption DEF Retry, Retries, TypeOK
<1>2. CallInv'
  BY DEF Retry, Answered, CallInv, Pushing, Calling, Sink
<1> QED
  BY <1>1, <1>2 DEF Moved, Retry, TypeOK

LEMMA HalveMoves ==
    ASSUME TypeOK, CallInv, Halve
    PROVE  Moved
<1>1. Answered
  BY DEF Halve, Request
<1> DEFINE mid == Len(Batch) \div 2
<1>2. mid \in Nat /\ mid <= Len(Batch) /\ Len(Batch) \in Nat
  BY <1>1, PushingNow
<1>3. SubSeq(Batch, 1, mid) \in Seq(Turns) /\ SubSeq(Batch, mid + 1, Len(Batch)) \in Seq(Turns)
  BY <1>1, <1>2, PushingNow
<1>4. queue' = <<SubSeq(Batch, 1, mid), SubSeq(Batch, mid + 1, Len(Batch))>> \o Tail(queue)
  BY DEF Halve
<1> HIDE DEF mid
<1>5. queue' \in Seq(Seq(Turns))
  BY <1>1, <1>3, <1>4, PushingNow, SMTT(30)
<1>6. CallInv'
  BY <1>1 DEF Halve, Answered, CallInv, Pushing, Calling, Sink
<1>7. errs' \subseteq Names /\ at' \in 0..Len(Sinks) + 1 /\ attempt' \in 0..MaxRetries
  BY SinksAssumption DEF Halve, TypeOK
<1> QED
  BY <1>5, <1>6, <1>7 DEF Moved

\* What the far end holds, and what is counted and doubted, stays of its type.
Filed ==
    /\ landed' \in [Names -> [Turns -> Nat]]
    /\ counted' \in [Names -> [Turns -> SUBSET Reasons]]
    /\ doubts' \in [Names -> [Turns -> SUBSET {"lost", "odd", "dropped"}]]

\* Every request ends in one of four ways.
LEMMA PushEnds ==
    ASSUME TypeOK, CallInv, Push
    PROVE  /\ Answered
           /\ Delivered \/ PushFails \/ (attempt < Retries /\ Retry) \/ Halve
<1>1. CASE Ok
  BY <1>1 DEF Ok, Request
<1>2. CASE Verdicts
  BY <1>2 DEF Verdicts, Request
<1>3. CASE Garbled
  BY <1>3 DEF Garbled, GiveUp, Request
<1>4. CASE Busy
  BY <1>4 DEF Busy, GiveUp, Request
<1>5. CASE Lost
  BY <1>5 DEF Lost, GiveUp
<1>6. CASE RefusedData
  BY <1>6 DEF RefusedData, Request
<1>7. CASE Halve
  BY <1>7 DEF Halve, Request
<1>8. CASE RefusedConfig
  BY <1>8 DEF RefusedConfig, GiveUp, Request
<1>9. CASE Odd
  BY <1>9 DEF Odd
<1>10. CASE BackoffCancelled
  BY <1>10 DEF BackoffCancelled, Request
<1> QED
  BY <1>1, <1>2, <1>3, <1>4, <1>5, <1>6, <1>7, <1>8, <1>9, <1>10 DEF Push

LEMMA PushFiles ==
    ASSUME TypeOK, CallInv, Push
    PROVE  Filed
<1>1. Sink \in Names /\ Batch \in Seq(Turns)
  BY PushEnds, PushingNow
<1>2. /\ \A S : Land(S) => landed' \in [Names -> [Turns -> Nat]]
      /\ landed' = landed => landed' \in [Names -> [Turns -> Nat]]
  BY <1>1, LandType DEF TypeOK
<1>3. /\ \A S : \A why \in Reasons :
            Count(S, why) => counted' \in [Names -> [Turns -> SUBSET Reasons]]
      /\ counted' = counted => counted' \in [Names -> [Turns -> SUBSET Reasons]]
  BY <1>1, CountType DEF TypeOK, Reasons
<1>4. /\ \A S : \A what \in {"lost", "odd", "dropped"} :
            Doubt(Sink, S, what) => doubts' \in [Names -> [Turns -> SUBSET {"lost", "odd", "dropped"}]]
      /\ doubts' = doubts => doubts' \in [Names -> [Turns -> SUBSET {"lost", "odd", "dropped"}]]
  BY <1>1, DoubtType DEF TypeOK
<1>5. "undelivered" \in Reasons /\ "rejected" \in Reasons
  BY DEF Reasons
<1>6. \E S : Land(S) \/ landed' = landed
  BY DEF Push, Ok, Verdicts, Garbled, Busy, Lost, RefusedData, Halve, RefusedConfig, Odd,
         BackoffCancelled
<1>7. counted' = counted \/ \E S : \E why \in Reasons : Count(S, why)
  BY <1>5 DEF Push, Ok, Verdicts, Garbled, Busy, Lost, RefusedData, Halve, RefusedConfig, Odd,
         BackoffCancelled, Retry, GiveUp
<1>8. doubts' = doubts \/ \E S : \E what \in {"lost", "odd", "dropped"} : Doubt(Sink, S, what)
  BY DEF Push, Ok, Verdicts, Garbled, Busy, Lost, RefusedData, Halve, RefusedConfig, Odd,
         BackoffCancelled, Request
<1> QED
  BY <1>2, <1>3, <1>4, <1>6, <1>7, <1>8 DEF Filed

LEMMA PushTypes ==
    ASSUME TypeOK, CallInv, Push
    PROVE  TypeOK' /\ CallInv'
<1>1. Answered /\ Moved
  BY PushEnds, DeliveredMoves, PushFailsMoves, RetryMoves, HalveMoves
<1>2. Filed
  BY PushFiles
<1> QED
  BY <1>1, <1>2 DEF Moved, Filed, Reasons, Answered, TypeOK

\* Emit and Flush move on, with the sink's buffer grown or taken for a push.
LEMMA SkipTypes ==
    ASSUME TypeOK, CallInv, Calling, ~Pushing, Skip
    PROVE  /\ at' \in 1..Len(Sinks) + 1 /\ queue' = <<>>
           /\ Sink \in Names /\ at \in 1..Len(Sinks) /\ Len(Sinks) \in Nat
<1>1. Len(Sinks) \in Nat
  BY SinksAssumption
<1>2. at \in 1..Len(Sinks) /\ Sink \in Names
  BY SinkIsNamed DEF CallInv, Calling, TypeOK
<1> QED
  BY <1>1, <1>2 DEF Skip, Pushing

LEMMA CallingNow ==
    ASSUME TypeOK, CallInv, Calling
    PROVE  /\ at \in 1..Len(Sinks) /\ Sink \in Names /\ Sink = Sinks[at] /\ Len(Sinks) \in Nat
           /\ buf[Sink] \in Seq(Turns)
<1>1. at \in 1..Len(Sinks) /\ Sink \in Names /\ Sink = Sinks[at]
  BY SinkIsNamed DEF CallInv, Calling, TypeOK
<1> QED
  BY <1>1, SinksAssumption DEF TypeOK

LEMMA TakeTypes ==
    ASSUME TypeOK, CallInv, Calling, NEW lines \in Seq(Turns), Take(Sink, lines),
           UNCHANGED phase
    PROVE  /\ buf' \in [Names -> Seq(Turns)] /\ queue' \in Seq(Seq(Turns)) /\ at' = at
           /\ Pushing' => Calling' /\ at' # 0 /\ buf'[Sink'] = <<>>
<1>1. at \in 1..Len(Sinks) /\ Sink \in Names
  BY CallingNow
<1>2. buf' = [buf EXCEPT ![Sink] = <<>>] /\ queue' = <<lines>> /\ at' = at
  BY DEF Take
<1>3. Sink' = Sink
  BY <1>2 DEF Sink
<1> QED
  BY <1>1, <1>2, <1>3 DEF TypeOK, Calling

LEMMA KeepTypes ==
    ASSUME TypeOK, CallInv, Calling, ~Pushing, NEW lines \in Seq(Turns), Keep(Sink, lines)
    PROVE  /\ buf' \in [Names -> Seq(Turns)] /\ queue' = <<>> /\ at' \in 1..Len(Sinks) + 1
<1>1. Sink \in Names /\ at' \in 1..Len(Sinks) + 1 /\ queue' = <<>>
  BY SkipTypes DEF Keep
<1> QED
  BY <1>1 DEF Keep, TypeOK

\* The lines a sink has after the batch, less the turns too old to ship.
Lines(old) == buf[Sink] \o InOrder((next..last) \ old)

LEMMA LinesType ==
    ASSUME TypeOK, CallInv, Calling, NEW old \in SUBSET (next..last)
    PROVE  /\ Lines(old) \in Seq(Turns)
           /\ Range(Lines(old)) = Range(buf[Sink]) \cup ((next..last) \ old)
           /\ (next..last) \ old \in SUBSET Turns
<1>1. (next..last) \ old \in SUBSET Turns
  BY SinksAssumption DEF TypeOK, Turns
<1>2. InOrder((next..last) \ old) \in Seq(Turns) /\ buf[Sink] \in Seq(Turns)
  BY <1>1, InOrderIs, CallingNow
<1>3. Range(InOrder((next..last) \ old)) = (next..last) \ old
  BY <1>1, InOrderIs
<1> DEFINE q == InOrder((next..last) \ old)
<1>4. q \in Seq(Turns) /\ Range(q) = (next..last) \ old
  BY <1>2, <1>3
<1> HIDE DEF q
<1>5. buf[Sink] \o q \in Seq(Turns)
  BY <1>2, <1>4, ConcatProperties
<1>6. Range(buf[Sink] \o q) = Range(buf[Sink]) \cup Range(q)
  BY <1>2, <1>4, RangeConcatenation
<1> QED
  BY <1>1, <1>4, <1>5, <1>6 DEF Lines, q

LEMMA EmitIs ==
    ASSUME Emit
    PROVE  /\ phase = "emit" /\ Calling /\ ~Pushing
           /\ UNCHANGED <<next, last, phase, errs, failures, cancelled, attempt, landed, doubts>>
           /\ \E old \in SUBSET (next..last) :
                /\ Count(old, "too_old")
                /\ \/ Lines(old) # <<>> /\ Sink \notin Exports /\ Take(Sink, Lines(old))
                   \/ Keep(Sink, Lines(old))
BY DEF Emit, Lines

LEMMA EmitTypes ==
    ASSUME TypeOK, CallInv, Emit
    PROVE  TypeOK' /\ CallInv'
<1>1. /\ phase = "emit" /\ Calling /\ ~Pushing
      /\ UNCHANGED <<next, last, phase, errs, failures, cancelled, attempt, landed, doubts>>
  BY EmitIs
<1>2. PICK old \in SUBSET (next..last) :
          /\ Count(old, "too_old")
          /\ Take(Sink, Lines(old)) \/ Keep(Sink, Lines(old))
  BY EmitIs
<1>3. Lines(old) \in Seq(Turns) /\ Sink \in Names
  BY <1>1, LinesType, CallingNow
<1>4. counted' \in [Names -> [Turns -> SUBSET Reasons]]
  BY <1>2, <1>3, CountType DEF Reasons
<1>5. /\ buf' \in [Names -> Seq(Turns)] /\ queue' \in Seq(Seq(Turns))
      /\ at' \in 0..Len(Sinks) + 1 /\ at' # 0
      /\ Pushing' => Calling' /\ buf'[Sink'] = <<>>
  <2>1. CASE Take(Sink, Lines(old))
    BY <1>1, <1>3, <2>1, TakeTypes, CallingNow
  <2>2. CASE Keep(Sink, Lines(old))
    <3>1. /\ buf' \in [Names -> Seq(Turns)] /\ queue' = <<>>
          /\ at' \in 1..Len(Sinks) + 1 /\ Len(Sinks) \in Nat
      BY <1>1, <1>3, <2>2, KeepTypes, CallingNow
    <3> QED
      BY <3>1 DEF Pushing
  <2> QED
    BY <1>2, <2>1, <2>2
<1>6. TypeOK'
  BY <1>1, <1>4, <1>5 DEF TypeOK, Reasons
<1>7. CallInv'
  BY <1>1, <1>5 DEF CallInv
<1> QED
  BY <1>6, <1>7

LEMMA FlushTypes ==
    ASSUME TypeOK, CallInv, Flush
    PROVE  TypeOK' /\ CallInv'
<1>1. /\ phase \in {"flush", "drain"} /\ Calling /\ ~Pushing
      /\ UNCHANGED <<next, last, phase, errs, failures, cancelled, attempt, landed, counted, doubts>>
  BY DEF Flush, farVars
<1>2. CASE buf[Sink] = <<>>
  <2>1. Skip /\ UNCHANGED buf
    BY <1>2 DEF Flush
  <2>2. at' \in 1..Len(Sinks) + 1 /\ queue' = <<>> /\ Len(Sinks) \in Nat
    BY <1>1, <2>1, SkipTypes
  <2> QED
    BY <1>1, <2>1, <2>2 DEF TypeOK, CallInv, Pushing
<1>3. CASE buf[Sink] # <<>>
  <2>1. Take(Sink, buf[Sink]) /\ buf[Sink] \in Seq(Turns) /\ at \in 1..Len(Sinks)
    BY <1>1, <1>3, CallingNow DEF Flush
  <2>2. /\ buf' \in [Names -> Seq(Turns)] /\ queue' \in Seq(Seq(Turns)) /\ at' = at
        /\ Pushing' => Calling' /\ at' # 0 /\ buf'[Sink'] = <<>>
    BY <1>1, <2>1, TakeTypes
  <2> QED
    BY <1>1, <2>1, <2>2 DEF TypeOK, CallInv
<1> QED
  BY <1>2, <1>3

LEMMA BackgroundTypes ==
    ASSUME TypeOK, CallInv, Background
    PROVE  TypeOK' /\ CallInv'
<1>1. UNCHANGED <<next, last, phase, at, errs, failures, cancelled, queue, attempt, counted>>
  BY DEF Background, callVars, pushVars
<1>2. PICK s \in Names :
          /\ buf' = [buf EXCEPT ![s] = <<>>]
          /\ \/ /\ landed' = [landed EXCEPT ![s] = [t \in Turns |-> @[t] + Copies(buf[s], t)]]
                /\ UNCHANGED doubts
             \/ Doubt(s, Range(buf[s]), "dropped") /\ UNCHANGED landed
  BY DEF Background
<1> DEFINE F == [t \in Turns |-> landed[s][t] + Copies(buf[s], t)]
<1>3. F \in [Turns -> Nat] /\ (landed' = [landed EXCEPT ![s] = F] \/ landed' = landed)
  <2>1. \A t \in Turns : landed[s][t] + Copies(buf[s], t) \in Nat
    BY CopiesAre DEF TypeOK
  <2> QED
    BY <1>2, <2>1
<1>4. landed' \in [Names -> [Turns -> Nat]]
  <2> HIDE DEF F
  <2> QED
    BY <1>3 DEF TypeOK
<1>5. doubts' \in [Names -> [Turns -> SUBSET {"lost", "odd", "dropped"}]]
  BY <1>2, DoubtType DEF TypeOK
<1>6. buf' \in [Names -> Seq(Turns)] /\ \A z \in Names : buf[z] = <<>> => buf'[z] = <<>>
  BY <1>2 DEF TypeOK
<1>7. TypeOK'
  BY <1>1, <1>4, <1>5, <1>6 DEF TypeOK
<1>8. CallInv'
  <2>1. Pushing => Sink \in Names
    BY CallingNow DEF CallInv
  <2> QED
    BY <1>1, <1>6, <2>1 DEF CallInv, Pushing, Calling, Sink
<1> QED
  BY <1>7, <1>8

LEMMA TypeStep ==
    TypeOK /\ CallInv /\ [Next]_vars => TypeOK' /\ CallInv'
<1> SUFFICES ASSUME TypeOK, CallInv, [Next]_vars
             PROVE  TypeOK' /\ CallInv'
  OBVIOUS
<1> USE DEF callVars, pushVars, farVars
<1>1. CASE Push
  BY <1>1, PushTypes
<1>2. CASE Emit
  BY <1>2, EmitTypes
<1>3. CASE EmitCancelled
  <2>1. at \in 1..Len(Sinks) /\ Sink \in Names /\ Len(Sinks) \in Nat
    BY <1>3, CallingNow DEF EmitCancelled
  <2> QED
    BY <1>3, <2>1 DEF EmitCancelled, TypeOK, CallInv, Pushing
<1>4. CASE Flush
  BY <1>4, FlushTypes
<1>5. CASE EmitDone
  BY <1>5, SinksAssumption DEF EmitDone, EachDone, TypeOK, CallInv, Pushing
<1>6. CASE Accepted
  BY <1>6, SinksAssumption DEF Accepted, EachDone, TypeOK, CallInv, Pushing
<1>7. CASE Refused
  BY <1>7, SinksAssumption DEF Refused, EachDone, TypeOK, CallInv, Pushing
<1>8. CASE Close
  BY <1>8, SinksAssumption DEF Close, EachDone, TypeOK, CallInv, Pushing
<1>9. CASE Begin
  BY <1>9, SinksAssumption DEF Begin, TypeOK, CallInv, Pushing, Calling
<1>10. CASE Cancel
  BY <1>10 DEF Cancel, TypeOK, CallInv, Pushing, Calling, Sink
<1>11. CASE Drain
  BY <1>11, SinksAssumption DEF Drain, TypeOK, CallInv, Pushing, Calling
<1>12. CASE Background
  BY <1>12, BackgroundTypes
<1>13. CASE UNCHANGED vars
  BY <1>13 DEF vars, TypeOK, CallInv, Pushing, Calling, Sink
<1> QED
  BY <1>1, <1>2, <1>3, <1>4, <1>5, <1>6, <1>7, <1>8, <1>9, <1>10, <1>11, <1>12, <1>13
  DEF Next, Work

-----------------------------------------------------------------------------
(* Nothing is accepted that is not settled.                                *)

\* What the far ends hold, and what is known of a turn, only grows.
Grows ==
    \A s \in Names, t \in Turns :
        /\ landed[s][t] <= landed'[s][t]
        /\ counted[s][t] \subseteq counted'[s][t]
        /\ doubts[s][t] \subseteq doubts'[s][t]

LEMMA LandGrows ==
    ASSUME TypeOK, Sink \in Names, Batch \in Seq(Turns), NEW S, Land(S),
           NEW s \in Names, NEW t \in Turns
    PROVE  /\ landed[s][t] <= landed'[s][t]
           /\ s # Sink \/ t \notin S => landed'[s][t] = landed[s][t]
           /\ s = Sink /\ t \in S => landed'[s][t] = landed[s][t] + Copies(Batch, t)
<1>1. Copies(Batch, t) \in Nat
  BY CopiesAre
<1>2. landed[s][t] \in Nat
  BY DEF TypeOK
<1>3. landed'[s] = IF s = Sink
                   THEN [u \in Turns |-> IF u \in S THEN landed[s][u] + Copies(Batch, u)
                                         ELSE landed[s][u]]
                   ELSE landed[s]
  BY DEF Land, TypeOK
<1> QED
  BY <1>1, <1>2, <1>3

LEMMA CountGrows ==
    ASSUME TypeOK, Sink \in Names, NEW S, NEW why, Count(S, why), NEW s \in Names,
           NEW t \in Turns
    PROVE  /\ counted[s][t] \subseteq counted'[s][t]
           /\ s = Sink /\ t \in S => why \in counted'[s][t]
BY DEF Count, TypeOK

LEMMA DoubtGrows ==
    ASSUME TypeOK, NEW z \in Names, NEW S, NEW what, Doubt(z, S, what), NEW s \in Names,
           NEW t \in Turns
    PROVE  /\ doubts[s][t] \subseteq doubts'[s][t]
           /\ s = z /\ t \in S => what \in doubts'[s][t]
BY DEF Doubt, TypeOK

\* Settled once, settled for good.
LEMMA SettledStays ==
    ASSUME TypeOK, TypeOK', Grows, NEW s \in Names, NEW t \in Turns, Settled(s, t)
    PROVE  Settled(s, t)'
<1>1. landed[s][t] \in Nat /\ landed'[s][t] \in Nat
  BY DEF TypeOK
<1>2. /\ landed[s][t] <= landed'[s][t]
      /\ counted[s][t] \subseteq counted'[s][t] /\ doubts[s][t] \subseteq doubts'[s][t]
  BY DEF Grows
<1>3. landed[s][t] > 0 => landed'[s][t] > 0
  BY <1>1, <1>2
<1> QED
  BY <1>2, <1>3 DEF Settled

\* What a request does to the far end and to the queue at once: a batch leaves
\* the queue without an error only when every turn of it is settled, and it
\* stays there only untouched, or with an answer lost.
LEMMA PushEffect ==
    ASSUME TypeOK, CallInv, Push
    PROVE  /\ Grows
           /\ \A s \in Names, t \in Turns :
                 \/ landed'[s][t] = landed[s][t]
                 \/ /\ s = Sink /\ t \in Range(Batch)
                    /\ landed'[s][t] = landed[s][t] + Copies(Batch, t)
           /\ \/ Delivered /\ \A s \in Names : s = Sink => \A t \in Range(Batch) : Settled(s, t)'
              \/ PushFails
              \/ /\ Retry
                 /\ UNCHANGED landed \/ \A t \in Range(Batch) : "lost" \in doubts'[Sink][t]
              \/ Halve /\ UNCHANGED landed
<1>1. Sink \in Names /\ Batch \in Seq(Turns) /\ Range(Batch) \in SUBSET Turns
  BY PushEnds, PushingNow
<1>2. ASSUME NEW S \in SUBSET Range(Batch), Land(S), NEW s \in Names, NEW t \in Turns
      PROVE  /\ landed[s][t] <= landed'[s][t]
             /\ \/ landed'[s][t] = landed[s][t]
                \/ /\ s = Sink /\ t \in Range(Batch)
                   /\ landed'[s][t] = landed[s][t] + Copies(Batch, t)
  BY <1>1, <1>2, LandGrows
<1>3. UNCHANGED landed => \A s \in Names, t \in Turns : landed[s][t] <= landed'[s][t]
  BY LandedIsNat
<1>4. UNCHANGED landed \/ \E S \in SUBSET Range(Batch) : Land(S)
  BY DEF Push, Ok, Verdicts, Garbled, Busy, Lost, RefusedData, Halve, RefusedConfig, Odd,
         BackoffCancelled
<1>5. UNCHANGED counted \/ \E S : \E why \in Reasons : Count(S, why)
  BY DEF Push, Ok, Verdicts, Garbled, Busy, Lost, RefusedData, Halve, RefusedConfig, Odd,
         BackoffCancelled, Retry, GiveUp, Reasons
<1>6. UNCHANGED doubts \/ \E S : \E what \in {"lost", "odd", "dropped"} : Doubt(Sink, S, what)
  BY DEF Push, Ok, Verdicts, Garbled, Busy, Lost, RefusedData, Halve, RefusedConfig, Odd,
         BackoffCancelled, Request
<1>7. \A s \in Names, t \in Turns : counted[s][t] \subseteq counted'[s][t]
  BY <1>1, <1>5, CountGrows
<1>8. \A s \in Names, t \in Turns : doubts[s][t] \subseteq doubts'[s][t]
  BY <1>1, <1>6, DoubtGrows
<1>9. Grows
  BY <1>2, <1>3, <1>4, <1>7, <1>8 DEF Grows
<1>10. \A s \in Names, t \in Turns :
          \/ landed'[s][t] = landed[s][t]
          \/ /\ s = Sink /\ t \in Range(Batch)
             /\ landed'[s][t] = landed[s][t] + Copies(Batch, t)
  BY <1>2, <1>4
<1>11. ASSUME NEW S, Land(S), NEW t \in Range(Batch), t \in S
       PROVE  landed'[Sink][t] > 0
  <2>1. landed'[Sink][t] = landed[Sink][t] + Copies(Batch, t)
    BY <1>1, <1>11, LandGrows
  <2>2. landed[Sink][t] \in Nat /\ Copies(Batch, t) \in Nat /\ Copies(Batch, t) > 0
    BY <1>1, CopiesAre DEF TypeOK
  <2> QED
    BY <2>1, <2>2
<1>12. \/ Delivered /\ \A s \in Names : s = Sink => \A t \in Range(Batch) : Settled(s, t)'
       \/ PushFails
       \/ /\ Retry
          /\ UNCHANGED landed \/ \A t \in Range(Batch) : "lost" \in doubts'[Sink][t]
       \/ Halve /\ UNCHANGED landed
  <2>1. CASE Ok
    <3>1. \A t \in Range(Batch) : landed'[Sink][t] > 0
      BY <1>11, <2>1 DEF Ok
    <3> QED
      BY <2>1, <3>1 DEF Ok, Settled
  <2>2. CASE Verdicts
    <3>1. PICK S \in SUBSET Range(Batch) : Land(S) /\ Count(Range(Batch) \ S, "rejected")
      BY <2>2 DEF Verdicts
    <3>2. \A t \in Range(Batch) : landed'[Sink][t] > 0 \/ "rejected" \in counted'[Sink][t]
      BY <1>1, <1>11, <3>1, CountGrows
    <3> QED
      BY <2>2, <3>2 DEF Verdicts, Settled
  <2>3. CASE Garbled
    BY <2>3 DEF Garbled, GiveUp
  <2>4. CASE Busy
    BY <2>4 DEF Busy, GiveUp
  <2>5. CASE Lost
    <3>1. \A t \in Range(Batch) : "lost" \in doubts'[Sink][t]
      BY <1>1, <2>5, DoubtGrows DEF Lost
    <3> QED
      BY <2>5, <3>1 DEF Lost, GiveUp
  <2>6. CASE RefusedData
    <3>1. \A t \in Range(Batch) : "rejected" \in counted'[Sink][t]
      BY <1>1, <2>6, CountGrows DEF RefusedData
    <3> QED
      BY <2>6, <3>1 DEF RefusedData, Settled
  <2>7. CASE Halve
    BY <2>7 DEF Halve
  <2>8. CASE RefusedConfig
    BY <2>8 DEF RefusedConfig, GiveUp
  <2>9. CASE Odd
    <3>1. \A t \in Range(Batch) : "odd" \in doubts'[Sink][t]
      BY <1>1, <2>9, DoubtGrows DEF Odd
    <3> QED
      BY <2>9, <3>1 DEF Odd, Settled
  <2>10. CASE BackoffCancelled
    BY <2>10 DEF BackoffCancelled
  <2> QED
    BY <2>1, <2>2, <2>3, <2>4, <2>5, <2>6, <2>7, <2>8, <2>9, <2>10 DEF Push
<1> QED
  BY <1>9, <1>10, <1>12

\* A turn a sink has still to deliver: buffered, or in the push under way.
Queued(t) == \E k \in 1..Len(queue) : t \in Range(queue[k])
Waiting(s, t) == t \in Range(buf[s]) \/ (s = Sink /\ Queued(t))

\* The sinks the call has got to: a flush comes after every Emit.
Reached(j) == phase = "flush" \/ j < at \/ (j = at /\ Pushing)

FateInv ==
    /\ AcceptedIsSettled /\ NothingLeftBehind
    /\ phase \in {"emit", "flush"} =>
          \A j \in 1..Len(Sinks) : Reached(j) /\ Sinks[j] \notin errs =>
              \A t \in next..last : Settled(Sinks[j], t) \/ Waiting(Sinks[j], t)
    /\ phase = "flush" =>
          \A j \in 1..Len(Sinks) : j < at /\ Sinks[j] \notin errs => buf[Sinks[j]] = <<>>

LEMMA HalvesAre ==
    ASSUME NEW q \in Seq(Turns), NEW mid \in 1..(Len(q) - 1)
    PROVE  LET a == SubSeq(q, 1, mid)
               b == SubSeq(q, mid + 1, Len(q))
           IN  /\ a \in Seq(Turns) /\ Len(a) = mid /\ \A i \in 1..mid : a[i] = q[i]
               /\ b \in Seq(Turns) /\ Len(b) = Len(q) - mid
               /\ \A i \in 1..(Len(q) - mid) : b[i] = q[mid + i]
<1>1. /\ Len(q) \in Nat /\ mid \in Nat /\ mid < Len(q) /\ mid >= 1
      /\ \A i \in 1..Len(q) : q[i] \in Turns
  OBVIOUS
<1>2. /\ SubSeq(q, 1, mid) \in Seq(Turns)
      /\ Len(SubSeq(q, 1, mid)) = mid
      /\ \A i \in 1..mid : SubSeq(q, 1, mid)[i] = q[i]
  BY <1>1
<1>3. /\ SubSeq(q, mid + 1, Len(q)) \in Seq(Turns)
      /\ Len(SubSeq(q, mid + 1, Len(q))) = Len(q) - mid
      /\ \A i \in 1..(Len(q) - mid) : SubSeq(q, mid + 1, Len(q))[i] = q[mid + i]
  BY <1>1
<1> QED
  BY <1>2, <1>3

\* The queue while a push goes on.
LEMMA HalvesHold ==
    ASSUME TypeOK, CallInv, Halve
    PROVE  /\ Len(queue) \in Nat \ {0} /\ Len(queue') = Len(queue) + 1
           /\ \E mid \in 1..(Len(Batch) - 1) :
                 /\ queue'[1] = SubSeq(Batch, 1, mid)
                 /\ queue'[2] = SubSeq(Batch, mid + 1, Len(Batch))
           /\ \A k \in 2..Len(queue) : queue'[k + 1] = queue[k]
           /\ queue[1] = Batch
<1>1. /\ Len(queue) \in Nat \ {0} /\ Tail(queue) \in Seq(Seq(Turns))
      /\ Batch \in Seq(Turns) /\ Len(Batch) > 1
  BY PushEnds, PushingNow DEF Halve, Push
<1> DEFINE mid == Len(Batch) \div 2
           a == SubSeq(Batch, 1, mid)
           b == SubSeq(Batch, mid + 1, Len(Batch))
<1>2. mid \in 1..(Len(Batch) - 1) /\ Len(Batch) \in Nat
  BY <1>1
<1>3. queue' = <<a, b>> \o Tail(queue)
  BY DEF Halve
<1>4. a \in Seq(Turns) /\ b \in Seq(Turns)
  <2> HIDE DEF mid
  <2> QED
    BY <1>1, <1>2
<1>5. queue \in Seq(Seq(Turns)) /\ queue # <<>>
  BY <1>1 DEF TypeOK
<1>6. /\ Len(Tail(queue)) = Len(queue) - 1
      /\ \A k \in 1..Len(Tail(queue)) : Tail(queue)[k] = queue[k + 1]
      /\ queue[1] = Batch
  BY <1>5, HeadTailProperties DEF Batch
<1> HIDE DEF a, b, mid
<1>7. <<a, b>> \in Seq(Seq(Turns)) /\ Len(<<a, b>>) = 2 /\ <<a, b>>[1] = a /\ <<a, b>>[2] = b
  BY <1>4
<1>8. /\ Len(queue') = 2 + Len(Tail(queue))
      /\ \A k \in 1..(2 + Len(Tail(queue))) :
            queue'[k] = IF k <= 2 THEN <<a, b>>[k] ELSE Tail(queue)[k - 2]
  BY <1>1, <1>3, <1>7, ConcatProperties
<1>9. queue'[1] = a /\ queue'[2] = b
  BY <1>1, <1>6, <1>7, <1>8
<1>10. \A k \in 2..Len(queue) : queue'[k + 1] = queue[k]
  <2> SUFFICES ASSUME NEW k \in 2..Len(queue)
               PROVE  queue'[k + 1] = queue[k]
    OBVIOUS
  <2>1. k - 1 \in 1..Len(Tail(queue)) /\ k + 1 \in 1..(2 + Len(Tail(queue))) /\ ~(k + 1 <= 2)
    BY <1>1, <1>6
  <2>2. queue'[k + 1] = Tail(queue)[(k + 1) - 2] /\ (k + 1) - 2 = k - 1 /\ (k - 1) + 1 = k
    BY <1>8, <2>1
  <2> QED
    BY <1>6, <2>1, <2>2
<1>11. Len(queue') = Len(queue) + 1
  BY <1>1, <1>6, <1>8
<1> QED
  BY <1>1, <1>2, <1>6, <1>9, <1>10, <1>11 DEF a, b

LEMMA HalvesQueue ==
    ASSUME TypeOK, CallInv, Halve, NEW t, Queued(t)
    PROVE  Queued(t)'
<1>1. PICK k \in 1..Len(queue) : t \in Range(queue[k])
  BY DEF Queued
<1>2. PICK mid \in 1..(Len(Batch) - 1) :
          /\ queue'[1] = SubSeq(Batch, 1, mid)
          /\ queue'[2] = SubSeq(Batch, mid + 1, Len(Batch))
  BY HalvesHold
<1>3. Len(queue) \in Nat \ {0} /\ Len(queue') = Len(queue) + 1
  BY HalvesHold
<1>4. CASE k = 1
  <2>1. Batch \in Seq(Turns)
    BY PushEnds, PushingNow DEF Push
  <2>2. PICK i \in 1..Len(Batch) : Batch[i] = t
    BY <1>1, <1>4, <2>1, HalvesHold DEF Range
  <2>3. CASE i <= mid
    <3>1. i \in 1..Len(queue'[1]) /\ queue'[1][i] = t
      BY <1>2, <2>1, <2>2, <2>3, HalvesAre
    <3>2. queue'[1] \in Seq(Turns)
      BY <1>2, <2>1, HalvesAre
    <3>3. t \in Range(queue'[1])
      BY <3>1, <3>2 DEF Range
    <3> QED
      BY <1>3, <3>3 DEF Queued
  <2>4. CASE i > mid
    <3>1. i - mid \in 1..Len(queue'[2]) /\ queue'[2][i - mid] = t
      BY <1>2, <2>1, <2>2, <2>4, HalvesAre
    <3>2. queue'[2] \in Seq(Turns)
      BY <1>2, <2>1, HalvesAre
    <3>3. t \in Range(queue'[2])
      BY <3>1, <3>2 DEF Range
    <3> QED
      BY <1>3, <3>3 DEF Queued
  <2> QED
    BY <2>1, <2>2, <2>3, <2>4
<1>5. CASE k # 1
  <2>1. k + 1 \in 1..Len(queue') /\ queue'[k + 1] = queue[k]
    BY <1>3, <1>5, HalvesHold
  <2> QED
    BY <1>1, <2>1 DEF Queued
<1> QED
  BY <1>4, <1>5

LEMMA DeliveredQueue ==
    ASSUME TypeOK, CallInv, Answered, Delivered, NEW t, Queued(t)
    PROVE  t \in Range(Batch) \/ Queued(t)'
<1>1. PICK k \in 1..Len(queue) : t \in Range(queue[k])
  BY DEF Queued
<1>2. queue \in Seq(Seq(Turns)) /\ queue # <<>> /\ queue' = Tail(queue) /\ Len(queue) \in Nat \ {0}
  BY PushingNow DEF TypeOK, Delivered
<1>3. CASE k = 1
  BY <1>1, <1>2, <1>3 DEF Batch
<1>4. CASE k # 1
  <2>1. k - 1 \in 1..Len(queue') /\ queue'[k - 1] = queue[k]
    BY <1>2, <1>4, HeadTailProperties
  <2> QED
    BY <1>1, <2>1 DEF Queued
<1> QED
  BY <1>3, <1>4

LEMMA SinksApart ==
    ASSUME NEW i \in 1..Len(Sinks), NEW j \in 1..Len(Sinks), i # j
    PROVE  Sinks[i] \in Names /\ Sinks[i] # Sinks[j]
<1>1. Sinks \in Seq(STRING) /\ \A a, b \in DOMAIN Sinks : Sinks[a] = Sinks[b] => a = b
  BY SinksAssumption DEF IsInjective
<1> QED
  BY <1>1 DEF Names, Range

\* Multi goes on to the next sink with an empty queue.
LEMMA PushAt ==
    ASSUME TypeOK, CallInv, Push
    PROVE  /\ at' = at \/ (at' = at + 1 /\ queue' = <<>>)
           /\ errs \subseteq errs'
           /\ at' = at + 1 /\ Sink \notin errs' => Delivered
           /\ at \in 1..Len(Sinks)
<1>1. Answered /\ at \in 1..Len(Sinks) /\ Len(queue) \in Nat \ {0}
  BY PushEnds, PushingNow
<1>2. CASE Delivered
  <2>1. Len(queue) = 1 => Tail(queue) = <<>>
    BY <1>1, TailOfOne
  <2> QED
    BY <1>1, <1>2, <2>1 DEF Delivered
<1>3. CASE PushFails
  BY <1>1, <1>3 DEF PushFails
<1>4. CASE Retry \/ Halve
  BY <1>1, <1>4 DEF Retry, Halve
<1> QED
  BY <1>2, <1>3, <1>4, PushEnds

\* A turn a push is to deliver is settled by it, or stays with it.
LEMMA PushKeeps ==
    ASSUME TypeOK, CallInv, TypeOK', Push, Sink \notin errs', NEW t \in Turns,
           Settled(Sink, t) \/ Queued(t), NEW s \in Names, s = Sink
    PROVE  Settled(s, t)' \/ (at' = at /\ Queued(t)')
<1>1. Answered /\ at \in 1..Len(Sinks)
  BY PushEnds, PushAt
<1>2. CASE Settled(Sink, t)
  BY <1>2, PushEffect, SettledStays
<1>3. CASE Queued(t)
  <2>1. CASE Delivered /\ \A z \in Names : z = Sink => \A u \in Range(Batch) : Settled(z, u)'
    <3>1. CASE t \in Range(Batch)
      BY <2>1, <3>1
    <3>2. CASE t \notin Range(Batch)
      <4>1. Queued(t)'
        BY <1>1, <1>3, <2>1, <3>2, DeliveredQueue
      <4>2. queue' # <<>>
        BY <4>1 DEF Queued
      <4> QED
        BY <4>1, <4>2, PushAt
    <3> QED
      BY <3>1, <3>2
  <2>2. CASE Retry
    BY <1>3, <2>2 DEF Retry, Queued
  <2>3. CASE Halve
    BY <1>3, <2>3, HalvesQueue DEF Halve
  <2>4. ~PushFails
    BY DEF PushFails
  <2> QED
    BY <2>1, <2>2, <2>3, <2>4, PushEffect
<1> QED
  BY <1>2, <1>3

LEMMA FatePush ==
    ASSUME TypeOK, CallInv, FateInv, Push, TypeOK'
    PROVE  FateInv'
<1>1. /\ Answered /\ Pushing /\ Calling /\ buf[Sink] = <<>>
      /\ UNCHANGED <<next, last, phase, buf>>
      /\ at \in 1..Len(Sinks) /\ at' \in {at, at + 1} /\ Sink = Sinks[at] /\ Sink \in Names
      /\ errs \subseteq errs' /\ Grows
  BY PushEnds, PushAt, PushEffect, PushingNow DEF Answered, CallInv
<1>2. \A s \in Names, t \in Turns : Settled(s, t) => Settled(s, t)'
  BY <1>1, SettledStays
<1>3. AcceptedIsSettled' /\ NothingLeftBehind'
  BY <1>1, <1>2 DEF FateInv, AcceptedIsSettled, NothingLeftBehind, Calling
<1>4. next \in Nat /\ next >= 1 /\ last \in Nat /\ last <= MaxTurns /\ MaxTurns \in Nat
  BY SinksAssumption DEF TypeOK
<1>5. ASSUME phase \in {"emit", "flush"}, NEW j \in 1..Len(Sinks), Reached(j)',
             Sinks[j] \notin errs', NEW t \in next..last
      PROVE  Settled(Sinks[j], t)' \/ Waiting(Sinks[j], t)'
  <2>1. t \in Turns /\ Sinks[j] \in Names
    BY <1>4, SinkIsNamed, SinksAssumption DEF Turns, Names, Range
  <2>2. CASE j = at
    <3>1. Settled(Sink, t) \/ Queued(t)
      BY <1>1, <1>5, <2>2 DEF FateInv, Reached, Waiting, Range
    <3>2. Settled(Sinks[j], t)' \/ (at' = at /\ Queued(t)')
      BY <1>1, <1>5, <2>1, <2>2, <3>1, PushKeeps
    <3>3. at' = at => Sink' = Sinks[j]
      BY <2>2 DEF Sink
    <3> QED
      BY <3>2, <3>3 DEF Waiting
  <2>3. CASE j # at
    <3>1. Reached(j)
      <4>1. at' = at \/ (at' = at + 1 /\ queue' = <<>>)
        BY PushAt
      <4> QED
        BY <1>1, <1>5, <2>3, <4>1 DEF Reached, Pushing
    <3>2. Settled(Sinks[j], t) \/ Waiting(Sinks[j], t)
      BY <1>1, <1>5, <3>1 DEF FateInv
    <3>3. Sinks[j] # Sink
      BY <1>1, <2>3, SinksApart
    <3> QED
      BY <1>1, <1>2, <2>1, <3>2, <3>3 DEF Waiting
  <2> QED
    BY <2>2, <2>3
<1>6. ASSUME phase = "flush", NEW j \in 1..Len(Sinks), j < at', Sinks[j] \notin errs'
      PROVE  buf'[Sinks[j]] = <<>>
  <2>1. CASE j = at
    BY <1>1, <2>1
  <2>2. CASE j # at
    BY <1>1, <1>6, <2>2 DEF FateInv
  <2> QED
    BY <2>1, <2>2
<1> QED
  BY <1>1, <1>3, <1>5, <1>6 DEF FateInv

LEMMA SameSettled ==
    ASSUME UNCHANGED farVars, NEW s, NEW t
    PROVE  Settled(s, t)' <=> Settled(s, t)
BY DEF farVars, Settled

LEMMA QueueOfOne ==
    ASSUME NEW lines, queue' = <<lines>>, NEW t
    PROVE  Queued(t)' <=> t \in Range(lines)
<1>1. Len(queue') = 1 /\ queue'[1] = lines
  OBVIOUS
<1> QED
  BY <1>1 DEF Queued

LEMMA FateEmit ==
    ASSUME TypeOK, CallInv, FateInv, Emit, TypeOK'
    PROVE  FateInv'
<1>1. /\ phase = "emit" /\ Calling /\ ~Pushing /\ queue = <<>>
      /\ UNCHANGED <<next, last, phase, errs, landed, doubts>>
  BY EmitIs DEF Pushing
<1>2. PICK old \in SUBSET (next..last) :
          /\ Count(old, "too_old")
          /\ Take(Sink, Lines(old)) \/ Keep(Sink, Lines(old))
  BY EmitIs
<1>3. at \in 1..Len(Sinks) /\ Sink = Sinks[at] /\ Sink \in Names /\ Len(Sinks) \in Nat
  BY <1>1, CallingNow
<1>4. \A s \in Names, t \in Turns :
          /\ counted[s][t] \subseteq counted'[s][t]
          /\ s = Sink /\ t \in old => "too_old" \in counted'[s][t]
  BY <1>2, <1>3, CountGrows
<1>5. Grows
  <2>1. \A s \in Names, t \in Turns : landed[s][t] <= landed[s][t]
    BY LandedIsNat
  <2>2. landed' = landed
    BY <1>1
  <2>3. doubts' = doubts
    BY <1>1
  <2>4. \A s \in Names, t \in Turns : counted[s][t] \subseteq counted'[s][t]
    BY <1>4
  <2>5. \A s \in Names, t \in Turns : landed[s][t] <= landed'[s][t]
    BY <2>1, <2>2
  <2> QED
    BY <2>3, <2>4, <2>5 DEF Grows
<1>6. \A s \in Names, t \in Turns : Settled(s, t) => Settled(s, t)'
  BY <1>5, SettledStays
<1>7. AcceptedIsSettled' /\ NothingLeftBehind'
  BY <1>1, <1>6 DEF FateInv, AcceptedIsSettled, NothingLeftBehind
<1>8. \A t \in next..last : t \in Turns
  BY SinksAssumption DEF TypeOK, Turns
<1>9. ASSUME NEW j \in 1..Len(Sinks), Reached(j)', Sinks[j] \notin errs', NEW t \in next..last
      PROVE  Settled(Sinks[j], t)' \/ Waiting(Sinks[j], t)'
  <2>1. t \in Turns /\ Sinks[j] \in Names
    BY <1>8, SinksAssumption DEF Names, Range
  <2>2. CASE j = at
    <3>1. CASE t \in old
      <4>1. "too_old" \in counted'[Sinks[j]][t]
        BY <1>3, <1>4, <2>1, <2>2, <3>1
      <4> QED
        BY <4>1 DEF Settled
    <3>2. CASE t \notin old
      <4>1. t \in Range(Lines(old))
        BY <1>1, <3>2, LinesType
      <4>2. CASE Take(Sink, Lines(old))
        <5>1. Queued(t)'
          BY <4>1, <4>2, QueueOfOne DEF Take
        <5>2. Sink' = Sinks[j]
          BY <2>2, <4>2 DEF Take, Sink
        <5> QED
          BY <5>1, <5>2 DEF Waiting
      <4>3. CASE Keep(Sink, Lines(old))
        <5>1. buf'[Sinks[j]] = Lines(old)
          BY <1>3, <2>1, <2>2, <4>3 DEF Keep, TypeOK
        <5> QED
          BY <4>1, <5>1 DEF Waiting
      <4> QED
        BY <1>2, <4>2, <4>3
    <3> QED
      BY <3>1, <3>2
  <2>3. CASE j # at
    <3>1. Reached(j)
      BY <1>1, <1>2, <1>3, <1>9, <2>3 DEF Reached, Take, Keep, Skip, Pushing
    <3>2. Settled(Sinks[j], t) \/ t \in Range(buf[Sinks[j]])
      BY <1>1, <1>9, <3>1 DEF FateInv, Waiting, Queued
    <3>3. buf'[Sinks[j]] = buf[Sinks[j]]
      BY <1>2, <1>3, <2>1, <2>3, SinksApart DEF Take, Keep, TypeOK
    <3> QED
      BY <1>6, <2>1, <3>2, <3>3 DEF Waiting
  <2> QED
    BY <2>2, <2>3
<1> QED
  BY <1>1, <1>7, <1>9 DEF FateInv

LEMMA FateFlush ==
    ASSUME TypeOK, CallInv, FateInv, Flush, TypeOK'
    PROVE  FateInv'
<1>1. /\ phase \in {"flush", "drain"} /\ Calling /\ ~Pushing /\ queue = <<>>
      /\ UNCHANGED <<next, last, phase, errs>> /\ UNCHANGED farVars
  BY DEF Flush, Pushing
<1>2. at \in 1..Len(Sinks) /\ Sink = Sinks[at] /\ Sink \in Names /\ Len(Sinks) \in Nat
  BY <1>1, CallingNow
<1>3. \A s \in Names, t \in Turns : Settled(s, t)' <=> Settled(s, t)
  BY <1>1, SameSettled
<1>4. AcceptedIsSettled' /\ NothingLeftBehind'
  BY <1>1, <1>3 DEF FateInv, AcceptedIsSettled, NothingLeftBehind
<1>5. \A t \in next..last : t \in Turns
  BY SinksAssumption DEF TypeOK, Turns
<1>6. ASSUME phase = "flush", NEW j \in 1..Len(Sinks), Sinks[j] \notin errs', NEW t \in next..last
      PROVE  Settled(Sinks[j], t)' \/ Waiting(Sinks[j], t)'
  <2>1. t \in Turns /\ Sinks[j] \in Names
    BY <1>5, SinksAssumption DEF Names, Range
  <2>2. Settled(Sinks[j], t) \/ t \in Range(buf[Sinks[j]])
    BY <1>1, <1>6 DEF FateInv, Reached, Waiting, Queued
  <2>3. CASE buf[Sink] = <<>>
    <3>1. buf' = buf
      BY <2>3 DEF Flush
    <3> QED
      BY <1>3, <2>1, <2>2, <3>1 DEF Waiting
  <2>4. CASE buf[Sink] # <<>>
    <3>1. Take(Sink, buf[Sink])
      BY <2>4 DEF Flush
    <3>2. CASE j = at
      <4>1. Sink' = Sinks[j] /\ (Queued(t)' <=> t \in Range(buf[Sink]))
        BY <3>1, <3>2, QueueOfOne DEF Take, Sink
      <4> QED
        BY <1>2, <1>3, <2>1, <2>2, <3>2, <4>1 DEF Waiting
    <3>3. CASE j # at
      <4>1. buf'[Sinks[j]] = buf[Sinks[j]]
        BY <1>2, <2>1, <3>1, <3>3, SinksApart DEF Take, TypeOK
      <4> QED
        BY <1>3, <2>1, <2>2, <4>1 DEF Waiting
    <3> QED
      BY <3>2, <3>3
  <2> QED
    BY <2>3, <2>4
<1>7. ASSUME phase = "flush", NEW j \in 1..Len(Sinks), j < at', Sinks[j] \notin errs'
      PROVE  buf'[Sinks[j]] = <<>>
  <2>1. CASE buf[Sink] = <<>>
    <3>1. at' = at + 1 /\ buf' = buf
      BY <2>1 DEF Flush, Skip
    <3> QED
      BY <1>1, <1>2, <1>7, <2>1, <3>1 DEF FateInv
  <2>2. CASE buf[Sink] # <<>>
    <3>1. at' = at /\ buf' = [buf EXCEPT ![Sink] = <<>>]
      BY <2>2 DEF Flush, Take
    <3>2. buf[Sinks[j]] = <<>>
      BY <1>1, <1>7, <3>1 DEF FateInv
    <3>3. Sinks[j] \in Names
      BY SinksAssumption DEF Names, Range
    <3> QED
      BY <1>2, <3>1, <3>2, <3>3 DEF TypeOK
  <2> QED
    BY <2>1, <2>2
<1> QED
  BY <1>1, <1>4, <1>6, <1>7 DEF FateInv

LEMMA BackgroundEffect ==
    ASSUME TypeOK, CallInv, Background
    PROVE  \E z \in Exports \cap Names :
              /\ buf' = [buf EXCEPT ![z] = <<>>]
              /\ \A s \in Names, t \in Turns :
                    /\ landed[s][t] <= landed'[s][t] /\ counted'[s][t] = counted[s][t]
                    /\ doubts[s][t] \subseteq doubts'[s][t]
                    /\ s # z => landed'[s][t] = landed[s][t]
                    /\ \/ landed'[s][t] = landed[s][t]
                       \/ landed'[s][t] = landed[s][t] + Copies(buf[s], t)
              /\ \A t \in Range(buf[z]) :
                    landed'[z][t] > 0 \/ "dropped" \in doubts'[z][t]
<1>1. PICK z \in Exports \cap Names :
          /\ buf' = [buf EXCEPT ![z] = <<>>]
          /\ \/ /\ landed' = [landed EXCEPT ![z] = [t \in Turns |-> @[t] + Copies(buf[z], t)]]
                /\ UNCHANGED doubts
             \/ Doubt(z, Range(buf[z]), "dropped") /\ UNCHANGED landed
  BY DEF Background
<1>2. counted' = counted
  BY DEF Background
<1>3. \A t \in Turns : landed[z][t] \in Nat /\ Copies(buf[z], t) \in Nat
  BY CopiesAre DEF TypeOK
<1>4. buf[z] \in Seq(Turns)
  BY DEF TypeOK
<1>5. \A t \in Range(buf[z]) : t \in Turns /\ Copies(buf[z], t) > 0
  BY <1>4, CopiesAre DEF Range
<1>6. CASE landed' = [landed EXCEPT ![z] = [t \in Turns |-> landed[z][t] + Copies(buf[z], t)]]
           /\ UNCHANGED doubts
  <2>1. \A s \in Names : landed'[s] = IF s = z
                                      THEN [t \in Turns |-> landed[z][t] + Copies(buf[z], t)]
                                      ELSE landed[s]
    BY <1>6 DEF TypeOK
  <2>2. \A s \in Names, t \in Turns :
            landed'[s][t] = IF s = z THEN landed[z][t] + Copies(buf[z], t) ELSE landed[s][t]
    BY <2>1
  <2>3. \A s \in Names, t \in Turns : landed[s][t] \in Nat
    BY LandedIsNat
  <2>4. \A s \in Names, t \in Turns : landed[s][t] <= landed'[s][t]
    BY <1>3, <2>2, <2>3
  <2>5. \A t \in Range(buf[z]) : landed'[z][t] > 0
    BY <1>3, <1>5, <2>2
  <2>6. \A s \in Names, t \in Turns :
            /\ landed[s][t] <= landed'[s][t] /\ counted'[s][t] = counted[s][t]
            /\ doubts[s][t] \subseteq doubts'[s][t]
            /\ s # z => landed'[s][t] = landed[s][t]
            /\ \/ landed'[s][t] = landed[s][t]
               \/ landed'[s][t] = landed[s][t] + Copies(buf[s], t)
    BY <1>2, <1>6, <2>2, <2>4
  <2> QED
    BY <1>1, <2>5, <2>6
<1>7. CASE Doubt(z, Range(buf[z]), "dropped") /\ UNCHANGED landed
  <2>1. \A s \in Names, t \in Turns :
            /\ doubts[s][t] \subseteq doubts'[s][t]
            /\ s = z /\ t \in Range(buf[z]) => "dropped" \in doubts'[s][t]
    BY <1>7, DoubtGrows
  <2>2. \A s \in Names, t \in Turns : landed[s][t] <= landed'[s][t]
    BY <1>7 DEF TypeOK
  <2> QED
    BY <1>1, <1>2, <1>5, <1>7, <2>1, <2>2
<1> QED
  BY <1>1, <1>6, <1>7

LEMMA FateBackground ==
    ASSUME TypeOK, CallInv, FateInv, Background, TypeOK'
    PROVE  FateInv'
<1>1. UNCHANGED <<next, last, phase, at, errs, queue>>
  BY DEF Background, callVars, pushVars
<1>2. PICK z \in Names :
          /\ buf' = [buf EXCEPT ![z] = <<>>]
          /\ Grows
          /\ \A t \in Range(buf[z]) : landed'[z][t] > 0 \/ "dropped" \in doubts'[z][t]
  BY BackgroundEffect DEF Grows
<1>3. \A s \in Names, t \in Turns : Settled(s, t) => Settled(s, t)'
  BY <1>2, SettledStays
<1>4. \A t \in Range(buf[z]) : Settled(z, t)'
  BY <1>2 DEF Settled
<1>5. \A s \in Names : buf'[s] = IF s = z THEN <<>> ELSE buf[s]
  BY <1>2 DEF TypeOK
<1>6. AcceptedIsSettled' /\ NothingLeftBehind'
  BY <1>1, <1>3, <1>5 DEF FateInv, AcceptedIsSettled, NothingLeftBehind
<1>7. \A t \in next..last : t \in Turns
  BY SinksAssumption DEF TypeOK, Turns
<1>8. \A j \in 1..Len(Sinks) : Sinks[j] \in Names
  BY SinksAssumption DEF Names, Range
<1>9. ASSUME phase \in {"emit", "flush"}, NEW j \in 1..Len(Sinks), Reached(j)', Sinks[j] \notin errs',
             NEW t \in next..last
      PROVE  Settled(Sinks[j], t)' \/ Waiting(Sinks[j], t)'
  <2>1. Settled(Sinks[j], t) \/ Waiting(Sinks[j], t)
    BY <1>1, <1>9 DEF FateInv, Reached, Pushing
  <2> QED
    BY <1>1, <1>3, <1>4, <1>5, <1>7, <1>8, <2>1 DEF Waiting, Queued, Sink
<1>10. ASSUME phase = "flush", NEW j \in 1..Len(Sinks), j < at', Sinks[j] \notin errs'
       PROVE  buf'[Sinks[j]] = <<>>
  BY <1>1, <1>5, <1>8, <1>10 DEF FateInv
<1> QED
  BY <1>1, <1>6, <1>9, <1>10 DEF FateInv

\* Multi.each is through: every sink that returned no error holds the batch.
LEMMA AllReached ==
    ASSUME TypeOK, CallInv, FateInv, phase \in {"emit", "flush"}, EachDone,
           NEW s \in Names \ errs
    PROVE  /\ \A t \in next..last : Settled(s, t) \/ t \in Range(buf[s])
           /\ phase = "flush" => buf[s] = <<>>
<1>1. PICK j \in 1..Len(Sinks) : Sinks[j] = s
  BY SinksAssumption DEF Names, Range
<1>2. at = Len(Sinks) + 1 /\ queue = <<>> /\ Len(Sinks) \in Nat
  BY SinksAssumption DEF EachDone, Pushing
<1>3. j < at
  BY <1>1, <1>2
<1> QED
  BY <1>1, <1>2, <1>3 DEF FateInv, Reached, Waiting, Queued

LEMMA FateAccepted ==
    ASSUME TypeOK, CallInv, FateInv, Accepted, TypeOK'
    PROVE  FateInv'
<1>1. /\ phase = "flush" /\ EachDone /\ errs = {} /\ next' = last + 1 /\ phase' = "idle"
      /\ UNCHANGED farVars /\ UNCHANGED buf
  BY DEF Accepted
<1>2. \A s \in Names : buf[s] = <<>> /\ \A t \in next..last : Settled(s, t)
  BY <1>1, AllReached DEF Range
<1>3. \A s \in Names, t \in Turns : t < last + 1 => Settled(s, t)
  BY <1>2, SinksAssumption DEF FateInv, AcceptedIsSettled, TypeOK, Turns
<1>4. AcceptedIsSettled'
  BY <1>1, <1>3, SameSettled DEF AcceptedIsSettled
<1> QED
  BY <1>1, <1>2, <1>4 DEF FateInv, NothingLeftBehind

LEMMA FateStep == TypeOK /\ CallInv /\ FateInv /\ [Next]_vars => FateInv'
<1> SUFFICES ASSUME TypeOK, CallInv, FateInv, [Next]_vars
             PROVE  FateInv'
  OBVIOUS
<1> USE DEF callVars, pushVars
<1>1. TypeOK' /\ Len(Sinks) \in Nat
  BY TypeStep, SinksAssumption
<1>2. CASE Push
  BY <1>1, <1>2, FatePush
<1>3. CASE Emit
  BY <1>1, <1>3, FateEmit
<1>4. CASE EmitCancelled
  <2>1. /\ phase = "emit" /\ Calling /\ ~Pushing /\ at' = at + 1 /\ errs' = errs \cup {Sink}
        /\ UNCHANGED <<next, last, phase, buf, queue, attempt>> /\ UNCHANGED farVars
    BY <1>4 DEF EmitCancelled
  <2>2. at \in 1..Len(Sinks) /\ Sink = Sinks[at]
    BY <2>1, CallingNow
  <2>3. ASSUME NEW j \in 1..Len(Sinks), Reached(j)', Sinks[j] \notin errs', NEW t \in next..last
        PROVE  Settled(Sinks[j], t)' \/ Waiting(Sinks[j], t)'
    <3>1. j < at
      BY <2>1, <2>2, <2>3 DEF Reached, Pushing
    <3>2. Settled(Sinks[j], t) \/ Waiting(Sinks[j], t)
      BY <2>1, <2>3, <3>1 DEF FateInv, Reached
    <3> QED
      BY <2>1, <3>2, SameSettled DEF Waiting, Queued, Pushing
  <2> QED
    BY <2>1, <2>3, SameSettled DEF FateInv, AcceptedIsSettled, NothingLeftBehind
<1>5. CASE Flush
  BY <1>1, <1>5, FateFlush
<1>6. CASE EmitDone
  <2>1. /\ phase = "emit" /\ EachDone /\ errs = {} /\ phase' = "flush" /\ at' = 1
        /\ UNCHANGED <<next, last, errs, buf, queue>> /\ UNCHANGED farVars
    BY <1>6 DEF EmitDone
  <2>2. \A s \in Names : \A t \in next..last : Settled(s, t) \/ t \in Range(buf[s])
    BY <2>1, AllReached
  <2>3. \A j \in 1..Len(Sinks) : Sinks[j] \in Names
    BY SinksAssumption DEF Names, Range
  <2> QED
    BY <2>1, <2>2, <2>3, SameSettled
    DEF FateInv, AcceptedIsSettled, NothingLeftBehind, Waiting
<1>7. CASE Accepted
  BY <1>1, <1>7, FateAccepted
<1>8. CASE Refused
  BY <1>8, SameSettled DEF Refused, FateInv, AcceptedIsSettled, NothingLeftBehind
<1>9. CASE Close
  BY <1>9, SameSettled DEF Close, FateInv, AcceptedIsSettled, NothingLeftBehind
<1>10. CASE Begin
  <2>1. /\ phase = "idle" /\ phase' = "emit" /\ at' = 1 /\ queue' = <<>>
        /\ UNCHANGED <<next, buf, queue>> /\ UNCHANGED farVars
    BY <1>10 DEF Begin, CallInv, Pushing, Calling
  <2>2. \A j \in 1..Len(Sinks) : ~Reached(j)'
    BY <2>1 DEF Reached, Pushing
  <2> QED
    BY <2>1, <2>2, SameSettled DEF FateInv, AcceptedIsSettled, NothingLeftBehind
<1>11. CASE Cancel
  BY <1>11, SameSettled
  DEF Cancel, FateInv, AcceptedIsSettled, NothingLeftBehind, Reached, Waiting, Queued, Sink, Pushing
<1>12. CASE Drain
  BY <1>12, SameSettled DEF Drain, FateInv, AcceptedIsSettled, NothingLeftBehind
<1>13. CASE Background
  BY <1>1, <1>13, FateBackground
<1>14. CASE UNCHANGED vars
  BY <1>14, SameSettled
  DEF vars, farVars, FateInv, AcceptedIsSettled, NothingLeftBehind, Reached, Waiting, Queued, Sink,
      Pushing
<1> QED
  BY <1>2, <1>3, <1>4, <1>5, <1>6, <1>7, <1>8, <1>9, <1>10, <1>11, <1>12, <1>13, <1>14
  DEF Next, Work

-----------------------------------------------------------------------------
(* Halving and retrying repeat nothing while no call has failed.           *)

LandedOnce ==
    \A s \in Names, t \in Turns : "lost" \notin doubts[s][t] => landed[s][t] <= 1

\* What a sink has still to deliver is not at the far end yet, and it has it
\* once.
WaitingIsNew ==
    \A s \in Names, t \in Turns :
        Waiting(s, t) /\ "lost" \notin doubts[s][t] => landed[s][t] = 0

BuffersApart == \A s \in Names : IsInjective(buf[s])

QueueApart ==
    \A k, m \in 1..Len(queue) :
        \A i \in DOMAIN queue[k], l \in DOMAIN queue[m] :
            queue[k][i] = queue[m][l] => k = m /\ i = l

\* A sink has only what was accepted, and from the batch only once the call has
\* got to it.
OfferedInTurn ==
    \A j \in 1..Len(Sinks), t \in Turns :
        Waiting(Sinks[j], t) \/ landed[Sinks[j]][t] > 0 =>
            t < next \/ (t <= last /\ Reached(j))

OnceInv ==
    /\ phase \in {"emit", "flush"} => next <= last
    /\ failures = 0 =>
          LandedOnce /\ WaitingIsNew /\ BuffersApart /\ QueueApart /\ OfferedInTurn

LEMMA BatchOnce ==
    ASSUME TypeOK, CallInv, Answered, QueueApart
    PROVE  IsInjective(Batch) /\ \A t \in Range(Batch) : Queued(t)
<1>1. /\ queue[1] = Batch /\ 1 \in 1..Len(queue) /\ Len(queue) \in Nat \ {0}
      /\ Batch \in Seq(Turns)
  BY PushingNow DEF Batch
<1>2. IsInjective(Batch)
  BY <1>1 DEF QueueApart, IsInjective
<1> QED
  BY <1>1, <1>2 DEF Queued

\* A request puts nothing into the queue.
LEMMA QueueShrinks ==
    ASSUME TypeOK, CallInv, Push, QueueApart, NEW t, Queued(t)'
    PROVE  /\ Queued(t)
           /\ Delivered => t \notin Range(Batch)
<1>1. PICK k \in 1..Len(queue') : t \in Range(queue'[k])
  BY DEF Queued
<1>2. Answered /\ Batch \in Seq(Turns) /\ queue \in Seq(Seq(Turns)) /\ queue # <<>>
  BY PushEnds, PushingNow DEF TypeOK, Answered, Pushing
<1>3. /\ Len(queue) \in Nat /\ Len(queue) >= 1 /\ queue[1] = Batch
      /\ Len(Batch) \in Nat /\ DOMAIN Batch = 1..Len(Batch)
  BY <1>2 DEF Batch
<1>4. /\ Len(Tail(queue)) = Len(queue) - 1
      /\ \A n \in 1..(Len(queue) - 1) : Tail(queue)[n] = queue[n + 1]
  BY <1>2, HeadTailProperties
<1>5. Delivered => Len(queue') = Len(queue) - 1
  BY <1>4 DEF Delivered
<1>6. t \in Range(Batch) => Queued(t)
  BY <1>3 DEF Queued
<1>7. CASE Delivered
  <2>1. /\ k + 1 \in 1..Len(queue) /\ k + 1 # 1
        /\ queue'[k] = queue[k + 1]
    BY <1>3, <1>4, <1>5, <1>7 DEF Delivered
  <2>2. Queued(t)
    BY <1>1, <2>1 DEF Queued
  <2>3. t \notin Range(Batch)
    <3> SUFFICES ASSUME NEW i \in DOMAIN Batch, Batch[i] = t
                 PROVE  FALSE
      BY DEF Range
    <3>1. PICK l \in DOMAIN queue[k + 1] : queue[k + 1][l] = t
      BY <1>1, <2>1 DEF Range
    <3>2. 1 \in 1..Len(queue) /\ i \in DOMAIN queue[1] /\ queue[1][i] = queue[k + 1][l]
      BY <1>3, <3>1
    <3> QED
      BY <2>1, <3>2 DEF QueueApart
  <2> QED
    BY <2>2, <2>3
<1>8. CASE PushFails
  BY <1>1, <1>8 DEF PushFails
<1>9. CASE Retry
  <2>1. queue' = queue
    BY <1>9 DEF Retry
  <2>2. ~Delivered
    BY <1>3, <1>5, <2>1
  <2> QED
    BY <1>1, <2>1, <2>2 DEF Queued
<1>10. CASE Halve
  <2>1. PICK mid \in 1..(Len(Batch) - 1) :
            /\ queue'[1] = SubSeq(Batch, 1, mid)
            /\ queue'[2] = SubSeq(Batch, mid + 1, Len(Batch))
    BY <1>10, HalvesHold
  <2>2. Len(queue') = Len(queue) + 1 /\ \A n \in 2..Len(queue) : queue'[n + 1] = queue[n]
    BY <1>10, HalvesHold
  <2>3. ~Delivered
    BY <1>3, <1>5, <2>2
  <2>4. /\ DOMAIN queue'[1] = 1..mid /\ \A i \in 1..mid : queue'[1][i] = Batch[i]
        /\ DOMAIN queue'[2] = 1..(Len(Batch) - mid)
        /\ \A i \in 1..(Len(Batch) - mid) : queue'[2][i] = Batch[mid + i]
    BY <1>2, <2>1, HalvesAre
  <2>5. CASE k = 1
    <3>1. PICK i \in 1..mid : queue'[1][i] = t
      BY <1>1, <2>4, <2>5 DEF Range
    <3>2. i \in DOMAIN Batch /\ Batch[i] = t
      BY <1>3, <2>1, <2>4, <3>1
    <3> QED
      BY <1>6, <2>3, <3>2 DEF Range
  <2>6. CASE k = 2
    <3>1. PICK i \in 1..(Len(Batch) - mid) : queue'[2][i] = t
      BY <1>1, <2>4, <2>6 DEF Range
    <3>2. mid + i \in DOMAIN Batch /\ Batch[mid + i] = t
      BY <1>3, <2>1, <2>4, <3>1
    <3> QED
      BY <1>6, <2>3, <3>2 DEF Range
  <2>7. CASE k > 2
    <3>1. k - 1 \in 1..Len(queue) /\ queue'[k] = queue[k - 1]
      BY <1>1, <1>3, <2>2, <2>7
    <3> QED
      BY <1>1, <2>3, <3>1 DEF Queued
  <2> QED
    BY <2>5, <2>6, <2>7
<1> QED
  BY <1>7, <1>8, <1>9, <1>10, PushEnds

LEMMA HalvesApart ==
    ASSUME TypeOK, CallInv, Halve, QueueApart
    PROVE  QueueApart'
<1>1. PICK mid \in 1..(Len(Batch) - 1) :
          /\ queue'[1] = SubSeq(Batch, 1, mid)
          /\ queue'[2] = SubSeq(Batch, mid + 1, Len(Batch))
  BY HalvesHold
<1>2. /\ Len(queue) \in Nat \ {0} /\ Len(queue') = Len(queue) + 1 /\ queue[1] = Batch
      /\ \A n \in 2..Len(queue) : queue'[n + 1] = queue[n]
  BY HalvesHold
<1>a. Batch \in Seq(Turns)
  BY PushEnds, PushingNow DEF Push
<1>3. Len(Batch) \in Nat /\ DOMAIN Batch = 1..Len(Batch)
  BY <1>a
<1>0. /\ DOMAIN queue'[1] = 1..mid /\ \A i \in 1..mid : queue'[1][i] = Batch[i]
      /\ DOMAIN queue'[2] = 1..(Len(Batch) - mid)
      /\ \A i \in 1..(Len(Batch) - mid) : queue'[2][i] = Batch[mid + i]
  BY <1>1, <1>a, HalvesAre
<1> DEFINE Q(k) == IF k <= 2 THEN 1 ELSE k - 1
           I(k, i) == IF k = 2 THEN mid + i ELSE i
<1>4. ASSUME NEW k \in 1..Len(queue'), NEW i \in DOMAIN queue'[k]
      PROVE  /\ Q(k) \in 1..Len(queue) /\ I(k, i) \in DOMAIN queue[Q(k)]
             /\ queue'[k][i] = queue[Q(k)][I(k, i)]
             /\ k = 1 => i \in 1..mid
             /\ k = 2 => i \in 1..(Len(Batch) - mid)
  <2>1. CASE k = 1
    BY <1>0, <1>2, <1>3, <1>4, <2>1
  <2>2. CASE k = 2
    <3>1. i \in 1..(Len(Batch) - mid) /\ queue'[2][i] = Batch[mid + i]
      BY <1>0, <1>4, <2>2
    <3> QED
      BY <1>2, <1>3, <2>2, <3>1
  <2>3. CASE k > 2
    <3>1. k - 1 \in 2..Len(queue) /\ queue'[k] = queue[k - 1]
      BY <1>2, <2>3
    <3> QED
      BY <1>4, <2>3, <3>1
  <2> QED
    BY <2>1, <2>2, <2>3
<1>5. SUFFICES ASSUME NEW k \in 1..Len(queue'), NEW m \in 1..Len(queue'),
                      NEW i \in DOMAIN queue'[k], NEW l \in DOMAIN queue'[m],
                      queue'[k][i] = queue'[m][l]
               PROVE  k = m /\ i = l
  BY DEF QueueApart
<1>6. Q(k) = Q(m) /\ I(k, i) = I(m, l)
  <2> HIDE DEF Q, I
  <2>1. /\ Q(k) \in 1..Len(queue) /\ I(k, i) \in DOMAIN queue[Q(k)]
        /\ Q(m) \in 1..Len(queue) /\ I(m, l) \in DOMAIN queue[Q(m)]
        /\ queue[Q(k)][I(k, i)] = queue[Q(m)][I(m, l)]
    BY <1>4, <1>5
  <2> QED
    BY <2>1 DEF QueueApart
<1>7. /\ k = 1 => i \in 1..mid
      /\ k = 2 => i \in 1..(Len(Batch) - mid)
      /\ m = 1 => l \in 1..mid
      /\ m = 2 => l \in 1..(Len(Batch) - mid)
  <2> HIDE DEF Q, I
  <2> QED
    BY <1>4
<1> QED
  BY <1>1, <1>2, <1>3, <1>6, <1>7, SMTT(30)

LEMMA PushApart ==
    ASSUME TypeOK, CallInv, Push, QueueApart
    PROVE  QueueApart'
<1>1. Answered /\ queue \in Seq(Seq(Turns)) /\ queue # <<>>
  BY PushEnds DEF Answered, Pushing, TypeOK
<1>2. /\ Len(queue) \in Nat /\ Len(Tail(queue)) = Len(queue) - 1
      /\ \A n \in 1..(Len(queue) - 1) : Tail(queue)[n] = queue[n + 1]
  BY <1>1, HeadTailProperties
<1>3. CASE Delivered
  <2>1. queue' = Tail(queue)
    BY <1>3 DEF Delivered
  <2> SUFFICES ASSUME NEW k \in 1..Len(queue'), NEW m \in 1..Len(queue'),
                      NEW i \in DOMAIN queue'[k], NEW l \in DOMAIN queue'[m],
                      queue'[k][i] = queue'[m][l]
               PROVE  k = m /\ i = l
    BY DEF QueueApart
  <2>2. /\ k + 1 \in 1..Len(queue) /\ queue'[k] = queue[k + 1]
        /\ m + 1 \in 1..Len(queue) /\ queue'[m] = queue[m + 1]
    BY <1>2, <2>1
  <2>3. k + 1 = m + 1 /\ i = l
    BY <2>2 DEF QueueApart
  <2> QED
    BY <1>2, <2>1, <2>3
<1>4. CASE PushFails
  BY <1>4 DEF PushFails, QueueApart
<1>5. CASE Retry
  BY <1>5 DEF Retry, QueueApart
<1>6. CASE Halve
  BY <1>6, HalvesApart
<1> QED
  BY <1>3, <1>4, <1>5, <1>6, PushEnds

LEMMA PushGoesOn ==
    ASSUME TypeOK, CallInv, Push
    PROVE  at' = at + 1 \/ (at' = at /\ Pushing')
<1>1. Answered /\ queue \in Seq(Seq(Turns)) /\ queue # <<>>
  BY PushEnds DEF Answered, Pushing, TypeOK
<1>2. Len(queue) \in Nat /\ Len(queue) >= 1 /\ Len(Tail(queue)) = Len(queue) - 1
  BY <1>1, HeadTailProperties
<1>3. CASE Delivered
  <2>1. Len(queue) # 1 => Len(queue') # 0
    BY <1>2, <1>3 DEF Delivered
  <2>2. Len(<<>>) = 0
    OBVIOUS
  <2> QED
    BY <1>3, <2>1, <2>2 DEF Delivered, Pushing
<1>4. CASE PushFails
  BY <1>4 DEF PushFails
<1>5. CASE Retry
  BY <1>1, <1>5 DEF Retry, Pushing
<1>6. CASE Halve
  <2>1. Len(queue') = Len(queue) + 1 /\ at' = at
    BY <1>6, HalvesHold DEF Halve
  <2> QED
    BY <1>2, <2>1 DEF Pushing
<1> QED
  BY <1>3, <1>4, <1>5, <1>6, PushEnds

LEMMA OncePush ==
    ASSUME TypeOK, CallInv, OnceInv, Push, TypeOK'
    PROVE  OnceInv'
<1>1. /\ Answered /\ Pushing /\ buf[Sink] = <<>> /\ Batch \in Seq(Turns)
      /\ UNCHANGED <<next, last, phase, failures, buf>>
      /\ at \in 1..Len(Sinks) /\ Sink = Sinks[at] /\ Sink \in Names
  BY PushEnds, PushingNow DEF Answered, CallInv
<1>2. SUFFICES ASSUME failures = 0
               PROVE  (LandedOnce /\ WaitingIsNew /\ BuffersApart /\ QueueApart /\ OfferedInTurn)'
  BY <1>1 DEF OnceInv
<1>3. LandedOnce /\ WaitingIsNew /\ BuffersApart /\ QueueApart /\ OfferedInTurn
  BY <1>2 DEF OnceInv
<1>4. \A t \in Range(Batch) : t \in Turns /\ Queued(t) /\ Copies(Batch, t) \in Nat /\ Copies(Batch, t) <= 1
  <2>1. IsInjective(Batch) /\ \A t \in Range(Batch) : Queued(t)
    BY <1>1, <1>3, BatchOnce
  <2> QED
    BY <1>1, <2>1, CopiesAre DEF Range
<1>5. \A s \in Names, t \in Turns :
          /\ doubts[s][t] \subseteq doubts'[s][t]
          /\ landed[s][t] \in Nat
          /\ \/ landed'[s][t] = landed[s][t]
             \/ /\ s = Sink /\ t \in Range(Batch)
                /\ landed'[s][t] = landed[s][t] + Copies(Batch, t)
  <2>1. \A s \in Names, t \in Turns : landed[s][t] \in Nat
    BY LandedIsNat
  <2>2. \A s \in Names, t \in Turns : doubts[s][t] \subseteq doubts'[s][t]
    BY PushEffect DEF Grows
  <2> QED
    BY <2>1, <2>2, PushEffect
<1>6. LandedOnce'
  <2> SUFFICES ASSUME NEW s \in Names, NEW t \in Turns, "lost" \notin doubts'[s][t]
               PROVE  landed'[s][t] <= 1
    BY DEF LandedOnce
  <2>1. CASE landed'[s][t] = landed[s][t]
    BY <1>3, <1>5, <2>1 DEF LandedOnce
  <2>2. CASE s = Sink /\ t \in Range(Batch) /\ landed'[s][t] = landed[s][t] + Copies(Batch, t)
    <3>1. landed[s][t] = 0
      BY <1>3, <1>4, <1>5, <2>2 DEF WaitingIsNew, Waiting
    <3> QED
      BY <1>4, <2>2, <3>1
  <2> QED
    BY <1>5, <2>1, <2>2
<1>7. \A t : Queued(t)' => Queued(t) /\ at' = at
  <2>1. \A t : Queued(t)' => Queued(t) /\ queue' # <<>>
    BY <1>3, QueueShrinks DEF Queued
  <2> QED
    BY <2>1, PushAt
<1>8. \A s, t : Waiting(s, t)' => Waiting(s, t)
  BY <1>1, <1>7 DEF Waiting, Sink
<1>9. WaitingIsNew'
  <2> SUFFICES ASSUME NEW s \in Names, NEW t \in Turns, "lost" \notin doubts'[s][t], Waiting(s, t)'
               PROVE  landed'[s][t] = 0
    BY DEF WaitingIsNew
  <2>1. landed[s][t] = 0
    BY <1>3, <1>5, <1>8 DEF WaitingIsNew
  <2>2. ASSUME s = Sink, t \in Range(Batch), landed'[s][t] # landed[s][t]
        PROVE  FALSE
    <3>1. Queued(t)'
      BY <1>1, <2>2 DEF Waiting, Range
    <3>2. Queued(t) /\ (Delivered => t \notin Range(Batch)) /\ queue' # <<>>
      BY <1>3, <3>1, QueueShrinks DEF Queued
    <3>3. ~PushFails
      BY <3>2 DEF PushFails
    <3> QED
      BY <2>2, <3>2, <3>3, PushEffect
  <2> QED
    BY <1>5, <2>1, <2>2
<1>10. BuffersApart' /\ QueueApart'
  BY <1>1, <1>3, PushApart DEF BuffersApart
<1>11. \A j \in 1..Len(Sinks) : Reached(j) => Reached(j)'
  BY <1>1, PushGoesOn DEF Reached
<1>12. OfferedInTurn'
  <2> SUFFICES ASSUME NEW j \in 1..Len(Sinks), NEW t \in Turns,
                      Waiting(Sinks[j], t)' \/ landed'[Sinks[j]][t] > 0
               PROVE  t < next \/ (t <= last /\ Reached(j)')
    BY <1>1 DEF OfferedInTurn
  <2>1. Waiting(Sinks[j], t) \/ landed[Sinks[j]][t] > 0
    <3>1. Sinks[j] \in Names
      BY SinksAssumption DEF Names, Range
    <3> QED
      BY <1>4, <1>5, <1>8, <3>1 DEF Waiting
  <2> QED
    BY <1>3, <1>11, <2>1 DEF OfferedInTurn
<1> QED
  BY <1>6, <1>9, <1>10, <1>12

\* The lines of an Emit are those the buffer held, all of turns accepted
\* before, and each turn of the batch at most once.
LEMMA LinesApart ==
    ASSUME TypeOK, CallInv, Calling, NEW old \in SUBSET (next..last), IsInjective(buf[Sink]),
           \A t \in Range(buf[Sink]) : t < next
    PROVE  IsInjective(Lines(old))
<1> DEFINE b == buf[Sink]
           q == InOrder((next..last) \ old)
<1>1. (next..last) \ old \in SUBSET Turns
  BY LinesType
<1>2. b \in Seq(Turns) /\ q \in Seq(Turns) /\ IsInjective(q) /\ Range(q) = (next..last) \ old
  BY <1>1, InOrderIs, CallingNow
<1>3. IsInjective(b) /\ \A t \in Range(b) : t < next
  OBVIOUS
<1>4. Lines(old) = b \o q
  BY DEF Lines
<1> HIDE DEF b, q
<1>5. /\ Len(b) \in Nat /\ Len(q) \in Nat /\ DOMAIN b = 1..Len(b) /\ DOMAIN q = 1..Len(q)
      /\ DOMAIN Lines(old) = 1..(Len(b) + Len(q))
      /\ \A i \in 1..(Len(b) + Len(q)) :
            Lines(old)[i] = IF i <= Len(b) THEN b[i] ELSE q[i - Len(b)]
  <2>1. /\ b \o q \in Seq(Turns) /\ Len(b \o q) = Len(b) + Len(q)
        /\ \A i \in 1..(Len(b) + Len(q)) : (b \o q)[i] = IF i <= Len(b) THEN b[i] ELSE q[i - Len(b)]
    BY <1>2, ConcatProperties
  <2> QED
    BY <1>2, <1>4, <2>1
<1>6. /\ \A i \in 1..Len(b) : b[i] < next
      /\ \A i \in 1..Len(q) : q[i] >= next /\ q[i] \in Int
  <2>1. /\ \A i \in 1..Len(b) : b[i] \in Range(b)
        /\ \A i \in 1..Len(q) : q[i] \in Range(q)
    BY <1>5 DEF Range
  <2> QED
    BY <1>2, <1>3, <2>1
<1>7. next \in Int /\ \A i \in 1..Len(b) : b[i] \in Int
  <2>1. \A i \in 1..Len(b) : b[i] \in Turns
    BY <1>2
  <2> QED
    BY <2>1, SinksAssumption DEF Turns, TypeOK
<1> SUFFICES ASSUME NEW i \in 1..(Len(b) + Len(q)), NEW j \in 1..(Len(b) + Len(q)),
                    Lines(old)[i] = Lines(old)[j]
             PROVE  i = j
  BY <1>5 DEF IsInjective
<1>8. CASE i <= Len(b) /\ j <= Len(b)
  BY <1>3, <1>5, <1>8 DEF IsInjective
<1>9. CASE i > Len(b) /\ j > Len(b)
  <2>1. /\ i - Len(b) \in 1..Len(q) /\ j - Len(b) \in 1..Len(q)
        /\ q[i - Len(b)] = q[j - Len(b)]
    BY <1>5, <1>9
  <2>2. i - Len(b) = j - Len(b)
    BY <1>2, <1>5, <2>1 DEF IsInjective
  <2> QED
    BY <1>5, <2>2
<1>10. CASE i <= Len(b) /\ j > Len(b)
  <2>1. i \in 1..Len(b) /\ j - Len(b) \in 1..Len(q) /\ b[i] = q[j - Len(b)]
    BY <1>5, <1>10
  <2> QED
    BY <1>6, <1>7, <2>1
<1>11. CASE i > Len(b) /\ j <= Len(b)
  <2>1. j \in 1..Len(b) /\ i - Len(b) \in 1..Len(q) /\ b[j] = q[i - Len(b)]
    BY <1>5, <1>11
  <2>2. b[j] < next /\ q[i - Len(b)] >= next
    BY <1>6, <2>1
  <2> QED
    BY <1>7, <2>1, <2>2
<1> QED
  BY <1>5, <1>8, <1>9, <1>10, <1>11

LEMMA OneBatchApart ==
    ASSUME NEW lines, queue' = <<lines>>, IsInjective(lines)
    PROVE  QueueApart'
<1>1. Len(queue') = 1 /\ queue'[1] = lines
  OBVIOUS
<1> QED
  BY <1>1 DEF QueueApart, IsInjective

LEMMA OnceEmit ==
    ASSUME TypeOK, CallInv, OnceInv, Emit, TypeOK'
    PROVE  OnceInv'
<1>1. /\ phase = "emit" /\ Calling /\ ~Pushing /\ queue = <<>>
      /\ UNCHANGED <<next, last, phase, failures, landed, doubts>>
  BY EmitIs DEF Pushing
<1>2. PICK old \in SUBSET (next..last) : Take(Sink, Lines(old)) \/ Keep(Sink, Lines(old))
  BY EmitIs
<1>3. /\ at \in 1..Len(Sinks) /\ Sink = Sinks[at] /\ Sink \in Names /\ Len(Sinks) \in Nat
      /\ buf[Sink] \in Seq(Turns)
  BY <1>1, CallingNow
<1>4. SUFFICES ASSUME failures = 0
               PROVE  (LandedOnce /\ WaitingIsNew /\ BuffersApart /\ QueueApart /\ OfferedInTurn)'
  BY <1>1 DEF OnceInv
<1>5. LandedOnce /\ WaitingIsNew /\ BuffersApart /\ QueueApart /\ OfferedInTurn
  BY <1>4 DEF OnceInv
<1>6. \A t \in Turns : t \in Range(buf[Sink]) \/ landed[Sink][t] > 0 => t < next
  BY <1>1, <1>3, <1>5 DEF OfferedInTurn, Reached, Waiting
<1>7. IsInjective(Lines(old))
  <2>1. \A t \in Range(buf[Sink]) : t < next
    BY <1>3, <1>6 DEF Range
  <2> QED
    BY <1>1, <1>3, <1>5, <2>1, LinesApart DEF BuffersApart
<1>8. /\ \A t \in Range(Lines(old)) : t \in Range(buf[Sink]) \/ t \in next..last
      /\ Range(Lines(old)) \in SUBSET Turns
  BY <1>1, LinesType DEF Range
<1>9. /\ \A s \in Names : s # Sink => buf'[s] = buf[s]
      /\ \/ buf'[Sink] = <<>> /\ queue' = <<Lines(old)>> /\ at' = at
         \/ buf'[Sink] = Lines(old) /\ queue' = <<>> /\ at' = at + 1
  BY <1>1, <1>2, <1>3 DEF Take, Keep, Skip, TypeOK
<1>10. \A s \in Names : \A t : Waiting(s, t)' =>
           Waiting(s, t) \/ (s = Sink /\ t \in Range(Lines(old)))
  <2> SUFFICES ASSUME NEW s \in Names, NEW t, Waiting(s, t)'
               PROVE  Waiting(s, t) \/ (s = Sink /\ t \in Range(Lines(old)))
    OBVIOUS
  <2>1. CASE t \in Range(buf'[s])
    BY <1>9, <2>1 DEF Waiting, Range
  <2>2. CASE s = Sink' /\ Queued(t)'
    <3>1. queue' = <<Lines(old)>> /\ at' = at
      BY <1>9, <2>2 DEF Queued
    <3> QED
      BY <2>2, <3>1, QueueOfOne DEF Sink
  <2> QED
    BY <2>1, <2>2 DEF Waiting
<1>11. next \in Int /\ \A s \in Names, t \in Turns : landed[s][t] \in Nat
  BY SinksAssumption DEF TypeOK
<1>12. WaitingIsNew'
  <2> SUFFICES ASSUME NEW s \in Names, NEW t \in Turns, "lost" \notin doubts[s][t], Waiting(s, t)'
               PROVE  landed[s][t] = 0
    BY <1>1 DEF WaitingIsNew
  <2>1. CASE Waiting(s, t)
    BY <1>5, <2>1 DEF WaitingIsNew
  <2>2. CASE s = Sink /\ t \in next..last
    <3>1. ~(t < next) /\ landed[s][t] \in Nat
      BY <1>11, <2>2
    <3> QED
      BY <1>6, <2>2, <3>1
  <2> QED
    BY <1>8, <1>10, <2>1, <2>2 DEF Waiting
<1>13. BuffersApart'
  BY <1>5, <1>7, <1>9 DEF BuffersApart, IsInjective
<1>14. QueueApart'
  BY <1>7, <1>9, OneBatchApart DEF QueueApart
<1>15. OfferedInTurn'
  <2> SUFFICES ASSUME NEW j \in 1..Len(Sinks), NEW t \in Turns,
                      Waiting(Sinks[j], t)' \/ landed[Sinks[j]][t] > 0
               PROVE  t < next \/ (t <= last /\ Reached(j)')
    BY <1>1 DEF OfferedInTurn
  <2>1. Sinks[j] \in Names
    BY SinksAssumption DEF Names, Range
  <2>2. CASE Waiting(Sinks[j], t) \/ landed[Sinks[j]][t] > 0
    <3>1. t < next \/ (t <= last /\ Reached(j))
      BY <1>5, <2>2 DEF OfferedInTurn
    <3>2. Reached(j) => Reached(j)'
      BY <1>1, <1>3, <1>9 DEF Reached
    <3> QED
      BY <3>1, <3>2
  <2>3. CASE Sinks[j] = Sink /\ t \in Range(Lines(old))
    <3>1. j = at
      BY <1>3, <2>3, SinksApart
    <3>2. Reached(j)'
      <4>1. j < at' \/ (j = at' /\ queue' # <<>>)
        <5>1. <<Lines(old)>> # <<>>
          OBVIOUS
        <5>2. CASE queue' = <<Lines(old)>> /\ at' = at
          BY <3>1, <5>1, <5>2
        <5>3. CASE at' = at + 1
          BY <1>3, <3>1, <5>3
        <5> QED
          BY <1>9, <5>2, <5>3
      <4> QED
        BY <4>1 DEF Reached, Pushing
    <3>3. t < next \/ t <= last
      BY <1>6, <1>8, <2>3
    <3> QED
      BY <3>2, <3>3
  <2> QED
    BY <1>10, <2>1, <2>2, <2>3
<1> QED
  BY <1>1, <1>5, <1>12, <1>13, <1>14, <1>15 DEF LandedOnce

LEMMA OnceFlush ==
    ASSUME TypeOK, CallInv, OnceInv, Flush, TypeOK'
    PROVE  OnceInv'
<1>1. /\ phase \in {"flush", "drain"} /\ Calling /\ ~Pushing /\ queue = <<>>
      /\ UNCHANGED <<next, last, phase, failures, landed, doubts>>
  BY DEF Flush, farVars, Pushing
<1>2. /\ at \in 1..Len(Sinks) /\ Sink = Sinks[at] /\ Sink \in Names /\ Len(Sinks) \in Nat
      /\ buf[Sink] \in Seq(Turns)
  BY <1>1, CallingNow
<1>3. SUFFICES ASSUME failures = 0
               PROVE  (LandedOnce /\ WaitingIsNew /\ BuffersApart /\ QueueApart /\ OfferedInTurn)'
  BY <1>1 DEF OnceInv
<1>4. LandedOnce /\ WaitingIsNew /\ BuffersApart /\ QueueApart /\ OfferedInTurn
  BY <1>3 DEF OnceInv
<1>5. /\ \A s \in Names : buf'[s] = buf[s] \/ (s = Sink /\ buf'[s] = <<>>)
      /\ \/ queue' = <<>> /\ at' = at + 1
         \/ queue' = <<buf[Sink]>> /\ at' = at
  BY <1>1, <1>2 DEF Flush, Take, Skip, TypeOK
<1>6. \A s \in Names : \A t : Waiting(s, t)' => Waiting(s, t)
  <2> SUFFICES ASSUME NEW s \in Names, NEW t, Waiting(s, t)'
               PROVE  Waiting(s, t)
    OBVIOUS
  <2>1. CASE t \in Range(buf'[s])
    BY <1>5, <2>1 DEF Waiting, Range
  <2>2. CASE s = Sink' /\ Queued(t)'
    <3>1. queue' = <<buf[Sink]>> /\ at' = at
      BY <1>5, <2>2 DEF Queued
    <3> QED
      BY <2>2, <3>1, QueueOfOne DEF Sink, Waiting
  <2> QED
    BY <2>1, <2>2 DEF Waiting
<1>7. BuffersApart'
  BY <1>4, <1>5 DEF BuffersApart, IsInjective
<1>8. QueueApart'
  BY <1>2, <1>4, <1>5, OneBatchApart DEF QueueApart, BuffersApart
<1>9. WaitingIsNew'
  BY <1>1, <1>4, <1>6 DEF WaitingIsNew
<1>10. \A j \in 1..Len(Sinks) : Reached(j) => Reached(j)'
  BY <1>1, <1>2, <1>5 DEF Reached
<1>11. \A j \in 1..Len(Sinks) : Sinks[j] \in Names
  BY SinksAssumption DEF Names, Range
<1>12. OfferedInTurn'
  BY <1>1, <1>4, <1>6, <1>10, <1>11 DEF OfferedInTurn
<1> QED
  BY <1>1, <1>4, <1>7, <1>8, <1>9, <1>12 DEF LandedOnce

LEMMA OnceBackground ==
    ASSUME TypeOK, CallInv, OnceInv, Background, TypeOK'
    PROVE  OnceInv'
<1>1. UNCHANGED <<next, last, phase, at, failures, queue>>
  BY DEF Background, callVars, pushVars
<1>2. PICK z \in Names :
          /\ buf' = [buf EXCEPT ![z] = <<>>]
          /\ \A s \in Names, t \in Turns :
                /\ doubts[s][t] \subseteq doubts'[s][t]
                /\ s # z => landed'[s][t] = landed[s][t]
                /\ \/ landed'[s][t] = landed[s][t]
                   \/ landed'[s][t] = landed[s][t] + Copies(buf[s], t)
  BY BackgroundEffect
<1>3. SUFFICES ASSUME failures = 0
               PROVE  (LandedOnce /\ WaitingIsNew /\ BuffersApart /\ QueueApart /\ OfferedInTurn)'
  BY <1>1 DEF OnceInv
<1>4. LandedOnce /\ WaitingIsNew /\ BuffersApart /\ QueueApart /\ OfferedInTurn
  BY <1>3 DEF OnceInv
<1>5. \A s \in Names : buf[s] \in Seq(Turns) /\ buf'[s] = IF s = z THEN <<>> ELSE buf[s]
  BY <1>2 DEF TypeOK
<1>6. \A s \in Names, t \in Turns : landed[s][t] \in Nat
  BY LandedIsNat
<1>7. \A s \in Names, t \in Turns :
          \/ landed'[s][t] = landed[s][t]
          \/ /\ s = z /\ t \in Range(buf[s])
             /\ landed'[s][t] = landed[s][t] + 1
  <2> SUFFICES ASSUME NEW s \in Names, NEW t \in Turns, landed'[s][t] # landed[s][t]
               PROVE  s = z /\ t \in Range(buf[s]) /\ landed'[s][t] = landed[s][t] + 1
    OBVIOUS
  <2>1. s = z /\ landed'[s][t] = landed[s][t] + Copies(buf[s], t)
    BY <1>2
  <2>2. Copies(buf[s], t) \in Nat /\ Copies(buf[s], t) <= 1
        /\ (t \in Range(buf[s]) <=> Copies(buf[s], t) > 0)
    BY <1>4, <1>5, CopiesAre DEF BuffersApart
  <2> QED
    BY <1>6, <2>1, <2>2
<1>8. \A s \in Names : \A t : Waiting(s, t)' => Waiting(s, t)
  BY <1>1, <1>5 DEF Waiting, Queued, Sink, Range
<1>9. LandedOnce'
  <2> SUFFICES ASSUME NEW s \in Names, NEW t \in Turns, "lost" \notin doubts'[s][t]
               PROVE  landed'[s][t] <= 1
    BY DEF LandedOnce
  <2>1. "lost" \notin doubts[s][t]
    BY <1>2
  <2>2. CASE landed'[s][t] = landed[s][t]
    BY <1>4, <2>1, <2>2 DEF LandedOnce
  <2>3. CASE t \in Range(buf[s]) /\ landed'[s][t] = landed[s][t] + 1
    <3>1. landed[s][t] = 0
      BY <1>4, <2>1, <2>3 DEF WaitingIsNew, Waiting
    <3> QED
      BY <2>3, <3>1
  <2> QED
    BY <1>7, <2>2, <2>3
<1>10. WaitingIsNew'
  <2> SUFFICES ASSUME NEW s \in Names, NEW t \in Turns, "lost" \notin doubts'[s][t], Waiting(s, t)'
               PROVE  landed'[s][t] = 0
    BY DEF WaitingIsNew
  <2>1. landed[s][t] = 0
    BY <1>2, <1>4, <1>8 DEF WaitingIsNew
  <2>2. ASSUME s = z, t \in Range(buf[s])
        PROVE  FALSE
    <3>1. Pushing /\ s = Sink
      BY <1>1, <1>5, <2>2 DEF Waiting, Queued, Pushing, Sink, Range
    <3> QED
      BY <2>2, <3>1 DEF CallInv, Range
  <2> QED
    BY <1>7, <2>1, <2>2
<1>11. BuffersApart' /\ QueueApart'
  BY <1>1, <1>4, <1>5 DEF BuffersApart, QueueApart, IsInjective
<1>12. OfferedInTurn'
  <2> SUFFICES ASSUME NEW j \in 1..Len(Sinks), NEW t \in Turns,
                      Waiting(Sinks[j], t)' \/ landed'[Sinks[j]][t] > 0
               PROVE  t < next \/ (t <= last /\ Reached(j))
    BY <1>1 DEF OfferedInTurn, Reached, Pushing
  <2>1. Sinks[j] \in Names
    BY SinksAssumption DEF Names, Range
  <2>2. Waiting(Sinks[j], t) \/ landed[Sinks[j]][t] > 0
    BY <1>7, <1>8, <2>1 DEF Waiting
  <2> QED
    BY <1>4, <2>2 DEF OfferedInTurn
<1> QED
  BY <1>9, <1>10, <1>11, <1>12

LEMMA SameOnce ==
    ASSUME UNCHANGED <<next, last, phase, at, failures, buf, queue, landed, doubts>>, OnceInv
    PROVE  OnceInv'
<1>1. \A s, t : Waiting(s, t)' <=> Waiting(s, t)
  BY DEF Waiting, Queued, Sink
<1>2. WaitingIsNew => WaitingIsNew'
  BY <1>1 DEF WaitingIsNew
<1>3. (LandedOnce => LandedOnce') /\ (BuffersApart => BuffersApart') /\ (QueueApart => QueueApart')
  BY DEF LandedOnce, BuffersApart, QueueApart
<1>4. \A j : Reached(j)' <=> Reached(j)
  BY DEF Reached, Pushing
<1>5. OfferedInTurn => OfferedInTurn'
  BY <1>1, <1>4 DEF OfferedInTurn
<1> QED
  BY <1>2, <1>3, <1>5 DEF OnceInv

LEMMA OnceStep == TypeOK /\ CallInv /\ OnceInv /\ [Next]_vars => OnceInv'
<1> SUFFICES ASSUME TypeOK, CallInv, OnceInv, [Next]_vars
             PROVE  OnceInv'
  OBVIOUS
<1> USE DEF callVars, pushVars, farVars
<1> DEFINE Same == /\ UNCHANGED <<buf, landed, doubts>> /\ queue = <<>> /\ queue' = <<>>
                   /\ failures' = failures
                   /\ \A j \in 1..Len(Sinks), t \in Turns :
                         t < next \/ (t <= last /\ Reached(j)) =>
                             t < next' \/ (t <= last' /\ Reached(j)')
                   /\ phase' \in {"emit", "flush"} => next' <= last'
<1>1. TypeOK' /\ Len(Sinks) \in Nat /\ next \in Nat /\ last \in Nat
      /\ \A t \in Turns : t \in Nat /\ t >= 1
  <2>1. TypeOK'
    BY TypeStep
  <2>2. Len(Sinks) \in Nat /\ MaxTurns \in Nat
    BY SinksAssumption
  <2>3. next \in Nat /\ last \in Nat
    BY <2>2 DEF TypeOK
  <2> QED
    BY <2>1, <2>2, <2>3 DEF Turns
<1>2. Same => OnceInv'
  <2> SUFFICES ASSUME Same
               PROVE  OnceInv'
    OBVIOUS
  <2>1. \A s, t : Waiting(s, t)' <=> Waiting(s, t)
    BY DEF Waiting, Queued
  <2>2. WaitingIsNew => WaitingIsNew'
    BY <2>1 DEF WaitingIsNew
  <2>3. LandedOnce => LandedOnce'
    BY DEF LandedOnce
  <2>4. BuffersApart => BuffersApart'
    BY DEF BuffersApart
  <2>5. QueueApart => QueueApart'
    BY DEF QueueApart
  <2>6. OfferedInTurn => OfferedInTurn'
    BY <2>1 DEF OfferedInTurn
  <2> QED
    BY <2>2, <2>3, <2>4, <2>5, <2>6 DEF OnceInv
<1>3. CASE Push
  BY <1>1, <1>3, OncePush
<1>4. CASE Emit
  BY <1>1, <1>4, OnceEmit
<1>5. CASE EmitCancelled
  <2>1. at \in 1..Len(Sinks)
    BY <1>5, CallingNow DEF EmitCancelled
  <2>2. Same
    BY <1>1, <1>5, <2>1 DEF EmitCancelled, Pushing, Reached, OnceInv
  <2> QED
    BY <1>2, <2>2
<1>6. CASE Flush
  BY <1>1, <1>6, OnceFlush
<1>7. CASE EmitDone
  <2>1. Same
    BY <1>1, <1>7 DEF EmitDone, EachDone, Pushing, Reached, OnceInv
  <2> QED
    BY <1>2, <2>1
<1>8. CASE Accepted
  <2>1. /\ UNCHANGED <<buf, landed, doubts, failures>> /\ queue = <<>> /\ queue' = <<>>
        /\ next' = last + 1 /\ phase' = "idle" /\ phase = "flush"
    BY <1>8 DEF Accepted, EachDone, Pushing
  <2>2. next <= last
    BY <2>1 DEF OnceInv
  <2>3. Same
    BY <1>1, <2>1, <2>2
  <2> QED
    BY <1>2, <2>3
<1>9. CASE Refused
  <2>1. failures' # 0 /\ phase' = "idle"
    BY <1>9, SinksAssumption DEF Refused, TypeOK
  <2> QED
    BY <2>1 DEF OnceInv
<1>10. CASE Close
  <2>1. last = 0 /\ phase' = "closed"
    BY <1>10 DEF Close, CallInv
  <2>2. Same
    BY <1>1, <1>10, <2>1 DEF Close, EachDone, Pushing
  <2> QED
    BY <1>2, <2>2
<1>11. CASE Begin
  <2>1. last = 0 /\ queue = <<>> /\ \E hi \in next..MaxTurns : last' = hi
    BY <1>11 DEF Begin, CallInv, Pushing, Calling
  <2>2. Same
    BY <1>1, <1>11, <2>1 DEF Begin
  <2> QED
    BY <1>2, <2>2
<1>12. CASE Cancel
  BY <1>12, SameOnce DEF Cancel
<1>13. CASE Drain
  <2>1. last = 0 /\ queue = <<>>
    BY <1>13 DEF Drain, CallInv, Pushing, Calling
  <2>2. Same
    BY <1>1, <1>13, <2>1 DEF Drain
  <2> QED
    BY <1>2, <2>2
<1>14. CASE Background
  BY <1>1, <1>14, OnceBackground
<1>15. CASE UNCHANGED vars
  BY <1>15, SameOnce DEF vars
<1> HIDE DEF Same
<1> QED
  BY <1>3, <1>4, <1>5, <1>6, <1>7, <1>8, <1>9, <1>10, <1>11, <1>12, <1>13, <1>14, <1>15
  DEF Next, Work

-----------------------------------------------------------------------------
(* The theorems.                                                           *)

IInv == TypeOK /\ CallInv /\ FateInv /\ OnceInv

LEMMA InitInv == Init => IInv
<1> SUFFICES ASSUME Init
             PROVE  IInv
  OBVIOUS
<1>1. TypeOK
  <2>1. <<>> \in Seq(Turns) /\ <<>> \in Seq(Seq(Turns)) /\ Len(Sinks) \in Nat
    BY SinksAssumption, EmptySeq
  <2>2. /\ next \in 1..MaxTurns + 1 /\ last \in 0..MaxTurns
        /\ at \in 0..Len(Sinks) + 1 /\ failures \in 0..MaxFailures /\ attempt \in 0..MaxRetries
    BY <2>1, SinksAssumption DEF Init
  <2>3. buf \in [Names -> Seq(Turns)] /\ queue \in Seq(Seq(Turns))
    BY <2>1 DEF Init
  <2>4. landed \in [Names -> [Turns -> Nat]]
    BY DEF Init
  <2>5. /\ counted \in [Names -> [Turns -> SUBSET {"too_old", "rejected", "undelivered"}]]
        /\ doubts \in [Names -> [Turns -> SUBSET {"lost", "odd", "dropped"}]]
    BY DEF Init
  <2> QED
    BY <2>2, <2>3, <2>4, <2>5 DEF Init, TypeOK
<1>2. CallInv
  BY DEF Init, CallInv, Pushing
<1>3. FateInv
  <2>1. \A t \in Turns : ~(t < 1)
    BY SinksAssumption DEF Turns
  <2> QED
    BY <2>1 DEF Init, FateInv, AcceptedIsSettled, NothingLeftBehind
<1>4. OnceInv
  <2>1. \A s \in Names, t \in Turns : ~Waiting(s, t) /\ landed[s][t] = 0
    BY DEF Init, Waiting, Queued, Range
  <2>2. \A j \in 1..Len(Sinks) : Sinks[j] \in Names
    BY SinksAssumption DEF Names, Range
  <2>3. BuffersApart /\ QueueApart
    BY DEF Init, BuffersApart, QueueApart, IsInjective
  <2>4. LandedOnce /\ WaitingIsNew /\ OfferedInTurn
    BY <2>1, <2>2 DEF LandedOnce, WaitingIsNew, OfferedInTurn
  <2> QED
    BY <2>3, <2>4 DEF Init, OnceInv
<1> QED
  BY <1>1, <1>2, <1>3, <1>4 DEF IInv

LEMMA InvStep == IInv /\ [Next]_vars => IInv'
BY TypeStep, FateStep, OnceStep DEF IInv

LEMMA InvHolds == Spec => []IInv
BY InitInv, InvStep, PTL DEF Spec

\* The state keeps its types whatever the remote ends answer: among them the
\* number of retries, the failures counted and the sink Multi is calling.
THEOREM TypeCorrect == Spec => []TypeOK
<1>1. IInv => TypeOK
  BY DEF IInv
<1> QED
  BY <1>1, InvHolds, PTL

\* sinkEmit reports success only once the batch has left the building: a turn
\* the watcher may checkpoint past is at every sink's remote end, or counted
\* there for a reason that resending does not cure, but for a status of no
\* known class and for an export that failed in the background.
THEOREM NothingIsAcceptedUnsettled == Spec => []AcceptedIsSettled
<1>1. IInv => AcceptedIsSettled
  BY DEF IInv, FateInv
<1> QED
  BY <1>1, InvHolds, PTL

\* A flush empties every buffer or the call errs.
THEOREM AcceptedLeavesNothing == Spec => []NothingLeftBehind
<1>1. IInv => NothingLeftBehind
  BY DEF IInv, FateInv
<1> QED
  BY <1>1, InvHolds, PTL

\* Halving, retrying and the SDK's background exports repeat no turn while no
\* call has failed, unless an answer for it was lost.
THEOREM NothingLandsTwice == Spec => []TwiceOnlyAfterFailure
<1>1. IInv => TwiceOnlyAfterFailure
  <2> SUFFICES ASSUME IInv, NEW s \in Names, NEW t \in Turns, landed[s][t] > 1,
                      ~(failures > 0), "lost" \notin doubts[s][t]
               PROVE  FALSE
    BY DEF TwiceOnlyAfterFailure
  <2>1. failures = 0 /\ landed[s][t] \in Nat
    BY SinksAssumption DEF IInv, TypeOK
  <2>2. landed[s][t] <= 1
    BY <2>1 DEF IInv, OnceInv, LandedOnce
  <2> QED
    BY <2>1, <2>2
<1> QED
  BY <1>1, InvHolds, PTL

\* Multi.each calls every sink whatever the ones before it returned: when a call
\* ends, a sink that returned no error has settled the batch or buffered it.
THEOREM AFailureSparesTheOthers == Spec => OthersSeeTheBatch
<1> DEFINE A == last # 0 /\ phase' = "idle" =>
                   \A s \in Names \ errs, t \in next..last :
                       Settled(s, t) \/ t \in Range(buf[s])
<1>1. IInv /\ [Next]_vars => [A]_vars
  <2> SUFFICES ASSUME IInv, Next, last # 0, phase' = "idle", NEW s \in Names \ errs,
                      NEW t \in next..last
               PROVE  Settled(s, t) \/ t \in Range(buf[s])
    OBVIOUS
  <2>1. phase \in {"emit", "flush"}
    BY DEF IInv, CallInv
  <2>2. Accepted \/ Refused
    <3>1. ~Push /\ ~Background /\ ~Cancel
      BY <2>1 DEF Push, Ok, Verdicts, Garbled, Busy, Lost, RefusedData, Halve, RefusedConfig, Odd,
                  BackoffCancelled, Request, Answered, Background, callVars, Cancel
    <3> QED
      BY <2>1, <3>1 DEF Next, Work, Emit, EmitCancelled, Flush, EmitDone, Close, Begin, Drain
  <2>3. EachDone
    BY <2>2 DEF Accepted, Refused
  <2> QED
    BY <2>1, <2>3, AllReached DEF IInv
<1> HIDE DEF A
<1>2. Spec => [][A]_vars
  BY <1>1, InvHolds, PTL DEF Spec
<1> QED
  BY <1>2 DEF OthersSeeTheBatch, A
=============================================================================

---------------------------- MODULE Metrics_proofs ---------------------------
(***************************************************************************)
(* Proofs about the metrics (Metrics), for any turns, accounts, caps and   *)
(* limits, and any number of offers.                                       *)
(***************************************************************************)
EXTENDS Metrics, FiniteSetTheorems, SequenceTheorems, MaximumLemmas

LEMMA Assumed ==
    /\ CostLimit \in Nat /\ MaxOffers \in Nat
    /\ Cap \in [DOMAIN Cap -> Nat] /\ Guarded \subseteq DOMAIN Cap
    /\ \A t \in Offers : t.id \in STRING /\ t.tools \in Seq(STRING)
    /\ ValidLabels(Promoted)
<1>1. Cap \in [DOMAIN Cap -> Nat]
  BY CapAssumption DEF CapAssumption
<1> QED
  BY <1>1, MetricsAssumption DEF MetricsAssumption

LEMMA LimitIs == CostLimit \in Nat
BY Assumed

-----------------------------------------------------------------------------
(* Those of a sequence that have an id.                                    *)

KnownUpTo(ids, f, m) ==
    /\ f = [n \in 0..m |-> f[n]]
    /\ \A n \in 0..m :
          f[n] = IF n = 0 THEN <<>>
                 ELSE IF ids[n] = Absent THEN f[n - 1] ELSE Append(f[n - 1], ids[n])

\* The recursion that defines WithId has a solution.
LEMMA KnownExists ==
    ASSUME NEW ids, NEW N \in Nat
    PROVE  \E f : KnownUpTo(ids, f, N)
<1> DEFINE T == {m \in Nat : \E f : KnownUpTo(ids, f, m)}
<1>1. 0 \in T
  <2> DEFINE f == [n \in 0..0 |-> <<>>]
  <2>1. KnownUpTo(ids, f, 0)
    BY DEF KnownUpTo
  <2> HIDE DEF f
  <2> QED
    BY <2>1
<1>2. ASSUME NEW m \in Nat, m \in T PROVE m + 1 \in T
  <2>1. PICK f : KnownUpTo(ids, f, m)
    BY <1>2
  <2> DEFINE g == [n \in 0..m + 1 |->
                     IF n # m + 1 THEN f[n]
                     ELSE IF ids[n] = Absent THEN f[m] ELSE Append(f[m], ids[n])]
  <2>2. KnownUpTo(ids, g, m + 1)
    <3>1. g = [n \in 0..m + 1 |-> g[n]]
      OBVIOUS
    <3>2. ASSUME NEW n \in 0..m + 1
          PROVE  g[n] = IF n = 0 THEN <<>>
                        ELSE IF ids[n] = Absent THEN g[n - 1] ELSE Append(g[n - 1], ids[n])
      <4>1. CASE n = m + 1
        BY <4>1
      <4>2. CASE n # m + 1
        <5>1. n \in 0..m /\ g[n] = f[n] /\ (n # 0 => g[n - 1] = f[n - 1])
          BY <4>2
        <5> QED
          BY <2>1, <5>1 DEF KnownUpTo
      <4> QED
        BY <4>1, <4>2
    <3> HIDE DEF g
    <3> QED
      BY <3>1, <3>2 DEF KnownUpTo
  <2> HIDE DEF g
  <2> QED
    BY <2>2
<1> HIDE DEF T
<1>3. \A n \in 0..N : n \in T
  BY <1>1, <1>2, UpTo
<1> QED
  BY <1>3 DEF T

LEMMA KnownSteps ==
    ASSUME NEW ids, Len(ids) \in Nat
    PROVE  \E f : KnownUpTo(ids, f, Len(ids)) /\ WithId(ids) = f[Len(ids)]
<1> DEFINE N == Len(ids)
           known == CHOOSE f : f = [n \in 0..N |->
                       IF n = 0 THEN <<>>
                       ELSE IF ids[n] = Absent THEN f[n - 1] ELSE Append(f[n - 1], ids[n])]
<1>1. WithId(ids) = known[N]
  BY DEF WithId
<1>2. PICK f : KnownUpTo(ids, f, N)
  BY KnownExists
<1>3. f = [n \in 0..N |-> IF n = 0 THEN <<>>
                       ELSE IF ids[n] = Absent THEN f[n - 1] ELSE Append(f[n - 1], ids[n])]
  BY <1>2 DEF KnownUpTo
<1>4. known = [n \in 0..N |-> IF n = 0 THEN <<>>
                       ELSE IF ids[n] = Absent THEN known[n - 1] ELSE Append(known[n - 1], ids[n])]
  BY <1>3, Zenon
<1>5. KnownUpTo(ids, known, N)
  <2> HIDE DEF known
  <2> QED
    BY <1>4 DEF KnownUpTo
<1> QED
  BY <1>1, <1>5

\* WithId goes along with Append.
LEMMA KnownAppend ==
    ASSUME NEW S, NEW ids \in Seq(S), NEW x \in S
    PROVE  /\ WithId(ids) \in Seq(S)
           /\ WithId(Append(ids, x)) = IF x = Absent THEN WithId(ids) ELSE Append(WithId(ids), x)
<1> DEFINE N == Len(ids)
           more == Append(ids, x)
<1>1. N \in Nat /\ Len(more) = N + 1 /\ more[N + 1] = x /\ \A n \in 1..N : more[n] = ids[n] /\ ids[n] \in S
  OBVIOUS
<1> HIDE DEF more, N
<1>2. PICK f : KnownUpTo(ids, f, N) /\ WithId(ids) = f[N]
  BY <1>1, KnownSteps DEF N
<1>3. PICK g : KnownUpTo(more, g, N + 1) /\ WithId(more) = g[N + 1]
  BY <1>1, KnownSteps
<1> DEFINE T == {n \in 0..N : g[n] = f[n] /\ f[n] \in Seq(S)}
<1>4. 0 \in T
  <2>1. 0 \in 0..N /\ 0 \in 0..N + 1
    BY <1>1
  <2>2. f[0] = <<>> /\ g[0] = <<>>
    BY <1>2, <1>3, <2>1 DEF KnownUpTo
  <2>3. <<>> \in Seq(S)
    OBVIOUS
  <2> QED
    BY <2>1, <2>2, <2>3
<1>5. ASSUME NEW n \in 0..N, n # N, n \in T PROVE n + 1 \in T
  <2>1. n + 1 \in 0..N /\ n + 1 # 0 /\ n + 1 \in 0..N + 1 /\ n + 1 \in 1..N /\ (n + 1) - 1 = n
    BY <1>1, <1>5
  <2>2. f[n + 1] = IF ids[n + 1] = Absent THEN f[n] ELSE Append(f[n], ids[n + 1])
    BY <1>2, <2>1 DEF KnownUpTo
  <2>3. g[n + 1] = IF more[n + 1] = Absent THEN g[n] ELSE Append(g[n], more[n + 1])
    BY <1>3, <2>1 DEF KnownUpTo
  <2>4. more[n + 1] = ids[n + 1] /\ ids[n + 1] \in S
    BY <1>1, <2>1
  <2>5. g[n] = f[n] /\ f[n] \in Seq(S)
    BY <1>5
  <2>6. f[n + 1] \in Seq(S)
    BY <2>2, <2>4, <2>5
  <2> QED
    BY <2>1, <2>2, <2>3, <2>4, <2>5, <2>6
<1>6. N \in T
  <2>1. \A n \in 0..N : n \in T
    <3> HIDE DEF T
    <3> QED
      BY <1>1, <1>4, <1>5, UpTo
  <2> QED
    BY <1>1, <2>1
<1>7. g[N + 1] = IF more[N + 1] = Absent THEN g[N] ELSE Append(g[N], more[N + 1])
  <2>1. N + 1 \in 0..N + 1 /\ N + 1 # 0 /\ (N + 1) - 1 = N
    BY <1>1
  <2> QED
    BY <1>3, <2>1 DEF KnownUpTo
<1> QED
  BY <1>1, <1>2, <1>3, <1>6, <1>7 DEF more

LEMMA KnownEmpty == WithId(<<>>) = <<>>
<1>1. Len(<<>>) = 0
  OBVIOUS
<1>2. PICK f : KnownUpTo(<<>>, f, 0) /\ WithId(<<>>) = f[0]
  BY <1>1, KnownSteps
<1> QED
  BY <1>2 DEF KnownUpTo

-----------------------------------------------------------------------------
(* What a guard remembers.                                                 *)

\* How many ids the guard is to have forgotten of those that got past it, and
\* those it is to remember.
Forgotten(known) == IF Len(known) > CostLimit THEN Len(known) - CostLimit ELSE 0
Latest(known) == SubSeq(known, Forgotten(known) + 1, Len(known))

Spaced(known) ==
    \A i, j \in 1..Len(known) : i < j /\ known[i] = known[j] => j - i > CostLimit

LEMMA ForgottenIs ==
    ASSUME NEW known, Len(known) \in Nat
    PROVE  /\ Forgotten(known) \in Nat /\ Forgotten(known) <= Len(known)
           /\ Len(known) <= CostLimit => Forgotten(known) = 0
           /\ Len(known) >= CostLimit => Forgotten(known) = Len(known) - CostLimit
BY LimitIs DEF Forgotten

LEMMA LatestIs ==
    ASSUME NEW S, NEW known \in Seq(S)
    PROVE  /\ Latest(known) \in Seq(S) /\ Len(Latest(known)) = Len(known) - Forgotten(known)
           /\ \A n \in 1..Len(known) - Forgotten(known) : Latest(known)[n] = known[n + Forgotten(known)]
<1>1. Len(known) \in Nat /\ Forgotten(known) \in Nat /\ Forgotten(known) <= Len(known)
  BY ForgottenIs
<1>2. \A n \in Forgotten(known) + 1..Len(known) : known[n] \in S
  BY <1>1
<1> QED
  BY <1>1, <1>2 DEF Latest

\* Entering an id keeps a guard at what it is to remember.
LEMMA EnteredIs ==
    ASSUME NEW S, NEW known \in Seq(S), NEW id \in S, id # Absent
    PROVE  Entered(Latest(known), id) = Latest(Append(known, id))
<1> DEFINE order  == Latest(known)
           longer == Append(order, id)
           more   == Append(known, id)
           off    == Forgotten(known)
           off1   == Forgotten(more)
<1>1. /\ Len(known) \in Nat /\ CostLimit \in Nat /\ off \in Nat /\ off <= Len(known)
      /\ Len(known) <= CostLimit => off = 0
      /\ Len(known) >= CostLimit => off = Len(known) - CostLimit
  BY ForgottenIs, LimitIs
<1>2. /\ order \in Seq(S) /\ Len(order) = Len(known) - off
      /\ \A n \in 1..Len(known) - off : order[n] = known[n + off]
  BY LatestIs
<1>3. /\ more \in Seq(S) /\ Len(more) = Len(known) + 1 /\ more[Len(known) + 1] = id
      /\ \A n \in 1..Len(known) : more[n] = known[n]
  OBVIOUS
<1>4. /\ off1 \in Nat
      /\ Len(more) <= CostLimit => off1 = 0
      /\ Len(more) >= CostLimit => off1 = Len(more) - CostLimit
  <2>1. Len(more) \in Nat
    BY <1>1, <1>3
  <2> HIDE DEF more
  <2> QED
    BY <2>1, ForgottenIs
<1>5. /\ Latest(more) \in Seq(S) /\ Len(Latest(more)) = Len(more) - off1
      /\ \A n \in 1..Len(more) - off1 : Latest(more)[n] = more[n + off1]
  BY <1>3, LatestIs
<1> HIDE DEF off, off1, order
<1>6. /\ longer \in Seq(S) /\ Len(longer) = Len(order) + 1 /\ longer[Len(order) + 1] = id
      /\ \A n \in 1..Len(order) : longer[n] = order[n]
  BY <1>2
<1>7. Entered(order, id) = IF Len(longer) > CostLimit THEN Tail(longer) ELSE longer
  BY DEF Entered
<1> HIDE DEF more, longer
<1>8. CASE Len(longer) > CostLimit
  <2>1. Entered(order, id) = Tail(longer)
    BY <1>7, <1>8
  <2>2. longer # <<>>
    BY <1>1, <1>2, <1>6
  <2>3. /\ Tail(longer) \in Seq(S) /\ Len(Tail(longer)) = Len(order)
        /\ \A n \in 1..Len(order) : Tail(longer)[n] = longer[n + 1]
    BY <1>1, <1>2, <1>6, <2>2
  <2>4. Len(order) \in Nat /\ Len(Latest(more)) = Len(order) /\ off1 = off + 1
    <3>1. Len(known) >= CostLimit /\ Len(order) \in Nat
      BY <1>1, <1>2, <1>6, <1>8
    <3>2. off1 = off + 1
      BY <1>1, <1>3, <1>4, <3>1
    <3> QED
      BY <1>1, <1>2, <1>3, <1>5, <3>1, <3>2
  <2>5. ASSUME NEW n \in 1..Len(order) PROVE Latest(more)[n] = longer[n + 1]
    <3>1. n \in Nat /\ n \in 1..Len(more) - off1 /\ n + off1 = n + off + 1
      BY <1>1, <1>2, <1>3, <2>4
    <3>2. Latest(more)[n] = more[n + off + 1]
      BY <1>5, <3>1
    <3>3. CASE n = Len(order)
      <4>1. n + off + 1 = Len(known) + 1
        BY <1>1, <1>2, <3>3
      <4> QED
        BY <1>3, <1>6, <3>2, <3>3, <4>1
    <3>4. CASE n # Len(order)
      <4>1. /\ n + 1 \in 1..Len(order) /\ n + 1 \in 1..Len(known) - off
            /\ n + off + 1 \in 1..Len(known) /\ (n + 1) + off = n + off + 1
        <5> DEFINE k == Len(order)
        <5>1. k \in Nat /\ n \in 1..k /\ n # k /\ n \in Nat
          BY <2>4, <3>1, <3>4
        <5>2. n + 1 \in 1..k
          <6> HIDE DEF k
          <6> QED
            BY <5>1
        <5>3. n + 1 <= Len(known) - off
          BY <1>2, <5>1, <5>2
        <5>4. (n + 1) + off = n + off + 1
          BY <1>1, <3>1
        <5> QED
          BY <1>1, <3>1, <5>2, <5>3, <5>4
      <4>2. longer[n + 1] = order[n + 1] /\ more[n + off + 1] = known[n + off + 1]
        BY <1>3, <1>6, <4>1
      <4>3. order[n + 1] = known[(n + 1) + off]
        BY <1>2, <4>1
      <4> QED
        BY <3>2, <4>1, <4>2, <4>3
    <3> QED
      BY <3>3, <3>4
  <2>6. Tail(longer) = Latest(more)
    BY <1>5, <2>3, <2>4, <2>5, SeqEqual
  <2> QED
    BY <2>1, <2>6 DEF order, more
<1>9. CASE ~(Len(longer) > CostLimit)
  <2>1. Entered(order, id) = longer
    BY <1>7, <1>9
  <2>2. /\ off = 0 /\ off1 = 0 /\ Len(order) = Len(known)
        /\ Len(Latest(more)) = Len(longer) /\ Len(longer) = Len(known) + 1
    BY <1>1, <1>2, <1>3, <1>4, <1>5, <1>6, <1>9
  <2>3. ASSUME NEW n \in 1..Len(longer) PROVE Latest(more)[n] = longer[n]
    <3>1. n \in Nat /\ n \in 1..Len(more) - off1 /\ n + off1 = n
      BY <1>1, <1>3, <2>2
    <3>2. Latest(more)[n] = more[n]
      BY <1>5, <3>1
    <3>3. CASE n = Len(known) + 1
      BY <1>3, <1>6, <2>2, <3>2, <3>3
    <3>4. CASE n # Len(known) + 1
      <4>1. n \in 1..Len(known) /\ n \in 1..Len(order) /\ n \in 1..Len(known) - off /\ n + off = n
        BY <1>1, <2>2, <3>1, <3>4
      <4> QED
        BY <1>2, <1>3, <1>6, <3>2, <4>1
    <3> QED
      BY <3>3, <3>4
  <2>4. longer = Latest(more)
    BY <1>5, <1>6, <2>2, <2>3, SeqEqual
  <2> QED
    BY <2>1, <2>4 DEF order, more
<1> QED
  BY <1>8, <1>9

\* An id that is not remembered is far from those that are the same.
LEMMA SpacedGrows ==
    ASSUME NEW S, NEW known \in Seq(S), Spaced(known), NEW id \in S, id \notin ToSet(Latest(known))
    PROVE  Spaced(Append(known, id))
<1> DEFINE order == Latest(known)
           more  == Append(known, id)
           off   == Forgotten(known)
<1>1. /\ Len(known) \in Nat /\ CostLimit \in Nat /\ off \in Nat /\ off <= Len(known)
      /\ Len(known) <= CostLimit => off = 0
      /\ Len(known) >= CostLimit => off = Len(known) - CostLimit
  BY ForgottenIs, LimitIs
<1>2. /\ order \in Seq(S) /\ Len(order) = Len(known) - off
      /\ \A n \in 1..Len(known) - off : order[n] = known[n + off]
  BY LatestIs
<1>3. /\ Len(more) = Len(known) + 1 /\ more[Len(known) + 1] = id
      /\ \A n \in 1..Len(known) : more[n] = known[n]
  OBVIOUS
<1>4. \A n \in 1..Len(order) : order[n] # id
  <2>1. DOMAIN order = 1..Len(order)
    BY <1>2
  <2> QED
    BY <2>1 DEF ToSet
<1> HIDE DEF order, off
<1> SUFFICES ASSUME NEW i \in 1..Len(more), NEW j \in 1..Len(more), i < j, more[i] = more[j]
             PROVE  j - i > CostLimit
  BY DEF Spaced
<1> HIDE DEF more
<1>5. CASE j \in 1..Len(known)
  <2>1. i \in 1..Len(known)
    BY <1>1, <1>3, <1>5
  <2> QED
    BY <1>3, <1>5, <2>1 DEF Spaced
<1>6. CASE j = Len(known) + 1
  <2>1. i \in 1..Len(known)
    BY <1>1, <1>3, <1>6
  <2>2. known[i] = id
    BY <1>3, <1>6, <2>1
  <2>3. ~(i > off)
    <3> SUFFICES ASSUME i > off PROVE FALSE
      OBVIOUS
    <3>1. i - off \in 1..Len(known) - off /\ i - off \in 1..Len(order) /\ (i - off) + off = i
      BY <1>1, <1>2, <2>1
    <3>2. order[i - off] = id
      BY <1>2, <2>2, <3>1
    <3> QED
      BY <1>4, <3>1, <3>2
  <2> QED
    BY <1>1, <1>6, <2>1, <2>3
<1>7. j \in 1..Len(known) \/ j = Len(known) + 1
  BY <1>1, <1>3
<1> QED
  BY <1>5, <1>6, <1>7

LEMMA LatestOfNone == Latest(<<>>) = <<>> /\ Spaced(<<>>)
<1> DEFINE none == <<>>
<1>1. none \in Seq({}) /\ Len(none) = 0
  OBVIOUS
<1>2. Forgotten(none) = 0
  BY <1>1, LimitIs DEF Forgotten
<1>3. Latest(none) \in Seq({}) /\ Len(Latest(none)) = 0
  <2> HIDE DEF none
  <2>1. /\ Latest(none) \in Seq({})
        /\ Len(Latest(none)) = Len(none) - Forgotten(none)
    BY <1>1, LatestIs
  <2> QED
    BY <1>1, <1>2, <2>1
<1> QED
  BY <1>1, <1>3 DEF Spaced

-----------------------------------------------------------------------------
(* The two guards.                                                         *)

Ids == {t.id : t \in Offers}

LEMMA KnownIsSeq ==
    ASSUME NEW S, NEW ids \in Seq(S)
    PROVE  WithId(ids) \in Seq(S)
<1>1. CASE ids = <<>>
  <2>1. <<>> \in Seq(S)
    OBVIOUS
  <2> QED
    BY <1>1, <2>1, KnownEmpty
<1>2. CASE ids # <<>>
  <2>1. ids[1] \in S
    BY <1>2
  <2> QED
    BY <2>1, KnownAppend
<1> QED
  BY <1>1, <1>2

LEMMA RecentIs ==
    ASSUME NEW S, NEW ids \in Seq(S)
    PROVE  Recent(ids) = ToSet(Latest(WithId(ids)))
<1> DEFINE known == WithId(ids)
           first == IF Len(known) > CostLimit THEN Len(known) - CostLimit + 1 ELSE 1
<1>1. Len(known) \in Nat
  BY KnownIsSeq
<1>2. first = Forgotten(known) + 1
  <2> HIDE DEF known
  <2> QED
    BY <1>1, LimitIs DEF Forgotten
<1>3. Recent(ids) = ToSet(SubSeq(known, first, Len(known)))
  BY DEF Recent
<1> HIDE DEF known, first
<1>4. Recent(ids) = ToSet(Latest(known))
  BY <1>2, <1>3 DEF Latest
<1> QED
  BY <1>4 DEF known

\* An id that gets past a guard: it is remembered next, and far from the same.
LEMMA PastGuard ==
    ASSUME NEW S, NEW ids \in Seq(S), NEW id \in S,
           Spaced(WithId(ids)), First(Latest(WithId(ids)), id)
    PROVE  /\ Append(ids, id) \in Seq(S) /\ Spaced(WithId(Append(ids, id)))
           /\ Entered(Latest(WithId(ids)), id) = Latest(WithId(Append(ids, id)))
<1>1. /\ WithId(ids) \in Seq(S)
      /\ WithId(Append(ids, id)) = IF id = Absent THEN WithId(ids) ELSE Append(WithId(ids), id)
  BY KnownAppend
<1>2. Append(ids, id) \in Seq(S)
  OBVIOUS
<1>3. CASE id = Absent
  BY <1>1, <1>2, <1>3 DEF Entered
<1>4. CASE id # Absent
  <2>1. id \notin ToSet(Latest(WithId(ids)))
    BY <1>4 DEF First
  <2>2. Spaced(Append(WithId(ids), id))
    BY <1>1, <2>1, SpacedGrows
  <2>3. Entered(Latest(WithId(ids)), id) = Latest(Append(WithId(ids), id))
    BY <1>1, <1>4, EnteredIs
  <2> QED
    BY <1>1, <1>2, <1>4, <2>2, <2>3
<1> QED
  BY <1>3, <1>4

\* Each guard remembers the latest of those that got past it.
Remembered ==
    /\ charges \in Seq(Ids) /\ costOrder = Latest(WithId(charges)) /\ Spaced(WithId(charges))
    /\ waits \in Seq(Ids) /\ proxyWaitOrder = Latest(WithId(waits)) /\ Spaced(WithId(waits))

LEMMA InitRemembered == Init => Remembered
<1> SUFFICES ASSUME Init PROVE Remembered
  OBVIOUS
<1>1. <<>> \in Seq(Ids)
  OBVIOUS
<1> QED
  BY <1>1, KnownEmpty, LatestOfNone DEF Init, Remembered

LEMMA EmitRemembers ==
    ASSUME Remembered, NEW t \in Offers, Emit(t)
    PROVE  Remembered'
<1>1. t.id \in Ids
  BY DEF Ids
<1>2. charges' \in Seq(Ids) /\ costOrder' = Latest(WithId(charges')) /\ Spaced(WithId(charges'))
  <2>1. CASE Charges(t)
    <3>1. costOrder' = Entered(costOrder, t.id) /\ charges' = Append(charges, t.id)
      BY <2>1 DEF Emit, Charges
    <3>2. First(Latest(WithId(charges)), t.id)
      BY <2>1 DEF Charges, Remembered
    <3> QED
      BY <1>1, <3>1, <3>2, PastGuard DEF Remembered
  <2>2. CASE ~Charges(t)
    BY <2>2 DEF Emit, Remembered
  <2> QED
    BY <2>1, <2>2
<1>3. waits' \in Seq(Ids) /\ proxyWaitOrder' = Latest(WithId(waits')) /\ Spaced(WithId(waits'))
  <2>1. CASE Observes(t)
    <3>1. proxyWaitOrder' = Entered(proxyWaitOrder, t.id) /\ waits' = Append(waits, t.id)
      BY <2>1 DEF Emit
    <3>2. First(Latest(WithId(waits)), t.id)
      BY <2>1 DEF Observes, Remembered
    <3> QED
      BY <1>1, <3>1, <3>2, PastGuard DEF Remembered
  <2>2. CASE ~Observes(t)
    BY <2>2 DEF Emit, Remembered
  <2> QED
    BY <2>1, <2>2
<1> QED
  BY <1>2, <1>3 DEF Remembered

LEMMA NextRemembers == Remembered /\ [Next]_metricVars => Remembered'
<1> SUFFICES ASSUME Remembered, [Next]_metricVars PROVE Remembered'
  OBVIOUS
<1>1. CASE \E t \in Offers : Emit(t)
  BY <1>1, EmitRemembers
<1>2. CASE Register \/ Collect \/ Close \/ Describe \/ UNCHANGED metricVars
  <2>1. UNCHANGED <<charges, costOrder, waits, proxyWaitOrder>>
    BY <1>2 DEF Register, Collect, Close, Describe, metricVars
  <2> QED
    BY <2>1 DEF Remembered
<1> QED
  BY <1>1, <1>2 DEF Next

LEMMA Remembers == Spec => []Remembered
BY InitRemembered, NextRemembers, PTL DEF Spec

\* However often and in whatever order turns are offered again, the cost of a
\* response is added once, and its waits are observed once, until as many other
\* responses came between as the guard remembers (sink.go firstCostResponse,
\* firstProxyWaitResponse).
THEOREM CostsAreAddedOnce == Spec => []OncePerResponse
<1>1. ASSUME NEW S, NEW ids \in Seq(S), Spaced(WithId(ids)),
             NEW i \in DOMAIN WithId(ids), NEW j \in DOMAIN WithId(ids),
             i < j, WithId(ids)[i] = WithId(ids)[j]
      PROVE  j - i > CostLimit
  <2>1. WithId(ids) \in Seq(S)
    BY KnownIsSeq
  <2>2. DOMAIN WithId(ids) = 1..Len(WithId(ids))
    BY <2>1
  <2> QED
    BY <1>1, <2>2 DEF Spaced
<1>2. Remembered => OncePerResponse
  BY <1>1 DEF Remembered, OncePerResponse
<1> QED
  BY <1>2, Remembers, PTL

\* Whatever was observed of a response before without a cost has not used up
\* the guard: the cost is added when it is known at last (record.go recordCost).
THEOREM LateCostsAreAdded == Spec => NoCostIsLost
<1>1. Remembered /\ [Next]_metricVars =>
         [\A t \in Offers :
             offered' # offered /\ last'.turn = t /\ t.cost = "valid" /\ t.id \notin Recent(charges)
                => charges' = Append(charges, t.id)]_metricVars
  <2> SUFFICES ASSUME Remembered, Next, NEW t \in Offers, offered' # offered, last'.turn = t,
                      t.cost = "valid", t.id \notin Recent(charges)
               PROVE  charges' = Append(charges, t.id)
    BY DEF metricVars
  <2>1. PICK u \in Offers : Emit(u)
    BY DEF Next, Register, Collect, Close, Describe
  <2>2. u = t
    BY <2>1 DEF Emit
  <2>3. Recent(charges) = ToSet(costOrder)
    BY RecentIs DEF Remembered
  <2>4. Charges(t)
    BY <2>3 DEF Charges, First
  <2> QED
    BY <2>1, <2>2, <2>4 DEF Emit
<1> QED
  BY <1>1, Remembers, PTL DEF Spec, NoCostIsLost

-----------------------------------------------------------------------------
(* The guard of values.                                                    *)

Full(known, key) == Cardinality(known[key]) >= Cap[key]

Kept(known) ==
    /\ known = [k \in DOMAIN Cap |-> known[k]]
    /\ \A k \in DOMAIN Cap : IsFiniteSet(known[k]) /\ Cardinality(known[k]) <= Cap[k]

\* What is known later: no key forgets a value, and none that is full learns.
Grown(known, later) ==
    \A k \in DOMAIN Cap : known[k] \subseteq later[k] /\ (Full(known, k) => later[k] = known[k])

\* The key, the value and the name it went by are as the guard still has them.
Told(known, x) ==
    /\ x[1] \in DOMAIN Cap
    /\ x[3] = IF x[2] \in known[x[1]] THEN x[2] ELSE OtherValue
    /\ x[2] \notin known[x[1]] => Full(known, x[1])

LEMMA CapIs == \A k \in DOMAIN Cap : Cap[k] \in Nat
BY Assumed

LEMMA ToldLater ==
    ASSUME NEW known, NEW later, Grown(known, later), NEW x, Told(known, x)
    PROVE  Told(later, x)
<1>1. /\ x[1] \in DOMAIN Cap /\ known[x[1]] \subseteq later[x[1]]
      /\ Full(known, x[1]) => later[x[1]] = known[x[1]]
  BY DEF Grown, Told
<1>2. CASE x[2] \in known[x[1]]
  BY <1>1, <1>2 DEF Told
<1>3. CASE x[2] \notin known[x[1]]
  BY <1>1, <1>3 DEF Told, Full
<1> QED
  BY <1>2, <1>3

LEMMA GrownOn ==
    ASSUME NEW known, NEW later, NEW latest, Grown(known, later), Grown(later, latest)
    PROVE  Grown(known, latest)
<1> SUFFICES ASSUME NEW k \in DOMAIN Cap
             PROVE  known[k] \subseteq latest[k] /\ (Full(known, k) => latest[k] = known[k])
  BY DEF Grown
<1>1. Full(known, k) => later[k] = known[k] /\ Full(later, k)
  BY DEF Grown, Full
<1> QED
  BY <1>1 DEF Grown

LEMMA AdmitGrows ==
    ASSUME NEW known, Kept(known), NEW key \in DOMAIN Cap, NEW v
    PROVE  /\ Kept(Admit(known, key, v)) /\ Grown(known, Admit(known, key, v))
           /\ Told(Admit(known, key, v), <<key, v, Value(known, key, v)>>)
<1> DEFINE later == Admit(known, key, v)
           x     == <<key, v, Value(known, key, v)>>
<1>1. /\ IsFiniteSet(known[key]) /\ Cardinality(known[key]) \in Nat /\ Cap[key] \in Nat
      /\ Cardinality(known[key]) <= Cap[key]
  BY CapIs, FS_CardinalityType DEF Kept
<1>2. x[1] = key /\ x[2] = v /\ x[3] = Value(known, key, v)
  OBVIOUS
<1>3. CASE ~Admits(known, key, v)
  <2>1. later = known /\ Value(known, key, v) = OtherValue
    BY <1>3 DEF Admit, Value
  <2>2. v \notin known[key] /\ Full(known, key)
    BY <1>1, <1>3 DEF Admits, Full
  <2> QED
    BY <1>2, <2>1, <2>2 DEF Grown, Told
<1>4. CASE Admits(known, key, v)
  <2>1. later = [known EXCEPT ![key] = @ \cup {v}] /\ Value(known, key, v) = v
    BY <1>4 DEF Admit, Value
  <2>2. known = [k \in DOMAIN Cap |-> known[k]]
    BY DEF Kept
  <2>3. later = [k \in DOMAIN Cap |-> IF k = key THEN known[key] \cup {v} ELSE known[k]]
    BY <2>1, <2>2
  <2>4. later = [k \in DOMAIN Cap |-> later[k]]
    BY <2>3
  <2>5. /\ IsFiniteSet(known[key] \cup {v})
        /\ v \in known[key] => known[key] \cup {v} = known[key]
        /\ v \notin known[key] => Cardinality(known[key] \cup {v}) = Cardinality(known[key]) + 1
    BY <1>1, FS_AddElement
  <2>6. /\ Cardinality(known[key] \cup {v}) <= Cap[key]
        /\ Full(known, key) => known[key] \cup {v} = known[key]
    <3>1. CASE v \in known[key]
      <4>1. known[key] \cup {v} = known[key]
        BY <3>1
      <4> QED
        BY <1>1, <4>1
    <3>2. CASE v \notin known[key]
      <4>1. Cardinality(known[key]) < Cap[key]
        BY <1>4, <3>2 DEF Admits
      <4>2. ~Full(known, key)
        BY <1>1, <4>1 DEF Full
      <4>3. Cardinality(known[key] \cup {v}) = Cardinality(known[key]) + 1
        BY <2>5, <3>2
      <4> QED
        BY <1>1, <4>1, <4>2, <4>3
    <3> QED
      BY <3>1, <3>2
  <2>7. \A k \in DOMAIN Cap : later[k] = IF k = key THEN known[key] \cup {v} ELSE known[k]
    BY <2>3
  <2> HIDE DEF later
  <2>8. Kept(later)
    BY <2>4, <2>5, <2>6, <2>7 DEF Kept
  <2>9. Grown(known, later)
    BY <2>6, <2>7 DEF Grown
  <2> HIDE DEF x
  <2>10. Told(later, x)
    BY <1>2, <2>1, <2>7 DEF Told
  <2> QED
    BY <2>8, <2>9, <2>10 DEF later, x
<1> QED
  BY <1>3, <1>4

AskedUpTo(known, kvs, f, m) ==
    /\ f = [n \in 0..m |-> f[n]]
    /\ \A n \in 0..m :
          f[n] = IF n = 0 THEN known ELSE Admit(f[n - 1], kvs[n][1], kvs[n][2])

LEMMA AskedExists ==
    ASSUME NEW known, NEW kvs, NEW N \in Nat
    PROVE  \E f : AskedUpTo(known, kvs, f, N)
<1> DEFINE T == {m \in Nat : \E f : AskedUpTo(known, kvs, f, m)}
<1>1. 0 \in T
  <2> DEFINE f == [n \in 0..0 |-> known]
  <2>1. AskedUpTo(known, kvs, f, 0)
    BY DEF AskedUpTo
  <2> HIDE DEF f
  <2> QED
    BY <2>1
<1>2. ASSUME NEW m \in Nat, m \in T PROVE m + 1 \in T
  <2>1. PICK f : AskedUpTo(known, kvs, f, m)
    BY <1>2
  <2> DEFINE g == [n \in 0..m + 1 |->
                     IF n # m + 1 THEN f[n] ELSE Admit(f[m], kvs[n][1], kvs[n][2])]
  <2>2. AskedUpTo(known, kvs, g, m + 1)
    <3>1. g = [n \in 0..m + 1 |-> g[n]]
      OBVIOUS
    <3>2. ASSUME NEW n \in 0..m + 1
          PROVE  g[n] = IF n = 0 THEN known ELSE Admit(g[n - 1], kvs[n][1], kvs[n][2])
      <4>1. CASE n = m + 1
        BY <4>1
      <4>2. CASE n # m + 1
        <5>1. n \in 0..m /\ g[n] = f[n] /\ (n # 0 => g[n - 1] = f[n - 1])
          BY <4>2
        <5> QED
          BY <2>1, <5>1 DEF AskedUpTo
      <4> QED
        BY <4>1, <4>2
    <3> HIDE DEF g
    <3> QED
      BY <3>1, <3>2 DEF AskedUpTo
  <2> HIDE DEF g
  <2> QED
    BY <2>2
<1> HIDE DEF T
<1>3. \A n \in 0..N : n \in T
  BY <1>1, <1>2, UpTo
<1> QED
  BY <1>3 DEF T

LEMMA AskingIs ==
    ASSUME NEW known, NEW kvs, Len(kvs) \in Nat
    PROVE  AskedUpTo(known, kvs, Asking(known, kvs), Len(kvs))
<1> DEFINE N == Len(kvs)
           after == CHOOSE f : f = [n \in 0..N |->
                       IF n = 0 THEN known ELSE Admit(f[n - 1], kvs[n][1], kvs[n][2])]
<1>1. Asking(known, kvs) = after
  BY DEF Asking
<1>2. PICK f : AskedUpTo(known, kvs, f, N)
  BY AskedExists
<1>3. f = [n \in 0..N |-> IF n = 0 THEN known ELSE Admit(f[n - 1], kvs[n][1], kvs[n][2])]
  BY <1>2 DEF AskedUpTo
<1>4. after = [n \in 0..N |-> IF n = 0 THEN known ELSE Admit(after[n - 1], kvs[n][1], kvs[n][2])]
  BY <1>3, Zenon
<1>5. AskedUpTo(known, kvs, after, N)
  <2> HIDE DEF after
  <2> QED
    BY <1>4 DEF AskedUpTo
<1> QED
  BY <1>1, <1>5

\* Asking for values of known keys: none is forgotten, no cap is exceeded, and
\* what each was called stays its name.
LEMMA AskGrows ==
    ASSUME NEW known, Kept(known), NEW kvs, Len(kvs) \in Nat, DOMAIN kvs = 1..Len(kvs),
           \A n \in 1..Len(kvs) : kvs[n][1] \in DOMAIN Cap
    PROVE  /\ Kept(Ask(known, kvs)) /\ Grown(known, Ask(known, kvs))
           /\ \A x \in Answers(known, kvs) : Told(Ask(known, kvs), x)
<1> DEFINE N == Len(kvs)
           after == Asking(known, kvs)
           answer(n) == <<kvs[n][1], kvs[n][2], Value(after[n - 1], kvs[n][1], kvs[n][2])>>
           T == {n \in 0..N : /\ Kept(after[n]) /\ Grown(known, after[n])
                              /\ \A m \in 1..n : Told(after[n], answer(m))}
<1>1. AskedUpTo(known, kvs, after, N)
  BY AskingIs
<1> HIDE DEF after, answer
<1>2. 0 \in T
  <2>1. after[0] = known
    BY <1>1 DEF AskedUpTo
  <2>2. Grown(known, known)
    BY DEF Grown
  <2> QED
    BY <2>1, <2>2
<1>3. ASSUME NEW n \in 0..N, n # N, n \in T PROVE n + 1 \in T
  <2>1. n + 1 \in 0..N /\ n + 1 # 0 /\ n + 1 \in 1..N /\ (n + 1) - 1 = n
    BY <1>3
  <2> DEFINE key == kvs[n + 1][1]
             v   == kvs[n + 1][2]
  <2>2. after[n + 1] = Admit(after[n], key, v) /\ key \in DOMAIN Cap
    BY <1>1, <2>1 DEF AskedUpTo
  <2>3. answer(n + 1) = <<key, v, Value(after[n], key, v)>>
    BY <2>1 DEF answer
  <2> HIDE DEF key, v
  <2>4. /\ Kept(after[n + 1]) /\ Grown(after[n], after[n + 1]) /\ Told(after[n + 1], answer(n + 1))
    BY <1>3, <2>2, <2>3, AdmitGrows
  <2>5. Grown(known, after[n + 1])
    BY <1>3, <2>4, GrownOn
  <2>6. ASSUME NEW m \in 1..n + 1 PROVE Told(after[n + 1], answer(m))
    <3>1. CASE m = n + 1
      BY <2>4, <3>1
    <3>2. CASE m # n + 1
      <4>1. m \in 1..n
        BY <3>2
      <4> QED
        BY <1>3, <2>4, <4>1, ToldLater
    <3> QED
      BY <3>1, <3>2
  <2> QED
    BY <2>1, <2>4, <2>5, <2>6
<1>4. N \in T
  <2>1. \A n \in 0..N : n \in T
    <3> HIDE DEF T
    <3> QED
      BY <1>2, <1>3, UpTo
  <2> QED
    BY <2>1
<1>5. Ask(known, kvs) = after[N]
  BY DEF Ask, after
<1>6. \A x \in Answers(known, kvs) : \E n \in 1..N : x = answer(n)
  BY DEF Answers, after, answer
<1> QED
  BY <1>4, <1>5, <1>6

-----------------------------------------------------------------------------
(* What was exported.                                                      *)

\* Pairs the guard is asked for.
Pairs(kvs) ==
    Len(kvs) \in Nat /\ DOMAIN kvs = 1..Len(kvs) /\ \A n \in 1..Len(kvs) : kvs[n][1] \in DOMAIN Cap

LEMMA PairsOfSeq ==
    ASSUME NEW V, NEW kvs \in Seq(Guarded \X V)
    PROVE  Pairs(kvs)
<1>1. Len(kvs) \in Nat /\ DOMAIN kvs = 1..Len(kvs)
  OBVIOUS
<1>2. ASSUME NEW n \in 1..Len(kvs) PROVE kvs[n][1] \in DOMAIN Cap
  <2>1. kvs[n] \in Guarded \X V
    OBVIOUS
  <2>2. kvs[n][1] \in Guarded
    BY <2>1
  <2> QED
    BY <2>2, Assumed
<1> QED
  BY <1>1, <1>2 DEF Pairs

LEMMA SaidIs ==
    ASSUME NEW V, NEW key \in Guarded, NEW v \in V
    PROVE  Said(key, v) \in Seq(Guarded \X V)
<1>1. <<>> \in Seq(Guarded \X V) /\ <<<<key, v>>>> \in Seq(Guarded \X V)
  OBVIOUS
<1> QED
  BY <1>1 DEF Said

LEMMA NamesOf ==
    ASSUME NEW S, NEW s \in Seq(S)
    PROVE  Len(s) \in Nat /\ DOMAIN s = 1..Len(s) /\ \A n \in 1..Len(s) : s[n] \in S
OBVIOUS

LEMMA FollowedAre ==
    /\ "gen_ai.request.model" \in Guarded /\ "account_id" \in Guarded
    /\ "gen_ai.tool.name" \in Guarded
BY DEF Guarded

LEMMA ValuesAre ==
    ASSUME NEW t \in Offers
    PROVE  Pairs(OwnValues(t)) /\ Pairs(ValuesOf(t))
<1> DEFINE V == {t.model, t.accountID} \cup STRING
           P == Guarded \X V
           names == [n \in DOMAIN t.tools |-> <<"gen_ai.tool.name", t.tools[n]>>]
<1>1. t.tools \in Seq(STRING)
  BY Assumed
<1>2. Len(t.tools) \in Nat /\ DOMAIN t.tools = 1..Len(t.tools) /\ \A n \in 1..Len(t.tools) : t.tools[n] \in V
  BY <1>1, NamesOf, Zenon
<1>3. t.model \in V /\ t.accountID \in V
  OBVIOUS
<1> HIDE DEF V
<1>4. names \in Seq(P)
  BY <1>2, FollowedAre
<1>5. Said("gen_ai.request.model", t.model) \in Seq(P) /\ Said("account_id", t.accountID) \in Seq(P)
  BY <1>3, FollowedAre, SaidIs
<1>6. OwnValues(t) \in Seq(P)
  <2> HIDE DEF P
  <2> QED
    BY <1>5 DEF OwnValues
<1>7. ValuesOf(t) \in Seq(P)
  <2>1. ValuesOf(t) = OwnValues(t) \o names
    BY DEF ValuesOf
  <2> HIDE DEF P, names
  <2> QED
    BY <1>4, <1>6, <2>1
<1> QED
  BY <1>6, <1>7, PairsOfSeq

LEMMA AccountIs ==
    ASSUME NEW a
    PROVE  Pairs(<<<<"account_id", a>>>>)
<1> DEFINE V == {a}
<1>1. a \in V
  OBVIOUS
<1> HIDE DEF V
<1>2. <<<<"account_id", a>>>> \in Seq(Guarded \X V)
  BY <1>1, FollowedAre
<1> QED
  BY <1>2, PairsOfSeq

\* The guard keeps to its caps, and what was exported is what it still says.
Guards == Kept(seen) /\ \A x \in shown : Told(seen, x)

LEMMA InitGuards == Init => Guards
<1> SUFFICES ASSUME Init PROVE Guards
  OBVIOUS
<1>1. shown = {} /\ seen = [k \in DOMAIN Cap |-> {}]
  BY DEF Init
<1>2. \A k \in DOMAIN Cap : seen[k] = {}
  BY <1>1
<1>3. seen = [k \in DOMAIN Cap |-> seen[k]]
  BY <1>1
<1>4. IsFiniteSet({}) /\ Cardinality({}) = 0
  BY FS_EmptySet
<1>5. Kept(seen)
  BY <1>2, <1>3, <1>4, CapIs DEF Kept
<1> QED
  BY <1>1, <1>5 DEF Guards

LEMMA ExportGuards ==
    ASSUME Guards, NEW kvs, Pairs(kvs), Exports(kvs)
    PROVE  Guards'
<1>1. /\ Kept(Ask(seen, kvs)) /\ Grown(seen, Ask(seen, kvs))
      /\ \A x \in Answers(seen, kvs) : Told(Ask(seen, kvs), x)
  BY AskGrows DEF Guards, Pairs
<1>2. seen' = Ask(seen, kvs) /\ shown' = shown \cup Answers(seen, kvs)
  BY DEF Exports
<1>3. \A x \in shown : Told(seen', x)
  BY <1>1, <1>2, ToldLater DEF Guards
<1> QED
  BY <1>1, <1>2, <1>3 DEF Guards

LEMMA NextGuards == Guards /\ [Next]_metricVars => Guards'
<1> SUFFICES ASSUME Guards, [Next]_metricVars PROVE Guards'
  OBVIOUS
<1>1. ASSUME NEW t \in Offers, Emit(t) PROVE Guards'
  BY <1>1, ValuesAre, ExportGuards DEF Emit
<1>2. ASSUME Describe PROVE Guards'
  <2>1. PICK kvs \in {ValuesOf(t) : t \in Offers} \cup {OwnValues(t) : t \in Offers} : Exports(kvs)
    BY <1>2 DEF Describe
  <2>2. Pairs(kvs)
    BY ValuesAre
  <2> QED
    BY <2>1, <2>2, ExportGuards
<1>3. ASSUME Collect PROVE Guards'
  <2>1. PICK a \in Accounts : Exports(<<<<"account_id", a>>>>)
    BY <1>3 DEF Collect
  <2> QED
    BY <2>1, AccountIs, ExportGuards
<1>4. CASE Register \/ Close \/ UNCHANGED metricVars
  <2>1. UNCHANGED <<seen, shown>>
    BY <1>4 DEF Register, Close, metricVars
  <2> QED
    BY <2>1 DEF Guards
<1> QED
  BY <1>1, <1>2, <1>3, <1>4 DEF Next

LEMMA GuardsHold == Spec => []Guards
BY InitGuards, NextGuards, PTL DEF Spec

\* A key is exported with the values the guard knows and the one for all others.
LEMMA FewValues ==
    ASSUME Guards, NEW k \in DOMAIN Cap
    PROVE  Cardinality({x[3] : x \in {y \in shown : y[1] = k}}) <= Cap[k] + 1
<1> DEFINE told == {x[3] : x \in {y \in shown : y[1] = k}}
           may  == seen[k] \cup {OtherValue}
<1>1. IsFiniteSet(seen[k]) /\ Cardinality(seen[k]) <= Cap[k] /\ Cap[k] \in Nat
  BY CapIs DEF Guards, Kept
<1>2. Cardinality(seen[k]) \in Nat
  BY <1>1, FS_CardinalityType
<1>3. told \subseteq may
  <2> SUFFICES ASSUME NEW x \in shown, x[1] = k PROVE x[3] \in may
    OBVIOUS
  <2> QED
    BY DEF Guards, Told
<1>4. /\ IsFiniteSet(may)
      /\ OtherValue \in seen[k] => may = seen[k]
      /\ OtherValue \notin seen[k] => Cardinality(may) = Cardinality(seen[k]) + 1
  BY <1>1, FS_AddElement
<1>5. Cardinality(may) <= Cap[k] + 1
  <2>1. CASE OtherValue \in seen[k]
    <3>1. may = seen[k]
      BY <2>1
    <3> HIDE DEF may
    <3> QED
      BY <1>1, <1>2, <3>1
  <2>2. CASE OtherValue \notin seen[k]
    <3> HIDE DEF may
    <3> QED
      BY <1>1, <1>2, <1>4, <2>2
  <2> QED
    BY <2>1, <2>2
<1>6. Cardinality(told) \in Nat /\ Cardinality(may) \in Nat /\ Cardinality(told) <= Cardinality(may)
  BY <1>3, <1>4, FS_Subset, FS_CardinalityType
<1> HIDE DEF told, may
<1>7. Cardinality(told) <= Cap[k] + 1
  BY <1>1, <1>5, <1>6
<1> QED
  BY <1>7 DEF told

\* A value has one name.
LEMMA OneName ==
    ASSUME Guards, NEW x \in shown, NEW y \in shown, x[1] = y[1], x[2] = y[2]
    PROVE  x[3] = y[3]
BY DEF Guards, Told

LEMMA GuardsAreShort == Remembered => Len(costOrder) <= CostLimit /\ Len(proxyWaitOrder) <= CostLimit
<1>1. ASSUME NEW S, NEW ids \in Seq(S) PROVE Len(Latest(WithId(ids))) <= CostLimit
  <2> DEFINE known == WithId(ids)
  <2>1. known \in Seq(S)
    BY KnownIsSeq
  <2> HIDE DEF known
  <2>2. /\ Len(known) \in Nat /\ Forgotten(known) \in Nat
        /\ Len(known) <= CostLimit => Forgotten(known) = 0
        /\ Len(known) >= CostLimit => Forgotten(known) = Len(known) - CostLimit
    BY <2>1, ForgottenIs
  <2>3. Len(Latest(known)) = Len(known) - Forgotten(known)
    BY <2>1, LatestIs
  <2>4. Len(Latest(known)) <= CostLimit
    BY <2>2, <2>3, LimitIs
  <2> QED
    BY <2>4 DEF known
<1> QED
  BY <1>1 DEF Remembered

-----------------------------------------------------------------------------
(* The attributes: what the registry has.                                  *)

\* What comes with a call is not of the turn.
LEMMA CallersApart ==
    /\ (CallerBounded \cup CallerContent) \cap OfTurn = {}
    /\ CallerBounded \cap MetricKeys = {}
<1>1. (CallerBounded \cup CallerContent) \cap OfTurn = {}
  BY DEF CallerBounded, CallerContent, OfTurn, TurnBounded, RoutingBounded, ModelBounded,
         OutcomeBounded, ContentBounded, TurnIdentity, UsageIdentity
<1>2. CallerBounded \cap {"gen_ai.provider", "gen_ai.operation"} = {}
  BY DEF CallerBounded
<1>3. TurnBounded \subseteq OfTurn
  BY DEF OfTurn
<1> QED
  BY <1>1, <1>2, <1>3 DEF MetricKeys

LEMMA KeysOfTurns ==
    /\ \A k \in DOMAIN CountKeys   : CountKeys[k] \subseteq MetricKeys
    /\ \A k \in DOMAIN LatencyKeys : LatencyKeys[k] \subseteq MetricKeys
    /\ \A k \in DOMAIN EventKeys   : EventKeys[k] \subseteq MetricKeys
    /\ \A k \in DOMAIN AccountKeys : AccountKeys[k] \subseteq MetricKeys
<1> USE DEF MetricKeys, TurnBounded, RoutingBounded, ModelBounded, OutcomeBounded,
            Named, Cohort, Models, Tiered, Shape, Account, Failed, Response, Spent
<1>1. \A k \in DOMAIN CountKeys : CountKeys[k] \subseteq MetricKeys
  BY DEF CountKeys
<1>2. \A k \in DOMAIN LatencyKeys : LatencyKeys[k] \subseteq MetricKeys
  BY DEF LatencyKeys
<1>3. \A k \in DOMAIN EventKeys : EventKeys[k] \subseteq MetricKeys
  BY DEF EventKeys
<1>4. \A k \in DOMAIN AccountKeys : AccountKeys[k] \subseteq MetricKeys
  BY DEF AccountKeys
<1> QED
  BY <1>1, <1>2, <1>3, <1>4

LEMMA KeysAre ==
    ASSUME NEW k \in KeyNames
    PROVE  Keys[k] \subseteq MetricKeys /\ Keys[k] \cap CallerBounded = {}
<1>1. Keys[k] \subseteq MetricKeys
  BY KeysOfTurns DEF Keys, KeyNames
<1> QED
  BY <1>1, CallersApart

LEMMA OwnIs ==
    ASSUME NEW name, NEW k \in KeyNames
    PROVE  WellMeasured(Plain(name, k)) /\ WellMeasured(Under(name, k, <<>>))
<1> DEFINE extra == <<>>
<1>1. ToSet(extra) = {} /\ IsInjective(extra)
  BY DEF ToSet, IsInjective
<1> QED
  BY <1>1, KeysAre DEF Plain, Under, WellMeasured

LEMMA WithOneIs ==
    ASSUME NEW name, NEW k \in KeyNames, NEW a \in CallerBounded \cup TurnBounded, a \notin Keys[k]
    PROVE  WellMeasured(Under(name, k, <<a>>))
<1> DEFINE extra == <<a>>
<1>1. ToSet(extra) = {a} /\ IsInjective(extra)
  BY DEF ToSet, IsInjective
<1> QED
  BY <1>1, KeysAre DEF Under, WellMeasured

LEMMA WithTwoIs ==
    ASSUME NEW name, NEW k \in KeyNames, NEW a \in CallerBounded \cup TurnBounded,
           NEW b \in CallerBounded \cup TurnBounded, a # b, a \notin Keys[k], b \notin Keys[k]
    PROVE  WellMeasured(Under(name, k, <<a, b>>))
<1> DEFINE extra == <<a, b>>
<1>1. ToSet(extra) = {a, b} /\ IsInjective(extra)
  BY DEF ToSet, IsInjective
<1> QED
  BY <1>1, KeysAre DEF Under, WellMeasured

LEMMA CallersAre ==
    /\ {"result", "proxy_wait_kind", "quota_limit_family", "quota_window", "content_item_kind",
        "window_minutes", "gen_ai.tool.name", "gen_ai.token.type", "gen_ai.token.semantics"}
           \subseteq CallerBounded
    /\ "gen_ai.request.model" \in TurnBounded
BY DEF CallerBounded, TurnBounded, ModelBounded

LEMMA CountNames ==
    {"responses", "turns", "tokens", "tokenUsage", "costUSD", "proxyWait", "proxyWaitCoverage"}
        \subseteq KeyNames
BY DEF KeyNames, CountKeys

LEMMA LatencyNames == {"operationDuration", "turnDuration", "tbt"} \subseteq KeyNames
BY DEF KeyNames, LatencyKeys

LEMMA EventNames ==
    {"errors", "transportEvents", "toolCalls", "toolCallsPerOperation"} \subseteq KeyNames
BY DEF KeyNames, EventKeys

LEMMA AccountNames ==
    {"rateLimit", "account", "quotaFailures", "stickyRouting", "contentItemKinds"} \subseteq KeyNames
BY DEF KeyNames, AccountKeys

LEMMA TableNames ==
    /\ \A i \in DOMAIN Positive : Positive[i][2] \in KeyNames
    /\ \A i \in DOMAIN Preferred : Preferred[i][3] \in KeyNames
    /\ \A i \in DOMAIN Present : i \in KeyNames
<1> USE DEF KeyNames, CountKeys, LatencyKeys, EventKeys, AccountKeys
<1>1. \A i \in DOMAIN Positive : Positive[i][2] \in KeyNames
  BY DEF Positive
<1>2. \A i \in DOMAIN Preferred : Preferred[i][3] \in KeyNames
  BY DEF Preferred
<1>3. \A i \in DOMAIN Present : i \in KeyNames
  BY DEF Present
<1> QED
  BY <1>1, <1>2, <1>3

LEMMA CountsAre ==
    ASSUME NEW t, NEW x \in Counts(t)
    PROVE  WellMeasured(x)
<1>1. \/ x \in {Own("responses"), Own("turns"), Own("errors"), Own("transportEvents"), Own("stickyRouting")}
      \/ \E i \in DOMAIN Present : x = Own(i)
  BY DEF Counts, When
<1> QED
  BY <1>1, OwnIs, CountNames, EventNames, AccountNames, TableNames DEF Own

LEMMA TokensAre ==
    ASSUME NEW t, NEW x \in TokenCounts(t)
    PROVE  WellMeasured(x)
<1>1. x \in {Under("tokens", "tokens", <<"gen_ai.token.type">>),
             Under("tokenUsage", "tokenUsage", <<"gen_ai.token.type", "gen_ai.token.semantics">>)}
  BY DEF TokenCounts, When
<1>2. WellMeasured(Under("tokens", "tokens", <<"gen_ai.token.type">>))
  BY WithOneIs, KeysAre, CountNames, CallersAre
<1>3. WellMeasured(Under("tokenUsage", "tokenUsage", <<"gen_ai.token.type", "gen_ai.token.semantics">>))
  BY WithTwoIs, KeysAre, CountNames, CallersAre
<1> QED
  BY <1>1, <1>2, <1>3

LEMMA ToolCallsAre ==
    ASSUME NEW t, NEW x \in ToolCalls(t)
    PROVE  WellMeasured(x)
<1>1. x \in {Under("toolCalls", "toolCalls", <<"gen_ai.tool.name">>), Own("toolCallsPerOperation")}
  BY DEF ToolCalls, When
<1>2. WellMeasured(Under("toolCalls", "toolCalls", <<"gen_ai.tool.name">>))
  BY WithOneIs, KeysAre, EventNames, CallersAre
<1>3. WellMeasured(Own("toolCallsPerOperation"))
  BY OwnIs, EventNames DEF Own
<1> QED
  BY <1>1, <1>2, <1>3

LEMMA DurationsAre ==
    ASSUME NEW t, NEW x \in Durations(t)
    PROVE  WellMeasured(x)
<1>1. \/ x \in {Own("operationDuration"), Own("turnDuration"), Plain("engineServiceMinusIapiTBT", "tbt")}
      \/ \E i \in DOMAIN Positive : x = Under(i, Positive[i][2], Extras(i))
      \/ \E i \in DOMAIN Preferred : x = Plain(i, Preferred[i][3])
  BY DEF Durations, When
<1>2. CASE x \in {Own("operationDuration"), Own("turnDuration"), Plain("engineServiceMinusIapiTBT", "tbt")}
  BY <1>2, OwnIs, LatencyNames DEF Own
<1>3. ASSUME NEW i \in DOMAIN Positive, x = Under(i, Positive[i][2], Extras(i)) PROVE WellMeasured(x)
  <2>1. CASE i = "contentItemKinds"
    BY <1>3, <2>1, TableNames, WithOneIs, KeysAre, CallersAre DEF Extras
  <2>2. CASE i # "contentItemKinds"
    BY <1>3, <2>2, TableNames, OwnIs DEF Extras
  <2> QED
    BY <2>1, <2>2
<1>4. ASSUME NEW i \in DOMAIN Preferred, x = Plain(i, Preferred[i][3]) PROVE WellMeasured(x)
  BY <1>4, TableNames, OwnIs
<1> QED
  BY <1>1, <1>2, <1>3, <1>4

LEMMA LimitsAre ==
    ASSUME NEW t, NEW x \in RateLimits(t)
    PROVE  WellMeasured(x)
<1>1. \/ \E i : x = Under(i, "rateLimit", <<"window_minutes">>)
      \/ x = Plain("rateLimitReached", "account")
      \/ x = Under("rateLimitPerModel", "rateLimit", <<"gen_ai.request.model", "window_minutes">>)
      \/ x = Under("rateLimitModelReached", "account", <<"gen_ai.request.model">>)
  BY DEF RateLimits, When
<1>2. "rateLimit" \in KeyNames /\ "account" \in KeyNames
  BY AccountNames
<1>3. "gen_ai.request.model" \notin Keys["rateLimit"] /\ "gen_ai.request.model" \notin Keys["account"]
  BY <1>2 DEF Keys, KeyNames, CountKeys, LatencyKeys, EventKeys, AccountKeys, Account
<1>4. ASSUME NEW i PROVE WellMeasured(Under(i, "rateLimit", <<"window_minutes">>))
  BY <1>2, WithOneIs, KeysAre, CallersAre
<1>5. WellMeasured(Plain("rateLimitReached", "account"))
  BY <1>2, OwnIs
<1>6. WellMeasured(Under("rateLimitPerModel", "rateLimit", <<"gen_ai.request.model", "window_minutes">>))
  BY <1>2, <1>3, WithTwoIs, KeysAre, CallersAre
<1>7. WellMeasured(Under("rateLimitModelReached", "account", <<"gen_ai.request.model">>))
  BY <1>2, <1>3, WithOneIs, KeysAre, CallersAre
<1> QED
  BY <1>1, <1>4, <1>5, <1>6, <1>7

LEMMA CreditsAre ==
    ASSUME NEW t, NEW x \in Credits(t)
    PROVE  WellMeasured(x)
<1>1. x \in {Plain("creditsUnlimited", "rateLimit"), Plain("creditsBalance", "rateLimit")}
  BY DEF Credits, When
<1> QED
  BY <1>1, OwnIs, AccountNames

LEMMA QuotasAre ==
    ASSUME NEW t, NEW x \in QuotaFailures(t)
    PROVE  WellMeasured(x)
<1>1. \/ x = Own("quotaFailures")
      \/ \E i : x = Under(i, "account", <<"quota_limit_family", "quota_window">>)
  BY DEF QuotaFailures, When
<1>2. WellMeasured(Own("quotaFailures"))
  BY OwnIs, AccountNames DEF Own
<1>3. ASSUME NEW i PROVE WellMeasured(Under(i, "account", <<"quota_limit_family", "quota_window">>))
  BY WithTwoIs, KeysAre, AccountNames, CallersAre
<1> QED
  BY <1>1, <1>2, <1>3

LEMMA WaitsAre ==
    ASSUME NEW t, NEW x \in Waited(t)
    PROVE  WellMeasured(x)
<1>1. x \in {Under("proxyWaitCoverage", "proxyWaitCoverage", <<"proxy_wait_kind", "result">>),
             Under("proxyWait", "proxyWait", <<"proxy_wait_kind">>)}
  BY DEF Waited, When
<1>2. WellMeasured(Under("proxyWaitCoverage", "proxyWaitCoverage", <<"proxy_wait_kind", "result">>))
  BY WithTwoIs, KeysAre, CountNames, CallersAre
<1>3. WellMeasured(Under("proxyWait", "proxyWait", <<"proxy_wait_kind">>))
  BY WithOneIs, KeysAre, CountNames, CallersAre
<1> QED
  BY <1>1, <1>2, <1>3

LEMMA MeasuresAre == MeasuresOnContract
<1> SUFFICES ASSUME NEW emitted, NEW x \in Added(emitted) PROVE WellMeasured(x)
  BY DEF MeasuresOnContract
<1> DEFINE t == emitted.turn
<1>1. \/ x \in Counts(t) \/ x \in TokenCounts(t) \/ x \in ToolCalls(t) \/ x \in Durations(t)
      \/ x \in RateLimits(t) \/ x \in Credits(t) \/ x \in QuotaFailures(t)
      \/ x = Own("costUSD") \/ x \in Waited(t)
  BY DEF Added, Measured, When
<1>2. WellMeasured(Own("costUSD"))
  BY OwnIs, CountNames DEF Own
<1> HIDE DEF t
<1> QED
  BY <1>1, <1>2, CountsAre, TokensAre, ToolCallsAre, DurationsAre, LimitsAre, CreditsAre,
     QuotasAre, WaitsAre

-----------------------------------------------------------------------------
(* What lines and spans carry.                                             *)

LEMMA ContentAre ==
    ContentKeys \cup {"gen_ai.tool.name", "tool_call_id", "tool_type", "tool_call_arguments",
                      "tool_call_result", "subagent_task", "tool_origin_response_id",
                      "tool_origin_match"} \cup Waits
        \subseteq CallerBounded \cup CallerContent
BY DEF ContentKeys, Waits, CallerBounded, CallerContent

LEMMA OwnNames ==
    /\ CallBase \cup {"critical_path_coverage"} \cup RootOnly \subseteq OfTurn
    /\ {"gen_ai.operation", "gen_ai.provider", "sdk_name", "generation_id", "temperature",
        "top_p", "tool_call_status", "service_name", "record_type"}
           \cap (OfTurn \cup CallerBounded \cup CallerContent) = {}
<1> USE DEF OfTurn, TurnBounded, RoutingBounded, ModelBounded, OutcomeBounded, ContentBounded,
            TurnIdentity, UsageIdentity
<1>1. CallBase \cup {"critical_path_coverage"} \cup RootOnly \subseteq OfTurn
  BY DEF CallBase, RootOnly
<1>2. {"gen_ai.operation", "gen_ai.provider", "sdk_name", "generation_id", "temperature",
       "top_p", "tool_call_status", "service_name", "record_type"} \cap OfTurn = {}
  OBVIOUS
<1>3. {"gen_ai.operation", "gen_ai.provider", "sdk_name", "generation_id", "temperature",
       "top_p", "tool_call_status", "service_name", "record_type"}
           \cap (CallerBounded \cup CallerContent) = {}
  BY DEF CallerBounded, CallerContent
<1> QED
  BY <1>2, <1>1, <1>3

LEMMA CarriedIs ==
    ASSUME NEW of, NEW kept, NEW added, NEW past,
           kept \subseteq OfTurn, added \subseteq CallerBounded \cup CallerContent,
           past \cap (kept \cup added) = {}
    PROVE  WellPlaced(Carries(of, kept, added, past))
BY CallersApart DEF WellPlaced, Carries, SpanKeys, Registered

LEMMA SpansAre ==
    ASSUME NEW x \in SpansCarry
    PROVE  WellPlaced(x)
<1>1. Base \subseteq OfTurn /\ Base \cap (Enrichment \cup Measures) = {}
  BY DEF Base, SpanKeys
<1>2. CallBase \subseteq OfTurn /\ Only(SpanKeys, RootOnly) \subseteq OfTurn
  BY OwnNames DEF Only, SpanKeys
<1>3. WellPlaced(Carries("turn", Base \cup Only(SpanKeys, RootOnly), {}, {}))
  BY <1>1, <1>2, CarriedIs
<1>4. WellPlaced(Carries("response", Base, {},
                 {"gen_ai.operation", "gen_ai.provider", "sdk_name", "generation_id",
                  "temperature", "top_p"} \cup Enrichment \cup Measures \cup Waits))
  BY <1>1, CallersApart, OwnNames, ContentAre, CarriedIs
<1>5. WellPlaced(Carries("phase", {"critical_path_coverage", "response_id", "thread_id", "status"}, {}, {}))
  BY OwnNames, CarriedIs DEF CallBase
<1>6. WellPlaced(Carries("tool_call", CallBase,
                 ContentKeys \cup {"gen_ai.tool.name", "tool_call_id", "tool_type",
                     "tool_call_arguments", "tool_call_result", "subagent_task"},
                 {"gen_ai.operation", "tool_call_status"}))
  BY <1>2, OwnNames, ContentAre, CarriedIs
<1>7. WellPlaced(Carries("tool_result", CallBase,
                 ContentKeys \cup {"gen_ai.tool.name", "tool_call_id", "tool_call_result",
                     "tool_origin_response_id", "tool_origin_match"}, {}))
  BY <1>2, ContentAre, CarriedIs
<1> QED
  BY <1>3, <1>4, <1>5, <1>6, <1>7 DEF SpansCarry

LEMMA LinesAre ==
    ASSUME NEW promoted, NEW x \in LinesCarry(promoted)
    PROVE  WellPlaced(x)
<1> DEFINE kept == Metadata(promoted)
           past == Labels(promoted)
<1>1. kept \subseteq OfTurn /\ kept \cap promoted = {}
  BY DEF Metadata
<1>2. past \subseteq promoted /\ past \subseteq {"service_name", "record_type"} \cup OfTurn
  BY DEF Labels, OfTurn
<1>3. past \cap (CallerBounded \cup CallerContent) = {}
  BY <1>2, CallersApart, OwnNames
<1> HIDE DEF kept, past
<1>4. \A added \in SUBSET (CallerBounded \cup CallerContent) : past \cap (kept \cup added) = {}
  BY <1>1, <1>2, <1>3
<1>5. WellPlaced(Carries("turn", kept, {}, past))
  BY <1>1, <1>4, CarriedIs
<1>6. WellPlaced(Carries("content", kept, ContentKeys, past))
  BY <1>1, <1>4, ContentAre, CarriedIs
<1>7. WellPlaced(Carries("tool_call", kept, ContentKeys \cup {"gen_ai.tool.name"}, past))
  BY <1>1, <1>4, ContentAre, CarriedIs
<1> QED
  BY <1>5, <1>6, <1>7 DEF LinesCarry, kept, past

LEMMA DocumentsAre == DocumentsOnContract
BY SpansAre, LinesAre DEF DocumentsOnContract

-----------------------------------------------------------------------------
(* All limits.                                                             *)

Counted == gauges \in {"none", "registered", "closed"} /\ offered \in 0..MaxOffers

LEMMA StagesHold == Spec => []Counted
<1>1. MaxOffers \in Nat
  BY Assumed
<1>2. Init => Counted
  BY <1>1 DEF Init, Counted
<1>3. Counted /\ [Next]_metricVars => Counted'
  BY <1>1 DEF Counted, Next, Register, Collect, Close, Describe, Emit, metricVars
<1> QED
  BY <1>2, <1>3, PTL DEF Spec

\* No guard outgrows its limit and no key its cap, a value has one name wherever
\* it goes, whichever sink asked first, and every instrument, span and line asks
\* only for what the registry has for it (sink.go, record.go, attr.go Guard).
THEOREM LimitsAreKept == Spec => []WithinLimits
<1>1. Counted /\ Remembered /\ Guards => WithinLimits
  BY GuardsAreShort, FewValues, OneName, MeasuresAre, DocumentsAre DEF Counted, WithinLimits
<1> QED
  BY <1>1, StagesHold, Remembers, GuardsHold, PTL
=============================================================================

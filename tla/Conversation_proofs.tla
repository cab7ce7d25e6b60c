------------------------- MODULE Conversation_proofs ------------------------
(***************************************************************************)
(* Proofs about the capture of conversations (Conversation), for any       *)
(* threads, ids, texts, limits, ages and number of mishaps.                *)
(*                                                                         *)
(* The operators of the model come first: what is left of a list, what the *)
(* index keeps, what a lookup and a record make of it, and what capturing  *)
(* the items of a response.create does.  Then the archive, the invariant   *)
(* and its steps, and the theorems.                                        *)
(***************************************************************************)
EXTENDS Conversation, FunctionTheorems, FiniteSetTheorems, SequenceTheorems, MaximumLemmas

-----------------------------------------------------------------------------
(* Constants.                                                              *)

LEMMA Bounds ==
    /\ Threads \subseteq Nat /\ 0 \notin Threads /\ IsFiniteSet(Threads)
    /\ MaxResps \in Nat /\ MaxMishaps \in Nat
    /\ SeenSize \in Nat /\ SeenSize > 0 /\ CallLimit \in Nat /\ CallLimit > 0
    /\ ThreadLimit \in Nat /\ ThreadLimit > 0
    /\ MaxAge \in Nat /\ SweepEvery \in Nat /\ EvictAfter \in Nat
BY ConversationAssumption DEF ConversationAssumption

LEMMA NoNoCall == None \notin CallIds
BY ConversationAssumption DEF ConversationAssumption

LEMMA UpToHas ==
    ASSUME NEW n \in Nat
    PROVE  IsFiniteSet(1..n) /\ Cardinality(1..n) = n
<1>1. 1 \in Int /\ n \in Int
  OBVIOUS
<1>2. /\ IsFiniteSet(1..n)
      /\ Cardinality(1..n) = IF 1 > n THEN 0 ELSE n - 1 + 1
  BY <1>1, FS_Interval
<1> QED
  BY <1>2

-----------------------------------------------------------------------------
(* Kept.                                                                   *)

KeptUpTo(entries, places, f, m) ==
    /\ f = [n \in 0..m |-> f[n]]
    /\ \A n \in 0..m :
          f[n] = IF n = 0 THEN <<>>
                 ELSE IF n \in places THEN Append(f[n - 1], entries[n]) ELSE f[n - 1]

\* The recursion that defines Kept has a solution.
LEMMA KeptExists ==
    ASSUME NEW entries, NEW places, NEW N \in Nat
    PROVE  \E f : KeptUpTo(entries, places, f, N)
<1> DEFINE T == {m \in Nat : \E f : KeptUpTo(entries, places, f, m)}
<1>1. 0 \in T
  <2> DEFINE f == [n \in 0..0 |-> <<>>]
  <2>1. KeptUpTo(entries, places, f, 0)
    BY DEF KeptUpTo
  <2> HIDE DEF f
  <2> QED
    BY <2>1
<1>2. ASSUME NEW m \in Nat, m \in T PROVE m + 1 \in T
  <2>1. PICK f : KeptUpTo(entries, places, f, m)
    BY <1>2
  <2> DEFINE g == [n \in 0..m + 1 |->
                     IF n # m + 1 THEN f[n]
                     ELSE IF n \in places THEN Append(f[m], entries[n]) ELSE f[m]]
  <2>2. KeptUpTo(entries, places, g, m + 1)
    <3>1. g = [n \in 0..m + 1 |-> g[n]]
      OBVIOUS
    <3>2. ASSUME NEW n \in 0..m + 1
          PROVE  g[n] = IF n = 0 THEN <<>>
                        ELSE IF n \in places THEN Append(g[n - 1], entries[n]) ELSE g[n - 1]
      <4>1. CASE n = m + 1
        BY <4>1
      <4>2. CASE n # m + 1
        <5>1. n \in 0..m /\ g[n] = f[n] /\ (n # 0 => g[n - 1] = f[n - 1])
          BY <4>2
        <5> QED
          BY <2>1, <5>1 DEF KeptUpTo
      <4> QED
        BY <4>1, <4>2
    <3> HIDE DEF g
    <3> QED
      BY <3>1, <3>2 DEF KeptUpTo
  <2> HIDE DEF g
  <2> QED
    BY <2>2
<1> HIDE DEF T
<1>3. \A n \in 0..N : n \in T
  BY <1>1, <1>2, UpTo
<1> QED
  BY <1>3 DEF T

LEMMA KeptSteps ==
    ASSUME NEW entries, NEW places, Len(entries) \in Nat
    PROVE  \E f : KeptUpTo(entries, places, f, Len(entries)) /\ Kept(entries, places) = f[Len(entries)]
<1> DEFINE N == Len(entries)
           kept == CHOOSE f : f = [n \in 0..N |->
                       IF n = 0 THEN <<>>
                       ELSE IF n \in places THEN Append(f[n - 1], entries[n]) ELSE f[n - 1]]
<1>1. Kept(entries, places) = kept[N]
  BY DEF Kept
<1>2. PICK f : KeptUpTo(entries, places, f, N)
  BY KeptExists
<1>3. f = [n \in 0..N |-> IF n = 0 THEN <<>>
                       ELSE IF n \in places THEN Append(f[n - 1], entries[n]) ELSE f[n - 1]]
  BY <1>2 DEF KeptUpTo
<1>4. kept = [n \in 0..N |-> IF n = 0 THEN <<>>
                       ELSE IF n \in places THEN Append(kept[n - 1], entries[n]) ELSE kept[n - 1]]
  BY <1>3, Zenon
<1>5. KeptUpTo(entries, places, kept, N)
  <2> HIDE DEF kept
  <2> QED
    BY <1>4 DEF KeptUpTo
<1> QED
  BY <1>1, <1>5

\* a has elements of b, each as often as b at most.
Thinned(a, b) ==
    \E f \in [1..Len(a) -> 1..Len(b)] :
        /\ \A i, j \in 1..Len(a) : f[i] = f[j] => i = j
        /\ \A i \in 1..Len(a) : a[i] = b[f[i]]

LEMMA ThinnedSelf ==
    ASSUME NEW a, Len(a) \in Nat
    PROVE  Thinned(a, a)
<1> DEFINE f == [i \in 1..Len(a) |-> i]
<1>1. f \in [1..Len(a) -> 1..Len(a)] /\ \A i \in 1..Len(a) : f[i] = i
  OBVIOUS
<1> HIDE DEF f
<1> QED
  BY <1>1 DEF Thinned

LEMMA EmptyThinned ==
    ASSUME NEW b
    PROVE  Thinned(<<>>, b)
<1> DEFINE a == <<>>
           f == [i \in 1..Len(a) |-> 0]
<1>1. /\ f \in [1..Len(a) -> 1..Len(b)]
      /\ \A i \in 1..Len(a) : FALSE
  OBVIOUS
<1> HIDE DEF f, a
<1>2. Thinned(a, b)
  BY <1>1 DEF Thinned
<1> QED
  BY <1>2 DEF a

LEMMA ThinnedTwice ==
    ASSUME NEW a, NEW b, NEW c, Thinned(a, b), Thinned(b, c)
    PROVE  Thinned(a, c)
<1>1. PICK f \in [1..Len(a) -> 1..Len(b)] :
        /\ \A i, j \in 1..Len(a) : f[i] = f[j] => i = j
        /\ \A i \in 1..Len(a) : a[i] = b[f[i]]
  BY DEF Thinned
<1>2. PICK g \in [1..Len(b) -> 1..Len(c)] :
        /\ \A i, j \in 1..Len(b) : g[i] = g[j] => i = j
        /\ \A i \in 1..Len(b) : b[i] = c[g[i]]
  BY DEF Thinned
<1> DEFINE h == [i \in 1..Len(a) |-> g[f[i]]]
<1>3. h \in [1..Len(a) -> 1..Len(c)]
  OBVIOUS
<1>4. \A i \in 1..Len(a) : h[i] = g[f[i]] /\ f[i] \in 1..Len(b)
  OBVIOUS
<1> HIDE DEF h
<1>5. \A i, j \in 1..Len(a) : h[i] = h[j] => i = j
  BY <1>1, <1>2, <1>4
<1>6. ASSUME NEW i \in 1..Len(a)
      PROVE  a[i] = c[h[i]]
  <2>1. f[i] \in 1..Len(b) /\ h[i] = g[f[i]] /\ a[i] = b[f[i]]
    BY <1>1, <1>4
  <2>2. b[f[i]] = c[g[f[i]]]
    BY <1>2, <2>1
  <2> QED
    BY <2>1, <2>2
<1> QED
  BY <1>3, <1>5, <1>6 DEF Thinned

LEMMA ThinnedIs ==
    ASSUME NEW S, NEW a, NEW b \in Seq(S), Len(a) \in Nat, Thinned(a, b)
    PROVE  /\ Len(a) <= Len(b)
           /\ \A i \in 1..Len(a) : a[i] \in S /\ \E j \in 1..Len(b) : a[i] = b[j]
<1>1. PICK f \in [1..Len(a) -> 1..Len(b)] :
        /\ \A i, j \in 1..Len(a) : f[i] = f[j] => i = j
        /\ \A i \in 1..Len(a) : a[i] = b[f[i]]
  BY DEF Thinned
<1>2. Len(b) \in Nat /\ \A j \in 1..Len(b) : b[j] \in S
  OBVIOUS
<1>3. \A i \in 1..Len(a) : a[i] \in S /\ \E j \in 1..Len(b) : a[i] = b[j]
  BY <1>1, <1>2
<1>4. Len(a) <= Len(b)
  <2>1. f \in Injection(1..Len(a), 1..Len(b))
    BY <1>1 DEF Injection, IsInjective
  <2>2. \A n \in Nat : IsFiniteSet(1..n) /\ Cardinality(1..n) = n
    BY UpToHas
  <2>3. IsFiniteSet(1..Len(b))
    BY <1>2, <2>2
  <2>4. Cardinality(1..Len(a)) <= Cardinality(1..Len(b))
    BY <2>1, <2>3, FS_Injection
  <2> QED
    BY <1>2, <2>2, <2>4
<1> QED
  BY <1>3, <1>4

\* g says from which places of a list those of another are.
TakenFrom(k, entries, at, g) ==
    /\ g \in [1..Len(k) -> at]
    /\ \A i, j \in 1..Len(k) : g[i] = g[j] => i = j
    /\ \A i \in 1..Len(k) : k[i] = entries[g[i]]

\* What Kept leaves of a list.
LEMMA KeptIs ==
    ASSUME NEW S, NEW entries \in Seq(S), NEW places
    PROVE  LET k == Kept(entries, places)
           IN  /\ k \in Seq(S) /\ Thinned(k, entries)
               /\ \A n \in 1..Len(entries) : n \in places => \E j \in 1..Len(k) : k[j] = entries[n]
               /\ \A j \in 1..Len(k) : \E n \in 1..Len(entries) : n \in places /\ k[j] = entries[n]
<1> DEFINE N == Len(entries)
<1>1. N \in Nat /\ \A n \in 1..N : entries[n] \in S
  OBVIOUS
<1>2. PICK f : KeptUpTo(entries, places, f, N) /\ Kept(entries, places) = f[N]
  BY <1>1, KeptSteps
<1> DEFINE Good(n, k) ==
             /\ k \in Seq(S)
             /\ \E g : TakenFrom(k, entries, (1..n) \cap places, g)
             /\ \A m \in 1..n : m \in places => \E j \in 1..Len(k) : k[j] = entries[m]
           T == {n \in 0..N : Good(n, f[n])}
<1>3. 0 \in T
  <2>1. f[0] = <<>>
    BY <1>1, <1>2 DEF KeptUpTo
  <2> DEFINE g == [i \in 1..0 |-> 0]
             k == f[0]
  <2>2. k \in Seq(S) /\ Len(k) = 0
    BY <2>1
  <2> HIDE DEF k
  <2>3. TakenFrom(k, entries, (1..0) \cap places, g)
    BY <2>2 DEF TakenFrom
  <2> HIDE DEF g
  <2>4. Good(0, k)
    BY <2>2, <2>3
  <2> QED
    BY <1>1, <2>4 DEF k
<1>4. ASSUME NEW n \in 0..N, n # N, n \in T
      PROVE  n + 1 \in T
  <2>1. Good(n, f[n]) /\ n + 1 \in 1..N /\ n + 1 \in 0..N
    <3>1. Good(n, f[n])
      BY <1>4, Zenon
    <3>2. n + 1 \in 1..N /\ n + 1 \in 0..N
      BY <1>1, <1>4
    <3> QED
      BY <3>1, <3>2, Zenon
  <2>2. f[n + 1] = IF n + 1 \in places THEN Append(f[n], entries[n + 1]) ELSE f[n]
    <3>1. n + 1 # 0 /\ (n + 1) - 1 = n
      BY <1>1
    <3> QED
      BY <1>2, <2>1, <3>1 DEF KeptUpTo
  <2> DEFINE k == f[n]
             l == f[n + 1]
  <2>3. PICK g : TakenFrom(k, entries, (1..n) \cap places, g)
    BY <2>1
  <2>4. k \in Seq(S) /\ Len(k) \in Nat /\ \A m \in 1..n : m \in places => \E j \in 1..Len(k) : k[j] = entries[m]
    BY <2>1
  <2>5. CASE n + 1 \notin places
    <3>1. l = k
      BY <2>2, <2>5
    <3>2. (1..n) \cap places = (1..n + 1) \cap places
      BY <1>1, <2>5
    <3>3. \A m \in 1..n + 1 : m \in places => m \in 1..n
      BY <1>1, <2>5
    <3> HIDE DEF k, l
    <3>4. Good(n + 1, k)
      BY <2>3, <2>4, <3>2, <3>3
    <3>5. Good(n + 1, l)
      BY <3>1, <3>4
    <3> QED
      BY <2>1, <3>5 DEF l
  <2>6. CASE n + 1 \in places
    <3>1. l = Append(k, entries[n + 1])
      BY <2>2, <2>6
    <3> HIDE DEF k, l
    <3>2. /\ l \in Seq(S) /\ Len(l) = Len(k) + 1 /\ l[Len(k) + 1] = entries[n + 1]
          /\ \A i \in 1..Len(k) : l[i] = k[i]
      <4>1. entries[n + 1] \in S
        BY <1>1, <2>1
      <4> HIDE DEF N
      <4> QED
        BY <2>4, <3>1, <4>1
    <3> DEFINE h == [i \in 1..Len(l) |-> IF i = Len(l) THEN n + 1 ELSE g[i]]
    <3>3. \A i \in 1..Len(l) : i # Len(l) => i \in 1..Len(k)
      BY <2>4, <3>2
    <3>4. h \in [1..Len(l) -> (1..n + 1) \cap places]
      BY <1>1, <2>3, <2>6, <3>3 DEF TakenFrom
    <3>5. ASSUME NEW i \in 1..Len(k)
          PROVE  h[i] = g[i] /\ g[i] \in 1..n /\ h[i] # n + 1
      <4>1. i \in 1..Len(l) /\ i # Len(l)
        BY <2>4, <3>2
      <4>2. h[i] = g[i] /\ g[i] \in 1..n
        BY <2>3, <4>1 DEF TakenFrom
      <4> QED
        BY <1>1, <4>2
    <3>6. h[Len(l)] = n + 1
      BY <2>4, <3>2
    <3> HIDE DEF h
    <3>7. \A i, j \in 1..Len(l) : h[i] = h[j] => i = j
      BY <2>3, <3>3, <3>5, <3>6 DEF TakenFrom
    <3>8. \A i \in 1..Len(l) : l[i] = entries[h[i]]
      BY <2>3, <2>4, <3>2, <3>3, <3>5, <3>6 DEF TakenFrom
    <3>9. ASSUME NEW m \in 1..n + 1, m \in places
          PROVE  \E j \in 1..Len(l) : l[j] = entries[m]
      <4>1. CASE m = n + 1
        BY <2>4, <3>2, <4>1
      <4>2. CASE m # n + 1
        <5>1. m \in 1..n
          BY <1>1, <4>2
        <5>2. PICK j \in 1..Len(k) : k[j] = entries[m]
          BY <2>4, <3>9, <5>1
        <5> QED
          BY <2>4, <3>2, <5>2
      <4> QED
        BY <4>1, <4>2
    <3>10. TakenFrom(l, entries, (1..n + 1) \cap places, h)
      BY <3>4, <3>7, <3>8 DEF TakenFrom
    <3>11. Good(n + 1, l)
      BY <3>2, <3>9, <3>10
    <3> QED
      BY <2>1, <3>11 DEF l
  <2> QED
    BY <2>5, <2>6
<1> HIDE DEF T
<1>5. N \in T
  <2>1. \A n \in 0..N : n # N /\ n \in T => n + 1 \in T
    BY <1>4
  <2>2. \A n \in 0..N : n \in T
    BY <1>1, <1>3, <2>1, UpTo
  <2> QED
    BY <1>1, <2>2
<1> DEFINE k == f[N]
<1>6. Good(N, k)
  BY <1>5 DEF T
<1>7. k = Kept(entries, places)
  BY <1>2
<1>8. PICK g : TakenFrom(k, entries, (1..N) \cap places, g)
  BY <1>6
<1> HIDE DEF k
<1>9. Thinned(k, entries)
  <2>1. g \in [1..Len(k) -> 1..N]
    BY <1>8 DEF TakenFrom
  <2> QED
    BY <1>8, <2>1 DEF Thinned, TakenFrom
<1>10. \A j \in 1..Len(k) : \E n \in 1..N : n \in places /\ k[j] = entries[n]
  BY <1>8 DEF TakenFrom
<1> QED
  BY <1>6, <1>7, <1>9, <1>10

-----------------------------------------------------------------------------
(* The index.                                                              *)

\* What does not change of an entry.
Core(e) == <<e.id, e.of, e.origin, e.at, e.occurrence>>

\* a has entries of b, each at most as often; some may have been consumed since.
Fewer(a, b) ==
    \E f \in [1..Len(a) -> 1..Len(b)] :
        /\ \A i, j \in 1..Len(a) : f[i] = f[j] => i = j
        /\ \A i \in 1..Len(a) : Core(a[i]) = Core(b[f[i]])

FewerIn(a, b) == \A t \in Threads : Fewer(a.threads[t], b.threads[t])

LEMMA ThinnedFewer ==
    ASSUME NEW a, NEW b, Thinned(a, b)
    PROVE  Fewer(a, b)
BY DEF Thinned, Fewer

LEMMA FewerTwice ==
    ASSUME NEW a, NEW b, NEW c, Fewer(a, b), Fewer(b, c)
    PROVE  Fewer(a, c)
<1>1. PICK f \in [1..Len(a) -> 1..Len(b)] :
        /\ \A i, j \in 1..Len(a) : f[i] = f[j] => i = j
        /\ \A i \in 1..Len(a) : Core(a[i]) = Core(b[f[i]])
  BY DEF Fewer
<1>2. PICK g \in [1..Len(b) -> 1..Len(c)] :
        /\ \A i, j \in 1..Len(b) : g[i] = g[j] => i = j
        /\ \A i \in 1..Len(b) : Core(b[i]) = Core(c[g[i]])
  BY DEF Fewer
<1> DEFINE h == [i \in 1..Len(a) |-> g[f[i]]]
<1>3. h \in [1..Len(a) -> 1..Len(c)]
  OBVIOUS
<1>4. \A i \in 1..Len(a) : h[i] = g[f[i]] /\ f[i] \in 1..Len(b)
  OBVIOUS
<1> HIDE DEF h
<1>5. \A i, j \in 1..Len(a) : h[i] = h[j] => i = j
  BY <1>1, <1>2, <1>4
<1>6. ASSUME NEW i \in 1..Len(a)
      PROVE  Core(a[i]) = Core(c[h[i]])
  <2>1. f[i] \in 1..Len(b) /\ h[i] = g[f[i]]
    BY <1>4
  <2>2. Core(a[i]) = Core(b[f[i]])
    BY <1>1
  <2>3. Core(b[f[i]]) = Core(c[g[f[i]]])
    BY <1>2, <2>1
  <2> QED
    BY <2>1, <2>2, <2>3
<1> QED
  BY <1>3, <1>5, <1>6 DEF Fewer

LEMMA FewerSelf ==
    ASSUME NEW a, Len(a) \in Nat
    PROVE  Fewer(a, a)
BY ThinnedSelf, ThinnedFewer

LEMMA FewerIs ==
    ASSUME NEW a, NEW b, Fewer(a, b)
    PROVE  /\ \A i \in 1..Len(a) : \E j \in 1..Len(b) :
                  Core(a[i]) = Core(b[j])
           /\ (\A i, j \in 1..Len(b) : b[i].of = b[j].of => i = j)
                  => \A i, j \in 1..Len(a) : a[i].of = a[j].of => i = j
<1>1. PICK f \in [1..Len(a) -> 1..Len(b)] :
        /\ \A i, j \in 1..Len(a) : f[i] = f[j] => i = j
        /\ \A i \in 1..Len(a) : Core(a[i]) = Core(b[f[i]])
  BY DEF Fewer
<1>2. \A i \in 1..Len(a) : f[i] \in 1..Len(b)
  OBVIOUS
<1>3. \A i \in 1..Len(a) : \E j \in 1..Len(b) :
                  Core(a[i]) = Core(b[j])
  BY <1>1, <1>2
<1>4. ASSUME \A i, j \in 1..Len(b) : b[i].of = b[j].of => i = j,
             NEW i \in 1..Len(a), NEW j \in 1..Len(a), a[i].of = a[j].of
      PROVE  i = j
  <2>1. \A k \in 1..Len(a) : a[k].of = b[f[k]].of
    <3> SUFFICES ASSUME NEW k \in 1..Len(a) PROVE a[k].of = b[f[k]].of
      OBVIOUS
    <3>1. Core(a[k]) = Core(b[f[k]])
      BY <1>1
    <3> QED
      BY <3>1 DEF Core
  <2>2. b[f[i]].of = b[f[j]].of
    BY <1>4, <2>1
  <2>3. f[i] = f[j]
    BY <1>2, <1>4, <2>2
  <2> QED
    BY <1>1, <2>3
<1> QED
  BY <1>3, <1>4

\* The shape of an entry, and of an index.
LEMMA IndexIs ==
    ASSUME NEW ix, IndexOK(ix)
    PROVE  /\ ix.clock \in 0..Len(log) /\ ix.nextSweep \in 0..Len(log) + SweepEvery
           /\ ix.threads \in [Threads -> Seq(CallEntry)]
           /\ \A t \in Threads : /\ ix.threads[t] \in Seq(CallEntry) /\ Len(ix.threads[t]) \in Nat
                                 /\ DOMAIN ix.threads[t] = 1..Len(ix.threads[t])
           /\ \A t \in Threads : \A i \in 1..Len(ix.threads[t]) : ix.threads[t][i] \in CallEntry
<1> USE DEF IndexOK
<1>1. /\ ix.clock \in 0..Len(log) /\ ix.nextSweep \in 0..Len(log) + SweepEvery
      /\ ix.threads \in [Threads -> Seq(CallEntry)]
  OBVIOUS
<1>2. \A t \in Threads : ix.threads[t] \in Seq(CallEntry)
  BY <1>1
<1>3. ASSUME NEW t \in Threads
      PROVE  /\ Len(ix.threads[t]) \in Nat /\ DOMAIN ix.threads[t] = 1..Len(ix.threads[t])
             /\ \A i \in 1..Len(ix.threads[t]) : ix.threads[t][i] \in CallEntry
  <2> DEFINE s == ix.threads[t]
  <2>1. s \in Seq(CallEntry)
    BY <1>2
  <2> HIDE DEF s
  <2>2. Len(s) \in Nat /\ DOMAIN s = 1..Len(s) /\ \A i \in 1..Len(s) : s[i] \in CallEntry
    BY <2>1
  <2> QED
    BY <2>2 DEF s
<1> QED
  BY <1>1, <1>2, <1>3

LEMMA IndexedIs ==
    ASSUME NEW ix, IndexOK(ix), NEW p
    PROVE  p \in Indexed(ix) <=> \E t \in Threads : \E i \in 1..Len(ix.threads[t]) : ix.threads[t][i].of = p
<1>1. \A t \in Threads : DOMAIN ix.threads[t] = 1..Len(ix.threads[t])
  BY IndexIs
<1> DEFINE Of(t) == {e.of : e \in Range(ix.threads[t])}
<1>2. \A t \in Threads : p \in Of(t) <=> \E i \in 1..Len(ix.threads[t]) : ix.threads[t][i].of = p
  BY <1>1 DEF Range
<1>3. Indexed(ix) = UNION {Of(t) : t \in Threads}
  BY DEF Indexed
<1> HIDE DEF Of
<1>4. p \in Indexed(ix) <=> \E t \in Threads : p \in Of(t)
  BY <1>3
<1> QED
  BY <1>2, <1>4

LEMMA FewerIndexed ==
    ASSUME NEW a, NEW b, IndexOK(a), IndexOK(b), FewerIn(a, b)
    PROVE  Indexed(a) \subseteq Indexed(b)
<1> SUFFICES ASSUME NEW p \in Indexed(a) PROVE p \in Indexed(b)
  OBVIOUS
<1>1. PICK t \in Threads : \E i \in 1..Len(a.threads[t]) : a.threads[t][i].of = p
  BY IndexedIs
<1>2. PICK i \in 1..Len(a.threads[t]) : a.threads[t][i].of = p
  BY <1>1
<1>3. Fewer(a.threads[t], b.threads[t])
  BY DEF FewerIn
<1> DEFINE A == a.threads[t]
           B == b.threads[t]
<1>4. PICK j \in 1..Len(B) : Core(A[i]) = Core(B[j])
  <2>1. i \in 1..Len(A) /\ Fewer(A, B)
    BY <1>2, <1>3
  <2> HIDE DEF A, B
  <2>2. \A k \in 1..Len(A) : \E l \in 1..Len(B) : Core(A[k]) = Core(B[l])
    BY <2>1, FewerIs
  <2> QED
    BY <2>1, <2>2
<1>5. b.threads[t][j].of = p
  BY <1>2, <1>4 DEF Core
<1> QED
  BY <1>5, IndexedIs

LEMMA FewerShort ==
    ASSUME NEW a \in Seq(CallEntry), NEW b \in Seq(CallEntry), Fewer(a, b)
    PROVE  Len(a) <= Len(b)
<1>1. Len(a) \in Nat /\ Len(b) \in Nat
  OBVIOUS
<1>2. PICK f \in [1..Len(a) -> 1..Len(b)] : \A i, j \in 1..Len(a) : f[i] = f[j] => i = j
  BY DEF Fewer
<1>3. f \in Injection(1..Len(a), 1..Len(b))
  BY <1>2 DEF Injection, IsInjective
<1>4. \A n \in Nat : IsFiniteSet(1..n) /\ Cardinality(1..n) = n
  BY UpToHas
<1>5. Cardinality(1..Len(a)) <= Cardinality(1..Len(b))
  BY <1>1, <1>3, <1>4, FS_Injection
<1> QED
  BY <1>1, <1>4, <1>5

LEMMA FewerInTwice ==
    ASSUME NEW a, NEW b, NEW c, FewerIn(a, b), FewerIn(b, c)
    PROVE  FewerIn(a, c)
BY FewerTwice DEF FewerIn

LEMMA FewerInSelf ==
    ASSUME NEW a, IndexOK(a)
    PROVE  FewerIn(a, a)
BY FewerSelf, IndexIs DEF FewerIn

LEMMA PruneIs ==
    ASSUME NEW ix, NEW s \in Seq(CallEntry)
    PROVE  Prune(ix, s) \in Seq(CallEntry) /\ Thinned(Prune(ix, s), s)
<1>1. CASE ix.clock = 0
  <2>1. Prune(ix, s) = s /\ Len(s) \in Nat
    BY <1>1 DEF Prune
  <2> QED
    BY <2>1, ThinnedSelf
<1>2. CASE ix.clock # 0
  <2> DEFINE at == {n \in DOMAIN s : s[n].at >= ix.clock - MaxAge}
  <2>1. Prune(ix, s) = Kept(s, at)
    BY <1>2 DEF Prune
  <2> HIDE DEF at
  <2> QED
    BY <2>1, KeptIs
<1> QED
  BY <1>1, <1>2

LEMMA LastOfIs ==
    ASSUME NEW s \in Seq(CallEntry)
    PROVE  LastOf(s) \in Seq(CallEntry) /\ Thinned(LastOf(s), s) /\ Len(LastOf(s)) <= CallLimit
<1>1. Len(s) \in Nat /\ CallLimit \in Nat /\ CallLimit > 0
  BY Bounds
<1>2. CASE Len(s) <= CallLimit
  BY <1>1, <1>2, ThinnedSelf DEF LastOf
<1>3. CASE ~(Len(s) <= CallLimit)
  <2> DEFINE d == Len(s) - CallLimit
             l == SubSeq(s, d + 1, Len(s))
  <2>1. LastOf(s) = l
    BY <1>3 DEF LastOf
  <2>2. d \in Nat /\ d + 1 \in 1..Len(s)
    BY <1>1, <1>3
  <2>3. l \in Seq(CallEntry) /\ Len(l) = CallLimit /\ \A i \in 1..CallLimit : l[i] = s[i + d]
    BY <1>1, <1>3, <2>2
  <2> DEFINE f == [i \in 1..Len(l) |-> i + d]
  <2>4. f \in [1..Len(l) -> 1..Len(s)] /\ \A i \in 1..Len(l) : f[i] = i + d
    BY <1>1, <1>3, <2>3
  <2> HIDE DEF f, l
  <2>5. \A i, j \in 1..Len(l) : f[i] = f[j] => i = j
    BY <1>1, <2>2, <2>4
  <2>6. \A i \in 1..Len(l) : l[i] = s[f[i]]
    BY <2>3, <2>4
  <2>7. Thinned(l, s)
    BY <2>4, <2>5, <2>6 DEF Thinned
  <2> QED
    BY <1>1, <2>1, <2>3, <2>7
<1> QED
  BY <1>2, <1>3

\* Nothing was added to the entries of any thread, and none changed.
ThinnedIn(a, b) == \A t \in Threads : Thinned(a.threads[t], b.threads[t])

Bounded(ix) ==
    /\ Cardinality(Resident(ix)) <= ThreadLimit
    /\ \A t \in Threads : Len(ix.threads[t]) <= CallLimit

LEMMA ThinnedInFewer ==
    ASSUME NEW a, NEW b, ThinnedIn(a, b)
    PROVE  FewerIn(a, b)
BY ThinnedFewer DEF ThinnedIn, FewerIn

LEMMA ThinnedInTwice ==
    ASSUME NEW a, NEW b, NEW c, ThinnedIn(a, b), ThinnedIn(b, c)
    PROVE  ThinnedIn(a, c)
BY ThinnedTwice DEF ThinnedIn

LEMMA ThinnedInSelf ==
    ASSUME NEW a, IndexOK(a)
    PROVE  ThinnedIn(a, a)
BY ThinnedSelf, IndexIs DEF ThinnedIn

LEMMA ResidentIs ==
    ASSUME NEW ix
    PROVE  /\ IsFiniteSet(Resident(ix)) /\ Cardinality(Resident(ix)) \in Nat
           /\ Resident(ix) \subseteq Threads
           /\ \A t \in Threads : t \in Resident(ix) <=> ix.threads[t] # <<>>
<1>1. Resident(ix) \subseteq Threads /\ \A t \in Threads : t \in Resident(ix) <=> ix.threads[t] # <<>>
  BY DEF Resident
<1>2. IsFiniteSet(Resident(ix))
  BY <1>1, Bounds, FS_Subset
<1> QED
  BY <1>1, <1>2, FS_CardinalityType

LEMMA FewerEmpty ==
    ASSUME NEW a \in Seq(CallEntry), NEW b \in Seq(CallEntry), Fewer(a, b), b = <<>>
    PROVE  a = <<>>
<1>1. Len(a) <= Len(b)
  BY FewerShort
<1>2. Len(b) = 0 /\ Len(a) \in Nat
  OBVIOUS
<1> QED
  BY <1>1, <1>2

LEMMA FewerInBounded ==
    ASSUME NEW a, NEW b, IndexOK(a), IndexOK(b), FewerIn(a, b), Bounded(b)
    PROVE  Bounded(a)
<1>1. \A t \in Threads : a.threads[t] \in Seq(CallEntry) /\ b.threads[t] \in Seq(CallEntry)
  BY IndexIs
<1>2. \A t \in Threads : Len(a.threads[t]) <= Len(b.threads[t])
  BY <1>1, FewerShort DEF FewerIn
<1>3. \A t \in Threads : b.threads[t] = <<>> => a.threads[t] = <<>>
  BY <1>1, FewerEmpty DEF FewerIn
<1>4. Resident(a) \subseteq Resident(b)
  BY <1>3, ResidentIs
<1>5. Cardinality(Resident(a)) <= Cardinality(Resident(b))
  BY <1>4, ResidentIs, FS_Subset
<1>6. \A t \in Threads : Len(a.threads[t]) <= CallLimit
  <2> SUFFICES ASSUME NEW t \in Threads PROVE Len(a.threads[t]) <= CallLimit
    OBVIOUS
  <2>1. Len(a.threads[t]) \in Nat /\ Len(b.threads[t]) \in Nat /\ CallLimit \in Nat
    BY Bounds, IndexIs
  <2> QED
    BY <1>2, <2>1 DEF Bounded
<1>7. Cardinality(Resident(a)) <= ThreadLimit
  <2>1. Cardinality(Resident(a)) \in Nat /\ Cardinality(Resident(b)) \in Nat /\ ThreadLimit \in Nat
    BY Bounds, ResidentIs
  <2>2. Cardinality(Resident(b)) <= ThreadLimit
    BY DEF Bounded
  <2> HIDE DEF Bounded
  <2> DEFINE x == Cardinality(Resident(a))
             y == Cardinality(Resident(b))
  <2>3. x \in Nat /\ y \in Nat /\ x <= y /\ y <= ThreadLimit
    BY <1>5, <2>1, <2>2
  <2> HIDE DEF x, y
  <2>4. x <= ThreadLimit
    BY <2>1, <2>3
  <2> QED
    BY <2>4 DEF x
<1> QED
  BY <1>6, <1>7 DEF Bounded

LEMMA AdvanceIs ==
    ASSUME NEW ix, IndexOK(ix), NEW at \in 0..Len(log)
    PROVE  IndexOK(Advance(ix, at)) /\ Advance(ix, at).threads = ix.threads
BY DEF IndexOK, Advance

LEMMA PruneAllIs ==
    ASSUME NEW ix, IndexOK(ix), Len(log) \in Nat
    PROVE  IndexOK(PruneAll(ix)) /\ ThinnedIn(PruneAll(ix), ix)
<1> DEFINE th == [t \in Threads |-> Prune(ix, ix.threads[t])]
           ns == IF ix.clock = 0 THEN 0 ELSE ix.clock + SweepEvery
<1>1. \A t \in Threads : Prune(ix, ix.threads[t]) \in Seq(CallEntry) /\ Thinned(Prune(ix, ix.threads[t]), ix.threads[t])
  BY IndexIs, PruneIs
<1>2. th \in [Threads -> Seq(CallEntry)] /\ \A t \in Threads : th[t] = Prune(ix, ix.threads[t])
  BY <1>1
<1>3. ns \in 0..Len(log) + SweepEvery
  BY IndexIs, Bounds
<1>4. PruneAll(ix) = [ix EXCEPT !.nextSweep = ns, !.threads = th]
  BY DEF PruneAll
<1> HIDE DEF th, ns
<1>5. PruneAll(ix).threads = th /\ IndexOK(PruneAll(ix))
  BY <1>2, <1>3, <1>4 DEF IndexOK
<1> QED
  BY <1>1, <1>2, <1>5 DEF ThinnedIn

-----------------------------------------------------------------------------
(* Its limits.                                                             *)

LEMMA NewestIs ==
    ASSUME NEW s \in Seq(CallEntry), s # <<>>, Len(log) \in Nat
    PROVE  Newest(s) \in Nat
<1> DEFINE S == {e.at : e \in Range(s)}
<1>1. \A e \in Range(s) : e \in CallEntry
  BY DEF Range
<1>2. S \in SUBSET (0..Len(log))
  BY <1>1 DEF CallEntry
<1>3. Len(s) \in Nat /\ Len(s) # 0
  OBVIOUS
<1>4. s[1] \in Range(s)
  BY <1>3 DEF Range
<1>5. s[1].at \in S
  BY <1>4
<1>6. PICK a \in S : \A x \in S : a >= x
  <2> HIDE DEF S
  <2> QED
    BY <1>2, <1>5, MaxIsMember
<1>7. \A x \in S : x \in Nat
  BY <1>2
<1>8. \A e \in Range(s) : e.at \in S /\ e.at <= a
  BY <1>6, <1>7
<1>9. \E at \in S : \A e \in Range(s) : e.at <= at
  BY <1>8
<1>10. Newest(s) \in S
  <2>1. Newest(s) = CHOOSE at \in S : \A e \in Range(s) : e.at <= at
    BY DEF Newest
  <2> HIDE DEF S
  <2> QED
    BY <1>9, <2>1, Zenon
<1> QED
  BY <1>7, <1>10

\* Of some threads one is before all others.
LEMMA OldestExists ==
    ASSUME NEW R, R \subseteq Threads, R # {}, NEW f, \A t \in R : f[t] \in Nat
    PROVE  \E t \in R : \A u \in R \ {t} : f[t] < f[u] \/ (f[t] = f[u] /\ t < u)
<1> DEFINE A == {f[t] : t \in R}
<1>1. A \in SUBSET Nat /\ A # {}
  OBVIOUS
<1>2. PICK a \in A : \A x \in A : a <= x
  <2> HIDE DEF A
  <2> QED
    BY <1>1, NatHasMinimum
<1> DEFINE B == {t \in R : f[t] = a}
<1>3. B \in SUBSET Nat /\ B # {}
  BY Bounds
<1>4. PICK t \in B : \A u \in B : t <= u
  <2> HIDE DEF B
  <2> QED
    BY <1>3, NatHasMinimum
<1>5. ASSUME NEW u \in R \ {t}
      PROVE  f[t] < f[u] \/ (f[t] = f[u] /\ t < u)
  <2>1. f[t] = a /\ f[u] \in A /\ a <= f[u] /\ a \in Nat /\ f[u] \in Nat
    BY <1>1, <1>2
  <2>2. t \in Nat /\ u \in Nat /\ t # u
    BY Bounds
  <2>3. f[u] = a => t <= u
    BY <1>4
  <2> QED
    BY <2>1, <2>2, <2>3
<1> QED
  BY <1>5

\* A thread is given up only past the limit, and then one.
LEMMA EvictIs ==
    ASSUME NEW ix, IndexOK(ix), Len(log) \in Nat
    PROVE  LET e == EvictOldestThread(ix)
           IN  /\ IndexOK(e) /\ ThinnedIn(e, ix)
               /\ \A t \in Threads : e.threads[t] = ix.threads[t] \/ e.threads[t] = <<>>
               /\ IF Cardinality(Resident(ix)) <= ThreadLimit
                  THEN Cardinality(Resident(e)) = Cardinality(Resident(ix))
                  ELSE Cardinality(Resident(e)) = Cardinality(Resident(ix)) - 1
<1> DEFINE e == EvictOldestThread(ix)
           R == Resident(ix)
<1>1. CASE Cardinality(R) <= ThreadLimit
  <2>1. e = ix
    BY <1>1 DEF EvictOldestThread
  <2> HIDE DEF e
  <2> QED
    BY <1>1, <2>1, ThinnedInSelf DEF e
<1>2. CASE ~(Cardinality(R) <= ThreadLimit)
  <2> DEFINE Before(t, u) == Newest(ix.threads[t]) < Newest(ix.threads[u])
                             \/ (Newest(ix.threads[t]) = Newest(ix.threads[u]) /\ t < u)
             o == CHOOSE t \in R : \A u \in R \ {t} : Before(t, u)
  <2>1. e = [ix EXCEPT !.threads[o] = <<>>]
    BY <1>2 DEF EvictOldestThread
  <2>2. R # {} /\ R \subseteq Threads /\ IsFiniteSet(R)
    <3>1. Cardinality({}) = 0
      BY FS_EmptySet
    <3> QED
      <4>1. R \subseteq Threads /\ IsFiniteSet(R) /\ Cardinality(R) \in Nat
        BY ResidentIs
      <4>2. R = {} => Cardinality(R) <= ThreadLimit
        BY <3>1, Bounds
      <4> HIDE DEF R
      <4> QED
        BY <1>2, <4>1, <4>2
  <2> DEFINE f == [t \in Threads |-> Newest(ix.threads[t])]
  <2>3. \A t \in R : f[t] = Newest(ix.threads[t]) /\ f[t] \in Nat
    <3> SUFFICES ASSUME NEW t \in R PROVE f[t] = Newest(ix.threads[t]) /\ f[t] \in Nat
      OBVIOUS
    <3>1. t \in Threads /\ ix.threads[t] # <<>>
      BY ResidentIs
    <3>2. ix.threads[t] \in Seq(CallEntry)
      BY <3>1, IndexIs
    <3> QED
      BY <3>1, <3>2, NewestIs
  <2> HIDE DEF f
  <2>4. \E t \in R : \A u \in R \ {t} : f[t] < f[u] \/ (f[t] = f[u] /\ t < u)
    <3> HIDE DEF R
    <3> QED
      BY <2>2, <2>3, OldestExists
  <2>5. \E t \in R : \A u \in R \ {t} : Before(t, u)
    BY <2>3, <2>4
  <2>6. o \in R
    <3> HIDE DEF R, Before
    <3> QED
      BY <2>5, Zenon
  <2>7. o \in Threads
    BY <2>2, <2>6
  <2> HIDE DEF e, o
  <2>8. /\ e.threads \in [Threads -> Seq(CallEntry)] /\ e.threads[o] = <<>>
        /\ \A t \in Threads : t # o => e.threads[t] = ix.threads[t]
    BY <2>1, <2>7 DEF IndexOK
  <2>9. IndexOK(e)
    BY <2>1, <2>8 DEF IndexOK
  <2>10. ThinnedIn(e, ix)
    <3> SUFFICES ASSUME NEW t \in Threads PROVE Thinned(e.threads[t], ix.threads[t])
      BY DEF ThinnedIn
    <3>1. CASE t # o
      BY <2>8, <3>1, IndexIs, ThinnedSelf
    <3>2. CASE t = o
      BY <2>8, <3>2, IndexIs, EmptyThinned
    <3> QED
      BY <3>1, <3>2
  <2>11. Resident(e) = R \ {o}
    BY <2>2, <2>8, ResidentIs
  <2>12. Cardinality(R \ {o}) = Cardinality(R) - 1
    BY <2>2, <2>6, FS_RemoveElement
  <2> QED
    BY <1>2, <2>8, <2>9, <2>10, <2>11, <2>12 DEF e
<1> QED
  BY <1>1, <1>2

EvictsUpTo(cut, f, m) ==
    /\ f = [k \in 0..m |-> f[k]]
    /\ \A k \in 0..m : f[k] = IF k = 0 THEN cut ELSE EvictOldestThread(f[k - 1])

\* The recursion of EnforceLimits has a solution.
LEMMA EvictsExist ==
    ASSUME NEW cut, NEW N \in Nat
    PROVE  \E f : EvictsUpTo(cut, f, N)
<1> DEFINE T == {m \in Nat : \E f : EvictsUpTo(cut, f, m)}
<1>1. 0 \in T
  <2> DEFINE f == [k \in 0..0 |-> cut]
  <2>1. EvictsUpTo(cut, f, 0)
    BY DEF EvictsUpTo
  <2> HIDE DEF f
  <2> QED
    BY <2>1
<1>2. ASSUME NEW m \in Nat, m \in T PROVE m + 1 \in T
  <2>1. PICK f : EvictsUpTo(cut, f, m)
    BY <1>2
  <2> DEFINE g == [k \in 0..m + 1 |-> IF k # m + 1 THEN f[k] ELSE EvictOldestThread(f[m])]
  <2>2. EvictsUpTo(cut, g, m + 1)
    <3>1. g = [k \in 0..m + 1 |-> g[k]]
      OBVIOUS
    <3>2. ASSUME NEW k \in 0..m + 1
          PROVE  g[k] = IF k = 0 THEN cut ELSE EvictOldestThread(g[k - 1])
      <4>1. CASE k = m + 1
        <5>1. g[k] = EvictOldestThread(f[m]) /\ g[m] = f[m] /\ k - 1 = m /\ k # 0
          BY <4>1
        <5> QED
          BY <5>1
      <4>2. CASE k # m + 1
        <5>1. k \in 0..m /\ g[k] = f[k] /\ (k # 0 => g[k - 1] = f[k - 1])
          BY <4>2
        <5> QED
          BY <2>1, <5>1 DEF EvictsUpTo
      <4> QED
        BY <4>1, <4>2
    <3> HIDE DEF g
    <3> QED
      BY <3>1, <3>2 DEF EvictsUpTo
  <2> HIDE DEF g
  <2> QED
    BY <2>2
<1> HIDE DEF T
<1>3. \A n \in 0..N : n \in T
  BY <1>1, <1>2, UpTo
<1> QED
  BY <1>3 DEF T

\* EnforceLimits leaves an index within its limits, which lost some of what it
\* had and gained nothing.
LEMMA LimitsHold ==
    ASSUME NEW ix, IndexOK(ix), Len(log) \in Nat
    PROVE  LET e == EnforceLimits(ix)
           IN  IndexOK(e) /\ ThinnedIn(e, ix) /\ Bounded(e)
<1> DEFINE pruned == PruneAll(ix)
           th == [t \in Threads |-> LastOf(pruned.threads[t])]
           cut == [pruned EXCEPT !.threads = th]
           n == Cardinality(Resident(cut))
           evict == CHOOSE f : f = [k \in 0..n |-> IF k = 0 THEN cut ELSE EvictOldestThread(f[k - 1])]
<1>1. EnforceLimits(ix) = evict[n]
  BY DEF EnforceLimits
<1>2. IndexOK(pruned) /\ ThinnedIn(pruned, ix)
  BY PruneAllIs
<1> HIDE DEF pruned
<1>3. \A t \in Threads : /\ LastOf(pruned.threads[t]) \in Seq(CallEntry)
                         /\ Thinned(LastOf(pruned.threads[t]), pruned.threads[t])
                         /\ Len(LastOf(pruned.threads[t])) <= CallLimit
  BY <1>2, IndexIs, LastOfIs
<1>4. th \in [Threads -> Seq(CallEntry)] /\ \A t \in Threads : th[t] = LastOf(pruned.threads[t])
  BY <1>3
<1> HIDE DEF th
<1>5. IndexOK(cut) /\ cut.threads = th
  BY <1>2, <1>4 DEF IndexOK
<1> HIDE DEF cut
<1>6. ThinnedIn(cut, ix)
  <2>1. ThinnedIn(cut, pruned)
    BY <1>3, <1>4, <1>5 DEF ThinnedIn
  <2> QED
    BY <1>2, <2>1, ThinnedInTwice
<1>7. n \in Nat
  BY ResidentIs
<1>8. EvictsUpTo(cut, evict, n)
  <2>1. PICK f : EvictsUpTo(cut, f, n)
    <3> HIDE DEF n
    <3> QED
      BY <1>7, EvictsExist
  <2>2. f = [k \in 0..n |-> IF k = 0 THEN cut ELSE EvictOldestThread(f[k - 1])]
    <3> HIDE DEF n
    <3> QED
      BY <2>1 DEF EvictsUpTo
  <2>3. evict = [k \in 0..n |-> IF k = 0 THEN cut ELSE EvictOldestThread(evict[k - 1])]
    <3> HIDE DEF n
    <3> QED
      BY <2>2, Zenon
  <2> HIDE DEF evict, n
  <2> QED
    BY <2>3 DEF EvictsUpTo
<1> HIDE DEF evict
<1> DEFINE Good(k, x) ==
             /\ IndexOK(x) /\ ThinnedIn(x, ix)
             /\ \A t \in Threads : Len(x.threads[t]) <= CallLimit
             /\ Cardinality(Resident(x)) <= ThreadLimit \/ Cardinality(Resident(x)) <= n - k
           T == {k \in 0..n : Good(k, evict[k])}
<1>9. 0 \in T
  <2>1. evict[0] = cut
    BY <1>7, <1>8 DEF EvictsUpTo
  <2>2. Good(0, cut)
    <3>1. Cardinality(Resident(cut)) <= n - 0
      BY <1>7
    <3> QED
      BY <1>3, <1>4, <1>5, <1>6, <3>1
  <2> QED
    BY <1>7, <2>1, <2>2
<1>10. ASSUME NEW k \in 0..n, k # n, k \in T
       PROVE  k + 1 \in T
  <2> DEFINE x == evict[k]
             y == EvictOldestThread(x)
  <2>1. Good(k, x) /\ k + 1 \in 0..n
    BY <1>7, <1>10
  <2>2. evict[k + 1] = y
    BY <1>7, <1>8, <2>1 DEF EvictsUpTo
  <2> HIDE DEF x
  <2>3. /\ IndexOK(y) /\ ThinnedIn(y, x)
        /\ \A t \in Threads : y.threads[t] = x.threads[t] \/ y.threads[t] = <<>>
        /\ IF Cardinality(Resident(x)) <= ThreadLimit
           THEN Cardinality(Resident(y)) = Cardinality(Resident(x))
           ELSE Cardinality(Resident(y)) = Cardinality(Resident(x)) - 1
    BY <2>1, EvictIs
  <2> HIDE DEF y
  <2>4. ThinnedIn(y, ix)
    BY <2>1, <2>3, ThinnedInTwice
  <2>5. \A t \in Threads : Len(y.threads[t]) <= CallLimit
    BY <2>1, <2>3, Bounds
  <2>6. Cardinality(Resident(y)) <= ThreadLimit \/ Cardinality(Resident(y)) <= n - (k + 1)
    <3>1. Cardinality(Resident(x)) \in Nat /\ ThreadLimit \in Nat
      BY Bounds, ResidentIs
    <3> HIDE DEF n
    <3> QED
      BY <1>7, <2>1, <2>3, <3>1
  <2>7. Good(k + 1, y)
    BY <2>3, <2>4, <2>5, <2>6
  <2> QED
    BY <2>1, <2>2, <2>7
<1> HIDE DEF T
<1>11. n \in T
  <2>1. \A k \in 0..n : k # n /\ k \in T => k + 1 \in T
    BY <1>10
  <2> HIDE DEF n
  <2>2. \A k \in 0..n : k \in T
    BY <1>7, <1>9, <2>1, UpTo
  <2> QED
    BY <1>7, <2>2
<1>12. Good(n, evict[n])
  BY <1>11 DEF T
<1>13. Cardinality(Resident(evict[n])) <= ThreadLimit
  <2> DEFINE x == evict[n]
             c == Cardinality(Resident(x))
  <2>1. c \in Nat /\ (c <= ThreadLimit \/ c <= n - n)
    BY <1>12, ResidentIs
  <2> HIDE DEF n, c
  <2>2. c <= ThreadLimit
    BY <1>7, <2>1, Bounds
  <2> QED
    BY <2>2 DEF c
<1> HIDE DEF n
<1> QED
  BY <1>1, <1>12, <1>13 DEF Bounded

-----------------------------------------------------------------------------
(* Recording a call and looking one up.                                    *)

\* Of finitely many numbers one is the largest.
LEMMA SomeLargest ==
    ASSUME NEW N \in Nat, NEW I, I \subseteq 1..N, I # {}, NEW g, \A i \in I : g[i] \in Nat
    PROVE  \E i \in I : \A j \in I : g[j] <= g[i]
<1> DEFINE Good(m) == (\A i \in I : m < i) \/ \E i \in I : i <= m /\ \A j \in I : j <= m => g[j] <= g[i]
           T == {m \in 0..N : Good(m)}
<1>1. 0 \in T
  OBVIOUS
<1>2. ASSUME NEW m \in 0..N, m # N, m \in T
      PROVE  m + 1 \in T
  <2>1. Good(m) /\ m + 1 \in 0..N
    BY <1>2
  <2>2. CASE m + 1 \notin I
    <3>1. \A j \in I : j <= m + 1 => j <= m
      BY <2>2
    <3>2. \A j \in I : m < j => m + 1 < j
      BY <2>2
    <3>3. Good(m + 1)
      BY <2>1, <3>1, <3>2
    <3> QED
      BY <2>1, <3>3
  <2>3. CASE m + 1 \in I
    <3>1. \A j \in I : j <= m + 1 => j <= m \/ j = m + 1
      BY <2>3
    <3>2. CASE \A i \in I : m < i
      <4>1. \A j \in I : j <= m + 1 => g[j] <= g[m + 1]
        BY <2>3, <3>1, <3>2
      <4> QED
        BY <2>1, <2>3, <4>1
    <3>3. CASE \E i \in I : i <= m /\ \A j \in I : j <= m => g[j] <= g[i]
      <4>1. PICK i \in I : i <= m /\ \A j \in I : j <= m => g[j] <= g[i]
        BY <3>3
      <4>2. CASE g[m + 1] <= g[i]
        <5>1. i <= m + 1 /\ \A j \in I : j <= m + 1 => g[j] <= g[i]
          BY <3>1, <4>1, <4>2
        <5> QED
          BY <2>1, <5>1
      <4>3. CASE ~(g[m + 1] <= g[i])
        <5>1. \A j \in I : j <= m + 1 => g[j] <= g[m + 1]
          BY <2>3, <3>1, <4>1, <4>3
        <5> QED
          BY <2>1, <2>3, <5>1
      <4> QED
        BY <4>2, <4>3
    <3> QED
      BY <2>1, <3>2, <3>3
  <2> QED
    BY <2>2, <2>3
<1> HIDE DEF T
<1>3. \A m \in 0..N : m # N /\ m \in T => m + 1 \in T
  BY <1>2
<1>4. N \in T
  BY <1>1, <1>3, UpTo
<1>5. Good(N)
  BY <1>4 DEF T
<1>6. \A i \in I : i <= N /\ ~(N < i)
  OBVIOUS
<1> QED
  BY <1>5, <1>6

LEMMA NextOccurrenceIs ==
    ASSUME NEW s \in Seq(CallEntry), NEW c
    PROVE  LET n == NextOccurrence(s, c)
           IN  /\ n \in Nat \ {0}
               /\ \A i \in 1..Len(s) : s[i].id = c => s[i].occurrence < n
               /\ n = 1 \/ \E i \in 1..Len(s) : s[i].id = c /\ n = s[i].occurrence + 1
<1> DEFINE I == {i \in 1..Len(s) : s[i].id = c}
           of == {e.occurrence : e \in {x \in Range(s) : x.id = c}}
           n == NextOccurrence(s, c)
           g == [i \in 1..Len(s) |-> s[i].occurrence]
<1>1. Len(s) \in Nat /\ \A i \in 1..Len(s) : s[i] \in CallEntry
  OBVIOUS
<1>2. \A i \in 1..Len(s) : s[i].occurrence \in Nat \ {0}
  BY <1>1 DEF CallEntry
<1>3. \A m : m \in of <=> \E i \in I : m = s[i].occurrence
  BY <1>1 DEF Range
<1>4. n = IF of = {} THEN 1 ELSE 1 + CHOOSE k \in of : \A m \in of : m <= k
  BY DEF NextOccurrence
<1>5. \A i \in I : g[i] = s[i].occurrence /\ g[i] \in Nat
  BY <1>2
<1>6. \A i \in 1..Len(s) : i \in I <=> s[i].id = c
  OBVIOUS
<1>7. I \subseteq 1..Len(s)
  OBVIOUS
<1> HIDE DEF I, of, n, g
<1>8. CASE of = {}
  <2>1. I = {}
    BY <1>3, <1>8
  <2>2. \A i \in 1..Len(s) : s[i].id # c
    BY <1>6, <2>1
  <2>3. n = 1
    BY <1>4, <1>8
  <2> QED
    BY <2>2, <2>3 DEF n
<1>9. CASE of # {}
  <2>1. I # {}
    BY <1>3, <1>9
  <2>2. PICK i \in I : \A j \in I : g[j] <= g[i]
    BY <1>1, <1>5, <1>7, <2>1, SomeLargest
  <2>3. s[i].occurrence \in of /\ \A m \in of : m <= s[i].occurrence
    BY <1>3, <1>5, <2>2
  <2> DEFINE k == CHOOSE x \in of : \A m \in of : m <= x
  <2>4. k \in of /\ \A m \in of : m <= k
    BY <2>3, Zenon
  <2>5. n = 1 + k
    BY <1>4, <1>9
  <2> HIDE DEF k
  <2>6. PICK j \in I : k = s[j].occurrence
    BY <1>3, <2>4
  <2>7. j \in 1..Len(s) /\ s[j].id = c /\ n = s[j].occurrence + 1 /\ n \in Nat \ {0}
    BY <1>2, <1>6, <1>7, <2>5, <2>6
  <2>8. ASSUME NEW l \in 1..Len(s), s[l].id = c
        PROVE  s[l].occurrence < n
    <3>1. s[l].occurrence \in of
      BY <1>3, <1>6, <2>8
    <3>2. s[l].occurrence <= k
      BY <2>4, <3>1
    <3> QED
      BY <1>2, <1>7, <2>5, <2>6, <3>2
  <2> QED
    BY <2>7, <2>8 DEF n
<1> QED
  BY <1>8, <1>9

Ref == [of : Resps, origin : 0..MaxResps, at : 1..Len(log)]

NewEntry(c, ref, n) ==
    [id |-> c, of |-> ref.of, origin |-> ref.origin, at |-> ref.at, occurrence |-> n,
     consumed |-> FALSE]

LEMMA ThinnedInThread ==
    ASSUME NEW a, NEW b, ThinnedIn(a, b), NEW t \in Threads
    PROVE  Thinned(a.threads[t], b.threads[t])
BY DEF ThinnedIn

LEMMA ThinnedEmpty ==
    ASSUME NEW a \in Seq(CallEntry), NEW b \in Seq(CallEntry), Thinned(a, b), b = <<>>
    PROVE  a = <<>>
BY ThinnedFewer, FewerEmpty

\* Recording: the entry joins those that have not expired, the oldest go past
\* the limits, and nothing else changes.
LEMMA RecordIs ==
    ASSUME NEW ix0, IndexOK(ix0), Bounded(ix0), Len(log) \in Nat,
           NEW t \in Threads, NEW c \in CallIds, NEW ref \in Ref
    PROVE  LET rcd == Record(ix0, t, c, ref)
           IN  /\ IndexOK(rcd.index) /\ Bounded(rcd.index)
               /\ \A u \in Threads \ {t} : Thinned(rcd.index.threads[u], ix0.threads[u])
               /\ \E entries \in Seq(CallEntry) :
                     LET n == NextOccurrence(entries, c)
                     IN  /\ Thinned(entries, ix0.threads[t])
                         /\ Thinned(rcd.index.threads[t], Append(entries, NewEntry(c, ref, n)))
                         /\ rcd.occurrence = n \/ (rcd.occurrence = 0 /\ rcd.index.threads[t] = <<>>)
<1> DEFINE ix1     == Advance(ix0, ref.at)
           ix2     == IF ix1.nextSweep = 0 \/ ix1.clock >= ix1.nextSweep THEN PruneAll(ix1) ELSE ix1
           entries == Prune(ix2, ix2.threads[t])
           n       == NextOccurrence(entries, c)
           entry   == NewEntry(c, ref, n)
           longer  == Append(entries, entry)
           pruned  == Prune(ix2, longer)
           kept    == LastOf(pruned)
           ix3     == [ix2 EXCEPT !.threads[t] = kept]
           ix4     == EvictOldestThread(ix3)
           rcd     == Record(ix0, t, c, ref)
<1>1. rcd = [index |-> ix4, occurrence |-> IF kept = <<>> THEN 0 ELSE n]
  BY DEF Record, NewEntry
<1>2. ref.of \in Resps /\ ref.origin \in 0..MaxResps /\ ref.at \in 1..Len(log) /\ ref.at \in 0..Len(log)
  BY DEF Ref
<1>3. IndexOK(ix1) /\ ix1.threads = ix0.threads
  BY <1>2, AdvanceIs
<1> HIDE DEF ix1
<1>4. IndexOK(ix2) /\ ThinnedIn(ix2, ix0)
  <2>1. ThinnedIn(ix1, ix1) /\ IndexOK(PruneAll(ix1)) /\ ThinnedIn(PruneAll(ix1), ix1)
    BY <1>3, PruneAllIs, ThinnedInSelf
  <2>2. IndexOK(ix2) /\ ThinnedIn(ix2, ix1)
    BY <1>3, <2>1
  <2> HIDE DEF ix2
  <2> QED
    BY <1>3, <2>2 DEF ThinnedIn
<1> HIDE DEF ix2
<1>5. ix2.threads[t] \in Seq(CallEntry) /\ ix0.threads[t] \in Seq(CallEntry)
  BY <1>4, IndexIs
<1>6. entries \in Seq(CallEntry) /\ Thinned(entries, ix2.threads[t])
  BY <1>5, PruneIs
<1> HIDE DEF entries
<1>7. Thinned(entries, ix0.threads[t])
  BY <1>4, <1>6, ThinnedInThread, ThinnedTwice
<1>8. n \in Nat \ {0}
  BY <1>6, NextOccurrenceIs
<1> HIDE DEF n
<1>9. entry \in CallEntry
  BY <1>2, <1>8 DEF CallEntry, NewEntry
<1> HIDE DEF entry
<1>10. longer \in Seq(CallEntry)
  BY <1>6, <1>9
<1> HIDE DEF longer
<1>11. pruned \in Seq(CallEntry) /\ Thinned(pruned, longer)
  BY <1>10, PruneIs
<1> HIDE DEF pruned
<1>12. kept \in Seq(CallEntry) /\ Thinned(kept, longer) /\ Len(kept) <= CallLimit
  BY <1>11, LastOfIs, ThinnedTwice
<1> HIDE DEF kept
<1>13. /\ IndexOK(ix3) /\ ix3.threads[t] = kept
       /\ \A u \in Threads \ {t} : ix3.threads[u] = ix2.threads[u]
  BY <1>4, <1>12 DEF IndexOK
<1> HIDE DEF ix3
<1>14. /\ IndexOK(ix4) /\ ThinnedIn(ix4, ix3)
       /\ \A u \in Threads : ix4.threads[u] = ix3.threads[u] \/ ix4.threads[u] = <<>>
       /\ IF Cardinality(Resident(ix3)) <= ThreadLimit
          THEN Cardinality(Resident(ix4)) = Cardinality(Resident(ix3))
          ELSE Cardinality(Resident(ix4)) = Cardinality(Resident(ix3)) - 1
  BY <1>13, EvictIs
<1> HIDE DEF ix4
<1>15. Bounded(ix4)
  <2>1. Bounded(ix2)
    BY <1>4, FewerInBounded, ThinnedInFewer
  <2>2. Resident(ix3) \subseteq Resident(ix2) \cup {t}
    BY <1>13, ResidentIs
  <2>3. Cardinality(Resident(ix3)) <= ThreadLimit + 1
    <3> DEFINE R == Resident(ix2) \cup {t}
               r == Cardinality(R)
               x == Cardinality(Resident(ix2))
               y == Cardinality(Resident(ix3))
    <3>1. IsFiniteSet(Resident(ix2)) /\ x \in Nat /\ y \in Nat
      BY ResidentIs
    <3>2. IsFiniteSet(R) /\ r = IF t \in Resident(ix2) THEN x ELSE x + 1
      BY <3>1, FS_AddElement
    <3>3. y <= r
      BY <2>2, <3>2, FS_Subset
    <3>4. x <= ThreadLimit
      BY <2>1 DEF Bounded
    <3> HIDE DEF R, r, x, y
    <3>5. y <= ThreadLimit + 1
      BY <3>1, <3>2, <3>3, <3>4, Bounds
    <3> QED
      BY <3>5 DEF y
  <2>4. Cardinality(Resident(ix4)) <= ThreadLimit
    <3> DEFINE y == Cardinality(Resident(ix3))
               z == Cardinality(Resident(ix4))
    <3>1. y \in Nat /\ z \in Nat
      BY ResidentIs
    <3>2. (IF y <= ThreadLimit THEN z = y ELSE z = y - 1) /\ y <= ThreadLimit + 1
      BY <1>14, <2>3
    <3> HIDE DEF y, z
    <3>3. z <= ThreadLimit
      BY <3>1, <3>2, Bounds
    <3> QED
      BY <3>3 DEF z
  <2>5. \A u \in Threads : Len(ix3.threads[u]) <= CallLimit
    BY <1>12, <1>13, <2>1 DEF Bounded
  <2>6. \A u \in Threads : Len(ix4.threads[u]) <= CallLimit
    BY <1>14, <2>5, Bounds
  <2> QED
    BY <2>4, <2>6 DEF Bounded
<1>16. ASSUME NEW u \in Threads \ {t}
       PROVE  Thinned(ix4.threads[u], ix0.threads[u])
  <2>1. Thinned(ix4.threads[u], ix2.threads[u])
    BY <1>13, <1>14, ThinnedInThread
  <2> QED
    BY <1>4, <2>1, ThinnedInThread, ThinnedTwice
<1>17. Thinned(ix4.threads[t], longer)
  BY <1>12, <1>13, <1>14, ThinnedInThread, ThinnedTwice
<1>18. rcd.index = ix4 /\ (rcd.occurrence = n \/ (rcd.occurrence = 0 /\ ix4.threads[t] = <<>>))
  <2>1. kept = <<>> => ix4.threads[t] = <<>>
    BY <1>13, <1>14
  <2> QED
    BY <1>1, <2>1
<1> HIDE DEF rcd
<1>19. /\ Thinned(rcd.index.threads[t], Append(entries, NewEntry(c, ref, NextOccurrence(entries, c))))
       /\ \/ rcd.occurrence = NextOccurrence(entries, c)
          \/ rcd.occurrence = 0 /\ rcd.index.threads[t] = <<>>
  BY <1>17, <1>18 DEF longer, entry, n
<1>20. IndexOK(rcd.index) /\ Bounded(rcd.index)
       /\ \A u \in Threads \ {t} : Thinned(rcd.index.threads[u], ix0.threads[u])
  BY <1>14, <1>15, <1>16, <1>18
<1> QED
  BY <1>6, <1>7, <1>19, <1>20 DEF rcd

LEMMA WithThread ==
    ASSUME NEW ix, IndexOK(ix), NEW t \in Threads, NEW s \in Seq(CallEntry)
    PROVE  LET jx == [ix EXCEPT !.threads[t] = s]
           IN  /\ IndexOK(jx) /\ jx.threads[t] = s
               /\ \A u \in Threads \ {t} : jx.threads[u] = ix.threads[u]
BY DEF IndexOK

LEMMA Consumed ==
    ASSUME NEW s \in Seq(CallEntry), NEW i \in 1..Len(s)
    PROVE  LET m == [s EXCEPT ![i].consumed = TRUE]
           IN  /\ m \in Seq(CallEntry) /\ Len(m) = Len(s)
               /\ \A j \in 1..Len(s) : j # i => m[j] = s[j]
               /\ m[i] = [s[i] EXCEPT !.consumed = TRUE] /\ Core(m[i]) = Core(s[i])
<1> DEFINE x == [s[i] EXCEPT !.consumed = TRUE]
           m == [s EXCEPT ![i] = x]
<1>1. s[i] \in CallEntry
  OBVIOUS
<1>2. x \in CallEntry /\ Core(x) = Core(s[i])
  BY <1>1 DEF CallEntry, Core
<1>3. [s EXCEPT ![i].consumed = TRUE] = m
  OBVIOUS
<1> HIDE DEF x
<1>4. m \in Seq(CallEntry) /\ Len(m) = Len(s) /\ m[i] = x /\ \A j \in 1..Len(s) : j # i => m[j] = s[j]
  BY <1>2
<1> HIDE DEF m
<1> QED
  BY <1>2, <1>3, <1>4 DEF x

\* Looking up: the only open entry of the id in the thread is taken.
\* What looking up an id comes to: the entries left, of which one may be marked.
LooksUp(l, entries, t, c) ==
    \/ /\ l.match # "exact" /\ l.index.threads[t] = entries
       /\ Cardinality(OpenPlaces(entries, c)) # 1
    \/ /\ l.match = "exact"
       /\ \E i \in 1..Len(entries) :
             /\ OpenPlaces(entries, c) = {i} /\ l.ref = entries[i]
             /\ l.index.threads[t] = [entries EXCEPT ![i].consumed = TRUE]

LEMMA LookupIs ==
    ASSUME NEW ix, IndexOK(ix), NEW t \in Threads, NEW c
    PROVE  LET l == Lookup(ix, t, c)
           IN  /\ IndexOK(l.index)
               /\ \A u \in Threads \ {t} : l.index.threads[u] = ix.threads[u]
               /\ l.ref.of \in 0..MaxResps /\ l.ref.origin \in 0..MaxResps /\ l.ref.occurrence \in Nat
               /\ l.match \in {"none", "ambiguous", "exact"}
               /\ \E entries \in Seq(CallEntry) :
                     Thinned(entries, ix.threads[t]) /\ LooksUp(l, entries, t, c)
<1> DEFINE entries == Prune(ix, ix.threads[t])
           at == OpenPlaces(entries, c)
           i == CHOOSE i \in at : TRUE
           l == Lookup(ix, t, c)
<1>1. l = IF Cardinality(at) # 1
          THEN [index |-> [ix EXCEPT !.threads[t] = entries],
                match |-> IF at = {} THEN "none" ELSE "ambiguous", ref |-> NoRef]
          ELSE [index |-> [ix EXCEPT !.threads[t] = [entries EXCEPT ![i].consumed = TRUE]],
                match |-> "exact", ref |-> entries[i]]
  BY DEF Lookup
<1>2. ix.threads[t] \in Seq(CallEntry)
  BY IndexIs
<1>3. entries \in Seq(CallEntry) /\ Thinned(entries, ix.threads[t])
  BY <1>2, PruneIs
<1> HIDE DEF entries
<1>4. Len(entries) \in Nat /\ DOMAIN entries = 1..Len(entries) /\ \A k \in 1..Len(entries) : entries[k] \in CallEntry
  BY <1>3
<1>5. at \subseteq 1..Len(entries)
  BY <1>4 DEF OpenPlaces
<1> HIDE DEF at
<1>6. CASE Cardinality(at) # 1
  <2>1. /\ l.index = [ix EXCEPT !.threads[t] = entries] /\ l.ref = NoRef
        /\ l.match \in {"none", "ambiguous"}
    BY <1>1, <1>6
  <2> HIDE DEF l
  <2>2. /\ IndexOK(l.index) /\ l.index.threads[t] = entries
        /\ \A u \in Threads \ {t} : l.index.threads[u] = ix.threads[u]
    BY <1>3, <2>1, WithThread
  <2>3. l.ref.of \in 0..MaxResps /\ l.ref.origin \in 0..MaxResps /\ l.ref.occurrence \in Nat
    BY <2>1, Bounds DEF NoRef
  <2>4. Thinned(entries, ix.threads[t]) /\ LooksUp(l, entries, t, c)
    BY <1>3, <1>6, <2>1, <2>2 DEF at, LooksUp
  <2> QED
    BY <1>3, <2>1, <2>2, <2>3, <2>4 DEF l
<1>7. CASE Cardinality(at) = 1
  <2>1. IsFiniteSet(at)
    BY <1>4, <1>5, UpToHas, FS_Subset
  <2>2. \E k : at = {k}
    BY <1>7, <2>1, FS_Singleton
  <2>3. at = {i}
    <3>1. \E k \in at : TRUE
      BY <2>2
    <3>2. i \in at
      BY <3>1, Zenon
    <3> HIDE DEF i
    <3> QED
      BY <2>2, <3>2
  <2> DEFINE marked == [entries EXCEPT ![i].consumed = TRUE]
  <2>4. /\ l.index = [ix EXCEPT !.threads[t] = marked] /\ l.ref = entries[i]
        /\ l.match = "exact"
    BY <1>1, <1>7
  <2> HIDE DEF i, l
  <2>5. i \in 1..Len(entries) /\ entries[i] \in CallEntry
    BY <1>4, <1>5, <2>3
  <2>6. marked \in Seq(CallEntry)
    BY <1>3, <2>5, Consumed
  <2> HIDE DEF marked
  <2>7. /\ IndexOK(l.index) /\ l.index.threads[t] = marked
        /\ \A u \in Threads \ {t} : l.index.threads[u] = ix.threads[u]
    BY <2>4, <2>6, WithThread
  <2>8. l.ref.of \in 0..MaxResps /\ l.ref.origin \in 0..MaxResps /\ l.ref.occurrence \in Nat
    <3>1. /\ entries[i].of \in 1..MaxResps /\ entries[i].origin \in 0..MaxResps
          /\ entries[i].occurrence \in Nat
      BY <2>5 DEF CallEntry, Resps
    <3> QED
      BY <2>4, <3>1, Bounds
  <2>9. /\ OpenPlaces(entries, c) = {i} /\ l.ref = entries[i]
        /\ l.index.threads[t] = [entries EXCEPT ![i].consumed = TRUE]
    <3>1. OpenPlaces(entries, c) = {i}
      BY <2>3 DEF at
    <3>2. marked = [entries EXCEPT ![i].consumed = TRUE]
      BY DEF marked
    <3> QED
      BY <2>4, <2>7, <3>1, <3>2
  <2>10. \E k \in 1..Len(entries) :
            /\ OpenPlaces(entries, c) = {k} /\ l.ref = entries[k]
            /\ l.index.threads[t] = [entries EXCEPT ![k].consumed = TRUE]
    BY <2>5, <2>9, Zenon
  <2>11. LooksUp(l, entries, t, c)
    BY <2>4, <2>10 DEF LooksUp
  <2> QED
    BY <1>3, <2>4, <2>7, <2>8, <2>11 DEF l
<1> QED
  BY <1>6, <1>7

-----------------------------------------------------------------------------
(* The set of fingerprints.                                                *)

Apart(s) == \A i, j \in 1..Len(s) : s[i] = s[j] => i = j

LEMMA JoinedIs ==
    ASSUME NEW S, NEW a \in Seq(S), NEW b \in Seq(S)
    PROVE  /\ a \o b \in Seq(S) /\ Len(a \o b) = Len(a) + Len(b)
           /\ \A n \in 1..Len(a) + Len(b) :
                 (a \o b)[n] = IF n <= Len(a) THEN a[n] ELSE b[n - Len(a)]
OBVIOUS

LEMMA PushedIs ==
    ASSUME NEW S, NEW k \in S, NEW s \in Seq(S)
    PROVE  LET m == <<k>> \o s
           IN  /\ m \in Seq(S) /\ Len(m) = Len(s) + 1
               /\ \A n \in 1..Len(s) + 1 : m[n] = IF n = 1 THEN k ELSE s[n - 1]
<1> DEFINE one == <<k>>
           m == one \o s
<1>1. one \in Seq(S) /\ Len(one) = 1 /\ one[1] = k /\ Len(s) \in Nat
  OBVIOUS
<1> HIDE DEF one
<1>2. /\ m \in Seq(S) /\ Len(m) = Len(one) + Len(s)
      /\ \A n \in 1..Len(one) + Len(s) : m[n] = IF n <= Len(one) THEN one[n] ELSE s[n - Len(one)]
  BY <1>1, JoinedIs
<1> HIDE DEF m
<1>3. Len(m) = Len(s) + 1
  BY <1>1, <1>2
<1>4. ASSUME NEW n \in 1..Len(s) + 1
      PROVE  m[n] = IF n = 1 THEN k ELSE s[n - 1]
  <2>1. n \in 1..Len(one) + Len(s) /\ (n <= Len(one) <=> n = 1) /\ n - Len(one) = n - 1
    BY <1>1
  <2> QED
    BY <1>1, <1>2, <2>1
<1> QED
  BY <1>2, <1>3, <1>4 DEF m, one

LEMMA RemovedIs ==
    ASSUME NEW S, NEW s \in Seq(S), Apart(s), NEW i \in 1..Len(s), NEW k, s[i] = k
    PROVE  LET m == RemoveFirst(s, k)
           IN  /\ m \in Seq(S) /\ Len(m) = Len(s) - 1
               /\ \A n \in 1..Len(s) - 1 : m[n] = IF n < i THEN s[n] ELSE s[n + 1]
<1> DEFINE I == {j \in 1..Len(s) : s[j] = k}
           at == Min(I)
           low == SubSeq(s, 1, i - 1)
           high == SubSeq(s, i + 1, Len(s))
           m == low \o high
<1>1. I = {i}
  BY DEF Apart
<1>2. at = i
  BY <1>1 DEF Min
<1>3. SelectInSeq(s, LAMBDA v : v = k) = at
  BY <1>1 DEF SelectInSeq
<1>4. RemoveFirst(s, k) = RemoveAt(s, at)
  BY <1>3 DEF RemoveFirst
<1>5. RemoveAt(s, at) = m
  BY <1>2 DEF RemoveAt
<1>6. Len(s) \in Nat
  OBVIOUS
<1>7. low \in Seq(S) /\ Len(low) = i - 1 /\ \A n \in 1..i - 1 : low[n] = s[n]
  BY <1>6
<1>8. high \in Seq(S) /\ Len(high) = Len(s) - i /\ \A n \in 1..Len(s) - i : high[n] = s[n + i]
  BY <1>6
<1> HIDE DEF I, at, low, high
<1>9. /\ m \in Seq(S) /\ Len(m) = Len(low) + Len(high)
      /\ \A n \in 1..Len(low) + Len(high) : m[n] = IF n <= Len(low) THEN low[n] ELSE high[n - Len(low)]
  BY <1>7, <1>8, JoinedIs
<1> HIDE DEF m
<1>10. Len(m) = Len(s) - 1
  BY <1>6, <1>7, <1>8, <1>9
<1>11. ASSUME NEW n \in 1..Len(s) - 1
       PROVE  m[n] = IF n < i THEN s[n] ELSE s[n + 1]
  <2>1. n \in 1..Len(low) + Len(high) /\ (n <= Len(low) <=> n < i)
    BY <1>6, <1>7, <1>8
  <2>2. CASE n < i
    BY <1>6, <1>7, <1>9, <2>1, <2>2
  <2>3. CASE ~(n < i)
    <3>1. n - Len(low) \in 1..Len(s) - i /\ (n - Len(low)) + i = n + 1
      BY <1>6, <1>7, <2>3
    <3> QED
      BY <1>8, <1>9, <2>1, <2>3, <3>1
  <2> QED
    BY <2>2, <2>3
<1> QED
  BY <1>4, <1>5, <1>9, <1>10, <1>11

LEMMA RemovedNot ==
    ASSUME NEW s, NEW k, \A i \in 1..Len(s) : s[i] # k
    PROVE  RemoveFirst(s, k) = s
BY DEF RemoveFirst

\* m is s with k moved from place i, or from nowhere, to the front.
Touched(m, s, k, i) ==
    /\ i \in 1..Len(s) + 1
    /\ IF i = Len(s) + 1 THEN \A j \in 1..Len(s) : s[j] # k ELSE s[i] = k
    /\ Len(m) = IF i = Len(s) + 1 THEN Len(s) + 1 ELSE Len(s)
    /\ \A n \in 1..Len(m) : m[n] = IF n = 1 THEN k ELSE IF n <= i THEN s[n - 1] ELSE s[n]

LEMMA TouchIs ==
    ASSUME NEW S, NEW k \in S, NEW s \in Seq(S), Apart(s)
    PROVE  Touch(s, k) \in Seq(S) /\ \E i : Touched(Touch(s, k), s, k, i)
<1> DEFINE rest == RemoveFirst(s, k)
           m == <<k>> \o rest
<1>1. Touch(s, k) = m /\ Len(s) \in Nat
  BY DEF Touch
<1>2. CASE \A j \in 1..Len(s) : s[j] # k
  <2>1. rest = s
    BY <1>2, RemovedNot
  <2> HIDE DEF rest
  <2>2. /\ m \in Seq(S) /\ Len(m) = Len(s) + 1
        /\ \A n \in 1..Len(s) + 1 : m[n] = IF n = 1 THEN k ELSE s[n - 1]
    BY <2>1, PushedIs
  <2> HIDE DEF m
  <2>3. Touched(m, s, k, Len(s) + 1)
    BY <1>1, <1>2, <2>2 DEF Touched
  <2> QED
    BY <1>1, <2>2, <2>3
<1>3. ASSUME NEW i \in 1..Len(s), s[i] = k
      PROVE  Touch(s, k) \in Seq(S) /\ \E j : Touched(Touch(s, k), s, k, j)
  <2>1. /\ rest \in Seq(S) /\ Len(rest) = Len(s) - 1
        /\ \A n \in 1..Len(s) - 1 : rest[n] = IF n < i THEN s[n] ELSE s[n + 1]
    BY <1>3, RemovedIs
  <2> HIDE DEF rest
  <2>2. /\ m \in Seq(S) /\ Len(m) = Len(rest) + 1
        /\ \A n \in 1..Len(rest) + 1 : m[n] = IF n = 1 THEN k ELSE rest[n - 1]
    BY <2>1, PushedIs
  <2> HIDE DEF m
  <2>3. Len(m) = Len(s)
    BY <1>1, <2>1, <2>2
  <2>4. ASSUME NEW n \in 1..Len(m)
        PROVE  m[n] = IF n = 1 THEN k ELSE IF n <= i THEN s[n - 1] ELSE s[n]
    <3>1. n \in 1..Len(rest) + 1
      BY <2>2
    <3>2. CASE n = 1
      BY <2>2, <3>1, <3>2
    <3>3. CASE n # 1
      <4>1. n - 1 \in 1..Len(s) - 1 /\ (n - 1 < i <=> n <= i) /\ (n - 1) + 1 = n
        BY <1>1, <2>3, <3>3
      <4> QED
        BY <2>1, <2>2, <3>1, <3>3, <4>1
    <3> QED
      BY <3>2, <3>3
  <2>5. Touched(m, s, k, i)
    BY <1>1, <1>3, <2>3, <2>4 DEF Touched
  <2> QED
    BY <1>1, <2>2, <2>5
<1> QED
  BY <1>2, <1>3

LEMMA TouchedIs ==
    ASSUME NEW S, NEW s \in Seq(S), NEW m \in Seq(S), NEW k, NEW i, Touched(m, s, k, i), Apart(s)
    PROVE  /\ Apart(m)
           /\ \A n \in 1..Len(m) : m[n] = k \/ \E j \in 1..Len(s) : m[n] = s[j]
<1> DEFINE Old(n) == IF n <= i THEN n - 1 ELSE n
<1>1. /\ Len(s) \in Nat /\ i \in 1..Len(s) + 1
      /\ IF i = Len(s) + 1 THEN \A j \in 1..Len(s) : s[j] # k ELSE s[i] = k
      /\ Len(m) = IF i = Len(s) + 1 THEN Len(s) + 1 ELSE Len(s)
      /\ \A n \in 1..Len(m) : m[n] = IF n = 1 THEN k ELSE IF n <= i THEN s[n - 1] ELSE s[n]
  BY DEF Touched
<1>2. ASSUME NEW n \in 1..Len(m), n # 1
      PROVE  Old(n) \in 1..Len(s) /\ Old(n) # i /\ m[n] = s[Old(n)] /\ s[Old(n)] # k
  <2>1. Old(n) \in 1..Len(s) /\ Old(n) # i
    BY <1>1, <1>2
  <2>2. m[n] = s[Old(n)]
    BY <1>1, <1>2
  <2>3. s[Old(n)] # k
    BY <1>1, <2>1 DEF Apart
  <2> QED
    BY <2>1, <2>2, <2>3
<1>3. ASSUME NEW a \in 1..Len(m), NEW b \in 1..Len(m), a # 1, b # 1, m[a] = m[b]
      PROVE  a = b
  <2>1. Old(a) = Old(b)
    BY <1>2, <1>3 DEF Apart
  <2>2. a \in Nat /\ b \in Nat
    BY <1>1
  <2> QED
    BY <1>1, <1>2, <1>3, <2>1, <2>2
<1>4. \A n \in 1..Len(m) : n = 1 => m[n] = k
  BY <1>1
<1>5. Apart(m)
  BY <1>2, <1>3, <1>4 DEF Apart
<1> HIDE DEF Old
<1> QED
  BY <1>2, <1>4, <1>5

\* s is the part of r that there is room for.
Fits(s, r) == s = SubSeq(r, 1, IF Len(r) < SeenSize THEN Len(r) ELSE SeenSize)

LEMMA FitsIs ==
    ASSUME NEW S, NEW r \in Seq(S), NEW s, NEW w, w = IF Len(r) < SeenSize THEN Len(r) ELSE SeenSize
    PROVE  /\ Fits(s, r) => s \in Seq(S) /\ Len(s) = w /\ \A n \in 1..w : s[n] = r[n]
           /\ s \in Seq(S) /\ Len(s) = w /\ (\A n \in 1..w : s[n] = r[n]) => Fits(s, r)
<1> DEFINE p == SubSeq(r, 1, w)
<1>1. w \in Nat /\ w <= Len(r) /\ Len(r) \in Nat
  BY Bounds
<1>2. p \in Seq(S) /\ Len(p) = w /\ \A n \in 1..w : p[n] = r[n]
  <2> HIDE DEF p
  <2>1. \A n \in 1..w : n \in 1..Len(r)
    BY <1>1
  <2> QED
    BY <1>1, <2>1 DEF p
<1>3. Fits(s, r) <=> s = p
  BY DEF Fits
<1> HIDE DEF p
<1>4. s \in Seq(S) /\ Len(s) = w /\ (\A n \in 1..w : s[n] = r[n]) => s = p
  <2> SUFFICES ASSUME s \in Seq(S), Len(s) = w, \A n \in 1..w : s[n] = r[n]
               PROVE  s = p
    OBVIOUS
  <2>1. \A n \in 1..Len(s) : s[n] = p[n]
    BY <1>2
  <2> QED
    BY <1>2, <2>1, SeqEqual
<1> QED
  BY <1>2, <1>3, <1>4

\* Adding a key keeps the set the keys that came last, and takes out no other
\* than the one that did not fit.
LEMMA AddSeenIs ==
    ASSUME NEW S, NEW k \in S, NEW r \in Seq(S), Apart(r), NEW s, Fits(s, r)
    PROVE  /\ Touch(r, k) \in Seq(S) /\ Apart(Touch(r, k)) /\ Fits(AddSeen(s, k), Touch(r, k))
           /\ Range(AddSeen(s, k)) \subseteq Range(s) \cup {k}
           /\ Contains(s, k) <=> k \in Range(s)
<1> DEFINE w == IF Len(r) < SeenSize THEN Len(r) ELSE SeenSize
           t == Touch(r, k)
           v == IF Len(t) < SeenSize THEN Len(t) ELSE SeenSize
           a == AddSeen(s, k)
<1>1. s \in Seq(S) /\ Len(s) = w /\ \A n \in 1..w : s[n] = r[n]
  <2>1. w = IF Len(r) < SeenSize THEN Len(r) ELSE SeenSize
    OBVIOUS
  <2> HIDE DEF w
  <2> QED
    BY <2>1, FitsIs
<1>2. w \in Nat /\ Len(r) \in Nat /\ SeenSize \in Nat /\ SeenSize > 0 /\ w <= Len(r) /\ w <= SeenSize
  BY Bounds
<1>3. Apart(s)
  <2>1. \A n \in 1..Len(s) : n \in 1..Len(r) /\ s[n] = r[n]
    BY <1>1, <1>2
  <2> QED
    BY <2>1 DEF Apart
<1>4. t \in Seq(S) /\ \E i : Touched(t, r, k, i)
  BY TouchIs
<1>5. PICK i : Touched(t, r, k, i)
  BY <1>4
<1> HIDE DEF t
<1>6. Apart(t)
  BY <1>4, <1>5, TouchedIs
<1>7. /\ i \in 1..Len(r) + 1
      /\ IF i = Len(r) + 1 THEN \A j \in 1..Len(r) : r[j] # k ELSE r[i] = k
      /\ Len(t) = IF i = Len(r) + 1 THEN Len(r) + 1 ELSE Len(r)
      /\ \A n \in 1..Len(t) : t[n] = IF n = 1 THEN k ELSE IF n <= i THEN r[n - 1] ELSE r[n]
  BY <1>5 DEF Touched
<1>8. Contains(s, k) <=> k \in Range(s)
  <2>1. DOMAIN s = 1..Len(s)
    BY <1>1
  <2> QED
    BY <2>1 DEF Contains, Range
<1>9. v \in Nat /\ (i = Len(r) + 1 /\ w < SeenSize => v = w + 1) /\ (~(i = Len(r) + 1 /\ w < SeenSize) => v = w)
  <2>1. CASE i = Len(r) + 1
    <3>1. Len(t) = Len(r) + 1
      BY <1>7, <2>1
    <3> QED
      BY <1>2, <2>1, <3>1
  <2>2. CASE i # Len(r) + 1
    <3>1. Len(t) = Len(r)
      BY <1>7, <2>2
    <3> QED
      BY <1>2, <2>2, <3>1
  <2> QED
    BY <2>1, <2>2
<1>10. CASE Contains(s, k) \/ Len(s) # SeenSize
  <2>1. a = Touch(s, k)
    <3>1. CASE Contains(s, k)
      BY <3>1 DEF AddSeen, Touch
    <3>2. CASE ~Contains(s, k) /\ Len(s) # SeenSize
      <4>1. RemoveFirst(s, k) = s
        BY <3>2, RemovedNot DEF Contains
      <4> QED
        BY <3>2, <4>1 DEF AddSeen, Touch
    <3> QED
      BY <1>10, <3>1, <3>2
  <2>2. a \in Seq(S) /\ \E j : Touched(a, s, k, j)
    BY <1>1, <1>3, <2>1, TouchIs
  <2>3. PICK j : Touched(a, s, k, j)
    BY <2>2
  <2> HIDE DEF a
  <2>4. /\ j \in 1..Len(s) + 1
        /\ IF j = Len(s) + 1 THEN \A m \in 1..Len(s) : s[m] # k ELSE s[j] = k
        /\ Len(a) = IF j = Len(s) + 1 THEN Len(s) + 1 ELSE Len(s)
        /\ \A n \in 1..Len(a) : a[n] = IF n = 1 THEN k ELSE IF n <= j THEN s[n - 1] ELSE s[n]
    BY <2>3 DEF Touched
  <2>5. i = j
    <3>1. CASE j = Len(s) + 1
      <4>1. w # SeenSize
        BY <1>1, <1>10, <2>4, <3>1 DEF Contains
      <4>2. w = Len(r)
        BY <1>2, <4>1
      <4>3. \A m \in 1..Len(r) : r[m] # k
        BY <1>1, <2>4, <3>1, <4>2
      <4> QED
        BY <1>1, <1>2, <1>7, <3>1, <4>2, <4>3
    <3>2. CASE j # Len(s) + 1
      <4>1. j \in 1..Len(r) /\ r[j] = k
        BY <1>1, <1>2, <2>4, <3>2
      <4>2. i # Len(r) + 1
        BY <1>7, <4>1
      <4>3. i \in 1..Len(r)
        BY <1>2, <1>7, <4>2
      <4>4. r[i] = k
        BY <1>7, <4>2
      <4> QED
        BY <4>1, <4>3, <4>4 DEF Apart
    <3> QED
      BY <3>1, <3>2
  <2>6. Len(a) = v
    <3>1. CASE i = Len(r) + 1
      <4>1. w = Len(r)
        BY <1>1, <1>2, <1>7, <2>4, <2>5, <3>1
      <4>2. w # SeenSize
        BY <1>1, <1>10, <2>4, <2>5, <3>1, <4>1 DEF Contains
      <4> QED
        BY <1>1, <1>2, <1>9, <2>4, <2>5, <3>1, <4>1, <4>2
    <3>2. CASE i # Len(r) + 1
      <4>1. j # Len(s) + 1
        <5> SUFFICES ASSUME j = Len(s) + 1 PROVE FALSE
          OBVIOUS
        <5>1. r[i] = k /\ i = w + 1
          BY <1>1, <1>7, <2>5, <3>2
        <5>2. \A m \in 1..Len(s) : s[m] # k
          BY <2>4
        <5>3. w # SeenSize
          BY <1>1, <1>10, <5>2 DEF Contains
        <5> QED
          BY <1>2, <1>7, <3>2, <5>1, <5>3
      <4> QED
        BY <1>1, <1>9, <2>4, <3>2, <4>1
    <3> QED
      BY <3>1, <3>2
  <2>7. ASSUME NEW n \in 1..v
        PROVE  a[n] = t[n]
    <3>1. n \in 1..Len(a) /\ n \in 1..Len(t)
      BY <1>2, <1>7, <1>9, <2>6
    <3>2. CASE n = 1
      BY <1>7, <2>4, <3>1, <3>2
    <3>3. CASE n # 1 /\ n <= i
      <4>1. n - 1 \in 1..w
        BY <1>1, <1>2, <2>4, <2>5, <2>6, <3>1, <3>3
      <4> QED
        BY <1>1, <1>7, <2>4, <2>5, <3>1, <3>3, <4>1
    <3>4. CASE n # 1 /\ ~(n <= i)
      <4>1. n \in 1..w
        BY <1>1, <1>2, <2>4, <2>5, <2>6, <3>1, <3>4
      <4> QED
        BY <1>1, <1>7, <2>4, <2>5, <3>1, <3>4, <4>1
    <3> QED
      BY <3>2, <3>3, <3>4
  <2>8. Fits(a, t)
    <3> HIDE DEF v
    <3> QED
      BY <1>4, <2>2, <2>6, <2>7, FitsIs DEF v
  <2>9. Range(a) \subseteq Range(s) \cup {k}
    <3>1. \A n \in 1..Len(a) : a[n] = k \/ \E m \in 1..Len(s) : a[n] = s[m]
      BY <1>1, <1>3, <2>2, <2>3, TouchedIs
    <3>2. DOMAIN a = 1..Len(a) /\ DOMAIN s = 1..Len(s)
      BY <1>1, <2>2
    <3> QED
      BY <3>1, <3>2 DEF Range
  <2> QED
    BY <1>4, <1>6, <1>8, <2>8, <2>9 DEF t, a
<1>11. CASE ~Contains(s, k) /\ Len(s) = SeenSize
  <2> DEFINE front == Front(s)
             m == <<k>> \o front
  <2>1. a = m
    BY <1>11 DEF AddSeen
  <2>2. front \in Seq(S) /\ Len(front) = SeenSize - 1 /\ \A n \in 1..SeenSize - 1 : front[n] = s[n]
    BY <1>1, <1>2, <1>11 DEF Front
  <2> HIDE DEF front
  <2>3. /\ m \in Seq(S) /\ Len(m) = Len(front) + 1
        /\ \A n \in 1..Len(front) + 1 : m[n] = IF n = 1 THEN k ELSE front[n - 1]
    BY <2>2, PushedIs
  <2> HIDE DEF m
  <2>4. Len(m) = v /\ v = SeenSize
    BY <1>1, <1>2, <1>9, <1>11, <2>2, <2>3
  <2>5. i > SeenSize
    <3>1. CASE i = Len(r) + 1
      BY <1>1, <1>2, <1>11, <3>1
    <3>2. CASE i # Len(r) + 1
      <4>1. i \notin 1..w
        BY <1>1, <1>7, <1>11, <3>2 DEF Contains
      <4> QED
        BY <1>1, <1>2, <1>7, <1>11, <4>1
    <3> QED
      BY <3>1, <3>2
  <2>6. ASSUME NEW n \in 1..v
        PROVE  m[n] = t[n]
    <3>1. n \in 1..Len(t) /\ n \in 1..Len(front) + 1 /\ n <= i
      BY <1>2, <1>7, <1>9, <2>2, <2>3, <2>4, <2>5
    <3>2. CASE n = 1
      BY <1>7, <2>3, <3>1, <3>2
    <3>3. CASE n # 1
      <4>1. n - 1 \in 1..SeenSize - 1 /\ n - 1 \in 1..w
        BY <1>1, <1>2, <1>11, <2>4, <3>3
      <4>2. m[n] = front[n - 1]
        BY <2>3, <3>1, <3>3
      <4>3. t[n] = r[n - 1]
        BY <1>7, <3>1, <3>3
      <4> QED
        BY <1>1, <2>2, <4>1, <4>2, <4>3
    <3> QED
      BY <3>2, <3>3
  <2>7. Fits(m, t)
    <3> HIDE DEF v
    <3> QED
      BY <1>4, <2>3, <2>4, <2>6, FitsIs DEF v
  <2>8. Range(m) \subseteq Range(s) \cup {k}
    <3>1. ASSUME NEW n \in 1..Len(m)
          PROVE  m[n] = k \/ \E j \in 1..Len(s) : m[n] = s[j]
      <4>1. CASE n = 1
        BY <2>2, <2>3, <4>1, <1>2
      <4>2. CASE n # 1
        <5>1. n - 1 \in 1..SeenSize - 1 /\ n - 1 \in 1..Len(s) /\ n \in 1..Len(front) + 1
          BY <1>2, <1>11, <2>2, <2>3, <4>2
        <5> QED
          BY <2>2, <2>3, <4>2, <5>1
      <4> QED
        BY <4>1, <4>2
    <3>2. DOMAIN m = 1..Len(m) /\ DOMAIN s = 1..Len(s)
      BY <1>1, <2>3
    <3> QED
      BY <3>1, <3>2 DEF Range
  <2> HIDE DEF a
  <2> QED
    BY <1>4, <1>6, <1>8, <2>1, <2>7, <2>8 DEF t, a
<1> QED
  BY <1>10, <1>11

-----------------------------------------------------------------------------
(* What the entries of the index say.                                      *)

\* Whether the first n records have the invocation of p.
Read(p, n) == \E i \in 1..n : log[i].what = "call" /\ log[i].resp = p

\* Neither p nor another invocation of its thread and id was dropped.
Clean(p, drop) == \A q \in Resps : SameId(q, p) => q \notin drop

Rank(p) == 1 + Cardinality(Earlier(p))

TellsOf(s, t) ==
    \A i \in 1..Len(s) :
        thread[s[i].of] = t /\ called[s[i].of] = s[i].id /\ s[i].origin \in {0, s[i].of}
CountsOf(s, n, drop) ==
    \A i \in 1..Len(s) :
        Read(s[i].of, n) /\ (Clean(s[i].of, drop) => s[i].occurrence = Rank(s[i].of))
OfsApart(s) == \A i, j \in 1..Len(s) : s[i].of = s[j].of => i = j

\* The entries of a thread are of its invocations, under their ids; and unless
\* records were read again, of different ones among the first n records, with
\* their rank for an occurrence.
Told(ix, n, drop, rew) ==
    \A t \in Threads :
        /\ TellsOf(ix.threads[t], t)
        /\ ~rew => CountsOf(ix.threads[t], n, drop) /\ OfsApart(ix.threads[t])

Consumes(ix, ans) ==
    \A t \in Threads : \A i \in 1..Len(ix.threads[t]) :
        ix.threads[t][i].consumed => ix.threads[t][i].of \in ans

Holds(ix, n, drop) == \A p \in Resps : Read(p, n) => p \in drop \cup Indexed(ix)

LEMMA ReadOn ==
    ASSUME NEW p, NEW n \in Nat, NEW m \in Nat, n <= m, Read(p, n)
    PROVE  Read(p, m)
BY DEF Read

LEMMA ListStays ==
    ASSUME NEW a, NEW b, Fewer(a, b)
    PROVE  /\ \A t : TellsOf(b, t) => TellsOf(a, t)
           /\ OfsApart(b) => OfsApart(a)
           /\ \A n, m \in Nat : \A drop, drop2 :
                 n <= m /\ drop \subseteq drop2 /\ CountsOf(b, n, drop) => CountsOf(a, m, drop2)
<1>1. \A i \in 1..Len(a) : \E j \in 1..Len(b) : Core(a[i]) = Core(b[j])
  BY FewerIs
<1>2. \A i \in 1..Len(a) : \E j \in 1..Len(b) :
         a[i].id = b[j].id /\ a[i].of = b[j].of /\ a[i].origin = b[j].origin /\ a[i].occurrence = b[j].occurrence
  <2> SUFFICES ASSUME NEW i \in 1..Len(a)
               PROVE  \E j \in 1..Len(b) : /\ a[i].id = b[j].id /\ a[i].of = b[j].of
                                           /\ a[i].origin = b[j].origin /\ a[i].occurrence = b[j].occurrence
    OBVIOUS
  <2>1. PICK j \in 1..Len(b) : Core(a[i]) = Core(b[j])
    BY <1>1
  <2> QED
    BY <2>1 DEF Core
<1>3. \A t : TellsOf(b, t) => TellsOf(a, t)
  BY <1>2 DEF TellsOf
<1>4. OfsApart(b) => OfsApart(a)
  BY FewerIs DEF OfsApart
<1>5. ASSUME NEW n \in Nat, NEW m \in Nat, NEW drop, NEW drop2, n <= m, drop \subseteq drop2,
             CountsOf(b, n, drop)
      PROVE  CountsOf(a, m, drop2)
  <2> SUFFICES ASSUME NEW i \in 1..Len(a)
               PROVE  Read(a[i].of, m) /\ (Clean(a[i].of, drop2) => a[i].occurrence = Rank(a[i].of))
    BY DEF CountsOf
  <2>1. PICK j \in 1..Len(b) : a[i].of = b[j].of /\ a[i].occurrence = b[j].occurrence
    BY <1>2
  <2>2. Read(b[j].of, n) /\ (Clean(b[j].of, drop) => b[j].occurrence = Rank(b[j].of))
    BY <1>5 DEF CountsOf
  <2>3. Read(b[j].of, m)
    BY <1>5, <2>2, ReadOn
  <2>4. Clean(b[j].of, drop2) => Clean(b[j].of, drop)
    BY <1>5 DEF Clean
  <2> QED
    BY <2>1, <2>2, <2>3, <2>4
<1> QED
  BY <1>3, <1>4, <1>5

LEMMA ToldStays ==
    ASSUME NEW a, NEW b, FewerIn(a, b), NEW n \in Nat, NEW m \in Nat, n <= m,
           NEW drop, NEW drop2, drop \subseteq drop2, NEW rew, NEW rew2, ~rew2 => ~rew,
           Told(b, n, drop, rew)
    PROVE  Told(a, m, drop2, rew2)
<1> SUFFICES ASSUME NEW t \in Threads
             PROVE  /\ TellsOf(a.threads[t], t)
                    /\ ~rew2 => CountsOf(a.threads[t], m, drop2) /\ OfsApart(a.threads[t])
  BY DEF Told
<1> DEFINE x == a.threads[t]
           y == b.threads[t]
<1>1. Fewer(x, y)
  BY DEF FewerIn
<1>2. TellsOf(y, t) /\ (~rew => CountsOf(y, n, drop) /\ OfsApart(y))
  BY DEF Told
<1> HIDE DEF x, y
<1>3. TellsOf(x, t)
  BY <1>1, <1>2, ListStays
<1>4. ASSUME ~rew2 PROVE CountsOf(x, m, drop2) /\ OfsApart(x)
  <2>1. CountsOf(y, n, drop) /\ OfsApart(y)
    BY <1>2, <1>4
  <2>2. OfsApart(x)
    BY <1>1, <2>1, ListStays
  <2>3. \A k, l \in Nat : \A d, d2 :
                 k <= l /\ d \subseteq d2 /\ CountsOf(y, k, d) => CountsOf(x, l, d2)
    BY <1>1, ListStays
  <2>4. CountsOf(x, m, drop2)
    BY <2>1, <2>3
  <2> QED
    BY <2>2, <2>4
<1> QED
  BY <1>3, <1>4 DEF x

LEMMA ConsumesStays ==
    ASSUME NEW a, NEW b, IndexOK(a), IndexOK(b), ThinnedIn(a, b), NEW ans, NEW ans2, ans \subseteq ans2,
           Consumes(b, ans)
    PROVE  Consumes(a, ans2)
<1> SUFFICES ASSUME NEW t \in Threads, NEW i \in 1..Len(a.threads[t]), a.threads[t][i].consumed
             PROVE  a.threads[t][i].of \in ans2
  BY DEF Consumes
<1> DEFINE x == a.threads[t]
           y == b.threads[t]
<1>1. Thinned(x, y) /\ y \in Seq(CallEntry) /\ Len(x) \in Nat
  BY IndexIs DEF ThinnedIn
<1>2. \A j \in 1..Len(y) : y[j].consumed => y[j].of \in ans
  BY DEF Consumes
<1>3. i \in 1..Len(x) /\ x[i].consumed
  OBVIOUS
<1> HIDE DEF x, y
<1>4. PICK j \in 1..Len(y) : x[i] = y[j]
  BY <1>1, <1>3, ThinnedIs
<1> QED
  BY <1>2, <1>3, <1>4 DEF x

\* What an index is said to hold it holds of what was read before, and what was
\* taken from it counts as dropped.
LEMMA HoldsOn ==
    ASSUME NEW a, NEW b, NEW n \in Nat, NEW m \in Nat, m <= n, NEW drop, NEW drop2,
           drop \subseteq drop2, Indexed(b) \subseteq drop2 \cup Indexed(a), Holds(b, n, drop)
    PROVE  Holds(a, m, drop2)
<1> SUFFICES ASSUME NEW p \in Resps, Read(p, m) PROVE p \in drop2 \cup Indexed(a)
  BY DEF Holds
<1>1. Read(p, n)
  BY ReadOn
<1>2. p \in drop \cup Indexed(b)
  BY <1>1 DEF Holds
<1> QED
  BY <1>2

-----------------------------------------------------------------------------
(* The rank of an invocation.                                              *)

Record0 == [what : {"create", "call", "done"}, resp : Resps]

\* An invocation is made once.
LogOK ==
    /\ log \in Seq(Record0)
    /\ \A i, j \in 1..Len(log) :
          log[i].what = "call" /\ log[j].what = "call" /\ log[i].resp = log[j].resp => i = j

LEMMA LogIs ==
    ASSUME LogOK
    PROVE  /\ Len(log) \in Nat /\ DOMAIN log = 1..Len(log)
           /\ \A i \in 1..Len(log) : log[i] \in Record0 /\ log[i].resp \in Resps
<1>1. Len(log) \in Nat /\ DOMAIN log = 1..Len(log) /\ \A i \in 1..Len(log) : log[i] \in Record0
  BY DEF LogOK
<1> QED
  BY <1>1 DEF Record0

LEMMA EarlierIs ==
    ASSUME LogOK, NEW j \in 1..Len(log), log[j].what = "call", NEW p, log[j].resp = p, NEW q
    PROVE  q \in Earlier(p) <=> q \in Resps /\ SameId(p, q) /\ Read(q, j - 1)
<1>1. Len(log) \in Nat /\ DOMAIN log = 1..Len(log) /\ \A i \in 1..Len(log) : log[i] \in Record0
  BY LogIs
<1>2. \A i \in 1..Len(log) : \A x : log[i] = [what |-> "call", resp |-> x] <=> log[i].what = "call" /\ log[i].resp = x
  BY <1>1 DEF Record0
<1>3. \A i \in 1..Len(log) : log[i].what = "call" /\ log[i].resp = p => i = j
  BY DEF LogOK
<1>4. ASSUME q \in Earlier(p) PROVE q \in Resps /\ SameId(p, q) /\ Read(q, j - 1)
  <2>1. /\ q \in Resps /\ SameId(p, q)
        /\ \E i, k \in 1..Len(log) : i < k /\ log[i] = [what |-> "call", resp |-> q]
                                           /\ log[k] = [what |-> "call", resp |-> p]
    BY <1>1, <1>4 DEF Earlier
  <2>2. PICK i \in 1..Len(log), k \in 1..Len(log) :
           i < k /\ log[i] = [what |-> "call", resp |-> q] /\ log[k] = [what |-> "call", resp |-> p]
    BY <2>1
  <2>3. k = j /\ log[i].what = "call" /\ log[i].resp = q
    BY <1>2, <1>3, <2>2
  <2>4. i \in 1..j - 1
    BY <1>1, <2>2, <2>3
  <2> QED
    BY <2>1, <2>3, <2>4 DEF Read
<1>5. ASSUME q \in Resps, SameId(p, q), Read(q, j - 1) PROVE q \in Earlier(p)
  <2>1. PICK i \in 1..j - 1 : log[i].what = "call" /\ log[i].resp = q
    BY <1>5 DEF Read
  <2>2. i \in 1..Len(log) /\ i < j
    BY <1>1
  <2>3. log[i] = [what |-> "call", resp |-> q] /\ log[j] = [what |-> "call", resp |-> p]
    BY <1>2, <2>1, <2>2
  <2>4. \E a, b \in DOMAIN log : a < b /\ log[a] = [what |-> "call", resp |-> q] /\ log[b] = [what |-> "call", resp |-> p]
    BY <1>1, <2>2, <2>3
  <2> QED
    BY <1>5, <2>4 DEF Earlier
<1> QED
  BY <1>4, <1>5

\* Every earlier invocation has a lower rank, and the last of them the next lower.
LEMMA RanksBelow ==
    ASSUME LogOK, NEW j \in 1..Len(log), log[j].what = "call", NEW p, log[j].resp = p
    PROVE  LET n == Cardinality(Earlier(p))
           IN  /\ n \in Nat /\ IsFiniteSet(Earlier(p))
               /\ \A q \in Earlier(p) : Rank(q) \in Nat /\ Rank(q) >= 1 /\ Rank(q) <= n
               /\ Earlier(p) = {} => n = 0
               /\ Earlier(p) # {} => \E q \in Earlier(p) : Rank(q) = n
<1> DEFINE E == Earlier(p)
           n == Cardinality(E)
<1>1. \A q : q \in E <=> q \in Resps /\ SameId(p, q) /\ Read(q, j - 1)
  BY EarlierIs
<1>2. IsFiniteSet(E) /\ n \in Nat
  <2>1. E \subseteq 1..MaxResps
    BY <1>1 DEF Resps
  <2> HIDE DEF E
  <2> QED
    BY <2>1, Bounds, UpToHas, FS_Subset, FS_CardinalityType
<1>3. Len(log) \in Nat /\ \A i \in 1..Len(log) : log[i].resp \in Resps
  BY LogIs
<1>4. \A q \in E : \E i \in 1..j - 1 : log[i].what = "call" /\ log[i].resp = q
  BY <1>1 DEF Read
<1>5. ASSUME NEW q \in E, NEW i \in 1..j - 1, log[i].what = "call", log[i].resp = q, NEW x
      PROVE  x \in Earlier(q) <=> x \in Resps /\ SameId(q, x) /\ Read(x, i - 1)
  <2>1. i \in 1..Len(log)
    BY <1>3
  <2> QED
    BY <1>5, <2>1, EarlierIs
<1>6. ASSUME NEW q \in E
      PROVE  /\ Earlier(q) \subseteq E \ {q} /\ IsFiniteSet(E \ {q}) /\ Cardinality(E \ {q}) = n - 1
             /\ Rank(q) \in Nat /\ Rank(q) >= 1 /\ Rank(q) <= n
  <2>1. PICK i \in 1..j - 1 : log[i].what = "call" /\ log[i].resp = q
    BY <1>4
  <2>2. SameId(p, q)
    BY <1>1
  <2>3. ASSUME NEW x \in Earlier(q) PROVE x \in E /\ x # q
    <3>1. x \in Resps /\ SameId(q, x) /\ Read(x, i - 1)
      BY <1>5, <2>1
    <3>2. SameId(p, x)
      BY <2>2, <3>1 DEF SameId
    <3>3. i - 1 \in Nat /\ j - 1 \in Nat /\ i - 1 <= j - 1
      BY <1>3
    <3>4. Read(x, j - 1)
      BY <3>1, <3>3, ReadOn
    <3>5. x # q
      <4>1. PICK k \in 1..i - 1 : log[k].what = "call" /\ log[k].resp = x
        BY <3>1 DEF Read
      <4>2. k \in 1..Len(log) /\ i \in 1..Len(log) /\ k # i
        BY <1>3
      <4> QED
        BY <2>1, <4>1, <4>2 DEF LogOK
    <3> QED
      BY <1>1, <3>1, <3>2, <3>4, <3>5
  <2>4. IsFiniteSet(E \ {q}) /\ Cardinality(E \ {q}) = n - 1
    <3> HIDE DEF E
    <3> QED
      BY <1>2, <1>6, FS_RemoveElement
  <2>5. Earlier(q) \subseteq E \ {q}
    BY <2>3
  <2>6. IsFiniteSet(Earlier(q)) /\ Cardinality(Earlier(q)) \in Nat /\ Cardinality(Earlier(q)) <= n - 1
    <3> HIDE DEF E
    <3> QED
      BY <2>4, <2>5, FS_Subset, FS_CardinalityType
  <2> HIDE DEF E, n
  <2> QED
    BY <1>2, <2>4, <2>5, <2>6 DEF Rank
<1>7. E = {} => n = 0
  BY FS_EmptySet
<1>8. ASSUME E # {} PROVE \E q \in E : Rank(q) = n
  <2> DEFINE P == {i \in 1..j - 1 : log[i].what = "call" /\ log[i].resp \in E}
  <2>1. P # {} /\ P \in SUBSET (0..Len(log))
    BY <1>3, <1>4, <1>8
  <2>2. PICK i \in P : \A k \in P : i >= k
    <3> HIDE DEF P
    <3>1. Len(log) \in Nat
      BY <1>3
    <3> QED
      BY <2>1, <3>1, MaxIsMember
  <2> DEFINE q == log[i].resp
  <2>3. q \in E /\ i \in 1..j - 1 /\ log[i].what = "call" /\ log[i].resp = q
    OBVIOUS
  <2> HIDE DEF q
  <2>4. ASSUME NEW x \in E, x # q PROVE x \in Earlier(q)
    <3>1. PICK k \in 1..j - 1 : log[k].what = "call" /\ log[k].resp = x
      BY <1>4
    <3>2. k \in P /\ k # i
      BY <2>3, <2>4, <3>1
    <3>3. k \in 1..i - 1
      BY <2>2, <3>2, <1>3
    <3>4. Read(x, i - 1)
      BY <3>1, <3>3 DEF Read
    <3>5. x \in Resps /\ SameId(q, x)
      BY <1>1, <2>3 DEF SameId
    <3> QED
      BY <1>5, <2>3, <3>4, <3>5
  <2>5. Earlier(q) = E \ {q} /\ Cardinality(E \ {q}) = n - 1
    <3>1. Earlier(q) \subseteq E \ {q} /\ Cardinality(E \ {q}) = n - 1
      BY <1>6, <2>3
    <3> QED
      BY <2>4, <3>1
  <2>6. Rank(q) = n
    <3> HIDE DEF E, n
    <3> QED
      BY <1>2, <2>5 DEF Rank
  <2> QED
    BY <2>3, <2>6
<1> QED
  BY <1>2, <1>6, <1>7, <1>8

\* An invocation gets its rank, if the thread's entries under its id are of all
\* that came before it and have theirs.
LEMMA NextIsRank ==
    ASSUME LogOK, NEW j \in 1..Len(log), log[j].what = "call", NEW p, log[j].resp = p,
           NEW s \in Seq(CallEntry), NEW c,
           \A i \in 1..Len(s) : s[i].id = c => s[i].of \in Earlier(p) /\ s[i].occurrence = Rank(s[i].of),
           \A q \in Earlier(p) : \E i \in 1..Len(s) : s[i].id = c /\ s[i].of = q
    PROVE  NextOccurrence(s, c) = Rank(p)
<1> DEFINE m == NextOccurrence(s, c)
           n == Cardinality(Earlier(p))
<1>1. /\ m \in Nat \ {0}
      /\ \A i \in 1..Len(s) : s[i].id = c => s[i].occurrence < m
      /\ m = 1 \/ \E i \in 1..Len(s) : s[i].id = c /\ m = s[i].occurrence + 1
  BY NextOccurrenceIs
<1>2. /\ n \in Nat
      /\ \A q \in Earlier(p) : Rank(q) \in Nat /\ Rank(q) >= 1 /\ Rank(q) <= n
      /\ Earlier(p) = {} => n = 0
      /\ Earlier(p) # {} => \E q \in Earlier(p) : Rank(q) = n
  BY RanksBelow
<1>3. Rank(p) = 1 + n
  BY DEF Rank
<1> HIDE DEF m, n
<1>4. CASE Earlier(p) = {}
  <2>1. \A i \in 1..Len(s) : s[i].id # c
    BY <1>4
  <2>2. m = 1 /\ n = 0
    BY <1>1, <1>2, <1>4, <2>1
  <2> QED
    BY <1>3, <2>2 DEF m
<1>5. CASE Earlier(p) # {}
  <2>1. PICK q \in Earlier(p) : Rank(q) = n
    BY <1>2, <1>5
  <2>2. PICK i \in 1..Len(s) : s[i].id = c /\ s[i].of = q
    BY <2>1
  <2>3. s[i].occurrence = n /\ n < m /\ n >= 1
    BY <1>1, <1>2, <2>1, <2>2
  <2>4. PICK k \in 1..Len(s) : s[k].id = c /\ m = s[k].occurrence + 1
    BY <1>1, <1>2, <2>3
  <2>5. s[k].occurrence \in Nat /\ s[k].occurrence <= n
    BY <1>2, <2>4
  <2>6. m = n + 1
    <3> DEFINE o == s[k].occurrence
    <3>1. m \in Nat /\ n \in Nat /\ o \in Nat /\ o <= n /\ n < m /\ m = o + 1
      BY <1>1, <1>2, <2>3, <2>4, <2>5
    <3> HIDE DEF o
    <3> QED
      BY <3>1
  <2> QED
    BY <1>2, <1>3, <2>6 DEF m
<1> QED
  BY <1>4, <1>5

\* After recording the index still tells the truth: what was recorded is of the
\* invocation just read, and has its rank.
\* n is the rank of p, unless records were read again or there was a loss.
Ranked(n, p, drop, rew) == ~rew /\ Clean(p, drop) => n = Rank(p)

LEMMA RecordTold ==
    ASSUME LogOK, NEW ix0, IndexOK(ix0), Bounded(ix0), NEW drop, NEW ans, NEW rew \in BOOLEAN,
           NEW n \in Nat, NEW here \in 1..Len(log), here = n + 1, log[here].what = "call",
           NEW ref \in Ref, log[here].resp = ref.of,
           thread[ref.of] \in Threads, called[ref.of] \in CallIds, ref.origin \in {0, ref.of},
           Told(ix0, n, drop, rew), Consumes(ix0, ans), Holds(ix0, n, drop),
           NEW rcd, rcd = Record(ix0, thread[ref.of], called[ref.of], ref),
           NEW drop2, drop \subseteq drop2, Indexed(ix0) \subseteq drop2 \cup Indexed(rcd.index),
           ref.of \in drop2 \cup Indexed(rcd.index)
    PROVE  /\ IndexOK(rcd.index) /\ Bounded(rcd.index) /\ rcd.occurrence \in Nat
           /\ Told(rcd.index, here, drop2, rew) /\ Consumes(rcd.index, ans)
           /\ Ranked(rcd.occurrence, ref.of, drop2, rew)
<1> DEFINE p == ref.of
           t == thread[p]
           c == called[p]
           ix == rcd.index
<1>1. Len(log) \in Nat /\ p \in Resps /\ t \in Threads /\ c \in CallIds
  BY LogIs DEF Ref
<1>2. /\ IndexOK(ix) /\ Bounded(ix)
      /\ \A u \in Threads \ {t} : Thinned(ix.threads[u], ix0.threads[u])
      /\ \E entries \in Seq(CallEntry) :
            LET m == NextOccurrence(entries, c)
            IN  /\ Thinned(entries, ix0.threads[t])
                /\ Thinned(ix.threads[t], Append(entries, NewEntry(c, ref, m)))
                /\ rcd.occurrence = m \/ (rcd.occurrence = 0 /\ ix.threads[t] = <<>>)
  BY <1>1, RecordIs
<1>3. PICK entries \in Seq(CallEntry) :
            LET m == NextOccurrence(entries, c)
            IN  /\ Thinned(entries, ix0.threads[t])
                /\ Thinned(ix.threads[t], Append(entries, NewEntry(c, ref, m)))
                /\ rcd.occurrence = m \/ (rcd.occurrence = 0 /\ ix.threads[t] = <<>>)
  BY <1>2
<1> DEFINE m == NextOccurrence(entries, c)
           entry == NewEntry(c, ref, m)
           old == ix0.threads[t]
           new == ix.threads[t]
           longer == Append(entries, entry)
<1>4. /\ Thinned(entries, old) /\ Thinned(new, longer)
      /\ rcd.occurrence = m \/ (rcd.occurrence = 0 /\ new = <<>>)
  BY <1>3
<1>5. m \in Nat \ {0}
  BY NextOccurrenceIs
<1>6. /\ old \in Seq(CallEntry) /\ new \in Seq(CallEntry) /\ Len(new) \in Nat /\ Len(entries) \in Nat
  <2>1. IndexOK(ix) /\ t \in Threads
    BY <1>1, <1>2
  <2> HIDE DEF ix, t
  <2>2. ix.threads[t] \in Seq(CallEntry) /\ Len(ix.threads[t]) \in Nat
    BY <2>1, IndexIs
  <2>3. ix0.threads[t] \in Seq(CallEntry)
    BY <2>1, IndexIs
  <2> QED
    BY <2>2, <2>3
<1>7. /\ entry \in CallEntry /\ entry.of = p /\ entry.id = c /\ entry.origin \in {0, p}
      /\ entry.occurrence = m /\ ~entry.consumed
  BY <1>1, <1>5 DEF NewEntry, Ref, CallEntry
<1> HIDE DEF entry
<1>8. /\ longer \in Seq(CallEntry) /\ Len(longer) = Len(entries) + 1
      /\ longer[Len(entries) + 1] = entry /\ \A i \in 1..Len(entries) : longer[i] = entries[i]
  BY <1>6, <1>7
<1> HIDE DEF longer
<1>9. \A i \in 1..Len(longer) : i \in 1..Len(entries) \/ i = Len(entries) + 1
  BY <1>6, <1>8
<1>10. TellsOf(old, t) /\ (~rew => CountsOf(old, n, drop) /\ OfsApart(old))
  BY <1>1 DEF Told
<1>11. \A i \in 1..Len(old) : old[i].consumed => old[i].of \in ans
  BY <1>1 DEF Consumes
<1> HIDE DEF old, new
<1>12. Fewer(entries, old) /\ Fewer(new, longer)
  BY <1>4, ThinnedFewer
<1>13. TellsOf(entries, t) /\ (~rew => CountsOf(entries, n, drop) /\ OfsApart(entries))
  <2>1. TellsOf(entries, t) /\ (OfsApart(old) => OfsApart(entries))
    BY <1>10, <1>12, ListStays
  <2>2. CountsOf(old, n, drop) => CountsOf(entries, n, drop)
    <3>1. \A k, l \in Nat : \A d, d2 :
                 k <= l /\ d \subseteq d2 /\ CountsOf(old, k, d) => CountsOf(entries, l, d2)
      BY <1>12, ListStays
    <3>2. n <= n /\ drop \subseteq drop
      OBVIOUS
    <3> QED
      BY <3>1, <3>2
  <2> QED
    BY <1>10, <2>1, <2>2
<1>14. \A i \in 1..Len(entries) : entries[i].consumed => entries[i].of \in ans
  <2>1. \A i \in 1..Len(entries) : \E j \in 1..Len(old) : entries[i] = old[j]
    BY <1>4, <1>6, ThinnedIs
  <2> QED
    BY <1>11, <2>1
<1>15. Read(p, n + 1) /\ ~Read(p, n)
  <2>1. log[n + 1].what = "call" /\ log[n + 1].resp = p
    OBVIOUS
  <2>2. Read(p, n + 1)
    BY <1>1, <2>1 DEF Read
  <2>3. \A i \in 1..n : i \in 1..Len(log) /\ i # n + 1
    BY <1>1
  <2> QED
    BY <2>1, <2>2, <2>3 DEF Read, LogOK
<1>16. TellsOf(longer, t)
  <2> SUFFICES ASSUME NEW i \in 1..Len(longer)
               PROVE  thread[longer[i].of] = t /\ called[longer[i].of] = longer[i].id
                      /\ longer[i].origin \in {0, longer[i].of}
    BY DEF TellsOf
  <2>1. CASE i \in 1..Len(entries)
    BY <1>8, <1>13, <2>1 DEF TellsOf
  <2>2. CASE i = Len(entries) + 1
    BY <1>7, <1>8, <2>2
  <2> QED
    BY <1>9, <2>1, <2>2
<1>17. TellsOf(new, t)
  BY <1>12, <1>16, ListStays
<1>18. ~rew => OfsApart(longer)
  <2> SUFFICES ASSUME ~rew, NEW i \in 1..Len(longer), NEW j \in 1..Len(longer), longer[i].of = longer[j].of
               PROVE  i = j
    BY DEF OfsApart
  <2>1. \A k \in 1..Len(entries) : entries[k].of # p
    BY <1>13, <1>15 DEF CountsOf
  <2>2. CASE i \in 1..Len(entries) /\ j \in 1..Len(entries)
    BY <1>8, <1>13, <2>2 DEF OfsApart
  <2> QED
    BY <1>7, <1>8, <1>9, <2>1, <2>2
<1>19. drop \subseteq drop2 /\ p \in drop2 \cup Indexed(ix) /\ Indexed(ix0) \subseteq drop2 \cup Indexed(ix)
  OBVIOUS
<1>20. ASSUME ~rew, Clean(p, drop2) PROVE m = Rank(p) /\ new # <<>>
  <2>1. p \notin drop2
    BY <1>1, <1>20 DEF Clean, SameId
  <2>2. ASSUME NEW q \in Resps, SameId(p, q), q \in Indexed(ix)
        PROVE  \E i \in 1..Len(new) : new[i].of = q
    <3>1. PICK u \in Threads : \E i \in 1..Len(ix.threads[u]) : ix.threads[u][i].of = q
      <4>1. IndexOK(ix) /\ q \in Indexed(ix)
        BY <1>2, <2>2
      <4> HIDE DEF ix
      <4> QED
        BY <4>1, IndexedIs
    <3>2. CASE u = t
      BY <3>1, <3>2 DEF new
    <3>3. CASE u # t
      <4>1. Fewer(ix.threads[u], ix0.threads[u]) /\ TellsOf(ix0.threads[u], u)
        BY <1>2, <3>3, ThinnedFewer DEF Told
      <4>2. TellsOf(ix.threads[u], u)
        BY <4>1, ListStays
      <4>3. thread[q] = u
        BY <3>1, <4>2 DEF TellsOf
      <4> QED
        BY <2>2, <3>3, <4>3 DEF SameId
    <3> QED
      BY <3>2, <3>3
  <2>3. new # <<>>
    <3>1. p \in Indexed(ix) /\ SameId(p, p)
      BY <1>19, <2>1 DEF SameId
    <3>2. \E i \in 1..Len(new) : new[i].of = p
      BY <1>1, <2>2, <3>1
    <3>3. Len(new) # 0
      BY <1>6, <3>2
    <3> HIDE DEF p
    <3> QED
      BY <3>3
  <2>4. \A q : q \in Earlier(p) <=> q \in Resps /\ SameId(p, q) /\ Read(q, n)
    <3>1. (n + 1) - 1 = n
      OBVIOUS
    <3> QED
      BY <3>1, EarlierIs
  <2>5. ASSUME NEW i \in 1..Len(entries), entries[i].id = c
        PROVE  entries[i].of \in Earlier(p) /\ entries[i].occurrence = Rank(entries[i].of)
    <3> DEFINE q == entries[i].of
    <3>1. thread[q] = t /\ called[q] = c
      BY <1>13, <2>5 DEF TellsOf
    <3>2. Read(q, n) /\ (Clean(q, drop) => entries[i].occurrence = Rank(q))
      BY <1>13, <1>20 DEF CountsOf
    <3>3. q \in Resps
      <4>1. entries[i] \in CallEntry
        OBVIOUS
      <4> QED
        BY <4>1 DEF CallEntry
    <3>4. SameId(p, q)
      BY <3>1 DEF SameId
    <3>5. Clean(q, drop)
      BY <1>19, <1>20, <3>4 DEF Clean, SameId
    <3> QED
      BY <2>4, <3>2, <3>3, <3>4, <3>5
  <2>6. ASSUME NEW q \in Earlier(p) PROVE \E i \in 1..Len(entries) : entries[i].id = c /\ entries[i].of = q
    <3>1. q \in Resps /\ SameId(p, q) /\ Read(q, n)
      BY <2>4
    <3>2. q \in drop \cup Indexed(ix0)
      BY <3>1 DEF Holds
    <3>3. q \notin drop2
      BY <1>20, <3>1 DEF Clean, SameId
    <3>4. q \in Indexed(ix)
      BY <1>19, <3>2, <3>3
    <3>5. PICK i \in 1..Len(new) : new[i].of = q
      BY <2>2, <3>1, <3>4
    <3>6. PICK j \in 1..Len(longer) : new[i] = longer[j]
      BY <1>4, <1>6, <1>8, ThinnedIs
    <3>7. q # p
      BY <1>15, <3>1
    <3>8. j \in 1..Len(entries) /\ longer[j] = entries[j]
      BY <1>7, <1>8, <1>9, <3>5, <3>6, <3>7
    <3>9. entries[j].id = c
      BY <1>13, <3>1, <3>5, <3>6, <3>8 DEF TellsOf, SameId
    <3> QED
      BY <3>5, <3>6, <3>8, <3>9
  <2>7. PICK j \in 1..Len(log) : log[j].what = "call" /\ log[j].resp = p
    OBVIOUS
  <2>8. \A i \in 1..Len(entries) : entries[i].id = c => entries[i].of \in Earlier(p) /\ entries[i].occurrence = Rank(entries[i].of)
    BY <2>5
  <2>9. \A q \in Earlier(p) : \E i \in 1..Len(entries) : entries[i].id = c /\ entries[i].of = q
    BY <2>6
  <2> HIDE DEF p, c
  <2>10. NextOccurrence(entries, c) = Rank(p)
    BY <2>7, <2>8, <2>9, NextIsRank, SMTT(30)
  <2> QED
    BY <2>3, <2>10
<1>21. ~rew => CountsOf(longer, n + 1, drop2)
  <2> SUFFICES ASSUME ~rew, NEW i \in 1..Len(longer)
               PROVE  Read(longer[i].of, n + 1) /\ (Clean(longer[i].of, drop2) => longer[i].occurrence = Rank(longer[i].of))
    BY DEF CountsOf
  <2>1. CASE i = Len(entries) + 1
    BY <1>7, <1>8, <1>15, <1>20, <2>1
  <2>2. CASE i \in 1..Len(entries)
    <3>1. Read(entries[i].of, n) /\ (Clean(entries[i].of, drop) => entries[i].occurrence = Rank(entries[i].of))
      BY <1>13, <2>2 DEF CountsOf
    <3>2. Read(entries[i].of, n + 1)
      <4>1. n + 1 \in Nat /\ n <= n + 1
        OBVIOUS
      <4> QED
        BY <3>1, <4>1, ReadOn
    <3>3. Clean(entries[i].of, drop2) => Clean(entries[i].of, drop)
      BY <1>19 DEF Clean
    <3> QED
      BY <1>8, <2>2, <3>1, <3>2, <3>3
  <2> QED
    BY <1>9, <2>1, <2>2
<1>22. ~rew => CountsOf(new, n + 1, drop2) /\ OfsApart(new)
  <2> SUFFICES ASSUME ~rew PROVE CountsOf(new, n + 1, drop2) /\ OfsApart(new)
    OBVIOUS
  <2>1. \A k, l \in Nat : \A d, d2 :
                 k <= l /\ d \subseteq d2 /\ CountsOf(longer, k, d) => CountsOf(new, l, d2)
    BY <1>12, ListStays
  <2>2. CountsOf(longer, n + 1, drop2) /\ n + 1 \in Nat /\ n + 1 <= n + 1 /\ drop2 \subseteq drop2
    BY <1>21
  <2>3. CountsOf(new, n + 1, drop2)
    BY <2>1, <2>2
  <2>4. OfsApart(new)
    BY <1>12, <1>18, ListStays
  <2> QED
    BY <2>3, <2>4
<1>23. Told(ix, n + 1, drop2, rew)
  <2> SUFFICES ASSUME NEW u \in Threads
               PROVE  /\ TellsOf(ix.threads[u], u)
                      /\ ~rew => CountsOf(ix.threads[u], n + 1, drop2) /\ OfsApart(ix.threads[u])
    BY DEF Told
  <2>1. CASE u = t
    BY <1>17, <1>22, <2>1 DEF new
  <2>2. CASE u # t
    <3> DEFINE x == ix.threads[u]
               y == ix0.threads[u]
    <3>1. Fewer(x, y) /\ TellsOf(y, u) /\ (~rew => CountsOf(y, n, drop) /\ OfsApart(y))
      BY <1>2, <2>2, ThinnedFewer DEF Told
    <3> HIDE DEF x, y
    <3>2. TellsOf(x, u) /\ (OfsApart(y) => OfsApart(x))
      BY <3>1, ListStays
    <3>3. \A k, l \in Nat : \A d, d2 :
                 k <= l /\ d \subseteq d2 /\ CountsOf(y, k, d) => CountsOf(x, l, d2)
      BY <3>1, ListStays
    <3>4. n + 1 \in Nat /\ n <= n + 1
      OBVIOUS
    <3>5. CountsOf(y, n, drop) => CountsOf(x, n + 1, drop2)
      BY <1>19, <3>3, <3>4
    <3> QED
      BY <3>1, <3>2, <3>5 DEF x
  <2> QED
    BY <2>1, <2>2
<1>23a. \A i \in 1..Len(new) : \E j \in 1..Len(longer) : new[i] = longer[j]
  BY <1>4, <1>6, <1>8, ThinnedIs
<1>24. Consumes(ix, ans)
  <2> SUFFICES ASSUME NEW u \in Threads, NEW i \in 1..Len(ix.threads[u]), ix.threads[u][i].consumed
               PROVE  ix.threads[u][i].of \in ans
    BY DEF Consumes
  <2>1. CASE u = t
    <3>1. i \in 1..Len(new) /\ new[i].consumed
      BY <2>1 DEF new
    <3>2. PICK j \in 1..Len(longer) : new[i] = longer[j]
      BY <1>23a, <3>1
    <3>3. CASE j = Len(entries) + 1
      <4>1. new[i] = entry
        BY <1>8, <3>2, <3>3
      <4> QED
        BY <1>7, <3>1, <4>1
    <3>4. CASE j \in 1..Len(entries)
      <4>1. new[i] = entries[j]
        BY <1>8, <3>2, <3>4
      <4>2. new[i].of \in ans
        BY <1>14, <3>1, <3>4, <4>1
      <4> QED
        BY <2>1, <4>2 DEF new
    <3> QED
      BY <1>9, <3>2, <3>3, <3>4
  <2>2. CASE u # t
    <3> DEFINE x == ix.threads[u]
               y == ix0.threads[u]
    <3>1. Thinned(x, y) /\ y \in Seq(CallEntry) /\ Len(x) \in Nat /\ i \in 1..Len(x) /\ x[i].consumed
      BY <1>2, <2>2, IndexIs
    <3>2. \A j \in 1..Len(y) : y[j].consumed => y[j].of \in ans
      BY DEF Consumes
    <3> HIDE DEF x, y
    <3>3. PICK j \in 1..Len(y) : x[i] = y[j]
      BY <3>1, ThinnedIs
    <3>4. x[i].of \in ans
      BY <3>1, <3>2, <3>3
    <3> QED
      BY <3>4 DEF x
  <2> QED
    BY <2>1, <2>2
<1>25. ASSUME ~rew, Clean(p, drop2) PROVE rcd.occurrence = Rank(p)
  BY <1>4, <1>20, <1>25
<1>26. rcd.occurrence \in Nat
  BY <1>4, <1>5
<1> QED
  BY <1>2, <1>23, <1>24, <1>25, <1>26 DEF Ranked

Only(p) == \A r \in Resps : SameId(r, p) => r = p

\* After looking up the output of p: of the thread's entries at most the one
\* that matched has changed.
LookedUp(l, entries, t, c) ==
    /\ Len(l.index.threads[t]) = Len(entries)
    /\ \A i \in 1..Len(entries) : l.index.threads[t][i].of = entries[i].of
    /\ l.match = "exact" => \E i \in 1..Len(entries) : OpenPlaces(entries, c) = {i} /\ l.ref = entries[i]
    /\ l.match # "exact" => Cardinality(OpenPlaces(entries, c)) # 1

LEMMA LookupKeeps ==
    ASSUME NEW ix, IndexOK(ix), NEW t \in Threads, NEW c, NEW ans, Consumes(ix, ans),
           NEW l, l = Lookup(ix, t, c)
    PROVE  /\ FewerIn(l.index, ix) /\ Consumes(l.index, ans \cup {l.ref.of})
           /\ \E entries \in Seq(CallEntry) :
                 Thinned(entries, ix.threads[t]) /\ LookedUp(l, entries, t, c)
<1> DEFINE old == ix.threads[t]
           new == l.index.threads[t]
<1>0. PICK entries \in Seq(CallEntry) : Thinned(entries, ix.threads[t]) /\ LooksUp(l, entries, t, c)
  BY LookupIs
<1>1. /\ Thinned(entries, old)
      /\ \/ /\ l.match # "exact" /\ new = entries
            /\ Cardinality(OpenPlaces(entries, c)) # 1
         \/ /\ l.match = "exact"
            /\ \E i \in 1..Len(entries) :
                  /\ OpenPlaces(entries, c) = {i} /\ l.ref = entries[i]
                  /\ new = [entries EXCEPT ![i].consumed = TRUE]
  BY <1>0 DEF LooksUp
<1>2. \A u \in Threads \ {t} : l.index.threads[u] = ix.threads[u]
  BY LookupIs
<1>3. old \in Seq(CallEntry) /\ Len(entries) \in Nat
  BY IndexIs
<1>4. \A j \in 1..Len(old) : old[j].consumed => old[j].of \in ans
  BY DEF Consumes
<1> HIDE DEF old, new
<1>5. \A i \in 1..Len(entries) : entries[i].consumed => entries[i].of \in ans
  <2>1. \A i \in 1..Len(entries) : \E j \in 1..Len(old) : entries[i] = old[j]
    BY <1>1, <1>3, ThinnedIs
  <2> QED
    BY <1>4, <2>1
<1>6. /\ Len(new) = Len(entries) /\ \A i \in 1..Len(entries) : Core(new[i]) = Core(entries[i])
      /\ \A i \in 1..Len(entries) : new[i].consumed => new[i].of \in ans \cup {l.ref.of}
      /\ l.match = "exact" => \E i \in 1..Len(entries) : OpenPlaces(entries, c) = {i} /\ l.ref = entries[i]
      /\ l.match # "exact" => Cardinality(OpenPlaces(entries, c)) # 1
  <2>1. CASE l.match # "exact"
    BY <1>1, <1>5, <2>1
  <2>2. CASE l.match = "exact"
    <3>1. PICK i \in 1..Len(entries) :
             /\ OpenPlaces(entries, c) = {i} /\ l.ref = entries[i]
             /\ new = [entries EXCEPT ![i].consumed = TRUE]
      BY <1>1, <2>2
    <3>2. /\ Len(new) = Len(entries)
          /\ \A j \in 1..Len(entries) : j # i => new[j] = entries[j]
          /\ Core(new[i]) = Core(entries[i])
      BY <3>1, Consumed
    <3>3. new[i].of = l.ref.of
      BY <3>1, <3>2 DEF Core
    <3>4. \A j \in 1..Len(entries) : Core(new[j]) = Core(entries[j])
      BY <3>2
    <3>5. \A j \in 1..Len(entries) : new[j].consumed => new[j].of \in ans \cup {l.ref.of}
      BY <1>5, <3>2, <3>3
    <3> QED
      BY <2>2, <3>1, <3>2, <3>4, <3>5
  <2> QED
    BY <2>1, <2>2
<1>7. Fewer(new, entries)
  <2> DEFINE f == [i \in 1..Len(new) |-> i]
  <2>1. f \in [1..Len(new) -> 1..Len(entries)] /\ \A i \in 1..Len(new) : f[i] = i
    BY <1>6
  <2> HIDE DEF f
  <2> QED
    BY <1>6, <2>1 DEF Fewer
<1>8. Fewer(new, old)
  BY <1>1, <1>7, ThinnedFewer, FewerTwice
<1>9. FewerIn(l.index, ix)
  <2> SUFFICES ASSUME NEW u \in Threads PROVE Fewer(l.index.threads[u], ix.threads[u])
    BY DEF FewerIn
  <2>1. CASE u = t
    BY <1>8, <2>1 DEF new, old
  <2>2. CASE u # t
    <3>1. l.index.threads[u] = ix.threads[u] /\ Len(ix.threads[u]) \in Nat
      BY <1>2, <2>2, IndexIs
    <3> QED
      BY <3>1, FewerSelf
  <2> QED
    BY <2>1, <2>2
<1>10. Consumes(l.index, ans \cup {l.ref.of})
  <2> SUFFICES ASSUME NEW u \in Threads, NEW i \in 1..Len(l.index.threads[u]),
                      l.index.threads[u][i].consumed
               PROVE  l.index.threads[u][i].of \in ans \cup {l.ref.of}
    BY DEF Consumes
  <2>1. CASE u = t
    <3>1. i \in 1..Len(new) /\ new[i].consumed
      BY <2>1 DEF new
    <3>2. new[i].of \in ans \cup {l.ref.of}
      BY <1>6, <3>1
    <3> QED
      BY <2>1, <3>2 DEF new
  <2>2. CASE u # t
    BY <1>2, <2>2 DEF Consumes
  <2> QED
    BY <2>1, <2>2
<1>11. \A i \in 1..Len(entries) : new[i].of = entries[i].of
  <2> SUFFICES ASSUME NEW i \in 1..Len(entries) PROVE new[i].of = entries[i].of
    OBVIOUS
  <2>1. Core(new[i]) = Core(entries[i])
    BY <1>6
  <2> QED
    BY <2>1 DEF Core
<1>12. LookedUp(l, entries, t, c)
  BY <1>6, <1>11 DEF LookedUp, new
<1> QED
  BY <1>0, <1>9, <1>10, <1>12

\* And nobody captured an output of p before: attributed to another, or to
\* none although p alone has its id, p is not in the index.
LEMMA LookupFinds ==
    ASSUME NEW ix, IndexOK(ix), NEW t \in Threads, NEW c, NEW ans, Consumes(ix, ans),
           NEW n \in Nat, NEW drop, NEW rew \in BOOLEAN, Told(ix, n, drop, rew),
           NEW l, l = Lookup(ix, t, c),
           NEW p, thread[p] = t, called[p] = c, p \notin ans, p \in Indexed(l.index)
    PROVE  /\ l.match = "exact" => l.ref.origin \in {0, p}
           /\ ~rew /\ Only(p) => l.match = "exact"
<1> DEFINE old == ix.threads[t]
           new == l.index.threads[t]
<1>0. PICK entries \in Seq(CallEntry) : Thinned(entries, ix.threads[t]) /\ LookedUp(l, entries, t, c)
  BY LookupKeeps
<1>1. /\ Thinned(entries, old) /\ Len(new) = Len(entries)
      /\ \A i \in 1..Len(entries) : new[i].of = entries[i].of
      /\ l.match = "exact" => \E i \in 1..Len(entries) : OpenPlaces(entries, c) = {i} /\ l.ref = entries[i]
      /\ l.match # "exact" => Cardinality(OpenPlaces(entries, c)) # 1
  BY <1>0 DEF LookedUp
<1>2. IndexOK(l.index) /\ FewerIn(l.index, ix)
  BY LookupIs, LookupKeeps
<1>3. Told(l.index, n, drop, rew)
  <2>1. n <= n /\ drop \subseteq drop
    OBVIOUS
  <2> QED
    BY <1>2, <2>1, ToldStays
<1>4. \E i \in 1..Len(new) : new[i].of = p
  <2>1. PICK u \in Threads : \E i \in 1..Len(l.index.threads[u]) : l.index.threads[u][i].of = p
    BY <1>2, IndexedIs
  <2>2. u = t
    BY <1>3, <2>1 DEF Told, TellsOf
  <2> QED
    BY <2>1, <2>2
<1>5. old \in Seq(CallEntry) /\ Len(entries) \in Nat /\ DOMAIN entries = 1..Len(entries)
  BY IndexIs
<1>6. TellsOf(old, t) /\ (~rew => OfsApart(old))
  BY DEF Told
<1>7. \A j \in 1..Len(old) : old[j].consumed => old[j].of \in ans
  BY DEF Consumes
<1> HIDE DEF old, new
<1>8. TellsOf(entries, t) /\ (~rew => OfsApart(entries))
  BY <1>1, <1>6, ThinnedFewer, ListStays
<1>9. \A i \in 1..Len(entries) : entries[i].consumed => entries[i].of \in ans
  <2>1. \A i \in 1..Len(entries) : \E j \in 1..Len(old) : entries[i] = old[j]
    BY <1>1, <1>5, ThinnedIs
  <2> QED
    BY <1>7, <2>1
<1>10. PICK j \in 1..Len(entries) : entries[j].of = p
  BY <1>1, <1>4
<1>11. entries[j].id = c /\ entries[j].origin \in {0, p} /\ ~entries[j].consumed
  BY <1>8, <1>9, <1>10 DEF TellsOf
<1>12. j \in OpenPlaces(entries, c)
  BY <1>5, <1>11 DEF OpenPlaces
<1>13. ASSUME l.match = "exact" PROVE l.ref.origin \in {0, p}
  <2>1. PICK i \in 1..Len(entries) : OpenPlaces(entries, c) = {i} /\ l.ref = entries[i]
    BY <1>1, <1>13
  <2>2. i = j
    BY <1>12, <2>1
  <2> QED
    BY <1>11, <2>1, <2>2
<1>14. ASSUME ~rew, Only(p) PROVE l.match = "exact"
  <2>1. ASSUME NEW k \in OpenPlaces(entries, c) PROVE k = j
    <3>1. k \in 1..Len(entries) /\ entries[k].id = c
      BY <1>5 DEF OpenPlaces
    <3>2. thread[entries[k].of] = t /\ called[entries[k].of] = c
      BY <1>8, <3>1 DEF TellsOf
    <3>3. entries[k] \in CallEntry
      BY <3>1
    <3>4. entries[k].of \in Resps
      BY <3>3 DEF CallEntry
    <3>5. entries[k].of = p
      BY <1>14, <3>2, <3>4 DEF Only, SameId
    <3> QED
      BY <1>8, <1>10, <1>14, <3>1, <3>5 DEF OfsApart
  <2>2. OpenPlaces(entries, c) = {j}
    BY <1>12, <2>1
  <2>3. Cardinality({j}) = 1
    BY FS_Singleton
  <2> QED
    BY <1>1, <2>2, <2>3
<1> QED
  BY <1>13, <1>14

-----------------------------------------------------------------------------
(* Capturing the items of a response.create.                               *)

KeySet ==
    (({0} \cup Threads) \X Kinds \X (CallIds \cup Texts \cup {None}))
    \cup (Threads \X {"call"} \X CallIds \X Resps \X BOOLEAN)
EntrySet ==
    [key : KeySet, of : 0..MaxResps, origin : 0..MaxResps, occurrence : Nat,
     match : {None, "none", "ambiguous", "exact"}, first : BOOLEAN]
Item == [kind : Kinds, of : 0..MaxResps, text : CallIds \cup Texts \cup {None}]

\* An output is that of an invocation of the thread, of the first n records.
Brings(x, t, n) ==
    x.kind = "output" => x.of \in Resps /\ thread[x.of] = t /\ called[x.of] = x.text /\ Read(x.of, n)

\* An entry captured from the input: one that was attributed to another
\* invocation than its own, or to none although its own is alone, is of one the
\* index has no more.
FromInput(e, ix, n, rew) ==
    /\ e.key[2] # "call"
    /\ e.match # None => e.of \in Resps /\ Read(e.of, n)
    /\ e.match # None /\ e.first /\ e.of \in Indexed(ix) =>
          /\ e.match = "exact" => e.origin \in {0, e.of}
          /\ ~rew /\ Only(e.of) => e.match = "exact"

Folding(s) ==
    s \in [seen : {s.seen}, recent : {s.recent}, content : {s.content}, index : {s.index},
           answered : {s.answered}]

\* What capturing some items makes of s0.
Captures(s, s0, n, rew) ==
    /\ Folding(s)
    /\ s.recent \in Seq(KeySet) /\ Apart(s.recent) /\ Fits(s.seen, s.recent)
    /\ s.content \in Seq(EntrySet) /\ Range(s0.content) \subseteq Range(s.content)
    /\ Range(s.seen) \subseteq Range(s0.seen) \cup Keys(Range(s.content))
    /\ \A k \in Range(s.seen) : k[2] = "call" => k \in Range(s0.seen)
    /\ IndexOK(s.index) /\ FewerIn(s.index, s0.index)
    /\ Consumes(s.index, s.answered) /\ s0.answered \subseteq s.answered
    /\ \A e \in Range(s.content) \ Range(s0.content) : FromInput(e, s.index, n, rew)

LEMMA RangeAppend ==
    ASSUME NEW S, NEW s \in Seq(S), NEW e \in S
    PROVE  Append(s, e) \in Seq(S) /\ Range(Append(s, e)) = Range(s) \cup {e}
<1>1. Append(s, e) \in Seq(S) /\ Len(s) \in Nat /\ Len(Append(s, e)) = Len(s) + 1
  OBVIOUS
<1>2. DOMAIN Append(s, e) = 1..Len(s) + 1 /\ DOMAIN s = 1..Len(s)
  BY <1>1
<1>3. /\ \A i \in 1..Len(s) : Append(s, e)[i] = s[i] /\ i \in 1..Len(s) + 1
      /\ Append(s, e)[Len(s) + 1] = e /\ Len(s) + 1 \in 1..Len(s) + 1
      /\ \A i \in 1..Len(s) + 1 : i \in 1..Len(s) \/ i = Len(s) + 1
  BY <1>1
<1> DEFINE m == Append(s, e)
<1> HIDE DEF m
<1>4. \A x : x \in Range(m) <=> x \in Range(s) \cup {e}
  BY <1>2, <1>3 DEF Range, m
<1> QED
  BY <1>1, <1>4 DEF m

LEMMA KeyIs ==
    ASSUME NEW t \in Threads, NEW item \in Item
    PROVE  Key(t, item) \in KeySet /\ Key(t, item)[2] # "call"
<1>1. item.kind \in Kinds /\ item.text \in CallIds \cup Texts \cup {None}
  BY DEF Item
<1>2. Key(t, item)[2] \in Kinds
  BY <1>1 DEF Key, Kinds
<1> QED
  BY <1>1, <1>2 DEF Key, KeySet, Kinds

LEMMA FromInputStays ==
    ASSUME NEW e, NEW ix, NEW ix2, Indexed(ix2) \subseteq Indexed(ix), NEW n, NEW rew,
           FromInput(e, ix, n, rew)
    PROVE  FromInput(e, ix2, n, rew)
BY DEF FromInput

WithKeys(s, x, y)      == [s EXCEPT !.seen = x, !.recent = y]
WithContent(s, x)      == [s EXCEPT !.content = x]
WithAnswer(s, x, y, z) == [s EXCEPT !.content = x, !.index = y, !.answered = z]

LEMMA FoldingTouched ==
    ASSUME NEW s, Folding(s), NEW x, NEW y, NEW m, m = WithKeys(s, x, y)
    PROVE  /\ Folding(m) /\ m.seen = x /\ m.recent = y /\ m.content = s.content
           /\ m.index = s.index /\ m.answered = s.answered
<1>1. s \in [seen : {s.seen}, recent : {s.recent}, content : {s.content}, index : {s.index},
             answered : {s.answered}]
  BY DEF Folding
<1>2. m \in [seen : {x}, recent : {y}, content : {s.content}, index : {s.index}, answered : {s.answered}]
  BY <1>1 DEF WithKeys
<1> QED
  BY <1>2 DEF Folding

LEMMA FoldingGrown ==
    ASSUME NEW s, Folding(s), NEW x, NEW m, m = WithContent(s, x)
    PROVE  /\ Folding(m) /\ m.seen = s.seen /\ m.recent = s.recent /\ m.content = x
           /\ m.index = s.index /\ m.answered = s.answered
<1>1. s \in [seen : {s.seen}, recent : {s.recent}, content : {s.content}, index : {s.index},
             answered : {s.answered}]
  BY DEF Folding
<1>2. m \in [seen : {s.seen}, recent : {s.recent}, content : {x}, index : {s.index}, answered : {s.answered}]
  BY <1>1 DEF WithContent
<1> QED
  BY <1>2 DEF Folding

LEMMA FoldingAnswered ==
    ASSUME NEW s, Folding(s), NEW x, NEW y, NEW z, NEW m, m = WithAnswer(s, x, y, z)
    PROVE  /\ Folding(m) /\ m.seen = s.seen /\ m.recent = s.recent /\ m.content = x
           /\ m.index = y /\ m.answered = z
<1>1. s \in [seen : {s.seen}, recent : {s.recent}, content : {s.content}, index : {s.index},
             answered : {s.answered}]
  BY DEF Folding
<1>2. m \in [seen : {s.seen}, recent : {s.recent}, content : {x}, index : {y}, answered : {z}]
  BY <1>1 DEF WithAnswer
<1> QED
  BY <1>2 DEF Folding

LEMMA ItemCaptured ==
    ASSUME NEW s0, NEW s, NEW n \in Nat, NEW drop, NEW rew \in BOOLEAN,
           IndexOK(s0.index), Told(s0.index, n, drop, rew), Captures(s, s0, n, rew),
           NEW t \in Threads, NEW at \in 0..Len(log), NEW item \in Item, Brings(item, t, n)
    PROVE  Captures(CaptureItem(s, t, at, item), s0, n, rew)
<1> DEFINE k == Key(t, item)
           a == Advance(s.index, at)
           l == Lookup(a, t, item.text)
           first == item.of \notin s.answered
           ans == s.answered \cup {item.of, l.ref.of}
           plain == Entry(k, item.of)
           answer == Answer(k, item.of, l, first)
           r == CaptureItem(s, t, at, item)
           seen2 == AddSeen(s.seen, k)
           recent2 == Touch(s.recent, k)
<1>1. k \in KeySet /\ k[2] # "call"
  BY KeyIs
<1>2. /\ recent2 \in Seq(KeySet) /\ Apart(recent2) /\ Fits(seen2, recent2)
      /\ Range(seen2) \subseteq Range(s.seen) \cup {k}
      /\ Contains(s.seen, k) <=> k \in Range(s.seen)
  <2>1. s.recent \in Seq(KeySet) /\ Apart(s.recent) /\ Fits(s.seen, s.recent)
    BY DEF Captures
  <2> HIDE DEF k
  <2> QED
    BY <1>1, <2>1, AddSeenIs
<1>3. IndexOK(a) /\ a.threads = s.index.threads
  BY AdvanceIs DEF Captures
<1>4. Indexed(a) = Indexed(s.index) /\ FewerIn(a, s0.index) /\ Consumes(a, s.answered)
  BY <1>3 DEF Indexed, FewerIn, Consumes, Captures
<1>5. Told(a, n, drop, rew)
  <2>1. n <= n /\ drop \subseteq drop
    OBVIOUS
  <2> HIDE DEF a
  <2> QED
    BY <1>4, <2>1, ToldStays
<1>6. /\ r.seen = seen2 /\ r.recent = recent2 /\ Folding(r)
      /\ Contains(s.seen, k) => r.content = s.content /\ r.index = s.index /\ r.answered = s.answered
      /\ ~Contains(s.seen, k) /\ item.kind # "output" =>
            r.content = Append(s.content, plain) /\ r.index = s.index /\ r.answered = s.answered
      /\ ~Contains(s.seen, k) /\ item.kind = "output" =>
            r.content = Append(s.content, answer) /\ r.index = l.index /\ r.answered = ans
  <2> DEFINE s1 == WithKeys(s, seen2, recent2)
             c2 == Append(s1.content, plain)
             c3 == Append(s1.content, answer)
             a3 == s1.answered \cup {item.of, l.ref.of}
             s2 == WithContent(s1, c2)
             s3 == WithAnswer(s1, c3, l.index, a3)
  <2>1. Folding(s)
    BY DEF Captures
  <2>2. r = IF Contains(s.seen, k) THEN s1 ELSE IF item.kind # "output" THEN s2 ELSE s3
    BY DEF CaptureItem, WithKeys, WithContent, WithAnswer
  <2> HIDE DEF k, l, answer, plain, r, first, seen2, recent2
  <2>3. /\ Folding(s1) /\ s1.seen = seen2 /\ s1.recent = recent2 /\ s1.content = s.content
        /\ s1.index = s.index /\ s1.answered = s.answered
    BY <2>1, FoldingTouched
  <2> HIDE DEF s1, c2, c3, a3
  <2>4. /\ Folding(s2) /\ s2.seen = s1.seen /\ s2.recent = s1.recent /\ s2.content = c2
        /\ s2.index = s1.index /\ s2.answered = s1.answered
    BY <2>3, FoldingGrown
  <2>5. /\ Folding(s3) /\ s3.seen = s1.seen /\ s3.recent = s1.recent
        /\ s3.content = c3 /\ s3.index = l.index /\ s3.answered = a3
    BY <2>3, FoldingAnswered
  <2> HIDE DEF s2, s3
  <2> QED
    BY <2>2, <2>3, <2>4, <2>5 DEF c2, c3, a3
<1>7. item.of \in 0..MaxResps
  BY DEF Item
<1>8. /\ s.content \in Seq(EntrySet) /\ Range(s0.content) \subseteq Range(s.content)
      /\ Range(s.seen) \subseteq Range(s0.seen) \cup Keys(Range(s.content))
      /\ \A j \in Range(s.seen) : j[2] = "call" => j \in Range(s0.seen)
      /\ IndexOK(s.index) /\ FewerIn(s.index, s0.index)
      /\ Consumes(s.index, s.answered) /\ s0.answered \subseteq s.answered
      /\ \A e \in Range(s.content) \ Range(s0.content) : FromInput(e, s.index, n, rew)
  BY DEF Captures
<1>9. \A j \in Range(seen2) : j[2] = "call" => j \in Range(s0.seen)
  <2> HIDE DEF k, seen2
  <2> QED
    BY <1>1, <1>2, <1>8
<1>10. ASSUME Contains(s.seen, k) PROVE Captures(r, s0, n, rew)
  <2>1. Range(seen2) \subseteq Range(s0.seen) \cup Keys(Range(s.content))
    <3> HIDE DEF k, seen2
    <3> QED
      BY <1>2, <1>8, <1>10
  <2> HIDE DEF k, l, seen2, recent2, r
  <2> QED
    BY <1>2, <1>6, <1>8, <1>9, <1>10, <2>1 DEF Captures
<1>11. ASSUME NEW e \in EntrySet, e.key = k, r.content = Append(s.content, e)
       PROVE  /\ r.content \in Seq(EntrySet) /\ Range(r.content) = Range(s.content) \cup {e}
              /\ Range(seen2) \subseteq Range(s0.seen) \cup Keys(Range(r.content))
  <2> HIDE DEF k, seen2, r
  <2>1. r.content \in Seq(EntrySet) /\ Range(r.content) = Range(s.content) \cup {e}
    BY <1>8, <1>11, RangeAppend
  <2>2. Keys(Range(r.content)) = Keys(Range(s.content)) \cup {k}
    BY <1>11, <2>1 DEF Keys
  <2> QED
    BY <1>2, <1>8, <2>1, <2>2
<1>12. ASSUME ~Contains(s.seen, k), item.kind # "output" PROVE Captures(r, s0, n, rew)
  <2>1. plain \in EntrySet /\ plain.key = k /\ FromInput(plain, s.index, n, rew)
    <3> HIDE DEF k
    <3> QED
      BY <1>1, <1>7, Bounds DEF Entry, EntrySet, FromInput
  <2> HIDE DEF k, l, seen2, recent2, r, plain
  <2>2. r.content = Append(s.content, plain) /\ r.index = s.index /\ r.answered = s.answered
    BY <1>6, <1>12
  <2>3. /\ r.content \in Seq(EntrySet) /\ Range(r.content) = Range(s.content) \cup {plain}
        /\ Range(seen2) \subseteq Range(s0.seen) \cup Keys(Range(r.content))
    BY <1>11, <2>1, <2>2
  <2>4. \A e \in Range(r.content) \ Range(s0.content) : FromInput(e, s.index, n, rew)
    BY <1>8, <2>1, <2>3
  <2> QED
    BY <1>2, <1>6, <1>8, <1>9, <2>2, <2>3, <2>4 DEF Captures
<1>13. ASSUME ~Contains(s.seen, k), item.kind = "output" PROVE Captures(r, s0, n, rew)
  <2> DEFINE p == item.of
  <2>1. p \in Resps /\ thread[p] = t /\ called[p] = item.text /\ Read(p, n)
    BY <1>13 DEF Brings
  <2>2. /\ IndexOK(l.index) /\ l.ref.of \in 0..MaxResps /\ l.ref.origin \in 0..MaxResps
        /\ l.ref.occurrence \in Nat /\ l.match \in {"none", "ambiguous", "exact"}
    <3> HIDE DEF a
    <3> QED
      BY <1>3, LookupIs
  <2>3. FewerIn(l.index, a) /\ Consumes(l.index, s.answered \cup {l.ref.of})
    <3> HIDE DEF a
    <3> QED
      BY <1>3, <1>4, LookupKeeps
  <2>4. first /\ p \in Indexed(l.index) =>
           /\ l.match = "exact" => l.ref.origin \in {0, p}
           /\ ~rew /\ Only(p) => l.match = "exact"
    <3>1. first <=> p \notin s.answered
      OBVIOUS
    <3> HIDE DEF a, p, first
    <3> QED
      BY <1>3, <1>4, <1>5, <2>1, <3>1, LookupFinds
  <2> HIDE DEF l
  <2>5. /\ answer \in EntrySet /\ answer.key = k /\ answer.of = p /\ answer.match = l.match
        /\ answer.first = first /\ answer.origin = l.ref.origin
    <3> HIDE DEF k
    <3> QED
      BY <1>1, <1>7, <2>2 DEF Answer, EntrySet
  <2> HIDE DEF k, seen2, recent2, r, answer, a, p
  <2>6. r.content = Append(s.content, answer) /\ r.index = l.index /\ r.answered = ans
    BY <1>6, <1>13
  <2>7. /\ r.content \in Seq(EntrySet) /\ Range(r.content) = Range(s.content) \cup {answer}
        /\ Range(seen2) \subseteq Range(s0.seen) \cup Keys(Range(r.content))
    BY <1>11, <2>5, <2>6
  <2>8. FromInput(answer, l.index, n, rew)
    BY <1>1, <2>1, <2>2, <2>4, <2>5 DEF FromInput
  <2>9. Indexed(l.index) \subseteq Indexed(s.index)
    BY <1>3, <1>4, <2>2, <2>3, FewerIndexed
  <2>10. \A e \in Range(r.content) \ Range(s0.content) : FromInput(e, l.index, n, rew)
    BY <1>8, <2>7, <2>8, <2>9, FromInputStays
  <2>11. FewerIn(l.index, s0.index)
    BY <1>4, <2>3, FewerInTwice
  <2>12. Consumes(l.index, ans) /\ s0.answered \subseteq ans
    BY <1>8, <2>3 DEF Consumes
  <2> QED
    BY <1>2, <1>6, <1>9, <1>8, <2>2, <2>6, <2>7, <2>10, <2>11, <2>12 DEF Captures
<1> HIDE DEF k, r
<1> QED
  BY <1>10, <1>12, <1>13 DEF r

CapturesUpTo(s0, t, at, items, f, m) ==
    /\ f = [n \in 0..m |-> f[n]]
    /\ \A n \in 0..m : f[n] = IF n = 0 THEN s0 ELSE CaptureItem(f[n - 1], t, at, items[n])

\* The recursion of CaptureInput has a solution.
LEMMA CapturesExist ==
    ASSUME NEW s0, NEW t, NEW at, NEW items, NEW N \in Nat
    PROVE  \E f : CapturesUpTo(s0, t, at, items, f, N)
<1> DEFINE T == {m \in Nat : \E f : CapturesUpTo(s0, t, at, items, f, m)}
<1>1. 0 \in T
  <2> DEFINE f == [n \in 0..0 |-> s0]
  <2>1. CapturesUpTo(s0, t, at, items, f, 0)
    BY DEF CapturesUpTo
  <2> HIDE DEF f
  <2> QED
    BY <2>1
<1>2. ASSUME NEW m \in Nat, m \in T PROVE m + 1 \in T
  <2>1. PICK f : CapturesUpTo(s0, t, at, items, f, m)
    BY <1>2
  <2> DEFINE g == [n \in 0..m + 1 |-> IF n # m + 1 THEN f[n] ELSE CaptureItem(f[m], t, at, items[m + 1])]
  <2>2. CapturesUpTo(s0, t, at, items, g, m + 1)
    <3>1. g = [n \in 0..m + 1 |-> g[n]]
      OBVIOUS
    <3>2. ASSUME NEW n \in 0..m + 1
          PROVE  g[n] = IF n = 0 THEN s0 ELSE CaptureItem(g[n - 1], t, at, items[n])
      <4>1. CASE n = m + 1
        <5>1. g[n] = CaptureItem(f[m], t, at, items[m + 1]) /\ g[m] = f[m] /\ n - 1 = m /\ n # 0
          BY <4>1
        <5> QED
          BY <4>1, <5>1
      <4>2. CASE n # m + 1
        <5>1. n \in 0..m /\ g[n] = f[n] /\ (n # 0 => g[n - 1] = f[n - 1])
          BY <4>2
        <5> QED
          BY <2>1, <5>1 DEF CapturesUpTo
      <4> QED
        BY <4>1, <4>2
    <3> HIDE DEF g
    <3> QED
      BY <3>1, <3>2 DEF CapturesUpTo
  <2> HIDE DEF g
  <2> QED
    BY <2>2
<1> HIDE DEF T
<1>3. \A n \in 0..N : n \in T
  BY <1>1, <1>2, UpTo
<1> QED
  BY <1>3 DEF T

LEMMA CaptureSteps ==
    ASSUME NEW s0, NEW t, NEW at, NEW items, Len(items) \in Nat
    PROVE  \E f : /\ CapturesUpTo(s0, t, at, items, f, Len(items))
                  /\ CaptureInput(s0, t, at, items) = f[Len(items)]
<1> DEFINE N == Len(items)
           captured == CHOOSE f : f = [n \in 0..N |->
                           IF n = 0 THEN s0 ELSE CaptureItem(f[n - 1], t, at, items[n])]
<1>1. CaptureInput(s0, t, at, items) = captured[N]
  BY DEF CaptureInput
<1>2. PICK f : CapturesUpTo(s0, t, at, items, f, N)
  BY CapturesExist
<1>3. f = [n \in 0..N |-> IF n = 0 THEN s0 ELSE CaptureItem(f[n - 1], t, at, items[n])]
  BY <1>2 DEF CapturesUpTo
<1>4. captured = [n \in 0..N |-> IF n = 0 THEN s0 ELSE CaptureItem(captured[n - 1], t, at, items[n])]
  BY <1>3, Zenon
<1>5. CapturesUpTo(s0, t, at, items, captured, N)
  <2> HIDE DEF captured
  <2> QED
    BY <1>4 DEF CapturesUpTo
<1> QED
  BY <1>1, <1>5

LEMMA InputCaptured ==
    ASSUME NEW s0, NEW n \in Nat, NEW drop, NEW rew \in BOOLEAN,
           IndexOK(s0.index), Told(s0.index, n, drop, rew), Captures(s0, s0, n, rew),
           NEW t \in Threads, NEW at \in 0..Len(log), NEW items \in Seq(Item),
           \A i \in 1..Len(items) : Brings(items[i], t, n)
    PROVE  Captures(CaptureInput(s0, t, at, items), s0, n, rew)
<1>1. Len(items) \in Nat /\ \A i \in 1..Len(items) : items[i] \in Item
  OBVIOUS
<1>2. PICK f : /\ CapturesUpTo(s0, t, at, items, f, Len(items))
               /\ CaptureInput(s0, t, at, items) = f[Len(items)]
  BY <1>1, CaptureSteps
<1>6. f[0] = s0 /\ \A k \in 1..Len(items) : f[k] = CaptureItem(f[k - 1], t, at, items[k])
  <2>1. \A k \in 0..Len(items) : f[k] = IF k = 0 THEN s0 ELSE CaptureItem(f[k - 1], t, at, items[k])
    BY <1>2 DEF CapturesUpTo
  <2>2. 0 \in 0..Len(items) /\ \A k \in 1..Len(items) : k \in 0..Len(items) /\ k # 0
    BY <1>1
  <2> QED
    BY <2>1, <2>2
<1> DEFINE T == {m \in Nat : m <= Len(items) => Captures(f[m], s0, n, rew)}
<1>3. 0 \in T
  BY <1>6
<1>4. ASSUME NEW m \in Nat, m \in T PROVE m + 1 \in T
  <2> SUFFICES ASSUME m + 1 <= Len(items) PROVE Captures(f[m + 1], s0, n, rew)
    OBVIOUS
  <2>1. PICK k \in 1..Len(items) : k = m + 1
    BY <1>1
  <2>2. m <= Len(items) /\ k - 1 = m
    BY <1>1, <2>1
  <2>3. Captures(f[m], s0, n, rew)
    BY <1>4, <2>2
  <2> HIDE DEF T
  <2>4. f[k] = CaptureItem(f[k - 1], t, at, items[k])
    BY <1>6
  <2>5. f[k] = CaptureItem(f[m], t, at, items[k])
    BY <2>2, <2>4
  <2>6. items[k] \in Item /\ Brings(items[k], t, n)
    BY <1>1
  <2>7. Captures(f[k], s0, n, rew)
    BY <2>3, <2>5, <2>6, ItemCaptured
  <2> QED
    BY <2>1, <2>7
<1> HIDE DEF T
<1>5. \A m \in 0..Len(items) : m \in T
  <2> DEFINE N == Len(items)
  <2>1. N \in Nat
    BY <1>1
  <2> HIDE DEF N
  <2>2. \A k \in 0..N : k # N /\ k \in T => k + 1 \in T
    BY <1>4, <2>1
  <2>3. \A m \in 0..N : m \in T
    BY <1>3, <2>1, <2>2, UpTo
  <2> QED
    BY <2>3 DEF N
<1>7. Len(items) \in T
  BY <1>1, <1>5
<1> QED
  BY <1>1, <1>2, <1>7 DEF T

-----------------------------------------------------------------------------
(* The archive, as it is written.                                          *)

\* A record is of a response of a thread, and of one that called if it says so;
\* only what was invoked before is answered.
ArchiveOK ==
    /\ LogOK
    /\ thread \in [Resps -> Threads \cup {0}] /\ called \in [Resps -> CallIds \cup {None}]
    /\ current \in [Threads -> Resps \cup {0}] /\ pending \subseteq Resps
    /\ history \in [Threads -> Seq(Item)] /\ sent \in [Resps -> Seq(Item)]
    /\ \A i \in 1..Len(log) :
          /\ thread[log[i].resp] \in Threads
          /\ log[i].what = "call" => called[log[i].resp] \in CallIds
    /\ \A t \in Threads : current[t] # 0 => thread[current[t]] = t
    /\ \A p \in pending : Read(p, Len(log))
    /\ \A t \in Threads : \A m \in 1..Len(history[t]) : Brings(history[t][m], t, Len(log))
    /\ \A i \in 1..Len(log) : log[i].what = "create" =>
          \A m \in 1..Len(sent[log[i].resp]) :
              Brings(sent[log[i].resp][m], thread[log[i].resp], i - 1)

LEMMA CalledIs ==
    ASSUME ArchiveOK, NEW p, Read(p, Len(log))
    PROVE  p \in Resps /\ thread[p] \in Threads /\ called[p] \in CallIds
BY LogIs DEF ArchiveOK, Read

\* A record more leaves the archive as it should be, if what it says holds and
\* nothing changes for the responses that were read of.
LEMMA ArchiveGrows ==
    ASSUME ArchiveOK, NEW what \in {"create", "call", "done"}, NEW r \in Resps, Log(what, r),
           thread' \in [Resps -> Threads \cup {0}], called' \in [Resps -> CallIds \cup {None}],
           current' \in [Threads -> Resps \cup {0}], pending' \subseteq Resps,
           history' \in [Threads -> Seq(Item)], sent' \in [Resps -> Seq(Item)],
           \A q \in Resps : thread[q] \in Threads => thread'[q] = thread[q] /\ sent'[q] = sent[q],
           \A q \in Resps : called[q] \in CallIds => called'[q] = called[q],
           thread'[r] \in Threads,
           what = "call" => called'[r] \in CallIds /\ called[r] = None,
           \A t \in Threads : current'[t] # 0 => thread'[current'[t]] = t,
           \A p \in pending' : p \in pending \/ (what = "call" /\ p = r),
           \A t \in Threads : \A m \in 1..Len(history'[t]) : Brings(history'[t][m], t, Len(log)),
           what = "create" => \A m \in 1..Len(sent'[r]) : Brings(sent'[r][m], thread'[r], Len(log))
    PROVE  ArchiveOK'
<1>1. /\ Len(log) \in Nat /\ \A i \in 1..Len(log) : log[i] \in Record0 /\ log[i].resp \in Resps
  BY LogIs DEF ArchiveOK
<1> DEFINE N == Len(log)
           rec == [what |-> what, resp |-> r]
<1>2. /\ log' \in Seq(Record0) /\ Len(log') = N + 1 /\ log'[N + 1] = rec
      /\ \A i \in 1..N : log'[i] = log[i]
  <2>1. log \in Seq(Record0) /\ rec \in Record0
    BY DEF ArchiveOK, LogOK, Record0
  <2>2. log' = Append(log, rec)
    BY DEF Log
  <2> HIDE DEF rec
  <2> QED
    BY <2>1, <2>2
<1>3. \A i \in 1..N + 1 : i \in 1..N \/ i = N + 1
  BY <1>1
<1>4. /\ rec.what = what /\ rec.resp = r
      /\ what = "call" => \A j \in 1..N : ~(log[j].what = "call" /\ log[j].resp = r)
  <2>1. what = "call" => ~Read(r, N)
    BY CalledIs, NoNoCall
  <2> QED
    BY <2>1 DEF Read
<1>5. LogOK'
  <2> SUFFICES ASSUME NEW i \in 1..N + 1, NEW j \in 1..N + 1, log'[i].what = "call",
                      log'[j].what = "call", log'[i].resp = log'[j].resp
               PROVE  i = j
    BY <1>2 DEF LogOK
  <2> HIDE DEF rec
  <2>1. CASE i \in 1..N /\ j \in 1..N
    BY <1>2, <2>1 DEF ArchiveOK, LogOK
  <2>2. CASE i = N + 1 /\ j \in 1..N
    BY <1>2, <1>4, <2>2
  <2>3. CASE j = N + 1 /\ i \in 1..N
    BY <1>2, <1>4, <2>3
  <2> QED
    BY <1>3, <2>1, <2>2, <2>3
<1>6. \A i \in 1..N : /\ log[i].resp \in Resps /\ thread[log[i].resp] \in Threads
                      /\ log[i].what = "call" => called[log[i].resp] \in CallIds
  BY <1>1 DEF ArchiveOK
<1>7. ASSUME NEW i \in 1..N + 1
      PROVE  thread'[log'[i].resp] \in Threads /\ (log'[i].what = "call" => called'[log'[i].resp] \in CallIds)
  <2>1. CASE i \in 1..N
    <3>1. /\ thread'[log[i].resp] = thread[log[i].resp]
          /\ log[i].what = "call" => called'[log[i].resp] = called[log[i].resp]
      BY <1>6, <2>1
    <3> QED
      BY <1>2, <1>6, <2>1, <3>1
  <2>2. CASE i = N + 1
    BY <1>2, <2>2
  <2> QED
    BY <1>3, <2>1, <2>2
<1>8. ASSUME NEW x, NEW n \in Nat, n <= N, NEW k \in Nat, n <= k, Read(x, n)
      PROVE  \E i \in 1..k : log'[i].what = "call" /\ log'[i].resp = x
  <2>1. PICK i \in 1..n : log[i].what = "call" /\ log[i].resp = x
    BY <1>8 DEF Read
  <2>2. i \in 1..k /\ i \in 1..N
    BY <1>1, <1>8, <2>1
  <2> QED
    BY <1>2, <2>1, <2>2
<1>9. ASSUME NEW x, NEW t, NEW n \in Nat, n <= N, Brings(x, t, n), x.kind = "output"
      PROVE  /\ x.of \in Resps /\ thread'[x.of] = t /\ called'[x.of] = x.text
             /\ \E i \in 1..n : log'[i].what = "call" /\ log'[i].resp = x.of
  <2> DEFINE p == x.of
  <2>1. p \in Resps /\ thread[p] = t /\ called[p] = x.text /\ Read(p, n)
    BY <1>9 DEF Brings
  <2>2. Read(p, N)
    BY <1>1, <1>9, <2>1 DEF Read
  <2> HIDE DEF p
  <2>3. thread[p] \in Threads /\ called[p] \in CallIds
    BY <2>2, CalledIs
  <2>4. thread'[p] = thread[p] /\ called'[p] = called[p]
    BY <2>1, <2>3
  <2>5. \E i \in 1..n : log'[i].what = "call" /\ log'[i].resp = p
    <3>1. n <= n
      OBVIOUS
    <3> QED
      BY <1>8, <1>9, <2>1, <3>1
  <2> QED
    BY <2>1, <2>4, <2>5 DEF p
<1>10. \A p \in pending' : Read(p, Len(log))'
  <2> SUFFICES ASSUME NEW p \in pending'
               PROVE  \E i \in 1..N + 1 : log'[i].what = "call" /\ log'[i].resp = p
    BY <1>2 DEF Read
  <2>1. CASE p \in pending
    <3>1. Read(p, N) /\ N + 1 \in Nat /\ N <= N + 1 /\ N <= N
      BY <1>1, <2>1 DEF ArchiveOK
    <3> HIDE DEF N
    <3> QED
      BY <1>1, <1>8, <3>1 DEF N
  <2>2. CASE what = "call" /\ p = r
    <3>1. N + 1 \in 1..N + 1
      BY <1>1
    <3> HIDE DEF rec
    <3> QED
      BY <1>2, <1>4, <2>2, <3>1
  <2> QED
    BY <2>1, <2>2
<1>11. ASSUME NEW t \in Threads, NEW m \in 1..Len(history'[t])
       PROVE  Brings(history[t][m], t, Len(log))'
  <2> DEFINE x == history'[t][m]
  <2>1. Brings(x, t, N)
    OBVIOUS
  <2>2. N \in Nat /\ N <= N /\ \A i \in 1..N : i \in 1..N + 1
    BY <1>1
  <2> HIDE DEF x, N
  <2>3. ASSUME x.kind = "output"
        PROVE  /\ x.of \in Resps /\ thread'[x.of] = t /\ called'[x.of] = x.text
               /\ \E i \in 1..N : log'[i].what = "call" /\ log'[i].resp = x.of
    BY <1>9, <2>1, <2>2, <2>3, Zenon
  <2>4. x.kind = "output" => \E i \in 1..N + 1 : log'[i].what = "call" /\ log'[i].resp = x.of
    BY <2>2, <2>3
  <2> QED
    BY <1>2, <2>3, <2>4 DEF Brings, Read, x
<1>12. ASSUME NEW i \in 1..N + 1, log'[i].what = "create", NEW m \in 1..Len(sent'[log'[i].resp])
       PROVE  Brings(sent[log[i].resp][m], thread[log[i].resp], i - 1)'
  <2> DEFINE q == log'[i].resp
             x == sent'[q][m]
             t == thread'[q]
             n == i - 1
  <2>1. n \in Nat /\ n <= N /\ n <= n
    BY <1>1
  <2>2. Brings(x, t, n)
    <3>1. CASE i \in 1..N
      <4>1. q = log[i].resp /\ log[i].what = "create"
        BY <1>2, <1>12, <3>1
      <4>2. thread'[q] = thread[q] /\ sent'[q] = sent[q]
        BY <1>6, <3>1, <4>1
      <4>3. \A k \in 1..Len(sent[q]) : Brings(sent[q][k], thread[q], i - 1)
        BY <3>1, <4>1 DEF ArchiveOK
      <4> HIDE DEF q
      <4>4. m \in 1..Len(sent[q])
        BY <4>2 DEF q
      <4> QED
        BY <4>2, <4>3, <4>4
    <3>2. CASE i = N + 1
      <4>1. q = r /\ what = "create" /\ n = N
        BY <1>1, <1>2, <1>12, <3>2
      <4> HIDE DEF n, N
      <4> QED
        BY <4>1 DEF N
    <3> QED
      BY <1>3, <3>1, <3>2
  <2> HIDE DEF q, x, t, n, N
  <2>3. ASSUME x.kind = "output"
        PROVE  /\ x.of \in Resps /\ thread'[x.of] = t /\ called'[x.of] = x.text
               /\ \E j \in 1..n : log'[j].what = "call" /\ log'[j].resp = x.of
    BY <1>9, <2>1, <2>2, <2>3, Zenon
  <2> QED
    BY <2>3 DEF Brings, Read, x, q, t, n
<1> HIDE DEF rec
<1>13. /\ \A i \in 1..Len(log') :
             thread'[log'[i].resp] \in Threads /\ (log'[i].what = "call" => called'[log'[i].resp] \in CallIds)
       /\ \A i \in 1..Len(log') : log'[i].what = "create" =>
             \A m \in 1..Len(sent'[log'[i].resp]) :
                Brings(sent[log[i].resp][m], thread[log[i].resp], i - 1)'
  BY <1>2, <1>7, <1>12
<1> QED
  BY <1>5, <1>10, <1>11, <1>13 DEF ArchiveOK

LEMMA OrderIs ==
    ASSUME NEW S, NEW T, S \subseteq T, IsFiniteSet(S)
    PROVE  /\ SetToSeq(S) \in Seq(T)
           /\ \A i \in 1..Len(SetToSeq(S)) : SetToSeq(S)[i] \in S
<1> DEFINE n == Cardinality(S)
           f == CHOOSE f \in [1..n -> S] : IsInjective(f)
<1>1. SetToSeq(S) = f
  BY DEF SetToSeq
<1>2. n \in Nat /\ ExistsBijection(1..n, S)
  BY FS_CardinalityType
<1> HIDE DEF n
<1>3. \E g \in [1..n -> S] : IsInjective(g)
  BY <1>2 DEF ExistsBijection, Bijection, Injection
<1>4. f \in [1..n -> S]
  BY <1>3, Zenon
<1> HIDE DEF f
<1>5. f \in Seq(T) /\ Len(f) = n /\ \A i \in 1..n : f[i] \in S
  BY <1>2, <1>4
<1> QED
  BY <1>1, <1>5

LEMMA CreateHolds ==
    ASSUME ArchiveOK, NEW t \in Threads, Create(t)
    PROVE  ArchiveOK'
<1>1. PICK r \in Resps, x \in Texts, A \in SUBSET {p \in pending : thread[p] = t} :
        /\ thread[r] = 0
        /\ LET news == SetToSeq({Output(p) : p \in A}) \o <<Said(r, x)>>
               base == IF history[t] = <<>> THEN <<Boilerplate>> ELSE history[t]
           IN  /\ history' = [history EXCEPT ![t] = base \o news]
               /\ sent' = [sent EXCEPT ![r] = base \o news]
        /\ thread' = [thread EXCEPT ![r] = t]
        /\ current' = [current EXCEPT ![t] = r]
        /\ pending' = pending \ A
        /\ Log("create", r)
        /\ called' = called
  BY DEF Create
<1>2. Len(log) \in Nat /\ 0 \notin Threads /\ 0 \notin Resps
  BY Bounds, LogIs DEF ArchiveOK, Resps
<1> DEFINE O == {Output(p) : p \in A}
           order == SetToSeq(O)
           said == <<Said(r, x)>>
           news == order \o said
           base == IF history[t] = <<>> THEN <<Boilerplate>> ELSE history[t]
           all == base \o news
<1>3. \A p \in A : /\ p \in Resps /\ thread[p] = t /\ Read(p, Len(log)) /\ called[p] \in CallIds
  BY CalledIs DEF ArchiveOK
<1>4. \A y \in O : y \in Item /\ Brings(y, t, Len(log))
  <2> SUFFICES ASSUME NEW p \in A PROVE Output(p) \in Item /\ Brings(Output(p), t, Len(log))
    OBVIOUS
  <2>1. p \in 0..MaxResps
    BY <1>3, Bounds DEF Resps
  <2> QED
    BY <1>3, <2>1 DEF Output, Item, Kinds, Brings
<1>5. IsFiniteSet(O)
  <2>1. IsFiniteSet(A)
    <3>1. A \subseteq Resps /\ IsFiniteSet(Resps)
      BY <1>3, Bounds, UpToHas DEF Resps
    <3> QED
      BY <3>1, FS_Subset
  <2> DEFINE f == [p \in A |-> Output(p)]
  <2>2. f \in Surjection(A, O)
    BY DEF Surjection
  <2> HIDE DEF f, O
  <2> QED
    BY <2>1, <2>2, FS_Surjection
<1>6. order \in Seq(Item) /\ \A i \in 1..Len(order) : order[i] \in O
  <2>1. O \subseteq Item
    BY <1>4
  <2> HIDE DEF O
  <2> QED
    BY <1>5, <2>1, OrderIs
<1>7. Said(r, x) \in Item /\ Brings(Said(r, x), t, Len(log)) /\ Boilerplate \in Item /\ Brings(Boilerplate, t, Len(log))
  BY Bounds DEF Said, Boilerplate, Item, Kinds, Brings, Resps
<1>8. said \in Seq(Item) /\ Len(said) = 1 /\ said[1] = Said(r, x)
  BY <1>7
<1>9. base \in Seq(Item) /\ \A i \in 1..Len(base) : Brings(base[i], t, Len(log))
  <2>1. CASE history[t] = <<>>
    <3> DEFINE one == <<Boilerplate>>
    <3>1. one \in Seq(Item) /\ Len(one) = 1 /\ one[1] = Boilerplate
      BY <1>7
    <3>2. base = one
      BY <2>1
    <3> HIDE DEF one, base
    <3>3. \A i \in 1..1 : i = 1
      OBVIOUS
    <3> QED
      BY <1>7, <3>1, <3>2, <3>3
  <2>2. CASE history[t] # <<>>
    BY <2>2 DEF ArchiveOK
  <2> QED
    BY <2>1, <2>2
<1> HIDE DEF order, said, base
<1>10. /\ news \in Seq(Item) /\ Len(news) = Len(order) + 1 /\ Len(order) \in Nat
       /\ \A i \in 1..Len(order) + 1 : news[i] = IF i <= Len(order) THEN order[i] ELSE said[i - Len(order)]
  <2>1. /\ news \in Seq(Item) /\ Len(news) = Len(order) + Len(said) /\ Len(order) \in Nat /\ Len(said) \in Nat
        /\ \A i \in 1..Len(order) + Len(said) : news[i] = IF i <= Len(order) THEN order[i] ELSE said[i - Len(order)]
    <3>1. order \in Seq(Item) /\ said \in Seq(Item)
      BY <1>6, <1>8
    <3> QED
      BY <3>1
  <2> HIDE DEF news
  <2> QED
    BY <1>8, <2>1
<1>11. \A i \in 1..Len(news) : Brings(news[i], t, Len(log))
  <2> SUFFICES ASSUME NEW i \in 1..Len(order) + 1 PROVE Brings(news[i], t, Len(log))
    BY <1>10
  <2>1. CASE i <= Len(order)
    <3>1. i \in 1..Len(order) /\ news[i] = order[i]
      BY <1>10, <2>1
    <3> HIDE DEF news, O
    <3> QED
      BY <1>4, <1>6, <3>1
  <2>2. CASE i = Len(order) + 1
    <3>1. news[i] = said[1]
      <4>1. ~(i <= Len(order)) /\ i - Len(order) = 1
        BY <1>10, <2>2
      <4> HIDE DEF news
      <4> QED
        BY <1>10, <4>1
    <3> HIDE DEF news
    <3> QED
      BY <1>7, <1>8, <3>1
  <2> QED
    BY <1>10, <2>1, <2>2
<1> HIDE DEF news
<1>12. /\ all \in Seq(Item) /\ Len(all) = Len(base) + Len(news) /\ Len(base) \in Nat /\ Len(news) \in Nat
       /\ \A i \in 1..Len(base) + Len(news) : all[i] = IF i <= Len(base) THEN base[i] ELSE news[i - Len(base)]
  BY <1>9, <1>10
<1> HIDE DEF all
<1>13. \A i \in 1..Len(all) : Brings(all[i], t, Len(log))
  <2> SUFFICES ASSUME NEW i \in 1..Len(base) + Len(news) PROVE Brings(all[i], t, Len(log))
    BY <1>12
  <2>1. CASE i <= Len(base)
    <3>1. i \in 1..Len(base) /\ all[i] = base[i]
      BY <1>12, <2>1
    <3> QED
      BY <1>9, <3>1
  <2>2. CASE ~(i <= Len(base))
    <3>1. PICK j \in 1..Len(news) : j = i - Len(base)
      BY <1>12, <2>2
    <3>2. all[i] = news[j]
      BY <1>12, <2>2, <3>1
    <3> QED
      BY <1>11, <3>2
  <2> QED
    BY <2>1, <2>2
<1>14. /\ history' = [history EXCEPT ![t] = all] /\ sent' = [sent EXCEPT ![r] = all]
  BY <1>1 DEF all, news, base, order, said, O
<1>15. /\ thread \in [Resps -> Threads \cup {0}] /\ called \in [Resps -> CallIds \cup {None}]
       /\ current \in [Threads -> Resps \cup {0}] /\ pending \subseteq Resps
       /\ history \in [Threads -> Seq(Item)] /\ sent \in [Resps -> Seq(Item)]
  BY DEF ArchiveOK
<1>16. /\ thread' \in [Resps -> Threads \cup {0}] /\ current' \in [Threads -> Resps \cup {0}]
       /\ history' \in [Threads -> Seq(Item)] /\ sent' \in [Resps -> Seq(Item)]
       /\ thread'[r] = t /\ sent'[r] = all /\ history'[t] = all
  <2>1. thread' \in [Resps -> Threads \cup {0}] /\ thread'[r] = t
    BY <1>1, <1>15
  <2>2. current' \in [Threads -> Resps \cup {0}]
    BY <1>1, <1>15
  <2>3. history' \in [Threads -> Seq(Item)] /\ history'[t] = all
    BY <1>12, <1>14, <1>15
  <2>4. sent' \in [Resps -> Seq(Item)] /\ sent'[r] = all
    BY <1>12, <1>14, <1>15
  <2> QED
    BY <2>1, <2>2, <2>3, <2>4
<1>17. \A q \in Resps : thread[q] \in Threads => thread'[q] = thread[q] /\ sent'[q] = sent[q]
  <2> SUFFICES ASSUME NEW q \in Resps, thread[q] \in Threads PROVE thread'[q] = thread[q] /\ sent'[q] = sent[q]
    OBVIOUS
  <2>1. q # r
    BY <1>1, <1>2
  <2> QED
    BY <1>1, <1>14, <1>15, <2>1
<1>18. \A u \in Threads : current'[u] # 0 => thread'[current'[u]] = u
  <2> SUFFICES ASSUME NEW u \in Threads, current'[u] # 0 PROVE thread'[current'[u]] = u
    OBVIOUS
  <2>1. CASE u = t
    BY <1>1, <1>15, <1>16, <2>1
  <2>2. CASE u # t
    <3>1. current'[u] = current[u] /\ current[u] \in Resps
      BY <1>1, <1>15, <2>2
    <3>2. thread[current[u]] = u
      BY <3>1 DEF ArchiveOK
    <3> QED
      BY <1>17, <3>1, <3>2
  <2> QED
    BY <2>1, <2>2
<1>19. \A u \in Threads : \A m \in 1..Len(history'[u]) : Brings(history'[u][m], u, Len(log))
  <2> SUFFICES ASSUME NEW u \in Threads, NEW m \in 1..Len(history'[u])
               PROVE  Brings(history'[u][m], u, Len(log))
    OBVIOUS
  <2>1. CASE u = t
    BY <1>13, <1>16, <2>1
  <2>2. CASE u # t
    <3>1. history'[u] = history[u]
      BY <1>14, <1>15, <2>2
    <3>2. \A k \in 1..Len(history[u]) : Brings(history[u][k], u, Len(log))
      BY DEF ArchiveOK
    <3> QED
      BY <3>1, <3>2
  <2> QED
    BY <2>1, <2>2
<1>20. \A m \in 1..Len(sent'[r]) : Brings(sent'[r][m], thread'[r], Len(log))
  BY <1>13, <1>16
<1>21. /\ Log("create", r) /\ called' \in [Resps -> CallIds \cup {None}] /\ pending' \subseteq Resps
       /\ \A q \in Resps : called[q] \in CallIds => called'[q] = called[q]
       /\ \A p \in pending' : p \in pending
       /\ thread'[r] \in Threads
  BY <1>1, <1>15, <1>16
<1> QED
  BY <1>16, <1>17, <1>18, <1>19, <1>20, <1>21, ArchiveGrows

LEMMA WriteHolds ==
    ASSUME ArchiveOK, NEW t \in Threads, Create(t) \/ Done(t) \/ \E c \in CallIds : Call(t, c)
    PROVE  ArchiveOK'
<1>1. /\ thread \in [Resps -> Threads \cup {0}] /\ called \in [Resps -> CallIds \cup {None}]
      /\ current \in [Threads -> Resps \cup {0}] /\ pending \subseteq Resps
      /\ history \in [Threads -> Seq(Item)] /\ sent \in [Resps -> Seq(Item)]
      /\ \A u \in Threads : current[u] # 0 => thread[current[u]] = u
      /\ \A u \in Threads : \A m \in 1..Len(history[u]) : Brings(history[u][m], u, Len(log))
  BY DEF ArchiveOK
<1>2. current[t] \in Resps \cup {0}
  BY <1>1
<1>3. CASE Create(t)
  BY <1>3, CreateHolds
<1>4. CASE Done(t)
  <2> DEFINE r == current[t]
             done == "done"
  <2>1. /\ r \in Resps /\ current' = [current EXCEPT ![t] = 0] /\ Log(done, r)
        /\ UNCHANGED <<history, sent, thread, called, pending>>
    BY <1>2, <1>4 DEF Done
  <2>2. thread[r] = t
    BY <1>1, <1>4 DEF Done
  <2>3. current' \in [Threads -> Resps \cup {0}]
    BY <1>1, <2>1
  <2>4. \A u \in Threads : current'[u] # 0 => thread'[current'[u]] = u
    BY <1>1, <2>1
  <2>5. done \in {"create", "call", "done"} /\ done # "call" /\ done # "create"
    OBVIOUS
  <2> HIDE DEF r, done
  <2> QED
    BY <1>1, <2>1, <2>2, <2>3, <2>4, <2>5, ArchiveGrows
<1>5. ASSUME NEW c \in CallIds, Call(t, c) PROVE ArchiveOK'
  <2> DEFINE r == current[t]
             call == "call"
  <2>1. /\ r \in Resps /\ called[r] = None /\ called' = [called EXCEPT ![r] = c]
        /\ pending' = pending \cup {r} /\ Log(call, r)
        /\ UNCHANGED <<history, sent, thread, current>>
    BY <1>2, <1>5 DEF Call
  <2>2. thread[r] = t
    BY <1>1, <1>5 DEF Call
  <2>3. called' \in [Resps -> CallIds \cup {None}] /\ called'[r] = c
    BY <1>1, <2>1
  <2>4. \A q \in Resps : called[q] \in CallIds => called'[q] = called[q]
    <3> SUFFICES ASSUME NEW q \in Resps, called[q] \in CallIds PROVE called'[q] = called[q]
      OBVIOUS
    <3>1. q # r
      BY <2>1, NoNoCall
    <3> QED
      BY <1>1, <2>1, <3>1
  <2>5. call \in {"create", "call", "done"} /\ call # "create" /\ call = "call"
    OBVIOUS
  <2> HIDE DEF r, call
  <2> QED
    BY <1>1, <2>1, <2>2, <2>3, <2>4, <2>5, ArchiveGrows
<1> QED
  BY <1>3, <1>4, <1>5

-----------------------------------------------------------------------------
(* The reader: the invariant.                                              *)

OpenSet == [there : BOOLEAN, named : BOOLEAN, last : 0..Len(log), content : Seq(EntrySet)]
TurnSet == [resp : Resps, content : Seq(EntrySet)]

Shape ==
    /\ pc \in {"written", "down", "poll", "emit", "flush"}
    /\ pos \in 0..Len(log) /\ acked \in 0..pos /\ disk.acked \in 0..Len(log) /\ again \in 0..Len(log)
    /\ open \in [Resps -> OpenSet] /\ batch \subseteq TurnSet /\ shipped \subseteq EntrySet
    /\ IndexOK(calls) /\ IndexOK(disk.calls) /\ Bounded(calls)
    /\ rewound \in BOOLEAN /\ mishaps \in 0..MaxMishaps

\* The set holds the keys that came by last, and what was captured under each
\* is somewhere, unless it was refused.
Swallows ==
    /\ recent \in Seq(KeySet) /\ Apart(recent) /\ Fits(seen, recent)
    /\ Range(seen) \subseteq Keys(Captured) \cup refused

Placed ==
    /\ pc = "poll" /\ acked = pos => batch = {}
    /\ pc = "flush" => acked = pos
    /\ pc \in {"down", "written"} => batch = {} /\ seen = <<>>

CallKeyOf(p, b) == <<thread[p], "call", called[p], p, b>>

CountsIn(E, drop) == \A e \in E : e.key[2] = "call" /\ Clean(e.of, drop) => e.occurrence = Rank(e.of)

\* Of what was read, an invocation is in the index or was dropped, here as in
\* the checkpoint; and so is one whose key is in the set.
Memory ==
    /\ Told(calls, pos, dropped, rewound) /\ Told(disk.calls, disk.acked, dropped, rewound)
    /\ Consumes(calls, answered) /\ Consumes(disk.calls, answered)
    /\ Holds(calls, pos, dropped) /\ Holds(disk.calls, disk.acked, dropped)
    /\ \A p \in Resps, b \in BOOLEAN : CallKeyOf(p, b) \in Range(seen) => p \in dropped \cup Indexed(calls)
    /\ ~rewound => CountsIn(Captured, dropped)

Blank ==
    /\ pos = 0 /\ acked = 0 /\ open = [r \in Resps |-> Closed] /\ batch = {} /\ again = 0
    /\ seen = <<>> /\ calls = NoCalls /\ disk = [acked |-> 0, calls |-> NoCalls]
    /\ recent = <<>> /\ shipped = {} /\ refused = {} /\ rewound = FALSE
    /\ answered = {} /\ dropped = {} /\ mishaps = 0

IInv == ArchiveOK /\ (pc = "written" => Blank) /\ Shape /\ Swallows /\ Placed /\ Memory

LEMMA NoCallsIs ==
    ASSUME Len(log) \in Nat
    PROVE  /\ IndexOK(NoCalls) /\ Bounded(NoCalls) /\ Indexed(NoCalls) = {}
           /\ \A n \in Nat : \A drop, rew : Told(NoCalls, n, drop, rew)
           /\ \A ans : Consumes(NoCalls, ans)
           /\ \A drop : Holds(NoCalls, 0, drop)
<1>1. \A t \in Threads : NoCalls.threads[t] = <<>>
  BY DEF NoCalls
<1>2. IndexOK(NoCalls)
  <2>1. 0 \in 0..Len(log) /\ 0 \in 0..Len(log) + SweepEvery
    BY Bounds
  <2>2. [t \in Threads |-> <<>>] \in [Threads -> Seq(CallEntry)]
    OBVIOUS
  <2> QED
    BY <2>1, <2>2 DEF NoCalls, IndexOK
<1>3. Resident(NoCalls) = {}
  BY <1>1 DEF Resident
<1>4. Bounded(NoCalls)
  BY <1>1, <1>3, Bounds, FS_EmptySet DEF Bounded
<1>5. \A p : p \notin Indexed(NoCalls)
  BY <1>1, <1>2, IndexedIs
<1>6. \A n \in Nat : \A drop, rew : Told(NoCalls, n, drop, rew)
  BY <1>1 DEF Told, TellsOf, CountsOf, OfsApart
<1>7. \A ans : Consumes(NoCalls, ans)
  BY <1>1 DEF Consumes
<1>8. \A drop : Holds(NoCalls, 0, drop)
  BY DEF Holds, Read
<1> QED
  BY <1>2, <1>4, <1>5, <1>6, <1>7, <1>8

LEMMA EmptySetIs ==
    /\ <<>> \in Seq(KeySet) /\ Apart(<<>>) /\ Fits(<<>>, <<>>) /\ Range(<<>>) = {}
<1>1. <<>> \in Seq(KeySet) /\ Apart(<<>>) /\ Range(<<>>) = {}
  BY DEF Apart, Range
<1>2. Len(<<>>) < SeenSize
  BY Bounds
<1>3. SubSeq(<<>>, 1, Len(<<>>)) = <<>>
  OBVIOUS
<1> QED
  BY <1>1, <1>2, <1>3 DEF Fits

LEMMA ClosedIs ==
    ASSUME Len(log) \in Nat
    PROVE  Closed \in OpenSet /\ Range(Closed.content) = {} /\ Closed.content = <<>>
BY DEF Closed, OpenSet, Range

LEMMA BlankHolds == ArchiveOK /\ pc = "written" /\ Blank => Shape /\ Swallows /\ Placed /\ Memory
<1> SUFFICES ASSUME ArchiveOK, pc = "written", Blank
             PROVE  Shape /\ Swallows /\ Placed /\ Memory
  OBVIOUS
<1>1. Len(log) \in Nat
  BY LogIs DEF ArchiveOK
<1>2. Captured = {}
  BY <1>1, ClosedIs DEF Blank, Captured, Entries
<1>3. Shape
  <2>1. open \in [Resps -> OpenSet]
    BY <1>1, ClosedIs DEF Blank
  <2>2. disk.acked = 0 /\ disk.calls = NoCalls
    BY DEF Blank
  <2>3. IndexOK(NoCalls) /\ Bounded(NoCalls)
    BY <1>1, NoCallsIs
  <2>4. /\ pos = 0 /\ acked = 0 /\ batch = {} /\ again = 0 /\ calls = NoCalls
        /\ shipped = {} /\ rewound = FALSE /\ mishaps = 0
    BY DEF Blank
  <2>5. 0 \in 0..Len(log) /\ 0 \in 0..0 /\ 0 \in 0..MaxMishaps
    BY <1>1, Bounds
  <2> QED
    BY <2>1, <2>2, <2>3, <2>4, <2>5 DEF Shape
<1>4. Swallows
  BY EmptySetIs DEF Blank, Swallows
<1>5. Placed
  BY DEF Blank, Placed
<1>6. Memory
  <2>1. disk.acked = 0 /\ disk.calls = NoCalls
    BY DEF Blank
  <2>2. 0 \in Nat
    OBVIOUS
  <2> QED
    BY <1>1, <1>2, <2>1, <2>2, NoCallsIs, EmptySetIs DEF Blank, Memory, CountsIn
<1> QED
  BY <1>3, <1>4, <1>5, <1>6

\* What the reader does not touch stays as it should be.
LEMMA ArchiveStays ==
    ASSUME ArchiveOK, UNCHANGED archiveVars
    PROVE  ArchiveOK'
<1>1. /\ log' = log /\ history' = history /\ sent' = sent /\ thread' = thread
      /\ current' = current /\ called' = called /\ pending' = pending
  BY DEF archiveVars
<1>2. LogOK'
  BY <1>1 DEF ArchiveOK, LogOK
<1>3. (\A t \in Threads : \A m \in 1..Len(history[t]) : Brings(history[t][m], t, Len(log)))'
  <2>1. \A t \in Threads : \A m \in 1..Len(history[t]) : Brings(history[t][m], t, Len(log))
    BY DEF ArchiveOK
  <2> QED
    BY <1>1, <2>1 DEF Brings, Read
<1>4. (\A i \in 1..Len(log) : log[i].what = "create" =>
          \A m \in 1..Len(sent[log[i].resp]) :
              Brings(sent[log[i].resp][m], thread[log[i].resp], i - 1))'
  <2>1. \A i \in 1..Len(log) : log[i].what = "create" =>
          \A m \in 1..Len(sent[log[i].resp]) :
              Brings(sent[log[i].resp][m], thread[log[i].resp], i - 1)
    BY DEF ArchiveOK
  <2> QED
    BY <1>1, <2>1 DEF Brings, Read
<1>5. (\A p \in pending : Read(p, Len(log)))'
  BY <1>1 DEF ArchiveOK, Read
<1> QED
  BY <1>1, <1>2, <1>3, <1>4, <1>5 DEF ArchiveOK

\* The invariant of the reader after a step, in terms of the archive before it.
ShapeThen ==
    /\ pc' \in {"down", "poll", "emit", "flush"}
    /\ pos' \in 0..Len(log) /\ acked' \in 0..pos' /\ disk'.acked \in 0..Len(log) /\ again' \in 0..Len(log)
    /\ open' \in [Resps -> OpenSet] /\ batch' \subseteq TurnSet /\ shipped' \subseteq EntrySet
    /\ IndexOK(calls') /\ IndexOK(disk'.calls) /\ Bounded(calls')
    /\ rewound' \in BOOLEAN /\ mishaps' \in 0..MaxMishaps
SwallowsThen ==
    /\ recent' \in Seq(KeySet) /\ Apart(recent') /\ Fits(seen', recent')
    /\ Range(seen') \subseteq Keys(Captured') \cup refused'
MemoryThen ==
    /\ Told(calls', pos', dropped', rewound') /\ Told(disk'.calls, disk'.acked, dropped', rewound')
    /\ Consumes(calls', answered') /\ Consumes(disk'.calls, answered')
    /\ Holds(calls', pos', dropped') /\ Holds(disk'.calls, disk'.acked, dropped')
    /\ \A p \in Resps, b \in BOOLEAN : CallKeyOf(p, b) \in Range(seen') => p \in dropped' \cup Indexed(calls')
    /\ ~rewound' => CountsIn(Captured', dropped')

LEMMA StepHolds ==
    ASSUME ArchiveOK, UNCHANGED archiveVars, ShapeThen, SwallowsThen, Placed', MemoryThen
    PROVE  IInv'
<1>1. log' = log /\ thread' = thread /\ called' = called
  BY DEF archiveVars
<1>2. ArchiveOK'
  BY ArchiveStays
<1>3. pc' # "written"
  BY DEF ShapeThen
<1>4. Shape'
  BY <1>1 DEF Shape, ShapeThen, OpenSet, TurnSet, EntrySet, KeySet, IndexOK, CallEntry, Bounded, Resident
<1>5. Swallows'
  BY DEF Swallows, SwallowsThen, KeySet, Apart, Fits
<1>6. \A p, q : SameId(p, q)' <=> SameId(p, q)
  BY <1>1 DEF SameId
<1>7. \A p, n : Read(p, n)' <=> Read(p, n)
  BY <1>1 DEF Read
<1>8. \A p : Rank(p)' = Rank(p)
  <2> SUFFICES ASSUME NEW p PROVE Rank(p)' = Rank(p)
    OBVIOUS
  <2>1. Earlier(p)' = Earlier(p)
    BY <1>1 DEF Earlier, SameId
  <2> QED
    BY <2>1 DEF Rank
<1>9. Told(calls, pos, dropped, rewound)'
  <2>1. Told(calls', pos', dropped', rewound')
    BY DEF MemoryThen
  <2> QED
    BY <1>1, <1>6, <1>7, <1>8, <2>1 DEF Told, TellsOf, CountsOf, OfsApart, Clean
<1>15. Told(disk.calls, disk.acked, dropped, rewound)'
  <2>1. Told(disk'.calls, disk'.acked, dropped', rewound')
    BY DEF MemoryThen
  <2> QED
    BY <1>1, <1>6, <1>7, <1>8, <2>1 DEF Told, TellsOf, CountsOf, OfsApart, Clean
<1>10. Holds(calls, pos, dropped)' /\ Holds(disk.calls, disk.acked, dropped)'
  BY <1>1, <1>7 DEF MemoryThen, Holds, Indexed
<1>11. (~rewound => CountsIn(Captured, dropped))'
  BY <1>6, <1>8 DEF MemoryThen, CountsIn, Clean
<1>12. Consumes(calls, answered)' /\ Consumes(disk.calls, answered)'
  BY DEF MemoryThen, Consumes
<1>13. (\A p \in Resps, b \in BOOLEAN : CallKeyOf(p, b) \in Range(seen) => p \in dropped \cup Indexed(calls))'
  BY <1>1 DEF MemoryThen, CallKeyOf, Indexed
<1>14. Memory'
  BY <1>9, <1>15, <1>10, <1>11, <1>12, <1>13 DEF Memory
<1> QED
  BY <1>2, <1>3, <1>4, <1>5, <1>14 DEF IInv

-----------------------------------------------------------------------------
(* What the steps of the reader have in common.                            *)

LEMMA InvIs ==
    ASSUME IInv
    PROVE  /\ ArchiveOK /\ Shape /\ Swallows /\ Placed /\ Memory
           /\ Len(log) \in Nat /\ pos \in Nat /\ acked \in Nat /\ disk.acked \in Nat
           /\ pos <= Len(log) /\ acked <= pos /\ rewound \in BOOLEAN
<1>1. ArchiveOK /\ Shape /\ Swallows /\ Placed /\ Memory
  BY DEF IInv
<1>2. Len(log) \in Nat
  BY <1>1, LogIs DEF ArchiveOK
<1> QED
  BY <1>1, <1>2 DEF Shape

LEMMA StaysTold ==
    ASSUME NEW ix, IndexOK(ix), NEW n \in Nat, NEW m \in Nat, n <= m, NEW drop, NEW drop2, drop \subseteq drop2,
           NEW ans, NEW ans2, ans \subseteq ans2, NEW rew \in BOOLEAN,
           Told(ix, n, drop, rew), Consumes(ix, ans), Holds(ix, n, drop)
    PROVE  Told(ix, m, drop2, rew) /\ Consumes(ix, ans2) /\ Holds(ix, n, drop2)
<1>1. FewerIn(ix, ix)
  BY FewerInSelf
<1>2. Told(ix, m, drop2, rew)
  BY <1>1, ToldStays
<1> QED
  BY <1>2 DEF Consumes, Holds

LEMMA LimitsKeep ==
    ASSUME NEW ix, IndexOK(ix), Len(log) \in Nat, NEW n \in Nat, NEW drop, NEW ans, NEW rew \in BOOLEAN,
           Told(ix, n, drop, rew), Consumes(ix, ans), Holds(ix, n, drop),
           NEW e, e = EnforceLimits(ix), NEW drop2, drop2 = drop \cup (Indexed(ix) \ Indexed(e))
    PROVE  /\ IndexOK(e) /\ Bounded(e)
           /\ Told(e, n, drop2, rew) /\ Consumes(e, ans) /\ Holds(e, n, drop2)
<1>1. IndexOK(e) /\ ThinnedIn(e, ix) /\ Bounded(e)
  BY LimitsHold
<1>2. FewerIn(e, ix)
  BY <1>1, ThinnedInFewer
<1>3. n <= n /\ drop \subseteq drop2 /\ ans \subseteq ans
  OBVIOUS
<1>4. Told(e, n, drop2, rew)
  BY <1>2, <1>3, ToldStays
<1>5. Consumes(e, ans)
  BY <1>1, <1>3, ConsumesStays
<1>6. Holds(e, n, drop2)
  BY DEF Holds
<1> QED
  BY <1>1, <1>4, <1>5, <1>6

LEMMA CountsFewer ==
    ASSUME NEW E, NEW E2, E2 \subseteq E, NEW drop, NEW drop2, drop \subseteq drop2, CountsIn(E, drop)
    PROVE  CountsIn(E2, drop2)
BY DEF CountsIn, Clean

LEMMA CapturedIs ==
    ASSUME NEW e
    PROVE  /\ e \in Captured <=> \/ e \in shipped \/ \E b \in batch : e \in Range(b.content)
                                 \/ \E r \in Resps : e \in Range(open[r].content)
           /\ e \in Captured' <=> \/ e \in shipped' \/ \E b \in batch' : e \in Range(b.content)
                                  \/ \E r \in Resps : e \in Range(open'[r].content)
BY DEF Captured, Entries

\* Nothing is read that is remembered, and nothing captured gets lost.
LEMMA QuietHolds ==
    ASSUME IInv, UNCHANGED <<archiveVars, calls, disk, dropped, answered, seen, recent, rewound, refused>>,
           pos' \in Nat, pos' = pos \/ (pos' = pos + 1 /\ log[pos + 1].what # "call"),
           Captured' = Captured
    PROVE  SwallowsThen /\ MemoryThen
<1>1. SwallowsThen
  BY DEF IInv, Swallows, SwallowsThen
<1>2. pos \in Nat /\ rewound \in BOOLEAN /\ disk.acked \in Nat /\ IndexOK(calls) /\ Memory
  BY InvIs DEF Shape
<1>3. pos <= pos' /\ \A p : Read(p, pos') => Read(p, pos)
  <2>1. CASE pos' = pos
    BY <1>2, <2>1
  <2>2. CASE pos' = pos + 1 /\ log[pos + 1].what # "call"
    BY <1>2, <2>2 DEF Read
  <2> QED
    BY <2>1, <2>2
<1>4. Told(calls, pos', dropped, rewound)
  <2>1. Told(calls, pos, dropped, rewound) /\ Consumes(calls, answered) /\ Holds(calls, pos, dropped)
    BY <1>2 DEF Memory
  <2>2. dropped \subseteq dropped /\ answered \subseteq answered
    OBVIOUS
  <2> QED
    BY <1>2, <1>3, <2>1, <2>2, StaysTold
<1>5. Holds(calls, pos', dropped)
  BY <1>2, <1>3 DEF Memory, Holds
<1>6. MemoryThen
  BY <1>2, <1>4, <1>5 DEF Memory, MemoryThen
<1> QED
  BY <1>1, <1>6

\* Responses that are given up leave what they captured in the batch.
LEMMA DrainedKeeps ==
    ASSUME IInv, batch = {}, NEW R, R \subseteq Resps, Drained(R), shipped' = shipped
    PROVE  /\ open' \in [Resps -> OpenSet] /\ batch' \subseteq TurnSet
           /\ Captured' = Captured
<1>1. Len(log) \in Nat /\ open \in [Resps -> OpenSet]
  BY InvIs DEF Shape
<1>2. Closed \in OpenSet /\ Range(Closed.content) = {}
  BY <1>1, ClosedIs
<1>3. /\ batch' = {[resp |-> r, content |-> open[r].content] : r \in R}
      /\ open' = [r \in Resps |-> IF r \in R THEN Closed ELSE open[r]]
  BY DEF Drained
<1>4. open' \in [Resps -> OpenSet]
  BY <1>1, <1>2, <1>3
<1>5. \A r \in Resps : open[r].content \in Seq(EntrySet)
  BY <1>1 DEF OpenSet
<1>6. batch' \subseteq TurnSet
  BY <1>3, <1>5 DEF TurnSet
<1>7. \A e : (\E b \in batch' : e \in Range(b.content)) <=> \E r \in R : e \in Range(open[r].content)
  <2> DEFINE turn(r) == [resp |-> r, content |-> open[r].content]
  <2>1. \A b : b \in batch' <=> \E r \in R : b = turn(r)
    BY <1>3
  <2>2. \A r \in R : turn(r).content = open[r].content
    OBVIOUS
  <2> HIDE DEF turn
  <2> QED
    BY <2>1, <2>2
<1>8. \A e : (\E r \in Resps : e \in Range(open'[r].content)) <=> \E r \in Resps \ R : e \in Range(open[r].content)
  BY <1>2, <1>3
<1>9. \A e : e \in Captured' <=> e \in Captured
  BY <1>7, <1>8, CapturedIs
<1> QED
  BY <1>4, <1>6, <1>9

-----------------------------------------------------------------------------
(* The watcher's steps.                                                    *)

LEMMA ChunkEndsHolds ==
    ASSUME IInv, ChunkEnds
    PROVE  IInv'
<1>1. /\ ArchiveOK /\ Shape /\ Placed /\ pos \in Nat /\ acked \in Nat /\ acked <= pos /\ Len(log) \in Nat
      /\ pc = "poll" /\ acked < pos
      /\ \/ batch = {} /\ acked' = pos /\ pc' = pc
         \/ pc' = "emit" /\ acked' = acked
      /\ UNCHANGED <<archiveVars, pos, open, batch, again, seen, calls, disk, recent, shipped,
                     refused, rewound, answered, dropped, mishaps>>
  BY InvIs DEF ChunkEnds
<1>2. Captured' = Captured
  BY <1>1 DEF Captured, Entries
<1>3. SwallowsThen /\ MemoryThen
  BY <1>1, <1>2, QuietHolds
<1>4. ShapeThen
  <2>1. acked' \in 0..pos'
    BY <1>1
  <2> QED
    BY <1>1, <2>1 DEF Shape, ShapeThen, Bounded, Resident
<1>5. Placed'
  BY <1>1 DEF Placed
<1> QED
  BY <1>1, <1>3, <1>4, <1>5, StepHolds

LEMMA EmitAcceptedHolds ==
    ASSUME IInv, EmitAccepted
    PROVE  IInv'
<1>1. /\ ArchiveOK /\ Shape /\ Placed /\ pos \in Nat /\ Len(log) \in Nat
      /\ acked' = pos /\ pc' = "poll" /\ batch' = {} /\ shipped' = shipped \cup Entries(batch)
      /\ UNCHANGED <<archiveVars, pos, open, again, seen, calls, disk, recent, refused, rewound,
                     answered, dropped, mishaps>>
  BY InvIs DEF EmitAccepted
<1>2. Captured' = Captured
  <2>1. Entries(batch') = {} /\ Entries(batch)' = Entries(batch')
    BY <1>1 DEF Entries
  <2> QED
    BY <1>1, <2>1 DEF Captured
<1>3. SwallowsThen /\ MemoryThen
  BY <1>1, <1>2, QuietHolds
<1>4. ShapeThen
  <2>1. acked' \in 0..pos'
    BY <1>1
  <2>2. shipped' \subseteq EntrySet
    <3>1. \A b \in batch : Range(b.content) \subseteq EntrySet
      BY <1>1 DEF Shape, TurnSet, Range
    <3> QED
      BY <1>1, <3>1 DEF Shape, Entries
  <2> QED
    BY <1>1, <2>1, <2>2 DEF Shape, ShapeThen, Bounded, Resident
<1>5. Placed'
  BY <1>1 DEF Placed
<1> QED
  BY <1>1, <1>3, <1>4, <1>5, StepHolds

\* What was refused counts as such; the reducer stays as it is.
LEMMA EmitRefusedHolds ==
    ASSUME IInv, EmitRefused
    PROVE  IInv'
<1>1. /\ ArchiveOK /\ Shape /\ Placed /\ Swallows /\ Memory /\ pos \in Nat /\ acked \in Nat /\ acked <= pos
      /\ pos <= Len(log) /\ Len(log) \in Nat /\ disk.acked \in Nat /\ rewound \in BOOLEAN
      /\ mishaps < MaxMishaps /\ mishaps' = mishaps + 1
      /\ pos' = acked /\ pc' = "poll" /\ batch' = {} /\ again' = LaterOf(again, pos)
      /\ refused' = refused \cup Keys(Entries(batch)) /\ rewound' = TRUE
      /\ UNCHANGED <<archiveVars, acked, open, seen, calls, disk, recent, shipped, answered, dropped>>
  BY InvIs DEF EmitRefused
<1>2. Captured \subseteq Captured' \cup Entries(batch)
  BY <1>1 DEF Captured
<1>3. SwallowsThen
  <2>1. Keys(Captured) \subseteq Keys(Captured') \cup Keys(Entries(batch))
    BY <1>2 DEF Keys
  <2> QED
    BY <1>1, <2>1 DEF Swallows, SwallowsThen
<1>4. MemoryThen
  <2>1. /\ Told(calls, pos, dropped, rewound) /\ Told(disk.calls, disk.acked, dropped, rewound)
        /\ Holds(calls, pos, dropped) /\ Holds(disk.calls, disk.acked, dropped)
        /\ Consumes(calls, answered) /\ Consumes(disk.calls, answered)
        /\ \A p \in Resps, b \in BOOLEAN : CallKeyOf(p, b) \in Range(seen) => p \in dropped \cup Indexed(calls)
    BY <1>1 DEF Memory
  <2>2. Told(calls, acked, dropped, TRUE) /\ Told(disk.calls, disk.acked, dropped, TRUE)
    BY <2>1 DEF Told
  <2>3. Holds(calls, acked, dropped)
    <3>1. dropped \subseteq dropped /\ Indexed(calls) \subseteq dropped \cup Indexed(calls)
      OBVIOUS
    <3> QED
      BY <1>1, <2>1, <3>1, HoldsOn
  <2>4. pos' = acked /\ rewound' = TRUE /\ calls' = calls /\ disk' = disk /\ dropped' = dropped
        /\ answered' = answered /\ seen' = seen
    BY <1>1
  <2>5. Told(calls', pos', dropped', rewound') /\ Told(disk'.calls, disk'.acked, dropped', rewound')
    BY <2>2, <2>4
  <2>6. /\ Consumes(calls', answered') /\ Consumes(disk'.calls, answered')
        /\ Holds(calls', pos', dropped') /\ Holds(disk'.calls, disk'.acked, dropped')
    BY <2>1, <2>3, <2>4
  <2>7. \A p \in Resps, b \in BOOLEAN :
           CallKeyOf(p, b) \in Range(seen') => p \in dropped' \cup Indexed(calls')
    BY <2>1, <2>4
  <2>8. ~rewound' => CountsIn(Captured', dropped')
    BY <2>4
  <2> QED
    BY <2>5, <2>6, <2>7, <2>8 DEF MemoryThen
<1>5. ShapeThen
  <2>1. acked' \in 0..pos' /\ pos' \in 0..Len(log)
    BY <1>1
  <2>2. again' \in 0..Len(log)
    BY <1>1 DEF Shape, LaterOf
  <2>3. mishaps' \in 0..MaxMishaps
    BY <1>1, Bounds DEF Shape
  <2> QED
    BY <1>1, <2>1, <2>2, <2>3 DEF Shape, ShapeThen, Bounded, Resident
<1>6. Placed'
  BY <1>1 DEF Placed
<1> QED
  BY <1>1, <1>3, <1>4, <1>5, <1>6, StepHolds

\* Open responses are given up for a batch, at the end of a pass or of a run.
LEMMA GivenUpHolds ==
    ASSUME IInv, pc = "poll", acked = pos, NEW R, R \subseteq Resps, Drained(R),
           pc' \in {"emit", "flush"}, mishaps' \in 0..MaxMishaps,
           UNCHANGED <<archiveVars, pos, acked, again, seen, calls, disk, recent, shipped,
                       refused, rewound, answered, dropped>>
    PROVE  IInv'
<1>1. ArchiveOK /\ Shape /\ Placed /\ pos \in Nat /\ Len(log) \in Nat
  BY InvIs
<1>2. batch = {}
  BY <1>1 DEF Placed
<1>3. open' \in [Resps -> OpenSet] /\ batch' \subseteq TurnSet /\ Captured' = Captured
  BY <1>2, DrainedKeeps
<1>4. SwallowsThen /\ MemoryThen
  BY <1>1, <1>3, QuietHolds
<1>5. ShapeThen
  BY <1>1, <1>3 DEF Shape, ShapeThen, Bounded, Resident
<1>6. Placed'
  BY <1>1 DEF Placed
<1> QED
  BY <1>1, <1>4, <1>5, <1>6, StepHolds

LEMMA EvictOpenHolds ==
    ASSUME IInv, EvictOpen
    PROVE  IInv'
<1>1. PICK R : R \subseteq Resps /\ Drained(R)
  BY DEF EvictOpen, OpenOnes
<1>2. /\ pc = "poll" /\ acked = pos /\ pc' = "emit" /\ mishaps' = mishaps
      /\ UNCHANGED <<archiveVars, pos, acked, again, seen, calls, disk, recent, shipped,
                     refused, rewound, answered, dropped>>
  BY DEF EvictOpen, PassEnds
<1>3. mishaps' \in 0..MaxMishaps /\ pc' \in {"emit", "flush"}
  BY <1>2, InvIs DEF Shape
<1> QED
  BY <1>1, <1>2, <1>3, GivenUpHolds

LEMMA StopHolds ==
    ASSUME IInv, Stop
    PROVE  IInv'
<1>1. OpenOnes \subseteq Resps /\ Drained(OpenOnes)
  BY DEF Stop, OpenOnes
<1>2. /\ pc = "poll" /\ acked = pos /\ pc' = "flush" /\ mishaps < MaxMishaps /\ mishaps' = mishaps + 1
      /\ UNCHANGED <<archiveVars, pos, acked, again, seen, calls, disk, recent, shipped,
                     refused, rewound, answered, dropped>>
  BY DEF Stop
<1>3. mishaps' \in 0..MaxMishaps /\ pc' \in {"emit", "flush"}
  <2>1. mishaps \in 0..MaxMishaps
    BY InvIs DEF Shape
  <2> QED
    BY <1>2, <2>1, Bounds
<1> QED
  BY <1>1, <1>2, <1>3, GivenUpHolds

\* What is saved of the index, for a checkpoint of where the reader is.
LEMMA SavedHolds ==
    ASSUME IInv, acked = pos, Saves
    PROVE  /\ disk'.acked = pos /\ IndexOK(disk'.calls) /\ dropped \subseteq dropped'
           /\ Told(disk'.calls, pos, dropped', rewound) /\ Consumes(disk'.calls, answered)
           /\ Holds(disk'.calls, pos, dropped')
<1> DEFINE e == EnforceLimits(calls)
<1>1. /\ Shape /\ Memory /\ pos \in Nat /\ Len(log) \in Nat /\ rewound \in BOOLEAN
  BY InvIs
<1>2. IndexOK(calls) /\ Told(calls, pos, dropped, rewound) /\ Consumes(calls, answered) /\ Holds(calls, pos, dropped)
  BY <1>1 DEF Shape, Memory
<1>3. disk'.acked = pos /\ disk'.calls = e /\ dropped' = dropped \cup (Indexed(calls) \ Indexed(e))
  BY DEF Saves, Snapshot, CallsToSave, Unindexed
<1> HIDE DEF e
<1>4. e = EnforceLimits(calls)
  BY DEF e
<1>5. IndexOK(e) /\ Told(e, pos, dropped', rewound) /\ Consumes(e, answered) /\ Holds(e, pos, dropped')
  BY <1>1, <1>2, <1>3, <1>4, LimitsKeep
<1> QED
  BY <1>3, <1>5

LEMMA SaveHolds ==
    ASSUME IInv, Save
    PROVE  IInv'
<1>1. /\ ArchiveOK /\ Shape /\ Placed /\ Swallows /\ Memory /\ pos \in Nat /\ Len(log) \in Nat
      /\ pc = "poll" /\ acked = pos /\ Saves /\ rewound \in BOOLEAN
      /\ UNCHANGED <<archiveVars, pc, pos, acked, open, batch, again, seen, calls, recent, shipped,
                     refused, rewound, answered, mishaps>>
  BY InvIs DEF Save, PassEnds
<1>2. /\ disk'.acked = pos /\ IndexOK(disk'.calls) /\ dropped \subseteq dropped'
      /\ Told(disk'.calls, pos, dropped', rewound) /\ Consumes(disk'.calls, answered)
      /\ Holds(disk'.calls, pos, dropped')
  BY <1>1, SavedHolds
<1>3. Captured' = Captured
  BY <1>1 DEF Captured, Entries
<1>4. SwallowsThen
  BY <1>1, <1>3 DEF Swallows, SwallowsThen
<1>5. MemoryThen
  <2>1. /\ Told(calls, pos, dropped, rewound) /\ Consumes(calls, answered) /\ Holds(calls, pos, dropped)
        /\ \A p \in Resps, b \in BOOLEAN : CallKeyOf(p, b) \in Range(seen) => p \in dropped \cup Indexed(calls)
        /\ ~rewound => CountsIn(Captured, dropped)
    BY <1>1 DEF Memory
  <2>2. IndexOK(calls) /\ pos <= pos /\ answered \subseteq answered
    BY <1>1 DEF Shape
  <2>3. Told(calls, pos, dropped', rewound) /\ Holds(calls, pos, dropped')
    BY <1>1, <1>2, <2>1, <2>2, StaysTold
  <2>4. ~rewound => CountsIn(Captured, dropped')
    BY <1>2, <2>1, CountsFewer
  <2> QED
    BY <1>1, <1>2, <1>3, <2>1, <2>3, <2>4 DEF MemoryThen
<1>6. ShapeThen
  BY <1>1, <1>2 DEF Shape, ShapeThen, Bounded, Resident
<1>7. Placed'
  BY <1>1 DEF Placed
<1> QED
  BY <1>1, <1>4, <1>5, <1>6, <1>7, StepHolds

\* What a process loses when it dies, it needs no more.
LEMMA DeathHolds ==
    ASSUME IInv, Die, UNCHANGED <<archiveVars, refused, rewound, answered>>,
           shipped' \subseteq Captured, shipped' \subseteq EntrySet, mishaps' \in 0..MaxMishaps,
           dropped \subseteq dropped', disk'.acked \in 0..Len(log), IndexOK(disk'.calls),
           Told(disk'.calls, disk'.acked, dropped', rewound), Consumes(disk'.calls, answered),
           Holds(disk'.calls, disk'.acked, dropped')
    PROVE  IInv'
<1>1. ArchiveOK /\ Shape /\ Placed /\ Swallows /\ Memory /\ Len(log) \in Nat /\ rewound \in BOOLEAN
  BY InvIs
<1>2. /\ pc' = "down" /\ pos' = 0 /\ acked' = 0 /\ batch' = {} /\ again' = 0
      /\ open' = [r \in Resps |-> Closed]
      /\ seen' = <<>> /\ recent' = <<>> /\ calls' = NoCalls
  BY DEF Die
<1>3. Closed \in OpenSet /\ Range(Closed.content) = {}
  BY <1>1, ClosedIs
<1>4. Captured' \subseteq Captured
  <2>1. \A e : e \in Captured' => e \in shipped'
    BY <1>2, <1>3, CapturedIs
  <2> QED
    BY <2>1
<1>5. SwallowsThen
  BY <1>2, EmptySetIs DEF SwallowsThen
<1>6. MemoryThen
  <2>1. /\ Told(NoCalls, 0, dropped', rewound) /\ Consumes(NoCalls, answered) /\ Holds(NoCalls, 0, dropped')
    <3>1. 0 \in Nat
      OBVIOUS
    <3> QED
      BY <1>1, <3>1, NoCallsIs
  <2>2. ~rewound => CountsIn(Captured', dropped')
    <3>1. ~rewound => CountsIn(Captured, dropped)
      BY <1>1 DEF Memory
    <3> QED
      BY <1>4, <3>1, CountsFewer
  <2>3. Range(seen') = {}
    BY <1>2, EmptySetIs
  <2> QED
    BY <1>2, <2>1, <2>2, <2>3 DEF MemoryThen
<1>7. ShapeThen
  <2>1. IndexOK(calls') /\ Bounded(calls')
    BY <1>1, <1>2, NoCallsIs
  <2>2. pos' \in 0..Len(log) /\ acked' \in 0..pos' /\ again' \in 0..Len(log)
    BY <1>1, <1>2
  <2>3. open' \in [Resps -> OpenSet] /\ batch' \subseteq TurnSet
    BY <1>2, <1>3
  <2> QED
    BY <1>1, <1>2, <2>1, <2>2, <2>3 DEF ShapeThen
<1>8. Placed'
  BY <1>2 DEF Placed
<1> QED
  BY <1>1, <1>5, <1>6, <1>7, <1>8, StepHolds

LEMMA FlushAcceptedHolds ==
    ASSUME IInv, FlushAccepted
    PROVE  IInv'
<1>1. /\ Shape /\ Placed /\ pos \in Nat /\ Len(log) \in Nat /\ pos <= Len(log)
      /\ pc = "flush" /\ shipped' = shipped \cup Entries(batch) /\ Saves /\ Die
      /\ UNCHANGED <<archiveVars, refused, rewound, answered, mishaps>>
  BY InvIs DEF FlushAccepted
<1>2. acked = pos
  BY <1>1 DEF Placed
<1>3. /\ disk'.acked = pos /\ IndexOK(disk'.calls) /\ dropped \subseteq dropped'
      /\ Told(disk'.calls, pos, dropped', rewound) /\ Consumes(disk'.calls, answered)
      /\ Holds(disk'.calls, pos, dropped')
  BY <1>1, <1>2, SavedHolds
<1>4. shipped' \subseteq Captured
  BY <1>1 DEF Captured
<1>5. shipped' \subseteq EntrySet
  <2>1. \A b \in batch : Range(b.content) \subseteq EntrySet
    BY <1>1 DEF Shape, TurnSet, Range
  <2> QED
    BY <1>1, <2>1 DEF Shape, Entries
<1>6. mishaps' \in 0..MaxMishaps /\ disk'.acked \in 0..Len(log)
  BY <1>1, <1>3 DEF Shape
<1> QED
  BY <1>1, <1>3, <1>4, <1>5, <1>6, DeathHolds

LEMMA CrashHolds ==
    ASSUME IInv, Crash
    PROVE  IInv'
<1>1. /\ Shape /\ Memory /\ Len(log) \in Nat /\ mishaps < MaxMishaps /\ mishaps' = mishaps + 1 /\ Die
      /\ UNCHANGED <<archiveVars, disk, shipped, refused, rewound, answered, dropped>>
  BY InvIs DEF Crash
<1>2. shipped' \subseteq Captured /\ shipped' \subseteq EntrySet
  BY <1>1 DEF Captured, Shape
<1>3. mishaps' \in 0..MaxMishaps
  <2>1. mishaps \in 0..MaxMishaps
    BY <1>1 DEF Shape
  <2> QED
    BY <1>1, <2>1, Bounds
<1>4. /\ disk'.acked \in 0..Len(log) /\ IndexOK(disk'.calls)
      /\ Told(disk'.calls, disk'.acked, dropped', rewound) /\ Consumes(disk'.calls, answered)
      /\ Holds(disk'.calls, disk'.acked, dropped') /\ dropped \subseteq dropped'
  BY <1>1 DEF Shape, Memory
<1> QED
  BY <1>1, <1>2, <1>3, <1>4, DeathHolds

LEMMA StartHolds ==
    ASSUME IInv, Start
    PROVE  IInv'
<1>1. /\ ArchiveOK /\ Shape /\ Placed /\ Swallows /\ Memory /\ Len(log) \in Nat /\ rewound \in BOOLEAN
      /\ disk.acked \in Nat /\ pc \in {"down", "written"}
      /\ pc' = "poll" /\ pos' = disk.acked /\ acked' = disk.acked
      /\ calls' = EnforceLimits(disk.calls)
      /\ dropped' = dropped \cup (Indexed(disk.calls) \ Indexed(calls'))
      /\ UNCHANGED <<archiveVars, open, batch, again, seen, disk, recent, shipped, refused,
                     rewound, answered, mishaps>>
  BY InvIs DEF Start
<1>2. batch = {} /\ seen = <<>>
  BY <1>1 DEF Placed
<1>3. Captured' = Captured
  BY <1>1 DEF Captured, Entries
<1>4. SwallowsThen
  BY <1>1, <1>3 DEF Swallows, SwallowsThen
<1>5. /\ IndexOK(disk.calls) /\ Told(disk.calls, disk.acked, dropped, rewound)
      /\ Consumes(disk.calls, answered) /\ Holds(disk.calls, disk.acked, dropped)
  BY <1>1 DEF Shape, Memory
<1>6. /\ IndexOK(calls') /\ Bounded(calls') /\ Told(calls', disk.acked, dropped', rewound)
      /\ Consumes(calls', answered) /\ Holds(calls', disk.acked, dropped')
  BY <1>1, <1>5, LimitsKeep
<1>7. Told(disk.calls, disk.acked, dropped', rewound) /\ Holds(disk.calls, disk.acked, dropped')
  <2>1. dropped \subseteq dropped' /\ answered \subseteq answered /\ disk.acked <= disk.acked
    BY <1>1
  <2> QED
    BY <1>1, <1>5, <2>1, StaysTold
<1>8. MemoryThen
  <2>1. Range(seen') = {}
    BY <1>1, <1>2, EmptySetIs
  <2>2. ~rewound => CountsIn(Captured', dropped')
    <3>1. ~rewound => CountsIn(Captured, dropped)
      BY <1>1 DEF Memory
    <3>2. dropped \subseteq dropped' /\ Captured' \subseteq Captured
      BY <1>1, <1>3
    <3> QED
      BY <3>1, <3>2, CountsFewer
  <2> QED
    BY <1>1, <1>5, <1>6, <1>7, <2>1, <2>2 DEF MemoryThen
<1>9. ShapeThen
  <2>1. pos' \in 0..Len(log) /\ acked' \in 0..pos'
    BY <1>1 DEF Shape
  <2> QED
    BY <1>1, <1>6, <2>1 DEF Shape, ShapeThen
<1>10. Placed'
  BY <1>1, <1>2 DEF Placed
<1> QED
  BY <1>1, <1>4, <1>8, <1>9, <1>10, StepHolds

LEMMA WriteKeeps ==
    ASSUME IInv, Write
    PROVE  IInv'
<1>1. /\ ArchiveOK /\ Blank /\ pc = "written" /\ UNCHANGED readerVars
      /\ \E t \in Threads : Create(t) \/ Done(t) \/ \E c \in CallIds : Call(t, c)
  BY DEF IInv, Write
<1>2. ArchiveOK'
  BY <1>1, WriteHolds
<1>3. pc' = "written" /\ Blank'
  BY <1>1 DEF readerVars, Blank
<1>4. (ArchiveOK /\ pc = "written" /\ Blank => Shape /\ Swallows /\ Placed /\ Memory)'
  BY BlankHolds, PTL
<1> QED
  BY <1>2, <1>3, <1>4 DEF IInv

LEMMA InitHolds ==
    ASSUME Init
    PROVE  IInv
<1>1. pc = "written" /\ Blank
  BY DEF Init, Blank
<1>2. ArchiveOK
  <2>1. /\ log = <<>> /\ history = [t \in Threads |-> <<>>] /\ sent = [r \in Resps |-> <<>>]
        /\ thread = [r \in Resps |-> 0] /\ called = [r \in Resps |-> None]
        /\ current = [t \in Threads |-> 0] /\ pending = {}
    BY DEF Init
  <2>2. LogOK /\ Len(log) = 0
    BY <2>1 DEF LogOK
  <2>3. \A t \in Threads : Len(history[t]) = 0 /\ history[t] \in Seq(Item)
    BY <2>1
  <2>4. sent \in [Resps -> Seq(Item)] /\ history \in [Threads -> Seq(Item)]
    BY <2>1
  <2> QED
    BY <2>1, <2>2, <2>3, <2>4 DEF ArchiveOK
<1> QED
  BY <1>1, <1>2, BlankHolds DEF IInv

-----------------------------------------------------------------------------
(* The reducer's steps.                                                    *)

\* The checkpoint stays as true as it was.
LEMMA DiskStays ==
    ASSUME IInv, disk' = disk, dropped \subseteq dropped', answered \subseteq answered'
    PROVE  /\ Told(disk'.calls, disk'.acked, dropped', rewound) /\ Consumes(disk'.calls, answered')
           /\ Holds(disk'.calls, disk'.acked, dropped')
<1>1. Shape /\ Memory /\ disk.acked \in Nat /\ rewound \in BOOLEAN
  BY InvIs
<1>2. /\ IndexOK(disk.calls) /\ Told(disk.calls, disk.acked, dropped, rewound)
      /\ Consumes(disk.calls, answered) /\ Holds(disk.calls, disk.acked, dropped)
  BY <1>1 DEF Shape, Memory
<1>3. disk.acked <= disk.acked
  BY <1>1
<1> QED
  BY <1>1, <1>2, <1>3, StaysTold

\* A response has captured more.
LEMMA MoreCaptured ==
    ASSUME open \in [Resps -> OpenSet], NEW r \in Resps, NEW o \in OpenSet,
           open' = [open EXCEPT ![r] = o], Range(open[r].content) \subseteq Range(o.content),
           batch' = batch, shipped' = shipped
    PROVE  /\ open' \in [Resps -> OpenSet] /\ Captured \subseteq Captured'
           /\ Range(o.content) \subseteq Captured'
           /\ \A e \in Captured' : e \in Captured \/ e \in Range(o.content) \ Range(open[r].content)
           /\ NewEntries = Range(o.content) \ Range(open[r].content)
<1>1. open' \in [Resps -> OpenSet] /\ open'[r] = o /\ \A q \in Resps \ {r} : open'[q] = open[q]
  OBVIOUS
<1>2. \A e \in Captured : e \in Captured'
  <2> SUFFICES ASSUME NEW e \in Captured PROVE e \in Captured'
    OBVIOUS
  <2>1. CASE e \in shipped \/ \E b \in batch : e \in Range(b.content)
    BY <2>1, CapturedIs
  <2>2. CASE \E q \in Resps : e \in Range(open[q].content)
    <3>1. PICK q \in Resps : e \in Range(open[q].content)
      BY <2>2
    <3>2. e \in Range(open'[q].content)
      BY <1>1, <3>1
    <3> QED
      BY <3>2, CapturedIs
  <2> QED
    BY <2>1, <2>2, CapturedIs
<1>3. \A e \in Range(o.content) : e \in Captured'
  BY <1>1, CapturedIs
<1>4. \A e \in Captured' : e \in Captured \/ e \in Range(o.content) \ Range(open[r].content)
  <2> SUFFICES ASSUME NEW e \in Captured', e \notin Captured
               PROVE  e \in Range(o.content) \ Range(open[r].content)
    OBVIOUS
  <2>1. e \notin shipped /\ (\A b \in batch : e \notin Range(b.content)) /\ \A q \in Resps : e \notin Range(open[q].content)
    BY CapturedIs
  <2>2. \E q \in Resps : e \in Range(open'[q].content)
    BY <2>1, CapturedIs
  <2> QED
    BY <1>1, <2>1, <2>2
<1>5. \A e : e \in NewEntries <=> e \in Range(o.content) \ Range(open[r].content)
  <2>1. \A e : e \in NewEntries <=> \E q \in Resps : e \in Range(open'[q].content) \ Range(open[q].content)
    BY DEF NewEntries
  <2> QED
    BY <1>1, <2>1
<1> QED
  BY <1>1, <1>2, <1>3, <1>4, <1>5

LEMMA ClosesHolds ==
    ASSUME IInv, Closes
    PROVE  IInv'
<1> DEFINE r == log[pos + 1].resp
           turn == [resp |-> r, content |-> open[r].content]
<1>1. /\ ArchiveOK /\ Shape /\ Placed /\ pos \in Nat /\ acked \in Nat /\ acked <= pos /\ Len(log) \in Nat
      /\ pc = "poll" /\ pos < Len(log) /\ log[pos + 1].what # "call" /\ pos' = pos + 1
      /\ batch' = batch \cup {turn} /\ open' = [open EXCEPT ![r] = Closed]
      /\ UNCHANGED <<archiveVars, pc, acked, again, seen, calls, disk, recent, shipped, refused,
                     rewound, answered, dropped, mishaps>>
  BY InvIs DEF Closes
<1>2. r \in Resps
  <2>1. pos + 1 \in 1..Len(log)
    BY <1>1
  <2> QED
    BY <1>1, <2>1, LogIs DEF ArchiveOK
<1>3. open \in [Resps -> OpenSet] /\ batch \subseteq TurnSet
  BY <1>1 DEF Shape
<1>4. turn \in TurnSet /\ turn.content = open[r].content
  BY <1>2, <1>3 DEF OpenSet, TurnSet
<1> HIDE DEF r, turn
<1>5. Closed \in OpenSet /\ Range(Closed.content) = {}
  BY <1>1, ClosedIs
<1>6. /\ open' \in [Resps -> OpenSet] /\ batch' \subseteq TurnSet
      /\ Range(open'[r].content) = {} /\ \A q \in Resps \ {r} : open'[q] = open[q]
  BY <1>1, <1>2, <1>3, <1>4, <1>5
<1>7. Captured' = Captured
  <2>1. \A e : (\E b \in batch' : e \in Range(b.content))
               <=> (\E b \in batch : e \in Range(b.content)) \/ e \in Range(open[r].content)
    BY <1>1, <1>4
  <2>2. \A e : (\E q \in Resps : e \in Range(open[q].content))
               <=> (\E q \in Resps : e \in Range(open'[q].content)) \/ e \in Range(open[r].content)
    BY <1>2, <1>6
  <2>3. \A e : e \in Captured' <=> e \in Captured
    BY <1>1, <2>1, <2>2, CapturedIs
  <2> QED
    BY <2>3
<1>8. SwallowsThen /\ MemoryThen
  BY <1>1, <1>7, QuietHolds
<1>9. ShapeThen
  <2>1. acked' \in 0..pos' /\ pos' \in 0..Len(log)
    BY <1>1
  <2> QED
    BY <1>1, <1>6, <2>1 DEF Shape, ShapeThen, Bounded, Resident
<1>10. Placed'
  <2>1. acked' # pos' /\ pc' = "poll"
    BY <1>1
  <2> QED
    BY <2>1 DEF Placed
<1> QED
  BY <1>1, <1>8, <1>9, <1>10, StepHolds

\* The items of a response.create are taken in: o is what is open of r then.
TakesIn(r, o) ==
    /\ pc = "poll" /\ pos + 1 \in 1..Len(log) /\ log[pos + 1].what # "call" /\ pos' = pos + 1
    /\ open' = [open EXCEPT ![r] = o] /\ Range(open[r].content) \subseteq Range(o.content)
    /\ recent' \in Seq(KeySet) /\ Apart(recent') /\ Fits(seen', recent')
    /\ Range(seen') \subseteq Range(seen) \cup Keys(Range(o.content))
    /\ \A k \in Range(seen') : k[2] = "call" => k \in Range(seen)
    /\ IndexOK(calls') /\ FewerIn(calls', calls) /\ Consumes(calls', answered') /\ answered \subseteq answered'
    /\ \A e \in Range(o.content) \ Range(open[r].content) : FromInput(e, calls', pos, rewound)
    /\ dropped' = dropped \cup (Indexed(calls) \ Indexed(calls'))
    /\ UNCHANGED <<archiveVars, pc, acked, batch, again, disk, shipped, refused, rewound, mishaps>>

LEMMA OpensIs ==
    ASSUME IInv, Opens
    PROVE  \E r \in Resps : \E o \in OpenSet : TakesIn(r, o)
<1> DEFINE r == log[pos + 1].resp
           s0 == [seen |-> seen, recent |-> recent, content |-> open[r].content,
                  index |-> calls, answered |-> answered]
           s == CaptureInput(s0, thread[r], pos + 1, sent[r])
           o == [Opened(r, pos + 1) EXCEPT !.named = TRUE, !.content = s.content]
<1>1. /\ ArchiveOK /\ Shape /\ Swallows /\ Memory /\ pos \in Nat /\ Len(log) \in Nat /\ rewound \in BOOLEAN
      /\ pc = "poll" /\ pos < Len(log) /\ log[pos + 1].what = "create" /\ pos' = pos + 1
      /\ seen' = s.seen /\ recent' = s.recent /\ calls' = s.index /\ open' = [open EXCEPT ![r] = o]
      /\ answered' = s.answered /\ dropped' = dropped \cup (Indexed(calls) \ Indexed(s.index))
      /\ UNCHANGED <<archiveVars, pc, acked, batch, again, disk, shipped, refused, rewound, mishaps>>
  BY InvIs DEF Opens, Unindexed
<1>2. pos + 1 \in 1..Len(log) /\ pos + 1 \in 0..Len(log)
  BY <1>1
<1>3. r \in Resps /\ thread[r] \in Threads /\ sent[r] \in Seq(Item)
  <2>1. r \in Resps
    BY <1>1, <1>2, LogIs DEF ArchiveOK
  <2> QED
    BY <1>1, <1>2, <2>1 DEF ArchiveOK
<1>4. \A m \in 1..Len(sent[r]) : Brings(sent[r][m], thread[r], pos)
  <2>1. \A m \in 1..Len(sent[r]) : Brings(sent[r][m], thread[r], (pos + 1) - 1)
    BY <1>1, <1>2 DEF ArchiveOK
  <2>2. (pos + 1) - 1 = pos
    <3>1. pos \in Nat
      BY <1>1
    <3> QED
      BY <3>1
  <2> QED
    BY <2>1, <2>2
<1>5. /\ s0.seen = seen /\ s0.recent = recent /\ s0.content = open[r].content
      /\ s0.index = calls /\ s0.answered = answered /\ Folding(s0)
  BY DEF Folding
<1>6. open[r] \in OpenSet /\ open[r].content \in Seq(EntrySet)
  BY <1>1, <1>3 DEF Shape, OpenSet
<1> HIDE DEF s0, r
<1>7. IndexOK(s0.index) /\ Told(s0.index, pos, dropped, rewound)
  BY <1>1, <1>5 DEF Shape, Memory
<1>8. Captures(s0, s0, pos, rewound)
  <2>1. /\ recent \in Seq(KeySet) /\ Apart(recent) /\ Fits(seen, recent)
        /\ Consumes(calls, answered) /\ IndexOK(calls) /\ FewerIn(calls, calls)
    BY <1>1, FewerInSelf DEF Shape, Swallows, Memory
  <2> QED
    BY <1>5, <1>6, <2>1 DEF Captures
<1>9. Captures(s, s0, pos, rewound)
  BY <1>1, <1>2, <1>3, <1>4, <1>7, <1>8, InputCaptured
<1> HIDE DEF s
<1>10. /\ s.recent \in Seq(KeySet) /\ Apart(s.recent) /\ Fits(s.seen, s.recent)
       /\ s.content \in Seq(EntrySet) /\ Range(open[r].content) \subseteq Range(s.content)
       /\ Range(s.seen) \subseteq Range(seen) \cup Keys(Range(s.content))
       /\ \A k \in Range(s.seen) : k[2] = "call" => k \in Range(seen)
       /\ IndexOK(s.index) /\ FewerIn(s.index, calls)
       /\ Consumes(s.index, s.answered) /\ answered \subseteq s.answered
       /\ \A e \in Range(s.content) \ Range(open[r].content) : FromInput(e, s.index, pos, rewound)
  BY <1>5, <1>9 DEF Captures
<1>11. o \in OpenSet /\ o.content = s.content
  BY <1>2, <1>3, <1>6, <1>10 DEF Opened, OpenSet
<1> HIDE DEF o
<1>12. log[pos + 1].what # "call"
  BY <1>1
<1>13. TakesIn(r, o)
  BY <1>1, <1>2, <1>10, <1>11, <1>12 DEF TakesIn
<1> QED
  BY <1>3, <1>11, <1>13

LEMMA OpensHolds ==
    ASSUME IInv, Opens
    PROVE  IInv'
<1>1. PICK r \in Resps, o \in OpenSet : TakesIn(r, o)
  BY OpensIs
<1>2. /\ ArchiveOK /\ Shape /\ Placed /\ Swallows /\ Memory /\ pos \in Nat /\ acked \in Nat /\ acked <= pos
      /\ Len(log) \in Nat /\ rewound \in BOOLEAN
  BY InvIs
<1>3. /\ open' \in [Resps -> OpenSet] /\ Captured \subseteq Captured'
      /\ Range(o.content) \subseteq Captured'
      /\ \A e \in Captured' : e \in Captured \/ e \in Range(o.content) \ Range(open[r].content)
  BY <1>1, <1>2, MoreCaptured DEF TakesIn, Shape
<1>4. /\ pos' = pos + 1 /\ pos + 1 \in 1..Len(log) /\ log[pos + 1].what # "call"
      /\ IndexOK(calls') /\ FewerIn(calls', calls) /\ Consumes(calls', answered') /\ answered \subseteq answered'
      /\ dropped' = dropped \cup (Indexed(calls) \ Indexed(calls'))
      /\ \A e \in Range(o.content) \ Range(open[r].content) : FromInput(e, calls', pos, rewound)
  BY <1>1 DEF TakesIn
<1>5. /\ pc = "poll" /\ disk' = disk /\ rewound' = rewound /\ refused' = refused
      /\ UNCHANGED <<archiveVars, pc, acked, batch, again, shipped, mishaps>>
  BY <1>1 DEF TakesIn
<1>6. SwallowsThen
  <2>1. Keys(Captured) \subseteq Keys(Captured') /\ Keys(Range(o.content)) \subseteq Keys(Captured')
    BY <1>3 DEF Keys
  <2> QED
    BY <1>1, <1>2, <1>5, <2>1 DEF TakesIn, Swallows, SwallowsThen
<1>7. MemoryThen
  <2>1. /\ Told(calls, pos, dropped, rewound) /\ Holds(calls, pos, dropped)
        /\ \A p \in Resps, b \in BOOLEAN : CallKeyOf(p, b) \in Range(seen) => p \in dropped \cup Indexed(calls)
        /\ ~rewound => CountsIn(Captured, dropped)
    BY <1>2 DEF Memory
  <2>2. dropped \subseteq dropped' /\ Indexed(calls) \subseteq dropped' \cup Indexed(calls')
    BY <1>4
  <2>3. Told(calls', pos', dropped', rewound')
    <3>1. pos' \in Nat /\ pos <= pos' /\ (~rewound' => ~rewound)
      BY <1>2, <1>4, <1>5
    <3> QED
      BY <1>2, <1>4, <2>1, <2>2, <3>1, ToldStays
  <2>4. Holds(calls', pos', dropped')
    <3>1. Holds(calls', pos, dropped')
      <4>1. pos <= pos
        BY <1>2
      <4> QED
        BY <1>2, <2>1, <2>2, <4>1, HoldsOn
    <3>2. \A p : Read(p, pos') => Read(p, pos)
      BY <1>2, <1>4 DEF Read
    <3> QED
      BY <3>1, <3>2 DEF Holds
  <2>5. ASSUME NEW p \in Resps, NEW b \in BOOLEAN, CallKeyOf(p, b) \in Range(seen')
        PROVE  p \in dropped' \cup Indexed(calls')
    <3>1. CallKeyOf(p, b) \in Range(seen)
      <4>1. CallKeyOf(p, b)[2] = "call"
        BY DEF CallKeyOf
      <4>2. \A k \in Range(seen') : k[2] = "call" => k \in Range(seen)
        BY <1>1 DEF TakesIn
      <4> QED
        BY <2>5, <4>1, <4>2
    <3> QED
      BY <2>1, <2>2, <3>1
  <2>6. ~rewound' => CountsIn(Captured', dropped')
    <3> SUFFICES ASSUME ~rewound' PROVE CountsIn(Captured', dropped')
      OBVIOUS
    <3>1. CountsIn(Captured, dropped')
      BY <1>5, <2>1, <2>2, CountsFewer
    <3>2. \A e \in Captured' : e \in Captured \/ e.key[2] # "call"
      BY <1>3, <1>4 DEF FromInput
    <3> QED
      BY <3>1, <3>2 DEF CountsIn
  <2>7. /\ Told(disk'.calls, disk'.acked, dropped', rewound') /\ Consumes(disk'.calls, answered')
        /\ Holds(disk'.calls, disk'.acked, dropped')
    BY <1>4, <1>5, <2>2, DiskStays
  <2> QED
    BY <1>4, <2>3, <2>4, <2>5, <2>6, <2>7 DEF MemoryThen
<1>8. ShapeThen
  <2>1. acked' \in 0..pos' /\ pos' \in 0..Len(log)
    BY <1>2, <1>4, <1>5
  <2>2. Bounded(calls')
    BY <1>2, <1>4, FewerInBounded DEF Shape
  <2> QED
    BY <1>2, <1>3, <1>4, <1>5, <2>1, <2>2 DEF Shape, ShapeThen
<1>9. Placed'
  <2>1. acked' # pos' /\ pc' = "poll"
    BY <1>2, <1>4, <1>5
  <2> QED
    BY <2>1 DEF Placed
<1> QED
  BY <1>2, <1>5, <1>6, <1>7, <1>8, <1>9, StepHolds

\* A call whose key is new goes into the index and is captured with its rank;
\* of one whose key is in the set nothing changes.
LEMMA CallsHolds ==
    ASSUME IInv, Calls
    PROVE  IInv'
<1> DEFINE r == log[pos + 1].resp
           t == thread[r]
           k == CallKey(t, r)
           ref == [of |-> r, origin |-> IF open[r].named THEN r ELSE 0, at |-> pos + 1]
           rcd == Record(calls, t, called[r], ref)
           e == [Entry(k, r) EXCEPT !.occurrence = rcd.occurrence]
           more == Append(open[r].content, e)
           new == ~Contains(seen, k)
           o == [Opened(r, pos + 1) EXCEPT !.content = IF new THEN more ELSE open[r].content]
           keys == Touch(recent, k)
           set == AddSeen(seen, k)
<1>1. /\ ArchiveOK /\ Shape /\ Placed /\ Swallows /\ Memory /\ pos \in Nat /\ acked \in Nat /\ acked <= pos
      /\ Len(log) \in Nat /\ rewound \in BOOLEAN
      /\ pc = "poll" /\ pos < Len(log) /\ log[pos + 1].what = "call" /\ pos' = pos + 1
      /\ UNCHANGED <<archiveVars, pc, acked, batch, again, disk, shipped, refused, rewound, answered,
                     mishaps>>
  BY InvIs DEF Calls
<1>2. /\ seen' = set /\ recent' = keys
      /\ calls' = IF new THEN rcd.index ELSE calls
      /\ dropped' = dropped \cup (Indexed(calls) \ Indexed(calls')) \cup
                         (IF new THEN {r} \ Indexed(rcd.index) ELSE {})
  BY DEF Calls, Unindexed
<1>3. open' = [open EXCEPT ![r] = o]
  BY DEF Calls, Opened
<1>4. /\ pos + 1 \in 1..Len(log) /\ r \in Resps /\ t \in Threads /\ called[r] \in CallIds
  <2>1. pos + 1 \in 1..Len(log)
    BY <1>1
  <2> QED
    BY <1>1, <2>1, LogIs DEF ArchiveOK
<1>5. open[r] \in OpenSet /\ open[r].named \in BOOLEAN /\ open[r].content \in Seq(EntrySet)
  BY <1>1, <1>4 DEF Shape, OpenSet
<1>6. k = CallKeyOf(r, open[r].named) /\ k \in KeySet /\ k[2] = "call"
  BY <1>4, <1>5 DEF CallKey, CallKeyOf, KeySet
<1>7. ref \in Ref /\ ref.of = r /\ ref.origin \in {0, r} /\ ref.at = pos + 1
  <2>1. 0 \in 0..MaxResps /\ r \in 0..MaxResps
    BY <1>4, Bounds DEF Resps
  <2> QED
    BY <1>4, <2>1 DEF Ref
<1>8. \A p : Read(p, pos + 1) => Read(p, pos) \/ p = r
  BY <1>1, <1>4 DEF Read
<1>9. Read(r, pos + 1)
  BY <1>1, <1>4 DEF Read
<1>10. \A p \in Resps, b \in BOOLEAN : CallKeyOf(p, b) = k => p = r
  BY <1>6 DEF CallKeyOf
<1>11. e.key = k /\ e.of = r /\ e.occurrence = rcd.occurrence
       /\ (rcd.occurrence \in Nat => e \in EntrySet)
  <2>1. r \in 0..MaxResps /\ 0 \in 0..MaxResps
    BY <1>4, Bounds DEF Resps
  <2> QED
    BY <1>6, <2>1 DEF Entry, EntrySet
<1>12. pos + 1 \in 0..Len(log)
  BY <1>4
<1>13. o.content = (IF new THEN more ELSE open[r].content)
       /\ (o.content \in Seq(EntrySet) => o \in OpenSet)
  BY <1>4, <1>5, <1>12 DEF Opened, OpenSet
<1> HIDE DEF o, e, ref, k, t
<1>14. /\ keys \in Seq(KeySet) /\ Apart(keys) /\ Fits(set, keys)
       /\ Range(set) \subseteq Range(seen) \cup {k}
       /\ Contains(seen, k) <=> k \in Range(seen)
  BY <1>1, <1>6, AddSeenIs DEF Swallows
<1> HIDE DEF r, rcd, more, keys, set, new
<1>15. /\ Told(calls, pos, dropped, rewound) /\ Consumes(calls, answered) /\ Holds(calls, pos, dropped)
       /\ \A p \in Resps, b \in BOOLEAN : CallKeyOf(p, b) \in Range(seen) => p \in dropped \cup Indexed(calls)
       /\ ~rewound => CountsIn(Captured, dropped)
       /\ IndexOK(calls) /\ Bounded(calls)
  BY <1>1 DEF Memory, Shape
<1>16. /\ IndexOK(calls') /\ Bounded(calls') /\ dropped \subseteq dropped'
       /\ Told(calls', pos + 1, dropped', rewound) /\ Consumes(calls', answered)
       /\ Indexed(calls) \subseteq dropped' \cup Indexed(calls') /\ r \in dropped' \cup Indexed(calls')
       /\ new => rcd.occurrence \in Nat /\ (~rewound /\ Clean(r, dropped') => rcd.occurrence = Rank(r))
  <2>1. CASE new
    <3>1. calls' = rcd.index
          /\ dropped' = dropped \cup (Indexed(calls) \ Indexed(rcd.index)) \cup ({r} \ Indexed(rcd.index))
      BY <1>2, <2>1
    <3>2. rcd = Record(calls, thread[ref.of], called[ref.of], ref)
      BY <1>7 DEF rcd, t
    <3>3. log[pos + 1].resp = ref.of /\ thread[ref.of] \in Threads /\ called[ref.of] \in CallIds
          /\ ref.origin \in {0, ref.of} /\ LogOK
      BY <1>1, <1>4, <1>7 DEF r, t, ArchiveOK
    <3>4. /\ dropped \subseteq dropped' /\ Indexed(calls) \subseteq dropped' \cup Indexed(rcd.index)
          /\ ref.of \in dropped' \cup Indexed(rcd.index)
      BY <1>7, <3>1
    <3>5. /\ IndexOK(rcd.index) /\ Bounded(rcd.index) /\ rcd.occurrence \in Nat
          /\ Told(rcd.index, pos + 1, dropped', rewound) /\ Consumes(rcd.index, answered)
          /\ Ranked(rcd.occurrence, ref.of, dropped', rewound)
      <4>0. PICK i \in 1..Len(log) : i = pos + 1
        BY <1>4
      <4>1. /\ LogOK /\ IndexOK(calls) /\ Bounded(calls) /\ rewound \in BOOLEAN /\ pos \in Nat
            /\ i = pos + 1 /\ log[i].what = "call" /\ ref \in Ref
            /\ log[i].resp = ref.of /\ thread[ref.of] \in Threads /\ called[ref.of] \in CallIds
            /\ ref.origin \in {0, ref.of}
            /\ Told(calls, pos, dropped, rewound) /\ Consumes(calls, answered) /\ Holds(calls, pos, dropped)
        BY <1>1, <1>4, <1>7, <1>15, <3>3, <4>0
      <4>2. /\ IndexOK(rcd.index) /\ Bounded(rcd.index) /\ rcd.occurrence \in Nat
            /\ Told(rcd.index, i, dropped', rewound) /\ Consumes(rcd.index, answered)
            /\ Ranked(rcd.occurrence, ref.of, dropped', rewound)
        BY <3>2, <3>4, <4>1, RecordTold, SMTT(30)
      <4> QED
        BY <4>0, <4>2
    <3> QED
      BY <1>7, <3>1, <3>5 DEF Ranked
  <2>2. CASE ~new
    <3>1. calls' = calls /\ dropped' = dropped
      BY <1>2, <2>2
    <3>2. k \in Range(seen)
      BY <1>14, <2>2 DEF new
    <3>3. r \in dropped \cup Indexed(calls)
      BY <1>4, <1>5, <1>6, <1>15, <3>2
    <3>4. Told(calls, pos + 1, dropped, rewound)
      <4>1. pos + 1 \in Nat /\ pos <= pos + 1 /\ dropped \subseteq dropped /\ answered \subseteq answered
        BY <1>1
      <4> QED
        BY <1>1, <1>15, <4>1, StaysTold
    <3> QED
      BY <1>15, <2>2, <3>1, <3>3, <3>4
  <2> QED
    BY <2>1, <2>2
<1>17. /\ o \in OpenSet /\ Range(open[r].content) \subseteq Range(o.content)
       /\ \A x \in Range(o.content) \ Range(open[r].content) : new /\ x = e
       /\ new => e \in Range(o.content)
  <2>1. CASE new
    <3>1. e \in EntrySet
      BY <1>11, <1>16, <2>1
    <3>2. more \in Seq(EntrySet) /\ Range(more) = Range(open[r].content) \cup {e}
      BY <1>5, <3>1, RangeAppend DEF more
    <3> QED
      BY <1>13, <2>1, <3>2
  <2>2. CASE ~new
    BY <1>5, <1>13, <2>2
  <2> QED
    BY <2>1, <2>2
<1>18. /\ open' \in [Resps -> OpenSet] /\ Captured \subseteq Captured'
       /\ Range(o.content) \subseteq Captured'
       /\ \A x \in Captured' : x \in Captured \/ x \in Range(o.content) \ Range(open[r].content)
  BY <1>1, <1>3, <1>4, <1>17, MoreCaptured DEF Shape
<1>19. SwallowsThen
  <2>1. Keys(Captured) \subseteq Keys(Captured') /\ (new => k \in Keys(Captured'))
    BY <1>11, <1>17, <1>18 DEF Keys
  <2>2. Range(seen) \subseteq Keys(Captured) \cup refused
    BY <1>1 DEF Swallows
  <2>3. Range(set) \subseteq Keys(Captured') \cup refused
    BY <1>14, <2>1, <2>2 DEF new
  <2> QED
    BY <1>1, <1>2, <1>14, <2>3 DEF SwallowsThen
<1>20. MemoryThen
  <2>1. Told(calls', pos', dropped', rewound') /\ Consumes(calls', answered')
    BY <1>1, <1>16
  <2>2. Holds(calls', pos', dropped')
    <3> SUFFICES ASSUME NEW p \in Resps, Read(p, pos') PROVE p \in dropped' \cup Indexed(calls')
      BY DEF Holds
    <3>1. Read(p, pos) \/ p = r
      BY <1>1, <1>8
    <3>2. Read(p, pos) => p \in dropped \cup Indexed(calls)
      BY <1>15 DEF Holds
    <3> QED
      BY <1>16, <3>1, <3>2
  <2>3. ASSUME NEW p \in Resps, NEW b \in BOOLEAN, CallKeyOf(p, b) \in Range(seen')
        PROVE  p \in dropped' \cup Indexed(calls')
    <3>1. CallKeyOf(p, b) \in Range(seen) \/ p = r
      BY <1>2, <1>10, <1>14, <2>3
    <3>2. CallKeyOf(p, b) \in Range(seen) => p \in dropped \cup Indexed(calls)
      BY <1>15
    <3> QED
      BY <1>16, <3>1, <3>2
  <2>4. ~rewound' => CountsIn(Captured', dropped')
    <3> SUFFICES ASSUME ~rewound', NEW x \in Captured', x.key[2] = "call", Clean(x.of, dropped')
                 PROVE  x.occurrence = Rank(x.of)
      BY DEF CountsIn
    <3>1. ~rewound
      BY <1>1
    <3>2. CASE x \in Captured
      <4>1. CountsIn(Captured, dropped')
        BY <1>15, <1>16, <3>1, CountsFewer
      <4> QED
        BY <3>2, <4>1 DEF CountsIn
    <3>3. CASE x \notin Captured
      <4>1. new /\ x = e
        BY <1>17, <1>18, <3>3
      <4> QED
        BY <1>11, <1>16, <3>1, <4>1
    <3> QED
      BY <3>2, <3>3
  <2>5. /\ Told(disk'.calls, disk'.acked, dropped', rewound') /\ Consumes(disk'.calls, answered')
        /\ Holds(disk'.calls, disk'.acked, dropped')
    <3>1. disk' = disk /\ answered \subseteq answered' /\ rewound' = rewound
      BY <1>1
    <3> QED
      BY <1>16, <3>1, DiskStays
  <2> QED
    BY <2>1, <2>2, <2>3, <2>4, <2>5 DEF MemoryThen
<1>21. ShapeThen
  <2>1. acked' \in 0..pos' /\ pos' \in 0..Len(log)
    BY <1>1
  <2> QED
    BY <1>1, <1>16, <1>18, <2>1 DEF Shape, ShapeThen
<1>22. Placed'
  <2>1. acked' # pos' /\ pc' = "poll"
    BY <1>1
  <2> QED
    BY <2>1 DEF Placed
<1> QED
  BY <1>1, <1>19, <1>20, <1>21, <1>22, StepHolds

-----------------------------------------------------------------------------
(* The invariant holds.                                                    *)

LEMMA StutterHolds ==
    ASSUME IInv, UNCHANGED vars
    PROVE  IInv'
<1>1. /\ ArchiveOK /\ Shape /\ Swallows /\ Placed /\ Memory
  BY InvIs
<1>2. UNCHANGED archiveVars /\ UNCHANGED readerVars
  BY DEF vars
<1>3. CASE pc = "written"
  <2>1. ArchiveOK' /\ pc' = "written"
    BY <1>1, <1>2, <1>3, ArchiveStays DEF readerVars
  <2>2. Blank'
    BY <1>2, <1>3 DEF IInv, readerVars, Blank
  <2>3. (ArchiveOK /\ pc = "written" /\ Blank => Shape /\ Swallows /\ Placed /\ Memory)'
    BY BlankHolds, PTL
  <2> QED
    BY <2>1, <2>2, <2>3 DEF IInv
<1>4. CASE pc # "written"
  <2>1. Captured' = Captured
    BY <1>2 DEF readerVars, Captured, Entries
  <2>2. ShapeThen
    BY <1>1, <1>2, <1>4 DEF readerVars, Shape, ShapeThen, Bounded, Resident
  <2>3. SwallowsThen
    BY <1>1, <1>2, <2>1 DEF readerVars, Swallows, SwallowsThen
  <2>4. MemoryThen
    BY <1>1, <1>2, <2>1 DEF readerVars, Memory, MemoryThen
  <2>5. Placed'
    BY <1>1, <1>2 DEF readerVars, Placed
  <2> QED
    BY <1>1, <1>2, <2>2, <2>3, <2>4, <2>5, StepHolds
<1> QED
  BY <1>3, <1>4

LEMMA NextHolds ==
    ASSUME IInv, [Next]_vars
    PROVE  IInv'
<1>1. CASE Write
  BY <1>1, WriteKeeps
<1>2. CASE Opens
  BY <1>2, OpensHolds
<1>3. CASE Calls
  BY <1>3, CallsHolds
<1>4. CASE Closes
  BY <1>4, ClosesHolds
<1>5. CASE ChunkEnds
  BY <1>5, ChunkEndsHolds
<1>6. CASE EmitAccepted
  BY <1>6, EmitAcceptedHolds
<1>7. CASE EmitRefused
  BY <1>7, EmitRefusedHolds
<1>8. CASE EvictOpen
  BY <1>8, EvictOpenHolds
<1>9. CASE Save
  BY <1>9, SaveHolds
<1>10. CASE Stop
  BY <1>10, StopHolds
<1>11. CASE FlushAccepted
  BY <1>11, FlushAcceptedHolds
<1>12. CASE Start
  BY <1>12, StartHolds
<1>13. CASE Crash
  BY <1>13, CrashHolds
<1>14. CASE UNCHANGED vars
  BY <1>14, StutterHolds
<1> QED
  BY <1>1, <1>2, <1>3, <1>4, <1>5, <1>6, <1>7, <1>8, <1>9, <1>10, <1>11, <1>12, <1>13, <1>14
     DEF Next, Reducer, Watcher

LEMMA InvariantHolds == Spec => []IInv
<1>1. Init => IInv
  BY InitHolds
<1>2. IInv /\ [Next]_vars => IInv'
  BY NextHolds
<1> QED
  BY <1>1, <1>2, PTL DEF Spec

\* Every variable keeps its shape, and the index of calls its limits, through
\* every capture, save, restart and loss (correlate.go enforceLimits, record).
THEOREM TypeCorrect == Spec => []TypeOK
<1>1. IInv => TypeOK
  <2> SUFFICES ASSUME IInv PROVE TypeOK
    OBVIOUS
  <2>1. Shape /\ Len(log) \in Nat
    BY InvIs
  <2>2. \A e \in EntrySet : EntryOK(e)
    BY DEF EntrySet, EntryOK
  <2>3. \A b \in batch : Range(b.content) \subseteq EntrySet
    BY <2>1 DEF Shape, TurnSet, Range
  <2>4. \A e \in shipped \cup Entries(batch) : e \in EntrySet
    BY <2>1, <2>3 DEF Shape, Entries
  <2>5. \A r \in Resps : open[r].last \in 0..Len(log)
    BY <2>1 DEF Shape, OpenSet
  <2>6. IndexIsBounded
    BY <2>1 DEF Shape, Bounded, IndexIsBounded
  <2> QED
    BY <2>1, <2>2, <2>4, <2>5, <2>6 DEF Shape, TypeOK
<1> QED
  BY <1>1, InvariantHolds, PTL

\* The set of fingerprints holds the SeenSize keys that came by last, and what
\* was captured under each of them is shipped or about to be, unless a sink
\* refused it: no eviction, stop or crash leaves a key without its content
\* (seen.go add, turn.go captureInput).
THEOREM NoKeyWithoutContent == Spec => []NothingSwallowed
<1>1. IInv => NothingSwallowed
  <2> SUFFICES ASSUME IInv PROVE NothingSwallowed
    OBVIOUS
  <2>1. Swallows
    BY InvIs
  <2> QED
    BY <2>1 DEF Swallows, Fits, NothingSwallowed
<1> QED
  BY <1>1, InvariantHolds, PTL

\* The occurrence of an invocation is its number among those of its thread with
\* its id, whichever process captured it and however often it was read again
\* after a crash, until the index drops one of them (correlate.go
\* nextOccurrence).
THEOREM OccurrencesAreRanks == Spec => []OccurrencesCount
<1>1. IInv => OccurrencesCount
  <2> SUFFICES ASSUME IInv, NEW e \in CallEntries, ~rewound, \A p \in dropped : ~SameId(p, e.of)
               PROVE  e.occurrence = 1 + Cardinality(Earlier(e.of))
    BY DEF OccurrencesCount
  <2>1. CountsIn(Captured, dropped)
    BY InvIs DEF Memory
  <2>2. e \in Captured /\ e.key[2] = "call"
    BY DEF CallEntries, Captured
  <2>3. Clean(e.of, dropped)
    BY DEF Clean
  <2> QED
    BY <2>1, <2>2, <2>3 DEF CountsIn, Rank
<1> QED
  BY <1>1, InvariantHolds, PTL

-----------------------------------------------------------------------------
(* What an output is attributed to.                                        *)

LEMMA CallsBring ==
    ASSUME IInv, Calls, NEW x \in NewEntries
    PROVE  x.match = None
<1> DEFINE r == log[pos + 1].resp
           k == CallKey(thread[r], r)
           rcd == Record(calls, thread[r], called[r],
                         [of |-> r, origin |-> IF open[r].named THEN r ELSE 0, at |-> pos + 1])
           e == [Entry(k, r) EXCEPT !.occurrence = rcd.occurrence]
           more == Append(open[r].content, e)
           o == [Opened(r, pos + 1) EXCEPT !.content = IF ~Contains(seen, k) THEN more ELSE open[r].content]
           S == EntrySet \cup {e}
<1>1. open' = [open EXCEPT ![r] = o]
  BY DEF Calls, Opened
<1>2. e.match = None
  BY DEF Entry
<1>3. r \in Resps /\ open \in [Resps -> OpenSet]
  <2>1. ArchiveOK /\ Shape /\ pos \in Nat /\ Len(log) \in Nat /\ pos < Len(log)
    BY InvIs DEF Calls
  <2>2. pos + 1 \in 1..Len(log)
    BY <2>1
  <2> QED
    BY <2>1, <2>2, LogIs DEF ArchiveOK, Shape
<1>4. open[r] \in OpenSet /\ open[r].content \in Seq(EntrySet)
  BY <1>3 DEF OpenSet
<1>5. o.content = IF ~Contains(seen, k) THEN more ELSE open[r].content
  BY <1>4 DEF Opened, OpenSet
<1> HIDE DEF o, e, k, r
<1>6. open[r].content \in Seq(S) /\ e \in S
  <2>1. Seq(EntrySet) \subseteq Seq(S)
    OBVIOUS
  <2> QED
    BY <1>4, <2>1
<1> HIDE DEF S
<1>7. Range(more) = Range(open[r].content) \cup {e}
  BY <1>6, RangeAppend
<1> HIDE DEF more
<1>8. PICK q \in Resps : x \in Range(open'[q].content) \ Range(open[q].content)
  BY DEF NewEntries
<1>9. q = r
  BY <1>1, <1>3, <1>8
<1>10. x \in Range(o.content) \ Range(open[r].content)
  BY <1>1, <1>3, <1>8, <1>9
<1>11. x = e
  BY <1>5, <1>7, <1>10
<1> QED
  BY <1>2, <1>11

LEMMA OpensBring ==
    ASSUME IInv, Opens, NEW x \in NewEntries, x.match # None, x.first, x.of \notin dropped'
    PROVE  /\ x.match = "exact" => x.origin \in {0, x.of}
           /\ ~rewound /\ Only(x.of) => x.match = "exact"
<1>1. PICK r \in Resps, o \in OpenSet : TakesIn(r, o)
  BY OpensIs
<1>2. Shape /\ Memory /\ pos \in Nat
  BY InvIs
<1>3. x \in Range(o.content) \ Range(open[r].content)
  BY <1>1, <1>2, MoreCaptured DEF TakesIn, Shape
<1>4. FromInput(x, calls', pos, rewound) /\ dropped' = dropped \cup (Indexed(calls) \ Indexed(calls'))
  BY <1>1, <1>3 DEF TakesIn
<1>5. x.of \in Resps /\ Read(x.of, pos)
  BY <1>4 DEF FromInput
<1>6. x.of \in dropped \cup Indexed(calls)
  BY <1>2, <1>5 DEF Memory, Holds
<1>7. x.of \in Indexed(calls')
  BY <1>4, <1>6
<1> QED
  BY <1>4, <1>7 DEF FromInput

\* No other step captures anything.
LEMMA OthersBringNothing ==
    ASSUME IInv, [Next]_vars, ~Opens, ~Calls
    PROVE  NewEntries = {}
<1>1. Shape /\ ArchiveOK /\ Len(log) \in Nat /\ pos \in Nat
  BY InvIs
<1>2. open \in [Resps -> OpenSet] /\ Range(Closed.content) = {}
  BY <1>1, ClosedIs DEF Shape
<1>3. \A r \in Resps : open'[r] = open[r] \/ open'[r] = Closed
  <2>1. CASE Write
    BY <2>1 DEF Write, readerVars
  <2>2. CASE Closes
    BY <1>2, <2>2 DEF Closes
  <2>3. CASE ChunkEnds \/ EmitAccepted \/ EmitRefused \/ Save \/ Start
    BY <2>3 DEF ChunkEnds, EmitAccepted, EmitRefused, Save, Start
  <2>4. CASE EvictOpen \/ Stop
    BY <2>4 DEF EvictOpen, Stop, Drained
  <2>5. CASE FlushAccepted \/ Crash
    BY <2>5 DEF FlushAccepted, Crash, Die
  <2>6. CASE UNCHANGED vars
    BY <2>6 DEF vars, readerVars
  <2> QED
    BY <2>1, <2>2, <2>3, <2>4, <2>5, <2>6 DEF Next, Reducer, Watcher
<1>4. \A e : e \notin NewEntries
  BY <1>2, <1>3 DEF NewEntries
<1> QED
  BY <1>4

\* An output is attributed to another invocation than its own only if the index
\* has dropped its own, or if something was captured for its own, or attributed
\* to it, before (correlate.go lookup, turn.go captureInput).
THEOREM OutputsFindTheirOwn == Spec => OriginsAreRight
<1> DEFINE A == \A e \in NewEntries :
                    e.match = "exact" /\ e.first /\ e.origin \notin {0, e.of} => e.of \in dropped'
<1>1. IInv /\ [Next]_vars => [A]_vars
  <2> SUFFICES ASSUME IInv, [Next]_vars, NEW e \in NewEntries, e.match = "exact", e.first,
                      e.origin \notin {0, e.of}, e.of \notin dropped'
               PROVE  FALSE
    OBVIOUS
  <2>1. e.match # None
    BY DEF None
  <2>2. CASE Opens
    BY <2>1, <2>2, OpensBring
  <2>3. CASE Calls
    BY <2>1, <2>3, CallsBring
  <2>4. CASE ~Opens /\ ~Calls
    BY <2>4, OthersBringNothing
  <2> QED
    BY <2>2, <2>3, <2>4
<1>2. Spec => [][A]_vars
  BY <1>1, InvariantHolds, PTL DEF Spec
<1> QED
  BY <1>2 DEF OriginsAreRight

\* An output finds its invocation, also across a stop or a crash between the
\* two, if the id is used once in the thread, the index has not dropped it,
\* and nothing was refused (correlate.go lookup, state.go Calls).
THEOREM OutputsFindOne == Spec => OriginsAreFound
<1> DEFINE A == \A e \in NewEntries :
                    e.match # None /\ e.first /\ ~rewound /\ e.of \notin dropped'
                    /\ (\A r \in Resps : SameId(r, e.of) => r = e.of)
                        => e.match = "exact"
<1>1. IInv /\ [Next]_vars => [A]_vars
  <2> SUFFICES ASSUME IInv, [Next]_vars, NEW e \in NewEntries, e.match # None, e.first, ~rewound,
                      e.of \notin dropped', \A r \in Resps : SameId(r, e.of) => r = e.of
               PROVE  e.match = "exact"
    OBVIOUS
  <2>1. Only(e.of)
    BY DEF Only
  <2>2. CASE Opens
    BY <2>1, <2>2, OpensBring
  <2>3. CASE Calls
    BY <2>3, CallsBring
  <2>4. CASE ~Opens /\ ~Calls
    BY <2>4, OthersBringNothing
  <2> QED
    BY <2>2, <2>3, <2>4
<1>2. Spec => [][A]_vars
  BY <1>1, InvariantHolds, PTL DEF Spec
<1> QED
  BY <1>2 DEF OriginsAreFound
=============================================================================

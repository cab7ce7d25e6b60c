--------------------------- MODULE Service_proofs ---------------------------
(***************************************************************************)
(* Proofs about the service (Service) and the enricher it runs             *)
(* (Enrichment): for any rows, turns, accounts and files, and any choice   *)
(* of the optional parts.                                                  *)
(*                                                                         *)
(* Three invariants of their own, since the parts share no variable that   *)
(* matters to more than one of them: CacheInv of the cache and of what the *)
(* two goroutines carry, EndInv of the way run ends, and ReportInv of what *)
(* the probe and the poller have half done.                                *)
(***************************************************************************)
EXTENDS Service, FiniteSetTheorems, SequenceTheorems, MaximumLemmas

-----------------------------------------------------------------------------
(* The list of the entries, the one used last in front.                    *)

\* A list of the elements of a set, each once.
Lists(l, D) == l \in Seq(Responses) /\ IsInjective(l) /\ ToSet(l) = D

LEMMA ListIs ==
    ASSUME NEW l, NEW D, Lists(l, D)
    PROVE  /\ Len(l) \in Nat /\ DOMAIN l = 1..Len(l)
           /\ IsFiniteSet(D) /\ Cardinality(D) = Len(l)
           /\ \A i \in 1..Len(l) : l[i] \in D /\ l[i] \in Responses
           /\ \A x \in D : \E i \in 1..Len(l) : l[i] = x
           /\ \A i, j \in 1..Len(l) : l[i] = l[j] => i = j
<1>1. l \in Seq(Responses) /\ Len(l) \in Nat /\ DOMAIN l = 1..Len(l)
  BY DEF Lists
<1>2. /\ \A i \in 1..Len(l) : l[i] \in D /\ l[i] \in Responses
      /\ \A x \in D : \E i \in 1..Len(l) : l[i] = x
      /\ \A i, j \in 1..Len(l) : l[i] = l[j] => i = j
  BY <1>1 DEF Lists, ToSet, IsInjective
<1>3. l \in Bijection(1..Len(l), D)
  <2>1. l \in [1..Len(l) -> D]
    BY <1>1, <1>2
  <2>2. l \in Injection(1..Len(l), D)
    BY <1>1, <2>1 DEF Injection, Lists
  <2>3. l \in Surjection(1..Len(l), D)
    BY <1>2, <2>1 DEF Surjection
  <2> QED
    BY <2>2, <2>3 DEF Bijection
<1>4. IsFiniteSet(1..Len(l)) /\ Cardinality(1..Len(l)) = Len(l)
  <2>1. /\ IsFiniteSet(1..Len(l))
        /\ Cardinality(1..Len(l)) = IF 1 > Len(l) THEN 0 ELSE Len(l) - 1 + 1
    BY <1>1, FS_Interval
  <2> QED
    BY <1>1, <2>1
<1>5. IsFiniteSet(D) /\ Cardinality(D) = Cardinality(1..Len(l))
  <2>1. ExistsBijection(1..Len(l), D)
    BY <1>3 DEF ExistsBijection
  <2> QED
    BY <1>4, <2>1, FS_Bijection
<1> QED
  BY <1>1, <1>2, <1>4, <1>5

\* One way to show it.
LEMMA ListOf ==
    ASSUME NEW l \in Seq(Responses), NEW D,
           \A i \in 1..Len(l) : l[i] \in D,
           \A x \in D : \E i \in 1..Len(l) : l[i] = x,
           \A i, j \in 1..Len(l) : l[i] = l[j] => i = j
    PROVE  Lists(l, D)
<1>1. DOMAIN l = 1..Len(l)
  OBVIOUS
<1> QED
  BY <1>1 DEF Lists, ToSet, IsInjective

LEMMA JoinedIs ==
    ASSUME NEW s \in Seq(Responses), NEW t \in Seq(Responses)
    PROVE  /\ s \o t \in Seq(Responses) /\ Len(s \o t) = Len(s) + Len(t)
           /\ \A n \in 1..Len(s) + Len(t) :
                 (s \o t)[n] = IF n <= Len(s) THEN s[n] ELSE t[n - Len(s)]
BY ConcatProperties

\* RemoveFirst takes one element out.
LEMMA RemovedIs ==
    ASSUME NEW l, NEW D, Lists(l, D), NEW r
    PROVE  /\ Lists(RemoveFirst(l, r), D \ {r})
           /\ Len(RemoveFirst(l, r)) = IF r \in D THEN Len(l) - 1 ELSE Len(l)
<1>1. /\ Len(l) \in Nat /\ l \in Seq(Responses)
      /\ \A i \in 1..Len(l) : l[i] \in D /\ l[i] \in Responses
      /\ \A x \in D : \E i \in 1..Len(l) : l[i] = x
      /\ \A i, j \in 1..Len(l) : l[i] = l[j] => i = j
  BY ListIs DEF Lists
<1>2. CASE r \notin D
  <2>1. RemoveFirst(l, r) = l /\ D \ {r} = D
    BY <1>1, <1>2 DEF RemoveFirst
  <2> QED
    BY <1>2, <2>1
<1>3. CASE r \in D
  <2> DEFINE I == {i \in 1..Len(l) : l[i] = r}
             k == Min(I)
             rest == RemoveAt(l, k)
  <2>1. PICK i \in 1..Len(l) : l[i] = r
    BY <1>1, <1>3
  <2>2. I = {i}
    BY <1>1, <2>1
  <2>3. k = i
    BY <2>2 DEF Min
  <2>4. RemoveFirst(l, r) = rest
    <3>1. SelectInSeq(l, LAMBDA v : v = r) = k
      BY <2>2 DEF SelectInSeq
    <3> QED
      BY <2>1, <3>1 DEF RemoveFirst
  <2>5. rest = SubSeq(l, 1, i - 1) \o SubSeq(l, i + 1, Len(l))
    BY <2>3 DEF RemoveAt
  <2> DEFINE low == SubSeq(l, 1, i - 1)
             high == SubSeq(l, i + 1, Len(l))
  <2>6. /\ low \in Seq(Responses) /\ Len(low) = i - 1
        /\ \A n \in 1..i - 1 : low[n] = l[n]
    BY <1>1, <2>1
  <2>7. /\ high \in Seq(Responses) /\ Len(high) = Len(l) - i
        /\ \A n \in 1..Len(l) - i : high[n] = l[n + i]
    BY <1>1, <2>1
  <2> HIDE DEF I, k, rest, low, high
  <2>8. /\ rest \in Seq(Responses) /\ Len(rest) = Len(l) - 1
        /\ \A n \in 1..Len(l) - 1 : rest[n] = IF n < i THEN l[n] ELSE l[n + 1]
    <3>1. rest = low \o high
      BY <2>5 DEF low, high
    <3>2. /\ rest \in Seq(Responses) /\ Len(rest) = Len(l) - 1
          /\ \A n \in 1..Len(l) - 1 : rest[n] = IF n <= i - 1 THEN low[n] ELSE high[n - (i - 1)]
      <4>1. /\ rest \in Seq(Responses) /\ Len(rest) = Len(low) + Len(high)
            /\ \A n \in 1..Len(low) + Len(high) :
                  rest[n] = IF n <= Len(low) THEN low[n] ELSE high[n - Len(low)]
        BY <2>6, <2>7, <3>1, JoinedIs
      <4>2. Len(low) = i - 1 /\ Len(low) + Len(high) = Len(l) - 1
        BY <1>1, <2>1, <2>6, <2>7
      <4> QED
        BY <4>1, <4>2
    <3>3. ASSUME NEW n \in 1..Len(l) - 1
          PROVE  rest[n] = IF n < i THEN l[n] ELSE l[n + 1]
      <4>1. CASE n < i
        <5>1. n \in 1..i - 1 /\ n <= i - 1
          BY <2>1, <4>1
        <5> QED
          BY <2>6, <3>2, <4>1, <5>1
      <4>2. CASE ~(n < i)
        <5>1. n - (i - 1) \in 1..Len(l) - i /\ (n - (i - 1)) + i = n + 1 /\ ~(n <= i - 1)
          BY <1>1, <2>1, <4>2
        <5> QED
          BY <2>7, <3>2, <4>2, <5>1
      <4> QED
        BY <4>1, <4>2
    <3> QED
      BY <3>2, <3>3
  <2> DEFINE from(n) == IF n < i THEN n ELSE n + 1
  <2>9. \A n \in 1..Len(rest) : from(n) \in 1..Len(l) /\ from(n) # i /\ rest[n] = l[from(n)]
    BY <1>1, <2>1, <2>8
  <2>10. \A m, n \in 1..Len(rest) : from(m) = from(n) => m = n
    BY <1>1, <2>1, <2>8
  <2>11. ASSUME NEW x \in D \ {r}
         PROVE  \E n \in 1..Len(rest) : rest[n] = x
    <3>1. PICK m \in 1..Len(l) : l[m] = x
      BY <1>1
    <3>2. m # i
      BY <2>1, <3>1
    <3>3. CASE m < i
      <4>1. m \in 1..Len(rest) /\ from(m) = m
        BY <1>1, <2>1, <2>8, <3>3
      <4> QED
        BY <2>9, <3>1, <4>1
    <3>4. CASE m > i
      <4>1. m - 1 \in 1..Len(rest) /\ from(m - 1) = m
        BY <1>1, <2>1, <2>8, <3>4
      <4> QED
        BY <2>9, <3>1, <4>1
    <3> QED
      BY <2>1, <3>2, <3>3, <3>4
  <2> HIDE DEF from
  <2>12. \A n \in 1..Len(rest) : rest[n] \in D \ {r}
    BY <1>1, <2>1, <2>9
  <2>13. ASSUME NEW m \in 1..Len(rest), NEW n \in 1..Len(rest), rest[m] = rest[n]
         PROVE  m = n
    <3>1. from(m) \in 1..Len(l) /\ from(n) \in 1..Len(l) /\ l[from(m)] = l[from(n)]
      BY <2>9, <2>13
    <3>2. from(m) = from(n)
      BY <1>1, <3>1
    <3> QED
      BY <2>10, <3>2
  <2>14. rest \in Seq(Responses)
    BY <2>8
  <2>15. Lists(rest, D \ {r})
    BY <2>11, <2>12, <2>13, <2>14, ListOf
  <2> QED
    BY <1>3, <2>4, <2>8, <2>15
<1> QED
  BY <1>2, <1>3

LEMMA InFrontIs ==
    ASSUME NEW l, NEW D, Lists(l, D), NEW r \in Responses
    PROVE  /\ Lists(ToFront(l, r), D \cup {r})
           /\ Len(ToFront(l, r)) = IF r \in D THEN Len(l) ELSE Len(l) + 1
           /\ ToFront(l, r)[1] = r
<1> DEFINE rest == RemoveFirst(l, r)
           front == ToFront(l, r)
<1>1. Lists(rest, D \ {r}) /\ Len(rest) = IF r \in D THEN Len(l) - 1 ELSE Len(l)
  BY RemovedIs
<1> HIDE DEF rest
<1>2. /\ Len(rest) \in Nat /\ rest \in Seq(Responses) /\ Len(l) \in Nat
      /\ \A i \in 1..Len(rest) : rest[i] \in D \ {r}
      /\ \A x \in D \ {r} : \E i \in 1..Len(rest) : rest[i] = x
      /\ \A i, j \in 1..Len(rest) : rest[i] = rest[j] => i = j
  BY <1>1, ListIs DEF Lists
<1>3. front = <<r>> \o rest
  BY DEF ToFront, rest
<1> HIDE DEF front
<1>4. <<r>> \in Seq(Responses) /\ Len(<<r>>) = 1 /\ <<r>>[1] = r
  OBVIOUS
<1>5. /\ front \in Seq(Responses) /\ Len(front) = Len(rest) + 1 /\ front[1] = r
      /\ \A i \in 2..Len(front) : front[i] = rest[i - 1] /\ i - 1 \in 1..Len(rest)
  <2>1. /\ front \in Seq(Responses) /\ Len(front) = 1 + Len(rest)
        /\ \A i \in 1..1 + Len(rest) :
              front[i] = IF i <= 1 THEN <<r>>[i] ELSE rest[i - 1]
    BY <1>2, <1>3, <1>4, ConcatProperties
  <2>2. front[1] = r
    BY <1>2, <1>4, <2>1
  <2>3. \A i \in 2..Len(front) : ~(i <= 1) /\ i \in 1..1 + Len(rest) /\ i - 1 \in 1..Len(rest)
    BY <1>2, <2>1
  <2> QED
    BY <1>2, <2>1, <2>2, <2>3
<1>6. \A i \in 1..Len(front) : i = 1 \/ i \in 2..Len(front)
  BY <1>2, <1>5
<1>7. \A i \in 1..Len(front) : front[i] \in D \cup {r}
  BY <1>2, <1>5, <1>6
<1>8. ASSUME NEW x \in D \cup {r}
      PROVE  \E i \in 1..Len(front) : front[i] = x
  <2>1. CASE x = r
    BY <1>2, <1>5, <2>1
  <2>2. CASE x \in D \ {r}
    <3>1. PICK i \in 1..Len(rest) : rest[i] = x
      BY <1>2, <2>2
    <3>2. i + 1 \in 2..Len(front) /\ (i + 1) - 1 = i /\ i + 1 \in 1..Len(front)
      BY <1>2, <1>5
    <3> QED
      BY <1>5, <3>1, <3>2
  <2> QED
    BY <2>1, <2>2
<1>9. ASSUME NEW i \in 1..Len(front), NEW j \in 1..Len(front), front[i] = front[j]
      PROVE  i = j
  <2>1. ASSUME NEW n \in 2..Len(front)
        PROVE  front[n] # r
    <3>1. front[n] = rest[n - 1] /\ n - 1 \in 1..Len(rest)
      BY <1>5
    <3> QED
      BY <1>2, <3>1
  <2>2. CASE i \in 2..Len(front) /\ j \in 2..Len(front)
    <3>1. i - 1 = j - 1
      BY <1>2, <1>5, <1>9, <2>2
    <3> QED
      BY <2>2, <3>1
  <2> QED
    BY <1>5, <1>6, <1>9, <2>1, <2>2
<1>10. Lists(front, D \cup {r})
  BY <1>5, <1>7, <1>8, <1>9, ListOf
<1>11. Len(front) = IF r \in D THEN Len(l) ELSE Len(l) + 1
  BY <1>1, <1>2, <1>5
<1> QED
  BY <1>5, <1>10, <1>11 DEF front

LEMMA FrontIs ==
    ASSUME NEW l, NEW D, Lists(l, D), Len(l) > 0
    PROVE  /\ Last(l) \in D /\ Lists(Front(l), D \ {Last(l)})
           /\ Len(Front(l)) = Len(l) - 1
<1>1. /\ Len(l) \in Nat \ {0} /\ l \in Seq(Responses)
      /\ \A i \in 1..Len(l) : l[i] \in D
      /\ \A x \in D : \E i \in 1..Len(l) : l[i] = x
      /\ \A i, j \in 1..Len(l) : l[i] = l[j] => i = j
  BY ListIs DEF Lists
<1> DEFINE front == Front(l)
<1>2. /\ front \in Seq(Responses) /\ Len(front) = Len(l) - 1
      /\ \A i \in 1..Len(l) - 1 : front[i] = l[i]
  <2>1. front = SubSeq(l, 1, Len(l) - 1)
    BY DEF Front
  <2> HIDE DEF front
  <2>2. \A i \in 1..Len(l) - 1 : l[i] \in Responses
    BY <1>1
  <2>3. 1 \in Int /\ Len(l) - 1 \in Int
    BY <1>1
  <2>4. /\ front \in Seq(Responses)
        /\ Len(front) = IF 1 <= Len(l) - 1 THEN (Len(l) - 1) - 1 + 1 ELSE 0
        /\ \A i \in 1..(Len(l) - 1) - 1 + 1 : front[i] = l[1 + i - 1]
    BY <2>1, <2>2, <2>3, SubSeqProperties
  <2>5. Len(front) = Len(l) - 1
    <3>1. Len(l) \in Nat /\ Len(l) >= 1
      BY <1>1
    <3>2. CASE Len(l) = 1
      BY <2>4, <3>2
    <3>3. CASE Len(l) > 1
      <4>1. 1 <= Len(l) - 1 /\ (Len(l) - 1) - 1 + 1 = Len(l) - 1
        BY <3>1, <3>3
      <4> QED
        BY <2>4, <4>1
    <3>4. \A n \in Nat : n >= 1 => n = 1 \/ n > 1
      OBVIOUS
    <3> QED
      BY <3>1, <3>2, <3>3, <3>4
  <2>6. ASSUME NEW i \in 1..Len(l) - 1
        PROVE  front[i] = l[i]
    <3>1. i \in 1..(Len(l) - 1) - 1 + 1 /\ 1 + i - 1 = i
      BY <1>1
    <3> QED
      BY <2>4, <3>1
  <2> QED
    BY <2>4, <2>5, <2>6
<1>3. Last(l) = l[Len(l)] /\ Len(l) \in 1..Len(l)
  BY <1>1 DEF Last
<1> HIDE DEF front
<1>4. \A i \in 1..Len(front) : i \in 1..Len(l) /\ i # Len(l) /\ front[i] = l[i]
  BY <1>1, <1>2
<1>5. \A i \in 1..Len(front) : front[i] \in D \ {Last(l)}
  BY <1>1, <1>3, <1>4
<1>6. \A x \in D \ {Last(l)} : \E i \in 1..Len(front) : front[i] = x
  <2>1. \A i \in 1..Len(l) : i = Len(l) \/ i \in 1..Len(front)
    BY <1>1, <1>2
  <2> QED
    BY <1>1, <1>3, <1>4, <2>1
<1>7. \A i, j \in 1..Len(front) : front[i] = front[j] => i = j
  BY <1>1, <1>4
<1>8. Lists(front, D \ {Last(l)})
  BY <1>2, <1>5, <1>6, <1>7, ListOf
<1>9. Last(l) \in D
  BY <1>1, <1>3
<1> QED
  BY <1>2, <1>8, <1>9 DEF front

-----------------------------------------------------------------------------
(* The cache.                                                              *)

Rows == [resp : Responses, alias : Requests \cup {None}]

\* The rows, each id of which is used once.
LogIs == log \in [DOMAIN log -> Rows]

Entries == [row : DOMAIN log, alias : Requests \cup {None}]

\* Both indexes and the list are of the same entries, each entry has a row of
\* its response and an alias some row of the response was logged under.
Agrees(c) ==
    /\ c = [byResponse |-> c.byResponse, byArchive |-> c.byArchive, lru |-> c.lru]
    /\ DOMAIN c.byResponse \subseteq Responses
    /\ c.byResponse \in [DOMAIN c.byResponse -> Entries]
    /\ c.byArchive \in [DOMAIN c.byArchive -> Responses]
    /\ DOMAIN c.byArchive \subseteq Requests
    /\ Lists(c.lru, DOMAIN c.byResponse)
    /\ \A resp \in DOMAIN c.byResponse :
          LET entry == c.byResponse[resp]
          IN  /\ log[entry.row].resp = resp
              /\ \/ entry.alias = None
                 \/ \E id \in DOMAIN log : log[id] = [resp |-> resp, alias |-> entry.alias]
    /\ \A alias \in DOMAIN c.byArchive :
          /\ c.byArchive[alias] \in DOMAIN c.byResponse
          /\ c.byResponse[c.byArchive[alias]].alias = alias

Fits(c) == Len(c.lru) <= CacheEntries

\* An entry goes from both indexes and the list.
LEMMA EvictedAgrees ==
    ASSUME NEW c, Agrees(c), Len(c.lru) <= CacheEntries + 1
    PROVE  Agrees(Evicted(c)) /\ Fits(Evicted(c))
<1> DEFINE D == DOMAIN c.byResponse
           old == Last(c.lru)
           alias == c.byResponse[old].alias
           less == [byResponse |-> Drop(c.byResponse, old), byArchive |-> Drop(c.byArchive, alias),
                    lru |-> Front(c.lru)]
<1>1. Cardinality(D) = Len(c.lru) /\ Len(c.lru) \in Nat /\ Lists(c.lru, D)
  BY ListIs DEF Agrees
<1>2. CacheEntries \in Nat \ {0}
  BY EnrichAssumption
<1>3. CASE Cardinality(D) <= CacheEntries
  BY <1>1, <1>3 DEF Evicted, Fits
<1>4. CASE ~(Cardinality(D) <= CacheEntries)
  <2>1. Evicted(c) = less
    BY <1>4 DEF Evicted
  <2>2. Len(c.lru) > 0 /\ Len(c.lru) = CacheEntries + 1
    BY <1>1, <1>2, <1>4
  <2>3. /\ old \in D /\ Lists(Front(c.lru), D \ {old})
        /\ Len(Front(c.lru)) = Len(c.lru) - 1
    BY <1>1, <2>2, FrontIs
  <2>4. Fits(less)
    BY <1>2, <2>2, <2>3 DEF Fits
  <2>5. /\ Drop(c.byResponse, old) \in [D \ {old} -> Entries]
        /\ DOMAIN Drop(c.byResponse, old) = D \ {old}
        /\ \A r \in D \ {old} : Drop(c.byResponse, old)[r] = c.byResponse[r]
    <3>1. c.byResponse \in [D -> Entries]
      BY DEF Agrees
    <3>2. Drop(c.byResponse, old) = [r \in D \ {old} |-> c.byResponse[r]]
      BY <3>1 DEF Drop
    <3> HIDE DEF D, old
    <3> QED
      BY <3>1, <3>2
  <2>6. /\ Drop(c.byArchive, alias) \in [DOMAIN c.byArchive \ {alias} -> Responses]
        /\ DOMAIN Drop(c.byArchive, alias) = DOMAIN c.byArchive \ {alias}
        /\ \A a \in DOMAIN c.byArchive \ {alias} : Drop(c.byArchive, alias)[a] = c.byArchive[a]
    <3>1. c.byArchive \in [DOMAIN c.byArchive -> Responses]
      BY DEF Agrees
    <3>2. Drop(c.byArchive, alias) = [a \in DOMAIN c.byArchive \ {alias} |-> c.byArchive[a]]
      BY DEF Drop
    <3> HIDE DEF alias
    <3> QED
      BY <3>1, <3>2
  <2>7. \A a \in DOMAIN c.byArchive \ {alias} :
            c.byArchive[a] \in D \ {old} /\ c.byResponse[c.byArchive[a]].alias = a
    BY DEF Agrees
  <2> HIDE DEF alias, old
  <2>8. Agrees(less)
    <3>1. /\ less.byResponse = Drop(c.byResponse, old) /\ less.byArchive = Drop(c.byArchive, alias)
          /\ less.lru = Front(c.lru)
          /\ less = [byResponse |-> less.byResponse, byArchive |-> less.byArchive,
                     lru |-> less.lru]
      OBVIOUS
    <3> HIDE DEF less
    <3>2. /\ DOMAIN less.byResponse \subseteq Responses
          /\ less.byResponse \in [DOMAIN less.byResponse -> Entries]
          /\ less.byArchive \in [DOMAIN less.byArchive -> Responses]
          /\ DOMAIN less.byArchive \subseteq Requests
      BY <2>5, <2>6, <3>1 DEF Agrees
    <3>3. Lists(less.lru, DOMAIN less.byResponse)
      BY <2>3, <2>5, <3>1
    <3>4. ASSUME NEW r \in DOMAIN less.byResponse
          PROVE  /\ log[less.byResponse[r].row].resp = r
                 /\ \/ less.byResponse[r].alias = None
                    \/ \E id \in DOMAIN log :
                          log[id] = [resp |-> r, alias |-> less.byResponse[r].alias]
      <4>1. r \in D /\ less.byResponse[r] = c.byResponse[r]
        BY <2>5, <3>1
      <4> QED
        BY <4>1 DEF Agrees
    <3>5. \A a \in DOMAIN less.byArchive :
              /\ less.byArchive[a] \in DOMAIN less.byResponse
              /\ less.byResponse[less.byArchive[a]].alias = a
      BY <2>5, <2>6, <2>7, <3>1
    <3> QED
      BY <3>1, <3>2, <3>3, <3>4, <3>5 DEF Agrees
  <2> QED
    BY <2>1, <2>4, <2>8
<1> QED
  BY <1>3, <1>4

\* What is stored is found under its response, and under its alias if it has one.
LEMMA StoredAgrees ==
    ASSUME NEW c, Agrees(c), Fits(c), LogIs, NEW id \in DOMAIN log, NEW withAlias \in BOOLEAN
    PROVE  Agrees(Stored(c, id, withAlias)) /\ Fits(Stored(c, id, withAlias))
<1> DEFINE D     == DOMAIN c.byResponse
           resp  == log[id].resp
           old   == IF resp \in D THEN c.byResponse[resp].alias ELSE None
           alias == IF withAlias THEN log[id].alias ELSE old
           rest  == IF alias # old THEN Drop(c.byArchive, old) ELSE c.byArchive
           entry == [row |-> id, alias |-> alias]
           more  == [byResponse |-> With(c.byResponse, resp, entry),
                     byArchive  |-> IF alias = None THEN rest ELSE With(rest, alias, resp),
                     lru        |-> ToFront(c.lru, resp)]
<1>1. log[id] \in Rows /\ resp \in Responses /\ log[id].alias \in Requests \cup {None}
  BY DEF LogIs, Rows
<1>2. Stored(c, id, withAlias) = Evicted(more)
  BY <1>1, EnrichAssumption DEF Stored
<1>3. /\ Lists(c.lru, D) /\ D \subseteq Responses /\ c.byResponse \in [D -> Entries]
      /\ c.byArchive \in [DOMAIN c.byArchive -> Responses] /\ DOMAIN c.byArchive \subseteq Requests
      /\ Len(c.lru) \in Nat /\ Len(c.lru) <= CacheEntries /\ CacheEntries \in Nat
  BY ListIs, EnrichAssumption DEF Agrees, Fits
<1>4. old \in Requests \cup {None} /\ alias \in Requests \cup {None}
  BY <1>1, <1>3 DEF Entries
<1>5. entry \in Entries /\ entry.row = id /\ entry.alias = alias
  BY <1>4 DEF Entries
<1>6. /\ \/ alias = None
         \/ \E n \in DOMAIN log : log[n] = [resp |-> resp, alias |-> alias]
  <2>1. CASE withAlias
    <3>1. log[id] = [resp |-> resp, alias |-> log[id].alias]
      BY <1>1 DEF Rows
    <3> QED
      BY <2>1, <3>1
  <2>2. CASE ~withAlias /\ resp \in D
    <3>1. alias = c.byResponse[resp].alias
      BY <2>2
    <3> QED
      BY <2>2, <3>1 DEF Agrees
  <2>3. CASE ~withAlias /\ resp \notin D
    BY <2>3
  <2> QED
    BY <2>1, <2>2, <2>3
\* What is left of the aliases leads to entries that keep theirs.
<1>7. /\ rest \in [DOMAIN rest -> Responses] /\ DOMAIN rest \subseteq DOMAIN c.byArchive
      /\ \A a \in DOMAIN rest : rest[a] = c.byArchive[a]
      /\ \A a \in DOMAIN rest : rest[a] = resp => a = alias
  <2>1. CASE alias # old
    <3>1. /\ rest \in [DOMAIN c.byArchive \ {old} -> Responses]
          /\ DOMAIN rest = DOMAIN c.byArchive \ {old}
          /\ \A a \in DOMAIN c.byArchive \ {old} : rest[a] = c.byArchive[a]
      <4>1. rest = [a \in DOMAIN c.byArchive \ {old} |-> c.byArchive[a]]
        BY <2>1 DEF Drop
      <4> HIDE DEF rest, old
      <4> QED
        BY <1>3, <4>1
    <3> HIDE DEF rest
    <3>2. \A a \in DOMAIN rest : rest[a] # resp
      BY <3>1 DEF Agrees
    <3> QED
      BY <3>1, <3>2
  <2>2. CASE alias = old
    <3>1. rest = c.byArchive
      BY <2>2
    <3> HIDE DEF rest
    <3>2. \A a \in DOMAIN rest : rest[a] = resp => resp \in D /\ c.byResponse[resp].alias = a
      BY <3>1 DEF Agrees
    <3> QED
      BY <1>3, <2>2, <3>1, <3>2
  <2> QED
    BY <2>1, <2>2
<1> HIDE DEF rest, old, alias, resp, entry
<1>8. /\ more.byResponse = With(c.byResponse, resp, entry)
      /\ more.byArchive = IF alias = None THEN rest ELSE With(rest, alias, resp)
      /\ more.lru = ToFront(c.lru, resp)
      /\ more = [byResponse |-> more.byResponse, byArchive |-> more.byArchive, lru |-> more.lru]
  OBVIOUS
<1> HIDE DEF more
<1>9. /\ DOMAIN more.byResponse = D \cup {resp}
      /\ \A r \in D \cup {resp} : more.byResponse[r] = IF r = resp THEN entry ELSE c.byResponse[r]
      /\ more.byResponse \in [D \cup {resp} -> Entries]
  <2>1. more.byResponse
          = [r \in DOMAIN c.byResponse \cup {resp} |-> IF r = resp THEN entry ELSE c.byResponse[r]]
    BY <1>8 DEF With
  <2> QED
    BY <1>3, <1>5, <2>1
<1>10. /\ DOMAIN more.byArchive \subseteq Requests
       /\ more.byArchive \in [DOMAIN more.byArchive -> Responses]
       /\ \A a \in DOMAIN more.byArchive :
             \/ a = alias /\ more.byArchive[a] = resp
             \/ a \in DOMAIN rest /\ more.byArchive[a] = c.byArchive[a]
  <2>1. CASE alias = None
    <3>1. more.byArchive = rest
      BY <1>8, <2>1
    <3> QED
      BY <1>3, <1>7, <3>1
  <2>2. CASE alias # None
    <3>1. /\ more.byArchive = With(rest, alias, resp) /\ alias \in Requests
      BY <1>4, <1>8, <2>2
    <3>2. /\ DOMAIN more.byArchive = DOMAIN rest \cup {alias}
          /\ \A a \in DOMAIN rest \cup {alias} :
                more.byArchive[a] = IF a = alias THEN resp ELSE rest[a]
          /\ more.byArchive \in [DOMAIN rest \cup {alias} -> Responses]
      <4>1. more.byArchive = [a \in DOMAIN rest \cup {alias} |-> IF a = alias THEN resp ELSE rest[a]]
        BY <3>1 DEF With
      <4> QED
        BY <1>1, <1>7, <4>1
    <3> QED
      BY <1>3, <1>7, <3>1, <3>2
  <2> QED
    BY <2>1, <2>2
<1>11. Lists(more.lru, D \cup {resp}) /\ Len(more.lru) <= CacheEntries + 1
  <2>1. /\ Lists(more.lru, D \cup {resp})
        /\ Len(more.lru) = IF resp \in D THEN Len(c.lru) ELSE Len(c.lru) + 1
    <3>1. Lists(c.lru, D) /\ resp \in Responses
      BY <1>1, <1>3
    <3> HIDE DEF D
    <3>2. /\ Lists(ToFront(c.lru, resp), D \cup {resp})
          /\ Len(ToFront(c.lru, resp)) = IF resp \in D THEN Len(c.lru) ELSE Len(c.lru) + 1
      BY <3>1, InFrontIs
    <3> QED
      BY <1>8, <3>2
  <2> QED
    BY <1>3, <2>1
<1>12. ASSUME NEW r \in DOMAIN more.byResponse
       PROVE  /\ log[more.byResponse[r].row].resp = r
              /\ \/ more.byResponse[r].alias = None
                 \/ \E n \in DOMAIN log : log[n] = [resp |-> r, alias |-> more.byResponse[r].alias]
  <2>1. CASE r = resp
    <3>1. more.byResponse[r] = entry
      BY <1>9, <2>1
    <3> QED
      BY <1>5, <1>6, <2>1, <3>1 DEF resp
  <2>2. CASE r # resp
    <3>1. r \in D /\ more.byResponse[r] = c.byResponse[r]
      BY <1>9, <2>2
    <3> QED
      BY <3>1 DEF Agrees
  <2> QED
    BY <2>1, <2>2
<1>13. ASSUME NEW a \in DOMAIN more.byArchive
       PROVE  /\ more.byArchive[a] \in DOMAIN more.byResponse
              /\ more.byResponse[more.byArchive[a]].alias = a
  <2>1. CASE a = alias /\ more.byArchive[a] = resp
    <3>1. more.byResponse[more.byArchive[a]] = entry
      BY <1>9, <2>1
    <3> QED
      BY <1>5, <1>9, <2>1, <3>1
  <2>2. CASE a \in DOMAIN rest /\ more.byArchive[a] = c.byArchive[a]
    <3>1. c.byArchive[a] \in D /\ c.byResponse[c.byArchive[a]].alias = a
      BY <1>7, <2>2 DEF Agrees
    <3>2. CASE c.byArchive[a] = resp
      BY <1>5, <1>7, <1>9, <2>2, <3>2
    <3>3. CASE c.byArchive[a] # resp
      BY <1>9, <2>2, <3>1, <3>3
    <3> QED
      BY <3>2, <3>3
  <2> QED
    BY <1>10, <2>1, <2>2
<1>14. Agrees(more)
  <2>1. DOMAIN more.byResponse \subseteq Responses
    BY <1>1, <1>3, <1>9
  <2>2. more.byResponse \in [DOMAIN more.byResponse -> Entries]
    BY <1>9
  <2>3. Lists(more.lru, DOMAIN more.byResponse)
    BY <1>9, <1>11
  <2> QED
    BY <1>8, <1>10, <1>12, <1>13, <2>1, <2>2, <2>3 DEF Agrees
<1> QED
  BY <1>2, <1>11, <1>14, EvictedAgrees

\* An entry is used.
LEMMA TouchedAgrees ==
    ASSUME Agrees(cache), Fits(cache), NEW resp \in DOMAIN cache.byResponse
    PROVE  Agrees(Touched(resp)) /\ Fits(Touched(resp))
<1> DEFINE D == DOMAIN cache.byResponse
           c == Touched(resp)
<1>1. /\ c = [byResponse |-> cache.byResponse, byArchive |-> cache.byArchive,
              lru |-> ToFront(cache.lru, resp)]
      /\ c.byResponse = cache.byResponse /\ c.byArchive = cache.byArchive
      /\ c.lru = ToFront(cache.lru, resp)
  BY DEF Touched, Agrees
<1>2. Lists(ToFront(cache.lru, resp), D) /\ Len(ToFront(cache.lru, resp)) = Len(cache.lru)
  <2>1. Lists(cache.lru, D) /\ resp \in Responses /\ resp \in D /\ D \cup {resp} = D
    BY DEF Agrees
  <2> HIDE DEF D
  <2>2. /\ Lists(ToFront(cache.lru, resp), D \cup {resp})
        /\ Len(ToFront(cache.lru, resp)) = IF resp \in D THEN Len(cache.lru) ELSE Len(cache.lru) + 1
    BY <2>1, InFrontIs
  <2> QED
    BY <2>1, <2>2
<1> HIDE DEF c
<1>3. Fits(c)
  BY <1>1, <1>2 DEF Fits
<1>4. c = [byResponse |-> c.byResponse, byArchive |-> c.byArchive, lru |-> c.lru]
  BY <1>1
<1>5. Lists(c.lru, DOMAIN c.byResponse)
  BY <1>1, <1>2
<1>6. Agrees(c)
  BY <1>1, <1>4, <1>5 DEF Agrees
<1> QED
  BY <1>3, <1>6 DEF c

-----------------------------------------------------------------------------
(* What the two goroutines carry.                                          *)

\* The ids fetched are of rows, and only fetched rows are merged; the watcher
\* holds a row of the response it asked for; the row attached last is right.
CarriesRows ==
    /\ DOMAIN log \subseteq 1..MaxRows
    /\ fetched \subseteq DOMAIN log
    /\ ppc \in {"fetched", "merging"} => fetched # {}
    /\ asking # Idle =>
          /\ asking.turn \in Turns /\ asking = [turn |-> asking.turn, row |-> asking.row]
          /\ asking.row \in DOMAIN log \cup {0}
          /\ asking.row # 0 => log[asking.row].resp = asking.turn.resp

AttachedIsRight ==
    attached # Idle => attached.row \in DOMAIN log /\ RightRow

CacheInv == LogIs /\ Agrees(cache) /\ Fits(cache) /\ CarriesRows /\ AttachedIsRight

LEMMA CacheInvIsSound ==
    ASSUME CacheInv
    PROVE  CacheIsSound
<1>1. /\ Len(cache.lru) = Cardinality(DOMAIN cache.byResponse)
      /\ Lists(cache.lru, DOMAIN cache.byResponse)
  BY ListIs DEF CacheInv, Agrees
<1>2. IndexesAgree
  BY <1>1 DEF CacheInv, Agrees, Fits, Lists, IndexesAgree
<1>3. RightRow
  BY DEF CacheInv, AttachedIsRight, RightRow
<1> QED
  BY <1>2, <1>3 DEF CacheIsSound

LEMMA CacheStart == Init => CacheInv
<1> SUFFICES ASSUME Init
             PROVE  CacheInv
  OBVIOUS
<1>1. /\ log = <<>> /\ cache = [byResponse |-> <<>>, byArchive |-> <<>>, lru |-> <<>>]
      /\ asking = Idle /\ attached = Idle /\ fetched = {} /\ ppc \in {"idle", "ended"}
  BY DEF Init, EnrichInit
<1>2. DOMAIN log = {} /\ DOMAIN cache.byResponse = {} /\ DOMAIN cache.byArchive = {}
  BY <1>1
<1>3. Lists(cache.lru, DOMAIN cache.byResponse) /\ Len(cache.lru) = 0
  <2>1. cache.lru = <<>> /\ cache.lru \in Seq(Responses) /\ Len(cache.lru) = 0
    BY <1>1
  <2>2. 1..0 = {}
    OBVIOUS
  <2> HIDE <1>1
  <2> QED
    BY <1>2, <2>1, <2>2, ListOf
<1>4. Agrees(cache)
  <2>1. /\ cache.byResponse \in [DOMAIN cache.byResponse -> Entries]
        /\ cache.byArchive \in [DOMAIN cache.byArchive -> Responses]
    BY <1>1
  <2>2. cache = [byResponse |-> cache.byResponse, byArchive |-> cache.byArchive, lru |-> cache.lru]
    BY <1>1
  <2> QED
    BY <1>2, <1>3, <2>1, <2>2 DEF Agrees
<1>5. Fits(cache)
  BY <1>3, EnrichAssumption DEF Fits
<1>6. LogIs
  BY <1>1 DEF LogIs
<1>7. CarriesRows /\ AttachedIsRight
  BY <1>1, <1>2 DEF CarriesRows, AttachedIsRight
<1> QED
  BY <1>4, <1>5, <1>6, <1>7 DEF CacheInv

\* The lowest of the ids fetched, which is merged next.
LEMMA LowestIs ==
    ASSUME NEW S, S \subseteq 1..MaxRows, S # {}
    PROVE  Min(S) \in S
<1>1. S \subseteq Nat
  BY EnrichAssumption
<1>2. PICK n \in S : \A m \in S : n <= m
  BY <1>1, NatHasMinimum
<1>3. \A x \in S : (\A y \in S : x <= y) => x = n
  BY <1>1, <1>2
<1> QED
  BY <1>2, <1>3 DEF Min

\* The rows that can be seen stay what they are.
LogGrows ==
    /\ DOMAIN log \subseteq DOMAIN log'
    /\ \A id \in DOMAIN log : log'[id] = log[id]

\* A cache that agreed with fewer rows agrees with more.
LEMMA AgreesWithMore ==
    ASSUME Agrees(cache), LogGrows, UNCHANGED cache
    PROVE  Agrees(cache)'
<1>1. cache.byResponse \in [DOMAIN cache.byResponse -> Entries']
  <2>1. cache.byResponse \in [DOMAIN cache.byResponse -> Entries]
    BY DEF Agrees
  <2>2. Entries \subseteq Entries'
    BY DEF Entries, LogGrows
  <2> QED
    BY <2>1, <2>2
<1>2. ASSUME NEW resp \in DOMAIN cache.byResponse
      PROVE  /\ log'[cache.byResponse[resp].row].resp = resp
             /\ \/ cache.byResponse[resp].alias = None
                \/ \E id \in DOMAIN log' :
                      log'[id] = [resp |-> resp, alias |-> cache.byResponse[resp].alias]
  <2>1. cache.byResponse[resp].row \in DOMAIN log
    BY DEF Agrees, Entries
  <2>2. log'[cache.byResponse[resp].row].resp = resp
    BY <2>1 DEF Agrees, LogGrows
  <2>3. /\ \/ cache.byResponse[resp].alias = None
           \/ \E id \in DOMAIN log :
                 log[id] = [resp |-> resp, alias |-> cache.byResponse[resp].alias]
    BY DEF Agrees
  <2> QED
    BY <2>2, <2>3 DEF LogGrows
<1> QED
  BY <1>1, <1>2 DEF Agrees

\* A cache that agrees with the same rows.
LEMMA AgreesUnchanged ==
    ASSUME NEW c, Agrees(c), Fits(c), cache' = c, UNCHANGED log
    PROVE  Agrees(cache)' /\ Fits(cache)'
BY DEF Agrees, Fits, Entries

\* Nothing the cache's properties speak of changes.
LEMMA CacheAside ==
    ASSUME CacheInv, UNCHANGED <<log, cache, asking, attached, ppc, fetched>>
    PROVE  CacheInv'
BY DEF CacheInv, LogIs, Agrees, Fits, Entries, CarriesRows, AttachedIsRight, RightRow

\* The watcher's share of the cache: a turn that is found, one that is not, the
\* answer of the database and its storing.
LEMMA HitKeeps ==
    ASSUME CacheInv, NEW t \in Turns, Hit(t)
    PROVE  CacheInv'
<1> DEFINE resp == Cached(t)
<1>1. /\ resp # None /\ cache' = Touched(resp) /\ attached' = [turn |-> t, row |-> cache.byResponse[resp].row]
      /\ UNCHANGED <<log, asking, ppc, fetched>>
  BY DEF Hit, Attach
<1>2. resp \in DOMAIN cache.byResponse
  BY <1>1 DEF Cached, CacheInv, Agrees
<1>3. resp = t.resp \/ cache.byResponse[resp].alias = t.request
  BY <1>1 DEF Cached, CacheInv, Agrees
<1> HIDE DEF resp
<1>4. Agrees(cache)' /\ Fits(cache)'
  BY <1>1, <1>2, TouchedAgrees, AgreesUnchanged DEF CacheInv
<1> DEFINE row == cache.byResponse[resp].row
<1>5. /\ row \in DOMAIN log /\ log[row].resp = resp
      /\ \/ cache.byResponse[resp].alias = None
         \/ \E id \in DOMAIN log : log[id] = [resp |-> resp, alias |-> cache.byResponse[resp].alias]
  BY <1>2 DEF CacheInv, Agrees, Entries
<1>6. attached'.turn = t /\ attached'.row = row
  BY <1>1
<1> HIDE DEF row
<1>7. AttachedIsRight'
  <2>1. CASE resp = t.resp
    BY <1>1, <1>5, <1>6, <2>1 DEF AttachedIsRight, RightRow
  <2>2. CASE resp # t.resp
    <3>1. PICK id \in DOMAIN log : log[id] = [resp |-> resp, alias |-> t.request]
      <4>1. cache.byResponse[resp].alias = t.request /\ t.request # None
        BY <1>1, <1>3, <2>2, EnrichAssumption DEF Cached, CacheInv, Agrees, resp
      <4> QED
        BY <1>5, <4>1
    <3> QED
      BY <1>1, <1>5, <1>6, <3>1 DEF AttachedIsRight, RightRow
  <2> QED
    BY <2>1, <2>2
<1>8. LogIs' /\ CarriesRows'
  BY <1>1 DEF CacheInv, LogIs, CarriesRows
<1> QED
  BY <1>4, <1>7, <1>8 DEF CacheInv

LEMMA NewestIs ==
    ASSUME CacheInv, NEW resp
    PROVE  Newest(resp) = 0 \/ (Newest(resp) \in DOMAIN log /\ log[Newest(resp)].resp = resp)
<1> DEFINE S == {id \in DOMAIN log : log[id].resp = resp} \cup {0}
<1>1. S \in SUBSET (0..MaxRows) /\ S # {} /\ MaxRows \in Nat
  BY EnrichAssumption DEF CacheInv, CarriesRows
<1>2. Max(S) \in S
  <2> HIDE DEF S
  <2> QED
    BY <1>1, MaxIsMember
<1>3. Newest(resp) = Max(S)
  BY DEF Newest
<1> HIDE DEF S
<1>4. Newest(resp) \in S
  BY <1>2, <1>3
<1> QED
  BY <1>4 DEF S

LEMMA AskingKeeps ==
    ASSUME CacheInv, Lookup \/ \E t \in Turns : Miss(t)
    PROVE  CacheInv'
<1>1. UNCHANGED <<log, cache, attached, ppc, fetched>>
  BY DEF Lookup, Miss
<1>2. /\ asking' # Idle =>
          /\ asking'.turn \in Turns /\ asking' = [turn |-> asking'.turn, row |-> asking'.row]
          /\ asking'.row \in DOMAIN log \cup {0}
          /\ asking'.row # 0 => log[asking'.row].resp = asking'.turn.resp
  <2>1. ASSUME NEW t \in Turns, Miss(t)
        PROVE  asking'.turn = t /\ asking'.row = 0 /\ asking' = [turn |-> asking'.turn, row |-> asking'.row]
    BY <2>1 DEF Miss
  <2>2. CASE Lookup
    <3>1. CASE asking' = Idle
      BY <3>1
    <3>2. CASE asking' # Idle
      <4> DEFINE row == Newest(asking.turn.resp)
      <4>1. row # 0 /\ asking' = [asking EXCEPT !.row = row] /\ asking # Idle
        BY <2>2, <3>2 DEF Lookup
      <4>2. row \in DOMAIN log /\ log[row].resp = asking.turn.resp
        BY <4>1, NewestIs
      <4> HIDE DEF row
      <4>3. asking.turn \in Turns /\ asking = [turn |-> asking.turn, row |-> asking.row]
        BY <4>1 DEF CacheInv, CarriesRows
      <4>4. asking' = [turn |-> asking.turn, row |-> row]
        BY <4>1, <4>3
      <4> QED
        BY <4>2, <4>3, <4>4
    <3> QED
      BY <3>1, <3>2
  <2> QED
    BY <2>1, <2>2
<1>3. Agrees(cache)' /\ Fits(cache)'
  BY <1>1, AgreesUnchanged DEF CacheInv
<1>4. LogIs' /\ AttachedIsRight'
  BY <1>1 DEF CacheInv, LogIs, AttachedIsRight, RightRow
<1>5. CarriesRows'
  BY <1>1, <1>2 DEF CacheInv, CarriesRows
<1> QED
  BY <1>3, <1>4, <1>5 DEF CacheInv

LEMMA CacheStoreKeeps ==
    ASSUME CacheInv, CacheStore
    PROVE  CacheInv'
<1>1. /\ asking.row # 0 /\ cache' = Stored(cache, asking.row, FALSE)
      /\ attached' = [turn |-> asking.turn, row |-> asking.row] /\ asking' = Idle
      /\ UNCHANGED <<log, ppc, fetched>>
  BY DEF CacheStore, Attach
<1>2. asking # Idle
  BY <1>1 DEF Idle
<1>3. asking.row \in DOMAIN log /\ log[asking.row].resp = asking.turn.resp
  BY <1>1, <1>2 DEF CacheInv, CarriesRows
<1>4. Agrees(Stored(cache, asking.row, FALSE)) /\ Fits(Stored(cache, asking.row, FALSE))
  BY <1>3, StoredAgrees DEF CacheInv
<1>5. Agrees(cache)' /\ Fits(cache)'
  BY <1>1, <1>4, AgreesUnchanged
<1>6. AttachedIsRight'
  BY <1>1, <1>3 DEF AttachedIsRight, RightRow
<1>7. LogIs' /\ CarriesRows'
  BY <1>1 DEF CacheInv, LogIs, CarriesRows
<1> QED
  BY <1>5, <1>6, <1>7 DEF CacheInv

\* The prefetcher's share.
LEMMA QueryKeeps ==
    ASSUME CacheInv, QueryPrefetch
    PROVE  CacheInv'
<1>1. /\ UNCHANGED <<log, cache, asking, attached>>
      /\ fetched' \in {{}, After(lastID)} /\ ppc' = IF fetched' = {} THEN "idle" ELSE "fetched"
  BY DEF QueryPrefetch
<1>2. fetched' \subseteq DOMAIN log
  BY <1>1 DEF After
<1>3. CarriesRows'
  BY <1>1, <1>2 DEF CacheInv, CarriesRows
<1>4. Agrees(cache)' /\ Fits(cache)'
  BY <1>1, AgreesUnchanged DEF CacheInv
<1>5. LogIs' /\ AttachedIsRight'
  BY <1>1 DEF CacheInv, LogIs, AttachedIsRight, RightRow
<1> QED
  BY <1>3, <1>4, <1>5 DEF CacheInv

LEMMA MergeKeeps ==
    ASSUME CacheInv, MergePrefetch
    PROVE  CacheInv'
<1> DEFINE id == Min(fetched)
<1>1. /\ ppc \in {"fetched", "merging"} /\ cache' = Stored(cache, id, TRUE) /\ fetched' = fetched \ {id}
      /\ ppc' = IF fetched' = {} THEN "idle" ELSE "merging"
      /\ UNCHANGED <<log, asking, attached>>
  BY DEF MergePrefetch
<1>2. fetched # {} /\ fetched \subseteq DOMAIN log /\ fetched \subseteq 1..MaxRows
  BY <1>1 DEF CacheInv, CarriesRows
<1>3. id \in DOMAIN log
  BY <1>2, LowestIs
<1> HIDE DEF id
<1>4. Agrees(Stored(cache, id, TRUE)) /\ Fits(Stored(cache, id, TRUE))
  BY <1>3, StoredAgrees DEF CacheInv
<1>5. Agrees(cache)' /\ Fits(cache)'
  BY <1>1, <1>4, AgreesUnchanged
<1>6. LogIs' /\ AttachedIsRight'
  BY <1>1 DEF CacheInv, LogIs, AttachedIsRight, RightRow
<1>7. CarriesRows'
  BY <1>1, <1>2 DEF CacheInv, CarriesRows
<1> QED
  BY <1>5, <1>6, <1>7 DEF CacheInv

LEMMA LogKeeps ==
    ASSUME CacheInv, NEW id \in 1..MaxRows, NEW row \in Rows, Log(id, row)
    PROVE  CacheInv'
<1>1. /\ id \notin DOMAIN log /\ log' = With(log, id, row)
      /\ UNCHANGED <<cache, asking, attached, ppc, fetched>>
  BY DEF Log
<1>2. DOMAIN log' = DOMAIN log \cup {id} /\ log'[id] = row
  BY <1>1 DEF With
<1>3. LogGrows
  BY <1>1 DEF With, LogGrows
<1>4. LogIs'
  BY <1>1, <1>2, <1>3 DEF CacheInv, LogIs, LogGrows, With
<1>5. Agrees(cache)' /\ Fits(cache)'
  BY <1>1, <1>3, AgreesWithMore DEF CacheInv, Fits
<1>6. CarriesRows'
  BY <1>1, <1>2, <1>3 DEF CacheInv, CarriesRows, LogGrows
<1>7. AttachedIsRight'
  BY <1>1, <1>2, <1>3 DEF CacheInv, AttachedIsRight, RightRow, LogGrows
<1> QED
  BY <1>4, <1>5, <1>6, <1>7 DEF CacheInv

LEMMA CacheSteps == CacheInv /\ [Next]_vars => CacheInv'
<1> SUFFICES ASSUME CacheInv, [Next]_vars
             PROVE  CacheInv'
  OBVIOUS
<1>1. CASE UNCHANGED <<log, cache, asking, attached, ppc, fetched>>
  BY <1>1, CacheAside
<1>2. CASE UNCHANGED vars
  BY <1>1, <1>2 DEF vars, enrichVars
<1>3. CASE Signal \/ Main
  BY <1>1, <1>3 DEF Signal, Main, OpenArchive, StartHealth, StartLive, Stopped, WaitProbe, Unready,
                    Drain, CloseSinks, JoinServers, CloseAll, CloseDone, CloseEnricher, CloseStore,
                    enrichVars
<1>4. CASE Probe \/ Poller \/ AccountsChange \/ \E s \in Servers : ServerFails(s) \/ ServerStops(s)
  BY <1>1, <1>4 DEF Probe, ScanBegins, ScanFinished, ProbeEnds, ScanFile, SkipFile, FileScanned,
                    ProbeAside, Poller, PollBegins, PollReads, Publish, PollEnds, AccountsChange,
                    PollAside, ServerFails, ServerStops, enrichVars
<1>5. CASE Database
  BY <1>4, <1>5, LogKeeps DEF Database, Rows
<1>6. CASE \E t \in Turns : Enrich(t)
  BY <1>6, HitKeeps, AskingKeeps DEF Enrich
<1>7. CASE Lookup \/ CacheStore
  BY <1>7, AskingKeeps, CacheStoreKeeps
<1>8. CASE Prefetcher
  <2>1. CASE AskPrefetch \/ PrefetchEnds
    BY <2>1 DEF AskPrefetch, PrefetchEnds, CacheInv, LogIs, Agrees, Fits, Entries, CarriesRows,
                AttachedIsRight, RightRow
  <2> QED
    BY <1>8, <2>1, QueryKeeps, MergeKeeps DEF Prefetcher
<1> QED
  BY <1>2, <1>3, <1>4, <1>5, <1>6, <1>7, <1>8 DEF Next

\* The cache stays sound while the watcher and the prefetcher take turns with
\* it: its indexes agree, it is no larger than it may be, and a turn gets a row
\* of its response or of its request (enrich.go cacheStoreLocked, cacheLookup).
THEOREM CacheStaysSound == Spec => []CacheIsSound
<1>1. CacheInv => CacheIsSound
  BY CacheInvIsSound
<1> QED
  BY CacheStart, CacheSteps, <1>1, PTL DEF Spec

-----------------------------------------------------------------------------
(* The end of run.                                                         *)

\* The points of run at which the sinks have been drained.
Drained == {"drained", "joining", "returning", "closing", "gone"}

\* Only a watching service has a turn to look up; what closes the store is the
\* last step; a service with its sinks closed returns once its servers are down.
EndInv ==
    /\ server \in [Servers -> {"off", "up", "failed", "down"}]
    /\ main # "watching" => asking = Idle
    /\ storeClosed => ppc = "ended" /\ main = "gone"
    /\ sinks # "open" => main \in Drained
    /\ main \in {"returning", "closing", "gone"} /\ sinks = "closed" =>
          \A s \in Servers : server[s] # "up"

LEMMA EndStart == Init => EndInv
BY DEF Init, EnrichInit, EndInv

LEMMA EndSteps == EndInv /\ [Next]_vars => EndInv'
<1> SUFFICES ASSUME EndInv, [Next]_vars
             PROVE  EndInv'
  OBVIOUS
<1> USE DEF EndInv, Drained
<1>1. CASE UNCHANGED <<server, main, asking, storeClosed, ppc, sinks>>
  BY <1>1
<1>2. CASE UNCHANGED vars
  BY <1>1, <1>2 DEF vars, enrichVars, mainVars
<1>3. CASE Signal \/ (main # "gone" /\ (Probe \/ Poller \/ Database))
  BY <1>1, <1>3 DEF Signal, Probe, ScanBegins, ScanFinished, ProbeEnds, ScanFile, SkipFile,
                    FileScanned, ProbeAside, Poller, PollBegins, PollReads, Publish, PollEnds,
                    Database, AccountsChange, PollAside, Log, Aside, enrichVars, mainVars
<1>4. CASE Main
  <2>1. CASE OpenArchive
    BY <2>1 DEF OpenArchive, Goes, enrichVars
  <2>2. CASE StartHealth
    BY <2>2 DEF StartHealth, Goes, enrichVars
  <2>3. CASE StartLive
    BY <2>3 DEF StartLive, Goes, enrichVars
  <2>4. CASE Stopped
    BY <2>4 DEF Stopped, Goes, enrichVars
  <2>5. CASE WaitProbe \/ Unready \/ Drain \/ CloseSinks
    BY <2>5 DEF WaitProbe, Unready, Drain, CloseSinks, Goes, enrichVars
  <2>6. CASE JoinServers
    BY <2>6 DEF JoinServers, Goes, enrichVars
  <2>7. CASE CloseAll
    BY <2>7 DEF CloseAll, CloseDone, Goes
  <2>8. CASE CloseEnricher
    BY <2>8 DEF CloseEnricher, CloseStore, Goes
  <2> QED
    BY <1>4, <2>1, <2>2, <2>3, <2>4, <2>5, <2>6, <2>7, <2>8 DEF Main
<1>5. CASE \E s \in Servers : ServerFails(s) \/ ServerStops(s)
  BY <1>5 DEF ServerFails, ServerStops, enrichVars
<1>6. CASE main # "gone" /\ \E t \in Turns : Enrich(t)
  BY <1>6 DEF Enrich, Hit, Miss, Aside, mainVars
<1>7. CASE main # "gone" /\ (Lookup \/ CacheStore) /\ Aside
  <2>1. UNCHANGED <<server, main, sinks, storeClosed, ppc>>
    BY <1>7 DEF Lookup, CacheStore, Aside, mainVars
  <2>2. asking # Idle
    <3>1. Lookup => asking # Idle
      BY DEF Lookup
    <3>2. CacheStore => asking.row # 0
      BY DEF CacheStore
    <3>3. Idle.row = 0
      BY DEF Idle
    <3> QED
      BY <1>7, <3>1, <3>2, <3>3
  <2>3. main = "watching" /\ ~storeClosed
    BY <1>7, <2>2
  <2> QED
    BY <2>1, <2>3
<1>8. CASE main # "gone" /\ Prefetcher /\ Aside
  <2>1. UNCHANGED <<server, main, sinks, storeClosed, asking>>
    BY <1>8 DEF Prefetcher, AskPrefetch, QueryPrefetch, MergePrefetch, PrefetchEnds, Aside, mainVars
  <2> QED
    BY <1>8, <2>1
<1> QED
  BY <1>2, <1>3, <1>4, <1>5, <1>6, <1>7, <1>8 DEF Next

\* On every way out of run a store is closed after its last user, and a service
\* that watched leaves with its sinks closed and its servers down (main.go run).
THEOREM RunEndsInOrder == Spec => []EndsInOrder
<1>1. EndInv => EndsInOrder
  BY DEF EndInv, EndsInOrder, Drained
<1> QED
  BY EndStart, EndSteps, <1>1, PTL DEF Spec

-----------------------------------------------------------------------------
(* The reports of the probe and the poller.                                *)

\* A file is left out of a scan only once the probe has been stopped.
ProbeInv ==
    /\ file \in [Files -> {"new", "scanning", "skipped", "merged", "failed"}]
    /\ probe = "scanning" /\ ~stop => \A f \in Files : file[f] # "skipped"
    /\ findings = [of |-> findings.of, error |-> findings.error]
    /\ findings.of \in {{}, Files}

\* Every table read after the first is read of the accounts of the first.
PollInv ==
    /\ reading \in [ToSet(Tables) -> SUBSET Accounts]
    /\ db \subseteq Accounts
    /\ poll = 1 => reading = Unread
    /\ \A table \in ToSet(Tables) : reading[table] \subseteq reading.accounts
    /\ \A table \in ToSet(Tables) : snapshot[table] \subseteq snapshot.accounts

LEMMA TablesAre ==
    /\ ToSet(Tables) = {"accounts", "quotas", "models", "keys"}
    /\ Tables[1] = "accounts" /\ \A n \in 2..4 : Tables[n] \in {"quotas", "models", "keys"}
<1>1. DOMAIN Tables = {1, 2, 3, 4}
  BY DEF Tables
<1>2. Tables[1] = "accounts" /\ Tables[2] = "quotas" /\ Tables[3] = "models" /\ Tables[4] = "keys"
  BY DEF Tables
<1>3. 2..4 = {2, 3, 4}
  OBVIOUS
<1> QED
  BY <1>1, <1>2, <1>3 DEF ToSet

LEMMA ReportStart == Init => ProbeInv /\ PollInv
BY TablesAre DEF Init, ProbeInv, PollInv, Unread

LEMMA ProbeSteps == ProbeInv /\ [Next]_vars => ProbeInv'
<1> SUFFICES ASSUME ProbeInv, [Next]_vars
             PROVE  ProbeInv'
  OBVIOUS
<1> USE DEF ProbeInv
<1>1. CASE UNCHANGED <<file, probe, findings>> /\ stop' \in {stop, TRUE}
  BY <1>1
<1>2. CASE UNCHANGED vars
  BY <1>1, <1>2 DEF vars, probeVars
<1>3. CASE Signal \/ Main
  BY <1>1, <1>3 DEF Signal, Main, OpenArchive, StartHealth, StartLive, Stopped, WaitProbe, Unready,
                    Drain, CloseSinks, JoinServers, CloseAll, CloseEnricher, probeVars
<1>4. CASE Poller \/ Database \/ \E s \in Servers : ServerFails(s) \/ ServerStops(s)
  BY <1>1, <1>4 DEF Poller, PollBegins, PollReads, Publish, PollEnds, PollAside, Database,
                    AccountsChange, Aside, ServerFails, ServerStops, probeVars
<1>5. CASE (\E t \in Turns : Enrich(t)) \/ ((Lookup \/ CacheStore \/ Prefetcher) /\ Aside)
  BY <1>1, <1>5 DEF Enrich, Aside, probeVars
<1>6. CASE ScanBegins
  BY <1>6 DEF ScanBegins, ProbeAside
<1>7. ASSUME NEW f \in Files, ScanFile(f) \/ SkipFile(f) \/ FileScanned(f)
      PROVE  ProbeInv'
  <2>1. UNCHANGED <<probe, stop, findings>>
    BY <1>7 DEF ScanFile, SkipFile, FileScanned, ProbeAside
  <2>2. CASE ScanFile(f)
    BY <2>1, <2>2 DEF ScanFile
  <2>3. CASE SkipFile(f)
    BY <2>1, <2>3 DEF SkipFile
  <2>4. CASE FileScanned(f)
    BY <2>1, <2>4 DEF FileScanned
  <2> QED
    BY <1>7, <2>2, <2>3, <2>4
<1>8. CASE ScanFinished
  <2>1. /\ probe = "scanning" /\ Settled /\ probe' # "scanning" /\ UNCHANGED file
        /\ findings' = IF stop \/ Failed THEN [findings EXCEPT !.error = TRUE]
                       ELSE [of |-> Merged, error |-> FALSE]
    BY <1>8 DEF ScanFinished, ProbeAside
  <2>2. ~stop /\ ~Failed => Merged = Files
    BY <2>1 DEF Settled, Failed, Merged
  <2> QED
    BY <2>1, <2>2
<1>9. CASE ProbeEnds
  BY <1>9 DEF ProbeEnds, ProbeAside
<1> QED
  BY <1>2, <1>3, <1>4, <1>5, <1>6, <1>7, <1>8, <1>9 DEF Next, Probe

LEMMA PollSteps == PollInv /\ [Next]_vars => PollInv'
<1> SUFFICES ASSUME PollInv, [Next]_vars
             PROVE  PollInv'
  OBVIOUS
<1> USE DEF PollInv
<1>1. CASE UNCHANGED <<poll, db, reading, snapshot>>
  BY <1>1
<1>2. CASE UNCHANGED vars
  BY <1>1, <1>2 DEF vars, pollVars
<1>3. CASE Signal \/ Main
  BY <1>1, <1>3 DEF Signal, Main, OpenArchive, StartHealth, StartLive, Stopped, WaitProbe, Unready,
                    Drain, CloseSinks, JoinServers, CloseAll, CloseEnricher, pollVars
<1>4. CASE Probe \/ \E s \in Servers : ServerFails(s) \/ ServerStops(s)
  BY <1>1, <1>4 DEF Probe, ScanBegins, ScanFinished, ProbeEnds, ScanFile, SkipFile, FileScanned,
                    ProbeAside, ServerFails, ServerStops, pollVars
<1>5. CASE \/ \E t \in Turns : Enrich(t)
           \/ (Lookup \/ CacheStore \/ Prefetcher) /\ Aside
           \/ \E id \in 1..MaxRows : \E row \in Rows : Log(id, row) /\ Aside
  BY <1>1, <1>5 DEF Enrich, Aside, pollVars
<1>6. CASE AccountsChange
  BY <1>6 DEF AccountsChange
<1>7. CASE PollBegins
  BY <1>7, TablesAre DEF PollBegins, Unread
<1>8. CASE PollReads
  <2>1. UNCHANGED <<db, snapshot>> /\ poll \in 1..4
    BY <1>8 DEF PollReads
  <2>2. CASE poll' = 0 /\ UNCHANGED reading
    BY <2>1, <2>2
  <2>3. CASE /\ reading' = [reading EXCEPT ![Tables[poll]] = RowsOf(Tables[poll])]
             /\ poll' = poll + 1
    <3>1. poll' # 1
      BY <2>1, <2>3
    <3>2. CASE poll = 1
      <4>1. reading' = [reading EXCEPT !["accounts"] = db] /\ reading = Unread
        BY <2>3, <3>2, TablesAre DEF RowsOf
      <4> QED
        BY <2>1, <3>1, <4>1, TablesAre DEF Unread
    <3>3. CASE poll # 1
      <4>1. poll \in 2..4
        BY <2>1, <3>3
      <4>2. PICK table \in {"quotas", "models", "keys"} : table = Tables[poll]
        BY <4>1, TablesAre
      <4>3. reading' = [reading EXCEPT ![table] = db \cap reading.accounts]
        BY <2>3, <4>2 DEF RowsOf
      <4> QED
        BY <2>1, <3>1, <4>3, TablesAre
    <3> QED
      BY <3>2, <3>3
  <2> QED
    BY <1>8, <2>2, <2>3 DEF PollReads
<1>9. CASE Publish
  BY <1>9 DEF Publish
<1>10. CASE PollEnds
  BY <1>10 DEF PollEnds
<1> QED
  BY <1>2, <1>3, <1>4, <1>5, <1>6, <1>7, <1>8, <1>9, <1>10 DEF Next, Poller, Database, Rows

\* Findings are of a whole archive and a snapshot of one list of accounts, also
\* when the service is stopped during a scan (drift.go ScanArchive) and when
\* accounts go between two queries (poller.go Poll).
THEOREM ReportsAreWhole == Spec => []WholeReports
<1>1. ProbeInv /\ PollInv => WholeReports
  BY DEF ProbeInv, PollInv, WholeReports
<1> QED
  BY ReportStart, ProbeSteps, PollSteps, <1>1, PTL DEF Spec
=============================================================================

-------------------------- MODULE LiveView_proofs --------------------------
(***************************************************************************)
(* Proofs about the live view (LiveView): for any threads, whatever their  *)
(* handshakes say of their parents, any number of clients, and any limits. *)
(*                                                                         *)
(* The inductive invariant IInv has three parts beside the types: the      *)
(* turns of the ring name turns of the threads that spawned theirs         *)
(* (RingInv), the index holds what its threads protect (IndexInv), and the *)
(* views waiting for a client are in order, none newer than the store      *)
(* (SubsInv).                                                              *)
(***************************************************************************)
EXTENDS LiveView, FiniteSetTheorems, SequenceTheorems, MaximumLemmas

TurnRecord ==
    [thread : Threads, id : Nat, at : Nat,
     parentThread : Threads \cup {NoThread}, parentTurn : Nat]

\* The thread that spawned a thread, and the one that spawned that.
Spawners(t) == {Parent[t]} \cup (IF Parent[t] \in Threads THEN {Parent[Parent[t]]} ELSE {})

\* The turns that turns name are of threads that spawned theirs, and no two turns
\* have one id.
LeadsUp(ring, top) ==
    /\ ring \in Seq(TurnRecord)
    /\ \A n \in 1..Len(ring) : ring[n].id \in 1..top /\ ring[n].parentTurn \in 0..top
    /\ \A m, n \in 1..Len(ring) : ring[m].id = ring[n].id => m = n
    /\ \A m, n \in 1..Len(ring) :
          ring[m].id = ring[n].parentTurn => ring[m].thread \in Spawners(ring[n].thread)

RingInv ==
    /\ LeadsUp(turns, made)
    /\ wpc = "emit" => /\ batch \in Seq(TurnRecord) /\ Len(batch) = 2
                       /\ made + 2 <= MaxTurns
                       /\ LeadsUp(turns \o batch, made + 2)

IndexInv == \A t \in threads : Protects(turns, t) \subseteq threads

InOrder(c) ==
    /\ view[c] <= made
    /\ \A i \in 1..Len(queue[c]) : queue[c][i] \in view[c]..made
    /\ \A i, j \in 1..Len(queue[c]) : i <= j => queue[c][i] <= queue[c][j]

SubsInv ==
    /\ queue \in [Clients -> Seq(Nat)]
    /\ closed \in [Clients -> Nat] /\ view \in [Clients -> Nat]
    /\ cpc \in [Clients -> {"gone", "priming", "reading"}]
    /\ \A c \in Clients : /\ mu = c <=> cpc[c] = "priming"
                          /\ cpc[c] # "reading" => c \notin subs
                          /\ cpc[c] = "reading" => InOrder(c)

\* The view a client has or gets last.
Latest(c) == IF queue[c] = <<>> THEN view[c] ELSE queue[c][Len(queue[c])]

LatestIsNewest == wpc # "broadcast" => \A c \in subs \ missed : Latest(c) = made

IInv == TypeOK /\ RingInv /\ IndexInv /\ SubsInv /\ LatestIsNewest

-----------------------------------------------------------------------------
(* The tree.                                                               *)

\* A thread is spawned by one that was there before it.
SpawnsEnd ==
    \E depth \in [Threads -> Nat] :
        \A t \in Threads : Parent[t] \in Threads => depth[Parent[t]] < depth[t]

Deep == CHOOSE depth \in [Threads -> Nat] :
            \A t \in Threads : Parent[t] \in Threads => depth[Parent[t]] < depth[t]

LEMMA DeepIs ==
    ASSUME SpawnsEnd
    PROVE  /\ \A t \in Threads : Deep[t] \in Nat
           /\ \A t \in Threads, u \in Threads : u \in Spawners(t) => Deep[u] < Deep[t]
<1>1. /\ Deep \in [Threads -> Nat]
      /\ \A t \in Threads : Parent[t] \in Threads => Deep[Parent[t]] < Deep[t]
  BY DEF Deep, SpawnsEnd
<1>2. ASSUME NEW t \in Threads, NEW u \in Threads, u \in Spawners(t)
      PROVE  Deep[u] < Deep[t]
  <2>1. CASE u = Parent[t]
    BY <1>1, <2>1
  <2>2. CASE Parent[t] \in Threads /\ u = Parent[Parent[t]]
    <3>1. Deep[u] < Deep[Parent[t]] /\ Deep[Parent[t]] < Deep[t]
      BY <1>1, <2>2
    <3>2. Deep[u] \in Nat /\ Deep[Parent[t]] \in Nat /\ Deep[t] \in Nat
      BY <1>1, <2>2
    <3> QED
      BY <3>1, <3>2
  <2> QED
    BY <1>2, <2>1, <2>2 DEF Spawners
<1> QED
  BY <1>1, <1>2

\* What a new turn names is a turn of the ring, of a thread that spawned its own.
LEMMA NewTurnIs ==
    ASSUME NEW top \in Nat, NEW ring, LeadsUp(ring, top), NEW id \in Nat,
           now \in Nat, NEW turn \in TurnsToCome(ring, id)
    PROVE  /\ turn \in TurnRecord /\ turn.id = id
           /\ \/ turn.parentTurn = 0
              \/ \E n \in 1..Len(ring) : /\ turn.parentTurn = ring[n].id
                                         /\ ring[n].thread \in Spawners(turn.thread)
<1>1. PICK t \in Threads : \E at \in 1..now, by \in Said(ring, t) :
          turn = [thread |-> t, id |-> id, at |-> at, parentThread |-> by[1], parentTurn |-> by[2]]
  BY DEF TurnsToCome
<1>2. PICK at \in 1..now, by \in Said(ring, t) :
          turn = [thread |-> t, id |-> id, at |-> at, parentThread |-> by[1], parentTurn |-> by[2]]
  BY <1>1
<1>3. \A u \in Threads : Parent[u] \in Threads \cup {NoThread}
  BY LiveAssumption
<1>4. /\ by[1] \in Threads \cup {NoThread}
      /\ \/ by[2] \in IdsOf(ring, Parent[t])
         \/ by[2] = 0
         \/ Parent[t] \in Threads /\ by[2] \in IdsOf(ring, Parent[Parent[t]])
  <2>1. CASE by \in Spawned(ring, t)
    BY <1>3, <2>1 DEF Spawned
  <2>2. CASE by \in Handshakes[t] \X IdsOf(ring, Parent[t])
    BY <1>3, <2>2, LiveAssumption
  <2> QED
    BY <2>1, <2>2 DEF Said
<1>5. ASSUME NEW u, by[2] \in IdsOf(ring, u), by[2] # 0
      PROVE  \E n \in 1..Len(ring) : by[2] = ring[n].id /\ ring[n].thread = u
  <2>1. PICK n \in DOMAIN ring : by[2] = ring[n].id /\ ring[n].thread = u
    BY <1>5 DEF IdsOf, TurnsOf
  <2>2. n \in 1..Len(ring)
    BY <2>1 DEF LeadsUp
  <2> QED
    BY <2>1, <2>2
<1>6. ASSUME by[2] # 0
      PROVE  \E n \in 1..Len(ring) : by[2] = ring[n].id /\ ring[n].thread \in Spawners(t)
  <2>1. PICK u \in Spawners(t) : by[2] \in IdsOf(ring, u)
    BY <1>4, <1>6 DEF Spawners
  <2> QED
    BY <1>5, <1>6, <2>1
<1>7. by[2] \in Nat
  <2>1. \A n \in 1..Len(ring) : ring[n].id \in Nat
    BY DEF LeadsUp
  <2> QED
    BY <1>6, <2>1
<1>8. at \in Nat
  OBVIOUS
<1>9. turn \in TurnRecord
  BY <1>2, <1>4, <1>7, <1>8 DEF TurnRecord
<1>10. turn.id = id /\ turn.thread = t /\ turn.parentTurn = by[2]
  BY <1>2
<1> QED
  BY <1>6, <1>9, <1>10

LEMMA AppendedLeadsUp ==
    ASSUME NEW top \in Nat, NEW ring, LeadsUp(ring, top), now \in Nat,
           NEW turn \in TurnsToCome(ring, top + 1)
    PROVE  LeadsUp(Append(ring, turn), top + 1)
<1> DEFINE longer == Append(ring, turn)
<1>1. /\ turn \in TurnRecord /\ turn.id = top + 1
      /\ \/ turn.parentTurn = 0
         \/ \E n \in 1..Len(ring) : /\ turn.parentTurn = ring[n].id
                                    /\ ring[n].thread \in Spawners(turn.thread)
  BY NewTurnIs
<1>2. ring \in Seq(TurnRecord) /\ Len(ring) \in Nat
  BY DEF LeadsUp
<1>3. /\ longer \in Seq(TurnRecord) /\ Len(longer) = Len(ring) + 1
      /\ longer[Len(ring) + 1] = turn
      /\ \A n \in 1..Len(ring) : longer[n] = ring[n]
  BY <1>1, <1>2
<1>4. \A n \in 1..Len(longer) : n \in 1..Len(ring) \/ n = Len(ring) + 1
  BY <1>2, <1>3
<1>5. /\ \A n \in 1..Len(ring) : ring[n].id \in 1..top /\ ring[n].parentTurn \in 0..top
      /\ \A m, n \in 1..Len(ring) : ring[m].id = ring[n].id => m = n
      /\ \A m, n \in 1..Len(ring) :
            ring[m].id = ring[n].parentTurn => ring[m].thread \in Spawners(ring[n].thread)
  BY DEF LeadsUp
<1> HIDE DEF longer
<1>6. \A n \in 1..Len(longer) : longer[n].id \in 1..top + 1
  BY <1>1, <1>3, <1>4, <1>5
<1>7. \A n \in 1..Len(longer) : longer[n].parentTurn \in 0..top + 1
  <2>1. turn.parentTurn \in 0..top
    BY <1>1, <1>5
  <2> QED
    BY <1>3, <1>4, <1>5, <2>1
<1>8. ASSUME NEW m \in 1..Len(longer), NEW n \in 1..Len(longer), longer[m].id = longer[n].id
      PROVE  m = n
  <2>1. \A k \in 1..Len(ring) : longer[k].id # top + 1
    <3>1. \A k \in 1..Len(ring) : longer[k].id = ring[k].id
      BY <1>3
    <3>2. \A k \in 1..Len(ring) : ring[k].id \in 1..top
      BY <1>5
    <3> QED
      BY <3>1, <3>2
  <2> QED
    BY <1>1, <1>3, <1>4, <1>5, <1>8, <2>1
<1>9. ASSUME NEW m \in 1..Len(longer), NEW n \in 1..Len(longer),
             longer[m].id = longer[n].parentTurn
      PROVE  longer[m].thread \in Spawners(longer[n].thread)
  <2>1. turn.parentTurn \in 0..top
    BY <1>1, <1>5
  <2>2. m \in 1..Len(ring)
    <3>1. longer[n].parentTurn # top + 1
      BY <1>3, <1>4, <1>5, <2>1
    <3> QED
      BY <1>1, <1>3, <1>4, <1>9, <3>1
  <2>3. CASE n \in 1..Len(ring)
    BY <1>3, <1>5, <1>9, <2>2, <2>3
  <2>4. CASE n = Len(ring) + 1
    <3>1. ring[m].id = turn.parentTurn
      BY <1>3, <1>9, <2>2, <2>4
    <3>2. PICK k \in 1..Len(ring) : /\ turn.parentTurn = ring[k].id
                                    /\ ring[k].thread \in Spawners(turn.thread)
      <4>1. turn.parentTurn # 0
        BY <1>5, <2>2, <3>1
      <4> QED
        BY <1>1, <4>1
    <3>3. k = m
      BY <1>5, <2>2, <3>1, <3>2
    <3> QED
      BY <1>3, <2>2, <2>4, <3>2, <3>3
  <2> QED
    BY <1>4, <2>3, <2>4
<1> QED
  BY <1>3, <1>6, <1>7, <1>8, <1>9 DEF LeadsUp, longer

LEMMA TrimmedLeadsUp ==
    ASSUME NEW top \in Nat, NEW ring, LeadsUp(ring, top)
    PROVE  LeadsUp(Trimmed(ring), top) /\ Len(Trimmed(ring)) <= RetainTurns
<1>1. ring \in Seq(TurnRecord) /\ Len(ring) \in Nat /\ RetainTurns \in Nat
  BY LiveAssumption DEF LeadsUp
<1>2. CASE Len(ring) > RetainTurns
  <2> DEFINE drop == Len(ring) - RetainTurns
             rest == Trimmed(ring)
  <2>1. drop \in Nat /\ drop + 1 \in 1..Len(ring) + 1 /\ rest = SubSeq(ring, drop + 1, Len(ring))
    BY <1>1, <1>2 DEF Trimmed
  <2>2. /\ rest \in Seq(TurnRecord) /\ Len(rest) = RetainTurns
        /\ \A n \in 1..RetainTurns : rest[n] = ring[n + drop]
    BY <1>1, <2>1
  <2>3. \A n \in 1..RetainTurns : n + drop \in 1..Len(ring)
    BY <1>1, <2>1
  <2>4. \A m, n \in 1..RetainTurns : m + drop = n + drop => m = n
    BY <1>1, <2>1
  <2> HIDE DEF drop, rest
  <2>5. \A n \in 1..Len(rest) : n + drop \in 1..Len(ring) /\ rest[n] = ring[n + drop]
    BY <2>2, <2>3
  <2>6. \A n \in 1..Len(rest) : rest[n].id \in 1..top /\ rest[n].parentTurn \in 0..top
    BY <2>5 DEF LeadsUp
  <2>7. ASSUME NEW m \in 1..Len(rest), NEW n \in 1..Len(rest), rest[m].id = rest[n].id
        PROVE  m = n
    <3>1. ring[m + drop].id = ring[n + drop].id
      BY <2>5, <2>7
    <3>2. m + drop = n + drop
      BY <2>5, <3>1 DEF LeadsUp
    <3> QED
      BY <2>2, <2>4, <3>2
  <2>8. ASSUME NEW m \in 1..Len(rest), NEW n \in 1..Len(rest), rest[m].id = rest[n].parentTurn
        PROVE  rest[m].thread \in Spawners(rest[n].thread)
    <3>1. /\ m + drop \in 1..Len(ring) /\ rest[m] = ring[m + drop]
          /\ n + drop \in 1..Len(ring) /\ rest[n] = ring[n + drop]
      BY <2>5
    <3>2. ring[m + drop].id = ring[n + drop].parentTurn
      BY <2>8, <3>1
    <3>3. ring[m + drop].thread \in Spawners(ring[n + drop].thread)
      BY <3>1, <3>2 DEF LeadsUp
    <3> QED
      BY <3>1, <3>3
  <2>9. LeadsUp(rest, top)
    BY <2>2, <2>6, <2>7, <2>8 DEF LeadsUp
  <2>10. Len(rest) <= RetainTurns
    BY <1>1, <2>2
  <2> QED
    BY <2>9, <2>10 DEF rest
<1>3. CASE ~(Len(ring) > RetainTurns)
  BY <1>1, <1>3 DEF Trimmed
<1> QED
  BY <1>2, <1>3

-----------------------------------------------------------------------------
(* The index.                                                              *)

\* What is kept is retained, with everything it protects.
LEMMA KeptIsWhole ==
    ASSUME NEW ring, NEW open, NEW cutoff
    PROVE  /\ Kept(ring, open, cutoff) \subseteq Retained(ring)
           /\ \A t \in Kept(ring, open, cutoff) :
                 Protects(ring, t) \subseteq Kept(ring, open, cutoff)
BY DEF Kept, Protects

\* The field of the latest turn that has it is a field of some turn.
LEMMA LatestFieldIs ==
    ASSUME NEW ring, NEW t, NEW field, NEW none, ring \in Seq(TurnRecord),
           LatestField(ring, t, field, none) # none
    PROVE  \E n \in 1..Len(ring) :
               ring[n].thread = t /\ ring[n][field] = LatestField(ring, t, field, none)
<1> DEFINE with == {n \in TurnsOf(ring, t) : ring[n][field] # none}
<1>1. with # {}
  BY DEF LatestField
<1>2. Len(ring) \in Nat /\ with \in SUBSET (0..Len(ring)) /\ with \in SUBSET (1..Len(ring))
  BY DEF TurnsOf
<1>3. \E n \in with : \A m \in with : m <= n
  <2>1. Max(with) \in with /\ \A m \in with : Max(with) >= m
    <3> HIDE DEF with
    <3> QED
      BY <1>1, <1>2, MaxIsMember
  <2>2. \A m \in with : m <= Max(with)
    BY <1>2, <2>1
  <2> QED
    BY <2>1, <2>2
<1> DEFINE last == CHOOSE n \in with : \A m \in with : m <= n
<1>4. last \in with
  BY <1>3
<1>5. LatestField(ring, t, field, none) = ring[last][field]
  BY <1>1 DEF LatestField
<1>6. last \in 1..Len(ring) /\ ring[last].thread = t
  BY <1>2, <1>4 DEF TurnsOf
<1> QED
  BY <1>5, <1>6

\* A thread hangs from one that spawned it, or it was misled.
LEMMA AboveIsSpawner ==
    ASSUME LeadsUp(turns, made), NEW t, Above(t) \in Threads, ~Misled(t)
    PROVE  Above(t) \in Spawners(t)
<1>1. turns \in Seq(TurnRecord) /\ NoThread \notin Threads
  BY LiveAssumption DEF LeadsUp
<1>2. CASE ParentThread(turns, t) # NoThread
  BY <1>2 DEF Misled, Above, Spawners
<1>3. CASE ParentThread(turns, t) = NoThread
  <2> DEFINE link == ParentTurn(turns, t)
             of   == {k \in DOMAIN turns : turns[k].id = link}
  <2>1. Above(t) = TurnOwner(turns, link)
    BY <1>3 DEF Above
  <2>2. link # 0 /\ of # {} /\ Above(t) = turns[CHOOSE k \in of : TRUE].thread
    BY <1>1, <2>1 DEF TurnOwner
  <2>3. PICK n \in 1..Len(turns) : turns[n].thread = t /\ turns[n]["parentTurn"] = link
    BY <1>1, <2>2, LatestFieldIs DEF ParentTurn
  <2>4. turns[n].parentTurn = link
    BY <2>3
  <2> DEFINE m == CHOOSE k \in of : TRUE
  <2>5. m \in of
    BY <2>2
  <2>6. m \in 1..Len(turns) /\ turns[m].id = link /\ Above(t) = turns[m].thread
    BY <1>1, <2>2, <2>5
  <2> HIDE DEF m, link, of
  <2> QED
    BY <2>3, <2>4, <2>6 DEF LeadsUp
<1> QED
  BY <1>2, <1>3

\* Every thread of a ring is one.
LEMMA RetainedAreThreads ==
    ASSUME NEW ring \in Seq(TurnRecord)
    PROVE  Retained(ring) \subseteq Threads
<1>1. \A n \in DOMAIN ring : ring[n] \in TurnRecord
  OBVIOUS
<1>2. \A n \in DOMAIN ring : ring[n].thread \in Threads
  BY <1>1 DEF TurnRecord
<1> QED
  BY <1>2 DEF Retained

\* Of the threads not shown that a client told the truth of, the one nearest to
\* the top hangs from one that is not among them.
LEMMA IInvShowsThreads ==
    ASSUME IInv, SpawnsEnd
    PROVE  OnlyHandshakesHide
<1> SUFFICES ASSUME NEW S \in SUBSET (threads \ Roots), S # {}, \A t \in S : ~Misled(t)
             PROVE  \E t \in S : Above(t) \in threads \ S
  BY DEF OnlyHandshakesHide
<1>1. threads \subseteq Threads
  BY RetainedAreThreads DEF IInv, RingInv, LeadsUp, TypeOK
<1>2. LeadsUp(turns, made)
  BY DEF IInv, RingInv
<1>3. \A t \in S : Above(t) \in threads /\ Deep[Above(t)] < Deep[t]
  <2>1. \A t \in S : Above(t) \in threads
    BY DEF Roots
  <2>2. \A t \in S : Above(t) \in Spawners(t)
    BY <1>1, <1>2, <2>1, AboveIsSpawner
  <2> QED
    BY <1>1, <2>1, <2>2, DeepIs
<1> DEFINE depths == {Deep[t] : t \in S}
<1>4. depths \in SUBSET Nat /\ depths # {}
  BY <1>1, DeepIs
<1>5. PICK least \in depths : \A d \in depths : least <= d
  <2> HIDE DEF depths
  <2> QED
    BY <1>4, NatHasMinimum
<1>6. PICK t \in S : Deep[t] = least
  OBVIOUS
<1>7. Above(t) \notin S
  <2> SUFFICES ASSUME Above(t) \in S PROVE FALSE
    OBVIOUS
  <2>1. Deep[t] <= Deep[Above(t)] /\ Deep[Above(t)] < Deep[t]
    BY <1>3, <1>5, <1>6
  <2>2. Deep[t] \in Nat /\ Deep[Above(t)] \in Nat
    BY <1>1, <1>3, DeepIs
  <2> QED
    BY <2>1, <2>2
<1> QED
  BY <1>3, <1>7

LEMMA IInvKeepsParents ==
    ASSUME IInv
    PROVE  OrphansLostTheirParent
<1> SUFFICES ASSUME NEW t \in threads, Above(t) \notin {NoThread, t}, Above(t) \notin threads,
                    Above(t) \in Retained(turns)
             PROVE  FALSE
  BY DEF OrphansLostTheirParent, Orphaned, Roots
<1>1. Above(t) \in Protects(turns, t)
  BY DEF Above, Protects
<1> QED
  BY <1>1 DEF IInv, IndexInv

-----------------------------------------------------------------------------
(* The store.                                                              *)

LEMMA TypeNumbers ==
    ASSUME TypeOK
    PROVE  /\ now \in Nat /\ made \in Nat /\ visits \in Nat
           /\ RetainTurns \in Nat /\ SubQueue \in Nat \ {0} /\ MaxTurns \in Nat
BY LiveAssumption DEF TypeOK

\* The chunk a ring is extended with.
LEMMA ChunkLeadsUp ==
    ASSUME TypeOK, RingInv, ChunkCompletes
    PROVE  RingInv'
<1>1. made \in Nat /\ now \in Nat
  BY TypeNumbers
<1>2. UNCHANGED <<turns, made>> /\ made + 2 <= MaxTurns /\ wpc' = "emit"
  BY DEF ChunkCompletes, storeVars
<1>3. PICK first \in TurnsToCome(turns, made + 1) :
          \E second \in TurnsToCome(Append(turns, first), made + 2) : batch' = <<first, second>>
  BY DEF ChunkCompletes
<1>4. PICK second \in TurnsToCome(Append(turns, first), made + 2) : batch' = <<first, second>>
  BY <1>3
<1>5. LeadsUp(turns, made)
  BY DEF RingInv
<1>6. LeadsUp(Append(turns, first), made + 1)
  BY <1>1, <1>5, AppendedLeadsUp
<1>7. made + 1 \in Nat /\ (made + 1) + 1 = made + 2 /\ made + 2 \in Nat
  BY <1>1
<1>8. LeadsUp(Append(Append(turns, first), second), made + 2)
  <2>1. second \in TurnsToCome(Append(turns, first), (made + 1) + 1)
    BY <1>7
  <2>2. LeadsUp(Append(Append(turns, first), second), (made + 1) + 1)
    BY <1>1, <1>6, <1>7, <2>1, AppendedLeadsUp
  <2> QED
    BY <1>7, <2>2
<1>9. first \in TurnRecord /\ second \in TurnRecord
  BY <1>1, <1>5, <1>6, <1>7, NewTurnIs
<1>10. turns \o <<first, second>> = Append(Append(turns, first), second)
  <2>1. turns \in Seq(TurnRecord)
    BY <1>5 DEF LeadsUp
  <2> QED
    BY <1>9, <2>1
<1>11. batch' \in Seq(TurnRecord) /\ Len(batch') = 2
  BY <1>4, <1>9
<1> QED
  BY <1>2, <1>4, <1>5, <1>8, <1>10, <1>11 DEF RingInv

LEMMA BuiltIs ==
    ASSUME TypeOK, RingInv, EmitBuilds
    PROVE  /\ RingInv' /\ IndexInv'
           /\ made' = made + 2 /\ made + 2 <= MaxTurns
           /\ Len(turns') <= RetainTurns /\ threads' \subseteq Retained(turns')
<1> DEFINE ring == Trimmed(turns \o batch)
<1>1. /\ turns' = ring /\ threads' = Kept(ring, published, now - RetainWindow)
      /\ wpc = "emit" /\ wpc' = "broadcast" /\ made' = made + Len(batch)
  BY DEF EmitBuilds
<1>2. Len(batch) = 2 /\ made + 2 <= MaxTurns /\ LeadsUp(turns \o batch, made + 2)
  BY <1>1 DEF RingInv
<1>3. made \in Nat /\ made + 2 \in Nat /\ made' = made + 2
  BY <1>1, <1>2, TypeNumbers
<1>4. LeadsUp(ring, made + 2) /\ Len(ring) <= RetainTurns
  BY <1>2, <1>3, TrimmedLeadsUp
<1>5. RingInv'
  BY <1>1, <1>3, <1>4 DEF RingInv
<1>6. threads' \subseteq Retained(turns') /\ IndexInv'
  <2> HIDE DEF ring
  <2> QED
    BY <1>1, KeptIsWhole DEF IndexInv
<1> QED
  BY <1>1, <1>2, <1>3, <1>4, <1>5, <1>6

LEMMA RingStep ==
    ASSUME TypeOK, RingInv, [Next]_vars
    PROVE  RingInv'
<1>1. CASE ChunkCompletes
  BY <1>1, ChunkLeadsUp
<1>2. CASE EmitBuilds
  BY <1>2, BuiltIs
<1>3. CASE /\ UNCHANGED <<turns, made, batch>>
           /\ wpc' # wpc => wpc' # "emit"
  BY <1>3 DEF RingInv
<1> QED
  <2>1. CASE Tick
    BY <1>3, <2>1 DEF Tick, storeVars
  <2>2. CASE Broadcast
    BY <1>3, <2>2 DEF Broadcast, storeVars
  <2>3. CASE Publishes
    BY <1>3, <2>3 DEF Publishes, storeVars
  <2>4. CASE Close
    BY <1>3, <2>4 DEF Close, storeVars
  <2>5. CASE \E c \in Clients : Handler(c)
    <3> SUFFICES ASSUME NEW c \in Clients, Handler(c) PROVE RingInv'
      BY <2>5
    <3> QED
      BY <1>3 DEF Handler, Subscribe, Primed, Receive, Leave, watcherVars, storeVars
  <2>6. CASE UNCHANGED vars
    BY <1>3, <2>6 DEF vars, watcherVars, storeVars
  <2> QED
    BY <1>1, <1>2, <2>1, <2>2, <2>3, <2>4, <2>5, <2>6 DEF Next, Watcher

LEMMA IndexStep ==
    ASSUME TypeOK, RingInv, IndexInv, [Next]_vars
    PROVE  IndexInv'
<1>1. CASE EmitBuilds
  BY <1>1, BuiltIs
<1>2. CASE UNCHANGED <<turns, threads>>
  BY <1>2 DEF IndexInv
<1> QED
  <2>1. CASE Tick \/ ChunkCompletes \/ Broadcast \/ Publishes \/ Close
    BY <1>2, <2>1 DEF Tick, ChunkCompletes, Broadcast, Publishes, Close, storeVars
  <2>2. CASE \E c \in Clients : Handler(c)
    <3> SUFFICES ASSUME NEW c \in Clients, Handler(c) PROVE IndexInv'
      BY <2>2
    <3> QED
      BY <1>2 DEF Handler, Subscribe, Primed, Receive, Leave, storeVars
  <2>3. CASE UNCHANGED vars
    BY <1>2, <2>3 DEF vars, storeVars
  <2> QED
    BY <1>1, <2>1, <2>2, <2>3 DEF Next, Watcher

-----------------------------------------------------------------------------
(* The subscribers.                                                        *)

\* The last of what a client shows and what waits for it.
LEMMA LatestIsLast ==
    ASSUME SubsInv, NEW c \in Clients
    PROVE  Last(<<view[c]>> \o queue[c]) = Latest(c)
<1>1. view[c] \in Nat /\ queue[c] \in Seq(Nat)
  BY DEF SubsInv
<1>2. CASE queue[c] = <<>>
  <2>1. <<view[c]>> \o queue[c] = <<view[c]>>
    BY <1>1, <1>2
  <2> QED
    BY <1>2, <2>1 DEF Last, Latest
<1>3. CASE queue[c] # <<>>
  <2>1. Len(queue[c]) \in Nat \ {0}
    BY <1>1, <1>3
  <2>2. Len(<<view[c]>> \o queue[c]) = Len(queue[c]) + 1
    BY <1>1
  <2>3. (<<view[c]>> \o queue[c])[Len(queue[c]) + 1] = queue[c][Len(queue[c])]
    BY <1>1, <2>1
  <2> QED
    BY <1>3, <2>2, <2>3 DEF Last, Latest
<1> QED
  BY <1>2, <1>3

\* The views of a client nothing happens to stay in order as the store goes on.
LEMMA SameOrder ==
    ASSUME SubsInv, made \in Nat, made' \in Nat, made <= made', NEW c \in Clients, InOrder(c),
           queue'[c] = queue[c], view'[c] = view[c]
    PROVE  InOrder(c)'
<1>1. view[c] \in Nat /\ \A i \in 1..Len(queue[c]) : queue[c][i] \in view[c]..made'
  BY DEF InOrder, SubsInv
<1> QED
  BY <1>1 DEF InOrder, SubsInv

LEMMA AppendedNumbers ==
    ASSUME NEW q \in Seq(Nat), NEW x \in Nat
    PROVE  /\ Append(q, x) \in Seq(Nat) /\ Len(Append(q, x)) = Len(q) + 1 /\ Len(q) \in Nat
           /\ Append(q, x)[Len(q) + 1] = x
           /\ \A i \in 1..Len(q) : Append(q, x)[i] = q[i]
OBVIOUS

LEMMA SubsBroadcast ==
    ASSUME TypeOK, SubsInv, Broadcast
    PROVE  /\ SubsInv'
           /\ \A c \in subs' \ missed' : Latest(c)' = made'
           /\ \A c \in Clients : Len(queue'[c]) <= SubQueue
<1> DEFINE full == {c \in subs : Len(queue[c]) = SubQueue}
<1>1. /\ queue' = [c \in Clients |->
                     IF c \in subs \ full THEN Append(queue[c], made) ELSE queue[c]]
      /\ missed' = (missed \ subs) \cup full
      /\ UNCHANGED <<made, mu, subs, cpc, closed, view>>
  BY DEF Broadcast, storeVars
<1>2. made \in Nat /\ SubQueue \in Nat \ {0}
  BY TypeNumbers
<1>3. \A c \in Clients : queue[c] \in Seq(Nat) /\ Len(queue[c]) <= SubQueue
  BY DEF SubsInv, TypeOK
<1> HIDE DEF full
<1>4. ASSUME NEW c \in subs \ full
      PROVE  /\ c \in Clients /\ queue'[c] = Append(queue[c], made) /\ InOrder(c)
             /\ Len(queue[c]) < SubQueue
  <2>1. c \in Clients /\ cpc[c] = "reading"
    BY DEF SubsInv, TypeOK
  <2>2. Len(queue[c]) # SubQueue /\ Len(queue[c]) \in Nat
    BY <1>3, <2>1 DEF full
  <2> QED
    BY <1>1, <1>2, <1>3, <2>1, <2>2 DEF SubsInv
<1>5. ASSUME NEW c \in Clients, c \notin subs \ full
      PROVE  queue'[c] = queue[c]
  BY <1>1, <1>5
<1>6. queue' \in [Clients -> Seq(Nat)]
  BY <1>1, <1>2, <1>3
<1>7. ASSUME NEW c \in Clients
      PROVE  Len(queue'[c]) <= SubQueue
  <2>1. CASE c \in subs \ full
    BY <1>2, <1>3, <1>4, <2>1
  <2>2. CASE c \notin subs \ full
    BY <1>3, <1>5, <2>2
  <2> QED
    BY <2>1, <2>2
<1>8. ASSUME NEW c \in Clients, cpc[c] = "reading"
      PROVE  InOrder(c)'
  <2>1. InOrder(c) /\ view[c] \in Nat
    BY <1>8 DEF SubsInv
  <2>2. CASE c \in subs \ full
    <3>1. /\ Len(queue'[c]) = Len(queue[c]) + 1 /\ queue'[c][Len(queue[c]) + 1] = made
          /\ \A i \in 1..Len(queue[c]) : queue'[c][i] = queue[c][i]
      <4>1. queue'[c] = Append(queue[c], made) /\ queue[c] \in Seq(Nat)
        BY <1>3, <1>4, <2>2
      <4> QED
        BY <1>2, <4>1, AppendedNumbers
    <3>2. \A i \in 1..Len(queue'[c]) : i \in 1..Len(queue[c]) \/ i = Len(queue[c]) + 1
      BY <1>3, <3>1
    <3>3. \A i \in 1..Len(queue[c]) : queue[c][i] \in view[c]..made
      BY <2>1 DEF InOrder
    <3>4. \A i \in 1..Len(queue'[c]) : queue'[c][i] \in view[c]..made
      <4>1. made \in view[c]..made
        BY <1>2, <2>1 DEF InOrder
      <4> QED
        BY <3>1, <3>2, <3>3, <4>1
    <3>5. ASSUME NEW i \in 1..Len(queue'[c]), NEW j \in 1..Len(queue'[c]), i <= j
          PROVE  queue'[c][i] <= queue'[c][j]
      <4>1. CASE j = Len(queue[c]) + 1
        <5>1. queue'[c][j] = made /\ queue'[c][i] \in view[c]..made
          BY <3>1, <3>4, <4>1
        <5> QED
          BY <1>2, <2>1, <5>1
      <4>2. CASE j \in 1..Len(queue[c])
        <5>1. i \in 1..Len(queue[c])
          BY <1>3, <3>1, <3>5, <4>2
        <5> QED
          BY <2>1, <3>1, <3>5, <4>2, <5>1 DEF InOrder
      <4> QED
        BY <3>2, <4>1, <4>2
    <3> QED
      BY <1>1, <2>1, <3>4, <3>5 DEF InOrder
  <2>3. CASE c \notin subs \ full
    BY <1>1, <1>2, <1>5, <2>1, <2>3, SameOrder
  <2> QED
    BY <2>2, <2>3
<1>9. SubsInv'
  BY <1>1, <1>6, <1>8 DEF SubsInv
<1>10. ASSUME NEW c \in subs' \ missed'
       PROVE  Latest(c)' = made'
  <2>1. c \in subs \ full
    BY <1>1
  <2>2. Len(queue'[c]) = Len(queue[c]) + 1 /\ queue'[c][Len(queue[c]) + 1] = made
    BY <1>2, <1>3, <1>4, <2>1
  <2>3. queue'[c] # <<>>
    BY <1>3, <1>4, <2>1, <2>2
  <2> QED
    BY <1>1, <2>2, <2>3 DEF Latest
<1> QED
  BY <1>7, <1>9, <1>10

LEMMA SubsPrimed ==
    ASSUME TypeOK, SubsInv, NEW c \in Clients, Primed(c)
    PROVE  /\ SubsInv' /\ Latest(c)' = made
           /\ Len(queue'[c]) = 1
<1>1. /\ mu = c /\ mu' = "free" /\ cpc' = [cpc EXCEPT ![c] = "reading"]
      /\ subs' = subs \cup {c} /\ queue' = [queue EXCEPT ![c] = <<made>>]
      /\ closed' = [closed EXCEPT ![c] = 0] /\ view' = [view EXCEPT ![c] = 0]
      /\ UNCHANGED made
  BY DEF Primed, watcherVars
<1>2. made \in Nat /\ "free" \notin Clients
  BY TypeNumbers, LiveAssumption
<1>3. <<made>> \in Seq(Nat) /\ Len(<<made>>) = 1 /\ <<made>>[1] = made /\ <<made>> # <<>>
  BY <1>2
<1>4. queue'[c] = <<made>> /\ view'[c] = 0 /\ cpc'[c] = "reading"
  BY <1>1 DEF SubsInv
<1>5. InOrder(c)'
  <2>1. \A i \in 1..Len(queue'[c]) : queue'[c][i] = made
    BY <1>3, <1>4
  <2> QED
    BY <1>1, <1>2, <1>4, <2>1 DEF InOrder
<1>6. ASSUME NEW d \in Clients, d # c
      PROVE  /\ mu' = d <=> cpc'[d] = "priming"
             /\ cpc'[d] # "reading" => d \notin subs'
             /\ cpc'[d] = "reading" => InOrder(d)'
  <2>1. /\ cpc'[d] = cpc[d] /\ queue'[d] = queue[d] /\ view'[d] = view[d]
        /\ d \in subs' <=> d \in subs
    BY <1>1, <1>6 DEF SubsInv
  <2>2. cpc[d] # "priming" /\ mu' # d
    BY <1>1, <1>2, <1>6 DEF SubsInv
  <2>3. cpc[d] = "reading" => InOrder(d)'
    BY <1>1, <1>2, <2>1, SameOrder DEF SubsInv
  <2> QED
    BY <2>1, <2>2, <2>3 DEF SubsInv
<1>7. /\ queue' \in [Clients -> Seq(Nat)] /\ closed' \in [Clients -> Nat]
      /\ view' \in [Clients -> Nat] /\ cpc' \in [Clients -> {"gone", "priming", "reading"}]
  BY <1>1, <1>3 DEF SubsInv
<1>8. mu' # c
  BY <1>1, <1>2
<1>9. SubsInv'
  BY <1>1, <1>4, <1>5, <1>6, <1>7, <1>8 DEF SubsInv
<1>10. Latest(c)' = made
  BY <1>3, <1>4 DEF Latest
<1> QED
  BY <1>3, <1>4, <1>9, <1>10

LEMMA TailOfNumbers ==
    ASSUME NEW q \in Seq(Nat), q # <<>>
    PROVE  /\ Len(q) = 1 => Tail(q) = <<>>
           /\ Len(q) # 1 => Tail(q) # <<>> /\ Tail(q)[Len(Tail(q))] = q[Len(q)]
<1>1. /\ Len(q) \in Nat \ {0} /\ Tail(q) \in Seq(Nat) /\ Len(Tail(q)) = Len(q) - 1
      /\ \A i \in 1..Len(Tail(q)) : Tail(q)[i] = q[i + 1]
  OBVIOUS
<1>2. CASE Len(q) = 1
  <2>1. Len(Tail(q)) = 0
    BY <1>1, <1>2
  <2> QED
    BY <1>1, <1>2, <2>1, EmptySeq
<1>3. CASE Len(q) # 1
  <2>1. Len(Tail(q)) \in 1..Len(Tail(q)) /\ Len(Tail(q)) + 1 = Len(q)
    BY <1>1, <1>3
  <2>2. Tail(q) # <<>>
    <3>1. Tail(q) = << >> => Len(Tail(q)) = 0
      BY EmptySeq
    <3> QED
      BY <1>1, <2>1, <3>1
  <2>3. Tail(q)[Len(Tail(q))] = q[Len(q)]
    BY <1>1, <2>1
  <2> QED
    BY <1>3, <2>2, <2>3
<1> QED
  BY <1>2, <1>3

LEMMA SubsReceive ==
    ASSUME TypeOK, SubsInv, NEW c \in Clients, Receive(c)
    PROVE  /\ SubsInv' /\ Latest(c)' = Latest(c)
           /\ view'[c] >= view[c] /\ Len(queue'[c]) <= Len(queue[c])
<1>1. /\ cpc[c] = "reading" /\ queue[c] # <<>>
      /\ view' = [view EXCEPT ![c] = Head(queue[c])]
      /\ queue' = [queue EXCEPT ![c] = Tail(queue[c])]
      /\ UNCHANGED <<made, mu, subs, cpc, closed>>
  BY DEF Receive, watcherVars, storeVars
<1>2. /\ made \in Nat /\ queue[c] \in Seq(Nat) /\ Len(queue[c]) \in Nat \ {0} /\ InOrder(c)
      /\ view[c] \in Nat
  BY <1>1, TypeNumbers DEF SubsInv
<1>3. /\ view'[c] = queue[c][1] /\ queue'[c] = Tail(queue[c])
      /\ queue'[c] \in Seq(Nat) /\ Len(queue'[c]) = Len(queue[c]) - 1
      /\ \A i \in 1..Len(queue'[c]) : queue'[c][i] = queue[c][i + 1] /\ i + 1 \in 1..Len(queue[c])
  BY <1>1, <1>2 DEF SubsInv
<1>4. 1 \in 1..Len(queue[c]) /\ view'[c] \in view[c]..made /\ view'[c] \in Nat
  BY <1>2, <1>3 DEF InOrder
<1>5. \A i \in 1..Len(queue[c]) : queue[c][i] \in view'[c]..made
  <2>1. \A i \in 1..Len(queue[c]) : queue[c][1] <= queue[c][i] /\ queue[c][i] \in view[c]..made
    BY <1>2, <1>4 DEF InOrder
  <2> QED
    BY <1>2, <1>3, <1>4, <2>1
<1>6. InOrder(c)'
  <2>1. \A i \in 1..Len(queue'[c]) : queue'[c][i] \in view'[c]..made
    BY <1>3, <1>5
  <2>2. ASSUME NEW i \in 1..Len(queue'[c]), NEW j \in 1..Len(queue'[c]), i <= j
        PROVE  queue'[c][i] <= queue'[c][j]
    <3>1. i + 1 \in 1..Len(queue[c]) /\ j + 1 \in 1..Len(queue[c]) /\ i + 1 <= j + 1
      BY <1>3, <2>2
    <3>2. queue[c][i + 1] <= queue[c][j + 1]
      BY <1>2, <3>1 DEF InOrder
    <3> QED
      BY <1>3, <3>2
  <2> QED
    BY <1>1, <1>2, <1>4, <2>1, <2>2 DEF InOrder
<1>7. ASSUME NEW d \in Clients, d # c, cpc[d] = "reading"
      PROVE  InOrder(d)'
  <2>1. queue'[d] = queue[d] /\ view'[d] = view[d] /\ InOrder(d)
    BY <1>1, <1>7 DEF SubsInv
  <2> QED
    BY <1>1, <1>2, <2>1, SameOrder
<1>8. queue' \in [Clients -> Seq(Nat)] /\ view' \in [Clients -> Nat]
  BY <1>1, <1>2, <1>3, <1>4 DEF SubsInv
<1>9. SubsInv'
  BY <1>1, <1>6, <1>7, <1>8 DEF SubsInv
<1>10. Latest(c)' = Latest(c)
  <2>1. Latest(c) = queue[c][Len(queue[c])]
    BY <1>1 DEF Latest
  <2>2. Latest(c)' = IF queue'[c] = <<>> THEN view'[c] ELSE queue'[c][Len(queue'[c])]
    BY DEF Latest
  <2>3. /\ Len(queue[c]) = 1 => Tail(queue[c]) = <<>>
        /\ Len(queue[c]) # 1 =>
              /\ Tail(queue[c]) # <<>>
              /\ Tail(queue[c])[Len(Tail(queue[c]))] = queue[c][Len(queue[c])]
    BY <1>1, <1>2, TailOfNumbers
  <2>4. CASE Len(queue[c]) = 1
    BY <1>3, <2>1, <2>2, <2>3, <2>4
  <2>5. CASE Len(queue[c]) # 1
    BY <1>3, <2>1, <2>2, <2>3, <2>5
  <2> QED
    BY <2>4, <2>5
<1> QED
  BY <1>2, <1>3, <1>4, <1>9, <1>10

LEMMA SubsLeave ==
    ASSUME TypeOK, SubsInv, NEW c \in Clients, Leave(c)
    PROVE  /\ SubsInv' /\ queue'[c] = <<>>
           /\ \A d \in Clients : d # c => queue'[d] = queue[d]
<1>1. /\ cpc[c] = "reading" /\ mu = "free" /\ mu' = "free" /\ subs' = subs \ {c}
      /\ closed' = [closed EXCEPT ![c] = IF c \in subs THEN @ + 1 ELSE @]
      /\ cpc' = [cpc EXCEPT ![c] = "gone"] /\ queue' = [queue EXCEPT ![c] = <<>>]
      /\ UNCHANGED <<made, view>>
  BY DEF Leave, watcherVars, storeVars
<1>2. made \in Nat /\ "free" \notin Clients
  BY TypeNumbers, LiveAssumption
<1>3. \A d \in Clients : /\ cpc'[d] = IF d = c THEN "gone" ELSE cpc[d]
                         /\ queue'[d] = IF d = c THEN <<>> ELSE queue[d]
  BY <1>1 DEF SubsInv
<1>4. ASSUME NEW d \in Clients, cpc'[d] = "reading"
      PROVE  InOrder(d)'
  <2>1. d # c /\ queue'[d] = queue[d] /\ view'[d] = view[d] /\ InOrder(d)
    BY <1>1, <1>3, <1>4 DEF SubsInv
  <2> QED
    BY <1>1, <1>2, <2>1, SameOrder
<1>5. \A d \in Clients : /\ mu' = d <=> cpc'[d] = "priming"
                         /\ cpc'[d] # "reading" => d \notin subs'
  BY <1>1, <1>2, <1>3 DEF SubsInv
<1>6. /\ queue' \in [Clients -> Seq(Nat)] /\ closed' \in [Clients -> Nat]
      /\ view' \in [Clients -> Nat] /\ cpc' \in [Clients -> {"gone", "priming", "reading"}]
  <2>1. <<>> \in Seq(Nat)
    OBVIOUS
  <2> QED
    BY <1>1, <2>1 DEF SubsInv
<1>7. SubsInv'
  BY <1>1, <1>4, <1>5, <1>6 DEF SubsInv
<1> QED
  BY <1>3, <1>7

LEMMA SubsStep ==
    ASSUME TypeOK, TypeOK', RingInv, SubsInv, [Next]_vars
    PROVE  SubsInv'
<1>1. made \in Nat /\ made' \in Nat
  BY TypeNumbers, LiveAssumption DEF TypeOK
<1>2. CASE UNCHANGED <<queue, closed, view, cpc, mu, subs>> /\ made <= made'
  <2>1. \A c \in Clients : InOrder(c) => InOrder(c)'
    BY <1>1, <1>2, SameOrder
  <2> QED
    BY <1>2, <2>1 DEF SubsInv
<1>3. CASE Tick \/ ChunkCompletes \/ Publishes
  <2>1. UNCHANGED <<queue, closed, view, cpc, mu, subs, made>>
    BY <1>3 DEF Tick, ChunkCompletes, Publishes, storeVars, subVars
  <2> QED
    BY <1>1, <1>2, <2>1
<1>4. CASE EmitBuilds
  <2>1. UNCHANGED <<queue, closed, view, cpc, mu, subs>>
    BY <1>4 DEF EmitBuilds, subVars
  <2> QED
    BY <1>1, <1>2, <1>4, <2>1, BuiltIs
<1>5. CASE Broadcast
  BY <1>5, SubsBroadcast
<1>6. CASE Close
  <2>1. /\ closed' = [c \in Clients |-> IF c \in subs THEN closed[c] + 1 ELSE closed[c]]
        /\ subs' = {} /\ UNCHANGED <<made, mu, cpc, queue, view>>
    BY <1>6 DEF Close, storeVars
  <2>2. \A c \in Clients : InOrder(c) => InOrder(c)'
    BY <1>1, <2>1, SameOrder
  <2>3. closed' \in [Clients -> Nat]
    BY <2>1 DEF SubsInv
  <2> QED
    BY <2>1, <2>2, <2>3 DEF SubsInv
<1>7. ASSUME NEW c \in Clients, Subscribe(c)
      PROVE  SubsInv'
  <2>1. /\ mu = "free" /\ mu' = c /\ cpc' = [cpc EXCEPT ![c] = "priming"] /\ cpc[c] = "gone"
        /\ UNCHANGED <<made, subs, queue, closed, view>>
    BY <1>7 DEF Subscribe, watcherVars
  <2>2. \A d \in Clients : cpc'[d] = IF d = c THEN "priming" ELSE cpc[d]
    BY <2>1 DEF SubsInv
  <2>3. \A d \in Clients : mu # d
    BY <2>1, LiveAssumption
  <2>4. \A d \in Clients : InOrder(d) => InOrder(d)'
    BY <1>1, <2>1, SameOrder
  <2>5. cpc' \in [Clients -> {"gone", "priming", "reading"}]
    BY <2>1 DEF SubsInv
  <2> QED
    BY <2>1, <2>2, <2>3, <2>4, <2>5 DEF SubsInv
<1>8. CASE \E c \in Clients : Handler(c)
  BY <1>7, <1>8, SubsPrimed, SubsReceive, SubsLeave DEF Handler
<1>9. CASE UNCHANGED vars
  <2>1. UNCHANGED <<queue, closed, view, cpc, mu, subs, made>>
    BY <1>9 DEF vars, watcherVars, storeVars, subVars
  <2> QED
    BY <1>1, <1>2, <2>1
<1> QED
  BY <1>3, <1>4, <1>5, <1>6, <1>8, <1>9 DEF Next, Watcher

LEMMA NewestStep ==
    ASSUME TypeOK, RingInv, SubsInv, LatestIsNewest, [Next]_vars
    PROVE  LatestIsNewest'
<1>1. CASE UNCHANGED <<queue, view, subs, missed, made>> /\ (wpc' = wpc \/ wpc = "emitted")
  BY <1>1 DEF LatestIsNewest, Latest
<1>2. CASE ChunkCompletes
  <2>1. UNCHANGED <<queue, view, subs, missed, made>> /\ wpc = "polling"
    BY <1>2 DEF ChunkCompletes, storeVars, subVars
  <2> QED
    BY <2>1 DEF LatestIsNewest, Latest
<1>3. CASE EmitBuilds
  BY <1>3 DEF EmitBuilds, LatestIsNewest
<1>4. CASE Broadcast
  BY <1>4, SubsBroadcast DEF LatestIsNewest
<1>5. CASE Close
  BY <1>5 DEF Close, LatestIsNewest
<1>6. ASSUME NEW c \in Clients, Primed(c)
      PROVE  LatestIsNewest'
  <2>1. /\ subs' = subs \cup {c} /\ missed' = missed \ {c} /\ UNCHANGED <<made, wpc>>
        /\ queue' = [queue EXCEPT ![c] = <<made>>] /\ view' = [view EXCEPT ![c] = 0]
    BY <1>6 DEF Primed, watcherVars
  <2>2. ASSUME NEW d \in Clients, d # c
        PROVE  Latest(d)' = Latest(d)
    BY <2>1, <2>2 DEF Latest, SubsInv
  <2>3. Latest(c)' = made
    BY <1>6, SubsPrimed
  <2>4. subs' \subseteq Clients
    BY <2>1 DEF TypeOK
  <2> QED
    BY <2>1, <2>2, <2>3, <2>4 DEF LatestIsNewest
<1>7. ASSUME NEW c \in Clients, Receive(c)
      PROVE  LatestIsNewest'
  <2>1. /\ UNCHANGED <<subs, missed, made, wpc>>
        /\ queue' = [queue EXCEPT ![c] = Tail(queue[c])]
        /\ view' = [view EXCEPT ![c] = Head(queue[c])]
    BY <1>7 DEF Receive, watcherVars, storeVars
  <2>2. ASSUME NEW d \in Clients, d # c
        PROVE  Latest(d)' = Latest(d)
    BY <2>1, <2>2 DEF Latest, SubsInv
  <2>3. Latest(c)' = Latest(c) /\ subs \subseteq Clients
    BY <1>7, SubsReceive DEF TypeOK
  <2> QED
    BY <2>1, <2>2, <2>3 DEF LatestIsNewest
<1>8. ASSUME NEW c \in Clients, Leave(c)
      PROVE  LatestIsNewest'
  <2>1. subs' = subs \ {c} /\ UNCHANGED <<missed, made, wpc, view>>
    BY <1>8 DEF Leave, watcherVars, storeVars
  <2>2. \A d \in subs' : d \in subs /\ queue'[d] = queue[d]
    BY <1>8, <2>1, SubsLeave DEF TypeOK
  <2> QED
    BY <2>1, <2>2 DEF LatestIsNewest, Latest
<1>9. ASSUME NEW c \in Clients, Subscribe(c)
      PROVE  LatestIsNewest'
  BY <1>1, <1>9 DEF Subscribe, watcherVars
<1>10. CASE Tick \/ Publishes \/ UNCHANGED vars
  BY <1>1, <1>10 DEF Tick, Publishes, vars, watcherVars, storeVars, subVars
<1> QED
  BY <1>2, <1>3, <1>4, <1>5, <1>6, <1>7, <1>8, <1>9, <1>10 DEF Next, Watcher, Handler

-----------------------------------------------------------------------------
(* Types and limits.                                                       *)

LEMMA ClosedOnceStep ==
    ASSUME TypeOK, SubsInv, [Next]_vars
    PROVE  ClosedOnce'
<1>1. ClosedOnce /\ subs \subseteq Clients /\ closed \in [Clients -> Nat]
      /\ cpc \in [Clients -> {"gone", "priming", "reading"}]
  BY DEF TypeOK, SubsInv
<1>2. CASE UNCHANGED <<closed, cpc, subs>>
  BY <1>1, <1>2 DEF ClosedOnce
<1>3. CASE Close
  <2>1. /\ closed' = [c \in Clients |-> IF c \in subs THEN closed[c] + 1 ELSE closed[c]]
        /\ subs' = {} /\ UNCHANGED cpc
    BY <1>3 DEF Close
  <2>2. \A c \in subs : cpc[c] = "reading" /\ closed[c] = 0
    BY <1>1 DEF SubsInv, ClosedOnce
  <2> QED
    BY <1>1, <2>1, <2>2 DEF ClosedOnce
<1>4. ASSUME NEW c \in Clients, Subscribe(c)
      PROVE  ClosedOnce'
  <2>1. cpc' = [cpc EXCEPT ![c] = "priming"] /\ UNCHANGED <<subs, closed>>
    BY <1>4 DEF Subscribe
  <2> QED
    BY <1>1, <2>1 DEF ClosedOnce
<1>5. ASSUME NEW c \in Clients, Primed(c)
      PROVE  ClosedOnce'
  <2>1. /\ cpc' = [cpc EXCEPT ![c] = "reading"] /\ subs' = subs \cup {c}
        /\ closed' = [closed EXCEPT ![c] = 0]
    BY <1>5 DEF Primed
  <2> QED
    BY <1>1, <2>1 DEF ClosedOnce
<1>6. ASSUME NEW c \in Clients, Receive(c)
      PROVE  ClosedOnce'
  BY <1>2, <1>6 DEF Receive
<1>7. ASSUME NEW c \in Clients, Leave(c)
      PROVE  ClosedOnce'
  <2>1. /\ cpc[c] = "reading" /\ cpc' = [cpc EXCEPT ![c] = "gone"] /\ subs' = subs \ {c}
        /\ closed' = [closed EXCEPT ![c] = IF c \in subs THEN @ + 1 ELSE @]
    BY <1>7 DEF Leave
  <2> QED
    BY <1>1, <2>1 DEF ClosedOnce
<1> QED
  <2>1. CASE Tick \/ Watcher \/ UNCHANGED vars
    BY <1>2, <2>1 DEF Tick, Watcher, ChunkCompletes, EmitBuilds, Broadcast, Publishes,
                      vars, subVars
  <2> QED
    BY <1>3, <1>4, <1>5, <1>6, <1>7, <2>1 DEF Next, Handler

LEMMA TypeStep ==
    ASSUME TypeOK, RingInv, SubsInv, [Next]_vars
    PROVE  TypeOK'
<1>1. ClosedOnce'
  BY ClosedOnceStep
<1>2. /\ MaxTurns \in Nat /\ MaxNow \in Nat \ {0} /\ MaxVisits \in Nat /\ MayRun \subseteq Threads
      /\ SubQueue \in Nat \ {0}
  BY LiveAssumption
<1>3. now' \in 1..MaxNow /\ visits' \in 0..MaxVisits /\ published' \subseteq Threads
      /\ wpc' \in {"polling", "emit", "broadcast", "emitted", "closed"}
      /\ mu' \in Clients \cup {"free"} /\ subs' \subseteq Clients /\ missed' \subseteq Clients
  <2>1. CASE Tick
    BY <1>2, <2>1 DEF TypeOK, Tick, storeVars, subVars
  <2>2. CASE ChunkCompletes \/ EmitBuilds
    BY <2>2 DEF TypeOK, ChunkCompletes, EmitBuilds, storeVars, subVars
  <2>3. CASE Broadcast \/ Publishes \/ Close
    BY <1>2, <2>3 DEF TypeOK, Broadcast, Publishes, Close, storeVars, subVars
  <2>4. ASSUME NEW c \in Clients, Subscribe(c) \/ Primed(c)
        PROVE  /\ now' \in 1..MaxNow /\ visits' \in 0..MaxVisits /\ published' \subseteq Threads
               /\ wpc' \in {"polling", "emit", "broadcast", "emitted", "closed"}
               /\ mu' \in Clients \cup {"free"} /\ subs' \subseteq Clients
               /\ missed' \subseteq Clients
    BY <1>2, <2>4 DEF TypeOK, Subscribe, Primed, watcherVars
  <2>5. ASSUME NEW c \in Clients, Receive(c) \/ Leave(c)
        PROVE  /\ now' \in 1..MaxNow /\ visits' \in 0..MaxVisits /\ published' \subseteq Threads
               /\ wpc' \in {"polling", "emit", "broadcast", "emitted", "closed"}
               /\ mu' \in Clients \cup {"free"} /\ subs' \subseteq Clients
               /\ missed' \subseteq Clients
    BY <2>5 DEF TypeOK, Receive, Leave, watcherVars, storeVars
  <2>6. CASE UNCHANGED vars
    BY <2>6 DEF TypeOK, vars, watcherVars, storeVars, subVars
  <2> QED
    BY <2>1, <2>2, <2>3, <2>4, <2>5, <2>6 DEF Next, Watcher, Handler
<1>4. /\ made' \in 0..MaxTurns /\ Len(turns') <= RetainTurns
      /\ threads' \subseteq Retained(turns')
  <2>1. CASE EmitBuilds
    BY <1>2, <2>1, BuiltIs DEF TypeOK
  <2>2. CASE UNCHANGED <<made, turns, threads>>
    BY <2>2 DEF TypeOK
  <2>3. CASE Tick \/ ChunkCompletes \/ Broadcast \/ Publishes \/ Close \/ UNCHANGED vars
    BY <2>2, <2>3 DEF Tick, ChunkCompletes, Broadcast, Publishes, Close, vars, watcherVars,
                      storeVars
  <2>4. ASSUME NEW c \in Clients, Handler(c)
        PROVE  UNCHANGED <<made, turns, threads>>
    BY <2>4 DEF Handler, Subscribe, Primed, Receive, Leave, watcherVars, storeVars
  <2> QED
    BY <2>1, <2>2, <2>3, <2>4 DEF Next, Watcher
<1>5. ASSUME NEW c \in Clients
      PROVE  Len(queue'[c]) <= SubQueue
  <2>1. Len(queue[c]) <= SubQueue /\ queue[c] \in Seq(Nat) /\ Len(queue[c]) \in Nat
    BY DEF TypeOK, SubsInv
  <2>2. CASE UNCHANGED queue
    BY <2>1, <2>2
  <2>3. CASE Broadcast
    BY <2>3, SubsBroadcast
  <2>4. CASE Tick \/ ChunkCompletes \/ EmitBuilds \/ Publishes \/ Close \/ UNCHANGED vars
    BY <2>2, <2>4 DEF Tick, ChunkCompletes, EmitBuilds, Publishes, Close, vars, subVars
  <2>5. ASSUME NEW d \in Clients, Handler(d)
        PROVE  Len(queue'[c]) <= SubQueue
    <3>1. CASE d # c
      <4>1. queue'[c] = queue[c]
        BY <2>5, <3>1 DEF Handler, Subscribe, Primed, Receive, Leave, SubsInv
      <4> QED
        BY <2>1, <4>1
    <3>2. CASE Subscribe(d)
      BY <2>2, <3>2 DEF Subscribe
    <3>3. CASE d = c /\ Primed(d)
      <4>1. Len(queue'[c]) = 1
        BY <3>3, SubsPrimed
      <4> QED
        BY <1>2, <4>1
    <3>4. CASE d = c /\ Receive(d)
      <4>1. Len(queue'[c]) <= Len(queue[c]) /\ queue'[c] \in Seq(Nat)
        BY <3>4, SubsReceive DEF SubsInv
      <4>2. Len(queue'[c]) \in Nat
        BY <4>1
      <4> QED
        BY <1>2, <2>1, <4>1, <4>2
    <3>5. CASE d = c /\ Leave(d)
      <4>1. queue'[c] = <<>>
        BY <3>5, SubsLeave
      <4> QED
        BY <1>2, <4>1
    <3> QED
      BY <2>5, <3>1, <3>2, <3>3, <3>4, <3>5 DEF Handler
  <2> QED
    BY <2>3, <2>4, <2>5 DEF Next, Watcher
<1> QED
  BY <1>1, <1>3, <1>4, <1>5 DEF TypeOK

-----------------------------------------------------------------------------
(* The theorems.                                                           *)

LEMMA InitIInv ==
    ASSUME Init
    PROVE  IInv
<1>1. /\ MaxTurns \in Nat /\ MaxNow \in Nat \ {0} /\ MaxVisits \in Nat
      /\ RetainTurns \in Nat \ {0} /\ SubQueue \in Nat \ {0} /\ "free" \notin Clients
  BY LiveAssumption
<1>2. <<>> \in Seq(Nat) /\ <<>> \in Seq(TurnRecord) /\ Len(<<>>) = 0
  OBVIOUS
<1>3. /\ now = 1 /\ made = 0 /\ wpc = "polling" /\ published = {} /\ mu = "free"
      /\ turns = <<>> /\ threads = {} /\ subs = {} /\ cpc = [c \in Clients |-> "gone"]
      /\ queue = [c \in Clients |-> <<>>] /\ closed = [c \in Clients |-> 0]
      /\ view = closed /\ missed = {} /\ visits = 0
  BY DEF Init
<1>4. TypeOK
  <2>1. ClosedOnce
    BY <1>3 DEF ClosedOnce
  <2> QED
    BY <1>1, <1>2, <1>3, <2>1 DEF TypeOK
<1>5. RingInv
  BY <1>2, <1>3 DEF RingInv, LeadsUp
<1>6. SubsInv
  BY <1>1, <1>2, <1>3 DEF SubsInv
<1>7. IndexInv /\ LatestIsNewest
  BY <1>3 DEF IndexInv, LatestIsNewest
<1> QED
  BY <1>4, <1>5, <1>6, <1>7 DEF IInv

LEMMA NextIInv ==
    ASSUME IInv, [Next]_vars
    PROVE  IInv'
<1>1. TypeOK'
  BY TypeStep DEF IInv
<1> QED
  BY <1>1, RingStep, IndexStep, SubsStep, NewestStep DEF IInv

LEMMA AlwaysIInv == Spec => []IInv
BY InitIInv, NextIInv, PTL DEF Spec

\* The ring, the index and the queues stay within their limits, and no channel
\* is closed twice, whoever closes it first (live.go trim, subscribe.go, Close).
THEOREM TypeCorrect == Spec => []TypeOK
<1>1. IInv => TypeOK
  BY DEF IInv
<1> QED
  BY <1>1, AlwaysIInv, PTL

\* Every thread of the index hangs below a root of the view, unless a thread
\* whose connection kept another's handshake leads it round in a circle (live.go
\* snapshotLocked).  Of the clients it takes that a thread is not spawned by one
\* it spawned itself; of what the turns say nothing.
THEOREM HandshakesAloneHide ==
    ASSUME SpawnsEnd
    PROVE  Spec => []OnlyHandshakesHide
BY IInvShowsThreads, AlwaysIInv, PTL

\* A thread is shown as an orphan only once the ring has forgotten its parent
\* (live.go evictable).
THEOREM AgeMakesNoOrphan == Spec => []OrphansLostTheirParent
BY IInvKeepsParents, AlwaysIInv, PTL

\* A client that missed nothing has the latest view or will get it (subscribe.go
\* Subscribe, broadcast).
THEOREM LatestViewIsQueued == Spec => []NewestIsQueued
<1>1. IInv => NewestIsQueued
  <2> SUFFICES ASSUME IInv, wpc # "broadcast", NEW c \in subs \ missed
               PROVE  Last(<<view[c]>> \o queue[c]) = made
    BY DEF NewestIsQueued
  <2>1. c \in Clients /\ SubsInv /\ Latest(c) = made
    BY DEF IInv, TypeOK, LatestIsNewest
  <2> QED
    BY <2>1, LatestIsLast
<1> QED
  BY <1>1, AlwaysIInv, PTL

\* What a client shows is never replaced by something older while its connection
\* lasts (subscribe.go).
THEOREM NoViewGoesBack == Spec => ViewsNeverGoBack
<1> DEFINE Forward == \A c \in Clients :
                         cpc[c] = "reading" /\ cpc'[c] = "reading" => view'[c] >= view[c]
<1>1. IInv /\ [Next]_vars => [Forward]_vars
  <2> SUFFICES ASSUME IInv, Next, NEW c \in Clients, cpc[c] = "reading", cpc'[c] = "reading"
               PROVE  view'[c] >= view[c]
    OBVIOUS
  <2>1. TypeOK /\ SubsInv /\ view[c] \in Nat /\ view \in [Clients -> Nat] /\ mu # c
    BY DEF IInv, SubsInv
  <2>2. CASE UNCHANGED view
    BY <2>1, <2>2
  <2>3. CASE Tick \/ Watcher \/ Close
    BY <2>2, <2>3 DEF Tick, Watcher, ChunkCompletes, EmitBuilds, Broadcast, Publishes,
                      Close, subVars
  <2>4. ASSUME NEW d \in Clients, Handler(d)
        PROVE  view'[c] >= view[c]
    <3>1. CASE Subscribe(d) \/ Leave(d)
      BY <2>2, <3>1 DEF Subscribe, Leave
    <3>2. CASE Primed(d)
      <4>1. d # c /\ view' = [view EXCEPT ![d] = 0]
        BY <2>1, <3>2 DEF Primed
      <4> QED
        BY <2>1, <4>1
    <3>3. CASE d = c /\ Receive(d)
      BY <2>1, <3>3, SubsReceive
    <3>4. CASE d # c /\ Receive(d)
      <4>1. view'[c] = view[c]
        BY <2>1, <3>4 DEF Receive
      <4> QED
        BY <2>1, <4>1
    <3> QED
      BY <2>4, <3>1, <3>2, <3>3, <3>4 DEF Handler
  <2> QED
    BY <2>3, <2>4 DEF Next
<1>2. Spec => [][Forward]_vars
  BY <1>1, AlwaysIInv, PTL DEF Spec
<1> QED
  BY <1>2 DEF ViewsNeverGoBack
=============================================================================

------------------------- MODULE TurnDeltas_proofs -------------------------
(* Proofs about TurnDeltas for every set of kinds and every bound. *)
EXTENDS TurnDeltas, FiniteSetTheorems, MaximumLemmas, TLAPS

-----------------------------------------------------------------------------
(* The inductive invariant.  A turn carries stamps and is subtracted from  *)
(* the baseline of its series: both exist only because whatever is in the  *)
(* archive, under way or open was created, and completed with a stamp.     *)

Created ==
    /\ \A i \in 1..Len(log) : kind[log[i].resp] \in Kinds
    /\ \A k \in Kinds : current[k] # 0 => kind[current[k]] \in Kinds
    /\ \A r \in Resps : open[r] # 0 => kind[r] \in Kinds

Stamped == \A i \in 1..Len(log) : log[i].what = "timing" => finish[log[i].resp] # 0

IInv == TypeOK /\ Created /\ Stamped

-----------------------------------------------------------------------------
(* Lemmas about the operators.                                             *)

LEMMA Bounds ==
    /\ MaxResps \in Nat /\ MaxTime \in Nat \ {0} /\ MaxGap \in Nat
    /\ EvictAfter \in Nat /\ StateRetain \in Nat /\ MaxMishaps \in Nat
  BY DeltasAssumption

LEMMA TimeIsInterval == Time \cup {0} = 0..MaxTime
<1>1. \A x : x \in Time \cup {0} <=> x \in 0..MaxTime
  BY Bounds DEF Time
<1> QED
  BY <1>1

LEMMA SeriesOf == \A r \in Resps : (open[r] # 0 => kind[r] \in Kinds) => SeriesKey(r) \in Series
  BY DEF SeriesKey, Series

\* The newest of some stamps is a stamp.
LEMMA NewestIsStamp ==
    ASSUME NEW s \in Time \cup {0}, NEW S \in SUBSET (Time \cup {0})
    PROVE  Max({s} \cup S) \in Time \cup {0}
<1>1. {s} \cup S \in SUBSET (0..MaxTime) /\ {s} \cup S # {}
  BY TimeIsInterval
<1>2. Max({s} \cup S) \in {s} \cup S
  BY <1>1, MaxIsMember, Bounds
<1> QED
  BY <1>2

\* There are finitely many responses.
LEMMA CountOfResps ==
    ASSUME NEW R \in SUBSET Resps
    PROVE  Cardinality(R) \in Nat
<1>1. IsFiniteSet(Resps)
  BY FS_Interval, Bounds DEF Resps
<1>2. IsFiniteSet(R)
  BY <1>1, FS_Subset
<1> QED
  BY <1>2, FS_CardinalityType

LEMMA SnapshotType == TypeOK => Snapshot \in Saved
<1> SUFFICES ASSUME TypeOK PROVE Snapshot \in Saved
  OBVIOUS
<1>1. {lastSeen[k] : k \in Series} \in SUBSET (Time \cup {0})
  BY DEF TypeOK, ArchiveOK, WatcherOK, HistoryOK
<1>2. SeqSeen \in Time \cup {0}
  BY <1>1, NewestIsStamp DEF SeqSeen, TypeOK, ArchiveOK, WatcherOK, HistoryOK
<1>3. acked \in Nat
  BY DEF TypeOK, ArchiveOK, WatcherOK, HistoryOK
<1> QED
  BY <1>2, <1>3 DEF Snapshot, Saved, TypeOK, ArchiveOK, WatcherOK, HistoryOK

\* What flushing and evicting leave behind.
LEMMA DrainedType ==
    ASSUME TypeOK, NEW R \in SUBSET OpenOnes, Drained(R)
    PROVE  /\ batch' \in SUBSET Turn
           /\ seq' \in Nat /\ seqSeen' \in Time \cup {0}
           /\ open' \in [Resps -> Time \cup {0}]
           /\ \A r \in Resps : open'[r] # 0 => open[r] # 0
           /\ cut' \in SUBSET Resps
<1> DEFINE nameless == {r \in R : ~Named(r)}
           numbers  == seq + 1..seq + Cardinality(nameless)
<1>1. R \in SUBSET Resps /\ \A r \in R : open[r] \in Time
  BY DEF OpenOnes, TypeOK, ArchiveOK, WatcherOK, HistoryOK
<1>2. Cardinality(nameless) \in Nat
  <2>1. nameless \in SUBSET Resps
    BY <1>1
  <2> HIDE DEF nameless
  <2> QED
    BY <2>1, CountOfResps
<1>3. seq' \in Nat
  BY <1>2 DEF Drained, TypeOK, ArchiveOK, WatcherOK, HistoryOK
<1>4. batch' \in SUBSET Turn
  <2>1. PICK n \in [nameless -> numbers] :
           batch' = {[resp |-> r, done |-> FALSE, delta |-> 0, reset |-> FALSE,
                      id |-> IF Named(r) THEN 0 ELSE n[r], at |-> open[r]] : r \in R}
    BY DEF Drained
  <2>2. numbers \subseteq Nat
    BY <1>2 DEF TypeOK, ArchiveOK, WatcherOK, HistoryOK
  <2>3. \A r \in R : (IF Named(r) THEN 0 ELSE n[r]) \in Nat
    <3> HIDE DEF numbers
    <3> QED
      BY <2>1, <2>2
  <2>4. \A r \in R : [resp |-> r, done |-> FALSE, delta |-> 0, reset |-> FALSE,
                      id |-> IF Named(r) THEN 0 ELSE n[r], at |-> open[r]] \in Turn
    BY <1>1, <2>3 DEF Turn
  <2> QED
    BY <2>1, <2>4
<1>5. seqSeen' \in Time \cup {0}
  <2>1. {open[r] : r \in nameless} \in SUBSET (Time \cup {0})
    BY <1>1
  <2> QED
    BY <2>1, NewestIsStamp DEF Drained, TypeOK, ArchiveOK, WatcherOK, HistoryOK
<1>6. /\ open' \in [Resps -> Time \cup {0}]
      /\ \A r \in Resps : open'[r] # 0 => open[r] # 0
  BY DEF Drained, TypeOK, ArchiveOK, WatcherOK, HistoryOK
<1>7. cut' \in SUBSET Resps
  BY <1>1 DEF Drained, TypeOK, ArchiveOK, WatcherOK, HistoryOK
<1> QED
  BY <1>3, <1>4, <1>5, <1>6, <1>7

-----------------------------------------------------------------------------
(* The steps.                                                              *)

LEMMA InitIInv == Init => IInv
<1> SUFFICES ASSUME Init PROVE IInv
  OBVIOUS
<1>1. None \in Reading
  BY DEF None, Reading
<1>2. log \in Seq([what : {"create", "timing"}, resp : Resps]) /\ Len(log) = 0
  <2> DEFINE Rec == [what : {"create", "timing"}, resp : Resps]
  <2> HIDE DEF Rec
  <2>1. log \in Seq(Rec) /\ Len(log) = 0
    BY DEF Init
  <2> QED
    BY <2>1 DEF Rec
<1>3. /\ kind \in [Resps -> Kinds \cup {"new"}]
      /\ start \in [Resps -> Time \cup {0}] /\ finish \in [Resps -> Time \cup {0}]
      /\ reading \in [Resps -> Reading] /\ before \in [Resps -> Resps \cup {0}]
      /\ current \in [Kinds -> Resps \cup {0}] /\ latest \in [Kinds -> Resps \cup {0}]
      /\ open \in [Resps -> Time \cup {0}]
      /\ prev \in [Series -> Reading] /\ lastSeen \in [Series -> Time \cup {0}]
  BY <1>1 DEF Init
<1>4. SeqSeen \in Time \cup {0}
  <2>1. {lastSeen[k] : k \in Series} \in SUBSET (Time \cup {0})
    BY <1>3
  <2> QED
    BY <2>1, NewestIsStamp DEF SeqSeen, Init
<1>5. disk \in Saved /\ disk.acked <= Len(log)
  BY <1>2, <1>3, <1>4 DEF Init, Snapshot, Saved
<1>6. TypeOK
  <2>1. ArchiveOK
    BY <1>2, <1>3, Bounds DEF Init, ArchiveOK, Time
  <2>2. WatcherOK
    BY <1>2, <1>3, <1>5, Bounds DEF Init, WatcherOK
  <2>3. HistoryOK
    <3>1. cut = {} /\ refused = {} /\ ids = {} /\ mishaps = 0 /\ unsaved = FALSE
      BY DEF Init
    <3>2. mishaps \in 0..MaxMishaps
      BY <3>1, Bounds
    <3>3. cut \in SUBSET Resps /\ refused \in SUBSET Resps
          /\ ids \in SUBSET [resp : Resps, id : Nat, at : Time]
      BY <3>1
    <3> QED
      BY <3>1, <3>2, <3>3 DEF HistoryOK
  <2> QED
    BY <2>1, <2>2, <2>3 DEF TypeOK
<1>7. Created /\ Stamped
  BY <1>2 DEF Init, Created, Stamped
<1> QED
  BY <1>6, <1>7 DEF IInv

\* Appending a record disturbs nothing of the watcher's.
LEMMA LongerLog ==
    ASSUME TypeOK, Len(log') = Len(log) + 1, 
           UNCHANGED <<pc, pos, acked, batch, again, watermark, open, stateVars, disk>>
    PROVE  WatcherOK'
<1>1. Len(log) \in Nat
  BY DEF TypeOK, ArchiveOK
<1>2. pos' \in 0..Len(log') /\ acked' \in 0..pos' /\ disk'.acked <= Len(log')
  BY <1>1 DEF TypeOK, WatcherOK, Saved
<1> QED
  BY <1>2 DEF TypeOK, WatcherOK, stateVars

LEMMA CreateIInv == IInv /\ (\E k \in Kinds : Create(k)) => IInv'
<1> SUFFICES ASSUME IInv, NEW k \in Kinds, Create(k) PROVE IInv'
  OBVIOUS
<1> USE DEF IInv
<1>1. PICK r \in Resps, ts \in Time :
         /\ kind[r] = "new" /\ kind' = [kind EXCEPT ![r] = k]
         /\ Stamp(ts) /\ start' = [start EXCEPT ![r] = ts]
         /\ current' = [current EXCEPT ![k] = r]
         /\ log' = Append(log, [what |-> "create", resp |-> r])
  BY DEF Create
<1>2. UNCHANGED <<finish, reading, before, latest, pc, pos, acked, batch, again, watermark,
                  open, stateVars, disk, historyVars>>
  BY DEF Create
<1>3. "new" \notin Kinds
  BY DeltasAssumption
<1> DEFINE Rec == [what : {"create", "timing"}, resp : Resps]
<1>4. /\ log' \in Seq(Rec) /\ Len(log') = Len(log) + 1
      /\ \A i \in 1..Len(log) : log'[i] = log[i]
      /\ log'[Len(log) + 1] = [what |-> "create", resp |-> r]
      /\ \A i \in 1..Len(log) : log[i].resp \in Resps
  <2>1. log \in Seq(Rec) /\ [what |-> "create", resp |-> r] \in Rec
    BY DEF TypeOK, ArchiveOK, WatcherOK, HistoryOK
  <2>2. \A x \in Rec : x.resp \in Resps
    OBVIOUS
  <2> HIDE DEF Rec
  <2> QED
    BY <1>1, <2>1, <2>2
<1>5. clock' \in Time
  BY <1>1 DEF Stamp, TypeOK, ArchiveOK, WatcherOK, HistoryOK, Time
<1>6. TypeOK'
  <2>1. ArchiveOK'
    BY <1>1, <1>2, <1>4, <1>5 DEF TypeOK, ArchiveOK
  <2>2. WatcherOK'
    BY <1>2, <1>4, LongerLog
  <2>3. HistoryOK'
    BY <1>2 DEF TypeOK, HistoryOK, historyVars
  <2> QED
    BY <2>1, <2>2, <2>3 DEF TypeOK
<1>7. Created'
  BY <1>1, <1>2, <1>3, <1>4 DEF Created, TypeOK, ArchiveOK, WatcherOK, HistoryOK
<1>8. Stamped'
  BY <1>1, <1>2, <1>4 DEF Stamped
<1> QED
  BY <1>6, <1>7, <1>8

LEMMA CompleteIInv == IInv /\ (\E k \in Kinds : Complete(k)) => IInv'
<1> SUFFICES ASSUME IInv, NEW k \in Kinds, Complete(k) PROVE IInv'
  OBVIOUS
<1> USE DEF IInv
<1> DEFINE r == current[k]
<1>1. r \in Resps /\ kind[r] \in Kinds
  BY DEF Complete, TypeOK, ArchiveOK, WatcherOK, HistoryOK, Created
<1>2. PICK m \in Totals(k, r), ts \in Time :
         /\ reading' = [reading EXCEPT ![r] = m]
         /\ Stamp(ts) /\ finish' = [finish EXCEPT ![r] = ts]
         /\ before' = [before EXCEPT ![r] = latest[k]]
         /\ latest' = [latest EXCEPT ![k] = r]
         /\ log' = Append(log, [what |-> "timing", resp |-> r])
         /\ current' = [current EXCEPT ![k] = 0]
  BY DEF Complete
<1>3. UNCHANGED <<kind, start, pc, pos, acked, batch, again, watermark, open, stateVars, disk,
                  historyVars>>
  BY DEF Complete
<1>4. m \in Reading
  <2>1. Work[r] \in Nat
    BY <1>1, DeltasAssumption
  <2>2. latest[k] # 0 => reading[latest[k]] \in Reading
    BY DEF TypeOK, ArchiveOK, WatcherOK, HistoryOK
  <2> QED
    BY <1>2, <2>1, <2>2 DEF Totals, None, Reading
<1> DEFINE Rec == [what : {"create", "timing"}, resp : Resps]
<1>5. /\ log' \in Seq(Rec) /\ Len(log') = Len(log) + 1
      /\ \A i \in 1..Len(log) : log'[i] = log[i]
      /\ log'[Len(log) + 1] = [what |-> "timing", resp |-> r]
      /\ \A i \in 1..Len(log) : log[i].resp \in Resps
  <2>1. log \in Seq(Rec) /\ [what |-> "timing", resp |-> r] \in Rec
    BY <1>1 DEF TypeOK, ArchiveOK, WatcherOK, HistoryOK
  <2>2. \A x \in Rec : x.resp \in Resps
    OBVIOUS
  <2> HIDE DEF Rec, r
  <2> QED
    BY <1>2, <2>1, <2>2
<1>6. clock' \in Time
  BY <1>2 DEF Stamp, TypeOK, ArchiveOK, WatcherOK, HistoryOK, Time
<1>7. TypeOK'
  <2> HIDE DEF r
  <2>1. ArchiveOK'
    BY <1>1, <1>2, <1>3, <1>4, <1>5, <1>6 DEF TypeOK, ArchiveOK
  <2>2. WatcherOK'
    BY <1>3, <1>5, LongerLog
  <2>3. HistoryOK'
    BY <1>3 DEF TypeOK, HistoryOK, historyVars
  <2> QED
    BY <2>1, <2>2, <2>3 DEF TypeOK
<1>8. Created'
  <2> HIDE DEF r
  <2>1. \A i \in 1..Len(log') : kind'[log'[i].resp] \in Kinds
    <3>1. \A i \in 1..Len(log') : i \in 1..Len(log) \/ i = Len(log) + 1
      BY <1>5 DEF TypeOK, ArchiveOK
    <3> QED
      BY <1>1, <1>3, <1>5, <3>1 DEF Created
  <2>2. \A q \in Kinds : current'[q] # 0 => kind'[current'[q]] \in Kinds
    BY <1>2, <1>3 DEF Created, TypeOK, ArchiveOK
  <2> QED
    BY <1>3, <2>1, <2>2 DEF Created
<1>9. Stamped'
  <2>1. 0 \notin Time
    BY DEF Time
  <2> HIDE DEF r
  <2> QED
    BY <1>1, <1>2, <1>3, <1>5, <2>1 DEF Stamped, TypeOK, ArchiveOK, WatcherOK, HistoryOK
<1> QED
  BY <1>7, <1>8, <1>9

\* Every record is about a response.
LEMMA RecordsTyped == TypeOK => \A i \in 1..Len(log) : log[i].resp \in Resps
<1> SUFFICES ASSUME TypeOK, NEW i \in 1..Len(log) PROVE log[i].resp \in Resps
  OBVIOUS
<1> DEFINE Rec == [what : {"create", "timing"}, resp : Resps]
<1>1. \A x \in Rec : x.resp \in Resps
  OBVIOUS
<1>2. log \in Seq(Rec)
  BY DEF TypeOK, ArchiveOK
<1> HIDE DEF Rec
<1>3. log[i] \in Rec
  BY <1>2
<1> QED
  BY <1>1, <1>3

\* A step of the watcher leaves the archive alone.
LEMMA WatcherStep ==
    ASSUME IInv, UNCHANGED archiveVars, WatcherOK', HistoryOK',
           \A r \in Resps : open'[r] # 0 => kind[r] \in Kinds
    PROVE  IInv'
<1>1. ArchiveOK'
  BY DEF IInv, TypeOK, ArchiveOK, archiveVars
<1>2. Created' /\ Stamped'
  BY DEF IInv, Created, Stamped, archiveVars
<1> QED
  BY <1>1, <1>2 DEF IInv, TypeOK

LEMMA OpensIInv == IInv /\ Opens => IInv'
<1> SUFFICES ASSUME IInv, Opens PROVE IInv'
  OBVIOUS
<1> DEFINE r == log[pos + 1].resp
<1>1. /\ pos + 1 \in 1..Len(log) /\ pos' = pos + 1
      /\ open' = [open EXCEPT ![r] = start[r]]
      /\ watermark' = LaterOf(watermark, start[r])
      /\ UNCHANGED <<archiveVars, pc, acked, batch, again, stateVars, disk, historyVars>>
  BY DEF Opens, IInv, TypeOK, ArchiveOK, WatcherOK
<1>2. r \in Resps /\ kind[r] \in Kinds
  BY <1>1, RecordsTyped DEF IInv, Created
<1>3. start[r] \in Time \cup {0}
  BY <1>2 DEF IInv, TypeOK, ArchiveOK
<1> HIDE DEF r
<1>4. WatcherOK'
  <2>1. pos' \in 0..Len(log') /\ acked' \in 0..pos'
    BY <1>1 DEF IInv, TypeOK, ArchiveOK, WatcherOK, archiveVars
  <2>2. open' \in [Resps -> Time \cup {0}] /\ watermark' \in Time \cup {0}
    BY <1>1, <1>3 DEF IInv, TypeOK, WatcherOK, LaterOf
  <2> QED
    BY <1>1, <2>1, <2>2 DEF IInv, TypeOK, WatcherOK, archiveVars, stateVars
<1>5. HistoryOK'
  BY <1>1 DEF IInv, TypeOK, HistoryOK, historyVars
<1>6. \A q \in Resps : open'[q] # 0 => kind[q] \in Kinds
  BY <1>1, <1>2 DEF IInv, TypeOK, WatcherOK, Created
<1> QED
  BY <1>1, <1>4, <1>5, <1>6, WatcherStep

LEMMA ClosesIInv == IInv /\ Closes => IInv'
<1> SUFFICES ASSUME IInv, Closes PROVE IInv'
  OBVIOUS
<1> DEFINE r    == log[pos + 1].resp
           key  == SeriesKey(r)
           base == IF Begins(r) THEN None ELSE prev[key]
           seq1 == IF Begins(r) THEN seq + 1 ELSE seq
           t    == [resp |-> r, done |-> TRUE, delta |-> reading[r].total - base.total,
                    reset |-> ~Seen(r), id |-> IF Begins(r) /\ ~Named(r) THEN seq1 ELSE 0,
                    at |-> finish[r]]
<1>1. /\ pos + 1 \in 1..Len(log) /\ pos' = pos + 1
      /\ log[pos + 1].what = "timing"
      /\ seq' = seq1
      /\ seqSeen' = IF Begins(r) THEN LaterOf(seqSeen, finish[r]) ELSE seqSeen
      /\ batch' = batch \cup {t}
      /\ IF reading[r] = None THEN UNCHANGED <<prev, lastSeen>>
         ELSE /\ prev' = [prev EXCEPT ![key] = reading[r]]
              /\ lastSeen' = [lastSeen EXCEPT ![key] = finish[r]]
      /\ open' = [open EXCEPT ![r] = 0]
      /\ watermark' = LaterOf(watermark, finish[r])
      /\ UNCHANGED <<archiveVars, pc, acked, again, disk, historyVars>>
  BY DEF Closes, IInv, TypeOK, ArchiveOK, WatcherOK
<1>2. r \in Resps
  BY <1>1, RecordsTyped DEF IInv
<1>3. finish[r] \in Time /\ reading[r] \in Reading
  BY <1>1, <1>2 DEF IInv, TypeOK, ArchiveOK, Stamped
<1>4. key \in Series
  BY <1>2, SeriesOf DEF IInv, Created
<1>5. base \in Reading
  BY <1>4 DEF IInv, TypeOK, WatcherOK, None, Reading
<1>6. seq1 \in Nat
  BY DEF IInv, TypeOK, WatcherOK
<1>7. t \in Turn
  <2>1. reading[r].total - base.total \in Int
    BY <1>3, <1>5 DEF Reading
  <2>2. (~Seen(r)) \in BOOLEAN
    BY DEF Seen
  <2>3. (IF Begins(r) /\ ~Named(r) THEN seq1 ELSE 0) \in Nat
    BY <1>6
  <2> HIDE DEF base, r, seq1
  <2> QED
    BY <1>2, <1>3, <2>1, <2>2, <2>3 DEF Turn
<1> HIDE DEF r, key, base, seq1, t
<1>8. WatcherOK'
  <2>1. pos' \in 0..Len(log') /\ acked' \in 0..pos'
    BY <1>1 DEF IInv, TypeOK, ArchiveOK, WatcherOK, archiveVars
  <2>2. open' \in [Resps -> Time \cup {0}] /\ watermark' \in Time \cup {0}
    BY <1>1, <1>3 DEF IInv, TypeOK, WatcherOK, LaterOf
  <2>3. seq' \in Nat /\ seqSeen' \in Time \cup {0}
    BY <1>1, <1>3, <1>6 DEF IInv, TypeOK, WatcherOK, LaterOf
  <2>4. prev' \in [Series -> Reading] /\ lastSeen' \in [Series -> Time \cup {0}]
    BY <1>1, <1>3 DEF IInv, TypeOK, WatcherOK
  <2>5. batch' \in SUBSET Turn
    BY <1>1, <1>7 DEF IInv, TypeOK, WatcherOK
  <2> QED
    BY <1>1, <2>1, <2>2, <2>3, <2>4, <2>5 DEF IInv, TypeOK, WatcherOK, archiveVars
<1>9. HistoryOK'
  BY <1>1 DEF IInv, TypeOK, HistoryOK, historyVars
<1>10. \A q \in Resps : open'[q] # 0 => kind[q] \in Kinds
  BY <1>1 DEF IInv, TypeOK, WatcherOK, Created
<1> QED
  BY <1>1, <1>8, <1>9, <1>10, WatcherStep

\* A record of another thread moves the clock and the watermark.
LEMMA ElsewhereIInv == IInv /\ Elsewhere => IInv'
<1> SUFFICES ASSUME IInv, Elsewhere PROVE IInv'
  OBVIOUS
<1>1. PICK ts \in Time : watermark' = ts /\ clock' = LaterOf(clock, ts)
  BY DEF Elsewhere
<1>2. UNCHANGED <<log, kind, start, finish, reading, before, current, latest, pc, pos,
                  acked, batch, again, open, stateVars, disk, historyVars>>
  BY DEF Elsewhere
<1>3. ArchiveOK'
  BY <1>1, <1>2 DEF IInv, TypeOK, ArchiveOK, LaterOf
<1>4. WatcherOK'
  BY <1>1, <1>2 DEF IInv, TypeOK, WatcherOK, stateVars
<1>5. HistoryOK'
  BY <1>2 DEF IInv, TypeOK, HistoryOK, historyVars
<1>6. Created' /\ Stamped'
  BY <1>2 DEF IInv, Created, Stamped
<1> QED
  BY <1>3, <1>4, <1>5, <1>6 DEF IInv, TypeOK

LEMMA ChunkEndsIInv == IInv /\ ChunkEnds => IInv'
<1> SUFFICES ASSUME IInv, ChunkEnds PROVE IInv'
  OBVIOUS
<1>1. WatcherOK'
  BY DEF ChunkEnds, IInv, TypeOK, ArchiveOK, WatcherOK, archiveVars, stateVars
<1>2. HistoryOK'
  BY DEF ChunkEnds, IInv, TypeOK, HistoryOK, historyVars
<1> QED
  BY <1>1, <1>2, WatcherStep DEF ChunkEnds, IInv, Created

\* What the sinks accept are numbers given to responses.
LEMMA AcceptedIds ==
    ASSUME TypeOK
    PROVE  ids \cup {[resp |-> t.resp, id |-> t.id, at |-> t.at] : t \in Accepted}
               \in SUBSET [resp : Resps, id : Nat, at : Time]
<1>1. \A t \in Accepted : t \in Turn
  BY DEF Accepted, TypeOK, WatcherOK
<1>2. \A t \in Turn : t.resp \in Resps /\ t.id \in Nat /\ t.at \in Time
  BY DEF Turn
<1> QED
  BY <1>1, <1>2 DEF TypeOK, HistoryOK

LEMMA EmitAcceptedIInv == IInv /\ EmitAccepted => IInv'
<1> SUFFICES ASSUME IInv, EmitAccepted PROVE IInv'
  OBVIOUS
<1>1. WatcherOK'
  BY DEF EmitAccepted, IInv, TypeOK, ArchiveOK, WatcherOK, archiveVars, stateVars
<1>2. HistoryOK'
  BY AcceptedIds DEF EmitAccepted, IInv, TypeOK, HistoryOK
<1> QED
  BY <1>1, <1>2, WatcherStep DEF EmitAccepted, IInv, Created

LEMMA EmitRefusedIInv == IInv /\ EmitRefused => IInv'
<1> SUFFICES ASSUME IInv, EmitRefused PROVE IInv'
  OBVIOUS
<1>1. WatcherOK'
  BY DEF EmitRefused, LaterOf, IInv, TypeOK, ArchiveOK, WatcherOK, archiveVars, stateVars
<1>2. HistoryOK'
  <2>1. \A t \in batch : t.resp \in Resps
    BY DEF IInv, TypeOK, WatcherOK, Turn
  <2>2. mishaps' \in 0..MaxMishaps
    BY Bounds DEF EmitRefused, IInv, TypeOK, HistoryOK
  <2> QED
    BY <2>1, <2>2 DEF EmitRefused, IInv, TypeOK, HistoryOK
<1> QED
  BY <1>1, <1>2, WatcherStep DEF EmitRefused, IInv, Created

LEMMA EvictOpenIInv == IInv /\ EvictOpen => IInv'
<1> SUFFICES ASSUME IInv, EvictOpen PROVE IInv'
  OBVIOUS
<1>1. PICK R \in SUBSET OpenOnes : Drained(R)
  BY DEF EvictOpen
<1>2. /\ batch' \in SUBSET Turn
      /\ seq' \in Nat /\ seqSeen' \in Time \cup {0}
      /\ open' \in [Resps -> Time \cup {0}]
      /\ \A r \in Resps : open'[r] # 0 => open[r] # 0
      /\ cut' \in SUBSET Resps
  BY <1>1, DrainedType DEF IInv
<1>3. WatcherOK'
  BY <1>2 DEF EvictOpen, IInv, TypeOK, ArchiveOK, WatcherOK, archiveVars
<1>4. HistoryOK'
  BY <1>2 DEF EvictOpen, IInv, TypeOK, HistoryOK
<1> QED
  BY <1>2, <1>3, <1>4, WatcherStep DEF EvictOpen, IInv, Created

LEMMA StopIInv == IInv /\ Stop => IInv'
<1> SUFFICES ASSUME IInv, Stop PROVE IInv'
  OBVIOUS
<1>1. /\ batch' \in SUBSET Turn
      /\ seq' \in Nat /\ seqSeen' \in Time \cup {0}
      /\ open' \in [Resps -> Time \cup {0}]
      /\ \A r \in Resps : open'[r] # 0 => open[r] # 0
      /\ cut' \in SUBSET Resps
  BY DrainedType DEF Stop, IInv
<1>2. WatcherOK'
  BY <1>1 DEF Stop, IInv, TypeOK, ArchiveOK, WatcherOK, archiveVars
<1>3. HistoryOK'
  BY <1>1, Bounds DEF Stop, IInv, TypeOK, HistoryOK
<1> QED
  BY <1>1, <1>2, <1>3, WatcherStep DEF Stop, IInv, Created

LEMMA EvictStateIInv == IInv /\ EvictState => IInv'
<1> SUFFICES ASSUME IInv, EvictState PROVE IInv'
  OBVIOUS
<1>1. UNCHANGED <<archiveVars, pc, pos, acked, batch, again, watermark, open, historyVars>>
  BY DEF EvictState
<1>2. prev' \in [Series -> Reading] /\ lastSeen' \in [Series -> Time \cup {0}]
  <2>1. None \in Reading
    BY DEF None, Reading
  <2> QED
    BY <2>1 DEF EvictState, IInv, TypeOK, WatcherOK
<1>3. seq' \in Nat /\ seqSeen' \in Time \cup {0}
  <2>1. {lastSeen[k] : k \in Series} \in SUBSET (Time \cup {0})
    BY DEF IInv, TypeOK, WatcherOK
  <2>2. SeqSeen \in Time \cup {0}
    BY <2>1, NewestIsStamp DEF SeqSeen, IInv, TypeOK, WatcherOK
  <2> QED
    BY <2>2 DEF EvictState, IInv, TypeOK, WatcherOK
<1>4. disk' \in Saved /\ disk'.acked = acked
  <2>1. {lastSeen'[k] : k \in Series} \in SUBSET (Time \cup {0})
    BY <1>2
  <2>2. SeqSeen' \in Time \cup {0}
    BY <1>3, <2>1, NewestIsStamp DEF SeqSeen
  <2>3. disk' = [acked |-> acked', prev |-> prev', lastSeen |-> lastSeen', seq |-> seq',
                 seqSeen |-> SeqSeen']
    BY DEF EvictState, Snapshot
  <2>4. acked' = acked /\ acked \in Nat
    BY <1>1 DEF IInv, TypeOK, WatcherOK
  <2> QED
    BY <1>2, <1>3, <2>2, <2>3, <2>4 DEF Saved
<1>5. WatcherOK'
  BY <1>1, <1>2, <1>3, <1>4 DEF IInv, TypeOK, ArchiveOK, WatcherOK, archiveVars
<1>6. HistoryOK'
  BY <1>1 DEF IInv, TypeOK, HistoryOK, historyVars
<1> QED
  BY <1>1, <1>5, <1>6, WatcherStep DEF IInv, Created

LEMMA SaveIInv == IInv /\ Save => IInv'
<1> SUFFICES ASSUME IInv, Save PROVE IInv'
  OBVIOUS
<1>1. disk' \in Saved /\ disk'.acked = acked
  BY SnapshotType DEF Save, IInv, Snapshot
<1>2. WatcherOK'
  BY <1>1 DEF Save, IInv, TypeOK, ArchiveOK, WatcherOK, archiveVars, stateVars
<1>3. HistoryOK'
  BY DEF Save, IInv, TypeOK, HistoryOK, historyVars
<1> QED
  BY <1>2, <1>3, WatcherStep DEF Save, IInv, Created

\* The end of a process leaves a checkpoint file of the right shape.
LEMMA DieIInv ==
    ASSUME IInv, Die, UNCHANGED archiveVars,
           disk' \in Saved, disk'.acked <= Len(log),
           refused' = refused, mishaps' \in 0..MaxMishaps, unsaved' \in BOOLEAN,
           ids' \in SUBSET [resp : Resps, id : Nat, at : Time]
    PROVE  IInv'
<1>1. None \in Reading
  BY DEF None, Reading
<1>2. WatcherOK'
  BY <1>1 DEF Die, IInv, TypeOK, ArchiveOK, WatcherOK, archiveVars
<1>3. cut' \in SUBSET Resps
  BY DEF Die, Gone, IInv, TypeOK, HistoryOK
<1>4. HistoryOK'
  BY <1>3 DEF IInv, TypeOK, HistoryOK
<1> QED
  BY <1>2, <1>4, WatcherStep DEF Die

LEMMA EndIInv == IInv /\ (FlushAccepted \/ FlushRefused \/ Crash) => IInv'
<1>1. ASSUME IInv, FlushAccepted PROVE IInv'
  <2>1. disk' \in Saved /\ disk'.acked = acked
    BY <1>1, SnapshotType DEF FlushAccepted, IInv, Snapshot
  <2>2. disk'.acked <= Len(log)
    BY <1>1, <2>1 DEF IInv, TypeOK, ArchiveOK, WatcherOK
  <2>3. ids' \in SUBSET [resp : Resps, id : Nat, at : Time]
    BY <1>1, AcceptedIds DEF FlushAccepted, IInv
  <2>4. mishaps' \in 0..MaxMishaps /\ unsaved' \in BOOLEAN
    BY <1>1 DEF FlushAccepted, IInv, TypeOK, HistoryOK
  <2> QED
    BY <1>1, <2>1, <2>2, <2>3, <2>4, DieIInv DEF FlushAccepted
<1>2. ASSUME IInv, FlushRefused PROVE IInv'
  <2>1. disk' \in Saved /\ disk'.acked <= Len(log)
    BY <1>2 DEF FlushRefused, IInv, TypeOK, WatcherOK
  <2>2. /\ ids' \in SUBSET [resp : Resps, id : Nat, at : Time]
        /\ mishaps' \in 0..MaxMishaps /\ unsaved' \in BOOLEAN
    BY <1>2 DEF FlushRefused, IInv, TypeOK, HistoryOK
  <2> QED
    BY <1>2, <2>1, <2>2, DieIInv DEF FlushRefused
<1>3. ASSUME IInv, Crash PROVE IInv'
  <2>1. disk' \in Saved /\ disk'.acked <= Len(log)
    BY <1>3 DEF Crash, IInv, TypeOK, WatcherOK
  <2>2. /\ ids' \in SUBSET [resp : Resps, id : Nat, at : Time]
        /\ mishaps' \in 0..MaxMishaps /\ unsaved' \in BOOLEAN
    BY <1>3, Bounds DEF Crash, IInv, TypeOK, HistoryOK
  <2> QED
    BY <1>3, <2>1, <2>2, DieIInv DEF Crash
<1> QED
  BY <1>1, <1>2, <1>3

LEMMA StartIInv == IInv /\ Start => IInv'
<1> SUFFICES ASSUME IInv, Start PROVE IInv'
  OBVIOUS
<1>1. /\ disk.acked \in 0..Len(log) /\ disk.prev \in [Series -> Reading]
      /\ disk.lastSeen \in [Series -> Time \cup {0}]
      /\ disk.seq \in Nat /\ disk.seqSeen \in Time \cup {0}
  BY DEF IInv, TypeOK, ArchiveOK, WatcherOK, Saved
<1>2. WatcherOK'
  BY <1>1 DEF Start, IInv, TypeOK, ArchiveOK, WatcherOK, archiveVars
<1>3. HistoryOK'
  BY DEF Start, IInv, TypeOK, HistoryOK, historyVars
<1> QED
  BY <1>2, <1>3, WatcherStep DEF Start, IInv, Created

LEMMA StepIInv == IInv /\ [Next]_vars => IInv'
<1>1. ASSUME IInv, UNCHANGED vars PROVE IInv'
  <2>1. WatcherOK'
    BY <1>1 DEF vars, archiveVars, stateVars, IInv, TypeOK, WatcherOK
  <2>2. HistoryOK'
    BY <1>1 DEF vars, historyVars, IInv, TypeOK, HistoryOK
  <2> QED
    BY <1>1, <2>1, <2>2, WatcherStep DEF vars, IInv, Created
<1> QED
  BY <1>1, CreateIInv, CompleteIInv, OpensIInv, ClosesIInv, ElsewhereIInv, ChunkEndsIInv,
     EmitAcceptedIInv, EmitRefusedIInv, EvictOpenIInv, EvictStateIInv, SaveIInv, StopIInv,
     EndIInv, StartIInv DEF Next, Backend, Watcher

\* Baselines, numbers, stamps and offsets keep their shape whatever happens,
\* and no turn is subtracted from a baseline that is not a reading.
THEOREM TypeCorrect == Spec => []TypeOK
<1>1. IInv => TypeOK
  BY DEF IInv
<1> QED
  BY <1>1, InitIInv, StepIInv, PTL DEF Spec

-----------------------------------------------------------------------------
(* The deltas.  What a turn is subtracted from was put there by the        *)
(* response that reported before it in its series, whoever was in between. *)
(* The invariant says so of every place the reducer can be at, or be set   *)
(* back to: of pos and the baselines in memory, and of the checkpoint.     *)

\* Record i reports the timing of a response of kind k.
IsReport(k, i) == log[i].what = "timing" /\ kind[log[i].resp] = k

\* b reported last of its kind in the first p records, 0 for nobody.
IsLast(b, k, p) ==
    IF b = 0 THEN \A i \in 1..p : ~IsReport(k, i)
    ELSE \E i \in 1..p : /\ IsReport(k, i) /\ log[i].resp = b
                         /\ \A j \in i + 1..p : ~IsReport(k, j)

\* Created within the first p records, not completed within them.
UnderWay(r, p) ==
    /\ \E i \in 1..p : log[i] = [what |-> "create", resp |-> r]
    /\ \A i \in 1..p : log[i] # [what |-> "timing", resp |-> r]

Told(r) ==
    IF kind[r] = "prewarm" THEN reading[r] = None
    ELSE \/ reading[r] = [calls |-> 1, total |-> Work[r]]
         \/ /\ before[r] # 0
            /\ reading[r] = [calls |-> reading[before[r]].calls + 1,
                             total |-> reading[before[r]].total + Work[r]]

\* The archive as protocol and writer leave it.
OnceEach == \A i, j \in 1..Len(log) : log[i] = log[j] => i = j

CreatedFirst ==
    \A i \in 1..Len(log) : log[i].what = "timing" =>
        \E j \in 1..i - 1 : log[j] = [what |-> "create", resp |-> log[i].resp]

StartStamped == \A i \in 1..Len(log) : log[i].what = "create" => start[log[i].resp] # 0

InSeries ==
    \A i \in 1..Len(log) : log[i].what = "timing" =>
        LET r == log[i].resp
        IN  Told(r) /\ IsLast(before[r], kind[r], i - 1)

LatestIsLast == \A k \in Kinds : IsLast(latest[k], k, Len(log))

CurrentIsUnderWay ==
    \A k \in Kinds : current[k] # 0 =>
        kind[current[k]] = k /\ UnderWay(current[k], Len(log))

ArchiveInv ==
    /\ OnceEach /\ CreatedFirst /\ StartStamped
    /\ InSeries /\ LatestIsLast /\ CurrentIsUnderWay

\* Baseline v of kind k belongs behind the first p records: it is that of the
\* response that reported last, unless that one is excused or the next one is.
Excused == cut \cup refused

Fits(k, p, v) ==
    \A b \in Resps \cup {0} : IsLast(b, k, p) =>
        \/ v = None \/ b \in Excused \/ (b # 0 /\ v = reading[b])
        \/ \E i \in p + 1..Len(log) :
              /\ IsReport(k, i) /\ log[i].resp \in refused
              /\ \A j \in p + 1..i - 1 : ~IsReport(k, j)

BaselinesFit == \A k \in Kinds : Fits(k, pos, prev[k]) /\ Fits(k, disk.acked, disk.prev[k])

\* A prewarm leaves no baseline.
PrewarmsSilent ==
    "prewarm" \in Kinds => prev["prewarm"] = None /\ disk.prev["prewarm"] = None

\* What the reducer holds open is what is under way where it stands.
OpenOrExcused ==
    /\ pc # "down" => \A r \in Resps : UnderWay(r, pos) => open[r] # 0 \/ r \in Excused
    /\ pc = "down" => \A r \in Resps : UnderWay(r, disk.acked) => r \in Excused

\* A batch holds whatever completed behind the offset.
BatchReported ==
    /\ \A i \in acked + 1..pos : log[i].what = "timing" => \E t \in batch : t.resp = log[i].resp
    /\ pc = "flush" => acked = pos
    /\ \A t \in batch : t.done =>
           \E i \in 1..Len(log) : log[i] = [what |-> "timing", resp |-> t.resp]

MInv ==
    /\ IInv /\ ArchiveInv
    /\ BaselinesFit /\ PrewarmsSilent /\ OpenOrExcused /\ BatchReported
    /\ DeltasAreMeasured

-----------------------------------------------------------------------------
(* Lemmas about records in their order.                                    *)

LEMMA RecordShape ==
    ASSUME TypeOK, NEW i \in 1..Len(log)
    PROVE  /\ log[i].resp \in Resps /\ log[i].what \in {"create", "timing"}
           /\ log[i] = [what |-> log[i].what, resp |-> log[i].resp]
<1> DEFINE Rec == [what : {"create", "timing"}, resp : Resps]
<1>1. \A x \in Rec : /\ x.resp \in Resps /\ x.what \in {"create", "timing"}
                     /\ x = [what |-> x.what, resp |-> x.resp]
  OBVIOUS
<1>2. log \in Seq(Rec)
  BY DEF TypeOK, ArchiveOK
<1> HIDE DEF Rec
<1>3. log[i] \in Rec
  BY <1>2
<1> QED
  BY <1>1, <1>3

LEMMA LogLength == TypeOK => Len(log) \in Nat /\ pos \in 0..Len(log) /\ acked \in 0..pos
                             /\ disk.acked \in 0..Len(log)
  BY DEF TypeOK, ArchiveOK, WatcherOK, Saved

\* A record that reports nothing of the kind changes nothing; one that does is
\* the last.
LEMMA NextIsOther ==
    ASSUME NEW b, NEW k, NEW p \in Nat, ~IsReport(k, p + 1)
    PROVE  IsLast(b, k, p + 1) <=> IsLast(b, k, p)
  BY DEF IsLast

LEMMA NextIsOtherPrimed ==
    ASSUME NEW b, NEW k, NEW p \in Nat, ~IsReport(k, p + 1)'
    PROVE  IsLast(b, k, p + 1)' <=> IsLast(b, k, p)'
  BY DEF IsLast

LEMMA NextIsLast ==
    ASSUME NEW b, NEW k, NEW p \in Nat, IsReport(k, p + 1), IsLast(b, k, p + 1)
    PROVE  b # 0 /\ b = log[p + 1].resp
  BY DEF IsLast

\* Whoever reported last has a record of it.
LEMMA LastHasReport ==
    ASSUME NEW b, NEW k, NEW p \in 0..Len(log), TypeOK, IsLast(b, k, p), b # 0
    PROVE  \E i \in 1..p : /\ log[i] = [what |-> "timing", resp |-> b]
                           /\ i \in 1..Len(log) /\ kind[b] = k
<1>1. PICK i \in 1..p : IsReport(k, i) /\ log[i].resp = b
  BY DEF IsLast
<1>2. i \in 1..Len(log)
  BY LogLength
<1>3. log[i] = [what |-> "timing", resp |-> b] /\ kind[b] = k
  BY <1>1, <1>2, RecordShape DEF IsReport
<1> QED
  BY <1>2, <1>3

\* What a record says stays said.
LEMMA PrefixKept ==
    ASSUME TypeOK, Created, Len(log') = Len(log) + 1,
           \A i \in 1..Len(log) : log'[i] = log[i],
           \A r \in Resps : kind[r] \in Kinds => kind'[r] = kind[r]
    PROVE  /\ \A k : \A i \in 1..Len(log) : IsReport(k, i)' <=> IsReport(k, i)
           /\ \A b, k : \A p \in 0..Len(log) : IsLast(b, k, p)' <=> IsLast(b, k, p)
           /\ \A r : \A p \in 0..Len(log) : UnderWay(r, p)' <=> UnderWay(r, p)
<1>1. \A k : \A i \in 1..Len(log) : IsReport(k, i)' <=> IsReport(k, i)
  BY RecordShape DEF IsReport, Created
<1>2. \A b, k : \A p \in 0..Len(log) : IsLast(b, k, p)' <=> IsLast(b, k, p)
  <2> SUFFICES ASSUME NEW b, NEW k, NEW p \in 0..Len(log)
               PROVE  IsLast(b, k, p)' <=> IsLast(b, k, p)
    OBVIOUS
  <2>1. \A i \in 1..p : (IsReport(k, i)' <=> IsReport(k, i)) /\ log'[i] = log[i]
    BY <1>1, LogLength
  <2>2. CASE b = 0
    BY <2>1, <2>2 DEF IsLast
  <2>3. CASE b # 0
    <3>1. \A i \in 1..p : \A j \in i + 1..p : IsReport(k, j)' <=> IsReport(k, j)
      BY <2>1, LogLength
    <3> QED
      BY <2>1, <2>3, <3>1 DEF IsLast
  <2> QED
    BY <2>2, <2>3
<1>3. \A r : \A p \in 0..Len(log) : UnderWay(r, p)' <=> UnderWay(r, p)
  <2> SUFFICES ASSUME NEW r, NEW p \in 0..Len(log)
               PROVE  UnderWay(r, p)' <=> UnderWay(r, p)
    OBVIOUS
  <2>1. \A i \in 1..p : log'[i] = log[i]
    BY LogLength
  <2> QED
    BY <2>1 DEF UnderWay
<1> QED
  BY <1>1, <1>2, <1>3

-----------------------------------------------------------------------------
(* Steps of the backend.                                                   *)

\* A record more does nothing to what the watcher knows.
LEMMA WatcherUndisturbed ==
    ASSUME MInv, Len(log') = Len(log) + 1,
           \A i \in 1..Len(log) : log'[i] = log[i],
           \A r \in Resps : kind[r] \in Kinds => kind'[r] = kind[r],
           \A r \in Resps : (\E i \in 1..Len(log) : log[i] = [what |-> "timing", resp |-> r]) =>
               reading'[r] = reading[r] /\ before'[r] = before[r],
           UNCHANGED <<pc, pos, acked, batch, again, watermark, open, stateVars, disk, historyVars>>
    PROVE  BaselinesFit' /\ PrewarmsSilent' /\ OpenOrExcused' /\ BatchReported'
           /\ DeltasAreMeasured'
<1>1. TypeOK /\ Created
  BY DEF MInv, IInv
<1>2. /\ \A k : \A i \in 1..Len(log) : IsReport(k, i)' <=> IsReport(k, i)
      /\ \A b, k : \A p \in 0..Len(log) : IsLast(b, k, p)' <=> IsLast(b, k, p)
      /\ \A r : \A p \in 0..Len(log) : UnderWay(r, p)' <=> UnderWay(r, p)
  BY <1>1, PrefixKept
<1>3. cut' = cut /\ refused' = refused /\ Excused' = Excused
  BY DEF historyVars, Excused
<1>4. ASSUME NEW k, NEW v, NEW p \in 0..Len(log), Fits(k, p, v)
      PROVE  Fits(k, p, v)'
  <2> SUFFICES ASSUME NEW b \in Resps \cup {0}, IsLast(b, k, p)
               PROVE  \/ v = None \/ b \in Excused \/ (b # 0 /\ v = reading'[b])
                      \/ \E i \in p + 1..Len(log') :
                            /\ IsReport(k, i)' /\ log'[i].resp \in refused
                            /\ \A j \in p + 1..i - 1 : ~IsReport(k, j)'
    BY <1>2, <1>3 DEF Fits
  <2>1. \/ v = None \/ b \in Excused \/ (b # 0 /\ v = reading[b])
        \/ \E i \in p + 1..Len(log) :
              /\ IsReport(k, i) /\ log[i].resp \in refused
              /\ \A j \in p + 1..i - 1 : ~IsReport(k, j)
    BY <1>4 DEF Fits
  <2>2. ASSUME b # 0 PROVE reading'[b] = reading[b]
    <3>1. \E i \in 1..Len(log) : log[i] = [what |-> "timing", resp |-> b]
      BY <1>1, <2>2, LastHasReport
    <3> QED
      BY <2>2, <3>1
  <2>3. ASSUME NEW i \in p + 1..Len(log), IsReport(k, i), log[i].resp \in refused,
               \A j \in p + 1..i - 1 : ~IsReport(k, j)
        PROVE  /\ i \in p + 1..Len(log')
               /\ IsReport(k, i)' /\ log'[i].resp \in refused
               /\ \A j \in p + 1..i - 1 : ~IsReport(k, j)'
    <3>1. i \in 1..Len(log) /\ \A j \in p + 1..i - 1 : j \in 1..Len(log)
      BY <1>1, LogLength
    <3> QED
      BY <1>1, <1>2, <2>3, <3>1, LogLength
  <2> QED
    BY <2>1, <2>2, <2>3
<1>5. BaselinesFit'
  BY <1>1, <1>4, LogLength DEF MInv, BaselinesFit, stateVars
<1>6. PrewarmsSilent'
  BY DEF MInv, PrewarmsSilent, stateVars
<1>7. OpenOrExcused'
  BY <1>1, <1>2, <1>3, LogLength DEF MInv, OpenOrExcused
<1>8. BatchReported'
  <2>1. \A i \in acked + 1..pos : i \in 1..Len(log)
    BY <1>1, LogLength
  <2>2. \A i \in 1..Len(log) : i \in 1..Len(log')
    BY <1>1, LogLength
  <2> QED
    BY <2>1, <2>2 DEF MInv, BatchReported
<1>9. DeltasAreMeasured'
  <2> SUFFICES ASSUME NEW t \in batch, t.done, Whole(t.resp)',
                      {t.resp, before'[t.resp]} \cap refused = {}
               PROVE  Measured(t)'
    BY <1>3 DEF DeltasAreMeasured
  <2>1. t.resp \in Resps
    BY <1>1 DEF TypeOK, WatcherOK, Turn
  <2>2. reading'[t.resp] = reading[t.resp] /\ before'[t.resp] = before[t.resp]
    BY <2>1 DEF MInv, BatchReported
  <2>3. Whole(t.resp) /\ {t.resp, before[t.resp]} \cap refused = {}
    BY <1>3, <2>2 DEF Whole
  <2>4. Measured(t)
    BY <2>3 DEF MInv, DeltasAreMeasured
  <2> QED
    BY <2>2, <2>4 DEF Measured
<1> QED
  BY <1>5, <1>6, <1>7, <1>8, <1>9

LEMMA CreateMInv == MInv /\ (\E k \in Kinds : Create(k)) => MInv'
<1> SUFFICES ASSUME MInv, NEW k \in Kinds, Create(k) PROVE MInv'
  OBVIOUS
<1>1. PICK r \in Resps, ts \in Time :
         /\ kind[r] = "new" /\ kind' = [kind EXCEPT ![r] = k]
         /\ start' = [start EXCEPT ![r] = ts]
         /\ current' = [current EXCEPT ![k] = r]
         /\ log' = Append(log, [what |-> "create", resp |-> r])
  BY DEF Create
<1>2. UNCHANGED <<finish, reading, before, latest, pc, pos, acked, batch, again, watermark,
                  open, stateVars, disk, historyVars>>
  BY DEF Create
<1>3. IInv /\ TypeOK /\ Created /\ ArchiveInv /\ Len(log) \in Nat
  BY LogLength DEF MInv, IInv
<1>4. IInv'
  BY <1>3, CreateIInv
<1> PICK n \in Nat : n = Len(log) + 1
  BY <1>3
<1>5. /\ Len(log') = n /\ \A i \in 1..Len(log) : log'[i] = log[i]
      /\ log'[n] = [what |-> "create", resp |-> r]
  BY <1>1, <1>3 DEF TypeOK, ArchiveOK
<1>6. \A i \in 1..Len(log) : log[i].resp \in Resps /\ log[i].resp # r
  BY <1>1, <1>3, RecordShape, DeltasAssumption DEF Created
<1>7. \A q \in Resps : kind[q] \in Kinds => q # r /\ kind'[q] = kind[q]
  BY <1>1, <1>3, DeltasAssumption DEF TypeOK, ArchiveOK
<1>8. /\ \A j : \A i \in 1..Len(log) : IsReport(j, i)' <=> IsReport(j, i)
      /\ \A b, j : \A p \in 0..Len(log) : IsLast(b, j, p)' <=> IsLast(b, j, p)
      /\ \A q : \A p \in 0..Len(log) : UnderWay(q, p)' <=> UnderWay(q, p)
  BY <1>3, <1>5, <1>7, PrefixKept
<1>9. OnceEach'
  BY <1>3, <1>5, <1>6 DEF ArchiveInv, OnceEach
<1>10. CreatedFirst'
  <2> SUFFICES ASSUME NEW i \in 1..Len(log'), log'[i].what = "timing"
               PROVE  \E j \in 1..i - 1 : log'[j] = [what |-> "create", resp |-> log'[i].resp]
    BY DEF CreatedFirst
  <2>1. i \in 1..Len(log) /\ log'[i] = log[i]
    BY <1>3, <1>5
  <2>2. PICK j \in 1..i - 1 : log[j] = [what |-> "create", resp |-> log[i].resp]
    BY <1>3, <2>1 DEF ArchiveInv, CreatedFirst
  <2>3. log'[j] = log[j]
    BY <1>5, <2>1
  <2> QED
    BY <2>1, <2>2, <2>3
<1>11. StartStamped'
  <2>1. 0 \notin Time
    BY DEF Time
  <2> SUFFICES ASSUME NEW i \in 1..Len(log'), log'[i].what = "create"
               PROVE  start'[log'[i].resp] # 0
    BY DEF StartStamped
  <2>2. CASE i = n
    BY <1>1, <1>3, <1>5, <2>1, <2>2 DEF TypeOK, ArchiveOK
  <2>3. CASE i # n
    <3>1. i \in 1..Len(log) /\ log'[i] = log[i]
      BY <1>3, <1>5, <2>3
    <3>2. start'[log[i].resp] = start[log[i].resp]
      BY <1>1, <1>3, <1>6, <3>1 DEF TypeOK, ArchiveOK
    <3> QED
      BY <1>3, <3>1, <3>2 DEF ArchiveInv, StartStamped
  <2> QED
    BY <2>2, <2>3
<1>12. InSeries'
  <2> SUFFICES ASSUME NEW i \in 1..Len(log'), log'[i].what = "timing"
               PROVE  (Told(log[i].resp) /\ IsLast(before[log[i].resp], kind[log[i].resp], i - 1))'
    BY DEF InSeries
  <2>1. i \in 1..Len(log) /\ log'[i] = log[i]
    BY <1>3, <1>5
  <2>2. kind'[log[i].resp] = kind[log[i].resp]
    BY <1>3, <1>7, <2>1, RecordShape DEF Created
  <2>3. Told(log[i].resp) /\ IsLast(before[log[i].resp], kind[log[i].resp], i - 1)
    BY <1>3, <2>1 DEF ArchiveInv, InSeries
  <2>4. Told(log[i].resp)'
    BY <1>2, <2>1, <2>2, <2>3 DEF Told
  <2>5. i - 1 \in 0..Len(log)
    BY <1>3, <2>1
  <2> QED
    BY <1>2, <1>8, <2>1, <2>2, <2>3, <2>4, <2>5
<1>13. LatestIsLast'
  <2> SUFFICES ASSUME NEW j \in Kinds PROVE IsLast(latest[j], j, Len(log))'
    BY DEF LatestIsLast
  <2> PICK b : b = latest[j]
    OBVIOUS
  <2> PICK p \in Nat : p = Len(log)
    BY <1>3
  <2>1. IsLast(b, j, p)'
    BY <1>3, <1>8 DEF ArchiveInv, LatestIsLast
  <2>2. ~IsReport(j, p + 1)'
    BY <1>5 DEF IsReport
  <2>3. IsLast(b, j, p + 1)'
    BY <2>1, <2>2, NextIsOtherPrimed
  <2> QED
    BY <1>2, <1>5, <2>3
<1>14. CurrentIsUnderWay'
  <2> SUFFICES ASSUME NEW j \in Kinds, current'[j] # 0
               PROVE  (kind[current[j]] = j /\ UnderWay(current[j], Len(log)))'
    BY DEF CurrentIsUnderWay
  <2>1. CASE j = k
    <3>1. current'[j] = r /\ kind'[r] = k
      BY <1>1, <1>3, <2>1 DEF TypeOK, ArchiveOK
    <3>2. UnderWay(r, Len(log))'
      <4>1. \A i \in 1..Len(log') : log'[i] # [what |-> "timing", resp |-> r]
        BY <1>3, <1>5, <1>6
      <4>2. n \in 1..Len(log')
        BY <1>3, <1>5
      <4> QED
        BY <1>5, <4>1, <4>2 DEF UnderWay
    <3> QED
      BY <2>1, <3>1, <3>2
  <2>2. CASE j # k
    <3>1. current'[j] = current[j] /\ current[j] \in Resps
      BY <1>1, <1>3, <2>2 DEF TypeOK, ArchiveOK
    <3>2. kind[current[j]] = j /\ UnderWay(current[j], Len(log))
      BY <1>3, <3>1 DEF ArchiveInv, CurrentIsUnderWay
    <3>3. kind'[current[j]] = j
      BY <1>7, <3>1, <3>2
    <3>4. UnderWay(current[j], Len(log))'
      <4>1. PICK i \in 1..Len(log) : log[i] = [what |-> "create", resp |-> current[j]]
        BY <3>2 DEF UnderWay
      <4>2. i \in 1..Len(log') /\ log'[i] = [what |-> "create", resp |-> current[j]]
        BY <1>3, <1>5, <4>1
      <4>3. \A m \in 1..Len(log') : log'[m] # [what |-> "timing", resp |-> current[j]]
        <5> SUFFICES ASSUME NEW m \in 1..Len(log')
                     PROVE  log'[m] # [what |-> "timing", resp |-> current[j]]
          OBVIOUS
        <5>1. CASE m = n
          BY <1>5, <5>1
        <5>2. CASE m # n
          <6>1. m \in 1..Len(log) /\ log'[m] = log[m]
            BY <1>3, <1>5, <5>2
          <6> QED
            BY <3>2, <6>1 DEF UnderWay
        <5> QED
          BY <5>1, <5>2
      <4>4. current'[j] = current[j]
        BY <3>1
      <4> QED
        BY <4>2, <4>3, <4>4 DEF UnderWay
    <3> QED
      BY <3>1, <3>3, <3>4
  <2> QED
    BY <2>1, <2>2
<1>15. ArchiveInv'
  BY <1>9, <1>10, <1>11, <1>12, <1>13, <1>14 DEF ArchiveInv
<1>16. BaselinesFit' /\ PrewarmsSilent' /\ OpenOrExcused' /\ BatchReported'
       /\ DeltasAreMeasured'
  BY <1>2, <1>5, <1>7, WatcherUndisturbed
<1> QED
  BY <1>4, <1>15, <1>16 DEF MInv

LEMMA CompleteMInv == MInv /\ (\E k \in Kinds : Complete(k)) => MInv'
<1> SUFFICES ASSUME MInv, NEW k \in Kinds, Complete(k) PROVE MInv'
  OBVIOUS
<1> PICK r : r = current[k]
  OBVIOUS
<1>1. IInv /\ TypeOK /\ Created /\ ArchiveInv /\ Len(log) \in Nat
  BY LogLength DEF MInv, IInv
<1>2. r \in Resps /\ kind[r] = k /\ UnderWay(r, Len(log))
  BY <1>1 DEF Complete, TypeOK, ArchiveOK, ArchiveInv, CurrentIsUnderWay
<1>3. PICK m \in Totals(k, r) :
         /\ reading' = [reading EXCEPT ![r] = m]
         /\ before' = [before EXCEPT ![r] = latest[k]]
         /\ latest' = [latest EXCEPT ![k] = r]
         /\ log' = Append(log, [what |-> "timing", resp |-> r])
         /\ current' = [current EXCEPT ![k] = 0]
  BY DEF Complete
<1>4. UNCHANGED <<kind, start, pc, pos, acked, batch, again, watermark, open, stateVars, disk,
                  historyVars>>
  BY DEF Complete
<1>5. IInv'
  BY <1>1, CompleteIInv
<1> PICK n \in Nat : n = Len(log) + 1
  BY <1>1
<1>6. /\ Len(log') = n /\ \A i \in 1..Len(log) : log'[i] = log[i]
      /\ log'[n] = [what |-> "timing", resp |-> r]
  BY <1>1, <1>3 DEF TypeOK, ArchiveOK
<1>7. \A i \in 1..Len(log) : log[i].what = "timing" => log[i].resp # r /\ log[i].resp \in Resps
  BY <1>1, <1>2, RecordShape DEF UnderWay
<1>8. \A q \in Resps : kind'[q] = kind[q] /\ (q # r => reading'[q] = reading[q] /\ before'[q] = before[q])
  BY <1>1, <1>3, <1>4 DEF TypeOK, ArchiveOK
<1>9. /\ \A j : \A i \in 1..Len(log) : IsReport(j, i)' <=> IsReport(j, i)
      /\ \A b, j : \A p \in 0..Len(log) : IsLast(b, j, p)' <=> IsLast(b, j, p)
      /\ \A q : \A p \in 0..Len(log) : UnderWay(q, p)' <=> UnderWay(q, p)
  BY <1>1, <1>6, <1>8, PrefixKept
<1>10. OnceEach'
  <2>1. \A i \in 1..Len(log) : log[i] # [what |-> "timing", resp |-> r]
    BY <1>2 DEF UnderWay
  <2> QED
    BY <1>1, <1>6, <2>1 DEF ArchiveInv, OnceEach
<1>11. CreatedFirst'
  <2> SUFFICES ASSUME NEW i \in 1..Len(log'), log'[i].what = "timing"
               PROVE  \E j \in 1..i - 1 : log'[j] = [what |-> "create", resp |-> log'[i].resp]
    BY DEF CreatedFirst
  <2>1. CASE i = n
    <3>1. PICK j \in 1..Len(log) : log[j] = [what |-> "create", resp |-> r]
      BY <1>2 DEF UnderWay
    <3> QED
      BY <1>1, <1>6, <2>1, <3>1
  <2>2. CASE i # n
    <3>1. i \in 1..Len(log) /\ log'[i] = log[i]
      BY <1>1, <1>6, <2>2
    <3>2. PICK j \in 1..i - 1 : log[j] = [what |-> "create", resp |-> log[i].resp]
      BY <1>1, <3>1 DEF ArchiveInv, CreatedFirst
    <3>3. log'[j] = log[j]
      BY <1>6, <3>1
    <3> QED
      BY <3>1, <3>2, <3>3
  <2> QED
    BY <2>1, <2>2
<1>12. StartStamped'
  <2> SUFFICES ASSUME NEW i \in 1..Len(log'), log'[i].what = "create"
               PROVE  start'[log'[i].resp] # 0
    BY DEF StartStamped
  <2>1. i \in 1..Len(log) /\ log'[i] = log[i]
    BY <1>1, <1>6
  <2> QED
    BY <1>1, <1>4, <2>1 DEF ArchiveInv, StartStamped
<1>13. IsLast(latest[k], k, Len(log))
  BY <1>1 DEF ArchiveInv, LatestIsLast
<1>14. latest[k] \in Resps \cup {0} /\ latest[k] # r
  <2>1. latest[k] \in Resps \cup {0} /\ r # 0
    BY <1>1, <1>2 DEF TypeOK, ArchiveOK, Complete, Resps
  <2>2. ASSUME latest[k] # 0 PROVE latest[k] # r
    <3>1. \E i \in 1..Len(log) : log[i] = [what |-> "timing", resp |-> latest[k]]
      BY <1>1, <1>13, <2>2, LastHasReport
    <3> QED
      BY <1>7, <3>1
  <2> QED
    BY <2>1, <2>2
<1>15. Told(r)'
  <2>1. reading'[r] = m /\ before'[r] = latest[k] /\ kind'[r] = k
    BY <1>1, <1>2, <1>3, <1>4 DEF TypeOK, ArchiveOK
  <2>2. latest[k] # 0 => reading'[latest[k]] = reading[latest[k]]
    BY <1>8, <1>14
  <2> QED
    BY <1>3, <2>1, <2>2 DEF Told, Totals
<1>16. InSeries'
  <2> SUFFICES ASSUME NEW i \in 1..Len(log'), log'[i].what = "timing"
               PROVE  (Told(log[i].resp) /\ IsLast(before[log[i].resp], kind[log[i].resp], i - 1))'
    BY DEF InSeries
  <2>1. CASE i = n
    <3> PICK b : b = latest[k]
      OBVIOUS
    <3> PICK p \in Nat : p = Len(log)
      BY <1>1
    <3>1. IsLast(b, k, p)'
      BY <1>9, <1>13
    <3>2. log'[i].resp = r /\ before'[r] = b /\ kind'[r] = k /\ i - 1 = p
      BY <1>1, <1>2, <1>3, <1>4, <1>6, <2>1 DEF TypeOK, ArchiveOK
    <3> QED
      BY <1>15, <3>1, <3>2
  <2>2. CASE i # n
    <3>1. i \in 1..Len(log) /\ log'[i] = log[i] /\ i - 1 \in 0..Len(log)
      BY <1>1, <1>6, <2>2
    <3> PICK q : q = log[i].resp
      OBVIOUS
    <3>2. q \in Resps /\ q # r
      BY <1>7, <3>1
    <3>3. Told(q) /\ IsLast(before[q], kind[q], i - 1)
      BY <1>1, <3>1 DEF ArchiveInv, InSeries
    <3>4. kind'[q] = kind[q] /\ reading'[q] = reading[q] /\ before'[q] = before[q]
      BY <1>8, <3>2
    <3>5. before[q] # 0 => reading'[before[q]] = reading[before[q]]
      <4> SUFFICES ASSUME before[q] # 0 PROVE reading'[before[q]] = reading[before[q]]
        OBVIOUS
      <4>1. before[q] \in Resps
        BY <1>1, <3>2 DEF TypeOK, ArchiveOK
      <4>2. \E j \in 1..Len(log) : log[j] = [what |-> "timing", resp |-> before[q]]
        BY <1>1, <3>1, <3>3, LastHasReport
      <4>3. before[q] # r
        BY <1>7, <4>2
      <4> QED
        BY <1>8, <4>1, <4>3
    <3>6. Told(q)'
      BY <3>3, <3>4, <3>5 DEF Told
    <3> QED
      BY <1>9, <3>1, <3>3, <3>4, <3>6
  <2> QED
    BY <2>1, <2>2
<1>17. LatestIsLast'
  <2> SUFFICES ASSUME NEW j \in Kinds PROVE IsLast(latest[j], j, Len(log))'
    BY DEF LatestIsLast
  <2> PICK p \in Nat : p = Len(log)
    BY <1>1
  <2>1. CASE j = k
    <3>1. latest'[k] = r /\ r # 0
      BY <1>1, <1>2, <1>3 DEF TypeOK, ArchiveOK, Resps
    <3>2. IsReport(k, n)' /\ log'[n].resp = r
      BY <1>2, <1>4, <1>6 DEF IsReport
    <3>3. n \in 1..n /\ \A i \in n + 1..n : FALSE
      BY <1>1
    <3>4. IsLast(r, k, n)'
      BY <3>1, <3>2, <3>3 DEF IsLast
    <3> QED
      BY <1>6, <2>1, <3>1, <3>4
  <2>2. CASE j # k
    <3> PICK b : b = latest[j]
      OBVIOUS
    <3>1. IsLast(b, j, p)'
      BY <1>1, <1>9 DEF ArchiveInv, LatestIsLast
    <3>2. ~IsReport(j, p + 1)'
      BY <1>2, <1>4, <1>6, <2>2 DEF IsReport
    <3>3. IsLast(b, j, p + 1)'
      BY <3>1, <3>2, NextIsOtherPrimed
    <3>4. latest'[j] = b
      BY <1>1, <1>3, <2>2 DEF TypeOK, ArchiveOK
    <3> QED
      BY <1>6, <3>3, <3>4
  <2> QED
    BY <2>1, <2>2
<1>18. CurrentIsUnderWay'
  <2> SUFFICES ASSUME NEW j \in Kinds, current'[j] # 0
               PROVE  (kind[current[j]] = j /\ UnderWay(current[j], Len(log)))'
    BY DEF CurrentIsUnderWay
  <2>1. j # k /\ current'[j] = current[j]
    BY <1>1, <1>3 DEF TypeOK, ArchiveOK
  <2> PICK c : c = current[j]
    OBVIOUS
  <2>2. kind[c] = j /\ UnderWay(c, Len(log)) /\ c # r
    BY <1>1, <1>2, <2>1 DEF ArchiveInv, CurrentIsUnderWay
  <2>3. PICK i \in 1..Len(log) : log[i] = [what |-> "create", resp |-> c]
    BY <2>2 DEF UnderWay
  <2>4. i \in 1..n /\ log'[i] = [what |-> "create", resp |-> c]
    BY <1>1, <1>6, <2>3
  <2>5. \A l \in 1..n : log'[l] # [what |-> "timing", resp |-> c]
    <3> SUFFICES ASSUME NEW l \in 1..n PROVE log'[l] # [what |-> "timing", resp |-> c]
      OBVIOUS
    <3>1. CASE l = n
      BY <1>6, <2>2, <3>1
    <3>2. CASE l # n
      <4>1. l \in 1..Len(log) /\ log'[l] = log[l]
        BY <1>1, <1>6, <3>2
      <4> QED
        BY <2>2, <4>1 DEF UnderWay
    <3> QED
      BY <3>1, <3>2
  <2>6. UnderWay(c, n)'
    BY <2>4, <2>5 DEF UnderWay
  <2> QED
    BY <1>4, <1>6, <2>1, <2>2, <2>6
<1>19. ArchiveInv'
  BY <1>10, <1>11, <1>12, <1>16, <1>17, <1>18 DEF ArchiveInv
<1>20. BaselinesFit' /\ PrewarmsSilent' /\ OpenOrExcused' /\ BatchReported'
       /\ DeltasAreMeasured'
  <2>1. \A q \in Resps : (\E i \in 1..Len(log) : log[i] = [what |-> "timing", resp |-> q]) =>
           reading'[q] = reading[q] /\ before'[q] = before[q]
    BY <1>7, <1>8
  <2> QED
    BY <1>4, <1>6, <1>8, <2>1, WatcherUndisturbed
<1> QED
  BY <1>5, <1>19, <1>20 DEF MInv

-----------------------------------------------------------------------------
(* Steps of the watcher.                                                   *)

LEMMA ArchiveSame ==
    ASSUME UNCHANGED archiveVars
    PROVE  /\ \A k, i : IsReport(k, i)' <=> IsReport(k, i)
           /\ \A b, k, p : IsLast(b, k, p)' <=> IsLast(b, k, p)
           /\ \A r, p : UnderWay(r, p)' <=> UnderWay(r, p)
           /\ ArchiveInv => ArchiveInv'
<1>1. \A k, i : IsReport(k, i)' <=> IsReport(k, i)
  BY DEF IsReport, archiveVars
<1>2. \A b, k, p : IsLast(b, k, p)' <=> IsLast(b, k, p)
  BY DEF IsLast, IsReport, archiveVars
<1>3. \A r, p : UnderWay(r, p)' <=> UnderWay(r, p)
  BY DEF UnderWay, archiveVars
<1>4. ASSUME ArchiveInv PROVE ArchiveInv'
  <2>1. OnceEach' /\ CreatedFirst' /\ StartStamped'
    BY <1>4 DEF ArchiveInv, OnceEach, CreatedFirst, StartStamped, archiveVars
  <2>2. InSeries'
    BY <1>2, <1>4 DEF ArchiveInv, InSeries, Told, archiveVars
  <2>3. LatestIsLast' /\ CurrentIsUnderWay'
    BY <1>2, <1>3, <1>4 DEF ArchiveInv, LatestIsLast, CurrentIsUnderWay, archiveVars
  <2> QED
    BY <2>1, <2>2, <2>3 DEF ArchiveInv
<1> QED
  BY <1>1, <1>2, <1>3, <1>4

\* More excuses do not spoil a baseline, or a delta.
LEMMA FitsStays ==
    ASSUME NEW k, NEW p, NEW v, Fits(k, p, v),
           UNCHANGED archiveVars, cut \subseteq cut', refused \subseteq refused'
    PROVE  Fits(k, p, v)'
  BY ArchiveSame DEF Fits, Excused, archiveVars

\* Nor does a record that reports nothing of the kind.
LEMMA FitsNext ==
    ASSUME NEW k, NEW p \in Nat, NEW v, p + 1 <= Len(log), Len(log) \in Nat,
           ~IsReport(k, p + 1), Fits(k, p, v)
    PROVE  Fits(k, p + 1, v)
<1> PICK n \in Nat : n = p + 1
  OBVIOUS
<1> SUFFICES ASSUME NEW b \in Resps \cup {0}, IsLast(b, k, n)
             PROVE  \/ v = None \/ b \in Excused \/ (b # 0 /\ v = reading[b])
                    \/ \E i \in n + 1..Len(log) :
                          /\ IsReport(k, i) /\ log[i].resp \in refused
                          /\ \A j \in n + 1..i - 1 : ~IsReport(k, j)
  BY DEF Fits
<1>1. IsLast(b, k, p)
  BY NextIsOther
<1>2. \A i \in p + 1..Len(log) : IsReport(k, i) => i \in n + 1..Len(log)
  OBVIOUS
<1>3. \A i \in p + 1..Len(log) : \A j \in n + 1..i - 1 : j \in p + 1..i - 1
  OBVIOUS
<1> QED
  BY <1>1, <1>2, <1>3 DEF Fits

LEMMA MeasuredStays ==
    ASSUME DeltasAreMeasured, UNCHANGED archiveVars,
           cut \subseteq cut', refused \subseteq refused',
           \A t \in batch' : t \in batch \/ ~t.done
    PROVE  DeltasAreMeasured'
<1> SUFFICES ASSUME NEW t \in batch', t.done, Whole(t.resp)',
                    {t.resp, before'[t.resp]} \cap refused' = {}
             PROVE  Measured(t)'
  BY DEF DeltasAreMeasured
<1>1. t \in batch /\ Whole(t.resp) /\ {t.resp, before[t.resp]} \cap refused = {}
  BY DEF Whole, archiveVars
<1>2. Measured(t)
  BY <1>1 DEF DeltasAreMeasured
<1> QED
  BY <1>2 DEF Measured, archiveVars

\* Nothing is new to the reducer that does not move in the archive and keeps
\* its baselines.
LEMMA ReducerStays ==
    ASSUME MInv, UNCHANGED <<archiveVars, pos, prev, disk>>,
           cut \subseteq cut', refused \subseteq refused'
    PROVE  BaselinesFit' /\ PrewarmsSilent'
<1>1. BaselinesFit'
  BY FitsStays DEF MInv, BaselinesFit
<1>2. PrewarmsSilent'
  BY DEF MInv, PrewarmsSilent
<1> QED
  BY <1>1, <1>2

LEMMA ElsewhereMInv == MInv /\ Elsewhere => MInv'
<1> SUFFICES ASSUME MInv, Elsewhere PROVE MInv'
  OBVIOUS
<1>1. UNCHANGED <<log, kind, start, finish, reading, before, current, latest, pc, pos,
                  acked, batch, open, prev, disk, cut, refused>>
  BY DEF Elsewhere, stateVars, historyVars
<1>2. IInv'
  BY ElsewhereIInv DEF MInv
<1>3. /\ \A b, k, p : IsLast(b, k, p)' <=> IsLast(b, k, p)
      /\ \A k, i : IsReport(k, i)' <=> IsReport(k, i)
      /\ \A r, p : UnderWay(r, p)' <=> UnderWay(r, p)
  BY <1>1 DEF IsLast, IsReport, UnderWay
<1>4. ArchiveInv'
  <2>1. OnceEach' /\ CreatedFirst' /\ StartStamped'
    BY <1>1 DEF MInv, ArchiveInv, OnceEach, CreatedFirst, StartStamped
  <2>2. InSeries'
    BY <1>1, <1>3 DEF MInv, ArchiveInv, InSeries, Told
  <2>3. LatestIsLast' /\ CurrentIsUnderWay'
    BY <1>1, <1>3 DEF MInv, ArchiveInv, LatestIsLast, CurrentIsUnderWay
  <2> QED
    BY <2>1, <2>2, <2>3 DEF ArchiveInv
<1>5. \A k, p, v : Fits(k, p, v)' <=> Fits(k, p, v)
  BY <1>1, <1>3 DEF Fits, Excused
<1>6. BaselinesFit' /\ PrewarmsSilent'
  BY <1>1, <1>5 DEF MInv, BaselinesFit, PrewarmsSilent
<1>7. OpenOrExcused' /\ BatchReported'
  BY <1>1, <1>3 DEF MInv, OpenOrExcused, BatchReported, Excused
<1>8. DeltasAreMeasured'
  BY <1>1 DEF MInv, DeltasAreMeasured, Whole, Measured
<1> QED
  BY <1>2, <1>4, <1>6, <1>7, <1>8 DEF MInv

LEMMA ChunkEndsMInv == MInv /\ ChunkEnds => MInv'
<1> SUFFICES ASSUME MInv, ChunkEnds PROVE MInv'
  OBVIOUS
<1>1. /\ UNCHANGED <<archiveVars, pos, batch, open, prev, disk, cut, refused>>
      /\ pc = "poll" /\ pc' \in {"poll", "emit"}
      /\ (batch = {} /\ acked' = pos) \/ acked' = acked
  BY DEF ChunkEnds, stateVars, historyVars
<1>2. IInv'
  BY ChunkEndsIInv DEF MInv
<1>3. BaselinesFit' /\ PrewarmsSilent'
  BY <1>1, ReducerStays
<1>4. OpenOrExcused'
  BY <1>1, ArchiveSame DEF MInv, OpenOrExcused, Excused
<1>5. BatchReported'
  <2>1. pos \in Nat
    BY DEF MInv, IInv, TypeOK, WatcherOK
  <2> QED
    BY <1>1, <2>1 DEF MInv, BatchReported, archiveVars
<1>6. DeltasAreMeasured'
  BY <1>1, MeasuredStays DEF MInv
<1> QED
  BY <1>1, <1>2, <1>3, <1>4, <1>5, <1>6, ArchiveSame DEF MInv

LEMMA EmitAcceptedMInv == MInv /\ EmitAccepted => MInv'
<1> SUFFICES ASSUME MInv, EmitAccepted PROVE MInv'
  OBVIOUS
<1>1. /\ UNCHANGED <<archiveVars, pos, open, prev, disk, cut, refused>>
      /\ pc = "emit" /\ pc' = "poll" /\ acked' = pos /\ batch' = {}
  BY DEF EmitAccepted, stateVars
<1>2. IInv'
  BY EmitAcceptedIInv DEF MInv
<1>3. BaselinesFit' /\ PrewarmsSilent'
  BY <1>1, ReducerStays
<1>4. OpenOrExcused'
  BY <1>1, ArchiveSame DEF MInv, OpenOrExcused, Excused
<1>5. BatchReported'
  <2>1. pos \in Nat
    BY DEF MInv, IInv, TypeOK, WatcherOK
  <2> QED
    BY <1>1, <2>1 DEF BatchReported
<1>6. DeltasAreMeasured'
  BY <1>1, MeasuredStays DEF MInv
<1> QED
  BY <1>1, <1>2, <1>3, <1>4, <1>5, <1>6, ArchiveSame DEF MInv

LEMMA OpensMInv == MInv /\ Opens => MInv'
<1> SUFFICES ASSUME MInv, Opens PROVE MInv'
  OBVIOUS
<1> PICK n \in Nat : n = pos + 1
  BY DEF MInv, IInv, TypeOK, WatcherOK
<1>1. /\ UNCHANGED <<archiveVars, acked, batch, prev, disk, cut, refused>>
      /\ pc = "poll" /\ pc' = "poll" /\ n \in 1..Len(log) /\ pos' = n
      /\ log[n].what = "create"
      /\ open' = [open EXCEPT ![log[n].resp] = start[log[n].resp]]
  BY LogLength DEF Opens, stateVars, historyVars, MInv, IInv
<1>2. IInv' /\ TypeOK /\ ArchiveInv
  BY OpensIInv DEF MInv, IInv
<1>3. \A k : ~IsReport(k, n)
  BY <1>1 DEF IsReport
<1>4. ASSUME NEW k, NEW v, Fits(k, pos, v) PROVE Fits(k, n, v)'
  <2>1. Fits(k, n, v)
    BY <1>1, <1>2, <1>3, <1>4, FitsNext, LogLength
  <2> QED
    BY <1>1, <2>1, FitsStays
<1>5. BaselinesFit'
  BY <1>1, <1>4, FitsStays DEF MInv, BaselinesFit
<1>6. PrewarmsSilent'
  BY <1>1 DEF MInv, PrewarmsSilent
<1>7. OpenOrExcused'
  <2> SUFFICES ASSUME NEW q \in Resps, UnderWay(q, n) PROVE open'[q] # 0 \/ q \in Excused
    BY <1>1, ArchiveSame DEF OpenOrExcused, Excused
  <2>1. CASE q = log[n].resp
    <3>1. start[q] # 0
      BY <1>1, <1>2, <2>1 DEF ArchiveInv, StartStamped
    <3> QED
      BY <1>1, <1>2, <2>1, <3>1 DEF TypeOK, WatcherOK
  <2>2. CASE q # log[n].resp
    <3>1. UnderWay(q, pos)
      <4>1. PICK i \in 1..n : log[i] = [what |-> "create", resp |-> q]
        BY DEF UnderWay
      <4>2. i # n
        BY <2>2, <4>1
      <4>3. i \in 1..pos /\ \A j \in 1..pos : j \in 1..n
        BY <1>2, <4>2, LogLength
      <4> QED
        BY <4>1, <4>3 DEF UnderWay
    <3>2. open'[q] = open[q]
      BY <1>1, <1>2, <2>2 DEF TypeOK, WatcherOK
    <3> QED
      BY <1>1, <3>1, <3>2 DEF MInv, OpenOrExcused
  <2> QED
    BY <2>1, <2>2
<1>8. BatchReported'
  <2>1. \A i \in acked + 1..n : log[i].what = "timing" => i \in acked + 1..pos
    BY <1>1, <1>2, LogLength
  <2> QED
    BY <1>1, <2>1 DEF MInv, BatchReported, archiveVars
<1>9. DeltasAreMeasured'
  BY <1>1, MeasuredStays DEF MInv
<1> QED
  BY <1>1, <1>2, <1>5, <1>6, <1>7, <1>8, <1>9, ArchiveSame DEF MInv

\* What a response told is a reading of at least one call, or nothing.
LEMMA ToldReading ==
    ASSUME IInv, NEW r \in Resps, Told(r)
    PROVE  /\ kind[r] = "prewarm" => reading[r] = None
           /\ kind[r] # "prewarm" => /\ reading[r] # None /\ reading[r].calls >= 1
                                     /\ reading[r].total >= Work[r]
<1>1. Work[r] \in Nat
  BY DeltasAssumption
<1>2. before[r] # 0 => reading[before[r]] \in Reading
  BY DEF IInv, TypeOK, ArchiveOK
<1> QED
  BY <1>1, <1>2 DEF Told, None, Reading

\* The delta is right where the baseline is the one that belongs here.
LEMMA RightBaselineMeasures ==
    ASSUME IInv, NEW r \in Resps, Told(r), SeriesKey(r) \in Series,
           before[r] # 0 => Told(before[r]) /\ kind[before[r]] = kind[r],
           prev[SeriesKey(r)] = None
               \/ (before[r] # 0 /\ prev[SeriesKey(r)] = reading[before[r]]),
           NEW t, t.resp = r, t.reset = ~Seen(r),
           t.delta = reading[r].total
                     - (IF Begins(r) THEN None ELSE prev[SeriesKey(r)]).total
    PROVE  Measured(t)
<1> PICK base : base = prev[SeriesKey(r)]
  OBVIOUS
<1>1. Work[r] \in Nat /\ None.total = 0 /\ None.calls = 0
  BY DeltasAssumption DEF None
<1>2. reading[r] \in Reading /\ base \in Reading
  BY DEF IInv, TypeOK, ArchiveOK, WatcherOK
<1>3. CASE kind[r] = "prewarm"
  <2>1. reading[r] = None
    BY <1>3, ToldReading
  <2>2. Begins(r)
    BY <2>1 DEF Begins
  <2>3. t.delta = 0
    BY <1>1, <2>1, <2>2
  <2> QED
    BY <2>1, <2>3 DEF Measured
<1>4. CASE kind[r] # "prewarm" /\ ~Seen(r)
  <2>1. Begins(r) /\ t.reset
    BY <1>4 DEF Begins
  <2>2. t.delta = reading[r].total
    BY <1>1, <1>2, <2>1 DEF Reading
  <2>3. t.delta >= Work[r] /\ reading[r] # None
    BY <1>4, <2>2, ToldReading
  <2> QED
    BY <2>1, <2>3 DEF Measured
<1>5. CASE kind[r] # "prewarm" /\ Seen(r)
  <2>1. reading[r] # None /\ reading[r].calls >= 1
    BY <1>5, ToldReading
  <2>2. base # None
    BY <1>5 DEF Seen
  <2>3. before[r] # 0 /\ base = reading[before[r]]
    BY <2>2
  <2>4. base.calls >= 1
    <3>1. before[r] \in Resps
      BY <2>3 DEF IInv, TypeOK, ArchiveOK
    <3> QED
      BY <1>5, <2>3, <3>1, ToldReading
  <2>5. Begins(r) <=> reading[r].calls <= base.calls
    BY <1>5, <2>1 DEF Begins
  <2>6. ~t.reset
    BY <1>5
  <2>7. t.delta = Work[r]
    <3>1. CASE reading[r] = [calls |-> 1, total |-> Work[r]]
      <4>1. Begins(r)
        BY <1>2, <2>4, <2>5, <3>1 DEF Reading
      <4> QED
        BY <1>1, <3>1, <4>1
    <3>2. CASE reading[r] = [calls |-> base.calls + 1, total |-> base.total + Work[r]]
      <4>1. ~Begins(r)
        BY <1>2, <2>5, <3>2 DEF Reading
      <4> QED
        BY <1>1, <1>2, <3>2, <4>1 DEF Reading
    <3> QED
      BY <1>5, <2>3, <3>1, <3>2 DEF Told
  <2> QED
    BY <2>1, <2>6, <2>7 DEF Measured
<1> QED
  BY <1>3, <1>4, <1>5

LEMMA InitMInv == Init => MInv
<1> SUFFICES ASSUME Init PROVE MInv
  OBVIOUS
<1>1. IInv
  BY InitIInv
<1>2. /\ Len(log) = 0 /\ pos = 0 /\ acked = 0 /\ batch = {} /\ pc = "down"
      /\ \A k \in Kinds : current[k] = 0 /\ latest[k] = 0
      /\ \A k \in Series : prev[k] = None
      /\ disk.acked = 0 /\ disk.prev = prev
  BY DEF Init, Snapshot
<1>3. \A i \in 1..0 : FALSE
  OBVIOUS
<1>4. ArchiveInv
  <2>1. OnceEach /\ CreatedFirst /\ StartStamped /\ InSeries
    BY <1>2, <1>3 DEF OnceEach, CreatedFirst, StartStamped, InSeries
  <2>2. LatestIsLast /\ CurrentIsUnderWay
    BY <1>2, <1>3 DEF LatestIsLast, IsLast, CurrentIsUnderWay
  <2> QED
    BY <2>1, <2>2 DEF ArchiveInv
<1>5. BaselinesFit /\ PrewarmsSilent
  BY <1>2 DEF BaselinesFit, Fits, PrewarmsSilent, Series
<1>6. OpenOrExcused /\ BatchReported /\ DeltasAreMeasured
  <2>1. \A i \in acked + 1..pos : FALSE
    BY <1>2
  <2> QED
    BY <1>2, <1>3, <2>1 DEF OpenOrExcused, UnderWay, BatchReported, DeltasAreMeasured
<1> QED
  BY <1>1, <1>4, <1>5, <1>6 DEF MInv

\* Giving up open responses excuses them.
LEMMA DrainedMInv ==
    ASSUME MInv, IInv', NEW R, Drained(R), acked = pos, pc # "down", pc' # "down",
           UNCHANGED <<archiveVars, pos, acked, prev, disk, refused>>
    PROVE  MInv'
<1>1. cut' = cut \cup R /\ open' = [r \in Resps |-> IF r \in R THEN 0 ELSE open[r]]
  BY DEF Drained
<1>2. \A t \in batch' : ~t.done
  BY DEF Drained
<1>3. BaselinesFit' /\ PrewarmsSilent'
  BY <1>1, ReducerStays
<1>4. OpenOrExcused'
  BY <1>1, ArchiveSame DEF MInv, OpenOrExcused, Excused
<1>5. BatchReported'
  <2>1. \A i \in acked + 1..pos : FALSE
    BY LogLength DEF MInv, IInv
  <2> QED
    BY <1>2, <2>1 DEF BatchReported
<1>6. DeltasAreMeasured'
  BY <1>1, <1>2, MeasuredStays DEF MInv
<1> QED
  BY <1>3, <1>4, <1>5, <1>6, ArchiveSame DEF MInv

LEMMA EvictOpenMInv == MInv /\ EvictOpen => MInv'
<1> SUFFICES ASSUME MInv, EvictOpen PROVE MInv'
  OBVIOUS
<1>1. IInv'
  BY EvictOpenIInv DEF MInv
<1>2. PICK R : Drained(R)
  BY DEF EvictOpen
<1> QED
  BY <1>1, <1>2, DrainedMInv DEF EvictOpen, PassEnds

LEMMA StopMInv == MInv /\ Stop => MInv'
<1> SUFFICES ASSUME MInv, Stop PROVE MInv'
  OBVIOUS
<1>1. IInv'
  BY StopIInv DEF MInv
<1> QED
  BY <1>1, DrainedMInv DEF Stop

\* A checkpoint holds the baselines of its offset.
LEMMA SavedMInv ==
    ASSUME MInv, IInv', acked = pos, pc' = pc, disk'.acked = acked, disk'.prev = prev',
           \A k \in Series : prev'[k] \in {None, prev[k]},
           UNCHANGED <<archiveVars, pos, acked, batch, open, cut, refused>>, pc = "poll"
    PROVE  MInv'
<1>1. BaselinesFit'
  <2> SUFFICES ASSUME NEW k \in Kinds
               PROVE  Fits(k, pos, prev[k])' /\ Fits(k, disk.acked, disk.prev[k])'
    BY DEF BaselinesFit
  <2> PICK v : v = prev'[k]
    OBVIOUS
  <2>1. Fits(k, pos, v)
    <3>1. v \in {None, prev[k]}
      BY DEF Series
    <3> QED
      BY <3>1 DEF MInv, BaselinesFit, Fits
  <2>2. Fits(k, pos, v)'
    BY <2>1, FitsStays
  <2> QED
    BY <2>2 DEF Fits
<1>2. PrewarmsSilent'
  BY DEF MInv, PrewarmsSilent, Series
<1>3. OpenOrExcused'
  BY ArchiveSame DEF MInv, OpenOrExcused, Excused
<1>4. BatchReported'
  BY DEF MInv, BatchReported, archiveVars
<1>5. DeltasAreMeasured'
  BY MeasuredStays DEF MInv
<1> QED
  BY <1>1, <1>2, <1>3, <1>4, <1>5, ArchiveSame DEF MInv

LEMMA EvictStateMInv == MInv /\ EvictState => MInv'
<1> SUFFICES ASSUME MInv, EvictState PROVE MInv'
  OBVIOUS
<1>1. IInv'
  BY EvictStateIInv DEF MInv
<1>2. UNCHANGED <<archiveVars, pc, pos, acked, batch, open, cut, refused>>
  BY DEF EvictState, historyVars
<1>3. disk'.acked = acked' /\ disk'.prev = prev'
  BY DEF EvictState, Snapshot
<1>4. \A k \in Series : prev'[k] \in {None, prev[k]}
  BY DEF EvictState, PassEnds
<1> QED
  BY <1>1, <1>2, <1>3, <1>4, SavedMInv DEF EvictState, PassEnds

LEMMA SaveMInv == MInv /\ Save => MInv'
<1> SUFFICES ASSUME MInv, Save PROVE MInv'
  OBVIOUS
<1>1. IInv'
  BY SaveIInv DEF MInv
<1>2. UNCHANGED <<archiveVars, pc, pos, acked, batch, open, prev, cut, refused>>
  BY DEF Save, stateVars, historyVars
<1>3. disk'.acked = acked /\ disk'.prev = prev
  BY DEF Save, Snapshot
<1> QED
  BY <1>1, <1>2, <1>3, SavedMInv DEF Save, PassEnds

\* What is under way at the checkpoint's offset is lost with the process.
LEMMA DieMInv ==
    ASSUME MInv, IInv', Die, UNCHANGED <<archiveVars, refused>>,
           \/ UNCHANGED disk
           \/ disk'.acked = pos /\ disk'.prev = prev
    PROVE  MInv'
<1>1. /\ pos' = 0 /\ acked' = 0 /\ batch' = {} /\ pc' = "down"
      /\ prev' = [k \in Series |-> None]
      /\ cut' = cut \cup Gone
  BY DEF Die
<1>2. BaselinesFit'
  <2> SUFFICES ASSUME NEW k \in Kinds
               PROVE  Fits(k, pos, prev[k])' /\ Fits(k, disk.acked, disk.prev[k])'
    BY DEF BaselinesFit
  <2>1. prev'[k] = None
    BY <1>1 DEF Series
  <2>2. Fits(k, pos, prev[k])'
    BY <2>1 DEF Fits
  <2> PICK p : p = disk'.acked
    OBVIOUS
  <2> PICK v : v = disk'.prev[k]
    OBVIOUS
  <2>3. Fits(k, p, v)
    BY DEF MInv, BaselinesFit
  <2>4. Fits(k, p, v)'
    BY <1>1, <2>3, FitsStays
  <2>5. Fits(k, disk.acked, disk.prev[k])'
    BY <2>4 DEF Fits
  <2> QED
    BY <2>2, <2>5
<1>3. PrewarmsSilent'
  BY <1>1 DEF MInv, PrewarmsSilent, Series
<1>4. OpenOrExcused'
  <2> PICK p : p = disk'.acked
    OBVIOUS
  <2> SUFFICES ASSUME NEW r \in Resps, UnderWay(r, p) PROVE r \in cut'
    BY <1>1, ArchiveSame DEF OpenOrExcused, Excused
  <2>1. p \in Nat
    BY DEF IInv, TypeOK, WatcherOK, Saved
  <2>2. PICK i \in 1..p : log[i] = [what |-> "create", resp |-> r]
    BY DEF UnderWay
  <2>3. \A j \in i..p : j \in 1..p
    BY <2>1
  <2>4. r \in Gone
    BY <2>2, <2>3 DEF Gone, UnderWay
  <2> QED
    BY <1>1, <2>4
<1>5. BatchReported'
  <2>1. \A i \in 0 + 1..0 : FALSE
    OBVIOUS
  <2> QED
    BY <1>1, <2>1 DEF BatchReported
<1>6. DeltasAreMeasured'
  BY <1>1 DEF DeltasAreMeasured
<1> QED
  BY <1>2, <1>3, <1>4, <1>5, <1>6, ArchiveSame DEF MInv

LEMMA EndMInv == MInv /\ (FlushAccepted \/ FlushRefused \/ Crash) => MInv'
<1> SUFFICES ASSUME MInv, FlushAccepted \/ FlushRefused \/ Crash PROVE MInv'
  OBVIOUS
<1>1. IInv'
  BY EndIInv DEF MInv
<1>2. CASE FlushAccepted
  <2>1. acked = pos
    BY <1>2 DEF FlushAccepted, MInv, BatchReported
  <2>2. disk'.acked = acked /\ disk'.prev = prev
    BY <1>2 DEF FlushAccepted, Snapshot
  <2> QED
    BY <1>1, <1>2, <2>1, <2>2, DieMInv DEF FlushAccepted
<1>3. CASE FlushRefused \/ Crash
  BY <1>1, <1>3, DieMInv DEF FlushRefused, Crash
<1> QED
  BY <1>2, <1>3

LEMMA StartMInv == MInv /\ Start => MInv'
<1> SUFFICES ASSUME MInv, Start PROVE MInv'
  OBVIOUS
<1>1. IInv'
  BY StartIInv DEF MInv
<1>2. /\ pc = "down" /\ pc' = "poll"
      /\ pos' = disk.acked /\ acked' = disk.acked /\ prev' = disk.prev
      /\ UNCHANGED <<archiveVars, batch, open, disk, cut, refused>>
  BY DEF Start, historyVars
<1>3. BaselinesFit'
  <2> SUFFICES ASSUME NEW k \in Kinds
               PROVE  Fits(k, pos, prev[k])' /\ Fits(k, disk.acked, disk.prev[k])'
    BY DEF BaselinesFit
  <2> PICK p : p = disk.acked
    OBVIOUS
  <2> PICK v : v = disk.prev[k]
    OBVIOUS
  <2>1. Fits(k, p, v)
    BY DEF MInv, BaselinesFit
  <2>2. Fits(k, p, v)'
    BY <1>2, <2>1, FitsStays
  <2> QED
    BY <1>2, <2>2 DEF Fits
<1>4. PrewarmsSilent'
  BY <1>2 DEF MInv, PrewarmsSilent
<1>5. OpenOrExcused'
  BY <1>2, ArchiveSame DEF MInv, OpenOrExcused, Excused
<1>6. BatchReported'
  <2>1. \A i \in acked' + 1..pos' : FALSE
    BY <1>1, <1>2 DEF IInv, TypeOK, WatcherOK, Saved
  <2> QED
    BY <1>2, <2>1 DEF MInv, BatchReported, archiveVars
<1>7. DeltasAreMeasured'
  BY <1>2, MeasuredStays DEF MInv
<1> QED
  BY <1>1, <1>2, <1>3, <1>4, <1>5, <1>6, <1>7, ArchiveSame DEF MInv

\* A refused batch held whatever the reducer is set back behind.
LEMMA EmitRefusedMInv == MInv /\ EmitRefused => MInv'
<1> SUFFICES ASSUME MInv, EmitRefused PROVE MInv'
  OBVIOUS
<1>1. IInv'
  BY EmitRefusedIInv DEF MInv
<1>2. /\ UNCHANGED <<archiveVars, acked, open, prev, disk, cut>>
      /\ pc = "emit" /\ pc' = "poll" /\ pos' = acked /\ batch' = {}
      /\ refused' = refused \cup {t.resp : t \in batch}
  BY DEF EmitRefused, stateVars
<1>3. TypeOK /\ Len(log) \in Nat /\ pos \in 0..Len(log) /\ acked \in 0..pos
  BY LogLength DEF MInv, IInv
<1>4. ASSUME NEW k, NEW v, Fits(k, pos, v) PROVE Fits(k, acked, v)'
  <2> SUFFICES ASSUME NEW b \in Resps \cup {0}, IsLast(b, k, acked)
               PROVE  \/ v = None \/ b \in Excused' \/ (b # 0 /\ v = reading[b])
                      \/ \E i \in acked + 1..Len(log) :
                            /\ IsReport(k, i) /\ log[i].resp \in refused'
                            /\ \A j \in acked + 1..i - 1 : ~IsReport(k, j)
    BY <1>2, ArchiveSame DEF Fits, archiveVars
  <2> DEFINE T == {i \in acked + 1..pos : IsReport(k, i)}
  <2>1. CASE T # {}
    <3>1. PICK i \in T : \A y \in T : i <= y
      <4>1. T \in SUBSET Nat
        BY <1>3
      <4> HIDE DEF T
      <4> QED
        BY <2>1, <4>1, NatHasMinimum
    <3>2. i \in acked + 1..Len(log) /\ IsReport(k, i)
      BY <1>3, <3>1
    <3>3. \A j \in acked + 1..i - 1 : ~IsReport(k, j)
      <4> SUFFICES ASSUME NEW j \in acked + 1..i - 1, IsReport(k, j) PROVE FALSE
        OBVIOUS
      <4>1. j \in T /\ j < i
        BY <1>3, <3>1
      <4> QED
        BY <1>3, <3>1, <4>1
    <3>4. log[i].resp \in refused'
      <4>1. \E t \in batch : t.resp = log[i].resp
        BY <3>1 DEF MInv, BatchReported, IsReport
      <4> QED
        BY <1>2, <4>1
    <3> HIDE DEF T
    <3> QED
      BY <3>2, <3>3, <3>4
  <2>2. CASE T = {}
    <3>1. \A i \in acked + 1..pos : ~IsReport(k, i)
      BY <2>2
    <3> HIDE DEF T
    <3>2. IsLast(b, k, pos)
      <4>1. CASE b = 0
        <5>1. \A i \in 1..pos : i \in 1..acked \/ i \in acked + 1..pos
          BY <1>3
        <5> QED
          BY <3>1, <4>1, <5>1 DEF IsLast
      <4>2. CASE b # 0
        <5>1. PICK i \in 1..acked : /\ IsReport(k, i) /\ log[i].resp = b
                                    /\ \A j \in i + 1..acked : ~IsReport(k, j)
          BY <4>2 DEF IsLast
        <5>2. i \in 1..pos
          BY <1>3
        <5>3. \A j \in i + 1..pos : j \in i + 1..acked \/ j \in acked + 1..pos
          BY <1>3
        <5> QED
          BY <3>1, <4>2, <5>1, <5>2, <5>3 DEF IsLast
      <4> QED
        BY <4>1, <4>2
    <3>3. \/ v = None \/ b \in Excused \/ (b # 0 /\ v = reading[b])
          \/ \E i \in pos + 1..Len(log) :
                /\ IsReport(k, i) /\ log[i].resp \in refused
                /\ \A j \in pos + 1..i - 1 : ~IsReport(k, j)
      BY <1>4, <3>2 DEF Fits
    <3>4. b \in Excused => b \in Excused'
      BY <1>2 DEF Excused
    <3>5. ASSUME NEW i \in pos + 1..Len(log), IsReport(k, i), log[i].resp \in refused,
                 \A j \in pos + 1..i - 1 : ~IsReport(k, j)
          PROVE  /\ i \in acked + 1..Len(log) /\ log[i].resp \in refused'
                 /\ \A j \in acked + 1..i - 1 : ~IsReport(k, j)
      <4>1. i \in acked + 1..Len(log) /\ log[i].resp \in refused'
        BY <1>2, <1>3, <3>5
      <4>2. \A j \in acked + 1..i - 1 : j \in acked + 1..pos \/ j \in pos + 1..i - 1
        BY <1>3
      <4> QED
        BY <3>1, <3>5, <4>1, <4>2
    <3> QED
      BY <3>3, <3>4, <3>5
  <2> QED
    BY <2>1, <2>2
<1>5. BaselinesFit'
  <2>1. refused \subseteq refused'
    BY <1>2
  <2> QED
    BY <1>2, <1>4, <2>1, FitsStays DEF MInv, BaselinesFit
<1>6. PrewarmsSilent'
  BY <1>2 DEF MInv, PrewarmsSilent
<1>7. OpenOrExcused'
  <2> SUFFICES ASSUME NEW r \in Resps, UnderWay(r, acked)
               PROVE  open[r] # 0 \/ r \in Excused'
    BY <1>2, ArchiveSame DEF OpenOrExcused
  <2>1. CASE UnderWay(r, pos)
    BY <1>2, <2>1 DEF MInv, OpenOrExcused, Excused
  <2>2. CASE ~UnderWay(r, pos)
    <3>1. PICK i \in 1..acked : log[i] = [what |-> "create", resp |-> r]
      BY DEF UnderWay
    <3>2. i \in 1..pos
      BY <1>3
    <3>3. PICK j \in 1..pos : log[j] = [what |-> "timing", resp |-> r]
      BY <2>2, <3>1, <3>2 DEF UnderWay
    <3>4. j \in acked + 1..pos
      BY <1>3, <3>3 DEF UnderWay
    <3>5. \E t \in batch : t.resp = r
      BY <3>3, <3>4 DEF MInv, BatchReported
    <3> QED
      BY <1>2, <3>5 DEF Excused
  <2> QED
    BY <2>1, <2>2
<1>8. BatchReported'
  <2>1. \A i \in acked + 1..acked : FALSE
    BY <1>3
  <2> QED
    BY <1>2, <2>1 DEF BatchReported
<1>9. DeltasAreMeasured'
  BY <1>2 DEF DeltasAreMeasured
<1> QED
  BY <1>1, <1>2, <1>5, <1>6, <1>7, <1>8, <1>9, ArchiveSame DEF MInv

LEMMA ClosesMInv == MInv /\ Closes => MInv'
<1> SUFFICES ASSUME MInv, Closes PROVE MInv'
  OBVIOUS
<1> PICK n \in Nat : n = pos + 1
  BY DEF MInv, IInv, TypeOK, WatcherOK
<1> PICK r : r = log[n].resp
  OBVIOUS
<1> PICK key : key = SeriesKey(r)
  OBVIOUS
<1> PICK t : t = [resp |-> r, done |-> TRUE,
                  delta |-> reading[r].total
                            - (IF Begins(r) THEN None ELSE prev[key]).total,
                  reset |-> ~Seen(r),
                  id |-> IF Begins(r) /\ ~Named(r)
                         THEN IF Begins(r) THEN seq + 1 ELSE seq ELSE 0,
                  at |-> finish[r]]
  OBVIOUS
<1>1. /\ n \in 1..Len(log) /\ pos' = n /\ log[n].what = "timing"
      /\ UNCHANGED <<archiveVars, pc, acked, disk, cut, refused>> /\ pc = "poll"
      /\ batch' = batch \cup {t}
      /\ IF reading[r] = None THEN UNCHANGED prev
         ELSE prev' = [prev EXCEPT ![key] = reading[r]]
      /\ open' = [open EXCEPT ![r] = 0]
  BY LogLength DEF Closes, historyVars, MInv, IInv
<1>2. /\ IInv' /\ IInv /\ TypeOK /\ ArchiveInv
      /\ Len(log) \in Nat /\ pos \in 0..Len(log) /\ acked \in 0..pos
  BY ClosesIInv, LogLength DEF MInv, IInv
<1>3. /\ r \in Resps /\ log[n] = [what |-> "timing", resp |-> r]
      /\ kind[r] \in Kinds /\ IsReport(kind[r], n)
      /\ Told(r) /\ IsLast(before[r], kind[r], pos)
  <2>1. r \in Resps /\ log[n] = [what |-> "timing", resp |-> r]
    BY <1>1, <1>2, RecordShape
  <2>2. kind[r] \in Kinds
    BY <1>1, <1>2 DEF IInv, Created
  <2>3. Told(r) /\ IsLast(before[r], kind[r], pos)
    <3>1. n - 1 = pos
      BY <1>2
    <3> QED
      BY <1>1, <1>2, <3>1 DEF ArchiveInv, InSeries
  <2> QED
    BY <1>1, <2>1, <2>2, <2>3 DEF IsReport
<1>4. UnderWay(r, pos)
  <2>1. PICK j \in 1..n - 1 : log[j] = [what |-> "create", resp |-> r]
    BY <1>1, <1>2 DEF ArchiveInv, CreatedFirst
  <2>2. ASSUME NEW i \in 1..pos, log[i] = [what |-> "timing", resp |-> r] PROVE FALSE
    <3>1. i \in 1..Len(log) /\ i # n
      BY <1>2
    <3> QED
      BY <1>1, <1>2, <1>3, <2>2, <3>1 DEF ArchiveInv, OnceEach
  <2>3. j \in 1..pos
    BY <1>2
  <2> QED
    BY <2>1, <2>2, <2>3 DEF UnderWay
<1>5. open[r] # 0 \/ r \in Excused
  BY <1>1, <1>3, <1>4 DEF MInv, OpenOrExcused
<1>6. "" \notin Kinds /\ key \in {kind[r], ""} /\ (open[r] # 0 => key = kind[r])
  BY DeltasAssumption DEF SeriesKey
<1>7. Excused' = Excused
  BY <1>1 DEF Excused
<1>8. prev \in [Series -> Reading]
  BY <1>2 DEF TypeOK, WatcherOK
<1>9. "prewarm" \in Kinds => prev'["prewarm"] = None
  <2>1. CASE reading[r] = None
    BY <1>1, <2>1 DEF MInv, PrewarmsSilent
  <2>2. CASE reading[r] # None
    <3>1. kind[r] # "prewarm"
      BY <1>2, <1>3, <2>2, ToldReading
    <3>2. "prewarm" \in Kinds => "prewarm" # key
      BY <1>6, <3>1
    <3> QED
      BY <1>1, <1>8, <2>2, <3>2 DEF MInv, PrewarmsSilent, Series
  <2> QED
    BY <2>1, <2>2
<1>10. BaselinesFit'
  <2> SUFFICES ASSUME NEW k \in Kinds
               PROVE  Fits(k, pos, prev[k])' /\ Fits(k, disk.acked, disk.prev[k])'
    BY DEF BaselinesFit
  <2>1. Fits(k, disk.acked, disk.prev[k])'
    BY <1>1, FitsStays DEF MInv, BaselinesFit
  <2> PICK v : v = prev'[k]
    OBVIOUS
  <2>2. CASE k # kind[r]
    <3>1. v = prev[k]
      BY <1>1, <1>6, <1>8, <2>2 DEF Series
    <3>2. Fits(k, pos, v)
      BY <3>1 DEF MInv, BaselinesFit
    <3>3. ~IsReport(k, n)
      BY <2>2 DEF IsReport
    <3>4. Fits(k, n, v)
      BY <1>1, <1>2, <3>2, <3>3, FitsNext
    <3>5. Fits(k, n, v)'
      BY <1>1, <3>4, FitsStays
    <3> QED
      BY <1>1, <2>1, <3>5 DEF Fits
  <2>3. CASE k = kind[r]
    <3>1. v = None \/ r \in Excused \/ v = reading[r]
      <4> SUFFICES ASSUME open[r] # 0 PROVE v = None \/ v = reading[r]
        BY <1>5
      <4>1. key = k /\ k \in Series
        BY <1>6, <2>3 DEF Series
      <4>2. CASE reading[r] = None
        <5>1. k = "prewarm"
          BY <1>2, <1>3, <2>3, <4>2, ToldReading
        <5> QED
          BY <1>9, <5>1
      <4>3. CASE reading[r] # None
        BY <1>1, <1>8, <4>1, <4>3
      <4> QED
        BY <4>2, <4>3
    <3>2. ASSUME NEW b, IsLast(b, k, n) PROVE b = r /\ b # 0
      BY <1>2, <1>3, <2>3, <3>2, NextIsLast
    <3>3. Fits(k, n, v)
      BY <3>1, <3>2 DEF Fits
    <3>4. Fits(k, n, v)'
      BY <1>1, <3>3, FitsStays
    <3> QED
      BY <1>1, <2>1, <3>4 DEF Fits
  <2> QED
    BY <2>2, <2>3
<1>11. PrewarmsSilent'
  BY <1>1, <1>9 DEF MInv, PrewarmsSilent
<1>12. OpenOrExcused'
  <2> SUFFICES ASSUME NEW q \in Resps, UnderWay(q, n) PROVE open'[q] # 0 \/ q \in Excused
    BY <1>1, <1>7, ArchiveSame DEF OpenOrExcused
  <2>1. q # r
    <3>1. n \in 1..n
      BY <1>1, <1>2
    <3> QED
      BY <1>3, <3>1 DEF UnderWay
  <2>2. UnderWay(q, pos)
    <3>1. PICK i \in 1..n : log[i] = [what |-> "create", resp |-> q]
      BY DEF UnderWay
    <3>2. i # n
      BY <1>1, <3>1
    <3>3. i \in 1..pos /\ \A j \in 1..pos : j \in 1..n
      BY <1>2, <3>2
    <3> QED
      BY <3>1, <3>3 DEF UnderWay
  <2>3. open'[q] = open[q]
    BY <1>1, <1>2, <2>1 DEF TypeOK, WatcherOK
  <2> QED
    BY <1>1, <2>2, <2>3 DEF MInv, OpenOrExcused
<1>13. BatchReported'
  <2>1. \A i \in acked + 1..n : log[i].what = "timing" =>
           \E x \in batch' : x.resp = log[i].resp
    <3> SUFFICES ASSUME NEW i \in acked + 1..n, log[i].what = "timing"
                 PROVE  \E x \in batch' : x.resp = log[i].resp
      OBVIOUS
    <3>1. CASE i = n
      BY <1>1, <3>1
    <3>2. CASE i # n
      <4>1. i \in acked + 1..pos
        BY <1>2, <3>2
      <4> QED
        BY <1>1, <4>1 DEF MInv, BatchReported
    <3> QED
      BY <3>1, <3>2
  <2>2. \A x \in batch' : x.done =>
           \E i \in 1..Len(log) : log[i] = [what |-> "timing", resp |-> x.resp]
    <3>1. t.resp = r
      BY Zenon
    <3>2. \A x \in batch : x.done =>
             \E i \in 1..Len(log) : log[i] = [what |-> "timing", resp |-> x.resp]
      BY DEF MInv, BatchReported
    <3>3. \E i \in 1..Len(log) : log[i] = [what |-> "timing", resp |-> t.resp]
      BY <1>1, <1>3, <3>1
    <3>4. \A x \in batch' : x \in batch \/ x = t
      BY <1>1
    <3> QED
      BY <3>2, <3>3, <3>4, Zenon
  <2> QED
    BY <1>1, <2>1, <2>2 DEF BatchReported, archiveVars
<1>14. ASSUME Whole(r), {r, before[r]} \cap refused = {} PROVE Measured(t)
  <2>1. r \notin Excused /\ before[r] \notin Excused
    BY <1>14 DEF Whole, Excused
  <2>2. key = kind[r] /\ kind[r] \in Series
    BY <1>3, <1>5, <1>6, <2>1 DEF Series
  <2>3. ASSUME before[r] # 0 PROVE Told(before[r]) /\ kind[before[r]] = kind[r]
    <3>1. PICK i \in 1..pos : /\ log[i] = [what |-> "timing", resp |-> before[r]]
                              /\ i \in 1..Len(log) /\ kind[before[r]] = kind[r]
      BY <1>2, <1>3, <2>3, LastHasReport
    <3> QED
      BY <1>2, <3>1 DEF ArchiveInv, InSeries
  <2>4. prev[kind[r]] = None \/ (before[r] # 0 /\ prev[kind[r]] = reading[before[r]])
    <3> PICK k : k = kind[r]
      OBVIOUS
    <3>1. before[r] \in Resps \cup {0}
      BY <1>2, <1>3 DEF TypeOK, ArchiveOK
    <3>2. Fits(k, pos, prev[k]) /\ IsLast(before[r], k, pos)
      BY <1>3 DEF MInv, BaselinesFit
    <3>3. ASSUME NEW i \in pos + 1..Len(log), log[i].resp \in refused,
                 \A j \in pos + 1..i - 1 : ~IsReport(k, j)
          PROVE  FALSE
      <4>1. i = n
        BY <1>2, <1>3, <3>3
      <4> QED
        BY <1>14, <3>3, <4>1
    <3>4. \/ prev[k] = None \/ before[r] \in Excused
          \/ (before[r] # 0 /\ prev[k] = reading[before[r]])
          \/ \E i \in pos + 1..Len(log) :
                /\ IsReport(k, i) /\ log[i].resp \in refused
                /\ \A j \in pos + 1..i - 1 : ~IsReport(k, j)
      BY <3>1, <3>2 DEF Fits
    <3> QED
      BY <2>1, <3>3, <3>4
  <2>5. t.resp = r /\ t.reset = ~Seen(r)
        /\ t.delta = reading[r].total - (IF Begins(r) THEN None ELSE prev[key]).total
    BY ZenonT(30)
  <2> QED
    BY <1>2, <1>3, <2>2, <2>3, <2>4, <2>5, RightBaselineMeasures
<1>15. DeltasAreMeasured'
  <2> SUFFICES ASSUME NEW x \in batch', x.done, Whole(x.resp),
                      {x.resp, before[x.resp]} \cap refused = {}
               PROVE  Measured(x)
    BY <1>1 DEF DeltasAreMeasured, Whole, Measured, archiveVars
  <2>1. CASE x = t
    <3>1. x.resp = r
      BY <2>1
    <3> QED
      BY <1>14, <2>1, <3>1
  <2>2. CASE x # t
    BY <1>1, <2>2 DEF MInv, DeltasAreMeasured
  <2> QED
    BY <2>1, <2>2
<1> QED
  BY <1>1, <1>2, <1>10, <1>11, <1>12, <1>13, <1>15, ArchiveSame DEF MInv

-----------------------------------------------------------------------------
LEMMA StepMInv == MInv /\ [Next]_vars => MInv'
<1> SUFFICES ASSUME MInv, [Next]_vars PROVE MInv'
  OBVIOUS
<1>1. CASE Backend
  BY <1>1, CreateMInv, CompleteMInv DEF Backend
<1>2. CASE Watcher
  BY <1>2, OpensMInv, ClosesMInv, ElsewhereMInv, ChunkEndsMInv, EmitAcceptedMInv, EmitRefusedMInv,
     EvictOpenMInv, EvictStateMInv, SaveMInv, StopMInv, EndMInv, StartMInv DEF Watcher
<1>3. CASE Crash
  BY <1>3, EndMInv
<1>4. CASE UNCHANGED vars
  <2>1. IInv'
    BY <1>4, StepIInv DEF MInv
  <2>2. UNCHANGED <<archiveVars, pc, pos, acked, batch, open, prev, disk, cut, refused>>
    BY <1>4 DEF vars, stateVars, historyVars
  <2>3. BaselinesFit' /\ PrewarmsSilent'
    BY <2>2, ReducerStays
  <2>4. OpenOrExcused' /\ BatchReported'
    BY <2>2, ArchiveSame DEF MInv, OpenOrExcused, Excused, BatchReported, archiveVars
  <2>5. DeltasAreMeasured'
    BY <2>2, MeasuredStays DEF MInv
  <2> QED
    BY <2>1, <2>2, <2>3, <2>4, <2>5, ArchiveSame DEF MInv
<1> QED
  BY <1>1, <1>2, <1>3, <1>4 DEF Next

\* What a turn says its response did is what it did, or is flagged as an upper
\* bound of it, for every number of responses and kinds: applyTiming always
\* subtracts the reading of the response before it in the series (turn.go), or
\* one of the two was open across a restart or an eviction, or in a batch that
\* was refused.
THEOREM TurnsAreMeasured == Spec => []DeltasAreMeasured
<1>1. MInv => DeltasAreMeasured
  BY DEF MInv
<1> QED
  BY <1>1, InitMInv, StepMInv, PTL DEF Spec

-----------------------------------------------------------------------------
(* The numbers.  A logical turn gets the next number of its thread, and     *)
(* the numbering starts over when the thread was evicted.  That is safe    *)
(* because eviction reads the watermark: what is older than StateRetain    *)
(* before it is older than that before everything the reducer is still to  *)
(* number, be it unread, open, or in the batch.                            *)

\* Records are stamped in order.
Monotone == \A i, j \in 1..Len(log) : i < j => StampOf(i) <= StampOf(j)

InOrder == \A i \in 1..Len(log) : StampOf(i) <= clock

\* The watermark is not ahead of what is unread, but for what is read again.
WatermarkBehind ==
    /\ watermark <= clock
    /\ \A i \in 1..Len(log) : i > pos /\ i > again => watermark <= StampOf(i)

\* Nothing is in the batch between chunks, or left of a process that ended.
EmptyHands ==
    /\ pc = "poll" /\ acked = pos => batch = {}
    /\ pc = "down" => batch = {} /\ watermark = 0 /\ again = 0 /\ \A r \in Resps : open[r] = 0

SInv == Monotone /\ InOrder /\ WatermarkBehind /\ EmptyHands

\* at is older than StateRetain before whatever is still to be numbered by a
\* reducer that starts again behind the first p records.
Past(p, at) ==
    /\ StateRetain > 0 /\ clock > at + StateRetain
    /\ \A i \in 1..Len(log) : i > p => StampOf(i) > at + StateRetain
    /\ \A r \in Resps : open[r] # 0 => open[r] > at + StateRetain
    /\ \A t \in batch : t.id # 0 => t.at > at + StateRetain

\* A numbering that stands at n, and last advanced at s, has given out every
\* number there is, but those of the past.
Numbered(n, s, p) == \A x \in ids : (x.id <= n /\ x.at <= s) \/ Past(p, x.at)

BatchNumbered ==
    /\ \A t \in batch : t.id # 0 => t.id <= seq /\ t.at <= seqSeen
    /\ \A t, u \in batch : t.id # 0 /\ t.id = u.id => t.resp = u.resp
    /\ \A x \in ids, t \in batch : t.id # 0 /\ x.id = t.id => Past(acked, x.at)

Numbering ==
    \/ unsaved
    \/ /\ pc = "down" => Numbered(disk.seq, disk.seqSeen, disk.acked)
       /\ pc # "down" => Numbered(seq, seqSeen, acked) /\ BatchNumbered
       /\ NumbersApart

\* r is reported in the first p records.
Reported(r, p) == \E i \in 1..p : log[i] = [what |-> "timing", resp |-> r]

LEMMA StampType ==
    ASSUME MInv
    PROVE  \A i \in 1..Len(log) : StampOf(i) \in Time
<1> SUFFICES ASSUME NEW i \in 1..Len(log) PROVE StampOf(i) \in Time
  OBVIOUS
<1>1. TypeOK /\ log[i].resp \in Resps /\ log[i].what \in {"create", "timing"}
  BY RecordShape DEF MInv, IInv
<1>2. /\ log[i].what = "create" => start[log[i].resp] # 0
      /\ log[i].what = "timing" => finish[log[i].resp] # 0
  BY DEF MInv, IInv, ArchiveInv, StartStamped, Stamped
<1> QED
  BY <1>1, <1>2 DEF StampOf, TypeOK, ArchiveOK

\* What a step of the backend does: one record more, and nothing else that
\* anybody has read.
LEMMA OneMoreRecord ==
    ASSUME MInv, Backend, NEW n \in Nat, n = Len(log) + 1
    PROVE  /\ Len(log) \in Nat /\ Len(log') = n
           /\ \A i \in 1..Len(log) : log'[i] = log[i] /\ StampOf(i)' = StampOf(i)
           /\ StampOf(n)' = clock' /\ clock' \in Time /\ clock <= clock'
           /\ \A r \in Resps : kind[r] # "new" => kind'[r] = kind[r] /\ start'[r] = start[r]
           /\ \A r \in Resps : kind[r] = "new" /\ kind'[r] # "new" =>
                  start'[r] = clock' /\ log'[n] = [what |-> "create", resp |-> r]
           /\ \A r \in Resps : Reported(r, Len(log)) =>
                  finish'[r] = finish[r] /\ reading'[r] = reading[r] /\ before'[r] = before[r]
           /\ UNCHANGED <<pc, pos, acked, batch, again, watermark, open, stateVars, disk,
                          historyVars>>
<1>1. TypeOK /\ Created /\ ArchiveInv /\ Len(log) \in Nat
  BY LogLength DEF MInv, IInv
<1>2. \A i \in 1..Len(log) : /\ log[i].resp \in Resps /\ kind[log[i].resp] # "new"
                             /\ log[i].what \in {"create", "timing"}
                             /\ log[i] = [what |-> log[i].what, resp |-> log[i].resp]
  BY <1>1, RecordShape, DeltasAssumption DEF Created
<1>3. clock \in Time /\ Time \subseteq Nat
  BY <1>1 DEF TypeOK, ArchiveOK, Time
<1>4. CASE \E k \in Kinds : Create(k)
  <2>1. PICK k \in Kinds : Create(k)
    BY <1>4
  <2>2. PICK r \in Resps, ts \in Time :
           /\ kind[r] = "new" /\ kind' = [kind EXCEPT ![r] = k]
           /\ Stamp(ts) /\ start' = [start EXCEPT ![r] = ts]
           /\ log' = Append(log, [what |-> "create", resp |-> r])
    BY <2>1 DEF Create
  <2>3. UNCHANGED <<finish, reading, before, pc, pos, acked, batch, again, watermark,
                    open, stateVars, disk, historyVars>>
    BY <2>1 DEF Create
  <2>4. /\ Len(log') = n /\ \A i \in 1..Len(log) : log'[i] = log[i]
        /\ log'[n] = [what |-> "create", resp |-> r]
    BY <1>1, <2>2 DEF TypeOK, ArchiveOK
  <2>5. clock' = ts /\ clock <= clock'
    BY <1>3, <2>2 DEF Stamp
  <2>6. \A q \in Resps : q # r => kind'[q] = kind[q] /\ start'[q] = start[q]
    BY <1>1, <2>2 DEF TypeOK, ArchiveOK
  <2>7. start'[r] = ts
    BY <1>1, <2>2 DEF TypeOK, ArchiveOK
  <2>8. \A i \in 1..Len(log) : StampOf(i)' = StampOf(i)
    BY <1>2, <2>2, <2>3, <2>4, <2>6 DEF StampOf
  <2>9. StampOf(n)' = clock'
    BY <2>4, <2>5, <2>7 DEF StampOf
  <2> QED
    BY <1>1, <2>2, <2>3, <2>4, <2>5, <2>6, <2>7, <2>8, <2>9
<1>5. CASE \E k \in Kinds : Complete(k)
  <2>1. PICK k \in Kinds : Complete(k)
    BY <1>5
  <2> PICK r : r = current[k]
    OBVIOUS
  <2>2. r \in Resps /\ UnderWay(r, Len(log))
    BY <1>1, <2>1 DEF Complete, TypeOK, ArchiveOK, ArchiveInv, CurrentIsUnderWay
  <2>3. PICK m \in Totals(k, r), ts \in Time :
           /\ reading' = [reading EXCEPT ![r] = m]
           /\ Stamp(ts) /\ finish' = [finish EXCEPT ![r] = ts]
           /\ before' = [before EXCEPT ![r] = latest[k]]
           /\ log' = Append(log, [what |-> "timing", resp |-> r])
    BY <2>1 DEF Complete
  <2>4. UNCHANGED <<kind, start, pc, pos, acked, batch, again, watermark, open, stateVars,
                    disk, historyVars>>
    BY <2>1 DEF Complete
  <2>5. /\ Len(log') = n /\ \A i \in 1..Len(log) : log'[i] = log[i]
        /\ log'[n] = [what |-> "timing", resp |-> r]
    BY <1>1, <2>3 DEF TypeOK, ArchiveOK
  <2>6. clock' = ts /\ clock <= clock'
    BY <1>3, <2>3 DEF Stamp
  <2>7. \A q \in Resps : q # r =>
           finish'[q] = finish[q] /\ reading'[q] = reading[q] /\ before'[q] = before[q]
    BY <1>1, <2>3 DEF TypeOK, ArchiveOK
  <2>8. finish'[r] = ts
    BY <1>1, <2>2, <2>3 DEF TypeOK, ArchiveOK
  <2>9. ~Reported(r, Len(log))
    BY <2>2 DEF UnderWay, Reported
  <2>10. \A i \in 1..Len(log) : log[i].what = "timing" => log[i].resp # r
    BY <1>2, <2>2 DEF UnderWay
  <2>11. \A i \in 1..Len(log) : StampOf(i)' = StampOf(i)
    <3> SUFFICES ASSUME NEW i \in 1..Len(log) PROVE StampOf(i)' = StampOf(i)
      OBVIOUS
    <3>1. log'[i] = log[i] /\ start' = start
      BY <2>4, <2>5
    <3>2. CASE log[i].what = "create"
      BY <3>1, <3>2 DEF StampOf
    <3>3. CASE log[i].what = "timing"
      <4>1. finish'[log[i].resp] = finish[log[i].resp]
        BY <1>2, <2>7, <2>10, <3>3
      <4> QED
        BY <3>1, <3>3, <4>1 DEF StampOf
    <3> QED
      BY <1>2, <3>2, <3>3
  <2>12. StampOf(n)' = clock'
    BY <2>5, <2>6, <2>8 DEF StampOf
  <2> QED
    BY <1>1, <2>3, <2>4, <2>5, <2>6, <2>7, <2>9, <2>11, <2>12
<1> QED
  BY <1>4, <1>5 DEF Backend

LEMMA StampsSame ==
    ASSUME UNCHANGED archiveVars
    PROVE  /\ \A i : StampOf(i)' = StampOf(i)
           /\ Monotone => Monotone'
           /\ InOrder => InOrder'
<1>1. \A i : StampOf(i)' = StampOf(i)
  BY DEF StampOf, archiveVars
<1> QED
  BY <1>1 DEF Monotone, InOrder, archiveVars

LEMMA InitSInv == Init => SInv
<1> SUFFICES ASSUME Init PROVE SInv
  OBVIOUS
<1>1. Len(log) = 0 /\ watermark = 0 /\ clock = 1
  BY DEF Init
<1>2. \A i \in 1..0 : FALSE
  OBVIOUS
<1>3. Monotone /\ InOrder /\ WatermarkBehind
  BY <1>1, <1>2 DEF Monotone, InOrder, WatermarkBehind
<1>4. EmptyHands
  BY DEF Init, EmptyHands
<1> QED
  BY <1>3, <1>4 DEF SInv

LEMMA BackendSInv == MInv /\ SInv /\ Backend => SInv'
<1> SUFFICES ASSUME MInv, SInv, Backend PROVE SInv'
  OBVIOUS
<1>1. Len(log) \in Nat
  BY LogLength DEF MInv, IInv
<1> PICK n \in Nat : n = Len(log) + 1
  BY <1>1
<1>2. /\ Len(log') = n
      /\ \A i \in 1..Len(log) : StampOf(i)' = StampOf(i)
      /\ StampOf(n)' = clock' /\ clock' \in Time /\ clock <= clock'
      /\ UNCHANGED <<pc, pos, acked, batch, again, watermark, open>>
  BY OneMoreRecord
<1>3. \A i \in 1..n : i \in 1..Len(log) \/ i = n
  BY <1>1
<1>4. \A i \in 1..Len(log) : StampOf(i) \in Time /\ StampOf(i) <= clock
  BY StampType DEF SInv, InOrder
<1>5. clock \in Nat /\ clock' \in Nat /\ Time \subseteq Nat /\ watermark \in Nat
  BY <1>2 DEF MInv, IInv, TypeOK, ArchiveOK, WatcherOK, Time
<1>6. \A i \in 1..n : StampOf(i)' \in Nat /\ StampOf(i)' <= clock'
  <2> SUFFICES ASSUME NEW i \in 1..n PROVE StampOf(i)' \in Nat /\ StampOf(i)' <= clock'
    OBVIOUS
  <2>1. CASE i = n
    BY <1>2, <1>5, <2>1
  <2>2. CASE i # n
    <3>1. i \in 1..Len(log) /\ StampOf(i)' = StampOf(i)
      BY <1>2, <1>3, <2>2
    <3>2. StampOf(i) \in Nat /\ StampOf(i) <= clock
      BY <1>4, <1>5, <3>1
    <3> QED
      BY <1>2, <1>5, <3>1, <3>2
  <2> QED
    BY <2>1, <2>2
<1>7. InOrder'
  BY <1>2, <1>6 DEF InOrder
<1>8. Monotone'
  <2> SUFFICES ASSUME NEW i \in 1..n, NEW j \in 1..n, i < j
               PROVE  StampOf(i)' <= StampOf(j)'
    BY <1>2 DEF Monotone
  <2>1. CASE j = n
    BY <1>2, <1>6, <2>1
  <2>2. CASE j # n
    <3>1. i \in 1..Len(log) /\ j \in 1..Len(log)
      BY <1>3, <2>2
    <3> QED
      BY <1>2, <3>1 DEF SInv, Monotone
  <2> QED
    BY <2>1, <2>2
<1>9. WatermarkBehind'
  <2>1. watermark <= clock'
    BY <1>2, <1>5 DEF SInv, WatermarkBehind
  <2>2. ASSUME NEW i \in 1..n, i > pos, i > again PROVE watermark <= StampOf(i)'
    <3>1. CASE i = n
      BY <1>2, <2>1, <3>1
    <3>2. CASE i # n
      BY <1>2, <1>3, <2>2, <3>2 DEF SInv, WatermarkBehind
    <3> QED
      BY <3>1, <3>2
  <2> QED
    BY <1>2, <2>1, <2>2 DEF WatermarkBehind
<1>10. EmptyHands'
  BY <1>2 DEF SInv, EmptyHands
<1> QED
  BY <1>7, <1>8, <1>9, <1>10 DEF SInv

\* Reading the next record of the thread.
LEMMA ReadSInv == MInv /\ SInv /\ (Opens \/ Closes) => SInv'
<1> SUFFICES ASSUME MInv, SInv, Opens \/ Closes PROVE SInv'
  OBVIOUS
<1> PICK n \in Nat : n = pos + 1
  BY DEF MInv, IInv, TypeOK, WatcherOK
<1>1. /\ n \in 1..Len(log) /\ pos' = n /\ watermark' = LaterOf(watermark, StampOf(n))
      /\ pc = "poll"
      /\ UNCHANGED <<archiveVars, pc, acked, again>>
  <2>1. Len(log) \in Nat /\ pos \in 0..Len(log)
    BY LogLength DEF MInv, IInv
  <2>2. CASE Opens
    BY <2>1, <2>2 DEF Opens, StampOf
  <2>3. CASE Closes
    BY <2>1, <2>3 DEF Closes, StampOf
  <2> QED
    BY <2>2, <2>3
<1>2. /\ \A i : StampOf(i)' = StampOf(i)
      /\ Monotone' /\ InOrder'
  BY <1>1, StampsSame DEF SInv
<1>3. /\ \A i \in 1..Len(log) : StampOf(i) \in Nat
      /\ watermark \in Nat /\ clock \in Nat /\ Len(log) \in Nat /\ again \in Nat
      /\ pos \in Nat /\ acked \in 0..pos
  BY StampType DEF MInv, IInv, TypeOK, ArchiveOK, WatcherOK, Time
<1>4. WatermarkBehind'
  <2>1. watermark' <= clock
    BY <1>1, <1>3 DEF SInv, WatermarkBehind, InOrder, LaterOf
  <2>2. ASSUME NEW i \in 1..Len(log), i > n, i > again PROVE watermark' <= StampOf(i)
    <3>1. i > pos /\ n < i
      BY <1>3, <2>2
    <3>2. watermark <= StampOf(i) /\ StampOf(n) <= StampOf(i)
      BY <1>1, <2>2, <3>1 DEF SInv, WatermarkBehind, Monotone
    <3> QED
      BY <1>1, <3>2 DEF LaterOf
  <2> QED
    BY <1>1, <1>2, <2>1, <2>2 DEF WatermarkBehind, archiveVars
<1>5. EmptyHands'
  <2>1. acked' # pos' /\ pc' # "down"
    BY <1>1, <1>3
  <2> QED
    BY <2>1 DEF EmptyHands
<1> QED
  BY <1>2, <1>4, <1>5 DEF SInv

LEMMA ElsewhereSInv == MInv /\ SInv /\ Elsewhere => SInv'
<1> SUFFICES ASSUME MInv, SInv, Elsewhere PROVE SInv'
  OBVIOUS
<1>1. PICK ts \in Time : /\ \A i \in pos + 1..Len(log) : ts <= StampOf(i)
                         /\ watermark' = ts /\ clock' = LaterOf(clock, ts)
  BY DEF Elsewhere
<1>2. /\ UNCHANGED <<log, kind, start, finish, pc, pos, acked, batch, again, open>>
      /\ pc = "poll"
  BY DEF Elsewhere
<1>3. \A i : StampOf(i)' = StampOf(i)
  BY <1>2 DEF StampOf
<1>4. /\ \A i \in 1..Len(log) : StampOf(i) \in Nat
      /\ ts \in Nat /\ clock \in Nat /\ pos \in Nat /\ Len(log) \in Nat
  BY StampType DEF MInv, IInv, TypeOK, ArchiveOK, WatcherOK, Time
<1>5. clock <= clock' /\ ts <= clock' /\ clock' \in Nat
  BY <1>1, <1>4 DEF LaterOf
<1>6. Monotone'
  BY <1>2, <1>3 DEF SInv, Monotone
<1>7. InOrder'
  <2> SUFFICES ASSUME NEW i \in 1..Len(log) PROVE StampOf(i) <= clock'
    BY <1>2, <1>3 DEF InOrder
  <2>1. StampOf(i) <= clock
    BY DEF SInv, InOrder
  <2> QED
    BY <1>4, <1>5, <2>1
<1>8. WatermarkBehind'
  <2>1. \A i \in 1..Len(log) : i > pos => ts <= StampOf(i)
    BY <1>1, <1>4
  <2> QED
    BY <1>1, <1>2, <1>3, <1>5, <2>1 DEF WatermarkBehind
<1>9. EmptyHands'
  BY <1>2 DEF SInv, EmptyHands
<1> QED
  BY <1>6, <1>7, <1>8, <1>9 DEF SInv

\* A process that ends has an empty memory.
LEMMA DieSInv ==
    ASSUME MInv, SInv, Die, UNCHANGED archiveVars
    PROVE  SInv'
<1>1. Monotone' /\ InOrder' /\ \A i : StampOf(i)' = StampOf(i)
  BY StampsSame DEF SInv
<1>2. watermark' = 0
  BY DEF Die
<1>3. /\ \A i \in 1..Len(log) : StampOf(i) \in Nat
      /\ clock \in Nat
  BY StampType DEF MInv, IInv, TypeOK, ArchiveOK, WatcherOK, Time
<1>4. WatermarkBehind'
  BY <1>1, <1>2, <1>3 DEF WatermarkBehind, archiveVars
<1>5. EmptyHands'
  BY DEF Die, EmptyHands
<1> QED
  BY <1>1, <1>4, <1>5 DEF SInv

LEMMA StepSInv == MInv /\ SInv /\ [Next]_vars => SInv'
<1> SUFFICES ASSUME MInv, SInv, [Next]_vars PROVE SInv'
  OBVIOUS
<1>1. /\ Len(log) \in Nat /\ pos \in 0..Len(log) /\ acked \in 0..pos
      /\ again \in 0..Len(log)
  BY LogLength DEF MInv, IInv, TypeOK, WatcherOK
\* Steps that leave the watermark where it is, and take back only what is then
\* read again.
<1>2. ASSUME UNCHANGED <<archiveVars, watermark>>, EmptyHands',
             \/ UNCHANGED <<pos, again>>
             \/ again' = LaterOf(again, pos) /\ pos' \in 0..pos
      PROVE  SInv'
  <2>1. Monotone' /\ InOrder' /\ \A i : StampOf(i)' = StampOf(i)
    BY <1>2, StampsSame DEF SInv
  <2>2. \A i \in 1..Len(log) : i > pos' /\ i > again' => i > pos /\ i > again
    BY <1>1, <1>2 DEF LaterOf
  <2>3. WatermarkBehind'
    BY <1>2, <2>1, <2>2 DEF SInv, WatermarkBehind, archiveVars
  <2> QED
    BY <1>2, <2>1, <2>3 DEF SInv
<1>3. CASE ChunkEnds
  <2>1. EmptyHands'
    BY <1>3 DEF ChunkEnds, SInv, EmptyHands
  <2> QED
    BY <1>2, <1>3, <2>1 DEF ChunkEnds
<1>4. CASE EmitAccepted
  <2>1. EmptyHands'
    BY <1>4 DEF EmitAccepted, EmptyHands
  <2> QED
    BY <1>2, <1>4, <2>1 DEF EmitAccepted
<1>5. CASE EmitRefused
  <2>1. EmptyHands'
    BY <1>5 DEF EmitRefused, EmptyHands
  <2> QED
    BY <1>1, <1>2, <1>5, <2>1 DEF EmitRefused
<1>6. CASE EvictOpen \/ Stop
  <2>1. EmptyHands'
    BY <1>6 DEF EvictOpen, Stop, EmptyHands
  <2> QED
    BY <1>2, <1>6, <2>1 DEF EvictOpen, Stop
<1>7. CASE EvictState \/ Save
  <2>1. EmptyHands'
    BY <1>7 DEF EvictState, Save, SInv, EmptyHands
  <2> QED
    BY <1>2, <1>7, <2>1 DEF EvictState, Save
<1>8. CASE Start
  <2>1. watermark' = 0 /\ UNCHANGED archiveVars /\ batch' = {}
    BY <1>8 DEF Start, SInv, EmptyHands
  <2>2. Monotone' /\ InOrder' /\ \A i : StampOf(i)' = StampOf(i)
    BY <2>1, StampsSame DEF SInv
  <2>3. /\ \A i \in 1..Len(log) : StampOf(i) \in Nat
        /\ clock \in Nat
    BY StampType DEF MInv, IInv, TypeOK, ArchiveOK, WatcherOK, Time
  <2>4. WatermarkBehind'
    BY <2>1, <2>2, <2>3 DEF WatermarkBehind, archiveVars
  <2>5. EmptyHands'
    BY <1>8, <2>1 DEF Start, EmptyHands
  <2> QED
    BY <2>2, <2>4, <2>5 DEF SInv
<1>9. CASE FlushAccepted \/ FlushRefused \/ Crash
  BY <1>9, DieSInv DEF FlushAccepted, FlushRefused, Crash
<1>10. CASE UNCHANGED vars
  <2>1. UNCHANGED <<archiveVars, pc, pos, acked, batch, again, watermark, open>>
    BY <1>10 DEF vars
  <2>2. EmptyHands'
    BY <2>1 DEF SInv, EmptyHands
  <2> QED
    BY <1>2, <2>1, <2>2
<1> QED
  BY <1>3, <1>4, <1>5, <1>6, <1>7, <1>8, <1>9, <1>10, BackendSInv, ReadSInv, ElsewhereSInv
     DEF Next, Watcher

-----------------------------------------------------------------------------
\* What is past stays past: the clock only advances, and what there is to
\* number comes from records that were unread or from open responses.
LEMMA PastStays ==
    ASSUME MInv, NEW p, NEW q, NEW at \in Time, Past(p, at), clock' \in Nat, clock <= clock',
           \A i \in 1..Len(log') : i > q =>
               \/ i \in 1..Len(log) /\ i > p /\ StampOf(i)' = StampOf(i)
               \/ StampOf(i)' \in Nat /\ StampOf(i)' >= clock,
           \A r \in Resps : open'[r] # 0 =>
               \/ open'[r] = open[r]
               \/ \E i \in 1..Len(log) : i > p /\ open'[r] = StampOf(i),
           \A t \in batch' : t.id # 0 =>
               \/ t \in batch
               \/ \E r \in Resps : open[r] # 0 /\ t.at = open[r]
               \/ \E i \in 1..Len(log) : i > p /\ t.at = StampOf(i)
    PROVE  Past(q, at)'
<1>1. at \in Nat /\ StateRetain \in Nat /\ clock \in Nat
  BY Bounds DEF MInv, IInv, TypeOK, ArchiveOK, Time
<1>2. clock' > at + StateRetain
  BY <1>1 DEF Past
<1>3. ASSUME NEW i \in 1..Len(log'), i > q PROVE StampOf(i)' > at + StateRetain
  BY <1>1, <1>3 DEF Past
<1>4. \A r \in Resps : open'[r] # 0 => open'[r] > at + StateRetain
  BY DEF Past
<1>5. \A t \in batch' : t.id # 0 => t.at > at + StateRetain
  BY DEF Past
<1> QED
  BY <1>2, <1>3, <1>4, <1>5 DEF Past

\* The same of a step that leaves the archive alone.
LEMMA PastStaysHere ==
    ASSUME MInv, NEW p \in Nat, NEW q \in Nat, p <= q, NEW at \in Time, Past(p, at),
           UNCHANGED archiveVars,
           \A r \in Resps : open'[r] # 0 =>
               \/ open'[r] = open[r]
               \/ \E i \in 1..Len(log) : i > p /\ open'[r] = StampOf(i),
           \A t \in batch' : t.id # 0 =>
               \/ t \in batch
               \/ \E r \in Resps : open[r] # 0 /\ t.at = open[r]
               \/ \E i \in 1..Len(log) : i > p /\ t.at = StampOf(i)
    PROVE  Past(q, at)'
<1>1. \A i : StampOf(i)' = StampOf(i)
  BY StampsSame
<1>2. clock' = clock /\ log' = log /\ clock \in Nat /\ Len(log) \in Nat
  BY LogLength DEF archiveVars, MInv, IInv, TypeOK, ArchiveOK, Time
<1>3. \A i \in 1..Len(log') : i > q => i \in 1..Len(log) /\ i > p /\ StampOf(i)' = StampOf(i)
  BY <1>1, <1>2
<1>4. clock' \in Nat /\ clock <= clock'
  BY <1>2
<1> HIDE DEF Past
<1> QED
  BY <1>3, <1>4, PastStays

LEMMA IdsTyped == TypeOK => \A x \in ids : x.id \in Nat /\ x.at \in Time /\ x.resp \in Resps
  BY DEF TypeOK, HistoryOK

LEMMA BatchTyped ==
    TypeOK => \A t \in batch : t.id \in Nat /\ t.at \in Time /\ t.resp \in Resps
  BY DEF TypeOK, WatcherOK, Turn

\* Of a step that numbers nothing, takes nothing back and ends nothing.
LEMMA NumberingStays ==
    ASSUME MInv, Numbering, UNCHANGED <<pc, seq, seqSeen, ids, unsaved>>,
           \/ batch' = batch
           \/ batch' = {},
           pc = "down" => UNCHANGED disk,
           \A at \in Time : Past(acked, at) => Past(acked, at)',
           pc = "down" => \A at \in Time : Past(disk.acked, at) => Past(disk.acked, at)'
    PROVE  Numbering'
<1> SUFFICES ASSUME ~unsaved PROVE Numbering'
  BY DEF Numbering
<1>1. \A x \in ids : x.at \in Time
  BY IdsTyped DEF MInv, IInv
<1>2. NumbersApart'
  BY DEF Numbering, NumbersApart
<1>3. ASSUME pc = "down" PROVE Numbered(disk.seq, disk.seqSeen, disk.acked)'
  BY <1>1, <1>3 DEF Numbering, Numbered
<1>4. ASSUME pc # "down" PROVE Numbered(seq, seqSeen, acked)' /\ BatchNumbered'
  <2>1. Numbered(seq, seqSeen, acked) /\ BatchNumbered
    BY <1>4 DEF Numbering
  <2>2. Numbered(seq, seqSeen, acked)'
    BY <1>1, <2>1 DEF Numbered
  <2>3. \A t \in batch' : t \in batch
    OBVIOUS
  <2>4. BatchNumbered'
    BY <1>1, <2>1, <2>3 DEF BatchNumbered
  <2> QED
    BY <2>2, <2>4
<1> QED
  BY <1>2, <1>3, <1>4 DEF Numbering

LEMMA BackendNumbering == MInv /\ SInv /\ Numbering /\ Backend => Numbering'
<1> SUFFICES ASSUME MInv, SInv, Numbering, Backend PROVE Numbering'
  OBVIOUS
<1>1. Len(log) \in Nat
  BY LogLength DEF MInv, IInv
<1> PICK n \in Nat : n = Len(log) + 1
  BY <1>1
<1>2. /\ Len(log') = n
      /\ \A i \in 1..Len(log) : StampOf(i)' = StampOf(i)
      /\ StampOf(n)' = clock' /\ clock' \in Time /\ clock <= clock'
      /\ UNCHANGED <<pc, acked, batch, open, seq, seqSeen, disk, ids, unsaved>>
  BY OneMoreRecord DEF stateVars, historyVars
<1>3. clock' \in Nat
  BY <1>2 DEF Time
<1>4. ASSUME NEW p, NEW at \in Time, Past(p, at) PROVE Past(p, at)'
  <2>1. \A i \in 1..Len(log') : i > p =>
           \/ i \in 1..Len(log) /\ i > p /\ StampOf(i)' = StampOf(i)
           \/ StampOf(i)' \in Nat /\ StampOf(i)' >= clock
    <3> SUFFICES ASSUME NEW i \in 1..n, i > p
                 PROVE  \/ i \in 1..Len(log) /\ StampOf(i)' = StampOf(i)
                        \/ StampOf(i)' \in Nat /\ StampOf(i)' >= clock
      BY <1>2
    <3>1. CASE i = n
      BY <1>2, <1>3, <3>1 DEF MInv, IInv, TypeOK, ArchiveOK, Time
    <3>2. CASE i # n
      BY <1>1, <1>2, <3>2
    <3> QED
      BY <3>1, <3>2
  <2> QED
    BY <1>2, <1>3, <1>4, <2>1, PastStays
<1>5. \A at \in Time : /\ Past(acked, at) => Past(acked, at)'
                       /\ Past(disk.acked, at) => Past(disk.acked, at)'
  <2> PICK p, d : p = acked /\ d = disk.acked
    OBVIOUS
  <2>1. \A at \in Time : /\ Past(p, at) => Past(p, at)'
                         /\ Past(d, at) => Past(d, at)'
    BY <1>4
  <2> QED
    BY <1>2, <2>1 DEF Past
<1> QED
  BY <1>2, <1>5, NumberingStays

LEMMA OpensNumbering == MInv /\ SInv /\ Numbering /\ Opens => Numbering'
<1> SUFFICES ASSUME MInv, SInv, Numbering, Opens PROVE Numbering'
  OBVIOUS
<1>1. TypeOK /\ pos \in 0..Len(log) /\ acked \in 0..pos /\ Len(log) \in Nat
  BY LogLength DEF MInv, IInv
<1> PICK n \in Nat : n = pos + 1
  BY <1>1
<1> PICK p \in Nat : p = acked
  BY <1>1
<1>2. /\ UNCHANGED <<archiveVars, pc, acked, batch, seq, seqSeen, disk, ids, unsaved>>
      /\ n \in 1..Len(log) /\ n > p /\ pc = "poll"
      /\ open' = [open EXCEPT ![log[n].resp] = StampOf(n)]
  BY <1>1 DEF Opens, stateVars, historyVars, StampOf
<1>3. \A r \in Resps : open'[r] # 0 =>
         \/ open'[r] = open[r]
         \/ \E i \in 1..Len(log) : i > p /\ open'[r] = StampOf(i)
  BY <1>1, <1>2 DEF TypeOK, WatcherOK
<1>4. \A at \in Time : Past(p, at) => Past(p, at)'
  <2> SUFFICES ASSUME NEW at \in Time, Past(p, at) PROVE Past(p, at)'
    OBVIOUS
  <2>1. \A t \in batch' : t \in batch
    BY <1>2
  <2> QED
    BY <1>2, <1>3, <2>1, PastStaysHere
<1>5. \A at \in Time : Past(acked, at) => Past(acked, at)'
  BY <1>2, <1>4 DEF Past
<1> QED
  BY <1>2, <1>5, NumberingStays

LEMMA ElsewhereNumbering == MInv /\ SInv /\ Numbering /\ Elsewhere => Numbering'
<1> SUFFICES ASSUME MInv, SInv, Numbering, Elsewhere PROVE Numbering'
  OBVIOUS
<1> PICK p : p = acked
  OBVIOUS
<1>1. /\ UNCHANGED <<log, start, finish, pc, acked, batch, open, seq, seqSeen, disk, ids,
                     unsaved>>
      /\ pc = "poll"
  BY DEF Elsewhere, stateVars, historyVars
<1>2. clock' \in Nat /\ clock <= clock'
  <2>1. PICK ts \in Time : clock' = LaterOf(clock, ts)
    BY DEF Elsewhere
  <2> QED
    BY <2>1 DEF LaterOf, Time, MInv, IInv, TypeOK, ArchiveOK
<1>3. \A i : StampOf(i)' = StampOf(i)
  BY <1>1 DEF StampOf
<1>4. \A at \in Time : Past(p, at) => Past(p, at)'
  BY <1>1, <1>2, <1>3, PastStays
<1>5. \A at \in Time : Past(acked, at) => Past(acked, at)'
  BY <1>1, <1>4 DEF Past
<1> QED
  BY <1>1, <1>5, NumberingStays

\* Of steps that open nothing and number nothing, the offset may advance.
LEMMA OffsetNumbering ==
    ASSUME MInv, Numbering, UNCHANGED <<archiveVars, open, seq, seqSeen, ids, unsaved>>,
           pc # "down", pc' # "down", acked' \in Nat, acked <= acked',
           \/ batch' = batch
           \/ batch' = {}
    PROVE  Numbering'
<1> SUFFICES ASSUME ~unsaved PROVE Numbering'
  BY DEF Numbering
<1> PICK p \in Nat, q \in Nat : p = acked /\ q = acked'
  BY DEF MInv, IInv, TypeOK, WatcherOK
<1>1. \A t \in batch' : t \in batch
  OBVIOUS
<1>2. \A at \in Time : Past(p, at) => Past(q, at)'
  BY <1>1, PastStaysHere
<1>3. \A at \in Time : Past(acked, at) => Past(acked, at)'
  BY <1>2 DEF Past
<1>4. \A x \in ids : x.at \in Time
  BY IdsTyped DEF MInv, IInv
<1>5. Numbered(seq, seqSeen, acked) /\ BatchNumbered /\ NumbersApart
  BY DEF Numbering
<1>6. Numbered(seq, seqSeen, acked)' /\ NumbersApart'
  BY <1>3, <1>4, <1>5 DEF Numbered, NumbersApart
<1>7. BatchNumbered'
  BY <1>1, <1>3, <1>4, <1>5 DEF BatchNumbered
<1> QED
  BY <1>6, <1>7 DEF Numbering

\* A numbering that has advanced has still given out every number there is.
LEMMA NumberedLater ==
    ASSUME MInv, Numbered(seq, seqSeen, acked), NEW n \in Nat, NEW s \in Nat,
           seq <= n, seqSeen <= s, ids' = ids,
           \A at \in Time : Past(acked, at) => Past(acked, at)'
    PROVE  \A x \in ids' : (x.id <= n /\ x.at <= s) \/ Past(acked, x.at)'
<1> SUFFICES ASSUME NEW x \in ids, ~Past(acked, x.at)' PROVE x.id <= n /\ x.at <= s
  OBVIOUS
<1>1. x.id \in Nat /\ x.at \in Time
  BY IdsTyped DEF MInv, IInv
<1>2. ~Past(acked, x.at) /\ x.at \in Nat
  BY <1>1 DEF Time
<1>3. x.id <= seq /\ x.at <= seqSeen
  BY <1>2 DEF Numbered
<1>4. seq \in Nat /\ seqSeen \in Nat
  BY DEF MInv, IInv, TypeOK, WatcherOK, Time
<1> QED
  BY <1>1, <1>2, <1>3, <1>4

LEMMA ClosesNumbering == MInv /\ SInv /\ Numbering /\ Closes => Numbering'
<1> SUFFICES ASSUME MInv, SInv, Numbering, Closes, ~unsaved PROVE Numbering'
  BY DEF Numbering, Closes, historyVars
<1>1. TypeOK /\ pos \in 0..Len(log) /\ acked \in 0..pos /\ Len(log) \in Nat
  BY LogLength DEF MInv, IInv
<1> PICK n \in Nat : n = pos + 1
  BY <1>1
<1> PICK p \in Nat : p = acked
  BY <1>1
<1> PICK r : r = log[n].resp
  OBVIOUS
<1> PICK t : /\ t.resp = r /\ t.at = finish[r]
             /\ t.id \in {0, seq + 1} /\ (t.id # 0 => Begins(r))
             /\ batch' = batch \cup {t}
  <2>1. PICK t : t = [resp |-> r, done |-> TRUE,
                      delta |-> reading[r].total
                                - (IF Begins(r) THEN None ELSE prev[SeriesKey(r)]).total,
                      reset |-> ~Seen(r),
                      id |-> IF Begins(r) /\ ~Named(r)
                             THEN IF Begins(r) THEN seq + 1 ELSE seq ELSE 0,
                      at |-> finish[r]]
    OBVIOUS
  <2>2. batch' = batch \cup {t}
    BY <2>1 DEF Closes
  <2>3. t.resp = r /\ t.at = finish[r]
    BY <2>1
  <2>4. t.id = IF Begins(r) /\ ~Named(r) THEN IF Begins(r) THEN seq + 1 ELSE seq ELSE 0
    BY <2>1
  <2>5. t.id \in {0, seq + 1} /\ (t.id # 0 => Begins(r))
    BY <2>4
  <2> QED
    BY <2>2, <2>3, <2>5
<1>2. /\ UNCHANGED <<archiveVars, pc, acked, ids, unsaved>>
      /\ n \in 1..Len(log) /\ n > p /\ pc = "poll" /\ log[n].what = "timing"
      /\ seq' = (IF Begins(r) THEN seq + 1 ELSE seq)
      /\ seqSeen' = IF Begins(r) THEN LaterOf(seqSeen, finish[r]) ELSE seqSeen
      /\ open' = [open EXCEPT ![r] = 0]
  BY <1>1 DEF Closes, historyVars
<1>3. r \in Resps /\ t.at = StampOf(n) /\ t.at \in Time
  BY <1>1, <1>2, RecordsTyped, StampType DEF StampOf
<1>4. seq \in Nat /\ seqSeen \in Nat /\ Time \subseteq Nat
  BY <1>1 DEF TypeOK, WatcherOK, Time
<1>5. /\ seq' \in Nat /\ seqSeen' \in Nat /\ seq <= seq' /\ seqSeen <= seqSeen'
      /\ Begins(r) => seq' = seq + 1 /\ t.at <= seqSeen'
  BY <1>2, <1>3, <1>4 DEF LaterOf
<1>6. \A at \in Time : Past(p, at) => Past(p, at)'
  <2>1. \A q \in Resps : open'[q] # 0 => open'[q] = open[q]
    BY <1>1, <1>2, <1>3 DEF TypeOK, WatcherOK
  <2>2. \A u \in batch' : u \in batch \/ \E i \in 1..Len(log) : i > p /\ u.at = StampOf(i)
    BY <1>2, <1>3
  <2> QED
    BY <1>2, <2>1, <2>2, PastStaysHere
<1>7. \A at \in Time : Past(acked, at) => Past(acked, at)'
  BY <1>2, <1>6 DEF Past
<1>8. Numbered(seq, seqSeen, acked) /\ BatchNumbered /\ NumbersApart
  BY <1>2 DEF Numbering
<1>9. \A x \in ids : x.at \in Time /\ x.id \in Nat
  BY <1>1, IdsTyped
<1>10. \A u \in batch : u.id \in Nat /\ u.at \in Time
  BY <1>1, BatchTyped
<1>11. Numbered(seq, seqSeen, acked)'
  <2> PICK m \in Nat, s \in Nat : m = seq' /\ s = seqSeen'
    BY <1>5
  <2>1. \A x \in ids' : (x.id <= m /\ x.at <= s) \/ Past(acked, x.at)'
    BY <1>2, <1>5, <1>7, <1>8, NumberedLater
  <2> QED
    BY <2>1 DEF Numbered
<1>12. BatchNumbered'
  <2>1. ASSUME NEW u \in batch', u.id # 0
        PROVE  u.id <= seq' /\ u.at <= seqSeen' /\ u.id \in Nat
    <3>1. CASE u = t
      BY <1>4, <1>5, <2>1, <3>1
    <3>2. CASE u \in batch
      <4>1. u.id <= seq /\ u.at <= seqSeen
        BY <1>8, <2>1, <3>2 DEF BatchNumbered
      <4>2. u.id \in Nat /\ u.at \in Nat
        BY <1>4, <1>10, <3>2
      <4> QED
        BY <1>4, <1>5, <4>1, <4>2
    <3> QED
      BY <3>1, <3>2
  <2>2. ASSUME NEW u \in batch, u.id # 0 PROVE u.id # t.id
    <3>1. u.id <= seq /\ u.id \in Nat
      BY <1>8, <1>10, <2>2 DEF BatchNumbered
    <3> QED
      BY <1>4, <2>2, <3>1
  <2>3. ASSUME NEW u \in batch', NEW v \in batch', u.id # 0, u.id = v.id
        PROVE  u.resp = v.resp
    <3>1. CASE u \in batch /\ v \in batch
      BY <1>8, <2>3, <3>1 DEF BatchNumbered
    <3>2. CASE ~(u \in batch /\ v \in batch)
      BY <2>2, <2>3, <3>2
    <3> QED
      BY <3>1, <3>2
  <2>4. ASSUME NEW x \in ids, NEW u \in batch', u.id # 0, x.id = u.id
        PROVE  Past(acked, x.at)'
    <3>1. CASE u \in batch
      BY <1>7, <1>8, <1>9, <2>4, <3>1 DEF BatchNumbered
    <3>2. CASE u = t
      <4>1. x.id = seq + 1
        BY <2>4, <3>2
      <4>2. Past(acked, x.at)
        BY <1>4, <1>8, <4>1 DEF Numbered
      <4> QED
        BY <1>7, <1>9, <4>2
    <3> QED
      BY <3>1, <3>2
  <2> QED
    BY <1>2, <2>1, <2>3, <2>4 DEF BatchNumbered
<1>13. NumbersApart'
  BY <1>2, <1>8 DEF NumbersApart
<1> QED
  BY <1>2, <1>11, <1>12, <1>13 DEF Numbering

\* Giving up open responses gives those the server did not name new numbers.
LEMMA DrainedNumbering ==
    ASSUME MInv, SInv, Numbering, NEW R \in SUBSET OpenOnes, Drained(R),
           pc # "down", pc' # "down", UNCHANGED <<archiveVars, acked, ids, unsaved>>
    PROVE  Numbering'
<1> SUFFICES ASSUME ~unsaved PROVE Numbering'
  BY DEF Numbering
<1>1. TypeOK /\ acked \in Nat
  BY DEF MInv, IInv, TypeOK, WatcherOK
<1> PICK p \in Nat : p = acked
  BY <1>1
<1> DEFINE nameless == {r \in R : ~Named(r)}
           numbers  == seq + 1..seq + Cardinality(nameless)
<1>2. PICK f \in [nameless -> numbers] :
         /\ \A q, r \in nameless : q # r => f[q] # f[r]
         /\ batch' = {[resp |-> r, done |-> FALSE, delta |-> 0, reset |-> FALSE,
                       id |-> IF Named(r) THEN 0 ELSE f[r], at |-> open[r]] : r \in R}
  BY DEF Drained
<1>3. /\ seq' = seq + Cardinality(nameless)
      /\ seqSeen' = Max({seqSeen} \cup {open[r] : r \in nameless})
      /\ open' = [r \in Resps |-> IF r \in R THEN 0 ELSE open[r]]
  BY DEF Drained
<1>4. R \in SUBSET Resps /\ \A r \in R : open[r] \in Time /\ open[r] # 0
  BY <1>1 DEF OpenOnes, TypeOK, WatcherOK
<1>5. Cardinality(nameless) \in Nat /\ seq \in Nat /\ seqSeen \in Time \cup {0}
  <2>1. nameless \in SUBSET Resps
    BY <1>4
  <2> HIDE DEF nameless
  <2> QED
    BY <1>1, <2>1, CountOfResps DEF TypeOK, WatcherOK
<1>6. seqSeen <= seqSeen' /\ \A r \in nameless : open[r] <= seqSeen'
  <2> PICK S : S = {seqSeen} \cup {open[r] : r \in nameless}
    OBVIOUS
  <2>1. S \in SUBSET (0..MaxTime) /\ S # {}
    BY <1>4, <1>5, TimeIsInterval
  <2>2. Max(S) \in S /\ \A x \in S : Max(S) >= x
    BY <2>1, MaxIsMember, Bounds
  <2>3. seqSeen' = Max(S)
    BY <1>3
  <2>4. seqSeen \in S /\ \A r \in nameless : open[r] \in S
    OBVIOUS
  <2>5. \A x \in S : x \in Int /\ Max(S) \in Int
    BY <2>1, <2>2, Bounds
  <2> QED
    BY <2>2, <2>3, <2>4, <2>5
<1>7. \A t \in batch' : /\ t.resp \in R /\ t.at = open[t.resp]
                        /\ t.id # 0 => t.resp \in nameless /\ t.id = f[t.resp]
  <2> SUFFICES ASSUME NEW r \in R, NEW t,
                      t = [resp |-> r, done |-> FALSE, delta |-> 0, reset |-> FALSE,
                           id |-> IF Named(r) THEN 0 ELSE f[r], at |-> open[r]]
               PROVE  /\ t.resp \in R /\ t.at = open[t.resp]
                      /\ t.id # 0 => t.resp \in nameless /\ t.id = f[t.resp]
    BY <1>2
  <2>1. t.resp = r /\ t.at = open[r] /\ t.id = IF Named(r) THEN 0 ELSE f[r]
    OBVIOUS
  <2> QED
    BY <2>1
<1>8. \A t \in batch' : t.id # 0 => t.id > seq /\ t.id <= seq' /\ t.at <= seqSeen'
  <2>1. \A m \in numbers : m > seq /\ m <= seq'
    BY <1>3, <1>5
  <2> HIDE DEF nameless, numbers
  <2> QED
    BY <1>2, <1>6, <1>7, <2>1
<1>9. \A t, u \in batch' : t.id # 0 /\ t.id = u.id => t.resp = u.resp
  <2> HIDE DEF nameless, numbers
  <2> QED
    BY <1>2, <1>7
<1> HIDE DEF nameless, numbers
<1>10. \A at \in Time : Past(p, at) => Past(p, at)'
  <2>1. \A r \in Resps : open'[r] # 0 => open'[r] = open[r]
    BY <1>3
  <2>2. \A t \in batch' : \E r \in Resps : open[r] # 0 /\ t.at = open[r]
    BY <1>4, <1>7
  <2> QED
    BY <2>1, <2>2, PastStaysHere
<1>11. \A at \in Time : Past(acked, at) => Past(acked, at)'
  BY <1>10 DEF Past
<1>12. Numbered(seq, seqSeen, acked) /\ NumbersApart
  BY DEF Numbering
<1>13. \A x \in ids : x.at \in Time /\ x.id \in Nat
  BY <1>1, IdsTyped
<1>14. seq' \in Nat /\ seq <= seq' /\ seqSeen' \in Nat /\ seqSeen \in Nat /\ Time \subseteq Nat
  <2>1. seqSeen' \in Time \cup {0}
    BY <1>1, DrainedType
  <2> QED
    BY <1>3, <1>5, <2>1 DEF Time
<1>15. Numbered(seq, seqSeen, acked)'
  <2> PICK m \in Nat, s \in Nat : m = seq' /\ s = seqSeen'
    BY <1>14
  <2>1. \A x \in ids' : (x.id <= m /\ x.at <= s) \/ Past(acked, x.at)'
    BY <1>6, <1>11, <1>12, <1>14, NumberedLater
  <2> QED
    BY <2>1 DEF Numbered
<1>16. BatchNumbered'
  <2>1. ASSUME NEW x \in ids, NEW t \in batch', t.id # 0, x.id = t.id
        PROVE  Past(acked, x.at)'
    <3>1. Past(acked, x.at)
      BY <1>5, <1>8, <1>12, <1>13, <2>1 DEF Numbered
    <3> QED
      BY <1>11, <1>13, <3>1
  <2> QED
    BY <1>8, <1>9, <2>1 DEF BatchNumbered
<1>17. NumbersApart'
  BY <1>12 DEF NumbersApart
<1> QED
  BY <1>15, <1>16, <1>17 DEF Numbering

\* The numbers of a batch the sinks accept are given out; what bears the number
\* of one of them is of the past.
LEMMA AcceptedApart ==
    ASSUME MInv, ~unsaved, Numbered(seq, seqSeen, acked), BatchNumbered, NumbersApart,
           ids' = ids \cup {[resp |-> t.resp, id |-> t.id, at |-> t.at] : t \in Accepted}
    PROVE  /\ NumbersApart'
           /\ \A x \in ids' : x \in ids \/ (x.id <= seq /\ x.at <= seqSeen)
<1>1. \A x \in ids' : x \in ids \/ \E t \in batch : /\ t.id # 0
                                                    /\ x.resp = t.resp /\ x.id = t.id
                                                    /\ x.at = t.at
  BY DEF Accepted
<1>2. \A x \in ids' : x \in ids \/ (x.id <= seq /\ x.at <= seqSeen)
  BY <1>1 DEF BatchNumbered
<1>3. ASSUME NEW x \in ids, NEW t \in batch, t.id # 0, x.id = t.id
      PROVE  StateRetain > 0 /\ t.at > x.at + StateRetain
  BY <1>3 DEF BatchNumbered, Past
<1>4. NumbersApart'
  <2> SUFFICES ASSUME NEW x \in ids', NEW y \in ids', x.id = y.id, x.resp # y.resp
               PROVE  /\ StateRetain > 0
                      /\ x.at > y.at + StateRetain \/ y.at > x.at + StateRetain
    BY DEF NumbersApart
  <2>1. CASE x \in ids /\ y \in ids
    BY <2>1 DEF NumbersApart
  <2>2. CASE x \in ids /\ y \notin ids
    BY <1>1, <1>3, <2>2
  <2>3. CASE x \notin ids /\ y \in ids
    BY <1>1, <1>3, <2>3
  <2>4. CASE x \notin ids /\ y \notin ids
    BY <1>1, <2>4 DEF BatchNumbered
  <2> QED
    BY <2>1, <2>2, <2>3, <2>4
<1> QED
  BY <1>2, <1>4

LEMMA EmitAcceptedNumbering == MInv /\ SInv /\ Numbering /\ EmitAccepted => Numbering'
<1> SUFFICES ASSUME MInv, SInv, Numbering, EmitAccepted, ~unsaved PROVE Numbering'
  BY DEF Numbering, EmitAccepted
<1> PICK p \in Nat, q \in Nat : p = acked /\ q = acked' /\ p <= q
  BY DEF EmitAccepted, MInv, IInv, TypeOK, WatcherOK
<1>1. /\ UNCHANGED <<archiveVars, open, seq, seqSeen, unsaved>>
      /\ pc = "emit" /\ pc' = "poll" /\ batch' = {}
      /\ ids' = ids \cup {[resp |-> t.resp, id |-> t.id, at |-> t.at] : t \in Accepted}
  BY DEF EmitAccepted, stateVars
<1>2. Numbered(seq, seqSeen, acked) /\ BatchNumbered /\ NumbersApart
  BY <1>1 DEF Numbering
<1>3. /\ NumbersApart'
      /\ \A x \in ids' : x \in ids \/ (x.id <= seq /\ x.at <= seqSeen)
  BY <1>1, <1>2, AcceptedApart
<1>4. \A at \in Time : Past(p, at) => Past(q, at)'
  BY <1>1, PastStaysHere
<1>5. \A at \in Time : Past(acked, at) => Past(acked, at)'
  BY <1>4 DEF Past
<1>6. \A x \in ids : x.at \in Time
  BY IdsTyped DEF MInv, IInv
<1>7. Numbered(seq, seqSeen, acked)'
  BY <1>1, <1>2, <1>3, <1>5, <1>6 DEF Numbered
<1>8. BatchNumbered'
  BY <1>1 DEF BatchNumbered
<1> QED
  BY <1>1, <1>3, <1>7, <1>8 DEF Numbering

\* When the thread last advanced is no earlier than its numbering did.
LEMMA SeqSeenIsLater ==
    ASSUME TypeOK
    PROVE  SeqSeen \in Time \cup {0} /\ seqSeen <= SeqSeen /\ \A k \in Series : lastSeen[k] <= SeqSeen
<1> PICK S : S = {seqSeen} \cup {lastSeen[k] : k \in Series}
  OBVIOUS
<1>1. {lastSeen[k] : k \in Series} \in SUBSET (Time \cup {0}) /\ seqSeen \in Time \cup {0}
  BY DEF TypeOK, WatcherOK
<1>2. S \in SUBSET (0..MaxTime) /\ S # {}
  BY <1>1, TimeIsInterval
<1>3. Max(S) \in S /\ \A x \in S : Max(S) >= x
  BY <1>2, MaxIsMember, Bounds
<1>4. seqSeen \in S /\ \A k \in Series : lastSeen[k] \in S
  OBVIOUS
<1>5. \A x \in S : x \in Int /\ x \in Time \cup {0}
  BY <1>1, <1>2, Bounds
<1>6. SeqSeen = Max(S)
  BY DEF SeqSeen
<1> QED
  BY <1>3, <1>4, <1>5, <1>6

\* A process that ends in order leaves its numbering in the checkpoint.
LEMMA FlushAcceptedNumbering == MInv /\ SInv /\ Numbering /\ FlushAccepted => Numbering'
<1> SUFFICES ASSUME MInv, SInv, Numbering, FlushAccepted, ~unsaved PROVE Numbering'
  BY DEF Numbering, FlushAccepted
<1> PICK p \in Nat : p = acked
  BY DEF MInv, IInv, TypeOK, WatcherOK
<1>1. /\ UNCHANGED <<archiveVars, unsaved>>
      /\ pc = "flush" /\ pc' = "down" /\ batch' = {} /\ open' = [r \in Resps |-> 0]
      /\ ids' = ids \cup {[resp |-> t.resp, id |-> t.id, at |-> t.at] : t \in Accepted}
      /\ disk'.seq = seq /\ disk'.seqSeen = SeqSeen /\ disk'.acked = p
  BY DEF FlushAccepted, Die, Snapshot
<1>2. Numbered(seq, seqSeen, acked) /\ BatchNumbered /\ NumbersApart
  BY <1>1 DEF Numbering
<1>3. /\ NumbersApart'
      /\ \A x \in ids' : x \in ids \/ (x.id <= seq /\ x.at <= seqSeen)
  BY <1>1, <1>2, AcceptedApart
<1>4. \A at \in Time : Past(p, at) => Past(p, at)'
  BY <1>1, PastStaysHere
<1>5. \A x \in ids' : x.at \in Time
  <2>1. IInv'
    BY EndIInv DEF MInv
  <2> QED
    BY <2>1 DEF IInv, TypeOK, HistoryOK
<1>6. seqSeen \in Nat /\ SeqSeen \in Nat /\ seqSeen <= SeqSeen
  BY SeqSeenIsLater DEF MInv, IInv, TypeOK, WatcherOK, Time
<1>7. \A x \in ids' : (x.id <= seq /\ x.at <= SeqSeen) \/ Past(p, x.at)'
  <2> SUFFICES ASSUME NEW x \in ids', ~Past(p, x.at)' PROVE x.id <= seq /\ x.at <= SeqSeen
    OBVIOUS
  <2>1. x.at \in Time /\ x.at \in Nat
    BY <1>5 DEF Time
  <2>2. ~Past(p, x.at)
    BY <1>4, <2>1
  <2>3. x.id <= seq /\ x.at <= seqSeen
    BY <1>2, <1>3, <2>2 DEF Numbered
  <2> QED
    BY <1>6, <2>1, <2>3
<1>8. Numbered(disk.seq, disk.seqSeen, disk.acked)'
  BY <1>1, <1>7 DEF Numbered, Past
<1> QED
  BY <1>1, <1>3, <1>8 DEF Numbering

\* The next process takes it up from there.
LEMMA StartNumbering == MInv /\ SInv /\ Numbering /\ Start => Numbering'
<1> SUFFICES ASSUME MInv, SInv, Numbering, Start, ~unsaved PROVE Numbering'
  BY DEF Numbering, Start, historyVars
<1> PICK p \in Nat : p = disk.acked
  BY DEF MInv, IInv, TypeOK, WatcherOK, Saved
<1>1. /\ UNCHANGED <<archiveVars, batch, open, ids, unsaved>>
      /\ pc = "down" /\ pc' = "poll" /\ batch = {}
      /\ seq' = disk.seq /\ seqSeen' = disk.seqSeen /\ acked' = p
  BY DEF Start, SInv, EmptyHands, historyVars
<1>2. Numbered(disk.seq, disk.seqSeen, p) /\ NumbersApart
  BY <1>1 DEF Numbering
<1>3. \A at \in Time : Past(p, at) => Past(p, at)'
  BY <1>1, PastStaysHere
<1>4. \A x \in ids : x.at \in Time
  BY IdsTyped DEF MInv, IInv
<1>5. Numbered(seq, seqSeen, acked)'
  BY <1>1, <1>2, <1>3, <1>4 DEF Numbered
<1>6. BatchNumbered' /\ NumbersApart'
  BY <1>1, <1>2 DEF BatchNumbered, NumbersApart
<1> QED
  BY <1>1, <1>5, <1>6 DEF Numbering

\* The numbering of a thread starts over only when all of it is past.
LEMMA EvictStateNumbering == MInv /\ SInv /\ Numbering /\ EvictState => Numbering'
<1> SUFFICES ASSUME MInv, SInv, Numbering, EvictState, ~unsaved PROVE Numbering'
  BY DEF Numbering, EvictState, historyVars
<1> PICK p \in Nat : p = acked
  BY DEF MInv, IInv, TypeOK, WatcherOK
<1>1. /\ UNCHANGED <<archiveVars, pc, acked, batch, open, ids, unsaved>>
      /\ pc = "poll" /\ acked = pos /\ again <= pos /\ StateRetain > 0
  BY DEF EvictState, PassEnds, historyVars
<1>2. /\ batch = {} /\ \A i \in 1..Len(log) : i > p => watermark <= StampOf(i)
      /\ watermark <= clock
  <2>1. again \in Nat
    BY DEF MInv, IInv, TypeOK, WatcherOK, ArchiveOK
  <2>2. \A i \in 1..Len(log) : i > p => i > pos /\ i > again
    BY <1>1, <2>1
  <2> QED
    BY <1>1, <2>2 DEF SInv, EmptyHands, WatermarkBehind
<1>3. Numbered(seq, seqSeen, p) /\ NumbersApart
  BY <1>1 DEF Numbering
<1>4. \A at \in Time : Past(p, at) => Past(p, at)'
  BY <1>1, PastStaysHere
<1>5. \A x \in ids : x.at \in Time /\ x.at \in Nat
  BY IdsTyped DEF MInv, IInv, Time
<1>6. seqSeen \in Nat /\ SeqSeen \in Nat /\ seqSeen <= SeqSeen
  BY SeqSeenIsLater DEF MInv, IInv, TypeOK, WatcherOK, Time
<1>7. CASE NumberingExpired
  <2> SUFFICES \A x \in ids : Past(p, x.at)
    <3>1. ASSUME \A x \in ids : Past(p, x.at) PROVE \A x \in ids' : Past(acked, x.at)'
      BY <1>1, <1>4, <1>5, <3>1 DEF Past
    <3>2. ASSUME \A x \in ids : Past(p, x.at)
          PROVE  Numbered(seq, seqSeen, acked)' /\ BatchNumbered' /\ NumbersApart'
      BY <1>1, <1>2, <1>3, <3>1, <3>2 DEF Numbered, BatchNumbered, NumbersApart
    <3> QED
      BY <1>1, <3>2 DEF Numbering
  <2> SUFFICES ASSUME NEW x \in ids PROVE Past(p, x.at)
    OBVIOUS
  <2>1. CASE x.at <= seqSeen
    <3>1. OpenOnes = {} /\ SeqSeen + StateRetain < watermark
      BY <1>7 DEF NumberingExpired
    <3>2. /\ watermark \in Nat /\ clock \in Nat /\ StateRetain \in Nat
          /\ \A i \in 1..Len(log) : StampOf(i) \in Nat
      BY StampType, Bounds DEF MInv, IInv, TypeOK, ArchiveOK, WatcherOK, Time
    <3>3. x.at + StateRetain < watermark
      BY <1>5, <1>6, <2>1, <3>1, <3>2
    <3>4. clock > x.at + StateRetain
      BY <1>2, <1>5, <3>2, <3>3
    <3>5. ASSUME NEW i \in 1..Len(log), i > p PROVE StampOf(i) > x.at + StateRetain
      BY <1>2, <1>5, <3>2, <3>3, <3>5
    <3>6. \A r \in Resps : open[r] = 0
      BY <3>1 DEF OpenOnes
    <3> QED
      BY <1>1, <1>2, <3>4, <3>5, <3>6 DEF Past
  <2>2. CASE ~(x.at <= seqSeen)
    BY <1>3, <2>2 DEF Numbered
  <2> QED
    BY <2>1, <2>2
<1>8. CASE ~NumberingExpired
  <2>1. seq' = seq /\ seqSeen' = SeqSeen
    BY <1>8 DEF EvictState
  <2> PICK m \in Nat, s \in Nat : m = seq /\ s = SeqSeen
    BY <1>6 DEF MInv, IInv, TypeOK, WatcherOK
  <2>2. \A at \in Time : Past(acked, at) => Past(acked, at)'
    BY <1>1, <1>4 DEF Past
  <2>3. \A x \in ids' : (x.id <= m /\ x.at <= s) \/ Past(acked, x.at)'
    BY <1>1, <1>3, <1>6, <2>2, NumberedLater
  <2>4. Numbered(seq, seqSeen, acked)'
    BY <2>1, <2>3 DEF Numbered
  <2>5. BatchNumbered' /\ NumbersApart'
    BY <1>1, <1>2, <1>3 DEF BatchNumbered, NumbersApart
  <2> QED
    BY <1>1, <2>4, <2>5 DEF Numbering
<1> QED
  BY <1>7, <1>8

LEMMA InitNumbering == Init => Numbering
  BY DEF Init, Numbering, Numbered, NumbersApart

LEMMA StepNumbering == MInv /\ SInv /\ Numbering /\ [Next]_vars => Numbering'
<1> SUFFICES ASSUME MInv, SInv, Numbering, [Next]_vars PROVE Numbering'
  OBVIOUS
<1>1. pos \in Nat /\ acked \in Nat /\ acked <= pos /\ acked <= acked
  BY DEF MInv, IInv, TypeOK, WatcherOK
<1>2. CASE ChunkEnds
  BY <1>1, <1>2, OffsetNumbering DEF ChunkEnds, stateVars, historyVars
<1>3. CASE EmitRefused
  BY <1>1, <1>3, OffsetNumbering DEF EmitRefused, stateVars
<1>4. CASE Save
  BY <1>1, <1>4, OffsetNumbering DEF Save, PassEnds, stateVars, historyVars
<1>5. CASE EvictOpen
  BY <1>5, DrainedNumbering DEF EvictOpen, PassEnds
<1>6. CASE Stop
  BY <1>6, DrainedNumbering DEF Stop
<1>7. CASE FlushRefused \/ Crash
  BY <1>7 DEF FlushRefused, Crash, Numbering
<1>8. CASE UNCHANGED vars
  <2>1. UNCHANGED <<archiveVars, pc, acked, batch, open, seq, seqSeen, disk, ids, unsaved>>
    BY <1>8 DEF vars, stateVars, historyVars
  <2>2. \A i : StampOf(i)' = StampOf(i)
    BY <2>1, StampsSame
  <2>3. \A p, at : Past(p, at)' <=> Past(p, at)
    BY <2>1, <2>2 DEF Past, archiveVars
  <2>4. \A at : /\ Past(acked, at)' <=> Past(acked, at)
                /\ Past(disk.acked, at)' <=> Past(disk.acked, at)
    BY <2>1, <2>3 DEF Past
  <2> QED
    BY <2>1, <2>4, NumberingStays
<1> QED
  BY <1>2, <1>3, <1>4, <1>5, <1>6, <1>7, <1>8, BackendNumbering, OpensNumbering,
     ClosesNumbering, ElsewhereNumbering, EmitAcceptedNumbering, EvictStateNumbering,
     FlushAcceptedNumbering, StartNumbering DEF Next, Watcher

\* No two logical turns get the same number (state.go: the ids the reducer
\* makes up are what the sinks deduplicate by), for every number of responses
\* and every StateRetain: not across restarts, refused batches or evictions,
\* unless a process ended without its last save or they are further apart than
\* StateRetain.
THEOREM NumbersStayApart == Spec => []NumbersApart
<1>1. Init => MInv /\ SInv /\ Numbering
  BY InitMInv, InitSInv, InitNumbering
<1>2. MInv /\ SInv /\ Numbering /\ [Next]_vars => (MInv /\ SInv /\ Numbering)'
  BY StepMInv, StepSInv, StepNumbering
<1>3. Numbering => NumbersApart
  BY DEF Numbering, NumbersApart
<1> QED
  BY <1>1, <1>2, <1>3, PTL DEF Spec

-----------------------------------------------------------------------------
(* The flag.  A baseline that is there is dated by the response it is of;  *)
(* one that is not was given up when whoever reports next in the series    *)
(* could no longer have used it, so long as eviction waits for MaxGap.     *)

\* Whatever has still to report, as kind k, behind the first p records began
\* more than MaxGap after b.
Late(b, k, p) ==
    /\ clock > finish[b] + MaxGap
    /\ \A r \in Resps : kind[r] = k /\ r \notin Excused /\ ~Reported(r, p) =>
           start[r] > finish[b] + MaxGap

\* Baseline v of kind k and its date l belong behind the first p records, as
\* in Fits.
Dated(k, p, v, l) ==
    \A b \in Resps : IsLast(b, k, p) =>
        \/ b \in Excused \/ k = "prewarm"
        \/ IF v = None THEN Late(b, k, p) ELSE l = finish[b]
        \/ \E i \in p + 1..Len(log) :
              /\ IsReport(k, i) /\ log[i].resp \in refused
              /\ \A j \in p + 1..i - 1 : ~IsReport(k, j)

BaselinesDated ==
    \A k \in Kinds : /\ Dated(k, pos, prev[k], lastSeen[k])
                     /\ Dated(k, disk.acked, disk.prev[k], disk.lastSeen[k])

OpenSince == \A r \in Resps : open[r] # 0 => open[r] = start[r]

HasRecord ==
    \A r \in Resps : kind[r] # "new" =>
        \E i \in 1..Len(log) : log[i] = [what |-> "create", resp |-> r]

RInv == BaselinesDated /\ OpenSince /\ HasRecord /\ NoNeedlessReset

\* Eviction does not give up what MaxGap would still let a response use.
EvictionWaits == StateRetain = 0 \/ StateRetain >= MaxGap

LEMMA InitRInv == Init => RInv
<1> SUFFICES ASSUME Init PROVE RInv
  OBVIOUS
<1>1. /\ Len(log) = 0 /\ pos = 0 /\ batch = {} /\ disk.acked = 0
      /\ \A r \in Resps : kind[r] = "new" /\ open[r] = 0
  BY DEF Init, Snapshot
<1>2. \A i \in 1..0 : FALSE
  OBVIOUS
<1>3. 0 \notin Resps
  BY DEF Resps
<1>4. BaselinesDated
  BY <1>1, <1>2, <1>3 DEF BaselinesDated, Dated, IsLast
<1> QED
  BY <1>1, <1>4 DEF RInv, OpenSince, HasRecord, NoNeedlessReset

\* Who reported has a finish stamp that no later record changes.
LEMMA LastIsReported ==
    ASSUME NEW b \in Resps, NEW k, NEW p \in 0..Len(log), TypeOK, IsLast(b, k, p)
    PROVE  Reported(b, p) /\ Reported(b, Len(log))
<1>1. b # 0
  BY DEF Resps
<1>2. \E i \in 1..p : /\ log[i] = [what |-> "timing", resp |-> b]
                      /\ i \in 1..Len(log) /\ kind[b] = k
  BY <1>1, LastHasReport
<1> QED
  BY <1>2 DEF Reported

LEMMA NewIsNoKind == "new" \notin Kinds
  BY DeltasAssumption

LEMMA BackendRInv == MInv /\ RInv /\ Backend => RInv'
<1> SUFFICES ASSUME MInv, RInv, Backend PROVE RInv'
  OBVIOUS
<1>1. TypeOK /\ Created /\ ArchiveInv /\ Len(log) \in Nat
  BY LogLength DEF MInv, IInv
<1> PICK n \in Nat : n = Len(log) + 1
  BY <1>1
<1>2. /\ Len(log') = n
      /\ \A i \in 1..Len(log) : log'[i] = log[i]
      /\ clock' \in Time /\ clock <= clock'
      /\ \A r \in Resps : kind[r] # "new" => kind'[r] = kind[r] /\ start'[r] = start[r]
      /\ \A r \in Resps : kind[r] = "new" /\ kind'[r] # "new" =>
             start'[r] = clock' /\ log'[n] = [what |-> "create", resp |-> r]
      /\ \A r \in Resps : Reported(r, Len(log)) =>
             finish'[r] = finish[r] /\ reading'[r] = reading[r] /\ before'[r] = before[r]
      /\ UNCHANGED <<pos, acked, batch, open, prev, lastSeen, disk, cut, refused>>
  BY OneMoreRecord DEF stateVars, historyVars
<1>3. \A r \in Resps : kind[r] \in Kinds => kind'[r] = kind[r]
  BY <1>2, NewIsNoKind
<1>4. /\ \A k : \A i \in 1..Len(log) : IsReport(k, i)' <=> IsReport(k, i)
      /\ \A b, k : \A p \in 0..Len(log) : IsLast(b, k, p)' <=> IsLast(b, k, p)
  BY <1>1, <1>2, <1>3, PrefixKept
<1>5. Excused' = Excused /\ refused' = refused
  BY <1>2 DEF Excused
<1>6. clock \in Nat /\ clock' \in Nat /\ MaxGap \in Nat
      /\ \A r \in Resps : finish[r] \in Nat
  BY <1>1, <1>2, Bounds DEF TypeOK, ArchiveOK, Time
<1>7. ASSUME NEW k \in Kinds, NEW p \in 0..Len(log), NEW b \in Resps, Late(b, k, p),
             Reported(b, Len(log))
      PROVE  Late(b, k, p)'
  <2>1. finish'[b] = finish[b]
    BY <1>2, <1>7
  <2>2. clock' > finish'[b] + MaxGap
    BY <1>2, <1>6, <1>7, <2>1 DEF Late
  <2>3. ASSUME NEW r \in Resps, kind'[r] = k, r \notin Excused, ~Reported(r, p)'
        PROVE  start'[r] > finish[b] + MaxGap
    <3>1. CASE kind[r] = "new"
      <4>1. start'[r] = clock'
        BY <1>2, <2>3, <3>1, NewIsNoKind
      <4> QED
        BY <2>1, <2>2, <4>1
    <3>2. CASE kind[r] # "new"
      <4>1. kind[r] = k /\ start'[r] = start[r]
        BY <1>2, <2>3, <3>2
      <4>2. ~Reported(r, p)
        <5>1. \A i \in 1..p : log'[i] = log[i]
          BY <1>1, <1>2
        <5> QED
          BY <2>3, <5>1 DEF Reported
      <4> QED
        BY <1>7, <2>3, <4>1, <4>2 DEF Late
    <3> QED
      BY <3>1, <3>2
  <2> QED
    BY <1>5, <2>1, <2>2, <2>3 DEF Late
<1>8. ASSUME NEW k \in Kinds, NEW p \in 0..Len(log), NEW v, NEW l, Dated(k, p, v, l)
      PROVE  Dated(k, p, v, l)'
  <2> SUFFICES ASSUME NEW b \in Resps, IsLast(b, k, p)
               PROVE  \/ b \in Excused \/ k = "prewarm"
                      \/ IF v = None THEN Late(b, k, p)' ELSE l = finish'[b]
                      \/ \E i \in p + 1..Len(log') :
                            /\ IsReport(k, i)' /\ log'[i].resp \in refused
                            /\ \A j \in p + 1..i - 1 : ~IsReport(k, j)'
    BY <1>4, <1>5 DEF Dated
  <2>1. \/ b \in Excused \/ k = "prewarm"
        \/ IF v = None THEN Late(b, k, p) ELSE l = finish[b]
        \/ \E i \in p + 1..Len(log) :
              /\ IsReport(k, i) /\ log[i].resp \in refused
              /\ \A j \in p + 1..i - 1 : ~IsReport(k, j)
    BY <1>8 DEF Dated
  <2>2. Reported(b, Len(log))
    BY <1>1, LastIsReported
  <2>3. (IF v = None THEN Late(b, k, p) ELSE l = finish[b]) =>
            IF v = None THEN Late(b, k, p)' ELSE l = finish'[b]
    BY <1>2, <1>7, <2>2
  <2>4. ASSUME NEW i \in p + 1..Len(log), IsReport(k, i), log[i].resp \in refused,
               \A j \in p + 1..i - 1 : ~IsReport(k, j)
        PROVE  /\ i \in p + 1..Len(log')
               /\ IsReport(k, i)' /\ log'[i].resp \in refused
               /\ \A j \in p + 1..i - 1 : ~IsReport(k, j)'
    <3>1. i \in 1..Len(log) /\ \A j \in p + 1..i - 1 : j \in 1..Len(log)
      BY <1>1
    <3> QED
      BY <1>1, <1>2, <1>4, <2>4, <3>1
  <2> QED
    BY <2>1, <2>3, <2>4
<1>9. BaselinesDated'
  BY <1>1, <1>2, <1>8, LogLength DEF RInv, BaselinesDated
<1>10. OpenSince'
  <2>1. \A r \in Resps : open[r] # 0 => kind[r] # "new"
    BY <1>1, NewIsNoKind DEF Created
  <2> QED
    BY <1>2, <2>1 DEF RInv, OpenSince
<1>11. HasRecord'
  <2> SUFFICES ASSUME NEW r \in Resps, kind'[r] # "new"
               PROVE  \E i \in 1..n : log'[i] = [what |-> "create", resp |-> r]
    BY <1>2 DEF HasRecord
  <2>1. CASE kind[r] = "new"
    <3>1. n \in 1..n
      BY <1>1
    <3> QED
      BY <1>2, <2>1, <3>1
  <2>2. CASE kind[r] # "new"
    <3>1. PICK i \in 1..Len(log) : log[i] = [what |-> "create", resp |-> r]
      BY <2>2 DEF RInv, HasRecord
    <3>2. i \in 1..n /\ log'[i] = log[i]
      BY <1>1, <1>2
    <3> QED
      BY <3>1, <3>2
  <2> QED
    BY <2>1, <2>2
<1>12. NoNeedlessReset'
  <2> SUFFICES ASSUME NEW t \in batch, t.done, t.reset, reading'[t.resp] # None,
                      Whole(t.resp)', before'[t.resp] # 0,
                      {t.resp, before'[t.resp]} \cap refused = {}
               PROVE  start'[t.resp] > finish'[before'[t.resp]] + MaxGap
    BY <1>2 DEF NoNeedlessReset
  <2> PICK r : r = t.resp
    OBVIOUS
  <2>1. r \in Resps
    BY <1>1, BatchTyped
  <2>2. PICK i \in 1..Len(log) : log[i] = [what |-> "timing", resp |-> r]
    BY DEF MInv, BatchReported
  <2>3. Reported(r, Len(log)) /\ kind[r] # "new"
    <3>1. log[i].resp = r /\ kind[log[i].resp] \in Kinds
      BY <1>1, <2>2 DEF Created
    <3> QED
      BY <2>2, <3>1, NewIsNoKind DEF Reported
  <2>4. /\ reading'[r] = reading[r] /\ before'[r] = before[r] /\ start'[r] = start[r]
    BY <1>2, <2>1, <2>3
  <2> PICK b : b = before[r]
    OBVIOUS
  <2>5. b \in Resps /\ finish'[b] = finish[b]
    <3>1. b \in Resps
      BY <1>1, <2>1, <2>4 DEF TypeOK, ArchiveOK
    <3>2. IsLast(b, kind[r], i - 1) /\ i - 1 \in 0..Len(log)
      BY <1>1, <2>2 DEF ArchiveInv, InSeries
    <3>3. Reported(b, Len(log))
      BY <1>1, <3>1, <3>2, LastIsReported
    <3> QED
      BY <1>2, <3>1, <3>3
  <2>6. start[r] > finish[b] + MaxGap
    BY <1>2, <2>4 DEF RInv, NoNeedlessReset, Whole
  <2> QED
    BY <2>4, <2>5, <2>6
<1> QED
  BY <1>9, <1>10, <1>11, <1>12 DEF RInv

\* Time, and more excuses, do not make a baseline wrong.
LEMMA DatedStays ==
    ASSUME MInv, NEW k, NEW p, NEW v, NEW l, Dated(k, p, v, l),
           UNCHANGED <<log, kind, start, finish>>, clock' \in Nat, clock <= clock',
           cut \subseteq cut', refused \subseteq refused'
    PROVE  Dated(k, p, v, l)'
<1>1. /\ \A i : IsReport(k, i)' <=> IsReport(k, i)
      /\ \A b : IsLast(b, k, p)' <=> IsLast(b, k, p)
      /\ \A r : Reported(r, p)' <=> Reported(r, p)
  BY DEF IsReport, IsLast, Reported
<1>2. Excused \subseteq Excused'
  BY DEF Excused
<1>3. \A b \in Resps : Late(b, k, p) => Late(b, k, p)'
  <2> SUFFICES ASSUME NEW b \in Resps, Late(b, k, p) PROVE Late(b, k, p)'
    OBVIOUS
  <2>1. clock \in Nat /\ finish[b] \in Nat /\ MaxGap \in Nat
    BY Bounds DEF MInv, IInv, TypeOK, ArchiveOK, Time
  <2>2. clock' > finish[b] + MaxGap
    BY <2>1 DEF Late
  <2> QED
    BY <1>1, <1>2, <2>2 DEF Late
<1> QED
  BY <1>1, <1>2, <1>3 DEF Dated

\* Nor does a record that reports nothing of the kind.
LEMMA DatedNext ==
    ASSUME NEW k, NEW p \in Nat, NEW v, NEW l, p + 1 <= Len(log), Len(log) \in Nat,
           ~IsReport(k, p + 1), Dated(k, p, v, l)
    PROVE  Dated(k, p + 1, v, l)
<1> PICK n \in Nat : n = p + 1
  OBVIOUS
<1> SUFFICES ASSUME NEW b \in Resps, IsLast(b, k, n)
             PROVE  \/ b \in Excused \/ k = "prewarm"
                    \/ IF v = None THEN Late(b, k, n) ELSE l = finish[b]
                    \/ \E i \in n + 1..Len(log) :
                          /\ IsReport(k, i) /\ log[i].resp \in refused
                          /\ \A j \in n + 1..i - 1 : ~IsReport(k, j)
  BY DEF Dated
<1>1. IsLast(b, k, p)
  BY NextIsOther
<1>2. \A i \in p + 1..Len(log) : IsReport(k, i) => i \in n + 1..Len(log)
  OBVIOUS
<1>3. \A i \in p + 1..Len(log) : \A j \in n + 1..i - 1 : j \in p + 1..i - 1
  OBVIOUS
<1>4. Late(b, k, p) => Late(b, k, n)
  <2>1. \A r : Reported(r, p) => Reported(r, n)
    <3>1. \A i \in 1..p : i \in 1..n
      OBVIOUS
    <3> QED
      BY <3>1 DEF Reported
  <2> QED
    BY <2>1 DEF Late
<1> QED
  BY <1>1, <1>2, <1>3, <1>4 DEF Dated

\* What is left to show of a step of the watcher.
LEMMA WatcherRInv ==
    ASSUME MInv, RInv, UNCHANGED <<log, kind, start, finish, reading, before>>,
           cut \subseteq cut', refused \subseteq refused',
           \A r \in Resps : open'[r] # 0 => open'[r] \in {open[r], start[r]},
           \A t \in batch' : t \in batch \/ ~t.done,
           BaselinesDated'
    PROVE  RInv'
<1>1. OpenSince'
  BY DEF RInv, OpenSince
<1>2. HasRecord'
  BY DEF RInv, HasRecord
<1>3. NoNeedlessReset'
  <2>1. \A r : Whole(r)' => Whole(r)
    BY DEF Whole
  <2> QED
    BY <2>1 DEF RInv, NoNeedlessReset
<1> QED
  BY <1>1, <1>2, <1>3 DEF RInv

\* Of one that leaves the baselines, and where they belong, alone.
LEMMA QuietRInv ==
    ASSUME MInv, RInv, UNCHANGED <<log, kind, start, finish, reading, before>>,
           clock' \in Nat, clock <= clock',
           UNCHANGED <<pos, prev, lastSeen, disk>>,
           cut \subseteq cut', refused \subseteq refused',
           \A r \in Resps : open'[r] # 0 => open'[r] \in {open[r], start[r]},
           \A t \in batch' : t \in batch \/ ~t.done
    PROVE  RInv'
<1>1. BaselinesDated'
  BY DatedStays DEF RInv, BaselinesDated
<1> QED
  BY <1>1, WatcherRInv

LEMMA QuietStepsRInv ==
    MInv /\ RInv /\ (Elsewhere \/ ChunkEnds \/ EmitAccepted \/ EvictOpen \/ Stop) => RInv'
<1> SUFFICES ASSUME MInv, RInv, Elsewhere \/ ChunkEnds \/ EmitAccepted \/ EvictOpen \/ Stop
             PROVE  RInv'
  OBVIOUS
<1>1. clock \in Nat /\ clock <= clock
  BY DEF MInv, IInv, TypeOK, ArchiveOK, Time
<1>2. CASE Elsewhere
  <2>1. PICK ts \in Time : clock' = LaterOf(clock, ts)
    BY <1>2 DEF Elsewhere
  <2>2. clock' \in Nat /\ clock <= clock'
    BY <1>1, <2>1 DEF LaterOf, Time
  <2> QED
    BY <1>2, <2>2, QuietRInv DEF Elsewhere, stateVars, historyVars
<1>3. CASE ChunkEnds
  BY <1>1, <1>3, QuietRInv DEF ChunkEnds, archiveVars, stateVars, historyVars
<1>4. CASE EmitAccepted
  BY <1>1, <1>4, QuietRInv DEF EmitAccepted, archiveVars, stateVars
<1>5. CASE EvictOpen \/ Stop
  <2>1. PICK R : Drained(R)
    BY <1>5 DEF EvictOpen, Stop
  <2>2. /\ \A t \in batch' : ~t.done
        /\ \A r \in Resps : open'[r] # 0 => open'[r] = open[r]
        /\ cut \subseteq cut'
    BY <2>1 DEF Drained
  <2> QED
    BY <1>1, <1>5, <2>2, QuietRInv DEF EvictOpen, Stop, archiveVars
<1> QED
  BY <1>2, <1>3, <1>4, <1>5

LEMMA OpensRInv == MInv /\ RInv /\ Opens => RInv'
<1> SUFFICES ASSUME MInv, RInv, Opens PROVE RInv'
  OBVIOUS
<1>1. TypeOK /\ Len(log) \in Nat /\ pos \in Nat /\ clock \in Nat /\ clock <= clock
  BY LogLength DEF MInv, IInv, TypeOK, ArchiveOK, Time
<1> PICK p \in Nat, n \in Nat : p = pos /\ n = p + 1
  BY <1>1
<1>2. /\ UNCHANGED <<archiveVars, batch, prev, lastSeen, disk, cut, refused>>
      /\ n <= Len(log) /\ pos' = n /\ log[n].what = "create"
      /\ open' = [open EXCEPT ![log[n].resp] = start[log[n].resp]]
  BY <1>1 DEF Opens, stateVars, historyVars
<1>3. \A k : ~IsReport(k, n)
  BY <1>2 DEF IsReport
<1>4. ASSUME NEW k \in Kinds PROVE Dated(k, pos, prev[k], lastSeen[k])'
  <2> PICK v, l : v = prev[k] /\ l = lastSeen[k]
    OBVIOUS
  <2>1. Dated(k, p, v, l)
    BY DEF RInv, BaselinesDated
  <2>2. Dated(k, n, v, l)
    BY <1>1, <1>2, <1>3, <2>1, DatedNext
  <2>3. Dated(k, n, v, l)'
    BY <1>1, <1>2, <2>2, DatedStays DEF archiveVars
  <2> QED
    BY <1>2, <2>3 DEF Dated
<1>5. ASSUME NEW k \in Kinds PROVE Dated(k, disk.acked, disk.prev[k], disk.lastSeen[k])'
  BY <1>1, <1>2, DatedStays DEF RInv, BaselinesDated, archiveVars
<1>6. BaselinesDated'
  BY <1>4, <1>5 DEF BaselinesDated
<1>7. \A r \in Resps : open'[r] # 0 => open'[r] \in {open[r], start[r]}
  BY <1>1, <1>2 DEF TypeOK, WatcherOK
<1> QED
  BY <1>2, <1>6, <1>7, WatcherRInv DEF archiveVars

LEMMA SaveRInv == MInv /\ RInv /\ Save => RInv'
<1> SUFFICES ASSUME MInv, RInv, Save PROVE RInv'
  OBVIOUS
<1>1. clock \in Nat /\ clock <= clock
  BY DEF MInv, IInv, TypeOK, ArchiveOK, Time
<1>2. /\ UNCHANGED <<archiveVars, pos, batch, open, prev, lastSeen, cut, refused>>
      /\ disk'.acked = pos /\ disk'.prev = prev /\ disk'.lastSeen = lastSeen
  BY DEF Save, PassEnds, Snapshot, stateVars, historyVars
<1>3. ASSUME NEW k \in Kinds PROVE Dated(k, pos, prev[k], lastSeen[k])'
  BY <1>1, <1>2, DatedStays DEF RInv, BaselinesDated, archiveVars
<1>4. ASSUME NEW k \in Kinds PROVE Dated(k, disk.acked, disk.prev[k], disk.lastSeen[k])'
  BY <1>2, <1>3 DEF Dated
<1>5. BaselinesDated'
  BY <1>3, <1>4 DEF BaselinesDated
<1> QED
  BY <1>2, <1>5, WatcherRInv DEF archiveVars

\* A process that ends forgets its baselines, and where they belonged.
LEMMA DieRInv ==
    ASSUME MInv, RInv, Die, UNCHANGED <<archiveVars, refused>>,
           \/ UNCHANGED disk
           \/ disk'.acked = pos /\ disk'.prev = prev /\ disk'.lastSeen = lastSeen
    PROVE  RInv'
<1>1. clock \in Nat /\ clock <= clock
  BY DEF MInv, IInv, TypeOK, ArchiveOK, Time
<1>2. pos' = 0 /\ batch' = {} /\ (\A r \in Resps : open'[r] = 0) /\ cut \subseteq cut'
  BY DEF Die
<1>3. ASSUME NEW k \in Kinds PROVE Dated(k, pos, prev[k], lastSeen[k])'
  <2>1. 0 \notin Resps /\ \A i \in 1..0 : FALSE
    BY DEF Resps
  <2>2. \A b \in Resps : ~IsLast(b, k, pos)'
    BY <1>2, <2>1 DEF IsLast
  <2> QED
    BY <2>2 DEF Dated
<1>4. ASSUME NEW k \in Kinds PROVE Dated(k, disk.acked, disk.prev[k], disk.lastSeen[k])'
  <2> PICK p, v, l : p = disk'.acked /\ v = disk'.prev[k] /\ l = disk'.lastSeen[k]
    OBVIOUS
  <2>1. Dated(k, p, v, l)
    BY DEF RInv, BaselinesDated
  <2>2. Dated(k, p, v, l)'
    BY <1>1, <1>2, <2>1, DatedStays DEF archiveVars
  <2> QED
    BY <2>2 DEF Dated
<1>5. BaselinesDated'
  BY <1>3, <1>4 DEF BaselinesDated
<1> QED
  BY <1>2, <1>5, WatcherRInv DEF archiveVars

LEMMA EndRInv == MInv /\ RInv /\ (FlushAccepted \/ FlushRefused \/ Crash) => RInv'
<1> SUFFICES ASSUME MInv, RInv, FlushAccepted \/ FlushRefused \/ Crash PROVE RInv'
  OBVIOUS
<1>1. CASE FlushAccepted
  <2>1. acked = pos
    BY <1>1 DEF FlushAccepted, MInv, BatchReported
  <2>2. disk'.acked = acked /\ disk'.prev = prev /\ disk'.lastSeen = lastSeen
    BY <1>1 DEF FlushAccepted, Snapshot
  <2> QED
    BY <1>1, <2>1, <2>2, DieRInv DEF FlushAccepted
<1>2. CASE FlushRefused \/ Crash
  BY <1>2, DieRInv DEF FlushRefused, Crash
<1> QED
  BY <1>1, <1>2

LEMMA StartRInv == MInv /\ RInv /\ Start => RInv'
<1> SUFFICES ASSUME MInv, RInv, Start PROVE RInv'
  OBVIOUS
<1>1. clock \in Nat /\ clock <= clock
  BY DEF MInv, IInv, TypeOK, ArchiveOK, Time
<1>2. /\ UNCHANGED <<archiveVars, batch, open, disk, cut, refused>>
      /\ pos' = disk.acked /\ prev' = disk.prev /\ lastSeen' = disk.lastSeen
  BY DEF Start, historyVars
<1>3. ASSUME NEW k \in Kinds PROVE Dated(k, disk.acked, disk.prev[k], disk.lastSeen[k])'
  BY <1>1, <1>2, DatedStays DEF RInv, BaselinesDated, archiveVars
<1>4. ASSUME NEW k \in Kinds PROVE Dated(k, pos, prev[k], lastSeen[k])'
  BY <1>2, <1>3 DEF Dated
<1>5. BaselinesDated'
  BY <1>3, <1>4 DEF BaselinesDated
<1> QED
  BY <1>2, <1>5, WatcherRInv DEF archiveVars

\* A baseline is given up once the watermark is past what MaxGap would let
\* anybody use it for: whoever has still to report is not open, so it is unread,
\* and began after the watermark.
LEMMA EvictStateRInv == MInv /\ SInv /\ RInv /\ EvictionWaits /\ EvictState => RInv'
<1> SUFFICES ASSUME MInv, SInv, RInv, EvictionWaits, EvictState PROVE RInv'
  OBVIOUS
<1>1. TypeOK /\ Created /\ Len(log) \in Nat /\ pos \in 0..Len(log)
  BY LogLength DEF MInv, IInv
<1>2. /\ UNCHANGED <<archiveVars, pos, batch, open, cut, refused>>
      /\ pc = "poll" /\ acked = pos /\ again <= pos /\ StateRetain > 0
      /\ prev' = [k \in Series |-> IF k \in Expired THEN None ELSE prev[k]]
      /\ lastSeen' = [k \in Series |-> IF k \in Expired THEN 0 ELSE lastSeen[k]]
      /\ disk'.acked = pos' /\ disk'.prev = prev' /\ disk'.lastSeen = lastSeen'
  BY DEF EvictState, PassEnds, Snapshot, historyVars
<1>3. /\ clock \in Nat /\ clock <= clock /\ watermark \in Nat /\ again \in Nat
      /\ MaxGap \in Nat /\ StateRetain \in Nat /\ StateRetain >= MaxGap
      /\ \A r \in Resps : start[r] \in Nat /\ finish[r] \in Nat
  BY <1>1, <1>2, Bounds DEF TypeOK, ArchiveOK, WatcherOK, Time, EvictionWaits
<1>4. ASSUME NEW k \in Kinds, k \in Expired, NEW b \in Resps, lastSeen[k] = finish[b]
      PROVE  Late(b, k, pos)
  <2>1. OpenOnes = {} /\ lastSeen[k] + StateRetain < watermark
    BY <1>4 DEF Expired
  <2>2. finish[b] + MaxGap < watermark
    BY <1>3, <1>4, <2>1
  <2>3. clock > finish[b] + MaxGap
    <3>1. watermark <= clock
      BY DEF SInv, WatermarkBehind
    <3> QED
      BY <1>3, <2>2, <3>1
  <2>4. ASSUME NEW r \in Resps, kind[r] = k, r \notin Excused, ~Reported(r, pos)
        PROVE  start[r] > finish[b] + MaxGap
    <3>1. kind[r] # "new"
      BY <2>4, NewIsNoKind
    <3>2. PICK i \in 1..Len(log) : log[i] = [what |-> "create", resp |-> r]
      BY <3>1 DEF RInv, HasRecord
    <3>3. ~UnderWay(r, pos)
      <4>1. open[r] = 0
        BY <2>1 DEF OpenOnes
      <4> QED
        BY <1>2, <2>4, <4>1 DEF MInv, OpenOrExcused
    <3>4. \A j \in 1..pos : log[j] # [what |-> "timing", resp |-> r]
      BY <2>4 DEF Reported
    <3>5. i \notin 1..pos
      BY <3>2, <3>3, <3>4 DEF UnderWay
    <3>6. i > pos /\ i > again
      BY <1>1, <1>2, <1>3, <3>5
    <3>7. watermark <= start[r]
      BY <3>2, <3>6 DEF SInv, WatermarkBehind, StampOf
    <3> QED
      BY <1>3, <2>2, <3>7
  <2> QED
    BY <2>3, <2>4 DEF Late
<1>5. ASSUME NEW k \in Kinds PROVE Dated(k, pos, prev[k], lastSeen[k])'
  <2> PICK p, v, l : p = pos /\ v = prev'[k] /\ l = lastSeen'[k]
    OBVIOUS
  <2>1. Dated(k, p, v, l)
    <3>1. Dated(k, pos, prev[k], lastSeen[k])
      BY DEF RInv, BaselinesDated
    <3>2. CASE k \notin Expired
      <4>1. v = prev[k] /\ l = lastSeen[k]
        BY <1>2, <3>2 DEF Series
      <4> QED
        BY <3>1, <4>1
    <3>3. CASE k \in Expired
      <4>1. v = None /\ prev[k] # None
        BY <1>2, <3>3 DEF Series, Expired
      <4>2. \A b \in Resps : lastSeen[k] = finish[b] => Late(b, k, p)
        BY <1>4, <3>3
      <4> QED
        BY <3>1, <4>1, <4>2 DEF Dated
    <3> QED
      BY <3>2, <3>3
  <2>2. Dated(k, p, v, l)'
    BY <1>2, <1>3, <2>1, DatedStays DEF archiveVars
  <2> QED
    BY <1>2, <2>2 DEF Dated
<1>6. ASSUME NEW k \in Kinds PROVE Dated(k, disk.acked, disk.prev[k], disk.lastSeen[k])'
  BY <1>2, <1>5 DEF Dated
<1>7. BaselinesDated'
  BY <1>5, <1>6 DEF BaselinesDated
<1> QED
  BY <1>2, <1>7, WatcherRInv DEF archiveVars

\* Set back behind fewer records: the next of them that reports the kind is one
\* of the batch, or there is none.
LEMMA EmitRefusedRInv == MInv /\ RInv /\ EmitRefused => RInv'
<1> SUFFICES ASSUME MInv, RInv, EmitRefused PROVE RInv'
  OBVIOUS
<1>1. /\ UNCHANGED <<archiveVars, acked, open, prev, lastSeen, disk, cut>>
      /\ pos' = acked /\ batch' = {}
      /\ refused' = refused \cup {t.resp : t \in batch}
  BY DEF EmitRefused, stateVars
<1>2. /\ TypeOK /\ Len(log) \in Nat /\ pos \in 0..Len(log) /\ acked \in 0..pos
      /\ clock \in Nat /\ clock <= clock
  BY LogLength DEF MInv, IInv, TypeOK, ArchiveOK, Time
<1>3. ASSUME NEW k \in Kinds, NEW v, NEW l, Dated(k, pos, v, l)
      PROVE  Dated(k, acked, v, l)'
  <2> DEFINE T == {i \in acked + 1..pos : IsReport(k, i)}
  <2> SUFFICES ASSUME NEW b \in Resps, IsLast(b, k, acked)
               PROVE  \/ b \in Excused' \/ k = "prewarm"
                      \/ IF v = None THEN Late(b, k, acked)' ELSE l = finish[b]
                      \/ \E i \in acked + 1..Len(log) :
                            /\ IsReport(k, i) /\ log[i].resp \in refused'
                            /\ \A j \in acked + 1..i - 1 : ~IsReport(k, j)
    BY <1>1, ArchiveSame DEF Dated, archiveVars
  <2>1. CASE T # {}
    <3>1. PICK i \in T : \A y \in T : i <= y
      <4>1. T \in SUBSET Nat
        BY <1>2
      <4> HIDE DEF T
      <4> QED
        BY <2>1, <4>1, NatHasMinimum
    <3>2. i \in acked + 1..Len(log) /\ IsReport(k, i)
      BY <1>2, <3>1
    <3>3. \A j \in acked + 1..i - 1 : ~IsReport(k, j)
      <4> SUFFICES ASSUME NEW j \in acked + 1..i - 1, IsReport(k, j) PROVE FALSE
        OBVIOUS
      <4>1. j \in T /\ j < i
        BY <1>2, <3>1
      <4> QED
        BY <1>2, <3>1, <4>1
    <3>4. log[i].resp \in refused'
      <4>1. \E t \in batch : t.resp = log[i].resp
        BY <3>1 DEF MInv, BatchReported, IsReport
      <4> QED
        BY <1>1, <4>1
    <3> HIDE DEF T
    <3> QED
      BY <3>2, <3>3, <3>4
  <2>2. CASE T = {}
    <3>1. \A i \in acked + 1..pos : ~IsReport(k, i)
      BY <2>2
    <3> HIDE DEF T
    <3>2. IsLast(b, k, pos)
      <4>1. b # 0
        BY DEF Resps
      <4>2. PICK i \in 1..acked : /\ IsReport(k, i) /\ log[i].resp = b
                                  /\ \A j \in i + 1..acked : ~IsReport(k, j)
        BY <4>1 DEF IsLast
      <4>3. i \in 1..pos
        BY <1>2
      <4>4. \A j \in i + 1..pos : j \in i + 1..acked \/ j \in acked + 1..pos
        BY <1>2
      <4> QED
        BY <3>1, <4>1, <4>2, <4>3, <4>4 DEF IsLast
    <3>3. \/ b \in Excused \/ k = "prewarm"
          \/ IF v = None THEN Late(b, k, pos) ELSE l = finish[b]
          \/ \E i \in pos + 1..Len(log) :
                /\ IsReport(k, i) /\ log[i].resp \in refused
                /\ \A j \in pos + 1..i - 1 : ~IsReport(k, j)
      BY <1>3, <3>2 DEF Dated
    <3>4. Excused \subseteq Excused'
      BY <1>1 DEF Excused
    <3>5. Late(b, k, pos) => Late(b, k, acked)'
      <4> SUFFICES ASSUME Late(b, k, pos), NEW r \in Resps, kind[r] = k, r \notin Excused',
                          ~Reported(r, acked)'
                   PROVE  start[r] > finish[b] + MaxGap
        BY <1>1 DEF Late, archiveVars
      <4>1. \A i \in 1..acked : log[i] # [what |-> "timing", resp |-> r]
        BY <1>1 DEF Reported, archiveVars
      <4>2. \A i \in acked + 1..pos : log[i] # [what |-> "timing", resp |-> r]
        BY <3>1 DEF IsReport
      <4>3. \A i \in 1..pos : i \in 1..acked \/ i \in acked + 1..pos
        BY <1>2
      <4>4. ~Reported(r, pos)
        BY <4>1, <4>2, <4>3 DEF Reported
      <4> QED
        BY <3>4, <4>4 DEF Late
    <3>6. ASSUME NEW i \in pos + 1..Len(log), IsReport(k, i), log[i].resp \in refused,
                 \A j \in pos + 1..i - 1 : ~IsReport(k, j)
          PROVE  /\ i \in acked + 1..Len(log) /\ log[i].resp \in refused'
                 /\ \A j \in acked + 1..i - 1 : ~IsReport(k, j)
      <4>1. i \in acked + 1..Len(log) /\ log[i].resp \in refused'
        BY <1>1, <1>2, <3>6
      <4>2. \A j \in acked + 1..i - 1 : j \in acked + 1..pos \/ j \in pos + 1..i - 1
        BY <1>2
      <4> QED
        BY <3>1, <3>6, <4>1, <4>2
    <3> QED
      BY <3>3, <3>4, <3>5, <3>6
  <2> QED
    BY <2>1, <2>2
<1>4. ASSUME NEW k \in Kinds PROVE Dated(k, pos, prev[k], lastSeen[k])'
  <2> PICK v, l : v = prev[k] /\ l = lastSeen[k]
    OBVIOUS
  <2>1. Dated(k, acked, v, l)'
    BY <1>3 DEF RInv, BaselinesDated
  <2> QED
    BY <1>1, <2>1 DEF Dated
<1>5. ASSUME NEW k \in Kinds PROVE Dated(k, disk.acked, disk.prev[k], disk.lastSeen[k])'
  BY <1>1, <1>2, DatedStays DEF RInv, BaselinesDated, archiveVars
<1>6. BaselinesDated'
  BY <1>4, <1>5 DEF BaselinesDated
<1> QED
  BY <1>1, <1>6, WatcherRInv DEF archiveVars

LEMMA ClosesRInv == MInv /\ RInv /\ Closes => RInv'
<1> SUFFICES ASSUME MInv, RInv, Closes PROVE RInv'
  OBVIOUS
<1> PICK p \in Nat, n \in Nat : p = pos /\ n = p + 1
  BY DEF MInv, IInv, TypeOK, WatcherOK
<1> PICK r : r = log[n].resp
  OBVIOUS
<1> PICK key : key = SeriesKey(r)
  OBVIOUS
<1> PICK t : t.resp = r /\ (t.reset => ~Seen(r)) /\ batch' = batch \cup {t}
  <2>1. PICK t : t = [resp |-> r, done |-> TRUE,
                      delta |-> reading[r].total
                                - (IF Begins(r) THEN None ELSE prev[SeriesKey(r)]).total,
                      reset |-> ~Seen(r),
                      id |-> IF Begins(r) /\ ~Named(r)
                             THEN IF Begins(r) THEN seq + 1 ELSE seq ELSE 0,
                      at |-> finish[r]]
    OBVIOUS
  <2>2. batch' = batch \cup {t}
    BY <2>1 DEF Closes
  <2>3. t.resp = r
    BY <2>1
  <2>4. t.reset => ~Seen(r)
    BY <2>1, Zenon
  <2> QED
    BY <2>2, <2>3, <2>4
<1>1. /\ n \in 1..Len(log) /\ pos' = n /\ log[n].what = "timing" /\ n - 1 = p
      /\ UNCHANGED <<archiveVars, disk, cut, refused>> /\ pc = "poll"
      /\ IF reading[r] = None THEN UNCHANGED <<prev, lastSeen>>
         ELSE /\ prev' = [prev EXCEPT ![key] = reading[r]]
              /\ lastSeen' = [lastSeen EXCEPT ![key] = finish[r]]
      /\ open' = [open EXCEPT ![r] = 0]
  BY LogLength DEF Closes, historyVars, MInv, IInv
<1>2. /\ IInv /\ TypeOK /\ ArchiveInv /\ Len(log) \in Nat
      /\ clock \in Nat /\ clock <= clock
  BY LogLength DEF MInv, IInv, TypeOK, ArchiveOK, Time
<1>3. /\ r \in Resps /\ log[n] = [what |-> "timing", resp |-> r] /\ kind[r] \in Kinds
      /\ IsReport(kind[r], n) /\ Told(r) /\ IsLast(before[r], kind[r], p)
  <2>1. r \in Resps /\ log[n] = [what |-> "timing", resp |-> r]
    BY <1>1, <1>2, RecordShape
  <2>2. kind[r] \in Kinds
    BY <1>1, <1>2 DEF IInv, Created
  <2>3. Told(r) /\ IsLast(before[r], kind[r], p)
    BY <1>1, <1>2 DEF ArchiveInv, InSeries
  <2> QED
    BY <1>1, <2>1, <2>2, <2>3 DEF IsReport
<1>4. ~Reported(r, p)
  <2> SUFFICES ASSUME NEW i \in 1..p, log[i] = [what |-> "timing", resp |-> r] PROVE FALSE
    BY DEF Reported
  <2>1. i \in 1..Len(log) /\ i # n
    BY <1>1, <1>2
  <2> QED
    BY <1>1, <1>2, <1>3, <2>1 DEF ArchiveInv, OnceEach
<1>5. open[r] # 0 \/ r \in Excused
  <2>1. PICK j \in 1..p : log[j] = [what |-> "create", resp |-> r]
    BY <1>1, <1>2 DEF ArchiveInv, CreatedFirst
  <2>2. UnderWay(r, p)
    BY <1>4, <2>1 DEF UnderWay, Reported
  <2> QED
    BY <1>1, <1>3, <2>2 DEF MInv, OpenOrExcused
<1>6. "" \notin Kinds /\ key \in {kind[r], ""} /\ (open[r] # 0 => key = kind[r])
  BY DeltasAssumption DEF SeriesKey
<1>7. prev \in [Series -> Reading] /\ lastSeen \in [Series -> Time \cup {0}]
  BY <1>2 DEF TypeOK, WatcherOK
<1>8. ASSUME NEW k \in Kinds PROVE Dated(k, pos, prev[k], lastSeen[k])'
  <2> PICK v, l : v = prev'[k] /\ l = lastSeen'[k]
    OBVIOUS
  <2>1. Dated(k, n, v, l)
    <3>1. CASE k # kind[r]
      <4>1. k # key /\ k \in Series
        BY <1>6, <3>1 DEF Series
      <4>2. v = prev[k] /\ l = lastSeen[k]
        BY <1>1, <1>7, <4>1
      <4>3. Dated(k, p, v, l)
        BY <4>2 DEF RInv, BaselinesDated
      <4>4. ~IsReport(k, n)
        BY <3>1 DEF IsReport
      <4> QED
        BY <1>1, <1>2, <4>3, <4>4, DatedNext
    <3>2. CASE k = kind[r]
      <4>1. \A b : IsLast(b, k, n) => b = r
        BY <1>3, <3>2, NextIsLast
      <4>2. r \in Excused \/ k = "prewarm" \/ (v # None /\ l = finish[r])
        <5> SUFFICES ASSUME open[r] # 0, k # "prewarm" PROVE v # None /\ l = finish[r]
          BY <1>5
        <5>1. key = k /\ k \in Series
          BY <1>6, <3>2 DEF Series
        <5>2. reading[r] # None
          BY <1>2, <1>3, <3>2, ToldReading
        <5> QED
          BY <1>1, <1>7, <5>1, <5>2
      <4> QED
        BY <4>1, <4>2 DEF Dated
    <3> QED
      BY <3>1, <3>2
  <2>2. Dated(k, n, v, l)'
    BY <1>1, <1>2, <2>1, DatedStays DEF archiveVars
  <2> QED
    BY <1>1, <2>2 DEF Dated
<1>9. ASSUME NEW k \in Kinds PROVE Dated(k, disk.acked, disk.prev[k], disk.lastSeen[k])'
  BY <1>1, <1>2, DatedStays DEF RInv, BaselinesDated, archiveVars
<1>10. BaselinesDated'
  BY <1>8, <1>9 DEF BaselinesDated
<1>11. OpenSince'
  BY <1>1, <1>2 DEF RInv, OpenSince, TypeOK, WatcherOK, archiveVars
<1>12. HasRecord'
  BY <1>1 DEF RInv, HasRecord, archiveVars
<1>13. ASSUME ~Seen(r), reading[r] # None, Whole(r), before[r] # 0,
              {r, before[r]} \cap refused = {}
       PROVE  start[r] > finish[before[r]] + MaxGap
  <2> PICK b, k : b = before[r] /\ k = kind[r]
    OBVIOUS
  <2>1. r \notin Excused /\ b \notin Excused /\ b \in Resps
    BY <1>2, <1>3, <1>13 DEF Whole, Excused, TypeOK, ArchiveOK
  <2>2. k # "prewarm"
    BY <1>2, <1>3, <1>13, ToldReading
  <2>3. key = k /\ k \in Kinds /\ open[r] = start[r] /\ FirstTS(r) = start[r]
    BY <1>3, <1>5, <1>6, <2>1 DEF RInv, OpenSince, FirstTS
  <2>4. ASSUME NEW i \in p + 1..Len(log), log[i].resp \in refused,
               \A j \in p + 1..i - 1 : ~IsReport(k, j)
        PROVE  FALSE
    <3>1. i = n
      BY <1>1, <1>2, <1>3, <2>4
    <3> QED
      BY <1>13, <2>4, <3>1
  <2>5. IF prev[k] = None THEN Late(b, k, p) ELSE lastSeen[k] = finish[b]
    <3>1. Dated(k, p, prev[k], lastSeen[k]) /\ IsLast(b, k, p)
      BY <1>3, <2>3 DEF RInv, BaselinesDated
    <3> QED
      BY <2>1, <2>2, <2>4, <3>1 DEF Dated
  <2>6. CASE prev[k] = None
    BY <1>3, <1>4, <2>1, <2>5, <2>6 DEF Late
  <2>7. CASE prev[k] # None
    <3>1. ~(start[r] <= finish[b] + MaxGap)
      <4>1. SeriesKey(r) = k /\ FirstTS(r) = start[r] /\ lastSeen[k] = finish[b]
        BY <2>3, <2>5, <2>7
      <4>2. ~(prev[k] # None /\ start[r] <= lastSeen[k] + MaxGap)
        BY <1>13, <4>1 DEF Seen
      <4> QED
        BY <2>7, <4>1, <4>2
    <3>2. start[r] \in Nat /\ finish[b] \in Nat /\ MaxGap \in Nat
      <4>1. start[r] \in Time \cup {0} /\ finish[b] \in Time \cup {0}
        BY <1>2, <1>3, <2>1 DEF TypeOK, ArchiveOK
      <4>2. MaxGap \in Nat
        BY Bounds
      <4> QED
        BY <4>1, <4>2 DEF Time
    <3> QED
      BY <3>1, <3>2
  <2> QED
    BY <2>6, <2>7
<1>14. NoNeedlessReset'
  <2> SUFFICES ASSUME NEW x \in batch', x.done, x.reset, reading[x.resp] # None,
                      Whole(x.resp), before[x.resp] # 0,
                      {x.resp, before[x.resp]} \cap refused = {}
               PROVE  start[x.resp] > finish[before[x.resp]] + MaxGap
    BY <1>1 DEF NoNeedlessReset, Whole, archiveVars
  <2>1. CASE x = t
    <3>1. x.resp = r
      BY <2>1
    <3>2. ~Seen(r)
      BY <2>1, Zenon
    <3> QED
      BY <1>13, <3>1, <3>2
  <2>2. CASE x # t
    <3>1. x \in batch
      BY <2>2
    <3> QED
      BY <3>1 DEF RInv, NoNeedlessReset
  <2> QED
    BY <2>1, <2>2
<1> QED
  BY <1>10, <1>11, <1>12, <1>14 DEF RInv

LEMMA StepRInv == MInv /\ SInv /\ RInv /\ EvictionWaits /\ [Next]_vars => RInv'
<1> SUFFICES ASSUME MInv, SInv, RInv, EvictionWaits, [Next]_vars PROVE RInv'
  OBVIOUS
<1>1. CASE UNCHANGED vars
  <2>1. clock \in Nat /\ clock <= clock
    BY DEF MInv, IInv, TypeOK, ArchiveOK, Time
  <2> QED
    BY <1>1, <2>1, QuietRInv DEF vars, archiveVars, stateVars, historyVars
<1> QED
  BY <1>1, BackendRInv, QuietStepsRInv, OpensRInv, SaveRInv, EndRInv, StartRInv,
     EvictStateRInv, EmitRefusedRInv, ClosesRInv DEF Next, Watcher

\* Neither eviction nor a restart costs a baseline MaxThreadGap would have let
\* the next response use (turn.go): a turn is flagged as an upper bound only if
\* its series had reported nothing within MaxThreadGap, provided eviction waits
\* that long.  The configuration does not make it: state_retain is checked to
\* be no less than 0 (config.go), and is 168h by default, MaxThreadGap 30m.
THEOREM ResetsAreNeeded ==
    ASSUME EvictionWaits
    PROVE  Spec => []NoNeedlessReset
<1>1. Init => MInv /\ SInv /\ RInv
  BY InitMInv, InitSInv, InitRInv
<1>2. MInv /\ SInv /\ RInv /\ [Next]_vars => (MInv /\ SInv /\ RInv)'
  BY StepMInv, StepSInv, StepRInv
<1>3. RInv => NoNeedlessReset
  BY DEF RInv
<1> QED
  BY <1>1, <1>2, <1>3, PTL DEF Spec
=============================================================================

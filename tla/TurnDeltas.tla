----------------------------- MODULE TurnDeltas ----------------------------
(***************************************************************************)
(* What internal/turn makes of the running totals the backend reports, for *)
(* the responses of one thread.                                            *)
(*                                                                         *)
(* A response is one record that creates it and one that reports its       *)
(* timing and completes it.  The totals run on from one response to the    *)
(* next of the same kind within a logical turn, and start over with the    *)
(* next turn; applyTiming turns them into what each response did by        *)
(* subtracting the reading before.  That baseline has to be the right one  *)
(* through interleaved kinds, responses nobody finishes, gaps, eviction,   *)
(* refused batches, stops and crashes.                                     *)
(*                                                                         *)
(* The watcher (see ArchiveTail) is reduced to what moves the reducer: it  *)
(* reads the archive in chunks, offers what completed, starts again from   *)
(* its offset when that is refused, and saves offset and reducer together. *)
(***************************************************************************)
EXTENDS Integers, Sequences, FiniteSetsExt

CONSTANTS
    Kinds,        \* request_kind of the responses
    MaxResps,     \* bound: responses of the thread
    Work,         \* what each does
    MaxTime,      \* bound: time passing
    MaxGap,       \* Options.MaxThreadGap
    EvictAfter,   \* Config.EvictAfter
    StateRetain,  \* Config.StateRetain, 0 disables it
    MaxMishaps    \* bound: stops, crashes and refused batches

Resps == 1..MaxResps
Time  == 1..MaxTime

ASSUME DeltasAssumption ==
    /\ MaxResps \in Nat /\ MaxTime \in Nat \ {0} /\ MaxGap \in Nat
    /\ EvictAfter \in Nat /\ StateRetain \in Nat /\ MaxMishaps \in Nat
    /\ Work \in [Resps -> Nat \ {0}]
    /\ Kinds \subseteq STRING \ {"", "new"}

\* A series is a kind of response; one whose creation was not seen by the
\* process that sees it complete has none.
Series == Kinds \cup {""}

\* A reading of the engine's counters; none of a response that did no engine
\* work.
None == [calls |-> 0, total |-> 0]

Turn == [resp : Resps, done : BOOLEAN, delta : Int, reset : BOOLEAN,
         id : Nat,  \* the number of a logical turn that begins here and that
                    \* the server did not name, else 0
         at : Time] \* LastTS

VARIABLES
    \* The archive, and what the backend knows.
    clock,     \* the stamp of the newest record
    log,       \* records: "create" or "timing" of a response
    kind,      \* of every response, "new" before it is created
    start,     \* when it was created
    finish,    \* when it was completed, 0 before
    reading,   \* the totals it reported
    before,    \* the response of its kind that reported before it, 0 for none
    current,   \* the response of every kind that is under way, 0 for none
    latest,    \* the one of every kind that reported last
    \* The process.
    pc,
    pos,       \* records the reducer has been given
    acked,     \* those behind the checkpoint's offset
    batch,     \* turns on their way to emit
    again,     \* those to read again before the pass can end: of one refused
    watermark, \* the stamp of the newest record read, of any thread
    open,      \* FirstTS of every open response, 0 when it is not open
    prev,      \* Reducer.prev, None when absent
    lastSeen,  \* Reducer.lastSeen
    seq,       \* Reducer.seq of the thread
    seqSeen,   \* Reducer.seqSeen of the thread
    \* The checkpoint file.
    disk,
    \* History.
    cut,       \* responses a restart or an eviction took out of the open ones
    refused,   \* responses in a batch that was refused
    ids,       \* numbers given to logical turns the sinks accepted
    mishaps,
    unsaved    \* a process ended without its last save

archiveVars == <<clock, log, kind, start, finish, reading, before, current, latest>>
stateVars   == <<prev, lastSeen, seq, seqSeen>>
historyVars == <<cut, refused, ids, mishaps, unsaved>>
vars == <<archiveVars, pc, pos, acked, batch, again, watermark, open, stateVars,
          disk, historyVars>>

-----------------------------------------------------------------------------
(* The backend and the archive's writer.                                   *)

\* Records are stamped in order.
Stamp(ts) == ts \in clock..MaxTime /\ clock' = ts

\* A response of that kind still under way is never heard of again.
Create(k) ==
    /\ \E r \in Resps :
          /\ kind[r] = "new" /\ \A q \in Resps : q < r => kind[q] # "new"
          /\ kind' = [kind EXCEPT ![r] = k]
          /\ \E ts \in Time : Stamp(ts) /\ start' = [start EXCEPT ![r] = ts]
          /\ current' = [current EXCEPT ![k] = r]
          /\ log' = Append(log, [what |-> "create", resp |-> r])
    /\ UNCHANGED <<finish, reading, before, latest, pc, pos, acked, batch,
                   again, watermark, open, stateVars, disk, historyVars>>

\* The totals of the logical turn so far, or those of a new turn; a prewarm
\* reports none.  Every response makes one engine call.
Totals(k, r) ==
    IF k = "prewarm" THEN {None}
    ELSE {[calls |-> 1, total |-> Work[r]]} \cup
         (IF latest[k] = 0 THEN {}
          ELSE {[calls |-> reading[latest[k]].calls + 1,
                 total |-> reading[latest[k]].total + Work[r]]})

Complete(k) ==
    /\ current[k] # 0
    /\ LET r == current[k]
       IN  /\ \E m \in Totals(k, r) : reading' = [reading EXCEPT ![r] = m]
           /\ \E ts \in Time : Stamp(ts) /\ finish' = [finish EXCEPT ![r] = ts]
           /\ before' = [before EXCEPT ![r] = latest[k]]
           /\ latest' = [latest EXCEPT ![k] = r]
           /\ log' = Append(log, [what |-> "timing", resp |-> r])
    /\ current' = [current EXCEPT ![k] = 0]
    /\ UNCHANGED <<kind, start, pc, pos, acked, batch, again, watermark, open,
                   stateVars, disk, historyVars>>

-----------------------------------------------------------------------------
(* The reducer.                                                            *)

LaterOf(a, b) == IF a < b THEN b ELSE a

\* Reducer.Add of a response.create.
Opens ==
    /\ pc = "poll" /\ pos < Len(log) /\ log[pos + 1].what = "create"
    /\ LET r == log[pos + 1].resp
       IN  /\ open' = [open EXCEPT ![r] = start[r]]
           /\ watermark' = LaterOf(watermark, start[r])
    /\ pos' = pos + 1
    /\ UNCHANGED <<archiveVars, pc, acked, batch, again, stateVars, disk, historyVars>>

\* Slip: the baseline is the thread's, not the series'.
ThreadKey(r) == ""

\* seriesKey: request_kind comes with response.create.
SeriesKey(r) == IF open[r] # 0 THEN kind[r] ELSE ""

FirstTS(r) == IF open[r] # 0 THEN open[r] ELSE finish[r]

\* Whether the series has a baseline that is not stale.
Seen(r) ==
    LET key == SeriesKey(r)
    IN  prev[key] # None /\ FirstTS(r) <= lastSeen[key] + MaxGap

\* Whether applyTiming begins a logical turn.
Begins(r) ==
    ~Seen(r) \/ reading[r] = None \/ reading[r].calls <= prev[SeriesKey(r)].calls

\* Whether the server's turn id is known: it comes with response.create, and
\* is empty on a prewarm.
Named(r) == open[r] # 0 /\ kind[r] # "prewarm"

\* applyTiming, then response.completed.
Closes ==
    /\ pc = "poll" /\ pos < Len(log) /\ log[pos + 1].what = "timing"
    /\ LET r     == log[pos + 1].resp
           key   == SeriesKey(r)
           base  == IF Begins(r) THEN None ELSE prev[key]
           seq1  == IF Begins(r) THEN seq + 1 ELSE seq
       IN  /\ seq' = seq1
           /\ seqSeen' = IF Begins(r) THEN LaterOf(seqSeen, finish[r]) ELSE seqSeen
           /\ batch' = batch \cup
                  {[resp |-> r, done |-> TRUE, delta |-> reading[r].total - base.total,
                    reset |-> ~Seen(r), id |-> IF Begins(r) /\ ~Named(r) THEN seq1 ELSE 0,
                    at |-> finish[r]]}
           /\ IF reading[r] = None THEN UNCHANGED <<prev, lastSeen>>
              ELSE /\ prev' = [prev EXCEPT ![key] = reading[r]]
                   /\ lastSeen' = [lastSeen EXCEPT ![key] = finish[r]]
           /\ open' = [open EXCEPT ![r] = 0]
           /\ watermark' = LaterOf(watermark, finish[r])
    /\ pos' = pos + 1
    /\ UNCHANGED <<archiveVars, pc, acked, again, disk, historyVars>>

\* Flush and Evict give up open responses: ensureLogicalTurn numbers those the
\* server did not name, in any order.
Drained(R) ==
    LET nameless == {r \in R : ~Named(r)}
        numbers  == seq + 1..seq + Cardinality(nameless)
    IN  /\ \E n \in [nameless -> numbers] :
              /\ \A q, r \in nameless : q # r => n[q] # n[r]
              /\ batch' = {[resp |-> r, done |-> FALSE, delta |-> 0, reset |-> FALSE,
                            id |-> IF Named(r) THEN 0 ELSE n[r], at |-> open[r]] : r \in R}
        /\ seq' = seq + Cardinality(nameless)
        /\ seqSeen' = Max({seqSeen} \cup {open[r] : r \in nameless})
        /\ open' = [r \in Resps |-> IF r \in R THEN 0 ELSE open[r]]
        /\ cut' = cut \cup R

OpenOnes == {r \in Resps : open[r] # 0}

-----------------------------------------------------------------------------
(* The watcher around it.                                                  *)

StampOf(i) == IF log[i].what = "create" THEN start[log[i].resp] ELSE finish[log[i].resp]

\* When the thread last advanced, by its numbering or by a series.
SeqSeen == Max({seqSeen} \cup {lastSeen[k] : k \in Series})

\* State.Prev, PrevSeen, Seq and SeqSeen, with the offset they belong to.
Snapshot ==
    [acked |-> acked, prev |-> prev, lastSeen |-> lastSeen, seq |-> seq,
     seqSeen |-> SeqSeen]

\* A record of another thread, read between those of this one.
Elsewhere ==
    /\ pc = "poll"
    /\ \E ts \in Time :
          /\ watermark < ts /\ \A i \in pos + 1..Len(log) : ts <= StampOf(i)
          /\ watermark' = ts /\ clock' = LaterOf(clock, ts)
    /\ UNCHANGED <<log, kind, start, finish, reading, before, current, latest, pc, pos,
                   acked, batch, again, open, stateVars, disk, historyVars>>

\* The chunk ends here; the offset passes one that completed nothing, in this
\* thread or another.
ChunkEnds ==
    /\ pc = "poll" /\ acked < pos
    /\ \/ batch = {} /\ acked' = pos /\ UNCHANGED pc
       \/ pc' = "emit" /\ UNCHANGED acked
    /\ UNCHANGED <<archiveVars, pos, batch, again, watermark, open, stateVars, disk, historyVars>>

Accepted == {t \in batch : t.id # 0}

EmitAccepted ==
    /\ pc = "emit"
    /\ acked' = pos /\ pc' = "poll" /\ batch' = {}
    /\ ids' = ids \cup {[resp |-> t.resp, id |-> t.id, at |-> t.at] : t \in Accepted}
    /\ UNCHANGED <<archiveVars, pos, again, watermark, open, stateVars, disk, cut, refused,
                   mishaps, unsaved>>

\* Slip: the next pass starts from the saved offset.
RefusedToDisk ==
    /\ pc = "emit" /\ mishaps < MaxMishaps
    /\ mishaps' = mishaps + 1
    /\ pos' = disk.acked /\ pc' = "poll" /\ batch' = {} /\ again' = LaterOf(again, pos)
    /\ refused' = refused \cup {t.resp : t \in batch}
    /\ UNCHANGED <<archiveVars, acked, watermark, open, stateVars, disk, cut, ids, unsaved>>

\* The pass is abandoned.  The next one reads from the offset again; the
\* reducer stays as it is.
EmitRefused ==
    /\ pc = "emit" /\ mishaps < MaxMishaps
    /\ mishaps' = mishaps + 1
    /\ pos' = acked /\ pc' = "poll" /\ batch' = {} /\ again' = LaterOf(again, pos)
    /\ refused' = refused \cup {t.resp : t \in batch}
    /\ UNCHANGED <<archiveVars, acked, watermark, open, stateVars, disk, cut, ids, unsaved>>

\* readFile came to the end of every file, and so to all that was read before.
PassEnds == pc = "poll" /\ acked = pos /\ again <= pos

\* Poll's Evict.
EvictOpen ==
    /\ PassEnds
    /\ LET stale == {r \in OpenOnes : open[r] + EvictAfter < watermark}
       IN  stale # {} /\ Drained(stale)
    /\ pc' = "emit"
    /\ UNCHANGED <<archiveVars, pos, acked, again, watermark, prev, lastSeen, disk, refused,
                   ids, mishaps, unsaved>>

\* Slip: the open responses of a thread do not keep its state.
ExpiredThoughOpen == {k \in Series : prev[k] # None /\ lastSeen[k] + StateRetain < watermark}

\* EvictState: the series and the numbering of a thread without open responses,
\* once they are older than StateRetain before the newest record; then a save.
Expired ==
    IF OpenOnes # {} THEN {}
    ELSE {k \in Series : prev[k] # None /\ lastSeen[k] + StateRetain < watermark}

\* Slip: a thread without baselines loses its numbering at once.
NumberingUnused ==
    /\ OpenOnes = {} /\ seq # 0
    /\ \A k \in Series \ Expired : prev[k] = None

NumberingExpired ==
    /\ OpenOnes = {} /\ seq # 0
    /\ \A k \in Series \ Expired : prev[k] = None
    /\ SeqSeen + StateRetain < watermark

EvictState ==
    /\ PassEnds /\ StateRetain > 0
    /\ Expired # {} \/ NumberingExpired
    /\ prev' = [k \in Series |-> IF k \in Expired THEN None ELSE prev[k]]
    /\ lastSeen' = [k \in Series |-> IF k \in Expired THEN 0 ELSE lastSeen[k]]
    /\ IF NumberingExpired THEN seq' = 0 /\ seqSeen' = 0
       ELSE UNCHANGED seq /\ seqSeen' = SeqSeen
    /\ UNCHANGED <<archiveVars, pc, pos, acked, batch, again, watermark, open, historyVars>>
    /\ disk' = Snapshot'

Save ==
    /\ PassEnds
    /\ disk' = Snapshot
    /\ UNCHANGED <<archiveVars, pc, pos, acked, batch, again, watermark, open, stateVars,
                   historyVars>>

\* shutdown: Flush and emit, then the last save; none if the batch is refused.
Stop ==
    /\ pc = "poll" /\ acked = pos /\ mishaps < MaxMishaps
    /\ Drained(OpenOnes)
    /\ mishaps' = mishaps + 1
    /\ pc' = "flush"
    /\ UNCHANGED <<archiveVars, pos, acked, again, watermark, prev, lastSeen, disk, refused,
                   ids, unsaved>>

\* Everything but the checkpoint is gone, responses under way at its offset
\* with it.
Gone == {r \in Resps : \E i \in 1..disk'.acked :
                           /\ log[i].resp = r
                           /\ \A j \in i..disk'.acked :
                                 log[j] # [what |-> "timing", resp |-> r]}

Die ==
    /\ pc' = "down"
    /\ pos' = 0 /\ acked' = 0 /\ batch' = {} /\ again' = 0 /\ watermark' = 0
    /\ open' = [r \in Resps |-> 0]
    /\ prev' = [k \in Series |-> None] /\ lastSeen' = [k \in Series |-> 0]
    /\ seq' = 0 /\ seqSeen' = 0
    /\ cut' = cut \cup Gone

FlushAccepted ==
    /\ pc = "flush"
    /\ ids' = ids \cup {[resp |-> t.resp, id |-> t.id, at |-> t.at] : t \in Accepted}
    /\ disk' = Snapshot
    /\ Die
    /\ UNCHANGED <<archiveVars, refused, mishaps, unsaved>>

FlushRefused ==
    /\ pc = "flush"
    /\ unsaved' = TRUE
    /\ UNCHANGED disk
    /\ Die
    /\ UNCHANGED <<archiveVars, refused, ids, mishaps>>

Crash ==
    /\ pc # "down" /\ mishaps < MaxMishaps
    /\ mishaps' = mishaps + 1 /\ unsaved' = TRUE
    /\ UNCHANGED disk
    /\ Die
    /\ UNCHANGED <<archiveVars, refused, ids>>

\* New and RestoreAt.
Start ==
    /\ pc = "down"
    /\ pc' = "poll"
    /\ pos' = disk.acked /\ acked' = disk.acked
    /\ prev' = disk.prev /\ lastSeen' = disk.lastSeen
    /\ seq' = disk.seq /\ seqSeen' = disk.seqSeen
    /\ UNCHANGED <<archiveVars, batch, again, watermark, open, disk, historyVars>>

-----------------------------------------------------------------------------
Init ==
    /\ clock = 1 /\ log = <<>>
    /\ kind = [r \in Resps |-> "new"]
    /\ start = [r \in Resps |-> 0] /\ finish = start /\ before = start
    /\ reading = [r \in Resps |-> None]
    /\ current = [k \in Kinds |-> 0] /\ latest = current
    /\ pc = "down" /\ pos = 0 /\ acked = 0 /\ batch = {}
    /\ again = 0 /\ watermark = 0
    /\ open = start
    /\ prev = [k \in Series |-> None] /\ lastSeen = [k \in Series |-> 0]
    /\ seq = 0 /\ seqSeen = 0
    /\ disk = Snapshot
    /\ cut = {} /\ refused = {} /\ ids = {}
    /\ mishaps = 0 /\ unsaved = FALSE

Backend == \E k \in Kinds : Create(k) \/ Complete(k)
Watcher ==
    \/ Opens \/ Closes \/ Elsewhere \/ ChunkEnds \/ EmitAccepted \/ EmitRefused
    \/ EvictOpen \/ EvictState \/ Save
    \/ Stop \/ FlushAccepted \/ FlushRefused \/ Start
Next == Backend \/ Watcher \/ Crash

Spec == Init /\ [][Next]_vars

-----------------------------------------------------------------------------
(* Properties.                                                             *)

Reading == [calls : Nat, total : Nat]
Saved == [acked : Nat, prev : [Series -> Reading], lastSeen : [Series -> Time \cup {0}],
          seq : Nat, seqSeen : Time \cup {0}]

ArchiveOK ==
    /\ clock \in Time
    /\ log \in Seq([what : {"create", "timing"}, resp : Resps])
    /\ kind \in [Resps -> Kinds \cup {"new"}]
    /\ start \in [Resps -> Time \cup {0}] /\ finish \in [Resps -> Time \cup {0}]
    /\ reading \in [Resps -> Reading] /\ before \in [Resps -> Resps \cup {0}]
    /\ current \in [Kinds -> Resps \cup {0}] /\ latest \in [Kinds -> Resps \cup {0}]

WatcherOK ==
    /\ pc \in {"down", "poll", "emit", "flush"}
    /\ pos \in 0..Len(log) /\ acked \in 0..pos
    /\ batch \in SUBSET Turn
    /\ again \in 0..Len(log) /\ watermark \in Time \cup {0} /\ open \in [Resps -> Time \cup {0}]
    /\ prev \in [Series -> Reading] /\ lastSeen \in [Series -> Time \cup {0}]
    /\ seq \in Nat /\ seqSeen \in Time \cup {0}
    /\ disk \in Saved /\ disk.acked <= Len(log)

HistoryOK ==
    /\ cut \in SUBSET Resps /\ refused \in SUBSET Resps
    /\ ids \in SUBSET [resp : Resps, id : Nat, at : Time]
    /\ mishaps \in 0..MaxMishaps /\ unsaved \in BOOLEAN

\* Every variable keeps its shape, and the offsets stay within what has been
\* reduced, and written, of the archive.
TypeOK == ArchiveOK /\ WatcherOK /\ HistoryOK

\* Neither a response nor the one before it in its series was open when a
\* process ended or when it was evicted.
Whole(r) == r \notin cut /\ before[r] \notin cut

\* The delta of a turn is what its response did, or is flagged as an upper
\* bound of it.
Measured(t) ==
    LET work == IF reading[t.resp] = None THEN 0 ELSE Work[t.resp]
    IN  IF t.reset THEN t.delta >= work ELSE t.delta = work

\* "The single most important correctness property in the package": deltas are
\* measurements wherever the responses were read whole, through interleaved
\* kinds, gaps, evictions, stops and crashes - as long as no batch with the
\* response or the one before it was refused.
DeltasAreMeasured ==
    \A t \in batch :
        t.done /\ Whole(t.resp) /\ {t.resp, before[t.resp]} \cap refused = {} =>
            Measured(t)

\* Eviction and restarts cost no baseline that was still good: a turn is
\* flagged only if its series reported nothing within MaxThreadGap before.
NoNeedlessReset ==
    \A t \in batch :
        t.done /\ t.reset /\ reading[t.resp] # None /\ Whole(t.resp)
        /\ before[t.resp] # 0 /\ {t.resp, before[t.resp]} \cap refused = {} =>
            start[t.resp] > finish[before[t.resp]] + MaxGap

\* The numbers of two logical turns the server did not name differ, unless a
\* crash or a refused flush took the numbering back or the thread was quiet
\* for StateRetain between them.
NumbersApart ==
    \A x, y \in ids :
        x.id = y.id /\ x.resp # y.resp =>
            \/ unsaved
            \/ StateRetain > 0 /\ (x.at > y.at + StateRetain \/ y.at > x.at + StateRetain)
=============================================================================

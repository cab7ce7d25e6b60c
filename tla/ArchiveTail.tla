---------------------------- MODULE ArchiveTail ----------------------------
(***************************************************************************)
(* internal/tail: the watcher that follows the archive directory, feeds    *)
(* the reducer, hands finished turns to the sinks, checkpoints how far it  *)
(* has read, and deletes files it has fully ingested.                      *)
(*                                                                         *)
(* Beside the watcher run the codex-lb writer (external: it appends gzip   *)
(* members to the file of the current day, may die inside a member), the   *)
(* operator (moves files away, stops the service) and the machine (kills   *)
(* the process).  Each of them may move between any two steps of a poll.   *)
(*                                                                         *)
(* Abstractions.  A file name is the UTC day in it, so names are numbers   *)
(* and sort chronologically.  A gzip member holds one record.  A record    *)
(* has an id (its timestamp: the writer stamps them in order), the         *)
(* response it belongs to and a kind: "input" stands for every record      *)
(* whose content the reducer deduplicates, "done" for the record that      *)
(* closes a response, "bad" for a record that is not JSON, "corrupt" for   *)
(* what a member the writer never finished becomes once something follows  *)
(* it.  Two bytes stand for a whole member, one for an unfinished one.     *)
(***************************************************************************)
EXTENDS Naturals, Sequences, FiniteSetsExt

CONSTANTS
    Responses,      \* request ids
    MaxDay,         \* bound: days the run lasts
    MaxGen,         \* bound: times one name is created
    MaxFrames,      \* bound: records the writer writes
    MaxRestarts,    \* bound: stops and crashes of the service
    HeadBytes,      \* fingerprintBytes
    EvictAfter,     \* Config.EvictAfter
    RetainDays,     \* Config.RetainDays, 0 disables it
    DeleteAfter,    \* whether Config.DeleteAfter is set
    TombstoneDays,  \* days a tombstone outlives its file's day
    Faults          \* which of FaultKinds this instance admits

\* What an instance admits beside the writer and a watcher nothing fails for.
\* "stop" (a SIGTERM) and "partial" (a member seen half-written) are no faults
\* but ordinary life; an instance may leave them out to ask one question.
FaultKinds == {"stop", "emit", "crash", "save", "partial", "torn", "bad", "move",
               "putback"}

ASSUME ConstantsAssumption ==
    /\ MaxDay \in Nat \ {0}
    /\ MaxGen \in Nat \ {0}
    /\ MaxFrames \in Nat
    /\ MaxRestarts \in Nat
    /\ HeadBytes \in Nat \ {0}
    /\ EvictAfter \in Nat
    /\ RetainDays \in Nat
    /\ DeleteAfter \in BOOLEAN
    /\ TombstoneDays \in Nat
    /\ Faults \subseteq FaultKinds

Days     == 1..MaxDay
Gens     == 1..MaxGen
FrameIds == 1..MaxFrames

\* A torn member counts besides the record that follows it.
Positions == 1..2 * MaxFrames

Record == [id : FrameIds, resp : Responses, kind : {"input", "done", "bad"}]
Torn   == [id : {0}, resp : Responses, kind : {"corrupt"}]
Member == Record \cup Torn

NoFingerprint == [gen |-> 0, len |-> 0]
FileState == [offset  : Nat,
              size    : Nat,
              fp      : [gen : 0..MaxGen, len : Nat],
              deleted : BOOLEAN]
NoState == [offset |-> 0, size |-> 0, fp |-> NoFingerprint, deleted |-> FALSE]

Turn == [resp : Responses, got : SUBSET FrameIds]

VARIABLES
    \* The archive directory, written by codex-lb.
    today,      \* the current UTC day
    nextId,     \* id of the next record
    present,    \* whether a file of that name is in the directory
    gen,        \* times that name has been created
    body,       \* the complete members of every generation of every name
    tail,       \* what follows the last complete member
    \* The watcher, lost when its process ends.
    pc,
    cancelled,  \* the context's Done
    files,      \* what scan() returned
    todo,       \* the files this pass has still to visit
    st,         \* readFile's FileState
    statSize,   \* readFile's fi.Size()
    upto,       \* the member the current chunk ends with
    batch,      \* the turns passed to emit
    cp,         \* Checkpoint.Files
    saved,      \* whether lastSaveAt is set
    watermark,
    \* Its reducer.
    open,       \* LastTS of every open response, 0 when it is not open
    got,        \* what the open turn has captured
    seen,       \* the content dedup set
    \* Durable.
    disk,       \* Checkpoint.Files of the checkpoint file
    \* What the sinks and the world have seen.
    shipped,    \* records inside turns the sinks accepted
    reshipped,  \* those accepted more than once
    skipped,    \* records dropped behind a record that is not JSON
    restarts

archiveVars == <<today, nextId, present, gen, body, tail>>
readVars    == <<st, statSize, upto>>
reducerVars == <<watermark, open, got, seen>>
sinkVars    == <<shipped, reshipped, skipped>>
vars == <<archiveVars, pc, cancelled, files, todo, readVars, batch, cp, saved,
          reducerVars, disk, sinkVars, restarts>>

-----------------------------------------------------------------------------
(* The archive directory.                                                  *)

Bytes(f, g) == 2 * Len(body[f][g]) + (IF tail[f][g] = "clean" THEN 0 ELSE 1)
Size(f)     == Bytes(f, gen[f])

\* The writer names a batch after the day it starts it in, and one batch ends
\* before the next begins, so it never returns to a name older than the newest
\* it has created.
MayWrite(f) ==
    /\ f \in Days /\ f <= today /\ f + 1 >= today
    /\ \A e \in Days : e > f => gen[e] = 0

CreateFile(f) ==
    /\ MayWrite(f) /\ ~present[f] /\ gen[f] < MaxGen
    /\ present' = [present EXCEPT ![f] = TRUE]
    /\ gen' = [gen EXCEPT ![f] = @ + 1]
    /\ UNCHANGED <<today, nextId, body, tail, pc, cancelled, files, todo, readVars,
                   batch, cp, saved, reducerVars, disk, sinkVars, restarts>>

\* A response's records end with its "done".
Finished(r) ==
    \E f \in Days, g \in Gens : \E i \in 1..Len(body[f][g]) :
        body[f][g][i].resp = r /\ body[f][g][i].kind = "done"

AppendMember(f, r, k) ==
    /\ MayWrite(f) /\ present[f] /\ nextId <= MaxFrames /\ ~Finished(r)
    /\ k = "bad" => "bad" \in Faults
    /\ LET rec  == [id |-> nextId, resp |-> r, kind |-> k]
           torn == [id |-> 0, resp |-> r, kind |-> "corrupt"]
           more == IF tail[f][gen[f]] = "abandoned" THEN <<torn, rec>> ELSE <<rec>>
       IN body' = [body EXCEPT ![f][gen[f]] = @ \o more]
    /\ tail' = [tail EXCEPT ![f][gen[f]] = "clean"]
    /\ nextId' = nextId + 1
    /\ UNCHANGED <<today, present, gen, pc, cancelled, files, todo, readVars, batch,
                   cp, saved, reducerVars, disk, sinkVars, restarts>>

BeginMember(f) ==
    /\ "partial" \in Faults
    /\ MayWrite(f) /\ present[f] /\ nextId <= MaxFrames
    /\ tail[f][gen[f]] = "clean"
    /\ tail' = [tail EXCEPT ![f][gen[f]] = "partial"]
    /\ UNCHANGED <<today, nextId, present, gen, body, pc, cancelled, files, todo,
                   readVars, batch, cp, saved, reducerVars, disk, sinkVars, restarts>>

WriterDies(f) ==
    /\ "torn" \in Faults
    /\ present[f] /\ tail[f][gen[f]] = "partial"
    /\ tail' = [tail EXCEPT ![f][gen[f]] = "abandoned"]
    /\ UNCHANGED <<today, nextId, present, gen, body, pc, cancelled, files, todo,
                   readVars, batch, cp, saved, reducerVars, disk, sinkVars, restarts>>

MoveAway(f) ==
    /\ "move" \in Faults
    /\ present[f]
    /\ present' = [present EXCEPT ![f] = FALSE]
    /\ UNCHANGED <<today, nextId, gen, body, tail, pc, cancelled, files, todo,
                   readVars, batch, cp, saved, reducerVars, disk, sinkVars, restarts>>

\* The newest file of that name comes back, from the host it was copied to.
PutBack(f) ==
    /\ "putback" \in Faults
    /\ ~present[f] /\ gen[f] # 0
    /\ present' = [present EXCEPT ![f] = TRUE]
    /\ UNCHANGED <<today, nextId, gen, body, tail, pc, cancelled, files, todo,
                   readVars, batch, cp, saved, reducerVars, disk, sinkVars, restarts>>

NextDay ==
    /\ today < MaxDay
    /\ today' = today + 1
    /\ UNCHANGED <<nextId, present, gen, body, tail, pc, cancelled, files, todo,
                   readVars, batch, cp, saved, reducerVars, disk, sinkVars, restarts>>

Writer ==
    \/ \E f \in Days : CreateFile(f) \/ BeginMember(f) \/ WriterDies(f)
    \/ \E f \in Days, r \in Responses, k \in {"input", "done", "bad"} :
           AppendMember(f, r, k)

-----------------------------------------------------------------------------
(* The reducer, as far as delivery can tell.  A response is opened by its  *)
(* first record, whatever that is, and closed by its last; content already *)
(* in the dedup set is not captured again.                                 *)

\* The records of members lo+1 to hi that are reached: a record that does not
\* decode ends the chunk.
Reached(f, g, lo, hi) ==
    {i \in lo + 1..hi : \A j \in lo + 1..i : body[f][g][j].kind # "bad"}

ChunkOf(f, g, lo, hi) == {body[f][g][i] : i \in Reached(f, g, lo, hi)}

SkippedBy(f, g, lo, hi) ==
    {body[f][g][i].id : i \in (lo + 1..hi) \ Reached(f, g, lo, hi)}

Captured(chunk, r) ==
    got[r] \cup {m.id : m \in {x \in chunk : x.resp = r /\ (x.kind = "done" \/ x.id \notin seen)}}

Closed(chunk) == {r \in Responses : \E m \in chunk : m.resp = r /\ m.kind = "done"}

Reduce(chunk) ==
    LET ids(r) == {m.id : m \in {x \in chunk : x.resp = r}}
    IN  /\ watermark' = Max({watermark} \cup {m.id : m \in chunk})
        /\ open' = [r \in Responses |->
                        IF r \in Closed(chunk) THEN 0
                        ELSE IF ids(r) = {} THEN open[r] ELSE Max(ids(r))]
        /\ got' = [r \in Responses |->
                        IF r \in Closed(chunk) THEN {} ELSE Captured(chunk, r)]
        /\ seen' = seen \cup {m.id : m \in {x \in chunk : x.kind = "input"}}

TurnsOf(chunk) == {[resp |-> r, got |-> Captured(chunk, r)] : r \in Closed(chunk)}

\* Emits the responses in R, complete or not, and forgets them.
Drain(R) ==
    /\ batch' = {[resp |-> r, got |-> got[r]] : r \in R}
    /\ open'  = [r \in Responses |-> IF r \in R THEN 0 ELSE open[r]]
    /\ got'   = [r \in Responses |-> IF r \in R THEN {} ELSE got[r]]
    /\ UNCHANGED <<watermark, seen>>

Open  == {r \in Responses : open[r] # 0}
Stale == {r \in Open : open[r] + EvictAfter < watermark}

-----------------------------------------------------------------------------
(* Delivery and the checkpoint.                                            *)

Contents(turns) == UNION {t.got : t \in turns}

\* emit returned nil: every sink holds the batch.
Accept ==
    /\ shipped' = shipped \cup Contents(batch)
    /\ reshipped' = reshipped \cup (Contents(batch) \cap shipped)
    /\ batch' = {}

\* emit returned an error.  Some sinks may hold the batch and others not, so
\* nothing is known to be delivered.
Refuse ==
    /\ "emit" \in Faults
    /\ batch' = {}
    /\ UNCHANGED sinkVars

\* Slip: a tombstone is pruned at the first save after the deletion.
PrunedAtOnce == [f \in Days |-> IF cp[f].deleted THEN NoState ELSE cp[f]]

\* PruneFileTombstones, which every save runs first.
Pruned == [f \in Days |->
              IF cp[f].deleted /\ f + TombstoneDays < today THEN NoState ELSE cp[f]]

Save == cp' = Pruned /\ disk' = Pruned /\ saved' = TRUE

\* The write failed: pruned in memory, the file on disk as it was.
SaveFails ==
    /\ "save" \in Faults
    /\ cp' = Pruned
    /\ UNCHANGED <<disk, saved>>

\* Poll returns; its locals and readFile's go.
LeavePoll ==
    /\ pc' = "idle"
    /\ files' = {} /\ todo' = {}
    /\ st' = NoState /\ statSize' = 0 /\ upto' = 0

-----------------------------------------------------------------------------
(* Poll.                                                                   *)

IsOldest(f, S) == f \in S /\ \A e \in S : f <= e
IsNewest(f, S) == f \in S /\ \A e \in S : e <= f

Scan ==
    /\ pc = "idle"
    /\ files' = {f \in Days : present[f]}
    /\ todo' = files'
    /\ pc' = "next"
    /\ UNCHANGED <<archiveVars, cancelled, readVars, batch, cp, saved, reducerVars,
                   disk, sinkVars, restarts>>

\* ctx.Err() is checked before every file and before every read.
Abandon ==
    /\ pc \in {"next", "chunk"} /\ cancelled
    /\ pc = "next" => todo # {}
    /\ LeavePoll
    /\ UNCHANGED <<archiveVars, cancelled, batch, cp, saved, reducerVars, disk,
                   sinkVars, restarts>>

\* Slip: the whole file is fingerprinted, not its head.
FingerprintOfAll(f) ==
    IF Size(f) = 0 THEN NoFingerprint ELSE [gen |-> gen[f], len |-> Size(f)]

\* fingerprint: the head of the file, the whole of a shorter one.
Fingerprint(f) ==
    IF Size(f) = 0 THEN NoFingerprint
    ELSE [gen |-> gen[f], len |-> IF Size(f) < HeadBytes THEN Size(f) ELSE HeadBytes]

Replaced(f) ==
    \/ /\ cp[f].fp # NoFingerprint
       /\ Fingerprint(f) # NoFingerprint
       /\ Fingerprint(f) # cp[f].fp
    \/ Size(f) < 2 * cp[f].offset

\* Slip: the old offset survives a replacement.
ResumeAtOldOffset(f) == [cp[f] EXCEPT !.fp = Fingerprint(f)]

\* The FileState readFile resumes from.
Resume(f) == [(IF Replaced(f) THEN NoState ELSE cp[f]) EXCEPT !.fp = Fingerprint(f)]

\* Tombstoned, or gone since the scan.
SkipFile(f) ==
    /\ pc = "next" /\ ~cancelled /\ IsOldest(f, todo)
    /\ cp[f].deleted \/ ~present[f]
    /\ todo' = todo \ {f}
    /\ UNCHANGED <<archiveVars, pc, cancelled, files, readVars, batch, cp, saved,
                   reducerVars, disk, sinkVars, restarts>>

NothingNew(f) ==
    /\ pc = "next" /\ ~cancelled /\ IsOldest(f, todo)
    /\ ~cp[f].deleted /\ present[f]
    /\ Size(f) = 2 * Resume(f).offset
    /\ cp' = [cp EXCEPT ![f] = Resume(f)]
    /\ todo' = todo \ {f}
    /\ UNCHANGED <<archiveVars, pc, cancelled, files, readVars, batch, saved,
                   reducerVars, disk, sinkVars, restarts>>

OpenFile(f) ==
    /\ pc = "next" /\ ~cancelled /\ IsOldest(f, todo)
    /\ ~cp[f].deleted /\ present[f]
    /\ Size(f) # 2 * Resume(f).offset
    /\ st' = Resume(f)
    /\ statSize' = Size(f)
    /\ pc' = "chunk"
    /\ UNCHANGED <<archiveVars, cancelled, files, todo, upto, batch, cp, saved,
                   reducerVars, disk, sinkVars, restarts>>

\* The handle keeps reading the generation it opened, moved away or not.
Handle(f) == body[f][st.fp.gen]

\* Slip: a corrupt member is decoded into whatever it yields.
CorruptIgnored(f, hi) == FALSE

CorruptAhead(f, hi) == \E i \in st.offset + 1..hi : Handle(f)[i].kind = "corrupt"

\* The offset moves past the members up to hi.
AdvanceTo(f, hi) ==
    /\ st' = [st EXCEPT !.offset = hi]
    /\ cp' = [cp EXCEPT ![f] = st']
    /\ skipped' = skipped \cup SkippedBy(f, st.fp.gen, st.offset, hi)
    /\ pc' = "chunk"

\* A read that completes the members up to hi, all of which decode.
ReadChunk(f, hi) ==
    /\ pc = "chunk" /\ ~cancelled /\ IsOldest(f, todo)
    /\ st.offset < hi /\ hi <= Len(Handle(f)) /\ ~CorruptAhead(f, hi)
    /\ LET chunk == ChunkOf(f, st.fp.gen, st.offset, hi)
       IN  /\ Reduce(chunk)
           /\ batch' = TurnsOf(chunk)
           /\ IF TurnsOf(chunk) = {}
              THEN AdvanceTo(f, hi) /\ UNCHANGED upto
              ELSE pc' = "emit" /\ upto' = hi /\ UNCHANGED <<st, cp, skipped>>
    /\ UNCHANGED <<archiveVars, cancelled, files, todo, statSize, saved, disk,
                   shipped, reshipped, restarts>>

EmitAccepted(f) ==
    /\ pc = "emit" /\ IsOldest(f, todo)
    /\ Accept
    /\ AdvanceTo(f, upto)
    /\ upto' = 0
    /\ UNCHANGED <<archiveVars, cancelled, files, todo, statSize, saved, reducerVars,
                   disk, restarts>>

\* Slip: the sinks' error is logged and the offset advances all the same.
EmitErrorIgnored ==
    /\ pc = "emit" /\ "emit" \in Faults
    /\ \E f \in Days : IsOldest(f, todo) /\ AdvanceTo(f, upto)
    /\ batch' = {} /\ upto' = 0
    /\ UNCHANGED <<archiveVars, cancelled, files, todo, statSize, saved, reducerVars,
                   disk, shipped, reshipped, restarts>>

EmitRefused ==
    /\ pc = "emit"
    /\ Refuse
    /\ LeavePoll
    /\ UNCHANGED <<archiveVars, cancelled, cp, saved, reducerVars, disk, restarts>>

\* Slip: the size is never recorded.
FinishWithoutSize(f) ==
    /\ pc = "chunk" /\ ~cancelled /\ IsOldest(f, todo)
    /\ st.offset = Len(Handle(f)) \/ CorruptAhead(f, Len(Handle(f)))
    /\ cp' = [cp EXCEPT ![f] = st]
    /\ todo' = todo \ {f}
    /\ st' = NoState /\ statSize' = 0 /\ upto' = 0
    /\ pc' = "next"
    /\ UNCHANGED <<archiveVars, cancelled, files, batch, saved, reducerVars, disk,
                   sinkVars, restarts>>

\* End of file, or a member that does not decode among those read: the offset
\* stays where it is, and what was decoded before the bad member in the same
\* buffer is dropped with it.
FinishFile(f) ==
    /\ pc = "chunk" /\ ~cancelled /\ IsOldest(f, todo)
    /\ \/ st.offset = Len(Handle(f))
       \/ CorruptAhead(f, Len(Handle(f)))
    /\ cp' = [cp EXCEPT ![f] = [st EXCEPT !.size = statSize]]
    /\ todo' = todo \ {f}
    /\ st' = NoState /\ statSize' = 0 /\ upto' = 0
    /\ pc' = "next"
    /\ UNCHANGED <<archiveVars, cancelled, files, batch, saved, reducerVars, disk,
                   sinkVars, restarts>>

\* Every file visited: Evict against the newest record seen.
EvictOpen ==
    /\ pc = "next" /\ todo = {}
    /\ IF watermark # 0 /\ Stale # {}
       THEN Drain(Stale) /\ pc' = "emitStale"
       ELSE pc' = "checkpoint" /\ UNCHANGED <<batch, reducerVars>>
    /\ UNCHANGED <<archiveVars, cancelled, files, todo, readVars, cp, saved, disk,
                   sinkVars, restarts>>

EmitStaleAccepted ==
    /\ pc = "emitStale"
    /\ Accept
    /\ pc' = "checkpoint"
    /\ UNCHANGED <<archiveVars, cancelled, files, todo, readVars, cp, saved,
                   reducerVars, disk, skipped, restarts>>

EmitStaleRefused ==
    /\ pc = "emitStale"
    /\ Refuse
    /\ LeavePoll
    /\ UNCHANGED <<archiveVars, cancelled, cp, saved, reducerVars, disk, restarts>>

\* Slip: reclaim may visit the newest file too.
CheckpointOfAll ==
    /\ pc = "checkpoint"
    /\ \/ Save
       \/ saved /\ UNCHANGED <<cp, disk, saved>>
    /\ pc' = "reclaim"
    /\ todo' = files
    /\ UNCHANGED <<archiveVars, cancelled, files, readVars, batch, reducerVars,
                   sinkVars, restarts>>

\* saveDue is a matter of wall-clock time once the first save is done; a
\* retired reducer baseline forces a save of its own.
Checkpoint ==
    /\ pc = "checkpoint"
    /\ \/ Save
       \/ saved /\ UNCHANGED <<cp, disk, saved>>
    /\ pc' = "reclaim"
    /\ todo' = {f \in files : ~IsNewest(f, files)}
    /\ UNCHANGED <<archiveVars, cancelled, files, readVars, batch, reducerVars,
                   sinkVars, restarts>>

CheckpointFails ==
    /\ pc = "checkpoint"
    /\ SaveFails
    /\ LeavePoll
    /\ UNCHANGED <<archiveVars, cancelled, batch, reducerVars, sinkVars, restarts>>

-----------------------------------------------------------------------------
(* reclaim.                                                                *)

ReclaimOff == (~DeleteAfter /\ RetainDays = 0) \/ \A f, e \in files : f = e

\* Slip: a file that has been read at all counts as fully read.
Opened(f) == ~cp[f].deleted /\ cp[f].size # 0

Ingested(f) == ~cp[f].deleted /\ cp[f].size # 0 /\ 2 * cp[f].offset >= cp[f].size

\* The file's day is before the retained window, or its mtime is past the margin.
Selected(f) == DeleteAfter \/ (RetainDays > 0 /\ f + RetainDays <= today)
Required(f) == RetainDays > 0 /\ f + RetainDays <= today

KeepFile(f) ==
    /\ pc = "reclaim" /\ ~ReclaimOff /\ IsOldest(f, todo)
    /\ ~Ingested(f) \/ ~Required(f) \/ ~present[f]
    /\ todo' = todo \ {f}
    /\ UNCHANGED <<archiveVars, pc, cancelled, files, readVars, batch, cp, saved,
                   reducerVars, disk, sinkVars, restarts>>

DeleteFile(f) ==
    /\ pc = "reclaim" /\ ~ReclaimOff /\ IsOldest(f, todo)
    /\ Ingested(f) /\ Selected(f) /\ present[f]
    /\ present' = [present EXCEPT ![f] = FALSE]
    /\ cp' = [cp EXCEPT ![f].deleted = TRUE]
    /\ todo' = todo \ {f}
    /\ UNCHANGED <<today, nextId, gen, body, tail, pc, cancelled, files, readVars,
                   batch, saved, reducerVars, disk, sinkVars, restarts>>

\* A save that fails here is only logged.
EndPoll ==
    /\ pc = "reclaim"
    /\ \/ ReclaimOff /\ UNCHANGED <<cp, disk, saved>>
       \/ ~ReclaimOff /\ todo = {} /\ (Save \/ SaveFails)
    /\ LeavePoll
    /\ UNCHANGED <<archiveVars, cancelled, batch, reducerVars, sinkVars, restarts>>

-----------------------------------------------------------------------------
(* The life of the process.                                                *)

Stop ==
    /\ "stop" \in Faults
    /\ pc # "down" /\ ~cancelled /\ restarts < MaxRestarts
    /\ cancelled' = TRUE
    /\ restarts' = restarts + 1
    /\ UNCHANGED <<archiveVars, pc, files, todo, readVars, batch, cp, saved,
                   reducerVars, disk, sinkVars>>

\* Slip: a clean stop saves without flushing the reducer.
ShutdownWithoutFlush ==
    /\ pc = "idle" /\ cancelled
    /\ pc' = "lastSave"
    /\ UNCHANGED <<archiveVars, cancelled, files, todo, readVars, batch, cp, saved,
                   reducerVars, disk, sinkVars, restarts>>

Shutdown ==
    /\ pc = "idle" /\ cancelled
    /\ Drain(Open)
    /\ pc' = IF Open = {} THEN "lastSave" ELSE "flush"
    /\ UNCHANGED <<archiveVars, cancelled, files, todo, readVars, cp, saved, disk,
                   sinkVars, restarts>>

FlushAccepted ==
    /\ pc = "flush"
    /\ Accept
    /\ pc' = "lastSave"
    /\ UNCHANGED <<archiveVars, cancelled, files, todo, readVars, cp, saved,
                   reducerVars, disk, skipped, restarts>>

\* The process is gone, and everything it only had in memory.
Die ==
    /\ pc' = "down" /\ cancelled' = FALSE
    /\ files' = {} /\ todo' = {} /\ batch' = {}
    /\ st' = NoState /\ statSize' = 0 /\ upto' = 0
    /\ cp' = [f \in Days |-> NoState] /\ saved' = FALSE
    /\ watermark' = 0 /\ seen' = {}
    /\ open' = [r \in Responses |-> 0]
    /\ got' = [r \in Responses |-> {}]
    /\ UNCHANGED archiveVars

FlushRefused ==
    /\ pc = "flush" /\ "emit" \in Faults
    /\ Die
    /\ UNCHANGED <<disk, sinkVars, restarts>>

\* shutdown's save, whatever the interval; the process exits either way.
LastSave ==
    /\ pc = "lastSave"
    /\ disk' = Pruned \/ ("save" \in Faults /\ UNCHANGED disk)
    /\ Die
    /\ UNCHANGED <<sinkVars, restarts>>

Crash ==
    /\ "crash" \in Faults
    /\ pc # "down" /\ restarts < MaxRestarts
    /\ restarts' = restarts + 1
    /\ Die
    /\ UNCHANGED <<disk, sinkVars>>

\* New: LoadCheckpoint, an empty reducer.
Start ==
    /\ pc = "down"
    /\ cp' = disk
    /\ pc' = "idle"
    /\ UNCHANGED <<archiveVars, cancelled, files, todo, readVars, batch, saved,
                   reducerVars, disk, sinkVars, restarts>>

-----------------------------------------------------------------------------
Init ==
    /\ today = 1 /\ nextId = 1
    /\ present = [f \in Days |-> FALSE]
    /\ gen = [f \in Days |-> 0]
    /\ body = [f \in Days |-> [g \in Gens |-> <<>>]]
    /\ tail = [f \in Days |-> [g \in Gens |-> "clean"]]
    /\ pc = "down" /\ cancelled = FALSE
    /\ files = {} /\ todo = {} /\ batch = {}
    /\ st = NoState /\ statSize = 0 /\ upto = 0
    /\ cp = [f \in Days |-> NoState] /\ disk = cp
    /\ saved = FALSE /\ watermark = 0 /\ seen = {}
    /\ open = [r \in Responses |-> 0]
    /\ got = [r \in Responses |-> {}]
    /\ shipped = {} /\ reshipped = {} /\ skipped = {}
    /\ restarts = 0

ReadFile(f) ==
    \/ SkipFile(f) \/ NothingNew(f) \/ OpenFile(f)
    \/ \E hi \in Positions : ReadChunk(f, hi)
    \/ FinishFile(f)

Reclaim(f) == KeepFile(f) \/ DeleteFile(f)

\* The steps of the poll goroutine that wait for nobody and do not fail.
Watch ==
    \/ Scan \/ Abandon \/ EvictOpen \/ Checkpoint \/ EndPoll
    \/ \E f \in Days : ReadFile(f) \/ Reclaim(f)
    \/ Shutdown \/ LastSave \/ Start

ShipChunk == \E f \in Days : EmitAccepted(f)
Deliver == ShipChunk \/ EmitStaleAccepted \/ FlushAccepted

Failure ==
    \/ EmitRefused \/ EmitStaleRefused \/ FlushRefused
    \/ CheckpointFails \/ Crash

Next ==
    \/ Writer \/ NextDay \/ \E f \in Days : MoveAway(f) \/ PutBack(f)
    \/ Watch \/ Deliver \/ Failure \/ Stop

Spec == Init /\ [][Next]_vars

\* The poll goroutine is always scheduled again and the ticker always ticks
\* (weak fairness of Watch).  Sinks and the checkpoint volume may fail any
\* number of times but not for ever: an emit or a save that is attempted again
\* and again succeeds in the end.  When both the ticker and ctx.Done() are
\* ready, Run's select picks either, so shutdown is only offered repeatedly.
FairSpec ==
    /\ Spec
    /\ WF_vars(Watch)
    /\ SF_vars(ShipChunk) /\ SF_vars(EmitStaleAccepted)
    /\ WF_vars(FlushAccepted \/ FlushRefused)
    /\ SF_vars(Checkpoint) /\ SF_vars(Shutdown)

-----------------------------------------------------------------------------
(* Properties.                                                             *)

\* Every variable keeps its shape: offsets and sizes are byte counts, a
\* fingerprint names a generation the writer created, a batch holds turns.
TypeOK ==
    /\ today \in Days /\ nextId \in 1..MaxFrames + 1
    /\ present \in [Days -> BOOLEAN] /\ gen \in [Days -> 0..MaxGen]
    /\ body \in [Days -> [Gens -> Seq(Member)]]
    /\ tail \in [Days -> [Gens -> {"clean", "partial", "abandoned"}]]
    /\ pc \in {"down", "idle", "next", "chunk", "emit", "emitStale",
               "checkpoint", "reclaim", "flush", "lastSave"}
    /\ cancelled \in BOOLEAN /\ saved \in BOOLEAN
    /\ files \in SUBSET Days /\ todo \in SUBSET Days
    /\ st \in FileState /\ statSize \in Nat /\ upto \in Nat
    /\ batch \in SUBSET Turn
    /\ cp \in [Days -> FileState] /\ disk \in [Days -> FileState]
    /\ watermark \in 0..MaxFrames /\ open \in [Responses -> 0..MaxFrames]
    /\ got \in [Responses -> SUBSET FrameIds] /\ seen \in SUBSET FrameIds
    /\ shipped \in SUBSET FrameIds /\ reshipped \in SUBSET FrameIds
    /\ skipped \in SUBSET (0..MaxFrames)
    /\ restarts \in 0..MaxRestarts

\* The records of the members a FileState has passed that are of kind k.
PassedBy(s, f, k) ==
    {body[f][s.fp.gen][i].id :
        i \in {n \in 1..s.offset : body[f][s.fp.gen][n].kind = k}}

\* A completed response behind an offset, the one in memory or the one on
\* disk, was accepted by the sinks, or dropped behind a record that is not
\* JSON.  It is what "only advance past bytes whose turns were accepted"
\* buys: whatever fails and whenever the process dies, a restart never
\* resumes past a completion nobody received.
CompletionsDelivered ==
    \A f \in Days : \A s \in {cp[f], disk[f]} :
        s.fp.gen # 0 => PassedBy(s, f, "done") \subseteq shipped \cup skipped

\* No record is lost on the way: one behind the offset in memory has been
\* accepted inside some turn, or the reducer still holds it, or it is in the
\* batch being emitted.  Holds as long as no emit fails and the process is
\* never killed, clean stops and restarts included.
Held == (UNION {got[r] : r \in Responses}) \cup Contents(batch)
NothingLost ==
    Faults \cap {"emit", "crash"} = {} =>
        \A f \in Days : \A k \in {"input", "done"} :
            cp[f].fp.gen # 0 =>
                PassedBy(cp[f], f, k) \subseteq shipped \cup skipped \cup Held

\* A record is accepted twice only after a fault: neither a clean restart,
\* nor a reclaimed file, nor a file recreated under its old name repeats one.
NoRepeat == Faults \cap {"emit", "crash", "save"} = {} => reshipped = {}

\* "A file that is merely appended to must NOT be treated as replaced"
\* (watcher_test.go).  It holds where a file first seen fills the hashed head.
AppendIsNotReplacement ==
    \A f \in Days :
        present[f] /\ cp[f].fp.gen = gen[f] /\ ~cp[f].deleted => ~Replaced(f)

\* While the process runs, a file is read again from an earlier offset only if
\* the head last hashed of it was short: what was read of one whose head was
\* full is not read again, however it grows, is moved away and put back, and
\* whatever reads and emits failed half-way ("or every poll would re-ship the
\* whole archive", watcher_test.go).
ShortHeadsAreReread ==
    [][\A f \in Days :
          /\ pc # "down" /\ pc' # "down"
          /\ cp'[f].fp.gen = cp[f].fp.gen /\ cp'[f].offset < cp[f].offset
          => cp[f].fp.len < HeadBytes]_vars

\* reclaim deletes a file only when the writer has left it for good, every
\* byte of the generation now under that name has been read, and every
\* completion in it was accepted (or dropped behind a bad record).
DeletesOnlyIngested ==
    [][\A f \in Days :
          pc = "reclaim" /\ cp'[f].deleted /\ ~cp[f].deleted =>
              /\ ~MayWrite(f)
              /\ cp[f].fp.gen = gen[f]
              /\ 2 * cp[f].offset = Size(f)
              /\ PassedBy(cp[f], f, "done") \subseteq shipped \cup skipped]_vars

\* Liveness.  A completed response is delivered in the end, through failing
\* sinks, failing saves, crashes and restarts.  It takes an archive without
\* torn or bad members and files nobody moves away.
Completed(n) ==
    \E f \in Days, g \in Gens : \E i \in 1..Len(body[f][g]) :
        body[f][g][i].id = n /\ body[f][g][i].kind = "done"
EveryCompletionShips == \A n \in FrameIds : Completed(n) ~> n \in shipped

\* A file that has left the retained window and is complete is deleted in the
\* end, so the archive directory stays bounded.
Expired(f) ==
    /\ present[f] /\ RetainDays > 0 /\ f + RetainDays <= today
    /\ body[f][gen[f]] # <<>> /\ tail[f][gen[f]] = "clean"
    /\ \E e \in Days : e > f /\ present[e]
ExpiredFilesGo == \A f \in Days : Expired(f) ~> ~present[f]

-----------------------------------------------------------------------------
(* The watcher implements ArchiveDelivery.                                 *)

Completions == {n \in FrameIds : Completed(n)}
Passed == UNION {PassedBy(cp[f], f, "done") : f \in {e \in Days : cp[e].fp.gen # 0}}
Readable == UNION {{body[f][gen[f]][i].id :
                        i \in {n \in 1..Len(body[f][gen[f]]) :
                                  body[f][gen[f]][n].kind = "done"}} :
                   f \in {e \in Days : present[e]}}

Delivery == INSTANCE ArchiveDelivery WITH
    Ids <- FrameIds,
    Moves <- Faults \cap {"move", "putback"} # {},
    written <- Completions,
    readable <- Readable,
    passed <- Passed,
    delivered <- shipped \cap Completions,
    dropped <- skipped \cap Completions

\* Every step of the watcher, the writer and the machine is a step of the
\* promise, or invisible to it: deletion, restarts and retries included.
ImplementsDelivery == Delivery!Spec
=============================================================================

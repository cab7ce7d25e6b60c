------------------------ MODULE ArchiveTail_proofs -------------------------
(***************************************************************************)
(* Proofs about ArchiveTail for every number of days, generations, records *)
(* and restarts, every set of responses and every admitted kind of fault.  *)
(***************************************************************************)
EXTENDS ArchiveTail, SequenceTheorems, MaximumLemmas, TLAPS

-----------------------------------------------------------------------------
(* The inductive invariant.  CompletionsDelivered says what holds between  *)
(* reads; it survives a read only because the read started from a sound    *)
(* offset (Reading) and because every completion between that offset and   *)
(* the end of the chunk is in the batch handed to emit (InBatch).          *)

\* A position in a generation that exists, every completion before it either
\* delivered or dropped; without a fingerprint, the beginning.
Sound(f, s) ==
    IF s.fp.gen = 0 THEN s.offset = 0
    ELSE /\ s.offset <= Len(body[f][s.fp.gen])
         /\ \A i \in 1..s.offset :
               body[f][s.fp.gen][i].kind = "done" =>
                   body[f][s.fp.gen][i].id \in shipped \cup skipped

Named == \A f \in Days : present[f] => gen[f] # 0

Offsets == \A f \in Days : Sound(f, cp[f]) /\ Sound(f, disk[f])

Reading ==
    pc \in {"chunk", "emit"} =>
        \A f \in Days : IsOldest(f, todo) => st.fp.gen # 0 /\ Sound(f, st)

InBatch ==
    pc = "emit" =>
        \A f \in Days : IsOldest(f, todo) =>
            /\ st.offset < upto /\ upto <= Len(Handle(f))
            /\ \A i \in Reached(f, st.fp.gen, st.offset, upto) :
                  Handle(f)[i].kind = "done" => Handle(f)[i].id \in Contents(batch)

IInv == TypeOK /\ Named /\ Offsets /\ Reading /\ InBatch

-----------------------------------------------------------------------------
(* Type correctness.                                                       *)

LEMMA NoStateType == NoState \in FileState
  BY ConstantsAssumption DEF NoState, FileState, NoFingerprint

LEMMA InitTypeOK == Init => TypeOK
<1> SUFFICES ASSUME Init PROVE TypeOK
  OBVIOUS
<1>1. body \in [Days -> [Gens -> Seq(Member)]]
  <2>1. <<>> \in Seq(Member)
    OBVIOUS
  <2> HIDE DEF Member
  <2> QED
    BY <2>1 DEF Init
<1>2. /\ today \in Days /\ nextId \in 1..MaxFrames + 1
      /\ present \in [Days -> BOOLEAN] /\ gen \in [Days -> 0..MaxGen]
      /\ tail \in [Days -> [Gens -> {"clean", "partial", "abandoned"}]]
      /\ files \in SUBSET Days /\ todo \in SUBSET Days
      /\ statSize \in Nat /\ upto \in Nat
  BY ConstantsAssumption DEF Init, Days
<1>3. st \in FileState /\ cp \in [Days -> FileState] /\ disk \in [Days -> FileState]
  BY NoStateType DEF Init
<1>4. /\ watermark \in 0..MaxFrames /\ open \in [Responses -> 0..MaxFrames]
      /\ got \in [Responses -> SUBSET FrameIds] /\ seen \in SUBSET FrameIds
      /\ batch \in SUBSET Turn
  BY ConstantsAssumption DEF Init
<1>5. pc = "down" /\ cancelled \in BOOLEAN /\ saved \in BOOLEAN
  BY DEF Init
<1>6. /\ shipped \in SUBSET FrameIds /\ reshipped \in SUBSET FrameIds
      /\ skipped \in SUBSET (0..MaxFrames)
      /\ restarts \in 0..MaxRestarts
  BY ConstantsAssumption DEF Init
<1> QED
  BY <1>1, <1>2, <1>3, <1>4, <1>5, <1>6 DEF TypeOK

\* What the reducer makes of members that all decode is well-typed.
LEMMA ReduceTypes ==
    ASSUME TypeOK, NEW chunk \in SUBSET Record, Reduce(chunk)
    PROVE  /\ watermark' \in 0..MaxFrames /\ open' \in [Responses -> 0..MaxFrames]
           /\ got' \in [Responses -> SUBSET FrameIds] /\ seen' \in SUBSET FrameIds
           /\ TurnsOf(chunk) \in SUBSET Turn
<1>0. MaxFrames \in Nat /\ FrameIds \subseteq 0..MaxFrames
  BY ConstantsAssumption DEF FrameIds
<1>1. \A m \in chunk : m.id \in FrameIds /\ m.resp \in Responses
  BY DEF Record
<1>2. \A r \in Responses : Captured(chunk, r) \in SUBSET FrameIds
  BY <1>1 DEF Captured, TypeOK
<1>3. watermark' \in 0..MaxFrames
  <2> DEFINE S == {watermark} \cup {m.id : m \in chunk}
  <2>1. S \in SUBSET (0..MaxFrames) /\ S # {}
    <3>1. watermark \in 0..MaxFrames
      BY DEF TypeOK
    <3>2. \A m \in chunk : m.id \in 0..MaxFrames
      BY <1>0, <1>1
    <3> QED
      BY <3>1, <3>2
  <2>2. watermark' = Max(S)
    BY DEF Reduce
  <2> HIDE DEF S
  <2> QED
    BY <2>1, <2>2, MaxIsMember, ConstantsAssumption
<1>4. open' \in [Responses -> 0..MaxFrames]
  <2> DEFINE ids(r) == {m.id : m \in {x \in chunk : x.resp = r}}
  <2>1. \A r \in Responses : ids(r) # {} => Max(ids(r)) \in 0..MaxFrames
    <3> SUFFICES ASSUME NEW r \in Responses, ids(r) # {}
                 PROVE  Max(ids(r)) \in 0..MaxFrames
      OBVIOUS
    <3>1. ids(r) \in SUBSET (0..MaxFrames)
      BY <1>0, <1>1
    <3> HIDE DEF ids
    <3> QED
      BY <3>1, MaxIsMember, ConstantsAssumption
  <2>2. open' = [r \in Responses |->
                    IF r \in Closed(chunk) THEN 0
                    ELSE IF ids(r) = {} THEN open[r] ELSE Max(ids(r))]
    BY DEF Reduce
  <2> HIDE DEF ids
  <2> QED
    BY <1>0, <2>1, <2>2 DEF TypeOK
<1>5. got' \in [Responses -> SUBSET FrameIds] /\ seen' \in SUBSET FrameIds
  BY <1>1, <1>2 DEF Reduce, TypeOK
<1>6. TurnsOf(chunk) \in SUBSET Turn
  BY <1>2 DEF TurnsOf, Turn, Closed
<1> QED
  BY <1>3, <1>4, <1>5, <1>6

\* Draining leaves the reducer and the batch well-typed.
LEMMA DrainTypes ==
    ASSUME TypeOK, NEW R \in SUBSET Responses, Drain(R)
    PROVE  /\ watermark' \in 0..MaxFrames /\ open' \in [Responses -> 0..MaxFrames]
           /\ got' \in [Responses -> SUBSET FrameIds] /\ seen' \in SUBSET FrameIds
           /\ batch' \in SUBSET Turn
  BY ConstantsAssumption DEF Drain, TypeOK, Turn

\* LeavePoll, Die, Pruned and the fingerprint keep their shapes.
LEMMA PrunedType == TypeOK => Pruned \in [Days -> FileState]
  BY NoStateType DEF TypeOK, Pruned

LEMMA HandleType ==
    ASSUME TypeOK, NEW f \in Days, st.fp.gen # 0
    PROVE  /\ Handle(f) \in Seq(Member) /\ Len(Handle(f)) \in Nat
           /\ \A i \in 1..Len(Handle(f)) : Handle(f)[i] \in Member
<1>1. st.fp.gen \in Gens
  <2>1. st.fp.gen \in 0..MaxGen
    BY DEF TypeOK, FileState
  <2> QED
    BY <2>1, ConstantsAssumption DEF Gens
<1>2. Handle(f) \in Seq(Member)
  BY <1>1 DEF TypeOK, Handle
<1> HIDE DEF Member
<1> QED
  BY <1>2, LenProperties

LEMMA ResumeType ==
    ASSUME TypeOK, Named, NEW f \in Days, present[f]
    PROVE  Size(f) \in Nat /\ Resume(f) \in FileState
<1>1. gen[f] \in Gens
  BY ConstantsAssumption DEF TypeOK, Named, Gens
<1>2. Len(body[f][gen[f]]) \in Nat
  <2> HIDE DEF Member
  <2>1. body[f][gen[f]] \in Seq(Member)
    BY <1>1 DEF TypeOK
  <2> QED
    BY <2>1, LenProperties
<1>3. Size(f) \in Nat
  <2>1. PICK n \in Nat : n = Len(body[f][gen[f]])
    BY <1>2
  <2>2. Size(f) = 2 * n + (IF tail[f][gen[f]] = "clean" THEN 0 ELSE 1)
    BY <2>1 DEF Size, Bytes
  <2> QED
    BY <2>2
<1>4. Fingerprint(f) \in [gen : 0..MaxGen, len : Nat]
  BY <1>1, <1>3, ConstantsAssumption DEF Fingerprint, NoFingerprint, Gens
<1> QED
  BY <1>3, <1>4, NoStateType DEF Resume, TypeOK, FileState

\* A process that ends leaves the directory, and variables as Init sets them.
LEMMA DieTypes ==
    ASSUME TypeOK, Die, disk' \in [Days -> FileState],
           UNCHANGED sinkVars, restarts' \in 0..MaxRestarts
    PROVE  TypeOK'
<1>1. /\ today' \in Days /\ nextId' \in 1..MaxFrames + 1
      /\ present' \in [Days -> BOOLEAN] /\ gen' \in [Days -> 0..MaxGen]
      /\ body' \in [Days -> [Gens -> Seq(Member)]]
      /\ tail' \in [Days -> [Gens -> {"clean", "partial", "abandoned"}]]
  BY DEF Die, TypeOK, archiveVars
<1>2. cancelled' \in BOOLEAN /\ saved' \in BOOLEAN /\ pc' = "down"
  BY DEF Die
<1>3. /\ files' \in SUBSET Days /\ todo' \in SUBSET Days /\ batch' \in SUBSET Turn
      /\ st' \in FileState /\ statSize' \in Nat /\ upto' \in Nat
      /\ cp' \in [Days -> FileState]
  BY NoStateType DEF Die
<1>4. /\ watermark' \in 0..MaxFrames /\ open' \in [Responses -> 0..MaxFrames]
      /\ got' \in [Responses -> SUBSET FrameIds] /\ seen' \in SUBSET FrameIds
  BY ConstantsAssumption DEF Die
<1>5. /\ shipped' \in SUBSET FrameIds /\ reshipped' \in SUBSET FrameIds
      /\ skipped' \in SUBSET (0..MaxFrames)
  BY DEF sinkVars, TypeOK
<1> QED
  BY <1>1, <1>2, <1>3, <1>4, <1>5 DEF TypeOK

\* The next position in a file, and what is dropped on the way to it.
LEMMA AdvanceTypes ==
    ASSUME TypeOK, NEW f \in Days, NEW hi \in Nat, st.fp.gen # 0,
           hi <= Len(Handle(f)), AdvanceTo(f, hi)
    PROVE  /\ st' \in FileState /\ cp' \in [Days -> FileState]
           /\ skipped' \in SUBSET (0..MaxFrames) /\ pc' = "chunk"
<1>1. st' \in FileState
  BY DEF AdvanceTo, TypeOK, FileState
<1>2. cp' \in [Days -> FileState] /\ pc' = "chunk"
  BY <1>1 DEF AdvanceTo, TypeOK
<1>3. \A i \in 1..hi : Handle(f)[i] \in Member
  BY HandleType
<1>4. \A i \in st.offset + 1..hi : Handle(f)[i].id \in 0..MaxFrames
  <2>1. st.offset \in Nat
    BY DEF TypeOK, FileState
  <2>2. \A m \in Member : m.id \in 0..MaxFrames
    BY ConstantsAssumption DEF Member, Record, Torn, FrameIds
  <2> HIDE DEF Member
  <2> QED
    BY <1>3, <2>1, <2>2
<1>5. SkippedBy(f, st.fp.gen, st.offset, hi) \subseteq 0..MaxFrames
  BY <1>4 DEF SkippedBy, Handle
<1> QED
  BY <1>1, <1>2, <1>5 DEF AdvanceTo, TypeOK

LEMMA TypeStep == IInv /\ [Next]_vars => TypeOK'
<1> SUFFICES ASSUME IInv, [Next]_vars
             PROVE  TypeOK'
  OBVIOUS
<1> USE ConstantsAssumption DEF IInv
<1>1. ASSUME NEW f \in Days, CreateFile(f)
      PROVE  TypeOK'
  BY <1>1 DEF CreateFile, TypeOK, readVars, reducerVars, sinkVars
<1>2. ASSUME NEW f \in Days, NEW r \in Responses, NEW k \in {"input", "done", "bad"},
             AppendMember(f, r, k)
      PROVE  TypeOK'
  <2> DEFINE g == gen[f]
             rec == [id |-> nextId, resp |-> r, kind |-> k]
             torn == [id |-> 0, resp |-> r, kind |-> "corrupt"]
             more == IF tail[f][g] = "abandoned" THEN <<torn, rec>> ELSE <<rec>>
  <2>1. rec \in Member /\ torn \in Member
    BY <1>2 DEF AppendMember, TypeOK, Member, Record, Torn, FrameIds
  <2>2. more \in Seq(Member)
    <3> HIDE DEF Member, rec, torn
    <3> QED
      BY <2>1
  <2>3. body[f][g] \in Seq(Member)
    BY <1>2 DEF AppendMember, Named, TypeOK, Gens
  <2>4. body[f][g] \o more \in Seq(Member)
    <3> HIDE DEF Member, more, g
    <3> QED
      BY <2>2, <2>3, ConcatProperties
  <2>5. body' \in [Days -> [Gens -> Seq(Member)]]
    <3>1. body' = [body EXCEPT ![f][g] = @ \o more]
      BY <1>2 DEF AppendMember
    <3> HIDE DEF Member, more, g
    <3> QED
      BY <2>4, <3>1 DEF TypeOK
  <2>6. nextId' \in 1..MaxFrames + 1
    BY <1>2 DEF AppendMember, TypeOK
  <2>7. tail' \in [Days -> [Gens -> {"clean", "partial", "abandoned"}]]
    BY <1>2 DEF AppendMember, TypeOK
  <2> QED
    BY <1>2, <2>5, <2>6, <2>7 DEF AppendMember, TypeOK, readVars, reducerVars, sinkVars
<1>3. ASSUME NEW f \in Days, BeginMember(f)
      PROVE  TypeOK'
  BY <1>3 DEF BeginMember, TypeOK, readVars, reducerVars, sinkVars
<1>4. ASSUME NEW f \in Days, WriterDies(f)
      PROVE  TypeOK'
  BY <1>4 DEF WriterDies, TypeOK, readVars, reducerVars, sinkVars
<1>5. CASE NextDay
  BY <1>5 DEF NextDay, TypeOK, readVars, reducerVars, sinkVars, Days
<1>6. ASSUME NEW f \in Days, MoveAway(f)
      PROVE  TypeOK'
  BY <1>6 DEF MoveAway, TypeOK, readVars, reducerVars, sinkVars
<1>7. ASSUME NEW f \in Days, PutBack(f)
      PROVE  TypeOK'
  BY <1>7 DEF PutBack, TypeOK, readVars, reducerVars, sinkVars
<1>8. CASE Scan
  BY <1>8 DEF Scan, TypeOK, archiveVars, readVars, reducerVars, sinkVars
<1>9. CASE Abandon
  BY <1>9, NoStateType DEF Abandon, LeavePoll, TypeOK, archiveVars, reducerVars, sinkVars
<1>10. CASE EvictOpen
  BY <1>10, DrainTypes DEF EvictOpen, TypeOK, Stale, Open, archiveVars, readVars,
     reducerVars, sinkVars
<1>11. CASE Checkpoint
  BY <1>11, PrunedType DEF Checkpoint, Save, TypeOK, archiveVars, readVars,
     reducerVars, sinkVars
<1>12. CASE EndPoll
  BY <1>12, PrunedType, NoStateType DEF EndPoll, Save, SaveFails, LeavePoll, TypeOK,
     archiveVars, reducerVars, sinkVars
<1>13. ASSUME NEW f \in Days, SkipFile(f)
       PROVE  TypeOK'
  BY <1>13 DEF SkipFile, TypeOK, archiveVars, readVars, reducerVars, sinkVars
<1>14. ASSUME NEW f \in Days, NothingNew(f)
       PROVE  TypeOK'
  BY <1>14, ResumeType DEF NothingNew, TypeOK, archiveVars, readVars, reducerVars, sinkVars
<1>15. ASSUME NEW f \in Days, OpenFile(f)
       PROVE  TypeOK'
  BY <1>15, ResumeType DEF OpenFile, TypeOK, archiveVars, reducerVars, sinkVars
<1>16. ASSUME NEW f \in Days, NEW hi \in Positions, ReadChunk(f, hi)
       PROVE  TypeOK'
  <2> DEFINE chunk == ChunkOf(f, st.fp.gen, st.offset, hi)
  <2>1. st.fp.gen # 0 /\ hi \in Nat /\ hi <= Len(Handle(f)) /\ ~CorruptAhead(f, hi)
    BY <1>16 DEF ReadChunk, Reading, Positions
  <2>2. chunk \in SUBSET Record
    <3>1. \A i \in st.offset + 1..hi : Handle(f)[i] \in Member /\ Handle(f)[i].kind # "corrupt"
      <4>1. st.offset \in Nat
        BY DEF TypeOK, FileState
      <4> QED
        BY <2>1, <4>1, HandleType DEF CorruptAhead
    <3>2. \A i \in st.offset + 1..hi : Handle(f)[i] \in Record
      BY <3>1 DEF Member, Torn
    <3> QED
      BY <3>2 DEF ChunkOf, Reached, Handle
  <2>3. Reduce(chunk) /\ batch' = TurnsOf(chunk)
    BY <1>16 DEF ReadChunk
  <2>4. /\ watermark' \in 0..MaxFrames /\ open' \in [Responses -> 0..MaxFrames]
        /\ got' \in [Responses -> SUBSET FrameIds] /\ seen' \in SUBSET FrameIds
        /\ batch' \in SUBSET Turn
    <3> HIDE DEF chunk
    <3> QED
      BY <2>2, <2>3, ReduceTypes
  <2>5. CASE TurnsOf(chunk) = {}
    <3>1. AdvanceTo(f, hi) /\ upto' = upto
      BY <1>16, <2>5 DEF ReadChunk
    <3> HIDE DEF chunk
    <3> QED
      BY <1>16, <2>1, <2>4, <3>1, AdvanceTypes DEF ReadChunk, TypeOK, archiveVars
  <2>6. CASE TurnsOf(chunk) # {}
    <3>1. pc' = "emit" /\ upto' = hi /\ UNCHANGED <<st, cp, skipped>>
      BY <1>16, <2>6 DEF ReadChunk
    <3> HIDE DEF chunk
    <3> QED
      BY <1>16, <2>1, <2>4, <3>1 DEF ReadChunk, TypeOK, archiveVars
  <2> QED
    BY <2>5, <2>6
<1>17. ASSUME NEW f \in Days, FinishFile(f)
       PROVE  TypeOK'
  BY <1>17, NoStateType DEF FinishFile, TypeOK, FileState, archiveVars, reducerVars, sinkVars
<1>18. ASSUME NEW f \in Days, KeepFile(f)
       PROVE  TypeOK'
  BY <1>18 DEF KeepFile, TypeOK, archiveVars, readVars, reducerVars, sinkVars
<1>19. ASSUME NEW f \in Days, DeleteFile(f)
       PROVE  TypeOK'
  BY <1>19 DEF DeleteFile, TypeOK, FileState, readVars, reducerVars, sinkVars
<1>20. CASE Shutdown
  BY <1>20, DrainTypes DEF Shutdown, Open, TypeOK, archiveVars, readVars, reducerVars, sinkVars
<1>21. CASE LastSave
  <2>1. Die /\ UNCHANGED <<sinkVars, restarts>> /\ (disk' = Pruned \/ disk' = disk)
    BY <1>21 DEF LastSave
  <2>2. disk' \in [Days -> FileState] /\ restarts' \in 0..MaxRestarts
    BY <2>1, PrunedType DEF TypeOK
  <2> QED
    BY <2>1, <2>2, DieTypes
<1>22. CASE Start
  BY <1>22 DEF Start, TypeOK, archiveVars, readVars, reducerVars, sinkVars
<1>23. ASSUME NEW f \in Days, EmitAccepted(f)
       PROVE  TypeOK'
  <2>1. st.fp.gen # 0 /\ upto \in Nat /\ upto <= Len(Handle(f)) /\ AdvanceTo(f, upto)
    BY <1>23 DEF EmitAccepted, Reading, InBatch, TypeOK
  <2>2. /\ st' \in FileState /\ cp' \in [Days -> FileState]
        /\ skipped' \in SUBSET (0..MaxFrames) /\ pc' = "chunk"
    BY <2>1, AdvanceTypes
  <2>3. /\ shipped' \in SUBSET FrameIds /\ reshipped' \in SUBSET FrameIds
        /\ batch' \in SUBSET Turn
    BY <1>23, SMTT(30) DEF EmitAccepted, Accept, Contents, Turn, TypeOK
  <2> QED
    BY <1>23, <2>2, <2>3 DEF EmitAccepted, TypeOK, archiveVars, reducerVars
<1>24. CASE EmitStaleAccepted
  BY <1>24, SMTT(30) DEF EmitStaleAccepted, Accept, Contents, Turn, TypeOK, archiveVars, readVars, reducerVars
<1>25. CASE FlushAccepted
  BY <1>25, SMTT(30) DEF FlushAccepted, Accept, Contents, Turn, TypeOK, archiveVars, readVars, reducerVars
<1>26. CASE EmitRefused
  BY <1>26, NoStateType DEF EmitRefused, Refuse, LeavePoll, TypeOK, archiveVars, reducerVars, sinkVars
<1>27. CASE EmitStaleRefused
  BY <1>27, NoStateType DEF EmitStaleRefused, Refuse, LeavePoll, TypeOK, archiveVars,
     reducerVars, sinkVars
<1>28. CASE FlushRefused
  <2>1. disk' \in [Days -> FileState] /\ restarts' \in 0..MaxRestarts
    BY <1>28 DEF FlushRefused, TypeOK
  <2> QED
    BY <1>28, <2>1, DieTypes DEF FlushRefused
<1>29. CASE CheckpointFails
  BY <1>29, PrunedType, NoStateType DEF CheckpointFails, SaveFails, LeavePoll, TypeOK,
     archiveVars, reducerVars, sinkVars
<1>30. CASE Crash
  <2>1. disk' \in [Days -> FileState] /\ restarts' \in 0..MaxRestarts
    BY <1>30 DEF Crash, TypeOK
  <2> QED
    BY <1>30, <2>1, DieTypes DEF Crash
<1>31. CASE Stop
  BY <1>31 DEF Stop, TypeOK, archiveVars, readVars, reducerVars, sinkVars
<1>32. CASE UNCHANGED vars
  BY <1>32 DEF vars, TypeOK, archiveVars, readVars, reducerVars, sinkVars
<1> QED
  BY <1>1, <1>2, <1>3, <1>4, <1>5, <1>6, <1>7, <1>8, <1>9, <1>10, <1>11, <1>12, <1>13,
     <1>14, <1>15, <1>16, <1>17, <1>18, <1>19, <1>20, <1>21, <1>22, <1>23, <1>24,
     <1>25, <1>26, <1>27, <1>28, <1>29, <1>30, <1>31, <1>32
  DEF Next, Writer, Watch, ReadFile, Reclaim, Deliver, ShipChunk, Failure

-----------------------------------------------------------------------------
(* What a step may do to what is written and delivered: only add to it.    *)

Extended ==
    \A f \in Days, g \in Gens :
        /\ Len(body[f][g]) <= Len(body'[f][g])
        /\ \A i \in 1..Len(body[f][g]) : body'[f][g][i] = body[f][g][i]

LEMMA BodyType ==
    ASSUME TypeOK, NEW f \in Days, NEW g \in Gens
    PROVE  body[f][g] \in Seq(Member) /\ Len(body[f][g]) \in Nat
<1>1. body[f][g] \in Seq(Member)
  BY DEF TypeOK
<1> HIDE DEF Member
<1> QED
  BY <1>1, LenProperties

LEMMA BodyTypeNext ==
    ASSUME TypeOK', NEW f \in Days, NEW g \in Gens
    PROVE  Len(body'[f][g]) \in Nat
<1>1. body'[f][g] \in Seq(Member)
  BY DEF TypeOK
<1> HIDE DEF Member
<1> QED
  BY <1>1, LenProperties

LEMMA AppendExtends ==
    ASSUME TypeOK, Named, NEW f \in Days, NEW r \in Responses,
           NEW k \in {"input", "done", "bad"}, AppendMember(f, r, k)
    PROVE  Extended
<1> DEFINE rec == [id |-> nextId, resp |-> r, kind |-> k]
           torn == [id |-> 0, resp |-> r, kind |-> "corrupt"]
           more == IF tail[f][gen[f]] = "abandoned" THEN <<torn, rec>> ELSE <<rec>>
           s == body[f][gen[f]]
<1>1. rec \in Member /\ torn \in Member
  BY ConstantsAssumption DEF AppendMember, TypeOK, Member, Record, Torn, FrameIds
<1>2. more \in Seq(Member) /\ Len(more) \in Nat
  <2> HIDE DEF Member, rec, torn
  <2>1. more \in Seq(Member)
    BY <1>1
  <2> QED
    BY <2>1, LenProperties
<1>3. gen[f] \in Gens
  BY ConstantsAssumption DEF AppendMember, Named, TypeOK, Gens
<1>4. s \in Seq(Member) /\ Len(s) \in Nat
  BY <1>3, BodyType
<1>5. body' = [body EXCEPT ![f][gen[f]] = @ \o more]
  BY DEF AppendMember
<1>6. Len(s \o more) = Len(s) + Len(more)
      /\ \A i \in 1..Len(s) : (s \o more)[i] = s[i]
  <2> HIDE DEF Member, more, s
  <2> QED
    BY <1>2, <1>4, ConcatProperties
<1>7. \A e \in Days, g \in Gens :
          body'[e][g] = IF e = f /\ g = gen[f] THEN s \o more ELSE body[e][g]
  <2> HIDE DEF more
  <2> QED
    BY <1>3, <1>5 DEF TypeOK
<1> SUFFICES ASSUME NEW e \in Days, NEW g \in Gens
             PROVE  /\ Len(body[e][g]) <= Len(body'[e][g])
                    /\ \A i \in 1..Len(body[e][g]) : body'[e][g][i] = body[e][g][i]
  BY DEF Extended
<1>8. Len(body[e][g]) \in Nat
  BY BodyType
<1> HIDE DEF more, s
<1>9. CASE e = f /\ g = gen[f]
  <2>1. body'[e][g] = s \o more /\ body[e][g] = s
    BY <1>7, <1>9 DEF s
  <2> QED
    BY <1>2, <1>4, <1>6, <2>1
<1>10. CASE ~(e = f /\ g = gen[f])
  BY <1>7, <1>8, <1>10
<1> QED
  BY <1>9, <1>10

LEMMA OnlyAdds ==
    IInv /\ [Next]_vars => Extended /\ shipped \subseteq shipped' /\ skipped \subseteq skipped'
<1> SUFFICES ASSUME IInv, [Next]_vars
             PROVE  Extended /\ shipped \subseteq shipped' /\ skipped \subseteq skipped'
  OBVIOUS
<1>1. ASSUME NEW f \in Days, NEW r \in Responses, NEW k \in {"input", "done", "bad"},
             AppendMember(f, r, k)
      PROVE  Extended /\ UNCHANGED sinkVars
  BY <1>1, AppendExtends DEF AppendMember, IInv
<1>2. \/ body' = body
      \/ \E f \in Days, r \in Responses, k \in {"input", "done", "bad"} :
             AppendMember(f, r, k)
  BY DEF Next, Writer, NextDay, Watch, ReadFile, Reclaim, Deliver, ShipChunk, Failure, vars,
     CreateFile, BeginMember, WriterDies, MoveAway, PutBack, Scan, Abandon,
     EvictOpen, Checkpoint, EndPoll, SkipFile, NothingNew, OpenFile, ReadChunk,
     FinishFile, KeepFile, DeleteFile, Shutdown, LastSave, Start, Die, Crash, Stop,
     EmitAccepted, EmitStaleAccepted, FlushAccepted, EmitRefused, EmitStaleRefused,
     FlushRefused, CheckpointFails, archiveVars
<1>3. body' = body => Extended
  BY BodyType DEF Extended, IInv
<1>4. \/ shipped' = shipped /\ skipped' = skipped
      \/ Accept /\ skipped' = skipped
      \/ \E f \in Days, hi \in Nat : AdvanceTo(f, hi) /\ (Accept \/ shipped' = shipped)
  <2>1. ASSUME NEW f \in Days, EmitAccepted(f)
        PROVE  AdvanceTo(f, upto) /\ Accept /\ upto \in Nat
    BY <2>1 DEF EmitAccepted, IInv, TypeOK
  <2>2. ASSUME NEW f \in Days, NEW hi \in Positions, ReadChunk(f, hi)
        PROVE  /\ AdvanceTo(f, hi) \/ skipped' = skipped
               /\ shipped' = shipped /\ hi \in Nat
    BY <2>2 DEF ReadChunk, Positions
  <2>3. EmitStaleAccepted \/ FlushAccepted => Accept /\ skipped' = skipped
    BY DEF EmitStaleAccepted, FlushAccepted
  <2>4. \/ shipped' = shipped /\ skipped' = skipped
        \/ EmitStaleAccepted \/ FlushAccepted
        \/ \E f \in Days : EmitAccepted(f) \/ \E hi \in Positions : ReadChunk(f, hi)
    BY DEF Next, Writer, NextDay, Watch, ReadFile, Reclaim, Deliver, ShipChunk, Failure,
       vars, CreateFile, AppendMember, BeginMember, WriterDies, MoveAway, PutBack, Scan,
       Abandon, EvictOpen, Checkpoint, EndPoll, SkipFile, NothingNew, OpenFile,
       FinishFile, KeepFile, DeleteFile, Shutdown, LastSave, Start, Crash, Stop,
       EmitRefused, EmitStaleRefused, Refuse, FlushRefused, CheckpointFails, sinkVars
  <2> QED
    BY <2>1, <2>2, <2>3, <2>4
<1>5. shipped \subseteq shipped' /\ skipped \subseteq skipped'
  BY <1>4 DEF Accept, AdvanceTo
<1> QED
  BY <1>1, <1>2, <1>3, <1>5

-----------------------------------------------------------------------------
(* Sound positions.                                                        *)

LEMMA NoStateSound == \A f \in Days : Sound(f, NoState)
  BY DEF Sound, NoState, NoFingerprint

\* Sound in the next state.
SoundNext(f, s) ==
    IF s.fp.gen = 0 THEN s.offset = 0
    ELSE /\ s.offset <= Len(body'[f][s.fp.gen])
         /\ \A i \in 1..s.offset :
               body'[f][s.fp.gen][i].kind = "done" =>
                   body'[f][s.fp.gen][i].id \in shipped' \cup skipped'

\* A sound position stays sound.
LEMMA SoundStays ==
    ASSUME TypeOK, TypeOK', Extended, shipped \subseteq shipped', skipped \subseteq skipped',
           NEW f \in Days, NEW s \in FileState, Sound(f, s)
    PROVE  SoundNext(f, s)
<1>1. CASE s.fp.gen = 0
  BY <1>1 DEF Sound, SoundNext
<1>2. CASE s.fp.gen # 0
  <2>1. s.fp.gen \in Gens /\ s.offset \in Nat
    BY <1>2, ConstantsAssumption DEF FileState, Gens
  <2>2. s.offset <= Len(body[f][s.fp.gen]) /\ Len(body[f][s.fp.gen]) \in Nat
    BY <1>2, <2>1, BodyType DEF Sound
  <2>3. \A i \in 1..s.offset : body'[f][s.fp.gen][i] = body[f][s.fp.gen][i]
    BY <2>1, <2>2 DEF Extended
  <2>4. Len(body[f][s.fp.gen]) <= Len(body'[f][s.fp.gen])
    BY <2>1 DEF Extended
  <2>5. s.offset <= Len(body'[f][s.fp.gen])
    <3>1. PICK m \in Nat : m = Len(body[f][s.fp.gen])
      BY <2>2
    <3>2. PICK n \in Nat : n = Len(body'[f][s.fp.gen])
      BY <2>1, BodyTypeNext
    <3> QED
      BY <2>1, <2>2, <2>4, <3>1, <3>2
  <2>6. \A i \in 1..s.offset :
            body[f][s.fp.gen][i].kind = "done" =>
                body[f][s.fp.gen][i].id \in shipped \cup skipped
    BY <1>2 DEF Sound
  <2> QED
    BY <1>2, <2>3, <2>5, <2>6 DEF SoundNext
<1> QED
  BY <1>1, <1>2

\* Resuming is sound, and a file with something to read has a fingerprint.
LEMMA ResumeSound ==
    ASSUME IInv, NEW f \in Days, present[f]
    PROVE  /\ Sound(f, Resume(f))
           /\ Size(f) # 2 * Resume(f).offset => Resume(f).fp.gen # 0
<1> DEFINE r == Resume(f)
<1>1. gen[f] # 0 /\ Size(f) \in Nat /\ Resume(f) \in FileState
  BY ResumeType DEF IInv, Named
<1>2. cp[f] \in FileState /\ Sound(f, cp[f])
  BY DEF IInv, TypeOK, Offsets
<1>3. /\ r.fp = Fingerprint(f)
      /\ r.offset = IF Replaced(f) THEN 0 ELSE cp[f].offset
  BY <1>2 DEF Resume, NoState, FileState
<1>4. CASE Size(f) = 0
  <2>1. r.fp.gen = 0
    BY <1>3, <1>4 DEF Fingerprint, NoFingerprint
  <2>2. r.offset = 0
    BY <1>2, <1>3, <1>4 DEF Replaced, FileState
  <2> QED
    BY <1>4, <2>1, <2>2 DEF Sound
<1>5. CASE Size(f) # 0
  <2>1. r.fp.gen = gen[f]
    BY <1>3, <1>5 DEF Fingerprint
  <2>2. CASE r.offset = 0
    <3>1. gen[f] \in Gens
      BY <1>1, ConstantsAssumption DEF IInv, TypeOK, Gens
    <3>2. Len(body[f][gen[f]]) \in Nat
      BY <3>1, BodyType DEF IInv
    <3> QED
      BY <1>1, <2>1, <2>2, <3>2 DEF Sound
  <2>3. CASE r.offset # 0
    <3>1. ~Replaced(f) /\ r.offset = cp[f].offset
      BY <1>3, <2>3
    <3>2. cp[f].fp.gen # 0
      BY <1>2, <2>3, <3>1 DEF Sound
    <3>3. cp[f].fp # NoFingerprint /\ Fingerprint(f) # NoFingerprint
      BY <1>1, <1>3, <2>1, <3>2 DEF NoFingerprint
    <3>4. r.fp = cp[f].fp
      BY <1>3, <3>1, <3>3 DEF Replaced
    <3> QED
      BY <1>1, <1>2, <2>1, <3>1, <3>4 DEF Sound
  <2> QED
    BY <2>2, <2>3
<1> QED
  BY <1>4, <1>5

\* A completion a chunk reaches is in a turn of that chunk.
LEMMA ChunkCompletions ==
    ASSUME TypeOK, NEW f \in Days, NEW hi \in Nat, st.fp.gen # 0, hi <= Len(Handle(f)),
           NEW i \in Reached(f, st.fp.gen, st.offset, hi), Handle(f)[i].kind = "done"
    PROVE  Handle(f)[i].id \in Contents(TurnsOf(ChunkOf(f, st.fp.gen, st.offset, hi)))
<1> DEFINE chunk == ChunkOf(f, st.fp.gen, st.offset, hi)
           m == Handle(f)[i]
<1>1. st.offset \in Nat /\ i \in st.offset + 1..hi
  BY DEF TypeOK, FileState, Reached
<1>2. m \in Member
  BY <1>1, HandleType
<1>3. m \in chunk /\ m.kind = "done" /\ m.resp \in Responses
  BY <1>2 DEF ChunkOf, Handle, Member, Record, Torn
<1> HIDE DEF chunk, m
<1>4. m.resp \in Closed(chunk) /\ m.id \in Captured(chunk, m.resp)
  BY <1>3 DEF Closed, Captured
<1>5. [resp |-> m.resp, got |-> Captured(chunk, m.resp)] \in TurnsOf(chunk)
  BY <1>4 DEF TurnsOf
<1>6. m.id \in Contents(TurnsOf(chunk))
  BY <1>4, <1>5 DEF Contents
<1> QED
  BY <1>6 DEF m, chunk

\* Advancing over members whose completions are all accounted for.
LEMMA AdvanceSound ==
    ASSUME IInv, TypeOK', NEW f \in Days, NEW hi \in Nat, st.fp.gen # 0, Sound(f, st),
           hi <= Len(Handle(f)), AdvanceTo(f, hi), body' = body, shipped \subseteq shipped',
           \A i \in Reached(f, st.fp.gen, st.offset, hi) :
               Handle(f)[i].kind = "done" => Handle(f)[i].id \in shipped'
    PROVE  SoundNext(f, st') /\ st'.fp.gen # 0
<1>1. st.offset \in Nat /\ st \in FileState
  BY DEF IInv, TypeOK, FileState
<1>2. st'.fp = st.fp /\ st'.offset = hi
  BY <1>1 DEF AdvanceTo, FileState
<1>3. skipped' = skipped \cup SkippedBy(f, st.fp.gen, st.offset, hi)
  BY DEF AdvanceTo
<1>4. ASSUME NEW i \in 1..hi, Handle(f)[i].kind = "done"
      PROVE  Handle(f)[i].id \in shipped' \cup skipped'
  <2>1. CASE i \in 1..st.offset
    <3>1. Handle(f)[i].id \in shipped \cup skipped
      BY <1>4, <2>1 DEF Sound, Handle
    <3> QED
      BY <1>3, <3>1
  <2>2. CASE i \in st.offset + 1..hi
    BY <1>3, <1>4, <2>2 DEF SkippedBy, Handle
  <2> QED
    BY <1>1, <2>1, <2>2
<1> QED
  BY <1>2, <1>4 DEF SoundNext, Handle

-----------------------------------------------------------------------------
(* The steps.                                                              *)

\* What ReadChunk and EmitAccepted make of the position they read from.
LEMMA ReadFacts ==
    ASSUME IInv, NEW f \in Days, IsOldest(f, todo), pc \in {"chunk", "emit"}
    PROVE  st.fp.gen # 0 /\ Sound(f, st) /\ st \in FileState
  BY DEF IInv, Reading, TypeOK

LEMMA ReadChunkSound ==
    ASSUME IInv, TypeOK', NEW f \in Days, NEW hi \in Positions, ReadChunk(f, hi),
           pc' = "chunk"
    PROVE  /\ SoundNext(f, st') /\ st'.fp.gen # 0
           /\ cp' = [cp EXCEPT ![f] = st']
<1> DEFINE chunk == ChunkOf(f, st.fp.gen, st.offset, hi)
<1>1. st.fp.gen # 0 /\ Sound(f, st)
  BY ReadFacts DEF ReadChunk
<1>2. /\ hi \in Nat /\ hi <= Len(Handle(f)) /\ ~CorruptAhead(f, hi)
      /\ body' = body /\ shipped' = shipped
  BY DEF ReadChunk, Positions, archiveVars
<1>3. TurnsOf(chunk) = {} /\ AdvanceTo(f, hi)
  BY DEF ReadChunk
<1>4. \A i \in Reached(f, st.fp.gen, st.offset, hi) : Handle(f)[i].kind # "done"
  <2>1. Contents(TurnsOf(chunk)) = {}
    BY <1>3 DEF Contents
  <2> QED
    BY <1>1, <1>2, <2>1, ChunkCompletions DEF IInv
<1> QED
  BY <1>1, <1>2, <1>3, <1>4, AdvanceSound DEF AdvanceTo

LEMMA EmitAcceptedSound ==
    ASSUME IInv, TypeOK', NEW f \in Days, EmitAccepted(f)
    PROVE  /\ SoundNext(f, st') /\ st'.fp.gen # 0
           /\ cp' = [cp EXCEPT ![f] = st']
<1>1. st.fp.gen # 0 /\ Sound(f, st)
  BY ReadFacts DEF EmitAccepted
<1>2. /\ upto \in Nat /\ upto <= Len(Handle(f)) /\ AdvanceTo(f, upto)
      /\ body' = body /\ shipped' = shipped \cup Contents(batch)
  BY DEF EmitAccepted, Accept, IInv, InBatch, TypeOK, archiveVars
<1>3. \A i \in Reached(f, st.fp.gen, st.offset, upto) :
          Handle(f)[i].kind = "done" => Handle(f)[i].id \in shipped'
  BY <1>2 DEF EmitAccepted, IInv, InBatch
<1> QED
  BY <1>1, <1>2, <1>3, AdvanceSound DEF AdvanceTo

LEMMA NamedStep == IInv /\ [Next]_vars => Named'
<1> SUFFICES ASSUME IInv, [Next]_vars
             PROVE  Named'
  OBVIOUS
<1>1. ASSUME NEW f \in Days, CreateFile(f)
      PROVE  Named'
  BY <1>1, ConstantsAssumption DEF CreateFile, IInv, Named, TypeOK
<1>2. ASSUME NEW f \in Days, PutBack(f)
      PROVE  Named'
  BY <1>2 DEF PutBack, IInv, Named, TypeOK
<1>3. ASSUME NEW f \in Days, MoveAway(f) \/ DeleteFile(f)
      PROVE  Named'
  BY <1>3 DEF MoveAway, DeleteFile, IInv, Named, TypeOK
<1>4. \/ UNCHANGED <<present, gen>>
      \/ \E f \in Days : CreateFile(f) \/ PutBack(f) \/ MoveAway(f) \/ DeleteFile(f)
  BY ZenonT(40) DEF Next, Writer, NextDay, Watch, ReadFile, Reclaim, Deliver, ShipChunk, Failure, vars,
     AppendMember, BeginMember, WriterDies, Scan, Abandon, EvictOpen, Checkpoint, EndPoll,
     SkipFile, NothingNew, OpenFile, ReadChunk, FinishFile, KeepFile, Shutdown, LastSave,
     Start, Die, Crash, Stop, EmitAccepted, EmitStaleAccepted, FlushAccepted, EmitRefused,
     EmitStaleRefused, FlushRefused, CheckpointFails, archiveVars
<1>5. UNCHANGED <<present, gen>> => Named'
  BY DEF IInv, Named
<1> QED
  BY <1>1, <1>2, <1>3, <1>4, <1>5

\* The positions in memory and on disk that a step leaves where they were, or
\* copies, prunes or forgets.
Copied(f) ==
    /\ cp'[f] \in {cp[f], disk[f], NoState}
    /\ disk'[f] \in {cp[f], disk[f], NoState}

\* Those it sets: by reading a chunk, finishing or skipping a file, deleting it.
Moved(f) ==
    \/ \E hi \in Positions : ReadChunk(f, hi) /\ pc' = "chunk"
    \/ EmitAccepted(f) \/ FinishFile(f) \/ NothingNew(f) \/ DeleteFile(f)

LEMMA MovedOrCopied ==
    ASSUME IInv, [Next]_vars
    PROVE  \/ \E f \in Days : Moved(f)
           \/ \A f \in Days : Copied(f)
<1>1. cp \in [Days -> FileState] /\ disk \in [Days -> FileState]
  BY DEF IInv, TypeOK
<1>2. ASSUME NEW f \in Days, NEW hi \in Positions, ReadChunk(f, hi)
      PROVE  Moved(f) \/ UNCHANGED <<cp, disk>>
  BY <1>2 DEF ReadChunk, Moved, AdvanceTo
<1>3. \A f \in Days : Pruned[f] \in {cp[f], NoState}
  BY DEF Pruned
<1>4. Checkpoint \/ EndPoll \/ CheckpointFails =>
          cp' \in {cp, Pruned} /\ disk' \in {disk, Pruned}
  BY DEF Checkpoint, EndPoll, CheckpointFails, Save, SaveFails
<1>5. FlushRefused \/ Crash \/ LastSave =>
          cp' = [f \in Days |-> NoState] /\ disk' \in {disk, Pruned}
  BY DEF FlushRefused, Crash, LastSave, Die
<1>6. Start => cp' = disk /\ disk' = disk
  BY DEF Start
<1>7. \/ \E f \in Days : Moved(f)
      \/ \E f \in Days, hi \in Positions : ReadChunk(f, hi)
      \/ Checkpoint \/ EndPoll \/ CheckpointFails
      \/ FlushRefused \/ Crash \/ LastSave \/ Start
      \/ UNCHANGED <<cp, disk>>
  BY DEF Next, Writer, NextDay, Watch, ReadFile, Reclaim, Deliver, ShipChunk, Failure, vars,
     CreateFile, AppendMember, BeginMember, WriterDies, MoveAway, PutBack, Scan, Abandon,
     EvictOpen, SkipFile, OpenFile, KeepFile, Shutdown, Stop, EmitStaleAccepted,
     FlushAccepted, EmitRefused, EmitStaleRefused, Moved
<1> QED
  BY <1>1, <1>2, <1>3, <1>4, <1>5, <1>6, <1>7 DEF Copied

\* A position with the fingerprint and offset of a sound one is sound.
LEMMA SoundLike ==
    ASSUME NEW f \in Days, NEW s, NEW t, t.fp = s.fp, t.offset = s.offset, Sound(f, s)
    PROVE  Sound(f, t)
  BY DEF Sound

LEMMA OffsetsStep == IInv /\ [Next]_vars /\ TypeOK' => Offsets'
<1> SUFFICES ASSUME IInv, [Next]_vars, TypeOK'
             PROVE  Offsets'
  OBVIOUS
<1>1. /\ cp \in [Days -> FileState] /\ disk \in [Days -> FileState]
      /\ \A f \in Days : Sound(f, cp[f]) /\ Sound(f, disk[f])
  BY DEF IInv, TypeOK, Offsets
<1>2. \A f \in Days, s \in FileState : Sound(f, s) => SoundNext(f, s)
  BY OnlyAdds, SoundStays DEF IInv
<1>3. \A f \in Days : SoundNext(f, cp[f]) /\ SoundNext(f, disk[f]) /\ SoundNext(f, NoState)
  BY <1>1, <1>2, NoStateSound, NoStateType
<1>4. CASE \A f \in Days : Copied(f)
  <2>1. \A f \in Days : SoundNext(f, cp'[f]) /\ SoundNext(f, disk'[f])
    BY <1>3, <1>4 DEF Copied
  <2> QED
    BY <2>1 DEF Offsets, Sound, SoundNext
<1>5. ASSUME NEW f \in Days, Moved(f)
      PROVE  Offsets'
  <2>1. SoundNext(f, cp'[f]) /\ cp' = [cp EXCEPT ![f] = cp'[f]]
    <3>1. ASSUME NEW hi \in Positions, ReadChunk(f, hi), pc' = "chunk"
          PROVE  SoundNext(f, cp'[f]) /\ cp' = [cp EXCEPT ![f] = cp'[f]]
      BY <1>1, <3>1, ReadChunkSound
    <3>2. CASE EmitAccepted(f)
      BY <1>1, <3>2, EmitAcceptedSound
    <3>3. CASE FinishFile(f)
      <4>1. st \in FileState /\ SoundNext(f, st)
        BY <1>2, <3>3, ReadFacts DEF FinishFile
      <4>2. cp' = [cp EXCEPT ![f] = [st EXCEPT !.size = statSize]]
        BY <3>3 DEF FinishFile
      <4>3. cp'[f].fp = st.fp /\ cp'[f].offset = st.offset
        BY <1>1, <4>1, <4>2 DEF FileState
      <4> QED
        BY <1>1, <4>1, <4>2, <4>3 DEF SoundNext
    <3>4. CASE NothingNew(f)
      <4>1. cp' = [cp EXCEPT ![f] = Resume(f)] /\ Sound(f, Resume(f))
        BY <3>4, ResumeSound DEF NothingNew
      <4>2. Resume(f) \in FileState
        BY <3>4, ResumeType DEF NothingNew, IInv
      <4> QED
        BY <1>1, <1>2, <4>1, <4>2
    <3>5. CASE DeleteFile(f)
      <4>1. cp' = [cp EXCEPT ![f].deleted = TRUE]
        BY <3>5 DEF DeleteFile
      <4>2. cp'[f].fp = cp[f].fp /\ cp'[f].offset = cp[f].offset
        BY <1>1, <4>1 DEF FileState
      <4> QED
        BY <1>1, <1>3, <4>1, <4>2, ZenonT(40) DEF SoundNext
    <3> QED
      BY <1>5, <3>1, <3>2, <3>3, <3>4, <3>5 DEF Moved
  <2>2. disk' = disk
    BY <1>5 DEF Moved, ReadChunk, EmitAccepted, FinishFile, NothingNew, DeleteFile
  <2>3. \A e \in Days : SoundNext(e, cp'[e]) /\ SoundNext(e, disk'[e])
    BY <1>1, <1>3, <2>1, <2>2
  <2> QED
    BY <2>3 DEF Offsets, Sound, SoundNext
<1> QED
  BY <1>4, <1>5, MovedOrCopied

\* A step that leaves a file open mid-read.
LEMMA StillReading ==
    ASSUME IInv, [Next]_vars, pc' \in {"chunk", "emit"}
    PROVE  \/ \E f \in Days : OpenFile(f)
           \/ \E f \in Days, hi \in Positions : ReadChunk(f, hi)
           \/ \E f \in Days : EmitAccepted(f)
           \/ UNCHANGED <<pc, todo, st, upto, batch>>
  BY ZenonT(40) DEF Next, Writer, NextDay, Watch, ReadFile, Reclaim, Deliver, ShipChunk, Failure, vars,
     CreateFile, AppendMember, BeginMember, WriterDies, MoveAway, PutBack, Scan, Abandon,
     LeavePoll, EvictOpen, Checkpoint, EndPoll, SkipFile, NothingNew, FinishFile, KeepFile,
     DeleteFile, Shutdown, LastSave, Start, Die, Crash, Stop, EmitStaleAccepted,
     FlushAccepted, EmitRefused, EmitStaleRefused, FlushRefused, CheckpointFails, readVars

\* Only one file is the oldest.
LEMMA OldestIsUnique ==
    ASSUME NEW S \in SUBSET Days, NEW f \in Days, NEW e \in Days,
           IsOldest(f, S), IsOldest(e, S)
    PROVE  e = f
  BY ConstantsAssumption DEF IsOldest, Days

LEMMA ReadingStep == IInv /\ [Next]_vars /\ TypeOK' => Reading'
<1> SUFFICES ASSUME IInv, [Next]_vars, TypeOK', pc' \in {"chunk", "emit"},
                    NEW e \in Days, IsOldest(e, todo')
             PROVE  st'.fp.gen # 0 /\ SoundNext(e, st')
  BY DEF Reading, IsOldest, Sound, SoundNext
<1>1. \A f \in Days, s \in FileState : Sound(f, s) => SoundNext(f, s)
  BY OnlyAdds, SoundStays DEF IInv
<1>2. todo \in SUBSET Days
  BY DEF IInv, TypeOK
<1>3. ASSUME NEW f \in Days, OpenFile(f)
      PROVE  st'.fp.gen # 0 /\ SoundNext(e, st')
  <2>1. e = f
    BY <1>2, <1>3, OldestIsUnique DEF OpenFile
  <2>2. st' = Resume(f) /\ Sound(f, Resume(f)) /\ Resume(f).fp.gen # 0
    BY <1>3, ResumeSound DEF OpenFile
  <2>3. Resume(f) \in FileState
    BY <1>3, ResumeType DEF OpenFile, IInv
  <2> QED
    BY <1>1, <2>1, <2>2, <2>3
<1>4. ASSUME NEW f \in Days, NEW hi \in Positions, ReadChunk(f, hi)
      PROVE  st'.fp.gen # 0 /\ SoundNext(e, st')
  <2>1. e = f
    BY <1>2, <1>4, OldestIsUnique DEF ReadChunk
  <2>2. CASE pc' = "chunk"
    BY <1>4, <2>1, <2>2, ReadChunkSound
  <2>3. CASE pc' # "chunk"
    <3>1. st' = st
      BY <1>4, <2>3 DEF ReadChunk, AdvanceTo
    <3>2. st.fp.gen # 0 /\ Sound(f, st) /\ st \in FileState
      BY <1>4, ReadFacts DEF ReadChunk
    <3> QED
      BY <1>1, <2>1, <3>1, <3>2
  <2> QED
    BY <2>2, <2>3
<1>5. ASSUME NEW f \in Days, EmitAccepted(f)
      PROVE  st'.fp.gen # 0 /\ SoundNext(e, st')
  <2>1. e = f
    BY <1>2, <1>5, OldestIsUnique DEF EmitAccepted
  <2> QED
    BY <1>5, <2>1, EmitAcceptedSound
<1>6. CASE UNCHANGED <<pc, todo, st, upto, batch>>
  <2>1. st.fp.gen # 0 /\ Sound(e, st) /\ st \in FileState /\ st' = st
    BY <1>6, ReadFacts
  <2> QED
    BY <1>1, <2>1
<1> QED
  BY <1>3, <1>4, <1>5, <1>6, StillReading


\* A chunk that completes turns puts them in the batch; until emit returns,
\* the file it came from only grows.
LEMMA InBatchStep == IInv /\ [Next]_vars /\ TypeOK' => InBatch'
<1> DEFINE Good(b, f, g, lo, hi, turns) ==
               /\ lo < hi /\ hi <= Len(b[f][g])
               /\ \A i \in {n \in lo + 1..hi :
                               \A j \in lo + 1..n : b[f][g][j].kind # "bad"} :
                     b[f][g][i].kind = "done" => b[f][g][i].id \in Contents(turns)
<1> SUFFICES ASSUME IInv, [Next]_vars, TypeOK', pc' = "emit",
                    NEW f \in Days, IsOldest(f, todo')
             PROVE  Good(body', f, st'.fp.gen, st'.offset, upto', batch')
  BY DEF InBatch, IsOldest, Handle, Contents, Reached
<1>1. todo \in SUBSET Days
  BY DEF IInv, TypeOK
<1>2. ASSUME NEW e \in Days, NEW hi \in Positions, ReadChunk(e, hi)
      PROVE  Good(body', f, st'.fp.gen, st'.offset, upto', batch')
  <2>1. /\ todo' = todo /\ st' = st /\ upto' = hi /\ body' = body
        /\ batch' = TurnsOf(ChunkOf(e, st.fp.gen, st.offset, hi))
    BY <1>2 DEF ReadChunk, AdvanceTo, archiveVars
  <2>2. /\ pc = "chunk" /\ IsOldest(e, todo)
        /\ hi \in Nat /\ st.offset < hi /\ hi <= Len(Handle(e))
    BY <1>2 DEF ReadChunk, Positions
  <2>3. e = f
    BY <1>1, <2>1, <2>2, OldestIsUnique
  <2>4. st.fp.gen # 0
    BY <2>2, ReadFacts
  <2>5. \A i \in Reached(f, st.fp.gen, st.offset, hi) :
            Handle(f)[i].kind = "done" => Handle(f)[i].id \in Contents(batch')
    BY <2>1, <2>2, <2>3, <2>4, ChunkCompletions DEF IInv
  <2> QED
    BY <2>1, <2>2, <2>3, <2>5 DEF Handle, Reached
<1>3. CASE UNCHANGED <<pc, todo, st, upto, batch>>
  <2>1. Good(body, f, st.fp.gen, st.offset, upto, batch)
    BY <1>3 DEF IInv, InBatch, Handle, Reached
  <2>2. st.fp.gen \in Gens /\ st.offset \in Nat /\ upto \in Nat
    <3>1. st.fp.gen # 0
      BY <1>3, ReadFacts
    <3>2. st.fp.gen \in 0..MaxGen /\ st.offset \in Nat /\ upto \in Nat
      BY DEF IInv, TypeOK, FileState
    <3> QED
      BY <3>1, <3>2, ConstantsAssumption DEF Gens
  <2>3. /\ Len(body[f][st.fp.gen]) \in Nat /\ Len(body'[f][st.fp.gen]) \in Nat
        /\ Len(body[f][st.fp.gen]) <= Len(body'[f][st.fp.gen])
        /\ \A i \in 1..Len(body[f][st.fp.gen]) :
              body'[f][st.fp.gen][i] = body[f][st.fp.gen][i]
    BY <2>2, OnlyAdds, BodyType, BodyTypeNext DEF Extended, IInv
  <2>4. \A i \in st.offset + 1..upto : body'[f][st.fp.gen][i] = body[f][st.fp.gen][i]
    BY <2>1, <2>2, <2>3
  <2>5. Good(body', f, st.fp.gen, st.offset, upto, batch)
    <3> DEFINE b == body[f][st.fp.gen]
               c == body'[f][st.fp.gen]
    <3>1. st.offset < upto /\ upto <= Len(c)
      <4> HIDE DEF b, c
      <4>1. Len(b) \in Nat /\ Len(c) \in Nat /\ Len(b) <= Len(c)
        BY <2>3 DEF b, c
      <4>2. st.offset < upto /\ upto <= Len(b)
        BY <2>1 DEF b
      <4> QED
        BY <2>2, <4>1, <4>2
    <3>2. ASSUME NEW i \in st.offset + 1..upto,
                 \A j \in st.offset + 1..i : c[j].kind # "bad",
                 c[i].kind = "done"
          PROVE  c[i].id \in Contents(batch)
      <4>1. \A j \in st.offset + 1..i : b[j] = c[j]
        BY <2>2, <2>4
      <4>2. b[i] = c[i]
        BY <2>4
      <4> QED
        BY <2>1, <3>2, <4>1, <4>2
    <3> QED
      BY <3>1, <3>2
  <2> QED
    BY <1>3, <2>5
<1>4. ASSUME NEW e \in Days, OpenFile(e) \/ EmitAccepted(e)
      PROVE  FALSE
  BY <1>4 DEF OpenFile, EmitAccepted, AdvanceTo
<1> QED
  BY <1>2, <1>3, <1>4, StillReading

LEMMA InitIInv == Init => IInv
<1> SUFFICES ASSUME Init
             PROVE  IInv
  OBVIOUS
<1>1. TypeOK
  BY InitTypeOK
<1>2. Named
  BY DEF Init, Named
<1>3. Offsets
  BY NoStateSound DEF Init, Offsets
<1>4. Reading /\ InBatch
  BY DEF Init, Reading, InBatch
<1> QED
  BY <1>1, <1>2, <1>3, <1>4 DEF IInv

LEMMA IInvStep == IInv /\ [Next]_vars => IInv'
  BY TypeStep, NamedStep, OffsetsStep, ReadingStep, InBatchStep DEF IInv

-----------------------------------------------------------------------------
(* What reclaim relies on.  A file that is not the newest of the scan will *)
(* never be written again, so what readFile knew of it when it let go of   *)
(* it is still true when reclaim comes to it, however long the pass takes  *)
(* and whatever the writer and the operator do meanwhile.                  *)

\* The writer has left the file: a newer one was there at the scan.
Left(f) == f \in files /\ ~IsNewest(f, files)

FilesNamed == \A f \in files : gen[f] # 0

\* reclaim visits files the writer has left, after every file has been read.
ToVisit ==
    /\ todo \subseteq files
    /\ pc \in {"down", "idle", "flush", "lastSave"} => files = {}
    /\ pc \in {"emitStale", "checkpoint"} => todo = {}
    /\ pc = "reclaim" => \A f \in todo : Left(f)

\* readFile's fi.Size() is the size of the generation its handle reads.
ReadsWhole ==
    pc \in {"chunk", "emit"} =>
        \A f \in Days : IsOldest(f, todo) /\ Left(f) /\ present[f] =>
            st.fp.gen = gen[f] /\ statSize = Size(f)

\* fullyIngested means it of a file this pass has visited.
Visited ==
    \A f \in Days :
        Left(f) /\ present[f] /\ Ingested(f) /\ (f \in todo => pc = "reclaim") =>
            cp[f].fp.gen = gen[f] /\ 2 * cp[f].offset = Size(f)

ReclaimInv == FilesNamed /\ ToVisit /\ ReadsWhole /\ Visited

\* Between two generations only the last is written.
LEMMA SizeIsTwicePlus ==
    ASSUME TypeOK, NEW f \in Days, gen[f] # 0
    PROVE  /\ gen[f] \in Gens /\ Size(f) \in Nat
           /\ 2 * Len(body[f][gen[f]]) <= Size(f)
<1>1. gen[f] \in Gens
  BY ConstantsAssumption DEF TypeOK, Gens
<1>2. PICK n \in Nat : n = Len(body[f][gen[f]])
  BY <1>1, BodyType
<1>3. PICK z \in {0, 1} : Size(f) = 2 * n + z
  BY <1>2 DEF Size, Bytes
<1>4. Size(f) \in Nat /\ 2 * n <= Size(f)
  BY <1>3
<1> QED
  BY <1>1, <1>2, <1>4

\* A file the writer has left keeps its generation and its size, and if it is
\* there after a step it was there before.
LEMMA LeftIsSettled ==
    ASSUME IInv, FilesNamed, "putback" \notin Faults, [Next]_vars,
           NEW f \in Days, Left(f), present'[f]
    PROVE  present[f] /\ gen'[f] = gen[f] /\ Size(f)' = Size(f)
<1>1. ~MayWrite(f)
  <2>1. PICK e \in files : ~(e <= f)
    BY DEF Left, IsNewest
  <2>2. e \in Days /\ f \in Days /\ gen[e] # 0
    BY <2>1 DEF IInv, TypeOK, FilesNamed
  <2> QED
    BY <2>1, <2>2, ConstantsAssumption DEF MayWrite, Days
<1>2. TypeOK
  BY DEF IInv
<1>3. ASSUME NEW e \in Days, CreateFile(e)
      PROVE  present[f] /\ gen'[f] = gen[f] /\ Size(f)' = Size(f)
  <2>1. e # f
    BY <1>1, <1>3 DEF CreateFile
  <2>2. present'[f] = present[f] /\ gen'[f] = gen[f] /\ UNCHANGED <<body, tail>>
    BY <1>2, <1>3, <2>1 DEF CreateFile, TypeOK
  <2> QED
    BY <2>2 DEF Size, Bytes
<1>4. ASSUME NEW e \in Days, NEW r \in Responses, NEW k \in {"input", "done", "bad"},
             AppendMember(e, r, k)
      PROVE  present[f] /\ gen'[f] = gen[f] /\ Size(f)' = Size(f)
  <2>1. e # f
    BY <1>1, <1>4 DEF AppendMember
  <2>2. body'[f] = body[f] /\ tail'[f] = tail[f] /\ UNCHANGED <<present, gen>>
    BY <1>2, <1>4, <2>1 DEF AppendMember, TypeOK
  <2> QED
    BY <2>2 DEF Size, Bytes
<1>5. ASSUME NEW e \in Days, BeginMember(e)
      PROVE  present[f] /\ gen'[f] = gen[f] /\ Size(f)' = Size(f)
  BY <1>1, <1>2, <1>5 DEF BeginMember, TypeOK, Size, Bytes
<1>6. ASSUME NEW e \in Days, WriterDies(e)
      PROVE  present[f] /\ gen'[f] = gen[f] /\ Size(f)' = Size(f)
  <2>1. UNCHANGED <<present, gen, body>>
    BY <1>6 DEF WriterDies
  <2>2. gen[f] \in Gens /\ gen[e] \in Gens
    BY <1>2, <1>6, <2>1, ConstantsAssumption DEF WriterDies, IInv, Named, TypeOK, Gens
  <2>3. (tail'[f][gen[f]] = "clean") = (tail[f][gen[f]] = "clean")
    BY <1>2, <1>6, <2>2 DEF WriterDies, TypeOK
  <2> QED
    BY <2>1, <2>3 DEF Size, Bytes
<1>7. ASSUME NEW e \in Days, MoveAway(e) \/ DeleteFile(e)
      PROVE  present[f] /\ gen'[f] = gen[f] /\ Size(f)' = Size(f)
  BY <1>2, <1>7 DEF MoveAway, DeleteFile, TypeOK, Size, Bytes
<1>8. ASSUME UNCHANGED <<present, gen, body, tail>>
      PROVE  present[f] /\ gen'[f] = gen[f] /\ Size(f)' = Size(f)
  BY <1>8 DEF Size, Bytes
<1>9. \/ UNCHANGED <<present, gen, body, tail>>
      \/ \E e \in Days : \/ CreateFile(e) \/ BeginMember(e) \/ WriterDies(e)
                         \/ MoveAway(e) \/ DeleteFile(e)
      \/ \E e \in Days, r \in Responses, k \in {"input", "done", "bad"} :
             AppendMember(e, r, k)
  BY DEF Next, Writer, NextDay, PutBack, Watch, ReadFile, Reclaim, Deliver, ShipChunk,
     Failure, vars, Scan, Abandon, EvictOpen, Checkpoint, EndPoll, SkipFile, NothingNew,
     OpenFile, ReadChunk, FinishFile, KeepFile, Shutdown, LastSave, Start, Die, Crash,
     Stop, EmitAccepted, EmitStaleAccepted, FlushAccepted, EmitRefused, EmitStaleRefused,
     FlushRefused, CheckpointFails, archiveVars
<1> QED
  BY <1>3, <1>4, <1>5, <1>6, <1>7, <1>8, <1>9

\* The steps after which a poll is over or has just begun, and those inside one.
LEMMA FilesStep ==
    ASSUME [Next]_vars
    PROVE  files' = {} \/ Scan \/ files' = files
  BY DEF Next, Writer, NextDay, Watch, ReadFile, Reclaim, Deliver, ShipChunk, Failure, vars,
     CreateFile, AppendMember, BeginMember, WriterDies, MoveAway, PutBack, Abandon,
     LeavePoll, EvictOpen, Checkpoint, EndPoll, SkipFile, NothingNew, OpenFile, ReadChunk,
     FinishFile, KeepFile, DeleteFile, Shutdown, LastSave, Start, Die, Crash, Stop,
     EmitAccepted, EmitStaleAccepted, FlushAccepted, EmitRefused, EmitStaleRefused,
     FlushRefused, CheckpointFails

LEMMA FilesNamedStep == IInv /\ FilesNamed /\ [Next]_vars => FilesNamed'
<1> SUFFICES ASSUME IInv, FilesNamed, [Next]_vars
             PROVE  FilesNamed'
  OBVIOUS
<1>1. \A f \in Days : gen[f] # 0 => gen'[f] # 0
  <2>1. gen' = gen \/ \E f \in Days : CreateFile(f)
    BY ZenonT(40) DEF Next, Writer, NextDay, Watch, ReadFile, Reclaim, Deliver, ShipChunk, Failure,
       vars, AppendMember, BeginMember, WriterDies, MoveAway, PutBack, Scan, Abandon,
       EvictOpen, Checkpoint, EndPoll, SkipFile, NothingNew, OpenFile, ReadChunk,
       FinishFile, KeepFile, DeleteFile, Shutdown, LastSave, Start, Die, Crash, Stop,
       EmitAccepted, EmitStaleAccepted, FlushAccepted, EmitRefused, EmitStaleRefused,
       FlushRefused, CheckpointFails, archiveVars
  <2> QED
    BY <2>1, ConstantsAssumption DEF CreateFile, IInv, TypeOK
<1>2. CASE files' = {}
  BY <1>2 DEF FilesNamed
<1>3. CASE Scan
  BY <1>3 DEF Scan, FilesNamed, IInv, Named, archiveVars
<1>4. CASE files' = files
  BY <1>1, <1>4 DEF FilesNamed, IInv, TypeOK
<1> QED
  BY <1>2, <1>3, <1>4, FilesStep

LEMMA ToVisitStep == IInv /\ ToVisit /\ [Next]_vars => ToVisit'
<1> SUFFICES ASSUME IInv, ToVisit, [Next]_vars
             PROVE  ToVisit'
  OBVIOUS
<1>1. CASE Scan
  BY <1>1 DEF Scan, ToVisit
<1>2. CASE files' = {} /\ todo' = {}
  BY <1>2 DEF ToVisit
<1>3. ASSUME NEW f \in Days, ReadFile(f)
      PROVE  ToVisit'
  BY <1>3 DEF ReadFile, SkipFile, NothingNew, OpenFile, ReadChunk, FinishFile, AdvanceTo,
     ToVisit
<1>4. ASSUME NEW f \in Days, EmitAccepted(f)
      PROVE  ToVisit'
  BY <1>4 DEF EmitAccepted, AdvanceTo, ToVisit
<1>5. CASE EvictOpen \/ EmitStaleAccepted
  BY <1>5 DEF EvictOpen, EmitStaleAccepted, ToVisit
<1>6. CASE Checkpoint
  BY <1>6 DEF Checkpoint, ToVisit, Left, IsNewest
<1>7. ASSUME NEW f \in Days, KeepFile(f) \/ DeleteFile(f)
      PROVE  ToVisit'
  BY <1>7 DEF KeepFile, DeleteFile, ToVisit, Left, IsNewest
<1>8. CASE Shutdown \/ FlushAccepted \/ Start
  BY <1>8 DEF Shutdown, FlushAccepted, Start, ToVisit
<1>9. CASE UNCHANGED <<pc, files, todo>>
  BY <1>9 DEF ToVisit, Left, IsNewest
<1>10. \/ UNCHANGED <<pc, files, todo>>
       \/ Scan \/ (files' = {} /\ todo' = {})
       \/ \E f \in Days : \/ ReadFile(f) \/ EmitAccepted(f)
                          \/ KeepFile(f) \/ DeleteFile(f)
       \/ EvictOpen \/ EmitStaleAccepted \/ Checkpoint
       \/ Shutdown \/ FlushAccepted \/ Start
  BY DEF Next, Writer, NextDay, Watch, Reclaim, Deliver, ShipChunk, Failure, vars,
     CreateFile, AppendMember, BeginMember, WriterDies, MoveAway, PutBack, Abandon,
     LeavePoll, EndPoll, LastSave, Die, Crash, Stop, EmitRefused, EmitStaleRefused,
     FlushRefused, CheckpointFails
<1> QED
  BY <1>1, <1>2, <1>3, <1>4, <1>5, <1>6, <1>7, <1>8, <1>9, <1>10

LEMMA ReadsWholeStep ==
    IInv /\ ReclaimInv /\ "putback" \notin Faults /\ [Next]_vars => ReadsWhole'
<1> SUFFICES ASSUME IInv, ReclaimInv, "putback" \notin Faults, [Next]_vars,
                    pc' \in {"chunk", "emit"},
                    NEW f \in Days, IsOldest(f, todo'), Left(f)', present'[f]
             PROVE  st'.fp.gen = gen'[f] /\ statSize' = Size(f)'
  BY DEF ReadsWhole, IsOldest
<1>1. files' = files
  BY FilesStep DEF Scan, Left
<1>2. Left(f)
  BY <1>1 DEF Left, IsNewest
<1>3. present[f] /\ gen'[f] = gen[f] /\ Size(f)' = Size(f)
  BY <1>2, LeftIsSettled DEF ReclaimInv
<1>4. todo \in SUBSET Days
  BY DEF IInv, TypeOK
<1>5. ASSUME NEW e \in Days, OpenFile(e)
      PROVE  st'.fp.gen = gen[f] /\ statSize' = Size(f)
  <2>1. e = f
    BY <1>4, <1>5, OldestIsUnique DEF OpenFile
  <2>2. st' = Resume(f) /\ statSize' = Size(f) /\ Resume(f).fp.gen # 0
    BY <1>5, <2>1, ResumeSound DEF OpenFile
  <2>3. cp[f] \in FileState
    BY DEF IInv, TypeOK
  <2>4. Resume(f).fp = Fingerprint(f)
    BY <2>3 DEF Resume, NoState, FileState
  <2> QED
    BY <2>2, <2>4 DEF Fingerprint, NoFingerprint
<1>6. ASSUME pc \in {"chunk", "emit"}, todo' = todo, st'.fp = st.fp, statSize' = statSize
      PROVE  st'.fp.gen = gen[f] /\ statSize' = Size(f)
  BY <1>2, <1>3, <1>6 DEF ReclaimInv, ReadsWhole
<1>7. ASSUME NEW e \in Days, \/ EmitAccepted(e)
                             \/ \E hi \in Positions : ReadChunk(e, hi)
      PROVE  pc \in {"chunk", "emit"} /\ todo' = todo /\ st'.fp = st.fp /\ statSize' = statSize
  <2>1. st \in FileState
    BY DEF IInv, TypeOK
  <2> QED
    BY <1>7, <2>1 DEF EmitAccepted, ReadChunk, AdvanceTo, FileState
<1>8. UNCHANGED <<pc, todo, st, upto, batch>> => statSize' = statSize
  BY DEF Next, Writer, NextDay, Watch, ReadFile, Reclaim, Deliver, ShipChunk, Failure, vars,
     CreateFile, AppendMember, BeginMember, WriterDies, MoveAway, PutBack, Scan, Abandon,
     LeavePoll, EvictOpen, Checkpoint, EndPoll, SkipFile, NothingNew, OpenFile, ReadChunk,
     FinishFile, KeepFile, DeleteFile, Shutdown, LastSave, Start, Die, Crash, Stop,
     EmitAccepted, EmitStaleAccepted, FlushAccepted, EmitRefused, EmitStaleRefused,
     FlushRefused, CheckpointFails, readVars
<1> QED
  BY <1>3, <1>5, <1>6, <1>7, <1>8, StillReading

\* What letting go of a file leaves behind is what the archive holds of it.
LEMMA NothingNewMeansRead ==
    ASSUME IInv, NEW f \in Days, NothingNew(f), Ingested(f)'
    PROVE  cp'[f].fp.gen = gen[f] /\ 2 * cp'[f].offset = Size(f)
<1>1. cp' = [cp EXCEPT ![f] = Resume(f)] /\ Size(f) = 2 * Resume(f).offset /\ present[f]
  BY DEF NothingNew
<1>2. cp[f] \in FileState /\ Resume(f) \in FileState /\ Size(f) \in Nat
  BY <1>1, ResumeType DEF IInv, TypeOK
<1>3. cp'[f] = Resume(f)
  BY <1>1 DEF IInv, TypeOK
<1>4. Resume(f).fp = Fingerprint(f)
  BY <1>2 DEF Resume, NoState, FileState
<1>5. Size(f) # 0
  BY <1>1, <1>2, <1>3 DEF Ingested, FileState
<1> QED
  BY <1>1, <1>3, <1>4, <1>5 DEF Fingerprint

LEMMA FinishFileMeansRead ==
    ASSUME IInv, ReclaimInv, NEW f \in Days, FinishFile(f), Left(f), present[f], Ingested(f)'
    PROVE  cp'[f].fp.gen = gen[f] /\ 2 * cp'[f].offset = Size(f)
<1>1. st.fp.gen = gen[f] /\ statSize = Size(f)
  BY DEF FinishFile, ReclaimInv, ReadsWhole
<1>2. st.fp.gen # 0 /\ Sound(f, st) /\ st \in FileState
  BY ReadFacts DEF FinishFile
<1>3. cp'[f] = [st EXCEPT !.size = statSize]
  BY DEF FinishFile, IInv, TypeOK
<1>4. cp'[f].fp = st.fp /\ cp'[f].offset = st.offset /\ cp'[f].size = statSize
  BY <1>2, <1>3 DEF FileState
<1>5. Size(f) \in Nat /\ 2 * Len(body[f][gen[f]]) <= Size(f) /\ gen[f] \in Gens
  BY <1>1, <1>2, SizeIsTwicePlus DEF IInv
<1>6. PICK n \in Nat : n = Len(body[f][gen[f]])
  BY <1>5, BodyType DEF IInv
<1>7. st.offset <= n /\ st.offset \in Nat
  BY <1>1, <1>2, <1>6 DEF Sound, FileState
<1>8. 2 * st.offset >= Size(f)
  BY <1>1, <1>4 DEF Ingested
<1> QED
  BY <1>1, <1>4, <1>5, <1>6, <1>7, <1>8

LEMMA VisitedStep ==
    IInv /\ ReclaimInv /\ "putback" \notin Faults /\ [Next]_vars => Visited'
<1> SUFFICES ASSUME IInv, ReclaimInv, "putback" \notin Faults, [Next]_vars,
                    NEW f \in Days, Left(f)', present'[f], Ingested(f)',
                    f \in todo' => pc' = "reclaim"
             PROVE  cp'[f].fp.gen = gen'[f] /\ 2 * cp'[f].offset = Size(f)'
  BY DEF Visited
<1>1. files' = files
  BY FilesStep DEF Scan, Left
<1>2. Left(f)
  BY <1>1 DEF Left, IsNewest
<1>3. present[f] /\ gen'[f] = gen[f] /\ Size(f)' = Size(f)
  BY <1>2, LeftIsSettled DEF ReclaimInv
<1>4. ASSUME cp'[f] = cp[f], f \in todo => pc = "reclaim"
      PROVE  cp'[f].fp.gen = gen[f] /\ 2 * cp'[f].offset = Size(f)
  <2>1. Ingested(f)
    BY <1>4 DEF Ingested
  <2> QED
    BY <1>2, <1>3, <1>4, <2>1 DEF ReclaimInv, Visited
<1>5. cp \in [Days -> FileState]
  BY DEF IInv, TypeOK
<1>6. ASSUME NEW e \in Days, ReadFile(e)
      PROVE  cp'[f].fp.gen = gen[f] /\ 2 * cp'[f].offset = Size(f)
  <2>1. CASE SkipFile(e)
    <3>1. cp' = cp /\ todo' = todo \ {e} /\ pc' = pc /\ pc = "next"
      BY <2>1 DEF SkipFile
    <3>2. CASE e = f
      BY <1>3, <2>1, <3>1, <3>2 DEF SkipFile, Ingested
    <3> QED
      BY <1>4, <3>1, <3>2
  <2>2. CASE NothingNew(e)
    <3>1. CASE e = f
      BY <2>2, <3>1, NothingNewMeansRead
    <3>2. CASE e # f
      BY <1>4, <1>5, <2>2, <3>2 DEF NothingNew
    <3> QED
      BY <3>1, <3>2
  <2>3. CASE OpenFile(e)
    BY <1>4, <2>3 DEF OpenFile
  <2>4. ASSUME NEW hi \in Positions, ReadChunk(e, hi)
        PROVE  cp'[f].fp.gen = gen[f] /\ 2 * cp'[f].offset = Size(f)
    BY <1>4, <1>5, <2>4 DEF ReadChunk, AdvanceTo, IsOldest
  <2>5. CASE FinishFile(e)
    <3>1. CASE e = f
      BY <1>2, <1>3, <2>5, <3>1, FinishFileMeansRead
    <3>2. CASE e # f
      BY <1>4, <1>5, <2>5, <3>2 DEF FinishFile
    <3> QED
      BY <3>1, <3>2
  <2> QED
    BY <1>6, <2>1, <2>2, <2>3, <2>4, <2>5 DEF ReadFile
<1>7. ASSUME NEW e \in Days, EmitAccepted(e)
      PROVE  cp'[f].fp.gen = gen[f] /\ 2 * cp'[f].offset = Size(f)
  BY <1>4, <1>5, <1>7 DEF EmitAccepted, AdvanceTo, IsOldest
<1>8. CASE Checkpoint
  <2>1. todo = {}
    BY <1>8 DEF Checkpoint, ReclaimInv, ToVisit
  <2>2. cp' = cp \/ cp' = Pruned
    BY <1>8 DEF Checkpoint, Save
  <2>3. cp'[f] = cp[f]
    BY <2>2 DEF Pruned, Ingested, NoState
  <2>4. f \in todo => pc = "reclaim"
    BY <2>1
  <2> QED
    BY <1>3, <1>4, <2>3, <2>4
<1>9. CASE EndPoll \/ CheckpointFails \/ FlushRefused \/ LastSave \/ Crash \/ Start
  BY <1>1, <1>2, <1>9 DEF EndPoll, CheckpointFails, LeavePoll, FlushRefused, LastSave, Crash,
     Die, Start, Left, ReclaimInv, ToVisit
<1>10. ASSUME NEW e \in Days, DeleteFile(e)
       PROVE  cp'[f].fp.gen = gen[f] /\ 2 * cp'[f].offset = Size(f)
  <2>1. cp' = [cp EXCEPT ![e].deleted = TRUE] /\ pc = "reclaim"
    BY <1>10 DEF DeleteFile
  <2>2. cp[e] \in FileState
    BY <1>5
  <2>3. cp'[e].deleted
    BY <1>5, <2>1, <2>2 DEF FileState
  <2>4. e # f
    BY <2>3 DEF Ingested
  <2> QED
    BY <1>4, <1>5, <2>1, <2>4
<1>11. ASSUME cp' = cp, todo \subseteq todo', pc' = "reclaim" => pc = "reclaim"
       PROVE  cp'[f].fp.gen = gen[f] /\ 2 * cp'[f].offset = Size(f)
  BY <1>4, <1>11
<1>12. ASSUME NEW e \in Days, KeepFile(e)
       PROVE  cp'[f].fp.gen = gen[f] /\ 2 * cp'[f].offset = Size(f)
  BY <1>4, <1>12 DEF KeepFile
<1>13. \/ cp' = cp /\ todo \subseteq todo' /\ (pc' = "reclaim" => pc = "reclaim")
       \/ \E e \in Days : ReadFile(e) \/ EmitAccepted(e) \/ KeepFile(e) \/ DeleteFile(e)
       \/ Checkpoint \/ EndPoll \/ CheckpointFails
       \/ FlushRefused \/ LastSave \/ Crash \/ Start
       \/ files' = {} \/ Scan
  BY DEF Next, Writer, NextDay, Watch, Reclaim, Deliver, ShipChunk, Failure, vars,
     CreateFile, AppendMember, BeginMember, WriterDies, MoveAway, PutBack, Abandon,
     LeavePoll, EvictOpen, Shutdown, Stop, EmitStaleAccepted, FlushAccepted, EmitRefused,
     EmitStaleRefused
<1>14. ~Scan /\ files' # {}
  BY DEF Scan, Left
<1> QED
  BY <1>3, <1>6, <1>7, <1>8, <1>9, <1>10, <1>11, <1>12, <1>13, <1>14

LEMMA InitReclaimInv == Init => ReclaimInv
  BY DEF Init, ReclaimInv, FilesNamed, ToVisit, ReadsWhole, Visited, Left

LEMMA ReclaimInvStep ==
    IInv /\ ReclaimInv /\ "putback" \notin Faults /\ [Next]_vars => ReclaimInv'
  BY FilesNamedStep, ToVisitStep, ReadsWholeStep, VisitedStep DEF ReclaimInv

-----------------------------------------------------------------------------
(* Records are numbered in the order they are written, so what is written  *)
(* next is no record anybody has read, holds or has delivered.             *)

Numbered ==
    \A f \in Days, g \in Gens : \A i \in 1..Len(body[f][g]) : body[f][g][i].id < nextId

\* The generations a name has yet to see are empty.
Unborn == \A f \in Days, g \in Gens : g > gen[f] => body[f][g] = <<>>

NothingAhead ==
    /\ \A n \in shipped \cup skipped : n < nextId
    /\ \A r \in Responses : \A n \in got[r] : n < nextId
    /\ \A t \in batch : \A n \in t.got : n < nextId

FreshInv == Numbered /\ Unborn /\ NothingAhead

\* What AppendMember adds to the file it writes.
Added(f, r, k) ==
    LET rec  == [id |-> nextId, resp |-> r, kind |-> k]
        torn == [id |-> 0, resp |-> r, kind |-> "corrupt"]
    IN  IF tail[f][gen[f]] = "abandoned" THEN <<torn, rec>> ELSE <<rec>>

\* Only the generation under the name is written, and only at its end.
LEMMA AppendWrites ==
    ASSUME TypeOK, Named, NEW f \in Days, NEW r \in Responses,
           NEW k \in {"input", "done", "bad"}, AppendMember(f, r, k)
    PROVE  /\ gen[f] \in Gens
           /\ \A e \in Days, g \in Gens :
                 /\ ~(e = f /\ g = gen[f]) => body'[e][g] = body[e][g]
                 /\ \A i \in 1..Len(body'[e][g]) :
                       \/ i \in 1..Len(body[e][g]) /\ body'[e][g][i] = body[e][g][i]
                       \/ body'[e][g][i].id = 0 /\ body'[e][g][i].kind = "corrupt"
                       \/ /\ body'[e][g][i].id = nextId /\ body'[e][g][i].kind = k
                          /\ i = Len(body'[e][g])
           /\ \E i \in 1..Len(body'[f][gen[f]]) :
                 body'[f][gen[f]][i].id = nextId /\ body'[f][gen[f]][i].kind = k
<1> DEFINE g == gen[f]
           s == body[f][g]
           more == Added(f, r, k)
           rec == [id |-> nextId, resp |-> r, kind |-> k]
           torn == [id |-> 0, resp |-> r, kind |-> "corrupt"]
<1>1. g \in Gens
  BY ConstantsAssumption DEF AppendMember, Named, TypeOK, Gens
<1>2. s \in Seq(Member) /\ Len(s) \in Nat
  BY <1>1, BodyType
<1>3. body' = [body EXCEPT ![f][g] = s \o more]
  BY DEF AppendMember, Added
<1>4. more = <<torn, rec>> \/ more = <<rec>>
  BY DEF Added
<1>5. rec \in Member /\ torn \in Member
  BY ConstantsAssumption DEF AppendMember, TypeOK, Member, Record, Torn, FrameIds
<1>6. more \in Seq(Member) /\ Len(more) \in {1, 2} /\ more[Len(more)] = rec
      /\ \A i \in 1..Len(more) : more[i] = rec \/ more[i] = torn
  <2> HIDE DEF Member, rec, torn, more
  <2> QED
    BY <1>4, <1>5
<1>14. \A i \in 1..Len(more) : (more[i] = rec /\ i = Len(more)) \/ more[i] = torn
  <2> HIDE DEF Member, rec, torn, more
  <2>1. CASE more = <<torn, rec>>
    <3>1. Len(more) = 2 /\ more[1] = torn /\ more[2] = rec
      BY <2>1
    <3> QED
      BY <3>1
  <2>2. CASE more = <<rec>>
    <3>1. Len(more) = 1 /\ more[1] = rec
      BY <2>2
    <3> QED
      BY <3>1
  <2> QED
    BY <1>4, <2>1, <2>2
<1>7. /\ Len(s \o more) = Len(s) + Len(more)
      /\ \A i \in 1..Len(s) : (s \o more)[i] = s[i]
      /\ \A i \in Len(s) + 1..Len(s) + Len(more) : (s \o more)[i] = more[i - Len(s)]
  <2> HIDE DEF Member, more, s
  <2> QED
    BY <1>2, <1>6, ConcatProperties
<1>8. \A e \in Days, h \in Gens :
          body'[e][h] = IF e = f /\ h = g THEN s \o more ELSE body[e][h]
  <2> HIDE DEF more, s, g
  <2> QED
    BY <1>1, <1>3 DEF TypeOK
<1>9. \A i \in 1..Len(s \o more) :
          \/ i \in 1..Len(s) /\ (s \o more)[i] = s[i]
          \/ (s \o more)[i] = torn
          \/ (s \o more)[i] = rec /\ i = Len(s \o more)
  <2> SUFFICES ASSUME NEW i \in 1..Len(s \o more), i \notin 1..Len(s)
               PROVE  \/ (s \o more)[i] = torn
                      \/ (s \o more)[i] = rec /\ i = Len(s \o more)
    BY <1>7
  <2> HIDE DEF Member, more, s, rec, torn
  <2>1. i \in Len(s) + 1..Len(s) + Len(more) /\ i - Len(s) \in 1..Len(more)
    BY <1>2, <1>6, <1>7
  <2> QED
    BY <1>2, <1>6, <1>7, <1>14, <2>1
<1>10. \E i \in 1..Len(s \o more) : (s \o more)[i] = rec
  <2> HIDE DEF Member, more, s, rec, torn
  <2>1. Len(s) + Len(more) \in 1..Len(s \o more)
    BY <1>2, <1>6, <1>7
  <2>2. (s \o more)[Len(s) + Len(more)] = more[Len(more)]
    BY <1>2, <1>6, <1>7
  <2> QED
    BY <1>6, <2>1, <2>2
<1>11. rec.id = nextId /\ rec.kind = k /\ torn.id = 0 /\ torn.kind = "corrupt"
  OBVIOUS
<1>12. ASSUME NEW e \in Days, NEW h \in Gens
       PROVE  /\ ~(e = f /\ h = g) => body'[e][h] = body[e][h]
              /\ \A i \in 1..Len(body'[e][h]) :
                    \/ i \in 1..Len(body[e][h]) /\ body'[e][h][i] = body[e][h][i]
                    \/ body'[e][h][i].id = 0 /\ body'[e][h][i].kind = "corrupt"
                    \/ /\ body'[e][h][i].id = nextId /\ body'[e][h][i].kind = k
                       /\ i = Len(body'[e][h])
  <2>1. CASE e = f /\ h = g
    <3>1. body'[e][h] = s \o more /\ body[e][h] = s
      BY <1>8, <2>1
    <3>2. ASSUME NEW i \in 1..Len(body'[e][h])
          PROVE  \/ i \in 1..Len(body[e][h]) /\ body'[e][h][i] = body[e][h][i]
                 \/ body'[e][h][i].id = 0 /\ body'[e][h][i].kind = "corrupt"
                 \/ /\ body'[e][h][i].id = nextId /\ body'[e][h][i].kind = k
                    /\ i = Len(body'[e][h])
      <4> HIDE DEF more, s, rec, torn
      <4>1. i \in 1..Len(s \o more)
        BY <3>1, <3>2
      <4>2. \/ i \in 1..Len(s) /\ (s \o more)[i] = s[i]
            \/ (s \o more)[i] = torn
            \/ (s \o more)[i] = rec /\ i = Len(s \o more)
        BY <1>9, <4>1
      <4> QED
        BY <1>11, <3>1, <4>2
    <3> QED
      BY <2>1, <3>2
  <2>2. CASE ~(e = f /\ h = g)
    <3>1. body'[e][h] = body[e][h]
      BY <1>8, <2>2
    <3> QED
      BY <2>2, <3>1
  <2> QED
    BY <2>1, <2>2
<1>13. \E i \in 1..Len(body'[f][g]) : body'[f][g][i].id = nextId /\ body'[f][g][i].kind = k
  <2>1. body'[f][g] = s \o more
    BY <1>1, <1>8
  <2> HIDE DEF more, s, rec, torn
  <2> QED
    BY <1>10, <1>11, <2>1
<1> QED
  BY <1>1, <1>12, <1>13

\* The steps that write records, and those that leave every record alone.
LEMMA WritingStep ==
    ASSUME [Next]_vars
    PROVE  \/ \E f \in Days, r \in Responses, k \in {"input", "done", "bad"} :
                  AppendMember(f, r, k)
           \/ \E f \in Days : CreateFile(f)
           \/ UNCHANGED <<nextId, gen, body>>
  BY DEF Next, Writer, NextDay, Watch, ReadFile, Reclaim, Deliver, ShipChunk, Failure, vars,
     BeginMember, WriterDies, MoveAway, PutBack, Scan, Abandon, EvictOpen, Checkpoint,
     EndPoll, SkipFile, NothingNew, OpenFile, ReadChunk, FinishFile, KeepFile, DeleteFile,
     Shutdown, LastSave, Start, Die, Crash, Stop, EmitAccepted, EmitStaleAccepted,
     FlushAccepted, EmitRefused, EmitStaleRefused, FlushRefused, CheckpointFails,
     archiveVars

LEMMA NumberedStep == IInv /\ FreshInv /\ [Next]_vars => Numbered' /\ Unborn' /\ nextId <= nextId'
<1> SUFFICES ASSUME IInv, FreshInv, [Next]_vars
             PROVE  Numbered' /\ Unborn' /\ nextId <= nextId'
  OBVIOUS
<1>1. TypeOK /\ Named /\ nextId \in Nat /\ nextId > 0 /\ Numbered /\ Unborn
  BY ConstantsAssumption DEF IInv, TypeOK, FreshInv
<1>2. ASSUME NEW f \in Days, NEW r \in Responses, NEW k \in {"input", "done", "bad"},
             AppendMember(f, r, k)
      PROVE  Numbered' /\ Unborn' /\ nextId <= nextId'
  <2>1. nextId' = nextId + 1 /\ gen' = gen
    BY <1>2 DEF AppendMember
  <2>2. Numbered'
    <3> SUFFICES ASSUME NEW e \in Days, NEW g \in Gens, NEW i \in 1..Len(body'[e][g])
                 PROVE  body'[e][g][i].id < nextId'
      BY DEF Numbered
    <3>1. \/ i \in 1..Len(body[e][g]) /\ body'[e][g][i] = body[e][g][i]
          \/ body'[e][g][i].id = 0
          \/ body'[e][g][i].id = nextId
      BY <1>1, <1>2, AppendWrites
    <3>2. CASE i \in 1..Len(body[e][g]) /\ body'[e][g][i] = body[e][g][i]
      <4>1. body[e][g][i] \in Member
        BY <1>1, <3>2, BodyType, ElementOfSeq
      <4>2. body[e][g][i].id \in Nat
        BY <4>1, ConstantsAssumption DEF Member, Record, Torn, FrameIds
      <4>3. body[e][g][i].id < nextId
        BY <1>1, <3>2 DEF Numbered
      <4> QED
        BY <1>1, <2>1, <3>2, <4>2, <4>3
    <3>3. CASE body'[e][g][i].id = 0 \/ body'[e][g][i].id = nextId
      BY <1>1, <2>1, <3>3
    <3> QED
      BY <3>1, <3>2, <3>3
  <2>3. Unborn'
    <3> SUFFICES ASSUME NEW e \in Days, NEW g \in Gens, g > gen[e]
                 PROVE  body'[e][g] = <<>>
      BY <2>1 DEF Unborn
    <3>1. ~(e = f /\ g = gen[f])
      BY ConstantsAssumption DEF Gens
    <3>2. body'[e][g] = body[e][g]
      BY <1>1, <1>2, <3>1, AppendWrites
    <3> QED
      BY <1>1, <3>2 DEF Unborn
  <2> QED
    BY <1>1, <2>1, <2>2, <2>3
<1>3. ASSUME NEW f \in Days, CreateFile(f)
      PROVE  Numbered' /\ Unborn' /\ nextId <= nextId'
  <2>1. body' = body /\ nextId' = nextId /\ gen' = [gen EXCEPT ![f] = @ + 1]
    BY <1>3 DEF CreateFile
  <2>2. \A e \in Days : gen[e] \in Nat /\ gen'[e] >= gen[e] /\ gen'[e] \in Nat
    BY <1>1, <2>1, ConstantsAssumption DEF TypeOK
  <2>3. Unborn'
    <3> SUFFICES ASSUME NEW e \in Days, NEW g \in Gens, g > gen'[e]
                 PROVE  body[e][g] = <<>>
      BY <2>1 DEF Unborn
    <3>1. g > gen[e]
      BY <2>2, ConstantsAssumption DEF Gens
    <3> QED
      BY <1>1, <3>1 DEF Unborn
  <2> QED
    BY <1>1, <2>1, <2>3 DEF Numbered
<1>4. CASE UNCHANGED <<nextId, gen, body>>
  BY <1>1, <1>4 DEF Numbered, Unborn
<1> QED
  BY <1>2, <1>3, <1>4, WritingStep

\* The steps by what they do to what is held and what is delivered.
LEMMA HoldingStep ==
    ASSUME [Next]_vars
    PROVE  \/ \E f \in Days, hi \in Positions : ReadChunk(f, hi)
           \/ \E f \in Days : EmitAccepted(f)
           \/ Accept /\ UNCHANGED <<got, skipped>>
           \/ batch' = {} /\ UNCHANGED <<got, shipped, skipped>>
           \/ Drain(Open) /\ UNCHANGED <<shipped, skipped>>
           \/ Drain(Stale) /\ UNCHANGED <<shipped, skipped>>
           \/ /\ got' = [r \in Responses |-> {}] /\ batch' = {}
              /\ UNCHANGED <<shipped, skipped>>
           \/ UNCHANGED <<got, batch, shipped, skipped>>
  BY ZenonT(40) DEF Next, Writer, NextDay, Watch, ReadFile, Reclaim, Deliver, ShipChunk, Failure, vars,
     CreateFile, AppendMember, BeginMember, WriterDies, MoveAway, PutBack, Scan, Abandon,
     EvictOpen, Checkpoint, EndPoll, SkipFile, NothingNew, OpenFile, FinishFile, KeepFile,
     DeleteFile, Shutdown, LastSave, Start, Die, Crash, Stop, EmitStaleAccepted,
     FlushAccepted, EmitRefused, EmitStaleRefused, Refuse, FlushRefused, CheckpointFails,
     reducerVars, sinkVars

\* The members between the offset and the end of a chunk exist, typed.
LEMMA BehindChunk ==
    ASSUME IInv, NEW f \in Days, NEW hi \in Nat, pc \in {"chunk", "emit"},
           IsOldest(f, todo), hi <= Len(Handle(f))
    PROVE  /\ st.fp.gen \in Gens /\ st.offset \in Nat
           /\ \A i \in 1..hi : i \in 1..Len(Handle(f)) /\ Handle(f)[i] \in Member
<1>1. st.fp.gen # 0 /\ st \in FileState
  BY ReadFacts
<1>2. st.fp.gen \in Gens /\ st.offset \in Nat
  BY <1>1, ConstantsAssumption DEF FileState, Gens
<1>3. Len(Handle(f)) \in Nat /\ \A i \in 1..Len(Handle(f)) : Handle(f)[i] \in Member
  BY <1>1, HandleType DEF IInv
<1> HIDE DEF Member
<1> QED
  BY <1>2, <1>3

LEMMA NothingAheadStep == IInv /\ FreshInv /\ [Next]_vars => NothingAhead'
<1> SUFFICES ASSUME IInv, FreshInv, [Next]_vars
             PROVE  NothingAhead'
  OBVIOUS
<1> DEFINE Old(n) == n < nextId
<1>1. /\ \A n \in shipped \cup skipped : Old(n)
      /\ \A r \in Responses : \A n \in got[r] : Old(n)
      /\ \A t \in batch : \A n \in t.got : Old(n)
  BY DEF FreshInv, NothingAhead
<1>2. /\ \A n \in shipped' \cup skipped' : Old(n)
      /\ \A r \in Responses : \A n \in got'[r] : Old(n)
      /\ \A t \in batch' : \A n \in t.got : Old(n)
  <2> HIDE DEF Old
  <2>1. ASSUME NEW f \in Days, NEW hi \in Nat, pc \in {"chunk", "emit"},
               IsOldest(f, todo), hi <= Len(Handle(f))
        PROVE  \A i \in st.offset + 1..hi : Old(Handle(f)[i].id)
    <3>1. /\ st.fp.gen \in Gens /\ st.offset \in Nat
          /\ \A i \in 1..hi : i \in 1..Len(Handle(f))
      BY <2>1, BehindChunk
    <3> QED
      BY <3>1 DEF FreshInv, Numbered, Handle, Old
  <2>2. ASSUME NEW f \in Days, NEW hi \in Nat, AdvanceTo(f, hi),
               pc \in {"chunk", "emit"}, IsOldest(f, todo), hi <= Len(Handle(f))
        PROVE  \A n \in skipped' : Old(n)
    <3>1. \A n \in SkippedBy(f, st.fp.gen, st.offset, hi) : Old(n)
      BY <2>1, <2>2 DEF SkippedBy, Handle
    <3> QED
      BY <1>1, <2>2, <3>1 DEF AdvanceTo
  <2>3. ASSUME NEW f \in Days, NEW hi \in Positions, ReadChunk(f, hi)
        PROVE  /\ \A n \in shipped' \cup skipped' : Old(n)
               /\ \A r \in Responses : \A n \in got'[r] : Old(n)
               /\ \A t \in batch' : \A n \in t.got : Old(n)
    <3> DEFINE chunk == ChunkOf(f, st.fp.gen, st.offset, hi)
    <3>1. /\ hi \in Nat /\ pc = "chunk" /\ IsOldest(f, todo) /\ hi <= Len(Handle(f))
          /\ Reduce(chunk) /\ batch' = TurnsOf(chunk) /\ shipped' = shipped
          /\ AdvanceTo(f, hi) \/ skipped' = skipped
      BY <2>3 DEF ReadChunk, Positions
    <3>2. \A m \in chunk : Old(m.id)
      BY <2>1, <3>1 DEF ChunkOf, Reached, Handle
    <3> HIDE DEF chunk
    <3>3. \A r \in Responses : \A n \in Captured(chunk, r) : Old(n)
      BY <1>1, <3>2 DEF Captured
    <3>4. \A n \in shipped' \cup skipped' : Old(n)
      BY <1>1, <2>2, <3>1
    <3> QED
      BY <3>1, <3>3, <3>4 DEF Reduce, TurnsOf, Closed
  <2>4. ASSUME Accept
        PROVE  (\A n \in shipped' : Old(n)) /\ batch' = {}
    BY <1>1, <2>4 DEF Accept, Contents
  <2>5. ASSUME NEW f \in Days, EmitAccepted(f)
        PROVE  /\ \A n \in shipped' \cup skipped' : Old(n)
               /\ got' = got /\ batch' = {}
    <3>1. /\ upto \in Nat /\ pc = "emit" /\ IsOldest(f, todo) /\ upto <= Len(Handle(f))
          /\ AdvanceTo(f, upto) /\ Accept /\ got' = got
      BY <2>5 DEF EmitAccepted, IInv, InBatch, TypeOK, reducerVars
    <3> QED
      BY <2>2, <2>4, <3>1
  <2>6. ASSUME NEW R \in SUBSET Responses, Drain(R)
        PROVE  /\ \A r \in Responses : \A n \in got'[r] : Old(n)
               /\ \A t \in batch' : \A n \in t.got : Old(n)
    BY <1>1, <2>6 DEF Drain
  <2>7. Open \in SUBSET Responses /\ Stale \in SUBSET Responses
    BY DEF Open, Stale
  <2> QED
    BY <1>1, <2>3, <2>4, <2>5, <2>6, <2>7, HoldingStep
<1>3. nextId <= nextId' /\ nextId \in Nat /\ nextId' \in Nat
  <2>1. TypeOK /\ TypeOK'
    BY TypeStep DEF IInv
  <2> QED
    BY <2>1, NumberedStep, ConstantsAssumption DEF TypeOK
<1>4. /\ \A n \in shipped' \cup skipped' : n \in Nat
      /\ \A r \in Responses : \A n \in got'[r] : n \in Nat
      /\ \A t \in batch' : \A n \in t.got : n \in Nat
  <2>1. TypeOK'
    BY TypeStep
  <2> QED
    BY <2>1, ConstantsAssumption DEF TypeOK, Turn, FrameIds
<1>5. \A n \in Nat : Old(n) => n < nextId'
  BY <1>3
<1> HIDE DEF Old
<1> QED
  BY <1>2, <1>4, <1>5 DEF NothingAhead

LEMMA InitFreshInv == Init => FreshInv
<1> SUFFICES ASSUME Init
             PROVE  FreshInv
  OBVIOUS
<1>1. \A f \in Days, g \in Gens : body[f][g] = <<>>
  BY DEF Init
<1>2. Numbered /\ Unborn
  BY <1>1 DEF Numbered, Unborn
<1> QED
  BY <1>2 DEF Init, FreshInv, NothingAhead

LEMMA FreshInvStep == IInv /\ FreshInv /\ [Next]_vars => FreshInv'
  BY NumberedStep, NothingAheadStep DEF FreshInv

-----------------------------------------------------------------------------
(* The watcher implements ArchiveDelivery: what its state maps to, and     *)
(* what each step does to that.                                            *)

LEMMA CompletionIsCompleted ==
    ASSUME TypeOK, NEW f \in Days, NEW g \in Gens, NEW i \in 1..Len(body[f][g]),
           body[f][g][i].kind = "done"
    PROVE  body[f][g][i].id \in Completions
<1>1. body[f][g][i] \in Member
  BY BodyType, ElementOfSeq
<1>2. body[f][g][i].id \in FrameIds
  BY <1>1 DEF Member, Record, Torn
<1> QED
  BY <1>2 DEF Completions, Completed

\* What is behind the offsets has been delivered or dropped; what is behind
\* them or still in the directory was written.
LEMMA MappedState ==
    IInv => /\ Passed \subseteq Completions
            /\ Passed \subseteq shipped \cup skipped
            /\ Readable \subseteq Completions
<1> SUFFICES ASSUME IInv
             PROVE  /\ Passed \subseteq Completions
                    /\ Passed \subseteq shipped \cup skipped
                    /\ Readable \subseteq Completions
  OBVIOUS
<1>1. TypeOK /\ Named
  BY DEF IInv
<1>2. ASSUME NEW f \in Days, cp[f].fp.gen # 0
      PROVE  /\ PassedBy(cp[f], f, "done") \subseteq Completions
             /\ PassedBy(cp[f], f, "done") \subseteq shipped \cup skipped
  <2> DEFINE g == cp[f].fp.gen
  <2>1. g \in Gens /\ cp[f].offset \in Nat
    <3>1. cp[f] \in FileState
      BY <1>1 DEF TypeOK
    <3>2. g \in 0..MaxGen /\ g # 0 /\ cp[f].offset \in Nat
      BY <1>2, <3>1 DEF FileState
    <3> QED
      BY <3>2, ConstantsAssumption DEF Gens
  <2>2. Sound(f, cp[f])
    BY DEF IInv, Offsets
  <2>3. PICK n \in Nat : n = Len(body[f][g])
    BY <1>1, <2>1, BodyType
  <2>4. cp[f].offset <= n
    BY <1>2, <2>2, <2>3 DEF Sound
  <2>5. 1..cp[f].offset \subseteq 1..Len(body[f][g])
    BY <2>1, <2>3, <2>4
  <2>6. \A i \in 1..cp[f].offset :
            body[f][g][i].kind = "done" => body[f][g][i].id \in Completions
    BY <1>1, <2>1, <2>5, CompletionIsCompleted
  <2> QED
    BY <1>2, <2>2, <2>6 DEF PassedBy, Sound
<1>3. ASSUME NEW f \in Days, present[f]
      PROVE  \A i \in {n \in 1..Len(body[f][gen[f]]) : body[f][gen[f]][n].kind = "done"} :
                 body[f][gen[f]][i].id \in Completions
  <2>1. gen[f] \in Gens
    BY <1>1, <1>3, ConstantsAssumption DEF Named, TypeOK, Gens
  <2> QED
    BY <1>1, <2>1, CompletionIsCompleted
<1> QED
  BY <1>2, <1>3 DEF Passed, Readable

LEMMA MappedStateNext ==
    IInv' => (/\ Passed \subseteq Completions
              /\ Passed \subseteq shipped \cup skipped
              /\ Readable \subseteq Completions)'
  BY MappedState, PTL

LEMMA InitRefines == Init => Delivery!Init
<1> SUFFICES ASSUME Init
             PROVE  Delivery!Init
  OBVIOUS
<1>1. \A f \in Days, g \in Gens : body[f][g] = <<>>
  BY DEF Init
<1>2. Completions = {}
  BY <1>1 DEF Completions, Completed
<1>3. Readable = {}
  BY DEF Init, Readable
<1>4. Passed = {}
  BY DEF Init, Passed, NoState, NoFingerprint
<1> QED
  BY <1>2, <1>3, <1>4 DEF Init, Delivery!Init

\* What the directory maps to when nothing in it changes.
LEMMA SameCompletions == UNCHANGED body => Completions' = Completions
  BY DEF Completions, Completed

LEMMA SameReadable == UNCHANGED <<body, gen, present>> => Readable' = Readable
<1> SUFFICES ASSUME UNCHANGED <<body, gen, present>>
             PROVE  Readable' \subseteq Readable /\ Readable \subseteq Readable'
  OBVIOUS
<1> QED
  BY DEF Readable

\* What can be read is what the files there hold.
DoneIn(e, g) ==
    {body[e][g][i].id : i \in {n \in 1..Len(body[e][g]) : body[e][g][n].kind = "done"}}

LEMMA ReadableHas ==
    \A n : n \in Readable <=> \E e \in Days : present[e] /\ n \in DoneIn(e, gen[e])
<1>1. Readable = UNION {DoneIn(e, gen[e]) : e \in {d \in Days : present[d]}}
  BY DEF Readable, DoneIn
<1> QED
  BY <1>1

LEMMA ReadableHasNext ==
    \A n : n \in Readable' <=> \E e \in Days : present'[e] /\ n \in DoneIn(e, gen[e])'
<1>1. (\A n : n \in Readable <=> \E e \in Days : present[e] /\ n \in DoneIn(e, gen[e]))'
  BY ReadableHas, PTL
<1> QED
  BY <1>1

LEMMA SamePassed == UNCHANGED <<body, cp>> => Passed' = Passed
<1> SUFFICES ASSUME UNCHANGED <<body, cp>>
             PROVE  Passed' \subseteq Passed /\ Passed \subseteq Passed'
  OBVIOUS
<1> QED
  BY DEF Passed, PassedBy

\* Any step of the watcher that leaves the directory alone is a Read.
LEMMA ReadRefines ==
    ASSUME IInv, IInv', UNCHANGED archiveVars,
           shipped \subseteq shipped', skipped \subseteq skipped'
    PROVE  Delivery!Read
<1>1. Completions' = Completions /\ Readable' = Readable
  BY SameCompletions, SameReadable DEF archiveVars
<1>2. Passed' \subseteq Completions' /\ Passed' \subseteq shipped' \cup skipped'
  BY MappedStateNext
<1> DEFINE S == (shipped \cap Completions)'
           D == (skipped \cap Completions)'
<1>3. /\ S \in SUBSET Completions /\ S = (shipped \cap Completions) \cup S
      /\ D \in SUBSET Completions /\ D = (skipped \cap Completions) \cup D
  BY <1>1
<1>4. Passed' \in SUBSET (S \cup D)
  BY <1>2
<1> QED
  BY <1>1, <1>3, <1>4 DEF Delivery!Read

\* Files that come and go while offsets and deliveries stay: a Move, which
\* only an instance that admits them has.
LEMMA MoveRefines ==
    ASSUME IInv', Faults \cap {"move", "putback"} # {}, UNCHANGED <<body, shipped, skipped>>,
           Passed' = Passed
    PROVE  Delivery!Move
<1>1. Completions' = Completions
  BY SameCompletions
<1>2. Readable' \subseteq Completions'
  BY MappedStateNext
<1> QED
  BY <1>1, <1>2 DEF Delivery!Move

\* A tombstone stands where the offset stood.
LEMMA DeletePasses ==
    ASSUME IInv, NEW f \in Days, DeleteFile(f)
    PROVE  Passed' = Passed
<1>1. cp' = [cp EXCEPT ![f].deleted = TRUE] /\ body' = body
  BY DEF DeleteFile
<1>2. \A e \in Days : cp[e] \in FileState
  BY DEF IInv, TypeOK
<1>3. \A e \in Days : cp'[e].fp = cp[e].fp /\ cp'[e].offset = cp[e].offset
  BY <1>1, <1>2 DEF FileState, IInv, TypeOK
<1> QED
  <2> DEFINE D == {e \in Days : cp[e].fp.gen # 0}
             P(e) == PassedBy(cp[e], e, "done")
             Q(e) == {body'[e][cp'[e].fp.gen][i].id :
                         i \in {n \in 1..cp'[e].offset : body'[e][cp'[e].fp.gen][n].kind = "done"}}
  <2>1. Passed' = UNION {Q(e) : e \in {d \in Days : cp'[d].fp.gen # 0}}
    BY DEF Passed, PassedBy
  <2>2. {d \in Days : cp'[d].fp.gen # 0} = D
    BY <1>3
  <2>3. \A e \in D : Q(e) = P(e)
    <3> SUFFICES ASSUME NEW e \in Days
                 PROVE  Q(e) = P(e)
      OBVIOUS
    <3>1. body' = body /\ cp'[e].fp = cp[e].fp /\ cp'[e].offset = cp[e].offset
      BY <1>1, <1>3
    <3> QED
      BY <3>1 DEF PassedBy
  <2>4. Passed = UNION {P(e) : e \in D}
    BY DEF Passed
  <2> HIDE DEF D, P, Q
  <2> QED
    BY <2>1, <2>2, <2>3, <2>4

\* With no hand in the directory but the writer's and reclaim's, only what the
\* reader is past goes.
LEMMA DeleteRefines ==
    ASSUME IInv, IInv', ReclaimInv, NEW f \in Days, DeleteFile(f)
    PROVE  Delivery!Delete
<1>1. /\ present[f] /\ present' = [present EXCEPT ![f] = FALSE]
      /\ UNCHANGED <<body, gen, shipped, skipped>>
  BY DEF DeleteFile, sinkVars
<1>2. Completions' = Completions /\ Passed' = Passed
  BY <1>1, SameCompletions, DeletePasses
<1>3. cp[f].fp.gen = gen[f] /\ 2 * cp[f].offset = Size(f) /\ gen[f] # 0
  <2>1. f \in todo /\ Left(f) /\ Ingested(f) /\ pc = "reclaim"
    BY DEF DeleteFile, IsOldest, ReclaimInv, ToVisit
  <2> QED
    BY <1>1, <2>1 DEF ReclaimInv, Visited, IInv, Named
<1>4. gen[f] \in Gens /\ 2 * Len(body[f][gen[f]]) <= Size(f)
  BY <1>3, SizeIsTwicePlus DEF IInv
<1>5. 1..Len(body[f][gen[f]]) \subseteq 1..cp[f].offset
  <2>1. PICK n \in Nat : n = Len(body[f][gen[f]])
    BY <1>4, BodyType DEF IInv
  <2>2. cp[f].offset \in Nat
    BY DEF IInv, TypeOK, FileState
  <2> QED
    BY <1>3, <1>4, <2>1, <2>2
<1>6. \A i \in {n \in 1..Len(body[f][gen[f]]) : body[f][gen[f]][n].kind = "done"} :
          body[f][gen[f]][i].id \in Passed
  <2>1. \A i \in {n \in 1..Len(body[f][gen[f]]) : body[f][gen[f]][n].kind = "done"} :
            body[f][gen[f]][i].id \in PassedBy(cp[f], f, "done")
    BY <1>3, <1>5 DEF PassedBy
  <2>2. PassedBy(cp[f], f, "done") \subseteq Passed
    <3> HIDE DEF PassedBy
    <3> QED
      BY <1>3 DEF Passed
  <2> QED
    BY <2>1, <2>2
<1>7. \A e \in Days : e # f => present'[e] = present[e]
  BY <1>1 DEF IInv, TypeOK
<1>8. ~present'[f]
  BY <1>1 DEF IInv, TypeOK
<1> DEFINE S == Readable \ Readable'
<1>9. Readable' \subseteq Readable
  BY <1>1, <1>7, <1>8 DEF Readable
<1>10. S \subseteq Passed
  BY <1>1, <1>6, <1>7 DEF Readable
<1>11. Readable' = Readable \ S
  BY <1>9
<1> QED
  BY <1>1, <1>2, <1>10, <1>11 DEF Delivery!Delete

\* What an append does to the three: a completion is one more, anything else
\* goes unnoticed.
NewCompletion(k) == IF k = "done" THEN {nextId} ELSE {}

LEMMA AppendCompletes ==
    ASSUME IInv, NEW f \in Days, NEW r \in Responses, NEW k \in {"input", "done", "bad"},
           AppendMember(f, r, k)
    PROVE  /\ Completions' = Completions \cup NewCompletion(k)
           /\ Readable' = Readable \cup NewCompletion(k)
<1> DEFINE New(e, g) == {body'[e][g][i].id :
                            i \in {n \in 1..Len(body'[e][g]) : body'[e][g][n].kind = "done"}}
           Old(e, g) == {body[e][g][i].id :
                            i \in {n \in 1..Len(body[e][g]) : body[e][g][n].kind = "done"}}
<1>1. TypeOK /\ Named /\ TypeOK'
  <2>1. [Next]_vars
    BY DEF Next, Writer
  <2> QED
    BY <2>1, TypeStep DEF IInv
<1>2. /\ gen[f] \in Gens /\ present[f] /\ UNCHANGED <<gen, present>>
      /\ nextId \in FrameIds
  <2>1. gen[f] \in Gens
    BY <1>1, AppendWrites
  <2>2. present[f] /\ UNCHANGED <<gen, present>> /\ nextId <= MaxFrames
    BY DEF AppendMember
  <2>3. nextId \in FrameIds
    BY <1>1, <2>2, ConstantsAssumption DEF TypeOK, FrameIds
  <2> QED
    BY <2>1, <2>2, <2>3
<1>3. ASSUME NEW e \in Days, NEW g \in Gens
      PROVE  New(e, g) = Old(e, g) \cup (IF e = f /\ g = gen[f] THEN NewCompletion(k) ELSE {})
  <2>1. /\ Len(body[e][g]) \in Nat /\ Len(body'[e][g]) \in Nat
        /\ Len(body[e][g]) <= Len(body'[e][g])
        /\ \A i \in 1..Len(body[e][g]) : body'[e][g][i] = body[e][g][i]
    BY <1>1, BodyType, BodyTypeNext, AppendExtends DEF Extended
  <2>2. Old(e, g) \subseteq New(e, g)
    BY <2>1, SMTT(30)
  <2>3. \A i \in 1..Len(body'[e][g]) :
            \/ i \in 1..Len(body[e][g]) /\ body'[e][g][i] = body[e][g][i]
            \/ body'[e][g][i].kind = "corrupt"
            \/ body'[e][g][i].id = nextId /\ body'[e][g][i].kind = k
    <3> HIDE DEF New, Old
    <3>1. /\ body'[e][g] = body[e][g] \/ (e = f /\ g = gen[f])
          /\ \A i \in 1..Len(body'[f][gen[f]]) :
                \/ i \in 1..Len(body[f][gen[f]]) /\ body'[f][gen[f]][i] = body[f][gen[f]][i]
                \/ body'[f][gen[f]][i].kind = "corrupt"
                \/ body'[f][gen[f]][i].id = nextId /\ body'[f][gen[f]][i].kind = k
      BY <1>1, AppendWrites, SMTT(30)
    <3> QED
      BY <3>1
  <2>4. New(e, g) \subseteq Old(e, g) \cup NewCompletion(k)
    <3> SUFFICES ASSUME NEW i \in 1..Len(body'[e][g]), body'[e][g][i].kind = "done"
                 PROVE  body'[e][g][i].id \in Old(e, g) \cup NewCompletion(k)
      OBVIOUS
    <3>1. CASE i \in 1..Len(body[e][g]) /\ body'[e][g][i] = body[e][g][i]
      BY <3>1
    <3>2. CASE body'[e][g][i].id = nextId /\ body'[e][g][i].kind = k
      BY <3>2 DEF NewCompletion
    <3> QED
      BY <2>3, <3>1, <3>2
  <2>5. CASE e = f /\ g = gen[f]
    <3>1. \E i \in 1..Len(body'[f][gen[f]]) :
              body'[f][gen[f]][i].id = nextId /\ body'[f][gen[f]][i].kind = k
      BY <1>1, AppendWrites
    <3>2. NewCompletion(k) \subseteq New(e, g)
      BY <2>5, <3>1 DEF NewCompletion
    <3> HIDE DEF New, Old
    <3> QED
      BY <2>2, <2>4, <2>5, <3>2
  <2>6. CASE ~(e = f /\ g = gen[f])
    <3>1. body'[e][g] = body[e][g]
      BY <1>1, <2>6, AppendWrites
    <3>2. New(e, g) = Old(e, g)
      BY <3>1
    <3> HIDE DEF New, Old
    <3> QED
      BY <2>6, <3>2
  <2> QED
    BY <2>5, <2>6
<1>4. /\ Completions' = {n \in FrameIds : \E e \in Days, g \in Gens : n \in New(e, g)}
      /\ Completions = {n \in FrameIds : \E e \in Days, g \in Gens : n \in Old(e, g)}
  <2>1. ASSUME NEW n
        PROVE  /\ Completed(n) <=> \E e \in Days, g \in Gens : n \in Old(e, g)
               /\ Completed(n)' <=> \E e \in Days, g \in Gens : n \in New(e, g)
    BY DEF Completed
  <2>2. Completions' = {n \in FrameIds : Completed(n)'}
    BY DEF Completions
  <2> HIDE DEF New, Old
  <2> QED
    BY <2>1, <2>2 DEF Completions
<1>5. ASSUME NEW n
      PROVE  /\ n \in Readable' <=> \E e \in Days : present[e] /\ n \in New(e, gen[e])
             /\ n \in Readable <=> \E e \in Days : present[e] /\ n \in Old(e, gen[e])
  <2>1. \A e \in Days : DoneIn(e, gen[e]) = Old(e, gen[e])
    BY DEF DoneIn
  <2>2. \A e \in Days : DoneIn(e, gen[e])' = New(e, gen[e])
    BY <1>2 DEF DoneIn
  <2>3. present' = present
    BY <1>2
  <2> HIDE DEF New, Old
  <2> QED
    BY <2>1, <2>2, <2>3, ReadableHas, ReadableHasNext
<1>6. \A e \in {d \in Days : present[d]} : gen[e] \in Gens
  <2>1. gen \in [Days -> 0..MaxGen]
    BY <1>1 DEF TypeOK
  <2> QED
    BY <1>1, <2>1, ConstantsAssumption DEF Named, Gens
<1>7. NewCompletion(k) \subseteq FrameIds
  BY <1>2 DEF NewCompletion
<1> HIDE DEF New, Old, NewCompletion
<1>8. Completions' = Completions \cup NewCompletion(k)
  <2>1. \A e \in Days, g \in Gens : \A n :
            n \in New(e, g) <=> n \in Old(e, g) \/ (e = f /\ g = gen[f] /\ n \in NewCompletion(k))
    BY <1>3
  <2>2. \A n : n \in Completions' <=> n \in Completions \/ n \in NewCompletion(k)
    BY <1>2, <1>4, <1>7, <2>1
  <2> QED
    BY <2>2
<1>9. \A e \in {d \in Days : present[d]} : \A n :
          n \in New(e, gen[e]) <=> n \in Old(e, gen[e]) \/ (e = f /\ n \in NewCompletion(k))
  BY <1>3, <1>6
<1>10. Readable' = Readable \cup NewCompletion(k)
  <2>1. \A n : n \in Readable' <=> n \in Readable \/ n \in NewCompletion(k)
    BY <1>2, <1>5, <1>9
  <2> QED
    BY <2>1
<1> QED
  BY <1>8, <1>10

LEMMA AppendPasses ==
    ASSUME IInv, NEW f \in Days, NEW r \in Responses, NEW k \in {"input", "done", "bad"},
           AppendMember(f, r, k)
    PROVE  Passed' = Passed
<1>1. cp' = cp /\ TypeOK /\ Named
  BY DEF AppendMember, IInv
<1>2. ASSUME NEW e \in Days, cp[e].fp.gen # 0
      PROVE  PassedBy(cp[e], e, "done")' = PassedBy(cp[e], e, "done")
  <2>1. cp[e] \in FileState
    BY <1>1 DEF TypeOK
  <2>2. cp[e].fp.gen \in Gens /\ cp[e].offset \in Nat
    BY <1>2, <2>1, ConstantsAssumption DEF FileState, Gens
  <2>3. PICK n \in Nat : n = Len(body[e][cp[e].fp.gen])
    BY <1>1, <2>2, BodyType
  <2>4. cp[e].offset <= n
    BY <1>2, <2>3 DEF IInv, Offsets, Sound
  <2>5. \A i \in 1..cp[e].offset : body'[e][cp[e].fp.gen][i] = body[e][cp[e].fp.gen][i]
    BY <1>1, <2>2, <2>3, <2>4, AppendExtends, SMTT(30) DEF Extended
  <2> QED
    BY <1>1, <2>5 DEF PassedBy
<1>3. Passed' = UNION {PassedBy(cp[e], e, "done")' : e \in {d \in Days : cp[d].fp.gen # 0}}
  BY <1>1 DEF Passed, PassedBy
<1> HIDE DEF PassedBy
<1> QED
  BY <1>2, <1>3 DEF Passed

LEMMA AppendRefines ==
    ASSUME IInv, FreshInv, NEW f \in Days, NEW r \in Responses,
           NEW k \in {"input", "done", "bad"}, AppendMember(f, r, k)
    PROVE  [Delivery!Next]_Delivery!vars
<1>1. /\ Completions' = Completions \cup NewCompletion(k)
      /\ Readable' = Readable \cup NewCompletion(k)
      /\ Passed' = Passed
  BY AppendCompletes, AppendPasses
<1>2. UNCHANGED <<shipped, skipped>> /\ nextId \in FrameIds
  BY ConstantsAssumption DEF AppendMember, sinkVars, IInv, TypeOK, FrameIds
<1>3. nextId \notin shipped \cup skipped
  BY <1>2 DEF FreshInv, NothingAhead, FrameIds
<1>4. nextId \notin Completions
  <2>1. \A e \in Days, g \in Gens : \A i \in 1..Len(body[e][g]) : body[e][g][i].id # nextId
    BY <1>2 DEF FreshInv, Numbered, FrameIds
  <2> QED
    BY <2>1 DEF Completions, Completed
<1>5. /\ (shipped \cap Completions)' = shipped \cap Completions
      /\ (skipped \cap Completions)' = skipped \cap Completions
  BY <1>1, <1>2, <1>3 DEF NewCompletion
<1>6. CASE k = "done"
  <2>1. NewCompletion(k) = {nextId}
    BY <1>6 DEF NewCompletion
  <2>2. Delivery!Append
    BY <1>1, <1>2, <1>4, <1>5, <2>1 DEF Delivery!Append
  <2> QED
    BY <2>2 DEF Delivery!Next
<1>7. CASE k # "done"
  <2>1. Completions' = Completions /\ Readable' = Readable
    BY <1>1, <1>7 DEF NewCompletion
  <2> QED
    BY <1>1, <1>5, <2>1 DEF Delivery!vars
<1> QED
  BY <1>6, <1>7

\* Without files put back, what reclaim relies on holds too.
RefinementInv == IInv /\ FreshInv /\ ("putback" \notin Faults => ReclaimInv)

LEMMA RefinementInvStep == RefinementInv /\ [Next]_vars => RefinementInv'
<1> SUFFICES ASSUME RefinementInv, [Next]_vars
             PROVE  RefinementInv'
  OBVIOUS
<1>1. IInv' /\ FreshInv'
  BY IInvStep, FreshInvStep DEF RefinementInv
<1>2. "putback" \notin Faults => ReclaimInv'
  BY ReclaimInvStep DEF RefinementInv
<1> QED
  BY <1>1, <1>2 DEF RefinementInv

LEMMA StepRefines == RefinementInv /\ [Next]_vars => [Delivery!Next]_Delivery!vars
<1> SUFFICES ASSUME RefinementInv, [Next]_vars
             PROVE  [Delivery!Next]_Delivery!vars
  OBVIOUS
<1>1. IInv /\ FreshInv /\ IInv'
  BY RefinementInvStep DEF RefinementInv
<1>2. ASSUME NEW f \in Days, NEW r \in Responses, NEW k \in {"input", "done", "bad"},
             AppendMember(f, r, k)
      PROVE  [Delivery!Next]_Delivery!vars
  BY <1>1, <1>2, AppendRefines
<1>3. ASSUME NEW f \in Days, CreateFile(f)
      PROVE  UNCHANGED Delivery!vars
  <2>1. /\ UNCHANGED <<body, cp, shipped, skipped>>
        /\ present' = [present EXCEPT ![f] = TRUE] /\ ~present[f]
        /\ gen' = [gen EXCEPT ![f] = @ + 1] /\ gen[f] < MaxGen
    BY <1>3 DEF CreateFile, sinkVars
  <2>2. Completions' = Completions /\ Passed' = Passed
    BY <2>1, SameCompletions, SamePassed
  <2>3. gen[f] + 1 \in Gens /\ gen[f] + 1 > gen[f]
    <3>1. gen[f] \in 0..MaxGen
      BY <1>1 DEF IInv, TypeOK
    <3> QED
      BY <2>1, <3>1, ConstantsAssumption DEF Gens
  <2>4. body[f][gen[f] + 1] = <<>>
    BY <1>1, <2>3 DEF FreshInv, Unborn
  <2>5. Readable' = Readable
    <3>1. /\ present'[f] /\ gen'[f] = gen[f] + 1
          /\ \A e \in Days : e # f => present'[e] = present[e] /\ gen'[e] = gen[e]
      BY <1>1, <2>1 DEF IInv, TypeOK
    <3>2. ASSUME NEW n
          PROVE  n \in Readable' <=> n \in Readable
      <4>1. \A e \in Days : DoneIn(e, gen[e])' = DoneIn(e, gen'[e])
        BY <2>1 DEF DoneIn
      <4>2. DoneIn(f, gen'[f]) = {}
        BY <2>4, <3>1 DEF DoneIn
      <4> QED
        BY <2>1, <3>1, <4>1, <4>2, ReadableHas, ReadableHasNext
    <3> QED
      BY <3>2
  <2> QED
    BY <2>1, <2>2, <2>5 DEF Delivery!vars
<1>4. ASSUME NEW f \in Days, BeginMember(f) \/ WriterDies(f)
      PROVE  UNCHANGED Delivery!vars
  <2>1. UNCHANGED <<present, gen, body, cp, shipped, skipped>>
    BY <1>4 DEF BeginMember, WriterDies, sinkVars
  <2> QED
    BY <2>1, SameCompletions, SameReadable, SamePassed DEF Delivery!vars
<1>5. CASE NextDay
  <2>1. UNCHANGED <<present, gen, body, cp, shipped, skipped>>
    BY <1>5 DEF NextDay, sinkVars
  <2> QED
    BY <2>1, SameCompletions, SameReadable, SamePassed DEF Delivery!vars
<1>6. ASSUME NEW f \in Days, MoveAway(f) \/ PutBack(f)
      PROVE  Delivery!Move
  <2>1. UNCHANGED <<body, cp, shipped, skipped>> /\ Faults \cap {"move", "putback"} # {}
    BY <1>6 DEF MoveAway, PutBack, sinkVars
  <2> QED
    BY <1>1, <2>1, SamePassed, MoveRefines
<1>7. ASSUME NEW f \in Days, DeleteFile(f)
      PROVE  Delivery!Delete \/ Delivery!Move
  <2>1. CASE "putback" \in Faults
    <3>1. UNCHANGED <<body, shipped, skipped>>
      BY <1>7 DEF DeleteFile, sinkVars
    <3> QED
      BY <1>1, <1>7, <2>1, <3>1, DeletePasses, MoveRefines
  <2>2. CASE "putback" \notin Faults
    BY <1>1, <1>7, <2>2, DeleteRefines DEF RefinementInv
  <2> QED
    BY <2>1, <2>2
<1>8. CASE UNCHANGED archiveVars
  BY <1>1, <1>8, OnlyAdds, ReadRefines DEF Delivery!Next
<1>9. \/ UNCHANGED archiveVars \/ NextDay
      \/ \E f \in Days : \/ CreateFile(f) \/ BeginMember(f) \/ WriterDies(f)
                         \/ MoveAway(f) \/ PutBack(f) \/ DeleteFile(f)
      \/ \E f \in Days, r \in Responses, k \in {"input", "done", "bad"} :
             AppendMember(f, r, k)
  BY DEF Next, Writer, Watch, ReadFile, Reclaim, Deliver, ShipChunk, Failure, vars, Scan,
     Abandon, EvictOpen, Checkpoint, EndPoll, SkipFile, NothingNew, OpenFile, ReadChunk,
     FinishFile, KeepFile, Shutdown, LastSave, Start, Die, Crash, Stop, EmitAccepted,
     EmitStaleAccepted, FlushAccepted, EmitRefused, EmitStaleRefused, FlushRefused,
     CheckpointFails
<1> QED
  BY <1>2, <1>3, <1>4, <1>5, <1>6, <1>7, <1>8, <1>9 DEF Delivery!Next

-----------------------------------------------------------------------------
(* A file that is appended to, where what it begins with fills the hashed  *)
(* head: its fingerprint stays what it was.                                *)

\* What a file begins with fills the hashed head.
HeadFills == HeadBytes = 1 \/ (HeadBytes = 2 /\ "partial" \notin Faults)

AllClean == "partial" \notin Faults => \A f \in Days, g \in Gens : tail[f][g] = "clean"

FullHead(s) == s.fp = NoFingerprint \/ s.fp.len = HeadBytes

HeadInv ==
    /\ AllClean
    /\ FullHead(st)
    /\ \A f \in Days : FullHead(cp[f]) /\ FullHead(disk[f])

LEMMA AllCleanStep == IInv /\ AllClean /\ [Next]_vars => AllClean'
<1> SUFFICES ASSUME IInv, AllClean, [Next]_vars, "partial" \notin Faults
             PROVE  \A f \in Days, g \in Gens : tail'[f][g] = "clean"
  BY DEF AllClean
<1>1. \A f \in Days, g \in Gens : tail[f][g] = "clean"
  BY DEF AllClean
<1>2. ASSUME NEW f \in Days, NEW r \in Responses, NEW k \in {"input", "done", "bad"},
             AppendMember(f, r, k)
      PROVE  \A e \in Days, g \in Gens : tail'[e][g] = "clean"
  BY <1>1, <1>2 DEF AppendMember, IInv, TypeOK
<1>3. ASSUME NEW f \in Days, WriterDies(f)
      PROVE  FALSE
  <2>1. gen[f] \in 0..MaxGen /\ gen[f] # 0
    BY <1>3 DEF WriterDies, IInv, Named, TypeOK
  <2>2. gen[f] \in Gens
    BY <2>1, ConstantsAssumption DEF Gens
  <2> QED
    BY <1>1, <1>3, <2>2 DEF WriterDies
<1>4. \/ tail' = tail
      \/ \E f \in Days : WriterDies(f)
      \/ \E f \in Days, r \in Responses, k \in {"input", "done", "bad"} :
             AppendMember(f, r, k)
  BY DEF Next, Writer, NextDay, Watch, ReadFile, Reclaim, Deliver, ShipChunk, Failure, vars,
     CreateFile, BeginMember, MoveAway, PutBack, Scan, Abandon, EvictOpen, Checkpoint,
     EndPoll, SkipFile, NothingNew, OpenFile, ReadChunk, FinishFile, KeepFile, DeleteFile,
     Shutdown, LastSave, Start, Die, Crash, Stop, EmitAccepted, EmitStaleAccepted,
     FlushAccepted, EmitRefused, EmitStaleRefused, FlushRefused, CheckpointFails,
     archiveVars
<1> QED
  BY <1>1, <1>2, <1>3, <1>4

LEMMA FingerprintIsFull ==
    ASSUME IInv, AllClean, HeadFills, NEW f \in Days, present[f]
    PROVE  Fingerprint(f) = NoFingerprint \/ Fingerprint(f) = [gen |-> gen[f], len |-> HeadBytes]
<1>1. gen[f] # 0 /\ Size(f) \in Nat
  BY ResumeType DEF IInv, Named
<1>2. gen[f] \in Gens
  BY <1>1, SizeIsTwicePlus DEF IInv
<1>3. Size(f) # 0 => Size(f) >= HeadBytes
  <2>1. CASE HeadBytes = 1
    BY <1>1, <2>1
  <2>2. CASE HeadBytes = 2 /\ "partial" \notin Faults
    <3>1. tail[f][gen[f]] = "clean"
      BY <1>2, <2>2 DEF AllClean
    <3>2. PICK n \in Nat : n = Len(body[f][gen[f]])
      BY <1>2, BodyType DEF IInv
    <3>3. Size(f) = 2 * n
      BY <3>1, <3>2 DEF Size, Bytes
    <3> QED
      BY <2>2, <3>2, <3>3
  <2> QED
    BY <2>1, <2>2 DEF HeadFills
<1> QED
  BY <1>1, <1>3, ConstantsAssumption DEF Fingerprint

LEMMA ResumeHead ==
    ASSUME IInv, AllClean, HeadFills, NEW f \in Days, present[f]
    PROVE  FullHead(Resume(f))
<1>1. cp[f] \in FileState
  BY DEF IInv, TypeOK
<1>2. Resume(f).fp = Fingerprint(f)
  BY <1>1 DEF Resume, NoState, FileState
<1> QED
  BY <1>2, FingerprintIsFull DEF FullHead

LEMMA HeadInvStep == IInv /\ HeadInv /\ HeadFills /\ [Next]_vars => HeadInv'
<1> SUFFICES ASSUME IInv, HeadInv, HeadFills, [Next]_vars
             PROVE  HeadInv'
  OBVIOUS
<1>1. AllClean /\ AllClean'
  BY AllCleanStep DEF HeadInv
<1>2. /\ cp \in [Days -> FileState] /\ st \in FileState
      /\ FullHead(st) /\ \A f \in Days : FullHead(cp[f]) /\ FullHead(disk[f])
  BY DEF IInv, TypeOK, HeadInv
<1>3. FullHead(NoState)
  BY DEF FullHead, NoState
<1>4. FullHead(st)'
  <2>1. ASSUME NEW f \in Days, OpenFile(f)
        PROVE  st' = Resume(f) /\ present[f]
    BY <2>1 DEF OpenFile
  <2>2. ASSUME NEW f \in Days, NEW hi \in Positions, ReadChunk(f, hi)
        PROVE  st'.fp = st.fp
    BY <1>2, <2>2 DEF ReadChunk, AdvanceTo, FileState
  <2>3. ASSUME NEW f \in Days, EmitAccepted(f)
        PROVE  st'.fp = st.fp
    BY <1>2, <2>3 DEF EmitAccepted, AdvanceTo, FileState
  <2>4. \/ st' \in {st, NoState}
        \/ \E f \in Days : OpenFile(f) \/ EmitAccepted(f)
        \/ \E f \in Days, hi \in Positions : ReadChunk(f, hi)
    BY DEF Next, Writer, NextDay, Watch, ReadFile, Reclaim, Deliver, ShipChunk, Failure,
       vars, CreateFile, AppendMember, BeginMember, WriterDies, MoveAway, PutBack, Scan,
       Abandon, LeavePoll, EvictOpen, Checkpoint, EndPoll, SkipFile, NothingNew, FinishFile,
       KeepFile, DeleteFile, Shutdown, LastSave, Start, Die, Crash, Stop,
       EmitStaleAccepted, FlushAccepted, EmitRefused, EmitStaleRefused, FlushRefused,
       CheckpointFails, readVars
  <2> QED
    BY <1>1, <1>2, <1>3, <2>1, <2>2, <2>3, <2>4, ResumeHead DEF FullHead
<1>5. CASE \A f \in Days : Copied(f)
  <2>1. \A f \in Days : FullHead(cp'[f]) /\ FullHead(disk'[f])
    BY <1>2, <1>3, <1>5 DEF Copied
  <2> QED
    BY <1>1, <1>4, <2>1 DEF HeadInv, FullHead
<1>6. ASSUME NEW f \in Days, Moved(f)
      PROVE  HeadInv'
  <2>1. FullHead(cp'[f]) /\ \A e \in Days : e # f => cp'[e] = cp[e]
    <3>1. ASSUME NEW hi \in Positions, ReadChunk(f, hi), pc' = "chunk"
          PROVE  cp' = [cp EXCEPT ![f] = st']
      BY <3>1 DEF ReadChunk, AdvanceTo
    <3>2. EmitAccepted(f) => cp' = [cp EXCEPT ![f] = st']
      BY DEF EmitAccepted, AdvanceTo
    <3>3. FinishFile(f) => cp' = [cp EXCEPT ![f] = [st EXCEPT !.size = statSize]]
      BY DEF FinishFile
    <3>4. NothingNew(f) => cp' = [cp EXCEPT ![f] = Resume(f)] /\ present[f]
      BY DEF NothingNew
    <3>5. DeleteFile(f) => cp' = [cp EXCEPT ![f].deleted = TRUE]
      BY DEF DeleteFile
    <3>6. cp' = [cp EXCEPT ![f] = st'] => FullHead(cp'[f]) /\ \A e \in Days : e # f => cp'[e] = cp[e]
      BY <1>2, <1>4 DEF FullHead
    <3>7. CASE FinishFile(f)
      <4>1. cp'[f].fp = st.fp
        BY <1>2, <3>3, <3>7 DEF FileState
      <4> QED
        BY <1>2, <3>3, <3>7, <4>1 DEF FullHead
    <3>8. CASE NothingNew(f)
      BY <1>1, <1>2, <3>4, <3>8, ResumeHead
    <3>9. CASE DeleteFile(f)
      <4>1. cp[f] \in FileState
        BY <1>2
      <4>2. cp'[f].fp = cp[f].fp
        BY <1>2, <3>5, <3>9, <4>1 DEF FileState
      <4> QED
        BY <1>2, <3>5, <3>9, <4>2 DEF FullHead
    <3> QED
      BY <1>6, <3>1, <3>2, <3>6, <3>7, <3>8, <3>9 DEF Moved
  <2>2. disk' = disk
    BY <1>6 DEF Moved, ReadChunk, EmitAccepted, FinishFile, NothingNew, DeleteFile
  <2>3. \A e \in Days : FullHead(cp'[e]) /\ FullHead(disk'[e])
    BY <1>2, <2>1, <2>2
  <2> QED
    BY <1>1, <1>4, <2>3 DEF HeadInv, FullHead
<1> QED
  BY <1>5, <1>6, MovedOrCopied

\* While the head is what it was when it was hashed, and full, an append is no
\* replacement.
LEMMA HeadTells == HeadFills /\ IInv /\ HeadInv => AppendIsNotReplacement
<1> SUFFICES ASSUME HeadFills, IInv, HeadInv, NEW f \in Days, present[f], cp[f].fp.gen = gen[f]
             PROVE  ~Replaced(f)
  BY DEF AppendIsNotReplacement
<1>1. gen[f] # 0
  BY DEF IInv, Named
<1>2. Size(f) \in Nat /\ gen[f] \in Gens /\ 2 * Len(body[f][gen[f]]) <= Size(f)
  BY <1>1, SizeIsTwicePlus DEF IInv
<1>3. cp[f] \in FileState /\ Sound(f, cp[f])
  BY DEF IInv, TypeOK, Offsets
<1>4. ~(Size(f) < 2 * cp[f].offset)
  <2>1. PICK n \in Nat : n = Len(body[f][gen[f]])
    BY <1>2, BodyType DEF IInv
  <2>2. cp[f].offset <= n /\ cp[f].offset \in Nat
    BY <1>1, <1>3, <2>1 DEF Sound, FileState
  <2> QED
    BY <1>2, <2>1, <2>2
<1>5. cp[f].fp # NoFingerprint => cp[f].fp = [gen |-> gen[f], len |-> HeadBytes]
  <2>1. cp[f].fp \in [gen : 0..MaxGen, len : Nat]
    BY <1>3 DEF FileState
  <2>2. FullHead(cp[f])
    BY DEF HeadInv
  <2> QED
    BY <2>1, <2>2 DEF FullHead
<1>6. Fingerprint(f) = NoFingerprint \/ Fingerprint(f) = [gen |-> gen[f], len |-> HeadBytes]
  BY FingerprintIsFull DEF HeadInv
<1> QED
  BY <1>4, <1>5, <1>6 DEF Replaced

-----------------------------------------------------------------------------
(* What is read again.  A head that was full when it was hashed stays what *)
(* it was, since files only grow, so the offset read to behind it is       *)
(* resumed; only a file whose head was short can look replaced.            *)

\* A fingerprint is of bytes that are there.
KnownHead(f, s) ==
    s.fp.len # 0 =>
        s.fp.gen \in Gens /\ s.fp.len <= HeadBytes /\ s.fp.len <= Bytes(f, s.fp.gen)

\* The same of the next state's files, for a position of any state.
KnownHeadNext(f, s) ==
    s.fp.len # 0 =>
        /\ s.fp.gen \in Gens /\ s.fp.len <= HeadBytes
        /\ s.fp.len <= 2 * Len(body'[f][s.fp.gen])
                         + (IF tail'[f][s.fp.gen] = "clean" THEN 0 ELSE 1)

\* A position does not stand behind another of the same full head.
NotBehind(s, t) == s.fp.gen = t.fp.gen /\ t.fp.len >= HeadBytes => s.offset >= t.offset

HeadsKnown == \A f \in Days : KnownHead(f, cp[f]) /\ KnownHead(f, disk[f])

ReadingOn ==
    pc \in {"chunk", "emit"} =>
        \A f \in Days : IsOldest(f, todo) => KnownHead(f, st) /\ NotBehind(st, cp[f])

RereadInv == HeadsKnown /\ ReadingOn

LEMMA BytesGrow ==
    ASSUME IInv, [Next]_vars, TypeOK', NEW f \in Days, NEW g \in Gens
    PROVE  Bytes(f, g) \in Nat /\ Bytes(f, g)' \in Nat /\ Bytes(f, g) <= Bytes(f, g)'
<1>1. PICK n \in Nat : n = Len(body[f][g])
  BY BodyType DEF IInv
<1>2. PICK m \in Nat : m = Len(body'[f][g])
  BY BodyTypeNext
<1>3. n <= m
  BY <1>1, <1>2, OnlyAdds DEF Extended
<1> DEFINE z == IF tail[f][g] = "clean" THEN 0 ELSE 1
           y == IF tail'[f][g] = "clean" THEN 0 ELSE 1
<1>4. Bytes(f, g) = 2 * n + z /\ Bytes(f, g)' = 2 * m + y
  BY <1>1, <1>2 DEF Bytes
<1>5. n < m \/ z <= y
  <2>1. ASSUME NEW e \in Days, NEW r \in Responses, NEW k \in {"input", "done", "bad"},
               AppendMember(e, r, k)
        PROVE  n < m \/ z <= y
    <3>1. CASE e = f /\ gen[e] = g
      <4> DEFINE rec  == [id |-> nextId, resp |-> r, kind |-> k]
                 torn == [id |-> 0, resp |-> r, kind |-> "corrupt"]
                 more == IF tail[f][g] = "abandoned" THEN <<torn, rec>> ELSE <<rec>>
      <4>1. body' = [body EXCEPT ![f][g] = @ \o more]
        BY <2>1, <3>1 DEF AppendMember
      <4>2. rec \in Member /\ torn \in Member
        BY <2>1, ConstantsAssumption
        DEF AppendMember, IInv, TypeOK, Member, Record, Torn, FrameIds
      <4>3. more \in Seq(Member) /\ Len(more) \in Nat /\ Len(more) >= 1
        <5> HIDE DEF Member, rec, torn
        <5>1. more \in Seq(Member) /\ Len(more) \in {1, 2}
          BY <4>2
        <5> QED
          BY <5>1
      <4>4. body[f][g] \in Seq(Member)
        BY BodyType DEF IInv
      <4> HIDE DEF more, Member
      <4>5. body'[f][g] = body[f][g] \o more
        BY <4>1 DEF IInv, TypeOK
      <4>6. m = n + Len(more)
        BY <1>1, <1>2, <4>3, <4>4, <4>5, ConcatProperties
      <4> QED
        BY <4>3, <4>6
    <3>2. CASE ~(e = f /\ gen[e] = g)
      <4>1. tail'[f][g] = tail[f][g]
        BY <2>1, <3>2 DEF AppendMember, IInv, TypeOK
      <4> QED
        BY <4>1
    <3> QED
      BY <3>1, <3>2
  <2>2. ASSUME NEW e \in Days, BeginMember(e) \/ WriterDies(e)
        PROVE  z <= y
    <3>1. tail' \in {[tail EXCEPT ![e][gen[e]] = "partial"],
                     [tail EXCEPT ![e][gen[e]] = "abandoned"]}
      BY <2>2 DEF BeginMember, WriterDies
    <3>2. tail \in [Days -> [Gens -> {"clean", "partial", "abandoned"}]]
      BY DEF IInv, TypeOK
    <3>3. tail'[f][g] \in {tail[f][g], "partial", "abandoned"}
      <4>1. CASE f = e /\ g = gen[e]
        BY <3>1, <3>2, <4>1
      <4>2. CASE ~(f = e /\ g = gen[e])
        BY <3>1, <3>2, <4>2
      <4> QED
        BY <4>1, <4>2
    <3> QED
      BY <3>3
  <2>3. \/ tail' = tail
        \/ \E e \in Days : BeginMember(e) \/ WriterDies(e)
        \/ \E e \in Days, r \in Responses, k \in {"input", "done", "bad"} :
               AppendMember(e, r, k)
    BY DEF Next, Writer, NextDay, Watch, ReadFile, Reclaim, Deliver, ShipChunk, Failure, vars,
       CreateFile, MoveAway, PutBack, Scan, Abandon, EvictOpen, Checkpoint, EndPoll, SkipFile,
       NothingNew, OpenFile, ReadChunk, FinishFile, KeepFile, DeleteFile, Shutdown, LastSave,
       Start, Die, Crash, Stop, EmitAccepted, EmitStaleAccepted, FlushAccepted, EmitRefused,
       EmitStaleRefused, FlushRefused, CheckpointFails, archiveVars
  <2> QED
    BY <2>1, <2>2, <2>3
<1> QED
  BY <1>3, <1>4, <1>5

LEMMA KnownStays ==
    ASSUME IInv, [Next]_vars, TypeOK', NEW f \in Days, NEW s \in FileState, KnownHead(f, s)
    PROVE  KnownHeadNext(f, s)
<1> SUFFICES ASSUME s.fp.len # 0
             PROVE  KnownHeadNext(f, s)
  BY DEF KnownHeadNext
<1>1. s.fp.gen \in Gens /\ s.fp.len <= HeadBytes /\ s.fp.len <= Bytes(f, s.fp.gen)
  BY DEF KnownHead
<1>2. s.fp.len \in Nat
  BY DEF FileState
<1>3. PICK g \in Gens : g = s.fp.gen
  BY <1>1
<1>4. Bytes(f, g) \in Nat /\ Bytes(f, g)' \in Nat /\ Bytes(f, g) <= Bytes(f, g)'
  BY BytesGrow
<1>5. s.fp.len <= Bytes(f, g)'
  BY <1>1, <1>2, <1>3, <1>4
<1> QED
  BY <1>1, <1>3, <1>5 DEF KnownHeadNext, Bytes

\* A file whose head was full is resumed where it was left.
LEMMA ResumeKnows ==
    ASSUME IInv, NEW f \in Days, present[f], KnownHead(f, cp[f])
    PROVE  KnownHead(f, Resume(f)) /\ NotBehind(Resume(f), cp[f])
<1> DEFINE r == Resume(f)
<1>1. gen[f] \in Gens /\ Size(f) \in Nat /\ 2 * Len(body[f][gen[f]]) <= Size(f)
  BY SizeIsTwicePlus DEF IInv, Named
<1>2. cp[f] \in FileState /\ Sound(f, cp[f])
  BY DEF IInv, TypeOK, Offsets
<1>3. r.fp = Fingerprint(f) /\ r.offset = IF Replaced(f) THEN 0 ELSE cp[f].offset
  BY <1>2 DEF Resume, NoState, FileState
<1>4. HeadBytes \in Nat \ {0}
  BY ConstantsAssumption
<1>5. KnownHead(f, r)
  <2>1. CASE Size(f) = 0
    BY <1>3, <2>1 DEF Fingerprint, NoFingerprint, KnownHead
  <2>2. CASE Size(f) # 0
    <3>1. /\ Fingerprint(f).gen = gen[f]
          /\ Fingerprint(f).len = IF Size(f) < HeadBytes THEN Size(f) ELSE HeadBytes
      BY <2>2 DEF Fingerprint
    <3>2. Fingerprint(f).len <= HeadBytes /\ Fingerprint(f).len <= Size(f)
      BY <1>1, <1>4, <3>1
    <3> QED
      BY <1>1, <1>3, <3>1, <3>2 DEF KnownHead, Size
  <2> QED
    BY <2>1, <2>2
<1>6. ASSUME r.fp.gen = cp[f].fp.gen, cp[f].fp.len >= HeadBytes
      PROVE  ~Replaced(f)
  <2>1. cp[f].fp \in [gen : 0..MaxGen, len : Nat] /\ cp[f].offset \in Nat
    BY <1>2 DEF FileState
  <2>2. /\ cp[f].fp.len = HeadBytes /\ cp[f].fp.gen \in Gens
        /\ HeadBytes <= Bytes(f, cp[f].fp.gen)
    BY <1>4, <1>6, <2>1 DEF KnownHead
  <2>3. Size(f) # 0 /\ cp[f].fp.gen = gen[f]
    <3>1. cp[f].fp.gen # 0
      BY <2>2, ConstantsAssumption DEF Gens
    <3> QED
      BY <1>3, <1>6, <3>1 DEF Fingerprint, NoFingerprint
  <2>4. ~(Size(f) < HeadBytes)
    BY <1>1, <1>4, <2>2, <2>3 DEF Size
  <2>5. Fingerprint(f) = [gen |-> gen[f], len |-> HeadBytes]
    BY <2>3, <2>4 DEF Fingerprint
  <2>6. cp[f].fp = Fingerprint(f)
    BY <2>1, <2>2, <2>3, <2>5
  <2>7. ~(Size(f) < 2 * cp[f].offset)
    <3>1. PICK n \in Nat : n = Len(body[f][gen[f]])
      BY <1>1, BodyType DEF IInv
    <3>2. gen[f] # 0
      BY <1>1, ConstantsAssumption DEF Gens
    <3>3. cp[f].offset <= n
      BY <1>2, <2>3, <3>1, <3>2 DEF Sound
    <3> QED
      BY <1>1, <2>1, <3>1, <3>3
  <2> QED
    BY <2>6, <2>7 DEF Replaced
<1>7. cp[f].offset \in Nat
  BY <1>2 DEF FileState
<1> QED
  BY <1>3, <1>5, <1>6, <1>7 DEF NotBehind

\* What a step that sets a position of a file sets it to.
LEMMA MovedKnows ==
    ASSUME IInv, RereadInv, [Next]_vars, TypeOK', NEW f \in Days, Moved(f)
    PROVE  /\ KnownHeadNext(f, cp'[f]) /\ NotBehind(cp'[f], cp[f])
           /\ cp' = [cp EXCEPT ![f] = cp'[f]] /\ disk' = disk
<1>1. cp \in [Days -> FileState] /\ st \in FileState /\ statSize \in Nat /\ upto \in Nat
  BY DEF IInv, TypeOK
<1>2. KnownHead(f, cp[f])
  BY DEF RereadInv, HeadsKnown
<1>3. disk' = disk
  BY DEF Moved, ReadChunk, EmitAccepted, FinishFile, NothingNew, DeleteFile
<1>4. pc \in {"chunk", "emit"} /\ IsOldest(f, todo) =>
          KnownHeadNext(f, st) /\ NotBehind(st, cp[f])
  BY <1>1, KnownStays DEF RereadInv, ReadingOn
<1>5. ASSUME NEW hi \in Nat, pc \in {"chunk", "emit"}, IsOldest(f, todo), st.offset <= hi,
             AdvanceTo(f, hi)
      PROVE  /\ KnownHeadNext(f, cp'[f]) /\ NotBehind(cp'[f], cp[f])
             /\ cp' = [cp EXCEPT ![f] = cp'[f]]
  <2>1. cp'[f] = [st EXCEPT !.offset = hi] /\ cp' = [cp EXCEPT ![f] = cp'[f]]
    BY <1>1, <1>5 DEF AdvanceTo
  <2>2. cp'[f].fp = st.fp /\ cp'[f].offset = hi
    BY <1>1, <2>1 DEF FileState
  <2>3. st.offset \in Nat /\ cp[f].offset \in Nat
    BY <1>1 DEF FileState
  <2>4. KnownHeadNext(f, cp'[f])
    BY <1>4, <1>5, <2>2 DEF KnownHeadNext
  <2>5. NotBehind(cp'[f], cp[f])
    BY <1>4, <1>5, <2>2, <2>3 DEF NotBehind
  <2> QED
    BY <2>1, <2>4, <2>5
<1>6. ASSUME NEW hi \in Positions, ReadChunk(f, hi), pc' = "chunk"
      PROVE  /\ KnownHeadNext(f, cp'[f]) /\ NotBehind(cp'[f], cp[f])
             /\ cp' = [cp EXCEPT ![f] = cp'[f]]
  <2>1. AdvanceTo(f, hi) /\ pc = "chunk" /\ IsOldest(f, todo) /\ st.offset < hi
    BY <1>6 DEF ReadChunk
  <2>2. hi \in Nat /\ st.offset \in Nat
    BY <1>1 DEF Positions, FileState
  <2> QED
    BY <1>5, <2>1, <2>2
<1>7. CASE EmitAccepted(f)
  <2>1. AdvanceTo(f, upto) /\ pc = "emit" /\ IsOldest(f, todo)
    BY <1>7 DEF EmitAccepted
  <2>2. st.offset < upto /\ st.offset \in Nat
    BY <1>1, <2>1 DEF IInv, InBatch, FileState
  <2> QED
    BY <1>1, <1>3, <1>5, <2>1, <2>2
<1>8. CASE FinishFile(f)
  <2>1. /\ pc = "chunk" /\ IsOldest(f, todo)
        /\ cp' = [cp EXCEPT ![f] = [st EXCEPT !.size = statSize]]
    BY <1>8 DEF FinishFile
  <2>2. cp'[f].fp = st.fp /\ cp'[f].offset = st.offset /\ cp' = [cp EXCEPT ![f] = cp'[f]]
    BY <1>1, <2>1 DEF FileState
  <2> QED
    BY <1>3, <1>4, <2>1, <2>2 DEF KnownHeadNext, NotBehind
<1>9. CASE NothingNew(f)
  <2>1. present[f] /\ cp'[f] = Resume(f) /\ cp' = [cp EXCEPT ![f] = cp'[f]]
    BY <1>1, <1>9 DEF NothingNew
  <2>2. KnownHead(f, Resume(f)) /\ NotBehind(Resume(f), cp[f]) /\ Resume(f) \in FileState
    BY <1>2, <2>1, ResumeKnows, ResumeType DEF IInv
  <2> QED
    BY <1>3, <2>1, <2>2, KnownStays
<1>10. CASE DeleteFile(f)
  <2>1. cp' = [cp EXCEPT ![f].deleted = TRUE]
    BY <1>10 DEF DeleteFile
  <2>2. /\ cp'[f].fp = cp[f].fp /\ cp'[f].offset = cp[f].offset
        /\ cp' = [cp EXCEPT ![f] = cp'[f]]
    BY <1>1, <2>1 DEF FileState
  <2>3. KnownHeadNext(f, cp[f])
    BY <1>1, <1>2, KnownStays
  <2>4. KnownHeadNext(f, cp'[f])
    BY <2>2, <2>3 DEF KnownHeadNext
  <2>5. cp[f].offset \in Nat
    BY <1>1 DEF FileState
  <2>6. NotBehind(cp'[f], cp[f])
    BY <2>2, <2>5 DEF NotBehind
  <2> QED
    BY <1>3, <2>2, <2>4, <2>6
<1> QED
  BY <1>3, <1>6, <1>7, <1>8, <1>9, <1>10 DEF Moved

\* A step that leaves a file open mid-read leaves its position, or sets it.
LEMMA ReadingGoesOn ==
    ASSUME IInv, [Next]_vars, pc' \in {"chunk", "emit"}
    PROVE  \/ \E f \in Days : OpenFile(f)
           \/ \E f \in Days, hi \in Positions : ReadChunk(f, hi)
           \/ \E f \in Days : EmitAccepted(f)
           \/ UNCHANGED <<pc, todo, st, cp>>
  BY ZenonT(40) DEF Next, Writer, NextDay, Watch, ReadFile, Reclaim, Deliver, ShipChunk, Failure, vars,
     CreateFile, AppendMember, BeginMember, WriterDies, MoveAway, PutBack, Scan, Abandon,
     LeavePoll, EvictOpen, Checkpoint, EndPoll, SkipFile, NothingNew, FinishFile, KeepFile,
     DeleteFile, Shutdown, LastSave, Start, Die, Crash, Stop, EmitStaleAccepted,
     FlushAccepted, EmitRefused, EmitStaleRefused, FlushRefused, CheckpointFails, readVars

LEMMA HeadsKnownStep == IInv /\ RereadInv /\ [Next]_vars /\ TypeOK' => HeadsKnown'
<1> SUFFICES ASSUME IInv, RereadInv, [Next]_vars, TypeOK'
             PROVE  HeadsKnown'
  OBVIOUS
<1>1. cp \in [Days -> FileState] /\ disk \in [Days -> FileState]
  BY DEF IInv, TypeOK
<1>2. \A f \in Days : KnownHeadNext(f, cp[f]) /\ KnownHeadNext(f, disk[f])
  BY <1>1, KnownStays DEF RereadInv, HeadsKnown
<1>3. \A f \in Days : KnownHeadNext(f, NoState)
  BY DEF KnownHeadNext, NoState, NoFingerprint
<1>4. \A f \in Days : KnownHeadNext(f, cp'[f]) /\ KnownHeadNext(f, disk'[f])
  <2>1. CASE \A f \in Days : Copied(f)
    BY <1>2, <1>3, <2>1 DEF Copied
  <2>2. ASSUME NEW f \in Days, Moved(f)
        PROVE  \A e \in Days : KnownHeadNext(e, cp'[e]) /\ KnownHeadNext(e, disk'[e])
    BY <1>1, <1>2, <2>2, MovedKnows
  <2> QED
    BY <2>1, <2>2, MovedOrCopied
<1> QED
  BY <1>4 DEF HeadsKnown, KnownHead, KnownHeadNext, Bytes

LEMMA ReadingOnStep == IInv /\ RereadInv /\ [Next]_vars /\ TypeOK' => ReadingOn'
<1> SUFFICES ASSUME IInv, RereadInv, [Next]_vars, TypeOK', pc' \in {"chunk", "emit"},
                    NEW e \in Days, IsOldest(e, todo')
             PROVE  KnownHeadNext(e, st') /\ NotBehind(st', cp'[e])
  BY DEF ReadingOn, IsOldest, KnownHead, KnownHeadNext, NotBehind, Bytes
<1>1. /\ todo \in SUBSET Days /\ st \in FileState /\ upto \in Nat
      /\ cp \in [Days -> FileState]
  BY DEF IInv, TypeOK
<1>2. cp[e].offset \in Nat
  BY <1>1 DEF FileState
<1>3. ASSUME NEW f \in Days, OpenFile(f)
      PROVE  KnownHeadNext(e, st') /\ NotBehind(st', cp'[e])
  <2>1. e = f /\ present[f] /\ st' = Resume(f) /\ cp' = cp
    BY <1>1, <1>3, OldestIsUnique DEF OpenFile
  <2>2. KnownHead(f, Resume(f)) /\ NotBehind(Resume(f), cp[f]) /\ Resume(f) \in FileState
    BY <2>1, ResumeKnows, ResumeType DEF IInv, RereadInv, HeadsKnown
  <2> QED
    BY <2>1, <2>2, KnownStays
<1>4. ASSUME NEW f \in Days, pc \in {"chunk", "emit"}, IsOldest(f, todo), e = f,
             UNCHANGED <<st, cp>>
      PROVE  KnownHeadNext(e, st') /\ NotBehind(st', cp'[e])
  BY <1>1, <1>4, KnownStays DEF RereadInv, ReadingOn
<1>5. ASSUME NEW f \in Days, NEW hi \in Nat, AdvanceTo(f, hi), e = f, Moved(f)
      PROVE  KnownHeadNext(e, st') /\ NotBehind(st', cp'[e])
  <2>1. cp'[f] = st' /\ st' \in FileState
    BY <1>1, <1>5 DEF AdvanceTo, TypeOK
  <2>2. KnownHeadNext(f, st')
    BY <1>5, <2>1, MovedKnows
  <2>3. st'.offset \in Nat
    BY <2>1 DEF FileState
  <2> QED
    BY <1>5, <2>1, <2>2, <2>3 DEF NotBehind
<1>6. ASSUME NEW f \in Days, NEW hi \in Positions, ReadChunk(f, hi)
      PROVE  KnownHeadNext(e, st') /\ NotBehind(st', cp'[e])
  <2>1. e = f /\ pc = "chunk" /\ IsOldest(f, todo) /\ hi \in Nat
    BY <1>1, <1>6, OldestIsUnique DEF ReadChunk, Positions
  <2>2. CASE pc' = "chunk"
    <3>1. AdvanceTo(f, hi) /\ Moved(f)
      BY <1>6, <2>2 DEF ReadChunk, Moved
    <3> QED
      BY <1>5, <2>1, <3>1
  <2>3. CASE pc' # "chunk"
    <3>1. UNCHANGED <<st, cp>>
      BY <1>6, <2>3 DEF ReadChunk, AdvanceTo
    <3> QED
      BY <1>4, <2>1, <3>1
  <2> QED
    BY <2>2, <2>3
<1>7. ASSUME NEW f \in Days, EmitAccepted(f)
      PROVE  KnownHeadNext(e, st') /\ NotBehind(st', cp'[e])
  <2>1. e = f /\ AdvanceTo(f, upto) /\ Moved(f)
    BY <1>1, <1>7, OldestIsUnique DEF EmitAccepted, Moved
  <2> QED
    BY <1>1, <1>5, <2>1
<1>8. CASE UNCHANGED <<pc, todo, st, cp>>
  BY <1>4, <1>8
<1> QED
  BY <1>3, <1>6, <1>7, <1>8, ReadingGoesOn

\* The steps that set or copy a position, while the process runs.
LEMMA OffsetsGoBack ==
    ASSUME IInv, RereadInv, [Next]_vars, TypeOK', pc # "down", pc' # "down", NEW f \in Days,
           cp'[f].fp.gen = cp[f].fp.gen, cp'[f].offset < cp[f].offset
    PROVE  cp[f].fp.len < HeadBytes
<1>1. cp \in [Days -> FileState] /\ cp' \in [Days -> FileState]
  BY DEF IInv, TypeOK
<1>2. /\ cp[f].offset \in Nat /\ cp'[f].offset \in Nat
      /\ cp[f].fp.gen \in 0..MaxGen /\ cp[f].fp.len \in Nat
  BY <1>1 DEF FileState
<1>3. HeadBytes \in Nat \ {0}
  BY ConstantsAssumption
<1> SUFFICES ASSUME cp[f].fp.len >= HeadBytes
             PROVE  FALSE
  BY <1>2, <1>3
<1>4. cp[f].fp.gen # 0
  <2>1. cp[f].fp.gen \in Gens
    BY <1>2, <1>3 DEF RereadInv, HeadsKnown, KnownHead
  <2> QED
    BY <2>1, ConstantsAssumption DEF Gens
<1>5. cp'[f] # cp[f] /\ cp'[f] # NoState
  BY <1>2, <1>4 DEF NoState, NoFingerprint
<1>6. ASSUME NEW e \in Days, Moved(e)
      PROVE  FALSE
  <2>1. NotBehind(cp'[e], cp[e]) /\ cp' = [cp EXCEPT ![e] = cp'[e]]
    BY <1>6, MovedKnows
  <2>2. e = f
    BY <1>1, <1>5, <2>1
  <2> QED
    BY <1>2, <2>1, <2>2 DEF NotBehind
<1>7. ASSUME NEW e \in Days, NEW hi \in Positions, ReadChunk(e, hi)
      PROVE  Moved(e) \/ cp' = cp
  BY <1>7 DEF ReadChunk, Moved, AdvanceTo
<1>8. cp' # Pruned
  BY <1>5 DEF Pruned
<1>9. \/ \E e \in Days : Moved(e)
      \/ \E e \in Days, hi \in Positions : ReadChunk(e, hi)
      \/ cp' \in {cp, Pruned}
  BY DEF Next, Writer, NextDay, Watch, ReadFile, Reclaim, Deliver, ShipChunk, Failure, vars,
     CreateFile, AppendMember, BeginMember, WriterDies, MoveAway, PutBack, Scan, Abandon,
     EvictOpen, SkipFile, OpenFile, KeepFile, Shutdown, Stop, EmitStaleAccepted,
     FlushAccepted, EmitRefused, EmitStaleRefused, Moved, Checkpoint, EndPoll,
     CheckpointFails, Save, SaveFails, FlushRefused, Crash, LastSave, Die, Start
<1> QED
  BY <1>5, <1>6, <1>7, <1>8, <1>9

-----------------------------------------------------------------------------
(* Nothing is lost on the way: as long as no emit fails and the process is *)
(* never killed, what is behind an offset is delivered, dropped, in the    *)
(* batch or with the reducer.  The set of those only grows, a chunk joins  *)
(* it whole before the offset moves, and the process ends with the reducer *)
(* drained.                                                                *)

Quiet == Faults \cap {"emit", "crash"} = {}

Safe == shipped \cup skipped \cup Held

Kept(f, s) ==
    s.fp.gen # 0 =>
        \A i \in 1..s.offset :
            body[f][s.fp.gen][i].kind \in {"input", "done"} =>
                body[f][s.fp.gen][i].id \in Safe

BatchIsTaken == pc \notin {"emit", "emitStale", "flush"} => batch = {}

ClosedIsEmpty ==
    /\ \A r \in Responses : open[r] = 0 => got[r] = {}
    /\ pc \in {"flush", "lastSave"} => \A r \in Responses : got[r] = {}

OffsetsKept == \A f \in Days : Kept(f, cp[f]) /\ Kept(f, disk[f])

ReadingKept ==
    pc \in {"chunk", "emit"} => \A f \in Days : IsOldest(f, todo) => Kept(f, st)

ChunkKept ==
    pc = "emit" =>
        \A f \in Days : IsOldest(f, todo) =>
            \A i \in Reached(f, st.fp.gen, st.offset, upto) :
                Handle(f)[i].kind \in {"input", "done"} => Handle(f)[i].id \in Safe

SafeInv ==
    /\ BatchIsTaken /\ ClosedIsEmpty /\ seen \subseteq Safe
    /\ OffsetsKept /\ ReadingKept /\ ChunkKept

LEMMA BatchIsTakenStep == BatchIsTaken /\ [Next]_vars => BatchIsTaken'
<1> SUFFICES ASSUME BatchIsTaken, [Next]_vars
             PROVE  BatchIsTaken'
  OBVIOUS
<1>1. ASSUME NEW f \in Days, NEW hi \in Positions, ReadChunk(f, hi)
      PROVE  BatchIsTaken'
  BY <1>1 DEF ReadChunk, AdvanceTo, BatchIsTaken
<1>2. CASE EvictOpen \/ Shutdown
  BY <1>2 DEF EvictOpen, Shutdown, Drain, BatchIsTaken
<1>3. CASE batch' = {}
  BY <1>3 DEF BatchIsTaken
<1>4. CASE UNCHANGED <<pc, batch>>
  BY <1>4 DEF BatchIsTaken
<1>5. CASE batch' = batch /\ pc \notin {"emit", "emitStale", "flush"}
  BY <1>5 DEF BatchIsTaken
<1>6. \/ EvictOpen \/ Shutdown \/ batch' = {} \/ UNCHANGED <<pc, batch>>
      \/ batch' = batch /\ pc \notin {"emit", "emitStale", "flush"}
      \/ \E f \in Days, hi \in Positions : ReadChunk(f, hi)
  BY ZenonT(40) DEF Next, Writer, NextDay, Watch, ReadFile, Reclaim, Deliver, ShipChunk, Failure, vars,
     CreateFile, AppendMember, BeginMember, WriterDies, MoveAway, PutBack, Scan, Abandon,
     Checkpoint, EndPoll, SkipFile, NothingNew, OpenFile, FinishFile, KeepFile, DeleteFile,
     LastSave, Start, Die, Crash, Stop, EmitAccepted, Accept, EmitStaleAccepted,
     FlushAccepted, EmitRefused, EmitStaleRefused, Refuse, FlushRefused, CheckpointFails
<1> QED
  BY <1>1, <1>2, <1>3, <1>4, <1>5, <1>6

\* The steps that touch the reducer.
LEMMA ReducerStep ==
    ASSUME [Next]_vars
    PROVE  \/ \E f \in Days, hi \in Positions : ReadChunk(f, hi)
           \/ EvictOpen /\ Drain(Stale) /\ pc' = "emitStale"
           \/ Shutdown
           \/ Die
           \/ UNCHANGED <<open, got, seen>> /\ (pc' \in {"flush", "lastSave"} => pc \in {"flush", "lastSave"})
  BY ZenonT(40) DEF Next, Writer, NextDay, Watch, ReadFile, Reclaim, Deliver, ShipChunk, Failure, vars,
     CreateFile, AppendMember, BeginMember, WriterDies, MoveAway, PutBack, Scan, Abandon,
     LeavePoll, EvictOpen, Checkpoint, EndPoll, SkipFile, NothingNew, OpenFile, FinishFile,
     KeepFile, DeleteFile, LastSave, Start, Crash, Stop, EmitAccepted, AdvanceTo,
     EmitStaleAccepted, FlushAccepted, EmitRefused, EmitStaleRefused, FlushRefused,
     CheckpointFails, reducerVars

\* The records a chunk decodes are records, not remains of a torn member.
LEMMA ChunkIsRecords ==
    ASSUME IInv, NEW f \in Days, NEW hi \in Positions, ReadChunk(f, hi)
    PROVE  ChunkOf(f, st.fp.gen, st.offset, hi) \in SUBSET Record
<1>1. /\ pc = "chunk" /\ IsOldest(f, todo) /\ hi \in Nat /\ hi <= Len(Handle(f))
      /\ ~CorruptAhead(f, hi)
  BY DEF ReadChunk, Positions
<1>2. st.offset \in Nat /\ \A i \in 1..hi : Handle(f)[i] \in Member
  BY <1>1, BehindChunk
<1>3. \A i \in st.offset + 1..hi : Handle(f)[i] \in Record
  BY <1>1, <1>2 DEF CorruptAhead, Member, Torn
<1> QED
  BY <1>3 DEF ChunkOf, Reached, Handle

LEMMA ClosedIsEmptyStep == IInv /\ ClosedIsEmpty /\ [Next]_vars => ClosedIsEmpty'
<1> SUFFICES ASSUME IInv, ClosedIsEmpty, [Next]_vars
             PROVE  ClosedIsEmpty'
  OBVIOUS
<1>1. ASSUME NEW f \in Days, NEW hi \in Positions, ReadChunk(f, hi)
      PROVE  ClosedIsEmpty'
  <2> DEFINE chunk == ChunkOf(f, st.fp.gen, st.offset, hi)
             ids(r) == {m.id : m \in {x \in chunk : x.resp = r}}
  <2>1. Reduce(chunk) /\ pc' \in {"chunk", "emit"}
    BY <1>1 DEF ReadChunk, AdvanceTo
  <2>2. chunk \in SUBSET Record
    BY <1>1, ChunkIsRecords
  <2>3. \A r \in Responses : ids(r) # {} => Max(ids(r)) # 0
    <3> SUFFICES ASSUME NEW r \in Responses, ids(r) # {}
                 PROVE  Max(ids(r)) # 0
      OBVIOUS
    <3>1. ids(r) \in SUBSET FrameIds
      BY <2>2 DEF Record
    <3>2. ids(r) \in SUBSET (0..MaxFrames)
      BY <3>1, ConstantsAssumption DEF FrameIds
    <3> HIDE DEF ids
    <3>3. Max(ids(r)) \in FrameIds
      BY <3>1, <3>2, MaxIsMember, ConstantsAssumption
    <3> QED
      BY <3>3, ConstantsAssumption DEF FrameIds
  <2>4. open' = [r \in Responses |->
                    IF r \in Closed(chunk) THEN 0
                    ELSE IF ids(r) = {} THEN open[r] ELSE Max(ids(r))]
    BY <2>1 DEF Reduce
  <2>5. got' = [r \in Responses |-> IF r \in Closed(chunk) THEN {} ELSE Captured(chunk, r)]
    BY <2>1 DEF Reduce
  <2>6. \A r \in Responses : ids(r) = {} => Captured(chunk, r) = got[r]
    BY DEF Captured
  <2> HIDE DEF ids, chunk
  <2>7. \A r \in Responses : open'[r] = 0 => got'[r] = {}
    BY <2>3, <2>4, <2>5, <2>6 DEF ClosedIsEmpty
  <2> QED
    BY <2>1, <2>7 DEF ClosedIsEmpty
<1>2. CASE EvictOpen /\ Drain(Stale) /\ pc' = "emitStale"
  BY <1>2 DEF Drain, ClosedIsEmpty
<1>3. CASE Shutdown
  <2>1. Drain(Open)
    BY <1>3 DEF Shutdown
  <2>2. \A r \in Responses : got'[r] = {}
    BY <2>1 DEF Drain, Open, ClosedIsEmpty
  <2> QED
    BY <2>2 DEF ClosedIsEmpty
<1>4. CASE Die
  BY <1>4 DEF Die, ClosedIsEmpty
<1>5. CASE UNCHANGED <<open, got, seen>> /\ (pc' \in {"flush", "lastSave"} => pc \in {"flush", "lastSave"})
  BY <1>5 DEF ClosedIsEmpty
<1> QED
  BY <1>1, <1>2, <1>3, <1>4, <1>5, ReducerStep

LEMMA HeldNext == Held' = (UNION {got'[r] : r \in Responses}) \cup Contents(batch')
  BY DEF Held, Contents

\* What the reducer makes of a chunk holds everything it held, the chunk and
\* what it had seen before.
LEMMA ChunkIsHeld ==
    ASSUME IInv, BatchIsTaken, seen \subseteq Safe, NEW f \in Days, NEW hi \in Positions,
           ReadChunk(f, hi)
    PROVE  /\ Safe \subseteq Safe' /\ seen' \subseteq Safe'
           /\ \A i \in Reached(f, st.fp.gen, st.offset, hi) :
                 Handle(f)[i].kind \in {"input", "done"} => Handle(f)[i].id \in Safe'
<1> DEFINE chunk == ChunkOf(f, st.fp.gen, st.offset, hi)
<1>1. /\ Reduce(chunk) /\ batch' = TurnsOf(chunk) /\ batch = {}
      /\ shipped \subseteq shipped' /\ skipped \subseteq skipped'
  BY OnlyAdds DEF ReadChunk, AdvanceTo, BatchIsTaken
<1>2. chunk \in SUBSET Record
  BY ChunkIsRecords
<1>3. \A i \in Reached(f, st.fp.gen, st.offset, hi) : Handle(f)[i] \in chunk
  BY DEF ChunkOf, Handle
<1> HIDE DEF chunk
<1>4. ASSUME NEW r \in Responses
      PROVE  Captured(chunk, r) \subseteq Safe'
  <2>1. CASE r \in Closed(chunk)
    <3>1. [resp |-> r, got |-> Captured(chunk, r)] \in batch'
      BY <1>1, <2>1 DEF TurnsOf
    <3>2. Captured(chunk, r) \subseteq Contents(batch')
      BY <3>1 DEF Contents
    <3> QED
      BY <3>2, HeldNext DEF Safe
  <2>2. CASE r \notin Closed(chunk)
    <3>1. got'[r] = Captured(chunk, r)
      BY <1>1, <2>2 DEF Reduce
    <3> QED
      BY <3>1 DEF Safe, Held
  <2> QED
    BY <2>1, <2>2
<1>5. Safe \subseteq Safe'
  <2>1. \A r \in Responses : got[r] \subseteq Safe'
    BY <1>4 DEF Captured
  <2>2. Contents(batch) = {}
    BY <1>1 DEF Contents
  <2>3. shipped \cup skipped \subseteq Safe'
    BY <1>1 DEF Safe
  <2> QED
    BY <2>1, <2>2, <2>3 DEF Safe, Held
<1>6. ASSUME NEW m \in chunk, m.kind \in {"input", "done"}
      PROVE  m.id \in Safe'
  <2>1. m.resp \in Responses
    BY <1>2 DEF Record
  <2>2. m.id \in Captured(chunk, m.resp) \/ m.id \in seen
    BY <1>6 DEF Captured
  <2> QED
    BY <1>4, <1>5, <2>1, <2>2
<1>7. seen' \subseteq Safe'
  BY <1>1, <1>5, <1>6 DEF Reduce
<1> QED
  BY <1>3, <1>5, <1>6, <1>7

LEMMA SafeGrows ==
    ASSUME IInv, SafeInv, Quiet, [Next]_vars
    PROVE  Safe \subseteq Safe' /\ seen' \subseteq Safe'
<1>1. /\ shipped \subseteq shipped' /\ skipped \subseteq skipped'
      /\ BatchIsTaken /\ ClosedIsEmpty /\ seen \subseteq Safe
  BY OnlyAdds DEF SafeInv
<1>2. ASSUME Held \subseteq Held' \cup shipped', seen' \subseteq seen
      PROVE  Safe \subseteq Safe' /\ seen' \subseteq Safe'
  <2>1. Safe \subseteq Safe'
    BY <1>1, <1>2 DEF Safe
  <2> QED
    BY <1>1, <1>2, <2>1
<1>3. ASSUME NEW f \in Days, NEW hi \in Positions, ReadChunk(f, hi)
      PROVE  Safe \subseteq Safe' /\ seen' \subseteq Safe'
  BY <1>1, <1>3, ChunkIsHeld
<1>4. ASSUME NEW R \in SUBSET Responses, Drain(R), batch = {}
      PROVE  Held \subseteq Held' /\ seen' \subseteq seen
  <2>1. ASSUME NEW r \in Responses
        PROVE  got[r] \subseteq Held'
    <3>1. CASE r \in R
      <4>1. [resp |-> r, got |-> got[r]] \in batch'
        BY <1>4, <3>1 DEF Drain
      <4>2. got[r] \subseteq Contents(batch')
        BY <4>1 DEF Contents
      <4> QED
        BY <4>2, HeldNext
    <3>2. CASE r \notin R
      <4>1. got'[r] = got[r]
        BY <1>4, <3>2 DEF Drain
      <4> QED
        BY <4>1 DEF Held
    <3> QED
      BY <3>1, <3>2
  <2>2. Contents(batch) = {}
    BY <1>4 DEF Contents
  <2> QED
    BY <1>4, <2>1, <2>2 DEF Held, Drain
<1>5. Open \in SUBSET Responses /\ Stale \in SUBSET Responses
  BY DEF Open, Stale
<1>6. CASE EvictOpen /\ Drain(Stale) /\ pc' = "emitStale"
  <2>1. batch = {}
    BY <1>1, <1>6 DEF EvictOpen, BatchIsTaken
  <2> QED
    BY <1>2, <1>4, <1>5, <1>6, <2>1
<1>7. CASE Shutdown
  <2>1. batch = {} /\ Drain(Open)
    BY <1>1, <1>7 DEF Shutdown, BatchIsTaken
  <2> QED
    BY <1>2, <1>4, <1>5, <2>1
<1>8. CASE LastSave
  <2>1. /\ pc = "lastSave" /\ batch = {} /\ \A r \in Responses : got[r] = {}
        /\ seen' = {}
    BY <1>1, <1>8 DEF LastSave, Die, BatchIsTaken, ClosedIsEmpty
  <2>2. Held = {}
    BY <2>1 DEF Held, Contents
  <2> QED
    BY <1>2, <2>1, <2>2
<1>9. CASE Accept /\ UNCHANGED <<got, seen>>
  BY <1>2, <1>9, HeldNext DEF Accept, Held
<1>10. CASE UNCHANGED <<got, seen, batch>>
  BY <1>2, <1>10 DEF Held, Contents
<1>11. ~Crash /\ ~EmitRefused /\ ~EmitStaleRefused /\ ~FlushRefused
  BY DEF Quiet, Crash, EmitRefused, EmitStaleRefused, FlushRefused, Refuse
<1>12. \/ \E f \in Days, hi \in Positions : ReadChunk(f, hi)
       \/ EvictOpen /\ Drain(Stale) /\ pc' = "emitStale"
       \/ Shutdown \/ LastSave
       \/ Accept /\ UNCHANGED <<got, seen>>
       \/ UNCHANGED <<got, seen, batch>>
  BY <1>11, ZenonT(40) DEF Next, Writer, NextDay, Watch, ReadFile, Reclaim, Deliver, ShipChunk, Failure,
     vars, CreateFile, AppendMember, BeginMember, WriterDies, MoveAway, PutBack, Scan,
     Abandon, EvictOpen, Checkpoint, EndPoll, SkipFile, NothingNew, OpenFile, FinishFile,
     KeepFile, DeleteFile, Start, Stop, EmitAccepted, EmitStaleAccepted, FlushAccepted,
     CheckpointFails, reducerVars
<1> QED
  BY <1>3, <1>6, <1>7, <1>8, <1>9, <1>10, <1>12

\* Kept in the next state.
KeptNext(f, s) ==
    s.fp.gen # 0 =>
        \A i \in 1..s.offset :
            body'[f][s.fp.gen][i].kind \in {"input", "done"} =>
                body'[f][s.fp.gen][i].id \in Safe'

LEMMA KeptStays ==
    ASSUME TypeOK, Extended, Safe \subseteq Safe', NEW f \in Days, NEW s \in FileState,
           Sound(f, s), Kept(f, s)
    PROVE  KeptNext(f, s)
<1> SUFFICES ASSUME s.fp.gen # 0
             PROVE  \A i \in 1..s.offset :
                        body'[f][s.fp.gen][i].kind \in {"input", "done"} =>
                            body'[f][s.fp.gen][i].id \in Safe'
  BY DEF KeptNext
<1>1. s.fp.gen \in 0..MaxGen /\ s.offset \in Nat
  BY DEF FileState
<1>2. s.fp.gen \in Gens
  BY <1>1, ConstantsAssumption DEF Gens
<1>3. PICK n \in Nat : n = Len(body[f][s.fp.gen])
  BY <1>2, BodyType
<1>4. s.offset <= n
  BY <1>3 DEF Sound
<1>5. \A i \in 1..s.offset : body'[f][s.fp.gen][i] = body[f][s.fp.gen][i]
  BY <1>1, <1>2, <1>3, <1>4, SMTT(30) DEF Extended
<1> QED
  BY <1>5 DEF Kept

\* A resumed position is the old one or the beginning.
LEMMA ResumeKept ==
    ASSUME IInv, NEW f \in Days, present[f], Kept(f, cp[f])
    PROVE  Kept(f, Resume(f))
<1>1. cp[f] \in FileState /\ Size(f) \in Nat
  BY ResumeType DEF IInv, TypeOK
<1>2. /\ Resume(f).fp = Fingerprint(f)
      /\ Resume(f).offset = IF Replaced(f) THEN 0 ELSE cp[f].offset
  BY <1>1 DEF Resume, NoState, FileState
<1>3. CASE Resume(f).offset = 0
  BY <1>3 DEF Kept
<1>4. CASE Resume(f).offset # 0 /\ Resume(f).fp.gen # 0
  <2>1. ~Replaced(f) /\ Resume(f).offset = cp[f].offset
    BY <1>2, <1>4
  <2>2. Fingerprint(f) # NoFingerprint
    BY <1>2, <1>4 DEF NoFingerprint
  <2>3. cp[f].fp.gen # 0
    BY <1>4, <2>1 DEF IInv, Offsets, Sound
  <2>4. Fingerprint(f) = cp[f].fp
    BY <2>1, <2>2, <2>3 DEF Replaced, NoFingerprint
  <2> QED
    BY <1>2, <2>1, <2>4 DEF Kept
<1>5. CASE Resume(f).fp.gen = 0
  BY <1>5 DEF Kept
<1> QED
  BY <1>3, <1>4, <1>5

\* Advancing to the end of a chunk that is held.
LEMMA AdvanceKept ==
    ASSUME IInv, NEW f \in Days, NEW hi \in Nat, Kept(f, st), AdvanceTo(f, hi), body' = body,
           Safe \subseteq Safe', st.fp.gen # 0,
           \A i \in Reached(f, st.fp.gen, st.offset, hi) :
               Handle(f)[i].kind \in {"input", "done"} => Handle(f)[i].id \in Safe'
    PROVE  KeptNext(f, st')
<1>1. st \in FileState /\ st.offset \in Nat
  BY DEF IInv, TypeOK, FileState
<1>2. st'.fp = st.fp /\ st'.offset = hi
  BY <1>1 DEF AdvanceTo, FileState
<1>3. SkippedBy(f, st.fp.gen, st.offset, hi) \subseteq Safe'
  BY DEF AdvanceTo, Safe
<1>4. ASSUME NEW i \in 1..hi, Handle(f)[i].kind \in {"input", "done"}
      PROVE  Handle(f)[i].id \in Safe'
  <2>1. CASE i \in 1..st.offset
    BY <1>4, <2>1 DEF Kept, Handle
  <2>2. CASE i \in st.offset + 1..hi
    BY <1>3, <1>4, <2>2 DEF SkippedBy, Handle
  <2> QED
    BY <1>1, <2>1, <2>2
<1> QED
  BY <1>2, <1>4 DEF KeptNext, Handle

LEMMA OffsetsKeptStep ==
    ASSUME IInv, SafeInv, Quiet, [Next]_vars
    PROVE  OffsetsKept'
<1>1. /\ cp \in [Days -> FileState] /\ disk \in [Days -> FileState] /\ TypeOK
      /\ \A f \in Days : Sound(f, cp[f]) /\ Sound(f, disk[f])
      /\ \A f \in Days : Kept(f, cp[f]) /\ Kept(f, disk[f])
  BY DEF IInv, TypeOK, Offsets, SafeInv, OffsetsKept
<1>2. \A f \in Days, s \in FileState : Sound(f, s) /\ Kept(f, s) => KeptNext(f, s)
  BY <1>1, OnlyAdds, SafeGrows, KeptStays
<1>3. \A f \in Days : KeptNext(f, cp[f]) /\ KeptNext(f, disk[f]) /\ KeptNext(f, NoState)
  <2>1. \A f \in Days : KeptNext(f, NoState)
    BY DEF KeptNext, NoState, NoFingerprint
  <2> QED
    BY <1>1, <1>2, <2>1
<1>4. CASE \A f \in Days : Copied(f)
  <2>1. \A f \in Days : KeptNext(f, cp'[f]) /\ KeptNext(f, disk'[f])
    BY <1>3, <1>4 DEF Copied
  <2> QED
    BY <2>1 DEF OffsetsKept, Kept, KeptNext
<1>5. ASSUME NEW f \in Days, Moved(f)
      PROVE  OffsetsKept'
  <2>1. KeptNext(f, cp'[f]) /\ cp' = [cp EXCEPT ![f] = cp'[f]]
    <3>1. ASSUME NEW hi \in Positions, ReadChunk(f, hi), pc' = "chunk"
          PROVE  KeptNext(f, cp'[f]) /\ cp' = [cp EXCEPT ![f] = cp'[f]]
      <4>1. /\ AdvanceTo(f, hi) /\ body' = body /\ hi \in Nat /\ Kept(f, st)
            /\ pc = "chunk" /\ IsOldest(f, todo)
        BY <3>1 DEF ReadChunk, Positions, archiveVars, SafeInv, ReadingKept
      <4>2. st.fp.gen # 0
        BY <4>1, ReadFacts
      <4>3. KeptNext(f, st')
        BY <3>1, <4>1, <4>2, ChunkIsHeld, AdvanceKept DEF SafeInv
      <4> QED
        BY <1>1, <4>1, <4>3 DEF AdvanceTo
    <3>2. CASE EmitAccepted(f)
      <4>1. /\ AdvanceTo(f, upto) /\ body' = body /\ upto \in Nat /\ Kept(f, st)
            /\ pc = "emit" /\ IsOldest(f, todo)
        BY <3>2 DEF EmitAccepted, IInv, TypeOK, archiveVars, SafeInv, ReadingKept
      <4>2. st.fp.gen # 0 /\ Safe \subseteq Safe'
        BY <4>1, ReadFacts, SafeGrows
      <4>3. \A i \in Reached(f, st.fp.gen, st.offset, upto) :
                Handle(f)[i].kind \in {"input", "done"} => Handle(f)[i].id \in Safe'
        BY <4>1, <4>2 DEF SafeInv, ChunkKept
      <4>4. KeptNext(f, st')
        BY <4>1, <4>2, <4>3, AdvanceKept
      <4> QED
        BY <1>1, <4>1, <4>4 DEF AdvanceTo
    <3>3. CASE FinishFile(f)
      <4>1. Sound(f, st) /\ Kept(f, st) /\ st \in FileState
        BY <3>3, ReadFacts DEF FinishFile, SafeInv, ReadingKept
      <4>2. cp' = [cp EXCEPT ![f] = [st EXCEPT !.size = statSize]]
        BY <3>3 DEF FinishFile
      <4>3. cp'[f].fp = st.fp /\ cp'[f].offset = st.offset
        BY <1>1, <4>1, <4>2 DEF FileState
      <4>4. KeptNext(f, st)
        BY <1>2, <4>1
      <4> QED
        BY <1>1, <4>2, <4>3, <4>4 DEF KeptNext
    <3>4. CASE NothingNew(f)
      <4>1. /\ cp' = [cp EXCEPT ![f] = Resume(f)]
            /\ Sound(f, Resume(f)) /\ Kept(f, Resume(f))
        BY <1>1, <3>4, ResumeSound, ResumeKept DEF NothingNew
      <4>2. Resume(f) \in FileState
        BY <3>4, ResumeType DEF NothingNew, IInv
      <4> QED
        BY <1>1, <1>2, <4>1, <4>2
    <3>5. CASE DeleteFile(f)
      <4>1. cp' = [cp EXCEPT ![f].deleted = TRUE] /\ cp[f] \in FileState
        BY <1>1, <3>5 DEF DeleteFile
      <4>2. cp'[f].fp = cp[f].fp /\ cp'[f].offset = cp[f].offset
        BY <1>1, <4>1 DEF FileState
      <4> QED
        BY <1>1, <1>3, <4>1, <4>2, ZenonT(40) DEF KeptNext
    <3> QED
      BY <1>5, <3>1, <3>2, <3>3, <3>4, <3>5 DEF Moved
  <2>2. disk' = disk
    BY <1>5 DEF Moved, ReadChunk, EmitAccepted, FinishFile, NothingNew, DeleteFile
  <2>3. \A e \in Days : KeptNext(e, cp'[e]) /\ KeptNext(e, disk'[e])
    BY <1>1, <1>3, <2>1, <2>2
  <2> QED
    BY <2>3 DEF OffsetsKept, Kept, KeptNext
<1> QED
  BY <1>4, <1>5, MovedOrCopied

LEMMA ReadingKeptStep ==
    ASSUME IInv, SafeInv, Quiet, [Next]_vars
    PROVE  ReadingKept'
<1> SUFFICES ASSUME pc' \in {"chunk", "emit"}, NEW e \in Days, IsOldest(e, todo')
             PROVE  KeptNext(e, st')
  BY DEF ReadingKept, IsOldest, Kept, KeptNext
<1>1. todo \in SUBSET Days /\ TypeOK
  BY DEF IInv, TypeOK
<1>2. \A f \in Days, s \in FileState : Sound(f, s) /\ Kept(f, s) => KeptNext(f, s)
  BY <1>1, OnlyAdds, SafeGrows, KeptStays
<1>3. ASSUME NEW f \in Days, OpenFile(f)
      PROVE  KeptNext(e, st')
  <2>1. e = f
    BY <1>1, <1>3, OldestIsUnique DEF OpenFile
  <2>2. st' = Resume(f) /\ Sound(f, Resume(f)) /\ Kept(f, Resume(f))
    BY <1>3, ResumeSound, ResumeKept DEF OpenFile, SafeInv, OffsetsKept
  <2>3. Resume(f) \in FileState
    BY <1>3, ResumeType DEF OpenFile, IInv
  <2> QED
    BY <1>2, <2>1, <2>2, <2>3
<1>4. ASSUME NEW f \in Days, NEW hi \in Positions, ReadChunk(f, hi)
      PROVE  KeptNext(e, st')
  <2>1. e = f
    BY <1>1, <1>4, OldestIsUnique DEF ReadChunk
  <2>2. Sound(f, st) /\ st \in FileState /\ Kept(f, st) /\ st.fp.gen # 0
    BY <1>4, ReadFacts DEF ReadChunk, SafeInv, ReadingKept
  <2>3. CASE AdvanceTo(f, hi)
    <3>1. body' = body /\ hi \in Nat
      BY <1>4 DEF ReadChunk, Positions, archiveVars
    <3> QED
      BY <1>4, <2>1, <2>2, <2>3, <3>1, ChunkIsHeld, AdvanceKept DEF SafeInv
  <2>4. CASE st' = st
    BY <1>2, <2>1, <2>2, <2>4
  <2> QED
    BY <1>4, <2>3, <2>4 DEF ReadChunk
<1>5. ASSUME NEW f \in Days, EmitAccepted(f)
      PROVE  KeptNext(e, st')
  <2>1. e = f
    BY <1>1, <1>5, OldestIsUnique DEF EmitAccepted
  <2>2. /\ AdvanceTo(f, upto) /\ body' = body /\ upto \in Nat /\ Kept(f, st)
        /\ pc = "emit" /\ IsOldest(f, todo)
    BY <1>5 DEF EmitAccepted, IInv, TypeOK, archiveVars, SafeInv, ReadingKept
  <2>3. st.fp.gen # 0 /\ Safe \subseteq Safe'
    BY <2>2, ReadFacts, SafeGrows
  <2>4. \A i \in Reached(f, st.fp.gen, st.offset, upto) :
            Handle(f)[i].kind \in {"input", "done"} => Handle(f)[i].id \in Safe'
    BY <2>2, <2>3 DEF SafeInv, ChunkKept
  <2> QED
    BY <2>1, <2>2, <2>3, <2>4, AdvanceKept
<1>6. CASE UNCHANGED <<pc, todo, st, upto, batch>>
  <2>1. Sound(e, st) /\ st \in FileState /\ st' = st /\ Kept(e, st)
    BY <1>6, ReadFacts DEF SafeInv, ReadingKept
  <2> QED
    BY <1>2, <2>1
<1> QED
  BY <1>3, <1>4, <1>5, <1>6, StillReading

LEMMA ChunkKeptStep ==
    ASSUME IInv, SafeInv, Quiet, [Next]_vars
    PROVE  ChunkKept'
<1> DEFINE Good(b, f, g, lo, hi) ==
               \A i \in {n \in lo + 1..hi : \A j \in lo + 1..n : b[f][g][j].kind # "bad"} :
                   b[f][g][i].kind \in {"input", "done"} => b[f][g][i].id \in Safe'
<1> SUFFICES ASSUME pc' = "emit", NEW f \in Days, IsOldest(f, todo')
             PROVE  Good(body', f, st'.fp.gen, st'.offset, upto')
  BY DEF ChunkKept, IsOldest, Handle, Reached
<1>1. todo \in SUBSET Days /\ TypeOK /\ Safe \subseteq Safe'
  BY SafeGrows DEF IInv, TypeOK
<1>2. ASSUME NEW e \in Days, NEW hi \in Positions, ReadChunk(e, hi)
      PROVE  Good(body', f, st'.fp.gen, st'.offset, upto')
  <2>1. todo' = todo /\ st' = st /\ upto' = hi /\ body' = body /\ IsOldest(e, todo)
    BY <1>2 DEF ReadChunk, AdvanceTo, archiveVars
  <2>2. e = f
    BY <1>1, <2>1, OldestIsUnique
  <2>3. \A i \in Reached(f, st.fp.gen, st.offset, hi) :
            Handle(f)[i].kind \in {"input", "done"} => Handle(f)[i].id \in Safe'
    BY <1>2, <2>2, ChunkIsHeld DEF SafeInv
  <2> QED
    BY <2>1, <2>3 DEF Handle, Reached
<1>3. CASE UNCHANGED <<pc, todo, st, upto, batch>>
  <2>1. /\ upto <= Len(Handle(f)) /\ pc = "emit" /\ IsOldest(f, todo)
        /\ upto \in Nat
        /\ \A i \in Reached(f, st.fp.gen, st.offset, upto) :
              Handle(f)[i].kind \in {"input", "done"} => Handle(f)[i].id \in Safe
    BY <1>3 DEF IInv, InBatch, TypeOK, SafeInv, ChunkKept
  <2>2. st.fp.gen \in Gens /\ st.offset \in Nat /\ 1..upto \subseteq 1..Len(Handle(f))
    BY <2>1, BehindChunk
  <2>3. \A i \in st.offset + 1..upto : body'[f][st.fp.gen][i] = body[f][st.fp.gen][i]
    BY <2>1, <2>2, OnlyAdds DEF Extended, Handle
  <2>4. ASSUME NEW i \in st.offset + 1..upto,
               \A j \in st.offset + 1..i : body'[f][st.fp.gen][j].kind # "bad"
        PROVE  i \in Reached(f, st.fp.gen, st.offset, upto)
    <3>1. \A j \in st.offset + 1..i : j \in st.offset + 1..upto
      BY <2>1, <2>2
    <3> QED
      BY <2>3, <2>4, <3>1 DEF Reached
  <2> QED
    BY <1>1, <1>3, <2>1, <2>3, <2>4 DEF Handle
<1>4. ASSUME NEW e \in Days, OpenFile(e) \/ EmitAccepted(e)
      PROVE  FALSE
  BY <1>4 DEF OpenFile, EmitAccepted, AdvanceTo
<1> QED
  BY <1>2, <1>3, <1>4, StillReading

LEMMA InitSafeInv == Init => SafeInv
  BY DEF Init, SafeInv, BatchIsTaken, ClosedIsEmpty, OffsetsKept, Kept, NoState,
     NoFingerprint, ReadingKept, ChunkKept

LEMMA SafeInvStep == IInv /\ SafeInv /\ Quiet /\ [Next]_vars => SafeInv'
<1> SUFFICES ASSUME IInv, SafeInv, Quiet, [Next]_vars
             PROVE  SafeInv'
  OBVIOUS
<1>1. BatchIsTaken' /\ ClosedIsEmpty'
  BY BatchIsTakenStep, ClosedIsEmptyStep DEF SafeInv
<1>2. (seen \subseteq Safe)'
  BY SafeGrows
<1> QED
  BY <1>1, <1>2, OffsetsKeptStep, ReadingKeptStep, ChunkKeptStep DEF SafeInv

-----------------------------------------------------------------------------
(* The theorems.                                                           *)

-----------------------------------------------------------------------------
(* Nothing is repeated while nothing fails.  No record is taken twice      *)
(* (accepted, in the batch or with the reducer) because what is still to   *)
(* be read, behind the offset of the process or, while it is down, of the  *)
(* disk, is not taken yet, and no record is written twice.  A tombstone    *)
(* that is pruned forgets an offset: the file must not come back after it. *)

Calm == Faults \cap {"emit", "crash", "save"} = {}

\* No tombstone is pruned in the days a run lasts.
TombstonesStay == MaxDay <= TombstoneDays + 1

Distinct ==
    \A f, e \in Days, g, h \in Gens :
        \A i \in 1..Len(body[f][g]), j \in 1..Len(body[e][h]) :
            body[f][g][i].id = body[e][h][j].id /\ body[f][g][i].id # 0 =>
                f = e /\ g = h /\ i = j

Taken == shipped \cup Held

TakenOnce ==
    /\ reshipped = {} /\ shipped \cap Held = {}
    /\ \A r \in Responses : got[r] \cap Contents(batch) = {}
    /\ \A r, q \in Responses : r # q => got[r] \cap got[q] = {}

\* Behind member n of generation g nothing is taken.
Untaken(f, g, n) == \A i \in 1..Len(body[f][g]) : i > n => body[f][g][i].id \notin Taken

\* How far the members in the batch reach.
Stand == IF pc = "emit" THEN upto ELSE st.offset

ReadingAhead ==
    pc \in {"chunk", "emit"} =>
        \A f \in Days : IsOldest(f, todo) =>
            /\ Untaken(f, st.fp.gen, Stand)
            /\ cp[f].fp.gen <= st.fp.gen /\ st.fp.gen <= gen[f] /\ ~st.deleted

\* Where reading a file goes on, and the members of the generation under its
\* name that are before it.
Place(f) == IF pc = "down" THEN disk[f] ELSE cp[f]
Before(s, f) == IF s.fp.gen = gen[f] THEN s.offset ELSE 0

\* While the batch is being emitted the file it came from is further.
InHand(f) == pc = "emit" /\ IsOldest(f, todo) /\ st.fp.gen = gen[f]

Ahead(f, s) ==
    gen[f] # 0 /\ (present[f] \/ TombstonesStay) /\ ~InHand(f) =>
        Untaken(f, gen[f], Before(s, f))

Stays(f, s) ==
    /\ s.fp.gen <= gen[f]
    /\ s.deleted /\ present[f] /\ s.fp.gen = gen[f] => TombstonesStay

PlacesAhead == \A f \in Days : Ahead(f, Place(f)) /\ Stays(f, Place(f))

OnceInv == Distinct /\ TakenOnce /\ ReadingAhead /\ PlacesAhead

LEMMA DistinctStep == IInv /\ FreshInv /\ Distinct /\ [Next]_vars => Distinct'
<1> SUFFICES ASSUME IInv, FreshInv, Distinct, [Next]_vars
             PROVE  Distinct'
  OBVIOUS
<1>1. TypeOK /\ Named /\ Numbered /\ nextId \in Nat
  BY ConstantsAssumption DEF IInv, FreshInv, TypeOK
<1>2. ASSUME NEW f \in Days, NEW r \in Responses, NEW k \in {"input", "done", "bad"},
             AppendMember(f, r, k)
      PROVE  Distinct'
  <2>1. \A e \in Days, g \in Gens : \A i \in 1..Len(body'[e][g]) :
            \/ i \in 1..Len(body[e][g]) /\ body'[e][g][i] = body[e][g][i]
            \/ body'[e][g][i].id = 0
            \/ /\ body'[e][g][i].id = nextId /\ e = f /\ g = gen[f]
               /\ i = Len(body'[f][gen[f]]) /\ i \notin 1..Len(body[e][g])
    <3> SUFFICES ASSUME NEW e \in Days, NEW g \in Gens, NEW i \in 1..Len(body'[e][g]),
                        ~(i \in 1..Len(body[e][g]) /\ body'[e][g][i] = body[e][g][i]),
                        body'[e][g][i].id # 0
                 PROVE  /\ body'[e][g][i].id = nextId /\ e = f /\ g = gen[f]
                        /\ i = Len(body'[f][gen[f]]) /\ i \notin 1..Len(body[e][g])
      OBVIOUS
    <3>1. e = f /\ g = gen[f]
      <4>1. ~(e = f /\ g = gen[f]) => body'[e][g] = body[e][g]
        BY <1>1, <1>2, AppendWrites
      <4> QED
        BY <4>1
    <3>2. body'[e][g][i].id = nextId /\ i = Len(body'[e][g])
      BY <1>1, <1>2, AppendWrites
    <3>3. i \notin 1..Len(body[e][g])
      BY OnlyAdds DEF Extended
    <3> QED
      BY <3>1, <3>2, <3>3
  <2>2. \A e \in Days, g \in Gens : \A i \in 1..Len(body[e][g]) : body[e][g][i].id # nextId
    <3> SUFFICES ASSUME NEW e \in Days, NEW g \in Gens, NEW i \in 1..Len(body[e][g]),
                        body[e][g][i].id = nextId
                 PROVE  FALSE
      OBVIOUS
    <3>1. nextId < nextId
      BY <1>1 DEF Numbered
    <3> QED
      BY <1>1, <3>1
  <2> SUFFICES ASSUME NEW e \in Days, NEW d \in Days, NEW g \in Gens, NEW h \in Gens,
                      NEW i \in 1..Len(body'[e][g]), NEW j \in 1..Len(body'[d][h]),
                      body'[e][g][i].id = body'[d][h][j].id, body'[e][g][i].id # 0
               PROVE  e = d /\ g = h /\ i = j
    BY DEF Distinct
  <2>3. CASE i \in 1..Len(body[e][g]) /\ body'[e][g][i] = body[e][g][i]
    <3>1. body'[d][h][j].id # nextId
      BY <2>2, <2>3
    <3>2. j \in 1..Len(body[d][h]) /\ body'[d][h][j] = body[d][h][j]
      BY <2>1, <3>1
    <3> QED
      BY <2>3, <3>2 DEF Distinct
  <2>4. CASE body'[e][g][i].id = nextId /\ e = f /\ g = gen[f] /\ i = Len(body'[f][gen[f]])
    <3>1. ~(j \in 1..Len(body[d][h]) /\ body'[d][h][j] = body[d][h][j])
      BY <2>2, <2>4
    <3>2. body'[d][h][j].id # 0
      OBVIOUS
    <3>3. d = f /\ h = gen[f] /\ j = Len(body'[f][gen[f]])
      BY <2>1, <3>1, <3>2
    <3> QED
      BY <2>4, <3>3
  <2> QED
    BY <2>1, <2>3, <2>4, SMTT(30)
<1>3. CASE body' = body
  BY <1>3, SMTT(30) DEF Distinct
<1>4. \A f \in Days : CreateFile(f) => body' = body
  BY DEF CreateFile
<1> QED
  BY <1>2, <1>3, <1>4, WritingStep

\* Only reading takes records, and only those of its chunk.
LEMMA TakenStays ==
    ASSUME [Next]_vars, \A f \in Days, hi \in Positions : ~ReadChunk(f, hi)
    PROVE  Taken' \subseteq Taken
<1> USE DEF Taken, Held, Contents
<1>1. CASE Accept /\ UNCHANGED got
  BY <1>1 DEF Accept
<1>2. ASSUME NEW R \in SUBSET Responses, Drain(R), UNCHANGED shipped
      PROVE  Taken' \subseteq Taken
  <2>1. \A r \in Responses : got'[r] \subseteq got[r]
    BY <1>2 DEF Drain
  <2>2. \A t \in batch' : \E r \in Responses : t.got = got[r]
    BY <1>2 DEF Drain
  <2> QED
    BY <1>2, <2>1, <2>2
<1>3. CASE (\A r \in Responses : got'[r] \subseteq got[r]) /\ batch' = {} /\ UNCHANGED shipped
  BY <1>3
<1>4. CASE UNCHANGED <<got, batch, shipped>>
  BY <1>4
<1>5. Open \in SUBSET Responses /\ Stale \in SUBSET Responses
  BY DEF Open, Stale
<1>6. \A f \in Days : EmitAccepted(f) => Accept /\ UNCHANGED got
  BY DEF EmitAccepted, reducerVars
<1>7. got' = [r \in Responses |-> {}] => \A r \in Responses : got'[r] \subseteq got[r]
  OBVIOUS
<1> QED
  BY <1>1, <1>2, <1>3, <1>4, <1>5, <1>6, <1>7, HoldingStep

\* What a chunk is about to add was not taken.
LEMMA ChunkTaken ==
    ASSUME IInv, OnceInv, BatchIsTaken, NEW f \in Days, NEW hi \in Positions,
           ReadChunk(f, hi)
    PROVE  /\ Taken' \subseteq Taken \cup {m.id : m \in ChunkOf(f, st.fp.gen, st.offset, hi)}
           /\ TakenOnce'
<1> DEFINE g == st.fp.gen
           chunk == ChunkOf(f, g, st.offset, hi)
<1>1. /\ pc = "chunk" /\ IsOldest(f, todo) /\ hi \in Nat /\ hi <= Len(Handle(f))
      /\ Reduce(chunk) /\ batch' = TurnsOf(chunk) /\ batch = {}
      /\ shipped' = shipped /\ reshipped' = reshipped
  BY DEF ReadChunk, Positions, BatchIsTaken
<1>2. /\ g \in Gens /\ st.offset \in Nat
      /\ \A i \in 1..hi : i \in 1..Len(Handle(f))
  BY <1>1, BehindChunk
<1>3. chunk \in SUBSET Record
  BY ChunkIsRecords
<1>4. \A m \in chunk : m.id \notin Taken
  <2>1. Untaken(f, g, st.offset)
    BY <1>1 DEF OnceInv, ReadingAhead, Stand
  <2> QED
    BY <1>2, <2>1 DEF Untaken, ChunkOf, Reached, Handle
<1>5. \A m, n \in chunk : m.id = n.id => m = n
  <2> SUFFICES ASSUME NEW m \in chunk, NEW n \in chunk, m.id = n.id
               PROVE  m = n
    OBVIOUS
  <2>1. PICK i \in st.offset + 1..hi : m = body[f][g][i]
    BY DEF ChunkOf, Reached
  <2>2. PICK j \in st.offset + 1..hi : n = body[f][g][j]
    BY DEF ChunkOf, Reached
  <2>3. i \in 1..Len(body[f][g]) /\ j \in 1..Len(body[f][g])
    BY <1>2 DEF Handle
  <2>4. m.id # 0
    BY <1>3, ConstantsAssumption DEF Record, FrameIds
  <2> QED
    BY <1>2, <2>1, <2>2, <2>3, <2>4 DEF OnceInv, Distinct
<1> HIDE DEF chunk, g
<1> DEFINE new(r) == {m.id : m \in {x \in chunk : x.resp = r}}
<1>6. \A r \in Responses :
          got[r] \subseteq Taken /\ Captured(chunk, r) \subseteq got[r] \cup new(r)
  BY DEF Captured, Taken, Held
<1>7. \A r, q \in Responses : r # q => new(r) \cap new(q) = {}
  BY <1>5
<1>8. \A r \in Responses : new(r) \cap Taken = {}
  BY <1>4
<1> HIDE DEF new
<1>9. \A r, q \in Responses : r # q => Captured(chunk, r) \cap Captured(chunk, q) = {}
  BY <1>6, <1>7, <1>8 DEF OnceInv, TakenOnce
<1>10. \A r \in Responses : Captured(chunk, r) \cap shipped = {}
  <2>1. \A r \in Responses : got[r] \cap shipped = {}
    BY DEF OnceInv, TakenOnce, Held
  <2>2. shipped \subseteq Taken
    BY DEF Taken
  <2> QED
    BY <1>6, <1>8, <2>1, <2>2
<1>11. /\ \A r \in Responses :
             got'[r] = IF r \in Closed(chunk) THEN {} ELSE Captured(chunk, r)
       /\ \A n \in Contents(batch') : \E r \in Closed(chunk) : n \in Captured(chunk, r)
  BY <1>1 DEF Reduce, Contents, TurnsOf
<1>12. Closed(chunk) \subseteq Responses
  BY DEF Closed
<1>13. \A n \in Held' : \E r \in Responses : n \in Captured(chunk, r)
  BY <1>11, <1>12, HeldNext
<1>14. Taken' \subseteq Taken \cup {m.id : m \in chunk}
  <2>1. \A r \in Responses : new(r) \subseteq {m.id : m \in chunk}
    BY DEF new
  <2>2. Taken' = shipped \cup Held'
    BY <1>1 DEF Taken
  <2> QED
    BY <1>6, <1>13, <2>1, <2>2 DEF Taken
<1>15. TakenOnce'
  <2>1. reshipped' = {} /\ shipped' \cap Held' = {}
    BY <1>1, <1>10, <1>13 DEF OnceInv, TakenOnce
  <2>2. \A r \in Responses : got'[r] \cap Contents(batch') = {}
    BY <1>9, <1>11, <1>12
  <2>3. \A r, q \in Responses : r # q => got'[r] \cap got'[q] = {}
    BY <1>9, <1>11
  <2> QED
    BY <2>1, <2>2, <2>3 DEF TakenOnce, Contents
<1> QED
  BY <1>14, <1>15 DEF chunk, g

LEMMA TakenOnceStep ==
    ASSUME IInv, OnceInv, BatchIsTaken, [Next]_vars
    PROVE  TakenOnce'
<1>1. ASSUME NEW f \in Days, NEW hi \in Positions, ReadChunk(f, hi)
      PROVE  TakenOnce'
  BY <1>1, ChunkTaken
<1>2. CASE Accept /\ UNCHANGED got
  <2>1. /\ shipped' = shipped \cup Contents(batch) /\ batch' = {} /\ got' = got
        /\ reshipped' = reshipped \cup (Contents(batch) \cap shipped)
    BY <1>2 DEF Accept
  <2>2. Contents(batch') = {} /\ Contents(batch) \subseteq Held
    BY <2>1 DEF Contents, Held
  <2>3. Held' = UNION {got[r] : r \in Responses} /\ Held' \subseteq Held
    BY <2>1, <2>2, HeldNext DEF Held
  <2>4. Held' \cap Contents(batch) = {}
    BY <2>3 DEF OnceInv, TakenOnce
  <2> QED
    BY <2>1, <2>2, <2>3, <2>4 DEF OnceInv, TakenOnce, Contents
<1>3. ASSUME NEW R \in SUBSET Responses, Drain(R), UNCHANGED <<shipped, reshipped>>, batch = {}
      PROVE  TakenOnce'
  <2>1. \A r \in Responses : got'[r] = IF r \in R THEN {} ELSE got[r]
    BY <1>3 DEF Drain
  <2>2. \A n \in Contents(batch') : \E r \in R : n \in got[r]
    BY <1>3 DEF Drain, Contents
  <2>3. Held' \subseteq Held
    BY <2>1, <2>2, HeldNext DEF Held
  <2>4. \A r \in Responses : got'[r] \cap Contents(batch') = {}
    BY <2>1, <2>2 DEF OnceInv, TakenOnce
  <2> QED
    BY <1>3, <2>1, <2>3, <2>4 DEF OnceInv, TakenOnce, Contents
<1>4. CASE /\ \A r \in Responses : got'[r] \subseteq got[r]
           /\ batch' = {} /\ UNCHANGED <<shipped, reshipped>>
  <2>1. Contents(batch') = {}
    BY <1>4 DEF Contents
  <2>2. Held' \subseteq Held
    BY <1>4, <2>1, HeldNext DEF Held
  <2> QED
    BY <1>4, <2>1, <2>2 DEF OnceInv, TakenOnce, Contents
<1>5. CASE UNCHANGED <<got, batch, shipped, reshipped>>
  BY <1>5 DEF OnceInv, TakenOnce, Held, Contents
<1>6. Open \in SUBSET Responses /\ Stale \in SUBSET Responses
  BY DEF Open, Stale
<1>7. CASE EvictOpen \/ Shutdown
  <2>1. batch = {} /\ UNCHANGED <<shipped, reshipped>>
    BY <1>7 DEF EvictOpen, Shutdown, BatchIsTaken, sinkVars
  <2>2. Drain(Stale) \/ Drain(Open) \/ UNCHANGED <<got, batch>>
    BY <1>7 DEF EvictOpen, Shutdown, reducerVars
  <2> QED
    BY <1>3, <1>5, <1>6, <2>1, <2>2
<1>8. \/ \E f \in Days, hi \in Positions : ReadChunk(f, hi)
      \/ Accept /\ UNCHANGED got
      \/ EvictOpen \/ Shutdown
      \/ got' = [r \in Responses |-> {}] /\ batch' = {} /\ UNCHANGED <<shipped, reshipped>>
      \/ UNCHANGED got /\ batch' = {} /\ UNCHANGED <<shipped, reshipped>>
      \/ UNCHANGED <<got, batch, shipped, reshipped>>
  BY ZenonT(40) DEF Next, Writer, NextDay, Watch, ReadFile, Reclaim, Deliver, ShipChunk, Failure, vars,
     CreateFile, AppendMember, BeginMember, WriterDies, MoveAway, PutBack, Scan, Abandon,
     Checkpoint, EndPoll, SkipFile, NothingNew, OpenFile, FinishFile, KeepFile, DeleteFile,
     LastSave, Start, Die, Crash, Stop, EmitAccepted, EmitStaleAccepted, FlushAccepted,
     EmitRefused, EmitStaleRefused, Refuse, FlushRefused, CheckpointFails, reducerVars, sinkVars
<1>9. (got' = [r \in Responses |-> {}]) \/ UNCHANGED got =>
          \A r \in Responses : got'[r] \subseteq got[r]
  OBVIOUS
<1> QED
  BY <1>1, <1>2, <1>4, <1>5, <1>7, <1>8, <1>9

\* Untaken in the next state.
UntakenNext(f, g, n) ==
    \A i \in 1..Len(body'[f][g]) : i > n => body'[f][g][i].id \notin Taken'

\* What is written is a new record or none, so what was not taken is not taken
\* as long as nothing is read.
LEMMA UntakenStays ==
    ASSUME IInv, FreshInv, [Next]_vars, Taken' \subseteq Taken,
           NEW f \in Days, NEW g \in Gens, NEW n \in Nat, Untaken(f, g, n)
    PROVE  UntakenNext(f, g, n)
<1>1. TypeOK /\ Named /\ nextId \in Nat /\ nextId # 0
  BY ConstantsAssumption DEF IInv, TypeOK
<1>2. 0 \notin Taken /\ nextId \notin Taken
  <2>1. \A t \in batch : t.got \subseteq FrameIds
    BY <1>1 DEF TypeOK, Turn
  <2>2. Taken \subseteq FrameIds
    BY <1>1, <2>1 DEF TypeOK, Taken, Held, Contents
  <2>3. \A m \in Taken : m < nextId
    BY DEF FreshInv, NothingAhead, Taken, Held, Contents
  <2> QED
    BY <1>1, <2>2, <2>3, ConstantsAssumption DEF FrameIds
<1>3. CASE body' = body
  BY <1>3 DEF Untaken, UntakenNext
<1>4. ASSUME NEW e \in Days, NEW r \in Responses, NEW k \in {"input", "done", "bad"},
             AppendMember(e, r, k)
      PROVE  UntakenNext(f, g, n)
  <2> SUFFICES ASSUME NEW i \in 1..Len(body'[f][g]), i > n
               PROVE  body'[f][g][i].id \notin Taken
    BY DEF UntakenNext
  <2>1. \/ i \in 1..Len(body[f][g]) /\ body'[f][g][i] = body[f][g][i]
        \/ body'[f][g][i].id = 0
        \/ body'[f][g][i].id = nextId
    BY <1>1, <1>4, AppendWrites
  <2> QED
    BY <1>2, <2>1 DEF Untaken
<1>5. \A e \in Days : CreateFile(e) => body' = body
  BY DEF CreateFile
<1> QED
  BY <1>3, <1>4, <1>5, WritingStep

\* A chunk that is read takes nothing elsewhere, nor behind its end.
LEMMA ChunkLeaves ==
    ASSUME IInv, OnceInv, BatchIsTaken, NEW e \in Days, NEW hi \in Positions,
           ReadChunk(e, hi),
           NEW f \in Days, NEW g \in Gens, NEW n \in Nat, Untaken(f, g, n),
           f = e /\ g = st.fp.gen => hi <= n
    PROVE  UntakenNext(f, g, n)
<1> DEFINE chunk == ChunkOf(e, st.fp.gen, st.offset, hi)
<1>1. /\ body' = body /\ pc = "chunk" /\ IsOldest(e, todo) /\ hi \in Nat
      /\ hi <= Len(Handle(e))
  BY DEF ReadChunk, Positions, archiveVars
<1>2. /\ st.fp.gen \in Gens /\ st.offset \in Nat
      /\ \A i \in 1..hi : i \in 1..Len(Handle(e))
  BY <1>1, BehindChunk
<1>3. chunk \in SUBSET Record
  BY ChunkIsRecords
<1>4. Taken' \subseteq Taken \cup {m.id : m \in chunk}
  BY ChunkTaken
<1> SUFFICES ASSUME NEW i \in 1..Len(body[f][g]), i > n, body[f][g][i].id \in Taken'
             PROVE  FALSE
  BY <1>1 DEF UntakenNext
<1>5. body[f][g][i].id \notin Taken
  BY DEF Untaken
<1>6. PICK m \in chunk : m.id = body[f][g][i].id
  BY <1>4, <1>5
<1>7. m.id # 0
  BY <1>3, ConstantsAssumption DEF Record, FrameIds
<1>8. PICK j \in st.offset + 1..hi : m = body[e][st.fp.gen][j]
  BY DEF ChunkOf, Reached
<1>9. j \in 1..Len(body[e][st.fp.gen]) /\ j \in Nat /\ j <= hi
  BY <1>1, <1>2 DEF Handle
<1>10. f = e /\ g = st.fp.gen /\ i = j
  <2>1. body[f][g][i].id = body[e][st.fp.gen][j].id /\ body[f][g][i].id # 0
    BY <1>6, <1>7, <1>8
  <2>2. Distinct /\ st.fp.gen \in Gens
    BY <1>2 DEF OnceInv
  <2> QED
    BY <1>9, <2>1, <2>2, SMTT(30) DEF Distinct
<1> QED
  BY <1>1, <1>9, <1>10

\* Untaken behind one member is untaken behind a later one.
LEMMA UntakenLater ==
    ASSUME NEW f \in Days, NEW g \in Gens, NEW n \in Nat, NEW m \in Nat, n <= m,
           TypeOK, Untaken(f, g, n)
    PROVE  Untaken(f, g, m)
<1>1. Len(body[f][g]) \in Nat
  BY BodyType
<1>2. \A i \in 1..Len(body[f][g]) : i > m => i > n
  BY <1>1
<1> QED
  BY <1>2 DEF Untaken

\* Where a file that is visited is resumed, nothing ahead is taken: its offset
\* is that of the generation under the name, or it starts over with another.
LEMMA ResumeAhead ==
    ASSUME IInv, HeadInv, HeadFills, OnceInv, NEW f \in Days, pc = "next",
           present[f], ~cp[f].deleted
    PROVE  /\ gen[f] \in Gens /\ Resume(f) \in FileState /\ ~Resume(f).deleted
           /\ Resume(f).fp.gen \in {0, gen[f]} /\ cp[f].fp.gen <= gen[f]
           /\ Untaken(f, gen[f], Before(Resume(f), f))
<1>1. gen[f] \in Gens /\ gen[f] # 0 /\ Size(f) \in Nat /\ Resume(f) \in FileState
  BY ResumeType, SizeIsTwicePlus DEF IInv, Named
<1>2. cp[f] \in FileState /\ Sound(f, cp[f])
  BY DEF IInv, TypeOK, Offsets
<1>3. /\ Resume(f).fp = Fingerprint(f)
      /\ Resume(f).offset = (IF Replaced(f) THEN 0 ELSE cp[f].offset)
      /\ ~Resume(f).deleted
  BY <1>2 DEF Resume, NoState, FileState
<1>4. Fingerprint(f).gen \in {0, gen[f]}
  BY DEF Fingerprint, NoFingerprint
<1>5. cp[f].fp.gen <= gen[f] /\ Untaken(f, gen[f], Before(cp[f], f))
  BY <1>1 DEF OnceInv, PlacesAhead, Place, Ahead, Stays, InHand
<1>6. CASE Fingerprint(f).gen = 0
  <2>1. Size(f) = 0
    BY <1>1, <1>6 DEF Fingerprint
  <2>2. PICK n \in Nat : n = Len(body[f][gen[f]])
    BY <1>1, BodyType DEF IInv
  <2>3. n = 0
    BY <1>1, <2>1, <2>2, SizeIsTwicePlus DEF IInv
  <2> QED
    BY <1>1, <1>3, <1>4, <1>5, <2>2, <2>3 DEF Untaken
<1>7. CASE Fingerprint(f).gen = gen[f] /\ cp[f].fp.gen = gen[f]
  <2>1. ~Replaced(f)
    BY <1>7, HeadTells DEF AppendIsNotReplacement
  <2> QED
    BY <1>1, <1>3, <1>5, <1>7, <2>1 DEF Before
<1>8. CASE Fingerprint(f).gen = gen[f] /\ cp[f].fp.gen # gen[f]
  <2>1. Resume(f).offset = 0
    <3>1. CASE cp[f].fp = NoFingerprint
      BY <1>2, <1>3, <3>1 DEF Sound, NoFingerprint
    <3>2. CASE cp[f].fp # NoFingerprint
      <4>1. Fingerprint(f) # NoFingerprint /\ Fingerprint(f) # cp[f].fp
        BY <1>1, <1>8 DEF NoFingerprint
      <4> QED
        BY <1>3, <3>2, <4>1 DEF Replaced
    <3> QED
      BY <3>1, <3>2
  <2> QED
    BY <1>1, <1>3, <1>5, <1>8, <2>1 DEF Before
<1> QED
  BY <1>4, <1>6, <1>7, <1>8

\* Place and the steps that leave it, prune it, set it.
PlaceNext(f) == IF pc' = "down" THEN disk'[f] ELSE cp'[f]
BeforeNext(s, f) == IF s.fp.gen = gen'[f] THEN s.offset ELSE 0

PrunedAway(f) == Place(f).deleted /\ f + TombstoneDays < today /\ PlaceNext(f) = NoState

Settled ==
    /\ gen' = gen /\ \A f \in Days : present'[f] => present[f]
    /\ pc = "emit" => UNCHANGED <<pc, todo, st>>
    /\ \A f \in Days : PlaceNext(f) = Place(f) \/ PrunedAway(f)

LEMMA PlaceStep ==
    ASSUME IInv, Calm, [Next]_vars
    PROVE  \/ \E f \in Days : CreateFile(f)
           \/ \E f \in Days : PutBack(f)
           \/ \E f \in Days : Moved(f)
           \/ \E f \in Days, hi \in Positions : ReadChunk(f, hi) /\ pc' = "emit"
           \/ Settled
<1>1. cp \in [Days -> FileState] /\ disk \in [Days -> FileState]
  BY DEF IInv, TypeOK
<1>2. /\ ~Crash /\ ~EmitRefused /\ ~EmitStaleRefused /\ ~FlushRefused
      /\ ~CheckpointFails /\ "save" \notin Faults
  BY DEF Calm, Crash, EmitRefused, EmitStaleRefused, FlushRefused, Refuse, CheckpointFails,
     SaveFails
<1>3. \A f \in Days : Pruned[f] = cp[f] \/
          (cp[f].deleted /\ f + TombstoneDays < today /\ Pruned[f] = NoState)
  BY DEF Pruned
<1>4. CASE Checkpoint \/ EndPoll
  <2>1. /\ pc \in {"checkpoint", "reclaim"} /\ pc' \in {"reclaim", "idle"}
        /\ UNCHANGED archiveVars /\ cp' \in {cp, Pruned}
    BY <1>2, <1>4 DEF Checkpoint, EndPoll, Save, SaveFails, LeavePoll
  <2> QED
    BY <1>3, <2>1 DEF Settled, PlaceNext, Place, PrunedAway, archiveVars
<1>5. CASE LastSave
  <2>1. pc = "lastSave" /\ pc' = "down" /\ disk' = Pruned /\ UNCHANGED archiveVars
    BY <1>2, <1>5 DEF LastSave, Die
  <2> QED
    BY <1>3, <2>1 DEF Settled, PlaceNext, Place, PrunedAway, archiveVars
<1>6. CASE Start
  BY <1>6 DEF Start, Settled, PlaceNext, Place, archiveVars
<1>7. ASSUME NEW f \in Days, NEW hi \in Positions, ReadChunk(f, hi)
      PROVE  Moved(f) \/ pc' = "emit"
  BY <1>7 DEF ReadChunk, Moved, AdvanceTo
<1>8. CASE /\ UNCHANGED <<gen, cp, disk>> /\ \A f \in Days : present'[f] => present[f]
           /\ pc = "down" <=> pc' = "down"
           /\ pc = "emit" => UNCHANGED <<pc, todo, st>>
  BY <1>8 DEF Settled, PlaceNext, Place
<1>9. ASSUME NEW f \in Days, MoveAway(f)
      PROVE  Settled
  <2>1. /\ UNCHANGED <<gen, cp, disk, pc, todo, st>>
        /\ present' = [present EXCEPT ![f] = FALSE]
    BY <1>9 DEF MoveAway, readVars
  <2>2. \A e \in Days : present'[e] => present[e]
    BY <2>1 DEF IInv, TypeOK
  <2> QED
    BY <2>1, <2>2 DEF Settled, PlaceNext, Place
<1>10. \/ \E f \in Days : CreateFile(f)
       \/ \E f \in Days : PutBack(f)
       \/ \E f \in Days : Moved(f)
       \/ \E f \in Days : MoveAway(f)
       \/ \E f \in Days, hi \in Positions : ReadChunk(f, hi)
       \/ Checkpoint \/ EndPoll \/ LastSave \/ Start
       \/ /\ UNCHANGED <<gen, cp, disk, present>>
          /\ pc = "down" <=> pc' = "down"
          /\ pc = "emit" => UNCHANGED <<pc, todo, st>>
  BY <1>2, ZenonT(60) DEF Next, Writer, NextDay, Watch, ReadFile, Reclaim, Deliver, ShipChunk,
     Failure, vars, AppendMember, BeginMember, WriterDies, Scan, Abandon, EvictOpen, SkipFile, OpenFile,
     KeepFile, Shutdown, Stop, EmitStaleAccepted, FlushAccepted, LeavePoll, Moved,
     archiveVars, readVars
<1> QED
  BY <1>4, <1>5, <1>6, <1>7, <1>8, <1>9, <1>10

InHandNext(f) == pc' = "emit" /\ IsOldest(f, todo') /\ st'.fp.gen = gen'[f]

AheadNext(f, s) ==
    gen'[f] # 0 /\ (present'[f] \/ TombstonesStay) /\ ~InHandNext(f) =>
        UntakenNext(f, gen'[f], BeforeNext(s, f))

StaysNext(f, s) ==
    /\ s.fp.gen <= gen'[f]
    /\ s.deleted /\ present'[f] /\ s.fp.gen = gen'[f] => TombstonesStay

LEMMA PlaceType ==
    ASSUME TypeOK, NEW f \in Days
    PROVE  Place(f) \in FileState /\ Before(Place(f), f) \in Nat /\ gen[f] \in 0..MaxGen
  BY DEF TypeOK, Place, Before, FileState

\* A file no step has touched.
LEMMA PlaceStays ==
    ASSUME IInv, FreshInv, OnceInv, [Next]_vars, Taken' \subseteq Taken, NEW f \in Days,
           gen'[f] = gen[f], present'[f] => present[f] \/ TombstonesStay,
           InHand(f) => InHandNext(f), PlaceNext(f) = Place(f)
    PROVE  AheadNext(f, PlaceNext(f)) /\ StaysNext(f, PlaceNext(f))
<1>1. Ahead(f, Place(f)) /\ Stays(f, Place(f))
  BY DEF OnceInv, PlacesAhead
<1>2. BeforeNext(PlaceNext(f), f) = Before(Place(f), f)
  BY DEF BeforeNext, Before
<1>3. StaysNext(f, PlaceNext(f))
  BY <1>1 DEF Stays, StaysNext
<1>4. ASSUME gen[f] # 0, Untaken(f, gen[f], Before(Place(f), f))
      PROVE  UntakenNext(f, gen[f], Before(Place(f), f))
  <2>1. gen[f] \in Gens /\ Before(Place(f), f) \in Nat
    BY <1>4, PlaceType, ConstantsAssumption DEF IInv, Gens
  <2> QED
    BY <1>4, <2>1, UntakenStays
<1> QED
  BY <1>1, <1>2, <1>3, <1>4 DEF Ahead, AheadNext

\* A file whose tombstone is pruned: what is under its name was not read.
LEMMA PrunedIsUnread ==
    ASSUME IInv, FreshInv, OnceInv, [Next]_vars, Taken' \subseteq Taken, Settled,
           NEW f \in Days, PrunedAway(f)
    PROVE  AheadNext(f, PlaceNext(f)) /\ StaysNext(f, PlaceNext(f))
<1>1. PlaceNext(f) = NoState /\ Place(f).deleted /\ gen[f] \in Nat
  BY PlaceType DEF PrunedAway, IInv
<1>2. ~TombstonesStay
  <2>1. f \in Nat /\ f >= 1 /\ today \in Nat /\ today <= MaxDay
    BY ConstantsAssumption DEF IInv, TypeOK, Days
  <2> QED
    BY <2>1, ConstantsAssumption DEF PrunedAway, TombstonesStay
<1>3. StaysNext(f, NoState)
  BY <1>1 DEF StaysNext, NoState, NoFingerprint, Settled
<1>4. ASSUME gen[f] # 0, present[f], ~InHand(f)
      PROVE  UntakenNext(f, gen[f], 0)
  <2>1. Before(Place(f), f) = 0
    BY <1>1, <1>2, <1>4 DEF OnceInv, PlacesAhead, Stays, Before
  <2>2. Untaken(f, gen[f], 0)
    BY <1>4, <2>1 DEF OnceInv, PlacesAhead, Ahead
  <2>3. gen[f] \in Gens
    BY <1>4, PlaceType, ConstantsAssumption DEF IInv, Gens
  <2> QED
    BY <2>2, <2>3, UntakenStays
<1>5. InHand(f) => InHandNext(f)
  BY DEF Settled, InHand, InHandNext
<1>6. BeforeNext(NoState, f) = 0
  BY DEF BeforeNext, NoState
<1> QED
  BY <1>1, <1>2, <1>3, <1>4, <1>5, <1>6 DEF AheadNext, Settled

\* The file being read, when its position in memory becomes n.
LEMMA PlaceAdvances ==
    ASSUME IInv, OnceInv, NEW f \in Days, IsOldest(f, todo), pc \in {"chunk", "emit"},
           UNCHANGED <<gen, present>>, pc' # "down",
           NEW n \in Nat, cp'[f].fp = st.fp, cp'[f].offset = n, ~cp'[f].deleted,
           UntakenNext(f, st.fp.gen, n),
           gen[f] # 0 /\ st.fp.gen # gen[f] /\ Untaken(f, gen[f], 0) =>
               UntakenNext(f, gen[f], 0)
    PROVE  AheadNext(f, PlaceNext(f)) /\ StaysNext(f, PlaceNext(f))
<1>1. /\ PlaceNext(f) = cp'[f] /\ Place(f) = cp[f]
      /\ cp[f].fp.gen <= st.fp.gen /\ st.fp.gen <= gen[f]
  BY DEF PlaceNext, Place, OnceInv, ReadingAhead
<1>2. cp[f].fp.gen \in Nat /\ st.fp.gen \in Nat /\ gen[f] \in Nat
  BY ConstantsAssumption DEF IInv, TypeOK, FileState
<1>3. StaysNext(f, cp'[f])
  BY <1>1 DEF StaysNext
<1>4. CASE st.fp.gen = gen[f]
  BY <1>1, <1>3, <1>4 DEF AheadNext, BeforeNext
<1>5. CASE st.fp.gen # gen[f]
  <2>1. Before(cp[f], f) = 0 /\ BeforeNext(cp'[f], f) = 0 /\ ~InHand(f)
    BY <1>1, <1>2, <1>5 DEF Before, BeforeNext, InHand
  <2>2. gen[f] # 0 /\ (present[f] \/ TombstonesStay) => Untaken(f, gen[f], 0)
    BY <1>1, <2>1 DEF OnceInv, PlacesAhead, Ahead
  <2> QED
    BY <1>1, <1>3, <1>5, <2>1, <2>2 DEF AheadNext
<1> QED
  BY <1>4, <1>5

\* A step that reads, finishes, skips or deletes file e touches no other file.
LEMMA OthersStay ==
    ASSUME IInv, FreshInv, OnceInv, BatchIsTaken, [Next]_vars, NEW e \in Days, Moved(e),
           NEW f \in Days, f # e
    PROVE  AheadNext(f, PlaceNext(f)) /\ StaysNext(f, PlaceNext(f))
<1>1. /\ cp \in [Days -> FileState] /\ present \in [Days -> BOOLEAN]
      /\ todo \in SUBSET Days
  BY DEF IInv, TypeOK
<1>2. /\ PlaceNext(f) = Place(f) /\ gen' = gen /\ present'[f] = present[f]
      /\ pc # "down" /\ (pc = "emit" => IsOldest(e, todo))
  BY <1>1 DEF Moved, ReadChunk, EmitAccepted, FinishFile, NothingNew, DeleteFile, AdvanceTo,
     PlaceNext, Place, archiveVars
<1>3. ~InHand(f)
  BY <1>1, <1>2, OldestIsUnique DEF InHand
<1>4. ASSUME NEW hi \in Positions, ReadChunk(e, hi)
      PROVE  AheadNext(f, PlaceNext(f)) /\ StaysNext(f, PlaceNext(f))
  <2>1. Ahead(f, Place(f)) /\ Stays(f, Place(f))
    BY DEF OnceInv, PlacesAhead
  <2>2. ASSUME gen[f] # 0, Untaken(f, gen[f], Before(Place(f), f))
        PROVE  UntakenNext(f, gen[f], Before(Place(f), f))
    <3>1. gen[f] \in Gens /\ Before(Place(f), f) \in Nat
      BY <2>2, PlaceType, ConstantsAssumption DEF IInv, Gens
    <3> QED
      BY <1>4, <2>2, <3>1, ChunkLeaves
  <2> QED
    BY <1>2, <1>3, <2>1, <2>2 DEF Ahead, Stays, AheadNext, StaysNext, Before, BeforeNext
<1>5. CASE \A d \in Days, hi \in Positions : ~ReadChunk(d, hi)
  BY <1>2, <1>3, <1>5, TakenStays, PlaceStays
<1>6. ASSUME NEW d \in Days, NEW hi \in Positions, ReadChunk(d, hi)
      PROVE  \E h \in Positions : ReadChunk(e, h)
  <2>1. pc = "chunk" /\ pc' \in {"chunk", "emit"} /\ IsOldest(d, todo) /\ todo' = todo
    BY <1>6 DEF ReadChunk, AdvanceTo
  <2>2. ~EmitAccepted(e) /\ ~FinishFile(e) /\ ~NothingNew(e) /\ ~DeleteFile(e)
    BY <2>1 DEF EmitAccepted, FinishFile, NothingNew, DeleteFile
  <2> QED
    BY <2>2 DEF Moved
<1> QED
  BY <1>4, <1>5, <1>6

\* The file such a step is about.
LEMMA MovedStays ==
    ASSUME IInv, FreshInv, HeadInv, HeadFills, OnceInv, BatchIsTaken, [Next]_vars,
           NEW f \in Days, Moved(f)
    PROVE  AheadNext(f, PlaceNext(f)) /\ StaysNext(f, PlaceNext(f))
<1>1. /\ cp \in [Days -> FileState] /\ st \in FileState /\ TypeOK
      /\ gen[f] \in 0..MaxGen /\ 0 \in Nat
  BY DEF IInv, TypeOK
<1>2. gen[f] # 0 => gen[f] \in Gens
  BY <1>1, ConstantsAssumption DEF Gens
<1>3. ASSUME NEW hi \in Positions, ReadChunk(f, hi), pc' = "chunk"
      PROVE  AheadNext(f, PlaceNext(f)) /\ StaysNext(f, PlaceNext(f))
  <2>1. /\ pc = "chunk" /\ IsOldest(f, todo) /\ hi \in Nat /\ hi <= Len(Handle(f))
        /\ AdvanceTo(f, hi) /\ UNCHANGED <<gen, present>> /\ st.offset < hi
    BY <1>3 DEF ReadChunk, Positions, archiveVars
  <2>2. cp'[f].fp = st.fp /\ cp'[f].offset = hi /\ cp'[f].deleted = st.deleted
    BY <1>1, <2>1 DEF AdvanceTo, FileState
  <2>3. ~st.deleted /\ Untaken(f, st.fp.gen, st.offset)
    BY <2>1 DEF OnceInv, ReadingAhead, Stand
  <2>4. st.fp.gen \in Gens /\ st.offset \in Nat /\ st.offset <= hi
    BY <2>1, BehindChunk
  <2>5. Untaken(f, st.fp.gen, hi)
    BY <1>1, <2>1, <2>3, <2>4, UntakenLater
  <2>6. UntakenNext(f, st.fp.gen, hi)
    BY <1>3, <2>1, <2>4, <2>5, ChunkLeaves
  <2>7. gen[f] # 0 /\ st.fp.gen # gen[f] /\ Untaken(f, gen[f], 0) =>
            UntakenNext(f, gen[f], 0)
    BY <1>1, <1>2, <1>3, ChunkLeaves
  <2> QED
    BY <1>3, <2>1, <2>2, <2>3, <2>6, <2>7, PlaceAdvances
<1>4. ASSUME Taken' \subseteq Taken
      PROVE  gen[f] # 0 /\ Untaken(f, gen[f], 0) => UntakenNext(f, gen[f], 0)
  BY <1>1, <1>2, <1>4, UntakenStays
<1>5. CASE EmitAccepted(f)
  <2>1. /\ pc = "emit" /\ pc' = "chunk" /\ IsOldest(f, todo) /\ upto \in Nat
        /\ AdvanceTo(f, upto) /\ UNCHANGED <<gen, present>>
    BY <1>1, <1>5 DEF EmitAccepted, AdvanceTo, TypeOK, archiveVars
  <2>2. cp'[f].fp = st.fp /\ cp'[f].offset = upto /\ cp'[f].deleted = st.deleted
    BY <1>1, <2>1 DEF AdvanceTo, FileState
  <2>3. ~st.deleted /\ Untaken(f, st.fp.gen, upto)
    BY <2>1 DEF OnceInv, ReadingAhead, Stand
  <2>4. st.fp.gen \in Gens
    BY <1>1, <2>1, ReadFacts, ConstantsAssumption DEF FileState, Gens
  <2>5. Taken' \subseteq Taken
    BY <2>1, TakenStays DEF ReadChunk
  <2>6. UntakenNext(f, st.fp.gen, upto)
    BY <2>1, <2>3, <2>4, <2>5, UntakenStays
  <2> QED
    BY <1>4, <2>1, <2>2, <2>3, <2>5, <2>6, PlaceAdvances
<1>6. CASE FinishFile(f)
  <2>1. /\ pc = "chunk" /\ pc' = "next" /\ IsOldest(f, todo) /\ UNCHANGED <<gen, present>>
        /\ cp' = [cp EXCEPT ![f] = [st EXCEPT !.size = statSize]]
    BY <1>6 DEF FinishFile, archiveVars
  <2>2. /\ cp'[f].fp = st.fp /\ cp'[f].offset = st.offset /\ st.offset \in Nat
        /\ cp'[f].deleted = st.deleted
    BY <1>1, <2>1 DEF FileState
  <2>3. ~st.deleted /\ Untaken(f, st.fp.gen, st.offset)
    BY <2>1 DEF OnceInv, ReadingAhead, Stand
  <2>4. st.fp.gen \in Gens
    BY <1>1, <2>1, ReadFacts, ConstantsAssumption DEF FileState, Gens
  <2>5. Taken' \subseteq Taken
    BY <2>1, TakenStays DEF ReadChunk, AdvanceTo
  <2>6. UntakenNext(f, st.fp.gen, st.offset)
    BY <2>2, <2>3, <2>4, <2>5, UntakenStays
  <2> QED
    BY <1>4, <2>1, <2>2, <2>3, <2>5, <2>6, PlaceAdvances
<1>7. CASE NothingNew(f)
  <2>1. /\ pc = "next" /\ present[f] /\ ~cp[f].deleted /\ pc' = "next"
        /\ UNCHANGED <<gen, present>> /\ cp' = [cp EXCEPT ![f] = Resume(f)]
    BY <1>7 DEF NothingNew, archiveVars
  <2>2. /\ gen[f] \in Gens /\ Resume(f) \in FileState /\ ~Resume(f).deleted
        /\ Resume(f).fp.gen \in {0, gen[f]}
        /\ Untaken(f, gen[f], Before(Resume(f), f))
    BY <2>1, ResumeAhead
  <2>3. PlaceNext(f) = Resume(f)
    BY <1>1, <2>1 DEF PlaceNext
  <2>4. Taken' \subseteq Taken
    BY <2>1, TakenStays DEF ReadChunk
  <2>5. Before(Resume(f), f) \in Nat
    BY <2>2 DEF Before, FileState
  <2>6. UntakenNext(f, gen[f], Before(Resume(f), f))
    BY <2>2, <2>4, <2>5, UntakenStays
  <2>7. Resume(f).fp.gen <= gen[f]
    BY <1>1, <2>2
  <2> QED
    BY <2>1, <2>2, <2>3, <2>6, <2>7 DEF AheadNext, StaysNext, Before, BeforeNext
<1>8. CASE DeleteFile(f)
  <2>1. /\ pc = "reclaim" /\ pc' = "reclaim" /\ present[f] /\ gen' = gen
        /\ cp' = [cp EXCEPT ![f].deleted = TRUE] /\ ~present'[f]
    BY <1>8 DEF DeleteFile, IInv, TypeOK
  <2>2. PlaceNext(f).fp = Place(f).fp /\ PlaceNext(f).offset = Place(f).offset
    BY <1>1, <2>1 DEF PlaceNext, Place, FileState
  <2>3. Taken' \subseteq Taken
    BY <2>1, TakenStays DEF ReadChunk
  <2>4. ASSUME gen[f] # 0
        PROVE  UntakenNext(f, gen[f], Before(Place(f), f))
    <3>1. Untaken(f, gen[f], Before(Place(f), f))
      BY <2>1, <2>4 DEF OnceInv, PlacesAhead, Ahead, InHand
    <3> QED
      BY <1>1, <1>2, <2>3, <2>4, <3>1, PlaceType, UntakenStays
  <2>5. Stays(f, Place(f))
    BY DEF OnceInv, PlacesAhead
  <2> QED
    BY <2>1, <2>2, <2>4, <2>5 DEF AheadNext, StaysNext, Stays, Before, BeforeNext
<1> QED
  BY <1>3, <1>5, <1>6, <1>7, <1>8 DEF Moved

LEMMA PlacesAheadStep ==
    ASSUME IInv, FreshInv, HeadInv, HeadFills, OnceInv, BatchIsTaken, Calm,
           "putback" \notin Faults \/ TombstonesStay, [Next]_vars
    PROVE  PlacesAhead'
<1> SUFFICES ASSUME NEW f \in Days
             PROVE  AheadNext(f, PlaceNext(f)) /\ StaysNext(f, PlaceNext(f))
  BY DEF PlacesAhead, Ahead, AheadNext, Stays, StaysNext, Place, PlaceNext, Before,
     BeforeNext, InHand, InHandNext, IsOldest, Untaken, UntakenNext, Taken, Held, Contents
<1>1. TypeOK /\ Ahead(f, Place(f)) /\ Stays(f, Place(f)) /\ gen[f] \in 0..MaxGen
  BY DEF IInv, TypeOK, OnceInv, PlacesAhead
<1>2. gen[f] # 0 => gen[f] \in Gens
  BY <1>1, ConstantsAssumption DEF Gens
<1>3. ASSUME NEW e \in Days, CreateFile(e)
      PROVE  AheadNext(f, PlaceNext(f)) /\ StaysNext(f, PlaceNext(f))
  <2>1. /\ UNCHANGED <<body, pc, cp, disk, st, todo>> /\ gen[e] < MaxGen
        /\ present' = [present EXCEPT ![e] = TRUE] /\ gen' = [gen EXCEPT ![e] = @ + 1]
    BY <1>3 DEF CreateFile, readVars
  <2>2. Taken' \subseteq Taken
    BY <1>3 DEF CreateFile, reducerVars, sinkVars, Taken, Held, Contents
  <2>3. PlaceNext(f) = Place(f)
    BY <2>1 DEF Place, PlaceNext
  <2>4. CASE f # e
    <3>1. gen'[f] = gen[f] /\ present'[f] = present[f]
      BY <1>1, <2>1, <2>4 DEF TypeOK
    <3> QED
      BY <2>1, <2>2, <2>3, <3>1, PlaceStays DEF InHand, InHandNext
  <2>5. CASE f = e
    <3>1. gen'[f] = gen[f] + 1 /\ gen'[f] \in Gens
      BY <1>1, <2>1, <2>5, ConstantsAssumption DEF TypeOK, Gens
    <3>2. body'[f][gen'[f]] = <<>>
      <4>1. gen'[f] > gen[f]
        BY <1>1, <3>1, ConstantsAssumption
      <4> QED
        BY <2>1, <3>1, <4>1 DEF FreshInv, Unborn
    <3>3. AheadNext(f, PlaceNext(f))
      BY <3>2 DEF AheadNext, UntakenNext
    <3>4. Place(f).fp.gen \in Nat
      BY <1>1, PlaceType, ConstantsAssumption DEF FileState
    <3>5. Place(f).fp.gen < gen'[f]
      BY <1>1, <3>1, <3>4, ConstantsAssumption DEF Stays
    <3> QED
      BY <2>3, <3>1, <3>3, <3>4, <3>5, ConstantsAssumption DEF StaysNext, Gens
  <2> QED
    BY <2>4, <2>5
<1>4. ASSUME NEW e \in Days, PutBack(e)
      PROVE  AheadNext(f, PlaceNext(f)) /\ StaysNext(f, PlaceNext(f))
  <2>1. UNCHANGED <<gen, pc, cp, disk, st, todo>> /\ TombstonesStay
    BY <1>4 DEF PutBack, readVars
  <2>2. Taken' \subseteq Taken
    BY <1>4 DEF PutBack, reducerVars, sinkVars, Taken, Held, Contents
  <2> QED
    BY <2>1, <2>2, PlaceStays DEF InHand, InHandNext, Place, PlaceNext
<1>5. ASSUME NEW e \in Days, Moved(e)
      PROVE  AheadNext(f, PlaceNext(f)) /\ StaysNext(f, PlaceNext(f))
  BY <1>5, MovedStays, OthersStay
<1>6. ASSUME NEW e \in Days, NEW hi \in Positions, ReadChunk(e, hi), pc' = "emit"
      PROVE  AheadNext(f, PlaceNext(f)) /\ StaysNext(f, PlaceNext(f))
  <2>1. /\ UNCHANGED <<gen, present, cp, disk, st, todo>> /\ pc = "chunk"
        /\ IsOldest(e, todo)
    BY <1>6 DEF ReadChunk, AdvanceTo, archiveVars
  <2>2. PlaceNext(f) = Place(f)
    BY <1>6, <2>1 DEF Place, PlaceNext
  <2>3. ASSUME gen[f] # 0, Untaken(f, gen[f], Before(Place(f), f)), ~InHandNext(f)
        PROVE  UntakenNext(f, gen[f], Before(Place(f), f))
    <3>1. ~(f = e /\ gen[f] = st.fp.gen)
      BY <1>6, <2>1, <2>3 DEF InHandNext
    <3> QED
      BY <1>1, <1>2, <1>6, <2>3, <3>1, PlaceType, ChunkLeaves
  <2>4. ~InHand(f)
    BY <2>1 DEF InHand
  <2> QED
    BY <1>1, <2>1, <2>2, <2>3, <2>4 DEF Ahead, Stays, AheadNext, StaysNext, Before, BeforeNext
<1>7. CASE Settled /\ \A e \in Days, hi \in Positions : ~ReadChunk(e, hi)
  <2>1. Taken' \subseteq Taken
    BY <1>7, TakenStays
  <2>2. CASE PrunedAway(f)
    BY <1>7, <2>1, <2>2, PrunedIsUnread
  <2>3. CASE PlaceNext(f) = Place(f)
    BY <1>7, <2>1, <2>3, PlaceStays DEF Settled, InHand, InHandNext
  <2> QED
    BY <1>7, <2>2, <2>3 DEF Settled
<1>8. ASSUME NEW e \in Days, NEW hi \in Positions, ReadChunk(e, hi)
      PROVE  Moved(e) \/ pc' = "emit"
  BY <1>8 DEF ReadChunk, AdvanceTo, Moved
<1> QED
  BY <1>3, <1>4, <1>5, <1>6, <1>7, <1>8, PlaceStep

\* A step that leaves a file open mid-read, by what it does to its position.
LEMMA StillAhead ==
    ASSUME [Next]_vars, pc' \in {"chunk", "emit"}
    PROVE  \/ \E f \in Days : OpenFile(f)
           \/ \E f \in Days, hi \in Positions : ReadChunk(f, hi)
           \/ \E f \in Days : EmitAccepted(f)
           \/ UNCHANGED <<pc, todo, st, upto, cp>>
  BY ZenonT(60) DEF Next, Writer, NextDay, Watch, ReadFile, Reclaim, Deliver, ShipChunk, Failure, vars,
     CreateFile, AppendMember, BeginMember, WriterDies, MoveAway, PutBack, Scan, Abandon,
     LeavePoll, EvictOpen, Checkpoint, EndPoll, SkipFile, NothingNew, FinishFile, KeepFile,
     DeleteFile, Shutdown, LastSave, Start, Die, Crash, Stop, EmitStaleAccepted,
     FlushAccepted, EmitRefused, EmitStaleRefused, FlushRefused, CheckpointFails, readVars

LEMMA ReadingAheadStep ==
    ASSUME IInv, FreshInv, HeadInv, HeadFills, OnceInv, BatchIsTaken, [Next]_vars
    PROVE  ReadingAhead'
<1> DEFINE Goal(f) ==
               /\ UntakenNext(f, st'.fp.gen, IF pc' = "emit" THEN upto' ELSE st'.offset)
               /\ cp'[f].fp.gen <= st'.fp.gen /\ st'.fp.gen <= gen'[f] /\ ~st'.deleted
<1> SUFFICES ASSUME pc' \in {"chunk", "emit"}, NEW f \in Days, IsOldest(f, todo')
             PROVE  Goal(f)
  BY DEF ReadingAhead, IsOldest, Stand, Untaken, UntakenNext, Taken, Held, Contents
<1>1. /\ todo \in SUBSET Days /\ TypeOK /\ st \in FileState
      /\ cp \in [Days -> FileState] /\ gen \in [Days -> 0..MaxGen]
  BY DEF IInv, TypeOK
<1>2. ASSUME NEW e \in Days, OpenFile(e)
      PROVE  Goal(f)
  <2>1. /\ pc = "next" /\ pc' = "chunk" /\ present[e] /\ ~cp[e].deleted
        /\ UNCHANGED <<cp, gen, todo>> /\ st' = Resume(e) /\ IsOldest(e, todo)
        /\ Size(e) # 2 * Resume(e).offset
    BY <1>2 DEF OpenFile, archiveVars
  <2>2. e = f
    BY <1>1, <2>1, OldestIsUnique
  <2>3. Taken' \subseteq Taken
    BY <2>1, TakenStays DEF ReadChunk
  <2>4. /\ gen[f] \in Gens /\ ~Resume(f).deleted /\ cp[f].fp.gen <= gen[f]
        /\ Resume(f).fp.gen = gen[f] /\ Resume(f) \in FileState
        /\ Untaken(f, gen[f], Resume(f).offset)
    BY <2>1, <2>2, ResumeAhead, ResumeSound DEF Before
  <2>5. UntakenNext(f, gen[f], Resume(f).offset)
    BY <2>3, <2>4, UntakenStays DEF FileState
  <2>6. gen[f] <= gen[f]
    BY <2>4, ConstantsAssumption DEF Gens
  <2> QED
    BY <2>1, <2>2, <2>4, <2>5, <2>6
<1>3. ASSUME pc \in {"chunk", "emit"}, IsOldest(f, todo)
      PROVE  /\ st.fp.gen \in Gens /\ Stand \in Nat /\ Untaken(f, st.fp.gen, Stand)
             /\ cp[f].fp.gen <= st.fp.gen /\ st.fp.gen <= gen[f] /\ ~st.deleted
  <2>1. st.fp.gen # 0
    BY <1>3, ReadFacts
  <2>2. st.fp.gen \in Gens
    BY <1>1, <2>1, ConstantsAssumption DEF FileState, Gens
  <2>3. Stand \in Nat
    BY <1>1 DEF Stand, TypeOK, FileState
  <2>4. /\ Untaken(f, st.fp.gen, Stand)
        /\ cp[f].fp.gen <= st.fp.gen /\ st.fp.gen <= gen[f] /\ ~st.deleted
    BY <1>3 DEF OnceInv, ReadingAhead
  <2> QED
    BY <2>2, <2>3, <2>4
<1>4. ASSUME NEW e \in Days, NEW hi \in Positions, ReadChunk(e, hi)
      PROVE  Goal(f)
  <2>1. /\ pc = "chunk" /\ IsOldest(e, todo) /\ UNCHANGED <<gen, todo>> /\ hi \in Nat
        /\ st.offset < hi
        /\ \/ AdvanceTo(e, hi)
           \/ pc' = "emit" /\ upto' = hi /\ UNCHANGED <<st, cp>>
    BY <1>4 DEF ReadChunk, Positions, archiveVars
  <2>2. e = f
    BY <1>1, <2>1, OldestIsUnique
  <2>3. st.offset \in Nat /\ st.offset <= hi /\ Stand = st.offset
    BY <1>1, <2>1 DEF Stand, FileState
  <2>4. Untaken(f, st.fp.gen, hi)
    BY <1>1, <1>3, <2>1, <2>2, <2>3, UntakenLater
  <2>5. UntakenNext(f, st.fp.gen, hi)
    BY <1>3, <1>4, <2>1, <2>2, <2>4, ChunkLeaves
  <2>6. CASE AdvanceTo(e, hi)
    <3>1. /\ pc' = "chunk" /\ st'.fp = st.fp /\ st'.offset = hi
          /\ st'.deleted = st.deleted /\ cp'[f] = st'
      BY <1>1, <2>2, <2>6 DEF AdvanceTo, FileState
    <3>2. st.fp.gen <= st.fp.gen
      BY <1>3, <2>1, <2>2, ConstantsAssumption DEF Gens
    <3> QED
      BY <1>3, <2>1, <2>2, <2>5, <3>1, <3>2
  <2>7. CASE pc' = "emit" /\ upto' = hi /\ UNCHANGED <<st, cp>>
    BY <1>3, <2>1, <2>2, <2>5, <2>7
  <2> QED
    BY <2>1, <2>6, <2>7
<1>5. ASSUME NEW e \in Days, EmitAccepted(e)
      PROVE  Goal(f)
  <2>1. /\ pc = "emit" /\ IsOldest(e, todo) /\ UNCHANGED <<gen, todo>>
        /\ AdvanceTo(e, upto)
    BY <1>5 DEF EmitAccepted, archiveVars
  <2>2. e = f
    BY <1>1, <2>1, OldestIsUnique
  <2>3. /\ pc' = "chunk" /\ st'.fp = st.fp /\ st'.offset = upto
        /\ st'.deleted = st.deleted /\ cp'[f] = st'
    BY <1>1, <2>1, <2>2 DEF AdvanceTo, FileState
  <2>4. Taken' \subseteq Taken
    BY <2>1, TakenStays DEF ReadChunk
  <2>5. UntakenNext(f, st.fp.gen, upto)
    BY <1>3, <2>1, <2>2, <2>4, UntakenStays DEF Stand
  <2>6. st.fp.gen <= st.fp.gen
    BY <1>3, <2>1, <2>2, ConstantsAssumption DEF Gens
  <2> QED
    BY <1>3, <2>1, <2>2, <2>3, <2>5, <2>6
<1>6. CASE UNCHANGED <<pc, todo, st, upto, cp>> /\ \A e \in Days, hi \in Positions : ~ReadChunk(e, hi)
  <2>1. UntakenNext(f, st.fp.gen, Stand)
    BY <1>3, <1>6, TakenStays, UntakenStays
  <2>2. gen[f] <= gen'[f] /\ gen'[f] \in Nat
    <3>1. ASSUME NEW e \in Days, CreateFile(e)
          PROVE  gen[f] <= gen'[f] /\ gen'[f] \in Nat
      BY <1>1, <3>1, ConstantsAssumption DEF CreateFile
    <3>2. ASSUME NEW e \in Days, NEW r \in Responses, NEW k \in {"input", "done", "bad"},
                 AppendMember(e, r, k)
          PROVE  gen' = gen
      BY <3>2 DEF AppendMember
    <3> QED
      BY <1>1, <3>1, <3>2, WritingStep, ConstantsAssumption
  <2>3. st.fp.gen <= gen'[f]
    BY <1>1, <1>3, <1>6, <2>2, ConstantsAssumption DEF Gens
  <2> QED
    BY <1>3, <1>6, <2>1, <2>3 DEF Stand
<1> QED
  BY <1>2, <1>4, <1>5, <1>6, StillAhead

LEMMA InitOnceInv == Init => OnceInv
<1> SUFFICES ASSUME Init
             PROVE  OnceInv
  OBVIOUS
<1>1. \A f \in Days, g \in Gens : body[f][g] = <<>>
  BY DEF Init
<1>2. Distinct
  BY <1>1 DEF Distinct
<1>3. TakenOnce /\ ReadingAhead
  BY DEF Init, TakenOnce, Held, Contents, ReadingAhead
<1>4. PlacesAhead
  BY DEF Init, PlacesAhead, Ahead, Stays, Place, NoState, NoFingerprint
<1> QED
  BY <1>2, <1>3, <1>4 DEF OnceInv

LEMMA OnceInvStep ==
    ASSUME IInv, FreshInv, HeadInv, HeadFills, OnceInv, BatchIsTaken, Calm,
           "putback" \notin Faults \/ TombstonesStay, [Next]_vars
    PROVE  OnceInv'
<1>1. Distinct'
  BY DistinctStep DEF OnceInv
<1> QED
  BY <1>1, TakenOnceStep, ReadingAheadStep, PlacesAheadStep DEF OnceInv


\* Every variable keeps its shape: no offset is negative, no fingerprint names
\* a generation that does not exist, every batch is a set of turns.  It is the
\* typing New, Poll, readFile, reclaim and shutdown rely on.
THEOREM TypeCorrect == Spec => []TypeOK
<1>1. IInv => TypeOK
  BY DEF IInv
<1> QED
  BY InitIInv, IInvStep, <1>1, PTL DEF Spec

\* Poll's "only advance past bytes whose turns were accepted by the sink", for
\* any number of files, records, crashes and failing emits and saves: neither
\* the offsets in memory nor those on disk are ever past a completed response
\* that no sink accepted, save one dropped behind a record that is not JSON.
THEOREM NeverPastUndelivered == Spec => []CompletionsDelivered
<1>1. IInv => CompletionsDelivered
  <2> SUFFICES ASSUME IInv, NEW f \in Days, NEW s \in {cp[f], disk[f]}, s.fp.gen # 0
               PROVE  PassedBy(s, f, "done") \subseteq shipped \cup skipped
    BY DEF CompletionsDelivered
  <2>1. Sound(f, s)
    BY DEF IInv, Offsets
  <2> QED
    BY <2>1 DEF Sound, PassedBy
<1> QED
  BY InitIInv, IInvStep, <1>1, PTL DEF Spec

\* reclaim's promise, for any number of files and any retention: it deletes a
\* file only when the writer has left it, the offset is at the end of the
\* generation now under that name and the completions in it were accepted (or
\* dropped behind a bad record), whatever the writer did between the read and
\* the deletion and even when files are moved away meanwhile.  A file put back
\* under an old name is the one thing it does not survive.
THEOREM OnlyIngestedIsDeleted ==
    ASSUME "putback" \notin Faults
    PROVE  Spec => DeletesOnlyIngested
<1>1. ASSUME IInv, ReclaimInv, [Next]_vars, NEW f \in Days,
             pc = "reclaim", cp'[f].deleted, ~cp[f].deleted
      PROVE  /\ ~MayWrite(f)
             /\ cp[f].fp.gen = gen[f]
             /\ 2 * cp[f].offset = Size(f)
             /\ PassedBy(cp[f], f, "done") \subseteq shipped \cup skipped
  <2>1. DeleteFile(f)
    <3>1. ~(cp'[f] \in {cp[f], Pruned[f], NoState})
      BY <1>1 DEF Pruned, NoState
    <3>2. cp \in [Days -> FileState]
      BY <1>1 DEF IInv, TypeOK
    <3>3. ASSUME NEW e \in Days, DeleteFile(e)
          PROVE  e = f
      BY <1>1, <3>2, <3>3 DEF DeleteFile
    <3> QED
      BY <1>1, <3>1, <3>3 DEF Next, Writer, NextDay, Watch, ReadFile, Reclaim, Deliver,
         ShipChunk, Failure, vars, CreateFile, AppendMember, BeginMember, WriterDies,
         MoveAway, PutBack, Scan, Abandon, EvictOpen, Checkpoint, EndPoll, SkipFile,
         NothingNew, OpenFile, ReadChunk, FinishFile, KeepFile, Shutdown, LastSave, Start,
         Die, Crash, Stop, EmitAccepted, EmitStaleAccepted, FlushAccepted, EmitRefused,
         EmitStaleRefused, FlushRefused, CheckpointFails, SaveFails, Save
  <2>2. f \in todo /\ Left(f) /\ present[f] /\ Ingested(f)
    BY <1>1, <2>1 DEF DeleteFile, IsOldest, ReclaimInv, ToVisit
  <2>3. cp[f].fp.gen = gen[f] /\ 2 * cp[f].offset = Size(f)
    BY <1>1, <2>2 DEF ReclaimInv, Visited
  <2>4. ~MayWrite(f)
    <3>1. PICK e \in files : ~(e <= f)
      BY <2>2 DEF Left, IsNewest
    <3>2. e \in Days /\ gen[e] # 0
      BY <1>1, <3>1 DEF IInv, TypeOK, ReclaimInv, FilesNamed
    <3> QED
      BY <3>1, <3>2, ConstantsAssumption DEF MayWrite, Days
  <2>5. cp[f].fp.gen # 0 /\ Sound(f, cp[f])
    BY <1>1, <2>2, <2>3 DEF IInv, Named, Offsets
  <2>6. PassedBy(cp[f], f, "done") \subseteq shipped \cup skipped
    BY <2>5 DEF Sound, PassedBy
  <2> QED
    BY <2>3, <2>4, <2>6
<1>2. IInv /\ ReclaimInv /\ [Next]_vars =>
          [\A f \in Days :
              pc = "reclaim" /\ cp'[f].deleted /\ ~cp[f].deleted =>
                  /\ ~MayWrite(f)
                  /\ cp[f].fp.gen = gen[f]
                  /\ 2 * cp[f].offset = Size(f)
                  /\ PassedBy(cp[f], f, "done") \subseteq shipped \cup skipped]_vars
  BY <1>1
<1>3. IInv /\ ReclaimInv /\ [Next]_vars => IInv' /\ ReclaimInv'
  BY IInvStep, ReclaimInvStep
<1>4. Init => IInv /\ ReclaimInv
  BY InitIInv, InitReclaimInv
<1> QED
  BY <1>2, <1>3, <1>4, PTL DEF Spec, DeletesOnlyIngested

\* The watcher implements its promise, whatever fails and however often the
\* process dies: every step of a poll is a Read of ArchiveDelivery, a record
\* that closes a response is its Append, reclaim's deletions are its Delete as
\* long as nobody puts a file back, and everything else goes unnoticed.
THEOREM ImplementsItsPromise == Spec => ImplementsDelivery
<1>1. Init => RefinementInv
  BY InitIInv, InitFreshInv, InitReclaimInv DEF RefinementInv
<1> QED
  BY <1>1, InitRefines, RefinementInvStep, StepRefines, PTL
  DEF Spec, ImplementsDelivery, Delivery!Spec

\* What the promise is about.
Promise == Delivery!TypeOK /\ Delivery!PassedIsDelivered /\ Delivery!UndeliveredIsReadable

LEMMA PromiseStep == Promise /\ [Delivery!Next]_Delivery!vars => Promise'
<1> SUFFICES ASSUME Promise, [Delivery!Next]_Delivery!vars
             PROVE  Promise'
  OBVIOUS
<1> DEFINE delivered == shipped \cap Completions
           lost      == skipped \cap Completions
           moves     == Faults \cap {"move", "putback"} # {}
<1>1. /\ Completions \subseteq FrameIds /\ Readable \subseteq Completions
      /\ Passed \subseteq Completions /\ Passed \subseteq delivered \cup lost
      /\ delivered \subseteq Completions /\ lost \subseteq Completions
      /\ ~moves => Completions \subseteq Readable \cup delivered \cup lost
  BY DEF Promise, Delivery!TypeOK, Delivery!PassedIsDelivered, Delivery!UndeliveredIsReadable
<1>2. SUFFICES /\ Completions' \subseteq FrameIds /\ Readable' \subseteq Completions'
               /\ Passed' \subseteq Completions' /\ Passed' \subseteq delivered' \cup lost'
               /\ delivered' \subseteq Completions' /\ lost' \subseteq Completions'
               /\ ~moves => Completions' \subseteq Readable' \cup delivered' \cup lost'
  BY DEF Promise, Delivery!TypeOK, Delivery!PassedIsDelivered, Delivery!UndeliveredIsReadable
<1>3. CASE Delivery!Append
  BY <1>1, <1>3 DEF Delivery!Append
<1>4. CASE Delivery!Read
  BY <1>1, <1>4 DEF Delivery!Read
<1>5. CASE Delivery!Delete
  BY <1>1, <1>5 DEF Delivery!Delete
<1>6. CASE Delivery!Move
  BY <1>1, <1>6 DEF Delivery!Move
<1>7. CASE UNCHANGED Delivery!vars
  BY <1>1, <1>7 DEF Delivery!vars
<1> QED
  BY <1>3, <1>4, <1>5, <1>6, <1>7 DEF Delivery!Next

\* At least once, as far as safety goes: the reader is never past a completion
\* nobody received, so one that is neither delivered nor dropped can still be
\* read, by the next pass of Poll or by the next process - unless somebody
\* takes files out of the archive.
THEOREM AtLeastOnce ==
    Spec => [](Delivery!PassedIsDelivered /\ Delivery!UndeliveredIsReadable)
<1>1. Delivery!Init => Promise
  BY DEF Delivery!Init, Promise, Delivery!TypeOK, Delivery!PassedIsDelivered,
         Delivery!UndeliveredIsReadable
<1>2. Promise => Delivery!PassedIsDelivered /\ Delivery!UndeliveredIsReadable
  BY DEF Promise
<1>3. Delivery!Spec => []Promise
  BY <1>1, PromiseStep, PTL DEF Delivery!Spec
<1> QED
  BY <1>2, <1>3, ImplementsItsPromise, PTL DEF ImplementsDelivery

\* While the process runs, a file is read again from an earlier offset only if the
\* head last hashed of it was shorter than fingerprintBytes, however much larger
\* than a file that is: what was read of any other is not read again by later
\* polls, whatever fails between them (watcher.go readFile, checkpoint.go
\* fingerprint).
THEOREM FullHeadsAreReadOnce == Spec => ShortHeadsAreReread
<1> DEFINE Inv == IInv /\ RereadInv
<1>1. Init => Inv
  <2> SUFFICES ASSUME Init PROVE RereadInv
    BY InitIInv
  <2>1. \A f \in Days : KnownHead(f, NoState)
    BY DEF KnownHead, NoState, NoFingerprint
  <2>2. \A f \in Days : cp[f] = NoState /\ disk[f] = NoState
    BY DEF Init
  <2> QED
    BY <2>1, <2>2 DEF Init, RereadInv, HeadsKnown, ReadingOn
<1>2. Inv /\ [Next]_vars => Inv'
  <2> SUFFICES ASSUME Inv, [Next]_vars PROVE Inv'
    OBVIOUS
  <2>1. IInv'
    BY IInvStep
  <2>2. TypeOK'
    BY <2>1 DEF IInv
  <2> QED
    BY <2>1, <2>2, HeadsKnownStep, ReadingOnStep DEF RereadInv
<1>3. Inv /\ Inv' /\ [Next]_vars =>
          [\A f \in Days :
              /\ pc # "down" /\ pc' # "down"
              /\ cp'[f].fp.gen = cp[f].fp.gen /\ cp'[f].offset < cp[f].offset
              => cp[f].fp.len < HeadBytes]_vars
  <2>1. Inv' => TypeOK'
    BY DEF IInv
  <2> QED
    BY <2>1, OffsetsGoBack
<1> HIDE DEF Inv
<1> QED
  BY <1>1, <1>2, <1>3, PTL DEF Spec, ShortHeadsAreReread

\* No record is lost on the way: as long as no emit fails and the process is
\* not killed, every record behind an offset, whether it closes a response or
\* is one of its inputs, was accepted in some turn, dropped behind a bad
\* record, or is still held, through stops, restarts, failing saves, evictions
\* and files moved away, recreated and put back.
THEOREM NoRecordIsLost == Spec => []NothingLost
<1>1. CASE ~Quiet
  <2>1. NothingLost
    BY <1>1 DEF Quiet, NothingLost
  <2> QED
    BY <2>1, PTL
<1>2. CASE Quiet
  <2>1. IInv /\ SafeInv => NothingLost
    <3> SUFFICES ASSUME IInv, SafeInv, NEW f \in Days, NEW k \in {"input", "done"},
                        cp[f].fp.gen # 0
                 PROVE  PassedBy(cp[f], f, k) \subseteq shipped \cup skipped \cup Held
      BY DEF NothingLost
    <3>1. Kept(f, cp[f])
      BY DEF SafeInv, OffsetsKept
    <3> QED
      BY <3>1 DEF Kept, PassedBy, Safe
  <2>2. Init => IInv /\ SafeInv
    BY InitIInv, InitSafeInv
  <2>3. IInv /\ SafeInv /\ [Next]_vars => IInv' /\ SafeInv'
    BY <1>2, IInvStep, SafeInvStep
  <2> QED
    BY <2>1, <2>2, <2>3, PTL DEF Spec
<1> QED
  BY <1>1, <1>2

\* A record is accepted twice only after a fault.  While no emit and no save
\* fails and the process is not killed, none is, through any number of stops
\* and restarts, saves that are not due, evictions, and files that are moved
\* away, reclaimed, recreated under their name or put back: the offset kept
\* under a name is told from the one of the file that takes it (replaced), and
\* a tombstone keeps a reclaimed file from being read again.  Of a file that is
\* put back it takes a tombstone that was not pruned, and of a head that it was
\* full when it was hashed.
THEOREM NothingIsRepeated ==
    ASSUME HeadFills, "putback" \notin Faults \/ TombstonesStay
    PROVE  Spec => []NoRepeat
<1>1. CASE ~Calm
  <2>1. NoRepeat
    BY <1>1 DEF Calm, NoRepeat
  <2> QED
    BY <2>1, PTL
<1>2. CASE Calm
  <2> DEFINE Inv == IInv /\ FreshInv /\ HeadInv /\ BatchIsTaken /\ OnceInv
  <2>1. Inv => NoRepeat
    BY DEF OnceInv, TakenOnce, NoRepeat
  <2>2. Init => Inv
    BY InitIInv, InitFreshInv, InitOnceInv
    DEF Init, HeadInv, AllClean, FullHead, NoState, BatchIsTaken
  <2>3. Inv /\ [Next]_vars => Inv'
    BY <1>2, IInvStep, FreshInvStep, HeadInvStep, BatchIsTakenStep, OnceInvStep
  <2> HIDE DEF Inv
  <2> QED
    BY <2>1, <2>2, <2>3, PTL DEF Spec
<1> QED
  BY <1>1, <1>2
=============================================================================

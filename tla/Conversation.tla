---------------------------- MODULE Conversation ---------------------------
(***************************************************************************)
(* How internal/turn recovers a conversation from what its client sends.   *)
(*                                                                         *)
(* Every response.create carries the whole history of its thread again:    *)
(* what the user and the harness said, and the outputs of the tools the    *)
(* model called.  The reducer keeps an item only the first time it comes   *)
(* by, which a bounded set of fingerprints decides (seen.go), and names    *)
(* the invocation an output answers from a bounded index of the calls it   *)
(* saw (correlate.go).  The index is in the checkpoint, the set is not.    *)
(*                                                                         *)
(* The watcher around the reducer is that of TurnDeltas.  What the reducer *)
(* does depends on the archive only up to where it has read, and a chunk   *)
(* may end anywhere, so here the archive is written before it is read.     *)
(***************************************************************************)
EXTENDS Integers, Sequences, FiniteSets, SequencesExt

CONSTANTS
    Threads,      \* thread ids, numbers because ties are broken by their order
    CallIds,
    Texts,        \* what a user may say
    MaxResps,     \* bound: responses
    SeenSize,     \* Options.SeenSetSize
    CallLimit,    \* callIndexLimit
    ThreadLimit,  \* callIndexThreadLimit
    MaxAge,       \* callIndexMaxAge
    SweepEvery,   \* callIndexSweepEvery
    EvictAfter,   \* Config.EvictAfter
    MaxMishaps    \* bound: stops, crashes and refused batches

Resps == 1..MaxResps
None  == "-"   \* no call, no text, no match

\* A set of no size is one of size 1 (newSeenSet); the limits of the index are
\* constants of the code.
ConversationAssumption ==
    /\ Threads \subseteq Nat \ {0} /\ IsFiniteSet(Threads)
    /\ None \notin CallIds
    /\ MaxResps \in Nat /\ MaxMishaps \in Nat
    /\ SeenSize \in Nat \ {0} /\ CallLimit \in Nat \ {0} /\ ThreadLimit \in Nat \ {0}
    /\ MaxAge \in Nat /\ SweepEvery \in Nat /\ EvictAfter \in Nat
ASSUME ConversationAssumption

VARIABLES
    \* The archive.
    log,       \* records: "create", "call" or "done" of a response, one a moment
    history,   \* the items of every thread
    sent,      \* the items each response was created with
    thread,    \* of every response, 0 before it is created
    current,   \* the response of every thread that is under way, 0 for none
    called,    \* the call id of the invocation each response made, or None
    pending,   \* responses whose invocation has not been answered
    \* The process.
    pc,
    pos,       \* records the reducer has been given
    acked,     \* those behind the checkpoint's offset
    open,      \* Reducer.open
    batch,     \* turns on their way to emit
    again,     \* records to read again before the pass can end: of one refused
    seen,      \* Reducer.seen, most recent first
    calls,     \* Reducer.calls
    \* The checkpoint file.
    disk,
    \* History.
    recent,    \* every key this process has seen, most recent first
    shipped,   \* entries of the turns the sinks accepted
    refused,   \* keys in turns they refused
    rewound,   \* whether they ever refused any, and records were read again
    answered,  \* invocations an output was captured for, or attributed to
    dropped,   \* invocations the index dropped for their age or for its limits
    mishaps

archiveVars == <<log, history, sent, thread, current, called, pending>>
readerVars  == <<pc, pos, acked, open, batch, again, seen, calls, disk, recent, shipped,
                 refused, rewound, answered, dropped, mishaps>>
vars == <<archiveVars, readerVars>>

-----------------------------------------------------------------------------
(* The clients and the archive's writer.                                   *)

Log(what, r) == log' = Append(log, [what |-> what, resp |-> r])

Boilerplate == [kind |-> "developer", of |-> 0, text |-> None]
Said(r, x)  == [kind |-> "user", of |-> r, text |-> x]
Output(r)   == [kind |-> "output", of |-> r, text |-> called[r]]

\* The next response of a thread answers calls and says something; one under
\* way is never heard of again.
Create(t) ==
    \E r \in Resps, x \in Texts, A \in SUBSET {p \in pending : thread[p] = t} :
        /\ thread[r] = 0 /\ \A q \in Resps : q < r => thread[q] # 0
        /\ LET news == SetToSeq({Output(p) : p \in A}) \o <<Said(r, x)>>
               base == IF history[t] = <<>> THEN <<Boilerplate>> ELSE history[t]
           IN  /\ history' = [history EXCEPT ![t] = base \o news]
               /\ sent' = [sent EXCEPT ![r] = base \o news]
        /\ thread' = [thread EXCEPT ![r] = t]
        /\ current' = [current EXCEPT ![t] = r]
        /\ pending' = pending \ A
        /\ Log("create", r)
        /\ UNCHANGED called

Call(t, c) ==
    /\ current[t] # 0 /\ called[current[t]] = None
    /\ called' = [called EXCEPT ![current[t]] = c]
    /\ pending' = pending \cup {current[t]}
    /\ Log("call", current[t])
    /\ UNCHANGED <<history, sent, thread, current>>

Done(t) ==
    /\ current[t] # 0
    /\ current' = [current EXCEPT ![t] = 0]
    /\ Log("done", current[t])
    /\ UNCHANGED <<history, sent, thread, called, pending>>

Write ==
    /\ pc = "written"
    /\ \E t \in Threads : Create(t) \/ Done(t) \/ \E c \in CallIds : Call(t, c)
    /\ UNCHANGED readerVars

-----------------------------------------------------------------------------
(* The set of fingerprints.                                                *)

\* seenSet.add, which reports whether the key was new.
AddSeen(s, k) ==
    IF Contains(s, k) THEN <<k>> \o RemoveFirst(s, k)
    ELSE IF Len(s) = SeenSize THEN <<k>> \o Front(s) ELSE <<k>> \o s

Touch(keys, k) == <<k>> \o RemoveFirst(keys, k)

-----------------------------------------------------------------------------
(* The index of calls: [clock, nextSweep, threads], where 0 is no time.    *)

NoCalls == [clock |-> 0, nextSweep |-> 0, threads |-> [t \in Threads |-> <<>>]]

Advance(ix, at) == [ix EXCEPT !.clock = IF at > @ THEN at ELSE @]

\* Those at some places of a list, in their order.
Kept(entries, places) ==
    LET kept[n \in 0..Len(entries)] ==
            IF n = 0 THEN <<>>
            ELSE IF n \in places THEN Append(kept[n - 1], entries[n]) ELSE kept[n - 1]
    IN  kept[Len(entries)]

Prune(ix, entries) ==
    IF ix.clock = 0 THEN entries
    ELSE Kept(entries, {n \in DOMAIN entries : entries[n].at >= ix.clock - MaxAge})

PruneAll(ix) ==
    [ix EXCEPT !.nextSweep = IF ix.clock = 0 THEN 0 ELSE ix.clock + SweepEvery,
               !.threads = [t \in Threads |-> Prune(ix, @[t])]]

Resident(ix) == {t \in Threads : ix.threads[t] # <<>>}

Newest(entries) == CHOOSE at \in {e.at : e \in Range(entries)} :
                       \A e \in Range(entries) : e.at <= at

\* Past the limit, the thread whose newest entry is oldest goes.
EvictOldestThread(ix) ==
    IF Cardinality(Resident(ix)) <= ThreadLimit THEN ix
    ELSE LET oldest == CHOOSE t \in Resident(ix) : \A u \in Resident(ix) \ {t} :
                           LET a == Newest(ix.threads[t])
                               b == Newest(ix.threads[u])
                           IN  a < b \/ (a = b /\ t < u)
         IN  [ix EXCEPT !.threads[oldest] = <<>>]

\* Slip: one too many.
LastOfWithOne(entries) ==
    IF Len(entries) <= CallLimit + 1 THEN entries
    ELSE SubSeq(entries, Len(entries) - CallLimit, Len(entries))

LastOf(entries) ==
    IF Len(entries) <= CallLimit THEN entries
    ELSE SubSeq(entries, Len(entries) - CallLimit + 1, Len(entries))

NextOccurrence(entries, c) ==
    LET of == {e.occurrence : e \in {x \in Range(entries) : x.id = c}}
    IN  IF of = {} THEN 1 ELSE 1 + CHOOSE n \in of : \A m \in of : m <= n

\* callIndex.record: the index and the occurrence.  A consumed entry stays, so
\* that a reused id gets the next occurrence.
Record(ix0, t, c, ref) ==
    LET ix1     == Advance(ix0, ref.at)
        ix2     == IF ix1.nextSweep = 0 \/ ix1.clock >= ix1.nextSweep THEN PruneAll(ix1) ELSE ix1
        entries == Prune(ix2, ix2.threads[t])
        n       == NextOccurrence(entries, c)
        entry   == [id |-> c, of |-> ref.of, origin |-> ref.origin, at |-> ref.at,
                    occurrence |-> n, consumed |-> FALSE]
        kept    == LastOf(Prune(ix2, Append(entries, entry)))
    IN  [index |-> EvictOldestThread([ix2 EXCEPT !.threads[t] = kept]),
         occurrence |-> IF kept = <<>> THEN 0 ELSE n]

\* A reference to no call.
NoRef == [of |-> 0, origin |-> 0, occurrence |-> 0]

OpenPlaces(entries, c) == {n \in DOMAIN entries : entries[n].id = c /\ ~entries[n].consumed}

\* Slip: of several open entries the newest is taken.
LookupNewest(ix, t, c) ==
    LET entries == Prune(ix, ix.threads[t])
        at      == OpenPlaces(entries, c)
        i       == CHOOSE i \in at : \A j \in at : j <= i
    IN  IF at = {} THEN [index |-> [ix EXCEPT !.threads[t] = entries], match |-> "none", ref |-> NoRef]
        ELSE [index |-> [ix EXCEPT !.threads[t] = [entries EXCEPT ![i].consumed = TRUE]],
              match |-> "exact", ref |-> entries[i]]

\* callIndex.lookup: only one open entry is a match, and is consumed.
Lookup(ix, t, c) ==
    LET entries == Prune(ix, ix.threads[t])
        at      == OpenPlaces(entries, c)
        i       == CHOOSE i \in at : TRUE
    IN  IF Cardinality(at) # 1
        THEN [index |-> [ix EXCEPT !.threads[t] = entries],
              match |-> IF at = {} THEN "none" ELSE "ambiguous", ref |-> NoRef]
        ELSE [index |-> [ix EXCEPT !.threads[t] = [entries EXCEPT ![i].consumed = TRUE]],
              match |-> "exact", ref |-> entries[i]]

\* callIndex.snapshot, and what decoding a checkpoint does to it.
EnforceLimits(ix) ==
    LET pruned == PruneAll(ix)
        cut    == [pruned EXCEPT !.threads = [t \in Threads |-> LastOf(@[t])]]
        n      == Cardinality(Resident(cut))
        evict[k \in 0..n] == IF k = 0 THEN cut ELSE EvictOldestThread(evict[k - 1])
    IN  evict[n]

-----------------------------------------------------------------------------
(* The reducer.                                                            *)

\* A turn that is open: its content in order of capture, an entry's ordinal
\* being its place in it; whether response.create was seen; and LastTS.
Closed == [there |-> FALSE, named |-> FALSE, last |-> 0, content |-> <<>>]

\* Add opens a turn for the first record of a response.
Opened(r, at) == [open[r] EXCEPT !.there = TRUE, !.last = at]

\* The harness' own messages are the same for every thread.
Key(t, item) ==
    IF item.kind = "developer" THEN <<0, "developer", None>>
    ELSE <<t, item.kind, item.text>>

\* first: nothing was captured for the invocation before, nor attributed to it.
Entry(k, of) ==
    [key |-> k, of |-> of, origin |-> 0, occurrence |-> 0, match |-> None, first |-> FALSE]

Answer(k, of, l, first) ==
    [key |-> k, of |-> of, origin |-> l.ref.origin, occurrence |-> l.ref.occurrence,
     match |-> l.match, first |-> first]

\* captureInput of one item.
CaptureItem(s, t, at, item) ==
    LET k   == Key(t, item)
        new == ~Contains(s.seen, k)
        l   == Lookup(Advance(s.index, at), t, item.text)
        s1  == [s EXCEPT !.seen = AddSeen(@, k), !.recent = Touch(@, k)]
    IN  IF ~new THEN s1
        ELSE IF item.kind # "output" THEN [s1 EXCEPT !.content = Append(@, Entry(k, item.of))]
        ELSE [s1 EXCEPT !.content = Append(@, Answer(k, item.of, l, item.of \notin s.answered)),
                        !.index = l.index, !.answered = @ \cup {item.of, l.ref.of}]

\* And of all.
CaptureInput(s0, t, at, items) ==
    LET captured[n \in 0..Len(items)] ==
            IF n = 0 THEN s0 ELSE CaptureItem(captured[n - 1], t, at, items[n])
    IN  captured[Len(items)]

Indexed(ix)   == UNION {{e.of : e \in Range(ix.threads[t])} : t \in Threads}
Unindexed(ix) == Indexed(calls) \ Indexed(ix)

\* applyCreate.
Opens ==
    /\ pc = "poll" /\ pos < Len(log) /\ log[pos + 1].what = "create"
    /\ LET r  == log[pos + 1].resp
           s0 == [seen |-> seen, recent |-> recent, content |-> open[r].content,
                  index |-> calls, answered |-> answered]
           s  == CaptureInput(s0, thread[r], pos + 1, sent[r])
       IN  /\ seen' = s.seen /\ recent' = s.recent /\ calls' = s.index
           /\ open' = [open EXCEPT ![r] =
                  [Opened(r, pos + 1) EXCEPT !.named = TRUE, !.content = s.content]]
           /\ answered' = s.answered
           /\ dropped' = dropped \cup Unindexed(s.index)
    /\ pos' = pos + 1
    /\ UNCHANGED <<archiveVars, pc, acked, batch, again, disk, shipped, refused, rewound, mishaps>>

\* The response id, by which a call is known, comes after response.create;
\* without it the request id stands in.
CallKey(t, r) == <<t, "call", called[r], r, open[r].named>>

\* applyOutputItem of a call.
Calls ==
    /\ pc = "poll" /\ pos < Len(log) /\ log[pos + 1].what = "call"
    /\ LET r   == log[pos + 1].resp
           t   == thread[r]
           k   == CallKey(t, r)
           new == ~Contains(seen, k)
           rcd == Record(calls, t, called[r],
                         [of |-> r, origin |-> IF open[r].named THEN r ELSE 0, at |-> pos + 1])
           e   == [Entry(k, r) EXCEPT !.occurrence = rcd.occurrence]
       IN  /\ seen' = AddSeen(seen, k) /\ recent' = Touch(recent, k)
           /\ calls' = IF new THEN rcd.index ELSE calls
           /\ dropped' = dropped \cup Unindexed(calls') \cup
                         (IF new THEN {r} \ Indexed(rcd.index) ELSE {})
           /\ open' = [open EXCEPT ![r] =
                  [Opened(r, pos + 1) EXCEPT !.content = IF new THEN Append(@, e) ELSE @]]
    /\ pos' = pos + 1
    /\ UNCHANGED <<archiveVars, pc, acked, batch, again, disk, shipped, refused, rewound, answered,
                   mishaps>>

\* response.completed.
Closes ==
    /\ pc = "poll" /\ pos < Len(log) /\ log[pos + 1].what = "done"
    /\ LET r   == log[pos + 1].resp
       IN  /\ batch' = batch \cup {[resp |-> r, content |-> open[r].content]}
           /\ open' = [open EXCEPT ![r] = Closed]
    /\ pos' = pos + 1
    /\ UNCHANGED <<archiveVars, pc, acked, again, seen, calls, disk, recent, shipped, refused,
                   rewound, answered, dropped, mishaps>>

\* Slip: an incomplete response is not worth a turn.
Dropped(R) ==
    /\ batch' = {}
    /\ open' = [r \in Resps |-> IF r \in R THEN Closed ELSE open[r]]

\* Flush and Evict give up open responses with what they captured.
Drained(R) ==
    /\ batch' = {[resp |-> r, content |-> open[r].content] : r \in R}
    /\ open' = [r \in Resps |-> IF r \in R THEN Closed ELSE open[r]]

OpenOnes == {r \in Resps : open[r].there}

-----------------------------------------------------------------------------
(* The watcher around it.                                                  *)

ChunkEnds ==
    /\ pc = "poll" /\ acked < pos
    /\ IF batch = {} THEN acked' = pos /\ UNCHANGED pc
       ELSE pc' = "emit" /\ UNCHANGED acked
    /\ UNCHANGED <<archiveVars, pos, open, batch, again, seen, calls, disk, recent, shipped,
                   refused, rewound, answered, dropped, mishaps>>

LaterOf(a, b) == IF a > b THEN a ELSE b

Entries(turns) == UNION {Range(t.content) : t \in turns}
Keys(entries)  == {e.key : e \in entries}

EmitAccepted ==
    /\ pc = "emit"
    /\ acked' = pos /\ pc' = "poll" /\ batch' = {}
    /\ shipped' = shipped \cup Entries(batch)
    /\ UNCHANGED <<archiveVars, pos, open, again, seen, calls, disk, recent, refused, rewound,
                   answered, dropped, mishaps>>

\* Slip: the next pass starts from the saved offset.
RefusedToDisk ==
    /\ pc = "emit" /\ mishaps < MaxMishaps
    /\ mishaps' = mishaps + 1
    /\ pos' = disk.acked /\ pc' = "poll" /\ batch' = {} /\ again' = LaterOf(again, pos)
    /\ refused' = refused \cup Keys(Entries(batch)) /\ rewound' = TRUE
    /\ UNCHANGED <<archiveVars, acked, open, seen, calls, disk, recent, shipped, answered, dropped>>

\* The next pass reads from the offset again; the reducer stays as it is.
EmitRefused ==
    /\ pc = "emit" /\ mishaps < MaxMishaps
    /\ mishaps' = mishaps + 1
    /\ pos' = acked /\ pc' = "poll" /\ batch' = {} /\ again' = LaterOf(again, pos)
    /\ refused' = refused \cup Keys(Entries(batch)) /\ rewound' = TRUE
    /\ UNCHANGED <<archiveVars, acked, open, seen, calls, disk, recent, shipped, answered, dropped>>

\* The pass is over once all was read again that had been read before.
PassEnds == pc = "poll" /\ acked = pos /\ again <= pos

EvictOpen ==
    /\ PassEnds
    /\ LET stale == {r \in OpenOnes : open[r].last + EvictAfter < pos}
       IN  stale # {} /\ Drained(stale)
    /\ pc' = "emit"
    /\ UNCHANGED <<archiveVars, pos, acked, again, seen, calls, disk, recent, shipped, refused,
                   rewound, answered, dropped, mishaps>>

\* Slip: consumed entries are left out of the checkpoint.
OpenCalls(ix) ==
    EnforceLimits([ix EXCEPT !.threads =
        [t \in Threads |-> Kept(@[t], {n \in DOMAIN @[t] : ~@[t][n].consumed})]])

\* Slip: the checkpoint has no index.
NoneOf(ix) == NoCalls

\* State.Calls.
CallsToSave(ix) == EnforceLimits(ix)

Snapshot == [acked |-> acked, calls |-> CallsToSave(calls)]

\* What had expired unnoticed is not in the checkpoint.
Saves ==
    /\ disk' = Snapshot
    /\ dropped' = dropped \cup Unindexed(EnforceLimits(calls))

Save ==
    /\ PassEnds
    /\ Saves
    /\ UNCHANGED <<archiveVars, pc, pos, acked, open, batch, again, seen, calls, recent, shipped,
                   refused, rewound, answered, mishaps>>

Stop ==
    /\ pc = "poll" /\ acked = pos /\ mishaps < MaxMishaps
    /\ mishaps' = mishaps + 1
    /\ Drained(OpenOnes)
    /\ pc' = "flush"
    /\ UNCHANGED <<archiveVars, pos, acked, again, seen, calls, disk, recent, shipped, refused,
                   rewound, answered, dropped>>

Die ==
    /\ pc' = "down" /\ pos' = 0 /\ acked' = 0 /\ batch' = {} /\ again' = 0
    /\ open' = [r \in Resps |-> Closed]
    /\ seen' = <<>> /\ recent' = <<>> /\ calls' = NoCalls

FlushAccepted ==
    /\ pc = "flush"
    /\ shipped' = shipped \cup Entries(batch)
    /\ Saves
    /\ Die
    /\ UNCHANGED <<archiveVars, refused, rewound, answered, mishaps>>

\* Without a last save: the flushed batch was refused, or worse.
Crash ==
    /\ pc \in {"poll", "emit", "flush"} /\ mishaps < MaxMishaps
    /\ mishaps' = mishaps + 1
    /\ Die
    /\ UNCHANGED <<archiveVars, disk, shipped, refused, rewound, answered, dropped>>

\* An archive that ends earlier is one that is not read to its end.
Complete == (\A r \in Resps : thread[r] # 0) /\ \A t \in Threads : current[t] = 0

\* The first time, or again; RestoreAt.
Start ==
    /\ pc = "down" \/ (pc = "written" /\ Complete)
    /\ pc' = "poll"
    /\ pos' = disk.acked /\ acked' = disk.acked
    /\ calls' = EnforceLimits(disk.calls)
    /\ dropped' = dropped \cup (Indexed(disk.calls) \ Indexed(calls'))
    /\ UNCHANGED <<archiveVars, open, batch, again, seen, disk, recent, shipped, refused,
                   rewound, answered, mishaps>>

-----------------------------------------------------------------------------
Init ==
    /\ log = <<>> /\ history = [t \in Threads |-> <<>>]
    /\ sent = [r \in Resps |-> <<>>]
    /\ thread = [r \in Resps |-> 0] /\ called = [r \in Resps |-> None]
    /\ current = [t \in Threads |-> 0] /\ pending = {}
    /\ pc = "written" /\ pos = 0 /\ acked = 0
    /\ open = [r \in Resps |-> Closed] /\ batch = {} /\ again = 0
    /\ seen = <<>> /\ calls = NoCalls
    /\ disk = [acked |-> 0, calls |-> NoCalls]
    /\ recent = <<>> /\ shipped = {} /\ refused = {} /\ rewound = FALSE
    /\ answered = {} /\ dropped = {} /\ mishaps = 0

Reducer == Opens \/ Calls \/ Closes
Watcher ==
    \/ ChunkEnds \/ EmitAccepted \/ EmitRefused \/ EvictOpen \/ Save
    \/ Stop \/ FlushAccepted \/ Start
Next == Write \/ Reducer \/ Watcher \/ Crash

Spec == Init /\ [][Next]_vars
-----------------------------------------------------------------------------
(* Properties.                                                             *)

Kinds   == {"developer", "user", "output"}
EntryOK(e) ==
    /\ e.of \in 0..MaxResps /\ e.origin \in 0..MaxResps
    /\ e.occurrence \in Nat
    /\ e.match \in {None, "none", "ambiguous", "exact"} /\ e.first \in BOOLEAN
CallEntry ==
    [id : CallIds, of : Resps, origin : 0..MaxResps, at : 1..Len(log),
     occurrence : Nat \ {0}, consumed : BOOLEAN]
IndexOK(ix) ==
    ix \in [clock : 0..Len(log), nextSweep : 0..Len(log) + SweepEvery,
            threads : [Threads -> Seq(CallEntry)]]

\* The index never outgrows its limits, whatever is recorded or restored.
IndexIsBounded ==
    /\ Cardinality(Resident(calls)) <= ThreadLimit
    /\ \A t \in Threads : Len(calls.threads[t]) <= CallLimit

\* Every variable keeps its shape, the offsets stay within the archive, and the
\* index within its limits (correlate.go enforceLimits).
TypeOK ==
    /\ pc \in {"written", "down", "poll", "emit", "flush"}
    /\ pos \in 0..Len(log) /\ acked \in 0..pos /\ disk.acked \in 0..Len(log)
    /\ again \in 0..Len(log)
    /\ \A e \in shipped \cup Entries(batch) : EntryOK(e)
    /\ \A r \in Resps : open[r].last \in 0..Len(log)
    /\ IndexOK(calls) /\ IndexOK(disk.calls)
    /\ IndexIsBounded
    /\ mishaps \in 0..MaxMishaps

Captured == shipped \cup Entries(batch) \cup UNION {Range(open[r].content) : r \in Resps}

\* The set swallows what it is to and no more: it holds the SeenSize keys that
\* came by last, so what the client still sends is not forgotten for what it
\* has stopped sending, and each was shipped or is about to be - neither an
\* eviction, nor a stop, nor a crash leaves a key behind without its content.
\* A refused batch does.
NothingSwallowed ==
    /\ seen = SubSeq(recent, 1, IF Len(recent) < SeenSize THEN Len(recent) ELSE SeenSize)
    /\ Range(seen) \subseteq Keys(Captured) \cup refused

NewEntries == UNION {Range(open'[r].content) \ Range(open[r].content) : r \in Resps}

\* An output is attributed to another invocation than its own only if the index
\* has dropped its own, or that has been taken: by an output that came before,
\* which may be the same once more.
OriginsAreRight ==
    [][\A e \in NewEntries :
          e.match = "exact" /\ e.first /\ e.origin \notin {0, e.of} => e.of \in dropped']_vars

SameId(p, q) == thread[p] = thread[q] /\ called[p] = called[q]

\* An output finds its invocation, also across a stop or a crash between the
\* two, when the id is used once in the thread and the index has not dropped it
\* - as long as nothing was refused.
OriginsAreFound ==
    [][\A e \in NewEntries :
          e.match # None /\ e.first /\ ~rewound /\ e.of \notin dropped'
          /\ (\A r \in Resps : SameId(r, e.of) => r = e.of)
              => e.match = "exact"]_vars

CallEntries == {e \in shipped : e.key[2] = "call"}

\* The invocations before one in the archive, of its thread and with its id.
Earlier(p) ==
    {q \in Resps : SameId(p, q) /\ \E i, j \in DOMAIN log :
        i < j /\ log[i] = [what |-> "call", resp |-> q] /\ log[j] = [what |-> "call", resp |-> p]}

\* Until the index drops one of them, or a refused batch has it count one of
\* them twice, the occurrence of an invocation is its number among those of its
\* thread with its id: whichever process captured it, and however often it was
\* read again after a crash.  So two invocations never share a span.
OccurrencesCount ==
    \A e \in CallEntries :
        ~rewound /\ (\A p \in dropped : ~SameId(p, e.of))
            => e.occurrence = 1 + Cardinality(Earlier(e.of))
=============================================================================

# A TLA+ model of codexlb2otel

codexlb2otel follows the archive that codex-lb writes of its traffic with the
Codex backend, reduces the websocket and HTTP frames in it to *turns*, and
ships every turn to a set of sinks (Loki, OTLP metrics, OTLP traces, agento11y,
a live view). It deletes archive files it has fully ingested. The property the
program lives by is that a turn which completed in the archive reaches the
sinks, at least once, and that its numbers are right; this project models what
that takes, and what the sinks then say of it.

Line numbers below are those of the commit the modules were written against.

## The system

| component | code | state | operations | hard part |
|---|---|---|---|---|
| archive watcher | `internal/tail` | offsets, sizes and fingerprints per file (`Checkpoint`), the file of them on disk, tombstones | `Poll`, `readFile`, `reclaim`, `save`, `shutdown`, `New` | crashes between emit and save, files appended to while read, recreated, moved away and put back, retention |
| archive reader | `internal/archive` | none | `DecodeMembers`, `Resync` | half-written and corrupt gzip members |
| frames | `internal/frame` | none | `Lines`, field extraction | a record that is not JSON |
| turn reducer | `internal/turn` (`reducer.go`, `flush.go`, `seen.go`, `state.go`) | open calls, cumulative totals and logical-turn numbers per series, dedup set, watermark | `Add`, `Flush`, `Evict`, `EvictState`, `Snapshot`, `RestoreAt` | deltas of cumulative counters across restarts, evictions, refused batches and retries |
| call correlation | `internal/turn/correlate.go` | index of tool calls per thread | `record`, `lookup`, `prune` | ambiguity, retention, two bounds |
| sink fan-out | `internal/sink/sink.go`, `cmd/codexlb2otel/main.go` | none | `Multi.Emit/Flush/Close`, `sinkEmit`, `enrichingEmit` | one sink of several failing |
| loki, agento11y | `internal/sink/loki`, `internal/sink/agento11y` | buffer, rejection counters | `Emit`, `Flush`, `push`, `pushHalves` | retries, halving, partial verdicts, cancelled backoff |
| otlp traces | `internal/sink/otlptrace` | the SDK's queue | `Emit`, `Flush` | the SDK exports in the background |
| otlp metrics | `internal/sink/otlpmetric` | counters, a bounded guard of accounted turns, gauges | `Emit`, `Flush`, callbacks | a batch offered again is counted again; callbacks that read the watcher under its own lock |
| live view | `internal/live` | ring of turns, thread tree, subscriber queues | `Emit`, `subscribe`, `broadcast`, `evict` | evicting what is still referred to, slow subscribers |
| enrichment | `internal/enrich` | LRU cache with two indexes, last id seen | `Enrich`, `PrefetchOnce` | lookups outside the lock, aliases |
| account poller | `internal/accountpoll` | last snapshot | `Poll`, `Snapshot` | publishes whole snapshots only |
| drift probe | `internal/drift` | last findings | `RunOnce`, `Wait` | shutdown waits for it, bounded |
| service | `cmd/codexlb2otel`, `internal/selfobs`, `internal/health` | readiness, registered callbacks | start, shutdown | the lock cycle `Poll` -> `Flush` -> callback -> `Progress`; order of shutdown |
| attributes, configuration, correlation ids | `internal/attr`, `internal/config`, `internal/correlation` | a value cap | pure mappings | - |
| offline tools | `cmd/clb*`, `internal/scan`, `internal/summary`, `internal/profile` | none that survives a run | - | - |

The components meet in one call chain. The watcher's goroutine (`Run`,
`watcher.go:287`) polls under one mutex; a poll reads every file of the
archive, feeds the reducer member by member, and calls `emit` with the turns
that completed. `emit` is `sinkEmit` (`main.go:383`): `enrichingEmit`, then
`Multi.Emit`, then `Multi.Flush`. Only when it returns nil does the offset
advance past the bytes the turns came from. The checkpoint, offsets and the
reducer's state together, is saved when it is due and before anything is
deleted. Beside this goroutine run the OTel SDK's exporters and callbacks, the
account poller, the drift probe, the enricher's prefetch, the HTTP servers, and
outside the process the codex-lb writer, the operator and the machine.

## Modules

| module | what it is |
|---|---|
| `ArchiveDelivery` | abstract: what the watcher promises of completed responses |
| `ArchiveTail` | the watcher, its writer, operator and machine; implements `ArchiveDelivery` |
| `BatchSinks` | `sinkEmit`, `Multi` and the sinks that push batches to a remote end |
| `TurnDeltas` | what the reducer makes of the running totals of one thread |
| `Conversation` | what the reducer captures once of what clients send again and again, and which call an output answers: `seen.go`, `correlate.go` |
| `ResponseFields` | which frame each field of a turn is from, what later frames may do to it, and what ends a turn |
| `Documents` | extends `ResponseFields`: the spans, the generation and the lines made of turns |
| `Attributes` | the registry of what may be said of a turn where, and the guard of values |
| `Metrics` | extends `Attributes`: what a turn adds to which instrument, and what the sink remembers of responses |
| `LiveView` | the store of the live view, the watcher that fills it and the browsers that follow it |
| `Enrichment` | the cache of request-log rows, looked up by one goroutine and prefetched by another |
| `Service` | extends `Enrichment`: `run`, its goroutines, the probe, the poller, and the order of the end |
| `MC...` | small instances, and promises of comments that the code does not keep |
| `ArchiveTail_proofs`, `BatchSinks_proofs`, `TurnDeltas_proofs`, `Conversation_proofs`, `Metrics_proofs`, `LiveView_proofs`, `Service_proofs` | TLAPS proofs |
| `MaximumLemmas` | lemmas the proofs share: minimum and maximum, induction up to a number |

The watcher is in several modules, each time with only what the part at hand
can tell apart: `ArchiveTail` has files, offsets and faults, and turns that are
only completed or not; `TurnDeltas` and `Conversation` keep its chunks,
refusals, checkpoints and restarts around one part of the reducer's state;
`BatchSinks` and `LiveView` reduce it to the batches it hands on; `Service` to
being busy.

### ArchiveTail

One variable per field of the code: `cp` is `Checkpoint.Files` (`offset`,
`size`, the fingerprint `fp`, `deleted`), `disk` the same in the checkpoint
file, `st`, `statSize`, `upto`, `batch` and `todo` are the locals of `Poll` and
`readFile`, `open`, `got` and `seen` the reducer as far as delivery can tell.
`pc` is where the goroutine stands. Steps are cut where another actor can be
noticed: after the scan, after stat and fingerprint of a file, after each read,
around each call of `emit`, at the save, and per file in `reclaim`. What lies
between two such points touches only the watcher's own memory.

| actions | code |
|---|---|
| `Scan`, `Abandon` | `Poll`, `scan`; the `ctx.Err()` checks before a file and before a read |
| `SkipFile`, `NothingNew`, `OpenFile` | `readFile` up to its loop: tombstone, stat, fingerprint, `replaced`, resume |
| `ReadChunk`, `EmitAccepted`, `EmitRefused`, `FinishFile` | the read loop, the emit inside it, end of file and the corrupt-member exit |
| `EvictOpen`, `EmitStaleAccepted`, `EmitStaleRefused` | `Reducer.Evict` and its emit |
| `Checkpoint`, `CheckpointFails` | `saveDue`, `save`, `PruneFileTombstones`, `write` |
| `KeepFile`, `DeleteFile`, `EndPoll` | `reclaim` |
| `Stop`, `Shutdown`, `FlushAccepted`, `FlushRefused`, `LastSave` | SIGTERM, `shutdown` |
| `Crash`, `Start` | the process killed between any two steps; `New` and `LoadCheckpoint` |
| `CreateFile`, `AppendMember`, `BeginMember`, `WriterDies`, `MoveAway`, `PutBack`, `NextDay` | external: the writer, the operator, the clock |

What the data is abstracted to:

- A file's name is its UTC day; there is one per day. `Gens` are the times a
  name was created, so a fingerprint is `[gen, len]`: which creation, and how
  many of its first bytes were hashed. `HeadBytes` is `fingerprintBytes`. With
  `HeadBytes = 1` the first bytes anybody sees fill the hashed head, as in an
  archive whose members are larger than 512 bytes. With `HeadBytes = 3` a file is
  first hashed shorter than the head, and its append looks like a replacement;
  `ArchiveTailFaults` is about that case as well.
- A gzip member is one record. Two bytes stand for a complete member and one
  for an unfinished one, so a size tells a half-written member from a whole.
- Stat, open and fingerprint of one file are one step.
- The content dedup set has no limit here.
- Errors of stat, open, read and remove are left out: each ends the file's, or
  the reclaim's, turn and changes nothing.
- The writer never goes back to a name older than the newest it has created,
  and nothing of a response follows its completion.
- A SIGTERM in the middle of an emit is an emit that fails.

The slips among the definitions (`EmitErrorIgnored`, `CheckpointOfAll`, ...)
are the variants the properties are tried against; no action uses them.

### BatchSinks

Turns are numbered in the order the watcher emits them; the watcher itself is
reduced to "emit the next turns, or again the ones of a batch that failed,
perhaps with more behind them" (`Begin`). `phase`, `at` and `errs` are
`sinkEmit` and `Multi.each`; `buf` is a sink's buffer; `queue` and `attempt`
are `push` and the recursion of `pushHalves`; `landed` is what the remote end
holds, in copies; `counted` why `addRejected` counted a turn: too old, rejected
(a verdict on the data), or undelivered, which is any reason that comes with an
error. `doubts` is history: what befell a turn that no sink can tell (an answer
lost, a status of no known class taken for delivery, a background export that
failed). `Replies` are the classes of answers: delivered, verdicts per item, a
2xx that does not parse, 429/5xx, transport error, 4xx about the data, 4xx
about the configuration, a status of no class.

- A turn stands for its lines, its generation or its spans.
- `otlptrace` is a sink with one attempt, whose buffer is the SDK's queue.
  `Background` is the SDK's own export, of the whole queue at once.
- Turns without a generation id (agento11y skips them), line building, and the
  otlp metrics and live sinks, whose `Emit` cannot fail, are left out.

### TurnDeltas

The archive of one thread is a list of two kinds of record, `log`: the one that
creates a response and the one that reports its timing and completes it. The
backend's side is `reading` (the totals it reported), `before` and `latest` (the
order within a kind), `Work` (what each response really did). The reducer's is
`open`, `prev`, `lastSeen`, `seq` and `seqSeen`, named as in the code and
reduced to the thread; `disk` is the checkpoint with the offset `acked`.

| actions | code |
|---|---|
| `Opens`, `Closes` | `Reducer.Add` of `response.create`; of the timing metrics (`applyTiming`, all of it) and the completion |
| `ChunkEnds`, `EmitAccepted`, `EmitRefused` | the end of a chunk and its emit in `readFile` |
| `EvictOpen`, `EvictState`, `Save` | `Poll` after the files: `Evict` and its emit, `EvictState` and its save, the save that is due |
| `Stop`, `FlushAccepted`, `FlushRefused` | `shutdown`: `Flush`, emit, and the last save, which a refused emit skips |
| `Crash`, `Start` | the process killed; `New` and `RestoreAt` |
| `Elsewhere` | `reduce` of a record of another thread, which moves the watermark |
| `Create`, `Complete` | external: the protocol and the archive's writer |

- A chunk may complete turns of other threads only; `ChunkEnds` may then offer
  a batch that has none of this one, and it may be refused as well.
- After a refusal the files are read again from the offset. A pass ends, and
  evicts and saves, only at their end: `again` is how far they were read before,
  and `PassEnds` asks that the reader be there once more.
- All counters of `cumulative` but `engineCalls` behave alike and are one,
  `total`. `Work` gives responses powers of two, so a delta tells whose work is
  in it.
- Every response makes one engine call; the readings of a kind run on within a
  logical turn and start over with the next. A `prewarm` reports no counters,
  and the server names no turn for it.
- Records are stamped in order, and no timing record is lost. A response nobody
  finishes is one more that is created of its kind. Error frames, which close a
  response without timing, are left out.
- A response whose creation was read by a process that is gone is reborn by its
  next record without a request kind (`SeriesKey`), and so in a series of its
  own: the code does the same, as the kind comes with `response.create` only.
- Chunks end, and saves happen, anywhere; the reasons are those of
  `ArchiveTail`.

`Relevant`, the view of the run, leaves `disk` out of states from which nobody
will read it: when no crash, stop or refusal is left and the process is up and
not at its last flush. No property speaks of those states' `disk` but
`TypeOK`, and what it says there held when `disk` was written.

### Conversation

Every `response.create` carries the history of its thread again. `log` is the
archive of all threads, written before it is read (`Write`), since what the
reducer does depends on it only up to where it has read; `sent` is what each
response was created with. `seen` and `calls` are `Reducer.seen` and
`Reducer.calls`, the index with its clock, its sweep and its entries; `open` has
the content captured so far, in order.

| actions, operators | code |
|---|---|
| `AddSeen` | `seenSet.add` |
| `Record`, `Lookup`, `Prune`, `PruneAll`, `EvictOldestThread`, `EnforceLimits` | `callIndex.record`, `lookup`, its retention and its limits, in memory and around the checkpoint |
| `Opens`, `Calls`, `Closes` | `applyCreate` with `captureInput`, `applyOutputItem` of a call, the completion |
| `ChunkEnds`, `EmitAccepted`, `EmitRefused`, `EvictOpen`, `Save`, `Stop`, `FlushAccepted`, `Crash`, `Start` | the watcher around it, as in `TurnDeltas`; a crash from `flush` also stands for a last batch that was refused |

- What the index forgets, what a `response.create` brings in and what the limits
  cost is computed by recursive functions (`Kept`, `CaptureInput`,
  `EnforceLimits`).
- Every entry captured has the invocation it is about (`of`), the one it was
  attributed to (`origin`), and whether anything had been captured for the
  first, or attributed to it, before (`first`).
- `again` and `PassEnds` are those of `TurnDeltas`. `Saves` is what `Save` and
  the last save of `FlushAccepted` have in common.
- A fingerprint is what it is taken of; two items with one hash are not
  modelled.
- A moment is a record. The harness' own messages are one item, which is the
  same for every thread.
- `recent`, `shipped`, `refused`, `rewound`, `answered` and `dropped` are history:
  every key this process saw, the entries accepted and the keys refused, whether
  a batch ever was, the invocations answered before and those the index dropped.
- `ConversationAssumption` asks of the limits what their constants in the code
  have: the set and the index hold something.

### ResponseFields and Documents

`ResponseFields` has the whole life of a turn in the reducer, frame by frame, of
several requests that share one websocket. The value of a field is the name of
the frame it was taken from: `EffectOf` says of every kind of frame which fields
it sets whatever it carries, which it takes if it carries them, and which it
fills in only if they are empty. `header` is the handshake, which is that of
whichever request opened the connection.

| actions | code |
|---|---|
| `Noise`, `Sideband`, `Timing`, `Transport` | frames that open a turn or fill in fields; the end of a connection |
| `Create`, `OutputItem` | `applyCreate`, `applyClientMetadata`, `captureInput`; `applyOutputItem` |
| `Completed`, `ErrorFrame`, `Uncorrelated` | what ends a turn, and frames of no request |
| `GiveUp` | `Evict` and `Flush` |

`Documents` adds what the sinks make of each turn that was returned: `Spans`
(`emitTurn` and what it calls), `Generation` (`buildGeneration`), `Lines`
(`buildLines`). They are functions of one turn; what one says of another is an
id both sides compute (`internal/correlation`), and `SpansResolve` asks whether
those ids meet. A hash is its parts, so hashes are taken as injective. Lines
have a type, a time and the ordinal of their content. The server's clock, which
stamps the answers, may be off (`skew`).

### Attributes and Metrics

`Attributes` is `internal/attr`: the keys of the registry by who may use them
(`MetricKeys`, `ValidLabels`, `Labels`, `Metadata`, `SpanKeys`), what each span
and line carries, and the guard that replaces the values of a key past its cap
(`Admits`, `Value`, `Ask`). `Metrics` has `Emit` of the sink as a table: `Keys`
the attributes of each instrument, `Measured` what a turn adds to which.
`costOrder` and `proxyWaitOrder` are the bounded sets of responses already
charged. `Describe` stands for the other sinks, which ask the same guard;
`Register`, `Collect` and `Close` are the account gauges and their callback.

### LiveView

`turns` is the ring, `threads` the index that `Emit` rebuilds from it. What the
watcher does with the store is `ChunkCompletes`, `EmitBuilds`, `Broadcast`,
`Publishes`, `Close`; what the handler of a stream does is `Subscribe`, `Primed`,
`Receive`, `Leave`. `mu` is held across steps only where the code calls out while
holding it: `Subscribe` takes a view, which asks the watcher for its open
responses. A queued view is the number of turns it was made of. `Said` is the
parent a turn is given: what its client says, or, where the client names no
parent thread, the one in the handshake of the connection: one of its
`Handshakes`, the parents of the threads that may have opened it. Nothing is
assumed of the threads, and they may come to stand below each other in a circle,
which hangs below no root. `Kept`, the worklist of `evictable`, is the least set
that is closed under what its members protect. `EveryThreadIsShown` says of every
set of threads that are no roots that one of them hangs below something outside
the set; it fails (see below). `OnlyHandshakesHide` says that it fails for one
reason only: some thread of the set has the parent of another's handshake
(`Misled`).

### Enrichment and Service

`Enrichment` is the cache with its two indexes and its list, and the two
goroutines that use it. Neither holds the lock while it waits for the database,
so a lookup is three steps (`Miss`, `Lookup`, `CacheStore`) and a prefetch is
`AskPrefetch`, `QueryPrefetch` and one `MergePrefetch` per row, lowest id first,
from the first to the last of which it holds the lock (`Unlocked`). Rows become
visible in any order of ids (`Log`), as transactions commit. `Service` composes
it with `run`: `main` is the place `run` is at, from opening the archive to the
deferred calls, which happen on every early return as well; `probe` and `file`
are the drift probe and the goroutine of each file it scans, `poll` and `reading`
the account poller between its queries.

## Runs

| run | asks | bound |
|---|---|---|
| `ArchiveTailFaults` | type correctness; no offset behind a completion nobody accepted; `reclaim` deletes only what was read to its last byte and delivered; the watcher implements `ArchiveDelivery`; only a file hashed while it was short is read again from an earlier offset | 2 responses, 2 days, 2 records, a head of a member and a half, 1 restart; stops, crashes, refused emits, half-written and abandoned members, records that are not JSON |
| `ArchiveTailMoved` | nothing is lost between archive and sinks, nothing is accepted twice, no offset of one file is used in another | 1 response, 2 days, 2 generations of a name, a stop and restart, files moved away and put back |
| `ArchiveTailLive` | every completion ships, every expired file goes | 1 response, 3 records, 2 days, a crash, refused emits, failed saves |
| `BatchSinks` | accepted means settled at every sink; a failing sink takes nothing from the other; nothing is repeated unless a call failed or an answer was lost; buffers are empty after a call that succeeded; every call returns | 2 sinks, one that halves and one that exports in the background, 3 turns in batches of 1, 2 or 3, 1 retry, every class of answer, 1 answer lost or misread, 2 failed calls: a failed batch is offered again, as it was or grown, and halved twice |
| `TurnDeltas` | every delta is what its response did, or flagged as an upper bound of it; no baseline that was good is dropped; two logical turns nobody named have different numbers, unless the numbering was lost with an unsaved end of the process or the thread was silent for `StateRetain` | 3 responses of the kinds `turn`, `memory`, `prewarm`, at most one of them not `turn`, and not the last; a record is written when those before it were read; time 1..3 with `MaxGap`, `EvictAfter`, `StateRetain` 1; one stop, crash or refusal |
| `Conversation` | content is captured once and left behind nowhere; an output names its invocation and no other; every invocation has its number among those of its id | 2 threads, 3 responses, the first in one of them, a set of 4, an index of 1 thread and 2 calls, an age of 4 and a sweep of 2; one stop, crash or refusal |
| `Documents` | a turn has the identity its own client gave it; spans form a tree and what they say of other turns' is there; lines keep the order and the outcome | 3 requests (two of one thread, and one that it spawned), 3 frames; handshakes of another thread, late and missing frames |
| `Metrics` | limits and caps hold and a value keeps its name; attributes are asked for where they exist; a cost is added once, and not missed when it is known late | 4 offers of 3 responses and turns with fields left out, a turn with all fields only as the last; caps 1, a set of 2 |
| `LiveView` | a thread is hidden only by a handshake; an orphan's parent is gone; a client gets the newest view and none older; `Emit` returns | 3 threads in a chain, the first on a connection its grandchild opened, 4 turns, a ring of 3, a queue of 2, 1 client that visits once, clock 1..2, no response still open |
| `Service` | the cache is sound under both goroutines; stores close after their users; reports are of a whole archive and one list of accounts; a stop ends the service | 2 rows, a cache of 1; 3 files and 2 scanners; 2 accounts and 1 change; parts: the database, the probe beside both servers, the poller beside one |
| `BugRetriedBare`, `BugSilentServers` | the first two disagreements below | as small as shows it |

Why these bounds: an error of the watcher needs one file behind and one in front
(2 days), a response whose records come in two reads (2 records), two responses
only to have one open while another completes, and one restart, since `Start`
forgets everything but `disk`. What one instance leaves out (failed saves in
`ArchiveTailFaults`, a third record) another has, and `CompletionsDelivered` is
proved for all of them. For the sinks, one retry shows each branch of the retry
loop, and three turns are the smallest batch that is halved twice. `Ends` lets a
batch be the first turn alone, all three or the last two. Nothing is offered
after the last failed call an instance admits, so what becomes of what a failed
call left in a buffer takes two: the batch is offered again, as it was or grown
from one turn to three, beside what is in the buffer. Loki's part, turns that
are too old and batches that are never halved, is in `BatchSinksThree.cfg` and
in the proofs. For the reducer, three responses are two of one series with
another between them, or a baseline, its use and the one after it; three
instants put a gap on either side of `MaxGap` and a silence on either side of
`StateRetain`.

A set or index that is too small for what comes is what the other bounds aim at:
three responses of two threads with a reused call id overflow `Conversation`'s
set and both limits of its index, and two calls with one id can be open,
answered, aged or dropped in every order. Three frames of `Documents` give a
response its creation, an item and its end, or a second turn of the request
after an error, or an item of one and its answer in another; no property of it
speaks of more than two turns. In `Metrics` one value more than a cap and one
response more than the set are enough, and four offers are a response charged,
two others and the first again. In `LiveView` four turns make the ring of three
forget, and are two batches: with the view a client starts with, more than a
queue of two holds. Three threads are a grandparent, whose removal leaves two
generations below it, or a root that comes to stand below its own child.
Responses still open, which keep a thread that is in no turn of the ring, are in
`LiveThreads.cfg` and in the proofs. In `Service` two rows of one request or of
one response meet in a cache of one entry, where one is put out as the other
comes; that two live in it at once is left to the proof of `CacheIsSound`. The
database is combined with neither server there, for the size of the instance;
`EndsInOrder` is proved for any parts.

Of the configurations on disk that are no run of the table, some violate one
further promise each, as described below: `BugThreadsInACircle` (with
`MCLiveView`), `BugShortHead`, `BugRefused`, `BugLaterAppends`, `BugSizeNeverSet`
(`MCArchiveTail`), `BugBackgroundExport` (`MCBatchSinks`), `BugRefusedDeltas`
(`MCTurnDeltas`), `BugSaidTwice` (`MCConversation`). The others are further
instances of properties the table has, which hold: `ArchiveTailHeads`, where files
that were first hashed while short are moved away and put back; `BatchSinksThree`,
all three sinks up to the first failed call; and `LiveThreads`, where all threads
may run on a connection another one opened while responses are still open.

### Fairness

`ArchiveTail!FairSpec`: the goroutine is scheduled and the ticker ticks, so
`Watch`, every step that waits for nobody, is weakly fair. An emit or a save
may fail any number of times but, attempted again and again, succeeds in the
end: strong fairness of the accepting steps. Without it nothing can be
delivered, whatever the code does. `Run` selects between the ticker and
`ctx.Done()`, and Go picks either when both are ready; `Shutdown` is therefore
strongly, not weakly, fair. Nothing is assumed of the writer, the operator,
crashes or stops. `BatchSinks!FairSpec`: every request is answered or times out
(the HTTP clients have timeouts), and nothing about the answers. `LiveView`: a
goroutine that can run does, once the lock is free; a client need never read.
`Service`: `run` goes on where it waits for nobody; queries have timeouts; a
pass of the watcher is of finitely many turns, so it comes to see the
cancelled context (strong fairness of `Stopped`); the select that ends the
prefetcher takes `done` in the end, though a tick may win; servers shut down
within their grace. Nothing is assumed of the scan of a file, which does not
look at its context: that `StopReturns` holds rests on the bound of
`probe.Wait`.

### Where the code and its comments disagree

- `RetriedWithContent`, run by `BugRetriedBare`. `reducer.go:814-815`: "each
  item is emitted only on the first turn that carries it". A refused batch is
  read again, but its prompts, outputs and calls are in `Reducer.seen` since the
  first pass, and no turn will carry them. `NothingSwallowed` therefore excepts
  what was refused.
- `FailedServerEndsRun`, run by `BugSilentServers`. `live/server.go:242-243` and
  `health.go:113-116` call a server that cannot listen a startup failure. `run`
  receives their errors only after the watcher has returned (`main.go:251-258`):
  until a signal comes the service runs on, ready, without the page.
- `EveryThreadIsShown`, violated in `BugThreadsInACircle.cfg`. `live.go:390-393`
  promotes a thread without its parent to a root, as hiding one "is the one
  failure this view cannot afford". A turn starts with the parent thread in the
  handshake of its connection (`reducer.go:103`), and a client that names none
  leaves it there. So a root that runs on the connection its grandchild opened,
  which has the child for its parent, is taken for a child of its own child. Each
  of the two then hangs below the other; the snapshot asks only whether a thread
  is its own parent, and shows neither. `OnlyHandshakesHide` is what is left.
- `AppendIsNotReplacement`, violated in `BugShortHead.cfg`.
  `watcher_test.go:520-521`: "A file that is merely appended to must NOT be
  treated as replaced, or every poll would re-ship the whole archive". A file
  first seen shorter than the 512 bytes of the head is hashed whole
  (`checkpoint.go:62`), so its next append makes it look replaced and it is read
  again from the start; the test appends to a longer file. `ShortHeadsAreReread`
  says that it happens to no other.
- `RefusedIsRetried`. `watcher.go:281-284` says that an error of `emit` aborts
  the pass without advancing the checkpoint, "so the same frames are retried
  next time". The reducer has consumed the chunk and closed its responses by
  then. A response whose first records came in an earlier chunk is reduced
  again from the later ones only. `Evict` loses whole turns in the same way:
  all their records are behind the offsets, and they are gone from the reducer
  before `emit` is called. `CompletionsDelivered` still holds: the record that
  completes a response is always read again.
- `LaterAppendsLand`. `watcher.go:489-491` says of a corrupt member "stop this
  file here and keep the offset. Later appends still land". The offset kept is
  in front of the corrupt member, so every later pass fails at the same place,
  and nothing behind it is ever read. Members in front of it that come in the
  same read are lost with it, though `archive/reader.go:44-46` returns them "so
  a caller can make progress past good data".
- `ExpiredFilesGo` with stops. `FileState.Size` is set only at end of file
  (`watcher.go:546`). A pass stopped between the last chunk and end of file
  leaves `Offset` at the end and `Size` at 0; from then on `readFile` returns
  early at `watcher.go:470` and `reclaim` waits for `Size` for ever.
- `FlushedIsExported`. `otlptrace.go:158-159` says that `Flush` returns only
  once every span was exported and reports the first failure. The SDK batcher
  also exports on its own timer and drops what fails there; `Flush` finds an
  empty queue.

- `OvercountsAreFlagged`. `reducer.go:1562-1565` says that a response that
  absorbs the work its turn did before is flagged, so that "consumers can
  exclude [it] rather than silently believing an over-count". A refused batch
  rolls the offset back and not the baselines, which already hold the readings
  of that batch. Read again, the counter of engine calls does not advance, the
  response is taken for the first of a new logical turn, and its delta is the
  whole turn's total; `BaselineReset` stays false, since a baseline was there.
  `DeltasAreMeasured` therefore excepts batches that were refused, and only
  those.
- `ThreadReconstructs`. `reducer.go:833` says of user messages that they are scoped
  "per thread so each thread reconstructs in full". The key of an item is its
  text and its thread: what a user says twice is captured once.

Lesser ones need no run of their own. A batch whose retries ran out is counted as
rejected and then offered again, so a line counted as lost may land
(`loki/push.go:138`, against `main.go:402-403`). And `reclaim` trusts `Offset`
and `Size` of the last pass that visited a file: one that was away when this pass
came to it, and is back when `reclaim` does, is judged by what was read before,
which is why `DeletesOnlyIngested` is not asked of the instance with files put
back. The comment on `State` says that losing an open response at a restart
"costs one turn" (`state.go:17-19`); it also costs the next of its series, which
absorbs the lost one's work unflagged, because the lost one reports to the series
without a kind. `DeltasAreMeasured` leaves both out (`Whole`). And the number of
a turn nobody named may come again after `EvictState` dropped the thread's
numbering, which `NumbersApart` allows.

Others met while translating, which no property is about:

- `spans.go:435-446` reconciles the phases of the critical path with a cursor
  that was advanced by the phases themselves, so the comparison tells nothing
  of them, and the response's duration is not looked at.
- `reducer.go:726-728` promises identity that is "never from stale headers", but
  `Add` applies the extensions of the connection's header to every turn it
  opens (`reducer.go:121`). `ParentThreadID` and `IsSubagent` from the header
  are never cleared by a client that has neither, with the consequence that
  `BugThreadsInACircle` shows. `OwnIdentity` is about what the client did say,
  and would not notice a turn that has no creation and keeps the handshake's.
- `turnLine` keeps the catalogue of tools (`loki/record.go:236-261`), so a large
  one loses the turn record, which `record.go:24-31` calls "scalars plus two
  small maps". `RecordsTell` allows this one loss.
- `record.go:35-36` keeps the upstream's diagnostics to the turn's body and the
  response span; agento11y takes every span attribute as a tag
  (`generation.go:274-292`).
- `generation.go:157-166` tells the mode of a generation, "delivered any text
  deltas", by a count that only the timing frame brings.
- A generation's end may lie before its start when the server's clock is behind;
  spans are clamped. An error whose body does not decode leaves a generation
  without an error where the span has failed (`RecordsTell` states the two
  implications that do hold).
- A tool's result is joined to calls of its own turn by call id alone
  (`spans.go`), so a reused id gives an earlier output to the new call's span.
- `ValidateLabels` accepts keys that come with a call, like
  `gen_ai.tool.name`, as Loki labels; `Labels` never emits them.
- A row of the request log read before the prefetcher stored a newer one of the
  same response is stored over it (`enrich.go:195`), and a row committed after a
  higher id was prefetched is found by a lookup only.

## Proofs

Each of these modules proves that the properties its runs check on small
instances hold for every value of the constants that the module's assumption
allows. Every proof has the same shape: an inductive invariant, one lemma per
action or group of actions that disturbs it, and a last step that drops what
the property does not say. TLC checked each invariant on a small instance before
it was proved.

### ArchiveTail_proofs

For every set of responses, number of days, generations, records and restarts,
every `HeadBytes`, retention setting and set of faults:

| theorem | states | hypothesis |
|---|---|---|
| `TypeCorrect` | `[]TypeOK` | |
| `NeverPastUndelivered` | `[]CompletionsDelivered` | |
| `NoRecordIsLost` | `[]NothingLost` | |
| `OnlyIngestedIsDeleted` | `DeletesOnlyIngested` | no file is put back under an old name |
| `FullHeadsAreReadOnce` | `ShortHeadsAreReread` | |
| `NothingIsRepeated` | `[]NoRepeat` | `HeadFills`: a head is full when it is first hashed; where files are put back, `TombstonesStay`: no tombstone is pruned in the days of the run |
| `ImplementsItsPromise` | `Spec` implements `ArchiveDelivery` | |
| `AtLeastOnce` | the invariants of `ArchiveDelivery`, of the watcher | |

`CompletionsDelivered` is not inductive: it speaks of `cp` and `disk`, and a
read works on a copy of one (`st`) towards a position (`upto`) that becomes
`cp` later. The inductive invariant is

    IInv == TypeOK /\ Named /\ Offsets /\ Reading /\ InBatch

`Offsets` is `CompletionsDelivered` with the range of the offsets; `Reading`
says that the `FileState` being read from is as sound as the one it was copied
from; `InBatch` that every completion between that offset and the end of the
chunk is in the batch handed to `emit`, which is what makes advancing after an
accepted emit sound; `Named` that a present file has been created. The proof
leans on three facts, each a lemma: generations only grow (`AppendExtends`,
`OnlyAdds`), so what was sound stays sound (`SoundStays`); a resumed file is
sound whether it was replaced or not (`ResumeSound`); and the completions of a
chunk are in `TurnsOf` or behind a bad record (`ChunkCompletions`).

`reclaim` trusts what the last pass noted of a file. `ReclaimInv` carries it from
the stat (`ReadsWhole`) through the end of the file (`Visited`) to the deletion:
a file the writer had left at the scan is not appended to any more, so a size
and an offset that met still meet when it is deleted, unless somebody put
another file under the name meanwhile. That is the hypothesis; what happens
without it is described above.

`FullHeadsAreReadOnce` has no hypothesis: whatever the size of the head, a file
goes back to an earlier offset, while the process runs, only if the head last
hashed of it was short. `RereadInv` says that a fingerprint is of bytes that are
there (`KnownHead`) and that the position being read from is not behind the one
it was copied from if that was of a full head (`NotBehind`); as files only grow
(`BytesGrow`), a full head hashes to the same for ever (`ResumeKnows`).

`NoRecordIsLost` is about records that close nothing, too. `SafeInv` keeps the
set `Safe` of what was accepted, dropped, is in the batch or is held by the
reducer: it only grows while no emit fails and the process is not killed, a
chunk joins it whole before the offset moves (`ChunkKept`), and the process ends
with the reducer drained (`ClosedIsEmpty`).

`NothingIsRepeated` is the other half. `OnceInv` says that what is accepted, in
the batch or with the reducer (`Taken`) is apart (`TakenOnce`), that no record is
written twice (`Distinct`), and that what is still to be read is not taken:
behind the position of the read under way (`ReadingAhead`) and, for every file
that is or may come back under its name, behind the place reading goes on from,
which is in memory or, while the process is down, on disk (`PlacesAhead`). That
is the whole file where the place is one of another generation. `ResumeAhead`
needs that no append is taken for a replacement (`HeadInv`, from `HeadFills`: a
member is longer than the 512 bytes that are hashed), and `PrunedIsUnread` that a
tombstone is pruned only when what it stood for cannot come back: a reclaimed
file that is put back after its tombstone is gone is read, and reported, a second
time.

`ImplementsItsPromise` maps every step. A record that closes a response is
`Append`, a read and an eviction are `Read`, `reclaim`'s deletion is `Delete`,
and the rest stutters. It needs that a record is new when it is written
(`FreshInv`: ids grow, and nothing read, held or delivered is ahead of them), and
`ReclaimInv` for the deletion. `AtLeastOnce` is what the abstract specification
says (`PromiseStep` is the step of its invariant), carried over to the watcher
by the refinement: it never stands behind an undelivered completion, and unless
somebody else takes files away, what is undelivered can still be read.

### BatchSinks_proofs

For any list of distinct sinks (`buildSinks` makes each once), any batch size
and any number of turns, retries, failed calls and lost answers: `TypeCorrect`,
`NothingIsAcceptedUnsettled` (`AcceptedIsSettled`), `AcceptedLeavesNothing`
(`NothingLeftBehind`), `NothingLandsTwice` (`TwiceOnlyAfterFailure`) and
`AFailureSparesTheOthers` (`OthersSeeTheBatch`), all from

    IInv == TypeOK /\ CallInv /\ FateInv /\ OnceInv

The fates of a turn at a sink are tied to how far the call has come: `FateInv`
says that at every sink the call has got to and that has noted no error, each
turn of the batch is settled or still waiting (`Waiting`: in the buffer, or in a
piece of the push under way), and that a sink flushed without error has an empty
buffer; a sink that has noted an error makes the call fail. `OnceInv` says,
as long as no call has failed, that what waits at a sink has not landed there
and waits once (`WaitingIsNew`, `BuffersApart`, `QueueApart`), and that a sink
has only what the call has got to (`OfferedInTurn`). `CallInv` places the push.
The pieces of a push are disjoint sequences whose union is the batch that was
taken; `Moved` describes what one answer does to them. `InOrder` chooses the
order of a batch, so that one exists is a lemma (`TurnsHaveAnOrder`).

### TurnDeltas_proofs

For every set of kinds, number of responses, amount of work, clock, gap,
eviction and retention setting and number of mishaps:

| theorem | states | hypothesis |
|---|---|---|
| `TypeCorrect` | `[]TypeOK` | |
| `TurnsAreMeasured` | `[]DeltasAreMeasured` | |
| `NumbersStayApart` | `[]NumbersApart` | |
| `ResetsAreNeeded` | `[]NoNeedlessReset` | `EvictionWaits`: `StateRetain` is 0 (never evict) or at least `MaxGap` |

`TypeCorrect` is from `IInv == TypeOK /\ Created /\ Stamped` (a turn carries the
stamp of a completion and is keyed by a kind, so both must exist).

`DeltasAreMeasured` speaks of the batch alone; what makes it true is where the
baselines came from. The invariant is

    MInv == /\ IInv /\ ArchiveInv
            /\ BaselinesFit /\ PrewarmsSilent /\ OpenOrExcused /\ BatchReported
            /\ DeltasAreMeasured

`ArchiveInv` describes the archive: every record once, a creation before its
completion, every report linked to the one before it in its series.
`BaselinesFit` says of `pos` with the baselines in memory, and of the
checkpoint's offset with the baselines it holds, that a baseline is that of the
response which reported last in its series before that place - unless there is
none, or that response was cut or refused, or the next report of the series
was refused. The last exception is the refused batch: the reducer keeps the
baseline of a response it is about to be given again. `OpenOrExcused` says that
what is under way where the reducer stands is open, so the kind of what
completes is known; `BatchReported` that a batch holds all that completed
behind the offset, so that its refusal excuses all of it; `PrewarmsSilent` that
no prewarm leaves a baseline. `FitsNext` and `NextIsLast` move a fit over one
record, `RightBaselineMeasures` turns it into the delta.

`NumbersApart` is about turns that were accepted at any time before. `Numbering`
compares every number given (accepted, in the batch, or of the numbering that
was saved) with the one that comes next: it is smaller, unless the process
ended unsaved or the thread was silent for `StateRetain` since. `SInv` has what
that takes of time: records come in the order of their stamps (`Monotone`), none
is ahead of the clock (`InOrder`), the watermark is not ahead of what is still to
be read for the first time (`WatermarkBehind`), and a process between batches or
down holds no turn (`EmptyHands`). Eviction judges a silence by the watermark
at the end of a pass, and there everything read before has been read again
(`again`): a first version of the model let it happen before that, and the proof
failed on it.

`RInv` of `NoNeedlessReset` adds to this the date of every baseline. A baseline
in memory, and one in the checkpoint, was last used when the response it is of
finished; a baseline that is missing although its series reported is missing
because everything still to come in that series began more than `MaxGap` later
(`BaselinesDated`, from `Dated` and `Late`). For the gap rule to be judged by
the right moment, a response under way is remembered with the time of its
creation (`OpenSince`), and that creation is a record of the archive (`HasRecord`).
`EvictionWaits` is what `EvictState` needs: with a shorter `state_retain` it drops
baselines the gap rule would still accept. The defaults (168h against 30m)
satisfy it, but `config.go:512` only checks that `state_retain` is not negative.

### Conversation_proofs

For any threads, call ids and texts, any number of responses, limits of the set
and of the index, ages and sweeps, and any number of mishaps:

| theorem | states |
|---|---|
| `TypeCorrect` | `[]TypeOK`, with the limits of the index |
| `NoKeyWithoutContent` | `[]NothingSwallowed` |
| `OccurrencesAreRanks` | `[]OccurrencesCount` |
| `OutputsFindTheirOwn` | `OriginsAreRight` |
| `OutputsFindOne` | `OriginsAreFound` |

all from

    IInv == /\ ArchiveOK /\ (pc = "written" => Blank)
            /\ Shape /\ Swallows /\ Placed /\ Memory

`ArchiveOK` says what clients can send: a record is of a response of a thread,
an invocation is made once, and what a response answers was invoked by its
thread, under that id, in a record before it (`Brings`). While the archive is
being written the reader is `Blank`. `Swallows` ties the set to the history of
keys (`Fits`, `Apart`) and every key in it to content that is in a turn
somewhere. `Placed` says where batch and set are empty, which is what makes
eviction and a restart lose nothing. `Memory` is about the index, twice: in
memory for the first `pos` records and in the checkpoint for the first
`disk.acked`. Its entries are of the invocations they claim (`TellsOf`), each of
one and with its rank for an occurrence unless records were read again
(`CountsOf`, `OfsApart`); those consumed were answered (`Consumes`); and an
invocation that was read is in the index or counts as dropped (`Holds`). That a
key of a call in the set is of an invocation of the index closes the gap of a
call that is read twice: it is not recorded again.

Two facts about lists carry most of it. What pruning, limits and eviction make of
a list of entries is that list with places left out (`Thinned`), and what a
lookup makes of it differs from such a list by marks (`Fewer`); whatever `Memory`
says of the entries is kept by both (`ToldStays`, `ConsumesStays`). And a list
without repetitions stays one when a key is moved to its front (`TouchIs`,
`AddSeenIs`). What `CaptureInput` does to all items at once follows item by item
(`ItemCaptured`, `InputCaptured`): `Captures` says of any number of them what
they may change. The recursive functions are defined by `CHOOSE`, so that there is
a function as described is a lemma for each (`KeptExists`, `EvictsExist`,
`CapturesExist`), by the least place at which it would fail.

A refused batch is the exception throughout. The reducer keeps its index and its
keys while the offset goes back, so an invocation whose key the set forgets in
the meantime is recorded a second time and the numbers after it are off by one.
`OccurrencesCount` and `OriginsAreFound` promise nothing once something was
refused (`rewound`); `OriginsAreRight` still does.

### Metrics_proofs

For any turns and accounts, offered any number of times in any order, any caps
and any limit of the guards: `LimitsAreKept` (`WithinLimits`),
`CostsAreAddedOnce` (`OncePerResponse`) and `LateCostsAreAdded`
(`NoCostIsLost`). Three invariants and two facts about the registry:

    Remembered == costOrder = Latest(WithId(charges)), these are Spaced, and so of waits
    Guards     == Kept(seen) /\ \A x \in shown : Told(seen, x)

`Remembered` says what a bounded set is a memory of: the latest `CostLimit`
responses that got past it, and of all those that did, two of the same are
farther apart. That an id enters at one end and leaves at the other keeps the
first (`EnteredIs`), that one outside the set may enter the second
(`SpacedGrows`). A turn without an id passes and enters nothing. Both
properties follow, as a late cost is one whose response is not in the set.
`Guards` says that the guard only grows, that a key at its cap learns nothing
(`Grown`), and that every name given so far is the one it would give now
(`Told`); so a value cannot have two, and there are no more than the cap and the
one for all others. `MeasuresAre` and `DocumentsAre` go through the tables of
instruments, spans and lines: each is covered by the registry, whatever the
turn and whichever labels are promoted. `WithId` and `Asking` are recursive
functions; that they have the steps they are defined by is proved
(`KnownExists`, `AskedExists`).

### LiveView_proofs

For any threads and handshakes, any number of turns, clients and visits and any
limits: `TypeCorrect`, `HandshakesAloneHide` (`OnlyHandshakesHide`),
`AgeMakesNoOrphan` (`OrphansLostTheirParent`), `LatestViewIsQueued`
(`NewestIsQueued`) and `NoViewGoesBack` (`ViewsNeverGoBack`). Only the second has
a hypothesis, `SpawnsEnd`: a thread is not spawned by one that it spawned itself,
directly or through others, whatever the turns say of it. The invariant

    IInv == TypeOK /\ RingInv /\ IndexInv /\ SubsInv /\ LatestIsNewest

has a part per structure. `RingInv`: the turn a turn names is of a thread that
spawned its own (`Spawners`). So in any set of threads of which none was misled
by a handshake the highest (`Deep`) hangs below something outside it. `IndexInv`:
the index holds what its threads protect, so none of them lost a parent the ring
still knows. `SubsInv` and `LatestIsNewest`: the views queued for a client are in
order, none older than what it shows, and unless it missed one the last of them
is of the newest turn.

### Service_proofs

For any rows, turns, limits, accounts and files and any choice of optional
parts: `CacheStaysSound` (`CacheIsSound`), `RunEndsInOrder` (`EndsInOrder`),
`ReportsAreWhole` (`WholeReports`), each from an invariant of its own. `CacheInv`
says that both indexes and the list are of the same entries, each entry of a
row of its response and under an alias some row of it has (`Agrees`), and that
what the goroutines carry while they do not hold the lock are ids of rows and a
row of the response asked for (`CarriesRows`): so a row that is stored late is
at least a right one. The lemmas before it say what moving to the front, taking
out and cutting off do to a list without repetitions. `EndInv` says at which
places `run` may still have a turn in hand, servers up, sinks open. `ProbeInv`
and `PollInv` are of the scan and the poll under way: a file is left out only
once the probe was stopped, and every table is read of the accounts of the
first query.

`MaximumLemmas` derives from the well-foundedness of the naturals that a set of
stamps has a maximum and a set of positions a minimum, and induction up to a
number for a set.

### Only model-checked

The liveness properties (TLAPS has no rule for fairness or `ENABLED` here), and
the three properties of `Documents`: `OwnIdentity`, `SpansResolve` and
`RecordsTell`. None of the modules has a `RECURSIVE`
operator.

## Not modelled

- Profiling, summaries and the command line tools (`internal/profile`,
  `internal/scan`, `internal/summary`, `cmd/clb*`): offline, and no state
  survives a run. What `drift` compares is a profile; `Service` has when and of
  which files it is made.
- Loading and validating the configuration, but for the labels of Loki
  (`ValidLabels`), which `Attributes` has.
- Decoding: gzip, JSON and the redaction of what is in it. `ArchiveTail` has
  which bytes decode, `ResponseFields` which fields a frame carries.
- Routing hints, older versions of the checkpoint (restored with the
  parts they lack empty), and the byte-level cutting of lines.
- Descriptions, units and buckets of instruments; labels, headlines and stall
  marks of the live page and the pages themselves; the SQL of the enricher and
  the poller, which is external here, as are the remote ends of the sinks.

Hazards of the code that no property covers are the counters of lines lost
(`loki/push.go:138`), spans the SDK drops on its own schedule, a response under
way at a restart, and the stale row of the cache, all described above: the code
lets each of them happen.

## Plan

What is left, in this order:

1. Proofs: `OwnIdentity` of `ResponseFields`, then that the spans of a turn hang
   together (`Hangs`, the first part of `SpansResolve`).
2. Of the invocations of an id of which another one was dropped `OccurrencesCount`
   says nothing. That two of those left still have different numbers rests on a
   process that reads records again after a crash dropping the same entries at the
   same records as the one before, and takes the index of that one as history.
3. `Resync` and the resumable copy of `clbsync`, as functions against a
   reference definition.

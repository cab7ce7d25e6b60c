----------------------------- MODULE BatchSinks ----------------------------
(***************************************************************************)
(* internal/sink and its batching sinks, loki, agento11y and otlptrace,    *)
(* under the caller that drives them: cmd/codexlb2otel's sinkEmit calls    *)
(* Multi.Emit and then Multi.Flush for every batch of turns, Multi calls   *)
(* every sink in turn, and a sink pushes what it has buffered: loki and    *)
(* agento11y over HTTP, retrying with backoff, otlptrace through the OTel  *)
(* SDK's ForceFlush, which is one attempt to it.                           *)
(*                                                                         *)
(* Turns are numbered in the order the watcher emits them.  The watcher    *)
(* (see ArchiveTail) offers a batch again when a call for it errs, and   *)
(* the batch may have grown by then.  A turn stands for all its lines (one *)
(* generation for agento11y, one span tree for otlptrace).  The remote     *)
(* ends are external: a request may be refused for several reasons, be     *)
(* answered with something unparseable, or be lost before or after it took *)
(* effect.                                                                 *)
(***************************************************************************)
EXTENDS Naturals, Sequences, FiniteSets, Functions

CONSTANTS
    Sinks,        \* the sinks of Multi, in order
    Splits,       \* those of them that halve a batch that is too large (agento11y)
    Exports,      \* those that hand spans to the OTel SDK (otlptrace)
    BatchSize,
    MaxRetries,
    MaxTurns,     \* bound: turns the watcher emits
    Ends,         \* bound: the turns a batch may end with
    MaxFailures,  \* bound: calls that fail
    MaxDoubts,    \* bound: answers lost, of no known class, or given to nobody
    Replies       \* which of ReplyKinds the remote ends give

\* "dropped": the SDK fails to export a batch in the background, which it logs.
ReplyKinds == {"ok", "verdicts", "garbled", "busy", "lost", "data", "config", "odd",
               "dropped"}

\* buildSinks wires one sink per enabled destination.
ASSUME SinksAssumption ==
    /\ Sinks \in Seq(STRING) /\ IsInjective(Sinks)
    /\ BatchSize \in Nat \ {0}
    /\ MaxRetries \in Nat /\ MaxTurns \in Nat /\ MaxFailures \in Nat
    /\ MaxDoubts \in Nat
    /\ Replies \subseteq ReplyKinds

Names == Range(Sinks)
Turns == 1..MaxTurns

Copies(lines, t) == Cardinality({i \in DOMAIN lines : lines[i] = t})

\* The turns of a set, in the order the watcher emitted them.
InOrder(S) ==
    CHOOSE q \in [1..Cardinality(S) -> S] :
        \A i, j \in DOMAIN q : i < j => q[i] < q[j]

VARIABLES
    next,      \* the first turn the watcher has not had accepted
    last,      \* the last turn of the batch being emitted, 0 outside a call
    phase,     \* where sinkEmit, or the service's shutdown, stands
    at,        \* index of the sink Multi is calling
    errs,      \* the sinks that have returned an error to Multi.each
    failures,
    cancelled, \* the context's Done
    buf,       \* Sink.buf
    queue,     \* the batches the current push has still to deliver
    attempt,
    landed,    \* copies of every turn a remote end holds
    counted,   \* why a sink says a turn was rejected: two reasons that resending
               \* cannot cure, and all those that come with an error
    doubts     \* history: what befell a turn that no sink can tell

callVars == <<next, last, phase, at, errs, failures, cancelled>>
pushVars == <<queue, attempt>>
farVars == <<landed, counted, doubts>>
vars == <<callVars, buf, pushVars, farVars>>

Sink == Sinks[at]
Retries == IF Sink \in Exports THEN 0 ELSE MaxRetries
Calling == phase \in {"emit", "flush", "drain"} /\ at <= Len(Sinks)
Pushing == queue # <<>>

-----------------------------------------------------------------------------
(* One push: the request at the head of the queue and what comes of it.    *)

Batch == Head(queue)

Land(S) ==
    landed' = [landed EXCEPT ![Sink] =
                  [t \in Turns |-> IF t \in S THEN @[t] + Copies(Batch, t) ELSE @[t]]]

\* addRejected
Count(S, why) ==
    counted' = [counted EXCEPT ![Sink] =
                   [t \in Turns |-> IF t \in S THEN @[t] \cup {why} ELSE @[t]]]

Doubt(s, S, what) ==
    /\ Cardinality({x \in Names \X Turns : doubts[x[1]][x[2]] # {}}) < MaxDoubts
    /\ doubts' = [doubts EXCEPT ![s] =
                     [t \in Turns |-> IF t \in S THEN @[t] \cup {what} ELSE @[t]]]

\* push returns nil for this batch; pushHalves goes on with the other half.
Delivered ==
    /\ queue' = Tail(queue) /\ attempt' = 0
    /\ IF Len(queue) = 1 THEN at' = at + 1 ELSE UNCHANGED at
    /\ UNCHANGED errs

\* Slip: Multi stops at the first sink that fails.
PushFailsAll ==
    /\ queue' = <<>> /\ attempt' = 0
    /\ at' = Len(Sinks) + 1 /\ errs' = errs \cup {Sink}

\* push returns an error, and pushHalves with it: the rest is not tried.
PushFails ==
    /\ queue' = <<>> /\ attempt' = 0
    /\ at' = at + 1 /\ errs' = errs \cup {Sink}

\* Slip: the batch is counted and forgotten, and push returns nil.
GiveUpQuietly == Count(Range(Batch), "undelivered") /\ Delivered

\* Retries exhausted, a verdict on the configuration, an answer that does not parse.
GiveUp == Count(Range(Batch), "undelivered") /\ PushFails

Retry ==
    /\ attempt' = attempt + 1
    /\ UNCHANGED <<queue, at, errs, counted>>

Answered == Pushing /\ UNCHANGED <<next, last, phase, failures, cancelled, buf>>
Request == Answered /\ UNCHANGED doubts

\* 2xx, and every item of the batch accepted.
Ok ==
    /\ "ok" \in Replies /\ Request
    /\ Land(Range(Batch)) /\ UNCHANGED counted
    /\ Delivered

\* accountResults: 2xx, some of the generations refused or not mentioned.
Verdicts ==
    /\ "verdicts" \in Replies /\ Request /\ Sink \in Splits
    /\ \E S \in SUBSET Range(Batch) : Land(S) /\ Count(Range(Batch) \ S, "rejected")
    /\ Delivered

\* accountResults: 2xx with a body that does not parse.
Garbled ==
    /\ "garbled" \in Replies /\ Request /\ Sink \in Splits
    /\ Land(Range(Batch))
    /\ GiveUp

\* Slip: one attempt too many.
BusyOnceMore ==
    /\ "busy" \in Replies /\ Request
    /\ UNCHANGED landed
    /\ IF attempt <= Retries THEN Retry ELSE GiveUp

\* Slip: the backoff starts over instead of giving up.
BusyStartsOver ==
    /\ "busy" \in Replies /\ Request
    /\ UNCHANGED landed
    /\ IF attempt < Retries THEN Retry
       ELSE attempt' = 0 /\ UNCHANGED <<queue, at, errs, counted>>

\* 429 or 5xx.
Busy ==
    /\ "busy" \in Replies /\ Request
    /\ UNCHANGED landed
    /\ IF attempt < Retries THEN Retry ELSE GiveUp

\* A transport error: the request may have taken effect.
Lost ==
    /\ "lost" \in Replies /\ Answered /\ Doubt(Sink, Range(Batch), "lost")
    /\ \E S \in {{}, Range(Batch)} : Land(S)
    /\ IF attempt < Retries THEN Retry ELSE GiveUp

\* A 4xx that is a verdict on the data.
RefusedData ==
    /\ "data" \in Replies /\ Request /\ Sink \notin Exports
    /\ Sink \in Splits => Len(Batch) = 1
    /\ Count(Range(Batch), "rejected") /\ UNCHANGED landed
    /\ Delivered

\* Slip: the halves share a turn.
HalveOverlapping ==
    /\ "data" \in Replies /\ Request
    /\ Sink \in Splits /\ Len(Batch) > 1
    /\ LET mid == Len(Batch) \div 2
       IN  queue' = <<SubSeq(Batch, 1, mid), SubSeq(Batch, mid, Len(Batch))>>
                    \o Tail(queue)
    /\ attempt' = 0
    /\ UNCHANGED <<at, errs, landed, counted>>

\* pushHalves
Halve ==
    /\ "data" \in Replies /\ Request
    /\ Sink \in Splits /\ Len(Batch) > 1
    /\ LET mid == Len(Batch) \div 2
       IN  queue' = <<SubSeq(Batch, 1, mid), SubSeq(Batch, mid + 1, Len(Batch))>>
                    \o Tail(queue)
    /\ attempt' = 0
    /\ UNCHANGED <<at, errs, landed, counted>>

\* A 4xx that is a verdict on the configuration.
RefusedConfig ==
    /\ "config" \in Replies /\ Request /\ Sink \notin Exports
    /\ UNCHANGED landed
    /\ GiveUp

\* A status of no known class is taken for delivery.
Odd ==
    /\ "odd" \in Replies /\ Answered /\ Sink \notin Exports
    /\ Doubt(Sink, Range(Batch), "odd")
    /\ UNCHANGED <<landed, counted>>
    /\ Delivered

\* ctx.Done() during a backoff; shutdown's flush runs without the context.
BackoffCancelled ==
    /\ Request /\ attempt > 0 /\ cancelled /\ phase # "drain"
    /\ UNCHANGED <<landed, counted>>
    /\ PushFails

Push ==
    \/ Ok \/ Verdicts \/ Garbled \/ Busy \/ Lost \/ RefusedData \/ Halve
    \/ RefusedConfig \/ Odd \/ BackoffCancelled

-----------------------------------------------------------------------------
(* Emit and Flush of one sink.                                             *)

Skip == at' = at + 1 /\ UNCHANGED queue
Take(s, lines) == buf' = [buf EXCEPT ![s] = <<>>] /\ queue' = <<lines>> /\ UNCHANGED at
Keep(s, lines) == buf' = [buf EXCEPT ![s] = lines] /\ Skip

\* Emit: append the batch, but for the turns too old to ship (loki), and push
\* once the buffer is full or has been open for BatchWait.
Emit ==
    /\ phase = "emit" /\ Calling /\ ~Pushing
    /\ \E old \in SUBSET (next..last) :
          LET lines == buf[Sink] \o InOrder((next..last) \ old)
          IN  /\ \A t \in next..last : "too_old" \in counted[Sink][t] => t \in old
              /\ Sink \in Splits \cup Exports => old = {}
              /\ Sink \in Exports => ~cancelled
              /\ Count(old, "too_old")
              /\ \/ lines # <<>> /\ Sink \notin Exports /\ Take(Sink, lines)
                 \/ (Len(lines) < BatchSize \/ Sink \in Exports) /\ Keep(Sink, lines)
    /\ UNCHANGED <<next, last, phase, errs, failures, cancelled, attempt, landed, doubts>>

\* otlptrace refuses a batch once the context is done.
EmitCancelled ==
    /\ phase = "emit" /\ Calling /\ ~Pushing
    /\ Sink \in Exports /\ cancelled
    /\ at' = at + 1 /\ errs' = errs \cup {Sink}
    /\ UNCHANGED <<next, last, phase, failures, cancelled, buf, pushVars, farVars>>

\* Slip: a flush leaves a batch that is not full.
FlushWhenFull ==
    /\ phase \in {"flush", "drain"} /\ Calling /\ ~Pushing
    /\ IF Len(buf[Sink]) < BatchSize THEN Skip /\ UNCHANGED buf ELSE Take(Sink, buf[Sink])
    /\ UNCHANGED <<next, last, phase, errs, failures, cancelled, attempt, farVars>>

Flush ==
    /\ phase \in {"flush", "drain"} /\ Calling /\ ~Pushing
    /\ IF buf[Sink] = <<>> THEN Skip /\ UNCHANGED buf ELSE Take(Sink, buf[Sink])
    /\ UNCHANGED <<next, last, phase, errs, failures, cancelled, attempt, farVars>>

\* The SDK's batch processor (WithBatcher) exports what it has queued whenever
\* its timer or its batch size says so, not only on ForceFlush, and drops what
\* it fails to export; Flush finds nothing left to do.
Background ==
    /\ \E s \in Exports \cap Names :
          /\ buf[s] # <<>>
          /\ buf' = [buf EXCEPT ![s] = <<>>]
          /\ \/ /\ landed' = [landed EXCEPT ![s] =
                                      [t \in Turns |-> @[t] + Copies(buf[s], t)]]
                /\ UNCHANGED doubts
             \/ /\ "dropped" \in Replies
                /\ Doubt(s, Range(buf[s]), "dropped")
                /\ UNCHANGED landed
    /\ UNCHANGED <<callVars, pushVars, counted>>

-----------------------------------------------------------------------------
(* sinkEmit, Multi.each and the service.                                   *)

\* The watcher emits the next turns, or again those of a batch that failed.
Begin ==
    /\ phase = "idle" /\ ~cancelled /\ failures < MaxFailures
    /\ \E hi \in (next..MaxTurns) \cap Ends : last' = hi
    /\ phase' = "emit" /\ at' = 1 /\ errs' = {}
    /\ UNCHANGED <<next, failures, cancelled, buf, pushVars, farVars>>

EachDone == ~Pushing /\ at = Len(Sinks) + 1

EmitDone ==
    /\ phase = "emit" /\ EachDone /\ errs = {}
    /\ phase' = "flush" /\ at' = 1
    /\ UNCHANGED <<next, last, errs, failures, cancelled, buf, pushVars, farVars>>

Accepted ==
    /\ phase = "flush" /\ EachDone /\ errs = {}
    /\ next' = last + 1
    /\ last' = 0 /\ phase' = "idle" /\ at' = 0
    /\ UNCHANGED <<errs, failures, cancelled, buf, pushVars, farVars>>

Refused ==
    /\ phase \in {"emit", "flush"} /\ EachDone /\ errs # {}
    /\ failures' = failures + 1
    /\ last' = 0 /\ phase' = "idle" /\ at' = 0
    /\ UNCHANGED <<next, errs, cancelled, buf, pushVars, farVars>>

Cancel ==
    /\ ~cancelled
    /\ cancelled' = TRUE
    /\ UNCHANGED <<next, last, phase, at, errs, failures, buf, pushVars, farVars>>

\* The service flushes every sink once more, then closes them.
Drain ==
    /\ phase = "idle" /\ cancelled
    /\ phase' = "drain" /\ at' = 1 /\ errs' = {}
    /\ UNCHANGED <<next, last, failures, cancelled, buf, pushVars, farVars>>

Close ==
    /\ phase = "drain" /\ EachDone
    /\ phase' = "closed" /\ at' = 0
    /\ UNCHANGED <<next, last, errs, failures, cancelled, buf, pushVars, farVars>>

Init ==
    /\ next = 1 /\ last = 0 /\ phase = "idle" /\ at = 0
    /\ errs = {} /\ failures = 0 /\ cancelled = FALSE
    /\ buf = [s \in Names |-> <<>>]
    /\ queue = <<>> /\ attempt = 0
    /\ landed = [s \in Names |-> [t \in Turns |-> 0]]
    /\ counted = [s \in Names |-> [t \in Turns |-> {}]]
    /\ doubts = counted

Work == Push \/ Emit \/ EmitCancelled \/ Flush \/ EmitDone \/ Accepted \/ Refused \/ Close
Next ==
    \/ Work \/ Begin \/ Cancel \/ Drain \/ Background
    \/ phase = "closed" /\ UNCHANGED vars    \* the process is over

Spec == Init /\ [][Next]_vars

\* Every request is answered or times out, and the goroutine is scheduled.
FairSpec == Spec /\ WF_vars(Work)

-----------------------------------------------------------------------------
(* Properties.                                                             *)

TypeOK ==
    /\ next \in 1..MaxTurns + 1 /\ last \in 0..MaxTurns
    /\ phase \in {"idle", "emit", "flush", "drain", "closed"}
    /\ at \in 0..Len(Sinks) + 1 /\ errs \subseteq Names
    /\ failures \in 0..MaxFailures /\ cancelled \in BOOLEAN
    /\ buf \in [Names -> Seq(Turns)] /\ queue \in Seq(Seq(Turns))
    /\ attempt \in 0..MaxRetries
    /\ landed \in [Names -> [Turns -> Nat]]
    /\ counted \in [Names -> [Turns -> SUBSET {"too_old", "rejected", "undelivered"}]]
    /\ doubts \in [Names -> [Turns -> SUBSET {"lost", "odd", "dropped"}]]

\* A turn the remote end holds, or that was dropped and counted for a reason
\* resending cannot cure.  Two things no sink can tell excuse it: a status of no
\* known class is taken for delivery, and an export in the background failed.
Settled(s, t) ==
    \/ landed[s][t] > 0
    \/ counted[s][t] \cap {"too_old", "rejected"} # {}
    \/ doubts[s][t] \cap {"odd", "dropped"} # {}

\* "This callback only reports success once the batch has actually left the
\* building": a turn the watcher may checkpoint past has reached every sink's
\* remote end, or is counted as undeliverable there.  Neither a batch a
\* refused call left in a buffer, nor a halved one, nor a cancelled backoff
\* slips through.
AcceptedIsSettled == \A s \in Names, t \in Turns : t < next => Settled(s, t)

\* Between calls nothing is left in a sink's buffer unless the last call failed.
NothingLeftBehind ==
    phase = "idle" /\ errs = {} => \A s \in Names : buf[s] = <<>>

\* A remote end holds a turn twice only after a call failed, or when an answer
\* for it was lost: a halved or retried batch repeats nothing.
TwiceOnlyAfterFailure ==
    \A s \in Names, t \in Turns :
        landed[s][t] > 1 => failures > 0 \/ "lost" \in doubts[s][t]

\* "Every sink sees every batch even if an earlier one fails": when a call
\* fails, a sink that returned no error holds the batch, has it buffered or has
\* counted it.
OthersSeeTheBatch ==
    [][last # 0 /\ phase' = "idle" =>
          \A s \in Names \ errs, t \in next..last :
              Settled(s, t) \/ t \in Range(buf[s])]_vars

\* Whatever the remote ends answer, every call returns: retries are bounded and
\* halving ends.
EveryCallReturns == phase \in {"emit", "flush", "drain"} ~> phase \in {"idle", "closed"}
=============================================================================

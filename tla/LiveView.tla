------------------------------ MODULE LiveView -----------------------------
(***************************************************************************)
(* internal/live: the bounded view of recent threads and the browsers that *)
(* follow it.                                                              *)
(*                                                                         *)
(* The watcher hands every batch of turns to Store.Emit while it holds its *)
(* own lock.  Emit rebuilds the view from a ring of turns and sends it to  *)
(* the subscribers; handlers of requests subscribe, read and leave beside  *)
(* it, under the store's lock.  The responses still running come from the  *)
(* watcher too, as a copy that is read without a lock.                     *)
(***************************************************************************)
EXTENDS Integers, Sequences, FiniteSets, SequencesExt

CONSTANTS
    Threads,
    Parent,        \* the thread that spawned each thread, NoThread for a root
    NoThread,
    Handshakes,    \* parents named in the handshakes of the connections of each
    MayRun,        \* bound: the threads seen with an open response
    Clients,
    MaxTurns,      \* bound: turns completed
    MaxNow,        \* bound: the wall clock
    MaxVisits,     \* bound: subscriptions
    RetainTurns,   \* Options.RetainTurns
    RetainWindow,  \* Options.RetainWindow
    SubQueue       \* subQueue

ASSUME LiveAssumption ==
    /\ IsFiniteSet(Threads) /\ NoThread \notin Threads /\ "free" \notin Clients
    /\ Parent \in [Threads -> Threads \cup {NoThread}]
    /\ Handshakes \in [Threads -> SUBSET (Threads \cup {NoThread})] /\ MayRun \subseteq Threads
    /\ MaxTurns \in Nat /\ MaxNow \in Nat \ {0} /\ MaxVisits \in Nat
    /\ RetainTurns \in Nat \ {0} /\ RetainWindow \in Nat /\ SubQueue \in Nat \ {0}

VARIABLES
    now,       \* the wall clock
    made,      \* turns completed so far
    \* The watcher.
    wpc,
    batch,     \* the turns of the chunk
    published, \* threads with a response in the copy InFlight returns
    \* The store.
    mu,        \* who holds Store.mu across steps
    turns,     \* the ring
    threads,   \* ids of the threads in the index
    \* The subscribers.
    subs,      \* those registered
    cpc,       \* what the handler of each client does
    queue,     \* the channel of each: the number of turns a snapshot was made of
    closed,    \* how often it was closed
    view,      \* what each client shows
    missed,    \* clients whose queue was full at the last send
    visits

watcherVars == <<now, made, wpc, batch, published>>
storeVars   == <<mu, turns, threads>>
subVars     == <<subs, cpc, queue, closed, view, missed, visits>>
vars == <<watcherVars, storeVars, subVars>>

-----------------------------------------------------------------------------
(* The index and the forest.                                               *)

TurnsOf(ring, t) == {n \in DOMAIN ring : ring[n].thread = t}
Retained(ring)   == {ring[n].thread : n \in DOMAIN ring}

\* The last value that is not empty wins.
LatestField(ring, t, field, none) ==
    LET with == {n \in TurnsOf(ring, t) : ring[n][field] # none}
    IN  IF with = {} THEN none ELSE ring[CHOOSE n \in with : \A m \in with : m <= n][field]

ParentThread(ring, t) == LatestField(ring, t, "parentThread", NoThread)
ParentTurn(ring, t)   == LatestField(ring, t, "parentTurn", 0)

\* turnOwner: the thread that ran a turn, if the turn is in the ring.
TurnOwner(ring, id) ==
    LET of == {n \in DOMAIN ring : ring[n].id = id}
    IN  IF id = 0 \/ of = {} THEN NoThread ELSE ring[CHOOSE n \in of : TRUE].thread

LastSeen(ring, t) ==
    LET ats == {ring[n].at : n \in TurnsOf(ring, t)}
    IN  CHOOSE at \in ats : \A other \in ats : other <= at

\* Slip: only the parent thread is protected.
ProtectsThread(ring, t) == {ParentThread(ring, t)} \cap Retained(ring)

\* What protecting a thread protects next.
Protects(ring, t) ==
    {ParentThread(ring, t), TurnOwner(ring, ParentTurn(ring, t))} \cap Retained(ring)

\* evictable's protect, from the threads with an open response and the recent:
\* what every set holds that has these and protects what it has.
Kept(ring, open, cutoff) ==
    LET first  == (open \cap Retained(ring)) \cup
                  {t \in Retained(ring) : LastSeen(ring, t) >= cutoff}
        whole  == {S \in SUBSET Retained(ring) :
                     first \subseteq S /\ \A t \in S : Protects(ring, t) \subseteq S}
    IN  {t \in Retained(ring) : \A S \in whole : t \in S}

\* The parent a thread is shown under: its parent thread before the owner of
\* the turn that spawned it.
Above(t) ==
    IF ParentThread(turns, t) # NoThread THEN ParentThread(turns, t)
    ELSE TurnOwner(turns, ParentTurn(turns, t))

\* Slip: one whose parent has gone is not shown at all.
RootsOnly == {t \in threads : Above(t) \in {NoThread, t}}

\* snapshotLocked: those without a parent, and orphans.
Roots == {t \in threads : Above(t) \in {NoThread, t} \/ Above(t) \notin threads}

Orphaned == {t \in Roots : Above(t) \notin {NoThread, t}}

-----------------------------------------------------------------------------
(* The watcher.                                                            *)

Tick ==
    /\ now < MaxNow /\ now' = now + 1
    /\ UNCHANGED <<made, wpc, batch, published, storeVars, subVars>>

IdsOf(ring, t) == {0} \cup {ring[n].id : n \in TurnsOf(ring, t)}

\* What the client of a completed turn may say of its thread: nothing, the turn
\* that spawned it, or the thread that did and a turn of the one above that.
Spawned(ring, t) ==
    ({NoThread} \X IdsOf(ring, Parent[t])) \cup
    ({Parent[t]} \X (IF Parent[t] \in Threads THEN IdsOf(ring, Parent[Parent[t]]) ELSE {0}))

\* What it ends up saying: where the client names no parent thread, the one in
\* the handshake of its connection stays, and that is the handshake of whichever
\* thread opened it.
Said(ring, t) == Spawned(ring, t) \cup (Handshakes[t] \X IdsOf(ring, Parent[t]))

\* The next turn; an archive may lag behind the clock.
TurnsToCome(ring, id) ==
    UNION {{[thread |-> t, id |-> id, at |-> at, parentThread |-> by[1], parentTurn |-> by[2]]
              : at \in 1..now, by \in Said(ring, t)} : t \in Threads}

\* A chunk completes two turns.
ChunkCompletes ==
    /\ wpc = "polling" /\ made + 2 <= MaxTurns
    /\ wpc' = "emit"
    /\ \E first \in TurnsToCome(turns, made + 1) :
          \E second \in TurnsToCome(Append(turns, first), made + 2) :
             batch' = <<first, second>>
    /\ UNCHANGED <<now, made, published, storeVars, subVars>>

\* trim
Trimmed(ring) ==
    IF Len(ring) > RetainTurns
    THEN SubSeq(ring, Len(ring) - RetainTurns + 1, Len(ring)) ELSE ring

\* Emit, while it holds the lock: trim and rebuild.
EmitBuilds ==
    /\ wpc = "emit" /\ mu = "free"
    /\ LET ring == Trimmed(turns \o batch)
       IN  /\ turns' = ring
           /\ threads' = Kept(ring, published, now - RetainWindow)
    /\ batch' = <<>>
    /\ made' = made + Len(batch)
    /\ wpc' = "broadcast"
    /\ UNCHANGED <<now, published, mu, subVars>>

\* Slip: a full queue gives its oldest place to the newest view.
ReplacesTheOldest ==
    /\ wpc = "broadcast" /\ mu = "free"
    /\ queue' = [c \in Clients |->
           IF c \notin subs THEN queue[c]
           ELSE IF Len(queue[c]) < SubQueue THEN Append(queue[c], made)
           ELSE <<made>> \o Tail(queue[c])]
    /\ missed' = missed \ subs
    /\ wpc' = "emitted"
    /\ UNCHANGED <<now, made, batch, published, storeVars, subs, cpc, closed, view, visits>>

\* broadcast, which takes the lock again and waits for nobody.
Broadcast ==
    /\ wpc = "broadcast" /\ mu = "free"
    /\ LET full == {c \in subs : Len(queue[c]) = SubQueue}
       IN  /\ queue' = [c \in Clients |->
                  IF c \in subs \ full THEN Append(queue[c], made) ELSE queue[c]]
           /\ missed' = (missed \ subs) \cup full
    /\ wpc' = "emitted"
    /\ UNCHANGED <<now, made, batch, published, storeVars, subs, cpc, closed, view, visits>>

\* publishProgress after the chunk.
Publishes ==
    /\ wpc = "emitted" /\ wpc' = "polling"
    /\ published' \in SUBSET MayRun
    /\ UNCHANGED <<now, made, batch, storeVars, subVars>>

\* Store.Close, after the watcher has stopped.
Close ==
    /\ wpc = "polling" /\ mu = "free"
    /\ wpc' = "closed"
    /\ closed' = [c \in Clients |-> IF c \in subs THEN closed[c] + 1 ELSE closed[c]]
    /\ subs' = {}
    /\ UNCHANGED <<now, made, batch, published, storeVars, cpc, queue, view, missed, visits>>

-----------------------------------------------------------------------------
(* The handler of a stream.                                                *)

\* Slip: the copy of the running responses waits for the watcher's lock.
InFlightLocked == wpc \in {"polling", "closed"}

\* Whether the watcher's InFlight returns: it loads a pointer and takes no lock.
InFlightReturns == TRUE

\* Subscribe takes the lock,
Subscribe(c) ==
    /\ mu = "free" /\ cpc[c] = "gone" /\ visits < MaxVisits
    /\ visits' = visits + 1 /\ mu' = c
    /\ cpc' = [cpc EXCEPT ![c] = "priming"]
    /\ UNCHANGED <<watcherVars, turns, threads, subs, queue, closed, view, missed>>

\* Slip: the queue is left empty until the next poll.
Unprimed(c) ==
    /\ mu = c /\ mu' = "free"
    /\ subs' = subs \cup {c}
    /\ closed' = [closed EXCEPT ![c] = 0]
    /\ view' = [view EXCEPT ![c] = 0]
    /\ missed' = missed \ {c}
    /\ cpc' = [cpc EXCEPT ![c] = "reading"]
    /\ UNCHANGED <<watcherVars, turns, threads, queue, visits>>

\* and gives it up with the client registered and one view in its queue.
Primed(c) ==
    /\ mu = c /\ InFlightReturns
    /\ mu' = "free"
    /\ subs' = subs \cup {c}
    /\ queue' = [queue EXCEPT ![c] = <<made>>]
    /\ closed' = [closed EXCEPT ![c] = 0]
    /\ view' = [view EXCEPT ![c] = 0]
    /\ missed' = missed \ {c}
    /\ cpc' = [cpc EXCEPT ![c] = "reading"]
    /\ UNCHANGED <<watcherVars, turns, threads, visits>>

Receive(c) ==
    /\ cpc[c] = "reading" /\ queue[c] # <<>>
    /\ view' = [view EXCEPT ![c] = Head(queue[c])]
    /\ queue' = [queue EXCEPT ![c] = Tail(queue[c])]
    /\ UNCHANGED <<watcherVars, storeVars, subs, cpc, closed, missed, visits>>

\* Slip: the channel is closed whoever closed it before.
LeaveClosing(c) ==
    /\ cpc[c] = "reading" /\ mu = "free"
    /\ subs' = subs \ {c} /\ closed' = [closed EXCEPT ![c] = @ + 1]
    /\ cpc' = [cpc EXCEPT ![c] = "gone"]
    /\ queue' = [queue EXCEPT ![c] = <<>>]
    /\ UNCHANGED <<watcherVars, storeVars, view, missed, visits>>

\* The request ends, a write fails or the channel is closed; the deferred
\* cancel closes it if it is still registered.
Leave(c) ==
    /\ cpc[c] = "reading" /\ mu = "free"
    /\ subs' = subs \ {c}
    /\ closed' = [closed EXCEPT ![c] = IF c \in subs THEN @ + 1 ELSE @]
    /\ cpc' = [cpc EXCEPT ![c] = "gone"]
    /\ queue' = [queue EXCEPT ![c] = <<>>]
    /\ UNCHANGED <<watcherVars, storeVars, view, missed, visits>>

-----------------------------------------------------------------------------
Init ==
    /\ now = 1 /\ made = 0 /\ wpc = "polling" /\ batch = <<>> /\ published = {}
    /\ mu = "free" /\ turns = <<>> /\ threads = {}
    /\ subs = {} /\ cpc = [c \in Clients |-> "gone"]
    /\ queue = [c \in Clients |-> <<>>] /\ closed = [c \in Clients |-> 0]
    /\ view = closed /\ missed = {} /\ visits = 0

Watcher == ChunkCompletes \/ EmitBuilds \/ Broadcast \/ Publishes
Handler(c) == Subscribe(c) \/ Primed(c) \/ Receive(c) \/ Leave(c)
Next == Tick \/ Watcher \/ Close \/ \E c \in Clients : Handler(c)

\* A step of the watcher, known by what it does to wpc.
GoesOn(from, to) == mu = "free" /\ wpc = from /\ wpc' = to

\* Goroutines that can run do, once the lock is free; a client need not read.
Fairness ==
    /\ WF_wpc(\/ GoesOn("emit", "broadcast") \/ GoesOn("broadcast", "emitted")
              \/ GoesOn("emitted", "polling"))
    /\ \A c \in Clients : WF_mu(Primed(c))

Spec == Init /\ [][Next]_vars /\ Fairness

-----------------------------------------------------------------------------
(* Properties.                                                             *)

\* No channel is closed twice or while views are still sent to it, whichever of
\* the store's end and the handler's comes first (subscribe.go, Close).
ClosedOnce ==
    \A c \in Clients :
        /\ closed[c] <= 1
        /\ cpc[c] = "reading" => (c \in subs <=> closed[c] = 0)

\* The ring, the index and the queues stay within their limits, and the index
\* has no thread without a turn (live.go trim and rebuild); a channel is closed
\* once.
TypeOK ==
    /\ now \in 1..MaxNow /\ made \in 0..MaxTurns /\ visits \in 0..MaxVisits
    /\ wpc \in {"polling", "emit", "broadcast", "emitted", "closed"}
    /\ published \subseteq Threads
    /\ mu \in Clients \cup {"free"}
    /\ Len(turns) <= RetainTurns /\ threads \subseteq Retained(turns)
    /\ subs \subseteq Clients /\ missed \subseteq Clients
    /\ \A c \in Clients : Len(queue[c]) <= SubQueue
    /\ ClosedOnce

\* The parent a thread is given is that of another thread's handshake.
Misled(t) == ParentThread(turns, t) \notin {NoThread, Parent[t]}

\* However many of its ancestors have left the ring or the index, every thread
\* of the index hangs below a root of the view, unless a line of parents leads
\* it round in a circle, and then one of them is not what a client said (live.go
\* snapshotLocked, reducer.go applyClientMetadata): some thread of any others
\* was misled, or hangs from a thread of the index that is not among them.
OnlyHandshakesHide ==
    \A S \in SUBSET (threads \ Roots) :
        S # {} => \E t \in S : Misled(t) \/ Above(t) \in threads \ S

\* Age alone makes no orphan: one is shown as a root only after the last turn of
\* its parent left the ring (live.go evictable).
OrphansLostTheirParent == \A t \in Orphaned : Above(t) \notin Retained(turns)

\* What a client shows is never replaced by something older while its
\* connection lasts, whatever it missed (subscribe.go).
ViewsNeverGoBack ==
    [][\A c \in Clients :
          cpc[c] = "reading" /\ cpc'[c] = "reading" => view'[c] >= view[c]]_vars

\* Between two batches a client either has or will get the latest view, or its
\* queue was full when that was sent (subscribe.go Subscribe, broadcast).
NewestIsQueued ==
    wpc \notin {"broadcast"} =>
        \A c \in subs \ missed : Last(<<view[c]>> \o queue[c]) = made

\* The watcher comes back from every batch, whatever clients do: none reading,
\* and requests in progress (live.go Emit, watcher.go InFlight; issue #29).
EmitReturns == wpc = "emit" ~> wpc = "polling"
=============================================================================

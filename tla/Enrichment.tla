----------------------------- MODULE Enrichment ----------------------------
(***************************************************************************)
(* internal/enrich: turns joined to the proxy's request log.               *)
(*                                                                         *)
(* Two goroutines share one cache: the watcher's, which looks a turn up    *)
(* and asks the database when the cache has nothing, and the prefetcher's, *)
(* which follows the log by id.  Neither holds the lock while it waits for *)
(* the database; the prefetcher holds it while it merges a batch.          *)
(***************************************************************************)
EXTENDS Integers, Sequences, FiniteSets, SequencesExt, FiniteSetsExt

CONSTANTS
    Responses,      \* response ids
    Requests,       \* ids of archived requests
    None,           \* an id that is not there
    Turns,          \* the ids of the turns to enrich
    MaxRows,        \* bound: rows of the log
    CacheEntries,   \* Options.CacheEntries
    PrefetchLimit   \* Options.PrefetchLimit

VARIABLES
    log,         \* request_logs: the rows that can be seen, by id
    cache,       \* byResponse, byArchive and lru
    lastID,      \* the highest id prefetched
    asking,      \* the turn the watcher asks the database about, and the row it got
    attached,    \* the turn enriched last, and the row
    ppc,         \* where the prefetcher is
    fetched,     \* ids of the rows its query returned that are not merged
    done,        \* StoreEnricher.done is closed
    storeClosed

enrichVars == <<log, cache, lastID, asking, attached, ppc, fetched, done, storeClosed>>

ASSUME EnrichAssumption ==
    /\ Turns \subseteq [resp : Responses \cup {None}, request : Requests \cup {None}]
    /\ None \notin Responses \cup Requests
    /\ MaxRows \in Nat /\ CacheEntries \in Nat \ {0} /\ PrefetchLimit \in Nat \ {0}

Idle == [turn |-> None, row |-> 0]

-----------------------------------------------------------------------------
(* The cache.                                                              *)

With(f, key, value) == [k \in DOMAIN f \cup {key} |-> IF k = key THEN value ELSE f[k]]
Drop(f, key) == [k \in DOMAIN f \ {key} |-> f[k]]
ToFront(lru, resp) == <<resp>> \o RemoveFirst(lru, resp)
Touched(resp) == [cache EXCEPT !.lru = ToFront(@, resp)]

EvictedAlone(c) ==
    LET old == Last(c.lru)
    IN  IF Cardinality(DOMAIN c.byResponse) <= CacheEntries THEN c
        ELSE [byResponse |-> Drop(c.byResponse, old),
              byArchive  |-> c.byArchive,
              lru        |-> Front(c.lru)]

\* The entry used longest ago goes, and its alias with it.
Evicted(c) ==
    LET old == Last(c.lru)
    IN  IF Cardinality(DOMAIN c.byResponse) <= CacheEntries THEN c
        ELSE [byResponse |-> Drop(c.byResponse, old),
              byArchive  |-> Drop(c.byArchive, c.byResponse[old].alias),
              lru        |-> Front(c.lru)]

\* A row read for one turn leaves the alias of its entry alone; one the
\* prefetcher brings replaces it.
Stored(c, id, withAlias) ==
    LET resp  == log[id].resp
        old   == IF resp \in DOMAIN c.byResponse THEN c.byResponse[resp].alias ELSE None
        alias == IF withAlias THEN log[id].alias ELSE old
        rest  == IF alias # old THEN Drop(c.byArchive, old) ELSE c.byArchive
    IN  IF resp = None THEN c
        ELSE Evicted([byResponse |-> With(c.byResponse, resp, [row |-> id, alias |-> alias]),
                      byArchive  |-> IF alias = None THEN rest ELSE With(rest, alias, resp),
                      lru        |-> ToFront(c.lru, resp)])

\* The response whose entry answers for a turn: by its own id first.
Cached(t) ==
    IF t.resp \in DOMAIN cache.byResponse THEN t.resp
    ELSE IF t.request \in DOMAIN cache.byArchive THEN cache.byArchive[t.request]
    ELSE None

-----------------------------------------------------------------------------
(* The database.                                                           *)

\* lookupSQL: the newest row of the response, 0 if there is none.
Newest(resp) == Max({id \in DOMAIN log : log[id].resp = resp} \cup {0})

\* prefetchSQL: the ids that follow one, as many as the limit allows.
After(id) ==
    LET newer == {n \in DOMAIN log : n > id}
    IN  {n \in newer : Cardinality({m \in newer : m < n}) < PrefetchLimit}

\* A row becomes visible when its transaction commits, in any order of ids.
Log(id, row) ==
    /\ id \notin DOMAIN log
    /\ log' = With(log, id, row)
    /\ UNCHANGED <<cache, lastID, asking, attached, ppc, fetched, done, storeClosed>>

-----------------------------------------------------------------------------
(* The watcher's goroutine: Enrich.                                        *)

Attach(t, row) == attached' = [turn |-> t, row |-> row]

\* Whether StoreEnricher.mu is free.
Unlocked == ppc # "merging"

Hit(t) ==
    /\ asking = Idle /\ Unlocked /\ Cached(t) # None
    /\ cache' = Touched(Cached(t))
    /\ Attach(t, cache.byResponse[Cached(t)].row)
    /\ UNCHANGED <<log, lastID, asking, ppc, fetched, done, storeClosed>>

\* Without a response id there is nothing to ask for.
Miss(t) ==
    /\ asking = Idle /\ Unlocked /\ Cached(t) = None /\ t.resp # None
    /\ asking' = [turn |-> t, row |-> 0]
    /\ UNCHANGED <<log, cache, lastID, attached, ppc, fetched, done, storeClosed>>

Lookup ==
    /\ asking # Idle /\ asking.row = 0
    /\ \/ asking' = Idle              \* an error, or LookupTimeout
       \/ LET row == Newest(asking.turn.resp)
          IN  asking' = IF row = 0 THEN Idle ELSE [asking EXCEPT !.row = row]
    /\ UNCHANGED <<log, cache, lastID, attached, ppc, fetched, done, storeClosed>>

CacheStore ==
    /\ asking.row # 0 /\ Unlocked
    /\ cache' = Stored(cache, asking.row, FALSE)
    /\ Attach(asking.turn, asking.row)
    /\ asking' = Idle
    /\ UNCHANGED <<log, lastID, ppc, fetched, done, storeClosed>>

-----------------------------------------------------------------------------
(* The prefetcher: prefetchLoop and PrefetchOnce, and Close.               *)

\* A tick may win over done.
AskPrefetch ==
    /\ ppc = "idle"
    /\ ppc' = "asked"
    /\ UNCHANGED <<log, cache, lastID, asking, attached, fetched, done, storeClosed>>

\* Without rows there is nothing to do under the lock.
QueryPrefetch ==
    /\ ppc = "asked"
    /\ fetched' \in {{}, After(lastID)}
    /\ ppc' = IF fetched' = {} THEN "idle" ELSE "fetched"
    /\ UNCHANGED <<log, cache, lastID, asking, attached, done, storeClosed>>

\* PrefetchOnce takes the lock for all the rows and merges them one by one.
MergePrefetch ==
    /\ ppc \in {"fetched", "merging"}
    /\ LET id == Min(fetched)
       IN  /\ lastID' = Max({lastID, id})
           /\ cache' = Stored(cache, id, TRUE)
           /\ fetched' = fetched \ {id}
    /\ ppc' = IF fetched' = {} THEN "idle" ELSE "merging"
    /\ UNCHANGED <<log, asking, attached, done, storeClosed>>

PrefetchEnds ==
    /\ ppc = "idle" /\ done
    /\ ppc' = "ended"
    /\ UNCHANGED <<log, cache, lastID, asking, attached, fetched, done, storeClosed>>

\* Close: done is closed, and the store once the prefetcher has ended.
CloseDone ==
    /\ ~ done /\ done' = TRUE
    /\ UNCHANGED <<log, cache, lastID, asking, attached, ppc, fetched, storeClosed>>

CloseStoreAtOnce ==
    /\ done /\ ~ storeClosed /\ storeClosed' = TRUE
    /\ UNCHANGED <<log, cache, lastID, asking, attached, ppc, fetched, done>>

CloseStore ==
    /\ done /\ ppc = "ended" /\ ~ storeClosed
    /\ storeClosed' = TRUE
    /\ UNCHANGED <<log, cache, lastID, asking, attached, ppc, fetched, done>>

-----------------------------------------------------------------------------
EnrichInit(enabled) ==
    /\ log = <<>>
    /\ cache = [byResponse |-> <<>>, byArchive |-> <<>>, lru |-> <<>>]
    /\ lastID = 0
    /\ asking = Idle /\ attached = Idle
    /\ ppc = IF enabled THEN "idle" ELSE "ended"
    /\ fetched = {}
    /\ done = FALSE /\ storeClosed = FALSE

Prefetcher == AskPrefetch \/ QueryPrefetch \/ MergePrefetch \/ PrefetchEnds

-----------------------------------------------------------------------------
(* Properties.                                                             *)

\* The two indexes and the list are of the same entries, no more than fit, and
\* an alias leads to the entry that carries it (enrich.go cacheStoreLocked):
\* through evictions, rows that change their alias, and two responses of one
\* request.
IndexesAgree ==
    /\ ToSet(cache.lru) = DOMAIN cache.byResponse
    /\ Len(cache.lru) = Cardinality(DOMAIN cache.byResponse)
    /\ Len(cache.lru) <= CacheEntries
    /\ \A resp \in DOMAIN cache.byResponse : log[cache.byResponse[resp].row].resp = resp
    /\ \A alias \in DOMAIN cache.byArchive :
          LET resp == cache.byArchive[alias]
          IN  resp \in DOMAIN cache.byResponse /\ cache.byResponse[resp].alias = alias

\* A turn gets a row of its own response, or of one that was logged under its
\* request (enrich.go cacheLookup).
RightRow ==
    attached # Idle =>
        LET resp == log[attached.row].resp
        IN  \/ resp = attached.turn.resp
            \/ \E id \in DOMAIN log : log[id] = [resp |-> resp, alias |-> attached.turn.request]
=============================================================================

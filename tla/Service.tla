------------------------------ MODULE Service ------------------------------
(***************************************************************************)
(* cmd/codexlb2otel: the goroutines of the service, from the opening of    *)
(* the archive to the end of run, and what the background ones publish.    *)
(*                                                                         *)
(* main runs the watcher and, once a signal has cancelled the context,     *)
(* waits for the drift probe (30 seconds at most), drains and closes the   *)
(* sinks, waits for the two servers and closes the databases.  The probe   *)
(* scans the archive, a goroutine per file; the account poller reads four  *)
(* tables into a snapshot; the enricher's prefetcher follows request_logs. *)
(***************************************************************************)
EXTENDS Enrichment

CONSTANTS
    Configs,         \* bound: the sets of optional parts that are enabled
    Files,           \* files of the archive
    MaxConcurrency,  \* ScanOptions.MaxConcurrency
    Accounts,        \* accounts the proxy may have
    MaxChanges       \* bound: accounts added or deleted

Servers == {"health", "live"}
ASSUME PartsAreKnown == Configs \subseteq SUBSET (Servers \cup {"postgres", "probe", "poller"})

VARIABLES
    config,      \* the parts enabled
    main,        \* where run is
    cancelled,   \* the context of the service
    server,      \* what each server does
    ready,       \* health.Server.ready
    sinks,
    \* drift.Runner
    probe,       \* where Run is
    stop,        \* the context of the probe
    file,        \* the goroutine of each file
    findings,    \* Runner.stats: the files behind the findings, the last error
    \* accountpoll.Poller
    poll,        \* where Run is, a number while Poll reads
    db,          \* the accounts of the database
    changes,
    reading,     \* what Poll has read of each table
    snapshot,    \* Poller.snap
    poolClosed

mainVars   == <<config, main, cancelled, server, ready, sinks>>
probeVars  == <<probe, stop, file, findings>>
pollVars   == <<poll, db, changes, reading, snapshot, poolClosed>>
vars       == <<enrichVars, mainVars, probeVars, pollVars>>

\* A step of run from one point to another.
Goes(from, to) == main = from /\ main' = to

-----------------------------------------------------------------------------
(* run: start.                                                             *)

\* tail.New; enricher, poller and probe have been started.
OpenArchive ==
    /\ Goes("opening", "registering") \/ Goes("opening", "returning")
    /\ UNCHANGED <<config, cancelled, server, ready, sinks, enrichVars, probeVars, pollVars>>

\* The self-observability callback, then the health server.
StartHealth ==
    /\ \/ Goes("registering", "token") /\ server' = [server EXCEPT !["health"] = IF "health" \in config THEN "up" ELSE @]
       \/ Goes("registering", "returning") /\ UNCHANGED server
    /\ UNCHANGED <<config, cancelled, ready, sinks, enrichVars, probeVars, pollVars>>

\* A token that cannot be resolved ends run with the health server up.
StartLive ==
    /\ \/ /\ Goes("token", "watching")
          /\ server' = [server EXCEPT !["live"] = IF "live" \in config THEN "up" ELSE @]
          /\ ready' = ("health" \in config)
       \/ "live" \in config /\ Goes("token", "returning") /\ UNCHANGED <<server, ready>>
    /\ UNCHANGED <<config, cancelled, sinks, enrichVars, probeVars, pollVars>>

-----------------------------------------------------------------------------
(* run: the end.                                                           *)

Signal ==
    /\ ~ cancelled /\ main # "gone" /\ cancelled' = TRUE
    /\ stop' = TRUE
    /\ UNCHANGED <<config, main, server, ready, sinks, enrichVars, probe, file, findings, pollVars>>

\* The watcher has made its last pass and flushed the reducer.
Stopped ==
    /\ cancelled /\ asking = Idle /\ Goes("watching", "waiting")
    /\ UNCHANGED <<config, cancelled, server, ready, sinks, enrichVars, probeVars, pollVars>>

WaitForever ==
    /\ probe \in {"off", "ended"} /\ Goes("waiting", "unready")
    /\ UNCHANGED <<config, cancelled, server, ready, sinks, enrichVars, probeVars, pollVars>>

\* probe.Wait returns when the probe has ended, or after 30 seconds.
WaitProbe ==
    /\ Goes("waiting", "unready")
    /\ UNCHANGED <<config, cancelled, server, ready, sinks, enrichVars, probeVars, pollVars>>

Unready ==
    /\ Goes("unready", "draining") /\ ready' = FALSE
    /\ UNCHANGED <<config, cancelled, server, sinks, enrichVars, probeVars, pollVars>>

Drain ==
    /\ Goes("draining", "drained") /\ sinks' = "flushed"
    /\ UNCHANGED <<config, cancelled, server, ready, enrichVars, probeVars, pollVars>>

CloseSinks ==
    /\ Goes("drained", "joining") /\ sinks' = "closed"
    /\ UNCHANGED <<config, cancelled, server, ready, enrichVars, probeVars, pollVars>>

JoinServers ==
    /\ \A s \in Servers : server[s] # "up"
    /\ Goes("joining", "returning")
    /\ UNCHANGED <<config, cancelled, server, ready, sinks, enrichVars, probeVars, pollVars>>

\* The deferred calls, the last first: stopProbe, accountPoller.Close, enricher.Close.
CloseAll ==
    /\ Goes("returning", "closing")
    /\ stop' = TRUE /\ poolClosed' = TRUE
    /\ CloseDone
    /\ UNCHANGED <<config, cancelled, server, ready, sinks, probe, file, findings>>
    /\ UNCHANGED <<poll, db, changes, reading, snapshot>>

CloseEnricher ==
    /\ Goes("closing", "gone") /\ CloseStore
    /\ UNCHANGED <<config, cancelled, server, ready, sinks, probeVars, pollVars>>

\* Run of a server: it cannot listen or stops serving, or shuts down in the end.
ServerFails(s) ==
    /\ server[s] = "up" /\ server' = [server EXCEPT ![s] = "failed"]
    /\ UNCHANGED <<config, main, cancelled, ready, sinks, enrichVars, probeVars, pollVars>>

ServerStops(s) ==
    /\ cancelled /\ server[s] = "up" /\ server' = [server EXCEPT ![s] = "down"]
    /\ UNCHANGED <<config, main, cancelled, ready, sinks, enrichVars, probeVars, pollVars>>

-----------------------------------------------------------------------------
(* The watcher and the prefetcher.                                         *)

Aside == UNCHANGED <<mainVars, probeVars, pollVars>>

\* enrichingEmit, for one turn of a batch.
Enrich(t) == main = "watching" /\ "postgres" \in config /\ (Hit(t) \/ Miss(t)) /\ Aside

-----------------------------------------------------------------------------
(* The drift probe.                                                        *)

ProbeAside == UNCHANGED <<enrichVars, mainVars, stop, pollVars>>
Settled == \A f \in Files : file[f] \notin {"new", "scanning"}

\* ScanArchive lists the files; it may find none, or the list may fail.
ScanBegins ==
    /\ probe = "resting"
    /\ \/ probe' = "scanning" /\ file' = [f \in Files |-> "new"] /\ UNCHANGED findings
       \/ probe' = "resting" /\ findings' = [findings EXCEPT !.error = TRUE] /\ UNCHANGED file
    /\ ProbeAside

\* One of MaxConcurrency slots, even if the context has ended meanwhile.
ScanFile(f) ==
    /\ probe = "scanning" /\ file[f] = "new"
    /\ Cardinality({g \in Files : file[g] = "scanning"}) < MaxConcurrency
    /\ file' = [file EXCEPT ![f] = "scanning"]
    /\ UNCHANGED <<probe, findings>> /\ ProbeAside

\* The loop over the files breaks, or the goroutine sees the context end.
SkipFile(f) ==
    /\ probe = "scanning" /\ stop /\ file[f] = "new"
    /\ file' = [file EXCEPT ![f] = "skipped"]
    /\ UNCHANGED <<probe, findings>> /\ ProbeAside

FileScanned(f) ==
    /\ file[f] = "scanning"
    /\ \E result \in {"merged", "failed"} : file' = [file EXCEPT ![f] = result]
    /\ UNCHANGED <<probe, findings>> /\ ProbeAside

Merged == {f \in Files : file[f] = "merged"}
Failed == \E f \in Files : file[f] = "failed"

ScanFinishedAnyway ==
    /\ probe = "scanning" /\ Settled
    /\ findings' = IF Failed THEN [findings EXCEPT !.error = TRUE]
                   ELSE [of |-> Merged, error |-> FALSE]
    /\ probe' = IF stop THEN "ended" ELSE "resting"
    /\ UNCHANGED file /\ ProbeAside

\* RunOnce: a scan that was cancelled or failed on a file leaves the findings of
\* the last one in place.  Run returns if the context has ended as well.
ScanFinished ==
    /\ probe = "scanning" /\ Settled
    /\ findings' = IF stop \/ Failed THEN [findings EXCEPT !.error = TRUE]
                   ELSE [of |-> Merged, error |-> FALSE]
    /\ probe' = IF stop THEN "ended" ELSE "resting"
    /\ UNCHANGED file /\ ProbeAside

ProbeEnds ==
    /\ probe = "resting" /\ stop
    /\ probe' = "ended"
    /\ UNCHANGED <<file, findings>> /\ ProbeAside

-----------------------------------------------------------------------------
(* The account poller.                                                     *)

PollAside == UNCHANGED <<enrichVars, mainVars, probeVars, poolClosed>>
Tables == <<"accounts", "quotas", "models", "keys">>
Unread == [t \in ToSet(Tables) |-> {}]

AccountsChange ==
    /\ "poller" \in config /\ changes < MaxChanges
    /\ \E a \in Accounts : db' = IF a \in db THEN db \ {a} ELSE db \cup {a}
    /\ changes' = changes + 1
    /\ UNCHANGED <<poll, reading, snapshot>> /\ PollAside

\* A row of an account the first query did not return is skipped.
RowsOf(table) == IF table = "accounts" THEN db ELSE db \cap reading.accounts

PollBegins ==
    /\ poll = 0
    /\ poll' = 1 /\ reading' = Unread
    /\ UNCHANGED <<db, changes, snapshot>> /\ PollAside

\* The fifth source comes with the second query.  A query that fails, also for
\* the context or the closed pool, ends the poll.
PollReads ==
    /\ poll \in 1..4
    /\ \/ poll' = 0 /\ UNCHANGED reading
       \/ /\ ~ poolClosed
          /\ reading' = [reading EXCEPT ![Tables[poll]] = RowsOf(Tables[poll])]
          /\ poll' = poll + 1
    /\ UNCHANGED <<db, changes, snapshot>> /\ PollAside

Publish ==
    /\ poll = 5
    /\ snapshot' = reading /\ poll' = 0
    /\ UNCHANGED <<db, changes, reading>> /\ PollAside

PollEnds ==
    /\ poll = 0 /\ cancelled
    /\ poll' = -1
    /\ UNCHANGED <<db, changes, reading, snapshot>> /\ PollAside

-----------------------------------------------------------------------------
Init ==
    /\ config \in Configs
    /\ main = "opening" /\ cancelled = FALSE /\ ready = FALSE /\ sinks = "open"
    /\ server = [s \in Servers |-> "off"]
    /\ EnrichInit("postgres" \in config)
    /\ probe = (IF "probe" \in config THEN "resting" ELSE "off")
    /\ stop = FALSE /\ file = [f \in Files |-> "skipped"]
    /\ findings = [of |-> {}, error |-> FALSE]
    /\ poll = (IF "poller" \in config THEN 0 ELSE -1)
    /\ db \in (IF "poller" \in config THEN SUBSET Accounts ELSE {Accounts})
    /\ changes = 0 /\ reading = Unread /\ snapshot = Unread
    /\ poolClosed = FALSE

Main ==
    \/ OpenArchive \/ StartHealth \/ StartLive
    \/ Stopped \/ WaitProbe \/ Unready \/ Drain \/ CloseSinks \/ JoinServers
    \/ CloseAll \/ CloseEnricher

Probe ==
    \/ ScanBegins \/ ScanFinished \/ ProbeEnds
    \/ \E f \in Files : ScanFile(f) \/ SkipFile(f) \/ FileScanned(f)

Poller == PollBegins \/ PollReads \/ Publish \/ PollEnds

Database ==
    \/ AccountsChange
    \/ /\ "postgres" \in config /\ Aside
       /\ \E id \in 1..MaxRows : \E row \in [resp : Responses, alias : Requests \cup {None}] : Log(id, row)

\* Nothing of the process is left once run has returned.
Next ==
    \/ Signal
    \/ main # "gone" /\ (Main \/ Probe \/ Poller \/ Database)
    \/ main # "gone" /\ \E s \in Servers : ServerFails(s) \/ ServerStops(s)
    \/ main # "gone" /\ \E t \in Turns : Enrich(t)
    \/ main # "gone" /\ (Lookup \/ CacheStore \/ Prefetcher) /\ Aside

\* Every step of run is taken in the end, and a pass of the watcher is of
\* finitely many turns.  Queries have timeouts.  The select that ends the
\* prefetcher takes done in the end, though a tick may win; servers shut down
\* within their grace.  Nothing is assumed of the scan of a file.
Fairness ==
    /\ WF_main(Main) /\ SF_main(Stopped)
    /\ WF_asking(main # "gone" /\ (Lookup \/ CacheStore) /\ Aside)
    /\ WF_<<ppc, fetched>>(main # "gone" /\ (QueryPrefetch \/ MergePrefetch) /\ Aside)
    /\ SF_ppc(main # "gone" /\ PrefetchEnds /\ Aside)
    /\ WF_server(main # "gone" /\ \E s \in Servers : ServerStops(s))

Spec == Init /\ [][Next]_vars /\ Fairness

-----------------------------------------------------------------------------
(* Properties.                                                             *)

\* The cache of the enricher stays sound while both goroutines use it.
CacheIsSound == IndexesAgree /\ RightRow

\* A store is closed after its last user, on every way out of run: no query of
\* the prefetcher or of a turn outlives it, and a service that watched leaves
\* with its sinks flushed, closed, and its servers down (main.go run).
EndsInOrder ==
    /\ storeClosed => ppc = "ended" /\ asking = Idle
    /\ sinks # "open" => main \notin {"opening", "watching"} /\ asking = Idle
    /\ main = "gone" /\ sinks = "closed" => \A s \in Servers : server[s] # "up"

\* What is reported is of a whole archive and of one list of accounts: a scan
\* cut short by the end of the service is no finding (drift.go ScanArchive), and
\* an account deleted between two queries leaves no rows (poller.go).
WholeReports ==
    /\ findings.of \in {{}, Files}
    /\ \A table \in ToSet(Tables) : snapshot[table] \subseteq snapshot.accounts

\* Once asked to stop, the service ends, whatever the probe is in the middle of.
StopReturns == cancelled ~> main = "gone"

\* "A bind failure returns immediately, so a live server that never started is a
\* startup failure rather than a silently missing page" (live/server.go Run).
FailedServerEndsRun == \A s \in Servers : server[s] = "failed" ~> main = "gone"
=============================================================================

---------------------------- MODULE MCBatchSinks ---------------------------
(* Small instances of BatchSinks for TLC. *)
EXTENDS BatchSinks

Halves == {"agento11y"}
Two    == <<"agento11y", "otlptrace">>
Three  == <<"loki", "agento11y", "otlptrace">>
Spans  == {"otlptrace"}

OnlySpans == <<"otlptrace">>

\* "Flush blocks until every span queued by Emit has been exported, and reports
\* the first failure": a turn the watcher may checkpoint past has been exported.
FlushedIsExported == \A s \in Exports, t \in Turns : t < next => landed[s][t] > 0
=============================================================================

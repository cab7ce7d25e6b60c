---------------------------- MODULE MCTurnDeltas ---------------------------
(* Small instances of TurnDeltas for TLC. *)
EXTENDS TurnDeltas

\* No sum of some of them is another's.
Doubling == [r \in Resps |-> 2 ^ (r - 1)]

\* Once no mishap is left to come and none is under way nobody reads the
\* checkpoint again, and where a chunk began does not matter.  What is to be
\* read again matters until it has been.
Relevant ==
    <<archiveVars, pc, pos, batch, watermark, open, stateVars, historyVars,
      IF again > pos THEN again ELSE 0,
      IF mishaps < MaxMishaps \/ pc \in {"down", "flush"} THEN <<acked, disk>>
      ELSE acked = pos >>

\* bounds: one memory response, or one prewarm, per behaviour, and not the last.
\* "memory" and "turn" can be swapped, so of three responses one of them is
\* enough.  Time only matters as a distance: the first response is of time 1.
Bounds ==
    /\ Cardinality({r \in Resps : kind[r] \in {"memory", "prewarm"}}) <= 1
    /\ kind[MaxResps] \in {"new", "turn"}
    /\ start[1] \in {0, 1}

\* bound: a record is written when those before it have been read.  No step of
\* the watcher depends on records it has not read, but for the stamps of other
\* threads, which are not after theirs: one that waits, through a refusal or a
\* crash as well, could as well be written later.
WrittenWhenRead == log' # log => pos = Len(log)

\* "Starting a turn with no prior baseline means this response absorbs all the
\* work the turn had already done [...] so they are flagged: consumers can
\* exclude them rather than silently believing an over-count": also of a
\* response in a batch that was refused and is offered again.
OvercountsAreFlagged == \A t \in batch : t.done /\ Whole(t.resp) => Measured(t)
=============================================================================

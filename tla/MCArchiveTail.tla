--------------------------- MODULE MCArchiveTail ---------------------------
(***************************************************************************)
(* Small instances of ArchiveTail for TLC, and what the comments of        *)
(* internal/tail and internal/archive say of it that the code does not     *)
(* do: each is the one property of a run that violates it.                 *)
(***************************************************************************)
EXTENDS ArchiveTail, TLC

Symmetry == Permutations(Responses)

Behind(c) == UNION {PassedBy(c[f], f, k) : k \in {"input", "done"},
                                           f \in {e \in Days : c[e].fp.gen # 0}}

\* What a refused batch held is either still ahead of the offsets, to be read
\* again, or still with the reducer, or was accepted before.
Retried == \A t \in batch : t.got \cap Behind(cp') \subseteq shipped' \cup Held'

\* "Returning an error aborts the pass WITHOUT advancing the checkpoint, so the
\* same frames are retried next time": of the turns a chunk completed, whose
\* records from earlier chunks are behind the offset already, and of the turns
\* Poll evicts, of which all records are.
RefusedIsRetried ==
    [][pc' = "idle" /\ pc \in {"emit", "emitStale"} => Retried]_vars

\* "Later appends still land": a completion appended behind a member that is
\* corrupt is delivered in the end.
CorruptAt(f, i) == body[f][gen[f]][i].kind = "corrupt"
DoneAt(n, f, i) == body[f][gen[f]][i].id = n /\ body[f][gen[f]][i].kind = "done"
BehindCorrupt(n) ==
    \E f \in {e \in Days : gen[e] # 0} : \E i, j \in 1..Len(body[f][gen[f]]) :
        i < j /\ CorruptAt(f, i) /\ DoneAt(n, f, j)
LaterAppendsLand == \A n \in FrameIds : BehindCorrupt(n) ~> n \in shipped
=============================================================================

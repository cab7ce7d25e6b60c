--------------------------- MODULE MCConversation --------------------------
(* Small instances of Conversation for TLC. *)
EXTENDS Conversation

\* Once the archive is written only what was sent and called matters of it.
\* Once no mishap is left to come nobody reads the checkpoint again, and where
\* a chunk began no longer matters.  What is to be read again matters until it
\* has been.  Of recent only what seen has of it does.
Relevant ==
    <<log, sent, thread, called, IF pc = "written" THEN <<history, current, pending>> ELSE <<>>,
      pc, pos, open, seen, calls, refused, rewound, answered, dropped, mishaps,
      IF again > pos THEN again ELSE 0,
      IF mishaps < MaxMishaps \/ pc \in {"down", "flush"} THEN <<acked, batch, shipped, disk>>
      ELSE <<acked = pos, shipped \cup Entries(batch)>> >>

\* bound: the threads differ in nothing but who comes first.  (The index gives up
\* the lesser of two threads that are as old, but no two are.)
FirstThread == thread[1] \in {0, 1}

Behind(r) == \E i \in 1..acked : log[i].what = "done" /\ log[i].resp = r

\* "User and assistant messages are the actual conversation and are scoped per
\* thread so each thread reconstructs in full": of a response that was accepted,
\* everything it was sent with has been captured.
ThreadReconstructs ==
    \A r \in Resps : Behind(r) =>
        \A item \in Range(sent[r]) :
            \E e \in Captured : e.of = item.of /\ e.key[2] = item.kind

\* "each item is emitted only on the first turn that carries it", and a batch
\* that is refused is retried from the same frames.
RetriedWithContent == Range(seen) \subseteq Keys(Captured)
=============================================================================

-------------------------- MODULE ArchiveDelivery --------------------------
(***************************************************************************)
(* What the watcher promises of the responses that complete in the         *)
(* archive: each is delivered at least once, the archive may be read again *)
(* from an earlier point at any time, and a completion is deleted from the *)
(* archive only once the reader is past it, which it only gets by          *)
(* delivering it.                                                          *)
(*                                                                         *)
(* ArchiveTail implements this specification.                              *)
(***************************************************************************)
EXTENDS Naturals

CONSTANTS
    Ids,    \* completions
    Moves   \* whether somebody else may take files out of the archive

VARIABLES
    written,    \* completions the archive has ever held
    readable,   \* those a reader starting over would find in it
    passed,     \* those behind the reader's offsets
    delivered,  \* those the sinks accepted
    dropped     \* those lost behind a record that is not JSON

vars == <<written, readable, passed, delivered, dropped>>

Init ==
    /\ written = {} /\ readable = {} /\ passed = {}
    /\ delivered = {} /\ dropped = {}

Append ==
    /\ \E n \in Ids \ written :
           written' = written \cup {n} /\ readable' = readable \cup {n}
    /\ UNCHANGED <<passed, delivered, dropped>>

\* The reader delivers some completions, drops some, and then stands anywhere
\* it is allowed to stand: in front of everything neither delivered nor
\* dropped.  A restart takes it back.
Read ==
    /\ \E S, D \in SUBSET written :
           delivered' = delivered \cup S /\ dropped' = dropped \cup D
    /\ passed' \in SUBSET (delivered' \cup dropped')
    /\ UNCHANGED <<written, readable>>

\* Only what the reader is past is deleted.
Delete ==
    /\ \E S \in SUBSET passed : readable' = readable \ S
    /\ UNCHANGED <<written, passed, delivered, dropped>>

\* Files moved away by hand, and put back.
Move ==
    /\ Moves
    /\ readable' \in SUBSET written
    /\ UNCHANGED <<written, passed, delivered, dropped>>

Next == Append \/ Read \/ Delete \/ Move

Spec == Init /\ [][Next]_vars

-----------------------------------------------------------------------------
TypeOK ==
    /\ written \in SUBSET Ids /\ readable \in SUBSET written
    /\ passed \in SUBSET written
    /\ delivered \in SUBSET written /\ dropped \in SUBSET written

\* The reader never stands behind a completion nobody received.
PassedIsDelivered == passed \subseteq delivered \cup dropped

\* At least once: what has been neither delivered nor dropped can still be
\* read, so that the next pass, or the next process, delivers it.
UndeliveredIsReadable ==
    ~Moves => written \subseteq readable \cup delivered \cup dropped
=============================================================================

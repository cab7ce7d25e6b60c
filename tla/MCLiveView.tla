----------------------------- MODULE MCLiveView ----------------------------
(* A small instance of LiveView, a chain of three threads, and what the    *)
(* comments of internal/live say of it that the code does not do.          *)
EXTENDS LiveView

Chain == [t \in Threads |-> CASE t = "root" -> ""
                              [] t = "child" -> "root"
                              [] t = "leaf" -> "child"]

\* The root runs on a connection that its grandchild opened; all may run on one
\* that the child or the grandchild opened.
Borrowed == [t \in Threads |-> IF t = "root" THEN {"child"} ELSE {}]
Shared   == [t \in Threads |-> {"root", "child"}]

\* "Promote the orphan to a root rather than dropping it ... hiding it is the one
\* failure this view cannot afford": every thread of the index hangs below a root
\* of the view.
EveryThreadIsShown ==
    \A S \in SUBSET (threads \ Roots) :
        S # {} => \E t \in S : Above(t) \in threads \ S
=============================================================================

----------------------------- MODULE MCService -----------------------------
(* A small instance of Service for TLC. *)
EXTENDS Service

CONSTANTS r1, r2, a1

Joined == {[resp |-> r1, request |-> None], [resp |-> r2, request |-> a1], [resp |-> None, request |-> a1]}
Parts == {{"postgres"}, {"probe", "health", "live"}, {"poller", "health"}}
=============================================================================

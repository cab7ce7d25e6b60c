------------------------------ MODULE MCMetrics -----------------------------
(* An instance of Metrics: turns of three responses, and one turn for each *)
(* field it may have.                                                      *)
EXTENDS Metrics

Fields ==
    {Positive[i][1] : i \in DOMAIN Positive} \cup {Present[i] : i \in DOMAIN Present}
    \cup UNION {{Preferred[i][1], Preferred[i][2]} : i \in DOMAIN Preferred}
    \cup TokenFields \cup WaitFields
    \cup {"coverage", "closeCode", "frameErrors", "stickyKind", "stickyKeySource", "turnStart",
          "serverCreatedAt", "serverCompletedAt", "serviceMinusIapiTBT", "windowMin",
          "window2Min", "modelWindowMin", "reachedModel", "hasCredits", "creditsUnlimited",
          "creditsBalance", "quotaFailures", "quotaUsed", "quotaReset"}

Blank == [f \in Fields |-> 0]
Bare(id, model, tools, cost) ==
    [id |-> id, model |-> model, accountID |-> "a", requestKind |-> "turn", status |-> "ok",
     tools |-> tools, cost |-> cost, m |-> Blank]

Full == [Bare("", "m1", <<"shell">>, "none") EXCEPT !.m = [f \in Fields |-> 1]]

SomeOffers ==
    {Bare(id, "m1", <<>>, cost) : id \in {"r1", "r2", "r3"}, cost \in {"none", "valid"}}
    \cup {Bare("r1", "m1", <<>>, "invalid"),
          Bare("", "m2", <<"shell", "patch", "shell", "web">>, "valid"), Bare("r1", "m2", <<"patch", "web">>, "none")}
    \cup {[Full EXCEPT !.m["turnStart"] = 0],
          [Full EXCEPT !.m["coverage"] = 0, !.m["quotaReset"] = 0]}
    \cup {[Full EXCEPT !.status = s, !.requestKind = "prewarm", !.m["serverCreatedAt"] = 2]
             : s \in {"error", "transport"}}

\* bound: a turn with all fields is the last; what the sink remembers of it, it
\* remembers of the others.
FullOnesLast == offered = 0 \/ last.turn.m = Blank

SmallCap == [k \in {"gen_ai.request.model", "account_id", "gen_ai.tool.name"} |-> 1]
=============================================================================

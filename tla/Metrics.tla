------------------------------- MODULE Metrics ------------------------------
(***************************************************************************)
(* internal/sink/otlpmetric and the attribute guard of internal/attr: what *)
(* one turn adds to which instrument, under which attributes, and the      *)
(* memory the sink keeps between turns.                                    *)
(*                                                                         *)
(* A turn offered again (a refused batch, a checkpoint that was not        *)
(* written) is added to every counter again, except to the cost and to the *)
(* proxy waits, which a bounded set of response ids guards.                *)
(***************************************************************************)
EXTENDS Attributes

CONSTANTS
    Offers,      \* the turns that may be emitted, again and in any order
    Accounts,    \* the accounts of the poller's snapshot
    Promoted,    \* Loki.Labels
    CostLimit,   \* costResponseLimit
    MaxOffers    \* bound: turns emitted

\* The keys whose values are followed through the guard.
Guarded == {"gen_ai.request.model", "account_id", "gen_ai.tool.name"}

\* A name that is not there.
Absent == ""

\* A turn's tools are the names of its calls that have one.
ASSUME MetricsAssumption ==
    /\ CostLimit \in Nat /\ MaxOffers \in Nat /\ Guarded \subseteq DOMAIN Cap
    /\ \A t \in Offers : t.id \in STRING /\ t.tools \in Seq(STRING) /\ Absent \notin Range(t.tools)
    /\ Absent \notin Accounts
    /\ ValidLabels(Promoted)

VARIABLES
    seen,             \* Guard.seen: the values of each key admitted so far
    costOrder,        \* costOrder and costResponses: the responses charged
    proxyWaitOrder,   \* proxyWaitOrder and proxyWaitResponses
    gauges,           \* the callback of the account gauges
    \* What was recorded.
    shown,            \* every value of every key that was exported
    charges,          \* the response ids charged, in order
    waits,            \* those whose waits were observed
    last,             \* the turn emitted last, and which guards it got past
    offered           \* turns emitted

metricVars == <<seen, costOrder, proxyWaitOrder, gauges, shown, charges, waits, last, offered>>

-----------------------------------------------------------------------------
(* The attributes of each instrument.                                      *)

Named   == {"gen_ai.provider", "gen_ai.operation", "gen_ai.request.model"}
Cohort  == {"family", "connection_kind"}
Models  == Named \cup {"gen_ai.response.model"}
Tiered  == Cohort \cup {"service_tier_requested"}
Shape   == Models \cup Cohort \cup {"account_id", "request_kind"}
Account == {"account_id"}
Failed  == {"status", "error_type", "error_category"}

Response == Shape \cup Failed \cup
    {"plan_type", "service_tier", "service_tier_requested", "api_key_name", "subagent_kind",
     "originator", "agent_name", "agent_version", "error_code", "critical_path_coverage",
     "close_code", "baseline_reset", "frame_type"}
Spent == Shape \cup {"reasoning_effort", "thread_source", "api_key_name"}

CountKeys == [
    responses        |-> Response,
    turns            |-> Response \cup {"client_group"},
    tokens           |-> Spent \cup {"service_tier_requested"},
    tokenUsage       |-> Spent \cup {"agent_name"},
    costUSD          |-> Spent \cup {"client_group"},
    proxyWait        |-> Cohort \cup {"request_kind", "gen_ai.request.model", "thread_source"},
    proxyWaitCoverage |-> Cohort,
    imageGenTokens   |-> (Shape \ {"gen_ai.response.model"}) \cup {"api_key_name"},
    engineUncached   |-> Shape \cup {"api_key_name", "baseline_reset"}]

LatencyKeys == [
    operationDuration |-> Models \cup Failed \cup Tiered \cup {"agent_name"},
    turnDuration     |-> Named \cup Tiered,
    ttft             |-> Named \cup Tiered \cup {"request_kind", "agent_name"},
    criticalPath     |-> Cohort \cup {"critical_path_coverage"},
    harnessUnblocked |-> Tiered \cup {"critical_path_coverage"},
    timing           |-> Cohort,
    exclClientTools  |-> Tiered,
    tbt              |-> Cohort]

EventKeys == [
    webSearch        |-> Named \cup {"account_id", "request_kind"},
    errors           |-> Named \cup {"account_id", "error_type", "error_code", "status",
                                     "service_tier_requested"},
    transportEvents  |-> Cohort \cup {"account_id", "close_code", "frame_type"},
    safetyBuffering  |-> {"gen_ai.request.model", "gen_ai.response.model", "account_id"},
    baselineResets   |-> Cohort \cup {"request_kind", "account_id"},
    engineCalls      |-> (Shape \ Cohort) \cup {"baseline_reset"},
    toolCalls        |-> Named \cup {"account_id", "request_kind"},
    toolCallsPerOperation |-> {"gen_ai.provider", "gen_ai.request.model", "agent_name",
                               "account_id", "request_kind"}]

AccountKeys == [
    rateLimit        |-> Account \cup {"plan_type"},
    account          |-> Account,
    quotaFailures    |-> Account \cup {"plan_type", "quota_active_limit", "error_type"},
    routingHint      |-> Cohort \cup {"routing_hint_agreement"},
    contentItemKinds |-> {"family"},
    compactions      |-> {"compaction_trigger", "compaction_reason", "compaction_strategy",
                          "compaction_phase"},
    serviceTierOutcome |-> {"service_tier_outcome", "gen_ai.request.model", "family"},
    stickyRouting    |-> {"sticky_kind", "sticky_key_source", "family"},
    proxyLatency     |-> Cohort \cup {"gen_ai.request.model"}]

KeyNames == DOMAIN CountKeys \cup DOMAIN LatencyKeys \cup DOMAIN EventKeys \cup DOMAIN AccountKeys
Keys ==
    [k \in KeyNames |->
        CASE k \in DOMAIN CountKeys   -> CountKeys[k]
          [] k \in DOMAIN LatencyKeys -> LatencyKeys[k]
          [] k \in DOMAIN EventKeys   -> EventKeys[k]
          [] OTHER                    -> AccountKeys[k]]

\* A measurement: its instrument, the attributes kept of the turn's, and those
\* added to them.
Under(name, keys, extra) == [instrument |-> name, keys |-> Keys[keys], extra |-> extra]
Plain(name, keys)       == Under(name, keys, <<>>)
Own(name)               == Plain(name, name)

-----------------------------------------------------------------------------
(* What a turn adds.  m holds its numbers, 0 where a field is absent.       *)

When(condition, measurements) == IF condition THEN measurements ELSE {}

\* Instruments that take a number of the turn if it is positive, and the
\* attributes they take it under.
Positive == [
    webSearch          |-> <<"webSearchRequests", "webSearch">>,
    imageGenTokens     |-> <<"imageGenTokens", "imageGenTokens">>,
    ttft               |-> <<"ttftMs", "ttft">>,
    engineWall         |-> <<"engineWallMs", "criticalPath">>,
    samplingStream     |-> <<"samplingStreamMs", "criticalPath">>,
    harnessUnblocked   |-> <<"harnessUnblockedMs", "harnessUnblocked">>,
    engineServiceInference |-> <<"serviceInferenceDelta", "timing">>,
    engineServiceSampling  |-> <<"serviceSamplingDelta", "timing">>,
    engineIapiInference    |-> <<"iapiInferenceDelta", "timing">>,
    engineIapiSampling     |-> <<"iapiSamplingDelta", "timing">>,
    exclEngineAndTool      |-> <<"exclEngineAndToolDelta", "timing">>,
    exclEngineWait         |-> <<"exclEngineWaitDelta", "timing">>,
    exclEngineWaitIapi     |-> <<"exclEngineWaitIapiDelta", "timing">>,
    exclClientTools    |-> <<"exclClientToolsDelta", "exclClientTools">>,
    engineUncached     |-> <<"engineUncachedDelta", "engineUncached">>,
    engineServiceTBT   |-> <<"serviceTBT", "tbt">>,
    engineIapiTBT      |-> <<"iapiTBT", "tbt">>,
    contentItemKinds   |-> <<"contentItems", "contentItemKinds">>,
    proxyLatency       |-> <<"proxyLatencyMS", "proxyLatency">>,
    proxyFirstToken    |-> <<"proxyFirstTokenMS", "proxyLatency">>]

\* Per response if the critical path was reported, else the delta of a counter
\* of the logical turn.
Preferred == [
    engineCalls     |-> <<"cpEngineCalls", "engineCallsDelta", "engineCalls">>,
    preInference    |-> <<"cpPreInference", "preInferenceMs", "criticalPath">>,
    clientToolPause |-> <<"cpClientToolPause", "clientToolPauseDelta", "criticalPath">>]

\* Those that count a turn that has a field at all.
Present == [
    safetyBuffering |-> "safetyBuffering",     baselineResets     |-> "baselineReset",
    compactions     |-> "compactionTrigger",   serviceTierOutcome |-> "serviceTierOutcome",
    routingHint     |-> "routingHintAgreement"]

TokenFields == {"inputTokens", "outputTokens", "reasoningTokens", "cachedTokens", "cacheWriteTokens"}
WaitFields  == {"queueWait", "gateWait", "bridgeWait"}

\* Both ends of a duration are known, and in order.
Lasts(t, from, to) == t.m[from] # 0 /\ t.m[to] # 0 /\ t.m[to] >= t.m[from]

Extras(instrument) ==
    CASE instrument = "contentItemKinds" -> <<"content_item_kind">> [] OTHER -> <<>>

Counts(t) ==
    {Own("responses")}
    \cup When(t.requestKind = "turn", {Own("turns")})
    \cup When(t.status = "error", {Own("errors")})
    \cup When(t.status = "transport" \/ t.m["closeCode"] # 0 \/ t.m["frameErrors"] > 0,
              {Own("transportEvents")})
    \cup {Own(i) : i \in {p \in DOMAIN Present : t.m[Present[p]] # 0}}
    \cup When(t.m["stickyKind"] # 0 /\ t.m["stickyKeySource"] # 0, {Own("stickyRouting")})

TokenCounts(t) ==
    When(\E field \in TokenFields : t.m[field] > 0,
         {Under("tokens", "tokens", <<"gen_ai.token.type">>),
          Under("tokenUsage", "tokenUsage", <<"gen_ai.token.type", "gen_ai.token.semantics">>)})

ToolCalls(t) ==
    When(t.tools # <<>>, {Under("toolCalls", "toolCalls", <<"gen_ai.tool.name">>)})
    \cup When(t.model # Absent, {Own("toolCallsPerOperation")})

Durations(t) ==
    When(Lasts(t, "serverCreatedAt", "serverCompletedAt"), {Own("operationDuration")})
    \cup When(t.requestKind = "turn" /\ Lasts(t, "turnStart", "serverCompletedAt"),
              {Own("turnDuration")})
    \cup When(t.m["serviceMinusIapiTBT"] # 0, {Plain("engineServiceMinusIapiTBT", "tbt")})
    \cup {Under(i, Positive[i][2], Extras(i)) : i \in {p \in DOMAIN Positive : t.m[Positive[p][1]] > 0}}
    \cup {Plain(i, Preferred[i][3]) :
              i \in {p \in DOMAIN Preferred :
                        t.m[Preferred[p][IF t.m["coverage"] # 0 THEN 1 ELSE 2]] > 0}}

\* The account's gauges, whose readings name their window or their model.
RateLimits(t) ==
    When(t.m["windowMin"] > 0,
         {Under(i, "rateLimit", <<"window_minutes">>) : i \in {"rateLimitUsed", "rateLimitReset"}}
         \cup {Plain("rateLimitReached", "account")})
    \cup When(t.m["window2Min"] > 0,
         {Under(i, "rateLimit", <<"window_minutes">>) : i \in {"rateLimitUsed2", "rateLimitReset"}}
         \cup {Plain("rateLimitReached", "account")})
    \cup When(t.m["modelWindowMin"] > 0,
         {Under("rateLimitPerModel", "rateLimit", <<"gen_ai.request.model", "window_minutes">>)})
    \cup When(t.m["reachedModel"] # 0,
         {Under("rateLimitModelReached", "account", <<"gen_ai.request.model">>)})

Credits(t) ==
    When(t.m["hasCredits"] # 0 \/ t.m["creditsUnlimited"] # 0 \/ t.m["creditsBalance"] # 0,
         {Plain("creditsUnlimited", "rateLimit")})
    \cup When(t.m["creditsBalance"] > 0, {Plain("creditsBalance", "rateLimit")})

QuotaFailures(t) ==
    When(t.m["quotaFailures"] # 0,
         {Own("quotaFailures")}
         \cup {Under(i, "account", <<"quota_limit_family", "quota_window">>)
                  : i \in When(t.m["quotaUsed"] # 0, {"quotaFailureUsed"})
                          \cup When(t.m["quotaReset"] # 0, {"quotaFailureReset"})})

\* What attributeSetsForTurn lists, but for cost and waits; record adds the same.
Measured(t) ==
    Counts(t) \cup TokenCounts(t) \cup ToolCalls(t) \cup Durations(t)
    \cup When(t.accountID # Absent, RateLimits(t) \cup Credits(t) \cup QuotaFailures(t))

Waited(t) ==
    {Under("proxyWaitCoverage", "proxyWaitCoverage", <<"proxy_wait_kind", "result">>)}
    \cup When(\E w \in WaitFields : t.m[w] # 0,
              {Under("proxyWait", "proxyWait", <<"proxy_wait_kind">>)})

-----------------------------------------------------------------------------
(* The guards of responses.                                                *)

First(order, id) == id = Absent \/ id \notin ToSet(order)

\* Slip: one id fewer is remembered.
EnteredShort(order, id) ==
    IF id = Absent THEN order
    ELSE LET longer == Append(order, id)
         IN  IF Len(longer) >= CostLimit THEN Tail(longer) ELSE longer

\* The id enters, the oldest leaves.
Entered(order, id) ==
    IF id = Absent THEN order
    ELSE LET longer == Append(order, id)
         IN  IF Len(longer) > CostLimit THEN Tail(longer) ELSE longer

\* Slip: the guard is asked before the cost is looked at.
ChargesAny(t) == First(costOrder, t.id)

\* Whether the turn's response gets past the guard, and into it.
Charges(t) == t.cost = "valid" /\ First(costOrder, t.id)

Observes(t) == First(proxyWaitOrder, t.id)

-----------------------------------------------------------------------------
(* What is said of a turn.                                                 *)

\* The turn's own values in the order of the registry, then those added to
\* one measurement, line or span.
Said(key, v) == IF v = Absent THEN <<>> ELSE <<<<key, v>>>>
OwnValues(t) == Said("gen_ai.request.model", t.model) \o Said("account_id", t.accountID)
ValuesOf(t) == OwnValues(t) \o [n \in DOMAIN t.tools |-> <<"gen_ai.tool.name", t.tools[n]>>]

Exports(kvs) ==
    /\ seen' = Ask(seen, kvs)
    /\ shown' = shown \cup Answers(seen, kvs)

-----------------------------------------------------------------------------
\* What the turn emitted last added.
Added(emitted) ==
    Measured(emitted.turn)
    \cup When(emitted.charged, {Own("costUSD")}) \cup When(emitted.observed, Waited(emitted.turn))

\* Emit of one turn.
Emit(t) ==
    /\ offered < MaxOffers /\ offered' = offered + 1
    /\ Exports(ValuesOf(t))
    /\ IF Charges(t)
       THEN costOrder' = Entered(costOrder, t.id)
            /\ charges' = IF t.cost = "valid" THEN Append(charges, t.id) ELSE charges
       ELSE UNCHANGED <<costOrder, charges>>
    /\ IF Observes(t)
       THEN proxyWaitOrder' = Entered(proxyWaitOrder, t.id) /\ waits' = Append(waits, t.id)
       ELSE UNCHANGED <<proxyWaitOrder, waits>>
    /\ last' = [turn |-> t, charged |-> Charges(t), observed |-> Observes(t)]
    /\ UNCHANGED gauges

\* buildLines, emitTurn and buildGeneration of the sinks beside: they ask the
\* guard in an order of their own, and a generation has no tools to name.
Describe ==
    /\ \E kvs \in {ValuesOf(t) : t \in Offers} \cup {OwnValues(t) : t \in Offers} : Exports(kvs)
    /\ UNCHANGED <<costOrder, charges, proxyWaitOrder, waits, last, gauges, offered>>

\* registerAccountSnapshot
Register ==
    /\ gauges = "none" /\ gauges' = "registered"
    /\ UNCHANGED <<seen, shown, costOrder, charges, proxyWaitOrder, waits, last, offered>>

\* observeAccounts, on the reader's goroutine and through the same guard.
Collect ==
    /\ gauges = "registered"
    /\ \E a \in Accounts : Exports(<<<<"account_id", a>>>>)
    /\ UNCHANGED <<gauges, costOrder, charges, proxyWaitOrder, waits, last, offered>>

\* Close
Close ==
    /\ gauges = "registered" /\ gauges' = "closed"
    /\ UNCHANGED <<seen, shown, costOrder, charges, proxyWaitOrder, waits, last, offered>>

Init ==
    /\ seen = [k \in DOMAIN Cap |-> {}] /\ shown = {}
    /\ costOrder = <<>> /\ charges = <<>> /\ proxyWaitOrder = <<>> /\ waits = <<>>
    /\ last = {} /\ gauges = "none" /\ offered = 0

Next == Register \/ Collect \/ Close \/ Describe \/ \E t \in Offers : Emit(t)
Spec == Init /\ [][Next]_metricVars

-----------------------------------------------------------------------------
(* Properties.                                                             *)

\* Only leaves out what it is not given, and With drops what the registry does
\* not have and counts it: what each instrument, span and line asks for is there,
\* with few values if it is a metric's, and no document has a key twice (attr.go,
\* record.go, spans.go).
WellMeasured(x) ==
    /\ x.keys \subseteq MetricKeys /\ ToSet(x.extra) \subseteq CallerBounded \cup TurnBounded
    /\ IsInjective(x.extra) /\ ToSet(x.extra) \cap x.keys = {}
MeasuresOnContract  == offered > 0 => \A x \in Added(last) : WellMeasured(x)
DocumentsOnContract == \A x \in SpansCarry \cup LinesCarry(Promoted) : WellPlaced(x)

\* The guards remember no more than their limit (sink.go), no key is exported
\* with more values than its cap and the one for all others, and a value goes by
\* the same name in every metric, line and span, early and late, whichever sink
\* asked first (attr.go Guard).
WithinLimits ==
    /\ gauges \in {"none", "registered", "closed"} /\ offered \in 0..MaxOffers
    /\ Len(costOrder) <= CostLimit /\ Len(proxyWaitOrder) <= CostLimit
    /\ \A k \in DOMAIN Cap : Cardinality({kv[3] : kv \in {x \in shown : x[1] = k}}) <= Cap[k] + 1
    /\ \A x, y \in shown : x[1] = y[1] /\ x[2] = y[2] => x[3] = y[3]
    /\ MeasuresOnContract /\ DocumentsOnContract

\* Those of a sequence that have an id.
WithId(ids) ==
    LET known[n \in 0..Len(ids)] ==
            IF n = 0 THEN <<>>
            ELSE IF ids[n] = Absent THEN known[n - 1] ELSE Append(known[n - 1], ids[n])
    IN  known[Len(ids)]
Recent(ids) ==
    LET known == WithId(ids)
        first == IF Len(known) > CostLimit THEN Len(known) - CostLimit + 1 ELSE 1
    IN  ToSet(SubSeq(known, first, Len(known)))

\* However often a response is offered again, its cost is added and its waits
\* are observed once, until as many other responses came between as the guard
\* remembers (sink.go firstCostResponse, firstProxyWaitResponse).
OncePerResponse ==
    \A ids \in {WithId(charges), WithId(waits)} :
        \A i, j \in DOMAIN ids : i < j /\ ids[i] = ids[j] => j - i > CostLimit

\* A cost that is known only when the response is offered again is still added:
\* whatever was observed before without it has not used up the guard (record.go
\* recordCost, recordProxyWait).
NoCostIsLost ==
    [][\A t \in Offers :
          offered' # offered /\ last'.turn = t /\ t.cost = "valid" /\ t.id \notin Recent(charges)
             => charges' = Append(charges, t.id)]_metricVars
=============================================================================

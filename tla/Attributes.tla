------------------------------ MODULE Attributes ----------------------------
(***************************************************************************)
(* internal/attr: the one registry of what may be said of a turn, who may  *)
(* say it where (metric attributes, Loki labels and metadata, spans), and  *)
(* the guard of values that all sinks share.                               *)
(*                                                                         *)
(* Keys go by the last part of their names, those of the GenAI convention  *)
(* that metrics use by the whole.  A field's value is one of the turn's    *)
(* own, or comes with the call that adds it (Field.Of is nil).             *)
(***************************************************************************)
EXTENDS Integers, Sequences, FiniteSets, SequencesExt

CONSTANT Cap   \* Field.Cap of some bounded keys; 0 would be no cap

ASSUME CapAssumption == Cap \in [DOMAIN Cap -> Nat \ {0}]

-----------------------------------------------------------------------------
(* The registry.                                                           *)

\* Of a turn, with few values, and for what is stored per record only.
ContentBounded == {
    "turn_trigger", "safety_buffering_reasons", "reasoning_context", "parallel_tool_calls",
    "upstream_status_code", "upstream_error_code", "upstream_transport", "failure_phase"}

\* Of a turn, with few values.
RoutingBounded == {
    "quota_limit_name", "quota_active_limit", "routing_hint_agreement", "compaction_trigger",
    "compaction_reason", "compaction_implementation", "compaction_phase", "compaction_strategy",
    "service_tier_outcome", "sticky_kind", "sticky_key_source", "proxy_route_mode"}
ModelBounded == {
    "gen_ai.request.model", "gen_ai.response.model", "status", "request_kind", "client_group",
    "connection_kind", "family", "reasoning_effort", "account_id", "plan_type", "service_tier",
    "service_tier_requested", "thread_source", "api_key_name", "proxy_status",
    "proxy_error_code", "proxy_failure_phase", "subagent_kind", "originator", "agent_name"}
OutcomeBounded == {
    "agent_version", "error_type", "error_category", "error_code", "critical_path_coverage",
    "close_code", "baseline_reset", "frame_type", "sandbox_mode", "prompt_cache_mode",
    "prompt_cache_diagnostic"}
TurnBounded == RoutingBounded \cup ModelBounded \cup OutcomeBounded

\* Not of a turn: each comes with the call that adds it.
CallerBounded == {
    "result", "proxy_wait_kind", "quota_limit_family", "quota_window", "quota_key",
    "content_item_kind", "account_status", "account_routing_policy", "account_email",
    "window_minutes", "gen_ai.tool.name", "gen_ai.token.type", "gen_ai.token.semantics",
    "tool_type"}
CallerContent == {
    "content_ordinal", "content_item_id", "content_captured_at", "content_provenance",
    "tool_origin_match", "tool_origin_response_id", "proxy_queue_wait",
    "response_create_gate_wait", "bridge_queue_wait", "tool_call_id", "tool_call_arguments",
    "tool_call_result", "subagent_task"}

\* Ids, text and measurements.
TurnIdentity == {
    "response_id", "conversation_id", "request_id", "session_id", "thread_id",
    "parent_thread_id", "prev_response_id", "forked_from_thread_id", "turn_id",
    "parent_turn_id", "logical_turn_id", "window_id", "installation_id", "prompt_cache_key",
    "root_turn_id", "metadata_agent_name", "window_number", "prompt_cache_ttl", "api_key_id",
    "cost_usd", "time_to_response_created", "time_to_first_upstream_event", "engine_ids",
    "instructions_hash", "error_message", "transport_event", "workspaces", "turn_state",
    "proxy_conversation_id", "proxy_session_id", "models_etag", "context_window_id",
    "passthrough_turn_id", "passthrough_create_time", "safety_identifier"}
UsageIdentity == {
    "input_tokens", "output_tokens", "reasoning_tokens", "cache_read_tokens",
    "cache_write_tokens", "attribution_input_tokens", "attribution_output_tokens",
    "attribution_cache_read_tokens", "attribution_cache_write_tokens"}

OfTurn     == TurnBounded \cup ContentBounded \cup TurnIdentity \cup UsageIdentity
Registered == OfTurn \cup CallerBounded \cup CallerContent

-----------------------------------------------------------------------------
(* Who may say what.                                                       *)

\* Guard.MetricAttrs
MetricKeys == {"gen_ai.provider", "gen_ai.operation"} \cup TurnBounded

\* ValidateLabels
ValidLabels(promoted) ==
    promoted \subseteq {"service_name", "record_type"} \cup TurnBounded \cup CallerBounded

Labels(promoted) == promoted \cap ({"service_name", "record_type"} \cup TurnBounded)

\* buildLines takes the diagnostics of the upstream out again.
Upstream == {"upstream_status_code", "upstream_error_code", "upstream_transport"}
RootOnly == {"client_group", "connection_kind", "failure_phase"}
Metadata(promoted) == (OfTurn \ (promoted \cup RootOnly)) \ Upstream

SpanKeys == OfTurn

\* Only: what is not there is passed over.
Only(keys, wanted) == keys \cap wanted

\* Guard.With: what is not registered is dropped.
With(keys, extra) == keys \cup (extra \cap Registered)

-----------------------------------------------------------------------------
(* What the lines and the spans of a turn carry.                           *)

\* contentMetadata, contentItemAttrs
ContentKeys == {"content_ordinal", "content_item_id", "content_captured_at", "content_provenance"}

\* traceAttrs: what every span inherits, and what only the response has.
Measures   == {"cost_usd", "time_to_response_created", "time_to_first_upstream_event"}
Enrichment == Upstream \cup {"api_key_id", "api_key_name", "proxy_status", "proxy_error_code",
                             "proxy_failure_phase"}
Base       == SpanKeys \ (RootOnly \cup Measures \cup Enrichment)
Waits      == {"proxy_queue_wait", "response_create_gate_wait", "bridge_queue_wait"}

\* What one span or one line carries: keys it keeps of the turn's, and keys
\* it adds with the guard and past it.
Carries(of, kept, added, past) == [of |-> of, keys |-> kept, extra |-> added, past |-> past]

\* emitTurn, emitCriticalPathPhases, emitToolCalls, emitCrossResponseToolResults.
CallBase  == {"response_id", "thread_id", "gen_ai.request.model", "status"}
SpansCarry == {
    Carries("turn", Base \cup Only(SpanKeys, RootOnly), {}, {}),
    Carries("response", Base, {}, {"gen_ai.operation", "gen_ai.provider", "sdk_name",
            "generation_id", "temperature", "top_p"} \cup Enrichment \cup Measures \cup Waits),
    Carries("phase", {"critical_path_coverage", "response_id", "thread_id", "status"}, {}, {}),
    Carries("tool_call", CallBase,
            ContentKeys \cup {"gen_ai.tool.name", "tool_call_id", "tool_type",
                "tool_call_arguments", "tool_call_result", "subagent_task"},
            {"gen_ai.operation", "tool_call_status"}),
    Carries("tool_result", CallBase,
            ContentKeys \cup {"gen_ai.tool.name", "tool_call_id", "tool_call_result",
                "tool_origin_response_id", "tool_origin_match"}, {})}

\* buildLines, of a turn's own line, its content and its tool calls.
LinesCarry(promoted) == {
    Carries("turn", Metadata(promoted), {}, Labels(promoted)),
    Carries("content", Metadata(promoted), ContentKeys, Labels(promoted)),
    Carries("tool_call", Metadata(promoted), ContentKeys \cup {"gen_ai.tool.name"}, Labels(promoted))}

\* Each attribute is asked for where it exists (what does not is dropped
\* without a word), and no document has one twice.
WellPlaced(x) ==
    /\ x.keys \subseteq SpanKeys /\ x.extra \subseteq Registered
    /\ x.extra \cap x.keys = {} /\ x.past \cap (x.keys \cup x.extra) = {}

-----------------------------------------------------------------------------
(* The guard of values.                                                    *)

OtherValue == "_other"

\* Slip: one value more than the cap.
AdmitsLate(known, key, v) == v \in known[key] \/ Cardinality(known[key]) <= Cap[key]

\* Guard.value
Admits(known, key, v) == v \in known[key] \/ Cardinality(known[key]) < Cap[key]
Value(known, key, v)  == IF Admits(known, key, v) THEN v ELSE OtherValue
Admit(known, key, v) ==
    IF Admits(known, key, v) THEN [known EXCEPT ![key] = @ \cup {v}] ELSE known

\* The values asked for in order, each admitted or replaced: what is known
\* after so many of them, and of each the key, what was asked and what came back.
Asking(known, kvs) ==
    LET after[n \in 0..Len(kvs)] ==
            IF n = 0 THEN known ELSE Admit(after[n - 1], kvs[n][1], kvs[n][2])
    IN  after
Ask(known, kvs) == Asking(known, kvs)[Len(kvs)]
Answers(known, kvs) ==
    LET after == Asking(known, kvs)
    IN  {<<kvs[n][1], kvs[n][2], Value(after[n - 1], kvs[n][1], kvs[n][2])>> : n \in DOMAIN kvs}
=============================================================================

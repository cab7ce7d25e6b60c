------------------------------ MODULE Documents -----------------------------
(***************************************************************************)
(* What the sinks make of a turn: the tree of spans (internal/sink/        *)
(* otlptrace), the generation (internal/sink/agento11y) and the log lines  *)
(* (internal/sink/loki).  Each is a function of one turn and refers to     *)
(* what others were made of other turns, by ids none of them looks up:     *)
(* hashes of the names both sides know (internal/correlation).             *)
(*                                                                         *)
(* A hash is its parts.  Spans and lines carry what the properties read;   *)
(* their attributes and labels are those of Metrics.                       *)
(***************************************************************************)
EXTENDS ResponseFields

CONSTANTS
    Enabled,      \* Loki.RecordTypes
    ClientAhead   \* how far the client's clock is ahead of the archive's

-----------------------------------------------------------------------------
(* Ids.                                                                    *)

\* correlation.TraceID: a thread is a trace.
TraceID(t) ==
    IF ThreadID(t) # NoThread THEN <<"thread", ThreadID(t)>>
    ELSE IF t.request # 0 THEN <<"request", t.request>>
    ELSE <<"ts", t.first>>

\* correlation.ResponseKey, which is also attr.GenerationID.
ResponseKey(t) ==
    IF ResponseID(t) # <<>> THEN ResponseID(t)
    ELSE IF t.request # 0 THEN <<"request", t.request>>
    ELSE <<"logical">> \o t.logical

TurnSpanID(t)     == <<"turn">> \o t.logical
ResponseSpanID(t) == <<"response">> \o ResponseKey(t)

\* Slip: an invocation goes by its call id.
CallSpanIDByName(thread, id, occurrence) == <<thread, id>>

\* An invocation is named by its thread, its call id and, but for the first,
\* its occurrence.
ToolCallSpanID(thread, id, occurrence) ==
    IF occurrence <= 1 THEN <<thread, id>> ELSE <<thread, id, occurrence>>

\* What the turn span of the turn that spawned this one is called.
ParentTurnSpan(t) == [trace |-> <<"thread", ParentThreadID(t)>>, id |-> <<"turn", ParentTurnID(t)>>]

-----------------------------------------------------------------------------
(* The tree of spans.                                                      *)

Clamp(start, end) == IF end < start THEN start ELSE end
First(a, b)       == IF a # 0 THEN a ELSE b

RespStart(t) == First(t.created, t.first)
RespEnd(t)   == Clamp(RespStart(t), First(t.completed, t.last))
TurnStart(t) ==
    IF t.fields["TurnStart"] # "" \/ t.fields["ClientRequestStart"] # "" THEN t.first + ClientAhead
    ELSE RespStart(t)

Span(id, parent, kind, start, end) ==
    [id |-> id, parent |-> parent, kind |-> kind, start |-> start, end |-> end, links |-> {}]

\* The ordinals of the content of some kinds.
Ordinals(t, kinds) == SetToSortSeq({i \in DOMAIN t.content : t.content[i].item.kind \in kinds}, <)

\* turnLinks, but for the link to the connection's own trace.
TurnLinks(t) ==
    IF ParentThreadID(t) # NoThread /\ ParentTurnID(t) # 0 THEN {ParentTurnSpan(t)} ELSE {}

\* emitCriticalPathPhases: one after another, each of them a moment.
Phases == <<"pre_inference", "engine_wall", "sampling_and_stream", "client_tool_pause", "other">>
PhaseSpans(t) ==
    IF t.fields["CriticalPath"] = "" THEN <<>>
    ELSE [i \in DOMAIN Phases |->
            Span(<<"phase", ResponseKey(t), Phases[i]>>, ResponseSpanID(t), "phase",
                 RespStart(t) + i - 1, RespStart(t) + i)]

\* emitToolCalls: a call lasts as long as the response, unless there are as
\* many durations as calls.  A timing frame here reports one.
ToolCallSpans(t) ==
    LET at     == Ordinals(t, {"call"})
        timed  == t.fields["ToolCallDurations"] # "" /\ Len(at) = 1
    IN  [i \in DOMAIN at |->
            LET e == t.content[at[i]]
            IN  Span(ToolCallSpanID(ThreadID(t), e.item.id, e.occurrence), ResponseSpanID(t), "tool",
                     RespStart(t), IF timed THEN RespStart(t) + 1 ELSE RespEnd(t))]

\* emitCrossResponseToolResults: an answer that came with a later response.
ToolResultSpans(t) ==
    LET crosses(i) == /\ t.content[i].match = "exact"
                      /\ t.content[i].origin \notin {<<>>, ResponseID(t)}
        at == SelectSeq(Ordinals(t, {"output"}), crosses)
    IN  [i \in DOMAIN at |->
            LET e == t.content[at[i]]
            IN  [Span(<<"tool_result", ResponseKey(t), at[i]>>, ResponseSpanID(t), "result",
                      RespStart(t), RespEnd(t))
                 EXCEPT !.links = {[trace |-> TraceID(t), origin |-> e.origin,
                            id |-> ToolCallSpanID(ThreadID(t), e.item.id, e.occurrence)]}]]

\* emitTurn: all of them in the trace TraceID(t).
Spans(t) ==
    <<[Span(TurnSpanID(t), <<>>, "turn", TurnStart(t), Clamp(TurnStart(t), RespEnd(t)))
       EXCEPT !.links = TurnLinks(t)],
      Span(ResponseSpanID(t), TurnSpanID(t), "inference", RespStart(t), RespEnd(t))>>
    \o PhaseSpans(t) \o ToolCallSpans(t) \o ToolResultSpans(t)

\* callErrorMessage: what the response span failed with.
Failed(t) == t.fields["ErrorType"] # "" \/ t.status = "error"

-----------------------------------------------------------------------------
(* The generation.                                                         *)

\* inputMessages leaves out who it has no role for, and what is not said to
\* or by the model.
InputKinds  == {"prompt", "output"}
OutputKinds == {"message", "call"}

Generation(t) == [
    id     |-> ResponseKey(t), trace |-> TraceID(t), span |-> ResponseSpanID(t),
    input  |-> Ordinals(t, InputKinds), output |-> Ordinals(t, OutputKinds),
    system |-> Ordinals(t, {"instructions"}) # <<>>,
    error  |-> t.fields["ErrorType"] # "",
    stop   |-> IF t.status = "completed" /\ t.fields["ErrorType"] = "" THEN "completed" ELSE ""]

-----------------------------------------------------------------------------
(* The lines.                                                              *)

InputTS(t)     == t.first
OutputTS(t)    == First(t.completed, t.last)
TurnTS(t)      == OutputTS(t)
LifecycleTS(t) == t.last

\* One line: what kind of record, its time, the ordinal of its content, and
\* whether its text was cut.
Line(type, ts, ordinal, cut) == [type |-> type, ts |-> ts, ordinal |-> ordinal, cut |-> cut]

RecordType(kind) ==
    CASE kind = "instructions" -> "instructions" [] kind \in {"prompt", "developer"} -> "prompt"
      [] kind = "message" -> "message"           [] kind = "call" -> "tool_call"
      [] kind = "output" -> "tool_output"        [] kind = "agent" -> "agent_message"

\* fitLine and toolCallLine: what is too long is cut, and always fits then.
ContentLines(t, kinds, ts) ==
    LET at == SelectSeq(Ordinals(t, kinds),
                        LAMBDA i : RecordType(t.content[i].item.kind) \in Enabled)
    IN  [i \in DOMAIN at |-> LET item == t.content[at[i]].item
                             IN  Line(RecordType(item.kind), ts, at[i], item.long)]

\* turnLine leaves out content, but not the catalogue of tools.
TurnLine(t)      == IF t.catalogue = "long" THEN <<>> ELSE <<Line("turn", TurnTS(t), 0, FALSE)>>
TransportLine(t) ==
    IF t.status = "transport" \/ t.closed THEN <<Line("transport", LifecycleTS(t), 0, FALSE)>> ELSE <<>>
ErrorLine(t)     ==
    IF Failed(t) THEN <<Line("error", LifecycleTS(t), 0, FALSE)>> ELSE <<>>

\* Slip: lines are sorted by time.
ByTime(a, b) == a.ts < b.ts

\* By time, and what is of the same time in the order of capture.
Before(a, b) == a.ts < b.ts \/ (a.ts = b.ts /\ a.ordinal < b.ordinal)

\* buildLines.
Lines(t) ==
    LET all == SelectSeq(TurnLine(t)
                 \o ContentLines(t, {"instructions", "prompt", "developer"}, InputTS(t))
                 \o ContentLines(t, {"message"}, OutputTS(t))
                 \o ContentLines(t, {"call"}, OutputTS(t))
                 \o ContentLines(t, {"output"}, InputTS(t))
                 \o ContentLines(t, {"agent"}, InputTS(t))
                 \o TransportLine(t) \o ErrorLine(t), LAMBDA l : l.type \in Enabled)
        earlier(i, j) == Before(all[i], all[j]) \/ (~ Before(all[j], all[i]) /\ i < j)
    IN  [k \in DOMAIN all |-> all[SetToSortSeq(DOMAIN all, earlier)[k]]]

-----------------------------------------------------------------------------
(* Properties.                                                             *)

Unnamed(t, span) == span.kind = "tool" /\ (ThreadID(t) = NoThread \/ span.id[2] = "")

\* The tree of a turn hangs together: one root, parents that exist, no span
\* that ends before it starts, one inference, which the generation names.
Hangs(t) ==
    LET S == Spans(t)
        g == Generation(t)
    IN  /\ \A i \in DOMAIN S :
              /\ S[i].start <= S[i].end
              /\ S[i].parent = <<>> <=> i = 1
              /\ i > 1 => \E j \in DOMAIN S : S[j].id = S[i].parent
              /\ \A j \in DOMAIN S : S[i].id = S[j].id => i = j \/ Unnamed(t, S[i])
        /\ \E i \in DOMAIN S : g.span = S[i].id /\ S[i].kind = "inference"

\* Spans of two turns share an id only where they are to: the turn span of
\* one logical turn, which every response of it emits anew.  Responses that
\* never learned an id go by their request, and calls without one by nothing.
Apart(t, u) ==
    TraceID(t) = TraceID(u) =>
        \A s \in Range(Spans(t)), v \in Range(Spans(u)) :
            s.id = v.id =>
                \/ s.kind = "turn" /\ t.logical = u.logical
                \/ t.request = u.request /\ ResponseID(t) = <<>> /\ ResponseID(u) = <<>>
                \/ Unnamed(t, s)

\* A result points at the invocation it answers, among the spans of the
\* response that made it.
Answers(t) ==
    \A l \in UNION {s.links : s \in Range(ToolResultSpans(t))} :
        \E o \in AllTurns :
            /\ ResponseID(o) = l.origin /\ TraceID(o) = l.trace
            /\ \E c \in Range(ToolCallSpans(o)) : c.id = l.id

\* A spawned agent points at the turn that spawned it, where the client named
\* the thread of either.
Spawned(t) ==
    \A l \in TurnLinks(t), u \in Range(turns) :
        u.request # 0 /\ u.request = SpawnedBy[t.request] /\ TurnID(u) # 0
          /\ "ThreadID" \in u.said /\ "ParentThreadID" \in t.said
        => l = [trace |-> TraceID(u), id |-> TurnSpanID(u)]

\* Ids that no sink looks up meet: the spans of a turn are a tree that its
\* generation points into, and what one turn's spans say of another's is there
\* (otlptrace/spans.go, correlation/ids.go, attr.GenerationID).
SpansResolve ==
    /\ \A t \in Range(turns) : Hangs(t) /\ Answers(t) /\ Spawned(t)
    /\ \A i, j \in DOMAIN turns : i # j => Apart(turns[i], turns[j])

\* The lines of a turn are its content, item by item, in the order of capture
\* whatever the types, unless the server's clock is behind; nothing but the
\* turn's own line is lost for its length; and lines, spans and generation
\* agree on whether a turn failed (loki/record.go, agento11y/generation.go).
RecordsTell ==
    \A t \in Range(turns) :
        LET L  == Lines(t)
            g  == Generation(t)
            of(type) == {i \in DOMAIN L : L[i].type = type}
            said == {i \in DOMAIN L : L[i].ordinal > 0}
        IN  /\ \A k \in DOMAIN t.content :
                  RecordType(t.content[k].item.kind) \in Enabled =>
                      Cardinality({i \in said : L[i].ordinal = k}) = 1
            /\ First(t.completed, t.last) >= t.first =>
                  \A i, j \in said : i < j => L[i].ordinal < L[j].ordinal
            /\ Cardinality(of("turn")) = (IF t.catalogue = "long" THEN 0 ELSE 1)
            /\ of("error") # {} => g.stop = "" /\ Failed(t)
            /\ g.error => of("error") # {}
            /\ t.closed => of("transport") # {}
            /\ Range(g.input) \cup Range(g.output) =
                  {k \in DOMAIN t.content :
                     t.content[k].item.kind \notin {"instructions", "developer", "agent"}}
=============================================================================

--------------------------- MODULE ResponseFields ---------------------------
(***************************************************************************)
(* How internal/turn puts one turn together out of the frames of one       *)
(* response: which frame each field is from, what a later frame may do to  *)
(* it, what content is captured, and what ends the turn.                   *)
(*                                                                         *)
(* The frames of several requests come over one websocket, possibly        *)
(* without their beginning.  Every frame carries the headers of the        *)
(* handshake, which are those of whatever request opened it.  A field's    *)
(* value is the name of the frame it was taken from, "" for none.  The     *)
(* counters of timing frames are those of TurnDeltas, and the limits of    *)
(* the sets and indexes those of Conversation.                             *)
(***************************************************************************)
EXTENDS Integers, Sequences, FiniteSets, SequencesExt

CONSTANTS
    Requests,     \* request ids, numbers
    ThreadOf,     \* the thread of each request
    SpawnedBy,    \* the request whose turn spawned its thread, 0 for none
    Handshakes,   \* what the headers may say: [thread, parent, metadata]
    Inputs,       \* what response.create may carry: sequences of items
    Outputs,      \* the items a response may produce
    Sidebands,    \* the frames that only fill in fields, of those below
    Unsaids,      \* the fields response.create may leave out, as sets
    Endings,      \* how a response may complete: [status, skew, missing]
    EvictAfter,   \* Config.EvictAfter
    MaxFrames     \* bound: frames

ASSUME RequestAssumption ==
    \A r \in Requests : r > 0 /\ SpawnedBy[r] \in Requests \cup {0}

NoThread == "no thread"
Threads  == {ThreadOf[r] : r \in Requests} \cup {h.thread : h \in Handshakes} \cup {NoThread}

VARIABLES
    header,  \* the handshake of the connection
    open,    \* Reducer.open
    turns,   \* the turns returned, in order
    seq,     \* Reducer.seq: the last inferred turn of each thread
    seen,    \* Reducer.seen
    calls,   \* Reducer.calls: the invocations, in order of capture
    clock    \* frames read; the time of the last

fieldVars == <<header, open, turns, seq, seen, calls, clock>>

-----------------------------------------------------------------------------
(* What each frame does to the fields of a turn.                           *)

\* A field is set whatever the frame says of it, taken if the frame says
\* anything, or kept if it has a value.
Effect(set, take, keep) == [set |-> set, take |-> take, keep |-> keep]

\* applyTurnMetadataExtensions.
Extensions == {"RootTurnID", "AgentName", "SandboxMode", "WindowNumber", "ContextWindowID",
               "Workspaces", "Compaction"}

\* A turn that is opened: the headers.
HeaderEffect == Effect({"SessionID", "ThreadID", "ParentThreadID", "InstallationID", "WindowID",
                        "SubagentKind", "Originator", "ClientVersion", "TraceID"}, Extensions, {})

\* response.create: the client's block, and the metadata within it.
ClientEffect   == Effect({"Lite"}, {"ThreadID", "SessionID", "TurnID", "ParentThreadID",
                         "SubagentKind", "ClientRequestStart"}, {})
MetadataEffect == Effect({"RequestKind", "ThreadSource", "Sandbox", "TurnTrigger",
                          "ForkedFromThreadID"},
                         {"TurnID", "SubagentKind", "WindowID", "InstallationID", "ParentThreadID",
                          "ParentTurnID", "TurnStart"} \cup Extensions, {})
Passthrough    == {"PassthroughTurnID", "PassthroughCreateTime", "ContentItemKinds"}
CreateEffect   == Effect({"Effort", "ReasoningCtx", "ReasoningMode", "Verbosity",
                          "ServiceTierRequested", "PrevResponseID", "PromptCacheKey",
                          "ParallelTools"}, Passthrough \cup {"InstructionsHash"}, {"Model"})

\* What the server says before the response ends.
PromptCache    == {"PromptCacheMode", "PromptCacheTTL", "PromptCacheDiagnostic"}
CreatedEffect  == Effect({"ResponseID", "ServiceTier", "SafetyID"}, PromptCache, {"Model"})
ProgressEffect == Effect({}, PromptCache, {})
ResponseEffect == Effect({}, {"ModelsETag", "TurnState"}, {})
LimitsEffect   == Effect({"PlanType"}, {"Credits", "RateLimits", "ExtraRateLimits"}, {})
DeltaEffect    == Effect({}, {"SafetyRetryModel"}, {})
TimingEffect   == Effect({}, {"EngineIDs", "Latencies", "TextDeltaCount", "CriticalPath",
                              "ToolCallDurations"}, {})

\* What ends it.
QuotaFailure   == {"QuotaFailureLimits", "QuotaFailureActiveLimit", "QuotaFailureCredits"}
ErrorEffect    == Effect({"ErrorType", "ErrorCode", "ErrorMessage", "QuotaFailureResets"},
                         QuotaFailure \cup {"UpstreamStatusCode", "PlanType"}, {})
DoneEffect     == Effect({"CacheRetention", "WebSearchRequests", "ImageGenTokens"},
                         {"Model", "ServiceTier", "SafetyID", "ReasoningCtx", "ReasoningMode",
                          "ParallelTools", "Temperature", "TopP", "SafetyRetryModel", "Usage",
                          "Attribution"} \cup PromptCache, {})

EffectOf == [header |-> HeaderEffect, client |-> ClientEffect, metadata |-> MetadataEffect,
             create |-> CreateEffect, created |-> CreatedEffect, progress |-> ProgressEffect,
             response |-> ResponseEffect, limits |-> LimitsEffect, delta |-> DeltaEffect,
             timing |-> TimingEffect, error |-> ErrorEffect, done |-> DoneEffect]

Touched(s) == EffectOf[s].set \cup EffectOf[s].take \cup EffectOf[s].keep
Fields     == UNION {Touched(s) : s \in DOMAIN EffectOf}
Blank      == [f \in Fields |-> ""]

\* What frame s makes of the fields, when it carries all it may but missing.
Merged(fields, s, missing) ==
    LET told  == Touched(s) \ missing
        reset == EffectOf[s].set \ told
        kept  == EffectOf[s].keep \cap {f \in Fields : fields[f] # ""}
    IN  [f \in Fields |-> IF f \in reset THEN "" ELSE IF f \in told \ kept THEN s ELSE fields[f]]

-----------------------------------------------------------------------------
(* The identity the fields amount to.                                      *)

ThreadID(t) == CASE t.fields["ThreadID"] = ""       -> NoThread
                 [] t.fields["ThreadID"] = "header" -> header.thread
                 [] OTHER                           -> ThreadOf[t.request]

ParentThreadID(t) == CASE t.fields["ParentThreadID"] = ""       -> NoThread
                       [] t.fields["ParentThreadID"] = "header" -> header.parent
                       [] OTHER -> ThreadOf[SpawnedBy[t.request]]

\* The client names the turn of every request, and the one that spawned it.
TurnID(t)       == IF t.fields["TurnID"] = "" THEN 0 ELSE t.request
ParentTurnID(t) == IF t.fields["ParentTurnID"] = "" THEN 0 ELSE SpawnedBy[t.request]

\* A request that goes on after its turn was closed may be answered anew.
ResponseID(t) == IF t.fields["ResponseID"] = "" THEN <<>> ELSE <<"resp", t.request, t.answer>>

-----------------------------------------------------------------------------
(* Content.                                                                *)

\* One item of the input or the output: kind, call id, and whether it is too
\* long for a line.  Two messages never say the same.
Item(k, id, long) == [kind |-> k, id |-> id, long |-> long]

\* As it is kept: an invocation with its occurrence, and an output with that
\* and the response of the invocation it answers.
Kept(item, occurrence, origin, match) ==
    [item |-> item, occurrence |-> occurrence, origin |-> origin, match |-> match]

\* callIndex.record and lookup, but for its limits.  Neither knows a call
\* without an id, or one of no thread.
Named(thread, id)      == thread # NoThread /\ id # ""
OfCall(thread, id)     == {i \in DOMAIN calls : calls[i].thread = thread /\ calls[i].id = id}
Occurrence(thread, id) == IF Named(thread, id) THEN 1 + Cardinality(OfCall(thread, id)) ELSE 0
OpenCalls(thread, id)  == {i \in OfCall(thread, id) : Named(thread, id) /\ ~ calls[i].consumed}

\* What an item is remembered by.  A response goes by its id, and by that of
\* its request until it has one.
SeenKey(t, item) ==
    CASE item.kind \in {"instructions", "developer"} -> <<"global", item>>
      [] item.kind = "output" -> <<ThreadID(t), item>>
      [] item.kind = "call"   -> <<ThreadID(t), item, t.request, ResponseID(t)>>
      [] OTHER                -> <<"said by", item, t.request, t.answer>>

\* captureInput of one item.
CaptureInput(s, t, item) ==
    LET key    == SeenKey(t, item)
        origin == OpenCalls(ThreadID(t), item.id) \ s.consumed
        i      == CHOOSE i \in origin : TRUE
        exact  == item.kind = "output" /\ Cardinality(origin) = 1
        e      == CASE exact -> Kept(item, calls[i].occurrence, calls[i].origin, "exact")
                    [] item.kind = "output" /\ origin # {} -> Kept(item, 0, <<>>, "ambiguous")
                    [] OTHER -> Kept(item, 0, <<>>, "none")
    IN  IF key \in s.seen THEN s
        ELSE [seen     |-> s.seen \cup {key},
              content  |-> Append(s.content, e),
              consumed |-> IF exact THEN s.consumed \cup {i} ELSE s.consumed]

-----------------------------------------------------------------------------
(* The turn.                                                               *)

NoTurn == [request |-> 0]

NewTurn(r) == [
    request |-> r, answer |-> 1 + Cardinality({i \in DOMAIN turns : turns[i].request = r}),
    fields  |-> Merged(Blank, "header",
                   (IF header.thread = NoThread THEN {"ThreadID"} ELSE {}) \cup
                   (IF header.parent = NoThread THEN {"ParentThreadID"} ELSE {}) \cup
                   (IF header.metadata THEN {} ELSE Extensions)),
    said    |-> {},     \* history: the fields its client's frames carried
    first |-> clock + 1, last |-> clock + 1, created |-> 0, completed |-> 0,
    status |-> "", logical |-> <<>>, content |-> <<>>, catalogue |-> "", closed |-> FALSE]

\* The turn a frame of request r belongs to.
TurnFor(r) == IF open[r] = NoTurn THEN NewTurn(r) ELSE [open[r] EXCEPT !.last = clock + 1]

Take(t, s, missing) == [t EXCEPT !.fields = Merged(@, s, missing)]

\* ensureLogicalTurn: the client's turn id, or the next of the thread.
Numbered(t) == TurnID(t) = 0 /\ t.logical = <<>>
Logical(t)  == IF TurnID(t) # 0 THEN <<TurnID(t)>>
               ELSE IF Numbered(t) THEN <<ThreadID(t), seq[ThreadID(t)] + 1>>
               ELSE t.logical
NextTurn(t) == [seq EXCEPT ![ThreadID(t)] = @ + 1]

Keep(t) == open' = [open EXCEPT ![t.request] = t] /\ UNCHANGED <<turns, seq>>

Return(t) == /\ turns' = Append(turns, [t EXCEPT !.logical = Logical(t)])
             /\ seq' = IF Numbered(t) THEN NextTurn(t) ELSE seq

Close(t) == Return(t) /\ open' = [open EXCEPT ![t.request] = NoTurn]

\* Requests are numbered in the order they come by.
Known(r)   == open[r] # NoTurn \/ \E i \in DOMAIN turns : turns[i].request = r
Frame(r)   == /\ clock < MaxFrames /\ clock' = clock + 1 /\ UNCHANGED header
              /\ \A q \in Requests : q < r => Known(q)

\* A frame of no interest, or one that does not parse.
Noise(r) == Frame(r) /\ Keep(TurnFor(r)) /\ UNCHANGED <<seen, calls>>

\* applyTransport: the connection is closed or fails under a response.
Transport(r) == Frame(r) /\ Keep([TurnFor(r) EXCEPT !.closed = TRUE]) /\ UNCHANGED <<seen, calls>>

\* Frames that only fill in fields.
Sideband(r) ==
    /\ Frame(r)
    /\ \E s \in Sidebands : Keep(Take(TurnFor(r), s, {}))
    /\ UNCHANGED <<seen, calls>>

\* applyTiming, of which TurnDeltas has the counters: they begin anew or go on
\* from those of the thread's last turn, and either names the turn.
Timing(r) ==
    /\ Frame(r)
    /\ \E anew \in BOOLEAN :
          LET t == Take(TurnFor(r), "timing", {})
              n == seq[ThreadID(t)] + (IF anew THEN 1 ELSE 0)
          IN  /\ n > 0
              /\ open' = [open EXCEPT ![r] =
                     [t EXCEPT !.logical = IF TurnID(t) # 0 THEN <<TurnID(t)>> ELSE <<ThreadID(t), n>>]]
              /\ seq' = IF anew THEN NextTurn(t) ELSE seq
    /\ UNCHANGED <<turns, seen, calls>>

-----------------------------------------------------------------------------
(* response.create, the items of the output, and what ends a turn.         *)

\* What a root thread's client has nothing to say about, and what is not said
\* if the metadata does not parse.
Unsaid(r, missing) ==
    missing \cup (IF SpawnedBy[r] = 0 THEN {"ParentThreadID", "ParentTurnID"} ELSE {})

ClientSays(r, missing) ==
    (ClientEffect.take \cup (IF "metadata" \in missing THEN {} ELSE MetadataEffect.take))
        \ Unsaid(r, missing)

\* Slip: what a field says already is left alone, the handshake's word too.
HandshakeFirst(t, missing) ==
    LET told == (Touched("client") \cup Touched("metadata")) \ missing
    IN  [t EXCEPT !.fields = [f \in Fields |-> IF @[f] = "" /\ f \in told THEN "client" ELSE @[f]]]

\* applyClientMetadata.
ClientMetadata(t, missing) ==
    LET t1 == Take(t, "client", missing)
    IN  IF "metadata" \in missing THEN t1 ELSE Take(t1, "metadata", missing)

\* applyToolCatalogue: its hash is kept every time, its body the first time.
Catalogue(t, tools) ==
    CASE tools = {}             -> t
      [] <<"tools">> \in seen   -> [t EXCEPT !.catalogue = IF @ = "" THEN "hash" ELSE @]
      [] \E x \in tools : x.long -> [t EXCEPT !.catalogue = "long"]
      [] OTHER                  -> [t EXCEPT !.catalogue = "short"]

\* applyCreate.  A client asks before the server answers.
Create(r) ==
    /\ Frame(r)
    /\ open[r] # NoTurn => \A i \in DOMAIN open[r].content :
                              open[r].content[i].item.kind \notin {"call", "message"}
    /\ \E m \in Unsaids, input \in Inputs :
          LET t     == ClientMetadata(Take(TurnFor(r), "create", m), Unsaid(r, m))
              tools == {x \in Range(input) : x.kind = "tools"}
              s     == FoldLeft(LAMBDA st, item : CaptureInput(st, t, item),
                                [seen |-> seen, content |-> t.content, consumed |-> {}],
                                SelectSeq(input, LAMBDA x : x.kind # "tools"))
          IN  /\ Keep([Catalogue(t, tools) EXCEPT !.content = s.content,
                                                  !.said = @ \cup ClientSays(r, m)])
              /\ seen' = s.seen \cup (IF tools = {} THEN {} ELSE {<<"tools">>})
              /\ calls' = [i \in DOMAIN calls |->
                     [calls[i] EXCEPT !.consumed = @ \/ i \in s.consumed]]

\* applyOutputItem: a call that comes by again is not another one.
OutputItem(r) ==
    /\ Frame(r)
    /\ \E item \in Outputs :
          LET t   == TurnFor(r)
              key == SeenKey(t, item)
              n   == IF item.kind = "call" THEN Occurrence(ThreadID(t), item.id) ELSE 0
          IN  IF item.kind = "call" /\ key \in seen THEN Keep(t) /\ UNCHANGED <<seen, calls>>
              ELSE /\ Keep([t EXCEPT !.content = Append(@, Kept(item, n, <<>>, "none"))])
                   /\ seen' = IF item.kind = "call" THEN seen \cup {key} ELSE seen
                   /\ calls' = IF n = 0 THEN calls
                               ELSE Append(calls, [thread |-> ThreadID(t), id |-> item.id,
                                      occurrence |-> n, origin |-> ResponseID(t), consumed |-> FALSE])

\* applyError; of an error that does not parse only the status is known.
ErrorFrame(r) ==
    /\ Frame(r)
    /\ LET t == [TurnFor(r) EXCEPT !.status = "error"]
       IN  Close(t) \/ Close(Take(t, "error", {}))
    /\ UNCHANGED <<seen, calls>>

\* applyCompleted.  The times are by the server's clock, and the status need
\* not be "completed".
Completed(r) ==
    /\ Frame(r)
    /\ \E e \in Endings :
          LET t     == Take(TurnFor(r), "done", {})
              at(x) == IF x + e.skew > 0 THEN x + e.skew ELSE 0
          IN  Close([t EXCEPT !.status = e.status,
                       !.created   = IF "CreatedAt" \in e.missing THEN 0 ELSE at(t.first),
                       !.completed = IF "CompletedAt" \in e.missing THEN 0 ELSE at(t.last)])
    /\ UNCHANGED <<seen, calls>>

\* Evict, and Flush at the end of the input.
GiveUp(r) ==
    /\ open[r] # NoTurn
    /\ open[r].last + EvictAfter < clock \/ clock = MaxFrames
    /\ Close([open[r] EXCEPT !.status = IF @ = "" THEN "incomplete" ELSE @])
    /\ UNCHANGED <<header, seen, calls, clock>>

\* addUncorrelated: a frame of no request that means something by itself.
Uncorrelated ==
    /\ Frame(0)
    /\ \E s \in {"error", "transport"} :
          LET unset == Extensions \cup {"WindowID", "SubagentKind", "ClientVersion"}
              t     == [NewTurn(0) EXCEPT !.status = s,
                           !.fields = [f \in Fields |-> IF f \in unset THEN "" ELSE @[f]]]
          IN  Return(IF s = "error" THEN Take(t, "error", {}) ELSE [t EXCEPT !.closed = TRUE])
    /\ UNCHANGED <<open, seen, calls>>

FieldInit ==
    /\ header \in Handshakes
    /\ open = [r \in Requests |-> NoTurn] /\ turns = <<>>
    /\ seq = [h \in Threads |-> 0]
    /\ seen = {} /\ calls = <<>> /\ clock = 0

FieldNext ==
    \/ \E r \in Requests : \/ Noise(r) \/ Transport(r) \/ Sideband(r) \/ Timing(r) \/ Create(r)
                           \/ OutputItem(r) \/ ErrorFrame(r) \/ Completed(r) \/ GiveUp(r)
    \/ Uncorrelated

FieldSpec == FieldInit /\ [][FieldNext]_fieldVars

-----------------------------------------------------------------------------
AllTurns == Range(turns) \cup (Range(open) \ {NoTurn})

\* What a response is said to be is what its own client said, whatever frames
\* of it came before and come after: the handshake, which belongs to whichever
\* request opened the connection, fills in only what the client left out
\* (reducer.go applyClientMetadata).
OwnIdentity ==
    \A t \in AllTurns : \A f \in t.said : t.fields[f] \in {"client", "metadata"}
=============================================================================

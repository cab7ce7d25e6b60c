---------------------------- MODULE MCDocuments ----------------------------
(* A small instance of Documents for TLC: two responses of one thread, and *)
(* one of a thread the first of them spawned.                              *)
EXTENDS Documents

MCThreadOf  == <<"main", "child", "main">>
MCSpawnedBy == <<0, 1, 0>>

Bare == [thread |-> NoThread, parent |-> NoThread, metadata |-> FALSE]
Sub  == [thread |-> "child", parent |-> "main", metadata |-> TRUE]
MCHandshakes == {Bare, Sub}

MCInputs == {
    <<Item("tools", "", TRUE), Item("instructions", "", TRUE), Item("developer", "", FALSE)>>,
    <<Item("output", "c", TRUE), Item("prompt", "", FALSE), Item("agent", "", FALSE)>>}
MCOutputs == {Item("call", "c", FALSE), Item("call", "", FALSE), Item("message", "", FALSE)}
MCUnsaids == {{}, {"metadata", "ThreadID"}}
MCEndings == {[status |-> "completed", skew |-> 1, missing |-> {"CreatedAt"}],
              [status |-> "failed", skew |-> -3, missing |-> {"CompletedAt"}],
              [status |-> "completed", skew |-> -1, missing |-> {}]}
MCEnabled == {"turn", "prompt", "message", "tool_call", "tool_output", "transport", "error"}
=============================================================================

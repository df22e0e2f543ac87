----------------------------- MODULE MCPipeline -----------------------------
(* Pipeline with the shapes of answer the engine's handlers have: a command *)
(* that is ignored, a reject, an acceptance that rests, a cancellation.     *)
EXTENDS Pipeline

MCOutputs == {<< >>, <<"resp">>, <<"resp", "event">>, <<"event", "resp">>}

============================================================================

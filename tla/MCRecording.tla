---------------------------- MODULE MCRecording ----------------------------
(* Two attempts over a channel of two, which either subscriber can fall      *)
(* behind.  The agent of one makes two model calls; the first makes two tool *)
(* calls at once, which are answered out of order during the second, with an *)
(* answer to no announced call between them.  The other agent only ends.     *)
EXTENDS Recording

CONSTANTS a1, a2

MCAttempts == {a1, a2}

MCScript == (a1 :> <<[kind |-> "model_call_started", index |-> 1, model |-> "m"],
                     [kind |-> "reasoning_summary_delta", index |-> 1, text |-> "r"],
                     [kind |-> "tool_call", index |-> 1, call |-> "c"],
                     [kind |-> "tool_call", index |-> 1, call |-> "d"],
                     [kind |-> "model_call_completed", index |-> 1, model |-> "m", tokens |-> 3],
                     [kind |-> "model_call_started", index |-> 2, model |-> "m"],
                     [kind |-> "assistant_message", index |-> 2, text |-> "x"],
                     [kind |-> "tool_result", call |-> "d"],
                     [kind |-> "tool_result", call |-> "e"],
                     [kind |-> "tool_result", call |-> "c"],
                     [kind |-> "model_call_completed", index |-> 2, model |-> "m", tokens |-> 4],
                     [kind |-> "run_completed"]>>)
            @@ (a2 :> <<[kind |-> "run_completed"]>>)

MCResults == [a \in MCAttempts |-> [message |-> "y", model |-> "m", tokens |-> 7, tool_calls |-> 2]]
=============================================================================

----------------------------- MODULE Trajectory -----------------------------
(***************************************************************************)
(* AtifBuilder (crates/nanoeval/src/atif.rs): the projection of an agent's *)
(* events into the steps of a trajectory.  A text is a sequence of parts,  *)
(* the metrics of a model call are its tokens; ids, durations and formats  *)
(* are left out.                                                           *)
(***************************************************************************)
EXTENDS Integers, Sequences, SequencesExt, FiniteSetsExt, TLC

CONSTANT None    \* Option::None

EmptyTurn == [model |-> None, message |-> <<>>, reasoning |-> <<>>, calls |-> <<>>,
              observations |-> <<>>, tokens |-> None]

EmptyBuilder == [turns |-> <<>>, tool_turns |-> <<>>]

-----------------------------------------------------------------------------
(* AtifBuilder::apply *)

\* entry(index).or_default()
Turn(builder, index) ==
  IF index \in DOMAIN builder.turns THEN builder.turns[index] ELSE EmptyTurn

WithTurn(builder, index, turn) == [builder EXCEPT !.turns = (index :> turn) @@ @]

\* append_message: a separator goes between two texts that are not empty.
AppendMessage(parts, text) == IF text = "" THEN parts ELSE Append(parts, text)

Observe(builder, index, call) ==
  WithTurn(builder, index, [Turn(builder, index) EXCEPT !.observations = Append(@, call)])

\* Fault: a result goes to the turn in progress.
ObserveInLatestTurn(builder, event) ==
  Observe(builder, Max(DOMAIN builder.turns), event.call)

\* A result of a call that was never announced is dropped.
ObserveResult(builder, event) ==
  IF event.call \in DOMAIN builder.tool_turns
  THEN Observe(builder, builder.tool_turns[event.call], event.call)
  ELSE builder

ApplyEvent(builder, event) ==
  CASE event.kind = "model_call_started" ->
         WithTurn(builder, event.index, [Turn(builder, event.index) EXCEPT !.model = event.model])
    [] event.kind = "assistant_message" ->
         WithTurn(builder, event.index,
                  [Turn(builder, event.index) EXCEPT !.message = AppendMessage(@, event.text)])
    [] event.kind = "reasoning_summary_delta" ->
         WithTurn(builder, event.index,
                  [Turn(builder, event.index) EXCEPT !.reasoning = AppendMessage(@, event.text)])
    [] event.kind = "model_call_completed" ->
         WithTurn(builder, event.index,
                  [Turn(builder, event.index) EXCEPT !.model = event.model, !.tokens = event.tokens])
    [] event.kind = "tool_call" ->
         WithTurn([builder EXCEPT !.tool_turns = (event.call :> event.index) @@ @], event.index,
                  [Turn(builder, event.index) EXCEPT !.calls = Append(@, event.call)])
    [] event.kind = "tool_result" -> ObserveResult(builder, event)
    [] OTHER -> builder

-----------------------------------------------------------------------------
(* AtifBuilder::finish and finish_failure *)

UserStep == [source |-> "user", model |-> None, message |-> <<>>, reasoning |-> <<>>,
             calls |-> <<>>, observations |-> <<>>, tokens |-> None, terminal |-> FALSE]

AgentStep(turn, default) ==
  [source |-> "agent", model |-> IF turn.model = None THEN default ELSE turn.model,
   message |-> turn.message, reasoning |-> turn.reasoning, calls |-> turn.calls,
   observations |-> turn.observations, tokens |-> turn.tokens, terminal |-> FALSE]

\* The user's step, then the turns by the index of their model call.
Steps(builder, default) ==
  LET indices == SetToSortSeq(DOMAIN builder.turns, <)
  IN  <<UserStep>> \o [k \in DOMAIN indices |-> AgentStep(builder.turns[indices[k]], default)]

\* The last agent step carries the terminal payload and, if it said nothing,
\* the final message.
Terminated(steps, result) ==
  IF Len(steps) = 1 THEN steps
  ELSE [steps EXCEPT ![Len(steps)].terminal = TRUE,
                     ![Len(steps)].message = IF @ = <<>> THEN AppendMessage(@, result.message) ELSE @]

FinishTrajectory(builder, result) ==
  [steps |-> Terminated(Steps(builder, result.model), result),
   model |-> result.model,
   tokens |-> result.tokens,
   tool_calls |-> result.tool_calls]

\* The totals of an attempt that failed are those of the calls it completed.
FinishFailure(builder, default) ==
  LET indices == DOMAIN builder.turns
      named == {i \in indices : builder.turns[i].model # None}
  IN  [steps |-> Steps(builder, None),
       model |-> IF named = {} THEN default ELSE builder.turns[Min(named)].model,
       tokens |-> MapThenSumSet(LAMBDA i : builder.turns[i].tokens,
                                {i \in indices : builder.turns[i].tokens # None}),
       tool_calls |-> MapThenSumSet(LAMBDA i : Len(builder.turns[i].calls), indices)]

-----------------------------------------------------------------------------
(* What a trajectory of these events should hold, said without the fold.   *)

Calls(events) == SelectSeq(events, LAMBDA e : e.kind = "tool_call")

IndicesOf(events) == {e.index : e \in {f \in ToSet(events) : "index" \in DOMAIN f}}

CallsOf(events, index) ==
  LET calls == SelectSeq(Calls(events), LAMBDA e : e.index = index)
  IN  [k \in DOMAIN calls |-> calls[k].call]

ResultsOf(events, index) ==
  LET results == SelectSeq(events, LAMBDA e : e.kind = "tool_result" /\ e.call \in ToSet(CallsOf(events, index)))
  IN  [k \in DOMAIN results |-> results[k].call]

TextsOf(events, index) ==
  LET texts == SelectSeq(events, LAMBDA e : e.kind = "assistant_message" /\ e.index = index)
  IN  [k \in DOMAIN texts |-> texts[k].text]

\* Each step of the trajectory is one model call: the calls it made, in order,
\* and the results of exactly these calls, whenever they arrived.
StepsMatch(trajectory, events) ==
  LET indices == SetToSortSeq(IndicesOf(events), <)
      step(k) == trajectory.steps[k + 1]
  IN  /\ Len(trajectory.steps) = Len(indices) + 1
      /\ \A k \in DOMAIN indices :
           /\ step(k).calls = CallsOf(events, indices[k])
           /\ step(k).observations = ResultsOf(events, indices[k])
           /\ IsPrefix(TextsOf(events, indices[k]), step(k).message)

\* Exactly the last step of a trajectory that succeeded is terminal.
TerminalMatches(trajectory, succeeded) ==
  \A k \in DOMAIN trajectory.steps :
    trajectory.steps[k].terminal <=> succeeded /\ k = Len(trajectory.steps) /\ k > 1

\* An attempt that failed is charged for what its completed calls used.
TotalsMatch(trajectory, events) ==
  LET completions == SelectSeq(events, LAMBDA e : e.kind = "model_call_completed" /\ e.tokens # None)
  IN  /\ trajectory.tokens = FoldSeq(LAMBDA e, sum : e.tokens + sum, 0, completions)
      /\ trajectory.tool_calls = Len(Calls(events))
=============================================================================

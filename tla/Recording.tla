------------------------------ MODULE Recording ------------------------------
(***************************************************************************)
(* The event journal of one evaluation and its two subscribers: attempts   *)
(* emit into a bounded broadcast channel (crates/nanoeval/src/evaluator.rs *)
(* and event.rs), the Harbor recorder writes what it receives              *)
(* (crates/nanoeval-harbor/src/lib.rs) and projects into trajectories,     *)
(* report_progress counts outcomes and Eval::run joins both                *)
(* (bin/nanoeval/src/eval.rs).                                             *)
(***************************************************************************)
EXTENDS Trajectory, FiniteSets

CONSTANTS
  Attempts,        \* the attempts of the sweep
  Capacity,        \* EVENT_CAPACITY of the broadcast channel
  Expected,        \* the argument of finish_all and of report_progress
  Script,          \* the events the agent of each attempt emits, the last one terminal
  Results          \* AgentResult of each attempt whose agent succeeds

ASSUME RecordingAssumption ==
  /\ IsFiniteSet(Attempts)
  /\ Capacity \in Nat \ {0}
  /\ Expected \in Nat
  /\ \A a \in Attempts : Len(Script[a]) \in Nat \ {0}

Subscribers == {"recorder", "progress"}

VARIABLES
  stage,        \* where run_task stands for each attempt
  sequence,     \* AttemptEmitter::sequence
  ring,         \* the latest events, at most Capacity, oldest first
  unread,       \* events each subscriber has yet to receive, Capacity + 1 when
                \* it has missed some (how many is left out)
  open,         \* the recorder's attempts map: started, no terminal event
  built,        \* the AtifBuilder of each attempt in open
  trial,        \* the recorded trial of each attempt: its trajectory, or None
  recorder,     \* what the recorder's task is doing or returned
  finish,       \* the oneshot of finish_all: unsent, sent, taken
  outcomes,     \* Progress::outcomes
  progress,     \* what the progress task is doing or returned
  main          \* where Eval::run stands

attemptVars == <<stage, sequence>>
recorderVars == <<open, built, trial, recorder>>
progressVars == <<outcomes, progress>>
vars == <<attemptVars, ring, unread, recorderVars, finish, progressVars, main>>

Init ==
  /\ stage = [a \in Attempts |-> "queued"]
  /\ sequence = [a \in Attempts |-> 0]
  /\ ring = <<>>
  /\ unread = [s \in Subscribers |-> 0]
  /\ open = {}
  /\ built = [a \in Attempts |-> EmptyBuilder]
  /\ trial = [a \in Attempts |-> None]
  /\ recorder = "recording"
  /\ finish = "unsent"
  /\ outcomes = {}
  /\ progress = "counting"
  /\ main = "sweeping"

-----------------------------------------------------------------------------
(* tokio::sync::broadcast: a send never waits; a receiver that is more     *)
(* than Capacity behind is told how much it missed.                        *)

\* A task that has returned has dropped its receiver.
Subscribed(s) == IF s = "recorder" THEN recorder = "recording" ELSE progress = "counting"

Send(event) ==
  LET sent == Append(ring, event)
  IN  /\ ring' = IF Len(sent) > Capacity THEN Tail(sent) ELSE sent
      /\ unread' = [s \in Subscribers |->
                      IF Subscribed(s) /\ unread[s] <= Capacity THEN unread[s] + 1
                                                                ELSE unread[s]]

Lagging(s) == unread[s] > Capacity

Received(s) == ring[Len(ring) - unread[s] + 1]

\* recv returns this event to s.
Receive(s, event) ==
  /\ unread[s] > 0
  /\ ~Lagging(s)
  /\ event = Received(s)
  /\ unread' = [unread EXCEPT ![s] = @ - 1]
  /\ UNCHANGED ring

-----------------------------------------------------------------------------
(* run_task and run_task_inner.  Attempts run on their own threads while   *)
(* Eval::run awaits the sweep.                                             *)

\* What an agent's event holds is Script[attempt][sequence - 1].
Emit(a, kind, next) ==
  /\ sequence' = [sequence EXCEPT ![a] = @ + 1]
  /\ Send([attempt |-> a, kind |-> kind, sequence |-> sequence'[a]])
  /\ stage' = [stage EXCEPT ![a] = next]
  /\ UNCHANGED <<recorderVars, finish, progressVars, main>>

Prepare(a) ==
  /\ stage[a] = "queued" /\ main = "sweeping"
  /\ Emit(a, "started", "agent")

AgentEvent(a) ==
  /\ stage[a] = "agent"
  /\ sequence[a] <= Len(Script[a])
  /\ Emit(a, "agent", "agent")

\* The agent's terminal event has been emitted.
StartVerifier(a) ==
  /\ stage[a] = "agent"
  /\ sequence[a] > Len(Script[a])
  /\ Emit(a, "verifier", "verifying")

FinishVerifier(a) ==
  \/ stage[a] = "verifying" /\ Emit(a, "verifier", "output")
  \/ stage[a] = "output" /\ Emit(a, "verifier", "verified")

Complete(a) ==
  /\ stage[a] = "verified"
  /\ Emit(a, "completed", "done")

\* Every early return of run_task_inner: a failed preparation (AttemptStarted
\* was never emitted), a failed or timed out agent, a failed verifier.
Fail(a) ==
  /\ \/ stage[a] = "queued" /\ main = "sweeping"
     \/ stage[a] \in {"agent", "verifying"}
  /\ Emit(a, "failed", "done")

-----------------------------------------------------------------------------
(* record, the recorder's task *)

\* Fault: the request to finish is taken at its word.
ReadyWhenAsked == finish = "taken"

\* The recorder's completed set
completed == {a \in Attempts : trial[a] # None}

\* finished_attempt_count, at the top of the loop.
ReadyToCommit == finish = "taken" /\ Cardinality(completed) = Expected

Selecting == recorder = "recording" /\ ~ReadyToCommit

DefaultModel == "default"

Started(event) ==
  LET a == event.attempt
  IN  /\ open' = open \union {a}
      /\ built' = [built EXCEPT ![a] = EmptyBuilder]
      /\ recorder' = IF a \in open THEN "duplicate" ELSE recorder
      /\ UNCHANGED trial

Missing(event) ==
  /\ event.attempt \notin open
  /\ recorder' = "missing"
  /\ UNCHANGED <<open, built, trial>>

AgentRecorded(event) ==
  LET a == event.attempt
  IN  /\ a \in open
      /\ built' = [built EXCEPT ![a] = ApplyEvent(@, Script[a][event.sequence - 1])]
      /\ UNCHANGED <<open, trial, recorder>>

TrialRecorded(event) ==
  LET a == event.attempt
  IN  /\ a \in open
      /\ open' = open \ {a}
      /\ built' = [built EXCEPT ![a] = EmptyBuilder]
      /\ trial' = [trial EXCEPT ![a] = FinishTrajectory(built[a], Results[a])]
      /\ UNCHANGED recorder

\* Fault: a failure is not counted.
FailureIgnored(event) ==
  /\ open' = open \ {event.attempt}
  /\ built' = [built EXCEPT ![event.attempt] = EmptyBuilder]
  /\ UNCHANGED <<trial, recorder>>

\* An attempt that failed before it started has an empty builder.
FailureRecorded(event) ==
  LET a == event.attempt
  IN  /\ open' = open \ {a}
      /\ built' = [built EXCEPT ![a] = EmptyBuilder]
      /\ trial' = [trial EXCEPT ![a] = FinishFailure(built[a], DefaultModel)]
      /\ UNCHANGED recorder

\* The state the recorder moves to with one event; lookups that fail end it.
Apply(event) ==
  \/ event.kind = "started" /\ Started(event)
  \/ event.kind = "agent" /\ (AgentRecorded(event) \/ Missing(event))
  \/ event.kind = "completed" /\ (TrialRecorded(event) \/ Missing(event))
  \/ event.kind = "failed" /\ FailureRecorded(event)
  \/ event.kind = "verifier" /\ UNCHANGED <<open, built, trial, recorder>>

Record ==
  /\ Selecting
  /\ \E event \in {ring[i] : i \in DOMAIN ring} :
       /\ Receive("recorder", event)
       /\ Apply(event)
  /\ UNCHANGED <<attemptVars, finish, progressVars, main>>

\* EvalEventStreamError::Lagged, or a write that fails: the task returns and
\* drops its end of the oneshot.
RecorderError ==
  /\ Selecting
  /\ \/ Lagging("recorder") /\ recorder' = "lagged"
     \/ unread["recorder"] > 0 /\ ~Lagging("recorder") /\ recorder' = "io"
  /\ UNCHANGED <<attemptVars, ring, unread, open, built, trial, finish, progressVars, main>>

TakeFinish ==
  /\ Selecting
  /\ finish = "sent"
  /\ finish' = "taken"
  /\ UNCHANGED <<attemptVars, ring, unread, recorderVars, progressVars, main>>

\* write_job with the final count
Commit ==
  /\ recorder = "recording" /\ ReadyToCommit
  /\ recorder' = "finished"
  /\ UNCHANGED <<attemptVars, ring, unread, open, built, trial, finish, progressVars, main>>

-----------------------------------------------------------------------------
(* report_progress *)

Count ==
  /\ progress = "counting"
  /\ \/ /\ Cardinality(outcomes) >= Expected
        /\ progress' = "counted"
        /\ UNCHANGED <<ring, unread, outcomes>>
     \/ /\ Cardinality(outcomes) < Expected
        /\ Lagging("progress")
        /\ progress' = "lagged"
        /\ UNCHANGED <<ring, unread, outcomes>>
     \/ /\ Cardinality(outcomes) < Expected
        /\ \E event \in {ring[i] : i \in DOMAIN ring} :
             /\ Receive("progress", event)
             /\ outcomes' = IF event.kind \in {"completed", "failed"}
                            THEN outcomes \union {event.attempt} ELSE outcomes
        /\ UNCHANGED progress
  /\ UNCHANGED <<attemptVars, recorderVars, finish, main>>

-----------------------------------------------------------------------------
(* Eval::run and finish_evaluation *)

\* The sweep returns: every attempt has ended, or it failed before it started
\* one (bind_run or completed_attempt could not read the job directory).
SweepReturns ==
  /\ main = "sweeping"
  /\ \/ \A a \in Attempts : stage[a] = "done"
     \/ \A a \in Attempts : stage[a] = "queued"
  /\ main' = "finishing"
  /\ UNCHANGED <<attemptVars, ring, unread, recorderVars, finish, progressVars>>

\* finish_all: the send fails when the recorder's task is gone.
FinishAll ==
  /\ main = "finishing"
  /\ IF recorder = "recording"
     THEN finish' = "sent" /\ main' = "recorder"
     ELSE main' = "error" /\ UNCHANGED finish
  /\ UNCHANGED <<attemptVars, ring, unread, recorderVars, progressVars>>

\* Fault: the progress task is not joined.
JoinRecorder ==
  /\ main = "recorder"
  /\ recorder # "recording"
  /\ main' = IF recorder = "finished" THEN "reported" ELSE "error"
  /\ UNCHANGED <<attemptVars, ring, unread, recorderVars, finish, progressVars>>

Join ==
  /\ \/ /\ main = "recorder"
        /\ recorder # "recording"
        /\ main' = IF recorder = "finished" THEN "progress" ELSE "error"
     \/ /\ main = "progress"
        /\ progress # "counting"
        /\ main' = IF progress = "counted" THEN "reported" ELSE "error"
  /\ UNCHANGED <<attemptVars, ring, unread, recorderVars, finish, progressVars>>

-----------------------------------------------------------------------------
AttemptStep(a) ==
  \/ Prepare(a)
  \/ AgentEvent(a)
  \/ StartVerifier(a)
  \/ FinishVerifier(a)
  \/ Complete(a)
  \/ Fail(a)

RecorderStep == Record \/ RecorderError \/ TakeFinish \/ Commit

Next ==
  \/ \E a \in Attempts : AttemptStep(a)
  \/ RecorderStep
  \/ Count
  \/ SweepReturns \/ FinishAll \/ Join

Spec == Init /\ [][Next]_vars

\* Attempts end because their phases run under timeouts; the three tasks are
\* polled by the runtime.
FairSpec ==
  /\ Spec
  /\ \A a \in Attempts : WF_vars(AttemptStep(a))
  /\ WF_vars(RecorderStep)
  /\ WF_vars(Count)
  /\ WF_vars(SweepReturns) /\ WF_vars(FinishAll) /\ WF_vars(Join)

-----------------------------------------------------------------------------
\* The events an attempt's agent has emitted when it has ended.
AgentEvents(a) == SubSeq(Script[a], 1, Min({Len(Script[a]), sequence[a] - 2}))

\* The trial of an attempt holds the whole of what its agent did until it ended,
\* whatever the recorder had missed and whichever phase failed: a step for each
\* model call with its calls and exactly their results, a terminal step if it
\* completed, and the usage of the completed calls if it failed
\* (atif.rs:208-413, nanoeval-harbor/src/lib.rs:238-303).
TrajectoriesMatchEvents ==
  \A a \in completed :
    LET succeeded == sequence[a] = Len(Script[a]) + 5
    IN  /\ stage[a] = "done"
        /\ StepsMatch(trial[a], AgentEvents(a))
        /\ TerminalMatches(trial[a], succeeded)
        /\ succeeded \/ TotalsMatch(trial[a], AgentEvents(a))

\* "Waits until every supplied result's terminal event has been recorded"
\* (nanoeval-harbor/src/lib.rs:124): a committed job holds every attempt.
CommitMeansAllRecorded ==
  recorder = "finished" => completed = Attempts

\* A run that reports its outcomes has recorded and counted every attempt; a
\* subscriber that fell behind or failed turns the run into an error.
ReportIsComplete ==
  main = "reported" => completed = Attempts /\ outcomes = Attempts

\* finish_all returns once every expected attempt has ended, whatever the
\* order in which the recorder meets the request and the last events.
FinishReturns ==
  (main = "finishing" /\ \A a \in Attempts : stage[a] = "done")
    ~> (main \in {"reported", "error"})

=============================================================================

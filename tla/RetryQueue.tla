------------------------------ MODULE RetryQueue ------------------------------
(***************************************************************************)
(* The history of jobs and the queue of `nanoeval run --rerun`             *)
(* (bin/nanoeval/src/eval.rs): where a rerun starts from, which tasks of   *)
(* that job's lineage it selects, whose settings it inherits, and how an   *)
(* interrupted one is taken up again.  How a job's files are committed is  *)
(* the subject of DurableJob.                                              *)
(***************************************************************************)
EXTENDS Integers, FiniteSets, Sequences, FiniteSetsExt

CONSTANTS
  Terminals,     \* where commands are given
  Tasks,
  Commands,      \* [rerun, from, tasks, trials, include, thinking, new]
  Outcomes,      \* how a trial may end, of Statuses
  Policies,      \* values of --thinking
  MaxCommands,   \* bound: commands given
  OldJobs,       \* the jobs there are at first
  OldLastRun,    \* what .nanoeval/last-run.json names at first, or None
  None

\* In the order of RetainedTrialStatus::merge.
Statuses == <<"passed", "failed", "refused", "errored">>

Invocations == [thinking : Policies, from : Nat \union {None}]
Results == [n : Nat, seen : SUBSET {Statuses[i] : i \in DOMAIN Statuses}]
IsJob(x) ==
  /\ x = [tasks |-> x.tasks, trials |-> x.trials, invocation |-> x.invocation,
          attached |-> x.attached, done |-> x.done]
  /\ x.tasks \subseteq Tasks /\ x.trials \in Nat /\ x.attached \in BOOLEAN
  /\ x.invocation \in Invocations \union {None}
  /\ x.done \in [x.tasks -> Results]
  /\ \A t \in x.tasks : x.done[t].n <= x.trials

\* The jobs that earlier commands have left: each has its invocation.json before
\* its result.json, its source had a result.json, and their lineages end.
SoundHistory(history, last) ==
  /\ history \in Seq({history[j] : j \in DOMAIN history})
  /\ \A j \in DOMAIN history :
       /\ IsJob(history[j])
       /\ history[j].attached => history[j].invocation # None
       /\ history[j].invocation \in {None} \union [thinking : Policies, from : {None} \union
             {k \in DOMAIN history : history[k].attached}]
  /\ \E rank \in [DOMAIN history -> DOMAIN history] :
       \A j \in DOMAIN history :
         history[j].invocation # None /\ history[j].invocation.from # None =>
           rank[history[j].invocation.from] < rank[j]
  /\ last \in DOMAIN history \union {None}

ASSUME QueueAssumption ==
  /\ Policies \subseteq Nat /\ Policies # {}
  /\ None \notin Nat \union Invocations
  /\ Outcomes \subseteq {Statuses[i] : i \in DOMAIN Statuses}
  /\ Commands \subseteq
       [rerun : BOOLEAN, from : Nat \union {None}, tasks : SUBSET Tasks, trials : Nat,
        include : SUBSET {Statuses[i] : i \in DOMAIN Statuses},
        thinking : Policies \union {None}, new : BOOLEAN]
  /\ SoundHistory(OldJobs, OldLastRun)

VARIABLES
  jobs,      \* jobs in the order they were started
  lastRun,   \* .nanoeval/last-run.json
  cmd,       \* the command of a terminal, and whether nothing ran beside it
  given,     \* how many commands have been given
  previous   \* the last command and its job, if it was interrupted once it had
             \* persisted and nothing else ran

queueVars == <<jobs, lastRun, cmd, given, previous>>

Quiet == [step |-> "idle", args |-> None, tasks |-> {}, invocation |-> None, job |-> None,
          alone |-> FALSE]
NoCommand == [args |-> None, job |-> None]

QueueInit ==
  /\ jobs = OldJobs
  /\ lastRun = OldLastRun
  /\ cmd = [p \in Terminals |-> Quiet]
  /\ given = 0
  /\ previous = NoCommand

Jobs == DOMAIN jobs
Goto(p, s) == cmd' = [cmd EXCEPT ![p].step = s]
End(p) == cmd' = [cmd EXCEPT ![p] = Quiet]

-----------------------------------------------------------------------------
(* What a job's directory says *)

Done(x) == MapThenSumSet(LAMBDA t : x.done[t].n, x.tasks)
IsComplete(j) == Done(jobs[j]) = Cardinality(jobs[j].tasks) * jobs[j].trials

\* A task's best status in one job.
Merged(seen) == Statuses[Min({i \in DOMAIN Statuses : Statuses[i] \in seen})]
HasResult(j, t) == t \in jobs[j].tasks /\ jobs[j].done[t].n > 0

ParentOf(j) == IF jobs[j].invocation = None THEN None ELSE jobs[j].invocation.from
\* retained_retry_lineage: the job, what it reran, and so on.
Lineage(j) ==
  LET up[n \in 0 .. Len(jobs)] ==
        IF n = 0 THEN j ELSE IF up[n - 1] = None THEN None ELSE ParentOf(up[n - 1])
  IN up
IsCycle(j) == Lineage(j)[Len(jobs)] # None

\* Fault: a job's own results stand for its lineage.
StatusAlone(j, t) ==
  LET up == Lineage(j)
      own == \E u \in Tasks : HasResult(j, u)
      at == {n \in DOMAIN up : up[n] # None /\ HasResult(up[n], t) /\ (own => n = 0)}
  IN IF at = {} THEN None ELSE Merged(jobs[up[Min(at)]].done[t].seen)

\* The job nearest in the lineage that has a result decides.
Status(j, t) ==
  LET up == Lineage(j)
      at == {n \in DOMAIN up : up[n] # None /\ HasResult(up[n], t)}
  IN IF at = {} THEN None ELSE Merged(jobs[up[Min(at)]].done[t].seen)

Queue(j, include) == {t \in Tasks : Status(j, t) \in {"failed"} \union include}

-----------------------------------------------------------------------------
(* resolve_rerun_source, latest_completed_job, resolve_run *)

\* Fault: last-run.json is not looked at.
NewestJob == Max({j \in Jobs : jobs[j].attached} \union {0})

\* The job last finished; else the newest that has a result.json.
LatestCompleted ==
  IF lastRun # None /\ jobs[lastRun].attached
  THEN lastRun
  ELSE Max({j \in Jobs : jobs[j].attached} \union {0})

SourceOf(a) == IF a.from # None THEN a.from ELSE LatestCompleted

\* The flag, else what the source job kept, else the default.
Inherited(flag, source) ==
  IF flag # None THEN flag
  ELSE IF source # None /\ jobs[source].invocation # None
  THEN jobs[source].invocation.thinking
  ELSE Min(Policies)

Give(p, a) ==
  /\ cmd[p].step = "idle" /\ given < MaxCommands
  /\ given' = given + 1
  /\ cmd' = [q \in Terminals |->
       IF q = p
       THEN [Quiet EXCEPT !.step = "resolve", !.args = a,
                          !.alone = \A r \in Terminals : cmd[r].step = "idle"]
       ELSE [cmd[q] EXCEPT !.alone = FALSE]]
  /\ UNCHANGED <<jobs, lastRun, previous>>

Selected(a, source) == Queue(source, a.include) \intersect a.tasks

\* The source must exist and have a result.json, and something be left in its queue.
CanRerun(a) ==
  /\ SourceOf(a) \in Jobs
  /\ jobs[SourceOf(a)].attached
  /\ ~IsCycle(SourceOf(a))
  /\ Selected(a, SourceOf(a)) # {}

Resolve(p) ==
  LET a == cmd[p].args
      source == IF a.rerun THEN SourceOf(a) ELSE None
  IN /\ cmd[p].step = "resolve"
     /\ a.rerun => CanRerun(a)
     /\ cmd' = [cmd EXCEPT ![p].step = "bind",
                  ![p].tasks = IF a.rerun THEN Selected(a, source) ELSE a.tasks,
                  ![p].invocation = [thinking |-> Inherited(a.thinking, source), from |-> source]]
     /\ UNCHANGED <<jobs, lastRun, given, previous>>

NothingToRerun(p) ==
  /\ cmd[p].step = "resolve" /\ cmd[p].args.rerun
  /\ ~CanRerun(cmd[p].args)
  /\ End(p)
  /\ previous' = NoCommand
  /\ UNCHANGED <<jobs, lastRun, given>>

-----------------------------------------------------------------------------
(* EvalJob::resume_or_create and create, persist_invocation, Harbor::new *)

Matching(p) ==
  {j \in Jobs : /\ jobs[j].tasks = cmd[p].tasks /\ jobs[j].trials = cmd[p].args.trials
                /\ ~IsComplete(j)}

NewJob(p) ==
  [tasks |-> cmd[p].tasks, trials |-> cmd[p].args.trials, invocation |-> None,
   attached |-> FALSE, done |-> [t \in cmd[p].tasks |-> [n |-> 0, seen |-> {}]]]

Create(p) ==
  /\ cmd[p].step = "bind"
  /\ cmd[p].args.new \/ Matching(p) = {}
  /\ jobs' = Append(jobs, NewJob(p))
  /\ cmd' = [cmd EXCEPT ![p].step = "persist", ![p].job = Len(jobs')]
  /\ previous' = NoCommand
  /\ UNCHANGED <<lastRun, given>>

Resume(p) ==
  /\ cmd[p].step = "bind" /\ ~cmd[p].args.new /\ Matching(p) # {}
  /\ LET j == Max(Matching(p)) IN
       /\ \A q \in Terminals : cmd[q].job # j
       /\ cmd' = [cmd EXCEPT ![p].step = "persist", ![p].job = j]
  /\ previous' = NoCommand
  /\ UNCHANGED <<jobs, lastRun, given>>

\* Another command holds the job's lease.
RunActive(p) ==
  /\ cmd[p].step = "bind" /\ ~cmd[p].args.new /\ Matching(p) # {}
  /\ \E q \in Terminals : cmd[q].job = Max(Matching(p))
  /\ End(p)
  /\ previous' = NoCommand
  /\ UNCHANGED <<jobs, lastRun, given>>

\* Fault: what the job was started with is replaced.
AnyWorkload(p) == cmd[p].job # None
SameWorkload(p) ==
  jobs[cmd[p].job].invocation \in {None, cmd[p].invocation}

Persist(p) ==
  /\ cmd[p].step = "persist" /\ SameWorkload(p)
  /\ jobs' = [jobs EXCEPT ![cmd[p].job].invocation = cmd[p].invocation]
  /\ Goto(p, "attach")
  /\ UNCHANGED <<lastRun, given, previous>>

Conflict(p) ==
  /\ cmd[p].step = "persist" /\ ~SameWorkload(p)
  /\ End(p)
  /\ previous' = NoCommand
  /\ UNCHANGED <<jobs, lastRun, given>>

\* Harbor writes a first result.json before anything has run.
Attach(p) ==
  /\ cmd[p].step = "attach"
  /\ jobs' = [jobs EXCEPT ![cmd[p].job].attached = TRUE]
  /\ Goto(p, "run")
  /\ UNCHANGED <<lastRun, given, previous>>

-----------------------------------------------------------------------------
(* The sweep *)

RunTrial(p, t, s) ==
  LET j == cmd[p].job IN
  /\ cmd[p].step = "run"
  /\ t \in jobs[j].tasks /\ jobs[j].done[t].n < jobs[j].trials
  /\ jobs' = [jobs EXCEPT ![j].done[t] = [n |-> @.n + 1, seen |-> @.seen \union {s}]]
  /\ UNCHANGED <<lastRun, cmd, given, previous>>

\* record_last_run is what the command does last.
Finish(p) ==
  /\ cmd[p].step = "run" /\ IsComplete(cmd[p].job)
  /\ lastRun' = cmd[p].job
  /\ End(p)
  /\ previous' = NoCommand
  /\ UNCHANGED <<jobs, given>>

Interrupt(p) ==
  /\ cmd[p].step # "idle"
  /\ previous' = IF cmd[p].step \in {"attach", "run"} /\ cmd[p].alone
                 THEN [args |-> cmd[p].args, job |-> cmd[p].job]
                 ELSE NoCommand
  /\ End(p)
  /\ UNCHANGED <<jobs, lastRun, given>>

-----------------------------------------------------------------------------
Act(p) ==
  \/ \E a \in Commands : Give(p, a)
  \/ Resolve(p)
  \/ NothingToRerun(p)
  \/ Create(p)
  \/ Resume(p)
  \/ RunActive(p)
  \/ Persist(p)
  \/ Conflict(p)
  \/ Attach(p)
  \/ \E t \in Tasks, s \in Outcomes : RunTrial(p, t, s)
  \/ Finish(p)
  \/ Interrupt(p)

AllIdle == given = MaxCommands /\ \A p \in Terminals : cmd[p].step = "idle"

QueueNext == (\E p \in Terminals : Act(p)) \/ (AllIdle /\ UNCHANGED queueVars)

QueueSpec == QueueInit /\ [][QueueNext]_queueVars

-----------------------------------------------------------------------------
QueueTypeOK ==
  /\ \A j \in Jobs :
       /\ jobs[j].tasks \subseteq Tasks /\ jobs[j].attached \in BOOLEAN
       /\ jobs[j].invocation \in [thinking : Policies, from : Jobs \union {None}] \union {None}
       /\ \A t \in jobs[j].tasks : jobs[j].done[t].n \in 0 .. jobs[j].trials
  /\ lastRun \in Jobs \union {None}
  /\ \A p \in Terminals : cmd[p].job \in Jobs \union {None}

\* README.md:365-367: "each child result replaces that task's prior status, while
\* unselected failures remain in the effective queue".  A task's status changes
\* only where a result of that very task is recorded in the lineage, through
\* every retry, resumption and interruption.
RetriesHideNothing ==
  [][jobs' # jobs => \A j \in Jobs, t \in Tasks :
       (jobs[j].attached /\ Status(j, t)' # Status(j, t)) =>
         \E k \in {Lineage(j)[n] : n \in DOMAIN Lineage(j)} \ {None} :
           t \in jobs[k].tasks /\ jobs[k].done[t] # jobs'[k].done[t]]_queueVars

\* A lineage never closes on itself, though a rerun takes up any incomplete job
\* of its tasks, that of a command killed before it had persisted its source too.
LineagesEnd == \A j \in Jobs : ~IsCycle(j)

\* README.md:362-364: an interrupted retry "uses the ordinary durable-resume path
\* when the same command is repeated": given again as the next command, while
\* nothing else runs, it finds a job that it may take up.
InterruptedRetryResumes ==
  [][\A p \in Terminals :
       (/\ cmd[p].step = "bind" /\ cmd'[p].job # None
        /\ cmd[p].args = previous.args /\ cmd[p].args.rerun /\ ~cmd[p].args.new
        /\ previous.job # None /\ ~IsComplete(previous.job))
       => /\ jobs' = jobs
          /\ jobs[cmd'[p].job].invocation \in {None, cmd[p].invocation}]_queueVars
=============================================================================

----------------------------- MODULE Comparison -----------------------------
(***************************************************************************)
(* `nanoeval compare` (bin/nanoeval/src/compare.rs): commands that load a  *)
(* retained job, query the published results of all its tasks at once and  *)
(* report the published runs that cover the job's exact tasks.             *)
(***************************************************************************)
EXTENDS PublishedResults

CONSTANTS
  Commands,
  Options,      \* of each command: refresh, task (or None), show (or None), limit
  LocalTrials,  \* the trials the retained job may hold
  Drill,        \* stands for the task of a query made for --show
  Local         \* the submission that stands for the job itself

\* A query per task of each command and one for its --show.
CommandQueries == Commands \X (Tasks \union {Drill})

ASSUME ComparisonAssumption ==
  /\ Queries = CommandQueries /\ Drill \notin Tasks
  /\ \A p \in Commands : Options[p].refresh \in BOOLEAN /\ Options[p].limit \in Nat
  /\ IsFiniteSet(LocalTrials) /\ \A trial \in LocalTrials : trial.task \in Tasks

VARIABLES
  stage,   \* idle, querying, drilling, comparing, reported, failed
  job,     \* the trials each command has loaded
  drilled, \* the local and the published trial chosen for --show
  report   \* its JobComparison

vars == <<queryVars, stage, job, drilled, report>>

NoReport == [revision |-> None, local |-> None, exact |-> <<>>, others |-> <<>>]

Init ==
  /\ QueriesInit
  /\ stage = [p \in Commands |-> "idle"]
  /\ job = [p \in Commands |-> {}]
  /\ drilled = [p \in Commands |-> <<>>]
  /\ report = [p \in Commands |-> NoReport]

TasksOf(trials) == {t.task : t \in trials}

ChecksumOf(trials, task) == (CHOOSE t \in trials : t.task = task).checksum

QueriesOf(p) == {<<p, t>> : t \in TasksOf(job[p])}

Move(p, next) == stage' = [stage EXCEPT ![p] = next]

\* The queries of a command that ends are dropped, done or not.
Release(p) ==
  /\ pc' = [q \in Queries |-> IF q[1] = p THEN "idle" ELSE pc[q]]
  /\ query' = [q \in Queries |-> IF q[1] = p THEN NoQuery ELSE query[q]]

\* The command returns an error; its JoinSet drops the queries that still run.
Bail(p) ==
  /\ Move(p, "failed")
  /\ Release(p)
  /\ UNCHANGED <<upstream, cacheVars, faults, job, drilled, report>>

-----------------------------------------------------------------------------
(* LocalJob::load and select_task *)

\* One checksum for each task, one agent, at least one trial.
IsLoadable(trials) ==
  /\ trials # {}
  /\ \A x, y \in trials : x.agent = y.agent /\ (x.task = y.task => x.checksum = y.checksum)

Selected(p, trials) ==
  IF Options[p].task = None THEN trials ELSE {t \in trials : t.task = Options[p].task}

\* The job may still be running: any of its trials may be there.
Load(p) ==
  /\ stage[p] = "idle"
  /\ \E trials \in SUBSET LocalTrials :
       LET chosen == Selected(p, trials)
       IN  IF IsLoadable(trials) /\ chosen # {}
              /\ (Options[p].show # None => Cardinality(TasksOf(chosen)) = 1)
           THEN /\ job' = [job EXCEPT ![p] = chosen]
                /\ Move(p, "querying")
                /\ query' = [q \in Queries |->
                               IF q[1] = p /\ q[2] \in TasksOf(chosen)
                               THEN Asked(q, q[2], Options[p].refresh) ELSE query[q]]
                /\ pc' = [q \in Queries |->
                            IF q[1] = p /\ q[2] \in TasksOf(chosen) THEN "index" ELSE pc[q]]
                /\ UNCHANGED <<upstream, cacheVars, faults, drilled, report>>
           ELSE Bail(p)

-----------------------------------------------------------------------------
(* run_job *)

\* The first query that fails ends the command.
JoinFailed(p) ==
  /\ stage[p] \in {"querying", "drilling"}
  /\ \E q \in Queries : q[1] = p /\ pc[q] = "failed"
  /\ Bail(p)

Matching(p) == {e.submission : e \in {f \in UNION {query[q].records : q \in QueriesOf(p)} :
                                        f.submission = Options[p].show}}

\* resolve_show_selector, and the query for its one submission.
JoinAll(p) ==
  /\ stage[p] = "querying"
  /\ \A q \in QueriesOf(p) : pc[q] = "done"
  /\ IF Options[p].show = None THEN
       Move(p, "comparing") /\ UNCHANGED <<queryVars, job, drilled, report>>
     ELSE IF Cardinality(Matching(p)) # 1 THEN Bail(p)
     ELSE LET task == CHOOSE t \in TasksOf(job[p]) : TRUE
              q == <<p, Drill>>
          IN  /\ Move(p, "drilling")
              /\ query' = [query EXCEPT ![q] = Asked(q, task, Options[p].refresh)]
              /\ Goto(q, "index")
              /\ UNCHANGED <<upstream, cacheVars, faults, job, drilled, report>>

\* LocalJob::select_attempt: a trial that did not pass, if there is one.
SelectAttempt(p) ==
  LET unpassed == {t \in job[p] : ~Passed(t)}
  IN  IF unpassed # {} THEN unpassed ELSE job[p]

\* TrajectoryComparison::new: without a passing attempt there is nothing to
\* show; a trajectory that cannot be fetched is reported as such.
DrillDown(p) ==
  LET q == <<p, Drill>>
      best == BestOf(query[q].records, ChecksumOf(job[p], query[q].task), Options[p].show)
  IN  /\ stage[p] = "drilling"
      /\ pc[q] = "done"
      /\ IF best = {} THEN Bail(p)
         ELSE /\ \E e \in best, t \in SelectAttempt(p) :
                   drilled' = [drilled EXCEPT ![p] = <<t, e>>]
              /\ Move(p, "comparing")
              /\ UNCHANGED <<queryVars, job, report>>

-----------------------------------------------------------------------------
(* JobComparison::new *)

\* PublishedRun::record and RunScore; k is the trials of each task, if they agree.
Score(submission, attempts) ==
  LET tasks == TasksOf(attempts)
      passes == {e \in attempts : Passed(e)}
      counts == {Cardinality({e \in attempts : e.task = t}) : t \in tasks}
  IN  [submission |-> submission, tasks |-> tasks, trials |-> Cardinality(attempts),
       k |-> IF Cardinality(counts) = 1 THEN counts ELSE {},
       passes |-> Cardinality(passes), pass_at_k |-> Cardinality(TasksOf(passes)),
       errors |-> Cardinality({e \in attempts : e.errored})]

\* sort_runs
Better(x, y) ==
  \/ x.pass_at_k > y.pass_at_k
  \/ x.pass_at_k = y.pass_at_k /\ x.passes > y.passes
  \/ x.pass_at_k = y.pass_at_k /\ x.passes = y.passes /\ x.errors < y.errors
  \/ /\ <<x.pass_at_k, x.passes, x.errors>> = <<y.pass_at_k, y.passes, y.errors>>
     /\ x.submission < y.submission

Sorted(runs) ==
  CHOOSE s \in [1 .. Cardinality(runs) -> runs] :
    \A i, j \in DOMAIN s : i < j => s[i] # s[j] /\ ~Better(s[j], s[i])

\* The first of them, Options.limit at most.
Top(limit, runs) ==
  LET shown == IF Cardinality(runs) < limit THEN Cardinality(runs) ELSE limit
  IN  [k \in 1 .. shown |-> Sorted(runs)[k]]

Attempts(p) == UNION {query[q].records : q \in QueriesOf(p)}

ExactRuns(p) ==
  LET exact == {e \in Attempts(p) : e.checksum = ChecksumOf(job[p], e.task)}
      by(s) == Score(s, {e \in exact : e.submission = s})
  IN  {run \in {by(e.submission) : e \in exact} : run.tasks = TasksOf(job[p])}

\* Other revisions of the task are listed when there is only one.
OtherRuns(p) ==
  LET others == {e \in Attempts(p) : e.checksum # ChecksumOf(job[p], e.task)}
  IN  IF Cardinality(TasksOf(job[p])) # 1 THEN {}
      ELSE {Score(e.submission, {f \in others : f.submission = e.submission /\ f.checksum = e.checksum}) :
              e \in others}

RevisionsOf(p) == {query[q].revision : q \in QueriesOf(p)}

\* Fault: the revision of the first answer stands for all.
AnyRevision(p) == TRUE

OneRevision(p) == Cardinality(RevisionsOf(p)) = 1

Compare(p) ==
  /\ stage[p] = "comparing"
  /\ IF OneRevision(p)
     THEN /\ report' = [report EXCEPT ![p] =
                          [revision |-> CHOOSE r \in RevisionsOf(p) : TRUE,
                           local |-> Score(Local, job[p]),
                           exact |-> Top(Options[p].limit, ExactRuns(p)),
                           others |-> Top(Options[p].limit, OtherRuns(p))]]
          /\ Move(p, "reported")
          /\ Release(p)
          /\ UNCHANGED <<upstream, cacheVars, faults, job, drilled>>
     ELSE Bail(p)

-----------------------------------------------------------------------------
CommandStep(p) == JoinFailed(p) \/ JoinAll(p) \/ DrillDown(p) \/ Compare(p)

Ask(q) == QueryStep(q) /\ UNCHANGED <<stage, job, drilled, report>>

Next ==
  \/ \E p \in Commands : Load(p) \/ CommandStep(p)
  \/ \E q \in Queries : Ask(q)
  \/ (GitClone \/ PublishRevision) /\ UNCHANGED <<stage, job, drilled, report>>

Spec == Init /\ [][Next]_vars

\* Commands and their queries are polled and git clone ends.  Nobody has to
\* compare, no submission has to be merged.
FairSpec ==
  /\ Spec
  /\ \A p \in Commands : WF_vars(CommandStep(p))
  /\ \A q \in Queries : WF_vars(Ask(q))
  /\ WF_vars(GitClone /\ UNCHANGED <<stage, job, drilled, report>>)

-----------------------------------------------------------------------------
\* A run in a report has attempts of each of the job's tasks at the job's
\* checksum, and counts none that the report's revision does not have.
ReportIsExact(p) ==
  \A k \in DOMAIN report[p].exact :
    LET run == report[p].exact[k]
        published == {e \in Archive[report[p].revision] :
                        /\ e.submission = run.submission
                        /\ e.task \in TasksOf(job[p])
                        /\ e.checksum = ChecksumOf(job[p], e.task)}
    IN  /\ run.tasks = TasksOf(job[p])
        /\ run.trials <= Cardinality(published)
        /\ run.passes <= Cardinality({e \in published : Passed(e)})

\* "compares only published runs that cover the complete exact task set"
\* (README.md:416): whatever other commands refresh meanwhile, a report stands
\* for the one revision it names.
ReportsAreOfOneRevision == \A p \in Commands : stage[p] = "reported" => ReportIsExact(p)

\* A results manifest is kept for ever: each result in it is one its revision
\* holds, also when the listing it was made from was that of another one (which
\* decides whether a trajectory is thought to be there).
ManifestsHoldTheirRevision ==
  \A r \in Revisions, t \in Tasks :
    results[r][t] # None =>
      \A result \in results[r][t] :
        \E e \in Archive[r] : e.task = t /\ e = [result EXCEPT !.trajectory = e.trajectory]

\* A comparison ends, with a report or an error, whatever the servers answer.
\* That they answer or the request fails is assumed: the client has no timeout
\* (nanoeval-harbor/src/published.rs:102, 461).
ComparisonsEnd ==
  \A p \in Commands : (stage[p] = "querying") ~> (stage[p] \in {"reported", "failed"})

\* "The first lookup creates a metadata-only Git index and downloads matching
\* published result blobs" and a job's lookup "queries all tasks concurrently"
\* (README.md:404, 416): a job that can be compared is, when nothing fails.
FirstLookupSucceeds ==
  \A p \in Commands : (stage[p] = "failed" /\ job[p] # {}) => faults > 0
=============================================================================

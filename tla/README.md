# Specifications of nanoeval

TLA+ models of nanoeval, the TLC configurations that check them on small
instances, and TLAPS proofs for every size. Paths below are relative to the
repository; definitions are translated from the source, and `PROJECT.json`
maps each of them to its lines.

## 1. Inventory: the system and its parts

`nanoeval run` evaluates an agent on tasks. One command builds a *sweep* (tasks
x agents x trials), opens or creates a *job* directory for it, runs the attempts
that have no durable result under admission control, and lets a recorder write
Harbor-compatible artifacts from the event journal the attempts emit. With
`--vm` each attempt works in a virtual machine reached over one console.

| part | source | state | operations | what makes it correct |
|---|---|---|---|---|
| Admission control | `crates/nanoeval/src/evaluator.rs` | permits in use, memory in use, waiters | `acquire`, drop of a permit | both limits hold, no lost wake-up, every waiter is served |
| Batch execution | `evaluator.rs` (`run_tasks`, `task`) | window of futures, results, first error | start, poll, collect, return | results in input order, one failure cancels nothing, it returns |
| Durable job | `crates/nanoeval/src/job.rs`, `sweep.rs` | `job.json`, `run.json`, `.nanoeval.lock`, trial directories | create, resume, lease, bind, scan | one writer, no attempt repeated or skipped, resumable after a crash |
| Harbor artifacts | `crates/nanoeval-harbor/src/lib.rs` | `result.json`, `lock.json` of the job and its trials | attach, write trial/failure/metadata/job | counts never exceed what is durable |
| Event journal | `evaluator.rs` (`AttemptEmitter`), `event.rs` | bounded broadcast channel | emit, receive, lag | nothing is skipped silently |
| Harbor recorder | `nanoeval-harbor/src/lib.rs` (`record`, `finish_all`) | open attempts, completed set, finish request | record, commit, fail | a commit holds every attempt, `finish_all` returns |
| Run command | `bin/nanoeval/src/eval.rs` | `last-run.json`, `invocation.json` | run, progress, finish, rerun | what is reported is complete |
| Guest session | `crates/nanocodex-vm/src/session.rs` | console in both directions, next id, mutex | request, control request, shutdown, cancellation | answers reach who asked, requests run once and in order |
| Retry queue | `eval.rs` | lineage of `invocation.json` files, `last-run.json` | choose a source, select, inherit, persist | the latest status of each task decides, a lineage ends, an interrupted retry resumes |
| Guest runtime, gvproxy | `eval.rs`, `vm_network.rs` | Cargo's binary, staged runtimes and their record | test for freshness, build, stage, record | no machine gets a runtime older than the sources (the code falls short, section 3) |
| Verifier cache | `eval.rs` (`VerifierCache`) | `cache.ext4` of a key, `.prepare.lock` | prepare once, publish, materialise | only populated disks are published, a ready one stays |
| VM attempt, VM verifier | `eval.rs` (`vm_attempt_inner`, `VmVerifier`) | root disks and cache clone of an attempt, its machine | set up, run the agent, verify, give back, remove | attempts start warm, no disk goes under a machine at work |
| Clean-up command | `bin/nanoeval/src/cleanup.rs` | disks of recorded trials | remove | active machines are left alone |
| VM image cache | `vm_image.rs` | references, layers, flattened and built disks, shell records | pull, flatten, build, inspect | records and keys say what is really in the cache |
| Trajectory builder | `crates/nanoeval/src/atif.rs` | turns, calls by turn | apply, finish | a trajectory tells what the events said |
| Egress lease | `crates/nanovm/src/egress.rs` | environment, mounts, guards | insert, merge | a fragment is merged whole or not at all |
| Browser VM | `crates/nanovm-browser/src/lib.rs`, `crates/nanovm/src/{gvproxy,process,krun}.rs` | directory, helper, port, configuration, VMM | spawn, poll, shutdown, drop | the endpoint is its own, nothing stays behind |
| Published results | `crates/nanoeval-harbor/src/published.rs` | Git index, manifests and artifacts by revision | clone, refresh, list, download, query | a manifest holds its revision's results |
| Compare command | `bin/nanoeval/src/compare.rs` | the retained job, the answers, the report | load, query all tasks, show, score | a report stands for one revision |
| Sweep order, scheduling, pass@k, checksums | `sweep.rs`, `eval.rs`, `nanoeval-harbor` | - | pure functions | not modelled |
| Inspection, task loading, CLI, telemetry, libkrun | the other files | - | I/O and parsing | not modelled |

How they interact: callers of `task`/`sweep` share one `AdmissionController`;
attempts send events that the recorder and the progress task receive at their
own pace; the recorder turns terminal events into files of the job directory;
the next command, possibly of another process and possibly overlapping, decides
from those files what is left to run, and a rerun chooses its tasks from the
whole lineage of jobs. Commands that run at the same time share the guest
runtime, the image cache and the verifier cache; comparisons share the index and
the manifests of the archive. Tools, verifier and shutdown of one VM attempt
share one guest session.

What is hard, and so what the properties are aimed at: the wake-up of waiting
callers; two limits under one check; futures of one window polled by one task;
a scan of a job directory that is stale when its lease is taken; crashes between
any two of the five files one result touches; subscribers that lag; a finish
request that races the last events; calls on the console dropped at any await;
attempts that publish to a cache without the lock under which others prepare it;
caches filled without any lock, from sources and tags that change meanwhile;
processes that outlive the step that started them, or die in front of it.
`PROJECT.json` lists each hazard at its line with the properties for it.

## 2. Modules

| module | models | used by |
|---|---|---|
| `WeightedSemaphore` | abstract: a set of holders within both limits | refined by `Admission` |
| `Admission` | `AdmissionController`, one action per step another thread can see | `RunTasks` |
| `RunTasks` | `run_tasks` composed with `Admission` and direct `task` callers | `MCRunTasks`, `SchedulingProofs` |
| `JobLedger` | abstract: jobs bound once, their attempts entered once, finished when complete | refined by `DurableJob` |
| `DurableJob` | processes, job directories, Harbor commits, crashes | `MCDurableJob`, `DurableJobProofs` |
| `Trajectory` | `AtifBuilder`: agent events to steps and final metrics | `Recording` |
| `Recording` | attempts' events, broadcast channel, recorder with its builders, progress, main task | `MCRecording`, `RecordingProofs` |
| `VmSession` | callers, console, guest loop, cancellation | `MCVmSession`, `VmSessionProofs` |
| `VerifierCache` | `prepare_once`, `mark_ready` and the file of one key, by several processes | `VmAttempt` |
| `VmAttempt` | attempts in virtual machines over that cache, recorder, clean-up, kills | `MCVmAttempt`, `VmAttemptProofs` |
| `RetryQueue` | jobs, lineages, sources and settings of reruns, interruptions | `MCRetryQueue`, `SchedulingProofs` |
| `GuestRuntime` | the guest's tool runtime and gvproxy, prepared by several commands | `ImageCache` |
| `ImageCache` | references, layers, disks and shell records, after `GuestRuntime` | `MCVmPreparation`, `ImageCacheProofs` |
| `EgressLease` | fragments of outbound access and their merge | `BrowserVm` |
| `BrowserVm` | browsers of one host: directories, helpers, ports, VMMs, leases | `MCBrowserVm`, `BrowserVmProofs` |
| `PublishedResults` | queries of the archive over a shared index and cache | `Comparison` |
| `Comparison` | `nanoeval compare` over concurrent queries | `MCComparison`, `ComparisonProofs` |
| `*Proofs` | theorems and their proofs about the module they extend and what that uses | - |
| `MC*` | constants of one instance each | the `.cfg` files |

Operators marked `Fault:` are wrong variants of the definition that follows
them. No specification uses them; each is what one property is there to catch,
and `PROJECT.json` names the pairs.

### 2.1 Admission

`pc[a]` follows one call of `acquire` and the life of its permit. `Arm` is
`changed.notified()`, which `acquire` calls before it takes the lock; `Admit`
and `Refuse` are the two outcomes of the critical section; `Sleep` is the first
poll of `changed.await`, after the lock is free; `Abandon` is a caller that
drops its future there. `Release` is the locked part of the permit's `Drop`, and
`NotifyWaiters` the call after it. Tokio's `Notify` is modelled by its contract:
`notify_waiters` completes every `Notified` future that exists, polled or not.
`running` and `memory_mb` are the counters of the code, `saturating_sub`
included (`Monus`); that it never saturates is a theorem, not a premise.
`WeightedSemaphore` sees only who holds a permit.

### 2.2 RunTasks

`buffer_unordered` keeps at most `Window` futures (`MAX * 4` in the code,
`WindowFactor` here) inside the one task that awaits `run_tasks`. `MayPoll`
expresses that: one future is polled at a time, and the window is filled first.
Direct callers interleave freely. `FinishTask` chooses the attempt's outcome,
`CollectResult` is one turn of the collecting loop, `Return` its end.

### 2.3 DurableJob

Files are variables: `identified` (`job.json`, in the order of `started_at`),
`run` (`run.json`, as the set of attempts it stands for), `results` (trial
directories with a `result.json`), `lock_json`, `job_result`, `last_run`. A
process goes through `Resume`/`Fresh`, `TakeLease`/`RunActive` or
`CreateDirectory` and `WriteIdentity`, `BindRun`, `Attach`, `StartSweep`, then
`RecordTrial`, `RecordLock`, `RecordJob` for each terminal event, `Finish` and
`RecordLastRun`. `Crash` is possible wherever a process may stop between two
renames; a failed write ends the command at the same point and leaves the same
files, so it is the same action.

Abstractions: `resume_or_create` reads a directory listing and some files; the
model takes them in one step and keeps the gap to the lease, which is where
others come between. A new directory and its lease are one step, because a scan
takes no directory without `job.json`. A failed attempt has a durable result
like any other (`write_failure`). `lease` is the advisory lock and goes with its
process. `Matches` says which trial directories the prefix of an attempt
matches; in the code that follows from the names.

`JobLedger` is what all this is for, as a user who repeats a command sees it: a
job is bound to a sweep once, each attempt of the sweep is entered once and stays
entered, and the job is finished when all are entered, which is never taken back.
`run`, `results` and the jobs whose `result.json` has a `finished_at` are its three
variables; `BindRun`, `RecordTrial` and the first `RecordJob` or `Finish` that
writes a `finished_at` are its steps, and everything else stutters.

### 2.4 Recording

`ring` is the broadcast channel; each subscriber has its own `unread` count, one
more than the capacity once it has missed something. `Emit` is
`AttemptEmitter::emit` with its sequence number; the stages are those of
`run_task_inner`, and `Fail` is each of its early returns. `Record` is one turn
of the recorder's `select!` on an event, `TakeFinish` on the finish request,
`RecorderError` a lag or a write that fails, `Commit` the check at the top of
the loop. `Count` is `report_progress`. `SweepReturns`, `FinishAll` and `Join`
are the end of `Eval::run`; the sweep may also fail before its first attempt,
when the job directory cannot be read.

### 2.5 VmSession

The console carries pieces of lines, `text` and `newline`, because a call is two
writes; `text` also stands for part of a text, as `write_all` may be dropped
half-way once the pipe is full. Taking the id is under the mutex. `Cancel` is a
future dropped at any await. `shutdown` gives the mutex up after its
acknowledgement (`relock`). `GuestServe` answers with success or an error; the
guest may also die, and writing to a guest that is gone may or may not fail.
The order in which the mutex serves its waiters is left open.

### 2.6 VerifierCache and VmAttempt

`target` is the file `cache.ext4` of one key: `ready` if uv is installed on the
disk, `unready` if it is a remnant, which only the initial state makes. `pc[p]`
follows `prepare_once`: `Look` and `Open` are the two halves of `is_ready`
(`is_file`, then reading the disk; a file that goes in between is an error),
`Lock` is `lock_exclusive`, `LookAgain` and `Clear` are under the lock,
`Populate` and `PopulateFails` are the ends of the disposable machine. `MarkReady`
links a copy to the final name unless that is taken; attempts call it without
the lock. A disk copied while a machine writes to it would be torn, so `MarkReady`
says what it would publish then.

`stage[a]` follows an attempt: root disks (`Begin`), `materialize`
(`LookForCache`, `OpenCache`, `CopyCache`, three looks at a file that others may
change), `Spawn`, the agent, the verifier in the same guest (`StageTests`) or in
one of its own (`CollectArtifacts`, `SpawnVerifier`), its script with retries,
`StopVm`, `FinishCache`, `Score`. `SetupFails` is an early return before there is
a `VmVerifier`, which owns the clone. Afterwards an error drops the verifier, and
`VmVerifier::drop` removes the clone before anything else of it goes: when the
agent fails or times out (`AgentFails`) the verifier's own session and the
agent's tools still hold the machine, which runs on without its clone until the
agent's driver has dropped the tools (`DropTools`). That is in the nanocodex
crate and nothing here joins it, so it has no fairness and the machine may
outlast even the attempt's result. `VerifierFails` is an error of `verify_inner`,
whose session goes before the clone, though with a shared guest the agent's tools
may again keep it. `Cleanup` is
`nanoeval cleanup` on one recorded trial. `CrashProcess` kills a command: its
lock and machines go, its files stay.

Abstractions: `VerifierCache::prepare` looks at the cache once more before
`prepare_once`, for a log field only. The preparation's own machine is part of
`Populate`. A key stands for all: keys share nothing. Whether a script's setup
can be omitted (`skip_setup`) and which tasks have an environment for their
verifier (`separate`) are chosen once, as they follow from the tasks. The reward
is read from the guest before it is shut down and chosen at `Score`, where it
first matters.

### 2.7 Trajectory

An event is a record with its kind, its model call and what that kind carries; a
text is a sequence of parts, tokens are one number. `ApplyEvent` is the match of
`apply` (a tool result goes to the turn that announced its call, an unannounced
one is dropped), `FinishTrajectory` and `FinishFailure` are the two ends, which
order the steps by model call and compute the metrics. `Recording` keeps a
builder per open attempt and commits what the builder makes of it.

### 2.8 RetryQueue

`jobs` is the history of jobs in order; each has its tasks, its number of
trials, its invocation (the source of the rerun and one inherited setting, the
thinking level, which stands for those that are inherited alike), whether
`attach` has written its `result.json`, and per task how many trials ended and
which statuses they had. `Give` is a command line, `Resolve` is
`resolve_rerun_source` and `resolve_run`, `Create`, `Resume` and `RunActive` are
the three ends of `resume_or_create`, `Persist` and `Conflict` those of
`persist_invocation`. `Status` walks the lineage. `Interrupt` kills a command in
any of its steps. The individual commits of a job's files are in `DurableJob`.
`previous` and `alone` are auxiliary: they remember whether the last command was
interrupted and nothing ran beside it.

### 2.9 GuestRuntime and ImageCache

`pc[p]` of a command goes through both. `source` is a version and `clock` the
file times; Cargo locks its target directory and leaves an output alone that is
what it would build. The binary is read (`ReadBinary`), staged under its digest
(`StageRuntime`), then asked for size and time (`ReadMeta`), which the record
keeps beside the digest (`WriteRuntimeRecord`): steps of their own, since another
command's Cargo may come between. `build_status` is the code's field of
that name: a command got its runtime by a record (`hit`), took Cargo's binary as
it was (`indexed`) or ran Cargo (`rebuilt`); it is a local of
`prepare_vm_guest_runtime` and forgotten once the command goes on. `Edit` is the developer.

`ImageCache` has one action per file that gets its name: `PullBlob`,
`WriteReference`, `Flatten`, `PublishBuild`, `NoteShell`; what is read before is
kept in `work[p]`. A manifest is its layers and the shells in them. A disk is the
shells it has, the manifests it was made of and a stamp for its time and length;
only `RUN` may make two builds of one key differ (`mirror`). `Reject` is a disk
without a shell or a stage that cannot boot, `Fail` an error from outside:
`prepare` counts it and goes on, an evaluation ends (`GiveUp`).

### 2.10 EgressLease and BrowserVm

`stage[b]` is where `spawn`, or the handle it returned, stands; each `?` of
`spawn` is the second disjunct of its step (`Abort`), and everything that exists
by then is dropped in the order of the fields: `DropVmm` (a kill nobody waits
for), `DropNetwork` (kill and reap), `DropFiles`. The VMM's own course,
`RunConfig`, `ReadConfig`, `NewKrunVm`, `EnterVm`, runs beside it and may find
files gone when its owner was faster. `ReservePort` reserves nothing; other
programs take ports in `ForeignBinds`. `Answers` accepts whoever answers on the
port. `Provision` merges fragments into the lease before `spawn`.

### 2.11 PublishedResults and Comparison

The archive is a sequence of revisions, each a set of results. A query is a
sequence of steps over the shared repository (`index`, `head`, `fetch_head`) and
the caches by revision. `GitClone` and `PublishRevision` are the git process and
the remote. `LoadTaskPaths` lists HEAD, but caches the listing under the revision
it read before. `Retry` counts to `DOWNLOAD_ATTEMPTS`. A file is known by its
path and the trajectory flag its listing gave it; `At` says what it holds at a
revision. A command of `Comparison` loads some of the job's trials, starts one
query per task, waits for all, asks again for `--show` and makes its report;
`Bail` is every error, which drops the queries that still run. Scores and their
order are the code's; pass@k's estimate is left to the counts it is made of.

## 3. Runs

| run | checks | instance |
|---|---|---|
| `run_tasks` | no lost wake-up, refinement of the semaphore, the batch drains in input order whatever fails, every request ends, `run_tasks` returns | 3 inputs through a window of 2, one larger than the ceiling, 2 direct callers, limit 2, ceiling 3 |
| `durable_job` | one result per attempt, results reachable, Harbor counts, final and last-run jobs, the job ledger implemented, bound jobs complete | 3 processes, 2 attempts, one process with a smaller sweep, 2 jobs, 2 crashes |
| `recording` | trajectories against events, commits and reports complete, `finish_all` returns | 2 attempts, one of two model calls with parallel tool calls answered out of order in the second and an answer to no call, channel of 2 |
| `vm_session` | order, no mismatch, shutdown last, calls return | 3 callers, 3 requests |
| `vm_attempt` | published disks populated, warm starts, omitted setup sound, a machine at work keeps its disks, tidy verdicts, everything ends | 2 commands with an attempt each, one failure or crash, one deletion, one retry |
| `vm_preparation` | who has run Cargo boots no older runtime than its sources, references complete, builds and shell records true, preparations end | an evaluation that reuses and a `prepare` that refreshes, a plain and a two-stage recipe, one edit at any time, binaries of one size, one event from outside, one repeated command |
| `retry_queue` | retries hide nothing, lineages end, an interrupted retry resumes | a completed job of 2 tasks, then 3 of 4 kinds of command at 2 terminals |
| `browser_vm` | endpoints, machines keep their host, leases whole, nothing left behind | 2 browsers, 2 ports others may take, 3 egress fragments of which two conflict, one process that dies |
| `comparison` | one revision per report, manifests hold theirs, comparisons end | 2 commands, one refreshing and showing a trajectory, 2 tasks, 2 revisions, 1 fault |

Violations: a run of this kind shows that the code does not do what the quoted
line says.

| run | property | what happens |
|---|---|---|
| `same_prefix` | `BoundJobsComplete` | tasks `a/x` and `b/x` share the prefix `x__...`; after an interruption the one without a result is skipped for ever (README.md:309) |
| `retry_resume` | `InterruptedRetryResumes` | without a usable `last-run.json` the source of a rerun is the newest job with a `result.json`: the interrupted rerun itself. The repeated command is refused (README.md:362) |
| `first_lookup` | `FirstLookupSucceeds` | the queries of a two-task job find no index and clone it into one directory; all but one fail, and the comparison with them (README.md:404, 416) |


Other disagreements between the text and the code that the models have, without
a run of their own:

* four large inputs fill the window and a smaller one behind them that fits
  waits (evaluator.rs:356; README.md:290: "the next candidate that fits starts
  immediately");
* after a crash between a trial's `result.json` and the job's, the resumed
  session's counts never reach the total, so `finish_all` commits a job result
  without `finished_at` (nanoeval-harbor/src/lib.rs:585, and 124);
* `collect_completed_job` takes an interrupted job for completed, as `attach`
  writes its `result.json` (eval.rs:849; README.md:326);
* a recorder that sees fewer attempts than expected waits for ever instead of
  reporting a mismatch (nanoeval-harbor/src/lib.rs:207, and 150);
* a call dropped between the two writes of its line makes the guest reject the
  next request (session.rs:449; the test at 906);
* a machine may boot an outdated tool runtime, of which README.md:119 says that
  each attempt "mounts the current runtime". An edit made while Cargo reads the
  sources is older than the binary that lacks it, and the next command takes that
  binary for fresh (eval.rs:1862). And when the Cargo of another command replaces
  the binary by one of the same size after it was read (eval.rs:1783) and before
  it is asked for its size and time (eval.rs:1817), the record gives the new binary
  the old digest, and the next command that reads it boots the old runtime
  (eval.rs:1743). Both happen in `vm_preparation`: TLC finds the edit at once if
  `LaunchesCurrent` is asked of every command, and the swap if
  `EditsDuringBuild = FALSE` rules the edit out.

### Bounds and why they suffice

* RunTasks and Admission: five callers give every pair of reasons to wait (limit,
  memory, clamped request) and sleepers of both kinds at once; a caller asks once,
  since nothing of a finished call remains but the counters. A window of two over
  three inputs makes the stream outlast the window. The theorems lift the safety
  part of `Admission` to any number.
* DurableJob: `MaxJobs = 2` gives a matching and a foreign job; two crashes let a
  resumed session crash again, so baselines of three sessions meet;
  `MayCreate` keeps the bound from blocking a process half-way.
* Recording: a channel of two is overrun by the events of one attempt. The script
  of one agent has each kind of event the builder tells apart, with two calls of
  one turn whose results cross its boundary in the other order, around the result
  of a call that was never announced; the other attempt is there to interleave.
* VmSession: `MaxCalls = 3` lets one call be cancelled, one discard its answer
  and one follow. `next_id` does not wrap (2^64 requests).
* VmAttempt: two commands are one that holds the lock or publishes and one that
  looks, waits or removes; their attempts meet on the cache in every order.
  `MaxFailures`, `MaxDeletions` and `MaxRetries` are 1: a crash or failed
  preparation hands the lock over once, and a deletion separates two looks of the
  same reader. The theorems lift the safety part to any number of each.

* VmPreparation: `MaxEvents = 1` is one of a moved tag, a changed mirror, a failure
  or a crash; with the edit and the repeated command it makes every pair of a
  stale look and a change. The edit may come while Cargo reads, and both versions
  have binaries of one size, so that nothing but its own build tells a command which
  it has. The recipe `built` copies from an image and from an earlier stage. The
  clock grows with edits and builds only.
* RetryQueue: three commands make a rerun of a rerun and its repetition; a lineage
  that closed on itself would need two jobs.
* BrowserVm: two browsers contend for a port, and a foreign program takes the
  other. `MaxFaults = 1`: a process that dies.
* Comparison: two revisions make a stale head; `DownloadAttempts = 2` one retry; a
  command loads any part of a two-task job, the second task tells a partial run
  from a whole one.

The type invariants hold in the same instances and are not listed in the
configurations, as they are theorems; only that of `RetryQueue` is not.

### Fairness

* Admission, RunTasks: the runtime polls woken tasks and runs a `Drop` to its
  end; attempts end because agent and verifier run under timeouts
  (evaluator.rs:701, eval.rs:2986). Asking and abandoning are never forced, and
  a fair share of permits is not assumed: a larger waiter may be overtaken as
  long as others come, which is why the callers are finitely many.
* DurableJob: a running command proceeds until it ends or crashes, and the user
  repeats it; `--new` is never forced.
* Recording: attempts, recorder, progress and main task are polled.
* VmSession: tokio's mutex is fair, hence strong fairness of `Lock`; the guest
  finishes each request since tool calls and commands have timeouts. Nobody is
  obliged to call, to cancel or to die.
* VmAttempt: a preparation and an attempt proceed once started, as guest commands
  run under timeouts; a process that waits for the lock gets it once it stays
  free. Nobody is obliged to fail, to repeat a command or to clean up.

* VmPreparation: a command that is not killed goes on, Cargo and downloads end.
  Nobody has to edit, to move a tag or to repeat a command.
* BrowserVm: `spawn` goes on once begun, as its waits have deadlines, and a drop is
  synchronous; the kernel delivers a kill. Nobody has to spawn or to shut down,
  no process has to become ready.
* Comparison: commands and queries are polled, `git clone` ends. Nobody has to
  compare, no submission has to be merged. That the servers answer, or their
  requests fail, is assumed: the client sets no timeout (published.rs:102, 461).
* RetryQueue has no liveness property and no fairness.

`vm_preparation`, `retry_queue` and `retry_resume` check for deadlock, with a
step for the state in which all commands have ended. The others say
`CHECK_DEADLOCK FALSE`: callers finish, guests exit, browsers and bounded
commands stop, all as they should.

## 4. Proofs

Each `*Proofs` module proves its theorems for every value of the constants that
the named assumptions of the models allow: any finite set of callers, any set of
processes, commands, attempts, browsers and ports, any script of events, any
registry, recipes and archive, any job history that commands can have left, any
bound. Each has an inductive invariant, a
lemma per action that says the action keeps it, and theorems that follow from
it. TLC has checked each invariant on the instance of its run.

### SchedulingProofs: admission and batches

| theorem | statement |
|---|---|
| `Typing` | `Spec => []TypeOK` |
| `AccountsMatchPermits` | `Spec => []PermitsAccounted` |
| `LimitsHold` | `Spec => []WithinLimits` |
| `OversizedAlone` | `Spec => []OversizedRunsAlone` |
| `WakeupsReachSleepers` | `Spec => []NoLostWakeup` |
| `Refinement` | `Spec => ImplementsSemaphore` |
| `BatchesUseTheController` | `RunSpec => Spec` |
| `WholeBatches` | `RunSpec => []WholeBatchReturned` |

`WithinLimits` is not inductive: it speaks of the attempts, while the guard of
`Admit` reads the counters. `AccountingInv` joins types, the equality of counters
and permits, and the limits stated on the counters; with it the guard implies
the limit. Memory in use is a sum over the holders; it is written as the
cardinality of `Units`, a disjoint union with one element per MiB, so that the
library's facts about finite sets replace an induction. `NoLostWakeup` needs
`RefusedInv`, the same claim for a caller between its failed check and its
await: room appears only in `Release`, and `NotifyWaiters` reaches every future
created before it.

`RunSpec` is the specification of `RunTasks`: batches and direct callers. Each
of its steps is a step of the controller or leaves it alone. `RunInv` says where
every input is: not yet started, in the window, ended and not collected, or
collected once (`PositionInv`, `CollectInv`). That the result is in input order
is then a fact about sorting (`OneOrder`, `AllInOrder`): an increasing function
of `1 .. n` onto itself is the identity, by the least index at which it would not
be.

### SchedulingProofs: the retry queue

| theorem | statement |
|---|---|
| `QueueTyping` | `QueueSpec => []QueueTypeOK` |
| `LineagesAreFinite` | `QueueSpec => []LineagesEnd` |
| `StatusesComeFromTheLineage` | `QueueSpec => RetriesHideNothing` |
| `InterruptedRerunsResume` | if `last-run.json` named a job with a result at first, `QueueSpec => InterruptedRetryResumes` |

A job is started before it is given its source, and a rerun may take up an
incomplete job that is older than its source, so the order of creation says
nothing of lineages. `Ranked` says that some numbering of the jobs puts every
source before its reruns. It is chosen anew in `Persist`: the job that is given a
source there had no `invocation.json`, hence no `result.json` (`JobsInv`), hence
nobody had rerun it and it may be moved behind all the others. `CommandsInv`
carries this over the steps between the choice of the source and its writing. A
lineage that has not ended after as many places as there are jobs would need more
ranks than there are (`RanksEndLineages`).

From the same invariant, the lineage of a job with a `result.json` is settled
(`LineageStays`): starting, binding or attaching jobs beside it cannot come
between a task and its latest result (`StatusStays`).

For the third, `AloneInv` says that a command beside which nothing runs finds
what it was told by the resolution, and `PreviousInv` that this still holds when
the same command is given again: its own trials cannot change the status of the
tasks in the lineage of its source, as a job is not in that lineage
(`NotItsOwnAncestor`, again by the ranks), and only a finished command moves
`last-run.json`. The hypothesis is what `retry_resume` shows to be needed: with no
`last-run.json` an interrupted rerun is itself the latest attached job.

`QueueAssumption` asks of the history there is at first only what every command
leaves behind (`SoundHistory`): a `result.json` comes after an `invocation.json`,
a source has a `result.json`, and lineages end. A job of a version that wrote no
`invocation.json` is outside it where it has a `result.json` and is incomplete:
rerun on the same tasks, such a job would be resumed by its own rerun and become
its own parent, which `retained_retry_lineage` then reports as a cycle.

### DurableJobProofs

| theorem | statement |
|---|---|
| `Typing` | `Spec => []TypeOK` |
| `JobsAreExclusive` | no two processes past `lease()` work on one job |
| `NothingRunsTwice` | `Spec => []OneResultPerAttempt` |
| `ResultsAreReachable` | `Spec => []DurableResultsReachable` |
| `HarborLagsBehind` | `Spec => []HarborNeverOvercounts` |
| `FinalIsFinal` | a final job result has a result of each attempt of its sweep; `DistinctPrefixes => (Spec => []FinalMeansAllDurable)` |
| `JobsAreLedgers` | `Spec => ImplementsLedger` |

What a process does to a job it does under the lease, and what it read before it
had the lease, the scan, cannot become false since a `run.json` never changes
(`LeaseInv`). What it read since, the missing attempts (`SweepInv`) and the
baseline of the Harbor files (`AccountInv`), only its own steps change. `JobInv`
orders the counts of a job: `result.json` is behind `lock.json`, which is behind
the results, and the total is never below the size of the sweep; a result with a
`finished_at`, where the first and the last meet, thus has all of them.
`DistinctPrefixes` is needed for what is said of `last-run.json` alone, for the reason the run
`same_prefix` shows: with a shared prefix a resumed command skips an attempt that
has no result and ends, and `last-run.json` names its job.

`JobsAreLedgers` is the refinement of `JobLedger`, one lemma for each action that
the ledger sees. The hard part is `FinishedStays`: every session rewrites
`result.json` from the counts it found when it attached. A session that has
recorded a trial since has more results than the ledger entries of a finished job
could leave room for, so it cannot be working on one; one that has recorded
nothing writes the counts it found. `AccountInv` therefore follows the count and
the total of `result.json`, not only those of `lock.json`.

### RecordingProofs

| theorem | statement |
|---|---|
| `Typing` | `Spec => []TypeOK` |
| `CommitsAreComplete` | `Expected = Cardinality(Attempts) => (Spec => []CommitMeansAllRecorded)` |
| `ReportsAreComplete` | `Expected = Cardinality(Attempts) => (Spec => []ReportIsComplete)` |
| `TrialsFollowTheirEvents` | each trial is what its builder makes of all events of its attempt in their order |

`FollowInv` is the heart: while the recorder has missed nothing there is a number
of events of each attempt it has applied, and the unread part of the channel
holds exactly the later ones, each once and in order, though emission drops what
is older than the capacity. A recorder that has missed something can only stop.
The hypothesis is what `Eval::run` does, which passes the number of attempts it
has left to `finish_all` (eval.rs:1155). What a builder holds after `n` events is
said through any `B` that satisfies the recurrence of the projection;
`ProjectionExists` shows there is one.

### VmSessionProofs

| theorem | statement |
|---|---|
| `Typing` | `Spec => []TypeOK` |
| `InOrder` | `Spec => []ExecutedInOrder` |
| `NoMismatch` | `Spec => []NeverMismatched` |
| `ShutdownEndsGuest` | `Spec => []ShutdownIsLast` |

Ids are given out under the mutex, so its holder has the largest (`MutexInv`,
`IdInv`). What dropped calls leave in the two directions of the console, half a
line or an unread answer, is behind the call that finds it (`InputInv`), which
finds its own text where it left it (`WritingInv`). A line without its newline
swallows the next request: the guest rejects it and carries nothing out.

### VmAttemptProofs

| theorem | statement |
|---|---|
| `Typing` | `Spec => []TypeOK` |
| `OnlyPopulatedPublished` | `Spec => PublishedIsPopulated` |
| `ReadyStays` | `Spec => ReadyIsPermanent` |
| `WarmStart` | `Spec => []AttemptsStartWarm` |
| `SkipIsSound` | `Spec => []SkippedSetupIsPopulated` |
| `DisksStay` | `Spec => []DisksOutliveVms` |
| `ScoredAttemptsTidy` | `Spec => []ScoredDisks` |

None of them is inductive. The removal in `prepare_once` is safe although
publication takes no lock, for a reason that spans processes: an attempt runs
only while its command is past its preparation (`OwnerInv`), and as long as nobody
deletes the file that means it is ready (`CacheInv`); so whenever a holder of the
lock is about to remove an unready file no attempt is alive to replace it, and
whenever an attempt publishes the name is taken. `MachineInv` bounds when a machine
may run and on what, `CloneInv` carries the clone from the first look at the
cache to its removal; a `copying` attempt knows only that the file is not
unready, because a deleted one is an error and nothing publishes an unready one. `DisksStay` says of
a running machine that it is at work and has its disks, or that its attempt has
ended in an error; the second case is the order in which `VmVerifier` is dropped,
and the theorem says that nothing else makes one.

### ImageCacheProofs

| theorem | statement |
|---|---|
| `Typing` | `Spec => [](RuntimeTypeOK /\ ImageTypeOK)` |
| `RebuiltRuntimeNeverOld` | `Spec => []RebuiltRuntimesAreCurrent` |
| `RecordsHaveTheirLayers` | `Spec => []RecordsAreComplete` |
| `KeysCoverBuilds` | `Spec => []BuildsMatchTheirKey` |
| `NotesAreTrue` | `Spec => []NotesMatchDisks` |

No lock protects the image cache. The argument rests on stamps: a rename gives a
disk a stamp that neither a disk nor a note had before, so a shell record that is
written late, about a disk replaced meanwhile, is never believed again
(`CacheInv`, and `SeenInv` for what each command has in hand). Blobs are
added before the record that lists them and nothing removes one. The tool runtime
rests on Cargo's lock: the binary is never replaced by one of older sources
(`SourceInv`), so what a command reads after its own build is no older than that
build, and it starts the bytes it has read and not what the record says by then
(`CurrentInv`). Nothing of the kind holds of a command that finds a record or takes
the binary for fresh (section 3 says how either may boot an old runtime), and so
the theorem speaks of `build_status = "rebuilt"` only, which is known of a command
until it has gvproxy; what its machines get does not change afterwards. It needs no
assumption about edits or sizes.

### BrowserVmProofs

| theorem | statement |
|---|---|
| `Typing` | `Spec => []TypeOK` |
| `EndpointBelongs` | `Spec => []EndpointIsOwn` |
| `HostOutlivesVmm` | `Spec => []RunningVmmKeepsItsHost` |
| `MergeIsAllOrNothing` | a lease is always the sum of whole fragments; `FragmentsHaveOwnGuards => (Spec => []LeasesAreWhole)` |

`spawn` acquires in one order and the handle's fields are dropped in another, the
VMM first, so each stage implies what is still there (`StageInv`, `HelperInv`,
`VmmInv`). A reserved port is nobody's until its forward, which fails if it was
taken. The hypothesis of the second lease claim lets guards tell fragments apart;
the first claim, over the union of any chosen fragments, needs none.

### ComparisonProofs

| theorem | statement |
|---|---|
| `Typing` | `Spec => []TypeOK` |
| `ManifestsAreExact` | `Spec => []ManifestsHoldTheirRevision` |
| `AnswersAreOfOneRevision` | the records of an answered query are held by the revision it names, for its task |
| `ReportsAreExact` | `Spec => []ReportsAreOfOneRevision` |

A query reads the revision once and asks for everything else under it
(`QueryInv`). The paths it goes through may have been listed at a later HEAD; one
that its revision lacks is an error and nothing is committed (`AtFacts`,
`ManifestInv`).

The report is the last step: `Sorted` chooses an order of the runs by the keys of
`sort_runs`, so a report holds runs of the answers and no others, and each of
them counts trials that answers hold (`ReportIsExact`). A trial is counted once
because the archive has one result at a place (`ArchiveAssumption`: the path of a
result is submission, run, trial and task, and Git holds one file at a path).

### Only model-checked

* Liveness, beyond the prover: `EveryRequestEnds`, `RunTasksReturns`,
  `BoundJobsComplete`, `FinishReturns`, `CallsReturn`, `RunsEnd`,
  `PreparationEnds`, `NothingLeftBehind`, `ComparisonsEnd`.
* `TrajectoriesMatchEvents`: the theorem says which fold a trial is; what the fold
  computes, filtered, sorted and summed by the library's operators, is a matter
  of induction, which the prover's installed backends cannot instantiate.

## 5. State of the work

All components of section 2 are modelled and run, and there are theorems about
every one of them. Of the properties of the passing runs, what is not proved is
liveness and the fold of `TrajectoriesMatchEvents`. The specifications a reader
may want next are abstract ones of the guest session (a queue of requests) and of
the image cache (a map from keys to disks); both could build on the invariants that
section 4 already has.

## 6. Not modelled

* Contents: hashes, prompts, log text, file formats, what `RUN` and `COPY` do to a
  disk beyond the shells it has.
* `HarborRecorder::finish` with a list of results: the command uses `finish_all`.
* Wrapping of request ids, and overflow of counters.
* Loss of a rename in a power failure: files are synced or the process alone
  crashes.
* Inside libkrun, gvproxy, Cargo, Git, registries and the agent: external, modelled
  by what the code sees of them.
* A host process that is killed while its browser runs: its VMM and helper stay,
  as nothing in the code looks for them later.
* The contents of the verifier's scripts and artifacts, and how a setup is recognised.
* Hazards the models have and no property speaks of, as nothing in the repository
  says what should happen: `finish_all` names `RecorderStopped` instead of the error
  that stopped the recorder (nanoeval-harbor/src/lib.rs:156); an error before there is
  a `VmVerifier` leaves the clone behind (eval.rs:2054), and a crash after the root
  disks are removed loses those of an attempt that is repeated (eval.rs:2760);
  `--show` may answer for a later revision than the report (compare.rs:141), and a
  job that still runs is compared as it is (compare.rs:313); a helper that dies after
  its endpoint was handed out leaves the port to others (nanovm-browser/src/lib.rs:359).
* Order and equality of sweeps, scheduling, task priority, pass@k, checksums: pure.
* Comparison of a single retained trial, inspection, task loading, argument
  parsing, telemetry, and everything that is printed.

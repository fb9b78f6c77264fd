-------------------------- MODULE PublishedResults --------------------------
(***************************************************************************)
(* PublishedResults (crates/nanoeval-harbor/src/published.rs): queries of  *)
(* an archive kept in a Git repository, through an index that is cloned    *)
(* once and a cache of paths, results and artifacts by revision.  Queries  *)
(* of one process and of several share both.                               *)
(***************************************************************************)
EXTENDS Integers, Sequences, SequencesExt, FiniteSetsExt, Functions

CONSTANTS
  Queries,           \* identities of the queries
  Tasks,
  Archive,           \* the results in the archive at each of its revisions
  InitialIndexes,    \* what the index may be at first: "absent", "ready"
  DownloadAttempts,  \* DOWNLOAD_ATTEMPTS
  MaxFaults,         \* bound: Git and network failures
  None

Revisions == DOMAIN Archive

\* A result.json of the archive; whether there is a trajectory next to it.
IsResult(e) ==
  /\ e = [task |-> e.task, submission |-> e.submission, run |-> e.run, trial |-> e.trial,
          checksum |-> e.checksum, reward |-> e.reward, errored |-> e.errored,
          trajectory |-> e.trajectory]
  /\ e.submission \in Nat /\ e.trajectory \in BOOLEAN

\* The directory of a trial: its submission, run and name, under its task.
PlaceOf(x) == <<x.task, x.submission, x.run, x.trial>>

ASSUME ArchiveAssumption ==
  /\ DownloadAttempts \in Nat \ {0} /\ MaxFaults \in Nat
  /\ InitialIndexes \subseteq {"absent", "ready"}
  /\ Len(Archive) \in Nat \ {0} /\ Revisions = 1 .. Len(Archive)
  /\ \A r \in Revisions :
       /\ IsFiniteSet(Archive[r]) /\ \A e \in Archive[r] : IsResult(e)
       /\ \A e, f \in Archive[r] : PlaceOf(e) = PlaceOf(f) => e = f

VARIABLES
  upstream,    \* the revision of the remote's main branch
  index,       \* the local repository: absent, cloning (.git exists), ready
  head,        \* its HEAD
  fetch_head,  \* its FETCH_HEAD
  paths,       \* task-paths: the cached listing of a revision and a task, or None
  results,     \* task-results-v3: its cached results, or None
  artifacts,   \* the downloaded files of each revision
  query,       \* what each query is for and what it has
  pc,          \* where it stands
  faults

cacheVars == <<index, head, fetch_head, paths, results, artifacts>>
queryVars == <<upstream, cacheVars, query, pc, faults>>

(***************************************************************************)
(* idle      not asked, dropped, or its answer taken                       *)
(* index     prepare_index                                                 *)
(* clone     .git was not there                                            *)
(* cloning   its git clone is running                                      *)
(* fetch     refresh: git fetch                                            *)
(* update    refresh: git update-ref                                       *)
(* revision  git rev-parse HEAD                                            *)
(* paths     load_task_paths                                               *)
(* results   load_task_results                                             *)
(* download  some results are not cached                                   *)
(* done      answered; failed: Err                                         *)
(***************************************************************************)
Running == {"index", "clone", "cloning", "fetch", "update", "revision", "paths", "results", "download"}

NoQuery == [task |-> None, refresh |-> FALSE, revision |-> None, candidates |-> {},
            records |-> {}, missing |-> FALSE, tries |-> 0]

QueriesInit ==
  /\ upstream = 1
  /\ index \in InitialIndexes
  /\ head = 1
  /\ fetch_head = 1
  /\ paths = [r \in Revisions |-> [t \in Tasks |-> None]]
  /\ results = [r \in Revisions |-> [t \in Tasks |-> None]]
  /\ artifacts = [r \in Revisions |-> {}]
  /\ query = [q \in Queries |-> NoQuery]
  /\ pc = [q \in Queries |-> "idle"]
  /\ faults = 0

\* Where a file is, as opposed to what it holds at a revision.
PathOf(result) == [task |-> result.task, submission |-> result.submission, run |-> result.run,
                   trial |-> result.trial, trajectory |-> result.trajectory]

PathsAt(revision, task) == {PathOf(result) : result \in {e \in Archive[revision] : e.task = task}}

\* The result.json at a path in a revision; that there is a trajectory next to
\* it is what the listing said.
At(revision, path) ==
  {[result EXCEPT !.trajectory = path.trajectory] :
     result \in {e \in Archive[revision] : PlaceOf(e) = PlaceOf(path)}}

Goto(q, next) == pc' = [pc EXCEPT ![q] = next]

\* A query begins: PublishedQuery and PublishedResultsBuilder.
Asked(q, task, refresh) == [NoQuery EXCEPT !.task = task, !.refresh = refresh]

-----------------------------------------------------------------------------
(* prepare_index *)

LookForIndex(q) ==
  /\ pc[q] = "index"
  /\ Goto(q, IF index = "absent" THEN "clone" ELSE IF query[q].refresh THEN "fetch" ELSE "revision")
  /\ UNCHANGED <<cacheVars, query, faults>>

\* git clone refuses a directory that exists and is not empty.
StartClone(q) ==
  /\ pc[q] = "clone"
  /\ IF index = "absent" THEN index' = "cloning" /\ Goto(q, "cloning")
                         ELSE UNCHANGED index /\ Goto(q, "failed")
  /\ UNCHANGED <<head, fetch_head, paths, results, artifacts, query, faults>>

Cloners(next) == [q \in Queries |-> IF pc[q] = "cloning" THEN next ELSE pc[q]]

\* The git process is not killed with the command that started it; one that
\* fails removes what it made.
GitClone ==
  /\ index = "cloning"
  /\ \/ index' = "ready" /\ head' = upstream /\ pc' = Cloners("revision") /\ UNCHANGED faults
     \/ /\ faults < MaxFaults
        /\ faults' = faults + 1
        /\ index' = "absent" /\ pc' = Cloners("failed") /\ UNCHANGED head
  /\ UNCHANGED <<upstream, fetch_head, paths, results, artifacts, query>>

Fetch(q) ==
  /\ pc[q] = "fetch"
  /\ IF index = "ready" THEN fetch_head' = upstream /\ Goto(q, "update")
                        ELSE UNCHANGED fetch_head /\ Goto(q, "failed")
  /\ UNCHANGED <<index, head, paths, results, artifacts, query, faults>>

UpdateRef(q) ==
  /\ pc[q] = "update"
  /\ head' = fetch_head
  /\ Goto(q, "revision")
  /\ UNCHANGED <<index, fetch_head, paths, results, artifacts, query, faults>>

-----------------------------------------------------------------------------
(* load_query_records *)

\* The HEAD of a repository that is still being cloned names no commit.
ReadRevision(q) ==
  /\ pc[q] = "revision"
  /\ IF index = "ready"
     THEN query' = [query EXCEPT ![q].revision = head] /\ Goto(q, "paths")
     ELSE UNCHANGED query /\ Goto(q, "failed")
  /\ UNCHANGED <<cacheVars, faults>>

\* The manifest of the revision that was read, or a listing of HEAD as it is now.
LoadTaskPaths(q) ==
  LET r == query[q].revision
      t == query[q].task
      listed == IF paths[r][t] # None THEN paths[r][t] ELSE PathsAt(head, t)
  IN  /\ pc[q] = "paths"
      /\ paths' = [paths EXCEPT ![r][t] = listed]
      /\ query' = [query EXCEPT ![q].candidates = listed]
      /\ Goto(q, "results")
      /\ UNCHANGED <<index, head, fetch_head, results, artifacts, faults>>

LoadTaskResults(q) ==
  LET cached == results[query[q].revision][query[q].task]
  IN  /\ pc[q] = "results"
      /\ IF cached # None
         THEN query' = [query EXCEPT ![q].records = cached] /\ Goto(q, "done")
         ELSE UNCHANGED query /\ Goto(q, "download")
      /\ UNCHANGED <<cacheVars, faults>>

\* Fault: a result is fetched as it is in the index's HEAD.
DownloadFromHead(q) ==
  /\ pc[q] = "download"
  /\ \E path \in query[q].candidates :
       LET r == query[q].revision
           found == At(head, path)
       IN  /\ query' = [query EXCEPT ![q].candidates = @ \ {path},
                                     ![q].records = @ \union found,
                                     ![q].missing = @ \/ found = {},
                                     ![q].tries = 0]
           /\ artifacts' = [artifacts EXCEPT ![r] = IF found = {} THEN @ ELSE @ \union {path}]
  /\ UNCHANGED <<index, head, fetch_head, paths, results, pc, faults>>

\* One result is read from the cache or fetched; one the revision does not
\* have is an error, once the other downloads have ended.
Download(q) ==
  /\ pc[q] = "download"
  /\ \E path \in query[q].candidates :
       LET r == query[q].revision
           found == At(r, path)
       IN  /\ query' = [query EXCEPT ![q].candidates = @ \ {path},
                                     ![q].records = @ \union found,
                                     ![q].missing = @ \/ found = {},
                                     ![q].tries = 0]
           /\ artifacts' = [artifacts EXCEPT ![r] = IF found = {} THEN @ ELSE @ \union {path}]
  /\ UNCHANGED <<index, head, fetch_head, paths, results, pc, faults>>

Uncached(q) == query[q].candidates \ artifacts[query[q].revision] # {}

\* Fault: a busy server is asked again and again.
RetryForEver(q) ==
  /\ pc[q] = "download" /\ Uncached(q)
  /\ query' = [query EXCEPT ![q].tries = (@ + 1) % DownloadAttempts]
  /\ UNCHANGED <<cacheVars, pc, faults>>

\* 429 and server errors, and the last of them.
Retry(q) ==
  /\ pc[q] = "download" /\ Uncached(q)
  /\ query' = [query EXCEPT ![q].tries = @ + 1]
  /\ IF query'[q].tries >= DownloadAttempts THEN Goto(q, "failed") ELSE UNCHANGED pc
  /\ UNCHANGED <<cacheVars, faults>>

CommitResults(q) ==
  LET r == query[q].revision
      t == query[q].task
  IN  /\ pc[q] = "download"
      /\ query[q].candidates = {}
      /\ IF query[q].missing THEN UNCHANGED results /\ Goto(q, "failed")
         ELSE results' = [results EXCEPT ![r][t] = query[q].records] /\ Goto(q, "done")
      /\ UNCHANGED <<index, head, fetch_head, paths, artifacts, query, faults>>

\* A git command or a connection that fails.
QueryFails(q) ==
  /\ pc[q] \in {"fetch", "update", "revision", "paths", "download"}
  /\ faults < MaxFaults
  /\ faults' = faults + 1
  /\ Goto(q, "failed")
  /\ UNCHANGED <<cacheVars, query>>

QueryStep(q) ==
  /\ \/ LookForIndex(q) \/ StartClone(q) \/ Fetch(q) \/ UpdateRef(q)
     \/ ReadRevision(q) \/ LoadTaskPaths(q) \/ LoadTaskResults(q)
     \/ Download(q) \/ Retry(q) \/ CommitResults(q) \/ QueryFails(q)
  /\ UNCHANGED upstream

\* A new submission is merged into the archive.
PublishRevision ==
  /\ upstream < Len(Archive)
  /\ upstream' = upstream + 1
  /\ UNCHANGED <<cacheVars, query, pc, faults>>

-----------------------------------------------------------------------------
(* What a caller makes of the records: attempts and query *)

Passed(result) == ~result.errored /\ result.reward > 0

\* query: successful attempts, the exact revision first, then those with a
\* trajectory, then by submission; one of each submission.
Preferred(checksum, x, y) ==
  LET rank(e) == <<IF e.checksum = checksum THEN 0 ELSE 1, IF e.trajectory THEN 0 ELSE 1>>
  IN  \/ rank(x)[1] < rank(y)[1]
      \/ rank(x)[1] = rank(y)[1] /\ rank(x)[2] < rank(y)[2]
      \/ rank(x) = rank(y) /\ x.submission <= y.submission

BestOf(records, checksum, submission) ==
  LET passing == {e \in records : Passed(e) /\ e.submission = submission}
  IN  {e \in passing : \A other \in passing : Preferred(checksum, e, other)}
=============================================================================

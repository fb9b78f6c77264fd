--------------------------- MODULE ComparisonProofs ---------------------------
(***************************************************************************)
(* Proofs about PublishedResults and Comparison, for every archive, every  *)
(* set of commands and tasks and any number of failures.                   *)
(*                                                                         *)
(* The argument: a query reads the revision once and asks for everything   *)
(* else under it, so that what it downloads is of that revision even when  *)
(* the paths it goes through were listed at a later HEAD: a path of the    *)
(* listing that the revision does not have is an error, and nothing is     *)
(* committed.  No place is listed twice and each result is fetched from    *)
(* another place, so a score counts each published result once.            *)
(***************************************************************************)
EXTENDS Comparison, TLAPS, FiniteSetTheorems, WellFoundedInduction

\* Paths and results as the cache may hold them: the listing a result was
\* fetched through decides on its trajectory.
Paths == UNION {{PathOf(e) : e \in Archive[r]} : r \in Revisions}
Results == {[e EXCEPT !.trajectory = b] : e \in UNION {Archive[r] : r \in Revisions}, b \in BOOLEAN}

QueryStages == Running \union {"idle", "done", "failed"}
CommandStages == {"idle", "querying", "drilling", "comparing", "reported", "failed"}
QueryRecords ==
  [task : Tasks \union {None}, refresh : BOOLEAN, revision : Revisions \union {None},
   candidates : SUBSET Paths, records : SUBSET Results, missing : BOOLEAN, tries : Nat]

\* Scores as Score makes them of published results and of a job.
Scores ==
  [submission : Nat \union {Local}, tasks : SUBSET Tasks, trials : Nat, k : SUBSET Nat,
   passes : Nat, pass_at_k : Nat, errors : Nat]
Reports ==
  [revision : Revisions \union {None}, local : Scores \union {None}, exact : Seq(Scores),
   others : Seq(Scores)]

TypeOK ==
  /\ upstream \in Revisions
  /\ index \in {"absent", "cloning", "ready"}
  /\ head \in Revisions /\ fetch_head \in Revisions
  /\ paths \in [Revisions -> [Tasks -> (SUBSET Paths) \union {None}]]
  /\ results \in [Revisions -> [Tasks -> (SUBSET Results) \union {None}]]
  /\ artifacts \in [Revisions -> SUBSET Paths]
  /\ query \in [Queries -> QueryRecords]
  /\ pc \in [Queries -> QueryStages]
  /\ faults \in 0 .. MaxFaults
  /\ stage \in [Commands -> CommandStages]
  /\ job \in [Commands -> SUBSET LocalTrials]
  /\ drilled \in [Commands -> {<<>>} \union (LocalTrials \X Results)]
  /\ report \in [Commands -> Reports]

\* A result is one of a task that a revision holds, up to its trajectory.
HeldBy(e, r, t) == \E x \in Archive[r] : x.task = t /\ x = [e EXCEPT !.trajectory = x.trajectory]

\* No two of these paths or results are those of one trial's directory.
OnePerPlace(xs) == \A x, y \in xs : PlaceOf(x) = PlaceOf(y) => x = y

\* What is cached for a revision and a task.
ManifestInv ==
  \A r \in Revisions, t \in Tasks :
    /\ paths[r][t] # None =>
         OnePerPlace(paths[r][t]) /\ \A path \in paths[r][t] : path.task = t
    /\ results[r][t] # None =>
         OnePerPlace(results[r][t]) /\ \A e \in results[r][t] : HeldBy(e, r, t)

\* What a query knows at each step.
QueryInv(q) ==
  /\ pc[q] \in Running \union {"done"} =>
       query[q].task \in Tasks /\ (q[2] \in Tasks => query[q].task = q[2])
  /\ pc[q] \in {"paths", "results", "download", "done"} => query[q].revision \in Revisions
  /\ pc[q] \in {"results", "download"} =>
       /\ OnePerPlace(query[q].candidates)
       /\ \A path \in query[q].candidates : path.task = query[q].task
  /\ pc[q] \notin {"download", "done", "failed"} => query[q].records = {}
  /\ pc[q] \in {"download", "done"} =>
       /\ OnePerPlace(query[q].records)
       /\ \A e \in query[q].records : HeldBy(e, query[q].revision, query[q].task)
  /\ pc[q] = "download" =>
       \A e \in query[q].records, path \in query[q].candidates : PlaceOf(e) # PlaceOf(path)

\* A command compares once all of its tasks' queries are answered.
CommandInv(p) ==
  /\ stage[p] \in {"querying", "drilling", "comparing"} => job[p] # {}
  /\ stage[p] \in {"drilling", "comparing"} => \A q \in QueriesOf(p) : pc[q] = "done"

\* The inductive invariant.
IInv ==
  /\ TypeOK
  /\ ManifestInv
  /\ \A q \in Queries : QueryInv(q)
  /\ \A p \in Commands : CommandInv(p)
  /\ ReportsAreOfOneRevision
-----------------------------------------------------------------------------
(* The archive *)

\* A path leads to at most one result, of its task and its place.
LEMMA AtFacts ==
  ASSUME NEW r \in Revisions, NEW path \in Paths, NEW e \in At(r, path)
  PROVE  /\ e \in Results /\ HeldBy(e, r, path.task)
         /\ PlaceOf(e) = PlaceOf(path)
         /\ \A f \in At(r, path) : f = e
<1>1. PICK x \in Archive[r] :
        /\ PlaceOf(x) = PlaceOf(path)
        /\ e = [x EXCEPT !.trajectory = path.trajectory]
  BY DEF At
<1>2. PICK s \in Revisions : \E y \in Archive[s] : path = PathOf(y)
  BY Zenon DEF Paths
<1>0. PICK y \in Archive[s] : path = PathOf(y)
  BY <1>2
<1>3. IsResult(x) /\ IsResult(y)
  BY ArchiveAssumption
<1>4. path.trajectory \in BOOLEAN /\ path.trajectory = y.trajectory
  BY <1>0, <1>3 DEF PathOf, IsResult
<1>5. e \in Results
  <2>1. x \in UNION {Archive[other] : other \in Revisions}
    BY <1>1
  <2> QED
    BY <1>1, <1>4, <2>1 DEF Results
<1>6. x.task = path.task
  BY <1>1 DEF PlaceOf
<1>7. x = [e EXCEPT !.trajectory = x.trajectory] /\ PlaceOf(e) = PlaceOf(x)
  BY <1>1, <1>3 DEF IsResult, PlaceOf
<1>8. ASSUME NEW f \in At(r, path) PROVE f = e
  <2>1. PICK z \in Archive[r] :
          /\ PlaceOf(z) = PlaceOf(path)
          /\ f = [z EXCEPT !.trajectory = path.trajectory]
    BY DEF At
  <2>2. z = x
    BY <1>1, <2>1, ArchiveAssumption
  <2> QED
    BY <1>1, <2>1, <2>2
<1> QED
  BY <1>1, <1>5, <1>6, <1>7, <1>8 DEF HeldBy

\* A listing has paths of its task only, each of another place.
LEMMA ListingFacts ==
  ASSUME NEW r \in Revisions, NEW t
  PROVE  /\ PathsAt(r, t) \in SUBSET Paths
         /\ \A path \in PathsAt(r, t) : path.task = t
         /\ OnePerPlace(PathsAt(r, t))
<1>1. PathsAt(r, t) \subseteq Paths
  BY DEF PathsAt, Paths
<1>2. \A path \in PathsAt(r, t) : path.task = t
  BY DEF PathsAt, PathOf
<1>3. ASSUME NEW a \in PathsAt(r, t), NEW b \in PathsAt(r, t), PlaceOf(a) = PlaceOf(b) PROVE a = b
  <2>1. PICK x \in Archive[r] : a = PathOf(x)
    BY DEF PathsAt
  <2>2. PICK y \in Archive[r] : b = PathOf(y)
    BY DEF PathsAt
  <2>3. PlaceOf(x) = PlaceOf(a) /\ PlaceOf(y) = PlaceOf(b)
    BY <2>1, <2>2 DEF PathOf, PlaceOf
  <2> QED
    BY <1>3, <2>1, <2>2, <2>3, ArchiveAssumption
<1> QED
  BY <1>1, <1>2, <1>3 DEF OnePerPlace

-----------------------------------------------------------------------------
(* Scores and their order *)

PublishedScores == {score \in Scores : score.submission \in Nat}

LEMMA BetterIsAnOrder ==
  /\ \A x \in PublishedScores : ~Better(x, x)
  /\ \A x, y, z \in PublishedScores : Better(x, y) /\ Better(y, z) => Better(x, z)
BY DEF PublishedScores, Scores, Better

\* Among finitely many scores there is one that is better than none of them.
LEMMA WorstScore ==
  ASSUME NEW runs \in SUBSET PublishedScores, IsFiniteSet(runs), runs # {}
  PROVE  \E worst \in runs : \A x \in runs : ~Better(worst, x)
<1> DEFINE HasWorst(S) == \E worst \in S : \A x \in S : ~Better(worst, x)
           Without(n) == \E S \in SUBSET runs : S # {} /\ Cardinality(S) = n /\ ~HasWorst(S)
<1>1. PICK T : T = {n \in Nat : Without(n)}
  OBVIOUS
<1>2. CASE T = {}
  <2>1. Cardinality(runs) \in Nat
    BY FS_CardinalityType
  <2> QED
    BY <1>1, <1>2, <2>1
<1>3. CASE T # {}
  <2>1. T \subseteq Nat
    BY <1>1
  <2>2. PICK m \in T : \A k \in T : <<k, m>> \notin OpToRel(<, Nat)
    BY <1>3, <2>1, NatLessThanWellFounded, WFMin, Zenon
  <2>3. PICK S \in SUBSET runs : S # {} /\ Cardinality(S) = m /\ ~HasWorst(S)
    BY <1>1, <2>2
  <2>4. PICK x \in S : TRUE
    BY <2>3
  <2>5. PICK others : others = S \ {x}
    OBVIOUS
  <2>6. others # {}
    BY <2>3, <2>4, <2>5, BetterIsAnOrder
  <2>7. HasWorst(others)
    <3>1. IsFiniteSet(S)
      BY <2>3, FS_Subset
    <3>2. PICK n : n = Cardinality(others) /\ n = m - 1 /\ n \in Nat
      BY <2>3, <2>4, <2>5, <3>1, FS_RemoveElement, FS_CardinalityType
    <3>3. m \in Nat
      BY <2>1, <2>2
    <3>4. <<n, m>> \in OpToRel(<, Nat)
      BY <3>2, <3>3 DEF OpToRel
    <3>5. n \notin T
      BY <2>2, <3>4
    <3>6. ~Without(n)
      BY <1>1, <3>2, <3>5
    <3>7. others \in SUBSET runs
      BY <2>5
    <3> QED
      BY <2>6, <3>2, <3>6, <3>7
  <2>8. PICK worst \in others : \A y \in others : ~Better(worst, y)
    BY <2>7
  <2>9. CASE Better(worst, x)
    <3>1. ASSUME NEW y \in S PROVE ~Better(x, y)
      <4>1. CASE y = x
        BY <4>1, BetterIsAnOrder
      <4>2. CASE y # x
        BY <2>3, <2>4, <2>5, <2>8, <2>9, <4>2, BetterIsAnOrder
      <4> QED
        BY <4>1, <4>2
    <3> QED
      BY <2>3, <3>1
  <2>10. CASE ~Better(worst, x)
    BY <2>3, <2>5, <2>8, <2>10
  <2> QED
    BY <2>9, <2>10
<1> QED
  BY <1>2, <1>3

\* Any finite set of scores can be put in an order in which none is better than
\* one before it.
LEMMA SortedFacts ==
  ASSUME NEW runs \in SUBSET PublishedScores, IsFiniteSet(runs)
  PROVE  Sorted(runs) \in [1 .. Cardinality(runs) -> runs]
<1> DEFINE InOrder(s) == \A i, j \in DOMAIN s : i < j => s[i] # s[j] /\ ~Better(s[j], s[i])
           HasOrder(S) == \E s \in [1 .. Cardinality(S) -> S] : InOrder(s)
           Without(n) == \E S \in SUBSET runs : Cardinality(S) = n /\ ~HasOrder(S)
<1>1. PICK T : T = {n \in Nat : Without(n)}
  OBVIOUS
<1>2. HasOrder(runs)
  <2>1. CASE T = {}
    <3>1. Cardinality(runs) \in Nat
      BY FS_CardinalityType
    <3> QED
      BY <1>1, <2>1, <3>1
  <2>2. CASE T # {}
    <3>1. T \subseteq Nat
      BY <1>1
    <3>2. PICK m \in T : \A k \in T : <<k, m>> \notin OpToRel(<, Nat)
      BY <2>2, <3>1, NatLessThanWellFounded, WFMin, Zenon
    <3>3. PICK S \in SUBSET runs : Cardinality(S) = m /\ ~HasOrder(S)
      BY <1>1, <3>2
    <3>4. IsFiniteSet(S) /\ m \in Nat
      BY <3>1, <3>2, <3>3, FS_Subset
    <3>5. S # {}
      <4>1. SUFFICES ASSUME S = {} PROVE HasOrder(S)
        BY <3>3
      <4>2. Cardinality(S) = 0
        BY <4>1, FS_EmptySet
      <4>3. PICK s : s = [i \in {} |-> i]
        OBVIOUS
      <4>4. s \in [1 .. Cardinality(S) -> S] /\ InOrder(s)
        BY <4>1, <4>2, <4>3
      <4> QED
        BY <4>4
    <3>6. PICK worst \in S : \A x \in S : ~Better(worst, x)
      BY <3>4, <3>5, WorstScore
    <3>7. PICK others : others = S \ {worst}
      OBVIOUS
    <3>8. PICK n \in Nat : n = Cardinality(others) /\ m = n + 1
      <4>1. IsFiniteSet(others) /\ Cardinality(others) = Cardinality(S) - 1
        BY <3>4, <3>6, <3>7, FS_RemoveElement
      <4>2. Cardinality(others) \in Nat
        BY <4>1, FS_CardinalityType
      <4>3. m = Cardinality(others) + 1
        BY <3>3, <3>4, <4>1, <4>2
      <4> QED
        BY <4>2, <4>3
    <3>9. HasOrder(others)
      <4>1. <<n, m>> \in OpToRel(<, Nat)
        BY <3>4, <3>8 DEF OpToRel
      <4>2. n \notin T
        BY <3>2, <4>1
      <4>3. ~Without(n)
        BY <1>1, <4>2
      <4>4. others \in SUBSET runs
        BY <3>7
      <4> QED
        BY <3>8, <4>3, <4>4
    <3>10. PICK s \in [1 .. n -> others] : InOrder(s)
      BY <3>8, <3>9
    <3>11. PICK longer : longer = [i \in 1 .. m |-> IF i = m THEN worst ELSE s[i]]
      OBVIOUS
    <3>12. longer \in [1 .. m -> S]
      <4>1. ASSUME NEW i \in 1 .. m, i # m PROVE i \in 1 .. n
        BY <3>8, <4>1
      <4>2. \A i \in 1 .. m : i # m => s[i] \in S
        BY <3>7, <3>10, <4>1
      <4> QED
        BY <3>6, <3>11, <4>2
    <3>13. ASSUME NEW i \in 1 .. m, NEW j \in 1 .. m, i < j
           PROVE  longer[i] # longer[j] /\ ~Better(longer[j], longer[i])
      <4>1. i \in 1 .. n /\ longer[i] = s[i] /\ s[i] \in others
        BY <3>8, <3>10, <3>11, <3>13
      <4>2. CASE j = m
        BY <3>6, <3>7, <3>11, <4>1, <4>2
      <4>3. CASE j # m
        <5>1. j \in 1 .. n /\ longer[j] = s[j]
          BY <3>8, <3>11, <4>3
        <5> QED
          BY <3>10, <3>13, <4>1, <5>1
      <4> QED
        BY <4>2, <4>3
    <3>14. InOrder(longer)
      BY <3>12, <3>13
    <3> QED
      BY <3>3, <3>12, <3>14
  <2> QED
    BY <2>1, <2>2
<1> QED
  BY <1>2 DEF Sorted

\* What is shown are some of the runs.
LEMMA TopFacts ==
  ASSUME NEW runs \in SUBSET PublishedScores, IsFiniteSet(runs), NEW limit \in Nat
  PROVE  /\ Top(limit, runs) \in Seq(Scores)
         /\ \A k \in DOMAIN Top(limit, runs) : Top(limit, runs)[k] \in runs
<1>1. PICK n \in Nat : n = Cardinality(runs)
  BY FS_CardinalityType
<1>2. PICK shown \in Nat :
        shown = (IF Cardinality(runs) < limit THEN Cardinality(runs) ELSE limit) /\ shown <= n
  BY <1>1
<1>3. Top(limit, runs) = [k \in 1 .. shown |-> Sorted(runs)[k]]
  BY <1>2 DEF Top
<1>4. ASSUME NEW k \in 1 .. shown PROVE Sorted(runs)[k] \in runs
  BY <1>1, <1>2, SortedFacts
<1>5. runs \subseteq Scores
  BY DEF PublishedScores
<1>6. Top(limit, runs) \in [1 .. shown -> Scores]
  BY <1>3, <1>4, <1>5
<1> QED
  BY <1>3, <1>4, <1>6

LEMMA ImageIsFinite ==
  ASSUME NEW S, IsFiniteSet(S), NEW T, NEW f \in Surjection(S, T)
  PROVE  IsFiniteSet(T)
BY FS_Surjection

\* A score counts within its attempts.
LEMMA ScoreFacts ==
  ASSUME NEW submission \in Nat \union {Local}, NEW attempts, IsFiniteSet(attempts),
         \A e \in attempts : e.task \in Tasks
  PROVE  LET score == Score(submission, attempts)
         IN  /\ score \in Scores /\ score.submission = submission
             /\ score.tasks = TasksOf(attempts) /\ score.trials = Cardinality(attempts)
             /\ score.passes = Cardinality({e \in attempts : Passed(e)})
<1>1. \A S \in SUBSET attempts : IsFiniteSet(S) /\ Cardinality(S) \in Nat
  BY FS_Subset, FS_CardinalityType
<1>2. PICK passes \in SUBSET attempts : passes = {e \in attempts : Passed(e)}
  OBVIOUS
<1>3. Cardinality(TasksOf(passes)) \in Nat
  <2>1. PICK f : f = [e \in passes |-> e.task]
    OBVIOUS
  <2>2. f \in Surjection(passes, TasksOf(passes))
    BY <2>1 DEF Surjection, TasksOf
  <2> QED
    BY <1>1, <1>2, <2>2, ImageIsFinite, FS_CardinalityType
<1>4. TasksOf(attempts) \subseteq Tasks
  BY DEF TasksOf
<1>5. PICK counts \in SUBSET Nat :
        counts = {Cardinality({e \in attempts : e.task = t}) : t \in TasksOf(attempts)}
  BY <1>1
<1>6. PICK errors \in SUBSET attempts : errors = {e \in attempts : e.errored}
  OBVIOUS
<1>7. Score(submission, attempts) =
        [submission |-> submission, tasks |-> TasksOf(attempts), trials |-> Cardinality(attempts),
         k |-> IF Cardinality(counts) = 1 THEN counts ELSE {},
         passes |-> Cardinality(passes), pass_at_k |-> Cardinality(TasksOf(passes)),
         errors |-> Cardinality(errors)]
  BY <1>2, <1>5, <1>6 DEF Score
<1>8. /\ Cardinality(attempts) \in Nat /\ Cardinality(passes) \in Nat
      /\ Cardinality(errors) \in Nat
      /\ (IF Cardinality(counts) = 1 THEN counts ELSE {}) \in SUBSET Nat
  BY <1>1, <1>2, <1>5, <1>6
<1> QED
  BY <1>2, <1>3, <1>4, <1>7, <1>8 DEF Scores

\* Results of different places, each of which is held up to its trajectory, are
\* no more than what holds them.
LEMMA AtMostPublished ==
  ASSUME NEW A \in SUBSET Results, NEW P, IsFiniteSet(P), OnePerPlace(A),
         \A e \in A : \E x \in P : x = [e EXCEPT !.trajectory = x.trajectory]
  PROVE  IsFiniteSet(A) /\ Cardinality(A) <= Cardinality(P)
<1> DEFINE Held(e) == CHOOSE x \in P : x = [e EXCEPT !.trajectory = x.trajectory]
<1>1. PICK f : f = [e \in A |-> Held(e)]
  OBVIOUS
<1>2. \A e \in A : f[e] \in P /\ f[e] = [e EXCEPT !.trajectory = f[e].trajectory]
  <2> TAKE e \in A
  <2>1. f[e] = Held(e)
    BY <1>1
  <2>2. Held(e) \in P /\ Held(e) = [e EXCEPT !.trajectory = Held(e).trajectory]
    OBVIOUS
  <2> HIDE DEF Held
  <2> QED
    BY <2>1, <2>2
<1>3. \A e \in A : PlaceOf(f[e]) = PlaceOf(e)
  <2> TAKE e \in A
  <2>1. PICK y \in UNION {Archive[r] : r \in Revisions}, b \in BOOLEAN :
          e = [y EXCEPT !.trajectory = b]
    BY DEF Results
  <2>2. IsResult(y)
    BY ArchiveAssumption
  <2>3. PICK z : z = f[e].trajectory
    OBVIOUS
  <2>4. f[e] = [e EXCEPT !.trajectory = z]
    BY <1>2, <2>3
  <2> QED
    BY <2>1, <2>2, <2>4 DEF IsResult, PlaceOf
<1>4. f \in Injection(A, P)
  <2>1. f \in [A -> P]
    <3> HIDE DEF Held
    <3> QED
      BY <1>1, <1>2
  <2>2. \A a, b \in A : f[a] = f[b] => a = b
    BY <1>3 DEF OnePerPlace
  <2> QED
    BY <2>1, <2>2 DEF Injection, IsInjective
<1> QED
  BY <1>4, FS_Injection

-----------------------------------------------------------------------------
(* The queries *)

\* The initial states.
LEMMA InitIInv == Init => IInv
<1> SUFFICES ASSUME Init PROVE IInv
  OBVIOUS
<1>1. 1 \in Revisions /\ faults \in 0 .. MaxFaults
  BY ArchiveAssumption DEF Init, QueriesInit
<1>2. NoQuery \in QueryRecords /\ NoQuery.records = {}
  BY DEF NoQuery, QueryRecords
<1>0. NoReport \in Reports
  BY DEF NoReport, Reports
<1>3. TypeOK
  BY <1>0, <1>1, <1>2, ArchiveAssumption
  DEF Init, QueriesInit, TypeOK, QueryStages, Running, CommandStages
<1>4. ManifestInv
  BY DEF Init, QueriesInit, ManifestInv
<1>5. ASSUME NEW q \in Queries PROVE QueryInv(q)
  BY <1>2 DEF Init, QueriesInit, QueryInv, Running
<1>6. (\A p \in Commands : CommandInv(p)) /\ ReportsAreOfOneRevision
  BY DEF Init, CommandInv, ReportsAreOfOneRevision
<1> QED
  BY <1>3, <1>4, <1>5, <1>6 DEF IInv

\* Commands whose variables and answered queries stay are where they were.
LEMMA CommandsStay ==
  ASSUME IInv, UNCHANGED <<stage, job, drilled, report>>,
         \A q \in Queries : pc[q] = "done" => pc'[q] = "done"
  PROVE  (\A p \in Commands : CommandInv(p)') /\ ReportsAreOfOneRevision'
<1>1. ASSUME NEW p \in Commands PROVE CommandInv(p)'
  <2>1. CommandInv(p) /\ job[p] \subseteq LocalTrials
    BY DEF IInv, TypeOK
  <2>2. QueriesOf(p) \subseteq Queries
    BY <2>1, ComparisonAssumption DEF QueriesOf, TasksOf, CommandQueries
  <2>3. QueriesOf(p)' = QueriesOf(p)
    BY DEF QueriesOf
  <2> QED
    BY <2>1, <2>2, <2>3 DEF CommandInv
<1>2. ASSUME NEW p \in Commands, stage'[p] = "reported" PROVE ReportIsExact(p)'
  <2>1. ReportIsExact(p)
    BY <1>2 DEF IInv, ReportsAreOfOneRevision
  <2> QED
    BY <2>1 DEF ReportIsExact
<1> QED
  BY <1>1, <1>2 DEF ReportsAreOfOneRevision

\* What one query does is its own, but for the caches.
LEMMA OneQuery ==
  ASSUME IInv, NEW q \in Queries, pc[q] # "done", TypeOK', ManifestInv', QueryInv(q)',
         \A o \in Queries : o # q => pc'[o] = pc[o] /\ query'[o] = query[o],
         UNCHANGED <<stage, job, drilled, report>>
  PROVE  IInv'
<1>1. (\A p \in Commands : CommandInv(p)') /\ ReportsAreOfOneRevision'
  BY CommandsStay
<1>2. \A o \in Queries : QueryInv(o)'
  BY DEF IInv, QueryInv
<1> QED
  BY <1>1, <1>2 DEF IInv

\* A query that fails, or goes on with what it has.
LEMMA QueryMoves ==
  ASSUME IInv, NEW q \in Queries, NEW next \in QueryStages, Goto(q, next), pc[q] \in Running,
         \/ next \in {"failed"}
         \/ pc[q] \in {"index", "clone", "cloning", "fetch", "update"}
            /\ next \in {"clone", "cloning", "fetch", "update", "revision"},
         UNCHANGED <<upstream, paths, results, artifacts, query,
                     stage, job, drilled, report>>,
         index' \in {"absent", "cloning", "ready"}, head' \in Revisions, fetch_head' \in Revisions,
         faults' \in 0 .. MaxFaults
  PROVE  IInv'
<1>1. TypeOK /\ ManifestInv /\ QueryInv(q)
  BY DEF IInv
<1>2. pc' = [pc EXCEPT ![q] = next] /\ pc'[q] = next
  BY <1>1 DEF Goto, TypeOK
<1>3. TypeOK'
  BY <1>1, <1>2 DEF TypeOK
<1>4. ManifestInv'
  BY <1>1 DEF ManifestInv
<1>5. QueryInv(q)'
  BY <1>1, <1>2 DEF QueryInv, Running
<1>6. pc[q] # "done" /\ \A o \in Queries : o # q => pc'[o] = pc[o] /\ query'[o] = query[o]
  BY <1>1, <1>2 DEF TypeOK, Running
<1> QED
  BY <1>1, <1>3, <1>4, <1>5, <1>6, OneQuery

LEMMA IndexKeeps ==
  ASSUME IInv, NEW q \in Queries,
         LookForIndex(q) \/ StartClone(q) \/ Fetch(q) \/ UpdateRef(q) \/ QueryFails(q),
         UNCHANGED <<upstream, stage, job, drilled, report>>
  PROVE  IInv'
<1>1. TypeOK
  BY DEF IInv
<1>2. CASE LookForIndex(q)
  <2>1. PICK next \in {"clone", "fetch", "revision"} : Goto(q, next)
    BY <1>2 DEF LookForIndex
  <2> QED
    BY <1>1, <1>2, <2>1, QueryMoves DEF LookForIndex, TypeOK, cacheVars, QueryStages, Running
<1>3. CASE StartClone(q)
  <2>1. PICK next \in {"cloning", "failed"} : Goto(q, next)
    BY <1>3 DEF StartClone
  <2>2. index' \in {"absent", "cloning", "ready"} /\ pc[q] = "clone"
    BY <1>1, <1>3 DEF StartClone, TypeOK
  <2> QED
    BY <1>1, <1>3, <2>1, <2>2, QueryMoves DEF StartClone, TypeOK, QueryStages, Running
<1>4. CASE Fetch(q)
  <2>1. PICK next \in {"update", "failed"} : Goto(q, next)
    BY <1>4 DEF Fetch
  <2>2. fetch_head' \in Revisions /\ pc[q] = "fetch"
    BY <1>1, <1>4 DEF Fetch, TypeOK
  <2> QED
    BY <1>1, <1>4, <2>1, <2>2, QueryMoves DEF Fetch, TypeOK, QueryStages, Running
<1>5. CASE UpdateRef(q)
  BY <1>1, <1>5, QueryMoves DEF UpdateRef, TypeOK, QueryStages, Running
<1>6. CASE QueryFails(q)
  <2>1. faults' \in 0 .. MaxFaults
    BY <1>1, <1>6, ArchiveAssumption DEF QueryFails, TypeOK
  <2> QED
    BY <1>1, <1>6, <2>1, QueryMoves DEF QueryFails, TypeOK, cacheVars, QueryStages, Running
<1> QED
  BY <1>2, <1>3, <1>4, <1>5, <1>6

LEMMA ReadRevisionKeeps ==
  ASSUME IInv, NEW q \in Queries, ReadRevision(q), UNCHANGED <<upstream, stage, job, drilled, report>>
  PROVE  IInv'
<1>1. TypeOK /\ ManifestInv /\ QueryInv(q) /\ query[q] \in QueryRecords
  BY DEF IInv, TypeOK
<1>2. CASE index = "ready"
  <2>1. /\ pc[q] = "revision" /\ pc' = [pc EXCEPT ![q] = "paths"]
        /\ query' = [query EXCEPT ![q] = [query[q] EXCEPT !.revision = head]]
    BY <1>2 DEF ReadRevision, Goto
  <2>2. /\ query'[q] \in QueryRecords /\ query'[q].revision = head
        /\ query'[q].task = query[q].task /\ query'[q].records = query[q].records
        /\ query' \in [Queries -> QueryRecords]
    BY <1>1, <2>1 DEF TypeOK, QueryRecords
  <2>3. pc' \in [Queries -> QueryStages] /\ pc'[q] = "paths"
    BY <1>1, <2>1 DEF TypeOK, QueryStages, Running
  <2>4. TypeOK' /\ ManifestInv'
    BY <1>1, <2>2, <2>3 DEF ReadRevision, TypeOK, ManifestInv, cacheVars
  <2>5. QueryInv(q)'
    BY <1>1, <2>1, <2>2, <2>3 DEF QueryInv, TypeOK, Running
  <2> QED
    BY <1>1, <2>1, <2>4, <2>5, OneQuery DEF TypeOK
<1>3. CASE index # "ready"
  BY <1>1, <1>3, QueryMoves DEF ReadRevision, TypeOK, cacheVars, QueryStages
<1> QED
  BY <1>2, <1>3

\* The listing is that of HEAD or of the manifest: its paths are the task's.
LEMMA LoadTaskPathsKeeps ==
  ASSUME IInv, NEW q \in Queries, LoadTaskPaths(q), UNCHANGED <<upstream, stage, job, drilled, report>>
  PROVE  IInv'
<1>1. TypeOK /\ ManifestInv /\ QueryInv(q) /\ query[q] \in QueryRecords
  BY DEF IInv, TypeOK
<1>2. PICK r \in Revisions, t \in Tasks : r = query[q].revision /\ t = query[q].task
  BY <1>1 DEF LoadTaskPaths, QueryInv, Running
<1>3. PICK listed : listed = IF paths[r][t] # None THEN paths[r][t] ELSE PathsAt(head, t)
  OBVIOUS
<1>4. /\ listed \in SUBSET Paths /\ OnePerPlace(listed)
      /\ \A path \in listed : path.task = t
  <2>1. CASE paths[r][t] # None
    BY <1>1, <1>3, <2>1 DEF TypeOK, ManifestInv
  <2>2. CASE paths[r][t] = None
    BY <1>1, <1>3, <2>2, ListingFacts DEF TypeOK
  <2> QED
    BY <2>1, <2>2
<1>5. /\ pc[q] = "paths" /\ pc' = [pc EXCEPT ![q] = "results"]
      /\ paths' = [paths EXCEPT ![r] = [paths[r] EXCEPT ![t] = listed]]
      /\ query' = [query EXCEPT ![q] = [query[q] EXCEPT !.candidates = listed]]
      /\ UNCHANGED <<index, head, fetch_head, results, artifacts, faults>>
  BY <1>2, <1>3 DEF LoadTaskPaths, Goto
<1>6. /\ query'[q] \in QueryRecords /\ query'[q].revision = r /\ query'[q].candidates = listed
      /\ query'[q].task = t /\ query'[q].records = query[q].records
      /\ query' \in [Queries -> QueryRecords]
  BY <1>1, <1>2, <1>4, <1>5 DEF TypeOK, QueryRecords
<1>7. pc' \in [Queries -> QueryStages] /\ pc'[q] = "results"
  BY <1>1, <1>5 DEF TypeOK, QueryStages, Running
<1>8. /\ paths' \in [Revisions -> [Tasks -> (SUBSET Paths) \union {None}]]
      /\ \A s \in Revisions, u \in Tasks :
           paths'[s][u] = IF s = r /\ u = t THEN listed ELSE paths[s][u]
  BY <1>1, <1>4, <1>5 DEF TypeOK
<1>9. TypeOK'
  BY <1>1, <1>5, <1>6, <1>7, <1>8 DEF TypeOK
<1>10. ManifestInv'
  BY <1>1, <1>4, <1>5, <1>8 DEF ManifestInv
<1>11. QueryInv(q)'
  BY <1>1, <1>4, <1>5, <1>6, <1>7 DEF QueryInv, Running
<1> QED
  BY <1>1, <1>5, <1>9, <1>10, <1>11, OneQuery DEF TypeOK

LEMMA LoadTaskResultsKeeps ==
  ASSUME IInv, NEW q \in Queries, LoadTaskResults(q), UNCHANGED <<upstream, stage, job, drilled, report>>
  PROVE  IInv'
<1>1. TypeOK /\ ManifestInv /\ QueryInv(q) /\ query[q] \in QueryRecords
  BY DEF IInv, TypeOK
<1>2. PICK r \in Revisions, t \in Tasks : r = query[q].revision /\ t = query[q].task
  BY <1>1 DEF LoadTaskResults, QueryInv, Running
<1>3. CASE results[r][t] # None
  <2>1. /\ results[r][t] \in SUBSET Results /\ OnePerPlace(results[r][t])
        /\ \A e \in results[r][t] : HeldBy(e, r, t)
    BY <1>1, <1>3 DEF TypeOK, ManifestInv
  <2>2. /\ pc[q] = "results" /\ pc' = [pc EXCEPT ![q] = "done"]
        /\ query' = [query EXCEPT ![q] = [query[q] EXCEPT !.records = results[r][t]]]
        /\ UNCHANGED <<cacheVars, faults>>
    BY <1>2, <1>3 DEF LoadTaskResults, Goto
  <2>3. /\ query'[q] \in QueryRecords /\ query'[q].revision = r
        /\ query'[q].task = t /\ query'[q].records = results[r][t]
        /\ query' \in [Queries -> QueryRecords]
    BY <1>1, <1>2, <2>1, <2>2 DEF TypeOK, QueryRecords
  <2>4. pc' \in [Queries -> QueryStages] /\ pc'[q] = "done"
    BY <1>1, <2>2 DEF TypeOK, QueryStages
  <2>5. TypeOK' /\ ManifestInv'
    BY <1>1, <2>2, <2>3, <2>4 DEF TypeOK, ManifestInv, cacheVars
  <2>6. QueryInv(q)'
    BY <1>1, <1>2, <2>1, <2>2, <2>3, <2>4 DEF QueryInv, HeldBy, Running
  <2> QED
    BY <1>1, <2>2, <2>5, <2>6, OneQuery DEF TypeOK
<1>4. CASE results[r][t] = None
  <2>1. /\ pc[q] = "results" /\ pc' = [pc EXCEPT ![q] = "download"]
        /\ UNCHANGED <<cacheVars, faults, query>>
    BY <1>2, <1>4 DEF LoadTaskResults, Goto
  <2>2. pc' \in [Queries -> QueryStages] /\ pc'[q] = "download"
    BY <1>1, <2>1 DEF TypeOK, QueryStages, Running
  <2>3. TypeOK' /\ ManifestInv'
    BY <1>1, <2>1, <2>2 DEF TypeOK, ManifestInv, cacheVars
  <2>4. QueryInv(q)'
    BY <1>1, <2>1, <2>2 DEF QueryInv, Running, OnePerPlace
  <2> QED
    BY <1>1, <2>1, <2>3, <2>4, OneQuery DEF TypeOK
<1> QED
  BY <1>3, <1>4

\* What is fetched is what the revision has at the path, whatever HEAD is now.
LEMMA DownloadKeeps ==
  ASSUME IInv, NEW q \in Queries, Download(q), UNCHANGED <<upstream, stage, job, drilled, report>>
  PROVE  IInv'
<1>1. TypeOK /\ ManifestInv /\ QueryInv(q) /\ query[q] \in QueryRecords
  BY DEF IInv, TypeOK
<1>2. PICK r \in Revisions, t \in Tasks : r = query[q].revision /\ t = query[q].task
  BY <1>1 DEF Download, QueryInv, Running
<1>3. PICK path \in query[q].candidates :
        /\ query' = [query EXCEPT ![q].candidates = @ \ {path},
                                  ![q].records = @ \union At(r, path),
                                  ![q].missing = @ \/ At(r, path) = {},
                                  ![q].tries = 0]
        /\ artifacts' = [artifacts EXCEPT ![r] = IF At(r, path) = {} THEN @ ELSE @ \union {path}]
  BY <1>2 DEF Download
<1>4. PICK found : found = At(r, path)
  OBVIOUS
<1>5. /\ pc[q] = "download" /\ path \in Paths /\ path.task = t
      /\ UNCHANGED <<index, head, fetch_head, paths, results, pc, faults>>
  BY <1>1, <1>2, <1>3 DEF Download, QueryRecords, QueryInv
<1>6. /\ found \subseteq Results
      /\ \A e \in found : HeldBy(e, r, t) /\ PlaceOf(e) = PlaceOf(path) /\ found = {e}
  <2>1. ASSUME NEW e \in found
        PROVE  /\ e \in Results /\ HeldBy(e, r, t)
               /\ PlaceOf(e) = PlaceOf(path) /\ found = {e}
    BY <1>4, <1>5, <2>1, AtFacts
  <2> QED
    BY <2>1
<1>7. query' = [query EXCEPT ![q] =
        [query[q] EXCEPT !.candidates = query[q].candidates \ {path},
                         !.records = query[q].records \union found,
                         !.missing = query[q].missing \/ found = {},
                         !.tries = 0]]
  BY <1>1, <1>3, <1>4 DEF TypeOK, QueryRecords
<1>8. /\ query'[q] \in QueryRecords /\ query'[q].revision = r /\ query'[q].task = t
      /\ query'[q].candidates = query[q].candidates \ {path}
      /\ query'[q].records = query[q].records \union found
      /\ query' \in [Queries -> QueryRecords]
      /\ \A o \in Queries : o # q => query'[o] = query[o]
  BY <1>1, <1>2, <1>6, <1>7 DEF TypeOK, QueryRecords
<1>9. artifacts' \in [Revisions -> SUBSET Paths]
  BY <1>1, <1>3, <1>5 DEF TypeOK
<1>10. TypeOK' /\ ManifestInv'
  BY <1>1, <1>5, <1>8, <1>9 DEF TypeOK, ManifestInv
<1>11. QueryInv(q)'
  <2>1. \A e \in query'[q].records : HeldBy(e, r, t)
    BY <1>1, <1>2, <1>5, <1>6, <1>8 DEF QueryInv
  <2>2. /\ \A p \in query'[q].candidates : p.task = t
        /\ OnePerPlace(query'[q].candidates)
    BY <1>1, <1>2, <1>5, <1>8 DEF QueryInv, OnePerPlace
  <2>3. /\ OnePerPlace(query[q].records) /\ OnePerPlace(query[q].candidates)
        /\ \A e \in query[q].records, p \in query[q].candidates : PlaceOf(e) # PlaceOf(p)
    BY <1>1, <1>5 DEF QueryInv
  <2>4. ASSUME NEW e \in query'[q].records, NEW f \in query'[q].records, PlaceOf(e) = PlaceOf(f)
        PROVE  e = f
    <3>1. CASE e \in query[q].records /\ f \in query[q].records
      BY <2>3, <2>4, <3>1 DEF OnePerPlace
    <3>2. CASE e \in found /\ f \in found
      BY <1>6, <3>2
    <3>3. CASE e \in query[q].records /\ f \in found
      BY <1>3, <1>6, <2>3, <2>4, <3>3
    <3>4. CASE e \in found /\ f \in query[q].records
      BY <1>3, <1>6, <2>3, <2>4, <3>4
    <3> QED
      BY <1>8, <3>1, <3>2, <3>3, <3>4
  <2>5. \A e \in query'[q].records, p \in query'[q].candidates : PlaceOf(e) # PlaceOf(p)
    BY <1>3, <1>6, <1>8, <2>3 DEF OnePerPlace
  <2>6. q[2] \in Tasks => t = q[2]
    BY <1>1, <1>2, <1>5 DEF QueryInv, Running
  <2> QED
    BY <1>2, <1>5, <1>8, <2>1, <2>2, <2>4, <2>5, <2>6 DEF QueryInv, HeldBy, OnePerPlace
<1> QED
  BY <1>5, <1>8, <1>10, <1>11, OneQuery

LEMMA RetryKeeps ==
  ASSUME IInv, NEW q \in Queries, Retry(q), UNCHANGED <<upstream, stage, job, drilled, report>>
  PROVE  IInv'
<1>1. TypeOK /\ ManifestInv /\ QueryInv(q) /\ query[q] \in QueryRecords
  BY DEF IInv, TypeOK
<1>2. PICK n \in Nat : n = query[q].tries + 1
  BY <1>1 DEF QueryRecords
<1>3. /\ pc[q] = "download" /\ UNCHANGED <<cacheVars, faults>>
      /\ query' = [query EXCEPT ![q] = [query[q] EXCEPT !.tries = n]]
      /\ (pc' = [pc EXCEPT ![q] = "failed"] \/ pc' = pc)
  BY <1>2 DEF Retry, Goto
<1>4. /\ query'[q] \in QueryRecords /\ query'[q].revision = query[q].revision
      /\ query'[q].task = query[q].task /\ query'[q].candidates = query[q].candidates
      /\ query'[q].records = query[q].records
      /\ query' \in [Queries -> QueryRecords]
  BY <1>1, <1>3 DEF TypeOK, QueryRecords
<1>5. /\ pc' \in [Queries -> QueryStages] /\ pc'[q] \in {"download", "failed"}
      /\ \A o \in Queries : o # q => pc'[o] = pc[o] /\ query'[o] = query[o]
  BY <1>1, <1>3 DEF TypeOK, QueryStages, Running
<1>6. TypeOK' /\ ManifestInv'
  BY <1>1, <1>3, <1>4, <1>5 DEF TypeOK, ManifestInv, cacheVars
<1>7. QueryInv(q)'
  BY <1>1, <1>3, <1>4, <1>5 DEF QueryInv, Running, HeldBy
<1> QED
  BY <1>3, <1>5, <1>6, <1>7, OneQuery

\* A manifest is written once every candidate has been found.
LEMMA CommitResultsKeeps ==
  ASSUME IInv, NEW q \in Queries, CommitResults(q), UNCHANGED <<upstream, stage, job, drilled, report>>
  PROVE  IInv'
<1>1. TypeOK /\ ManifestInv /\ QueryInv(q) /\ query[q] \in QueryRecords
  BY DEF IInv, TypeOK
<1>2. PICK r \in Revisions, t \in Tasks : r = query[q].revision /\ t = query[q].task
  BY <1>1 DEF CommitResults, QueryInv, Running
<1>3. CASE query[q].missing
  BY <1>1, <1>3, QueryMoves DEF CommitResults, TypeOK, QueryStages
<1>4. CASE ~query[q].missing
  <2>1. /\ pc[q] = "download" /\ pc' = [pc EXCEPT ![q] = "done"]
        /\ results' = [results EXCEPT ![r] = [results[r] EXCEPT ![t] = query[q].records]]
        /\ UNCHANGED <<index, head, fetch_head, paths, artifacts, query, faults>>
    BY <1>2, <1>4 DEF CommitResults, Goto
  <2>2. /\ query[q].records \in SUBSET Results /\ OnePerPlace(query[q].records)
        /\ \A e \in query[q].records : HeldBy(e, r, t)
    BY <1>1, <1>2, <2>1 DEF QueryInv, QueryRecords
  <2>3. /\ results' \in [Revisions -> [Tasks -> (SUBSET Results) \union {None}]]
        /\ \A s \in Revisions, u \in Tasks :
             results'[s][u] = IF s = r /\ u = t THEN query[q].records ELSE results[s][u]
    BY <1>1, <2>1, <2>2 DEF TypeOK
  <2>4. pc' \in [Queries -> QueryStages] /\ pc'[q] = "done"
    BY <1>1, <2>1 DEF TypeOK, QueryStages
  <2>5. TypeOK'
    BY <1>1, <2>1, <2>3, <2>4 DEF TypeOK
  <2>6. ManifestInv'
    BY <1>1, <2>1, <2>2, <2>3 DEF ManifestInv, HeldBy
  <2>7. QueryInv(q)'
    BY <1>1, <2>1, <2>4 DEF QueryInv, Running, HeldBy
  <2> QED
    BY <1>1, <2>1, <2>5, <2>6, <2>7, OneQuery DEF TypeOK
<1> QED
  BY <1>3, <1>4

LEMMA AskKeeps ==
  ASSUME IInv, NEW q \in Queries, Ask(q)
  PROVE  IInv'
<1>1. UNCHANGED <<upstream, stage, job, drilled, report>>
  BY DEF Ask, QueryStep
<1> QED
  BY <1>1, IndexKeeps, ReadRevisionKeeps, LoadTaskPathsKeeps, LoadTaskResultsKeeps, DownloadKeeps,
     RetryKeeps, CommitResultsKeeps DEF Ask, QueryStep
-----------------------------------------------------------------------------
(* The commands *)

\* What a command does to queries: it leaves each alone, drops it or asks it.
LEMMA ManyQueries ==
  ASSUME IInv, TypeOK', UNCHANGED <<paths, results>>,
         \A q \in Queries :
           \/ pc'[q] = pc[q] /\ query'[q] = query[q]
           \/ pc'[q] = "idle" /\ query'[q].records = {}
           \/ /\ pc'[q] = "index" /\ query'[q].records = {}
              /\ query'[q].task \in Tasks /\ (q[2] \in Tasks => query'[q].task = q[2]),
         \A p \in Commands : CommandInv(p)',
         ReportsAreOfOneRevision'
  PROVE  IInv'
<1>1. ManifestInv'
  BY DEF IInv, ManifestInv
<1>2. ASSUME NEW q \in Queries PROVE QueryInv(q)'
  <2>1. QueryInv(q)
    BY DEF IInv
  <2>2. CASE pc'[q] = pc[q] /\ query'[q] = query[q]
    BY <2>1, <2>2 DEF QueryInv
  <2>3. CASE pc'[q] = "idle" /\ query'[q].records = {}
    BY <2>3 DEF QueryInv, Running
  <2>4. CASE /\ pc'[q] = "index" /\ query'[q].records = {}
             /\ query'[q].task \in Tasks /\ (q[2] \in Tasks => query'[q].task = q[2])
    BY <2>4 DEF QueryInv
  <2> QED
    BY <2>2, <2>3, <2>4
<1> QED
  BY <1>1, <1>2 DEF IInv

\* A command leaves the others, their queries and their reports alone.
LEMMA OtherCommands ==
  ASSUME IInv, NEW p \in Commands,
         \A o \in Commands :
           o # p => stage'[o] = stage[o] /\ job'[o] = job[o] /\ report'[o] = report[o],
         \A q \in Queries : q[1] # p => pc'[q] = pc[q],
         CommandInv(p)',
         stage'[p] = "reported" => ReportIsExact(p)'
  PROVE  (\A o \in Commands : CommandInv(o)') /\ ReportsAreOfOneRevision'
<1>1. ASSUME NEW o \in Commands, o # p PROVE CommandInv(o)'
  <2>1. CommandInv(o) /\ job[o] \subseteq LocalTrials
    BY DEF IInv, TypeOK
  <2>2. \A q \in QueriesOf(o) : q \in Queries /\ q[1] # p
    BY <1>1, <2>1, ComparisonAssumption DEF QueriesOf, TasksOf, CommandQueries
  <2>3. QueriesOf(o)' = QueriesOf(o)
    BY <1>1 DEF QueriesOf
  <2> QED
    BY <1>1, <2>1, <2>2, <2>3 DEF CommandInv
<1>2. ASSUME NEW o \in Commands, o # p, stage'[o] = "reported" PROVE ReportIsExact(o)'
  BY <1>2 DEF IInv, ReportsAreOfOneRevision, ReportIsExact
<1> QED
  BY <1>1, <1>2 DEF ReportsAreOfOneRevision

\* The empty query, and one that begins.
LEMMA QueryRecordFacts ==
  /\ NoQuery \in QueryRecords /\ NoQuery.records = {}
  /\ \A q : \A t \in Tasks, refresh \in BOOLEAN :
       /\ Asked(q, t, refresh) \in QueryRecords
       /\ Asked(q, t, refresh).task = t /\ Asked(q, t, refresh).records = {}
BY DEF NoQuery, Asked, QueryRecords

\* Dropping a command's queries, as it fails or reports.
LEMMA ReleaseKeeps ==
  ASSUME IInv, NEW p \in Commands, NEW next \in {"failed", "reported"}, Move(p, next), Release(p),
         UNCHANGED <<upstream, cacheVars, faults, job, drilled>>,
         report' \in [Commands -> Reports], \A o \in Commands : o # p => report'[o] = report[o],
         next = "reported" => ReportIsExact(p)'
  PROVE  IInv'
<1>1. TypeOK /\ \A o \in Commands : CommandInv(o)
  BY DEF IInv
<1>2. stage' = [stage EXCEPT ![p] = next] /\ stage'[p] = next
  BY <1>1 DEF Move, TypeOK
<1>3. \A q \in Queries :
        \/ pc'[q] = pc[q] /\ query'[q] = query[q]
        \/ q[1] = p /\ pc'[q] = "idle" /\ query'[q] = NoQuery
  BY DEF Release
<1>4. pc' \in [Queries -> QueryStages]
  BY <1>1 DEF Release, TypeOK, QueryStages
<1>5. query' \in [Queries -> QueryRecords]
  BY <1>1, QueryRecordFacts DEF Release, TypeOK
<1>6. stage' \in [Commands -> CommandStages]
  BY <1>1, <1>2 DEF TypeOK, CommandStages
<1>7. TypeOK'
  BY <1>1, <1>4, <1>5, <1>6 DEF TypeOK, cacheVars
<1>8. CommandInv(p)' /\ \A o \in Commands : o # p => stage'[o] = stage[o]
  BY <1>1, <1>2 DEF CommandInv, TypeOK
<1>9. (\A o \in Commands : CommandInv(o)') /\ ReportsAreOfOneRevision'
  BY <1>2, <1>3, <1>8, OtherCommands
<1> QED
  BY <1>3, <1>7, <1>9, ManyQueries, QueryRecordFacts DEF cacheVars

LEMMA BailKeeps ==
  ASSUME IInv, NEW p \in Commands, Bail(p)
  PROVE  IInv'
<1>1. report \in [Commands -> Reports]
  BY DEF IInv, TypeOK
<1> QED
  BY <1>1, ReleaseKeeps DEF Bail

LEMMA LoadKeeps ==
  ASSUME IInv, NEW p \in Commands, Load(p)
  PROVE  IInv'
<1>1. TypeOK /\ \A o \in Commands : CommandInv(o)
  BY DEF IInv
<1>2. SUFFICES ASSUME NEW trials \in SUBSET LocalTrials, NEW chosen,
                      chosen = Selected(p, trials), chosen # {},
                      job' = [job EXCEPT ![p] = chosen],
                      Move(p, "querying"),
                      query' = [q \in Queries |->
                                 IF q[1] = p /\ q[2] \in TasksOf(chosen)
                                 THEN Asked(q, q[2], Options[p].refresh) ELSE query[q]],
                      pc' = [q \in Queries |->
                               IF q[1] = p /\ q[2] \in TasksOf(chosen) THEN "index" ELSE pc[q]],
                      UNCHANGED <<upstream, cacheVars, faults, drilled, report>>
               PROVE  IInv'
  BY BailKeeps, Zenon DEF Load
<1>3. chosen \subseteq LocalTrials
  BY <1>2 DEF Selected
<1>4. TasksOf(chosen) \subseteq Tasks /\ Options[p].refresh \in BOOLEAN
  BY <1>3, ComparisonAssumption DEF TasksOf
<1>5. \A q \in Queries :
        \/ pc'[q] = pc[q] /\ query'[q] = query[q]
        \/ /\ pc'[q] = "index" /\ query'[q].records = {} /\ q[1] = p
           /\ query'[q].task \in Tasks /\ query'[q].task = q[2]
  <2> TAKE q \in Queries
  <2>1. CASE q[1] = p /\ q[2] \in TasksOf(chosen)
    <3>1. query'[q] = Asked(q, q[2], Options[p].refresh) /\ pc'[q] = "index" /\ q[2] \in Tasks
      BY <1>2, <1>4, <2>1
    <3> QED
      BY <1>4, <2>1, <3>1, QueryRecordFacts
  <2>2. CASE ~(q[1] = p /\ q[2] \in TasksOf(chosen))
    BY <1>2, <2>2
  <2> QED
    BY <2>1, <2>2
<1>6. query' \in [Queries -> QueryRecords]
  BY <1>1, <1>2, <1>4, QueryRecordFacts DEF TypeOK
<1>7. pc' \in [Queries -> QueryStages]
  BY <1>1, <1>2 DEF TypeOK, QueryStages, Running
<1>8. stage' = [stage EXCEPT ![p] = "querying"] /\ stage'[p] = "querying"
  BY <1>1, <1>2 DEF Move, TypeOK
<1>9. stage' \in [Commands -> CommandStages] /\ job' \in [Commands -> SUBSET LocalTrials]
  BY <1>1, <1>2, <1>3, <1>8 DEF TypeOK, CommandStages
<1>10. TypeOK'
  BY <1>1, <1>2, <1>6, <1>7, <1>9 DEF TypeOK, cacheVars
<1>11. /\ CommandInv(p)'
       /\ \A o \in Commands : o # p => stage'[o] = stage[o] /\ job'[o] = job[o]
  BY <1>1, <1>2, <1>8 DEF CommandInv, TypeOK
<1>12. (\A o \in Commands : CommandInv(o)') /\ ReportsAreOfOneRevision'
  BY <1>2, <1>5, <1>8, <1>11, OtherCommands
<1> QED
  BY <1>2, <1>5, <1>10, <1>12, ManyQueries DEF cacheVars

\* A command that goes on once its queries are answered.
LEMMA ComparingKeeps ==
  ASSUME IInv, NEW p \in Commands, stage[p] \in {"querying", "drilling"},
         \A q \in QueriesOf(p) : pc[q] = "done",
         Move(p, "comparing"), UNCHANGED <<queryVars, job, report>>,
         drilled' \in [Commands -> {<<>>} \union (LocalTrials \X Results)]
  PROVE  IInv'
<1>1. TypeOK /\ (\A o \in Commands : CommandInv(o)) /\ UNCHANGED <<pc, query, paths, results>>
  BY DEF IInv, queryVars, cacheVars
<1>2. stage' = [stage EXCEPT ![p] = "comparing"] /\ stage'[p] = "comparing"
  BY <1>1 DEF Move, TypeOK
<1>3. stage' \in [Commands -> CommandStages]
  BY <1>1, <1>2 DEF TypeOK, CommandStages
<1>4. TypeOK'
  BY <1>1, <1>3 DEF TypeOK, queryVars, cacheVars
<1>5. /\ CommandInv(p)'
      /\ \A o \in Commands : o # p => stage'[o] = stage[o]
  BY <1>1, <1>2 DEF CommandInv, TypeOK, QueriesOf
<1>6. (\A o \in Commands : CommandInv(o)') /\ ReportsAreOfOneRevision'
  BY <1>1, <1>2, <1>5, OtherCommands
<1> QED
  BY <1>1, <1>4, <1>6, ManyQueries

\* The task a --show is about is one of the job's.
LEMMA JoinAllKeeps ==
  ASSUME IInv, NEW p \in Commands, JoinAll(p)
  PROVE  IInv'
<1>1. /\ TypeOK /\ (\A o \in Commands : CommandInv(o)) /\ stage[p] = "querying"
      /\ \A q \in QueriesOf(p) : pc[q] = "done"
  BY DEF IInv, JoinAll
<1>2. ASSUME Move(p, "comparing"), UNCHANGED <<queryVars, job, drilled, report>> PROVE IInv'
  BY <1>1, <1>2, ComparingKeeps DEF TypeOK
<1>3. ASSUME NEW task, task = CHOOSE t \in TasksOf(job[p]) : TRUE,
             Move(p, "drilling"),
             query' = [query EXCEPT ![<<p, Drill>>] = Asked(<<p, Drill>>, task, Options[p].refresh)],
             Goto(<<p, Drill>>, "index"),
             UNCHANGED <<upstream, cacheVars, faults, job, drilled, report>>
      PROVE  IInv'
  <2>1. /\ stage' = [stage EXCEPT ![p] = "drilling"] /\ stage'[p] = "drilling"
        /\ pc' = [pc EXCEPT ![<<p, Drill>>] = "index"]
    BY <1>1, <1>3 DEF Move, Goto, TypeOK
  <2>2. job[p] # {} /\ job[p] \subseteq LocalTrials
    BY <1>1 DEF CommandInv, TypeOK
  <2>3. TasksOf(job[p]) # {} /\ TasksOf(job[p]) \subseteq Tasks
    BY <2>2, ComparisonAssumption DEF TasksOf
  <2>4. task \in Tasks /\ Options[p].refresh \in BOOLEAN /\ Drill \notin Tasks
    BY <1>3, <2>3, ComparisonAssumption
  <2>5. PICK asked \in QueryRecords :
          asked = Asked(<<p, Drill>>, task, Options[p].refresh)
    BY <2>4, QueryRecordFacts
  <2>6. asked.task \in Tasks /\ asked.records = {}
    BY <2>4, <2>5, QueryRecordFacts
  <2>7. query' = [query EXCEPT ![<<p, Drill>>] = asked]
    BY <1>3, <2>5
  <2>8. ASSUME NEW q \in Queries
        PROVE  \/ pc'[q] = pc[q] /\ query'[q] = query[q]
               \/ /\ pc'[q] = "index" /\ query'[q].records = {} /\ q[1] = p
                  /\ query'[q].task \in Tasks /\ (q[2] \in Tasks => query'[q].task = q[2])
    <3>1. CASE q = <<p, Drill>>
      BY <1>1, <2>1, <2>4, <2>6, <2>7, <3>1 DEF TypeOK
    <3>2. CASE q # <<p, Drill>>
      BY <1>1, <2>1, <2>7, <3>2 DEF TypeOK
    <3> QED
      BY <3>1, <3>2
  <2>9. query' \in [Queries -> QueryRecords]
    BY <1>1, <2>7 DEF TypeOK
  <2>10. pc' \in [Queries -> QueryStages]
    BY <1>1, <2>1 DEF TypeOK, QueryStages, Running
  <2>11. stage' \in [Commands -> CommandStages]
    BY <1>1, <2>1 DEF TypeOK, CommandStages
  <2>12. TypeOK'
    BY <1>1, <1>3, <2>9, <2>10, <2>11 DEF TypeOK, cacheVars
  <2>13. \A q \in QueriesOf(p) : q \in Queries /\ q # <<p, Drill>>
    BY <2>3, <2>4, ComparisonAssumption DEF QueriesOf, CommandQueries
  <2>14. \A q \in QueriesOf(p) : pc'[q] = "done"
    BY <1>1, <2>1, <2>13 DEF TypeOK
  <2>15. QueriesOf(p)' = QueriesOf(p)
    BY <1>3 DEF QueriesOf
  <2>16. CommandInv(p)' /\ \A o \in Commands : o # p => stage'[o] = stage[o]
    BY <1>1, <1>3, <2>1, <2>2, <2>14, <2>15 DEF CommandInv, TypeOK
  <2>17. (\A o \in Commands : CommandInv(o)') /\ ReportsAreOfOneRevision'
    BY <1>3, <2>1, <2>8, <2>16, OtherCommands
  <2> QED
    BY <1>3, <2>8, <2>12, <2>17, ManyQueries DEF cacheVars
<1> QED
  BY <1>2, <1>3, BailKeeps, Zenon DEF JoinAll

LEMMA DrillDownKeeps ==
  ASSUME IInv, NEW p \in Commands, DrillDown(p)
  PROVE  IInv'
<1> DEFINE q == <<p, Drill>>
           best == BestOf(query[q].records, ChecksumOf(job[p], query[q].task), Options[p].show)
<1>1. /\ TypeOK /\ stage[p] = "drilling"
      /\ \A o \in QueriesOf(p) : pc[o] = "done"
  BY DEF IInv, DrillDown, CommandInv
<1>2. query[q] \in QueryRecords
  BY <1>1, ComparisonAssumption DEF TypeOK, CommandQueries
<1>3. best \subseteq Results
  BY <1>2 DEF BestOf, QueryRecords
<1>4. SelectAttempt(p) \subseteq LocalTrials
  BY <1>1 DEF SelectAttempt, TypeOK
<1> HIDE DEF best
<1>5. ASSUME NEW e \in best, NEW t \in SelectAttempt(p), drilled' = [drilled EXCEPT ![p] = <<t, e>>],
             Move(p, "comparing"), UNCHANGED <<queryVars, job, report>>
      PROVE  IInv'
  <2>1. drilled' \in [Commands -> {<<>>} \union (LocalTrials \X Results)]
    BY <1>1, <1>3, <1>4, <1>5 DEF TypeOK
  <2> QED
    BY <1>1, <1>5, <2>1, ComparingKeeps
<1> QED
  BY <1>5, BailKeeps, Zenon DEF DrillDown, best

\* Results that differ in whether there is a trajectory next to them.
Alike(e, x) ==
  /\ x.task = e.task /\ x.submission = e.submission /\ x.checksum = e.checksum
  /\ x.reward = e.reward /\ x.errored = e.errored

LEMMA ResultFacts ==
  ASSUME NEW e \in Results, NEW x, x = [e EXCEPT !.trajectory = x.trajectory]
  PROVE  Alike(e, x)
<1>1. PICK y \in UNION {Archive[s] : s \in Revisions}, b \in BOOLEAN :
        e = [y EXCEPT !.trajectory = b]
  BY DEF Results
<1>2. IsResult(y)
  BY ArchiveAssumption
<1>3. PICK c : x = [e EXCEPT !.trajectory = c]
  OBVIOUS
<1> QED
  BY <1>1, <1>2, <1>3 DEF IsResult, Alike

\* The attempts a report is made of: the answers to a job's queries at one
\* revision never meet at a place.
LEMMA AttemptsFacts ==
  ASSUME IInv, NEW p \in Commands, stage[p] = "comparing", NEW r, RevisionsOf(p) = {r}
  PROVE  /\ r \in Revisions /\ Attempts(p) \in SUBSET Results /\ OnePerPlace(Attempts(p))
         /\ \A e \in Attempts(p) : /\ e.task \in TasksOf(job[p])
                                   /\ HeldBy(e, r, e.task)
         /\ IsFiniteSet(Attempts(p))
<1>1. /\ \A q \in QueriesOf(p) : pc[q] = "done"
      /\ job[p] # {} /\ job[p] \subseteq LocalTrials
  BY DEF IInv, CommandInv, TypeOK
<1>2. TasksOf(job[p]) # {} /\ TasksOf(job[p]) \subseteq Tasks
  BY <1>1, ComparisonAssumption DEF TasksOf
<1>3. ASSUME NEW t \in TasksOf(job[p])
      PROVE  LET asked == query[<<p, t>>]
             IN  /\ asked.records \in SUBSET Results /\ OnePerPlace(asked.records)
                 /\ asked.revision = r /\ r \in Revisions
                 /\ \A e \in asked.records : HeldBy(e, r, t) /\ e.task = t
  <2>1. <<p, t>> \in QueriesOf(p) /\ <<p, t>> \in Queries /\ t \in Tasks
    BY <1>2, ComparisonAssumption DEF QueriesOf, CommandQueries
  <2>2. PICK asked \in QueryRecords : asked = query[<<p, t>>]
    BY <2>1 DEF IInv, TypeOK
  <2>3. asked.revision = r
    BY <2>1, <2>2 DEF RevisionsOf
  <2>4. /\ asked.revision \in Revisions /\ asked.task = t /\ OnePerPlace(asked.records)
        /\ \A e \in asked.records : HeldBy(e, asked.revision, asked.task)
    BY <1>1, <2>1, <2>2 DEF IInv, QueryInv
  <2>5. asked.records \in SUBSET Results
    BY <2>2 DEF QueryRecords
  <2>6. ASSUME NEW e \in asked.records PROVE e.task = t
    <3>1. PICK x \in Archive[r] : x.task = t /\ x = [e EXCEPT !.trajectory = x.trajectory]
      BY <2>3, <2>4 DEF HeldBy
    <3> QED
      BY <2>5, <3>1, ResultFacts DEF Alike
  <2> QED
    BY <2>2, <2>3, <2>4, <2>5, <2>6
<1>4. Attempts(p) = UNION {query[<<p, t>>].records : t \in TasksOf(job[p])}
  BY DEF Attempts, QueriesOf
<1>5. r \in Revisions
  BY <1>2, <1>3
<1>6. ASSUME NEW e \in Attempts(p)
      PROVE  e \in Results /\ e.task \in TasksOf(job[p]) /\ HeldBy(e, r, e.task)
  <2>1. PICK t \in TasksOf(job[p]) : e \in query[<<p, t>>].records
    BY <1>4
  <2> QED
    BY <1>3, <2>1
<1>7. Attempts(p) \in SUBSET Results
  BY <1>6
<1>8. OnePerPlace(Attempts(p))
  <2>1. ASSUME NEW e \in Attempts(p), NEW f \in Attempts(p), PlaceOf(e) = PlaceOf(f) PROVE e = f
    <3>1. PICK t \in TasksOf(job[p]) : e \in query[<<p, t>>].records
      BY <1>4
    <3>2. PICK u \in TasksOf(job[p]) : f \in query[<<p, u>>].records
      BY <1>4
    <3>3. t = u
      BY <1>3, <2>1, <3>1, <3>2 DEF PlaceOf
    <3> QED
      BY <1>3, <2>1, <3>1, <3>2, <3>3 DEF OnePerPlace
  <2> QED
    BY <2>1 DEF OnePerPlace
<1>9. \A e \in Attempts(p) : \E x \in Archive[r] : x = [e EXCEPT !.trajectory = x.trajectory]
  BY <1>6 DEF HeldBy
<1>10. IsFiniteSet(Attempts(p))
  BY <1>5, <1>7, <1>8, <1>9, AtMostPublished, ArchiveAssumption
<1> QED
  BY <1>5, <1>6, <1>7, <1>8, <1>10

\* An exact run of the report counts attempts that the revision holds.
LEMMA ExactRunFacts ==
  ASSUME IInv, NEW p \in Commands, stage[p] = "comparing", NEW r, RevisionsOf(p) = {r},
         NEW run \in ExactRuns(p)
  PROVE  LET published == {e \in Archive[r] : /\ e.submission = run.submission
                                              /\ e.task \in TasksOf(job[p])
                                              /\ e.checksum = ChecksumOf(job[p], e.task)}
         IN  /\ run \in PublishedScores
             /\ run.tasks = TasksOf(job[p])
             /\ run.trials <= Cardinality(published)
             /\ run.passes <= Cardinality({e \in published : Passed(e)})
<1> DEFINE exact == {e \in Attempts(p) : e.checksum = ChecksumOf(job[p], e.task)}
           of(s) == {e \in exact : e.submission = s}
           published(s) == {e \in Archive[r] : /\ e.submission = s
                                               /\ e.task \in TasksOf(job[p])
                                               /\ e.checksum = ChecksumOf(job[p], e.task)}
<1>1. /\ r \in Revisions /\ Attempts(p) \in SUBSET Results /\ OnePerPlace(Attempts(p))
      /\ \A e \in Attempts(p) : e.task \in TasksOf(job[p]) /\ HeldBy(e, r, e.task)
  BY AttemptsFacts
<1>2. PICK e \in exact : run = Score(e.submission, of(e.submission)) /\ run.tasks = TasksOf(job[p])
  BY DEF ExactRuns
<1>3. PICK s : s = e.submission
  OBVIOUS
<1>4. TasksOf(job[p]) \subseteq Tasks
  BY ComparisonAssumption DEF IInv, TypeOK, TasksOf
<1>5. \A f \in Attempts(p) : \E x \in Archive[r] :
        /\ x = [f EXCEPT !.trajectory = x.trajectory] /\ Alike(f, x)
  BY <1>1, ResultFacts DEF HeldBy
<1>6. s \in Nat
  BY <1>1, <1>2, <1>3, <1>5, ArchiveAssumption DEF Alike, IsResult
<1>7. of(s) \in SUBSET Results /\ OnePerPlace(of(s)) /\ IsFiniteSet(Archive[r])
  BY <1>1, ArchiveAssumption DEF OnePerPlace
<1>8. IsFiniteSet(published(s)) /\ IsFiniteSet({x \in published(s) : Passed(x)})
  BY <1>7, FS_Subset
<1>9. \A f \in of(s) : \E x \in published(s) :
        x = [f EXCEPT !.trajectory = x.trajectory] /\ (Passed(f) => Passed(x))
  <2> TAKE f \in of(s)
  <2>1. PICK x \in Archive[r] : x = [f EXCEPT !.trajectory = x.trajectory] /\ Alike(f, x)
    BY <1>5
  <2>2. x \in published(s)
    BY <1>1, <2>1 DEF Alike
  <2>3. Passed(f) => Passed(x)
    BY <2>1 DEF Alike, Passed
  <2> QED
    BY <2>1, <2>2, <2>3
<1>10. IsFiniteSet(of(s)) /\ Cardinality(of(s)) <= Cardinality(published(s))
  BY <1>7, <1>8, <1>9, AtMostPublished
<1>11. Cardinality({f \in of(s) : Passed(f)}) <= Cardinality({x \in published(s) : Passed(x)})
  <2> DEFINE passed == {f \in of(s) : Passed(f)}
  <2>1. passed \in SUBSET Results /\ OnePerPlace(passed)
    BY <1>7 DEF OnePerPlace
  <2>2. \A f \in passed : \E x \in {y \in published(s) : Passed(y)} :
          x = [f EXCEPT !.trajectory = x.trajectory]
    BY <1>9
  <2> HIDE DEF of, published, passed
  <2>3. Cardinality(passed) <= Cardinality({y \in published(s) : Passed(y)})
    BY <1>8, <2>1, <2>2, AtMostPublished
  <2> QED
    BY <2>3 DEF passed
<1>12. \A f \in of(s) : f.task \in Tasks
  BY <1>1, <1>4
<1> HIDE DEF of
<1>13. /\ run \in Scores /\ run.submission = s /\ run.trials = Cardinality(of(s))
       /\ run.passes = Cardinality({f \in of(s) : Passed(f)})
  BY <1>2, <1>3, <1>6, <1>10, <1>12, ScoreFacts
<1> QED
  BY <1>2, <1>6, <1>10, <1>11, <1>13 DEF PublishedScores

\* The runs a report chooses from are finitely many scores.
LEMMA RunsAreFinite ==
  ASSUME IInv, NEW p \in Commands, stage[p] = "comparing", NEW r, RevisionsOf(p) = {r}
  PROVE  /\ ExactRuns(p) \in SUBSET PublishedScores /\ IsFiniteSet(ExactRuns(p))
         /\ OtherRuns(p) \in SUBSET PublishedScores /\ IsFiniteSet(OtherRuns(p))
<1>1. /\ r \in Revisions /\ Attempts(p) \in SUBSET Results /\ IsFiniteSet(Attempts(p))
      /\ \A e \in Attempts(p) : e.task \in TasksOf(job[p]) /\ HeldBy(e, r, e.task)
  BY AttemptsFacts
<1>2. TasksOf(job[p]) \subseteq Tasks
  BY ComparisonAssumption DEF IInv, TypeOK, TasksOf
<1>3. \A A \in SUBSET Attempts(p) : IsFiniteSet(A) /\ \A e \in A : e.task \in Tasks
  BY <1>1, <1>2, FS_Subset
<1>4. \A e \in Attempts(p) : e.submission \in Nat
  BY <1>1, ResultFacts, ArchiveAssumption DEF HeldBy, Alike, IsResult
<1>5. ExactRuns(p) \in SUBSET PublishedScores
  BY ExactRunFacts
<1>6. IsFiniteSet(ExactRuns(p))
  <2> DEFINE exact == {e \in Attempts(p) : e.checksum = ChecksumOf(job[p], e.task)}
             by(s) == Score(s, {e \in exact : e.submission = s})
             all == {by(e.submission) : e \in exact}
  <2>1. IsFiniteSet(exact)
    BY <1>3
  <2>2. PICK f : f = [e \in exact |-> by(e.submission)]
    OBVIOUS
  <2>3. f \in Surjection(exact, all)
    <3> HIDE DEF by, exact
    <3> QED
      BY <2>2 DEF Surjection
  <2>4. IsFiniteSet(all)
    <3> HIDE DEF all, exact
    <3> QED
      BY <2>1, <2>3, ImageIsFinite
  <2>5. ExactRuns(p) = {run \in all : run.tasks = TasksOf(job[p])}
    BY DEF ExactRuns
  <2> HIDE DEF all
  <2>6. ExactRuns(p) \in SUBSET all
    BY <2>5
  <2> QED
    BY <2>4, <2>6, FS_Subset
<1>7. OtherRuns(p) \in SUBSET PublishedScores /\ IsFiniteSet(OtherRuns(p))
  <2> DEFINE others == {e \in Attempts(p) : e.checksum # ChecksumOf(job[p], e.task)}
             of(e) == {f \in others : f.submission = e.submission /\ f.checksum = e.checksum}
             all == {Score(e.submission, of(e)) : e \in others}
  <2>1. IsFiniteSet(others)
    BY <1>3
  <2>2. PICK f : f = [e \in others |-> Score(e.submission, of(e))]
    OBVIOUS
  <2>3. f \in Surjection(others, all)
    <3> HIDE DEF of, others
    <3> QED
      BY <2>2 DEF Surjection
  <2>4. IsFiniteSet(all)
    <3> HIDE DEF all, others
    <3> QED
      BY <2>1, <2>3, ImageIsFinite
  <2>5. ASSUME NEW e \in others PROVE Score(e.submission, of(e)) \in PublishedScores
    <3>1. of(e) \in SUBSET Attempts(p) /\ e.submission \in Nat
      BY <1>4
    <3>2. IsFiniteSet(of(e)) /\ \A x \in of(e) : x.task \in Tasks
      BY <1>3, <3>1
    <3> HIDE DEF of, others
    <3>3. /\ Score(e.submission, of(e)) \in Scores
          /\ Score(e.submission, of(e)).submission = e.submission
      BY <3>1, <3>2, ScoreFacts
    <3> QED
      BY <3>1, <3>3 DEF PublishedScores
  <2>6. OtherRuns(p) \in {{}, all}
    BY DEF OtherRuns
  <2>7. all \in SUBSET PublishedScores
    <3> HIDE DEF of, others
    <3> QED
      BY <2>5
  <2> HIDE DEF all
  <2> QED
    BY <2>4, <2>6, <2>7, FS_EmptySet
<1> QED
  BY <1>5, <1>6, <1>7

LEMMA CompareKeeps ==
  ASSUME IInv, NEW p \in Commands, Compare(p)
  PROVE  IInv'
<1>1. TypeOK /\ stage[p] = "comparing"
  BY DEF IInv, Compare
<1>2. CASE ~OneRevision(p)
  BY <1>2, BailKeeps DEF Compare
<1>3. CASE OneRevision(p)
  <2>1. PICK r : RevisionsOf(p) = {r}
    <3>1. RevisionsOf(p) \subseteq Revisions
      <4>1. CommandInv(p) /\ job[p] \subseteq LocalTrials
        BY DEF IInv, TypeOK
      <4>2. \A q \in QueriesOf(p) : q \in Queries /\ pc[q] = "done"
        BY <1>1, <4>1, ComparisonAssumption DEF CommandInv, QueriesOf, TasksOf, CommandQueries
      <4> QED
        BY <4>2 DEF IInv, QueryInv, RevisionsOf
    <3>2. IsFiniteSet(Revisions)
      <4>1. PICK n \in Nat : Revisions = 1 .. n
        BY ArchiveAssumption
      <4> QED
        BY <4>1, FS_Interval
    <3>3. IsFiniteSet(RevisionsOf(p))
      BY <3>1, <3>2, FS_Subset
    <3> QED
      BY <1>3, <3>3, FS_Singleton DEF OneRevision
  <2>2. r \in Revisions
    BY <1>1, <2>1, AttemptsFacts
  <2>3. PICK limit \in Nat : limit = Options[p].limit
    BY ComparisonAssumption
  <2>4. PICK exact \in Seq(Scores) :
          /\ exact = Top(limit, ExactRuns(p))
          /\ \A k \in DOMAIN exact : exact[k] \in ExactRuns(p)
    BY <1>1, <2>1, RunsAreFinite, TopFacts
  <2>5. PICK others \in Seq(Scores) : others = Top(limit, OtherRuns(p))
    BY <1>1, <2>1, RunsAreFinite, TopFacts
  <2>6. PICK local \in Scores : local = Score(Local, job[p])
    <3>1. job[p] \in SUBSET LocalTrials
      BY <1>1 DEF TypeOK
    <3>2. IsFiniteSet(job[p]) /\ \A e \in job[p] : e.task \in Tasks
      BY <3>1, ComparisonAssumption, FS_Subset
    <3> QED
      BY <3>2, ScoreFacts
  <2>7. report' = [report EXCEPT ![p] =
                     [revision |-> r, local |-> local, exact |-> exact, others |-> others]]
    <3>1. (CHOOSE x \in RevisionsOf(p) : TRUE) = r
      BY <2>1
    <3> QED
      BY <1>3, <2>3, <2>4, <2>5, <2>6, <3>1 DEF Compare
  <2>8. report' \in [Commands -> Reports] /\ \A o \in Commands : o # p => report'[o] = report[o]
    BY <1>1, <2>2, <2>7 DEF TypeOK, Reports
  <2>9. /\ Move(p, "reported") /\ Release(p)
        /\ UNCHANGED <<upstream, cacheVars, faults, job, drilled>>
    BY <1>3 DEF Compare
  <2>10. ReportIsExact(p)'
    <3>1. report'[p].exact = exact /\ report'[p].revision = r /\ job' = job
      BY <1>1, <2>7, <2>9 DEF TypeOK
    <3>2. ASSUME NEW k \in DOMAIN exact
          PROVE  LET run == exact[k]
                     published == {e \in Archive[r] : /\ e.submission = run.submission
                                                      /\ e.task \in TasksOf(job[p])
                                                      /\ e.checksum = ChecksumOf(job[p], e.task)}
                 IN  /\ run.tasks = TasksOf(job[p])
                     /\ run.trials <= Cardinality(published)
                     /\ run.passes <= Cardinality({e \in published : Passed(e)})
      BY <1>1, <2>1, <2>4, ExactRunFacts
    <3> QED
      BY <3>1, <3>2 DEF ReportIsExact
  <2> QED
    BY <2>8, <2>9, <2>10, ReleaseKeeps
<1> QED
  BY <1>2, <1>3

LEMMA CommandStepKeeps ==
  ASSUME IInv, NEW p \in Commands, CommandStep(p)
  PROVE  IInv'
<1>1. CASE JoinFailed(p)
  BY <1>1, BailKeeps DEF JoinFailed
<1> QED
  BY <1>1, JoinAllKeeps, DrillDownKeeps, CompareKeeps DEF CommandStep
-----------------------------------------------------------------------------
(* Git and the archive *)

\* A clone that ends takes every query that waits for it along.
LEMMA GitCloneKeeps ==
  ASSUME IInv, GitClone, UNCHANGED <<stage, job, drilled, report>>
  PROVE  IInv'
<1>1. TypeOK /\ ManifestInv
  BY DEF IInv
<1>2. PICK next \in {"revision", "failed"} : pc' = Cloners(next)
  BY DEF GitClone
<1>3. pc' \in [Queries -> QueryStages]
  BY <1>1, <1>2 DEF Cloners, TypeOK, QueryStages, Running
<1>4. /\ index' \in {"absent", "cloning", "ready"} /\ head' \in Revisions
      /\ faults' \in 0 .. MaxFaults
  BY <1>1, ArchiveAssumption DEF GitClone, TypeOK
<1>5. TypeOK' /\ ManifestInv'
  BY <1>1, <1>3, <1>4 DEF GitClone, TypeOK, ManifestInv
<1>6. ASSUME NEW q \in Queries PROVE QueryInv(q)'
  <2>1. QueryInv(q) /\ query'[q] = query[q]
    BY DEF IInv, GitClone
  <2>2. pc'[q] = pc[q] \/ (pc[q] = "cloning" /\ pc'[q] \in {"revision", "failed"})
    BY <1>2 DEF Cloners
  <2> QED
    BY <2>1, <2>2 DEF QueryInv, Running
<1>7. \A q \in Queries : pc[q] = "done" => pc'[q] = "done"
  BY <1>2 DEF Cloners
<1> QED
  BY <1>5, <1>6, <1>7, CommandsStay DEF IInv

LEMMA PublishRevisionKeeps ==
  ASSUME IInv, PublishRevision, UNCHANGED <<stage, job, drilled, report>>
  PROVE  IInv'
<1>1. TypeOK
  BY DEF IInv
<1>2. upstream' \in Revisions
  BY <1>1, ArchiveAssumption DEF PublishRevision, TypeOK
<1>3. TypeOK'
  BY <1>1, <1>2 DEF PublishRevision, TypeOK, cacheVars
<1>4. UNCHANGED <<paths, results, pc, query>>
  BY DEF PublishRevision, cacheVars
<1> QED
  BY <1>3, <1>4, ManyQueries, CommandsStay

\* Every step.
LEMMA NextIInv == IInv /\ [Next]_vars => IInv'
<1> SUFFICES ASSUME IInv, [Next]_vars PROVE IInv'
  OBVIOUS
<1>1. CASE UNCHANGED vars
  <2>1. TypeOK'
    BY <1>1 DEF IInv, TypeOK, vars, queryVars, cacheVars
  <2> QED
    BY <1>1, <2>1, ManyQueries, CommandsStay DEF vars, queryVars, cacheVars
<1>2. CASE Next
  BY <1>2, LoadKeeps, CommandStepKeeps, AskKeeps, GitCloneKeeps, PublishRevisionKeeps DEF Next
<1> QED
  BY <1>1, <1>2

LEMMA Invariant == Spec => []IInv
BY InitIInv, NextIInv, PTL DEF Spec
-----------------------------------------------------------------------------
\* Every variable of the commands, their queries and the caches they share
\* stays within its type.
THEOREM Typing == Spec => []TypeOK
<1>1. IInv => TypeOK
  BY DEF IInv
<1> QED
  BY <1>1, Invariant, PTL

\* A results manifest holds results of its revision and its task only, however
\* many commands refresh the index between the listing and the downloads.
THEOREM ManifestsAreExact == Spec => []ManifestsHoldTheirRevision
<1>1. IInv => ManifestsHoldTheirRevision
  BY DEF IInv, ManifestInv, HeldBy, ManifestsHoldTheirRevision
<1> QED
  BY <1>1, Invariant, PTL

\* A report names one revision, and each run in it covers the job's tasks at
\* their checksums and counts no attempt that this revision does not have, for
\* every archive, whatever is published, refreshed and cached by other commands
\* while its queries run.
THEOREM ReportsAreExact == Spec => []ReportsAreOfOneRevision
<1>1. IInv => ReportsAreOfOneRevision
  BY DEF IInv
<1> QED
  BY <1>1, Invariant, PTL

\* What an answered query returns are results of the revision it names, for the
\* task it was asked about: attempts of different revisions never meet in one
\* answer, whatever was published, fetched or cached meanwhile.
THEOREM AnswersAreOfOneRevision ==
  Spec => [](\A q \in Queries : pc[q] = "done" =>
               \A e \in query[q].records : HeldBy(e, query[q].revision, query[q].task))
<1>1. IInv => \A q \in Queries : pc[q] = "done" =>
               \A e \in query[q].records : HeldBy(e, query[q].revision, query[q].task)
  BY DEF IInv, QueryInv
<1> QED
  BY <1>1, Invariant, PTL
=============================================================================

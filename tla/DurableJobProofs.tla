-------------------------- MODULE DurableJobProofs --------------------------
(***************************************************************************)
(* Proofs about DurableJob, for every set of processes and of attempts,    *)
(* every sweep each process asks for, and every number of jobs and of      *)
(* crashes.                                                                *)
(*                                                                         *)
(* The argument: what a process does to a job it does under the lease, and *)
(* whatever it read before it had the lease (the scan of resume_or_create) *)
(* cannot become false, since a run.json never changes.  What it has read  *)
(* since (the missing attempts, the baseline of the Harbor files) only its *)
(* own steps change, and they keep the account.                            *)
(***************************************************************************)
EXTENDS DurableJob, TLAPS, FiniteSetTheorems

\* Steps of a process that holds the lease of its job: all of them, those with
\* a job.json, those past bind_run, past attach, and past the start of a sweep.
Recording == {"sweeping", "committed", "locked", "finished"}
Attached == Recording \union {"attached"}
Bound == Attached \union {"open"}
Identified == Bound \union {"unbound"}
Holding == Identified \union {"created"}

Trials == [Attempts -> Nat]

TypeOK ==
  /\ directories \in 0 .. MaxJobs
  /\ identified \in Seq(Jobs)
  /\ lease \in [Jobs -> Processes \union {None}]
  /\ run \in [Jobs -> SUBSET Attempts]
  /\ results \in [Jobs -> Trials]
  /\ lock_json \in [Jobs -> Nat]
  /\ job_result \in [Jobs -> [total : Nat, completed : Nat]]
  /\ last_run \in Jobs \union {None}
  /\ pc \in [Processes -> Step]
  /\ job \in [Processes -> 0 .. MaxJobs]
  /\ expected \in [Processes -> Nat]
  /\ todo \in [Processes -> SUBSET Attempts]
  /\ recorded \in [Processes -> Nat]
  /\ baseline \in [Processes -> [total : Nat, completed : Nat, locked : Nat]]
  /\ crashes \in Nat

\* The job of a process: leased from its creation or its reopening on, and once
\* it is bound, or chosen by the scan, bound to what the process wants.
LeaseInv(p) ==
  /\ pc[p] \in Holding => job[p] \in 1 .. directories /\ lease[job[p]] = p
  /\ pc[p] \in Identified \union {"selected"} => job[p] \in Range(identified)
  /\ pc[p] \in Bound \union {"selected"} => run[job[p]] = Wanted[p]

\* What a sweep has left to do has no result; everything else it wants is done.
SweepInv(p) ==
  /\ pc[p] \notin Recording => recorded[p] = 0
  /\ pc[p] \in Recording =>
       /\ todo[p] \subseteq Wanted[p]
       /\ \A t \in todo[p] : results[job[p]][t] = 0
       /\ \A t \in Wanted[p] \ todo[p] : CompletedAttempt(job[p], t)
  /\ pc[p] = "finished" => todo[p] = {}

\* What a session found at attach and what it has recorded since add up to the
\* Harbor files of its job.
AccountInv(p) ==
  pc[p] \in Attached =>
    /\ baseline[p].completed <= baseline[p].locked
    /\ baseline[p].locked + recorded[p] <= CompletedTrials(job[p])
    /\ lock_json[job[p]] + (IF pc[p] = "committed" THEN 1 ELSE 0)
         = baseline[p].locked + recorded[p]
    /\ job_result[job[p]].completed + (IF pc[p] \in {"committed", "locked"} THEN 1 ELSE 0)
         = baseline[p].completed + recorded[p]
    /\ baseline[p].total <= job_result[job[p]].total

ProcessInv(p) == LeaseInv(p) /\ SweepInv(p) /\ AccountInv(p)

\* A job: one result per attempt, of a job that can be found again, Harbor files
\* that lag behind the results, and a total that covers the whole sweep.
JobInv(j) ==
  /\ \A t \in Attempts :
       /\ results[j][t] <= 1
       /\ results[j][t] > 0 => j \in Range(identified) /\ t \in run[j]
  /\ job_result[j].completed <= lock_json[j]
  /\ lock_json[j] <= CompletedTrials(j)
  /\ job_result[j].completed <= job_result[j].total
  /\ job_result[j].total > 0 =>
       run[j] # {} /\ job_result[j].total >= Cardinality(run[j])

\* A directory is there before its job.json.
IdentityInv == Range(identified) \subseteq 1 .. directories

\* The job last-run.json names has nothing left that resume would run.
LastRunInv ==
  last_run # None =>
    run[last_run] # {} /\ \A t \in run[last_run] : CompletedAttempt(last_run, t)

\* The inductive invariant.
IInv ==
  /\ TypeOK
  /\ IdentityInv
  /\ LastRunInv
  /\ \A p \in Processes : ProcessInv(p)
  /\ \A j \in Jobs : JobInv(j)

-----------------------------------------------------------------------------
(* Lemmas about the operators of the job *)

\* The attempts with a durable result among the results of one job.
Durable(r) == {t \in Attempts : r[t] > 0}

\* Where no attempt has two results, the trial directories that count are as
\* many as the attempts with a result.
TrialsCounted ==
  results \in [Jobs -> Trials] =>
    \A j \in Jobs :
      (\A t \in Attempts : results[j][t] <= 1)
        => CompletedTrials(j) = Cardinality(Durable(results[j]))

LEMMA CountTrials == TrialsCounted
<1> SUFFICES ASSUME results \in [Jobs -> Trials], NEW j \in Jobs,
                    \A t \in Attempts : results[j][t] <= 1
             PROVE  CompletedTrials(j) = Cardinality(Durable(results[j]))
  BY DEF TrialsCounted
<1>1. DurableTrials(j) = Durable(results[j]) \X {1}
  BY DEF DurableTrials, Durable, Trials
<1>2. IsFiniteSet(Durable(results[j])) /\ Cardinality(Durable(results[j])) \in Nat
  BY JobAssumption, FS_Subset, FS_CardinalityType DEF Durable
<1>3. IsFiniteSet({1}) /\ Cardinality({1}) = 1
  BY FS_Singleton
<1>4. Cardinality(Durable(results[j]) \X {1})
        = Cardinality(Durable(results[j])) * Cardinality({1})
  BY <1>2, <1>3, FS_Product
<1>5. QED
  BY <1>1, <1>2, <1>3, <1>4 DEF CompletedTrials

\* The same of the state a step leads to.
LEMMA TrialsAreAttempts ==
  ASSUME NEW j \in Jobs,
         results \in [Jobs -> Trials], \A t \in Attempts : results[j][t] <= 1,
         results' \in [Jobs -> Trials], \A t \in Attempts : results'[j][t] <= 1
  PROVE  /\ CompletedTrials(j) = Cardinality(Durable(results[j]))
         /\ CompletedTrials(j)' = Cardinality(Durable(results'[j]))
<1>1. TrialsCounted /\ TrialsCounted'
  BY CountTrials, PTL
<1>2. QED
  BY <1>1 DEF TrialsCounted

\* One more attempt with a result counts for one.
LEMMA OneMoreDurable ==
  ASSUME NEW r \in Trials, NEW t \in Attempts, r[t] = 0
  PROVE  /\ Cardinality(Durable(r)) \in Nat
         /\ Cardinality(Durable([r EXCEPT ![t] = @ + 1])) = Cardinality(Durable(r)) + 1
<1>1. IsFiniteSet(Durable(r)) /\ Cardinality(Durable(r)) \in Nat
  BY JobAssumption, FS_Subset, FS_CardinalityType DEF Durable
<1>2. Durable([r EXCEPT ![t] = @ + 1]) = Durable(r) \union {t} /\ t \notin Durable(r)
  BY DEF Durable, Trials
<1>3. QED
  BY <1>1, <1>2, FS_AddElement

\* The total of a job result is none of the four numbers, or fewer, short.
LEMMA MaxCovers ==
  ASSUME NEW a \in Nat, NEW b \in Nat, NEW c \in Nat, NEW d \in Nat
  PROVE  /\ Max({a, b, c, d}) \in {a, b, c, d}
         /\ \A n \in {a, b, c, d} : Max({a, b, c, d}) >= n
<1>1. \E m \in {a, b, c, d} : \A n \in {a, b, c, d} : m >= n
  OBVIOUS
<1>2. QED
  BY <1>1 DEF Max

\* What a sweep is asked for is a finite set, and not an empty one.
LEMMA WantedFinite ==
  ASSUME NEW p \in Processes
  PROVE  /\ Wanted[p] \subseteq Attempts /\ Wanted[p] # {}
         /\ IsFiniteSet(Wanted[p]) /\ Cardinality(Wanted[p]) \in Nat \ {0}
         /\ IsFiniteSet(Missing(p)) /\ Cardinality(Missing(p)) \in Nat
<1>1. Wanted[p] \subseteq Attempts /\ Wanted[p] # {} /\ Missing(p) \subseteq Attempts
  BY JobAssumption DEF Missing
<1>2. QED
  BY <1>1, JobAssumption, FS_Subset, FS_CardinalityType, FS_EmptySet

LEMMA AppendRange ==
  ASSUME NEW S, NEW s \in Seq(S), NEW e \in S
  PROVE  /\ Append(s, e) \in Seq(S)
         /\ Range(Append(s, e)) = Range(s) \union {e}
<1>1. /\ Append(s, e) \in Seq(S)
      /\ Len(Append(s, e)) = Len(s) + 1 /\ Len(s) \in Nat
      /\ \A i \in 1 .. Len(s) : Append(s, e)[i] = s[i]
      /\ Append(s, e)[Len(s) + 1] = e
  OBVIOUS
<1>2. DOMAIN s = 1 .. Len(s) /\ DOMAIN Append(s, e) = 1 .. Len(s) + 1
  BY <1>1
<1>3. QED
  BY <1>1, <1>2 DEF Range

-----------------------------------------------------------------------------
(* Initial states, and what a step leaves alone *)

LEMMA InitIInv == Init => IInv
<1> SUFFICES ASSUME Init PROVE IInv
  OBVIOUS
<1>1. TypeOK
  BY JobAssumption DEF Init, TypeOK, Trials, Step, NoResult, NoBaseline
<1>2. IdentityInv /\ LastRunInv
  BY DEF Init, IdentityInv, LastRunInv, Range
<1>3. \A p \in Processes : ProcessInv(p)
  BY DEF Init, ProcessInv, LeaseInv, SweepInv, AccountInv, Holding, Identified, Bound,
         Attached, Recording
<1>4. ASSUME NEW j \in Jobs PROVE JobInv(j)
  <2>1. DurableTrials(j) = {}
    BY DEF Init, DurableTrials
  <2>2. CompletedTrials(j) = 0
    BY <2>1, FS_EmptySet DEF CompletedTrials
  <2>3. QED
    BY <2>2 DEF Init, JobInv, NoResult
<1>5. QED
  BY <1>1, <1>2, <1>3, <1>4 DEF IInv

\* What a step of p does to the rest: it keeps what other processes hold in
\* memory and their leases, rebinds no job, and touches no results and no files
\* of Harbor but those of the job p holds.
StepOf(p) ==
  /\ \A q \in Processes \ {p} :
       /\ pc'[q] = pc[q] /\ job'[q] = job[q] /\ todo'[q] = todo[q]
       /\ recorded'[q] = recorded[q] /\ baseline'[q] = baseline[q]
       /\ pc[q] \in Holding => lease'[job[q]] = q
  /\ directories <= directories'
  /\ Range(identified) \subseteq Range(identified')
  /\ \A j \in Jobs :
       /\ run[j] # {} => run'[j] = run[j]
       /\ \A t \in Attempts : results[j][t] <= results'[j][t] /\ results'[j][t] <= 1
       /\ \/ UNCHANGED <<results[j], lock_json[j], job_result[j]>>
          \/ pc[p] \in Holding /\ j = job[p]

\* The number of trials of a job follows its results.
LEMMA SameTrials ==
  ASSUME IInv, TypeOK', NEW p \in Processes, StepOf(p), NEW j \in Jobs,
         results'[j] = results[j]
  PROVE  CompletedTrials(j)' = CompletedTrials(j)
<1>1. results \in [Jobs -> Trials] /\ results' \in [Jobs -> Trials]
  BY DEF IInv, TypeOK
<1>2. \A t \in Attempts : results[j][t] <= 1 /\ results'[j][t] <= 1
  BY DEF IInv, JobInv, StepOf
<1>3. QED
  BY <1>1, <1>2, TrialsAreAttempts

\* A step of p takes nothing from any other process.
LEMMA OthersKeep ==
  ASSUME IInv, TypeOK', NEW p \in Processes, StepOf(p), NEW q \in Processes \ {p}
  PROVE  ProcessInv(q)'
<1> PICK j : j = job[q]
  OBVIOUS
<1> USE DEF Holding, Identified, Bound, Attached, Recording
<1>1. ProcessInv(q) /\ ProcessInv(p) /\ job'[q] = j
  BY DEF IInv, StepOf
<1>0. /\ directories \in Nat /\ directories' \in Nat /\ directories <= directories'
      /\ MaxJobs \in Nat /\ directories <= MaxJobs
  BY JobAssumption DEF IInv, TypeOK, StepOf
<1>2. LeaseInv(q)'
  <2>1. pc[q] \in Holding => j \in 1 .. directories' /\ lease'[j] = q
    BY <1>1, <1>0 DEF ProcessInv, LeaseInv, StepOf
  <2>2. pc[q] \in Identified \union {"selected"} => j \in Range(identified')
    BY <1>1 DEF ProcessInv, LeaseInv, StepOf
  <2>3. pc[q] \in Bound \union {"selected"} => run'[j] = Wanted[q]
    <3> SUFFICES ASSUME pc[q] \in Bound \union {"selected"} PROVE run'[j] = Wanted[q]
      OBVIOUS
    <3>1. j \in Jobs
      BY <1>1, <1>0 DEF ProcessInv, LeaseInv, IInv, IdentityInv, Jobs
    <3>2. QED
      BY <1>1, <3>1, WantedFinite DEF ProcessInv, LeaseInv, StepOf
  <2>4. QED
    BY <1>1, <2>1, <2>2, <2>3 DEF LeaseInv, StepOf
<1>3. CASE pc[q] \notin Attached
  BY <1>1, <1>2, <1>3 DEF ProcessInv, SweepInv, AccountInv, StepOf
<1>4. CASE pc[q] \in Attached
  <2>1. j \in Jobs /\ UNCHANGED <<results[j], lock_json[j], job_result[j]>>
    <3>1. j \in Jobs /\ lease[j] = q
      BY <1>1, <1>4, <1>0 DEF ProcessInv, LeaseInv, Jobs
    <3>2. ~(pc[p] \in Holding /\ j = job[p])
      BY <1>1, <3>1 DEF ProcessInv, LeaseInv
    <3>3. QED
      BY <3>1, <3>2 DEF StepOf
  <2>2. CompletedTrials(j)' = CompletedTrials(j)
    BY <2>1, SameTrials
  <2>3. SweepInv(q)'
    BY <1>1, <2>1 DEF ProcessInv, SweepInv, StepOf, CompletedAttempt
  <2>4. AccountInv(q)'
    BY <1>1, <2>1, <2>2 DEF ProcessInv, AccountInv, StepOf
  <2>5. QED
    BY <1>2, <2>3, <2>4 DEF ProcessInv
<1>5. QED
  BY <1>3, <1>4

\* The invariant of a job whose files a step leaves alone.
LEMMA JobKeeps ==
  ASSUME IInv, TypeOK', NEW p \in Processes, StepOf(p), NEW j \in Jobs,
         results'[j] = results[j], lock_json'[j] = lock_json[j],
         job_result'[j] = job_result[j]
  PROVE  JobInv(j)'
<1>1. CompletedTrials(j)' = CompletedTrials(j)
  BY SameTrials
<1>2. JobInv(j)
  BY DEF IInv
<1>3. QED
  BY <1>1, <1>2 DEF JobInv, StepOf

\* What last-run.json says stays true.
LEMMA LastRunKeeps ==
  ASSUME IInv, TypeOK', NEW p \in Processes, StepOf(p), last_run' = last_run
  PROVE  LastRunInv'
<1> SUFFICES ASSUME last_run # None
             PROVE  /\ run'[last_run] # {}
                    /\ \A t \in run'[last_run] : CompletedAttempt(last_run, t)'
  BY DEF LastRunInv
<1>1. /\ last_run \in Jobs /\ run[last_run] # {} /\ run[last_run] \subseteq Attempts
      /\ \A t \in run[last_run] : CompletedAttempt(last_run, t)
  BY DEF IInv, TypeOK, LastRunInv
<1>2. run'[last_run] = run[last_run]
  BY <1>1 DEF StepOf
<1>3. ASSUME NEW t \in run[last_run] PROVE CompletedAttempt(last_run, t)'
  <2>1. PICK u \in Matches[t] : results[last_run][u] > 0
    BY <1>1 DEF CompletedAttempt
  <2>2. u \in Attempts
    BY <1>1, JobAssumption
  <2>3. results[last_run][u] \in Nat /\ results'[last_run][u] \in Nat
    BY <1>1, <2>2 DEF IInv, TypeOK, Trials
  <2>4. results'[last_run][u] > 0
    BY <1>1, <2>1, <2>2, <2>3 DEF StepOf
  <2>5. QED
    BY <2>4 DEF CompletedAttempt
<1>4. QED
  BY <1>1, <1>2, <1>3

-----------------------------------------------------------------------------
(* Steps *)

\* What one step of p has to keep.
Kept(p) ==
  /\ TypeOK'
  /\ IdentityInv'
  /\ LastRunInv'
  /\ StepOf(p)
  /\ ProcessInv(p)'
  /\ \A j \in Jobs :
       \/ UNCHANGED <<results[j], lock_json[j], job_result[j]>>
       \/ JobInv(j)'

\* What a process may rely on about its job.
LEMMA OwnJob ==
  ASSUME IInv, NEW p \in Processes
  PROVE  /\ ProcessInv(p)
         /\ directories \in Nat /\ MaxJobs \in Nat /\ directories <= MaxJobs
         /\ \A j \in Range(identified) : j \in 1 .. directories /\ j \in Jobs
         /\ pc[p] \in Holding \union {"selected"} => job[p] \in Jobs /\ JobInv(job[p])
<1>1. ProcessInv(p) /\ \A j \in Jobs : JobInv(j)
  BY DEF IInv
<1>2. directories \in Nat /\ MaxJobs \in Nat /\ directories <= MaxJobs
  BY JobAssumption DEF IInv, TypeOK
<1>3. \A j \in Range(identified) : j \in 1 .. directories /\ j \in Jobs
  BY <1>2 DEF IInv, IdentityInv, Jobs
<1>4. pc[p] \in Holding \union {"selected"} => job[p] \in Jobs
  BY <1>1, <1>2, <1>3 DEF ProcessInv, LeaseInv, Jobs, Identified
<1>5. QED
  BY <1>1, <1>2, <1>3, <1>4

\* No step of the scan, of a lease or of a new directory touches a result.
LEMMA OpenKeeps ==
  ASSUME IInv, NEW p \in Processes,
         Resume(p) \/ Fresh(p) \/ TakeLease(p) \/ RunActive(p)
           \/ CreateDirectory(p) \/ WriteIdentity(p)
  PROVE  Kept(p)
<1> USE DEF Holding, Identified, Bound, Attached, Recording, disk, memory
<1>1. /\ UNCHANGED <<run, results, lock_json, job_result, last_run>>
      /\ UNCHANGED <<expected, todo, recorded, baseline, crashes>>
  BY DEF Resume, Fresh, TakeLease, RunActive, CreateDirectory, WriteIdentity
<1>2. \A j \in Jobs, t \in Attempts : results[j][t] \in Nat /\ results[j][t] <= 1
  BY DEF IInv, TypeOK, JobInv, Trials
<1>3. TypeOK /\ IdentityInv /\ \A q \in Processes : ProcessInv(q)
  BY DEF IInv
<1>4. LastRunInv'
  BY <1>1 DEF IInv, LastRunInv, CompletedAttempt
<1> SUFFICES TypeOK' /\ IdentityInv' /\ StepOf(p) /\ LeaseInv(p)'
  <2>1. pc[p] \notin Attached /\ pc'[p] \notin Attached
    BY <1>3 DEF TypeOK, Resume, Fresh, TakeLease, RunActive, CreateDirectory, WriteIdentity
  <2>2. SweepInv(p)' /\ AccountInv(p)'
    BY <1>1, <1>3, <2>1 DEF ProcessInv, SweepInv, AccountInv
  <2>3. QED
    BY <1>1, <1>4, <2>2 DEF Kept, ProcessInv
<1>5. CASE Resume(p) /\ Candidates(p) # {}
  <2>1. PICK j \in Jobs :
          /\ j \in Range(identified) /\ run[j] = Wanted[p]
          /\ pc' = [pc EXCEPT ![p] = "selected"]
          /\ job' = [job EXCEPT ![p] = j]
          /\ UNCHANGED <<directories, identified, lease>>
    <3>1. PICK i \in DOMAIN identified :
            /\ run[identified[i]] = Wanted[p]
            /\ pc' = [pc EXCEPT ![p] = "selected"]
            /\ job' = [job EXCEPT ![p] = identified[i]]
            /\ UNCHANGED <<directories, identified, lease>>
      BY <1>5 DEF Resume, Candidates
    <3>2. identified[i] \in Range(identified) /\ identified[i] \in Jobs
      BY OwnJob DEF Range
    <3>3. QED
      BY <3>1, <3>2
  <2>2. TypeOK'
    <3>1. pc' \in [Processes -> Step]
      BY <1>1, <1>3, <2>1 DEF TypeOK, Step
    <3>2. job' \in [Processes -> 0 .. MaxJobs]
      BY <1>1, <1>3, <2>1 DEF TypeOK, Jobs
    <3> QED
      BY <1>1, <1>3, <2>1, <3>1, <3>2 DEF TypeOK
  <2>3. StepOf(p) /\ IdentityInv'
    <3>1. \A q \in Processes \ {p} :
            /\ pc'[q] = pc[q] /\ job'[q] = job[q] /\ todo'[q] = todo[q]
            /\ recorded'[q] = recorded[q] /\ baseline'[q] = baseline[q]
      BY <1>1, <1>3, <2>1 DEF TypeOK
    <3>2. \A q \in Processes \ {p} : pc[q] \in Holding => lease'[job[q]] = q
      BY <1>1, <1>3, <2>1 DEF TypeOK, ProcessInv, LeaseInv
    <3>3. /\ directories \in Nat /\ directories' \in Nat /\ directories <= directories'
          /\ Range(identified) \subseteq Range(identified') /\ IdentityInv'
      BY <1>1, <1>3, <2>1, OwnJob DEF TypeOK, IdentityInv
    <3> QED
      BY <1>1, <1>2, <3>1, <3>2, <3>3 DEF StepOf
  <2>4. LeaseInv(p)'
    BY <1>1, <1>3, <2>1 DEF TypeOK, LeaseInv
  <2>5. QED
    BY <2>2, <2>3, <2>4
<1>6. CASE Fresh(p) \/ (Resume(p) /\ Candidates(p) = {})
  <2>1. /\ pc' = [pc EXCEPT ![p] = "create"]
        /\ UNCHANGED <<directories, identified, lease, job>>
    BY <1>6 DEF Resume, Fresh
  <2>2. TypeOK'
    <3>1. pc' \in [Processes -> Step]
      BY <1>1, <1>3, <2>1 DEF TypeOK, Step
    <3> QED
      BY <1>1, <1>3, <2>1, <3>1 DEF TypeOK
  <2>3. StepOf(p) /\ IdentityInv' /\ LeaseInv(p)'
    <3>1. \A q \in Processes \ {p} :
            /\ pc'[q] = pc[q] /\ job'[q] = job[q] /\ todo'[q] = todo[q]
            /\ recorded'[q] = recorded[q] /\ baseline'[q] = baseline[q]
      BY <1>1, <1>3, <2>1 DEF TypeOK
    <3>2. \A q \in Processes \ {p} : pc[q] \in Holding => lease'[job[q]] = q
      BY <1>1, <1>3, <2>1 DEF TypeOK, ProcessInv, LeaseInv
    <3>3. LeaseInv(p)'
      BY <1>1, <1>3, <2>1 DEF TypeOK, ProcessInv, LeaseInv
    <3> QED
      BY <1>1, <1>2, <1>3, <2>1, <3>1, <3>2, <3>3 DEF TypeOK, StepOf, IdentityInv
  <2>4. QED
    BY <2>2, <2>3
<1>7. CASE TakeLease(p)
  <2>1. /\ pc[p] = "selected" /\ lease[job[p]] = None /\ job[p] \in Jobs
        /\ job[p] \in Range(identified) /\ run[job[p]] = Wanted[p]
        /\ job[p] \in 1 .. directories
        /\ lease' = [lease EXCEPT ![job[p]] = p]
        /\ pc' = [pc EXCEPT ![p] = "unbound"]
        /\ UNCHANGED <<directories, identified, job>>
    BY <1>7, OwnJob DEF TakeLease, ProcessInv, LeaseInv
  <2>2. TypeOK'
    <3>1. lease' \in [Jobs -> Processes \union {None}]
      BY <1>1, <1>3, <2>1 DEF TypeOK
    <3>2. pc' \in [Processes -> Step]
      BY <1>1, <1>3, <2>1 DEF TypeOK, Step
    <3> QED
      BY <1>1, <1>3, <2>1, <3>1, <3>2 DEF TypeOK
  <2>3. StepOf(p) /\ IdentityInv'
    <3>1. ASSUME NEW q \in Processes \ {p}, pc[q] \in Holding
          PROVE  lease'[job[q]] = q
      <4>1. job[q] \in Jobs /\ lease[job[q]] = q
        BY <1>3, <3>1, OwnJob DEF ProcessInv, LeaseInv
      <4>2. job[q] # job[p]
        BY <2>1, <4>1, JobAssumption
      <4> QED
        BY <1>3, <2>1, <4>1, <4>2 DEF TypeOK
    <3>2. QED
      BY <1>1, <1>2, <1>3, <2>1, <3>1 DEF TypeOK, StepOf, IdentityInv
  <2>4. LeaseInv(p)'
    BY <1>1, <1>3, <2>1 DEF TypeOK, LeaseInv
  <2>5. QED
    BY <2>2, <2>3, <2>4
<1>8. CASE RunActive(p)
  <2>1. /\ pc' = [pc EXCEPT ![p] = "idle"]
        /\ job' = [job EXCEPT ![p] = 0]
        /\ UNCHANGED <<directories, identified, lease>>
    BY <1>8 DEF RunActive
  <2>2. TypeOK'
    <3>1. pc' \in [Processes -> Step]
      BY <1>1, <1>3, <2>1, OwnJob DEF TypeOK, Step
    <3>2. job' \in [Processes -> 0 .. MaxJobs]
      BY <1>1, <1>3, <2>1, OwnJob DEF TypeOK, Jobs
    <3> QED
      BY <1>1, <1>3, <2>1, OwnJob, <3>1, <3>2 DEF TypeOK
  <2>3. StepOf(p) /\ IdentityInv' /\ LeaseInv(p)'
    <3>1. \A q \in Processes \ {p} :
            /\ pc'[q] = pc[q] /\ job'[q] = job[q] /\ todo'[q] = todo[q]
            /\ recorded'[q] = recorded[q] /\ baseline'[q] = baseline[q]
      BY <1>1, <1>3, <2>1 DEF TypeOK
    <3>2. \A q \in Processes \ {p} : pc[q] \in Holding => lease'[job[q]] = q
      BY <1>1, <1>3, <2>1 DEF TypeOK, ProcessInv, LeaseInv
    <3>3. LeaseInv(p)'
      BY <1>1, <1>3, <2>1 DEF TypeOK, ProcessInv, LeaseInv
    <3> QED
      BY <1>1, <1>2, <1>3, <2>1, <3>1, <3>2, <3>3 DEF TypeOK, StepOf, IdentityInv
  <2>4. QED
    BY <2>2, <2>3
<1>9. CASE CreateDirectory(p)
  <2>1. /\ directories' = directories + 1 /\ directories' \in Jobs
        /\ directories \in Nat
        /\ job' = [job EXCEPT ![p] = directories']
        /\ lease' = [lease EXCEPT ![directories'] = p]
        /\ pc' = [pc EXCEPT ![p] = "created"]
        /\ UNCHANGED identified
    BY <1>9, OwnJob DEF CreateDirectory, Jobs
  <2>2. TypeOK'
    <3>1. directories' \in 0 .. MaxJobs
      BY <1>1, <1>3, <2>1 DEF TypeOK, Jobs
    <3>2. job' \in [Processes -> 0 .. MaxJobs]
      BY <1>1, <1>3, <2>1 DEF TypeOK, Jobs
    <3>3. lease' \in [Jobs -> Processes \union {None}]
      BY <1>1, <1>3, <2>1 DEF TypeOK
    <3>4. pc' \in [Processes -> Step]
      BY <1>1, <1>3, <2>1 DEF TypeOK, Step
    <3> QED
      BY <1>1, <1>3, <2>1, <3>1, <3>2, <3>3, <3>4 DEF TypeOK
  <2>3. StepOf(p) /\ IdentityInv'
    <3>1. \A q \in Processes \ {p} :
            /\ pc'[q] = pc[q] /\ job'[q] = job[q] /\ todo'[q] = todo[q]
            /\ recorded'[q] = recorded[q] /\ baseline'[q] = baseline[q]
      BY <1>1, <1>3, <2>1 DEF TypeOK
    <3>2. \A q \in Processes \ {p} : pc[q] \in Holding => lease'[job[q]] = q
      <4> SUFFICES ASSUME NEW q \in Processes \ {p}, pc[q] \in Holding
                   PROVE  lease'[job[q]] = q
        OBVIOUS
      <4>1. job[q] \in 1 .. directories /\ lease[job[q]] = q
        BY <1>3 DEF ProcessInv, LeaseInv
      <4>2. job[q] \in Jobs /\ job[q] # directories'
        BY <2>1, <4>1, OwnJob DEF Jobs
      <4> QED
        BY <1>3, <2>1, <4>1, <4>2 DEF TypeOK
    <3>3. /\ directories \in Nat /\ directories' \in Nat /\ directories <= directories'
          /\ Range(identified) \subseteq Range(identified') /\ IdentityInv'
      BY <1>1, <1>3, <2>1, OwnJob DEF TypeOK, IdentityInv
    <3> QED
      BY <1>1, <1>2, <3>1, <3>2, <3>3 DEF StepOf
  <2>4. LeaseInv(p)'
    BY <1>1, <1>3, <2>1 DEF TypeOK, LeaseInv
  <2>5. QED
    BY <2>2, <2>3, <2>4
<1>10. CASE WriteIdentity(p)
  <2>1. /\ pc[p] = "created" /\ job[p] \in Jobs
        /\ job[p] \in 1 .. directories /\ lease[job[p]] = p
        /\ identified' = Append(identified, job[p])
        /\ pc' = [pc EXCEPT ![p] = "unbound"]
        /\ UNCHANGED <<directories, lease, job>>
    BY <1>10, OwnJob DEF WriteIdentity, ProcessInv, LeaseInv
  <2>2. identified' \in Seq(Jobs) /\ Range(identified') = Range(identified) \union {job[p]}
    BY <1>3, <2>1, AppendRange DEF TypeOK
  <2>3. TypeOK'
    <3>1. pc' \in [Processes -> Step]
      BY <1>1, <1>3, <2>1, <2>2 DEF TypeOK, Step
    <3> QED
      BY <1>1, <1>3, <2>1, <2>2, <3>1 DEF TypeOK
  <2>4. StepOf(p) /\ IdentityInv'
    <3>1. \A q \in Processes \ {p} :
            /\ pc'[q] = pc[q] /\ job'[q] = job[q] /\ todo'[q] = todo[q]
            /\ recorded'[q] = recorded[q] /\ baseline'[q] = baseline[q]
      BY <1>1, <1>3, <2>1, <2>2 DEF TypeOK
    <3>2. \A q \in Processes \ {p} : pc[q] \in Holding => lease'[job[q]] = q
      BY <1>1, <1>3, <2>1, <2>2 DEF TypeOK, ProcessInv, LeaseInv
    <3>3. /\ directories \in Nat /\ directories' \in Nat /\ directories <= directories'
          /\ Range(identified) \subseteq Range(identified') /\ IdentityInv'
      BY <1>1, <1>3, <2>1, <2>2, OwnJob DEF TypeOK, IdentityInv
    <3> QED
      BY <1>1, <1>2, <3>1, <3>2, <3>3 DEF StepOf
  <2>5. LeaseInv(p)'
    BY <1>1, <1>3, <2>1, <2>2 DEF TypeOK, LeaseInv
  <2>6. QED
    BY <2>3, <2>4, <2>5
<1>11. QED
  BY <1>5, <1>6, <1>7, <1>8, <1>9, <1>10

\* bind_run gives a job its sweep once; the job of anybody else keeps its own.
LEMMA BindKeeps ==
  ASSUME IInv, NEW p \in Processes, BindRun(p)
  PROVE  Kept(p)
<1> USE DEF Holding, Identified, Bound, Attached, Recording
<1> PICK j : j = job[p]
  OBVIOUS
<1>1. /\ pc[p] = "unbound" /\ run[j] \in {{}, Wanted[p]}
      /\ run' = [run EXCEPT ![j] = Wanted[p]]
      /\ pc' = [pc EXCEPT ![p] = "open"]
      /\ UNCHANGED <<directories, identified, results, lock_json, job_result, last_run>>
      /\ UNCHANGED <<lease, job, expected, todo, recorded, baseline, crashes>>
  BY DEF BindRun, memory
<1>2. \A i \in Jobs, t \in Attempts : results[i][t] \in Nat /\ results[i][t] <= 1
  BY DEF IInv, TypeOK, JobInv, Trials
<1>3. TypeOK /\ IdentityInv /\ LastRunInv /\ \A q \in Processes : ProcessInv(q)
  BY DEF IInv
<1>4. j \in Jobs /\ Wanted[p] \subseteq Attempts
  BY <1>1, OwnJob, WantedFinite
<1>5. TypeOK'
  <2>1. run' \in [Jobs -> SUBSET Attempts]
    BY <1>1, <1>3, <1>4 DEF TypeOK
  <2>2. pc' \in [Processes -> Step]
    BY <1>1, <1>3, <1>4 DEF TypeOK, Step
  <2> QED
    BY <1>1, <1>3, <1>4, <2>1, <2>2 DEF TypeOK
<1>6. StepOf(p) /\ IdentityInv'
  <2>1. \A q \in Processes \ {p} :
          /\ pc'[q] = pc[q] /\ job'[q] = job[q] /\ todo'[q] = todo[q]
          /\ recorded'[q] = recorded[q] /\ baseline'[q] = baseline[q]
    BY <1>1, <1>3, <1>4 DEF TypeOK
  <2>2. \A q \in Processes \ {p} : pc[q] \in Holding => lease'[job[q]] = q
    BY <1>1, <1>3, <1>4 DEF TypeOK, ProcessInv, LeaseInv
  <2>3. /\ directories \in Nat /\ directories <= directories'
        /\ Range(identified) \subseteq Range(identified') /\ IdentityInv'
    BY <1>1, <1>3, OwnJob DEF IdentityInv
  <2>4. \A i \in Jobs : run[i] # {} => run'[i] = run[i]
    BY <1>1, <1>3, <1>4 DEF TypeOK
  <2>5. \A i \in Jobs : UNCHANGED <<results[i], lock_json[i], job_result[i]>> \/ i = job[p]
    BY <1>1, <1>3, <1>4 DEF TypeOK
  <2> QED
    BY <1>1, <1>2, <2>1, <2>2, <2>3, <2>4, <2>5 DEF StepOf
<1>7. ProcessInv(p)'
  <2>1. LeaseInv(p)'
    BY <1>1, <1>3, <1>4 DEF TypeOK, ProcessInv, LeaseInv
  <2>2. SweepInv(p)' /\ AccountInv(p)'
    BY <1>1, <1>3 DEF TypeOK, ProcessInv, SweepInv, AccountInv
  <2>3. QED
    BY <2>1, <2>2 DEF ProcessInv
<1>8. LastRunInv'
  BY <1>1, <1>5, <1>6, LastRunKeeps
<1>9. QED
  BY <1>1, <1>5, <1>6, <1>7, <1>8 DEF Kept

\* attach takes over the Harbor files as they are, and covers the whole sweep.
LEMMA AttachKeeps ==
  ASSUME IInv, NEW p \in Processes, Attach(p)
  PROVE  Kept(p)
<1> USE DEF Holding, Identified, Bound, Attached, Recording
<1> PICK j : j = job[p]
  OBVIOUS
<1> DEFINE total == Max({Cardinality(Wanted[p]), job_result[j].total, job_result[j].completed})
<1>1. /\ pc[p] = "open"
      /\ expected' = [expected EXCEPT ![p] = Cardinality(Missing(p))]
      /\ baseline' = [baseline EXCEPT ![p] = [total |-> job_result[j].total,
                                              completed |-> job_result[j].completed,
                                              locked |-> lock_json[j]]]
      /\ job_result' = [job_result EXCEPT ![j].total = total]
      /\ pc' = [pc EXCEPT ![p] = "attached"]
      /\ UNCHANGED <<directories, identified, run, results, lock_json, last_run>>
      /\ UNCHANGED <<lease, job, todo, recorded, crashes>>
  BY DEF Attach
<1>2. \A i \in Jobs, t \in Attempts : results[i][t] \in Nat /\ results[i][t] <= 1
  BY DEF IInv, TypeOK, JobInv, Trials
<1>3. TypeOK /\ IdentityInv /\ LastRunInv /\ \A q \in Processes : ProcessInv(q)
  BY DEF IInv
<1>4. /\ j \in Jobs /\ JobInv(j) /\ run[j] = Wanted[p]
      /\ Wanted[p] # {} /\ Cardinality(Wanted[p]) \in Nat
      /\ Cardinality(Missing(p)) \in Nat
      /\ job_result[j].total \in Nat /\ job_result[j].completed \in Nat
  BY <1>1, <1>3, OwnJob, WantedFinite DEF TypeOK, ProcessInv, LeaseInv
<1>5. /\ total \in Nat /\ total >= Cardinality(Wanted[p])
      /\ total >= job_result[j].total /\ total >= job_result[j].completed
  <2>1. total = Max({Cardinality(Wanted[p]), job_result[j].total,
                     job_result[j].completed, job_result[j].completed})
    OBVIOUS
  <2>2. \A x \in {Cardinality(Wanted[p]), job_result[j].total, job_result[j].completed} : x \in Nat
    BY <1>4
  <2>3. QED
    BY <2>1, <2>2, MaxCovers
<1> HIDE DEF total
<1>6. TypeOK'
  <2>1. pc' \in [Processes -> Step]
    BY <1>1, <1>3, <1>4, <1>5 DEF TypeOK, Step
  <2>2. expected' \in [Processes -> Nat]
    BY <1>1, <1>3, <1>4, <1>5 DEF TypeOK
  <2>3. baseline' \in [Processes -> [total : Nat, completed : Nat, locked : Nat]]
    BY <1>1, <1>3, <1>4, <1>5 DEF TypeOK
  <2>4. job_result' \in [Jobs -> [total : Nat, completed : Nat]]
    <3>1. [job_result[j] EXCEPT !.total = total] \in [total : Nat, completed : Nat]
      <4>1. total \in Nat /\ job_result[j] \in [total : Nat, completed : Nat]
        BY <1>3, <1>4, <1>5 DEF TypeOK
      <4> QED
        BY <4>1
    <3>2. job_result' = [job_result EXCEPT ![j] = [job_result[j] EXCEPT !.total = total]]
      BY <1>1
    <3> QED
      BY <1>3, <1>4, <3>1, <3>2 DEF TypeOK
  <2> QED
    BY <1>1, <1>3, <1>4, <1>5, <2>1, <2>2, <2>3, <2>4 DEF TypeOK
<1>7. StepOf(p) /\ IdentityInv'
  <2>1. \A q \in Processes \ {p} :
          /\ pc'[q] = pc[q] /\ job'[q] = job[q] /\ todo'[q] = todo[q]
          /\ recorded'[q] = recorded[q] /\ baseline'[q] = baseline[q]
          /\ pc[q] \in Holding => lease'[job[q]] = q
    BY <1>1, <1>3 DEF TypeOK, ProcessInv, LeaseInv
  <2>2. QED
    BY <1>1, <1>2, <1>3, <2>1 DEF TypeOK, StepOf, IdentityInv
<1>8. LastRunInv'
  BY <1>1, <1>6, <1>7, LastRunKeeps
<1>9. CompletedTrials(j)' = CompletedTrials(j)
  BY <1>1, <1>4, <1>6, <1>7, SameTrials
<1>9a. job_result'[j].total = total /\ job_result'[j].completed = job_result[j].completed
  BY <1>1, <1>3, <1>4 DEF TypeOK
<1>10. ProcessInv(p)'
  <2>1. LeaseInv(p)' /\ SweepInv(p)'
    <3>1. pc'[p] = "attached" /\ pc[p] = "open" /\ job'[p] = job[p] /\ recorded'[p] = recorded[p]
      BY <1>1, <1>3 DEF TypeOK
    <3> QED
      BY <1>1, <1>3, <3>1 DEF ProcessInv, LeaseInv, SweepInv
  <2>2. recorded[p] = 0 /\ lock_json[j] \in Nat
    BY <1>1, <1>3, <1>4 DEF TypeOK, ProcessInv, SweepInv
  <2>3. AccountInv(p)'
    BY <1>1, <1>3, <1>4, <1>5, <1>9, <1>9a, <2>2 DEF TypeOK, JobInv, AccountInv
  <2>4. QED
    BY <2>1, <2>3 DEF ProcessInv
<1>11. JobInv(j)'
  BY <1>1, <1>4, <1>5, <1>9, <1>9a DEF JobInv
<1>12. \A i \in Jobs \ {j} : UNCHANGED <<results[i], lock_json[i], job_result[i]>>
  BY <1>1, <1>3, <1>4 DEF TypeOK
<1>13. QED
  BY <1>6, <1>7, <1>8, <1>10, <1>11, <1>12 DEF Kept

\* A sweep sets out to run exactly what has no result.
LEMMA StartSweepKeeps ==
  ASSUME IInv, NEW p \in Processes, StartSweep(p)
  PROVE  Kept(p)
<1> USE DEF Holding, Identified, Bound, Attached, Recording
<1> PICK j : j = job[p]
  OBVIOUS
<1>1. /\ pc[p] = "attached"
      /\ todo' = [todo EXCEPT ![p] = Missing(p)]
      /\ pc' = [pc EXCEPT ![p] = "sweeping"]
      /\ UNCHANGED <<directories, identified, run, results, lock_json, job_result, last_run>>
      /\ UNCHANGED <<lease, job, expected, recorded, baseline, crashes>>
  BY DEF StartSweep, disk
<1>2. \A i \in Jobs, t \in Attempts : results[i][t] \in Nat /\ results[i][t] <= 1
  BY DEF IInv, TypeOK, JobInv, Trials
<1>3. TypeOK /\ IdentityInv /\ LastRunInv /\ \A q \in Processes : ProcessInv(q)
  BY DEF IInv
<1>4. /\ j \in Jobs
      /\ Missing(p) \subseteq Wanted[p] /\ Wanted[p] \subseteq Attempts
      /\ \A t \in Missing(p) : ~CompletedAttempt(j, t)
      /\ \A t \in Wanted[p] \ Missing(p) : CompletedAttempt(j, t)
  BY <1>1, OwnJob, WantedFinite DEF Missing
<1>5. TypeOK'
  <2>1. todo' \in [Processes -> SUBSET Attempts]
    BY <1>1, <1>3, <1>4 DEF TypeOK
  <2>2. pc' \in [Processes -> Step]
    BY <1>1, <1>3, <1>4 DEF TypeOK, Step
  <2> QED
    BY <1>1, <1>3, <1>4, <2>1, <2>2 DEF TypeOK
<1>6. StepOf(p) /\ IdentityInv'
  <2>1. \A q \in Processes \ {p} :
          /\ pc'[q] = pc[q] /\ job'[q] = job[q] /\ todo'[q] = todo[q]
          /\ recorded'[q] = recorded[q] /\ baseline'[q] = baseline[q]
    BY <1>1, <1>3, <1>4 DEF TypeOK
  <2>2. \A q \in Processes \ {p} : pc[q] \in Holding => lease'[job[q]] = q
    BY <1>1, <1>3, <1>4 DEF TypeOK, ProcessInv, LeaseInv
  <2>3. /\ directories \in Nat /\ directories <= directories'
        /\ Range(identified) \subseteq Range(identified') /\ IdentityInv'
    BY <1>1, <1>3, OwnJob DEF IdentityInv
  <2>4. \A i \in Jobs : run[i] # {} => run'[i] = run[i]
    BY <1>1, <1>3, <1>4 DEF TypeOK
  <2>5. \A i \in Jobs : UNCHANGED <<results[i], lock_json[i], job_result[i]>> \/ i = job[p]
    BY <1>1, <1>3, <1>4 DEF TypeOK
  <2> QED
    BY <1>1, <1>2, <2>1, <2>2, <2>3, <2>4, <2>5 DEF StepOf
<1>7. LastRunInv'
  BY <1>1, <1>5, <1>6, LastRunKeeps
<1>8. CompletedTrials(j)' = CompletedTrials(j)
  BY <1>1, <1>4, <1>5, <1>6, SameTrials
<1>9. LeaseInv(p)' /\ AccountInv(p)'
  BY <1>1, <1>3, <1>8 DEF TypeOK, ProcessInv, LeaseInv, AccountInv
<1>10. SweepInv(p)'
  <2>1. \A t \in Missing(p) : results[j][t] = 0
    BY <1>2, <1>4, JobAssumption DEF CompletedAttempt
  <2>2. \A t \in Wanted[p] \ Missing(p) : CompletedAttempt(j, t)'
    BY <1>1, <1>4 DEF CompletedAttempt
  <2>3. QED
    BY <1>1, <1>3, <1>4, <2>1, <2>2 DEF TypeOK, SweepInv
<1>11. QED
  BY <1>1, <1>5, <1>6, <1>7, <1>9, <1>10 DEF Kept, ProcessInv

\* The recorder commits the result of an attempt that has none.
LEMMA RecordTrialKeeps ==
  ASSUME IInv, NEW p \in Processes, NEW t \in Attempts, RecordTrial(p, t)
  PROVE  Kept(p)
<1> USE DEF Holding, Identified, Bound, Attached, Recording
<1> PICK j : j = job[p]
  OBVIOUS
<1>1. /\ pc[p] = "sweeping" /\ t \in todo[p]
      /\ results' = [results EXCEPT ![j][t] = @ + 1]
      /\ todo' = [todo EXCEPT ![p] = @ \ {t}]
      /\ recorded' = [recorded EXCEPT ![p] = @ + 1]
      /\ pc' = [pc EXCEPT ![p] = "committed"]
      /\ UNCHANGED <<directories, identified, run, lock_json, job_result, last_run>>
      /\ UNCHANGED <<lease, job, expected, baseline, crashes>>
  BY DEF RecordTrial
<1>2. \A i \in Jobs, u \in Attempts : results[i][u] \in Nat /\ results[i][u] <= 1
  BY DEF IInv, TypeOK, JobInv, Trials
<1>3. TypeOK /\ IdentityInv /\ LastRunInv /\ \A q \in Processes : ProcessInv(q)
  BY DEF IInv
<1>4. /\ j \in Jobs /\ JobInv(j) /\ j \in Range(identified) /\ run[j] = Wanted[p]
      /\ todo[p] \subseteq Wanted[p] /\ \A u \in todo[p] : results[j][u] = 0
  BY <1>1, <1>3, OwnJob DEF ProcessInv, LeaseInv, SweepInv
<1>5. /\ results[j] \in Trials
      /\ results'[j] = [results[j] EXCEPT ![t] = @ + 1] /\ results'[j] \in Trials
      /\ results'[j][t] = 1 /\ \A u \in Attempts \ {t} : results'[j][u] = results[j][u]
      /\ \A i \in Jobs \ {j} : results'[i] = results[i]
  <2>1. results[j] \in [Attempts -> Nat] /\ results \in [Jobs -> Trials]
    BY <1>3, <1>4 DEF TypeOK, Trials
  <2>2. /\ results'[j] = [results[j] EXCEPT ![t] = @ + 1]
        /\ \A i \in Jobs \ {j} : results'[i] = results[i]
    BY <1>1, <1>4, <2>1
  <2>3. t \in Attempts /\ results[j][t] = 0
    BY <1>1, <1>4
  <2> QED
    BY <2>1, <2>2, <2>3 DEF Trials
<1>6. TypeOK'
  <2>1. results' \in [Jobs -> Trials]
    BY <1>1, <1>3, <1>4, <1>5 DEF TypeOK
  <2>2. /\ todo' \in [Processes -> SUBSET Attempts] /\ recorded' \in [Processes -> Nat]
        /\ pc' \in [Processes -> Step]
    BY <1>1, <1>3 DEF TypeOK, Step
  <2>3. QED
    BY <1>1, <1>3, <2>1, <2>2 DEF TypeOK
<1>7. StepOf(p) /\ IdentityInv'
  <2>1. \A q \in Processes \ {p} :
          /\ pc'[q] = pc[q] /\ job'[q] = job[q] /\ todo'[q] = todo[q]
          /\ recorded'[q] = recorded[q] /\ baseline'[q] = baseline[q]
          /\ pc[q] \in Holding => lease'[job[q]] = q
    BY <1>1, <1>3 DEF TypeOK, ProcessInv, LeaseInv
  <2>2. \A i \in Jobs, u \in Attempts :
          results[i][u] <= results'[i][u] /\ results'[i][u] <= 1
    BY <1>1, <1>2, <1>4, <1>5
  <2>3. QED
    BY <1>1, <1>3, <1>5, <2>1, <2>2 DEF TypeOK, StepOf, IdentityInv
<1>8. LastRunInv'
  BY <1>1, <1>6, <1>7, LastRunKeeps
<1>9. CompletedTrials(j) \in Nat /\ CompletedTrials(j)' = CompletedTrials(j) + 1
  <2>1. \A u \in Attempts : results[j][u] <= 1 /\ results'[j][u] <= 1
    BY <1>2, <1>4, <1>5
  <2>2. /\ CompletedTrials(j) = Cardinality(Durable(results[j]))
        /\ CompletedTrials(j)' = Cardinality(Durable(results'[j]))
    BY <1>3, <1>4, <1>6, <2>1, TrialsAreAttempts DEF TypeOK
  <2>3. QED
    BY <1>1, <1>4, <1>5, <2>2, OneMoreDurable
<1>10. ProcessInv(p)'
  <2>1. LeaseInv(p)'
    BY <1>1, <1>3 DEF TypeOK, ProcessInv, LeaseInv
  <2>2. AccountInv(p)'
    <3>1. /\ baseline[p].locked \in Nat /\ recorded[p] \in Nat /\ lock_json[j] \in Nat
          /\ baseline[p].completed \in Nat /\ job_result[j].completed \in Nat
          /\ recorded'[p] = recorded[p] + 1 /\ pc'[p] = "committed"
      BY <1>1, <1>3, <1>4 DEF TypeOK
    <3>2. /\ baseline[p].completed <= baseline[p].locked
          /\ baseline[p].locked + recorded[p] <= CompletedTrials(j)
          /\ lock_json[j] = baseline[p].locked + recorded[p]
          /\ job_result[j].completed = baseline[p].completed + recorded[p]
          /\ baseline[p].total <= job_result[j].total
      BY <1>1, <1>3, <3>1 DEF ProcessInv, AccountInv
    <3>3. QED
      BY <1>1, <1>9, <3>1, <3>2 DEF AccountInv
  <2>3. SweepInv(p)'
    <3>1. pc'[p] = "committed" /\ todo'[p] = todo[p] \ {t}
      BY <1>1, <1>3 DEF TypeOK
    <3>2. \A u \in todo'[p] : results'[j][u] = 0
      BY <1>3, <1>4, <1>5, <3>1 DEF TypeOK
    <3>3. ASSUME NEW u \in Wanted[p] \ todo'[p] PROVE CompletedAttempt(j, u)'
      <4>1. u \in Attempts
        BY WantedFinite
      <4>2. CASE u = t
        BY <1>5, <4>1, <4>2, JobAssumption DEF CompletedAttempt
      <4>3. CASE u # t
        <5>1. CompletedAttempt(j, u)
          BY <1>1, <1>3, <3>1, <3>3, <4>3 DEF ProcessInv, SweepInv
        <5>2. \A v \in Attempts : results[j][v] > 0 => results'[j][v] > 0
          BY <1>5
        <5>3. QED
          BY <4>1, <5>1, <5>2, JobAssumption DEF CompletedAttempt
      <4>4. QED
        BY <4>2, <4>3
    <3>4. QED
      BY <1>1, <1>4, <3>1, <3>2, <3>3 DEF SweepInv
  <2>4. QED
    BY <2>1, <2>2, <2>3 DEF ProcessInv
<1>11. JobInv(j)'
  <2>1. \A u \in Attempts :
          /\ results'[j][u] <= 1
          /\ results'[j][u] > 0 => j \in Range(identified) /\ u \in run[j]
    BY <1>1, <1>4, <1>5 DEF JobInv
  <2>2. lock_json[j] \in Nat
    BY <1>3, <1>4 DEF TypeOK
  <2>3. QED
    BY <1>1, <1>4, <1>9, <2>1, <2>2 DEF JobInv
<1>12. \A i \in Jobs \ {j} : UNCHANGED <<results[i], lock_json[i], job_result[i]>>
  BY <1>1, <1>5
<1>13. QED
  BY <1>6, <1>7, <1>8, <1>10, <1>11, <1>12 DEF Kept

\* lock.json catches up with the results.
LEMMA RecordLockKeeps ==
  ASSUME IInv, NEW p \in Processes, RecordLock(p)
  PROVE  Kept(p)
<1> USE DEF Holding, Identified, Bound, Attached, Recording
<1> PICK j : j = job[p]
  OBVIOUS
<1>1. /\ pc[p] = "committed"
      /\ lock_json' = [lock_json EXCEPT ![j] = baseline[p].locked + recorded[p]]
      /\ pc' = [pc EXCEPT ![p] = "locked"]
      /\ UNCHANGED <<directories, identified, run, results, job_result, last_run>>
      /\ UNCHANGED <<lease, job, expected, todo, recorded, baseline, crashes>>
  BY DEF RecordLock, memory
<1>2. \A i \in Jobs, u \in Attempts : results[i][u] \in Nat /\ results[i][u] <= 1
  BY DEF IInv, TypeOK, JobInv, Trials
<1>3. TypeOK /\ IdentityInv /\ LastRunInv /\ \A q \in Processes : ProcessInv(q)
  BY DEF IInv
<1>4. j \in Jobs /\ JobInv(j)
  BY <1>1, OwnJob
<1>5. /\ baseline[p].locked \in Nat /\ recorded[p] \in Nat /\ lock_json[j] \in Nat
      /\ job_result[j].completed \in Nat
  BY <1>3, <1>4 DEF TypeOK
<1>6. TypeOK'
  <2>1. pc' \in [Processes -> Step]
    BY <1>1, <1>3 DEF TypeOK, Step
  <2>2. baseline[p].locked + recorded[p] \in Nat
    BY <1>5
  <2>3. lock_json' \in [Jobs -> Nat]
    BY <1>1, <1>3, <2>2 DEF TypeOK
  <2>4. QED
    BY <1>1, <1>3, <2>1, <2>3 DEF TypeOK
<1>7. StepOf(p) /\ IdentityInv'
  <2>1. \A q \in Processes \ {p} :
          /\ pc'[q] = pc[q] /\ job'[q] = job[q] /\ todo'[q] = todo[q]
          /\ recorded'[q] = recorded[q] /\ baseline'[q] = baseline[q]
    BY <1>1, <1>3, <1>4 DEF TypeOK
  <2>2. \A q \in Processes \ {p} : pc[q] \in Holding => lease'[job[q]] = q
    BY <1>1, <1>3, <1>4 DEF TypeOK, ProcessInv, LeaseInv
  <2>3. /\ directories \in Nat /\ directories <= directories'
        /\ Range(identified) \subseteq Range(identified') /\ IdentityInv'
    BY <1>1, <1>3, OwnJob DEF IdentityInv
  <2>4. \A i \in Jobs : run[i] # {} => run'[i] = run[i]
    BY <1>1, <1>3, <1>4 DEF TypeOK
  <2>5. \A i \in Jobs : UNCHANGED <<results[i], lock_json[i], job_result[i]>> \/ i = job[p]
    BY <1>1, <1>3, <1>4 DEF TypeOK
  <2> QED
    BY <1>1, <1>2, <2>1, <2>2, <2>3, <2>4, <2>5 DEF StepOf
<1>8. LastRunInv'
  BY <1>1, <1>6, <1>7, LastRunKeeps
<1>9. CompletedTrials(j)' = CompletedTrials(j)
  BY <1>1, <1>4, <1>6, <1>7, SameTrials
<1>10. /\ baseline[p].completed <= baseline[p].locked
       /\ baseline[p].locked + recorded[p] <= CompletedTrials(j)
       /\ lock_json[j] + 1 = baseline[p].locked + recorded[p]
       /\ job_result[j].completed + 1 = baseline[p].completed + recorded[p]
       /\ baseline[p].total <= job_result[j].total
  BY <1>1, <1>3 DEF ProcessInv, AccountInv
<1>11. pc'[p] = "locked" /\ lock_json'[j] = baseline[p].locked + recorded[p]
  BY <1>1, <1>3, <1>4 DEF TypeOK
<1>12. ProcessInv(p)'
  <2>1. LeaseInv(p)' /\ SweepInv(p)'
    BY <1>1, <1>3, <1>11 DEF TypeOK, ProcessInv, LeaseInv, SweepInv, CompletedAttempt
  <2>2. AccountInv(p)'
    BY <1>1, <1>5, <1>9, <1>10, <1>11 DEF AccountInv
  <2>3. QED
    BY <2>1, <2>2 DEF ProcessInv
<1>13. JobInv(j)'
  BY <1>1, <1>4, <1>5, <1>9, <1>10, <1>11 DEF JobInv
<1>14. \A i \in Jobs \ {j} : UNCHANGED <<results[i], lock_json[i], job_result[i]>>
  BY <1>1, <1>3 DEF TypeOK
<1>15. QED
  BY <1>6, <1>7, <1>8, <1>12, <1>13, <1>14 DEF Kept

\* write_job: the result of the job, after one terminal event or after the last.
LEMMA WriteJobKeeps ==
  ASSUME IInv, NEW p \in Processes, RecordJob(p) \/ Finish(p)
  PROVE  Kept(p)
<1> USE DEF Holding, Identified, Bound, Attached, Recording
<1> PICK j : j = job[p]
  OBVIOUS
<1>1. PICK requested \in Nat, next \in {"sweeping", "finished"} :
        /\ pc[p] \in {"locked", "sweeping"}
        /\ next = "finished" => todo[p] = {}
        /\ job_result' = [job_result EXCEPT ![j] = JobResult(p, requested)]
        /\ pc' = [pc EXCEPT ![p] = next]
        /\ UNCHANGED <<directories, identified, run, results, lock_json, last_run>>
        /\ UNCHANGED <<lease, job, expected, todo, recorded, baseline, crashes>>
  <2>1. recorded[p] \in Nat /\ expected[p] \in Nat
    BY DEF IInv, TypeOK
  <2>2. QED
    BY <2>1 DEF RecordJob, Finish, memory
<1>2. \A i \in Jobs, u \in Attempts : results[i][u] \in Nat /\ results[i][u] <= 1
  BY DEF IInv, TypeOK, JobInv, Trials
<1>3. TypeOK /\ IdentityInv /\ LastRunInv /\ \A q \in Processes : ProcessInv(q)
  BY DEF IInv
<1>4. /\ j \in Jobs /\ JobInv(j) /\ run[j] = Wanted[p] /\ Wanted[p] # {}
      /\ Cardinality(Wanted[p]) \in Nat
  BY <1>1, <1>3, OwnJob, WantedFinite DEF ProcessInv, LeaseInv
<1>5. /\ baseline[p].locked \in Nat /\ recorded[p] \in Nat /\ lock_json[j] \in Nat
      /\ baseline[p].completed \in Nat /\ baseline[p].total \in Nat
  BY <1>3, <1>4 DEF TypeOK
<1>6. PICK result \in [total : Nat, completed : Nat] :
        /\ result = JobResult(p, requested)
        /\ result.completed = baseline[p].completed + recorded[p]
        /\ result.total >= Cardinality(Wanted[p])
        /\ result.total >= baseline[p].total /\ result.total >= result.completed
  <2> DEFINE completed == baseline[p].completed + recorded[p]
             total == Max({requested, Cardinality(Wanted[p]), baseline[p].total, completed})
  <2>1. completed \in Nat
    BY <1>5
  <2> HIDE DEF completed
  <2>2. /\ total \in Nat /\ total >= Cardinality(Wanted[p])
        /\ total >= baseline[p].total /\ total >= completed
    <3>1. baseline[p].total \in Nat
      BY <1>5
    <3>2. /\ total \in {requested, Cardinality(Wanted[p]), baseline[p].total, completed}
          /\ total >= Cardinality(Wanted[p])
          /\ total >= baseline[p].total /\ total >= completed
      BY <1>4, <2>1, <3>1, MaxCovers, Zenon
    <3>3. QED
      BY <1>4, <2>1, <3>1, <3>2
  <2>3. JobResult(p, requested) = [completed |-> completed, total |-> total]
    BY DEF JobResult, completed
  <2> HIDE DEF total
  <2>4. QED
    BY <2>1, <2>2, <2>3 DEF completed
<1>7. job_result' = [job_result EXCEPT ![j] = result]
  BY <1>1, <1>6
<1>8. TypeOK'
  <2>1. pc' \in [Processes -> Step]
    BY <1>1, <1>3 DEF TypeOK, Step
  <2>2. job_result' \in [Jobs -> [total : Nat, completed : Nat]]
    BY <1>3, <1>6, <1>7 DEF TypeOK
  <2>3. QED
    BY <1>1, <1>3, <2>1, <2>2 DEF TypeOK
<1>9. StepOf(p) /\ IdentityInv'
  <2>1. \A q \in Processes \ {p} :
          /\ pc'[q] = pc[q] /\ job'[q] = job[q] /\ todo'[q] = todo[q]
          /\ recorded'[q] = recorded[q] /\ baseline'[q] = baseline[q]
    BY <1>1, <1>3, <1>4 DEF TypeOK
  <2>2. \A q \in Processes \ {p} : pc[q] \in Holding => lease'[job[q]] = q
    BY <1>1, <1>3, <1>4 DEF TypeOK, ProcessInv, LeaseInv
  <2>3. /\ directories \in Nat /\ directories <= directories'
        /\ Range(identified) \subseteq Range(identified') /\ IdentityInv'
    BY <1>1, <1>3, OwnJob DEF IdentityInv
  <2> QED
    BY <1>1, <1>2, <1>4, <2>1, <2>2, <2>3 DEF StepOf
<1>10. LastRunInv'
  BY <1>1, <1>8, <1>9, LastRunKeeps
<1>11. CompletedTrials(j)' = CompletedTrials(j)
  BY <1>1, <1>4, <1>8, <1>9, SameTrials
<1>12. /\ baseline[p].completed <= baseline[p].locked
       /\ baseline[p].locked + recorded[p] <= CompletedTrials(j)
       /\ lock_json[j] = baseline[p].locked + recorded[p]
  BY <1>1, <1>3, <1>5 DEF ProcessInv, AccountInv
<1>13. pc'[p] = next
  BY <1>1, <1>3 DEF TypeOK
<1>13a. job_result'[j] = result
  BY <1>3, <1>4, <1>7 DEF TypeOK
<1>14. ProcessInv(p)'
  <2>1. LeaseInv(p)'
    BY <1>1, <1>3, <1>13 DEF ProcessInv, LeaseInv
  <2>2. SweepInv(p)'
    BY <1>1, <1>3, <1>13 DEF ProcessInv, SweepInv, CompletedAttempt
  <2>3. AccountInv(p)'
    BY <1>1, <1>5, <1>6, <1>11, <1>12, <1>13, <1>13a DEF AccountInv
  <2>4. QED
    BY <2>1, <2>2, <2>3 DEF ProcessInv
<1>15. JobInv(j)'
  BY <1>1, <1>4, <1>5, <1>6, <1>11, <1>12, <1>13a DEF JobInv
<1>16. \A i \in Jobs \ {j} : UNCHANGED <<results[i], lock_json[i], job_result[i]>>
  BY <1>1, <1>3, <1>7 DEF TypeOK
<1>17. QED
  BY <1>8, <1>9, <1>10, <1>14, <1>15, <1>16 DEF Kept

\* A process that ends gives up its lease and nothing else; the job it names in
\* last-run.json is the one whose sweep it has finished.
LEMMA StopKeeps ==
  ASSUME IInv, NEW p \in Processes, RecordLastRun(p) \/ Crash(p)
  PROVE  Kept(p)
<1> USE DEF Holding, Identified, Bound, Attached, Recording
<1>1. /\ Stop(p)
      /\ last_run' = last_run \/ (pc[p] = "finished" /\ last_run' = job[p])
      /\ crashes' \in Nat
  BY DEF RecordLastRun, Crash, IInv, TypeOK
<1>2. \A i \in Jobs, u \in Attempts : results[i][u] \in Nat /\ results[i][u] <= 1
  BY DEF IInv, TypeOK, JobInv, Trials
<1>3. TypeOK /\ IdentityInv /\ LastRunInv /\ \A q \in Processes : ProcessInv(q)
  BY DEF IInv
<1>4. /\ pc' = [pc EXCEPT ![p] = "idle"]
      /\ job' = [job EXCEPT ![p] = 0]
      /\ expected' = [expected EXCEPT ![p] = 0]
      /\ todo' = [todo EXCEPT ![p] = {}]
      /\ recorded' = [recorded EXCEPT ![p] = 0]
      /\ baseline' = [baseline EXCEPT ![p] = NoBaseline]
      /\ lease' = [j \in Jobs |-> IF lease[j] = p THEN None ELSE lease[j]]
      /\ UNCHANGED <<directories, identified, run, results, lock_json, job_result>>
  BY <1>1 DEF Stop
<1>5. last_run' \in Jobs \union {None}
  BY <1>1, <1>3, OwnJob DEF TypeOK
<1>6. TypeOK'
  <2>1. /\ pc' \in [Processes -> Step] /\ todo' \in [Processes -> SUBSET Attempts]
        /\ lease' \in [Jobs -> Processes \union {None}]
    BY <1>3, <1>4 DEF TypeOK, Step
  <2>2. 0 \in 0 .. MaxJobs
    BY JobAssumption
  <2>3. /\ job' \in [Processes -> 0 .. MaxJobs] /\ expected' \in [Processes -> Nat]
        /\ recorded' \in [Processes -> Nat]
    BY <1>3, <1>4, <2>2 DEF TypeOK
  <2>4. baseline' \in [Processes -> [total : Nat, completed : Nat, locked : Nat]]
    BY <1>3, <1>4 DEF TypeOK, NoBaseline
  <2>5. QED
    BY <1>1, <1>3, <1>4, <1>5, <2>1, <2>3, <2>4 DEF TypeOK
<1>7. StepOf(p) /\ IdentityInv'
  <2>1. ASSUME NEW q \in Processes \ {p}
        PROVE  /\ pc'[q] = pc[q] /\ job'[q] = job[q] /\ todo'[q] = todo[q]
               /\ recorded'[q] = recorded[q] /\ baseline'[q] = baseline[q]
    BY <1>3, <1>4 DEF TypeOK
  <2>2. ASSUME NEW q \in Processes \ {p}, pc[q] \in Holding
        PROVE  lease'[job[q]] = q
    BY <1>3, <1>4, <2>2, OwnJob DEF ProcessInv, LeaseInv
  <2>3. QED
    BY <1>2, <1>3, <1>4, <2>1, <2>2 DEF TypeOK, StepOf, IdentityInv
<1>8. ProcessInv(p)'
  BY <1>3, <1>4 DEF TypeOK, ProcessInv, LeaseInv, SweepInv, AccountInv
<1>9. LastRunInv'
  <2>1. CASE last_run' = last_run
    BY <1>6, <1>7, <2>1, LastRunKeeps
  <2>2. CASE pc[p] = "finished" /\ last_run' = job[p]
    <3>1. run[job[p]] = Wanted[p] /\ \A t \in Wanted[p] : CompletedAttempt(job[p], t)
      BY <1>3, <2>2 DEF ProcessInv, LeaseInv, SweepInv
    <3>2. QED
      BY <1>4, <2>2, <3>1, WantedFinite DEF LastRunInv, CompletedAttempt
  <2>3. QED
    BY <1>1, <2>1, <2>2
<1>10. QED
  BY <1>4, <1>6, <1>7, <1>8, <1>9 DEF Kept

\* Every step of a process keeps the inductive invariant.
LEMMA NextKeeps ==
  ASSUME IInv, [Next]_vars
  PROVE  IInv'
<1>1. CASE UNCHANGED vars
  <2>1. TypeOK' /\ IdentityInv' /\ LastRunInv'
    BY <1>1 DEF IInv, TypeOK, IdentityInv, LastRunInv, CompletedAttempt, vars, disk, memory
  <2>2. ASSUME NEW p \in Processes PROVE ProcessInv(p)'
    <3>1. ProcessInv(p) /\ CompletedTrials(job[p])' = CompletedTrials(job[p])
      BY <1>1 DEF IInv, CompletedTrials, DurableTrials, vars, disk, memory
    <3>2. QED
      BY <1>1, <3>1 DEF ProcessInv, LeaseInv, SweepInv, AccountInv, CompletedAttempt,
                        vars, disk, memory
  <2>3. \A j \in Jobs : JobInv(j)'
    BY <1>1 DEF IInv, JobInv, CompletedTrials, DurableTrials, vars, disk
  <2>4. QED
    BY <2>1, <2>2, <2>3 DEF IInv
<1>2. ASSUME NEW p \in Processes, Resume(p) \/ Fresh(p) \/ Work(p) \/ Crash(p)
      PROVE  Kept(p)
  BY <1>2, OpenKeeps, BindKeeps, AttachKeeps, StartSweepKeeps, RecordTrialKeeps,
     RecordLockKeeps, WriteJobKeeps, StopKeeps DEF Work
<1>3. ASSUME NEW p \in Processes, Kept(p)
      PROVE  IInv'
  <2>1. TypeOK' /\ IdentityInv' /\ LastRunInv' /\ StepOf(p) /\ ProcessInv(p)'
    BY <1>3 DEF Kept
  <2>2. \A q \in Processes : ProcessInv(q)'
    BY <2>1, OthersKeep
  <2>3. \A j \in Jobs : JobInv(j)'
    BY <1>3, <2>1, JobKeeps DEF Kept
  <2>4. QED
    BY <2>1, <2>2, <2>3 DEF IInv
<1>4. QED
  BY <1>1, <1>2, <1>3 DEF Next

\* The inductive invariant holds in every reachable state.
LEMMA Invariant == Spec => []IInv
<1>1. Init => IInv
  BY InitIInv
<1>2. IInv /\ [Next]_vars => IInv'
  BY NextKeeps
<1>3. QED
  BY <1>1, <1>2, PTL DEF Spec

-----------------------------------------------------------------------------
(* The theorems *)

\* Every variable of the job directories and of the processes keeps its type.
THEOREM Typing == Spec => []TypeOK
<1>1. IInv => TypeOK
  BY DEF IInv
<1>2. QED
  BY <1>1, Invariant, PTL

\* Two processes past lease() (job.rs:189) never work on the same job.
THEOREM JobsAreExclusive ==
  Spec => [](\A p, q \in Processes :
               (pc[p] \in Holding /\ pc[q] \in Holding /\ p # q) => job[p] # job[q])
<1>1. IInv => \A p, q \in Processes :
                (pc[p] \in Holding /\ pc[q] \in Holding /\ p # q) => job[p] # job[q]
  BY DEF IInv, ProcessInv, LeaseInv
<1>2. QED
  BY <1>1, Invariant, PTL

\* However commands overlap, crash and are repeated, and whatever prefixes the
\* attempts share, remaining_attempts (eval.rs:344) hands none out again that has
\* a result.
THEOREM NothingRunsTwice == Spec => []OneResultPerAttempt
<1>1. IInv => OneResultPerAttempt
  BY DEF IInv, JobInv, OneResultPerAttempt
<1>2. QED
  BY <1>1, Invariant, PTL

\* The order of the commits of create, bind_run and write_trial leaves no result
\* in a directory that resume_or_create would not look into.
THEOREM ResultsAreReachable == Spec => []DurableResultsReachable
<1>1. IInv => DurableResultsReachable
  BY DEF IInv, JobInv, DurableResultsReachable
<1>2. QED
  BY <1>1, Invariant, PTL

\* attach, write_job_metadata and write_job keep the Harbor files behind the
\* results, for any number of sessions and a crash after any commit.
THEOREM HarborLagsBehind == Spec => []HarborNeverOvercounts
<1>1. IInv => HarborNeverOvercounts
  BY DEF IInv, JobInv, HarborNeverOvercounts
<1>2. QED
  BY <1>1, Invariant, PTL

\* The trials of a job are those of its sweep; as many as it has attempts are all.
LEMMA TrialsOfSweep ==
  ASSUME IInv, NEW j \in Jobs
  PROVE  /\ Cardinality(run[j]) \in Nat /\ CompletedTrials(j) \in Nat
         /\ CompletedTrials(j) <= Cardinality(run[j])
         /\ CompletedTrials(j) = Cardinality(run[j]) => AllDurable(j)
<1>1. JobInv(j) /\ results \in [Jobs -> Trials] /\ run[j] \subseteq Attempts
  BY DEF IInv, TypeOK
<1>2. CompletedTrials(j) = Cardinality(Durable(results[j]))
  <2>1. \A t \in Attempts : results[j][t] <= 1
    BY <1>1 DEF JobInv
  <2>2. QED
    BY <1>1, <2>1, CountTrials DEF TrialsCounted
<1>3. IsFiniteSet(run[j]) /\ Durable(results[j]) \subseteq run[j]
  BY <1>1, JobAssumption, FS_Subset DEF JobInv, Durable
<1>4. /\ Cardinality(run[j]) \in Nat /\ Cardinality(Durable(results[j])) \in Nat
      /\ Cardinality(Durable(results[j])) <= Cardinality(run[j])
      /\ Cardinality(run[j]) = Cardinality(Durable(results[j])) => run[j] = Durable(results[j])
  BY <1>3, FS_Subset, FS_CardinalityType
<1>5. QED
  BY <1>2, <1>4 DEF AllDurable, Durable

\* A job result with a finished_at (lib.rs:608) counts every attempt of its sweep,
\* whatever prefixes the attempts share.
FinalMeansDurable == \A j \in Jobs : IsFinal(job_result[j]) => AllDurable(j)
LEMMA FinalResult == IInv => FinalMeansDurable
<1> SUFFICES ASSUME IInv, NEW j \in Jobs, IsFinal(job_result[j]) PROVE AllDurable(j)
  BY DEF FinalMeansDurable
<1>1. /\ job_result[j].completed = job_result[j].total
      /\ job_result[j].completed \in Nat /\ lock_json[j] \in Nat
  BY DEF IInv, TypeOK, IsFinal
<1>2. /\ Cardinality(run[j]) <= job_result[j].total
      /\ job_result[j].completed <= lock_json[j] /\ lock_json[j] <= CompletedTrials(j)
  BY DEF IInv, JobInv, IsFinal
<1>3. QED
  BY <1>1, <1>2, TrialsOfSweep

\* What the prefixes of attempt_prefix (job.rs) are meant to be: each is that of
\* one attempt only.
DistinctPrefixes == \A t \in Attempts : Matches[t] = {t}

\* A job result that claims to be final stands for a complete sweep, and, where
\* every attempt has a prefix of its own, so does the job of last-run.json.
THEOREM FinalIsFinal ==
  /\ Spec => [](\A j \in Jobs : IsFinal(job_result[j]) => AllDurable(j))
  /\ DistinctPrefixes => (Spec => []FinalMeansAllDurable)
<1>1. IInv => \A j \in Jobs : IsFinal(job_result[j]) => AllDurable(j)
  BY FinalResult DEF FinalMeansDurable
<1>2. ASSUME DistinctPrefixes PROVE IInv => FinalMeansAllDurable
  <2>1. (IInv /\ last_run # None) => AllDurable(last_run)
    BY <1>2 DEF DistinctPrefixes, IInv, TypeOK, LastRunInv, AllDurable, CompletedAttempt
  <2>2. QED
    BY <1>1, <2>1 DEF FinalMeansAllDurable
<1>3. DistinctPrefixes => (Spec => []FinalMeansAllDurable)
  <2> SUFFICES ASSUME DistinctPrefixes PROVE Spec => []FinalMeansAllDurable
    OBVIOUS
  <2>1. IInv => FinalMeansAllDurable
    BY <1>2
  <2>2. QED
    BY <2>1, Invariant, PTL
<1>4. Spec => [](\A j \in Jobs : IsFinal(job_result[j]) => AllDurable(j))
  BY <1>1, Invariant, PTL
<1>5. QED
  BY <1>3, <1>4

-----------------------------------------------------------------------------
(* DurableJob implements JobLedger.  Binding a job, committing a trial and   *)
(* writing the result that first has a finished_at are steps of the ledger;  *)
(* every other step leaves it as it is.                                      *)

\* Steps of a process that the ledger does not see.
LEMMA UnseenSteps ==
  ASSUME UNCHANGED <<run, results, job_result>>
  PROVE  UNCHANGED Ledger!ledger
BY DEF Ledger!ledger, FinishedJobs

\* bind_run: a job without a run.json is bound, one that has it is left alone.
LEMMA BindIsBind ==
  ASSUME IInv, NEW p \in Processes, BindRun(p)
  PROVE  [Ledger!Next]_(Ledger!ledger)
<1>1. job[p] \in Jobs /\ run \in [Jobs -> SUBSET Attempts]
  BY OwnJob DEF BindRun, Holding, Identified, IInv, TypeOK
<1>2. /\ run[job[p]] \in {{}, Wanted[p]} /\ run' = [run EXCEPT ![job[p]] = Wanted[p]]
      /\ UNCHANGED <<results, job_result>>
  BY DEF BindRun
<1>3. FinishedJobs' = FinishedJobs
  BY <1>2 DEF FinishedJobs
<1>4. CASE run[job[p]] = {}
  <2>1. Ledger!Bind(job[p], Wanted[p])
    BY <1>2, <1>3, <1>4 DEF Ledger!Bind
  <2>2. QED
    BY <1>1, <2>1 DEF Ledger!Next
<1>5. CASE run[job[p]] = Wanted[p]
  <2>1. run' = run
    BY <1>1, <1>2, <1>5
  <2>2. QED
    BY <1>2, <2>1, UnseenSteps
<1>6. QED
  BY <1>2, <1>4, <1>5

\* A trial that is committed is one of the sweep without a result.
LEMMA RecordTrialIsEnter ==
  ASSUME IInv, NEW p \in Processes, NEW t \in Attempts, RecordTrial(p, t)
  PROVE  Ledger!Next
<1>1. /\ job[p] \in Jobs /\ pc[p] = "sweeping" /\ t \in todo[p]
      /\ results' = [results EXCEPT ![job[p]][t] = @ + 1]
      /\ UNCHANGED <<run, job_result>>
  BY OwnJob DEF RecordTrial, Holding, Identified, Bound, Attached, Recording
<1>2. t \in run[job[p]] /\ results[job[p]][t] = 0
  <2>1. ProcessInv(p)
    BY DEF IInv
  <2>2. QED
    BY <1>1, <2>1 DEF ProcessInv, LeaseInv, SweepInv, Bound, Attached, Recording
<1>3. results' = [results EXCEPT ![job[p]][t] = 1]
  BY <1>1, <1>2
<1>4. FinishedJobs' = FinishedJobs
  BY <1>1 DEF FinishedJobs
<1>5. Ledger!Enter(job[p], t)
  BY <1>1, <1>2, <1>3, <1>4 DEF Ledger!Enter
<1>6. QED
  BY <1>1, <1>5 DEF Ledger!Next

\* attach rewrites the result of the job from what it finds: a total that was
\* there covers the sweep and the results, so a finished_at stays and none is new.
LEMMA AttachIsUnseen ==
  ASSUME IInv, NEW p \in Processes, Attach(p)
  PROVE  UNCHANGED Ledger!ledger
<1> PICK j : j = job[p]
  OBVIOUS
<1> DEFINE total == Max({Cardinality(Wanted[p]), job_result[j].total, job_result[j].completed})
<1>1. /\ pc[p] = "open" /\ UNCHANGED <<run, results>>
      /\ job_result' = [job_result EXCEPT ![j].total = total]
  BY DEF Attach
<1>2. j \in Jobs /\ JobInv(j) /\ run[j] = Wanted[p] /\ Cardinality(Wanted[p]) \in Nat
  BY <1>1, OwnJob, WantedFinite DEF ProcessInv, LeaseInv, Holding, Identified, Bound
<1>3. /\ job_result \in [Jobs -> [total : Nat, completed : Nat]]
      /\ job_result[j].total \in Nat /\ job_result[j].completed \in Nat
  BY <1>2 DEF IInv, TypeOK
<1>4. /\ total \in {Cardinality(Wanted[p]), job_result[j].total, job_result[j].completed}
      /\ total >= job_result[j].total
  <2>1. total = Max({Cardinality(Wanted[p]), job_result[j].total,
                     job_result[j].completed, job_result[j].completed})
    OBVIOUS
  <2>2. \A a, b, c \in Nat : /\ Max({a, b, c, c}) \in {a, b, c, c}
                              /\ Max({a, b, c, c}) >= b
    BY MaxCovers
  <2>3. QED
    BY <1>2, <1>3, <2>1, <2>2
<1> HIDE DEF total
<1>5. /\ job_result[j].completed <= job_result[j].total
      /\ job_result[j].total > 0 => job_result[j].total >= Cardinality(Wanted[p])
  BY <1>2 DEF JobInv
<1>6. /\ job_result'[j].total = total /\ job_result'[j].completed = job_result[j].completed
      /\ \A i \in Jobs \ {j} : job_result'[i] = job_result[i]
  BY <1>1, <1>2, <1>3
<1>7. IsFinal(job_result'[j]) <=> IsFinal(job_result[j])
  BY <1>2, <1>3, <1>4, <1>5, <1>6 DEF IsFinal
<1>8. FinishedJobs' = FinishedJobs
  BY <1>2, <1>6, <1>7 DEF FinishedJobs
<1>9. QED
  BY <1>1, <1>8 DEF Ledger!ledger

\* write_job never takes a finished_at back: a session that has recorded something
\* since it attached found a job that was not finished.
LEMMA FinishedStays ==
  ASSUME IInv, NEW p \in Processes, RecordJob(p) \/ Finish(p), IsFinal(job_result[job[p]])
  PROVE  IsFinal(job_result'[job[p]])
<1> PICK j : j = job[p]
  OBVIOUS
<1> USE DEF Holding, Identified, Bound, Attached, Recording
<1>1. pc[p] \in {"locked", "sweeping"}
  BY DEF RecordJob, Finish
<1>2. j \in Jobs /\ JobInv(j) /\ run[j] = Wanted[p] /\ ProcessInv(p)
  BY <1>1, OwnJob DEF ProcessInv, LeaseInv
<1>3. /\ job_result \in [Jobs -> [total : Nat, completed : Nat]]
      /\ job_result[j].total \in Nat /\ job_result[j].completed \in Nat
      /\ baseline[p].total \in Nat /\ baseline[p].completed \in Nat
      /\ baseline[p].locked \in Nat /\ recorded[p] \in Nat
  BY <1>2 DEF IInv, TypeOK
<1>4. /\ baseline[p].completed <= baseline[p].locked
      /\ baseline[p].locked + recorded[p] <= CompletedTrials(j)
      /\ baseline[p].total <= job_result[j].total
      /\ job_result[j].completed + (IF pc[p] \in {"committed", "locked"} THEN 1 ELSE 0)
           = baseline[p].completed + recorded[p]
  BY <1>1, <1>2 DEF ProcessInv, AccountInv
<1>5. /\ CompletedTrials(j) \in Nat /\ Cardinality(Wanted[p]) \in Nat
      /\ CompletedTrials(j) <= Cardinality(Wanted[p])
      /\ Cardinality(Wanted[p]) <= job_result[j].total
      /\ job_result[j].completed = job_result[j].total /\ job_result[j].total > 0
  BY <1>2, TrialsOfSweep DEF JobInv, IsFinal
<1>6. pc[p] = "sweeping" /\ job_result[j].completed = baseline[p].completed + recorded[p]
  BY <1>1, <1>3, <1>4, <1>5
<1>7. recorded[p] = expected[p] /\ job_result' = [job_result EXCEPT ![j] = JobResult(p, recorded[p])]
  BY <1>6 DEF RecordJob, Finish
<1> DEFINE completed == baseline[p].completed + recorded[p]
           total == Max({recorded[p], Cardinality(Wanted[p]), baseline[p].total, completed})
<1>8. JobResult(p, recorded[p]) = [completed |-> completed, total |-> total]
  BY DEF JobResult
<1>9. total = job_result[j].total
  <2>1. /\ total \in {recorded[p], Cardinality(Wanted[p]), baseline[p].total, completed}
        /\ total >= completed
    <3>1. completed \in Nat
      BY <1>3
    <3> HIDE DEF completed
    <3>2. QED
      BY <1>3, <1>5, <3>1, MaxCovers, Zenon
  <2> HIDE DEF total
  <2>2. QED
    BY <1>3, <1>4, <1>5, <1>6, <2>1
<1>10. job_result'[j] = [completed |-> completed, total |-> total]
  BY <1>2, <1>3, <1>7, <1>8
<1>11. QED
  BY <1>3, <1>5, <1>6, <1>9, <1>10 DEF IsFinal

\* A finished_at is written for a complete sweep only.
LEMMA WriteJobIsFinish ==
  ASSUME IInv, IInv', NEW p \in Processes, RecordJob(p) \/ Finish(p)
  PROVE  [Ledger!Next]_(Ledger!ledger)
<1> PICK j : j = job[p]
  OBVIOUS
<1>1. UNCHANGED <<run, results>>
  BY DEF RecordJob, Finish
<1>2. j \in Jobs
  BY OwnJob DEF RecordJob, Finish, Holding, Identified, Bound, Attached, Recording
<1>3. \A i \in Jobs \ {j} : job_result'[i] = job_result[i]
  BY <1>2 DEF RecordJob, Finish, IInv, TypeOK
<1>4. FinishedJobs' = IF IsFinal(job_result'[j]) THEN FinishedJobs \union {j} ELSE FinishedJobs
  <2>1. j \in FinishedJobs => IsFinal(job_result'[j])
    BY FinishedStays DEF FinishedJobs
  <2>2. QED
    BY <1>2, <1>3, <2>1 DEF FinishedJobs
<1>5. CASE IsFinal(job_result'[j])
  <2>1. \A t \in run[j] : results[j][t] = 1
    <3>1. FinalMeansDurable' /\ JobInv(j) /\ run[j] \subseteq Attempts /\ results \in [Jobs -> Trials]
      <4>1. FinalMeansDurable'
        BY FinalResult, PTL
      <4>2. QED
        BY <1>2, <4>1 DEF IInv, TypeOK
    <3>2. \A t \in run[j] : results[j][t] > 0
      BY <1>1, <1>2, <1>5, <3>1 DEF FinalMeansDurable, AllDurable
    <3>3. QED
      BY <1>2, <3>1, <3>2 DEF JobInv, Trials
  <2>2. run[j] # {}
    BY <1>1, <1>2, <1>5 DEF IInv, JobInv, IsFinal
  <2>3. Ledger!Finish(j)
    BY <1>1, <1>4, <1>5, <2>1, <2>2 DEF Ledger!Finish
  <2>4. QED
    BY <1>2, <2>3 DEF Ledger!Next
<1>6. CASE ~IsFinal(job_result'[j])
  BY <1>1, <1>4, <1>6 DEF Ledger!ledger
<1>7. QED
  BY <1>5, <1>6

\* Every step of any process is a step of the ledger or unseen by it.
LEMMA LedgerStep ==
  ASSUME IInv, IInv', [Next]_vars
  PROVE  [Ledger!Next]_(Ledger!ledger)
<1>1. CASE UNCHANGED vars
  BY <1>1, UnseenSteps DEF vars, disk
<1>2. ASSUME NEW p \in Processes, Resume(p) \/ Fresh(p) \/ Work(p) \/ Crash(p)
      PROVE  [Ledger!Next]_(Ledger!ledger)
  <2>1. CASE \/ Resume(p) \/ Fresh(p) \/ TakeLease(p) \/ RunActive(p) \/ CreateDirectory(p)
             \/ WriteIdentity(p) \/ StartSweep(p) \/ RecordLock(p) \/ RecordLastRun(p) \/ Crash(p)
    BY <2>1, UnseenSteps DEF Resume, Fresh, TakeLease, RunActive, CreateDirectory, WriteIdentity,
         StartSweep, RecordLock, RecordLastRun, Crash, Stop, disk
  <2>2. QED
    BY <1>2, <2>1, BindIsBind, AttachIsUnseen, RecordTrialIsEnter, WriteJobIsFinish DEF Work
<1>3. QED
  BY <1>1, <1>2 DEF Next

\* However many commands work on the directories, whatever they had read before
\* they were interrupted, each job behaves as one ledger: bound once, an entry for
\* each attempt of its sweep at most once and for good, finished when complete and
\* never unfinished again.
THEOREM JobsAreLedgers == Spec => ImplementsLedger
<1>1. Init => Ledger!Init
  BY DEF Init, Ledger!Init, FinishedJobs, IsFinal, NoResult
<1>2. IInv /\ IInv' /\ [Next]_vars => [Ledger!Next]_(Ledger!ledger)
  BY LedgerStep
<1>3. QED
  BY <1>1, <1>2, Invariant, PTL DEF Spec, ImplementsLedger, Ledger!Spec
=============================================================================

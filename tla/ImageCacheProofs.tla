--------------------------- MODULE ImageCacheProofs ---------------------------
(***************************************************************************)
(* Proofs about GuestRuntime and ImageCache, for every set of commands,    *)
(* registry, recipes and bounds.                                           *)
(*                                                                         *)
(* The cache has no lock: commands rename disks over each other's, and     *)
(* records follow what they are about.  The argument rests on the stamps:  *)
(* a rename gives a disk a stamp no disk and no note had before, so a note *)
(* written late, about a disk that was replaced meanwhile, is never        *)
(* believed again.  The tool runtime rests on Cargo's lock: the binary is  *)
(* never replaced by one of older sources, so a command that has run Cargo *)
(* reads what it built or something newer.                                 *)
(***************************************************************************)
EXTENDS ImageCache, TLAPS, SequenceTheorems, WellFoundedInduction

-----------------------------------------------------------------------------
(* The tool runtime *)

Pcs == RuntimeStep \union ImageStep \union {"report", "failed", "prepared"}

\* What a command has at each step of prepare_vm_guest_runtime.
ToolInv(p) ==
  /\ pc[p] = "building" => builder # None /\ builder.by = p
  /\ pc[p] \in {"load", "read", "stage", "meta", "record"} => binary # None
  /\ pc[p] = "stage" => bytes[p] # None
  /\ pc[p] \in {"meta", "record"} => bytes[p] \in staged
  /\ pc[p] = "record" => meta[p] # None

\* The inductive invariant of the tool runtime.
RuntimeInv ==
  /\ pc \in [Processes -> Pcs]
  /\ RuntimeTypeOK
  /\ \A p \in Processes : ToolInv(p)

\* Cargo's lock keeps versions in their order: what is built is not of older
\* sources than what is there.
SourceInv ==
  /\ builder # None => builder.version <= source
  /\ binary # None => binary.version <= source
  /\ (builder # None /\ binary # None) => binary.version <= builder.version

\* A command that runs Cargo has it build, and then reads, what is current.
CurrentInv(p) ==
  /\ started[p] <= source
  /\ pc[p] \in RuntimeStep \ {"network"} => launched[p] = None
  /\ pc[p] = "building" => builder.version >= started[p]
  /\ build_status[p] = "rebuilt" =>
       /\ pc[p] = "read" => binary.version >= started[p]
       /\ pc[p] \in {"stage", "meta", "record"} => bytes[p] >= started[p]
       /\ LaunchesCurrent(p)

\* Its inductive invariant.
CurrencyInv == SourceInv /\ \A p \in Processes : CurrentInv(p)

-----------------------------------------------------------------------------
(* The image cache *)

Images == UNION {[S -> Digests] : S \in SUBSET Tags}
StageDisks == [files : SUBSET Shells, of : SUBSET Digests]
Works == [item : Nat, images : Images, pulling : Digests \union {None},
          flat : Digests \union {None}, built : Seq(StageDisks), seen : Nat,
          shell : Shells \union {"none"}, ready : Seq(Shells \union {"none"})]

Manifests(p) == {work[p].images[t] : t \in DOMAIN work[p].images}
ShellOf(files) == IF "bash" \in files THEN "bash" ELSE "sh"

\* What a command knows at each step.
WorkInv(p) ==
  /\ work[p].item \in 1 .. Len(Todo[p]) + 1
  /\ pc[p] \notin {"failed", "prepared"} => work[p].item \in 1 .. Len(Todo[p])
  /\ pc[p] = "pull" => work[p].pulling \in Digests /\ Unresolved(p) # {}
  /\ pc[p] \in {"lookup", "flatten", "stages", "stat", "inspect", "note"} => Unresolved(p) = {}
  /\ pc[p] = "stages" => RequiresBuild(Recipe(p))
  /\ pc[p] = "flatten" =>
       /\ work[p].flat \in Digests
       /\ RequiresBuild(Recipe(p)) \/ (work[p].built = <<>> /\ FlatKey(work[p].flat) = Key(p))
  /\ pc[p] \notin {"flatten", "stages"} => work[p].built = <<>>
  /\ pc[p] \in {"flatten", "stages"} => Len(work[p].built) <= Len(Stages[Recipe(p)])
  /\ \A i \in DOMAIN work[p].built : work[p].built[i].of \subseteq Manifests(p)

\* What it knows of the disk it has seen.
SeenInv(p) ==
  /\ pc[p] \in {"stat", "inspect", "note"} => Key(p) \in DOMAIN disks
  /\ pc[p] \in {"inspect", "note"} => work[p].seen \in 1 .. disks[Key(p)].stamp
  /\ pc[p] = "note" =>
       /\ work[p].shell \in Shells
       /\ work[p].seen = disks[Key(p)].stamp => work[p].shell = ShellOf(disks[Key(p)].files)

\* The files and their records.
CacheInv ==
  /\ FilesTypeOK
  /\ DOMAIN notes \subseteq DOMAIN disks
  /\ RecordsAreComplete
  /\ BuildsMatchTheirKey
  /\ NotesMatchDisks

\* The inductive invariant of the image cache.
ImageInv ==
  /\ pc \in [Processes -> Pcs]
  /\ work \in [Processes -> Works]
  /\ CacheInv
  /\ \A p \in Processes : WorkInv(p) /\ SeenInv(p)

-----------------------------------------------------------------------------
(* The tool runtime *)

\* The initial states.
LEMMA RuntimeStarts == Init => RuntimeInv
<1> SUFFICES ASSUME Init PROVE RuntimeInv
  OBVIOUS
<1>1. 0 \in Versions /\ edited \in 0 .. clock /\ events \in 0 .. MaxEvents /\ repeats \in 0 .. MaxRepeats
  BY RuntimeAssumption DEF Init, RuntimeInit, Versions
<1>2. RuntimeTypeOK
  BY <1>1 DEF Init, RuntimeInit, RuntimeTypeOK
<1>3. pc \in [Processes -> Pcs] /\ \A p \in Processes : ToolInv(p)
  BY DEF Init, RuntimeInit, ToolInv, Pcs, RuntimeStep
<1> QED
  BY <1>2, <1>3 DEF RuntimeInv

\* A step of one command keeps what is said of another, if the binary, its
\* builder and what is staged are still there.
LEMMA OtherTools ==
  ASSUME NEW q \in Processes, ToolInv(q), pc'[q] = pc[q],
         (pc[q] = "building") => builder' = builder,
         binary # None => binary' # None, staged \subseteq staged',
         bytes'[q] = bytes[q], meta'[q] = meta[q]
  PROVE  ToolInv(q)'
BY DEF ToolInv

\* A step outside prepare_vm_guest_runtime: no command enters it but at its
\* start, and none leaves a build.
LEMMA ToolsKeep ==
  ASSUME RuntimeInv, UNCHANGED runtimeVars, pc' \in [Processes -> Pcs],
         events' \in 0 .. MaxEvents, repeats' \in 0 .. MaxRepeats,
         \A q \in Processes : pc'[q] = pc[q] \/ pc'[q] \in Pcs \ (RuntimeStep \ {"fresh"})
  PROVE  RuntimeInv'
<1>1. RuntimeTypeOK'
  BY DEF RuntimeInv, RuntimeTypeOK, runtimeVars
<1>2. ASSUME NEW q \in Processes PROVE ToolInv(q)'
  <2>1. CASE pc'[q] = pc[q]
    BY <2>1 DEF RuntimeInv, ToolInv, runtimeVars
  <2>2. CASE pc'[q] \in Pcs \ (RuntimeStep \ {"fresh"})
    BY <2>2 DEF ToolInv, RuntimeStep
  <2> QED
    BY <2>1, <2>2
<1> QED
  BY <1>1, <1>2 DEF RuntimeInv

\* Each step of prepare_vm_guest_runtime and of prepare_gvproxy.
LEMMA PrepareToolsKeeps ==
  ASSUME RuntimeInv, NEW p \in Processes, PrepareTools(p, "resolve")
  PROVE  RuntimeInv'
<1> USE RuntimeAssumption
<1>1. RuntimeTypeOK /\ ToolInv(p) /\ pc \in [Processes -> Pcs]
  BY DEF RuntimeInv
<1>2. CASE CheckFresh(p)
  <2>1. pc' \in [Processes -> Pcs] /\ \A q \in Processes : q # p => pc'[q] = pc[q]
    BY <1>1, <1>2 DEF CheckFresh, To, Pcs, RuntimeStep, ImageStep
  <2>2. RuntimeTypeOK'
    BY <1>1, <1>2 DEF RuntimeTypeOK, ToolInv, Binaries, Builders, SizesAndTimes, SizeAndTime,
       Versions, CheckFresh, runtimeVars
  <2>3. ToolInv(p)'
    BY <1>1, <1>2 DEF RuntimeTypeOK, ToolInv, Binaries, Builders, SizesAndTimes, SizeAndTime,
       Versions, To, CheckFresh, runtimeVars
  <2>4. ASSUME NEW q \in Processes, q # p PROVE ToolInv(q)'
    BY <1>1, <1>2, <2>1, <2>4, OtherTools DEF RuntimeInv, RuntimeTypeOK, ToolInv, Binaries, Builders, CheckFresh, runtimeVars
  <2> QED
    BY <2>1, <2>2, <2>3, <2>4 DEF RuntimeInv
<1>3. CASE StartBuild(p)
  <2>1. pc' \in [Processes -> Pcs] /\ \A q \in Processes : q # p => pc'[q] = pc[q]
    BY <1>1, <1>3 DEF StartBuild, To, Pcs, RuntimeStep, ImageStep
  <2>2. RuntimeTypeOK'
    BY <1>1, <1>3 DEF RuntimeTypeOK, ToolInv, Binaries, Builders, SizesAndTimes, SizeAndTime,
       Versions, StartBuild
  <2>3. ToolInv(p)'
    BY <1>1, <1>3 DEF RuntimeTypeOK, ToolInv, Binaries, Builders, SizesAndTimes, SizeAndTime,
       Versions, To, StartBuild
  <2>4. ASSUME NEW q \in Processes, q # p PROVE ToolInv(q)'
    BY <1>1, <1>3, <2>1, <2>4, OtherTools DEF RuntimeInv, RuntimeTypeOK, ToolInv, Binaries, Builders, StartBuild
  <2> QED
    BY <2>1, <2>2, <2>3, <2>4 DEF RuntimeInv
<1>4. CASE FinishBuild(p)
  <2>1. pc' \in [Processes -> Pcs] /\ \A q \in Processes : q # p => pc'[q] = pc[q]
    BY <1>1, <1>4 DEF FinishBuild, To, Pcs, RuntimeStep, ImageStep
  <2>2. RuntimeTypeOK'
    BY <1>1, <1>4 DEF RuntimeTypeOK, ToolInv, Binaries, Builders, SizesAndTimes, SizeAndTime,
       Versions, FinishBuild
  <2>3. ToolInv(p)'
    BY <1>1, <1>4 DEF RuntimeTypeOK, ToolInv, Binaries, Builders, SizesAndTimes, SizeAndTime,
       Versions, To, FinishBuild
  <2>4. ASSUME NEW q \in Processes, q # p PROVE ToolInv(q)'
    BY <1>1, <1>4, <2>1, <2>4, OtherTools DEF RuntimeInv, RuntimeTypeOK, ToolInv, Binaries, Builders, FinishBuild
  <2> QED
    BY <2>1, <2>2, <2>3, <2>4 DEF RuntimeInv
<1>5. CASE LoadRecord(p)
  <2>1. pc' \in [Processes -> Pcs] /\ \A q \in Processes : q # p => pc'[q] = pc[q]
    BY <1>1, <1>5 DEF LoadRecord, To, Pcs, RuntimeStep, ImageStep
  <2>2. RuntimeTypeOK'
    BY <1>1, <1>5 DEF RuntimeTypeOK, ToolInv, Binaries, Builders, SizesAndTimes, SizeAndTime,
       Versions, LoadRecord, RecordHits
  <2>3. ToolInv(p)'
    BY <1>1, <1>5 DEF RuntimeTypeOK, ToolInv, Binaries, Builders, SizesAndTimes, SizeAndTime,
       Versions, To, LoadRecord, RecordHits
  <2>4. ASSUME NEW q \in Processes, q # p PROVE ToolInv(q)'
    BY <1>1, <1>5, <2>1, <2>4, OtherTools DEF RuntimeInv, RuntimeTypeOK, ToolInv, Binaries, Builders, LoadRecord, RecordHits
  <2> QED
    BY <2>1, <2>2, <2>3, <2>4 DEF RuntimeInv
<1>6. CASE ReadBinary(p)
  <2>1. pc' \in [Processes -> Pcs] /\ \A q \in Processes : q # p => pc'[q] = pc[q]
    BY <1>1, <1>6 DEF ReadBinary, To, Pcs, RuntimeStep, ImageStep
  <2>2. RuntimeTypeOK'
    BY <1>1, <1>6 DEF RuntimeTypeOK, ToolInv, Binaries, Builders, SizesAndTimes, SizeAndTime,
       Versions, ReadBinary
  <2>3. ToolInv(p)'
    BY <1>1, <1>6 DEF RuntimeTypeOK, ToolInv, Binaries, Builders, SizesAndTimes, SizeAndTime,
       Versions, To, ReadBinary
  <2>4. ASSUME NEW q \in Processes, q # p PROVE ToolInv(q)'
    BY <1>1, <1>6, <2>1, <2>4, OtherTools DEF RuntimeInv, RuntimeTypeOK, ToolInv, Binaries, Builders, ReadBinary
  <2> QED
    BY <2>1, <2>2, <2>3, <2>4 DEF RuntimeInv
<1>7. CASE StageRuntime(p)
  <2>1. pc' \in [Processes -> Pcs] /\ \A q \in Processes : q # p => pc'[q] = pc[q]
    BY <1>1, <1>7 DEF StageRuntime, To, Pcs, RuntimeStep, ImageStep
  <2>2. RuntimeTypeOK'
    BY <1>1, <1>7 DEF RuntimeTypeOK, ToolInv, Binaries, Builders, SizesAndTimes, SizeAndTime,
       Versions, StageRuntime
  <2>3. ToolInv(p)'
    BY <1>1, <1>7 DEF RuntimeTypeOK, ToolInv, Binaries, Builders, SizesAndTimes, SizeAndTime,
       Versions, To, StageRuntime
  <2>4. ASSUME NEW q \in Processes, q # p PROVE ToolInv(q)'
    BY <1>1, <1>7, <2>1, <2>4, OtherTools DEF RuntimeInv, RuntimeTypeOK, ToolInv, Binaries, Builders, StageRuntime
  <2> QED
    BY <2>1, <2>2, <2>3, <2>4 DEF RuntimeInv
<1>8. CASE ReadMeta(p)
  <2>1. pc' \in [Processes -> Pcs] /\ \A q \in Processes : q # p => pc'[q] = pc[q]
    BY <1>1, <1>8 DEF ReadMeta, To, Pcs, RuntimeStep, ImageStep
  <2>2. RuntimeTypeOK'
    BY <1>1, <1>8 DEF RuntimeTypeOK, ToolInv, Binaries, Builders, SizesAndTimes, SizeAndTime,
       Versions, ReadMeta
  <2>3. ToolInv(p)'
    BY <1>1, <1>8 DEF RuntimeTypeOK, ToolInv, Binaries, Builders, SizesAndTimes, SizeAndTime,
       Versions, To, ReadMeta
  <2>4. ASSUME NEW q \in Processes, q # p PROVE ToolInv(q)'
    BY <1>1, <1>8, <2>1, <2>4, OtherTools DEF RuntimeInv, RuntimeTypeOK, ToolInv, Binaries, Builders, ReadMeta
  <2> QED
    BY <2>1, <2>2, <2>3, <2>4 DEF RuntimeInv
<1>9. CASE WriteRuntimeRecord(p)
  <2>1. pc' \in [Processes -> Pcs] /\ \A q \in Processes : q # p => pc'[q] = pc[q]
    BY <1>1, <1>9 DEF WriteRuntimeRecord, To, Pcs, RuntimeStep, ImageStep
  <2>2. RuntimeTypeOK'
    BY <1>1, <1>9 DEF RuntimeTypeOK, ToolInv, Binaries, Builders, SizesAndTimes, SizeAndTime,
       Versions, WriteRuntimeRecord
  <2>3. ToolInv(p)'
    BY <1>1, <1>9 DEF RuntimeTypeOK, ToolInv, Binaries, Builders, SizesAndTimes, SizeAndTime,
       Versions, To, WriteRuntimeRecord
  <2>4. ASSUME NEW q \in Processes, q # p PROVE ToolInv(q)'
    BY <1>1, <1>9, <2>1, <2>4, OtherTools DEF RuntimeInv, RuntimeTypeOK, ToolInv, Binaries, Builders, WriteRuntimeRecord
  <2> QED
    BY <2>1, <2>2, <2>3, <2>4 DEF RuntimeInv
<1>10. CASE Gvproxy(p, "resolve")
  <2>1. pc' \in [Processes -> Pcs] /\ \A q \in Processes : q # p => pc'[q] = pc[q]
    BY <1>1, <1>10 DEF Gvproxy, To, Pcs, RuntimeStep, ImageStep
  <2>2. RuntimeTypeOK'
    BY <1>1, <1>10 DEF RuntimeTypeOK, ToolInv, Binaries, Builders, SizesAndTimes, SizeAndTime,
       Versions, Gvproxy
  <2>3. ToolInv(p)'
    BY <1>1, <1>10 DEF RuntimeTypeOK, ToolInv, Binaries, Builders, SizesAndTimes, SizeAndTime,
       Versions, To, Gvproxy
  <2>4. ASSUME NEW q \in Processes, q # p PROVE ToolInv(q)'
    BY <1>1, <1>10, <2>1, <2>4, OtherTools DEF RuntimeInv, RuntimeTypeOK, ToolInv, Binaries, Builders, Gvproxy
  <2> QED
    BY <2>1, <2>2, <2>3, <2>4 DEF RuntimeInv
<1> QED
  BY <1>2, <1>3, <1>4, <1>5, <1>6, <1>7, <1>8, <1>9, <1>10 DEF PrepareTools

\* Events outside the commands, and the ends of a command.
LEMMA OutsideKeeps ==
  ASSUME RuntimeInv, Edit \/ (\E t \in Tags, d \in Digests : Retag(t, d)) \/ MirrorChanges
  PROVE  RuntimeInv'
<1>1. CASE Edit
  <2>1. RuntimeTypeOK'
    BY <1>1, RuntimeAssumption DEF RuntimeInv, RuntimeTypeOK, Edit, Versions
  <2>2. ASSUME NEW q \in Processes PROVE ToolInv(q)'
    BY <1>1, <2>2, OtherTools DEF RuntimeInv, Edit
  <2> QED
    BY <1>1, <2>1, <2>2 DEF RuntimeInv, Edit
<1>2. CASE (\E t \in Tags, d \in Digests : Retag(t, d)) \/ MirrorChanges
  BY <1>2, ToolsKeep, RuntimeAssumption DEF RuntimeInv, RuntimeTypeOK, Retag, MirrorChanges
<1> QED
  BY <1>1, <1>2

\* A failed environment either ends the command or leaves it with the next one.
LEMMA GiveUpMoves ==
  ASSUME RuntimeInv, NEW p \in Processes, GiveUp(p)
  PROVE  /\ pc' \in [Processes -> Pcs]
         /\ \A q \in Processes : q # p => pc'[q] = pc[q]
         /\ pc'[p] \in {"failed", "prepared", "resolve"}
BY DEF RuntimeInv, GiveUp, NextItem, To, Pcs, RuntimeStep, ImageStep

LEMMA EndsKeep ==
  ASSUME RuntimeInv, NEW p \in Processes, Fail(p) \/ FailRuntime(p) \/ Crash(p) \/ Repeat(p)
  PROVE  RuntimeInv'
<1> USE RuntimeAssumption
<1>1. RuntimeTypeOK /\ ToolInv(p) /\ pc \in [Processes -> Pcs]
  BY DEF RuntimeInv
<1>2. CASE Fail(p)
  <2>1. /\ UNCHANGED runtimeVars /\ events' \in 0 .. MaxEvents /\ repeats' \in 0 .. MaxRepeats
        /\ GiveUp(p)
    BY <1>1, <1>2 DEF RuntimeTypeOK, Fail
  <2>2. \A q \in Processes : pc'[q] = pc[q] \/ pc'[q] \in Pcs \ (RuntimeStep \ {"fresh"})
    BY <2>1, GiveUpMoves DEF Pcs, RuntimeStep, ImageStep
  <2> QED
    BY <2>1, <2>2, GiveUpMoves, ToolsKeep
<1>3. CASE FailRuntime(p)
  <2>1. /\ UNCHANGED runtimeVars /\ events' \in 0 .. MaxEvents /\ repeats' \in 0 .. MaxRepeats
        /\ pc' = [pc EXCEPT ![p] = "failed"]
    BY <1>1, <1>3 DEF RuntimeTypeOK, FailRuntime, To
  <2>2. /\ pc' \in [Processes -> Pcs]
        /\ \A q \in Processes : pc'[q] = pc[q] \/ pc'[q] \in Pcs \ (RuntimeStep \ {"fresh"})
    BY <1>1, <2>1 DEF Pcs, RuntimeStep, ImageStep
  <2> QED
    BY <2>1, <2>2, ToolsKeep
<1>4. CASE Crash(p)
  <2>1. /\ pc' = [pc EXCEPT ![p] = "failed"] /\ events' \in 0 .. MaxEvents
        /\ builder' = IF pc[p] = "building" THEN None ELSE builder
        /\ UNCHANGED <<source, clock, edited, binary, staged, record, started, bytes, meta,
                        build_status, launched, gvproxy, repeats>>
    BY <1>1, <1>4 DEF RuntimeTypeOK, Crash, To
  <2>2. RuntimeTypeOK'
    BY <1>1, <2>1 DEF RuntimeTypeOK
  <2>3. pc' \in [Processes -> Pcs] /\ ToolInv(p)'
    BY <1>1, <2>1 DEF Pcs, ToolInv
  <2>4. ASSUME NEW q \in Processes, q # p PROVE ToolInv(q)'
    BY <1>1, <2>1, <2>4, OtherTools DEF RuntimeInv, ToolInv
  <2> QED
    BY <2>2, <2>3, <2>4 DEF RuntimeInv
<1>5. CASE Repeat(p)
  <2>1. /\ pc' = [pc EXCEPT ![p] = "fresh"] /\ repeats' \in 0 .. MaxRepeats
        /\ RuntimeStart(p)
        /\ UNCHANGED <<source, clock, edited, binary, builder, staged, record, gvproxy, events>>
    BY <1>1, <1>5 DEF RuntimeTypeOK, Repeat, To
  <2>2. RuntimeTypeOK'
    BY <1>1, <2>1 DEF RuntimeTypeOK, RuntimeStart
  <2>3. pc' \in [Processes -> Pcs] /\ ToolInv(p)'
    BY <1>1, <2>1 DEF Pcs, RuntimeStep, ToolInv
  <2>4. ASSUME NEW q \in Processes, q # p PROVE ToolInv(q)'
    BY <1>1, <2>1, <2>4, OtherTools DEF RuntimeInv, RuntimeTypeOK, RuntimeStart
  <2> QED
    BY <2>2, <2>3, <2>4 DEF RuntimeInv
<1> QED
  BY <1>2, <1>3, <1>4, <1>5

\* The steps of the image cache leave the tool runtime alone.
LEMMA PrepareImageMoves ==
  ASSUME RuntimeInv, NEW p \in Processes, PrepareImage(p)
  PROVE  /\ UNCHANGED <<runtimeVars, events, repeats>>
         /\ pc' \in [Processes -> Pcs]
         /\ \A q \in Processes : q # p => pc'[q] = pc[q]
         /\ pc'[p] = pc[p] \/ pc'[p] \in Pcs \ RuntimeStep
<1>1. pc \in [Processes -> Pcs]
  BY DEF RuntimeInv
<1> USE DEF Pcs, RuntimeStep, ImageStep, To
<1>2. CASE Resolve(p) \/ PullBlob(p) \/ WriteReference(p)
  BY <1>1, <1>2 DEF Resolve, PullBlob, WriteReference
<1>3. CASE Lookup(p) \/ NeedTemplate(p) \/ Flatten(p) \/ RunStage(p) \/ PublishBuild(p)
  BY <1>1, <1>3 DEF Lookup, NeedTemplate, Flatten, RunStage, PublishBuild
<1>4. CASE StatDisk(p) \/ Inspect(p) \/ NoteShell(p) \/ Report(p)
  BY <1>1, <1>4 DEF StatDisk, Inspect, NoteShell, Report, NextItem
<1>5. CASE Reject(p)
  BY <1>5, GiveUpMoves DEF Reject
<1> QED
  BY <1>2, <1>3, <1>4, <1>5 DEF PrepareImage

LEMMA PrepareImageKeepsTools ==
  ASSUME RuntimeInv, NEW p \in Processes, PrepareImage(p)
  PROVE  RuntimeInv'
<1>1. events' \in 0 .. MaxEvents /\ repeats' \in 0 .. MaxRepeats
  BY PrepareImageMoves DEF RuntimeInv, RuntimeTypeOK
<1>2. \A q \in Processes : pc'[q] = pc[q] \/ pc'[q] \in Pcs \ (RuntimeStep \ {"fresh"})
  BY PrepareImageMoves
<1> QED
  BY <1>1, <1>2, PrepareImageMoves, ToolsKeep

LEMMA RuntimeKeeps == RuntimeInv /\ [Next]_vars => RuntimeInv'
<1> SUFFICES ASSUME RuntimeInv, [Next]_vars PROVE RuntimeInv'
  OBVIOUS
<1>1. CASE UNCHANGED vars
  BY <1>1, ToolsKeep DEF RuntimeInv, RuntimeTypeOK, vars
<1>2. CASE \E p \in Processes : Step(p) \/ Fail(p) \/ FailRuntime(p) \/ Crash(p) \/ Repeat(p)
  BY <1>2, PrepareToolsKeeps, PrepareImageKeepsTools, EndsKeep DEF Step, Tools
<1>3. CASE Edit \/ (\E t \in Tags, d \in Digests : Retag(t, d)) \/ MirrorChanges
  BY <1>3, OutsideKeeps
<1> QED
  BY <1>1, <1>2, <1>3 DEF Next

LEMMA RuntimeInvariant == Spec => []RuntimeInv
BY RuntimeStarts, RuntimeKeeps, PTL DEF Spec

-----------------------------------------------------------------------------
(* How current the tool runtime is *)

\* The initial states.
LEMMA CurrentAtFirst == Init => CurrencyInv
BY RuntimeAssumption
DEF Init, RuntimeInit, CurrencyInv, SourceInv, CurrentInv, LaunchesCurrent, RuntimeStep

\* A step that leaves alone what a command has read keeps it current: sources
\* and binary only move on.
LEMMA OthersCurrent ==
  ASSUME RuntimeInv, NEW q \in Processes, CurrentInv(q), RuntimeInv',
         source' >= source, pc'[q] = pc[q],
         (pc[q] = "building") => builder' = builder,
         binary' = binary \/ (binary' # None /\ binary # None => binary'.version >= binary.version),
         started'[q] = started[q], bytes'[q] = bytes[q], launched'[q] = launched[q],
         build_status'[q] = build_status[q]
  PROVE  CurrentInv(q)'
<1>1. /\ source \in Int /\ source' \in Int /\ started[q] \in Int
      /\ binary # None => binary.version \in Int
      /\ binary' # None => binary'.version \in Int
  BY RuntimeAssumption DEF RuntimeInv, RuntimeTypeOK, Versions, Binaries
<1>2. pc[q] = "read" => binary # None /\ binary' # None
  BY DEF RuntimeInv, ToolInv
<1>3. (pc[q] = "read" /\ build_status[q] = "rebuilt") => binary'.version >= started[q]
  BY <1>1, <1>2 DEF CurrentInv
<1> QED
  BY <1>1, <1>3 DEF CurrentInv, LaunchesCurrent

\* A step outside prepare_vm_guest_runtime.
LEMMA ToolsCurrent ==
  ASSUME RuntimeInv, RuntimeInv', CurrencyInv, UNCHANGED runtimeVars,
         \A q \in Processes : pc'[q] = pc[q] \/ pc'[q] \in Pcs \ RuntimeStep
  PROVE  CurrencyInv'
<1>1. SourceInv'
  BY DEF CurrencyInv, SourceInv, runtimeVars
<1>2. ASSUME NEW q \in Processes PROVE CurrentInv(q)'
  <2>1. CASE pc'[q] = pc[q]
    BY <2>1 DEF CurrencyInv, CurrentInv, LaunchesCurrent, runtimeVars
  <2>2. CASE pc'[q] \in Pcs \ RuntimeStep
    BY <2>2 DEF CurrencyInv, CurrentInv, LaunchesCurrent, RuntimeStep, runtimeVars
  <2> QED
    BY <2>1, <2>2
<1> QED
  BY <1>1, <1>2 DEF CurrencyInv

\* Each step of prepare_vm_guest_runtime and of prepare_gvproxy.  Cargo builds
\* the sources as they are when it starts, and leaves its output alone only if it
\* is of them.
LEMMA PrepareToolsCurrent ==
  ASSUME RuntimeInv, RuntimeInv', CurrencyInv, NEW p \in Processes,
         PrepareTools(p, "resolve")
  PROVE  CurrencyInv'
<1> USE RuntimeAssumption
<1>1. /\ RuntimeTypeOK /\ ToolInv(p) /\ pc \in [Processes -> Pcs]
      /\ SourceInv /\ CurrentInv(p)
  BY DEF RuntimeInv, CurrencyInv
<1>2. /\ source \in Int /\ clock \in Int /\ edited \in Int /\ edited <= clock
      /\ \A q \in Processes : started[q] \in Int
      /\ binary # None => binary.version \in Int /\ binary.at \in Int
      /\ builder # None => builder.version \in Int
  BY <1>1 DEF RuntimeTypeOK, Versions, Binaries, Builders
<1>3. CASE CheckFresh(p)
  <2>1. SourceInv'
    BY <1>1, <1>2, <1>3 DEF SourceInv, ToolInv, CheckFresh, runtimeVars
  <2>2. CurrentInv(p)'
    BY <1>1, <1>2, <1>3 DEF SourceInv, CurrentInv, LaunchesCurrent, RuntimeStep, ToolInv, RuntimeTypeOK, To, CheckFresh, runtimeVars
  <2>3. ASSUME NEW q \in Processes, q # p PROVE CurrentInv(q)'
    BY <1>1, <1>2, <1>3, <2>3, OthersCurrent DEF CurrencyInv, SourceInv, ToolInv, To, CheckFresh, runtimeVars
  <2> QED
    BY <2>1, <2>2, <2>3 DEF CurrencyInv
<1>4. CASE StartBuild(p)
  <2>1. SourceInv'
    BY <1>1, <1>2, <1>4 DEF SourceInv, ToolInv, StartBuild
  <2>2. CurrentInv(p)'
    BY <1>1, <1>2, <1>4 DEF SourceInv, CurrentInv, LaunchesCurrent, RuntimeStep, ToolInv, RuntimeTypeOK, To, StartBuild
  <2>3. ASSUME NEW q \in Processes, q # p PROVE CurrentInv(q)'
    BY <1>1, <1>2, <1>4, <2>3, OthersCurrent DEF RuntimeInv, CurrencyInv, SourceInv, ToolInv, To, StartBuild
  <2> QED
    BY <2>1, <2>2, <2>3 DEF CurrencyInv
<1>5. CASE FinishBuild(p)
  <2>1. SourceInv'
    BY <1>1, <1>2, <1>5 DEF SourceInv, ToolInv, FinishBuild
  <2>2. binary' # None
    <3>1. CASE binary' = binary /\ binary # None
      BY <3>1
    <3>2. CASE binary' = [version |-> builder.version, at |-> clock']
      <4>1. builder.version \in Versions /\ clock' \in Nat
        BY <1>1, <1>5 DEF RuntimeInv, RuntimeTypeOK, ToolInv, FinishBuild, Builders
      <4> QED
        BY <3>2, <4>1 DEF Binaries
    <3> QED
      BY <1>5, <3>1, <3>2 DEF FinishBuild
  <2>3. binary'.version = builder.version
    BY <1>1, <1>5 DEF SourceInv, ToolInv, FinishBuild
  <2>4. CurrentInv(p)'
    <3>1. pc[p] = "building" /\ pc'[p] = "read" /\ UNCHANGED <<source, started, bytes, launched>>
      BY <1>1, <1>5 DEF FinishBuild, To
    <3> QED
      BY <1>1, <1>2, <2>3, <3>1 DEF CurrentInv, LaunchesCurrent, RuntimeStep
  <2>5. ASSUME NEW q \in Processes, q # p PROVE CurrentInv(q)'
    <3>1. /\ pc'[q] = pc[q] /\ UNCHANGED <<source, started, bytes, launched>>
          /\ build_status'[q] = build_status[q]
      BY <1>1, <1>5, <2>5 DEF FinishBuild, To, RuntimeTypeOK
    <3>2. binary # None => binary'.version >= binary.version
      BY <1>1, <1>2, <1>5, <2>3 DEF SourceInv, ToolInv, FinishBuild
    <3>3. CurrentInv(q) /\ source' >= source
      BY <1>2, <3>1 DEF CurrencyInv
    <3>4. pc[q] # "building"
      BY <1>1, <1>5, <2>5 DEF RuntimeInv, ToolInv, FinishBuild
    <3>5. started'[q] = started[q] /\ bytes'[q] = bytes[q] /\ launched'[q] = launched[q]
      BY <3>1
    <3> QED
      BY <2>2, <3>1, <3>2, <3>3, <3>4, <3>5, OthersCurrent, Zenon
  <2> QED
    BY <2>1, <2>4, <2>5 DEF CurrencyInv
<1>6. CASE LoadRecord(p)
  <2>1. SourceInv'
    BY <1>1, <1>2, <1>6 DEF SourceInv, LoadRecord
  <2>2. /\ pc[p] = "load" /\ pc' = [pc EXCEPT ![p] = pc'[p]] /\ pc'[p] \in {"network", "read"}
        /\ UNCHANGED <<source, binary, builder, started, bytes>>
        /\ build_status'[p] # "rebuilt"
        /\ pc'[p] = "read" => launched'[p] = launched[p]
        /\ \A q \in Processes : q # p => /\ launched'[q] = launched[q]
                                        /\ build_status'[q] = build_status[q]
    BY <1>1, <1>6 DEF LoadRecord, To, RuntimeTypeOK
  <2>3. CurrentInv(p)'
    BY <1>1, <2>2 DEF CurrentInv, RuntimeStep
  <2>4. ASSUME NEW q \in Processes, q # p PROVE CurrentInv(q)'
    BY <1>1, <1>2, <2>2, <2>4, OthersCurrent DEF CurrencyInv
  <2> QED
    BY <2>1, <2>3, <2>4 DEF CurrencyInv
<1>7. CASE ReadBinary(p)
  <2>1. SourceInv'
    BY <1>1, <1>2, <1>7 DEF SourceInv, ToolInv, ReadBinary
  <2>2. CurrentInv(p)'
    BY <1>1, <1>2, <1>7 DEF SourceInv, CurrentInv, LaunchesCurrent, RuntimeStep, ToolInv, RuntimeTypeOK, To, ReadBinary
  <2>3. ASSUME NEW q \in Processes, q # p PROVE CurrentInv(q)'
    BY <1>1, <1>2, <1>7, <2>3, OthersCurrent DEF CurrencyInv, SourceInv, ToolInv, To, ReadBinary
  <2> QED
    BY <2>1, <2>2, <2>3 DEF CurrencyInv
<1>8. CASE StageRuntime(p)
  <2>1. SourceInv'
    BY <1>1, <1>2, <1>8 DEF SourceInv, ToolInv, StageRuntime
  <2>2. CurrentInv(p)'
    BY <1>1, <1>2, <1>8 DEF SourceInv, CurrentInv, LaunchesCurrent, RuntimeStep, ToolInv, RuntimeTypeOK, To, StageRuntime
  <2>3. ASSUME NEW q \in Processes, q # p PROVE CurrentInv(q)'
    BY <1>1, <1>2, <1>8, <2>3, OthersCurrent DEF CurrencyInv, SourceInv, ToolInv, To, StageRuntime
  <2> QED
    BY <2>1, <2>2, <2>3 DEF CurrencyInv
<1>9. CASE ReadMeta(p)
  <2>1. SourceInv'
    BY <1>1, <1>2, <1>9 DEF SourceInv, ToolInv, ReadMeta
  <2>2. CurrentInv(p)'
    BY <1>1, <1>2, <1>9 DEF SourceInv, CurrentInv, LaunchesCurrent, RuntimeStep, ToolInv, RuntimeTypeOK, To, ReadMeta
  <2>3. ASSUME NEW q \in Processes, q # p PROVE CurrentInv(q)'
    BY <1>1, <1>2, <1>9, <2>3, OthersCurrent DEF CurrencyInv, SourceInv, ToolInv, To, ReadMeta
  <2> QED
    BY <2>1, <2>2, <2>3 DEF CurrencyInv
<1>10. CASE WriteRuntimeRecord(p)
  <2>1. SourceInv'
    BY <1>1, <1>2, <1>10 DEF SourceInv, ToolInv, WriteRuntimeRecord
  <2>2. CurrentInv(p)'
    BY <1>1, <1>2, <1>10 DEF SourceInv, CurrentInv, LaunchesCurrent, RuntimeStep, ToolInv, RuntimeTypeOK, To, WriteRuntimeRecord
  <2>3. ASSUME NEW q \in Processes, q # p PROVE CurrentInv(q)'
    BY <1>1, <1>2, <1>10, <2>3, OthersCurrent DEF CurrencyInv, SourceInv, ToolInv, To, WriteRuntimeRecord
  <2> QED
    BY <2>1, <2>2, <2>3 DEF CurrencyInv
<1>11. CASE Gvproxy(p, "resolve")
  <2>1. SourceInv'
    BY <1>1, <1>2, <1>11 DEF SourceInv, ToolInv, Gvproxy
  <2>2. CurrentInv(p)'
    BY <1>1, <1>2, <1>11 DEF SourceInv, CurrentInv, LaunchesCurrent, RuntimeStep, ToolInv, RuntimeTypeOK, To, Gvproxy
  <2>3. ASSUME NEW q \in Processes, q # p PROVE CurrentInv(q)'
    BY <1>1, <1>2, <1>11, <2>3, OthersCurrent DEF CurrencyInv, SourceInv, ToolInv, To, Gvproxy
  <2> QED
    BY <2>1, <2>2, <2>3 DEF CurrencyInv
<1> QED
  BY <1>3, <1>4, <1>5, <1>6, <1>7, <1>8, <1>9, <1>10, <1>11 DEF PrepareTools

\* An edit makes the binary an old one.
LEMMA EditCurrent ==
  ASSUME RuntimeInv, RuntimeInv', CurrencyInv, Edit
  PROVE  CurrencyInv'
<1>1. /\ source \in Int /\ clock \in Int /\ edited \in Int
      /\ binary # None => binary.version \in Int /\ binary.at \in Int
      /\ builder # None => builder.version \in Int
  BY RuntimeAssumption DEF RuntimeInv, RuntimeTypeOK, Versions, Binaries, Builders
<1>2. SourceInv'
  BY <1>1 DEF CurrencyInv, SourceInv, Edit
<1>3. ASSUME NEW q \in Processes PROVE CurrentInv(q)'
  BY <1>1, <1>3, OthersCurrent DEF CurrencyInv, Edit
<1> QED
  BY <1>2, <1>3 DEF CurrencyInv

\* The ends of a command, and its start.
LEMMA EndsCurrent ==
  ASSUME RuntimeInv, RuntimeInv', CurrencyInv, NEW p \in Processes,
         Fail(p) \/ FailRuntime(p) \/ Crash(p) \/ Repeat(p)
  PROVE  CurrencyInv'
<1>1. /\ RuntimeTypeOK /\ pc \in [Processes -> Pcs] /\ SourceInv /\ CurrentInv(p)
      /\ source \in Int
  BY RuntimeAssumption DEF RuntimeInv, CurrencyInv, RuntimeTypeOK, Versions
<1>2. CASE Fail(p)
  <2>1. UNCHANGED runtimeVars /\ GiveUp(p)
    BY <1>2 DEF Fail
  <2>2. \A q \in Processes : pc'[q] = pc[q] \/ pc'[q] \in Pcs \ RuntimeStep
    BY <2>1, GiveUpMoves DEF Pcs, RuntimeStep, ImageStep
  <2> QED
    BY <2>1, <2>2, ToolsCurrent
<1>3. CASE FailRuntime(p)
  <2>1. UNCHANGED runtimeVars /\ pc' = [pc EXCEPT ![p] = "failed"]
    BY <1>3 DEF FailRuntime, To
  <2>2. \A q \in Processes : pc'[q] = pc[q] \/ pc'[q] \in Pcs \ RuntimeStep
    BY <1>1, <2>1 DEF Pcs, RuntimeStep, ImageStep
  <2> QED
    BY <2>1, <2>2, ToolsCurrent
<1>4. CASE Crash(p)
  <2>1. /\ pc' = [pc EXCEPT ![p] = "failed"]
        /\ builder' = IF pc[p] = "building" THEN None ELSE builder
        /\ UNCHANGED <<source, clock, edited, binary, staged, record, started, bytes, meta,
                        build_status, launched, gvproxy>>
    BY <1>4 DEF Crash, To
  <2>2. SourceInv'
    BY <1>1, <2>1 DEF SourceInv
  <2>3. CurrentInv(p)'
    BY <1>1, <2>1 DEF CurrentInv, LaunchesCurrent, RuntimeStep
  <2>4. ASSUME NEW q \in Processes, q # p PROVE CurrentInv(q)'
    BY <1>1, <2>1, <2>4, OthersCurrent DEF RuntimeInv, ToolInv, CurrencyInv
  <2> QED
    BY <2>2, <2>3, <2>4 DEF CurrencyInv
<1>5. CASE Repeat(p)
  <2>1. /\ pc' = [pc EXCEPT ![p] = "fresh"] /\ RuntimeStart(p)
        /\ UNCHANGED <<source, clock, edited, binary, builder, staged, record, gvproxy>>
    BY <1>5 DEF Repeat, To
  <2>2. SourceInv'
    BY <1>1, <2>1 DEF SourceInv
  <2>3. CurrentInv(p)'
    BY <1>1, <2>1 DEF CurrentInv, LaunchesCurrent, RuntimeStep, RuntimeStart, RuntimeTypeOK
  <2>4. ASSUME NEW q \in Processes, q # p PROVE CurrentInv(q)'
    BY <1>1, <2>1, <2>4, OthersCurrent DEF CurrencyInv, RuntimeStart, RuntimeTypeOK
  <2> QED
    BY <2>2, <2>3, <2>4 DEF CurrencyInv
<1> QED
  BY <1>2, <1>3, <1>4, <1>5

LEMMA CurrencyKeeps == RuntimeInv /\ RuntimeInv' /\ CurrencyInv /\ [Next]_vars => CurrencyInv'
<1> SUFFICES ASSUME RuntimeInv, RuntimeInv', CurrencyInv, [Next]_vars PROVE CurrencyInv'
  OBVIOUS
<1>1. CASE UNCHANGED vars \/ (\E t \in Tags, d \in Digests : Retag(t, d)) \/ MirrorChanges
  BY <1>1, ToolsCurrent DEF vars, Retag, MirrorChanges
<1>2. CASE Edit
  BY <1>2, EditCurrent
<1>3. ASSUME NEW p \in Processes, PrepareImage(p) PROVE CurrencyInv'
  <2>1. \A q \in Processes : pc'[q] = pc[q] \/ pc'[q] \in Pcs \ RuntimeStep
    BY <1>3, PrepareImageMoves
  <2> QED
    BY <1>3, <2>1, PrepareImageMoves, ToolsCurrent
<1>4. ASSUME NEW p \in Processes, Tools(p) PROVE CurrencyInv'
  BY <1>4, PrepareToolsCurrent DEF Tools
<1>5. CASE \E p \in Processes : Fail(p) \/ FailRuntime(p) \/ Crash(p) \/ Repeat(p)
  BY <1>5, EndsCurrent
<1> QED
  BY <1>1, <1>2, <1>3, <1>4, <1>5 DEF Next, Step

\* Whenever the sources are edited, whatever other commands build, stage and
\* record, and whichever of them are killed: a command that has run Cargo gives
\* its machines no runtime older than the sources were when it began.
THEOREM RebuiltRuntimeNeverOld == Spec => []RebuiltRuntimesAreCurrent
<1>1. RuntimeInv /\ RuntimeInv' /\ CurrencyInv /\ [Next]_vars => CurrencyInv'
  BY CurrencyKeeps
<1>2. CurrencyInv => RebuiltRuntimesAreCurrent
  BY DEF CurrencyInv, CurrentInv, RebuiltRuntimesAreCurrent
<1> QED
  BY <1>1, <1>2, CurrentAtFirst, RuntimeInvariant, PTL DEF Spec

-----------------------------------------------------------------------------
(* What the cache is built from *)

\* The next reference to resolve is one of those that are left.
LEMMA MinIsIn ==
  ASSUME NEW T, T \subseteq Nat, T # {}
  PROVE  Min(T) \in T
<1>1. PICK m \in T : \A n \in T : <<n, m>> \notin OpToRel(<, Nat)
  BY NatLessThanWellFounded, WFMin, Zenon
<1>2. ASSUME NEW n \in T PROVE m <= n
  <2>1. n < m => <<n, m>> \in OpToRel(<, Nat)
    BY DEF OpToRel
  <2>2. ~(n < m)
    BY <1>1, <2>1, Zenon
  <2> QED
    BY <2>2
<1> QED
  BY <1>2 DEF Min

\* What the constants say of the recipe a command is at.
LEMMA RecipeFacts ==
  ASSUME NEW p \in Processes, work[p].item \in 1 .. Len(Todo[p])
  PROVE  /\ Recipe(p) \in Recipes
         /\ Len(Stages[Recipe(p)]) \in Nat /\ Len(Stages[Recipe(p)]) > 0
         /\ DOMAIN Stages[Recipe(p)] = 1 .. Len(Stages[Recipe(p)])
         /\ \A i \in 1 .. Len(Stages[Recipe(p)]) :
              /\ Stages[Recipe(p)][i].base \in TagsOf(Recipe(p))
              /\ Stages[Recipe(p)][i].copies \subseteq TagsOf(Recipe(p))
              /\ Stages[Recipe(p)][i].from \subseteq 1 .. (i - 1)
         /\ TagsOf(Recipe(p)) \subseteq Tags
<1>1. Recipe(p) \in Recipes
  <2>1. Todo[p] \in Seq(Recipes)
    BY ImageAssumption
  <2> QED
    BY <2>1 DEF Recipe
<1> PICK r \in Recipes : r = Recipe(p)
  BY <1>1
<1>2. /\ Stages[r] \in Seq([base : Tags, copies : SUBSET Tags, from : SUBSET Nat, runs : BOOLEAN])
      /\ Stages[r] # <<>>
      /\ \A i \in DOMAIN Stages[r] : Stages[r][i].from \subseteq 1 .. (i - 1)
  BY ImageAssumption
<1>3. /\ Len(Stages[r]) \in Nat /\ Len(Stages[r]) > 0 /\ DOMAIN Stages[r] = 1 .. Len(Stages[r])
      /\ \A i \in 1 .. Len(Stages[r]) :
           Stages[r][i] \in [base : Tags, copies : SUBSET Tags, from : SUBSET Nat, runs : BOOLEAN]
  <2>1. PICK T : T = [base : Tags, copies : SUBSET Tags, from : SUBSET Nat, runs : BOOLEAN]
    OBVIOUS
  <2>2. PICK s : s = Stages[r]
    OBVIOUS
  <2>3. s \in Seq(T) /\ s # <<>>
    BY <1>2, <2>1, <2>2
  <2>4. Len(s) \in Nat /\ Len(s) # 0 /\ DOMAIN s = 1 .. Len(s)
    BY <2>3, LenProperties, EmptySeq
  <2>5. \A i \in 1 .. Len(s) : s[i] \in T
    BY <2>3, ElementOfSeq
  <2> QED
    BY <2>1, <2>2, <2>4, <2>5
<1>4. \A i \in 1 .. Len(Stages[r]) :
        Stages[r][i].base \in TagsOf(r) /\ Stages[r][i].copies \subseteq TagsOf(r)
  BY <1>3 DEF TagsOf
<1>5. TagsOf(r) \subseteq Tags
  BY <1>3 DEF TagsOf
<1> QED
  BY <1>2, <1>3, <1>4, <1>5

\* The tags of a stage stand for manifests the command has resolved.
LEMMA ManifestFacts ==
  ASSUME NEW p \in Processes, work[p] \in Works
  PROVE  /\ Manifests(p) \subseteq Digests
         /\ \A t \in DOMAIN work[p].images : work[p].images[t] \in Manifests(p)
<1>1. PICK S \in SUBSET Tags : work[p].images \in [S -> Digests]
  BY DEF Works, Images
<1> QED
  BY <1>1 DEF Manifests

\* A step of another command: a disk one has seen is still there, or was
\* replaced under a stamp that is new.
DisksMoveOn ==
  \A k \in DOMAIN disks :
    /\ k \in DOMAIN disks'
    /\ disks'[k] = disks[k] \/ disks'[k].stamp = published + 1

LEMMA OthersSee ==
  ASSUME ImageInv, NEW q \in Processes, pc'[q] = pc[q], work'[q] = work[q], DisksMoveOn
  PROVE  WorkInv(q)' /\ SeenInv(q)'
<1>1. Recipe(q)' = Recipe(q) /\ Unresolved(q)' = Unresolved(q) /\ Manifests(q)' = Manifests(q)
  BY DEF Recipe, Unresolved, Manifests
<1>2. Key(q)' = Key(q)
  BY <1>1 DEF Key
<1>3. WorkInv(q)'
  BY <1>1, <1>2 DEF ImageInv, WorkInv
<1>4. PICK k : k = Key(q)
  OBVIOUS
<1>5. ASSUME k \in DOMAIN disks
      PROVE  /\ published \in Nat /\ disks[k].stamp \in 1 .. published
             /\ k \in DOMAIN disks'
             /\ disks'[k] = disks[k] \/ disks'[k].stamp = published + 1
  BY <1>5 DEF ImageInv, CacheInv, FilesTypeOK, DisksMoveOn
<1>6. SeenInv(q)
  BY DEF ImageInv
<1>7. SeenInv(q)'
  BY <1>2, <1>4, <1>5, <1>6 DEF SeenInv
<1> QED
  BY <1>3, <1>7

\* Hence a step of one command is about its own work and the files.
LEMMA OneCommand ==
  ASSUME ImageInv, NEW p \in Processes, DisksMoveOn,
         \A q \in Processes : q # p => pc'[q] = pc[q] /\ work'[q] = work[q],
         pc' \in [Processes -> Pcs], work' \in [Processes -> Works],
         CacheInv', WorkInv(p)', SeenInv(p)'
  PROVE  ImageInv'
BY OthersSee DEF ImageInv

\* Files nobody touches stay as they are; layers only come.
LEMMA FilesKeep ==
  ASSUME CacheInv, UNCHANGED <<records, disks, notes, published>>,
         registry' \in [Tags -> Digests], mirror' \in BOOLEAN,
         blobs \subseteq blobs', blobs' \subseteq Layers
  PROVE  CacheInv' /\ DisksMoveOn
BY DEF CacheInv, FilesTypeOK, RecordsAreComplete, BuildsMatchTheirKey, NotesMatchDisks, DisksMoveOn

\* Every command has something to prepare.
LEMMA TodoFacts ==
  ASSUME NEW p \in Processes
  PROVE  Len(Todo[p]) \in Nat /\ Len(Todo[p]) > 0
BY ImageAssumption, EmptySeq

\* A command that has nothing in hand.
LEMMA IdleFacts ==
  ASSUME NEW i \in Nat, NEW ready \in Seq(Shells \union {"none"})
  PROVE  /\ Idle(i, ready) \in Works
         /\ Idle(i, ready).item = i /\ Idle(i, ready).built = <<>>
<1>1. [t \in {} |-> None] \in Images
  <2>1. [t \in {} |-> None] \in [{} -> Digests] /\ {} \in SUBSET Tags
    OBVIOUS
  <2> QED
    BY <2>1, Zenon DEF Images
<1>2. <<>> \in Seq(StageDisks)
  BY EmptySeq
<1> QED
  BY <1>1, <1>2 DEF Idle, Works

-----------------------------------------------------------------------------
(* The steps of the cache *)

\* The initial states.
LEMMA ImagesStart == Init => ImageInv
<1> SUFFICES ASSUME Init PROVE ImageInv
  OBVIOUS
<1>1. <<>> \in Seq(Shells \union {"none"})
  BY EmptySeq
<1>2. \A p \in Processes : /\ work[p] \in Works /\ pc[p] = "fresh"
                            /\ work[p].item = 1 /\ work[p].built = <<>>
  BY <1>1, IdleFacts DEF Init, RuntimeInit, ImageInit
<1>3. CacheInv
  BY ImageAssumption
  DEF Init, ImageInit, CacheInv, FilesTypeOK, RecordsAreComplete, BuildsMatchTheirKey,
      NotesMatchDisks
<1>4. ASSUME NEW p \in Processes PROVE WorkInv(p) /\ SeenInv(p)
  <2>1. work[p].item \in 1 .. Len(Todo[p])
    BY <1>2, TodoFacts
  <2> QED
    BY <1>2, <2>1, TodoFacts DEF WorkInv, SeenInv
<1>5. pc \in [Processes -> Pcs] /\ work \in [Processes -> Works]
  BY <1>2 DEF Init, RuntimeInit, ImageInit, Pcs, RuntimeStep
<1> QED
  BY <1>3, <1>4, <1>5 DEF ImageInv

\* A command that turns to its next environment, or ends, or begins.
LEMMA Settles ==
  ASSUME ImageInv, NEW p \in Processes, NEW i \in 1 .. Len(Todo[p]) + 1,
         NEW ready \in Seq(Shells \union {"none"}),
         NEW next \in {"failed", "prepared", "resolve", "fresh"},
         next \in {"resolve", "fresh"} => i \in 1 .. Len(Todo[p]),
         To(p, next), Set(p, Idle(i, ready)), UNCHANGED cacheVars
  PROVE  ImageInv'
<1>1. pc \in [Processes -> Pcs] /\ work \in [Processes -> Works] /\ CacheInv
  BY DEF ImageInv
<1>2. i \in Nat
  BY TodoFacts
<1>3. /\ Idle(i, ready) \in Works
      /\ Idle(i, ready).item = i /\ Idle(i, ready).built = <<>>
  BY <1>2, IdleFacts
<1>4. /\ pc' \in [Processes -> Pcs] /\ pc'[p] = next
      /\ work' \in [Processes -> Works] /\ work'[p] = Idle(i, ready)
      /\ \A q \in Processes : q # p => pc'[q] = pc[q] /\ work'[q] = work[q]
  BY <1>1, <1>3 DEF To, Set, Pcs, RuntimeStep, ImageStep
<1>5. CacheInv' /\ DisksMoveOn
  BY <1>1, FilesKeep DEF cacheVars, CacheInv, FilesTypeOK
<1>6. WorkInv(p)' /\ SeenInv(p)'
  BY <1>3, <1>4 DEF WorkInv, SeenInv
<1> QED
  BY <1>4, <1>5, <1>6, OneCommand

\* GiveUp and NextItem do that.
LEMMA GiveUpSettles ==
  ASSUME ImageInv, NEW p \in Processes, pc[p] \notin {"failed", "prepared"}, UNCHANGED cacheVars,
         NEW ready \in Seq(Shells \union {"none"}), NextItem(p, ready) \/ GiveUp(p)
  PROVE  ImageInv'
<1>1. work[p] \in Works /\ work[p].item \in 1 .. Len(Todo[p])
  BY DEF ImageInv, WorkInv
<1>2. work[p].ready \in Seq(Shells \union {"none"}) /\ <<>> \in Seq(Shells \union {"none"})
  BY <1>1, EmptySeq DEF Works
<1>3. ASSUME NEW r \in Seq(Shells \union {"none"}), NextItem(p, r) PROVE ImageInv'
  <2>1. work[p].item + 1 \in 1 .. Len(Todo[p]) + 1
    BY <1>1, TodoFacts
  <2>2. CASE work[p].item = Len(Todo[p])
    BY <1>3, <2>1, <2>2, Settles DEF NextItem
  <2>3. CASE work[p].item # Len(Todo[p])
    <3>1. work[p].item + 1 \in 1 .. Len(Todo[p])
      BY <1>1, <2>3, TodoFacts
    <3> QED
      BY <1>3, <2>1, <2>3, <3>1, Settles DEF NextItem
  <2> QED
    BY <2>2, <2>3
<1>4. CASE GiveUp(p) /\ p \notin Prepares
  <2>1. 1 \in 1 .. Len(Todo[p]) + 1
    BY TodoFacts
  <2> QED
    BY <1>2, <1>4, <2>1, Settles DEF GiveUp
<1> QED
  BY <1>2, <1>3, <1>4 DEF GiveUp

\* A disk published under a key of what it was made of.
LEMMA PublishKeeps ==
  ASSUME CacheInv, NEW k, NEW files \in SUBSET Shells, NEW of \in SUBSET Digests,
         k[1] = "build" => of \subseteq {k[3][t] : t \in DOMAIN k[3]},
         Publish(k, files, of), UNCHANGED <<registry, mirror, blobs, records, notes>>
  PROVE  CacheInv' /\ DisksMoveOn /\ k \in DOMAIN disks'
<1> PICK new : new = [stamp |-> published + 1, files |-> files, of |-> of]
  OBVIOUS
<1>1. /\ published \in Nat /\ published' = published + 1 /\ disks' = With(disks, k, new)
      /\ new.stamp = published + 1 /\ new.of = of
      /\ new \in [stamp : 1 .. published', files : SUBSET Shells, of : SUBSET Digests]
  BY DEF CacheInv, FilesTypeOK, Publish
<1>2. /\ DOMAIN disks' = DOMAIN disks \union {k} /\ disks'[k] = new
      /\ \A x \in DOMAIN disks : x # k => disks'[x] = disks[x]
  <2>1. /\ DOMAIN With(disks, k, new) = DOMAIN disks \union {k} /\ With(disks, k, new)[k] = new
        /\ \A x \in DOMAIN disks : x # k => With(disks, k, new)[x] = disks[x]
    BY DEF With
  <2> QED
    BY <1>1, <2>1
<1>3. DisksMoveOn
  BY <1>1, <1>2 DEF DisksMoveOn
<1>4. FilesTypeOK'
  <2>1. ASSUME NEW x \in DOMAIN disks'
        PROVE  disks'[x] \in [stamp : 1 .. published', files : SUBSET Shells, of : SUBSET Digests]
    <3>1. CASE x = k
      BY <1>1, <1>2, <3>1
    <3>2. CASE x # k
      <4>1. /\ disks'[x] = disks[x]
            /\ disks[x] \in [stamp : 1 .. published, files : SUBSET Shells, of : SUBSET Digests]
        BY <1>2, <3>2 DEF CacheInv, FilesTypeOK
      <4>2. 1 .. published \subseteq 1 .. published'
        BY <1>1
      <4> QED
        BY <4>1, <4>2
    <3> QED
      BY <3>1, <3>2
  <2>2. ASSUME NEW x \in DOMAIN notes PROVE notes[x] \in [stamp : 1 .. published', shell : Shells]
    <3>1. notes[x] \in [stamp : 1 .. published, shell : Shells]
      BY DEF CacheInv, FilesTypeOK
    <3>2. 1 .. published \subseteq 1 .. published'
      BY <1>1
    <3> QED
      BY <3>1, <3>2
  <2> QED
    BY <1>1, <2>1, <2>2 DEF CacheInv, FilesTypeOK
<1>5. DOMAIN notes' \subseteq DOMAIN disks' /\ RecordsAreComplete'
  BY <1>2 DEF CacheInv, RecordsAreComplete
<1>6. BuildsMatchTheirKey'
  BY <1>1, <1>2 DEF CacheInv, BuildsMatchTheirKey
<1>7. NotesMatchDisks'
  <2> SUFFICES ASSUME NEW x \in DOMAIN notes, notes[x].stamp = disks'[x].stamp
               PROVE  notes[x].shell = IF "bash" \in disks'[x].files THEN "bash" ELSE "sh"
    BY DEF NotesMatchDisks
  <2>1. notes[x].stamp \in 1 .. published /\ x \in DOMAIN disks
    BY DEF CacheInv, FilesTypeOK
  <2>2. x # k
    BY <1>1, <1>2, <2>1
  <2> QED
    BY <1>2, <2>1, <2>2 DEF CacheInv, NotesMatchDisks
<1> QED
  BY <1>2, <1>3, <1>4, <1>5, <1>6, <1>7 DEF CacheInv

\* A command that has resolved one more reference.
LEMMA ResolvedFacts ==
  ASSUME NEW p \in Processes, work[p] \in Works, NEW t \in Tags, NEW d \in Digests
  PROVE  LET w == Resolved(p, t, d)
         IN  w \in Works /\ w.item = work[p].item /\ w.built = work[p].built
<1>1. PICK f : f = With(work[p].images, t, d)
  OBVIOUS
<1>2. f \in Images
  <2>1. PICK S \in SUBSET Tags : work[p].images \in [S -> Digests]
    BY DEF Works, Images
  <2>2. f \in [S \union {t} -> Digests] /\ S \union {t} \in SUBSET Tags
    BY <1>1, <2>1 DEF With
  <2> QED
    BY <2>2, Zenon DEF Images
<1>3. Resolved(p, t, d) = [work[p] EXCEPT !.images = f, !.pulling = None]
  BY <1>1 DEF Resolved
<1> QED
  BY <1>2, <1>3 DEF Works

\* The reference a command resolves next.
LEMMA NextReference ==
  ASSUME ImageInv, NEW p \in Processes, pc[p] \in {"resolve", "pull"}, Unresolved(p) # {}
  PROVE  Min(Unresolved(p)) \in Tags
<1>1. work[p].item \in 1 .. Len(Todo[p])
  BY DEF ImageInv, WorkInv
<1>2. Unresolved(p) \subseteq Tags /\ Unresolved(p) \subseteq Nat
  BY <1>1, RecipeFacts, ImageAssumption DEF Unresolved
<1> QED
  BY <1>2, MinIsIn

LEMMA ResolveKeeps ==
  ASSUME ImageInv, NEW p \in Processes, Resolve(p)
  PROVE  ImageInv'
<1>1. /\ pc \in [Processes -> Pcs] /\ work \in [Processes -> Works] /\ work[p] \in Works
      /\ CacheInv /\ WorkInv(p) /\ SeenInv(p)
  BY DEF ImageInv
<1>2. pc[p] = "resolve" /\ UNCHANGED cacheVars
  BY DEF Resolve
<1>3. CacheInv' /\ DisksMoveOn
  BY <1>1, <1>2, FilesKeep DEF cacheVars, CacheInv, FilesTypeOK
<1>4. CASE Unresolved(p) = {}
  <2>1. pc' = [pc EXCEPT ![p] = "lookup"] /\ work' = work
    BY <1>4 DEF Resolve, To
  <2>2. pc' \in [Processes -> Pcs] /\ pc'[p] = "lookup"
    BY <1>1, <2>1 DEF Pcs, ImageStep
  <2>3. WorkInv(p)'
    BY <1>1, <1>2, <1>4, <2>1, <2>2 DEF WorkInv, Unresolved, Recipe
  <2>4. SeenInv(p)'
    BY <2>2 DEF SeenInv
  <2> QED
    BY <1>1, <1>3, <2>1, <2>2, <2>3, <2>4, OneCommand
<1>5. CASE Unresolved(p) # {}
  <2> PICK t \in Tags : t = Min(Unresolved(p))
    BY <1>2, <1>5, NextReference
  <2>1. CASE Local(p, t)
    <3>1. pc' = pc /\ work' = [work EXCEPT ![p] = Resolved(p, t, records[t])]
      BY <1>5, <2>1 DEF Resolve, Set
    <3>2. records[t] \in Digests
      BY <1>1, <2>1 DEF Local, CacheInv, FilesTypeOK
    <3>3. /\ work'[p] \in Works /\ work'[p].item = work[p].item
          /\ work'[p].built = work[p].built /\ work' \in [Processes -> Works]
      BY <1>1, <3>1, <3>2, ResolvedFacts
    <3>4. WorkInv(p)' /\ SeenInv(p)'
      BY <1>1, <1>2, <3>1, <3>3 DEF WorkInv, SeenInv
    <3> QED
      BY <1>1, <1>3, <3>1, <3>3, <3>4, OneCommand
  <2>2. CASE ~Local(p, t)
    <3>1. /\ work' = [work EXCEPT ![p] = [work[p] EXCEPT !.pulling = registry[t]]]
          /\ pc' = [pc EXCEPT ![p] = "pull"]
      BY <1>5, <2>2 DEF Resolve, Set, To
    <3>2. registry[t] \in Digests
      BY <1>1 DEF CacheInv, FilesTypeOK
    <3>3. /\ work'[p] \in Works /\ work'[p].item = work[p].item
          /\ work'[p].built = work[p].built /\ work'[p].images = work[p].images
          /\ work'[p].pulling = registry[t] /\ work' \in [Processes -> Works]
      BY <1>1, <3>1, <3>2 DEF Works
    <3>4. pc' \in [Processes -> Pcs] /\ pc'[p] = "pull"
      BY <1>1, <3>1 DEF Pcs, ImageStep
    <3>5. Unresolved(p)' # {}
      BY <1>5, <3>3 DEF Unresolved, Recipe
    <3>6. WorkInv(p)' /\ SeenInv(p)'
      BY <1>1, <1>2, <3>2, <3>3, <3>4, <3>5 DEF WorkInv, SeenInv
    <3> QED
      BY <1>1, <1>3, <3>1, <3>3, <3>4, <3>6, OneCommand
  <2> QED
    BY <2>1, <2>2
<1> QED
  BY <1>4, <1>5

LEMMA PullBlobKeeps ==
  ASSUME ImageInv, NEW p \in Processes, PullBlob(p)
  PROVE  ImageInv'
<1>1. /\ pc \in [Processes -> Pcs] /\ work \in [Processes -> Works] /\ work[p] \in Works
      /\ CacheInv /\ WorkInv(p) /\ SeenInv(p)
  BY DEF ImageInv
<1>2. work[p].pulling \in Digests /\ LayersOf[work[p].pulling] \subseteq Layers
  BY <1>1, ImageAssumption DEF PullBlob, WorkInv
<1>3. CacheInv' /\ DisksMoveOn
  <2>1. blobs \subseteq blobs' /\ blobs' \subseteq Layers
    BY <1>1, <1>2 DEF PullBlob, CacheInv, FilesTypeOK
  <2> QED
    BY <1>1, <2>1, FilesKeep DEF PullBlob, CacheInv, FilesTypeOK
<1>4. UNCHANGED <<pc, work>>
  BY DEF PullBlob
<1>5. WorkInv(p)' /\ SeenInv(p)'
  BY <1>3, <1>4, OthersSee
<1> QED
  BY <1>1, <1>3, <1>4, <1>5, OneCommand

\* A reference is recorded once all its layers are there.
LEMMA WriteReferenceKeeps ==
  ASSUME ImageInv, NEW p \in Processes, WriteReference(p)
  PROVE  ImageInv'
<1>1. /\ pc \in [Processes -> Pcs] /\ work \in [Processes -> Works] /\ work[p] \in Works
      /\ CacheInv /\ WorkInv(p) /\ SeenInv(p)
  BY DEF ImageInv
<1>2. PICK t \in Tags : t = Min(Unresolved(p))
  BY <1>1, NextReference DEF WriteReference, WorkInv
<1>3. PICK d \in Digests : d = work[p].pulling
  BY <1>1 DEF WriteReference, WorkInv
<1>4. /\ pc[p] = "pull" /\ LayersOf[d] \subseteq blobs
      /\ records' = [records EXCEPT ![t] = d]
      /\ work' = [work EXCEPT ![p] = Resolved(p, t, d)]
      /\ pc' = [pc EXCEPT ![p] = "resolve"]
      /\ UNCHANGED <<registry, mirror, blobs, disks, notes, published>>
  BY <1>2, <1>3 DEF WriteReference, Pulled, Set, To
<1>5. CacheInv'
  <2>1. FilesTypeOK'
    BY <1>1, <1>4 DEF CacheInv, FilesTypeOK
  <2>2. RecordsAreComplete'
    BY <1>1, <1>4 DEF CacheInv, FilesTypeOK, RecordsAreComplete
  <2> QED
    BY <1>1, <1>4, <2>1, <2>2 DEF CacheInv, BuildsMatchTheirKey, NotesMatchDisks
<1>6. DisksMoveOn
  BY <1>4 DEF DisksMoveOn
<1>7. /\ work'[p] \in Works /\ work'[p].item = work[p].item
      /\ work'[p].built = work[p].built /\ work' \in [Processes -> Works]
  BY <1>1, <1>4, ResolvedFacts
<1>8. pc' \in [Processes -> Pcs] /\ pc'[p] = "resolve"
  BY <1>1, <1>4 DEF Pcs, ImageStep
<1>9. WorkInv(p)' /\ SeenInv(p)'
  BY <1>1, <1>4, <1>7, <1>8 DEF WorkInv, SeenInv
<1> QED
  BY <1>1, <1>4, <1>5, <1>6, <1>7, <1>8, <1>9, OneCommand

\* What a resolved tag of the recipe stands for.
LEMMA TagFacts ==
  ASSUME NEW p \in Processes, work[p] \in Works, Unresolved(p) = {},
         NEW t \in TagsOf(Recipe(p))
  PROVE  t \in DOMAIN work[p].images /\ ImageOf(p, t) \in Manifests(p) /\ ImageOf(p, t) \in Digests
<1>1. t \in DOMAIN work[p].images
  BY DEF Unresolved
<1> QED
  BY <1>1, ManifestFacts DEF ImageOf

\* The key of a command's disk depends on what it has resolved only.
LEMMA KeyKeeps ==
  ASSUME NEW p \in Processes, work'[p].item = work[p].item, work'[p].images = work[p].images
  PROVE  /\ Key(p)' = Key(p) /\ Recipe(p)' = Recipe(p) /\ Unresolved(p)' = Unresolved(p)
         /\ Manifests(p)' = Manifests(p)
<1>1. Recipe(p)' = Recipe(p)
  BY DEF Recipe
<1> QED
  BY <1>1 DEF Key, Unresolved, Manifests

LEMMA LookupKeeps ==
  ASSUME ImageInv, NEW p \in Processes, Lookup(p)
  PROVE  ImageInv'
<1>1. /\ pc \in [Processes -> Pcs] /\ work \in [Processes -> Works] /\ work[p] \in Works
      /\ CacheInv /\ WorkInv(p) /\ SeenInv(p)
  BY DEF ImageInv
<1>2. /\ pc[p] = "lookup" /\ UNCHANGED cacheVars /\ work[p].item \in 1 .. Len(Todo[p])
      /\ Unresolved(p) = {} /\ work[p].built = <<>>
  BY <1>1 DEF Lookup, WorkInv
<1>3. CacheInv' /\ DisksMoveOn
  BY <1>1, <1>2, FilesKeep DEF cacheVars, CacheInv, FilesTypeOK
<1>4. Len(Stages[Recipe(p)]) \in Nat /\ Len(work[p].built) = 0
  BY <1>2, RecipeFacts
<1>5. CASE Key(p) \in DOMAIN disks
  <2>1. pc' = [pc EXCEPT ![p] = "stat"] /\ work' = work
    BY <1>5 DEF Lookup, To
  <2>2. pc' \in [Processes -> Pcs] /\ pc'[p] = "stat"
    BY <1>1, <2>1 DEF Pcs, ImageStep
  <2>3. Key(p)' = Key(p) /\ Unresolved(p)' = Unresolved(p) /\ disks' = disks
    BY <1>2, <2>1, KeyKeeps DEF cacheVars
  <2>4. WorkInv(p)' /\ SeenInv(p)'
    BY <1>1, <1>2, <1>5, <2>1, <2>2, <2>3 DEF WorkInv, SeenInv
  <2> QED
    BY <1>1, <1>3, <2>1, <2>2, <2>4, OneCommand
<1>6. CASE Key(p) \notin DOMAIN disks /\ RequiresBuild(Recipe(p))
  <2>1. pc' = [pc EXCEPT ![p] = "stages"] /\ work' = work
    BY <1>6 DEF Lookup, To
  <2>2. pc' \in [Processes -> Pcs] /\ pc'[p] = "stages"
    BY <1>1, <2>1 DEF Pcs, ImageStep
  <2>3. Recipe(p)' = Recipe(p) /\ Unresolved(p)' = Unresolved(p)
    BY <2>1, KeyKeeps
  <2>4. WorkInv(p)' /\ SeenInv(p)'
    BY <1>1, <1>2, <1>4, <1>6, <2>1, <2>2, <2>3 DEF WorkInv, SeenInv
  <2> QED
    BY <1>1, <1>3, <2>1, <2>2, <2>4, OneCommand
<1>7. CASE Key(p) \notin DOMAIN disks /\ ~RequiresBuild(Recipe(p))
  <2>1. PICK d : d = ImageOf(p, Stages[Recipe(p)][1].base)
    OBVIOUS
  <2>2. Key(p) = FlatKey(d) /\ Key(p)[2] = d
    BY <1>7, <2>1 DEF Key, FlatKey, ImageOf
  <2>3. d \in Digests
    BY <1>1, <1>2, <2>1, RecipeFacts, TagFacts
  <2>4. /\ pc' = [pc EXCEPT ![p] = "flatten"]
        /\ work' = [work EXCEPT ![p] = [work[p] EXCEPT !.flat = d]]
    BY <1>7, <2>2 DEF Lookup, To, Set
  <2>5. pc' \in [Processes -> Pcs] /\ pc'[p] = "flatten"
    BY <1>1, <2>4 DEF Pcs, ImageStep
  <2>6. /\ work'[p] \in Works /\ work'[p].item = work[p].item
        /\ work'[p].built = work[p].built /\ work'[p].images = work[p].images
        /\ work'[p].flat = d /\ work' \in [Processes -> Works]
    BY <1>1, <2>3, <2>4 DEF Works
  <2>7. Key(p)' = Key(p) /\ Recipe(p)' = Recipe(p) /\ Unresolved(p)' = Unresolved(p)
    BY <2>6, KeyKeeps
  <2>8. FlatKey(work'[p].flat) = Key(p)'
    BY <2>2, <2>6, <2>7
  <2>9. WorkInv(p)' /\ SeenInv(p)'
    BY <1>1, <1>2, <1>4, <2>3, <2>5, <2>6, <2>7, <2>8 DEF WorkInv, SeenInv
  <2> QED
    BY <1>1, <1>3, <2>4, <2>5, <2>6, <2>9, OneCommand
<1> QED
  BY <1>5, <1>6, <1>7

LEMMA NeedTemplateKeeps ==
  ASSUME ImageInv, NEW p \in Processes, NeedTemplate(p)
  PROVE  ImageInv'
<1>1. /\ pc \in [Processes -> Pcs] /\ work \in [Processes -> Works] /\ work[p] \in Works
      /\ CacheInv /\ WorkInv(p) /\ SeenInv(p)
  BY DEF ImageInv
<1>2. /\ pc[p] = "stages" /\ UNCHANGED cacheVars /\ work[p].item \in 1 .. Len(Todo[p])
      /\ Unresolved(p) = {} /\ RequiresBuild(Recipe(p))
      /\ StageNo(p) \in DOMAIN Stages[Recipe(p)]
  BY <1>1 DEF NeedTemplate, WorkInv
<1>3. CacheInv' /\ DisksMoveOn
  BY <1>1, <1>2, FilesKeep DEF cacheVars, CacheInv, FilesTypeOK
<1>4. PICK d \in Templates(p) : work' = [work EXCEPT ![p] = [work[p] EXCEPT !.flat = d]]
  BY DEF NeedTemplate, MissingTemplates, Set
<1>5. d \in Digests
  <2>1. PICK t \in {Stage(p).base} \union Stage(p).copies : d = ImageOf(p, t)
    BY DEF Templates
  <2>2. t \in TagsOf(Recipe(p))
    BY <1>2, <2>1, RecipeFacts DEF Stage
  <2> QED
    BY <1>1, <1>2, <2>1, <2>2, TagFacts
<1>6. pc' \in [Processes -> Pcs] /\ pc' = [pc EXCEPT ![p] = "flatten"] /\ pc'[p] = "flatten"
  BY <1>1 DEF NeedTemplate, To, Pcs, ImageStep
<1>7. /\ work'[p] \in Works /\ work'[p].item = work[p].item
      /\ work'[p].built = work[p].built /\ work'[p].images = work[p].images
      /\ work'[p].flat = d /\ work' \in [Processes -> Works]
  BY <1>1, <1>4, <1>5 DEF Works
<1>8. /\ Key(p)' = Key(p) /\ Recipe(p)' = Recipe(p) /\ Unresolved(p)' = Unresolved(p)
      /\ Manifests(p)' = Manifests(p)
  BY <1>7, KeyKeeps
<1>9. WorkInv(p)' /\ SeenInv(p)'
  BY <1>1, <1>2, <1>5, <1>6, <1>7, <1>8 DEF WorkInv, SeenInv
<1> QED
  BY <1>1, <1>3, <1>4, <1>6, <1>7, <1>9, OneCommand

\* A template is published under the manifest it was flattened from.
LEMMA FlattenKeeps ==
  ASSUME ImageInv, NEW p \in Processes, Flatten(p)
  PROVE  ImageInv'
<1>1. /\ pc \in [Processes -> Pcs] /\ work \in [Processes -> Works] /\ work[p] \in Works
      /\ CacheInv /\ WorkInv(p) /\ SeenInv(p)
  BY DEF ImageInv
<1>2. /\ pc[p] = "flatten" /\ work[p].item \in 1 .. Len(Todo[p])
      /\ Unresolved(p) = {} /\ work[p].flat \in Digests
      /\ RequiresBuild(Recipe(p)) \/ FlatKey(work[p].flat) = Key(p)
      /\ UNCHANGED <<registry, mirror, blobs, records, notes>>
  BY <1>1 DEF Flatten, WorkInv
<1>3. PICK d \in Digests : d = work[p].flat
  BY <1>2
<1>4. CacheInv' /\ DisksMoveOn /\ FlatKey(d) \in DOMAIN disks'
  <2>1. FilesOf[d] \in SUBSET Shells /\ {d} \in SUBSET Digests /\ FlatKey(d)[1] # "build"
    BY ImageAssumption DEF FlatKey
  <2>2. Publish(FlatKey(d), FilesOf[d], {d})
    BY <1>3 DEF Flatten
  <2> QED
    BY <1>1, <1>2, <2>1, <2>2, PublishKeeps
<1>5. /\ work' = [work EXCEPT ![p] = [work[p] EXCEPT !.flat = None]]
      /\ pc' = [pc EXCEPT ![p] = IF RequiresBuild(Recipe(p)) THEN "stages" ELSE "stat"]
  BY DEF Flatten, Set, To
<1>6. /\ work'[p] \in Works /\ work'[p].item = work[p].item
      /\ work'[p].built = work[p].built /\ work'[p].images = work[p].images
      /\ work' \in [Processes -> Works]
  BY <1>1, <1>5 DEF Works
<1>7. /\ Key(p)' = Key(p) /\ Recipe(p)' = Recipe(p) /\ Unresolved(p)' = Unresolved(p)
      /\ Manifests(p)' = Manifests(p)
  BY <1>6, KeyKeeps
<1>8. CASE RequiresBuild(Recipe(p))
  <2>1. pc' \in [Processes -> Pcs] /\ pc'[p] = "stages"
    BY <1>1, <1>5, <1>8 DEF Pcs, ImageStep
  <2>2. WorkInv(p)' /\ SeenInv(p)'
    BY <1>1, <1>2, <1>6, <1>7, <1>8, <2>1 DEF WorkInv, SeenInv
  <2> QED
    BY <1>4, <1>5, <1>6, <2>1, <2>2, OneCommand
<1>9. CASE ~RequiresBuild(Recipe(p))
  <2>1. pc' \in [Processes -> Pcs] /\ pc'[p] = "stat"
    BY <1>1, <1>5, <1>9 DEF Pcs, ImageStep
  <2>2. Key(p)' \in DOMAIN disks'
    BY <1>2, <1>3, <1>4, <1>7, <1>9
  <2>3. work'[p].built = <<>>
    <3>1. work[p].built = <<>>
      BY <1>1, <1>2, <1>9 DEF WorkInv
    <3> QED
      BY <1>6, <3>1
  <2>4. WorkInv(p)' /\ SeenInv(p)'
    BY <1>1, <1>2, <1>6, <1>7, <2>1, <2>2, <2>3 DEF WorkInv, SeenInv
  <2> QED
    BY <1>4, <1>5, <1>6, <2>1, <2>4, OneCommand
<1> QED
  BY <1>8, <1>9

\* What is stacked on a stage comes from manifests the command has resolved.
LEMMA RunStageKeeps ==
  ASSUME ImageInv, NEW p \in Processes, RunStage(p)
  PROVE  ImageInv'
<1>1. /\ pc \in [Processes -> Pcs] /\ work \in [Processes -> Works] /\ work[p] \in Works
      /\ CacheInv /\ WorkInv(p) /\ SeenInv(p)
  BY DEF ImageInv
<1>2. /\ pc[p] = "stages" /\ pc' = pc /\ UNCHANGED cacheVars
      /\ work[p].item \in 1 .. Len(Todo[p]) /\ Unresolved(p) = {}
      /\ StageNo(p) \in DOMAIN Stages[Recipe(p)] /\ MissingTemplates(p) = {}
      /\ \A i \in DOMAIN work[p].built : work[p].built[i].of \subseteq Manifests(p)
  BY <1>1 DEF RunStage, WorkInv
<1>3. CacheInv' /\ DisksMoveOn
  BY <1>1, <1>2, FilesKeep DEF cacheVars, CacheInv, FilesTypeOK
<1>4. PICK b : b = work[p].built
  OBVIOUS
<1>5. /\ b \in Seq(StageDisks) /\ Len(b) \in Nat /\ DOMAIN b = 1 .. Len(b)
      /\ StageNo(p) = Len(b) + 1
  BY <1>1, <1>4, LenProperties DEF Works, StageNo
<1>6. /\ {Stage(p).base} \union Stage(p).copies \subseteq TagsOf(Recipe(p))
      /\ Stage(p).from \subseteq 1 .. Len(b)
      /\ Len(Stages[Recipe(p)]) \in Nat /\ StageNo(p) <= Len(Stages[Recipe(p)])
  BY <1>2, <1>5, RecipeFacts DEF Stage
<1>7. Templates(p) \subseteq Manifests(p)
  BY <1>1, <1>2, <1>6, TagFacts DEF Templates
<1>8. CopiedFrom(p) \subseteq Manifests(p) /\ CopiedFrom(p) \subseteq Digests
  <2>1. \A i \in Stage(p).from : work[p].built[i].of \subseteq Manifests(p)
    BY <1>2, <1>4, <1>5, <1>6
  <2> QED
    BY <1>1, <1>7, <2>1, ManifestFacts DEF CopiedFrom
<1>9. Base(p).files \union Installed(p) \in SUBSET Shells
  <2>1. FlatKey(ImageOf(p, Stage(p).base)) \in DOMAIN disks
    BY <1>2 DEF MissingTemplates, Templates
  <2>2. Base(p).files \in SUBSET Shells
    BY <1>1, <2>1 DEF Base, CacheInv, FilesTypeOK
  <2> QED
    BY <2>2 DEF Installed, Shells
<1>10. PICK e \in StageDisks : e = [files |-> Base(p).files \union Installed(p), of |-> CopiedFrom(p)]
  BY <1>8, <1>9 DEF StageDisks
<1>11. PICK c : c = Append(b, e)
  OBVIOUS
<1>12. /\ c \in Seq(StageDisks) /\ Len(c) = Len(b) + 1 /\ DOMAIN c = 1 .. Len(b) + 1
       /\ \A i \in 1 .. Len(b) : c[i] = b[i]
       /\ c[Len(b) + 1] = e
  BY <1>5, <1>11, AppendProperties, LenProperties
<1>13. work' = [work EXCEPT ![p] = [work[p] EXCEPT !.built = c]]
  BY <1>4, <1>10, <1>11 DEF RunStage, Set
<1>14. /\ work'[p] \in Works /\ work'[p].item = work[p].item
       /\ work'[p].images = work[p].images /\ work'[p].built = c
       /\ work' \in [Processes -> Works]
  BY <1>1, <1>12, <1>13 DEF Works
<1>15. /\ Recipe(p)' = Recipe(p) /\ Unresolved(p)' = Unresolved(p)
       /\ Manifests(p)' = Manifests(p)
  BY <1>14, KeyKeeps
<1>16. \A i \in DOMAIN c : c[i].of \subseteq Manifests(p)
  <2> SUFFICES ASSUME NEW i \in DOMAIN c PROVE c[i].of \subseteq Manifests(p)
    OBVIOUS
  <2>1. CASE i = Len(b) + 1
    BY <1>8, <1>10, <1>12, <2>1
  <2>2. CASE i # Len(b) + 1
    <3>1. i \in 1 .. Len(b)
      BY <1>5, <1>12, <2>2
    <3> QED
      BY <1>2, <1>4, <1>5, <1>12, <3>1
  <2> QED
    BY <2>1, <2>2
<1>17. WorkInv(p)' /\ SeenInv(p)'
  <2>1. Len(c) <= Len(Stages[Recipe(p)])
    BY <1>5, <1>6, <1>12
  <2> QED
    BY <1>1, <1>2, <1>14, <1>15, <1>16, <2>1 DEF WorkInv, SeenInv
<1> QED
  BY <1>1, <1>2, <1>3, <1>13, <1>14, <1>17, OneCommand

\* A build is published under all the manifests it may be made of.
LEMMA PublishBuildKeeps ==
  ASSUME ImageInv, NEW p \in Processes, PublishBuild(p)
  PROVE  ImageInv'
<1>1. /\ pc \in [Processes -> Pcs] /\ work \in [Processes -> Works] /\ work[p] \in Works
      /\ CacheInv /\ WorkInv(p) /\ SeenInv(p)
  BY DEF ImageInv
<1>2. /\ pc[p] = "stages" /\ work[p].item \in 1 .. Len(Todo[p]) /\ Unresolved(p) = {}
      /\ RequiresBuild(Recipe(p)) /\ Len(work[p].built) <= Len(Stages[Recipe(p)])
      /\ StageNo(p) \notin DOMAIN Stages[Recipe(p)]
      /\ \A i \in DOMAIN work[p].built : work[p].built[i].of \subseteq Manifests(p)
      /\ UNCHANGED <<registry, mirror, blobs, records, notes>>
  BY <1>1 DEF PublishBuild, WorkInv
<1>3. PICK b : b = work[p].built
  OBVIOUS
<1>4. /\ b \in Seq(StageDisks) /\ Len(b) \in Nat /\ DOMAIN b = 1 .. Len(b)
      /\ StageNo(p) = Len(b) + 1
  BY <1>1, <1>3, LenProperties DEF Works, StageNo
<1>5. Len(b) \in DOMAIN b
  <2>1. PICK n \in Nat : n = Len(Stages[Recipe(p)]) /\ n > 0 /\ Len(b) + 1 \notin 1 .. n
    BY <1>2, <1>4, RecipeFacts
  <2> QED
    BY <1>2, <1>3, <1>4, <2>1
<1>6. PICK e \in StageDisks : e = Last(b) /\ e.of \subseteq Manifests(p)
  <2>1. b[Len(b)] \in StageDisks
    BY <1>4, <1>5, ElementOfSeq
  <2>2. b[Len(b)].of \subseteq Manifests(p)
    BY <1>2, <1>3, <1>5
  <2> QED
    BY <2>1, <2>2 DEF Last
<1>7. Key(p) = <<"build", Recipe(p), work[p].images>>
  BY <1>2 DEF Key
<1>8. CacheInv' /\ DisksMoveOn /\ Key(p) \in DOMAIN disks'
  <2>1. e.files \in SUBSET Shells /\ e.of \in SUBSET Digests
    BY DEF StageDisks
  <2>2. PICK k : k = Key(p)
    OBVIOUS
  <2>3. e.of \subseteq {k[3][t] : t \in DOMAIN k[3]}
    BY <1>6, <1>7, <2>2 DEF Manifests
  <2>4. Publish(k, e.files, e.of)
    BY <1>3, <1>6, <2>2 DEF PublishBuild
  <2>5. CacheInv' /\ DisksMoveOn /\ k \in DOMAIN disks'
    <3>1. PICK f, o : f = e.files /\ o = e.of
      OBVIOUS
    <3>2. f \in SUBSET Shells /\ o \in SUBSET Digests /\ Publish(k, f, o)
      BY <2>1, <2>4, <3>1
    <3>3. k[1] = "build" => o \subseteq {k[3][t] : t \in DOMAIN k[3]}
      BY <2>3, <3>1
    <3> QED
      BY <1>1, <1>2, <3>2, <3>3, PublishKeeps
  <2> QED
    BY <2>2, <2>5
<1>9. /\ work' = [work EXCEPT ![p] = [work[p] EXCEPT !.built = <<>>]]
      /\ pc' = [pc EXCEPT ![p] = "stat"]
  BY DEF PublishBuild, Set, To
<1>10. /\ work'[p] \in Works /\ work'[p].item = work[p].item
       /\ work'[p].images = work[p].images /\ work'[p].built = <<>>
       /\ work' \in [Processes -> Works]
  <2>1. <<>> \in Seq(StageDisks)
    BY EmptySeq
  <2> QED
    BY <1>1, <1>9, <2>1 DEF Works
<1>11. Key(p)' = Key(p) /\ Unresolved(p)' = Unresolved(p)
  BY <1>10, KeyKeeps
<1>12. pc' \in [Processes -> Pcs] /\ pc'[p] = "stat"
  BY <1>1, <1>9 DEF Pcs, ImageStep
<1>13. WorkInv(p)' /\ SeenInv(p)'
  BY <1>1, <1>2, <1>8, <1>10, <1>11, <1>12 DEF WorkInv, SeenInv
<1> QED
  BY <1>8, <1>9, <1>10, <1>12, <1>13, OneCommand

\* A note that has the disk's stamp is the disk's.
LEMMA StatDiskKeeps ==
  ASSUME ImageInv, NEW p \in Processes, StatDisk(p)
  PROVE  ImageInv'
<1>1. /\ pc \in [Processes -> Pcs] /\ work \in [Processes -> Works] /\ work[p] \in Works
      /\ CacheInv /\ WorkInv(p) /\ SeenInv(p)
  BY DEF ImageInv
<1>2. pc[p] = "stat" /\ UNCHANGED cacheVars /\ Key(p) \in DOMAIN disks
  BY <1>1 DEF StatDisk, SeenInv
<1>3. CacheInv' /\ DisksMoveOn
  BY <1>1, <1>2, FilesKeep DEF cacheVars, CacheInv, FilesTypeOK
<1>4. PICK stamp \in Nat : stamp = disks[Key(p)].stamp /\ stamp >= 1
  BY <1>1, <1>2 DEF CacheInv, FilesTypeOK
<1>5. CASE Noted(p)
  <2>1. PICK shell \in Shells : shell = notes[Key(p)].shell
    BY <1>1, <1>5 DEF Noted, CacheInv, FilesTypeOK
  <2>2. /\ work' = [work EXCEPT ![p] = [work[p] EXCEPT !.shell = shell]]
        /\ pc' = [pc EXCEPT ![p] = "report"]
    BY <1>5, <2>1 DEF StatDisk, Set, To
  <2>3. /\ work'[p] \in Works /\ work'[p].item = work[p].item /\ work'[p].built = work[p].built
        /\ work' \in [Processes -> Works]
    BY <1>1, <2>2 DEF Works
  <2>4. pc' \in [Processes -> Pcs] /\ pc'[p] = "report"
    BY <1>1, <2>2 DEF Pcs
  <2>5. WorkInv(p)' /\ SeenInv(p)'
    BY <1>1, <1>2, <2>3, <2>4 DEF WorkInv, SeenInv
  <2> QED
    BY <1>3, <2>2, <2>3, <2>4, <2>5, OneCommand
<1>6. CASE ~Noted(p)
  <2>1. /\ work' = [work EXCEPT ![p] = [work[p] EXCEPT !.seen = stamp]]
        /\ pc' = [pc EXCEPT ![p] = "inspect"]
    BY <1>4, <1>6 DEF StatDisk, Set, To
  <2>2. /\ work'[p] \in Works /\ work'[p].item = work[p].item /\ work'[p].built = work[p].built
        /\ work'[p].images = work[p].images /\ work'[p].seen = stamp
        /\ work' \in [Processes -> Works]
    BY <1>1, <2>1 DEF Works
  <2>3. pc' \in [Processes -> Pcs] /\ pc'[p] = "inspect"
    BY <1>1, <2>1 DEF Pcs, ImageStep
  <2>4. Key(p)' = Key(p) /\ Unresolved(p)' = Unresolved(p) /\ disks' = disks
    BY <1>2, <2>2, KeyKeeps DEF cacheVars
  <2>5. WorkInv(p)'
    BY <1>1, <1>2, <2>2, <2>3, <2>4 DEF WorkInv
  <2>6. SeenInv(p)'
    BY <1>2, <1>4, <2>2, <2>3, <2>4 DEF SeenInv
  <2> QED
    BY <1>3, <2>1, <2>2, <2>3, <2>5, <2>6, OneCommand
<1> QED
  BY <1>5, <1>6

LEMMA InspectKeeps ==
  ASSUME ImageInv, NEW p \in Processes, Inspect(p)
  PROVE  ImageInv'
<1>1. /\ pc \in [Processes -> Pcs] /\ work \in [Processes -> Works] /\ work[p] \in Works
      /\ CacheInv /\ WorkInv(p) /\ SeenInv(p)
  BY DEF ImageInv
<1>2. pc[p] = "inspect" /\ UNCHANGED cacheVars /\ Key(p) \in DOMAIN disks
  BY <1>1 DEF Inspect, SeenInv
<1>3. CacheInv' /\ DisksMoveOn
  BY <1>1, <1>2, FilesKeep DEF cacheVars, CacheInv, FilesTypeOK
<1>4. PICK shell \in Shells : shell = ShellOf(disks[Key(p)].files)
  BY DEF ShellOf, Shells
<1>5. /\ work' = [work EXCEPT ![p] = [work[p] EXCEPT !.shell = shell]]
      /\ pc' = [pc EXCEPT ![p] = "note"]
  BY <1>4 DEF Inspect, Set, To, ShellOf
<1>6. /\ work'[p] \in Works /\ work'[p].item = work[p].item /\ work'[p].built = work[p].built
      /\ work'[p].images = work[p].images /\ work'[p].shell = shell
      /\ work'[p].seen = work[p].seen /\ work' \in [Processes -> Works]
  BY <1>1, <1>5 DEF Works
<1>7. pc' \in [Processes -> Pcs] /\ pc'[p] = "note"
  BY <1>1, <1>5 DEF Pcs, ImageStep
<1>8. Key(p)' = Key(p) /\ Unresolved(p)' = Unresolved(p) /\ disks' = disks
  BY <1>2, <1>6, KeyKeeps DEF cacheVars
<1>9. WorkInv(p)'
  BY <1>1, <1>2, <1>6, <1>7, <1>8 DEF WorkInv
<1>10. SeenInv(p)'
  BY <1>1, <1>2, <1>4, <1>6, <1>7, <1>8 DEF SeenInv
<1> QED
  BY <1>3, <1>5, <1>6, <1>7, <1>9, <1>10, OneCommand

\* A note is about the stamp its writer saw, and says what the disk of that
\* stamp has, if it is still the one under the key.
LEMMA NoteShellKeeps ==
  ASSUME ImageInv, NEW p \in Processes, NoteShell(p)
  PROVE  ImageInv'
<1>1. /\ pc \in [Processes -> Pcs] /\ work \in [Processes -> Works] /\ work[p] \in Works
      /\ CacheInv /\ WorkInv(p) /\ SeenInv(p)
  BY DEF ImageInv
<1>2. PICK k : k = Key(p)
  OBVIOUS
<1>3. PICK note : note = [stamp |-> work[p].seen, shell |-> work[p].shell]
  OBVIOUS
<1>4. /\ pc[p] = "note" /\ k \in DOMAIN disks /\ notes' = With(notes, k, note)
      /\ UNCHANGED <<registry, mirror, blobs, records, disks, published, work>>
      /\ pc' = [pc EXCEPT ![p] = "report"]
  BY <1>1, <1>2, <1>3 DEF NoteShell, SeenInv, To
<1>5. /\ note.stamp \in 1 .. disks[k].stamp /\ note.shell \in Shells
      /\ note.stamp = disks[k].stamp => note.shell = ShellOf(disks[k].files)
  BY <1>1, <1>2, <1>3, <1>4 DEF SeenInv
<1>6. note \in [stamp : 1 .. published, shell : Shells]
  <2>1. published \in Nat /\ disks[k].stamp \in 1 .. published
    BY <1>1, <1>4 DEF CacheInv, FilesTypeOK
  <2> QED
    BY <1>3, <1>5, <2>1
<1>7. /\ DOMAIN notes' = DOMAIN notes \union {k} /\ notes'[k] = note
      /\ \A x \in DOMAIN notes : x # k => notes'[x] = notes[x]
  BY <1>4 DEF With
<1>8. CacheInv'
  <2>1. FilesTypeOK'
    BY <1>1, <1>4, <1>6, <1>7 DEF CacheInv, FilesTypeOK
  <2>2. NotesMatchDisks'
    BY <1>1, <1>4, <1>5, <1>7 DEF CacheInv, NotesMatchDisks, ShellOf
  <2>3. DOMAIN notes' \subseteq DOMAIN disks'
    BY <1>1, <1>4, <1>7 DEF CacheInv
  <2> QED
    BY <1>1, <1>4, <2>1, <2>2, <2>3 DEF CacheInv, RecordsAreComplete, BuildsMatchTheirKey
<1>9. DisksMoveOn
  BY <1>4 DEF DisksMoveOn
<1>10. pc' \in [Processes -> Pcs] /\ pc'[p] = "report"
  BY <1>1, <1>4 DEF Pcs
<1>11. WorkInv(p)' /\ SeenInv(p)'
  BY <1>1, <1>4, <1>10 DEF WorkInv, SeenInv
<1> QED
  BY <1>1, <1>4, <1>8, <1>9, <1>10, <1>11, OneCommand

\* A command that reports a disk, or gives an environment up.
LEMMA ReportKeeps ==
  ASSUME ImageInv, NEW p \in Processes, Report(p) \/ Reject(p)
  PROVE  ImageInv'
<1>1. /\ pc \in [Processes -> Pcs] /\ work \in [Processes -> Works] /\ work[p] \in Works
      /\ CacheInv /\ WorkInv(p) /\ SeenInv(p)
  BY DEF ImageInv
<1>2. work[p].ready \in Seq(Shells \union {"none"})
  BY <1>1 DEF Works
<1>3. CASE Report(p)
  <2>1. Append(work[p].ready, work[p].shell) \in Seq(Shells \union {"none"})
    BY <1>1, <1>2, AppendProperties DEF Works
  <2>2. pc[p] = "report" /\ UNCHANGED cacheVars
    BY <1>3 DEF Report
  <2> QED
    BY <1>3, <2>1, <2>2, GiveUpSettles DEF Report
<1>4. CASE Reject(p)
  <2>1. pc[p] \notin {"failed", "prepared"} /\ UNCHANGED cacheVars /\ GiveUp(p)
    BY <1>4 DEF Reject, Unusable
  <2> QED
    BY <1>2, <2>1, GiveUpSettles
<1> QED
  BY <1>3, <1>4

\* The steps of the tools, and their failures, leave the cache alone.
LEMMA ToolsLeaveImages ==
  ASSUME ImageInv, NEW p \in Processes, pc[p] \in RuntimeStep,
         NEW next \in RuntimeStep \union {"resolve", "failed"}, To(p, next), UNCHANGED imageVars
  PROVE  ImageInv'
<1>1. pc \in [Processes -> Pcs] /\ work \in [Processes -> Works] /\ CacheInv /\ WorkInv(p)
  BY DEF ImageInv
<1>2. CacheInv' /\ DisksMoveOn /\ work' = work
  BY <1>1, FilesKeep DEF imageVars, CacheInv, FilesTypeOK
<1>3. pc' \in [Processes -> Pcs] /\ pc' = [pc EXCEPT ![p] = next] /\ pc'[p] = next
  BY <1>1 DEF To, Pcs, RuntimeStep, ImageStep
<1>4. work[p].item \in 1 .. Len(Todo[p]) /\ work[p].built = <<>>
  BY <1>1 DEF WorkInv, RuntimeStep
<1>5. WorkInv(p)' /\ SeenInv(p)'
  BY <1>1, <1>2, <1>3, <1>4 DEF WorkInv, SeenInv, RuntimeStep
<1> QED
  BY <1>1, <1>2, <1>3, <1>5, OneCommand

\* A step that moves no command.
LEMMA NobodyMoves ==
  ASSUME ImageInv, UNCHANGED <<pc, work, blobs, records, disks, notes, published>>,
         registry' \in [Tags -> Digests], mirror' \in BOOLEAN
  PROVE  ImageInv'
<1>1. CacheInv' /\ DisksMoveOn
  BY FilesKeep DEF ImageInv, CacheInv, FilesTypeOK
<1>2. \A q \in Processes : WorkInv(q)' /\ SeenInv(q)'
  BY <1>1, OthersSee
<1> QED
  BY <1>1, <1>2 DEF ImageInv

LEMMA ToolsKeepImages ==
  ASSUME ImageInv, NEW p \in Processes, Tools(p)
  PROVE  ImageInv'
<1>1. pc[p] \in RuntimeStep /\ UNCHANGED imageVars
  BY DEF Tools, PrepareTools, RuntimeStep, CheckFresh, StartBuild, FinishBuild, LoadRecord,
         ReadBinary, StageRuntime, ReadMeta, WriteRuntimeRecord, Gvproxy
<1>2. \E next \in RuntimeStep \union {"resolve"} : To(p, next)
  <2> USE DEF RuntimeStep
  <2>1. CASE CheckFresh(p) \/ LoadRecord(p)
    BY <2>1 DEF CheckFresh, LoadRecord
  <2>2. CASE StartBuild(p) \/ FinishBuild(p)
    BY <2>2 DEF StartBuild, FinishBuild
  <2>3. CASE ReadBinary(p) \/ StageRuntime(p) \/ ReadMeta(p)
    BY <2>3 DEF ReadBinary, StageRuntime, ReadMeta
  <2>4. CASE WriteRuntimeRecord(p) \/ Gvproxy(p, "resolve")
    BY <2>4 DEF WriteRuntimeRecord, Gvproxy
  <2> QED
    BY <2>1, <2>2, <2>3, <2>4 DEF Tools, PrepareTools
<1> QED
  BY <1>1, <1>2, ToolsLeaveImages

LEMMA PrepareImageKeeps ==
  ASSUME ImageInv, NEW p \in Processes, PrepareImage(p)
  PROVE  ImageInv'
BY ResolveKeeps, PullBlobKeeps, WriteReferenceKeeps, LookupKeeps, NeedTemplateKeeps, FlattenKeeps,
   RunStageKeeps, PublishBuildKeeps, StatDiskKeeps, InspectKeeps, NoteShellKeeps, ReportKeeps
DEF PrepareImage

LEMMA EndsKeepImages ==
  ASSUME ImageInv, NEW p \in Processes, Fail(p) \/ FailRuntime(p) \/ Crash(p) \/ Repeat(p)
  PROVE  ImageInv'
<1>1. <<>> \in Seq(Shells \union {"none"}) /\ 1 \in 1 .. Len(Todo[p])
  BY EmptySeq, TodoFacts
<1>2. CASE Fail(p)
  <2>1. pc[p] \notin {"failed", "prepared"} /\ UNCHANGED cacheVars /\ GiveUp(p)
    BY <1>2 DEF Fail, ImageStep
  <2> QED
    BY <1>1, <2>1, GiveUpSettles
<1>3. CASE FailRuntime(p)
  BY <1>3, ToolsLeaveImages DEF FailRuntime, imageVars, cacheVars
<1>4. CASE Crash(p) \/ Repeat(p)
  <2>1. /\ To(p, "failed") \/ To(p, "fresh")
        /\ Set(p, Idle(1, <<>>)) /\ UNCHANGED cacheVars
    BY <1>4 DEF Crash, Repeat
  <2>2. 1 \in 1 .. Len(Todo[p]) + 1
    BY TodoFacts
  <2> QED
    BY <1>1, <2>1, <2>2, Settles
<1> QED
  BY <1>2, <1>3, <1>4

LEMMA ImagesKeep == ImageInv /\ [Next]_vars => ImageInv'
<1> SUFFICES ASSUME ImageInv, [Next]_vars PROVE ImageInv'
  OBVIOUS
<1>1. CacheInv
  BY DEF ImageInv
<1>2. CASE UNCHANGED vars \/ (Edit /\ UNCHANGED <<imageVars>>)
  BY <1>1, <1>2, NobodyMoves DEF vars, imageVars, Edit, CacheInv, FilesTypeOK
<1>3. CASE (\E t \in Tags, d \in Digests : Retag(t, d)) \/ MirrorChanges
  <2>1. registry' \in [Tags -> Digests] /\ mirror' \in BOOLEAN
    BY <1>1, <1>3 DEF CacheInv, FilesTypeOK, Retag, MirrorChanges
  <2> QED
    BY <1>3, <2>1, NobodyMoves DEF Retag, MirrorChanges
<1>4. CASE \E p \in Processes : Step(p) \/ Fail(p) \/ FailRuntime(p) \/ Crash(p) \/ Repeat(p)
  BY <1>4, ToolsKeepImages, PrepareImageKeeps, EndsKeepImages DEF Step
<1> QED
  BY <1>2, <1>3, <1>4 DEF Next

\* The invariant of the cache holds in every reachable state.
LEMMA ImageInvariant == Spec => []ImageInv
BY ImagesStart, ImagesKeep, PTL DEF Spec

-----------------------------------------------------------------------------
\* Every variable keeps its type: in particular what a record names, and what a
\* command gives its machines, was staged before.
THEOREM Typing == Spec => [](RuntimeTypeOK /\ ImageTypeOK)
<1>1. RuntimeInv => RuntimeTypeOK
  BY DEF RuntimeInv
<1>2. ImageInv => ImageTypeOK
  BY DEF ImageInv, CacheInv, WorkInv, ImageTypeOK
<1> QED
  BY <1>1, <1>2, RuntimeInvariant, ImageInvariant, PTL

\* write_reference of pull_layers: a recorded reference has all its layers in
\* the cache, whoever is killed while they are pulled.
THEOREM RecordsHaveTheirLayers == Spec => []RecordsAreComplete
<1>1. ImageInv => RecordsAreComplete
  BY DEF ImageInv, CacheInv
<1> QED
  BY <1>1, ImageInvariant, PTL

\* build_cache_key: a build was made of no manifest but those in its key,
\* though tags and their records move while it is built.
THEOREM KeysCoverBuilds == Spec => []BuildsMatchTheirKey
<1>1. ImageInv => BuildsMatchTheirKey
  BY DEF ImageInv, CacheInv
<1> QED
  BY <1>1, ImageInvariant, PTL

\* cached_prepared_shell: a note with the stamp of its disk names that disk's
\* shell, however many commands replace the disk before the note is written.
THEOREM NotesAreTrue == Spec => []NotesMatchDisks
<1>1. ImageInv => NotesMatchDisks
  BY DEF ImageInv, CacheInv
<1> QED
  BY <1>1, ImageInvariant, PTL

=============================================================================

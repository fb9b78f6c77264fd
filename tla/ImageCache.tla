------------------------------ MODULE ImageCache ------------------------------
(***************************************************************************)
(* The cache of prepared root disks (bin/nanoeval/src/vm_image.rs): the    *)
(* resolved references, the layers, the flattened templates, the built     *)
(* disks and the records of their shells.  Commands fill it side by side,  *)
(* without a lock, once they have their programs (GuestRuntime); tags move *)
(* and what a RUN installs changes meanwhile.                              *)
(***************************************************************************)
EXTENDS GuestRuntime, SequencesExt

CONSTANTS
  Digests,      \* the manifests of the registry
  Tags,         \* image references, as numbers: they are resolved in order
  Layers,       \* layers of a manifest
  LayersOf,     \* Digests -> SUBSET Layers
  FilesOf,      \* Digests -> SUBSET Shells
  Recipes,      \* names of parsed Dockerfiles
  Stages,       \* Recipes -> sequences of [base, copies, from, runs]
  Todo,         \* Processes -> sequences of recipes
  Tagged,       \* Tags -> Digests, at first
  Refresh,      \* the processes given --vm-refresh
  Prepares      \* the processes that run `nanoeval prepare`

Shells == {"bash", "sh"}

\* A stage copies from images, which are pulled as its base is, and from earlier stages.
TagsOf(r) == UNION {{Stages[r][i].base} \union Stages[r][i].copies : i \in DOMAIN Stages[r]}
RequiresBuild(r) == Len(Stages[r]) # 1 \/ Stages[r][1].copies # {} \/ Stages[r][1].runs

ASSUME ImageAssumption ==
  /\ Tags \subseteq Nat
  /\ LayersOf \in [Digests -> (SUBSET Layers) \ {{}}]
  /\ FilesOf \in [Digests -> SUBSET Shells]
  /\ Tagged \in [Tags -> Digests]
  /\ Refresh \subseteq Processes /\ Prepares \subseteq Processes
  /\ None \notin Digests
  /\ \A r \in Recipes :
       /\ Stages[r] \in Seq([base : Tags, copies : SUBSET Tags, from : SUBSET Nat, runs : BOOLEAN])
       /\ Stages[r] # <<>>
       /\ \A i \in DOMAIN Stages[r] : Stages[r][i].from \subseteq 1 .. (i - 1)
  /\ \A p \in Processes : Todo[p] \in Seq(Recipes) /\ Todo[p] # <<>>

VARIABLES
  registry,   \* the manifest a tag stands for
  mirror,     \* whether a RUN finds bash to install
  blobs,      \* layers in blobs/
  records,    \* references/: tag -> manifest, or None
  disks,      \* images/ and builds/: key -> [stamp, files, of]
  notes,      \* *.prepared.json: key -> [stamp, shell]
  published,  \* how many disks have been renamed to their keys
  work        \* what a command is doing

imageVars == <<registry, mirror, blobs, records, disks, notes, published, work>>
cacheVars == <<registry, mirror, blobs, records, disks, notes, published>>
vars == <<runtimeVars, imageVars, pc, events, repeats>>

(***************************************************************************)
(* item    index in Todo         images  what the recipe's tags resolve to *)
(* pulling the manifest being pulled     built   the stage disks so far    *)
(* flat    the manifest being flattened  seen    stamp of the disk         *)
(* shell   shell found           ready   shells of the disks reported      *)
(***************************************************************************)
Idle(i, ready) ==
  [item |-> i, images |-> [t \in {} |-> None], pulling |-> None, flat |-> None, built |-> <<>>,
   seen |-> 0, shell |-> "none", ready |-> ready]

ImageInit ==
  /\ registry = Tagged
  /\ mirror = TRUE /\ blobs = {}
  /\ records = [t \in Tags |-> None]
  /\ disks = [k \in {} |-> None] /\ notes = [k \in {} |-> None]
  /\ published = 0
  /\ work = [p \in Processes |-> Idle(1, <<>>)]

Recipe(p) == Todo[p][work[p].item]
Set(p, w) == work' = [work EXCEPT ![p] = w]

\* disk_cache_key and build_cache_key.
FlatKey(d) == <<"image", d>>
Key(p) == IF RequiresBuild(Recipe(p))
          THEN <<"build", Recipe(p), work[p].images>>
          ELSE FlatKey(work[p].images[Stages[Recipe(p)][1].base])

With(f, k, v) == [x \in DOMAIN f \union {k} |-> IF x = k THEN v ELSE f[x]]

-----------------------------------------------------------------------------
(* Outside the commands *)

Retag(t, d) ==
  /\ events < MaxEvents /\ d # registry[t]
  /\ events' = events + 1
  /\ registry' = [registry EXCEPT ![t] = d]
  /\ UNCHANGED <<runtimeVars, pc, repeats, mirror, blobs, records, disks, notes,
                 published, work>>

MirrorChanges ==
  /\ events < MaxEvents
  /\ events' = events + 1
  /\ mirror' = ~mirror
  /\ UNCHANGED <<runtimeVars, pc, repeats, registry, blobs, records, disks, notes,
                 published, work>>

-----------------------------------------------------------------------------
(* resolve_recipe_images, resolve_image, local_image, pull_layers *)

Unresolved(p) == TagsOf(Recipe(p)) \ DOMAIN work[p].images
Resolved(p, t, d) == [work[p] EXCEPT !.images = With(@, t, d), !.pulling = None]

\* The reference is recorded and all its layers are there.
Local(p, t) ==
  /\ p \notin Refresh
  /\ records[t] # None
  /\ LayersOf[records[t]] \subseteq blobs

Resolve(p) ==
  /\ pc[p] = "resolve"
  /\ IF Unresolved(p) = {}
     THEN To(p, "lookup") /\ UNCHANGED work
     ELSE LET t == Min(Unresolved(p)) IN
          IF Local(p, t)
          THEN Set(p, Resolved(p, t, records[t])) /\ UNCHANGED pc
          ELSE Set(p, [work[p] EXCEPT !.pulling = registry[t]]) /\ To(p, "pull")
  /\ UNCHANGED <<runtimeVars, events, repeats, cacheVars>>

\* A layer has its name only once it is complete.
PullBlob(p) ==
  /\ pc[p] = "pull"
  /\ \E l \in LayersOf[work[p].pulling] \ blobs : blobs' = blobs \union {l}
  /\ UNCHANGED <<runtimeVars, pc, events, repeats, registry, mirror, records, disks, notes,
                 published, work>>

\* Fault: the reference is recorded before its layers are pulled.
PulledAtOnce(p) == work[p].pulling # None
Pulled(p) == LayersOf[work[p].pulling] \subseteq blobs

WriteReference(p) ==
  /\ pc[p] = "pull"
  /\ Pulled(p)
  /\ LET t == Min(Unresolved(p)) IN
       /\ records' = [records EXCEPT ![t] = work[p].pulling]
       /\ Set(p, Resolved(p, t, work[p].pulling))
  /\ To(p, "resolve")
  /\ UNCHANGED <<runtimeVars, events, repeats, registry, mirror, blobs, disks, notes,
                 published>>

-----------------------------------------------------------------------------
(* prepare_flattened_disk, prepare_built_disk, execute_stage *)

Lookup(p) ==
  /\ pc[p] = "lookup"
  /\ IF Key(p) \in DOMAIN disks
     THEN To(p, "stat") /\ UNCHANGED work
     ELSE IF RequiresBuild(Recipe(p))
     THEN To(p, "stages") /\ UNCHANGED work
     ELSE To(p, "flatten") /\ Set(p, [work[p] EXCEPT !.flat = Key(p)[2]])
  /\ UNCHANGED <<runtimeVars, events, repeats, cacheVars>>

\* A disk is renamed to its key, over one that has come there meanwhile.
Publish(k, files, of) ==
  /\ published' = published + 1
  /\ disks' = With(disks, k, [stamp |-> published', files |-> files, of |-> of])

Flatten(p) ==
  /\ pc[p] = "flatten"
  /\ Publish(FlatKey(work[p].flat), FilesOf[work[p].flat], {work[p].flat})
  /\ To(p, IF RequiresBuild(Recipe(p)) THEN "stages" ELSE "stat")
  /\ Set(p, [work[p] EXCEPT !.flat = None])
  /\ UNCHANGED <<runtimeVars, events, repeats, registry, mirror, blobs, records, notes>>

\* Fault: a stage is built from what its tag is recorded to be by now.
ImageNow(p, t) == records[t]
ImageOf(p, t) == work[p].images[t]

StageNo(p) == Len(work[p].built) + 1
Stage(p) == Stages[Recipe(p)][StageNo(p)]
Templates(p) == {ImageOf(p, t) : t \in {Stage(p).base} \union Stage(p).copies}
MissingTemplates(p) == {d \in Templates(p) : FlatKey(d) \notin DOMAIN disks}

\* The base, and the sources of a COPY, are flattened first.
NeedTemplate(p) ==
  /\ pc[p] = "stages" /\ StageNo(p) \in DOMAIN Stages[Recipe(p)]
  /\ \E d \in MissingTemplates(p) : Set(p, [work[p] EXCEPT !.flat = d])
  /\ To(p, "flatten")
  /\ UNCHANGED <<runtimeVars, events, repeats, cacheVars>>

Base(p) == disks[FlatKey(ImageOf(p, Stage(p).base))]

\* The machine that builds boots /bin/sh of the stage's disk.
Boots(p) == "sh" \in Base(p).files

\* A COPY takes files of an image or of an earlier stage.
CopiedFrom(p) == Templates(p) \union UNION {work[p].built[i].of : i \in Stage(p).from}

\* A RUN installs what its mirror has.
Installed(p) == IF Stage(p).runs /\ mirror THEN {"bash"} ELSE {}

RunStage(p) ==
  /\ pc[p] = "stages" /\ StageNo(p) \in DOMAIN Stages[Recipe(p)]
  /\ MissingTemplates(p) = {}
  /\ Boots(p)
  /\ Set(p, [work[p] EXCEPT !.built =
       Append(@, [files |-> Base(p).files \union Installed(p), of |-> CopiedFrom(p)])])
  /\ UNCHANGED <<runtimeVars, pc, events, repeats, cacheVars>>

PublishBuild(p) ==
  /\ pc[p] = "stages" /\ StageNo(p) \notin DOMAIN Stages[Recipe(p)]
  /\ Publish(Key(p), Last(work[p].built).files, Last(work[p].built).of)
  /\ To(p, "stat")
  /\ Set(p, [work[p] EXCEPT !.built = <<>>])
  /\ UNCHANGED <<runtimeVars, events, repeats, registry, mirror, blobs, records, notes>>

-----------------------------------------------------------------------------
(* validate_root_disk, cached_prepared_shell, prepared_shell *)

Noted(p) == Key(p) \in DOMAIN notes /\ notes[Key(p)].stamp = disks[Key(p)].stamp

\* A record of the disk as it is now is taken; else the disk is looked into.
StatDisk(p) ==
  /\ pc[p] = "stat"
  /\ IF Noted(p)
     THEN Set(p, [work[p] EXCEPT !.shell = notes[Key(p)].shell]) /\ To(p, "report")
     ELSE Set(p, [work[p] EXCEPT !.seen = disks[Key(p)].stamp]) /\ To(p, "inspect")
  /\ UNCHANGED <<runtimeVars, events, repeats, cacheVars>>

Inspect(p) ==
  /\ pc[p] = "inspect"
  /\ disks[Key(p)].files # {}
  /\ Set(p, [work[p] EXCEPT !.shell = IF "bash" \in disks[Key(p)].files THEN "bash" ELSE "sh"])
  /\ To(p, "note")
  /\ UNCHANGED <<runtimeVars, events, repeats, cacheVars>>

\* Fault: the disk's time is read again for the record.
NoteShellLate(p) ==
  /\ pc[p] = "note"
  /\ notes' = With(notes, Key(p), [stamp |-> disks[Key(p)].stamp, shell |-> work[p].shell])
  /\ To(p, "report")
  /\ UNCHANGED <<runtimeVars, events, repeats, registry, mirror, blobs, records, disks,
                 published, work>>

NoteShell(p) ==
  /\ pc[p] = "note"
  /\ notes' = With(notes, Key(p), [stamp |-> work[p].seen, shell |-> work[p].shell])
  /\ To(p, "report")
  /\ UNCHANGED <<runtimeVars, events, repeats, registry, mirror, blobs, records, disks,
                 published, work>>

-----------------------------------------------------------------------------
(* prepare_vm_environments, prepare_tasks *)

NextItem(p, ready) ==
  /\ Set(p, Idle(work[p].item + 1, ready))
  /\ To(p, IF work[p].item = Len(Todo[p]) THEN "prepared" ELSE "resolve")

Report(p) ==
  /\ pc[p] = "report"
  /\ NextItem(p, Append(work[p].ready, work[p].shell))
  /\ UNCHANGED <<runtimeVars, events, repeats, cacheVars>>

ImageStep == {"resolve", "pull", "lookup", "flatten", "stages", "stat", "inspect", "note"}

\* The disk has no shell, or cannot boot to be built on.
Unusable(p) ==
  \/ pc[p] = "inspect" /\ disks[Key(p)].files = {}
  \/ /\ pc[p] = "stages" /\ StageNo(p) \in DOMAIN Stages[Recipe(p)]
     /\ MissingTemplates(p) = {}
     /\ ~Boots(p)

\* Fault: `prepare` tries a failed environment again.
GiveUpNever(p) ==
  /\ To(p, IF p \in Prepares THEN "resolve" ELSE "failed")
  /\ Set(p, Idle(IF p \in Prepares THEN work[p].item ELSE 1, work[p].ready))

\* `prepare` counts the failure and goes on; an evaluation does not start.
GiveUp(p) ==
  IF p \in Prepares
  THEN NextItem(p, work[p].ready)
  ELSE To(p, "failed") /\ Set(p, Idle(1, <<>>))

Reject(p) ==
  /\ Unusable(p)
  /\ GiveUp(p)
  /\ UNCHANGED <<runtimeVars, events, repeats, cacheVars>>

\* The registry, the disk or a RUN fails.
Fail(p) ==
  /\ pc[p] \in ImageStep /\ events < MaxEvents
  /\ events' = events + 1
  /\ GiveUp(p)
  /\ UNCHANGED <<runtimeVars, repeats, cacheVars>>

\* Cargo, the download or the disk fails: that ends any command.
FailRuntime(p) ==
  /\ pc[p] \in RuntimeStep \ {"building"} /\ events < MaxEvents
  /\ events' = events + 1
  /\ To(p, "failed")
  /\ UNCHANGED <<runtimeVars, repeats, cacheVars, work>>

\* The command is killed.  What it has not renamed stays behind under another name.
Crash(p) ==
  /\ pc[p] \in RuntimeStep \union ImageStep /\ events < MaxEvents
  /\ events' = events + 1
  /\ To(p, "failed")
  /\ Set(p, Idle(1, <<>>))
  /\ builder' = IF pc[p] = "building" THEN None ELSE builder
  /\ UNCHANGED <<source, clock, edited, binary, staged, record, started, bytes, meta,
                 build_status, launched, gvproxy, repeats, cacheVars>>

\* The command is given again.
Repeat(p) ==
  /\ pc[p] \in {"failed", "prepared"} /\ repeats < MaxRepeats
  /\ repeats' = repeats + 1
  /\ RuntimeStart(p)
  /\ To(p, "fresh")
  /\ Set(p, Idle(1, <<>>))
  /\ UNCHANGED <<source, clock, edited, binary, builder, staged, record, gvproxy,
                 events, cacheVars>>

Ended == \A p \in Processes : pc[p] \in {"failed", "prepared"}

-----------------------------------------------------------------------------
Init == RuntimeInit /\ ImageInit

PrepareImage(p) ==
  \/ Resolve(p)
  \/ PullBlob(p)
  \/ WriteReference(p)
  \/ Lookup(p)
  \/ NeedTemplate(p)
  \/ Flatten(p)
  \/ RunStage(p)
  \/ PublishBuild(p)
  \/ StatDisk(p)
  \/ Inspect(p)
  \/ NoteShell(p)
  \/ Report(p)
  \/ Reject(p)

Tools(p) == PrepareTools(p, "resolve") /\ UNCHANGED <<imageVars>>

Step(p) == Tools(p) \/ PrepareImage(p)

Next ==
  \/ Edit /\ UNCHANGED <<imageVars>>
  \/ \E t \in Tags, d \in Digests : Retag(t, d)
  \/ MirrorChanges
  \/ \E p \in Processes : Step(p) \/ Fail(p) \/ FailRuntime(p) \/ Crash(p) \/ Repeat(p)
  \/ Ended /\ UNCHANGED vars

Spec == Init /\ [][Next]_vars /\ \A p \in Processes : WF_vars(Step(p))

-----------------------------------------------------------------------------
FilesTypeOK ==
  /\ published \in Nat
  /\ registry \in [Tags -> Digests] /\ mirror \in BOOLEAN
  /\ blobs \subseteq Layers
  /\ records \in [Tags -> Digests \union {None}]
  /\ \A k \in DOMAIN disks :
       disks[k] \in [stamp : 1 .. published, files : SUBSET Shells, of : SUBSET Digests]
  /\ \A k \in DOMAIN notes : notes[k] \in [stamp : 1 .. published, shell : Shells]

ImageTypeOK == FilesTypeOK /\ \A p \in Processes : work[p].item \in 1 .. Len(Todo[p]) + 1

\* README.md:109-111: a recorded reference lets an unchanged rerun do without
\* the registry.  A record never stands for a manifest whose layers are not
\* all in the cache, whoever was killed while they were pulled.
RecordsAreComplete ==
  \A t \in Tags : records[t] # None => LayersOf[records[t]] \subseteq blobs

\* README.md:113-115: a build is keyed by "every resolved stage manifest".  A
\* disk under a key was made of the manifests in the key, though the tags and
\* their records moved to others while it was built.
BuildsMatchTheirKey ==
  \A k \in DOMAIN disks : k[1] = "build" =>
    disks[k].of \subseteq {k[3][t] : t \in DOMAIN k[3]}

\* A shell record is believed when it has the time of the disk; then the shell
\* it names is the disk's, also when two commands published it one after the
\* other and a RUN did not give them the same files.
NotesMatchDisks ==
  \A k \in DOMAIN notes : notes[k].stamp = disks[k].stamp =>
    notes[k].shell = IF "bash" \in disks[k].files THEN "bash" ELSE "sh"

\* Every command ends: Cargo's lock is given back, and no step of the cache
\* waits for another command.
PreparationEnds == <>[](\A p \in Processes : pc[p] \in {"failed", "prepared"})
=============================================================================

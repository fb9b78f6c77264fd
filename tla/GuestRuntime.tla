----------------------------- MODULE GuestRuntime -----------------------------
(***************************************************************************)
(* The programs a command needs before it can start a virtual machine:     *)
(* the guest's tool runtime, built by Cargo and staged under its content   *)
(* (prepare_vm_guest_runtime of bin/nanoeval/src/eval.rs), and gvproxy,    *)
(* downloaded once (prepare_gvproxy of vm_network.rs).  Commands do this   *)
(* at the same time, and the sources are edited meanwhile.                 *)
(***************************************************************************)
EXTENDS Integers, FiniteSets

CONSTANTS
  Processes,
  Size,              \* bytes of the binary built from each version
  EditsDuringBuild,  \* whether sources are edited while Cargo reads them
  MaxEdits,          \* bound: edits of the sources
  MaxEvents,       \* bound: events and crashes
  MaxRepeats,        \* bound: commands that are given once more
  None

Versions == 0 .. MaxEdits
Binaries == [version : Versions, at : Nat]
Builders == [by : Processes, version : Versions]
SizesAndTimes == [size : Nat, at : Nat]

ASSUME RuntimeAssumption ==
  /\ MaxEdits \in Nat /\ MaxEvents \in Nat /\ MaxRepeats \in Nat
  /\ Size \in [Versions -> Nat]
  /\ EditsDuringBuild \in BOOLEAN
  /\ None \notin Versions \union Binaries \union Builders \union SizesAndTimes

VARIABLES
  pc,            \* where a command stands
  source,        \* version of the sources
  clock,         \* time of the last edit or build
  edited,        \* when the sources were last modified
  binary,        \* target/.../nanocodex-vm-guest: its version and time, or None
  builder,       \* who runs Cargo, and on which version, or None
  staged,        \* versions whose binary and runtime.ext4 are in the cache
  record,        \* the build record: size and time of a binary, and a digest
  started,       \* version of the sources when the command began
  bytes,         \* version the command has read
  meta,          \* size and time the command has read
  build_status,  \* how it has come by its runtime, while it is at it: a record
                 \* "hit", the binary as it was "indexed", or "rebuilt"; else "none"
  launched,      \* version of the runtime the command's machines get
  gvproxy,       \* whether the cached gvproxy has the pinned digest
  events, repeats

runtimeVars == <<source, clock, edited, binary, builder, staged, record, started,
                 bytes, meta, build_status, launched, gvproxy>>

(***************************************************************************)
(* fresh     vm_guest_runtime_is_fresh is next                             *)
(* load      it is fresh: load_vm_guest_runtime_record                     *)
(* build     it is not: Cargo is to be run                                 *)
(* building  Cargo runs                                                    *)
(* read      stage_vm_guest_runtime reads the binary                       *)
(* stage     it stages the binary and the disk                             *)
(* meta      it asks for the binary's size and time                        *)
(* record    it writes the record                                          *)
(* network   prepare_gvproxy looks for the binary                          *)
(***************************************************************************)
RuntimeStep == {"fresh", "load", "build", "building", "read", "stage", "meta",
                "record", "network"}

RuntimeInit ==
  /\ pc = [p \in Processes |-> "fresh"]
  /\ source = 0 /\ clock = 0 /\ edited = 0
  /\ binary = None /\ builder = None
  /\ staged = {} /\ record = None
  /\ started = [p \in Processes |-> 0]
  /\ bytes = [p \in Processes |-> None]
  /\ meta = [p \in Processes |-> None]
  /\ build_status = [p \in Processes |-> "none"]
  /\ launched = [p \in Processes |-> None]
  /\ gvproxy = FALSE
  /\ events = 0 /\ repeats = 0

To(p, next) == pc' = [pc EXCEPT ![p] = next]
SizeAndTime(b) == [size |-> Size[b.version], at |-> b.at]

-----------------------------------------------------------------------------
(* The developer, and Cargo *)

Edit ==
  /\ source < MaxEdits
  /\ EditsDuringBuild \/ builder = None
  /\ source' = source + 1
  /\ clock' = clock + 1
  /\ edited' = clock'
  /\ UNCHANGED <<pc, binary, builder, staged, record, started, bytes, meta, build_status,
                 launched, gvproxy, events, repeats>>

\* Cargo takes its lock on the target directory and reads the sources.
StartBuild(p) ==
  /\ pc[p] = "build"
  /\ builder = None
  /\ builder' = [by |-> p, version |-> source]
  /\ To(p, "building")
  /\ UNCHANGED <<source, clock, edited, binary, staged, record, started, bytes, meta,
                 build_status, launched, gvproxy, events, repeats>>

\* It leaves its output alone when that is what it would build.
FinishBuild(p) ==
  /\ pc[p] = "building"
  /\ IF binary # None /\ binary.version = builder.version
     THEN UNCHANGED <<binary, clock>>
     ELSE /\ clock' = clock + 1
          /\ binary' = [version |-> builder.version, at |-> clock']
  /\ builder' = None
  /\ build_status' = [build_status EXCEPT ![p] = "rebuilt"]
  /\ To(p, "read")
  /\ UNCHANGED <<source, edited, staged, record, started, bytes, meta, launched,
                 gvproxy, events, repeats>>

-----------------------------------------------------------------------------
(* prepare_vm_guest_runtime *)

\* No input is newer than the binary.
CheckFresh(p) ==
  /\ pc[p] = "fresh"
  /\ To(p, IF binary # None /\ edited <= binary.at THEN "load" ELSE "build")
  /\ UNCHANGED <<runtimeVars, events, repeats>>

\* The record fits the binary, and what it names is there and of that size.
RecordHits ==
  /\ record # None
  /\ [size |-> record.size, at |-> record.at] = SizeAndTime(binary)
  /\ record.digest \in staged
  /\ Size[record.digest] = record.size

LoadRecord(p) ==
  /\ pc[p] = "load"
  /\ IF RecordHits
     THEN To(p, "network") /\ launched' = [launched EXCEPT ![p] = record.digest]
     ELSE To(p, "read") /\ UNCHANGED launched
  /\ build_status' = [build_status EXCEPT ![p] = IF RecordHits THEN "hit" ELSE "indexed"]
  /\ UNCHANGED <<source, clock, edited, binary, builder, staged, record, started, bytes,
                 meta, gvproxy, events, repeats>>

ReadBinary(p) ==
  /\ pc[p] = "read"
  /\ bytes' = [bytes EXCEPT ![p] = binary.version]
  /\ To(p, "stage")
  /\ UNCHANGED <<source, clock, edited, binary, builder, staged, record, started, meta,
                 build_status, launched, gvproxy, events, repeats>>

\* The binary and then the disk get their names once they are written; a command
\* killed between the two leaves a binary that no record names.
StageRuntime(p) ==
  /\ pc[p] = "stage"
  /\ staged' = staged \union {bytes[p]}
  /\ To(p, "meta")
  /\ UNCHANGED <<source, clock, edited, binary, builder, record, started, bytes, meta,
                 build_status, launched, gvproxy, events, repeats>>

ReadMeta(p) ==
  /\ pc[p] = "meta"
  /\ meta' = [meta EXCEPT ![p] = SizeAndTime(binary)]
  /\ To(p, "record")
  /\ UNCHANGED <<source, clock, edited, binary, builder, staged, record, started, bytes,
                 build_status, launched, gvproxy, events, repeats>>

\* Fault: a record that another command has written of this binary is kept.
KeepFittingRecord(p) ==
  /\ pc[p] = "record"
  /\ LET kept == IF record # None /\ [size |-> record.size, at |-> record.at] = meta[p]
                 THEN record.digest ELSE bytes[p]
     IN  /\ record' = [size |-> meta[p].size, at |-> meta[p].at, digest |-> kept]
         /\ launched' = [launched EXCEPT ![p] = kept]
  /\ bytes' = [bytes EXCEPT ![p] = None]
  /\ meta' = [meta EXCEPT ![p] = None]
  /\ To(p, "network")
  /\ UNCHANGED <<source, clock, edited, binary, builder, staged, started, build_status,
                 gvproxy, events, repeats>>

WriteRuntimeRecord(p) ==
  /\ pc[p] = "record"
  /\ record' = [size |-> meta[p].size, at |-> meta[p].at, digest |-> bytes[p]]
  /\ launched' = [launched EXCEPT ![p] = bytes[p]]
  /\ bytes' = [bytes EXCEPT ![p] = None]
  /\ meta' = [meta EXCEPT ![p] = None]
  /\ To(p, "network")
  /\ UNCHANGED <<source, clock, edited, binary, builder, staged, started, build_status,
                 gvproxy, events, repeats>>

-----------------------------------------------------------------------------
(* prepare_gvproxy *)

\* A binary without the pinned digest is downloaded again, and the download
\* renamed to its name once its digest is that.
Gvproxy(p, next) ==
  /\ pc[p] = "network"
  /\ gvproxy' = TRUE
  /\ build_status' = [build_status EXCEPT ![p] = "none"]
  /\ To(p, next)
  /\ UNCHANGED <<source, clock, edited, binary, builder, staged, record, started, bytes,
                 meta, launched, events, repeats>>

-----------------------------------------------------------------------------
RuntimeStart(p) ==
  /\ started' = [started EXCEPT ![p] = source]
  /\ build_status' = [build_status EXCEPT ![p] = "none"]
  /\ launched' = [launched EXCEPT ![p] = None]
  /\ bytes' = [bytes EXCEPT ![p] = None]
  /\ meta' = [meta EXCEPT ![p] = None]

PrepareTools(p, next) ==
  \/ CheckFresh(p)
  \/ LoadRecord(p)
  \/ StartBuild(p)
  \/ FinishBuild(p)
  \/ ReadBinary(p)
  \/ StageRuntime(p)
  \/ ReadMeta(p)
  \/ WriteRuntimeRecord(p)
  \/ Gvproxy(p, next)

RuntimeTypeOK ==
  /\ source \in Versions /\ clock \in Nat /\ edited \in 0 .. clock
  /\ binary \in Binaries \union {None}
  /\ builder \in Builders \union {None}
  /\ staged \subseteq Versions
  /\ record \in [size : Nat, at : Nat, digest : staged] \union {None}
  /\ started \in [Processes -> Versions]
  /\ bytes \in [Processes -> Versions \union {None}]
  /\ meta \in [Processes -> SizesAndTimes \union {None}]
  /\ build_status \in [Processes -> {"none", "hit", "indexed", "rebuilt"}]
  /\ launched \in [Processes -> staged \union {None}]
  /\ gvproxy \in BOOLEAN
  /\ events \in 0 .. MaxEvents /\ repeats \in 0 .. MaxRepeats

\* What its machines get is of the sources it began with, or of later ones.
LaunchesCurrent(p) == launched[p] # None => launched[p] >= started[p]

\* README.md:119: each attempt "mounts the current runtime as a read-only block
\* disk".  A command that has run Cargo gives its machines no runtime older than
\* the sources were when it began, although the binary it reads afterwards, the
\* staged files and the record are shared with commands that build, stage and
\* record meanwhile, and the sources are edited at any time.  Of a command that
\* takes the binary for fresh by its time (eval.rs:1862), or the staged runtime
\* by a record that may be of a binary swapped after it was read (eval.rs:1743,
\* 1817), the code does not keep this.
RebuiltRuntimesAreCurrent ==
  \A p \in Processes : build_status[p] = "rebuilt" => LaunchesCurrent(p)
=============================================================================

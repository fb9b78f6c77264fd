--------------------------- MODULE BrowserVmProofs ---------------------------
(***************************************************************************)
(* Proofs about BrowserVm and EgressLease, for every set of browsers and   *)
(* of ports, every sequence of fragments a browser is offered and any      *)
(* number of processes that die by themselves.                             *)
(*                                                                         *)
(* The argument: spawn acquires what a machine needs in one order, and the *)
(* fields of the handle are dropped in another one, the VMM first; so each *)
(* stage implies what is still there.  A port is nobody's between its      *)
(* reservation and its forward, but the forward fails if it was taken.     *)
(***************************************************************************)
EXTENDS BrowserVm, TLAPS

\* Stages of a browser, by what it has acquired.
HasVmm == {"polling", "ready", "reaping"}
HasConfig == HasVmm \union {"configured"}
HasForward == HasConfig \union {"forwarded"}
HasPort == HasForward \union {"reserved"}
HasHelper == HasPort \union {"starting", "networked"}
HasDirectory == HasHelper \union {"directory"}
Leaving == {"dropping", "dropping network", "dropping files", "ended"}
Stages == HasDirectory \union Leaving \union {"building", "validated"}

\* A lease is a record of its four fields.
IsLease(l) ==
  l = [network |-> l.network, environment |-> l.environment, mounts |-> l.mounts,
       guards |-> l.guards]

TypeOK ==
  /\ stage \in [Browsers -> Stages]
  /\ lease = [b \in Browsers |-> lease[b]] /\ \A b \in Browsers : IsLease(lease[b])
  /\ offered \in [Browsers -> Nat] /\ \A b \in Browsers : offered[b] <= Len(Offered[b])
  /\ directory \subseteq Browsers
  /\ gvproxy \in [Browsers -> {"none", "starting", "up", "exited"}]
  /\ port \in [Browsers -> Ports \union {None}]
  /\ listener \in [Ports -> Browsers \union {"foreign", None}]
  /\ config \subseteq Browsers
  /\ vmm \in [Browsers -> VmmAlive \union {"none", "killed", "exited"}]
  /\ retained \subseteq Browsers
  /\ faults \in Nat

\* What a browser has at each stage.
StageInv(b) ==
  /\ stage[b] \notin {"building", "ended"} => b \in retained
  /\ stage[b] \in HasDirectory => b \in directory
  /\ stage[b] \in HasHelper => gvproxy[b] # "none"
  /\ stage[b] \in HasPort => port[b] \in Ports
  /\ stage[b] \in HasConfig => b \in config

\* Its helper comes up before it is used, and has the port from the forward on.
HelperInv(b) ==
  /\ gvproxy[b] = "starting" => stage[b] = "starting"
  /\ (stage[b] \in HasForward /\ gvproxy[b] = "up") => listener[port[b]] = b

\* Its VMM runs from the last step of spawn to the first one of the drop.
VmmInv(b) ==
  vmm[b] \in VmmAlive =>
    /\ stage[b] \in {"polling", "ready", "dropping"}
    /\ b \in directory \intersect config
    /\ gvproxy[b] # "none"

\* A lease is what some of the fragments offered so far add up to.
SumOf(b, merged) ==
  LET l == lease[b]
  IN  /\ l.guards = UNION {Offered[b][k].guards : k \in merged}
      /\ l.mounts = UNION {Offered[b][k].mounts : k \in merged}
      /\ DOMAIN l.environment = UNION {DOMAIN Offered[b][k].environment : k \in merged}
      /\ \A k \in merged : \A name \in DOMAIN Offered[b][k].environment :
           l.environment[name] = Offered[b][k].environment[name]

LeaseInv(b) == \E merged \in SUBSET (1 .. offered[b]) : SumOf(b, merged)

\* The inductive invariant of the machines.
MachineInv(b) == StageInv(b) /\ HelperInv(b) /\ VmmInv(b)
IInv == TypeOK /\ \A b \in Browsers : MachineInv(b) /\ LeaseInv(b)

\* Every fragment comes with a guard, and with none of another one's.
FragmentsHaveOwnGuards ==
  \A b \in Browsers : \A k, m \in 1 .. Len(Offered[b]) :
    /\ Offered[b][k].guards # {}
    /\ k # m => Offered[b][k].guards \intersect Offered[b][m].guards = {}

-----------------------------------------------------------------------------
(* EgressLease::merge *)

\* Combining two leases adds up what they hold, the first one's values first.
LEMMA CombinedFields ==
  ASSUME NEW l, NEW o, IsLease(l)
  PROVE  LET c == Combined(l, o)
         IN  /\ IsLease(c)
             /\ c.network = l.network
             /\ c.guards = l.guards \union o.guards
             /\ c.mounts = l.mounts \union o.mounts
             /\ c.environment = [name \in DOMAIN l.environment \union DOMAIN o.environment |->
                                  IF name \in DOMAIN l.environment THEN l.environment[name]
                                  ELSE o.environment[name]]
<1>1. PICK n, e, m, g : l = [network |-> n, environment |-> e, mounts |-> m, guards |-> g]
  BY DEF IsLease
<1>2. PICK f : f = [name \in DOMAIN l.environment \union DOMAIN o.environment |->
                      IF name \in DOMAIN l.environment THEN l.environment[name]
                      ELSE o.environment[name]]
  OBVIOUS
<1>3. Combined(l, o) = [l EXCEPT !.environment = f, !.mounts = l.mounts \union o.mounts,
                                 !.guards = l.guards \union o.guards]
  BY <1>2 DEF Combined
<1>4. Combined(l, o) = [network |-> n, environment |-> f, mounts |-> l.mounts \union o.mounts,
                        guards |-> l.guards \union o.guards]
  BY <1>1, <1>3
<1> QED
  BY <1>1, <1>2, <1>4 DEF IsLease

\* A merge either leaves a lease as it was or adds the fragment to the sum: a
\* value the lease has already is the fragment's.
LEMMA MergeAddsUp ==
  ASSUME TypeOK, NEW b \in Browsers, LeaseInv(b), Provision(b)
  PROVE  LeaseInv(b)' /\ IsLease(lease'[b])
<1>1. PICK j : j = offered[b] + 1
  OBVIOUS
<1>2. PICK o : o = Offered[b][j]
  OBVIOUS
<1>3. /\ offered[b] \in Nat /\ offered'[b] = j
      /\ lease'[b] = Merge(lease[b], o) /\ IsLease(lease[b])
  BY <1>1, <1>2 DEF Provision, TypeOK
<1>4. PICK merged \in SUBSET (1 .. offered[b]) : SumOf(b, merged)
  BY DEF LeaseInv
<1>5. CASE ~ Compatible(lease[b], o)
  <2>1. lease'[b] = lease[b]
    BY <1>3, <1>5 DEF Merge
  <2>2. SumOf(b, merged)'
    BY <1>4, <2>1 DEF SumOf
  <2>3. merged \in SUBSET (1 .. offered'[b])
    BY <1>1, <1>3, <1>4
  <2> QED
    BY <1>3, <2>1, <2>2, <2>3 DEF LeaseInv
<1>6. CASE Compatible(lease[b], o)
  <2>1. PICK all : all = merged \union {j}
    OBVIOUS
  <2>2. lease'[b] = Combined(lease[b], o)
    BY <1>3, <1>6 DEF Merge
  <2>3. /\ IsLease(lease'[b])
        /\ lease'[b].guards = lease[b].guards \union o.guards
        /\ lease'[b].mounts = lease[b].mounts \union o.mounts
        /\ lease'[b].environment =
             [name \in DOMAIN lease[b].environment \union DOMAIN o.environment |->
                IF name \in DOMAIN lease[b].environment THEN lease[b].environment[name]
                ELSE o.environment[name]]
    BY <1>3, <2>2, CombinedFields
  <2>4. \A name \in DOMAIN o.environment :
          name \in DOMAIN lease[b].environment =>
            lease[b].environment[name] = o.environment[name]
    BY <1>6 DEF Compatible, InsertEnvironment
  <2>5. lease'[b].guards = UNION {Offered[b][k].guards : k \in all}
    <3>1. lease[b].guards = UNION {Offered[b][k].guards : k \in merged}
      BY <1>4 DEF SumOf
    <3>2. lease'[b].guards = lease[b].guards \union Offered[b][j].guards
      BY <1>2, <2>3
    <3> QED
      BY <2>1, <3>1, <3>2, ZenonT(60)
  <2>6. lease'[b].mounts = UNION {Offered[b][k].mounts : k \in all}
    <3>1. lease[b].mounts = UNION {Offered[b][k].mounts : k \in merged}
      BY <1>4 DEF SumOf
    <3>2. lease'[b].mounts = lease[b].mounts \union Offered[b][j].mounts
      BY <1>2, <2>3
    <3> QED
      BY <2>1, <3>1, <3>2, ZenonT(60)
  <2>7. DOMAIN lease'[b].environment = UNION {DOMAIN Offered[b][k].environment : k \in all}
    <3>1. DOMAIN lease[b].environment = UNION {DOMAIN Offered[b][k].environment : k \in merged}
      BY <1>4 DEF SumOf
    <3>2. DOMAIN lease'[b].environment = DOMAIN lease[b].environment \union DOMAIN Offered[b][j].environment
      BY <1>2, <2>3
    <3> QED
      BY <2>1, <3>1, <3>2, ZenonT(60)
  <2>8. ASSUME NEW k \in all, NEW name \in DOMAIN Offered[b][k].environment
        PROVE  lease'[b].environment[name] = Offered[b][k].environment[name]
    <3>1. CASE k \in merged
      <4>1. /\ name \in DOMAIN lease[b].environment
            /\ lease[b].environment[name] = Offered[b][k].environment[name]
        BY <1>4, <3>1 DEF SumOf
      <4> QED
        BY <2>3, <4>1
    <3>2. CASE k = j
      BY <1>2, <2>3, <2>4, <3>2
    <3> QED
      BY <2>1, <3>1, <3>2
  <2>9. SumOf(b, all)'
    BY <2>5, <2>6, <2>7, <2>8 DEF SumOf
  <2>10. all \in SUBSET (1 .. offered'[b])
    <3>1. \A k \in merged : k \in 1 .. offered[b]
      BY <1>4
    <3>2. \A k \in all : k \in 1 .. j
      BY <1>1, <1>3, <2>1, <3>1
    <3> QED
      BY <1>3, <3>2
  <2> QED
    BY <2>3, <2>9, <2>10 DEF LeaseInv
<1> QED
  BY <1>5, <1>6

\* A lease that adds up to some of the fragments adds up to those whose guards
\* it retains, when a fragment is known by its guards.
LEMMA KnownByGuards ==
  ASSUME FragmentsHaveOwnGuards, TypeOK, \A b \in Browsers : LeaseInv(b)
  PROVE  LeasesAreWhole
<1> SUFFICES ASSUME NEW b \in Browsers
    PROVE  SumOf(b, {k \in 1 .. offered[b] : Offered[b][k].guards \subseteq lease[b].guards})
  BY DEF LeasesAreWhole, SumOf
<1>1. PICK merged \in SUBSET (1 .. offered[b]) : SumOf(b, merged)
  BY DEF LeaseInv
<1>2. ASSUME NEW k \in 1 .. offered[b], Offered[b][k].guards \subseteq lease[b].guards
      PROVE  k \in merged
  <2>1. \A m \in 1 .. offered[b] : m \in 1 .. Len(Offered[b])
    BY BrowserAssumption DEF TypeOK
  <2>2. PICK guard \in Offered[b][k].guards : TRUE
    BY <2>1 DEF FragmentsHaveOwnGuards
  <2>3. PICK m \in merged : guard \in Offered[b][m].guards
    BY <1>1, <1>2, <2>2 DEF SumOf
  <2> QED
    BY <2>1, <2>2, <2>3 DEF FragmentsHaveOwnGuards
<1>3. \A k \in merged : Offered[b][k].guards \subseteq lease[b].guards
  BY <1>1 DEF SumOf
<1>4. merged = {k \in 1 .. offered[b] : Offered[b][k].guards \subseteq lease[b].guards}
  BY <1>2, <1>3
<1> QED
  BY <1>1, <1>4

-----------------------------------------------------------------------------
(* The machines *)

\* The initial states satisfy the invariant.
LEMMA InitIInv == Init => IInv
<1> SUFFICES ASSUME Init PROVE IInv
  OBVIOUS
<1>1. TypeOK
  BY BrowserAssumption
  DEF Init, TypeOK, IsLease, EmptyLease, Stages, HasDirectory, HasHelper, HasPort, HasForward,
      HasConfig, HasVmm, Leaving, VmmAlive
<1>2. ASSUME NEW b \in Browsers PROVE MachineInv(b)
  BY DEF Init, MachineInv, StageInv, HelperInv, VmmInv, HasDirectory, HasHelper, HasPort,
         HasForward, HasConfig, HasVmm, VmmAlive
<1>3. ASSUME NEW b \in Browsers PROVE LeaseInv(b)
  <2>1. SumOf(b, {})
    BY DEF Init, SumOf, EmptyLease
  <2> QED
    BY <2>1 DEF LeaseInv
<1> QED
  BY <1>1, <1>2, <1>3 DEF IInv

\* A step that takes nothing from a browser keeps what is said of its machine.
LEMMA OthersKeep ==
  ASSUME IInv, NEW c \in Browsers,
         stage'[c] = stage[c], c \in directory => c \in directory', gvproxy'[c] = gvproxy[c],
         port'[c] = port[c], c \in config => c \in config', vmm'[c] = vmm[c],
         c \in retained => c \in retained',
         \A p \in Ports : listener[p] = c => listener'[p] = c
  PROVE  MachineInv(c)'
<1>1. StageInv(c) /\ HelperInv(c) /\ VmmInv(c)
  BY DEF IInv, MachineInv
<1>2. StageInv(c)'
  BY <1>1 DEF StageInv
<1>3. stage[c] \in HasForward => port[c] \in Ports
  BY <1>1 DEF StageInv, HasPort
<1>4. HelperInv(c)'
  BY <1>1, <1>3 DEF HelperInv
<1>5. VmmInv(c)'
  BY <1>1 DEF VmmInv
<1> QED
  BY <1>2, <1>4, <1>5 DEF MachineInv

\* A step that leaves the leases alone keeps what they add up to.
LEMMA LeasesKeep ==
  ASSUME IInv, UNCHANGED <<lease, offered>>
  PROVE  \A b \in Browsers : LeaseInv(b)'
<1> TAKE b \in Browsers
<1>1. PICK merged \in SUBSET (1 .. offered[b]) : SumOf(b, merged)
  BY DEF IInv, LeaseInv
<1>2. SumOf(b, merged)'
  BY <1>1 DEF SumOf
<1> QED
  BY <1>1, <1>2 DEF LeaseInv

\* Each step of spawn, of shutdown and of the drop keeps the invariant.
LEMMA OwnerKeeps ==
  ASSUME IInv, NEW b \in Browsers, Owner(b)
  PROVE  IInv'
<1> USE DEF Stages, HasDirectory, HasHelper, HasPort, HasForward, HasConfig, HasVmm, Leaving,
            VmmAlive
<1>1. /\ TypeOK /\ StageInv(b) /\ HelperInv(b) /\ VmmInv(b)
      /\ UNCHANGED <<lease, offered, faults>>
  BY DEF IInv, MachineInv, Owner
<1>2. \A c \in Browsers : LeaseInv(c)'
  BY <1>1, LeasesKeep
<1>3. CASE Validate(b)
  <2>1. TypeOK'
    BY <1>1, <1>3 DEF TypeOK, Validate, Go
  <2>2. MachineInv(b)'
    BY <1>1, <1>3, BrowserAssumption
    DEF TypeOK, MachineInv, StageInv, HelperInv, VmmInv, Validate, Go
  <2>3. ASSUME NEW c \in Browsers, c # b PROVE MachineInv(c)'
    BY <1>1, <1>3, <2>3, OthersKeep, BrowserAssumption DEF TypeOK, Validate, Go
  <2> QED
    BY <1>2, <2>1, <2>2, <2>3 DEF IInv
<1>4. CASE MakeDirectory(b)
  <2>1. TypeOK'
    BY <1>1, <1>4 DEF TypeOK, MakeDirectory, Go, Abort, hostVars
  <2>2. MachineInv(b)'
    BY <1>1, <1>4, BrowserAssumption
    DEF TypeOK, MachineInv, StageInv, HelperInv, VmmInv, MakeDirectory, Go, Abort, hostVars
  <2>3. ASSUME NEW c \in Browsers, c # b PROVE MachineInv(c)'
    BY <1>1, <1>4, <2>3, OthersKeep, BrowserAssumption DEF TypeOK, MakeDirectory, Go, Abort, hostVars
  <2> QED
    BY <1>2, <2>1, <2>2, <2>3 DEF IInv
<1>5. CASE StartGvproxy(b)
  <2>1. TypeOK'
    BY <1>1, <1>5 DEF TypeOK, StartGvproxy, Go, Abort, hostVars
  <2>2. MachineInv(b)'
    BY <1>1, <1>5, BrowserAssumption
    DEF TypeOK, MachineInv, StageInv, HelperInv, VmmInv, StartGvproxy, Go, Abort, hostVars
  <2>3. ASSUME NEW c \in Browsers, c # b PROVE MachineInv(c)'
    BY <1>1, <1>5, <2>3, OthersKeep, BrowserAssumption DEF TypeOK, StartGvproxy, Go, Abort, hostVars
  <2> QED
    BY <1>2, <2>1, <2>2, <2>3 DEF IInv
<1>6. CASE AwaitSockets(b)
  <2>1. TypeOK'
    BY <1>1, <1>6 DEF TypeOK, AwaitSockets, Go, hostVars
  <2>2. MachineInv(b)'
    BY <1>1, <1>6, BrowserAssumption
    DEF TypeOK, MachineInv, StageInv, HelperInv, VmmInv, AwaitSockets, Go, hostVars
  <2>3. ASSUME NEW c \in Browsers, c # b PROVE MachineInv(c)'
    BY <1>1, <1>6, <2>3, OthersKeep, BrowserAssumption DEF TypeOK, AwaitSockets, Go, hostVars
  <2> QED
    BY <1>2, <2>1, <2>2, <2>3 DEF IInv
<1>7. CASE SocketTimeout(b)
  <2>1. TypeOK'
    BY <1>1, <1>7 DEF TypeOK, SocketTimeout, Go
  <2>2. MachineInv(b)'
    BY <1>1, <1>7, BrowserAssumption
    DEF TypeOK, MachineInv, StageInv, HelperInv, VmmInv, SocketTimeout, Go
  <2>3. ASSUME NEW c \in Browsers, c # b PROVE MachineInv(c)'
    BY <1>1, <1>7, <2>3, OthersKeep, BrowserAssumption DEF TypeOK, SocketTimeout, Go
  <2> QED
    BY <1>2, <2>1, <2>2, <2>3 DEF IInv
<1>8. CASE ReservePort(b)
  <2>1. TypeOK'
    <3>1. stage' \in [Browsers -> Stages]
      BY <1>1, <1>8 DEF TypeOK, ReservePort, Go, Abort
    <3>2. port' \in [Browsers -> Ports \union {None}]
      BY <1>1, <1>8 DEF TypeOK, ReservePort, Abort, hostVars
    <3>3. UNCHANGED <<directory, gvproxy, listener, config, vmm, retained>>
      BY <1>8 DEF ReservePort, Abort, hostVars
    <3> QED
      BY <1>1, <1>8, <3>1, <3>2, <3>3 DEF TypeOK, ReservePort, Go, Abort, hostVars
  <2>2. MachineInv(b)'
    BY <1>1, <1>8, BrowserAssumption
    DEF TypeOK, MachineInv, StageInv, HelperInv, VmmInv, ReservePort, Go, Abort, hostVars
  <2>3. ASSUME NEW c \in Browsers, c # b PROVE MachineInv(c)'
    BY <1>1, <1>8, <2>3, OthersKeep, BrowserAssumption DEF TypeOK, ReservePort, Go, Abort, hostVars
  <2> QED
    BY <1>2, <2>1, <2>2, <2>3 DEF IInv
<1>9. CASE ForwardTcp(b)
  <2>1. TypeOK'
    <3>1. CASE Abort(b)
      BY <1>1, <1>9, <3>1 DEF TypeOK, ForwardTcp, Go, Abort, hostVars
    <3>2. CASE /\ listener' = [listener EXCEPT ![port[b]] = b]
               /\ Go(b, "forwarded")
               /\ UNCHANGED <<directory, gvproxy, port, config, vmm, retained>>
      <4>1. stage' \in [Browsers -> Stages]
        BY <1>1, <3>2 DEF TypeOK, Go
      <4>2. listener' \in [Ports -> Browsers \union {"foreign", None}]
        BY <1>1, <3>2 DEF TypeOK
      <4> QED
        BY <1>1, <1>9, <3>2, <4>1, <4>2 DEF TypeOK, ForwardTcp
    <3> QED
      BY <1>9, <3>1, <3>2 DEF ForwardTcp
  <2>2. MachineInv(b)'
    <3>1. StageInv(b)'
      <4>1. stage[b] = "reserved" /\ stage'[b] \in {"forwarded", "dropping"}
        BY <1>1, <1>9 DEF TypeOK, ForwardTcp, Go, Abort
      <4>2. UNCHANGED <<retained, directory, gvproxy, port, config>>
        BY <1>9 DEF ForwardTcp, Abort, hostVars
      <4> QED
        BY <1>1, <4>1, <4>2 DEF MachineInv, StageInv
    <3>2. HelperInv(b)'
      <4>1. CASE Abort(b)
        BY <1>1, <1>9, <4>1 DEF TypeOK, MachineInv, HelperInv, ForwardTcp, Go, Abort, hostVars
      <4>2. CASE ~Abort(b)
        <5>1. /\ gvproxy'[b] # "starting" /\ port'[b] = port[b] /\ port[b] \in Ports
              /\ listener' = [listener EXCEPT ![port[b]] = b]
          BY <1>1, <1>9, <4>2 DEF MachineInv, StageInv, ForwardTcp
        <5>2. listener'[port'[b]] = b
          BY <1>1, <5>1 DEF TypeOK
        <5> QED
          BY <5>1, <5>2 DEF HelperInv
      <4> QED
        BY <4>1, <4>2
    <3>3. VmmInv(b)'
      BY <1>1, <1>9 DEF TypeOK, MachineInv, VmmInv, ForwardTcp, Go, Abort, hostVars
    <3> QED
      BY <3>1, <3>2, <3>3 DEF MachineInv
  <2>3. ASSUME NEW c \in Browsers, c # b PROVE MachineInv(c)'
    BY <1>1, <1>9, <2>3, OthersKeep, BrowserAssumption DEF TypeOK, ForwardTcp, Go, Abort, hostVars
  <2> QED
    BY <1>2, <2>1, <2>2, <2>3 DEF IInv
<1>10. CASE WritePrivate(b)
  <2>1. TypeOK'
    BY <1>1, <1>10 DEF TypeOK, WritePrivate, Go, Abort, hostVars
  <2>2. MachineInv(b)'
    BY <1>1, <1>10, BrowserAssumption
    DEF TypeOK, MachineInv, StageInv, HelperInv, VmmInv, WritePrivate, Go, Abort, hostVars
  <2>3. ASSUME NEW c \in Browsers, c # b PROVE MachineInv(c)'
    BY <1>1, <1>10, <2>3, OthersKeep, BrowserAssumption DEF TypeOK, WritePrivate, Go, Abort, hostVars
  <2> QED
    BY <1>2, <2>1, <2>2, <2>3 DEF IInv
<1>11. CASE SpawnVmm(b)
  <2>1. TypeOK'
    BY <1>1, <1>11 DEF TypeOK, SpawnVmm, Go, Abort, hostVars
  <2>2. MachineInv(b)'
    BY <1>1, <1>11, BrowserAssumption
    DEF TypeOK, MachineInv, StageInv, HelperInv, VmmInv, SpawnVmm, Go, Abort, hostVars
  <2>3. ASSUME NEW c \in Browsers, c # b PROVE MachineInv(c)'
    BY <1>1, <1>11, <2>3, OthersKeep, BrowserAssumption DEF TypeOK, SpawnVmm, Go, Abort, hostVars
  <2> QED
    BY <1>2, <2>1, <2>2, <2>3 DEF IInv
<1>12. CASE Poll(b)
  <2>1. TypeOK'
    BY <1>1, <1>12 DEF TypeOK, Poll, Go, Abort, hostVars
  <2>2. MachineInv(b)'
    BY <1>1, <1>12, BrowserAssumption
    DEF TypeOK, MachineInv, StageInv, HelperInv, VmmInv, Poll, Go, Abort, hostVars
  <2>3. ASSUME NEW c \in Browsers, c # b PROVE MachineInv(c)'
    BY <1>1, <1>12, <2>3, OthersKeep, BrowserAssumption DEF TypeOK, Poll, Go, Abort, hostVars
  <2> QED
    BY <1>2, <2>1, <2>2, <2>3 DEF IInv
<1>13. CASE Shutdown(b)
  <2>1. TypeOK'
    BY <1>1, <1>13 DEF TypeOK, Shutdown, Go, Abort, hostVars, Killed
  <2>2. MachineInv(b)'
    BY <1>1, <1>13, BrowserAssumption
    DEF TypeOK, MachineInv, StageInv, HelperInv, VmmInv, Shutdown, Go, Abort, hostVars, Killed
  <2>3. ASSUME NEW c \in Browsers, c # b PROVE MachineInv(c)'
    BY <1>1, <1>13, <2>3, OthersKeep, BrowserAssumption DEF TypeOK, Shutdown, Go, Abort, hostVars, Killed
  <2> QED
    BY <1>2, <2>1, <2>2, <2>3 DEF IInv
<1>14. CASE DropHandle(b)
  <2>1. TypeOK'
    BY <1>1, <1>14 DEF TypeOK, DropHandle, Go, Abort, hostVars
  <2>2. MachineInv(b)'
    BY <1>1, <1>14, BrowserAssumption
    DEF TypeOK, MachineInv, StageInv, HelperInv, VmmInv, DropHandle, Go, Abort, hostVars
  <2>3. ASSUME NEW c \in Browsers, c # b PROVE MachineInv(c)'
    BY <1>1, <1>14, <2>3, OthersKeep, BrowserAssumption DEF TypeOK, DropHandle, Go, Abort, hostVars
  <2> QED
    BY <1>2, <2>1, <2>2, <2>3 DEF IInv
<1>15. CASE Reap(b)
  <2>1. TypeOK'
    BY <1>1, <1>15 DEF TypeOK, Reap, Go, Abort, hostVars
  <2>2. MachineInv(b)'
    BY <1>1, <1>15, BrowserAssumption
    DEF TypeOK, MachineInv, StageInv, HelperInv, VmmInv, Reap, Go, Abort, hostVars
  <2>3. ASSUME NEW c \in Browsers, c # b PROVE MachineInv(c)'
    BY <1>1, <1>15, <2>3, OthersKeep, BrowserAssumption DEF TypeOK, Reap, Go, Abort, hostVars
  <2> QED
    BY <1>2, <2>1, <2>2, <2>3 DEF IInv
<1>16. CASE DropVmm(b)
  <2>1. TypeOK'
    BY <1>1, <1>16 DEF TypeOK, DropVmm, Go, Killed
  <2>2. MachineInv(b)'
    BY <1>1, <1>16, BrowserAssumption
    DEF TypeOK, MachineInv, StageInv, HelperInv, VmmInv, DropVmm, Go, Killed
  <2>3. ASSUME NEW c \in Browsers, c # b PROVE MachineInv(c)'
    BY <1>1, <1>16, <2>3, OthersKeep, BrowserAssumption DEF TypeOK, DropVmm, Go, Killed
  <2> QED
    BY <1>2, <2>1, <2>2, <2>3 DEF IInv
<1>17. CASE DropNetwork(b)
  <2>1. TypeOK'
    BY <1>1, <1>17 DEF TypeOK, DropNetwork, Go, Released
  <2>2. MachineInv(b)'
    BY <1>1, <1>17, BrowserAssumption
    DEF TypeOK, MachineInv, StageInv, HelperInv, VmmInv, DropNetwork, Go, Released
  <2>3. ASSUME NEW c \in Browsers, c # b PROVE MachineInv(c)'
    BY <1>1, <1>17, <2>3, OthersKeep, BrowserAssumption DEF TypeOK, DropNetwork, Go, Released
  <2> QED
    BY <1>2, <2>1, <2>2, <2>3 DEF IInv
<1>18. CASE DropFiles(b)
  <2>1. TypeOK'
    BY <1>1, <1>18 DEF TypeOK, DropFiles, Go
  <2>2. MachineInv(b)'
    BY <1>1, <1>18, BrowserAssumption
    DEF TypeOK, MachineInv, StageInv, HelperInv, VmmInv, DropFiles, Go
  <2>3. ASSUME NEW c \in Browsers, c # b PROVE MachineInv(c)'
    BY <1>1, <1>18, <2>3, OthersKeep, BrowserAssumption DEF TypeOK, DropFiles, Go
  <2> QED
    BY <1>2, <2>1, <2>2, <2>3 DEF IInv
<1> QED
  BY <1>3, <1>4, <1>5, <1>6, <1>7, <1>8, <1>9, <1>10, <1>11, <1>12, <1>13, <1>14, <1>15, <1>16, <1>17, <1>18 DEF Owner, Spawning, Dropping

\* Each step of a helper and of a VMM keeps the invariant.
LEMMA ProcessesKeep ==
  ASSUME IInv, NEW b \in Browsers, Processes(b)
  PROVE  IInv'
<1> USE DEF Stages, HasDirectory, HasHelper, HasPort, HasForward, HasConfig, HasVmm, Leaving,
            VmmAlive
<1>1. /\ TypeOK /\ StageInv(b) /\ HelperInv(b) /\ VmmInv(b)
      /\ UNCHANGED <<stage, lease, offered>>
  BY DEF IInv, MachineInv, Processes
<1>2. \A c \in Browsers : LeaseInv(c)'
  BY <1>1, LeasesKeep
<1>3. CASE CreateSockets(b)
  <2>1. TypeOK'
    BY <1>1, <1>3 DEF TypeOK, CreateSockets
  <2>2. MachineInv(b)'
    BY <1>1, <1>3, BrowserAssumption
    DEF TypeOK, MachineInv, StageInv, HelperInv, VmmInv, CreateSockets
  <2>3. ASSUME NEW c \in Browsers, c # b PROVE MachineInv(c)'
    BY <1>1, <1>3, <2>3, OthersKeep, BrowserAssumption DEF TypeOK, CreateSockets
  <2> QED
    BY <1>2, <2>1, <2>2, <2>3 DEF IInv
<1>4. CASE GvproxyDies(b)
  <2>1. TypeOK'
    <3>1. faults' \in Nat
      <4>1. faults \in Nat /\ faults' = faults + 1
        BY <1>1, <1>4 DEF TypeOK, GvproxyDies
      <4> QED
        BY <4>1
    <3>2. gvproxy' \in [Browsers -> {"none", "starting", "up", "exited"}]
      BY <1>1, <1>4 DEF TypeOK, GvproxyDies
    <3>3. listener' \in [Ports -> Browsers \union {"foreign", None}]
      BY <1>1, <1>4 DEF TypeOK, GvproxyDies, Released
    <3> QED
      BY <1>1, <1>4, <3>1, <3>2, <3>3 DEF TypeOK, GvproxyDies
  <2>2. MachineInv(b)'
    BY <1>1, <1>4, BrowserAssumption
    DEF TypeOK, MachineInv, StageInv, HelperInv, VmmInv, GvproxyDies, Released
  <2>3. ASSUME NEW c \in Browsers, c # b PROVE MachineInv(c)'
    BY <1>1, <1>4, <2>3, OthersKeep, BrowserAssumption DEF TypeOK, GvproxyDies, Released
  <2> QED
    BY <1>2, <2>1, <2>2, <2>3 DEF IInv
<1>5. CASE RunConfig(b)
  <2>1. TypeOK'
    BY <1>1, <1>5 DEF TypeOK, RunConfig, Vmm
  <2>2. MachineInv(b)'
    BY <1>1, <1>5, BrowserAssumption
    DEF TypeOK, MachineInv, StageInv, HelperInv, VmmInv, RunConfig, Vmm
  <2>3. ASSUME NEW c \in Browsers, c # b PROVE MachineInv(c)'
    BY <1>1, <1>5, <2>3, OthersKeep, BrowserAssumption DEF TypeOK, RunConfig, Vmm
  <2> QED
    BY <1>2, <2>1, <2>2, <2>3 DEF IInv
<1>6. CASE ReadConfig(b)
  <2>1. TypeOK'
    BY <1>1, <1>6 DEF TypeOK, ReadConfig, Vmm
  <2>2. MachineInv(b)'
    BY <1>1, <1>6, BrowserAssumption
    DEF TypeOK, MachineInv, StageInv, HelperInv, VmmInv, ReadConfig, Vmm
  <2>3. ASSUME NEW c \in Browsers, c # b PROVE MachineInv(c)'
    BY <1>1, <1>6, <2>3, OthersKeep, BrowserAssumption DEF TypeOK, ReadConfig, Vmm
  <2> QED
    BY <1>2, <2>1, <2>2, <2>3 DEF IInv
<1>7. CASE NewKrunVm(b)
  <2>1. TypeOK'
    BY <1>1, <1>7 DEF TypeOK, NewKrunVm, Vmm
  <2>2. MachineInv(b)'
    BY <1>1, <1>7, BrowserAssumption
    DEF TypeOK, MachineInv, StageInv, HelperInv, VmmInv, NewKrunVm, Vmm
  <2>3. ASSUME NEW c \in Browsers, c # b PROVE MachineInv(c)'
    BY <1>1, <1>7, <2>3, OthersKeep, BrowserAssumption DEF TypeOK, NewKrunVm, Vmm
  <2> QED
    BY <1>2, <2>1, <2>2, <2>3 DEF IInv
<1>8. CASE EnterVm(b)
  <2>1. TypeOK'
    BY <1>1, <1>8 DEF TypeOK, EnterVm, Vmm
  <2>2. MachineInv(b)'
    BY <1>1, <1>8, BrowserAssumption
    DEF TypeOK, MachineInv, StageInv, HelperInv, VmmInv, EnterVm, Vmm
  <2>3. ASSUME NEW c \in Browsers, c # b PROVE MachineInv(c)'
    BY <1>1, <1>8, <2>3, OthersKeep, BrowserAssumption DEF TypeOK, EnterVm, Vmm
  <2> QED
    BY <1>2, <2>1, <2>2, <2>3 DEF IInv
<1>9. CASE Serve(b)
  <2>1. TypeOK'
    BY <1>1, <1>9 DEF TypeOK, Serve, Vmm
  <2>2. MachineInv(b)'
    BY <1>1, <1>9, BrowserAssumption
    DEF TypeOK, MachineInv, StageInv, HelperInv, VmmInv, Serve, Vmm
  <2>3. ASSUME NEW c \in Browsers, c # b PROVE MachineInv(c)'
    BY <1>1, <1>9, <2>3, OthersKeep, BrowserAssumption DEF TypeOK, Serve, Vmm
  <2> QED
    BY <1>2, <2>1, <2>2, <2>3 DEF IInv
<1>10. CASE VmmDies(b)
  <2>1. TypeOK'
    <3>1. faults' \in Nat
      <4>1. faults \in Nat /\ faults' = faults + 1
        BY <1>1, <1>10 DEF TypeOK, VmmDies
      <4> QED
        BY <4>1
    <3>2. vmm' \in [Browsers -> VmmAlive \union {"none", "killed", "exited"}]
      BY <1>1, <1>10 DEF TypeOK, VmmDies
    <3> QED
      BY <1>1, <1>10, <3>1, <3>2 DEF TypeOK, VmmDies
  <2>2. MachineInv(b)'
    BY <1>1, <1>10, BrowserAssumption
    DEF TypeOK, MachineInv, StageInv, HelperInv, VmmInv, VmmDies
  <2>3. ASSUME NEW c \in Browsers, c # b PROVE MachineInv(c)'
    BY <1>1, <1>10, <2>3, OthersKeep, BrowserAssumption DEF TypeOK, VmmDies
  <2> QED
    BY <1>2, <2>1, <2>2, <2>3 DEF IInv
<1>11. CASE KilledVmmDies(b)
  <2>1. TypeOK'
    BY <1>1, <1>11 DEF TypeOK, KilledVmmDies, Vmm
  <2>2. MachineInv(b)'
    BY <1>1, <1>11, BrowserAssumption
    DEF TypeOK, MachineInv, StageInv, HelperInv, VmmInv, KilledVmmDies, Vmm
  <2>3. ASSUME NEW c \in Browsers, c # b PROVE MachineInv(c)'
    BY <1>1, <1>11, <2>3, OthersKeep, BrowserAssumption DEF TypeOK, KilledVmmDies, Vmm
  <2> QED
    BY <1>2, <2>1, <2>2, <2>3 DEF IInv
<1> QED
  BY <1>3, <1>4, <1>5, <1>6, <1>7, <1>8, <1>9, <1>10, <1>11 DEF Processes

\* Another program takes a port nobody listens on, or gives its own back.
LEMMA ForeignKeeps ==
  ASSUME IInv, NEW p \in Ports, ForeignBinds(p)
  PROVE  IInv'
<1>1. TypeOK'
  BY DEF IInv, TypeOK, ForeignBinds
<1>2. ASSUME NEW c \in Browsers PROVE MachineInv(c)'
  BY OthersKeep, BrowserAssumption DEF IInv, TypeOK, ForeignBinds
<1>3. \A c \in Browsers : LeaseInv(c)'
  BY LeasesKeep DEF ForeignBinds
<1> QED
  BY <1>1, <1>2, <1>3 DEF IInv

\* A provider offers one more fragment.
LEMMA ProvisionKeeps ==
  ASSUME IInv, NEW b \in Browsers, Provision(b)
  PROVE  IInv'
<1>1. LeaseInv(b)' /\ IsLease(lease'[b])
  BY MergeAddsUp DEF IInv
<1>2. /\ lease' = [lease EXCEPT ![b] = lease'[b]]
      /\ \A c \in Browsers : c # b => lease'[c] = lease[c] /\ offered'[c] = offered[c]
  BY DEF IInv, TypeOK, Provision
<1>3. TypeOK'
  <2>1. lease' = [c \in Browsers |-> lease'[c]] /\ \A c \in Browsers : IsLease(lease'[c])
    BY <1>1, <1>2 DEF IInv, TypeOK
  <2>2. offered' \in [Browsers -> Nat] /\ \A c \in Browsers : offered'[c] <= Len(Offered[c])
    BY BrowserAssumption DEF IInv, TypeOK, Provision
  <2> QED
    BY <2>1, <2>2 DEF IInv, TypeOK, Provision, hostVars
<1>4. ASSUME NEW c \in Browsers PROVE MachineInv(c)'
  BY OthersKeep DEF Provision, hostVars
<1>5. ASSUME NEW c \in Browsers PROVE LeaseInv(c)'
  BY <1>1, <1>2 DEF IInv, LeaseInv, SumOf
<1> QED
  BY <1>3, <1>4, <1>5 DEF IInv

\* A stuttering step.
LEMMA StutterKeeps == ASSUME IInv, UNCHANGED vars PROVE IInv'
<1>1. TypeOK'
  BY DEF IInv, TypeOK, vars, hostVars
<1>2. ASSUME NEW c \in Browsers PROVE MachineInv(c)'
  BY OthersKeep DEF vars, hostVars
<1> QED
  BY <1>1, <1>2, LeasesKeep DEF IInv, vars

\* The invariant holds in every reachable state.
LEMMA Invariant == Spec => []IInv
<1>1. ASSUME IInv, [Next]_vars PROVE IInv'
  BY <1>1, OwnerKeeps, ProcessesKeep, ProvisionKeeps, ForeignKeeps, StutterKeeps DEF Next
<1> QED
  BY <1>1, InitIInv, PTL DEF Spec

-----------------------------------------------------------------------------
\* Every variable keeps its type: in particular a port is reserved only among
\* the host's and each port has one listener.
THEOREM Typing == Spec => []TypeOK
<1>1. IInv => TypeOK
  BY DEF IInv
<1> QED
  BY <1>1, Invariant, PTL

\* BrowserVm::endpoint: the forwarded port of a browser that was spawned leads
\* to its own helper as long as that lives, whoever raced it for the port
\* between the reservation and the forward.
THEOREM EndpointBelongs == Spec => []EndpointIsOwn
<1>1. IInv => EndpointIsOwn
  BY DEF IInv, MachineInv, HelperInv, EndpointIsOwn, HasForward, HasConfig, HasVmm
<1> QED
  BY <1>1, Invariant, PTL

\* BrowserVmBuilder::spawn and the drop of its handle: from main to Chromium a
\* VMM that nobody has killed has its directory, its lease's guards, its helper
\* and, until it was read, its configuration.
THEOREM HostOutlivesVmm == Spec => []RunningVmmKeepsItsHost
<1>1. IInv => RunningVmmKeepsItsHost
  BY DEF IInv, MachineInv, StageInv, VmmInv, RunningVmmKeepsItsHost
<1> QED
  BY <1>1, Invariant, PTL

\* EgressLease::merge: whatever fragments conflict, a lease is always the sum
\* of whole fragments, environment, mounts and guards; a fragment known by its
\* guards is in it exactly if the lease retains them.
THEOREM MergeIsAllOrNothing ==
  /\ Spec => [](\A b \in Browsers : LeaseInv(b))
  /\ FragmentsHaveOwnGuards => (Spec => []LeasesAreWhole)
<1>1. IInv => \A b \in Browsers : LeaseInv(b)
  BY DEF IInv
<1>2. ASSUME FragmentsHaveOwnGuards PROVE IInv => LeasesAreWhole
  BY <1>2, KnownByGuards DEF IInv
<1>3. FragmentsHaveOwnGuards => (Spec => []LeasesAreWhole)
  <2> SUFFICES ASSUME FragmentsHaveOwnGuards PROVE Spec => []LeasesAreWhole
    OBVIOUS
  <2>1. IInv => LeasesAreWhole
    BY <1>2
  <2> QED
    BY <2>1, Invariant, PTL
<1>4. Spec => [](\A b \in Browsers : LeaseInv(b))
  BY <1>1, Invariant, PTL
<1> QED
  BY <1>3, <1>4
=============================================================================

------------------------------ MODULE BrowserVm ------------------------------
(***************************************************************************)
(* Browser machines of one host (crates/nanovm-browser/src/lib.rs): each   *)
(* owns a temporary directory with its root disk, a gvproxy process        *)
(* (crates/nanovm/src/gvproxy.rs), a forwarded loopback port, a private    *)
(* configuration file (process.rs), a VMM process (bin/nanoeval/src/       *)
(* main.rs, krun.rs) and the guards of its egress lease.                   *)
(***************************************************************************)
EXTENDS EgressLease, Naturals, Sequences

CONSTANTS
  Browsers,   \* the browsers an application spawns
  Ports,      \* the loopback ports of the host
  Offered,    \* the egress fragments provisioned for each browser, in order
  MaxFaults,  \* bound: processes that die by themselves
  None

ASSUME BrowserAssumption ==
  /\ IsFiniteSet(Browsers) /\ Ports # {}
  /\ MaxFaults \in Nat
  /\ \A b \in Browsers : Len(Offered[b]) \in Nat
  /\ None \notin Browsers \union Ports
  /\ "foreign" \notin Browsers

VARIABLES
  stage,      \* where BrowserVmBuilder::spawn or the handle of the browser stands
  lease,      \* its EgressLease
  offered,    \* fragments its provider has tried to merge
  directory,  \* browsers whose temporary directory exists
  gvproxy,    \* the network helper's process
  port,       \* the loopback port spawn has reserved
  listener,   \* who listens on each port: a browser's gvproxy, "foreign", None
  config,     \* browsers whose private configuration file exists
  vmm,        \* the VMM's process
  retained,   \* browsers whose lease guards are alive
  faults

hostVars == <<directory, gvproxy, port, listener, config, vmm, retained>>
vars == <<stage, lease, offered, hostVars, faults>>

(***************************************************************************)
(* The processes.                                                          *)
(* gvproxy  none, starting, up (both sockets exist), exited                *)
(* vmm      none, spawned (in main), loading (the file of run-config),     *)
(*          configuring (KrunVm::new), entering (KrunVm::run), running,    *)
(*          serving (Chromium answers), killed (SIGKILL is on its way),    *)
(*          exited                                                         *)
(***************************************************************************)
VmmAlive == {"spawned", "loading", "configuring", "entering", "running", "serving"}

Init ==
  /\ stage = [b \in Browsers |-> "building"]
  /\ lease = [b \in Browsers |-> EmptyLease("internet")]
  /\ offered = [b \in Browsers |-> 0]
  /\ directory = {}
  /\ gvproxy = [b \in Browsers |-> "none"]
  /\ port = [b \in Browsers |-> None]
  /\ listener = [p \in Ports |-> None]
  /\ config = {}
  /\ vmm = [b \in Browsers |-> "none"]
  /\ retained = {}
  /\ faults = 0

Go(b, next) == stage' = [stage EXCEPT ![b] = next]

\* Every `?` of spawn drops what it has so far.
Abort(b) == Go(b, "dropping") /\ UNCHANGED hostVars

-----------------------------------------------------------------------------
(* EgressLease::merge and BrowserVmBuilder::spawn *)

Provision(b) ==
  /\ stage[b] = "building"
  /\ offered[b] < Len(Offered[b])
  /\ offered' = [offered EXCEPT ![b] = @ + 1]
  /\ lease' = [lease EXCEPT ![b] = Merge(@, Offered[b][offered'[b]])]
  /\ UNCHANGED <<stage, hostVars, faults>>

\* The lease must ask for internet access; a mount's provider has its guard.
\* Files, sizes and paths the caller got wrong end spawn here as well.
Validate(b) ==
  /\ stage[b] = "building"
  /\ retained' = retained \union {b}
  /\ \/ lease[b].network = "internet" /\ Go(b, "validated")
     \/ Go(b, "dropping")
  /\ UNCHANGED <<directory, gvproxy, port, listener, config, vmm>>

MakeDirectory(b) ==
  /\ stage[b] = "validated"
  /\ \/ /\ directory' = directory \union {b}
        /\ Go(b, "directory") \/ Go(b, "dropping")
        /\ UNCHANGED <<gvproxy, port, listener, config, vmm, retained>>
     \/ Abort(b)

StartGvproxy(b) ==
  /\ stage[b] = "directory"
  /\ \/ /\ gvproxy' = [gvproxy EXCEPT ![b] = "starting"]
        /\ Go(b, "starting")
        /\ UNCHANGED <<directory, port, listener, config, vmm, retained>>
     \/ Abort(b)

\* Fault: nobody owns a helper that is too slow.
SocketTimeoutLeaking(b) ==
  /\ stage[b] = "starting" /\ gvproxy[b] = "starting"
  /\ Go(b, "abandoned")
  /\ UNCHANGED hostVars

\* The helper is killed and reaped before the error is returned.
SocketTimeout(b) ==
  /\ stage[b] = "starting" /\ gvproxy[b] = "starting"
  /\ gvproxy' = [gvproxy EXCEPT ![b] = "none"]
  /\ Go(b, "dropping")
  /\ UNCHANGED <<directory, port, listener, config, vmm, retained>>

AwaitSockets(b) ==
  /\ stage[b] = "starting"
  /\ \/ gvproxy[b] = "up" /\ Go(b, "networked") /\ UNCHANGED hostVars
     \/ /\ gvproxy[b] = "exited"
        /\ gvproxy' = [gvproxy EXCEPT ![b] = "none"]
        /\ Go(b, "dropping")
        /\ UNCHANGED <<directory, port, listener, config, vmm, retained>>

\* Binding port zero and closing the listener again reserves nothing.
ReservePort(b) ==
  /\ stage[b] = "networked"
  /\ \/ \E p \in Ports :
          /\ listener[p] = None
          /\ port' = [port EXCEPT ![b] = p]
          /\ Go(b, "reserved")
          /\ UNCHANGED <<directory, gvproxy, listener, config, vmm, retained>>
     \/ (\A p \in Ports : listener[p] # None) /\ Abort(b)

\* Fault: the answer of the services API is not looked at.
ForwardUnanswered(b) ==
  /\ stage[b] = "reserved"
  /\ listener' = IF gvproxy[b] = "up" /\ listener[port[b]] = None
                 THEN [listener EXCEPT ![port[b]] = b] ELSE listener
  /\ Go(b, "forwarded")
  /\ UNCHANGED <<directory, gvproxy, port, config, vmm, retained>>

\* services_request: the helper may be gone, the port may be taken by now.
ForwardTcp(b) ==
  /\ stage[b] = "reserved"
  /\ \/ /\ gvproxy[b] = "up" /\ listener[port[b]] = None
        /\ listener' = [listener EXCEPT ![port[b]] = b]
        /\ Go(b, "forwarded")
        /\ UNCHANGED <<directory, gvproxy, port, config, vmm, retained>>
     \/ Abort(b)

WritePrivate(b) ==
  /\ stage[b] = "forwarded"
  /\ \/ /\ config' = config \union {b}
        /\ Go(b, "configured")
        /\ UNCHANGED <<directory, gvproxy, port, listener, vmm, retained>>
     \/ Abort(b)

SpawnVmm(b) ==
  /\ stage[b] = "configured"
  /\ \/ /\ vmm' = [vmm EXCEPT ![b] = "spawned"]
        /\ Go(b, "polling")
        /\ UNCHANGED <<directory, gvproxy, port, listener, config, retained>>
     \/ Abort(b)

\* Who answers GET /json/version on the forwarded port.
Answers(b) ==
  \E other \in Browsers :
    listener[port[b]] = other /\ gvproxy[other] = "up" /\ vmm[other] = "serving"

\* wait_until_ready: an exited VMM, a timeout, an answer that is no CDP
\* metadata, or the caller dropping the future end the browser.
Poll(b) ==
  /\ stage[b] = "polling"
  /\ \/ vmm[b] # "exited" /\ Answers(b) /\ Go(b, "ready") /\ UNCHANGED hostVars
     \/ Abort(b)

-----------------------------------------------------------------------------
(* BrowserVm::shutdown and Drop.  The fields of BrowserVm are dropped in    *)
(* the order of their declaration, after Drop::drop.                        *)

Killed(b) == [vmm EXCEPT ![b] = IF @ \in VmmAlive THEN "killed" ELSE @]

Shutdown(b) ==
  /\ stage[b] = "ready"
  /\ IF vmm[b] = "exited" THEN Abort(b)
     ELSE /\ vmm' = Killed(b)
          /\ Go(b, "reaping")
          /\ UNCHANGED <<directory, gvproxy, port, listener, config, retained>>

\* child.wait under SHUTDOWN_TIMEOUT
Reap(b) == stage[b] = "reaping" /\ Abort(b)

DropHandle(b) == stage[b] = "ready" /\ Abort(b)

\* Fault: the files go before the VMM.
DropFilesFirst(b) ==
  /\ stage[b] = "dropping"
  /\ config' = config \ {b} /\ directory' = directory \ {b} /\ retained' = retained \ {b}
  /\ Go(b, "dropping")
  /\ UNCHANGED <<gvproxy, port, listener, vmm>>

\* start_kill, and kill_on_drop of the child; nobody waits for the process.
DropVmm(b) ==
  /\ stage[b] = "dropping"
  /\ vmm' = Killed(b)
  /\ Go(b, "dropping network")
  /\ UNCHANGED <<directory, gvproxy, port, listener, config, retained>>

Released(b) == [p \in Ports |-> IF listener[p] = b THEN None ELSE listener[p]]

\* Gvproxy's Drop kills and reaps.
DropNetwork(b) ==
  /\ stage[b] = "dropping network"
  /\ gvproxy' = [gvproxy EXCEPT ![b] = "none"]
  /\ listener' = Released(b)
  /\ Go(b, "dropping files")
  /\ UNCHANGED <<directory, port, config, vmm, retained>>

DropFiles(b) ==
  /\ stage[b] = "dropping files"
  /\ retained' = retained \ {b}
  /\ config' = config \ {b}
  /\ directory' = directory \ {b}
  /\ Go(b, "ended")
  /\ UNCHANGED <<gvproxy, port, listener, vmm>>

-----------------------------------------------------------------------------
(* The helper, the VMM and the rest of the host *)

CreateSockets(b) ==
  /\ gvproxy[b] = "starting"
  /\ gvproxy' = [gvproxy EXCEPT ![b] = "up"]
  /\ UNCHANGED <<directory, port, listener, config, vmm, retained, faults>>

GvproxyDies(b) ==
  /\ gvproxy[b] \in {"starting", "up"}
  /\ faults < MaxFaults
  /\ faults' = faults + 1
  /\ gvproxy' = [gvproxy EXCEPT ![b] = "exited"]
  /\ listener' = Released(b)
  /\ UNCHANGED <<directory, port, config, vmm, retained>>

Vmm(b, from, to) ==
  /\ vmm[b] = from
  /\ vmm' = [vmm EXCEPT ![b] = to]
  /\ UNCHANGED <<directory, gvproxy, port, listener, config, retained, faults>>

\* main: `vm run-config` never starts the asynchronous runtime.
RunConfig(b) == Vmm(b, "spawned", "loading")

\* VmProcessConfig::read
ReadConfig(b) == Vmm(b, "loading", IF b \in config THEN "configuring" ELSE "exited")

\* canonicalize of the root disk, in the browser's directory
RootResolves(b) == b \in directory

\* canonicalize of the gvproxy socket, in the browser's directory
NetworkResolves(b) == b \in directory

\* A shared directory is there as long as its provider.
SharesResolve(b) == lease[b].mounts # {} => b \in retained

\* KrunVm::new: every path is resolved before the machine is entered.
NewKrunVm(b) ==
  Vmm(b, "configuring",
      IF RootResolves(b) /\ SharesResolve(b) /\ NetworkResolves(b) THEN "entering" ELSE "exited")

EnterVm(b) == Vmm(b, "entering", "running")

\* Chromium is up and gvproxy relays to it.
Serve(b) == gvproxy[b] = "up" /\ Vmm(b, "running", "serving")

VmmDies(b) ==
  /\ vmm[b] \in VmmAlive
  /\ faults < MaxFaults
  /\ faults' = faults + 1
  /\ vmm' = [vmm EXCEPT ![b] = "exited"]
  /\ UNCHANGED <<directory, gvproxy, port, listener, config, retained>>

KilledVmmDies(b) == Vmm(b, "killed", "exited")

\* Another program takes a port, or gives it back.
ForeignBinds(p) ==
  /\ listener[p] \in {None, "foreign"}
  /\ listener' = [listener EXCEPT ![p] = IF @ = None THEN "foreign" ELSE None]
  /\ UNCHANGED <<stage, lease, offered, directory, gvproxy, port, config, vmm, retained, faults>>

-----------------------------------------------------------------------------
Spawning(b) ==
  \/ MakeDirectory(b)
  \/ StartGvproxy(b)
  \/ AwaitSockets(b)
  \/ SocketTimeout(b)
  \/ ReservePort(b)
  \/ ForwardTcp(b)
  \/ WritePrivate(b)
  \/ SpawnVmm(b)
  \/ Poll(b)

Dropping(b) == Reap(b) \/ DropVmm(b) \/ DropNetwork(b) \/ DropFiles(b)

Owner(b) ==
  /\ Validate(b) \/ Spawning(b) \/ Shutdown(b) \/ DropHandle(b) \/ Dropping(b)
  /\ UNCHANGED <<lease, offered, faults>>

Processes(b) ==
  /\ \/ CreateSockets(b) \/ GvproxyDies(b)
     \/ RunConfig(b) \/ ReadConfig(b) \/ NewKrunVm(b) \/ EnterVm(b) \/ Serve(b)
     \/ VmmDies(b) \/ KilledVmmDies(b)
  /\ UNCHANGED <<stage, lease, offered>>

Next ==
  \/ \E b \in Browsers : Provision(b) \/ Owner(b) \/ Processes(b)
  \/ \E p \in Ports : ForeignBinds(p)

Spec == Init /\ [][Next]_vars

\* spawn goes on once it has begun (its waits have deadlines) and a drop is
\* synchronous; the kernel delivers SIGKILL.  Nobody has to spawn or shut down.
FairSpec ==
  /\ Spec
  /\ \A b \in Browsers :
       /\ WF_vars((Spawning(b) \/ Dropping(b)) /\ UNCHANGED <<lease, offered, faults>>)
       /\ WF_vars(KilledVmmDies(b) /\ UNCHANGED <<stage, lease, offered>>)

-----------------------------------------------------------------------------
Gone(b) ==
  /\ b \notin directory \union config \union retained
  /\ gvproxy[b] = "none"
  /\ vmm[b] \in {"none", "exited"}
  /\ \A p \in Ports : listener[p] # b

\* "A failed start terminates its VMM and network helper before returning"
\* (nanovm-browser/src/lib.rs:209): whichever step of spawn fails, is timed out
\* or dropped, and whenever the handle goes, nothing of the browser remains.  It
\* may go only after spawn has returned: nobody waits for the killed VMM.
NothingLeftBehind ==
  \A b \in Browsers : (stage[b] \notin {"building", "ready"}) ~> (stage[b] = "ready" \/ Gone(b))

\* "Returns the private loopback WebSocket endpoint for this browser"
\* (nanovm-browser/src/lib.rs:332): though its port was free to take between
\* the reservation and the forward, it leads to this browser's own helper, as
\* long as that lives.
EndpointIsOwn ==
  \A b \in Browsers :
    (stage[b] = "ready" /\ gvproxy[b] = "up") => listener[port[b]] = b

\* A VMM that has not been sent SIGKILL has what its machine runs on: its
\* disks, the configuration it has yet to read, its helper's process and the
\* provider behind its mounts and its proxy.
RunningVmmKeepsItsHost ==
  \A b \in Browsers :
    vmm[b] \in VmmAlive =>
      /\ b \in directory \intersect retained
      /\ gvproxy[b] # "none"
      /\ vmm[b] \in {"spawned", "loading"} => b \in config

\* "Conflicting configuration fails closed" (egress.rs:118): a lease holds a
\* fragment's environment and mounts exactly if it retains its guards, so no
\* guest has half of a provider's configuration or one that may be revoked.
LeasesAreWhole ==
  \A b \in Browsers :
    LET merged == {k \in 1 .. offered[b] : Offered[b][k].guards \subseteq lease[b].guards}
    IN  /\ DOMAIN lease[b].environment = UNION {DOMAIN Offered[b][k].environment : k \in merged}
        /\ lease[b].mounts = UNION {Offered[b][k].mounts : k \in merged}
        /\ \A k \in merged : \A name \in DOMAIN Offered[b][k].environment :
             lease[b].environment[name] = Offered[b][k].environment[name]
=============================================================================

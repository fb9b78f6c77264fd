----------------------------- MODULE EgressLease -----------------------------
(***************************************************************************)
(* EgressLease (crates/nanovm/src/egress.rs): the outbound access of one   *)
(* guest, put together from independently provisioned fragments.  An       *)
(* environment is a function, a mount a record [tag, host, guest], a guard *)
(* a value that keeps the fragment's provider alive.                       *)
(***************************************************************************)
EXTENDS FiniteSets

EmptyLease(network) ==
  [network |-> network, environment |-> [name \in {} |-> ""], mounts |-> {}, guards |-> {}]

\* insert_environment: the name is valid and has no other value yet.
InsertEnvironment(lease, name, value) ==
  name # "" /\ (name \in DOMAIN lease.environment => lease.environment[name] = value)

\* insert_mount: the tag is there and neither it nor the guest path is taken by
\* another mount.
InsertMount(lease, mount) ==
  /\ mount.tag # ""
  /\ \A current \in lease.mounts :
       current.tag = mount.tag \/ current.guest = mount.guest => current = mount

Compatible(lease, other) ==
  /\ lease.network = other.network
  /\ \A name \in DOMAIN other.environment : InsertEnvironment(lease, name, other.environment[name])
  /\ \A mount \in other.mounts : InsertMount(lease, mount)

Combined(lease, other) ==
  [lease EXCEPT
    !.environment = [name \in DOMAIN @ \union DOMAIN other.environment |->
                       IF name \in DOMAIN @ THEN @[name] ELSE other.environment[name]],
    !.mounts = @ \union other.mounts,
    !.guards = @ \union other.guards]

\* Fault: what fits is inserted before a conflict is found.
MergeInPlace(lease, other) ==
  IF lease.network # other.network THEN lease
  ELSE IF Compatible(lease, other) THEN Combined(lease, other)
  ELSE Combined(lease, [other EXCEPT !.mounts = {}, !.guards = {}])

\* merge works on a clone: a conflict leaves the lease as it was.
Merge(lease, other) ==
  IF Compatible(lease, other) THEN Combined(lease, other) ELSE lease
=============================================================================

------------------------------ MODULE VmSession ------------------------------
(***************************************************************************)
(* VmToolSession of crates/nanocodex-vm/src/session.rs: several callers    *)
(* share the console of one guest.  A caller holds the session's mutex     *)
(* while it writes one line and reads until the line that answers it; a    *)
(* caller may be dropped at any await, and the next one then finds what it *)
(* left in either direction of the console.                                *)
(***************************************************************************)
EXTENDS Integers, FiniteSets, SequencesExt

CONSTANTS
  Callers,   \* tasks that share the session
  MaxCalls,  \* bound: requests ever numbered (next_id does not wrap)
  None

ASSUME SessionAssumption ==
  /\ IsFiniteSet(Callers)
  /\ MaxCalls \in Nat
  /\ None \notin Callers /\ None \notin Nat

Kinds == {"work", "shutdown"}

VARIABLES
  pc,        \* where each caller stands in its call
  kind,      \* what the caller asks for
  id,        \* the id of its request
  outcome,   \* what its latest call returned
  holder,    \* who holds the session mutex, or None
  next_id,   \* SessionState::next_id
  input,     \* the guest's stdin: pieces of lines, oldest first
  guest,     \* the guest's loop
  executed,  \* ids of the requests the guest has carried out, in order
  output     \* the guest's stdout: responses not read yet, oldest first

callVars == <<pc, kind, id, outcome>>
vars == <<callVars, holder, next_id, input, guest, executed, output>>

(***************************************************************************)
(* idle      between calls                                                 *)
(* queued    state.lock().await                                            *)
(* begun     the id is taken, nothing is written                           *)
(* writing   the text of the request is in the pipe, its newline is not    *)
(* reading   read_response                                                 *)
(* relock    shutdown was acknowledged, state.lock().await again           *)
(* waiting   child.wait() under SHUTDOWN_TIMEOUT                           *)
(***************************************************************************)
Step == {"idle", "queued", "begun", "writing", "reading", "relock", "waiting"}

Alive == guest \in {"reading", "serving"}

Init ==
  /\ pc = [c \in Callers |-> "idle"]
  /\ kind = [c \in Callers |-> "work"]
  /\ id = [c \in Callers |-> None]
  /\ outcome = [c \in Callers |-> "none"]
  /\ holder = None
  /\ next_id = 0
  /\ input = <<>>
  /\ guest = "reading"
  /\ executed = <<>>
  /\ output = <<>>

-----------------------------------------------------------------------------
(* A call: request_inner, control_request, read_response, shutdown *)

Call(c, what) ==
  /\ pc[c] = "idle"
  /\ next_id + Cardinality({d \in Callers : pc[d] = "queued"}) < MaxCalls
  /\ pc' = [pc EXCEPT ![c] = "queued"]
  /\ kind' = [kind EXCEPT ![c] = what]
  /\ outcome' = [outcome EXCEPT ![c] = "none"]
  /\ UNCHANGED <<id, holder, next_id, input, guest, executed, output>>

Lock(c) ==
  /\ holder = None
  /\ holder' = c
  /\ \/ /\ pc[c] = "queued"
        /\ pc' = [pc EXCEPT ![c] = "begun"]
        /\ id' = [id EXCEPT ![c] = next_id]
        /\ next_id' = next_id + 1
     \/ /\ pc[c] = "relock"
        /\ pc' = [pc EXCEPT ![c] = "waiting"]
        /\ UNCHANGED <<id, next_id>>
  /\ UNCHANGED <<kind, outcome, input, guest, executed, output>>

\* The call returns; the guard of the mutex goes out of scope.
Return(c, result) ==
  /\ pc' = [pc EXCEPT ![c] = "idle"]
  /\ id' = [id EXCEPT ![c] = None]
  /\ outcome' = [outcome EXCEPT ![c] = result]
  /\ holder' = IF holder = c THEN None ELSE holder
  /\ UNCHANGED kind

\* Fault: the mutex guards the write and not the read.
WriteAndUnlock(c) ==
  /\ pc[c] \in {"begun", "writing"}
  /\ input' = Append(input, [id |-> id[c], kind |-> kind[c],
                             part |-> IF pc[c] = "begun" THEN "text" ELSE "newline"])
  /\ pc' = [pc EXCEPT ![c] = IF pc[c] = "begun" THEN "writing" ELSE "reading"]
  /\ holder' = IF pc[c] = "writing" THEN None ELSE holder
  /\ UNCHANGED <<kind, id, outcome, next_id, guest, executed, output>>

\* write_all of the text and write_all of the newline; once the guest is gone
\* they may fail.
Write(c) ==
  /\ pc[c] \in {"begun", "writing"}
  /\ \/ /\ input' = Append(input, [id |-> id[c], kind |-> kind[c],
                                   part |-> IF pc[c] = "begun" THEN "text" ELSE "newline"])
        /\ pc' = [pc EXCEPT ![c] = IF pc[c] = "begun" THEN "writing" ELSE "reading"]
        /\ UNCHANGED <<kind, id, outcome, holder>>
     \/ /\ ~Alive
        /\ Return(c, "io")
        /\ UNCHANGED input
  /\ UNCHANGED <<next_id, guest, executed, output>>

\* One line of read_response: an answer to an earlier request is discarded.
ReadLine(c) ==
  /\ pc[c] = "reading"
  /\ output # <<>>
  /\ output' = Tail(output)
  /\ LET response == Head(output)
     IN  \/ /\ response.id < id[c]
            /\ UNCHANGED <<callVars, holder>>
         \/ /\ response.id > id[c]
            /\ Return(c, "mismatch")
         \/ /\ response.id = id[c] /\ (kind[c] = "work" \/ ~response.ok)
            /\ Return(c, IF response.ok THEN "ok" ELSE "guest")
         \/ /\ response.id = id[c] /\ kind[c] = "shutdown" /\ response.ok
            /\ pc' = [pc EXCEPT ![c] = "relock"]
            /\ holder' = None
            /\ UNCHANGED <<kind, id, outcome>>
  /\ UNCHANGED <<next_id, input, guest, executed>>

\* next_line returns None
ReadClosed(c) ==
  /\ pc[c] = "reading"
  /\ output = <<>> /\ ~Alive
  /\ Return(c, "closed")
  /\ UNCHANGED <<next_id, input, guest, executed, output>>

\* The VMM exits with its guest, or does not do so in time or cleanly.
WaitExit(c) ==
  /\ pc[c] = "waiting"
  /\ \E result \in {"ok", "exit"} : Return(c, result)
  /\ UNCHANGED <<next_id, input, guest, executed, output>>

\* Fault: a dropped call gives its number back.
CancelReusingId(c) ==
  /\ pc[c] # "idle"
  /\ Return(c, "cancelled")
  /\ next_id' = next_id - 1
  /\ UNCHANGED <<input, guest, executed, output>>

\* Fault: a dropped call leaves the session locked.
CancelKeepingLock(c) ==
  /\ pc[c] # "idle"
  /\ pc' = [pc EXCEPT ![c] = "idle"]
  /\ id' = [id EXCEPT ![c] = None]
  /\ outcome' = [outcome EXCEPT ![c] = "cancelled"]
  /\ UNCHANGED <<kind, holder, next_id, input, guest, executed, output>>

\* The future of the call is dropped at an await.
Cancel(c) ==
  /\ pc[c] # "idle"
  /\ Return(c, "cancelled")
  /\ UNCHANGED <<next_id, input, guest, executed, output>>

-----------------------------------------------------------------------------
(* serve_guest *)

Newlines == {i \in DOMAIN input : input[i].part = "newline"}

\* One line, and the request in it if it parses: the text of one request.
GuestRead ==
  /\ guest = "reading"
  /\ Newlines # {}
  /\ guest' = IF Min(Newlines) = 2 THEN "serving" ELSE "malformed"
  /\ input' = IF Min(Newlines) = 2 THEN input ELSE SubSeq(input, Min(Newlines) + 1, Len(input))
  /\ UNCHANGED <<callVars, holder, next_id, executed, output>>

\* Fault: the guest goes on serving after a shutdown.
GuestServeForEver(ok) ==
  /\ guest = "serving"
  /\ LET request == Head(input)
     IN  /\ executed' = Append(executed, request.id)
         /\ output' = Append(output, [id |-> request.id, ok |-> ok])
  /\ guest' = "reading"
  /\ input' = SubSeq(input, 3, Len(input))
  /\ UNCHANGED <<callVars, holder, next_id>>

\* The request is carried out and answered; a shutdown whose sync succeeded
\* ends the loop.
GuestServe(ok) ==
  /\ guest = "serving"
  /\ LET request == Head(input)
     IN  /\ executed' = Append(executed, request.id)
         /\ output' = Append(output, [id |-> request.id, ok |-> ok])
         /\ guest' = IF request.kind = "shutdown" /\ ok THEN "exited" ELSE "reading"
  /\ input' = SubSeq(input, 3, Len(input))
  /\ UNCHANGED <<callVars, holder, next_id>>

\* The virtual machine stops by itself.
GuestDies ==
  /\ Alive
  /\ guest' = "died"
  /\ UNCHANGED <<callVars, holder, next_id, input, executed, output>>

-----------------------------------------------------------------------------
Guest == GuestRead \/ \E ok \in BOOLEAN : GuestServe(ok)

Proceed(c) == Lock(c) \/ Write(c) \/ ReadLine(c) \/ ReadClosed(c) \/ WaitExit(c)

Next ==
  \/ \E c \in Callers : Proceed(c) \/ Cancel(c) \/ \E what \in Kinds : Call(c, what)
  \/ Guest
  \/ GuestDies

Spec == Init /\ [][Next]_vars

\* The mutex is fair and its holder is polled; every guest request ends (tool
\* calls and commands run under timeouts).
FairSpec ==
  Spec /\ WF_vars(Guest) /\ \A c \in Callers : WF_vars(Proceed(c)) /\ SF_vars(Lock(c))

-----------------------------------------------------------------------------
\* The guest carries out requests at most once and in the order of their ids,
\* those of dropped callers included.
ExecutedInOrder ==
  \A i, j \in DOMAIN executed : i < j => executed[i] < executed[j]

\* A late response is discarded and an answer is never ahead of its request:
\* ResponseId is never raised, whoever was dropped before.
NeverMismatched == \A c \in Callers : outcome[c] # "mismatch"

\* "No tool or control request may be sent through this session after a
\* successful shutdown" (session.rs:415): one that is sent nevertheless is not
\* carried out, for an acknowledged shutdown is the guest's last request.
ShutdownIsLast ==
  \A c \in Callers :
    (kind[c] = "shutdown" /\ (pc[c] \in {"relock", "waiting"} \/ outcome[c] = "ok"))
      => guest = "exited"

\* Every call returns unless it is dropped: no caller waits for ever for a
\* response another caller has consumed or a guest that is gone.
CallsReturn ==
  \A c \in Callers : (pc[c] = "queued") ~> (pc[c] = "idle")

=============================================================================

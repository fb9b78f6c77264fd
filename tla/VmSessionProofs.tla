--------------------------- MODULE VmSessionProofs ---------------------------
(***************************************************************************)
(* Proofs about VmSession, for every set of callers and every number of    *)
(* calls.                                                                  *)
(*                                                                         *)
(* The argument: ids are given out under the mutex, so the id of the call  *)
(* that holds it is the largest there is.  Both directions of the console  *)
(* keep the order of the ids, and what a dropped call has left in them has *)
(* a smaller id than the call that finds it.                               *)
(***************************************************************************)
EXTENDS VmSession, TLAPS, SequenceTheorems, WellFoundedInduction

Requests == [id : Nat, kind : Kinds, part : {"text", "newline"}]
Responses == [id : Nat, ok : BOOLEAN]
Outcomes == {"none", "ok", "guest", "io", "closed", "exit", "cancelled", "mismatch"}
GuestStates == {"reading", "serving", "malformed", "exited", "died"}

TypeOK ==
  /\ pc \in [Callers -> Step]
  /\ kind \in [Callers -> Kinds]
  /\ id \in [Callers -> Nat \union {None}]
  /\ outcome \in [Callers -> Outcomes]
  /\ holder \in Callers \union {None}
  /\ next_id \in Nat
  /\ input \in Seq(Requests)
  /\ guest \in GuestStates
  /\ executed \in Seq(Nat)
  /\ output \in Seq(Responses)

\* Steps between the acquisition of the mutex and the answer.
Asking == {"begun", "writing", "reading"}

\* The mutex excludes, and its holder asks with the latest id.
MutexInv ==
  \A c \in Callers :
    /\ pc[c] \in Asking \union {"waiting"} => holder = c
    /\ pc[c] \in Asking => next_id > 0 /\ id[c] = next_id - 1
    /\ pc[c] \in {"relock", "waiting"} => kind[c] = "shutdown"

\* No id on the console is ahead of the call that holds the mutex, and before it
\* has written anything they are all behind.
Ahead(n) ==
  /\ \A i \in DOMAIN executed : executed[i] < n
  /\ \A i \in DOMAIN output : output[i].id < n
  /\ \A i \in DOMAIN input : input[i].id < n

IdInv ==
  /\ Ahead(next_id)
  /\ \A c \in Callers : pc[c] = "begun" => Ahead(id[c])

\* The guest's stdin while it is read: a newline ends the text of its own
\* request, ids grow, and nothing that was carried out is in it again.
InputInv ==
  Alive =>
    /\ \A i \in DOMAIN input :
         input[i].part = "newline" =>
           /\ i > 1 /\ input[i - 1].part = "text"
           /\ input[i - 1].id = input[i].id /\ input[i - 1].kind = input[i].kind
    /\ \A i, k \in DOMAIN input : i < k => input[i].id <= input[k].id
    /\ \A i, k \in DOMAIN input :
         (i < k /\ input[k].part = "text") => input[i].id < input[k].id
    /\ \A i \in DOMAIN executed, k \in DOMAIN input : executed[i] < input[k].id
    /\ guest = "serving" => /\ Len(input) >= 2
                            /\ input[1].part = "text" /\ input[2].part = "newline"

\* A call that has written its text finds it where it has left it.
WritingInv ==
  \A c \in Callers :
    /\ (pc[c] = "writing" /\ Alive) =>
         /\ Len(input) > 0
         /\ input[Len(input)] = [id |-> id[c], kind |-> kind[c], part |-> "text"]
    /\ (pc[c] \in Asking /\ Alive) =>
         \A i \in DOMAIN input : input[i].id = id[c] => input[i].kind = kind[c]

\* An acknowledged shutdown is the guest's last request.
ShutdownInv ==
  \A c \in Callers :
    (pc[c] \in Asking /\ kind[c] = "shutdown") =>
      \A i \in DOMAIN output : (output[i].id = id[c] /\ output[i].ok) => guest = "exited"

\* The inductive invariant.
IInv ==
  /\ TypeOK
  /\ MutexInv
  /\ IdInv
  /\ InputInv
  /\ WritingInv
  /\ ShutdownInv
  /\ ExecutedInOrder
  /\ NeverMismatched
  /\ ShutdownIsLast

-----------------------------------------------------------------------------
(* Lemmas about the console *)

\* One more element at the end of a sequence.
LEMMA AppendOne ==
  ASSUME NEW S, NEW s \in Seq(S), NEW e \in S
  PROVE  /\ Append(s, e) \in Seq(S)
         /\ Len(s) \in Nat /\ Len(Append(s, e)) = Len(s) + 1
         /\ DOMAIN s = 1 .. Len(s) /\ DOMAIN Append(s, e) = 1 .. Len(s) + 1
         /\ \A i \in DOMAIN s : Append(s, e)[i] = s[i]
         /\ Append(s, e)[Len(s) + 1] = e
OBVIOUS

\* What is left of a sequence from its m-th element on.
LEMMA Rest ==
  ASSUME NEW S, NEW s \in Seq(S), NEW m \in 1 .. Len(s) + 1
  PROVE  /\ SubSeq(s, m, Len(s)) \in Seq(S)
         /\ Len(SubSeq(s, m, Len(s))) = Len(s) - m + 1
         /\ DOMAIN SubSeq(s, m, Len(s)) = 1 .. Len(s) - m + 1
         /\ \A i \in 1 .. Len(s) - m + 1 :
              i + m - 1 \in DOMAIN s /\ SubSeq(s, m, Len(s))[i] = s[i + m - 1]
<1>1. Len(s) \in Nat /\ DOMAIN s = 1 .. Len(s) /\ \A i \in 1 .. Len(s) : s[i] \in S
  OBVIOUS
<1>2. m \in Int /\ \A i \in m .. Len(s) : s[i] \in S
  BY <1>1
<1>3. /\ SubSeq(s, m, Len(s)) \in Seq(S)
      /\ Len(SubSeq(s, m, Len(s))) = IF m <= Len(s) THEN Len(s) - m + 1 ELSE 0
      /\ \A i \in 1 .. Len(s) - m + 1 : SubSeq(s, m, Len(s))[i] = s[m + i - 1]
  BY <1>1, <1>2, SubSeqProperties
<1>4. \A n \in Nat : \A k \in 1 .. n + 1 : (IF k <= n THEN n - k + 1 ELSE 0) = n - k + 1
  OBVIOUS
<1>5. Len(SubSeq(s, m, Len(s))) = Len(s) - m + 1
  BY <1>1, <1>3, <1>4, Zenon
<1>6. DOMAIN SubSeq(s, m, Len(s)) = 1 .. Len(s) - m + 1
  BY <1>3, <1>5, LenProperties
<1>7. \A i \in 1 .. Len(s) - m + 1 :
        i + m - 1 \in DOMAIN s /\ SubSeq(s, m, Len(s))[i] = s[i + m - 1]
  BY <1>1, <1>3
<1>8. QED
  BY <1>3, <1>5, <1>6, <1>7

\* The first line on the console ends at its smallest newline.
LEMMA FirstNewline ==
  ASSUME NEW T, T \subseteq Nat, T # {}
  PROVE  Min(T) \in T /\ \A n \in T : Min(T) <= n
<1>1. \E m \in T : \A n \in T : <<n, m>> \notin OpToRel(<, Nat)
  BY NatLessThanWellFounded, WFMin, Zenon
<1>2. PICK m \in T : \A n \in T : <<n, m>> \notin OpToRel(<, Nat)
  BY <1>1, Zenon
<1>3. ASSUME NEW n \in T PROVE m <= n
  <2>1. n \in Nat /\ m \in Nat
    OBVIOUS
  <2>2. n < m => <<n, m>> \in OpToRel(<, Nat)
    BY <2>1 DEF OpToRel
  <2>3. ~(n < m)
    BY <1>2, <2>2, Zenon
  <2>4. QED
    BY <2>1, <2>3
<1>4. QED
  BY <1>3 DEF Min

\* What is on the console has its type, place by place.
LEMMA Elements ==
  ASSUME TypeOK
  PROVE  /\ \A i \in DOMAIN executed : executed[i] \in Nat
         /\ \A i \in DOMAIN output : output[i] \in Responses
         /\ \A i \in DOMAIN input : input[i] \in Requests
BY LenProperties DEF TypeOK

-----------------------------------------------------------------------------
(* Initial states *)

LEMMA InitIInv == Init => IInv
<1> SUFFICES ASSUME Init PROVE IInv
  OBVIOUS
<1>1. /\ DOMAIN input = {} /\ DOMAIN executed = {} /\ DOMAIN output = {}
      /\ input \in Seq(Requests) /\ executed \in Seq(Nat) /\ output \in Seq(Responses)
  BY DEF Init
<1>2. TypeOK
  BY <1>1 DEF Init, TypeOK, Step, Kinds, Outcomes, GuestStates
<1>3. MutexInv /\ IdInv /\ InputInv /\ WritingInv /\ ShutdownInv
  BY <1>1 DEF Init, MutexInv, IdInv, Ahead, InputInv, WritingInv, ShutdownInv, Asking
<1>4. ExecutedInOrder /\ NeverMismatched /\ ShutdownIsLast
  BY <1>1 DEF Init, ExecutedInOrder, NeverMismatched, ShutdownIsLast
<1>5. QED
  BY <1>2, <1>3, <1>4 DEF IInv

-----------------------------------------------------------------------------
(* Steps of a caller *)

\* A call begins without the mutex and touches nothing.
LEMMA CallKeeps ==
  ASSUME IInv, NEW c \in Callers, NEW what \in Kinds, Call(c, what)
  PROVE  IInv'
<1> USE DEF Asking
<1>1. /\ pc[c] = "idle" /\ pc \in [Callers -> Step]
      /\ pc' = [pc EXCEPT ![c] = "queued"]
      /\ kind' = [kind EXCEPT ![c] = what]
      /\ outcome' = [outcome EXCEPT ![c] = "none"]
      /\ UNCHANGED <<id, holder, next_id, input, guest, executed, output>>
  BY DEF Call, IInv, TypeOK
<1>2. TypeOK'
  BY <1>1 DEF IInv, TypeOK, Step, Outcomes
<1>3. MutexInv' /\ IdInv' /\ InputInv' /\ WritingInv' /\ ShutdownInv'
  BY <1>1 DEF IInv, TypeOK, MutexInv, IdInv, Ahead, InputInv, WritingInv, ShutdownInv, Alive
<1>4. ExecutedInOrder' /\ NeverMismatched' /\ ShutdownIsLast'
  BY <1>1 DEF IInv, TypeOK, ExecutedInOrder, NeverMismatched, ShutdownIsLast
<1>5. QED
  BY <1>2, <1>3, <1>4 DEF IInv

\* Whoever takes the mutex to ask has the largest id there is.
LEMMA LockKeeps ==
  ASSUME IInv, NEW c \in Callers, Lock(c)
  PROVE  IInv'
<1> USE DEF Asking
<1>1. /\ holder = None /\ holder' = c /\ pc \in [Callers -> Step] /\ next_id \in Nat
      /\ UNCHANGED <<kind, outcome, input, guest, executed, output>>
  BY DEF Lock, IInv, TypeOK
<1>2. ExecutedInOrder' /\ NeverMismatched' /\ InputInv'
  BY <1>1 DEF IInv, InputInv, ExecutedInOrder, NeverMismatched, Alive
<1>3. \A d \in Callers : pc[d] \notin Asking \union {"waiting"}
  BY <1>1, SessionAssumption DEF IInv, MutexInv
<1>4. CASE pc[c] = "queued" /\ pc' = [pc EXCEPT ![c] = "begun"]
           /\ id' = [id EXCEPT ![c] = next_id] /\ next_id' = next_id + 1
  <2>1. TypeOK'
    BY <1>1, <1>4 DEF IInv, TypeOK, Step
  <2>2. MutexInv' /\ ShutdownIsLast'
    BY <1>1, <1>3, <1>4 DEF IInv, TypeOK, MutexInv, ShutdownIsLast
  <2>3. IdInv'
    <3>1. Ahead(next_id) /\ executed \in Seq(Nat) /\ input \in Seq(Requests)
          /\ output \in Seq(Responses)
      BY DEF IInv, TypeOK, IdInv
    <3>2. /\ \A i \in DOMAIN executed : executed[i] \in Nat
          /\ \A i \in DOMAIN output : output[i].id \in Nat
          /\ \A i \in DOMAIN input : input[i].id \in Nat
      BY Elements DEF IInv, Requests, Responses
    <3>3. \A d \in Callers : pc'[d] = "begun" => d = c /\ id'[d] = next_id
      BY <1>1, <1>3, <1>4 DEF IInv, TypeOK
    <3>4. QED
      BY <1>1, <1>4, <3>1, <3>2, <3>3 DEF IdInv, Ahead
  <2>4. WritingInv' /\ ShutdownInv'
    BY <1>1, <1>3, <1>4 DEF IInv, TypeOK, IdInv, Ahead, WritingInv, ShutdownInv, Requests, Responses, Alive
  <2>5. QED
    BY <1>2, <2>1, <2>2, <2>3, <2>4 DEF IInv
<1>5. CASE pc[c] = "relock" /\ pc' = [pc EXCEPT ![c] = "waiting"] /\ UNCHANGED <<id, next_id>>
  <2>1. TypeOK'
    BY <1>1, <1>5 DEF IInv, TypeOK, Step
  <2>2. MutexInv' /\ ShutdownIsLast'
    BY <1>1, <1>3, <1>5 DEF IInv, TypeOK, MutexInv, ShutdownIsLast
  <2>3. IdInv' /\ WritingInv' /\ ShutdownInv'
    BY <1>1, <1>3, <1>5 DEF IInv, TypeOK, IdInv, Ahead, WritingInv, ShutdownInv, Alive
  <2>4. QED
    BY <1>2, <2>1, <2>2, <2>3 DEF IInv
<1>6. QED
  BY <1>4, <1>5 DEF Lock

\* What a reader leaves on the guest's stdout was there before.
OutputShrinks ==
  /\ output' \in Seq(Responses)
  /\ \A i \in DOMAIN output' : \E k \in DOMAIN output : output'[i] = output[k]

LEMMA ReadShrinks ==
  ASSUME TypeOK, output # <<>>
  PROVE  /\ Head(output) = output[1] /\ 1 \in DOMAIN output /\ output[1] \in Responses
         /\ output' = Tail(output) => OutputShrinks
<1>1. /\ Tail(output) \in Seq(Responses) /\ Len(output) \in Nat \ {0}
      /\ Len(Tail(output)) = Len(output) - 1
      /\ \A i \in 1 .. Len(Tail(output)) : Tail(output)[i] = output[i + 1]
  BY EmptySeq, LenProperties, HeadTailProperties DEF TypeOK
<1>2. DOMAIN output = 1 .. Len(output) /\ DOMAIN Tail(output) = 1 .. Len(Tail(output))
  BY <1>1, LenProperties DEF TypeOK
<1>3. Head(output) = output[1]
  BY DEF TypeOK
<1>4. 1 \in DOMAIN output /\ \A i \in DOMAIN Tail(output) : i + 1 \in DOMAIN output
  BY <1>1, <1>2
<1>5. QED
  BY <1>1, <1>2, <1>3, <1>4, Elements DEF OutputShrinks

\* A call that returns leaves nothing but what it has written.
LEMMA ReturnKeeps ==
  ASSUME IInv, NEW c \in Callers, NEW result \in Outcomes \ {"mismatch"},
         Return(c, result),
         (result = "ok" /\ kind[c] = "shutdown") => guest = "exited",
         UNCHANGED <<next_id, input, guest, executed>>, OutputShrinks
  PROVE  IInv'
<1> USE DEF Asking
<1>1. /\ pc \in [Callers -> Step] /\ id \in [Callers -> Nat \union {None}]
      /\ outcome \in [Callers -> Outcomes]
      /\ pc' = [pc EXCEPT ![c] = "idle"]
      /\ id' = [id EXCEPT ![c] = None]
      /\ outcome' = [outcome EXCEPT ![c] = result]
      /\ holder' = IF holder = c THEN None ELSE holder
      /\ UNCHANGED kind
  BY DEF Return, IInv, TypeOK
<1>2. TypeOK'
  BY <1>1 DEF IInv, TypeOK, Step, OutputShrinks
<1>3. MutexInv'
  BY <1>1 DEF IInv, MutexInv
<1>4. IdInv'
  <2>1. \A n : Ahead(n) => Ahead(n)'
    BY DEF Ahead, OutputShrinks
  <2>2. ASSUME NEW d \in Callers, pc'[d] = "begun" PROVE Ahead(id[d])'
    <3>1. pc[d] = "begun" /\ id'[d] = id[d]
      BY <1>1, <2>2
    <3>2. PICK n : n = id[d] /\ n = id'[d]
      BY <3>1
    <3>3. Ahead(n)
      BY <3>1, <3>2 DEF IInv, IdInv
    <3>4. Ahead(n)'
      BY <2>1, <3>3
    <3>5. QED
      BY <3>2, <3>4 DEF Ahead
  <2>3. Ahead(next_id)'
    <3>1. PICK n : n = next_id /\ n = next_id'
      OBVIOUS
    <3>2. Ahead(n)'
      BY <2>1, <3>1 DEF IInv, IdInv
    <3>3. QED
      BY <3>1, <3>2 DEF Ahead
  <2>4. QED
    BY <2>2, <2>3 DEF IdInv, Ahead
<1>5. InputInv' /\ ExecutedInOrder'
  BY DEF IInv, InputInv, ExecutedInOrder, Alive
<1>6. WritingInv'
  BY <1>1 DEF IInv, WritingInv, Alive
<1>7. ShutdownInv'
  BY <1>1 DEF IInv, ShutdownInv, OutputShrinks
<1>8. NeverMismatched' /\ ShutdownIsLast'
  BY <1>1 DEF IInv, NeverMismatched, ShutdownIsLast
<1>9. QED
  BY <1>2, <1>3, <1>4, <1>5, <1>6, <1>7, <1>8 DEF IInv

\* A caller reads an answer to itself or to somebody before it, and an answer to
\* a shutdown that succeeded only from a guest that has gone.
LEMMA ReadLineKeeps ==
  ASSUME IInv, NEW c \in Callers, ReadLine(c)
  PROVE  IInv'
<1> USE DEF Asking
<1>1. /\ TypeOK /\ pc[c] = "reading" /\ output # <<>> /\ output' = Tail(output)
      /\ UNCHANGED <<next_id, input, guest, executed>>
  BY DEF ReadLine, IInv
<1>2. /\ Head(output) = output[1] /\ 1 \in DOMAIN output /\ output[1] \in Responses
      /\ OutputShrinks
  BY <1>1, ReadShrinks
<1> PICK response \in Responses : response = Head(output)
  BY <1>2
<1>3. response.id < next_id /\ id[c] = next_id - 1 /\ next_id \in Nat /\ response.id \in Nat
  BY <1>1, <1>2 DEF IInv, TypeOK, IdInv, Ahead, MutexInv, Responses
<1>4. (response.id = id[c] /\ response.ok /\ kind[c] = "shutdown") => guest = "exited"
  BY <1>1, <1>2 DEF IInv, ShutdownInv
<1>5. CASE response.id < id[c] /\ UNCHANGED <<callVars, holder>>
  <2>1. TypeOK' /\ MutexInv' /\ InputInv' /\ ExecutedInOrder'
    BY <1>1, <1>2, <1>5
    DEF IInv, TypeOK, MutexInv, InputInv, ExecutedInOrder, Alive, callVars, OutputShrinks
  <2>2. IdInv'
    BY <1>1, <1>2, <1>5 DEF IInv, IdInv, Ahead, callVars, OutputShrinks
  <2>3. WritingInv' /\ NeverMismatched' /\ ShutdownIsLast'
    BY <1>1, <1>5 DEF IInv, WritingInv, Alive, NeverMismatched, ShutdownIsLast, callVars
  <2>4. ShutdownInv'
    BY <1>1, <1>2, <1>5 DEF IInv, ShutdownInv, callVars, OutputShrinks
  <2>5. QED
    BY <2>1, <2>2, <2>3, <2>4 DEF IInv
<1>6. CASE response.id > id[c]
  BY <1>3, <1>6
<1>7. CASE response.id = id[c] /\ (kind[c] = "work" \/ ~response.ok)
           /\ Return(c, IF response.ok THEN "ok" ELSE "guest")
  <2>1. PICK result \in {"ok", "guest"} :
          Return(c, result) /\ (result = "ok" => kind[c] = "work")
    BY <1>7
  <2>2. QED
    BY <1>1, <1>2, <2>1, ReturnKeeps DEF Outcomes
<1>8. CASE /\ response.id = id[c] /\ kind[c] = "shutdown" /\ response.ok
           /\ pc' = [pc EXCEPT ![c] = "relock"] /\ holder' = None
           /\ UNCHANGED <<kind, id, outcome>>
  <2>1. guest = "exited"
    BY <1>4, <1>8
  <2>2. TypeOK' /\ InputInv' /\ ExecutedInOrder'
    BY <1>1, <1>2, <1>8
    DEF IInv, TypeOK, Step, InputInv, ExecutedInOrder, Alive, OutputShrinks
  <2>3. MutexInv' /\ NeverMismatched' /\ ShutdownIsLast'
    BY <1>1, <1>8, <2>1 DEF IInv, TypeOK, MutexInv, NeverMismatched, ShutdownIsLast
  <2>4. \A d \in Callers : pc'[d] # "begun"
    BY <1>1, <1>8 DEF IInv, TypeOK, MutexInv
  <2>5. IdInv' /\ WritingInv' /\ ShutdownInv'
    BY <1>1, <1>2, <1>8, <2>1, <2>4
    DEF IInv, IdInv, Ahead, WritingInv, ShutdownInv, Alive, OutputShrinks
  <2>6. QED
    BY <2>2, <2>3, <2>5 DEF IInv
<1>9. QED
  BY <1>5, <1>6, <1>7, <1>8 DEF ReadLine

\* Whoever returns without reading leaves the console as it is.
LEMMA LeaveKeeps ==
  ASSUME IInv, NEW c \in Callers, ReadClosed(c) \/ WaitExit(c) \/ Cancel(c)
  PROVE  IInv'
<1>1. OutputShrinks /\ UNCHANGED <<next_id, input, guest, executed>>
  BY DEF ReadClosed, WaitExit, Cancel, OutputShrinks, IInv, TypeOK
<1>2. PICK result \in {"closed", "ok", "exit", "cancelled"} :
        Return(c, result) /\ (result = "ok" => pc[c] = "waiting")
  BY DEF ReadClosed, WaitExit, Cancel
<1>3. (result = "ok" /\ kind[c] = "shutdown") => guest = "exited"
  BY <1>2 DEF IInv, ShutdownIsLast
<1>4. QED
  BY <1>1, <1>2, <1>3, ReturnKeeps DEF Outcomes

\* The holder of the mutex writes the text of its request behind everything
\* there is, and its newline right behind the text.
LEMMA WriteKeeps ==
  ASSUME IInv, NEW c \in Callers, Write(c)
  PROVE  IInv'
<1> USE DEF Asking
<1>1. CASE Return(c, "io") /\ UNCHANGED <<input, next_id, guest, executed, output>>
  BY <1>1, ReturnKeeps DEF Outcomes, OutputShrinks, IInv, TypeOK
<1>2. CASE /\ pc[c] \in {"begun", "writing"}
           /\ input' = Append(input, [id |-> id[c], kind |-> kind[c],
                                      part |-> IF pc[c] = "begun" THEN "text" ELSE "newline"])
           /\ pc' = [pc EXCEPT ![c] = IF pc[c] = "begun" THEN "writing" ELSE "reading"]
           /\ UNCHANGED <<kind, id, outcome, holder, next_id, guest, executed, output>>
  <2>1. /\ pc \in [Callers -> Step] /\ kind[c] \in Kinds
        /\ next_id \in Nat /\ id[c] \in Nat /\ id[c] = next_id - 1 /\ id[c] < next_id
        /\ input \in Seq(Requests)
        /\ \A d \in Callers \ {c} : pc[d] \notin Asking
    BY <1>2 DEF IInv, TypeOK, MutexInv
  <2>2. PICK line \in Requests :
          /\ input' = Append(input, line)
          /\ line.id = id[c] /\ line.kind = kind[c]
          /\ line.part = IF pc[c] = "begun" THEN "text" ELSE "newline"
          /\ line = [id |-> id[c], kind |-> kind[c], part |-> line.part]
    BY <1>2, <2>1 DEF Requests
  <2> PICK n \in Nat : n = Len(input)
    BY <2>1
  <2>3. /\ input' \in Seq(Requests) /\ Len(input') = n + 1
        /\ DOMAIN input = 1 .. n /\ DOMAIN input' = 1 .. n + 1
        /\ \A i \in DOMAIN input : input'[i] = input[i]
        /\ input'[n + 1] = line
    BY <2>1, <2>2, AppendOne
  <2>4. \A i \in DOMAIN input : input[i] \in Requests /\ input[i].id \in Nat
    BY Elements DEF IInv, Requests
  <2>5. TypeOK'
    BY <1>2, <2>1, <2>3 DEF IInv, TypeOK, Step
  <2>6. MutexInv' /\ ExecutedInOrder' /\ NeverMismatched' /\ ShutdownIsLast'
    BY <1>2, <2>1
    DEF IInv, TypeOK, MutexInv, ExecutedInOrder, NeverMismatched, ShutdownIsLast
  <2>7. IdInv'
    <3>1. Ahead(next_id)'
      BY <1>2, <2>1, <2>2, <2>3 DEF IInv, IdInv, Ahead
    <3>2. \A d \in Callers : pc'[d] # "begun"
      BY <1>2, <2>1
    <3>3. QED
      BY <3>1, <3>2 DEF IdInv
  <2>8. ShutdownInv'
    BY <1>2, <2>1 DEF IInv, ShutdownInv
  <2>9. CASE ~Alive
    BY <1>2, <2>5, <2>6, <2>7, <2>8, <2>9 DEF IInv, InputInv, WritingInv, Alive
  <2>10. CASE Alive /\ pc[c] = "begun"
    <3>1. /\ line.part = "text" /\ pc'[c] = "writing"
          /\ \A i \in DOMAIN input : input[i].id < line.id
          /\ \A i \in DOMAIN executed : executed[i] < line.id
      BY <1>2, <2>1, <2>2, <2>10 DEF IInv, IdInv, Ahead
    <3>2. InputInv'
      <4>1. \A i \in DOMAIN input' :
              input'[i].part = "newline" =>
                /\ i > 1 /\ input'[i - 1].part = "text"
                /\ input'[i - 1].id = input'[i].id /\ input'[i - 1].kind = input'[i].kind
        BY <2>3, <2>10, <3>1 DEF IInv, InputInv
      <4>8. \A i \in DOMAIN input : input[i].id <= line.id
        BY <2>1, <2>2, <2>4, <3>1
      <4>2. \A i, k \in DOMAIN input' : i < k => input'[i].id <= input'[k].id
        BY <2>3, <2>10, <4>8 DEF IInv, InputInv
      <4>3. \A i, k \in DOMAIN input' :
              (i < k /\ input'[k].part = "text") => input'[i].id < input'[k].id
        BY <2>3, <2>10, <3>1 DEF IInv, InputInv
      <4>4. \A i \in DOMAIN executed, k \in DOMAIN input' : executed[i] < input'[k].id
        BY <2>3, <2>10, <3>1 DEF IInv, InputInv
      <4>5. guest = "serving" => /\ Len(input') >= 2
                                 /\ input'[1].part = "text" /\ input'[2].part = "newline"
        BY <2>3, <2>10 DEF IInv, InputInv
      <4>6. QED
        BY <1>2, <4>1, <4>2, <4>3, <4>4, <4>5 DEF InputInv
    <3>3. WritingInv'
      BY <1>2, <2>1, <2>2, <2>3, <3>1 DEF WritingInv
    <3>4. QED
      BY <2>5, <2>6, <2>7, <2>8, <3>2, <3>3 DEF IInv
  <2>11. CASE Alive /\ pc[c] = "writing"
    <3>1. /\ line.part = "newline" /\ pc'[c] = "reading"
          /\ n > 0 /\ input[n].part = "text"
          /\ input[n].id = line.id /\ input[n].kind = line.kind
      <4>1. /\ Len(input) > 0
            /\ input[Len(input)] = [id |-> id[c], kind |-> kind[c], part |-> "text"]
        BY <2>11 DEF IInv, WritingInv
      <4>2. line.part = "newline"
        BY <2>2, <2>11
      <4>3. pc'[c] = "reading"
        BY <1>2, <2>1, <2>11
      <4>4. QED
        BY <2>2, <4>1, <4>2, <4>3
    <3>2. InputInv'
      <4>1. \A i \in DOMAIN input' :
              input'[i].part = "newline" =>
                /\ i > 1 /\ input'[i - 1].part = "text"
                /\ input'[i - 1].id = input'[i].id /\ input'[i - 1].kind = input'[i].kind
        BY <2>3, <2>11, <3>1 DEF IInv, InputInv
      <4>2. \A i \in DOMAIN input : input[i].id <= line.id
        BY <2>3, <2>4, <2>11, <3>1 DEF IInv, InputInv
      <4>3. \A i, k \in DOMAIN input' : i < k => input'[i].id <= input'[k].id
        BY <2>3, <2>11, <4>2 DEF IInv, InputInv
      <4>4. \A i, k \in DOMAIN input' :
              (i < k /\ input'[k].part = "text") => input'[i].id < input'[k].id
        BY <2>3, <2>11, <3>1 DEF IInv, InputInv
      <4>5. \A i \in DOMAIN executed, k \in DOMAIN input' : executed[i] < input'[k].id
        BY <2>3, <2>11, <3>1 DEF IInv, InputInv
      <4>6. guest = "serving" => /\ Len(input') >= 2
                                 /\ input'[1].part = "text" /\ input'[2].part = "newline"
        BY <2>3, <2>11 DEF IInv, InputInv
      <4>7. QED
        BY <1>2, <4>1, <4>3, <4>4, <4>5, <4>6 DEF InputInv
    <3>3. WritingInv'
      <4>1. \A d \in Callers : pc'[d] # "writing"
        BY <1>2, <2>1, <3>1
      <4>8. \A i \in DOMAIN input : input[i].id = id[c] => input[i].kind = kind[c]
        BY <2>11 DEF IInv, WritingInv
      <4>2. \A i \in DOMAIN input' : input'[i].id = id[c] => input'[i].kind = kind[c]
        BY <2>2, <2>3, <4>8
      <4>3. QED
        BY <1>2, <2>1, <4>1, <4>2 DEF WritingInv
    <3>4. QED
      BY <2>5, <2>6, <2>7, <2>8, <3>2, <3>3 DEF IInv
  <2>12. QED
    BY <1>2, <2>9, <2>10, <2>11
<1>3. QED
  BY <1>1, <1>2 DEF Write

-----------------------------------------------------------------------------
(* Steps of the guest *)

\* The guest takes a line that is one request, or gives up.
LEMMA GuestReadKeeps ==
  ASSUME IInv, GuestRead
  PROVE  IInv'
<1> USE DEF Asking
<1>1. /\ guest = "reading" /\ Newlines # {}
      /\ UNCHANGED <<callVars, holder, next_id, executed, output>>
  BY DEF GuestRead
<1>2. TypeOK /\ input \in Seq(Requests) /\ Len(input) \in Nat /\ DOMAIN input = 1 .. Len(input)
  BY LenProperties DEF IInv, TypeOK
<1>3. Newlines \subseteq DOMAIN input /\ Newlines \subseteq Nat
  BY <1>2 DEF Newlines
<1>4. Min(Newlines) \in Newlines
  BY <1>1, <1>3, FirstNewline
<1>5. CASE Min(Newlines) = 2
  <2>1. guest' = "serving" /\ input' = input
    BY <1>5 DEF GuestRead
  <2>2. Len(input) >= 2 /\ input[2].part = "newline"
    BY <1>2, <1>4, <1>5 DEF Newlines
  <2>3. input[1].part = "text"
    <3>1. 2 \in DOMAIN input /\ input[2].part = "newline"
      BY <1>4, <1>5 DEF Newlines
    <3>2. input[2 - 1].part = "text"
      BY <1>1, <3>1 DEF IInv, InputInv, Alive
    <3>3. QED
      BY <3>2
  <2>4. InputInv' /\ WritingInv'
    BY <1>1, <2>1, <2>2, <2>3 DEF IInv, InputInv, WritingInv, Alive, callVars
  <2>5. TypeOK' /\ MutexInv' /\ IdInv' /\ ShutdownInv'
    BY <1>1, <2>1 DEF IInv, TypeOK, GuestStates, MutexInv, IdInv, Ahead, ShutdownInv, callVars
  <2>6. ExecutedInOrder' /\ NeverMismatched' /\ ShutdownIsLast'
    BY <1>1 DEF IInv, ExecutedInOrder, NeverMismatched, ShutdownIsLast, callVars
  <2>7. QED
    BY <2>4, <2>5, <2>6 DEF IInv
<1>6. CASE Min(Newlines) # 2
  <2> PICK n \in Nat : n = Min(Newlines) /\ n <= Len(input)
    BY <1>2, <1>3, <1>4
  <2>1. guest' = "malformed" /\ input' = SubSeq(input, n + 1, Len(input))
    BY <1>6 DEF GuestRead
  <2>2. /\ input' \in Seq(Requests)
        /\ \A i \in DOMAIN input' : \E k \in DOMAIN input : input'[i] = input[k]
    <3> PICK m : m = n + 1
      OBVIOUS
    <3>1. m \in 1 .. Len(input) + 1 /\ input' = SubSeq(input, m, Len(input))
      BY <1>2, <2>1
    <3>2. /\ input' \in Seq(Requests)
          /\ DOMAIN input' = 1 .. Len(input) - m + 1
          /\ \A i \in 1 .. Len(input) - m + 1 :
               i + m - 1 \in DOMAIN input /\ input'[i] = input[i + m - 1]
      BY <1>2, <3>1, Rest
    <3>3. QED
      BY <3>2, Zenon
  <2>3. TypeOK' /\ MutexInv' /\ ShutdownInv'
    BY <1>1, <2>1, <2>2 DEF IInv, TypeOK, GuestStates, MutexInv, ShutdownInv, callVars
  <2>4. IdInv'
    BY <1>1, <2>2 DEF IInv, IdInv, Ahead, callVars
  <2>5. InputInv' /\ WritingInv'
    BY <2>1 DEF InputInv, WritingInv, Alive
  <2>6. ExecutedInOrder' /\ NeverMismatched' /\ ShutdownIsLast'
    BY <1>1 DEF IInv, ExecutedInOrder, NeverMismatched, ShutdownIsLast, callVars
  <2>7. QED
    BY <2>3, <2>4, <2>5, <2>6 DEF IInv
<1>7. QED
  BY <1>5, <1>6

\* The guest carries out the first request there is, and stops after a shutdown
\* that has succeeded.
LEMMA GuestServeKeeps ==
  ASSUME IInv, NEW ok \in BOOLEAN, GuestServe(ok)
  PROVE  IInv'
<1> USE DEF Asking
<1> PICK request : request = input[1]
  OBVIOUS
<1> PICK n : n = Len(input)
  OBVIOUS
<1>1. /\ TypeOK /\ Alive /\ guest = "serving"
      /\ n \in Nat /\ n >= 2 /\ DOMAIN input = 1 .. n
      /\ input[1].part = "text" /\ input[2].part = "newline"
      /\ input \in Seq(Requests) /\ executed \in Seq(Nat) /\ output \in Seq(Responses)
  BY LenProperties DEF GuestServe, IInv, TypeOK, InputInv, Alive
<1>2. request \in Requests /\ request.id \in Nat /\ request = Head(input)
  <2>1. 1 \in DOMAIN input
    BY <1>1
  <2>2. request \in Requests
    BY <1>1, <2>1, Elements
  <2>3. request = Head(input)
    BY <1>1
  <2>4. QED
    BY <2>2, <2>3 DEF Requests
<1>3. /\ executed' = Append(executed, request.id)
      /\ output' = Append(output, [id |-> request.id, ok |-> ok])
      /\ guest' = IF request.kind = "shutdown" /\ ok THEN "exited" ELSE "reading"
      /\ input' = SubSeq(input, 3, Len(input))
      /\ UNCHANGED <<pc, kind, id, outcome, holder, next_id>>
  BY <1>2 DEF GuestServe, callVars
<1>4. /\ input' \in Seq(Requests) /\ Len(input') = n - 2 /\ DOMAIN input' = 1 .. n - 2
      /\ \A i \in 1 .. n - 2 : i + 2 \in DOMAIN input /\ input'[i] = input[i + 2]
  <2> PICK m : m = 3
    OBVIOUS
  <2>1. m \in 1 .. Len(input) + 1 /\ input' = SubSeq(input, m, Len(input))
    BY <1>1, <1>3
  <2>2. /\ input' \in Seq(Requests) /\ Len(input') = n - m + 1
        /\ DOMAIN input' = 1 .. n - m + 1
        /\ \A i \in 1 .. n - m + 1 : i + m - 1 \in DOMAIN input /\ input'[i] = input[i + m - 1]
    <3>1. n = Len(input) /\ input \in Seq(Requests)
      BY <1>1
    <3>2. PICK rest : rest = SubSeq(input, m, Len(input))
      OBVIOUS
    <3>3. /\ rest \in Seq(Requests) /\ Len(rest) = Len(input) - m + 1
          /\ DOMAIN rest = 1 .. Len(input) - m + 1
          /\ \A i \in 1 .. Len(input) - m + 1 :
               i + m - 1 \in DOMAIN input /\ rest[i] = input[i + m - 1]
      BY <2>1, <3>1, <3>2, Rest
    <3> QED
      BY <2>1, <3>1, <3>2, <3>3
  <2>3. n - m + 1 = n - 2 /\ \A i \in 1 .. n - 2 : i + m - 1 = i + 2
    BY <1>1
  <2>4. QED
    BY <2>2, <2>3
<1> PICK response \in Responses : response = [id |-> request.id, ok |-> ok]
  BY <1>2 DEF Responses
<1>5. /\ output' \in Seq(Responses) /\ Len(output) \in Nat
      /\ DOMAIN output = 1 .. Len(output) /\ DOMAIN output' = 1 .. Len(output) + 1
      /\ \A i \in DOMAIN output : output'[i] = output[i]
      /\ output'[Len(output) + 1] = response
  <2>1. output \in Seq(Responses) /\ response \in Responses /\ output' = Append(output, response)
    BY <1>1, <1>3
  <2> QED
    BY <2>1, AppendOne
<1>6. /\ executed' \in Seq(Nat) /\ Len(executed) \in Nat
      /\ DOMAIN executed = 1 .. Len(executed) /\ DOMAIN executed' = 1 .. Len(executed) + 1
      /\ \A i \in DOMAIN executed : executed'[i] = executed[i]
      /\ executed'[Len(executed) + 1] = request.id
  <2>1. executed \in Seq(Nat) /\ request.id \in Nat /\ executed' = Append(executed, request.id)
    BY <1>1, <1>2, <1>3
  <2> QED
    BY <2>1, AppendOne
<1>7. \A i \in DOMAIN executed : executed[i] < request.id
  BY <1>1 DEF IInv, InputInv
<1>8. \A i \in DOMAIN input : input[i] \in Requests /\ input[i].id \in Nat
  BY <1>1, Elements DEF Requests
<1>9. TypeOK'
  BY <1>1, <1>3, <1>4, <1>5, <1>6 DEF TypeOK, GuestStates
<1>10. MutexInv' /\ NeverMismatched'
  BY <1>3 DEF IInv, MutexInv, NeverMismatched
<1>11. ExecutedInOrder'
  <2>1. \A i, k \in DOMAIN executed : i < k => executed[i] < executed[k]
    BY DEF IInv, ExecutedInOrder
  <2>2. ASSUME NEW i \in DOMAIN executed', NEW k \in DOMAIN executed', i < k
        PROVE  executed'[i] < executed'[k]
    <3>1. i \in DOMAIN executed
      BY <1>6, <2>2
    <3>2. CASE k \in DOMAIN executed
      BY <1>6, <2>1, <2>2, <3>1, <3>2
    <3>3. CASE k = Len(executed) + 1
      BY <1>6, <1>7, <3>1, <3>3
    <3> QED
      BY <1>6, <2>2, <3>2, <3>3
  <2> QED
    BY <2>2 DEF ExecutedInOrder
<1>12. IdInv'
  <2>1. ASSUME NEW m, Ahead(m) PROVE Ahead(m)'
    <3>1. request.id < m
      BY <1>1, <2>1 DEF Ahead
    <3>2. \A i \in DOMAIN executed' : executed'[i] < m
      BY <1>6, <2>1, <3>1 DEF Ahead
    <3>3. \A i \in DOMAIN output' : output'[i].id < m
      BY <1>5, <2>1, <3>1 DEF Ahead
    <3>4. \A i \in DOMAIN input' : input'[i].id < m
      BY <1>4, <2>1 DEF Ahead
    <3>5. QED
      BY <3>2, <3>3, <3>4 DEF Ahead
  <2>2. Ahead(next_id)'
    BY <1>3, <2>1 DEF IInv, IdInv, Ahead
  <2>3. ASSUME NEW c \in Callers, pc'[c] = "begun" PROVE Ahead(id[c])'
    <3>1. Ahead(id[c]) /\ id'[c] = id[c]
      BY <1>3, <2>3 DEF IInv, IdInv
    <3>2. QED
      BY <2>1, <3>1 DEF Ahead
  <2>4. QED
    BY <2>2, <2>3 DEF IdInv, Ahead
<1>13. InputInv'
  <2>1. \A i \in DOMAIN input :
          input[i].part = "newline" =>
            /\ i > 1 /\ input[i - 1].part = "text"
            /\ input[i - 1].id = input[i].id /\ input[i - 1].kind = input[i].kind
    BY <1>1 DEF IInv, InputInv
  <2>2. \A i \in DOMAIN input' :
          input'[i].part = "newline" =>
            /\ i > 1 /\ input'[i - 1].part = "text"
            /\ input'[i - 1].id = input'[i].id /\ input'[i - 1].kind = input'[i].kind
    <3> SUFFICES ASSUME NEW i \in DOMAIN input', input'[i].part = "newline"
                 PROVE  /\ i > 1 /\ input'[i - 1].part = "text"
                        /\ input'[i - 1].id = input'[i].id
                        /\ input'[i - 1].kind = input'[i].kind
      OBVIOUS
    <3>1. /\ i \in 1 .. n - 2 /\ i + 2 \in DOMAIN input /\ input'[i] = input[i + 2]
          /\ (i + 2) - 1 = i + 1
      BY <1>4
    <3>2. /\ input[i + 1].part = "text"
          /\ input[i + 1].id = input[i + 2].id /\ input[i + 1].kind = input[i + 2].kind
      BY <2>1, <3>1
    <3>3. i # 1
      BY <1>1, <3>2
    <3>4. i - 1 \in 1 .. n - 2 /\ (i - 1) + 2 = i + 1
      BY <1>1, <3>1, <3>3
    <3>5. input'[i - 1] = input[i + 1]
      BY <1>4, <3>4
    <3>6. QED
      BY <3>1, <3>2, <3>4, <3>5
  <2>3. ASSUME NEW i \in DOMAIN input', NEW k \in DOMAIN input', i < k
        PROVE  /\ input'[i].id <= input'[k].id
               /\ input'[k].part = "text" => input'[i].id < input'[k].id
    <3>1. /\ i + 2 \in DOMAIN input /\ k + 2 \in DOMAIN input /\ i + 2 < k + 2
          /\ input'[i] = input[i + 2] /\ input'[k] = input[k + 2]
      BY <1>1, <1>4, <2>3
    <3>2. \A a, b \in DOMAIN input :
            a < b => /\ input[a].id <= input[b].id
                     /\ input[b].part = "text" => input[a].id < input[b].id
      BY <1>1 DEF IInv, InputInv
    <3>3. QED
      BY <3>1, <3>2
  <2>5. \A k \in DOMAIN input : k > 2 => request.id < input[k].id
    <3> SUFFICES ASSUME NEW k \in DOMAIN input, k > 2 PROVE request.id < input[k].id
      OBVIOUS
    <3>1. CASE input[k].part = "text"
      BY <1>1, <3>1 DEF IInv, InputInv
    <3>2. CASE input[k].part = "newline"
      <4>1. /\ input[k - 1].part = "text" /\ input[k - 1].id = input[k].id
            /\ k - 1 \in DOMAIN input
            /\ 1 < k - 1 \/ k = 2
        BY <1>1, <2>1, <3>2
      <4>2. request.id < input[k - 1].id
        <5>1. \A i, l \in DOMAIN input :
                (i < l /\ input[l].part = "text") => input[i].id < input[l].id
          BY <1>1 DEF IInv, InputInv
        <5>2. 1 \in DOMAIN input /\ 1 < k - 1
          BY <1>1, <4>1
        <5> QED
          BY <4>1, <5>1, <5>2
      <4>3. QED
        BY <4>1, <4>2
    <3>3. QED
      BY <1>8, <3>1, <3>2 DEF Requests
  <2>6. ASSUME NEW k \in DOMAIN input' PROVE request.id < input'[k].id
    <3>1. k + 2 \in DOMAIN input /\ k + 2 > 2 /\ input'[k] = input[k + 2]
      BY <1>1, <1>4
    <3>2. QED
      BY <2>5, <3>1
  <2>7. \A i \in DOMAIN executed', k \in DOMAIN input' : executed'[i] < input'[k].id
    <3>1. \A i \in DOMAIN executed, k \in DOMAIN input' : executed[i] < input'[k].id
      BY <1>1, <1>4 DEF IInv, InputInv
    <3>2. QED
      BY <1>6, <2>6, <3>1
  <2>8. guest' # "serving"
    BY <1>3
  <2>9. QED
    BY <2>2, <2>3, <2>7, <2>8 DEF InputInv
<1>14. WritingInv'
  <2>1. ASSUME NEW c \in Callers, pc[c] = "writing"
        PROVE  /\ Len(input') > 0
               /\ input'[Len(input')] = [id |-> id[c], kind |-> kind[c], part |-> "text"]
    <3>1. input[n] = [id |-> id[c], kind |-> kind[c], part |-> "text"]
      BY <1>1, <2>1 DEF IInv, WritingInv
    <3>2. input[n].part = "text"
      BY <3>1
    <3>3. n # 2
      BY <1>1, <3>2
    <3>4. n - 2 \in 1 .. n - 2 /\ (n - 2) + 2 = n
      BY <1>1, <3>3
    <3>5. input'[n - 2] = input[n]
      BY <1>4, <3>4
    <3>6. QED
      BY <1>4, <3>1, <3>4, <3>5
  <2>2. ASSUME NEW c \in Callers, pc[c] \in Asking, NEW i \in DOMAIN input', input'[i].id = id[c]
        PROVE  input'[i].kind = kind[c]
    <3>1. i + 2 \in DOMAIN input /\ input'[i] = input[i + 2]
      BY <1>4
    <3>2. \A k \in DOMAIN input : input[k].id = id[c] => input[k].kind = kind[c]
      BY <1>1, <2>2 DEF IInv, WritingInv
    <3>3. QED
      BY <2>2, <3>1, <3>2
  <2>3. QED
    BY <1>3, <2>1, <2>2 DEF WritingInv
<1>15. ShutdownInv'
  <2> SUFFICES ASSUME NEW c \in Callers, pc[c] \in Asking, kind[c] = "shutdown",
                      NEW i \in DOMAIN output', output'[i].id = id[c], output'[i].ok
               PROVE  guest' = "exited"
    BY <1>3 DEF ShutdownInv
  <2>1. CASE i \in DOMAIN output
    BY <1>1, <1>5, <2>1 DEF IInv, ShutdownInv
  <2>2. CASE i = Len(output) + 1
    <3>1. request.id = id[c] /\ ok
      BY <1>5, <2>2
    <3>2. request.kind = "shutdown"
      <4>1. 1 \in DOMAIN input
        BY <1>1
      <4>2. \A k \in DOMAIN input : input[k].id = id[c] => input[k].kind = kind[c]
        BY <1>1 DEF IInv, WritingInv
      <4>3. QED
        BY <3>1, <4>1, <4>2
    <3>3. QED
      BY <1>3, <3>1, <3>2
  <2>3. QED
    BY <1>5, <2>1, <2>2
<1>16. ShutdownIsLast'
  BY <1>1, <1>3 DEF IInv, ShutdownIsLast
<1>17. QED
  BY <1>9, <1>10, <1>11, <1>12, <1>13, <1>14, <1>15, <1>16 DEF IInv

\* Nobody reads the guest's stdin any more once it has died.
LEMMA GuestDiesKeeps ==
  ASSUME IInv, GuestDies
  PROVE  IInv'
<1>1. /\ guest # "exited" /\ guest' = "died"
      /\ UNCHANGED <<pc, kind, id, outcome, holder, next_id, input, executed, output>>
  BY DEF GuestDies, Alive, callVars
<1>2. TypeOK' /\ MutexInv' /\ IdInv' /\ ExecutedInOrder' /\ NeverMismatched'
  BY <1>1
  DEF IInv, TypeOK, GuestStates, MutexInv, IdInv, Ahead, ExecutedInOrder, NeverMismatched
<1>3. InputInv' /\ WritingInv' /\ ShutdownInv' /\ ShutdownIsLast'
  BY <1>1 DEF IInv, InputInv, WritingInv, ShutdownInv, ShutdownIsLast, Alive
<1>4. QED
  BY <1>2, <1>3 DEF IInv

-----------------------------------------------------------------------------
(* The invariant of the specification, and the theorems *)

\* Every step keeps the inductive invariant.
LEMMA NextKeeps ==
  ASSUME IInv, [Next]_vars
  PROVE  IInv'
<1>1. CASE UNCHANGED vars
  <2>1. TypeOK' /\ MutexInv' /\ IdInv' /\ InputInv' /\ WritingInv' /\ ShutdownInv'
    BY <1>1
    DEF IInv, TypeOK, MutexInv, IdInv, Ahead, InputInv, WritingInv, ShutdownInv, Alive,
        vars, callVars
  <2>2. ExecutedInOrder' /\ NeverMismatched' /\ ShutdownIsLast'
    BY <1>1 DEF IInv, ExecutedInOrder, NeverMismatched, ShutdownIsLast, vars, callVars
  <2>3. QED
    BY <2>1, <2>2 DEF IInv
<1>2. QED
  BY <1>1, CallKeeps, LockKeeps, WriteKeeps, ReadLineKeeps, LeaveKeeps, GuestReadKeeps,
     GuestServeKeeps, GuestDiesKeeps
  DEF Next, Proceed, Guest

\* The inductive invariant holds in every reachable state.
LEMMA Invariant == Spec => []IInv
<1>1. Init => IInv
  BY InitIInv
<1>2. IInv /\ [Next]_vars => IInv'
  BY NextKeeps
<1>3. QED
  BY <1>1, <1>2, PTL DEF Spec

\* Every variable of the session, the console and the guest keeps its type.
THEOREM Typing == Spec => []TypeOK
<1>1. IInv => TypeOK
  BY DEF IInv
<1>2. QED
  BY <1>1, Invariant, PTL

\* serve_guest carries out what request_inner has numbered in the order of the
\* numbers and never twice, whichever callers are dropped and wherever.
THEOREM InOrder == Spec => []ExecutedInOrder
<1>1. IInv => ExecutedInOrder
  BY DEF IInv
<1>2. QED
  BY <1>1, Invariant, PTL

\* read_response never meets a response that is ahead of its request.
THEOREM NoMismatch == Spec => []NeverMismatched
<1>1. IInv => NeverMismatched
  BY DEF IInv
<1>2. QED
  BY <1>1, Invariant, PTL

\* Once a shutdown was acknowledged the guest has left serve_guest, though other
\* callers hold the mutex between the answer and the wait for the exit.
THEOREM ShutdownEndsGuest == Spec => []ShutdownIsLast
<1>1. IInv => ShutdownIsLast
  BY DEF IInv
<1>2. QED
  BY <1>1, Invariant, PTL

=============================================================================

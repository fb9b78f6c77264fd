--------------------------- MODULE RecordingProofs ---------------------------
(***************************************************************************)
(* Proofs about Recording, for every finite set of attempts, every script  *)
(* of agent events, and a channel of any capacity.                         *)
(*                                                                         *)
(* The argument: while the recorder has missed nothing, there is for each  *)
(* attempt a number of its events that have been applied, and those still  *)
(* to come are exactly the later ones, each once and in order.  It is that *)
(* number that decides whether the attempt is open and what its builder    *)
(* holds.  A recorder that has missed something can only stop.             *)
(*                                                                         *)
(* What a builder holds is said through a function B that satisfies the    *)
(* recurrence of the projection, see IsProjection; there is one.           *)
(***************************************************************************)
EXTENDS Recording, TLAPS, FiniteSetTheorems, WellFoundedInduction

Stages == {"queued", "agent", "verifying", "output", "verified", "done"}
Kinds == {"started", "agent", "verifier", "completed", "failed"}
Terminal == {"completed", "failed"}
Events == [attempt : Attempts, kind : Kinds, sequence : Nat \ {0}]

TypeOK ==
  /\ stage \in [Attempts -> Stages]
  /\ sequence \in [Attempts -> Nat]
  /\ ring \in Seq(Events) /\ Len(ring) <= Capacity
  /\ unread \in [Subscribers -> 0 .. Capacity + 1]
  /\ \A s \in Subscribers : ~Lagging(s) => unread[s] <= Len(ring)
  /\ open \subseteq Attempts
  /\ built = [a \in Attempts |-> built[a]]
  /\ trial = [a \in Attempts |-> trial[a]]
  /\ recorder \in {"recording", "lagged", "io", "finished"}
  /\ finish \in {"unsent", "sent", "taken"}
  /\ outcomes \subseteq Attempts
  /\ progress \in {"counting", "counted", "lagged"}
  /\ main \in {"sweeping", "finishing", "recorder", "progress", "reported", "error"}

Length(a) == Len(Script[a])

\* The events an attempt has emitted in each of its stages.
StageFits(a, s, n) ==
  /\ s = "queued" => n = 0
  /\ s = "agent" => 1 <= n /\ n <= Length(a) + 1
  /\ s = "verifying" => n = Length(a) + 2
  /\ s = "output" => n = Length(a) + 3
  /\ s = "verified" => n = Length(a) + 4
  /\ s = "done" => (1 <= n /\ n <= Length(a) + 3) \/ n = Length(a) + 5

\* The place of each kind of event in the sequence.
KindFits(a, kind, n) ==
  /\ n = 1 => kind \in {"started", "failed"}
  /\ kind = "started" => n = 1
  /\ kind = "agent" => 2 <= n /\ n <= Length(a) + 1
  /\ kind = "verifier" => Length(a) + 2 <= n /\ n <= Length(a) + 4
  /\ kind = "completed" => n = Length(a) + 5
  /\ kind = "failed" => n <= Length(a) + 3

\* The channel holds events of the attempts in the order they were emitted.
\* The last one of an attempt that has ended, and no other, is terminal.
RingInv ==
  /\ \A i \in 1 .. Len(ring) :
       LET e == ring[i] IN
         /\ e.sequence <= sequence[e.attempt]
         /\ KindFits(e.attempt, e.kind, e.sequence)
         /\ e.kind \in Terminal <=>
              stage[e.attempt] = "done" /\ e.sequence = sequence[e.attempt]
  /\ \A i, j \in 1 .. Len(ring) :
       i < j /\ ring[i].attempt = ring[j].attempt => ring[i].sequence < ring[j].sequence

\* How many of an attempt's first n events are its agent's.
AgentEventsIn(a, n) ==
  IF n = 0 THEN 0 ELSE IF n - 1 <= Length(a) THEN n - 1 ELSE Length(a)

Ended(a, n) == stage[a] = "done" /\ n = sequence[a]

\* The recorder has applied the first n events of an attempt and has all the
\* others before it.
Follows(B, a, n) ==
  /\ \A i \in 1 .. Len(ring) :
       Len(ring) - unread["recorder"] < i /\ ring[i].attempt = a => n < ring[i].sequence
  /\ \A k \in n + 1 .. sequence[a] :
       \E i \in 1 .. Len(ring) :
         /\ Len(ring) - unread["recorder"] < i
         /\ ring[i].attempt = a /\ ring[i].sequence = k
  /\ a \in open <=> n # 0 /\ ~Ended(a, n)
  /\ built[a] = IF a \in open THEN B[a][AgentEventsIn(a, n)] ELSE EmptyBuilder

FollowInv(B) ==
  recorder = "recording" /\ ~Lagging("recorder") =>
    \A a \in Attempts : \E n \in 0 .. sequence[a] : Follows(B, a, n)

\* What a trial is made from once its attempt has ended: all the events of its
\* agent, or those before the failure.
TrialOf(B, a) ==
  IF sequence[a] = Length(a) + 5
  THEN FinishTrajectory(B[a][Length(a)], Results[a])
  ELSE FinishFailure(B[a][AgentEventsIn(a, sequence[a] - 1)], DefaultModel)

TrialInv(B) ==
  \A a \in Attempts : trial[a] # None => stage[a] = "done" /\ trial[a] = TrialOf(B, a)

\* What the three tasks have waited for.
TasksInv ==
  /\ recorder = "finished" => Cardinality(completed) = Expected
  /\ progress = "counted" => Cardinality(outcomes) >= Expected
  /\ main \in {"progress", "reported"} => recorder = "finished"
  /\ main = "reported" => progress = "counted"

\* B[a][n] is the builder after the first n events of the attempt's agent.
IsProjection(B) ==
  \A a \in Attempts :
    /\ B[a][0] = EmptyBuilder
    /\ \A n \in 1 .. Length(a) : B[a][n] = ApplyEvent(B[a][n - 1], Script[a][n])

\* The inductive invariant.
IInv(B) ==
  /\ TypeOK
  /\ \A a \in Attempts : StageFits(a, stage[a], sequence[a])
  /\ RingInv
  /\ FollowInv(B)
  /\ TrialInv(B)
  /\ TasksInv
-----------------------------------------------------------------------------
(* The channel *)

\* A send drops the oldest event of a full channel, and shift says whether.
LEMMA SendFacts ==
  ASSUME TypeOK, NEW event \in Events, Send(event)
  PROVE  /\ ring' \in Seq(Events)
         /\ Len(ring') \in 1 .. Capacity
         /\ \E shift \in {0, 1} :
              /\ Len(ring') = Len(ring) + 1 - shift
              /\ \A i \in 1 .. Len(ring') :
                   ring'[i] = IF i = Len(ring') THEN event ELSE ring[i + shift]
              /\ shift = 1 => Len(ring) = Capacity
         /\ unread' \in [Subscribers -> 0 .. Capacity + 1]
         /\ \A s \in Subscribers : unread'[s] <= Capacity =>
              /\ unread'[s] <= Len(ring')
              /\ unread[s] <= Capacity
              /\ unread'[s] = IF Subscribed(s) THEN unread[s] + 1 ELSE unread[s]
<1>1. /\ Capacity \in Nat \ {0} /\ ring \in Seq(Events) /\ Len(ring) \in 0 .. Capacity
      /\ unread \in [Subscribers -> 0 .. Capacity + 1]
      /\ \A s \in Subscribers : unread[s] <= Capacity => unread[s] <= Len(ring)
  BY RecordingAssumption DEF TypeOK, Lagging
<1>2. PICK sent : sent = Append(ring, event)
  OBVIOUS
<1>3. /\ sent \in Seq(Events) /\ Len(sent) = Len(ring) + 1
      /\ \A i \in 1 .. Len(sent) : sent[i] = IF i = Len(sent) THEN event ELSE ring[i]
  BY <1>1, <1>2
<1>4. ring' = IF Len(sent) > Capacity THEN Tail(sent) ELSE sent
  BY <1>2 DEF Send
<1>5. PICK shift \in {0, 1} :
        /\ ring' \in Seq(Events) /\ Len(ring') = Len(ring) + 1 - shift
        /\ Len(ring') \in 1 .. Capacity
        /\ \A i \in 1 .. Len(ring') :
             ring'[i] = IF i = Len(ring') THEN event ELSE ring[i + shift]
        /\ shift = 1 => Len(ring) = Capacity
  <2>1. CASE Len(sent) > Capacity
    <3>1. ring' = Tail(sent) /\ Len(ring) = Capacity /\ sent # <<>>
      BY <1>1, <1>3, <1>4, <2>1
    <3>2. /\ ring' \in Seq(Events) /\ Len(ring') = Len(ring)
          /\ \A i \in 1 .. Len(ring') : ring'[i] = sent[i + 1]
      BY <1>1, <1>3, <3>1
    <3> QED
      BY <1>1, <1>3, <3>1, <3>2
  <2>2. CASE Len(sent) <= Capacity
    <3>1. ring' = sent
      BY <1>1, <1>3, <1>4, <2>2
    <3> QED
      BY <1>1, <1>3, <2>2, <3>1
  <2> QED
    BY <1>1, <1>3, <2>1, <2>2
<1>6. unread' = [s \in Subscribers |->
                  IF Subscribed(s) /\ unread[s] <= Capacity THEN unread[s] + 1 ELSE unread[s]]
  BY DEF Send
<1>7. unread' \in [Subscribers -> 0 .. Capacity + 1]
  BY <1>1, <1>6
<1>8. ASSUME NEW s \in Subscribers, unread'[s] <= Capacity
      PROVE  /\ unread'[s] <= Len(ring')
             /\ unread[s] <= Capacity
             /\ unread'[s] = IF Subscribed(s) THEN unread[s] + 1 ELSE unread[s]
  BY <1>1, <1>5, <1>6, <1>8
<1> QED
  BY <1>5, <1>7, <1>8

\* The event that is received is in the channel, first of those still unread.
LEMMA ReceiveFacts ==
  ASSUME TypeOK, NEW s \in Subscribers, NEW event, Receive(s, event)
  PROVE  /\ Len(ring) - unread[s] + 1 \in 1 .. Len(ring)
         /\ event = ring[Len(ring) - unread[s] + 1] /\ event \in Events
         /\ unread' = [unread EXCEPT ![s] = unread[s] - 1]
         /\ unread'[s] = unread[s] - 1
         /\ unread' \in [Subscribers -> 0 .. Capacity + 1]
         /\ \A o \in Subscribers : unread'[o] <= Capacity => unread'[o] <= Len(ring)
<1>1. /\ Capacity \in Nat \ {0} /\ ring \in Seq(Events) /\ Len(ring) \in 0 .. Capacity
      /\ unread \in [Subscribers -> 0 .. Capacity + 1]
      /\ \A o \in Subscribers : unread[o] <= Capacity => unread[o] <= Len(ring)
  BY RecordingAssumption DEF TypeOK, Lagging
<1>2. unread[s] > 0 /\ unread[s] <= Capacity /\ unread[s] <= Len(ring)
  BY <1>1 DEF Receive, Lagging
<1>3. Len(ring) - unread[s] + 1 \in 1 .. Len(ring)
  BY <1>1, <1>2
<1>4. event = ring[Len(ring) - unread[s] + 1] /\ event \in Events
  BY <1>1, <1>3 DEF Receive, Received
<1>5. unread' = [unread EXCEPT ![s] = unread[s] - 1]
  BY DEF Receive
<1> QED
  BY <1>1, <1>2, <1>3, <1>4, <1>5
-----------------------------------------------------------------------------
(* Init *)

LEMMA InitIInv ==
  ASSUME NEW B, IsProjection(B), Init
  PROVE  IInv(B)
<1>1. Capacity \in Nat \ {0} /\ \A a \in Attempts : Length(a) \in Nat \ {0}
  BY RecordingAssumption DEF Length
<1>2. TypeOK
  BY <1>1 DEF Init, TypeOK, Stages, Subscribers, Lagging
<1>3. \A a \in Attempts : StageFits(a, stage[a], sequence[a])
  BY DEF Init, StageFits
<1>4. RingInv
  BY DEF Init, RingInv
<1>5. ASSUME NEW a \in Attempts PROVE Follows(B, a, 0)
  BY DEF Init, Follows, Subscribers
<1>6. FollowInv(B)
  BY <1>5 DEF FollowInv, Init
<1>7. TrialInv(B) /\ TasksInv
  BY DEF Init, TrialInv, TasksInv
<1> QED
  BY <1>2, <1>3, <1>4, <1>6, <1>7 DEF IInv
-----------------------------------------------------------------------------
(* The attempts *)

\* An event that is emitted in its place: it is the last of its attempt in the
\* channel, and the first of it that the recorder has not received, or comes
\* after the others.
LEMMA EmitKeeps ==
  ASSUME NEW B, IInv(B), NEW a \in Attempts, NEW kind \in Kinds, NEW next \in Stages,
         Emit(a, kind, next), stage[a] # "done",
         StageFits(a, next, sequence[a] + 1), KindFits(a, kind, sequence[a] + 1),
         kind \in Terminal <=> next = "done"
  PROVE  IInv(B)'
<1>1. /\ TypeOK /\ RingInv /\ FollowInv(B) /\ TrialInv(B) /\ TasksInv
      /\ \A o \in Attempts : StageFits(o, stage[o], sequence[o])
  BY DEF IInv
<1>2. /\ sequence \in [Attempts -> Nat] /\ stage \in [Attempts -> Stages]
      /\ Capacity \in Nat \ {0} /\ Length(a) \in Nat \ {0}
  BY <1>1, RecordingAssumption DEF TypeOK, Length
<1>3. PICK n \in Nat \ {0} : n = sequence[a] + 1
  BY <1>2
<1>4. /\ sequence' = [sequence EXCEPT ![a] = n] /\ stage' = [stage EXCEPT ![a] = next]
      /\ sequence' \in [Attempts -> Nat] /\ stage' \in [Attempts -> Stages]
      /\ sequence'[a] = n /\ stage'[a] = next
      /\ \A o \in Attempts : o # a => sequence'[o] = sequence[o] /\ stage'[o] = stage[o]
      /\ UNCHANGED <<open, built, trial, recorder, finish, outcomes, progress, main>>
  BY <1>2, <1>3 DEF Emit, recorderVars, progressVars
<1>5. PICK event \in Events :
        Send(event) /\ event.attempt = a /\ event.kind = kind /\ event.sequence = n
  BY <1>2, <1>3, <1>4 DEF Emit, Events
<1>6. PICK shift \in {0, 1} :
        /\ Len(ring') = Len(ring) + 1 - shift
        /\ \A i \in 1 .. Len(ring') :
             ring'[i] = IF i = Len(ring') THEN event ELSE ring[i + shift]
        /\ shift = 1 => Len(ring) = Capacity
  BY <1>1, <1>5, SendFacts
<1>7. /\ ring' \in Seq(Events) /\ Len(ring') \in 1 .. Capacity
      /\ unread' \in [Subscribers -> 0 .. Capacity + 1]
      /\ \A s \in Subscribers : unread'[s] <= Capacity =>
           /\ unread'[s] <= Len(ring')
           /\ unread[s] <= Capacity
           /\ unread'[s] = IF Subscribed(s) THEN unread[s] + 1 ELSE unread[s]
  BY <1>1, <1>5, SendFacts
<1>8. TypeOK'
  BY <1>1, <1>2, <1>4, <1>7 DEF TypeOK, Lagging
<1>9. \A o \in Attempts : StageFits(o, stage[o], sequence[o])'
  BY <1>1, <1>3, <1>4 DEF StageFits
<1>10. /\ Len(ring) \in Nat
       /\ \A i \in 1 .. Len(ring') : i # Len(ring') =>
            i + shift \in 1 .. Len(ring) /\ ring'[i] = ring[i + shift]
       /\ \A i \in 1 .. Len(ring) : ring[i] \in Events
  BY <1>1, <1>6, <1>7 DEF TypeOK
<1>11. \A i \in 1 .. Len(ring) : ring[i].sequence <= sequence[ring[i].attempt]
  BY <1>1 DEF RingInv
<1>12. RingInv'
  <2>1. ASSUME NEW i \in 1 .. Len(ring')
        PROVE  LET e == ring'[i] IN
                 /\ e.sequence <= sequence'[e.attempt]
                 /\ KindFits(e.attempt, e.kind, e.sequence)
                 /\ e.kind \in Terminal <=>
                      stage'[e.attempt] = "done" /\ e.sequence = sequence'[e.attempt]
    <3>1. CASE i = Len(ring')
      BY <1>3, <1>4, <1>5, <1>6, <1>7, <3>1
    <3>2. CASE i # Len(ring')
      <4>1. PICK j \in 1 .. Len(ring), e \in Events : e = ring[j] /\ ring'[i] = ring[j]
        BY <1>10, <3>2
      <4>2. /\ e.sequence <= sequence[e.attempt]
            /\ KindFits(e.attempt, e.kind, e.sequence)
            /\ e.kind \in Terminal <=>
                 stage[e.attempt] = "done" /\ e.sequence = sequence[e.attempt]
        BY <1>1, <4>1 DEF RingInv
      <4>3. e.attempt \in Attempts /\ e.sequence \in Nat
        BY DEF Events
      <4>4. CASE e.attempt = a
        BY <1>2, <1>3, <1>4, <4>1, <4>2, <4>3, <4>4
      <4>5. CASE e.attempt # a
        BY <1>4, <4>1, <4>2, <4>3, <4>5
      <4> QED
        BY <4>4, <4>5
    <3> QED
      BY <3>1, <3>2
  <2>2. ASSUME NEW i \in 1 .. Len(ring'), NEW j \in 1 .. Len(ring'),
               i < j, ring'[i].attempt = ring'[j].attempt
        PROVE  ring'[i].sequence < ring'[j].sequence
    <3>1. i # Len(ring') /\ i + shift \in 1 .. Len(ring) /\ ring'[i] = ring[i + shift]
      BY <1>7, <1>10, <2>2
    <3>2. CASE j = Len(ring')
      <4>1. ring'[j] = event /\ ring[i + shift].attempt = a
        BY <1>5, <1>6, <2>2, <3>1, <3>2
      <4>2. ring[i + shift].sequence <= sequence[a] /\ ring[i + shift].sequence \in Nat
        BY <1>10, <1>11, <3>1, <4>1 DEF Events
      <4> QED
        BY <1>2, <1>3, <1>5, <3>1, <4>1, <4>2
    <3>3. CASE j # Len(ring')
      <4>1. j + shift \in 1 .. Len(ring) /\ ring'[j] = ring[j + shift] /\ i + shift < j + shift
        BY <1>7, <1>10, <2>2, <3>3
      <4> QED
        BY <1>1, <2>2, <3>1, <4>1 DEF RingInv
    <3> QED
      BY <3>2, <3>3
  <2> QED
    BY <2>1, <2>2 DEF RingInv
<1>13. FollowInv(B)'
  <2>0. "recorder" \in Subscribers
    BY DEF Subscribers
  <2>01. Lagging("recorder")' <=> ~(unread'["recorder"] <= Capacity)
    BY <1>2, <1>7, <2>0 DEF Lagging
  <2> SUFFICES ASSUME recorder = "recording", unread'["recorder"] <= Capacity, NEW o \in Attempts
               PROVE  \E k \in 0 .. sequence'[o] : Follows(B, o, k)'
    BY <1>4, <2>01 DEF FollowInv
  <2>1. /\ unread["recorder"] \in 0 .. Capacity /\ unread["recorder"] <= Len(ring)
        /\ unread'["recorder"] = unread["recorder"] + 1
        /\ unread'["recorder"] <= Len(ring')
    BY <1>1, <1>2, <1>7, <2>0 DEF Subscribed, TypeOK, Lagging
  <2>2. PICK k \in 0 .. sequence[o] : Follows(B, o, k)
    BY <1>1, <1>2, <2>1 DEF FollowInv, Lagging
  <2>3. k \in 0 .. sequence'[o] /\ k \in Nat /\ sequence[o] \in Nat
    BY <1>2, <1>3, <1>4
  <2>4. ASSUME NEW i \in 1 .. Len(ring'), Len(ring') - unread'["recorder"] < i,
               ring'[i].attempt = o
        PROVE  k < ring'[i].sequence
    <3>1. CASE i = Len(ring')
      BY <1>3, <1>5, <1>6, <2>2, <2>3, <2>4, <3>1
    <3>2. CASE i # Len(ring')
      <4>1. /\ i + shift \in 1 .. Len(ring) /\ ring'[i] = ring[i + shift]
            /\ Len(ring) - unread["recorder"] < i + shift
        BY <1>6, <1>10, <2>1, <2>4, <3>2
      <4> QED
        BY <2>2, <2>4, <4>1 DEF Follows
    <3> QED
      BY <3>1, <3>2
  <2>5. ASSUME NEW m \in k + 1 .. sequence'[o]
        PROVE  \E i \in 1 .. Len(ring') :
                 /\ Len(ring') - unread'["recorder"] < i
                 /\ ring'[i].attempt = o /\ ring'[i].sequence = m
    <3>1. CASE o = a /\ m = n
      <4>1. Len(ring') \in 1 .. Len(ring') /\ Len(ring') - unread'["recorder"] < Len(ring')
        BY <1>7, <2>1
      <4> QED
        BY <1>5, <1>6, <3>1, <4>1
    <3>2. CASE ~(o = a /\ m = n)
      <4>1. m \in k + 1 .. sequence[o]
        BY <1>2, <1>3, <1>4, <2>3, <3>2
      <4>2. PICK j \in 1 .. Len(ring) :
              /\ Len(ring) - unread["recorder"] < j
              /\ ring[j].attempt = o /\ ring[j].sequence = m
        BY <2>2, <4>1 DEF Follows
      <4>3. /\ j - shift \in 1 .. Len(ring') /\ j - shift # Len(ring')
            /\ Len(ring') - unread'["recorder"] < j - shift
            /\ (j - shift) + shift = j
        BY <1>6, <1>7, <1>10, <2>1, <4>2
      <4>4. ring'[j - shift] = ring[j]
        BY <1>6, <4>3
      <4> QED
        BY <4>2, <4>3, <4>4
    <3> QED
      BY <3>1, <3>2
  <2>6. o \in open' <=> k # 0 /\ ~Ended(o, k)'
    <3>1. CASE o = a
      <4>1. ~Ended(a, k) /\ ~Ended(a, k)'
        BY <1>2, <1>3, <1>4, <2>2, <3>1 DEF Ended
      <4> QED
        BY <1>4, <2>2, <3>1, <4>1 DEF Follows
    <3>2. CASE o # a
      BY <1>4, <2>2, <3>2 DEF Follows, Ended
    <3> QED
      BY <3>1, <3>2
  <2>7. built'[o] = IF o \in open' THEN B[o][AgentEventsIn(o, k)] ELSE EmptyBuilder
    BY <1>4, <2>2 DEF Follows
  <2>8. Follows(B, o, k)'
    BY <2>4, <2>5, <2>6, <2>7 DEF Follows, AgentEventsIn, Length
  <2> QED
    BY <2>3, <2>8
<1>14. TrialInv(B)'
  BY <1>1, <1>4 DEF TrialInv, TrialOf, AgentEventsIn, Length
<1>15. TasksInv'
  BY <1>1, <1>4 DEF TasksInv, completed
<1> QED
  BY <1>8, <1>9, <1>12, <1>13, <1>14, <1>15 DEF IInv

\* Every event of run_task comes in its place.
LEMMA AttemptKeeps ==
  ASSUME NEW B, IInv(B), NEW a \in Attempts, AttemptStep(a)
  PROVE  IInv(B)'
<1>1. /\ StageFits(a, stage[a], sequence[a]) /\ sequence[a] \in Nat
      /\ Length(a) \in Nat \ {0}
  BY RecordingAssumption DEF IInv, TypeOK, Length
<1>2. CASE Prepare(a)
  <2>1. sequence[a] = 0 /\ Emit(a, "started", "agent") /\ stage[a] # "done"
    BY <1>1, <1>2 DEF Prepare, StageFits
  <2> QED
    BY <1>1, <2>1, EmitKeeps DEF StageFits, KindFits, Kinds, Stages, Terminal
<1>3. CASE AgentEvent(a)
  <2>1. /\ 1 <= sequence[a] /\ sequence[a] <= Length(a)
        /\ Emit(a, "agent", "agent") /\ stage[a] # "done"
    BY <1>1, <1>3 DEF AgentEvent, StageFits, Length
  <2> QED
    BY <1>1, <2>1, EmitKeeps DEF StageFits, KindFits, Kinds, Stages, Terminal
<1>4. CASE StartVerifier(a)
  <2>1. sequence[a] = Length(a) + 1 /\ Emit(a, "verifier", "verifying") /\ stage[a] # "done"
    BY <1>1, <1>4 DEF StartVerifier, StageFits, Length
  <2> QED
    BY <1>1, <2>1, EmitKeeps DEF StageFits, KindFits, Kinds, Stages, Terminal
<1>5. CASE FinishVerifier(a)
  <2>1. CASE stage[a] = "verifying" /\ Emit(a, "verifier", "output")
    <3>1. sequence[a] = Length(a) + 2
      BY <1>1, <2>1 DEF StageFits
    <3> QED
      BY <1>1, <2>1, <3>1, EmitKeeps DEF StageFits, KindFits, Kinds, Stages, Terminal
  <2>2. CASE stage[a] = "output" /\ Emit(a, "verifier", "verified")
    <3>1. sequence[a] = Length(a) + 3
      BY <1>1, <2>2 DEF StageFits
    <3> QED
      BY <1>1, <2>2, <3>1, EmitKeeps DEF StageFits, KindFits, Kinds, Stages, Terminal
  <2> QED
    BY <1>5, <2>1, <2>2 DEF FinishVerifier
<1>6. CASE Complete(a)
  <2>1. sequence[a] = Length(a) + 4 /\ Emit(a, "completed", "done") /\ stage[a] # "done"
    BY <1>1, <1>6 DEF Complete, StageFits
  <2> QED
    BY <1>1, <2>1, EmitKeeps DEF StageFits, KindFits, Kinds, Stages, Terminal
<1>7. CASE Fail(a)
  <2>1. /\ sequence[a] <= Length(a) + 2
        /\ Emit(a, "failed", "done") /\ stage[a] # "done"
    BY <1>1, <1>7 DEF Fail, StageFits
  <2> QED
    BY <1>1, <2>1, EmitKeeps DEF StageFits, KindFits, Kinds, Stages, Terminal
<1> QED
  BY <1>2, <1>3, <1>4, <1>5, <1>6, <1>7 DEF AttemptStep
-----------------------------------------------------------------------------
(* The recorder *)

\* What the recorder receives is the next event of its attempt: none was lost,
\* none comes twice.
LEMMA NextOfItsAttempt ==
  ASSUME NEW B, IInv(B), recorder = "recording", NEW event, Receive("recorder", event)
  PROVE  /\ event \in Events
         /\ \E n \in Nat :
              /\ event.sequence = n + 1
              /\ Follows(B, event.attempt, n)
              /\ n + 1 \in 1 .. sequence[event.attempt]
              /\ KindFits(event.attempt, event.kind, n + 1)
              /\ event.kind \in Terminal <=> Ended(event.attempt, n + 1)
              /\ event.attempt \in open <=> n # 0
<1>1. TypeOK /\ RingInv /\ FollowInv(B) /\ "recorder" \in Subscribers
  BY DEF IInv, Subscribers
<1>2. PICK p \in 1 .. Len(ring) :
        p = Len(ring) - unread["recorder"] + 1 /\ event = ring[p] /\ event \in Events
  BY <1>1, ReceiveFacts
<1>3. PICK a \in Attempts, s \in Nat \ {0} : a = event.attempt /\ s = event.sequence
  BY <1>2 DEF Events
<1>4. PICK n \in 0 .. sequence[a] : Follows(B, a, n)
  BY <1>1 DEF FollowInv, Receive
<1>5. /\ sequence[a] \in Nat /\ unread["recorder"] \in Nat /\ Len(ring) \in Nat
      /\ \A i \in 1 .. Len(ring) : ring[i].sequence \in Nat
  <2>1. Len(ring) \in Nat /\ \A i \in 1 .. Len(ring) : ring[i] \in Events
    BY <1>1 DEF TypeOK
  <2> QED
    BY <1>1, <2>1, RecordingAssumption DEF TypeOK, Events
<1>6. /\ s <= sequence[a] /\ KindFits(a, event.kind, s)
      /\ event.kind \in Terminal <=> Ended(a, s)
  BY <1>1, <1>2, <1>3 DEF RingInv, Ended
<1>7. n < s
  BY <1>2, <1>3, <1>4, <1>5 DEF Follows
<1>8. s = n + 1
  <2>1. n + 1 \in n + 1 .. sequence[a]
    BY <1>4, <1>5, <1>6, <1>7
  <2>2. PICK i \in 1 .. Len(ring) :
          /\ Len(ring) - unread["recorder"] < i
          /\ ring[i].attempt = a /\ ring[i].sequence = n + 1
    BY <1>4, <2>1 DEF Follows
  <2>3. CASE i = p
    BY <1>2, <1>3, <2>2, <2>3
  <2>4. CASE i # p
    <3>1. p < i
      BY <1>2, <1>5, <2>2, <2>4
    <3>2. s < n + 1
      BY <1>1, <1>2, <1>3, <2>2, <3>1 DEF RingInv
    <3> QED
      BY <1>4, <1>5, <1>7, <3>2
  <2> QED
    BY <2>3, <2>4
<1>9. a \in open <=> n # 0
  BY <1>4, <1>5, <1>6, <1>7 DEF Follows, Ended
<1> QED
  BY <1>2, <1>3, <1>4, <1>5, <1>6, <1>8, <1>9

\* With it applied, the recorder is one event further in its attempt.
LEMMA FollowOn ==
  ASSUME NEW B, IInv(B), recorder = "recording", NEW event, Receive("recorder", event),
         NEW a \in Attempts, a = event.attempt, NEW n \in Nat, event.sequence = n + 1,
         Follows(B, a, n), n + 1 <= sequence[a],
         UNCHANGED <<sequence, stage, recorder>>,
         a \in open' <=> ~Ended(a, n + 1),
         built'[a] = IF a \in open' THEN B[a][AgentEventsIn(a, n + 1)] ELSE EmptyBuilder,
         \A o \in Attempts : o # a => (o \in open' <=> o \in open) /\ built'[o] = built[o]
  PROVE  FollowInv(B)'
<1>1. TypeOK /\ RingInv /\ FollowInv(B) /\ "recorder" \in Subscribers
  BY DEF IInv, Subscribers
<1>2. PICK p \in 1 .. Len(ring) : p = Len(ring) - unread["recorder"] + 1 /\ event = ring[p]
  BY <1>1, ReceiveFacts
<1>3. /\ unread'["recorder"] = unread["recorder"] - 1 /\ ring' = ring
      /\ unread["recorder"] \in Nat /\ Len(ring) \in Nat /\ sequence \in [Attempts -> Nat]
      /\ \A i \in 1 .. Len(ring) : ring[i].sequence \in Nat
  <2>1. Len(ring) \in Nat /\ \A i \in 1 .. Len(ring) : ring[i] \in Events
    BY <1>1 DEF TypeOK
  <2>2. unread'["recorder"] = unread["recorder"] - 1 /\ ring' = ring
    BY <1>1, ReceiveFacts DEF Receive
  <2> QED
    BY <1>1, <2>1, <2>2, RecordingAssumption DEF TypeOK, Events
<1>4. \A i \in 1 .. Len(ring) :
        Len(ring) - unread'["recorder"] < i <=> Len(ring) - unread["recorder"] < i /\ i # p
  BY <1>2, <1>3
<1>5. ASSUME NEW o \in Attempts
      PROVE  \E k \in 0 .. sequence'[o] : Follows(B, o, k)'
  <2>1. CASE o = a
    <3>1. n + 1 \in 0 .. sequence'[a]
      BY <1>3
    <3>2. ASSUME NEW i \in 1 .. Len(ring), Len(ring) - unread'["recorder"] < i,
                 ring[i].attempt = a
          PROVE  n + 1 < ring[i].sequence
      <4>1. p < i
        BY <1>2, <1>3, <1>4, <3>2
      <4> QED
        BY <1>1, <1>2, <3>2, <4>1 DEF RingInv
    <3>3. ASSUME NEW m \in (n + 1) + 1 .. sequence[a]
          PROVE  \E i \in 1 .. Len(ring) :
                   /\ Len(ring) - unread'["recorder"] < i
                   /\ ring[i].attempt = a /\ ring[i].sequence = m
      <4>1. m \in n + 1 .. sequence[a] /\ m # n + 1
        BY <1>3
      <4>2. PICK i \in 1 .. Len(ring) :
              /\ Len(ring) - unread["recorder"] < i
              /\ ring[i].attempt = a /\ ring[i].sequence = m
        BY <4>1 DEF Follows
      <4>3. i # p
        BY <1>2, <4>1, <4>2
      <4> QED
        BY <1>4, <4>2, <4>3
    <3>4. Ended(a, n + 1)' <=> Ended(a, n + 1)
      BY DEF Ended
    <3>5. Follows(B, a, n + 1)'
      BY <1>3, <3>2, <3>3, <3>4 DEF Follows, AgentEventsIn, Length
    <3> QED
      BY <2>1, <3>1, <3>5
  <2>2. CASE o # a
    <3>1. PICK k \in 0 .. sequence[o] : Follows(B, o, k)
      BY <1>1 DEF FollowInv, Receive
    <3>2. \A i \in 1 .. Len(ring) :
            Len(ring) - unread'["recorder"] < i /\ ring[i].attempt = o => k < ring[i].sequence
      BY <1>4, <3>1 DEF Follows
    <3>3. ASSUME NEW m \in k + 1 .. sequence[o]
          PROVE  \E i \in 1 .. Len(ring) :
                   /\ Len(ring) - unread'["recorder"] < i
                   /\ ring[i].attempt = o /\ ring[i].sequence = m
      <4>1. PICK i \in 1 .. Len(ring) :
              /\ Len(ring) - unread["recorder"] < i
              /\ ring[i].attempt = o /\ ring[i].sequence = m
        BY <3>1 DEF Follows
      <4> QED
        BY <1>2, <1>4, <2>2, <4>1
    <3>4. Follows(B, o, k)'
      BY <1>3, <2>2, <3>1, <3>2, <3>3 DEF Follows, AgentEventsIn, Length, Ended
    <3> QED
      BY <3>1, <3>4
  <2> QED
    BY <2>1, <2>2
<1> QED
  BY <1>5 DEF FollowInv

\* An event that comes in its place finds the attempt as it must be, and leaves
\* it as it must be: nothing is missing, nothing is started twice.
LEMMA ApplyFacts ==
  ASSUME NEW B, IsProjection(B), IInv(B), recorder = "recording",
         NEW event \in Events, Apply(event), UNCHANGED attemptVars,
         NEW a \in Attempts, a = event.attempt, NEW n \in Nat, event.sequence = n + 1,
         Follows(B, a, n), n + 1 \in 1 .. sequence[a], KindFits(a, event.kind, n + 1),
         event.kind \in Terminal <=> Ended(a, n + 1), a \in open <=> n # 0
  PROVE  /\ recorder' = "recording"
         /\ a \in open' <=> ~Ended(a, n + 1)
         /\ built'[a] = IF a \in open' THEN B[a][AgentEventsIn(a, n + 1)] ELSE EmptyBuilder
         /\ \A o \in Attempts : o # a => (o \in open' <=> o \in open) /\ built'[o] = built[o]
         /\ open' \subseteq Attempts
         /\ built' = [o \in Attempts |-> built'[o]]
         /\ trial' = [o \in Attempts |-> trial'[o]]
         /\ trial'[a] # None => trial'[a] = trial[a] \/ (Ended(a, n + 1) /\ trial'[a] = TrialOf(B, a))
         /\ \A o \in Attempts : o # a => trial'[o] = trial[o]
<1>1. /\ open \subseteq Attempts /\ built = [o \in Attempts |-> built[o]]
      /\ trial = [o \in Attempts |-> trial[o]] /\ sequence[a] \in Nat
      /\ Length(a) \in Nat \ {0}
  BY RecordingAssumption DEF IInv, TypeOK, Length
<1>2. built[a] = IF a \in open THEN B[a][AgentEventsIn(a, n)] ELSE EmptyBuilder
  BY DEF Follows
<1>3. B[a][0] = EmptyBuilder
  BY DEF IsProjection
<1>4. CASE event.kind = "started" /\ Started(event)
  <2>1. n = 0 /\ a \notin open /\ ~Ended(a, n + 1)
    BY <1>4 DEF KindFits, Terminal
  <2>2. AgentEventsIn(a, n + 1) = 0
    BY <1>1, <2>1 DEF AgentEventsIn
  <2> QED
    BY <1>1, <1>3, <1>4, <2>1, <2>2 DEF Started
<1>5. CASE event.kind = "agent" /\ (AgentRecorded(event) \/ Missing(event))
  <2>1. n \in 1 .. Length(a) /\ ~Ended(a, n + 1)
    BY <1>1, <1>5 DEF KindFits, Terminal
  <2>2. a \in open /\ AgentRecorded(event)
    BY <1>5, <2>1 DEF Missing
  <2>3. AgentEventsIn(a, n) = n - 1 /\ AgentEventsIn(a, n + 1) = n
    BY <1>1, <2>1 DEF AgentEventsIn
  <2>4. B[a][n] = ApplyEvent(B[a][n - 1], Script[a][n])
    BY <2>1 DEF IsProjection
  <2>5. /\ built' = [built EXCEPT ![a] = ApplyEvent(built[a], Script[a][n])]
        /\ UNCHANGED <<open, trial, recorder>>
    <3>1. event.sequence - 1 = n
      OBVIOUS
    <3> QED
      BY <1>1, <2>2, <3>1 DEF AgentRecorded
  <2>6. built'[a] = B[a][n]
    BY <1>1, <1>2, <2>2, <2>3, <2>4, <2>5
  <2> QED
    BY <1>1, <2>1, <2>2, <2>3, <2>5, <2>6
<1>6. CASE event.kind = "completed" /\ (TrialRecorded(event) \/ Missing(event))
  <2>1. n = Length(a) + 4 /\ Ended(a, n + 1)
    BY <1>1, <1>6 DEF KindFits, Terminal
  <2>2. a \in open /\ TrialRecorded(event)
    BY <1>1, <1>6, <2>1 DEF Missing
  <2>3. AgentEventsIn(a, n) = Length(a) /\ sequence[a] = Length(a) + 5
    BY <1>1, <2>1 DEF AgentEventsIn, Ended
  <2>4. trial'[a] = TrialOf(B, a)
    BY <1>1, <1>2, <2>2, <2>3 DEF TrialRecorded, TrialOf
  <2> QED
    BY <1>1, <2>1, <2>2, <2>4 DEF TrialRecorded
<1>7. CASE event.kind = "failed" /\ FailureRecorded(event)
  <2>1. n + 1 <= Length(a) + 3 /\ Ended(a, n + 1)
    BY <1>7 DEF KindFits, Terminal
  <2>2. sequence[a] = n + 1 /\ sequence[a] # Length(a) + 5 /\ sequence[a] - 1 = n
    BY <1>1, <2>1 DEF Ended
  <2>3. built[a] = B[a][AgentEventsIn(a, n)]
    BY <1>2, <1>3 DEF AgentEventsIn
  <2>4. trial'[a] = TrialOf(B, a)
    BY <1>1, <1>7, <2>2, <2>3 DEF FailureRecorded, TrialOf
  <2> QED
    BY <1>1, <1>7, <2>1, <2>4 DEF FailureRecorded
<1>8. CASE event.kind = "verifier" /\ UNCHANGED <<open, built, trial, recorder>>
  <2>1. Length(a) + 1 <= n /\ ~Ended(a, n + 1)
    BY <1>1, <1>8 DEF KindFits, Terminal
  <2>2. a \in open
    BY <1>1, <2>1
  <2>3. AgentEventsIn(a, n) = Length(a) /\ AgentEventsIn(a, n + 1) = Length(a)
    BY <1>1, <2>1 DEF AgentEventsIn
  <2> QED
    BY <1>1, <1>2, <1>8, <2>1, <2>2, <2>3
<1> QED
  BY <1>4, <1>5, <1>6, <1>7, <1>8 DEF Apply

LEMMA RecordKeeps ==
  ASSUME NEW B, IsProjection(B), IInv(B), Record
  PROVE  IInv(B)'
<1>1. /\ TypeOK /\ RingInv /\ TrialInv(B) /\ TasksInv
      /\ \A o \in Attempts : StageFits(o, stage[o], sequence[o])
  BY DEF IInv
<1>2. PICK event : Receive("recorder", event) /\ Apply(event)
  BY DEF Record
<1>3. recorder = "recording" /\ UNCHANGED <<attemptVars, finish, progressVars, main>>
  BY DEF Record, Selecting
<1>4. /\ event \in Events
      /\ \E n \in Nat :
           /\ event.sequence = n + 1
           /\ Follows(B, event.attempt, n)
           /\ n + 1 \in 1 .. sequence[event.attempt]
           /\ KindFits(event.attempt, event.kind, n + 1)
           /\ event.kind \in Terminal <=> Ended(event.attempt, n + 1)
           /\ event.attempt \in open <=> n # 0
  BY <1>2, <1>3, NextOfItsAttempt
<1>5. PICK a \in Attempts : a = event.attempt
  BY <1>4 DEF Events
<1>6. PICK n \in Nat :
        /\ event.sequence = n + 1
        /\ Follows(B, a, n)
        /\ n + 1 \in 1 .. sequence[a]
        /\ KindFits(a, event.kind, n + 1)
        /\ event.kind \in Terminal <=> Ended(a, n + 1)
        /\ a \in open <=> n # 0
  BY <1>4, <1>5
<1>7. /\ recorder' = "recording"
      /\ a \in open' <=> ~Ended(a, n + 1)
      /\ built'[a] = IF a \in open' THEN B[a][AgentEventsIn(a, n + 1)] ELSE EmptyBuilder
      /\ \A o \in Attempts : o # a => (o \in open' <=> o \in open) /\ built'[o] = built[o]
      /\ open' \subseteq Attempts
      /\ built' = [o \in Attempts |-> built'[o]]
      /\ trial' = [o \in Attempts |-> trial'[o]]
      /\ trial'[a] # None => trial'[a] = trial[a] \/ (Ended(a, n + 1) /\ trial'[a] = TrialOf(B, a))
      /\ \A o \in Attempts : o # a => trial'[o] = trial[o]
  BY <1>2, <1>3, <1>4, <1>5, <1>6, ApplyFacts
<1>8. /\ unread' \in [Subscribers -> 0 .. Capacity + 1] /\ ring' = ring
      /\ \A s \in Subscribers : unread'[s] <= Capacity => unread'[s] <= Len(ring)
  BY <1>1, <1>2, ReceiveFacts DEF Receive, Subscribers
<1>9. TypeOK'
  BY <1>1, <1>3, <1>7, <1>8, RecordingAssumption
  DEF TypeOK, Lagging, attemptVars, progressVars
<1>10. /\ \A o \in Attempts : StageFits(o, stage[o], sequence[o])'
       /\ RingInv'
  BY <1>1, <1>3, <1>8 DEF StageFits, Length, RingInv, KindFits, attemptVars
<1>11. FollowInv(B)'
  <2>1. n + 1 <= sequence[a] /\ UNCHANGED <<sequence, stage, recorder>>
    BY <1>3, <1>6, <1>7 DEF attemptVars
  <2> QED
    BY <1>2, <1>3, <1>5, <1>6, <1>7, <2>1, FollowOn
<1>12. TrialInv(B)'
  <2>1. UNCHANGED <<sequence, stage>>
    BY <1>3 DEF attemptVars
  <2>2. ASSUME NEW o \in Attempts, trial'[o] # None
        PROVE  stage'[o] = "done" /\ trial'[o] = TrialOf(B, o)
    BY <1>1, <1>7, <2>1, <2>2 DEF TrialInv, Ended
  <2>3. \A o \in Attempts : TrialOf(B, o)' = TrialOf(B, o)
    BY <2>1 DEF TrialOf, AgentEventsIn, Length
  <2> QED
    BY <2>2, <2>3 DEF TrialInv
<1>13. TasksInv'
  BY <1>1, <1>3, <1>7 DEF TasksInv, progressVars
<1> QED
  BY <1>9, <1>10, <1>11, <1>12, <1>13 DEF IInv
-----------------------------------------------------------------------------
(* The other steps of the three tasks *)

\* A step that leaves the attempts and the channel alone.
LEMMA QuietKeeps ==
  ASSUME NEW B, IInv(B), TypeOK', TasksInv',
         UNCHANGED <<attemptVars, ring, open, built, trial>>,
         recorder' = "recording" =>
           recorder = "recording" /\ unread'["recorder"] = unread["recorder"]
  PROVE  IInv(B)'
<1>1. \A o \in Attempts : StageFits(o, stage[o], sequence[o])'
  BY DEF IInv, StageFits, Length, attemptVars
<1>2. RingInv'
  BY DEF IInv, RingInv, KindFits, Length, attemptVars
<1>3. FollowInv(B)'
  <2>1. SUFFICES ASSUME recorder' = "recording", ~Lagging("recorder")', NEW o \in Attempts
                 PROVE  \E n \in 0 .. sequence'[o] : Follows(B, o, n)'
    BY DEF FollowInv
  <2>2. PICK n \in 0 .. sequence[o] : Follows(B, o, n)
    BY <2>1 DEF IInv, FollowInv, Lagging
  <2>3. Follows(B, o, n)'
    BY <2>1, <2>2 DEF Follows, Ended, AgentEventsIn, Length, attemptVars
  <2> QED
    BY <2>2, <2>3 DEF attemptVars
<1>4. TrialInv(B)'
  BY DEF IInv, TrialInv, TrialOf, AgentEventsIn, Length, attemptVars
<1> QED
  BY <1>1, <1>2, <1>3, <1>4 DEF IInv

\* The counts the tasks wait for do not change without them.
LEMMA TasksKeep ==
  ASSUME TasksInv, UNCHANGED <<trial, outcomes>>,
         recorder' = "finished" => recorder = "finished" \/ Cardinality(completed) = Expected,
         progress' = "counted" => progress = "counted" \/ Cardinality(outcomes) >= Expected,
         main' \in {"progress", "reported"} => recorder' = "finished",
         main' = "reported" => progress' = "counted"
  PROVE  TasksInv'
BY DEF TasksInv, completed

LEMMA RecorderKeeps ==
  ASSUME NEW B, IsProjection(B), IInv(B), RecorderStep
  PROVE  IInv(B)'
<1>1. TypeOK /\ TasksInv
  BY DEF IInv
<1>2. CASE RecorderError
  <2>1. /\ UNCHANGED <<attemptVars, ring, unread, open, built, trial, finish, progressVars, main>>
        /\ recorder = "recording" /\ recorder' \in {"lagged", "io"}
    BY <1>2 DEF RecorderError, Selecting
  <2>2. TypeOK' /\ TasksInv'
    BY <1>1, <2>1, TasksKeep DEF TypeOK, TasksInv, Lagging, attemptVars, progressVars
  <2> QED
    BY <2>1, <2>2, QuietKeeps
<1>3. CASE TakeFinish
  <2>1. TypeOK' /\ TasksInv'
    BY <1>1, <1>3, TasksKeep
    DEF TypeOK, TasksInv, Lagging, TakeFinish, attemptVars, recorderVars, progressVars
  <2> QED
    BY <1>3, <2>1, QuietKeeps DEF TakeFinish, recorderVars
<1>4. CASE Commit
  <2>1. TypeOK' /\ TasksInv'
    BY <1>1, <1>4, TasksKeep
    DEF TypeOK, TasksInv, Lagging, Commit, ReadyToCommit, attemptVars, progressVars
  <2> QED
    BY <1>4, <2>1, QuietKeeps DEF Commit
<1> QED
  BY <1>2, <1>3, <1>4, RecordKeeps DEF RecorderStep

LEMMA CountKeeps ==
  ASSUME NEW B, IInv(B), Count
  PROVE  IInv(B)'
<1>1. TypeOK /\ TasksInv /\ "progress" \in Subscribers /\ "recorder" \in Subscribers
  BY DEF IInv, Subscribers
<1>2. progress = "counting" /\ UNCHANGED <<attemptVars, open, built, trial, recorder, finish, main>>
  BY DEF Count, recorderVars
<1>3. CASE UNCHANGED <<ring, unread, outcomes>>
  <2>1. TypeOK'
    BY <1>1, <1>2, <1>3 DEF Count, TypeOK, Lagging, attemptVars
  <2>2. TasksInv'
    BY <1>1, <1>2, <1>3, TasksKeep DEF Count, TasksInv
  <2> QED
    BY <1>2, <1>3, <2>1, <2>2, QuietKeeps
<1>4. ASSUME NEW event, Receive("progress", event),
             outcomes' = IF event.kind \in {"completed", "failed"}
                         THEN outcomes \union {event.attempt} ELSE outcomes,
             UNCHANGED progress
      PROVE  IInv(B)'
  <2>1. /\ event \in Events /\ ring' = ring
        /\ unread' = [unread EXCEPT !["progress"] = unread["progress"] - 1]
        /\ unread' \in [Subscribers -> 0 .. Capacity + 1]
        /\ \A s \in Subscribers : unread'[s] <= Capacity => unread'[s] <= Len(ring)
    BY <1>1, <1>4, ReceiveFacts DEF Receive
  <2>2. outcomes' \subseteq Attempts
    BY <1>1, <1>4, <2>1 DEF TypeOK, Events
  <2>3. TypeOK'
    BY <1>1, <1>2, <1>4, <2>1, <2>2, RecordingAssumption DEF TypeOK, Lagging, attemptVars
  <2>4. TasksInv'
    BY <1>1, <1>2, <1>4 DEF TasksInv, completed
  <2>5. unread'["recorder"] = unread["recorder"]
    BY <1>1, <2>1 DEF TypeOK
  <2> QED
    BY <1>2, <2>1, <2>3, <2>4, <2>5, QuietKeeps
<1> QED
  BY <1>3, <1>4 DEF Count

LEMMA MainKeeps ==
  ASSUME NEW B, IInv(B), SweepReturns \/ FinishAll \/ Join
  PROVE  IInv(B)'
<1>1. TypeOK /\ TasksInv
  BY DEF IInv
<1>2. UNCHANGED <<attemptVars, ring, unread, recorderVars, progressVars>>
  BY DEF SweepReturns, FinishAll, Join
<1>3. finish' \in {"unsent", "sent", "taken"}
  BY <1>1 DEF SweepReturns, FinishAll, Join, TypeOK
<1>4. main' \in {"sweeping", "finishing", "recorder", "progress", "reported", "error"}
  BY DEF SweepReturns, FinishAll, Join
<1>5. TypeOK'
  BY <1>1, <1>2, <1>3, <1>4 DEF TypeOK, Lagging, attemptVars, recorderVars, progressVars
<1>6. /\ main' \in {"progress", "reported"} => recorder = "finished"
      /\ main' = "reported" => progress = "counted"
  BY <1>1 DEF SweepReturns, FinishAll, Join, TasksInv
<1>7. TasksInv'
  BY <1>1, <1>2, <1>6 DEF TasksInv, completed, recorderVars, progressVars
<1> QED
  BY <1>2, <1>5, <1>7, QuietKeeps DEF recorderVars

\* Every step.
LEMMA NextIInv ==
  ASSUME NEW B, IsProjection(B), IInv(B), [Next]_vars
  PROVE  IInv(B)'
<1>1. CASE UNCHANGED vars
  <2>1. TypeOK' /\ TasksInv'
    BY <1>1 DEF IInv, TypeOK, TasksInv, completed, Lagging, vars, attemptVars, recorderVars, progressVars
  <2> QED
    BY <1>1, <2>1, QuietKeeps DEF vars, recorderVars
<1>2. CASE Next
  BY <1>2, AttemptKeeps, RecorderKeeps, CountKeeps, MainKeeps DEF Next
<1> QED
  BY <1>1, <1>2

LEMMA Invariant ==
  ASSUME NEW B, IsProjection(B)
  PROVE  Spec => []IInv(B)
<1>1. Init => IInv(B)
  BY InitIInv
<1>2. IInv(B) /\ [Next]_vars => IInv(B)'
  BY NextIInv
<1> QED
  BY <1>1, <1>2, PTL DEF Spec
-----------------------------------------------------------------------------
(* There is a projection *)

\* B[a] exists up to each event of a's script.
BuildsUpTo(a, f, k) ==
  /\ f[0] = EmptyBuilder
  /\ \A n \in 1 .. k : f[n] = ApplyEvent(f[n - 1], Script[a][n])

\* The least event up to which there is none would be built from the one before.
LEMMA BuildersExist ==
  ASSUME NEW a \in Attempts
  PROVE  \E f : BuildsUpTo(a, f, Length(a))
<1>1. Length(a) \in Nat
  BY RecordingAssumption DEF Length
<1>2. PICK T : T = {k \in Nat : k <= Length(a) /\ ~\E f : BuildsUpTo(a, f, k)}
  OBVIOUS
<1>3. SUFFICES ASSUME T # {} PROVE FALSE
  BY <1>1, <1>2
<1>4. PICK m \in T : \A k \in T : <<k, m>> \notin OpToRel(<, Nat)
  <2>1. T \subseteq Nat
    BY <1>2
  <2> QED
    BY <1>3, <2>1, NatLessThanWellFounded, WFMin, Zenon
<1>5. m \in Nat /\ m <= Length(a) /\ ~\E f : BuildsUpTo(a, f, m)
  BY <1>2
<1>6. m # 0
  <2>1. BuildsUpTo(a, [i \in {0} |-> EmptyBuilder], 0)
    BY DEF BuildsUpTo
  <2> QED
    BY <1>5, <2>1
<1>7. PICK j \in Nat : m = j + 1 /\ j < m /\ j <= Length(a)
  <2>1. m - 1 \in Nat /\ m = (m - 1) + 1 /\ m - 1 < m /\ m - 1 <= Length(a)
    BY <1>1, <1>5, <1>6
  <2> QED
    BY <2>1
<1>8. <<j, m>> \in OpToRel(<, Nat)
  BY <1>5, <1>7 DEF OpToRel
<1>9. PICK f : BuildsUpTo(a, f, j)
  BY <1>2, <1>4, <1>7, <1>8
<1>10. BuildsUpTo(a, [i \in 0 .. m |-> IF i = m THEN ApplyEvent(f[j], Script[a][m]) ELSE f[i]], m)
  <2> DEFINE g == [i \in 0 .. m |-> IF i = m THEN ApplyEvent(f[j], Script[a][m]) ELSE f[i]]
  <2>1. g[0] = EmptyBuilder
    BY <1>5, <1>6, <1>9 DEF BuildsUpTo
  <2>2. ASSUME NEW n \in 1 .. m PROVE g[n] = ApplyEvent(g[n - 1], Script[a][n])
    <3>1. CASE n = m
      BY <1>5, <1>7, <3>1
    <3>2. CASE n # m
      <4>1. n \in 1 .. j /\ n - 1 \in 0 .. m /\ n - 1 # m /\ n \in 0 .. m
        BY <1>5, <1>7, <3>2
      <4> QED
        BY <1>9, <3>2, <4>1 DEF BuildsUpTo
    <3> QED
      BY <3>1, <3>2
  <2> QED
    BY <2>1, <2>2 DEF BuildsUpTo
<1> QED
  BY <1>5, <1>10

LEMMA ProjectionExists == \E B : IsProjection(B)
<1>1. PICK B : B = [a \in Attempts |-> CHOOSE f : BuildsUpTo(a, f, Length(a))]
  OBVIOUS
<1>2. \A a \in Attempts : BuildsUpTo(a, B[a], Length(a))
  BY <1>1, BuildersExist
<1> QED
  BY <1>2 DEF IsProjection, BuildsUpTo
-----------------------------------------------------------------------------
\* Every variable of the attempts, the channel and the three tasks stays within
\* its type. For the recorder this says that it never meets an event of an
\* attempt it does not know, nor a second start of one it does: the errors for
\* these are unreachable.
THEOREM Typing == Spec => []TypeOK
<1>1. PICK B : IsProjection(B)
  BY ProjectionExists
<1>2. Spec => []IInv(B)
  BY <1>1, Invariant
<1>3. IInv(B) => TypeOK
  BY DEF IInv
<1> QED
  BY <1>2, <1>3, PTL

\* A job that is committed with the number of attempts of the sweep holds a
\* trial of each of them, whatever order the recorder meets the request and the
\* last events in.
THEOREM CommitsAreComplete ==
  Expected = Cardinality(Attempts) => (Spec => []CommitMeansAllRecorded)
<1> SUFFICES ASSUME Expected = Cardinality(Attempts)
             PROVE  Spec => []CommitMeansAllRecorded
  OBVIOUS
<1>1. PICK B : IsProjection(B)
  BY ProjectionExists
<1>2. Spec => []IInv(B)
  BY <1>1, Invariant
<1>3. TasksInv => CommitMeansAllRecorded
  <2>1. completed \subseteq Attempts
    BY DEF completed
  <2>2. Cardinality(completed) = Cardinality(Attempts) => completed = Attempts
    BY <2>1, FS_Subset, RecordingAssumption
  <2> QED
    BY <2>2 DEF TasksInv, CommitMeansAllRecorded
<1>4. IInv(B) => CommitMeansAllRecorded
  BY <1>3 DEF IInv
<1> QED
  BY <1>2, <1>4, PTL

\* A run that reports has recorded and counted every attempt: a subscriber that
\* fell behind or failed can only turn it into an error.
THEOREM ReportsAreComplete ==
  Expected = Cardinality(Attempts) => (Spec => []ReportIsComplete)
<1> SUFFICES ASSUME Expected = Cardinality(Attempts)
             PROVE  Spec => []ReportIsComplete
  OBVIOUS
<1>1. PICK B : IsProjection(B)
  BY ProjectionExists
<1>2. Spec => []IInv(B)
  BY <1>1, Invariant
<1>3. IInv(B) => ReportIsComplete
  <2>1. SUFFICES ASSUME TasksInv, main = "reported", outcomes \subseteq Attempts
                 PROVE  completed = Attempts /\ outcomes = Attempts
    BY DEF IInv, TypeOK, ReportIsComplete
  <2>2. completed \subseteq Attempts
    BY DEF completed
  <2>3. Cardinality(completed) = Cardinality(Attempts) /\ Cardinality(outcomes) >= Cardinality(Attempts)
    BY <2>1 DEF TasksInv
  <2>4. /\ Cardinality(outcomes) <= Cardinality(Attempts)
        /\ Cardinality(outcomes) \in Nat /\ Cardinality(Attempts) \in Nat
    BY <2>1, FS_Subset, FS_CardinalityType, RecordingAssumption
  <2>5. Cardinality(outcomes) = Cardinality(Attempts)
    BY <2>3, <2>4
  <2> QED
    BY <2>1, <2>2, <2>3, <2>5, FS_Subset, RecordingAssumption
<1> QED
  BY <1>2, <1>3, PTL

\* What TrajectoriesMatchEvents needs of the recorder: a trial is written once
\* its attempt has ended, from the projection of all the events its agent
\* emitted until then, each applied once and in order, however far the recorder
\* was behind and however the events of other attempts came between.
THEOREM TrialsFollowTheirEvents ==
  ASSUME NEW B, IsProjection(B)
  PROVE  Spec => [](\A a \in completed : stage[a] = "done" /\ trial[a] = TrialOf(B, a))
<1>1. Spec => []IInv(B)
  BY Invariant
<1>2. IInv(B) => \A a \in completed : stage[a] = "done" /\ trial[a] = TrialOf(B, a)
  BY DEF IInv, TrialInv, completed
<1> QED
  BY <1>1, <1>2, PTL
=============================================================================

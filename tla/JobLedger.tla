------------------------------ MODULE JobLedger ------------------------------
(***************************************************************************)
(* What a job promises to whoever repeats a command, with no process,      *)
(* lease, directory or crash in sight: it is bound to one sweep for good,  *)
(* each attempt of that sweep is entered once and stays, and the job is    *)
(* finished, for good, only when all of them are entered.                  *)
(***************************************************************************)
CONSTANTS Jobs,
          Attempts,
          Sweeps     \* the sets of attempts that commands ask for

VARIABLES sweep,     \* what each job is bound to; {} before it is
          entries,   \* entries[j][t]: how often attempt t is entered
          finished   \* the jobs whose result has a finished_at

ledger == <<sweep, entries, finished>>

Init ==
  /\ sweep = [j \in Jobs |-> {}]
  /\ entries = [j \in Jobs |-> [t \in Attempts |-> 0]]
  /\ finished = {}

Bind(j, asked) ==
  /\ sweep[j] = {}
  /\ sweep' = [sweep EXCEPT ![j] = asked]
  /\ UNCHANGED <<entries, finished>>

Enter(j, t) ==
  /\ t \in sweep[j] /\ entries[j][t] = 0
  /\ entries' = [entries EXCEPT ![j][t] = 1]
  /\ UNCHANGED <<sweep, finished>>

Finish(j) ==
  /\ sweep[j] # {} /\ \A t \in sweep[j] : entries[j][t] = 1
  /\ finished' = finished \union {j}
  /\ UNCHANGED <<sweep, entries>>

Next ==
  \E j \in Jobs :
    \/ \E asked \in Sweeps : Bind(j, asked)
    \/ \E t \in Attempts : Enter(j, t)
    \/ Finish(j)

Spec == Init /\ [][Next]_ledger
=============================================================================

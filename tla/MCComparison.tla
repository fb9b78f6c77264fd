---------------------------- MODULE MCComparison ----------------------------
(* A comparison of a two-task job next to one that refreshes the archive and  *)
(* shows a trajectory, while a second revision replaces some of the results.  *)
EXTENDS Comparison

CONSTANTS plain, refreshing, fix, build

Published(task, submission, trial, checksum, reward) ==
  [task |-> task, submission |-> submission, run |-> "run", trial |-> trial, checksum |-> checksum,
   reward |-> reward, errored |-> FALSE, trajectory |-> reward > 0]

MCArchive ==
  << {Published(fix, 1, "a", "old", 1), Published(build, 1, "b", "old", 0)},
     {Published(fix, 1, "c", "old", 1), Published(fix, 2, "d", "new", 1), Published(build, 1, "b", "old", 1)} >>

Trial(task, trial, checksum, reward) ==
  [task |-> task, trial |-> trial, checksum |-> checksum, agent |-> "nanocodex",
   reward |-> reward, errored |-> FALSE]

MCLocalTrials == {Trial(fix, "x", "old", 0), Trial(build, "z", "old", 1)}

MCCommands == {plain, refreshing}

MCOptions ==
  [p \in MCCommands |->
     IF p = plain THEN [refresh |-> FALSE, task |-> None, show |-> None, limit |-> 1]
                  ELSE [refresh |-> TRUE, task |-> fix, show |-> 1, limit |-> 1]]

MCQueries == {plain, refreshing} \X {fix, build, Drill}

(* One command alone, its job complete, nothing published meanwhile. *)
OneCommand == {plain}
OneQueries == {plain} \X {fix, build, Drill}
OneArchive == <<{Published(fix, 1, "a", "old", 1), Published(build, 1, "b", "old", 1)}>>
OneJob == {Trial(fix, "x", "old", 0), Trial(build, "z", "old", 1)}
=============================================================================

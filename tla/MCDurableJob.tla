---------------------------- MODULE MCDurableJob ----------------------------
EXTENDS DurableJob

CONSTANTS p1, p2, p3, t1, t2

(* Two commands that ask for the same sweep of two attempts, and one that     *)
(* asks for a part of it and so must keep to a job of its own.                *)
MCThree == {p1, p2, p3}
MCTwo == {p1, p2}
MCAttempts == {t1, t2}
MCWanted == [p \in Processes |-> IF p = p3 THEN {t2} ELSE MCAttempts]
MCMatches == [t \in MCAttempts |-> {t}]

(* Two tasks whose names end alike: both attempts have the same prefix. *)
MCSamePrefix == [t \in MCAttempts |-> MCAttempts]
=============================================================================

---------------------------- MODULE MCVmSession ----------------------------
EXTENDS VmSession

CONSTANTS c1, c2, c3

(* Two callers with four requests between them, or three with three. *)
MCTwo == {c1, c2}
MCThree == {c1, c2, c3}
=============================================================================

---------------------------- MODULE MCAnoDaemon ----------------------------
(* Small instances of AnoDaemon for TLC.                                   *)
EXTENDS AnoDaemon, TLC

CONSTANTS c1, c2, v1, v2

\* Every client runs the same binary; a daemon of another version exists only
\* if the operator starts it.
SameVersion == [c \in Clients |-> v1]

\* Daemons of the other version refuse the command of c2.
RefusedByOther == [v \in Versions |-> IF v = v1 THEN {} ELSE {c2}]

DaemonSymmetry == Permutations(Daemons)
=============================================================================

-------------------------- MODULE MCCommandDispatch --------------------------
(* CommandDispatch with a few requests for TLC.                            *)
EXTENDS CommandDispatch

CONSTANTS r1, r2, r3

ThreeRequests == {r1, r2, r3}

\* The stdio host answers the third one itself.
OneUnfit == {r3}
=============================================================================

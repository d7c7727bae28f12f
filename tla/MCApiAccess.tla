---------------------------- MODULE MCApiAccess ----------------------------
(* ApiAccess with a few commands and two accounts for TLC.                 *)
EXTENDS ApiAccess, TLC

CONSTANTS c1, c2, c3, a1, a2

ThreeCommands == {c1, c2, c3}
TwoAccounts == {a1, a2}
TwoPaths == {"list_channels", "list_dms"}
OnlyChannels == {"list_channels"}
CommandSymmetry == Permutations(Commands)
=============================================================================

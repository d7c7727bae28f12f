--------------------------- MODULE MCCredentials ---------------------------
(* Two commands, a workspace on a regional host and one of staging. *)
EXTENDS Credentials, TLC

CONSTANTS c1, c2, prodWs, stagingWs

MCCommands == {c1, c2}
MCProfiles == {"default", "local"}
MCWorkspaces == {prodWs, stagingWs}
MCHomeOf == (prodWs :> "eu") @@ (stagingWs :> "staging")

\* No file; one profile of either environment; both, one of them named "local";
\* no profile named "default".
Of(w, h) == EntryOf(w, Old, h, "signin")
MCFirstFiles ==
  {NoFile,
   [NoProfiles EXCEPT !["default"] = Of(prodWs, "apex")],
   [NoProfiles EXCEPT !["default"] = Of(stagingWs, "staging")],
   [NoProfiles EXCEPT !["default"] = Of(prodWs, "apex"), !["local"] = Of(stagingWs, "staging")],
   [NoProfiles EXCEPT !["local"] = Of(prodWs, "apex")]}

Symmetry == Permutations(MCCommands)
=============================================================================

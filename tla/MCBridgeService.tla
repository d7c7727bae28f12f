--------------------------- MODULE MCBridgeService ---------------------------
(* A small instance of BridgeService for TLC.                              *)
EXTENDS BridgeService
=============================================================================

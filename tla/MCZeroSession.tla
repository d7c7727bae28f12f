---------------------------- MODULE MCZeroSession ----------------------------
(* ZeroSession with small bounds, given in MCZeroSession.cfg.              *)
EXTENDS ZeroSession
=============================================================================

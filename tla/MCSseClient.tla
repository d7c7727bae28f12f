---------------------------- MODULE MCSseClient ----------------------------
(* Instance of SseClient for TLC: lines ended by \n. *)
EXTENDS SseClient

EndsInLF == <<LF>>
=============================================================================

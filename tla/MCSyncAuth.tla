----------------------------- MODULE MCSyncAuth -----------------------------
(* Two goroutines, one event ID more than the guard holds, a window of two  *)
(* ticks, senders whose clocks are on time or ahead, and a clock that may   *)
(* be set back.                                                             *)
EXTENDS SyncAuth, TLC

Symmetry == Permutations(Workers) \cup Permutations(Ids)
=============================================================================

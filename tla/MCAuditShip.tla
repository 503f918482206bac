---------------------------- MODULE MCAuditShip ----------------------------
(* Goroutines that race on a short log and ship what they append, with      *)
(* crashes, conversions of an older log and failing stores.                 *)
EXTENDS AuditShip
=============================================================================

----------------------------- MODULE MCService -----------------------------
(* Two packages a product mounts side by side: the key file its processes   *)
(* share, and its health handler.  They share no state, so it is enough to  *)
(* explore one while the other is at rest; active says which one a          *)
(* behaviour exercises.                                                     *)
EXTENDS KeyFile, Health

VARIABLE active

ServiceInit ==
  /\ Init /\ HealthInit /\ active \in {"keyfile", "health"}
  /\ active = "health" => folder = "absent"

ServiceNext ==
  /\ \/ active = "keyfile" /\ Next /\ UNCHANGED healthVars
     \/ active = "health" /\ HealthNext /\ UNCHANGED vars
  /\ UNCHANGED active

(* Health's fairness; a process of KeyFile may stop anywhere. *)
ServiceSpec ==
  /\ ServiceInit /\ [][ServiceNext]_<<vars, healthVars, active>>
  /\ active = "health" => HealthFairness
=============================================================================

------------------------------ MODULE MCUpkeep ------------------------------
(* What recoveryclient does on a timer, in one instance.  The schedule and  *)
(* the drills share no state, so a behaviour of the two is any interleaving *)
(* of one of each: it is enough to explore either one while the other is at *)
(* rest, a schedule that is off or a root nobody drills in, and active says *)
(* which one the instance exercises.                                        *)
EXTENDS Schedule, Drill

VARIABLE active  \* what the product does

(* Negative, too short, too long, and long enough to wrap a 32-value word   *)
(* to zero.                                                                 *)
EditedRows == {Garbage, -1, 1, 5, 16}

UpkeepInit ==
  /\ Init /\ DrillInit /\ active \in {"schedule", "drill"}
  /\ active = "drill" => default = 0

UpkeepNext ==
  /\ \/ active = "schedule" /\ Next /\ UNCHANGED drillVars
     \/ active = "drill" /\ DrillNext /\ UNCHANGED vars
  /\ UNCHANGED active

(* Each half is scheduled fairly while it is the one that runs. *)
UpkeepSpec ==
  /\ UpkeepInit /\ [][UpkeepNext]_<<vars, drillVars, active>>
  /\ active = "schedule" => Fairness
  /\ active = "drill" => DrillFairness

\* Interval, Drill and sweepStaleDrills: only "0" turns backups off, and a
\* scratch directory is there while its drill is busy in it, and otherwise only
\* after a kill or a removal that failed.
RowsAndSandboxes == TypeOK /\ OnlyZeroIsOff /\ LiveNotSwept /\ PlaintextWiped
=============================================================================

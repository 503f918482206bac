------------------------------- MODULE Drill -------------------------------
(***************************************************************************)
(* recoveryclient/drill.go: restore drills of several processes under one  *)
(* scratch root.  A drill sweeps stale scratch directories, seals to a     *)
(* throwaway key, opens into a directory of its own, runs the product's    *)
(* checks and removes the directory; a killed drill leaves its plaintext   *)
(* for a later sweep, which goes by age alone.                             *)
(* Ages are relative and capped, so that time needs no end; nothing bounds  *)
(* how long a drill takes.                                                 *)
(***************************************************************************)
EXTENDS Integers, FiniteSets

CONSTANTS
  Drills,             \* processes that drill
  staleDrill,         \* age beyond which a directory is residue
  MaxFaults,          \* bound: removals that fail
  Killed, Unremoved   \* whose a directory is once its drill was killed, or could not remove it

ASSUME DrillAssumption ==
  /\ staleDrill \in Nat \ {0} /\ MaxFaults \in Nat
  /\ Killed \notin Drills /\ Unremoved \notin Drills /\ Killed # Unremoved

VARIABLES
  call,     \* per process: [pc, ok, quiet]: the verdict so far, or of the last drill,
            \* and the time since the drill last wrote into its directory
  dirs,     \* scratch directories: [by, age], age being that of the modification time
  faults    \* removals that may still fail

drillVars == <<call, dirs, faults>>

NoCall == [pc |-> "idle", ok |-> FALSE, quiet |-> 0]
Own(d) == {x \in dirs : x.by = d}
Oldest == staleDrill + 1

DrillInit ==
  /\ call = [d \in Drills |-> NoCall]
  /\ dirs = {} /\ faults = MaxFaults

SweptAll == dirs                                  \* variant with a bug: age is not looked at
SweptNone == {}                                   \* variant with a bug: nothing is swept

\* What sweepStaleDrills takes for residue: age is all it looks at.
Residue == {x \in dirs : x.age > staleDrill}

\* The root may be unreadable, or a directory not removable: both are ignored.
Begin(d) ==
  /\ call[d].pc = "idle"
  /\ \/ dirs' = dirs \ Residue /\ UNCHANGED faults
     \/ /\ faults > 0 /\ faults' = faults - 1
        /\ \E stuck \in SUBSET Residue : dirs' = dirs \ (Residue \ stuck)
  /\ call' = [call EXCEPT ![d] = [NoCall EXCEPT !.pc = "seal"]]

\* A cancelled context, or no throwaway key: an error and no result.
GivesUp(d) ==
  /\ call[d].pc = "seal"
  /\ call' = [call EXCEPT ![d] = NoCall]
  /\ UNCHANGED <<dirs, faults>>

\* The deferred os.RemoveAll, whose error nobody sees: it takes the directory,
\* if a sweep has not, or leaves some of it.
NotRemoved(d) == dirs                             \* variant with a bug
Removed(d) == dirs \ Own(d)

Left(d, whose, age) == (dirs \ Own(d)) \cup {[by |-> whose, age |-> age] : x \in Own(d)}

\* finish: passed only if there were checks and all of them passed.
Finish(d, passed) ==
  /\ \/ dirs' = Removed(d) /\ UNCHANGED faults
     \/ /\ faults > 0 /\ faults' = faults - 1
        /\ \E age \in {0, call[d].quiet} : dirs' = Left(d, Unremoved, age)
  /\ call' = [call EXCEPT ![d] = [NoCall EXCEPT !.ok = passed]]

\* A capsule that cannot be sealed, or no sandbox: a failed check ends the drill.
SealFails(d) == call[d].pc = "seal" /\ Finish(d, FALSE)

Sandbox(d) ==
  /\ call[d].pc = "seal"
  /\ dirs' = dirs \cup {[by |-> d, age |-> 0]}
  /\ call' = [call EXCEPT ![d].pc = "open"]
  /\ UNCHANGED faults

\* Opening writes the members, which renews the directory's modification time;
\* it makes the directory anew if a sweep took it.
Open(d) ==
  /\ call[d].pc = "open"
  /\ dirs' = (dirs \ Own(d)) \cup {[by |-> d, age |-> 0]}
  /\ call' = [call EXCEPT ![d] = [pc |-> "check", ok |-> TRUE, quiet |-> 0]]
  /\ UNCHANGED faults

OpenFails(d) == call[d].pc = "open" /\ Finish(d, FALSE)

\* The product's checks look at the directory, and fail if it is gone.
Checks(d, passed) ==
  /\ call[d].pc = "check"
  /\ Finish(d, call[d].ok /\ passed /\ Own(d) # {})

\* A killed drill leaves its directory.
Kill(d) ==
  /\ call[d].pc # "idle"
  /\ dirs' = Left(d, Killed, call[d].quiet)
  /\ call' = [call EXCEPT ![d] = NoCall]
  /\ UNCHANGED faults

Older(age) == IF age < Oldest THEN age + 1 ELSE age

\* Time passes, for drills in flight too, however long they take.
DrillTick ==
  /\ dirs' = {[x EXCEPT !.age = Older(@)] : x \in dirs}
  /\ call' = [d \in Drills |-> IF call[d].pc \in {"open", "check"}
                               THEN [call[d] EXCEPT !.quiet = Older(@)] ELSE call[d]]
  /\ UNCHANGED faults

DrillNext ==
  \/ \E d \in Drills :
       \/ Begin(d) \/ GivesUp(d) \/ SealFails(d) \/ Sandbox(d) \/ Open(d) \/ OpenFails(d)
       \/ \E passed \in BOOLEAN : Checks(d, passed)
       \/ Kill(d)
  \/ DrillTick

DrillSpec == DrillInit /\ [][DrillNext]_drillVars

\* Drills are started again and again, run to an end or are killed, and time passes.
Ends(d) == GivesUp(d) \/ SealFails(d) \/ OpenFails(d) \/ \E passed \in BOOLEAN : Checks(d, passed)
DrillFairness ==
  /\ WF_drillVars(DrillTick)
  /\ \A d \in Drills : WF_drillVars(Begin(d)) /\ WF_drillVars(Ends(d))

----------------------------------------------------------------------------
\* Properties

\* A drill that wrote into its directory within the last staleDrill has it: a
\* sweep of another process does not take it for the residue of a killed run
\* (drill.go:117-119).  One that was quiet for longer may lose it.
LiveNotSwept ==
  \A d \in Drills :
    call[d].pc \in {"open", "check"} /\ call[d].quiet <= staleDrill => Own(d) # {}

\* A scratch directory lies under the root only while its drill runs, after it
\* was killed, or because a removal failed: every way a drill returns wipes it
\* (drill.go:41-42).
PlaintextWiped ==
  \A x \in dirs :
    /\ x.by \in Drills => call[x.by].pc \in {"open", "check"}
    /\ x.by = Unremoved => faults < MaxFaults

Stale == {x \in dirs : x.by \notin Drills /\ x.age > staleDrill}

\* What a killed drill left behind, or one that could not remove it, is removed
\* by a later one, unless removals fail for ever (drill.go:46-47).
ResidueRemoved == Stale # {} ~> Stale = {}
=============================================================================

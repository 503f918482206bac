---------------------------- MODULE UpkeepProofs ----------------------------
(***************************************************************************)
(* Proofs about what recoveryclient does on a timer: Schedule for every    *)
(* interval, row, word and clock, Drill for any number of processes.       *)
(***************************************************************************)
EXTENDS MCUpkeep, TLAPS

-----------------------------------------------------------------------------
(* Schedule: a stamp is never a second older than the attempt it stands    *)
(* for, whatever the clock was set to since.                               *)

StampTrue ==
  stamp \notin {None, Garbage} =>
    /\ stamp <= elapsed + Second - 1
    /\ steps => stamp >= 0

ScheduleInv == TypeOK /\ steps \in BOOLEAN /\ StampTrue

\* Multiplying by a natural keeps the order.
LEMMA TimesKeepsOrder ==
  ASSUME NEW a \in Nat, NEW b \in Nat, NEW n \in Nat, a <= b
  PROVE  a * n <= b * n /\ a * n \in Nat /\ b * n \in Nat
<1>1. b * n = a * n + (b - a) * n
  OBVIOUS
<1>2. (b - a) * n \in Nat /\ a * n \in Nat /\ b * n \in Nat
  <2>1. b - a \in Nat
    OBVIOUS
  <2> QED
    BY <2>1
<1> QED
  BY <1>1, <1>2

\* A number below the modulus is its own remainder.
LEMMA SmallRemainder ==
  ASSUME NEW x \in Nat, NEW w \in Nat, x < w
  PROVE  x % w = x
OBVIOUS

\* Duration does not wrap a number of seconds validSeconds lets through.
LEMMA DurationExact ==
  ASSUME NEW sec \in Nat, sec <= MaxInterval
  PROVE  Duration(sec) = sec * Second
<1>1. sec * Second <= MaxInterval * Second /\ sec * Second \in Nat
  BY TimesKeepsOrder, ScheduleAssumption
<1>2. 2 * (MaxInterval * Second) < Word /\ MaxInterval * Second \in Nat /\ Word \in Nat
  <2>1. 2 * MaxInterval * Second = 2 * (MaxInterval * Second)
    BY ScheduleAssumption
  <2> QED
    BY <2>1, ScheduleAssumption
<1> DEFINE x == sec * Second
           y == MaxInterval * Second
<1> HIDE DEF x, y
<1>3. x \in Nat /\ x <= y /\ y \in Nat /\ 2 * y < Word /\ Word \in Nat
  BY <1>1, <1>2 DEF x, y
<1>4. x % Word = x
  BY <1>3, SmallRemainder
<1>5. ~(x >= Word \div 2)
  <2>1. Word % 2 = 0
    BY ScheduleAssumption
  <2> QED
    BY <1>3, <2>1
<1> QED
  BY <1>4, <1>5 DEF Duration, x

\* A row that is a number sets an interval only within its bounds.
LEMMA RowInterval ==
  ASSUME row \in Int, Interval # None
  PROVE  \/ row = 0 /\ Interval = 0
         \/ row # 0 /\ Interval >= MinInterval * Second /\ Interval > 0 /\ Interval \in Nat
<1>1. validSeconds(row) /\ Interval = Duration(row)
  BY RowsAssumption DEF Interval
<1>2. CASE row = 0
  <2>1. Duration(0) = 0 * Second
    BY DurationExact, ScheduleAssumption
  <2> QED
    BY <1>1, <1>2, <2>1, ScheduleAssumption
<1>3. CASE row # 0
  <2>1. row \in Nat /\ MinInterval <= row /\ row <= MaxInterval /\ 1 <= row
    BY <1>1, <1>3, ScheduleAssumption DEF validSeconds
  <2>2. Interval = row * Second
    BY <1>1, <2>1, DurationExact
  <2>3. MinInterval * Second <= row * Second /\ row * Second \in Nat /\ 1 * Second <= row * Second
    BY <2>1, TimesKeepsOrder, ScheduleAssumption
  <2> QED
    BY <1>3, <2>2, <2>3, ScheduleAssumption
<1> QED
  BY <1>2, <1>3

\* A second is shorter than the bound on ages.
LEMMA SecondFits == Second \in Nat \ {0} /\ Cap \in Nat /\ Second <= Cap
<1>1. 1 * Second <= MaxInterval * Second
  BY TimesKeepsOrder, ScheduleAssumption
<1> QED
  BY <1>1, ScheduleAssumption

\* Every step of the schedule keeps the stamp true.
LEMMA ScheduleInductive ==
  /\ Init => ScheduleInv
  /\ ScheduleInv /\ [Next]_vars => ScheduleInv'
<1>1. Init => ScheduleInv
  BY ScheduleAssumption DEF Init, ScheduleInv, TypeOK, StampTrue
<1>2. ASSUME ScheduleInv, [Next]_vars PROVE ScheduleInv'
  <2>1. /\ row \in Int \cup {None, Garbage} /\ phase \in 0..(Second - 1) /\ steps \in BOOLEAN
        /\ stamp \in {None, Garbage} \/ stamp \in (-MaxStep * Second)..Cap
        /\ elapsed = None \/ elapsed \in 0..Cap
        /\ stamp # Garbage => (stamp = None <=> elapsed = None)
        /\ StampTrue
    BY <1>2 DEF ScheduleInv, TypeOK
  <2>2. -MaxStep * Second \in Int /\ -MaxStep * Second <= 0
    <3>1. MaxStep * Second \in Nat
      BY ScheduleAssumption
    <3> QED
      BY <3>1, ScheduleAssumption
  <2>3. CASE UNCHANGED vars
    BY <1>2, <2>3 DEF vars, ScheduleInv, TypeOK, StampTrue
  <2>4. ASSUME NEW v \in Int \cup {Garbage}, row' = v,
               UNCHANGED <<default, stamp, elapsed, phase, steps>>
        PROVE  ScheduleInv'
    BY <1>2, <2>4 DEF ScheduleInv, TypeOK, StampTrue
  <2>8. CASE EditStamp
    <3>1. stamp' = Garbage /\ UNCHANGED <<default, row, elapsed, phase, steps>>
      BY <2>8 DEF EditStamp
    <3> QED
      BY <2>1, <3>1 DEF ScheduleInv, TypeOK, StampTrue
  <2>5. CASE MarkAttempt
    <3>1. /\ stamp' = phase /\ elapsed' = 0 /\ phase' = phase /\ row' = row /\ steps' = steps
          /\ phase \in 0..(Second - 1)
      BY <2>1, <2>5 DEF MarkAttempt
    <3>2. phase \in Int /\ 0 <= phase /\ phase <= Second - 1 /\ phase <= Cap
      BY <3>1, SecondFits
    <3>3. stamp' \notin {None, Garbage} /\ elapsed' # None
      BY <3>1, <3>2, RowsAssumption
    <3>4. stamp' \in (-MaxStep * Second)..Cap /\ elapsed' \in 0..Cap
      BY <2>2, <3>1, <3>2, SecondFits
    <3>5. StampTrue'
      BY <3>1, <3>2, SecondFits DEF StampTrue
    <3> QED
      BY <2>1, <3>1, <3>3, <3>4, <3>5 DEF ScheduleInv, TypeOK
  <2>6. CASE Tick
    <3>1. /\ phase' = (phase + 1) % Second /\ stamp' = Aged(stamp) /\ elapsed' = Aged(elapsed)
          /\ row' = row /\ steps' = steps
      BY <2>6 DEF Tick
    <3>2. phase' \in 0..(Second - 1)
      BY <2>1, <3>1, SecondFits
    <3>3. CASE stamp = None
      <4>1. stamp' = None /\ elapsed' = None
        BY <2>1, <3>1, <3>3, RowsAssumption DEF Aged
      <4> QED
        BY <2>1, <3>1, <3>2, <4>1 DEF ScheduleInv, TypeOK, StampTrue
    <3>5. CASE stamp = Garbage
      <4>1. stamp' = Garbage
        BY <3>1, <3>5 DEF Aged
      <4>2. elapsed' = None \/ elapsed' \in 0..Cap
        <5>1. CASE elapsed = None
          BY <3>1, <5>1 DEF Aged
        <5>2. CASE elapsed # None
          <6>1. elapsed \in Int /\ 0 <= elapsed /\ elapsed <= Cap /\ elapsed # Garbage
            BY <2>1, <5>2, SecondFits, RowsAssumption
          <6>2. elapsed' = IF elapsed < Cap THEN elapsed + 1 ELSE Cap
            BY <3>1, <5>2, <6>1 DEF Aged
          <6> QED
            BY <6>1, <6>2, SecondFits
        <5> QED
          BY <5>1, <5>2
      <4> QED
        BY <2>1, <3>1, <3>2, <4>1, <4>2 DEF ScheduleInv, TypeOK, StampTrue
    <3>4. CASE stamp \notin {None, Garbage}
      <4>1. /\ stamp \in Int /\ -MaxStep * Second <= stamp /\ stamp <= Cap
            /\ elapsed \in Int /\ 0 <= elapsed /\ elapsed <= Cap
            /\ stamp <= elapsed + Second - 1 /\ elapsed \notin {None, Garbage}
        BY <2>1, <2>2, <3>4, SecondFits, RowsAssumption DEF StampTrue
      <4>2. /\ stamp' = IF stamp < Cap THEN stamp + 1 ELSE Cap
            /\ elapsed' = IF elapsed < Cap THEN elapsed + 1 ELSE Cap
        BY <3>1, <3>4, <4>1 DEF Aged
      <4>3. /\ stamp' \in Int /\ stamp <= stamp' /\ stamp' <= Cap /\ stamp' <= stamp + 1
            /\ elapsed' \in 0..Cap
            /\ elapsed' = elapsed + 1 \/ elapsed' = Cap
        BY <4>1, <4>2, SecondFits
      <4>4. stamp' <= elapsed' + Second - 1
        <5>1. CASE elapsed' = elapsed + 1
          BY <4>1, <4>3, <5>1, SecondFits
        <5>2. CASE elapsed' = Cap
          BY <4>1, <4>3, <5>2, SecondFits
        <5> QED
          BY <4>3, <5>1, <5>2
      <4>5. stamp' \notin {None, Garbage} /\ elapsed' # None
        BY <4>3, RowsAssumption
      <4>6. stamp' \in (-MaxStep * Second)..Cap
        BY <2>2, <4>1, <4>3, SecondFits
      <4>7. StampTrue'
        BY <2>1, <3>1, <3>4, <4>1, <4>3, <4>4 DEF StampTrue
      <4> QED
        BY <2>1, <3>1, <3>2, <4>3, <4>5, <4>6, <4>7 DEF ScheduleInv, TypeOK
    <3> QED
      BY <3>3, <3>4, <3>5
  <2>7. ASSUME NEW n \in 1..MaxStep, SetBack(n) PROVE ScheduleInv'
    <3>1. /\ steps = TRUE /\ stamp \notin {None, Garbage} /\ steps' = FALSE /\ stamp' = stamp - n * Second
          /\ UNCHANGED <<default, row, elapsed, phase>>
      BY <2>1, <2>7 DEF SetBack
    <3>2. n \in Nat /\ MaxStep \in Nat /\ n <= MaxStep
      BY ScheduleAssumption
    <3>3. n * Second <= MaxStep * Second /\ n * Second \in Nat /\ MaxStep * Second \in Nat
      BY <3>2, TimesKeepsOrder, SecondFits
    <3>4. /\ stamp \in Int /\ 0 <= stamp /\ stamp <= Cap
          /\ stamp <= elapsed + Second - 1 /\ elapsed \in 0..Cap
      BY <2>1, <2>2, <3>1, SecondFits DEF StampTrue
    <3>5. -MaxStep * Second = -(MaxStep * Second)
      BY <3>2, SecondFits
    <3> DEFINE back == n * Second
               most == MaxStep * Second
    <3>6. /\ back \in Nat /\ most \in Nat /\ back <= most /\ stamp' = stamp - back
          /\ -MaxStep * Second = -most
      BY <3>1, <3>3, <3>5
    <3> HIDE DEF back, most
    <3>7. /\ stamp' \in Int /\ -most <= stamp' /\ stamp' <= Cap
          /\ stamp' <= elapsed + Second - 1
      BY <3>4, <3>6, SecondFits
    <3>8. stamp' \notin {None, Garbage} /\ elapsed' # None /\ elapsed' = elapsed
      BY <3>1, <3>4, <3>7, RowsAssumption
    <3>9. stamp' \in (-MaxStep * Second)..Cap
      BY <3>6, <3>7, SecondFits
    <3>10. StampTrue'
      BY <3>1, <3>7, <3>8 DEF StampTrue
    <3> QED
      BY <2>1, <3>1, <3>4, <3>8, <3>9, <3>10 DEF ScheduleInv, TypeOK
  <2> QED
    BY <1>2, <2>3, <2>4, <2>5, <2>6, <2>7, <2>8, RowsAssumption
    DEF Next, SetInterval, EditRow, Scheduled, Manual
<1> QED
  BY <1>1, <1>2

\* NextRun and markAttempt: no row, whoever wrote it, makes scheduled backups
\* run more often than MinInterval allows, up to the second a stamp drops and
\* however the clock was set back.
THEOREM AttemptsAlwaysSpaced == Spec => AttemptsSpaced
<1>1. ScheduleInv /\ [Next]_vars =>
        [Scheduled /\ row # None /\ elapsed # None => elapsed > (MinInterval - 1) * Second]_vars
  <2> SUFFICES ASSUME ScheduleInv, Scheduled, row # None, elapsed # None
               PROVE  elapsed > (MinInterval - 1) * Second
    OBVIOUS
  <2>0. stamp \notin {None, Garbage}
    BY RowsAssumption DEF ScheduleInv, TypeOK, Scheduled, Due
  <2>1. elapsed \in 0..Cap /\ stamp <= elapsed + Second - 1
    BY <2>0 DEF ScheduleInv, TypeOK, StampTrue
  <2>2. Interval # None /\ Interval # 0 /\ stamp >= Interval
    BY <2>0 DEF Scheduled, Due, On
  <2>3. row \in Int
    <3>1. row # Garbage
      BY <2>2 DEF Interval
    <3> QED
      BY <3>1 DEF ScheduleInv, TypeOK
  <2>4. Interval >= MinInterval * Second /\ Interval \in Nat
    BY <2>2, <2>3, RowInterval
  <2>5. (MinInterval - 1) * Second = MinInterval * Second - Second
    BY ScheduleAssumption
  <2>6. MinInterval * Second \in Nat
    BY ScheduleAssumption
  <2>7. stamp \in Int
    BY <2>0, ScheduleAssumption DEF ScheduleInv, TypeOK
  <2> DEFINE least == MinInterval * Second
  <2> HIDE DEF least
  <2>8. elapsed > least - Second
    <3>1. least \in Nat /\ Interval >= least
      BY <2>4, <2>6 DEF least
    <3> QED
      BY <2>1, <2>2, <2>4, <2>7, <3>1, SecondFits
  <2> QED
    BY <2>5, <2>8 DEF least
<1>2. Init => ScheduleInv
  BY ScheduleInductive
<1>3. ScheduleInv /\ [Next]_vars => ScheduleInv'
  BY ScheduleInductive
<1> QED
  BY <1>1, <1>2, <1>3, PTL DEF Spec, AttemptsSpaced

-----------------------------------------------------------------------------
(* Drill: the directory of a drill is exactly as old as the drill has been *)
(* quiet, so that the sweep's question about the one answers the other.    *)

Call == [pc : {"idle", "seal", "open", "check"}, ok : BOOLEAN, quiet : Nat]
Dir == [by : Drills \cup {Killed, Unremoved}, age : Nat]

DrillTypes ==
  /\ call \in [Drills -> Call] /\ dirs \subseteq Dir /\ faults \in 0..MaxFaults
  /\ \A d \in Drills : call[d].pc \in {"idle", "seal"} => call[d].quiet = 0

AgeIsQuiet == \A x \in dirs : x.by \in Drills => x.age = call[x.by].quiet

DrillInv == DrillTypes /\ AgeIsQuiet /\ LiveNotSwept /\ PlaintextWiped

\* One drill moves to c and may leave something of its directory behind, as
\* somebody else's: the directories of the others stay theirs.
LEMMA LeavesOthers ==
  ASSUME DrillInv, NEW d \in Drills, NEW c \in Call, c.pc \in {"idle", "seal"}, c.quiet = 0,
         call' = [call EXCEPT ![d] = c], faults' \in 0..MaxFaults, faults' <= faults,
         \A e \in Drills : e # d => Own(e) \subseteq dirs',
         dirs' \subseteq Dir,
         \A x \in dirs' : x.by = d => FALSE,
         \A x \in dirs' : x.by \in Drills => x \in dirs,
         \A x \in dirs' : x.by = Unremoved => x \in dirs \/ faults' < MaxFaults
  PROVE  DrillInv'
<1>1. call'[d] = c /\ \A e \in Drills : e # d => call'[e] = call[e]
  BY DEF DrillInv, DrillTypes
<1>2. DrillTypes'
  BY <1>1 DEF DrillInv, DrillTypes
<1>3. AgeIsQuiet'
  BY <1>1 DEF DrillInv, AgeIsQuiet
<1>4. LiveNotSwept'
  <2> SUFFICES ASSUME NEW e \in Drills, call'[e].pc \in {"open", "check"},
                      call'[e].quiet <= staleDrill
               PROVE  Own(e)' # {}
    BY DEF LiveNotSwept
  <2>1. e # d /\ Own(e) # {}
    BY <1>1 DEF DrillInv, LiveNotSwept
  <2> QED
    BY <2>1 DEF Own
<1>5. PlaintextWiped'
  <2> SUFFICES ASSUME NEW x \in dirs'
               PROVE  /\ x.by \in Drills => call'[x.by].pc \in {"open", "check"}
                      /\ x.by = Unremoved => faults' < MaxFaults
    BY DEF PlaintextWiped
  <2>1. faults \in Int /\ faults' \in Int /\ MaxFaults \in Int
    BY DrillAssumption DEF DrillInv, DrillTypes
  <2>2. x.by = Unremoved => faults' < MaxFaults
    BY <2>1 DEF DrillInv, PlaintextWiped
  <2>3. x.by \in Drills => call'[x.by].pc \in {"open", "check"}
    BY <1>1 DEF DrillInv, PlaintextWiped
  <2> QED
    BY <2>2, <2>3
<1> QED
  BY <1>2, <1>3, <1>4, <1>5 DEF DrillInv

\* A call that ends, whatever its verdict, is idle.
LEMMA EndedCall ==
  ASSUME NEW ok \in BOOLEAN
  PROVE  /\ [NoCall EXCEPT !.ok = ok] \in Call
         /\ [NoCall EXCEPT !.ok = ok].pc = "idle" /\ [NoCall EXCEPT !.ok = ok].quiet = 0
         /\ NoCall \in Call /\ NoCall.pc = "idle" /\ NoCall.quiet = 0
BY DEF NoCall, Call

\* What is left of a directory is nobody's, and the others keep theirs.
LEMMA LeftIsNobodys ==
  ASSUME DrillInv, NEW d \in Drills, NEW whose \in {Killed, Unremoved}, NEW age \in Nat,
         dirs' = Left(d, whose, age)
  PROVE  /\ dirs' \subseteq Dir
         /\ \A e \in Drills : e # d => Own(e) \subseteq dirs'
         /\ \A x \in dirs' : x.by # d /\ (x \in dirs \/ x.by = whose)
<1> DEFINE left == {[by |-> whose, age |-> age] : x \in Own(d)}
<1>1. \A x \in left : x \in Dir /\ x.by = whose
  BY DEF Dir
<1>2. dirs' = (dirs \ Own(d)) \cup left
  BY DEF Left
<1> HIDE DEF left
<1>3. whose # d
  BY DrillAssumption
<1> QED
  BY <1>1, <1>2, <1>3 DEF DrillInv, DrillTypes, Own

\* A drill that returns takes its own directory and no other; if it cannot, a
\* removal failed.
LEMMA FinishStep ==
  ASSUME DrillInv, NEW d \in Drills, NEW passed \in BOOLEAN, Finish(d, passed)
  PROVE  DrillInv'
<1> DEFINE c == [NoCall EXCEPT !.ok = passed]
<1>1. c \in Call /\ c.pc = "idle" /\ c.quiet = 0 /\ call' = [call EXCEPT ![d] = c]
  BY EndedCall DEF Finish
<1> HIDE DEF c
<1>2. CASE dirs' = Removed(d) /\ UNCHANGED faults
  <2>1. dirs' = dirs \ Own(d) /\ faults' = faults /\ faults \in 0..MaxFaults /\ dirs \subseteq Dir
    BY <1>2 DEF Removed, DrillInv, DrillTypes
  <2>2. /\ dirs' \subseteq Dir /\ \A x \in dirs' : x \in dirs /\ x.by # d
        /\ \A e \in Drills : e # d => Own(e) \subseteq dirs'
    BY <2>1 DEF Own
  <2>3. faults' <= faults /\ faults' \in 0..MaxFaults
    BY <2>1
  <2> QED
    BY <1>1, <2>2, <2>3, LeavesOthers
<1>3. ASSUME faults > 0, faults' = faults - 1, NEW age \in {0, call[d].quiet},
             dirs' = Left(d, Unremoved, age)
      PROVE  DrillInv'
  <2>1. age \in Nat
    BY <1>3 DEF DrillInv, DrillTypes, Call
  <2>2. faults' \in 0..MaxFaults /\ faults' <= faults /\ faults' < MaxFaults
    BY <1>3, DrillAssumption DEF DrillInv, DrillTypes
  <2>3. /\ dirs' \subseteq Dir
        /\ \A e \in Drills : e # d => Own(e) \subseteq dirs'
        /\ \A x \in dirs' : x.by # d /\ (x \in dirs \/ x.by = Unremoved)
    BY <1>3, <2>1, LeftIsNobodys
  <2>4. \A x \in dirs' : x.by \in Drills => x \in dirs
    BY <2>3, DrillAssumption
  <2> QED
    BY <1>1, <2>2, <2>3, <2>4, LeavesOthers
<1> QED
  BY <1>2, <1>3 DEF Finish

\* sweepStaleDrills leaves every directory of a drill that was busy in it
\* within the last staleDrill.
LEMMA BeginStep ==
  ASSUME DrillInv, NEW d \in Drills, Begin(d)
  PROVE  DrillInv'
<1> DEFINE c == [NoCall EXCEPT !.pc = "seal"]
<1>1. /\ c \in Call /\ c.pc = "seal" /\ c.quiet = 0
      /\ call' = [call EXCEPT ![d] = c] /\ call[d].pc = "idle"
  BY DEF Begin, NoCall, Call
<1> HIDE DEF c
<1>2. /\ dirs' \subseteq dirs /\ dirs \ Residue \subseteq dirs'
      /\ faults' \in 0..MaxFaults /\ faults' <= faults
  <2>1. CASE dirs' = dirs \ Residue /\ UNCHANGED faults
    BY <2>1 DEF DrillInv, DrillTypes
  <2>2. CASE /\ faults > 0 /\ faults' = faults - 1
             /\ \E stuck \in SUBSET Residue : dirs' = dirs \ (Residue \ stuck)
    <3>1. dirs' \subseteq dirs /\ dirs \ Residue \subseteq dirs'
      BY <2>2
    <3>2. faults' \in 0..MaxFaults /\ faults' <= faults
      BY <2>2, DrillAssumption DEF DrillInv, DrillTypes
    <3> QED
      BY <3>1, <3>2
  <2> QED
    BY <2>1, <2>2 DEF Begin
<1>3. call'[d] = c /\ \A e \in Drills : e # d => call'[e] = call[e]
  BY <1>1 DEF DrillInv, DrillTypes
<1>4. DrillTypes'
  BY <1>1, <1>2, <1>3 DEF DrillInv, DrillTypes
<1>5. \A x \in dirs : x.by # d
  BY <1>1 DEF DrillInv, PlaintextWiped
<1>6. AgeIsQuiet'
  BY <1>2, <1>3, <1>5 DEF DrillInv, AgeIsQuiet
<1>7. LiveNotSwept'
  <2> SUFFICES ASSUME NEW e \in Drills, call'[e].pc \in {"open", "check"},
                      call'[e].quiet <= staleDrill
               PROVE  Own(e)' # {}
    BY DEF LiveNotSwept
  <2>1. e # d /\ call[e] = call'[e]
    BY <1>1, <1>3
  <2>2. PICK x \in dirs : x.by = e
    BY <2>1 DEF DrillInv, LiveNotSwept, Own
  <2>3. x.age = call[e].quiet /\ call[e].quiet \in Nat
    BY <2>2 DEF DrillInv, DrillTypes, Call, AgeIsQuiet
  <2>4. ~(x.age > staleDrill)
    BY <2>1, <2>3, DrillAssumption
  <2>5. x \in dirs'
    BY <1>2, <2>4 DEF Residue
  <2> QED
    BY <2>2, <2>5 DEF Own
<1>8. PlaintextWiped'
  <2>1. faults \in Int /\ faults' \in Int /\ MaxFaults \in Int /\ faults' <= faults
    BY <1>2, DrillAssumption DEF DrillInv, DrillTypes
  <2> QED
    BY <1>2, <1>3, <1>5, <2>1 DEF DrillInv, PlaintextWiped
<1> QED
  BY <1>4, <1>6, <1>7, <1>8 DEF DrillInv

\* A drill makes its directory, or renews it, or makes it anew.
LEMMA SandboxStep ==
  ASSUME DrillInv, NEW d \in Drills, Sandbox(d) \/ Open(d)
  PROVE  DrillInv'
<1> DEFINE mine == [by |-> d, age |-> 0]
<1>1. PICK c \in Call : /\ c.pc \in {"open", "check"} /\ c.quiet = 0
                        /\ call' = [call EXCEPT ![d] = c]
  <2>1. CASE Sandbox(d)
    <3>1. call[d] \in Call /\ call[d].quiet = 0
      BY <2>1 DEF Sandbox, DrillInv, DrillTypes
    <3>2. /\ [call[d] EXCEPT !.pc = "open"] \in Call
          /\ [call[d] EXCEPT !.pc = "open"].pc = "open"
          /\ [call[d] EXCEPT !.pc = "open"].quiet = 0
      BY <3>1 DEF Call
    <3>3. call' = [call EXCEPT ![d] = [call[d] EXCEPT !.pc = "open"]]
      BY <2>1 DEF Sandbox
    <3> QED
      BY <3>2, <3>3
  <2>2. CASE Open(d)
    BY <2>2 DEF Open, Call
  <2> QED
    BY <2>1, <2>2
<1>2. dirs' = (dirs \ Own(d)) \cup {mine}
  <2>1. CASE Sandbox(d)
    <3>1. Own(d) = {}
      BY <2>1 DEF Sandbox, DrillInv, PlaintextWiped, Own
    <3> QED
      BY <2>1, <3>1 DEF Sandbox
  <2>2. CASE Open(d)
    BY <2>2 DEF Open
  <2> QED
    BY <2>1, <2>2
<1>3. mine \in Dir /\ mine.by = d /\ mine.age = 0 /\ faults' = faults
  BY DEF Dir, Sandbox, Open
<1> HIDE DEF mine
<1>4. call'[d] = c /\ \A e \in Drills : e # d => call'[e] = call[e]
  BY <1>1 DEF DrillInv, DrillTypes
<1>5. \A x \in dirs' : x = mine \/ (x \in dirs /\ x.by # d)
  BY <1>2 DEF Own
<1>6. DrillTypes'
  BY <1>1, <1>3, <1>4, <1>5 DEF DrillInv, DrillTypes
<1>7. AgeIsQuiet'
  BY <1>1, <1>3, <1>4, <1>5 DEF DrillInv, AgeIsQuiet
<1>8. mine \in dirs' /\ \A e \in Drills : e # d => Own(e) \subseteq dirs'
  BY <1>2 DEF Own
<1>9. LiveNotSwept'
  BY <1>3, <1>4, <1>8 DEF DrillInv, LiveNotSwept, Own
<1>10. PlaintextWiped'
  BY <1>1, <1>3, <1>4, <1>5, DrillAssumption DEF DrillInv, PlaintextWiped
<1> QED
  BY <1>6, <1>7, <1>9, <1>10 DEF DrillInv

\* A drill that gives up before it had a directory, or one that is killed and
\* leaves it behind.
LEMMA KillStep ==
  ASSUME DrillInv, NEW d \in Drills, GivesUp(d) \/ Kill(d)
  PROVE  DrillInv'
<1>1. /\ call' = [call EXCEPT ![d] = NoCall] /\ faults' = faults
      /\ NoCall \in Call /\ NoCall.pc = "idle" /\ NoCall.quiet = 0
  BY EndedCall DEF GivesUp, Kill
<1>2. faults' \in 0..MaxFaults /\ faults' <= faults
  BY <1>1 DEF DrillInv, DrillTypes
<1>3. /\ dirs' \subseteq Dir
      /\ \A e \in Drills : e # d => Own(e) \subseteq dirs'
      /\ \A x \in dirs' : x.by # d /\ (x \in dirs \/ x.by = Killed)
  <2>1. CASE GivesUp(d)
    <3>1. dirs' = dirs /\ \A x \in dirs : x.by # d
      BY <2>1 DEF GivesUp, DrillInv, PlaintextWiped
    <3> QED
      BY <3>1 DEF DrillInv, DrillTypes, Own
  <2>2. CASE Kill(d)
    <3>1. dirs' = Left(d, Killed, call[d].quiet) /\ call[d].quiet \in Nat
      BY <2>2 DEF Kill, DrillInv, DrillTypes, Call
    <3> QED
      BY <3>1, LeftIsNobodys
  <2> QED
    BY <2>1, <2>2
<1>4. /\ \A x \in dirs' : x.by \in Drills => x \in dirs
      /\ \A x \in dirs' : x.by = Unremoved => x \in dirs
  BY <1>3, DrillAssumption
<1> QED
  BY <1>1, <1>2, <1>3, <1>4, LeavesOthers

\* Time passes for every directory and for every drill busy in one alike.
LEMMA DrillTickStep ==
  ASSUME DrillInv, DrillTick
  PROVE  DrillInv'
<1> DEFINE older(x) == [x EXCEPT !.age = Older(@)]
           later(d) == IF call[d].pc \in {"open", "check"}
                         THEN [call[d] EXCEPT !.quiet = Older(@)] ELSE call[d]
<1>1. /\ dirs' = {older(x) : x \in dirs} /\ call' = [d \in Drills |-> later(d)]
      /\ faults' = faults
  BY DEF DrillTick
<1>2. \A n \in Nat : Older(n) \in Nat /\ n <= Older(n)
  BY DrillAssumption DEF Older, Oldest
<1>3. ASSUME NEW x \in dirs
      PROVE  older(x) \in Dir /\ older(x).by = x.by /\ older(x).age = Older(x.age)
  <2>1. x \in Dir /\ Older(x.age) \in Nat
    BY <1>2 DEF DrillInv, DrillTypes, Dir
  <2> QED
    BY <2>1 DEF Dir
<1>4. ASSUME NEW d \in Drills
      PROVE  /\ call'[d] \in Call /\ call'[d].pc = call[d].pc
             /\ call[d].pc \in {"open", "check"} => call'[d].quiet = Older(call[d].quiet)
             /\ call[d].pc \notin {"open", "check"} => call'[d].quiet = call[d].quiet
             /\ call[d].quiet <= call'[d].quiet
  <2>1. call[d] \in Call /\ Older(call[d].quiet) \in Nat /\ call[d].quiet <= Older(call[d].quiet)
    BY <1>2 DEF DrillInv, DrillTypes, Call
  <2>2. call'[d] = later(d)
    BY <1>1
  <2>3. CASE call[d].pc \in {"open", "check"}
    <3>1. call'[d] = [call[d] EXCEPT !.quiet = Older(call[d].quiet)]
      BY <2>2, <2>3
    <3> QED
      BY <2>1, <2>3, <3>1 DEF Call
  <2>4. CASE call[d].pc \notin {"open", "check"}
    BY <2>1, <2>2, <2>4 DEF Call
  <2> QED
    BY <2>3, <2>4
<1>5. /\ \A y \in dirs' : \E x \in dirs : y = older(x)
      /\ \A x \in dirs : older(x) \in dirs'
      /\ call' \in [Drills -> Call]
  BY <1>1, <1>4
<1> HIDE DEF older, later
<1>6. DrillTypes'
  <2>1. dirs' \subseteq Dir
    BY <1>3, <1>5
  <2>2. \A d \in Drills : call'[d].pc \in {"idle", "seal"} => call'[d].quiet = 0
    BY <1>4 DEF DrillInv, DrillTypes
  <2> QED
    BY <1>1, <1>5, <2>1, <2>2 DEF DrillInv, DrillTypes
<1>7. AgeIsQuiet'
  <2> SUFFICES ASSUME NEW y \in dirs', y.by \in Drills PROVE y.age = call'[y.by].quiet
    BY DEF AgeIsQuiet
  <2>1. PICK x \in dirs : y = older(x)
    BY <1>5
  <2>2. x.by = y.by /\ x.age = call[x.by].quiet /\ call[x.by].pc \in {"open", "check"}
    BY <1>3, <2>1 DEF DrillInv, AgeIsQuiet, PlaintextWiped
  <2> QED
    BY <1>3, <1>4, <2>1, <2>2
<1>8. LiveNotSwept'
  <2> SUFFICES ASSUME NEW e \in Drills, call'[e].pc \in {"open", "check"},
                      call'[e].quiet <= staleDrill
               PROVE  Own(e)' # {}
    BY DEF LiveNotSwept
  <2>1. call[e].quiet \in Nat /\ call'[e].quiet \in Nat
    BY <1>6 DEF DrillInv, DrillTypes, Call
  <2>2. call[e].pc \in {"open", "check"} /\ call[e].quiet <= staleDrill
    BY <1>4, <2>1, DrillAssumption
  <2>3. PICK x \in dirs : x.by = e
    BY <2>2 DEF DrillInv, LiveNotSwept, Own
  <2>4. older(x) \in dirs' /\ older(x).by = e
    BY <1>3, <1>5, <2>3
  <2> QED
    BY <2>4 DEF Own
<1>9. PlaintextWiped'
  <2> SUFFICES ASSUME NEW y \in dirs'
               PROVE  /\ y.by \in Drills => call'[y.by].pc \in {"open", "check"}
                      /\ y.by = Unremoved => faults' < MaxFaults
    BY DEF PlaintextWiped
  <2>1. PICK x \in dirs : y = older(x)
    BY <1>5
  <2>2. x.by = y.by
    BY <1>3, <2>1
  <2> QED
    BY <1>1, <1>4, <2>2 DEF DrillInv, PlaintextWiped
<1> QED
  BY <1>6, <1>7, <1>8, <1>9 DEF DrillInv

\* DrillInv holds under an empty root and every step keeps it.
LEMMA DrillInductive ==
  /\ DrillInit => DrillInv
  /\ DrillInv /\ [DrillNext]_drillVars => DrillInv'
<1>1. DrillInit => DrillInv
  <2> SUFFICES ASSUME DrillInit PROVE DrillInv
    OBVIOUS
  <2>1. NoCall \in Call /\ NoCall.pc = "idle" /\ NoCall.quiet = 0
    BY EndedCall
  <2>2. /\ call \in [Drills -> Call] /\ dirs = {} /\ faults \in 0..MaxFaults
        /\ \A d \in Drills : call[d].pc = "idle" /\ call[d].quiet = 0
    BY <2>1, DrillAssumption DEF DrillInit
  <2> QED
    BY <2>2 DEF DrillInv, DrillTypes, AgeIsQuiet, LiveNotSwept, PlaintextWiped
<1>2. ASSUME DrillInv, [DrillNext]_drillVars PROVE DrillInv'
  <2>1. ASSUME NEW d \in Drills, SealFails(d) \/ OpenFails(d) PROVE DrillInv'
    BY <1>2, <2>1, FinishStep DEF SealFails, OpenFails
  <2>2. ASSUME NEW d \in Drills, NEW passed \in BOOLEAN, Checks(d, passed) PROVE DrillInv'
    <3>1. (call[d].ok /\ passed /\ Own(d) # {}) \in BOOLEAN
      BY <1>2 DEF DrillInv, DrillTypes, Call
    <3> QED
      BY <1>2, <2>2, <3>1, FinishStep DEF Checks
  <2>3. CASE UNCHANGED drillVars
    BY <1>2, <2>3
    DEF drillVars, DrillInv, DrillTypes, AgeIsQuiet, LiveNotSwept, PlaintextWiped, Own
  <2> QED
    BY <1>2, <2>1, <2>2, <2>3, BeginStep, SandboxStep, KillStep, DrillTickStep DEF DrillNext
<1> QED
  BY <1>1, <1>2

\* Interval, Drill and sweepStaleDrills: only "0" turns backups off whatever row
\* was written, a sweep never takes the directory of a drill that was busy in it
\* within the last staleDrill, and plaintext outlives its drill only after a kill
\* or a removal that failed.
THEOREM RowsAndSandboxesSound == UpkeepSpec => []RowsAndSandboxes
<1> DEFINE Inv == ScheduleInv /\ DrillInv
<1>1. UpkeepInit => Inv
  BY ScheduleInductive, DrillInductive DEF UpkeepInit
<1>2. Inv /\ [UpkeepNext]_<<vars, drillVars, active>> => Inv'
  <2> SUFFICES ASSUME Inv, [UpkeepNext]_<<vars, drillVars, active>> PROVE Inv'
    OBVIOUS
  <2>1. [Next]_vars /\ [DrillNext]_drillVars
    BY DEF UpkeepNext
  <2> QED
    BY <2>1, ScheduleInductive, DrillInductive
<1>3. Inv => RowsAndSandboxes
  <2> SUFFICES ASSUME Inv PROVE RowsAndSandboxes
    OBVIOUS
  <2>1. OnlyZeroIsOff
    BY RowInterval DEF OnlyZeroIsOff
  <2> QED
    BY <2>1 DEF RowsAndSandboxes, ScheduleInv, DrillInv
<1> HIDE DEF Inv
<1> QED
  BY <1>1, <1>2, <1>3, PTL DEF UpkeepSpec
=============================================================================

----------------------------- MODULE Schedule ------------------------------
(***************************************************************************)
(* recoveryclient/schedule.go: the backup schedule in the settings store,  *)
(* an administrator and a hand that edit it, and the product's scheduler,  *)
(* which asks NextRun on every tick and calls Run, which stamps the        *)
(* attempt, when it is due.  A stamp drops the fraction of a second.       *)
(* Time is kept relative to the last stamp, in fractions of a second, so   *)
(* that it needs no end; a duration has a limited width and wraps.         *)
(***************************************************************************)
EXTENDS Integers

CONSTANTS
  MinInterval, MaxInterval,  \* seconds
  Defaults,      \* intervals, in fractions, a product may configure
  Settable,      \* seconds an administrator may ask for
  Edited,        \* row contents nobody validated
  Garbage,       \* a row that is no number
  Second,        \* fractions in a second
  Word,          \* values of a Duration: it wraps modulo Word
  Cap,           \* bound: ages beyond it are one
  MaxStep,       \* bound: how far the clock may be ahead of where it was at the stamp
  None

ASSUME ScheduleAssumption ==
  /\ {MinInterval, MaxInterval, Second, Word, Cap} \subseteq Nat \ {0} /\ MaxStep \in Nat
  /\ MinInterval <= MaxInterval /\ MaxInterval * Second < Cap
  /\ Word % 2 = 0 /\ 2 * MaxInterval * Second < Word

ASSUME RowsAssumption ==
  /\ Settable \subseteq Int /\ Edited \subseteq Int \cup {Garbage}
  /\ None \notin Int /\ Garbage \notin Int /\ Garbage # None

VARIABLES
  default,
  row,      \* backup_interval_sec: None, a number of seconds, or Garbage
  stamp,    \* fractions the clock has advanced since backup_last_attempt; None before,
            \* Garbage once the row is no time
  elapsed,  \* fractions that really passed since the last attempt; None before
  phase,    \* the clock's fraction of a second
  steps     \* whether the clock may still be set back

vars == <<default, row, stamp, elapsed, phase, steps>>

Init ==
  /\ default \in Defaults /\ row = None
  /\ stamp = None /\ elapsed = None /\ phase = 0 /\ steps = TRUE

\* time.Duration(sec) * time.Second, in a signed word.
Duration(sec) ==
  LET d == (sec * Second) % Word IN IF d >= Word \div 2 THEN d - Word ELSE d

NoLowerBound(sec) == sec >= 0 /\ sec <= MaxInterval     \* variant with a bug

validSeconds(sec) == sec = 0 \/ (sec >= MinInterval /\ sec <= MaxInterval)

\* Interval: the row when there is one, else the default; None is an error.
Interval ==
  IF row = None THEN default
  ELSE IF row = Garbage THEN None
  ELSE IF validSeconds(row) THEN Duration(row) ELSE None

On == Interval \notin {None, 0}

NeverFirst == On /\ stamp \notin {None, Garbage} /\ stamp >= Interval  \* variant with a bug

\* NextRun is now or in the past: never attempted, or the interval has passed
\* since the stamp.  A last-attempt row that is no time is an error instead.
Due == On /\ IF stamp = None THEN TRUE ELSE stamp # Garbage /\ stamp >= Interval

SetInterval(sec) ==
  /\ validSeconds(sec) /\ row' = sec
  /\ UNCHANGED <<default, stamp, elapsed, phase, steps>>

EditRow(v) ==
  /\ row' = v /\ UNCHANGED <<default, stamp, elapsed, phase, steps>>

\* The last-attempt row is spoiled by the same hand.
EditStamp ==
  /\ stamp' = Garbage /\ UNCHANGED <<default, row, elapsed, phase, steps>>

\* markAttempt formats the time in whole seconds: the stamp is phase old at once.
MarkAttempt == stamp' = phase /\ elapsed' = 0 /\ UNCHANGED <<default, row, phase, steps>>

Scheduled == Due /\ MarkAttempt
Manual == MarkAttempt

Aged(t) == IF t \in {None, Garbage} THEN t ELSE IF t < Cap THEN t + 1 ELSE Cap

Tick ==
  /\ phase' = (phase + 1) % Second
  /\ stamp' = Aged(stamp) /\ elapsed' = Aged(elapsed)
  /\ UNCHANGED <<default, row, steps>>

\* The clock is set back once, by whole seconds.
SetBack(n) ==
  /\ steps /\ stamp \notin {None, Garbage} /\ steps' = FALSE
  /\ stamp' = stamp - n * Second
  /\ UNCHANGED <<default, row, elapsed, phase>>

Next ==
  \/ \E s \in Settable : SetInterval(s)
  \/ \E v \in Edited : EditRow(v)
  \/ EditStamp \/ Scheduled \/ Manual \/ Tick
  \/ \E n \in 1..MaxStep : SetBack(n)

Spec == Init /\ [][Next]_vars

\* Time passes, and the scheduler asks again and again.
Fairness == WF_vars(Tick) /\ WF_vars(Scheduled)

----------------------------------------------------------------------------
\* Properties

\* Ages stay in range, and an attempt was made exactly when one is stamped,
\* unless the stamp was spoiled.
TypeOK ==
  /\ row \in Int \cup {None, Garbage} /\ phase \in 0..(Second - 1)
  /\ stamp \in {None, Garbage} \/ stamp \in (-MaxStep * Second)..Cap
  /\ elapsed = None \/ elapsed \in 0..Cap
  /\ stamp # Garbage => (stamp = None) = (elapsed = None)

\* No row, however it was written, makes backups run more often than MinInterval
\* allows, up to the second a stamp drops, not even after the clock was set back
\* (schedule.go:40-42).
AttemptsSpaced ==
  [][Scheduled /\ row # None /\ elapsed # None => elapsed > (MinInterval - 1) * Second]_vars

\* No row but "0" turns backups off: a number too large for a Duration does not
\* wrap to zero or below it (schedule.go:40-42, 55-56).
OnlyZeroIsOff == row \in Int \ {0} => Interval = None \/ Interval > 0

\* A schedule that stays on, beside a last attempt that can be read, keeps
\* producing attempts, even though the clock was set back once.
KeepsAttempting == <>[](On /\ stamp # Garbage) => []<>(elapsed = 0)
=============================================================================

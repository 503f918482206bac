---------------------------- MODULE DeriveSlots ----------------------------
(***************************************************************************)
(* derive: admission to the PBKDF2 stretch.  slots is a buffered channel   *)
(* of capacity MaxConcurrent; meter counts the stretches in flight under a *)
(* mutex of its own, so taking a slot and counting it are two steps.       *)
(***************************************************************************)
EXTENDS Integers, FiniteSets

CONSTANTS
  Derivers,       \* goroutines in AuthSecretContext
  MaxConcurrent  \* the capacity of slots

ASSUME SlotsAssumption == MaxConcurrent \in Nat \ {0} /\ IsFiniteSet(Derivers)

VARIABLES
  slots,  \* tokens in the channel
  held,   \* meter.held
  peak,   \* meter.peak
  done,   \* the callers whose context is done
  at      \* where each caller is

slotVars == <<slots, held, peak, done, at>>

SlotsInit ==
  /\ slots = 0 /\ held = 0 /\ peak = 0
  /\ done = {}
  /\ at = [t \in Derivers |-> "idle"]

Move(t, to) == at' = [at EXCEPT ![t] = to]

\* A call whose arguments validate, with a context of its own.
Call(t) ==
  /\ at[t] = "idle"
  /\ done' = done \ {t}
  /\ Move(t, "call")
  /\ UNCHANGED <<slots, held, peak>>

\* A context already done is refused before it queues.
Refuse(t) ==
  /\ at[t] = "call" /\ t \in done
  /\ Move(t, "idle")
  /\ UNCHANGED <<slots, held, peak, done>>

Queue(t) ==
  /\ at[t] = "call" /\ t \notin done
  /\ Move(t, "select")
  /\ UNCHANGED <<slots, held, peak, done>>

\* The context of a caller ends: its client hung up, or its deadline passed.
Cancel(t) ==
  /\ t \notin done /\ at[t] # "idle"
  /\ done' = done \cup {t}
  /\ UNCHANGED <<slots, held, peak, at>>

\* select chooses at random among the cases that are ready.
TakeSlot(t) ==
  /\ at[t] = "select" /\ slots < MaxConcurrent
  /\ slots' = slots + 1
  /\ Move(t, "count")
  /\ UNCHANGED <<held, peak, done>>

\* timer.C, or ctx.Done(): ErrBusy or the context's error.

GiveUp(t) ==
  /\ at[t] = "select"
  /\ Move(t, "idle")
  /\ UNCHANGED <<slots, held, peak, done>>

CountIn(t) ==
  /\ at[t] = "count"
  /\ held' = held + 1
  /\ peak' = IF held + 1 > peak THEN held + 1 ELSE peak
  /\ Move(t, "stretch")
  /\ UNCHANGED <<slots, done>>

\* release, deferred: the meter first, then the slot.  The stretch may have
\* succeeded, failed or panicked.

CountOut(t) ==
  /\ at[t] = "stretch"
  /\ held' = held - 1
  /\ Move(t, "free")
  /\ UNCHANGED <<slots, peak, done>>

\* Variant with a bug: a return path that forgets the slot.
KeepSlot(t) ==
  /\ at[t] = "free"
  /\ Move(t, "idle")
  /\ UNCHANGED <<slots, held, peak, done>>

FreeSlot(t) ==
  /\ at[t] = "free"
  /\ slots' = slots - 1
  /\ Move(t, "idle")
  /\ UNCHANGED <<held, peak, done>>

Stretch(t) == CountIn(t) \/ CountOut(t) \/ FreeSlot(t)

SlotsNext ==
  \E t \in Derivers :
    \/ Call(t) \/ Refuse(t) \/ Queue(t) \/ Cancel(t)
    \/ TakeSlot(t) \/ GiveUp(t) \/ Stretch(t)

SlotsSpec == SlotsInit /\ [][SlotsNext]_slotVars

-----------------------------------------------------------------------------
(* Properties *)

\* Slots and meters are counts, and callers are where acquire can put them.
SlotsTypeOK ==
  /\ slots \in Nat /\ held \in Nat /\ peak \in Nat
  /\ done \subseteq Derivers
  /\ at \in [Derivers -> {"idle", "call", "select", "count", "stretch", "free"}]

Occupants == {t \in Derivers : at[t] \in {"count", "stretch", "free"}}
Counted == {t \in Derivers : at[t] = "stretch"}

\* acquire and release: no slot is lost or freed twice, on any way out.
SlotsAccounted == slots = Cardinality(Occupants)

\* admission_test.go's claim for every interleaving: the meter, read at any
\* instant, never shows more stretches than there are slots.
PeakWithinBudget == peak <= MaxConcurrent

\* acquire, release and the meter: no slot and no count is lost on any way out,
\* and the meter stays within the slots.
SlotsHeld == SlotsTypeOK /\ SlotsAccounted /\ PeakWithinBudget
=============================================================================

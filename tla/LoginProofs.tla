----------------------------- MODULE LoginProofs -----------------------------
(***************************************************************************)
(* Proofs about what a login goes through: the two admission controls,     *)
(* PasswordBudget and DeriveSlots, the password checks of PasswordHash and *)
(* the second factor of SecondFactor, for any number of concurrent callers *)
(* and logins, any requests, budget, slots, stored hashes, costs, codes    *)
(* and digits.                                                             *)
(***************************************************************************)
EXTENDS PasswordBudget, DeriveSlots, PasswordHash, SecondFactor, FiniteSetTheorems, TLAPS

-----------------------------------------------------------------------------
(* The password budget.  What carries its proofs is that the admit channel *)
(* is held by exactly the caller that negotiates or is parked.             *)

Negotiating(t) == pc[t] \in {"try", "leave", "park"}

OneNegotiator == \A t \in Callers : Negotiating(t) <=> admit = t

BudgetInv == TypeOK /\ OneNegotiator /\ NoLostWakeup

\* Every action of a caller keeps the types; in particular a reservation never
\* overdraws the budget, because it is taken under the lock that checked it.
LEMMA CallerTypeStep ==
  ASSUME TypeOK, NEW t \in Callers,
         (\E q \in Requests : Enter(t, q)) \/ Admit(t) \/ Work(t) \/ Timeout(t)
  PROVE  TypeOK'
<1>1. CASE \E q \in Requests : Enter(t, q)
  BY <1>1, RequestAssumption DEF TypeOK, Enter, Goto, PC
<1>2. CASE Admit(t)
  BY <1>2 DEF TypeOK, Admit, Goto, PC
<1>3. CASE Reserve(t)
  <2>1. req[t].kib \in Nat /\ req[t].lanes \in Nat
    BY DEF TypeOK
  <2>2. free' \in Nat /\ freeLanes' \in Nat
    BY <1>3, <2>1 DEF TypeOK, Reserve, Fits
  <2> QED
    BY <1>3, <2>2 DEF TypeOK, Reserve, Goto, PC
<1>4. CASE Leave(t)
  BY <1>4 DEF TypeOK, Leave, Goto, PC
<1>5. CASE Park(t)
  BY <1>5 DEF TypeOK, Park, Goto, PC
<1>6. CASE Wake(t)
  BY <1>6 DEF TypeOK, Wake, Goto, PC
<1>7. CASE Release(t)
  <2>1. req[t].kib \in Nat /\ req[t].lanes \in Nat
    BY DEF TypeOK
  <2>2. free' \in Nat /\ freeLanes' \in Nat
    BY <1>7, <2>1 DEF TypeOK, Release
  <2> QED
    BY <1>7, <2>2 DEF TypeOK, Release, Goto, PC
<1>8. CASE Poke(t)
  BY <1>8 DEF TypeOK, Poke, Goto, PC
<1>9. CASE Timeout(t)
  BY <1>9 DEF TypeOK, Timeout, Goto, PC
<1> QED
  BY <1>1, <1>2, <1>3, <1>4, <1>5, <1>6, <1>7, <1>8, <1>9 DEF Work

\* Every action of a caller keeps admit with the one caller that negotiates.
LEMMA CallerAdmitStep ==
  ASSUME TypeOK, OneNegotiator, NEW t \in Callers,
         (\E q \in Requests : Enter(t, q)) \/ Admit(t) \/ Work(t) \/ Timeout(t)
  PROVE  OneNegotiator'
<1> USE DEF OneNegotiator, Negotiating, TypeOK, Goto
<1>1. CASE \E q \in Requests : Enter(t, q)
  BY <1>1 DEF Enter
<1>2. CASE Admit(t)
  BY <1>2, NobodyAssumption DEF Admit
<1>3. CASE Reserve(t)
  BY <1>3 DEF Reserve
<1>4. CASE Leave(t)
  BY <1>4, NobodyAssumption DEF Leave
<1>5. CASE Park(t)
  BY <1>5 DEF Park
<1>6. CASE Wake(t)
  BY <1>6 DEF Wake
<1>7. CASE Release(t)
  BY <1>7 DEF Release
<1>8. CASE Poke(t)
  BY <1>8 DEF Poke
<1>9. CASE Timeout(t)
  BY <1>9, NobodyAssumption DEF Timeout
<1> QED
  BY <1>1, <1>2, <1>3, <1>4, <1>5, <1>6, <1>7, <1>8, <1>9 DEF Work

\* Every action of a caller keeps the token for a parked caller whose request
\* fits: what makes the request fit is a release, which is about to poke.
LEMMA CallerWakeStep ==
  ASSUME BudgetInv, NEW t \in Callers,
         (\E q \in Requests : Enter(t, q)) \/ Admit(t) \/ Work(t) \/ Timeout(t)
  PROVE  NoLostWakeup'
<1> USE DEF BudgetInv, NoLostWakeup, TypeOK, Goto, Fits
<1>1. CASE \E q \in Requests : Enter(t, q)
  BY <1>1 DEF Enter
<1>2. CASE Admit(t)
  BY <1>2 DEF Admit
<1>3. CASE Reserve(t)
  <2>1. \A u \in Callers : pc'[u] # "park"
    BY <1>3 DEF Reserve, OneNegotiator, Negotiating
  <2> QED
    BY <2>1
<1>4. CASE Leave(t)
  BY <1>4 DEF Leave
<1>5. CASE Park(t)
  BY <1>5 DEF Park
<1>6. CASE Wake(t)
  <2>1. \A u \in Callers : pc'[u] # "park"
    BY <1>6 DEF Wake, OneNegotiator, Negotiating
  <2> QED
    BY <2>1
<1>7. CASE Release(t)
  <2>1. pc'[t] = "poke"
    BY <1>7 DEF Release
  <2> QED
    BY <2>1
<1>8. CASE Poke(t)
  BY <1>8 DEF Poke
<1>9. CASE Timeout(t)
  BY <1>9 DEF Timeout
<1> QED
  BY <1>1, <1>2, <1>3, <1>4, <1>5, <1>6, <1>7, <1>8, <1>9 DEF Work

\* The inductive invariant holds in every reachable state of the budget.
LEMMA BudgetInvariant == Spec => []BudgetInv
<1>1. Init => BudgetInv
  <2> SUFFICES ASSUME Init PROVE BudgetInv
    OBVIOUS
  <2>1. NoRequest \in [kib : Nat, lanes : Nat]
    BY DEF NoRequest
  <2>2. TypeOK
    BY <2>1, BudgetAssumption DEF Init, TypeOK, PC
  <2>3. \A t \in Callers : pc[t] = "idle"
    BY DEF Init
  <2>4. OneNegotiator
    BY <2>3, NobodyAssumption DEF Init, OneNegotiator, Negotiating
  <2>5. NoLostWakeup
    BY <2>3 DEF NoLostWakeup
  <2> QED
    BY <2>2, <2>4, <2>5 DEF BudgetInv
<1>2. BudgetInv /\ [Next]_vars => BudgetInv'
  <2> SUFFICES ASSUME BudgetInv, [Next]_vars PROVE BudgetInv'
    OBVIOUS
  <2>1. CASE Next
    <3>1. PICK t \in Callers :
            (\E q \in Requests : Enter(t, q)) \/ Admit(t) \/ Work(t) \/ Timeout(t)
      BY <2>1 DEF Next
    <3> QED
      BY <3>1, CallerTypeStep, CallerAdmitStep, CallerWakeStep DEF BudgetInv
  <2>2. CASE UNCHANGED vars
    BY <2>2 DEF vars, BudgetInv, TypeOK, OneNegotiator, Negotiating, NoLostWakeup, Fits
  <2> QED
    BY <2>1, <2>2
<1> QED
  BY <1>1, <1>2, PTL DEF Spec

\* withBudget never overdraws memory or lanes, for any load.
THEOREM BudgetTypeCorrect == Spec => []TypeOK
<1>1. BudgetInv => TypeOK
  BY DEF BudgetInv
<1> QED
  BY <1>1, BudgetInvariant, PTL

\* release and withBudget lose no wake-up, whatever order a release, a
\* time-out and a re-check of the budget happen in.
THEOREM WakeupNeverLost == Spec => []NoLostWakeup
<1>1. BudgetInv => NoLostWakeup
  BY DEF BudgetInv
<1> QED
  BY <1>1, BudgetInvariant, PTL

\* While a caller is parked in withBudget no other caller takes from the
\* budget: a large request is never overtaken.
THEOREM ParkedIsNext == Spec => ParkedNotOvertaken
<1> DEFINE Parked == \E t \in Callers : pc[t] = "park" /\ pc'[t] = "park"
           Grows == free' >= free /\ freeLanes' >= freeLanes
<1>1. BudgetInv /\ [Next]_vars => [Parked => Grows]_vars
  <2> SUFFICES ASSUME BudgetInv, Next, NEW p \in Callers, pc[p] = "park", pc'[p] = "park"
               PROVE  Grows
    BY DEF vars
  <2>1. PICK t \in Callers :
          (\E q \in Requests : Enter(t, q)) \/ Admit(t) \/ Work(t) \/ Timeout(t)
    BY DEF Next
  <2>2. ~Reserve(t)
    BY DEF Reserve, BudgetInv, OneNegotiator, Negotiating
  <2>3. req[t].kib \in Nat /\ req[t].lanes \in Nat /\ free \in Nat /\ freeLanes \in Nat
    BY DEF BudgetInv, TypeOK
  <2>4. CASE Release(t)
    BY <2>3, <2>4 DEF Release
  <2> QED
    BY <2>1, <2>2, <2>3, <2>4 DEF Work, Enter, Admit, Leave, Park, Wake, Poke, Timeout
<1> QED
  BY <1>1, BudgetInvariant, PTL DEF Spec, ParkedNotOvertaken

\* What Reservations calls holding.
Held(t) == IF pc[t] \in {"leave", "derive"} THEN req[t] ELSE NoRequest

\* A caller who reserves takes both dimensions from what is spare.
LEMMA ReserveObtains ==
  ASSUME TypeOK, NEW t \in Callers, Reserve(t), NEW q \in Requests, q = req[t]
  PROVE  Promise!Obtain(t, q)
<1>1. /\ pc[t] = "try" /\ Fits(req[t])
      /\ free' = free - req[t].kib /\ freeLanes' = freeLanes - req[t].lanes
      /\ pc' = [pc EXCEPT ![t] = "leave"] /\ req' = req
  BY DEF Reserve, Goto
<1>2. [u \in Callers |-> Held(u)]' = [[u \in Callers |-> Held(u)] EXCEPT ![t] = req[t]]
  BY <1>1 DEF Held, TypeOK
<1> QED
  BY <1>1, <1>2 DEF Promise!Obtain, Promise!Nothing, Held, NoRequest, Fits, TypeOK

\* A derivation that ends gives back both dimensions.
LEMMA ReleaseGivesBack ==
  ASSUME TypeOK, NEW t \in Callers, Release(t)
  PROVE  Promise!GiveBack(t)
<1>1. /\ pc[t] = "derive"
      /\ free' = free + req[t].kib /\ freeLanes' = freeLanes + req[t].lanes
      /\ pc' = [pc EXCEPT ![t] = "poke"] /\ req' = req
  BY DEF Release, Goto
<1>2. [u \in Callers |-> Held(u)]' = [[u \in Callers |-> Held(u)] EXCEPT ![t] = NoRequest]
  BY <1>1 DEF Held, TypeOK
<1> QED
  BY <1>1, <1>2 DEF Promise!GiveBack, Promise!Nothing, Held, NoRequest, TypeOK

\* A caller negotiates for one of the requests.
AsksARequest == \A t \in Callers : pc[t] # "idle" => req[t] \in Requests

\* Only Enter sets what a caller asks for, and only a timer or the end of a
\* derivation makes it idle.
LEMMA AsksInvariant == Spec => []AsksARequest
<1>1. Init => AsksARequest
  BY DEF Init, AsksARequest
<1>2. TypeOK /\ AsksARequest /\ [Next]_vars => AsksARequest'
  <2> SUFFICES ASSUME TypeOK, AsksARequest, [Next]_vars PROVE AsksARequest'
    OBVIOUS
  <2> USE DEF TypeOK, AsksARequest, Goto
  <2>1. ASSUME NEW t \in Callers, NEW q \in Requests, Enter(t, q) PROVE AsksARequest'
    BY <2>1 DEF Enter
  <2>2. ASSUME NEW t \in Callers, Admit(t) \/ Timeout(t) PROVE AsksARequest'
    BY <2>2 DEF Admit, Timeout
  <2>3. ASSUME NEW t \in Callers, Reserve(t) \/ Leave(t) \/ Park(t) PROVE AsksARequest'
    BY <2>3 DEF Reserve, Leave, Park
  <2>4. ASSUME NEW t \in Callers, Wake(t) \/ Release(t) \/ Poke(t) PROVE AsksARequest'
    BY <2>4 DEF Wake, Release, Poke
  <2>5. CASE UNCHANGED vars
    BY <2>5 DEF vars
  <2> QED
    BY <2>1, <2>2, <2>3, <2>4, <2>5 DEF Next, Work
<1> QED
  BY <1>1, <1>2, BudgetTypeCorrect, PTL DEF Spec

\* The steps that neither reserve nor release leave every reservation alone.
LEMMA OthersStutter ==
  ASSUME TypeOK, NEW t \in Callers,
         (\E q \in Requests : Enter(t, q)) \/ Admit(t) \/ Leave(t) \/ Park(t)
           \/ Wake(t) \/ Poke(t) \/ Timeout(t)
  PROVE  UNCHANGED Promise!reservationVars
<1>1. [u \in Callers |-> Held(u)]' = [u \in Callers |-> Held(u)]
  <2>1. \A u \in Callers : Held(u)' = Held(u)
    <3> USE DEF TypeOK, Held, Goto
    <3>1. CASE \E q \in Requests : Enter(t, q)
      BY <3>1 DEF Enter
    <3>2. CASE Admit(t) \/ Leave(t) \/ Park(t)
      BY <3>2 DEF Admit, Leave, Park
    <3>3. CASE Wake(t) \/ Poke(t) \/ Timeout(t)
      BY <3>3 DEF Wake, Poke, Timeout
    <3> QED
      BY <3>1, <3>2, <3>3
  <2> QED
    BY <2>1
<1>2. free' = free /\ freeLanes' = freeLanes
  BY DEF Enter, Admit, Leave, Park, Wake, Poke, Timeout
<1> QED
  BY <1>1, <1>2 DEF Promise!reservationVars, Held

\* withBudget and release implement Reservations for any callers, requests and
\* budget: every step reserves both dimensions, gives both back, or changes no
\* reservation.
THEOREM BudgetImplementsReservations == Spec => ImplementsReservations
<1>1. Init => Promise!NothingReserved
  <2> SUFFICES ASSUME Init PROVE Promise!NothingReserved
    OBVIOUS
  <2>1. [t \in Callers |-> Held(t)] = [t \in Callers |-> NoRequest]
    BY DEF Init, Held
  <2> QED
    BY <2>1 DEF Init, Promise!NothingReserved, Promise!Nothing, Held, NoRequest
<1>2. TypeOK /\ AsksARequest /\ [Next]_vars =>
        [Promise!ReservationsNext]_(Promise!reservationVars)
  <2> SUFFICES ASSUME TypeOK, AsksARequest, [Next]_vars
               PROVE  Promise!ReservationsNext \/ UNCHANGED Promise!reservationVars
    OBVIOUS
  <2>1. ASSUME NEW t \in Callers, Reserve(t) PROVE Promise!ReservationsNext
    <3>1. PICK q \in Requests : q = req[t]
      BY <2>1 DEF AsksARequest, Reserve
    <3>2. Promise!Obtain(t, q)
      BY <2>1, <3>1, ReserveObtains
    <3> QED
      BY <3>2 DEF Promise!ReservationsNext
  <2>2. ASSUME NEW t \in Callers, Release(t) PROVE Promise!ReservationsNext
    BY <2>2, ReleaseGivesBack DEF Promise!ReservationsNext
  <2>3. CASE UNCHANGED vars
    BY <2>3 DEF vars, Promise!reservationVars
  <2> QED
    BY <2>1, <2>2, <2>3, OthersStutter DEF Next, Work
<1> QED
  BY <1>1, <1>2, BudgetTypeCorrect, AsksInvariant, PTL
     DEF Spec, ImplementsReservations, Promise!ReservationsSpec

-----------------------------------------------------------------------------
(* The derivation slots.  The invariant ties both counters to the callers  *)
(* they count: because release brings the meter down before it frees the   *)
(* slot, and acquire counts after it took one, whoever is counted still    *)
(* occupies a slot.                                                        *)

SlotsInv ==
  /\ SlotsTypeOK
  /\ SlotsAccounted
  /\ slots <= MaxConcurrent
  /\ held = Cardinality(Counted)
  /\ PeakWithinBudget

\* The callers being finitely many, so are the ones a counter counts.
LEMMA CountsFinite ==
  /\ IsFiniteSet(Occupants) /\ Cardinality(Occupants) \in Nat
  /\ IsFiniteSet(Counted) /\ Cardinality(Counted) \in Nat
<1>1. Occupants \subseteq Derivers /\ Counted \subseteq Derivers
  BY DEF Occupants, Counted
<1>2. IsFiniteSet(Occupants) /\ IsFiniteSet(Counted)
  BY <1>1, SlotsAssumption, FS_Subset
<1> QED
  BY <1>2, FS_CardinalityType

\* A step that keeps every caller where it is, as far as the counters tell,
\* keeps the invariant.
LEMMA NotCountedStep ==
  ASSUME SlotsInv, SlotsTypeOK', Occupants' = Occupants, Counted' = Counted,
         UNCHANGED <<slots, held, peak>>
  PROVE  SlotsInv'
  BY DEF SlotsInv, SlotsAccounted, PeakWithinBudget

\* Every action of a caller keeps the counters equal to what they count.
LEMMA SlotsStep ==
  ASSUME SlotsInv, SlotsNext
  PROVE  SlotsInv'
<1>1. PICK t \in Derivers :
        \/ Call(t) \/ Refuse(t) \/ Queue(t) \/ Cancel(t)
        \/ TakeSlot(t) \/ GiveUp(t) \/ Stretch(t)
  BY DEF SlotsNext
<1>2. SlotsTypeOK
  BY DEF SlotsInv
<1>3. CASE Call(t) \/ Refuse(t) \/ Queue(t) \/ GiveUp(t)
  <2>1. Occupants' = Occupants /\ Counted' = Counted
    BY <1>2, <1>3 DEF SlotsTypeOK, Call, Refuse, Queue, GiveUp, Move, Occupants, Counted
  <2>2. SlotsTypeOK'
    BY <1>2, <1>3 DEF SlotsTypeOK, Call, Refuse, Queue, GiveUp, Move
  <2> QED
    BY <1>3, <2>1, <2>2, NotCountedStep DEF Call, Refuse, Queue, GiveUp
<1>4. CASE Cancel(t)
  <2>1. Occupants' = Occupants /\ Counted' = Counted
    BY <1>4 DEF Cancel, Occupants, Counted
  <2>2. SlotsTypeOK'
    BY <1>2, <1>4 DEF SlotsTypeOK, Cancel
  <2> QED
    BY <1>4, <2>1, <2>2, NotCountedStep DEF Cancel
<1>5. CASE TakeSlot(t)
  <2>1. Occupants' = Occupants \cup {t} /\ t \notin Occupants /\ Counted' = Counted
    BY <1>2, <1>5 DEF SlotsTypeOK, TakeSlot, Move, Occupants, Counted
  <2>2. Cardinality(Occupants') = Cardinality(Occupants) + 1
    BY <2>1, CountsFinite, FS_AddElement
  <2>3. SlotsTypeOK'
    BY <1>2, <1>5 DEF SlotsTypeOK, TakeSlot, Move
  <2> QED
    BY <1>5, <2>1, <2>2, <2>3, SlotsAssumption
    DEF SlotsInv, SlotsTypeOK, SlotsAccounted, PeakWithinBudget, TakeSlot
<1>6. CASE CountIn(t)
  <2>1. /\ Occupants' = Occupants
        /\ Counted' = Counted \cup {t} /\ t \notin Counted
        /\ Counted' \subseteq Occupants
    BY <1>2, <1>6 DEF SlotsTypeOK, CountIn, Move, Occupants, Counted
  <2>2. Cardinality(Counted') = Cardinality(Counted) + 1
    BY <2>1, CountsFinite, FS_AddElement
  <2>3. Cardinality(Counted') <= Cardinality(Occupants)
    BY <2>1, CountsFinite, FS_Subset
  <2>4. held + 1 <= MaxConcurrent /\ held' = Cardinality(Counted')
    BY <1>6, <2>2, <2>3, CountsFinite, SlotsAssumption
    DEF SlotsInv, SlotsTypeOK, SlotsAccounted, CountIn
  <2>5. SlotsTypeOK'
    BY <1>2, <1>6 DEF SlotsTypeOK, CountIn, Move
  <2> QED
    BY <1>6, <2>1, <2>4, <2>5, SlotsAssumption
    DEF SlotsInv, SlotsTypeOK, SlotsAccounted, PeakWithinBudget, CountIn
<1>7. CASE CountOut(t)
  <2>1. Occupants' = Occupants /\ Counted' = Counted \ {t} /\ t \in Counted
    BY <1>2, <1>7 DEF SlotsTypeOK, CountOut, Move, Occupants, Counted
  <2>2. Cardinality(Counted') = Cardinality(Counted) - 1
    BY <2>1, CountsFinite, FS_RemoveElement
  <2>3. held' = Cardinality(Counted') /\ held' \in Nat
    <3>1. IsFiniteSet(Counted')
      BY <2>1, CountsFinite, FS_RemoveElement
    <3>2. Cardinality(Counted') \in Nat
      BY <3>1, FS_CardinalityType
    <3> QED
      BY <1>7, <2>2, <3>2 DEF SlotsInv, CountOut
  <2>4. SlotsTypeOK'
    BY <1>2, <1>7, <2>3 DEF SlotsTypeOK, CountOut, Move
  <2> QED
    BY <1>7, <2>1, <2>3, <2>4 DEF SlotsInv, SlotsAccounted, PeakWithinBudget, CountOut
<1>8. CASE FreeSlot(t)
  <2>1. Occupants' = Occupants \ {t} /\ t \in Occupants /\ Counted' = Counted
    BY <1>2, <1>8 DEF SlotsTypeOK, FreeSlot, Move, Occupants, Counted
  <2>2. Cardinality(Occupants') = Cardinality(Occupants) - 1
    BY <2>1, CountsFinite, FS_RemoveElement
  <2>3. slots' = Cardinality(Occupants') /\ slots' \in Nat
    <3>1. IsFiniteSet(Occupants')
      BY <2>1, CountsFinite, FS_RemoveElement
    <3>2. Cardinality(Occupants') \in Nat
      BY <3>1, FS_CardinalityType
    <3> QED
      BY <1>8, <2>2, <3>2 DEF SlotsInv, SlotsAccounted, FreeSlot
  <2>4. SlotsTypeOK'
    BY <1>2, <1>8, <2>3 DEF SlotsTypeOK, FreeSlot, Move
  <2> QED
    BY <1>8, <2>1, <2>3, <2>4, SlotsAssumption
    DEF SlotsInv, SlotsTypeOK, SlotsAccounted, PeakWithinBudget, FreeSlot
<1> QED
  BY <1>1, <1>3, <1>4, <1>5, <1>6, <1>7, <1>8 DEF Stretch

\* Both counters count what they are meant to in every reachable state.
LEMMA SlotsInvariant == SlotsSpec => []SlotsInv
<1>1. SlotsInit => SlotsInv
  <2> SUFFICES ASSUME SlotsInit PROVE SlotsInv
    OBVIOUS
  <2>1. Occupants = {} /\ Counted = {}
    BY DEF SlotsInit, Occupants, Counted
  <2> QED
    BY <2>1, FS_EmptySet, SlotsAssumption
    DEF SlotsInit, SlotsInv, SlotsTypeOK, SlotsAccounted, PeakWithinBudget
<1>2. SlotsInv /\ [SlotsNext]_slotVars => SlotsInv'
  <2>1. CASE UNCHANGED slotVars
    BY <2>1 DEF slotVars, SlotsInv, SlotsTypeOK, SlotsAccounted, PeakWithinBudget, Occupants, Counted
  <2> QED
    BY <2>1, SlotsStep
<1> QED
  BY <1>1, <1>2, PTL DEF SlotsSpec

\* acquire and release lose no slot, whatever gives up, fails or panics, and
\* what admission_test.go samples once holds always: the meter's peak stays within
\* MaxConcurrent, for any load.
THEOREM SlotsNeverLost == SlotsSpec => []SlotsHeld
<1>1. SlotsInv => SlotsHeld
  BY DEF SlotsInv, SlotsHeld
<1> QED
  BY <1>1, SlotsInvariant, PTL

-----------------------------------------------------------------------------
(* Passwords *)

LoginPC == {"idle", "mint", "minting", "ok", "verify", "verifying", "dummy", "dummymint"}
Answers == {"nothing", "ok", "wrong", "stored", "ErrMalformed", "ErrBusy", "panic"}

\* What the store may hold, or a login carry.
AnyHash ==
  StoredHashes \cup {NoHash} \cup
    {Encode(p, w) : p \in Costs \cup {DefaultParams}, w \in Plaintexts \cup {Password, NoHash}}

Logins == [pc : LoginPC, plain : Plaintexts \cup {NoHash}, hash : AnyHash, told : Answers]

HashTypes ==
  /\ login \in [Deriving -> Logins]
  /\ stored \in AnyHash
  /\ holding \in [Deriving -> [kib : Nat, lanes : Nat]]
  /\ spareKiB \in Nat /\ spareLanes \in Nat
  /\ dummy \in {NoHash, Encode(DefaultParams, NoHash)}
  /\ dummyMu \in Deriving \cup {NoHash}

\* A hash in the store that this package did not write, or one that parses.
StoredSound == stored # NoHash => stored \in StoredHashes \/ Parses(stored)

\* What a login in progress carries towards its answer: the hash it derives for
\* has parsed, one it mints is for the password typed, and the answer is open.
LoginSound(l) ==
  /\ l.pc # "idle" => l.told = "nothing"
  /\ l.pc \in {"verify", "verifying", "mint", "minting"} => Parses(l.hash)
  /\ l.pc \in {"verify", "verifying", "ok", "dummy", "dummymint"} => l.plain \in Plaintexts
  /\ l.pc = "ok" => l.plain = l.hash.plain
  /\ l.pc \in {"mint", "minting"} =>
       /\ l.hash.plain # NoHash
       /\ l.plain # NoHash => l.hash = Encode(DefaultParams, l.plain)

\* The mutex is the one minting of the dummy.
DummyLocked ==
  /\ \A d \in Deriving : login[d].pc = "dummymint" <=> dummyMu = d
  /\ dummyMu # NoHash => dummy = NoHash

\* AnswersTrue, of one login.
AnswerTrue(l) ==
  /\ l.told = "ok" => l.plain = l.hash.plain /\ ~NeedsRehash(l.hash)
  /\ l.told = "wrong" => l.plain # l.hash.plain
  /\ l.told = "ErrMalformed" => l.hash \in StoredHashes

HashInv ==
  /\ HashTypes /\ StoredSound /\ DummyLocked
  /\ \A d \in Deriving : LoginSound(login[d]) /\ AnswerTrue(login[d])

\* encode, with the parameters this package mints at: what it writes parses, and
\* at the default cost is not stale.
LEMMA EncodeParses ==
  ASSUME NEW p, NEW w, Validate(p)
  PROVE  Parses(Encode(p, w)) /\ Encode(p, w).plain = w
<1> DEFINE h == Encode(p, w)
<1>1. /\ h.algorithm = "argon2id" /\ h.version = 19 /\ h.canonical = TRUE /\ h.params = p
      /\ h.salt = 16 /\ h.key = 32 /\ h.plain = w
  BY DEF Encode
<1> HIDE DEF h
<1>2. h.salt \in minSalt..maxDecoded /\ h.key \in minKey..maxDecoded
  BY <1>1 DEF minSalt, minKey, maxDecoded
<1>3. Parses(h)
  BY <1>1, <1>2 DEF Parses
<1> QED BY <1>1, <1>3 DEF h

\* The default cost is in the band, and what is minted at it is not stale.
LEMMA DefaultIsFresh ==
  ASSUME NEW w
  PROVE  Validate(DefaultParams) /\ ~NeedsRehash(Encode(DefaultParams, w))
<1>1. Encode(DefaultParams, w).params = DefaultParams
  BY DEF Encode
<1> QED
  BY <1>1 DEF Validate, NeedsRehash, DefaultParams, minMemory, maxMemory, minTime,
              maxTime, minThreads, maxThreads

\* What a hash that parses asks of the budget is a reservation, within it.
LEMMA ParsedNeeds ==
  ASSUME NEW h, Parses(h)
  PROVE  /\ h.params.memory \in Nat /\ h.params.threads \in Nat
         /\ h.params.memory <= TotalKiB /\ h.params.threads <= TotalLanes
         /\ Needs(h.params) \in [kib : Nat, lanes : Nat]
         /\ Needs(h.params).kib = h.params.memory /\ Needs(h.params).lanes = h.params.threads
<1>0. h.params.memory \in minMemory..maxMemory /\ h.params.threads \in minThreads..maxThreads
  BY Zenon DEF Parses, Validate
<1>1. /\ h.params.memory \in Nat /\ h.params.threads \in Nat
      /\ h.params.memory <= TotalKiB /\ h.params.threads <= TotalLanes
  <2>1. minMemory \in Nat /\ maxMemory \in Nat /\ minThreads \in Nat /\ maxThreads \in Nat
    BY DEF minMemory, maxMemory, minThreads, maxThreads
  <2> QED BY <1>0, <2>1, HashAssumption
<1>2. Needs(h.params) = [kib |-> h.params.memory, lanes |-> h.params.threads]
  BY DEF Needs
<1> HIDE DEF Needs
<1> QED BY <1>1, <1>2

\* A login goes to another step of its call and changes nothing else of itself.
LEMMA LoginSteps ==
  ASSUME HashTypes, NEW d \in Deriving, NEW to \in LoginPC, Step(d, to)
  PROVE  \E l \in Logins :
           /\ login' = [login EXCEPT ![d] = l]
           /\ l.pc = to /\ l.plain = login[d].plain /\ l.hash = login[d].hash
           /\ l.told = login[d].told
<1> DEFINE l == [pc |-> to, plain |-> login[d].plain, hash |-> login[d].hash, told |-> login[d].told]
<1>0. login[d] \in Logins
  BY DEF HashTypes
<1>1. l \in Logins /\ [login[d] EXCEPT !.pc = to] = l
  BY <1>0 DEF Logins
<1>2. login' = [login EXCEPT ![d] = [login[d] EXCEPT !.pc = to]]
  BY DEF Step
<1>3. login' = [login EXCEPT ![d] = l]
  BY <1>1, <1>2
<1> QED BY <1>1, <1>3

\* A login ends with an answer.
LEMMA LoginTold ==
  ASSUME HashTypes, NEW d \in Deriving, NEW what \in Answers, Told(d, what)
  PROVE  \E l \in Logins :
           /\ login' = [login EXCEPT ![d] = l]
           /\ l.pc = "idle" /\ l.plain = login[d].plain /\ l.hash = login[d].hash
           /\ l.told = what
<1> DEFINE l == [login[d] EXCEPT !.pc = "idle", !.told = what]
<1>0. login[d] \in Logins /\ "idle" \in LoginPC
  BY DEF HashTypes, LoginPC
<1>1. /\ l \in Logins /\ l.pc = "idle" /\ l.plain = login[d].plain
      /\ l.hash = login[d].hash /\ l.told = what
  BY <1>0 DEF Logins
<1>2. login' = [login EXCEPT ![d] = l]
  BY <1>0 DEF Told, HashTypes, Logins
<1> QED BY <1>1, <1>2

Carries(d, to, h) == login' = [login EXCEPT ![d].pc = to, ![d].hash = h]

\* A login goes on with another hash.
LEMMA LoginRehashes ==
  ASSUME HashTypes, NEW d \in Deriving, NEW to \in LoginPC, NEW h \in AnyHash,
         Carries(d, to, h)
  PROVE  \E l \in Logins :
           /\ login' = [login EXCEPT ![d] = l]
           /\ l.pc = to /\ l.plain = login[d].plain /\ l.hash = h
           /\ l.told = login[d].told
<1> DEFINE l == [login[d] EXCEPT !.pc = to, !.hash = h]
<1>0. login[d] \in Logins
  BY DEF HashTypes
<1>1. /\ l \in Logins /\ l.pc = to /\ l.plain = login[d].plain
      /\ l.hash = h /\ l.told = login[d].told
  BY <1>0 DEF Logins
<1>2. login' = [login EXCEPT ![d] = l]
  BY <1>0 DEF Carries, HashTypes, Logins
<1> QED BY <1>1, <1>2

\* One login moves: what it becomes has to be sound, and the rest of the state
\* is accounted for apart from it.
LEMMA LoginMoves ==
  ASSUME HashInv, NEW d \in Deriving, NEW l \in Logins, login' = [login EXCEPT ![d] = l],
         LoginSound(l), AnswerTrue(l),
         stored' \in AnyHash, StoredSound',
         holding' \in [Deriving -> [kib : Nat, lanes : Nat]],
         spareKiB' \in Nat, spareLanes' \in Nat,
         dummy' \in {NoHash, Encode(DefaultParams, NoHash)},
         dummyMu' \in Deriving \cup {NoHash}, DummyLocked'
  PROVE  HashInv'
<1>1. \A e \in Deriving : login'[e] = IF e = d THEN l ELSE login[e]
  BY DEF HashInv, HashTypes
<1>2. HashTypes'
  BY DEF HashInv, HashTypes
<1>3. \A e \in Deriving : LoginSound(login'[e]) /\ AnswerTrue(login'[e])
  BY <1>1 DEF HashInv
<1> QED BY <1>2, <1>3 DEF HashInv

\* One login moves and leaves the budget, the store and the dummy alone.
LEMMA OnlyLoginMoves ==
  ASSUME HashInv, NEW d \in Deriving, NEW l \in Logins, login' = [login EXCEPT ![d] = l],
         LoginSound(l), AnswerTrue(l), login[d].pc # "dummymint", l.pc # "dummymint",
         UNCHANGED <<reservationVars, stored, dummy, dummyMu>>
  PROVE  HashInv'
<1>1. \A e \in Deriving : login'[e] = IF e = d THEN l ELSE login[e]
  BY DEF HashInv, HashTypes
<1>2. DummyLocked'
  BY <1>1 DEF HashInv, DummyLocked
<1>3. StoredSound'
  BY DEF HashInv, StoredSound
<1> QED BY <1>2, <1>3, LoginMoves DEF HashInv, HashTypes, reservationVars

\* A derivation that reserves, or gives back, leaves the budget what it is made of.
LEMMA ReservationTypes ==
  ASSUME HashTypes, NEW d \in Deriving, NEW q \in [kib : Nat, lanes : Nat],
         Obtain(d, q) \/ GiveBack(d)
  PROVE  /\ holding' \in [Deriving -> [kib : Nat, lanes : Nat]]
         /\ spareKiB' \in Nat /\ spareLanes' \in Nat
<1>0. /\ holding \in [Deriving -> [kib : Nat, lanes : Nat]]
      /\ holding[d].kib \in Nat /\ holding[d].lanes \in Nat
      /\ spareKiB \in Nat /\ spareLanes \in Nat /\ q.kib \in Nat /\ q.lanes \in Nat
  BY DEF HashTypes
<1>1. Nothing \in [kib : Nat, lanes : Nat]
  BY DEF Nothing
<1>2. CASE Obtain(d, q)
  BY <1>0, <1>2 DEF Obtain
<1>3. CASE GiveBack(d)
  BY <1>0, <1>1, <1>3 DEF GiveBack
<1> QED BY <1>2, <1>3

\* Every action of a login.
LEMMA HashStep ==
  ASSUME HashInv, NEW d \in Deriving,
         \/ \E plain \in Plaintexts : Login(d, plain)
         \/ \E p \in Costs : HashWith(d, p)
         \/ Rehash(d) \/ Minted(d) \/ Reserved(d) \/ Busy(d) \/ Verified(d)
         \/ LockDummy(d) \/ MintDummy(d) \/ DummyPanics(d)
  PROVE  HashInv'
<1>0. /\ HashTypes /\ login[d] \in Logins /\ LoginSound(login[d]) /\ AnswerTrue(login[d])
      /\ StoredSound /\ DummyLocked
      /\ {"nothing", "ok", "wrong", "stored", "ErrMalformed", "ErrBusy", "panic"} \subseteq Answers
      /\ {"idle", "mint", "minting", "ok", "verify", "verifying", "dummy", "dummymint"}
           \subseteq LoginPC
  BY DEF HashInv, HashTypes, Answers, LoginPC
<1>n. NoHash \notin Plaintexts /\ Password # NoHash /\ NoHash \notin StoredHashes
      /\ NoHash \notin Deriving
  BY HashAssumption
<1>m. ASSUME NEW p \in Costs \cup {DefaultParams}, NEW w \in Plaintexts \cup {Password, NoHash}
      PROVE  Encode(p, w) \in AnyHash
  BY DEF AnyHash
<1>1. ASSUME NEW plain \in Plaintexts, Login(d, plain) PROVE HashInv'
  <2> DEFINE l == [pc |-> IF stored = NoHash THEN "dummy"
                          ELSE IF Parses(stored) THEN "verify" ELSE "idle",
                   plain |-> plain, hash |-> stored,
                   told |-> IF stored # NoHash /\ ~Parses(stored) THEN "ErrMalformed" ELSE "nothing"]
  <2>1. /\ login[d].pc = "idle" /\ login' = [login EXCEPT ![d] = l]
        /\ UNCHANGED <<reservationVars, stored, dummy, dummyMu>>
    BY <1>1 DEF Login
  <2>2. /\ l.pc \in {"dummy", "idle"} \/ (l.pc = "verify" /\ Parses(stored))
        /\ l.told = "nothing" \/ (l.told = "ErrMalformed" /\ l.pc = "idle"
                                  /\ stored # NoHash /\ ~Parses(stored))
        /\ l.plain = plain /\ l.hash = stored
    <3>1. CASE stored = NoHash
      BY <3>1
    <3>2. CASE stored # NoHash /\ Parses(stored)
      BY <3>2
    <3>3. CASE stored # NoHash /\ ~Parses(stored)
      BY <3>3
    <3> QED BY <3>1, <3>2, <3>3
  <2>3. l \in Logins
    <3>1. stored \in AnyHash
      BY <1>0 DEF HashTypes
    <3>2. l.pc \in LoginPC /\ l.told \in Answers
      BY <1>0, <2>2
    <3> QED BY <2>2, <3>1, <3>2 DEF Logins
  <2> HIDE DEF l
  <2>4. LoginSound(l)
    BY <2>2 DEF LoginSound
  <2>5. AnswerTrue(l)
    BY <1>0, <2>2 DEF AnswerTrue, StoredSound
  <2> QED BY <2>1, <2>2, <2>3, <2>4, <2>5, OnlyLoginMoves
<1>2. ASSUME NEW p \in Costs, HashWith(d, p) PROVE HashInv'
  <2> DEFINE h == Encode(p, Password)
             l == [pc |-> "mint", plain |-> NoHash, hash |-> h, told |-> "nothing"]
  <2>1. /\ login[d].pc = "idle" /\ Validate(p) /\ login' = [login EXCEPT ![d] = l]
        /\ UNCHANGED <<reservationVars, stored, dummy, dummyMu>>
    BY <1>2 DEF HashWith
  <2>2. h \in AnyHash /\ Parses(h) /\ h.plain = Password
    BY <1>m, <2>1, EncodeParses
  <2> HIDE DEF h
  <2>3. l \in Logins
    BY <1>0, <2>2 DEF Logins
  <2>4. l.pc = "mint" /\ l.plain = NoHash /\ l.hash = h /\ l.told = "nothing"
    OBVIOUS
  <2> HIDE DEF l
  <2>5. LoginSound(l) /\ AnswerTrue(l)
    BY <1>n, <2>2, <2>4 DEF LoginSound, AnswerTrue
  <2> QED BY <2>1, <2>3, <2>4, <2>5, OnlyLoginMoves
<1>3. CASE Rehash(d)
  <2>0. /\ login[d].pc = "ok" /\ UNCHANGED <<reservationVars, stored, dummy, dummyMu>>
        /\ login[d].plain = login[d].hash.plain /\ login[d].plain \in Plaintexts
        /\ login[d].told = "nothing"
    BY <1>0, <1>3 DEF Rehash, LoginSound
  <2>1. CASE NeedsRehash(login[d].hash)
    <3> DEFINE h == Encode(DefaultParams, login[d].plain)
    <3>1. h \in AnyHash /\ Parses(h) /\ h.plain = login[d].plain
      BY <1>m, <2>0, DefaultIsFresh, EncodeParses
    <3>2. Carries(d, "mint", h)
      BY <1>3, <2>1 DEF Rehash, Carries
    <3>3. h = Encode(DefaultParams, login[d].plain)
      OBVIOUS
    <3> HIDE DEF h
    <3>4. PICK l \in Logins :
            /\ login' = [login EXCEPT ![d] = l]
            /\ l.pc = "mint" /\ l.plain = login[d].plain /\ l.hash = h
            /\ l.told = login[d].told
      BY <1>0, <3>1, <3>2, LoginRehashes
    <3>5. LoginSound(l) /\ AnswerTrue(l)
      BY <1>n, <2>0, <3>1, <3>3, <3>4 DEF LoginSound, AnswerTrue
    <3> QED BY <2>0, <3>4, <3>5, OnlyLoginMoves
  <2>2. CASE ~NeedsRehash(login[d].hash)
    <3>1. PICK l \in Logins :
            /\ login' = [login EXCEPT ![d] = l]
            /\ l.pc = "idle" /\ l.plain = login[d].plain /\ l.hash = login[d].hash
            /\ l.told = "ok"
      BY <1>0, <1>3, <2>2, LoginTold DEF Rehash
    <3>2. LoginSound(l) /\ AnswerTrue(l)
      BY <2>0, <2>2, <3>1 DEF LoginSound, AnswerTrue
    <3> QED BY <2>0, <3>1, <3>2, OnlyLoginMoves
  <2> QED BY <2>1, <2>2
<1>4. CASE Minted(d)
  <2> DEFINE what == IF login[d].plain = NoHash THEN "stored" ELSE "ok"
  <2>0. /\ login[d].pc = "minting" /\ GiveBack(d) /\ stored' = login[d].hash
        /\ Told(d, what) /\ UNCHANGED <<dummy, dummyMu>>
    BY <1>4 DEF Minted
  <2>1. /\ what \in Answers
        /\ what = "stored" \/ (what = "ok" /\ login[d].plain # NoHash)
    BY <1>0
  <2> HIDE DEF what
  <2>2. PICK l \in Logins :
          /\ login' = [login EXCEPT ![d] = l]
          /\ l.pc = "idle" /\ l.plain = login[d].plain /\ l.hash = login[d].hash
          /\ l.told = what
    BY <1>0, <2>0, <2>1, LoginTold
  <2>3. Parses(login[d].hash) /\ login[d].hash \in AnyHash
        /\ (login[d].plain # NoHash => login[d].hash = Encode(DefaultParams, login[d].plain))
    BY <1>0, <2>0 DEF LoginSound, Logins
  <2>4. LoginSound(l)
    BY <2>2 DEF LoginSound
  <2>5. AnswerTrue(l)
    <3>1. CASE what = "stored"
      BY <2>2, <3>1 DEF AnswerTrue
    <3>2. CASE what = "ok" /\ login[d].plain # NoHash
      <4>1. /\ login[d].hash = Encode(DefaultParams, login[d].plain)
            /\ Encode(DefaultParams, login[d].plain).plain = login[d].plain
            /\ ~NeedsRehash(Encode(DefaultParams, login[d].plain))
        BY <2>3, <3>2, DefaultIsFresh, EncodeParses
      <4> QED BY <2>2, <3>2, <4>1 DEF AnswerTrue
    <3> QED BY <2>1, <3>1, <3>2
  <2>6. DummyLocked'
    BY <1>0, <2>0, <2>2 DEF DummyLocked, HashTypes
  <2>7. stored' \in AnyHash /\ StoredSound'
    BY <2>0, <2>3 DEF StoredSound
  <2>8. /\ holding' \in [Deriving -> [kib : Nat, lanes : Nat]]
        /\ spareKiB' \in Nat /\ spareLanes' \in Nat
    <3>1. [kib |-> 0, lanes |-> 0] \in [kib : Nat, lanes : Nat]
      OBVIOUS
    <3> QED BY <1>0, <2>0, <3>1, ReservationTypes
  <2> QED BY <1>0, <2>0, <2>2, <2>4, <2>5, <2>6, <2>7, <2>8, LoginMoves DEF HashTypes
<1>5. CASE Reserved(d)
  <2> DEFINE to == IF login[d].pc = "verify" THEN "verifying" ELSE "minting"
  <2>0. /\ login[d].pc \in {"verify", "mint"} /\ Obtain(d, Needs(login[d].hash.params))
        /\ Step(d, to) /\ UNCHANGED <<stored, dummy, dummyMu>>
    BY <1>5 DEF Reserved
  <2>1. /\ to \in LoginPC
        /\ (login[d].pc = "verify" /\ to = "verifying") \/ (login[d].pc = "mint" /\ to = "minting")
    BY <1>0, <2>0
  <2> HIDE DEF to
  <2>2. PICK l \in Logins :
          /\ login' = [login EXCEPT ![d] = l]
          /\ l.pc = to /\ l.plain = login[d].plain /\ l.hash = login[d].hash
          /\ l.told = login[d].told
    BY <1>0, <2>0, <2>1, LoginSteps
  <2>3. Parses(login[d].hash)
    BY <1>0, <2>0 DEF LoginSound
  <2>4. LoginSound(l) /\ AnswerTrue(l)
    BY <1>0, <2>1, <2>2 DEF LoginSound, AnswerTrue
  <2>5. DummyLocked'
    BY <1>0, <2>0, <2>1, <2>2 DEF DummyLocked, HashTypes
  <2>6. /\ holding' \in [Deriving -> [kib : Nat, lanes : Nat]]
        /\ spareKiB' \in Nat /\ spareLanes' \in Nat
    BY <1>0, <2>0, <2>3, ParsedNeeds, ReservationTypes
  <2>7. stored' \in AnyHash /\ StoredSound'
    BY <1>0, <2>0 DEF StoredSound, HashTypes
  <2> QED BY <1>0, <2>0, <2>2, <2>4, <2>5, <2>6, <2>7, LoginMoves DEF HashTypes
<1>6. CASE Busy(d)
  <2> DEFINE what == IF login[d].hash.plain = NoHash THEN "wrong" ELSE "ErrBusy"
  <2>0. /\ login[d].pc \in {"verify", "mint"} /\ Told(d, what)
        /\ UNCHANGED <<reservationVars, stored, dummy, dummyMu>>
    BY <1>6 DEF Busy
  <2>1. /\ what \in Answers
        /\ what = "ErrBusy" \/ (what = "wrong" /\ login[d].hash.plain = NoHash)
    BY <1>0
  <2> HIDE DEF what
  <2>2. PICK l \in Logins :
          /\ login' = [login EXCEPT ![d] = l]
          /\ l.pc = "idle" /\ l.plain = login[d].plain /\ l.hash = login[d].hash
          /\ l.told = what
    BY <1>0, <2>0, <2>1, LoginTold
  <2>3. what = "wrong" => login[d].plain # login[d].hash.plain
    BY <1>0, <1>n, <2>0, <2>1 DEF LoginSound
  <2>4. LoginSound(l) /\ AnswerTrue(l)
    BY <2>1, <2>2, <2>3 DEF LoginSound, AnswerTrue
  <2> QED BY <2>0, <2>2, <2>4, OnlyLoginMoves
<1>7. CASE Verified(d)
  <2>0. login[d].pc = "verifying" /\ GiveBack(d) /\ UNCHANGED <<stored, dummy, dummyMu>>
    BY <1>7 DEF Verified
  <2>1. PICK l \in Logins :
          /\ login' = [login EXCEPT ![d] = l]
          /\ l.plain = login[d].plain /\ l.hash = login[d].hash
          /\ \/ l.pc = "ok" /\ l.told = login[d].told /\ login[d].hash.plain = login[d].plain
             \/ l.pc = "idle" /\ l.told = "wrong" /\ login[d].hash.plain # login[d].plain
    <3>1. CASE login[d].hash.plain = login[d].plain
      BY <1>0, <1>7, <3>1, LoginSteps DEF Verified
    <3>2. CASE login[d].hash.plain # login[d].plain
      BY <1>0, <1>7, <3>2, LoginTold DEF Verified
    <3> QED BY <3>1, <3>2
  <2>2. LoginSound(l) /\ AnswerTrue(l)
    BY <1>0, <2>0, <2>1 DEF LoginSound, AnswerTrue
  <2>3. DummyLocked'
    BY <1>0, <2>0, <2>1 DEF DummyLocked, HashTypes
  <2>4. /\ holding' \in [Deriving -> [kib : Nat, lanes : Nat]]
        /\ spareKiB' \in Nat /\ spareLanes' \in Nat
    <3>1. [kib |-> 0, lanes |-> 0] \in [kib : Nat, lanes : Nat]
      OBVIOUS
    <3> QED BY <1>0, <2>0, <3>1, ReservationTypes
  <2>5. stored' \in AnyHash /\ StoredSound'
    BY <1>0, <2>0 DEF StoredSound, HashTypes
  <2> QED BY <1>0, <2>0, <2>1, <2>2, <2>3, <2>4, <2>5, LoginMoves DEF HashTypes
<1>8. CASE LockDummy(d)
  <2>0. /\ login[d].pc = "dummy" /\ dummyMu = NoHash /\ UNCHANGED <<reservationVars, stored, dummy>>
        /\ login[d].told = "nothing" /\ login[d].plain \in Plaintexts
    BY <1>0, <1>8 DEF LockDummy, LoginSound
  <2>1. CASE dummy = NoHash
    <3>1. Step(d, "dummymint") /\ dummyMu' = d
      BY <1>8, <2>1 DEF LockDummy
    <3>2. PICK l \in Logins :
            /\ login' = [login EXCEPT ![d] = l]
            /\ l.pc = "dummymint" /\ l.plain = login[d].plain /\ l.hash = login[d].hash
            /\ l.told = login[d].told
      BY <1>0, <3>1, LoginSteps
    <3>3. LoginSound(l) /\ AnswerTrue(l)
      BY <2>0, <3>2 DEF LoginSound, AnswerTrue
    <3>4. DummyLocked'
      BY <1>0, <1>n, <2>0, <2>1, <3>1, <3>2 DEF DummyLocked, HashTypes
    <3>5. stored' \in AnyHash /\ StoredSound'
      BY <1>0, <2>0 DEF StoredSound, HashTypes
    <3> QED BY <1>0, <2>0, <3>1, <3>2, <3>3, <3>4, <3>5, LoginMoves DEF HashTypes, reservationVars
  <2>2. CASE dummy # NoHash
    <3>1. Carries(d, "verify", dummy) /\ UNCHANGED dummyMu
      BY <1>8, <2>2 DEF LockDummy, Carries
    <3>2. dummy \in AnyHash /\ Parses(dummy)
      <4>1. dummy = Encode(DefaultParams, NoHash)
        BY <1>0, <2>2 DEF HashTypes
      <4>2. Validate(DefaultParams)
        BY DefaultIsFresh
      <4>3. Parses(Encode(DefaultParams, NoHash))
        BY <4>2, EncodeParses
      <4> QED
        BY <1>m, <4>1, <4>3
    <3>3. PICK l \in Logins :
            /\ login' = [login EXCEPT ![d] = l]
            /\ l.pc = "verify" /\ l.plain = login[d].plain /\ l.hash = dummy
            /\ l.told = login[d].told
      BY <1>0, <3>1, <3>2, LoginRehashes
    <3>4. LoginSound(l) /\ AnswerTrue(l)
      BY <2>0, <3>2, <3>3 DEF LoginSound, AnswerTrue
    <3> QED BY <2>0, <3>1, <3>3, <3>4, OnlyLoginMoves
  <2> QED BY <2>1, <2>2
<1>9. CASE MintDummy(d)
  <2> DEFINE h == Encode(DefaultParams, NoHash)
  <2>0. /\ login[d].pc = "dummymint" /\ dummy' = h /\ dummyMu' = NoHash
        /\ Carries(d, "verify", h)
        /\ UNCHANGED <<reservationVars, stored>>
        /\ login[d].told = "nothing" /\ login[d].plain \in Plaintexts
    BY <1>0, <1>9 DEF MintDummy, LoginSound, Carries
  <2>1. h \in AnyHash /\ Parses(h)
    BY <1>m, DefaultIsFresh, EncodeParses
  <2>d. dummy' \in {NoHash, Encode(DefaultParams, NoHash)}
    BY <2>0
  <2> HIDE DEF h
  <2>2. PICK l \in Logins :
          /\ login' = [login EXCEPT ![d] = l]
          /\ l.pc = "verify" /\ l.plain = login[d].plain /\ l.hash = h
          /\ l.told = login[d].told
    BY <1>0, <2>0, <2>1, LoginRehashes
  <2>3. LoginSound(l) /\ AnswerTrue(l)
    BY <2>0, <2>1, <2>2 DEF LoginSound, AnswerTrue
  <2>4. DummyLocked'
    BY <1>0, <1>n, <2>0, <2>2 DEF DummyLocked, HashTypes
  <2>5. stored' \in AnyHash /\ StoredSound'
    BY <1>0, <2>0 DEF StoredSound, HashTypes
  <2> QED BY <1>0, <2>0, <2>d, <2>2, <2>3, <2>4, <2>5, LoginMoves DEF HashTypes, reservationVars
<1>10. CASE DummyPanics(d)
  <2>0. /\ login[d].pc = "dummymint" /\ dummyMu' = NoHash /\ Told(d, "panic")
        /\ UNCHANGED <<reservationVars, stored, dummy>>
    BY <1>10 DEF DummyPanics
  <2>1. PICK l \in Logins :
          /\ login' = [login EXCEPT ![d] = l]
          /\ l.pc = "idle" /\ l.plain = login[d].plain /\ l.hash = login[d].hash
          /\ l.told = "panic"
    BY <1>0, <2>0, LoginTold
  <2>2. LoginSound(l) /\ AnswerTrue(l)
    BY <2>1 DEF LoginSound, AnswerTrue
  <2>3. DummyLocked'
    BY <1>0, <1>n, <2>0, <2>1 DEF DummyLocked, HashTypes
  <2>4. stored' \in AnyHash /\ StoredSound'
    BY <1>0, <2>0 DEF StoredSound, HashTypes
  <2> QED BY <1>0, <2>0, <2>1, <2>2, <2>3, <2>4, LoginMoves DEF HashTypes, reservationVars
<1> QED
  BY <1>1, <1>2, <1>3, <1>4, <1>5, <1>6, <1>7, <1>8, <1>9, <1>10

\* HashInv holds in every reachable state.
LEMMA HashInvariant == HashSpec => []HashInv
<1>1. HashInit => HashInv
  <2> SUFFICES ASSUME HashInit PROVE HashInv
    OBVIOUS
  <2>1. Idle \in Logins /\ Idle.pc = "idle" /\ Idle.told = "nothing"
    BY DEF Idle, Logins, LoginPC, Answers, AnyHash
  <2>2. \A d \in Deriving : login[d] = Idle
    BY DEF HashInit
  <2>3. HashTypes
    BY <2>1, HashAssumption DEF HashInit, HashTypes, NothingReserved, Nothing, AnyHash
  <2>4. StoredSound
    BY DEF HashInit, StoredSound
  <2>5. DummyLocked
    BY <2>1, <2>2, HashAssumption DEF HashInit, DummyLocked
  <2>6. \A d \in Deriving : LoginSound(login[d]) /\ AnswerTrue(login[d])
    BY <2>1, <2>2 DEF LoginSound, AnswerTrue
  <2> QED BY <2>3, <2>4, <2>5, <2>6 DEF HashInv
<1>2. HashInv /\ [HashNext]_<<reservationVars, hashVars>> => HashInv'
  <2> SUFFICES ASSUME HashInv, [HashNext]_<<reservationVars, hashVars>> PROVE HashInv'
    OBVIOUS
  <2>1. CASE HashNext
    BY <2>1, HashStep DEF HashNext
  <2>2. CASE UNCHANGED <<reservationVars, hashVars>>
    BY <2>2 DEF reservationVars, hashVars, HashInv, HashTypes, StoredSound, DummyLocked
  <2> QED BY <2>1, <2>2
<1> QED BY <1>1, <1>2, PTL DEF HashSpec

\* Hash, HashWith, Verify, NeedsRehash and DummyVerify, for any number of logins,
\* any store and any costs: every answer is true of the hash that was read, no
\* hash this package wrote is called malformed, one login upgrades a stale hash,
\* and the dummy is the one derivation outside the budget, minted one at a time
\* and never again once there is one, under a mutex nobody else is left with.
THEOREM LoginsAlwaysSound == HashSpec => []LoginsSound
<1>1. HashInv => LoginsSound
  <2> SUFFICES ASSUME HashInv PROVE LoginsSound
    OBVIOUS
  <2>1. AnswersTrue
    BY DEF HashInv, AnswerTrue, AnswersTrue
  <2>2. \A d, e \in Deriving : login[d].pc = "dummymint" /\ login[e].pc = "dummymint" => d = e
    BY DEF HashInv, DummyLocked
  <2>3. dummy # NoHash => \A d \in Deriving : login[d].pc # "dummymint"
    BY HashAssumption DEF HashInv, DummyLocked
  <2>4. spareKiB >= 0 /\ spareLanes >= 0
    BY DEF HashInv, HashTypes
  <2>5. ASSUME NEW d \in Deriving, login[d].pc \in {"verify", "mint"}
        PROVE  login[d].hash.params.memory <= TotalKiB
               /\ login[d].hash.params.threads <= TotalLanes
    <3>1. Parses(login[d].hash)
      BY <2>5 DEF HashInv, LoginSound
    <3> QED BY <3>1, ParsedNeeds
  <2>6. dummyMu # NoHash => dummyMu \in Deriving /\ login[dummyMu].pc = "dummymint"
    BY DEF HashInv, HashTypes, DummyLocked
  <2> QED BY <2>1, <2>2, <2>3, <2>4, <2>5, <2>6 DEF LoginsSound, OneDummyMint
<1> QED BY <1>1, HashInvariant, PTL

-----------------------------------------------------------------------------
(* The second factor *)

Slots == 1..CodeCount
AnyCode == Codes \cup {NoCode} \cup {Hotp[n] : n \in DOMAIN Hotp}

\* The last counter of the window the clock has come to.
Reach == (seconds \div Period) + 1

FactorTypes ==
  /\ seconds \in Nat
  /\ issued \in [Slots -> Codes] /\ \A i, j \in Slots : issued[i] = issued[j] => i = j
  /\ digests \in [Slots -> Codes \cup {NoCode}]
  /\ attempt \in [Attempts -> [pc : {"none", "spend", "blank"}, code : AnyCode, match : Nat]]
  /\ cleared \in [Counters -> Nat] /\ redeemed \in [Codes -> Nat]
  /\ spent \subseteq Nat

\* A slot holds the code it was issued with until that code passes, once.
SlotsTellRedeemed ==
  /\ \A i \in Slots : digests[i] \in {NoCode, issued[i]}
  /\ \A i \in Slots : redeemed[issued[i]] = IF digests[i] = NoCode THEN 1 ELSE 0
  /\ \A c \in Codes : (\A i \in Slots : issued[i] # c) => redeemed[c] = 0

\* A counter passed, once, exactly when it is recorded.
SpentTellsCleared ==
  /\ \A c \in Counters : cleared[c] = IF c \in spent THEN 1 ELSE 0
  /\ \A c \in spent : c <= Reach

\* What an attempt matched and has not spent yet.
MatchSound(a) ==
  /\ attempt[a].pc = "spend" => attempt[a].match <= Reach
  /\ attempt[a].pc = "blank" =>
       attempt[a].match \in Slots /\ attempt[a].code = issued[attempt[a].match]

FactorInv ==
  /\ FactorTypes /\ SlotsTellRedeemed /\ SpentTellsCleared
  /\ \A a \in Attempts : MatchSound(a)

\* The clock brings the window further, never back.
LEMMA ReachGrows ==
  ASSUME NEW s \in Nat
  PROVE  s \div Period \in Nat /\ (s \div Period) + 1 <= ((s + 1) \div Period) + 1
  BY FactorAssumption, SMTT(30)

\* One attempt moves on, with everything else it may depend on unchanged.
LEMMA AttemptMoves ==
  ASSUME FactorInv, NEW a \in Attempts,
         NEW t \in [pc : {"none", "spend", "blank"}, code : AnyCode, match : Nat],
         attempt' = [attempt EXCEPT ![a] = t],
         t.pc = "spend" => t.match <= Reach,
         t.pc = "blank" => t.match \in Slots /\ t.code = issued[t.match],
         UNCHANGED <<seconds, spent, issued, digests, cleared, redeemed>>
  PROVE  FactorInv'
<1>1. FactorTypes'
  BY DEF FactorInv, FactorTypes
<1>2. SlotsTellRedeemed' /\ SpentTellsCleared'
  BY DEF FactorInv, SlotsTellRedeemed, SpentTellsCleared, Reach
<1>3. ASSUME NEW b \in Attempts PROVE MatchSound(b)'
  <2>1. attempt'[b] = IF b = a THEN t ELSE attempt[b]
    BY DEF FactorInv, FactorTypes
  <2>2. MatchSound(b)
    BY DEF FactorInv
  <2> QED BY <2>1, <2>2 DEF MatchSound, Reach
<1> QED BY <1>1, <1>2, <1>3 DEF FactorInv

\* Every action of the second factor.
LEMMA FactorStep ==
  ASSUME FactorInv, FactorNext
  PROVE  FactorInv'
<1>0. FactorTypes /\ SlotsTellRedeemed /\ SpentTellsCleared
  BY DEF FactorInv
<1>a. \A a \in Attempts : /\ attempt[a].pc \in {"none", "spend", "blank"}
                          /\ attempt[a].code \in AnyCode /\ attempt[a].match \in Nat
                          /\ MatchSound(a)
  BY DEF FactorInv, FactorTypes
<1>n. NoAttempt \in [pc : {"none", "spend", "blank"}, code : AnyCode, match : Nat]
      /\ NoAttempt.pc = "none"
  BY DEF NoAttempt, AnyCode
<1>1. CASE PassSecond
  <2>1. seconds' = seconds + 1 /\ UNCHANGED <<spent, issued, digests, attempt, cleared, redeemed>>
    BY <1>1 DEF PassSecond
  <2>2. seconds \in Nat /\ seconds' \in Nat
    BY <1>0, <2>1 DEF FactorTypes
  <2>3. Reach \in Nat /\ Reach' \in Nat /\ Reach <= Reach'
    <3>1. seconds \div Period \in Nat /\ (seconds + 1) \div Period \in Nat
          /\ (seconds \div Period) + 1 <= ((seconds + 1) \div Period) + 1
      BY <2>2, <2>1, ReachGrows
    <3> QED BY <2>1, <3>1 DEF Reach
  <2>4. FactorTypes' /\ SlotsTellRedeemed'
    BY <1>0, <2>1, <2>2 DEF FactorTypes, SlotsTellRedeemed
  <2>5. SpentTellsCleared'
    <3>1. \A c \in spent : c \in Nat /\ c <= Reach
      BY <1>0 DEF FactorTypes, SpentTellsCleared
    <3>2. \A c \in spent : c <= Reach'
      BY <2>3, <3>1
    <3> QED BY <1>0, <2>1, <3>2 DEF SpentTellsCleared
  <2>6. ASSUME NEW a \in Attempts PROVE MatchSound(a)'
    BY <1>a, <2>1, <2>3 DEF MatchSound
  <2> QED BY <2>4, <2>5, <2>6 DEF FactorInv
<1>2. ASSUME NEW a \in Attempts, NEW code \in {Hotp[n] : n \in DOMAIN Hotp}, ValidateCode(a, code)
      PROVE  FactorInv'
  <2> DEFINE m == CHOOSE c \in Matches(code, seconds) : \A d \in Matches(code, seconds) : c <= d
             t == [pc |-> "spend", code |-> code, match |-> m]
  <2>1. seconds \div Period \in Nat
    BY <1>0, ReachGrows DEF FactorTypes
  <2>2. Matches(code, seconds) \subseteq {c \in Nat : c <= Reach}
    BY <2>1 DEF Matches, Window, Reach
  <2>3. \E c \in Matches(code, seconds) : \A d \in Matches(code, seconds) : c <= d
    <3> DEFINE q == seconds \div Period
    <3>1. Matches(code, seconds) \subseteq {q - 1, q, q + 1} /\ Matches(code, seconds) # {}
      BY <1>2 DEF Matches, Window, ValidateCode
    <3> HIDE DEF q
    <3>2. q \in Nat
      BY <2>1 DEF q
    <3>3. CASE q - 1 \in Matches(code, seconds)
      BY <3>1, <3>2, <3>3
    <3>4. CASE q - 1 \notin Matches(code, seconds) /\ q \in Matches(code, seconds)
      BY <3>1, <3>2, <3>4
    <3>5. CASE q - 1 \notin Matches(code, seconds) /\ q \notin Matches(code, seconds)
      BY <3>1, <3>2, <3>5
    <3> QED BY <3>3, <3>4, <3>5
  <2>4. m \in Matches(code, seconds)
    BY <2>3
  <2>5. attempt' = [attempt EXCEPT ![a] = t]
        /\ UNCHANGED <<seconds, spent, issued, digests, cleared, redeemed>>
    BY <1>2 DEF ValidateCode
  <2> HIDE DEF m
  <2>6. m \in Nat /\ m <= Reach
    BY <2>2, <2>4
  <2>7. t \in [pc : {"none", "spend", "blank"}, code : AnyCode, match : Nat]
        /\ t.pc = "spend" /\ t.match = m
    BY <2>6 DEF AnyCode
  <2> HIDE DEF t
  <2> QED BY <2>5, <2>6, <2>7, AttemptMoves
<1>3. ASSUME NEW a \in Attempts, Spend(a) PROVE FactorInv'
  <2> DEFINE m == attempt[a].match
  <2>0. /\ attempt[a].pc = "spend" /\ attempt' = [attempt EXCEPT ![a] = NoAttempt]
        /\ UNCHANGED <<seconds, issued, digests, redeemed>>
        /\ m \in Nat /\ m <= Reach
    BY <1>3, <1>a DEF Spend, MatchSound
  <2>1. CASE m \in spent
    <3>1. UNCHANGED <<spent, cleared>>
      BY <1>3, <2>1 DEF Spend
    <3> QED BY <1>n, <2>0, <3>1, AttemptMoves
  <2>2. CASE m \notin spent
    <3>1. /\ spent' = spent \cup {m}
          /\ cleared' = [cleared EXCEPT ![m] = @ + 1]
      BY <1>3, <2>2 DEF Spend
    <3> HIDE DEF m
    <3>2. \A c \in Counters : cleared[c] \in Nat
      BY <1>0 DEF FactorTypes
    <3>3. cleared' \in [Counters -> Nat]
      <4>1. CASE m \in Counters
        <5>1. cleared[m] + 1 \in Nat
          BY <3>2, <4>1
        <5> QED BY <1>0, <3>1, <5>1 DEF FactorTypes
      <4>2. CASE m \notin Counters
        BY <1>0, <3>1, <4>2 DEF FactorTypes
      <4> QED BY <4>1, <4>2
    <3>4. FactorTypes'
      BY <1>0, <1>n, <2>0, <3>1, <3>3 DEF FactorTypes
    <3>5. \A c \in Counters : cleared'[c] = IF c \in spent' THEN 1 ELSE 0
      BY <1>0, <2>2, <3>1 DEF FactorTypes, SpentTellsCleared
    <3>6. SpentTellsCleared'
      <4>1. \A c \in spent' : c <= Reach
        BY <1>0, <2>0, <3>1 DEF SpentTellsCleared
      <4> QED BY <2>0, <3>5, <4>1 DEF SpentTellsCleared, Reach
    <3>7. SlotsTellRedeemed'
      BY <1>0, <2>0 DEF SlotsTellRedeemed
    <3>8. ASSUME NEW b \in Attempts PROVE MatchSound(b)'
      <4>1. attempt'[b] = IF b = a THEN NoAttempt ELSE attempt[b]
        BY <1>0, <2>0 DEF FactorTypes
      <4> QED BY <1>a, <1>n, <2>0, <4>1 DEF MatchSound, Reach
    <3> QED BY <3>4, <3>6, <3>7, <3>8 DEF FactorInv
  <2> QED BY <2>1, <2>2
<1>4. ASSUME NEW a \in Attempts, NEW c \in Codes, NEW f \in {"grouped", "upper", "blank"},
             Redeem(a, [code |-> c, form |-> f])
      PROVE  FactorInv'
  <2> DEFINE typed == [code |-> c, form |-> f]
  <2>1. PICK i \in MatchDigest(Normalize(typed), digests) :
          attempt' = [attempt EXCEPT ![a] = [pc |-> "blank", code |-> typed.code, match |-> i]]
    BY <1>4 DEF Redeem
  <2>2. typed.code = c /\ Normalize(typed) \in {NoCode, c}
    BY DEF Normalize
  <2>3. i \in Slots /\ digests[i] = c
    BY <1>0, <2>1, <2>2 DEF MatchDigest, FactorTypes
  <2>4. issued[i] = c
    BY <1>0, <2>3, FactorAssumption DEF SlotsTellRedeemed
  <2>5. attempt' = [attempt EXCEPT ![a] = [pc |-> "blank", code |-> c, match |-> i]]
    BY <2>1, <2>2
  <2>6. i \in Nat
    BY <2>3, FactorAssumption DEF Slots
  <2> DEFINE t == [pc |-> "blank", code |-> c, match |-> i]
  <2>7. t \in [pc : {"none", "spend", "blank"}, code : AnyCode, match : Nat]
        /\ t.pc = "blank" /\ t.match = i /\ t.code = c
    BY <2>6 DEF AnyCode
  <2>8. attempt' = [attempt EXCEPT ![a] = t]
        /\ UNCHANGED <<seconds, spent, issued, digests, cleared, redeemed>>
    BY <1>4, <2>5 DEF Redeem
  <2> HIDE DEF t, typed
  <2> QED BY <2>3, <2>4, <2>7, <2>8, AttemptMoves
<1>5. ASSUME NEW a \in Attempts, Blank(a) PROVE FactorInv'
  <2> DEFINE i == attempt[a].match
             c == attempt[a].code
  <2>0. /\ attempt[a].pc = "blank" /\ attempt' = [attempt EXCEPT ![a] = NoAttempt]
        /\ UNCHANGED <<seconds, spent, issued, cleared>>
        /\ i \in Slots /\ c = issued[i]
    BY <1>5, <1>a DEF Blank, MatchSound
  <2>1. CASE digests[i] = NoCode
    <3>1. UNCHANGED <<digests, redeemed>>
      BY <1>5, <2>1 DEF Blank
    <3> QED BY <1>n, <2>0, <3>1, AttemptMoves
  <2>2. CASE digests[i] # NoCode
    <3>1. /\ digests' = [digests EXCEPT ![i] = NoCode]
          /\ redeemed' = [redeemed EXCEPT ![c] = @ + 1]
      BY <1>5, <2>2 DEF Blank
    <3> HIDE DEF i, c
    <3>2. c \in Codes /\ redeemed[c] = 0
      BY <1>0, <2>0, <2>2 DEF FactorTypes, SlotsTellRedeemed
    <3>3. digests' \in [Slots -> Codes \cup {NoCode}] /\ redeemed' \in [Codes -> Nat]
      <4>1. digests' \in [Slots -> Codes \cup {NoCode}]
        BY <1>0, <3>1 DEF FactorTypes
      <4>2. redeemed[c] + 1 \in Nat
        BY <3>2
      <4> QED BY <1>0, <3>1, <4>1, <4>2 DEF FactorTypes
    <3>4. FactorTypes'
      BY <1>0, <1>n, <2>0, <3>3 DEF FactorTypes
    <3>5. /\ \A j \in Slots : digests'[j] = IF j = i THEN NoCode ELSE digests[j]
          /\ \A d \in Codes : redeemed'[d] = IF d = c THEN 1 ELSE redeemed[d]
      BY <1>0, <3>1, <3>2 DEF FactorTypes
    <3>6. \A j \in Slots : issued'[j] = issued[j] /\ issued[j] \in Codes
                           /\ (issued[j] = c <=> j = i)
      BY <1>0, <2>0 DEF FactorTypes
    <3>7. SlotsTellRedeemed'
      <4>1. \A j \in Slots : digests'[j] \in {NoCode, issued'[j]}
        BY <1>0, <3>5, <3>6 DEF SlotsTellRedeemed
      <4>2. \A j \in Slots : redeemed'[issued'[j]] = IF digests'[j] = NoCode THEN 1 ELSE 0
        BY <1>0, <3>5, <3>6 DEF SlotsTellRedeemed
      <4>3. ASSUME NEW d \in Codes, \A j \in Slots : issued'[j] # d
            PROVE  redeemed'[d] = 0
        BY <1>0, <2>0, <3>5, <3>6, <4>3 DEF SlotsTellRedeemed
      <4> QED BY <4>1, <4>2, <4>3 DEF SlotsTellRedeemed
    <3>8. SpentTellsCleared'
      BY <1>0, <2>0 DEF SpentTellsCleared, Reach
    <3>9. ASSUME NEW b \in Attempts PROVE MatchSound(b)'
      <4>1. attempt'[b] = IF b = a THEN NoAttempt ELSE attempt[b]
        BY <1>0, <2>0 DEF FactorTypes
      <4> QED BY <1>a, <1>n, <2>0, <4>1 DEF MatchSound, Reach
    <3> QED BY <3>4, <3>7, <3>8, <3>9 DEF FactorInv
  <2> QED BY <2>1, <2>2
<1> QED BY <1>1, <1>2, <1>3, <1>4, <1>5 DEF FactorNext

\* FactorInv holds in every reachable state.
LEMMA FactorInvariant == FactorSpec => []FactorInv
<1>1. FactorInit => FactorInv
  <2> SUFFICES ASSUME FactorInit PROVE FactorInv
    OBVIOUS
  <2>1. issued \in [Slots -> Codes] /\ (\A i, j \in Slots : issued[i] = issued[j] => i = j)
        /\ digests = issued
    BY DEF FactorInit, Generated, Slots
  <2>2. \A a \in Attempts : attempt[a] = NoAttempt /\ NoAttempt.pc = "none"
    BY DEF FactorInit, NoAttempt
  <2>3. attempt \in [Attempts -> [pc : {"none", "spend", "blank"}, code : AnyCode, match : Nat]]
    BY DEF FactorInit, NoAttempt, AnyCode
  <2>4. FactorTypes
    BY <2>1, <2>3 DEF FactorInit, FactorTypes
  <2>5. SlotsTellRedeemed
    BY <2>1, FactorAssumption DEF FactorInit, SlotsTellRedeemed
  <2>6. SpentTellsCleared
    BY DEF FactorInit, SpentTellsCleared
  <2>7. \A a \in Attempts : MatchSound(a)
    BY <2>2 DEF MatchSound
  <2> QED BY <2>4, <2>5, <2>6, <2>7 DEF FactorInv
<1>2. FactorInv /\ [FactorNext]_factorVars => FactorInv'
  <2> SUFFICES ASSUME FactorInv, [FactorNext]_factorVars PROVE FactorInv'
    OBVIOUS
  <2>1. CASE FactorNext
    BY <2>1, FactorStep
  <2>2. CASE UNCHANGED factorVars
    BY <2>2 DEF factorVars, FactorInv, FactorTypes, SlotsTellRedeemed, SpentTellsCleared,
                MatchSound, Reach
  <2> QED BY <2>1, <2>2
<1> QED BY <1>1, <1>2, PTL DEF FactorSpec

\* Validate and MatchCode, with a product that records what they return, for any
\* number of attempts, codes, digits and periods: nothing passes twice, only
\* issued codes pass, exactly the codes that passed are gone, and no counter
\* passes that lies beyond the clock's window.
THEOREM NothingPassesTwice == FactorSpec => []OneTimeMeansOnce
<1>1. FactorInv => OneTimeMeansOnce
  <2> SUFFICES ASSUME FactorInv PROVE OneTimeMeansOnce
    OBVIOUS
  <2> DEFINE gone == {c \in Codes : redeemed[c] > 0}
  <2>0. FactorTypes /\ SlotsTellRedeemed /\ SpentTellsCleared
    BY DEF FactorInv
  <2>1. ASSUME NEW c \in Codes PROVE redeemed[c] \in {0, 1}
    BY <2>0 DEF SlotsTellRedeemed
  <2>2. \A c \in Counters : cleared[c] <= 1 /\ (cleared[c] > 0 => c <= (seconds \div Period) + 1)
    BY <2>0 DEF SpentTellsCleared, Reach
  <2>3. gone \subseteq Range(issued)
    <3>1. ASSUME NEW c \in gone PROVE \E i \in Slots : issued[i] = c
      BY <2>0, <3>1 DEF SlotsTellRedeemed
    <3> QED BY <2>0, <3>1 DEF Range, FactorTypes
  <2>4. Range(digests) \ {NoCode} = Range(issued) \ gone
    <3>1. ASSUME NEW c \in Range(digests) \ {NoCode} PROVE c \in Range(issued) \ gone
      <4>1. PICK i \in Slots : digests[i] = c /\ c # NoCode
        BY <2>0, <3>1 DEF Range, FactorTypes
      <4>2. issued[i] = c /\ redeemed[c] = 0
        BY <2>0, <4>1 DEF SlotsTellRedeemed
      <4> QED BY <2>0, <4>2 DEF Range, FactorTypes
    <3>2. ASSUME NEW c \in Range(issued) \ gone PROVE c \in Range(digests) \ {NoCode}
      <4>1. PICK i \in Slots : issued[i] = c
        BY <2>0, <3>2 DEF Range, FactorTypes
      <4>2. c \in Codes /\ redeemed[c] = 0
        BY <2>0, <2>1, <3>2, <4>1 DEF FactorTypes
      <4>3. digests[i] = c /\ c # NoCode
        BY <2>0, <4>1, <4>2, FactorAssumption DEF SlotsTellRedeemed
      <4> QED BY <2>0, <4>3 DEF Range, FactorTypes
    <3> QED BY <3>1, <3>2
  <2> QED BY <2>1, <2>2, <2>3, <2>4 DEF OneTimeMeansOnce
<1> QED BY <1>1, FactorInvariant, PTL

=============================================================================

--------------------------- MODULE PasswordBudget ---------------------------
(***************************************************************************)
(* password: the derivation budget.  withBudget reserves memory and lanes  *)
(* together, one negotiating caller at a time (the admit channel), parks   *)
(* the caller on the wake channel when the budget is short, and release    *)
(* returns the reservation and pokes wake.  Both channels have capacity    *)
(* one; the sections under budget.mu are atomic.  The peak meters, which   *)
(* only the package's tests read, are left out.                            *)
(***************************************************************************)
EXTENDS Integers

CONSTANTS
  Callers,      \* goroutines in Hash and Verify
  Requests,     \* what their parameters ask for: [kib, lanes]
  BudgetKiB,    \* budgetKiB
  BudgetLanes,  \* budgetLanes
  None

ASSUME BudgetAssumption == BudgetKiB \in Nat /\ BudgetLanes \in Nat

ASSUME RequestAssumption == Requests \subseteq [kib : Nat, lanes : Nat]

ASSUME NobodyAssumption == None \notin Callers

VARIABLES
  free, freeLanes,  \* what is not reserved
  admit,            \* the caller in the admit channel
  wake,             \* TRUE when the wake channel holds a token
  pc,               \* where each caller is in withBudget
  req               \* what each caller asks for

vars == <<free, freeLanes, admit, wake, pc, req>>

NoRequest == [kib |-> 0, lanes |-> 0]

Init ==
  /\ free = BudgetKiB /\ freeLanes = BudgetLanes
  /\ admit = None /\ wake = FALSE
  /\ pc = [t \in Callers |-> "idle"]
  /\ req = [t \in Callers |-> NoRequest]

Goto(t, to) == pc' = [pc EXCEPT ![t] = to]

\* Both dimensions or neither.
Fits(q) == free >= q.kib /\ freeLanes >= q.lanes

\* A request larger than either whole budget is ErrBusy at once.
Enter(t, q) ==
  /\ pc[t] = "idle"
  /\ q.kib <= BudgetKiB /\ q.lanes <= BudgetLanes
  /\ req' = [req EXCEPT ![t] = q]
  /\ Goto(t, "queue")
  /\ UNCHANGED <<free, freeLanes, admit, wake>>

Admit(t) ==
  /\ pc[t] = "queue" /\ admit = None
  /\ admit' = t
  /\ Goto(t, "try")
  /\ UNCHANGED <<free, freeLanes, wake, req>>

Reserve(t) ==
  /\ pc[t] = "try" /\ Fits(req[t])
  /\ free' = free - req[t].kib
  /\ freeLanes' = freeLanes - req[t].lanes
  /\ Goto(t, "leave")
  /\ UNCHANGED <<admit, wake, req>>

\* leaveQueue: admit is the queue, not the reservation.
Leave(t) ==
  /\ pc[t] = "leave"
  /\ admit' = None
  /\ Goto(t, "derive")
  /\ UNCHANGED <<free, freeLanes, wake, req>>

\* The caller parks with admit in hand.
\* Variant with a bug: it gives its place in the queue away.
ParkOutside(t) ==
  /\ pc[t] = "try" /\ ~Fits(req[t])
  /\ admit' = None
  /\ Goto(t, "park")
  /\ UNCHANGED <<free, freeLanes, wake, req>>

Park(t) ==
  /\ pc[t] = "try" /\ ~Fits(req[t])
  /\ Goto(t, "park")
  /\ UNCHANGED <<free, freeLanes, admit, wake, req>>

Wake(t) ==
  /\ pc[t] = "park" /\ wake
  /\ wake' = FALSE
  /\ Goto(t, "try")
  /\ UNCHANGED <<free, freeLanes, admit, req>>

\* maxWait expires while queued or parked: ErrBusy, leaving the queue.
Timeout(t) ==
  /\ pc[t] \in {"queue", "park"}
  /\ admit' = IF pc[t] = "park" THEN None ELSE admit
  /\ Goto(t, "idle")
  /\ UNCHANGED <<free, freeLanes, wake, req>>

\* The derivation ends or panics; release is deferred, so it runs either way.
\* Variant with a bug: a release that returns the memory only.
ReleaseMemory(t) ==
  /\ pc[t] = "derive"
  /\ free' = free + req[t].kib
  /\ Goto(t, "poke")
  /\ UNCHANGED <<freeLanes, admit, wake, req>>

Release(t) ==
  /\ pc[t] = "derive"
  /\ free' = free + req[t].kib
  /\ freeLanes' = freeLanes + req[t].lanes
  /\ Goto(t, "poke")
  /\ UNCHANGED <<admit, wake, req>>

\* A non-blocking send: a full channel already holds a token.
\* Variant with a bug: nobody is poked.
PokeNobody(t) ==
  /\ pc[t] = "poke"
  /\ Goto(t, "idle")
  /\ UNCHANGED <<free, freeLanes, admit, wake, req>>

Poke(t) ==
  /\ pc[t] = "poke"
  /\ wake' = TRUE
  /\ Goto(t, "idle")
  /\ UNCHANGED <<free, freeLanes, admit, req>>

\* Everything a caller does by itself, its timer aside.
Work(t) == Reserve(t) \/ Leave(t) \/ Park(t) \/ Wake(t) \/ Release(t) \/ Poke(t)

Next ==
  \E t \in Callers :
    (\E q \in Requests : Enter(t, q)) \/ Admit(t) \/ Work(t) \/ Timeout(t)

Spec == Init /\ [][Next]_vars

\* A blocked sender on admit is served in turn (Go queues blocked senders
\* first-in first-out) and a derivation ends.  No timer is assumed to fire.
Fairness == \A t \in Callers : WF_vars(Work(t)) /\ SF_vars(Admit(t))

-----------------------------------------------------------------------------
(* Properties *)

PC == {"idle", "queue", "try", "leave", "park", "derive", "poke"}

\* The budget is never overdrawn in either dimension, and the channels and
\* callers have their types.
TypeOK ==
  /\ free \in Nat /\ freeLanes \in Nat
  /\ admit \in Callers \cup {None}
  /\ wake \in BOOLEAN
  /\ pc \in [Callers -> PC]
  /\ req \in [Callers -> [kib : Nat, lanes : Nat]]

\* withBudget: while a caller is parked nobody else takes from the budget,
\* so small requests cannot starve a large one.
ParkedNotOvertaken ==
  [][(\E t \in Callers : pc[t] = "park" /\ pc'[t] = "park") =>
       free' >= free /\ freeLanes' >= freeLanes]_vars

\* release and the parked select: no wake-up is lost.  A parked caller whose
\* request fits finds a token, or a releaser about to send one.
NoLostWakeup ==
  \A t \in Callers : pc[t] = "park" /\ Fits(req[t]) =>
    wake \/ \E u \in Callers : pc[u] = "poke"

\* withBudget: every queued caller gets to derive, or gives up, even when
\* timers never fire; nobody waits on anybody for ever.
QueuedGetsServed == \A t \in Callers : pc[t] = "queue" ~> pc[t] \in {"derive", "idle"}

Promise == INSTANCE Reservations WITH
  Deriving <- Callers, Sizes <- Requests, TotalKiB <- BudgetKiB, TotalLanes <- BudgetLanes,
  spareKiB <- free, spareLanes <- freeLanes,
  holding <- [t \in Callers |-> IF pc[t] \in {"leave", "derive"} THEN req[t] ELSE NoRequest]

\* withBudget and release implement Reservations: a derivation runs only while it
\* holds both its dimensions, and every one of them gives back what it took,
\* after time-outs and panics too.
ImplementsReservations == Promise!ReservationsSpec
=============================================================================

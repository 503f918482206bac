---------------------------- MODULE Reservations ----------------------------
(***************************************************************************)
(* What withBudget promises whoever derives: a derivation runs only while  *)
(* it holds its memory and its lanes, both of them, out of a fixed budget, *)
(* and gives back exactly what it took.  PasswordBudget implements this;   *)
(* PasswordHash is written over it.                                        *)
(***************************************************************************)
EXTENDS Integers

CONSTANTS
  Deriving,          \* goroutines that may derive
  Sizes,             \* the reservations they may ask for: [kib, lanes]
  TotalKiB, TotalLanes

VARIABLES
  spareKiB, spareLanes,  \* what nobody holds
  holding                \* per goroutine: its reservation

reservationVars == <<spareKiB, spareLanes, holding>>

Nothing == [kib |-> 0, lanes |-> 0]

NothingReserved ==
  /\ spareKiB = TotalKiB /\ spareLanes = TotalLanes
  /\ holding = [d \in Deriving |-> Nothing]

Obtain(d, q) ==
  /\ holding[d] = Nothing /\ q.kib <= spareKiB /\ q.lanes <= spareLanes
  /\ holding' = [holding EXCEPT ![d] = q]
  /\ spareKiB' = spareKiB - q.kib /\ spareLanes' = spareLanes - q.lanes

GiveBack(d) ==
  /\ holding' = [holding EXCEPT ![d] = Nothing]
  /\ spareKiB' = spareKiB + holding[d].kib /\ spareLanes' = spareLanes + holding[d].lanes

ReservationsNext == \E d \in Deriving : GiveBack(d) \/ \E q \in Sizes : Obtain(d, q)

ReservationsSpec == NothingReserved /\ [][ReservationsNext]_reservationVars
=============================================================================

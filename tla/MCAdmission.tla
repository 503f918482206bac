----------------------------- MODULE MCAdmission -----------------------------
(* What a login goes through, in one instance: the two admission controls,  *)
(* the password checks over the budget's promise, and the second factor.    *)
(* They share no state, so a behaviour of all of them is any interleaving   *)
(* of one of each: it is enough to explore one while the others are at      *)
(* rest, and active says which one the instance exercises.                  *)
EXTENDS PasswordBudget, DeriveSlots, PasswordHash, SecondFactor, TLC

VARIABLE active  \* the package that is called

(* Some pairs of requests fit at once, one request needs the whole memory  *)
(* and one asks for more lanes than there are.                             *)
Shapes == {[kib |-> 1, lanes |-> 3], [kib |-> 2, lanes |-> 1],
           [kib |-> 4, lanes |-> 2], [kib |-> 1, lanes |-> 5]}

Cost(m, t, p) == [memory |-> m, time |-> t, threads |-> p]

(* The default, the edges of the band, and a step beyond each.             *)
SomeCosts == {DefaultParams, Cost(8192, 1, 16), Cost(8191, 3, 4), Cost(262145, 3, 4), Cost(65536, 0, 4)}

(* Another deployment's hash, the largest one, one nobody can parse.       *)
SomeHashes == {
  Encode(Cost(65536, 1, 4), Password), Encode(Cost(262144, 10, 1), Password),
  [Encode(DefaultParams, Password) EXCEPT !.canonical = FALSE],
  [Encode(DefaultParams, Password) EXCEPT !.key = 15] }

(* Counter 2 repeats the digits of counter 0; the counter below zero wraps *)
(* to one whose digits nobody was shown.                                   *)
SomeDigits == 0 :> "111" @@ 1 :> "222" @@ 2 :> "111" @@ 3 :> "333" @@ 4 :> "444"

(* The codes are interchangeable: one list of them stands for all.         *)
LoginInit ==
  /\ Init /\ SlotsInit /\ HashInit /\ FactorInit
  /\ active \in {"password", "derive", "login", "factor"}
  /\ active # "login" => stored = NoHash
  /\ issued = CHOOSE s \in Generated : TRUE

LoginNext ==
  /\ \/ /\ active = "password" /\ Next
        /\ UNCHANGED <<slotVars, reservationVars, hashVars, factorVars>>
     \/ /\ active = "derive" /\ SlotsNext
        /\ UNCHANGED <<vars, reservationVars, hashVars, factorVars>>
     \/ /\ active = "login" /\ HashNext
        /\ UNCHANGED <<vars, slotVars, factorVars>>
     \/ /\ active = "factor" /\ FactorNext
        /\ UNCHANGED <<vars, slotVars, reservationVars, hashVars>>
  /\ UNCHANGED active

LoginSpec ==
  /\ LoginInit
  /\ [][LoginNext]_<<vars, slotVars, reservationVars, hashVars, factorVars, active>>
  /\ Fairness
=============================================================================

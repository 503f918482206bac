--------------------------- MODULE MCLocalCopies ---------------------------
(* Two processes of the app "a_2eb", in the directory where the apps "a.b"  *)
(* and "a_2eb-s" keep capsules whose names look alike.                      *)
EXTENDS LocalCopies, TLC

SameApp == [p \in Procs |-> <<97, Underscore, 50, 101, 98>>]
LookAlike ==
  {<<97, Underscore, 50, 101, 98, Dot, 0>>,
   <<97, Underscore, 53, 102, 50, 101, 98, 45, 115, Dot, 0>>}
Symmetry == Permutations(Procs)
=============================================================================

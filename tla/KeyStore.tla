------------------------------ MODULE KeyStore ------------------------------
(***************************************************************************)
(* What keyfile promises of a path: one value, put there once and never    *)
(* replaced, handed whole to everyone who asks, and gone only when the     *)
(* machine lost power before it had settled.                               *)
(***************************************************************************)
CONSTANTS Keys, Foreign, None

VARIABLES
  value,    \* what is at the path
  settled,  \* power loss can no longer take it
  handed    \* the keys callers were given since power last failed

vars == <<value, settled, handed>>

Init ==
  /\ value \in {None, Foreign}
  /\ settled = (value # None) /\ handed = {}

Put(key) ==
  /\ value = None
  /\ value' = key
  /\ UNCHANGED <<settled, handed>>

\* A caller is given what is there; the writer first makes it last, where the
\* directory itself will.
Get ==
  /\ value \in Keys
  /\ handed' = handed \cup {value}
  /\ settled' \in {settled, TRUE}
  /\ UNCHANGED value

Settle ==
  /\ value # None
  /\ settled' = TRUE
  /\ UNCHANGED <<value, handed>>

PowerLoss ==
  /\ \/ settled' = (value # None) /\ UNCHANGED value
     \/ ~settled /\ value' = None /\ settled' = FALSE
  /\ handed' = {}

Next == Get \/ Settle \/ PowerLoss \/ \E key \in Keys : Put(key)

Spec == Init /\ [][Next]_vars
=============================================================================

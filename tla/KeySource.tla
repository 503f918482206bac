----------------------------- MODULE KeySource -----------------------------
(***************************************************************************)
(* What Verifier.key promises the token checks: an answer comes from one   *)
(* key set the issuer served, sets are only ever replaced by later ones,   *)
(* and a kid is refused only when the set in use does not have it.         *)
(***************************************************************************)
EXTENDS Integers

CONSTANTS
  Requests,   \* verifications under way
  KeyIDs,     \* kids they may ask for
  LastEpoch,  \* bound: how often the issuer rotates
  KeySets,    \* per epoch, the signing key under each usable kid
  NoKid

VARIABLES
  serving,    \* the epoch the issuer serves
  trusted,    \* the epoch of the set in use, or NoSet
  asked,      \* per request: the kid it waits for
  reply       \* per request: the last answer, a key or an error

sourceVars == <<serving, trusted, asked, reply>>

NoSet == -1
Refusals == {"ErrUnknownKey", "ErrJWKS"}

SourceInit ==
  /\ serving = 0 /\ trusted = NoSet
  /\ asked = [r \in Requests |-> NoKid]
  /\ reply = [r \in Requests |-> "nothing"]

Republish ==
  /\ serving < LastEpoch
  /\ serving' = serving + 1
  /\ UNCHANGED <<trusted, asked, reply>>

Ask(r, kid) ==
  /\ asked[r] = NoKid
  /\ asked' = [asked EXCEPT ![r] = kid]
  /\ reply' = [reply EXCEPT ![r] = "nothing"]
  /\ UNCHANGED <<serving, trusted>>

Has(epoch, kid) == epoch # NoSet /\ kid \in DOMAIN KeySets[epoch]

\* The set in use may be replaced on the way by one served since.
Answer(r) ==
  /\ asked[r] # NoKid
  /\ trusted' \in {trusted} \cup {e \in 0..serving : e >= trusted}
  /\ \E k \in IF Has(trusted', asked[r]) THEN {KeySets[trusted'][asked[r]]} ELSE Refusals :
        reply' = [reply EXCEPT ![r] = k]
  /\ asked' = [asked EXCEPT ![r] = NoKid]
  /\ UNCHANGED serving

SourceNext ==
  Republish \/ \E r \in Requests : Answer(r) \/ \E kid \in KeyIDs : Ask(r, kid)

SourceSpec == SourceInit /\ [][SourceNext]_sourceVars
=============================================================================

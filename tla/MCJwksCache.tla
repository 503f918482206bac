---------------------------- MODULE MCJwksCache ----------------------------
(* The key cache, and the token checks over what the cache implements.  A   *)
(* behaviour exercises one of the two: the token checks meet the cache      *)
(* through KeySource alone.                                                 *)
EXTENDS JwksCache, TokenChecks, TLC

VARIABLE active

allVars == <<vars, sourceVars, tokenVars, active>>

JwkOf(kid, use, bits, e, key) ==
  [kty |-> "RSA", kid |-> kid, alg |-> "RS256", use |-> use, bits |-> bits, e |-> e, key |-> key]
Jwk(kid, use, bits, key) == JwkOf(kid, use, bits, 3, key)

(* The issuer rotates twice.  A second key appears, with an encryption key  *)
(* under its kid, a short one under another, and one whose exponent is no   *)
(* int64; then the first one's kid is given to a new key.                   *)
Rotation ==
  0 :> <<Jwk("k1", "sig", 2048, "A")>> @@
  1 :> <<Jwk("k1", "", 2048, "A"), Jwk("k2", "sig", 2048, "B"), Jwk("k2", "enc", 2048, "E"),
         Jwk("k3", "sig", 1024, "S"), JwkOf("k1", "sig", 2048, 9, "H")>> @@
  2 :> <<Jwk("k2", "sig", 2048, "B"), Jwk("k1", "sig", 2048, "C")>>

Token(alg, typ, kid, signer, claims) ==
  [wellFormed |-> TRUE, alg |-> alg, typ |-> typ, kid |-> kid, signer |-> signer, claims |-> claims]
Login ==
  [iss |-> "us", aud |-> <<"me", "you">>, exp |-> 1, iat |-> 0, nbf |-> 0, sub |-> "u", sid |-> Absent,
   jti |-> Absent, nonce |-> "n", tokenUse |-> Absent, events |-> Absent]
Logout(exp) ==
  [iss |-> "us", aud |-> <<"me">>, exp |-> exp, iat |-> 0, nbf |-> Absent, sub |-> "u", sid |-> Absent,
   jti |-> "j", nonce |-> Absent, tokenUse |-> Absent, events |-> "logout"]

(* One rotation is enough for the checks: k1 goes to another key. *)
TwoSets == 0 :> KeySet(Rotation[0]) @@ 1 :> KeySet(Rotation[2])

(* A login for two audiences; logouts bounded by exp and by age, under a    *)
(* kid that changes hands; an event under a login's type, and an algorithm  *)
(* nobody asked for.                                                        *)
Arriving == {
  Token("RS256", "at+jwt", "k2", "B", Login),
  Token("RS256", "logout+jwt", "k1", "A", Logout(1)),
  Token("RS256", "logout+jwt", "k1", "C", Logout(9)),
  Token("RS256", "JWT", "k1", "A", Logout(1)),
  Token("HS256", "JWT", "k1", "A", Login) }

VerifierInit == Init /\ TokenInit /\ active \in {"cache", "tokens"}

VerifierNext ==
  /\ \/ active = "cache" /\ Next /\ UNCHANGED <<sourceVars, tokenVars>>
     \/ active = "tokens" /\ TokenNext /\ UNCHANGED vars
  /\ UNCHANGED active

VerifierSpec == VerifierInit /\ [][VerifierNext]_allVars /\ Fairness
=============================================================================

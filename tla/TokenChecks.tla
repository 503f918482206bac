---------------------------- MODULE TokenChecks ----------------------------
(***************************************************************************)
(* oidcverify: what Verify, VerifyLogout and Middleware make of a token,   *)
(* over the keys KeySource answers with (JwksCache implements it), and the *)
(* receiver that records the logouts it acted on.  Time passes and keys    *)
(* rotate between the key lookup, the claims check and the logout's own    *)
(* freshness check, each of which reads the clock for itself.              *)
(* A signature names the key that made it; base64, JSON and URL errors are *)
(* a token that is not wellFormed, or claims that are not.                 *)
(***************************************************************************)
EXTENDS KeySource, Sequences

CONSTANTS
  Tokens,      \* what may arrive: header, signer and claims of each
  Issuer, Audience,
  AllowMultipleAudiences,
  Nonces,      \* what a code flow may expect; "" expects none
  Leeway, MaxLogoutTokenAge,
  LastTick,    \* bound: the last clock tick
  Absent       \* a claim the token does not carry

\* A claim is a number or missing; a key is none of the errors key() answers with.
ASSUME TokenAssumption ==
  /\ Leeway \in Nat /\ MaxLogoutTokenAge \in Nat /\ LastTick \in Nat
  /\ Absent # "logout"
  /\ \A t \in Tokens :
       /\ t.kid # NoKid /\ t.signer \notin Refusals
       /\ t.claims # Absent =>
            /\ t.claims.exp # Absent => t.claims.exp \in Int
            /\ t.claims.iat # Absent => t.claims.iat \in Int

VARIABLES
  time,        \* what v.now() returns
  work,        \* per request: [pc, purpose, token, nonce, from, at]
  verdict,     \* per request: whether its last call accepted the token
  recorded,    \* the logouts the receiver remembers: [jti, until]
  applied      \* every logout it acted on: [jti, until, verified, at]

Empty == ""  \* a header, claim or nonce with nothing in it

tokenVars == <<time, work, verdict, recorded, applied>>

NoWork == [pc |-> "idle", purpose |-> "auth", token |-> Absent, nonce |-> Empty, from |-> NoSet, at |-> 0]

TokenInit ==
  /\ SourceInit
  /\ time = 0
  /\ work = [r \in Requests |-> NoWork]
  /\ verdict = [r \in Requests |-> "none"]
  /\ recorded = {} /\ applied = <<>>

----------------------------------------------------------------------------
\* The checks

\* Before any key is looked up: the shape, RS256 alone, and the purpose's type.
HeaderOK(purpose, t) ==
  /\ t.wellFormed /\ t.alg = "RS256"
  /\ IF purpose = "logout" THEN t.typ = "logout+jwt" ELSE t.typ \in {Empty, "JWT", "at+jwt"}

AudienceOK(aud) ==
  \/ aud = <<Audience>>
  \/ AllowMultipleAudiences /\ Len(aud) > 1 /\ \E i \in DOMAIN aud : aud[i] = Audience

\* The signature is checked with the key found under the kid.
SignatureOK(r) == reply[r] = work[r].token.signer

ClaimsOK(t, now) ==
  /\ t.claims # Absent
  /\ t.claims.iss = Issuer /\ AudienceOK(t.claims.aud)
  /\ t.claims.exp # Absent /\ now < t.claims.exp + Leeway
  /\ t.claims.nbf # Absent => now + Leeway >= t.claims.nbf
  /\ t.claims.iat # Absent => t.claims.iat <= now + Leeway

\* VerifyWithNonce: an event is no login, and a login has a subject.
\* Variant with a bug: the header's type is thought to tell events apart.
EventsIgnored(c, nonce) == c.sub \notin {Absent, Empty} /\ (nonce # Empty => c.nonce = nonce)
AuthOK(c, nonce) ==
  /\ c.events = Absent /\ c.sub \notin {Absent, Empty}
  /\ nonce # Empty => c.nonce = nonce

\* VerifyLogout: the logout profile.
LogoutOK(c) ==
  /\ c.nonce = Absent /\ c.tokenUse = Absent
  /\ Empty \notin {c.sub, c.sid, c.jti}
  /\ ~(c.sub = Absent /\ c.sid = Absent) /\ c.jti # Absent
  /\ c.iat # Absent /\ c.exp > c.iat
  /\ c.events = "logout"

MinOf(a, b) == IF a < b THEN a ELSE b

ReplayUntil(c) == MinOf(c.exp + Leeway, c.iat + MaxLogoutTokenAge + Leeway)

\* The issuer gives a jti to one logout: two tokens of it lapse together (external).
ASSUME JtiAssumption ==
  \A t, u \in Tokens :
    /\ t.claims # Absent /\ t.claims.exp # Absent /\ LogoutOK(t.claims)
    /\ u.claims # Absent /\ u.claims.exp # Absent /\ LogoutOK(u.claims)
    /\ t.claims.jti = u.claims.jti
    => ReplayUntil(t.claims) = ReplayUntil(u.claims)

AnyAge(c, now) == TRUE  \* variant with a bug: exp is thought to be enough
FreshAt(c, now) == now < ReplayUntil(c)

----------------------------------------------------------------------------
\* The calls

Tell(r, what) == verdict' = [verdict EXCEPT ![r] = what]

Refuse(r) == work' = [work EXCEPT ![r] = NoWork] /\ Tell(r, "none")

Clock ==
  /\ time < LastTick
  /\ time' = time + 1
  /\ UNCHANGED <<sourceVars, work, verdict, recorded, applied>>

\* verifyJWT up to the key lookup.
Verify(r, purpose, t, nonce) ==
  /\ work[r].pc = "idle"
  /\ \/ /\ ~HeaderOK(purpose, t) /\ Refuse(r) /\ UNCHANGED sourceVars
     \/ /\ HeaderOK(purpose, t) /\ Ask(r, t.kid)
        /\ work' = [work EXCEPT ![r] = [pc |-> "key", purpose |-> purpose, token |-> t,
                                              nonce |-> nonce, from |-> trusted, at |-> 0]]
        /\ Tell(r, "none")
  /\ UNCHANGED <<time, recorded, applied>>

\* Middleware: no bearer token is a 401, any other is a Verify without nonce.
Middleware(r, auth) ==
  \/ /\ auth = Absent /\ work[r].pc = "idle"
     /\ Refuse(r)
     /\ UNCHANGED <<sourceVars, time, recorded, applied>>
  \/ auth # Absent /\ Verify(r, "auth", auth, Empty)

GetKey(r) ==
  /\ Answer(r)
  /\ UNCHANGED tokenVars

\* The rest of verifyJWT, then what Verify or VerifyLogout adds to it.
CheckClaims(r) ==
  LET t == work[r].token
      sound == SignatureOK(r) /\ ClaimsOK(t, time)
      meant == IF work[r].purpose = "logout" THEN LogoutOK(t.claims) ELSE AuthOK(t.claims, work[r].nonce)
  IN  /\ work[r].pc = "key" /\ asked[r] = NoKid
      /\ \/ ~(sound /\ meant) /\ Refuse(r)
         \/ /\ sound /\ meant /\ work[r].purpose = "auth"
            /\ work' = [work EXCEPT ![r] = NoWork]
            /\ Tell(r, "accepted")
         \/ /\ sound /\ meant /\ work[r].purpose = "logout"
            /\ work' = [work EXCEPT ![r].pc = "fresh"]
            /\ UNCHANGED verdict
      /\ UNCHANGED <<sourceVars, time, recorded, applied>>

\* VerifyLogout reads the clock once more.
CheckFresh(r) ==
  /\ work[r].pc = "fresh"
  /\ \/ ~FreshAt(work[r].token.claims, time) /\ Refuse(r)
     \/ /\ FreshAt(work[r].token.claims, time)
        /\ work' = [work EXCEPT ![r].pc = "receive", ![r].at = time]
        /\ Tell(r, "accepted")
  /\ UNCHANGED <<sourceVars, time, recorded, applied>>

\* The receiver acts on the logout and records it in one step, once (external).
Receive(r) ==
  LET c == work[r].token.claims
  IN  /\ work[r].pc = "receive"
      /\ work' = [work EXCEPT ![r] = NoWork]
      /\ IF \E e \in recorded : e.jti = c.jti THEN UNCHANGED <<recorded, applied>>
         ELSE /\ recorded' = recorded \cup {[jti |-> c.jti, until |-> ReplayUntil(c)]}
              /\ applied' = Append(applied, [jti |-> c.jti, until |-> ReplayUntil(c),
                                             verified |-> work[r].at, at |-> time])
      /\ UNCHANGED <<sourceVars, time, verdict>>

\* It forgets a logout after ReplayUntil (external).
Forget(e) ==
  /\ time >= e.until
  /\ recorded' = recorded \ {e}
  /\ UNCHANGED <<sourceVars, time, work, verdict, applied>>

Reissue == Republish /\ UNCHANGED tokenVars

TokenNext ==
  \/ Clock \/ Reissue
  \/ \E e \in recorded : Forget(e)
  \/ \E r \in Requests :
       \/ \E t \in Tokens : Verify(r, "logout", t, Empty) \/ \E n \in Nonces : Verify(r, "auth", t, n)
       \/ \E a \in Tokens \cup {Absent} : Middleware(r, a)
       \/ GetKey(r) \/ CheckClaims(r) \/ CheckFresh(r) \/ Receive(r)

TokenSpec == TokenInit /\ [][TokenNext]_<<sourceVars, tokenVars>>

----------------------------------------------------------------------------
(* Properties *)

\* Verify and VerifyLogout: what is accepted was signed by a key that was under
\* its kid in a set the issuer had served and the verifier trusted at some time
\* during that very call, whatever rotated meanwhile; it has not expired when
\* the verdict falls, and a token good for a logout logs nobody in.
AcceptedSound ==
  [][\A r \in Requests : verdict[r] # "accepted" /\ verdict'[r] = "accepted" =>
       LET t == work[r].token
       IN  /\ \E e \in work[r].from..trusted : Has(e, t.kid) /\ KeySets[e][t.kid] = t.signer
           /\ time < t.claims.exp + Leeway
           /\ (work[r].purpose = "auth") = ~LogoutOK(t.claims)]_tokenVars

\* VerifyLogout: a receiver that remembers a logout until the ReplayUntil it
\* was given acts on it once, however often and late it is delivered again.
\* Only a call already verified when the record lapsed can act a second time.
LogoutAppliedOnce ==
  \A i, j \in DOMAIN applied : i < j /\ applied[i].jti = applied[j].jti =>
    applied[j].verified < applied[i].until /\ applied[j].at >= applied[i].until
=============================================================================

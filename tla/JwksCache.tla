----------------------------- MODULE JwksCache -----------------------------
(***************************************************************************)
(* oidcverify: the key set a Verifier caches.  Concurrent verifications    *)
(* look kids up under mu, refresh the set over HTTP under fetchMu alone,   *)
(* at most once per MinRefresh, and keep a stale set through an outage,    *)
(* while the issuer rotates its keys.  The sections under mu are atomic;   *)
(* v.now() is read before the first of them.                               *)
(***************************************************************************)
EXTENDS Integers, Sequences

CONSTANTS
  Callers,     \* concurrent verifications
  Kids,        \* key IDs a token header may name
  MaxEpoch,    \* bound: how often the issuer rotates
  Served,      \* per epoch, the jwk entries the issuer serves
  MinRefresh, MaxAge,  \* in effect: a zero chose the default
  MaxExponent, \* the largest int64
  MaxClock,    \* bound: the last tick
  None

ASSUME CacheAssumption ==
  /\ MaxEpoch \in Nat /\ MaxClock \in Nat
  /\ MinRefresh \in Nat \ {0} /\ MaxAge \in Nat \ {0}
  /\ DOMAIN Served = 0..MaxEpoch
  /\ None \notin Callers /\ None \notin Kids

Never == -1  \* no set was fetched, no fetch was attempted

\* Only an RSA signing key of a decent size under a kid is usable.
Usable(k) ==
  /\ k.kty = "RSA" /\ k.kid # "" /\ k.alg \in {"", "RS256"} /\ k.use \in {"", "sig"}
  /\ k.bits >= 2048 /\ k.e \in 3..MaxExponent

\* What fetch makes of a served list: the last usable entry of each kid.
KeySet(set) ==
  LET usable == {i \in DOMAIN set : Usable(set[i])}
      last(kid) == CHOOSE i \in usable : /\ set[i].kid = kid
                                         /\ \A j \in usable : set[j].kid = kid => j <= i
  IN  [kid \in {set[i].kid : i \in usable} |-> set[last(kid)].key]

Published == [e \in 0..MaxEpoch |-> KeySet(Served[e])]

VARIABLES
  clock,        \* what v.now() returns
  issuer,       \* the epoch the issuer serves
  keys,         \* the epoch of v.keys, or Never
  fetchedAt, attemptedAt,
  fetchMu,      \* who holds fetchMu
  call,         \* per verification: where it is in key()
  answered      \* per verification: what key() returned last

vars == <<clock, issuer, keys, fetchedAt, attemptedAt, fetchMu, call, answered>>

NoCall == [pc |-> "idle", kid |-> None, now |-> 0, got |-> Never]

Init ==
  /\ clock = 0 /\ issuer = 0
  /\ keys = Never /\ fetchedAt = Never /\ attemptedAt = Never
  /\ fetchMu = None
  /\ call = [c \in Callers |-> NoCall]
  /\ answered = [c \in Callers |-> "nothing"]

Known(kid) == keys # Never /\ kid \in DOMAIN Published[keys]
Cached(kid) == Published[keys][kid]
Fresh(now) == fetchedAt # Never /\ now - fetchedAt < MaxAge

RecentAttempt(now) == attemptedAt # Never /\ now - attemptedAt < MinRefresh

Goto(c, to) == call' = [call EXCEPT ![c].pc = to]

Return(c, what) ==
  /\ call' = [call EXCEPT ![c] = NoCall]
  /\ answered' = [answered EXCEPT ![c] = what]

Tick ==
  /\ clock < MaxClock
  /\ clock' = clock + 1
  /\ UNCHANGED <<issuer, keys, fetchedAt, attemptedAt, fetchMu, call, answered>>

\* The issuer publishes other keys (external).
Rotate ==
  /\ issuer < MaxEpoch
  /\ issuer' = issuer + 1
  /\ UNCHANGED <<clock, keys, fetchedAt, attemptedAt, fetchMu, call, answered>>

Call(c, kid) ==
  /\ call[c].pc = "idle"
  /\ call' = [call EXCEPT ![c] = [pc |-> "look", kid |-> kid, now |-> clock, got |-> Never]]
  /\ answered' = [answered EXCEPT ![c] = "nothing"]
  /\ UNCHANGED <<clock, issuer, keys, fetchedAt, attemptedAt, fetchMu>>

\* The first look: a fresh key, the rate limit, or on to the fetch.
Look(c) ==
  LET kid == call[c].kid
      now == call[c].now
  IN  /\ call[c].pc = "look"
      /\ IF Known(kid) /\ (Fresh(now) \/ RecentAttempt(now)) THEN Return(c, Cached(kid))
         ELSE IF RecentAttempt(now) THEN Return(c, "ErrUnknownKey")
         ELSE Goto(c, "wait") /\ UNCHANGED answered
      /\ UNCHANGED <<clock, issuer, keys, fetchedAt, attemptedAt, fetchMu>>

\* fetchMu admits one fetch at a time.
NoSingleFlight(c) == TRUE  \* variant with a bug
SingleFlight(c) == fetchMu = None

\* Under fetchMu, the second look: another verification may have fetched.
\* Variant with a bug: the second look is left out.
NoSecondLook(c) ==
  /\ call[c].pc = "wait" /\ SingleFlight(c)
  /\ Goto(c, "fetch")
  /\ fetchMu' = c /\ attemptedAt' = clock
  /\ UNCHANGED <<clock, issuer, keys, fetchedAt, answered>>

SecondLook(c) ==
  LET kid == call[c].kid
  IN  /\ call[c].pc = "wait" /\ SingleFlight(c)
      /\ IF Known(kid) /\ (Fresh(clock) \/ RecentAttempt(clock))
         THEN Return(c, Cached(kid)) /\ UNCHANGED <<fetchMu, attemptedAt>>
         ELSE IF RecentAttempt(clock)
         THEN Return(c, "ErrUnknownKey") /\ UNCHANGED <<fetchMu, attemptedAt>>
         ELSE /\ Goto(c, "fetch") /\ UNCHANGED answered
              /\ fetchMu' = c /\ attemptedAt' = clock
      /\ UNCHANGED <<clock, issuer, keys, fetchedAt>>

\* The issuer answers with the set it serves at that moment.
Respond(c) ==
  /\ call[c].pc = "fetch"
  /\ call' = [call EXCEPT ![c].pc = "install", ![c].got = issuer]
  /\ UNCHANGED <<clock, issuer, keys, fetchedAt, attemptedAt, fetchMu, answered>>

\* The fetch fails: an error, a time-out, the caller's own context.  A stale
\* set beats no set.
Unreachable(c) == IF Known(call[c].kid) THEN Cached(call[c].kid) ELSE "ErrJWKS"

\* Variant with a bug: a return that keeps fetchMu.
FailsLocked(c) ==
  /\ call[c].pc = "fetch"
  /\ Return(c, Unreachable(c))
  /\ UNCHANGED <<clock, issuer, keys, fetchedAt, attemptedAt, fetchMu>>

FetchFails(c) ==
  /\ call[c].pc = "fetch"
  /\ Return(c, Unreachable(c))
  /\ fetchMu' = None
  /\ UNCHANGED <<clock, issuer, keys, fetchedAt, attemptedAt>>

Install(c) ==
  /\ call[c].pc = "install"
  /\ keys' = call[c].got /\ fetchedAt' = clock
  /\ Return(c, IF call[c].kid \in DOMAIN Published[keys'] THEN Published[keys'][call[c].kid]
               ELSE "ErrUnknownKey")
  /\ fetchMu' = None
  /\ UNCHANGED <<clock, issuer, attemptedAt>>

Work(c) == Look(c) \/ Respond(c) \/ FetchFails(c) \/ Install(c)

Next ==
  \/ Tick \/ Rotate
  \/ \E c \in Callers : (\E kid \in Kids : Call(c, kid)) \/ SecondLook(c) \/ Work(c)

Spec == Init /\ [][Next]_vars

\* An HTTP fetch ends (the client has a time-out), and sync.Mutex serves
\* its waiters in turn.
Fairness == \A c \in Callers : WF_vars(Work(c)) /\ SF_vars(SecondLook(c))

-----------------------------------------------------------------------------
(* Properties *)

Ticks == 0..MaxClock
Errors == {"ErrUnknownKey", "ErrJWKS"}
Epochs == 0..MaxEpoch

\* The cache, the locks and every call have their types.
TypeOK ==
  /\ clock \in Ticks /\ issuer \in Epochs
  /\ keys \in Epochs \cup {Never}
  /\ fetchedAt \in Ticks \cup {Never} /\ attemptedAt \in Ticks \cup {Never}
  /\ fetchMu \in Callers \cup {None}
  /\ call \in [Callers -> [pc : {"idle", "look", "wait", "fetch", "install"},
                           kid : Kids \cup {None}, now : Ticks, got : Epochs \cup {Never}]]
  /\ answered \in [Callers -> {"nothing"} \cup Errors
                               \cup UNION {{Published[e][k] : k \in DOMAIN Published[e]} : e \in Epochs}]

\* key(): the issuer is asked at most once per MinRefresh, however many
\* verifications name however many kids, and a set older than MaxAge serves only
\* once a refresh was attempted after it was fetched, or while MinRefresh, when
\* that is the longer of the two, forbids the attempt.  Steps keep types.
RefreshDiscipline ==
  [][/\ TypeOK'
     /\ attemptedAt' # attemptedAt /\ attemptedAt # Never =>
          attemptedAt' - attemptedAt >= MinRefresh
     /\ \A c \in Callers :
          /\ answered[c] = "nothing" /\ answered'[c] \notin {"nothing"} \cup Errors
          /\ call[c].now - fetchedAt' >= MaxAge /\ call[c].now - fetchedAt' >= MinRefresh
          => attemptedAt' >= fetchedAt']_vars

Source == INSTANCE KeySource WITH
  Requests <- Callers, KeyIDs <- Kids, LastEpoch <- MaxEpoch, KeySets <- Published, NoKid <- None,
  serving <- issuer, trusted <- keys, asked <- [c \in Callers |-> call[c].kid], reply <- answered

\* key() implements KeySource: "the issuer being unreachable must not log
\* everyone out", so no verification is refused while its kid is in the cached
\* set; every answer is from one set the issuer served; and a slow fetch never
\* puts an older set over a newer one, so a withdrawn key does not come back.
ImplementsKeySource == Source!SourceSpec

\* Every verification gets an answer.
Answered == \A c \in Callers : call[c].pc # "idle" ~> call[c].pc = "idle"
=============================================================================

----------------------------- MODULE OidcProofs -----------------------------
(***************************************************************************)
(* Proofs about oidcverify: the key cache (JwksCache) implements KeySource *)
(* for any number of verifications, kids, rotations and any clock, and the *)
(* token checks (TokenChecks), which rest on KeySource alone, accept only  *)
(* sound tokens and apply a logout once.  The cache's proof rests on       *)
(* fetchMu: what its holder fetched is never older than the set in use,    *)
(* because nobody else can install one meanwhile (FetcherLeads).           *)
(***************************************************************************)
EXTENDS JwksCache, TokenChecks, TLAPS

\* fetchMu is held by exactly the verification that fetches.
OneFetcher ==
  \A c \in Callers : call[c].pc \in {"fetch", "install"} <=> fetchMu = c

\* What the holder received is at least as new as the set in use, and it
\* asked after the set in use was fetched.
FetcherLeads ==
  \A c \in Callers :
    /\ call[c].pc \in {"fetch", "install"} => attemptedAt >= fetchedAt
    /\ call[c].pc = "install" => call[c].got \in 0..issuer /\ call[c].got >= keys

\* Nothing is from the future, and a call waits for a kid until it returns.
NothingAhead ==
  /\ keys <= issuer /\ fetchedAt <= clock /\ attemptedAt <= clock
  /\ \A c \in Callers :
       /\ call[c].now <= clock
       /\ call[c].pc = "idle" <=> call[c].kid = None

CacheInv == TypeOK /\ OneFetcher /\ FetcherLeads /\ NothingAhead

Step(c) == (\E kid \in Kids : Call(c, kid)) \/ SecondLook(c) \/ Work(c)

CallRecords ==
  [pc : {"idle", "look", "wait", "fetch", "install"},
   kid : Kids \cup {None}, now : Ticks, got : Epochs \cup {Never}]

Answers ==
  {"nothing"} \cup Errors \cup UNION {{Published[e][k] : k \in DOMAIN Published[e]} : e \in Epochs}

\* A key of a published set is an answer key() may give.
LEMMA PublishedIsAnswer ==
  ASSUME NEW e \in Epochs, NEW k \in DOMAIN Published[e]
  PROVE  Published[e][k] \in Answers
BY DEF Answers

\* A kid the cache knows is in a published set.
LEMMA CachedIsAnswer ==
  ASSUME TypeOK, NEW kid, Known(kid)
  PROVE  keys \in Epochs /\ kid \in DOMAIN Published[keys] /\ Cached(kid) \in Answers
<1>1. keys \in Epochs /\ kid \in DOMAIN Published[keys]
  BY DEF TypeOK, Known
<1> QED
  BY <1>1, PublishedIsAnswer DEF Cached

\* A verification that returns leaves a call and an answer of their types.
LEMMA ReturnType ==
  ASSUME TypeOK, NEW c \in Callers, NEW what \in Answers, Return(c, what)
  PROVE  call' \in [Callers -> CallRecords] /\ answered' \in [Callers -> Answers]
<1>1. NoCall \in CallRecords
  BY CacheAssumption DEF NoCall, CallRecords, Ticks, Never
<1> QED
  BY <1>1 DEF TypeOK, Return, CallRecords, Answers

\* A verification that goes on to another place keeps its type.
LEMMA GotoType ==
  ASSUME TypeOK, NEW c \in Callers, NEW to \in {"wait", "fetch"}, Goto(c, to)
  PROVE  call' \in [Callers -> CallRecords]
BY DEF TypeOK, Goto, CallRecords

\* TypeOK, by the names used in these proofs.
LEMMA TypeParts ==
  TypeOK <=>
    /\ clock \in Ticks /\ issuer \in Epochs
    /\ keys \in Epochs \cup {Never}
    /\ fetchedAt \in Ticks \cup {Never} /\ attemptedAt \in Ticks \cup {Never}
    /\ fetchMu \in Callers \cup {None}
    /\ call \in [Callers -> CallRecords] /\ answered \in [Callers -> Answers]
BY DEF TypeOK, CallRecords, Answers

\* The same in the next state.
LEMMA TypePartsNext ==
  TypeOK' <=>
    /\ clock' \in Ticks /\ issuer' \in Epochs
    /\ keys' \in Epochs \cup {Never}
    /\ fetchedAt' \in Ticks \cup {Never} /\ attemptedAt' \in Ticks \cup {Never}
    /\ fetchMu' \in Callers \cup {None}
    /\ call' \in [Callers -> CallRecords] /\ answered' \in [Callers -> Answers]
BY DEF TypeOK, CallRecords, Answers

\* What each way out of a look returns is an answer.
LEMMA ErrorsAreAnswers == "ErrUnknownKey" \in Answers /\ "ErrJWKS" \in Answers /\ "nothing" \in Answers
BY DEF Answers, Errors

\* Every step of a verification keeps the types.
LEMMA StepType ==
  ASSUME CacheInv, NEW c \in Callers, Step(c)
  PROVE  TypeOK'
<1> USE TypePartsNext, ErrorsAreAnswers
<1>t. TypeOK
  BY DEF CacheInv
<1>p. /\ clock \in Ticks /\ issuer \in Epochs
      /\ keys \in Epochs \cup {Never}
      /\ fetchedAt \in Ticks \cup {Never} /\ attemptedAt \in Ticks \cup {Never}
      /\ fetchMu \in Callers \cup {None}
      /\ call \in [Callers -> CallRecords] /\ answered \in [Callers -> Answers]
  BY <1>t, TypeParts
<1>1. ASSUME NEW kid \in Kids, Call(c, kid) PROVE TypeOK'
  <2>1. [pc |-> "look", kid |-> kid, now |-> clock, got |-> Never] \in CallRecords
    BY <1>p DEF CallRecords
  <2>2. call' \in [Callers -> CallRecords] /\ answered' \in [Callers -> Answers]
    BY <1>1, <1>p, <2>1 DEF Call
  <2> QED
    BY <1>1, <1>p, <2>2 DEF Call
<1>2. CASE Look(c)
  <2>1. call' \in [Callers -> CallRecords] /\ answered' \in [Callers -> Answers]
    <3>1. CASE Known(call[c].kid) /\ Return(c, Cached(call[c].kid))
      <4>1. PICK a \in Answers : a = Cached(call[c].kid)
        BY <3>1, <1>t, CachedIsAnswer
      <4> QED
        BY <3>1, <4>1, <1>t, ReturnType
    <3>2. CASE Return(c, "ErrUnknownKey")
      BY <3>2, <1>t, ReturnType
    <3>3. CASE Goto(c, "wait") /\ answered' = answered
      BY <3>3, <1>t, <1>p, GotoType
    <3> QED
      BY <1>2, <3>1, <3>2, <3>3 DEF Look
  <2> QED
    BY <1>2, <1>p, <2>1 DEF Look
<1>3. CASE SecondLook(c)
  <2>1. call' \in [Callers -> CallRecords] /\ answered' \in [Callers -> Answers]
    <3>1. CASE Known(call[c].kid) /\ Return(c, Cached(call[c].kid))
      <4>1. PICK a \in Answers : a = Cached(call[c].kid)
        BY <3>1, <1>t, CachedIsAnswer
      <4> QED
        BY <3>1, <4>1, <1>t, ReturnType
    <3>2. CASE Return(c, "ErrUnknownKey")
      BY <3>2, <1>t, ReturnType
    <3>3. CASE Goto(c, "fetch") /\ answered' = answered
      BY <3>3, <1>t, <1>p, GotoType
    <3> QED
      BY <1>3, <3>1, <3>2, <3>3 DEF SecondLook
  <2>2. fetchMu' \in Callers \cup {None} /\ attemptedAt' \in Ticks \cup {Never}
    BY <1>3, <1>p DEF SecondLook
  <2> QED
    BY <1>3, <1>p, <2>1, <2>2 DEF SecondLook
<1>4. CASE Respond(c)
  <2>1. call' \in [Callers -> CallRecords]
    BY <1>4, <1>p, ZenonT(40) DEF Respond, CallRecords
  <2> QED
    BY <1>4, <1>p, <2>1 DEF Respond
<1>5. CASE FetchFails(c)
  <2>1. PICK a \in Answers : a = Unreachable(c)
    BY <1>t, CachedIsAnswer DEF Unreachable
  <2>2. call' \in [Callers -> CallRecords] /\ answered' \in [Callers -> Answers]
    BY <1>5, <1>t, <2>1, ReturnType DEF FetchFails
  <2> QED
    BY <1>5, <1>p, <2>2 DEF FetchFails
<1>6. CASE Install(c)
  <2>1. keys' \in Epochs
    <3>1. call[c].got \in 0..issuer /\ keys' = call[c].got
      BY <1>6 DEF Install, CacheInv, FetcherLeads
    <3> QED
      BY <3>1, <1>p, CacheAssumption DEF Epochs
  <2>2. PICK a \in Answers :
          a = IF call[c].kid \in DOMAIN Published[keys'] THEN Published[keys'][call[c].kid]
              ELSE "ErrUnknownKey"
    BY <2>1, PublishedIsAnswer
  <2>3. call' \in [Callers -> CallRecords] /\ answered' \in [Callers -> Answers]
    BY <1>6, <1>t, <2>2, ReturnType DEF Install
  <2> QED
    BY <1>6, <1>p, <2>1, <2>3 DEF Install
<1> QED
  BY <1>1, <1>2, <1>3, <1>4, <1>5, <1>6 DEF Step, Work

\* Every step of a verification keeps fetchMu with the one that fetches.
LEMMA StepFetcher ==
  ASSUME CacheInv, NEW c \in Callers, Step(c)
  PROVE  OneFetcher'
<1>t. /\ call \in [Callers -> CallRecords] /\ OneFetcher
  BY TypeParts DEF CacheInv
<1> USE CacheAssumption DEF OneFetcher, CallRecords
<1>1. ASSUME NEW kid \in Kids, Call(c, kid) PROVE OneFetcher'
  BY <1>t, <1>1 DEF Call
<1>2. CASE Look(c)
  BY <1>t, <1>2 DEF Look, Return, Goto, NoCall
<1>3. CASE SecondLook(c)
  BY <1>t, <1>3 DEF SecondLook, SingleFlight, Return, Goto, NoCall
<1>4. CASE Respond(c)
  BY <1>t, <1>4 DEF Respond
<1>5. CASE FetchFails(c)
  BY <1>t, <1>5 DEF FetchFails, Return, NoCall
<1>6. CASE Install(c)
  BY <1>t, <1>6 DEF Install, Return, NoCall
<1> QED
  BY <1>1, <1>2, <1>3, <1>4, <1>5, <1>6 DEF Step, Work

\* Every step of a verification keeps the fetched set ahead of the one in use:
\* only the holder of fetchMu installs, and it holds nothing afterwards.
LEMMA StepLeads ==
  ASSUME CacheInv, NEW c \in Callers, Step(c)
  PROVE  FetcherLeads'
<1>t. /\ clock \in Ticks /\ issuer \in Epochs /\ keys \in Epochs \cup {Never}
      /\ fetchedAt \in Ticks \cup {Never} /\ attemptedAt \in Ticks \cup {Never}
      /\ call \in [Callers -> CallRecords]
      /\ OneFetcher /\ FetcherLeads /\ NothingAhead
  BY TypeParts DEF CacheInv
<1> USE CacheAssumption DEF FetcherLeads, CallRecords
<1>1. ASSUME NEW kid \in Kids, Call(c, kid) PROVE FetcherLeads'
  BY <1>t, <1>1 DEF Call
<1>2. CASE Look(c)
  BY <1>t, <1>2 DEF Look, Return, Goto, NoCall
<1>3. CASE SecondLook(c)
  <2>1. CASE attemptedAt' = attemptedAt /\ call' = [call EXCEPT ![c] = NoCall]
    BY <1>t, <1>3, <2>1 DEF SecondLook, NoCall
  <2>2. CASE attemptedAt' = clock /\ Goto(c, "fetch")
    BY <1>t, <1>3, <2>2 DEF SecondLook, Goto, NothingAhead
  <2> QED
    BY <1>3, <2>1, <2>2 DEF SecondLook, Return
<1>4. CASE Respond(c)
  <2>1. keys <= issuer /\ issuer \in 0..issuer
    BY <1>t DEF NothingAhead, Epochs
  <2> QED
    BY <1>t, <1>4, <2>1 DEF Respond
<1>5. CASE FetchFails(c)
  BY <1>t, <1>5 DEF FetchFails, Return, NoCall
<1>6. CASE Install(c)
  <2>1. \A d \in Callers : call'[d].pc \notin {"fetch", "install"}
    BY <1>t, <1>6 DEF Install, Return, NoCall, OneFetcher
  <2> QED
    BY <2>1
<1> QED
  BY <1>1, <1>2, <1>3, <1>4, <1>5, <1>6 DEF Step, Work

\* Every step of a verification keeps times and epochs in the past.
LEMMA StepAhead ==
  ASSUME CacheInv, NEW c \in Callers, Step(c)
  PROVE  NothingAhead'
<1>t. /\ clock \in Ticks /\ issuer \in Epochs /\ keys \in Epochs \cup {Never}
      /\ fetchedAt \in Ticks \cup {Never} /\ attemptedAt \in Ticks \cup {Never}
      /\ call \in [Callers -> CallRecords]
      /\ FetcherLeads /\ NothingAhead
  BY TypeParts DEF CacheInv
<1> USE CacheAssumption DEF NothingAhead, CallRecords, Ticks
<1>1. ASSUME NEW kid \in Kids, Call(c, kid) PROVE NothingAhead'
  BY <1>t, <1>1 DEF Call
<1>2. CASE Look(c)
  <2>1. CASE call' = [call EXCEPT ![c] = NoCall]
    BY <1>t, <1>2, <2>1 DEF Look, NoCall
  <2>2. CASE Goto(c, "wait")
    BY <1>t, <1>2, <2>2 DEF Look, Goto
  <2> QED
    BY <1>2, <2>1, <2>2 DEF Look, Return
<1>3. CASE SecondLook(c)
  <2>1. CASE attemptedAt' = attemptedAt /\ call' = [call EXCEPT ![c] = NoCall]
    BY <1>t, <1>3, <2>1 DEF SecondLook, NoCall
  <2>2. CASE attemptedAt' = clock /\ Goto(c, "fetch")
    BY <1>t, <1>3, <2>2 DEF SecondLook, Goto
  <2> QED
    BY <1>3, <2>1, <2>2 DEF SecondLook, Return
<1>4. CASE Respond(c)
  BY <1>t, <1>4 DEF Respond
<1>5. CASE FetchFails(c)
  BY <1>t, <1>5 DEF FetchFails, Return, NoCall
<1>6. CASE Install(c)
  <2>1. call[c].got <= issuer
    BY <1>t, <1>6 DEF Install, FetcherLeads, Epochs
  <2> QED
    BY <1>t, <1>6, <2>1 DEF Install, Return, NoCall
<1> QED
  BY <1>1, <1>2, <1>3, <1>4, <1>5, <1>6 DEF Step, Work

\* Time and the issuer's rotation keep the invariant.
LEMMA WorldStep ==
  ASSUME CacheInv, Tick \/ Rotate
  PROVE  CacheInv'
<1>t. /\ clock \in Ticks /\ issuer \in Epochs /\ keys \in Epochs \cup {Never}
      /\ fetchedAt \in Ticks \cup {Never} /\ attemptedAt \in Ticks \cup {Never}
      /\ fetchMu \in Callers \cup {None}
      /\ call \in [Callers -> CallRecords] /\ answered \in [Callers -> Answers]
      /\ OneFetcher /\ FetcherLeads /\ NothingAhead
  BY TypeParts DEF CacheInv
<1>1. CASE Tick
  <2>1. TypeOK'
    BY <1>1, <1>t, TypePartsNext, CacheAssumption DEF Tick, Ticks
  <2>2. OneFetcher' /\ FetcherLeads'
    BY <1>1, <1>t DEF Tick, OneFetcher, FetcherLeads
  <2>3. NothingAhead'
    BY <1>1, <1>t, CacheAssumption DEF Tick, NothingAhead, Ticks, Never, CallRecords
  <2> QED
    BY <2>1, <2>2, <2>3 DEF CacheInv
<1>2. CASE Rotate
  <2>1. TypeOK'
    BY <1>2, <1>t, TypePartsNext, CacheAssumption DEF Rotate, Epochs
  <2>2. OneFetcher'
    BY <1>2, <1>t DEF Rotate, OneFetcher
  <2>3. FetcherLeads' /\ NothingAhead'
    BY <1>2, <1>t, CacheAssumption DEF Rotate, FetcherLeads, NothingAhead, Epochs, Never, CallRecords
  <2> QED
    BY <2>1, <2>2, <2>3 DEF CacheInv
<1> QED
  BY <1>1, <1>2

\* The inductive invariant holds in every reachable state of the key cache.
LEMMA CacheInvariant == Spec => []CacheInv
<1>1. Init => CacheInv
  <2> SUFFICES ASSUME Init PROVE CacheInv
    OBVIOUS
  <2>1. NoCall \in CallRecords /\ "nothing" \in Answers
    BY CacheAssumption, ErrorsAreAnswers DEF NoCall, CallRecords, Ticks, Never
  <2>2. TypeOK
    BY <2>1, TypeParts, CacheAssumption DEF Init, Ticks, Epochs
  <2>3. OneFetcher /\ FetcherLeads /\ NothingAhead
    BY CacheAssumption DEF Init, OneFetcher, FetcherLeads, NothingAhead, NoCall, Never
  <2> QED
    BY <2>2, <2>3 DEF CacheInv
<1>2. CacheInv /\ [Next]_vars => CacheInv'
  <2> SUFFICES ASSUME CacheInv, [Next]_vars PROVE CacheInv'
    OBVIOUS
  <2>1. CASE Tick \/ Rotate
    BY <2>1, WorldStep
  <2>2. ASSUME NEW c \in Callers, Step(c) PROVE CacheInv'
    BY <2>2, StepType, StepFetcher, StepLeads, StepAhead DEF CacheInv
  <2>3. CASE UNCHANGED vars
    BY <2>3 DEF vars, CacheInv, TypeOK, OneFetcher, FetcherLeads, NothingAhead
  <2> QED
    BY <2>1, <2>2, <2>3 DEF Next, Step
<1> QED
  BY <1>1, <1>2, PTL DEF Spec

-----------------------------------------------------------------------------
(* Refreshing *)

\* A verification that answers from the cache when its set is older than both
\* MaxAge and MinRefresh does so after a refresh was attempted since that set was
\* fetched.
LEMMA StepServesStale ==
  ASSUME CacheInv, NEW c \in Callers, Step(c), NEW d \in Callers,
         answered[d] = "nothing", answered'[d] \notin {"nothing"} \cup Errors,
         call[d].now - fetchedAt' >= MaxAge, call[d].now - fetchedAt' >= MinRefresh
  PROVE  attemptedAt' >= fetchedAt'
<1>t. /\ clock \in Ticks /\ fetchedAt \in Ticks \cup {Never} /\ attemptedAt \in Ticks \cup {Never}
      /\ call \in [Callers -> CallRecords] /\ answered \in [Callers -> Answers]
      /\ call[d].now \in Ticks
      /\ FetcherLeads /\ NothingAhead
  BY TypeParts DEF CacheInv, CallRecords
<1>i. /\ clock \in Nat /\ fetchedAt \in Int /\ attemptedAt \in Int /\ call[d].now \in Nat
      /\ call[d].now <= clock
  BY <1>t DEF Ticks, Never, NothingAhead
<1>m. MinRefresh \in Nat /\ MaxAge \in Nat /\ MinRefresh > 0 /\ MaxAge > 0
  BY CacheAssumption
<1>e. "ErrUnknownKey" \in Errors /\ "ErrJWKS" \in Errors
  BY DEF Errors
<1>1. ASSUME NEW kid \in Kids, Call(c, kid) PROVE FALSE
  BY <1>t, <1>1 DEF Call
<1>2. CASE Look(c)
  <2>1. d = c /\ fetchedAt' = fetchedAt /\ attemptedAt' = attemptedAt
    BY <1>t, <1>2 DEF Look, Return
  <2>2. Fresh(call[d].now) \/ RecentAttempt(call[d].now)
    BY <1>t, <1>e, <1>2, <2>1 DEF Look, Return
  <2> QED
    BY <1>i, <1>m, <2>1, <2>2 DEF Fresh, RecentAttempt
<1>3. CASE SecondLook(c)
  <2>1. d = c /\ fetchedAt' = fetchedAt /\ attemptedAt' = attemptedAt
    BY <1>t, <1>3 DEF SecondLook, Return
  <2>2. Fresh(clock) \/ RecentAttempt(clock)
    BY <1>t, <1>e, <1>3, <2>1 DEF SecondLook, Return
  <2> QED
    BY <1>i, <1>m, <2>1, <2>2 DEF Fresh, RecentAttempt
<1>4. CASE Respond(c)
  BY <1>t, <1>4 DEF Respond
<1>5. CASE FetchFails(c)
  BY <1>t, <1>5 DEF FetchFails, FetcherLeads
<1>6. CASE Install(c)
  <2>1. fetchedAt' = clock
    BY <1>6 DEF Install
  <2> QED
    BY <1>i, <1>m, <2>1
<1> QED
  BY <1>1, <1>2, <1>3, <1>4, <1>5, <1>6 DEF Step, Work

\* A fetch starts MinRefresh or more after the one before.
LEMMA StepSpacing ==
  ASSUME CacheInv, NEW c \in Callers, Step(c), attemptedAt' # attemptedAt, attemptedAt # Never
  PROVE  attemptedAt' - attemptedAt >= MinRefresh
<1>1. attemptedAt' = clock /\ ~RecentAttempt(clock)
  BY DEF Step, Work, Call, Look, SecondLook, Respond, FetchFails, Install
<1>2. clock \in Nat /\ attemptedAt \in Int /\ MinRefresh \in Nat
  BY TypeParts, CacheAssumption DEF CacheInv, Ticks, Never
<1> QED
  BY <1>1, <1>2 DEF RecentAttempt

\* key(): the issuer is asked at most once per MinRefresh, whatever MaxAge is, and
\* a set older than both serves only once a refresh was attempted after it was
\* fetched.
THEOREM RefreshDisciplined == Spec => RefreshDiscipline
<1> DEFINE Disciplined ==
      /\ TypeOK'
      /\ attemptedAt' # attemptedAt /\ attemptedAt # Never =>
           attemptedAt' - attemptedAt >= MinRefresh
      /\ \A c \in Callers :
           /\ answered[c] = "nothing" /\ answered'[c] \notin {"nothing"} \cup Errors
           /\ call[c].now - fetchedAt' >= MaxAge /\ call[c].now - fetchedAt' >= MinRefresh
           => attemptedAt' >= fetchedAt'
<1>1. CacheInv /\ CacheInv' /\ [Next]_vars => [Disciplined]_vars
  <2> SUFFICES ASSUME CacheInv, CacheInv', Next PROVE Disciplined
    OBVIOUS
  <2>1. TypeOK'
    BY DEF CacheInv
  <2>2. CASE Tick \/ Rotate
    <3>1. attemptedAt' = attemptedAt /\ answered' = answered
      BY <2>2 DEF Tick, Rotate
    <3> QED
      BY <2>1, <3>1
  <2>3. ASSUME NEW c \in Callers, Step(c) PROVE Disciplined
    BY <2>1, <2>3, StepSpacing, StepServesStale
  <2> QED
    BY <2>2, <2>3 DEF Next, Step
<1> QED
  BY <1>1, CacheInvariant, PTL DEF Spec, RefreshDiscipline

-----------------------------------------------------------------------------
(* The refinement of KeySource *)

\* The kids asked for, as KeySource sees them, after a call returned or went on.
LEMMA AskedAfterReturn ==
  ASSUME TypeOK, NEW c \in Callers, NEW what, Return(c, what)
  PROVE  [d \in Callers |-> call'[d].kid] =
         [[d \in Callers |-> call[d].kid] EXCEPT ![c] = None]
BY DEF TypeOK, Return, NoCall

\* A step inside a verification changes no kid that is waited for.
LEMMA AskedAfterGoto ==
  ASSUME TypeOK, NEW c \in Callers, NEW to, Goto(c, to)
  PROVE  [d \in Callers |-> call'[d].kid] = [d \in Callers |-> call[d].kid]
BY DEF TypeOK, Goto

\* A verification that returns what the set in use has, or an error when the
\* set has no such kid, answers as KeySource does.
LEMMA ReturnAnswers ==
  ASSUME CacheInv, NEW c \in Callers, call[c].pc # "idle", NEW e, NEW what, NEW kid,
         kid = call[c].kid, Return(c, what), keys' = e, issuer' = issuer,
         e = keys \/ (e \in 0..issuer /\ e >= keys),
         IF e # Never /\ kid \in DOMAIN Published[e] THEN what = Published[e][kid] ELSE what \in Errors
  PROVE  Source!Answer(c)
<1>1. TypeOK /\ kid # None
  BY DEF CacheInv, NothingAhead
<1>2. [d \in Callers |-> call'[d].kid] = [[d \in Callers |-> call[d].kid] EXCEPT ![c] = None]
  BY <1>1, AskedAfterReturn
<1>3. [d \in Callers |-> call[d].kid][c] = kid
  OBVIOUS
<1>4. answered' = [answered EXCEPT ![c] = what]
  BY DEF Return
<1>5. \E k \in IF Source!Has(e, kid) THEN {Published[e][kid]} ELSE Source!Refusals :
        answered' = [answered EXCEPT ![c] = k]
  BY <1>4 DEF Source!Has, Source!NoSet, Source!Refusals, Never, Errors
<1> QED
  BY <1>1, <1>2, <1>3, <1>5 DEF Source!Answer

\* A step that returns nothing and installs nothing is not seen.
LEMMA GotoStutters ==
  ASSUME CacheInv, NEW c \in Callers, NEW to, Goto(c, to), issuer' = issuer, keys' = keys,
         answered' = answered
  PROVE  UNCHANGED Source!sourceVars
<1>1. [d \in Callers |-> call'[d].kid] = [d \in Callers |-> call[d].kid]
  BY AskedAfterGoto DEF CacheInv
<1> QED
  BY <1>1 DEF Source!sourceVars

\* Every step of a verification asks, answers, or is not seen by KeySource.
LEMMA StepImplements ==
  ASSUME CacheInv, NEW c \in Callers, Step(c)
  PROVE  [Source!SourceNext]_(Source!sourceVars)
<1>t. /\ TypeOK /\ call \in [Callers -> CallRecords] /\ NothingAhead /\ FetcherLeads
      /\ keys \in Epochs \cup {Never} /\ issuer \in Epochs
  BY TypeParts DEF CacheInv
<1>e. "ErrUnknownKey" \in Errors /\ "ErrJWKS" \in Errors
  BY DEF Errors
<1>a. ASSUME Source!Answer(c) PROVE [Source!SourceNext]_(Source!sourceVars)
  BY <1>a DEF Source!SourceNext
<1>1. ASSUME NEW kid \in Kids, Call(c, kid) PROVE [Source!SourceNext]_(Source!sourceVars)
  <2>1. [d \in Callers |-> call'[d].kid] = [[d \in Callers |-> call[d].kid] EXCEPT ![c] = kid]
    BY <1>1, <1>t DEF Call, CallRecords
  <2>2. [d \in Callers |-> call[d].kid][c] = None
    BY <1>1, <1>t DEF Call, NothingAhead
  <2>3. Source!Ask(c, kid)
    BY <1>1, <2>1, <2>2 DEF Call, Source!Ask
  <2> QED
    BY <2>3 DEF Source!SourceNext
<1>2. CASE Look(c)
  <2> DEFINE kid == call[c].kid
  <2>0. keys' = keys /\ issuer' = issuer /\ call[c].pc # "idle"
    BY <1>2 DEF Look
  <2>1. CASE Known(kid) /\ Return(c, Cached(kid))
    <3>1. Source!Answer(c)
      BY <2>0, <2>1, ReturnAnswers DEF Known, Cached
    <3> QED
      BY <1>a, <3>1
  <2>2. CASE ~Known(kid) /\ Return(c, "ErrUnknownKey")
    <3>1. Source!Answer(c)
      BY <1>e, <2>0, <2>2, ReturnAnswers DEF Known
    <3> QED
      BY <1>a, <3>1
  <2>3. CASE Goto(c, "wait") /\ answered' = answered
    BY <2>0, <2>3, GotoStutters
  <2> QED
    BY <1>2, <2>1, <2>2, <2>3 DEF Look
<1>3. CASE SecondLook(c)
  <2> DEFINE kid == call[c].kid
  <2>0. keys' = keys /\ issuer' = issuer /\ call[c].pc # "idle"
    BY <1>3 DEF SecondLook
  <2>1. CASE Known(kid) /\ Return(c, Cached(kid))
    <3>1. Source!Answer(c)
      BY <2>0, <2>1, ReturnAnswers DEF Known, Cached
    <3> QED
      BY <1>a, <3>1
  <2>2. CASE ~Known(kid) /\ Return(c, "ErrUnknownKey")
    <3>1. Source!Answer(c)
      BY <1>e, <2>0, <2>2, ReturnAnswers DEF Known
    <3> QED
      BY <1>a, <3>1
  <2>3. CASE Goto(c, "fetch") /\ answered' = answered
    BY <2>0, <2>3, GotoStutters
  <2> QED
    BY <1>3, <2>1, <2>2, <2>3 DEF SecondLook
<1>4. CASE Respond(c)
  <2>1. [d \in Callers |-> call'[d].kid] = [d \in Callers |-> call[d].kid]
    BY <1>4, <1>t DEF Respond, CallRecords
  <2> QED
    BY <1>4, <2>1 DEF Respond, Source!sourceVars
<1>5. CASE FetchFails(c)
  <2> DEFINE kid == call[c].kid
  <2>0. keys' = keys /\ issuer' = issuer /\ call[c].pc # "idle" /\ Return(c, Unreachable(c))
    BY <1>5 DEF FetchFails
  <2>1. CASE Known(kid)
    <3>1. Source!Answer(c)
      BY <2>0, <2>1, ReturnAnswers DEF Unreachable, Known, Cached
    <3> QED
      BY <1>a, <3>1
  <2>2. CASE ~Known(kid)
    <3>1. Source!Answer(c)
      BY <1>e, <2>0, <2>2, ReturnAnswers DEF Unreachable, Known
    <3> QED
      BY <1>a, <3>1
  <2> QED
    BY <2>1, <2>2
<1>6. CASE Install(c)
  <2>1. PICK e : e = call[c].got
    OBVIOUS
  <2>2. e \in 0..issuer /\ e >= keys /\ keys' = e /\ issuer' = issuer /\ call[c].pc # "idle" /\ e # Never
    BY <1>6, <1>t, <2>1 DEF Install, FetcherLeads, Never
  <2>3. Return(c, IF call[c].kid \in DOMAIN Published[e] THEN Published[e][call[c].kid]
                  ELSE "ErrUnknownKey")
    BY <1>6, <2>1 DEF Install
  <2>4. Source!Answer(c)
    BY <1>e, <2>2, <2>3, ReturnAnswers
  <2> QED
    BY <1>a, <2>4
<1> QED
  BY <1>1, <1>2, <1>3, <1>4, <1>5, <1>6 DEF Step, Work

\* key() implements KeySource: no verification is refused while its kid is in
\* the set in use, every answer is from one set the issuer served, and a slow
\* fetch never puts an older set over a newer one.
THEOREM CacheImplementsKeySource == Spec => ImplementsKeySource
<1>1. Init => Source!SourceInit
  BY DEF Init, NoCall, Never, Source!SourceInit, Source!NoSet
<1>2. CacheInv /\ [Next]_vars => [Source!SourceNext]_(Source!sourceVars)
  <2> SUFFICES ASSUME CacheInv, [Next]_vars PROVE [Source!SourceNext]_(Source!sourceVars)
    OBVIOUS
  <2>1. CASE Tick
    BY <2>1 DEF Tick, Source!sourceVars
  <2>2. CASE Rotate
    <3>1. Source!Republish
      BY <2>2 DEF Rotate, Source!Republish
    <3> QED
      BY <3>1 DEF Source!SourceNext
  <2>3. ASSUME NEW c \in Callers, Step(c) PROVE [Source!SourceNext]_(Source!sourceVars)
    BY <2>3, StepImplements
  <2>4. CASE UNCHANGED vars
    BY <2>4 DEF vars, Source!sourceVars
  <2> QED
    BY <2>1, <2>2, <2>3, <2>4 DEF Next, Step
<1> QED
  BY <1>1, <1>2, CacheInvariant, PTL DEF Spec, ImplementsKeySource, Source!SourceSpec

-----------------------------------------------------------------------------
(* The token checks *)

WorkRecords ==
  [pc : {"idle", "key", "fresh", "receive"}, purpose : {"auth", "logout"},
   token : Tokens \cup {Absent}, nonce : Nonces \cup {Empty}, from : Int, at : Int]

\* The tokens VerifyLogout's claims checks let through.
LogoutTokens ==
  {t \in Tokens : t.claims # Absent /\ t.claims.exp # Absent /\ LogoutOK(t.claims)}

Actions == [jti : {t.claims.jti : t \in LogoutTokens}, until : Int, verified : Int, at : Int]

TokenTypes ==
  /\ serving \in Int /\ trusted \in Int /\ time \in Int
  /\ asked \in [Requests -> {NoKid} \cup {t.kid : t \in Tokens}] /\ DOMAIN reply = Requests
  /\ work \in [Requests -> WorkRecords] /\ verdict \in [Requests -> {"none", "accepted"}]
  /\ applied \in Seq(Actions)

\* The key that r was given, or its token's signer, was under the token's kid in
\* a set that was in use during the call.
KeyOfCall(r, key) ==
  \E e \in work[r].from..trusted :
    Has(e, work[r].token.kid) /\ KeySets[e][work[r].token.kid] = key

\* A call waits for its own token's kid and is given a key of a set in use
\* since it began; a logout that passed the claims' check is one, was signed by
\* such a key, and was fresh when it was verified.
CallSound(r) ==
  /\ asked[r] # NoKid => work[r].pc = "key" /\ asked[r] = work[r].token.kid
  /\ work[r].pc # "idle" => work[r].token \in Tokens /\ work[r].from <= trusted
  /\ work[r].pc = "key" /\ asked[r] = NoKid => reply[r] \in Refusals \/ KeyOfCall(r, reply[r])
  /\ work[r].pc \in {"fresh", "receive"} =>
       /\ work[r].purpose = "logout" /\ work[r].token \in LogoutTokens
       /\ KeyOfCall(r, work[r].token.signer)
  /\ work[r].pc = "receive" => work[r].at < ReplayUntil(work[r].token.claims)

CallsSound == \A r \in Requests : CallSound(r)

\* A logout acted on is recorded until it lapses.
RecordedUntil ==
  \A i \in DOMAIN applied :
    /\ \E t \in LogoutTokens :
         applied[i].jti = t.claims.jti /\ applied[i].until = ReplayUntil(t.claims)
    /\ time < applied[i].until =>
         [jti |-> applied[i].jti, until |-> applied[i].until] \in recorded

TokenInv == TokenTypes /\ CallsSound /\ RecordedUntil /\ LogoutAppliedOnce

\* The steps of one request.
Verifies(r) ==
  \E purpose \in {"auth", "logout"}, t \in Tokens, n \in Nonces \cup {Empty} : Verify(r, purpose, t, n)
TurnedAway(r) ==
  /\ work[r].pc = "idle" /\ Refuse(r)
  /\ UNCHANGED <<sourceVars, time, recorded, applied>>
TokenStep(r) ==
  Verifies(r) \/ TurnedAway(r) \/ GetKey(r) \/ CheckClaims(r) \/ CheckFresh(r) \/ Receive(r)

\* Every step is the clock's, the issuer's, the receiver's, or one of a single request.
LEMMA TokenNextSteps ==
  ASSUME TokenNext
  PROVE  Clock \/ Reissue \/ (\E e \in recorded : Forget(e)) \/ \E r \in Requests : TokenStep(r)
<1>1. ASSUME NEW r \in Requests, NEW t \in Tokens,
             Verify(r, "logout", t, Empty) \/ \E n \in Nonces : Verify(r, "auth", t, n)
      PROVE  TokenStep(r)
  BY <1>1 DEF TokenStep, Verifies
<1>2. ASSUME NEW r \in Requests, NEW a \in Tokens \cup {Absent}, Middleware(r, a)
      PROVE  TokenStep(r)
  BY <1>2 DEF TokenStep, Verifies, TurnedAway, Middleware
<1> QED
  BY <1>1, <1>2 DEF TokenNext, TokenStep

\* What KeySource answers is an error or a key of the set then in use, and the
\* set in use is never replaced by an older one.
LEMMA SourceAnswers ==
  ASSUME TokenTypes, NEW r \in Requests, Answer(r)
  PROVE  /\ trusted' \in Int /\ trusted' >= trusted
         /\ asked' = [asked EXCEPT ![r] = NoKid] /\ DOMAIN reply' = Requests
         /\ \A q \in Requests \ {r} : reply'[q] = reply[q]
         /\ \/ reply'[r] \in Refusals
            \/ Has(trusted', asked[r]) /\ KeySets[trusted'][asked[r]] = reply'[r]
<1>1. PICK e : e = trusted'
  OBVIOUS
<1>2. e \in Int /\ e >= trusted
  BY <1>1 DEF TokenTypes, Answer
<1>3. PICK k : /\ reply' = [reply EXCEPT ![r] = k]
               /\ k \in Refusals \/ (Has(e, asked[r]) /\ k = KeySets[e][asked[r]])
  BY <1>1 DEF Answer
<1> QED
  BY <1>1, <1>2, <1>3 DEF TokenTypes, Answer

\* A key of a set in use during a call stays one while the call goes on.
LEMMA KeyOfCallKept ==
  ASSUME TokenTypes, TokenTypes', NEW r \in Requests, NEW k, KeyOfCall(r, k), trusted' >= trusted,
         work'[r].token = work[r].token, work'[r].from = work[r].from
  PROVE  \E e \in work'[r].from..trusted' :
           Has(e, work'[r].token.kid) /\ KeySets[e][work'[r].token.kid] = k
<1>1. PICK e \in work[r].from..trusted :
        Has(e, work[r].token.kid) /\ KeySets[e][work[r].token.kid] = k
  BY DEF KeyOfCall
<1>2. work[r].from \in Int /\ trusted \in Int /\ trusted' \in Int
  BY DEF TokenTypes, WorkRecords
<1>3. e \in work[r].from..trusted'
  BY <1>1, <1>2
<1> QED
  BY <1>1, <1>3

\* A request that does not move stays sound whatever the key set becomes, and
\* one that is over is sound.
LEMMA CallKept ==
  ASSUME TokenTypes, TokenTypes', NEW r \in Requests, CallSound(r), trusted' >= trusted,
         work'[r] = work[r], asked'[r] = asked[r], reply'[r] = reply[r]
  PROVE  CallSound(r)'
<1>1. work[r].from \in Int /\ trusted \in Int /\ trusted' \in Int
  BY DEF TokenTypes, WorkRecords
<1>2. work[r].pc # "idle" => work[r].from <= trusted'
  BY <1>1 DEF CallSound
<1>3. KeyOfCall(r, reply[r]) => KeyOfCall(r, reply[r])'
  BY KeyOfCallKept DEF KeyOfCall
<1>4. KeyOfCall(r, work[r].token.signer) => KeyOfCall(r, work[r].token.signer)'
  BY KeyOfCallKept DEF KeyOfCall
<1> QED
  BY <1>2, <1>3, <1>4 DEF CallSound

\* A call that is over has nothing left to be wrong about.
LEMMA CallOver ==
  ASSUME NEW r \in Requests, work'[r] = NoWork, asked'[r] = NoKid
  PROVE  CallSound(r)'
BY DEF CallSound, NoWork

\* When a logout token may be replayed until is a number.
LEMMA ReplayUntilIsInt ==
  ASSUME NEW t \in LogoutTokens
  PROVE  /\ ReplayUntil(t.claims) \in Int /\ t.claims.exp \in Int
         /\ ReplayUntil(t.claims) <= t.claims.exp + Leeway
<1>1. t.claims.exp \in Int /\ t.claims.iat \in Int
  BY TokenAssumption DEF LogoutTokens, LogoutOK
<1> QED
  BY <1>1, TokenAssumption DEF ReplayUntil, MinOf

\* Every step of a request keeps the types.
LEMMA TokenStepTypes ==
  ASSUME TokenTypes, CallsSound, NEW r \in Requests, TokenStep(r)
  PROVE  TokenTypes'
<1>n. NoWork \in WorkRecords
  BY DEF NoWork, WorkRecords, NoSet
<1>t. work \in [Requests -> WorkRecords] /\ verdict \in [Requests -> {"none", "accepted"}]
  BY DEF TokenTypes
<1>r. Refuse(r) => work' \in [Requests -> WorkRecords] /\ verdict' \in [Requests -> {"none", "accepted"}]
  BY <1>n, <1>t DEF Refuse, Tell
<1>1. ASSUME NEW purpose \in {"auth", "logout"}, NEW t \in Tokens, NEW n \in Nonces \cup {Empty},
             Verify(r, purpose, t, n)
      PROVE  TokenTypes'
  <2>1. CASE Refuse(r) /\ UNCHANGED sourceVars
    BY <1>1, <1>r, <2>1 DEF TokenTypes, Verify, sourceVars
  <2>2. CASE /\ Ask(r, t.kid) /\ Tell(r, "none")
             /\ work' = [work EXCEPT ![r] = [pc |-> "key", purpose |-> purpose, token |-> t,
                                             nonce |-> n, from |-> trusted, at |-> 0]]
    <3>1. [pc |-> "key", purpose |-> purpose, token |-> t, nonce |-> n, from |-> trusted, at |-> 0]
            \in WorkRecords
      BY DEF WorkRecords, TokenTypes
    <3>2. work' \in [Requests -> WorkRecords] /\ verdict' \in [Requests -> {"none", "accepted"}]
      BY <1>t, <2>2, <3>1 DEF Tell
    <3>3. asked' \in [Requests -> {NoKid} \cup {u.kid : u \in Tokens}] /\ DOMAIN reply' = Requests
      BY <2>2 DEF Ask, TokenTypes
    <3> QED
      BY <1>1, <2>2, <3>2, <3>3 DEF TokenTypes, Verify, Ask
  <2> QED
    BY <1>1, <2>1, <2>2 DEF Verify
<1>2. CASE TurnedAway(r)
  BY <1>2, <1>r DEF TokenTypes, TurnedAway, sourceVars
<1>3. CASE GetKey(r)
  <2>1. /\ trusted' \in Int /\ serving' = serving
        /\ asked' = [asked EXCEPT ![r] = NoKid] /\ DOMAIN reply' = Requests
    BY <1>3, SourceAnswers DEF GetKey, Answer
  <2> QED
    BY <1>3, <2>1 DEF TokenTypes, GetKey, tokenVars
<1>4. CASE CheckClaims(r)
  <2>1. work' \in [Requests -> WorkRecords] /\ verdict' \in [Requests -> {"none", "accepted"}]
    <3>1. CASE Refuse(r)
      BY <1>r, <3>1
    <3>2. CASE work' = [work EXCEPT ![r] = NoWork] /\ Tell(r, "accepted")
      BY <1>n, <1>t, <3>2 DEF Tell
    <3>3. CASE work' = [work EXCEPT ![r].pc = "fresh"] /\ UNCHANGED verdict
      BY <1>t, <3>3 DEF WorkRecords
    <3> QED
      BY <1>4, <3>1, <3>2, <3>3 DEF CheckClaims
  <2> QED
    BY <1>4, <2>1 DEF TokenTypes, CheckClaims, sourceVars
<1>5. CASE CheckFresh(r)
  <2>1. work' \in [Requests -> WorkRecords] /\ verdict' \in [Requests -> {"none", "accepted"}]
    <3>1. CASE Refuse(r)
      BY <1>r, <3>1
    <3>2. CASE work' = [work EXCEPT ![r].pc = "receive", ![r].at = time] /\ Tell(r, "accepted")
      <4>1. time \in Int
        BY DEF TokenTypes
      <4>2. [work[r] EXCEPT !.pc = "receive", !.at = time] \in WorkRecords
        BY <1>t, <4>1 DEF WorkRecords
      <4>3. work' = [work EXCEPT ![r] = [work[r] EXCEPT !.pc = "receive", !.at = time]]
        BY <1>t, <3>2 DEF WorkRecords
      <4> QED
        BY <1>t, <3>2, <4>2, <4>3 DEF Tell
    <3> QED
      BY <1>5, <3>1, <3>2 DEF CheckFresh
  <2> QED
    BY <1>5, <2>1 DEF TokenTypes, CheckFresh, sourceVars
<1>6. CASE Receive(r)
  <2>1. PICK t \in LogoutTokens : t = work[r].token
    BY <1>6 DEF Receive, CallsSound, CallSound
  <2>2. work[r].at \in Int /\ time \in Int
    BY <1>t DEF WorkRecords, TokenTypes
  <2>3. [jti |-> t.claims.jti, until |-> ReplayUntil(t.claims), verified |-> work[r].at, at |-> time]
          \in Actions
    BY <2>2, ReplayUntilIsInt DEF Actions
  <2>4. applied' \in Seq(Actions)
    <3>1. CASE applied' = applied
      BY <3>1 DEF TokenTypes
    <3>2. CASE applied' = Append(applied, [jti |-> t.claims.jti, until |-> ReplayUntil(t.claims),
                                           verified |-> work[r].at, at |-> time])
      BY <2>3, <3>2 DEF TokenTypes
    <3> QED
      BY <1>6, <2>1, <3>1, <3>2 DEF Receive
  <2>5. work' \in [Requests -> WorkRecords]
    BY <1>6, <1>n, <1>t DEF Receive
  <2> QED
    BY <1>6, <2>4, <2>5 DEF TokenTypes, Receive, sourceVars
<1> QED
  BY <1>1, <1>2, <1>3, <1>4, <1>5, <1>6 DEF TokenStep, Verifies

\* A token that passed the signature's check was signed by a key of a set in
\* use during the call: no signer is one of the errors.
LEMMA SignedByKeyOfCall ==
  ASSUME CallsSound, NEW r \in Requests, work[r].pc = "key", asked[r] = NoKid, SignatureOK(r)
  PROVE  work[r].token \in Tokens /\ KeyOfCall(r, work[r].token.signer)
<1>1. work[r].token \in Tokens /\ (reply[r] \in Refusals \/ KeyOfCall(r, reply[r]))
  BY DEF CallsSound, CallSound
<1>2. reply[r] = work[r].token.signer
  BY DEF SignatureOK
<1>3. reply[r] \notin Refusals
  BY <1>1, <1>2, TokenAssumption
<1> QED
  BY <1>1, <1>2, <1>3 DEF KeyOfCall

\* Every step of a request keeps every request sound.
LEMMA TokenStepCalls ==
  ASSUME TokenTypes, TokenTypes', CallsSound, NEW r \in Requests, TokenStep(r)
  PROVE  CallsSound'
<1>t. /\ work \in [Requests -> WorkRecords] /\ DOMAIN reply = Requests /\ DOMAIN asked = Requests
      /\ trusted \in Int
  BY DEF TokenTypes
<1>k. ASSUME trusted' >= trusted,
             \A q \in Requests \ {r} : work'[q] = work[q] /\ asked'[q] = asked[q] /\ reply'[q] = reply[q],
             CallSound(r)'
      PROVE  CallsSound'
  <2>1. ASSUME NEW q \in Requests, q # r PROVE CallSound(q)'
    BY <1>k, <2>1, CallKept DEF CallsSound
  <2> QED
    BY <1>k, <2>1 DEF CallsSound
<1>i. ASSUME UNCHANGED sourceVars, asked[r] = NoKid, work' = [work EXCEPT ![r] = NoWork]
      PROVE  CallsSound'
  <2>1. CallSound(r)'
    BY <1>i, <1>t, CallOver DEF sourceVars
  <2> QED
    BY <1>i, <1>t, <1>k, <2>1 DEF sourceVars
<1>s. work[r].pc # "key" => asked[r] = NoKid
  BY DEF CallsSound, CallSound
<1>1. ASSUME NEW purpose \in {"auth", "logout"}, NEW t \in Tokens, NEW n \in Nonces \cup {Empty},
             Verify(r, purpose, t, n)
      PROVE  CallsSound'
  <2>1. CASE Refuse(r) /\ UNCHANGED sourceVars
    BY <1>1, <1>i, <1>s, <2>1 DEF Verify, Refuse
  <2>2. CASE /\ Ask(r, t.kid)
             /\ work' = [work EXCEPT ![r] = [pc |-> "key", purpose |-> purpose, token |-> t,
                                             nonce |-> n, from |-> trusted, at |-> 0]]
    <3>1. /\ work'[r].pc = "key" /\ work'[r].token = t /\ work'[r].from = trusted
          /\ asked'[r] = t.kid /\ trusted' = trusted /\ t.kid # NoKid
      BY <1>t, <2>2, TokenAssumption DEF Ask
    <3>2. CallSound(r)'
      BY <1>t, <3>1 DEF CallSound
    <3>3. \A q \in Requests \ {r} : work'[q] = work[q] /\ asked'[q] = asked[q] /\ reply'[q] = reply[q]
      BY <1>t, <2>2 DEF Ask
    <3> QED
      BY <1>k, <1>t, <3>1, <3>2, <3>3
  <2> QED
    BY <1>1, <2>1, <2>2 DEF Verify
<1>2. CASE TurnedAway(r)
  BY <1>2, <1>i, <1>s DEF TurnedAway, Refuse
<1>3. CASE GetKey(r)
  <2>1. /\ trusted' \in Int /\ trusted' >= trusted /\ asked[r] # NoKid
        /\ asked' = [asked EXCEPT ![r] = NoKid]
        /\ \A q \in Requests \ {r} : reply'[q] = reply[q]
        /\ \/ reply'[r] \in Refusals
           \/ Has(trusted', asked[r]) /\ KeySets[trusted'][asked[r]] = reply'[r]
        /\ work' = work
    BY <1>3, SourceAnswers DEF GetKey, Answer, tokenVars
  <2>2. /\ work[r].pc = "key" /\ asked[r] = work[r].token.kid /\ work[r].token \in Tokens
        /\ work[r].from <= trusted /\ work[r].from \in Int
    BY <1>t, <2>1 DEF CallsSound, CallSound, WorkRecords
  <2>3. trusted' \in work[r].from..trusted' /\ work[r].from <= trusted'
    BY <1>t, <2>1, <2>2
  <2>4. reply'[r] \in Refusals \/ KeyOfCall(r, reply[r])'
    BY <2>1, <2>2, <2>3 DEF KeyOfCall
  <2>5. CallSound(r)'
    BY <1>t, <2>1, <2>2, <2>3, <2>4 DEF CallSound
  <2> QED
    BY <1>k, <1>t, <2>1, <2>5
<1>4. CASE CheckClaims(r)
  <2>0. asked[r] = NoKid /\ work[r].pc = "key" /\ UNCHANGED sourceVars
    BY <1>4 DEF CheckClaims
  <2>1. CASE work' = [work EXCEPT ![r] = NoWork]
    BY <1>i, <2>0, <2>1
  <2>2. CASE /\ work' = [work EXCEPT ![r].pc = "fresh"] /\ work[r].purpose = "logout"
             /\ SignatureOK(r) /\ ClaimsOK(work[r].token, time) /\ LogoutOK(work[r].token.claims)
    <3>1. work[r].token \in Tokens /\ KeyOfCall(r, work[r].token.signer) /\ work[r].from <= trusted
      BY <2>0, <2>2, SignedByKeyOfCall DEF CallsSound, CallSound
    <3>2. work[r].token \in LogoutTokens
      BY <2>2, <3>1 DEF LogoutTokens, ClaimsOK
    <3>3. /\ work'[r].pc = "fresh" /\ work'[r].token = work[r].token /\ work'[r].from = work[r].from
          /\ work'[r].purpose = "logout" /\ trusted' = trusted /\ asked'[r] = NoKid
      BY <1>t, <2>0, <2>2 DEF sourceVars, WorkRecords
    <3>4. KeyOfCall(r, work[r].token.signer)'
      BY <3>1, <3>3 DEF KeyOfCall
    <3>5. CallSound(r)'
      BY <3>1, <3>2, <3>3, <3>4 DEF CallSound
    <3> QED
      BY <1>k, <1>t, <2>0, <2>2, <3>5 DEF sourceVars
  <2> QED
    BY <1>4, <2>1, <2>2 DEF CheckClaims, Refuse
<1>5. CASE CheckFresh(r)
  <2>0. work[r].pc = "fresh" /\ UNCHANGED sourceVars
    BY <1>5 DEF CheckFresh
  <2>1. CASE Refuse(r)
    BY <1>i, <1>s, <2>0, <2>1 DEF Refuse
  <2>2. CASE /\ work' = [work EXCEPT ![r].pc = "receive", ![r].at = time]
             /\ FreshAt(work[r].token.claims, time)
    <3>1. /\ work[r].token \in LogoutTokens /\ KeyOfCall(r, work[r].token.signer)
          /\ work[r].purpose = "logout" /\ work[r].from <= trusted /\ work[r].token \in Tokens
      BY <2>0 DEF CallsSound, CallSound
    <3>2. /\ work'[r].pc = "receive" /\ work'[r].token = work[r].token /\ work'[r].from = work[r].from
          /\ work'[r].purpose = "logout" /\ work'[r].at = time /\ trusted' = trusted
          /\ asked'[r] = NoKid
      BY <1>t, <1>s, <2>0, <2>2, <3>1 DEF sourceVars, WorkRecords
    <3>3. KeyOfCall(r, work[r].token.signer)'
      BY <3>1, <3>2 DEF KeyOfCall
    <3>4. work'[r].at < ReplayUntil(work'[r].token.claims)
      BY <2>2, <3>2 DEF FreshAt
    <3>5. CallSound(r)'
      BY <3>1, <3>2, <3>3, <3>4 DEF CallSound
    <3> QED
      BY <1>k, <1>t, <2>0, <2>2, <3>5 DEF sourceVars
  <2> QED
    BY <1>5, <2>1, <2>2 DEF CheckFresh
<1>6. CASE Receive(r)
  BY <1>6, <1>i, <1>s DEF Receive
<1> QED
  BY <1>1, <1>2, <1>3, <1>4, <1>5, <1>6 DEF TokenStep, Verifies

\* When an action on a logout lapses is a number.
LEMMA UntilIsInt ==
  ASSUME TokenTypes, NEW i \in DOMAIN applied
  PROVE  applied[i].until \in Int
<1>1. applied \in Seq(Actions)
  BY DEF TokenTypes
<1>2. applied[i] \in Actions
  BY <1>1
<1> QED
  BY <1>2 DEF Actions

\* Acting on a logout keeps the history: an earlier logout of its jti is no
\* longer recorded, so it has lapsed, and both lapse at the same time.
LEMMA ReceiveStep ==
  ASSUME TokenInv, NEW r \in Requests, Receive(r)
  PROVE  RecordedUntil' /\ LogoutAppliedOnce'
<1>1. PICK t \in LogoutTokens : t = work[r].token
  BY DEF TokenInv, CallsSound, CallSound, Receive
<1>2. /\ work[r].at < ReplayUntil(t.claims) /\ ReplayUntil(t.claims) \in Int
      /\ time \in Int /\ time' = time /\ applied \in Seq(Actions)
  BY <1>1, ReplayUntilIsInt DEF TokenInv, TokenTypes, CallsSound, CallSound, Receive
<1> DEFINE record == [jti |-> t.claims.jti, until |-> ReplayUntil(t.claims)]
           done == [jti |-> t.claims.jti, until |-> ReplayUntil(t.claims),
                    verified |-> work[r].at, at |-> time]
<1>3. CASE UNCHANGED <<recorded, applied>>
  BY <1>2, <1>3 DEF TokenInv, RecordedUntil, LogoutAppliedOnce
<1>4. CASE /\ \A e \in recorded : e.jti # t.claims.jti
           /\ recorded' = recorded \cup {record} /\ applied' = Append(applied, done)
  <2>1. /\ DOMAIN applied' = 1..(Len(applied) + 1) /\ DOMAIN applied = 1..Len(applied)
        /\ Len(applied) \in Nat
        /\ \A i \in DOMAIN applied : applied'[i] = applied[i]
        /\ applied'[Len(applied) + 1] = done
    BY <1>2, <1>4
  <2>2. ASSUME NEW i \in DOMAIN applied, applied[i].jti = t.claims.jti
        PROVE  work[r].at < applied[i].until /\ time >= applied[i].until
    <3>1. PICK u \in LogoutTokens :
            applied[i].jti = u.claims.jti /\ applied[i].until = ReplayUntil(u.claims)
      BY DEF TokenInv, RecordedUntil
    <3>2. ReplayUntil(u.claims) = ReplayUntil(t.claims)
      BY <2>2, <3>1, JtiAssumption DEF LogoutTokens
    <3>3. ~(time < applied[i].until)
      <4>1. [jti |-> applied[i].jti, until |-> applied[i].until].jti = t.claims.jti
        BY <2>2
      <4> QED
        BY <1>4, <4>1 DEF TokenInv, RecordedUntil
    <3> QED
      BY <1>2, <3>1, <3>2, <3>3
  <2>3. RecordedUntil'
    <3> SUFFICES ASSUME NEW i \in DOMAIN applied'
                 PROVE  /\ \E u \in LogoutTokens : applied'[i].jti = u.claims.jti
                                                  /\ applied'[i].until = ReplayUntil(u.claims)
                        /\ time' < applied'[i].until =>
                             [jti |-> applied'[i].jti, until |-> applied'[i].until] \in recorded'
      BY DEF RecordedUntil
    <3>1. CASE i \in DOMAIN applied
      BY <1>2, <1>4, <2>1, <3>1 DEF TokenInv, RecordedUntil
    <3>2. CASE i = Len(applied) + 1
      BY <1>4, <2>1, <3>2
    <3> QED
      BY <2>1, <3>1, <3>2
  <2>4. LogoutAppliedOnce'
    <3> SUFFICES ASSUME NEW i \in DOMAIN applied', NEW j \in DOMAIN applied',
                        i < j, applied'[i].jti = applied'[j].jti
                 PROVE  applied'[j].verified < applied'[i].until /\ applied'[j].at >= applied'[i].until
      BY DEF LogoutAppliedOnce
    <3>1. i \in DOMAIN applied
      BY <2>1
    <3>2. CASE j \in DOMAIN applied
      BY <2>1, <3>1, <3>2 DEF TokenInv, LogoutAppliedOnce
    <3>3. CASE j = Len(applied) + 1
      <4>1. applied[i].jti = t.claims.jti /\ applied'[i] = applied[i]
        BY <2>1, <3>1, <3>3
      <4>2. applied'[j].verified = work[r].at /\ applied'[j].at = time
        BY <2>1, <3>3
      <4> QED
        BY <2>2, <3>1, <4>1, <4>2
    <3> QED
      BY <2>1, <3>2, <3>3
  <2> QED
    BY <2>3, <2>4
<1> QED
  BY <1>1, <1>3, <1>4 DEF Receive

\* The inductive invariant holds in every reachable state of the token checks.
LEMMA TokenInvariant == TokenSpec => []TokenInv
<1>1. TokenInit => TokenInv
  <2> SUFFICES ASSUME TokenInit PROVE TokenInv
    OBVIOUS
  <2>1. NoWork \in WorkRecords /\ NoWork.pc = "idle"
    BY DEF NoWork, WorkRecords, NoSet
  <2>2. TokenTypes
    BY <2>1 DEF TokenInit, SourceInit, TokenTypes, NoSet
  <2>3. CallsSound
    BY <2>1 DEF TokenInit, SourceInit, CallsSound, CallSound
  <2>4. applied = <<>>
    BY DEF TokenInit
  <2>5. RecordedUntil /\ LogoutAppliedOnce
    BY <2>4 DEF RecordedUntil, LogoutAppliedOnce
  <2> QED
    BY <2>2, <2>3, <2>5 DEF TokenInv
<1>2. TokenInv /\ [TokenNext]_<<sourceVars, tokenVars>> => TokenInv'
  <2> SUFFICES ASSUME TokenInv, [TokenNext]_<<sourceVars, tokenVars>> PROVE TokenInv'
    OBVIOUS
  <2>w. ASSUME TokenTypes', trusted' = trusted, asked' = asked, reply' = reply, work' = work
        PROVE  CallsSound'
    BY <2>w, CallKept DEF TokenInv, TokenTypes, CallsSound
  <2>1. CASE Clock
    <3>1. TokenTypes' /\ CallsSound'
      BY <2>1, <2>w DEF TokenInv, TokenTypes, Clock, sourceVars
    <3>2. ASSUME NEW i \in DOMAIN applied, time' < applied[i].until PROVE time < applied[i].until
      <4>1. applied[i].until \in Int
        BY UntilIsInt DEF TokenInv
      <4> QED
        BY <2>1, <3>2, <4>1 DEF TokenInv, TokenTypes, Clock
    <3>3. RecordedUntil' /\ LogoutAppliedOnce'
      BY <2>1, <3>2 DEF TokenInv, RecordedUntil, LogoutAppliedOnce, Clock
    <3> QED
      BY <3>1, <3>3 DEF TokenInv
  <2>2. CASE Reissue
    <3>1. TokenTypes' /\ CallsSound'
      BY <2>2, <2>w DEF TokenInv, TokenTypes, Reissue, Republish, tokenVars
    <3>2. RecordedUntil' /\ LogoutAppliedOnce'
      BY <2>2 DEF TokenInv, RecordedUntil, LogoutAppliedOnce, Reissue, tokenVars
    <3> QED
      BY <3>1, <3>2 DEF TokenInv
  <2>3. ASSUME NEW e \in recorded, Forget(e) PROVE TokenInv'
    <3>1. TokenTypes' /\ CallsSound'
      BY <2>3, <2>w DEF TokenInv, TokenTypes, Forget, sourceVars
    <3>2. ASSUME NEW i \in DOMAIN applied, time < applied[i].until
          PROVE  [jti |-> applied[i].jti, until |-> applied[i].until] # e
      <4>1. applied[i].until \in Int /\ time \in Int
        BY UntilIsInt DEF TokenInv, TokenTypes
      <4>2. time >= e.until
        BY <2>3 DEF Forget
      <4> QED
        BY <3>2, <4>1, <4>2
    <3>3. RecordedUntil' /\ LogoutAppliedOnce'
      BY <2>3, <3>2 DEF TokenInv, RecordedUntil, LogoutAppliedOnce, Forget
    <3> QED
      BY <3>1, <3>3 DEF TokenInv
  <2>4. ASSUME NEW r \in Requests, TokenStep(r) PROVE TokenInv'
    <3>1. TokenTypes' /\ CallsSound'
      BY <2>4, TokenStepTypes, TokenStepCalls DEF TokenInv
    <3>2. CASE Receive(r)
      BY <3>1, <3>2, ReceiveStep DEF TokenInv
    <3>3. CASE ~Receive(r)
      <4>1. time' = time /\ recorded' = recorded /\ applied' = applied
        BY <2>4, <3>3 DEF TokenStep, Verifies, Verify, TurnedAway, GetKey, CheckClaims, CheckFresh,
                          tokenVars
      <4>2. RecordedUntil' /\ LogoutAppliedOnce'
        BY <4>1 DEF TokenInv, RecordedUntil, LogoutAppliedOnce
      <4> QED
        BY <3>1, <4>2 DEF TokenInv
    <3> QED
      BY <3>2, <3>3
  <2>5. CASE UNCHANGED <<sourceVars, tokenVars>>
    <3>1. TokenTypes' /\ CallsSound'
      BY <2>5, <2>w DEF TokenInv, TokenTypes, sourceVars, tokenVars
    <3>2. RecordedUntil' /\ LogoutAppliedOnce'
      BY <2>5 DEF TokenInv, RecordedUntil, LogoutAppliedOnce, tokenVars
    <3> QED
      BY <3>1, <3>2 DEF TokenInv
  <2> QED
    BY <2>1, <2>2, <2>3, <2>4, <2>5, TokenNextSteps
<1> QED
  BY <1>1, <1>2, PTL DEF TokenSpec

\* VerifyLogout: a receiver that remembers a logout until its ReplayUntil acts
\* on it once; only a call verified before the record lapsed can act again.
THEOREM LogoutsAppliedOnce == TokenSpec => []LogoutAppliedOnce
<1>1. TokenInv => LogoutAppliedOnce
  BY DEF TokenInv
<1> QED
  BY <1>1, TokenInvariant, PTL

\* Verify and VerifyLogout: what is accepted was signed by a key that was under
\* its kid in a set trusted during that very call, has not expired when the
\* verdict falls, and is a login exactly when it is no logout.
THEOREM AcceptedIsSound == TokenSpec => AcceptedSound
<1> DEFINE Sound(r) ==
      LET t == work[r].token
      IN  /\ \E e \in work[r].from..trusted : Has(e, t.kid) /\ KeySets[e][t.kid] = t.signer
          /\ time < t.claims.exp + Leeway
          /\ (work[r].purpose = "auth") = ~LogoutOK(t.claims)
    Verdicts == \A r \in Requests : verdict[r] # "accepted" /\ verdict'[r] = "accepted" => Sound(r)
<1>1. TokenInv /\ [TokenNext]_<<sourceVars, tokenVars>> => [Verdicts]_tokenVars
  <2> SUFFICES ASSUME TokenInv, TokenNext, NEW q \in Requests,
                      verdict[q] # "accepted", verdict'[q] = "accepted"
               PROVE  Sound(q)
    BY DEF tokenVars
  <2>t. verdict \in [Requests -> {"none", "accepted"}]
    BY DEF TokenInv, TokenTypes
  <2>1. ~Clock /\ ~Reissue /\ ~(\E e \in recorded : Forget(e))
    BY DEF Clock, Reissue, Forget, tokenVars
  <2>2. PICK r \in Requests : TokenStep(r)
    BY <2>1, TokenNextSteps
  <2>3. ~Verifies(r) /\ ~TurnedAway(r) /\ ~GetKey(r) /\ ~Receive(r)
    BY <2>t DEF Verifies, Verify, TurnedAway, Refuse, Tell, GetKey, Receive, tokenVars
  <2>4. CASE CheckClaims(r)
    <3>1. /\ q = r /\ work[r].pc = "key" /\ asked[r] = NoKid /\ work[r].purpose = "auth"
          /\ SignatureOK(r) /\ ClaimsOK(work[r].token, time)
          /\ AuthOK(work[r].token.claims, work[r].nonce)
      BY <2>t, <2>4 DEF CheckClaims, Refuse, Tell
    <3>2. KeyOfCall(r, work[r].token.signer)
      BY <3>1, SignedByKeyOfCall DEF TokenInv
    <3>3. ~LogoutOK(work[r].token.claims)
      BY <3>1, TokenAssumption DEF AuthOK, LogoutOK
    <3>4. time < work[r].token.claims.exp + Leeway
      BY <3>1 DEF ClaimsOK
    <3> QED
      BY <3>1, <3>2, <3>3, <3>4, Zenon DEF KeyOfCall
  <2>5. CASE CheckFresh(r)
    <3>1. q = r /\ work[r].pc = "fresh" /\ FreshAt(work[r].token.claims, time)
      BY <2>t, <2>5 DEF CheckFresh, Refuse, Tell
    <3>2. /\ work[r].token \in LogoutTokens /\ KeyOfCall(r, work[r].token.signer)
          /\ work[r].purpose = "logout"
      BY <3>1 DEF TokenInv, CallsSound, CallSound
    <3>3. LogoutOK(work[r].token.claims) /\ work[r].purpose # "auth"
      BY <3>2 DEF LogoutTokens
    <3>4. time < work[r].token.claims.exp + Leeway
      <4>1. PICK t \in LogoutTokens : t = work[r].token
        BY <3>2
      <4>2. time \in Int /\ Leeway \in Int
        BY TokenAssumption DEF TokenInv, TokenTypes
      <4> QED
        BY <3>1, <4>1, <4>2, ReplayUntilIsInt DEF FreshAt
    <3> QED
      BY <3>1, <3>2, <3>3, <3>4, Zenon DEF KeyOfCall
  <2> QED
    BY <2>2, <2>3, <2>4, <2>5 DEF TokenStep
<1> QED
  BY <1>1, TokenInvariant, PTL DEF TokenSpec, AcceptedSound
=============================================================================

---------------------------- MODULE PasswordHash ----------------------------
(***************************************************************************)
(* password over its budget: Hash, HashWith, Verify, NeedsRehash and       *)
(* DummyVerify, called by the logins of one account.  A stored hash is its *)
(* segments: the algorithm, the version, whether the parameters are        *)
(* spelled canonically, the parameters themselves, the decoded lengths,    *)
(* and what was derived.  Argon2 is injective.  Costs are the code's own.  *)
(***************************************************************************)
EXTENDS Reservations

CONSTANTS
  Plaintexts,    \* passwords typed
  Password,      \* the one the account has
  Costs,         \* parameters a deployment may mint at: [memory, time, threads]
  StoredHashes,  \* what else the store may hold
  NoHash

VARIABLES
  stored,    \* the account's hash; NoHash when there is no account
  dummy,     \* dummyHashValue
  dummyMu,   \* who holds dummyHashMu
  login      \* per goroutine: [pc, plain, hash, told]

hashVars == <<stored, dummy, dummyMu, login>>

minMemory == 8 * 1024
maxMemory == 256 * 1024
minTime == 1
maxTime == 10
minThreads == 1
maxThreads == 16
minSalt == 8
minKey == 16
maxDecoded == 1024

\* The budget is four default derivations (password.go:99, 110): nothing the band
\* allows needs more than the whole of it.
ASSUME HashAssumption ==
  /\ TotalKiB \in Nat /\ TotalLanes \in Nat
  /\ TotalKiB >= maxMemory /\ TotalLanes >= maxThreads
  /\ NoHash \notin Deriving /\ NoHash \notin StoredHashes
  /\ NoHash \notin Plaintexts \cup {Password}

DefaultParams == [memory |-> 64 * 1024, time |-> 3, threads |-> 4]

NoBand(p) == TRUE  \* variant with a bug: any cost will do
\* The band HashWith mints in and a stored hash may carry.
Validate(p) ==
  /\ p.memory \in minMemory..maxMemory /\ p.time \in minTime..maxTime
  /\ p.threads \in minThreads..maxThreads

\* encode, for a key derived with a fresh salt.
Encode(p, plain) ==
  [algorithm |-> "argon2id", version |-> 19, canonical |-> TRUE, params |-> p,
   salt |-> 16, key |-> 32, plain |-> plain]

\* parse: every segment present, canonical, in its band and long enough.
Parses(h) ==
  /\ h.algorithm = "argon2id" /\ h.version = 19 /\ h.canonical /\ Validate(h.params)
  /\ h.salt \in minSalt..maxDecoded /\ h.key \in minKey..maxDecoded

\* A hash that is not ours is not stale.
NeedsRehash(h) ==
  /\ Parses(h)
  /\ \/ h.params.memory < DefaultParams.memory \/ h.params.time < DefaultParams.time
     \/ h.params.threads # DefaultParams.threads

Needs(p) == [kib |-> p.memory, lanes |-> p.threads]

Empty == ""

Idle == [pc |-> "idle", plain |-> NoHash, hash |-> NoHash, told |-> "nothing"]

HashInit ==
  /\ NothingReserved
  /\ stored \in StoredHashes \cup {NoHash}
  /\ dummy = NoHash /\ dummyMu = NoHash
  /\ login = [d \in Deriving |-> Idle]

Step(d, to) == login' = [login EXCEPT ![d].pc = to]
Told(d, what) == login' = [login EXCEPT ![d].pc = "idle", ![d].told = what]

----------------------------------------------------------------------------
\* Minting for the account

\* HashWith, and the product stores what it returns; an empty password and a
\* cost outside the band are refused.
HashWith(d, p) ==
  /\ login[d].pc = "idle" /\ Password # Empty /\ Validate(p)
  /\ login' = [login EXCEPT ![d] = [pc |-> "mint", plain |-> NoHash,
                                   hash |-> Encode(p, Password), told |-> "nothing"]]
  /\ UNCHANGED <<reservationVars, stored, dummy, dummyMu>>

\* Hash, after a login that found the hash stale.
Rehash(d) ==
  /\ login[d].pc = "ok"
  /\ IF NeedsRehash(login[d].hash)
     THEN login' = [login EXCEPT ![d].pc = "mint", ![d].hash = Encode(DefaultParams, login[d].plain)]
     ELSE Told(d, "ok")
  /\ UNCHANGED <<reservationVars, stored, dummy, dummyMu>>

Minted(d) ==
  /\ login[d].pc = "minting"
  /\ GiveBack(d)
  /\ stored' = login[d].hash
  /\ Told(d, IF login[d].plain = NoHash THEN "stored" ELSE "ok")
  /\ UNCHANGED <<dummy, dummyMu>>

----------------------------------------------------------------------------
\* Logging in

\* Verify parses before it derives; without an account, DummyVerify, whose
\* answer is dropped: the login is refused either way.
Login(d, plain) ==
  /\ login[d].pc = "idle"
  /\ login' = [login EXCEPT ![d] =
       [pc |-> IF stored = NoHash THEN "dummy" ELSE IF Parses(stored) THEN "verify" ELSE "idle",
        plain |-> plain, hash |-> stored,
        told |-> IF stored # NoHash /\ ~Parses(stored) THEN "ErrMalformed" ELSE "nothing"]]
  /\ UNCHANGED <<reservationVars, stored, dummy, dummyMu>>

\* withBudget reserves, or its timer runs out.
Reserved(d) ==
  /\ login[d].pc \in {"verify", "mint"}
  /\ Obtain(d, Needs(login[d].hash.params))
  /\ Step(d, IF login[d].pc = "verify" THEN "verifying" ELSE "minting")
  /\ UNCHANGED <<stored, dummy, dummyMu>>

Busy(d) ==
  /\ login[d].pc \in {"verify", "mint"}
  /\ Told(d, IF login[d].hash.plain = NoHash THEN "wrong" ELSE "ErrBusy")
  /\ UNCHANGED <<reservationVars, stored, dummy, dummyMu>>

Verified(d) ==
  /\ login[d].pc = "verifying"
  /\ GiveBack(d)
  /\ IF login[d].hash.plain = login[d].plain THEN Step(d, "ok") ELSE Told(d, "wrong")
  /\ UNCHANGED <<stored, dummy, dummyMu>>

\* dummyHash: minted once, outside the budget, under its own mutex.
LockDummy(d) ==
  /\ login[d].pc = "dummy" /\ dummyMu = NoHash
  /\ IF dummy = NoHash
     THEN Step(d, "dummymint") /\ dummyMu' = d
     ELSE /\ login' = [login EXCEPT ![d].pc = "verify", ![d].hash = dummy]
          /\ UNCHANGED dummyMu
  /\ UNCHANGED <<reservationVars, stored, dummy>>

MintDummy(d) ==
  /\ login[d].pc = "dummymint"
  /\ dummy' = Encode(DefaultParams, NoHash) /\ dummyMu' = NoHash
  /\ login' = [login EXCEPT ![d].pc = "verify", ![d].hash = dummy']
  /\ UNCHANGED <<reservationVars, stored>>

\* The derivation panics: the mutex is released, and nothing is remembered.
DummyPanics(d) ==
  /\ login[d].pc = "dummymint"
  /\ dummyMu' = NoHash
  /\ Told(d, "panic")
  /\ UNCHANGED <<reservationVars, stored, dummy>>

HashNext ==
  \E d \in Deriving :
    \/ \E plain \in Plaintexts : Login(d, plain)
    \/ \E p \in Costs : HashWith(d, p)
    \/ Rehash(d) \/ Minted(d) \/ Reserved(d) \/ Busy(d) \/ Verified(d)
    \/ LockDummy(d) \/ MintDummy(d) \/ DummyPanics(d)

HashSpec == HashInit /\ [][HashNext]_<<reservationVars, hashVars>>

----------------------------------------------------------------------------
(* Properties *)

\* Verify tells the truth about the hash it read, and never calls a hash this
\* package wrote malformed: HashWith cannot mint one that verifies nowhere.
\* What a successful login read or wrote needs no further rehash.
AnswersTrue ==
  \A d \in Deriving :
    /\ login[d].told = "ok" => login[d].plain = login[d].hash.plain /\ ~NeedsRehash(login[d].hash)
    /\ login[d].told = "wrong" => login[d].plain # login[d].hash.plain
    /\ login[d].told = "ErrMalformed" => login[d].hash \in StoredHashes

\* The one derivation outside the budget is the dummy's: one at a time, and
\* none once there is a dummy; the mutex is held by nobody else, so a derivation
\* that panicked left it free.  The others never wait for more than there is.
OneDummyMint ==
  LET minting == {d \in Deriving : login[d].pc = "dummymint"}
  IN  /\ \A d, e \in minting : d = e
      /\ dummy # NoHash => minting = {}
      /\ dummyMu \in minting \cup {NoHash}
      /\ spareKiB >= 0 /\ spareLanes >= 0
      /\ \A d \in Deriving : login[d].pc \in {"verify", "mint"} =>
           login[d].hash.params.memory <= TotalKiB /\ login[d].hash.params.threads <= TotalLanes

\* Hash, Verify, NeedsRehash and DummyVerify: logins are answered truly whatever
\* is in the store and whoever rehashes it meanwhile, one login is enough to
\* upgrade a hash, and admission control bounds every derivation but the dummy's.
LoginsSound == AnswersTrue /\ OneDummyMint
=============================================================================

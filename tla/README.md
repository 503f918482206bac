# A TLA+ verification of ky-primitives

ky-primitives is the library of shared security primitives of a suite of Go servers:
sealed backups and their deposit, key files, an audit chain, password and key
derivation, request authentication, token verification and health reports.  Most packages
are small; what is hard in them is what several goroutines, several processes, a crash
or a clock do to them between two statements.  That is what the modules here model.

Every definition that stands for code is listed with its lines in `PROJECT.json` under
`map`.  Names follow the source where TLA+ allows it.

## The system

| Component | State it keeps | Operations | Who it meets | What is hard |
|---|---|---|---|---|
| `recoveryclient` run, pin, pairing | settings rows (key ID, threshold, total, URL, sealed token, last deposit), `recovery.pub`, `runMu` | `Run`, `StoreRecoveryKey`, `LoadRecoveryKey`, `StorePairing`, `HasPairing`, `LoadPairing`, `ClearPairing`, `Deposit` | the product's settings store, KyRecovery over HTTP, `capsule`, the local directory | rows written one by one while a run reads them; a crash between a deposit and its receipt |
| local copies | files of one directory and their modification times | `WriteLocalCopy`, `ListLocalCopies` | other processes and apps in the directory | truncation by a crash, pruning with a stale list, a clock set back, a rename the disk never saw |
| schedule | the interval row, the last-attempt row | `Interval`, `SetInterval`, `NextRun`, `markAttempt` | the product's scheduler, administrators | wrap-around of a duration, stamps cut to a second, clock steps |
| drill | scratch directories | `Drill`, `sweepStaleDrills` | other drills under the same root | sweeping a directory that is in use; residue of a killed drill or a failed removal |
| `capsule`, restore | a container file, the target directory | `Seal`, `Open`, `ReadUnverifiedManifest`, `Restore` | whoever holds the file, other writers of the target | limits counted twice in two ways; a file list that goes through JSON; extraction that fails half way, and its rollback too |
| `offsite` | objects and staging files on a file, S3, SFTP or SMB target | `Put`, `Get`, `Test` | servers that fold names, sessions that break, whoever else writes the source | an answer that is lost; a source that changes or ends early under the copy |
| `keyfile` | one key file and the directory entry | `LoadOrCreate`, `Load`, `Store` | other processes, power loss | who wins, and what is durable when |
| `auditchain` | count and head behind a one-slot lock; the stored log and anchor | `New`, `Resume`, `Append`, `Verify`, `Replay` | `persist`, supplied by the product | a persist that fails, hangs, or fails after storing; restart |
| `logging.Audit`, `cmd/kyauditverify` | the exported stream | `Audit`, the command | `auditchain`, a collector | records shipped after the lock was given up |
| `password` | free memory and lanes, `admit`, `wake`; the dummy hash and its mutex | `withBudget`, `release` around Argon2; `Hash`, `HashWith`, `Verify`, `NeedsRehash`, `DummyVerify` | concurrent logins, hashes others stored | lost wake-ups, leaks, overtaking; one derivation outside the budget; two bands that must agree |
| `derive` | slots, a meter | `AuthSecretContext`, `acquire`, `release` | concurrent logins | leaks on cancel and panic |
| `syncauth` | the replay guard's map and queue | `Sign`, `Verify`, `Check`, `Middleware` | senders with clocks of their own | two readings of the clock, a guard at its limit |
| `oidcverify` | key set, fetch and attempt times, two mutexes | `Verify`, `VerifyWithNonce`, `VerifyLogout`, `Middleware`, `key`, `fetch` | the issuer's JWKS endpoint, a receiver that records logouts | rotation, outage, rate limit, sharing of a fetch; a clock read three times in one call |
| `health` | cached response, one busy flag per check | `ServeHTTP`, `current`, `run` | dependencies that hang | stacked goroutines, late answers |
| `shamir`, `recoverykey` | none; the cards are with the custodians | `Split`, `Combine`, `ParseShare`, `FromSeed` | custodians who mix, double and mistype cards | a plausible wrong secret; a degree that drops by chance |
| `totp`, `recoverycode` | none; the product stores spent counters and digests | `Validate`, `Generate`, `MatchCode`, `MatchDigest` | a product that matches first and writes later | two attempts between match and write; the window below the epoch |
| `scim`, `logging` fields | none that changes | single requests, pure functions | - | - |

What makes each correct is stated with the runs below.  `PROJECT.json` lists the same
components with their status and, under `hazards`, every place where a test would hardly
reach what can go wrong, with the properties that would catch it.

## Modules

A component's module declares its constants, state and actions; its proofs are in a module of
their own, shared with those of related components; an `MC*` module gives what a `.cfg` cannot write down (sets of records, symmetry) or
puts several components into one instance.

Four modules say what a component promises its callers, in the callers' terms, and the detailed
module is shown to implement it, by TLC and by proof for each of them:

| Abstract | Detailed, and the mapping | Who relies on it |
|---|---|---|
| **Reservations**: a derivation holds memory and lanes together out of a fixed budget and gives back what it took | PasswordBudget: a caller holds its request from the section that subtracts it to the one that adds it back | PasswordHash is written over it |
| **KeySource**: an answer comes from one set the issuer served, sets are only replaced by later ones, a kid is refused only if the set in use lacks it | JwksCache: the set in use is `keys`, a request waits for its kid until `key` returns | TokenChecks is written over it |
| **AppendLog**: the log grows by one entry at a time, and an append is acknowledged while its entry is the last | AuditChain: the stored log and the records `Append` returned | the product that supplies `persist` |
| **KeyStore**: one value, put once, never replaced, given to everyone, lost only to a power failure before it settled | KeyFile: the file at the path and whether its name is durable | every product that asks for a key |

**BackupRun** models `pin.go`, `pairing.go`, `run.go` and the part of `client.go` that
decides a deposit.  `store` is the settings table, `file` is `recovery.pub`, `adm` and `run`
hold the place each request has reached and the values it has read.  `Settings.Get` and `Set`
are atomic and nothing larger is; each can fail.  A run is `BeginRun` (TryLock), the steps of
`RunStep` in the order of the code, and a return that unlocks.  `Crash` resets everything but rows,
file and server.  `TamperFile` removes, swaps or corrupts `recovery.pub`, at any time but between the pin
a request read and the one it writes.  A file that is there and does not decode reaches a run as the error
of reading it, not as `ErrKeyPinMissing` (`pin.go:103-109`).

**PasswordBudget** has one action per section under `budget.mu` and per channel operation of
`withBudget` and `release`.  **PasswordHash** takes that as Reservations and has the package's
calls on top: minting at any cost the band allows, verifying what the store holds, the rehash after
a login that found it stale, and the dummy's mint under its own mutex, which may panic.  A stored
hash is its segments; the limits are the code's numbers.  **DeriveSlots** does for `acquire` and
`release` of `derive` what PasswordBudget does for `password`; slot and meter are separate steps.
**SecondFactor** has attempts that match a code with `totp.Validate` or `recoverycode.MatchCode`
on what they read and, in a second step, spend the counter or blank the slot, as the two packages ask
of a product.  **MCAdmission** is the sum of the four.

**AuditChain** models `Append` as acquire, mint, persist, advance; a persist stores the record
and its anchor in one transaction, fails, or stores and still reports an error; `unsure` remembers
that the last happened.  A hash is the sequence of what it covers, so two records have one hash
only if they are one record.  `Crash` loses the chain, `Resume` takes it up from the store.  `Verify`
and `Replay` are operators.  **AuditShip** extends it with what `logging.Audit` writes and what
`kyauditverify` reads.

**SyncAuth** has senders whose clocks are off by `Skews`, a network that keeps every request it
ever carried and may deliver it again at any time, and workers that pass `Verify`, then the guard,
then the handler, reading the clock at each.  The receiver's clock is a wall clock and may be set back:
a parsed timestamp has no monotonic reading to compare with.

**JwksCache** has the two looks of `key` under `mu`, the fetch under `fetchMu` with the selection of
usable keys, and an issuer that rotates, gives a kid to another key, or fails.  **TokenChecks** takes
the cache as KeySource.  A call is its header check, the key lookup, the signature and claims
check and, for a logout, the freshness check; between them time passes and keys rotate.  The receiver
acts on a verified logout and records it in one step, as the documentation of `LogoutClaims` demands,
and forgets it after `ReplayUntil`.  **MCJwksCache** is the sum of the two.

**Health** has the handler's mutex and cache and, per check, the busy flag, the goroutine and the
deadline.

**KeyFile** separates what a process sees from what survives power loss, for the file's content,
for its directory entry, and for the directory itself: one that `MkdirAll` made is an entry of a parent
that nobody syncs, so the next power loss may take it with all that is in it; one that lived through a power
loss, or was there before, stays.  **MCService** is the sum of KeyFile and Health.

**Capsule** composes `Seal`, the stored container, `Restore` and `Open`: tar sizes are counted
in blocks, so that both sides' limits are compared as the code compares them; paths are sequences
of segments, so that `safeRelPath` and nested names mean what they mean.  The file list is what its JSON
decodes to (`AsListed`): a segment that is not valid UTF-8 stays as it is in a tar header and comes back as
another from the list.  Preparing the directory can fail after making it, and a rollback can fail to remove
anything it should (`Leftovers`); what stays behind is kept in `stuck`.

**Shamir** is `Split`, with what was drawn as an argument, `Combine` with its checks in their order, and
`evaluate`, over any field: the field and its three operations are constants, and FieldLaws says what
they must satisfy.  **GaloisField** has the code's own operations, `mul` and `inverse` as their
shift-and-mask loops for a field of any width.  **Custody** is the ceremony over Shamir: seeds and other
secrets are split, and a restore is given cards of any splits, a card typed twice or with a slip, or a
whole kit of which some other decoder filled in one share, several or all, each without the same field.  **MCCapsule** is the sum of Capsule and Custody, with the operations
of GaloisField for the constants; the two meet in a key, which is the one that was split
(RebuildsTheKey) or an error.  In that instance TLC checks that `mul` and `inverse` satisfy FieldLaws,
and, in the assumption ByteField, that at the code's own width they have the laws and the products
which the repository's test derives by hand.

**LocalCopies**, **Schedule**, **Drill** model the three files of the same names in
`recoveryclient`; **MCUpkeep** is the sum of the last two.  In LocalCopies `dir` is the directory as
processes see it and `disk` what the file system has written back: power loss may undo any rename or
removal in between.  A drill takes as long as it likes, in silence if it likes: `quiet` is the time since it
last wrote into its directory, which is the age a sweep sees.  **Offsite** has the four targets behind
one interface.  A source is read in two pieces until it ends, as `io.Copy` does, whatever size was declared;
between any two reads another process may rewrite it or cut it short, for S3 between hashing and sending
too.  Every step may fail, every removal after a failure may fail as well, and a session may be lost with
the request done or not.  Names are sequences of bytes in LocalCopies and of characters in Offsite because the
escaping and the name rules are what the properties are about; a list of copies is any order of them
that puts newer ones first, since `sort.Slice` promises nothing of equal ones.

## Runs

What each property says, in short; the comment above its definition has the rest.  Where a
property is a conjunction, its parts are definitions of their own, named in parentheses; each
includes the module's type invariant once.

| Run | Properties | Instance |
|---|---|---|
| `backup` | SealedToPinned, PinWriteOnce: capsules are sealed to the pinned key, which never changes.  LastDepositAdvances: the recorded receipt is never replaced by an older one.  RunsReportTruly (LockIsTheRun, ReceiptMeansHeld, SuccessMeansStored, PairedRunsDeposit, KeyPinMissingReported): the lock is held by exactly the run in progress, a receipt names a capsule a server holds, a success is stored somewhere, a run paired throughout deposits, and a key that does not resolve under a pairing is reported: as missing, or as a file that does not decode | 2 runs, 2 administrators, 2 keys, 2 capsules, 2 requests: every pair of handlers overlaps, with crashes, failing reads and writes, and a `recovery.pub` removed, swapped or corrupted |
| `admission` | Of `password`: ImplementsReservations, NoLostWakeup, ParkedNotOvertaken, QueuedGetsServed; LoginsSound (AnswersTrue, OneDummyMint): answers are true of the hash that was read, a hash this package minted verifies, one login upgrades a stale hash, and only one derivation at a time, the dummy's, runs outside the budget.  SlotsHeld (SlotsAccounted, PeakWithinBudget) of `derive`.  OneTimeMeansOnce: no counter or code passes twice, exactly the codes that passed are gone, and a counter that passed is one the clock has come within a step of | 3 callers of four shapes, one taking all the memory and one asking for too many lanes; 3 callers for 2 slots; 2 logins over parsable, stale and foreign hashes, with costs at the edges of the band and beyond; 2 attempts, 3 codes issued of 4, a counter that repeats another's digits |
| `audit` | ImplementsAppendLog and TailResumes always; StoredLogVerifies and RecordsKept (ReturnedIsStored, ChainMatchesStore, ExportComplete) until a persist was unsure; TamperingDetected over truncations, swaps, repeats and edits | 3 appenders, 3 records, crashes and resumes |
| `syncauth` | GuardConsistent (with WindowRemembered): map and queue agree, the window is remembered, and what was accepted was signed; NoReplayInsideWindow | 2 workers, 3 events and 4 requests for a guard of size 2, so that its queue holds IDs whose own times are in another order; senders' clocks right or ahead, the receiver's set back by a tick, restarts |
| `syncauth_two_clocks` | SameRequestOnce, which is violated (below) | 2 workers, one clock, a guard that never fills |
| `jwks_cache` | ImplementsKeySource; RefreshDiscipline: fetches are spaced, and a set older than MaxAge and than MinRefresh serves only after a try to refresh it; Answered.  AcceptedSound: what is accepted was signed by a key the verifier trusted during that call, has not expired at the verdict, and a logout logs nobody in.  LogoutAppliedOnce: a receiver that remembers until `ReplayUntil` acts once, but for a call already verified when the record lapsed | 2 callers, 2 key IDs, 2 rotations, 4 ticks, rate limit and age of 2, keys that are short, for encryption or of too large an exponent; 2 requests, 5 tokens, a kid that changes hands, 2 ticks |
| `service` | Of `keyfile`: ImplementsKeyStore, StoredIsDurable (with NoTornKey): a key reported stored is there for good, in a directory that was there when power came on.  Of `health`: BusyIsTrue (with OneGoroutinePerCheck); OneEvaluation: no result of an earlier evaluation is used, and nobody who waited for one starts another; RequestAnswered | 3 processes, 2 keys, a directory that may be absent, crashes and power loss at every step; 2 clients, 2 checks |
| `capsule` | RestoredWhole (RestoredAsSealed, RoundTrip, RestoredOnDisk, LimitsAgree), FailureLeavesNothing: of a restore that failed nothing stays but what it could not remove.  RebuildsTheKey: a restore gets the seed that was split, from enough distinct shares of one split, or an error.  ThresholdNeeded: one share too few rebuilds nothing and leaves every other value possible | 2 keys, 2 services, inputs at and one over each limit, a name that is not valid UTF-8, one restore and its retry; the field of 8 elements, 2-of-3 and 3-of-4 splits, two splits at once, every set of cards |
| `capsule_invalid_names` | SealedAlwaysPasses, which is violated (below) | as `capsule` |
| `local_copies` | CopiesKept (NoTruncatedCopy, NewestKept: the newest ones put in place are there, but for one whose rename power loss took back), OthersUntouched | 2 processes, 3 capsules, files of look-alike apps, a clock of 3 ticks that steps back, temporaries stale after a tick, power loss |
| `offsite` | TargetSound (WholeObjects: an object is all its Put was given, unless its source changed meanwhile; OwnObject, ResidueExplained), LastGoodKept | 2 callers, 3 operations, one change of the source in each, names a Windows server confuses, 4 kinds |
| `upkeep` | RowsAndSandboxes (OnlyZeroIsOff of the schedule, LiveNotSwept and PlaintextWiped of the drill), AttemptsSpaced, KeepsAttempting, ResidueRemoved | half-second ticks, a 5-bit duration, rows and stamps that are no number or time; 2 drills of any length, 2 removals that fail |

`admission`, `capsule`, `jwks_cache`, `service` and `upkeep` hold components that share no state.  A
behaviour of such a sum is any interleaving of one of each, and no property relates two of them, so it is
enough to explore one while the others rest; the variable `active` says which.  Where one component
relies on another it does so through the abstract specification the other implements: PasswordHash
takes its reservations from Reservations and TokenChecks its keys from KeySource, so that what is
shown of them holds over PasswordBudget and JwksCache.

### The violated properties

`syncauth_two_clocks`: `Verify` accepts a timestamp exactly one window old (`d > window` refuses),
the guard forgets an ID whose timestamp is exactly one window old, and reads the clock again, later.  A
request delivered twice around that instant is accepted twice, which the guard's comment says its
memory is there to prevent.  The finding in `PROJECT.json` has the lines.  NoReplayInsideWindow in `syncauth`
draws the line: strictly inside the guard's window nothing is accepted again.

`capsule_invalid_names`: `Seal` lets a file through whose name is not valid UTF-8.  The tar header carries
its bytes; `json.Marshal` writes U+FFFD for them in the file list; `reconcileFileList` compares the two and
refuses the capsule, every time, with the data inside.  The comments have it that a capsule `Seal` wrote always
passes.  LimitsAgree in `capsule` leaves out exactly such names.

### Bounds

All bounds are constants: `MaxCapsules`, `MaxOps`, `MaxLog`, `MaxEpoch`, `LastEpoch`, `MaxClock`,
`LastTick`, `LastSecond`, `MaxKits`, `MaxID`, `MaxStep`, `MaxSent`, `MaxFaults`, `Cap`, `Calls`, `Changes`,
`Attempts`.  They appear
in guards of the actions that would grow the state, and each is the least that lets every action fire and the case in question happen: two
of everything that can race, one more than a limit where the limit matters (queue sizes, retention,
members, time windows).  Schedule, Drill and Health need no end of time: they keep ages instead
of times, and ages beyond the last one that matters are equal.  In Custody the first split draws
any coefficients and the second one of two, which is enough to mix cards of two splits with different
polynomials; ThresholdNeeded compares with all coefficients there are.

Symmetry is used only in runs without a liveness property, over callers or values that no
definition tells apart: in `capsule`, key pairs and services, which are only compared.  The exponent of a key
is scaled, 8 standing for the largest `int64`.  Deadlock is checked everywhere but in `capsule` and `offsite`, whose
callers stop when their attempts are used up.

### Fairness

`admission` (its `password` half), `jwks_cache`, `service` (its `health` half) and `upkeep` ask for no more than the Go scheduler and
the operating system give: a goroutine that can take its next step eventually does (weak
fairness of its own steps); one that waits for a mutex or a channel others keep taking eventually gets
it (strong fairness of that one step; Go's mutexes hand over to starving waiters and its channels
queue them first in, first out).  Timers, context ends, failures, crashes and requests are never assumed to
happen, so QueuedGetsServed says that callers are served although nobody times out.  The HTTP exchange, which the code bounds, is assumed to end in `jwks_cache`.  In `service` a check may
never return and its deadline is what answers.  The schedule assumes a product that asks `NextRun`
again and again; ResidueRemoved one that goes on drilling, and that removals fail no more than `MaxFaults`
times.

## Proofs

`tlapm` checks these for every value of the constants that meets the named assumptions.  Each
invariant below was first checked by TLC on the instance of its run.

- **BackupProofs.**  Of BackupRun, `TypeCorrect`, `PinIsWriteOnce`, `CapsulesSealedToPin`.  The pin by itself is
  not inductive: a request between its check and its write holds a key that only the exclusive
  creation of `recovery.pub` keeps equal to the one pinned.  `PinInv` says that: a request
  about to write the pin holds the file's key while no other pin is stored, and a run that resolved
  its key holds the pinned one.  The guard of `TamperFile` is the condition: a file removed inside
  that window is the first of the known limits below.  `RunsAlwaysReportTruly` and `DepositsAdvance`
  rest on `ReportInv`: runMu is held by exactly the run in progress, a run that is covered finds the
  pairing complete, and what each run carries towards its result is true already (its capsule is the
  newest, the receipt it checked is of that capsule).  A `recovery.pub` that does not decode is one of the
  ways a run ends that `RunsAlwaysReportTruly` covers.  Of Offsite, `TargetAlwaysSound` and `GoodAlwaysKept`:
  `OffsiteInv` says that every object is at its own name, which needs that a Windows server leaves any
  name `cleanSMBName` admits as it is (`ServerKeepsName`), and that the staging file of a Put in progress
  is the one it opened (`StagedSound`), and that a call whose source nobody changed has read a first part
  of it, all of it once the copy has ended (`CallSteady`).
- **LoginProofs.**  Of PasswordBudget, `BudgetTypeCorrect` (free memory and lanes stay in range),
  `WakeupNeverLost`, `ParkedIsNext`, and `BudgetImplementsReservations`, the refinement.  The
  strengthening is `OneNegotiator`: the holder of `admit` is exactly the caller between admission
  and leaving the queue, so only one caller can be parked and the one token of `wake` is enough.
  The refinement needs besides that a caller inside holds one of the requests (`AsksARequest`);
  then the section that subtracts is `Obtain`, the one that adds is `GiveBack`, and every other step
  leaves the mapped state alone.  Of DeriveSlots, `SlotsNeverLost`, by counting: the channel's length is
  the cardinality of the callers between taking and giving, the meter that of those counted, the
  second a subset of the first.  Of PasswordHash, `LoginsAlwaysSound`: `HashInv` says what a login
  between its steps may hold (a hash that parses, the one its answer will be about) and that a dummy is
  minted only under its mutex; HashAssumption is the code's own arithmetic, the budget being four
  default derivations (`password.go:99`, `password.go:110`).  Of SecondFactor, `NothingPassesTwice`:
  `FactorInv` ties the blank slots to the codes redeemed and the spent counter to those cleared, and
  keeps what an attempt matched true until it spends it; FactorAssumption ends the clock before a counter
  could wrap.
- **AuditChainProofs.**  `LogAlwaysVerifies` and `ReturnedAlwaysStored`, until a persist was
  unsure; `TailAlwaysResumes` and `ChainImplementsAppendLog`, which have no such condition.  `ChainInv`
  adds the lock's meaning: the goroutine that holds it carries the successor of the stored tail, or the
  tail itself once persist returned.  The refinement uses the weaker `StoreInv`, which survives a persist
  that was unsure: only the holder of the lock is past it, and a record that persist reported stored is
  the last of the log until its `Append` returns.  `TailInv` adds that the chain in memory is never
  ahead of the store, so that a record minted by a chain left behind is one Resume accepts all the same.
  `AnchorNamesOneLog`: two logs that verify against one anchor are one log, by induction from the
  head down; `TamperingAlwaysDetected` follows from it.  `RecordsAlwaysKept` covers the export: `ShipInv`
  balances the log against what was shipped and what goroutines still owe.  The induction, over sequence
  numbers and over the steps of `Replay`, is `InductiveSet`, which needs no operator as a parameter.
- **OidcProofs.**  `RefreshDisciplined` and the refinement `CacheImplementsKeySource`.  `CacheInv`:
  fetchMu is held by exactly the verification that fetches, so that what it received is no older
  than the set in use when it is installed (`FetcherLeads`).  Of `MinRefresh` and `MaxAge` it is
  assumed that they are positive, which is what `oidcverify.go:310-317` sees to, and nothing about which is
  the larger.  `AcceptedIsSound` and
  `LogoutsAppliedOnce` of TokenChecks, over KeySource alone: `TokenInv` keeps for each call what its
  key was when it got it, and for each logout acted on that its record is there until it lapses.
  JtiAssumption is about the issuer: two logout tokens of one `jti` lapse together.
- **ServiceProofs.**  Of KeyFile, `StoredStaysDurable` and the refinement `KeyFileImplementsKeyStore`.
  `KeyFileInv` is the order of the steps in `write`: a file is synced before it is linked
  (`LinkedWhole`), its writer finds it at the path until it has synced the directory
  (`WriterOwnsName`), what is durable is what is there (`DurableIsThere`), in a directory that is there
  (`InFolder`), and a key that was reported stored is the durable one (`ToldIsThere`).  Of SyncAuth,
  `GuardAlwaysConsistent` and `NoReplays`.  That the window is remembered is not
  inductive: the guard forgets an ID by the timestamp it holds, which must be no earlier than any
  accepted one still in the window (`Outlives`).  Where the wall clock is set back, a request counts as
  in the window only if the clock was never past it since: what the guard once forgot it cannot know.  Of Health, `BusyAlwaysTrue` and
  `OneEvaluationAtATime`.  The second needs that an evaluation is
  over before what it cached expires (`MissedServed`), and with it the bound between the two constants.
- **UpkeepProofs.**  `AttemptsAlwaysSpaced`: a stamp is less than a second older than the attempt it
  stands for, whatever the clock was set to since (`StampTrue`), and Duration does not wrap what
  `validSeconds` lets through; the word must be even, as a two's-complement word is.
  `RowsAndSandboxesSound` rests, for drills, on `DrillInv`: the age of a live drill's directory is the time
  since that drill last wrote into it (`AgeIsQuiet`), so that a sweep spares every drill that wrote within
  `staleDrill`, however long it has been running; and plaintext outlasts a drill only if it was killed or
  its removal failed.
- **CopiesProofs.**  First the escaping: `PrefixesApart`, for names of any length over the bytes there
  are, by induction over the bytes read so far; from it, that two copies of one name are of one app and one
  capsule, and that a list taken under one app's prefix holds no other's files.  Then the order: what a
  prune is about to remove has as many fresher copies as are kept, wherever the listing puts equals
  (`OrderedListing`).  `Inv` adds what the steps hold between them: a writer's temp file is its own and whole
  once synced (`Writing`), what bears a copy's name is in place (`InPlace`, `Known`), what is on a stale
  list is outdated still, whoever else prunes (`Doomed`), what power loss took back is neither in the directory nor on the disk (`OnDisk`), and whatever else was
  stored and is gone has as many fresher ones as some call kept (`Retained`).  `KeepsCopies` and `TouchesOwn` follow.  LocalAssumption says of the
  files put there by hand that they bear no name a copy can have.
- **RestoreProofs.**  Of Capsule, `RestoresTruly` by `RestoreInv`, for any number of restores into one
  directory: what a restore has extracted so far is the first files of the list that was sealed
  (`PrefixTaken`), within limits that are counted once in bytes and once in tar blocks (`WithinLimits`,
  by `CountedCovers` and `PaddedCovers`), under the name and the key it asked for (`Opened`); in memory no
  limit but that of the whole archive refuses what `Seal` let through, unless JSON cannot carry one of its
  names (`Admitted`, `Excused`), and nothing lies
  outside the target (`Inside`).  By
  `AloneInv`, `RestoresWhole` and `FailsClean`, for a restore that has the directory to itself: what is in
  it is what was found and what this call wrote, and a rollback takes back just that, but for what it could
  not remove (`AsFound`).  That hypothesis is
  needed: two restores into one directory are among the known limits below.
  Of Custody, `KeyRebuilt` and `ThresholdKept`, over any field that satisfies FieldLaws (characteristic 2),
  any seeds, plans, draws and number of kits.  The algebra under them is in the same module.  `Delta` is the
  divided difference of values at nodes; it is linear, lowers a polynomial by a degree per node
  (`DeltaDrops`, `DeltaLowered`) and gives the leading coefficient of one it fits (`DeltaOfPolynomial`).
  Combine's weights are such a sum for the values divided by the nodes, hence `InterpolatesAtZero`: the
  values of a polynomial at enough nodes give its constant term, and with one node too few they miss it by
  the leading coefficient times the product of the nodes.  As `Split` never draws 0 for that coefficient,
  one share fewer excludes exactly one value; a polynomial that vanishes at the nodes (`Vanishing`) shows
  that every other is possible (`OneExcluded`).  `CustodyInv` says that each kit is a split of its secret
  under a set id of its own, so that cards with one set id and distinct indexes are cards of one split
  (`CombinedIsWhole`), and enough of those are accepted (`WholeRebuilds`); a share decoded elsewhere, without
  a threshold, is never combined, in whatever number (`LackingRefused`).

The other assumptions: bounds and limits are natural numbers; `staleDrill`, `Window`, the guard's `Max`, the slots,
the tar block and the totp period are positive; a health check's deadline is shorter than the answer is
cached (`health.go:21`, `handler.go:17`); `MinInterval <= MaxInterval`, of whose units twice as many fit the word of a
Duration; the audit log ends before its sequence numbers do; what JSON writes for a name is valid and
stays as it is (NamesAssumption); stored rows, inputs of `Seal` and calls have the types Go gives them; and
values are kept apart that the code keeps apart by type: a key and an error, a kid and none, a hash and
none, a number and a row that is no number.

Every safety property of the passing runs is proved, under the conditions named.  Only model-checked: all liveness, since fairness
and ENABLED are beyond the prover (QueuedGetsServed, Answered, RequestAnswered, KeepsAttempting and
ResidueRemoved); and that the loops of `mul` and `inverse` make a field, since GaloisField is bit
operations, which the prover's SMT backend does not have.  TLC evaluates FieldLaws in full at width 3.
At width 8 it evaluates the inverse of every element, and the other laws where the second and third
argument are powers of 2 (all three for associativity); the loop of `mul` adds up a product for every bit
of its second argument, so that the laws follow for the rest (ByteField).

## Known limits of the code

Met while modelling.  Each is where a sentence of the repository is wider than the code; the
properties above are stated so as to hold beside them, and no run is about them.

- Two first pairings, and `recovery.pub` removed between the check and the write of the pin: the
  second request replaces the pin (`pin.go:59`, `pin.go:79`).
- Key ID, threshold and total are three rows: a run between the writes seals a split nobody
  reported (`pin.go:82`, `pin.go:121`).
- A `recovery.pub` that cannot be read or decoded is reported by its own error, where the comment
  promises `ErrKeyPinMissing` (`pairing.go:84-88`, `pin.go:103-109`).
- A run can return an error although its local copy landed (`run.go:45-46`, `run.go:105-115`).
- A settings read that fails is taken for "not paired", and the run succeeds without a deposit
  (`pairing.go:77`).
- A persist that stored and failed leaves the chain behind the store; the next append forks
  the log (`auditchain.go:167`).
- Records are exported after the chain's lock was given up, so two appenders can export out of
  sequence (`logging/audit.go:118`, `LOGGING.md:59-61`).
- A retry signed after the window is a new request to the guard (`syncauth.go:121-122`); a full guard
  can refuse while ids behind the head of its queue have expired (`syncauth.go:227-231`).
- A caller that comes during the first fetch of a key set is refused, not made to wait
  (`oidcverify.go:307-308`, `oidcverify.go:328`).
- The loser of a key-file race returns the key before the winner has made its name durable
  (`keyfile.go:84`).  A directory that `MkdirAll` made is an entry of a parent nobody syncs, so that power
  loss can take the key with it (`keyfile.go:76`, `keyfile.go:129`, `keyfile.go:292`).
- Removals after a failure may fail unseen, and what they leave stays: what a failed restore extracted,
  which then blocks the next one (`extract.go:228-236`); a drill's plaintext until a later drill sweeps it
  (`drill.go:96`); staging files on a target (`local.go:42`, `smb.go:122-130`).
- A source that changes or ends early under `Put` is stored as it was read and reported stored: no target
  compares with the declared size, and S3's hash only narrows the window (`offsite/local.go:43`, `sftp.go:110`, `smb.go:120`).
- A drill that writes nothing for longer than `staleDrill` may have its directory swept by the
  next one (`drill.go:117-119`).
- `WriteLocalCopy` prunes older copies before its rename is on disk: the directory is never synced, and
  power loss can take the newest copy after the older ones are gone (`local.go:119-132`).
- A last-attempt row that is no time makes `NextRun` fail until an attempt by hand writes a new one
  (`schedule.go:72-75`, `schedule.go:87-90`).
- A request the replay guard forgot is fresh again once the wall clock is set back (`syncauth.go:182`).
- `Seal` counts file bytes and `Open` tar bytes (`seal.go:195`, `extract.go:67`); a name that is also
  another's parent is sealed and cannot be extracted (`seal.go:148-154`); of two restores into one
  directory the failing one rolls back the other's files (`extract.go:292-298`).
- After a clock step the copy just written can be the one pruned (`local.go:159`).
- `Combine` is documented to return "a wrong secret rather than an error" for too few shares
  (`shamir.go:203-205`); the code has since come to refuse them (`shamir.go:247`), which is what
  RebuildsTheKey says.
- Because a zero leading coefficient is drawn again, one share fewer than the threshold excludes exactly
  one value of each byte, the one it interpolates to (`shamir.go:188-195`); ThresholdNeeded states that.
- A logout verified just before `ReplayUntil` and acted on after the receiver dropped its record is
  acted on twice (`logout.go:32`, `logout.go:74`); LogoutAppliedOnce leaves out exactly that.
- `parse` allows a stored hash any memory up to the whole budget, so that one login can be what all the
  others wait for (`password.go:65`, `password.go:99`).

## What is abstracted, and what is not modelled

- Cryptography is ideal: hashes do not collide, a ciphertext opens only under its key and the
  exact bytes it authenticates, a signature cannot be made without the key.
- HTTP, JSON, base64, PEM and log lines are left out except where a limit or an ordering depends on them.
- BackupRun has one process.  `runMu` does not reach a second one; LocalCopies has the
  directory that two would share.
- LocalCopies lets power loss take back any set of renames since the directory's entries were last
  written back, at moments of the system's choosing; files themselves were synced.
- `offsite.Get`, `Parse`, `Key`, host-key pinning and S3 signing change no state.
- A card is its share with a checksum over all of it; two bytes of SHA-256 are taken to be
  enough, so that a slip is always noticed.  The set identifier of a split is taken to be new.
- `totp` codes are a table per counter; `hotp`'s HMAC and truncation, and what takes constant time, are left out.
- Not modelled: `scim`, a client that keeps nothing between calls and retries nothing, so that no
  action would change state; the fields and levels of `logging`, pure functions of one record
  over a registry filled at initialisation; `recoveryclient/guardtest`, test support; `payload.go` and
  `snapshot.go`, an argument passed on and one SQL statement.

## Plan

Done: every component that keeps state, or whose callers do, has its module; the four abstract
specifications are implemented, and proved to be; every safety property is proved.

What could follow:

1. Two processes over one settings table in BackupRun, which `runMu` does not reach.
2. A proof that `mul` and `inverse` satisfy FieldLaws at width 8, for which the prover would have to
   decide bit operations.
3. A directory sync in LocalCopies, should the code come to make one: a power loss then takes back no
   renamed copy, which is worth stating.

----------------------------- MODULE AuditChain -----------------------------
(***************************************************************************)
(* auditchain: a hash chain over audit records, appended to by concurrent  *)
(* goroutines, persisted by a function the product supplies, resumed after *)
(* a crash, and verified against an anchor kept outside the log.           *)
(*                                                                         *)
(* digest is an HMAC.  It is modelled as the collision-free term it stands *)
(* for: the pairs (seq, fields) digested so far, the predecessor's first.  *)
(* Seq 0 and an invented hash can be in a stored log, never from Append.   *)
(***************************************************************************)
EXTENDS Integers, Sequences, FiniteSets

CONSTANTS
  Appenders,    \* goroutines calling Append
  Fields,       \* what they log
  MaxUint64,    \* the largest sequence number
  MaxLog,       \* bound: appends start only while the log is shorter
  None

ASSUME ChainAssumption == MaxUint64 \in Nat /\ MaxLog \in Nat /\ MaxLog < MaxUint64

ASSUME NobodyAssumption == None \notin Appenders

VARIABLES
  log, anchor,   \* what persist stored: the records, and the anchor outside them
  up,            \* a process holds a Chain
  count, head,   \* Chain.count and Chain.head
  lock,          \* who holds Chain.lock
  call,          \* per goroutine: where it is in Append, and its record
  returned,      \* every record Append returned with a nil error
  unsure         \* persist has reported an error for a record it stored

vars == <<log, anchor, up, count, head, lock, call, returned, unsure>>

genesis == <<>>
Junk == << <<0, "junk">> >>  \* a hash no digest produced

digest(seq, prev, fields) == Append(prev, <<seq, fields>>)
validHash(hash) == hash # Junk

Record(seq, prev, hash, fields) ==
  [seq |-> seq, prev |-> prev, hash |-> hash, fields |-> fields]
NoRecord == Record(0, genesis, genesis, "none")

\* The record Append builds on a chain.
Minted(n, prev, fields) == Record(n, prev, digest(n, prev, fields), fields)

HeadHash(records) == IF records = <<>> THEN genesis ELSE records[Len(records)].hash

AnchorOf(rec) == [count |-> rec.seq, hash |-> rec.hash]

-----------------------------------------------------------------------------
(* Verification *)

VerifyRecord(rec) ==
  /\ validHash(rec.hash) /\ validHash(rec.prev)
  /\ rec.seq # 0
  /\ rec.hash = digest(rec.seq, rec.prev, rec.fields)

\* What VerifyStream checks of the i-th record yielded.
Link(records, i) ==
  LET rec == records[i]
  IN  /\ validHash(rec.hash) /\ validHash(rec.prev)
      /\ rec.seq = i
      /\ rec.prev = IF i = 1 THEN genesis ELSE records[i - 1].hash
      /\ rec.hash = digest(rec.seq, rec.prev, rec.fields)

\* Variant with a bug: a log shorter than its anchor passes.
HeadOnly(records, a) == Len(records) <= a.count
Complete(records, a) ==
  /\ Len(records) = a.count
  /\ HeadHash(records) = a.hash

VerifyStream(records, a) ==
  /\ validHash(a.hash)
  /\ \A i \in DOMAIN records : Link(records, i)
  /\ Complete(records, a)

\* Resume accepts the tail and nothing else.
IsTail(last, a) ==
  /\ VerifyRecord(last)
  /\ last.seq # MaxUint64
  /\ a = AnchorOf(last)

-----------------------------------------------------------------------------
(* The chain *)

NoCall == [pc |-> "idle", rec |-> NoRecord]

Init ==
  /\ log = <<>> /\ anchor = [count |-> 0, hash |-> genesis]
  /\ up = FALSE /\ count = 0 /\ head = genesis
  /\ lock = None
  /\ call = [t \in Appenders |-> NoCall]
  /\ returned = {} /\ unsure = FALSE

\* New: the product has no log yet.
New ==
  /\ ~up /\ log = <<>>
  /\ up' = TRUE /\ count' = 0 /\ head' = genesis
  /\ UNCHANGED <<log, anchor, lock, call, returned, unsure>>

\* Resume, from any record the product reads back with the stored anchor.
Resume ==
  /\ ~up
  /\ \E i \in DOMAIN log :
       /\ IsTail(log[i], anchor)
       /\ count' = log[i].seq /\ head' = log[i].hash
  /\ up' = TRUE
  /\ UNCHANGED <<log, anchor, lock, call, returned, unsure>>

\* Append is called; its context is not done yet.

Start(t, fields) ==
  /\ up /\ call[t].pc = "idle" /\ Len(log) < MaxLog
  /\ call' = [call EXCEPT ![t] = [pc |-> "wait", rec |-> [NoRecord EXCEPT !.fields = fields]]]
  /\ UNCHANGED <<log, anchor, up, count, head, lock, returned, unsure>>

\* acquire gives up: ctx.Done().
GiveUp(t) ==
  /\ call[t].pc = "wait"
  /\ call' = [call EXCEPT ![t] = NoCall]
  /\ UNCHANGED <<log, anchor, up, count, head, lock, returned, unsure>>

Unlocked == TRUE  \* variant with a bug: nothing serialises appends
Locked == lock = None

\* acquire, and the record built under the lock.
Acquire(t) ==
  /\ call[t].pc = "wait" /\ Locked /\ Len(log) < MaxLog
  /\ lock' = t
  /\ call' = [call EXCEPT ![t] =
       [pc |-> "persist",
        rec |-> Minted((count + 1) % (MaxUint64 + 1), head, call[t].rec.fields)]]
  /\ UNCHANGED <<log, anchor, up, count, head, returned, unsure>>

\* persist, supplied by the product: one transaction over record and anchor.
\* Variant with a bug: the anchor is left behind.
PersistRecordOnly(t) ==
  /\ call[t].pc = "persist"
  /\ log' = Append(log, call[t].rec)
  /\ call' = [call EXCEPT ![t].pc = "stored"]
  /\ UNCHANGED <<anchor, up, count, head, lock, returned, unsure>>

Persist(t) ==
  /\ call[t].pc = "persist"
  /\ log' = Append(log, call[t].rec)
  /\ anchor' = AnchorOf(call[t].rec)
  /\ call' = [call EXCEPT ![t].pc = "stored"]
  /\ UNCHANGED <<up, count, head, lock, returned, unsure>>

\* persist returned an error: nothing in the chain moves.

PersistFails(t) ==
  /\ call[t].pc = "persist"
  /\ lock' = None
  /\ call' = [call EXCEPT ![t] = NoCall]
  /\ UNCHANGED <<log, anchor, up, count, head, returned, unsure>>

\* The record was stored, and persist returned an error all the same: its own
\* timeout passed, or the answer to its commit was lost.
PersistUnsure(t) ==
  /\ call[t].pc = "stored"
  /\ unsure' = TRUE
  /\ lock' = None
  /\ call' = [call EXCEPT ![t] = NoCall]
  /\ UNCHANGED <<log, anchor, up, count, head, returned>>

\* persist returned nil: the chain advances and Append returns the record.

Advance(t) ==
  /\ call[t].pc = "stored"
  /\ count' = call[t].rec.seq /\ head' = call[t].rec.hash
  /\ returned' = returned \cup {call[t].rec}
  /\ lock' = None
  /\ call' = [call EXCEPT ![t] = NoCall]
  /\ UNCHANGED <<log, anchor, up, unsure>>

\* The process dies; what persist committed stays.
Crash ==
  /\ up
  /\ up' = FALSE /\ count' = 0 /\ head' = genesis /\ lock' = None
  /\ call' = [t \in Appenders |-> NoCall]
  /\ UNCHANGED <<log, anchor, returned, unsure>>

AppendStep(t) ==
  \/ \E fields \in Fields : Start(t, fields)
  \/ GiveUp(t) \/ Acquire(t) \/ Persist(t) \/ PersistFails(t)

Next ==
  \/ New \/ Resume \/ Crash
  \/ \E t \in Appenders : AppendStep(t) \/ PersistUnsure(t) \/ Advance(t)

Spec == Init /\ [][Next]_vars

-----------------------------------------------------------------------------
(* Properties *)

Hash == Seq(Nat \X Fields)
Records == [seq : Nat, prev : Hash, hash : Hash, fields : Fields \cup {"none"}]

\* The store, the chain and every call have their types.
TypeOK ==
  /\ log \in Seq(Records)
  /\ anchor \in [count : Nat, hash : Hash]
  /\ up \in BOOLEAN /\ count \in Nat /\ head \in Hash
  /\ lock \in Appenders \cup {None}
  /\ call \in [Appenders -> [pc : {"idle", "wait", "persist", "stored"}, rec : Records]]
  /\ returned \subseteq Records
  /\ unsure \in BOOLEAN

\* Append, Resume and VerifyStream agree: whatever appends race, fail or are
\* cut off by a crash, what is stored verifies against the stored anchor, as
\* long as persist reported no error for a record it did store.
StoredLogVerifies == ~unsure => VerifyStream(log, anchor)

\* Append: "the chain's in-memory head is a claim about what is on disk".
\* While no append is under way, it is a true one.
ChainMatchesStore ==
  up /\ lock = None /\ ~unsure => [count |-> count, hash |-> head] = anchor

\* Append: a record it returned is in the store, at its sequence number.
ReturnedIsStored ==
  ~unsure => \A rec \in returned : rec.seq \in DOMAIN log /\ log[rec.seq] = rec

\* Resume: after any crash, and whatever persist reported, the product can go
\* on from its stored tail.
TailResumes ==
  log # <<>> => \E i \in DOMAIN log : IsTail(log[i], anchor)

Promise == INSTANCE AppendLog WITH entries <- log, acked <- returned

\* Append implements AppendLog, also after persist reported an error for a record
\* it stored: no append or resume rewrites the stored log, and no record is
\* returned once another was stored behind it.
ImplementsAppendLog == Promise!LogSpec

\* The log with the fields and the hash of a record made up.
Forged(i, f) == [log EXCEPT ![i].fields = f, ![i].hash = Junk]

\* The ways of altering a stored log without the key: records removed, moved,
\* repeated, replaced by another genuine one, or given other fields.
Tampered ==
  {SubSeq(log, 1, n) : n \in 0..Len(log)} \cup
  {SubSeq(log, n, Len(log)) : n \in DOMAIN log} \cup
  {[log EXCEPT ![i] = log[j]] : i, j \in DOMAIN log} \cup
  {[log EXCEPT ![i] = log[j], ![j] = log[i]] : i, j \in DOMAIN log} \cup
  {[log EXCEPT ![i].fields = f] : i \in DOMAIN log, f \in Fields} \cup
  {Forged(i, f) : i \in DOMAIN log, f \in Fields} \cup
  {Append(log, log[i]) : i \in DOMAIN log}

\* VerifyStream: no altered log passes against the anchor of the true one.
TamperingDetected ==
  ~unsure => \A records \in Tampered : VerifyStream(records, anchor) => records = log
=============================================================================

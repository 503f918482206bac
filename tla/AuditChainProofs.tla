-------------------------- MODULE AuditChainProofs --------------------------
(***************************************************************************)
(* Proofs about AuditChain and AuditShip for any number of goroutines, up  *)
(* to the first persist that reports an error for a record it stored.  The *)
(* inductive invariant says what the lock protects: the goroutine that     *)
(* holds it carries the record that follows the stored tail, or that tail  *)
(* itself.  What VerifyStream and Replay do to logs of any length is       *)
(* proved by induction over the naturals (InductiveSet).                   *)
(***************************************************************************)
EXTENDS AuditShip, FiniteSetTheorems, SequenceTheorems, TLAPS

Holding(t) == call[t].pc \in {"persist", "stored"}

LockHeld == \A t \in Appenders : Holding(t) <=> lock = t

DownIsIdle == ~up => lock = None /\ \A t \in Appenders : call[t].pc = "idle"

\* Where the record of the goroutine in the critical section stands.
InFlight ==
  \A t \in Appenders :
    /\ call[t].pc = "wait" => call[t].rec.fields \in Fields
    /\ call[t].pc = "persist" =>
         /\ Len(log) < MaxLog
         /\ anchor = [count |-> count, hash |-> head]
         /\ call[t].rec.fields \in Fields
         /\ call[t].rec = Minted(Len(log) + 1, HeadHash(log), call[t].rec.fields)
    /\ call[t].pc = "stored" =>
         /\ log # <<>> /\ call[t].rec = log[Len(log)]
         /\ anchor = AnchorOf(call[t].rec)

ChainInv ==
  /\ TypeOK /\ ~unsure
  /\ StoredLogVerifies /\ ReturnedIsStored /\ ChainMatchesStore
  /\ LockHeld /\ DownIsIdle /\ InFlight
  /\ Len(log) <= MaxLog

\* The head of a log is a hash; that of an extended log is the new record's.
LEMMA HeadOfLog ==
  ASSUME NEW records \in Seq(Records)
  PROVE  /\ HeadHash(records) \in Hash
         /\ \A rec \in Records : HeadHash(Append(records, rec)) = rec.hash
<1>1. genesis \in Hash
  BY DEF genesis, Hash
<1>2. CASE records # <<>>
  <2>1. records[Len(records)] \in Records
    BY <1>2
  <2> QED
    BY <1>2, <2>1 DEF HeadHash, Records
<1>3. CASE records = <<>>
  BY <1>1, <1>3 DEF HeadHash
<1>4. \A rec \in Records : HeadHash(Append(records, rec)) = rec.hash
  BY DEF HeadHash
<1> QED
  BY <1>2, <1>3, <1>4

\* digest yields a hash, and never the one nothing digests to.
LEMMA DigestType ==
  ASSUME NEW n \in Nat \ {0}, NEW prev \in Hash, NEW fields \in Fields
  PROVE  digest(n, prev, fields) \in Hash /\ validHash(digest(n, prev, fields))
<1> DEFINE x == <<n, fields>>
<1>1. x \in Nat \X Fields
  OBVIOUS
<1>2. prev \in Seq(Nat \X Fields)
  BY DEF Hash
<1>3. Append(prev, x) \in Seq(Nat \X Fields)
  BY <1>1, <1>2
<1>4. Append(prev, x) # Junk
  <2> SUFFICES ASSUME Append(prev, x) = Junk PROVE FALSE
    OBVIOUS
  <2>1. Append(prev, x)[Len(prev) + 1] = x /\ Len(Append(prev, x)) = Len(prev) + 1
    BY <1>1, <1>2
  <2>2. Len(Junk) = 1 /\ Junk[1] = <<0, "junk">>
    BY DEF Junk
  <2>3. Len(prev) + 1 = 1
    BY <2>1, <2>2
  <2>4. x = <<0, "junk">>
    BY <2>1, <2>2, <2>3
  <2> QED
    BY <2>4
<1> QED
  BY <1>3, <1>4 DEF digest, Hash, validHash

\* Extending a log does not disturb the links it has.
LEMMA LinksKept ==
  ASSUME NEW records \in Seq(Records), NEW rec \in Records,
         NEW i \in 1..Len(records), Link(records, i)
  PROVE  Link(Append(records, rec), i)
<1>1. Append(records, rec)[i] = records[i]
  OBVIOUS
<1>2. i # 1 => Append(records, rec)[i - 1] = records[i - 1]
  OBVIOUS
<1> QED
  BY <1>1, <1>2 DEF Link

\* What Append mints on a valid tail is the next link.
LEMMA MintedLinks ==
  ASSUME NEW records \in Seq(Records), NEW fields \in Fields,
         records = <<>> \/ validHash(HeadHash(records)),
         NEW rec, rec = Minted(Len(records) + 1, HeadHash(records), fields)
  PROVE  /\ rec \in Records
         /\ Link(Append(records, rec), Len(records) + 1)
         /\ validHash(rec.hash)
<1> DEFINE n == Len(records) + 1
<1>1. n \in Nat \ {0}
  OBVIOUS
<1>2. HeadHash(records) \in Hash
  BY HeadOfLog
<1>3. /\ rec.seq = n /\ rec.prev = HeadHash(records) /\ rec.fields = fields
      /\ rec.hash = digest(n, HeadHash(records), fields)
  BY DEF Minted, Record
<1>4. rec.hash \in Hash /\ validHash(rec.hash)
  BY <1>1, <1>2, <1>3, DigestType
<1>5. rec \in Records
  BY <1>1, <1>2, <1>4 DEF Minted, Record, Records
<1>6. Append(records, rec)[n] = rec
  BY <1>5
<1>7. rec.prev = IF n = 1 THEN genesis ELSE Append(records, rec)[n - 1].hash
  <2>1. CASE records = <<>>
    BY <1>3, <2>1 DEF HeadHash
  <2>2. CASE records # <<>>
    <3>1. Append(records, rec)[n - 1] = records[Len(records)] /\ n # 1
      BY <1>5, <2>2
    <3> QED
      BY <1>3, <2>2, <3>1 DEF HeadHash
  <2> QED
    BY <2>1, <2>2
<1>8. validHash(rec.prev)
  <2>1. genesis # Junk
    BY DEF genesis, Junk
  <2> QED
    BY <1>3, <2>1 DEF HeadHash, validHash
<1> QED
  BY <1>3, <1>4, <1>5, <1>6, <1>7, <1>8 DEF Link

\* What a goroutine holds outside Append is a record.
LEMMA NoCallType == NoRecord \in Records /\ genesis \in Hash
<1>1. genesis \in Hash
  BY DEF genesis, Hash
<1> QED
  BY <1>1 DEF NoRecord, Record, Records

\* The tail of a log that verifies is what the anchor says.
LEMMA VerifiedTail ==
  ASSUME TypeOK, StoredLogVerifies, ~unsure
  PROVE  /\ anchor = [count |-> Len(log), hash |-> HeadHash(log)]
         /\ log = <<>> \/ validHash(HeadHash(log))
         /\ \A i \in 1..Len(log) : Link(log, i) /\ log[i].seq = i
<1>1. /\ Len(log) = anchor.count /\ HeadHash(log) = anchor.hash
      /\ validHash(anchor.hash)
      /\ \A i \in 1..Len(log) : Link(log, i)
  BY DEF TypeOK, StoredLogVerifies, VerifyStream, Complete
<1>2. anchor = [count |-> anchor.count, hash |-> anchor.hash]
  BY DEF TypeOK
<1> QED
  BY <1>1, <1>2 DEF Link

\* persist's transaction: the log it extends verifies, and every record it
\* held is where it was.
LEMMA PersistStep ==
  ASSUME ChainInv, NEW t \in Appenders, Persist(t)
  PROVE  ChainInv'
<1> DEFINE rec == call[t].rec
<1>1. /\ TypeOK /\ log \in Seq(Records) /\ call[t].pc = "persist" /\ lock = t
      /\ rec.fields \in Fields /\ Len(log) \in Nat
      /\ rec = Minted(Len(log) + 1, HeadHash(log), rec.fields)
  BY DEF ChainInv, TypeOK, Persist, InFlight, LockHeld, Holding
<1>2. /\ log = <<>> \/ validHash(HeadHash(log))
      /\ \A i \in 1..Len(log) : Link(log, i) /\ log[i].seq = i
  BY VerifiedTail DEF ChainInv
<1>3. /\ rec \in Records /\ validHash(rec.hash)
      /\ Link(Append(log, rec), Len(log) + 1)
  BY <1>1, <1>2, MintedLinks
<1>4. log' = Append(log, rec) /\ anchor' = AnchorOf(rec)
  BY DEF Persist
<1>5. /\ rec.seq = Len(log) + 1 /\ Len(log') = Len(log) + 1
      /\ log' \in Seq(Records) /\ log'[Len(log')] = rec
      /\ \A i \in 1..Len(log) : log'[i] = log[i]
      /\ DOMAIN log' = 1..(Len(log) + 1) /\ DOMAIN log = 1..Len(log)
  <2>1. rec.seq = Len(log) + 1
    BY <1>1 DEF Minted, Record
  <2> QED
    BY <1>1, <1>3, <1>4, <2>1
<1>6. TypeOK'
  <2>1. anchor' \in [count : Nat, hash : Hash]
    BY <1>3, <1>4 DEF AnchorOf, Records
  <2>2. call' \in [Appenders -> [pc : {"idle", "wait", "persist", "stored"}, rec : Records]]
    BY <1>1 DEF TypeOK, Persist
  <2> QED
    BY <1>1, <1>5, <2>1, <2>2 DEF TypeOK, Persist
<1>7. StoredLogVerifies'
  <2>1. \A i \in DOMAIN log' : Link(log', i)
    <3> TAKE i \in DOMAIN log'
    <3>1. CASE i = Len(log) + 1
      BY <1>3, <1>4, <3>1
    <3>2. CASE i \in 1..Len(log)
      BY <1>1, <1>2, <1>3, <1>4, <3>2, LinksKept
    <3> QED
      BY <1>1, <1>5, <3>1, <3>2
  <2>2. HeadHash(log') = rec.hash
    BY <1>1, <1>3, <1>4, HeadOfLog
  <2>3. anchor'.count = Len(log') /\ anchor'.hash = rec.hash
    BY <1>4, <1>5 DEF AnchorOf
  <2> QED
    BY <1>3, <2>1, <2>2, <2>3 DEF StoredLogVerifies, VerifyStream, Complete
<1>8. ReturnedIsStored'
  <2> SUFFICES ASSUME NEW r \in returned
               PROVE  r.seq \in DOMAIN log' /\ log'[r.seq] = r
    BY DEF ReturnedIsStored, Persist
  <2>1. r.seq \in DOMAIN log /\ log[r.seq] = r
    BY DEF ChainInv, ReturnedIsStored
  <2> QED
    BY <1>1, <1>5, <2>1
<1>9. /\ \A u \in Appenders : u # t => call'[u] = call[u] /\ ~Holding(u)
      /\ call'[t].pc = "stored" /\ call'[t].rec = rec
      /\ UNCHANGED <<up, count, head, lock>>
  BY <1>1 DEF ChainInv, TypeOK, LockHeld, Holding, Persist
<1>10. LockHeld' /\ ChainMatchesStore' /\ DownIsIdle'
  BY <1>1, <1>9, NobodyAssumption
  DEF ChainInv, LockHeld, Holding, ChainMatchesStore, DownIsIdle
<1>11. InFlight'
  <2>1. log' # <<>>
    BY <1>1, <1>5
  <2> QED
    BY <1>4, <1>5, <1>9, <2>1 DEF ChainInv, InFlight, Holding
<1>12. Len(log') <= MaxLog /\ ~unsure'
  BY <1>1, <1>5, ChainAssumption DEF ChainInv, InFlight, Persist
<1> QED
  BY <1>6, <1>7, <1>8, <1>10, <1>11, <1>12 DEF ChainInv

\* A goroutine that starts, gives up or takes the lock changes nothing stored.
LEMMA WaitingStep ==
  ASSUME ChainInv, NEW t \in Appenders,
         (\E fields \in Fields : Start(t, fields)) \/ GiveUp(t) \/ Acquire(t)
  PROVE  ChainInv'
<1>0. UNCHANGED <<log, anchor, up, count, head, returned, unsure>>
  BY DEF Start, GiveUp, Acquire
<1>1. StoredLogVerifies' /\ ReturnedIsStored'
  BY <1>0 DEF ChainInv, StoredLogVerifies, ReturnedIsStored
<1>2. TypeOK /\ log \in Seq(Records) /\ Len(log) \in Nat
  BY DEF ChainInv, TypeOK
<1>3. \A u \in Appenders : u # t => call'[u] = call[u]
  BY <1>2 DEF TypeOK, Start, GiveUp, Acquire
<1>4. CASE \E fields \in Fields : Start(t, fields)
  <2>1. PICK fields \in Fields : Start(t, fields)
    BY <1>4
  <2>2. [NoRecord EXCEPT !.fields = fields] \in Records
    BY NoCallType DEF Records
  <2>3. TypeOK'
    BY <1>2, <2>1, <2>2 DEF TypeOK, Start
  <2>4. call'[t].pc = "wait" /\ call'[t].rec.fields \in Fields /\ call[t].pc = "idle"
    <3>1. [NoRecord EXCEPT !.fields = fields].fields = fields
      BY NoCallType DEF Records
    <3> QED
      BY <1>2, <2>1, <3>1 DEF TypeOK, Start
  <2>5. LockHeld' /\ InFlight'
    BY <1>0, <1>3, <2>1, <2>4 DEF ChainInv, LockHeld, Holding, InFlight, Start
  <2> QED
    BY <1>0, <1>1, <2>1, <2>3, <2>5 DEF ChainInv, ChainMatchesStore, DownIsIdle, Start
<1>5. CASE GiveUp(t)
  <2>1. TypeOK'
    BY <1>2, <1>5, NoCallType DEF TypeOK, GiveUp, NoCall
  <2>2. call'[t].pc = "idle" /\ call[t].pc = "wait"
    BY <1>2, <1>5 DEF TypeOK, GiveUp, NoCall
  <2>3. LockHeld' /\ InFlight'
    BY <1>0, <1>3, <1>5, <2>2 DEF ChainInv, LockHeld, Holding, InFlight, GiveUp
  <2> QED
    BY <1>0, <1>1, <1>5, <2>1, <2>3 DEF ChainInv, ChainMatchesStore, DownIsIdle, GiveUp
<1>6. CASE Acquire(t)
  <2> DEFINE rec == Minted(Len(log) + 1, HeadHash(log), call[t].rec.fields)
  <2>1. /\ call[t].pc = "wait" /\ lock = None /\ Len(log) < MaxLog
        /\ call[t].rec.fields \in Fields
    BY <1>6 DEF Acquire, Locked, ChainInv, InFlight
  <2>2. up
    BY <2>1 DEF ChainInv, DownIsIdle
  <2>3. count = Len(log) /\ head = HeadHash(log) /\ anchor = [count |-> count, hash |-> head]
    BY <2>1, <2>2, VerifiedTail DEF ChainInv, ChainMatchesStore
  <2>4. (count + 1) % (MaxUint64 + 1) = Len(log) + 1
    <3>1. Len(log) + 1 \in Nat /\ MaxUint64 + 1 \in Nat /\ Len(log) + 1 < MaxUint64 + 1
      BY <1>2, <2>1, ChainAssumption
    <3>2. \A a, b \in Nat : a < b => a % b = a
      OBVIOUS
    <3> QED
      BY <2>3, <3>1, <3>2
  <2>5. call' = [call EXCEPT ![t] = [pc |-> "persist", rec |-> rec]] /\ lock' = t
    BY <1>6, <2>3, <2>4 DEF Acquire
  <2>6. rec \in Records /\ rec.fields = call[t].rec.fields
    <3>1. log = <<>> \/ validHash(HeadHash(log))
      BY VerifiedTail DEF ChainInv
    <3>2. rec \in Records
      BY <1>2, <2>1, <3>1, MintedLinks
    <3> QED
      BY <3>2 DEF Minted, Record
  <2>7. TypeOK'
    BY <1>0, <1>2, <2>5, <2>6 DEF TypeOK
  <2>8. call'[t].pc = "persist" /\ call'[t].rec = rec
    BY <1>2, <2>5 DEF TypeOK
  <2>9. InFlight'
    BY <1>0, <1>3, <2>1, <2>3, <2>6, <2>8 DEF ChainInv, InFlight
  <2>10. LockHeld'
    BY <1>3, <2>1, <2>5, <2>8, NobodyAssumption DEF ChainInv, LockHeld, Holding
  <2>11. ChainMatchesStore' /\ DownIsIdle'
    BY <1>0, <2>2, <2>5, NobodyAssumption DEF ChainMatchesStore, DownIsIdle
  <2> QED
    BY <1>0, <1>1, <2>7, <2>9, <2>10, <2>11 DEF ChainInv
<1> QED
  BY <1>4, <1>5, <1>6

\* persist's two answers: an error leaves the chain where the store is, and
\* success moves it to the record the store now ends with.
LEMMA AnsweredStep ==
  ASSUME ChainInv, NEW t \in Appenders, PersistFails(t) \/ Advance(t)
  PROVE  ChainInv'
<1>0. UNCHANGED <<log, anchor, up, unsure>> /\ lock' = None /\ call' = [call EXCEPT ![t] = NoCall]
  BY DEF PersistFails, Advance
<1>1. TypeOK /\ log \in Seq(Records) /\ Len(log) \in Nat /\ lock = t
  BY DEF ChainInv, TypeOK, LockHeld, Holding, PersistFails, Advance
<1>2. /\ \A u \in Appenders : u # t => call'[u] = call[u] /\ ~Holding(u)
      /\ call'[t] = NoCall
  BY <1>0, <1>1 DEF ChainInv, TypeOK, LockHeld, Holding
<1>3. StoredLogVerifies'
  BY <1>0 DEF ChainInv, StoredLogVerifies
<1>4. LockHeld' /\ InFlight'
  BY <1>0, <1>2, NobodyAssumption DEF ChainInv, LockHeld, Holding, InFlight, NoCall
<1>5. DownIsIdle'
  BY <1>0, <1>2 DEF ChainInv, DownIsIdle, NoCall
<1>6. call' \in [Appenders -> [pc : {"idle", "wait", "persist", "stored"}, rec : Records]]
  BY <1>0, <1>1, NoCallType DEF TypeOK, NoCall
<1>7. CASE PersistFails(t)
  <2>1. UNCHANGED <<count, head, returned>> /\ call[t].pc = "persist"
    BY <1>7 DEF PersistFails
  <2>2. anchor = [count |-> count, hash |-> head]
    BY <2>1 DEF ChainInv, InFlight
  <2>3. ChainMatchesStore' /\ ReturnedIsStored'
    BY <1>0, <2>1, <2>2 DEF ChainInv, ChainMatchesStore, ReturnedIsStored
  <2>4. TypeOK'
    BY <1>0, <1>1, <1>6, <2>1 DEF TypeOK
  <2> QED
    BY <1>0, <1>3, <1>4, <1>5, <2>3, <2>4 DEF ChainInv
<1>8. CASE Advance(t)
  <2> DEFINE rec == call[t].rec
  <2>1. /\ call[t].pc = "stored" /\ count' = rec.seq /\ head' = rec.hash
        /\ returned' = returned \cup {rec}
    BY <1>8 DEF Advance
  <2>2. log # <<>> /\ rec = log[Len(log)] /\ anchor = AnchorOf(rec)
    BY <2>1 DEF ChainInv, InFlight
  <2>3. rec \in Records /\ Len(log) \in 1..Len(log) /\ DOMAIN log = 1..Len(log)
    BY <1>1, <2>2
  <2>4. rec.seq = Len(log)
    BY <2>2, <2>3, VerifiedTail DEF ChainInv
  <2>5. ReturnedIsStored'
    BY <1>0, <2>1, <2>2, <2>3, <2>4 DEF ChainInv, ReturnedIsStored
  <2>6. ChainMatchesStore'
    BY <1>0, <2>1, <2>2 DEF ChainMatchesStore, AnchorOf
  <2>7. TypeOK'
    <3>1. rec.seq \in Nat /\ rec.hash \in Hash
      BY <2>3 DEF Records
    <3> QED
      BY <1>0, <1>1, <1>6, <2>1, <2>3, <3>1 DEF TypeOK
  <2> QED
    BY <1>0, <1>3, <1>4, <1>5, <2>5, <2>6, <2>7 DEF ChainInv
<1> QED
  BY <1>7, <1>8

\* A process that starts, resumes or dies leaves the store alone, and a chain
\* that starts is where the store is.
LEMMA ProcessStep ==
  ASSUME ChainInv, New \/ Resume \/ Crash
  PROVE  ChainInv'
<1>0. UNCHANGED <<log, anchor, returned, unsure>>
  BY DEF New, Resume, Crash
<1>1. TypeOK /\ log \in Seq(Records)
  BY DEF ChainInv, TypeOK
<1>2. StoredLogVerifies' /\ ReturnedIsStored'
  BY <1>0 DEF ChainInv, StoredLogVerifies, ReturnedIsStored
<1>3. CASE New
  <2>1. anchor = [count |-> 0, hash |-> genesis]
    BY <1>3, VerifiedTail DEF ChainInv, New, HeadHash
  <2>2. TypeOK'
    BY <1>1, <1>3, NoCallType DEF TypeOK, New
  <2> QED
    BY <1>0, <1>2, <1>3, <2>1, <2>2
    DEF ChainInv, New, ChainMatchesStore, LockHeld, Holding, DownIsIdle, InFlight
<1>4. CASE Resume
  <2>1. PICK i \in DOMAIN log :
          IsTail(log[i], anchor) /\ count' = log[i].seq /\ head' = log[i].hash
    BY <1>4 DEF Resume
  <2>2. anchor = [count |-> count', hash |-> head'] /\ log[i] \in Records
    BY <1>1, <2>1 DEF IsTail, AnchorOf
  <2>3. TypeOK'
    BY <1>1, <1>4, <2>1, <2>2 DEF TypeOK, Resume, Records
  <2>4. LockHeld' /\ DownIsIdle' /\ ChainMatchesStore'
    BY <1>0, <1>4, <2>2 DEF ChainInv, Resume, LockHeld, Holding, DownIsIdle, ChainMatchesStore
  <2>5. InFlight'
    BY <1>0, <1>4 DEF ChainInv, Resume, InFlight, DownIsIdle
  <2> QED
    BY <1>0, <1>2, <2>3, <2>4, <2>5 DEF ChainInv
<1>5. CASE Crash
  <2>1. TypeOK'
    BY <1>1, <1>5, NoCallType DEF TypeOK, Crash, NoCall
  <2>2. \A t \in Appenders : call'[t].pc = "idle"
    BY <1>5 DEF Crash, NoCall
  <2> QED
    BY <1>0, <1>2, <1>5, <2>1, <2>2, NobodyAssumption
    DEF ChainInv, Crash, ChainMatchesStore, LockHeld, Holding, DownIsIdle, InFlight
<1> QED
  BY <1>3, <1>4, <1>5

\* ChainInv holds of the empty store, and every step of a chain keeps it until an
\* error of persist is not an honest one.
LEMMA ChainInductive ==
  /\ Init => ChainInv
  /\ (unsure \/ ChainInv) /\ [Next]_vars => (unsure \/ ChainInv)'
<1>1. Init => ChainInv
  <2> SUFFICES ASSUME Init PROVE ChainInv
    OBVIOUS
  <2>1. TypeOK
    <3>1. log \in Seq(Records) /\ anchor \in [count : Nat, hash : Hash] /\ head \in Hash
      BY NoCallType DEF Init
    <3>2. call \in [Appenders -> [pc : {"idle", "wait", "persist", "stored"}, rec : Records]]
      BY NoCallType DEF Init, NoCall
    <3> QED
      BY <3>1, <3>2 DEF Init, TypeOK
  <2>2. StoredLogVerifies
    <3>1. genesis # Junk
      BY DEF genesis, Junk
    <3>2. log = <<>> /\ Len(log) = 0 /\ DOMAIN log = {}
      BY DEF Init
    <3> QED
      BY <3>1, <3>2 DEF Init, StoredLogVerifies, VerifyStream, Complete, HeadHash, validHash
  <2>3. \A t \in Appenders : call[t].pc = "idle"
    BY DEF Init, NoCall
  <2> QED
    BY <2>1, <2>2, <2>3, NobodyAssumption, ChainAssumption
    DEF Init, ChainInv, ReturnedIsStored, ChainMatchesStore, LockHeld, Holding, DownIsIdle, InFlight
<1>2. unsure /\ [Next]_vars => unsure'
  BY DEF vars, Next, New, Resume, Crash, AppendStep, Start, GiveUp, Acquire, Persist,
         PersistFails, PersistUnsure, Advance
<1>3. ChainInv /\ [Next]_vars => unsure' \/ ChainInv'
  <2> SUFFICES ASSUME ChainInv, [Next]_vars, ~unsure' PROVE ChainInv'
    OBVIOUS
  <2>1. CASE Next
    <3>1. \A t \in Appenders : ~PersistUnsure(t)
      BY DEF PersistUnsure
    <3> QED
      BY <2>1, <3>1, ProcessStep, WaitingStep, PersistStep, AnsweredStep DEF Next, AppendStep
  <2>2. CASE UNCHANGED vars
    BY <2>2 DEF vars, ChainInv, TypeOK, StoredLogVerifies, ReturnedIsStored,
                ChainMatchesStore, LockHeld, Holding, DownIsIdle, InFlight
  <2> QED
    BY <2>1, <2>2
<1> QED
  BY <1>1, <1>2, <1>3

\* ChainInv holds in every reachable state, until an error of persist is not
\* an honest one.
LEMMA ChainInvariant == Spec => [](unsure \/ ChainInv)
<1>1. Init => unsure \/ ChainInv
  BY ChainInductive
<1>2. (unsure \/ ChainInv) /\ [Next]_vars => (unsure \/ ChainInv)'
  BY ChainInductive
<1> QED
  BY <1>1, <1>2, PTL DEF Spec

\* Append keeps the stored log verifiable: with any number of goroutines,
\* failing stores and crashes, VerifyStream accepts it against its anchor
\* until persist reports an error for a record it stored.
THEOREM LogAlwaysVerifies == Spec => []StoredLogVerifies
<1>1. unsure \/ ChainInv => StoredLogVerifies
  BY DEF ChainInv, StoredLogVerifies
<1> QED
  BY <1>1, ChainInvariant, PTL

\* Append never returns a record that is not stored, crashes included.
THEOREM ReturnedAlwaysStored == Spec => []ReturnedIsStored
<1>1. unsure \/ ChainInv => ReturnedIsStored
  BY DEF ChainInv, ReturnedIsStored
<1> QED
  BY <1>1, ChainInvariant, PTL

-----------------------------------------------------------------------------
(* AppendLog: what holds whatever persist reports.                         *)

\* The record of the goroutine that has stored one is the tail of the log.
StoreInv ==
  /\ TypeOK /\ LockHeld /\ DownIsIdle
  /\ \A t \in Appenders :
       /\ call[t].pc = "wait" => call[t].rec.fields \in Fields
       /\ call[t].pc = "stored" => log # <<>> /\ call[t].rec = log[Len(log)]

\* A process that starts, resumes or dies has no goroutine in Append.
LEMMA ProcessKeepsStoreInv ==
  ASSUME StoreInv, New \/ Resume \/ Crash
  PROVE  StoreInv'
<1>1. UNCHANGED <<log, anchor, returned, unsure>> /\ log \in Seq(Records)
  BY DEF StoreInv, TypeOK, New, Resume, Crash
<1>2. CASE New
  BY <1>1, <1>2, NoCallType DEF StoreInv, TypeOK, LockHeld, Holding, DownIsIdle, New
<1>3. CASE Resume
  <2>1. PICK i \in DOMAIN log : count' = log[i].seq /\ head' = log[i].hash
    BY <1>3 DEF Resume
  <2>2. log[i] \in Records
    BY <1>1, <2>1
  <2>3. count' \in Nat /\ head' \in Hash
    BY <2>1, <2>2 DEF Records
  <2> QED
    BY <1>1, <1>3, <2>3 DEF StoreInv, TypeOK, LockHeld, Holding, DownIsIdle, Resume
<1>4. CASE Crash
  <2>1. \A t \in Appenders : call'[t].pc = "idle"
    BY <1>4 DEF Crash, NoCall
  <2>2. TypeOK'
    BY <1>1, <1>4, NoCallType DEF StoreInv, TypeOK, Crash, NoCall
  <2> QED
    BY <1>4, <2>1, <2>2, NobodyAssumption DEF StoreInv, LockHeld, Holding, DownIsIdle, Crash
<1> QED
  BY <1>2, <1>3, <1>4

\* Before the lock, nothing a goroutine does touches what is stored.
LEMMA WaitKeepsStoreInv ==
  ASSUME StoreInv, NEW t \in Appenders,
         (\E fields \in Fields : Start(t, fields)) \/ GiveUp(t) \/ Acquire(t)
  PROVE  StoreInv'
<1>0. UNCHANGED <<log, anchor, up, count, head, returned, unsure>>
  BY DEF Start, GiveUp, Acquire
<1>1. TypeOK /\ log \in Seq(Records)
  BY DEF StoreInv, TypeOK
<1>2. \A u \in Appenders : u # t => call'[u] = call[u]
  BY <1>1 DEF TypeOK, Start, GiveUp, Acquire
<1>3. CASE \E fields \in Fields : Start(t, fields)
  <2>1. PICK fields \in Fields : Start(t, fields)
    BY <1>3
  <2> DEFINE rec == [NoRecord EXCEPT !.fields = fields]
  <2>2. rec \in Records /\ rec.fields = fields
    BY NoCallType DEF Records
  <2>3. call'[t] = [pc |-> "wait", rec |-> rec] /\ call[t].pc = "idle" /\ lock' = lock
    BY <1>1, <2>1 DEF TypeOK, Start
  <2>4. TypeOK'
    BY <1>1, <2>1, <2>2 DEF TypeOK, Start
  <2> QED
    BY <1>0, <1>2, <2>1, <2>2, <2>3, <2>4 DEF StoreInv, LockHeld, Holding, DownIsIdle, Start
<1>4. CASE GiveUp(t)
  <2>1. call'[t].pc = "idle" /\ call[t].pc = "wait" /\ lock' = lock
    BY <1>1, <1>4 DEF TypeOK, GiveUp, NoCall
  <2>2. TypeOK'
    BY <1>1, <1>4, NoCallType DEF TypeOK, GiveUp, NoCall
  <2> QED
    BY <1>0, <1>2, <2>1, <2>2 DEF StoreInv, LockHeld, Holding, DownIsIdle
<1>5. CASE Acquire(t)
  <2> DEFINE n == (count + 1) % (MaxUint64 + 1)
             rec == Minted(n, head, call[t].rec.fields)
  <2>1. call[t].pc = "wait" /\ call[t].rec.fields \in Fields /\ lock = None /\ lock' = t
    BY <1>5 DEF Acquire, Locked, StoreInv
  <2>2. n \in Nat
    BY <1>1, ChainAssumption DEF TypeOK
  <2>3. rec \in Records
    <3>1. <<n, call[t].rec.fields>> \in Nat \X Fields /\ head \in Seq(Nat \X Fields)
      BY <1>1, <2>1, <2>2 DEF TypeOK, Hash
    <3>2. digest(n, head, call[t].rec.fields) \in Hash
      BY <3>1 DEF digest, Hash
    <3> QED
      BY <1>1, <2>1, <2>2, <3>2 DEF TypeOK, Minted, Record, Records
  <2>4. call' = [call EXCEPT ![t] = [pc |-> "persist", rec |-> rec]]
    BY <1>5 DEF Acquire
  <2>5. call'[t].pc = "persist"
    BY <1>1, <2>4 DEF TypeOK
  <2>6. TypeOK'
    BY <1>0, <1>1, <2>1, <2>3, <2>4 DEF TypeOK
  <2>7. up
    BY <2>1 DEF StoreInv, DownIsIdle
  <2> QED
    BY <1>0, <1>2, <2>1, <2>5, <2>6, <2>7, NobodyAssumption
    DEF StoreInv, LockHeld, Holding, DownIsIdle
<1> QED
  BY <1>3, <1>4, <1>5

\* Under the lock one goroutine stores its record, and hears what became of it.
LEMMA LockedKeepsStoreInv ==
  ASSUME StoreInv, NEW t \in Appenders,
         Persist(t) \/ PersistFails(t) \/ PersistUnsure(t) \/ Advance(t)
  PROVE  StoreInv'
<1>1. TypeOK /\ log \in Seq(Records) /\ call[t].rec \in Records /\ lock = t /\ up
  BY NobodyAssumption
  DEF StoreInv, TypeOK, LockHeld, Holding, DownIsIdle, Persist, PersistFails, PersistUnsure, Advance
<1>2. \A u \in Appenders : u # t => call'[u] = call[u] /\ ~Holding(u)
  BY <1>1 DEF StoreInv, TypeOK, LockHeld, Persist, PersistFails, PersistUnsure, Advance
<1>3. CASE Persist(t)
  <2>1. call' = [call EXCEPT ![t].pc = "stored"] /\ log' = Append(log, call[t].rec)
    BY <1>3 DEF Persist
  <2>2. call'[t].pc = "stored" /\ call'[t].rec = call[t].rec
    BY <1>1, <2>1 DEF TypeOK
  <2>3. log' # <<>> /\ log'[Len(log')] = call[t].rec /\ log' \in Seq(Records)
    BY <1>1, <2>1
  <2>4. anchor' \in [count : Nat, hash : Hash]
    BY <1>1, <1>3 DEF Persist, AnchorOf, Records
  <2>5. TypeOK'
    BY <1>1, <1>3, <2>1, <2>3, <2>4 DEF TypeOK, Persist
  <2> QED
    BY <1>1, <1>2, <1>3, <2>2, <2>3, <2>5 DEF StoreInv, LockHeld, Holding, DownIsIdle, Persist
<1>4. CASE PersistFails(t) \/ PersistUnsure(t) \/ Advance(t)
  <2>1. /\ call' = [call EXCEPT ![t] = NoCall] /\ lock' = None
        /\ UNCHANGED <<log, anchor, up>>
    BY <1>4 DEF PersistFails, PersistUnsure, Advance
  <2>2. call'[t].pc = "idle"
    BY <1>1, <2>1 DEF TypeOK, NoCall
  <2>3. /\ count' \in Nat /\ head' \in Hash
        /\ returned' \subseteq Records /\ unsure' \in BOOLEAN
    BY <1>1, <1>4 DEF TypeOK, PersistFails, PersistUnsure, Advance, Records
  <2>4. call' \in [Appenders -> [pc : {"idle", "wait", "persist", "stored"}, rec : Records]]
    BY <1>1, <2>1, NoCallType DEF TypeOK, NoCall
  <2>5. TypeOK'
    BY <1>1, <2>1, <2>3, <2>4 DEF TypeOK
  <2> QED
    BY <1>1, <1>2, <2>1, <2>2, <2>5, NobodyAssumption DEF StoreInv, LockHeld, Holding, DownIsIdle
<1> QED
  BY <1>3, <1>4

\* StoreInv holds of the empty store and every step keeps it, unsure or not.
LEMMA StoreInductive ==
  /\ Init => StoreInv
  /\ StoreInv /\ [Next]_vars => StoreInv'
<1>1. Init => StoreInv
  <2> SUFFICES ASSUME Init PROVE StoreInv
    OBVIOUS
  <2>1. \A t \in Appenders : call[t].pc = "idle"
    BY DEF Init, NoCall
  <2>2. call \in [Appenders -> [pc : {"idle", "wait", "persist", "stored"}, rec : Records]]
    BY NoCallType DEF Init, NoCall
  <2>3. log \in Seq(Records) /\ anchor \in [count : Nat, hash : Hash] /\ head \in Hash
    BY NoCallType DEF Init
  <2>4. TypeOK
    BY <2>2, <2>3 DEF Init, TypeOK
  <2> QED
    BY <2>1, <2>4, NobodyAssumption DEF Init, StoreInv, LockHeld, Holding, DownIsIdle
<1>2. StoreInv /\ [Next]_vars => StoreInv'
  <2> SUFFICES ASSUME StoreInv, [Next]_vars PROVE StoreInv'
    OBVIOUS
  <2>1. CASE Next
    BY <2>1, ProcessKeepsStoreInv, WaitKeepsStoreInv, LockedKeepsStoreInv DEF Next, AppendStep
  <2>2. CASE UNCHANGED vars
    BY <2>2 DEF vars, StoreInv, TypeOK, LockHeld, Holding, DownIsIdle
  <2> QED
    BY <2>1, <2>2
<1> QED
  BY <1>1, <1>2

\* StoreInv holds in every reachable state, unsure or not.
LEMMA StoreInvariant == Spec => []StoreInv
<1>1. Init => StoreInv
  BY StoreInductive
<1>2. StoreInv /\ [Next]_vars => StoreInv'
  BY StoreInductive
<1> QED
  BY <1>1, <1>2, PTL DEF Spec

\* A record Append mints, whether or not the chain in memory has fallen behind
\* the store: it verifies on its own, and its number is no larger than n.
Sound(rec, n) == VerifyRecord(rec) /\ rec.seq <= n /\ rec.seq <= MaxLog

\* What survives a persist that was unsure: record and anchor are stored
\* together, and the chain is never ahead of the store.
TailInv ==
  /\ StoreInv
  /\ count <= Len(log) /\ validHash(head)
  /\ log # <<>> => Sound(log[Len(log)], Len(log)) /\ anchor = AnchorOf(log[Len(log)])
  /\ \A t \in Appenders : call[t].pc = "persist" => Sound(call[t].rec, Len(log) + 1)

\* A resumed chain is at the number its anchor has, which is the tail's.
LEMMA ProcessKeepsTail ==
  ASSUME TailInv, StoreInv', New \/ Resume \/ Crash
  PROVE  TailInv'
<1>1. log' = log /\ anchor' = anchor /\ log \in Seq(Records) /\ Len(log) \in Nat
  BY DEF TailInv, StoreInv, TypeOK, New, Resume, Crash
<1>2. validHash(genesis)
  BY DEF validHash, genesis, Junk
<1>3. CASE New
  BY <1>1, <1>2, <1>3 DEF TailInv, New
<1>4. CASE Resume
  <2>1. PICK i \in DOMAIN log : IsTail(log[i], anchor) /\ count' = log[i].seq /\ head' = log[i].hash
    BY <1>4 DEF Resume
  <2>2. log # <<>>
    BY <1>1, <2>1
  <2>3. anchor = AnchorOf(log[Len(log)]) /\ log[Len(log)].seq <= Len(log)
    BY <2>2 DEF TailInv, Sound
  <2>4. count' <= Len(log)
    BY <2>1, <2>3 DEF IsTail, AnchorOf
  <2>5. validHash(head')
    BY <2>1 DEF IsTail, VerifyRecord
  <2>6. call' = call
    BY <1>4 DEF Resume
  <2> QED
    BY <1>1, <2>4, <2>5, <2>6 DEF TailInv
<1>5. CASE Crash
  <2>1. \A t \in Appenders : call'[t].pc = "idle"
    BY <1>5 DEF Crash, NoCall
  <2> QED
    BY <1>1, <1>2, <1>5, <2>1 DEF TailInv, Crash
<1> QED
  BY <1>3, <1>4, <1>5

\* What Append mints on the chain in memory is sound, behind the store or not.
LEMMA AcquireMintsSound ==
  ASSUME TailInv, NEW t \in Appenders, Acquire(t)
  PROVE  Sound(Minted((count + 1) % (MaxUint64 + 1), head, call[t].rec.fields), Len(log) + 1)
<1> DEFINE n == (count + 1) % (MaxUint64 + 1)
           rec == Minted(n, head, call[t].rec.fields)
<1>1. /\ count \in Nat /\ head \in Hash /\ Len(log) \in Nat /\ count <= Len(log)
      /\ validHash(head) /\ call[t].rec.fields \in Fields /\ Len(log) < MaxLog
  BY DEF TailInv, StoreInv, TypeOK, Acquire
<1>2. count + 1 <= MaxLog
  BY <1>1, ChainAssumption
<1>3. n = count + 1
  BY <1>1, <1>2, ChainAssumption
<1>4. n \in Nat \ {0} /\ n <= Len(log) + 1 /\ n <= MaxLog
  BY <1>1, <1>2, <1>3
<1> HIDE DEF n
<1>5. rec.seq = n /\ rec.prev = head /\ rec.fields = call[t].rec.fields
      /\ rec.hash = digest(n, head, call[t].rec.fields)
  BY DEF Minted, Record
<1>6. validHash(rec.hash)
  BY <1>1, <1>4, <1>5, DigestType
<1> QED
  BY <1>1, <1>4, <1>5, <1>6 DEF Sound, VerifyRecord, n

\* A goroutine in Append stores a sound record with its anchor, or nothing.
LEMMA AppendKeepsTail ==
  ASSUME TailInv, StoreInv', NEW t \in Appenders, AppendStep(t) \/ PersistUnsure(t) \/ Advance(t)
  PROVE  TailInv'
<1>1. log \in Seq(Records) /\ call[t].rec \in Records /\ Len(log) \in Nat /\ count \in Nat
  BY DEF TailInv, StoreInv, TypeOK
<1>2. \A u \in Appenders : u # t => call'[u] = call[u]
  BY DEF TailInv, StoreInv, TypeOK, AppendStep, Start, GiveUp, Acquire, Persist, PersistFails,
         PersistUnsure, Advance
<1>3. CASE (\E fields \in Fields : Start(t, fields)) \/ GiveUp(t) \/ PersistFails(t) \/ PersistUnsure(t)
  <2>1. UNCHANGED <<log, anchor, count, head>>
    BY <1>3 DEF Start, GiveUp, PersistFails, PersistUnsure
  <2>2. call'[t].pc # "persist"
    BY <1>3 DEF TailInv, StoreInv, TypeOK, NoCall, Start, GiveUp, PersistFails, PersistUnsure
  <2> QED
    BY <1>2, <2>1, <2>2 DEF TailInv
<1>4. CASE Acquire(t)
  <2>1. UNCHANGED <<log, anchor, count, head>>
    BY <1>4 DEF Acquire
  <2>2. call'[t].rec = Minted((count + 1) % (MaxUint64 + 1), head, call[t].rec.fields)
    BY <1>4 DEF TailInv, StoreInv, TypeOK, Acquire
  <2>3. Sound(call'[t].rec, Len(log) + 1)
    BY <1>4, <2>2, AcquireMintsSound
  <2> QED
    BY <1>2, <2>1, <2>3 DEF TailInv
<1>5. CASE Persist(t)
  <2>1. log' = Append(log, call[t].rec) /\ anchor' = AnchorOf(call[t].rec)
        /\ UNCHANGED <<count, head>> /\ call[t].pc = "persist"
    BY <1>5 DEF Persist
  <2>2. Len(log') = Len(log) + 1 /\ log'[Len(log')] = call[t].rec
    BY <1>1, <2>1
  <2>3. Sound(log'[Len(log')], Len(log'))
    BY <2>1, <2>2 DEF TailInv
  <2>4. \A u \in Appenders : call'[u].pc # "persist"
    <3>1. \A u \in Appenders : u # t => call[u].pc # "persist"
      BY <2>1 DEF TailInv, StoreInv, LockHeld, Holding
    <3>2. call'[t].pc = "stored"
      BY <1>5 DEF TailInv, StoreInv, TypeOK, Persist
    <3> QED
      BY <1>2, <3>1, <3>2
  <2>5. count' <= Len(log')
    BY <1>1, <2>1, <2>2 DEF TailInv
  <2> QED
    BY <2>1, <2>2, <2>3, <2>4, <2>5 DEF TailInv
<1>6. CASE Advance(t)
  <2>1. UNCHANGED <<log, anchor>> /\ log # <<>> /\ call[t].rec = log[Len(log)]
        /\ count' = call[t].rec.seq /\ head' = call[t].rec.hash
    BY <1>6 DEF TailInv, StoreInv, Advance
  <2>2. Sound(call[t].rec, Len(log))
    BY <2>1 DEF TailInv
  <2>3. call'[t].pc # "persist"
    BY <1>6 DEF TailInv, StoreInv, TypeOK, Advance, NoCall
  <2> QED
    BY <1>2, <2>1, <2>2, <2>3 DEF TailInv, Sound, VerifyRecord
<1> QED
  BY <1>3, <1>4, <1>5, <1>6 DEF AppendStep

\* Resume never locks a product out: after any crash, and whatever persist has
\* reported, the stored tail and the stored anchor are accepted together.
THEOREM TailAlwaysResumes == Spec => []TailResumes
<1>1. Init => TailInv
  <2> SUFFICES ASSUME Init PROVE TailInv
    OBVIOUS
  <2>1. StoreInv
    BY StoreInductive
  <2>2. \A t \in Appenders : call[t].pc = "idle"
    BY DEF Init, NoCall
  <2>3. validHash(genesis)
    BY DEF validHash, genesis, Junk
  <2> QED
    BY <2>1, <2>2, <2>3 DEF Init, TailInv
<1>2. TailInv /\ [Next]_vars => TailInv'
  <2> SUFFICES ASSUME TailInv, [Next]_vars PROVE TailInv'
    OBVIOUS
  <2>1. StoreInv'
    BY StoreInductive DEF TailInv
  <2>2. CASE Next
    BY <2>1, <2>2, ProcessKeepsTail, AppendKeepsTail DEF Next
  <2>3. CASE UNCHANGED vars
    BY <2>1, <2>3 DEF vars, TailInv
  <2> QED
    BY <2>2, <2>3
<1>3. TailInv => TailResumes
  <2> SUFFICES ASSUME TailInv, log # <<>>
               PROVE  Len(log) \in DOMAIN log /\ IsTail(log[Len(log)], anchor)
    BY DEF TailResumes
  <2>1. log \in Seq(Records)
    BY DEF TailInv, StoreInv, TypeOK
  <2>2. Len(log) \in DOMAIN log /\ log[Len(log)].seq \in Nat
    <3>1. Len(log) \in DOMAIN log /\ log[Len(log)] \in Records
      BY <2>1
    <3> QED
      BY <3>1 DEF Records
  <2>3. Sound(log[Len(log)], Len(log)) /\ anchor = AnchorOf(log[Len(log)])
    BY DEF TailInv
  <2>4. log[Len(log)].seq # MaxUint64
    BY <2>2, <2>3, ChainAssumption DEF Sound
  <2> QED
    BY <2>2, <2>3, <2>4 DEF IsTail, Sound
<1> QED
  BY <1>1, <1>2, <1>3, PTL DEF Spec

\* Append and Resume implement AppendLog for any number of goroutines, whatever
\* persist reports: the stored log only grows, and a record is returned while it
\* is the last one stored.
THEOREM ChainImplementsAppendLog == Spec => ImplementsAppendLog
<1>1. Init => Promise!LogEmpty
  BY DEF Init, Promise!LogEmpty
<1>2. StoreInv /\ [Next]_vars =>
        [Promise!Adopt \/ Promise!Grow \/ Promise!Acknowledge]_<<log, returned>>
  <2> SUFFICES ASSUME StoreInv, [Next]_vars
               PROVE  Promise!Grow \/ Promise!Acknowledge \/ UNCHANGED <<log, returned>>
    OBVIOUS
  <2>1. ASSUME NEW t \in Appenders, Persist(t) PROVE Promise!Grow
    <3>1. log \in Seq(Records) /\ call[t].rec \in Records
      BY DEF StoreInv, TypeOK
    <3>2. log' = Append(log, call[t].rec) /\ returned' = returned
      BY <2>1 DEF Persist
    <3>3. log' # <<>> /\ Len(log') - 1 = Len(log)
      BY <3>1, <3>2
    <3>4. log = SubSeq(log', 1, Len(log') - 1)
      BY <3>1, <3>2, <3>3
    <3> QED
      BY <3>2, <3>3, <3>4 DEF Promise!Grow
  <2>2. ASSUME NEW t \in Appenders, Advance(t) PROVE Promise!Acknowledge
    BY <2>2 DEF StoreInv, Advance, Promise!Acknowledge
  <2>3. CASE UNCHANGED vars
    BY <2>3 DEF vars
  <2>4. CASE New \/ Resume \/ Crash
    BY <2>4 DEF New, Resume, Crash
  <2>5. ASSUME NEW t \in Appenders,
               \/ \E fields \in Fields : Start(t, fields)
               \/ GiveUp(t) \/ Acquire(t) \/ PersistFails(t) \/ PersistUnsure(t)
        PROVE  UNCHANGED <<log, returned>>
    BY <2>5 DEF Start, GiveUp, Acquire, PersistFails, PersistUnsure
  <2> QED
    BY <2>1, <2>2, <2>3, <2>4, <2>5 DEF Next, AppendStep
<1> QED
  BY <1>1, <1>2, StoreInvariant, PTL DEF Spec, ImplementsAppendLog, Promise!LogSpec

-----------------------------------------------------------------------------
(* VerifyStream: an anchor names one log.                                  *)

\* Every nonempty set of naturals has a least element.
LEMMA LeastNatural ==
  ASSUME NEW T \in SUBSET Nat, T # {}
  PROVE  \E m \in T : \A k \in T : m <= k
<1> DEFINE R == OpToRel(<, Nat)
<1>1. PICK m \in T : \A k \in T : ~ (<<k, m>> \in R)
  <2>1. IsWellFoundedOn(R, Nat)
    BY NatLessThanWellFounded
  <2> HIDE DEF R
  <2> QED
    BY <2>1, WFMin
<1>2. \A k \in T : <<k, m>> \in R <=> k < m
  BY DEF OpToRel
<1>3. \A k \in T : m <= k
  <2> TAKE k \in T
  <2>1. ~ (k < m)
    BY <1>1, <1>2, Zenon
  <2>2. k \in Nat /\ m \in Nat
    OBVIOUS
  <2> QED
    BY <2>1, <2>2
<1> QED
  BY <1>3

\* Induction, over a set instead of a predicate.
LEMMA InductiveSet ==
  ASSUME NEW S, 0 \in S, \A n \in Nat : n \in S => n + 1 \in S
  PROVE  \A n \in Nat : n \in S
<1> SUFFICES ASSUME Nat \ S # {} PROVE FALSE
  OBVIOUS
<1>1. PICK m \in Nat \ S : \A k \in Nat \ S : m <= k
  BY LeastNatural
<1>2. m - 1 \in Nat /\ m - 1 \in S
  BY <1>1
<1> QED
  BY <1>1, <1>2

\* What a stored log may hold once somebody has altered it: records with any
\* fields of F and any hashes over them, digests or not.
Loggable(F) == [seq : Nat, prev : Seq(Nat \X F), hash : Seq(Nat \X F), fields : F]

\* digest is injective.
LEMMA DigestInjective ==
  ASSUME NEW F, NEW n \in Nat, NEW p \in Seq(Nat \X F), NEW q \in Seq(Nat \X F),
         NEW f \in F, NEW g \in F, digest(n, p, f) = digest(n, q, g)
  PROVE  p = q /\ f = g
<1> DEFINE x == <<n, f>>
           y == <<n, g>>
<1>1. x \in Nat \X F /\ y \in Nat \X F
  OBVIOUS
<1>2. Append(p, x) = Append(q, y)
  BY DEF digest
<1> HIDE DEF x, y
<1>3. Len(p) = Len(q) /\ x = y
  <2>1. Len(Append(p, x)) = Len(p) + 1 /\ Len(Append(q, y)) = Len(q) + 1
    BY <1>1
  <2>2. Append(p, x)[Len(p) + 1] = x /\ Append(q, y)[Len(q) + 1] = y
    BY <1>1
  <2> QED
    BY <1>2, <2>1, <2>2
<1>4. \A i \in 1..Len(p) : p[i] = q[i]
  <2> TAKE i \in 1..Len(p)
  <2>1. Append(p, x)[i] = p[i] /\ Append(q, y)[i] = q[i]
    BY <1>1, <1>3
  <2> QED
    BY <1>2, <2>1
<1>5. p = q
  BY <1>3, <1>4, SMTT(30)
<1> QED
  BY <1>3, <1>5 DEF x, y

\* Two links with one hash are one record, on predecessors with one hash.
LEMMA LinkDetermined ==
  ASSUME NEW F, NEW A \in Seq(Loggable(F)), NEW B \in Seq(Loggable(F)),
         Len(A) = Len(B), NEW i \in 1..Len(A),
         Link(A, i), Link(B, i), A[i].hash = B[i].hash
  PROVE  /\ A[i] = B[i]
         /\ i # 1 => A[i - 1].hash = B[i - 1].hash
<1> DEFINE a == A[i]
           b == B[i]
<1>1. a \in Loggable(F) /\ b \in Loggable(F)
  OBVIOUS
<1>2. /\ a.seq = i /\ b.seq = i /\ a.hash = b.hash
      /\ a.hash = digest(a.seq, a.prev, a.fields)
      /\ b.hash = digest(b.seq, b.prev, b.fields)
  BY DEF Link
<1>3. i # 1 => a.prev = A[i - 1].hash /\ b.prev = B[i - 1].hash
  BY DEF Link
<1> HIDE DEF a, b
<1>4. a.prev = b.prev /\ a.fields = b.fields
  <2>1. /\ a.prev \in Seq(Nat \X F) /\ b.prev \in Seq(Nat \X F)
        /\ a.fields \in F /\ b.fields \in F
    BY <1>1 DEF Loggable
  <2>2. digest(i, a.prev, a.fields) = digest(i, b.prev, b.fields)
    BY <1>2, Zenon
  <2>3. i \in Nat
    OBVIOUS
  <2> QED
    BY <2>1, <2>2, <2>3, DigestInjective
<1>5. a = b
  <2>1. /\ a = [seq |-> a.seq, prev |-> a.prev, hash |-> a.hash, fields |-> a.fields]
        /\ b = [seq |-> b.seq, prev |-> b.prev, hash |-> b.hash, fields |-> b.fields]
    BY <1>1 DEF Loggable
  <2> QED
    BY <1>2, <1>4, <2>1
<1> QED
  BY <1>3, <1>4, <1>5 DEF a, b

\* VerifyStream: whatever was done to a log, at most one log passes against an
\* anchor.  By induction from the head down, as the hash of each record
\* decides its fields and its predecessor's hash.
THEOREM AnchorNamesOneLog ==
  ASSUME NEW F, NEW A \in Seq(Loggable(F)), NEW B \in Seq(Loggable(F)), NEW a,
         VerifyStream(A, a), VerifyStream(B, a)
  PROVE  A = B
<1> DEFINE N == Len(A)
           S == {k \in Nat : k < N => A[N - k].hash = B[N - k].hash}
<1>1. /\ N \in Nat /\ Len(B) = N /\ HeadHash(A) = HeadHash(B)
      /\ \A i \in 1..N : Link(A, i) /\ Link(B, i)
  BY DEF VerifyStream, Complete
<1>2. 0 \in S
  BY <1>1 DEF HeadHash
<1>3. ASSUME NEW k \in Nat, k \in S PROVE k + 1 \in S
  <2> SUFFICES ASSUME k + 1 < N PROVE A[N - (k + 1)].hash = B[N - (k + 1)].hash
    OBVIOUS
  <2>1. N - k \in 1..N /\ N - k # 1 /\ (N - k) - 1 = N - (k + 1) /\ k < N
    BY <1>1
  <2>2. A[N - k].hash = B[N - k].hash
    BY <1>3, <2>1
  <2>3. A[(N - k) - 1].hash = B[(N - k) - 1].hash
    <3> DEFINE i == N - k
    <3>1. i \in 1..Len(A) /\ i # 1 /\ A[i].hash = B[i].hash
      BY <2>1, <2>2
    <3>2. Link(A, i) /\ Link(B, i) /\ Len(A) = Len(B)
      BY <1>1, <2>1
    <3> HIDE DEF i
    <3>3. A[i - 1].hash = B[i - 1].hash
      BY <3>1, <3>2, LinkDetermined
    <3> QED
      BY <3>3 DEF i
  <2> QED
    BY <2>1, <2>3
<1>4. \A k \in Nat : k \in S
  <2> HIDE DEF S
  <2> QED
    BY <1>2, <1>3, InductiveSet
<1>5. \A i \in 1..N : A[i] = B[i]
  <2> TAKE i \in 1..N
  <2>1. N - i \in Nat /\ N - i < N /\ N - (N - i) = i
    BY <1>1
  <2>2. A[i].hash = B[i].hash
    BY <1>4, <2>1
  <2> QED
    BY <1>1, <2>2, LinkDetermined
<1> QED
  BY <1>1, <1>5

\* Fields a stored record can have, genuine or altered.
AnyFields == Fields \cup {"none", "junk"}

\* What Append logs is loggable, and so is a record altered afterwards.
LEMMA AlteredRecord ==
  /\ Records \subseteq Loggable(AnyFields)
  /\ \A rec \in Records : \A f \in Fields :
       /\ [rec EXCEPT !.fields = f] \in Loggable(AnyFields)
       /\ [rec EXCEPT !.fields = f, !.hash = Junk] \in Loggable(AnyFields)
<1>1. Hash \subseteq Seq(Nat \X AnyFields)
  <2> SUFFICES ASSUME NEW h \in Hash PROVE h \in Seq(Nat \X AnyFields)
    OBVIOUS
  <2>1. h \in Seq(Nat \X Fields) /\ Nat \X Fields \subseteq Nat \X AnyFields
    BY DEF Hash, AnyFields
  <2> QED
    BY <2>1, SeqMonotonic
<1>2. Junk \in Seq(Nat \X AnyFields)
  <2> DEFINE x == <<0, "junk">>
  <2>1. x \in Nat \X AnyFields
    BY DEF AnyFields
  <2> HIDE DEF x
  <2>2. <<x>> \in Seq(Nat \X AnyFields)
    BY <2>1
  <2> QED
    BY <2>2 DEF Junk, x
<1>3. Fields \cup {"none"} \subseteq AnyFields
  BY DEF AnyFields
<1>4. \A rec \in Records :
        /\ rec.seq \in Nat /\ rec.prev \in Seq(Nat \X AnyFields)
        /\ rec.hash \in Seq(Nat \X AnyFields) /\ rec.fields \in AnyFields
        /\ rec = [seq |-> rec.seq, prev |-> rec.prev, hash |-> rec.hash, fields |-> rec.fields]
  BY <1>1, <1>3 DEF Records
<1> QED
  BY <1>2, <1>3, <1>4 DEF Loggable, Records

\* Every altered log is one VerifyStream can be given.
LEMMA TamperedType ==
  ASSUME TypeOK
  PROVE  /\ log \in Seq(Loggable(AnyFields))
         /\ Tampered \subseteq Seq(Loggable(AnyFields))
<1> DEFINE L == Loggable(AnyFields)
<1>1. /\ log \in Seq(Records) /\ DOMAIN log = 1..Len(log) /\ Len(log) \in Nat
      /\ \A i \in 1..Len(log) : log[i] \in Records
  BY DEF TypeOK
<1>2. log \in Seq(L)
  BY <1>1, AlteredRecord, SeqMonotonic
<1>3. \A i \in 1..Len(log) : log[i] \in L
  BY <1>2
<1>4. \A rec \in L, i \in 1..Len(log) : [log EXCEPT ![i] = rec] \in Seq(L)
  <2> HIDE DEF L
  <2> QED
    BY <1>2, ExceptSeq
<1>5. \A n \in 0..Len(log) : SubSeq(log, 1, n) \in Seq(L)
  <2> HIDE DEF L
  <2> QED
    BY <1>1, <1>2
<1>6. \A n \in 1..Len(log) : SubSeq(log, n, Len(log)) \in Seq(L)
  <2> HIDE DEF L
  <2> QED
    BY <1>1, <1>2
<1>7. \A i \in 1..Len(log), j \in 1..Len(log) :
        [log EXCEPT ![i] = log[j], ![j] = log[i]] \in Seq(L)
  <2> SUFFICES ASSUME NEW i \in 1..Len(log), NEW j \in 1..Len(log)
               PROVE  [log EXCEPT ![i] = log[j], ![j] = log[i]] \in Seq(L)
    OBVIOUS
  <2> DEFINE half == [log EXCEPT ![i] = log[j]]
  <2> HIDE DEF L
  <2>1. half \in Seq(L) /\ Len(half) = Len(log)
    BY <1>2, <1>3, ExceptSeq
  <2> HIDE DEF half
  <2>2. [half EXCEPT ![j] = log[i]] \in Seq(L)
    BY <1>3, <2>1, ExceptSeq
  <2> QED
    BY <2>2 DEF half
<1>8. \A i \in 1..Len(log), f \in Fields :
        /\ [log EXCEPT ![i].fields = f] \in Seq(L)
        /\ [log EXCEPT ![i].fields = f, ![i].hash = Junk] \in Seq(L)
  <2> SUFFICES ASSUME NEW i \in 1..Len(log), NEW f \in Fields
               PROVE  /\ [log EXCEPT ![i].fields = f] \in Seq(L)
                      /\ [log EXCEPT ![i].fields = f, ![i].hash = Junk] \in Seq(L)
    OBVIOUS
  <2>1. /\ [log[i] EXCEPT !.fields = f] \in L
        /\ [log[i] EXCEPT !.fields = f, !.hash = Junk] \in L
    BY <1>1, AlteredRecord
  <2>2. /\ [log EXCEPT ![i].fields = f] = [log EXCEPT ![i] = [log[i] EXCEPT !.fields = f]]
        /\ [log EXCEPT ![i].fields = f, ![i].hash = Junk]
             = [log EXCEPT ![i] = [log[i] EXCEPT !.fields = f, !.hash = Junk]]
    BY <1>1
  <2> HIDE DEF L
  <2> QED
    BY <1>4, <2>1, <2>2
<1>9. \A i \in 1..Len(log) : Append(log, log[i]) \in Seq(L)
  <2> HIDE DEF L
  <2> QED
    BY <1>2, <1>3
<1>10. Tampered \subseteq Seq(L)
  <2> HIDE DEF L
  <2> SUFFICES ASSUME NEW r \in Tampered PROVE r \in Seq(L)
    OBVIOUS
  <2> DEFINE
        cut == {SubSeq(log, 1, n) : n \in 0..Len(log)}
        late == {SubSeq(log, n, Len(log)) : n \in DOMAIN log}
        replaced == {[log EXCEPT ![i] = log[j]] : i, j \in DOMAIN log}
        swapped == {[log EXCEPT ![i] = log[j], ![j] = log[i]] : i, j \in DOMAIN log}
        edited == {[log EXCEPT ![i].fields = f] : i \in DOMAIN log, f \in Fields}
        forgeries == {Forged(i, f) : i \in DOMAIN log, f \in Fields}
        repeated == {Append(log, log[i]) : i \in DOMAIN log}
  <2>1. Tampered = cut \cup late \cup replaced \cup swapped \cup edited
                       \cup forgeries \cup repeated
    BY DEF Tampered
  <2>2. CASE r \in cut
    BY <1>5, <2>2
  <2>3. CASE r \in late
    BY <1>1, <1>6, <2>3
  <2>4. CASE r \in replaced
    <3>1. PICK i \in DOMAIN log, j \in DOMAIN log : r = [log EXCEPT ![i] = log[j]]
      BY <2>4
    <3> QED
      BY <1>1, <1>3, <1>4, <3>1
  <2>5. CASE r \in swapped
    <3>1. PICK i \in DOMAIN log, j \in DOMAIN log :
            r = [log EXCEPT ![i] = log[j], ![j] = log[i]]
      BY <2>5
    <3> QED
      BY <1>1, <1>7, <3>1
  <2>6. CASE r \in edited
    <3>1. PICK i \in DOMAIN log, f \in Fields : r = [log EXCEPT ![i].fields = f]
      BY <2>6
    <3> QED
      BY <1>1, <1>8, <3>1
  <2>7. CASE r \in forgeries
    <3>1. PICK i \in DOMAIN log, f \in Fields : r = Forged(i, f)
      BY <2>7
    <3> QED
      BY <1>1, <1>8, <3>1 DEF Forged
  <2>8. CASE r \in repeated
    BY <1>1, <1>9, <2>8
  <2> HIDE DEF cut, late, replaced, swapped, edited, forgeries, repeated
  <2> QED
    BY <2>1, <2>2, <2>3, <2>4, <2>5, <2>6, <2>7, <2>8
<1> QED
  BY <1>2, <1>10

\* While the log verifies, no altered one does.
LEMMA AlteredLogFails ==
  ASSUME ChainInv
  PROVE  TamperingDetected
<1> SUFFICES ASSUME NEW records \in Tampered, VerifyStream(records, anchor)
             PROVE  records = log
  BY DEF TamperingDetected
<1>1. TypeOK /\ VerifyStream(log, anchor)
  BY DEF ChainInv, StoredLogVerifies
<1>2. log \in Seq(Loggable(AnyFields)) /\ records \in Seq(Loggable(AnyFields))
  BY <1>1, TamperedType
<1> QED
  BY <1>1, <1>2, AnchorNamesOneLog

-----------------------------------------------------------------------------
(* Replay: the log it mints verifies.                                      *)

\* Replay's n-th record, on the chain of those before it.
Extended(records, n, tuples) ==
  Append(records, Minted(n, HeadHash(records), tuples[n]))

\* c lists the chains Replay goes through, up to the m-th tuple.
Unrolled(c, m, tuples) ==
  c = [n \in 0..m |-> IF n = 0 THEN <<>> ELSE Extended(c[n - 1], n, tuples)]

\* A chain may carry on: links up to its head, whose hash is a valid one.
Linked(records) ==
  /\ records \in Seq(Records)
  /\ \A i \in 1..Len(records) : Link(records, i)
  /\ validHash(HeadHash(records))

\* The recursion of Replay is well founded.
LEMMA ReplayUnrolls ==
  ASSUME NEW tuples \in Seq(Fields)
  PROVE  \E c : Unrolled(c, Len(tuples), tuples) /\ Replay(tuples) = c[Len(tuples)]
<1> DEFINE S == {m \in Nat : \E c : Unrolled(c, m, tuples)}
<1>1. 0 \in S
  <2> DEFINE c == [n \in 0..0 |-> <<>>]
  <2>1. Unrolled(c, 0, tuples)
    BY DEF Unrolled
  <2> QED
    BY <2>1
<1>2. ASSUME NEW m \in Nat, m \in S PROVE m + 1 \in S
  <2>1. PICK c : Unrolled(c, m, tuples)
    BY <1>2
  <2>2. c = [n \in 0..m |-> IF n = 0 THEN <<>> ELSE Extended(c[n - 1], n, tuples)]
    BY <2>1 DEF Unrolled
  <2> DEFINE d == [n \in 0..(m + 1) |-> IF n <= m THEN c[n] ELSE Extended(c[m], m + 1, tuples)]
  <2>3. \A n \in 0..(m + 1) : d[n] = IF n = 0 THEN <<>> ELSE Extended(d[n - 1], n, tuples)
    <3> TAKE n \in 0..(m + 1)
    <3>1. CASE n = 0
      BY <2>2, <3>1
    <3>2. CASE n # 0 /\ n <= m
      <4>1. d[n] = c[n] /\ d[n - 1] = c[n - 1] /\ n \in 0..m
        BY <3>2
      <4>2. c[n] = Extended(c[n - 1], n, tuples)
        BY <2>2, <3>2, <4>1
      <4> HIDE DEF d
      <4> QED
        BY <3>2, <4>1, <4>2
    <3>3. CASE n = m + 1
      <4>1. d[n] = Extended(c[m], m + 1, tuples) /\ d[n - 1] = c[m] /\ n # 0
        BY <3>3
      <4> HIDE DEF d
      <4> QED
        BY <3>3, <4>1
    <3> QED
      BY <3>1, <3>2, <3>3
  <2>4. Unrolled(d, m + 1, tuples)
    <3>1. d = [n \in 0..(m + 1) |-> d[n]]
      OBVIOUS
    <3> HIDE DEF d
    <3> QED
      BY <2>3, <3>1 DEF Unrolled
  <2> QED
    BY <2>4
<1>3. \E c : Unrolled(c, Len(tuples), tuples)
  <2>1. \A m \in Nat : m \in S
    <3> HIDE DEF S
    <3> QED
      BY <1>1, <1>2, InductiveSet
  <2> QED
    BY <2>1
<1> DEFINE chain[n \in 0..Len(tuples)] ==
             IF n = 0 THEN <<>> ELSE Extended(chain[n - 1], n, tuples)
<1>4. chain = CHOOSE c : Unrolled(c, Len(tuples), tuples)
  BY DEF Unrolled
<1>5. Replay(tuples) = chain[Len(tuples)]
  BY DEF Replay, Extended
<1> QED
  BY <1>3, <1>4, <1>5

\* Replay: one record a tuple, each linked to the one before it.
LEMMA ReplayLinks ==
  ASSUME NEW tuples \in Seq(Fields)
  PROVE  Linked(Replay(tuples)) /\ Len(Replay(tuples)) = Len(tuples)
<1>1. PICK c : Unrolled(c, Len(tuples), tuples) /\ Replay(tuples) = c[Len(tuples)]
  BY ReplayUnrolls
<1> DEFINE S == {m \in Nat : m <= Len(tuples) => Linked(c[m]) /\ Len(c[m]) = m}
<1>2. \A n \in 0..Len(tuples) : c[n] = IF n = 0 THEN <<>> ELSE Extended(c[n - 1], n, tuples)
  BY <1>1 DEF Unrolled
<1>3. 0 \in S
  <2>1. c[0] = <<>>
    BY <1>2
  <2>2. validHash(genesis)
    BY DEF validHash, genesis, Junk
  <2>3. HeadHash(<<>>) = genesis /\ <<>> \in Seq(Records) /\ Len(<<>>) = 0
    BY DEF HeadHash
  <2>4. Linked(c[0]) /\ Len(c[0]) = 0
    BY <2>1, <2>2, <2>3 DEF Linked
  <2> QED
    BY <2>4
<1>4. ASSUME NEW m \in Nat, m \in S PROVE m + 1 \in S
  <2> SUFFICES ASSUME m + 1 <= Len(tuples)
               PROVE  Linked(c[m + 1]) /\ Len(c[m + 1]) = m + 1
    OBVIOUS
  <2> DEFINE r == c[m]
             rec == Minted(m + 1, HeadHash(r), tuples[m + 1])
  <2>1. Linked(r) /\ Len(r) = m
    BY <1>4
  <2>2. tuples[m + 1] \in Fields
    OBVIOUS
  <2>3. c[m + 1] = Append(r, rec)
    <3>1. m + 1 \in 0..Len(tuples) /\ m + 1 # 0 /\ (m + 1) - 1 = m
      OBVIOUS
    <3>2. c[m + 1] = Extended(c[m], m + 1, tuples)
      BY <1>2, <3>1
    <3> QED
      BY <3>2, Zenon DEF Extended
  <2>4. r \in Seq(Records) /\ validHash(HeadHash(r)) /\ \A i \in 1..Len(r) : Link(r, i)
    BY <2>1 DEF Linked
  <2>5. rec = Minted(Len(r) + 1, HeadHash(r), tuples[m + 1])
    BY <2>1
  <2> HIDE DEF r, rec
  <2>6. rec \in Records /\ Link(Append(r, rec), Len(r) + 1) /\ validHash(rec.hash)
    BY <2>2, <2>4, <2>5, MintedLinks
  <2>7. \A i \in 1..Len(r) : Link(Append(r, rec), i)
    BY <2>4, <2>6, LinksKept
  <2>8. /\ Append(r, rec) \in Seq(Records) /\ Len(Append(r, rec)) = m + 1
        /\ HeadHash(Append(r, rec)) = rec.hash
    BY <2>1, <2>4, <2>6, HeadOfLog
  <2>9. \A i \in 1..(m + 1) : Link(Append(r, rec), i)
    BY <2>1, <2>6, <2>7
  <2> QED
    BY <2>3, <2>6, <2>8, <2>9 DEF Linked
<1>5. \A m \in Nat : m \in S
  <2> HIDE DEF S
  <2> QED
    BY <1>3, <1>4, InductiveSet
<1>6. Len(tuples) \in S /\ Len(tuples) \in Nat
  BY <1>5
<1> QED
  BY <1>1, <1>6

\* A product that converts an older log starts from one that verifies.
LEMMA ConvertStep ==
  ASSUME StoreInv, unsure \/ ChainInv, Convert
  PROVE  StoreInv' /\ (unsure \/ ChainInv)'
<1>1. PICK tuples \in SeqOf(Fields, MaxLog - 1) :
        tuples # <<>> /\ log' = Replay(tuples) /\ anchor' = AnchorOf(Last(Replay(tuples)))
  BY DEF Convert
<1> DEFINE r == Replay(tuples)
<1>2. tuples \in Seq(Fields) /\ Len(tuples) \in 1..(MaxLog - 1)
  <2>1. PICK m \in 0..(MaxLog - 1) : tuples \in [1..m -> Fields]
    BY DEF SeqOf
  <2>2. m \in Nat /\ m <= MaxLog - 1
    BY ChainAssumption
  <2>3. tuples \in Seq(Fields) /\ Len(tuples) = m
    BY <2>1, <2>2
  <2> QED
    BY <1>1, <2>2, <2>3, ChainAssumption
<1>3. Linked(r) /\ Len(r) = Len(tuples)
  BY <1>2, ReplayLinks
<1>4. /\ log' = r /\ anchor' = AnchorOf(r[Len(r)])
      /\ ~up /\ log = <<>>
      /\ UNCHANGED <<up, count, head, lock, call, returned, unsure>>
  BY <1>1 DEF Convert, Last
<1> HIDE DEF r
<1>5. /\ r \in Seq(Records) /\ validHash(HeadHash(r)) /\ r # <<>>
      /\ \A i \in 1..Len(r) : Link(r, i)
      /\ Len(r) \in 1..Len(r) /\ Len(r) <= MaxLog
  <2>1. Len(r) \in 1..Len(r) /\ Len(r) <= MaxLog /\ r # <<>>
    BY <1>2, <1>3, ChainAssumption
  <2> QED
    BY <1>3, <2>1 DEF Linked
<1>6. r[Len(r)] \in Records /\ r[Len(r)].seq = Len(r)
  BY <1>5 DEF Link
<1>7. anchor' = [count |-> Len(r), hash |-> HeadHash(r)]
  BY <1>4, <1>5, <1>6 DEF AnchorOf, HeadHash
<1>8. TypeOK'
  <2>1. anchor' \in [count : Nat, hash : Hash]
    BY <1>5, <1>7, HeadOfLog
  <2> QED
    BY <1>4, <1>5, <2>1 DEF StoreInv, TypeOK
<1>9. VerifyStream(log, anchor)'
  <2>1. DOMAIN r = 1..Len(r)
    BY <1>5
  <2> QED
    BY <1>4, <1>5, <1>7, <2>1 DEF VerifyStream, Complete
<1>10. \A t \in Appenders : call[t].pc = "idle"
  BY <1>4 DEF StoreInv, DownIsIdle
<1>11. StoreInv'
  BY <1>4, <1>8, <1>10 DEF StoreInv, LockHeld, Holding, DownIsIdle
<1>12. CASE ChainInv
  <2>1. returned = {}
    <3>1. DOMAIN log = {}
      BY <1>4
    <3> QED
      BY <1>12, <3>1 DEF ChainInv, ReturnedIsStored
  <2>2. ReturnedIsStored' /\ ChainMatchesStore' /\ StoredLogVerifies'
    BY <1>4, <1>9, <2>1 DEF ReturnedIsStored, ChainMatchesStore, StoredLogVerifies
  <2>3. InFlight' /\ ~unsure' /\ (Len(log) <= MaxLog)'
    BY <1>4, <1>5, <1>10, <1>12 DEF InFlight, ChainInv
  <2> QED
    BY <1>8, <1>11, <2>2, <2>3 DEF ChainInv, StoreInv
<1>13. CASE unsure
  BY <1>4, <1>11, <1>13
<1> QED
  BY <1>11, <1>12, <1>13

-----------------------------------------------------------------------------
(* AuditShip: every stored record is exported, owed, or known to be lost.  *)

\* The goroutines that have stored a record and not yet shipped it.
Owing == {t \in Appenders : due[t] # <<>> \/ call[t].pc = "stored"}

Owed(t) == IF call[t].pc = "stored" THEN call[t].rec ELSE due[t][1]

OwedRecords == {Owed(t) : t \in Owing}

ShipTypes ==
  /\ due \in [Appenders -> Seq(Records)]
  /\ shipped \in Seq(Records)
  /\ lost \in BOOLEAN

\* A goroutine ships the record of one call before it makes the next.
DueIsOne == \A t \in Appenders : due[t] # <<>> => Len(due[t]) = 1 /\ call[t].pc = "idle"

\* The export and what is owed to it make up the log, each record once.
Balanced ==
  /\ IsFiniteSet(Owing)
  /\ Len(log) = Len(shipped) + Cardinality(Owing)
  /\ ToSet(log) = ToSet(shipped) \cup OwedRecords

ShipInv ==
  /\ StoreInv /\ (unsure \/ ChainInv)
  /\ ShipTypes /\ DueIsOne
  /\ unsure => lost
  /\ ~lost => Balanced

\* Appending to a sequence adds the record to its set.
LEMMA ToSetAppend ==
  ASSUME NEW s \in Seq(Records), NEW rec \in Records
  PROVE  ToSet(Append(s, rec)) = ToSet(s) \cup {rec}
<1>1. DOMAIN s = 1..Len(s) /\ DOMAIN Append(s, rec) = 1..(Len(s) + 1)
  OBVIOUS
<1>2. \A i \in 1..Len(s) : Append(s, rec)[i] = s[i]
  OBVIOUS
<1>3. Append(s, rec)[Len(s) + 1] = rec
  OBVIOUS
<1>4. ASSUME NEW x \in ToSet(Append(s, rec)) PROVE x \in ToSet(s) \cup {rec}
  <2>1. PICK i \in 1..(Len(s) + 1) : x = Append(s, rec)[i]
    BY <1>1, <1>4 DEF ToSet
  <2> QED
    BY <1>1, <1>2, <1>3, <2>1 DEF ToSet
<1>5. ASSUME NEW x \in ToSet(s) PROVE x \in ToSet(Append(s, rec))
  <2>1. PICK i \in 1..Len(s) : x = s[i]
    BY <1>1, <1>5 DEF ToSet
  <2>2. i \in 1..(Len(s) + 1) /\ x = Append(s, rec)[i]
    BY <1>2, <2>1
  <2> QED
    BY <1>1, <2>2 DEF ToSet
<1>6. rec \in ToSet(Append(s, rec))
  <2>1. Len(s) + 1 \in 1..(Len(s) + 1)
    OBVIOUS
  <2> QED
    BY <1>1, <1>3, <2>1 DEF ToSet
<1> QED
  BY <1>4, <1>5, <1>6

\* A step that owes the export the same records keeps the balance.
LEMMA SameDebts ==
  ASSUME Balanced, UNCHANGED <<log, shipped>>, Owing' = Owing,
         \A t \in Owing : Owed(t)' = Owed(t)
  PROVE  Balanced'
<1>1. OwedRecords' = OwedRecords
  BY DEF OwedRecords
<1> QED
  BY <1>1 DEF Balanced

\* What a goroutine does before its record is stored, and when its store
\* fails, leaves the balance alone.
LEMMA NothingStored ==
  ASSUME TypeOK, Balanced, NEW t \in Appenders, due[t] = <<>>, UNCHANGED <<due, shipped>>,
         (\E fields \in Fields : Start(t, fields)) \/ GiveUp(t) \/ Acquire(t) \/ PersistFails(t)
  PROVE  Balanced'
<1>1. PICK c : call' = [call EXCEPT ![t] = c] /\ c.pc # "stored"
  <2>1. ASSUME NEW fields \in Fields, Start(t, fields)
        PROVE  \E c : call' = [call EXCEPT ![t] = c] /\ c.pc # "stored"
    <3> DEFINE d == [pc |-> "wait", rec |-> [NoRecord EXCEPT !.fields = fields]]
    <3>1. call' = [call EXCEPT ![t] = d] /\ d.pc # "stored"
      BY <2>1 DEF Start
    <3> HIDE DEF d
    <3> QED
      BY <3>1
  <2>2. ASSUME GiveUp(t) \/ PersistFails(t)
        PROVE  \E c : call' = [call EXCEPT ![t] = c] /\ c.pc # "stored"
    BY <2>2 DEF GiveUp, PersistFails, NoCall
  <2>3. ASSUME Acquire(t)
        PROVE  \E c : call' = [call EXCEPT ![t] = c] /\ c.pc # "stored"
    <3> DEFINE d == [pc |-> "persist",
                     rec |-> Minted((count + 1) % (MaxUint64 + 1), head, call[t].rec.fields)]
    <3>1. call' = [call EXCEPT ![t] = d] /\ d.pc # "stored"
      BY <2>3 DEF Acquire
    <3> HIDE DEF d
    <3> QED
      BY <3>1
  <2> QED
    BY <2>1, <2>2, <2>3
<1>2. call[t].pc # "stored" /\ log' = log
  BY DEF Start, GiveUp, Acquire, PersistFails
<1>3. call'[t] = c /\ \A u \in Appenders : u # t => call'[u] = call[u]
  BY <1>1 DEF TypeOK
<1>4. Owing' = Owing /\ t \notin Owing
  BY <1>1, <1>2, <1>3 DEF Owing
<1>5. \A u \in Owing : Owed(u)' = Owed(u)
  BY <1>3, <1>4 DEF Owing, Owed
<1> QED
  BY <1>2, <1>4, <1>5, SameDebts

\* persist: the goroutine that stored a record owes it.
LEMMA StoredIsOwed ==
  ASSUME TypeOK, Balanced, ShipTypes, NEW t \in Appenders, due[t] = <<>>,
         UNCHANGED <<due, shipped>>, Persist(t)
  PROVE  Balanced'
<1> DEFINE rec == call[t].rec
<1>1. /\ log \in Seq(Records) /\ rec \in Records /\ Len(log) \in Nat
      /\ log' = Append(log, rec) /\ call[t].pc = "persist"
  BY DEF TypeOK, Persist
<1>2. /\ call'[t].pc = "stored" /\ call'[t].rec = rec
      /\ \A u \in Appenders : u # t => call'[u] = call[u]
  BY DEF TypeOK, Persist
<1>3. Owing' = Owing \cup {t} /\ t \notin Owing
  BY <1>1, <1>2 DEF Owing
<1>4. Owed(t)' = rec /\ \A u \in Owing : Owed(u)' = Owed(u)
  BY <1>2, <1>3 DEF Owing, Owed
<1>5. OwedRecords' = OwedRecords \cup {rec}
  <2>1. OwedRecords' = {Owed(u)' : u \in Owing \cup {t}}
    BY <1>3 DEF OwedRecords
  <2>2. ASSUME NEW x \in OwedRecords' PROVE x \in OwedRecords \cup {rec}
    <3>1. PICK u \in Owing \cup {t} : x = Owed(u)'
      BY <2>1, <2>2
    <3> QED
      BY <1>4, <3>1 DEF OwedRecords
  <2>3. ASSUME NEW x \in OwedRecords PROVE x \in OwedRecords'
    <3>1. PICK u \in Owing : x = Owed(u)
      BY <2>3 DEF OwedRecords
    <3> QED
      BY <1>4, <2>1, <3>1
  <2>4. rec \in OwedRecords'
    BY <1>4, <2>1
  <2> HIDE DEF rec
  <2> QED
    BY <2>2, <2>3, <2>4
<1> HIDE DEF rec
<1>6. ToSet(log)' = ToSet(log) \cup {rec} /\ Len(log)' = Len(log) + 1
  BY <1>1, ToSetAppend
<1>7. /\ IsFiniteSet(Owing \cup {t})
      /\ Cardinality(Owing \cup {t}) = Cardinality(Owing) + 1
  BY <1>3, FS_AddElement DEF Balanced
<1>8. Cardinality(Owing) \in Nat
  BY FS_CardinalityType DEF Balanced
<1>9. ToSet(log)' = ToSet(shipped)' \cup OwedRecords'
  BY <1>5, <1>6 DEF Balanced
<1>10. (Len(log) = Len(shipped) + Cardinality(Owing))'
  <2>1. Len(log)' = Len(shipped) + Cardinality(Owing) + 1
    BY <1>6 DEF Balanced
  <2>2. Len(shipped) \in Nat /\ Len(shipped)' = Len(shipped)
    BY DEF ShipTypes
  <2>3. Cardinality(Owing)' = Cardinality(Owing) + 1
    BY <1>3, <1>7
  <2> QED
    BY <1>8, <2>1, <2>2, <2>3
<1> QED
  BY <1>3, <1>7, <1>9, <1>10 DEF Balanced

\* Append returns the record: its goroutine owes it still.
LEMMA ReturnedIsOwed ==
  ASSUME TypeOK, Balanced, ShipTypes, NEW t \in Appenders, AdvanceAndShip(t)
  PROVE  Balanced'
<1>1. /\ call[t].pc = "stored" /\ call' = [call EXCEPT ![t] = NoCall]
      /\ due' = [due EXCEPT ![t] = <<call[t].rec>>]
      /\ UNCHANGED <<log, shipped>>
  BY DEF AdvanceAndShip, Advance
<1>2. /\ call'[t].pc = "idle" /\ due'[t] = <<call[t].rec>>
      /\ \A u \in Appenders : u # t => call'[u] = call[u] /\ due'[u] = due[u]
  BY <1>1 DEF TypeOK, ShipTypes, NoCall
<1>3. due'[t] # <<>> /\ due'[t][1] = call[t].rec
  BY <1>2
<1>4. Owing' = Owing
  BY <1>1, <1>2, <1>3 DEF Owing
<1>5. \A u \in Owing : Owed(u)' = Owed(u)
  BY <1>1, <1>2, <1>3 DEF Owing, Owed
<1> QED
  BY <1>1, <1>4, <1>5, SameDebts

\* Audit: the record becomes a line, and is owed no longer.
LEMMA AuditSettles ==
  ASSUME TypeOK, Balanced, ShipTypes, DueIsOne, NEW t \in Appenders, Audit(t)
  PROVE  Balanced'
<1> DEFINE rec == due[t][1]
<1>1. /\ due[t] # <<>> /\ due' = [due EXCEPT ![t] = <<>>]
      /\ shipped' = shipped \o due[t]
      /\ call' = call /\ log' = log
  BY DEF Audit, vars
<1>2. /\ shipped \in Seq(Records) /\ due[t] \in Seq(Records)
      /\ Len(due[t]) = 1 /\ call[t].pc = "idle" /\ rec \in Records
  BY <1>1 DEF ShipTypes, DueIsOne
<1>3. due[t] = <<rec>>
  BY <1>2
<1>4. shipped' = Append(shipped, rec)
  <2> HIDE DEF rec
  <2> QED
    BY <1>1, <1>2, <1>3
<1>5. due'[t] = <<>> /\ \A u \in Appenders : u # t => due'[u] = due[u]
  BY <1>1 DEF ShipTypes
<1>6. Owing' = Owing \ {t} /\ t \in Owing
  BY <1>1, <1>2, <1>5 DEF Owing
<1>7. Owed(t) = rec /\ \A u \in Owing \ {t} : Owed(u)' = Owed(u)
  BY <1>1, <1>2, <1>5 DEF Owing, Owed
<1>8. OwedRecords = OwedRecords' \cup {rec}
  <2>1. OwedRecords' = {Owed(u)' : u \in Owing \ {t}}
    BY <1>6 DEF OwedRecords
  <2>2. ASSUME NEW x \in OwedRecords PROVE x \in OwedRecords' \cup {rec}
    <3>1. PICK u \in Owing : x = Owed(u)
      BY <2>2 DEF OwedRecords
    <3> QED
      BY <1>7, <2>1, <3>1
  <2>3. ASSUME NEW x \in OwedRecords' PROVE x \in OwedRecords
    <3>1. PICK u \in Owing \ {t} : x = Owed(u)'
      BY <2>1, <2>3
    <3> QED
      BY <1>7, <3>1 DEF OwedRecords
  <2>4. rec \in OwedRecords
    BY <1>6, <1>7 DEF OwedRecords
  <2> HIDE DEF rec
  <2> QED
    BY <2>2, <2>3, <2>4
<1> HIDE DEF rec
<1>9. /\ ToSet(shipped)' = ToSet(shipped) \cup {rec} /\ Len(shipped)' = Len(shipped) + 1
      /\ Len(shipped) \in Nat
  BY <1>2, <1>4, ToSetAppend
<1>10. /\ IsFiniteSet(Owing \ {t})
       /\ Cardinality(Owing \ {t}) = Cardinality(Owing) - 1
       /\ Cardinality(Owing) \in Nat
  BY <1>6, FS_RemoveElement, FS_CardinalityType DEF Balanced
<1>11. ToSet(log)' = ToSet(shipped)' \cup OwedRecords'
  <2>1. ToSet(log) = ToSet(shipped) \cup OwedRecords /\ ToSet(log)' = ToSet(log)
    BY <1>1 DEF Balanced
  <2> QED
    BY <1>8, <1>9, <2>1
<1>12. (Len(log) = Len(shipped) + Cardinality(Owing))'
  <2>1. Len(log)' = Len(shipped) + Cardinality(Owing)
    BY <1>1 DEF Balanced
  <2>2. Cardinality(Owing)' = Cardinality(Owing) - 1
    BY <1>6, <1>10
  <2> QED
    BY <1>9, <1>10, <2>1, <2>2
<1> QED
  BY <1>6, <1>10, <1>11, <1>12 DEF Balanced

\* A crash with nothing owed leaves nothing owed.
LEMMA CrashOwesNothing ==
  ASSUME Balanced, CrashAndLose, ~lost'
  PROVE  Balanced'
<1>1. Owing = {}
  BY DEF CrashAndLose, Owing
<1>2. Owing' = {}
  BY DEF CrashAndLose, Crash, Owing, NoCall
<1>3. log' = log /\ shipped' = shipped
  BY DEF CrashAndLose, Crash
<1> QED
  BY <1>1, <1>2, <1>3, SameDebts

\* Seen by the chain, whatever ships the records is one of its own steps, or the
\* conversion of an older log.
LEMMA ShipIsChain == [ShipNext]_<<vars, shipVars>> => [Next]_vars \/ Convert
BY DEF ShipNext, Next, AppendStep, CrashAndLose, AdvanceAndShip, UnsureAndLose, Audit,
       AuditFails

\* The types of the export, and one record due at a time.
LEMMA ShipTypesStep ==
  ASSUME StoreInv, ShipTypes, DueIsOne, ShipNext
  PROVE  ShipTypes' /\ DueIsOne'
<1>1. /\ due \in [Appenders -> Seq(Records)] /\ shipped \in Seq(Records)
      /\ lost \in BOOLEAN /\ TypeOK
  BY DEF ShipTypes, StoreInv
<1>2. CASE (New \/ Resume) /\ UNCHANGED shipVars
  BY <1>1, <1>2 DEF ShipTypes, DueIsOne, shipVars, New, Resume
<1>3. CASE Convert
  BY <1>1, <1>3 DEF ShipTypes, DueIsOne, Convert
<1>4. CASE CrashAndLose
  <2>1. due' = [t \in Appenders |-> <<>>] /\ shipped' = shipped /\ lost' \in BOOLEAN
    BY <1>1, <1>4 DEF CrashAndLose
  <2> QED
    BY <1>1, <2>1 DEF ShipTypes, DueIsOne
<1>5. ASSUME NEW t \in Appenders, due[t] = <<>>, AppendStep(t), UNCHANGED shipVars
      PROVE  ShipTypes' /\ DueIsOne'
  <2>1. \A u \in Appenders : u # t => call'[u] = call[u]
    BY <1>1, <1>5 DEF TypeOK, AppendStep, Start, GiveUp, Acquire, Persist, PersistFails
  <2> QED
    BY <1>1, <1>5, <2>1 DEF ShipTypes, DueIsOne, shipVars
<1>6. ASSUME NEW t \in Appenders, AdvanceAndShip(t) PROVE ShipTypes' /\ DueIsOne'
  <2>1. /\ due' = [due EXCEPT ![t] = <<call[t].rec>>] /\ shipped' = shipped /\ lost' = lost
        /\ call' = [call EXCEPT ![t] = NoCall]
    BY <1>6 DEF AdvanceAndShip, Advance
  <2>2. call[t].rec \in Records
    BY <1>1 DEF TypeOK
  <2>3. <<call[t].rec>> \in Seq(Records) /\ Len(<<call[t].rec>>) = 1
    BY <2>2
  <2>4. /\ call'[t].pc = "idle"
        /\ \A u \in Appenders : u # t => call'[u] = call[u] /\ due'[u] = due[u]
    BY <1>1, <2>1 DEF TypeOK, NoCall
  <2>5. due' \in [Appenders -> Seq(Records)] /\ due'[t] = <<call[t].rec>>
    BY <1>1, <2>1, <2>3
  <2>6. DueIsOne'
    BY <2>3, <2>4, <2>5 DEF DueIsOne
  <2> QED
    BY <1>1, <2>1, <2>5, <2>6 DEF ShipTypes
<1>7. ASSUME NEW t \in Appenders, Audit(t) \/ AuditFails(t) PROVE ShipTypes' /\ DueIsOne'
  <2>1. /\ due' = [due EXCEPT ![t] = <<>>] /\ call' = call
        /\ shipped' = shipped \o due[t] \/ shipped' = shipped
        /\ lost' = lost \/ lost' = TRUE
    BY <1>7 DEF Audit, AuditFails, vars
  <2>2. due' \in [Appenders -> Seq(Records)] /\ shipped' \in Seq(Records) /\ lost' \in BOOLEAN
    <3>1. due[t] \in Seq(Records) /\ <<>> \in Seq(Records)
      BY <1>1
    <3>2. due' \in [Appenders -> Seq(Records)]
      BY <1>1, <2>1, <3>1
    <3>3. shipped' \in Seq(Records)
      <4>1. shipped \o due[t] \in Seq(Records)
        BY <1>1, <3>1
      <4> QED
        BY <1>1, <2>1, <4>1
    <3>4. lost' \in BOOLEAN
      BY <1>1, <2>1
    <3> QED
      BY <3>2, <3>3, <3>4
  <2>3. DueIsOne'
    BY <1>1, <2>1 DEF DueIsOne
  <2> QED
    BY <2>2, <2>3 DEF ShipTypes
<1>8. ASSUME NEW t \in Appenders, UnsureAndLose(t) PROVE ShipTypes' /\ DueIsOne'
  <2>1. call[t].pc = "stored" /\ due' = due /\ shipped' = shipped /\ lost' = TRUE
    BY <1>8 DEF UnsureAndLose, PersistUnsure
  <2>2. \A u \in Appenders : u # t => call'[u] = call[u]
    BY <1>1, <1>8 DEF TypeOK, UnsureAndLose, PersistUnsure
  <2> QED
    BY <1>1, <2>1, <2>2 DEF ShipTypes, DueIsOne
<1> QED
  BY <1>2, <1>3, <1>4, <1>5, <1>6, <1>7, <1>8 DEF ShipNext

\* A loss stays known, and a persist that misreports is one.
LEMMA LossIsKnown ==
  ASSUME ShipTypes, unsure => lost, ShipNext
  PROVE  (lost => lost') /\ (unsure' => lost')
<1>1. lost \in BOOLEAN
  BY DEF ShipTypes
<1>2. CASE (New \/ Resume) /\ UNCHANGED shipVars
  BY <1>1, <1>2 DEF shipVars, New, Resume
<1>3. CASE Convert
  BY <1>3 DEF Convert
<1>4. CASE CrashAndLose
  BY <1>1, <1>4 DEF CrashAndLose, Crash
<1>5. ASSUME NEW t \in Appenders, AppendStep(t), UNCHANGED shipVars
      PROVE  (lost => lost') /\ (unsure' => lost')
  BY <1>1, <1>5 DEF AppendStep, Start, GiveUp, Acquire, Persist, PersistFails, shipVars
<1>6. ASSUME NEW t \in Appenders,
             AdvanceAndShip(t) \/ UnsureAndLose(t) \/ Audit(t) \/ AuditFails(t)
      PROVE  (lost => lost') /\ (unsure' => lost')
  BY <1>1, <1>6 DEF AdvanceAndShip, Advance, UnsureAndLose, Audit, AuditFails, vars
<1> QED
  BY <1>2, <1>3, <1>4, <1>5, <1>6 DEF ShipNext

\* Every step that loses nothing keeps the export and the log in balance.
LEMMA BalanceStep ==
  ASSUME ShipInv, ShipNext, ~lost'
  PROVE  Balanced'
<1>1. TypeOK /\ StoreInv /\ ShipTypes /\ DueIsOne /\ Balanced
  <2>1. ~lost
    BY LossIsKnown DEF ShipInv
  <2> QED
    BY <2>1 DEF ShipInv, StoreInv
<1>2. CASE (New \/ Resume) /\ UNCHANGED shipVars
  <2>1. UNCHANGED <<log, shipped, due, call>>
    BY <1>2 DEF New, Resume, shipVars
  <2>2. Owing' = Owing /\ \A t \in Owing : Owed(t)' = Owed(t)
    BY <2>1 DEF Owing, Owed
  <2> QED
    BY <1>1, <2>1, <2>2, SameDebts
<1>3. CASE CrashAndLose
  BY <1>1, <1>3, CrashOwesNothing
<1>4. ASSUME NEW t \in Appenders, due[t] = <<>>, AppendStep(t), UNCHANGED shipVars
      PROVE  Balanced'
  BY <1>1, <1>4, NothingStored, StoredIsOwed DEF AppendStep, shipVars
<1>5. ASSUME NEW t \in Appenders, AdvanceAndShip(t) \/ Audit(t) PROVE Balanced'
  BY <1>1, <1>5, ReturnedIsOwed, AuditSettles
<1>6. ~Convert /\ \A t \in Appenders : ~UnsureAndLose(t) /\ ~AuditFails(t)
  BY DEF Convert, UnsureAndLose, AuditFails
<1> QED
  BY <1>2, <1>3, <1>4, <1>5, <1>6 DEF ShipNext

\* ShipInv holds in every reachable state.
LEMMA ShipInvariant == ShipSpec => []ShipInv
<1>1. ShipInit => ShipInv
  <2> SUFFICES ASSUME ShipInit PROVE ShipInv
    OBVIOUS
  <2>1. StoreInv /\ ChainInv
    BY ChainInductive, StoreInductive DEF ShipInit
  <2>2. /\ due = [t \in Appenders |-> <<>>] /\ shipped = <<>> /\ log = <<>>
        /\ lost = FALSE /\ unsure = FALSE
        /\ \A t \in Appenders : call[t].pc = "idle"
    BY DEF ShipInit, Init, NoCall
  <2>3. ShipTypes /\ DueIsOne
    <3>1. <<>> \in Seq(Records)
      OBVIOUS
    <3>2. ShipTypes
      BY <2>2, <3>1 DEF ShipTypes
    <3> QED
      BY <2>2, <3>2 DEF DueIsOne
  <2>4. Balanced
    <3>1. Owing = {}
      BY <2>2 DEF Owing
    <3>2. OwedRecords = {}
      BY <3>1 DEF OwedRecords
    <3>3. ToSet(<<>>) = {} /\ Len(<<>>) = 0
      BY DEF ToSet
    <3> QED
      BY <2>2, <3>1, <3>2, <3>3, FS_EmptySet DEF Balanced
  <2> QED
    BY <2>1, <2>2, <2>3, <2>4 DEF ShipInv
<1>2. ShipInv /\ [ShipNext]_<<vars, shipVars>> => ShipInv'
  <2> SUFFICES ASSUME ShipInv, [ShipNext]_<<vars, shipVars>> PROVE ShipInv'
    OBVIOUS
  <2>1. StoreInv' /\ (unsure \/ ChainInv)'
    <3>1. CASE [Next]_vars
      BY <3>1, ChainInductive, StoreInductive DEF ShipInv
    <3>2. CASE Convert
      BY <3>2, ConvertStep DEF ShipInv
    <3> QED
      BY <3>1, <3>2, ShipIsChain
  <2>2. CASE ShipNext
    <3>1. ShipTypes' /\ DueIsOne' /\ (unsure' => lost')
      BY <2>2, ShipTypesStep, LossIsKnown DEF ShipInv
    <3>2. ~lost' => Balanced'
      BY <2>2, BalanceStep
    <3> QED
      BY <2>1, <3>1, <3>2 DEF ShipInv
  <2>3. CASE UNCHANGED <<vars, shipVars>>
    <3>1. UNCHANGED <<log, shipped, due, call, lost, unsure>>
      BY <2>3 DEF vars, shipVars
    <3>2. ShipTypes' /\ DueIsOne' /\ (unsure' => lost')
      BY <3>1 DEF ShipInv, ShipTypes, DueIsOne
    <3>3. Owing' = Owing /\ \A t \in Owing : Owed(t)' = Owed(t)
      BY <3>1 DEF Owing, Owed
    <3>4. ~lost' => Balanced'
      BY <3>1, <3>3, SameDebts DEF ShipInv
    <3> QED
      BY <2>1, <3>2, <3>4 DEF ShipInv
  <2> QED
    BY <2>2, <2>3
<1> QED
  BY <1>1, <1>2, PTL DEF ShipSpec

\* With any number of goroutines, failing stores, failing writes, crashes and a
\* converted log: what Append returned is stored, the chain in memory is the
\* stored one, and once nothing is under way every stored record has reached
\* the export exactly once unless a loss was reported.
THEOREM RecordsAlwaysKept == ShipSpec => []RecordsKept
<1>1. ShipInv => RecordsKept
  <2> SUFFICES ASSUME ShipInv PROVE RecordsKept
    OBVIOUS
  <2>1. TypeOK /\ ReturnedIsStored /\ ChainMatchesStore
    BY DEF ShipInv, StoreInv, ChainInv, ReturnedIsStored, ChainMatchesStore
  <2>2. ASSUME Quiescent, ~lost PROVE Len(shipped) = Len(log) /\ ToSet(shipped) = ToSet(log)
    <3>1. Owing = {} /\ Balanced
      BY <2>2 DEF Quiescent, Owing, ShipInv
    <3>2. OwedRecords = {}
      BY <3>1 DEF OwedRecords
    <3>3. Len(log) = Len(shipped) + 0 /\ Len(shipped) \in Nat
      BY <3>1, FS_EmptySet DEF Balanced, ShipInv, ShipTypes
    <3> QED
      BY <3>1, <3>2, <3>3 DEF Balanced
  <2> QED
    BY <2>1, <2>2 DEF RecordsKept, ExportComplete
<1> QED
  BY <1>1, ShipInvariant, PTL

\* VerifyStream accepts the stored log and detects tampering in every state that
\* appends, failed stores, crashes, resumes and conversions of an older log can
\* leave: no altered log passes against the anchor of the true one.
THEOREM TamperingAlwaysDetected == ShipSpec => [](StoredLogVerifies /\ TamperingDetected)
<1>1. ShipInv => StoredLogVerifies /\ TamperingDetected
  BY AlteredLogFails DEF ShipInv, ChainInv, StoredLogVerifies, TamperingDetected
<1> QED
  BY <1>1, ShipInvariant, PTL
=============================================================================

---------------------------- MODULE ServiceProofs ----------------------------
(***************************************************************************)
(* Proofs about three services a product mounts side by side, each for any *)
(* value of its constants.                                                 *)
(*                                                                         *)
(* KeyFile, for any number of processes and keys.  What carries the proofs *)
(* is the order in write: the file is synced before it is linked           *)
(* (LinkedWhole), the link is never undone or replaced while its writer    *)
(* waits to sync the directory (WriterOwnsName), what is durable is what   *)
(* is at the path (DurableIsThere), and nothing is stored outside a        *)
(* directory (InFolder).                                                   *)
(*                                                                         *)
(* SyncAuth, for any number of goroutines and event IDs, any window, any   *)
(* capacity of the guard, any skew, and a clock set back at any time.      *)
(* WindowRemembered is not inductive: the guard forgets an ID by the       *)
(* timestamp it holds for it, so that timestamp must be no earlier than    *)
(* any accepted one that has stayed in the window (Outlives).              *)
(*                                                                         *)
(* Health, for any number of clients and checks and any deadline shorter   *)
(* than the cache's life.  That busy is the truth about its goroutine is   *)
(* inductive as it stands.  That nobody waits through one evaluation to    *)
(* start another needs the bound between the two constants: an evaluation  *)
(* is over before what it cached expires (MissedServed).                   *)
(***************************************************************************)
EXTENDS KeyFile, SyncAuth, Health, SequenceTheorems, TLAPS

----------------------------------------------------------------------------
\* KeyFile

\* A call that has a temporary file has a key to put into it, and links it
\* only once it was synced.
LinkedWhole ==
  /\ entry.synced
  /\ \A p \in Procs :
       /\ call[p].pc \in {"write", "link", "syncdir"} => call[p].key \in Keys
       /\ call[p].pc = "mkdir" /\ call[p].op = "Store" => call[p].key \in Keys
       /\ call[p].pc \in {"link", "syncdir"} => call[p].synced

\* The writer that linked its file still has it at the path.
WriterOwnsName ==
  \A p \in Procs : call[p].pc = "syncdir" => entry.key = call[p].key

DurableIsThere == durable \in {None, entry.key}

\* A file, and the call that writes one, has its directory.
InFolder ==
  /\ entry.key # None => folder # "absent"
  /\ \A p \in Procs : call[p].pc \in {"create", "write", "link", "syncdir"} => folder # "absent"

\* What callers were told, stored or returned, is what is there.
ToldIsThere ==
  /\ \A k \in created : durable = k /\ folder = "kept"
  /\ \A k \in returned : entry.key = k

KeyFileInv ==
  /\ TypeOK /\ NoTornKey /\ LinkedWhole /\ WriterOwnsName /\ DurableIsThere
  /\ InFolder /\ ToldIsThere

\* One call's steps: everything but power loss.
Step(p) ==
  \/ \E op \in {"LoadOrCreate", "Load"} : Begin(p, op)
  \/ \E key \in Keys : Store(p, key) \/ Create(p, key)
  \/ Read(p) \/ NotFound(p) \/ MkdirAll(p) \/ WriteAndSync(p) \/ WriteFails(p)
  \/ Link(p) \/ Lost(p) \/ SyncDir(p) \/ SyncDirFails(p) \/ Crash(p)

\* Every step of a process keeps the types.
LEMMA StepType ==
  ASSUME TypeOK, LinkedWhole, NEW p \in Procs, Step(p)
  PROVE  TypeOK'
<1> DEFINE Calls == [pc : {"idle", "read", "reread", "mkdir", "create", "write", "link",
                           "syncdir"},
                     op : {"LoadOrCreate", "Load", "Store", None},
                     key : Keys \cup {None}, synced : BOOLEAN]
<1>c. call \in [Procs -> Calls] /\ NoCall \in Calls
  BY DEF TypeOK, NoCall
<1>d. Done(p) => call' \in [Procs -> Calls]
  BY <1>c DEF Done
<1>g. ASSUME NEW to \in {"link", "reread", "syncdir", "mkdir", "create", "write"}
      PROVE  Goto(p, to) => call' \in [Procs -> Calls]
  BY <1>c DEF Goto
<1> USE DEF TypeOK, Contents
<1>1. ASSUME NEW op \in {"LoadOrCreate", "Load"}, Begin(p, op) PROVE TypeOK'
  <2>1. call' = [call EXCEPT ![p] = [call[p] EXCEPT !.pc = "read", !.op = op]]
    BY <1>1, <1>c DEF Begin
  <2>2. [call[p] EXCEPT !.pc = "read", !.op = op] \in Calls
    BY <1>c
  <2>3. call' \in [Procs -> Calls]
    BY <2>1, <2>2, <1>c
  <2> QED
    BY <1>1, <2>3 DEF Begin
<1>2. ASSUME NEW key \in Keys, Store(p, key) PROVE TypeOK'
  <2>1. call' = [call EXCEPT ![p] = [call[p] EXCEPT !.pc = "mkdir", !.op = "Store", !.key = key]]
    BY <1>2, <1>c DEF Store
  <2>2. [call[p] EXCEPT !.pc = "mkdir", !.op = "Store", !.key = key] \in Calls
    BY <1>c
  <2>3. call' \in [Procs -> Calls]
    BY <2>1, <2>2, <1>c
  <2> QED
    BY <1>2, <2>3 DEF Store
<1>3. ASSUME NEW key \in Keys, Create(p, key) PROVE TypeOK'
  <2>1. call' = [call EXCEPT ![p] = [call[p] EXCEPT !.pc = "write", !.key = key]]
    BY <1>3, <1>c DEF Create
  <2>2. [call[p] EXCEPT !.pc = "write", !.key = key] \in Calls
    BY <1>c
  <2>3. call' \in [Procs -> Calls]
    BY <2>1, <2>2, <1>c
  <2> QED
    BY <1>3, <2>3 DEF Create
<1>4. CASE Read(p)
  <2>1. returned' \subseteq Keys /\ Done(p) /\ UNCHANGED <<entry, durable, minted, created>>
    BY <1>4 DEF Read
  <2> QED
    BY <1>4, <2>1, <1>d DEF Read
<1>5. CASE NotFound(p) \/ WriteFails(p) \/ SyncDirFails(p) \/ Crash(p)
  BY <1>5, <1>d, <1>g DEF NotFound, WriteFails, SyncDirFails, Crash
<1>10. CASE MkdirAll(p)
  <2>1. call' \in [Procs -> Calls]
    BY <1>10, <1>g DEF MkdirAll
  <2> QED
    BY <1>10, <2>1 DEF MkdirAll
<1>6. CASE WriteAndSync(p)
  <2>1. call' = [call EXCEPT ![p] = [call[p] EXCEPT !.pc = "link", !.synced = TRUE]]
    BY <1>6, <1>c DEF WriteAndSync
  <2>2. [call[p] EXCEPT !.pc = "link", !.synced = TRUE] \in Calls
    BY <1>c
  <2>3. call' \in [Procs -> Calls]
    BY <2>1, <2>2, <1>c
  <2> QED
    BY <1>6, <2>3 DEF WriteAndSync
<1>7. CASE Link(p)
  <2>1. call[p].key \in Contents /\ call[p].synced \in BOOLEAN
    OBVIOUS
  <2>2. entry' \in [key : Contents, synced : BOOLEAN]
    BY <1>7, <2>1 DEF Link
  <2>3. call' \in [Procs -> Calls]
    BY <1>7, <1>g DEF Link
  <2> QED
    BY <1>7, <2>2, <2>3 DEF Link
<1>8. CASE Lost(p)
  BY <1>8, <1>d, <1>g DEF Lost
<1>9. CASE SyncDir(p)
  <2>1. call[p].key \in Keys
    BY <1>9 DEF SyncDir, LinkedWhole
  <2> QED
    BY <1>9, <1>d, <2>1 DEF SyncDir
<1> QED
  BY <1>1, <1>2, <1>3, <1>4, <1>5, <1>6, <1>7, <1>8, <1>9, <1>10 DEF Step

\* Every step of a process keeps the file's content ahead of its name.
LEMMA StepWhole ==
  ASSUME TypeOK, LinkedWhole, NEW p \in Procs, Step(p)
  PROVE  LinkedWhole'
<1> USE DEF TypeOK, LinkedWhole, Goto, Done, NoCall
<1>1. ASSUME NEW op \in {"LoadOrCreate", "Load"}, Begin(p, op) PROVE LinkedWhole'
  BY <1>1 DEF Begin
<1>2. ASSUME NEW key \in Keys, Store(p, key) PROVE LinkedWhole'
  BY <1>2 DEF Store
<1>3. ASSUME NEW key \in Keys, Create(p, key) PROVE LinkedWhole'
  BY <1>3 DEF Create
<1>4. CASE Read(p)
  BY <1>4 DEF Read
<1>5. CASE NotFound(p) \/ WriteFails(p) \/ SyncDirFails(p) \/ Crash(p)
  BY <1>5 DEF NotFound, WriteFails, SyncDirFails, Crash
<1>10. CASE MkdirAll(p)
  BY <1>10 DEF MkdirAll
<1>6. CASE WriteAndSync(p)
  BY <1>6 DEF WriteAndSync
<1>7. CASE Link(p)
  BY <1>7 DEF Link
<1>8. CASE Lost(p)
  BY <1>8 DEF Lost
<1>9. CASE SyncDir(p)
  BY <1>9 DEF SyncDir
<1> QED
  BY <1>1, <1>2, <1>3, <1>4, <1>5, <1>6, <1>7, <1>8, <1>9, <1>10 DEF Step

\* Every step of a process keeps the writer's name: os.Link refuses one that
\* is taken, so nobody links while another waits to sync the directory.
LEMMA StepName ==
  ASSUME KeyFileInv, NEW p \in Procs, Step(p)
  PROVE  WriterOwnsName' /\ NoTornKey' /\ DurableIsThere' /\ InFolder' /\ ToldIsThere'
<1> USE DEF KeyFileInv, TypeOK, WriterOwnsName, NoTornKey, DurableIsThere, InFolder, ToldIsThere, Goto,
            Done, NoCall
<1>1. ASSUME NEW op \in {"LoadOrCreate", "Load"}, Begin(p, op)
      PROVE  WriterOwnsName' /\ NoTornKey' /\ DurableIsThere' /\ InFolder' /\ ToldIsThere'
  BY <1>1 DEF Begin
<1>2. ASSUME NEW key \in Keys, Store(p, key)
      PROVE  WriterOwnsName' /\ NoTornKey' /\ DurableIsThere' /\ InFolder' /\ ToldIsThere'
  BY <1>2 DEF Store
<1>3. ASSUME NEW key \in Keys, Create(p, key)
      PROVE  WriterOwnsName' /\ NoTornKey' /\ DurableIsThere' /\ InFolder' /\ ToldIsThere'
  BY <1>3 DEF Create
<1>4. CASE Read(p)
  BY <1>4 DEF Read
<1>5. CASE NotFound(p) \/ WriteFails(p) \/ SyncDirFails(p) \/ Crash(p)
  BY <1>5 DEF NotFound, WriteFails, SyncDirFails, Crash
<1>10. CASE MkdirAll(p)
  BY <1>10 DEF MkdirAll
<1>6. CASE WriteAndSync(p)
  BY <1>6 DEF WriteAndSync
<1>7. CASE Link(p)
  <2>1. call[p].key \in Keys
    BY <1>7 DEF Link, LinkedWhole
  <2>2. \A q \in Procs : call[q].pc # "syncdir"
    BY <1>7, KeysAssumption DEF Link, NameFree, LinkedWhole
  <2>3. durable = None /\ created = {} /\ returned = {}
    BY <1>7, KeysAssumption DEF Link, NameFree
  <2> QED
    BY <1>7, <2>1, <2>2, <2>3, KeysAssumption DEF Link
<1>8. CASE Lost(p)
  BY <1>8 DEF Lost
<1>9. CASE SyncDir(p)
  <2>1. entry.key = call[p].key /\ call[p].key \in Keys
    BY <1>9 DEF SyncDir, LinkedWhole
  <2>2. \A k \in created : k = call[p].key
    BY <2>1, KeysAssumption
  <2> QED
    BY <1>9, <2>1, <2>2 DEF SyncDir
<1> QED
  BY <1>1, <1>2, <1>3, <1>4, <1>5, <1>6, <1>7, <1>8, <1>9, <1>10 DEF Step

\* Power loss takes a name that is not durable, and never tears a file that
\* was linked, because every linked file was synced first.
LEMMA PowerLossStep ==
  ASSUME KeyFileInv, PowerLoss
  PROVE  KeyFileInv'
<1>1. entry' \in {NoFile, [key |-> entry.key, synced |-> TRUE]}
  BY DEF PowerLoss, KeyFileInv, LinkedWhole
<1>2. durable # None /\ folder = "kept" => entry'.key = entry.key
  BY DEF PowerLoss, KeyFileInv, LinkedWhole
<1>3. entry'.synced /\ entry'.key \in {None, entry.key}
  BY <1>1 DEF NoFile
<1>8. /\ folder' \in {"absent", "kept"} /\ (folder = "kept" => folder' = "kept")
      /\ folder' = "absent" => entry'.key = None
  <2>1. folder \in {"absent", "made", "kept"} /\ (folder = "absent" => entry.key = None)
    BY DEF KeyFileInv, TypeOK, InFolder
  <2>2. CASE folder = "made" /\ folder' = "absent" /\ entry' = NoFile
    BY <2>2 DEF NoFile
  <2>3. CASE folder' = IF folder = "made" THEN "kept" ELSE folder
    BY <2>1, <2>3, <1>3
  <2> QED
    BY <2>2, <2>3 DEF PowerLoss
<1>4. TypeOK' /\ NoTornKey'
  BY <1>1, <1>3, <1>8, KeysAssumption DEF PowerLoss, KeyFileInv, TypeOK, Contents, NoTornKey, NoFile, NoCall
<1>5. LinkedWhole' /\ WriterOwnsName' /\ DurableIsThere' /\ InFolder'
  BY <1>3, <1>8 DEF PowerLoss, LinkedWhole, WriterOwnsName, DurableIsThere, InFolder, NoCall
<1>6. ASSUME NEW k \in created PROVE durable' = k /\ folder' = "kept"
  <2>1. durable = k /\ k # None /\ entry.key = k /\ folder = "kept"
    BY KeysAssumption DEF KeyFileInv, TypeOK, ToldIsThere, DurableIsThere
  <2> QED
    BY <1>2, <1>8, <2>1 DEF PowerLoss
<1>7. ToldIsThere'
  BY <1>6 DEF PowerLoss, ToldIsThere
<1> QED
  BY <1>4, <1>5, <1>7 DEF KeyFileInv

\* The inductive invariant holds in every reachable state of the key file.
LEMMA KeyFileInvariant == Spec => []KeyFileInv
<1>1. Init => KeyFileInv
  <2> SUFFICES ASSUME Init PROVE KeyFileInv
    OBVIOUS
  <2>0. /\ durable = entry.key /\ call = [p \in Procs |-> NoCall]
        /\ minted = {} /\ returned = {} /\ created = {}
    BY DEF Init
  <2>f. folder \in {"absent", "kept"} /\ (folder = "absent" => entry = NoFile)
    BY DEF Init
  <2>1. /\ entry \in [key : {None, Foreign}, synced : BOOLEAN] /\ entry.synced
        /\ \A p \in Procs : call[p].pc = "idle"
    <3>1. \A p \in Procs : call[p].pc = "idle"
      BY <2>0 DEF NoCall
    <3>2. entry = NoFile \/ entry = [key |-> Foreign, synced |-> TRUE]
      BY DEF Init
    <3>3. entry.synced = TRUE /\ entry.key \in {None, Foreign}
      BY <3>2 DEF NoFile
    <3>4. entry \in [key : {None, Foreign}, synced : BOOLEAN]
      <4>1. \A k \in {None, Foreign} :
              [key |-> k, synced |-> TRUE] \in [key : {None, Foreign}, synced : BOOLEAN]
        OBVIOUS
      <4> QED
        BY <3>2, <4>1, Zenon DEF NoFile
    <3> QED
      BY <3>1, <3>3, <3>4
  <2>2. TypeOK
    BY <2>0, <2>f, <2>1 DEF TypeOK, Contents, NoCall
  <2>3. NoTornKey /\ LinkedWhole /\ WriterOwnsName /\ DurableIsThere /\ InFolder
    BY <2>0, <2>f, <2>1, KeysAssumption DEF NoTornKey, LinkedWhole, WriterOwnsName, DurableIsThere,
                                      InFolder, NoFile
  <2>4. ToldIsThere
    BY <2>0 DEF ToldIsThere
  <2> QED
    BY <2>2, <2>3, <2>4 DEF KeyFileInv
<1>2. KeyFileInv /\ [Next]_vars => KeyFileInv'
  <2> SUFFICES ASSUME KeyFileInv, [Next]_vars PROVE KeyFileInv'
    OBVIOUS
  <2>1. CASE PowerLoss
    BY <2>1, PowerLossStep
  <2>2. ASSUME NEW p \in Procs, Step(p) PROVE KeyFileInv'
    BY <2>2, StepType, StepWhole, StepName DEF KeyFileInv
  <2>3. CASE UNCHANGED vars
    BY <2>3 DEF vars, KeyFileInv, TypeOK, NoTornKey, LinkedWhole, WriterOwnsName, DurableIsThere,
                InFolder, ToldIsThere
  <2> QED
    BY <2>1, <2>2, <2>3 DEF Next, Step
<1> QED
  BY <1>1, <1>2, PTL DEF Spec

\* write: whatever crashes, fails or loses power, and however many processes
\* create and store at once, a key it reported stored in a directory that was
\* there when power came on stays at the path, whole and for good, and no torn
\* file is ever there.
THEOREM StoredStaysDurable == Spec => []StoredIsDurable
<1>1. KeyFileInv => StoredIsDurable
  <2> SUFFICES ASSUME KeyFileInv PROVE StoredIsDurable
    OBVIOUS
  <2>1. ASSUME NEW k \in created PROVE durable = k /\ entry.key = k
    BY KeysAssumption DEF KeyFileInv, TypeOK, ToldIsThere, DurableIsThere
  <2> QED
    BY <2>1 DEF StoredIsDurable, KeyFileInv
<1> QED
  BY <1>1, KeyFileInvariant, PTL

-----------------------------------------------------------------------------
(* The refinement of KeyStore *)

\* Power loss of the file system is power loss of the store: an unsettled
\* value is kept or lost, a settled one stays.
LEMMA PowerLossImplements ==
  ASSUME KeyFileInv, PowerLoss
  PROVE  Promise!PowerLoss
<1>0. KeyFileInv'
  BY PowerLossStep
<1>1. returned' = {} /\ durable' = entry'.key
  BY DEF PowerLoss
<1>4. folder' \in {"absent", "kept"}
  BY DEF PowerLoss, KeyFileInv, TypeOK
<1>5. (durable' # None /\ folder' = "kept") = (entry'.key # None)
  BY <1>0, <1>1, <1>4 DEF KeyFileInv, InFolder
<1>2. CASE entry'.key = entry.key
  BY <1>1, <1>2, <1>5, Zenon DEF Promise!PowerLoss
<1>3. CASE entry'.key # entry.key
  <2>1. ~(durable # None /\ folder = "kept") /\ entry'.key = None
    BY <1>3 DEF PowerLoss, KeyFileInv, LinkedWhole, NoFile
  <2>2. (durable' # None /\ folder' = "kept") = FALSE
    BY <2>1, <1>5
  <2> QED
    BY <1>1, <2>1, <2>2, Zenon DEF Promise!PowerLoss
<1> QED
  BY <1>2, <1>3

\* Every other step is Put, Get or Settle of the store, or changes nothing it
\* shows.
LEMMA StepImplements ==
  ASSUME KeyFileInv, NEW p \in Procs, Step(p)
  PROVE  [Promise!Next]_(Promise!vars)
<1>1. CASE Link(p)
  <2>1. PICK key \in Keys : key = call[p].key
    BY <1>1 DEF Link, KeyFileInv, LinkedWhole
  <2>2. /\ entry.key = None /\ entry'.key = key /\ durable' = durable /\ folder' = folder
        /\ returned' = returned
    BY <1>1, <2>1 DEF Link, NameFree
  <2>3. Promise!Put(key)
    BY <2>2, Zenon DEF Promise!Put
  <2> QED
    BY <2>3 DEF Promise!Next
<1>2. CASE Read(p)
  <2>1. entry' = entry /\ durable' = durable /\ folder' = folder
    BY <1>2 DEF Read
  <2>2. CASE entry.key \in Keys
    <3>1. returned' = returned \cup {entry.key}
      BY <1>2, <2>2 DEF Read
    <3>2. Promise!Get
      BY <2>1, <2>2, <3>1, Zenon DEF Promise!Get
    <3> QED
      BY <3>2 DEF Promise!Next
  <2>3. CASE entry.key \notin Keys
    <3>1. returned' = returned
      BY <1>2, <2>3 DEF Read
    <3> QED
      BY <2>1, <3>1, Zenon DEF Promise!vars
  <2> QED
    BY <2>2, <2>3
<1>3. CASE SyncDir(p)
  <2>1. /\ entry' = entry /\ folder' = folder /\ durable' = entry.key
        /\ entry.key \in Keys /\ entry.key = call[p].key
    BY <1>3 DEF SyncDir, KeyFileInv, WriterOwnsName, LinkedWhole
  <2>2. entry.key # None /\ durable' # None
    BY <2>1, KeysAssumption
  <2>5. durable \in {None, entry.key}
    BY DEF KeyFileInv, DurableIsThere
  <2>6. \/ (durable' # None /\ folder' = "kept") = TRUE
        \/ (durable' # None /\ folder' = "kept") = (durable # None /\ folder = "kept")
    BY <2>1, <2>2
  <2>3. CASE call[p].op = "LoadOrCreate"
    <3>1. returned' = returned \cup {entry.key}
      BY <1>3, <2>1, <2>3 DEF SyncDir
    <3>2. Promise!Get
      BY <2>1, <2>6, <3>1, Zenon DEF Promise!Get
    <3> QED
      BY <3>2 DEF Promise!Next
  <2>4. CASE call[p].op # "LoadOrCreate"
    <3>1. returned' = returned
      BY <1>3, <2>4 DEF SyncDir
    <3>2. CASE (durable' # None /\ folder' = "kept") = TRUE
      <4>1. Promise!Settle
        BY <2>1, <2>2, <3>1, <3>2, Zenon DEF Promise!Settle
      <4> QED
        BY <4>1 DEF Promise!Next
    <3>3. CASE (durable' # None /\ folder' = "kept") = (durable # None /\ folder = "kept")
      BY <2>1, <3>1, <3>3, Zenon DEF Promise!vars
    <3> QED
      BY <2>6, <3>2, <3>3
  <2> QED
    BY <2>3, <2>4
<1>5. CASE MkdirAll(p)
  <2>1. entry' = entry /\ durable' = durable /\ returned' = returned
    BY <1>5 DEF MkdirAll
  <2>2. (folder' = "kept") = (folder = "kept")
    BY <1>5 DEF MkdirAll
  <2>3. (durable' # None /\ folder' = "kept") = (durable # None /\ folder = "kept")
    BY <2>1, <2>2
  <2> QED
    BY <2>1, <2>3, Zenon DEF Promise!vars
<1>4. CASE ~(Link(p) \/ Read(p) \/ SyncDir(p) \/ MkdirAll(p))
  <2>1. entry' = entry /\ durable' = durable /\ returned' = returned /\ folder' = folder
    BY <1>4 DEF Step, Begin, Store, Create, NotFound, WriteAndSync, WriteFails, Lost,
                SyncDirFails, Crash
  <2> QED
    BY <2>1, Zenon DEF Promise!vars
<1> QED
  BY <1>1, <1>2, <1>3, <1>4, <1>5

\* LoadOrCreate, Load and Store implement KeyStore: whatever is at the path is
\* never replaced, and from one power loss to the next every process gets the
\* same whole key.
THEOREM KeyFileImplementsKeyStore == Spec => ImplementsKeyStore
<1>1. Init => Promise!Init
  <2> SUFFICES ASSUME Init PROVE Promise!Init
    OBVIOUS
  <2>1. entry.key \in {None, Foreign} /\ durable = entry.key /\ returned = {}
    BY DEF Init, NoFile
  <2>2. (durable # None /\ folder = "kept") = (entry.key # None)
    BY <2>1 DEF Init, NoFile
  <2> QED
    BY <2>1, <2>2, Zenon DEF Promise!Init
<1>2. KeyFileInv /\ [Next]_vars => [Promise!Next]_(Promise!vars)
  <2> SUFFICES ASSUME KeyFileInv, [Next]_vars PROVE [Promise!Next]_(Promise!vars)
    OBVIOUS
  <2>1. CASE PowerLoss
    BY <2>1, PowerLossImplements DEF Promise!Next
  <2>2. ASSUME NEW p \in Procs, Step(p) PROVE [Promise!Next]_(Promise!vars)
    BY <2>2, StepImplements
  <2>3. CASE UNCHANGED vars
    <3>1. entry' = entry /\ durable' = durable /\ returned' = returned /\ folder' = folder
      BY <2>3 DEF vars
    <3> QED
      BY <3>1, Zenon DEF Promise!vars
  <2> QED
    BY <2>1, <2>2, <2>3 DEF Next, Step
<1> QED
  BY <1>1, <1>2, KeyFileInvariant, PTL DEF Spec, ImplementsKeyStore, Promise!Spec

----------------------------------------------------------------------------
\* SyncAuth

\* What is in progress was signed as it is, and only known events are signed.
InProgressSigned ==
  /\ \A h \in wire : h.id \in Ids
  /\ \A w \in Workers : req[w].pc \in {"check", "handle"} => req[w].h \in wire

\* The list and the map hold the same IDs, each once.
ListIsMap ==
  /\ DOMAIN seen = {order[i] : i \in DOMAIN order}
  /\ \A i, j \in DOMAIN order : order[i] = order[j] => i = j

\* The guard's timestamp of an ID outlives every accepted one that stayed in the
\* window.
Outlives ==
  \A h \in current : Live(h.at) /\ h.id \in DOMAIN seen /\ seen[h.id] >= h.at

\* What stayed in the window was accepted, and what was accepted was signed.
AcceptedSigned == current \subseteq accepted /\ accepted \subseteq wire

GuardInv == GuardTypeOK /\ InProgressSigned /\ ListIsMap /\ Outlives /\ AcceptedSigned

\* What Check keeps of the list is its tail after the forgotten IDs.
LEMMA KeptIsTail ==
  ASSUME GuardTypeOK, NEW k \in 0..Len(order)
  PROVE  /\ Kept(k) \in Seq(Ids) /\ Len(Kept(k)) = Len(order) - k
         /\ \A i \in 1..(Len(order) - k) : Kept(k)[i] = order[k + i]
<1>1. order \in Seq(Ids) /\ Len(order) \in Nat /\ k + 1 \in Int
  BY DEF GuardTypeOK
<1>2. \A i \in (k + 1)..Len(order) : order[i] \in Ids
  BY <1>1
<1>3. /\ Kept(k) \in Seq(Ids)
      /\ Len(Kept(k)) = IF k + 1 <= Len(order) THEN Len(order) - (k + 1) + 1 ELSE 0
      /\ \A i \in 1..(Len(order) - (k + 1) + 1) : Kept(k)[i] = order[(k + 1) + i - 1]
  BY <1>1, <1>2, SubSeqProperties DEF Kept
<1>4. Len(Kept(k)) = Len(order) - k
  BY <1>1, <1>3
<1>5. \A i \in 1..(Len(order) - k) : Kept(k)[i] = order[k + i]
  BY <1>1, <1>3
<1> QED
  BY <1>3, <1>4, <1>5

\* What Check keeps of the map is exactly what it keeps of the list: an ID is
\* in the list once, so forgetting it at the front leaves none behind.
LEMMA KeptIsRemembered ==
  ASSUME GuardTypeOK, ListIsMap, NEW k \in 0..Len(order)
  PROVE  /\ DOMAIN Remembered(k) = {Kept(k)[i] : i \in DOMAIN Kept(k)}
         /\ \A i, j \in DOMAIN Kept(k) : Kept(k)[i] = Kept(k)[j] => i = j
         /\ DOMAIN Remembered(k) \subseteq DOMAIN seen
         /\ \A i \in DOMAIN Remembered(k) : Remembered(k)[i] = seen[i]
<1>1. /\ order \in Seq(Ids) /\ Len(order) \in Nat /\ DOMAIN order = 1..Len(order)
      /\ DOMAIN Kept(k) = 1..(Len(order) - k)
      /\ \A i \in 1..(Len(order) - k) : Kept(k)[i] = order[k + i]
  BY KeptIsTail DEF GuardTypeOK
<1>2. DOMAIN Remembered(k) = DOMAIN seen \ {order[j] : j \in 1..k}
  BY DEF Remembered
<1>3. \A i, j \in DOMAIN Kept(k) : Kept(k)[i] = Kept(k)[j] => i = j
  <2> SUFFICES ASSUME NEW i \in DOMAIN Kept(k), NEW j \in DOMAIN Kept(k), Kept(k)[i] = Kept(k)[j]
               PROVE  i = j
    OBVIOUS
  <2>1. k + i \in DOMAIN order /\ k + j \in DOMAIN order /\ order[k + i] = order[k + j]
    BY <1>1
  <2>2. k + i = k + j
    BY <2>1 DEF ListIsMap
  <2> QED
    BY <1>1, <2>2
<1>4. ASSUME NEW id \in DOMAIN Remembered(k) PROVE id \in {Kept(k)[i] : i \in DOMAIN Kept(k)}
  <2>1. PICK j \in DOMAIN order : id = order[j]
    BY <1>2, <1>4 DEF ListIsMap
  <2>2. j \notin 1..k
    BY <1>2, <1>4, <2>1
  <2>3. j - k \in DOMAIN Kept(k) /\ Kept(k)[j - k] = order[k + (j - k)] /\ k + (j - k) = j
    BY <1>1, <2>1, <2>2
  <2> QED
    BY <2>1, <2>3
<1>5. ASSUME NEW i \in DOMAIN Kept(k) PROVE Kept(k)[i] \in DOMAIN Remembered(k)
  <2>1. k + i \in DOMAIN order /\ Kept(k)[i] = order[k + i]
    BY <1>1
  <2>2. ASSUME NEW j \in 1..k PROVE order[j] # order[k + i]
    <3>1. j \in DOMAIN order /\ j # k + i
      BY <1>1
    <3> QED
      BY <2>1, <3>1 DEF ListIsMap
  <2> QED
    BY <1>2, <2>1, <2>2 DEF ListIsMap
<1>6. /\ DOMAIN Remembered(k) \subseteq DOMAIN seen
      /\ \A i \in DOMAIN Remembered(k) : Remembered(k)[i] = seen[i]
  BY DEF Remembered
<1> QED
  BY <1>3, <1>4, <1>5, <1>6

\* An accepted timestamp that stayed in the window is still there after Check forgot.
LEMMA LiveIsRemembered ==
  ASSUME GuardTypeOK, Outlives, AcceptedSigned, NEW k \in 0..Len(order), Forgotten(k),
         NEW h \in current
  PROVE  h.id \in DOMAIN Remembered(k) /\ seen[h.id] >= h.at
<1>1. Live(h.at) /\ h.id \in DOMAIN seen /\ seen[h.id] >= h.at
  BY DEF Outlives
<1>2. h.at \in Int /\ seen[h.id] \in Int /\ clock \in Int /\ Window \in Int
  BY <1>1, WindowAssumption DEF GuardTypeOK, Headers, AcceptedSigned
<1>3. Live(seen[h.id])
  BY <1>1, <1>2 DEF Live
<1>4. \A j \in 1..k : order[j] # h.id
  BY <1>3 DEF Forgotten
<1> QED
  BY <1>1, <1>4 DEF Remembered

\* Idle requests and headers have their types.
LEMMA IdleType == Idle \in [pc : {"idle", "check", "handle"}, h : Headers]
BY DEF Idle, NoHeaders, Headers

\* Check: a refusal, after forgetting, keeps the invariant.
LEMMA CheckRefuses ==
  ASSUME GuardInv, NEW w \in Workers, NEW k \in 0..Len(order), Forgotten(k),
         req' = [req EXCEPT ![w] = Idle], seen' = Remembered(k), order' = Kept(k),
         UNCHANGED <<accepted, current, clock, wire>>
  PROVE  GuardInv'
<1>1. GuardTypeOK /\ InProgressSigned /\ ListIsMap /\ Outlives /\ AcceptedSigned
  BY DEF GuardInv
<1>2. GuardTypeOK'
  <2>1. order' \in Seq(Ids) /\ Len(order') <= Max
    BY <1>1, KeptIsTail, WindowAssumption DEF GuardTypeOK
  <2>2. DOMAIN seen' \subseteq Ids /\ seen' \in [DOMAIN seen' -> Int]
    BY <1>1, KeptIsRemembered DEF GuardTypeOK, Remembered
  <2>3. req' \in [Workers -> [pc : {"idle", "check", "handle"}, h : Headers]]
    BY <1>1, IdleType DEF GuardTypeOK
  <2> QED
    BY <1>1, <2>1, <2>2, <2>3 DEF GuardTypeOK
<1>3. InProgressSigned'
  <2>1. req'[w].pc = "idle" /\ \A v \in Workers \ {w} : req'[v] = req[v]
    BY <1>1 DEF GuardTypeOK, Idle
  <2> QED
    BY <1>1, <2>1 DEF InProgressSigned
<1>4. ListIsMap'
  <2>1. /\ DOMAIN Remembered(k) = {Kept(k)[i] : i \in DOMAIN Kept(k)}
        /\ \A i, j \in DOMAIN Kept(k) : Kept(k)[i] = Kept(k)[j] => i = j
    BY <1>1, KeptIsRemembered
  <2>2. /\ DOMAIN seen' = {order'[i] : i \in DOMAIN order'}
        /\ \A i, j \in DOMAIN order' : order'[i] = order'[j] => i = j
    BY <2>1, Zenon
  <2> QED
    BY <2>2 DEF ListIsMap
<1>5. Outlives'
  <2> SUFFICES ASSUME NEW h \in current
               PROVE  Live(h.at)' /\ h.id \in DOMAIN seen' /\ seen'[h.id] >= h.at
    BY DEF Outlives
  <2>1. Live(h.at)'
    BY <1>1 DEF Live, Outlives
  <2>2. h.id \in DOMAIN Remembered(k) /\ seen[h.id] >= h.at
    BY <1>1, LiveIsRemembered
  <2> QED
    BY <1>1, <2>1, <2>2, KeptIsRemembered
<1> QED
  BY <1>1, <1>2, <1>3, <1>4, <1>5 DEF GuardInv, AcceptedSigned

\* Check: an acceptance keeps the invariant.  The ID was not remembered, so no
\* accepted timestamp of it stayed in the window, and there was room for it.
LEMMA CheckAccepts ==
  ASSUME GuardInv, NEW w \in Workers, NEW k \in 0..Len(order), Forgotten(k), NEW h,
         h = req[w].h, req[w].pc = "check", Answer(h.id, k) = "nil",
         req' = [req EXCEPT ![w].pc = "handle"],
         seen' = [i \in DOMAIN Remembered(k) \cup {h.id} |-> IF i = h.id THEN h.at ELSE seen[i]],
         order' = Append(Kept(k), h.id), accepted' = accepted \cup {h},
         current' = current \cup {g \in {h} : Live(g.at)}, UNCHANGED <<clock, wire>>
  PROVE  GuardInv'
<1>1. GuardTypeOK /\ InProgressSigned /\ ListIsMap /\ Outlives /\ AcceptedSigned
  BY DEF GuardInv
<1>2. h \in wire /\ h.id \in Ids /\ h \in Headers /\ h.at \in Int
  BY <1>1 DEF InProgressSigned, GuardTypeOK, Headers
<1>3. h.id \notin DOMAIN Remembered(k) /\ ~(Len(Kept(k)) >= Max)
  BY DEF Answer
<1>4. /\ Kept(k) \in Seq(Ids) /\ Len(Kept(k)) \in Nat /\ Max \in Nat
      /\ DOMAIN Kept(k) = 1..Len(Kept(k))
  BY <1>1, KeptIsTail, WindowAssumption
<1>5. /\ order' \in Seq(Ids) /\ Len(order') = Len(Kept(k)) + 1
      /\ DOMAIN order' = DOMAIN Kept(k) \cup {Len(Kept(k)) + 1}
      /\ \A i \in DOMAIN Kept(k) : order'[i] = Kept(k)[i]
      /\ order'[Len(Kept(k)) + 1] = h.id
  BY <1>2, <1>4
<1>6. /\ DOMAIN seen' = DOMAIN Remembered(k) \cup {h.id} /\ seen'[h.id] = h.at
      /\ \A i \in DOMAIN Remembered(k) : seen'[i] = seen[i]
  BY <1>3
<1>7. GuardTypeOK'
  <2>1. Len(order') <= Max
    BY <1>3, <1>4, <1>5
  <2>2. DOMAIN seen' \subseteq Ids /\ seen' \in [DOMAIN seen' -> Int]
    BY <1>1, <1>2, <1>6, KeptIsRemembered DEF GuardTypeOK
  <2>3. req' \in [Workers -> [pc : {"idle", "check", "handle"}, h : Headers]]
    BY <1>1 DEF GuardTypeOK
  <2> QED
    BY <1>1, <1>2, <1>5, <2>1, <2>2, <2>3 DEF GuardTypeOK
<1>8. InProgressSigned'
  BY <1>1, <1>2 DEF GuardTypeOK, InProgressSigned
<1>9. ListIsMap'
  <2>1. /\ DOMAIN Remembered(k) = {Kept(k)[i] : i \in DOMAIN Kept(k)}
        /\ \A i, j \in DOMAIN Kept(k) : Kept(k)[i] = Kept(k)[j] => i = j
    BY <1>1, KeptIsRemembered
  <2>2. DOMAIN seen' = {order'[i] : i \in DOMAIN order'}
    BY <1>5, <1>6, <2>1
  <2>3. \A i, j \in DOMAIN order' : order'[i] = order'[j] => i = j
    BY <1>3, <1>5, <2>1
  <2> QED
    BY <2>2, <2>3 DEF ListIsMap
<1>10. Outlives'
  <2> SUFFICES ASSUME NEW g \in current'
               PROVE  Live(g.at)' /\ g.id \in DOMAIN seen' /\ seen'[g.id] >= g.at
    BY DEF Outlives
  <2>1. CASE g \in current
    <3>1. Live(g.at)'
      BY <1>1, <2>1 DEF Live, Outlives
    <3>2. g.id \in DOMAIN Remembered(k) /\ seen[g.id] >= g.at
      BY <1>1, <2>1, LiveIsRemembered
    <3> QED
      BY <1>6, <3>1, <3>2
  <2>2. CASE g = h /\ Live(g.at)
    <3>1. Live(g.at)'
      BY <2>2 DEF Live
    <3> QED
      BY <1>2, <1>6, <2>2, <3>1
  <2> QED
    BY <2>1, <2>2
<1>11. AcceptedSigned'
  BY <1>1, <1>2 DEF AcceptedSigned
<1> QED
  BY <1>7, <1>8, <1>9, <1>10, <1>11 DEF GuardInv

\* A request that passes Verify is one that was signed, as it was signed: an
\* altered one carries no signature.
LEMMA ArrivesSigned ==
  ASSUME GuardTypeOK, NEW h \in wire, NEW g \in Altered(h) \cup {h}, Genuine(g)
  PROVE  g \in wire
<1>1. h \in Headers
  BY DEF GuardTypeOK
<1>2. \A i \in Ids : [h EXCEPT !.id = i, !.signed = FALSE].signed = FALSE
  BY <1>1 DEF Headers
<1> QED
  BY <1>2 DEF Altered, Genuine

\* Check, whatever it answers, keeps the invariant.
LEMMA CheckStep ==
  ASSUME GuardInv, NEW w \in Workers, Check(w)
  PROVE  GuardInv'
<1>1. PICK k \in 0..Len(order) :
        /\ Forgotten(k)
        /\ IF Answer(req[w].h.id, k) = "nil"
           THEN /\ req' = [req EXCEPT ![w].pc = "handle"]
                /\ seen' = [i \in DOMAIN Remembered(k) \cup {req[w].h.id} |->
                              IF i = req[w].h.id THEN req[w].h.at ELSE seen[i]]
                /\ order' = Append(Kept(k), req[w].h.id)
                /\ accepted' = accepted \cup {req[w].h}
                /\ current' = current \cup {g \in {req[w].h} : Live(g.at)}
           ELSE /\ req' = [req EXCEPT ![w] = Idle]
                /\ seen' = Remembered(k) /\ order' = Kept(k)
                /\ UNCHANGED <<accepted, current>>
  BY DEF Check
<1>2. req[w].pc = "check" /\ UNCHANGED <<clock, wire>>
  BY DEF Check
<1>3. CASE Answer(req[w].h.id, k) = "nil"
  BY <1>1, <1>2, <1>3, CheckAccepts
<1>4. CASE Answer(req[w].h.id, k) # "nil"
  BY <1>1, <1>2, <1>4, CheckRefuses
<1> QED
  BY <1>3, <1>4

\* The inductive invariant holds in every reachable state of the receiver.
LEMMA GuardInvariant == GuardSpec => []GuardInv
<1>1. GuardInit => GuardInv
  <2> SUFFICES ASSUME GuardInit PROVE GuardInv
    OBVIOUS
  <2>1. GuardTypeOK
    BY IdleType, WindowAssumption DEF GuardInit, GuardTypeOK, Empty
  <2>2. InProgressSigned
    BY DEF GuardInit, InProgressSigned, Idle
  <2>3. ListIsMap
    BY DEF GuardInit, ListIsMap, Empty
  <2> QED
    BY <2>1, <2>2, <2>3 DEF GuardInit, GuardInv, Outlives, AcceptedSigned
<1>2. GuardInv /\ [GuardNext]_guardVars => GuardInv'
  <2> SUFFICES ASSUME GuardInv, [GuardNext]_guardVars PROVE GuardInv'
    OBVIOUS
  <2>t. GuardTypeOK /\ InProgressSigned /\ ListIsMap /\ Outlives /\ AcceptedSigned
    BY DEF GuardInv
  <2>o. ASSUME UNCHANGED <<seen, current, clock>> PROVE Outlives'
    BY <2>t, <2>o DEF Outlives, Live
  <2>1. CASE Tick
    <3>1. GuardTypeOK' /\ InProgressSigned' /\ ListIsMap'
      BY <2>t, <2>1 DEF Tick, GuardTypeOK, InProgressSigned, ListIsMap
    <3>2. Outlives'
      BY <2>t, <2>1 DEF Tick, Outlives, Live
    <3>3. AcceptedSigned'
      BY <2>t, <2>1 DEF Tick, AcceptedSigned
    <3> QED
      BY <3>1, <3>2, <3>3 DEF GuardInv
  <2>8. CASE SetBack
    <3>0. PICK b \in Backs : clock >= b /\ clock' = clock - b
      BY <2>8 DEF SetBack
    <3>1. b \in Nat /\ clock \in Nat /\ Window \in Int
      BY <2>t, WindowAssumption DEF GuardTypeOK
    <3>2. clock' \in Nat
      BY <3>0, <3>1
    <3>3. GuardTypeOK' /\ InProgressSigned' /\ ListIsMap' /\ AcceptedSigned'
      BY <2>t, <2>8, <3>2 DEF SetBack, GuardTypeOK, InProgressSigned, ListIsMap, AcceptedSigned
    <3>4. Outlives'
      <4> SUFFICES ASSUME NEW h \in current
                   PROVE  Live(h.at)' /\ h.id \in DOMAIN seen /\ seen[h.id] >= h.at
        BY <2>8 DEF Outlives, SetBack
      <4>1. h.at \in Int
        BY <2>t DEF GuardTypeOK, Headers, AcceptedSigned
      <4>2. Live(h.at) /\ h.id \in DOMAIN seen /\ seen[h.id] >= h.at
        BY <2>t DEF Outlives
      <4>3. Live(h.at)'
        BY <3>0, <3>1, <4>1, <4>2 DEF Live
      <4> QED
        BY <4>2, <4>3
    <3> QED
      BY <3>3, <3>4 DEF GuardInv
  <2>2. CASE Restart
    <3>1. GuardTypeOK'
      BY <2>t, <2>2, IdleType, WindowAssumption DEF Restart, GuardTypeOK, Empty
    <3>2. InProgressSigned' /\ ListIsMap' /\ Outlives'
      BY <2>t, <2>2 DEF Restart, InProgressSigned, ListIsMap, Outlives, Empty, Idle
    <3>3. AcceptedSigned'
      BY <2>2 DEF Restart, AcceptedSigned
    <3> QED
      BY <3>1, <3>2, <3>3 DEF GuardInv
  <2>3. ASSUME NEW id \in Ids, NEW skew \in Skews, Sign(id, skew) PROVE GuardInv'
    <3>1. [id |-> id, at |-> clock + skew, signed |-> TRUE] \in Headers
      <4>1. clock + skew \in Int
        BY <2>t, WindowAssumption DEF GuardTypeOK
      <4> QED
        BY <4>1 DEF Headers
    <3>2. GuardTypeOK'
      BY <2>t, <2>3, <3>1 DEF Sign, GuardTypeOK
    <3>3. InProgressSigned'
      BY <2>t, <2>3 DEF Sign, InProgressSigned
    <3>4. ListIsMap'
      BY <2>t, <2>3 DEF Sign, ListIsMap
    <3> QED
      BY <2>t, <2>3, <2>o, <3>2, <3>3, <3>4 DEF Sign, GuardInv, AcceptedSigned
  <2>4. ASSUME NEW w \in Workers, Arrives(w) PROVE GuardInv'
    <3>0. PICK h \in wire : \E g \in Altered(h) \cup {h} : Verify(w, g)
      BY <2>4 DEF Arrives
    <3>1. PICK g \in Altered(h) \cup {h} : Verify(w, g)
      BY <3>0
    <3>2. g \in wire /\ g \in Headers
      BY <2>t, <3>1, ArrivesSigned DEF Verify, GuardTypeOK
    <3>3. [pc |-> "check", h |-> g] \in [pc : {"idle", "check", "handle"}, h : Headers]
      BY <3>2
    <3>4. GuardTypeOK' /\ InProgressSigned' /\ ListIsMap'
      BY <2>t, <3>1, <3>2, <3>3 DEF Verify, GuardTypeOK, InProgressSigned, ListIsMap
    <3> QED
      BY <2>t, <2>o, <3>1, <3>4 DEF Verify, GuardInv, AcceptedSigned
  <2>5. ASSUME NEW w \in Workers, Check(w) PROVE GuardInv'
    BY <2>5, CheckStep
  <2>6. ASSUME NEW w \in Workers, Handle(w) PROVE GuardInv'
    <3>1. GuardTypeOK' /\ InProgressSigned' /\ ListIsMap'
      BY <2>t, <2>6, IdleType DEF Handle, GuardTypeOK, InProgressSigned, ListIsMap, Idle
    <3> QED
      BY <2>t, <2>6, <2>o, <3>1 DEF Handle, GuardInv, AcceptedSigned
  <2>7. CASE UNCHANGED guardVars
    <3>1. GuardTypeOK' /\ InProgressSigned' /\ ListIsMap'
      BY <2>t, <2>7 DEF guardVars, GuardTypeOK, InProgressSigned, ListIsMap
    <3> QED
      BY <2>t, <2>7, <2>o, <3>1 DEF guardVars, GuardInv, AcceptedSigned
  <2> QED
    BY <2>1, <2>2, <2>3, <2>4, <2>5, <2>6, <2>7, <2>8 DEF GuardNext
<1> QED
  BY <1>1, <1>2, PTL DEF GuardSpec

\* Verify and memoryReplay: only what a sender signed is accepted; the guard's
\* list and map hold the same IDs, each once and at most Max of them; every ID
\* accepted and inside the window ever since is among them.
THEOREM GuardAlwaysConsistent == GuardSpec => []GuardConsistent
<1>1. GuardInv => GuardConsistent
  BY DEF GuardInv, GuardConsistent, ListIsMap, Outlives, WindowRemembered, AcceptedSigned
<1> QED
  BY <1>1, GuardInvariant, PTL

\* memoryReplay.Check: an event ID is not accepted again while an accepted
\* timestamp of it has stayed inside the guard's window, whichever goroutines ask
\* and however the clock is set back.
THEOREM NoReplays == GuardSpec => NoReplayInsideWindow
<1> DEFINE Fresh == \A w \in Workers : Accepts(w) =>
                      \A h \in current : h.id # req[w].h.id
<1>1. GuardInv /\ [GuardNext]_guardVars => [Fresh]_guardVars
  <2> SUFFICES ASSUME GuardInv, GuardNext, NEW w \in Workers, Accepts(w),
                      NEW h \in current, h.id = req[w].h.id
               PROVE  FALSE
    OBVIOUS
  <2>1. req \in [Workers -> [pc : {"idle", "check", "handle"}, h : Headers]]
    BY DEF GuardInv, GuardTypeOK
  <2>2. Check(w)
    <3>1. ~Tick /\ ~SetBack /\ ~Restart /\ ~(\E id \in Ids, skew \in Skews : Sign(id, skew))
      BY <2>1 DEF Tick, SetBack, Restart, Sign, Accepts, Idle
    <3>2. PICK v \in Workers : Arrives(v) \/ Check(v) \/ Handle(v)
      BY <3>1 DEF GuardNext
    <3>3. ~Arrives(v) /\ ~Handle(v)
      BY <2>1 DEF Arrives, Verify, Handle, Accepts, Idle
    <3>4. v = w
      BY <2>1, <3>2, <3>3 DEF Check, Accepts
    <3> QED
      BY <3>2, <3>3, <3>4
  <2>3. PICK k \in 0..Len(order) : Forgotten(k) /\ (Answer(h.id, k) = "nil" \/ req' = [req EXCEPT ![w] = Idle])
    BY <2>2 DEF Check
  <2>4. Answer(h.id, k) = "nil"
    BY <2>1, <2>3 DEF Accepts, Idle
  <2>5. h.id \notin DOMAIN Remembered(k)
    BY <2>4 DEF Answer
  <2> QED
    BY <2>3, <2>5, LiveIsRemembered DEF GuardInv
<1> QED
  BY <1>1, GuardInvariant, PTL DEF GuardSpec, NoReplayInsideWindow

----------------------------------------------------------------------------
\* Health

\* The client that evaluates holds the mutex.
HolderEvaluates == \A c \in Clients : mu = c => client[c] = "evaluating"

\* A client that waited when an evaluation began still waits, and will find
\* either that evaluation under way or what it cached, still fresh.
MissedServed ==
  \A c \in missed : client[c] = "waiting" /\ (mu # Nobody \/ age < CacheFor)

\* A goroutine frees its runner once its check returned.
FreedReturned == \A g \in goroutines : g.freed => g.out # "running"

HealthInv == BusyIsTrue /\ FreedReturned /\ HolderEvaluates /\ MissedServed

Goroutines == [check : Checks, mine : BOOLEAN, out : Statuses \cup {"running"}, freed : BOOLEAN]

\* What a goroutine is after one of its fields changed.
LEMMA GoroutineFields ==
  ASSUME NEW g \in Goroutines
  PROVE  /\ \A out \in Statuses :
              LET h == [g EXCEPT !.out = out]
              IN  h \in Goroutines /\ h.check = g.check /\ h.freed = g.freed
         /\ LET h == [g EXCEPT !.freed = TRUE]
            IN  h \in Goroutines /\ h.check = g.check /\ h.freed
         /\ LET h == [g EXCEPT !.mine = FALSE]
            IN  h \in Goroutines /\ h.check = g.check /\ h.freed = g.freed
BY DEF Goroutines

\* A check that returned is reported as a status.
LEMMA ClassifyIsStatus ==
  ASSUME NEW out \in Endings
  PROVE  classify(out) \in Statuses
BY DEF Endings, classify, Statuses

\* Every step keeps the types: an evaluation is never older than Timeout,
\* because time stands while a deadline is due.
LEMMA StepHealthType ==
  ASSUME BusyIsTrue, FreedReturned, HealthNext
  PROVE  HealthTypeOK'
<1>t. /\ HealthTypeOK /\ goroutines \subseteq Goroutines
      /\ age \in 0..CacheFor /\ elapsed \in 0..Timeout
      /\ res \in [Checks -> Statuses \cup {"none", "start", "wait"}]
      /\ busy \in [Checks -> BOOLEAN] /\ client \in [Clients -> {"idle", "waiting", "evaluating"}]
  BY DEF BusyIsTrue, HealthTypeOK, Goroutines
<1>g. ASSUME goroutines' \subseteq Goroutines, age' \in 0..CacheFor, elapsed' \in 0..Timeout,
             resp' \in [Checks -> Statuses], mu' \in Clients \cup {Nobody}, missed' \subseteq Clients,
             client' \in [Clients -> {"idle", "waiting", "evaluating"}],
             res' \in [Checks -> Statuses \cup {"none", "start", "wait"}],
             busy' \in [Checks -> BOOLEAN]
      PROVE  HealthTypeOK'
  BY <1>g DEF HealthTypeOK, Goroutines
<1>a. CacheFor \in Nat /\ Timeout \in Nat /\ Timeout < CacheFor
  BY HealthAssumption
<1>1. CASE HealthTick
  <2>1. mu # Nobody => elapsed < Timeout
    BY <1>1 DEF HealthTick, Settled
  <2>2. elapsed' \in 0..Timeout /\ age' \in 0..CacheFor
    BY <1>1, <1>a, <1>t, <2>1 DEF HealthTick
  <2> QED
    BY <1>1, <1>g, <1>t, <2>2 DEF HealthTick, HealthTypeOK
<1>2. ASSUME NEW c \in Clients, Finish(c) PROVE HealthTypeOK'
  <2>1. age' \in 0..CacheFor
    BY <1>2, <1>a, <1>t DEF Finish
  <2>2. resp' \in [Checks -> Statuses]
    BY <1>2, <1>t DEF Finish
  <2>3. /\ res' \in [Checks -> Statuses \cup {"none", "start", "wait"}]
        /\ client' \in [Clients -> {"idle", "waiting", "evaluating"}]
    BY <1>2, <1>t DEF Finish
  <2> QED
    BY <1>2, <1>g, <1>t, <2>1, <2>2, <2>3 DEF Finish, HealthTypeOK
<1>3. ASSUME NEW k \in Checks, Start(k) PROVE HealthTypeOK'
  <2>1. [check |-> k, mine |-> TRUE, out |-> "running", freed |-> FALSE] \in Goroutines
    BY DEF Goroutines
  <2>2. goroutines' \subseteq Goroutines
    BY <1>3, <1>t, <2>1 DEF Start
  <2>3. busy' \in [Checks -> BOOLEAN]
    BY <1>3, <1>t DEF Start
  <2>4. res' \in [Checks -> Statuses \cup {"none", "start", "wait"}]
    BY <1>3, <1>t DEF Start, Result, Statuses
  <2> QED
    BY <1>3, <1>g, <1>t, <2>2, <2>3, <2>4 DEF Start, HealthTypeOK
<1>4. ASSUME NEW k \in Checks, Deadline(k) PROVE HealthTypeOK'
  <2>1. res' \in [Checks -> Statuses \cup {"none", "start", "wait"}]
    BY <1>4, <1>t DEF Deadline, Result, Statuses
  <2> QED
    BY <1>4, <1>g, <1>t, <2>1 DEF Deadline, HealthTypeOK
<1>5. ASSUME NEW g \in goroutines, Free(g) PROVE HealthTypeOK'
  <2>1. g \in Goroutines /\ [g EXCEPT !.freed = TRUE] \in Goroutines
    BY <1>t, GoroutineFields
  <2>2. goroutines' \subseteq Goroutines
    BY <1>5, <1>t, <2>1 DEF Free
  <2>3. busy' \in [Checks -> BOOLEAN]
    BY <1>5, <1>t DEF Free, Freed
  <2> QED
    BY <1>5, <1>g, <1>t, <2>2, <2>3 DEF Free, HealthTypeOK
<1>6. ASSUME NEW g \in goroutines, Report(g) PROVE HealthTypeOK'
  <2>1. g.out \in Statuses /\ goroutines' \subseteq Goroutines
    BY <1>6, <1>t DEF Report, Goroutines, FreedReturned
  <2>2. res' \in [Checks -> Statuses \cup {"none", "start", "wait"}]
    BY <1>6, <1>t, <2>1 DEF Report, Result
  <2> QED
    BY <1>6, <1>g, <1>t, <2>1, <2>2 DEF Report, HealthTypeOK
<1>7. ASSUME NEW c \in Clients, Request(c) \/ AnswerCached(c) PROVE HealthTypeOK'
  <2>0. /\ UNCHANGED <<age, resp, mu, elapsed, res, busy, goroutines>>
        /\ missed' = missed \/ missed' = missed \ {c}
        /\ \E s \in {"idle", "waiting"} : client' = [client EXCEPT ![c] = s]
    BY <1>7 DEF Request, AnswerCached
  <2>1. client' \in [Clients -> {"idle", "waiting", "evaluating"}] /\ missed' \subseteq Clients
    BY <1>t, <2>0 DEF HealthTypeOK
  <2> QED
    BY <1>g, <1>t, <2>0, <2>1 DEF HealthTypeOK
<1>8. ASSUME NEW c \in Clients, Evaluate(c) PROVE HealthTypeOK'
  <2>1. ASSUME NEW h \in goroutines' PROVE h \in Goroutines
    <3>1. PICK g \in goroutines : h = [g EXCEPT !.mine = FALSE]
      BY <1>8 DEF Evaluate
    <3> QED
      BY <1>t, <3>1, GoroutineFields
  <2>2. /\ client' \in [Clients -> {"idle", "waiting", "evaluating"}] /\ missed' \subseteq Clients
        /\ res' \in [Checks -> Statuses \cup {"none", "start", "wait"}]
    BY <1>8, <1>t DEF Evaluate, HealthTypeOK
  <2>3. elapsed' \in 0..Timeout
    BY <1>8, <1>a DEF Evaluate
  <2> QED
    BY <1>8, <1>g, <1>t, <2>1, <2>2, <2>3 DEF Evaluate, HealthTypeOK
<1>9. ASSUME NEW g \in goroutines, NEW out \in Endings, CheckReturns(g, out) PROVE HealthTypeOK'
  <2>1. [g EXCEPT !.out = classify(out)] \in Goroutines
    BY <1>t, GoroutineFields, ClassifyIsStatus
  <2>2. goroutines' \subseteq Goroutines
    BY <1>9, <1>t, <2>1 DEF CheckReturns
  <2> QED
    BY <1>9, <1>g, <1>t, <2>2 DEF CheckReturns, HealthTypeOK
<1> QED
  BY <1>1, <1>2, <1>3, <1>4, <1>5, <1>6, <1>7, <1>8, <1>9 DEF HealthNext, Handler, Serve

\* No step frees a runner before its check returned.
LEMMA StepFreed ==
  ASSUME HealthTypeOK, FreedReturned, HealthNext
  PROVE  FreedReturned'
<1>t. goroutines \subseteq Goroutines
  BY DEF HealthTypeOK, Goroutines
<1>1. CASE goroutines' \subseteq goroutines
  BY <1>1 DEF FreedReturned
<1>2. ASSUME NEW k \in Checks, Start(k) PROVE FreedReturned'
  <2>1. [check |-> k, mine |-> TRUE, out |-> "running", freed |-> FALSE].freed = FALSE
    OBVIOUS
  <2>2. goroutines' \subseteq goroutines
            \cup {[check |-> k, mine |-> TRUE, out |-> "running", freed |-> FALSE]}
    BY <1>2 DEF Start
  <2> QED
    BY <2>1, <2>2, Zenon DEF FreedReturned
<1>3. ASSUME NEW g \in goroutines, Free(g) PROVE FreedReturned'
  <2>1. [g EXCEPT !.freed = TRUE].out = g.out /\ g.out # "running"
    BY <1>3, <1>t DEF Free, Goroutines
  <2> QED
    BY <1>3, <2>1 DEF Free, FreedReturned
<1>4. ASSUME NEW c \in Clients, Evaluate(c) PROVE FreedReturned'
  <2>1. \A g \in goroutines : LET h == [g EXCEPT !.mine = FALSE]
                              IN  h.freed = g.freed /\ h.out = g.out
    BY <1>t DEF Goroutines
  <2>2. ASSUME NEW h \in goroutines' PROVE h.freed => h.out # "running"
    <3>1. PICK g \in goroutines : h = [g EXCEPT !.mine = FALSE]
      BY <1>4 DEF Evaluate
    <3> QED
      BY <2>1, <3>1 DEF FreedReturned
  <2> QED
    BY <2>2 DEF FreedReturned
<1>5. ASSUME NEW g \in goroutines, NEW out \in Endings, CheckReturns(g, out) PROVE FreedReturned'
  <2>1. [g EXCEPT !.out = classify(out)].out # "running"
    BY <1>t, ClassifyIsStatus DEF Goroutines, Statuses
  <2> QED
    BY <1>5, <2>1 DEF CheckReturns, FreedReturned
<1> QED
  BY <1>1, <1>2, <1>3, <1>4, <1>5
     DEF HealthNext, Handler, Serve, HealthTick, Finish, Deadline, Report, Request, AnswerCached

\* The goroutines that keep their runner busy, after one of them was replaced.
LEMMA RunningReplaced ==
  ASSUME HealthTypeOK, NEW g \in goroutines, NEW h, h.check = g.check, h.freed = g.freed,
         goroutines' = (goroutines \ {g}) \cup {h}, busy' = busy,
         OneGoroutinePerCheck, \A k \in Checks : busy[k] <=> \E r \in Running : r.check = k
  PROVE  OneGoroutinePerCheck' /\ \A k \in Checks : busy'[k] <=> \E r \in Running' : r.check = k
<1>1. CASE g.freed
  <2>1. Running' = Running
    BY <1>1 DEF Running
  <2> QED
    BY <2>1 DEF OneGoroutinePerCheck
<1>2. CASE ~g.freed
  <2>1. g \in Running /\ Running' = (Running \ {g}) \cup {h}
    BY <1>2 DEF Running
  <2>2. OneGoroutinePerCheck'
    BY <2>1 DEF OneGoroutinePerCheck
  <2>3. ASSUME NEW k \in Checks PROVE (\E r \in Running' : r.check = k) <=> \E r \in Running : r.check = k
    BY <2>1
  <2> QED
    BY <2>2, <2>3
<1> QED
  BY <1>1, <1>2

\* Every step keeps busy the truth: a runner is started only when free, and
\* freed by the goroutine that holds it.
LEMMA StepBusy ==
  ASSUME BusyIsTrue, HealthNext
  PROVE  OneGoroutinePerCheck' /\ \A k \in Checks : busy'[k] <=> \E r \in Running' : r.check = k
<1> DEFINE Truth == OneGoroutinePerCheck /\ \A k \in Checks : busy[k] <=> \E r \in Running : r.check = k
<1>t. /\ HealthTypeOK /\ Truth /\ goroutines \subseteq Goroutines /\ busy \in [Checks -> BOOLEAN]
  BY DEF BusyIsTrue, HealthTypeOK, Goroutines
<1>1. CASE goroutines' = goroutines /\ busy' = busy
  BY <1>1, <1>t DEF OneGoroutinePerCheck, Running
<1>2. ASSUME NEW k \in Checks, Start(k) PROVE Truth'
  <2>1. CASE MayStart(k)
    <3>1. PICK n : n = [check |-> k, mine |-> TRUE, out |-> "running", freed |-> FALSE]
      OBVIOUS
    <3>2. n.check = k /\ n.freed = FALSE
      BY <3>1
    <3>3. goroutines' = goroutines \cup {n} /\ busy' = [busy EXCEPT ![k] = TRUE]
      BY <1>2, <2>1, <3>1 DEF Start
    <3>4. Running' = Running \cup {n}
      BY <3>2, <3>3 DEF Running
    <3>5. \A r \in Running : r.check # k
      BY <1>t, <2>1 DEF MayStart
    <3>6. OneGoroutinePerCheck'
      BY <1>t, <3>2, <3>4, <3>5 DEF OneGoroutinePerCheck
    <3>7. ASSUME NEW j \in Checks PROVE busy'[j] <=> \E r \in Running' : r.check = j
      BY <1>t, <3>2, <3>3, <3>4
    <3> QED
      BY <3>6, <3>7
  <2>2. CASE ~MayStart(k)
    BY <1>1, <1>2, <2>2 DEF Start
  <2> QED
    BY <2>1, <2>2
<1>3. ASSUME NEW g \in goroutines, Free(g) PROVE Truth'
  <2>1. PICK h : h = [g EXCEPT !.freed = TRUE]
    OBVIOUS
  <2>2. h.check = g.check /\ h.freed /\ g.check \in Checks
    BY <1>t, <2>1, GoroutineFields DEF Goroutines
  <2>3. goroutines' = (goroutines \ {g}) \cup {h} /\ busy' = [busy EXCEPT ![g.check] = FALSE] /\ ~g.freed
    BY <1>3, <2>1 DEF Free, Freed
  <2>4. g \in Running /\ Running' = Running \ {g}
    BY <2>2, <2>3 DEF Running
  <2>5. OneGoroutinePerCheck'
    BY <1>t, <2>4 DEF OneGoroutinePerCheck
  <2>6. \A r \in Running' : r.check # g.check
    BY <1>t, <2>4 DEF OneGoroutinePerCheck
  <2>7. ASSUME NEW j \in Checks PROVE busy'[j] <=> \E r \in Running' : r.check = j
    <3>1. CASE j = g.check
      BY <1>t, <2>2, <2>3, <2>6, <3>1
    <3>2. CASE j # g.check
      BY <1>t, <2>2, <2>3, <2>4, <3>2
    <3> QED
      BY <3>1, <3>2
  <2> QED
    BY <2>5, <2>7
<1>4. ASSUME NEW g \in goroutines, Report(g) PROVE Truth'
  <2>1. Running' = Running /\ busy' = busy
    BY <1>4 DEF Report, Running
  <2> QED
    BY <1>t, <2>1 DEF OneGoroutinePerCheck
<1>5. ASSUME NEW c \in Clients, Evaluate(c) PROVE Truth'
  <2>1. busy' = busy /\ goroutines' = {[g EXCEPT !.mine = FALSE] : g \in goroutines}
    BY <1>5 DEF Evaluate
  <2>2. ASSUME NEW h \in Running' PROVE \E g \in Running : h = [g EXCEPT !.mine = FALSE] /\ h.check = g.check
    <3>1. PICK g \in goroutines : h = [g EXCEPT !.mine = FALSE]
      BY <2>1 DEF Running
    <3>2. h.check = g.check /\ h.freed = g.freed
      BY <1>t, <3>1, GoroutineFields
    <3> QED
      BY <3>1, <3>2 DEF Running
  <2>3. ASSUME NEW g \in Running PROVE \E h \in Running' : h.check = g.check
    <3>1. PICK h : h = [g EXCEPT !.mine = FALSE]
      OBVIOUS
    <3>2. h \in goroutines' /\ h.check = g.check /\ h.freed = g.freed
      BY <1>t, <2>1, <3>1, GoroutineFields DEF Running
    <3> QED
      BY <3>2 DEF Running
  <2>4. OneGoroutinePerCheck'
    <3> SUFFICES ASSUME NEW x \in Running', NEW y \in Running', x.check = y.check PROVE x = y
      BY DEF OneGoroutinePerCheck
    <3>1. PICK g \in Running : x = [g EXCEPT !.mine = FALSE] /\ x.check = g.check
      BY <2>2
    <3>2. PICK h \in Running : y = [h EXCEPT !.mine = FALSE] /\ y.check = h.check
      BY <2>2
    <3>3. g = h
      BY <1>t, <3>1, <3>2 DEF OneGoroutinePerCheck
    <3> QED
      BY <3>1, <3>2, <3>3
  <2>5. ASSUME NEW j \in Checks PROVE busy'[j] <=> \E r \in Running' : r.check = j
    BY <1>t, <2>1, <2>2, <2>3
  <2> QED
    BY <2>4, <2>5
<1>6. ASSUME NEW g \in goroutines, NEW out \in Endings, CheckReturns(g, out) PROVE Truth'
  <2>1. PICK h : h = [g EXCEPT !.out = classify(out)]
    OBVIOUS
  <2>2. h.check = g.check /\ h.freed = g.freed
    BY <1>t, <2>1, GoroutineFields, ClassifyIsStatus
  <2>3. goroutines' = (goroutines \ {g}) \cup {h} /\ busy' = busy
    BY <1>6, <2>1 DEF CheckReturns
  <2> QED
    BY <1>t, <2>2, <2>3, RunningReplaced
<1> QED
  BY <1>1, <1>2, <1>3, <1>4, <1>5, <1>6
     DEF HealthNext, Handler, Serve, HealthTick, Finish, Deadline, Request, AnswerCached

\* Every step keeps what a waiting client was promised.
LEMMA StepMissed ==
  ASSUME HealthTypeOK, HolderEvaluates, MissedServed, HealthNext
  PROVE  HolderEvaluates' /\ MissedServed'
<1>t. /\ client \in [Clients -> {"idle", "waiting", "evaluating"}] /\ missed \subseteq Clients
      /\ age \in 0..CacheFor /\ elapsed \in 0..Timeout
  BY DEF HealthTypeOK
<1>a. CacheFor \in Nat /\ Timeout \in Nat /\ Timeout < CacheFor /\ Nobody \notin Clients
  BY HealthAssumption
<1>1. CASE HealthTick
  <2>1. mu = Nobody => missed = {}
    BY <1>1, <1>t DEF HealthTick, Settled, MissedServed
  <2> QED
    BY <1>1, <2>1 DEF HealthTick, HolderEvaluates, MissedServed
<1>2. CASE UNCHANGED <<age, mu, client, missed>>
  BY <1>2 DEF HolderEvaluates, MissedServed
<1>3. ASSUME NEW c \in Clients, Finish(c) PROVE HolderEvaluates' /\ MissedServed'
  <2>1. client[c] = "evaluating" /\ c \notin missed
    BY <1>3 DEF Finish, HolderEvaluates, MissedServed
  <2>2. age' < CacheFor
    BY <1>3, <1>a, <1>t DEF Finish
  <2> QED
    BY <1>3, <1>a, <1>t, <2>1, <2>2 DEF Finish, HolderEvaluates, MissedServed
<1>4. ASSUME NEW c \in Clients, Request(c) PROVE HolderEvaluates' /\ MissedServed'
  BY <1>4, <1>t DEF Request, HolderEvaluates, MissedServed
<1>5. ASSUME NEW c \in Clients, AnswerCached(c) PROVE HolderEvaluates' /\ MissedServed'
  BY <1>5, <1>t, <1>a DEF AnswerCached, HolderEvaluates, MissedServed
<1>6. ASSUME NEW c \in Clients, Evaluate(c) PROVE HolderEvaluates' /\ MissedServed'
  BY <1>6, <1>t, <1>a DEF Evaluate, HolderEvaluates, MissedServed
<1> QED
  BY <1>1, <1>2, <1>3, <1>4, <1>5, <1>6
     DEF HealthNext, Handler, Serve, Start, Deadline, Free, Report, CheckReturns

\* The inductive invariant holds in every reachable state of the handler.
LEMMA HealthInvariant == HealthSpec => []HealthInv
<1>1. HealthInit => HealthInv
  <2> SUFFICES ASSUME HealthInit PROVE HealthInv
    OBVIOUS
  <2>1. HealthTypeOK
    BY HealthAssumption DEF HealthInit, HealthTypeOK, Statuses
  <2>2. goroutines = {} /\ missed = {} /\ mu = Nobody /\ \A k \in Checks : ~busy[k]
    BY DEF HealthInit
  <2>3. BusyIsTrue
    BY <2>1, <2>2 DEF BusyIsTrue, OneGoroutinePerCheck, Running
  <2> QED
    BY <2>2, <2>3, HealthAssumption DEF HealthInv, FreedReturned, HolderEvaluates, MissedServed
<1>2. HealthInv /\ [HealthNext]_healthVars => HealthInv'
  <2> SUFFICES ASSUME HealthInv, [HealthNext]_healthVars PROVE HealthInv'
    OBVIOUS
  <2>1. CASE HealthNext
    BY <2>1, StepHealthType, StepFreed, StepBusy, StepMissed DEF HealthInv, BusyIsTrue
  <2>2. CASE UNCHANGED healthVars
    BY <2>2 DEF healthVars, HealthInv, BusyIsTrue, HealthTypeOK, OneGoroutinePerCheck, Running, FreedReturned,
                HolderEvaluates, MissedServed
  <2> QED
    BY <2>1, <2>2
<1> QED
  BY <1>1, <1>2, PTL DEF HealthSpec

\* runner: busy says exactly whether the check's one goroutine still runs, for
\* any number of pollers, hung checks, deadlines and panics.
THEOREM BusyAlwaysTrue == HealthSpec => []BusyIsTrue
<1>1. HealthInv => BusyIsTrue
  BY DEF HealthInv
<1> QED
  BY <1>1, HealthInvariant, PTL

\* current and run: a caller that waited while an evaluation was under way never
\* starts one of its own, and no evaluation reports a run an earlier one started.
THEOREM OneEvaluationAtATime == HealthSpec => OneEvaluation
<1> DEFINE Shared ==
      /\ \A c \in Clients :
           client[c] = "waiting" /\ client'[c] = "evaluating" => c \notin missed
      /\ \A g \in goroutines :
           ~g.mine /\ g \notin goroutines' /\ mu' = mu => res'[g.check] = res[g.check]
<1>1. HealthInv /\ [HealthNext]_healthVars => [Shared]_healthVars
  <2> SUFFICES ASSUME HealthInv, HealthNext PROVE Shared
    OBVIOUS
  <2>t. client \in [Clients -> {"idle", "waiting", "evaluating"}]
    BY DEF HealthInv, BusyIsTrue, HealthTypeOK
  <2>1. ASSUME NEW c \in Clients, client[c] = "waiting", client'[c] = "evaluating"
        PROVE  c \notin missed
    <3>1. PICK d \in Clients : Evaluate(d)
      BY <2>1, <2>t DEF HealthNext, Handler, Serve, HealthTick, Finish, Start, Deadline, Free, Report, Request,
                        AnswerCached, CheckReturns
    <3>2. mu = Nobody /\ ~(age < CacheFor)
      <4>1. age \in Int /\ CacheFor \in Int
        BY HealthAssumption DEF HealthInv, BusyIsTrue, HealthTypeOK
      <4> QED
        BY <3>1, <4>1 DEF Evaluate, Expired
    <3> QED
      BY <3>2 DEF HealthInv, MissedServed
  <2>2. ASSUME NEW g \in goroutines, ~g.mine, g \notin goroutines', mu' = mu
        PROVE  res'[g.check] = res[g.check]
    <3>1. CASE \E h \in goroutines : Report(h)
      <4>1. PICK h \in goroutines : Report(h)
        BY <3>1
      <4>2. g = h
        BY <2>2, <4>1 DEF Report
      <4> QED
        BY <2>2, <4>1, <4>2 DEF Report, ThisEvaluation
    <3>2. CASE \E c \in Clients : Evaluate(c)
      BY <2>2, <3>2, HealthAssumption DEF Evaluate
    <3>3. CASE res' = res
      BY <3>3
    <3>4. CASE goroutines \subseteq goroutines'
      BY <2>2, <3>4
    <3> QED
      BY <3>1, <3>2, <3>3, <3>4 DEF HealthNext, Handler, Serve, HealthTick, Finish, Start, Deadline, Free,
                                    Request, AnswerCached, CheckReturns
  <2> QED
    BY <2>1, <2>2
<1> QED
  BY <1>1, HealthInvariant, PTL DEF HealthSpec, OneEvaluation
=============================================================================

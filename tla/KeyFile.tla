------------------------------ MODULE KeyFile ------------------------------
(***************************************************************************)
(* keyfile: processes that load, create or store one key file, over a file *)
(* system that can lose power.  A directory entry is durable once its      *)
(* directory was synced, and a file's content once the file was; before    *)
(* that, power loss may keep either or lose it.  The key's own directory   *)
(* is an entry of its parent, which nobody syncs: one that MkdirAll made   *)
(* is at power's mercy until it lived through a power loss, however        *)
(* durable the names in it are.  Inside a process the                      *)
(* package mutex serialises creating and storing calls; a Load, which      *)
(* takes no lock, is one process more.                                     *)
(* Encodings, sizes and permissions show only as an unusable file.         *)
(***************************************************************************)
EXTENDS Integers

CONSTANTS
  Procs,      \* processes sharing the key path
  Keys,       \* what randRead may yield, or a caller may hand to Store
  Foreign,    \* a file this package cannot decode
  Torn,       \* a file whose content power loss cut short
  None

ASSUME KeysAssumption ==
  /\ None \notin Keys /\ Foreign \notin Keys /\ Torn \notin Keys
  /\ None # Foreign /\ None # Torn /\ Foreign # Torn

VARIABLES
  folder,    \* the directory of path: absent, made since power came on, or kept
  entry,     \* the file at path: [key, synced]
  durable,   \* the key at path when the directory was last synced
  call,      \* per process: [pc, op, key, synced], the last two of its temporary file
  minted,    \* every key some call started with
  returned,  \* every key LoadOrCreate or Load returned since power last failed
  created    \* every key write() reported stored in a kept directory

vars == <<folder, entry, durable, call, minted, returned, created>>

NoFile == [key |-> None, synced |-> TRUE]
NoCall == [pc |-> "idle", op |-> None, key |-> None, synced |-> FALSE]

\* No directory, a fresh one, or one where an unusable file is in place.
Init ==
  /\ folder \in {"absent", "kept"}
  /\ folder = "absent" => entry = NoFile
  /\ entry \in {NoFile, [key |-> Foreign, synced |-> TRUE]}
  /\ durable = entry.key
  /\ call = [p \in Procs |-> NoCall]
  /\ minted = {} /\ returned = {} /\ created = {}

Goto(p, to) == call' = [call EXCEPT ![p].pc = to]
Done(p) == call' = [call EXCEPT ![p] = NoCall]

Begin(p, op) ==
  /\ call[p].pc = "idle" /\ op \in {"LoadOrCreate", "Load"}
  /\ call' = [call EXCEPT ![p].pc = "read", ![p].op = op]
  /\ UNCHANGED <<folder, entry, durable, minted, returned, created>>

\* Store: the caller brings the key.
Store(p, key) ==
  /\ call[p].pc = "idle"
  /\ call' = [call EXCEPT ![p].pc = "mkdir", ![p].op = "Store", ![p].key = key]
  /\ minted' = minted \cup {key}
  /\ UNCHANGED <<folder, entry, durable, returned, created>>

\* read: the file decodes and is returned; anything else is an error, and
\* left as it is.

Read(p) ==
  /\ call[p].pc \in {"read", "reread"} /\ entry.key # None
  /\ returned' = IF entry.key \in Keys THEN returned \cup {entry.key} ELSE returned
  /\ Done(p)
  /\ UNCHANGED <<folder, entry, durable, minted, created>>

\* read: there is no file.  Only LoadOrCreate's first read goes on to create.
NotFound(p) ==
  /\ call[p].pc \in {"read", "reread"} /\ entry.key = None
  /\ IF call[p].pc = "read" /\ call[p].op = "LoadOrCreate"
       THEN Goto(p, "mkdir")
       ELSE Done(p)
  /\ UNCHANGED <<folder, entry, durable, minted, returned, created>>

\* os.MkdirAll of the path's directory; its parent is not synced, then or later.
MkdirAll(p) ==
  /\ call[p].pc = "mkdir"
  /\ folder' = IF folder = "absent" THEN "made" ELSE folder
  /\ Goto(p, IF call[p].op = "Store" THEN "write" ELSE "create")
  /\ UNCHANGED <<entry, durable, minted, returned, created>>

\* create: a fresh key, into a temporary file of its own.
Create(p, key) ==
  /\ call[p].pc = "create"
  /\ key \notin minted
  /\ call' = [call EXCEPT ![p].pc = "write", ![p].key = key]
  /\ minted' = minted \cup {key}
  /\ UNCHANGED <<folder, entry, durable, returned, created>>

\* write: content, then fsync, then close; any of them may fail, as MkdirAll,
\* randRead and os.Link may before and after.

WriteAndSync(p) ==
  /\ call[p].pc = "write"
  /\ call' = [call EXCEPT ![p].pc = "link", ![p].synced = TRUE]
  /\ UNCHANGED <<folder, entry, durable, minted, returned, created>>

WriteFails(p) ==
  /\ call[p].pc \in {"mkdir", "create", "write", "link"}
  /\ Done(p)
  /\ UNCHANGED <<folder, entry, durable, minted, returned, created>>

\* os.Link refuses a name that is taken.
NameFree == entry.key = None

Link(p) ==
  /\ call[p].pc = "link" /\ NameFree
  /\ entry' = [key |-> call[p].key, synced |-> call[p].synced]
  /\ Goto(p, "syncdir")
  /\ UNCHANGED <<folder, durable, minted, returned, created>>

\* EEXIST: LoadOrCreate re-reads the winner's key, Store reports it.
\* Variant with a bug: the loser returns the key it minted.
KeepsOwn(p) ==
  /\ call[p].pc = "link" /\ ~NameFree
  /\ returned' = IF call[p].op = "LoadOrCreate" THEN returned \cup {call[p].key} ELSE returned
  /\ Done(p)
  /\ UNCHANGED <<folder, entry, durable, minted, created>>

Lost(p) ==
  /\ call[p].pc = "link" /\ ~NameFree
  /\ IF call[p].op = "LoadOrCreate" THEN Goto(p, "reread") ELSE Done(p)
  /\ UNCHANGED <<folder, entry, durable, minted, returned, created>>

\* The directory is synced and the call returns its key.
\* Variant with a bug: it returns without syncing.
NoSyncDir(p) ==
  /\ call[p].pc = "syncdir"
  /\ created' = IF folder = "kept" THEN created \cup {call[p].key} ELSE created
  /\ returned' = IF call[p].op = "LoadOrCreate" THEN returned \cup {call[p].key} ELSE returned
  /\ Done(p)
  /\ UNCHANGED <<folder, entry, durable, minted>>

SyncDir(p) ==
  /\ call[p].pc = "syncdir"
  /\ durable' = entry.key
  /\ created' = IF folder = "kept" THEN created \cup {call[p].key} ELSE created
  /\ returned' = IF call[p].op = "LoadOrCreate" THEN returned \cup {call[p].key} ELSE returned
  /\ Done(p)
  /\ UNCHANGED <<folder, entry, minted>>

\* syncDir fails: an error, though the name is in place.
SyncDirFails(p) ==
  /\ call[p].pc = "syncdir"
  /\ Done(p)
  /\ UNCHANGED <<folder, entry, durable, minted, returned, created>>

\* A process dies, leaving a temporary file nothing else looks at.
Crash(p) ==
  /\ call[p].pc # "idle"
  /\ Done(p)
  /\ UNCHANGED <<folder, entry, durable, minted, returned, created>>

\* Power fails: every process dies; an entry not yet durable is kept or lost,
\* a file not yet synced is kept or cut short, and a directory made since power
\* came on is kept or lost with all that is in it (external).
PowerLoss ==
  /\ call' = [p \in Procs |-> NoCall]
  /\ \/ /\ folder = "made"
        /\ folder' = "absent" /\ entry' = NoFile
     \/ /\ folder' = IF folder = "made" THEN "kept" ELSE folder
        /\ entry' \in
             (IF durable = None THEN {NoFile} ELSE {}) \cup
             {[key |-> k, synced |-> TRUE] : k \in {entry.key} \cup
                                                   (IF entry.synced THEN {} ELSE {Torn})}
  /\ durable' = entry'.key
  /\ returned' = {}
  /\ UNCHANGED <<minted, created>>

Next ==
  \/ PowerLoss
  \/ \E p \in Procs :
       \/ \E op \in {"LoadOrCreate", "Load"} : Begin(p, op)
       \/ \E key \in Keys : Store(p, key) \/ Create(p, key)
       \/ Read(p) \/ NotFound(p) \/ MkdirAll(p) \/ WriteAndSync(p) \/ WriteFails(p)
       \/ Link(p) \/ Lost(p) \/ SyncDir(p) \/ SyncDirFails(p) \/ Crash(p)

Spec == Init /\ [][Next]_vars

-----------------------------------------------------------------------------
(* Properties *)

Contents == Keys \cup {Foreign, Torn, None}

\* The file, the calls and the histories have their types.
TypeOK ==
  /\ folder \in {"absent", "made", "kept"}
  /\ entry \in [key : Contents, synced : BOOLEAN] /\ durable \in Contents
  /\ call \in [Procs -> [pc : {"idle", "read", "reread", "mkdir", "create", "write", "link", "syncdir"},
                         op : {"LoadOrCreate", "Load", "Store", None},
                         key : Keys \cup {None}, synced : BOOLEAN]]
  /\ minted \subseteq Keys /\ returned \subseteq Keys /\ created \subseteq Keys

\* write: no crash or power loss leaves part of a key at the real path, which
\* this package would then refuse to replace for ever.
NoTornKey == entry.key # Torn

\* write: a key it reported stored in a directory that was there when power
\* came on is at the path for good, whole, power loss or not.  In a directory
\* the package made itself the promise ends at the next power loss.
StoredIsDurable ==
  /\ TypeOK /\ NoTornKey
  /\ \A k \in created : durable = k /\ entry.key = k

Promise == INSTANCE KeyStore WITH
  value <- entry.key, settled <- durable # None /\ folder = "kept",
  handed <- returned

\* LoadOrCreate, Load and Store implement KeyStore: whatever is at the path is
\* never replaced, a file the package cannot read included, and from one power
\* loss to the next every process gets the same whole key, however many start
\* at once, fail half way or crash.
ImplementsKeyStore == Promise!Spec
=============================================================================

------------------------------ MODULE Capsule ------------------------------
(***************************************************************************)
(* capsule and the restore that uses it.  Seal turns files into a tar      *)
(* sealed to a recovery key under its manifest; Open authenticates it and  *)
(* extracts it member by member, in memory or into a directory it found    *)
(* empty or absent, and rolls back what it wrote when a step fails, as far *)
(* as removing it works.                                                   *)
(* A name is the sequence of its '/'-separated segments, bytes are counted *)
(* and not spelled out, a digest is what it digests, and a ciphertext      *)
(* opens only under the key and the manifest it was sealed with.           *)
(***************************************************************************)
EXTENDS Integers, Sequences

CONSTANTS
  Openers,           \* concurrent restores into one target directory
  Keys, Services,
  Inputs,            \* lists of files a product hands to Seal
  Kits,              \* <<threshold, total>> of custodian shares
  Others,            \* tar members another writer may seal
  MaxFiles, MaxFileBytes, MaxExpandedBytes, maxFileListBytes,
  Block,             \* bytes of a tar block: a header is one, content is padded to it
  EntryBytes,        \* bytes of one entry of the encoded file list
  Attempts,          \* bound: restores ever started
  AsJSON,            \* the segments that are not valid UTF-8, and what JSON makes of each
  None

ASSUME LimitsAssumption ==
  /\ {MaxFiles, MaxFileBytes, MaxExpandedBytes, maxFileListBytes, Attempts} \subseteq Nat
  /\ Block \in Nat \ {0} /\ EntryBytes \in Nat

\* The permission bits of a file that matter here: the owner's, and those of
\* anybody else.
Bits == {"r", "w", "x", "group", "other"}
FileOf == [path : Seq(STRING), size : Nat, body : Nat, mode : SUBSET Bits]

\* Nothing JSON puts in a name is invalid again.
ASSUME NamesAssumption ==
  /\ DOMAIN AsJSON \subseteq STRING
  /\ \A s \in DOMAIN AsJSON : AsJSON[s] \in STRING /\ AsJSON[s] \notin DOMAIN AsJSON

\* A Go slice of files is a sequence of them, and a tar is one of members,
\* whose entries are what json.Unmarshal reads in its content.
ASSUME InputsAssumption ==
  /\ None \notin Seq(FileOf)
  /\ Inputs \subseteq Seq(FileOf)
  /\ Others \subseteq Seq([name : Seq(STRING), type : {"reg", "symlink"}, size : Nat, body : Nat,
                           mode : SUBSET Bits, entries : {None} \cup Seq(FileOf)])

VARIABLES
  container,   \* the stored file: [manifest, ct, files], files being what Seal was given
  sealings,    \* every manifest and ciphertext anyone sealed
  target,      \* the directory: [gen, nodes]; gen 0 is absent
  call,        \* per opener: the extraction in progress, stuck being what it could not remove
  tries

vars == <<container, sealings, target, call, tries>>

Absent == [gen |-> 0, nodes |-> {}]
NoCall == [pc |-> "idle", raw |-> None, expect |-> None, found |-> {}, created |-> FALSE, root |-> 0,
           at |-> 1, seen |-> 0, files |-> <<>>, list |-> None, err |-> None, stuck |-> {}]

Init ==
  /\ container = None /\ sealings = {} /\ tries = 0
  /\ target \in {Absent, [gen |-> 1, nodes |-> {}],
                 [gen |-> 1, nodes |-> {[path |-> <<"kept">>, file |-> None]}]}
  /\ call = [o \in Openers |-> NoCall]

----------------------------------------------------------------------------
\* Names and modes

Empty == ""
Backslash == "\\"

\* filepath.Clean takes one segment more: it drops "." and what ".." steps out of.
Walk(acc, s) ==
  IF s \in {Empty, "."} THEN acc
  ELSE IF s = ".." /\ acc # <<>> /\ acc[Len(acc)] # ".." THEN SubSeq(acc, 1, Len(acc) - 1)
  ELSE Append(acc, s)

\* filepath.Clean; "." is the empty sequence.
Clean(name) ==
  LET c[i \in 0..Len(name)] == IF i = 0 THEN <<>> ELSE Walk(c[i - 1], name[i])
  IN  c[Len(name)]

\* safeRelPath accepts: not empty or absolute, no NUL or backslash, and what
\* Clean leaves stays inside.
SafeRelPath(name) ==
  /\ name[1] # Empty /\ \A i \in DOMAIN name : name[i] # Backslash
  /\ Clean(name) # <<>> /\ Clean(name)[1] # ".."

ReservedFileList == <<".", ".kycap-files.json">>

\* Owner bits only, and 0600 when none is left.
Clamp(mode) ==
  LET owner == mode \ {"group", "other"} IN IF owner = {} THEN {"r", "w"} ELSE owner

Entry(f) == [path |-> Clean(f.path), size |-> f.size, body |-> f.body, mode |-> Clamp(f.mode)]
Entries(files) == [i \in DOMAIN files |-> Entry(files[i])]

\* A name is carried whole by the tar, but json.Marshal puts U+FFFD for every byte
\* that is not valid UTF-8.
Jsoned(name) ==
  [i \in DOMAIN name |-> IF name[i] \in DOMAIN AsJSON THEN AsJSON[name[i]] ELSE name[i]]

AsListed(files) == [i \in DOMAIN files |-> [Entry(files[i]) EXCEPT !.path = Jsoned(@)]]

----------------------------------------------------------------------------
\* Sealing

Total(files) ==
  LET t[i \in 0..Len(files)] == IF i = 0 THEN 0 ELSE t[i - 1] + files[i].size
  IN  t[Len(files)]

ListBytes(files) == EntryBytes * Len(files)

\* The tar: one member per file, the encoded list last, under its reserved name.
Payload(files) ==
  [i \in 1..(Len(files) + 1) |->
     IF i <= Len(files)
     THEN [name |-> Clean(files[i].path), type |-> "reg", size |-> files[i].size,
           body |-> files[i].body, mode |-> Clamp(files[i].mode), entries |-> None]
     ELSE [name |-> ReservedFileList, type |-> "reg", size |-> ListBytes(files),
           body |-> None, mode |-> {"r", "w"}, entries |-> AsListed(files)]]

\* buildPayload's limits: every one of them refuses the whole capsule.
Builds(files) ==
  /\ Len(files) \in 1..MaxFiles
  /\ \A i \in DOMAIN files :
        /\ SafeRelPath(files[i].path) /\ files[i].size <= MaxFileBytes
        /\ \A j \in 1..(i - 1) : Clean(files[j].path) # Clean(files[i].path)
  /\ ListBytes(files) <= maxFileListBytes
  /\ Total(files) + ListBytes(files) <= MaxExpandedBytes

\* A kit shamir.Split could have issued.
Recoverable(kit) == kit[1] >= 2 /\ kit[1] <= kit[2] /\ kit[2] <= 255

Sealed(service, to, kit, hash, members) ==
  LET m == [service |-> service, keyID |-> to, kit |-> kit, hash |-> hash]
  IN [manifest |-> m, ct |-> [to |-> to, aad |-> m, plain |-> members]]

Put(files, s) ==
  /\ container' = [manifest |-> s.manifest, ct |-> s.ct, files |-> files]
  /\ sealings' = sealings \cup {s}
  /\ UNCHANGED <<target, call, tries>>

\* The bound on the encoded manifest, which files do not enter, is left out.
Seal(files, service, to, kit) ==
  /\ container = None /\ Recoverable(kit) /\ Builds(files)
  /\ Put(files, Sealed(service, to, kit, Payload(files), Payload(files)))

\* Anyone who holds the public key may seal a tar of his own, its hash and its
\* kit right or not.
SealOther(members, service, to, kit, hash) ==
  /\ container = None
  /\ Put(None, Sealed(service, to, kit, hash, members))

\* The stored manifest is edited: it no longer is what the ciphertext authenticates.
EditManifest(service, keyID) ==
  /\ container # None
  /\ container' = [container EXCEPT !.manifest.service = service, !.manifest.keyID = keyID]
  /\ UNCHANGED <<sealings, target, call, tries>>

----------------------------------------------------------------------------
\* Opening

ServiceMatches(raw, service) == raw.manifest.service = service

\* decryptPayload: the key is the one named, the AEAD opens under the manifest
\* as it was read, and the payload has the hash the manifest declares.
Decrypts(raw, key) ==
  /\ raw.manifest.keyID = key
  /\ raw.ct.to = key /\ raw.ct.aad = raw.manifest
  /\ raw.manifest.hash # None /\ raw.manifest.hash = raw.ct.plain

\* Restore reads the capsule, refuses another service's, combines the shares
\* to a key and calls Open; with no target directory Open stays in memory.
Restore(o, service, key, onDisk) ==
  /\ call[o].pc \in {"idle", "done", "failed"} /\ container # None /\ tries < Attempts
  /\ tries' = tries + 1
  /\ call' = [call EXCEPT ![o] =
       [pc |-> IF ~(ServiceMatches(container, service) /\ Decrypts(container, key)) THEN "failed"
               ELSE IF onDisk THEN "stat" ELSE "extract",
        raw |-> container, expect |-> <<service, key>>, found |-> target.nodes,
        created |-> FALSE, root |-> 0, at |-> 1, seen |-> 0, files |-> <<>>, list |-> None,
        err |-> IF ServiceMatches(container, service) /\ Decrypts(container, key)
                THEN None ELSE "unopened",
        stuck |-> {}]]
  /\ UNCHANGED <<container, sealings, target>>

\* prepareTargetDir looks, makes the directory, looks inside and opens it.
Stat(o) ==
  /\ call[o].pc = "stat"
  /\ call' = [call EXCEPT ![o].pc = IF target.gen = 0 THEN "mkdir" ELSE "readdir"]
  /\ UNCHANGED <<container, sealings, target, tries>>

Mkdir(o) ==
  /\ call[o].pc = "mkdir"
  /\ target' = IF target.gen = 0 THEN [gen |-> tries + 1, nodes |-> {}] ELSE target
  /\ call' = [call EXCEPT ![o].pc = "readdir", ![o].created = TRUE]
  /\ UNCHANGED <<container, sealings, tries>>

OpensAnything(o) == TRUE               \* variant with a bug: no emptiness check

TargetUsable(o) == target.gen # 0 /\ target.nodes = {}

OpenRoot(o) ==
  /\ call[o].pc = "readdir" /\ TargetUsable(o)
  /\ call' = [call EXCEPT ![o].pc = "extract", ![o].root = target.gen]
  /\ UNCHANGED <<container, sealings, target, tries>>

\* Each of the four may fail, and finds no use for a directory that is not empty;
\* one this call has made stays.
PrepareFails(o) ==
  /\ call[o].pc \in {"stat", "mkdir", "readdir"}
  /\ call' = [call EXCEPT ![o].pc = "failed", ![o].err = "unusable"]
  /\ UNCHANGED <<container, sealings, target, tries>>

Members(o) == call[o].raw.ct.plain
Member(o) == Members(o)[call[o].at]
Extracted(m) ==
  [path |-> Clean(m.name), size |-> m.size, body |-> m.body, mode |-> Clamp(m.mode)]
Padded(n) == ((n + Block - 1) \div Block) * Block

\* countingReader: what the tar reader has pulled once it has read n bytes more.
Exhausts(o, n) == call[o].seen + n > MaxExpandedBytes

TooMany(o) == Len(call[o].files) >= MaxFiles

ListRefused(o, m) ==
  \/ call[o].list # None
  \/ m.size > maxFileListBytes
  \/ m.entries = None

FileRefused(o, m) ==
  \/ TooMany(o) \/ m.size > MaxFileBytes
  \/ ~SafeRelPath(m.name)
  \/ \E i \in DOMAIN call[o].files : call[o].files[i].path = Clean(m.name)

Refused(o, m) ==
  \/ m.type # "reg"
  \/ IF m.name = ReservedFileList THEN ListRefused(o, m) ELSE FileRefused(o, m)

Fail(o, err) == call' = [call EXCEPT ![o].pc = "rollback", ![o].err = err]

\* A member is refused before anything of it is written.
RefuseMember(o) ==
  /\ call[o].pc = "extract" /\ call[o].at <= Len(Members(o))
  /\ \/ Exhausts(o, Block + Member(o).size) /\ Fail(o, "tooLarge")
     \/ Refused(o, Member(o)) /\ Fail(o, "refused")
  /\ UNCHANGED <<container, sealings, target, tries>>

Taken(o, m, files, list) ==
  call' = [call EXCEPT ![o].at = @ + 1, ![o].seen = @ + Block + Padded(m.size),
                       ![o].files = files, ![o].list = list]

ReadList(o) ==
  /\ call[o].pc = "extract" /\ call[o].at <= Len(Members(o))
  /\ ~Exhausts(o, Block + Member(o).size) /\ ~Refused(o, Member(o))
  /\ Member(o).name = ReservedFileList
  /\ Taken(o, Member(o), call[o].files, Member(o).entries)
  /\ UNCHANGED <<container, sealings, target, tries>>

FileAt(nodes, p) == \E n \in nodes : n.path = p /\ n.file # None
Parents(p) == {SubSeq(p, 1, i) : i \in 1..(Len(p) - 1)}

\* root.MkdirAll stops at a file that stands where a directory is needed.
WithParents(nodes, p) ==
  nodes \cup {[path |-> d, file |-> None] :
                d \in {x \in Parents(p) : \A y \in Parents(x) \cup {x} : ~FileAt(nodes, y)}}

\* OpenFile with O_EXCL, beneath parents that are directories.
Creatable(nodes, p) ==
  /\ \A d \in Parents(p) : ~FileAt(nodes, d)
  /\ \A n \in nodes : n.path # p

\* The root handle still names the directory at the path.
Holds(o) == target.gen = call[o].root

\* A file is appended, and written into when there is a target.
TakeFile(o) ==
  LET m == Member(o)
      f == Extracted(m)
  IN /\ call[o].pc = "extract" /\ call[o].at <= Len(Members(o))
     /\ ~Exhausts(o, Block + m.size) /\ ~Refused(o, m) /\ m.name # ReservedFileList
     /\ \/ /\ call[o].root = 0
           /\ Taken(o, m, Append(call[o].files, f), call[o].list)
           /\ UNCHANGED target
        \/ /\ call[o].root # 0 /\ Holds(o) /\ Creatable(target.nodes, f.path)
           /\ target' = [target EXCEPT !.nodes =
                           WithParents(@, f.path) \cup {[path |-> f.path, file |-> f]}]
           /\ Taken(o, m, Append(call[o].files, f), call[o].list)
        \/ /\ call[o].root # 0 /\ ~(Holds(o) /\ Creatable(target.nodes, f.path))
           /\ target' = IF Holds(o) THEN [target EXCEPT !.nodes = WithParents(@, f.path)]
                        ELSE target
           /\ Fail(o, "exists")
        \/ /\ call[o].root # 0 /\ Holds(o) /\ Creatable(target.nodes, f.path)
           /\ target' = [target EXCEPT !.nodes =
                           WithParents(@, f.path)
                             \cup {[path |-> f.path, file |-> [f EXCEPT !.body = None]]}]
           /\ Fail(o, "io")
     /\ UNCHANGED <<container, sealings, tries>>

Lenient(o) == TRUE                     \* variant with a bug: the list is not compared

\* reconcileFileList: one entry per file, in order, every field equal.
Reconciles(o) == call[o].list = None \/ call[o].list = call[o].files

\* The end of the archive: two empty blocks, then the list is compared.
Finish(o) ==
  /\ call[o].pc = "extract" /\ call[o].at > Len(Members(o))
  /\ \/ Exhausts(o, 2 * Block) /\ Fail(o, "tooLarge")
     \/ ~Exhausts(o, 2 * Block) /\ ~Reconciles(o) /\ Fail(o, "corrupt")
     \/ ~Exhausts(o, 2 * Block) /\ Reconciles(o) /\ call' = [call EXCEPT ![o].pc = "done"]
  /\ UNCHANGED <<container, sealings, target, tries>>

\* What failing removals may leave: nodes, each with the directories above it.
Leftovers(nodes) ==
  {left \in SUBSET nodes :
     \A n \in left : \A d \in Parents(n.path) : [path |-> d, file |-> None] \in left}

\* rollback: a directory this call made is removed, another is emptied through
\* the root handle; what cannot be removed, and a listing that fails, is passed over.
RolledBack(o, left) ==
  IF call[o].created
  THEN {[target EXCEPT !.nodes = left]} \cup (IF left = {} THEN {Absent} ELSE {})
  ELSE {[target EXCEPT !.nodes = left]}

Rollback(o) ==
  /\ call[o].pc = "rollback"
  /\ \/ /\ call[o].root = 0 \/ (~call[o].created /\ ~Holds(o))
        /\ call' = [call EXCEPT ![o].pc = "failed"]
        /\ UNCHANGED target
     \/ /\ call[o].root # 0 /\ (call[o].created \/ Holds(o))
        /\ \E left \in Leftovers(target.nodes) :
             /\ target' \in RolledBack(o, left)
             /\ call' = [call EXCEPT ![o].pc = "failed", ![o].stuck = left]
  /\ UNCHANGED <<container, sealings, tries>>

\* The process dies: no deferred function runs.
Crash(o) ==
  /\ call[o].pc \notin {"idle", "done", "failed"}
  /\ call' = [call EXCEPT ![o] = NoCall]
  /\ UNCHANGED <<container, sealings, target, tries>>

Next ==
  \/ \E f \in Inputs, s \in Services, k \in Keys, kit \in Kits : Seal(f, s, k, kit)
  \/ \E m \in Others, s \in Services, k \in Keys, kit \in Kits, h \in BOOLEAN :
        SealOther(m, s, k, kit, IF h THEN m ELSE None)
  \/ \E s \in Services, k \in Keys : EditManifest(s, k)
  \/ \E o \in Openers :
       \/ \E s \in Services, k \in Keys, d \in BOOLEAN : Restore(o, s, k, d)
       \/ Stat(o) \/ Mkdir(o) \/ OpenRoot(o) \/ PrepareFails(o)
       \/ RefuseMember(o) \/ ReadList(o) \/ TakeFile(o) \/ Finish(o)
       \/ Rollback(o) \/ Crash(o)

Spec == Init /\ [][Next]_vars

----------------------------------------------------------------------------
\* Properties

\* The states the package can be in: a root handle is only held while members
\* are written or rolled back, and the reader never hands on more than its budget.
TypeOK ==
  /\ tries \in 0..Attempts
  /\ \A n \in target.nodes : n.path # <<>> /\ \A i \in DOMAIN n.path : n.path[i] \notin {"..", "."}
  /\ target.gen = 0 => target.nodes = {}
  /\ \A o \in Openers :
       /\ call[o].pc \in {"idle", "stat", "mkdir", "readdir", "extract", "rollback", "done", "failed"}
       /\ Len(call[o].files) <= MaxFiles
       /\ Total(call[o].files) <= MaxExpandedBytes

\* A restore that succeeded holds what someone sealed to the key the shares
\* rebuilt, for the service the operator named, although Restore compares the
\* service on bytes nobody had authenticated yet (restore.go:25-31).
RestoredAsSealed ==
  \A o \in Openers : call[o].pc = "done" =>
    \E s \in sealings : /\ s.manifest = call[o].raw.manifest /\ s.ct = call[o].raw.ct
                       /\ <<s.manifest.service, s.ct.to>> = call[o].expect

\* Open returns the files that were sealed, each under its normalised path and
\* clamped mode and once, and the list it returns describes them (extract.go:185-187).
RoundTrip ==
  \A o \in Openers : call[o].pc = "done" =>
    /\ call[o].raw.files # None => call[o].files = Entries(call[o].raw.files)
    /\ call[o].list # None => call[o].list = call[o].files
    /\ \A i, j \in DOMAIN call[o].files :
         call[o].files[i].path = call[o].files[j].path => i = j
    /\ \A i \in DOMAIN call[o].files :
         call[o].files[i].mode # {} /\ call[o].files[i].mode \subseteq {"r", "w", "x"}

\* A restore that succeeded is on disk: every file it returned is in the
\* directory, with its content (capsule.go:55-58).
RestoredOnDisk ==
  \A o \in Openers : call[o].pc = "done" /\ call[o].root # 0 =>
    /\ Holds(o)
    /\ \A i \in DOMAIN call[o].files :
         [path |-> call[o].files[i].path, file |-> call[o].files[i]] \in target.nodes

\* Apart from the framing of the archive, which Seal does not count, and from
\* names that are not valid UTF-8, whose list no longer matches them, nothing in
\* Open refuses in memory what Seal let through (seal.go:124-127, 148-149).
LimitsAgree ==
  \A o \in Openers :
    call[o].pc = "failed" /\ call[o].raw.files # None /\ call[o].root = 0 =>
      \/ call[o].err \in {"unopened", "unusable", "tooLarge"}
      \/ call[o].err = "corrupt" /\ AsListed(call[o].raw.files) # Entries(call[o].raw.files)

\* The comment on reconcileFileList has every capsule that Seal wrote pass it
\* (extract.go:186-188).
SealedAlwaysPasses ==
  \A o \in Openers :
    call[o].pc = "failed" /\ call[o].raw.files # None => call[o].err # "corrupt"

\* A restore that succeeded brought back exactly what was sealed: from the right
\* seal, every file once and as it was, and all of it on disk; and in memory what
\* Seal let through is refused for the size of the whole archive or for a name
\* that is not valid UTF-8, and for nothing else.
RestoredWhole == TypeOK /\ RestoredAsSealed /\ RoundTrip /\ RestoredOnDisk /\ LimitsAgree

\* A restore that failed leaves in the directory exactly what it found there,
\* so that the next attempt is not refused for its sake (extract.go:77-80), but
\* for what it wrote and could not remove.
FailureLeavesNothing ==
  \A o \in Openers : call[o].pc = "failed" => target.nodes \ call[o].stuck = call[o].found
=============================================================================

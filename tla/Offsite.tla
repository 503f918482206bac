------------------------------ MODULE Offsite ------------------------------
(***************************************************************************)
(* offsite: callers that put, get and probe objects on one target of any   *)
(* of its four kinds.  File, SFTP and SMB stage an object under a random   *)
(* name and rename it; S3 hashes its source first, and reads one that can  *)
(* be rewound a second time to send it.  A source is read in two pieces    *)
(* until it ends, whatever size was declared, and another process may      *)
(* rewrite it or cut it short in between.  A network session can be lost   *)
(* at any point, with the request done or not, and a removal can fail.     *)
(* A name is a sequence of components, a component one of characters,      *)
(* because the name rules decide which objects a server takes for one.     *)
(***************************************************************************)
EXTENDS Integers, Sequences, FiniteSets

CONSTANTS
  Callers,
  Kinds,      \* subset of {"file", "s3", "sftp", "smb"}: the targets configured
  Names,      \* names callers use
  Contents,
  Calls,      \* bound: operations ever started
  Changes,    \* bound: changes of one source under one operation
  Unset

ASSUME OffsiteAssumption ==
  /\ Kinds \subseteq {"file", "s3", "sftp", "smb"} /\ Calls \in Nat /\ Changes \in Nat
  /\ Unset \notin Names /\ Names \subseteq Seq(Seq(STRING))

VARIABLES
  kind,
  objects,   \* what the server holds: [at, name, content, steady]
  staging,   \* staging files: [by, call]
  call,      \* per caller: [pc, id, name, source, changes, read, hash]
  left,      \* operations that could not clean up: session lost, process dead, removal failed
  started

offsiteVars == <<kind, objects, staging, call, left, started>>

Whole(d) == <<d, d>>      \* the two pieces of a source that holds d

NewCall(pc, id, name, source, read) ==
  [pc |-> pc, id |-> id, name |-> name, source |-> source, changes |-> 0, read |-> read, hash |-> <<>>]
NoCall == NewCall("idle", 0, Unset, <<>>, <<>>)

OffsiteInit ==
  /\ kind \in Kinds /\ objects = {} /\ staging = {} /\ left = {} /\ started = 0
  /\ call = [c \in Callers |-> NoCall]

----------------------------------------------------------------------------
\* Names

Lower == {"a", "b", "n", "u", "l", "1"}
Marks == {".", "_", "-"}
StagingPrefix == "TMP"                  \* .ky-offsite-tmp-, as one character
PingName == <<<<"PING">>>>              \* .ky-offsite-ping, likewise

CleanName(name) ==
  \A i \in DOMAIN name :
    name[i] \notin {<<>>, <<".">>, <<".", ".">>} /\ name[i][1] # StagingPrefix

AnyCase(name) == CleanName(name)        \* variant with a bug: no grammar of its own

Stem(part) ==
  LET dots == {i \in DOMAIN part : part[i] = "."}
  IN IF dots = {} THEN part
     ELSE SubSeq(part, 1, (CHOOSE i \in dots : \A j \in dots : i <= j) - 1)

\* cleanSMBName: lowercase letters, digits and three marks, no trailing dot, no
\* Windows device name ("nul" stands for them).
CleanSMBName(name) ==
  /\ CleanName(name)
  /\ \A i \in DOMAIN name :
       /\ \A j \in DOMAIN name[i] : name[i][j] \in Lower \cup Marks
       /\ name[i][Len(name[i])] # "."
       /\ Stem(name[i]) # <<"n", "u", "l">>

Admitted(name) == IF kind = "smb" THEN CleanSMBName(name) ELSE CleanName(name)

\* A Windows server folds case, drops trailing dots and sends every device name
\* to one device.
Fold(ch) == IF ch = "A" THEN "a" ELSE IF ch = "B" THEN "b" ELSE ch
WindowsPart(part) ==
  LET folded == [j \in DOMAIN part |-> Fold(part[j])]
      kept == {j \in DOMAIN part : \E k \in j..Len(part) : part[k] # "."}
  IN IF Stem(folded) = <<"n", "u", "l">> THEN <<"n", "u", "l">>
     ELSE SubSeq(folded, 1, Cardinality(kept))
ServerName(name) ==
  IF kind = "smb" THEN [i \in DOMAIN name |-> WindowsPart(name[i])] ELSE name

At(k) == {o \in objects : o.at = k}
Stored(name, content, steady) ==
  (objects \ At(ServerName(name))) \cup
    {[at |-> ServerName(name), name |-> name, content |-> content, steady |-> steady]}

----------------------------------------------------------------------------
\* Put

Goto(c, to) == call' = [call EXCEPT ![c].pc = to]
Finish(c, ending, read) ==
  call' = [call EXCEPT ![c] = NewCall(ending, call[c].id, call[c].name, <<>>, read)]
Fail(c) == Finish(c, "failed", <<>>)
Own(c) == {s \in staging : s.by = c /\ s.call = call[c].id}
Idle(c) == call[c].pc \in {"idle", "done", "failed", "exists"}

Start(c, name, content, to) ==
  /\ Idle(c) /\ started < Calls
  /\ started' = started + 1
  /\ call' = [call EXCEPT ![c] =
       NewCall(to, started + 1, name, IF to = "failed" THEN <<>> ELSE Whole(content), <<>>)]
  /\ UNCHANGED <<kind, objects, staging, left>>

\* The name is checked first; then the session is opened, and parents are made.
Put(c, name, content) ==
  Start(c, name, content,
        IF ~Admitted(name) THEN "failed"
        ELSE CASE kind = "s3" -> "hash" [] kind = "smb" -> "stat" [] OTHER -> "open")

\* SMB looks for the object before it stages anything.
Stat(c) ==
  /\ call[c].pc = "stat"
  /\ IF At(ServerName(call[c].name)) # {} THEN Finish(c, "exists", <<>>) ELSE Goto(c, "open")
  /\ UNCHANGED <<kind, objects, staging, left, started>>

OpenStaging(c) ==
  /\ call[c].pc = "open"
  /\ staging' = staging \cup {[by |-> c, call |-> call[c].id]}
  /\ Goto(c, "copy")
  /\ UNCHANGED <<kind, objects, left, started>>

Reading(c) == call[c].pc \in {"copy", "hash", "send"}

OnePiece(c) == call[c].read # <<>>      \* variant with a bug: one read is taken for all of it

AtEnd(c) == Len(call[c].read) >= Len(call[c].source)

\* io.Copy: one more piece of the source, written to the staging file, hashed or sent.
Copy(c) ==
  /\ Reading(c) /\ ~AtEnd(c)
  /\ call' = [call EXCEPT ![c].read = Append(@, call[c].source[Len(@) + 1])]
  /\ UNCHANGED <<kind, objects, staging, left, started>>

Shorter(source) == SubSeq(source, 1, Len(source) - 1)

\* Another process rewrites the source between two reads, or cuts it short.
SourceChanges(c) ==
  /\ Reading(c) /\ call[c].changes < Changes
  /\ \E source \in {Whole(d) : d \in Contents} \cup {Shorter(call[c].source)} :
       call' = [call EXCEPT ![c].source = source, ![c].changes = @ + 1]
  /\ UNCHANGED <<kind, objects, staging, left, started>>

\* The copy ends where the source does, and the staging file is closed.
CopyEnds(c) ==
  /\ call[c].pc = "copy" /\ AtEnd(c)
  /\ Goto(c, "rename")
  /\ UNCHANGED <<kind, objects, staging, left, started>>

\* When a step fails and the session still stands, the staging file is removed,
\* and an error of that removal is ignored.
CleanUp(c) ==
  \/ staging' = staging \ Own(c) /\ UNCHANGED left
  \/ left' = left \cup {call[c].id} /\ UNCHANGED staging

PutFails(c) ==
  /\ call[c].pc \in {"copy", "rename"}
  /\ CleanUp(c)
  /\ Fail(c)
  /\ UNCHANGED <<kind, objects, started>>

AlwaysFree(c) == TRUE                   \* variant with a bug: SMB replaces as well

\* os.Root and PosixRename replace an object; SMB's rename refuses to.
MayRename(c) == kind # "smb" \/ At(ServerName(call[c].name)) = {}

Renamed(c) ==
  /\ call[c].pc = "rename" /\ MayRename(c)
  /\ objects' = Stored(call[c].name, call[c].read, call[c].changes = 0)
  /\ staging' = staging \ Own(c)

Rename(c) ==
  /\ Renamed(c)
  /\ Finish(c, "done", call[c].read)
  /\ UNCHANGED <<kind, left, started>>

RenameRefused(c) ==
  /\ call[c].pc = "rename" /\ ~MayRename(c)
  /\ CleanUp(c)
  /\ Finish(c, "exists", <<>>)
  /\ UNCHANGED <<kind, objects, started>>

\* S3: the server stores a body once it has as much as was announced, if it has
\* the signed hash.
Received(c) ==
  /\ call[c].pc \in {"send", "sent"}
  /\ Len(call[c].hash) <= Len(call[c].read)
  /\ SubSeq(call[c].read, 1, Len(call[c].hash)) = call[c].hash
Uploaded(c) == objects' = Stored(call[c].name, call[c].hash, call[c].changes = 0)

\* The budget's deadline closes the connection, or the process dies: nothing
\* can be cleaned up.  A rename or an upload may have happened all the same.
Lose(c) ==
  /\ ~Idle(c)
  /\ left' = left \cup {call[c].id}
  /\ Fail(c)
  /\ \/ UNCHANGED <<objects, staging>>
     \/ Renamed(c)
     \/ Received(c) /\ Uploaded(c) /\ UNCHANGED staging
  /\ UNCHANGED <<kind, started>>

----------------------------------------------------------------------------
\* S3: the source is hashed; one that can seek is rewound and read again, any
\* other was read into memory.

Hash(c) ==
  /\ call[c].pc = "hash" /\ AtEnd(c)
  /\ \/ call' = [call EXCEPT ![c].pc = "send", ![c].hash = call[c].read, ![c].read = <<>>]
     \/ call' = [call EXCEPT ![c].pc = "sent", ![c].hash = call[c].read]
  /\ UNCHANGED <<kind, objects, staging, left, started>>

SendEnds(c) ==
  /\ call[c].pc = "send" /\ AtEnd(c)
  /\ Goto(c, "sent")
  /\ UNCHANGED <<kind, objects, staging, left, started>>

\* The answer: a body that is not the one announced fails here.  Where one longer
\* than that was stored before it failed, Lose is the step.
Replied(c) ==
  /\ call[c].pc = "sent"
  /\ IF call[c].read = call[c].hash
     THEN Uploaded(c) /\ Finish(c, "done", call[c].read)
     ELSE Fail(c) /\ UNCHANGED objects
  /\ UNCHANGED <<kind, staging, left, started>>

----------------------------------------------------------------------------
\* Test writes the probe, in one step here, and except on S3 removes it again;
\* it fails when another Test has removed it in between.

Test(c) ==
  /\ Idle(c) /\ started < Calls
  /\ started' = started + 1
  /\ objects' = Stored(PingName, <<>>, TRUE)
  /\ call' = [call EXCEPT ![c] =
       NewCall(IF kind = "s3" THEN "done" ELSE "unping", started + 1, Unset, <<>>, <<>>)]
  /\ UNCHANGED <<kind, staging, left>>

Unping(c) ==
  /\ call[c].pc = "unping"
  /\ Finish(c, IF At(PingName) = {} THEN "failed" ELSE "done", <<>>)
  /\ objects' = objects \ At(PingName)
  /\ UNCHANGED <<kind, staging, left, started>>

OffsiteNext ==
  \E c \in Callers :
    \/ \E n \in Names, d \in Contents : Put(c, n, d)
    \/ Stat(c) \/ OpenStaging(c) \/ Copy(c) \/ SourceChanges(c) \/ CopyEnds(c) \/ PutFails(c)
    \/ Rename(c) \/ RenameRefused(c) \/ Lose(c)
    \/ Hash(c) \/ SendEnds(c) \/ Replied(c)
    \/ Test(c) \/ Unping(c)

OffsiteSpec == OffsiteInit /\ [][OffsiteNext]_offsiteVars

----------------------------------------------------------------------------
\* Properties

\* One object per server name, none of them in the staging namespace.
ObjectsApart ==
  /\ \A o, p \in objects : o.at = p.at => o = p
  /\ \A o \in objects : \A i \in DOMAIN o.at : o.at[i][1] # StagingPrefix
  /\ \A c \in Callers : call[c].pc \in
       {"idle", "hash", "send", "sent", "stat", "open", "copy", "rename", "unping", "done", "failed",
        "exists"}

\* Under no interleaving of uploads and lost sessions does a name lead to part
\* of an upload: an object is all its Put was given, unless the source changed
\* while that Put read it - then no target compares it with the declared size,
\* and what was read is stored and reported as a success.
WholeObjects ==
  \A o \in objects : o.name # PingName /\ o.steady =>
    \E d \in Contents : o.content = Whole(d)

\* An upload never costs the previous good replica: once an object is there it
\* stays there, and on SMB unchanged (doc.go:12-14).
LastGoodKept ==
  [][\A o \in objects : o.name # PingName =>
        /\ \E p \in objects' : p.at = o.at
        /\ kind = "smb" => o \in objects']_offsiteVars

\* On SMB no two admitted names are one object on the server: an object a Put
\* reported as stored stays readable under its own name, as that Put read it,
\* and one refused with ErrObjectExists is there under that very name
\* (smb.go:162-164, doc.go:12-14).
OwnObject ==
  \A c \in Callers : kind = "smb" /\ call[c].name # Unset =>
    /\ call[c].pc = "done" =>
         \E o \in objects : o.name = call[c].name /\ o.content = call[c].read
    /\ call[c].pc = "exists" => \E o \in objects : o.name = call[c].name

\* A staging file outlives its Put only where the session was lost, the process
\* died or its removal failed: no error path forgets one.
ResidueExplained ==
  \A s \in staging : s.call \in left \/ (call[s.by].id = s.call /\ ~Idle(s.by))

\* Put, over every interleaving of uploads, lost sessions, changing sources and
\* retries: no object is part of an upload, each is under the name its Put was
\* given, and no staging file stays that a failed Put did not try to remove.
TargetSound == ObjectsApart /\ WholeObjects /\ OwnObject /\ ResidueExplained
=============================================================================

---------------------------- MODULE LocalCopies ----------------------------
(***************************************************************************)
(* recoveryclient/local.go: processes that keep sealed capsules in one     *)
(* backup directory, each under its own app's prefix, through a temporary  *)
(* file, a sync and a rename, and prune beyond a retention count.  A file  *)
(* carries the clock it was written at; clocks may be stepped back and     *)
(* machines lose power.  Nothing syncs the directory itself: what a rename *)
(* or a removal did is on disk when the system writes it back, and may be  *)
(* undone by a loss of power before that.  A name is a sequence of bytes,  *)
(* because the prefix decides what a prune may touch, with the capsule ID, *)
(* a number, for the part after the prefix.                                *)
(***************************************************************************)
EXTENDS Integers, Sequences, FiniteSets, SequencesExt

CONSTANTS
  Procs, AppOf,     \* processes and the app each one runs
  Keeps,            \* retention counts a product may configure
  ByHand,           \* names of capsules other apps or an operator put there
  staleTemp,
  MaxClock, MaxID,  \* bounds: clock values, capsules ever sealed
  None

VARIABLES
  now,
  dir,     \* files: [name, app, temp, mtime, state], temp being the writer of a temporary
  call,    \* per process: [pc, id, keep, prune]
  stored,  \* every copy ever renamed into place
  lost,    \* those of them a loss of power took back
  disk,    \* the copies in place when the directory was last written back
  nextID

vars == <<now, dir, call, stored, lost, disk, nextID>>

NoCall == [pc |-> "idle", id |-> 0, keep |-> 0, prune |-> <<>>]

Hand == {[name |-> n, app |-> None, temp |-> None, mtime |-> 0, state |-> "synced"] : n \in ByHand}

Init ==
  /\ now = 0 /\ stored = {} /\ lost = {} /\ nextID = 1
  /\ dir = Hand /\ disk = Hand
  /\ call = [p \in Procs |-> NoCall]

----------------------------------------------------------------------------
\* File names

Byte == 0..255
Underscore == 95
Dot == 46
Plain == (97..122) \cup (65..90) \cup (48..57) \cup {45}

HexDigit(d) == IF d < 10 THEN 48 + d ELSE 87 + d
Hexed(c) == <<Underscore, HexDigit(c \div 16), HexDigit(c % 16)>>

\* A byte outside [A-Za-z0-9-], the underscore included, becomes _XX.
Escape(c) == IF c \in Plain THEN <<c>> ELSE Hexed(c)

AppNameSafe(app) ==
  LET b[i \in 0..Len(app)] == IF i = 0 THEN <<>> ELSE b[i - 1] \o Escape(app[i])
  IN  IF app = <<>> THEN <<Underscore>> ELSE b[Len(app)]

LocalPrefix(app) == AppNameSafe(app) \o <<Dot>>
FinalName(app, id) == LocalPrefix(app) \o <<id>>

\* What is put there by hand carries none of the apps' prefixes and is no
\* temporary file.
ASSUME LocalAssumption ==
  /\ Keeps \subseteq Nat /\ {staleTemp, MaxClock, MaxID} \subseteq Nat
  /\ AppOf \in [Procs -> Seq(Byte)] /\ None \notin Procs
  /\ IsFiniteSet(ByHand) /\ ByHand \subseteq Seq(Nat)
  /\ \A n \in ByHand, p \in Procs :
       ~IsPrefix(LocalPrefix(AppOf[p]), n) /\ \A i \in 1..MaxID : n # <<p, i>>

----------------------------------------------------------------------------
\* The directory

\* The temporary file of the call in progress, unless it was swept.
Temps(p) == {f \in dir : f.temp = p /\ f.name = <<p, call[p].id>>}

\* sweepStaleTemp: temporary files of any process older than staleTemp.
Swept(d) == {f \in d : ~(f.temp # None /\ now - f.mtime > staleTemp)}

ListedUndelimited(app) ==                               \* variant with a bug
  {f \in dir : f.temp = None /\ IsPrefix(AppNameSafe(app), f.name)}

Listed(app) == {f \in dir : f.temp = None /\ IsPrefix(LocalPrefix(app), f.name)}

OldestFirst(f, g) == f.mtime < g.mtime                  \* variant with a bug

\* ListLocalCopies puts newer modification times first.  sort.Slice promises
\* nothing of the order of equal ones.
NewerFirst(f, g) == f.mtime > g.mtime

Orders(fs) ==
  {s \in SetToSeqs(fs) : \A i, j \in DOMAIN s : i < j => ~NewerFirst(s[j], s[i])}

----------------------------------------------------------------------------
\* WriteLocalCopy

Goto(p, to) == call' = [call EXCEPT ![p].pc = to]
Fails(p) == Goto(p, "failed")

KeepAllowed(keep) == keep >= 1

\* The retention count is checked before anything is touched; then stale
\* temporaries are swept, and errors of that are ignored.
Begin(p, keep) ==
  /\ call[p].pc \in {"idle", "done", "failed"} /\ nextID <= MaxID
  /\ nextID' = nextID + 1
  /\ call' = [call EXCEPT ![p] =
       [pc |-> IF KeepAllowed(keep) THEN "create" ELSE "failed",
        id |-> nextID, keep |-> keep, prune |-> <<>>]]
  /\ dir' \in IF KeepAllowed(keep) THEN {dir, Swept(dir)} ELSE {dir}
  /\ UNCHANGED <<now, stored, lost, disk>>

CreateTemp(p) ==
  /\ call[p].pc = "create"
  /\ dir' = dir \cup {[name |-> <<p, call[p].id>>, app |-> AppOf[p], temp |-> p,
                       mtime |-> now, state |-> "part"]}
  /\ Goto(p, "write")
  /\ UNCHANGED <<now, stored, lost, disk, nextID>>

\* A write may reach a file that was swept meanwhile: it has no name any more.
\* Writing takes the clock one tick further.
Write(p) ==
  /\ call[p].pc = "write" /\ now < MaxClock
  /\ now' = now + 1
  /\ dir' = (dir \ Temps(p)) \cup
            {[f EXCEPT !.mtime = now + 1, !.state = "written"] : f \in Temps(p)}
  /\ Goto(p, "sync")
  /\ UNCHANGED <<stored, lost, disk, nextID>>

Sync(p) ==
  /\ call[p].pc = "sync"
  /\ dir' = (dir \ Temps(p)) \cup {[f EXCEPT !.state = "synced"] : f \in Temps(p)}
  /\ Goto(p, "rename")
  /\ UNCHANGED <<now, stored, lost, disk, nextID>>

\* Any of those steps fails: the temporary file is removed, if that does not fail too.
WriteFails(p) ==
  /\ call[p].pc \in {"create", "write", "sync", "rename"}
  /\ dir' \in {dir, dir \ Temps(p)}
  /\ Fails(p)
  /\ UNCHANGED <<now, stored, lost, disk, nextID>>

Rename(p) ==
  /\ call[p].pc = "rename"
  /\ IF Temps(p) = {}
     THEN Fails(p) /\ UNCHANGED <<dir, stored, lost, disk>>
     ELSE LET f == CHOOSE x \in Temps(p) : TRUE
              g == [f EXCEPT !.name = FinalName(AppOf[p], call[p].id), !.temp = None]
          IN /\ dir' = {x \in dir : x # f /\ x.name # g.name} \cup {g}
             /\ stored' = stored \cup {g}
             /\ Goto(p, "list")
  /\ UNCHANGED <<now, lost, disk, nextID>>

\* The listing is taken once; what lies beyond keep is then removed file by file.
List(p) ==
  /\ call[p].pc = "list"
  /\ \E s \in Orders(Listed(AppOf[p])) : call' = [call EXCEPT ![p].pc = "prune",
       ![p].prune = SubSeq(s, call[p].keep + 1, Len(s))]
  /\ UNCHANGED <<now, dir, stored, lost, disk, nextID>>

ListFails(p) ==
  /\ call[p].pc = "list" /\ Fails(p) /\ UNCHANGED <<now, dir, stored, lost, disk, nextID>>

\* A file another process has already pruned is no error.
Prune(p) ==
  /\ call[p].pc = "prune" /\ call[p].prune # <<>>
  /\ dir' = {f \in dir : f.name # Head(call[p].prune).name}
  /\ call' = [call EXCEPT ![p].prune = Tail(@)]
  /\ UNCHANGED <<now, stored, lost, disk, nextID>>

PruneFails(p) ==
  /\ call[p].pc = "prune" /\ call[p].prune # <<>>
  /\ Fails(p) /\ UNCHANGED <<now, dir, stored, lost, disk, nextID>>

Return(p) ==
  /\ call[p].pc = "prune" /\ call[p].prune = <<>>
  /\ Goto(p, "done") /\ UNCHANGED <<now, dir, stored, lost, disk, nextID>>

----------------------------------------------------------------------------
\* The environment

Running(p) == call[p].pc \notin {"idle", "done", "failed"}

Crash(p) ==
  /\ Running(p) /\ call' = [call EXCEPT ![p] = NoCall]
  /\ UNCHANGED <<now, dir, stored, lost, disk, nextID>>

Placed(fs) == {f \in fs : f.temp = None}

\* The system writes the directory back in its own time.
WriteBack == disk' = Placed(dir) /\ UNCHANGED <<now, dir, call, stored, lost, nextID>>

\* Power loss keeps a file's content only once it was synced.  Of the renames and
\* removals since the directory was last written back it may undo any.  (A copy
\* taken back may be there again as a temporary file, which only a sweep sees.)
PowerLoss ==
  /\ \E survived \in SUBSET ((Placed(dir) \ disk) \cup (disk \ dir)) :
       LET kept == (Placed(dir) \cap disk) \cup survived
       IN /\ dir' = kept \cup {IF f.state = "written" THEN [f EXCEPT !.state = "part"] ELSE f :
                                 f \in dir \ Placed(dir)}
          /\ disk' = kept
          /\ lost' = lost \cup (Placed(dir) \ kept)
  /\ call' = [p \in Procs |-> NoCall]
  /\ UNCHANGED <<now, stored, nextID>>

Tick == now < MaxClock /\ now' = now + 1 /\ UNCHANGED <<dir, call, stored, lost, disk, nextID>>
StepBack == now > 0 /\ now' = now - 1 /\ UNCHANGED <<dir, call, stored, lost, disk, nextID>>

Next ==
  \/ \E p \in Procs :
       \/ \E k \in Keeps : Begin(p, k)
       \/ CreateTemp(p) \/ Write(p) \/ Sync(p) \/ WriteFails(p) \/ Rename(p)
       \/ List(p) \/ ListFails(p) \/ Prune(p) \/ PruneFails(p) \/ Return(p) \/ Crash(p)
  \/ WriteBack \/ PowerLoss \/ Tick \/ StepBack

Spec == Init /\ [][Next]_vars

----------------------------------------------------------------------------
\* Properties

\* Names stay unique in the directory, a call starts with nothing to prune, what
\* it prunes are copies in place, and what power loss took back stays gone.
TypeOK ==
  /\ now \in 0..MaxClock /\ nextID \in 1..(MaxID + 1)
  /\ \A f, g \in dir : f.name = g.name => f = g
  /\ \A f \in dir : f.state \in {"part", "written", "synced"}
  /\ lost \subseteq stored /\ lost \cap (dir \cup disk) = {}
  /\ \A p \in Procs : call[p].prune # <<>> =>
       /\ call[p].pc \in {"prune", "failed"}
       /\ \A i \in DOMAIN call[p].prune : call[p].prune[i].temp = None

\* A crash or power loss never leaves a truncated .kycap that looks like a
\* backup (local.go:83-85).
NoTruncatedCopy ==
  /\ TypeOK
  /\ \A f \in dir : f.temp = None => f.state # "part"

\* A copy no older than f, which a listing may put before it.
Ahead(g, f) == g # f /\ g.mtime >= f.mtime

\* Whatever races, fails, dies or steps the clock, of all the copies an app
\* ever put in place the newest are still there, as many as the smallest
\* retention count in use (local.go:13-15), but for a copy that power loss took
\* back because its rename had not reached the disk.
NewestKept ==
  \A f \in stored \ lost :
    (\A k \in Keeps \ {0} : Cardinality({g \in stored : g.app = f.app /\ Ahead(g, f)}) < k) =>
      \E h \in dir : h.name = f.name

\* WriteLocalCopy, several at once: every copy is whole, and the newest survive
\* crashes, races, a clock that steps, and power loss once they are on disk.
CopiesKept == NoTruncatedCopy /\ NewestKept

\* A prune removes copies of its own app and nothing else: not another app's
\* whose name only looks alike, and not a capsule put there by hand (local.go:47-53).
\* All else a copy can fall to is a loss of power before its rename is on disk.
OthersUntouched ==
  [][\A f \in dir \ lost' : f.temp = None /\ (\A g \in dir' : g.name # f.name) =>
        \E p \in Procs : call[p].pc = "prune" /\ AppOf[p] = f.app]_vars
=============================================================================

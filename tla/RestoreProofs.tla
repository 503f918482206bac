--------------------------- MODULE RestoreProofs ---------------------------
(***************************************************************************)
(* Proofs about the two halves of a restore: the capsule it opens and the  *)
(* cards its key is rebuilt from.                                          *)
(*                                                                         *)
(* Capsule, for any inputs and any tars of other writers, any keys,        *)
(* services and limits: what one restore returns is proved for any number  *)
(* of them at once (RestoreInv); what is in the directory when it returns, *)
(* for restores that have the directory to themselves (AloneInv).          *)
(*                                                                         *)
(* Shamir, over any field of characteristic 2, and Custody: the weights of *)
(* Combine interpolate (InterpolatesAtZero), one share fewer than the      *)
(* threshold excludes one value and no other (FewerExclude), and a restore *)
(* rebuilds the key that was split or nothing (CustodyInv).                *)
(***************************************************************************)
EXTENDS Capsule, Custody, SequenceTheorems, FiniteSetTheorems, WellFoundedInduction, TLAPS

\* The bits a restored file may have, and such a file.
OwnerBits == {"r", "w", "x"}
FileRead == [path : Seq(STRING), size : Nat, body : Nat, mode : SUBSET OwnerBits]

\* What a tar may hold: the list, or a file with a name and a content.
TarMember(m) ==
  /\ m.size \in Nat /\ m.mode \subseteq Bits
  /\ m.name # ReservedFileList => m.name \in Seq(STRING) /\ m.body \in Nat

\* A capsule some writer stored, its manifest as it was or edited since.
Genuine(seals, raw) ==
  /\ \E s \in seals : s.ct = raw.ct
  /\ Len(raw.ct.plain) \in Nat
  /\ \A i \in 1..Len(raw.ct.plain) : TarMember(raw.ct.plain[i])
  /\ raw.files # None =>
       raw.files \in Inputs /\ Builds(raw.files) /\ raw.ct.plain = Payload(raw.files)

\* Whoever sealed a payload authenticated its manifest with it, and what is
\* stored is what somebody sealed, whatever became of its manifest.
Stored ==
  /\ \A s \in sealings : s.ct.aad = s.manifest
  /\ container # None =>
       Genuine(sealings, container) /\ DOMAIN container = {"manifest", "ct", "files"}

\* A restore that got past the decryption has the capsule it was asked for.
Opened(seals, c) ==
  c.pc # "idle" =>
    /\ Genuine(seals, c.raw)
    /\ c.pc # "failed" =>
         c.raw.ct.aad = c.raw.manifest /\ c.expect = <<c.raw.manifest.service, c.raw.ct.to>>

\* What was extracted is within the limits, each path once, with owner bits only.
WithinLimits(c) ==
  /\ c.at \in Nat \ {0} /\ c.seen \in Nat
  /\ c.files \in Seq(FileRead) /\ Len(c.files) <= MaxFiles
  /\ Total(c.files) <= c.seen /\ Total(c.files) <= MaxExpandedBytes
  /\ \A i, j \in 1..Len(c.files) : c.files[i].path = c.files[j].path => i = j
  /\ \A i \in 1..Len(c.files) : c.files[i].mode # {}

\* Of a capsule Seal wrote, the members taken so far are its first files, and
\* the list once they all are.
PrefixTaken(c) ==
  c.pc \notin {"idle", "failed"} /\ c.raw.files # None =>
    /\ c.at <= Len(c.raw.files) + 1 => Len(c.files) = c.at - 1 /\ c.list = None
    /\ c.at > Len(c.raw.files) + 1 =>
         Len(c.files) = Len(c.raw.files) /\ c.list = AsListed(c.raw.files)
    /\ \A i \in 1..Len(c.files) : c.files[i] = Entry(c.raw.files[i])

\* A restore returns at the end of the archive, its list compared.
Reconciled(c) ==
  c.pc = "done" => (c.list = None \/ c.list = c.files) /\ c.at > Len(c.raw.ct.plain)

\* What may refuse in memory what Seal let through: the size of the whole archive,
\* and a name that JSON does not carry.
Excused(c) ==
  \/ c.err \in {"unopened", "unusable", "tooLarge"}
  \/ c.err = "corrupt" /\ AsListed(c.raw.files) # Entries(c.raw.files)

\* What Seal let through, nothing else refuses.
Admitted(c) ==
  c.pc \in {"rollback", "failed"} /\ c.raw.files # None /\ c.root = 0 => Excused(c)

\* All of that, of one restore.
CallOK(seals, c) ==
  Opened(seals, c) /\ WithinLimits(c) /\ PrefixTaken(c) /\ Reconciled(c) /\ Admitted(c)

\* A path that cannot leave the target (extract.go, safeRelPath).
PlainPath(p) == p # <<>> /\ \A i \in DOMAIN p : p[i] \notin {"..", "."}

\* The directory holds paths that stay inside it, and none when it is absent.
Inside ==
  /\ \A n \in target.nodes : PlainPath(n.path)
  /\ target.gen = 0 => target.nodes = {}
  /\ target = [gen |-> target.gen, nodes |-> target.nodes]

\* The places and the fields of a restore.
PCs == {"idle", "stat", "mkdir", "readdir", "extract", "rollback", "done", "failed"}
Fields ==
  {"pc", "raw", "expect", "found", "created", "root", "at", "seen", "files", "list", "err",
   "stuck"}

\* The tries are counted, and a call is somewhere in Restore.
Placed ==
  /\ tries \in 0..Attempts
  /\ call = [o \in Openers |-> call[o]]
  /\ \A o \in Openers : DOMAIN call[o] = Fields /\ call[o].pc \in PCs

RestoreInv == Placed /\ Inside /\ Stored /\ \A o \in Openers : CallOK(sealings, call[o])

\* Before a restore has its root handle, when it has none, and when it failed, the
\* directory is as the restore found it, but for what it could not remove.
AsFound(c) ==
  c.pc \in {"stat", "mkdir", "readdir", "failed"} \/ (c.pc # "idle" /\ c.root = 0) =>
    target.nodes \ c.stuck = c.found

\* A restore makes a directory, or takes a handle, only where it found nothing,
\* has extracted nothing before, and has nothing stuck until it has failed.
FoundEmpty(c) ==
  /\ c.pc = "mkdir" => target.gen = 0
  /\ c.created \/ c.root # 0 => c.found = {}
  /\ c.pc \in {"stat", "mkdir", "readdir"} => c.root = 0 /\ c.files = <<>>
  /\ c.pc # "failed" => c.stuck = {}

\* A restore with a handle still has its directory, and in it what it wrote.
HandleHolds(c) ==
  c.pc \in {"extract", "rollback", "done"} /\ c.root # 0 =>
    /\ target.gen = c.root
    /\ c.pc # "rollback" =>
         \A i \in 1..Len(c.files) :
           [path |-> c.files[i].path, file |-> c.files[i]] \in target.nodes

\* All of that, for the restore that has the directory to itself.
AloneOK(o) == AsFound(call[o]) /\ FoundEmpty(call[o]) /\ HandleHolds(call[o])
AloneInv == \A o \in Openers : AloneOK(o)

-----------------------------------------------------------------------------
(* Induction on what was read so far. *)

\* A set of naturals that has a member has a least one.
LEMMA LeastNatural ==
  ASSUME NEW T \in SUBSET Nat, T # {}
  PROVE  \E m \in T : \A k \in T : m <= k
<1> DEFINE R == OpToRel(<, Nat)
<1>1. PICK m \in T : \A k \in T : ~ (<<k, m>> \in R)
  <2>1. IsWellFoundedOn(R, Nat)
    BY NatLessThanWellFounded
  <2> HIDE DEF R
  <2> QED
    BY <2>1, WFMin
<1>2. \A k \in T : <<k, m>> \in R <=> k < m
  BY DEF OpToRel
<1>3. \A k \in T : m <= k
  <2> TAKE k \in T
  <2>1. ~ (k < m)
    BY <1>1, <1>2, Zenon
  <2>2. k \in Nat /\ m \in Nat
    OBVIOUS
  <2> QED
    BY <2>1, <2>2
<1> QED
  BY <1>3

\* A set of naturals that holds 0 and every successor holds them all.
LEMMA InductiveSet ==
  ASSUME NEW S, 0 \in S, \A n \in Nat : n \in S => n + 1 \in S
  PROVE  \A n \in Nat : n \in S
<1> SUFFICES ASSUME Nat \ S # {} PROVE FALSE
  OBVIOUS
<1>1. PICK m \in Nat \ S : \A k \in Nat \ S : m <= k
  BY LeastNatural
<1>2. m - 1 \in Nat /\ m - 1 \in S
  BY <1>1
<1> QED
  BY <1>1, <1>2

-----------------------------------------------------------------------------
(* filepath.Clean: what it leaves is plain, and cleaning it again is idle. *)

\* c lists what filepath.Clean holds after each segment, up to the m-th.
Cleans(c, m, name) ==
  c = [i \in 0..m |-> IF i = 0 THEN <<>> ELSE Walk(c[i - 1], name[i])]

\* Neither empty segments nor "." are left, and ".." only at the front.
Cleaned(acc) ==
  /\ \A i \in 1..Len(acc) : acc[i] # Empty /\ acc[i] # "."
  /\ \A i, j \in 1..Len(acc) : i <= j /\ acc[j] = ".." => acc[i] = ".."

\* The recursion of filepath.Clean is well founded.
LEMMA CleanUnrolls ==
  ASSUME NEW S, NEW name \in Seq(S)
  PROVE  \E c : Cleans(c, Len(name), name) /\ Clean(name) = c[Len(name)]
<1> DEFINE T == {m \in Nat : \E c : Cleans(c, m, name)}
<1>1. 0 \in T
  <2> DEFINE c == [n \in 0..0 |-> <<>>]
  <2>1. Cleans(c, 0, name)
    BY DEF Cleans
  <2> QED
    BY <2>1
<1>2. ASSUME NEW m \in Nat, m \in T PROVE m + 1 \in T
  <2>1. PICK c : Cleans(c, m, name)
    BY <1>2
  <2>2. c = [n \in 0..m |-> IF n = 0 THEN <<>> ELSE Walk(c[n - 1], name[n])]
    BY <2>1 DEF Cleans
  <2> DEFINE d == [n \in 0..(m + 1) |-> IF n <= m THEN c[n] ELSE Walk(c[m], name[m + 1])]
  <2>3. \A n \in 0..(m + 1) : d[n] = IF n = 0 THEN <<>> ELSE Walk(d[n - 1], name[n])
    <3> TAKE n \in 0..(m + 1)
    <3>1. CASE n = 0
      BY <2>2, <3>1
    <3>2. CASE n # 0 /\ n <= m
      <4>1. d[n] = c[n] /\ d[n - 1] = c[n - 1] /\ n \in 0..m
        BY <3>2
      <4>2. c[n] = Walk(c[n - 1], name[n])
        BY <2>2, <3>2, <4>1
      <4> HIDE DEF d
      <4> QED
        BY <3>2, <4>1, <4>2
    <3>3. CASE n = m + 1
      <4>1. d[n] = Walk(c[m], name[m + 1]) /\ d[n - 1] = c[m] /\ n # 0
        BY <3>3
      <4> HIDE DEF d
      <4> QED
        BY <3>3, <4>1
    <3> QED
      BY <3>1, <3>2, <3>3
  <2>4. Cleans(d, m + 1, name)
    <3>1. d = [n \in 0..(m + 1) |-> d[n]]
      OBVIOUS
    <3> HIDE DEF d
    <3> QED
      BY <2>3, <3>1 DEF Cleans
  <2> QED
    BY <2>4
<1>3. \E c : Cleans(c, Len(name), name)
  <2>1. \A m \in Nat : m \in T
    <3> HIDE DEF T
    <3> QED
      BY <1>1, <1>2, InductiveSet
  <2> QED
    BY <2>1
<1> DEFINE c[i \in 0..Len(name)] == IF i = 0 THEN <<>> ELSE Walk(c[i - 1], name[i])
<1>4. c = CHOOSE d : Cleans(d, Len(name), name)
  BY DEF Cleans
<1>5. Clean(name) = c[Len(name)]
  BY DEF Clean
<1> HIDE DEF c
<1>6. Cleans(c, Len(name), name)
  BY <1>3, <1>4
<1> QED
  BY <1>5, <1>6

\* The stages of filepath.Clean, each from the one before it.
LEMMA CleanStages ==
  ASSUME NEW S, NEW name \in Seq(S), NEW c, Cleans(c, Len(name), name)
  PROVE  c[0] = <<>> /\ \A i \in 1..Len(name) : c[i] = Walk(c[i - 1], name[i])
<1> DEFINE n == Len(name)
<1>1. n \in Nat
  OBVIOUS
<1>2. c = [i \in 0..n |-> IF i = 0 THEN <<>> ELSE Walk(c[i - 1], name[i])]
  BY DEF Cleans
<1> HIDE DEF n
<1>3. ASSUME NEW i \in 0..n
      PROVE  c[i] = IF i = 0 THEN <<>> ELSE Walk(c[i - 1], name[i])
  BY <1>2, Zenon
<1>4. 0 \in 0..n /\ \A i \in 1..n : i \in 0..n /\ i # 0
  BY <1>1
<1>5. c[0] = <<>>
  BY <1>3, <1>4, Zenon
<1>6. \A i \in 1..n : c[i] = Walk(c[i - 1], name[i])
  BY <1>3, <1>4, Zenon
<1> QED
  BY <1>5, <1>6 DEF n

\* One segment more leaves what is held clean.
LEMMA WalkKeeps ==
  ASSUME NEW S, NEW acc \in Seq(S), NEW s \in S, Cleaned(acc)
  PROVE  Walk(acc, s) \in Seq(S) /\ Cleaned(Walk(acc, s))
<1>0. Len(acc) \in Nat /\ \A i \in 1..Len(acc) : acc[i] \in S
  OBVIOUS
<1>1. CASE s \in {Empty, "."}
  BY <1>1 DEF Walk
<1>2. CASE s \notin {Empty, "."} /\ s = ".." /\ acc # <<>> /\ acc[Len(acc)] # ".."
  <2> DEFINE u == SubSeq(acc, 1, Len(acc) - 1)
  <2>1. Walk(acc, s) = u
    BY <1>2 DEF Walk
  <2>0. Len(acc) \in 1..Len(acc) /\ Len(acc) - 1 \in Nat
    BY <1>0, <1>2
  <2>2. u \in Seq(S) /\ Len(u) = Len(acc) - 1 /\ \A i \in 1..Len(u) : u[i] = acc[i]
    <3> DEFINE n == Len(acc) - 1
    <3>1. n \in 0..Len(acc) /\ u = SubSeq(acc, 1, n)
      BY <2>0
    <3> HIDE DEF n, u
    <3>2. u \in Seq(S) /\ Len(u) = n /\ \A i \in 1..n : u[i] = acc[i]
      BY <3>1
    <3> QED
      BY <3>2 DEF n
  <2> HIDE DEF u
  <2>3. \A i \in 1..Len(u) : i \in 1..Len(acc)
    BY <2>0, <2>2, <1>0
  <2>4. Cleaned(u)
    BY <2>2, <2>3 DEF Cleaned
  <2> QED
    BY <2>1, <2>2, <2>4
<1>3. CASE s \notin {Empty, "."} /\ ~(s = ".." /\ acc # <<>> /\ acc[Len(acc)] # "..")
  <2> DEFINE u == Append(acc, s)
  <2>1. Walk(acc, s) = u
    BY <1>3 DEF Walk
  <2>2. /\ u \in Seq(S) /\ Len(u) = Len(acc) + 1
        /\ \A i \in 1..Len(acc) : u[i] = acc[i]
        /\ u[Len(acc) + 1] = s
    OBVIOUS
  <2> HIDE DEF u
  <2>3. \A i \in 1..Len(u) : i \in 1..Len(acc) \/ i = Len(acc) + 1
    BY <2>2, <1>0
  <2>4. \A i \in 1..Len(u) : u[i] # Empty /\ u[i] # "."
    BY <1>3, <2>2, <2>3 DEF Cleaned
  <2>5. s = ".." => \A i \in 1..Len(acc) : acc[i] = ".."
    <3> SUFFICES ASSUME s = "..", NEW i \in 1..Len(acc) PROVE acc[i] = ".."
      OBVIOUS
    <3>1. acc # <<>> /\ Len(acc) \in 1..Len(acc) /\ i <= Len(acc)
      BY <1>0
    <3> QED
      BY <1>3, <3>1 DEF Cleaned
  <2>6. ASSUME NEW i \in 1..Len(u), NEW j \in 1..Len(u), i <= j, u[j] = ".."
        PROVE  u[i] = ".."
    <3>1. CASE j \in 1..Len(acc)
      <4>1. i \in 1..Len(acc)
        BY <2>6, <3>1, <1>0
      <4> QED
        BY <2>2, <2>6, <3>1, <4>1 DEF Cleaned
    <3>2. CASE j = Len(acc) + 1
      BY <2>2, <2>3, <2>5, <2>6, <3>2
    <3> QED
      BY <2>3, <3>1, <3>2
  <2>7. Cleaned(u)
    BY <2>4, <2>6 DEF Cleaned
  <2> QED
    BY <2>1, <2>2, <2>7
<1> QED
  BY <1>1, <1>2, <1>3

\* What filepath.Clean returns is clean, and made of the segments it was given.
LEMMA CleanIsClean ==
  ASSUME NEW S, NEW name \in Seq(S)
  PROVE  Clean(name) \in Seq(S) /\ Cleaned(Clean(name))
<1>1. PICK c : Cleans(c, Len(name), name) /\ Clean(name) = c[Len(name)]
  BY CleanUnrolls
<1> DEFINE n == Len(name)
<1>2. c[0] = <<>> /\ \A i \in 1..n : c[i] = Walk(c[i - 1], name[i])
  BY <1>1, CleanStages
<1>3. n \in Nat /\ \A i \in 1..n : name[i] \in S
  OBVIOUS
<1> DEFINE T == {i \in Nat : i <= n => c[i] \in Seq(S) /\ Cleaned(c[i])}
<1> HIDE DEF n
<1>4. 0 \in T
  <2>1. <<>> \in Seq(S) /\ Cleaned(<<>>)
    BY DEF Cleaned
  <2> QED
    BY <1>2, <2>1
<1>5. ASSUME NEW i \in Nat, i \in T PROVE i + 1 \in T
  <2> SUFFICES ASSUME i + 1 <= n PROVE c[i + 1] \in Seq(S) /\ Cleaned(c[i + 1])
    OBVIOUS
  <2>1. i <= n /\ i + 1 \in 1..n /\ (i + 1) - 1 = i
    BY <1>3
  <2>2. c[i] \in Seq(S) /\ Cleaned(c[i]) /\ name[i + 1] \in S
    BY <1>3, <1>5, <2>1
  <2>3. c[i + 1] = Walk(c[i], name[i + 1])
    BY <1>2, <2>1
  <2> QED
    BY <2>2, <2>3, WalkKeeps
<1>6. n \in T
  <2> HIDE DEF T
  <2> QED
    BY <1>3, <1>4, <1>5, InductiveSet
<1> QED
  BY <1>1, <1>6 DEF n

\* A name with nothing to clean is left as it is.
LEMMA CleanFixed ==
  ASSUME NEW S, NEW name \in Seq(S),
         \A i \in 1..Len(name) : name[i] # Empty /\ name[i] # "." /\ name[i] # ".."
  PROVE  Clean(name) = name
<1>1. PICK c : Cleans(c, Len(name), name) /\ Clean(name) = c[Len(name)]
  BY CleanUnrolls
<1> DEFINE n == Len(name)
<1>2. c[0] = <<>> /\ \A i \in 1..n : c[i] = Walk(c[i - 1], name[i])
  BY <1>1, CleanStages
<1>3. n \in Nat
  OBVIOUS
<1>4. SubSeq(name, 1, 0) = <<>> /\ SubSeq(name, 1, n) = name
  OBVIOUS
<1>5. \A i \in Nat : i + 1 <= n =>
        SubSeq(name, 1, i + 1) = Append(SubSeq(name, 1, i), name[i + 1])
  OBVIOUS
<1> DEFINE T == {i \in Nat : i <= n => c[i] = SubSeq(name, 1, i)}
<1>6. 0 \in T
  BY <1>2, <1>4
<1>7. ASSUME NEW i \in Nat, i \in T PROVE i + 1 \in T
  <2> SUFFICES ASSUME i + 1 <= n PROVE c[i + 1] = SubSeq(name, 1, i + 1)
    OBVIOUS
  <2>1. i <= n /\ i + 1 \in 1..n /\ (i + 1) - 1 = i
    BY <1>3
  <2>2. c[i + 1] = Walk(SubSeq(name, 1, i), name[i + 1])
    BY <1>2, <1>7, <2>1
  <2>3. Walk(SubSeq(name, 1, i), name[i + 1]) = Append(SubSeq(name, 1, i), name[i + 1])
    BY <2>1 DEF Walk
  <2> QED
    BY <1>5, <2>2, <2>3
<1>8. n \in T
  <2> HIDE DEF T
  <2> QED
    BY <1>3, <1>6, <1>7, InductiveSet
<1> QED
  BY <1>1, <1>3, <1>4, <1>8

\* safeRelPath: a name it accepts stays inside the target however often it is
\* cleaned, and is never taken for the list's.
LEMMA SafeNames ==
  ASSUME NEW name \in Seq(STRING), SafeRelPath(name)
  PROVE  /\ Clean(name) \in Seq(STRING) /\ PlainPath(Clean(name))
         /\ Clean(Clean(name)) = Clean(name) /\ SafeRelPath(Clean(name))
         /\ Clean(name) # ReservedFileList
<1> DEFINE p == Clean(name)
           S == {s \in STRING : s # Backslash}
<1>1. name \in Seq(S)
  <2>1. Len(name) \in Nat /\ name = [i \in 1..Len(name) |-> name[i]]
    OBVIOUS
  <2>2. \A i \in 1..Len(name) : name[i] \in S
    BY DEF SafeRelPath
  <2> QED
    BY <2>1, <2>2
<1>2. p \in Seq(STRING) /\ p \in Seq(S) /\ Cleaned(p)
  BY <1>1, CleanIsClean
<1>3. p # <<>> /\ p[1] # ".."
  BY DEF SafeRelPath
<1> HIDE DEF p
<1>4. Len(p) \in Nat /\ DOMAIN p = 1..Len(p) /\ 1 \in 1..Len(p) /\ \A i \in 1..Len(p) : 1 <= i
  BY <1>2, <1>3
<1>5. \A i \in 1..Len(p) : p[i] # Backslash
  BY <1>2
<1>6. \A i \in 1..Len(p) : p[i] # Empty /\ p[i] # "." /\ p[i] # ".."
  BY <1>2, <1>3, <1>4 DEF Cleaned
<1>7. PlainPath(p)
  BY <1>3, <1>4, <1>6 DEF PlainPath
<1>8. Clean(p) = p
  BY <1>2, <1>6, CleanFixed
<1>9. SafeRelPath(p)
  BY <1>3, <1>4, <1>5, <1>6, <1>8 DEF SafeRelPath
<1>10. p # ReservedFileList
  BY <1>4, <1>6 DEF ReservedFileList
<1> QED
  BY <1>2, <1>7, <1>8, <1>9, <1>10 DEF p

-----------------------------------------------------------------------------
(* Sizes, modes, and what Seal puts in the tar. *)

\* t lists the running total of the sizes, up to the m-th file.
Totals(t, m, files) ==
  t = [i \in 0..m |-> IF i = 0 THEN 0 ELSE t[i - 1] + files[i].size]

\* The running total is well founded, and adds one file after the other.
LEMMA TotalUnrolls ==
  ASSUME NEW S, NEW files \in Seq(S)
  PROVE  \E t : Totals(t, Len(files), files) /\ Total(files) = t[Len(files)]
<1> DEFINE T == {m \in Nat : \E t : Totals(t, m, files)}
<1>1. 0 \in T
  <2> DEFINE t == [n \in 0..0 |-> 0]
  <2>1. Totals(t, 0, files)
    BY DEF Totals
  <2> QED
    BY <2>1
<1>2. ASSUME NEW m \in Nat, m \in T PROVE m + 1 \in T
  <2>1. PICK t : Totals(t, m, files)
    BY <1>2
  <2>2. t = [n \in 0..m |-> IF n = 0 THEN 0 ELSE t[n - 1] + files[n].size]
    BY <2>1 DEF Totals
  <2> DEFINE d == [n \in 0..(m + 1) |-> IF n <= m THEN t[n] ELSE t[m] + files[m + 1].size]
  <2>3. \A n \in 0..(m + 1) : d[n] = IF n = 0 THEN 0 ELSE d[n - 1] + files[n].size
    <3> TAKE n \in 0..(m + 1)
    <3>1. CASE n = 0
      BY <2>2, <3>1
    <3>2. CASE n # 0 /\ n <= m
      <4>1. d[n] = t[n] /\ d[n - 1] = t[n - 1] /\ n \in 0..m
        BY <3>2
      <4>2. t[n] = t[n - 1] + files[n].size
        BY <2>2, <3>2, <4>1
      <4> HIDE DEF d
      <4> QED
        BY <3>2, <4>1, <4>2
    <3>3. CASE n = m + 1
      <4>1. d[n] = t[m] + files[m + 1].size /\ d[n - 1] = t[m] /\ n # 0
        BY <3>3
      <4> HIDE DEF d
      <4> QED
        BY <3>3, <4>1
    <3> QED
      BY <3>1, <3>2, <3>3
  <2>4. Totals(d, m + 1, files)
    <3>1. d = [n \in 0..(m + 1) |-> d[n]]
      OBVIOUS
    <3> HIDE DEF d
    <3> QED
      BY <2>3, <3>1 DEF Totals
  <2> QED
    BY <2>4
<1>3. \E t : Totals(t, Len(files), files)
  <2>1. \A m \in Nat : m \in T
    <3> HIDE DEF T
    <3> QED
      BY <1>1, <1>2, InductiveSet
  <2> QED
    BY <2>1
<1> DEFINE t[i \in 0..Len(files)] == IF i = 0 THEN 0 ELSE t[i - 1] + files[i].size
<1>4. t = CHOOSE d : Totals(d, Len(files), files)
  BY DEF Totals
<1>5. Total(files) = t[Len(files)]
  BY DEF Total
<1> HIDE DEF t
<1>6. Totals(t, Len(files), files)
  BY <1>3, <1>4
<1> QED
  BY <1>5, <1>6

\* The stages of the running total.
LEMMA TotalStages ==
  ASSUME NEW S, NEW files \in Seq(S), NEW t, Totals(t, Len(files), files)
  PROVE  t[0] = 0 /\ \A i \in 1..Len(files) : t[i] = t[i - 1] + files[i].size
<1> DEFINE n == Len(files)
<1>1. n \in Nat
  OBVIOUS
<1>2. t = [i \in 0..n |-> IF i = 0 THEN 0 ELSE t[i - 1] + files[i].size]
  BY DEF Totals
<1> HIDE DEF n
<1>3. ASSUME NEW i \in 0..n
      PROVE  t[i] = IF i = 0 THEN 0 ELSE t[i - 1] + files[i].size
  BY <1>2, Zenon
<1>4. 0 \in 0..n /\ \A i \in 1..n : i \in 0..n /\ i # 0
  BY <1>1
<1>5. t[0] = 0
  BY <1>3, <1>4, Zenon
<1>6. \A i \in 1..n : t[i] = t[i - 1] + files[i].size
  BY <1>3, <1>4, Zenon
<1> QED
  BY <1>5, <1>6 DEF n

\* No files have no bytes, and one file more adds its own.
LEMMA TotalGrows ==
  /\ Total(<<>>) = 0
  /\ \A fs \in Seq(FileRead) : \A f \in FileRead :
       Total(fs) \in Nat /\ Total(Append(fs, f)) = Total(fs) + f.size
<1>1. Total(<<>>) = 0
  <2>1. <<>> \in Seq(FileRead) /\ Len(<<>>) = 0
    OBVIOUS
  <2>2. PICK t : Totals(t, Len(<<>>), <<>>) /\ Total(<<>>) = t[Len(<<>>)]
    BY <2>1, TotalUnrolls
  <2>3. t[0] = 0
    BY <2>1, <2>2, TotalStages
  <2> QED
    BY <2>1, <2>2, <2>3
<1>2. ASSUME NEW fs \in Seq(FileRead), NEW f \in FileRead
      PROVE  Total(fs) \in Nat /\ Total(Append(fs, f)) = Total(fs) + f.size
  <2> DEFINE n == Len(fs)
             gs == Append(fs, f)
  <2>1. /\ n \in Nat /\ gs \in Seq(FileRead) /\ Len(gs) = n + 1 /\ gs[n + 1] = f
        /\ \A i \in 1..n : gs[i] = fs[i] /\ fs[i].size \in Nat
    <3>1. n \in Nat /\ gs \in Seq(FileRead) /\ Len(gs) = n + 1 /\ gs[n + 1] = f
      OBVIOUS
    <3>2. \A i \in 1..n : gs[i] = fs[i] /\ fs[i] \in FileRead
      OBVIOUS
    <3> QED
      BY <3>1, <3>2 DEF FileRead
  <2>2. PICK t : Totals(t, Len(fs), fs) /\ Total(fs) = t[Len(fs)]
    BY TotalUnrolls
  <2>3. t[0] = 0 /\ \A i \in 1..n : t[i] = t[i - 1] + fs[i].size
    BY <2>2, TotalStages
  <2>4. PICK u : Totals(u, Len(gs), gs) /\ Total(gs) = u[Len(gs)]
    BY <2>1, TotalUnrolls
  <2>5. u[0] = 0 /\ \A i \in 1..(n + 1) : u[i] = u[i - 1] + gs[i].size
    <3>1. u[0] = 0 /\ \A i \in 1..Len(gs) : u[i] = u[i - 1] + gs[i].size
      BY <2>1, <2>4, TotalStages
    <3> QED
      BY <2>1, <3>1
  <2> HIDE DEF n, gs
  <2> DEFINE T == {i \in Nat : i <= n => t[i] \in Nat /\ u[i] = t[i]}
  <2>6. 0 \in T
    BY <2>3, <2>5
  <2>7. ASSUME NEW i \in Nat, i \in T PROVE i + 1 \in T
    <3> SUFFICES ASSUME i + 1 <= n PROVE t[i + 1] \in Nat /\ u[i + 1] = t[i + 1]
      OBVIOUS
    <3>1. i <= n /\ i + 1 \in 1..n /\ i + 1 \in 1..(n + 1) /\ (i + 1) - 1 = i
      BY <2>1
    <3>2. t[i] \in Nat /\ u[i] = t[i]
      BY <2>7, <3>1
    <3>3. t[i + 1] = t[i] + fs[i + 1].size /\ u[i + 1] = u[i] + gs[i + 1].size
      BY <2>3, <2>5, <3>1
    <3>4. gs[i + 1] = fs[i + 1] /\ fs[i + 1].size \in Nat
      BY <2>1, <3>1
    <3> QED
      BY <3>2, <3>3, <3>4
  <2>8. n \in T
    <3> HIDE DEF T
    <3> QED
      BY <2>1, <2>6, <2>7, InductiveSet
  <2>9. u[n + 1] = u[n] + f.size
    <3>1. n + 1 \in 1..(n + 1) /\ (n + 1) - 1 = n
      BY <2>1
    <3> QED
      BY <2>1, <2>5, <3>1
  <2> QED
    BY <2>1, <2>2, <2>4, <2>8, <2>9 DEF n, gs
<1> QED
  BY <1>1, <1>2

\* Padding to whole blocks never makes a content shorter.
LEMMA PaddedCovers ==
  ASSUME NEW n \in Nat
  PROVE  Padded(n) \in Nat /\ n <= Padded(n)
<1> DEFINE a == n + Block - 1
<1>1. a \in Int /\ Block \in Int /\ Block > 0
  BY LimitsAssumption
<1>2. ASSUME NEW x \in Int, NEW b \in Int, b > 0
      PROVE  (x \div b) * b \in Int /\ (x \div b) * b > x - b
  <2>1. (x \div b) * b \in Int
    BY <1>2
  <2>2. (x \div b) * b > x - b
    BY <1>2, Z3
  <2> QED
    BY <2>1, <2>2
<1>3. Padded(n) \in Int /\ Padded(n) > a - Block
  <2>1. (a \div Block) * Block \in Int /\ (a \div Block) * Block > a - Block
    <3> HIDE DEF a
    <3> QED
      BY <1>1, <1>2
  <2> QED
    BY <2>1 DEF Padded
<1> HIDE DEF a
<1>4. a - Block = n - 1
  BY LimitsAssumption DEF a
<1> QED
  BY <1>3, <1>4

\* A clamped mode is the owner's, and clamping it again is idle.
LEMMA ClampedMode ==
  ASSUME NEW mode \in SUBSET Bits
  PROVE  /\ Clamp(mode) \in SUBSET OwnerBits /\ Clamp(mode) # {} /\ Clamp(mode) \in SUBSET Bits
         /\ Clamp(Clamp(mode)) = Clamp(mode)
<1>1. Clamp(mode) \in SUBSET OwnerBits /\ Clamp(mode) # {}
  BY DEF Clamp, Bits, OwnerBits
<1>2. Clamp(mode) \ {"group", "other"} = Clamp(mode)
  BY <1>1 DEF OwnerBits
<1> QED
  BY <1>1, <1>2 DEF Clamp, Bits, OwnerBits

\* The files a product hands to Seal.
LEMMA InputFiles ==
  ASSUME NEW files \in Inputs
  PROVE  /\ files \in Seq(FileOf) /\ Len(files) \in Nat /\ DOMAIN files = 1..Len(files)
         /\ \A i \in 1..Len(files) :
              /\ files[i].path \in Seq(STRING) /\ files[i].size \in Nat /\ files[i].body \in Nat
              /\ files[i].mode \in SUBSET Bits
<1>1. files \in Seq(FileOf)
  BY InputsAssumption
<1>2. \A i \in 1..Len(files) : files[i] \in FileOf
  BY <1>1
<1> QED
  BY <1>1, <1>2 DEF FileOf

\* A name comes out of JSON as a name of as many segments.
LEMMA JsonedName ==
  ASSUME NEW name \in Seq(STRING)
  PROVE  Jsoned(name) \in Seq(STRING)
<1>1. Len(name) \in Nat /\ DOMAIN name = 1..Len(name) /\ \A i \in 1..Len(name) : name[i] \in STRING
  OBVIOUS
<1>2. \A i \in 1..Len(name) :
        (IF name[i] \in DOMAIN AsJSON THEN AsJSON[name[i]] ELSE name[i]) \in STRING
  BY <1>1, NamesAssumption
<1>3. Jsoned(name) \in [1..Len(name) -> STRING]
  BY <1>1, <1>2 DEF Jsoned
<1> QED
  BY <1>1, <1>3

\* The entries of a list of files, and what JSON makes of them, one per file and
\* in its order.
LEMMA EntriesOfInput ==
  ASSUME NEW files \in Inputs
  PROVE  /\ Entries(files) \in Seq(FileOf) /\ Len(Entries(files)) = Len(files)
         /\ \A i \in 1..Len(files) : Entries(files)[i] = Entry(files[i])
         /\ AsListed(files) \in Seq(FileOf) /\ AsListed(files) # None
<1>1. Len(files) \in Nat /\ DOMAIN files = 1..Len(files)
  BY InputFiles
<1>2. ASSUME NEW i \in 1..Len(files) PROVE Entry(files[i]) \in FileOf
  <2>1. /\ files[i].path \in Seq(STRING) /\ files[i].size \in Nat /\ files[i].body \in Nat
        /\ files[i].mode \in SUBSET Bits
    BY InputFiles
  <2>2. Clean(files[i].path) \in Seq(STRING) /\ Clamp(files[i].mode) \in SUBSET Bits
    BY <2>1, CleanIsClean, ClampedMode
  <2> QED
    BY <2>1, <2>2 DEF Entry, FileOf
<1>3. Entries(files) = [i \in 1..Len(files) |-> Entry(files[i])]
  BY <1>1 DEF Entries
<1>4. ASSUME NEW i \in 1..Len(files)
      PROVE  [Entry(files[i]) EXCEPT !.path = Jsoned(Entry(files[i]).path)] \in FileOf
  <2> DEFINE e == Entry(files[i])
  <2>1. e \in FileOf
    BY <1>2
  <2> HIDE DEF e
  <2>2. e.path \in Seq(STRING)
    BY <2>1 DEF FileOf
  <2>3. Jsoned(e.path) \in Seq(STRING)
    BY <2>2, JsonedName
  <2>4. [e EXCEPT !.path = Jsoned(e.path)] \in FileOf
    BY <2>1, <2>3 DEF FileOf
  <2> QED
    BY <2>4 DEF e
<1>5. AsListed(files) \in [1..Len(files) -> FileOf]
  BY <1>1, <1>4 DEF AsListed
<1>6. AsListed(files) \in Seq(FileOf)
  BY <1>1, <1>5
<1> QED
  BY <1>1, <1>2, <1>3, <1>6, InputsAssumption

\* Seal accepts safe names only, each once, within the limits of Open.
LEMMA BuildsSafe ==
  ASSUME NEW files \in Inputs, Builds(files)
  PROVE  /\ Len(files) <= MaxFiles
         /\ \A i \in 1..Len(files) :
              /\ SafeRelPath(files[i].path) /\ files[i].size <= MaxFileBytes
              /\ Clean(files[i].path) \in Seq(STRING)
              /\ Clean(files[i].path) # ReservedFileList
              /\ Clean(Clean(files[i].path)) = Clean(files[i].path)
              /\ SafeRelPath(Clean(files[i].path))
         /\ \A i, j \in 1..Len(files) :
              Clean(files[i].path) = Clean(files[j].path) => i = j
         /\ ListBytes(files) <= maxFileListBytes
<1>1. /\ DOMAIN files = 1..Len(files) /\ Len(files) \in Nat
      /\ \A i \in 1..Len(files) : files[i].path \in Seq(STRING)
  BY InputFiles
<1>2. /\ Len(files) <= MaxFiles /\ ListBytes(files) <= maxFileListBytes
      /\ \A i \in 1..Len(files) :
           /\ SafeRelPath(files[i].path) /\ files[i].size <= MaxFileBytes
           /\ \A j \in 1..(i - 1) : Clean(files[j].path) # Clean(files[i].path)
  BY <1>1 DEF Builds
<1>3. ASSUME NEW i \in 1..Len(files), NEW j \in 1..Len(files),
             Clean(files[i].path) = Clean(files[j].path)
      PROVE  i = j
  <2>1. ~(i < j)
    <3> SUFFICES ASSUME i < j PROVE FALSE
      OBVIOUS
    <3>1. i \in 1..(j - 1)
      BY <1>1
    <3> QED
      BY <1>2, <1>3, <3>1
  <2>2. ~(j < i)
    <3> SUFFICES ASSUME j < i PROVE FALSE
      OBVIOUS
    <3>1. j \in 1..(i - 1)
      BY <1>1
    <3> QED
      BY <1>2, <1>3, <3>1
  <2> QED
    BY <1>1, <2>1, <2>2
<1>4. ASSUME NEW i \in 1..Len(files)
      PROVE  /\ Clean(files[i].path) \in Seq(STRING)
             /\ Clean(files[i].path) # ReservedFileList
             /\ Clean(Clean(files[i].path)) = Clean(files[i].path)
             /\ SafeRelPath(Clean(files[i].path))
  BY <1>1, <1>2, SafeNames
<1> QED
  BY <1>2, <1>3, <1>4

\* What the tar holds: every file as it will be read back, then the list.
LEMMA PayloadHolds ==
  ASSUME NEW files \in Inputs, Builds(files)
  PROVE  /\ Len(Payload(files)) = Len(files) + 1 /\ Len(files) \in Nat
         /\ \A i \in 1..Len(files) :
              /\ TarMember(Payload(files)[i]) /\ Payload(files)[i].type = "reg"
              /\ Payload(files)[i].name = Clean(files[i].path)
              /\ Payload(files)[i].size = files[i].size
              /\ Extracted(Payload(files)[i]) = Entry(files[i])
         /\ LET l == Payload(files)[Len(files) + 1]
            IN  /\ TarMember(l) /\ l.type = "reg" /\ l.name = ReservedFileList
                /\ l.size = ListBytes(files) /\ l.entries = AsListed(files)
<1> DEFINE n == Len(files)
<1>1. n \in Nat
  BY InputFiles
<1>2. Len(Payload(files)) = n + 1
  BY <1>1 DEF Payload
<1>3. ASSUME NEW i \in 1..n
      PROVE  /\ TarMember(Payload(files)[i]) /\ Payload(files)[i].type = "reg"
             /\ Payload(files)[i].name = Clean(files[i].path)
             /\ Payload(files)[i].size = files[i].size
             /\ Extracted(Payload(files)[i]) = Entry(files[i])
  <2> DEFINE m == Payload(files)[i]
  <2>1. m = [name |-> Clean(files[i].path), type |-> "reg", size |-> files[i].size,
             body |-> files[i].body, mode |-> Clamp(files[i].mode), entries |-> None]
    BY <1>1 DEF Payload
  <2>2. /\ m.type = "reg" /\ m.name = Clean(files[i].path) /\ m.size = files[i].size
        /\ m.body = files[i].body /\ m.mode = Clamp(files[i].mode)
    BY <2>1
  <2> HIDE DEF m
  <2>3. /\ files[i].size \in Nat /\ files[i].body \in Nat /\ files[i].mode \in SUBSET Bits
    BY InputFiles
  <2>4. Clamp(files[i].mode) \in SUBSET Bits /\ Clamp(Clamp(files[i].mode)) = Clamp(files[i].mode)
    BY <2>3, ClampedMode
  <2>5. /\ Clean(files[i].path) \in Seq(STRING)
        /\ Clean(Clean(files[i].path)) = Clean(files[i].path)
    BY BuildsSafe
  <2>6. TarMember(m)
    BY <2>2, <2>3, <2>4, <2>5 DEF TarMember
  <2>7. Extracted(m) = Entry(files[i])
    BY <2>2, <2>4, <2>5 DEF Extracted, Entry
  <2> QED
    BY <2>2, <2>6, <2>7 DEF m
<1>4. LET l == Payload(files)[n + 1]
      IN  /\ TarMember(l) /\ l.type = "reg" /\ l.name = ReservedFileList
          /\ l.size = ListBytes(files) /\ l.entries = AsListed(files)
  <2> DEFINE l == Payload(files)[n + 1]
  <2>1. l = [name |-> ReservedFileList, type |-> "reg", size |-> ListBytes(files),
             body |-> None, mode |-> {"r", "w"}, entries |-> AsListed(files)]
    BY <1>1 DEF Payload
  <2>2. /\ l.type = "reg" /\ l.name = ReservedFileList /\ l.size = ListBytes(files)
        /\ l.mode = {"r", "w"} /\ l.entries = AsListed(files)
    BY <2>1
  <2> HIDE DEF l
  <2>3. ListBytes(files) \in Nat
    BY <1>1, LimitsAssumption DEF ListBytes
  <2>4. TarMember(l)
    BY <2>2, <2>3 DEF TarMember, Bits
  <2> QED
    BY <2>2, <2>4 DEF l
<1> QED
  BY <1>1, <1>2, <1>3, <1>4

-----------------------------------------------------------------------------
(* What a step of a restore may do to what is known of it. *)

\* The call is where it was but for its place, its handle and its error.
Kept(c, d) ==
  /\ d.raw = c.raw /\ d.expect = c.expect /\ d.found = c.found
  /\ d.at = c.at /\ d.seen = c.seen /\ d.files = c.files /\ d.list = c.list

\* A restore in progress.
Active == PCs \ {"idle", "failed"}

\* What more is sealed takes nothing from a capsule.
LEMMA StillGenuine ==
  ASSUME NEW s, NEW t, NEW c, s \subseteq t, CallOK(s, c)
  PROVE  CallOK(t, c)
<1>1. c.pc # "idle" => Genuine(t, c.raw)
  BY DEF CallOK, Opened, Genuine
<1> QED
  BY <1>1 DEF CallOK, Opened

\* A step that extracts nothing, short of returning.
LEMMA KeptOK ==
  ASSUME NEW s, NEW c, NEW d, CallOK(s, c), Kept(c, d), c.pc \in Active, d.pc \in PCs \ {"done"},
         d.pc \in {"rollback", "failed"} /\ d.raw.files # None /\ d.root = 0 => Excused(d)
  PROVE  CallOK(s, d)
<1>1. c.pc # "idle" /\ c.pc # "failed" /\ c.pc \notin {"idle", "failed"}
  BY DEF Active
<1>2. Opened(s, d)
  BY <1>1 DEF CallOK, Opened, Kept
<1>3. WithinLimits(d)
  BY DEF CallOK, WithinLimits, Kept
<1>4. PrefixTaken(d)
  BY <1>1 DEF CallOK, PrefixTaken, Kept
<1> QED
  BY <1>2, <1>3, <1>4 DEF CallOK, Reconciled, Admitted

\* Every member of the tar of an extraction in progress.
LEMMA MemberHeld ==
  ASSUME NEW s, NEW c, CallOK(s, c), c.pc = "extract", c.at <= Len(c.raw.ct.plain)
  PROVE  TarMember(c.raw.ct.plain[c.at]) /\ c.at \in 1..Len(c.raw.ct.plain)
<1>1. Genuine(s, c.raw)
  BY DEF CallOK, Opened
<1>2. c.at \in Nat \ {0}
  BY DEF CallOK, WithinLimits
<1>3. c.at \in 1..Len(c.raw.ct.plain)
  BY <1>1, <1>2 DEF Genuine
<1> QED
  BY <1>1, <1>3 DEF Genuine

\* What extractPayload makes of a member that is a safe file.
LEMMA FileExtracted ==
  ASSUME NEW m, TarMember(m), m.name # ReservedFileList, SafeRelPath(m.name)
  PROVE  /\ Extracted(m) \in FileRead /\ Extracted(m).mode # {} /\ PlainPath(Extracted(m).path)
         /\ Extracted(m).path = Clean(m.name) /\ Extracted(m).size = m.size /\ m.size \in Nat
<1>1. m.size \in Nat /\ m.body \in Nat /\ m.name \in Seq(STRING) /\ m.mode \in SUBSET Bits
  BY DEF TarMember
<1>2. Clean(m.name) \in Seq(STRING) /\ PlainPath(Clean(m.name))
  BY <1>1, SafeNames
<1>3. Clamp(m.mode) \in SUBSET OwnerBits /\ Clamp(m.mode) # {}
  BY <1>1, ClampedMode
<1> DEFINE p == Clean(m.name)
           k == Clamp(m.mode)
<1>4. Extracted(m) = [path |-> p, size |-> m.size, body |-> m.body, mode |-> k]
  BY DEF Extracted
<1> HIDE DEF p, k
<1>5. p \in Seq(STRING) /\ PlainPath(p) /\ k \in SUBSET OwnerBits /\ k # {}
  BY <1>2, <1>3 DEF p, k
<1>6. Extracted(m) \in FileRead
  BY <1>1, <1>4, <1>5 DEF FileRead
<1>7. Extracted(m).path = p /\ Extracted(m).mode = k /\ Extracted(m).size = m.size
  BY <1>4
<1> QED
  BY <1>1, <1>5, <1>6, <1>7 DEF p

\* The extraction of what Seal wrote: the next member is the next file, not yet
\* read and within every limit, or the list, not yet seen.
LEMMA NextOfSealed ==
  ASSUME NEW s, NEW c, CallOK(s, c), c.pc = "extract", c.raw.files # None,
         c.at <= Len(c.raw.ct.plain)
  PROVE  LET fs == c.raw.files
             m == c.raw.ct.plain[c.at]
         IN  /\ m.type = "reg"
             /\ \/ /\ c.at \in 1..Len(fs) /\ Len(c.files) = c.at - 1 /\ Len(c.files) < MaxFiles
                   /\ m.name # ReservedFileList /\ m.size <= MaxFileBytes /\ SafeRelPath(m.name)
                   /\ Extracted(m) = Entry(fs[c.at]) /\ Clean(m.name) = Entry(fs[c.at]).path
                   /\ \A i \in 1..Len(c.files) : c.files[i].path # Clean(m.name)
                \/ /\ c.at = Len(fs) + 1 /\ Len(c.files) = Len(fs)
                   /\ m.name = ReservedFileList /\ m.size <= maxFileListBytes
                   /\ c.list = None /\ m.entries = AsListed(fs) /\ m.entries # None
<1> DEFINE fs == c.raw.files
           m == c.raw.ct.plain[c.at]
<1>1. fs \in Inputs /\ Builds(fs) /\ c.raw.ct.plain = Payload(fs)
  BY DEF CallOK, Opened, Genuine
<1>2. c.at \in 1..Len(c.raw.ct.plain)
  BY MemberHeld
<1>3. Len(c.raw.ct.plain) = Len(fs) + 1 /\ Len(fs) \in Nat
  BY <1>1, PayloadHolds
<1>4. /\ c.at <= Len(fs) + 1 /\ Len(c.files) = c.at - 1 /\ c.list = None
      /\ \A i \in 1..Len(c.files) : c.files[i] = Entry(fs[i])
  <2>1. c.at <= Len(fs) + 1
    BY <1>2, <1>3
  <2>2. c.pc \notin {"idle", "failed"}
    OBVIOUS
  <2> QED
    BY <2>1, <2>2 DEF CallOK, PrefixTaken
<1>5. ASSUME c.at \in 1..Len(fs)
      PROVE  /\ m.type = "reg" /\ Len(c.files) < MaxFiles
             /\ m.name # ReservedFileList /\ m.size <= MaxFileBytes /\ SafeRelPath(m.name)
             /\ Extracted(m) = Entry(fs[c.at]) /\ Clean(m.name) = Entry(fs[c.at]).path
             /\ \A i \in 1..Len(c.files) : c.files[i].path # Clean(m.name)
  <2>1. /\ m.type = "reg" /\ m.name = Clean(fs[c.at].path) /\ m.size = fs[c.at].size
        /\ Extracted(m) = Entry(fs[c.at])
    BY <1>1, <1>5, PayloadHolds
  <2>2. /\ Len(fs) <= MaxFiles /\ fs[c.at].size <= MaxFileBytes
        /\ Clean(fs[c.at].path) # ReservedFileList
        /\ SafeRelPath(Clean(fs[c.at].path))
        /\ Clean(Clean(fs[c.at].path)) = Clean(fs[c.at].path)
        /\ \A i \in 1..Len(fs) : Clean(fs[i].path) = Clean(fs[c.at].path) => i = c.at
    BY <1>1, <1>5, BuildsSafe
  <2>3. \A i \in 1..Len(fs) : Entry(fs[i]).path = Clean(fs[i].path)
    BY DEF Entry
  <2>4. ASSUME NEW i \in 1..Len(c.files) PROVE c.files[i].path # Clean(m.name)
    <3>1. i \in 1..Len(fs) /\ i # c.at
      BY <1>3, <1>4, <1>5
    <3>2. c.files[i].path = Clean(fs[i].path)
      BY <1>4, <2>3, <3>1
    <3> QED
      BY <2>1, <2>2, <3>1, <3>2
  <2>5. Len(c.files) < MaxFiles
    BY <1>3, <1>4, <1>5, <2>2, LimitsAssumption
  <2> HIDE DEF m
  <2> QED
    BY <1>5, <2>1, <2>2, <2>3, <2>4, <2>5
<1>6. ASSUME c.at = Len(fs) + 1
      PROVE  /\ m.type = "reg" /\ m.name = ReservedFileList /\ m.size <= maxFileListBytes
             /\ m.entries = AsListed(fs) /\ m.entries # None
  <2>1. /\ m.type = "reg" /\ m.name = ReservedFileList /\ m.size = ListBytes(fs)
        /\ m.entries = AsListed(fs)
    BY <1>1, <1>6, PayloadHolds
  <2>2. ListBytes(fs) <= maxFileListBytes
    BY <1>1, BuildsSafe
  <2>3. AsListed(fs) # None
    BY <1>1, EntriesOfInput
  <2> QED
    BY <2>1, <2>2, <2>3
<1>7. c.at \in 1..Len(fs) \/ c.at = Len(fs) + 1
  BY <1>2, <1>3
<1>8. CASE c.at \in 1..Len(fs)
  <2> HIDE DEF m, fs
  <2>1. m.type = "reg" /\ Len(c.files) = c.at - 1
    BY <1>4, <1>5, <1>8
  <2> QED
    BY <1>5, <1>8, <2>1 DEF m, fs
<1>9. CASE c.at = Len(fs) + 1
  <2>1. Len(c.files) = Len(fs)
    BY <1>3, <1>4, <1>9
  <2> QED
    BY <1>4, <1>6, <1>9, <2>1
<1> QED
  BY <1>7, <1>8, <1>9

\* What is counted for a member covers its content.
LEMMA CountedCovers ==
  ASSUME NEW seen \in Nat, NEW total \in Nat, NEW size \in Nat, total <= seen
  PROVE  /\ seen + Block + Padded(size) \in Nat
         /\ total + size <= seen + Block + Padded(size)
         /\ ~(seen + (Block + size) > MaxExpandedBytes) => total + size <= MaxExpandedBytes
<1> DEFINE p == Padded(size)
<1>1. /\ p \in Nat /\ size <= p /\ Block \in Nat /\ MaxExpandedBytes \in Nat
  BY PaddedCovers, LimitsAssumption
<1> HIDE DEF p
<1>2. /\ seen + Block + p \in Nat
      /\ total + size <= seen + Block + p
      /\ ~(seen + (Block + size) > MaxExpandedBytes) => total + size <= MaxExpandedBytes
  BY <1>1
<1> QED
  BY <1>2 DEF p

\* A file is taken: it is new, safe and within the limits, and of what Seal
\* wrote it is the next one.
LEMMA FileTakenOK ==
  ASSUME NEW s, NEW c, NEW d, NEW m, CallOK(s, c), c.pc = "extract",
         c.at <= Len(c.raw.ct.plain), m = c.raw.ct.plain[c.at],
         ~(c.seen + (Block + m.size) > MaxExpandedBytes), m.name # ReservedFileList,
         ~(Len(c.files) >= MaxFiles), SafeRelPath(m.name),
         \A i \in 1..Len(c.files) : c.files[i].path # Clean(m.name),
         d.pc = "extract", d.raw = c.raw, d.expect = c.expect, d.at = c.at + 1,
         d.seen = c.seen + Block + Padded(m.size),
         d.files = Append(c.files, Extracted(m)), d.list = c.list
  PROVE  CallOK(s, d)
<1> DEFINE f == Extracted(m)
           n == Len(c.files)
<1>1. TarMember(m) /\ c.at \in 1..Len(c.raw.ct.plain)
  BY MemberHeld
<1>2. f \in FileRead /\ f.mode # {} /\ f.path = Clean(m.name) /\ f.size = m.size /\ m.size \in Nat
  BY <1>1, FileExtracted
<1>3. /\ c.at \in Nat \ {0} /\ c.seen \in Nat /\ c.files \in Seq(FileRead) /\ n <= MaxFiles
      /\ Total(c.files) <= c.seen /\ Total(c.files) <= MaxExpandedBytes
      /\ \A i, j \in 1..n : c.files[i].path = c.files[j].path => i = j
      /\ \A i \in 1..n : c.files[i].mode # {}
  BY DEF CallOK, WithinLimits
<1>4. d.files = Append(c.files, f)
  OBVIOUS
<1> HIDE DEF f
<1>5. /\ d.files \in Seq(FileRead) /\ Len(d.files) = n + 1 /\ n \in Nat
      /\ d.files[n + 1] = f /\ \A i \in 1..n : d.files[i] = c.files[i]
  <2>1. f \in FileRead /\ c.files \in Seq(FileRead)
    BY <1>2, <1>3
  <2> QED
    BY <1>4, <2>1
<1>6. Total(c.files) \in Nat /\ Total(d.files) = Total(c.files) + f.size
  <2>1. f \in FileRead /\ c.files \in Seq(FileRead)
    BY <1>2, <1>3
  <2> QED
    BY <1>4, <2>1, TotalGrows
<1> HIDE DEF n
<1>7. \A i \in 1..(n + 1) : i \in 1..n \/ i = n + 1
  BY <1>5, SMTT(30)
<1>8. \A i \in 1..n : c.files[i].path # f.path
  BY <1>2 DEF n
<1>9. WithinLimits(d)
  <2>0. /\ c.at \in Nat /\ c.seen \in Nat /\ Total(c.files) \in Nat /\ Total(c.files) <= c.seen
        /\ m.size \in Nat /\ Total(d.files) = Total(c.files) + m.size
    BY <1>2, <1>3, <1>6
  <2>9. /\ c.seen + Block + Padded(m.size) \in Nat
        /\ Total(c.files) + m.size <= c.seen + Block + Padded(m.size)
        /\ Total(c.files) + m.size <= MaxExpandedBytes
    BY <2>0, CountedCovers
  <2>1. d.at \in Nat \ {0} /\ d.seen \in Nat
    <3>1. c.at + 1 \in Nat \ {0}
      BY <2>0, SMTT(30)
    <3> QED
      BY <2>9, <3>1, Zenon
  <2>2. Len(d.files) <= MaxFiles
    <3>1. ~(n >= MaxFiles)
      BY DEF n
    <3>2. MaxFiles \in Nat
      BY LimitsAssumption
    <3>3. n + 1 <= MaxFiles
      BY <1>5, <3>1, <3>2, SMTT(30)
    <3> QED
      BY <1>5, <3>3, Zenon
  <2>3. Total(d.files) <= d.seen
    BY <2>9, <2>0, Zenon
  <2>4. Total(d.files) <= MaxExpandedBytes
    BY <2>9, <2>0, Zenon
  <2>5. ASSUME NEW i \in 1..Len(d.files), NEW j \in 1..Len(d.files),
               d.files[i].path = d.files[j].path
        PROVE  i = j
    <3>1. i \in 1..(n + 1) /\ j \in 1..(n + 1)
      BY <1>5
    <3>2. CASE i \in 1..n /\ j \in 1..n
      BY <1>3, <1>5, <2>5, <3>2
    <3>3. CASE i \in 1..n /\ j = n + 1
      BY <1>5, <1>8, <2>5, <3>3
    <3>4. CASE i = n + 1 /\ j \in 1..n
      BY <1>5, <1>8, <2>5, <3>4
    <3> QED
      BY <1>7, <3>1, <3>2, <3>3, <3>4
  <2>6. \A i \in 1..Len(d.files) : d.files[i].mode # {}
    BY <1>2, <1>3, <1>5, <1>7
  <2> QED
    BY <1>5, <2>1, <2>2, <2>3, <2>4, <2>5, <2>6 DEF WithinLimits
<1>10. PrefixTaken(d)
  <2> SUFFICES ASSUME c.raw.files # None
               PROVE  /\ d.at <= Len(c.raw.files) + 1 => Len(d.files) = d.at - 1 /\ d.list = None
                      /\ d.at > Len(c.raw.files) + 1 =>
                           Len(d.files) = Len(c.raw.files) /\ d.list = AsListed(c.raw.files)
                      /\ \A i \in 1..Len(d.files) : d.files[i] = Entry(c.raw.files[i])
    BY DEF PrefixTaken
  <2> DEFINE fs == c.raw.files
  <2>1. c.at \in 1..Len(fs) /\ n = c.at - 1 /\ f = Entry(fs[c.at])
    BY NextOfSealed DEF n, f
  <2>2. fs \in Inputs
    BY DEF CallOK, Opened, Genuine
  <2>3. Len(fs) \in Nat
    BY <2>2, InputFiles
  <2>4. c.list = None /\ \A i \in 1..n : c.files[i] = Entry(fs[i])
    <3>1. c.at <= Len(fs) + 1 /\ c.pc \notin {"idle", "failed"}
      BY <1>3, <2>1, <2>3, SMTT(30)
    <3> QED
      BY <3>1 DEF CallOK, PrefixTaken, n
  <2> HIDE DEF fs
  <2>8. c.at \in Nat /\ d.at = c.at + 1 /\ Len(d.files) = n + 1 /\ n + 1 = c.at
    <3>1. c.at \in Nat /\ d.at = c.at + 1 /\ Len(d.files) = n + 1 /\ n = c.at - 1
      BY <1>3, <1>5, <2>1, Zenon
    <3>2. \A e \in Nat : (e - 1) + 1 = e
      OBVIOUS
    <3> QED
      BY <3>1, <3>2, Zenon
  <2>5. d.at <= Len(fs) + 1 /\ Len(d.files) = d.at - 1 /\ d.list = None
    BY <2>1, <2>3, <2>4, <2>8
  <2>6. \A i \in 1..Len(d.files) : d.files[i] = Entry(fs[i])
    <3>1. d.files[n + 1] = Entry(fs[n + 1])
      BY <1>5, <2>1, <2>8
    <3>2. \A i \in 1..n : d.files[i] = Entry(fs[i])
      BY <1>5, <2>4
    <3> QED
      BY <1>7, <2>8, <3>1, <3>2
  <2>7. ~(d.at > Len(fs) + 1)
    BY <1>3, <2>3, <2>5
  <2> QED
    BY <2>5, <2>6, <2>7 DEF fs
<1>11. Opened(s, d)
  BY DEF CallOK, Opened
<1> QED
  BY <1>9, <1>10, <1>11 DEF CallOK, Reconciled, Admitted

\* The list is read: it is the first, and of what Seal wrote the last member.
LEMMA ListTakenOK ==
  ASSUME NEW s, NEW c, NEW d, NEW m, CallOK(s, c), c.pc = "extract",
         c.at <= Len(c.raw.ct.plain), m = c.raw.ct.plain[c.at], m.name = ReservedFileList,
         d.pc = "extract", d.raw = c.raw, d.expect = c.expect, d.at = c.at + 1,
         d.seen = c.seen + Block + Padded(m.size), d.files = c.files, d.list = m.entries
  PROVE  CallOK(s, d)
<1>1. TarMember(m) /\ c.at \in 1..Len(c.raw.ct.plain)
  BY MemberHeld
<1>2. m.size \in Nat
  BY <1>1 DEF TarMember
<1>3. /\ c.at \in Nat \ {0} /\ c.seen \in Nat /\ c.files \in Seq(FileRead)
      /\ Total(c.files) <= c.seen
  BY DEF CallOK, WithinLimits
<1>4. d.at \in Nat \ {0} /\ d.seen \in Nat /\ c.seen <= d.seen
  <2>1. Padded(m.size) \in Nat /\ Block \in Nat
    BY <1>2, PaddedCovers, LimitsAssumption
  <2>2. c.at \in Nat /\ c.seen \in Nat
    BY <1>3
  <2>3. c.at + 1 \in Nat \ {0}
    BY <2>2
  <2>4. c.seen + Block + Padded(m.size) \in Nat /\ c.seen <= c.seen + Block + Padded(m.size)
    BY <2>1, <2>2
  <2> QED
    BY <2>3, <2>4, Zenon
<1>5. Total(c.files) \in Nat
  <2>1. [path |-> <<>>, size |-> 0, body |-> 0, mode |-> {}] \in FileRead
    BY DEF FileRead
  <2> QED
    BY <1>3, <2>1, TotalGrows
<1>6. Total(c.files) <= d.seen
  BY <1>3, <1>4, <1>5
<1>7. WithinLimits(d)
  BY <1>4, <1>6 DEF CallOK, WithinLimits
<1>8. PrefixTaken(d)
  <2> SUFFICES ASSUME c.raw.files # None
               PROVE  /\ d.at <= Len(c.raw.files) + 1 => Len(d.files) = d.at - 1 /\ d.list = None
                      /\ d.at > Len(c.raw.files) + 1 =>
                           Len(d.files) = Len(c.raw.files) /\ d.list = AsListed(c.raw.files)
                      /\ \A i \in 1..Len(d.files) : d.files[i] = Entry(c.raw.files[i])
    BY DEF PrefixTaken
  <2> DEFINE fs == c.raw.files
  <2>1. c.at = Len(fs) + 1 /\ Len(c.files) = Len(fs) /\ m.entries = AsListed(fs)
    BY NextOfSealed
  <2>2. fs \in Inputs
    BY DEF CallOK, Opened, Genuine
  <2>3. Len(fs) \in Nat
    BY <2>2, InputFiles
  <2>4. \A i \in 1..Len(c.files) : c.files[i] = Entry(fs[i])
    BY DEF CallOK, PrefixTaken
  <2>5. ~(d.at <= Len(fs) + 1)
    BY <2>1, <2>3
  <2> QED
    BY <2>1, <2>4, <2>5
<1>9. Opened(s, d)
  BY DEF CallOK, Opened
<1> QED
  BY <1>7, <1>8, <1>9 DEF CallOK, Reconciled, Admitted

\* At the end of what Seal wrote every file is taken, and the list read.
LEMMA AllTaken ==
  ASSUME NEW s, NEW c, CallOK(s, c), c.pc \notin {"idle", "failed"}, c.raw.files # None,
         c.at > Len(c.raw.ct.plain)
  PROVE  /\ c.files = Entries(c.raw.files) /\ c.list = AsListed(c.raw.files)
         /\ c.list # None
<1> DEFINE fs == c.raw.files
<1>1. fs \in Inputs /\ Builds(fs) /\ c.raw.ct.plain = Payload(fs)
  BY DEF CallOK, Opened, Genuine
<1>2. Len(c.raw.ct.plain) = Len(fs) + 1 /\ Len(fs) \in Nat
  BY <1>1, PayloadHolds
<1>3. c.at > Len(fs) + 1
  BY <1>2
<1>4. /\ Len(c.files) = Len(fs) /\ c.list = AsListed(fs)
      /\ \A i \in 1..Len(c.files) : c.files[i] = Entry(fs[i])
  BY <1>3 DEF CallOK, PrefixTaken
<1>5. /\ Entries(fs) \in Seq(FileOf) /\ Len(Entries(fs)) = Len(fs)
      /\ \A i \in 1..Len(fs) : Entries(fs)[i] = Entry(fs[i])
      /\ AsListed(fs) # None
  BY <1>1, EntriesOfInput
<1>6. c.files \in Seq(FileRead)
  BY DEF CallOK, WithinLimits
<1> DEFINE es == Entries(fs)
           xs == c.files
<1>7. /\ es \in Seq(FileOf) /\ xs \in Seq(FileRead) /\ Len(es) = Len(xs)
      /\ \A i \in 1..Len(xs) : es[i] = xs[i]
  BY <1>4, <1>5, <1>6
<1> HIDE DEF es, xs
<1>8. es = xs
  BY <1>7
<1> QED
  BY <1>4, <1>5, <1>8 DEF es, xs

-----------------------------------------------------------------------------
(* The steps of a restore, one field at a time. *)

\* The call of o is the only one that changes, and stays where calls may be.
Steps(o) == Placed' /\ \A q \in Openers : q # o => call'[q] = call[q]

\* A step that only goes on to the next place.
LEMMA PlaceSteps ==
  ASSUME Placed, NEW o \in Openers, NEW x \in PCs,
         call' = [call EXCEPT ![o].pc = x], tries' = tries
  PROVE  /\ Steps(o)
         /\ Kept(call[o], call'[o])
         /\ call'[o].pc = x /\ call'[o].created = call[o].created
         /\ call'[o].root = call[o].root /\ call'[o].err = call[o].err
         /\ call'[o].stuck = call[o].stuck
<1>1. \A q \in Openers : q # o => call'[q] = call[q]
  BY DEF Placed
<1>2. call'[o] = [call[o] EXCEPT !.pc = x]
  BY DEF Placed
<1>3. /\ DOMAIN call'[o] = Fields /\ call'[o].pc \in PCs
      /\ Kept(call[o], call'[o])
      /\ call'[o].pc = x /\ call'[o].created = call[o].created
      /\ call'[o].root = call[o].root /\ call'[o].err = call[o].err
      /\ call'[o].stuck = call[o].stuck
  BY <1>2 DEF Placed, Fields, Kept, PCs
<1>4. call' = [q \in Openers |-> call'[q]] /\ tries' \in 0..Attempts
  BY DEF Placed
<1>5. \A q \in Openers : DOMAIN call'[q] = Fields /\ call'[q].pc \in PCs
  BY <1>1, <1>3 DEF Placed
<1>6. Placed'
  BY <1>4, <1>5 DEF Placed
<1> QED
  BY <1>1, <1>3, <1>6 DEF Steps

\* prepareTargetDir makes the directory, if nobody did since it looked.
LEMMA MkdirSteps ==
  ASSUME Placed, NEW o \in Openers, Mkdir(o)
  PROVE  /\ Steps(o)
         /\ Kept(call[o], call'[o])
         /\ call'[o].pc = "readdir" /\ call'[o].created = TRUE
         /\ call'[o].root = call[o].root /\ call'[o].stuck = call[o].stuck
<1>1. \A q \in Openers : q # o => call'[q] = call[q]
  BY DEF Mkdir, Placed
<1>2. call'[o] = [[call[o] EXCEPT !.pc = "readdir"] EXCEPT !.created = TRUE]
  BY DEF Mkdir, Placed
<1>3. /\ DOMAIN call'[o] = Fields /\ call'[o].pc \in PCs
      /\ Kept(call[o], call'[o])
      /\ call'[o].pc = "readdir" /\ call'[o].created = TRUE
      /\ call'[o].root = call[o].root /\ call'[o].stuck = call[o].stuck
  BY <1>2 DEF Placed, Fields, Kept, PCs
<1>4. call' = [q \in Openers |-> call'[q]] /\ tries' \in 0..Attempts
  BY DEF Mkdir, Placed
<1>5. \A q \in Openers : DOMAIN call'[q] = Fields /\ call'[q].pc \in PCs
  BY <1>1, <1>3 DEF Placed
<1>6. Placed'
  BY <1>4, <1>5 DEF Placed
<1> QED
  BY <1>1, <1>3, <1>6 DEF Steps

\* prepareTargetDir takes a handle of an empty directory.
LEMMA OpenRootSteps ==
  ASSUME Placed, NEW o \in Openers, OpenRoot(o)
  PROVE  /\ Steps(o)
         /\ Kept(call[o], call'[o])
         /\ call'[o].pc = "extract" /\ call'[o].root = target.gen
         /\ call'[o].created = call[o].created /\ call'[o].stuck = call[o].stuck
<1>1. \A q \in Openers : q # o => call'[q] = call[q]
  BY DEF OpenRoot, Placed
<1>2. call'[o] = [[call[o] EXCEPT !.pc = "extract"] EXCEPT !.root = target.gen]
  BY DEF OpenRoot, Placed
<1>3. /\ DOMAIN call'[o] = Fields /\ call'[o].pc \in PCs
      /\ Kept(call[o], call'[o])
      /\ call'[o].pc = "extract" /\ call'[o].root = target.gen
      /\ call'[o].created = call[o].created /\ call'[o].stuck = call[o].stuck
  BY <1>2 DEF Placed, Fields, Kept, PCs
<1>4. call' = [q \in Openers |-> call'[q]] /\ tries' \in 0..Attempts
  BY DEF OpenRoot, Placed
<1>5. \A q \in Openers : DOMAIN call'[q] = Fields /\ call'[q].pc \in PCs
  BY <1>1, <1>3 DEF Placed
<1>6. Placed'
  BY <1>4, <1>5 DEF Placed
<1> QED
  BY <1>1, <1>3, <1>6 DEF Steps

\* prepareTargetDir finds no use for the directory.
LEMMA UnusableSteps ==
  ASSUME Placed, NEW o \in Openers, PrepareFails(o)
  PROVE  /\ Steps(o)
         /\ Kept(call[o], call'[o])
         /\ call'[o].pc = "failed" /\ call'[o].err = "unusable"
         /\ call'[o].root = call[o].root
         /\ call'[o].created = call[o].created /\ call'[o].stuck = call[o].stuck
<1>1. \A q \in Openers : q # o => call'[q] = call[q]
  BY DEF PrepareFails, Placed
<1>2. call'[o] = [[call[o] EXCEPT !.pc = "failed"] EXCEPT !.err = "unusable"]
  BY DEF PrepareFails, Placed
<1>3. /\ DOMAIN call'[o] = Fields /\ call'[o].pc \in PCs
      /\ Kept(call[o], call'[o])
      /\ call'[o].pc = "failed" /\ call'[o].err = "unusable"
      /\ call'[o].root = call[o].root
      /\ call'[o].created = call[o].created /\ call'[o].stuck = call[o].stuck
  BY <1>2 DEF Placed, Fields, Kept, PCs
<1>4. call' = [q \in Openers |-> call'[q]] /\ tries' \in 0..Attempts
  BY DEF PrepareFails, Placed
<1>5. \A q \in Openers : DOMAIN call'[q] = Fields /\ call'[q].pc \in PCs
  BY <1>1, <1>3 DEF Placed
<1>6. Placed'
  BY <1>4, <1>5 DEF Placed
<1> QED
  BY <1>1, <1>3, <1>6 DEF Steps

\* A rollback ends in failure, with what it could not remove.
LEMMA RollbackSteps ==
  ASSUME Placed, NEW o \in Openers, NEW left,
         call' = [call EXCEPT ![o].pc = "failed", ![o].stuck = left], tries' = tries
  PROVE  /\ Steps(o)
         /\ Kept(call[o], call'[o])
         /\ call'[o].pc = "failed" /\ call'[o].stuck = left
         /\ call'[o].err = call[o].err /\ call'[o].root = call[o].root
         /\ call'[o].created = call[o].created
<1>1. \A q \in Openers : q # o => call'[q] = call[q]
  BY DEF Placed
<1>2. call'[o] = [[call[o] EXCEPT !.pc = "failed"] EXCEPT !.stuck = left]
  BY DEF Placed
<1>3. /\ DOMAIN call'[o] = Fields /\ call'[o].pc \in PCs
      /\ Kept(call[o], call'[o])
      /\ call'[o].pc = "failed" /\ call'[o].stuck = left
      /\ call'[o].err = call[o].err /\ call'[o].root = call[o].root
      /\ call'[o].created = call[o].created
  BY <1>2 DEF Placed, Fields, Kept, PCs
<1>4. call' = [q \in Openers |-> call'[q]] /\ tries' \in 0..Attempts
  BY DEF Placed
<1>5. \A q \in Openers : DOMAIN call'[q] = Fields /\ call'[q].pc \in PCs
  BY <1>1, <1>3 DEF Placed
<1>6. Placed'
  BY <1>4, <1>5 DEF Placed
<1> QED
  BY <1>1, <1>3, <1>6 DEF Steps

\* A step that fails goes on to the rollback.
LEMMA FailSteps ==
  ASSUME Placed, NEW o \in Openers, NEW e, Fail(o, e), tries' = tries
  PROVE  /\ Steps(o)
         /\ Kept(call[o], call'[o])
         /\ call'[o].pc = "rollback" /\ call'[o].err = e
         /\ call'[o].created = call[o].created
         /\ call'[o].root = call[o].root /\ call'[o].stuck = call[o].stuck
<1>1. \A q \in Openers : q # o => call'[q] = call[q]
  BY DEF Fail, Placed
<1>2. call'[o] = [[call[o] EXCEPT !.pc = "rollback"] EXCEPT !.err = e]
  BY DEF Fail, Placed
<1>3. /\ DOMAIN call'[o] = Fields /\ call'[o].pc \in PCs
      /\ Kept(call[o], call'[o])
      /\ call'[o].pc = "rollback" /\ call'[o].err = e
      /\ call'[o].created = call[o].created
      /\ call'[o].root = call[o].root /\ call'[o].stuck = call[o].stuck
  BY <1>2 DEF Placed, Fields, Kept, PCs
<1>4. call' = [q \in Openers |-> call'[q]] /\ tries' \in 0..Attempts
  BY DEF Fail, Placed
<1>5. \A q \in Openers : DOMAIN call'[q] = Fields /\ call'[q].pc \in PCs
  BY <1>1, <1>3 DEF Placed
<1>6. Placed'
  BY <1>4, <1>5 DEF Placed
<1> QED
  BY <1>1, <1>3, <1>6 DEF Steps

\* A member that is taken is counted, and the files and the list go on.
LEMMA TakenSteps ==
  ASSUME Placed, NEW o \in Openers, NEW m, NEW fs, NEW l, Taken(o, m, fs, l), tries' = tries
  PROVE  /\ Steps(o)
         /\ call'[o].pc = call[o].pc /\ call'[o].raw = call[o].raw /\ call'[o].expect = call[o].expect
         /\ call'[o].at = call[o].at + 1 /\ call'[o].seen = call[o].seen + Block + Padded(m.size)
         /\ call'[o].files = fs /\ call'[o].list = l
         /\ call'[o].found = call[o].found
         /\ call'[o].created = call[o].created
         /\ call'[o].root = call[o].root /\ call'[o].stuck = call[o].stuck
<1>1. \A q \in Openers : q # o => call'[q] = call[q]
  BY DEF Taken, Placed
<1>2. call'[o] = [[[[call[o] EXCEPT !.at = call[o].at + 1]
                     EXCEPT !.seen = call[o].seen + Block + Padded(m.size)]
                     EXCEPT !.files = fs] EXCEPT !.list = l]
  BY DEF Taken, Placed
<1>3. /\ DOMAIN call'[o] = Fields /\ call'[o].pc \in PCs
      /\ call'[o].pc = call[o].pc /\ call'[o].raw = call[o].raw /\ call'[o].expect = call[o].expect
      /\ call'[o].at = call[o].at + 1 /\ call'[o].seen = call[o].seen + Block + Padded(m.size)
      /\ call'[o].files = fs /\ call'[o].list = l
      /\ call'[o].found = call[o].found
      /\ call'[o].created = call[o].created
      /\ call'[o].root = call[o].root /\ call'[o].stuck = call[o].stuck
  BY <1>2 DEF Placed, Fields, Kept, PCs
<1>4. call' = [q \in Openers |-> call'[q]] /\ tries' \in 0..Attempts
  BY DEF Taken, Placed
<1>5. \A q \in Openers : DOMAIN call'[q] = Fields /\ call'[q].pc \in PCs
  BY <1>1, <1>3 DEF Placed
<1>6. Placed'
  BY <1>4, <1>5 DEF Placed
<1> QED
  BY <1>1, <1>3, <1>6 DEF Steps

\* A restore that died is forgotten.
LEMMA CrashSteps ==
  ASSUME Placed, NEW o \in Openers, Crash(o)
  PROVE  Steps(o) /\ call'[o] = NoCall
<1>1. \A q \in Openers : q # o => call'[q] = call[q]
  BY DEF Crash, Placed
<1>2. call'[o] = NoCall
  BY DEF Crash, Placed
<1>3. DOMAIN NoCall = Fields /\ NoCall.pc \in PCs
  BY DEF NoCall, Fields, PCs
<1>4. call' = [q \in Openers |-> call'[q]] /\ tries' \in 0..Attempts
  BY DEF Crash, Placed
<1>5. \A q \in Openers : DOMAIN call'[q] = Fields /\ call'[q].pc \in PCs
  BY <1>1, <1>2, <1>3 DEF Placed
<1>6. Placed'
  BY <1>4, <1>5 DEF Placed
<1> QED
  BY <1>1, <1>2, <1>6 DEF Steps

\* What a restore has when it has begun: the stored capsule, or its refusal.
Begun(o, service, key) ==
  LET opens == ServiceMatches(container, service) /\ Decrypts(container, key)
      c == call'[o]
  IN  /\ Steps(o) /\ container # None
      /\ c.raw = container /\ c.expect = <<service, key>> /\ c.found = target.nodes
      /\ c.created = FALSE /\ c.root = 0 /\ c.stuck = {}
      /\ c.at = 1 /\ c.seen = 0 /\ c.files = <<>> /\ c.list = None
      /\ ~opens => c.pc = "failed" /\ c.err = "unopened"
      /\ opens => c.pc \in {"stat", "extract"}
      /\ UNCHANGED <<container, sealings, target>>

\* A restore begins with the stored capsule, or refuses it at once.
LEMMA RestoreSteps ==
  ASSUME Placed, NEW o \in Openers, NEW service, NEW key, NEW onDisk \in BOOLEAN,
         Restore(o, service, key, onDisk)
  PROVE  Begun(o, service, key)
<1> DEFINE opens == ServiceMatches(container, service) /\ Decrypts(container, key)
           c == [pc |-> IF ~opens THEN "failed" ELSE IF onDisk THEN "stat" ELSE "extract",
                 raw |-> container, expect |-> <<service, key>>, found |-> target.nodes,
                 created |-> FALSE, root |-> 0, at |-> 1, seen |-> 0, files |-> <<>>, list |-> None,
                 err |-> IF opens THEN None ELSE "unopened", stuck |-> {}]
<1>1. \A q \in Openers : q # o => call'[q] = call[q]
  BY DEF Restore, Placed
<1>2. call'[o] = c
  BY DEF Restore, Placed
<1> HIDE DEF opens
<1>3. /\ DOMAIN c = Fields /\ c.pc \in PCs
      /\ c.raw = container /\ c.expect = <<service, key>> /\ c.found = target.nodes
      /\ c.created = FALSE /\ c.root = 0 /\ c.stuck = {}
      /\ c.at = 1 /\ c.seen = 0 /\ c.files = <<>> /\ c.list = None
      /\ ~opens => c.pc = "failed" /\ c.err = "unopened"
      /\ opens => c.pc \in {"stat", "extract"}
  BY DEF Fields, PCs
<1> HIDE DEF c
<1>4. call' = [q \in Openers |-> call'[q]] /\ tries' \in 0..Attempts
  <2>1. tries \in Nat /\ Attempts \in Nat /\ tries < Attempts /\ tries' = tries + 1
    BY LimitsAssumption DEF Restore, Placed
  <2>2. call' = [q \in Openers |-> call'[q]]
    BY DEF Restore, Placed
  <2> QED
    BY <2>1, <2>2
<1>5. \A q \in Openers : DOMAIN call'[q] = Fields /\ call'[q].pc \in PCs
  BY <1>1, <1>2, <1>3 DEF Placed
<1>6. Placed'
  BY <1>4, <1>5 DEF Placed
<1>7. container # None /\ UNCHANGED <<container, sealings, target>>
  BY DEF Restore
<1> QED
  BY <1>1, <1>2, <1>3, <1>6, <1>7 DEF Begun, Steps, opens

-----------------------------------------------------------------------------
(* Every step of a restore keeps what is known of it. *)

\* A restore that begins has nothing yet, of the capsule it was asked for.
LEMMA RestoreKeeps ==
  ASSUME RestoreInv, NEW o \in Openers, NEW service, NEW key, NEW onDisk \in BOOLEAN,
         Restore(o, service, key, onDisk)
  PROVE  Steps(o) /\ CallOK(sealings, call'[o]) /\ UNCHANGED <<container, sealings, target>>
<1> DEFINE opens == ServiceMatches(container, service) /\ Decrypts(container, key)
           d == call'[o]
<1>1. /\ Steps(o) /\ container # None /\ UNCHANGED <<container, sealings, target>>
      /\ d.raw = container /\ d.expect = <<service, key>>
      /\ d.root = 0 /\ d.at = 1 /\ d.seen = 0 /\ d.files = <<>> /\ d.list = None
      /\ ~opens => d.pc = "failed" /\ d.err = "unopened"
      /\ opens => d.pc \in {"stat", "extract"}
  <2>1. Begun(o, service, key)
    BY RestoreSteps DEF RestoreInv
  <2> QED
    BY <2>1 DEF Begun
<1>2. opens => /\ container.ct.aad = container.manifest
               /\ <<service, key>> = <<container.manifest.service, container.ct.to>>
  BY DEF ServiceMatches, Decrypts
<1> HIDE DEF opens, d
<1>3. Genuine(sealings, container)
  BY <1>1 DEF RestoreInv, Stored
<1>4. Opened(sealings, d)
  BY <1>1, <1>2, <1>3 DEF Opened
<1>5. WithinLimits(d)
  <2>1. Total(<<>>) = 0 /\ Len(<<>>) = 0 /\ <<>> \in Seq(FileRead)
    BY TotalGrows
  <2>2. MaxFiles \in Nat /\ MaxExpandedBytes \in Nat
    BY LimitsAssumption
  <2> QED
    BY <1>1, <2>1, <2>2 DEF WithinLimits
<1>6. PrefixTaken(d)
  <2> SUFFICES ASSUME container.files # None
               PROVE  /\ d.at <= Len(container.files) + 1 => Len(d.files) = d.at - 1 /\ d.list = None
                      /\ ~(d.at > Len(container.files) + 1)
                      /\ Len(d.files) = 0
    BY <1>1 DEF PrefixTaken
  <2>1. container.files \in Inputs
    BY <1>3 DEF Genuine
  <2>2. Len(container.files) \in Nat
    BY <2>1, InputFiles
  <2>3. Len(d.files) = 0
    BY <1>1
  <2> QED
    BY <1>1, <2>2, <2>3
<1>7. Reconciled(d) /\ Admitted(d)
  BY <1>1 DEF Reconciled, Admitted, Excused
<1> QED
  BY <1>1, <1>4, <1>5, <1>6, <1>7 DEF CallOK, d

\* Preparing the directory extracts nothing.
LEMMA PrepareKeeps ==
  ASSUME RestoreInv, NEW o \in Openers, Stat(o) \/ Mkdir(o) \/ OpenRoot(o) \/ PrepareFails(o)
  PROVE  Steps(o) /\ CallOK(sealings, call'[o]) /\ UNCHANGED <<container, sealings>>
<1>1. Placed /\ CallOK(sealings, call[o])
  BY DEF RestoreInv
<1>2. CASE Stat(o)
  <2> DEFINE x == IF target.gen = 0 THEN "mkdir" ELSE "readdir"
  <2>1. /\ call' = [call EXCEPT ![o].pc = x] /\ tries' = tries /\ x \in PCs \ {"done"}
        /\ x \notin {"rollback", "failed"}
    BY <1>2 DEF Stat, PCs
  <2>2. call[o].pc = "stat" /\ UNCHANGED <<container, sealings>>
    BY <1>2 DEF Stat
  <2> HIDE DEF x
  <2>3. Steps(o) /\ Kept(call[o], call'[o]) /\ call'[o].pc = x
    BY <1>1, <2>1, PlaceSteps
  <2>4. call[o].pc \in Active
    BY <2>2 DEF Active, PCs
  <2>5. CallOK(sealings, call'[o])
    BY <1>1, <2>1, <2>3, <2>4, KeptOK
  <2> QED
    BY <2>2, <2>3, <2>5
<1>3. CASE Mkdir(o)
  <2>1. Steps(o) /\ Kept(call[o], call'[o]) /\ call'[o].pc = "readdir"
    BY <1>1, <1>3, MkdirSteps
  <2>2. call[o].pc = "mkdir" /\ UNCHANGED <<container, sealings>>
    BY <1>3 DEF Mkdir
  <2>3. call[o].pc \in Active /\ "readdir" \in PCs \ {"done"}
    BY <2>2 DEF Active, PCs
  <2>4. CallOK(sealings, call'[o])
    BY <1>1, <2>1, <2>3, KeptOK
  <2> QED
    BY <2>1, <2>2, <2>4
<1>4. CASE OpenRoot(o)
  <2>1. Steps(o) /\ Kept(call[o], call'[o]) /\ call'[o].pc = "extract"
    BY <1>1, <1>4, OpenRootSteps
  <2>2. call[o].pc = "readdir" /\ UNCHANGED <<container, sealings>>
    BY <1>4 DEF OpenRoot
  <2>3. call[o].pc \in Active /\ "extract" \in PCs \ {"done"}
    BY <2>2 DEF Active, PCs
  <2>4. CallOK(sealings, call'[o])
    BY <1>1, <2>1, <2>3, KeptOK
  <2> QED
    BY <2>1, <2>2, <2>4
<1>5. CASE PrepareFails(o)
  <2>1. Steps(o) /\ Kept(call[o], call'[o]) /\ call'[o].pc = "failed" /\ call'[o].err = "unusable"
    BY <1>1, <1>5, UnusableSteps
  <2>2. call[o].pc \in {"stat", "mkdir", "readdir"} /\ UNCHANGED <<container, sealings>>
    BY <1>5 DEF PrepareFails
  <2>3. call[o].pc \in Active /\ "failed" \in PCs \ {"done"}
    BY <2>2 DEF Active, PCs
  <2>4. Excused(call'[o])
    BY <2>1 DEF Excused
  <2>5. CallOK(sealings, call'[o])
    BY <1>1, <2>1, <2>3, <2>4, KeptOK
  <2> QED
    BY <2>1, <2>2, <2>5
<1> QED
  BY <1>2, <1>3, <1>4, <1>5

\* A failure of an extraction that is no fault of what Seal wrote.
LEMMA FailKeeps ==
  ASSUME RestoreInv, NEW o \in Openers, NEW e, call[o].pc = "extract", Fail(o, e),
         UNCHANGED <<container, sealings, tries>>,
         call[o].raw.files # None /\ call[o].root = 0 =>
           \/ e = "tooLarge"
           \/ e = "corrupt" /\ AsListed(call[o].raw.files) # Entries(call[o].raw.files)
  PROVE  Steps(o) /\ CallOK(sealings, call'[o]) /\ UNCHANGED <<container, sealings>>
<1>1. Placed /\ CallOK(sealings, call[o])
  BY DEF RestoreInv
<1>2. /\ Steps(o) /\ Kept(call[o], call'[o]) /\ call'[o].pc = "rollback" /\ call'[o].err = e
      /\ call'[o].root = call[o].root
  BY <1>1, FailSteps
<1>3. call[o].pc \in Active /\ "rollback" \in PCs \ {"done"}
  BY DEF Active, PCs
<1>4. call'[o].raw.files # None /\ call'[o].root = 0 => Excused(call'[o])
  BY <1>2 DEF Kept, Excused
<1>5. CallOK(sealings, call'[o])
  BY <1>1, <1>2, <1>3, <1>4, KeptOK
<1> QED
  BY <1>2, <1>5

\* No member of what Seal wrote is refused.
LEMMA RefuseKeeps ==
  ASSUME RestoreInv, NEW o \in Openers, RefuseMember(o)
  PROVE  Steps(o) /\ CallOK(sealings, call'[o]) /\ UNCHANGED <<container, sealings, target>>
<1>1. CallOK(sealings, call[o])
  BY DEF RestoreInv
<1>2. /\ call[o].pc = "extract" /\ call[o].at <= Len(call[o].raw.ct.plain)
      /\ UNCHANGED <<container, sealings, target, tries>>
  BY DEF RefuseMember, Members
<1>3. CASE Fail(o, "tooLarge")
  BY <1>2, <1>3, FailKeeps
<1>4. CASE Refused(o, Member(o)) /\ Fail(o, "refused")
  <2>1. call[o].raw.files = None
    <3> SUFFICES ASSUME call[o].raw.files # None PROVE FALSE
      OBVIOUS
    <3> DEFINE c == call[o]
               m == c.raw.ct.plain[c.at]
               fs == c.raw.files
    <3>1. /\ m.type = "reg"
          /\ \/ /\ Len(c.files) < MaxFiles
                /\ m.name # ReservedFileList /\ m.size <= MaxFileBytes /\ SafeRelPath(m.name)
                /\ \A i \in 1..Len(c.files) : c.files[i].path # Clean(m.name)
             \/ /\ m.name = ReservedFileList /\ m.size <= maxFileListBytes
                /\ c.list = None /\ m.entries # None
      BY <1>1, <1>2, NextOfSealed
    <3>2. Refused(o, m)
      BY <1>4 DEF Member, Members
    <3>3. TarMember(m) /\ c.files \in Seq(FileRead)
      BY <1>1, <1>2, MemberHeld DEF CallOK, WithinLimits
    <3>4. /\ m.size \in Nat /\ Len(c.files) \in Nat /\ DOMAIN c.files = 1..Len(c.files)
          /\ MaxFiles \in Nat /\ MaxFileBytes \in Nat /\ maxFileListBytes \in Nat
      BY <3>3, LimitsAssumption DEF TarMember
    <3> HIDE DEF m
    <3> QED
      BY <3>1, <3>2, <3>4 DEF Refused, ListRefused, FileRefused, TooMany
  <2> QED
    BY <1>2, <1>4, <2>1, FailKeeps
<1> QED
  BY <1>3, <1>4 DEF RefuseMember

\* The list is kept as it was read.
LEMMA ReadListKeeps ==
  ASSUME RestoreInv, NEW o \in Openers, ReadList(o)
  PROVE  Steps(o) /\ CallOK(sealings, call'[o]) /\ UNCHANGED <<container, sealings, target>>
<1> DEFINE c == call[o]
           d == call'[o]
           m == c.raw.ct.plain[c.at]
<1>1. Placed /\ CallOK(sealings, c)
  BY DEF RestoreInv
<1>2. /\ c.pc = "extract" /\ c.at <= Len(c.raw.ct.plain) /\ m.name = ReservedFileList
      /\ Taken(o, m, c.files, m.entries) /\ UNCHANGED <<container, sealings, target, tries>>
  BY DEF ReadList, Member, Members
<1>3. /\ Steps(o) /\ d.pc = c.pc /\ d.raw = c.raw /\ d.expect = c.expect
      /\ d.at = c.at + 1 /\ d.seen = c.seen + Block + Padded(m.size)
      /\ d.files = c.files /\ d.list = m.entries
  <2> HIDE DEF m
  <2> QED
    BY <1>1, <1>2, TakenSteps
<1> HIDE DEF c, d
<1>4. CallOK(sealings, d)
  BY <1>1, <1>2, <1>3, ListTakenOK
<1> QED
  BY <1>2, <1>3, <1>4 DEF d

\* A member that TakeFile does not refuse is a new and safe file.
LEMMA FileAdmitted ==
  ASSUME RestoreInv, NEW o \in Openers, TakeFile(o)
  PROVE  LET c == call[o]
             m == Member(o)
         IN  /\ c.pc = "extract" /\ c.at <= Len(c.raw.ct.plain) /\ m = c.raw.ct.plain[c.at]
             /\ ~(c.seen + (Block + m.size) > MaxExpandedBytes) /\ m.name # ReservedFileList
             /\ ~(Len(c.files) >= MaxFiles) /\ SafeRelPath(m.name)
             /\ \A i \in 1..Len(c.files) : c.files[i].path # Clean(m.name)
             /\ Extracted(m) \in FileRead /\ PlainPath(Extracted(m).path)
             /\ UNCHANGED <<container, sealings, tries>>
<1> DEFINE c == call[o]
           m == Member(o)
<1>1. CallOK(sealings, c)
  BY DEF RestoreInv
<1>2. /\ c.pc = "extract" /\ c.at <= Len(c.raw.ct.plain) /\ m = c.raw.ct.plain[c.at]
      /\ ~Exhausts(o, Block + m.size) /\ m.name # ReservedFileList /\ ~Refused(o, m)
      /\ UNCHANGED <<container, sealings, tries>>
  BY DEF TakeFile, Member, Members
<1>3. c.files \in Seq(FileRead)
  BY <1>1 DEF CallOK, WithinLimits
<1>4. DOMAIN c.files = 1..Len(c.files)
  BY <1>3
<1> HIDE DEF m
<1>5. ~FileRefused(o, m)
  BY <1>2 DEF Refused
<1>6. /\ ~(Len(c.files) >= MaxFiles) /\ SafeRelPath(m.name)
      /\ \A i \in 1..Len(c.files) : c.files[i].path # Clean(m.name)
  BY <1>4, <1>5 DEF FileRefused, TooMany
<1>7. ~(c.seen + (Block + m.size) > MaxExpandedBytes)
  BY <1>2 DEF Exhausts
<1>8. TarMember(m)
  BY <1>1, <1>2, MemberHeld
<1>9. Extracted(m) \in FileRead /\ PlainPath(Extracted(m).path)
  BY <1>2, <1>6, <1>8, FileExtracted
<1> QED
  BY <1>2, <1>6, <1>7, <1>9 DEF m

\* What TakeFile does to the call: the file is taken, or a restore that writes
\* fails.
LEMMA FileTakenOrFailed ==
  ASSUME NEW o \in Openers, TakeFile(o)
  PROVE  \/ Taken(o, Member(o), Append(call[o].files, Extracted(Member(o))), call[o].list)
         \/ call[o].root # 0 /\ (Fail(o, "exists") \/ Fail(o, "io"))
BY DEF TakeFile

\* A file that is taken keeps what is known of the restore.
LEMMA TakeFileKeeps ==
  ASSUME RestoreInv, NEW o \in Openers, TakeFile(o)
  PROVE  Steps(o) /\ CallOK(sealings, call'[o]) /\ UNCHANGED <<container, sealings>>
<1> DEFINE c == call[o]
           d == call'[o]
           m == Member(o)
           f == Extracted(m)
<1>1. Placed /\ CallOK(sealings, c)
  BY DEF RestoreInv
<1>2. /\ c.pc = "extract" /\ c.at <= Len(c.raw.ct.plain) /\ m = c.raw.ct.plain[c.at]
      /\ ~(c.seen + (Block + m.size) > MaxExpandedBytes) /\ m.name # ReservedFileList
      /\ ~(Len(c.files) >= MaxFiles) /\ SafeRelPath(m.name)
      /\ \A i \in 1..Len(c.files) : c.files[i].path # Clean(m.name)
      /\ UNCHANGED <<container, sealings, tries>>
  BY FileAdmitted
<1>3. CASE Taken(o, m, Append(c.files, f), c.list)
  <2>1. /\ Steps(o) /\ d.pc = c.pc /\ d.raw = c.raw /\ d.expect = c.expect
        /\ d.at = c.at + 1 /\ d.seen = c.seen + Block + Padded(m.size)
        /\ d.files = Append(c.files, f) /\ d.list = c.list
    <3> DEFINE gs == Append(c.files, f)
    <3>1. Placed /\ Taken(o, m, gs, c.list) /\ tries' = tries
      BY <1>1, <1>2, <1>3
    <3> HIDE DEF m, gs
    <3>2. /\ Steps(o) /\ d.pc = c.pc /\ d.raw = c.raw /\ d.expect = c.expect
          /\ d.at = c.at + 1 /\ d.seen = c.seen + Block + Padded(m.size)
          /\ d.files = gs /\ d.list = c.list
      BY <3>1, TakenSteps
    <3> QED
      BY <3>2 DEF gs
  <2> HIDE DEF c, d, m
  <2>2. CallOK(sealings, d)
    BY <1>1, <1>2, <2>1, FileTakenOK
  <2> QED
    BY <1>2, <2>1, <2>2 DEF d
<1>4. CASE c.root # 0 /\ (Fail(o, "exists") \/ Fail(o, "io"))
  BY <1>2, <1>4, FailKeeps
<1> QED
  BY <1>3, <1>4, FileTakenOrFailed

\* The end of the archive returns what was extracted, or fails: what Seal wrote
\* reconciles, unless a name did not survive the list.
LEMMA FinishKeeps ==
  ASSUME RestoreInv, NEW o \in Openers, Finish(o)
  PROVE  Steps(o) /\ CallOK(sealings, call'[o]) /\ UNCHANGED <<container, sealings, target>>
<1> DEFINE c == call[o]
           d == call'[o]
<1>1. Placed /\ CallOK(sealings, c)
  BY DEF RestoreInv
<1>2. /\ c.pc = "extract" /\ c.at > Len(c.raw.ct.plain)
      /\ UNCHANGED <<container, sealings, target, tries>>
  BY DEF Finish, Members
<1>3. CASE Fail(o, "tooLarge")
  BY <1>2, <1>3, FailKeeps
<1>4. ASSUME c.raw.files # None, AsListed(c.raw.files) = Entries(c.raw.files)
      PROVE  Reconciles(o)
  <2>1. c.pc \notin {"idle", "failed"}
    BY <1>2
  <2>2. c.files = Entries(c.raw.files) /\ c.list = AsListed(c.raw.files)
    BY <1>1, <1>2, <1>4, <2>1, AllTaken
  <2> QED
    BY <1>4, <2>2 DEF Reconciles
<1>5. CASE ~Reconciles(o) /\ Fail(o, "corrupt")
  BY <1>2, <1>4, <1>5, FailKeeps
<1>6. CASE Reconciles(o) /\ call' = [call EXCEPT ![o].pc = "done"]
  <2>1. Steps(o) /\ Kept(c, d) /\ d.pc = "done"
    BY <1>1, <1>2, <1>6, PlaceSteps DEF PCs
  <2>2. c.list = None \/ c.list = c.files
    BY <1>6 DEF Reconciles
  <2> HIDE DEF c, d
  <2>3. Opened(sealings, d) /\ WithinLimits(d) /\ PrefixTaken(d)
    BY <1>1, <1>2, <2>1 DEF CallOK, Opened, WithinLimits, PrefixTaken, Kept
  <2>4. Reconciled(d) /\ Admitted(d)
    BY <1>2, <2>1, <2>2 DEF Reconciled, Admitted, Kept
  <2> QED
    BY <1>2, <2>1, <2>3, <2>4 DEF CallOK, d
<1> QED
  BY <1>3, <1>5, <1>6 DEF Finish

\* The rollback loses nothing of what is known but the place.
LEMMA RollbackKeeps ==
  ASSUME RestoreInv, NEW o \in Openers, Rollback(o)
  PROVE  Steps(o) /\ CallOK(sealings, call'[o]) /\ UNCHANGED <<container, sealings>>
<1>1. Placed /\ CallOK(sealings, call[o])
  BY DEF RestoreInv
<1>2. /\ call[o].pc = "rollback" /\ UNCHANGED <<container, sealings, tries>>
      /\ \/ call' = [call EXCEPT ![o].pc = "failed"]
         \/ \E left : call' = [call EXCEPT ![o].pc = "failed", ![o].stuck = left]
  BY DEF Rollback
<1>3. /\ Steps(o) /\ Kept(call[o], call'[o]) /\ call'[o].pc = "failed"
      /\ call'[o].root = call[o].root /\ call'[o].err = call[o].err
  <2>1. CASE call' = [call EXCEPT ![o].pc = "failed"]
    BY <1>1, <1>2, <2>1, PlaceSteps DEF PCs
  <2>2. CASE \E left : call' = [call EXCEPT ![o].pc = "failed", ![o].stuck = left]
    BY <1>1, <1>2, <2>2, RollbackSteps
  <2> QED
    BY <1>2, <2>1, <2>2
<1>4. call[o].pc \in Active /\ "failed" \in PCs \ {"done"}
  BY <1>2 DEF Active, PCs
<1>5. call'[o].raw.files # None /\ call'[o].root = 0 => Excused(call'[o])
  BY <1>1, <1>2, <1>3 DEF CallOK, Admitted, Kept, Excused
<1>6. CallOK(sealings, call'[o])
  BY <1>1, <1>3, <1>4, <1>5, KeptOK
<1> QED
  BY <1>2, <1>3, <1>6

\* Of a restore that has not begun nothing is claimed.
LEMMA NoCallOK == CallOK(sealings, NoCall)
<1>1. /\ NoCall.pc = "idle" /\ NoCall.at = 1 /\ NoCall.seen = 0 /\ NoCall.files = <<>>
  BY DEF NoCall
<1> DEFINE c == NoCall
<1> HIDE DEF c
<1>2. Total(<<>>) = 0 /\ Len(<<>>) = 0 /\ <<>> \in Seq(FileRead)
  BY TotalGrows
<1>3. MaxFiles \in Nat /\ MaxExpandedBytes \in Nat
  BY LimitsAssumption
<1>4. WithinLimits(c)
  BY <1>1, <1>2, <1>3 DEF WithinLimits, c
<1> QED
  BY <1>1, <1>4 DEF CallOK, Opened, PrefixTaken, Reconciled, Admitted, c

-----------------------------------------------------------------------------
(* What is sealed, what is stored, and what is in the directory. *)

\* Sealing and editing keep what is stored as what somebody sealed.
LEMMA StoreKeeps ==
  ASSUME RestoreInv, NEW seal, NEW files, NEW members, NEW to,
         NEW service, NEW kit, NEW hash, seal = Sealed(service, to, kit, hash, members),
         Put(files, seal), Len(members) \in Nat,
         \A i \in 1..Len(members) : TarMember(members[i]),
         files # None => files \in Inputs /\ Builds(files) /\ members = Payload(files)
  PROVE  RestoreInv'
<1>1. /\ container' = [manifest |-> seal.manifest, ct |-> seal.ct, files |-> files]
      /\ sealings' = sealings \cup {seal} /\ UNCHANGED <<target, call, tries>>
  BY DEF Put
<1>2. seal.ct.plain = members /\ seal.ct.aad = seal.manifest
  BY DEF Sealed
<1>3. /\ container'.ct = seal.ct /\ container'.files = files
      /\ DOMAIN container' = {"manifest", "ct", "files"}
  BY <1>1
<1>4. seal \in sealings'
  BY <1>1
<1>5. Genuine(sealings', container')
  BY <1>2, <1>3, <1>4 DEF Genuine
<1>6. Stored'
  BY <1>1, <1>2, <1>3, <1>5 DEF RestoreInv, Stored
<1>7. \A o \in Openers : CallOK(sealings', call'[o])
  BY <1>1, StillGenuine DEF RestoreInv
<1>8. Placed' /\ Inside'
  BY <1>1 DEF RestoreInv, Placed, Inside
<1> QED
  BY <1>6, <1>7, <1>8 DEF RestoreInv

\* Seal stores what a product gave it.
LEMMA SealStep ==
  ASSUME RestoreInv, NEW files \in Inputs, NEW service, NEW to, NEW kit, Seal(files, service, to, kit)
  PROVE  RestoreInv'
<1> DEFINE seal == Sealed(service, to, kit, Payload(files), Payload(files))
<1>1. Builds(files) /\ Put(files, seal)
  BY DEF Seal
<1>2. /\ Len(Payload(files)) = Len(files) + 1 /\ Len(files) \in Nat
      /\ \A i \in 1..Len(files) : TarMember(Payload(files)[i])
      /\ TarMember(Payload(files)[Len(files) + 1])
  BY <1>1, PayloadHolds
<1>3. Len(Payload(files)) \in Nat /\ \A i \in 1..Len(Payload(files)) : TarMember(Payload(files)[i])
  <2>1. \A i \in 1..(Len(files) + 1) : i \in 1..Len(files) \/ i = Len(files) + 1
    BY <1>2
  <2> QED
    BY <1>2, <2>1
<1> HIDE DEF seal
<1>4. seal = Sealed(service, to, kit, Payload(files), Payload(files))
  BY DEF seal
<1> QED
  BY <1>1, <1>3, <1>4, StoreKeeps

\* Another writer stores what he likes, as long as it is a tar.
LEMMA SealOtherStep ==
  ASSUME RestoreInv, NEW members \in Others, NEW service, NEW to, NEW kit, NEW hash,
         SealOther(members, service, to, kit, hash)
  PROVE  RestoreInv'
<1> DEFINE seal == Sealed(service, to, kit, hash, members)
<1>1. Put(None, seal)
  BY DEF SealOther
<1> DEFINE M == [name : Seq(STRING), type : {"reg", "symlink"}, size : Nat, body : Nat,
                 mode : SUBSET Bits, entries : {None} \cup Seq(FileOf)]
<1>2. members \in Seq(M)
  BY InputsAssumption
<1>3. \A m \in M : TarMember(m)
  BY DEF TarMember
<1> HIDE DEF M, seal
<1>4. Len(members) \in Nat /\ \A i \in 1..Len(members) : TarMember(members[i])
  BY <1>2, <1>3
<1>5. seal = Sealed(service, to, kit, hash, members)
  BY DEF seal
<1> QED
  BY <1>1, <1>4, <1>5, StoreKeeps

\* An edited manifest leaves the ciphertext what somebody sealed.
LEMMA EditStep ==
  ASSUME RestoreInv, NEW service, NEW keyID, EditManifest(service, keyID)
  PROVE  RestoreInv'
<1>1. container # None /\ UNCHANGED <<sealings, target, call, tries>>
  BY DEF EditManifest
<1>2. Genuine(sealings, container) /\ DOMAIN container = {"manifest", "ct", "files"}
  BY <1>1 DEF RestoreInv, Stored
<1>3. /\ container'.ct = container.ct /\ container'.files = container.files
      /\ DOMAIN container' = {"manifest", "ct", "files"}
  BY <1>2 DEF EditManifest
<1>4. Genuine(sealings, container')
  BY <1>2, <1>3 DEF Genuine
<1>5. Stored'
  BY <1>1, <1>3, <1>4 DEF RestoreInv, Stored
<1>6. \A o \in Openers : CallOK(sealings', call'[o])
  BY <1>1 DEF RestoreInv
<1>7. Placed' /\ Inside'
  BY <1>1 DEF RestoreInv, Placed, Inside
<1> QED
  BY <1>5, <1>6, <1>7 DEF RestoreInv

\* The directories above a path that stays inside stay inside too.
LEMMA ParentsPlain ==
  ASSUME NEW p \in Seq(STRING), PlainPath(p), NEW d \in Parents(p)
  PROVE  PlainPath(d)
<1>1. PICK n \in 1..(Len(p) - 1) : d = SubSeq(p, 1, n)
  BY DEF Parents
<1>2. Len(p) \in Nat /\ n \in 0..Len(p) /\ n > 0
  OBVIOUS
<1>3. d \in Seq(STRING) /\ Len(d) = n /\ \A i \in 1..n : d[i] = p[i]
  BY <1>1, <1>2
<1>4. DOMAIN d = 1..n /\ d # <<>>
  BY <1>2, <1>3
<1>5. \A i \in 1..n : i \in DOMAIN p
  BY <1>2
<1> QED
  BY <1>3, <1>4, <1>5 DEF PlainPath

\* Making the directories above a path adds nothing that leads outside.
LEMMA WithParentsInside ==
  ASSUME NEW nodes, \A n \in nodes : PlainPath(n.path), NEW p \in Seq(STRING), PlainPath(p)
  PROVE  \A n \in WithParents(nodes, p) : PlainPath(n.path)
<1> SUFFICES ASSUME NEW n \in WithParents(nodes, p) PROVE PlainPath(n.path)
  OBVIOUS
<1> DEFINE D == {x \in Parents(p) : \A y \in Parents(x) \cup {x} : ~FileAt(nodes, y)}
<1>1. n \in nodes \/ \E d \in D : n = [path |-> d, file |-> None]
  BY DEF WithParents
<1>2. \A d \in D : PlainPath(d)
  BY ParentsPlain
<1> HIDE DEF D
<1> QED
  BY <1>1, <1>2

\* What TakeFile does to the directory: nothing, or it makes directories above
\* the file and perhaps the file, in the directory it has a handle of.
LEMMA FileWritten ==
  ASSUME RestoreInv, NEW o \in Openers, TakeFile(o)
  PROVE  LET f == Extracted(Member(o))
             made == WithParents(target.nodes, f.path)
         IN  \/ target' = target
             \/ /\ call[o].root # 0 /\ target.gen = call[o].root
                /\ target' = [gen |-> target.gen, nodes |-> target'.nodes]
                /\ \A n \in target'.nodes : n \in made \/ n.path = f.path
                /\ made \subseteq target'.nodes
<1> DEFINE f == Extracted(Member(o))
           made == WithParents(target.nodes, f.path)
<1>1. target = [gen |-> target.gen, nodes |-> target.nodes]
  BY DEF RestoreInv, Inside
<1>2. \/ target' = target
      \/ /\ call[o].root # 0 /\ target.gen = call[o].root
         /\ \/ target' = [target EXCEPT !.nodes = made]
            \/ target' = [target EXCEPT !.nodes = made \cup {[path |-> f.path, file |-> f]}]
            \/ target' = [target EXCEPT !.nodes =
                             made \cup {[path |-> f.path, file |-> [f EXCEPT !.body = None]]}]
  BY DEF TakeFile, Holds
<1> HIDE DEF f, made
<1> DEFINE one == [path |-> f.path, file |-> f]
           part == [path |-> f.path, file |-> [f EXCEPT !.body = None]]
<1>3. one.path = f.path /\ part.path = f.path
  OBVIOUS
<1>4. ASSUME target' # target
      PROVE  /\ call[o].root # 0 /\ target.gen = call[o].root
             /\ target' = [gen |-> target.gen, nodes |-> target'.nodes]
             /\ \A n \in target'.nodes : n \in made \/ n.path = f.path
             /\ made \subseteq target'.nodes
  <2>1. \/ target' = [target EXCEPT !.nodes = made]
        \/ target' = [target EXCEPT !.nodes = made \cup {one}]
        \/ target' = [target EXCEPT !.nodes = made \cup {part}]
    BY <1>2, <1>4
  <2> HIDE DEF one, part
  <2>2. /\ target' = [gen |-> target.gen, nodes |-> target'.nodes]
        /\ \/ target'.nodes = made
           \/ target'.nodes = made \cup {one}
           \/ target'.nodes = made \cup {part}
    <3>1. CASE target' = [target EXCEPT !.nodes = made]
      BY <1>1, <3>1
    <3>2. CASE target' = [target EXCEPT !.nodes = made \cup {one}]
      BY <1>1, <3>2
    <3>3. CASE target' = [target EXCEPT !.nodes = made \cup {part}]
      BY <1>1, <3>3
    <3> QED
      BY <2>1, <3>1, <3>2, <3>3, Zenon
  <2>3. \A n \in target'.nodes : n \in made \/ n.path = f.path
    BY <1>3, <2>2
  <2> QED
    BY <1>2, <1>4, <2>2, <2>3
<1> QED
  BY <1>4 DEF f, made

\* What a restore does to the directory never leads outside it.
LEMMA StaysInside ==
  ASSUME RestoreInv, NEW o \in Openers, Mkdir(o) \/ TakeFile(o) \/ Rollback(o)
  PROVE  Inside'
<1>0. Inside
  BY DEF RestoreInv
<1>1. CASE Mkdir(o)
  <2>1. target' = target \/ target' = [gen |-> tries + 1, nodes |-> {}]
    BY <1>1 DEF Mkdir
  <2> QED
    BY <1>0, <2>1 DEF Inside
<1>2. CASE TakeFile(o)
  <2> DEFINE p == Extracted(Member(o)).path
             made == WithParents(target.nodes, p)
  <2>1. p \in Seq(STRING) /\ PlainPath(p)
    BY <1>2, FileAdmitted DEF FileRead
  <2>2. \A n \in made : PlainPath(n.path)
    BY <1>0, <2>1, WithParentsInside DEF Inside
  <2>3. \/ target' = target
        \/ /\ call[o].root # 0 /\ target.gen = call[o].root
           /\ target' = [gen |-> target.gen, nodes |-> target'.nodes]
           /\ \A n \in target'.nodes : n \in made \/ n.path = p
    BY <1>2, FileWritten
  <2> HIDE DEF p, made
  <2>4. CASE target' = target
    BY <1>0, <2>4 DEF Inside
  <2>5. CASE /\ call[o].root # 0 /\ target.gen = call[o].root
             /\ target' = [gen |-> target.gen, nodes |-> target'.nodes]
             /\ \A n \in target'.nodes : n \in made \/ n.path = p
    <3>1. target'.gen = target.gen /\ target'.gen # 0
      BY <2>5
    <3>2. \A n \in target'.nodes : PlainPath(n.path)
      BY <2>1, <2>2, <2>5
    <3> QED
      BY <2>5, <3>1, <3>2 DEF Inside
  <2> QED
    BY <2>3, <2>4, <2>5
<1>3. CASE Rollback(o)
  <2>1. \/ target' = target \/ target' = Absent
        \/ \E left \in SUBSET target.nodes : target' = [target EXCEPT !.nodes = left]
    BY <1>3 DEF Rollback, RolledBack, Leftovers
  <2>2. CASE target' = target \/ target' = Absent
    BY <1>0, <2>2 DEF Inside, Absent
  <2>3. ASSUME NEW left \in SUBSET target.nodes, target' = [target EXCEPT !.nodes = left]
        PROVE  Inside'
    <3>1. target' = [gen |-> target.gen, nodes |-> left]
      BY <1>0, <2>3 DEF Inside
    <3>2. target'.gen = target.gen /\ target'.nodes = left
      BY <3>1
    <3> QED
      BY <1>0, <3>1, <3>2 DEF Inside
  <2> QED
    BY <2>1, <2>2, <2>3
<1> QED
  BY <1>1, <1>2, <1>3

\* Every step of a restore keeps the invariant.
LEMMA RestoreStep ==
  ASSUME RestoreInv, NEW o \in Openers,
         Steps(o) /\ CallOK(sealings, call'[o]) /\ UNCHANGED <<container, sealings>>, Inside'
  PROVE  RestoreInv'
<1>1. \A q \in Openers : CallOK(sealings', call'[q])
  BY DEF RestoreInv, Steps
<1>2. Stored'
  BY DEF RestoreInv, Stored
<1>3. Placed'
  BY DEF Steps
<1> QED
  BY <1>1, <1>2, <1>3 DEF RestoreInv

\* Nothing is known to begin with.
LEMMA InitRestore == Init => RestoreInv
<1> SUFFICES ASSUME Init PROVE RestoreInv
  OBVIOUS
<1>1. container = None /\ sealings = {} /\ tries = 0 /\ call = [o \in Openers |-> NoCall]
  BY DEF Init
<1>2. Inside
  <2>1. PlainPath(<<"kept">>)
    BY DEF PlainPath
  <2>2. \A n \in {[path |-> <<"kept">>, file |-> None]} : PlainPath(n.path)
    BY <2>1
  <2>3. target = [gen |-> target.gen, nodes |-> target.nodes]
    BY DEF Init, Absent
  <2>4. /\ \/ target.nodes = {}
           \/ target.gen = 1 /\ target.nodes = {[path |-> <<"kept">>, file |-> None]}
    BY DEF Init, Absent
  <2> QED
    BY <2>2, <2>3, <2>4 DEF Inside
<1>3. Placed
  <2>1. DOMAIN NoCall = Fields /\ NoCall.pc \in PCs
    BY DEF NoCall, Fields, PCs
  <2>2. \A o \in Openers : call[o] = NoCall
    BY <1>1
  <2>3. call = [o \in Openers |-> call[o]]
    BY <1>1, <2>2
  <2> QED
    BY <1>1, <2>1, <2>2, <2>3, LimitsAssumption DEF Placed
<1>4. Stored
  BY <1>1 DEF Stored
<1>5. \A o \in Openers : CallOK(sealings, call[o])
  BY <1>1, NoCallOK
<1> QED
  BY <1>2, <1>3, <1>4, <1>5 DEF RestoreInv

\* Whatever is done next, the invariant stands.
LEMMA NextRestore == RestoreInv /\ [Next]_vars => RestoreInv'
<1> SUFFICES ASSUME RestoreInv, [Next]_vars PROVE RestoreInv'
  OBVIOUS
<1>1. CASE \E f \in Inputs, s \in Services, k \in Keys, kit \in Kits : Seal(f, s, k, kit)
  BY <1>1, SealStep
<1>2. CASE \E m \in Others, s \in Services, k \in Keys, kit \in Kits, h \in BOOLEAN :
             SealOther(m, s, k, kit, IF h THEN m ELSE None)
  BY <1>2, SealOtherStep
<1>3. CASE \E s \in Services, k \in Keys : EditManifest(s, k)
  BY <1>3, EditStep
<1>4. ASSUME NEW o \in Openers, NEW s \in Services, NEW k \in Keys, NEW d \in BOOLEAN,
             Restore(o, s, k, d)
      PROVE  RestoreInv'
  <2>1. Steps(o) /\ CallOK(sealings, call'[o]) /\ UNCHANGED <<container, sealings, target>>
    BY <1>4, RestoreKeeps
  <2>2. Inside'
    BY <2>1 DEF RestoreInv, Inside
  <2> QED
    BY <2>1, <2>2, RestoreStep
<1>5. ASSUME NEW o \in Openers, Stat(o) \/ OpenRoot(o) \/ PrepareFails(o) PROVE RestoreInv'
  <2>1. Steps(o) /\ CallOK(sealings, call'[o]) /\ UNCHANGED <<container, sealings>>
    BY <1>5, PrepareKeeps
  <2>2. Inside'
    BY <1>5 DEF RestoreInv, Inside, Stat, OpenRoot, PrepareFails
  <2> QED
    BY <2>1, <2>2, RestoreStep
<1>6. ASSUME NEW o \in Openers, Mkdir(o) PROVE RestoreInv'
  BY <1>6, PrepareKeeps, StaysInside, RestoreStep
<1>7. ASSUME NEW o \in Openers, RefuseMember(o) \/ ReadList(o) \/ Finish(o) PROVE RestoreInv'
  <2>1. Steps(o) /\ CallOK(sealings, call'[o]) /\ UNCHANGED <<container, sealings, target>>
    BY <1>7, RefuseKeeps, ReadListKeeps, FinishKeeps
  <2>2. Inside'
    BY <2>1 DEF RestoreInv, Inside
  <2> QED
    BY <2>1, <2>2, RestoreStep
<1>8. ASSUME NEW o \in Openers, TakeFile(o) PROVE RestoreInv'
  BY <1>8, TakeFileKeeps, StaysInside, RestoreStep
<1>9. ASSUME NEW o \in Openers, Rollback(o) PROVE RestoreInv'
  BY <1>9, RollbackKeeps, StaysInside, RestoreStep
<1>10. ASSUME NEW o \in Openers, Crash(o) PROVE RestoreInv'
  <2>1. Steps(o) /\ call'[o] = NoCall
    BY <1>10, CrashSteps DEF RestoreInv
  <2>2. UNCHANGED <<container, sealings, target>>
    BY <1>10 DEF Crash
  <2>3. Inside'
    BY <2>2 DEF RestoreInv, Inside
  <2>4. CallOK(sealings, call'[o])
    BY <2>1, NoCallOK
  <2> QED
    BY <2>1, <2>2, <2>3, <2>4, RestoreStep
<1>11. CASE UNCHANGED vars
  <2>1. UNCHANGED <<container, sealings, target, call, tries>>
    BY <1>11 DEF vars
  <2>2. \A o \in Openers : CallOK(sealings', call'[o])
    BY <2>1 DEF RestoreInv
  <2>3. Placed' /\ Inside' /\ Stored'
    BY <2>1 DEF RestoreInv, Placed, Inside, Stored
  <2> QED
    BY <2>2, <2>3 DEF RestoreInv
<1> QED
  BY <1>1, <1>2, <1>3, <1>4, <1>5, <1>6, <1>7, <1>8, <1>9, <1>10, <1>11 DEF Next

-----------------------------------------------------------------------------
(* A restore that has the directory to itself. *)

\* A step that leaves the directory alone, and of the call only changes what is
\* neither the handle nor what was found.
LEMMA DirectoryKept ==
  ASSUME NEW o \in Openers, AloneOK(o), target' = target, call[o].pc # "idle",
         call'[o].found = call[o].found, call'[o].root = call[o].root,
         call'[o].created = call[o].created, call'[o].stuck = call[o].stuck, call[o].pc # "failed",
         \/ call[o].root = 0 /\ call'[o].pc \in {"extract", "rollback", "done", "failed"}
         \/ call[o].pc = "extract" /\ call'[o].pc = "rollback"
         \/ /\ call[o].pc = "extract" /\ call'[o].pc \in {"extract", "done"}
            /\ call'[o].files = call[o].files
  PROVE  AloneOK(o)'
<1>1. AsFound(call[o])'
  BY DEF AloneOK, AsFound
<1>2. FoundEmpty(call[o])'
  BY DEF AloneOK, FoundEmpty
<1>3. HandleHolds(call[o])'
  BY DEF AloneOK, HandleHolds
<1> QED
  BY <1>1, <1>2, <1>3 DEF AloneOK

\* A restore begins with the directory as it is.
LEMMA RestoreAlone ==
  ASSUME RestoreInv, NEW o \in Openers, NEW service, NEW key, NEW onDisk \in BOOLEAN,
         Restore(o, service, key, onDisk)
  PROVE  AloneOK(o)'
<1>1. /\ UNCHANGED target /\ call'[o].found = target.nodes /\ call'[o].created = FALSE
      /\ call'[o].root = 0 /\ call'[o].files = <<>> /\ call'[o].stuck = {}
      /\ call'[o].pc \in {"failed", "stat", "extract"}
  <2>1. Begun(o, service, key)
    BY RestoreSteps DEF RestoreInv
  <2> QED
    BY <2>1 DEF Begun
<1> QED
  BY <1>1 DEF AloneOK, AsFound, FoundEmpty, HandleHolds

\* What prepareTargetDir saw is still so when it acts on it.
LEMMA PrepareAlone ==
  ASSUME RestoreInv, NEW o \in Openers, AloneOK(o),
         Stat(o) \/ Mkdir(o) \/ OpenRoot(o) \/ PrepareFails(o)
  PROVE  AloneOK(o)'
<1>1. Placed /\ (target.gen = 0 => target.nodes = {})
  BY DEF RestoreInv, Inside
<1>2. CASE Stat(o)
  <2> DEFINE x == IF target.gen = 0 THEN "mkdir" ELSE "readdir"
  <2>1. /\ call[o].pc = "stat" /\ call' = [call EXCEPT ![o].pc = x] /\ tries' = tries
        /\ x \in PCs /\ target' = target
        /\ x \in {"mkdir", "readdir"} /\ (x = "mkdir" => target.gen = 0)
    BY <1>2 DEF Stat, PCs
  <2> HIDE DEF x
  <2>2. /\ Kept(call[o], call'[o]) /\ call'[o].pc = x /\ call'[o].created = call[o].created
        /\ call'[o].root = call[o].root /\ call'[o].stuck = call[o].stuck
    BY <1>1, <2>1, PlaceSteps
  <2> QED
    BY <2>1, <2>2 DEF AloneOK, AsFound, FoundEmpty, HandleHolds, Kept
<1>3. CASE Mkdir(o)
  <2>1. /\ call[o].pc = "mkdir"
        /\ target' = IF target.gen = 0 THEN [gen |-> tries + 1, nodes |-> {}] ELSE target
    BY <1>3 DEF Mkdir
  <2>2. /\ Kept(call[o], call'[o]) /\ call'[o].pc = "readdir" /\ call'[o].created = TRUE
        /\ call'[o].root = call[o].root /\ call'[o].stuck = call[o].stuck
    BY <1>1, <1>3, MkdirSteps
  <2>3. /\ target.gen = 0 /\ call[o].stuck = {} /\ target.nodes \ {} = call[o].found
        /\ call[o].root = 0 /\ call[o].files = <<>>
    BY <2>1 DEF AloneOK, AsFound, FoundEmpty
  <2>4. call'[o].found = {} /\ call'[o].files = <<>> /\ target'.nodes = {} /\ call'[o].stuck = {}
    BY <1>1, <2>1, <2>2, <2>3 DEF Kept
  <2> QED
    BY <2>2, <2>3, <2>4 DEF AloneOK, AsFound, FoundEmpty, HandleHolds
<1>4. CASE OpenRoot(o)
  <2>1. call[o].pc = "readdir" /\ target' = target /\ target.nodes = {}
    BY <1>4 DEF OpenRoot, TargetUsable
  <2>2. /\ Kept(call[o], call'[o]) /\ call'[o].created = call[o].created
        /\ call'[o].pc = "extract" /\ call'[o].root = target.gen
        /\ call'[o].stuck = call[o].stuck
    BY <1>1, <1>4, OpenRootSteps
  <2>3. /\ call[o].stuck = {} /\ target.nodes \ {} = call[o].found /\ call[o].files = <<>>
    BY <2>1 DEF AloneOK, AsFound, FoundEmpty
  <2>4. /\ call'[o].found = {} /\ call'[o].files = <<>> /\ Len(call'[o].files) = 0
        /\ call'[o].stuck = {}
    BY <2>1, <2>2, <2>3 DEF Kept
  <2>5. AsFound(call[o])' /\ FoundEmpty(call[o])'
    BY <2>1, <2>2, <2>4 DEF AsFound, FoundEmpty
  <2>6. HandleHolds(call[o])'
    BY <2>1, <2>2, <2>4 DEF HandleHolds
  <2> QED
    BY <2>5, <2>6 DEF AloneOK
<1>5. CASE PrepareFails(o)
  <2>1. call[o].pc \in {"stat", "mkdir", "readdir"} /\ target' = target
    BY <1>5 DEF PrepareFails
  <2>2. /\ Kept(call[o], call'[o]) /\ call'[o].created = call[o].created
        /\ call'[o].pc = "failed" /\ call'[o].root = call[o].root
        /\ call'[o].stuck = call[o].stuck
    BY <1>1, <1>5, UnusableSteps
  <2> QED
    BY <2>1, <2>2 DEF AloneOK, AsFound, FoundEmpty, HandleHolds, Kept
<1> QED
  BY <1>2, <1>3, <1>4, <1>5

\* Reading the archive touches neither the directory nor the handle.
LEMMA ReadAlone ==
  ASSUME RestoreInv, NEW o \in Openers, AloneOK(o), RefuseMember(o) \/ ReadList(o) \/ Finish(o)
  PROVE  AloneOK(o)'
<1>1. Placed /\ call[o].pc = "extract" /\ target' = target /\ tries' = tries
  BY DEF RestoreInv, RefuseMember, ReadList, Finish
<1>2. \/ \E e : Fail(o, e)
      \/ Taken(o, Member(o), call[o].files, Member(o).entries)
      \/ call' = [call EXCEPT ![o].pc = "done"]
  BY DEF RefuseMember, ReadList, Finish
<1>3. CASE \E e : Fail(o, e)
  <2>1. /\ Kept(call[o], call'[o]) /\ call'[o].pc = "rollback"
        /\ call'[o].created = call[o].created /\ call'[o].root = call[o].root
        /\ call'[o].stuck = call[o].stuck
    BY <1>1, <1>3, FailSteps
  <2> QED
    BY <1>1, <2>1, DirectoryKept DEF Kept
<1>4. CASE Taken(o, Member(o), call[o].files, Member(o).entries)
  <2> DEFINE m == Member(o)
             l == m.entries
  <2>0. Taken(o, m, call[o].files, l)
    BY <1>4
  <2> HIDE DEF m, l
  <2>1. /\ call'[o].pc = call[o].pc /\ call'[o].files = call[o].files
        /\ call'[o].found = call[o].found
        /\ call'[o].created = call[o].created /\ call'[o].root = call[o].root
        /\ call'[o].stuck = call[o].stuck
    BY <1>1, <2>0, TakenSteps
  <2> QED
    BY <1>1, <2>1, DirectoryKept
<1>5. CASE call' = [call EXCEPT ![o].pc = "done"]
  <2>1. /\ Kept(call[o], call'[o]) /\ call'[o].pc = "done"
        /\ call'[o].created = call[o].created /\ call'[o].root = call[o].root
        /\ call'[o].stuck = call[o].stuck
    BY <1>1, <1>5, PlaceSteps DEF PCs
  <2> QED
    BY <1>1, <2>1, DirectoryKept DEF Kept
<1> QED
  BY <1>2, <1>3, <1>4, <1>5

\* A file that is taken is in the directory, beside those before it.
LEMMA TakeFileAlone ==
  ASSUME RestoreInv, NEW o \in Openers, AloneOK(o), TakeFile(o)
  PROVE  AloneOK(o)'
<1> DEFINE f == Extracted(Member(o))
           gs == Append(call[o].files, f)
           m == Member(o)
           l == call[o].list
<1>1. Placed /\ call[o].pc = "extract" /\ tries' = tries /\ call[o].files \in Seq(FileRead)
  BY DEF RestoreInv, CallOK, WithinLimits, TakeFile
<1>2. f \in FileRead
  BY FileAdmitted
<1>3. \/ target' = target
      \/ /\ call[o].root # 0 /\ target.gen = call[o].root /\ target'.gen = target.gen
         /\ target.nodes \subseteq target'.nodes
  <2> DEFINE made == WithParents(target.nodes, f.path)
  <2>1. \/ target' = target
        \/ /\ call[o].root # 0 /\ target.gen = call[o].root
           /\ target' = [gen |-> target.gen, nodes |-> target'.nodes]
           /\ made \subseteq target'.nodes
    BY FileWritten
  <2>2. target.nodes \subseteq made
    BY DEF WithParents
  <2> HIDE DEF made, f
  <2>3. target' = [gen |-> target.gen, nodes |-> target'.nodes] => target'.gen = target.gen
    OBVIOUS
  <2> QED
    BY <2>1, <2>2, <2>3
<1>4. \/ /\ Taken(o, m, gs, l)
         /\ \/ call[o].root = 0 /\ target' = target
            \/ /\ call[o].root # 0
               /\ target' = [target EXCEPT !.nodes = WithParents(target.nodes, f.path)
                                                       \cup {[path |-> f.path, file |-> f]}]
      \/ call[o].root # 0 /\ \E e : Fail(o, e)
  BY DEF TakeFile
<1>5. CASE call[o].root # 0 /\ \E e : Fail(o, e)
  <2>1. /\ Kept(call[o], call'[o]) /\ call'[o].pc = "rollback"
        /\ call'[o].created = call[o].created /\ call'[o].root = call[o].root
        /\ call'[o].stuck = call[o].stuck
    BY <1>1, <1>5, FailSteps
  <2>2. target'.gen = call[o].root
    BY <1>1, <1>3, <1>5 DEF AloneOK, HandleHolds
  <2>3. call'[o].found = call[o].found
    BY <2>1 DEF Kept
  <2> HIDE DEF f, m, gs, l
  <2> QED
    BY <1>1, <1>5, <2>1, <2>2, <2>3 DEF AloneOK, AsFound, FoundEmpty, HandleHolds
<1>6. ASSUME Taken(o, m, gs, l)
      PROVE  /\ call'[o].pc = "extract" /\ call'[o].files = gs /\ call'[o].found = call[o].found
             /\ call'[o].created = call[o].created /\ call'[o].root = call[o].root
             /\ call'[o].stuck = call[o].stuck
  <2> HIDE DEF m, gs, l
  <2> QED
    BY <1>1, <1>6, TakenSteps
<1>7. CASE Taken(o, m, gs, l) /\ call[o].root = 0 /\ target' = target
  <2> HIDE DEF f, m, gs, l
  <2> QED
    BY <1>1, <1>6, <1>7, DirectoryKept
<1>8. CASE /\ Taken(o, m, gs, l) /\ call[o].root # 0
           /\ target' = [target EXCEPT !.nodes = WithParents(target.nodes, f.path)
                                                   \cup {[path |-> f.path, file |-> f]}]
  <2> DEFINE n == Len(call[o].files)
             node == [path |-> f.path, file |-> f]
  <2>1. /\ Len(gs) = n + 1 /\ n \in Nat /\ gs[n + 1] = f
        /\ \A i \in 1..n : gs[i] = call[o].files[i]
    <3> HIDE DEF f
    <3> QED
      BY <1>1, <1>2
  <2>2. node \in target'.nodes
    <3>1. target = [gen |-> target.gen, nodes |-> target.nodes]
      BY DEF RestoreInv, Inside
    <3> DEFINE N == WithParents(target.nodes, f.path) \cup {node}
    <3>2. target' = [target EXCEPT !.nodes = N] /\ node \in N
      BY <1>8
    <3> HIDE DEF N, node, f
    <3> QED
      BY <3>1, <3>2
  <2>3. /\ target.gen = call[o].root
        /\ \A i \in 1..n :
             [path |-> call[o].files[i].path, file |-> call[o].files[i]] \in target.nodes
    BY <1>1, <1>8 DEF AloneOK, HandleHolds
  <2>4. target'.gen = call[o].root /\ target.nodes \subseteq target'.nodes
    BY <1>3, <2>3
  <2> HIDE DEF m, gs, l, n
  <2>5. ASSUME NEW i \in 1..Len(gs)
        PROVE  [path |-> gs[i].path, file |-> gs[i]] \in target'.nodes
    <3>1. i \in 1..n \/ i = n + 1
      BY <2>1
    <3>2. CASE i \in 1..n
      BY <2>1, <2>3, <2>4, <3>2
    <3>3. CASE i = n + 1
      BY <2>1, <2>2, <3>3
    <3> QED
      BY <3>1, <3>2, <3>3
  <2>6. HandleHolds(call[o])'
    BY <1>6, <1>8, <2>4, <2>5 DEF HandleHolds
  <2>7. AsFound(call[o])' /\ FoundEmpty(call[o])'
    BY <1>1, <1>6, <1>8 DEF AloneOK, AsFound, FoundEmpty
  <2> QED
    BY <2>6, <2>7 DEF AloneOK
<1> HIDE DEF m, gs, l, f
<1> QED
  BY <1>4, <1>5, <1>7, <1>8

\* A rollback leaves the directory as the restore found it, absent or empty, but
\* for what it could not remove.
LEMMA RollbackAlone ==
  ASSUME RestoreInv, NEW o \in Openers, AloneOK(o), Rollback(o)
  PROVE  AloneOK(o)'
<1>1. /\ call[o].pc = "rollback" /\ tries' = tries
      /\ Placed /\ target = [gen |-> target.gen, nodes |-> target.nodes]
  BY DEF Rollback, RestoreInv, Inside
<1>2. CASE /\ call[o].root = 0 \/ (~call[o].created /\ ~Holds(o))
           /\ call' = [call EXCEPT ![o].pc = "failed"]
           /\ UNCHANGED target
  <2>1. /\ Kept(call[o], call'[o]) /\ call'[o].pc = "failed"
        /\ call'[o].created = call[o].created /\ call'[o].root = call[o].root
        /\ call'[o].stuck = call[o].stuck
    BY <1>1, <1>2, PlaceSteps DEF PCs
  <2>2. call[o].root = 0
    BY <1>1, <1>2 DEF AloneOK, HandleHolds, Holds
  <2>3. target.nodes \ call[o].stuck = call[o].found
    BY <1>1, <2>2 DEF AloneOK, AsFound
  <2>4. FoundEmpty(call[o])
    BY DEF AloneOK
  <2> QED
    BY <1>2, <2>1, <2>2, <2>3, <2>4 DEF AloneOK, AsFound, FoundEmpty, HandleHolds, Kept
<1>3. ASSUME call[o].root # 0, NEW left \in Leftovers(target.nodes), target' \in RolledBack(o, left),
             call' = [call EXCEPT ![o].pc = "failed", ![o].stuck = left]
      PROVE  AloneOK(o)'
  <2>1. /\ Kept(call[o], call'[o]) /\ call'[o].pc = "failed" /\ call'[o].stuck = left
        /\ call'[o].created = call[o].created /\ call'[o].root = call[o].root
    BY <1>1, <1>3, RollbackSteps
  <2>2. target' = [target EXCEPT !.nodes = left] \/ (target' = Absent /\ left = {})
    BY <1>3 DEF RolledBack
  <2>3. target'.nodes = left
    BY <1>1, <2>2 DEF Absent
  <2>4. call[o].found = {}
    BY <1>3 DEF AloneOK, FoundEmpty
  <2>5. target'.nodes \ call'[o].stuck = call'[o].found
    BY <2>1, <2>3, <2>4 DEF Kept
  <2> QED
    BY <2>1, <2>4, <2>5 DEF AloneOK, AsFound, FoundEmpty, HandleHolds, Kept
<1> QED
  BY <1>2, <1>3 DEF Rollback

\* No restore has begun.
LEMMA NoCallAlone ==
  ASSUME NEW o \in Openers, call[o] = NoCall
  PROVE  AloneOK(o)
BY DEF NoCall, AloneOK, AsFound, FoundEmpty, HandleHolds

\* Whatever is done next, a lone restore still has the directory to itself.
LEMMA NextAlone ==
  ASSUME \A o, q \in Openers : o = q, RestoreInv, AloneInv, [Next]_vars
  PROVE  AloneInv'
<1> SUFFICES ASSUME NEW o \in Openers PROVE AloneOK(o)'
  BY DEF AloneInv
<1>1. AloneOK(o)
  BY DEF AloneInv
<1>2. CASE UNCHANGED <<target, call>>
  BY <1>1, <1>2 DEF AloneOK, AsFound, FoundEmpty, HandleHolds
<1>3. ASSUME NEW s \in Services, NEW k \in Keys, NEW d \in BOOLEAN, Restore(o, s, k, d)
      PROVE  AloneOK(o)'
  BY <1>3, RestoreAlone
<1>4. CASE Crash(o)
  <2>1. call'[o] = NoCall
    BY <1>4, CrashSteps DEF RestoreInv
  <2> QED
    BY <2>1 DEF NoCall, AloneOK, AsFound, FoundEmpty, HandleHolds
<1>5. \/ UNCHANGED <<target, call>>
      \/ \E s \in Services, k \in Keys, d \in BOOLEAN : Restore(o, s, k, d)
      \/ Stat(o) \/ Mkdir(o) \/ OpenRoot(o) \/ PrepareFails(o)
      \/ RefuseMember(o) \/ ReadList(o) \/ TakeFile(o) \/ Finish(o)
      \/ Rollback(o) \/ Crash(o)
  <2>1. CASE \E f \in Inputs, s \in Services, k \in Keys, kit \in Kits : Seal(f, s, k, kit)
    BY <2>1 DEF Seal, Put
  <2>2. CASE \E x \in Others, s \in Services, k \in Keys, kit \in Kits, h \in BOOLEAN :
               SealOther(x, s, k, kit, IF h THEN x ELSE None)
    BY <2>2 DEF SealOther, Put
  <2>3. CASE \E s \in Services, k \in Keys : EditManifest(s, k)
    BY <2>3 DEF EditManifest
  <2>4. CASE UNCHANGED vars
    BY <2>4 DEF vars
  <2>5. CASE \E q \in Openers :
               \/ \E s \in Services, k \in Keys, d \in BOOLEAN : Restore(q, s, k, d)
               \/ Stat(q) \/ Mkdir(q) \/ OpenRoot(q) \/ PrepareFails(q)
               \/ RefuseMember(q) \/ ReadList(q) \/ TakeFile(q) \/ Finish(q)
               \/ Rollback(q) \/ Crash(q)
    BY <2>5
  <2> QED
    BY <2>1, <2>2, <2>3, <2>4, <2>5 DEF Next
<1> QED
  BY <1>1, <1>2, <1>3, <1>4, <1>5, PrepareAlone, ReadAlone, TakeFileAlone, RollbackAlone

-----------------------------------------------------------------------------
(* The theorems. *)

\* What holds of every restore, however many share the directory.
LEMMA RestoresHold == RestoreInv => TypeOK /\ RestoredAsSealed /\ RoundTrip /\ LimitsAgree
<1> SUFFICES ASSUME RestoreInv PROVE TypeOK /\ RestoredAsSealed /\ RoundTrip /\ LimitsAgree
  OBVIOUS
<1>1. TypeOK
  <2>1. \A o \in Openers : Len(call[o].files) <= MaxFiles /\ Total(call[o].files) <= MaxExpandedBytes
    BY DEF RestoreInv, CallOK, WithinLimits
  <2>2. \A o \in Openers : call[o].pc \in PCs
    BY DEF RestoreInv, Placed
  <2>3. tries \in 0..Attempts
    BY DEF RestoreInv, Placed
  <2>4. /\ \A n \in target.nodes : n.path # <<>> /\ \A i \in DOMAIN n.path : n.path[i] \notin {"..", "."}
        /\ target.gen = 0 => target.nodes = {}
    BY DEF RestoreInv, Inside, PlainPath
  <2> QED
    BY <2>1, <2>2, <2>3, <2>4 DEF TypeOK, PCs
<1>2. RestoredAsSealed
  <2> SUFFICES ASSUME NEW o \in Openers, call[o].pc = "done"
               PROVE  \E s \in sealings :
                        /\ s.manifest = call[o].raw.manifest /\ s.ct = call[o].raw.ct
                        /\ <<s.manifest.service, s.ct.to>> = call[o].expect
    BY DEF RestoredAsSealed
  <2>1. /\ Genuine(sealings, call[o].raw) /\ call[o].raw.ct.aad = call[o].raw.manifest
        /\ call[o].expect = <<call[o].raw.manifest.service, call[o].raw.ct.to>>
    BY DEF RestoreInv, CallOK, Opened
  <2>2. PICK s \in sealings : s.ct = call[o].raw.ct
    BY <2>1 DEF Genuine
  <2>3. s.manifest = s.ct.aad
    BY DEF RestoreInv, Stored
  <2> QED
    BY <2>1, <2>2, <2>3
<1>3. RoundTrip
  <2> SUFFICES ASSUME NEW o \in Openers, call[o].pc = "done"
               PROVE  /\ call[o].raw.files # None => call[o].files = Entries(call[o].raw.files)
                      /\ call[o].list # None => call[o].list = call[o].files
                      /\ \A i, j \in DOMAIN call[o].files :
                           call[o].files[i].path = call[o].files[j].path => i = j
                      /\ \A i \in DOMAIN call[o].files :
                           /\ call[o].files[i].mode # {}
                           /\ call[o].files[i].mode \subseteq {"r", "w", "x"}
    BY DEF RoundTrip
  <2> DEFINE c == call[o]
  <2>1. CallOK(sealings, c)
    BY DEF RestoreInv
  <2>2. (c.list = None \/ c.list = c.files) /\ c.at > Len(c.raw.ct.plain)
    BY <2>1 DEF CallOK, Reconciled
  <2>3. ASSUME c.raw.files # None PROVE c.files = Entries(c.raw.files)
    <3>1. c.pc \notin {"idle", "failed"}
      OBVIOUS
    <3> HIDE DEF c
    <3> QED
      BY <2>1, <2>2, <2>3, <3>1, AllTaken
  <2>4. /\ c.files \in Seq(FileRead)
        /\ \A i, j \in 1..Len(c.files) : c.files[i].path = c.files[j].path => i = j
        /\ \A i \in 1..Len(c.files) : c.files[i].mode # {}
    BY <2>1 DEF CallOK, WithinLimits
  <2> HIDE DEF c
  <2>5. DOMAIN c.files = 1..Len(c.files) /\ \A i \in 1..Len(c.files) : c.files[i] \in FileRead
    BY <2>4
  <2>6. \A i \in DOMAIN c.files : c.files[i].mode # {} /\ c.files[i].mode \subseteq {"r", "w", "x"}
    BY <2>4, <2>5 DEF FileRead, OwnerBits
  <2> QED
    BY <2>2, <2>3, <2>4, <2>5, <2>6 DEF c
<1>4. LimitsAgree
  BY DEF LimitsAgree, RestoreInv, CallOK, Admitted, Excused
<1> QED
  BY <1>1, <1>2, <1>3, <1>4

\* What a restore returns, for any number of them in one directory: it holds
\* what someone sealed to the key the shares rebuilt, every file once and as it
\* was, inside the directory and within the limits, and what Seal let through is
\* refused in memory for the size of the whole archive or for a name that is not
\* valid UTF-8, and for nothing else (extract.go:58-200, seal.go:197).
THEOREM RestoresTruly == Spec => [](TypeOK /\ RestoredAsSealed /\ RoundTrip /\ LimitsAgree)
<1>1. Init => RestoreInv
  BY InitRestore
<1>2. RestoreInv /\ [Next]_vars => RestoreInv'
  BY NextRestore
<1> QED
  BY <1>1, <1>2, RestoresHold, PTL DEF Spec

\* What holds of a restore that has the directory to itself.
LEMMA AloneHolds == RestoreInv /\ AloneInv => RestoredOnDisk /\ FailureLeavesNothing
<1> SUFFICES ASSUME RestoreInv, AloneInv PROVE RestoredOnDisk /\ FailureLeavesNothing
  OBVIOUS
<1>1. RestoredOnDisk
  <2> SUFFICES ASSUME NEW o \in Openers, call[o].pc = "done", call[o].root # 0
               PROVE  /\ Holds(o)
                      /\ \A i \in DOMAIN call[o].files :
                           [path |-> call[o].files[i].path, file |-> call[o].files[i]]
                             \in target.nodes
    BY DEF RestoredOnDisk
  <2>1. /\ target.gen = call[o].root
        /\ \A i \in 1..Len(call[o].files) :
             [path |-> call[o].files[i].path, file |-> call[o].files[i]] \in target.nodes
    BY DEF AloneInv, AloneOK, HandleHolds
  <2>2. call[o].files \in Seq(FileRead)
    BY DEF RestoreInv, CallOK, WithinLimits
  <2>3. DOMAIN call[o].files = 1..Len(call[o].files)
    BY <2>2
  <2> QED
    BY <2>1, <2>3 DEF Holds
<1>2. FailureLeavesNothing
  BY DEF FailureLeavesNothing, AloneInv, AloneOK, AsFound
<1> QED
  BY <1>1, <1>2

\* For a restore that has the directory to itself, both invariants always hold.
LEMMA AloneAlways ==
  ASSUME \A o, q \in Openers : o = q
  PROVE  Spec => [](RestoreInv /\ AloneInv)
<1>1. Init => RestoreInv /\ AloneInv
  <2>1. Init => \A o \in Openers : call[o] = NoCall
    BY DEF Init
  <2> QED
    BY <2>1, InitRestore, NoCallAlone DEF AloneInv
<1>2. RestoreInv /\ AloneInv /\ [Next]_vars => (RestoreInv /\ AloneInv)'
  BY NextRestore, NextAlone
<1> QED
  BY <1>1, <1>2, PTL DEF Spec

\* Where one restore at a time has the directory, what it returned is all of
\* what was sealed, each file once and as it was, and on disk (capsule.go:55-58).
THEOREM RestoresWhole ==
  ASSUME \A o, q \in Openers : o = q
  PROVE  Spec => []RestoredWhole
<1>1. RestoreInv /\ AloneInv => RestoredWhole
  BY RestoresHold, AloneHolds DEF RestoredWhole
<1> QED
  BY <1>1, AloneAlways, PTL

\* And a restore that failed leaves the directory as it found it, whichever step
\* failed and whatever crashed before, but for what it wrote and could not remove
\* (extract.go:77-86, 220-238).
THEOREM FailsClean ==
  ASSUME \A o, q \in Openers : o = q
  PROVE  Spec => []FailureLeavesNothing
<1>1. RestoreInv /\ AloneInv => FailureLeavesNothing
  BY AloneHolds
<1> QED
  BY <1>1, AloneAlways, PTL

-----------------------------------------------------------------------------
(* The field, from the laws of its three operations (shamir.go:286-311).   *)

\* Nothing leads out of the field, and its operations are commutative.
LEMMA Closed ==
  ASSUME NEW a \in Field, NEW b \in Field
  PROVE  /\ xor(a, b) \in Field /\ mul(a, b) \in Field /\ {0, 1} \subseteq Field
         /\ xor(a, b) = xor(b, a) /\ mul(a, b) = mul(b, a)
         /\ xor(a, 0) = a /\ xor(0, a) = a /\ mul(a, 1) = a /\ mul(1, a) = a
BY FieldLaws

\* What was added can be added again to take it away.
LEMMA XorCancels ==
  ASSUME NEW a \in Field, NEW b \in Field, NEW c \in Field, xor(a, b) = xor(a, c)
  PROVE  b = c
BY FieldLaws

\* Two elements whose sum is 0 are the same.
LEMMA XorTells ==
  ASSUME NEW a \in Field, NEW b \in Field
  PROVE  xor(a, b) = 0 <=> a = b
<1>1. a = b => xor(a, b) = 0
  BY FieldLaws
<1>2. xor(a, b) = 0 => a = b
  BY FieldLaws
<1> QED
  BY <1>1, <1>2

\* Sums of four can be taken in any order.
LEMMA XorSwaps ==
  ASSUME NEW a \in Field, NEW b \in Field, NEW c \in Field, NEW d \in Field
  PROVE  xor(xor(a, b), xor(c, d)) = xor(xor(a, c), xor(b, d))
BY FieldLaws

\* A product of three can be taken in any order, and one of a sum splits.
LEMMA MulMoves ==
  ASSUME NEW a \in Field, NEW b \in Field, NEW c \in Field
  PROVE  /\ mul(mul(a, b), c) = mul(a, mul(b, c))
         /\ mul(a, mul(b, c)) = mul(b, mul(a, c))
         /\ mul(a, xor(b, c)) = xor(mul(a, b), mul(a, c))
         /\ mul(xor(b, c), a) = xor(mul(b, a), mul(c, a))
         /\ mul(b, a) = mul(a, b)
<1>1. mul(a, mul(b, c)) = mul(mul(a, b), c) /\ mul(b, mul(a, c)) = mul(mul(b, a), c)
  BY FieldLaws
<1>2. mul(a, xor(b, c)) = xor(mul(a, b), mul(a, c)) /\ mul(a, b) = mul(b, a)
      /\ mul(a, c) = mul(c, a)
  BY FieldLaws
<1>3. mul(xor(b, c), a) = mul(a, xor(b, c))
  BY FieldLaws
<1> QED
  BY <1>1, <1>2, <1>3

\* 0 multiplied is 0.
LEMMA MulZero ==
  ASSUME NEW a \in Field
  PROVE  mul(a, 0) = 0 /\ mul(0, a) = 0
BY FieldLaws

\* A factor that is not 0 can be dropped on both sides.
LEMMA MulCancels ==
  ASSUME NEW a \in Field \ {0}, NEW b \in Field, NEW c \in Field, mul(a, b) = mul(a, c)
  PROVE  b = c
<1> DEFINE d == inverse(a)
<1>1. d \in Field /\ mul(a, d) = 1
  BY FieldLaws
<1> HIDE DEF d
<1>2. mul(d, a) = 1
  BY <1>1, MulMoves
<1>3. mul(mul(d, a), b) = mul(d, mul(a, b)) /\ mul(mul(d, a), c) = mul(d, mul(a, c))
  BY <1>1, MulMoves
<1>4. mul(1, b) = b /\ mul(1, c) = c
  BY Closed
<1> QED
  BY <1>2, <1>3, <1>4

\* A product is 0 only if a factor is.
LEMMA MulNonZero ==
  ASSUME NEW a \in Field \ {0}, NEW b \in Field \ {0}
  PROVE  mul(a, b) \in Field \ {0}
<1>1. mul(a, 0) = 0 /\ mul(a, b) \in Field
  BY FieldLaws, MulZero
<1>2. mul(a, b) # 0
  <2> SUFFICES ASSUME mul(a, b) = 0 PROVE FALSE
    OBVIOUS
  <2>1. b = 0
    BY <1>1, MulCancels, FieldLaws
  <2> QED
    BY <2>1
<1> QED
  BY <1>1, <1>2

\* The inverse of an element is not 0, and nothing else inverts it.
LEMMA InverseTells ==
  ASSUME NEW a \in Field \ {0}
  PROVE  /\ inverse(a) \in Field \ {0} /\ mul(inverse(a), a) = 1
         /\ \A b \in Field : mul(a, b) = 1 => b = inverse(a)
<1>1. mul(a, inverse(a)) = 1 /\ inverse(a) \in Field /\ 0 \in Field
  BY FieldLaws
<1>2. inverse(a) # 0
  BY <1>1, MulZero
<1>3. \A b \in Field : mul(a, b) = 1 => b = inverse(a)
  BY <1>1, MulCancels
<1> QED
  BY <1>1, <1>2, <1>3, FieldLaws

\* The inverse of a product is the product of the inverses.
LEMMA InverseSplits ==
  ASSUME NEW a \in Field \ {0}, NEW b \in Field \ {0}
  PROVE  inverse(mul(a, b)) = mul(inverse(a), inverse(b))
<1> DEFINE u == inverse(a)
           v == inverse(b)
<1>1. u \in Field /\ v \in Field /\ mul(a, u) = 1 /\ mul(b, v) = 1
  BY FieldLaws
<1> HIDE DEF u, v
<1>2. mul(mul(a, b), mul(u, v)) = 1
  <2>1. mul(mul(a, b), mul(u, v)) = mul(a, mul(b, mul(v, u)))
    BY <1>1, FieldLaws
  <2>2. mul(b, mul(v, u)) = mul(mul(b, v), u)
    BY <1>1, FieldLaws
  <2>3. mul(1, u) = u
    BY <1>1, FieldLaws
  <2> QED
    BY <1>1, <2>1, <2>2, <2>3
<1>3. mul(a, b) \in Field \ {0} /\ mul(u, v) \in Field
  BY <1>1, MulNonZero, FieldLaws
<1>4. mul(u, v) = inverse(mul(a, b))
  BY <1>2, <1>3, InverseTells
<1> QED
  BY <1>4 DEF u, v

\* 1 is its own inverse.
LEMMA InverseOfOne == inverse(1) = 1
BY FieldLaws

-----------------------------------------------------------------------------
(* Loops.                                                                  *)

\* The turns of a loop: from z, G makes each of the n values after the one before.
Recursion(s, n, V, z, G) ==
  s \in [0..n -> V] /\ s[0] = z /\ \A i \in 1..n : s[i] = G[<<i, s[i - 1]>>]

\* A recursion whose steps stay in V goes through n of them.
LEMMA Recurs ==
  ASSUME NEW V, NEW z \in V, NEW n \in Nat, NEW G \in [(1..n) \X V -> V]
  PROVE  \E s : Recursion(s, n, V, z, G)
<1> DEFINE T == {m \in Nat : m <= n =>
                   \E s \in [0..m -> V] : s[0] = z /\ \A i \in 1..m : s[i] = G[<<i, s[i - 1]>>]}
<1>1. 0 \in T
  <2> DEFINE s == [i \in 0..0 |-> z]
  <2>1. s \in [0..0 -> V] /\ s[0] = z /\ \A i \in 1..0 : s[i] = G[<<i, s[i - 1]>>]
    OBVIOUS
  <2> HIDE DEF s
  <2> QED
    BY <2>1
<1>2. ASSUME NEW m \in Nat, m \in T PROVE m + 1 \in T
  <2> SUFFICES ASSUME m + 1 <= n
               PROVE  \E s \in [0..(m + 1) -> V] :
                        s[0] = z /\ \A i \in 1..(m + 1) : s[i] = G[<<i, s[i - 1]>>]
    OBVIOUS
  <2>1. PICK s \in [0..m -> V] : s[0] = z /\ \A i \in 1..m : s[i] = G[<<i, s[i - 1]>>]
    BY <1>2
  <2> DEFINE last == G[<<m + 1, s[m]>>]
             r == [i \in 0..(m + 1) |-> IF i = m + 1 THEN last ELSE s[i]]
  <2>2. last \in V
    BY <2>1
  <2> HIDE DEF last
  <2>3. r \in [0..(m + 1) -> V] /\ r[0] = z
    BY <2>1, <2>2
  <2>4. ASSUME NEW i \in 1..(m + 1) PROVE r[i] = G[<<i, r[i - 1]>>]
    <3>1. CASE i = m + 1
      <4>1. r[i] = last /\ r[i - 1] = s[m]
        BY <3>1
      <4> QED
        BY <3>1, <4>1 DEF last
    <3>2. CASE i # m + 1
      <4>1. i \in 1..m /\ r[i] = s[i] /\ r[i - 1] = s[i - 1]
        BY <3>2
      <4> QED
        BY <2>1, <4>1
    <3> QED
      BY <3>1, <3>2
  <2> QED
    BY <2>3, <2>4
<1>3. n \in T
  <2> HIDE DEF T
  <2> QED
    BY <1>1, <1>2, InductiveSet
<1> QED
  BY <1>3 DEF Recursion

-----------------------------------------------------------------------------
(* Sum, Product and Evaluate go through their lists as they say.           *)

\* The recursive functions inside the three operators.
Sums(s, n, f) == s = [i \in 0..n |-> IF i = 0 THEN 0 ELSE xor(s[i - 1], f[i])]
Products(s, n, f) == s = [i \in 0..n |-> IF i = 0 THEN 1 ELSE mul(s[i - 1], f[i])]
Horners(s, n, c, x) ==
  s = [i \in 0..n |-> IF i = 0 THEN 0 ELSE xor(mul(s[i - 1], x), c[n + 1 - i])]

\* What the loops leave behind at each turn.
Adding(s, n, f) ==
  s \in [0..n -> Field] /\ s[0] = 0 /\ \A i \in 1..n : s[i] = xor(s[i - 1], f[i])
Multiplying(s, n, f) ==
  s \in [0..n -> Field] /\ s[0] = 1 /\ \A i \in 1..n : s[i] = mul(s[i - 1], f[i])
Evaluating(y, n, c, x) ==
  /\ y \in [0..n -> Field] /\ y[0] = 0
  /\ \A i \in 1..n : y[i] = xor(mul(y[i - 1], x), c[n + 1 - i])

\* The partial sums of a list (shamir.go:268-273).
LEMMA SumSteps ==
  ASSUME NEW n \in Nat, NEW f \in [1..n -> Field]
  PROVE  \E s : Adding(s, n, f) /\ Sum(f) = s[n]
<1>1. Len(f) = n
  OBVIOUS
<1>2. \E s : Sums(s, n, f)
  <2> DEFINE G == [p \in (1..n) \X Field |-> xor(p[2], f[p[1]])]
  <2>1. G \in [(1..n) \X Field -> Field] /\ 0 \in Field
    BY FieldLaws
  <2>2. \A i \in 1..n, v \in Field : G[<<i, v>>] = xor(v, f[i])
    OBVIOUS
  <2> HIDE DEF G
  <2>3. PICK s : Recursion(s, n, Field, 0, G)
    BY <2>1, Recurs
  <2>4. \A i \in 0..n : s[i] = IF i = 0 THEN 0 ELSE xor(s[i - 1], f[i])
    <3> TAKE i \in 0..n
    <3>1. CASE i = 0
      BY <2>3, <3>1 DEF Recursion
    <3>2. CASE i # 0
      <4>1. i \in 1..n /\ i - 1 \in 0..n
        BY <3>2
      <4>2. s[i - 1] \in Field /\ s[i] = G[<<i, s[i - 1]>>]
        BY <2>3, <4>1 DEF Recursion
      <4>3. s[i] = xor(s[i - 1], f[i])
        BY <2>2, <4>1, <4>2, Zenon
      <4> QED
        BY <3>2, <4>3
    <3> QED
      BY <3>1, <3>2
  <2>5. s = [i \in 0..n |-> s[i]]
    BY <2>3 DEF Recursion
  <2> QED
    BY <2>4, <2>5 DEF Sums
<1> DEFINE acc[i \in 0..Len(f)] == IF i = 0 THEN 0 ELSE xor(acc[i - 1], f[i])
<1>3. acc = CHOOSE s : Sums(s, Len(f), f)
  BY DEF Sums
<1>4. Sum(f) = acc[Len(f)]
  BY DEF Sum
<1> HIDE DEF acc
<1>5. Sums(acc, n, f)
  BY <1>1, <1>2, <1>3
<1>6. acc[0] = 0 /\ \A i \in 1..n : acc[i] = xor(acc[i - 1], f[i])
  <2>1. acc = [i \in 0..n |-> IF i = 0 THEN 0 ELSE xor(acc[i - 1], f[i])]
    BY <1>5 DEF Sums
  <2> QED
    BY <2>1
<1>7. acc \in [0..n -> Field]
  <2> DEFINE T == {m \in Nat : m <= n => acc[m] \in Field}
  <2>1. 0 \in T
    BY <1>6, FieldLaws
  <2>2. ASSUME NEW m \in Nat, m \in T PROVE m + 1 \in T
    <3> SUFFICES ASSUME m + 1 <= n PROVE acc[m + 1] \in Field
      OBVIOUS
    <3>1. m + 1 \in 1..n /\ (m + 1) - 1 = m /\ acc[m] \in Field /\ f[m + 1] \in Field
      BY <2>2
    <3>2. acc[m + 1] = xor(acc[m], f[m + 1])
      BY <1>6, <3>1
    <3> QED
      BY <3>1, <3>2, Closed
  <2>3. \A m \in 0..n : acc[m] \in Field
    <3> HIDE DEF T
    <3>1. \A m \in Nat : m \in T
      BY <2>1, <2>2, InductiveSet
    <3> QED
      BY <3>1 DEF T
  <2>4. acc = [i \in 0..n |-> IF i = 0 THEN 0 ELSE xor(acc[i - 1], f[i])]
    BY <1>5 DEF Sums
  <2> QED
    BY <2>3, <2>4
<1> QED
  BY <1>1, <1>4, <1>6, <1>7 DEF Adding

\* The partial products of a list (shamir.go:254-262).
LEMMA ProductSteps ==
  ASSUME NEW n \in Nat, NEW f \in [1..n -> Field]
  PROVE  \E s : Multiplying(s, n, f) /\ Product(f) = s[n]
<1>1. Len(f) = n
  OBVIOUS
<1>2. \E s : Products(s, n, f)
  <2> DEFINE G == [p \in (1..n) \X Field |-> mul(p[2], f[p[1]])]
  <2>1. G \in [(1..n) \X Field -> Field] /\ 1 \in Field
    BY FieldLaws
  <2>2. \A i \in 1..n, v \in Field : G[<<i, v>>] = mul(v, f[i])
    OBVIOUS
  <2> HIDE DEF G
  <2>3. PICK s : Recursion(s, n, Field, 1, G)
    BY <2>1, Recurs
  <2>4. \A i \in 0..n : s[i] = IF i = 0 THEN 1 ELSE mul(s[i - 1], f[i])
    <3> TAKE i \in 0..n
    <3>1. CASE i = 0
      BY <2>3, <3>1 DEF Recursion
    <3>2. CASE i # 0
      <4>1. i \in 1..n /\ i - 1 \in 0..n
        BY <3>2
      <4>2. s[i - 1] \in Field /\ s[i] = G[<<i, s[i - 1]>>]
        BY <2>3, <4>1 DEF Recursion
      <4>3. s[i] = mul(s[i - 1], f[i])
        BY <2>2, <4>1, <4>2, Zenon
      <4> QED
        BY <3>2, <4>3
    <3> QED
      BY <3>1, <3>2
  <2>5. s = [i \in 0..n |-> s[i]]
    BY <2>3 DEF Recursion
  <2> QED
    BY <2>4, <2>5 DEF Products
<1> DEFINE acc[i \in 0..Len(f)] == IF i = 0 THEN 1 ELSE mul(acc[i - 1], f[i])
<1>3. acc = CHOOSE s : Products(s, Len(f), f)
  BY DEF Products
<1>4. Product(f) = acc[Len(f)]
  BY DEF Product
<1> HIDE DEF acc
<1>5. Products(acc, n, f)
  BY <1>1, <1>2, <1>3
<1>6. acc[0] = 1 /\ \A i \in 1..n : acc[i] = mul(acc[i - 1], f[i])
  <2>1. acc = [i \in 0..n |-> IF i = 0 THEN 1 ELSE mul(acc[i - 1], f[i])]
    BY <1>5 DEF Products
  <2> QED
    BY <2>1
<1>7. acc \in [0..n -> Field]
  <2> DEFINE T == {m \in Nat : m <= n => acc[m] \in Field}
  <2>1. 0 \in T
    BY <1>6, FieldLaws
  <2>2. ASSUME NEW m \in Nat, m \in T PROVE m + 1 \in T
    <3> SUFFICES ASSUME m + 1 <= n PROVE acc[m + 1] \in Field
      OBVIOUS
    <3>1. m + 1 \in 1..n /\ (m + 1) - 1 = m /\ acc[m] \in Field /\ f[m + 1] \in Field
      BY <2>2
    <3>2. acc[m + 1] = mul(acc[m], f[m + 1])
      BY <1>6, <3>1
    <3> QED
      BY <3>1, <3>2, Closed
  <2>3. \A m \in 0..n : acc[m] \in Field
    <3> HIDE DEF T
    <3>1. \A m \in Nat : m \in T
      BY <2>1, <2>2, InductiveSet
    <3> QED
      BY <3>1 DEF T
  <2>4. acc = [i \in 0..n |-> IF i = 0 THEN 1 ELSE mul(acc[i - 1], f[i])]
    BY <1>5 DEF Products
  <2> QED
    BY <2>3, <2>4
<1> QED
  BY <1>1, <1>4, <1>6, <1>7 DEF Multiplying

\* The values y goes through in evaluate (shamir.go:279-282).
LEMMA HornerSteps ==
  ASSUME NEW n \in Nat, NEW c \in [1..n -> Field], NEW x \in Field
  PROVE  \E y : Evaluating(y, n, c, x) /\ Evaluate(c, x) = y[n]
<1>1. Len(c) = n
  OBVIOUS
<1>2. \E s : Horners(s, n, c, x)
  <2> DEFINE G == [p \in (1..n) \X Field |-> xor(mul(p[2], x), c[n + 1 - p[1]])]
  <2>1. \A i \in 1..n, v \in Field :
          G[<<i, v>>] = xor(mul(v, x), c[n + 1 - i]) /\ xor(mul(v, x), c[n + 1 - i]) \in Field
    <3>1. \A i \in 1..n : c[n + 1 - i] \in Field
      OBVIOUS
    <3> QED
      BY <3>1, FieldLaws
  <2>2. G \in [(1..n) \X Field -> Field] /\ 0 \in Field
    BY <2>1, FieldLaws
  <2> HIDE DEF G
  <2>3. PICK s : Recursion(s, n, Field, 0, G)
    BY <2>2, Recurs
  <2>4. \A i \in 0..n : s[i] = IF i = 0 THEN 0 ELSE xor(mul(s[i - 1], x), c[n + 1 - i])
    <3> TAKE i \in 0..n
    <3>1. CASE i = 0
      BY <2>3, <3>1 DEF Recursion
    <3>2. CASE i # 0
      <4>1. i \in 1..n /\ i - 1 \in 0..n
        BY <3>2
      <4>2. s[i - 1] \in Field /\ s[i] = G[<<i, s[i - 1]>>]
        BY <2>3, <4>1 DEF Recursion
      <4>3. s[i] = xor(mul(s[i - 1], x), c[n + 1 - i])
        BY <2>1, <4>1, <4>2, Zenon
      <4> QED
        BY <3>2, <4>3
    <3> QED
      BY <3>1, <3>2
  <2>5. s = [i \in 0..n |-> s[i]]
    BY <2>3 DEF Recursion
  <2> QED
    BY <2>4, <2>5 DEF Horners
<1> DEFINE y[i \in 0..Len(c)] == IF i = 0 THEN 0 ELSE xor(mul(y[i - 1], x), c[Len(c) + 1 - i])
<1>3. y = CHOOSE s : Horners(s, Len(c), c, x)
  BY DEF Horners
<1>4. Evaluate(c, x) = y[Len(c)]
  BY DEF Evaluate
<1> HIDE DEF y
<1>5. Horners(y, n, c, x)
  BY <1>1, <1>2, <1>3
<1>6. y[0] = 0 /\ \A i \in 1..n : y[i] = xor(mul(y[i - 1], x), c[n + 1 - i])
  <2>1. y = [i \in 0..n |-> IF i = 0 THEN 0 ELSE xor(mul(y[i - 1], x), c[n + 1 - i])]
    BY <1>5 DEF Horners
  <2> QED
    BY <2>1
<1>7. y \in [0..n -> Field]
  <2> DEFINE T == {m \in Nat : m <= n => y[m] \in Field}
  <2>1. 0 \in T
    BY <1>6, FieldLaws
  <2>2. ASSUME NEW m \in Nat, m \in T PROVE m + 1 \in T
    <3> SUFFICES ASSUME m + 1 <= n PROVE y[m + 1] \in Field
      OBVIOUS
    <3>1. m + 1 \in 1..n /\ (m + 1) - 1 = m /\ y[m] \in Field /\ c[n + 1 - (m + 1)] \in Field
      BY <2>2
    <3>2. y[m + 1] = xor(mul(y[m], x), c[n + 1 - (m + 1)])
      BY <1>6, <3>1
    <3> QED
      BY <3>1, <3>2, Closed
  <2>3. \A m \in 0..n : y[m] \in Field
    <3> HIDE DEF T
    <3>1. \A m \in Nat : m \in T
      BY <2>1, <2>2, InductiveSet
    <3> QED
      BY <3>1 DEF T
  <2>4. y = [i \in 0..n |-> IF i = 0 THEN 0 ELSE xor(mul(y[i - 1], x), c[n + 1 - i])]
    BY <1>5 DEF Horners
  <2> QED
    BY <2>3, <2>4
<1> QED
  BY <1>1, <1>4, <1>6, <1>7 DEF Evaluating

-----------------------------------------------------------------------------
(* Sums and products.                                                      *)

\* A turn of the adding loop.
LEMMA AddingTurn ==
  ASSUME NEW n \in Nat, NEW f \in [1..n -> Field], NEW s, Adding(s, n, f),
         NEW m \in Nat, m + 1 <= n
  PROVE  s[m + 1] = xor(s[m], f[m + 1]) /\ s[m] \in Field /\ f[m + 1] \in Field
<1>1. m + 1 \in 1..n /\ (m + 1) - 1 = m /\ m \in 0..n
  OBVIOUS
<1> QED
  BY <1>1 DEF Adding

\* A turn of the multiplying loop.
LEMMA MultiplyingTurn ==
  ASSUME NEW n \in Nat, NEW f \in [1..n -> Field], NEW s, Multiplying(s, n, f),
         NEW m \in Nat, m + 1 <= n
  PROVE  s[m + 1] = mul(s[m], f[m + 1]) /\ s[m] \in Field /\ f[m + 1] \in Field
<1>1. m + 1 \in 1..n /\ (m + 1) - 1 = m /\ m \in 0..n
  OBVIOUS
<1> QED
  BY <1>1 DEF Multiplying

\* A sum of field elements is one.
LEMMA SumIn ==
  ASSUME NEW n \in Nat, NEW f \in [1..n -> Field]
  PROVE  Sum(f) \in Field
<1>1. PICK s : Adding(s, n, f) /\ Sum(f) = s[n]
  BY SumSteps
<1> QED
  BY <1>1 DEF Adding

\* The algebra of one turn of three sums.
LEMMA TurnsAdd ==
  ASSUME NEW a \in Field, NEW p \in Field, NEW q \in Field, NEW u \in Field, NEW v \in Field
  PROVE  xor(xor(p, mul(a, q)), xor(u, mul(a, v))) = xor(xor(p, u), mul(a, xor(q, v)))
<1>1. mul(a, q) \in Field /\ mul(a, v) \in Field
  BY Closed
<1>2. mul(a, xor(q, v)) = xor(mul(a, q), mul(a, v))
  BY FieldLaws
<1> QED
  BY <1>1, <1>2, XorSwaps

\* Sums are linear.
LEMMA SumLinear ==
  ASSUME NEW n \in Nat, NEW f \in [1..n -> Field], NEW g \in [1..n -> Field], NEW a \in Field
  PROVE  Sum([i \in 1..n |-> xor(f[i], mul(a, g[i]))]) = xor(Sum(f), mul(a, Sum(g)))
<1> DEFINE h == [i \in 1..n |-> xor(f[i], mul(a, g[i]))]
<1>1. h \in [1..n -> Field]
  <2>1. \A i \in 1..n : f[i] \in Field /\ g[i] \in Field
    OBVIOUS
  <2>2. \A i \in 1..n : mul(a, g[i]) \in Field
    BY <2>1, Closed
  <2>3. \A i \in 1..n : xor(f[i], mul(a, g[i])) \in Field
    BY <2>1, <2>2, Closed
  <2> QED
    BY <2>3
<1>2. \A i \in 1..n : h[i] = xor(f[i], mul(a, g[i]))
  OBVIOUS
<1> HIDE DEF h
<1>3. PICK s : Adding(s, n, f) /\ Sum(f) = s[n]
  BY SumSteps
<1>4. PICK r : Adding(r, n, g) /\ Sum(g) = r[n]
  BY SumSteps
<1>5. PICK t : Adding(t, n, h) /\ Sum(h) = t[n]
  BY <1>1, SumSteps
<1> DEFINE T == {m \in Nat : m <= n => t[m] = xor(s[m], mul(a, r[m]))}
<1>6. 0 \in T
  <2>1. t[0] = 0 /\ s[0] = 0 /\ r[0] = 0 /\ 0 \in Field
    BY <1>3, <1>4, <1>5, Closed DEF Adding
  <2>2. xor(0, mul(a, 0)) = 0
    BY <2>1, Closed, MulZero
  <2> QED
    BY <2>1, <2>2
<1>7. ASSUME NEW m \in Nat, m \in T PROVE m + 1 \in T
  <2> SUFFICES ASSUME m + 1 <= n PROVE t[m + 1] = xor(s[m + 1], mul(a, r[m + 1]))
    OBVIOUS
  <2>1. s[m + 1] = xor(s[m], f[m + 1]) /\ s[m] \in Field /\ f[m + 1] \in Field
    BY <1>3, AddingTurn
  <2>2. r[m + 1] = xor(r[m], g[m + 1]) /\ r[m] \in Field /\ g[m + 1] \in Field
    BY <1>4, AddingTurn
  <2>3. t[m + 1] = xor(t[m], h[m + 1])
    BY <1>1, <1>5, AddingTurn
  <2>4. t[m] = xor(s[m], mul(a, r[m])) /\ h[m + 1] = xor(f[m + 1], mul(a, g[m + 1]))
    BY <1>2, <1>7
  <2>5. xor(xor(s[m], mul(a, r[m])), xor(f[m + 1], mul(a, g[m + 1])))
          = xor(xor(s[m], f[m + 1]), mul(a, xor(r[m], g[m + 1])))
    <3> DEFINE p == s[m]
               q == r[m]
               u == f[m + 1]
               v == g[m + 1]
    <3>1. p \in Field /\ q \in Field /\ u \in Field /\ v \in Field
      BY <2>1, <2>2
    <3> HIDE DEF p, q, u, v
    <3>2. xor(xor(p, mul(a, q)), xor(u, mul(a, v))) = xor(xor(p, u), mul(a, xor(q, v)))
      BY <3>1, TurnsAdd
    <3> QED
      BY <3>2 DEF p, q, u, v
  <2> QED
    BY <2>1, <2>2, <2>3, <2>4, <2>5
<1>8. n \in T
  <2> HIDE DEF T
  <2> QED
    BY <1>6, <1>7, InductiveSet
<1> QED
  BY <1>3, <1>4, <1>5, <1>8 DEF h

\* A sum of zeros is 0.
LEMMA SumZero ==
  ASSUME NEW n \in Nat
  PROVE  Sum([i \in 1..n |-> 0]) = 0
<1> DEFINE z == [i \in 1..n |-> 0]
<1>1. z \in [1..n -> Field] /\ 1 \in Field
  BY FieldLaws
<1>2. [i \in 1..n |-> xor(z[i], mul(1, z[i]))] = z
  <2>1. xor(0, mul(1, 0)) = 0
    BY FieldLaws
  <2> QED
    BY <2>1
<1> HIDE DEF z
<1>3. Sum(z) = xor(Sum(z), mul(1, Sum(z)))
  BY <1>1, <1>2, SumLinear
<1>4. Sum(z) \in Field
  BY <1>1, SumIn
<1>5. Sum(z) = 0
  BY <1>3, <1>4, Closed, XorTells
<1> QED
  BY <1>5 DEF z

\* A multiple of a sum is the sum of the multiples.
LEMMA SumScales ==
  ASSUME NEW n \in Nat, NEW f \in [1..n -> Field], NEW a \in Field
  PROVE  Sum([i \in 1..n |-> mul(a, f[i])]) = mul(a, Sum(f))
<1> DEFINE z == [i \in 1..n |-> 0]
<1>1. z \in [1..n -> Field]
  BY FieldLaws
<1>2. [i \in 1..n |-> xor(z[i], mul(a, f[i]))] = [i \in 1..n |-> mul(a, f[i])]
  <2>1. \A i \in 1..n : f[i] \in Field
    OBVIOUS
  <2>2. \A i \in 1..n : mul(a, f[i]) \in Field
    BY <2>1, Closed
  <2>3. \A i \in 1..n : xor(0, mul(a, f[i])) = mul(a, f[i])
    BY <2>2, Closed
  <2> QED
    BY <2>3
<1>3. Sum(z) = 0
  BY SumZero
<1> HIDE DEF z
<1>4. Sum([i \in 1..n |-> xor(z[i], mul(a, f[i]))]) = xor(Sum(z), mul(a, Sum(f)))
  BY <1>1, SumLinear
<1>5. mul(a, Sum(f)) \in Field
  BY SumIn, Closed
<1> QED
  BY <1>2, <1>3, <1>4, <1>5, Closed

\* A sum of two lists, element by element, is the sum of their sums.
LEMMA SumAdds ==
  ASSUME NEW n \in Nat, NEW f \in [1..n -> Field], NEW g \in [1..n -> Field]
  PROVE  Sum([i \in 1..n |-> xor(f[i], g[i])]) = xor(Sum(f), Sum(g))
<1>1. [i \in 1..n |-> xor(f[i], mul(1, g[i]))] = [i \in 1..n |-> xor(f[i], g[i])]
  <2>1. \A i \in 1..n : g[i] \in Field
    OBVIOUS
  <2>2. \A i \in 1..n : mul(1, g[i]) = g[i]
    BY <2>1, Closed
  <2> QED
    BY <2>2
<1>2. 1 \in Field /\ Sum(g) \in Field
  BY SumIn, FieldLaws
<1>3. mul(1, Sum(g)) = Sum(g)
  BY <1>2, Closed
<1> QED
  BY <1>1, <1>2, <1>3, SumLinear, SMTT(30)

\* A sum with one element other than 0 is that element.
LEMMA SumOne ==
  ASSUME NEW n \in Nat, NEW f \in [1..n -> Field], NEW k \in 1..n,
         \A i \in 1..n : i # k => f[i] = 0
  PROVE  Sum(f) = f[k]
<1>1. PICK s : Adding(s, n, f) /\ Sum(f) = s[n]
  BY SumSteps
<1> DEFINE T == {m \in Nat : m <= n => s[m] = IF m < k THEN 0 ELSE f[k]}
<1>2. 0 \in T
  BY <1>1 DEF Adding
<1>3. ASSUME NEW m \in Nat, m \in T PROVE m + 1 \in T
  <2> SUFFICES ASSUME m + 1 <= n PROVE s[m + 1] = IF m + 1 < k THEN 0 ELSE f[k]
    OBVIOUS
  <2>1. s[m + 1] = xor(s[m], f[m + 1]) /\ s[m] \in Field /\ f[m + 1] \in Field
    BY <1>1, AddingTurn
  <2>2. s[m] = IF m < k THEN 0 ELSE f[k]
    BY <1>3
  <2>3. CASE m + 1 = k
    <3>1. s[m] = 0 /\ f[m + 1] = f[k]
      BY <2>2, <2>3
    <3>2. s[m + 1] = f[k]
      BY <2>1, <3>1, Closed
    <3> QED
      BY <2>3, <3>2
  <2>4. CASE m + 1 # k
    <3>1. f[m + 1] = 0
      BY <2>4
    <3>2. s[m + 1] = s[m]
      BY <2>1, <3>1, Closed
    <3> QED
      BY <2>2, <2>4, <3>2
  <2> QED
    BY <2>3, <2>4
<1>4. n \in T
  <2> HIDE DEF T
  <2> QED
    BY <1>2, <1>3, InductiveSet
<1> QED
  BY <1>1, <1>4

\* A product of elements other than 0 is one.
LEMMA ProductNonZero ==
  ASSUME NEW n \in Nat, NEW f \in [1..n -> Field \ {0}]
  PROVE  Product(f) \in Field \ {0}
<1>1. f \in [1..n -> Field]
  OBVIOUS
<1>2. PICK s : Multiplying(s, n, f) /\ Product(f) = s[n]
  BY <1>1, ProductSteps
<1> DEFINE T == {m \in Nat : m <= n => s[m] \in Field \ {0}}
<1>3. 0 \in T
  BY <1>2, FieldLaws DEF Multiplying
<1>4. ASSUME NEW m \in Nat, m \in T PROVE m + 1 \in T
  <2> SUFFICES ASSUME m + 1 <= n PROVE s[m + 1] \in Field \ {0}
    OBVIOUS
  <2>1. s[m + 1] = mul(s[m], f[m + 1])
    BY <1>1, <1>2, MultiplyingTurn
  <2>2. s[m] \in Field \ {0} /\ f[m + 1] \in Field \ {0}
    BY <1>4
  <2> QED
    BY <2>1, <2>2, MulNonZero
<1>5. n \in T
  <2> HIDE DEF T
  <2> QED
    BY <1>3, <1>4, InductiveSet
<1> QED
  BY <1>2, <1>5

\* Any factor can be taken out of a product.
LEMMA ProductOut ==
  ASSUME NEW n \in Nat, NEW f \in [1..n -> Field], NEW k \in 1..n
  PROVE  Product(f) = mul(f[k], Product([f EXCEPT ![k] = 1]))
<1> DEFINE g == [f EXCEPT ![k] = 1]
<1>1. g \in [1..n -> Field] /\ g[k] = 1 /\ \A i \in 1..n : i # k => g[i] = f[i]
  BY FieldLaws
<1> HIDE DEF g
<1>2. PICK s : Multiplying(s, n, f) /\ Product(f) = s[n]
  BY ProductSteps
<1>3. PICK r : Multiplying(r, n, g) /\ Product(g) = r[n]
  BY <1>1, ProductSteps
<1> DEFINE T == {m \in Nat : m <= n => s[m] = IF m < k THEN r[m] ELSE mul(f[k], r[m])}
<1>4. 0 \in T
  BY <1>2, <1>3 DEF Multiplying
<1>5. ASSUME NEW m \in Nat, m \in T PROVE m + 1 \in T
  <2> SUFFICES ASSUME m + 1 <= n
               PROVE  s[m + 1] = IF m + 1 < k THEN r[m + 1] ELSE mul(f[k], r[m + 1])
    OBVIOUS
  <2>1. s[m + 1] = mul(s[m], f[m + 1]) /\ s[m] \in Field /\ f[m + 1] \in Field
    BY <1>2, MultiplyingTurn
  <2>2. r[m + 1] = mul(r[m], g[m + 1]) /\ r[m] \in Field /\ g[m + 1] \in Field /\ f[k] \in Field
    BY <1>1, <1>3, MultiplyingTurn
  <2>3. s[m] = IF m < k THEN r[m] ELSE mul(f[k], r[m])
    BY <1>5
  <2>4. CASE m + 1 < k
    <3>1. g[m + 1] = f[m + 1] /\ s[m] = r[m]
      BY <1>1, <2>3, <2>4
    <3> QED
      BY <2>1, <2>2, <2>4, <3>1
  <2>5. CASE m + 1 = k
    <3>1. s[m] = r[m] /\ f[m + 1] = f[k] /\ g[m + 1] = 1
      BY <1>1, <2>3, <2>5
    <3>2. r[m + 1] = r[m] /\ s[m + 1] = mul(f[k], r[m])
      BY <2>1, <2>2, <3>1, Closed
    <3> QED
      BY <2>5, <3>2
  <2>6. CASE m >= k
    <3>1. s[m] = mul(f[k], r[m]) /\ g[m + 1] = f[m + 1] /\ m + 1 >= k
      BY <1>1, <2>3, <2>6
    <3>2. mul(mul(f[k], r[m]), f[m + 1]) = mul(f[k], mul(r[m], f[m + 1]))
      <4> DEFINE p == f[k]
                 q == r[m]
                 u == f[m + 1]
      <4>1. p \in Field /\ q \in Field /\ u \in Field
        BY <2>1, <2>2
      <4> HIDE DEF p, q, u
      <4>2. mul(mul(p, q), u) = mul(p, mul(q, u))
        BY <4>1, MulMoves
      <4> QED
        BY <4>2 DEF p, q, u
    <3> QED
      BY <2>1, <2>2, <3>1, <3>2
  <2> QED
    BY <2>4, <2>5, <2>6
<1>6. n \in T
  <2> HIDE DEF T
  <2> QED
    BY <1>4, <1>5, InductiveSet
<1> QED
  BY <1>2, <1>3, <1>6 DEF g

\* A product of ones is 1.
LEMMA ProductOne ==
  ASSUME NEW n \in Nat
  PROVE  Product([i \in 1..n |-> 1]) = 1
<1> DEFINE f == [i \in 1..n |-> 1]
<1>1. f \in [1..n -> Field]
  BY FieldLaws
<1>2. \A i \in 1..n : f[i] = 1
  OBVIOUS
<1> HIDE DEF f
<1>3. PICK s : Multiplying(s, n, f) /\ Product(f) = s[n]
  BY <1>1, ProductSteps
<1> DEFINE T == {m \in Nat : m <= n => s[m] = 1}
<1>4. 0 \in T
  BY <1>3 DEF Multiplying
<1>5. ASSUME NEW m \in Nat, m \in T PROVE m + 1 \in T
  <2> SUFFICES ASSUME m + 1 <= n PROVE s[m + 1] = 1
    OBVIOUS
  <2>1. s[m + 1] = mul(s[m], f[m + 1]) /\ s[m] = 1 /\ f[m + 1] = 1 /\ s[m] \in Field
    BY <1>1, <1>2, <1>3, <1>5, MultiplyingTurn
  <2> QED
    BY <2>1, Closed
<1>6. n \in T
  <2> HIDE DEF T
  <2> QED
    BY <1>4, <1>5, InductiveSet
<1> QED
  BY <1>3, <1>6 DEF f

-----------------------------------------------------------------------------
(* Evaluate.                                                               *)

\* A turn of Horner's loop.
LEMMA HornerTurn ==
  ASSUME NEW n \in Nat, NEW c, NEW x, NEW y, Evaluating(y, n, c, x), NEW m \in Nat, m + 1 <= n
  PROVE  y[m + 1] = xor(mul(y[m], x), c[n - m]) /\ y[m] \in Field
<1>1. m + 1 \in 1..n /\ (m + 1) - 1 = m /\ m \in 0..n /\ n + 1 - (m + 1) = n - m
  OBVIOUS
<1> QED
  BY <1>1 DEF Evaluating

\* A polynomial has its values in the field.
LEMMA EvaluateIn ==
  ASSUME NEW n \in Nat, NEW c \in [1..n -> Field], NEW x \in Field
  PROVE  Evaluate(c, x) \in Field
<1>1. PICK y : Evaluating(y, n, c, x) /\ Evaluate(c, x) = y[n]
  BY HornerSteps
<1> QED
  BY <1>1 DEF Evaluating

\* The polynomial without its constant term, its coefficients one place down.
Lowered(c, n) == [i \in 1..n |-> c[i + 1]]

\* A value is x times that of the lowered polynomial, and the constant term.
LEMMA EvaluateLowered ==
  ASSUME NEW n \in Nat, NEW c \in [1..(n + 1) -> Field], NEW x \in Field
  PROVE  /\ Lowered(c, n) \in [1..n -> Field] /\ c[1] \in Field
         /\ Evaluate(c, x) = xor(mul(Evaluate(Lowered(c, n), x), x), c[1])
<1> DEFINE d == Lowered(c, n)
<1>1. d \in [1..n -> Field] /\ n + 1 \in Nat /\ c[1] \in Field
  BY DEF Lowered
<1>2. \A i \in 1..n : d[i] = c[i + 1]
  BY DEF Lowered
<1> HIDE DEF d
<1>3. PICK y : Evaluating(y, n + 1, c, x) /\ Evaluate(c, x) = y[n + 1]
  BY <1>1, HornerSteps
<1>4. PICK w : Evaluating(w, n, d, x) /\ Evaluate(d, x) = w[n]
  BY <1>1, HornerSteps
<1> DEFINE T == {m \in Nat : m <= n => y[m] = w[m]}
<1>5. 0 \in T
  BY <1>3, <1>4 DEF Evaluating
<1>6. ASSUME NEW m \in Nat, m \in T PROVE m + 1 \in T
  <2> SUFFICES ASSUME m + 1 <= n PROVE y[m + 1] = w[m + 1]
    OBVIOUS
  <2>1. y[m + 1] = xor(mul(y[m], x), c[n + 1 - m])
    BY <1>1, <1>3, HornerTurn
  <2>2. w[m + 1] = xor(mul(w[m], x), d[n - m])
    BY <1>4, HornerTurn
  <2>3. n - m \in 1..n /\ (n - m) + 1 = n + 1 - m
    OBVIOUS
  <2>4. d[n - m] = c[n + 1 - m]
    BY <1>2, <2>3
  <2>5. y[m] = w[m]
    BY <1>6
  <2> QED
    BY <2>1, <2>2, <2>4, <2>5
<1>7. n \in T
  <2> HIDE DEF T
  <2> QED
    BY <1>5, <1>6, InductiveSet
<1>8. y[n + 1] = xor(mul(y[n], x), c[(n + 1) - n])
  <2>1. n + 1 <= n + 1
    OBVIOUS
  <2> QED
    BY <1>1, <1>3, <2>1, HornerTurn
<1>9. (n + 1) - n = 1 /\ y[n] = w[n]
  BY <1>7
<1> QED
  BY <1>1, <1>3, <1>4, <1>8, <1>9 DEF d

\* The algebra of one turn of three evaluations.
LEMMA TurnsEvaluate ==
  ASSUME NEW a \in Field, NEW x \in Field, NEW p \in Field, NEW q \in Field,
         NEW u \in Field, NEW v \in Field
  PROVE  xor(mul(xor(p, mul(a, q)), x), xor(u, mul(a, v)))
           = xor(xor(mul(p, x), u), mul(a, xor(mul(q, x), v)))
<1> DEFINE aq == mul(a, q)
           px == mul(p, x)
           qx == mul(q, x)
<1>1. aq \in Field /\ px \in Field /\ qx \in Field
  BY Closed
<1>2. mul(aq, x) = mul(a, qx)
  BY MulMoves
<1> HIDE DEF aq
<1>3. mul(xor(p, aq), x) = xor(px, mul(aq, x))
  BY <1>1, MulMoves
<1> HIDE DEF px, qx
<1>4. xor(xor(px, mul(a, qx)), xor(u, mul(a, v))) = xor(xor(px, u), mul(a, xor(qx, v)))
  BY <1>1, TurnsAdd
<1> QED
  BY <1>2, <1>3, <1>4 DEF aq, px, qx

\* A polynomial and a multiple of another.
Combination(n, f, a, g) == [i \in 1..n |-> xor(f[i], mul(a, g[i]))]

\* A polynomial's value is linear in its coefficients.
LEMMA EvaluateLinear ==
  ASSUME NEW n \in Nat, NEW f \in [1..n -> Field], NEW g \in [1..n -> Field],
         NEW a \in Field, NEW x \in Field
  PROVE  /\ Combination(n, f, a, g) \in [1..n -> Field]
         /\ Evaluate(Combination(n, f, a, g), x) = xor(Evaluate(f, x), mul(a, Evaluate(g, x)))
<1> DEFINE h == Combination(n, f, a, g)
<1>1. h \in [1..n -> Field]
  <2>1. \A i \in 1..n : f[i] \in Field /\ g[i] \in Field
    OBVIOUS
  <2>2. \A i \in 1..n : mul(a, g[i]) \in Field
    BY <2>1, Closed
  <2>3. \A i \in 1..n : xor(f[i], mul(a, g[i])) \in Field
    BY <2>1, <2>2, Closed
  <2> QED
    BY <2>3 DEF Combination
<1>2. \A i \in 1..n : h[i] = xor(f[i], mul(a, g[i]))
  BY DEF Combination
<1> HIDE DEF h
<1>3. PICK s : Evaluating(s, n, f, x) /\ Evaluate(f, x) = s[n]
  BY HornerSteps
<1>4. PICK r : Evaluating(r, n, g, x) /\ Evaluate(g, x) = r[n]
  BY HornerSteps
<1>5. PICK t : Evaluating(t, n, h, x) /\ Evaluate(h, x) = t[n]
  BY <1>1, HornerSteps
<1> DEFINE T == {m \in Nat : m <= n => t[m] = xor(s[m], mul(a, r[m]))}
<1>6. 0 \in T
  <2>1. t[0] = 0 /\ s[0] = 0 /\ r[0] = 0 /\ 0 \in Field
    BY <1>3, <1>4, <1>5, Closed DEF Evaluating
  <2>2. xor(0, mul(a, 0)) = 0
    BY <2>1, Closed, MulZero
  <2> QED
    BY <2>1, <2>2
<1>7. ASSUME NEW m \in Nat, m \in T PROVE m + 1 \in T
  <2> SUFFICES ASSUME m + 1 <= n PROVE t[m + 1] = xor(s[m + 1], mul(a, r[m + 1]))
    OBVIOUS
  <2>1. s[m + 1] = xor(mul(s[m], x), f[n - m]) /\ s[m] \in Field
    BY <1>3, HornerTurn
  <2>2. r[m + 1] = xor(mul(r[m], x), g[n - m]) /\ r[m] \in Field
    BY <1>4, HornerTurn
  <2>3. t[m + 1] = xor(mul(t[m], x), h[n - m])
    BY <1>5, HornerTurn
  <2>4. n - m \in 1..n /\ f[n - m] \in Field /\ g[n - m] \in Field
    OBVIOUS
  <2>5. t[m] = xor(s[m], mul(a, r[m])) /\ h[n - m] = xor(f[n - m], mul(a, g[n - m]))
    BY <1>2, <1>7, <2>4
  <2> DEFINE p == s[m]
             q == r[m]
             u == f[n - m]
             v == g[n - m]
  <2>6. p \in Field /\ q \in Field /\ u \in Field /\ v \in Field
    BY <2>1, <2>2, <2>4
  <2> HIDE DEF p, q, u, v
  <2>7. xor(mul(xor(p, mul(a, q)), x), xor(u, mul(a, v)))
          = xor(xor(mul(p, x), u), mul(a, xor(mul(q, x), v)))
    BY <2>6, TurnsEvaluate
  <2> QED
    BY <2>1, <2>2, <2>3, <2>5, <2>7 DEF p, q, u, v
<1>8. n \in T
  <2> HIDE DEF T
  <2> QED
    BY <1>6, <1>7, InductiveSet
<1> QED
  BY <1>1, <1>3, <1>4, <1>5, <1>8 DEF h

\* The polynomial with a coefficient of 0 above its leading one, and the one
\* multiplied by x.
PaddedTo(c, n) == [i \in 1..(n + 1) |-> IF i = n + 1 THEN 0 ELSE c[i]]
Raised(c, n) == [i \in 1..(n + 1) |-> IF i = 1 THEN 0 ELSE c[i - 1]]

\* A coefficient of 0 above the leading one changes no value.
LEMMA EvaluatePadded ==
  ASSUME NEW n \in Nat, NEW c \in [1..n -> Field], NEW x \in Field
  PROVE  /\ PaddedTo(c, n) \in [1..(n + 1) -> Field]
         /\ Evaluate(PaddedTo(c, n), x) = Evaluate(c, x)
<1> DEFINE d == PaddedTo(c, n)
<1>1. d \in [1..(n + 1) -> Field] /\ n + 1 \in Nat
  BY FieldLaws DEF PaddedTo
<1>2. d[n + 1] = 0 /\ \A i \in 1..n : d[i] = c[i]
  BY DEF PaddedTo
<1> HIDE DEF d
<1>3. PICK y : Evaluating(y, n, c, x) /\ Evaluate(c, x) = y[n]
  BY HornerSteps
<1>4. PICK w : Evaluating(w, n + 1, d, x) /\ Evaluate(d, x) = w[n + 1]
  BY <1>1, HornerSteps
<1>a. ASSUME NEW m \in Nat, m + 1 <= n PROVE y[m + 1] = xor(mul(y[m], x), c[n - m])
  <2>1. Evaluating(y, n, c, x)
    BY <1>3
  <2>2. m + 1 \in 1..n /\ (m + 1) - 1 = m /\ n + 1 - (m + 1) = n - m
    BY <1>a
  <2> QED
    BY <2>1, <2>2 DEF Evaluating
<1> DEFINE T == {m \in Nat : m <= n => w[m + 1] = y[m]}
<1>5. 0 \in T
  <2>1. w[0] = 0 /\ y[0] = 0
    BY <1>3, <1>4 DEF Evaluating
  <2>2. w[0 + 1] = xor(mul(w[0], x), d[(n + 1) - 0])
    BY <1>1, <1>4, HornerTurn
  <2>3. d[(n + 1) - 0] = 0
    BY <1>2
  <2>4. xor(mul(0, x), 0) = 0
    BY FieldLaws, MulZero
  <2> QED
    BY <2>1, <2>2, <2>3, <2>4
<1>6. ASSUME NEW m \in Nat, m \in T PROVE m + 1 \in T
  <2> SUFFICES ASSUME m + 1 <= n PROVE w[(m + 1) + 1] = y[m + 1]
    OBVIOUS
  <2>1. w[(m + 1) + 1] = xor(mul(w[m + 1], x), d[(n + 1) - (m + 1)])
    <3>1. PICK N \in Nat : N = n + 1
      OBVIOUS
    <3>2. PICK M \in Nat : M = m + 1
      OBVIOUS
    <3>3. M + 1 <= N /\ Evaluating(w, N, d, x)
      BY <1>4, <3>1, <3>2
    <3>4. w[M + 1] = xor(mul(w[M], x), d[N - M])
      BY <3>3, HornerTurn
    <3> QED
      BY <3>1, <3>2, <3>4
  <2>2. y[m + 1] = xor(mul(y[m], x), c[n - m])
    BY <1>a
  <2>3. n - m \in 1..n /\ (n + 1) - (m + 1) = n - m
    OBVIOUS
  <2>4. d[(n + 1) - (m + 1)] = c[n - m]
    BY <1>2, <2>3
  <2>5. w[m + 1] = y[m]
    BY <1>6
  <2> QED
    BY <2>1, <2>2, <2>4, <2>5
<1>7. n \in T
  <2> HIDE DEF T
  <2> QED
    BY <1>5, <1>6, InductiveSet
<1> QED
  BY <1>1, <1>3, <1>4, <1>7 DEF d

\* Raised, every coefficient counts once more.
LEMMA EvaluateRaised ==
  ASSUME NEW n \in Nat, NEW c \in [1..n -> Field], NEW x \in Field
  PROVE  /\ Raised(c, n) \in [1..(n + 1) -> Field]
         /\ Evaluate(Raised(c, n), x) = mul(Evaluate(c, x), x)
<1>1. Raised(c, n) \in [1..(n + 1) -> Field]
  BY FieldLaws DEF Raised
<1>2. Raised(c, n)[1] = 0
  BY DEF Raised
<1>3. Lowered(Raised(c, n), n) = c
  BY DEF Raised, Lowered
<1> DEFINE d == Raised(c, n)
<1> HIDE DEF d
<1>4. Evaluate(d, x) = xor(mul(Evaluate(Lowered(d, n), x), x), d[1])
  BY <1>1, EvaluateLowered DEF d
<1> DEFINE e == Evaluate(c, x)
<1>5. e \in Field
  BY EvaluateIn
<1> HIDE DEF e
<1>6. xor(mul(e, x), 0) = mul(e, x)
  BY <1>5, Closed
<1> QED
  BY <1>1, <1>2, <1>3, <1>4, <1>6 DEF d, e

-----------------------------------------------------------------------------
(* Divided differences.  Of values at some of the nodes, Delta is the      *)
(* leading coefficient of the polynomial through them; Combine's basis is  *)
(* such a sum for the values divided by the nodes.                         *)

\* n elements of the field, no two the same: what the indexes of shares are.
Nodes(z, n) == n \in Nat /\ z \in [1..n -> Field] /\ \A i, j \in 1..n : z[i] = z[j] => i = j

\* The denominator of a share among those in I, what it counts with, the sum that
\* is left, and the numerator with no share passed over.
Gap(z, n, I, i) == Product([j \in 1..n |-> IF j \in I \ {i} THEN xor(z[i], z[j]) ELSE 1])
Weight(z, n, I, i) == inverse(Gap(z, n, I, i))
Delta(z, n, I, y) == Sum([i \in 1..n |-> IF i \in I THEN mul(y[i], Weight(z, n, I, i)) ELSE 0])
Whole(z, n, I) == Product([j \in 1..n |-> IF j \in I THEN z[j] ELSE 1])

\* Two nodes differ.
LEMMA NodesApart ==
  ASSUME NEW n \in Nat, NEW z, Nodes(z, n), NEW i \in 1..n, NEW j \in 1..n
  PROVE  z[i] \in Field /\ xor(z[i], z[j]) \in Field /\ (i # j => xor(z[i], z[j]) # 0)
<1>1. z[i] \in Field /\ z[j] \in Field /\ (i # j => z[i] # z[j])
  BY DEF Nodes
<1> DEFINE p == z[i]
           q == z[j]
<1> HIDE DEF p, q
<1>2. p \in Field /\ q \in Field
  BY <1>1 DEF p, q
<1>3. xor(p, q) \in Field /\ (xor(p, q) = 0 <=> p = q)
  BY <1>2, XorTells, Closed
<1> QED
  BY <1>1, <1>3 DEF p, q

\* A gap is never 0, so that it has an inverse.
LEMMA GapNonZero ==
  ASSUME NEW n \in Nat, NEW z, Nodes(z, n), NEW I \in SUBSET (1..n), NEW i \in 1..n
  PROVE  Gap(z, n, I, i) \in Field \ {0} /\ Weight(z, n, I, i) \in Field \ {0}
<1> DEFINE f == [j \in 1..n |-> IF j \in I \ {i} THEN xor(z[i], z[j]) ELSE 1]
<1>1. \A j \in 1..n : f[j] \in Field \ {0}
  <2> TAKE j \in 1..n
  <2>1. CASE j \in I \ {i}
    <3>1. xor(z[i], z[j]) \in Field /\ xor(z[i], z[j]) # 0
      BY <2>1, NodesApart
    <3> QED
      BY <2>1, <3>1
  <2>2. CASE j \notin I \ {i}
    BY <2>2, FieldLaws
  <2> QED
    BY <2>1, <2>2
<1>2. f \in [1..n -> Field \ {0}] /\ n \in Nat
  BY <1>1 DEF Nodes
<1> HIDE DEF f
<1>3. Product(f) \in Field \ {0}
  BY <1>2, ProductNonZero
<1>4. Gap(z, n, I, i) = Product(f)
  BY DEF Gap, f
<1>5. inverse(Product(f)) \in Field \ {0}
  BY <1>3, InverseTells
<1> QED
  BY <1>3, <1>4, <1>5 DEF Weight

\* What a gap loses when a node is left out.
LEMMA GapOut ==
  ASSUME NEW n \in Nat, NEW z, Nodes(z, n), NEW I \in SUBSET (1..n), NEW k \in I, NEW i \in 1..n, i # k
  PROVE  Gap(z, n, I, i) = mul(xor(z[i], z[k]), Gap(z, n, I \ {k}, i))
<1> DEFINE f == [j \in 1..n |-> IF j \in I \ {i} THEN xor(z[i], z[j]) ELSE 1]
           g == [j \in 1..n |-> IF j \in (I \ {k}) \ {i} THEN xor(z[i], z[j]) ELSE 1]
<1>1. f \in [1..n -> Field] /\ n \in Nat /\ k \in 1..n
  <2>1. \A j \in 1..n : xor(z[i], z[j]) \in Field
    BY NodesApart
  <2> QED
    BY <2>1, FieldLaws DEF Nodes
<1>2. [f EXCEPT ![k] = 1] = g /\ f[k] = xor(z[i], z[k])
  OBVIOUS
<1>3. Gap(z, n, I, i) = Product(f) /\ Gap(z, n, I \ {k}, i) = Product(g)
  BY DEF Gap
<1> HIDE DEF f, g
<1>4. Product(f) = mul(f[k], Product([f EXCEPT ![k] = 1]))
  BY <1>1, ProductOut
<1> QED
  BY <1>2, <1>3, <1>4

\* A factor of what was inverted can be multiplied away.
LEMMA InverseOut ==
  ASSUME NEW a \in Field \ {0}, NEW b \in Field \ {0}
  PROVE  mul(a, inverse(mul(a, b))) = inverse(b)
<1> DEFINE u == inverse(a)
           v == inverse(b)
<1>1. inverse(mul(a, b)) = mul(u, v) /\ u \in Field /\ v \in Field /\ mul(u, a) = 1
  BY InverseSplits, InverseTells
<1> HIDE DEF u, v
<1>2. mul(a, mul(u, v)) = mul(mul(u, a), v)
  BY <1>1, MulMoves
<1>3. mul(1, v) = v
  BY <1>1, Closed
<1> QED
  BY <1>1, <1>2, <1>3 DEF u, v

\* The weight of a node when another one is left out.
LEMMA WeightOut ==
  ASSUME NEW n \in Nat, NEW z, Nodes(z, n), NEW I \in SUBSET (1..n), NEW k \in I, NEW i \in 1..n, i # k
  PROVE  mul(xor(z[i], z[k]), Weight(z, n, I, i)) = Weight(z, n, I \ {k}, i)
<1> DEFINE a == xor(z[i], z[k])
           b == Gap(z, n, I \ {k}, i)
<1>1. a \in Field \ {0} /\ b \in Field \ {0}
  <2>1. I \ {k} \in SUBSET (1..n) /\ k \in 1..n
    OBVIOUS
  <2>2. a \in Field /\ a # 0
    BY <2>1, NodesApart
  <2>3. b \in Field \ {0}
    BY <2>1, GapNonZero
  <2> QED
    BY <2>2, <2>3
<1>2. Gap(z, n, I, i) = mul(a, b)
  BY GapOut
<1>3. Weight(z, n, I, i) = inverse(Gap(z, n, I, i)) /\ Weight(z, n, I \ {k}, i) = inverse(b)
  BY DEF Weight
<1> HIDE DEF a, b
<1>4. mul(a, inverse(mul(a, b))) = inverse(b)
  BY <1>1, InverseOut
<1> QED
  BY <1>2, <1>3, <1>4 DEF a

\* The list Delta adds up.
Weighted(z, n, I, y) == [i \in 1..n |-> IF i \in I THEN mul(y[i], Weight(z, n, I, i)) ELSE 0]

LEMMA WeightedIn ==
  ASSUME NEW n \in Nat, NEW z, Nodes(z, n), NEW I \in SUBSET (1..n), NEW y \in [1..n -> Field]
  PROVE  /\ Weighted(z, n, I, y) \in [1..n -> Field] /\ n \in Nat
         /\ Delta(z, n, I, y) = Sum(Weighted(z, n, I, y)) /\ Delta(z, n, I, y) \in Field
<1>1. \A i \in 1..n : mul(y[i], Weight(z, n, I, i)) \in Field
  <2> TAKE i \in 1..n
  <2> DEFINE p == y[i]
             q == Weight(z, n, I, i)
  <2>1. p \in Field /\ q \in Field
    BY GapNonZero
  <2> HIDE DEF p, q
  <2>2. mul(p, q) \in Field
    BY <2>1, Closed
  <2> QED
    BY <2>2 DEF p, q
<1>2. Weighted(z, n, I, y) \in [1..n -> Field]
  BY <1>1, FieldLaws DEF Weighted
<1>3. Delta(z, n, I, y) = Sum(Weighted(z, n, I, y))
  BY DEF Delta, Weighted
<1>4. n \in Nat
  BY DEF Nodes
<1> QED
  BY <1>2, <1>3, <1>4, SumIn

\* Delta is linear in the values.
LEMMA DeltaLinear ==
  ASSUME NEW n \in Nat, NEW z, Nodes(z, n), NEW I \in SUBSET (1..n), NEW y \in [1..n -> Field],
         NEW w \in [1..n -> Field], NEW a \in Field
  PROVE  Delta(z, n, I, [i \in 1..n |-> xor(y[i], mul(a, w[i]))])
           = xor(Delta(z, n, I, y), mul(a, Delta(z, n, I, w)))
<1> DEFINE f == Weighted(z, n, I, y)
           g == Weighted(z, n, I, w)
           h == [i \in 1..n |-> xor(y[i], mul(a, w[i]))]
<1>1. f \in [1..n -> Field] /\ g \in [1..n -> Field] /\ n \in Nat
      /\ Delta(z, n, I, y) = Sum(f) /\ Delta(z, n, I, w) = Sum(g)
  BY WeightedIn
<1>2. \A i \in 1..n : Weighted(z, n, I, h)[i] = xor(f[i], mul(a, g[i]))
  <2> TAKE i \in 1..n
  <2>1. CASE i \in I
    <3> DEFINE p == y[i]
               q == w[i]
               v == Weight(z, n, I, i)
    <3>1. p \in Field /\ q \in Field /\ v \in Field
      BY GapNonZero
    <3>2. Weighted(z, n, I, h)[i] = mul(xor(p, mul(a, q)), v) /\ f[i] = mul(p, v) /\ g[i] = mul(q, v)
      BY <2>1 DEF Weighted
    <3> HIDE DEF p, q, v, f, g
    <3> DEFINE aq == mul(a, q)
    <3>3. aq \in Field /\ mul(aq, v) = mul(a, mul(q, v))
      BY <3>1, Closed, MulMoves
    <3> HIDE DEF aq
    <3>4. mul(xor(p, aq), v) = xor(mul(p, v), mul(aq, v))
      BY <3>1, <3>3, MulMoves
    <3> QED
      BY <3>2, <3>3, <3>4 DEF aq
  <2>2. CASE i \notin I
    <3>1. Weighted(z, n, I, h)[i] = 0 /\ f[i] = 0 /\ g[i] = 0
      BY <2>2 DEF Weighted
    <3>2. xor(0, mul(a, 0)) = 0
      BY MulZero, FieldLaws
    <3> QED
      BY <3>1, <3>2
  <2> QED
    BY <2>1, <2>2
<1>3. Weighted(z, n, I, h) = [i \in 1..n |-> xor(f[i], mul(a, g[i]))]
  <2>1. Weighted(z, n, I, h) = [i \in 1..n |-> Weighted(z, n, I, h)[i]]
    BY DEF Weighted
  <2> HIDE DEF f, g, h
  <2> QED
    BY <1>2, <2>1
<1>4. Delta(z, n, I, h) = Sum(Weighted(z, n, I, h))
  BY DEF Delta, Weighted
<1> HIDE DEF f, g
<1>5. Sum([i \in 1..n |-> xor(f[i], mul(a, g[i]))]) = xor(Sum(f), mul(a, Sum(g)))
  BY <1>1, SumLinear
<1> QED
  BY <1>1, <1>3, <1>4, <1>5

\* The values multiplied by how far their nodes are from one of them.
FromNode(z, n, k, y) == [i \in 1..n |-> mul(xor(z[i], z[k]), y[i])]

\* Values that are 0 at one node drop it.
LEMMA DeltaDrops ==
  ASSUME NEW n \in Nat, NEW z, Nodes(z, n), NEW I \in SUBSET (1..n), NEW k \in I, NEW y \in [1..n -> Field]
  PROVE  Delta(z, n, I, FromNode(z, n, k, y)) = Delta(z, n, I \ {k}, y)
<1> DEFINE h == FromNode(z, n, k, y)
<1>1. \A i \in 1..n : Weighted(z, n, I, h)[i] = Weighted(z, n, I \ {k}, y)[i]
  <2> TAKE i \in 1..n
  <2>1. CASE i \in I /\ i # k
    <3> DEFINE p == xor(z[i], z[k])
               q == y[i]
               v == Weight(z, n, I, i)
    <3>1. p \in Field /\ q \in Field /\ v \in Field
      BY NodesApart, GapNonZero
    <3>2. mul(p, v) = Weight(z, n, I \ {k}, i)
      BY <2>1, WeightOut
    <3>3. Weighted(z, n, I, h)[i] = mul(mul(p, q), v)
          /\ Weighted(z, n, I \ {k}, y)[i] = mul(q, Weight(z, n, I \ {k}, i))
      BY <2>1 DEF Weighted, FromNode
    <3> HIDE DEF p, q, v
    <3>4. mul(mul(p, q), v) = mul(p, mul(q, v)) /\ mul(p, mul(q, v)) = mul(q, mul(p, v))
      BY <3>1, MulMoves
    <3> QED
      BY <3>2, <3>3, <3>4
  <2>2. CASE i \in I /\ i = k
    <3> DEFINE p == z[k]
               q == y[k]
               v == Weight(z, n, I, k)
    <3>1. p \in Field /\ q \in Field /\ v \in Field
      BY NodesApart, GapNonZero
    <3>2. Weighted(z, n, I, h)[i] = mul(mul(xor(p, p), q), v) /\ Weighted(z, n, I \ {k}, y)[i] = 0
      BY <2>2 DEF Weighted, FromNode
    <3> HIDE DEF p, q, v
    <3>3. xor(p, p) = 0 /\ mul(0, q) = 0 /\ mul(0, v) = 0
      BY <3>1, XorTells, MulZero
    <3> QED
      BY <3>2, <3>3
  <2>3. CASE i \notin I
    BY <2>3 DEF Weighted
  <2> QED
    BY <2>1, <2>2, <2>3
<1>2. Weighted(z, n, I, h) = Weighted(z, n, I \ {k}, y)
  <2>1. Weighted(z, n, I, h) = [i \in 1..n |-> Weighted(z, n, I, h)[i]]
        /\ Weighted(z, n, I \ {k}, y) = [i \in 1..n |-> Weighted(z, n, I \ {k}, y)[i]]
    BY DEF Weighted
  <2> HIDE DEF h
  <2> QED
    BY <1>1, <2>1
<1>3. Delta(z, n, I, h) = Sum(Weighted(z, n, I, h))
      /\ Delta(z, n, I \ {k}, y) = Sum(Weighted(z, n, I \ {k}, y))
  BY DEF Delta, Weighted
<1> QED
  BY <1>2, <1>3

\* Values multiplied by their nodes.
Noded(z, n, y) == [i \in 1..n |-> mul(z[i], y[i])]

\* What that makes of Delta.
LEMMA DeltaShifts ==
  ASSUME NEW n \in Nat, NEW z, Nodes(z, n), NEW I \in SUBSET (1..n), NEW k \in I, NEW y \in [1..n -> Field]
  PROVE  Delta(z, n, I, Noded(z, n, y))
           = xor(Delta(z, n, I \ {k}, y), mul(z[k], Delta(z, n, I, y)))
<1> DEFINE h == FromNode(z, n, k, y)
           a == z[k]
<1>1. \A i \in 1..n : h[i] \in Field /\ xor(h[i], mul(a, y[i])) = mul(z[i], y[i])
  <2> TAKE i \in 1..n
  <2> DEFINE p == z[i]
             q == y[i]
  <2>1. p \in Field /\ a \in Field /\ q \in Field
    BY NodesApart
  <2>2. h[i] = mul(xor(p, a), q)
    BY DEF FromNode
  <2> HIDE DEF p, q, a, h
  <2>3. mul(xor(p, a), q) = xor(mul(p, q), mul(a, q)) /\ mul(p, q) \in Field /\ mul(a, q) \in Field
    BY <2>1, MulMoves, Closed
  <2>4. xor(xor(mul(p, q), mul(a, q)), mul(a, q)) = mul(p, q)
        /\ xor(mul(p, q), mul(a, q)) \in Field
    BY <2>3, FieldLaws
  <2> QED
    BY <2>2, <2>3, <2>4 DEF p, q
<1>2. h \in [1..n -> Field] /\ a \in Field
  <2>1. k \in 1..n
    OBVIOUS
  <2>2. a \in Field
    BY <2>1, NodesApart
  <2> QED
    BY <1>1, <2>2 DEF FromNode
<1>3. [i \in 1..n |-> xor(h[i], mul(a, y[i]))] = [i \in 1..n |-> mul(z[i], y[i])]
  <2> HIDE DEF h, a
  <2> QED
    BY <1>1
<1>4. Delta(z, n, I, h) = Delta(z, n, I \ {k}, y)
  BY DeltaDrops
<1> HIDE DEF h, a
<1>5. Delta(z, n, I, [i \in 1..n |-> xor(h[i], mul(a, y[i]))])
        = xor(Delta(z, n, I, h), mul(a, Delta(z, n, I, y)))
  BY <1>2, DeltaLinear
<1> QED
  BY <1>3, <1>4, <1>5 DEF a, Noded

\* A set of one node.
Alone(I, k) == I = {k}

\* Of one node, Delta is the value there.
LEMMA DeltaOne ==
  ASSUME NEW n \in Nat, NEW z, Nodes(z, n), NEW k \in 1..n, NEW I, Alone(I, k), NEW y \in [1..n -> Field]
  PROVE  Delta(z, n, I, y) = y[k]
<1> USE DEF Alone
<1> DEFINE f == Weighted(z, n, {k}, y)
<1>1. f \in [1..n -> Field] /\ n \in Nat /\ Delta(z, n, {k}, y) = Sum(f)
  <2>1. {k} \in SUBSET (1..n)
    OBVIOUS
  <2> QED
    BY <2>1, WeightedIn
<1>2. \A i \in 1..n : i # k => f[i] = 0
  BY DEF Weighted
<1>3. f[k] = y[k]
  <2>1. Gap(z, n, {k}, k) = Product([j \in 1..n |-> 1])
    BY DEF Gap
  <2>2. Weight(z, n, {k}, k) = 1
    BY <1>1, <2>1, ProductOne, InverseOfOne DEF Weight
  <2>3. f[k] = mul(y[k], 1)
    BY <2>2 DEF Weighted
  <2>4. y[k] \in Field
    OBVIOUS
  <2>5. mul(y[k], 1) = y[k]
    BY <2>4, FieldLaws
  <2> QED
    BY <2>3, <2>5
<1> HIDE DEF f
<1>4. Sum(f) = f[k]
  BY <1>1, <1>2, SumOne
<1> QED
  BY <1>1, <1>3, <1>4

-----------------------------------------------------------------------------
(* Delta of ones, of the inverses of the nodes and of a polynomial.        *)

\* Sets of nodes, and one of them left out.
LEMMA NodeSets ==
  ASSUME NEW n \in Nat, NEW z, Nodes(z, n), NEW I \in SUBSET (1..n)
  PROVE  /\ IsFiniteSet(I) /\ Cardinality(I) \in Nat /\ (Cardinality(I) = 0 <=> I = {})
         /\ \A k \in I : I \ {k} \in SUBSET (1..n) /\ Cardinality(I \ {k}) = Cardinality(I) - 1
         /\ Cardinality(I) <= n
<1>1. n \in Nat
  BY DEF Nodes
<1>2. IsFiniteSet(1..n) /\ Cardinality(1..n) = n
  BY <1>1, FS_Interval
<1>3. IsFiniteSet(I) /\ Cardinality(I) <= n
  BY <1>2, FS_Subset
<1> QED
  BY <1>3, FS_CardinalityType, FS_EmptySet, FS_RemoveElement

\* A set of one node.
LEMMA NodeAlone ==
  ASSUME NEW n \in Nat, NEW z, Nodes(z, n), NEW I \in SUBSET (1..n), Cardinality(I) = 1
  PROVE  \E k \in 1..n : Alone(I, k)
<1>1. PICK k \in I : TRUE
  BY NodeSets
<1>2. I \ {k} \in SUBSET (1..n) /\ Cardinality(I \ {k}) = 0
  BY NodeSets
<1>3. I \ {k} = {}
  BY <1>2, NodeSets
<1> QED
  BY <1>3 DEF Alone

\* The values of the polynomial 1.
Ones(n) == [i \in 1..n |-> 1]

\* Two multiples of an element that are the same.
LEMMA MultiplesTell ==
  ASSUME NEW p \in Field, NEW q \in Field, NEW d \in Field, NEW e \in Field, p # q,
         xor(e, mul(p, d)) = xor(e, mul(q, d))
  PROVE  d = 0
<1>1. mul(p, d) \in Field /\ mul(q, d) \in Field
  BY Closed
<1>2. mul(p, d) = mul(q, d)
  BY <1>1, XorCancels
<1>3. mul(d, p) = mul(d, q)
  BY <1>2, Closed
<1> QED
  BY <1>3, MulCancels

\* Two nodes whose removal makes no difference.
LEMMA OnesStep ==
  ASSUME NEW n \in Nat, NEW z, Nodes(z, n), NEW I \in SUBSET (1..n), NEW k \in I, NEW l \in I, k # l,
         Delta(z, n, I \ {k}, Ones(n)) = Delta(z, n, I \ {l}, Ones(n))
  PROVE  Delta(z, n, I, Ones(n)) = 0
<1> DEFINE y == Ones(n)
           d == Delta(z, n, I, y)
           e == Delta(z, n, I \ {k}, y)
           p == z[k]
           q == z[l]
<1>1. y \in [1..n -> Field]
  BY FieldLaws DEF Ones
<1>2. Delta(z, n, I, Noded(z, n, y)) = xor(e, mul(p, d))
      /\ Delta(z, n, I, Noded(z, n, y)) = xor(e, mul(q, d))
  <2> HIDE DEF y
  <2> QED
    BY <1>1, DeltaShifts DEF y
<1>3. d \in Field /\ e \in Field
  <2>1. I \ {k} \in SUBSET (1..n)
    OBVIOUS
  <2> HIDE DEF y
  <2> QED
    BY <1>1, <2>1, WeightedIn
<1>4. p \in Field /\ q \in Field /\ p # q
  BY DEF Nodes
<1> HIDE DEF d, e, p, q
<1>5. d = 0
  BY <1>2, <1>3, <1>4, MultiplesTell
<1> QED
  BY <1>5 DEF d

\* Of two nodes or more, Delta of ones is 0.
LEMMA DeltaOfOnes ==
  ASSUME NEW n \in Nat, NEW z, Nodes(z, n)
  PROVE  \A I \in SUBSET (1..n) : Cardinality(I) >= 2 => Delta(z, n, I, Ones(n)) = 0
<1> DEFINE T == {m \in Nat : \A I \in SUBSET (1..n) :
                   Cardinality(I) = m + 2 => Delta(z, n, I, Ones(n)) = 0}
<1>1. Ones(n) \in [1..n -> Field] /\ \A k \in 1..n : Ones(n)[k] = 1
  BY FieldLaws DEF Ones
<1>2. ASSUME NEW I \in SUBSET (1..n), Cardinality(I) >= 2
      PROVE  \E k, l \in I : k # l
  <2>1. PICK k \in I : TRUE
    BY <1>2, NodeSets
  <2>2. Cardinality(I \ {k}) # 0 /\ I \ {k} \in SUBSET (1..n)
    BY <1>2, NodeSets
  <2>3. PICK l \in I \ {k} : TRUE
    BY <2>2, NodeSets
  <2> QED
    BY <2>3
<1>3. 0 \in T
  <2> SUFFICES ASSUME NEW I \in SUBSET (1..n), Cardinality(I) = 2
               PROVE  Delta(z, n, I, Ones(n)) = 0
    OBVIOUS
  <2>1. PICK k, l \in I : k # l
    BY <1>2
  <2>2. ASSUME NEW i \in I PROVE Delta(z, n, I \ {i}, Ones(n)) = 1
    <3>1. I \ {i} \in SUBSET (1..n) /\ Cardinality(I \ {i}) = 1
      BY NodeSets
    <3>2. PICK j \in 1..n : Alone(I \ {i}, j)
      BY <3>1, NodeAlone
    <3>3. Delta(z, n, I \ {i}, Ones(n)) = Ones(n)[j]
      BY <1>1, <3>2, DeltaOne
    <3> QED
      BY <1>1, <3>2, <3>3
  <2>3. Delta(z, n, I \ {k}, Ones(n)) = Delta(z, n, I \ {l}, Ones(n))
    BY <2>1, <2>2
  <2> QED
    BY <2>1, <2>3, OnesStep
<1>4. ASSUME NEW m \in Nat, m \in T PROVE m + 1 \in T
  <2> SUFFICES ASSUME NEW I \in SUBSET (1..n), Cardinality(I) = (m + 1) + 2
               PROVE  Delta(z, n, I, Ones(n)) = 0
    OBVIOUS
  <2>1. PICK k, l \in I : k # l
    BY <1>2
  <2>2. ASSUME NEW i \in I PROVE Delta(z, n, I \ {i}, Ones(n)) = 0
    <3>1. I \ {i} \in SUBSET (1..n) /\ Cardinality(I \ {i}) = m + 2
      BY NodeSets
    <3> QED
      BY <1>4, <3>1
  <2>3. Delta(z, n, I \ {k}, Ones(n)) = Delta(z, n, I \ {l}, Ones(n))
    BY <2>1, <2>2
  <2> QED
    BY <2>1, <2>3, OnesStep
<1>5. \A m \in Nat : m \in T
  <2> HIDE DEF T
  <2> QED
    BY <1>3, <1>4, InductiveSet
<1>6. ASSUME NEW I \in SUBSET (1..n), Cardinality(I) >= 2
      PROVE  Delta(z, n, I, Ones(n)) = 0
  <2>1. Cardinality(I) - 2 \in Nat /\ Cardinality(I) = (Cardinality(I) - 2) + 2
    BY <1>6, NodeSets
  <2> QED
    BY <1>5, <2>1
<1> QED
  BY <1>6

\* The nodes multiplied, one of them taken out.
LEMMA WholeOut ==
  ASSUME NEW n \in Nat, NEW z, Nodes(z, n), \A i \in 1..n : z[i] # 0, NEW I \in SUBSET (1..n)
  PROVE  /\ Whole(z, n, I) \in Field \ {0} /\ Whole(z, n, {}) = 1
         /\ \A k \in I : Whole(z, n, I) = mul(z[k], Whole(z, n, I \ {k}))
<1> DEFINE f == [j \in 1..n |-> IF j \in I THEN z[j] ELSE 1]
<1>1. f \in [1..n -> Field \ {0}] /\ f \in [1..n -> Field] /\ n \in Nat
  <2>1. \A j \in 1..n : z[j] \in Field \ {0}
    BY DEF Nodes
  <2>2. 1 \in Field \ {0}
    BY FieldLaws
  <2>3. \A j \in 1..n : f[j] \in Field \ {0}
    BY <2>1, <2>2
  <2> QED
    BY <2>3 DEF Nodes
<1>2. Whole(z, n, I) = Product(f)
  BY DEF Whole
<1>3. ASSUME NEW k \in I PROVE Whole(z, n, I) = mul(z[k], Whole(z, n, I \ {k}))
  <2> DEFINE g == [j \in 1..n |-> IF j \in I \ {k} THEN z[j] ELSE 1]
  <2>1. [f EXCEPT ![k] = 1] = g /\ f[k] = z[k] /\ k \in 1..n
    OBVIOUS
  <2>2. Whole(z, n, I \ {k}) = Product(g)
    BY DEF Whole
  <2> HIDE DEF f, g
  <2>3. Product(f) = mul(f[k], Product([f EXCEPT ![k] = 1]))
    BY <1>1, <2>1, ProductOut
  <2> QED
    BY <1>2, <2>1, <2>2, <2>3
<1>4. Whole(z, n, {}) = 1
  <2>1. Whole(z, n, {}) = Product([j \in 1..n |-> 1])
    BY DEF Whole
  <2> QED
    BY <1>1, <2>1, ProductOne
<1> HIDE DEF f
<1>5. Product(f) \in Field \ {0}
  BY <1>1, ProductNonZero
<1> QED
  BY <1>2, <1>3, <1>4, <1>5

\* The values of 1/x.
Inverses(z, n) == [i \in 1..n |-> inverse(z[i])]

\* Of the inverses of the nodes, Delta is the inverse of their product.
LEMMA DeltaOfInverses ==
  ASSUME NEW n \in Nat, NEW z, Nodes(z, n), \A i \in 1..n : z[i] # 0
  PROVE  \A I \in SUBSET (1..n) : I # {} =>
           Delta(z, n, I, Inverses(z, n)) = inverse(Whole(z, n, I))
<1> DEFINE y == Inverses(z, n)
           T == {m \in Nat : \A I \in SUBSET (1..n) :
                   Cardinality(I) = m + 1 => Delta(z, n, I, y) = inverse(Whole(z, n, I))}
<1>1. y \in [1..n -> Field] /\ Noded(z, n, y) = Ones(n) /\ \A k \in 1..n : y[k] = inverse(z[k])
  <2>1. \A i \in 1..n : z[i] \in Field \ {0}
    BY DEF Nodes
  <2>2. \A i \in 1..n : inverse(z[i]) \in Field /\ mul(z[i], inverse(z[i])) = 1
    BY <2>1, FieldLaws
  <2> QED
    BY <2>2 DEF Inverses, Noded, Ones
<1> HIDE DEF y
<1>2. 0 \in T
  <2> SUFFICES ASSUME NEW I \in SUBSET (1..n), Cardinality(I) = 1
               PROVE  Delta(z, n, I, y) = inverse(Whole(z, n, I))
    OBVIOUS
  <2>1. PICK k \in 1..n : Alone(I, k)
    BY NodeAlone
  <2>2. Delta(z, n, I, y) = inverse(z[k])
    <3>1. Delta(z, n, I, y) = y[k]
      BY <1>1, <2>1, DeltaOne
    <3> QED
      BY <1>1, <3>1
  <2>3. Whole(z, n, I) = mul(z[k], Whole(z, n, I \ {k})) /\ Whole(z, n, {}) = 1
    BY <2>1, WholeOut DEF Alone
  <2>4. I \ {k} = {} /\ z[k] \in Field
    BY <2>1 DEF Nodes, Alone
  <2>5. mul(z[k], 1) = z[k]
    BY <2>4, FieldLaws
  <2> QED
    BY <2>1, <2>2, <2>3, <2>4, <2>5
<1>3. ASSUME NEW m \in Nat, m \in T PROVE m + 1 \in T
  <2> SUFFICES ASSUME NEW I \in SUBSET (1..n), Cardinality(I) = (m + 1) + 1
               PROVE  Delta(z, n, I, y) = inverse(Whole(z, n, I))
    OBVIOUS
  <2>1. PICK k \in I : TRUE
    BY NodeSets
  <2>2. I \ {k} \in SUBSET (1..n) /\ Cardinality(I \ {k}) = m + 1
    BY NodeSets
  <2> DEFINE a == z[k]
             b == Whole(z, n, I \ {k})
             d == Delta(z, n, I, y)
  <2>3. Delta(z, n, I \ {k}, y) = inverse(b)
    BY <1>3, <2>2
  <2>4. Delta(z, n, I, Ones(n)) = 0
    BY DeltaOfOnes
  <2>5. Delta(z, n, I, Noded(z, n, y)) = xor(Delta(z, n, I \ {k}, y), mul(a, d))
    BY <1>1, DeltaShifts
  <2>6. a \in Field \ {0} /\ b \in Field \ {0} /\ d \in Field
    <3>1. a \in Field \ {0}
      BY DEF Nodes
    <3>2. b \in Field \ {0}
      BY <2>2, WholeOut
    <3>3. d \in Field
      BY <1>1, WeightedIn
    <3> QED
      BY <3>1, <3>2, <3>3
  <2>7. Whole(z, n, I) = mul(a, b)
    BY WholeOut
  <2> HIDE DEF a, b, d
  <2>8. inverse(b) = mul(a, d)
    <3>1. xor(inverse(b), mul(a, d)) = 0
      BY <1>1, <2>3, <2>4, <2>5
    <3>2. inverse(b) \in Field /\ mul(a, d) \in Field
      BY <2>6, Closed, InverseTells
    <3> QED
      BY <3>1, <3>2, XorTells
  <2>9. d = inverse(mul(a, b))
    <3>1. mul(a, inverse(mul(a, b))) = inverse(b)
      BY <2>6, InverseOut
    <3>2. inverse(mul(a, b)) \in Field
      BY <2>6, MulNonZero, InverseTells
    <3> QED
      BY <2>6, <2>8, <3>1, <3>2, MulCancels
  <2> QED
    BY <2>7, <2>9 DEF d
<1>4. \A m \in Nat : m \in T
  <2> HIDE DEF T
  <2> QED
    BY <1>2, <1>3, InductiveSet
<1>5. ASSUME NEW I \in SUBSET (1..n), I # {}
      PROVE  Delta(z, n, I, y) = inverse(Whole(z, n, I))
  <2>1. Cardinality(I) \in Nat /\ Cardinality(I) # 0
    BY <1>5, NodeSets
  <2>2. Cardinality(I) - 1 \in Nat /\ Cardinality(I) = (Cardinality(I) - 1) + 1
    BY <2>1
  <2> QED
    BY <1>4, <2>2
<1> QED
  BY <1>5 DEF y

-----------------------------------------------------------------------------
(* Polynomials.                                                            *)

\* The values of a polynomial at the nodes.
Values(c, z, n) == [i \in 1..n |-> Evaluate(c, z[i])]

\* The values of a polynomial are elements, and those of one that is 0 are 0.
LEMMA ValuesIn ==
  ASSUME NEW n \in Nat, NEW z, Nodes(z, n), NEW r \in Nat, NEW c \in [1..r -> Field]
  PROVE  /\ Values(c, z, n) \in [1..n -> Field]
         /\ r = 0 => Values(c, z, n) = [i \in 1..n |-> 0]
<1>1. \A i \in 1..n : z[i] \in Field
  BY DEF Nodes
<1>2. \A i \in 1..n : Evaluate(c, z[i]) \in Field
  BY <1>1, EvaluateIn
<1>3. ASSUME r = 0, NEW x \in Field PROVE Evaluate(c, x) = 0
  <2>1. PICK y : Evaluating(y, r, c, x) /\ Evaluate(c, x) = y[r]
    BY HornerSteps
  <2> QED
    BY <1>3, <2>1 DEF Evaluating
<1>4. r = 0 => \A i \in 1..n : Evaluate(c, z[i]) = 0
  BY <1>1, <1>3
<1> QED
  BY <1>2, <1>4 DEF Values

\* Delta of zeros is 0.
LEMMA DeltaOfZeros ==
  ASSUME NEW n \in Nat, NEW z, Nodes(z, n), NEW I \in SUBSET (1..n)
  PROVE  Delta(z, n, I, [i \in 1..n |-> 0]) = 0
<1> DEFINE y == [i \in 1..n |-> 0]
<1>1. \A i \in 1..n : Weighted(z, n, I, y)[i] = 0
  <2> TAKE i \in 1..n
  <2>1. Weight(z, n, I, i) \in Field
    BY GapNonZero
  <2>2. mul(0, Weight(z, n, I, i)) = 0
    BY <2>1, MulZero
  <2> QED
    BY <2>2 DEF Weighted
<1>2. Weighted(z, n, I, y) = [i \in 1..n |-> 0]
  <2>1. Weighted(z, n, I, y) = [i \in 1..n |-> Weighted(z, n, I, y)[i]]
    BY DEF Weighted
  <2> QED
    BY <1>1, <2>1
<1>3. Delta(z, n, I, y) = Sum(Weighted(z, n, I, y))
  BY DEF Delta, Weighted
<1> QED
  BY <1>2, <1>3, SumZero

\* One coefficient less.
LEMMA DeltaLowered ==
  ASSUME NEW n \in Nat, NEW z, Nodes(z, n), NEW r \in Nat, NEW c \in [1..(r + 1) -> Field],
         NEW I \in SUBSET (1..n)
  PROVE  Delta(z, n, I, Values(c, z, n))
           = xor(Delta(z, n, I, Noded(z, n, Values(Lowered(c, r), z, n))),
                 mul(c[1], Delta(z, n, I, Ones(n))))
<1> DEFINE d == Lowered(c, r)
           a == c[1]
           y == Noded(z, n, Values(d, z, n))
           w == Ones(n)
<1>1. d \in [1..r -> Field] /\ a \in Field
  BY EvaluateLowered, FieldLaws DEF Lowered
<1>2. \A i \in 1..n : y[i] \in Field /\ Evaluate(c, z[i]) = xor(y[i], mul(a, w[i]))
  <2> TAKE i \in 1..n
  <2> DEFINE x == z[i]
             e == Evaluate(d, x)
  <2>1. x \in Field
    BY DEF Nodes
  <2>2. y[i] = mul(x, e) /\ w[i] = 1
    BY DEF Noded, Values, Ones
  <2> HIDE DEF x, d, y, w, a
  <2>3. e \in Field
    BY <1>1, <2>1, EvaluateIn
  <2>4. Evaluate(c, x) = xor(mul(e, x), a)
    BY <2>1, EvaluateLowered DEF d, a
  <2> HIDE DEF e
  <2>5. mul(e, x) = mul(x, e) /\ mul(x, e) \in Field /\ mul(a, 1) = a
    BY <1>1, <2>1, <2>3, Closed
  <2> QED
    BY <2>2, <2>4, <2>5 DEF x
<1>3. y \in [1..n -> Field] /\ w \in [1..n -> Field]
  <2>1. y = [i \in 1..n |-> y[i]]
    BY DEF Noded
  <2>2. w \in [1..n -> Field]
    BY FieldLaws DEF Ones
  <2> HIDE DEF y, w
  <2> QED
    BY <1>2, <2>1, <2>2
<1>4. Values(c, z, n) = [i \in 1..n |-> xor(y[i], mul(a, w[i]))]
  <2> HIDE DEF y, w, a
  <2> QED
    BY <1>2 DEF Values
<1> HIDE DEF y, w, a, d
<1>5. Delta(z, n, I, [i \in 1..n |-> xor(y[i], mul(a, w[i]))])
        = xor(Delta(z, n, I, y), mul(a, Delta(z, n, I, w)))
  BY <1>1, <1>3, DeltaLinear
<1> QED
  BY <1>4, <1>5 DEF y, w, a, d

\* Of a polynomial with fewer coefficients than nodes Delta is 0; of one with
\* as many it is the leading coefficient.
LEMMA DeltaOfPolynomial ==
  ASSUME NEW n \in Nat, NEW z, Nodes(z, n)
  PROVE  \A r \in Nat : \A c \in [1..r -> Field], I \in SUBSET (1..n) :
           I # {} /\ r <= Cardinality(I) =>
             Delta(z, n, I, Values(c, z, n)) = IF r = Cardinality(I) THEN c[r] ELSE 0
<1> DEFINE Says(r, c, I) ==
             I # {} /\ r <= Cardinality(I) =>
               Delta(z, n, I, Values(c, z, n)) = IF r = Cardinality(I) THEN c[r] ELSE 0
           T == {r \in Nat : \A c \in [1..r -> Field], I \in SUBSET (1..n) : Says(r, c, I)}
<1>1. 0 \in T
  <2> SUFFICES ASSUME NEW c \in [1..0 -> Field], NEW I \in SUBSET (1..n), I # {}
               PROVE  Delta(z, n, I, Values(c, z, n)) = 0 /\ Cardinality(I) # 0
    OBVIOUS
  <2>1. Values(c, z, n) = [i \in 1..n |-> 0]
    BY ValuesIn
  <2>2. Cardinality(I) # 0
    BY NodeSets
  <2> QED
    BY <2>1, <2>2, DeltaOfZeros
<1>2. ASSUME NEW r \in Nat, r \in T PROVE r + 1 \in T
  <2> SUFFICES ASSUME NEW c \in [1..(r + 1) -> Field], NEW I \in SUBSET (1..n),
                      I # {}, r + 1 <= Cardinality(I)
               PROVE  Delta(z, n, I, Values(c, z, n))
                        = IF r + 1 = Cardinality(I) THEN c[r + 1] ELSE 0
    OBVIOUS
  <2> DEFINE d == Lowered(c, r)
             y == Values(d, z, n)
             one == Delta(z, n, I, Ones(n))
  <2>1. d \in [1..r -> Field] /\ c[1] \in Field /\ (r # 0 => d[r] = c[r + 1])
    BY DEF Lowered
  <2> HIDE DEF d
  <2>2. y \in [1..n -> Field] /\ (r = 0 => y = [i \in 1..n |-> 0])
    BY <2>1, ValuesIn
  <2>3. Delta(z, n, I, Values(c, z, n)) = xor(Delta(z, n, I, Noded(z, n, y)), mul(c[1], one))
    BY DeltaLowered DEF d
  <2> HIDE DEF y
  <2>4. PICK k \in I : TRUE
    OBVIOUS
  <2>5. Delta(z, n, I, Noded(z, n, y)) = xor(Delta(z, n, I \ {k}, y), mul(z[k], Delta(z, n, I, y)))
    BY <2>2, DeltaShifts
  <2>6. I \ {k} \in SUBSET (1..n) /\ Cardinality(I \ {k}) = Cardinality(I) - 1
        /\ Cardinality(I) \in Nat /\ Cardinality(I \ {k}) \in Nat
    BY NodeSets
  <2>7. z[k] \in Field /\ Delta(z, n, I, y) = 0
    <3>1. z[k] \in Field
      BY DEF Nodes
    <3>2. Says(r, d, I)
      BY <1>2, <2>1
    <3>3. Delta(z, n, I, Values(d, z, n)) = 0
      <4>1. r <= Cardinality(I) /\ r # Cardinality(I)
        BY <2>6
      <4> HIDE DEF d
      <4> QED
        BY <3>2, <4>1
    <3> QED
      BY <3>1, <3>3 DEF y
  <2>8. CASE Cardinality(I) = 1
    <3>1. r = 0
      BY <2>6, <2>8
    <3>2. PICK j \in 1..n : Alone(I, j)
      BY <2>8, NodeAlone
    <3>3. Ones(n) \in [1..n -> Field] /\ Ones(n)[j] = 1
      BY FieldLaws DEF Ones
    <3>4. one = 1
      <4>1. Delta(z, n, I, Ones(n)) = Ones(n)[j]
        BY <3>2, <3>3, DeltaOne
      <4> QED
        BY <3>3, <4>1
    <3>5. Delta(z, n, I \ {k}, y) = 0
      BY <2>2, <2>6, <3>1, DeltaOfZeros
    <3> HIDE DEF one
    <3> DEFINE a == c[1]
               p == z[k]
    <3>6. xor(xor(0, mul(p, 0)), mul(a, 1)) = a
      <4> HIDE DEF a, p
      <4>1. a \in Field /\ p \in Field
        BY <2>1, <2>7 DEF a, p
      <4>2. mul(p, 0) = 0 /\ xor(0, 0) = 0 /\ mul(a, 1) = a /\ xor(0, a) = a
        BY <4>1, MulZero, FieldLaws
      <4> QED
        BY <4>2
    <3> QED
      BY <2>3, <2>5, <2>7, <2>8, <3>1, <3>4, <3>5, <3>6
  <2>9. CASE Cardinality(I) # 1
    <3>1. Cardinality(I) >= 2
      BY <2>6, <2>9, NodeSets
    <3>2. one = 0
      BY <3>1, DeltaOfOnes
    <3> DEFINE lead == IF r + 1 = Cardinality(I) THEN c[r + 1] ELSE 0
    <3>3. Delta(z, n, I \ {k}, y) = lead
      <4>1. I \ {k} # {} /\ r <= Cardinality(I \ {k})
        BY <2>6, <3>1, NodeSets
      <4>2. Says(r, d, I \ {k})
        BY <1>2, <2>1, <2>6
      <4>3. Delta(z, n, I \ {k}, Values(d, z, n)) = IF r = Cardinality(I \ {k}) THEN d[r] ELSE 0
        BY <4>1, <4>2
      <4>4. r = Cardinality(I \ {k}) <=> r + 1 = Cardinality(I)
        BY <2>6
      <4>5. r + 1 = Cardinality(I) => d[r] = c[r + 1]
        BY <2>1, <3>1
      <4> QED
        BY <4>3, <4>4, <4>5 DEF y
    <3>4. lead \in Field
      BY FieldLaws
    <3> HIDE DEF one, lead
    <3> DEFINE a == c[1]
               p == z[k]
    <3>5. xor(xor(lead, mul(p, 0)), mul(a, 0)) = lead
      <4> HIDE DEF a, p
      <4>1. a \in Field /\ p \in Field
        BY <2>1, <2>7 DEF a, p
      <4>2. mul(p, 0) = 0 /\ mul(a, 0) = 0 /\ xor(lead, 0) = lead
        BY <3>4, <4>1, MulZero, FieldLaws
      <4> QED
        BY <4>2
    <3>6. Delta(z, n, I, Values(c, z, n)) = lead
      BY <2>3, <2>5, <2>7, <3>2, <3>3, <3>5
    <3> QED
      BY <3>6 DEF lead
  <2> QED
    BY <2>8, <2>9
<1>3. \A r \in Nat : r \in T
  <2> HIDE DEF T
  <2> QED
    BY <1>1, <1>2, InductiveSet
<1> QED
  BY <1>3

-----------------------------------------------------------------------------
(* Combine's interpolation at 0.                                           *)

\* The indexes of the shares are the nodes, and none of them is 0.
Indexed(shares, z, n) ==
  /\ DOMAIN shares = 1..n /\ n # 0
  /\ \A i \in 1..n : shares[i].index = z[i] /\ z[i] # 0

\* The factor of a share, by the nodes (shamir.go:252-263).
LEMMA BasisIs ==
  ASSUME NEW n \in Nat, NEW z, Nodes(z, n), NEW shares, Indexed(shares, z, n), NEW i \in 1..n
  PROVE  Basis(shares, i)
           = mul(mul(Whole(z, n, 1..n), inverse(z[i])), Weight(z, n, 1..n, i))
<1> DEFINE N == 1..n
           p == z[i]
           v == inverse(p)
           P == Whole(z, n, N)
           num == Whole(z, n, N \ {i})
<1>1. \A j \in 1..n : z[j] # 0 /\ shares[j].index = z[j]
  BY DEF Indexed
<1>2. DOMAIN shares = 1..n
  BY DEF Indexed
<1>3. Numerator(shares, i) = num
  <2>1. [j \in DOMAIN shares |-> IF j = i THEN 1 ELSE shares[j].index]
          = [j \in 1..n |-> IF j \in N \ {i} THEN z[j] ELSE 1]
    BY <1>1, <1>2
  <2> QED
    BY <2>1 DEF Numerator, Whole
<1>4. Denominator(shares, i) = Gap(z, n, N, i)
  <2>1. [j \in DOMAIN shares |-> IF j = i THEN 1 ELSE xor(shares[i].index, shares[j].index)]
          = [j \in 1..n |-> IF j \in N \ {i} THEN xor(z[i], z[j]) ELSE 1]
    BY <1>1, <1>2
  <2> QED
    BY <2>1 DEF Denominator, Gap
<1>5. p \in Field \ {0}
  BY <1>1 DEF Nodes
<1>6. N \in SUBSET (1..n) /\ N \ {i} \in SUBSET (1..n) /\ i \in N
  OBVIOUS
<1>7. P \in Field /\ num \in Field /\ P = mul(p, num)
  BY <1>1, <1>6, WholeOut
<1> HIDE DEF N, p, P, num
<1>8. v \in Field /\ mul(v, p) = 1
  BY <1>5, InverseTells
<1> HIDE DEF v
<1>9. mul(P, v) = num
  <2>1. mul(P, v) = mul(v, mul(p, num))
    BY <1>7, <1>8, Closed
  <2>2. mul(v, mul(p, num)) = mul(mul(v, p), num)
    BY <1>5, <1>7, <1>8, MulMoves
  <2>3. mul(1, num) = num
    BY <1>7, Closed
  <2> QED
    BY <1>8, <2>1, <2>2, <2>3
<1> QED
  BY <1>3, <1>4, <1>9 DEF Basis, Weight, N, p, v, P

\* The algebra of one term of the sum.
LEMMA TermIs ==
  ASSUME NEW P \in Field, NEW e \in Field, NEW p \in Field \ {0}, NEW a \in Field, NEW w \in Field
  PROVE  mul(xor(mul(e, p), a), mul(mul(P, inverse(p)), w))
           = mul(P, mul(xor(e, mul(a, inverse(p))), w))
<1> DEFINE v == inverse(p)
           ep == mul(e, p)
           s == xor(ep, a)
<1>1. v \in Field /\ mul(p, v) = 1
  BY FieldLaws
<1> HIDE DEF v
<1>2. ep \in Field /\ s \in Field /\ mul(e, 1) = e /\ mul(P, v) \in Field /\ mul(v, w) \in Field
  <2>1. ep \in Field
    BY Closed
  <2> QED
    BY <1>1, <2>1, Closed
<1>3. mul(s, v) = xor(e, mul(a, v))
  <2>1. mul(ep, v) = mul(e, mul(p, v))
    BY <1>1, MulMoves
  <2> HIDE DEF ep
  <2>2. mul(xor(ep, a), v) = xor(mul(ep, v), mul(a, v))
    BY <1>1, <1>2, MulMoves
  <2> QED
    BY <1>1, <1>2, <2>1, <2>2
<1> HIDE DEF s
<1>4. mul(s, mul(mul(P, v), w)) = mul(P, mul(mul(s, v), w))
  <2>1. mul(mul(P, v), w) = mul(P, mul(v, w))
    BY <1>1, MulMoves
  <2>2. mul(s, mul(P, mul(v, w))) = mul(P, mul(s, mul(v, w)))
    BY <1>2, MulMoves
  <2>3. mul(s, mul(v, w)) = mul(mul(s, v), w)
    BY <1>1, <1>2, MulMoves
  <2> QED
    BY <2>1, <2>2, <2>3
<1> QED
  BY <1>3, <1>4 DEF s, ep, v

\* What Combine makes of the values of a polynomial.
Interpolated(c, z, n, shares) == Sum([i \in 1..n |-> mul(Evaluate(c, z[i]), Basis(shares, i))])

\* The interpolation of Combine (shamir.go:251-274): at 0, the values of a polynomial
\* at n nodes give its constant term, as long as it has no more than n coefficients;
\* one more shows in the sum.
THEOREM InterpolatesAtZero ==
  ASSUME NEW n \in Nat, NEW z, Nodes(z, n), NEW shares, Indexed(shares, z, n),
         NEW r \in Nat, r <= n, NEW c \in [1..(r + 1) -> Field]
  PROVE  Interpolated(c, z, n, shares)
           = xor(mul(Whole(z, n, 1..n), IF r = n THEN c[r + 1] ELSE 0), c[1])
<1> DEFINE N == 1..n
           P == Whole(z, n, N)
           d == Lowered(c, r)
           a == c[1]
           y == Values(d, z, n)
           u == Inverses(z, n)
           h == [i \in 1..n |-> xor(y[i], mul(a, u[i]))]
           lead == IF r = n THEN c[r + 1] ELSE 0
<1>1. N \in SUBSET (1..n) /\ N # {} /\ \A i \in 1..n : z[i] # 0
  <2>1. \A i \in 1..n : z[i] # 0
    BY DEF Indexed
  <2>2. n # 0
    BY DEF Indexed
  <2>3. 1 \in 1..n
    BY <2>2
  <2> QED
    BY <2>1, <2>3
<1>2. P \in Field \ {0}
  BY <1>1, WholeOut
<1>3. d \in [1..r -> Field] /\ a \in Field
  BY FieldLaws DEF Lowered
<1>4. \A i \in 1..n : z[i] \in Field \ {0}
  BY <1>1 DEF Nodes
<1>5. y \in [1..n -> Field] /\ u \in [1..n -> Field]
  <2>1. \A i \in 1..n : inverse(z[i]) \in Field
    BY <1>4, InverseTells
  <2>2. y \in [1..n -> Field]
    <3> HIDE DEF d
    <3> QED
      BY <1>3, ValuesIn
  <2> QED
    BY <2>1, <2>2 DEF Inverses
<1>6. \A i \in 1..n : mul(Evaluate(c, z[i]), Basis(shares, i)) = mul(P, Weighted(z, n, N, h)[i])
  <2> TAKE i \in 1..n
  <2> DEFINE p == z[i]
             e == Evaluate(d, p)
             w == Weight(z, n, N, i)
  <2>1. p \in Field \ {0} /\ w \in Field
    BY <1>1, <1>4, GapNonZero
  <2>2. Weighted(z, n, N, h)[i] = mul(xor(e, mul(a, inverse(p))), w)
    BY DEF Weighted, Values, Inverses
  <2>3. Basis(shares, i) = mul(mul(P, inverse(p)), w)
    BY BasisIs
  <2>4. Evaluate(c, p) = xor(mul(e, p), a)
    <3>1. p \in Field
      BY <2>1
    <3> HIDE DEF p
    <3> QED
      BY <3>1, EvaluateLowered
  <2>5. e \in Field
    <3> HIDE DEF d, p
    <3> QED
      BY <1>3, <2>1, EvaluateIn
  <2> HIDE DEF p, e, w, a, P
  <2>6. mul(xor(mul(e, p), a), mul(mul(P, inverse(p)), w)) = mul(P, mul(xor(e, mul(a, inverse(p))), w))
    BY <1>2, <1>3, <2>1, <2>5, TermIs
  <2> HIDE DEF h
  <2> QED
    BY <2>2, <2>3, <2>4, <2>6 DEF p
<1> HIDE DEF N, P, a, y, u
<1>7. h \in [1..n -> Field]
  <2>1. \A i \in 1..n : y[i] \in Field /\ u[i] \in Field
    BY <1>5
  <2>2. \A i \in 1..n : mul(a, u[i]) \in Field
    BY <1>3, <2>1, Closed
  <2>3. \A i \in 1..n : xor(y[i], mul(a, u[i])) \in Field
    BY <2>1, <2>2, Closed
  <2> QED
    BY <2>3
<1>8. Delta(z, n, N, h) = xor(Delta(z, n, N, y), mul(a, Delta(z, n, N, u)))
  BY <1>1, <1>3, <1>5, DeltaLinear
<1> HIDE DEF h
<1>9. Sum([i \in 1..n |-> mul(Evaluate(c, z[i]), Basis(shares, i))]) = mul(P, Delta(z, n, N, h))
  <2> DEFINE f == Weighted(z, n, N, h)
  <2>1. f \in [1..n -> Field] /\ Delta(z, n, N, h) = Sum(f)
    BY <1>1, <1>7, WeightedIn
  <2>2. [i \in 1..n |-> mul(Evaluate(c, z[i]), Basis(shares, i))] = [i \in 1..n |-> mul(P, f[i])]
    BY <1>6
  <2> HIDE DEF f
  <2>3. Sum([i \in 1..n |-> mul(P, f[i])]) = mul(P, Sum(f))
    BY <1>2, <2>1, SumScales
  <2> QED
    BY <2>1, <2>2, <2>3
<1>10. Delta(z, n, N, u) = inverse(P)
  BY <1>1, DeltaOfInverses DEF u, P
<1>11. Delta(z, n, N, y) = lead
  <2>1. Cardinality(N) = n
    BY FS_Interval DEF N
  <2> HIDE DEF d
  <2>2. Delta(z, n, N, Values(d, z, n)) = IF r = Cardinality(N) THEN d[r] ELSE 0
    BY <1>1, <1>3, <2>1, DeltaOfPolynomial
  <2>3. r = n => d[r] = c[r + 1]
    BY <1>1 DEF d, Lowered, N
  <2> QED
    BY <2>1, <2>2, <2>3 DEF y
<1>12. lead \in Field
  BY FieldLaws
<1> HIDE DEF lead
<1>13. mul(P, xor(lead, mul(a, inverse(P)))) = xor(mul(P, lead), a)
  <2> DEFINE q == inverse(P)
             t == mul(a, q)
  <2>1. q \in Field /\ mul(P, q) = 1 /\ P \in Field
    BY <1>2, FieldLaws
  <2> HIDE DEF q
  <2>2. t \in Field /\ mul(P, t) = mul(a, mul(P, q)) /\ mul(a, 1) = a
    BY <1>3, <2>1, Closed, MulMoves
  <2> HIDE DEF t
  <2>3. mul(P, xor(lead, t)) = xor(mul(P, lead), mul(P, t))
    BY <1>12, <2>1, <2>2, MulMoves
  <2> QED
    BY <2>1, <2>2, <2>3 DEF t, q
<1> QED
  BY <1>8, <1>9, <1>10, <1>11, <1>13 DEF N, P, a, lead, Interpolated

-----------------------------------------------------------------------------
(* One share fewer than the threshold.                                     *)

\* A polynomial of degree m that is 0 at the nodes of I, and at 0 their product.
Vanishes(q, z, n, I, m) ==
  q \in [1..(m + 1) -> Field] /\ q[1] = Whole(z, n, I) /\ \A i \in I : Evaluate(q, z[i]) = 0

\* A polynomial that is 0 at the nodes and not at 0 (the algebra of a step).
LEMMA VanishesStep ==
  ASSUME NEW n \in Nat, NEW z, Nodes(z, n), \A i \in 1..n : z[i] # 0,
         NEW I \in SUBSET (1..n), NEW k \in I, NEW m \in Nat,
         NEW q, Vanishes(q, z, n, I \ {k}, m)
  PROVE  \E r : Vanishes(r, z, n, I, m + 1)
<1> DEFINE a == z[k]
           up == Raised(q, m + 1)
           pad == PaddedTo(q, m + 1)
           r == Combination((m + 1) + 1, up, a, pad)
<1>1. q \in [1..(m + 1) -> Field] /\ m + 1 \in Nat /\ (m + 1) + 1 \in Nat
  BY DEF Vanishes
<1>2. \A i \in I : z[i] \in Field
  BY DEF Nodes
<1>3. a \in Field /\ q[1] \in Field /\ mul(a, q[1]) \in Field
  <2> DEFINE b == q[1]
  <2>1. a \in Field /\ b \in Field
    BY <1>1, <1>2
  <2> HIDE DEF a, b
  <2>2. mul(a, b) \in Field
    BY <2>1, Closed
  <2> QED
    BY <2>1, <2>2 DEF b
<1>4. up \in [1..((m + 1) + 1) -> Field] /\ pad \in [1..((m + 1) + 1) -> Field]
      /\ \A x \in Field : Evaluate(up, x) = mul(Evaluate(q, x), x) /\ Evaluate(pad, x) = Evaluate(q, x)
  <2>1. 0 \in Field
    BY FieldLaws
  <2> QED
    BY <1>1, <2>1, EvaluateRaised, EvaluatePadded
<1>5. r[1] = mul(a, q[1])
  <2>1. up[1] = 0 /\ pad[1] = q[1] /\ r[1] = xor(up[1], mul(a, pad[1]))
    BY DEF Raised, PaddedTo, Combination
  <2> HIDE DEF up, pad, r, a
  <2> QED
    BY <1>3, <2>1, Closed
<1>6. Whole(z, n, I) = mul(a, Whole(z, n, I \ {k})) /\ q[1] = Whole(z, n, I \ {k})
  <2>1. Whole(z, n, I) = mul(z[k], Whole(z, n, I \ {k}))
    BY WholeOut
  <2> QED
    BY <2>1 DEF Vanishes
<1> HIDE DEF up, pad, a
<1>7. r \in [1..((m + 1) + 1) -> Field]
      /\ \A x \in Field : Evaluate(r, x) = xor(Evaluate(up, x), mul(a, Evaluate(pad, x)))
  <2>1. PICK M \in Nat : M = (m + 1) + 1
    BY <1>1
  <2>2. up \in [1..M -> Field] /\ pad \in [1..M -> Field]
    BY <1>4, <2>1
  <2>3. ASSUME NEW x \in Field
        PROVE  /\ Combination(M, up, a, pad) \in [1..M -> Field]
               /\ Evaluate(Combination(M, up, a, pad), x)
                    = xor(Evaluate(up, x), mul(a, Evaluate(pad, x)))
    BY <1>3, <2>2, EvaluateLinear
  <2>4. a \in Field
    BY <1>3
  <2> QED
    BY <2>1, <2>3, <2>4
<1> HIDE DEF r
<1>8. ASSUME NEW i \in I PROVE Evaluate(r, z[i]) = 0
  <2> DEFINE x == z[i]
             e == Evaluate(q, x)
  <2>1. x \in Field
    BY <1>2
  <2> HIDE DEF x
  <2>2. e \in Field
    BY <1>1, <2>1, EvaluateIn
  <2>3. Evaluate(r, x) = xor(mul(e, x), mul(a, e))
    BY <1>4, <1>7, <2>1
  <2>4. i # k => e = 0
    BY DEF Vanishes, x
  <2>5. i = k => x = a
    BY DEF x, a
  <2> HIDE DEF e
  <2>6. e = 0 => xor(mul(e, x), mul(a, e)) = 0
    <3>1. mul(0, x) = 0 /\ mul(a, 0) = 0 /\ xor(0, 0) = 0
      BY <1>3, <2>1, MulZero, FieldLaws
    <3> QED
      BY <3>1
  <2>7. x = a => xor(mul(e, x), mul(a, e)) = 0
    <3>1. mul(e, a) = mul(a, e) /\ mul(a, e) \in Field
      BY <1>3, <2>2, Closed
    <3>2. xor(mul(a, e), mul(a, e)) = 0
      BY <3>1, XorTells
    <3> QED
      BY <3>1, <3>2
  <2> QED
    BY <2>3, <2>4, <2>5, <2>6, <2>7 DEF x
<1> QED
  BY <1>5, <1>6, <1>7, <1>8 DEF Vanishes

\* So there is one for every set of nodes.
LEMMA Vanishing ==
  ASSUME NEW n \in Nat, NEW z, Nodes(z, n), \A i \in 1..n : z[i] # 0
  PROVE  \E q : Vanishes(q, z, n, 1..n, n)
<1> DEFINE T == {m \in Nat : \A I \in SUBSET (1..n) :
                   Cardinality(I) = m => \E q : Vanishes(q, z, n, I, m)}
<1>1. 0 \in T
  <2> DEFINE q == [i \in 1..(0 + 1) |-> 1]
  <2>1. q \in [1..(0 + 1) -> Field] /\ q[1] = 1
    BY FieldLaws
  <2>2. Whole(z, n, {}) = 1
    BY WholeOut
  <2>3. Vanishes(q, z, n, {}, 0)
    <3> HIDE DEF q
    <3> QED
      BY <2>1, <2>2 DEF Vanishes
  <2>4. \A I \in SUBSET (1..n) : Cardinality(I) = 0 => I = {}
    BY NodeSets
  <2> QED
    BY <2>3, <2>4
<1>2. ASSUME NEW m \in Nat, m \in T PROVE m + 1 \in T
  <2> SUFFICES ASSUME NEW I \in SUBSET (1..n), Cardinality(I) = m + 1
               PROVE  \E q : Vanishes(q, z, n, I, m + 1)
    OBVIOUS
  <2>1. PICK k \in I : TRUE
    BY NodeSets
  <2>2. I \ {k} \in SUBSET (1..n) /\ Cardinality(I \ {k}) = m
    BY NodeSets
  <2>3. PICK q : Vanishes(q, z, n, I \ {k}, m)
    BY <1>2, <2>2
  <2> QED
    BY <2>3, VanishesStep
<1>3. n \in T
  <2> HIDE DEF T
  <2> QED
    BY <1>1, <1>2, InductiveSet
<1>4. Cardinality(1..n) = n /\ 1..n \in SUBSET (1..n)
  BY FS_Interval
<1> QED
  BY <1>3, <1>4

\* The polynomial a byte of the secret is shared by (shamir.go:162-171).
LEMMA Prefixed ==
  ASSUME NEW n \in Nat, NEW c \in [1..n -> Field], NEW v \in Field
  PROVE  /\ <<v>> \o c \in [1..(n + 1) -> Field] /\ (<<v>> \o c)[1] = v
         /\ \A i \in 1..n : (<<v>> \o c)[i + 1] = c[i]
<1> DEFINE p == <<v>> \o c
<1>1. c \in Seq(Field) /\ Len(c) = n /\ <<v>> \in Seq(Field) /\ Len(<<v>>) = 1 /\ <<v>>[1] = v
  OBVIOUS
<1>2. p \in Seq(Field) /\ Len(p) = n + 1
  BY <1>1
<1>3. p[1] = v
  BY <1>1
<1>4. ASSUME NEW i \in 1..n PROVE p[i + 1] = c[i]
  <2>1. i + 1 \in 1..(1 + n) /\ i + 1 > 1 /\ (i + 1) - 1 = i
    OBVIOUS
  <2> QED
    BY <1>1, <2>1
<1> HIDE DEF p
<1>5. p \in [1..(n + 1) -> Field]
  BY <1>2
<1> QED
  BY <1>3, <1>4, <1>5 DEF p

\* What the shares of some custodians leave possible: every value that some
\* polynomial with a leading coefficient other than 0 has at 0.
Possible(c, z, n) ==
  {v \in Field : \E d \in [1..n -> Field] :
     d[n] # 0 /\ \A i \in 1..n : Evaluate(<<v>> \o d, z[i]) = Evaluate(c, z[i])}

\* With one share fewer than the coefficients, it is all but what interpolation
\* makes of them, which is not the secret.
LEMMA OneExcluded ==
  ASSUME NEW n \in Nat, NEW z, Nodes(z, n), NEW shares, Indexed(shares, z, n),
         NEW c \in [1..(n + 1) -> Field], c[n + 1] # 0, NEW w,
         w = Interpolated(c, z, n, shares)
  PROVE  w \in Field /\ w # c[1] /\ Possible(c, z, n) = Field \ {w}
<1> DEFINE P == Whole(z, n, 1..n)
<1>1. \A i \in 1..n : z[i] \in Field /\ z[i] # 0
  BY DEF Nodes, Indexed
<1>2. P \in Field \ {0}
  BY <1>1, WholeOut
<1>3. \A f \in [1..(n + 1) -> Field] :
        Interpolated(f, z, n, shares) = xor(mul(P, f[n + 1]), f[1])
  BY InterpolatesAtZero
<1> HIDE DEF P
<1>4. \A u, v \in Field : xor(mul(P, u), v) \in Field /\ (xor(mul(P, u), v) = v <=> u = 0)
  <2> TAKE u, v \in Field
  <2> DEFINE pu == mul(P, u)
  <2>1. pu \in Field /\ (pu = 0 <=> u = 0)
    <3>1. u # 0 => pu # 0
      BY <1>2, MulNonZero
    <3>2. u = 0 => pu = 0
      BY <1>2, MulZero
    <3> QED
      BY <1>2, <3>1, <3>2, Closed
  <2> HIDE DEF pu
  <2>2. xor(pu, v) \in Field /\ xor(v, pu) = xor(pu, v) /\ xor(v, 0) = v
    BY <2>1, Closed, FieldLaws
  <2>3. pu = 0 => xor(pu, v) = v
    BY <2>2, Closed
  <2>4. xor(pu, v) = v => pu = 0
    <3>1. 0 \in Field
      BY FieldLaws
    <3> QED
      BY <2>1, <2>2, <3>1, XorCancels
  <2> QED
    BY <2>1, <2>2, <2>3, <2>4 DEF pu
<1>5. c[1] \in Field /\ c[n + 1] \in Field
  OBVIOUS
<1>6. w = xor(mul(P, c[n + 1]), c[1])
  BY <1>3
<1>7. w \in Field /\ w # c[1]
  BY <1>4, <1>5, <1>6
<1>8. \A f \in [1..(n + 1) -> Field] :
        (\A i \in 1..n : Evaluate(f, z[i]) = Evaluate(c, z[i])) =>
          w = xor(mul(P, f[n + 1]), f[1]) /\ f[1] \in Field /\ f[n + 1] \in Field
  <2> TAKE f \in [1..(n + 1) -> Field]
  <2> HAVE \A i \in 1..n : Evaluate(f, z[i]) = Evaluate(c, z[i])
  <2>1. [i \in 1..n |-> mul(Evaluate(f, z[i]), Basis(shares, i))]
          = [i \in 1..n |-> mul(Evaluate(c, z[i]), Basis(shares, i))]
    OBVIOUS
  <2>2. Interpolated(f, z, n, shares) = Interpolated(c, z, n, shares)
    BY <2>1 DEF Interpolated
  <2>3. w = xor(mul(P, f[n + 1]), f[1])
    BY <1>3, <2>2
  <2> QED
    BY <2>3
<1>9. ASSUME NEW v \in Possible(c, z, n) PROVE v \in Field \ {w}
  <2>1. v \in Field
    BY DEF Possible
  <2>2. PICK d \in [1..n -> Field] :
          d[n] # 0 /\ \A i \in 1..n : Evaluate(<<v>> \o d, z[i]) = Evaluate(c, z[i])
    BY DEF Possible
  <2> DEFINE f == <<v>> \o d
  <2>3. f \in [1..(n + 1) -> Field] /\ f[1] = v /\ f[n + 1] = d[n]
    <3>1. n \in 1..n
      BY DEF Indexed
    <3> QED
      BY <2>1, <3>1, Prefixed
  <2> HIDE DEF f
  <2>4. w = xor(mul(P, d[n]), v) /\ d[n] \in Field
    BY <1>8, <2>2, <2>3 DEF f
  <2> QED
    BY <1>4, <2>1, <2>2, <2>4
<1>10. ASSUME NEW v \in Field, v # w PROVE v \in Possible(c, z, n)
  <2>1. PICK q : Vanishes(q, z, n, 1..n, n)
    BY <1>1, Vanishing
  <2>2. q \in [1..(n + 1) -> Field] /\ q[1] = P /\ \A i \in 1..n : Evaluate(q, z[i]) = 0
    BY <2>1 DEF Vanishes, P
  <2> DEFINE s == c[1]
             a == mul(xor(v, s), inverse(P))
             f == Combination(n + 1, c, a, q)
  <2>3. s \in Field /\ f[1] = xor(s, mul(a, P))
    BY <2>2 DEF Combination
  <2>4. a \in Field /\ xor(s, mul(a, P)) = v
    <3> HIDE DEF s
    <3> DEFINE u == xor(v, s)
               p == inverse(P)
    <3>1. u \in Field /\ p \in Field /\ mul(p, P) = 1 /\ xor(s, u) = v
      <4>1. u \in Field /\ xor(s, v) = u
        BY <2>3, Closed
      <4>2. xor(s, xor(s, v)) = xor(xor(s, s), v) /\ xor(s, s) = 0 /\ xor(0, v) = v
        BY <2>3, FieldLaws
      <4> QED
        BY <1>2, <4>1, <4>2, InverseTells
    <3> HIDE DEF u, p
    <3>2. mul(mul(u, p), P) = mul(u, mul(p, P)) /\ mul(u, 1) = u /\ mul(u, p) \in Field
      BY <1>2, <3>1, MulMoves, Closed
    <3> QED
      BY <3>1, <3>2 DEF u, p
  <2> HIDE DEF a
  <2>5. f \in [1..(n + 1) -> Field]
        /\ \A x \in Field : Evaluate(f, x) = xor(Evaluate(c, x), mul(a, Evaluate(q, x)))
    <3>1. PICK M \in Nat : M = n + 1
      OBVIOUS
    <3>2. c \in [1..M -> Field] /\ q \in [1..M -> Field]
      BY <2>2, <3>1
    <3>3. ASSUME NEW x \in Field
          PROVE  /\ Combination(M, c, a, q) \in [1..M -> Field]
                 /\ Evaluate(Combination(M, c, a, q), x)
                      = xor(Evaluate(c, x), mul(a, Evaluate(q, x)))
      BY <2>4, <3>2, EvaluateLinear
    <3>4. a \in Field
      BY <2>4
    <3> QED
      BY <3>1, <3>3, <3>4
  <2> HIDE DEF f, s
  <2>6. f[1] = v
    BY <2>3, <2>4
  <2>7. \A i \in 1..n : Evaluate(f, z[i]) = Evaluate(c, z[i])
    <3> TAKE i \in 1..n
    <3> DEFINE x == z[i]
               e == Evaluate(c, x)
    <3>1. x \in Field /\ Evaluate(q, x) = 0
      BY <1>1, <2>2
    <3> HIDE DEF x
    <3>2. e \in Field
      <4>1. n + 1 \in Nat
        OBVIOUS
      <4> QED
        BY <3>1, <4>1, EvaluateIn
    <3>3. Evaluate(f, x) = xor(e, mul(a, 0))
      BY <2>5, <3>1
    <3> HIDE DEF e
    <3>4. mul(a, 0) = 0 /\ xor(e, 0) = e
      BY <2>4, <3>2, MulZero, FieldLaws
    <3> QED
      BY <3>3, <3>4 DEF e, x
  <2>8. w = xor(mul(P, f[n + 1]), v) /\ f[n + 1] \in Field
    BY <1>8, <2>5, <2>6, <2>7
  <2>9. f[n + 1] # 0
    BY <1>4, <1>10, <2>8
  <2> DEFINE d == [i \in 1..n |-> f[i + 1]]
  <2>10. d \in [1..n -> Field] /\ d[n] = f[n + 1] /\ \A i \in 1..n : d[i] = f[i + 1]
    <3>1. n \in 1..n
      BY DEF Indexed
    <3> QED
      BY <2>5, <3>1
  <2>11. <<v>> \o d = f
    <3> HIDE DEF f, d
    <3>1. <<v>> \o d \in [1..(n + 1) -> Field] /\ (<<v>> \o d)[1] = v
      BY <2>10, Prefixed
    <3>2. ASSUME NEW i \in 1..(n + 1) PROVE (<<v>> \o d)[i] = f[i]
      <4>1. CASE i = 1
        BY <2>6, <3>1, <4>1
      <4>2. CASE i # 1
        <5>1. i - 1 \in 1..n /\ (i - 1) + 1 = i
          BY <4>2
        <5>2. (<<v>> \o d)[(i - 1) + 1] = d[i - 1]
          BY <2>10, <5>1, Prefixed
        <5>3. d[i - 1] = f[i]
          BY <2>10, <5>1
        <5> QED
          BY <5>1, <5>2, <5>3
      <4> QED
        BY <4>1, <4>2
    <3> QED
      BY <2>5, <3>1, <3>2
  <2> HIDE DEF d
  <2> QED
    BY <2>7, <2>9, <2>10, <2>11 DEF Possible
<1>11. Possible(c, z, n) \subseteq Field
  BY DEF Possible
<1> QED
  BY <1>7, <1>9, <1>10, <1>11

-----------------------------------------------------------------------------
(* The kits.                                                               *)

\* A kit is a split of its secret, under a set id that is its place, into
\* shares whose leading coefficients are not 0.
KitIs(kit, k, t, total, c) ==
  /\ kit.secret \in Seq(Field) /\ kit.shares = Split(k, kit.secret, t, total, c)
  /\ k \in Nat /\ t \in Nat /\ total \in Nat /\ SplitOK(kit.secret, t, total)
  /\ c \in [DOMAIN kit.secret -> Drawn(Field, t)]

\* What a share and a kit are made of.
Shares == [threshold : Nat, set : Nat, index : Nat, value : Seq(Field)]
Kit == [secret : Seq(Field), shares : Seq(Shares)]

\* As many splits as there are, and nothing given to a restore before it ran.
CustodyInv ==
  /\ kits \in Seq(Kit)
  /\ \A k \in DOMAIN kits : \E t, total, c : KitIs(kits[k], k, t, total, c)
  /\ outcome = NotYet => given = <<>>

\* The j-th share of a split.
LEMMA ShareIs ==
  ASSUME NEW kit, NEW k, NEW t, NEW total, NEW c, KitIs(kit, k, t, total, c)
  PROVE  /\ DOMAIN kit.shares = 1..total /\ total \in Nat /\ t \in Nat
         /\ 2 <= t /\ t <= total /\ total <= MaxThreshold /\ MaxThreshold \in Nat
         /\ Len(kit.secret) \in 1..MaxSecret /\ MaxSecret \in Nat
         /\ kit.secret \in [1..Len(kit.secret) -> Field]
         /\ \A j \in 1..total :
              /\ kit.shares[j].threshold = t /\ kit.shares[j].set = k /\ kit.shares[j].index = j
              /\ j \in Field /\ j # 0
              /\ DOMAIN kit.shares[j].value = 1..Len(kit.secret)
              /\ \A b \in 1..Len(kit.secret) :
                   kit.shares[j].value[b] = Evaluate(<<kit.secret[b]>> \o c[b], j)
<1>1. MaxThreshold \in Nat /\ MaxSecret \in Nat /\ 0..MaxThreshold \subseteq Field
  BY FieldLaws
<1>2. kit.secret \in Seq(Field) /\ kit.shares = Split(k, kit.secret, t, total, c)
      /\ t \in Nat /\ total \in Nat /\ SplitOK(kit.secret, t, total)
  BY DEF KitIs
<1>3. 2 <= t /\ t <= total /\ total <= MaxThreshold /\ Len(kit.secret) \in 1..MaxSecret
  BY <1>2 DEF SplitOK
<1>4. DOMAIN kit.secret = 1..Len(kit.secret) /\ kit.secret \in [1..Len(kit.secret) -> Field]
  BY <1>2
<1>5. DOMAIN kit.shares = 1..total
  BY <1>2 DEF Split
<1>6. ASSUME NEW j \in 1..total
      PROVE  /\ kit.shares[j].threshold = t /\ kit.shares[j].set = k /\ kit.shares[j].index = j
             /\ j \in Field /\ j # 0
             /\ DOMAIN kit.shares[j].value = 1..Len(kit.secret)
             /\ \A b \in 1..Len(kit.secret) :
                  kit.shares[j].value[b] = Evaluate(<<kit.secret[b]>> \o c[b], j)
  <2>1. kit.shares[j] = [threshold |-> t, set |-> k, index |-> j,
                         value |-> [b \in 1..Len(kit.secret) |->
                                      Evaluate(<<kit.secret[b]>> \o c[b], j)]]
    BY <1>2, <1>4 DEF Split
  <2>2. j \in 0..MaxThreshold /\ j # 0
    BY <1>1, <1>2, <1>3
  <2> QED
    BY <1>1, <2>1, <2>2
<1> QED
  BY <1>1, <1>2, <1>3, <1>4, <1>5, <1>6

\* A polynomial with a value at 0 and a leading coefficient other than 0.
Poly(p, m, v) == p \in [1..(m + 1) -> Field] /\ p[1] = v /\ p[m + 1] # 0

\* The polynomial behind a byte of the secret.
LEMMA PolynomialIs ==
  ASSUME NEW kit, NEW k, NEW t, NEW total, NEW c, KitIs(kit, k, t, total, c),
         NEW L \in Nat, L = Len(kit.secret), NEW b \in 1..L,
         NEW m \in Nat, m = t - 1
  PROVE  Poly(<<kit.secret[b]>> \o c[b], m, kit.secret[b])
<1> DEFINE v == kit.secret[b]
           d == c[b]
<1>1. t \in Nat /\ t >= 2 /\ v \in Field
  BY ShareIs, SMTT(30)
<1>2. d \in Drawn(Field, t)
  <2>1. c \in [DOMAIN kit.secret -> Drawn(Field, t)]
    BY DEF KitIs
  <2>2. b \in DOMAIN kit.secret
    BY ShareIs
  <2> QED
    BY <2>1, <2>2
<1> HIDE DEF v, d
<1>4. d \in [1..m -> Field] /\ d[m] # 0 /\ m >= 1
  BY <1>1, <1>2 DEF Drawn
<1>5. <<v>> \o d \in [1..(m + 1) -> Field] /\ (<<v>> \o d)[1] = v /\ (<<v>> \o d)[m + 1] = d[m]
  <2>1. m \in 1..m
    BY <1>4
  <2> QED
    BY <1>1, <1>4, <2>1, Prefixed
<1> QED
  BY <1>4, <1>5 DEF v, d, Poly

\* The shares are n of the kit, no two of them the same.
Picks(shares, kit, f, n, total) ==
  /\ n # 0 /\ f \in [1..n -> 1..total] /\ \A i, j \in 1..n : f[i] = f[j] => i = j
  /\ DOMAIN shares = 1..n /\ \A i \in 1..n : shares[i] = kit.shares[f[i]]

\* A byte of each of them is the value of that byte's polynomial.
Valued(shares, kit, c, f, n, b) ==
  \A i \in 1..n : shares[i].value[b] = Evaluate(<<kit.secret[b]>> \o c[b], f[i])

\* Shares of one split, no two of them the same: their indexes are nodes.
LEMMA SharesIndexed ==
  ASSUME NEW kit, NEW k, NEW t, NEW total \in Nat, NEW c, KitIs(kit, k, t, total, c),
         NEW n \in Nat, NEW f, NEW shares, Picks(shares, kit, f, n, total),
         NEW L \in Nat, L = Len(kit.secret)
  PROVE  /\ Nodes(f, n) /\ Indexed(shares, f, n)
         /\ \A b \in 1..L : Valued(shares, kit, c, f, n, b)
<1>1. \A i \in 1..n : f[i] \in 1..total
  BY DEF Picks
<1>2. \A j \in 1..total : j \in Field /\ j # 0 /\ kit.shares[j].index = j
        /\ \A b \in 1..L :
             kit.shares[j].value[b] = Evaluate(<<kit.secret[b]>> \o c[b], j)
  BY ShareIs
<1>3. Nodes(f, n)
  BY <1>1, <1>2 DEF Nodes, Picks
<1>4. Indexed(shares, f, n)
  BY <1>1, <1>2 DEF Indexed, Picks
<1> QED
  BY <1>1, <1>2, <1>3, <1>4 DEF Picks, Valued

\* What Combine makes of shares, byte by byte.
LEMMA InterpolateIs ==
  ASSUME NEW shares, NEW n \in Nat, DOMAIN shares = 1..n, NEW b \in DOMAIN shares[1].value
  PROVE  Interpolate(shares)[b] = Sum([i \in 1..n |-> mul(shares[i].value[b], Basis(shares, i))])
BY DEF Interpolate

\* A share's value, as long as the secret.
LEMMA ValueIs ==
  ASSUME NEW kit, NEW k, NEW t, NEW total, NEW c, KitIs(kit, k, t, total, c), NEW j \in 1..total
  PROVE  /\ kit.shares[j].value \in [1..Len(kit.secret) -> Field]
         /\ Len(kit.shares[j].value) = Len(kit.secret)
<1> DEFINE L == Len(kit.secret)
<1>1. L \in Nat /\ j \in Field
  BY ShareIs
<1>2. kit.shares[j].value = [b \in 1..L |-> Evaluate(<<kit.secret[b]>> \o c[b], j)]
  <2>1. kit.shares = Split(k, kit.secret, t, total, c) /\ DOMAIN kit.secret = 1..L
    BY DEF KitIs
  <2>2. kit.shares[j] = [threshold |-> t, set |-> k, index |-> j,
                         value |-> [b \in 1..L |-> Evaluate(<<kit.secret[b]>> \o c[b], j)]]
    BY <2>1, ShareIs DEF Split
  <2> QED
    BY <2>2
<1>3. ASSUME NEW b \in 1..L PROVE Evaluate(<<kit.secret[b]>> \o c[b], j) \in Field
  <2>1. t \in Nat /\ t >= 2
    BY ShareIs
  <2>2. PICK m \in Nat : m = t - 1
    BY <2>1
  <2> DEFINE p == <<kit.secret[b]>> \o c[b]
  <2>3. Poly(p, m, kit.secret[b])
    BY <1>1, <2>2, PolynomialIs
  <2> HIDE DEF p
  <2>4. p \in [1..(m + 1) -> Field] /\ m + 1 \in Nat
    BY <2>3 DEF Poly
  <2> QED
    BY <1>1, <2>4, EvaluateIn DEF p
<1> HIDE DEF L
<1>4. kit.shares[j].value \in [1..L -> Field]
  BY <1>2, <1>3
<1>5. Len(kit.shares[j].value) = L
  BY <1>1, <1>4
<1> QED
  BY <1>4, <1>5 DEF L

-----------------------------------------------------------------------------
(* Fewer shares than the threshold.                                        *)

\* What a kit with its coefficients drawn as they are promises.
LEMMA FewerExclude ==
  ASSUME CustodyInv
  PROVE  ThresholdNeeded
<1> SUFFICES ASSUME kits # <<>>
             PROVE  ThresholdNeeded
  BY DEF ThresholdNeeded
<1> DEFINE kit == kits[Len(kits)]
<1>1. Len(kits) \in DOMAIN kits
  BY DEF CustodyInv
<1>2. PICK t, total, c : KitIs(kit, Len(kits), t, total, c)
  BY <1>1 DEF CustodyInv
<1>3. kit.shares[1].threshold = t /\ DOMAIN kit.secret = 1..Len(kit.secret)
      /\ DOMAIN kit.shares = 1..total /\ t \in Nat /\ t >= 2 /\ total \in Nat
  <2> HIDE DEF kit
  <2>1. 2 <= t /\ t <= total /\ t \in Nat /\ total \in Nat
    BY <1>2, ShareIs
  <2>2. 1 \in 1..total
    BY <2>1
  <2> QED
    BY <1>2, <2>1, <2>2, ShareIs
<1> HIDE DEF kit
<1>4. ASSUME NEW few \in Fewer(kit.shares, t - 1), NEW b \in 1..Len(kit.secret)
      PROVE  /\ Interpolate(few)[b] # kit.secret[b]
             /\ {v \in Field : \E d \in Drawn(Field, t) :
                   \A i \in DOMAIN few : Evaluate(<<v>> \o d, few[i].index) = few[i].value[b]}
                  = Field \ {Interpolate(few)[b]}
  <2>0. PICK L \in Nat : L = Len(kit.secret)
    BY <1>2, ShareIs
  <2>1. PICK n \in Nat : n = t - 1
    BY <1>3
  <2>2. n # 0 /\ 1 \in 1..n
    BY <1>3, <2>1
  <2>3. PICK f \in [1..n -> 1..total] :
          few = [i \in 1..n |-> kit.shares[f[i]]] /\ \A i, j \in 1..n : f[i] = f[j] => i = j
    BY <1>3, <2>1 DEF Fewer
  <2> DEFINE p == <<kit.secret[b]>> \o c[b]
  <2>4. DOMAIN few = 1..n /\ \A i \in 1..n : few[i] = kit.shares[f[i]]
    BY <2>3
  <2>5. Nodes(f, n) /\ Indexed(few, f, n) /\ \A i \in 1..n : few[i].value[b] = Evaluate(p, f[i])
    <3>1. Picks(few, kit, f, n, total)
      BY <2>2, <2>3, <2>4 DEF Picks
    <3> HIDE DEF p
    <3>2. Nodes(f, n) /\ Indexed(few, f, n)
      BY <1>2, <1>3, <2>0, <3>1, SharesIndexed
    <3>3. \A e \in 1..L : Valued(few, kit, c, f, n, e)
      BY <1>2, <1>3, <2>0, <3>1, SharesIndexed
    <3> QED
      BY <2>0, <3>2, <3>3 DEF p, Valued
  <2>6. p \in [1..(n + 1) -> Field] /\ p[1] = kit.secret[b] /\ p[n + 1] # 0
    <3>1. Poly(p, n, kit.secret[b])
      BY <1>2, <2>0, <2>1, PolynomialIs
    <3> HIDE DEF p
    <3> QED
      BY <3>1 DEF Poly
  <2> HIDE DEF p
  <2> DEFINE w == Interpolate(few)[b]
  <2>7. w = Interpolated(p, f, n, few)
    <3>1. b \in DOMAIN few[1].value
      <4>1. f[1] \in 1..total /\ few[1] = kit.shares[f[1]]
        BY <2>2, <2>4
      <4>2. DOMAIN kit.shares[f[1]].value = 1..Len(kit.secret)
        BY <1>2, <4>1, ShareIs
      <4> QED
        BY <4>1, <4>2
    <3>2. w = Sum([i \in 1..n |-> mul(few[i].value[b], Basis(few, i))])
      BY <2>4, <3>1, InterpolateIs
    <3>3. [i \in 1..n |-> mul(few[i].value[b], Basis(few, i))]
            = [i \in 1..n |-> mul(Evaluate(p, f[i]), Basis(few, i))]
      BY <2>5
    <3> HIDE DEF w
    <3> QED
      BY <3>2, <3>3 DEF Interpolated
  <2> HIDE DEF w
  <2>8. w # p[1] /\ Possible(p, f, n) = Field \ {w}
    BY <2>5, <2>6, <2>7, OneExcluded
  <2>9. {v \in Field : \E d \in Drawn(Field, t) :
           \A i \in DOMAIN few : Evaluate(<<v>> \o d, few[i].index) = few[i].value[b]}
          = Possible(p, f, n)
    <3> DEFINE In(v, d) == \A i \in DOMAIN few : Evaluate(<<v>> \o d, few[i].index) = few[i].value[b]
               Out(v, d) == \A i \in 1..n : Evaluate(<<v>> \o d, f[i]) = Evaluate(p, f[i])
    <3>1. \A d : d \in Drawn(Field, t) <=> d \in [1..n -> Field] /\ d[n] # 0
      BY <2>1 DEF Drawn
    <3>2. \A i \in 1..n : few[i].index = f[i] /\ few[i].value[b] = Evaluate(p, f[i])
      BY <2>5 DEF Indexed
    <3>3. \A v, d : In(v, d) <=> Out(v, d)
      <4>1. DOMAIN few = 1..n
        BY <2>4
      <4> QED
        BY <3>2, <4>1
    <3>4. Possible(p, f, n) = {v \in Field : \E d \in [1..n -> Field] : d[n] # 0 /\ Out(v, d)}
      BY DEF Possible
    <3> HIDE DEF In, Out
    <3>5. {v \in Field : \E d \in Drawn(Field, t) : In(v, d)}
            = {v \in Field : \E d \in [1..n -> Field] : d[n] # 0 /\ Out(v, d)}
      BY <3>1, <3>3, Zenon
    <3> QED
      BY <3>4, <3>5 DEF In
  <2> QED
    BY <2>6, <2>8, <2>9 DEF w
<1> QED
  BY <1>3, <1>4 DEF ThresholdNeeded, kit

-----------------------------------------------------------------------------
(* Enough shares.                                                          *)

\* What the checks of Combine let through (shamir.go:203-241).
LEMMA CombineOK ==
  ASSUME NEW shares, NEW n \in Nat, DOMAIN shares = 1..n, Len(shares) = n
  PROVE  CombineError(shares) = "ok" <=>
           /\ n >= 2 /\ Len(shares[1].value) \in 1..MaxSecret
           /\ \A i \in 1..n : ScanError(shares, i) = "ok"
           /\ ~SetError(shares) /\ shares[1].threshold \in 2..MaxThreshold
           /\ ~(n < shares[1].threshold)
<1>1. ASSUME \E i \in 1..n : ScanError(shares, i) # "ok"
      PROVE  CombineError(shares) # "ok"
  <2> DEFINE Bad == {i \in 1..n : ScanError(shares, i) # "ok"}
             Is(i) == /\ ScanError(shares, i) # "ok"
                      /\ \A j \in 1..(i - 1) : ScanError(shares, j) = "ok"
             first == CHOOSE i \in DOMAIN shares : Is(i)
  <2>1. Bad \in SUBSET Nat /\ Bad # {}
    BY <1>1
  <2>2. PICK m \in Bad : \A i \in Bad : m <= i
    <3> HIDE DEF Bad
    <3> QED
      BY <2>1, LeastNatural
  <2>3. m \in DOMAIN shares /\ Is(m)
    <3>1. \A j \in 1..(m - 1) : j \in 1..n /\ ~(m <= j)
      OBVIOUS
    <3>2. \A j \in 1..(m - 1) : ScanError(shares, j) = "ok"
      BY <2>2, <3>1
    <3> QED
      BY <3>2
  <2>4. Is(first)
    <3> HIDE DEF Is
    <3> QED
      BY <2>3
  <2>5. ScanError(shares, first) # "ok"
    BY <2>4
  <2>6. \E i \in DOMAIN shares : ScanError(shares, i) # "ok"
    BY <1>1
  <2>7. CombineError(shares) =
          IF Len(shares) < 2 THEN "ErrNotEnoughShares"
          ELSE IF Len(shares[1].value) \notin 1..MaxSecret THEN "ErrShareLength"
          ELSE ScanError(shares, first)
    BY <2>6 DEF CombineError
  <2> HIDE DEF first
  <2> QED
    BY <2>5, <2>7
<1>2. ASSUME \A i \in 1..n : ScanError(shares, i) = "ok"
      PROVE  CombineError(shares) =
               IF Len(shares) < 2 THEN "ErrNotEnoughShares"
               ELSE IF Len(shares[1].value) \notin 1..MaxSecret THEN "ErrShareLength"
               ELSE IF SetError(shares) THEN "ErrShareSet"
               ELSE IF shares[1].threshold \notin 2..MaxThreshold THEN "ErrMalformedShare"
               ELSE IF Len(shares) < shares[1].threshold THEN "ErrNotEnoughShares"
               ELSE "ok"
  <2>1. ~ \E i \in DOMAIN shares : ScanError(shares, i) # "ok"
    BY <1>2
  <2> QED
    BY <2>1 DEF CombineError
<1>3. CASE \E i \in 1..n : ScanError(shares, i) # "ok"
  BY <1>1, <1>3
<1>4. CASE \A i \in 1..n : ScanError(shares, i) = "ok"
  <2>1. n < 2 <=> ~(n >= 2)
    OBVIOUS
  <2> QED
    BY <1>2, <1>4, <2>1
<1> QED
  BY <1>3, <1>4

\* The shares are of one split of a seed, no two of them the same, and at
\* least as many as its threshold.
WholeOf(shares, ks, k) ==
  /\ \A i \in DOMAIN shares : \E j \in DOMAIN ks[k].shares : shares[i] = ks[k].shares[j]
  /\ \A i, j \in DOMAIN shares : shares[i] = shares[j] => i = j
  /\ Len(shares) >= ks[k].shares[1].threshold
  /\ Len(ks[k].secret) = SeedBytes

\* Where the shares of such a set lie in the kit.
LEMMA WholePicks ==
  ASSUME NEW kit, NEW k, NEW t, NEW total \in Nat, NEW c, KitIs(kit, k, t, total, c),
         NEW shares, NEW n \in Nat, DOMAIN shares = 1..n, n # 0,
         \A i \in 1..n : \E j \in DOMAIN kit.shares : shares[i] = kit.shares[j],
         \A i, j \in 1..n : shares[i] = shares[j] => i = j
  PROVE  \E f : Picks(shares, kit, f, n, total)
<1> DEFINE f == [i \in 1..n |-> CHOOSE j \in 1..total : shares[i] = kit.shares[j]]
<1>1. \A i \in 1..n : \E j \in 1..total : shares[i] = kit.shares[j]
  BY ShareIs
<1>2. \A i \in 1..n : f[i] \in 1..total /\ shares[i] = kit.shares[f[i]]
  BY <1>1
<1>3. f \in [1..n -> 1..total]
  BY <1>2
<1> HIDE DEF f
<1>4. \A i, j \in 1..n : f[i] = f[j] => i = j
  <2> TAKE i, j \in 1..n
  <2> HAVE f[i] = f[j]
  <2>1. shares[i] = shares[j]
    BY <1>2
  <2> QED
    BY <2>1
<1> QED
  BY <1>2, <1>3, <1>4 DEF Picks

\* Such shares pass every check of Combine.
LEMMA PicksCombine ==
  ASSUME NEW kit, NEW k, NEW t \in Nat, NEW total \in Nat, NEW c, KitIs(kit, k, t, total, c),
         NEW shares, NEW n \in Nat, Len(shares) = n, NEW f, Picks(shares, kit, f, n, total),
         t <= n
  PROVE  CombineError(shares) = "ok"
<1>1. DOMAIN shares = 1..n /\ n >= 2 /\ MaxThreshold \in Nat /\ t >= 2 /\ t <= MaxThreshold
  BY ShareIs DEF Picks
<1>2. \A i \in 1..n : f[i] \in 1..total /\ shares[i] = kit.shares[f[i]]
  BY DEF Picks
<1>3. \A i \in 1..n : shares[i].index = f[i] /\ shares[i].index # 0
        /\ shares[i].threshold = t /\ shares[i].set = k
  <2>1. \A j \in 1..total : kit.shares[j].index = j /\ j # 0
          /\ kit.shares[j].threshold = t /\ kit.shares[j].set = k
    BY ShareIs
  <2> QED
    BY <1>2, <2>1
<1>4. \A i \in 1..n : Len(shares[i].value) = Len(kit.secret)
  <2> TAKE i \in 1..n
  <2>1. f[i] \in 1..total
    BY <1>2
  <2>2. Len(kit.shares[f[i]].value) = Len(kit.secret)
    BY <2>1, ValueIs
  <2> QED
    BY <1>2, <2>2
<1>5. 1 \in 1..n
  BY <1>1
<1>6. Len(shares[1].value) \in 1..MaxSecret
  BY <1>4, <1>5, ShareIs
<1>7. ASSUME NEW i \in 1..n PROVE ScanError(shares, i) = "ok"
  <2>1. \A j \in 1..(i - 1) : j \in 1..n /\ j # i
    OBVIOUS
  <2>2. \A j \in 1..(i - 1) : shares[j].index # shares[i].index
    <3> TAKE j \in 1..(i - 1)
    <3>1. j \in 1..n /\ j # i
      BY <2>1
    <3>2. f[j] # f[i]
      BY <3>1 DEF Picks
    <3> QED
      BY <1>3, <3>1, <3>2
  <2>3. Len(shares[i].value) = Len(shares[1].value)
    BY <1>4, <1>5
  <2> QED
    BY <1>3, <2>2, <2>3 DEF ScanError
<1>8. ~SetError(shares)
  BY <1>1, <1>3, <1>5 DEF SetError
<1>9. shares[1].threshold = t
  BY <1>3, <1>5
<1>10. shares[1].threshold \in 2..MaxThreshold /\ ~(n < shares[1].threshold)
  BY <1>1, <1>9
<1> QED
  BY <1>1, <1>6, <1>7, <1>8, <1>10, CombineOK

\* And what Combine makes of them is the secret.
LEMMA PicksRebuild ==
  ASSUME NEW kit, NEW k, NEW t \in Nat, NEW total \in Nat, NEW c, KitIs(kit, k, t, total, c),
         NEW shares, NEW n \in Nat, NEW f, Picks(shares, kit, f, n, total), t <= n
  PROVE  /\ Interpolate(shares) = kit.secret /\ Len(shares[1].value) = Len(kit.secret)
         /\ DOMAIN shares[1].value = 1..Len(kit.secret)
<1>0. PICK L \in Nat : L = Len(kit.secret)
  BY ShareIs
<1>1. DOMAIN shares = 1..n /\ 1 \in 1..n /\ kit.secret \in [1..L -> Field]
  <2>1. t >= 2
    BY ShareIs
  <2> QED
    BY <1>0, <2>1, ShareIs DEF Picks
<1>2. DOMAIN shares[1].value = 1..L /\ Len(shares[1].value) = L
  <2>1. f[1] \in 1..total /\ shares[1] = kit.shares[f[1]]
    BY <1>1 DEF Picks
  <2> DEFINE j == f[1]
  <2>2. j \in 1..total
    BY <2>1
  <2> HIDE DEF j
  <2>3. Len(kit.shares[j].value) = Len(kit.secret) /\ kit.shares[j].value \in [1..Len(kit.secret) -> Field]
    BY <2>2, ValueIs
  <2> QED
    BY <1>0, <2>1, <2>3 DEF j
<1>3. Nodes(f, n) /\ Indexed(shares, f, n)
  BY <1>0, SharesIndexed
<1>4. \A b \in 1..L : Valued(shares, kit, c, f, n, b)
  BY <1>0, SharesIndexed
<1>5. ASSUME NEW b \in 1..L PROVE Interpolate(shares)[b] = kit.secret[b]
  <2> DEFINE p == <<kit.secret[b]>> \o c[b]
  <2>1. t >= 2
    BY ShareIs
  <2>2. PICK r \in Nat : r = t - 1
    BY <2>1
  <2>3. p \in [1..(r + 1) -> Field] /\ p[1] = kit.secret[b]
    <3>1. Poly(p, r, kit.secret[b])
      BY <1>0, <2>2, PolynomialIs
    <3> HIDE DEF p
    <3> QED
      BY <3>1 DEF Poly
  <2>4. \A i \in 1..n : shares[i].value[b] = Evaluate(p, f[i])
    BY <1>4 DEF Valued
  <2> HIDE DEF p
  <2>5. Interpolate(shares)[b] = Sum([i \in 1..n |-> mul(shares[i].value[b], Basis(shares, i))])
    <3>1. b \in DOMAIN shares[1].value
      BY <1>2
    <3> QED
      BY <1>1, <3>1, InterpolateIs
  <2>6. Interpolate(shares)[b] = Interpolated(p, f, n, shares)
    <3>1. [i \in 1..n |-> mul(shares[i].value[b], Basis(shares, i))]
            = [i \in 1..n |-> mul(Evaluate(p, f[i]), Basis(shares, i))]
      BY <2>4
    <3> QED
      BY <2>5, <3>1 DEF Interpolated
  <2>7. r <= n /\ r # n
    BY <2>2
  <2> DEFINE P == Whole(f, n, 1..n)
  <2>8. Interpolated(p, f, n, shares) = xor(mul(P, IF r = n THEN p[r + 1] ELSE 0), p[1])
    BY <1>3, <2>3, <2>7, InterpolatesAtZero
  <2>9. P \in Field
    <3>1. \A i \in 1..n : f[i] # 0
      BY <1>3 DEF Indexed
    <3> QED
      BY <1>3, <3>1, WholeOut
  <2> HIDE DEF P
  <2>10. mul(P, 0) = 0 /\ p[1] \in Field
    BY <2>3, <2>9, MulZero
  <2>11. xor(0, p[1]) = p[1]
    BY <2>10, FieldLaws
  <2> QED
    BY <2>3, <2>6, <2>7, <2>8, <2>10, <2>11
<1>6. Interpolate(shares) = [b \in 1..L |-> Interpolate(shares)[b]]
  BY <1>2 DEF Interpolate
<1>7. kit.secret = [b \in 1..L |-> kit.secret[b]]
  BY <1>1
<1>8. Interpolate(shares) = kit.secret
  <2>1. [b \in 1..L |-> Interpolate(shares)[b]] = [b \in 1..L |-> kit.secret[b]]
    BY <1>5
  <2> QED
    BY <1>6, <1>7, <2>1
<1> QED
  BY <1>0, <1>2, <1>8

\* Enough shares of one split of a seed rebuild it.
LEMMA WholeRebuilds ==
  ASSUME CustodyInv, NEW k \in DOMAIN kits, NEW shares, NEW n \in Nat, DOMAIN shares = 1..n,
         Len(shares) = n, WholeOf(shares, kits, k)
  PROVE  /\ CombineError(shares) = "ok" /\ Len(shares[1].value) = SeedBytes
         /\ Interpolate(shares) = kits[k].secret
<1> DEFINE kit == kits[k]
<1>1. PICK t, total, c : KitIs(kit, k, t, total, c)
  BY DEF CustodyInv
<1> HIDE DEF kit
<1>2. t \in Nat /\ total \in Nat /\ t >= 2 /\ 1 \in 1..total
  <2>1. t \in Nat /\ total \in Nat /\ 2 <= t /\ t <= total
    BY <1>1, ShareIs
  <2> QED
    BY <2>1
<1>3. kit.shares[1].threshold = t
  BY <1>1, <1>2, ShareIs
<1>4. t <= n /\ n # 0 /\ Len(kit.secret) = SeedBytes
  BY <1>2, <1>3 DEF WholeOf, kit
<1>5. PICK f : Picks(shares, kit, f, n, total)
  <2>1. \A i \in 1..n : \E j \in DOMAIN kit.shares : shares[i] = kit.shares[j]
    BY DEF WholeOf, kit
  <2>2. \A i, j \in 1..n : shares[i] = shares[j] => i = j
    BY DEF WholeOf
  <2> QED
    BY <1>1, <1>2, <1>4, <2>1, <2>2, WholePicks
<1>6. CombineError(shares) = "ok"
  BY <1>1, <1>2, <1>4, <1>5, PicksCombine
<1>7. Interpolate(shares) = kit.secret /\ Len(shares[1].value) = Len(kit.secret)
  BY <1>1, <1>2, <1>4, <1>5, PicksRebuild
<1> QED
  BY <1>4, <1>6, <1>7 DEF kit

-----------------------------------------------------------------------------
(* The cards.                                                              *)

\* A card is a share of the kit it names, at the place it names.
LEMMA CardIs ==
  ASSUME CustodyInv, NEW card \in Cards
  PROVE  \E k \in DOMAIN kits : \E j \in DOMAIN kits[k].shares :
           card = kits[k].shares[j] /\ card.set = k /\ card.index = j
<1>0. PICK k \in DOMAIN kits : \E j \in DOMAIN kits[k].shares : card = kits[k].shares[j]
  BY DEF Cards
<1>1. PICK j \in DOMAIN kits[k].shares : card = kits[k].shares[j]
  BY <1>0
<1>2. PICK t, total, c : KitIs(kits[k], k, t, total, c)
  BY DEF CustodyInv
<1> DEFINE kit == kits[k]
<1>3. KitIs(kit, k, t, total, c) /\ j \in DOMAIN kit.shares
  BY <1>1, <1>2
<1> HIDE DEF kit
<1>4. DOMAIN kit.shares = 1..total /\ total \in Nat
  BY <1>3, ShareIs
<1>5. \A i \in 1..total : kit.shares[i].set = k /\ kit.shares[i].index = i
  BY <1>3, ShareIs
<1>6. kit.shares[j].set = k /\ kit.shares[j].index = j
  BY <1>3, <1>4, <1>5
<1> QED
  BY <1>1, <1>6 DEF kit

\* Cards that Combine lets through, of a seed's length, are of one split.
LEMMA CombinedIsWhole ==
  ASSUME CustodyInv, NEW shares, NEW n \in Nat, DOMAIN shares = 1..n, Len(shares) = n,
         \A i \in 1..n : shares[i] \in Cards,
         CombineError(shares) = "ok", Len(shares[1].value) = SeedBytes
  PROVE  \E k \in DOMAIN kits : WholeOf(shares, kits, k)
<1>1. /\ n >= 2 /\ ~(n < shares[1].threshold) /\ ~SetError(shares)
      /\ \A i \in 1..n : ScanError(shares, i) = "ok"
  BY CombineOK
<1>2. 1 \in 1..n
  BY <1>1
<1>0. PICK k \in DOMAIN kits : \E j \in DOMAIN kits[k].shares :
        shares[1] = kits[k].shares[j] /\ shares[1].set = k
  BY <1>2, CardIs
<1>3. PICK j \in DOMAIN kits[k].shares : shares[1] = kits[k].shares[j] /\ shares[1].set = k
  BY <1>0
<1>4. \A i \in DOMAIN shares : \E l \in DOMAIN kits[k].shares : shares[i] = kits[k].shares[l]
  <2> TAKE i \in DOMAIN shares
  <2>1. shares[i].set = k
    BY <1>1, <1>3 DEF SetError
  <2>2. shares[i] \in Cards
    OBVIOUS
  <2> QED
    BY <2>1, <2>2, CardIs
<1>5. ASSUME NEW i \in 1..n, NEW l \in 1..n, i < l PROVE shares[i] # shares[l]
  <2>1. i \in 1..(l - 1)
    BY <1>5
  <2>2. ScanError(shares, l) = "ok"
    BY <1>1
  <2>3. ~ \E e \in 1..(l - 1) : shares[e].index = shares[l].index
    BY <2>2 DEF ScanError
  <2>4. shares[i].index # shares[l].index
    BY <2>1, <2>3
  <2> QED
    BY <2>4
<1>6. \A i, l \in DOMAIN shares : shares[i] = shares[l] => i = l
  <2> TAKE i, l \in DOMAIN shares
  <2>1. i < l \/ l < i \/ i = l
    OBVIOUS
  <2> QED
    BY <1>5, <2>1
<1> DEFINE kit == kits[k]
<1>7. PICK t, total, c : KitIs(kit, k, t, total, c)
  BY DEF CustodyInv
<1>8. shares[1] = kit.shares[j] /\ j \in DOMAIN kit.shares
  BY <1>3
<1> HIDE DEF kit
<1>9. DOMAIN kit.shares = 1..total /\ total \in Nat /\ t >= 2 /\ t <= total /\ t \in Nat
  BY <1>7, ShareIs
<1>10. \A i \in 1..total : kit.shares[i].threshold = t
  BY <1>7, ShareIs
<1>11. shares[1].threshold = t /\ kit.shares[1].threshold = t
  <2>1. 1 \in 1..total
    BY <1>9
  <2> QED
    BY <1>8, <1>9, <1>10, <2>1
<1>12. Len(shares[1].value) = Len(kit.secret)
  <2>1. j \in 1..total
    BY <1>8, <1>9
  <2>2. Len(kit.shares[j].value) = Len(kit.secret)
    BY <1>7, <1>9, <2>1, ValueIs
  <2> QED
    BY <1>8, <2>2
<1>13. Len(shares) >= kit.shares[1].threshold /\ Len(kit.secret) = SeedBytes
  BY <1>1, <1>9, <1>11, <1>12
<1> QED
  BY <1>4, <1>6, <1>13 DEF WholeOf, kit

-----------------------------------------------------------------------------
(* The order the cards lie in.                                             *)

\* The recursive functions inside AllShares and InOrder.
Glues(s, n, ks) == s = [k \in 0..n |-> IF k = 0 THEN <<>> ELSE s[k - 1] \o ks[k].shares]
Sifts(s, n, all, cards) ==
  s = [i \in 0..n |->
         IF i = 0 THEN <<>>
         ELSE IF all[i] \in cards THEN Append(s[i - 1], all[i]) ELSE s[i - 1]]

\* All shares of all kits are cards.
LEMMA AllSharesIn ==
  ASSUME CustodyInv
  PROVE  AllShares \in Seq(Cards)
<1> DEFINE V == Seq(Cards)
<1>1. PICK n \in Nat : n = Len(kits) /\ DOMAIN kits = 1..n
  BY DEF CustodyInv
<1>2. ASSUME NEW k \in 1..n PROVE kits[k].shares \in V
  <2>1. k \in DOMAIN kits
    BY <1>1
  <2>2. kits \in Seq(Kit)
    BY DEF CustodyInv
  <2>3. kits[k] \in Kit
    BY <2>1, <2>2
  <2>4. kits[k].shares \in Seq(Shares)
    BY <2>3 DEF Kit
  <2> DEFINE f == kits[k].shares
  <2>5. \A j \in DOMAIN f : f[j] \in Cards
    BY <2>1 DEF Cards
  <2> HIDE DEF f
  <2>6. f \in Seq(Shares)
    BY <2>4 DEF f
  <2>7. f \in Seq(Cards)
    BY <2>5, <2>6
  <2> QED
    BY <2>7 DEF f
<1>3. <<>> \in V /\ \A v, w \in V : v \o w \in V
  OBVIOUS
<1> HIDE DEF V
<1>4. \E s : Glues(s, n, kits)
  <2> DEFINE G == [p \in (1..n) \X V |-> p[2] \o kits[p[1]].shares]
  <2>1. \A i \in 1..n, v \in V : G[<<i, v>>] = v \o kits[i].shares /\ v \o kits[i].shares \in V
    BY <1>2, <1>3
  <2>2. G \in [(1..n) \X V -> V]
    BY <2>1
  <2> HIDE DEF G
  <2>3. PICK s : Recursion(s, n, V, <<>>, G)
    BY <1>3, <2>2, Recurs
  <2>4. \A i \in 0..n : s[i] = IF i = 0 THEN <<>> ELSE s[i - 1] \o kits[i].shares
    <3> TAKE i \in 0..n
    <3>1. CASE i = 0
      BY <2>3, <3>1 DEF Recursion
    <3>2. CASE i # 0
      <4>1. i \in 1..n /\ i - 1 \in 0..n
        BY <3>2
      <4>2. s[i - 1] \in V /\ s[i] = G[<<i, s[i - 1]>>]
        BY <2>3, <4>1 DEF Recursion
      <4>3. s[i] = s[i - 1] \o kits[i].shares
        BY <2>1, <4>1, <4>2, Zenon
      <4> QED
        BY <3>2, <4>3
    <3> QED
      BY <3>1, <3>2
  <2>5. s = [i \in 0..n |-> s[i]]
    BY <2>3 DEF Recursion
  <2> QED
    BY <2>4, <2>5 DEF Glues
<1> DEFINE all[k \in 0..Len(kits)] == IF k = 0 THEN <<>> ELSE all[k - 1] \o kits[k].shares
<1>5. all = CHOOSE s : Glues(s, Len(kits), kits)
  BY DEF Glues
<1>6. AllShares = all[Len(kits)]
  BY DEF AllShares
<1> HIDE DEF all
<1>7. Glues(all, n, kits)
  BY <1>1, <1>4, <1>5
<1>8. all[0] = <<>> /\ \A k \in 1..n : all[k] = all[k - 1] \o kits[k].shares
  <2>1. all = [k \in 0..n |-> IF k = 0 THEN <<>> ELSE all[k - 1] \o kits[k].shares]
    BY <1>7 DEF Glues
  <2>2. 0 \in 0..n /\ \A k \in 1..n : k \in 0..n /\ k # 0
    OBVIOUS
  <2> QED
    BY <2>1, <2>2
<1> DEFINE T == {m \in Nat : m <= n => all[m] \in V}
<1>9. 0 \in T
  BY <1>3, <1>8
<1>10. ASSUME NEW m \in Nat, m \in T PROVE m + 1 \in T
  <2> SUFFICES ASSUME m + 1 <= n PROVE all[m + 1] \in V
    OBVIOUS
  <2>1. m + 1 \in 1..n /\ (m + 1) - 1 = m /\ all[m] \in V
    BY <1>10
  <2>2. all[m + 1] = all[m] \o kits[m + 1].shares
    BY <1>8, <2>1
  <2>3. kits[m + 1].shares \in V
    BY <1>2, <2>1
  <2> QED
    BY <1>3, <2>1, <2>2, <2>3
<1>11. n \in T
  <2> HIDE DEF T
  <2> QED
    BY <1>9, <1>10, InductiveSet
<1> QED
  BY <1>1, <1>6, <1>11 DEF V

\* So are those of some custodians.
LEMMA InOrderIn ==
  ASSUME CustodyInv, NEW cards
  PROVE  InOrder(cards) \in Seq(Cards)
<1> DEFINE V == Seq(Cards)
           A == AllShares
<1>1. A \in V
  BY AllSharesIn
<1>2. PICK n \in Nat : n = Len(A) /\ \A i \in 1..n : A[i] \in Cards
  <2> HIDE DEF A
  <2> QED
    BY <1>1
<1>3. <<>> \in V /\ \A v \in V, e \in Cards : Append(v, e) \in V
  OBVIOUS
<1>4. InOrder(cards) =
        LET some[i \in 0..Len(A)] ==
              IF i = 0 THEN <<>>
              ELSE IF A[i] \in cards THEN Append(some[i - 1], A[i]) ELSE some[i - 1]
        IN  some[Len(A)]
  BY DEF InOrder
<1> HIDE DEF V, A
<1>5. \E s : Sifts(s, n, A, cards)
  <2> DEFINE G == [p \in (1..n) \X V |-> IF A[p[1]] \in cards THEN Append(p[2], A[p[1]]) ELSE p[2]]
             next(i, v) == IF A[i] \in cards THEN Append(v, A[i]) ELSE v
  <2>1. \A i \in 1..n, v \in V : G[<<i, v>>] = next(i, v) /\ next(i, v) \in V
    BY <1>2, <1>3
  <2>2. G \in [(1..n) \X V -> V]
    BY <2>1
  <2> HIDE DEF G, next
  <2>3. PICK s : Recursion(s, n, V, <<>>, G)
    BY <1>3, <2>2, Recurs
  <2>4. \A i \in 0..n : s[i] = IF i = 0 THEN <<>> ELSE next(i, s[i - 1])
    <3> TAKE i \in 0..n
    <3>1. CASE i = 0
      BY <2>3, <3>1 DEF Recursion
    <3>2. CASE i # 0
      <4>1. i \in 1..n /\ i - 1 \in 0..n
        BY <3>2
      <4>2. s[i - 1] \in V /\ s[i] = G[<<i, s[i - 1]>>]
        BY <2>3, <4>1 DEF Recursion
      <4>3. s[i] = next(i, s[i - 1])
        BY <2>1, <4>1, <4>2, Zenon
      <4> QED
        BY <3>2, <4>3
    <3> QED
      BY <3>1, <3>2
  <2>5. s = [i \in 0..n |-> s[i]]
    BY <2>3 DEF Recursion
  <2> QED
    BY <2>4, <2>5 DEF Sifts, next
<1> DEFINE some[i \in 0..Len(A)] ==
             IF i = 0 THEN <<>>
             ELSE IF A[i] \in cards THEN Append(some[i - 1], A[i]) ELSE some[i - 1]
<1>6. some = CHOOSE s : Sifts(s, Len(A), A, cards)
  BY DEF Sifts
<1>7. InOrder(cards) = some[Len(A)]
  BY <1>4
<1> HIDE DEF some
<1>8. Sifts(some, n, A, cards)
  BY <1>2, <1>5, <1>6
<1>9. some[0] = <<>> /\ \A i \in 1..n : some[i] = IF A[i] \in cards THEN Append(some[i - 1], A[i])
                                                                  ELSE some[i - 1]
  <2>1. some = [i \in 0..n |->
                  IF i = 0 THEN <<>>
                  ELSE IF A[i] \in cards THEN Append(some[i - 1], A[i]) ELSE some[i - 1]]
    BY <1>8 DEF Sifts
  <2> DEFINE next(i, v) == IF A[i] \in cards THEN Append(v, A[i]) ELSE v
  <2>2. some = [i \in 0..n |-> IF i = 0 THEN <<>> ELSE next(i, some[i - 1])]
    BY <2>1
  <2> HIDE DEF next
  <2>3. some[0] = <<>> /\ \A i \in 1..n : some[i] = next(i, some[i - 1])
    BY <2>2
  <2> QED
    BY <2>3 DEF next
<1> DEFINE T == {m \in Nat : m <= n => some[m] \in V}
<1>10. 0 \in T
  BY <1>3, <1>9
<1>11. ASSUME NEW m \in Nat, m \in T PROVE m + 1 \in T
  <2> SUFFICES ASSUME m + 1 <= n PROVE some[m + 1] \in V
    OBVIOUS
  <2>1. m + 1 \in 1..n /\ (m + 1) - 1 = m /\ some[m] \in V
    BY <1>11
  <2>2. some[m + 1] = IF A[m + 1] \in cards THEN Append(some[m], A[m + 1]) ELSE some[m]
    BY <1>9, <2>1
  <2>3. A[m + 1] \in Cards
    BY <1>2, <2>1
  <2> QED
    BY <1>3, <2>1, <2>2, <2>3
<1>12. n \in T
  <2> HIDE DEF T
  <2> QED
    BY <1>10, <1>11, InductiveSet
<1> QED
  BY <1>2, <1>7, <1>12 DEF V

-----------------------------------------------------------------------------
(* The actions.                                                            *)

\* What a restore gives is right: nothing, when nothing was rebuilt, or the
\* secret of the split the shares are of.
Rebuilds(shares, seed, ks) ==
  shares # <<>> =>
    /\ seed # NoSeed => \E k \in DOMAIN ks : WholeOf(shares, ks, k) /\ seed = ks[k].secret
    /\ \A k \in DOMAIN ks : WholeOf(shares, ks, k) => seed = ks[k].secret

\* The property is that, once there is an outcome.
LEMMA RebuildsIs == RebuildsTheKey <=> (outcome # NotYet => Rebuilds(given, outcome.seed, kits))
BY DEF RebuildsTheKey, Rebuilds, WholeOf

\* The secret of a kit is a sequence of elements, so never NoSeed.
LEMMA SecretIs ==
  ASSUME CustodyInv, NEW k \in DOMAIN kits
  PROVE  kits[k].secret # NoSeed
<1>1. PICK t, total, c : KitIs(kits[k], k, t, total, c)
  BY DEF CustodyInv
<1>2. kits[k].secret \in Seq(Field)
  BY <1>1 DEF KitIs
<1> QED
  BY <1>2, CustodyAssumption

\* Combine, when it is given cards (recoverykey/shares.go:18-27).
LEMMA CombineCards ==
  ASSUME CustodyInv, NEW shares \in Seq(Cards), Combine(shares)
  PROVE  /\ Rebuilds(given', outcome'.seed, kits') /\ kits' = kits
         /\ outcome' = NotYet => given' = <<>>
<1> DEFINE n == Len(shares)
           err == CombineError(shares)
<1>1. given' = shares /\ kits' = kits
      /\ outcome' = IF err # "ok" THEN [seed |-> NoSeed, err |-> err]
                    ELSE IF Len(shares[1].value) # SeedBytes
                    THEN [seed |-> NoSeed, err |-> "ErrSeedLength"]
                    ELSE [seed |-> Interpolate(shares), err |-> "ok"]
  BY DEF Combine
<1>2. n \in Nat /\ DOMAIN shares = 1..n /\ \A i \in 1..n : shares[i] \in Cards
  OBVIOUS
<1>3. \A k \in DOMAIN kits : WholeOf(shares, kits, k) =>
        err = "ok" /\ Len(shares[1].value) = SeedBytes /\ Interpolate(shares) = kits[k].secret
  BY <1>2, WholeRebuilds
<1>4. CASE err = "ok" /\ Len(shares[1].value) = SeedBytes
  <2>1. PICK k \in DOMAIN kits : WholeOf(shares, kits, k)
    BY <1>2, <1>4, CombinedIsWhole
  <2>2. outcome' = [seed |-> Interpolate(shares), err |-> "ok"]
    BY <1>1, <1>4
  <2>3. outcome'.seed = Interpolate(shares) /\ Interpolate(shares) = kits[k].secret
    BY <1>3, <2>1, <2>2
  <2>4. outcome' # NotYet
    <3>1. outcome'.seed # NoSeed
      BY <2>3, SecretIs
    <3> QED
      BY <3>1 DEF NotYet
  <2> HIDE DEF err, n
  <2>5. Rebuilds(given', outcome'.seed, kits')
    BY <1>1, <1>3, <2>1, <2>3 DEF Rebuilds
  <2> QED
    BY <1>1, <2>4, <2>5
<1>5. CASE ~(err = "ok" /\ Len(shares[1].value) = SeedBytes)
  <2>1. outcome'.seed = NoSeed /\ outcome'.err # "ok"
    BY <1>1, <1>5
  <2>2. outcome' # NotYet
    BY <2>1 DEF NotYet
  <2>3. \A k \in DOMAIN kits : ~WholeOf(shares, kits, k)
    BY <1>3, <1>5
  <2> HIDE DEF err, n
  <2>4. Rebuilds(given', outcome'.seed, kits')
    BY <1>1, <2>1, <2>3 DEF Rebuilds
  <2> QED
    BY <1>1, <2>2, <2>4
<1> QED
  BY <1>4, <1>5

\* Combine, when it is given something that is not of any split.
LEMMA CombineOther ==
  ASSUME NEW shares, Combine(shares), CombineError(shares) # "ok",
         \A k \in DOMAIN kits : ~WholeOf(shares, kits, k)
  PROVE  /\ Rebuilds(given', outcome'.seed, kits') /\ kits' = kits
         /\ outcome' = NotYet => given' = <<>>
<1>1. given' = shares /\ kits' = kits /\ outcome' = [seed |-> NoSeed, err |-> CombineError(shares)]
  BY DEF Combine
<1>2. outcome'.seed = NoSeed /\ outcome' # NotYet
  BY <1>1 DEF NotYet
<1>3. Rebuilds(given', outcome'.seed, kits')
  BY <1>1, <1>2 DEF Rebuilds
<1> QED
  BY <1>1, <1>2, <1>3

\* The place of a card in its kit.
LEMMA CardPlace ==
  ASSUME CustodyInv, NEW card \in Cards
  PROVE  /\ card.set \in DOMAIN kits /\ card.index \in DOMAIN kits[card.set].shares
         /\ card = kits[card.set].shares[card.index]
BY CardIs

\* No share of a kit lacks a field that another decoder may not find.
LEMMA ShareWhole ==
  ASSUME CustodyInv, NEW k \in DOMAIN kits, NEW j \in DOMAIN kits[k].shares
  PROVE  /\ kits[k].shares[j].index # 0 /\ kits[k].shares[j].threshold # 0
         /\ Len(kits[k].shares[j].value) \in 1..MaxSecret
         /\ kits[k].shares[j] \in Shares
<1> DEFINE kit == kits[k]
<1>1. PICK t, total, c : KitIs(kit, k, t, total, c)
  BY DEF CustodyInv
<1>2. kit \in Kit
  BY DEF CustodyInv
<1>3. j \in DOMAIN kit.shares
  OBVIOUS
<1> HIDE DEF kit
<1>4. kit.shares \in Seq(Shares)
  BY <1>2 DEF Kit
<1>5. kit.shares[j] \in Shares
  BY <1>3, <1>4
<1>6. DOMAIN kit.shares = 1..total /\ total \in Nat /\ t \in Nat /\ 2 <= t
  BY <1>1, ShareIs
<1>7. \A i \in 1..total : kit.shares[i].index = i /\ kit.shares[i].threshold = t
  BY <1>1, ShareIs
<1>8. kit.shares[j].index = j /\ kit.shares[j].threshold = t /\ j \in 1..total
  BY <1>3, <1>6, <1>7
<1>9. Len(kit.shares[j].value) = Len(kit.secret)
  BY <1>1, <1>8, ValueIs
<1>10. Len(kit.secret) \in 1..MaxSecret
  BY <1>1, ShareIs
<1> QED
  BY <1>5, <1>6, <1>8, <1>9, <1>10 DEF kit

\* A share without an index, a threshold or a value is never combined.
LEMMA LackingRefused ==
  ASSUME NEW shares, NEW n \in Nat, DOMAIN shares = 1..n, Len(shares) = n, NEW j \in 1..n,
         shares[j].index = 0 \/ shares[j].threshold = 0 \/ Len(shares[j].value) = 0
  PROVE  CombineError(shares) # "ok"
<1> SUFFICES ASSUME CombineError(shares) = "ok" PROVE FALSE
  OBVIOUS
<1>1. /\ Len(shares[1].value) \in 1..MaxSecret /\ \A i \in 1..n : ScanError(shares, i) = "ok"
      /\ ~SetError(shares) /\ shares[1].threshold \in 2..MaxThreshold
  BY CombineOK
<1>2. shares[j].index # 0 /\ Len(shares[j].value) = Len(shares[1].value)
  <2>1. ScanError(shares, j) = "ok"
    BY <1>1
  <2> QED
    BY <2>1 DEF ScanError
<1>3. shares[j].threshold = shares[1].threshold
  BY <1>1 DEF SetError
<1>4. CASE shares[j].threshold = 0
  <2>1. shares[1].threshold = 0
    BY <1>3, <1>4, Zenon
  <2> QED
    BY <1>1, <2>1
<1>5. CASE Len(shares[j].value) = 0
  <2>1. Len(shares[1].value) = 0
    BY <1>2, <1>5, Zenon
  <2> QED
    BY <1>1, <2>1
<1> QED
  BY <1>2, <1>4, <1>5

\* A kit some of whose shares lack a field is refused: the scan finds the index or
\* the value missing, the comparison with the first share a threshold that only
\* some declare, and the last check one that none declares.
LEMMA DecodedRefused ==
  ASSUME CustodyInv, NEW k \in DOMAIN kits, NEW missing \in ShareFields,
         NEW some \in (SUBSET DOMAIN kits[k].shares) \ {{}}, NEW shares,
         shares = [i \in DOMAIN kits[k].shares |->
                     IF i \in some THEN Decoded(kits[k].shares[i], missing) ELSE kits[k].shares[i]]
  PROVE  CombineError(shares) # "ok" /\ \A l \in DOMAIN kits : ~WholeOf(shares, kits, l)
<1> DEFINE kit == kits[k]
<1>1. PICK t, total, c : KitIs(kit, k, t, total, c)
  BY DEF CustodyInv
<1>2. PICK j \in DOMAIN kit.shares : j \in some
  OBVIOUS
<1> DEFINE share == Decoded(kit.shares[j], missing)
<1>3. kit.shares[j] \in Shares
  BY <1>2, ShareWhole
<1>4. DOMAIN kit.shares = 1..total /\ total \in Nat /\ 2 <= total
  <2>1. t \in Nat /\ 2 <= t /\ t <= total /\ total \in Nat /\ DOMAIN kit.shares = 1..total
    BY <1>1, ShareIs
  <2> QED
    BY <2>1
<1>5. shares[j] = share /\ DOMAIN shares = 1..total
  BY <1>2, <1>4
<1>6. Len(shares) = total
  <2> DEFINE S == {shares[i] : i \in 1..total}
  <2>1. shares = [i \in 1..total |-> shares[i]]
    BY <1>4
  <2>2. \A i \in 1..total : shares[i] \in S
    OBVIOUS
  <2> HIDE DEF S
  <2>3. shares \in [1..total -> S]
    BY <2>1, <2>2
  <2> QED
    BY <1>4, <2>3
<1>7. share.index = 0 \/ share.threshold = 0 \/ Len(share.value) = 0
  <2>1. CASE missing = "index"
    BY <1>3, <2>1 DEF Decoded, Shares
  <2>2. CASE missing = "threshold"
    BY <1>3, <2>2 DEF Decoded, Shares
  <2>3. CASE missing = "value"
    <3>1. share.value = <<>>
      BY <1>3, <2>3 DEF Decoded, Shares
    <3> QED
      BY <3>1
  <2> HIDE DEF share, kit
  <2>4. missing \in {"index", "threshold", "value"}
    BY DEF ShareFields
  <2> QED
    BY <2>1, <2>2, <2>3, <2>4, Zenon
<1> HIDE DEF kit, share
<1>8. ASSUME NEW l \in DOMAIN kits, WholeOf(shares, kits, l) PROVE FALSE
  <2>1. PICK i \in DOMAIN kits[l].shares : share = kits[l].shares[i]
    BY <1>2, <1>4, <1>5, <1>8 DEF WholeOf
  <2>2. share.index # 0 /\ share.threshold # 0 /\ Len(share.value) \in 1..MaxSecret
    BY <2>1, ShareWhole
  <2> QED
    BY <1>7, <2>2
<1>9. CombineError(shares) # "ok"
  <2>1. j \in 1..total
    BY <1>2, <1>4, Zenon
  <2> QED
    BY <1>4, <1>5, <1>6, <1>7, <2>1, LackingRefused
<1> QED
  BY <1>8, <1>9

\* A split is kept under the next set id (shamir.go:164-201).
LEMMA IssueStep ==
  ASSUME CustodyInv, NEW secret \in Seq(Field), NEW plan \in Nat \X Nat, Issue(secret, plan)
  PROVE  CustodyInv' /\ outcome' = NotYet
<1> DEFINE k == Len(kits) + 1
           t == plan[1]
           total == plan[2]
<1>1. PICK c \in [DOMAIN secret -> Drawn(Draws[k], t)] :
        kits' = Append(kits, [secret |-> secret, shares |-> Split(k, secret, t, total, c)])
  BY DEF Issue
<1>2. SplitOK(secret, t, total) /\ Len(kits) < MaxKits /\ outcome = NotYet
      /\ given' = given /\ outcome' = outcome
  BY DEF Issue
<1>3. kits \in Seq(Kit) /\ k \in Nat /\ Len(kits) \in Nat
  BY DEF CustodyInv
<1>4. Draws[k] \subseteq Field
  <2>1. k \in 1..MaxKits
    BY <1>2, <1>3, CustodyAssumption
  <2> HIDE DEF k
  <2> QED
    BY <2>1, CustodyAssumption
<1>5. t \in Nat /\ total \in Nat
  OBVIOUS
<1> DEFINE kit == [secret |-> secret, shares |-> Split(k, secret, t, total, c)]
<1>6. kit.secret = secret /\ kit.shares = Split(k, secret, t, total, c) /\ kits' = Append(kits, kit)
      /\ DOMAIN kit = {"secret", "shares"} /\ kit = [secret |-> kit.secret, shares |-> kit.shares]
  BY <1>1
<1> HIDE DEF kit, k, t, total
<1>7. c \in [DOMAIN secret -> Drawn(Field, t)]
  <2>1. Drawn(Draws[k], t) \subseteq Drawn(Field, t)
    BY <1>4 DEF Drawn
  <2> QED
    BY <1>1, <2>1
<1>8. KitIs(kit, k, t, total, c)
  BY <1>2, <1>3, <1>5, <1>6, <1>7 DEF KitIs
<1>9. kit \in Kit
  <2>1. DOMAIN kit.shares = 1..total
    BY <1>8, ShareIs
  <2>2. \A j \in 1..total : kit.shares[j] \in Shares
    <3> TAKE j \in 1..total
    <3> DEFINE v == kit.shares[j].value
    <3>1. v \in Seq(Field)
      <4>1. PICK L \in Nat : L = Len(kit.secret)
        BY <1>8, ShareIs
      <4>2. v \in [1..L -> Field]
        BY <1>5, <1>8, <4>1, ValueIs
      <4> HIDE DEF v
      <4> QED
        BY <4>2
    <3>2. kit.shares[j] = [threshold |-> t, set |-> k, index |-> j, value |-> v]
      <4> DEFINE w == [b \in DOMAIN kit.secret |-> Evaluate(<<kit.secret[b]>> \o c[b], j)]
      <4>1. kit.shares = Split(k, kit.secret, t, total, c)
        BY <1>6
      <4>2. kit.shares[j] = [threshold |-> t, set |-> k, index |-> j, value |-> w]
        BY <4>1 DEF Split
      <4> HIDE DEF w
      <4>3. kit.shares[j].value = w
        BY <4>2
      <4> QED
        BY <4>2, <4>3
    <3> HIDE DEF v
    <3> QED
      BY <1>3, <1>5, <3>1, <3>2 DEF Shares
  <2>3. kit.shares = [j \in 1..total |-> kit.shares[j]]
    BY <1>6, <2>1 DEF Split
  <2>4. kit.shares \in Seq(Shares)
    BY <1>5, <2>2, <2>3
  <2> QED
    BY <1>6, <2>4 DEF Kit
<1>10. kits' \in Seq(Kit) /\ Len(kits') = k /\ DOMAIN kits' = 1..k
       /\ \A i \in DOMAIN kits' : kits'[i] = IF i = k THEN kit ELSE kits[i]
  BY <1>3, <1>6, <1>9 DEF k
<1>11. ASSUME NEW i \in DOMAIN kits'
       PROVE  \E u, all, d : KitIs(kits'[i], i, u, all, d)
  <2>1. CASE i = k
    BY <1>8, <1>10, <2>1
  <2>2. CASE i # k
    <3>1. i \in DOMAIN kits /\ kits'[i] = kits[i]
      BY <1>3, <1>10, <2>2 DEF k
    <3> QED
      BY <3>1 DEF CustodyInv
  <2> QED
    BY <2>1, <2>2
<1>12. given' = <<>> /\ outcome' = NotYet
  BY <1>2 DEF CustodyInv
<1> QED
  BY <1>10, <1>11, <1>12 DEF CustodyInv

\* A restore that changes no kit and gives what is right.
LEMMA CustodyRestoreStep ==
  ASSUME CustodyInv, kits' = kits, Rebuilds(given', outcome'.seed, kits'),
         outcome' = NotYet => given' = <<>>
  PROVE  CustodyInv' /\ RebuildsTheKey'
<1>1. CustodyInv'
  BY DEF CustodyInv
<1>2. RebuildsTheKey'
  BY DEF RebuildsTheKey, Rebuilds, WholeOf
<1> QED
  BY <1>1, <1>2

\* What holds between the steps.
LEMMA CustodyStep ==
  ASSUME CustodyInv, RebuildsTheKey, [CustodyNext]_custodyVars
  PROVE  CustodyInv' /\ RebuildsTheKey'
<1>1. ASSUME NEW plan \in Plans, NEW key \in Seeds \cup {NoSeed}, SplitKey(key, plan)
      PROVE  CustodyInv' /\ RebuildsTheKey'
  <2>1. key \in Seeds /\ Issue(key, plan)
    BY <1>1 DEF SplitKey
  <2>2. key \in Seq(Field) /\ plan \in Nat \X Nat
    <3>a. MaxSecret \in Nat
      BY FieldLaws
    <3>b. SeedBytes \in Nat
      BY <3>a, CustodyAssumption
    <3>c. Seeds \subseteq [1..SeedBytes -> Field] /\ Plans \subseteq Nat \X Nat
      BY CustodyAssumption
    <3>1. SeedBytes \in Nat /\ Seeds \subseteq [1..SeedBytes -> Field] /\ Plans \subseteq Nat \X Nat
      BY <3>b, <3>c
    <3>2. key \in [1..SeedBytes -> Field]
      BY <2>1, <3>1
    <3> QED
      BY <3>1, <3>2
  <2>3. CustodyInv' /\ outcome' = NotYet
    BY <2>1, <2>2, IssueStep
  <2> QED
    BY <2>3 DEF RebuildsTheKey
<1>2. ASSUME NEW o \in OtherSplits, SplitOther(o[1], o[2])
      PROVE  CustodyInv' /\ RebuildsTheKey'
  <2>1. o[1] \in Seq(Field) /\ o[2] \in Nat \X Nat
    BY CustodyAssumption
  <2>2. Issue(o[1], o[2])
    BY <1>2 DEF SplitOther
  <2>3. CustodyInv' /\ outcome' = NotYet
    BY <2>1, <2>2, IssueStep
  <2> QED
    BY <2>3 DEF RebuildsTheKey
<1>3. ASSUME NEW cards \in SUBSET Cards, RestoreFrom(cards)
      PROVE  CustodyInv' /\ RebuildsTheKey'
  <2>1. Combine(InOrder(cards)) /\ InOrder(cards) \in Seq(Cards)
    BY <1>3, InOrderIn DEF RestoreFrom
  <2> QED
    BY <2>1, CombineCards, CustodyRestoreStep
<1>4. ASSUME NEW card \in Cards, NEW typed \in {card} \cup Slips(card), RestoreTyped(card, typed)
      PROVE  CustodyInv' /\ RebuildsTheKey'
  <2> DEFINE kit == kits[card.set].shares
  <2>1. kit \in Seq(Cards)
    <3>1. card.set \in DOMAIN kits /\ kits \in Seq(Kit)
      BY CardPlace DEF CustodyInv
    <3>2. kit \in Seq(Shares)
      <4>1. kits[card.set] \in Kit
        BY <3>1
      <4> QED
        BY <4>1 DEF Kit
    <3>3. \A j \in DOMAIN kit : kit[j] \in Cards
      BY <3>1 DEF Cards
    <3> HIDE DEF kit
    <3> QED
      BY <3>2, <3>3
  <2>2. CASE ~ParseOK(card, typed)
    <3>1. outcome' = [seed |-> NoSeed, err |-> "ErrMalformedShare"] /\ kits' = kits /\ given' = given
      BY <1>4, <2>2 DEF RestoreTyped
    <3>2. outcome = NotYet
      BY <1>4 DEF RestoreTyped
    <3>3. given' = <<>>
      BY <3>1, <3>2 DEF CustodyInv
    <3>4. Rebuilds(given', outcome'.seed, kits')
      BY <3>3 DEF Rebuilds
    <3> QED
      BY <3>1, <3>3, <3>4, CustodyRestoreStep
  <2>3. CASE ParseOK(card, typed)
    <3>1. typed = card
      BY <2>3 DEF ParseOK
    <3>2. Combine(Append(kit, card))
      BY <1>4, <2>3, <3>1 DEF RestoreTyped
    <3> HIDE DEF kit
    <3>3. Append(kit, card) \in Seq(Cards)
      BY <2>1
    <3> QED
      BY <3>2, <3>3, CombineCards, CustodyRestoreStep
  <2> QED
    BY <2>2, <2>3
<1>5. ASSUME NEW k \in DOMAIN kits, NEW missing \in ShareFields,
             NEW some \in (SUBSET DOMAIN kits[k].shares) \ {{}}, RestoreDecoded(k, some, missing)
      PROVE  CustodyInv' /\ RebuildsTheKey'
  <2> DEFINE shares == [i \in DOMAIN kits[k].shares |->
                          IF i \in some THEN Decoded(kits[k].shares[i], missing) ELSE kits[k].shares[i]]
  <2>1. Combine(shares)
    BY <1>5 DEF RestoreDecoded
  <2>2. CombineError(shares) # "ok" /\ \A l \in DOMAIN kits : ~WholeOf(shares, kits, l)
    BY DecodedRefused
  <2> HIDE DEF shares
  <2>3. /\ Rebuilds(given', outcome'.seed, kits') /\ kits' = kits
        /\ outcome' = NotYet => given' = <<>>
    BY <2>1, <2>2, CombineOther
  <2> QED
    BY <2>3, CustodyRestoreStep, Zenon
<1>6. CASE UNCHANGED custodyVars
  BY <1>6 DEF custodyVars, CustodyInv, RebuildsTheKey, NotYet
<1>7. ASSUME CustodyNext PROVE CustodyInv' /\ RebuildsTheKey'
  <2>1. CASE \E k \in DOMAIN kits, missing \in ShareFields :
               \E some \in (SUBSET DOMAIN kits[k].shares) \ {{}} : RestoreDecoded(k, some, missing)
    BY <1>5, <2>1, Zenon
  <2>2. CASE \E card \in Cards : \E typed \in {card} \cup Slips(card) : RestoreTyped(card, typed)
    BY <1>4, <2>2, Zenon
  <2> QED
    BY <1>1, <1>2, <1>3, <1>7, <2>1, <2>2, Zenon DEF CustodyNext
<1> QED
  BY <1>6, <1>7, Zenon

\* How it begins.
LEMMA CustodyStart ==
  ASSUME CustodyInit
  PROVE  CustodyInv /\ RebuildsTheKey
BY DEF CustodyInit, CustodyInv, RebuildsTheKey

-----------------------------------------------------------------------------
(* What is proved.                                                         *)

\* recoverykey.Combine gives the seed that was split or none, and always gives
\* it from enough shares of one split: RebuildsTheKey, for any field of
\* characteristic 2, any seeds, plans and draws, and however many kits.
THEOREM KeyRebuilt == CustodySpec => []RebuildsTheKey
<1>1. CustodyInit => CustodyInv /\ RebuildsTheKey
  BY CustodyStart
<1>2. (CustodyInv /\ RebuildsTheKey) /\ [CustodyNext]_custodyVars
        => (CustodyInv /\ RebuildsTheKey)'
  BY CustodyStep
<1> QED
  BY <1>1, <1>2, PTL DEF CustodySpec

\* shamir.Split: with one share fewer than the threshold every value of a byte
\* but one that is not it stays possible: ThresholdNeeded.
THEOREM ThresholdKept == CustodySpec => []ThresholdNeeded
<1>1. CustodyInit => CustodyInv /\ RebuildsTheKey
  BY CustodyStart
<1>2. (CustodyInv /\ RebuildsTheKey) /\ [CustodyNext]_custodyVars
        => (CustodyInv /\ RebuildsTheKey)'
  BY CustodyStep
<1>3. CustodyInv => ThresholdNeeded
  BY FewerExclude
<1> QED
  BY <1>1, <1>2, <1>3, PTL DEF CustodySpec
=============================================================================

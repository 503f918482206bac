------------------------------ MODULE BackupRun ------------------------------
(***************************************************************************)
(* recoveryclient: the key pin (pin.go), the pairing record (pairing.go)   *)
(* and the backup run (run.go), over the product's settings rows, the      *)
(* recovery.pub file and a KyRecovery server.                              *)
(*                                                                         *)
(* Settings.Get, Settings.Set and Settings.Delete are atomic and nothing   *)
(* larger is: a run, a pairing handler and an unpairing handler interleave *)
(* between any two of their rows.  The process may crash between any two   *)
(* steps; rows, the file and the server survive it.                        *)
(***************************************************************************)
EXTENDS Naturals, Sequences

CONSTANTS
  Keys,         \* recovery public keys; a key stands for its ID too
  Topologies,   \* the custodian splits administrators submit
  Urls,         \* KyRecovery servers; a token is named by its issuer
  Runners,      \* callers of Run in one process
  Admins,       \* request handlers that pair, pin and unpair
  None,         \* a row never written, a file that is absent
  Garbage,      \* a recovery.pub that is not a key: cut short, overwritten
  Configs,      \* RunConfigs: is a backup directory set, is Keep at least one
  MaxCapsules,  \* bound: capsules sealed
  MaxOps        \* bound: administrator requests

ASSUME ConfigAssumption == Configs \subseteq [backupDir : BOOLEAN, keepValid : BOOLEAN]

ASSUME BoundAssumption == MaxCapsules \in Nat /\ MaxOps \in Nat

ASSUME NoneAssumption ==
  /\ None \notin Keys \cup Urls \cup Runners \cup Nat
  /\ Garbage \notin Keys \cup {None}

ASSUME TopologyAssumption ==
  \A t \in Topologies : DOMAIN t = {"threshold", "total"}
                        /\ t.threshold \in Nat /\ t.total \in Nat

VARIABLES
  store,     \* the settings rows
  file,      \* what recovery.pub holds: a key, garbage or nothing
  adm,       \* the request each administrator is serving
  run,       \* the locals of each call of Run
  runMu,     \* who holds runMu
  capsules,  \* every capsule sealed; its ID is its position
  locals,    \* capsules that reached the local backup directory
  held,      \* capsules KyRecovery servers hold
  result,    \* what calls of Run returned since the last one began
  covered,   \* history: the pairing was stored, and HasPairing could read it, since r began
  ops        \* administrator requests so far

vars == <<store, file, adm, run, runMu, capsules, locals, held, result,
          covered, ops>>

-----------------------------------------------------------------------------

\* pin.go: a k-of-n split a suite can actually recover.
validTopology(threshold, total) ==
  threshold >= 2 /\ total >= threshold /\ total <= 255

Paired(rows) == rows.url # None /\ rows.token # None

\* Settings.Set and Settings.Delete: the rows become `rows`.
Write(rows) ==
  /\ store' = rows
  /\ covered' = [r \in Runners |-> covered[r] /\ Paired(rows)]

IdleAdmin == [pc |-> "idle", key |-> None, threshold |-> 0, total |-> 0,
              url |-> None]

IdleRun == [pc |-> "idle", backupDir |-> FALSE, keepValid |-> FALSE,
            phase |-> "seal", err |-> "nil", pub |-> None, threshold |-> 0,
            total |-> 0, paired |-> FALSE, capsule |-> None, path |-> FALSE,
            localErr |-> FALSE, url |-> None, token |-> None]

NoResult == [err |-> "none", capsule |-> None, path |-> FALSE,
             localErr |-> FALSE, receipt |-> FALSE, covered |-> FALSE]

Init ==
  /\ store = [keyId |-> None, threshold |-> None, total |-> None,
              url |-> None, token |-> None, lastDeposit |-> None,
              lastAttempt |-> FALSE]
  /\ file = None
  /\ adm = [a \in Admins |-> IdleAdmin]
  /\ run = [r \in Runners |-> IdleRun]
  /\ runMu = None
  /\ capsules = <<>>
  /\ locals = {}
  /\ held = {}
  /\ result = [r \in Runners |-> NoResult]
  /\ covered = [r \in Runners |-> FALSE]
  /\ ops = 0

-----------------------------------------------------------------------------
(* Administrator requests: StoreRecoveryKey, then StorePairing; ClearPairing *)

runVars == <<run, runMu, capsules, locals, held, result>>

AdminGoto(a, pc) == adm' = [adm EXCEPT ![a].pc = pc]
AdminDone(a) == adm' = [adm EXCEPT ![a] = IdleAdmin]

\* A pairing claimed at u (ClaimPairing), or a pin request (ParsePinRequest),
\* which names no server: both refuse a topology that is not one.
BeginPair(a, k, t, u) ==
  /\ adm[a].pc = "idle" /\ ops < MaxOps
  /\ validTopology(t.threshold, t.total)
  /\ adm' = [adm EXCEPT ![a] = [pc |-> "pin_check", key |-> k,
               threshold |-> t.threshold, total |-> t.total, url |-> u]]
  /\ ops' = ops + 1
  /\ UNCHANGED <<store, file, covered, runVars>>

BeginPin(a, k, t) == BeginPair(a, k, t, None)

\* StoreRecoveryKey reads the pin: another key pinned is fs.ErrExist.
PinAllows(a) == store.keyId \in {None, adm[a].key}

PinCheck(a) ==
  /\ adm[a].pc = "pin_check"
  /\ IF PinAllows(a)
       THEN AdminGoto(a, "pin_file")
       ELSE AdminDone(a)
  /\ UNCHANGED <<store, file, covered, ops, runVars>>

\* keyfile.Store, which never overwrites; on fs.ErrExist the file must hold a
\* key, and that key be the one being pinned.
FileTrusted(a) == TRUE  \* variant with a bug: any file is the same key's
FileAllows(a) == file \in {None, adm[a].key}

PinFile(a) ==
  /\ adm[a].pc = "pin_file"
  /\ file' = IF file = None THEN adm[a].key ELSE file
  /\ IF FileAllows(a)
       THEN AdminGoto(a, "pin_id")
       ELSE AdminDone(a)
  /\ UNCHANGED <<store, covered, ops, runVars>>

PinID(a) ==
  /\ adm[a].pc = "pin_id"
  /\ Write([store EXCEPT !.keyId = adm[a].key])
  /\ AdminGoto(a, "pin_threshold")
  /\ UNCHANGED <<file, ops, runVars>>

PinThreshold(a) ==
  /\ adm[a].pc = "pin_threshold"
  /\ Write([store EXCEPT !.threshold = adm[a].threshold])
  /\ AdminGoto(a, "pin_total")
  /\ UNCHANGED <<file, ops, runVars>>

PinTotal(a) ==
  /\ adm[a].pc = "pin_total"
  /\ Write([store EXCEPT !.total = adm[a].total])
  /\ IF adm[a].url = None THEN AdminDone(a) ELSE AdminGoto(a, "pair_url")
  /\ UNCHANGED <<file, ops, runVars>>

\* StorePairing writes the URL row, then the sealed token's row.
PairURL(a) ==
  /\ adm[a].pc = "pair_url"
  /\ Write([store EXCEPT !.url = adm[a].url])
  /\ AdminGoto(a, "pair_token")
  /\ UNCHANGED <<file, ops, runVars>>

PairToken(a) ==
  /\ adm[a].pc = "pair_token"
  /\ Write([store EXCEPT !.token = adm[a].url])
  /\ AdminDone(a)
  /\ UNCHANGED <<file, ops, runVars>>

\* ClearPairing reads the two rows; nothing to clear is ErrNotPaired, and
\* the token row goes first.
BeginUnpair(a) ==
  /\ adm[a].pc = "idle" /\ ops < MaxOps
  /\ AdminGoto(a, IF store.url = None THEN "clear_check" ELSE "clear_token")
  /\ ops' = ops + 1
  /\ UNCHANGED <<store, file, covered, runVars>>

ClearCheck(a) ==
  /\ adm[a].pc = "clear_check"
  /\ IF store.token = None THEN AdminDone(a) ELSE AdminGoto(a, "clear_token")
  /\ UNCHANGED <<store, file, covered, ops, runVars>>

ClearToken(a) ==
  /\ adm[a].pc = "clear_token"
  /\ Write([store EXCEPT !.token = None])
  /\ AdminGoto(a, "clear_url")
  /\ UNCHANGED <<file, ops, runVars>>

ClearURL(a) ==
  /\ adm[a].pc = "clear_url"
  /\ Write([store EXCEPT !.url = None])
  /\ AdminDone(a)
  /\ UNCHANGED <<file, ops, runVars>>

\* A row operation or the file write fails: the handler returns its error.
AdminFails(a) ==
  /\ adm[a].pc # "idle"
  /\ AdminDone(a)
  /\ UNCHANGED <<store, file, covered, ops, runVars>>

-----------------------------------------------------------------------------
(* Run *)

adminVars == <<adm, ops>>
dataVars == <<capsules, locals, held>>

Step(r, f) == run' = [run EXCEPT ![r] = f]

\* Every return of Run runs the deferred runMu.Unlock.
Unlock == runMu' = None

Return(r, err, receipt) ==
  /\ result' = [result EXCEPT ![r] =
       [err |-> err, capsule |-> run[r].capsule, path |-> run[r].path,
        localErr |-> run[r].localErr, receipt |-> receipt,
        covered |-> covered[r]]]
  /\ Step(r, IdleRun)
  /\ Unlock

\* runMu.TryLock fails: ErrInProgress.
RefuseRun(r) ==
  /\ run[r].pc = "idle" /\ runMu # None
  /\ result' = [result EXCEPT ![r] = [NoResult EXCEPT !.err = "ErrInProgress"]]
  /\ UNCHANGED <<store, file, run, runMu, covered, dataVars, adminVars>>

\* Variant with a bug: the lock is given up before the receipt is recorded.
LockDroppedEarly == \A q \in Runners : run[q].pc \in {"idle", "record"}

TryLock == runMu = None

BeginRun(r, cfg) ==
  /\ run[r].pc = "idle" /\ TryLock
  /\ runMu' = r
  /\ Step(r, [IdleRun EXCEPT !.pc = "mark", !.backupDir = cfg.backupDir,
                              !.keepValid = cfg.keepValid])
  /\ result' = [q \in Runners |-> NoResult]
  /\ covered' = [covered EXCEPT ![r] = Paired(store)]
  /\ UNCHANGED <<store, file, dataVars, adminVars>>

MarkAttempt(r) ==
  /\ run[r].pc = "mark"
  /\ \/ /\ Write([store EXCEPT !.lastAttempt = TRUE])
        /\ Step(r, [run[r] EXCEPT !.pc = "key_file"])
        /\ UNCHANGED <<runMu, result>>
     \/ /\ Return(r, "ErrSettings", FALSE)
        /\ UNCHANGED <<store, covered>>
  /\ UNCHANGED <<file, dataVars, adminVars>>

\* LoadRecoveryKey failed with err: HasPairing decides how it is reported.
Unresolved(r, err) == Step(r, [run[r] EXCEPT !.pc = "has_url", !.err = err])

\* LoadRecoveryKey: the file, the pin, the two topology rows, in this order.
\* A file that cannot be read or is not a key is an error of its own, which
\* neither Run nor LoadPairing turns into ErrKeyPinMissing.
KeyFile(r) ==
  /\ run[r].pc = "key_file"
  /\ \/ /\ file = None
        /\ Unresolved(r, "ErrNotPaired")
        /\ UNCHANGED <<runMu, result>>
     \/ /\ file \in Keys
        /\ Step(r, [run[r] EXCEPT !.pc = "key_id", !.pub = file])
        /\ UNCHANGED <<runMu, result>>
     \/ Return(r, "ErrKeyFile", FALSE)
  /\ UNCHANGED <<store, file, covered, dataVars, adminVars>>

PinUnchecked(r) == TRUE  \* variant with a bug: the file is not compared
PinMatches(r) == store.keyId = run[r].pub

KeyID(r) ==
  /\ run[r].pc = "key_id"
  /\ IF store.keyId = None THEN Unresolved(r, "ErrNotPaired")
     ELSE IF ~PinMatches(r) THEN Unresolved(r, "ErrKeyMismatch")
     ELSE Step(r, [run[r] EXCEPT !.pc = "key_threshold"])
  /\ UNCHANGED <<store, file, runMu, result, covered, dataVars, adminVars>>

\* intSetting: a topology row that is not there is a pairing that died halfway.
Missing(row) == row = None

KeyThreshold(r) ==
  /\ run[r].pc = "key_threshold"
  /\ IF Missing(store.threshold)
       THEN Unresolved(r, "ErrNotPaired")
       ELSE Step(r, [run[r] EXCEPT !.pc = "key_total",
                                   !.threshold = store.threshold])
  /\ UNCHANGED <<store, file, runMu, result, covered, dataVars, adminVars>>

\* In the deposit phase LoadPairing goes on to the URL and the token.
KeyTotal(r) ==
  /\ run[r].pc = "key_total"
  /\ IF Missing(store.total)
       THEN Unresolved(r, "ErrNotPaired")
       ELSE Step(r, [run[r] EXCEPT !.total = store.total,
              !.pc = IF run[r].phase = "seal" THEN "has_url" ELSE "load_url"])
  /\ UNCHANGED <<store, file, runMu, result, covered, dataVars, adminVars>>

\* What a call does with HasPairing's answer: an unresolved key beside a
\* pairing is ErrKeyPinMissing; otherwise the answer is Run's `paired`.
ReportAs(err, has) == IF has THEN "ErrKeyPinMissing" ELSE err

Answered(r, has) ==
  CASE run[r].err # "nil" ->
         Return(r, ReportAs(run[r].err, has), FALSE)
    [] run[r].err = "nil" /\ ~has /\ ~run[r].backupDir ->
         Return(r, "ErrNoDestination", FALSE)
    [] run[r].err = "nil" /\ run[r].backupDir /\ ~run[r].keepValid ->
         Return(r, "ErrBadKeep", FALSE)
    [] OTHER ->
         /\ Step(r, [run[r] EXCEPT !.pc = "collect", !.paired = has])
         /\ UNCHANGED <<runMu, result>>

\* HasPairing reads the URL row, then the token row.
HasURL(r) ==
  /\ run[r].pc = "has_url"
  /\ IF store.url = None
       THEN Answered(r, FALSE)
       ELSE /\ Step(r, [run[r] EXCEPT !.pc = "has_token"])
            /\ UNCHANGED <<runMu, result>>
  /\ UNCHANGED <<store, file, covered, dataVars, adminVars>>

HasToken(r) ==
  /\ run[r].pc = "has_token"
  /\ Answered(r, store.token # None)
  /\ UNCHANGED <<store, file, covered, dataVars, adminVars>>

\* collect, the service-name check and Seal; any of them may refuse.
CollectAndSeal(r) ==
  /\ run[r].pc = "collect"
  /\ \/ /\ validTopology(run[r].threshold, run[r].total)
        /\ Len(capsules) < MaxCapsules
        /\ capsules' = Append(capsules,
             [key |-> run[r].pub, threshold |-> run[r].threshold,
              total |-> run[r].total])
        /\ Step(r, [run[r] EXCEPT !.capsule = Len(capsules) + 1,
                                  !.pc = "local"])
        /\ UNCHANGED <<runMu, result>>
     \/ /\ Return(r, "ErrCollect", FALSE)
        /\ UNCHANGED capsules
  /\ UNCHANGED <<store, file, covered, locals, held, adminVars>>

\* What Run returns when KyRecovery is not a destination.
ReturnLocal(r, path, localErr, err) ==
  /\ result' = [result EXCEPT ![r] =
       [err |-> err, capsule |-> run[r].capsule, path |-> path,
        localErr |-> localErr, receipt |-> FALSE, covered |-> covered[r]]]
  /\ Step(r, IdleRun)
  /\ Unlock

LocalVerdict(localErr) == IF localErr THEN "ErrLocal" ELSE "nil"

LocalEnough(r, path) == run[r].paired /\ ~path  \* variant with a bug
Deposits(r, path) == run[r].paired

\* WriteLocalCopy: done, failed, or written with the prune failing; with no
\* pairing its error is the run's.  Otherwise LoadPairing starts.
LocalCopy(r) ==
  /\ run[r].pc = "local"
  /\ \E path, err \in BOOLEAN :
       /\ IF run[r].backupDir THEN path \/ err ELSE ~path /\ ~err
       /\ locals' = IF path THEN locals \cup {run[r].capsule} ELSE locals
       /\ IF Deposits(r, path)
            THEN /\ Step(r, [run[r] EXCEPT !.path = path, !.localErr = err,
                                !.phase = "deposit", !.pc = "key_file"])
                 /\ UNCHANGED <<runMu, result>>
            ELSE ReturnLocal(r, path, err, LocalVerdict(err))
  /\ UNCHANGED <<store, file, covered, capsules, held, adminVars>>

LoadURL(r) ==
  /\ run[r].pc = "load_url"
  /\ IF store.url = None
       THEN Return(r, "ErrNotPaired", FALSE)
       ELSE /\ Step(r, [run[r] EXCEPT !.pc = "load_token", !.url = store.url])
            /\ UNCHANGED <<runMu, result>>
  /\ UNCHANGED <<store, file, covered, dataVars, adminVars>>

\* The sealed token may also fail to open under the deployment's key.
LoadToken(r) ==
  /\ run[r].pc = "load_token"
  /\ \/ /\ store.token # None
        /\ Step(r, [run[r] EXCEPT !.pc = "deposit", !.token = store.token])
        /\ UNCHANGED <<runMu, result>>
     \/ Return(r, IF store.token = None THEN "ErrNotPaired" ELSE "ErrSealer",
               FALSE)
  /\ UNCHANGED <<store, file, covered, dataVars, adminVars>>

\* External: the server accepts only a token it issued, and may store the
\* bytes or not before it answers; or the request never reaches it.
DepositSend(r) ==
  /\ run[r].pc = "deposit"
  /\ \/ /\ run[r].token = run[r].url
        /\ \/ held' = held \cup {[url |-> run[r].url, capsule |-> run[r].capsule]}
           \/ UNCHANGED held
        /\ Step(r, [run[r] EXCEPT !.pc = "receipt"])
        /\ UNCHANGED <<runMu, result>>
     \/ /\ Return(r, "ErrRemote", FALSE)
        /\ UNCHANGED held
  /\ UNCHANGED <<store, file, covered, capsules, locals, adminVars>>

\* Deposit checks the receipt's digest and Run its capsule ID.

ReceiptAccepted(r, digest, id) ==
  digest = run[r].capsule /\ id = run[r].capsule

\* The server answers with the digest of some container it holds, under
\* some capsule ID; or the answer is lost, late or an error status.
DepositAnswer(r) ==
  /\ run[r].pc = "receipt"
  /\ \/ \E h \in held, id \in 1..Len(capsules) :
          /\ h.url = run[r].url
          /\ IF ReceiptAccepted(r, h.capsule, id)
               THEN /\ Step(r, [run[r] EXCEPT !.pc = "record"])
                    /\ UNCHANGED <<runMu, result>>
               ELSE Return(r, "ErrRemote", FALSE)
     \/ Return(r, "ErrRemote", FALSE)
  /\ UNCHANGED <<store, file, covered, dataVars, adminVars>>

RecordReceipt(r) ==
  /\ run[r].pc = "record"
  /\ \/ /\ Write([store EXCEPT !.lastDeposit = run[r].capsule])
        /\ Return(r, "nil", TRUE)
     \/ /\ Return(r, "ErrReceiptUnrecorded", TRUE)
        /\ UNCHANGED <<store, covered>>
  /\ UNCHANGED <<file, dataVars, adminVars>>

\* Settings.Get fails.  LoadRecoveryKey and LoadPairing return the error;
\* HasPairing answers false.
ReadFault(r) ==
  /\ \/ /\ run[r].pc \in {"key_id", "key_threshold", "key_total",
                          "load_url", "load_token"}
        /\ Return(r, "ErrSettings", FALSE)
        /\ UNCHANGED covered
     \/ /\ run[r].pc \in {"has_url", "has_token"}
        /\ Step(r, [run[r] EXCEPT !.pc = "has_failed"])
        /\ covered' = [covered EXCEPT ![r] = FALSE]
        /\ UNCHANGED <<runMu, result>>
  /\ UNCHANGED <<store, file, dataVars, adminVars>>

\* HasPairing's false is taken for an answer.
HasFailed(r) ==
  /\ run[r].pc = "has_failed"
  /\ Answered(r, FALSE)
  /\ UNCHANGED <<store, file, covered, dataVars, adminVars>>

-----------------------------------------------------------------------------
(* The environment *)

\* The process dies: requests, runs and the mutex are gone.
Crash ==
  /\ adm' = [a \in Admins |-> IdleAdmin]
  /\ run' = [r \in Runners |-> IdleRun]
  /\ result' = [r \in Runners |-> NoResult]
  /\ runMu' = None
  /\ UNCHANGED <<store, file, covered, dataVars, ops>>

\* Somebody with the data directory removes, swaps or spoils recovery.pub, at
\* any time but between the pin a request read and the one it writes.
TamperFile ==
  /\ \A a \in Admins : adm[a].pc \notin {"pin_file", "pin_id"}
  /\ \E f \in Keys \cup {None, Garbage} : file' = f
  /\ UNCHANGED <<store, covered, adminVars, runVars>>

Admin(a) ==
  \/ \E k \in Keys, t \in Topologies :
       BeginPin(a, k, t) \/ \E u \in Urls : BeginPair(a, k, t, u)
  \/ PinCheck(a) \/ PinFile(a) \/ PinID(a) \/ PinThreshold(a) \/ PinTotal(a)
  \/ PairURL(a) \/ PairToken(a)
  \/ BeginUnpair(a) \/ ClearCheck(a) \/ ClearToken(a) \/ ClearURL(a)
  \/ AdminFails(a)

RunStep(r) ==
  \/ MarkAttempt(r)
  \/ KeyFile(r) \/ KeyID(r) \/ KeyThreshold(r) \/ KeyTotal(r)
  \/ HasURL(r) \/ HasToken(r)
  \/ CollectAndSeal(r) \/ LocalCopy(r)
  \/ LoadURL(r) \/ LoadToken(r)
  \/ DepositSend(r) \/ DepositAnswer(r) \/ RecordReceipt(r)
  \/ ReadFault(r) \/ HasFailed(r)

Next ==
  \/ \E a \in Admins : Admin(a)
  \/ \E r \in Runners, cfg \in Configs : BeginRun(r, cfg)
  \/ \E r \in Runners : RefuseRun(r) \/ RunStep(r)
  \/ Crash
  \/ TamperFile

Spec == Init /\ [][Next]_vars

-----------------------------------------------------------------------------
(* Properties *)

Ids == 1..MaxCapsules
AdminPC == {"idle", "pin_check", "pin_file", "pin_id", "pin_threshold",
            "pin_total", "pair_url", "pair_token", "clear_check", "clear_token",
            "clear_url"}
RunPC == {"idle", "mark", "key_file", "key_id", "key_threshold", "key_total",
          "has_url", "has_token", "has_failed", "collect", "local", "load_url",
          "load_token", "deposit", "receipt", "record"}
Errors == {"none", "nil", "ErrInProgress", "ErrSettings", "ErrNotPaired",
           "ErrKeyMismatch", "ErrKeyPinMissing", "ErrNoDestination",
           "ErrBadKeep", "ErrCollect", "ErrKeyFile", "ErrLocal", "ErrSealer", "ErrRemote",
           "ErrReceiptUnrecorded"}

SettingsRows == [keyId : Keys \cup {None}, threshold : Nat \cup {None},
                 total : Nat \cup {None}, url : Urls \cup {None},
                 token : Urls \cup {None}, lastDeposit : Ids \cup {None},
                 lastAttempt : BOOLEAN]
AdminState == [pc : AdminPC, key : Keys \cup {None},
               threshold : Nat, total : Nat, url : Urls \cup {None}]
RunState == [pc : RunPC, backupDir : BOOLEAN, keepValid : BOOLEAN,
             phase : {"seal", "deposit"}, err : Errors,
             pub : Keys \cup {None}, threshold : Nat, total : Nat,
             paired : BOOLEAN, capsule : Ids \cup {None},
             path : BOOLEAN, localErr : BOOLEAN, url : Urls \cup {None},
             token : Urls \cup {None}]
Result == [err : Errors, capsule : Ids \cup {None}, path : BOOLEAN,
           localErr : BOOLEAN, receipt : BOOLEAN, covered : BOOLEAN]
Capsule == [key : Keys \cup {None}, threshold : Nat, total : Nat]

\* The settings rows, the file, the requests and runs in progress and what
\* they produced have the types the code gives them; in particular a run
\* never carries a topology that a row did not hold as an integer.
TypeOK ==
  /\ store \in SettingsRows
  /\ file \in Keys \cup {None, Garbage}
  /\ adm \in [Admins -> AdminState]
  /\ run \in [Runners -> RunState]
  /\ runMu \in Runners \cup {None}
  /\ capsules \in Seq(Capsule)
  /\ Len(capsules) <= MaxCapsules
  /\ locals \subseteq Ids \cup {None}
  /\ held \subseteq [url : Urls \cup {None}, capsule : Ids \cup {None}]
  /\ result \in [Runners -> Result]
  /\ covered \in [Runners -> BOOLEAN]
  /\ ops \in 0..MaxOps

Holds(c) == \E h \in held : h.capsule = c

\* StoreRecoveryKey: once a key ID is pinned, no request, failure, crash, race
\* of two requests or removal of recovery.pub pins another.
PinWriteOnce ==
  [][store.keyId # None => store'.keyId = store.keyId]_vars

\* LoadRecoveryKey before Seal: every capsule is sealed to the pinned key,
\* whatever recovery.pub held when the run read it.
SealedToPinned ==
  \A c \in DOMAIN capsules : capsules[c].key = store.keyId /\ store.keyId # None

\* Run and Deposit: the recorded receipt names a capsule KyRecovery holds,
\* even when a server answers with the receipt of something else.
ReceiptMeansHeld == store.lastDeposit # None => Holds(store.lastDeposit)

\* runMu: two runs never race on the receipt, so the recorded deposit is
\* never replaced by that of an older capsule.
LastDepositAdvances ==
  [][store'.lastDeposit # store.lastDeposit =>
       store.lastDeposit = None \/ store'.lastDeposit > store.lastDeposit]_vars

\* Outcome: a run reported as a success left its capsule at KyRecovery or in
\* the local backup directory.
SuccessMeansStored ==
  \A r \in Runners : result[r].err \in {"nil", "ErrReceiptUnrecorded"} =>
    Holds(result[r].capsule) \/ result[r].capsule \in locals

\* Run: while the pairing stays stored and can be read, no run reports success without the
\* off-site copy; a good local copy never stands in for it.
PairedRunsDeposit ==
  \A r \in Runners :
    result[r].err = "nil" /\ result[r].covered => result[r].receipt

\* Run and LoadPairing: while the pairing stays stored and can be read, a key
\* that is gone or disagrees with the pin is never reported as the quiet
\* ErrNotPaired or ErrKeyMismatch, in whichever of a run's two loads it was
\* found so.  A recovery.pub that cannot be read or is not a key is not among
\* them: its own error, ErrKeyFile here, is what the run returns.
KeyPinMissingReported ==
  \A r \in Runners : result[r].covered =>
    result[r].err \notin {"ErrNotPaired", "ErrKeyMismatch"}

\* runMu: it is held by exactly the run in progress, so whatever fails no later
\* run is refused for one that ended, and no two ever overlap.
LockIsTheRun == \A r \in Runners : runMu = r <=> run[r].pc # "idle"

\* What a run tells its caller is true: its types and its lock are, a receipt
\* and a success are stored somewhere, and under a pairing neither a missing
\* off-site copy nor a missing or mismatched key goes unreported.
RunsReportTruly ==
  /\ TypeOK /\ LockIsTheRun
  /\ ReceiptMeansHeld /\ SuccessMeansStored
  /\ PairedRunsDeposit /\ KeyPinMissingReported
=============================================================================

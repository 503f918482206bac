---------------------------- MODULE BackupProofs ----------------------------
(***************************************************************************)
(* Proofs about what happens to a capsule: the runs and requests of        *)
(* BackupRun, for any number of administrators, runners, keys, servers and *)
(* capsules, and the targets of Offsite, for any number of callers, names  *)
(* and contents.                                                           *)
(***************************************************************************)
EXTENDS BackupRun, Offsite, FiniteSetTheorems, SequenceTheorems, TLAPS

\* Moving a request to another step, or ending it, keeps its type.
LEMMA AdminGotoType ==
  ASSUME adm \in [Admins -> AdminState], NEW a \in Admins, NEW pc \in AdminPC,
         AdminGoto(a, pc)
  PROVE  adm' \in [Admins -> AdminState]
  BY DEF AdminGoto, AdminState

\* A request that ends, with whatever answer, keeps its type.
LEMMA AdminDoneType ==
  ASSUME adm \in [Admins -> AdminState], NEW a \in Admins, AdminDone(a)
  PROVE  adm' \in [Admins -> AdminState]
  BY DEF AdminDone, IdleAdmin, AdminState, AdminPC

\* Every action of an administrator request keeps the types of everything.
LEMMA AdminTypeStep ==
  ASSUME TypeOK, NEW a \in Admins, Admin(a)
  PROVE  TypeOK'
<1> USE DEF TypeOK
<1>1. ASSUME NEW k \in Keys, NEW t \in Topologies, NEW u \in Urls \cup {None},
             BeginPair(a, k, t, u)
      PROVE  TypeOK'
  <2>1. t.threshold \in Nat /\ t.total \in Nat
    BY TopologyAssumption
  <2>2. adm' \in [Admins -> AdminState]
    BY <1>1, <2>1 DEF BeginPair, AdminState, AdminPC
  <2>3. ops' \in 0..MaxOps
    BY <1>1, BoundAssumption DEF BeginPair
  <2> QED BY <1>1, <2>2, <2>3 DEF BeginPair, runVars
<1>2. CASE PinCheck(a)
  <2>1. adm' \in [Admins -> AdminState]
    BY <1>2, AdminGotoType, AdminDoneType DEF PinCheck, PinAllows, AdminPC
  <2> QED BY <1>2, <2>1 DEF PinCheck, PinAllows, runVars
<1>3. CASE PinFile(a)
  <2>1. adm' \in [Admins -> AdminState]
    BY <1>3, AdminGotoType, AdminDoneType DEF PinFile, FileAllows, AdminPC
  <2>2. file' \in Keys \cup {None, Garbage}
    BY <1>3 DEF PinFile, FileAllows, AdminState
  <2> QED BY <1>3, <2>1, <2>2 DEF PinFile, FileAllows, runVars
<1>4. CASE PinID(a)
  BY <1>4, ZenonT(40) DEF PinID, Write, Paired, AdminGoto, AdminDone, IdleAdmin, AdminState, AdminPC, SettingsRows, runVars
<1>5. CASE PinThreshold(a)
  BY <1>5, ZenonT(40) DEF PinThreshold, Write, Paired, AdminGoto, AdminDone, IdleAdmin, AdminState, AdminPC, SettingsRows, runVars
<1>6. CASE PinTotal(a)
  <2>1. adm' \in [Admins -> AdminState]
    BY <1>6, AdminGotoType, AdminDoneType DEF PinTotal, AdminPC
  <2>2. store' \in SettingsRows /\ covered' \in [Runners -> BOOLEAN]
    BY <1>6 DEF PinTotal, Write, AdminState, SettingsRows
  <2> QED BY <1>6, <2>1, <2>2 DEF PinTotal, runVars
<1>7. CASE PairURL(a)
  BY <1>7, ZenonT(40) DEF PairURL, Write, Paired, AdminGoto, AdminDone, IdleAdmin, AdminState, AdminPC, SettingsRows, runVars
<1>8. CASE PairToken(a)
  BY <1>8 DEF PairToken, Write, Paired, AdminGoto, AdminDone, IdleAdmin, AdminState, AdminPC, SettingsRows, runVars
<1>9. CASE BeginUnpair(a)
  <2>1. adm' \in [Admins -> AdminState]
    BY <1>9, AdminGotoType DEF BeginUnpair, AdminPC
  <2>2. ops' \in 0..MaxOps
    BY <1>9, BoundAssumption DEF BeginUnpair
  <2> QED BY <1>9, <2>1, <2>2 DEF BeginUnpair, runVars
<1>10. CASE ClearToken(a)
  BY <1>10, ZenonT(40) DEF ClearToken, Write, Paired, AdminGoto, AdminState, AdminPC, SettingsRows, runVars
<1>11. CASE ClearURL(a)
  BY <1>11 DEF ClearURL, Write, Paired, AdminDone, IdleAdmin, AdminState, AdminPC, SettingsRows, runVars
<1>12. CASE AdminFails(a)
  BY <1>12 DEF AdminFails, AdminDone, IdleAdmin, AdminState, AdminPC, runVars
<1>13. CASE ClearCheck(a)
  <2>1. adm' \in [Admins -> AdminState]
    BY <1>13, AdminGotoType, AdminDoneType DEF ClearCheck, AdminPC
  <2> QED BY <1>13, <2>1 DEF ClearCheck, runVars
<1> QED
  BY <1>1, <1>2, <1>3, <1>4, <1>5, <1>6, <1>7, <1>8, <1>9, <1>10, <1>11, <1>12, <1>13
  DEF Admin, BeginPin

\* Moving a run to another state, returning from it, and acting on
\* HasPairing's answer keep the types of what they assign.
LEMMA StepType ==
  ASSUME run \in [Runners -> RunState], NEW r \in Runners, NEW f \in RunState,
         Step(r, f)
  PROVE  run' \in [Runners -> RunState]
  BY DEF Step

\* What a process holds outside Run is a run state.
LEMMA IdleRunType == IdleRun \in RunState
  BY DEF IdleRun, RunState, RunPC, Errors

\* Returning from Run, with the lock given up, keeps the types.
LEMMA ReturnType ==
  ASSUME TypeOK, NEW r \in Runners, NEW err \in Errors, NEW b \in BOOLEAN,
         Return(r, err, b)
  PROVE  /\ run' \in [Runners -> RunState]
         /\ result' \in [Runners -> Result]
         /\ runMu' \in Runners \cup {None}
<1>1. run' \in [Runners -> RunState]
  BY StepType, IdleRunType DEF Return, Unlock, TypeOK
<1>2. [err |-> err, capsule |-> run[r].capsule, path |-> run[r].path,
       localErr |-> run[r].localErr, receipt |-> b, covered |-> covered[r]] \in Result
  BY DEF TypeOK, RunState, Result
<1>3. result' \in [Runners -> Result]
  BY <1>2 DEF Return, Unlock, TypeOK
<1> QED BY <1>1, <1>3 DEF Return, Unlock

\* A run whose key did not resolve, and that reports so, keeps the types.
LEMMA UnresolvedType ==
  ASSUME TypeOK, NEW r \in Runners, NEW err \in Errors, Unresolved(r, err)
  PROVE  run' \in [Runners -> RunState]
<1>0. run[r] \in RunState
  BY DEF TypeOK
<1>1. [run[r] EXCEPT !.pc = "has_url", !.err = err] \in RunState
  BY <1>0 DEF RunState, RunPC
<1> QED BY <1>1, StepType DEF Unresolved, TypeOK

\* Acting on HasPairing's answer keeps the types.
LEMMA AnsweredType ==
  ASSUME TypeOK, NEW r \in Runners, NEW has \in BOOLEAN, Answered(r, has)
  PROVE  /\ run' \in [Runners -> RunState]
         /\ result' \in [Runners -> Result]
         /\ runMu' \in Runners \cup {None}
<1>1. run[r].err \in Errors /\ "ErrKeyPinMissing" \in Errors
      /\ "ErrNoDestination" \in Errors /\ "ErrBadKeep" \in Errors
  BY DEF TypeOK, RunState, Errors
<1>0. run[r] \in RunState
  BY DEF TypeOK
<1>2. [run[r] EXCEPT !.pc = "collect", !.paired = has] \in RunState
  BY <1>0 DEF RunState, RunPC
<1>3. CASE run[r].err # "nil"
  BY <1>1, <1>3, ReturnType DEF Answered, ReportAs
<1>4. CASE run[r].err = "nil" /\ ~has /\ ~run[r].backupDir
  BY <1>1, <1>4, ReturnType DEF Answered, ReportAs
<1>5. CASE run[r].err = "nil" /\ run[r].backupDir /\ ~run[r].keepValid
  BY <1>1, <1>5, ReturnType DEF Answered, ReportAs
<1>6. CASE /\ ~(run[r].err # "nil")
           /\ ~(run[r].err = "nil" /\ ~has /\ ~run[r].backupDir)
           /\ ~(run[r].err = "nil" /\ run[r].backupDir /\ ~run[r].keepValid)
  <2>1. Step(r, [run[r] EXCEPT !.pc = "collect", !.paired = has])
        /\ UNCHANGED <<runMu, result>>
    BY <1>6 DEF Answered, ReportAs
  <2> QED BY <2>1, <1>2, StepType DEF TypeOK
<1> QED BY <1>3, <1>4, <1>5, <1>6

\* Every action of a run keeps the types of everything.
LEMMA RunTypeStep ==
  ASSUME TypeOK, NEW r \in Runners, RunStep(r)
  PROVE  TypeOK'
<1> USE DEF TypeOK
<1>0. run[r] \in RunState /\ store \in SettingsRows
  OBVIOUS
<1>e. {"ErrSettings", "ErrKeyFile", "ErrNotPaired", "ErrKeyMismatch", "ErrCollect", "ErrLocal",
       "ErrSealer", "ErrRemote", "ErrReceiptUnrecorded", "nil"} \subseteq Errors
  BY DEF Errors
<1>1. CASE MarkAttempt(r)
  <2>1. [store EXCEPT !.lastAttempt = TRUE] \in SettingsRows
    BY <1>0 DEF SettingsRows
  <2>2. [run[r] EXCEPT !.pc = "key_file"] \in RunState
    BY <1>0 DEF RunState, RunPC
  <2>3. /\ store' \in SettingsRows
        /\ covered' \in [Runners -> BOOLEAN]
        /\ run' \in [Runners -> RunState]
        /\ result' \in [Runners -> Result]
        /\ runMu' \in Runners \cup {None}
    BY <1>1, <1>e, <2>1, <2>2, StepType, ReturnType DEF MarkAttempt, Write
  <2> QED BY <1>1, <2>3 DEF MarkAttempt, dataVars, adminVars
<1>2. CASE KeyFile(r)
  <2>1. file \in Keys => [run[r] EXCEPT !.pc = "key_id", !.pub = file] \in RunState
    BY <1>0 DEF RunState, RunPC
  <2>2. /\ run' \in [Runners -> RunState]
        /\ result' \in [Runners -> Result]
        /\ runMu' \in Runners \cup {None}
    BY <1>2, <1>e, <2>1, StepType, UnresolvedType, ReturnType DEF KeyFile
  <2> QED BY <1>2, <2>2 DEF KeyFile, dataVars, adminVars
<1>3. CASE KeyID(r)
  <2>1. [run[r] EXCEPT !.pc = "key_threshold"] \in RunState
    BY <1>0 DEF RunState, RunPC
  <2>2. run' \in [Runners -> RunState]
    BY <1>3, <1>e, <2>1, StepType, UnresolvedType DEF KeyID
  <2> QED BY <1>3, <2>2 DEF KeyID, PinMatches, dataVars, adminVars
<1>4. CASE KeyThreshold(r)
  <2>1. store.threshold # None => store.threshold \in Nat
    BY <1>0 DEF SettingsRows
  <2>2. store.threshold # None =>
          [run[r] EXCEPT !.pc = "key_total", !.threshold = store.threshold] \in RunState
    BY <1>0, <2>1 DEF RunState, RunPC
  <2>3. run' \in [Runners -> RunState]
    BY <1>4, <1>e, <2>2, StepType, UnresolvedType DEF KeyThreshold, Missing
  <2> QED BY <1>4, <2>3 DEF KeyThreshold, dataVars, adminVars
<1>5. CASE KeyTotal(r)
  <2>1. store.total # None => store.total \in Nat
    BY <1>0 DEF SettingsRows
  <2>2. ASSUME NEW pc \in RunPC, store.total # None
        PROVE  [run[r] EXCEPT !.total = store.total, !.pc = pc] \in RunState
    BY <1>0, <2>1, <2>2 DEF RunState
  <2>3. (IF run[r].phase = "seal" THEN "has_url" ELSE "load_url") \in RunPC
    BY DEF RunPC
  <2>4. run' \in [Runners -> RunState]
    BY <1>5, <1>e, <2>2, <2>3, StepType, UnresolvedType DEF KeyTotal, Missing
  <2> QED BY <1>5, <2>4 DEF KeyTotal, dataVars, adminVars
<1>6. CASE HasURL(r)
  <2>1. [run[r] EXCEPT !.pc = "has_token"] \in RunState
    BY <1>0 DEF RunState, RunPC
  <2>2. /\ run' \in [Runners -> RunState]
        /\ result' \in [Runners -> Result]
        /\ runMu' \in Runners \cup {None}
    BY <1>6, <2>1, StepType, AnsweredType DEF HasURL
  <2> QED BY <1>6, <2>2 DEF HasURL, dataVars, adminVars
<1>7. CASE HasToken(r)
  <2>1. (store.token # None) \in BOOLEAN
    OBVIOUS
  <2>2. /\ run' \in [Runners -> RunState]
        /\ result' \in [Runners -> Result]
        /\ runMu' \in Runners \cup {None}
    BY <1>7, <2>1, AnsweredType DEF HasToken
  <2> QED BY <1>7, <2>2 DEF HasToken, dataVars, adminVars
<1>8. CASE CollectAndSeal(r)
  <2>1. CASE /\ Len(capsules) < MaxCapsules
             /\ capsules' = Append(capsules,
                  [key |-> run[r].pub, threshold |-> run[r].threshold,
                   total |-> run[r].total])
             /\ Step(r, [run[r] EXCEPT !.capsule = Len(capsules) + 1, !.pc = "local"])
             /\ UNCHANGED <<runMu, result>>
    <3>1. [key |-> run[r].pub, threshold |-> run[r].threshold,
           total |-> run[r].total] \in Capsule
      BY <1>0 DEF RunState, Capsule
    <3>2. capsules' \in Seq(Capsule) /\ Len(capsules') = Len(capsules) + 1
          /\ Len(capsules) \in Nat
      BY <2>1, <3>1
    <3>3. Len(capsules) + 1 \in Ids
      BY <2>1, <3>2, BoundAssumption DEF Ids
    <3>4. [run[r] EXCEPT !.capsule = Len(capsules) + 1, !.pc = "local"] \in RunState
      BY <1>0, <3>3 DEF RunState, RunPC
    <3>5. run' \in [Runners -> RunState]
      BY <2>1, <3>4, StepType
    <3> QED BY <1>8, <2>1, <3>2, <3>5, BoundAssumption DEF CollectAndSeal, adminVars
  <2>2. CASE Return(r, "ErrCollect", FALSE) /\ UNCHANGED capsules
    BY <1>8, <1>e, <2>2, ReturnType DEF CollectAndSeal, adminVars
  <2> QED BY <1>8, <2>1, <2>2 DEF CollectAndSeal
<1>9. CASE LocalCopy(r)
  <2>1. PICK path \in BOOLEAN, err \in BOOLEAN :
          /\ IF run[r].backupDir THEN path \/ err ELSE ~path /\ ~err
          /\ locals' = IF path THEN locals \cup {run[r].capsule} ELSE locals
          /\ IF Deposits(r, path)
               THEN /\ Step(r, [run[r] EXCEPT !.path = path, !.localErr = err,
                                !.phase = "deposit", !.pc = "key_file"])
                    /\ UNCHANGED <<runMu, result>>
               ELSE ReturnLocal(r, path, err, LocalVerdict(err))
    BY <1>9 DEF LocalCopy
  <2>2. run[r].capsule \in Ids \cup {None}
    BY <1>0 DEF RunState
  <2>3. locals' \subseteq Ids \cup {None}
    BY <2>1, <2>2
  <2>4. CASE Deposits(r, path)
    <3>1. [run[r] EXCEPT !.path = path, !.localErr = err,
                         !.phase = "deposit", !.pc = "key_file"] \in RunState
      BY <1>0 DEF RunState, RunPC
    <3>2. run' \in [Runners -> RunState] /\ UNCHANGED <<runMu, result>>
      BY <2>1, <2>4, <3>1, StepType
    <3> QED BY <1>9, <2>3, <3>2 DEF LocalCopy, adminVars
  <2>5. CASE ~Deposits(r, path)
    <3> DEFINE e == LocalVerdict(err)
    <3>1. e \in Errors
      BY <1>e DEF LocalVerdict
    <3> HIDE DEF e
    <3>2. ReturnLocal(r, path, err, e)
      BY <2>1, <2>5 DEF e
    <3>3. [err |-> e, capsule |-> run[r].capsule, path |-> path,
           localErr |-> err, receipt |-> FALSE, covered |-> covered[r]] \in Result
      BY <2>2, <3>1 DEF Result
    <3>4. /\ run' \in [Runners -> RunState]
          /\ result' \in [Runners -> Result]
          /\ runMu' \in Runners \cup {None}
      BY <3>2, <3>3, StepType, IdleRunType DEF ReturnLocal, Unlock
    <3> QED BY <1>9, <2>3, <3>4 DEF LocalCopy, adminVars
  <2> QED BY <2>4, <2>5
<1>10. CASE LoadURL(r)
  <2>1. store.url \in Urls \cup {None}
    BY <1>0 DEF SettingsRows
  <2>2. [run[r] EXCEPT !.pc = "load_token", !.url = store.url] \in RunState
    BY <1>0, <2>1 DEF RunState, RunPC
  <2>3. /\ run' \in [Runners -> RunState]
        /\ result' \in [Runners -> Result]
        /\ runMu' \in Runners \cup {None}
    BY <1>10, <1>e, <2>2, StepType, ReturnType DEF LoadURL
  <2> QED BY <1>10, <2>3 DEF LoadURL, dataVars, adminVars
<1>11. CASE LoadToken(r)
  <2>1. store.token \in Urls \cup {None}
    BY <1>0 DEF SettingsRows
  <2>2. [run[r] EXCEPT !.pc = "deposit", !.token = store.token] \in RunState
    BY <1>0, <2>1 DEF RunState, RunPC
  <2>3. /\ run' \in [Runners -> RunState]
        /\ result' \in [Runners -> Result]
        /\ runMu' \in Runners \cup {None}
    BY <1>11, <1>e, <2>2, StepType, ReturnType DEF LoadToken
  <2> QED BY <1>11, <2>3 DEF LoadToken, dataVars, adminVars
<1>12. CASE DepositSend(r)
  <2>1. [url |-> run[r].url, capsule |-> run[r].capsule]
          \in [url : Urls \cup {None}, capsule : Ids \cup {None}]
    BY <1>0 DEF RunState
  <2>2. held' \subseteq [url : Urls \cup {None}, capsule : Ids \cup {None}]
    BY <1>12, <2>1 DEF DepositSend
  <2>3. [run[r] EXCEPT !.pc = "receipt"] \in RunState
    BY <1>0 DEF RunState, RunPC
  <2>4. /\ run' \in [Runners -> RunState]
        /\ result' \in [Runners -> Result]
        /\ runMu' \in Runners \cup {None}
    BY <1>12, <1>e, <2>3, StepType, ReturnType DEF DepositSend
  <2> QED BY <1>12, <2>2, <2>4 DEF DepositSend, adminVars
<1>13. CASE DepositAnswer(r)
  <2>1. [run[r] EXCEPT !.pc = "record"] \in RunState
    BY <1>0 DEF RunState, RunPC
  <2>2. /\ run' \in [Runners -> RunState]
        /\ result' \in [Runners -> Result]
        /\ runMu' \in Runners \cup {None}
    BY <1>13, <1>e, <2>1, StepType, ReturnType DEF DepositAnswer
  <2> QED BY <1>13, <2>2 DEF DepositAnswer, dataVars, adminVars
<1>14. CASE RecordReceipt(r)
  <2>1. [store EXCEPT !.lastDeposit = run[r].capsule] \in SettingsRows
    <3>1. run[r].capsule \in Ids \cup {None}
      BY <1>0 DEF RunState
    <3> QED BY <1>0, <3>1 DEF SettingsRows
  <2>2. /\ store' \in SettingsRows
        /\ covered' \in [Runners -> BOOLEAN]
        /\ run' \in [Runners -> RunState]
        /\ result' \in [Runners -> Result]
        /\ runMu' \in Runners \cup {None}
    BY <1>14, <1>e, <2>1, ReturnType DEF RecordReceipt, Write
  <2> QED BY <1>14, <2>2 DEF RecordReceipt, dataVars, adminVars
<1>15. CASE ReadFault(r)
  <2>1. [run[r] EXCEPT !.pc = "has_failed"] \in RunState
    BY <1>0 DEF RunState, RunPC
  <2>2. /\ run' \in [Runners -> RunState]
        /\ result' \in [Runners -> Result]
        /\ runMu' \in Runners \cup {None}
        /\ covered' \in [Runners -> BOOLEAN]
    BY <1>15, <1>e, <2>1, StepType, ReturnType DEF ReadFault
  <2> QED BY <1>15, <2>2 DEF ReadFault, dataVars, adminVars
<1>16. CASE HasFailed(r)
  <2>1. /\ run' \in [Runners -> RunState]
        /\ result' \in [Runners -> Result]
        /\ runMu' \in Runners \cup {None}
    BY <1>16, AnsweredType DEF HasFailed
  <2> QED BY <1>16, <2>1 DEF HasFailed, dataVars, adminVars
<1> QED
  BY <1>1, <1>2, <1>3, <1>4, <1>5, <1>6, <1>7, <1>8, <1>9, <1>10, <1>11,
     <1>12, <1>13, <1>14, <1>15, <1>16 DEF RunStep

\* The settings rows, the file, every request and every run keep their types,
\* whatever interleaving, failure or crash happens.
THEOREM TypeCorrect == Spec => []TypeOK
<1>1. Init => TypeOK
  <2> SUFFICES ASSUME Init PROVE TypeOK
    OBVIOUS
  <2>1. store \in SettingsRows
    BY DEF Init, SettingsRows
  <2>2. adm \in [Admins -> AdminState]
    BY DEF Init, IdleAdmin, AdminState, AdminPC
  <2>3. run \in [Runners -> RunState]
    BY IdleRunType DEF Init
  <2>4. result \in [Runners -> Result]
    BY DEF Init, NoResult, Result, Errors
  <2> QED BY <2>1, <2>2, <2>3, <2>4, BoundAssumption DEF Init, TypeOK
<1>2. TypeOK /\ [Next]_vars => TypeOK'
  <2> SUFFICES ASSUME TypeOK, [Next]_vars PROVE TypeOK'
    OBVIOUS
  <2>1. ASSUME NEW a \in Admins, Admin(a) PROVE TypeOK'
    BY <2>1, AdminTypeStep
  <2>2. ASSUME NEW r \in Runners, NEW cfg \in Configs, BeginRun(r, cfg) PROVE TypeOK'
    <3>1. cfg.backupDir \in BOOLEAN /\ cfg.keepValid \in BOOLEAN
      BY ConfigAssumption
    <3>2. [IdleRun EXCEPT !.pc = "mark", !.backupDir = cfg.backupDir,
                          !.keepValid = cfg.keepValid] \in RunState
      BY <3>1, IdleRunType DEF RunState, RunPC
    <3>3. run' \in [Runners -> RunState]
      BY <2>2, <3>2, StepType DEF BeginRun, TypeOK
    <3>4. result' \in [Runners -> Result]
      BY <2>2 DEF BeginRun, TypeOK, NoResult, Result, Errors
    <3> QED BY <2>2, <3>3, <3>4 DEF BeginRun, TypeOK, Paired, dataVars, adminVars
  <2>3. ASSUME NEW r \in Runners, RefuseRun(r) PROVE TypeOK'
    <3>1. [NoResult EXCEPT !.err = "ErrInProgress"] \in Result
      BY DEF NoResult, Result, Errors
    <3> QED BY <2>3, <3>1 DEF RefuseRun, TypeOK, dataVars, adminVars
  <2>4. ASSUME NEW r \in Runners, RunStep(r) PROVE TypeOK'
    BY <2>4, RunTypeStep
  <2>5. CASE Crash
    <3>1. adm' \in [Admins -> AdminState]
      BY <2>5 DEF Crash, IdleAdmin, AdminState, AdminPC
    <3>2. run' \in [Runners -> RunState]
      BY <2>5, IdleRunType DEF Crash
    <3>3. result' \in [Runners -> Result]
      BY <2>5 DEF Crash, NoResult, Result, Errors
    <3> QED BY <2>5, <3>1, <3>2, <3>3 DEF Crash, TypeOK, dataVars
  <2>6. CASE TamperFile
    BY <2>6 DEF TamperFile, TypeOK, adminVars, runVars
  <2>7. CASE UNCHANGED vars
    BY <2>7 DEF vars, TypeOK
  <2> QED BY <2>1, <2>2, <2>3, <2>4, <2>5, <2>6, <2>7 DEF Next
<1> QED BY <1>1, <1>2, PTL DEF Spec

-----------------------------------------------------------------------------
(* The key pin *)

\* A run whose LoadRecoveryKey has matched the file against the pin.
Resolved(s) ==
  \/ s.pc \in {"key_threshold", "key_total", "collect"}
  \/ s.pc \in {"has_url", "has_token", "has_failed"} /\ s.err = "nil"

\* The file is written before the pin and keyfile.Store never replaces it, so it
\* is the file that settles which of two racing requests pins its key: a request
\* that is past it holds the file's key, and no other key is pinned by then.
PinInv ==
  /\ \A a \in Admins : adm[a].pc \in {"pin_check", "pin_file", "pin_id"} => adm[a].key # None
  /\ \A a \in Admins : adm[a].pc = "pin_file" => store.keyId \in {None, adm[a].key, file}
  /\ \A a \in Admins : adm[a].pc = "pin_id" => adm[a].key = file /\ store.keyId \in {None, file}
  /\ \A r \in Runners : Resolved(run[r]) =>
       run[r].pub = store.keyId /\ store.keyId # None
  /\ SealedToPinned

\* No action of an administrator request replaces the pin or breaks PinInv.
LEMMA AdminPinStep ==
  ASSUME TypeOK, PinInv, NEW a \in Admins, Admin(a)
  PROVE  PinInv' /\ (store.keyId # None => store'.keyId = store.keyId)
<1> USE DEF PinInv, SealedToPinned
<1>0. /\ adm \in [Admins -> AdminState] /\ store \in SettingsRows
  BY DEF TypeOK
<1>1. ASSUME NEW k \in Keys, NEW t \in Topologies, NEW u \in Urls \cup {None},
             BeginPair(a, k, t, u)
      PROVE  PinInv' /\ (store.keyId # None => store'.keyId = store.keyId)
  BY <1>0, <1>1, NoneAssumption DEF BeginPair, runVars, AdminState
<1>2. CASE PinCheck(a)
  BY <1>0, <1>2 DEF PinCheck, PinAllows, AdminGoto, AdminDone, IdleAdmin, AdminState, runVars
<1>3. CASE PinFile(a)
  BY <1>0, <1>3 DEF PinFile, FileAllows, AdminGoto, AdminDone, IdleAdmin, AdminState, runVars
<1>4. CASE PinID(a)
  BY <1>0, <1>4 DEF PinID, Write, AdminGoto, AdminState, SettingsRows, runVars
<1>5. CASE PinThreshold(a)
  BY <1>0, <1>5 DEF PinThreshold, Write, AdminGoto, AdminState, SettingsRows, runVars
<1>6. CASE PinTotal(a)
  BY <1>0, <1>6 DEF PinTotal, Write, AdminGoto, AdminDone, IdleAdmin, AdminState, SettingsRows, runVars
<1>7. CASE PairURL(a)
  BY <1>0, <1>7 DEF PairURL, Write, AdminGoto, AdminState, SettingsRows, runVars
<1>8. CASE PairToken(a)
  BY <1>0, <1>8 DEF PairToken, Write, AdminDone, IdleAdmin, AdminState, SettingsRows, runVars
<1>9. CASE BeginUnpair(a)
  BY <1>0, <1>9 DEF BeginUnpair, AdminGoto, AdminState, runVars
<1>10. CASE ClearToken(a)
  BY <1>0, <1>10 DEF ClearToken, Write, AdminGoto, AdminState, SettingsRows, runVars
<1>11. CASE ClearURL(a)
  BY <1>0, <1>11 DEF ClearURL, Write, AdminDone, IdleAdmin, AdminState, SettingsRows, runVars
<1>12. CASE AdminFails(a)
  BY <1>0, <1>12 DEF AdminFails, AdminDone, IdleAdmin, AdminState, runVars
<1>13. CASE ClearCheck(a)
  BY <1>0, <1>13 DEF ClearCheck, AdminGoto, AdminDone, IdleAdmin, AdminState, runVars
<1> QED
  BY <1>1, <1>2, <1>3, <1>4, <1>5, <1>6, <1>7, <1>8, <1>9, <1>10, <1>11, <1>12, <1>13
  DEF Admin, BeginPin

\* A step of one run that leaves the pin, the file, the requests and the
\* capsules alone.
LEMMA RunOnlyPin ==
  ASSUME TypeOK, PinInv, NEW r \in Runners, NEW f \in RunState, Step(r, f),
         store'.keyId = store.keyId, UNCHANGED <<file, adm, capsules>>,
         Resolved(f) => f.pub = store.keyId /\ store.keyId # None
  PROVE  PinInv'
<1>1. ASSUME NEW q \in Runners, Resolved(run'[q])
      PROVE  run'[q].pub = store.keyId /\ store.keyId # None
  BY <1>1 DEF Step, TypeOK, PinInv
<1> QED BY <1>1 DEF PinInv, SealedToPinned

\* A process outside Run holds no resolved key.
LEMMA IdleUnresolved == ~Resolved(IdleRun)
  BY DEF Resolved, IdleRun

\* No action of a run replaces the pin, and what it seals, it seals to the pin.
LEMMA RunPinStep ==
  ASSUME TypeOK, PinInv, NEW r \in Runners, RunStep(r)
  PROVE  PinInv' /\ store'.keyId = store.keyId
<1>0. /\ run[r] \in RunState /\ store \in SettingsRows
      /\ IdleRun \in RunState
      /\ Resolved(run[r]) => run[r].pub = store.keyId /\ store.keyId # None
  BY IdleRunType DEF TypeOK, PinInv
<1>r. ASSUME NEW err, NEW b, Return(r, err, b),
             store'.keyId = store.keyId, UNCHANGED <<file, adm, capsules>>
      PROVE  PinInv'
  BY <1>0, <1>r, RunOnlyPin, IdleUnresolved DEF Return, Unlock
<1>u. ASSUME NEW err \in Errors \ {"nil"}, Unresolved(r, err),
             UNCHANGED <<store, file, adm, capsules>>
      PROVE  PinInv'
  <2>1. [run[r] EXCEPT !.pc = "has_url", !.err = err] \in RunState
    BY <1>0 DEF RunState, RunPC
  <2>2. ~Resolved([run[r] EXCEPT !.pc = "has_url", !.err = err])
    BY <1>0 DEF Resolved, RunState
  <2> QED BY <1>u, <2>1, <2>2, RunOnlyPin DEF Unresolved
<1>e. {"ErrNotPaired", "ErrKeyMismatch"} \subseteq Errors \ {"nil"}
  BY DEF Errors
<1>a. ASSUME NEW has \in BOOLEAN, Answered(r, has),
             run[r].pc \in {"has_url", "has_token", "has_failed"},
             UNCHANGED <<store, file, adm, capsules>>
      PROVE  PinInv'
  <2>1. CASE run[r].err # "nil"
    BY <1>a, <1>r, <2>1 DEF Answered, ReportAs
  <2>2. CASE run[r].err = "nil" /\ ~has /\ ~run[r].backupDir
    BY <1>a, <1>r, <2>2 DEF Answered, ReportAs
  <2>3. CASE run[r].err = "nil" /\ run[r].backupDir /\ ~run[r].keepValid
    BY <1>a, <1>r, <2>3 DEF Answered, ReportAs
  <2>4. CASE /\ run[r].err = "nil"
             /\ ~(~has /\ ~run[r].backupDir)
             /\ ~(run[r].backupDir /\ ~run[r].keepValid)
    <3>1. Step(r, [run[r] EXCEPT !.pc = "collect", !.paired = has])
      BY <1>a, <2>4 DEF Answered, ReportAs
    <3>2. /\ [run[r] EXCEPT !.pc = "collect", !.paired = has] \in RunState
          /\ [run[r] EXCEPT !.pc = "collect", !.paired = has].pub = run[r].pub
      BY <1>0 DEF RunState, RunPC
    <3>3. Resolved(run[r])
      BY <1>a, <2>4 DEF Resolved
    <3> QED BY <1>0, <1>a, <3>1, <3>2, <3>3, RunOnlyPin
  <2> QED BY <2>1, <2>2, <2>3, <2>4
<1>1. CASE MarkAttempt(r)
  <2>1. store'.keyId = store.keyId
    BY <1>0, <1>1 DEF MarkAttempt, Write, SettingsRows
  <2>2. /\ [run[r] EXCEPT !.pc = "key_file"] \in RunState
        /\ ~Resolved([run[r] EXCEPT !.pc = "key_file"])
    BY <1>0 DEF RunState, RunPC, Resolved
  <2> QED BY <1>1, <1>r, <2>1, <2>2, RunOnlyPin DEF MarkAttempt, dataVars, adminVars
<1>2. CASE KeyFile(r)
  <2>1. file \in Keys =>
          /\ [run[r] EXCEPT !.pc = "key_id", !.pub = file] \in RunState
          /\ ~Resolved([run[r] EXCEPT !.pc = "key_id", !.pub = file])
    BY <1>0 DEF RunState, RunPC, Resolved, TypeOK
  <2> QED BY <1>2, <1>r, <1>u, <1>e, <2>1, RunOnlyPin DEF KeyFile, dataVars, adminVars
<1>3. CASE KeyID(r)
  <2>1. /\ [run[r] EXCEPT !.pc = "key_threshold"] \in RunState
        /\ [run[r] EXCEPT !.pc = "key_threshold"].pub = run[r].pub
    BY <1>0 DEF RunState, RunPC
  <2> QED BY <1>3, <1>u, <1>e, <2>1, RunOnlyPin DEF KeyID, PinMatches, dataVars, adminVars
<1>4. CASE KeyThreshold(r)
  <2>1. store.threshold # None => store.threshold \in Nat
    BY <1>0 DEF SettingsRows
  <2>2. store.threshold # None =>
          /\ [run[r] EXCEPT !.pc = "key_total", !.threshold = store.threshold] \in RunState
          /\ [run[r] EXCEPT !.pc = "key_total", !.threshold = store.threshold].pub = run[r].pub
    BY <1>0, <2>1 DEF RunState, RunPC
  <2>3. Resolved(run[r])
    BY <1>4 DEF KeyThreshold, Resolved
  <2> QED BY <1>0, <1>4, <1>u, <1>e, <2>2, <2>3, RunOnlyPin DEF KeyThreshold, Missing, dataVars, adminVars
<1>5. CASE KeyTotal(r)
  <2>1. store.total # None => store.total \in Nat
    BY <1>0 DEF SettingsRows
  <2>2. ASSUME NEW pc \in RunPC, store.total # None
        PROVE  /\ [run[r] EXCEPT !.total = store.total, !.pc = pc] \in RunState
               /\ [run[r] EXCEPT !.total = store.total, !.pc = pc].pub = run[r].pub
    BY <1>0, <2>1, <2>2 DEF RunState
  <2>3. (IF run[r].phase = "seal" THEN "has_url" ELSE "load_url") \in RunPC
    BY DEF RunPC
  <2>4. Resolved(run[r])
    BY <1>5 DEF KeyTotal, Resolved
  <2> QED BY <1>0, <1>5, <1>u, <1>e, <2>2, <2>3, <2>4, RunOnlyPin DEF KeyTotal, Missing, dataVars, adminVars
<1>6. CASE HasURL(r)
  <2>1. /\ [run[r] EXCEPT !.pc = "has_token"] \in RunState
        /\ [run[r] EXCEPT !.pc = "has_token"].pub = run[r].pub
        /\ Resolved([run[r] EXCEPT !.pc = "has_token"]) => run[r].err = "nil"
    BY <1>0 DEF RunState, RunPC, Resolved
  <2>2. run[r].err = "nil" => Resolved(run[r])
    BY <1>6 DEF HasURL, Resolved
  <2> QED BY <1>0, <1>6, <1>a, <2>1, <2>2, RunOnlyPin DEF HasURL, dataVars, adminVars
<1>7. CASE HasToken(r)
  <2>1. (store.token # None) \in BOOLEAN
    OBVIOUS
  <2> QED BY <1>7, <1>a, <2>1 DEF HasToken, dataVars, adminVars
<1>8. CASE CollectAndSeal(r)
  <2>1. CASE Return(r, "ErrCollect", FALSE) /\ UNCHANGED capsules
    BY <1>8, <1>r, <2>1 DEF CollectAndSeal, adminVars
  <2>2. CASE /\ Len(capsules) < MaxCapsules
             /\ capsules' = Append(capsules,
                  [key |-> run[r].pub, threshold |-> run[r].threshold,
                   total |-> run[r].total])
             /\ Step(r, [run[r] EXCEPT !.capsule = Len(capsules) + 1, !.pc = "local"])
    <3>1. run[r].pub = store.keyId /\ store.keyId # None
      BY <1>0, <1>8 DEF CollectAndSeal, Resolved
    <3>2. \A c \in DOMAIN capsules' : capsules'[c].key = store.keyId
      BY <2>2, <3>1 DEF PinInv, SealedToPinned, TypeOK
    <3>3. ~Resolved([run[r] EXCEPT !.capsule = Len(capsules) + 1, !.pc = "local"])
      BY <1>0 DEF RunState, Resolved
    <3>4. ASSUME NEW q \in Runners, Resolved(run'[q])
          PROVE  run'[q].pub = store.keyId /\ store.keyId # None
      BY <2>2, <3>3, <3>4 DEF Step, TypeOK, PinInv
    <3> QED BY <1>8, <3>1, <3>2, <3>4 DEF CollectAndSeal, PinInv, SealedToPinned, adminVars
  <2> QED BY <1>8, <2>1, <2>2 DEF CollectAndSeal
<1>9. CASE LocalCopy(r)
  <2>1. PICK path \in BOOLEAN, err \in BOOLEAN :
          IF Deposits(r, path)
            THEN Step(r, [run[r] EXCEPT !.path = path, !.localErr = err,
                                !.phase = "deposit", !.pc = "key_file"])
            ELSE Step(r, IdleRun)
    BY <1>9 DEF LocalCopy, ReturnLocal
  <2>2. [run[r] EXCEPT !.path = path, !.localErr = err,
                       !.phase = "deposit", !.pc = "key_file"] \in RunState
    BY <1>0 DEF RunState, RunPC
  <2>3. [run[r] EXCEPT !.path = path, !.localErr = err,
                       !.phase = "deposit", !.pc = "key_file"].pc = "key_file"
    BY <1>0 DEF RunState
  <2>4. ~Resolved([run[r] EXCEPT !.path = path, !.localErr = err,
                                 !.phase = "deposit", !.pc = "key_file"])
    BY <2>3 DEF Resolved
  <2> QED BY <1>0, <1>9, <2>1, <2>2, <2>4, RunOnlyPin, IdleUnresolved DEF LocalCopy, adminVars
<1>10. CASE LoadURL(r)
  <2>1. store.url \in Urls \cup {None}
    BY <1>0 DEF SettingsRows
  <2>2. /\ [run[r] EXCEPT !.pc = "load_token", !.url = store.url] \in RunState
        /\ ~Resolved([run[r] EXCEPT !.pc = "load_token", !.url = store.url])
    BY <1>0, <2>1 DEF RunState, RunPC, Resolved
  <2> QED BY <1>10, <1>r, <2>2, RunOnlyPin DEF LoadURL, dataVars, adminVars
<1>11. CASE LoadToken(r)
  <2>1. store.token \in Urls \cup {None}
    BY <1>0 DEF SettingsRows
  <2>2. /\ [run[r] EXCEPT !.pc = "deposit", !.token = store.token] \in RunState
        /\ ~Resolved([run[r] EXCEPT !.pc = "deposit", !.token = store.token])
    BY <1>0, <2>1, ZenonT(40) DEF RunState, RunPC, Resolved
  <2> QED BY <1>11, <1>r, <2>2, RunOnlyPin DEF LoadToken, dataVars, adminVars
<1>12. CASE DepositSend(r)
  <2>1. /\ [run[r] EXCEPT !.pc = "receipt"] \in RunState
        /\ ~Resolved([run[r] EXCEPT !.pc = "receipt"])
    BY <1>0 DEF RunState, RunPC, Resolved
  <2> QED BY <1>12, <1>r, <2>1, RunOnlyPin DEF DepositSend, adminVars
<1>13. CASE DepositAnswer(r)
  <2>1. /\ [run[r] EXCEPT !.pc = "record"] \in RunState
        /\ ~Resolved([run[r] EXCEPT !.pc = "record"])
    BY <1>0 DEF RunState, RunPC, Resolved
  <2> QED BY <1>13, <1>r, <2>1, RunOnlyPin DEF DepositAnswer, dataVars, adminVars
<1>14. CASE RecordReceipt(r)
  <2>1. store'.keyId = store.keyId
    BY <1>0, <1>14 DEF RecordReceipt, Write, SettingsRows
  <2> QED BY <1>14, <1>r, <2>1 DEF RecordReceipt, dataVars, adminVars
<1>15. CASE ReadFault(r)
  <2>1. /\ [run[r] EXCEPT !.pc = "has_failed"] \in RunState
        /\ [run[r] EXCEPT !.pc = "has_failed"].pub = run[r].pub
        /\ Resolved([run[r] EXCEPT !.pc = "has_failed"]) => run[r].err = "nil"
    BY <1>0 DEF RunState, RunPC, Resolved
  <2>2. run[r].pc \in {"has_url", "has_token"} /\ run[r].err = "nil" => Resolved(run[r])
    BY DEF Resolved
  <2> QED BY <1>0, <1>15, <1>r, <2>1, <2>2, RunOnlyPin DEF ReadFault, dataVars, adminVars
<1>16. CASE HasFailed(r)
  BY <1>16, <1>a DEF HasFailed, dataVars, adminVars
<1> QED
  BY <1>1, <1>2, <1>3, <1>4, <1>5, <1>6, <1>7, <1>8, <1>9, <1>10, <1>11,
     <1>12, <1>13, <1>14, <1>15, <1>16 DEF RunStep

\* A step of the whole system.
LEMMA PinStep ==
  ASSUME TypeOK, PinInv, [Next]_vars
  PROVE  PinInv' /\ (store.keyId # None => store'.keyId = store.keyId)
<1>1. ASSUME NEW a \in Admins, Admin(a)
      PROVE  PinInv' /\ (store.keyId # None => store'.keyId = store.keyId)
  BY <1>1, AdminPinStep
<1>2. ASSUME NEW r \in Runners, NEW cfg \in Configs, BeginRun(r, cfg)
      PROVE  PinInv' /\ store'.keyId = store.keyId
  <2>1. cfg.backupDir \in BOOLEAN /\ cfg.keepValid \in BOOLEAN
    BY ConfigAssumption
  <2>2. [IdleRun EXCEPT !.pc = "mark", !.backupDir = cfg.backupDir,
                        !.keepValid = cfg.keepValid] \in RunState
    BY <2>1, IdleRunType DEF RunState, RunPC
  <2>3. ~Resolved([IdleRun EXCEPT !.pc = "mark", !.backupDir = cfg.backupDir,
                                  !.keepValid = cfg.keepValid])
    BY DEF Resolved, IdleRun
  <2> QED BY <1>2, <2>2, <2>3, RunOnlyPin DEF BeginRun, dataVars, adminVars
<1>3. ASSUME NEW r \in Runners, RefuseRun(r)
      PROVE  PinInv' /\ store'.keyId = store.keyId
  BY <1>3 DEF RefuseRun, PinInv, SealedToPinned, dataVars, adminVars
<1>4. ASSUME NEW r \in Runners, RunStep(r)
      PROVE  PinInv' /\ store'.keyId = store.keyId
  BY <1>4, RunPinStep
<1>5. CASE Crash
  BY <1>5, IdleUnresolved DEF Crash, PinInv, SealedToPinned, IdleAdmin, dataVars
<1>6. CASE TamperFile
  BY <1>6 DEF TamperFile, PinInv, SealedToPinned, adminVars, runVars
<1>7. CASE UNCHANGED vars
  BY <1>7 DEF vars, PinInv, SealedToPinned
<1> QED BY <1>1, <1>2, <1>3, <1>4, <1>5, <1>6, <1>7 DEF Next

\* PinInv holds in every reachable state.
LEMMA PinInvariant == Spec => []PinInv
<1>1. Init => PinInv
  BY IdleUnresolved DEF Init, PinInv, SealedToPinned, IdleAdmin
<1>2. TypeOK /\ PinInv /\ [Next]_vars => PinInv'
  BY PinStep
<1> QED BY <1>1, <1>2, TypeCorrect, PTL DEF Spec

\* StoreRecoveryKey pins one key for ever: however many requests race, fail
\* half way or are cut off by a crash, and whoever removes or swaps recovery.pub
\* outside the window of a request, a pinned key ID is never replaced.
THEOREM PinIsWriteOnce == Spec => PinWriteOnce
<1>1. TypeOK /\ PinInv /\ [Next]_vars =>
        [store.keyId # None => store'.keyId = store.keyId]_vars
  BY PinStep
<1> QED BY <1>1, TypeCorrect, PinInvariant, PTL DEF Spec, PinWriteOnce

\* Run seals every capsule to the pinned key, for any number of concurrent
\* runs and administrator requests, whatever recovery.pub holds.
THEOREM CapsulesSealedToPin == Spec => []SealedToPinned
<1>1. PinInv => SealedToPinned
  BY DEF PinInv
<1> QED BY <1>1, PinInvariant, PTL

-----------------------------------------------------------------------------
(* What a run reports *)

SomeHolds(hs, c) == \E h \in hs : h.capsule = c

\* The locals f of a run whose pairing is covered or not (c), beside the
\* recorded deposit, the servers' capsules and the number of capsules sealed:
\* HasPairing's answer is kept until it is used, a receipt that was accepted is
\* for a capsule that is held, and the capsule is newer than the recorded one.
LocalsTrue(f, c, last, hs, n) ==
  /\ f.err \in {"nil", "ErrNotPaired", "ErrKeyMismatch"}
  /\ f.pc = "has_failed" => ~c
  /\ f.pc \in {"collect", "local"} =>
       (f.backupDir = TRUE \/ f.paired = TRUE) /\ (c => f.paired = TRUE)
  /\ f.pc = "record" => f.capsule \in 1..n /\ SomeHolds(hs, f.capsule)
  /\ f.pc # "idle" /\ f.capsule # None /\ last # None => last < f.capsule

\* What a call of Run returned is true of the servers and the directory.
ResultTrue(o, hs, ls) ==
  /\ o.err \in {"nil", "ErrReceiptUnrecorded"} =>
       SomeHolds(hs, o.capsule) \/ o.capsule \in ls
  /\ o.err = "nil" /\ o.covered => o.receipt
  /\ o.covered => o.err \notin {"ErrNotPaired", "ErrKeyMismatch"}

\* RunsReportTruly speaks of returned results only; what makes it inductive is
\* what the run in progress carries towards its result, and that runMu leaves no
\* other run whose older capsule could be recorded later.
ReportInv ==
  /\ LockIsTheRun
  /\ \A r \in Runners : covered[r] => Paired(store)
  /\ ReceiptMeansHeld
  /\ store.lastDeposit # None => store.lastDeposit <= Len(capsules)
  /\ \A r \in Runners :
       LocalsTrue(run[r], covered[r], store.lastDeposit, held, Len(capsules))
  /\ \A r \in Runners : ResultTrue(result[r], held, locals)

\* Capsules, once sealed, held or written, stay so.
OnlyGrows ==
  /\ held \subseteq held' /\ locals \subseteq locals'
  /\ Len(capsules) \in Nat /\ Len(capsules') \in Nat /\ Len(capsules) <= Len(capsules')

\* No step covers a run but the one that begins it, and a write that leaves
\* half a pairing uncovers every run.
OnlyUncovers ==
  \A q \in Runners : covered'[q] => covered[q] /\ Paired(store')

\* What is true of a run or of a result stays true as capsules are added.
LEMMA LocalsStayTrue ==
  ASSUME NEW f, NEW c \in BOOLEAN, NEW d \in BOOLEAN, NEW last, NEW hs, NEW hs2,
         NEW n \in Nat, NEW m \in Nat, n <= m, hs \subseteq hs2, d => c,
         LocalsTrue(f, c, last, hs, n)
  PROVE  LocalsTrue(f, d, last, hs2, m)
  BY DEF LocalsTrue, SomeHolds

\* The same of a result.
LEMMA ResultStaysTrue ==
  ASSUME NEW o, NEW hs, NEW hs2, NEW ls, NEW ls2, hs \subseteq hs2, ls \subseteq ls2,
         ResultTrue(o, hs, ls)
  PROVE  ResultTrue(o, hs2, ls2)
  BY DEF ResultTrue, SomeHolds

\* A step that leaves runs and results alone: administrators and the file.
LEMMA QuietStep ==
  ASSUME TypeOK, TypeOK', ReportInv, UNCHANGED runVars, OnlyUncovers,
         store'.lastDeposit = store.lastDeposit
  PROVE  ReportInv'
<1>1. LockIsTheRun' /\ ReceiptMeansHeld'
      /\ (store'.lastDeposit # None => store'.lastDeposit <= Len(capsules'))
  BY DEF ReportInv, runVars, LockIsTheRun, ReceiptMeansHeld, Holds
<1>2. \A r \in Runners : covered'[r] => Paired(store')
  BY DEF OnlyUncovers
<1>3. \A r \in Runners : ResultTrue(result'[r], held', locals')
  BY DEF ReportInv, runVars
<1>4. ASSUME NEW r \in Runners
      PROVE  LocalsTrue(run'[r], covered'[r], store'.lastDeposit, held', Len(capsules'))
  <2>1. LocalsTrue(run[r], covered[r], store.lastDeposit, held, Len(capsules))
        /\ (covered'[r] => covered[r])
    BY DEF ReportInv, OnlyUncovers
  <2>2. covered[r] \in BOOLEAN /\ covered'[r] \in BOOLEAN /\ Len(capsules) \in Nat
    BY DEF TypeOK
  <2>3. LocalsTrue(run[r], covered'[r], store.lastDeposit, held, Len(capsules))
    BY <2>1, <2>2, LocalsStayTrue
  <2> QED BY <2>3 DEF runVars
<1> QED BY <1>1, <1>2, <1>3, <1>4 DEF ReportInv

\* A run moves on: its new locals have to be true, and nothing else changes that
\* a run or a result depends on.
LEMMA RunMovesOn ==
  ASSUME TypeOK, TypeOK', ReportInv, NEW r \in Runners, NEW f \in RunState, Step(r, f),
         run[r].pc # "idle", f.pc # "idle", UNCHANGED <<runMu, result>>,
         OnlyGrows, OnlyUncovers, store'.lastDeposit = store.lastDeposit,
         LocalsTrue(f, covered'[r], store.lastDeposit, held', Len(capsules'))
  PROVE  ReportInv'
<1>1. run'[r] = f /\ \A q \in Runners \ {r} : run'[q] = run[q]
  BY DEF Step, TypeOK
<1>2. LockIsTheRun'
  BY <1>1 DEF ReportInv, LockIsTheRun
<1>3. ReceiptMeansHeld'
      /\ (store'.lastDeposit # None => store'.lastDeposit <= Len(capsules'))
  <2>1. ReceiptMeansHeld'
    BY DEF ReportInv, ReceiptMeansHeld, Holds, OnlyGrows
  <2>2. store.lastDeposit # None => store.lastDeposit \in Nat
    BY DEF TypeOK, SettingsRows, Ids
  <2> QED BY <2>1, <2>2 DEF ReportInv, OnlyGrows
<1>4. \A q \in Runners : covered'[q] => Paired(store')
  BY DEF OnlyUncovers
<1>5. \A q \in Runners : ResultTrue(result'[q], held', locals')
  BY ResultStaysTrue DEF ReportInv, OnlyGrows
<1>6. ASSUME NEW q \in Runners \ {r}
      PROVE  LocalsTrue(run'[q], covered'[q], store'.lastDeposit, held', Len(capsules'))
  <2>1. LocalsTrue(run[q], covered[q], store.lastDeposit, held, Len(capsules))
        /\ (covered'[q] => covered[q])
    BY DEF ReportInv, OnlyUncovers
  <2>2. covered[q] \in BOOLEAN /\ covered'[q] \in BOOLEAN
    BY DEF TypeOK
  <2>3. LocalsTrue(run[q], covered'[q], store.lastDeposit, held', Len(capsules'))
    BY <2>1, <2>2, LocalsStayTrue DEF OnlyGrows
  <2> QED BY <1>1, <2>3
<1> QED BY <1>1, <1>2, <1>3, <1>4, <1>5, <1>6 DEF ReportInv

\* A run returns: its result has to be true.  When it records a deposit, that
\* is a capsule that is held; every other run is outside Run.
LEMMA RunReturns ==
  ASSUME TypeOK, TypeOK', ReportInv, NEW r \in Runners, NEW o \in Result,
         run[r].pc # "idle",
         result' = [result EXCEPT ![r] = o], Step(r, IdleRun), runMu' = None,
         OnlyGrows, OnlyUncovers, ResultTrue(o, held', locals'),
         \/ store'.lastDeposit = store.lastDeposit
         \/ /\ store'.lastDeposit \in 1..Len(capsules')
            /\ SomeHolds(held', store'.lastDeposit)
  PROVE  ReportInv'
<1>1. run'[r] = IdleRun /\ \A q \in Runners \ {r} : run'[q] = run[q]
  BY DEF Step, TypeOK
<1>2. runMu = r /\ \A q \in Runners : run'[q].pc = "idle"
  BY <1>1 DEF ReportInv, LockIsTheRun, IdleRun
<1>3. LockIsTheRun'
  BY <1>2, NoneAssumption DEF LockIsTheRun
<1>4. ReceiptMeansHeld'
  BY DEF ReportInv, ReceiptMeansHeld, Holds, SomeHolds, OnlyGrows
<1>5. store'.lastDeposit # None => store'.lastDeposit <= Len(capsules')
  <2>1. store.lastDeposit # None => store.lastDeposit \in Nat
    BY DEF TypeOK, SettingsRows, Ids
  <2> QED BY <2>1 DEF ReportInv, OnlyGrows
<1>6. \A q \in Runners : covered'[q] => Paired(store')
  BY DEF OnlyUncovers
<1>7. ASSUME NEW q \in Runners
      PROVE  ResultTrue(result'[q], held', locals')
  <2>1. ResultTrue(result[q], held', locals')
    BY ResultStaysTrue DEF ReportInv, OnlyGrows
  <2>2. result'[q] = IF q = r THEN o ELSE result[q]
    BY DEF TypeOK
  <2> QED BY <2>1, <2>2
<1>8. ASSUME NEW q \in Runners
      PROVE  LocalsTrue(run'[q], covered'[q], store'.lastDeposit, held', Len(capsules'))
  <2>1. run'[q].err \in {"nil", "ErrNotPaired", "ErrKeyMismatch"}
    BY <1>1 DEF ReportInv, LocalsTrue, IdleRun
  <2> QED BY <1>2, <2>1 DEF LocalsTrue
<1> QED BY <1>3, <1>4, <1>5, <1>6, <1>7, <1>8 DEF ReportInv

\* A write of a row covers no run that was not, and uncovers every run when it
\* leaves half a pairing.
LEMMA WriteUncovers ==
  ASSUME TypeOK, NEW rows, Write(rows)
  PROVE  OnlyUncovers /\ store' = rows
  BY DEF Write, OnlyUncovers, TypeOK

\* A step that leaves the rows and what covers a run as they were.
LEMMA StoreKept ==
  ASSUME ReportInv, UNCHANGED <<store, covered>>
  PROVE  OnlyUncovers /\ store'.lastDeposit = store.lastDeposit
  BY DEF ReportInv, OnlyUncovers

\* Requests of administrators change no result, and uncover what they unpair.
LEMMA AdminReportStep ==
  ASSUME TypeOK, TypeOK', ReportInv, NEW a \in Admins, Admin(a)
  PROVE  ReportInv' /\ store'.lastDeposit = store.lastDeposit
<1>0. store \in SettingsRows
  BY DEF TypeOK
<1>w. ASSUME NEW rows, Write(rows), rows.lastDeposit = store.lastDeposit,
             UNCHANGED runVars
      PROVE  ReportInv' /\ store'.lastDeposit = store.lastDeposit
  BY <1>w, WriteUncovers, QuietStep
<1>k. ASSUME UNCHANGED <<store, covered, runVars>>
      PROVE  ReportInv' /\ store'.lastDeposit = store.lastDeposit
  BY <1>k, StoreKept, QuietStep
<1>1. ASSUME NEW k \in Keys, NEW t \in Topologies, NEW u \in Urls \cup {None},
             BeginPair(a, k, t, u)
      PROVE  UNCHANGED <<store, covered, runVars>>
  BY <1>1 DEF BeginPair
<1>2. CASE PinCheck(a) \/ PinFile(a) \/ BeginUnpair(a) \/ ClearCheck(a) \/ AdminFails(a)
  BY <1>2, <1>k DEF PinCheck, PinFile, BeginUnpair, ClearCheck, AdminFails
<1>3. CASE PinID(a)
  <2>1. [store EXCEPT !.keyId = adm[a].key].lastDeposit = store.lastDeposit
    BY <1>0 DEF SettingsRows
  <2> QED BY <1>3, <2>1, <1>w DEF PinID
<1>4. CASE PinThreshold(a)
  <2>1. [store EXCEPT !.threshold = adm[a].threshold].lastDeposit = store.lastDeposit
    BY <1>0 DEF SettingsRows
  <2> QED BY <1>4, <2>1, <1>w DEF PinThreshold
<1>5. CASE PinTotal(a)
  <2>1. [store EXCEPT !.total = adm[a].total].lastDeposit = store.lastDeposit
    BY <1>0 DEF SettingsRows
  <2> QED BY <1>5, <2>1, <1>w DEF PinTotal
<1>6. CASE PairURL(a)
  <2>1. [store EXCEPT !.url = adm[a].url].lastDeposit = store.lastDeposit
    BY <1>0 DEF SettingsRows
  <2> QED BY <1>6, <2>1, <1>w DEF PairURL
<1>7. CASE PairToken(a)
  <2>1. [store EXCEPT !.token = adm[a].url].lastDeposit = store.lastDeposit
    BY <1>0 DEF SettingsRows
  <2> QED BY <1>7, <2>1, <1>w DEF PairToken
<1>8. CASE ClearToken(a)
  <2>1. [store EXCEPT !.token = None].lastDeposit = store.lastDeposit
    BY <1>0 DEF SettingsRows
  <2> QED BY <1>8, <2>1, <1>w DEF ClearToken
<1>9. CASE ClearURL(a)
  <2>1. [store EXCEPT !.url = None].lastDeposit = store.lastDeposit
    BY <1>0 DEF SettingsRows
  <2> QED BY <1>9, <2>1, <1>w DEF ClearURL
<1> QED
  BY <1>k, <1>1, <1>2, <1>3, <1>4, <1>5, <1>6, <1>7, <1>8, <1>9 DEF Admin, BeginPin

\* A run goes on to a step where LocalsTrue asks nothing new of it.
LEMMA RunGoesOn ==
  ASSUME TypeOK, TypeOK', ReportInv, NEW r \in Runners, NEW f \in RunState, Step(r, f),
         run[r].pc # "idle", f.pc \notin {"idle", "has_failed", "collect", "local", "record"},
         f.err \in {"nil", "ErrNotPaired", "ErrKeyMismatch"}, f.capsule = run[r].capsule,
         UNCHANGED <<runMu, result>>, OnlyGrows, OnlyUncovers,
         store'.lastDeposit = store.lastDeposit
  PROVE  ReportInv'
<1>1. run[r].pc # "idle" /\ run[r].capsule # None /\ store.lastDeposit # None
        => store.lastDeposit < run[r].capsule
  BY DEF ReportInv, LocalsTrue
<1>2. LocalsTrue(f, covered'[r], store.lastDeposit, held', Len(capsules'))
  BY <1>1 DEF LocalsTrue
<1> QED BY <1>2, RunMovesOn

\* A run returns an error that is no success, and that is not the quiet one of
\* a missing pairing unless the pairing really went.
LEMMA RunFails ==
  ASSUME TypeOK, TypeOK', ReportInv, NEW r \in Runners,
         NEW err \in Errors \ {"nil", "ErrReceiptUnrecorded"},
         run[r].pc # "idle", Return(r, err, FALSE),
         covered[r] => err \notin {"ErrNotPaired", "ErrKeyMismatch"},
         OnlyGrows, OnlyUncovers, store'.lastDeposit = store.lastDeposit
  PROVE  ReportInv'
<1> DEFINE o == [err |-> err, capsule |-> run[r].capsule, path |-> run[r].path,
                 localErr |-> run[r].localErr, receipt |-> FALSE, covered |-> covered[r]]
<1>1. o \in Result
  BY DEF TypeOK, RunState, Result
<1>2. o.err = err /\ o.covered = covered[r]
  OBVIOUS
<1>3. result' = [result EXCEPT ![r] = o] /\ Step(r, IdleRun) /\ runMu' = None
  BY DEF Return, Unlock
<1> HIDE DEF o
<1>4. ResultTrue(o, held', locals')
  BY <1>2 DEF ResultTrue
<1> QED BY <1>1, <1>3, <1>4, RunReturns

\* A run acts on HasPairing's answer: false is only answered once the pairing is
\* not covered.
LEMMA RunAnswers ==
  ASSUME TypeOK, TypeOK', ReportInv, NEW r \in Runners, NEW has \in BOOLEAN,
         Answered(r, has), run[r].pc # "idle", covered[r] => has,
         OnlyGrows, UNCHANGED <<store, covered>>
  PROVE  ReportInv'
<1>0. /\ run[r] \in RunState /\ covered[r] \in BOOLEAN
      /\ run[r].err \in {"nil", "ErrNotPaired", "ErrKeyMismatch"}
      /\ run[r].capsule # None /\ store.lastDeposit # None => store.lastDeposit < run[r].capsule
  BY DEF TypeOK, ReportInv, LocalsTrue
<1>s. OnlyUncovers /\ store'.lastDeposit = store.lastDeposit
  BY StoreKept
<1>e. {"ErrNotPaired", "ErrKeyMismatch", "ErrKeyPinMissing", "ErrNoDestination", "ErrBadKeep"}
        \subseteq Errors \ {"nil", "ErrReceiptUnrecorded"}
  BY DEF Errors
<1>1. CASE run[r].err # "nil"
  <2> DEFINE e == ReportAs(run[r].err, has)
  <2>1. Return(r, e, FALSE)
    BY <1>1 DEF Answered
  <2>2. e \in {"ErrNotPaired", "ErrKeyMismatch", "ErrKeyPinMissing"}
        /\ (covered[r] => e = "ErrKeyPinMissing")
    BY <1>0, <1>1 DEF ReportAs
  <2> HIDE DEF e
  <2>3. e \in Errors \ {"nil", "ErrReceiptUnrecorded"}
        /\ (covered[r] => e \notin {"ErrNotPaired", "ErrKeyMismatch"})
    BY <1>e, <2>2
  <2> QED BY <1>s, <2>1, <2>3, RunFails
<1>2. CASE run[r].err = "nil" /\ ~has /\ ~run[r].backupDir
  <2>1. Return(r, "ErrNoDestination", FALSE)
    BY <1>2 DEF Answered
  <2> QED BY <1>s, <1>e, <2>1, RunFails
<1>3. CASE run[r].err = "nil" /\ run[r].backupDir /\ ~run[r].keepValid
  <2>1. Return(r, "ErrBadKeep", FALSE)
    BY <1>3 DEF Answered
  <2> QED BY <1>s, <1>e, <2>1, RunFails
<1>4. CASE /\ run[r].err = "nil"
           /\ ~(~has /\ ~run[r].backupDir)
           /\ ~(run[r].backupDir /\ ~run[r].keepValid)
  <2> DEFINE f == [run[r] EXCEPT !.pc = "collect", !.paired = has]
  <2>1. Step(r, f) /\ UNCHANGED <<runMu, result>>
    BY <1>4 DEF Answered
  <2>2. /\ f \in RunState /\ f.pc = "collect" /\ f.err = "nil" /\ f.paired = has
        /\ f.backupDir = run[r].backupDir /\ f.capsule = run[r].capsule
    BY <1>0, <1>4, ZenonT(40) DEF RunState, RunPC
  <2> HIDE DEF f
  <2>3. f.backupDir = TRUE \/ f.paired = TRUE
    <3>1. run[r].backupDir \in BOOLEAN
      BY <1>0 DEF RunState
    <3> QED BY <1>4, <2>2, <3>1
  <2>4. LocalsTrue(f, covered'[r], store.lastDeposit, held', Len(capsules'))
    BY <1>0, <2>2, <2>3 DEF LocalsTrue
  <2> QED BY <1>s, <2>1, <2>2, <2>4, RunMovesOn
<1> QED BY <1>1, <1>2, <1>3, <1>4

\* The recorded deposit is replaced by a newer one only.
DepositAdvances ==
  store'.lastDeposit # store.lastDeposit =>
    store.lastDeposit = None \/ store'.lastDeposit > store.lastDeposit

\* Every action of a run.
LEMMA RunReportStep ==
  ASSUME TypeOK, TypeOK', ReportInv, NEW r \in Runners, RunStep(r)
  PROVE  ReportInv' /\ DepositAdvances
<1>0. /\ run[r] \in RunState /\ store \in SettingsRows /\ covered[r] \in BOOLEAN
      /\ run[r].err \in {"nil", "ErrNotPaired", "ErrKeyMismatch"}
      /\ LocalsTrue(run[r], covered[r], store.lastDeposit, held, Len(capsules))
      /\ covered[r] => Paired(store)
  BY DEF TypeOK, ReportInv, LocalsTrue
<1>e. {"ErrSettings", "ErrKeyFile", "ErrNotPaired", "ErrCollect", "ErrSealer", "ErrRemote", "ErrLocal"}
        \subseteq Errors \ {"nil", "ErrReceiptUnrecorded"}
  BY DEF Errors
<1>g. ASSUME UNCHANGED dataVars PROVE OnlyGrows
  BY <1>g DEF OnlyGrows, dataVars, TypeOK
<1>k. ASSUME UNCHANGED <<store, covered>>
      PROVE  OnlyUncovers /\ store'.lastDeposit = store.lastDeposit /\ DepositAdvances
  BY <1>k, StoreKept DEF DepositAdvances
<1>u. ASSUME NEW err \in {"ErrNotPaired", "ErrKeyMismatch"}, Unresolved(r, err),
             run[r].pc # "idle", UNCHANGED <<store, covered, runMu, result, dataVars>>
      PROVE  ReportInv' /\ DepositAdvances
  <2> DEFINE f == [run[r] EXCEPT !.pc = "has_url", !.err = err]
  <2>1. /\ f \in RunState /\ f.pc = "has_url" /\ f.err = err
        /\ f.capsule = run[r].capsule
    BY <1>0, ZenonT(40) DEF RunState, RunPC, Errors
  <2>2. Step(r, f)
    BY <1>u DEF Unresolved
  <2> HIDE DEF f
  <2> QED BY <1>u, <1>g, <1>k, <2>1, <2>2, RunGoesOn
<1>1. CASE MarkAttempt(r)
  <2>1. CASE Write([store EXCEPT !.lastAttempt = TRUE])
             /\ Step(r, [run[r] EXCEPT !.pc = "key_file"]) /\ UNCHANGED <<runMu, result>>
    <3> DEFINE f == [run[r] EXCEPT !.pc = "key_file"]
    <3>1. /\ f \in RunState /\ f.pc = "key_file" /\ f.err = run[r].err
          /\ f.capsule = run[r].capsule
      BY <1>0 DEF RunState, RunPC
    <3>2. OnlyUncovers /\ store'.lastDeposit = store.lastDeposit /\ DepositAdvances
      BY <1>0, <2>1, WriteUncovers DEF DepositAdvances, SettingsRows
    <3>3. Step(r, f) /\ OnlyGrows /\ run[r].pc # "idle" /\ UNCHANGED <<runMu, result>>
      BY <1>1, <1>g, <2>1 DEF MarkAttempt
    <3> HIDE DEF f
    <3> QED BY <1>0, <3>1, <3>2, <3>3, RunGoesOn
  <2>2. CASE Return(r, "ErrSettings", FALSE) /\ UNCHANGED <<store, covered>>
    BY <1>1, <1>e, <1>g, <1>k, <2>2, RunFails DEF MarkAttempt
  <2> QED BY <1>1, <2>1, <2>2 DEF MarkAttempt
<1>2. CASE KeyFile(r)
  <2>0. run[r].pc # "idle" /\ UNCHANGED <<store, covered, dataVars>>
    BY <1>2 DEF KeyFile
  <2>1. CASE Unresolved(r, "ErrNotPaired") /\ UNCHANGED <<runMu, result>>
    BY <1>u, <2>0, <2>1
  <2>3. CASE Return(r, "ErrKeyFile", FALSE)
    BY <1>e, <1>g, <1>k, <2>0, <2>3, RunFails
  <2>2. CASE /\ file \in Keys
             /\ Step(r, [run[r] EXCEPT !.pc = "key_id", !.pub = file])
             /\ UNCHANGED <<runMu, result>>
    <3> DEFINE f == [run[r] EXCEPT !.pc = "key_id", !.pub = file]
    <3>1. /\ f \in RunState /\ f.pc = "key_id" /\ f.err = run[r].err
          /\ f.capsule = run[r].capsule
      BY <1>0, <2>2 DEF RunState, RunPC
    <3>2. Step(r, f) /\ UNCHANGED <<runMu, result>>
      BY <2>2
    <3> HIDE DEF f
    <3> QED BY <1>0, <1>g, <1>k, <2>0, <3>1, <3>2, RunGoesOn
  <2> QED BY <1>2, <2>1, <2>2, <2>3 DEF KeyFile
<1>3. CASE KeyID(r)
  <2>0. run[r].pc # "idle" /\ UNCHANGED <<store, covered, runMu, result, dataVars>>
    BY <1>3 DEF KeyID
  <2>1. CASE Unresolved(r, "ErrNotPaired") \/ Unresolved(r, "ErrKeyMismatch")
    BY <1>u, <2>0, <2>1
  <2>2. CASE Step(r, [run[r] EXCEPT !.pc = "key_threshold"])
    <3> DEFINE f == [run[r] EXCEPT !.pc = "key_threshold"]
    <3>1. /\ f \in RunState /\ f.pc = "key_threshold" /\ f.err = run[r].err
          /\ f.capsule = run[r].capsule
      BY <1>0 DEF RunState, RunPC
    <3> HIDE DEF f
    <3>2. Step(r, f)
      BY <2>2 DEF f
    <3> QED BY <1>0, <1>g, <1>k, <2>0, <3>1, <3>2, RunGoesOn
  <2> QED BY <1>3, <2>1, <2>2 DEF KeyID
<1>4. CASE KeyThreshold(r)
  <2>0. run[r].pc # "idle" /\ UNCHANGED <<store, covered, runMu, result, dataVars>>
    BY <1>4 DEF KeyThreshold
  <2>1. CASE store.threshold = None
    BY <1>4, <1>u, <2>0, <2>1 DEF KeyThreshold, Missing
  <2>2. CASE store.threshold # None
    <3> DEFINE f == [run[r] EXCEPT !.pc = "key_total", !.threshold = store.threshold]
    <3>1. store.threshold \in Nat
      BY <1>0, <2>2 DEF SettingsRows
    <3>2. /\ f \in RunState /\ f.pc = "key_total" /\ f.err = run[r].err
          /\ f.capsule = run[r].capsule
      BY <1>0, <3>1 DEF RunState, RunPC
    <3>3. Step(r, f)
      BY <1>4, <2>2 DEF KeyThreshold, Missing
    <3> HIDE DEF f
    <3> QED BY <1>0, <1>g, <1>k, <2>0, <3>2, <3>3, RunGoesOn
  <2> QED BY <2>1, <2>2
<1>5. CASE KeyTotal(r)
  <2>0. run[r].pc # "idle" /\ UNCHANGED <<store, covered, runMu, result, dataVars>>
    BY <1>5 DEF KeyTotal
  <2>1. CASE store.total = None
    BY <1>5, <1>u, <2>0, <2>1 DEF KeyTotal, Missing
  <2>2. CASE store.total # None
    <3> DEFINE pc == IF run[r].phase = "seal" THEN "has_url" ELSE "load_url"
               f == [run[r] EXCEPT !.total = store.total, !.pc = pc]
    <3>1. store.total \in Nat /\ pc \in {"has_url", "load_url"}
      BY <1>0, <2>2 DEF SettingsRows
    <3>2. Step(r, f)
      BY <1>5, <2>2 DEF KeyTotal, Missing
    <3> HIDE DEF pc
    <3>3. /\ f \in RunState /\ f.pc = pc /\ f.err = run[r].err
          /\ f.capsule = run[r].capsule
      BY <1>0, <3>1, ZenonT(40) DEF RunState, RunPC
    <3> HIDE DEF f
    <3> QED BY <1>0, <1>g, <1>k, <2>0, <3>1, <3>2, <3>3, RunGoesOn
  <2> QED BY <2>1, <2>2
<1>6. CASE HasURL(r)
  <2>0. run[r].pc # "idle" /\ UNCHANGED <<store, covered, dataVars>>
    BY <1>6 DEF HasURL
  <2>1. CASE store.url = None
    <3>1. ~covered[r]
      BY <1>0, <2>1 DEF Paired
    <3> QED BY <1>6, <1>g, <1>k, <2>0, <2>1, <3>1, RunAnswers DEF HasURL
  <2>2. CASE store.url # None
    <3> DEFINE f == [run[r] EXCEPT !.pc = "has_token"]
    <3>1. /\ f \in RunState /\ f.pc = "has_token" /\ f.err = run[r].err
          /\ f.capsule = run[r].capsule
      BY <1>0 DEF RunState, RunPC
    <3>2. Step(r, f) /\ UNCHANGED <<runMu, result>>
      BY <1>6, <2>2 DEF HasURL
    <3> HIDE DEF f
    <3> QED BY <1>0, <1>g, <1>k, <2>0, <3>1, <3>2, RunGoesOn
  <2> QED BY <2>1, <2>2
<1>7. CASE HasToken(r)
  <2> DEFINE has == store.token # None
  <2>1. has \in BOOLEAN /\ (covered[r] => has)
    BY <1>0 DEF Paired
  <2>2. Answered(r, has) /\ run[r].pc # "idle" /\ UNCHANGED <<store, covered, dataVars>>
    BY <1>7 DEF HasToken
  <2> HIDE DEF has
  <2> QED BY <1>g, <1>k, <2>1, <2>2, RunAnswers
<1>8. CASE CollectAndSeal(r)
  <2>0. run[r].pc = "collect" /\ UNCHANGED <<store, covered, locals, held>>
    BY <1>8 DEF CollectAndSeal
  <2>1. CASE Return(r, "ErrCollect", FALSE) /\ UNCHANGED capsules
    <3>1. OnlyGrows
      BY <1>g, <2>0, <2>1 DEF dataVars
    <3> QED BY <1>e, <1>k, <2>0, <2>1, <3>1, RunFails
  <2>2. CASE /\ capsules' = Append(capsules,
                  [key |-> run[r].pub, threshold |-> run[r].threshold,
                   total |-> run[r].total])
             /\ Step(r, [run[r] EXCEPT !.capsule = Len(capsules) + 1, !.pc = "local"])
             /\ UNCHANGED <<runMu, result>>
    <3> DEFINE f == [run[r] EXCEPT !.capsule = Len(capsules) + 1, !.pc = "local"]
    <3>1. /\ Len(capsules) \in Nat /\ Len(capsules') = Len(capsules) + 1
          /\ OnlyGrows
      BY <2>0, <2>2 DEF OnlyGrows, TypeOK
    <3>2. Step(r, f)
      BY <2>2
    <3>3. f \in RunState
      <4>1. run'[r] = f
        BY <3>2 DEF Step, TypeOK
      <4> QED BY <4>1 DEF TypeOK
    <3>4. /\ f.pc = "local" /\ f.err = run[r].err /\ f.capsule = Len(capsules) + 1
          /\ f.backupDir = run[r].backupDir /\ f.paired = run[r].paired
      BY <1>0 DEF RunState
    <3> HIDE DEF f
    <3>5. store.lastDeposit # None => store.lastDeposit < Len(capsules) + 1
      <4>1. store.lastDeposit # None => store.lastDeposit \in Nat
        BY <1>0 DEF SettingsRows, Ids
      <4> QED BY <3>1, <4>1 DEF ReportInv
    <3>6. LocalsTrue(f, covered'[r], store.lastDeposit, held', Len(capsules'))
      BY <1>0, <2>0, <3>4, <3>5 DEF LocalsTrue
    <3> QED BY <1>k, <2>0, <2>2, <3>1, <3>2, <3>3, <3>4, <3>6, RunMovesOn
  <2> QED BY <1>8, <2>1, <2>2 DEF CollectAndSeal
<1>9. CASE LocalCopy(r)
  <2>0. run[r].pc = "local" /\ UNCHANGED <<store, covered, capsules, held>>
    BY <1>9 DEF LocalCopy
  <2>1. PICK path \in BOOLEAN, err \in BOOLEAN :
          /\ IF run[r].backupDir THEN path \/ err ELSE ~path /\ ~err
          /\ locals' = IF path THEN locals \cup {run[r].capsule} ELSE locals
          /\ IF Deposits(r, path)
               THEN /\ Step(r, [run[r] EXCEPT !.path = path, !.localErr = err,
                                !.phase = "deposit", !.pc = "key_file"])
                    /\ UNCHANGED <<runMu, result>>
               ELSE ReturnLocal(r, path, err, LocalVerdict(err))
    BY <1>9 DEF LocalCopy
  <2>2. OnlyGrows
    <3>1. locals \subseteq locals'
      BY <2>1
    <3> QED BY <2>0, <3>1 DEF OnlyGrows, TypeOK
  <2>3. CASE Deposits(r, path)
    <3> DEFINE f == [run[r] EXCEPT !.path = path, !.localErr = err,
                                   !.phase = "deposit", !.pc = "key_file"]
    <3>1. f \in RunState
      BY <1>0, ZenonT(40) DEF RunState, RunPC
    <3>2. f.pc = "key_file" /\ f.err = run[r].err /\ f.capsule = run[r].capsule
      BY <1>0 DEF RunState
    <3>3. Step(r, f) /\ UNCHANGED <<runMu, result>>
      BY <2>1, <2>3
    <3> HIDE DEF f
    <3> QED BY <1>0, <1>k, <2>0, <2>2, <3>1, <3>2, <3>3, RunGoesOn
  <2>4. CASE ~Deposits(r, path)
    <3> DEFINE e == LocalVerdict(err)
               o == [err |-> e, capsule |-> run[r].capsule, path |-> path,
                     localErr |-> err, receipt |-> FALSE, covered |-> covered[r]]
    <3>1. ~covered[r] /\ run[r].backupDir = TRUE
      BY <1>0, <2>0, <2>4 DEF LocalsTrue, Deposits
    <3>2. (e = "nil" => run[r].capsule \in locals') /\ e \in {"nil", "ErrLocal"}
      BY <2>1, <3>1 DEF LocalVerdict
    <3>3. /\ result' = [result EXCEPT ![r] = o] /\ Step(r, IdleRun) /\ runMu' = None
      BY <2>1, <2>4 DEF ReturnLocal, Unlock
    <3> HIDE DEF e
    <3>4. o.err = e /\ o.capsule = run[r].capsule /\ o.covered = covered[r]
      OBVIOUS
    <3>5. o \in Result
      <4>1. e \in Errors /\ run[r].capsule \in Ids \cup {None}
        BY <1>0, <3>2 DEF Errors, RunState
      <4> QED BY <1>0, <4>1 DEF Result
    <3> HIDE DEF o
    <3>6. ResultTrue(o, held', locals')
      BY <3>1, <3>2, <3>4 DEF ResultTrue
    <3> QED BY <1>k, <2>0, <2>2, <3>3, <3>5, <3>6, RunReturns
  <2> QED BY <2>3, <2>4
<1>10. CASE LoadURL(r)
  <2>0. run[r].pc # "idle" /\ UNCHANGED <<store, covered, dataVars>>
    BY <1>10 DEF LoadURL
  <2>1. CASE store.url = None
    <3>1. ~covered[r]
      BY <1>0, <2>1 DEF Paired
    <3> QED BY <1>10, <1>e, <1>g, <1>k, <2>0, <2>1, <3>1, RunFails DEF LoadURL
  <2>2. CASE store.url # None
    <3> DEFINE f == [run[r] EXCEPT !.pc = "load_token", !.url = store.url]
    <3>1. store.url \in Urls \cup {None}
      BY <1>0 DEF SettingsRows
    <3>2. /\ f \in RunState /\ f.pc = "load_token" /\ f.err = run[r].err
          /\ f.capsule = run[r].capsule
      BY <1>0, <3>1 DEF RunState, RunPC
    <3>3. Step(r, f) /\ UNCHANGED <<runMu, result>>
      BY <1>10, <2>2 DEF LoadURL
    <3> HIDE DEF f
    <3> QED BY <1>0, <1>g, <1>k, <2>0, <3>2, <3>3, RunGoesOn
  <2> QED BY <2>1, <2>2
<1>11. CASE LoadToken(r)
  <2>0. run[r].pc # "idle" /\ UNCHANGED <<store, covered, dataVars>>
    BY <1>11 DEF LoadToken
  <2>1. CASE Return(r, IF store.token = None THEN "ErrNotPaired" ELSE "ErrSealer", FALSE)
    <3> DEFINE e == IF store.token = None THEN "ErrNotPaired" ELSE "ErrSealer"
    <3>1. e \in Errors \ {"nil", "ErrReceiptUnrecorded"}
          /\ (covered[r] => e \notin {"ErrNotPaired", "ErrKeyMismatch"})
      BY <1>0, <1>e DEF Paired
    <3>2. Return(r, e, FALSE)
      BY <2>1
    <3> HIDE DEF e
    <3> QED BY <1>g, <1>k, <2>0, <3>1, <3>2, RunFails
  <2>2. CASE Step(r, [run[r] EXCEPT !.pc = "deposit", !.token = store.token])
             /\ UNCHANGED <<runMu, result>>
    <3> DEFINE f == [run[r] EXCEPT !.pc = "deposit", !.token = store.token]
    <3>1. store.token \in Urls \cup {None}
      BY <1>0 DEF SettingsRows
    <3>2. /\ f \in RunState /\ f.pc = "deposit" /\ f.err = run[r].err
          /\ f.capsule = run[r].capsule
      BY <1>0, <3>1 DEF RunState, RunPC
    <3>3. Step(r, f)
      BY <2>2
    <3> HIDE DEF f
    <3> QED BY <1>0, <1>g, <1>k, <2>0, <2>2, <3>2, <3>3, RunGoesOn
  <2> QED BY <1>11, <2>1, <2>2 DEF LoadToken
<1>12. CASE DepositSend(r)
  <2>0. run[r].pc # "idle" /\ OnlyGrows /\ UNCHANGED <<store, covered>>
    <3>1. held \subseteq held'
      BY <1>12 DEF DepositSend
    <3> QED BY <1>12, <3>1 DEF DepositSend, OnlyGrows, TypeOK
  <2>1. CASE Return(r, "ErrRemote", FALSE)
    BY <1>e, <1>k, <2>0, <2>1, RunFails
  <2>2. CASE Step(r, [run[r] EXCEPT !.pc = "receipt"]) /\ UNCHANGED <<runMu, result>>
    <3> DEFINE f == [run[r] EXCEPT !.pc = "receipt"]
    <3>1. /\ f \in RunState /\ f.pc = "receipt" /\ f.err = run[r].err
          /\ f.capsule = run[r].capsule
      BY <1>0 DEF RunState, RunPC
    <3>2. Step(r, f)
      BY <2>2
    <3> HIDE DEF f
    <3> QED BY <1>0, <1>k, <2>0, <2>2, <3>1, <3>2, RunGoesOn
  <2> QED BY <1>12, <2>1, <2>2 DEF DepositSend
<1>13. CASE DepositAnswer(r)
  <2>0. run[r].pc = "receipt" /\ UNCHANGED <<store, covered, dataVars>>
    BY <1>13 DEF DepositAnswer
  <2>1. CASE Return(r, "ErrRemote", FALSE)
    BY <1>e, <1>g, <1>k, <2>0, <2>1, RunFails
  <2>2. CASE \E h \in held, id \in 1..Len(capsules) :
               /\ ReceiptAccepted(r, h.capsule, id)
               /\ Step(r, [run[r] EXCEPT !.pc = "record"])
               /\ UNCHANGED <<runMu, result>>
    <3> DEFINE f == [run[r] EXCEPT !.pc = "record"]
    <3>1. /\ f \in RunState /\ f.pc = "record" /\ f.err = run[r].err
          /\ f.capsule = run[r].capsule
      BY <1>0 DEF RunState, RunPC
    <3>2. /\ run[r].capsule \in 1..Len(capsules) /\ SomeHolds(held, run[r].capsule)
          /\ Step(r, f) /\ UNCHANGED <<runMu, result>>
      BY <2>2 DEF ReceiptAccepted, SomeHolds
    <3> HIDE DEF f
    <3>3. LocalsTrue(f, covered'[r], store.lastDeposit, held, Len(capsules))
      BY <1>0, <2>0, <3>1, <3>2 DEF LocalsTrue
    <3>4. held' = held /\ capsules' = capsules
      BY <2>0 DEF dataVars
    <3> QED BY <1>g, <1>k, <2>0, <3>1, <3>2, <3>3, <3>4, RunMovesOn
  <2> QED BY <1>13, <2>1, <2>2 DEF DepositAnswer
<1>14. CASE RecordReceipt(r)
  <2>0. /\ run[r].pc = "record" /\ UNCHANGED dataVars
        /\ run[r].capsule \in 1..Len(capsules) /\ SomeHolds(held, run[r].capsule)
        /\ run[r].capsule # None => (store.lastDeposit # None => store.lastDeposit < run[r].capsule)
    BY <1>0, <1>14 DEF RecordReceipt, LocalsTrue
  <2>n. run[r].capsule # None /\ run[r].capsule \in Nat
    BY <2>0, NoneAssumption
  <2>h. SomeHolds(held', run[r].capsule) /\ run[r].capsule \in 1..Len(capsules')
    BY <2>0 DEF dataVars
  <2>r. ASSUME NEW err \in {"nil", "ErrReceiptUnrecorded"}, Return(r, err, TRUE), OnlyUncovers,
               \/ store'.lastDeposit = store.lastDeposit
               \/ store'.lastDeposit = run[r].capsule
        PROVE  ReportInv'
    <3> DEFINE o == [err |-> err, capsule |-> run[r].capsule, path |-> run[r].path,
                     localErr |-> run[r].localErr, receipt |-> TRUE, covered |-> covered[r]]
    <3>1. o \in Result
      <4>1. err \in Errors
        BY DEF Errors
      <4> QED BY <1>0, <4>1 DEF RunState, Result
    <3>2. o.err = err /\ o.capsule = run[r].capsule /\ o.receipt = TRUE
      OBVIOUS
    <3>3. result' = [result EXCEPT ![r] = o] /\ Step(r, IdleRun) /\ runMu' = None
      BY <2>r DEF Return, Unlock
    <3> HIDE DEF o
    <3>4. ResultTrue(o, held', locals')
      BY <2>h, <3>2 DEF ResultTrue
    <3> QED BY <1>g, <2>0, <2>h, <2>r, <3>1, <3>3, <3>4, RunReturns
  <2>1. CASE Write([store EXCEPT !.lastDeposit = run[r].capsule]) /\ Return(r, "nil", TRUE)
    <3>1. OnlyUncovers /\ store'.lastDeposit = run[r].capsule
      BY <1>0, <2>1, WriteUncovers DEF SettingsRows
    <3>2. DepositAdvances
      <4>1. store.lastDeposit # None => store.lastDeposit \in Nat
        BY <1>0 DEF SettingsRows, Ids
      <4> QED BY <2>0, <2>n, <3>1, <4>1 DEF DepositAdvances
    <3> QED BY <2>1, <2>r, <3>1, <3>2
  <2>2. CASE Return(r, "ErrReceiptUnrecorded", TRUE) /\ UNCHANGED <<store, covered>>
    BY <1>k, <2>2, <2>r
  <2> QED BY <1>14, <2>1, <2>2 DEF RecordReceipt
<1>15. CASE ReadFault(r)
  <2>0. run[r].pc # "idle" /\ UNCHANGED <<store, dataVars>>
    BY <1>15 DEF ReadFault
  <2>1. CASE Return(r, "ErrSettings", FALSE) /\ UNCHANGED covered
    BY <1>e, <1>g, <1>k, <2>0, <2>1, RunFails
  <2>2. CASE /\ Step(r, [run[r] EXCEPT !.pc = "has_failed"])
             /\ covered' = [covered EXCEPT ![r] = FALSE]
             /\ UNCHANGED <<runMu, result>>
    <3> DEFINE f == [run[r] EXCEPT !.pc = "has_failed"]
    <3>1. /\ f \in RunState /\ f.pc = "has_failed" /\ f.err = run[r].err
          /\ f.capsule = run[r].capsule
      BY <1>0 DEF RunState, RunPC
    <3>2. Step(r, f)
      BY <2>2
    <3> HIDE DEF f
    <3>3. ~covered'[r] /\ OnlyUncovers
      BY <2>0, <2>2 DEF OnlyUncovers, ReportInv, TypeOK
    <3>4. LocalsTrue(f, covered'[r], store.lastDeposit, held', Len(capsules'))
      BY <1>0, <2>0, <3>1, <3>3 DEF LocalsTrue
    <3>5. store'.lastDeposit = store.lastDeposit /\ DepositAdvances /\ OnlyGrows
      BY <1>g, <2>0 DEF DepositAdvances
    <3> QED BY <2>0, <2>2, <3>1, <3>2, <3>3, <3>4, <3>5, RunMovesOn
  <2> QED BY <1>15, <2>1, <2>2 DEF ReadFault
<1>16. CASE HasFailed(r)
  <2>1. ~covered[r]
    BY <1>0, <1>16 DEF HasFailed, LocalsTrue
  <2> QED BY <1>16, <1>g, <1>k, <2>1, RunAnswers DEF HasFailed
<1> QED
  BY <1>1, <1>2, <1>3, <1>4, <1>5, <1>6, <1>7, <1>8, <1>9, <1>10, <1>11,
     <1>12, <1>13, <1>14, <1>15, <1>16 DEF RunStep

\* A step of the whole system.
LEMMA ReportStep ==
  ASSUME TypeOK, TypeOK', ReportInv, [Next]_vars
  PROVE  ReportInv' /\ DepositAdvances
<1>n. ResultTrue(NoResult, held', locals')
      /\ ResultTrue([NoResult EXCEPT !.err = "ErrInProgress"], held', locals')
  BY DEF ResultTrue, NoResult
<1>i. ASSUME NEW c, NEW last, NEW hs, NEW n
      PROVE  LocalsTrue(IdleRun, c, last, hs, n)
  BY DEF LocalsTrue, IdleRun
<1>1. ASSUME NEW a \in Admins, Admin(a) PROVE ReportInv' /\ DepositAdvances
  BY <1>1, AdminReportStep DEF DepositAdvances
<1>2. ASSUME NEW r \in Runners, NEW cfg \in Configs, BeginRun(r, cfg)
      PROVE  ReportInv' /\ DepositAdvances
  <2> DEFINE f == [IdleRun EXCEPT !.pc = "mark", !.backupDir = cfg.backupDir,
                                  !.keepValid = cfg.keepValid]
  <2>1. f.pc = "mark" /\ f.err = "nil" /\ f.capsule = None
    BY DEF IdleRun
  <2>2. Step(r, f) /\ runMu = None /\ runMu' = r /\ UNCHANGED <<store, dataVars>>
        /\ covered' = [covered EXCEPT ![r] = Paired(store)]
        /\ result' = [q \in Runners |-> NoResult]
    BY <1>2 DEF BeginRun, TryLock
  <2> HIDE DEF f
  <2>3. run'[r] = f /\ \A q \in Runners \ {r} : run'[q] = run[q] /\ run[q].pc = "idle"
    BY <2>2, NoneAssumption DEF Step, TypeOK, ReportInv, LockIsTheRun
  <2>4. LockIsTheRun'
    BY <2>1, <2>2, <2>3 DEF LockIsTheRun
  <2>5. ReceiptMeansHeld' /\ (store'.lastDeposit # None => store'.lastDeposit <= Len(capsules'))
    BY <2>2 DEF ReportInv, ReceiptMeansHeld, Holds, dataVars
  <2>6. \A q \in Runners : covered'[q] => Paired(store')
    BY <2>2 DEF ReportInv, TypeOK
  <2>7. ASSUME NEW q \in Runners
        PROVE  LocalsTrue(run'[q], covered'[q], store'.lastDeposit, held', Len(capsules'))
    <3>1. run'[q].err \in {"nil", "ErrNotPaired", "ErrKeyMismatch"}
      BY <2>1, <2>3 DEF ReportInv, LocalsTrue
    <3> QED BY <2>1, <2>3, <3>1 DEF LocalsTrue
  <2>8. \A q \in Runners : ResultTrue(result'[q], held', locals')
    BY <1>n, <2>2
  <2> QED BY <2>2, <2>4, <2>5, <2>6, <2>7, <2>8 DEF ReportInv, DepositAdvances
<1>3. ASSUME NEW r \in Runners, RefuseRun(r)
      PROVE  ReportInv' /\ DepositAdvances
  <2>1. UNCHANGED <<store, run, runMu, covered, dataVars>>
        /\ result' = [result EXCEPT ![r] = [NoResult EXCEPT !.err = "ErrInProgress"]]
    BY <1>3 DEF RefuseRun
  <2>2. \A q \in Runners : ResultTrue(result[q], held', locals')
    BY <2>1 DEF ReportInv, dataVars
  <2>3. \A q \in Runners : ResultTrue(result'[q], held', locals')
    BY <1>n, <2>1, <2>2 DEF TypeOK
  <2> QED BY <2>1, <2>3 DEF ReportInv, LockIsTheRun, ReceiptMeansHeld, Holds, DepositAdvances, dataVars
<1>4. ASSUME NEW r \in Runners, RunStep(r) PROVE ReportInv' /\ DepositAdvances
  BY <1>4, RunReportStep
<1>5. CASE Crash
  <2>1. /\ UNCHANGED <<store, covered, dataVars>>
        /\ \A r \in Runners : run'[r] = IdleRun /\ result'[r] = NoResult
        /\ runMu' = None
    BY <1>5 DEF Crash
  <2>2. LockIsTheRun'
    BY <2>1, NoneAssumption DEF LockIsTheRun, IdleRun
  <2>3. \A r \in Runners :
          LocalsTrue(run'[r], covered'[r], store'.lastDeposit, held', Len(capsules'))
    BY <1>i, <2>1
  <2>4. \A r \in Runners : ResultTrue(result'[r], held', locals')
    BY <1>n, <2>1
  <2> QED BY <2>1, <2>2, <2>3, <2>4 DEF ReportInv, ReceiptMeansHeld, Holds, DepositAdvances, dataVars
<1>6. CASE TamperFile
  BY <1>6, StoreKept, QuietStep DEF TamperFile, DepositAdvances
<1>7. CASE UNCHANGED vars
  BY <1>7, StoreKept, QuietStep DEF vars, runVars, DepositAdvances
<1> QED BY <1>1, <1>2, <1>3, <1>4, <1>5, <1>6, <1>7 DEF Next

\* ReportInv holds in every reachable state.
LEMMA ReportInvariant == Spec => []ReportInv
<1>1. Init => ReportInv
  <2> SUFFICES ASSUME Init PROVE ReportInv
    OBVIOUS
  <2>1. LockIsTheRun
    BY NoneAssumption DEF Init, LockIsTheRun, IdleRun
  <2>2. \A r \in Runners : LocalsTrue(run[r], covered[r], store.lastDeposit, held, Len(capsules))
    BY DEF Init, LocalsTrue, IdleRun
  <2>3. \A r \in Runners : ResultTrue(result[r], held, locals)
    BY DEF Init, ResultTrue, NoResult
  <2> QED BY <2>1, <2>2, <2>3 DEF Init, ReportInv, ReceiptMeansHeld
<1>2. TypeOK /\ TypeOK' /\ ReportInv /\ [Next]_vars => ReportInv'
  BY ReportStep
<1> QED BY <1>1, <1>2, TypeCorrect, PTL DEF Spec

\* What Run tells its caller is true, for any number of runs, requests, servers
\* and capsules, whatever fails and wherever the process dies: the lock is the
\* run in progress, a recorded receipt and a success are stored somewhere, and
\* while the pairing is stored and readable neither a missing off-site copy nor
\* an unresolved key goes unreported.
THEOREM RunsAlwaysReportTruly == Spec => []RunsReportTruly
<1>1. TypeOK /\ ReportInv => RunsReportTruly
  <2> SUFFICES ASSUME TypeOK, ReportInv PROVE RunsReportTruly
    OBVIOUS
  <2>1. SuccessMeansStored /\ PairedRunsDeposit /\ KeyPinMissingReported
    BY DEF ReportInv, ResultTrue, SomeHolds, SuccessMeansStored, PairedRunsDeposit,
           KeyPinMissingReported, Holds
  <2> QED BY <2>1 DEF ReportInv, RunsReportTruly
<1> QED BY <1>1, TypeCorrect, ReportInvariant, PTL

\* runMu makes the recorded deposit advance: however runs are refused, fail or
\* die, no receipt of an older capsule replaces a newer one.
THEOREM DepositsAdvance == Spec => LastDepositAdvances
<1>1. TypeOK /\ TypeOK' /\ ReportInv /\ [Next]_vars =>
        [store'.lastDeposit # store.lastDeposit =>
           store.lastDeposit = None \/ store'.lastDeposit > store.lastDeposit]_vars
  BY ReportStep DEF DepositAdvances
<1> QED BY <1>1, TypeCorrect, ReportInvariant, PTL DEF Spec, LastDepositAdvances

-----------------------------------------------------------------------------
(* Offsite.  What carries its proofs is that no target takes one admitted  *)
(* name for another (ServerKeepsName), so that every object is at its own  *)
(* name, and that a staging file belongs to the one operation that opened  *)
(* it (StagedSound).                                                       *)

\* Where a Put is in progress.
PutPCs == {"hash", "send", "sent", "stat", "open", "copy", "rename"}

OffsiteCalls ==
  [pc : PutPCs \cup {"idle", "unping", "done", "failed", "exists"}, id : Nat,
   name : Names \cup {Unset}, source : Seq(Contents), changes : Nat,
   read : Seq(Contents), hash : Seq(Contents)]

OffsiteTypes ==
  /\ kind \in Kinds /\ started \in Nat /\ left \subseteq Nat
  /\ call \in [Callers -> OffsiteCalls]
  /\ staging \subseteq [by : Callers, call : Nat]
  /\ \A s \in staging : s.call <= started

Usable(name) == name \in Names /\ Admitted(name)

\* Every object is at its own name, spelt as its Put was given it.
AtIsName == \A o \in objects : o.at = o.name /\ (o.name = PingName \/ Usable(o.name))

IsWhole(content) == \E d \in Contents : content = Whole(d)

\* A call that reads a source nobody changed has read a first part of all of it.
ReadsOne(t) == \E d \in Contents : t.source = Whole(d) /\ t.read \in {<<>>, <<d>>, Whole(d)}

\* Whatever a call may store is whole, as long as its source did not change.
CallSteady(t) ==
  t.changes = 0 =>
    /\ t.pc \in {"hash", "send", "stat", "open", "copy"} => ReadsOne(t)
    /\ t.pc \in {"send", "sent"} => IsWhole(t.hash)
    /\ t.pc = "rename" => IsWhole(t.read)

\* A Put has an admitted name, and is steady.
CallSound(t) ==
  /\ t.pc \in PutPCs => Usable(t.name)
  /\ t.pc \in {"done", "exists"} /\ t.name # Unset => Usable(t.name)
  /\ t.pc \in {"hash", "send", "sent"} => kind = "s3"
  /\ t.pc = "unping" => t.name = Unset
  /\ CallSteady(t)
PutSound(c) == call[c].id <= started /\ CallSound(call[c])

StagingFile(c) == [by |-> c, call |-> call[c].id]

\* The staging file of a Put in progress is its own.
StagedSound(c) ==
  /\ call[c].pc \in {"hash", "send", "sent", "stat", "open", "unping"} => Own(c) = {}
  /\ call[c].pc \in {"copy", "rename"} => Own(c) = {StagingFile(c)}

OffsiteInv ==
  /\ OffsiteTypes /\ AtIsName /\ TargetSound
  /\ \A c \in Callers : PutSound(c) /\ StagedSound(c)

\* cleanSMBName: a Windows server leaves a component it admits as it is.
LEMMA WindowsKeepsPart ==
  ASSUME NEW part \in Seq(STRING), part # <<>>,
         \A j \in DOMAIN part : part[j] \in Lower \cup Marks,
         part[Len(part)] # ".", Stem(part) # <<"n", "u", "l">>
  PROVE  WindowsPart(part) = part
<1> DEFINE folded == [j \in DOMAIN part |-> Fold(part[j])]
           kept == {j \in DOMAIN part : \E k \in j..Len(part) : part[k] # "."}
<1>1. Len(part) \in Nat /\ Len(part) \in 1..Len(part) /\ DOMAIN part = 1..Len(part)
  OBVIOUS
<1>2. \A j \in DOMAIN part : Fold(part[j]) = part[j]
  BY DEF Lower, Marks, Fold
<1>3. folded = part
  BY <1>2
<1>4. kept = 1..Len(part)
  <2>1. ASSUME NEW j \in DOMAIN part PROVE \E k \in j..Len(part) : part[k] # "."
    <3>1. Len(part) \in j..Len(part)
      BY <1>1
    <3> QED
      BY <3>1
  <2> QED
    BY <1>1, <2>1
<1>5. Cardinality(kept) = Len(part)
  <2>1. Cardinality(1..Len(part)) = Len(part)
    BY <1>1, FS_Interval
  <2> QED
    BY <1>4, <2>1
<1>6. SubSeq(part, 1, Len(part)) = part
  OBVIOUS
<1>7. Stem(folded) # <<"n", "u", "l">>
  BY <1>3
<1>8. SubSeq(folded, 1, Cardinality(kept)) = part
  BY <1>3, <1>5, <1>6
<1> QED
  BY <1>7, <1>8 DEF WindowsPart

\* Of the names a Put admits, no target makes another.
LEMMA ServerKeepsName ==
  ASSUME NEW name, Usable(name)
  PROVE  ServerName(name) = name
<1>1. name \in Seq(Seq(STRING))
  BY OffsiteAssumption DEF Usable
<1>2. CASE kind = "smb"
  <2>1. CleanSMBName(name)
    BY <1>2 DEF Usable, Admitted
  <2>2. ASSUME NEW i \in DOMAIN name PROVE WindowsPart(name[i]) = name[i]
    <3>1. name[i] \in Seq(STRING) /\ name[i] # <<>>
      BY <1>1, <2>1 DEF CleanSMBName, CleanName
    <3> QED
      BY <2>1, <3>1, WindowsKeepsPart DEF CleanSMBName
  <2>3. [i \in DOMAIN name |-> WindowsPart(name[i])] = [i \in DOMAIN name |-> name[i]]
    BY <2>2
  <2>4. [i \in DOMAIN name |-> name[i]] = name
    BY <1>1
  <2> QED
    BY <1>2, <2>3, <2>4 DEF ServerName
<1>3. CASE kind # "smb"
  BY <1>3 DEF ServerName
<1> QED
  BY <1>2, <1>3

\* Nor does one take the probe for anything else.
LEMMA ServerKeepsPing == ServerName(PingName) = PingName
<1>1. Stem(<<"PING">>) = <<"PING">>
  BY DEF Stem
<1> DEFINE part == <<"PING">>
           folded == [j \in DOMAIN part |-> Fold(part[j])]
           kept == {j \in DOMAIN part : \E k \in j..Len(part) : part[k] # "."}
<1>2. Len(part) = 1 /\ DOMAIN part = 1..1 /\ part[1] = "PING"
  OBVIOUS
<1>3. folded = part
  BY <1>2 DEF Fold
<1>4. kept = 1..1
  BY <1>2
<1>5. Cardinality(kept) = 1
  <2>1. kept = {1}
    BY <1>4
  <2> QED
    BY <2>1, FS_Singleton
<1>6. SubSeq(part, 1, 1) = part
  <2>1. \A s \in Seq({"PING"}) : SubSeq(s, 1, Len(s)) = s
    OBVIOUS
  <2>2. part \in Seq({"PING"})
    OBVIOUS
  <2> HIDE DEF part
  <2> QED
    BY <1>2, <2>1, <2>2
<1>7. WindowsPart(part) = part
  <2>1. Stem(folded) # <<"n", "u", "l">>
    BY <1>1, <1>3
  <2>2. SubSeq(folded, 1, Cardinality(kept)) = part
    BY <1>3, <1>5, <1>6
  <2> QED
    BY <2>1, <2>2 DEF WindowsPart
<1> HIDE DEF part
<1>8. [i \in DOMAIN <<part>> |-> WindowsPart(<<part>>[i])] = <<part>>
  BY <1>7
<1> QED
  BY <1>8 DEF ServerName, PingName, part

\* The probe's name is none that SMB admits, and none of the staging namespace.
LEMMA PingIsApart ==
  /\ \A name : kind = "smb" /\ Usable(name) => name # PingName
  /\ \A i \in DOMAIN PingName : PingName[i][1] # StagingPrefix
<1>1. DOMAIN PingName = 1..1 /\ PingName[1] = <<"PING">> /\ 1 \in 1..1
  BY DEF PingName
<1>2. DOMAIN <<"PING">> = 1..1 /\ <<"PING">>[1] = "PING"
  OBVIOUS
<1>3. ~CleanSMBName(PingName)
  <2>1. "PING" \notin Lower \cup Marks
    BY DEF Lower, Marks
  <2> QED
    BY <1>1, <1>2, <2>1 DEF CleanSMBName
<1> QED
  BY <1>1, <1>2, <1>3 DEF Usable, Admitted, StagingPrefix

\* The ways a step changes the objects: a Put's, which replaces nothing on SMB,
\* and the probe's.
PutsObject(c) ==
  /\ Usable(call[c].name) /\ MayRename(c)
  /\ \E content, steady :
       (steady => IsWhole(content)) /\ objects' = Stored(call[c].name, content, steady)
ObjectsMove(c) ==
  \/ objects' = objects \/ PutsObject(c)
  \/ objects' = Stored(PingName, <<>>, TRUE) \/ objects' = objects \ At(PingName)

GoodKept ==
  \A o \in objects : o.name # PingName =>
    /\ \E p \in objects' : p.at = o.at
    /\ kind = "smb" => o \in objects'

\* Stored changes the object at one name, which is its own.
LEMMA StoredAtName ==
  ASSUME AtIsName, NEW name, ServerName(name) = name, NEW content, NEW steady
  PROVE  Stored(name, content, steady) =
           {o \in objects : o.name # name} \cup
             {[at |-> name, name |-> name, content |-> content, steady |-> steady]}
<1>1. At(name) = {o \in objects : o.name = name}
  BY DEF At, AtIsName
<1> QED
  BY <1>1 DEF Stored

\* However the objects change, each stays at its own name, whole, and apart.
LEMMA ObjectsStaySound ==
  ASSUME OffsiteInv, NEW c \in Callers, ObjectsMove(c), kind' = kind
  PROVE  AtIsName' /\ WholeObjects' /\ GoodKept
         /\ (\A o, p \in objects' : o.at = p.at => o = p)
<1>1. AtIsName /\ WholeObjects /\ \A o, p \in objects : o.at = p.at => o = p
  BY DEF OffsiteInv, TargetSound, ObjectsApart
<1>2. \A name : Usable(name)' <=> Usable(name)
  BY DEF Usable, Admitted
<1>3. CASE objects' = objects
  BY <1>1, <1>2, <1>3 DEF AtIsName, WholeObjects, GoodKept
<1>4. CASE PutsObject(c)
  <2> DEFINE name == call[c].name
  <2>1. PICK content, steady :
          (steady => IsWhole(content)) /\ objects' = Stored(name, content, steady)
    BY <1>4 DEF PutsObject
  <2>2. Usable(name) /\ ServerName(name) = name
    BY <1>4, ServerKeepsName DEF PutsObject
  <2> DEFINE new == [at |-> name, name |-> name, content |-> content, steady |-> steady]
  <2>3. objects' = {o \in objects : o.name # name} \cup {new}
    BY <1>1, <2>1, <2>2, StoredAtName
  <2>4. new.at = name /\ new.name = name /\ (new.steady => IsWhole(new.content))
    BY <2>1
  <2>5. kind = "smb" => \A o \in objects : o.name # name
    BY <1>1, <1>4, <2>2 DEF PutsObject, MayRename, At, AtIsName
  <2> HIDE DEF name, new
  <2>6. AtIsName'
    BY <1>1, <1>2, <2>2, <2>3, <2>4 DEF AtIsName
  <2>7. WholeObjects'
    BY <1>1, <2>3, <2>4 DEF WholeObjects, IsWhole
  <2>8. \A o, p \in objects' : o.at = p.at => o = p
    BY <1>1, <2>3, <2>4 DEF AtIsName
  <2>9. GoodKept
    BY <1>1, <2>3, <2>4, <2>5 DEF GoodKept, AtIsName
  <2> QED
    BY <2>6, <2>7, <2>8, <2>9
<1>5. CASE objects' = Stored(PingName, <<>>, TRUE)
  <2> DEFINE new == [at |-> PingName, name |-> PingName, content |-> <<>>, steady |-> TRUE]
  <2>3. objects' = {o \in objects : o.name # PingName} \cup {new}
    BY <1>1, <1>5, ServerKeepsPing, StoredAtName
  <2>4. new.at = PingName /\ new.name = PingName
    OBVIOUS
  <2> HIDE DEF new
  <2>6. AtIsName'
    BY <1>1, <1>2, <2>3, <2>4 DEF AtIsName
  <2>7. WholeObjects'
    BY <1>1, <2>3, <2>4 DEF WholeObjects
  <2>8. \A o, p \in objects' : o.at = p.at => o = p
    BY <1>1, <2>3, <2>4 DEF AtIsName
  <2>9. GoodKept
    BY <1>1, <2>3, <2>4 DEF GoodKept, AtIsName
  <2> QED
    BY <2>6, <2>7, <2>8, <2>9
<1>6. CASE objects' = objects \ At(PingName)
  <2>1. objects' = {o \in objects : o.name # PingName}
    BY <1>1, <1>6 DEF At, AtIsName
  <2> QED
    BY <1>1, <1>2, <2>1 DEF AtIsName, WholeObjects, GoodKept
<1> QED
  BY <1>3, <1>4, <1>5, <1>6 DEF ObjectsMove

\* A Put admits no name of the staging namespace.
LEMMA UsableNotStaging ==
  ASSUME NEW name, Usable(name)
  PROVE  \A i \in DOMAIN name : name[i][1] # StagingPrefix
BY DEF Usable, Admitted, CleanSMBName, CleanName

\* What OwnObject says of one caller.
OwnsObject(c) ==
  kind = "smb" /\ call[c].name # Unset =>
    /\ call[c].pc = "done" =>
         \E o \in objects : o.name = call[c].name /\ o.content = call[c].read
    /\ call[c].pc = "exists" => \E o \in objects : o.name = call[c].name

\* One caller moves: the calls and staging files of the others stay, and on SMB
\* so do their objects.
LEMMA CallerMoves ==
  ASSUME OffsiteInv, NEW c \in Callers, NEW t \in OffsiteCalls,
         call' = [call EXCEPT ![c] = t], ObjectsMove(c), kind' = kind,
         started' \in Nat, started <= started', left \subseteq left', left' \subseteq Nat,
         staging' \subseteq [by : Callers, call : Nat],
         \A s \in staging' : s.by # c => s \in staging,
         \A s \in staging : s.by # c => s \in staging',
         \A s \in staging' : s.by = c => s.call <= started' /\ (s.call \in left' \/ (t.id = s.call /\ ~Idle(c)')),
         PutSound(c)', StagedSound(c)', OwnsObject(c)'
  PROVE  OffsiteInv' /\ GoodKept
<1>1. call'[c] = t /\ \A d \in Callers : d # c => call'[d] = call[d]
  BY DEF OffsiteInv, OffsiteTypes
<1>2. AtIsName' /\ WholeObjects' /\ GoodKept /\ \A o, p \in objects' : o.at = p.at => o = p
  BY ObjectsStaySound
<1>3. OffsiteTypes'
  <2>1. call' \in [Callers -> OffsiteCalls] /\ kind' \in Kinds
    BY DEF OffsiteInv, OffsiteTypes
  <2>2. ASSUME NEW s \in staging' PROVE s.call <= started'
    <3>1. CASE s.by = c
      BY <2>2, <3>1
    <3>2. CASE s.by # c
      <4>1. s.call \in Nat /\ s.call <= started /\ started \in Nat
        BY <2>2, <3>2 DEF OffsiteInv, OffsiteTypes
      <4> QED
        BY <4>1
    <3> QED
      BY <3>1, <3>2
  <2> QED
    BY <2>1, <2>2 DEF OffsiteTypes
<1>4. ObjectsApart'
  <2>1. \A o \in objects' : \A i \in DOMAIN o.at : o.at[i][1] # StagingPrefix
    <3>1. \A o \in objects' : o.at = o.name /\ (o.name = PingName \/ Usable(o.name))
      BY <1>2 DEF AtIsName, Usable, Admitted
    <3> QED
      BY <3>1, UsableNotStaging, PingIsApart
  <2>2. \A d \in Callers : call'[d].pc \in
          {"idle", "hash", "send", "sent", "stat", "open", "copy", "rename", "unping", "done", "failed", "exists"}
    BY <1>3 DEF OffsiteTypes, OffsiteCalls, PutPCs
  <2> QED
    BY <1>2, <2>1, <2>2 DEF ObjectsApart
<1>5. ResidueExplained'
  <2> SUFFICES ASSUME NEW s \in staging'
               PROVE  s.call \in left' \/ (call'[s.by].id = s.call /\ ~Idle(s.by)')
    BY DEF ResidueExplained
  <2>1. CASE s.by = c
    BY <1>1, <2>1
  <2>2. CASE s.by # c
    <3>1. s \in staging /\ s.by \in Callers
      BY <2>2
    <3>2. s.call \in left \/ (call[s.by].id = s.call /\ ~Idle(s.by))
      BY <3>1 DEF OffsiteInv, TargetSound, ResidueExplained
    <3>3. call'[s.by] = call[s.by]
      BY <1>1, <2>2, <3>1
    <3> QED
      BY <3>2, <3>3 DEF Idle
  <2> QED
    BY <2>1, <2>2
<1>6. ASSUME NEW d \in Callers, d # c PROVE PutSound(d)' /\ StagedSound(d)' /\ OwnsObject(d)'
  <2>1. call'[d] = call[d] /\ PutSound(d) /\ StagedSound(d) /\ OwnsObject(d)
    BY <1>1, <1>6 DEF OffsiteInv, TargetSound, OwnObject, OwnsObject
  <2>2. PutSound(d)'
    <3>1. call[d].id \in Nat /\ started \in Nat
      BY DEF OffsiteInv, OffsiteTypes, OffsiteCalls
    <3>2. call'[d].id <= started'
      BY <2>1, <3>1 DEF PutSound
    <3> QED
      BY <2>1, <3>2 DEF PutSound, CallSound, Usable, Admitted
  <2>3. Own(d)' = Own(d)
    BY <1>6, <2>1 DEF Own
  <2>4. StagedSound(d)'
    BY <2>1, <2>3 DEF StagedSound, StagingFile
  <2>5. OwnsObject(d)'
    <3> SUFFICES ASSUME kind = "smb", call[d].name # Unset, call[d].pc \in {"done", "exists"}
                 PROVE  OwnsObject(d)'
      BY <2>1 DEF OwnsObject
    <3>1. call[d].name # PingName
      BY <2>1, PingIsApart DEF PutSound, CallSound
    <3>2. \A o \in objects : o.name = call[d].name => o \in objects'
      BY <1>2, <3>1 DEF GoodKept
    <3> QED
      BY <2>1, <3>2 DEF OwnsObject
  <2> QED
    BY <2>2, <2>4, <2>5
<1>7. \A d \in Callers : PutSound(d)' /\ StagedSound(d)' /\ OwnsObject(d)'
  BY <1>6
<1>8. OwnObject'
  BY <1>7 DEF OwnObject, OwnsObject
<1> QED
  BY <1>2, <1>3, <1>4, <1>5, <1>7, <1>8 DEF OffsiteInv, TargetSound

\* A call that has read nothing yet, or nothing any more.
LEMMA NothingRead == \E read \in Seq(Contents) : read = <<>>
<1>1. <<>> \in Seq(Contents)
  OBVIOUS
<1> WITNESS <<>> \in Seq(Contents)
<1> QED
  OBVIOUS

\* A step inside a call changes where it is, and keeps the rest of it or ends it.
LEMMA GotoMoves ==
  ASSUME OffsiteInv, NEW c \in Callers, NEW to \in PutPCs, Goto(c, to)
  PROVE  \E t \in OffsiteCalls :
           /\ call' = [call EXCEPT ![c] = t] /\ call'[c] = t
           /\ t.pc = to /\ t.id = call[c].id /\ t.name = call[c].name /\ t.source = call[c].source
           /\ t.changes = call[c].changes /\ t.read = call[c].read /\ t.hash = call[c].hash
<1> DEFINE t == [call[c] EXCEPT !.pc = to]
<1>1. call \in [Callers -> OffsiteCalls] /\ call[c] \in OffsiteCalls
  BY DEF OffsiteInv, OffsiteTypes
<1>2. /\ t.pc = to /\ t.id = call[c].id /\ t.name = call[c].name /\ t.source = call[c].source
      /\ t.changes = call[c].changes /\ t.read = call[c].read /\ t.hash = call[c].hash
      /\ t \in OffsiteCalls
  BY <1>1 DEF OffsiteCalls
<1>3. call' = [call EXCEPT ![c] = t] /\ call'[c] = t
  BY <1>1 DEF Goto
<1> QED
  BY <1>2, <1>3

\* A call that ends has no source any more.
LEMMA FinishMoves ==
  ASSUME OffsiteInv, NEW c \in Callers, NEW ending \in {"done", "failed", "exists"},
         NEW read \in Seq(Contents), Finish(c, ending, read)
  PROVE  \E t \in OffsiteCalls :
           /\ call' = [call EXCEPT ![c] = t] /\ call'[c] = t
           /\ t.pc = ending /\ t.id = call[c].id /\ t.name = call[c].name /\ t.read = read
<1> DEFINE t == NewCall(ending, call[c].id, call[c].name, <<>>, read)
<1>1. /\ call \in [Callers -> OffsiteCalls] /\ call[c].id \in Nat
      /\ call[c].name \in Names \cup {Unset} /\ <<>> \in Seq(Contents)
  BY DEF OffsiteInv, OffsiteTypes, OffsiteCalls
<1>2. t \in OffsiteCalls /\ t.pc = ending /\ t.id = call[c].id /\ t.name = call[c].name /\ t.read = read
  BY <1>1 DEF NewCall, OffsiteCalls
<1>3. call' = [call EXCEPT ![c] = t]
  BY DEF Finish
<1> HIDE DEF t
<1>4. call'[c] = t
  BY <1>1, <1>3
<1> QED
  BY <1>2, <1>3, <1>4

\* What is known of a call in progress, and of the staging files of its caller.
LEMMA InProgress ==
  ASSUME OffsiteInv, NEW c \in Callers
  PROVE  /\ OffsiteTypes /\ PutSound(c) /\ StagedSound(c)
         /\ call[c] \in OffsiteCalls /\ call[c].id \in Nat /\ call[c].id <= started
         /\ \A s \in staging : s.by = c => s.call <= started /\ (s.call \in left \/ (call[c].id = s.call /\ ~Idle(c)))
         /\ Own(c) \subseteq staging /\ \A s \in Own(c) : s.by = c /\ s.call = call[c].id
BY DEF OffsiteInv, OffsiteTypes, OffsiteCalls, PutSound, TargetSound, ResidueExplained, Own

\* A new operation has a number no staging file has, and its caller left none
\* behind but where it could not clean up.
LEMMA StartStep ==
  ASSUME OffsiteInv, NEW c \in Callers, Idle(c), started' = started + 1,
         NEW t \in OffsiteCalls, call' = [call EXCEPT ![c] = t], t.id = started + 1,
         t.pc \in {"hash", "stat", "open", "unping", "done", "failed"},
         t.pc \in {"unping", "done"} => t.name = Unset,
         CallSound(t), ObjectsMove(c), UNCHANGED <<kind, staging, left>>
  PROVE  OffsiteInv' /\ GoodKept
<1>1. OffsiteTypes /\ call'[c] = t /\ started' \in Nat /\ started <= started'
  BY DEF OffsiteInv, OffsiteTypes
<1>2. \A s \in staging' : s.by = c => s.call <= started' /\ s.call \in left'
  <2>1. \A s \in staging : s.call \in Nat /\ started \in Nat
    BY <1>1 DEF OffsiteTypes
  <2> QED
    BY <2>1, InProgress
<1>3. Own(c)' = {}
  <2>1. ASSUME NEW s \in staging, s.by = c PROVE s.call # started + 1
    <3>1. s.call \in Nat /\ started \in Nat /\ s.call <= started
      BY <1>1 DEF OffsiteTypes
    <3> QED
      BY <3>1
  <2> QED
    BY <1>1, <2>1 DEF Own
<1>4. PutSound(c)'
  <2>1. call'[c].id <= started'
    BY <1>1
  <2> QED
    BY <1>1, <2>1 DEF PutSound, CallSound, Usable, Admitted
<1>5. StagedSound(c)' /\ OwnsObject(c)'
  BY <1>1, <1>3 DEF StagedSound, OwnsObject
<1>6. left \subseteq left' /\ left' \subseteq Nat /\ staging' \subseteq [by : Callers, call : Nat]
  BY <1>1 DEF OffsiteTypes
<1>7. kind' = kind /\ staging' = staging
  OBVIOUS
<1> QED
  BY <1>1, <1>2, <1>4, <1>5, <1>6, <1>7, CallerMoves

\* Put and Test begin.
LEMMA BeginStep ==
  ASSUME OffsiteInv, NEW c \in Callers,
         (\E n \in Names, d \in Contents : Put(c, n, d)) \/ Test(c)
  PROVE  OffsiteInv' /\ GoodKept
<1>1. started \in Nat /\ started + 1 \in Nat /\ <<>> \in Seq(Contents)
  BY DEF OffsiteInv, OffsiteTypes
<1>2. ASSUME NEW n \in Names, NEW d \in Contents, Put(c, n, d) PROVE OffsiteInv' /\ GoodKept
  <2>1. PICK to \in {"hash", "stat", "open", "failed"} :
          /\ Start(c, n, d, to)
          /\ to # "failed" => Admitted(n)
          /\ to = "hash" => kind = "s3"
    BY <1>2 DEF Put
  <2> DEFINE source == IF to = "failed" THEN <<>> ELSE Whole(d)
             t == NewCall(to, started + 1, n, source, <<>>)
  <2>2. source \in Seq(Contents) /\ (to # "failed" => source = Whole(d))
    BY DEF Whole
  <2>4. /\ Idle(c) /\ started' = started + 1 /\ UNCHANGED <<kind, staging, left>> /\ objects' = objects
        /\ call' = [call EXCEPT ![c] = t]
    BY <2>1 DEF Start
  <2> HIDE DEF source
  <2>6. /\ t \in OffsiteCalls /\ t.pc = to /\ t.id = started + 1 /\ t.name = n
        /\ t.source = source /\ t.changes = 0 /\ t.read = <<>>
    BY <1>1, <2>1, <2>2 DEF NewCall, OffsiteCalls, PutPCs
  <2> HIDE DEF t
  <2>7. ObjectsMove(c)
    BY <2>4 DEF ObjectsMove
  <2>8. CallSound(t)
    <3>1. to # "failed" => ReadsOne(t)
      BY <2>2, <2>6 DEF ReadsOne
    <3>2. CallSteady(t)
      BY <2>1, <2>6, <3>1 DEF CallSteady
    <3>3. to # "failed" => Usable(n)
      BY <2>1 DEF Usable
    <3> QED
      BY <2>1, <2>6, <3>2, <3>3 DEF CallSound, PutPCs
  <2> QED
    BY <2>1, <2>4, <2>6, <2>7, <2>8, StartStep
<1>3. CASE Test(c)
  <2> DEFINE to == IF kind = "s3" THEN "done" ELSE "unping"
             t == NewCall(to, started + 1, Unset, <<>>, <<>>)
  <2>1. to \in {"done", "unping"}
    OBVIOUS
  <2>2. /\ Idle(c) /\ started' = started + 1 /\ call' = [call EXCEPT ![c] = t]
        /\ objects' = Stored(PingName, <<>>, TRUE) /\ UNCHANGED <<kind, staging, left>>
    BY <1>3 DEF Test
  <2> HIDE DEF to
  <2>4. t \in OffsiteCalls /\ t.pc = to /\ t.id = started + 1 /\ t.name = Unset
    BY <1>1, <2>1 DEF NewCall, OffsiteCalls
  <2> HIDE DEF t
  <2>5. ObjectsMove(c)
    BY <2>2 DEF ObjectsMove
  <2>6. CallSound(t)
    BY <2>1, <2>4 DEF CallSound, CallSteady, PutPCs
  <2> QED
    BY <2>1, <2>2, <2>4, <2>5, <2>6, StartStep
<1> QED
  BY <1>2, <1>3

\* Steps of a call that leave the staging files alone.
LEMMA StillStep ==
  ASSUME OffsiteInv, NEW c \in Callers, ~Idle(c), NEW t \in OffsiteCalls,
         call' = [call EXCEPT ![c] = t], t.id = call[c].id, t.pc # "idle",
         UNCHANGED <<kind, staging, started>>, left \subseteq left', left' \subseteq Nat,
         Own(c) # {} => t.id \in left' \/ t.pc \in {"copy", "rename"},
         t.pc \in {"copy", "rename"} => Own(c) = {StagingFile(c)},
         t.pc \in {"hash", "send", "sent", "stat", "open", "unping"} => Own(c) = {},
         ObjectsMove(c), CallSound(t), OwnsObject(c)'
  PROVE  OffsiteInv' /\ GoodKept
<1>1. OffsiteTypes /\ call'[c] = t /\ call[c].id <= started
  BY InProgress DEF OffsiteInv, OffsiteTypes
<1>2. \A s \in staging' : s.by = c =>
        s.call <= started' /\ (s.call \in left' \/ (t.id = s.call /\ ~Idle(c)'))
  <2>1. ASSUME NEW s \in staging, s.by = c
        PROVE  s.call <= started /\ (s.call \in left' \/ (t.id = s.call /\ ~Idle(c)'))
    <3>1. s.call <= started /\ (s.call \in left \/ call[c].id = s.call)
      BY <2>1, InProgress
    <3>2. call[c].id = s.call => s \in Own(c)
      BY <2>1 DEF Own
    <3>3. t.pc \in {"copy", "rename"} => ~Idle(c)'
      BY <1>1 DEF Idle
    <3> QED
      BY <3>1, <3>2, <3>3
  <2> QED
    BY <2>1
<1>3. Own(c)' = Own(c) /\ StagingFile(c)' = StagingFile(c)
  BY <1>1 DEF Own, StagingFile
<1>4. StagedSound(c)'
  BY <1>1, <1>3 DEF StagedSound
<1>5. /\ started' \in Nat /\ started <= started' /\ kind' = kind /\ staging' = staging
      /\ staging' \subseteq [by : Callers, call : Nat]
  BY <1>1 DEF OffsiteTypes
<1>6. PutSound(c)'
  <2>1. call'[c].id <= started'
    BY <1>1
  <2> QED
    BY <1>1, <2>1 DEF PutSound, CallSound, Usable, Admitted
<1> QED
  BY <1>2, <1>4, <1>5, <1>6, CallerMoves

\* Steps of a call that open or remove its staging file.
LEMMA StagingStep ==
  ASSUME OffsiteInv, NEW c \in Callers, ~Idle(c), NEW t \in OffsiteCalls,
         call' = [call EXCEPT ![c] = t], t.id = call[c].id,
         UNCHANGED <<kind, started>>, left \subseteq left', left' \subseteq Nat,
         NEW new, staging' = (staging \ Own(c)) \cup new,
         (t.pc \in {"copy", "rename"} /\ new = {StagingFile(c)})
           \/ (t.pc \in {"done", "failed", "exists"} /\ new = {}),
         ObjectsMove(c), CallSound(t), OwnsObject(c)'
  PROVE  OffsiteInv' /\ GoodKept
<1>1. OffsiteTypes /\ call'[c] = t /\ call[c].id \in Nat /\ call[c].id <= started
  BY InProgress DEF OffsiteInv, OffsiteTypes
<1>2. ASSUME NEW s \in new
      PROVE  s \in [by : Callers, call : Nat] /\ s.by = c /\ s.call = call[c].id
  <2>1. s = StagingFile(c)
    OBVIOUS
  <2> QED
    BY <1>1, <2>1 DEF StagingFile
<1>3. ASSUME NEW s \in staging', s.by = c
      PROVE  s.call <= started' /\ (s.call \in left' \/ (t.id = s.call /\ ~Idle(c)'))
  <2>1. CASE s \in new
    <3>1. new # {}
      BY <2>1
    <3>2. ~Idle(c)'
      BY <1>1, <3>1 DEF Idle
    <3> QED
      BY <1>1, <1>2, <2>1, <3>2
  <2>2. CASE s \notin new
    <3>1. s \in staging /\ s \notin Own(c)
      BY <2>2
    <3>2. s.call # call[c].id
      BY <1>3, <3>1 DEF Own
    <3> QED
      BY <1>3, <3>1, <3>2, InProgress
  <2> QED
    BY <2>1, <2>2
<1>4. Own(c)' = new
  <2>1. Own(c)' = {s \in staging' : s.by = c /\ s.call = call[c].id}
    BY <1>1 DEF Own
  <2>2. \A s \in staging \ Own(c) : ~(s.by = c /\ s.call = call[c].id)
    BY DEF Own
  <2> QED
    BY <1>2, <2>1, <2>2
<1>5. StagedSound(c)'
  <2>1. StagingFile(c)' = StagingFile(c)
    BY <1>1 DEF StagingFile
  <2> QED
    BY <1>1, <1>4, <2>1 DEF StagedSound
<1>6. staging' \subseteq [by : Callers, call : Nat]
  BY <1>1, <1>2 DEF OffsiteTypes
<1>7. /\ \A s \in staging' : s.by # c => s \in staging
      /\ \A s \in staging : s.by # c => s \in staging'
  BY <1>2 DEF Own
<1>8. started' \in Nat /\ started <= started' /\ kind' = kind
  BY <1>1 DEF OffsiteTypes
<1>9. PutSound(c)'
  <2>1. call'[c].id <= started'
    BY <1>1
  <2> QED
    BY <1>1, <2>1 DEF PutSound, CallSound, Usable, Admitted
<1> QED
  BY <1>3, <1>5, <1>6, <1>7, <1>8, <1>9, CallerMoves

\* A call that fails, or finds its object there, removes its staging file or is
\* one that could not.
LEMMA CleanUpStep ==
  ASSUME OffsiteInv, NEW c \in Callers, ~Idle(c), NEW ending \in {"failed", "exists"},
         Finish(c, ending, <<>>), CleanUp(c), UNCHANGED <<kind, objects, started>>,
         ending = "exists" => Usable(call[c].name) /\ \E o \in objects : o.name = call[c].name
  PROVE  OffsiteInv' /\ GoodKept
<1>1. PICK read \in Seq(Contents) : read = <<>>
  BY NothingRead
<1>2. PICK t \in OffsiteCalls :
        /\ call' = [call EXCEPT ![c] = t] /\ call'[c] = t
        /\ t.pc = ending /\ t.id = call[c].id /\ t.name = call[c].name
  <2>1. ending \in {"done", "failed", "exists"} /\ Finish(c, ending, read)
    BY <1>1
  <2> QED
    BY <2>1, FinishMoves
<1>3. left \subseteq Nat /\ call[c].id \in Nat
  BY InProgress DEF OffsiteTypes
<1>4. ObjectsMove(c)
  BY DEF ObjectsMove
<1>5. CallSound(t)
  BY <1>2 DEF CallSound, CallSteady, PutPCs, Usable, Admitted
<1>6. OwnsObject(c)'
  BY <1>2 DEF OwnsObject
<1>7. CASE staging' = staging \ Own(c) /\ UNCHANGED left
  <2>1. staging' = (staging \ Own(c)) \cup {} /\ left \subseteq left' /\ left' \subseteq Nat
    BY <1>3, <1>7
  <2> QED
    BY <1>2, <1>4, <1>5, <1>6, <2>1, StagingStep
<1>8. CASE left' = left \cup {call[c].id} /\ UNCHANGED staging
  <2>1. t.id \in left' /\ left \subseteq left' /\ left' \subseteq Nat
    BY <1>2, <1>3, <1>8
  <2> QED
    BY <1>2, <1>4, <1>5, <1>6, <1>8, <2>1, StillStep
<1> QED
  BY <1>7, <1>8 DEF CleanUp

\* SMB's look, which leaves what a call has read as it is.
LEMMA LookStep ==
  ASSUME OffsiteInv, NEW c \in Callers, Stat(c)
  PROVE  OffsiteInv' /\ GoodKept
<1>0. /\ PutSound(c) /\ StagedSound(c) /\ Own(c) = {} /\ ~Idle(c) /\ call[c].pc = "stat"
      /\ objects' = objects /\ UNCHANGED <<kind, staging, left, started>>
      /\ left \subseteq left' /\ left' \subseteq Nat
  BY InProgress DEF Stat, StagedSound, Idle, OffsiteTypes
<1>1. ObjectsMove(c)
  BY <1>0 DEF ObjectsMove
<1>2. Usable(call[c].name) /\ CallSteady(call[c])
  BY <1>0 DEF PutSound, CallSound, PutPCs
<1>3. CASE At(ServerName(call[c].name)) # {} /\ Finish(c, "exists", <<>>)
  <2>1. \E o \in objects : o.name = call[c].name
    BY <1>2, <1>3, ServerKeepsName DEF At, OffsiteInv, AtIsName
  <2>2. CleanUp(c)
    BY <1>0 DEF CleanUp
  <2> QED
    BY <1>0, <1>2, <1>3, <2>1, <2>2, CleanUpStep
<1>4. CASE Goto(c, "open")
  <2>1. PICK t \in OffsiteCalls :
          /\ call' = [call EXCEPT ![c] = t] /\ call'[c] = t
          /\ t.pc = "open" /\ t.id = call[c].id /\ t.name = call[c].name /\ t.source = call[c].source
          /\ t.changes = call[c].changes /\ t.read = call[c].read
    BY <1>4, GotoMoves DEF PutPCs
  <2>2. CallSteady(t)
    BY <1>0, <1>2, <2>1 DEF CallSteady, ReadsOne
  <2>3. CallSound(t) /\ OwnsObject(c)'
    BY <1>0, <1>2, <2>1, <2>2 DEF CallSound, OwnsObject, Usable, Admitted
  <2> QED
    BY <1>0, <1>1, <2>1, <2>3, StillStep
<1> QED
  BY <1>3, <1>4 DEF Stat

\* What a copy has read when its source ends is all of it.
LEMMA EndOfWhole ==
  ASSUME NEW c \in Callers, ReadsOne(call[c]), AtEnd(c)
  PROVE  IsWhole(call[c].read)
<1>1. PICK d \in Contents : call[c].source = Whole(d) /\ call[c].read \in {<<>>, <<d>>, Whole(d)}
  BY DEF ReadsOne
<1>2. Len(Whole(d)) = 2 /\ Len(<<d>>) = 1 /\ Len(<<>>) = 0
  BY DEF Whole
<1>3. Len(call[c].source) = 2
  BY <1>1, <1>2
<1>4. Len(call[c].read) >= 2
  BY <1>3 DEF AtEnd
<1>5. call[c].read = Whole(d)
  <2>1. CASE call[c].read = <<>>
    BY <1>2, <1>4, <2>1
  <2>2. CASE call[c].read = <<d>>
    BY <1>2, <1>4, <2>2
  <2> QED
    BY <1>1, <2>1, <2>2
<1> QED
  BY <1>5 DEF IsWhole

\* One more piece of a source that did not change.
LEMMA NextPiece ==
  ASSUME NEW c \in Callers, ReadsOne(call[c]), ~AtEnd(c), NEW t, t.source = call[c].source,
         t.read = Append(call[c].read, call[c].source[Len(call[c].read) + 1])
  PROVE  ReadsOne(t)
<1>1. PICK d \in Contents : call[c].source = Whole(d) /\ call[c].read \in {<<>>, <<d>>, Whole(d)}
  BY DEF ReadsOne
<1>2. Len(Whole(d)) = 2 /\ Len(<<d>>) = 1 /\ Len(<<>>) = 0 /\ Whole(d)[1] = d /\ Whole(d)[2] = d
  BY DEF Whole
<1>3. CASE call[c].read = <<>>
  <2>1. t.read = Append(<<>>, d)
    BY <1>1, <1>2, <1>3
  <2>2. t.read = <<d>>
    BY <2>1
  <2> QED
    BY <1>1, <2>2 DEF ReadsOne
<1>4. CASE call[c].read = <<d>>
  <2>1. t.read = Append(<<d>>, d)
    BY <1>1, <1>2, <1>4
  <2>2. Append(<<d>>, d) = <<d, d>>
    <3> DEFINE one == <<d>>
               two == <<d, d>>
    <3>1. /\ one \in Seq(Contents) /\ two \in Seq(Contents) /\ Len(one) = 1 /\ Len(two) = 2
          /\ one[1] = d /\ two[1] = d /\ two[2] = d
      OBVIOUS
    <3> HIDE DEF one, two
    <3>2. Append(one, d) \in Seq(Contents) /\ Len(Append(one, d)) = 2
      <4>1. Append(one, d) \in Seq(Contents) /\ Len(Append(one, d)) = Len(one) + 1
        BY <1>1, <3>1, AppendProperties
      <4> QED
        BY <3>1, <4>1
    <3>3. \A i \in 1..2 : Append(one, d)[i] = two[i]
      <4>1. Append(one, d)[1] = one[1] /\ Append(one, d)[2] = d
        BY <1>1, <3>1, AppendProperties
      <4> QED
        BY <3>1, <4>1
    <3>4. Append(one, d) = two
      BY <3>1, <3>2, <3>3, SeqEqual
    <3> QED
      BY <3>4 DEF one, two
  <2> QED
    BY <1>1, <2>1, <2>2 DEF ReadsOne, Whole
<1>5. CASE call[c].read = Whole(d)
  <2>1. Len(call[c].read) = 2 /\ Len(call[c].source) = 2
    BY <1>1, <1>2, <1>5
  <2> QED
    BY <2>1 DEF AtEnd
<1> QED
  BY <1>1, <1>3, <1>4, <1>5

\* A read, a change of the source, and the ends of the copy, the hash and the
\* second read: the call moves, and objects and staging files stay.
LEMMA ReadStep ==
  ASSUME OffsiteInv, NEW c \in Callers,
         Copy(c) \/ SourceChanges(c) \/ CopyEnds(c) \/ Hash(c) \/ SendEnds(c)
  PROVE  OffsiteInv' /\ GoodKept
<1>0. /\ PutSound(c) /\ StagedSound(c) /\ ~Idle(c) /\ call[c].pc \in {"copy", "hash", "send"}
      /\ call[c] \in OffsiteCalls /\ call \in [Callers -> OffsiteCalls]
      /\ objects' = objects /\ UNCHANGED <<kind, staging, left, started>>
      /\ left \subseteq left' /\ left' \subseteq Nat
  BY InProgress DEF Copy, SourceChanges, CopyEnds, Hash, SendEnds, Reading, Idle, OffsiteTypes
<1>1. ObjectsMove(c)
  BY <1>0 DEF ObjectsMove
<1>2. Usable(call[c].name) /\ CallSteady(call[c]) /\ (call[c].pc \in {"hash", "send"} => kind = "s3")
  BY <1>0 DEF PutSound, CallSound, PutPCs
<1>3. /\ call[c].changes = 0 => ReadsOne(call[c])
      /\ call[c].changes = 0 /\ call[c].pc = "send" => IsWhole(call[c].hash)
      /\ call[c].changes = 0 /\ AtEnd(c) => IsWhole(call[c].read)
  BY <1>0, <1>2, EndOfWhole DEF CallSteady
<1>4. /\ call[c].source \in Seq(Contents) /\ call[c].read \in Seq(Contents) /\ call[c].hash \in Seq(Contents)
      /\ call[c].changes \in Nat /\ call[c].id \in Nat
  BY <1>0 DEF OffsiteCalls
<1>5. ASSUME NEW t \in OffsiteCalls, call' = [call EXCEPT ![c] = t], t.id = call[c].id,
             t.name = call[c].name, CallSteady(t),
             \/ t.pc \in {"copy", "rename"} /\ call[c].pc = "copy"
             \/ t.pc \in {"hash", "send", "sent"} /\ call[c].pc \in {"hash", "send"}
      PROVE  OffsiteInv' /\ GoodKept
  <2>1. call'[c] = t
    BY <1>0, <1>5
  <2>2. CallSound(t)
    BY <1>0, <1>2, <1>5 DEF CallSound
  <2>3. OwnsObject(c)'
    BY <1>5, <2>1 DEF OwnsObject
  <2>4. /\ t.pc \in {"copy", "rename"} => Own(c) = {StagingFile(c)}
        /\ t.pc \in {"hash", "send", "sent", "stat", "open", "unping"} => Own(c) = {}
        /\ Own(c) # {} => t.pc \in {"copy", "rename"}
    BY <1>0, <1>5 DEF StagedSound
  <2> QED
    BY <1>0, <1>1, <1>5, <2>2, <2>3, <2>4, StillStep
<1>6. CASE Copy(c)
  <2> DEFINE next == call[c].source[Len(call[c].read) + 1]
             t == [call[c] EXCEPT !.read = Append(call[c].read, next)]
  <2>1. ~AtEnd(c) /\ call' = [call EXCEPT ![c] = t]
    BY <1>0, <1>6 DEF Copy
  <2>2. next \in Contents
    <3>1. /\ Len(call[c].read) \in Nat /\ Len(call[c].source) \in Nat
          /\ Len(call[c].read) < Len(call[c].source)
      BY <1>4, <2>1 DEF AtEnd
    <3> QED
      BY <1>4, <3>1
  <2>3. Append(call[c].read, next) \in Seq(Contents)
    BY <1>4, <2>2
  <2>4. /\ t \in OffsiteCalls /\ t.pc = call[c].pc /\ t.id = call[c].id /\ t.name = call[c].name
        /\ t.source = call[c].source /\ t.changes = call[c].changes /\ t.hash = call[c].hash
        /\ t.read = Append(call[c].read, next)
    BY <1>0, <2>3 DEF OffsiteCalls
  <2> HIDE DEF t
  <2>5. CallSteady(t)
    <3>1. t.changes = 0 => ReadsOne(t)
      BY <1>3, <2>1, <2>4, NextPiece
    <3> QED
      BY <1>0, <1>3, <2>4, <3>1 DEF CallSteady
  <2> QED
    BY <1>0, <1>5, <2>1, <2>4, <2>5
<1>7. CASE SourceChanges(c)
  <2>1. PICK source \in {Whole(d) : d \in Contents} \cup {Shorter(call[c].source)} :
          call' = [call EXCEPT ![c].source = source, ![c].changes = @ + 1]
    BY <1>7 DEF SourceChanges
  <2>2. source \in Seq(Contents)
    <3>1. \A d \in Contents : Whole(d) \in Seq(Contents)
      BY DEF Whole
    <3>2. Shorter(call[c].source) \in Seq(Contents)
      BY <1>4 DEF Shorter
    <3> QED
      BY <3>1, <3>2
  <2> DEFINE t == [call[c] EXCEPT !.source = source, !.changes = call[c].changes + 1]
  <2>3. call' = [call EXCEPT ![c] = t]
    BY <1>0, <2>1 DEF OffsiteCalls
  <2>4. /\ t \in OffsiteCalls /\ t.pc = call[c].pc /\ t.id = call[c].id /\ t.name = call[c].name
        /\ t.changes = call[c].changes + 1
    <3>1. call[c].changes + 1 \in Nat
      BY <1>4
    <3> QED
      BY <1>0, <2>2, <3>1 DEF OffsiteCalls
  <2> HIDE DEF t
  <2>5. CallSteady(t)
    BY <1>4, <2>4 DEF CallSteady
  <2> QED
    BY <1>0, <1>5, <2>3, <2>4, <2>5
<1>8. CASE CopyEnds(c)
  <2>1. call[c].pc = "copy" /\ AtEnd(c) /\ Goto(c, "rename")
    BY <1>8 DEF CopyEnds
  <2>2. PICK t \in OffsiteCalls :
          /\ call' = [call EXCEPT ![c] = t]
          /\ t.pc = "rename" /\ t.id = call[c].id /\ t.name = call[c].name
          /\ t.changes = call[c].changes /\ t.read = call[c].read
    BY <2>1, GotoMoves DEF PutPCs
  <2>3. CallSteady(t)
    BY <1>3, <2>1, <2>2 DEF CallSteady
  <2> QED
    BY <1>5, <2>1, <2>2, <2>3
<1>9. CASE Hash(c)
  <2>0. PICK none \in Seq(Contents) : none = <<>>
    BY NothingRead
  <2> DEFINE t == [call[c] EXCEPT !.pc = "send", !.hash = call[c].read, !.read = none]
             u == [call[c] EXCEPT !.pc = "sent", !.hash = call[c].read]
  <2>1. /\ call[c].pc = "hash" /\ AtEnd(c)
        /\ call' = [call EXCEPT ![c] = t] \/ call' = [call EXCEPT ![c] = u]
    BY <1>0, <1>9, <2>0 DEF Hash, OffsiteCalls
  <2>2. /\ t \in OffsiteCalls /\ t.pc = "send" /\ t.id = call[c].id /\ t.name = call[c].name
        /\ t.source = call[c].source /\ t.changes = call[c].changes /\ t.hash = call[c].read
        /\ t.read = none
    BY <1>0, <1>4 DEF OffsiteCalls, PutPCs
  <2>3. /\ u \in OffsiteCalls /\ u.pc = "sent" /\ u.id = call[c].id /\ u.name = call[c].name
        /\ u.changes = call[c].changes /\ u.hash = call[c].read
    BY <1>0, <1>4 DEF OffsiteCalls, PutPCs
  <2> HIDE DEF t, u
  <2>4. CallSteady(t)
    <3>1. t.changes = 0 => ReadsOne(t)
      BY <1>3, <2>0, <2>2 DEF ReadsOne
    <3> QED
      BY <1>3, <2>1, <2>2, <3>1 DEF CallSteady
  <2>5. CallSteady(u)
    BY <1>3, <2>1, <2>3 DEF CallSteady
  <2> QED
    BY <1>5, <2>1, <2>2, <2>3, <2>4, <2>5
<1>10. CASE SendEnds(c)
  <2>1. call[c].pc = "send" /\ Goto(c, "sent")
    BY <1>10 DEF SendEnds
  <2>2. PICK t \in OffsiteCalls :
          /\ call' = [call EXCEPT ![c] = t]
          /\ t.pc = "sent" /\ t.id = call[c].id /\ t.name = call[c].name
          /\ t.changes = call[c].changes /\ t.hash = call[c].hash
    BY <2>1, GotoMoves DEF PutPCs
  <2>3. CallSteady(t)
    BY <1>3, <2>1, <2>2 DEF CallSteady
  <2> QED
    BY <1>5, <2>1, <2>2, <2>3
<1> QED
  BY <1>6, <1>7, <1>8, <1>9, <1>10

\* The staging file is opened, or the Put fails with the session alive.
LEMMA StageStep ==
  ASSUME OffsiteInv, NEW c \in Callers, OpenStaging(c) \/ PutFails(c)
  PROVE  OffsiteInv' /\ GoodKept
<1>0. PutSound(c) /\ StagedSound(c) /\ ~Idle(c) /\ left \subseteq Nat
  BY InProgress DEF OpenStaging, PutFails, Idle, OffsiteTypes
<1>1. CASE OpenStaging(c)
  <2>1. /\ call[c].pc = "open" /\ Goto(c, "copy") /\ UNCHANGED <<kind, objects, left, started>>
        /\ staging' = staging \cup {StagingFile(c)}
    BY <1>1 DEF OpenStaging, StagingFile
  <2>2. Usable(call[c].name) /\ CallSteady(call[c])
    BY <1>0, <2>1 DEF PutSound, CallSound, PutPCs
  <2>3. PICK t \in OffsiteCalls :
          /\ call' = [call EXCEPT ![c] = t] /\ call'[c] = t
          /\ t.pc = "copy" /\ t.id = call[c].id /\ t.name = call[c].name /\ t.source = call[c].source
          /\ t.changes = call[c].changes /\ t.read = call[c].read
    BY <2>1, GotoMoves DEF PutPCs
  <2>4. CallSteady(t)
    BY <2>1, <2>2, <2>3 DEF CallSteady, ReadsOne
  <2>5. CallSound(t) /\ OwnsObject(c)'
    BY <2>1, <2>2, <2>3, <2>4 DEF CallSound, OwnsObject, Usable, Admitted
  <2>6. staging' = (staging \ Own(c)) \cup {StagingFile(c)}
    BY <1>0, <2>1 DEF StagedSound
  <2>7. ObjectsMove(c) /\ left \subseteq left' /\ left' \subseteq Nat
    BY <1>0, <2>1 DEF ObjectsMove
  <2> QED
    BY <1>0, <2>1, <2>3, <2>5, <2>6, <2>7, StagingStep
<1>2. CASE PutFails(c)
  BY <1>0, <1>2, CleanUpStep DEF PutFails, Fail
<1> QED
  BY <1>1, <1>2

\* What a rename may store is what its caller has read.
LEMMA RenameIsOwn ==
  ASSUME OffsiteInv, NEW c \in Callers, call[c].pc = "rename"
  PROVE  /\ Usable(call[c].name) /\ ServerName(call[c].name) = call[c].name
         /\ call[c].changes = 0 => IsWhole(call[c].read)
         /\ ~MayRename(c) => \E o \in objects : o.name = call[c].name
         /\ Renamed(c) => ObjectsMove(c)
<1>1. Usable(call[c].name) /\ (call[c].changes = 0 => IsWhole(call[c].read))
  BY DEF OffsiteInv, PutSound, CallSound, CallSteady, PutPCs
<1>2. ServerName(call[c].name) = call[c].name
  BY <1>1, ServerKeepsName
<1>3. ~MayRename(c) => \E o \in objects : o.name = call[c].name
  BY <1>2 DEF MayRename, At, OffsiteInv, AtIsName
<1>4. Renamed(c) => ObjectsMove(c)
  <2> SUFFICES ASSUME Renamed(c) PROVE PutsObject(c)
    BY DEF ObjectsMove
  <2>1. MayRename(c) /\ objects' = Stored(call[c].name, call[c].read, call[c].changes = 0)
    BY DEF Renamed
  <2> QED
    BY <1>1, <2>1 DEF PutsObject
<1> QED
  BY <1>1, <1>2, <1>3, <1>4

\* The rename stores the object, or finds on SMB that one is there.
LEMMA RenameStep ==
  ASSUME OffsiteInv, NEW c \in Callers, Rename(c) \/ RenameRefused(c)
  PROVE  OffsiteInv' /\ GoodKept
<1>0. /\ call[c].pc = "rename" /\ ~Idle(c) /\ UNCHANGED <<kind, started>>
      /\ left \subseteq Nat /\ call[c] \in OffsiteCalls
  BY InProgress DEF Rename, Renamed, RenameRefused, Idle, OffsiteTypes
<1>1. CASE Rename(c)
  <2>1. /\ Renamed(c) /\ Finish(c, "done", call[c].read) /\ left' = left
        /\ objects' = Stored(call[c].name, call[c].read, call[c].changes = 0)
        /\ staging' = (staging \ Own(c)) \cup {}
    BY <1>1 DEF Rename, Renamed
  <2>2. Usable(call[c].name) /\ ServerName(call[c].name) = call[c].name /\ ObjectsMove(c)
    BY <1>0, <2>1, RenameIsOwn
  <2>3. call[c].read \in Seq(Contents)
    BY <1>0 DEF OffsiteCalls
  <2>4. PICK t \in OffsiteCalls :
          /\ call' = [call EXCEPT ![c] = t] /\ call'[c] = t
          /\ t.pc = "done" /\ t.id = call[c].id /\ t.name = call[c].name /\ t.read = call[c].read
    BY <2>1, <2>3, FinishMoves
  <2>5. CallSound(t)
    BY <1>0, <2>2, <2>4 DEF CallSound, CallSteady, PutPCs, Usable, Admitted
  <2>6. OwnsObject(c)'
    <3> DEFINE o == [at |-> call[c].name, name |-> call[c].name, content |-> call[c].read,
                     steady |-> (call[c].changes = 0)]
    <3>1. o \in objects'
      BY <2>1, <2>2 DEF Stored
    <3>2. o.name = call[c].name /\ o.content = call[c].read
      OBVIOUS
    <3> HIDE DEF o
    <3> QED
      BY <2>4, <3>1, <3>2 DEF OwnsObject
  <2>7. left \subseteq left' /\ left' \subseteq Nat
    BY <1>0, <2>1
  <2> QED
    BY <1>0, <2>1, <2>2, <2>4, <2>5, <2>6, <2>7, StagingStep
<1>2. CASE RenameRefused(c)
  <2>1. Usable(call[c].name) /\ \E o \in objects : o.name = call[c].name
    BY <1>0, <1>2, RenameIsOwn DEF RenameRefused
  <2> QED
    BY <1>0, <1>2, <2>1, CleanUpStep DEF RenameRefused
<1> QED
  BY <1>1, <1>2

\* What an upload stores has the hash it was announced with.
LEMMA UploadMoves ==
  ASSUME OffsiteInv, NEW c \in Callers, call[c].pc \in {"send", "sent"}, Uploaded(c)
  PROVE  ObjectsMove(c) /\ kind = "s3" /\ Usable(call[c].name)
<1>1. /\ Usable(call[c].name) /\ kind = "s3" /\ (call[c].changes = 0 => IsWhole(call[c].hash))
  BY DEF OffsiteInv, PutSound, CallSound, CallSteady, PutPCs
<1>2. MayRename(c) /\ objects' = Stored(call[c].name, call[c].hash, call[c].changes = 0)
  BY <1>1 DEF MayRename, Uploaded
<1> QED
  BY <1>1, <1>2 DEF ObjectsMove, PutsObject

\* A session is lost: what was asked for happened or not, and nothing is cleaned up.
LEMMA LoseStep ==
  ASSUME OffsiteInv, NEW c \in Callers, Lose(c)
  PROVE  OffsiteInv' /\ GoodKept
<1>0. /\ ~Idle(c) /\ UNCHANGED <<kind, started>> /\ Finish(c, "failed", <<>>)
      /\ left' = left \cup {call[c].id} /\ left \subseteq left' /\ left' \subseteq Nat
  BY InProgress DEF Lose, Fail, OffsiteTypes
<1>1. PICK t \in OffsiteCalls :
        /\ call' = [call EXCEPT ![c] = t] /\ call'[c] = t
        /\ t.pc = "failed" /\ t.id = call[c].id
  <2>1. PICK read \in Seq(Contents) : read = <<>>
    BY NothingRead
  <2>2. Finish(c, "failed", read)
    BY <1>0, <2>1
  <2> QED
    BY <2>2, FinishMoves
<1>2. CallSound(t) /\ OwnsObject(c)'
  BY <1>1 DEF CallSound, CallSteady, PutPCs, OwnsObject
<1>3. t.id \in left'
  BY <1>0, <1>1
<1>4. CASE UNCHANGED <<objects, staging>>
  <2>1. ObjectsMove(c) /\ staging' = staging
    BY <1>4 DEF ObjectsMove
  <2> QED
    BY <1>0, <1>1, <1>2, <1>3, <2>1, StillStep
<1>5. CASE Renamed(c)
  <2>1. ObjectsMove(c)
    BY <1>5, RenameIsOwn DEF Renamed
  <2>2. staging' = (staging \ Own(c)) \cup {}
    BY <1>5 DEF Renamed
  <2> QED
    BY <1>0, <1>1, <1>2, <2>1, <2>2, StagingStep
<1>6. CASE Received(c) /\ Uploaded(c) /\ UNCHANGED staging
  <2>1. ObjectsMove(c)
    BY <1>6, UploadMoves DEF Received
  <2> QED
    BY <1>0, <1>1, <1>2, <1>3, <1>6, <2>1, StillStep
<1> QED
  BY <1>4, <1>5, <1>6 DEF Lose

\* S3 stores what has the hash it was announced with, and the probe is removed.
LEMMA LastStep ==
  ASSUME OffsiteInv, NEW c \in Callers, Replied(c) \/ Unping(c)
  PROVE  OffsiteInv' /\ GoodKept
<1>0. /\ PutSound(c) /\ Own(c) = {} /\ ~Idle(c) /\ call[c].read \in Seq(Contents)
      /\ <<>> \in Seq(Contents)
      /\ UNCHANGED <<kind, staging, left, started>> /\ left \subseteq left' /\ left' \subseteq Nat
  BY InProgress DEF Replied, Unping, StagedSound, Idle, OffsiteTypes, OffsiteCalls
<1>1. PICK ending \in {"done", "failed"}, read \in Seq(Contents) : Finish(c, ending, read)
  BY <1>0 DEF Replied, Unping, Fail
<1>2. PICK t \in OffsiteCalls :
        /\ call' = [call EXCEPT ![c] = t] /\ call'[c] = t
        /\ t.pc = ending /\ t.id = call[c].id /\ t.name = call[c].name
  BY <1>1, FinishMoves
<1>3. CASE Replied(c)
  <2>1. call[c].pc = "sent" /\ kind = "s3" /\ Usable(call[c].name)
    BY <1>0, <1>3 DEF Replied, PutSound, CallSound, PutPCs
  <2>2. ObjectsMove(c)
    BY <1>3, <2>1, UploadMoves DEF Replied, ObjectsMove
  <2>3. CallSound(t) /\ OwnsObject(c)'
    BY <1>0, <1>1, <1>2, <2>1 DEF CallSound, CallSteady, PutPCs, Usable, Admitted, OwnsObject
  <2> QED
    BY <1>0, <1>1, <1>2, <2>2, <2>3, StillStep
<1>4. CASE Unping(c)
  <2>1. call[c].pc = "unping" /\ call[c].name = Unset
    BY <1>0, <1>4 DEF Unping, PutSound, CallSound
  <2>2. ObjectsMove(c)
    BY <1>4 DEF Unping, ObjectsMove
  <2>3. CallSound(t) /\ OwnsObject(c)'
    BY <1>0, <1>1, <1>2, <2>1 DEF CallSound, CallSteady, PutPCs, OwnsObject
  <2> QED
    BY <1>0, <1>1, <1>2, <2>2, <2>3, StillStep
<1> QED
  BY <1>3, <1>4

\* Every step of a caller keeps OffsiteInv and every good object.
LEMMA OffsiteStep ==
  ASSUME OffsiteInv, OffsiteNext
  PROVE  OffsiteInv' /\ GoodKept
BY BeginStep, LookStep, ReadStep, StageStep, RenameStep, LoseStep, LastStep DEF OffsiteNext

\* OffsiteInv holds in every reachable state.
LEMMA OffsiteInvariant == OffsiteSpec => []OffsiteInv
<1>1. OffsiteInit => OffsiteInv
  <2> SUFFICES ASSUME OffsiteInit PROVE OffsiteInv
    OBVIOUS
  <2>1. NoCall \in OffsiteCalls /\ NoCall.pc = "idle" /\ NoCall.id = 0 /\ NoCall.name = Unset
    BY DEF NoCall, NewCall, OffsiteCalls
  <2>2. OffsiteTypes /\ \A c \in Callers : call[c] = NoCall
    BY <2>1 DEF OffsiteInit, OffsiteTypes
  <2>3. \A c \in Callers : PutSound(c) /\ StagedSound(c)
    BY <2>1, <2>2 DEF PutSound, CallSound, CallSteady, StagedSound, PutPCs, OffsiteTypes
  <2>4. TargetSound /\ AtIsName
    BY <2>1, <2>2 DEF OffsiteInit, TargetSound, ObjectsApart, WholeObjects, OwnObject,
                ResidueExplained, AtIsName
  <2> QED
    BY <2>2, <2>3, <2>4 DEF OffsiteInv
<1>2. OffsiteInv /\ [OffsiteNext]_offsiteVars => OffsiteInv'
  <2> SUFFICES ASSUME OffsiteInv, UNCHANGED offsiteVars PROVE OffsiteInv'
    BY OffsiteStep
  <2> QED
    BY DEF offsiteVars, OffsiteInv, OffsiteTypes, AtIsName, TargetSound, ObjectsApart, WholeObjects,
           OwnObject, ResidueExplained, PutSound, CallSound, CallSteady, StagedSound, StagingFile, Own, Usable, Admitted, Idle
<1> QED
  BY <1>1, <1>2, PTL DEF OffsiteSpec

\* Put on any target: with any number of callers, names, retries, lost sessions,
\* failing removals and changing sources, no object is part of an upload, each is
\* under the name its Put was given, and no staging file stays that a failed Put
\* did not try to remove.
THEOREM TargetAlwaysSound == OffsiteSpec => []TargetSound
<1>1. OffsiteInv => TargetSound
  BY DEF OffsiteInv
<1> QED
  BY <1>1, OffsiteInvariant, PTL

\* Put and Test never cost the previous good replica, and on SMB never change it.
THEOREM GoodAlwaysKept == OffsiteSpec => LastGoodKept
<1>1. OffsiteInv /\ [OffsiteNext]_offsiteVars => [GoodKept]_offsiteVars
  BY OffsiteStep
<1>2. OffsiteSpec => [][GoodKept]_offsiteVars
  BY <1>1, OffsiteInvariant, PTL DEF OffsiteSpec
<1> QED
  BY <1>2 DEF LastGoodKept, GoodKept
=============================================================================

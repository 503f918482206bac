----------------------------- MODULE AuditShip -----------------------------
(***************************************************************************)
(* A product that appends to an auditchain.Chain and ships each returned   *)
(* record with logging's Audit, and an operator who runs kyauditverify     *)
(* over the collector's export.  Append returns after it gave up the chain *)
(* lock, so Audit writes outside it.  A product that converts an older log *)
(* starts from Replay, whose records were never shipped.  The flat keys of *)
(* a line, and what Audit does when they disagree, are left out.           *)
(***************************************************************************)
EXTENDS AuditChain, SequencesExt

VARIABLES
  due,      \* per goroutine: the record it has yet to ship, as a sequence
  shipped,  \* the lines of the export that carry a hash, in order
  lost      \* some record never became a line: a write failed, a process died

shipVars == <<due, shipped, lost>>

\* A chain over field tuples, each record minted on the one before it.
Replay(tuples) ==
  LET chain[n \in 0..Len(tuples)] ==
        IF n = 0 THEN <<>>
        ELSE Append(chain[n - 1], Minted(n, HeadHash(chain[n - 1]), tuples[n]))
  IN  chain[Len(tuples)]

ShipInit ==
  /\ Init
  /\ due = [t \in Appenders |-> <<>>]
  /\ shipped = <<>> /\ lost = FALSE

\* The product writes the replayed log and its anchor in one transaction.
Convert ==
  /\ ~up /\ log = <<>>
  /\ \E tuples \in SeqOf(Fields, MaxLog - 1) :
       /\ tuples # <<>>
       /\ log' = Replay(tuples)
       /\ anchor' = AnchorOf(Last(Replay(tuples)))
  /\ lost' = TRUE
  /\ UNCHANGED <<up, count, head, lock, call, returned, unsure, due, shipped>>

\* Append returns the record to the goroutine that ships it.
AdvanceAndShip(t) ==
  /\ Advance(t)
  /\ due' = [due EXCEPT ![t] = <<call[t].rec>>]
  /\ UNCHANGED <<shipped, lost>>

\* Audit writes the handler directly: no level suppresses the line.
\* Variant with a bug: a line below the configured level is dropped.
AuditBelowLevel(t) ==
  /\ due[t] # <<>>
  /\ due' = [due EXCEPT ![t] = <<>>]
  /\ UNCHANGED <<vars, shipped, lost>>

Audit(t) ==
  /\ due[t] # <<>>
  /\ shipped' = shipped \o due[t]
  /\ due' = [due EXCEPT ![t] = <<>>]
  /\ UNCHANGED <<vars, lost>>

\* The write fails; Audit returns the error and the line is gone.
AuditFails(t) ==
  /\ due[t] # <<>>
  /\ due' = [due EXCEPT ![t] = <<>>]
  /\ lost' = TRUE
  /\ UNCHANGED <<vars, shipped>>

\* Append reports the error, so nobody ships the record that was stored.
UnsureAndLose(t) ==
  /\ PersistUnsure(t)
  /\ lost' = TRUE
  /\ UNCHANGED <<due, shipped>>

\* The process dies with what it had not shipped, or had stored and not
\* yet returned.
CrashAndLose ==
  /\ Crash
  /\ due' = [t \in Appenders |-> <<>>]
  /\ lost' = (lost \/ \E t \in Appenders : due[t] # <<>> \/ call[t].pc = "stored")
  /\ UNCHANGED shipped

ShipNext ==
  \/ (New \/ Resume) /\ UNCHANGED shipVars
  \/ Convert \/ CrashAndLose
  \/ \E t \in Appenders :
       \/ due[t] = <<>> /\ AppendStep(t) /\ UNCHANGED shipVars
       \/ AdvanceAndShip(t) \/ UnsureAndLose(t) \/ Audit(t) \/ AuditFails(t)

ShipSpec == ShipInit /\ [][ShipNext]_<<vars, shipVars>>

-----------------------------------------------------------------------------
(* Properties *)

\* Nothing is under way: every record stored is shipped or lost.
Quiescent == \A t \in Appenders : due[t] = <<>> /\ call[t].pc = "idle"

\* Audit: when no write failed and no process died in between, every stored
\* record reached the export, once.
ExportComplete ==
  Quiescent /\ ~lost =>
    Len(shipped) = Len(log) /\ ToSet(shipped) = ToSet(log)

\* From Append to the export nothing is made up or dropped: what a call
\* returned is stored, the chain in memory is the stored one, and what is stored
\* is exported.
RecordsKept ==
  /\ TypeOK /\ ReturnedIsStored /\ ChainMatchesStore
  /\ ExportComplete
=============================================================================

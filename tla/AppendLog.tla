----------------------------- MODULE AppendLog -----------------------------
(***************************************************************************)
(* What auditchain.Chain promises a product, whatever its persist reports  *)
(* and whenever the process dies: the stored log only ever grows, by one   *)
(* entry at a time, and an append is acknowledged when its entry is the    *)
(* last one, so acknowledgements come in the order of the log.             *)
(***************************************************************************)
EXTENDS Integers, Sequences

VARIABLES
  entries,  \* what is stored
  acked     \* the entries whose append was reported done

LogEmpty == entries = <<>> /\ acked = {}

\* A log kept elsewhere before is taken over, once.
Adopt == entries = <<>> /\ UNCHANGED acked

Grow ==
  /\ entries' # <<>> /\ entries = SubSeq(entries', 1, Len(entries') - 1)
  /\ UNCHANGED acked

Acknowledge ==
  /\ entries # <<>>
  /\ acked' = acked \cup {entries[Len(entries)]}
  /\ UNCHANGED entries

LogSpec == LogEmpty /\ [][Adopt \/ Grow \/ Acknowledge]_<<entries, acked>>
=============================================================================

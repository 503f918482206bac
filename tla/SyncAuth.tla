------------------------------ MODULE SyncAuth ------------------------------
(***************************************************************************)
(* syncauth: a sender signs events, the network delays, repeats, reorders  *)
(* and alters them, and a receiver verifies each delivery on its own       *)
(* goroutine, asks the in-memory replay guard, and runs the handler.       *)
(*                                                                         *)
(* Time is counted in ticks of the wall clock, which may be set back.      *)
(* Verify and the guard each read it: a request may wait between the two.  *)
(* The signature is a flag: it covers every header and the body, so an     *)
(* altered request does not carry one.                                     *)
(***************************************************************************)
EXTENDS Integers, Sequences, FiniteSets

CONSTANTS
  Workers,   \* goroutines serving requests
  Ids,       \* event IDs
  Window,    \* Options.Window, the guard's window too
  Max,       \* NewMemoryReplay's max
  Skews,     \* how far a sender's clock is from the receiver's
  Backs,     \* by how much the receiver's clock is set back
  MaxClock,  \* bound: the last tick
  MaxSent    \* bound: requests ever signed

ASSUME WindowAssumption ==
  /\ Window \in Nat \ {0} /\ Max \in Nat \ {0} /\ MaxClock \in Nat
  /\ Skews \subseteq Int /\ Backs \subseteq Nat /\ MaxSent \in Nat

VARIABLES
  clock,     \* the receiver's wall clock
  wire,      \* the requests on the network, which never forgets one
  req,       \* per goroutine: where it is in Middleware, with which request
  seen,      \* memoryReplay.seen, from event ID to timestamp
  order,     \* memoryReplay.order
  accepted,  \* what Verify accepted since the process started
  current    \* of that, what the clock was never past the window of since

guardVars == <<clock, wire, req, seen, order, accepted, current>>

NoHeaders == [id |-> "none", at |-> 0, signed |-> FALSE]
Idle == [pc |-> "idle", h |-> NoHeaders]
Empty == [i \in {} |-> 0]

GuardInit ==
  /\ clock = 0 /\ wire = {}
  /\ req = [w \in Workers |-> Idle]
  /\ seen = Empty /\ order = <<>>
  /\ accepted = {} /\ current = {}

\* time.Now().Add(-m.window), and After(cutoff).
Live(t) == t > clock - Window

Tick ==
  /\ clock < MaxClock
  /\ clock' = clock + 1
  /\ current' = {h \in current : h.at > clock' - Window}
  /\ UNCHANGED <<wire, req, seen, order, accepted>>

\* A timestamp that was parsed has no monotonic reading: a clock that is set back
\* is believed.
SetBack ==
  /\ \E b \in Backs : clock >= b /\ clock' = clock - b
  /\ UNCHANGED <<wire, req, seen, order, accepted, current>>

\* The sender signs an event; a retry repeats the headers, or signs again at
\* the time of the retry.
Sign(id, skew) ==
  /\ Cardinality(wire) < MaxSent
  /\ wire' = wire \cup {[id |-> id, at |-> clock + skew, signed |-> TRUE]}
  /\ UNCHANGED <<clock, req, seen, order, accepted, current>>

\* Verify, up to the guard: the window in both directions, then the signature.
\* A refusal answers 401 and leaves nothing behind.
Genuine(h) ==
  clock - h.at <= Window /\ clock - h.at >= -Window /\ h.signed

Verify(w, h) ==
  /\ req[w].pc = "idle" /\ Genuine(h)
  /\ req' = [req EXCEPT ![w] = [pc |-> "check", h |-> h]]
  /\ UNCHANGED <<clock, wire, seen, order, accepted, current>>

\* A request arrives as it was sent, or altered on the way.
Altered(h) == {[h EXCEPT !.id = i, !.signed = FALSE] : i \in Ids}
Arrives(w) == \E h \in wire : \E g \in Altered(h) \cup {h} : Verify(w, g)

\* The front of order, up to the first ID whose timestamp is still live.
\* Variant with a bug: a full guard forgets its oldest ID to make room.
MakesRoom(k) == k = (IF Len(order) = Max THEN 1 ELSE 0)
Forgotten(k) ==
  /\ \A j \in 1..k : ~Live(seen[order[j]])
  /\ k < Len(order) => Live(seen[order[k + 1]])

KeptAll(k) == order  \* variant with a bug: only the map forgets
Kept(k) == SubSeq(order, k + 1, Len(order))
Remembered(k) == [i \in DOMAIN seen \ {order[j] : j \in 1..k} |-> seen[i]]

\* memoryReplay.Check, atomic under its mutex.
Answer(id, k) ==
  IF id \in DOMAIN Remembered(k) THEN "ErrReplay"
  ELSE IF Len(Kept(k)) >= Max THEN "ErrReplayGuardFull" ELSE "nil"

Check(w) ==
  LET h == req[w].h
  IN  /\ req[w].pc = "check"
      /\ \E k \in 0..Len(order) :
           /\ Forgotten(k)
           /\ IF Answer(h.id, k) = "nil"
              THEN /\ req' = [req EXCEPT ![w].pc = "handle"]
                   /\ seen' = [i \in DOMAIN Remembered(k) \cup {h.id} |->
                                IF i = h.id THEN h.at ELSE seen[i]]
                   /\ order' = Append(Kept(k), h.id)
                   /\ accepted' = accepted \cup {h}
                   /\ current' = current \cup {g \in {h} : Live(g.at)}
              ELSE /\ req' = [req EXCEPT ![w] = Idle]
                   /\ seen' = Remembered(k) /\ order' = Kept(k)
                   /\ UNCHANGED <<accepted, current>>
      /\ UNCHANGED <<clock, wire>>

\* The handler runs; when it fails the guard keeps the ID all the same.
Handle(w) ==
  /\ req[w].pc = "handle"
  /\ req' = [req EXCEPT ![w] = Idle]
  /\ UNCHANGED <<clock, wire, seen, order, accepted, current>>

\* A restart forgets everything, the requests in progress too.
Restart ==
  /\ accepted # {}
  /\ req' = [w \in Workers |-> Idle]
  /\ seen' = Empty /\ order' = <<>> /\ accepted' = {} /\ current' = {}
  /\ UNCHANGED <<clock, wire>>

GuardNext ==
  \/ Tick \/ SetBack \/ Restart
  \/ \E id \in Ids, skew \in Skews : Sign(id, skew)
  \/ \E w \in Workers :
       Arrives(w) \/ Check(w) \/ Handle(w)

GuardSpec == GuardInit /\ [][GuardNext]_guardVars

-----------------------------------------------------------------------------
(* Properties *)

Headers == [id : Ids \cup {"none"}, at : Int, signed : BOOLEAN]

\* Clock, requests and guard have their types; the guard holds at most Max IDs.
GuardTypeOK ==
  /\ clock \in Nat
  /\ wire \subseteq Headers /\ accepted \subseteq Headers
  /\ req \in [Workers -> [pc : {"idle", "check", "handle"}, h : Headers]]
  /\ DOMAIN seen \subseteq Ids /\ seen \in [DOMAIN seen -> Int]
  /\ order \in Seq(Ids) /\ Len(order) <= Max

\* memoryReplay: what was accepted and has been inside the window ever since is known.
WindowRemembered == \A h \in current : h.id \in DOMAIN seen

\* Verify and memoryReplay, between them: only what a sender signed was accepted,
\* as it signed it; the list and the map hold the same IDs, each once and at most
\* Max, so that no ID is kept for ever and none is forgotten twice; every ID
\* accepted and inside the window ever since is among them.
GuardConsistent ==
  /\ GuardTypeOK
  /\ DOMAIN seen = {order[i] : i \in DOMAIN order}
  /\ \A i, j \in DOMAIN order : order[i] = order[j] => i = j
  /\ WindowRemembered
  /\ current \subseteq accepted /\ accepted \subseteq wire

Accepts(w) == req[w].pc = "check" /\ req'[w].pc = "handle"

\* Check, called by any number of goroutines under a clock that may be set back: an
\* event ID is not accepted again while an accepted timestamp of it has stayed
\* inside the guard's window.
NoReplayInsideWindow ==
  [][\A w \in Workers : Accepts(w) =>
       \A h \in current : h.id # req[w].h.id]_guardVars

\* syncauth.go:197-200: the guard "forgets IDs only once their timestamp has
\* left the window", "because a forgotten ID is a replay the signature alone
\* cannot stop": the same signed request is never accepted twice.
SameRequestOnce ==
  [][\A w \in Workers : Accepts(w) => req[w].h \notin accepted]_guardVars
=============================================================================

------------------------------- MODULE Health -------------------------------
(***************************************************************************)
(* health: /healthz.  Clients wait on the handler's mutex for one cached   *)
(* response; whoever finds it older than CacheFor runs every check, each   *)
(* on a goroutine of its own with a deadline.  A check that ignores its    *)
(* deadline keeps its goroutine, and its runner stays busy.                *)
(*                                                                         *)
(* Time is counted in ticks, as the age of the cached response and of the  *)
(* evaluation under way.  Goroutines are prompt: time passes only while    *)
(* nothing but a check or a deadline is waited for.                        *)
(***************************************************************************)
EXTENDS Integers, FiniteSets

CONSTANTS
  Clients, Checks,
  CacheFor,  \* how long one evaluation answers
  Timeout,   \* the deadline of every check
  Nobody

\* MaxTimeout, 4 s, is below CacheFor, 5 s.
ASSUME HealthAssumption ==
  /\ Timeout \in Nat \ {0} /\ CacheFor \in Nat /\ Timeout < CacheFor
  /\ Nobody \notin Clients

Statuses == {"ok", "degraded", "down"}

VARIABLES
  age,        \* ticks since h.at; CacheFor when expired or never set
  resp,       \* h.resp: what each check reported
  mu,         \* who holds h.mu
  client,     \* per client: idle, waiting or evaluating
  missed,     \* the clients that were waiting when an evaluation began
  elapsed,    \* ticks since the evaluation under way began
  res,        \* its results so far, per check
  busy,       \* runner.busy, per check
  goroutines  \* what runs: [check, mine, out, freed]; mine until the next evaluation

healthVars == <<age, resp, mu, client, missed, elapsed, res, busy, goroutines>>

HealthInit ==
  /\ age = CacheFor /\ resp = [k \in Checks |-> "down"]
  /\ mu = Nobody /\ client = [c \in Clients |-> "idle"] /\ missed = {}
  /\ elapsed = 0 /\ res = [k \in Checks |-> "none"]
  /\ busy = [k \in Checks |-> FALSE] /\ goroutines = {}

Request(c) ==
  /\ client[c] = "idle"
  /\ client' = [client EXCEPT ![c] = "waiting"]
  /\ UNCHANGED <<age, resp, mu, missed, elapsed, res, busy, goroutines>>

ExpiresEarly == age >= Timeout  \* variant with a bug: shorter than an evaluation
Expired == age >= CacheFor

\* current() on a response still fresh.
AnswerCached(c) ==
  /\ client[c] = "waiting" /\ mu = Nobody /\ ~Expired
  /\ client' = [client EXCEPT ![c] = "idle"]
  /\ missed' = missed \ {c}
  /\ UNCHANGED <<age, resp, mu, elapsed, res, busy, goroutines>>

\* current() on an old one: now is read, and evaluate starts every runner.
Evaluate(c) ==
  /\ client[c] = "waiting" /\ mu = Nobody /\ Expired
  /\ mu' = c
  /\ client' = [client EXCEPT ![c] = "evaluating"]
  /\ missed' = (missed \ {c}) \cup {d \in Clients \ {c} : client[d] = "waiting"}
  /\ elapsed' = 0 /\ res' = [k \in Checks |-> "start"]
  /\ goroutines' = {[g EXCEPT !.mine = FALSE] : g \in goroutines}
  /\ UNCHANGED <<age, resp, busy>>

Result(k, status) == res' = [res EXCEPT ![k] = status]

MayStart(k) == ~busy[k]

\* runner.run: a check still running from before is down, not started again.
Start(k) ==
  /\ res[k] = "start"
  /\ IF MayStart(k)
     THEN /\ Result(k, "wait")
          /\ busy' = [busy EXCEPT ![k] = TRUE]
          /\ goroutines' = goroutines \cup {[check |-> k, mine |-> TRUE, out |-> "running",
                                           freed |-> FALSE]}
     ELSE Result(k, "down") /\ UNCHANGED <<busy, goroutines>>
  /\ UNCHANGED <<age, resp, mu, client, missed, elapsed>>

\* How Check.Run ends: nil, Degrade, Fail, another error or a panic, which
\* safeRun recovers; and the status classify gives it.
Endings == {"nil", "degrade", "fail", "error", "panic"}
classify(out) ==
  [nil |-> "ok", degrade |-> "degraded", fail |-> "down", error |-> "down", panic |-> "down"][out]

CheckReturns(g, out) ==
  /\ g.out = "running"
  /\ goroutines' = (goroutines \ {g}) \cup {[g EXCEPT !.out = classify(out)]}
  /\ UNCHANGED <<age, resp, mu, client, missed, elapsed, res, busy>>

\* The goroutine frees its runner before it reports, so that the next
\* evaluation never sees a finished check as still running.
\* Variant with a bug: a check that missed its deadline keeps its runner.
StaysBusy(g) == IF g.mine THEN [busy EXCEPT ![g.check] = FALSE] ELSE busy
Freed(g) == [busy EXCEPT ![g.check] = FALSE]

Free(g) ==
  /\ g.out # "running" /\ ~g.freed
  /\ busy' = Freed(g)
  /\ goroutines' = (goroutines \ {g}) \cup {[g EXCEPT !.freed = TRUE]}
  /\ UNCHANGED <<age, resp, mu, client, missed, elapsed, res>>

\* The result is sent on the channel of the evaluation that started the check.

ThisEvaluation(g) == g.mine /\ res[g.check] = "wait"

Report(g) ==
  /\ g.freed
  /\ goroutines' = goroutines \ {g}
  /\ IF ThisEvaluation(g) THEN Result(g.check, g.out) ELSE UNCHANGED res
  /\ UNCHANGED <<age, resp, mu, client, missed, elapsed, busy>>

\* The deadline: select takes it even when the result is ready as well.
NoDeadline(k) == FALSE  \* variant with a bug

Deadline(k) ==
  /\ res[k] = "wait" /\ elapsed >= Timeout
  /\ Result(k, "down")
  /\ UNCHANGED <<age, resp, mu, client, missed, elapsed, busy, goroutines>>

\* Every runner has answered: the response is cached as of its start.
Finish(c) ==
  /\ mu = c /\ \A k \in Checks : res[k] \in Statuses
  /\ resp' = res /\ age' = elapsed
  /\ res' = [k \in Checks |-> "none"]
  /\ mu' = Nobody
  /\ client' = [client EXCEPT ![c] = "idle"]
  /\ UNCHANGED <<missed, elapsed, busy, goroutines>>

\* Nothing can happen but a check returning, a client calling or time.
Settled ==
  /\ mu = Nobody => \A c \in Clients : client[c] # "waiting"
  /\ mu # Nobody => \E k \in Checks : res[k] = "wait"
  /\ \A k \in Checks : res[k] # "start" /\ (res[k] = "wait" => elapsed < Timeout)
  /\ \A g \in goroutines : g.out = "running"

HealthTick ==
  /\ Settled
  /\ age' = IF age < CacheFor THEN age + 1 ELSE age
  /\ elapsed' = IF mu # Nobody THEN elapsed + 1 ELSE elapsed
  /\ UNCHANGED <<resp, mu, client, missed, res, busy, goroutines>>

\* What the handler and the runners do by themselves.
Handler ==
  \/ \E c \in Clients : Finish(c)
  \/ \E k \in Checks : Start(k) \/ Deadline(k)
  \/ \E g \in goroutines : Free(g) \/ Report(g)

Serve(c) == AnswerCached(c) \/ Evaluate(c)

HealthNext ==
  \/ HealthTick \/ Handler
  \/ \E c \in Clients : Request(c) \/ Serve(c)
  \/ \E g \in goroutines, out \in Endings : CheckReturns(g, out)

HealthSpec == HealthInit /\ [][HealthNext]_healthVars

\* The mutex serves its waiters in turn; a check need not ever return.
HealthFairness ==
  /\ WF_healthVars(HealthTick) /\ WF_healthVars(Handler)
  /\ \A c \in Clients : SF_healthVars(Serve(c))

-----------------------------------------------------------------------------
(* Properties *)

\* The response, the evaluation and the goroutines have their types.
HealthTypeOK ==
  /\ age \in 0..CacheFor /\ elapsed \in 0..Timeout
  /\ resp \in [Checks -> Statuses]
  /\ mu \in Clients \cup {Nobody} /\ missed \subseteq Clients
  /\ client \in [Clients -> {"idle", "waiting", "evaluating"}]
  /\ res \in [Checks -> Statuses \cup {"none", "start", "wait"}]
  /\ busy \in [Checks -> BOOLEAN]
  /\ goroutines \subseteq
       [check : Checks, mine : BOOLEAN, out : Statuses \cup {"running"}, freed : BOOLEAN]

Running == {g \in goroutines : ~g.freed}

\* runner: polling a hung dependency never stacks goroutines on it.
OneGoroutinePerCheck ==
  \A g, h \in Running : g.check = h.check => g = h

\* runner: busy says exactly whether the check's one goroutine still runs, after
\* deadlines and panics too, so a check that came back is polled again.
BusyIsTrue ==
  /\ HealthTypeOK /\ OneGoroutinePerCheck
  /\ \A k \in Checks : busy[k] <=> \E g \in Running : g.check = k

\* current and run: "concurrent callers wait on the one evaluation instead of
\* starting their own", for the longest deadline a check may have, and what that
\* evaluation reports is never the result of a run some earlier one started.
OneEvaluation ==
  [][/\ \A c \in Clients :
          client[c] = "waiting" /\ client'[c] = "evaluating" => c \notin missed
     /\ \A g \in goroutines :
          ~g.mine /\ g \notin goroutines' /\ mu' = mu => res'[g.check] = res[g.check]]_healthVars

\* current: every request is answered though a check never returns.
RequestAnswered == \A c \in Clients : client[c] = "waiting" ~> client[c] = "idle"
=============================================================================

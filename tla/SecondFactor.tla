---------------------------- MODULE SecondFactor ----------------------------
(***************************************************************************)
(* totp and recoverycode, with the product that spends what they match.    *)
(* Validate names the counter a code matched and the product records it;   *)
(* MatchCode names the slot of a code and the product blanks it in place.  *)
(* A product matches on what it read and writes in a second step, so two   *)
(* attempts interleave.  A code's digits are given per counter; a typed    *)
(* recovery code is the code and how it was typed.                         *)
(***************************************************************************)
EXTENDS Integers, Sequences, SequencesExt

CONSTANTS
  Attempts,     \* concurrent attempts at the second factor
  Period,       \* seconds of a step
  LastSecond,   \* bound: the last second
  Hotp,         \* the code of each counter, wrapped negative ones included
  Wrap,         \* what a negative counter is taken modulo
  Codes,        \* recovery codes rand.Read may yield
  CodeCount,    \* how many Generate is asked for
  NoCode

VARIABLES
  seconds,      \* the clock
  spent,        \* counters the product recorded
  issued,       \* the codes handed to the user
  digests,      \* their digests, a redeemed slot being NoCode
  attempt,      \* per attempt: [pc, code, match]
  cleared,      \* how often each counter passed
  redeemed      \* how often each code passed

factorVars == <<seconds, spent, issued, digests, attempt, cleared, redeemed>>

\* The clock ends before a counter wraps: Wrap stands for the code's 2^64.
ASSUME FactorAssumption ==
  /\ Period \in Nat \ {0} /\ LastSecond \in Nat /\ Wrap \in Nat /\ CodeCount \in Nat
  /\ (LastSecond \div Period) + 1 < Wrap
  /\ NoCode \notin Codes

Counters == 0..(Wrap - 1)

NoAttempt == [pc |-> "none", code |-> NoCode, match |-> 0]

\* Generate: CodeCount distinct codes, and the digest of each is stored.
Generated == {s \in [1..CodeCount -> Codes] : \A i, j \in 1..CodeCount : s[i] = s[j] => i = j}

FactorInit ==
  /\ seconds = 0 /\ spent = {}
  /\ cleared = [c \in Counters |-> 0] /\ redeemed = [c \in Codes |-> 0]
  /\ issued \in Generated
  /\ digests = issued
  /\ attempt = [a \in Attempts |-> NoAttempt]

PassSecond ==
  /\ seconds < LastSecond
  /\ seconds' = seconds + 1
  /\ UNCHANGED <<spent, issued, digests, attempt, cleared, redeemed>>

----------------------------------------------------------------------------
\* totp

Window(step) == {c \in {step - 1, step, step + 1} : c >= 0}

Digits(counter) == Hotp[counter % Wrap]

\* Validate: the first counter of the window whose code was typed.
Matches(code, t) == {c \in Window(t \div Period) : Digits(c) = code}

ValidateCode(a, code) ==
  /\ attempt[a].pc = "none" /\ Matches(code, seconds) # {}
  /\ attempt' = [attempt EXCEPT ![a] =
       [pc |-> "spend", code |-> code,
        match |-> CHOOSE c \in Matches(code, seconds) : \A d \in Matches(code, seconds) : c <= d]]
  /\ UNCHANGED <<seconds, spent, issued, digests, cleared, redeemed>>

\* The product records the counter and refuses a repeat, in one step (external).
Spend(a) ==
  /\ attempt[a].pc = "spend"
  /\ IF attempt[a].match \in spent THEN UNCHANGED <<spent, cleared>>
     ELSE /\ spent' = spent \cup {attempt[a].match}
          /\ cleared' = [cleared EXCEPT ![attempt[a].match] = @ + 1]
  /\ attempt' = [attempt EXCEPT ![a] = NoAttempt]
  /\ UNCHANGED <<seconds, issued, digests, redeemed>>

----------------------------------------------------------------------------
\* recoverycode

\* Normalize drops separators, spaces and case; nothing may be left.
Normalize(typed) == IF typed.form = "blank" THEN NoCode ELSE typed.code

\* MatchDigest: every slot is compared, a blank one never matches, and the
\* first hit is the answer.
\* Variant with a bug: the place among the slots still unredeemed.
MatchAmongLive(candidate, slots) ==
  LET live == SelectSeq(slots, LAMBDA d : d # NoCode)
  IN  {i \in DOMAIN live : live[i] = candidate /\ candidate # NoCode}
MatchDigest(candidate, slots) ==
  {i \in DOMAIN slots : /\ candidate # NoCode /\ slots[i] = candidate
                        /\ \A j \in 1..(i - 1) : slots[j] # candidate}

Redeem(a, typed) ==
  /\ attempt[a].pc = "none"
  /\ \E i \in MatchDigest(Normalize(typed), digests) :
       attempt' = [attempt EXCEPT ![a] = [pc |-> "blank", code |-> typed.code, match |-> i]]
  /\ UNCHANGED <<seconds, spent, issued, digests, cleared, redeemed>>

\* The product blanks the slot, unless it was blanked meanwhile (external).
Blank(a) ==
  LET i == attempt[a].match
  IN  /\ attempt[a].pc = "blank"
      /\ IF digests[i] = NoCode THEN UNCHANGED <<digests, redeemed>>
         ELSE /\ digests' = [digests EXCEPT ![i] = NoCode]
              /\ redeemed' = [redeemed EXCEPT ![attempt[a].code] = @ + 1]
      /\ attempt' = [attempt EXCEPT ![a] = NoAttempt]
      /\ UNCHANGED <<seconds, spent, issued, cleared>>

FactorNext ==
  \/ PassSecond
  \/ \E a \in Attempts :
       \/ \E c \in {Hotp[n] : n \in DOMAIN Hotp} : ValidateCode(a, c)
       \/ Spend(a) \/ Blank(a)
       \/ \E c \in Codes, f \in {"grouped", "upper", "blank"} :
            Redeem(a, [code |-> c, form |-> f])

FactorSpec == FactorInit /\ [][FactorNext]_factorVars

----------------------------------------------------------------------------
(* Properties *)

\* Validate and MatchCode, with a product that records what they return: nothing
\* passes twice, however attempts interleave; a recovery code that passed was
\* issued, and exactly the codes that passed are gone, every other one still
\* being good; a counter that passed is one the clock has come within a step of.
OneTimeMeansOnce ==
  LET gone == {c \in Codes : redeemed[c] > 0}
  IN  /\ \A c \in Codes : redeemed[c] <= 1
      /\ \A c \in Counters : cleared[c] <= 1 /\ (cleared[c] > 0 => c <= (seconds \div Period) + 1)
      /\ gone \subseteq Range(issued)
      /\ Range(digests) \ {NoCode} = Range(issued) \ gone
=============================================================================

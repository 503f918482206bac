------------------------------ MODULE Custody ------------------------------
(***************************************************************************)
(* recoverykey over shamir: the ceremony that splits a recovery seed into  *)
(* custodian cards, and the restore that reads cards back and combines     *)
(* them.  A card is its share with a checksum that covers all of it; a     *)
(* share may also come from another decoder, with fields it did not find.  *)
(* A seed stands for the key pair derived from it.                         *)
(***************************************************************************)
EXTENDS Shamir, FiniteSets

CONSTANTS
  SeedBytes,
  Seeds,        \* what Generate may draw
  Plans,        \* <<threshold, total>> a ceremony may ask for
  OtherSplits,  \* <<secret, plan>> someone else hands to shamir
  MaxKits,      \* bound: splits ever made
  Draws,        \* per split, what rand.Read may yield for a coefficient
  NoSeed        \* a zero PrivateKey, or nothing combined yet

ASSUME CustodyAssumption ==
  /\ SeedBytes \in 1..MaxSecret /\ Seeds \subseteq [1..SeedBytes -> Field]
  /\ Plans \subseteq Nat \X Nat /\ OtherSplits \subseteq Seq(Field) \X (Nat \X Nat)
  /\ MaxKits \in Nat /\ Draws \in [1..MaxKits -> SUBSET Field]
  /\ NoSeed \notin Seq(Field)

VARIABLES
  kits,     \* per split, its set id being its place: [secret, shares]
  given,    \* the shares the restore was given
  outcome   \* what Combine made of them: [seed, err]

custodyVars == <<kits, given, outcome>>

NotYet == [seed |-> NoSeed, err |-> "ok"]

CustodyInit == kits = <<>> /\ given = <<>> /\ outcome = NotYet

\* shamir.Split, under a set identifier no other split has.
Issue(secret, plan) ==
  /\ Len(kits) < MaxKits /\ outcome = NotYet
  /\ SplitOK(secret, plan[1], plan[2])
  /\ \E c \in [DOMAIN secret -> Drawn(Draws[Len(kits) + 1], plan[1])] :
       kits' = Append(kits, [secret |-> secret,
                             shares |-> Split(Len(kits) + 1, secret, plan[1], plan[2], c)])
  /\ UNCHANGED <<given, outcome>>

\* recoverykey.Split: a zero key is refused, any other is split by its seed.
SplitKey(key, plan) == key # NoSeed /\ Issue(key, plan)

\* Something that is no seed, split with shamir directly.
SplitOther(secret, plan) == Issue(secret, plan)

\* ParseShare: a card whose checksum does not cover what was typed is refused.
Unchecked(card, typed) == TRUE  \* variant with a bug
ParseOK(card, typed) == typed = card

\* A slip of the pen: another digit somewhere on the card.
Slips(s) ==
  {[s EXCEPT !.index = s.index + 1], [s EXCEPT !.value[1] = xor(s.value[1], 1)],
   [s EXCEPT !.set = s.set + 1], [s EXCEPT !.threshold = s.threshold - 1]}

\* A share another decoder filled in, without a field it did not find.
ShareFields == {"index", "threshold", "value"}
Decoded(s, missing) ==
  IF missing = "index" THEN [s EXCEPT !.index = 0]
  ELSE IF missing = "threshold" THEN [s EXCEPT !.threshold = 0]
  ELSE [s EXCEPT !.value = <<>>]

\* Combine, then FromSeed, which takes nothing but SeedBytes.
Combine(shares) ==
  /\ given' = shares
  /\ outcome' =
       IF CombineError(shares) # "ok" THEN [seed |-> NoSeed, err |-> CombineError(shares)]
       ELSE IF Len(shares[1].value) # SeedBytes THEN [seed |-> NoSeed, err |-> "ErrSeedLength"]
       ELSE [seed |-> Interpolate(shares), err |-> "ok"]
  /\ UNCHANGED kits

Cards == UNION {{kits[k].shares[i] : i \in DOMAIN kits[k].shares} : k \in DOMAIN kits}

\* One card after the other, split by split, as they lie in the custodians' hands.
AllShares ==
  LET all[k \in 0..Len(kits)] == IF k = 0 THEN <<>> ELSE all[k - 1] \o kits[k].shares
  IN  all[Len(kits)]
InOrder(cards) ==
  LET some[i \in 0..Len(AllShares)] ==
        IF i = 0 THEN <<>>
        ELSE IF AllShares[i] \in cards THEN Append(some[i - 1], AllShares[i]) ELSE some[i - 1]
  IN  some[Len(AllShares)]

\* A restore from the cards of some custodians, of whichever splits.
RestoreFrom(cards) ==
  /\ outcome = NotYet
  /\ Combine(InOrder(cards))

\* A restore from a whole kit, one card of it typed twice or with a slip.
RestoreTyped(card, typed) ==
  LET kit == kits[card.set].shares
  IN  /\ outcome = NotYet
      /\ \/ /\ ~ParseOK(card, typed)
            /\ outcome' = [seed |-> NoSeed, err |-> "ErrMalformedShare"]
            /\ UNCHANGED <<kits, given>>
         \/ /\ ParseOK(card, typed)
            /\ Combine(IF typed = card THEN Append(kit, card)
                        ELSE [kit EXCEPT ![card.index] = typed])

\* A restore from a whole kit, some or all of it filled in by another decoder.
RestoreDecoded(k, some, missing) ==
  LET kit == kits[k].shares
  IN  /\ outcome = NotYet
      /\ Combine([i \in DOMAIN kit |-> IF i \in some THEN Decoded(kit[i], missing) ELSE kit[i]])

CustodyNext ==
  \/ \E plan \in Plans, key \in Seeds \cup {NoSeed} : SplitKey(key, plan)
  \/ \E o \in OtherSplits : SplitOther(o[1], o[2])
  \/ \E cards \in SUBSET Cards : RestoreFrom(cards)
  \/ \E card \in Cards : \E typed \in {card} \cup Slips(card) : RestoreTyped(card, typed)
  \/ \E k \in DOMAIN kits, missing \in ShareFields :
       \E some \in (SUBSET DOMAIN kits[k].shares) \ {{}} : RestoreDecoded(k, some, missing)

CustodySpec == CustodyInit /\ [][CustodyNext]_custodyVars

----------------------------------------------------------------------------
(* Properties *)

\* Any n of the shares, in any order.
Fewer(shares, n) ==
  {[i \in 1..n |-> shares[f[i]]] :
     f \in {g \in [1..n -> DOMAIN shares] : \A i, j \in 1..n : g[i] = g[j] => i = j}}

\* recoverykey.Combine: what it rebuilds is a seed that was split, from at least
\* the threshold of distinct shares of that one split; and so many shares of one
\* split of a seed always rebuild it, extra ones included.
RebuildsTheKey ==
  outcome # NotYet /\ given # <<>> =>
    LET whole(k) ==
          /\ \A i \in DOMAIN given : \E j \in DOMAIN kits[k].shares : given[i] = kits[k].shares[j]
          /\ \A i, j \in DOMAIN given : given[i] = given[j] => i = j
          /\ Len(given) >= kits[k].shares[1].threshold
          /\ Len(kits[k].secret) = SeedBytes
    IN  /\ outcome.seed # NoSeed => \E k \in DOMAIN kits : whole(k) /\ outcome.seed = kits[k].secret
        /\ \A k \in DOMAIN kits : whole(k) => outcome.seed = kits[k].secret

\* Split: one share fewer than the threshold does not rebuild any element of the
\* secret, and leaves every other value of it possible, so that threshold is
\* what the custodians were promised.
ThresholdNeeded ==
  kits # <<>> /\ outcome = NotYet =>
    LET kit == kits[Len(kits)]
        t == kit.shares[1].threshold
        possible(few, b) ==
          {v \in Field : \E c \in Drawn(Field, t) :
             \A i \in DOMAIN few : Evaluate(<<v>> \o c, few[i].index) = few[i].value[b]}
    IN  \A few \in Fewer(kit.shares, t - 1) : \A b \in DOMAIN kit.secret :
          /\ Interpolate(few)[b] # kit.secret[b]
          /\ possible(few, b) = Field \ {Interpolate(few)[b]}
=============================================================================

------------------------------- MODULE Shamir -------------------------------
(***************************************************************************)
(* shamir: splitting a secret into shares over a field and combining them. *)
(* A secret is a sequence of field elements; what rand.Read yields is an   *)
(* argument.  The code adds with ^ (xor) and multiplies with its own mul   *)
(* and inverse; GaloisField has those.                                     *)
(***************************************************************************)
EXTENDS Integers, Sequences

CONSTANTS
  Field,
  xor(_, _), mul(_, _), inverse(_),
  MaxThreshold, \* the largest threshold a share may declare, 255 in the code
  MaxSecret     \* MaxSecretBytes

\* An index is a field element too, and two elements are added to themselves to 0.
ASSUME FieldLaws ==
  /\ MaxThreshold \in Nat /\ MaxSecret \in Nat
  /\ 0..MaxThreshold \subseteq Field /\ {0, 1} \subseteq Field
  /\ \A a, b \in Field :
       /\ xor(a, b) \in Field /\ xor(a, b) = xor(b, a)
       /\ mul(a, b) \in Field /\ mul(a, b) = mul(b, a)
  /\ \A a, b, c \in Field :
       /\ xor(a, xor(b, c)) = xor(xor(a, b), c)
       /\ mul(a, mul(b, c)) = mul(mul(a, b), c)
       /\ mul(a, xor(b, c)) = xor(mul(a, b), mul(a, c))
  /\ \A a \in Field :
       /\ xor(a, 0) = a /\ xor(a, a) = 0 /\ mul(a, 1) = a
       /\ inverse(a) \in Field
       /\ a # 0 => mul(a, inverse(a)) = 1

----------------------------------------------------------------------------
\* Horner, constant term first in the list.
Evaluate(coefficients, x) ==
  LET n == Len(coefficients)
      y[i \in 0..n] == IF i = 0 THEN 0 ELSE xor(mul(y[i - 1], x), coefficients[n + 1 - i])
  IN  y[n]

Sum(f) ==
  LET acc[i \in 0..Len(f)] == IF i = 0 THEN 0 ELSE xor(acc[i - 1], f[i])
  IN  acc[Len(f)]

Product(f) ==
  LET acc[i \in 0..Len(f)] == IF i = 0 THEN 1 ELSE mul(acc[i - 1], f[i])
  IN  acc[Len(f)]

----------------------------------------------------------------------------
\* Split

SplitOK(secret, threshold, total) ==
  /\ Len(secret) \in 1..MaxSecret
  /\ threshold >= 2 /\ threshold <= total /\ total <= MaxThreshold

\* The coefficients above the constant one: drawn again while the leading one is 0.
AnyDraw(draws, threshold) == [1..(threshold - 1) -> draws]  \* variant with a bug
Drawn(draws, threshold) ==
  {c \in [1..(threshold - 1) -> draws] : c[threshold - 1] # 0}

\* coefficients holds one list per element of the secret.
Split(set, secret, threshold, total, coefficients) ==
  [i \in 1..total |->
     [threshold |-> threshold, set |-> set, index |-> i,
      value |-> [b \in DOMAIN secret |-> Evaluate(<<secret[b]>> \o coefficients[b], i)]]]

----------------------------------------------------------------------------
\* Combine

\* What the scan finds wrong with the i-th share.
ScanError(shares, i) ==
  IF shares[i].index = 0 THEN "ErrShareIndex"
  ELSE IF \E j \in 1..(i - 1) : shares[j].index = shares[i].index THEN "ErrDuplicateIndex"
  ELSE IF Len(shares[i].value) # Len(shares[1].value) THEN "ErrShareLength"
  ELSE "ok"

SetError(shares) ==
  \E i \in DOMAIN shares :
    shares[i].threshold # shares[1].threshold \/ shares[i].set # shares[1].set

\* The checks in their order: a malformed share is reported as malformed
\* before it is reported as another split's.
CombineError(shares) ==
  IF Len(shares) < 2 THEN "ErrNotEnoughShares"
  ELSE IF Len(shares[1].value) \notin 1..MaxSecret THEN "ErrShareLength"
  ELSE IF \E i \in DOMAIN shares : ScanError(shares, i) # "ok"
  THEN LET first == CHOOSE i \in DOMAIN shares :
                      /\ ScanError(shares, i) # "ok"
                      /\ \A j \in 1..(i - 1) : ScanError(shares, j) = "ok"
       IN  ScanError(shares, first)
  ELSE IF SetError(shares) THEN "ErrShareSet"
  ELSE IF shares[1].threshold \notin 2..MaxThreshold THEN "ErrMalformedShare"
  ELSE IF Len(shares) < shares[1].threshold THEN "ErrNotEnoughShares"
  ELSE "ok"

\* The Lagrange basis at x = 0; the share itself is passed over.
Numerator(shares, i) ==
  Product([j \in DOMAIN shares |-> IF j = i THEN 1 ELSE shares[j].index])
Denominator(shares, i) ==
  Product([j \in DOMAIN shares |-> IF j = i THEN 1 ELSE xor(shares[i].index, shares[j].index)])
Basis(shares, i) == mul(Numerator(shares, i), inverse(Denominator(shares, i)))

Interpolate(shares) ==
  [b \in DOMAIN shares[1].value |->
     Sum([i \in DOMAIN shares |-> mul(shares[i].value[b], Basis(shares, i))])]
=============================================================================

--------------------------- MODULE CopiesProofs ----------------------------
(***************************************************************************)
(* Proofs about LocalCopies, for any apps, retention counts and capsules   *)
(* put there by hand: no app's prefix reaches another's copies, a prune    *)
(* removes nothing but its own app's, and the newest copies stay, whole.   *)
(***************************************************************************)
EXTENDS LocalCopies, FiniteSetTheorems, SequenceTheorems, TLAPS

-----------------------------------------------------------------------------
(* Induction, over a set instead of a predicate.                           *)

\* Every nonempty set of naturals has a least element.
LEMMA LeastNatural ==
  ASSUME NEW T \in SUBSET Nat, T # {}
  PROVE  \E m \in T : \A k \in T : m <= k
<1> DEFINE R == OpToRel(<, Nat)
<1>1. PICK m \in T : \A k \in T : ~ (<<k, m>> \in R)
  <2>1. IsWellFoundedOn(R, Nat)
    BY NatLessThanWellFounded
  <2> HIDE DEF R
  <2> QED
    BY <2>1, WFMin
<1>2. \A k \in T : <<k, m>> \in R <=> k < m
  BY DEF OpToRel
<1>3. \A k \in T : m <= k
  <2> TAKE k \in T
  <2>1. ~ (k < m)
    BY <1>1, <1>2, Zenon
  <2>2. k \in Nat /\ m \in Nat
    OBVIOUS
  <2> QED
    BY <2>1, <2>2
<1> QED
  BY <1>3

\* A set of naturals that holds 0 and every successor holds them all.
LEMMA InductiveSet ==
  ASSUME NEW S, 0 \in S, \A n \in Nat : n \in S => n + 1 \in S
  PROVE  \A n \in Nat : n \in S
<1> SUFFICES ASSUME Nat \ S # {} PROVE FALSE
  OBVIOUS
<1>1. PICK m \in Nat \ S : \A k \in Nat \ S : m <= k
  BY LeastNatural
<1>2. m - 1 \in Nat /\ m - 1 \in S
  BY <1>1
<1> QED
  BY <1>1, <1>2

-----------------------------------------------------------------------------
(* appNameSafe: the escaping is injective and never yields a dot.          *)

\* What appNameSafe may write.
Safe == Byte \ {Dot}

\* b lists what the loop of appNameSafe has written after each byte, up to the m-th.
Escapes(b, m, app) ==
  b = [i \in 0..m |-> IF i = 0 THEN <<>> ELSE b[i - 1] \o Escape(app[i])]

\* A sequence of members of S is one of members of any larger set.
LEMMA WiderSeq ==
  ASSUME NEW S, NEW T, NEW s \in Seq(S), \A x \in S : x \in T
  PROVE  s \in Seq(T)
<1>1. s = [k \in 1..Len(s) |-> s[k]] /\ Len(s) \in Nat /\ \A k \in 1..Len(s) : s[k] \in S
  OBVIOUS
<1>2. s \in [1..Len(s) -> T]
  BY <1>1
<1> QED
  BY <1>1, <1>2

\* What two sequences make one after the other.
LEMMA Joined ==
  ASSUME NEW S, NEW s \in Seq(S), NEW u \in Seq(S)
  PROVE  /\ s \o u \in Seq(S) /\ Len(s) \in Nat /\ Len(u) \in Nat
         /\ Len(s \o u) = Len(s) + Len(u)
         /\ \A k \in 1..Len(s) : (s \o u)[k] = s[k]
         /\ \A k \in 1..Len(u) : Len(s) + k \in 1..Len(s \o u) /\ (s \o u)[Len(s) + k] = u[k]
<1>1. Len(s) \in Nat /\ Len(u) \in Nat /\ Len(s \o u) = Len(s) + Len(u)
  OBVIOUS
<1>2. \A k \in 1..(Len(s) + Len(u)) :
        (s \o u)[k] = IF k <= Len(s) THEN s[k] ELSE u[k - Len(s)]
  OBVIOUS
<1>3. \A k \in 1..Len(s) : k \in 1..(Len(s) + Len(u)) /\ k <= Len(s)
  BY <1>1
<1>4. \A k \in 1..Len(u) :
        /\ Len(s) + k \in 1..(Len(s) + Len(u)) /\ ~(Len(s) + k <= Len(s))
        /\ (Len(s) + k) - Len(s) = k
  BY <1>1
<1>5. \A k \in 1..Len(s) : (s \o u)[k] = s[k]
  BY <1>2, <1>3
<1>6. \A k \in 1..Len(u) : (s \o u)[Len(s) + k] = u[k]
  <2> TAKE k \in 1..Len(u)
  <2> DEFINE j == Len(s) + k
  <2>1. j \in 1..(Len(s) + Len(u)) /\ ~(j <= Len(s)) /\ j - Len(s) = k
    BY <1>4
  <2> HIDE DEF j
  <2>2. (s \o u)[j] = u[k]
    BY <1>2, <2>1
  <2> QED
    BY <2>2 DEF j
<1> QED
  BY <1>1, <1>4, <1>5, <1>6

\* One byte is written as itself, or as an underscore and two digits.
LEMMA EscapeShape ==
  ASSUME NEW c \in Byte
  PROVE  /\ Escape(c) \in Seq(Safe) /\ Len(Escape(c)) \in Nat /\ Len(Escape(c)) >= 1
         /\ c \in Plain => Len(Escape(c)) = 1 /\ Escape(c)[1] = c
         /\ c \notin Plain =>
              /\ Len(Escape(c)) = 3 /\ Escape(c)[1] = Underscore
              /\ Escape(c)[2] = HexDigit(c \div 16) /\ Escape(c)[3] = HexDigit(c % 16)
<1>1. CASE c \in Plain
  <2>1. Escape(c) = <<c>> /\ c \in Safe
    BY <1>1 DEF Escape, Plain, Safe, Byte, Dot
  <2> QED
    BY <1>1, <2>1
<1>2. CASE c \notin Plain
  <2>1. HexDigit(c \div 16) \in Safe /\ HexDigit(c % 16) \in Safe /\ Underscore \in Safe
    BY DEF HexDigit, Safe, Byte, Dot, Underscore
  <2>2. Escape(c) = <<Underscore, HexDigit(c \div 16), HexDigit(c % 16)>>
    BY <1>2 DEF Escape, Hexed
  <2> QED
    BY <1>2, <2>1, <2>2
<1> QED
  BY <1>1, <1>2

\* Two bytes whose escapes agree as far as both go are one byte.
LEMMA EscapeApart ==
  ASSUME NEW c \in Byte, NEW d \in Byte,
         \A k \in 1..Len(Escape(c)) : k <= Len(Escape(d)) => Escape(c)[k] = Escape(d)[k]
  PROVE  c = d
<1>1. Escape(c)[1] = Escape(d)[1]
  BY EscapeShape
<1>2. Underscore \notin Plain
  BY DEF Plain, Underscore
<1>3. CASE c \in Plain \/ d \in Plain
  BY <1>1, <1>2, <1>3, EscapeShape
<1>4. CASE c \notin Plain /\ d \notin Plain
  <2>1. HexDigit(c \div 16) = HexDigit(d \div 16) /\ HexDigit(c % 16) = HexDigit(d % 16)
    BY <1>4, EscapeShape
  <2>2. c \div 16 = d \div 16 /\ c % 16 = d % 16
    BY <2>1 DEF HexDigit, Byte
  <2> QED
    BY <2>2 DEF Byte
<1> QED
  BY <1>3, <1>4

\* The recursion of appNameSafe is well founded.
LEMMA EscapeUnrolls ==
  ASSUME NEW app \in Seq(Byte)
  PROVE  \E b : /\ Escapes(b, Len(app), app)
                /\ AppNameSafe(app) = IF app = <<>> THEN <<Underscore>> ELSE b[Len(app)]
<1> DEFINE S == {m \in Nat : \E b : Escapes(b, m, app)}
<1>1. 0 \in S
  <2> DEFINE b == [n \in 0..0 |-> <<>>]
  <2>1. Escapes(b, 0, app)
    BY DEF Escapes
  <2> QED
    BY <2>1
<1>2. ASSUME NEW m \in Nat, m \in S PROVE m + 1 \in S
  <2>1. PICK b : Escapes(b, m, app)
    BY <1>2
  <2>2. b = [n \in 0..m |-> IF n = 0 THEN <<>> ELSE b[n - 1] \o Escape(app[n])]
    BY <2>1 DEF Escapes
  <2> DEFINE d == [n \in 0..(m + 1) |-> IF n <= m THEN b[n] ELSE b[m] \o Escape(app[m + 1])]
  <2>3. \A n \in 0..(m + 1) : d[n] = IF n = 0 THEN <<>> ELSE d[n - 1] \o Escape(app[n])
    <3> TAKE n \in 0..(m + 1)
    <3>1. CASE n = 0
      BY <2>2, <3>1
    <3>2. CASE n # 0 /\ n <= m
      <4>1. d[n] = b[n] /\ d[n - 1] = b[n - 1] /\ n \in 0..m
        BY <3>2
      <4>2. b[n] = b[n - 1] \o Escape(app[n])
        BY <2>2, <3>2, <4>1
      <4> HIDE DEF d
      <4> QED
        BY <3>2, <4>1, <4>2
    <3>3. CASE n = m + 1
      <4>1. d[n] = b[m] \o Escape(app[m + 1]) /\ d[n - 1] = b[m] /\ n # 0
        BY <3>3
      <4> HIDE DEF d
      <4> QED
        BY <3>3, <4>1
    <3> QED
      BY <3>1, <3>2, <3>3
  <2>4. Escapes(d, m + 1, app)
    <3>1. d = [n \in 0..(m + 1) |-> d[n]]
      OBVIOUS
    <3> HIDE DEF d
    <3> QED
      BY <2>3, <3>1 DEF Escapes
  <2> QED
    BY <2>4
<1>3. \E b : Escapes(b, Len(app), app)
  <2>1. \A m \in Nat : m \in S
    <3> HIDE DEF S
    <3> QED
      BY <1>1, <1>2, InductiveSet
  <2> QED
    BY <2>1
<1> DEFINE b[i \in 0..Len(app)] == IF i = 0 THEN <<>> ELSE b[i - 1] \o Escape(app[i])
<1>4. b = CHOOSE c : Escapes(c, Len(app), app)
  BY DEF Escapes
<1>5. AppNameSafe(app) = IF app = <<>> THEN <<Underscore>> ELSE b[Len(app)]
  BY DEF AppNameSafe
<1> HIDE DEF b
<1>6. Escapes(b, Len(app), app)
  BY <1>3, <1>4
<1> QED
  BY <1>5, <1>6

\* Stage i adds the escape of the i-th byte to what stands, and stays.
Staged(b, n, app) ==
  /\ b[0] = <<>>
  /\ \A i \in 0..n : b[i] \in Seq(Safe)
  /\ \A i \in 1..n : b[i] = b[i - 1] \o Escape(app[i])
  /\ \A i \in 0..n : \A j \in i..n :
       Len(b[i]) <= Len(b[j]) /\ \A k \in 1..Len(b[i]) : b[j][k] = b[i][k]

\* What the loop has written is never taken back: each stage starts with the
\* stages before it.
LEMMA EscapeStages ==
  ASSUME NEW app \in Seq(Byte), NEW b, Escapes(b, Len(app), app)
  PROVE  Staged(b, Len(app), app)
<1> DEFINE n == Len(app)
<1>1. n \in Nat
  OBVIOUS
<1>2. b[0] = <<>> /\ \A i \in 1..n : b[i] = b[i - 1] \o Escape(app[i])
  <2>1. b = [i \in 0..n |-> IF i = 0 THEN <<>> ELSE b[i - 1] \o Escape(app[i])]
    BY DEF Escapes
  <2>2. ASSUME NEW i \in 0..n
        PROVE  b[i] = IF i = 0 THEN <<>> ELSE b[i - 1] \o Escape(app[i])
    BY <2>1, Zenon
  <2>3. 0 \in 0..n /\ \A i \in 1..n : i \in 0..n /\ i # 0
    BY <1>1
  <2>4. b[0] = <<>>
    BY <2>2, <2>3, Zenon
  <2>5. \A i \in 1..n : b[i] = b[i - 1] \o Escape(app[i])
    BY <2>2, <2>3, Zenon
  <2> QED
    BY <2>4, <2>5
<1>3. \A i \in 1..n : app[i] \in Byte
  OBVIOUS
<1> HIDE DEF n
<1>4. \A i \in 0..n : b[i] \in Seq(Safe)
  <2> DEFINE S == {i \in Nat : i <= n => b[i] \in Seq(Safe)}
  <2>1. 0 \in S
    <3>1. b[0] \in Seq(Safe)
      BY <1>2
    <3> QED
      BY <3>1
  <2>2. ASSUME NEW i \in Nat, i \in S PROVE i + 1 \in S
    <3> SUFFICES ASSUME i + 1 <= n PROVE b[i + 1] \in Seq(Safe)
      OBVIOUS
    <3>1. b[i] \in Seq(Safe) /\ i + 1 \in 1..n /\ (i + 1) - 1 = i
      BY <2>2, <1>1
    <3>2. Escape(app[i + 1]) \in Seq(Safe)
      BY <3>1, <1>3, EscapeShape
    <3>3. b[i + 1] = b[i] \o Escape(app[i + 1])
      BY <3>1, <1>2
    <3> QED
      BY <3>1, <3>2, <3>3
  <2>3. \A i \in Nat : i \in S
    <3> HIDE DEF S
    <3> QED
      BY <2>1, <2>2, InductiveSet
  <2> QED
    BY <2>3, <1>1
<1>5. ASSUME NEW i \in 0..n
      PROVE  \A j \in i..n : Len(b[i]) <= Len(b[j]) /\ \A k \in 1..Len(b[i]) : b[j][k] = b[i][k]
  <2> DEFINE From(j) == Len(b[i]) <= Len(b[j]) /\ \A k \in 1..Len(b[i]) : b[j][k] = b[i][k]
             S == {m \in Nat : i + m <= n => From(i + m)}
  <2>1. 0 \in S
    <3>1. i + 0 = i /\ b[i] \in Seq(Safe)
      BY <1>4
    <3> QED
      BY <3>1
  <2>2. ASSUME NEW m \in Nat, m \in S PROVE m + 1 \in S
    <3> DEFINE l == i + m
    <3>0. l \in Nat /\ l + 1 = i + (m + 1)
      OBVIOUS
    <3> SUFFICES ASSUME l + 1 <= n PROVE From(l + 1)
      BY <3>0
    <3>a. l \in 0..n /\ l + 1 \in 1..n /\ (l + 1) - 1 = l
      BY <1>1, <3>0
    <3>1. From(l)
      BY <2>2, <3>a
    <3>2. b[l + 1] = b[l] \o Escape(app[l + 1])
      BY <3>a, <1>2
    <3>3. Escape(app[l + 1]) \in Seq(Safe) /\ b[l] \in Seq(Safe) /\ b[i] \in Seq(Safe)
      BY <3>a, <1>3, <1>4, EscapeShape
    <3> HIDE DEF l
    <3>4. Len(b[l + 1]) >= Len(b[l]) /\ \A k \in 1..Len(b[l]) : b[l + 1][k] = b[l][k]
      <4> DEFINE u == Escape(app[l + 1])
                 v == b[l]
      <4>1. v \in Seq(Safe) /\ u \in Seq(Safe) /\ b[l + 1] = v \o u
        BY <3>2, <3>3
      <4> HIDE DEF u, v
      <4>2. Len(v \o u) >= Len(v) /\ \A k \in 1..Len(v) : (v \o u)[k] = v[k]
        BY <4>1, Joined
      <4> QED
        BY <4>1, <4>2 DEF v
    <3>5. Len(b[i]) \in Nat /\ Len(b[l]) \in Nat /\ Len(b[l + 1]) \in Nat
      BY <3>2, <3>3, Joined
    <3> QED
      BY <3>1, <3>4, <3>5
  <2>3. \A m \in Nat : m \in S
    <3> HIDE DEF S
    <3> QED
      BY <2>1, <2>2, InductiveSet
  <2> SUFFICES ASSUME NEW j \in i..n PROVE From(j)
    OBVIOUS
  <2>4. j - i \in Nat /\ i + (j - i) = j /\ j <= n
    BY <1>1
  <2> QED
    BY <2>3, <2>4
<1> QED
  BY <1>2, <1>4, <1>5 DEF n, Staged

\* The escaping is reversible: two apps never share a name (local.go:51-53).
LEMMA EscapeInjective ==
  ASSUME NEW x \in Seq(Byte), NEW y \in Seq(Byte), NEW b, NEW d,
         Escapes(b, Len(x), x), Escapes(d, Len(y), y), b[Len(x)] = d[Len(y)]
  PROVE  x = y
<1> DEFINE n == Len(x)
           m == Len(y)
           w == b[n]
           Same(i) == i <= m /\ b[i] = d[i] /\ \A j \in 1..i : x[j] = y[j]
           S == {i \in Nat : i <= n => Same(i)}
<1>1. n \in Nat /\ m \in Nat
  OBVIOUS
<1>x. Staged(b, n, x) /\ Staged(d, m, y)
  BY EscapeStages
<1>y. (\A i \in 1..n : x[i] \in Byte) /\ (\A i \in 1..m : y[i] \in Byte)
  OBVIOUS
<1>z. w = d[m]
  OBVIOUS
<1>q. x = [i \in 1..n |-> x[i]] /\ y = [i \in 1..m |-> y[i]]
  OBVIOUS
<1> HIDE DEF n, m
<1>2. w \in Seq(Safe)
  BY <1>1, <1>x DEF Staged
<1> HIDE DEF w
<1>3. 0 \in S
  BY <1>1, <1>x DEF Staged
<1>4. ASSUME NEW i \in Nat, i \in S PROVE i + 1 \in S
  <2> SUFFICES ASSUME i + 1 <= n PROVE Same(i + 1)
    OBVIOUS
  <2>1. Same(i)
    BY <1>4, <1>1
  <2>2. i + 1 \in 1..n /\ (i + 1) - 1 = i /\ i \in 0..n /\ i \in 0..m /\ i + 1 \in 0..n /\ n \in (i+1)..n
    BY <1>1, <2>1
  <2>3. x[i + 1] \in Byte
    BY <2>2, <1>y
  <2>4. b[i + 1] = b[i] \o Escape(x[i + 1]) /\ b[i] \in Seq(Safe) /\ b[i + 1] \in Seq(Safe)
    BY <2>2, <1>x DEF Staged
  <2>5. Escape(x[i + 1]) \in Seq(Safe) /\ Len(Escape(x[i + 1])) >= 1 /\ Len(Escape(x[i + 1])) \in Nat
    BY <2>3, EscapeShape
  <2>6. Len(b[i + 1]) <= Len(w) /\ \A k \in 1..Len(b[i + 1]) : w[k] = b[i + 1][k]
    BY <2>2, <1>x DEF Staged, w
  <2> DEFINE L == Len(b[i])
             e == Escape(x[i + 1])
  <2>7. L \in Nat /\ Len(b[i + 1]) = L + Len(e)
    BY <2>4, <2>5, Joined
  <2>8. \A k \in 1..Len(e) : L + k \in 1..Len(b[i + 1]) /\ b[i + 1][L + k] = e[k]
    <3> DEFINE s == b[i]
    <3>1. s \in Seq(Safe) /\ e \in Seq(Safe) /\ b[i + 1] = s \o e
      BY <2>4, <2>5
    <3> HIDE DEF s, e
    <3>2. \A k \in 1..Len(e) : Len(s) + k \in 1..Len(s \o e) /\ (s \o e)[Len(s) + k] = e[k]
      BY <3>1, Joined
    <3> QED
      BY <3>1, <3>2 DEF s
  <2>9. \A k \in 1..Len(e) : w[L + k] = e[k]
    BY <2>6, <2>8
  <2>10. i # m
    <3>1. Len(e) \in Nat /\ Len(e) >= 1 /\ Len(w) >= L + Len(e)
      BY <2>5, <2>6, <2>7
    <3>2. SUFFICES ASSUME i = m PROVE FALSE
      OBVIOUS
    <3>3. b[i] = w
      BY <2>1, <3>2, <1>z
    <3> QED
      BY <2>7, <3>1, <3>3
  <2>11. i + 1 \in 1..m /\ i + 1 \in 0..m /\ m \in (i+1)..m
    BY <2>1, <2>10, <1>1
  <2>12. y[i + 1] \in Byte
    BY <2>11, <1>y
  <2>13. d[i + 1] = d[i] \o Escape(y[i + 1]) /\ d[i + 1] \in Seq(Safe)
    BY <2>2, <2>11, <1>x DEF Staged
  <2> DEFINE g == Escape(y[i + 1])
  <2>14. g \in Seq(Safe)
    BY <2>12, EscapeShape
  <2>15. Len(d[i + 1]) <= Len(w) /\ \A k \in 1..Len(d[i + 1]) : w[k] = d[i + 1][k]
    BY <2>11, <1>x, <1>z DEF Staged
  <2>16. d[i] = b[i]
    BY <2>1
  <2>17. \A k \in 1..Len(g) : L + k \in 1..Len(d[i + 1]) /\ d[i + 1][L + k] = g[k]
    <3> DEFINE s == b[i]
    <3>1. s \in Seq(Safe) /\ g \in Seq(Safe) /\ d[i + 1] = s \o g
      BY <2>4, <2>13, <2>14, <2>16
    <3> HIDE DEF s, g
    <3>2. \A k \in 1..Len(g) : Len(s) + k \in 1..Len(s \o g) /\ (s \o g)[Len(s) + k] = g[k]
      BY <3>1, Joined
    <3> QED
      BY <3>1, <3>2 DEF s
  <2>18. \A k \in 1..Len(g) : w[L + k] = g[k]
    BY <2>15, <2>17
  <2>19. x[i + 1] = y[i + 1]
    <3>1. \A k \in 1..Len(e) : k <= Len(g) => e[k] = g[k]
      <4> HIDE DEF e, g, L
      <4> QED
        BY <2>9, <2>18, <2>5, <2>14 DEF e
    <3> QED
      BY <3>1, <2>3, <2>12, EscapeApart
  <2>20. b[i + 1] = d[i + 1]
    BY <2>4, <2>13, <2>16, <2>19
  <2> QED
    BY <2>1, <2>11, <2>19, <2>20
<1>5. n \in S
  <2> HIDE DEF S
  <2> QED
    BY <1>1, <1>3, <1>4, InductiveSet
<1>6. n <= m /\ b[n] = d[n] /\ \A j \in 1..n : x[j] = y[j]
  BY <1>5, <1>1
<1>7. m <= n
  <2> SUFFICES ASSUME n < m PROVE FALSE
    BY <1>1
  <2>1. n + 1 \in 1..m /\ n + 1 \in 0..m /\ n \in 0..m /\ m \in (n+1)..m /\ (n + 1) - 1 = n
    BY <1>1
  <2>2. y[n + 1] \in Byte
    BY <2>1, <1>y
  <2>3. d[n + 1] = d[n] \o Escape(y[n + 1]) /\ d[n] \in Seq(Safe) /\ Len(d[n + 1]) <= Len(d[m])
    BY <2>1, <1>x DEF Staged
  <2>4. Escape(y[n + 1]) \in Seq(Safe) /\ Len(Escape(y[n + 1])) >= 1 /\ Len(Escape(y[n + 1])) \in Nat
    BY <2>2, EscapeShape
  <2>5. d[n] = d[m]
    BY <1>6, <1>z DEF w
  <2>6. Len(d[n + 1]) = Len(d[n]) + Len(Escape(y[n + 1])) /\ Len(d[n]) \in Nat
    BY <2>3, <2>4, Joined
  <2> DEFINE k == Len(d[n])
             u == Len(Escape(y[n + 1]))
  <2>7. k \in Nat /\ u \in Nat /\ u >= 1 /\ k + u <= k
    BY <2>3, <2>4, <2>5, <2>6
  <2> HIDE DEF k, u
  <2> QED
    BY <2>7
<1> QED
  BY <1>1, <1>6, <1>7, <1>q

\* Bytes are numbers.
LEMMA SafeNumbers ==
  ASSUME NEW s \in Seq(Safe)
  PROVE  s \in Seq(Nat)
<1>1. \A c \in Safe : c \in Nat
  BY DEF Safe, Byte
<1> QED
  BY <1>1, WiderSeq

\* appNameSafe yields at least one byte and no dot.
LEMMA SafeShape ==
  ASSUME NEW app \in Seq(Byte)
  PROVE  AppNameSafe(app) \in Seq(Safe) /\ Len(AppNameSafe(app)) >= 1
<1>1. PICK b : /\ Escapes(b, Len(app), app)
               /\ AppNameSafe(app) = IF app = <<>> THEN <<Underscore>> ELSE b[Len(app)]
  BY EscapeUnrolls
<1>2. CASE app = <<>>
  <2>1. Underscore \in Safe
    BY DEF Underscore, Safe, Byte, Dot
  <2> QED
    BY <1>1, <1>2, <2>1
<1>3. CASE app # <<>>
  <2> DEFINE n == Len(app)
  <2>1. n \in Nat /\ n >= 1 /\ app[1] \in Byte /\ AppNameSafe(app) = b[n]
    BY <1>1, <1>3
  <2>2. Staged(b, n, app)
    BY <1>1, EscapeStages
  <2> HIDE DEF n
  <2>0. 1 \in 0..n /\ 1 \in 1..n /\ n \in 0..n /\ n \in 1..n /\ 1 - 1 = 0
    BY <2>1
  <2>3. b[n] \in Seq(Safe) /\ Len(b[1]) <= Len(b[n]) /\ b[1] = <<>> \o Escape(app[1])
    BY <2>0, <2>2 DEF Staged
  <2>4. Len(b[1]) = Len(Escape(app[1])) /\ Len(b[1]) \in Nat
    <3>1. Escape(app[1]) \in Seq(Safe) /\ <<>> \in Seq(Safe)
      BY <2>1, EscapeShape
    <3> QED
      BY <2>3, <3>1
  <2>5. Len(Escape(app[1])) >= 1
    BY <2>1, EscapeShape
  <2> QED
    BY <2>1, <2>3, <2>4, <2>5
<1> QED
  BY <1>2, <1>3

\* Only the app without a name is written as a lone underscore.
LEMMA OneUnderscore ==
  ASSUME NEW app \in Seq(Byte), app # <<>>
  PROVE  AppNameSafe(app) # <<Underscore>>
<1>1. PICK b : Escapes(b, Len(app), app) /\ AppNameSafe(app) = b[Len(app)]
  BY EscapeUnrolls
<1> DEFINE n == Len(app)
<1>2. n \in Nat /\ n >= 1 /\ app[1] \in Byte /\ AppNameSafe(app) = b[n]
  BY <1>1
<1>3. Staged(b, n, app)
  BY <1>1, EscapeStages
<1> HIDE DEF n
<1> DEFINE e == Escape(app[1])
<1>0. 1 \in 0..n /\ 1 \in 1..n /\ n \in 1..n /\ 1 - 1 = 0
  BY <1>2
<1>4. /\ b[1] = <<>> \o e
      /\ Len(b[1]) <= Len(b[n]) /\ \A k \in 1..Len(b[1]) : b[n][k] = b[1][k]
  BY <1>0, <1>3 DEF Staged
<1>5. e \in Seq(Safe) /\ Len(e) \in Nat /\ Len(e) >= 1
  BY <1>2, EscapeShape
<1>6. b[1] = e
  <2> HIDE DEF e
  <2> QED
    BY <1>4, <1>5
<1> SUFFICES ASSUME b[n] = <<Underscore>> PROVE FALSE
  BY <1>2
<1>7. Len(e) = 1 /\ e[1] = Underscore
  <2>1. Len(b[n]) = 1 /\ b[n][1] = Underscore
    OBVIOUS
  <2> HIDE DEF e
  <2> QED
    BY <2>1, <1>4, <1>5, <1>6
<1>8. app[1] \in Plain /\ app[1] = Underscore
  BY <1>2, <1>7, EscapeShape
<1> QED
  BY <1>8 DEF Plain, Underscore

\* Two apps are never written alike.
LEMMA SafeInjective ==
  ASSUME NEW x \in Seq(Byte), NEW y \in Seq(Byte), AppNameSafe(x) = AppNameSafe(y)
  PROVE  x = y
<1>1. PICK b : /\ Escapes(b, Len(x), x)
               /\ AppNameSafe(x) = IF x = <<>> THEN <<Underscore>> ELSE b[Len(x)]
  BY EscapeUnrolls
<1>2. PICK d : /\ Escapes(d, Len(y), y)
               /\ AppNameSafe(y) = IF y = <<>> THEN <<Underscore>> ELSE d[Len(y)]
  BY EscapeUnrolls
<1>3. CASE x = <<>> \/ y = <<>>
  BY <1>1, <1>2, <1>3, OneUnderscore
<1>4. CASE x # <<>> /\ y # <<>>
  <2>1. b[Len(x)] = d[Len(y)]
    BY <1>1, <1>2, <1>4
  <2> QED
    BY <1>1, <1>2, <2>1, EscapeInjective
<1> QED
  BY <1>3, <1>4

\* A copy's name: the escaped app, the dot, the capsule ID.
LEMMA FinalNameShape ==
  ASSUME NEW app \in Seq(Byte), NEW id \in Nat
  PROVE  LET s == AppNameSafe(app)
             f == FinalName(app, id)
         IN  /\ f \in Seq(Nat) /\ Len(f) = Len(s) + 2 /\ Len(f) >= 3
             /\ \A k \in 1..Len(s) : f[k] = s[k]
             /\ f[Len(s) + 1] = Dot /\ f[Len(s) + 2] = id
<1> DEFINE s == AppNameSafe(app)
           f == FinalName(app, id)
<1>1. s \in Seq(Safe) /\ Len(s) >= 1
  BY SafeShape
<1>2. s \in Seq(Nat) /\ Dot \in Nat
  <2> HIDE DEF s
  <2> QED
    BY <1>1, SafeNumbers DEF Dot
<1>3. f = (s \o <<Dot>>) \o <<id>>
  BY DEF FinalName, LocalPrefix
<1> HIDE DEF s, f
<1> DEFINE n == Len(s)
           p == s \o <<Dot>>
<1>4. n \in Nat /\ p \in Seq(Nat) /\ Len(p) = n + 1 /\ p[n + 1] = Dot /\ \A k \in 1..n : p[k] = s[k]
  BY <1>2
<1>5. f = p \o <<id>>
  BY <1>3
<1> HIDE DEF p
<1>6. /\ f \in Seq(Nat) /\ Len(f) = Len(p) + 1 /\ f[Len(p) + 1] = id
      /\ \A k \in 1..Len(p) : f[k] = p[k]
  BY <1>4, <1>5
<1>7. Len(f) = n + 2 /\ f[n + 2] = id /\ f[n + 1] = Dot /\ \A k \in 1..n : f[k] = s[k]
  <2>1. Len(p) = n + 1 /\ (n + 1) + 1 = n + 2 /\ n + 1 \in 1..(n + 1) /\ \A k \in 1..n : k \in 1..(n + 1)
    BY <1>4
  <2> HIDE DEF n
  <2> QED
    BY <1>4, <1>6, <2>1
<1> QED
  BY <1>1, <1>4, <1>6, <1>7 DEF s, f

\* An app's copies carry its prefix.
LEMMA OwnPrefix ==
  ASSUME NEW app \in Seq(Byte), NEW id \in Nat
  PROVE  IsPrefix(LocalPrefix(app), FinalName(app, id))
<1> DEFINE p == LocalPrefix(app)
<1>1. p \in Seq(Nat)
  <2>1. AppNameSafe(app) \in Seq(Nat) /\ Dot \in Nat
    BY SafeShape, SafeNumbers DEF Dot
  <2> DEFINE s == AppNameSafe(app)
  <2>2. p = s \o <<Dot>>
    BY DEF LocalPrefix
  <2> HIDE DEF s, p
  <2>3. s \in Seq(Nat)
    BY <2>1 DEF s
  <2> QED
    BY <2>1, <2>2, <2>3
<1>2. FinalName(app, id) = p \o <<id>>
  BY DEF FinalName
<1> HIDE DEF p
<1>3. Len(p) <= Len(p \o <<id>>) /\ SubSeq(p, 1, Len(p)) = SubSeq(p \o <<id>>, 1, Len(p))
  BY <1>1
<1> QED
  BY <1>2, <1>3 DEF IsPrefix, p

\* No app's prefix reaches another app's copies, however alike their names look:
\* "app" cannot see "app-staging", and "a.b" is not "a-b" (local.go:50-53).
THEOREM PrefixesApart ==
  ASSUME NEW x \in Seq(Byte), NEW y \in Seq(Byte), NEW id \in Nat,
         IsPrefix(LocalPrefix(y), FinalName(x, id))
  PROVE  x = y
<1> DEFINE s == AppNameSafe(x)
           u == AppNameSafe(y)
           f == FinalName(x, id)
           p == LocalPrefix(y)
<1>1. s \in Seq(Safe) /\ u \in Seq(Safe) /\ Dot \notin Safe
  BY SafeShape DEF Safe
<1>2. /\ f \in Seq(Nat) /\ Len(f) = Len(s) + 2
      /\ f[Len(s) + 1] = Dot /\ \A k \in 1..Len(s) : f[k] = s[k]
  BY FinalNameShape
<1>3. p = u \o <<Dot>>
  BY DEF LocalPrefix
<1>4. Len(p) <= Len(f) /\ SubSeq(p, 1, Len(p)) = SubSeq(f, 1, Len(p))
  BY DEF IsPrefix
<1>5. u \in Seq(Nat)
  <2> HIDE DEF u, s
  <2> QED
    BY <1>1, SafeNumbers
<1>0. Dot \in Nat
  BY DEF Dot
<1> SUFFICES s = u
  BY SafeInjective
<1> HIDE DEF s, u, f, p
<1>6. p \in Seq(Nat) /\ Len(p) = Len(u) + 1 /\ p[Len(u) + 1] = Dot /\ \A k \in 1..Len(u) : p[k] = u[k]
  BY <1>0, <1>3, <1>5
<1>7. Len(s) \in Nat /\ Len(u) \in Nat
  BY <1>1
<1>8. \A k \in 1..Len(p) : p[k] = f[k]
  <2> TAKE k \in 1..Len(p)
  <2>1. SubSeq(p, 1, Len(p))[k] = p[k]
    BY <1>6
  <2>2. SubSeq(f, 1, Len(p))[k] = f[k]
    BY <1>2, <1>4, <1>6
  <2> QED
    BY <1>4, <2>1, <2>2
<1>9. ~(Len(u) < Len(s))
  <2> SUFFICES ASSUME Len(u) < Len(s) PROVE FALSE
    OBVIOUS
  <2>1. Len(u) + 1 \in 1..Len(s) /\ Len(u) + 1 \in 1..Len(p)
    BY <1>6, <1>7
  <2>2. s[Len(u) + 1] = Dot
    BY <1>2, <1>6, <1>8, <2>1
  <2>3. s[Len(u) + 1] \in Safe
    BY <1>1, <2>1
  <2> QED
    BY <1>1, <2>2, <2>3
<1>10. ~(Len(s) < Len(u))
  <2> SUFFICES ASSUME Len(s) < Len(u) PROVE FALSE
    OBVIOUS
  <2>1. Len(s) + 1 \in 1..Len(u) /\ Len(s) + 1 \in 1..Len(p)
    BY <1>6, <1>7
  <2>2. u[Len(s) + 1] = Dot
    BY <1>2, <1>6, <1>8, <2>1
  <2>3. u[Len(s) + 1] \in Safe
    BY <1>1, <2>1
  <2> QED
    BY <1>1, <2>2, <2>3
<1>11. Len(s) = Len(u)
  BY <1>7, <1>9, <1>10
<1>12. \A k \in 1..Len(s) : s[k] = u[k]
  <2> TAKE k \in 1..Len(s)
  <2>1. k \in 1..Len(u) /\ k \in 1..Len(p)
    BY <1>6, <1>7, <1>11
  <2> QED
    BY <1>2, <1>6, <1>8, <2>1
<1> QED
  BY <1>1, <1>11, <1>12

\* A name belongs to one app and one capsule.
LEMMA FinalNameInjective ==
  ASSUME NEW x \in Seq(Byte), NEW y \in Seq(Byte), NEW i \in Nat, NEW j \in Nat,
         FinalName(x, i) = FinalName(y, j)
  PROVE  x = y /\ i = j
<1>1. IsPrefix(LocalPrefix(y), FinalName(y, j))
  BY OwnPrefix
<1>2. x = y
  BY <1>1, PrefixesApart
<1>3. i = j
  BY <1>2, FinalNameShape
<1> QED
  BY <1>2, <1>3

-----------------------------------------------------------------------------
(* ListLocalCopies: where its order puts a file.                           *)

\* A listing holds each file once, none behind an older one.
LEMMA OrderedListing ==
  ASSUME NEW fs, IsFiniteSet(fs), NEW s \in Orders(fs)
  PROVE  /\ s \in Seq(fs) /\ Len(s) = Cardinality(fs) /\ Cardinality(fs) \in Nat
         /\ \A i, j \in 1..Len(s) : i # j => s[i] # s[j]
         /\ \A i, j \in 1..Len(s) : i < j => ~(s[j].mtime > s[i].mtime)
<1> DEFINE N == Cardinality(fs)
<1>1. N \in Nat
  BY FS_CardinalityType
<1>2. s \in SetToSeqs(fs) /\ \A i, j \in DOMAIN s : i < j => ~(s[j].mtime > s[i].mtime)
  BY DEF Orders, NewerFirst
<1>3. s \in [1..N -> fs] /\ \A i, j \in 1..N : i # j => s[i] # s[j]
  BY <1>2 DEF SetToSeqs
<1> HIDE DEF N
<1>4. s \in Seq(fs) /\ Len(s) = N /\ DOMAIN s = 1..N
  BY <1>1, <1>3
<1> QED
  BY <1>1, <1>2, <1>3, <1>4 DEF N

\* The first m of the list are m files.
LEMMA FirstOnes ==
  ASSUME NEW fs, NEW s \in Seq(fs), NEW m \in 0..Len(s),
         \A i, j \in 1..Len(s) : i # j => s[i] # s[j]
  PROVE  /\ IsFiniteSet({s[j] : j \in 1..m}) /\ Cardinality({s[j] : j \in 1..m}) = m
<1> DEFINE T == {s[j] : j \in 1..m}
           h == [j \in 1..m |-> s[j]]
<1>1. Len(s) \in Nat /\ m \in Nat /\ \A j \in 1..m : j \in 1..Len(s)
  OBVIOUS
<1>2. h \in [1..m -> T] /\ (\A t \in T : \E j \in 1..m : h[j] = t)
  OBVIOUS
<1>3. \A i, j \in 1..m : h[i] = h[j] => i = j
  BY <1>1
<1> HIDE DEF h
<1>4. ExistsBijection(1..m, T)
  BY <1>2, <1>3 DEF ExistsBijection, Bijection, Injection, IsInjective, Surjection
<1>5. IsFiniteSet(1..m) /\ Cardinality(1..m) = m
  BY <1>1, FS_Interval
<1> HIDE DEF T
<1>6. IsFiniteSet(T) /\ Cardinality(T) = Cardinality(1..m)
  BY <1>4, <1>5, FS_Bijection
<1> QED
  BY <1>5, <1>6 DEF T

-----------------------------------------------------------------------------
(* The inductive invariant                                                 *)

IDOf(f) == f.name[Len(f.name)]

Apps == {AppOf[p] : p \in Procs}
Early == {"create", "write", "sync", "rename"}
PCs == Early \cup {"idle", "list", "prune", "done", "failed"}

File == [name : Seq(Nat \cup Procs), app : Apps \cup {None}, temp : Procs \cup {None},
         mtime : Nat, state : {"part", "written", "synced"}]
Call == [pc : PCs, id : Nat, keep : Nat, prune : Seq(File)]

Typed ==
  /\ now \in 0..MaxClock /\ nextID \in 1..(MaxID + 1)
  /\ dir \in SUBSET File /\ IsFiniteSet(dir)
  /\ stored \in SUBSET File /\ IsFiniteSet(stored) /\ lost \subseteq stored
  /\ disk \in SUBSET File /\ IsFiniteSet(disk)
  /\ call \in [Procs -> Call]

NamesUnique == \A f, g \in dir : f.name = g.name => f = g

\* A temporary file is its writer's and bears an ID that was handed out.
TempsNamed ==
  \A f \in dir : f.temp # None =>
    f.app = AppOf[f.temp] /\ \E i \in 1..(nextID - 1) : f.name = <<f.temp, i>>

\* A copy once in place is whole, bears its app's prefix and an ID no call is
\* still writing.
InPlace ==
  /\ \A f \in stored :
       /\ f.temp = None /\ f.state = "synced" /\ f.app \in Apps
       /\ IDOf(f) \in 1..(nextID - 1) /\ f.name = FinalName(f.app, IDOf(f))
       /\ \A q \in Procs : call[q].pc \in Early => call[q].id # IDOf(f)
  /\ \A f, g \in stored : f.name = g.name => f = g

\* What has a final name was renamed into place or put there by hand.
Known == \A f \in dir : f.temp = None => f \in stored \cup Hand

\* So was what is on disk, what was put there by hand always is, and what power
\* loss took back is neither there nor here.
OnDisk ==
  /\ \A f \in dir : f \in Hand => f \in disk
  /\ \A f \in disk : f.temp = None /\ f \in stored \cup Hand
  /\ \A f \in lost : f \notin dir /\ f \notin disk

\* A call that is still writing has an ID of its own; its temporary file is not
\* there before it is created and synced before it is renamed.
Writing ==
  \A p \in Procs : call[p].pc \in Early =>
    /\ call[p].id \in 1..(nextID - 1)
    /\ \A q \in Procs : q # p /\ call[q].pc \in Early => call[q].id # call[p].id
    /\ call[p].pc = "create" => \A f \in dir : f.name # <<p, call[p].id>>
    /\ call[p].pc = "rename" => \A f \in dir : f.name = <<p, call[p].id>> => f.state = "synced"

\* The copies of f's app that are no older than f.
Fresher(copies, f) == {g \in copies : g.app = f.app /\ Ahead(g, f)}

\* What a call prunes are copies of its own app, with keep newer ones.
Doomed ==
  \A p \in Procs :
    /\ call[p].pc \in Early \cup {"list", "prune"} => call[p].keep \in Keeps \ {0}
    /\ call[p].prune # <<>> => call[p].pc \in {"prune", "failed"}
    /\ \A i \in DOMAIN call[p].prune :
         /\ call[p].prune[i] \in stored /\ call[p].prune[i].app = AppOf[p]
         /\ call[p].pc = "prune" =>
              Cardinality(Fresher(stored, call[p].prune[i])) >= call[p].keep

\* A copy that is gone, and was not lost, has as many newer ones as some call kept.
Retained ==
  \A f \in stored \ lost :
    f \in dir \/ \E k \in Keeps \ {0} : Cardinality(Fresher(stored, f)) >= k

Inv ==
  /\ Typed /\ NamesUnique /\ TempsNamed /\ InPlace /\ Known /\ OnDisk
  /\ Writing /\ Doomed /\ Retained

\* A directory of files put there by hand, and no call of WriteLocalCopy in progress,
\* is a sound start.
LEMMA InitInv == Init => Inv
<1> SUFFICES ASSUME Init PROVE Inv
  OBVIOUS
<1> DEFINE hand(n) == [name |-> n, app |-> None, temp |-> None, mtime |-> 0, state |-> "synced"]
           H == [n \in ByHand |-> hand(n)]
<1>0. dir = Hand /\ disk = Hand /\ lost = {}
  BY DEF Init
<1>1. dir = {hand(n) : n \in ByHand} /\ stored = {} /\ now = 0 /\ nextID = 1
  BY DEF Init, Hand
<1>2. call = [p \in Procs |-> NoCall] /\ NoCall.pc = "idle" /\ NoCall.prune = <<>>
  BY DEF Init, NoCall
<1>3. ByHand \subseteq Seq(Nat \cup Procs)
  <2> SUFFICES ASSUME NEW n \in ByHand PROVE n \in Seq(Nat \cup Procs)
    OBVIOUS
  <2>1. n \in Seq(Nat)
    BY LocalAssumption
  <2> QED
    BY <2>1, WiderSeq
<1>4. \A f \in dir : f.temp = None /\ f.name \in ByHand /\ f.state = "synced" /\ f = hand(f.name)
  BY <1>1
<1>5. dir \in SUBSET File
  BY <1>1, <1>3 DEF File
<1>6. IsFiniteSet(dir)
  <2>1. H \in Surjection(ByHand, dir)
    BY <1>1 DEF Surjection
  <2> QED
    BY <2>1, LocalAssumption, FS_Surjection
<1>7. call \in [Procs -> Call]
  <2>1. <<>> \in Seq(File)
    OBVIOUS
  <2>2. NoCall \in Call
    BY <2>1 DEF NoCall, Call, PCs
  <2> QED
    BY <1>2, <2>2
<1>8. Typed
  BY <1>0, <1>1, <1>5, <1>6, <1>7, LocalAssumption, FS_EmptySet DEF Typed
<1> HIDE DEF hand, H
<1>9. NamesUnique
  BY <1>4 DEF NamesUnique
<1>10. TempsNamed /\ Known /\ OnDisk
  BY <1>0, <1>4 DEF TempsNamed, Known, OnDisk
<1>11. InPlace /\ Retained
  BY <1>1 DEF InPlace, Retained
<1>12. Writing /\ Doomed
  BY <1>2 DEF Writing, Doomed, Early
<1> QED
  BY <1>8, <1>9, <1>10, <1>11, <1>12 DEF Inv

-----------------------------------------------------------------------------
(* Facts about the state                                                   *)

\* Names of temporary files are no copies' names.
LEMMA TempNoCopy ==
  ASSUME NEW p \in Procs, NEW q \in Procs, NEW i, NEW j \in Nat
  PROVE  <<p, i>> # FinalName(AppOf[q], j)
<1>1. AppOf[q] \in Seq(Byte)
  BY LocalAssumption
<1>2. Len(FinalName(AppOf[q], j)) >= 3
  BY <1>1, FinalNameShape
<1> DEFINE u == <<p, i>>
<1>3. Len(u) = 2
  OBVIOUS
<1> HIDE DEF u
<1>4. ASSUME u = FinalName(AppOf[q], j) PROVE FALSE
  <2>1. Len(FinalName(AppOf[q], j)) = 2
    BY <1>3, <1>4
  <2>2. 2 >= 3
    BY <1>2, <2>1
  <2> QED
    BY <2>2
<1> QED
  BY <1>4 DEF u

\* What was put there by hand is whole, and no temporary file.
LEMMA HandFiles ==
  ASSUME NEW f \in Hand
  PROVE  f.temp = None /\ f.state = "synced" /\ f.name \in ByHand
BY DEF Hand

\* What is in place and listed under an app's prefix was stored by that app.
LEMMA ListedOwn ==
  ASSUME Inv, NEW p \in Procs, NEW f \in dir, f.temp = None,
         IsPrefix(LocalPrefix(AppOf[p]), f.name)
  PROVE  f \in stored /\ f.app = AppOf[p]
<1>1. f \in stored
  BY LocalAssumption, HandFiles DEF Inv, Known
<1>2. PICK q \in Procs : f.app = AppOf[q]
  BY <1>1 DEF Inv, InPlace, Apps
<1>3. f.name = FinalName(AppOf[q], IDOf(f)) /\ IDOf(f) \in Nat
  <2>1. f.name = FinalName(f.app, IDOf(f)) /\ IDOf(f) \in 1..(nextID - 1) /\ nextID \in 1..(MaxID + 1)
    BY <1>1 DEF Inv, InPlace, Typed
  <2> QED
    BY <1>2, <2>1, LocalAssumption
<1>4. AppOf[p] \in Seq(Byte) /\ AppOf[q] \in Seq(Byte)
  BY LocalAssumption
<1>5. AppOf[p] = AppOf[q]
  BY <1>3, <1>4, PrefixesApart
<1> QED
  BY <1>1, <1>2, <1>5

\* Two copies of one app with one ID are one copy.
LEMMA OneID ==
  ASSUME Inv, NEW f \in stored, NEW g \in stored, f.app = g.app, IDOf(f) = IDOf(g)
  PROVE  f = g
BY DEF Inv, InPlace

\* Copies are only added: what had k newer copies still has.
LEMMA FresherGrows ==
  ASSUME NEW S, NEW T, S \subseteq T, IsFiniteSet(T), NEW f, NEW k \in Nat,
         Cardinality(Fresher(S, f)) >= k
  PROVE  Cardinality(Fresher(T, f)) >= k
<1> DEFINE A == Fresher(S, f)
           B == Fresher(T, f)
<1>1. A \in SUBSET B /\ B \in SUBSET T
  BY DEF Fresher
<1> HIDE DEF A, B
<1>2. IsFiniteSet(B)
  BY <1>1, FS_Subset
<1>3. IsFiniteSet(A) /\ Cardinality(A) <= Cardinality(B)
  BY <1>1, <1>2, FS_Subset
<1>4. Cardinality(A) \in Nat /\ Cardinality(B) \in Nat
  BY <1>2, <1>3, FS_CardinalityType
<1> QED
  BY <1>3, <1>4 DEF A, B

\* What a listing leaves beyond keep has keep copies in place that are no older.
LEMMA BeyondKeep ==
  ASSUME Inv, NEW p \in Procs, NEW keep \in Nat,
         NEW s \in Orders(Listed(AppOf[p])),
         NEW d, d = SubSeq(s, keep + 1, Len(s))
  PROVE  /\ d \in Seq(File)
         /\ \A i \in DOMAIN d :
              /\ d[i] \in stored /\ d[i].app = AppOf[p]
              /\ Cardinality(Fresher(stored, d[i])) >= keep
<1> DEFINE L == Listed(AppOf[p])
<1>1. L \in SUBSET dir /\ \A f \in L : f \in stored /\ f.app = AppOf[p]
  BY ListedOwn DEF Listed
<1>2. IsFiniteSet(L) /\ L \in SUBSET stored /\ IsFiniteSet(stored) /\ L \in SUBSET File
  BY <1>1, FS_Subset DEF Inv, Typed
<1>3. s \in Orders(L)
  OBVIOUS
<1> HIDE DEF L
<1> DEFINE N == Cardinality(L)
<1>5. /\ s \in Seq(L) /\ Len(s) = N /\ N \in Nat
      /\ \A i, j \in 1..N : i # j => s[i] # s[j]
      /\ \A i, j \in 1..N : i < j => ~(s[j].mtime > s[i].mtime)
  BY <1>2, <1>3, OrderedListing
<1> HIDE DEF N
<1>7. \A f \in L : f \in File
  BY <1>2
<1>8. s \in Seq(File)
  BY <1>5, <1>7, WiderSeq
<1>9. /\ d \in Seq(File) /\ DOMAIN d = 1..Len(d)
      /\ \A i \in 1..Len(d) : d[i] = s[keep + i] /\ keep + i \in 1..N
  <2>1. CASE keep + 1 <= N
    <3>1. d \in Seq(File) /\ Len(d) = N - keep
      BY <1>5, <1>8, <2>1
    <3>2. \A i \in 1..(N - keep) : d[i] = s[keep + i]
      <4> TAKE i \in 1..(N - keep)
      <4>1. d[i] = s[(keep + 1) + i - 1]
        BY <1>5, <1>8, <2>1
      <4>2. (keep + 1) + i - 1 = keep + i
        BY <1>5, <2>1
      <4> QED
        BY <4>1, <4>2
    <3> QED
      BY <1>5, <3>1, <3>2
  <2>2. CASE ~(keep + 1 <= N)
    <3>1. d \in Seq(File) /\ Len(d) = 0
      BY <1>5, <1>8, <2>2
    <3> QED
      BY <3>1
  <2> QED
    BY <2>1, <2>2
<1>10. ASSUME NEW i \in 1..Len(d)
       PROVE  /\ d[i] \in stored /\ d[i].app = AppOf[p]
              /\ Cardinality(Fresher(stored, d[i])) >= keep
  <2> DEFINE f == d[i]
             n == keep + i
             m == n - 1
             T == {s[j] : j \in 1..m}
  <2>1. f = s[n] /\ n \in 1..N /\ m \in 0..Len(s) /\ m >= keep /\ f \in L
    <3>1. f = s[n] /\ n \in 1..N /\ i \in Nat /\ i >= 1
      BY <1>9
    <3> QED
      BY <1>5, <3>1
  <2>2. f \in stored /\ f.app = AppOf[p]
    BY <1>1, <2>1
  <2> HIDE DEF f
  <2>3. IsFiniteSet(T) /\ Cardinality(T) = m
    BY <1>5, <2>1, FirstOnes
  <2>4. ASSUME NEW j \in 1..m
        PROVE  s[j] \in Fresher(stored, f)
    <3> HIDE DEF n, T
    <3>0. n \in Nat /\ N \in Nat /\ n <= N /\ m = n - 1
      BY <1>5, <2>1
    <3>1. j \in 1..N /\ j < n
      BY <3>0
    <3>2. s[j] \in L /\ s[j] # f /\ ~(f.mtime > s[j].mtime)
      BY <1>5, <2>1, <3>1
    <3>3. s[j].mtime \in Nat /\ f.mtime \in Nat
      BY <1>7, <2>1, <3>2 DEF File
    <3>4. s[j] \in stored /\ s[j].app = f.app
      BY <1>1, <2>2, <3>2
    <3> QED
      BY <3>2, <3>3, <3>4 DEF Fresher, Ahead
  <2>5. T \in SUBSET Fresher(stored, f)
    BY <2>4
  <2>6. Fresher(stored, f) \in SUBSET stored
    BY DEF Fresher
  <2> HIDE DEF T
  <2>7. IsFiniteSet(Fresher(stored, f)) /\ Cardinality(Fresher(stored, f)) \in Nat
    BY <1>2, <2>6, FS_Subset, FS_CardinalityType
  <2>8. Cardinality(T) <= Cardinality(Fresher(stored, f))
    BY <2>5, <2>7, FS_Subset
  <2>9. Cardinality(Fresher(stored, f)) >= keep
    BY <2>1, <2>3, <2>7, <2>8
  <2> QED
    BY <2>2, <2>9 DEF f
<1> QED
  BY <1>9, <1>10

-----------------------------------------------------------------------------
(* Preservation                                                            *)

\* A step that leaves every copy in place disturbs no copy.
LEMMA PlacedKept ==
  ASSUME Inv, stored' = stored, lost' = lost, disk' = disk,
         \A f : f.temp = None => (f \in dir' <=> f \in dir)
  PROVE  Known' /\ OnDisk' /\ Retained'
<1>1. Known'
  BY DEF Inv, Known, Hand
<1>2. \A f \in stored : f.temp = None
  BY DEF Inv, InPlace
<1>3. Retained'
  BY <1>2 DEF Inv, Retained, Fresher
<1>4. lost \subseteq stored
  BY DEF Inv, Typed
<1>5. OnDisk'
  BY <1>2, <1>4 DEF Inv, OnDisk, Hand
<1> QED
  BY <1>1, <1>3, <1>5

\* A step of one call that moves it on, and touches at most its temporary file.
LEMMA CallerMoves ==
  ASSUME Inv, NEW p \in Procs, NEW to \in PCs \ {"create", "list", "prune"},
         call' = [call EXCEPT ![p].pc = to],
         to \in Early => call[p].pc \in Early,
         to # "failed" => call[p].prune = <<>>,
         stored' = stored, lost' = lost, disk' = disk, nextID' = nextID, now' \in 0..MaxClock,
         dir' \in SUBSET File, IsFiniteSet(dir'), NamesUnique',
         \A f : f.temp = None => (f \in dir' <=> f \in dir),
         \A f \in dir' : f.temp # None =>
           \/ f \in dir
           \/ /\ f.temp = p /\ f.app = AppOf[p]
              /\ f.name = <<p, call[p].id>> /\ call[p].pc \in Early,
         to = "rename" => \A f \in dir' : f.name = <<p, call[p].id>> => f.state = "synced"
  PROVE  Inv'
<1>1. call \in [Procs -> Call]
  BY DEF Inv, Typed
<1>2. /\ call'[p].pc = to /\ call'[p].id = call[p].id
      /\ call'[p].keep = call[p].keep /\ call'[p].prune = call[p].prune
  BY <1>1 DEF Call
<1>3. \A q \in Procs : q # p => call'[q] = call[q]
  BY <1>1
<1>4. call' \in [Procs -> Call]
  BY <1>1 DEF Call
<1>5. Typed'
  BY <1>4 DEF Inv, Typed
<1>6. TempsNamed'
  <2> SUFFICES ASSUME NEW f \in dir', f.temp # None
               PROVE  f.app = AppOf[f.temp] /\ \E i \in 1..(nextID - 1) : f.name = <<f.temp, i>>
    BY DEF TempsNamed
  <2>1. CASE f \in dir
    BY <2>1 DEF Inv, TempsNamed
  <2>2. CASE f.temp = p /\ f.app = AppOf[p] /\ f.name = <<p, call[p].id>> /\ call[p].pc \in Early
    BY <2>2 DEF Inv, Writing
  <2> QED
    BY <2>1, <2>2
<1>7. InPlace'
  <2>1. \A q \in Procs : call'[q].pc \in Early => call[q].pc \in Early /\ call'[q].id = call[q].id
    BY <1>2, <1>3
  <2> QED
    BY <2>1 DEF Inv, InPlace, IDOf
<1>8. Known' /\ OnDisk' /\ Retained'
  BY PlacedKept
<1>9. Writing'
  <2>1. \A q \in Procs : call'[q].pc \in Early => call[q].pc \in Early /\ call'[q].id = call[q].id
    BY <1>2, <1>3
  <2> SUFFICES ASSUME NEW q \in Procs, call'[q].pc \in Early
               PROVE  /\ call[q].id \in 1..(nextID - 1)
                      /\ \A r \in Procs : r # q /\ call'[r].pc \in Early => call[r].id # call[q].id
                      /\ call'[q].pc = "create" => \A f \in dir' : f.name # <<q, call[q].id>>
                      /\ call'[q].pc = "rename" =>
                           \A f \in dir' : f.name = <<q, call[q].id>> => f.state = "synced"
    BY <2>1 DEF Writing
  <2>2. call[q].pc \in Early
    BY <2>1
  <2>3. call[q].id \in 1..(nextID - 1)
    BY <2>2 DEF Inv, Writing
  <2>4. \A r \in Procs : r # q /\ call'[r].pc \in Early => call[r].id # call[q].id
    BY <2>1, <2>2 DEF Inv, Writing
  <2>5. \A f \in dir' : q # p /\ f.name = <<q, call[q].id>> => f \in dir
    <3> SUFFICES ASSUME NEW f \in dir', q # p, f.name = <<q, call[q].id>> PROVE f \in dir
      OBVIOUS
    <3>1. <<q, call[q].id>> # <<p, call[p].id>>
      OBVIOUS
    <3> QED
      BY <3>1
  <2>6. call'[q].pc = "create" => q # p /\ call[q].pc = "create"
    BY <1>2, <1>3
  <2>7. call'[q].pc = "rename" => (q = p /\ to = "rename") \/ (q # p /\ call[q].pc = "rename")
    BY <1>2, <1>3
  <2>8. call'[q].pc = "create" => \A f \in dir' : f.name # <<q, call[q].id>>
    BY <2>2, <2>5, <2>6 DEF Inv, Writing
  <2>9. call'[q].pc = "rename" => \A f \in dir' : f.name = <<q, call[q].id>> => f.state = "synced"
    BY <2>2, <2>5, <2>7 DEF Inv, Writing
  <2> QED
    BY <2>3, <2>4, <2>8, <2>9
<1>10. Doomed'
  <2> SUFFICES ASSUME NEW q \in Procs
               PROVE  /\ call'[q].pc \in Early \cup {"list", "prune"} => call'[q].keep \in Keeps \ {0}
                      /\ call'[q].prune # <<>> => call'[q].pc \in {"prune", "failed"}
                      /\ \A i \in DOMAIN call'[q].prune :
                           /\ call'[q].prune[i] \in stored /\ call'[q].prune[i].app = AppOf[q]
                           /\ call'[q].pc = "prune" =>
                                Cardinality(Fresher(stored, call'[q].prune[i])) >= call'[q].keep
    BY DEF Doomed, Fresher
  <2>1. CASE q # p
    BY <1>3, <2>1 DEF Inv, Doomed
  <2>2. CASE q = p
    <3>1. call'[q].pc \in Early \cup {"list", "prune"} => call[q].pc \in Early
      BY <1>2, <2>2
    <3> QED
      BY <1>2, <2>2, <3>1 DEF Inv, Doomed
  <2> QED
    BY <2>1, <2>2
<1> QED
  BY <1>5, <1>6, <1>7, <1>8, <1>9, <1>10 DEF Inv

\* What bears the name of a temporary file is that process's temporary file.
LEMMA TempNamed ==
  ASSUME Inv, NEW p \in Procs, NEW i \in 1..MaxID, NEW f \in dir, f.name = <<p, i>>
  PROVE  f.temp = p /\ i <= nextID - 1
<1>1. nextID \in 1..(MaxID + 1) /\ i \in Nat
  BY LocalAssumption DEF Inv, Typed
<1>2. f.temp # None
  <2> SUFFICES ASSUME f.temp = None PROVE FALSE
    OBVIOUS
  <2>1. f.name \notin ByHand
    BY LocalAssumption
  <2>2. f \in stored
    BY <2>1, HandFiles DEF Inv, Known
  <2>3. PICK q \in Procs : f.app = AppOf[q]
    BY <2>2 DEF Inv, InPlace, Apps
  <2>4. f.name = FinalName(AppOf[q], IDOf(f)) /\ IDOf(f) \in 1..(nextID - 1)
    BY <2>2, <2>3 DEF Inv, InPlace
  <2>5. IDOf(f) \in Nat
    BY <2>4, <1>1, LocalAssumption
  <2> QED
    BY <2>4, <2>5, TempNoCopy
<1>3. PICK j \in 1..(nextID - 1) : f.name = <<f.temp, j>>
  BY <1>2 DEF Inv, TempsNamed
<1>4. f.temp = p /\ i = j
  BY <1>3
<1> QED
  BY <1>1, <1>3, <1>4

\* A call that is still writing prunes nothing yet.
LEMMA NothingDoomed ==
  ASSUME Inv, NEW p \in Procs, call[p].pc \notin {"prune", "failed"}
  PROVE  call[p].prune = <<>>
BY DEF Inv, Doomed

\* A call has at most one temporary file.
LEMMA OneTemp ==
  ASSUME Inv, NEW p \in Procs
  PROVE  \/ Temps(p) = {}
         \/ \E t \in dir : /\ Temps(p) = {t} /\ t.temp = p /\ t.app = AppOf[p]
                            /\ t.name = <<p, call[p].id>>
<1> SUFFICES ASSUME NEW t \in Temps(p)
             PROVE  /\ t \in dir /\ Temps(p) = {t} /\ t.temp = p /\ t.app = AppOf[p]
                    /\ t.name = <<p, call[p].id>>
  OBVIOUS
<1>1. t \in dir /\ t.temp = p /\ t.name = <<p, call[p].id>>
  BY DEF Temps
<1>2. t.app = AppOf[p]
  BY <1>1, LocalAssumption DEF Inv, TempsNamed
<1>3. Temps(p) = {t}
  BY <1>1 DEF Temps, Inv, NamesUnique
<1> QED
  BY <1>1, <1>2, <1>3

\* CreateTemp puts the call's temporary file in the directory.
LEMMA StepCreate ==
  ASSUME Inv, NEW p \in Procs, CreateTemp(p)
  PROVE  Inv'
<1> DEFINE t == [name |-> <<p, call[p].id>>, app |-> AppOf[p], temp |-> p,
                 mtime |-> now, state |-> "part"]
<1>1. /\ call[p].pc = "create" /\ dir' = dir \cup {t}
      /\ call' = [call EXCEPT ![p].pc = "write"] /\ UNCHANGED <<now, stored, lost, disk, nextID>>
  BY DEF CreateTemp, Goto
<1>2. call[p].id \in Nat /\ now \in Nat
  BY LocalAssumption DEF Inv, Typed, Call
<1>3. <<p, call[p].id>> \in Seq(Nat \cup Procs)
  BY <1>2
<1>4. t \in File
  BY <1>2, <1>3 DEF File, Apps
<1>5. t.temp = p /\ t.app = AppOf[p] /\ t.name = <<p, call[p].id>> /\ p # None
  BY LocalAssumption
<1> HIDE DEF t
<1>6. \A f \in dir : f.name # t.name
  BY <1>1, <1>5 DEF Inv, Writing, Early
<1>7. NamesUnique'
  BY <1>1, <1>6 DEF Inv, NamesUnique
<1>8. IsFiniteSet(dir') /\ dir' \in SUBSET File /\ now' \in 0..MaxClock
  BY <1>1, <1>4, FS_AddElement DEF Inv, Typed
<1>9. call[p].prune = <<>> /\ call[p].pc \in Early
  BY <1>1, NothingDoomed DEF Early
<1>10. \A f : f.temp = None => (f \in dir' <=> f \in dir)
  BY <1>1, <1>5
<1>11. "write" \in PCs \ {"create", "list", "prune"}
  BY DEF PCs, Early
<1> QED
  BY <1>1, <1>5, <1>7, <1>8, <1>9, <1>10, <1>11, CallerMoves

\* Write and Sync: the call's temporary file, if it is still there, changes; and
\* WriteFails: it goes.
LEMMA StepTemp ==
  ASSUME Inv, NEW p \in Procs, NEW to \in {"sync", "rename", "failed"},
         call[p].pc \in Early, call' = [call EXCEPT ![p].pc = to],
         UNCHANGED <<stored, lost, disk, nextID>>, now' \in 0..MaxClock,
         NEW U, U \in SUBSET File, \A u \in U : \E f \in Temps(p) :
                  u.name = f.name /\ u.app = f.app /\ u.temp = f.temp,
         \A u, v \in U : u = v,
         to = "rename" => \A u \in U : u.state = "synced",
         dir' = (dir \ Temps(p)) \cup U
  PROVE  Inv'
<1>1. \A f \in Temps(p) : f \in dir /\ f.temp = p /\ f.app = AppOf[p] /\ f.name = <<p, call[p].id>>
  BY OneTemp
<1>2. \A u \in U : u.temp = p /\ u.app = AppOf[p] /\ u.name = <<p, call[p].id>>
  BY <1>1
<1>3. p # None
  BY LocalAssumption
<1>4. \A f \in dir : f \notin Temps(p) => f.name # <<p, call[p].id>>
  <2>1. call[p].id \in 1..(nextID - 1) /\ nextID \in 1..(MaxID + 1)
    BY DEF Inv, Writing, Typed
  <2>2. call[p].id \in 1..MaxID
    BY <2>1, LocalAssumption
  <2> QED
    BY <2>2, TempNamed DEF Temps
<1>5. NamesUnique'
  BY <1>2, <1>4 DEF Inv, NamesUnique
<1>6. dir' \in SUBSET File
  BY DEF Inv, Typed
<1>7. IsFiniteSet(dir')
  <2>1. IsFiniteSet(dir \ Temps(p))
    BY FS_Difference DEF Inv, Typed
  <2>2. U = {} \/ \E u : U = {u}
    OBVIOUS
  <2>3. IsFiniteSet({}) /\ \A u : IsFiniteSet({u})
    BY FS_EmptySet, FS_Singleton
  <2>4. IsFiniteSet(U)
    BY <2>2, <2>3, Zenon
  <2> QED
    BY <2>1, <2>4, FS_Union
<1>8. \A f : f.temp = None => (f \in dir' <=> f \in dir)
  BY <1>1, <1>2, <1>3
<1>9. to = "rename" => \A f \in dir' : f.name = <<p, call[p].id>> => f.state = "synced"
  BY <1>4
<1>10. call[p].prune = <<>>
  BY NothingDoomed DEF Early
<1>11. to \in PCs \ {"create", "list", "prune"}
  BY DEF PCs, Early
<1>12. \A f \in dir' : f.temp # None =>
         \/ f \in dir
         \/ /\ f.temp = p /\ f.app = AppOf[p]
            /\ f.name = <<p, call[p].id>> /\ call[p].pc \in Early
  BY <1>2
<1> QED
  BY <1>5, <1>6, <1>7, <1>8, <1>9, <1>10, <1>11, <1>12, CallerMoves

\* Write touches the temporary file and takes the clock on.
LEMMA StepWrite ==
  ASSUME Inv, NEW p \in Procs, Write(p)
  PROVE  Inv'
<1> DEFINE U == {[f EXCEPT !.mtime = now + 1, !.state = "written"] : f \in Temps(p)}
<1>1. /\ call[p].pc = "write" /\ now < MaxClock /\ now' = now + 1
      /\ dir' = (dir \ Temps(p)) \cup U
      /\ call' = [call EXCEPT ![p].pc = "sync"] /\ UNCHANGED <<stored, lost, disk, nextID>>
  BY DEF Write, Goto
<1>2. now \in Nat /\ now' \in 0..MaxClock
  <2>1. now \in 0..MaxClock /\ MaxClock \in Nat
    BY LocalAssumption DEF Inv, Typed
  <2> HIDE DEF U
  <2> QED
    BY <1>1, <2>1
<1>3. \A f \in Temps(p) : f \in File
  BY DEF Temps, Inv, Typed
<1>4. \A u \in U : u \in File /\ \E f \in Temps(p) :
         u.name = f.name /\ u.app = f.app /\ u.temp = f.temp
  <2> SUFFICES ASSUME NEW f \in Temps(p),
                      NEW u, u = [f EXCEPT !.mtime = now + 1, !.state = "written"]
               PROVE  u \in File /\ u.name = f.name /\ u.app = f.app /\ u.temp = f.temp
    BY Zenon
  <2>1. now + 1 \in Nat /\ f \in File
    BY <1>2, <1>3
  <2> QED
    BY <2>1 DEF File
<1>5. \A u, v \in U : u = v
  <2>1. \A f, g \in Temps(p) : f = g
    BY OneTemp
  <2> QED
    BY <2>1, Zenon
<1> HIDE DEF U
<1> QED
  BY <1>1, <1>2, <1>4, <1>5, StepTemp DEF Early

\* Sync makes the temporary file durable.
LEMMA StepSync ==
  ASSUME Inv, NEW p \in Procs, Sync(p)
  PROVE  Inv'
<1> DEFINE U == {[f EXCEPT !.state = "synced"] : f \in Temps(p)}
<1>1. /\ call[p].pc = "sync" /\ dir' = (dir \ Temps(p)) \cup U
      /\ call' = [call EXCEPT ![p].pc = "rename"] /\ UNCHANGED <<now, stored, lost, disk, nextID>>
  BY DEF Sync, Goto
<1>2. now' \in 0..MaxClock
  BY <1>1 DEF Inv, Typed
<1>3. \A f \in Temps(p) : f \in File
  BY DEF Temps, Inv, Typed
<1>4. \A u \in U : u \in File /\ u.state = "synced" /\ \E f \in Temps(p) :
         u.name = f.name /\ u.app = f.app /\ u.temp = f.temp
  BY <1>3 DEF File
<1>5. \A u, v \in U : u = v
  BY OneTemp
<1> HIDE DEF U
<1> QED
  BY <1>1, <1>2, <1>4, <1>5, StepTemp DEF Early

\* WriteFails removes the temporary file, or leaves it as it is.
LEMMA StepWriteFails ==
  ASSUME Inv, NEW p \in Procs, WriteFails(p)
  PROVE  Inv'
<1>1. /\ call[p].pc \in Early /\ dir' \in {dir, dir \ Temps(p)}
      /\ call' = [call EXCEPT ![p].pc = "failed"] /\ UNCHANGED <<now, stored, lost, disk, nextID>>
  BY DEF WriteFails, Fails, Goto, Early
<1>2. PICK U \in SUBSET Temps(p) : dir' = (dir \ Temps(p)) \cup U
  <2>1. dir = (dir \ Temps(p)) \cup Temps(p)
    BY DEF Temps
  <2>2. dir' = (dir \ Temps(p)) \cup Temps(p) \/ dir' = (dir \ Temps(p)) \cup {}
    BY <1>1, <2>1
  <2> QED
    BY <2>2
<1>3. now' \in 0..MaxClock /\ U \in SUBSET File
  BY <1>1, <1>2 DEF Inv, Typed, Temps
<1>4. \A u, v \in U : u = v
  <2> SUFFICES ASSUME Temps(p) # {} PROVE \A u, v \in U : u = v
    BY <1>2
  <2> QED
    BY <1>2, OneTemp
<1>5. \A u \in U : \E f \in Temps(p) : u.name = f.name /\ u.app = f.app /\ u.temp = f.temp
  BY <1>2
<1> QED
  BY <1>1, <1>2, <1>3, <1>4, <1>5, StepTemp

\* ListFails, PruneFails and Return end the call.
LEMMA StepEnds ==
  ASSUME Inv, NEW p \in Procs, ListFails(p) \/ PruneFails(p) \/ Return(p)
  PROVE  Inv'
<1>1. PICK to \in {"failed", "done"} :
        /\ call' = [call EXCEPT ![p].pc = to] /\ UNCHANGED <<now, dir, stored, lost, disk, nextID>>
        /\ to # "failed" => call[p].prune = <<>>
  BY DEF ListFails, PruneFails, Return, Fails, Goto
<1>2. now' \in 0..MaxClock /\ dir' \in SUBSET File /\ IsFiniteSet(dir')
  BY <1>1 DEF Inv, Typed
<1>3. NamesUnique'
  BY <1>1 DEF Inv, NamesUnique
<1>4. to \in PCs \ {"create", "list", "prune"} /\ to \notin Early
  BY DEF PCs, Early
<1>5. to # "rename"
  BY <1>1
<1> QED
  BY <1>1, <1>2, <1>3, <1>4, <1>5, CallerMoves

\* Begin hands out a fresh ID and sweeps temporary files only.
LEMMA StepBegin ==
  ASSUME Inv, NEW p \in Procs, NEW keep \in Keeps, Begin(p, keep)
  PROVE  Inv'
<1> DEFINE pc == IF KeepAllowed(keep) THEN "create" ELSE "failed"
           c == [pc |-> pc, id |-> nextID, keep |-> keep, prune |-> <<>>]
<1>1. /\ nextID <= MaxID /\ nextID' = nextID + 1 /\ call' = [call EXCEPT ![p] = c]
      /\ dir' \in {dir, Swept(dir)}
      /\ UNCHANGED <<now, stored, lost, disk>>
  BY DEF Begin
<1>2. /\ nextID \in Nat /\ nextID >= 1 /\ MaxID \in Nat /\ keep \in Nat /\ nextID' \in 1..(MaxID + 1)
      /\ nextID \in 1..MaxID
  <2>1. nextID \in 1..(MaxID + 1) /\ MaxID \in Nat /\ keep \in Nat
    BY LocalAssumption DEF Inv, Typed
  <2> QED
    BY <1>1, <2>1
<1>3. pc = "create" => keep \in Keeps \ {0}
  BY <1>2 DEF KeepAllowed
<1>4. pc \in {"create", "failed"}
  OBVIOUS
<1>5. c \in Call
  <2>1. <<>> \in Seq(File)
    OBVIOUS
  <2> QED
    BY <1>2, <1>4, <2>1 DEF Call, PCs, Early
<1>6. c.pc = pc /\ c.id = nextID /\ c.keep = keep /\ c.prune = <<>>
  OBVIOUS
<1> HIDE DEF c, pc
<1>7. call \in [Procs -> Call]
  BY DEF Inv, Typed
<1>8. call' \in [Procs -> Call] /\ call'[p] = c /\ \A q \in Procs : q # p => call'[q] = call[q]
  BY <1>1, <1>5, <1>7
<1>9. dir' \in SUBSET dir /\ \A f : f.temp = None => (f \in dir' <=> f \in dir)
  BY <1>1 DEF Swept
<1>10. 1..(nextID' - 1) = 1..nextID /\ \A i \in 1..(nextID - 1) : i \in 1..nextID /\ i # nextID
  BY <1>1, <1>2
<1>11. Typed'
  <2>1. IsFiniteSet(dir')
    BY <1>9, FS_Subset DEF Inv, Typed
  <2> QED
    BY <1>1, <1>2, <1>8, <1>9, <2>1 DEF Inv, Typed
<1>12. NamesUnique'
  BY <1>9 DEF Inv, NamesUnique
<1>13. TempsNamed'
  BY <1>9, <1>10 DEF Inv, TempsNamed
<1>14. InPlace'
  <2>1. \A f \in stored : IDOf(f) \in 1..(nextID' - 1) /\ IDOf(f) # nextID
    BY <1>10 DEF Inv, InPlace
  <2>2. \A f \in stored : \A q \in Procs : call'[q].pc \in Early => call'[q].id # IDOf(f)
    BY <1>6, <1>8, <2>1 DEF Inv, InPlace
  <2> QED
    BY <1>1, <2>1, <2>2 DEF Inv, InPlace, IDOf
<1>15. Known' /\ OnDisk' /\ Retained'
  BY <1>1, <1>9, PlacedKept
<1>16. Writing'
  <2> SUFFICES ASSUME NEW q \in Procs, call'[q].pc \in Early
               PROVE  /\ call'[q].id \in 1..nextID
                      /\ \A r \in Procs : r # q /\ call'[r].pc \in Early => call'[r].id # call'[q].id
                      /\ call'[q].pc = "create" => \A f \in dir' : f.name # <<q, call'[q].id>>
                      /\ call'[q].pc = "rename" =>
                           \A f \in dir' : f.name = <<q, call'[q].id>> => f.state = "synced"
    BY <1>10 DEF Writing
  <2>0. \A r \in Procs : r # p /\ call'[r].pc \in Early => call[r].id \in 1..(nextID - 1)
    BY <1>8 DEF Inv, Writing
  <2>1. CASE q = p
    <3>1. call'[q].pc = pc /\ call'[q].id = nextID
      BY <1>6, <1>8, <2>1
    <3>2. \A r \in Procs : r # q /\ call'[r].pc \in Early => call'[r].id # nextID
      BY <1>8, <1>10, <2>0, <2>1
    <3>3. \A f \in dir' : f.name # <<q, nextID>>
      <4> SUFFICES ASSUME NEW f \in dir, f.name = <<q, nextID>> PROVE FALSE
        BY <1>9
      <4>1. nextID <= nextID - 1
        BY <1>2, TempNamed
      <4> QED
        BY <4>1, <1>2
    <3>4. nextID \in 1..nextID /\ call'[q].pc # "rename"
      BY <1>2, <1>4, <3>1
    <3> QED
      BY <3>1, <3>2, <3>3, <3>4
  <2>2. CASE q # p
    <3>1. call'[q] = call[q] /\ call[q].pc \in Early /\ call[q].id \in 1..nextID /\ call[q].id # nextID
      BY <1>8, <1>10, <2>0, <2>2
    <3>2. \A r \in Procs : r # q /\ call'[r].pc \in Early => call'[r].id # call[q].id
      BY <1>6, <1>8, <3>1 DEF Inv, Writing
    <3> QED
      BY <1>9, <3>1, <3>2 DEF Inv, Writing
  <2> QED
    BY <2>1, <2>2
<1>17. Doomed'
  <2> SUFFICES ASSUME NEW q \in Procs
               PROVE  /\ call'[q].pc \in Early \cup {"list", "prune"} => call'[q].keep \in Keeps \ {0}
                      /\ call'[q].prune # <<>> => call'[q].pc \in {"prune", "failed"}
                      /\ \A i \in DOMAIN call'[q].prune :
                           /\ call'[q].prune[i] \in stored /\ call'[q].prune[i].app = AppOf[q]
                           /\ call'[q].pc = "prune" =>
                                Cardinality(Fresher(stored, call'[q].prune[i])) >= call'[q].keep
    BY <1>1 DEF Doomed, Fresher
  <2>1. CASE q # p
    BY <1>8, <2>1 DEF Inv, Doomed
  <2>2. CASE q = p
    <3>1. call'[q].pc = pc /\ call'[q].keep = keep /\ call'[q].prune = <<>>
      BY <1>6, <1>8, <2>2
    <3>2. DOMAIN call'[q].prune = {}
      BY <3>1
    <3> QED
      BY <1>3, <1>4, <3>1, <3>2 DEF Early
  <2> QED
    BY <2>1, <2>2
<1> QED
  BY <1>11, <1>12, <1>13, <1>14, <1>15, <1>16, <1>17 DEF Inv

\* A call that is reset has nothing to write or to prune: Crash, and PowerLoss
\* for all of them, which leaves its mark on the directory too.
LEMMA CallsReset ==
  ASSUME Inv, NEW R \in SUBSET Procs,
         call' = [q \in Procs |-> IF q \in R THEN NoCall ELSE call[q]],
         stored' = stored, nextID' = nextID, now' = now,
         dir' \in SUBSET File, IsFiniteSet(dir'), NamesUnique', TempsNamed',
         lost' \subseteq stored, disk' \in SUBSET File, IsFiniteSet(disk'),
         Known', OnDisk', Retained', R # Procs => dir' = dir
  PROVE  Inv'
<1>1. call \in [Procs -> Call] /\ NoCall \in Call
  <2>1. <<>> \in Seq(File)
    OBVIOUS
  <2> QED
    BY <2>1 DEF Inv, Typed, Call, NoCall, PCs
<1>2. NoCall.pc = "idle" /\ NoCall.prune = <<>> /\ DOMAIN NoCall.prune = {}
  BY DEF NoCall
<1>3. \A q \in Procs : (q \in R /\ call'[q] = NoCall) \/ (q \notin R /\ call'[q] = call[q])
  OBVIOUS
<1>4. Typed'
  BY <1>1 DEF Inv, Typed
<1>5. \A q \in Procs : call'[q].pc \in Early => q \notin R /\ call'[q] = call[q]
  BY <1>2, <1>3 DEF Early
<1>6. InPlace'
  BY <1>5 DEF Inv, InPlace, IDOf
<1>8. Writing'
  <2>1. \A q \in Procs : call'[q].pc \in Early => dir' = dir
    BY <1>5
  <2> QED
    BY <1>5, <2>1 DEF Inv, Writing
<1>9. Doomed'
  <2> SUFFICES ASSUME NEW q \in Procs
               PROVE  /\ call'[q].pc \in Early \cup {"list", "prune"} => call'[q].keep \in Keeps \ {0}
                      /\ call'[q].prune # <<>> => call'[q].pc \in {"prune", "failed"}
                      /\ \A i \in DOMAIN call'[q].prune :
                           /\ call'[q].prune[i] \in stored /\ call'[q].prune[i].app = AppOf[q]
                           /\ call'[q].pc = "prune" =>
                                Cardinality(Fresher(stored, call'[q].prune[i])) >= call'[q].keep
    BY DEF Doomed, Fresher
  <2>1. CASE call'[q] = NoCall
    BY <1>2, <2>1 DEF Early
  <2>2. CASE call'[q] = call[q]
    BY <2>2 DEF Inv, Doomed
  <2> QED
    BY <1>3, <2>1, <2>2
<1> QED
  BY <1>4, <1>6, <1>8, <1>9 DEF Inv

\* Crash resets one call and touches no file.
LEMMA StepCrash ==
  ASSUME Inv, NEW p \in Procs, Crash(p)
  PROVE  Inv'
<1>1. call' = [call EXCEPT ![p] = NoCall] /\ UNCHANGED <<now, dir, stored, lost, disk, nextID>>
  BY DEF Crash
<1> DEFINE R == {p}
<1>2. call' = [q \in Procs |-> IF q \in R THEN NoCall ELSE call[q]]
  BY <1>1 DEF Inv, Typed
<1>3. R \in SUBSET Procs
  OBVIOUS
<1>4. dir' \in SUBSET File /\ IsFiniteSet(dir') /\ NamesUnique' /\ TempsNamed'
  BY <1>1 DEF Inv, Typed, NamesUnique, TempsNamed
<1>5. lost' \subseteq stored /\ disk' \in SUBSET File /\ IsFiniteSet(disk')
  BY <1>1 DEF Inv, Typed
<1>6. Known' /\ OnDisk' /\ Retained'
  BY <1>1, PlacedKept
<1> HIDE DEF R
<1> QED
  BY <1>1, <1>2, <1>3, <1>4, <1>5, <1>6, CallsReset

\* Two files in place, here or on disk, with one name are one file.
LEMMA PlacedUnique ==
  ASSUME Inv, NEW f \in stored \cup Hand, NEW g \in stored \cup Hand, f.name = g.name
  PROVE  f = g
<1>1. ASSUME NEW x \in stored PROVE x.name \notin ByHand
  <2>1. PICK q \in Procs : x.app = AppOf[q]
    BY DEF Inv, InPlace, Apps
  <2>2. x.name = FinalName(AppOf[q], IDOf(x)) /\ IDOf(x) \in 1..(nextID - 1)
    BY <2>1 DEF Inv, InPlace
  <2>3. nextID \in 1..(MaxID + 1) /\ MaxID \in Nat /\ AppOf[q] \in Seq(Byte)
    BY LocalAssumption DEF Inv, Typed
  <2>4. IDOf(x) \in Nat
    BY <2>2, <2>3
  <2>5. IsPrefix(LocalPrefix(AppOf[q]), x.name)
    BY <2>2, <2>3, <2>4, OwnPrefix
  <2> QED
    BY <2>5, LocalAssumption
<1>2. CASE f \in stored /\ g \in stored
  BY <1>2 DEF Inv, InPlace
<1>3. CASE f \in Hand /\ g \in Hand
  BY <1>3 DEF Hand
<1>4. CASE f \in Hand /\ g \in stored
  BY <1>1, <1>4, HandFiles
<1>5. CASE f \in stored /\ g \in Hand
  BY <1>1, <1>5, HandFiles
<1> QED
  BY <1>2, <1>3, <1>4, <1>5

\* A copy in place has no temporary file's name.
LEMMA CopyNoTemp ==
  ASSUME Inv, NEW f \in stored \cup Hand, NEW q \in Procs, NEW i \in 1..(nextID - 1)
  PROVE  f.name # <<q, i>>
<1>1. nextID \in 1..(MaxID + 1) /\ MaxID \in Nat
  BY LocalAssumption DEF Inv, Typed
<1>2. i \in 1..MaxID
  BY <1>1
<1>3. CASE f \in Hand
  BY <1>2, <1>3, HandFiles, LocalAssumption
<1>4. CASE f \in stored
  <2>1. PICK r \in Procs : f.app = AppOf[r]
    BY <1>4 DEF Inv, InPlace, Apps
  <2>2. f.name = FinalName(AppOf[r], IDOf(f)) /\ IDOf(f) \in 1..(nextID - 1)
    BY <1>4, <2>1 DEF Inv, InPlace
  <2>3. IDOf(f) \in Nat
    BY <1>1, <2>2
  <2> QED
    BY <2>2, <2>3, TempNoCopy
<1> QED
  BY <1>3, <1>4

\* PowerLoss empties temporary files that were written and not synced, and undoes
\* renames and removals that were not on disk.
LEMMA StepPowerLoss ==
  ASSUME Inv, PowerLoss
  PROVE  Inv'
<1> DEFINE Lose(f) == IF f.state = "written" THEN [f EXCEPT !.state = "part"] ELSE f
           W == dir \ Placed(dir)
           D == [f \in W |-> Lose(f)]
           E == {Lose(f) : f \in W}
<1>1. PICK survived \in SUBSET ((Placed(dir) \ disk) \cup (disk \ dir)) :
        LET kept == (Placed(dir) \cap disk) \cup survived
        IN /\ dir' = kept \cup E /\ disk' = kept
           /\ lost' = lost \cup (Placed(dir) \ kept)
  BY DEF PowerLoss
<1>2. call' = [q \in Procs |-> NoCall] /\ UNCHANGED <<now, stored, nextID>>
  BY DEF PowerLoss
<1> DEFINE kept == (Placed(dir) \cap disk) \cup survived
<1>3. dir' = kept \cup E /\ disk' = kept /\ lost' = lost \cup (Placed(dir) \ kept)
  BY <1>1
<1>4. kept \subseteq Placed(dir) \cup disk
  OBVIOUS
<1> HIDE DEF kept
<1>5. \A f \in Placed(dir) \cup disk : f \in dir \cup disk /\ f.temp = None /\ f \in stored \cup Hand
  BY DEF Inv, Known, OnDisk, Placed
<1>6. \A f \in kept : f.temp = None /\ f \in stored \cup Hand
  BY <1>4, <1>5
<1>7. kept \in SUBSET File /\ IsFiniteSet(kept)
  <2>1. IsFiniteSet(dir) /\ IsFiniteSet(disk) /\ dir \in SUBSET File /\ disk \in SUBSET File
    BY DEF Inv, Typed
  <2>2. IsFiniteSet(dir \cup disk)
    BY <2>1, FS_Union
  <2>3. kept \in SUBSET (dir \cup disk)
    BY <1>4, <1>5
  <2> QED
    BY <2>1, <2>2, <2>3, FS_Subset
<1>8. ASSUME NEW f \in W
      PROVE  /\ Lose(f) \in File /\ Lose(f).name = f.name /\ Lose(f).app = f.app
             /\ Lose(f).temp = f.temp /\ f \in dir /\ f.temp # None
  <2>1. f \in File /\ f \in dir /\ f.temp # None
    BY DEF Inv, Typed, Placed
  <2> QED
    BY <2>1 DEF File
<1>9. IsFiniteSet(E)
  <2>1. D \in Surjection(W, E)
    BY DEF Surjection
  <2>2. IsFiniteSet(W)
    <3>1. W \in SUBSET dir
      OBVIOUS
    <3> QED
      BY <3>1, FS_Subset DEF Inv, Typed
  <2> HIDE DEF D, W, E
  <2> QED
    BY <2>1, <2>2, FS_Surjection
<1>10. \A g \in E : \E f \in W : g = Lose(f)
  OBVIOUS
<1> HIDE DEF Lose, E, W
<1>11. ASSUME NEW g \in E
       PROVE  /\ g \in File /\ g.temp # None
              /\ \E f \in dir : f \in W /\ g = Lose(f) /\ g.name = f.name /\ g.app = f.app /\ g.temp = f.temp
  <2>1. PICK f \in W : g = Lose(f)
    BY <1>10
  <2> QED
    BY <1>8, <2>1
<1>12. dir' \in SUBSET File /\ IsFiniteSet(dir')
  <2>1. IsFiniteSet(kept \cup E)
    BY <1>7, <1>9, FS_Union
  <2> QED
    BY <1>3, <1>7, <1>11, <2>1
<1>13. ASSUME NEW g \in E
       PROVE  g.app = AppOf[g.temp] /\ g.temp \in Procs /\ \E i \in 1..(nextID - 1) : g.name = <<g.temp, i>>
  <2>1. PICK f \in dir : g.name = f.name /\ g.app = f.app /\ g.temp = f.temp
    BY <1>11
  <2>2. g.temp # None /\ g \in File
    BY <1>11
  <2>3. g.temp \in Procs
    BY <2>2 DEF File
  <2> QED
    BY <2>1, <2>2, <2>3 DEF Inv, TempsNamed
<1>14. TempsNamed'
  BY <1>2, <1>3, <1>6, <1>13 DEF TempsNamed
<1>15. NamesUnique'
  <2> SUFFICES ASSUME NEW f \in kept \cup E, NEW g \in kept \cup E, f.name = g.name PROVE f = g
    BY <1>3 DEF NamesUnique
  <2>1. CASE f \in kept /\ g \in kept
    BY <1>6, <2>1, PlacedUnique
  <2>2. CASE f \in E /\ g \in E
    <3>1. PICK x \in dir : f = Lose(x) /\ f.name = x.name
      BY <1>11, <2>2
    <3>2. PICK y \in dir : g = Lose(y) /\ g.name = y.name
      BY <1>11, <2>2
    <3>3. x = y
      BY <3>1, <3>2 DEF Inv, NamesUnique
    <3> QED
      BY <3>1, <3>2, <3>3
  <2>3. CASE f \in kept /\ g \in E
    BY <1>6, <1>13, <2>3, CopyNoTemp
  <2>4. CASE f \in E /\ g \in kept
    BY <1>6, <1>13, <2>4, CopyNoTemp
  <2> QED
    BY <2>1, <2>2, <2>3, <2>4
<1>16. Known'
  BY <1>2, <1>3, <1>6, <1>11 DEF Known, Hand
<1>17. \A f \in Placed(dir) \ kept : f \in stored /\ f \notin E
  <2> SUFFICES ASSUME NEW f \in Placed(dir) \ kept PROVE f \in stored /\ f \notin E
    OBVIOUS
  <2>1. f \in stored \cup Hand /\ f.temp = None
    BY <1>5
  <2>2. f \notin E
    BY <1>11, <2>1
  <2>3. f \in dir /\ f \notin disk
    BY DEF Placed, kept
  <2> QED
    BY <2>1, <2>2, <2>3 DEF Inv, OnDisk
<1>18. lost' \subseteq stored /\ disk' \in SUBSET File /\ IsFiniteSet(disk')
  BY <1>3, <1>7, <1>17 DEF Inv, Typed
<1>19. OnDisk'
  <2>1. \A f \in lost : f \in stored /\ f \notin dir /\ f \notin disk /\ f.temp = None
    BY DEF Inv, Typed, OnDisk, InPlace
  <2>2. \A f \in lost : f \notin kept /\ f \notin E
    BY <1>4, <1>11, <2>1 DEF Placed
  <2>3. \A f \in dir' : f \in Hand => f \in disk'
    BY <1>3, <1>11, HandFiles
  <2>4. \A f \in lost' : f \notin dir' /\ f \notin disk'
    BY <1>3, <1>17, <2>2
  <2>5. \A f \in disk' : f.temp = None /\ f \in stored \cup Hand
    BY <1>3, <1>6
  <2> QED
    BY <1>2, <2>3, <2>4, <2>5 DEF OnDisk, Hand
<1>20. Retained'
  <2> SUFFICES ASSUME NEW f \in stored, f \notin lost', f \notin dir'
               PROVE  \E k \in Keeps \ {0} : Cardinality(Fresher(stored, f)) >= k
    BY <1>2 DEF Retained, Fresher
  <2>1. f \notin lost /\ f \notin Placed(dir)
    BY <1>3
  <2>2. f \notin dir
    BY <2>1 DEF Placed, Inv, InPlace
  <2> QED
    BY <2>1, <2>2 DEF Inv, Retained
<1> DEFINE R == Procs
<1>21. call' = [q \in Procs |-> IF q \in R THEN NoCall ELSE call[q]] /\ R \in SUBSET Procs /\ ~(R # Procs)
  BY <1>2
<1> HIDE DEF R
<1> QED
  BY <1>2, <1>12, <1>14, <1>15, <1>16, <1>18, <1>19, <1>20, <1>21, CallsReset

\* WriteBack brings the disk up to date.
LEMMA StepWriteBack ==
  ASSUME Inv, WriteBack
  PROVE  Inv'
<1>1. disk' = Placed(dir) /\ UNCHANGED <<now, dir, call, stored, lost, nextID>>
  BY DEF WriteBack
<1>2. Typed'
  <2>1. Placed(dir) \in SUBSET dir
    BY DEF Placed
  <2>2. IsFiniteSet(Placed(dir)) /\ Placed(dir) \in SUBSET File
    BY <2>1, FS_Subset DEF Inv, Typed
  <2> QED
    BY <1>1, <2>2 DEF Inv, Typed
<1>3. NamesUnique' /\ TempsNamed'
  BY <1>1 DEF Inv, NamesUnique, TempsNamed
<1>4. Known' /\ OnDisk'
  BY <1>1 DEF Inv, Known, OnDisk, Placed, Hand
<1>5. InPlace' /\ Writing'
  BY <1>1 DEF Inv, InPlace, Writing, IDOf
<1>6. Doomed' /\ Retained'
  BY <1>1 DEF Inv, Doomed, Retained, Fresher
<1> QED
  BY <1>2, <1>3, <1>4, <1>5, <1>6 DEF Inv

\* Nothing in the directory has the name a call renames to: its ID is its own.
LEMMA NameIsFree ==
  ASSUME Inv, NEW p \in Procs, call[p].pc \in Early, NEW f,
         f \in dir \/ f \in stored
  PROVE  f.name # FinalName(AppOf[p], call[p].id)
<1> SUFFICES ASSUME f.name = FinalName(AppOf[p], call[p].id) PROVE FALSE
  OBVIOUS
<1>1. AppOf[p] \in Seq(Byte) /\ nextID \in 1..(MaxID + 1) /\ MaxID \in Nat
  BY LocalAssumption DEF Inv, Typed
<1>2. call[p].id \in Nat
  BY <1>1 DEF Inv, Writing
<1>3. CASE f \in stored
  <2>1. PICK q \in Procs : f.app = AppOf[q]
    BY <1>3 DEF Inv, InPlace, Apps
  <2>2. f.name = FinalName(AppOf[q], IDOf(f)) /\ IDOf(f) \in 1..(nextID - 1) /\ call[p].id # IDOf(f)
    BY <1>3, <2>1 DEF Inv, InPlace
  <2>3. AppOf[q] \in Seq(Byte) /\ IDOf(f) \in Nat
    BY <1>1, <2>2, LocalAssumption
  <2> QED
    <3> DEFINE i == call[p].id
               j == IDOf(f)
               x == AppOf[p]
               y == AppOf[q]
    <3>1. /\ x \in Seq(Byte) /\ y \in Seq(Byte) /\ i \in Nat /\ j \in Nat
          /\ i # j /\ FinalName(x, i) = FinalName(y, j)
      BY <1>1, <1>2, <2>2, <2>3
    <3> HIDE DEF i, j, x, y
    <3> QED
      BY <3>1, FinalNameInjective
<1>4. CASE f \in dir /\ f.temp # None
  <2>1. f \in File
    BY <1>4 DEF Inv, Typed
  <2>2. f.temp \in Procs
    BY <1>4, <2>1 DEF File
  <2>3. PICK i \in 1..(nextID - 1) : f.name = <<f.temp, i>>
    BY <1>4 DEF Inv, TempsNamed
  <2> QED
    BY <1>2, <2>2, <2>3, TempNoCopy
<1>5. CASE f \in dir /\ f.temp = None /\ f \notin stored
  <2>1. f.name \in ByHand
    BY <1>5, HandFiles DEF Inv, Known
  <2>2. IsPrefix(LocalPrefix(AppOf[p]), f.name)
    BY <1>1, <1>2, OwnPrefix
  <2> QED
    BY <2>1, <2>2, LocalAssumption
<1> QED
  BY <1>3, <1>4, <1>5

\* A call of p moves on past its writing: the invariant for the others' calls.
LEMMA OthersWriting ==
  ASSUME Inv, NEW p \in Procs, call'[p].pc \notin Early, nextID' = nextID,
         \A q \in Procs : q # p => call'[q] = call[q],
         \A f \in dir' : f.temp # None => f \in dir,
         \A f \in dir' : f.temp = None => \A q \in Procs, i \in 1..MaxID : f.name # <<q, i>>
  PROVE  Writing'
<1> SUFFICES ASSUME NEW q \in Procs, call'[q].pc \in Early
             PROVE  /\ call'[q].id \in 1..(nextID - 1)
                    /\ \A r \in Procs : r # q /\ call'[r].pc \in Early => call'[r].id # call'[q].id
                    /\ call'[q].pc = "create" => \A f \in dir' : f.name # <<q, call'[q].id>>
                    /\ call'[q].pc = "rename" =>
                         \A f \in dir' : f.name = <<q, call'[q].id>> => f.state = "synced"
  BY DEF Writing
<1>1. q # p /\ call'[q] = call[q] /\ call[q].pc \in Early
  OBVIOUS
<1>2. call[q].id \in 1..(nextID - 1) /\ nextID \in 1..(MaxID + 1)
  BY <1>1 DEF Inv, Writing, Typed
<1>3. call[q].id \in 1..MaxID
  BY <1>2, LocalAssumption
<1>4. \A f \in dir' : f.name = <<q, call[q].id>> => f \in dir
  BY <1>3
<1>5. \A r \in Procs : r # q /\ call'[r].pc \in Early => call'[r].id # call[q].id
  BY <1>1 DEF Inv, Writing
<1> QED
  BY <1>1, <1>2, <1>4, <1>5 DEF Inv, Writing

\* No copy in place and nothing put there by hand has a temporary file's name.
LEMMA PlacedNoTemp ==
  ASSUME Inv, NEW f \in dir, f.temp = None, NEW q \in Procs, NEW i \in 1..MaxID
  PROVE  f.name # <<q, i>>
BY TempNamed, LocalAssumption

\* Rename puts the synced file in place under a name of its own.
LEMMA StepRename ==
  ASSUME Inv, NEW p \in Procs, Rename(p)
  PROVE  Inv'
<1>0. call[p].pc = "rename" /\ call[p].pc \in Early /\ UNCHANGED <<now, lost, disk, nextID>>
  BY DEF Rename, Early
<1>1. CASE Temps(p) = {}
  <2>1. call' = [call EXCEPT ![p].pc = "failed"] /\ UNCHANGED <<now, dir, stored, lost, disk, nextID>>
    BY <1>1 DEF Rename, Fails, Goto
  <2>2. now' \in 0..MaxClock /\ dir' \in SUBSET File /\ IsFiniteSet(dir')
    BY <2>1 DEF Inv, Typed
  <2>3. NamesUnique'
    BY <2>1 DEF Inv, NamesUnique
  <2>4. "failed" \in PCs \ {"create", "list", "prune"} /\ "failed" \notin Early
    BY DEF PCs, Early
  <2> QED
    BY <2>1, <2>2, <2>3, <2>4, CallerMoves
<1>2. CASE Temps(p) # {}
  <2>1. PICK t \in dir : /\ Temps(p) = {t} /\ t.temp = p /\ t.app = AppOf[p]
                         /\ t.name = <<p, call[p].id>>
    BY <1>2, OneTemp
  <2> DEFINE id == call[p].id
             name == FinalName(AppOf[p], id)
             g == [t EXCEPT !.name = name, !.temp = None]
  <2>2. /\ dir' = {x \in dir : x # t /\ x.name # g.name} \cup {g}
        /\ stored' = stored \cup {g} /\ call' = [call EXCEPT ![p].pc = "list"]
    <3>1. (CHOOSE x \in Temps(p) : TRUE) = t
      BY <2>1
    <3> QED
      BY <1>2, <3>1 DEF Rename, Goto
  <2>3. t \in File /\ AppOf[p] \in Seq(Byte) /\ id \in Nat /\ id \in 1..(nextID - 1)
    BY <1>0, LocalAssumption DEF Inv, Typed, Writing, Call
  <2>4. name \in Seq(Nat \cup Procs)
    <3>1. name \in Seq(Nat)
      BY <2>3, FinalNameShape
    <3> HIDE DEF name
    <3> QED
      BY <3>1, WiderSeq
  <2>5. name[Len(name)] = id
    BY <2>3, FinalNameShape
  <2>6. t.state = "synced"
    BY <1>0, <2>1 DEF Inv, Writing
  <2> HIDE DEF name
  <2>7. /\ g \in File /\ g.name = name /\ g.temp = None /\ g.app = AppOf[p]
        /\ g.state = "synced"
    BY <2>1, <2>3, <2>4, <2>6 DEF File
  <2>8. IDOf(g) = id /\ g.name = FinalName(g.app, id) /\ g.app \in Apps
    BY <2>5, <2>7 DEF IDOf, Apps, name
  <2> HIDE DEF g
  <2>9. \A f : f \in dir \/ f \in stored => f.name # g.name
    BY <1>0, <2>7, NameIsFree DEF name
  <2>10. dir' = (dir \ {t}) \cup {g}
    BY <2>2, <2>9
  <2>11. t.temp # None
    BY <2>1, LocalAssumption
  <2>12. /\ call'[p].pc = "list" /\ call'[p].keep = call[p].keep /\ call'[p].prune = call[p].prune
         /\ call' \in [Procs -> Call] /\ \A q \in Procs : q # p => call'[q] = call[q]
    <3>1. call \in [Procs -> Call]
      BY DEF Inv, Typed
    <3>2. "list" \in PCs
      BY DEF PCs
    <3> QED
      BY <2>2, <3>1, <3>2 DEF Call
  <2>13. call'[p].pc \notin Early
    BY <2>12 DEF Early
  <2>14. IsFiniteSet(stored') /\ stored \subseteq stored'
    BY <2>2, FS_AddElement DEF Inv, Typed
  <2>15. Typed'
    <3>1. IsFiniteSet(dir')
      <4>1. IsFiniteSet(dir \ {t})
        BY FS_RemoveElement DEF Inv, Typed
      <4> QED
        BY <2>10, <4>1, FS_AddElement
    <3> QED
      BY <1>0, <2>2, <2>7, <2>10, <2>12, <2>14, <3>1 DEF Inv, Typed
  <2>16. NamesUnique'
    BY <2>9, <2>10 DEF Inv, NamesUnique
  <2>17. TempsNamed'
    BY <1>0, <2>7, <2>10 DEF Inv, TempsNamed
  <2>18. InPlace'
    <3>1. \A q \in Procs : call'[q].pc \in Early =>
             q # p /\ call'[q] = call[q] /\ call[q].pc \in Early /\ call[q].id # id
      BY <1>0, <2>12, <2>13 DEF Inv, Writing
    <3>2. ASSUME NEW f \in stored'
          PROVE  /\ f.temp = None /\ f.state = "synced" /\ f.app \in Apps
                 /\ IDOf(f) \in 1..(nextID - 1) /\ f.name = FinalName(f.app, IDOf(f))
                 /\ \A q \in Procs : call'[q].pc \in Early => call'[q].id # IDOf(f)
      <4>1. CASE f = g
        BY <2>3, <2>7, <2>8, <3>1, <4>1
      <4>2. CASE f \in stored
        BY <3>1, <4>2 DEF Inv, InPlace
      <4> QED
        BY <2>2, <4>1, <4>2
    <3>3. \A f, h \in stored' : f.name = h.name => f = h
      BY <2>2, <2>9 DEF Inv, InPlace
    <3> QED
      BY <1>0, <3>2, <3>3 DEF InPlace, IDOf
  <2>19. Known' /\ OnDisk'
    <3>1. Known'
      BY <2>2, <2>10 DEF Inv, Known, Hand
    <3>2. g \notin lost /\ lost \subseteq stored
      BY <2>9 DEF Inv, Typed
    <3>3. g \notin Hand
      <4>1. IsPrefix(LocalPrefix(AppOf[p]), name)
        BY <2>3, OwnPrefix DEF name
      <4> QED
        BY <2>7, <4>1, HandFiles, LocalAssumption
    <3>4. lost' = lost /\ disk' = disk
      BY <1>0
    <3>5. Hand' = Hand
      BY DEF Hand
    <3>6. /\ \A f \in dir' : f \in Hand => f \in disk
          /\ \A f \in disk : f.temp = None /\ f \in stored' \cup Hand
          /\ \A f \in lost : f \notin dir' /\ f \notin disk
      BY <2>2, <2>10, <3>2, <3>3 DEF Inv, OnDisk
    <3> QED
      BY <3>1, <3>4, <3>5, <3>6 DEF OnDisk
  <2>20. Writing'
    <3>1. \A f \in dir' : f.temp # None => f \in dir
      BY <2>7, <2>10
    <3>2. ASSUME NEW f \in dir', f.temp = None, NEW q \in Procs, NEW i \in 1..MaxID
          PROVE  f.name # <<q, i>>
      <4>1. CASE f = g
        BY <2>3, <2>7, <4>1, TempNoCopy DEF name
      <4>2. CASE f \in dir
        BY <3>2, <4>2, PlacedNoTemp
      <4> QED
        BY <2>10, <4>1, <4>2
    <3> QED
      BY <1>0, <2>12, <2>13, <3>1, <3>2, OthersWriting
  <2>21. Doomed'
    <3> SUFFICES ASSUME NEW q \in Procs
                 PROVE  /\ call'[q].pc \in Early \cup {"list", "prune"} => call'[q].keep \in Keeps \ {0}
                        /\ call'[q].prune # <<>> => call'[q].pc \in {"prune", "failed"}
                        /\ \A i \in DOMAIN call'[q].prune :
                             /\ call'[q].prune[i] \in stored' /\ call'[q].prune[i].app = AppOf[q]
                             /\ call'[q].pc = "prune" =>
                                  Cardinality(Fresher(stored', call'[q].prune[i])) >= call'[q].keep
      BY DEF Doomed, Fresher
    <3>1. CASE q = p
      <4>1. call[q].prune = <<>>
        BY <1>0, <3>1, NothingDoomed
      <4>2. call'[q].prune = <<>> /\ DOMAIN call'[q].prune = {} /\ call'[q].keep \in Keeps \ {0}
        BY <1>0, <2>12, <3>1, <4>1 DEF Inv, Doomed
      <4> QED
        BY <2>12, <3>1, <4>2
    <3>2. CASE q # p
      <4>1. call'[q] = call[q] /\ call[q].keep \in Nat
        BY <2>12, <3>2 DEF Inv, Typed, Call
      <4>2. ASSUME NEW i \in DOMAIN call[q].prune, call[q].pc = "prune"
            PROVE  Cardinality(Fresher(stored', call[q].prune[i])) >= call[q].keep
        <5>1. Cardinality(Fresher(stored, call[q].prune[i])) >= call[q].keep
          BY <4>2 DEF Inv, Doomed
        <5> QED
          BY <2>14, <4>1, <5>1, FresherGrows
      <4> QED
        BY <2>14, <4>1, <4>2 DEF Inv, Doomed
    <3> QED
      BY <3>1, <3>2
  <2>22. Retained'
    <3> SUFFICES ASSUME NEW f \in stored' \ lost
                 PROVE  f \in dir' \/ \E k \in Keeps \ {0} : Cardinality(Fresher(stored', f)) >= k
      BY <1>0 DEF Retained, Fresher
    <3>1. CASE f = g
      BY <2>10, <3>1
    <3>2. CASE f \in stored /\ f \in dir
      BY <2>10, <2>11, <3>2 DEF Inv, InPlace
    <3>3. CASE f \in stored /\ f \notin dir
      <4>1. PICK k \in Keeps \ {0} : Cardinality(Fresher(stored, f)) >= k
        BY <3>3 DEF Inv, Retained
      <4>2. k \in Nat
        BY LocalAssumption
      <4>3. Cardinality(Fresher(stored', f)) >= k
        BY <2>14, <4>1, <4>2, FresherGrows
      <4> QED
        BY <4>3
    <3> QED
      BY <2>2, <3>1, <3>2, <3>3
  <2> QED
    BY <2>15, <2>16, <2>17, <2>18, <2>19, <2>20, <2>21, <2>22 DEF Inv
<1> QED
  BY <1>1, <1>2

\* List picks what lies beyond keep and touches no file.
LEMMA StepList ==
  ASSUME Inv, NEW p \in Procs, List(p)
  PROVE  Inv'
<1>0. PICK s \in Orders(Listed(AppOf[p])) :
        call' = [call EXCEPT ![p].pc = "prune", ![p].prune = SubSeq(s, call[p].keep + 1, Len(s))]
  BY DEF List
<1> DEFINE d == SubSeq(s, call[p].keep + 1, Len(s))
<1>1. /\ call[p].pc = "list" /\ UNCHANGED <<now, dir, stored, lost, disk, nextID>>
      /\ call' = [call EXCEPT ![p].pc = "prune", ![p].prune = d]
  BY <1>0 DEF List
<1>2. call[p].keep \in Nat /\ call \in [Procs -> Call]
  BY DEF Inv, Typed, Call
<1>3. /\ d \in Seq(File)
      /\ \A i \in DOMAIN d : /\ d[i] \in stored /\ d[i].app = AppOf[p]
                              /\ Cardinality(Fresher(stored, d[i])) >= call[p].keep
  BY <1>2, BeyondKeep
<1> HIDE DEF d
<1>4. /\ call'[p].pc = "prune" /\ call'[p].keep = call[p].keep /\ call'[p].prune = d
      /\ call' \in [Procs -> Call] /\ \A q \in Procs : q # p => call'[q] = call[q]
  BY <1>1, <1>2, <1>3 DEF Call, PCs
<1>5. call'[p].pc \notin Early
  BY <1>4 DEF Early
<1>6. Typed' /\ NamesUnique' /\ TempsNamed'
  BY <1>1, <1>4 DEF Inv, Typed, NamesUnique, TempsNamed
<1>7. InPlace'
  BY <1>1, <1>4, <1>5 DEF Inv, InPlace, IDOf
<1>8. Known' /\ OnDisk' /\ Retained'
  BY <1>1, PlacedKept
<1>9. Writing'
  BY <1>1, <1>4, <1>5, PlacedNoTemp, OthersWriting
<1>10. Doomed'
  <2>0. stored' = stored
    BY <1>1
  <2> SUFFICES ASSUME NEW q \in Procs
               PROVE  /\ call'[q].pc \in Early \cup {"list", "prune"} => call'[q].keep \in Keeps \ {0}
                      /\ call'[q].prune # <<>> => call'[q].pc \in {"prune", "failed"}
                      /\ \A i \in DOMAIN call'[q].prune :
                           /\ call'[q].prune[i] \in stored /\ call'[q].prune[i].app = AppOf[q]
                           /\ call'[q].pc = "prune" =>
                                Cardinality(Fresher(stored, call'[q].prune[i])) >= call'[q].keep
    BY <2>0 DEF Doomed, Fresher
  <2>1. CASE q # p
    BY <1>4, <2>1 DEF Inv, Doomed
  <2>2. CASE q = p
    <3>1. call[p].keep \in Keeps \ {0}
      BY <1>1 DEF Inv, Doomed
    <3> QED
      BY <1>3, <1>4, <2>2, <3>1
  <2> QED
    BY <2>1, <2>2
<1> QED
  BY <1>6, <1>7, <1>8, <1>9, <1>10 DEF Inv

\* What a prune removes is a copy of the call's own app that has keep newer ones.
LEMMA Pruned ==
  ASSUME Inv, NEW p \in Procs, Prune(p), NEW f \in dir, f \notin dir'
  PROVE  /\ f \in stored /\ f.temp = None /\ f.app = AppOf[p]
         /\ call[p].keep \in Keeps \ {0}
         /\ Cardinality(Fresher(stored, f)) >= call[p].keep
<1> DEFINE h == call[p].prune[1]
<1>1. call[p].pc = "prune" /\ call[p].prune # <<>> /\ call[p].prune \in Seq(File)
  BY DEF Prune, Inv, Typed, Call
<1>2. Head(call[p].prune) = h /\ 1 \in DOMAIN call[p].prune
  BY <1>1
<1>3. f.name = h.name
  BY <1>2 DEF Prune
<1>4. /\ h \in stored /\ h.app = AppOf[p] /\ Cardinality(Fresher(stored, h)) >= call[p].keep
      /\ call[p].keep \in Keeps \ {0}
  BY <1>1, <1>2 DEF Inv, Doomed
<1> HIDE DEF h
<1>5. h.temp = None /\ h.name = FinalName(AppOf[p], IDOf(h)) /\ IDOf(h) \in Nat
  <2>1. h.name = FinalName(h.app, IDOf(h)) /\ IDOf(h) \in 1..(nextID - 1) /\ h.temp = None
    BY <1>4 DEF Inv, InPlace
  <2>2. nextID \in 1..(MaxID + 1) /\ MaxID \in Nat
    BY LocalAssumption DEF Inv, Typed
  <2>3. IDOf(h) \in Nat
    BY <2>1, <2>2
  <2> QED
    BY <1>4, <2>1, <2>3
<1>6. AppOf[p] \in Seq(Byte)
  BY LocalAssumption
<1>7. f.temp = None
  <2> SUFFICES ASSUME f.temp # None PROVE FALSE
    OBVIOUS
  <2>1. f \in File
    BY DEF Inv, Typed
  <2>2. f.temp \in Procs
    BY <2>1 DEF File
  <2>3. PICK i \in 1..(nextID - 1) : f.name = <<f.temp, i>>
    BY DEF Inv, TempsNamed
  <2> QED
    BY <1>3, <1>5, <2>2, <2>3, TempNoCopy
<1>8. IsPrefix(LocalPrefix(AppOf[p]), f.name)
  BY <1>3, <1>5, <1>6, OwnPrefix
<1>9. f \in stored
  BY <1>7, <1>8, ListedOwn
<1>10. f = h
  BY <1>3, <1>4, <1>9 DEF Inv, InPlace
<1> QED
  BY <1>4, <1>7, <1>9, <1>10

\* Prune removes the first of what it has left to remove.
LEMMA StepPrune ==
  ASSUME Inv, NEW p \in Procs, Prune(p)
  PROVE  Inv'
<1> DEFINE d == call[p].prune
<1>1. /\ call[p].pc = "prune" /\ d # <<>> /\ UNCHANGED <<now, stored, lost, disk, nextID>>
      /\ dir' \in SUBSET dir /\ call' = [call EXCEPT ![p].prune = Tail(d)]
  BY DEF Prune
<1>2. call \in [Procs -> Call] /\ d \in Seq(File)
  BY DEF Inv, Typed, Call
<1>3. Tail(d) \in Seq(File) /\ \A i \in DOMAIN Tail(d) : i + 1 \in DOMAIN d /\ Tail(d)[i] = d[i + 1]
  <2> HIDE DEF d
  <2> QED
    BY <1>1, <1>2
<1>4. /\ call'[p].pc = "prune" /\ call'[p].keep = call[p].keep /\ call'[p].prune = Tail(d)
      /\ call' \in [Procs -> Call] /\ \A q \in Procs : q # p => call'[q] = call[q]
  <2> DEFINE u == Tail(d)
  <2>1. u \in Seq(File) /\ call' = [call EXCEPT ![p].prune = u]
    BY <1>1, <1>3
  <2>a. call[p].pc = "prune"
    BY <1>1
  <2> HIDE DEF u, d
  <2>2. /\ call'[p].pc = "prune" /\ call'[p].keep = call[p].keep /\ call'[p].prune = u
        /\ call' \in [Procs -> Call] /\ \A q \in Procs : q # p => call'[q] = call[q]
    BY <1>2, <2>a, <2>1 DEF Call
  <2> QED
    BY <2>2 DEF u
<1>5. call'[p].pc \notin Early
  BY <1>4 DEF Early
<1>6. Typed'
  <2>1. IsFiniteSet(dir')
    BY <1>1, FS_Subset DEF Inv, Typed
  <2> QED
    BY <1>1, <1>4, <2>1 DEF Inv, Typed
<1>7. NamesUnique' /\ TempsNamed' /\ Known' /\ OnDisk'
  BY <1>1 DEF Inv, NamesUnique, TempsNamed, Known, OnDisk, Hand
<1>8. InPlace'
  BY <1>1, <1>4, <1>5 DEF Inv, InPlace, IDOf
<1>9. Retained'
  <2>1. \A f \in stored \ lost : f \in dir /\ f \notin dir' =>
           \E k \in Keeps \ {0} : Cardinality(Fresher(stored, f)) >= k
    BY Pruned
  <2> QED
    BY <1>1, <2>1 DEF Inv, Retained, Fresher
<1>10. Writing'
  BY <1>1, <1>4, <1>5, PlacedNoTemp, OthersWriting
<1>11. Doomed'
  <2> SUFFICES ASSUME NEW q \in Procs
               PROVE  /\ call'[q].pc \in Early \cup {"list", "prune"} => call'[q].keep \in Keeps \ {0}
                      /\ call'[q].prune # <<>> => call'[q].pc \in {"prune", "failed"}
                      /\ \A i \in DOMAIN call'[q].prune :
                           /\ call'[q].prune[i] \in stored /\ call'[q].prune[i].app = AppOf[q]
                           /\ call'[q].pc = "prune" =>
                                Cardinality(Fresher(stored, call'[q].prune[i])) >= call'[q].keep
    BY <1>1 DEF Doomed, Fresher
  <2>1. CASE q # p
    BY <1>4, <2>1 DEF Inv, Doomed
  <2>2. CASE q = p
    <3>1. call[p].keep \in Keeps \ {0}
      BY <1>1 DEF Inv, Doomed
    <3>2. \A i \in DOMAIN d : /\ d[i] \in stored /\ d[i].app = AppOf[p]
                              /\ Cardinality(Fresher(stored, d[i])) >= call[p].keep
      BY <1>1 DEF Inv, Doomed
    <3> DEFINE u == Tail(d)
    <3>3. call'[q].pc = "prune" /\ call'[q].keep = call[p].keep /\ call'[q].prune = u
      BY <1>4, <2>2
    <3>4. \A i \in DOMAIN u : i + 1 \in DOMAIN d /\ u[i] = d[i + 1]
      BY <1>3
    <3> HIDE DEF d, u
    <3>5. \A i \in DOMAIN u : /\ u[i] \in stored /\ u[i].app = AppOf[q]
                              /\ Cardinality(Fresher(stored, u[i])) >= call[p].keep
      BY <2>2, <3>2, <3>4
    <3>6. call'[q].keep \in Keeps \ {0}
      BY <3>1, <3>3
    <3> QED
      BY <3>3, <3>5, <3>6
  <2> QED
    BY <2>1, <2>2
<1> QED
  BY <1>6, <1>7, <1>8, <1>9, <1>10, <1>11 DEF Inv

\* The clock moves, or nothing does.
LEMMA StepClock ==
  ASSUME Inv, UNCHANGED <<dir, call, stored, lost, disk, nextID>>, now' \in 0..MaxClock
  PROVE  Inv'
<1>1. Typed' /\ NamesUnique' /\ TempsNamed' /\ Known' /\ OnDisk'
  BY DEF Inv, Typed, NamesUnique, TempsNamed, Known, OnDisk, Hand
<1>2. InPlace' /\ Writing'
  BY DEF Inv, InPlace, Writing, IDOf
<1>3. Doomed' /\ Retained'
  BY DEF Inv, Doomed, Retained, Fresher
<1> QED
  BY <1>1, <1>2, <1>3 DEF Inv

\* Every step of a call, a crash, a power loss and a step of the clock keep the
\* directory and the calls sound (local.go:86-133).
LEMMA NextInv == Inv /\ [Next]_vars => Inv'
<1> SUFFICES ASSUME Inv, [Next]_vars PROVE Inv'
  OBVIOUS
<1>0. now \in 0..MaxClock /\ MaxClock \in Nat
  BY LocalAssumption DEF Inv, Typed
<1>1. ASSUME NEW p \in Procs,
             \/ \E k \in Keeps : Begin(p, k)
             \/ CreateTemp(p) \/ Write(p) \/ Sync(p) \/ WriteFails(p) \/ Rename(p)
             \/ List(p) \/ ListFails(p) \/ Prune(p) \/ PruneFails(p) \/ Return(p) \/ Crash(p)
      PROVE  Inv'
  BY <1>1, StepBegin, StepCreate, StepWrite, StepSync, StepWriteFails, StepRename, StepList,
     StepEnds, StepPrune, StepCrash
<1>2. CASE WriteBack \/ PowerLoss
  BY <1>2, StepWriteBack, StepPowerLoss
<1>3. CASE Tick \/ StepBack
  BY <1>0, <1>3, StepClock DEF Tick, StepBack
<1>4. CASE UNCHANGED vars
  BY <1>0, <1>4, StepClock DEF vars
<1> QED
  BY <1>1, <1>2, <1>3, <1>4 DEF Next

-----------------------------------------------------------------------------
(* The theorems                                                            *)

\* The directory and the calls are sound in every state that can be reached.
LEMMA Invariant == Spec => []Inv
BY InitInv, NextInv, PTL DEF Spec

\* WriteLocalCopy, by any number of processes of any apps, with whatever
\* retention counts, crashes, power losses and clock steps: what bears a copy's
\* name is whole, and of the copies an app ever put in place the newest are
\* there, as many as the smallest count in use, but for one that power loss took
\* back before its rename was on disk (local.go:13-15, 83-85).
THEOREM KeepsCopies == Spec => []CopiesKept
<1>1. Inv => CopiesKept
  <2> SUFFICES ASSUME Inv PROVE CopiesKept
    OBVIOUS
  <2>1. TypeOK
    <3>1. \A f \in dir : f.state \in {"part", "written", "synced"}
      BY DEF Inv, Typed, File
    <3>2. \A p \in Procs : \A i \in DOMAIN call[p].prune : call[p].prune[i].temp = None
      BY DEF Inv, Doomed, InPlace
    <3>3. lost \subseteq stored /\ lost \cap (dir \cup disk) = {}
      BY DEF Inv, Typed, OnDisk
    <3> QED
      BY <3>1, <3>2, <3>3 DEF TypeOK, Inv, Typed, NamesUnique, Doomed
  <2>2. NoTruncatedCopy
    BY <2>1, HandFiles DEF NoTruncatedCopy, Inv, Known, InPlace
  <2>3. NewestKept
    <3> SUFFICES ASSUME NEW f \in stored \ lost,
                        \A k \in Keeps \ {0} : Cardinality(Fresher(stored, f)) < k
                 PROVE  \E h \in dir : h.name = f.name
      BY DEF NewestKept, Fresher
    <3>1. Cardinality(Fresher(stored, f)) \in Nat
      <4>1. Fresher(stored, f) \in SUBSET stored
        BY DEF Fresher
      <4> QED
        BY <4>1, FS_Subset, FS_CardinalityType DEF Inv, Typed
    <3>2. \A k \in Keeps \ {0} : k \in Nat
      BY LocalAssumption
    <3>3. f \in dir
      BY <3>1, <3>2 DEF Inv, Retained
    <3> QED
      BY <3>3
  <2> QED
    BY <2>2, <2>3 DEF CopiesKept
<1> QED
  BY <1>1, Invariant, PTL

\* A prune removes copies of the app that prunes and nothing else: no other app's,
\* however alike their names, and nothing put there by hand (local.go:47-53); and
\* nothing else removes a copy but a loss of power before its rename is on disk.
THEOREM TouchesOwn == Spec => OthersUntouched
<1> DEFINE A == \A f \in dir \ lost' : f.temp = None /\ (\A g \in dir' : g.name # f.name) =>
                  \E p \in Procs : call[p].pc = "prune" /\ AppOf[p] = f.app
<1>1. Inv /\ [Next]_vars => [A]_vars
  <2> SUFFICES ASSUME Inv, Next,
                      NEW f \in dir \ lost', f.temp = None, \A g \in dir' : g.name # f.name
               PROVE  \E p \in Procs : call[p].pc = "prune" /\ AppOf[p] = f.app
    BY DEF vars
  <2>0. f \notin dir'
    OBVIOUS
  <2>1. ASSUME NEW p \in Procs, NEW k \in Keeps, Begin(p, k) PROVE FALSE
    BY <2>0, <2>1 DEF Begin, Swept
  <2>2. ASSUME NEW p \in Procs, CreateTemp(p) \/ List(p) \/ ListFails(p) \/ PruneFails(p)
                 \/ Return(p) \/ Crash(p) PROVE FALSE
    BY <2>0, <2>2 DEF CreateTemp, List, ListFails, PruneFails, Return, Crash
  <2>3. ASSUME NEW p \in Procs, Write(p) \/ Sync(p) \/ WriteFails(p) PROVE FALSE
    <3>1. f \notin Temps(p)
      BY LocalAssumption DEF Temps
    <3> QED
      BY <2>0, <2>3, <3>1 DEF Write, Sync, WriteFails
  <2>4. ASSUME NEW p \in Procs, Rename(p) PROVE FALSE
    <3>1. Temps(p) # {}
      BY <2>0, <2>4 DEF Rename
    <3>2. PICK t \in dir : Temps(p) = {t} /\ t.temp = p
      BY <3>1, OneTemp
    <3> DEFINE name == FinalName(AppOf[p], call[p].id)
               g == [t EXCEPT !.name = name, !.temp = None]
    <3>3. (CHOOSE x \in Temps(p) : TRUE) = t
      BY <3>2
    <3>4. dir' = {x \in dir : x # t /\ x.name # g.name} \cup {g} /\ call[p].pc = "rename"
      BY <2>4, <3>1, <3>3 DEF Rename
    <3>5. g.name = name
      <4>1. t \in File
        BY <3>2 DEF Inv, Typed
      <4> QED
        BY <4>1 DEF File
    <3> HIDE DEF g
    <3>6. f.name # g.name
      BY <3>4, <3>5, NameIsFree DEF Early
    <3>7. f # t
      BY <3>2, LocalAssumption
    <3> QED
      BY <2>0, <3>4, <3>6, <3>7
  <2>5. ASSUME NEW p \in Procs, Prune(p)
        PROVE  call[p].pc = "prune" /\ AppOf[p] = f.app
    <3>1. call[p].pc = "prune"
      BY <2>5 DEF Prune
    <3>2. f.app = AppOf[p]
      BY <2>0, <2>5, Pruned
    <3> QED
      BY <3>1, <3>2
  <2>6. ASSUME PowerLoss PROVE FALSE
    <3>1. f \in Placed(dir)
      BY DEF Placed
    <3>2. f \in dir'
      BY <2>6, <3>1 DEF PowerLoss
    <3> QED
      BY <2>0, <3>2
  <2>7. ~(WriteBack \/ Tick \/ StepBack)
    BY <2>0 DEF WriteBack, Tick, StepBack
  <2> QED
    BY <2>1, <2>2, <2>3, <2>4, <2>5, <2>6, <2>7 DEF Next
<1> QED
  BY <1>1, Invariant, PTL DEF Spec, OthersUntouched
=============================================================================

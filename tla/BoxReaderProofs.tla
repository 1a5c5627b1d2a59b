-------------------------- MODULE BoxReaderProofs ---------------------------
(***************************************************************************)
(* For every set of boxes and versions and every base of the digits: what  *)
(* the writers of boxes wrote is read back by try_read_box, and the cursor *)
(* is where it should be.                                                  *)
(***************************************************************************)
EXTENDS BoxReader, WellFoundedInduction, SequenceTheorems, TLAPS

-----------------------------------------------------------------------------
(* Numbers.                                                                 *)

(* A set of numbers has a least one.                                        *)
LEMMA LeastNumber ==
  ASSUME NEW I \in SUBSET Nat, I # {}
  PROVE  \E i \in I : \A j \in I : i <= j
<1> DEFINE Below == OpToRel(<, Nat)
<1>1. PICK i \in I : \A j \in I : ~ (<<j, i>> \in Below)
  BY NatLessThanWellFounded, WFMin
<1>2. ASSUME NEW j \in I PROVE i <= j
  <2>1. <<j, i>> \in Nat \X Nat /\ <<j, i>>[1] = j /\ <<j, i>>[2] = i
    OBVIOUS
  <2>2. ~ j < i
    BY <1>1, <2>1 DEF OpToRel
  <2>. QED  BY <2>2
<1>. QED  BY <1>2

(* Quotients and remainders of the base.                                    *)
Quo(n) == n \div Radix
Rem(n) == n % Radix

(* A number is made of its quotient and its remainder.                      *)
LEMMA Quotient ==
  ASSUME NEW n \in Nat
  PROVE  /\ Quo(n) \in Nat /\ Rem(n) \in 0 .. Radix - 1
         /\ n = Radix * Quo(n) + Rem(n)
         /\ n < Radix => Quo(n) = 0 /\ Rem(n) = n
         /\ n >= Radix => Quo(n) >= 1 /\ Quo(n) < n
         /\ 2 * Quo(n) <= n
<1>1. Radix \in Nat /\ Radix >= 2
  BY WireAssumption
<1>2. /\ n \div Radix \in Int /\ n % Radix \in 0 .. Radix - 1
      /\ n = Radix * (n \div Radix) + (n % Radix)
  BY <1>1
<1> DEFINE q == n \div Radix
           r == n % Radix
<1>3. q \in Int /\ r \in Int /\ 0 <= r /\ r < Radix /\ n = Radix * q + r
  BY <1>1, <1>2
<1> HIDE DEF q, r
<1>4. q >= 0
  <2>1. q < 0 => Radix * q <= 0 - Radix
    BY <1>1, <1>3
  <2>. QED  BY <1>1, <1>3, <2>1
<1>5. 2 * q <= Radix * q
  BY <1>1, <1>3, <1>4
<1>6. n < Radix => q = 0 /\ r = n
  <2>1. q >= 1 => Radix * q >= Radix
    BY <1>1, <1>3
  <2>2. q = 0 => Radix * q = 0
    BY <1>1, <1>3
  <2>. QED  BY <1>1, <1>3, <1>4, <2>1, <2>2
<1>7. n >= Radix => q >= 1 /\ q < n
  <2>1. q = 0 => Radix * q = 0
    BY <1>1, <1>3
  <2>. QED  BY <1>1, <1>3, <1>4, <1>5, <2>1
<1>8. 2 * q <= n
  BY <1>1, <1>3, <1>5
<1>. QED  BY <1>3, <1>1, <1>4, <1>6, <1>7, <1>8 DEF q, r, Quo, Rem

(* Remainders are numbers.                                                  *)
LEMMA Remainders == \A n \in Nat : Rem(n) \in Nat
<1>1. ASSUME NEW n \in Nat PROVE Rem(n) \in Nat
  BY Quotient, WireAssumption
<1>. QED  BY <1>1

(* A quotient grows with what is divided.                                   *)
LEMMA QuotientMonotone ==
  ASSUME NEW n \in Nat, NEW m \in Nat, n <= m
  PROVE  Quo(n) <= Quo(m)
<1>1. Radix \in Nat /\ Radix >= 2
  BY WireAssumption
<1> DEFINE q == Quo(n)
           s == Quo(m)
<1>2. /\ q \in Nat /\ s \in Nat
      /\ Rem(n) \in 0 .. Radix - 1 /\ n = Radix * q + Rem(n)
      /\ Rem(m) \in 0 .. Radix - 1 /\ m = Radix * s + Rem(m)
  BY Quotient
<1> HIDE DEF q, s
<1>3. Radix * q < Radix * s + Radix
  BY <1>1, <1>2
<1>4. s + 1 <= q => Radix * (s + 1) <= Radix * q
  BY <1>1, <1>2
<1>5. Radix * (s + 1) = Radix * s + Radix
  BY <1>1, <1>2
<1>. QED  BY <1>1, <1>2, <1>3, <1>4, <1>5 DEF q, s

-----------------------------------------------------------------------------
(* Recursive functions on numbers.                                          *)

(* Two functions agree below k.                                             *)
Agree(D, f, g, k) == \A m \in D : m < k => f[m] = g[m]

(* The value G gives at n depends on the function below n only.              *)
Founded(D, S, G) ==
  /\ D \subseteq Nat /\ G \in [D \X [D -> S] -> S]
  /\ \A n \in D : \A f, g \in [D -> S] : Agree(D, f, g, n) => G[<<n, f>>] = G[<<n, g>>]

SolvedBelow(D, S, G, f, k) == f \in [D -> S] /\ \A n \in D : n < k => f[n] = G[<<n, f>>]

Solution(D, S, G, f) == f \in [D -> S] /\ \A n \in D : f[n] = G[<<n, f>>]

(* Solutions agree as far as both go.                                       *)
LEMMA SolutionsAgree ==
  ASSUME NEW D, NEW S, NEW G, Founded(D, S, G), NEW k \in Nat,
         NEW f, SolvedBelow(D, S, G, f, k), NEW g, SolvedBelow(D, S, G, g, k)
  PROVE  Agree(D, f, g, k)
<1> DEFINE B == {n \in D : n < k /\ f[n] # g[n]}
<1>1. B = {}
  <2>1. SUFFICES ASSUME B # {} PROVE FALSE
    OBVIOUS
  <2>2. B \in SUBSET Nat
    BY DEF Founded
  <2>3. PICK n \in B : \A m \in B : n <= m
    BY <2>1, <2>2, LeastNumber
  <2>4. n \in Nat /\ n \in D /\ n < k /\ f[n] # g[n]
    BY <2>2
  <2>5. ASSUME NEW m \in D, m < n PROVE f[m] = g[m]
    <3>1. m \in Nat
      BY DEF Founded
    <3>. QED  BY <2>3, <2>4, <2>5, <3>1
  <2>6. Agree(D, f, g, n)
    BY <2>5 DEF Agree
  <2>7. G[<<n, f>>] = G[<<n, g>>]
    BY <2>4, <2>6 DEF Founded, SolvedBelow
  <2>. QED  BY <2>4, <2>7 DEF SolvedBelow
<1>. QED  BY <1>1 DEF Agree

(* There is a solution below every number.                                  *)
LEMMA SolutionsExist ==
  ASSUME NEW D, NEW S, NEW G, Founded(D, S, G), NEW z \in S, NEW k \in Nat
  PROVE  \E f : SolvedBelow(D, S, G, f, k)
<1> DEFINE B == {j \in Nat : ~ \E f : SolvedBelow(D, S, G, f, j)}
<1>0. D \subseteq Nat
  BY DEF Founded
<1>1. B = {}
  <2>1. SUFFICES ASSUME B # {} PROVE FALSE
    OBVIOUS
  <2>2. PICK j \in B : \A m \in B : j <= m
    <3>1. B \in SUBSET Nat
      OBVIOUS
    <3> HIDE DEF B
    <3>. QED  BY <2>1, <3>1, LeastNumber
  <2>3. j # 0
    <3>1. SolvedBelow(D, S, G, [n \in D |-> z], 0)
      BY <1>0 DEF SolvedBelow
    <3>. QED  BY <2>2, <3>1
  <2>4. j - 1 \in Nat /\ j - 1 \notin B /\ j \in Nat
    BY <2>2, <2>3
  <2>5. PICK f : SolvedBelow(D, S, G, f, j - 1)
    BY <2>4
  <2> DEFINE g == [n \in D |-> IF n = j - 1 THEN G[<<n, f>>] ELSE f[n]]
  <2>6. \A n \in D : G[<<n, f>>] \in S
    BY <2>5 DEF Founded, SolvedBelow
  <2>7. g \in [D -> S] /\ \A n \in D : g[n] = IF n = j - 1 THEN G[<<n, f>>] ELSE f[n]
    BY <2>5, <2>6 DEF SolvedBelow
  <2> HIDE DEF g
  <2>8. ASSUME NEW n \in D, n < j PROVE g[n] = G[<<n, g>>]
    <3>1. Agree(D, f, g, n)
      <4>1. ASSUME NEW m \in D, m < n PROVE f[m] = g[m]
        <5>1. m \in Nat /\ n \in Nat
          BY <1>0
        <5>2. m # j - 1
          BY <2>4, <2>8, <4>1, <5>1
        <5>. QED  BY <2>7, <5>2
      <4>. QED  BY <4>1 DEF Agree
    <3>2. G[<<n, f>>] = G[<<n, g>>]
      BY <2>5, <2>7, <3>1 DEF Founded, SolvedBelow
    <3>. QED  BY <1>0, <2>4, <2>5, <2>7, <2>8, <3>2 DEF SolvedBelow
  <2>9. SolvedBelow(D, S, G, g, j)
    BY <2>7, <2>8 DEF SolvedBelow
  <2>. QED  BY <2>2, <2>9
<1>. QED  BY <1>1

(* What a recursive function on numbers computes exists.                    *)
LEMMA NumberRecursion ==
  ASSUME NEW D, NEW S, NEW G, Founded(D, S, G), NEW z \in S
  PROVE  \E f : Solution(D, S, G, f)
<1> DEFINE F(k) == CHOOSE f : SolvedBelow(D, S, G, f, k)
           h == [n \in D |-> F(n + 1)[n]]
<1>0. D \subseteq Nat
  BY DEF Founded
<1>1. ASSUME NEW k \in Nat PROVE SolvedBelow(D, S, G, F(k), k)
  BY SolutionsExist
<1>2. ASSUME NEW n \in D PROVE F(n + 1)[n] \in S
  <2>1. n + 1 \in Nat
    BY <1>0
  <2>2. SolvedBelow(D, S, G, F(n + 1), n + 1)
    BY <1>1, <2>1
  <2>. QED  BY <2>2 DEF SolvedBelow
<1>3. h \in [D -> S] /\ \A n \in D : h[n] = F(n + 1)[n]
  BY <1>2
<1> HIDE DEF h, F
<1>4. ASSUME NEW n \in D PROVE h[n] = G[<<n, h>>]
  <2>1. n \in Nat /\ n + 1 \in Nat
    BY <1>0
  <2>2. SolvedBelow(D, S, G, F(n + 1), n + 1)
    BY <1>1, <2>1
  <2>3. ASSUME NEW m \in D, m < n PROVE h[m] = F(n + 1)[m]
    <3>1. m \in Nat /\ m + 1 \in Nat /\ m + 1 <= n + 1 /\ m < m + 1
      BY <1>0, <2>1, <2>3
    <3>2. SolvedBelow(D, S, G, F(m + 1), m + 1)
      BY <1>1, <3>1
    <3>3. SolvedBelow(D, S, G, F(n + 1), m + 1)
      BY <1>0, <2>1, <2>2, <3>1 DEF SolvedBelow
    <3>4. Agree(D, F(m + 1), F(n + 1), m + 1)
      BY <3>1, <3>2, <3>3, SolutionsAgree
    <3>. QED  BY <1>3, <3>1, <3>4 DEF Agree
  <2>4. Agree(D, h, F(n + 1), n)
    BY <2>3 DEF Agree
  <2>5. G[<<n, h>>] = G[<<n, F(n + 1)>>]
    BY <1>3, <2>2, <2>4 DEF Founded, SolvedBelow
  <2>. QED  BY <1>3, <2>1, <2>2, <2>5 DEF SolvedBelow
<1>. QED  BY <1>3, <1>4 DEF Solution

-----------------------------------------------------------------------------
(* The digits of integers.                                                  *)

(* The digits of a number are its lowest one, marked, and those of the rest. *)
LEMMA DigitsOf ==
  /\ Digits \in [Nat -> Seq(Nat)]
  /\ \A n \in Nat : n < Radix => Digits[n] = <<n>>
  /\ \A n \in Nat : n >= Radix =>
       Digits[n] = <<Rem(n) + Radix>> \o Digits[Quo(n)]
<1> DEFINE G == [x \in Nat \X [Nat -> Seq(Nat)] |->
                   IF x[1] < Radix THEN <<x[1]>>
                   ELSE <<Rem(x[1]) + Radix>> \o x[2][Quo(x[1])]]
<1>1. \A n \in Nat : Quo(n) \in Nat /\ Rem(n) \in Nat
                      /\ (n >= Radix => Quo(n) < n)
  BY Quotient
<1>2. Radix \in Nat /\ \A n \in Nat : Rem(n) + Radix \in Nat
  <2>1. Radix \in Nat
    BY WireAssumption
  <2>2. ASSUME NEW n \in Nat PROVE Rem(n) + Radix \in Nat
    BY <1>1, <2>1
  <2>. QED  BY <2>1, <2>2
<1>3. \A n \in Nat : \A f \in [Nat -> Seq(Nat)] :
        /\ G[<<n, f>>] = IF n < Radix THEN <<n>>
                         ELSE <<Rem(n) + Radix>> \o f[Quo(n)]
        /\ G[<<n, f>>] \in Seq(Nat)
  <2>. SUFFICES ASSUME NEW n \in Nat, NEW f \in [Nat -> Seq(Nat)]
       PROVE  /\ G[<<n, f>>] = IF n < Radix THEN <<n>>
                               ELSE <<Rem(n) + Radix>> \o f[Quo(n)]
              /\ G[<<n, f>>] \in Seq(Nat)
    OBVIOUS
  <2>1. f[Quo(n)] \in Seq(Nat)
    BY <1>1
  <2>2. Rem(n) + Radix \in Nat
    BY <1>2
  <2>3. G[<<n, f>>] = IF n < Radix THEN <<n>>
                      ELSE <<Rem(n) + Radix>> \o f[Quo(n)]
    OBVIOUS
  <2> HIDE DEF G
  <2>4. G[<<n, f>>] \in Seq(Nat)
    <3>1. <<n>> \in Seq(Nat) /\ <<Rem(n) + Radix>> \in Seq(Nat)
      BY <2>2
    <3>2. <<Rem(n) + Radix>> \o f[Quo(n)] \in Seq(Nat)
      BY <2>1, <3>1
    <3>. QED  BY <2>3, <3>1, <3>2
  <2>. QED  BY <2>3, <2>4
<1>4. Founded(Nat, Seq(Nat), G)
  <2>1. G \in [Nat \X [Nat -> Seq(Nat)] -> Seq(Nat)]
    <3>1. \A x \in Nat \X [Nat -> Seq(Nat)] :
            x = <<x[1], x[2]>> /\ x[1] \in Nat /\ x[2] \in [Nat -> Seq(Nat)]
      OBVIOUS
    <3>2. \A x \in Nat \X [Nat -> Seq(Nat)] : G[x] \in Seq(Nat)
      BY <1>3, <3>1
    <3>3. DOMAIN G = Nat \X [Nat -> Seq(Nat)] /\ G = [x \in DOMAIN G |-> G[x]]
      OBVIOUS
    <3> HIDE DEF G
    <3>. QED  BY <3>2, <3>3
  <2> HIDE DEF G
  <2>2. ASSUME NEW n \in Nat, NEW f \in [Nat -> Seq(Nat)], NEW g \in [Nat -> Seq(Nat)],
               Agree(Nat, f, g, n)
        PROVE  G[<<n, f>>] = G[<<n, g>>]
    <3>1. n >= Radix => f[Quo(n)] = g[Quo(n)]
      BY <1>1, <2>2 DEF Agree
    <3>2. /\ G[<<n, f>>] = IF n < Radix THEN <<n>> ELSE <<Rem(n) + Radix>> \o f[Quo(n)]
          /\ G[<<n, g>>] = IF n < Radix THEN <<n>> ELSE <<Rem(n) + Radix>> \o g[Quo(n)]
      BY <1>3
    <3>3. n < Radix \/ n >= Radix
      BY <1>2
    <3>. QED  BY <3>1, <3>2, <3>3
  <2>. QED  BY <2>1, <2>2 DEF Founded
<1> HIDE DEF G
<1>5. PICK f : Solution(Nat, Seq(Nat), G, f)
  <2> DEFINE S == Seq(Nat)
  <2>1. <<>> \in S /\ Founded(Nat, S, G)
    BY <1>4
  <2> HIDE DEF S
  <2>2. \E f : Solution(Nat, S, G, f)
    BY <2>1, NumberRecursion
  <2>. QED  BY <2>2 DEF S
<1>6. f = [n \in Nat |-> IF n < Radix THEN <<n>>
                         ELSE <<Rem(n) + Radix>> \o f[Quo(n)]]
  <2>1. f \in [Nat -> Seq(Nat)] /\ \A n \in Nat : f[n] = G[<<n, f>>]
    BY <1>5 DEF Solution
  <2>2. \A n \in Nat : f[n] = IF n < Radix THEN <<n>> ELSE <<Rem(n) + Radix>> \o f[Quo(n)]
    BY <1>3, <2>1
  <2>. QED  BY <2>1, <2>2
<1>7. Digits = [n \in Nat |-> IF n < Radix THEN <<n>>
                              ELSE <<Rem(n) + Radix>> \o Digits[Quo(n)]]
  BY <1>6 DEF Digits, Quo, Rem
<1>8. /\ \A n \in Nat : n < Radix => Digits[n] = <<n>>
      /\ \A n \in Nat : n >= Radix =>
           Digits[n] = <<Rem(n) + Radix>> \o Digits[Quo(n)]
  <2>1. \A n \in Nat : Digits[n] = IF n < Radix THEN <<n>>
                                   ELSE <<Rem(n) + Radix>> \o Digits[Quo(n)]
    BY <1>7
  <2>2. \A n \in Nat : n >= Radix => ~ n < Radix
    BY <1>2
  <2>. QED  BY <2>1, <2>2
<1>9. \A n \in Nat : Digits[n] \in Seq(Nat)
  <2> DEFINE B == {n \in Nat : Digits[n] \notin Seq(Nat)}
  <2>1. SUFFICES ASSUME B # {} PROVE FALSE
    OBVIOUS
  <2>2. PICK n \in B : \A m \in B : n <= m
    <3>1. B \in SUBSET Nat
      OBVIOUS
    <3> HIDE DEF B
    <3>. QED  BY <2>1, <3>1, LeastNumber
  <2>3. n \in Nat /\ Digits[n] \notin Seq(Nat)
    BY <2>2
  <2>4. CASE n < Radix
    <3>1. Digits[n] = <<n>>
      BY <1>8, <2>3, <2>4
    <3>. QED  BY <2>3, <3>1
  <2>5. CASE n >= Radix
    <3>1. Quo(n) \in Nat /\ Quo(n) < n
      BY <1>1, <2>3, <2>5
    <3>2. Digits[Quo(n)] \in Seq(Nat)
      BY <2>2, <2>3, <3>1
    <3>3. Digits[n] = <<Rem(n) + Radix>> \o Digits[Quo(n)]
      BY <1>8, <2>3, <2>5
    <3>4. n \in Nat
      BY <2>3
    <3>5. Rem(n) + Radix \in Nat
      BY <1>2, <3>4
    <3>. QED  BY <2>3, <3>2, <3>3, <3>5
  <2>. QED  BY <1>2, <2>3, <2>4, <2>5
<1>. QED  BY <1>7, <1>8, <1>9

(* An integer has a digit, and one more than its quotient has; a larger integer
   has as many at least.                                                    *)
LEMMA IntLenOf ==
  /\ \A n \in Nat : IntLen(n) \in Nat /\ IntLen(n) >= 1
  /\ \A n \in Nat : n < Radix => IntLen(n) = 1
  /\ \A n \in Nat : n >= Radix => IntLen(n) = 1 + IntLen(Quo(n))
<1>1. ASSUME NEW n \in Nat
      PROVE  /\ IntLen(n) \in Nat /\ IntLen(n) >= 1
             /\ n < Radix => IntLen(n) = 1
             /\ n >= Radix => IntLen(n) = 1 + IntLen(Quo(n))
  <2>1. Radix \in Nat
    BY WireAssumption
  <2>2. CASE n < Radix
    <3>1. Digits[n] = <<n>>
      BY <2>2, DigitsOf
    <3>. QED  BY <2>1, <2>2, <3>1 DEF IntLen
  <2>3. CASE n >= Radix
    <3>1. Quo(n) \in Nat /\ Rem(n) + Radix \in Nat
      BY <2>1, Quotient
    <3>2. Digits[Quo(n)] \in Seq(Nat)
      BY <3>1, DigitsOf
    <3>3. Digits[n] = <<Rem(n) + Radix>> \o Digits[Quo(n)]
      BY <2>3, DigitsOf
    <3>. QED  BY <2>1, <2>3, <3>1, <3>2, <3>3 DEF IntLen
  <2>. QED  BY <2>1, <2>2, <2>3
<1>. QED  BY <1>1

(* A greater number has no fewer digits.                                    *)
LEMMA IntLenMonotone ==
  ASSUME NEW n \in Nat, NEW m \in Nat, n <= m
  PROVE  IntLen(n) <= IntLen(m)
<1> DEFINE B == {k \in Nat : \E j \in 0 .. k : IntLen(j) > IntLen(k)}
<1>0. Radix \in Nat
  BY WireAssumption
<1>1. B = {}
  <2>1. SUFFICES ASSUME B # {} PROVE FALSE
    OBVIOUS
  <2>2. PICK k \in B : \A i \in B : k <= i
    <3>1. B \in SUBSET Nat
      OBVIOUS
    <3> HIDE DEF B
    <3>. QED  BY <2>1, <3>1, LeastNumber
  <2>3. PICK j \in 0 .. k : IntLen(j) > IntLen(k)
    BY <2>2
  <2>4. k \in Nat /\ j \in Nat /\ j <= k
    BY <2>2, <2>3
  <2>5. IntLen(k) \in Nat /\ IntLen(k) >= 1 /\ IntLen(j) \in Nat
    BY <2>4, IntLenOf
  <2>6. j >= Radix
    <3>1. j < Radix => IntLen(j) = 1
      BY <2>4, IntLenOf
    <3>. QED  BY <1>0, <2>3, <2>4, <2>5, <3>1
  <2>7. k >= Radix
    BY <1>0, <2>4, <2>6
  <2>8. /\ Quo(j) \in Nat /\ Quo(k) \in Nat /\ Quo(k) < k
        /\ Quo(j) <= Quo(k)
    BY <2>4, <2>7, Quotient, QuotientMonotone
  <2>9. /\ IntLen(j) = 1 + IntLen(Quo(j)) /\ IntLen(k) = 1 + IntLen(Quo(k))
        /\ IntLen(Quo(j)) \in Nat /\ IntLen(Quo(k)) \in Nat
    BY <2>4, <2>6, <2>7, <2>8, IntLenOf
  <2>10. Quo(k) \in B
    BY <2>3, <2>8, <2>9
  <2>. QED  BY <2>2, <2>4, <2>8, <2>10
<1>2. n \in 0 .. m /\ m \notin B
  BY <1>1
<1>3. ~ IntLen(n) > IntLen(m)
  BY <1>2
<1>. QED  BY <1>3, IntLenOf

(* All digits but the last one are marked.                                  *)
LEMMA DigitsMarked ==
  ASSUME NEW n \in Nat
  PROVE  /\ Digits[n] \in Seq(Nat) /\ Len(Digits[n]) = IntLen(n)
         /\ \A i \in 1 .. IntLen(n) - 1 : Digits[n][i] >= Radix
         /\ Digits[n][IntLen(n)] < Radix
<1> DEFINE Marked(m) == /\ \A i \in 1 .. IntLen(m) - 1 : Digits[m][i] >= Radix
                        /\ Digits[m][IntLen(m)] < Radix
           B == {m \in Nat : ~ Marked(m)}
<1>0. Radix \in Nat /\ \A m \in Nat : Digits[m] \in Seq(Nat) /\ IntLen(m) = Len(Digits[m])
  BY WireAssumption, DigitsOf DEF IntLen
<1>1. B = {}
  <2>1. SUFFICES ASSUME B # {} PROVE FALSE
    OBVIOUS
  <2>2. PICK m \in B : \A k \in B : m <= k
    <3>1. B \in SUBSET Nat
      OBVIOUS
    <3> HIDE DEF B
    <3>. QED  BY <2>1, <3>1, LeastNumber
  <2>3. m \in Nat /\ ~ Marked(m)
    BY <2>2
  <2>4. CASE m < Radix
    <3>1. Digits[m] = <<m>> /\ IntLen(m) = 1
      BY <2>3, <2>4, DigitsOf, IntLenOf
    <3>. QED  BY <2>3, <2>4, <3>1
  <2>5. CASE m >= Radix
    <3> DEFINE q == Quo(m)
               r == Rem(m)
    <3>1. q \in Nat /\ q < m
      BY <2>3, <2>5, Quotient
    <3>2. r \in Nat
      BY <2>3, Quotient
    <3>3. Digits[m] = <<r + Radix>> \o Digits[q]
      BY <2>3, <2>5, DigitsOf
    <3>4. IntLen(m) = 1 + IntLen(q) /\ IntLen(q) \in Nat /\ IntLen(q) >= 1
      BY <2>3, <2>5, <3>1, IntLenOf
    <3>5. Digits[q] \in Seq(Nat) /\ IntLen(q) = Len(Digits[q])
      BY <1>0, <3>1
    <3>6. Marked(q)
      BY <2>2, <2>3, <3>1
    <3> HIDE DEF q, r
    <3>7. r + Radix \in Nat /\ r + Radix >= Radix
      BY <1>0, <3>2
    <3>8. Digits[m][1] = r + Radix /\ \A i \in 1 .. IntLen(q) : Digits[m][1 + i] = Digits[q][i]
      BY <3>3, <3>5, <3>7
    <3>9. ASSUME NEW i \in 1 .. IntLen(m) - 1 PROVE Digits[m][i] >= Radix
      <4>1. CASE i = 1
        BY <3>7, <3>8, <4>1
      <4>2. CASE i # 1
        <5>1. i - 1 \in 1 .. IntLen(q) - 1 /\ i - 1 \in 1 .. IntLen(q) /\ 1 + (i - 1) = i
          BY <3>4, <4>2
        <5>. QED  BY <3>6, <3>8, <5>1
      <4>. QED  BY <4>1, <4>2
    <3>10. Digits[m][IntLen(m)] < Radix
      <4>1. IntLen(q) \in 1 .. IntLen(q)
        BY <3>4
      <4>. QED  BY <3>4, <3>6, <3>8, <4>1
    <3>. QED  BY <2>3, <3>9, <3>10
  <2>. QED  BY <1>0, <2>3, <2>4, <2>5
<1>2. Marked(n)
  BY <1>1
<1>. QED  BY <1>0, <1>2

-----------------------------------------------------------------------------
(* Reading an integer.                                                      *)

(* The shares that make up what digits amount to.                           *)
Shares(q, r, f) ==
  /\ f \in [0 .. r -> Nat] /\ f[0] = 0
  /\ \A k \in 1 .. r : f[k] = (q[r - k + 1] % Radix) + Radix * f[k - 1]

(* The recursion of Amount: one digit, and Radix times the rest.            *)
LEMMA AmountShares ==
  ASSUME NEW q \in Seq(Nat), NEW r \in 0 .. Len(q)
  PROVE  \E f : Shares(q, r, f) /\ Amount(q, r) = f[r]
<1> DEFINE D == 0 .. r
           G == [x \in D \X [D -> Nat] |->
                   IF x[1] = 0 THEN 0 ELSE Rem(q[r - x[1] + 1]) + Radix * x[2][x[1] - 1]]
<1>1. Radix \in Nat /\ r \in Nat /\ D \subseteq Nat
  BY WireAssumption
<1>2. ASSUME NEW k \in D, NEW f \in [D -> Nat]
      PROVE  /\ G[<<k, f>>] = IF k = 0 THEN 0 ELSE Rem(q[r - k + 1]) + Radix * f[k - 1]
             /\ G[<<k, f>>] \in Nat
  <2>1. G[<<k, f>>] = IF k = 0 THEN 0 ELSE Rem(q[r - k + 1]) + Radix * f[k - 1]
    OBVIOUS
  <2> HIDE DEF G
  <2>2. CASE k = 0
    BY <2>1, <2>2
  <2>3. CASE k # 0
    <3>1. r - k + 1 \in 1 .. Len(q) /\ k - 1 \in D
      BY <1>1, <2>3
    <3>2. q[r - k + 1] \in Nat /\ f[k - 1] \in Nat
      BY <3>1
    <3>3. Rem(q[r - k + 1]) \in Nat
      BY <3>2, Remainders
    <3>4. Radix * f[k - 1] \in Nat
      BY <1>1, <3>2
    <3>. QED  BY <2>1, <2>3, <3>3, <3>4, SMTT(30)
  <2>. QED  BY <2>1, <2>2, <2>3
<1>3. Founded(D, Nat, G)
  <2>1. G \in [D \X [D -> Nat] -> Nat]
    <3>1. \A x \in D \X [D -> Nat] : x = <<x[1], x[2]>> /\ x[1] \in D /\ x[2] \in [D -> Nat]
      OBVIOUS
    <3>2. DOMAIN G = D \X [D -> Nat] /\ G = [x \in DOMAIN G |-> G[x]]
      OBVIOUS
    <3> HIDE DEF G, D
    <3>3. \A x \in D \X [D -> Nat] : G[x] \in Nat
      BY <1>2, <3>1
    <3>. QED  BY <3>2, <3>3
  <2> HIDE DEF G
  <2>2. ASSUME NEW k \in D, NEW f \in [D -> Nat], NEW g \in [D -> Nat], Agree(D, f, g, k)
        PROVE  G[<<k, f>>] = G[<<k, g>>]
    <3>1. k # 0 => k - 1 \in D /\ k - 1 < k
      BY <1>1
    <3>2. k # 0 => f[k - 1] = g[k - 1]
      BY <2>2, <3>1 DEF Agree
    <3>3. /\ G[<<k, f>>] = IF k = 0 THEN 0 ELSE Rem(q[r - k + 1]) + Radix * f[k - 1]
          /\ G[<<k, g>>] = IF k = 0 THEN 0 ELSE Rem(q[r - k + 1]) + Radix * g[k - 1]
      BY <1>2
    <3>. QED  BY <3>2, <3>3
  <2> HIDE DEF D
  <2>. QED  BY <1>1, <2>1, <2>2 DEF Founded
<1> HIDE DEF G
<1>4. PICK f : Solution(D, Nat, G, f)
  <2> HIDE DEF D
  <2>1. 0 \in Nat
    OBVIOUS
  <2>. QED  BY <1>3, <2>1, NumberRecursion
<1>5. f = [k \in D |-> IF k = 0 THEN 0 ELSE Rem(q[r - k + 1]) + Radix * f[k - 1]]
  <2>1. f \in [D -> Nat] /\ \A k \in D : f[k] = G[<<k, f>>]
    BY <1>4 DEF Solution
  <2>2. \A k \in D : f[k] = IF k = 0 THEN 0 ELSE Rem(q[r - k + 1]) + Radix * f[k - 1]
    BY <1>2, <2>1
  <2>. QED  BY <2>1, <2>2
<1> DEFINE Solves(h) ==
             h = [k \in D |-> IF k = 0 THEN 0 ELSE (q[r - k + 1] % Radix) + Radix * h[k - 1]]
           g == CHOOSE h : Solves(h)
<1>6. Solves(f)
  BY <1>5 DEF Rem
<1>7. Amount(q, r) = g[r]
  BY DEF Amount
<1>8. Solves(g)
  <2> HIDE DEF Solves
  <2>. QED  BY <1>6
<1> HIDE DEF g
<1>9. g = [k \in D |-> IF k = 0 THEN 0 ELSE Rem(q[r - k + 1]) + Radix * g[k - 1]]
  BY <1>8 DEF Rem
<1>10. Shares(q, r, g)
  <2>1. g[0] = 0 /\ \A k \in 1 .. r : g[k] = Rem(q[r - k + 1]) + Radix * g[k - 1]
    <3>1. 0 \in D /\ \A k \in 1 .. r : k \in D /\ k # 0
      BY <1>1
    <3> HIDE DEF D
    <3>. QED  BY <1>9, <3>1
  <2>2. ASSUME NEW k \in D, g[k] \notin Nat PROVE FALSE
    <3> DEFINE B == {j \in D : g[j] \notin Nat}
    <3>1. PICK j \in B : \A i \in B : j <= i
      <4>1. B \in SUBSET Nat /\ B # {}
        BY <1>1, <2>2
      <4> HIDE DEF B
      <4>. QED  BY <4>1, LeastNumber
    <3>2. j \in D /\ g[j] \notin Nat /\ j \in Nat
      BY <1>1, <3>1
    <3>3. j # 0
      BY <2>1, <3>2
    <3>4. j - 1 \in D /\ j \in 1 .. r /\ r - j + 1 \in 1 .. Len(q) /\ j - 1 < j
      BY <1>1, <3>2, <3>3
    <3>5. g[j - 1] \in Nat
      BY <3>1, <3>2, <3>4
    <3>6. Radix * g[j - 1] \in Nat
      BY <1>1, <3>5
    <3>7. q[r - j + 1] \in Nat
      BY <3>4
    <3>8. Rem(q[r - j + 1]) \in Nat
      BY <3>7, Remainders
    <3>9. g[j] = Rem(q[r - j + 1]) + Radix * g[j - 1]
      BY <2>1, <3>4
    <3>. QED  BY <3>2, <3>6, <3>8, <3>9
  <2>3. g \in [D -> Nat]
    <3>1. DOMAIN g = D /\ g = [k \in DOMAIN g |-> g[k]]
      BY <1>9
    <3> HIDE DEF D
    <3>. QED  BY <2>2, <3>1
  <2>. QED  BY <2>1, <2>3 DEF Shares, Rem
<1>. QED  BY <1>7, <1>10

(* What is read ends with the digits of n.                                  *)
EndsWith(q, r, n) ==
  IntLen(n) <= r /\ \A i \in 1 .. IntLen(n) : q[r - IntLen(n) + i] = Digits[n][i]

(* The share of the digits of a number is the number.                       *)
LEMMA ShareOf ==
  ASSUME NEW q, NEW r \in Nat, NEW f, Shares(q, r, f), NEW n \in Nat, EndsWith(q, r, n)
  PROVE  f[IntLen(n)] = n
<1> DEFINE B == {m \in Nat : EndsWith(q, r, m) /\ f[IntLen(m)] # m}
<1>0. Radix \in Nat /\ Radix >= 2
  BY WireAssumption
<1>1. B = {}
  <2>1. SUFFICES ASSUME B # {} PROVE FALSE
    OBVIOUS
  <2>2. PICK m \in B : \A k \in B : m <= k
    <3>1. B \in SUBSET Nat
      OBVIOUS
    <3> HIDE DEF B
    <3>. QED  BY <2>1, <3>1, LeastNumber
  <2>3. m \in Nat /\ EndsWith(q, r, m) /\ f[IntLen(m)] # m
    BY <2>2
  <2>4. IntLen(m) \in Nat /\ IntLen(m) >= 1 /\ IntLen(m) <= r
    BY <2>3, IntLenOf DEF EndsWith
  <2>5. /\ IntLen(m) \in 1 .. r
        /\ f[IntLen(m)] = (q[r - IntLen(m) + 1] % Radix) + Radix * f[IntLen(m) - 1]
        /\ q[r - IntLen(m) + 1] = Digits[m][1]
    BY <2>3, <2>4 DEF Shares, EndsWith
  <2>6. CASE m < Radix
    <3>1. Digits[m] = <<m>> /\ IntLen(m) = 1
      BY <2>3, <2>6, DigitsOf, IntLenOf
    <3>2. Digits[m][1] = m
      BY <3>1
    <3>3. m % Radix = m
      BY <2>3, <2>6, Quotient DEF Rem
    <3>4. f[1] = (m % Radix) + Radix * f[0]
      BY <2>5, <3>1, <3>2
    <3>5. f[0] = 0
      BY DEF Shares
    <3>. QED  BY <1>0, <2>3, <3>1, <3>3, <3>4, <3>5
  <2>7. CASE m >= Radix
    <3> DEFINE s == Quo(m)
               t == Rem(m)
    <3>1. s \in Nat /\ s < m /\ m = Radix * s + t
      BY <2>3, <2>7, Quotient
    <3>2. t \in Nat /\ t < Radix
      BY <1>0, <2>3, Quotient
    <3>3. Digits[m] = <<t + Radix>> \o Digits[s]
      BY <2>3, <2>7, DigitsOf
    <3>4. IntLen(m) = 1 + IntLen(s) /\ IntLen(s) \in Nat /\ IntLen(s) >= 1
      BY <2>3, <2>7, <3>1, IntLenOf
    <3>5. Digits[s] \in Seq(Nat) /\ Len(Digits[s]) = IntLen(s)
      BY <3>1, DigitsMarked
    <3> HIDE DEF s, t
    <3>6. Digits[m][1] = t + Radix /\ \A i \in 1 .. IntLen(s) : Digits[m][1 + i] = Digits[s][i]
      <4>1. t + Radix \in Nat
        BY <1>0, <3>2
      <4>. QED  BY <3>3, <3>5, <4>1
    <3>7. EndsWith(q, r, s)
      <4>1. ASSUME NEW i \in 1 .. IntLen(s) PROVE q[r - IntLen(s) + i] = Digits[s][i]
        <5>1. 1 + i \in 1 .. IntLen(m) /\ r - IntLen(m) + (1 + i) = r - IntLen(s) + i
          BY <2>4, <3>4
        <5>2. q[r - IntLen(m) + (1 + i)] = Digits[m][1 + i]
          BY <2>3, <5>1 DEF EndsWith
        <5>. QED  BY <3>6, <5>1, <5>2
      <4>2. IntLen(s) <= r
        BY <2>4, <3>4
      <4>. QED  BY <4>1, <4>2 DEF EndsWith
    <3>8. f[IntLen(s)] = s
      BY <2>2, <2>3, <3>1, <3>7
    <3>9. (t + Radix) % Radix = t
      BY <1>0, <3>2
    <3>10. IntLen(m) - 1 = IntLen(s)
      BY <3>4
    <3>11. f[IntLen(m)] = t + Radix * s
      BY <2>5, <3>6, <3>8, <3>9, <3>10
    <3>. QED  BY <1>0, <2>3, <3>1, <3>2, <3>11
  <2>. QED  BY <1>0, <2>3, <2>6, <2>7
<1>. QED  BY <1>1

(* Whatever the bytes are, the length read is within them or an error.      *)
LEMMA IntDeserializeTyped ==
  ASSUME NEW q \in Seq(Nat)
  PROVE  /\ IntDeserialize(q).len \in {0 - 1} \cup 0 .. Len(q)
         /\ IntDeserialize(q).val \in Nat
<1> DEFINE Ends == {g \in DOMAIN q : g <= MaxGroups /\ q[g] < Radix}
           read == IF Ends # {} THEN CHOOSE g \in Ends : \A h \in Ends : g <= h
                   ELSE IF Len(q) > MaxGroups THEN MaxGroups ELSE Len(q)
<1>1. /\ IntDeserialize(q).len =
           IF Ends # {} THEN read ELSE IF Len(q) > MaxGroups THEN 0 - 1 ELSE 0
      /\ IntDeserialize(q).val = Amount(q, read)
  BY DEF IntDeserialize
<1>2. MaxGroups \in Nat /\ Len(q) \in Nat /\ Ends \in SUBSET Nat /\ Ends \subseteq 1 .. Len(q)
  BY WireAssumption
<1>3. Ends # {} => read \in Ends
  <2>1. SUFFICES ASSUME Ends # {} PROVE read \in Ends
    OBVIOUS
  <2>2. read = CHOOSE g \in Ends : \A h \in Ends : g <= h
    BY <2>1
  <2> HIDE DEF Ends, read
  <2>3. \E g \in Ends : \A h \in Ends : g <= h
    BY <1>2, <2>1, LeastNumber
  <2>. QED  BY <2>2, <2>3
<1>4. Ends = {} => read \in 0 .. Len(q)
  BY <1>2
<1>5. read \in 0 .. Len(q)
  <2>1. Ends \subseteq 0 .. Len(q)
    BY <1>2
  <2> HIDE DEF read, Ends
  <2>. QED  BY <1>3, <1>4, <2>1
<1> HIDE DEF read, Ends
<1>6. Amount(q, read) \in Nat
  <2>1. PICK f : Shares(q, read, f) /\ Amount(q, read) = f[read]
    BY <1>5, AmountShares
  <2>2. read \in 0 .. read
    BY <1>5
  <2>. QED  BY <2>1, <2>2 DEF Shares
<1>. QED  BY <1>1, <1>2, <1>5, <1>6

(* The digits of a number are read as the number, whatever follows.         *)
THEOREM IntDeserializeExact ==
  ASSUME NEW q \in Seq(Nat), NEW n \in Nat, IntLen(n) <= MaxGroups, IntLen(n) <= Len(q),
         \A i \in 1 .. IntLen(n) : q[i] = Digits[n][i]
  PROVE  IntDeserialize(q) = [len |-> IntLen(n), val |-> n]
<1> DEFINE Ends == {g \in DOMAIN q : g <= MaxGroups /\ q[g] < Radix}
           least == CHOOSE g \in Ends : \A h \in Ends : g <= h
           read == IF Ends # {} THEN least
                   ELSE IF Len(q) > MaxGroups THEN MaxGroups ELSE Len(q)
           l == IntLen(n)
<1>1. IntDeserialize(q) =
        [len |-> IF Ends # {} THEN read ELSE IF Len(q) > MaxGroups THEN 0 - 1 ELSE 0,
         val |-> Amount(q, read)]
  BY DEF IntDeserialize
<1>2. MaxGroups \in Nat /\ Len(q) \in Nat /\ Radix \in Nat /\ l \in Nat /\ l >= 1
  BY WireAssumption, IntLenOf
<1>3. l \in Ends
  <2>1. l \in 1 .. l /\ l \in DOMAIN q
    BY <1>2
  <2>2. q[l] < Radix
    BY <2>1, DigitsMarked
  <2>. QED  BY <1>2, <2>1, <2>2
<1>4. ASSUME NEW h \in Ends PROVE l <= h
  <2>1. h \in 1 .. Len(q) /\ q[h] < Radix /\ h \in Nat /\ q[h] \in Nat
    BY <1>2
  <2>2. SUFFICES ASSUME h < l PROVE FALSE
    BY <1>2, <2>1
  <2>3. h \in 1 .. l - 1 /\ h \in 1 .. l
    BY <1>2, <2>1, <2>2
  <2>4. q[h] >= Radix
    BY <2>3, DigitsMarked
  <2>. QED  BY <1>2, <2>1, <2>4
<1>5. Ends \subseteq Nat
  BY <1>2
<1> HIDE DEF Ends
<1>6. least = l
  <2>1. ASSUME NEW g \in Ends, \A h \in Ends : g <= h PROVE g = l
    <3>1. g <= l /\ l <= g
      BY <1>3, <1>4, <2>1
    <3>2. g \in Nat
      BY <1>5
    <3>. QED  BY <1>2, <3>1, <3>2
  <2>2. least \in Ends /\ \A h \in Ends : least <= h
    BY <1>3, <1>4
  <2>. QED  BY <2>1, <2>2
<1>7. read = l
  BY <1>3, <1>6
<1>8. Amount(q, l) = n
  <2>1. l \in 0 .. Len(q)
    BY <1>2
  <2>2. PICK f : Shares(q, l, f) /\ Amount(q, l) = f[l]
    BY <2>1, AmountShares
  <2>3. \A i \in 1 .. l : l - l + i = i
    BY <1>2
  <2>4. EndsWith(q, l, n)
    BY <1>2, <2>3 DEF EndsWith
  <2>5. f[l] = n
    BY <1>2, <2>2, <2>4, ShareOf
  <2>. QED  BY <2>2, <2>5
<1>. QED  BY <1>1, <1>3, <1>7, <1>8

-----------------------------------------------------------------------------
(* Where pieces start.                                                      *)

(* What holds of 1 and goes from each number to the next holds up to k + 1.  *)
LEMMA UpTo ==
  ASSUME NEW k \in Nat, NEW I, 1 \in I, \A i \in 1 .. k : i \in I => i + 1 \in I
  PROVE  1 .. k + 1 \subseteq I
<1> DEFINE B == {i \in 1 .. k + 1 : i \notin I}
<1>1. B = {}
  <2>1. SUFFICES ASSUME B # {} PROVE FALSE
    OBVIOUS
  <2>2. PICK i \in B : \A j \in B : i <= j
    <3>1. B \in SUBSET Nat
      OBVIOUS
    <3> HIDE DEF B
    <3>. QED  BY <2>1, <3>1, LeastNumber
  <2>3. i \in 1 .. k + 1 /\ i \notin I
    BY <2>2
  <2>4. i # 1
    BY <2>3
  <2>5. i - 1 \in 1 .. k /\ i - 1 \in 1 .. k + 1 /\ (i - 1) + 1 = i /\ ~ i <= i - 1
    BY <2>3, <2>4
  <2>6. i - 1 \in I
    BY <2>2, <2>5
  <2>. QED  BY <2>3, <2>5, <2>6
<1>. QED  BY <1>1

(* Pieces start one behind the other.                                       *)
LEMMA StartsOf ==
  ASSUME NEW lens \in Seq(Nat), NEW first \in Nat
  PROVE  LET S == Starts(lens, first)
         IN  /\ S \in [1 .. Len(lens) + 1 -> Nat] /\ S[1] = first
             /\ \A i \in 1 .. Len(lens) : S[i + 1] = S[i] + lens[i]
<1> DEFINE k == Len(lens)
           D == 1 .. k + 1
           G == [x \in D \X [D -> Nat] |->
                   IF x[1] = 1 THEN first ELSE x[2][x[1] - 1] + lens[x[1] - 1]]
<1>1. k \in Nat /\ D \subseteq Nat
  OBVIOUS
<1>2. ASSUME NEW i \in D, NEW f \in [D -> Nat]
      PROVE  /\ G[<<i, f>>] = IF i = 1 THEN first ELSE f[i - 1] + lens[i - 1]
             /\ G[<<i, f>>] \in Nat
  <2>1. G[<<i, f>>] = IF i = 1 THEN first ELSE f[i - 1] + lens[i - 1]
    OBVIOUS
  <2> HIDE DEF G
  <2>2. CASE i = 1
    BY <2>1, <2>2
  <2>3. CASE i # 1
    <3>1. i - 1 \in 1 .. k /\ i - 1 \in D
      BY <1>1, <2>3
    <3>2. f[i - 1] \in Nat /\ lens[i - 1] \in Nat
      BY <3>1
    <3>. QED  BY <2>1, <2>3, <3>2
  <2>. QED  BY <2>1, <2>2, <2>3
<1>3. Founded(D, Nat, G)
  <2>1. G \in [D \X [D -> Nat] -> Nat]
    <3>1. \A x \in D \X [D -> Nat] : x = <<x[1], x[2]>> /\ x[1] \in D /\ x[2] \in [D -> Nat]
      OBVIOUS
    <3>2. DOMAIN G = D \X [D -> Nat] /\ G = [x \in DOMAIN G |-> G[x]]
      OBVIOUS
    <3> HIDE DEF G, D
    <3>3. \A x \in D \X [D -> Nat] : G[x] \in Nat
      BY <1>2, <3>1
    <3>. QED  BY <3>2, <3>3
  <2> HIDE DEF G
  <2>2. ASSUME NEW i \in D, NEW f \in [D -> Nat], NEW g \in [D -> Nat], Agree(D, f, g, i)
        PROVE  G[<<i, f>>] = G[<<i, g>>]
    <3>1. i # 1 => i - 1 \in D /\ i - 1 < i
      BY <1>1
    <3>2. i # 1 => f[i - 1] = g[i - 1]
      BY <2>2, <3>1 DEF Agree
    <3>3. /\ G[<<i, f>>] = IF i = 1 THEN first ELSE f[i - 1] + lens[i - 1]
          /\ G[<<i, g>>] = IF i = 1 THEN first ELSE g[i - 1] + lens[i - 1]
      BY <1>2
    <3>. QED  BY <3>2, <3>3
  <2> HIDE DEF D
  <2>. QED  BY <1>1, <2>1, <2>2 DEF Founded
<1> HIDE DEF G
<1>4. PICK f : Solution(D, Nat, G, f)
  <2> HIDE DEF D
  <2>1. 0 \in Nat
    OBVIOUS
  <2>. QED  BY <1>3, <2>1, NumberRecursion
<1>5. f = [i \in D |-> IF i = 1 THEN first ELSE f[i - 1] + lens[i - 1]]
  <2>1. f \in [D -> Nat] /\ \A i \in D : f[i] = G[<<i, f>>]
    BY <1>4 DEF Solution
  <2>2. \A i \in D : f[i] = IF i = 1 THEN first ELSE f[i - 1] + lens[i - 1]
    BY <1>2, <2>1
  <2>. QED  BY <2>1, <2>2
<1> DEFINE Solves(h) == h = [i \in D |-> IF i = 1 THEN first ELSE h[i - 1] + lens[i - 1]]
           g == CHOOSE h : Solves(h)
<1>6. Starts(lens, first) = g
  BY DEF Starts
<1>7. Solves(g)
  <2>1. Solves(f)
    BY <1>5
  <2> HIDE DEF Solves
  <2>. QED  BY <2>1
<1> HIDE DEF g
<1>8. g[1] = first /\ \A i \in 1 .. k : g[i + 1] = g[i] + lens[i]
  <2>1. 1 \in D /\ \A i \in 1 .. k : i + 1 \in D /\ i + 1 # 1 /\ (i + 1) - 1 = i
    BY <1>1
  <2> HIDE DEF D
  <2>. QED  BY <1>7, <2>1
<1>9. \A i \in D : g[i] \in Nat
  <2> DEFINE I == {i \in D : g[i] \in Nat}
  <2>1. 1 \in I
    BY <1>1, <1>8
  <2>2. ASSUME NEW i \in 1 .. k, i \in I PROVE i + 1 \in I
    <3>1. g[i] \in Nat /\ lens[i] \in Nat /\ i + 1 \in D
      BY <1>1, <2>2
    <3>. QED  BY <1>8, <3>1
  <2>3. D \subseteq I
    <3> HIDE DEF I
    <3>. QED  BY <1>1, <2>1, <2>2, UpTo
  <2>. QED  BY <2>3
<1>10. g \in [D -> Nat]
  <2>1. DOMAIN g = D /\ g = [i \in DOMAIN g |-> g[i]]
    BY <1>7
  <2> HIDE DEF D
  <2>. QED  BY <1>9, <2>1
<1>. QED  BY <1>6, <1>8, <1>10

(* Longer pieces that start later start and end later.                      *)
LEMMA StartsMonotone ==
  ASSUME NEW lens \in Seq(Nat), NEW longer \in Seq(Nat), Len(lens) = Len(longer),
         \A i \in 1 .. Len(lens) : lens[i] <= longer[i],
         NEW a \in Nat, NEW b \in Nat, a <= b, NEW j \in 1 .. Len(lens) + 1
  PROVE  Starts(lens, a)[j] <= Starts(longer, b)[j]
<1> DEFINE k == Len(lens)
           S == Starts(lens, a)
           T == Starts(longer, b)
           I == {i \in 1 .. k + 1 : S[i] <= T[i]}
<1>1. /\ S \in [1 .. k + 1 -> Nat] /\ S[1] = a /\ \A i \in 1 .. k : S[i + 1] = S[i] + lens[i]
      /\ T \in [1 .. k + 1 -> Nat] /\ T[1] = b /\ \A i \in 1 .. k : T[i + 1] = T[i] + longer[i]
      /\ k \in Nat
  <2>1. S \in [1 .. k + 1 -> Nat] /\ S[1] = a /\ \A i \in 1 .. k : S[i + 1] = S[i] + lens[i]
    BY StartsOf
  <2>2. /\ T \in [1 .. Len(longer) + 1 -> Nat] /\ T[1] = b
        /\ \A i \in 1 .. Len(longer) : T[i + 1] = T[i] + longer[i]
    BY StartsOf
  <2>3. k \in Nat /\ Len(longer) = k
    OBVIOUS
  <2> HIDE DEF S, T, k
  <2>. QED  BY <2>1, <2>2, <2>3
<1> HIDE DEF S, T
<1>2. 1 \in I
  BY <1>1
<1>3. ASSUME NEW i \in 1 .. k, i \in I PROVE i + 1 \in I
  <2>1. /\ i \in 1 .. k + 1 /\ i + 1 \in 1 .. k + 1
        /\ lens[i] \in Nat /\ longer[i] \in Nat /\ lens[i] <= longer[i]
    BY <1>1
  <2>2. S[i] \in Nat /\ T[i] \in Nat /\ S[i] <= T[i]
    BY <1>1, <1>3, <2>1
  <2>3. S[i + 1] = S[i] + lens[i] /\ T[i + 1] = T[i] + longer[i]
    BY <1>1
  <2>4. S[i + 1] <= T[i + 1]
    BY <2>1, <2>2, <2>3, SMTT(30)
  <2>. QED  BY <2>1, <2>4
<1>4. 1 .. k + 1 \subseteq I
  <2> HIDE DEF I
  <2>. QED  BY <1>1, <1>2, <1>3, UpTo
<1>5. j \in I
  BY <1>4
<1>. QED  BY <1>5 DEF S, T

(* Pieces that start later by c all do.                                     *)
LEMMA StartsShifted ==
  ASSUME NEW lens \in Seq(Nat), NEW a \in Nat, NEW c \in Nat, NEW j \in 1 .. Len(lens) + 1
  PROVE  Starts(lens, a + c)[j] = Starts(lens, a)[j] + c
<1> DEFINE k == Len(lens)
           S == Starts(lens, a)
           T == Starts(lens, a + c)
           I == {i \in 1 .. k + 1 : T[i] = S[i] + c}
<1>1. /\ S \in [1 .. k + 1 -> Nat] /\ S[1] = a /\ \A i \in 1 .. k : S[i + 1] = S[i] + lens[i]
      /\ T \in [1 .. k + 1 -> Nat] /\ T[1] = a + c /\ \A i \in 1 .. k : T[i + 1] = T[i] + lens[i]
      /\ k \in Nat
  <2>1. S \in [1 .. k + 1 -> Nat] /\ S[1] = a /\ \A i \in 1 .. k : S[i + 1] = S[i] + lens[i]
    BY StartsOf
  <2>2. /\ T \in [1 .. k + 1 -> Nat] /\ T[1] = a + c
        /\ \A i \in 1 .. k : T[i + 1] = T[i] + lens[i]
    <3> DEFINE d == a + c
    <3>1. d \in Nat
      OBVIOUS
    <3> HIDE DEF d
    <3>2. LET Q == Starts(lens, d)
          IN  /\ Q \in [1 .. Len(lens) + 1 -> Nat] /\ Q[1] = d
              /\ \A i \in 1 .. Len(lens) : Q[i + 1] = Q[i] + lens[i]
      BY <3>1, StartsOf
    <3>. QED  BY <3>2 DEF d
  <2>3. k \in Nat
    OBVIOUS
  <2> HIDE DEF S, T, k
  <2>. QED  BY <2>1, <2>2, <2>3
<1> HIDE DEF S, T
<1>2. 1 \in I
  BY <1>1
<1>3. ASSUME NEW i \in 1 .. k, i \in I PROVE i + 1 \in I
  <2>1. i \in 1 .. k + 1 /\ i + 1 \in 1 .. k + 1 /\ lens[i] \in Nat
    BY <1>1
  <2>2. S[i] \in Nat /\ T[i] = S[i] + c
    BY <1>1, <1>3, <2>1
  <2>3. S[i + 1] = S[i] + lens[i] /\ T[i + 1] = T[i] + lens[i]
    BY <1>1
  <2>4. T[i + 1] = S[i + 1] + c
    BY <2>1, <2>2, <2>3
  <2>. QED  BY <2>1, <2>4
<1>4. 1 .. k + 1 \subseteq I
  <2> HIDE DEF I
  <2>. QED  BY <1>1, <1>2, <1>3, UpTo
<1>5. j \in I
  BY <1>4
<1>. QED  BY <1>5 DEF S, T

(* Pieces of one length each.                                               *)
LEMMA StartsEven ==
  ASSUME NEW k \in Nat, NEW m \in Nat, NEW a \in Nat
  PROVE  Starts([i \in 1 .. k |-> m], a)[k + 1] = a + k * m
<1> DEFINE lens == [i \in 1 .. k |-> m]
           S == Starts(lens, a)
           I == {i \in 1 .. k + 1 : S[i] = a + (i - 1) * m}
<1>1. lens \in Seq(Nat) /\ Len(lens) = k /\ \A i \in 1 .. k : lens[i] = m
  OBVIOUS
<1> HIDE DEF lens
<1>2. S \in [1 .. k + 1 -> Nat] /\ S[1] = a /\ \A i \in 1 .. k : S[i + 1] = S[i] + m
  <2>1. S \in [1 .. k + 1 -> Nat] /\ S[1] = a /\ \A i \in 1 .. k : S[i + 1] = S[i] + lens[i]
    BY <1>1, StartsOf
  <2>. QED  BY <1>1, <2>1
<1> HIDE DEF S
<1>3. 1 \in I
  BY <1>2
<1>4. ASSUME NEW i \in 1 .. k, i \in I PROVE i + 1 \in I
  <2>1. i \in 1 .. k + 1 /\ i + 1 \in 1 .. k + 1 /\ i \in Nat
    OBVIOUS
  <2>2. S[i + 1] = a + (i - 1) * m + m
    BY <1>2, <1>4
  <2>3. (i - 1) * m + m = ((i + 1) - 1) * m
    BY <2>1
  <2>. QED  BY <2>1, <2>2, <2>3
<1>5. 1 .. k + 1 \subseteq I
  <2> HIDE DEF I
  <2>. QED  BY <1>3, <1>4, UpTo
<1>6. k + 1 \in I
  BY <1>5
<1>. QED  BY <1>6 DEF S, lens

(* A piece starts after those before it and ends before the last one does.  *)
LEMMA StartsOrdered ==
  ASSUME NEW lens \in Seq(Nat), NEW a \in Nat,
         NEW i \in 1 .. Len(lens) + 1, NEW j \in i .. Len(lens) + 1
  PROVE  Starts(lens, a)[i] <= Starts(lens, a)[j]
<1> DEFINE k == Len(lens)
           S == Starts(lens, a)
           I == {h \in 1 .. k + 1 : h >= i => S[i] <= S[h]}
<1>0. k \in Nat /\ i \in Nat /\ i \in 1 .. k + 1 /\ j \in 1 .. k + 1 /\ j >= i
  OBVIOUS
<1>1. /\ S \in [1 .. k + 1 -> Nat] /\ S[1] = a
      /\ \A h \in 1 .. k : S[h + 1] = S[h] + lens[h]
  BY StartsOf
<1> HIDE DEF S
<1>2. 1 \in I
  <2>1. 1 >= i => i = 1
    BY <1>0
  <2>2. 1 \in 1 .. k + 1
    BY <1>0
  <2>. QED  BY <1>1, <2>1, <2>2
<1>3. ASSUME NEW h \in 1 .. k, h \in I PROVE h + 1 \in I
  <2>1. h \in 1 .. k + 1 /\ h + 1 \in 1 .. k + 1 /\ h \in Nat
    BY <1>0
  <2>2. lens[h] \in Nat
    BY <1>0
  <2>3. S[h] \in Nat /\ S[h + 1] \in Nat /\ S[i] \in Nat
    BY <1>0, <1>1, <2>1
  <2>4. S[h + 1] = S[h] + lens[h]
    BY <1>1
  <2>5. h >= i => S[i] <= S[h + 1]
    BY <1>3, <2>2, <2>3, <2>4
  <2>6. h + 1 = i => S[i] <= S[h + 1]
    BY <2>3
  <2>7. h + 1 >= i => h >= i \/ h + 1 = i
    BY <1>0, <2>1
  <2>. QED  BY <2>1, <2>5, <2>6, <2>7
<1>4. 1 .. k + 1 \subseteq I
  <2> HIDE DEF I
  <2>. QED  BY <1>0, <1>2, <1>3, UpTo
<1>5. j \in I /\ j >= i
  BY <1>0, <1>4
<1>. QED  BY <1>5 DEF S

-----------------------------------------------------------------------------
(* Bytes at a position.                                                     *)

(* The bytes s are in b behind its first p bytes.                           *)
Holds(b, p, s) == p + Len(s) <= Len(b) /\ \A i \in 1 .. Len(s) : b[p + i] = s[i]

(* The parts of what is there are there.                                    *)
LEMMA HoldsParts ==
  ASSUME NEW b \in Seq(Nat), NEW p \in Nat, NEW s \in Seq(Nat), NEW t \in Seq(Nat),
         Holds(b, p, s \o t)
  PROVE  Holds(b, p, s) /\ Holds(b, p + Len(s), t)
<1>1. /\ Len(s) \in Nat /\ Len(t) \in Nat /\ Len(s \o t) = Len(s) + Len(t) /\ Len(b) \in Nat
      /\ \A i \in 1 .. Len(s) : (s \o t)[i] = s[i]
      /\ \A i \in 1 .. Len(t) : (s \o t)[Len(s) + i] = t[i]
  OBVIOUS
<1>2. /\ p + (Len(s) + Len(t)) <= Len(b)
      /\ \A i \in 1 .. Len(s) + Len(t) : b[p + i] = (s \o t)[i]
  BY <1>1 DEF Holds
<1>3. Holds(b, p, s)
  <2>1. \A i \in 1 .. Len(s) : i \in 1 .. Len(s) + Len(t)
    BY <1>1
  <2>2. p + Len(s) <= Len(b)
    BY <1>1, <1>2
  <2>. QED  BY <1>1, <1>2, <2>1, <2>2 DEF Holds
<1>4. Holds(b, p + Len(s), t)
  <2>1. ASSUME NEW i \in 1 .. Len(t) PROVE b[(p + Len(s)) + i] = t[i]
    <3>1. Len(s) + i \in 1 .. Len(s) + Len(t) /\ p + (Len(s) + i) = (p + Len(s)) + i
      BY <1>1
    <3>. QED  BY <1>1, <1>2, <3>1
  <2>2. (p + Len(s)) + Len(t) <= Len(b)
    BY <1>1, <1>2
  <2>. QED  BY <2>1, <2>2 DEF Holds
<1>. QED  BY <1>3, <1>4

(* What is in a part that is there is there.                                *)
LEMMA HoldsInside ==
  ASSUME NEW b \in Seq(Nat), NEW p \in Nat, NEW t \in Seq(Nat), Holds(b, p, t),
         NEW o \in Nat, NEW s \in Seq(Nat), Holds(t, o, s)
  PROVE  Holds(b, p + o, s)
<1>1. /\ Len(s) \in Nat /\ Len(t) \in Nat /\ Len(b) \in Nat
      /\ p + Len(t) <= Len(b) /\ \A i \in 1 .. Len(t) : b[p + i] = t[i]
      /\ o + Len(s) <= Len(t) /\ \A i \in 1 .. Len(s) : t[o + i] = s[i]
  BY DEF Holds
<1>2. ASSUME NEW i \in 1 .. Len(s) PROVE b[(p + o) + i] = s[i]
  <2>1. o + i \in 1 .. Len(t) /\ p + (o + i) = (p + o) + i
    BY <1>1
  <2>. QED  BY <1>1, <2>1
<1>3. (p + o) + Len(s) <= Len(b)
  BY <1>1
<1>. QED  BY <1>2, <1>3 DEF Holds

(* Bytes appended are there, and those before them still are.               *)
LEMMA HoldsAppended ==
  ASSUME NEW b \in Seq(Nat), NEW s \in Seq(Nat)
  PROVE  /\ Holds(b \o s, Len(b), s)
         /\ \A p \in Nat : \A t \in Seq(Nat) : Holds(b, p, t) => Holds(b \o s, p, t)
<1>1. /\ Len(s) \in Nat /\ Len(b) \in Nat /\ Len(b \o s) = Len(b) + Len(s)
      /\ \A i \in 1 .. Len(b) : (b \o s)[i] = b[i]
      /\ \A i \in 1 .. Len(s) : (b \o s)[Len(b) + i] = s[i]
  OBVIOUS
<1>2. Holds(b \o s, Len(b), s)
  BY <1>1 DEF Holds
<1>3. ASSUME NEW p \in Nat, NEW t \in Seq(Nat), Holds(b, p, t) PROVE Holds(b \o s, p, t)
  <2>1. Len(t) \in Nat /\ p + Len(t) <= Len(b) /\ \A i \in 1 .. Len(t) : b[p + i] = t[i]
    BY <1>3 DEF Holds
  <2>2. \A i \in 1 .. Len(t) : p + i \in 1 .. Len(b)
    BY <1>1, <2>1
  <2>3. p + Len(t) <= Len(b \o s)
    BY <1>1, <2>1
  <2>. QED  BY <1>1, <2>1, <2>2, <2>3 DEF Holds
<1>. QED  BY <1>2, <1>3

(* Each piece of what pieces amount to is where it starts.                  *)
LEMMA Pieces ==
  ASSUME NEW seqs \in Seq(Seq(Nat)), seqs # <<>>
  PROVE  LET k == Len(seqs)
             S == Starts([i \in 1 .. k |-> Len(seqs[i])], 0)
         IN  /\ FlattenSeq(seqs) \in Seq(Nat) /\ Len(FlattenSeq(seqs)) = S[k + 1]
             /\ \A i \in 1 .. k : Holds(FlattenSeq(seqs), S[i], seqs[i])
<1> DEFINE k == Len(seqs)
           lens == [i \in 1 .. k |-> Len(seqs[i])]
           S == Starts(lens, 0)
           D == 1 .. k
           V == Seq(Nat)
           G == [x \in D \X [D -> V] |->
                   IF x[1] = 1 THEN seqs[x[1]] ELSE x[2][x[1] - 1] \o seqs[x[1]]]
<1>0. k \in Nat /\ k >= 1 /\ D \subseteq Nat /\ \A i \in D : seqs[i] \in V
  BY EmptySeq
<1>s. lens \in Seq(Nat) /\ Len(lens) = k /\ \A i \in 1 .. k : lens[i] = Len(seqs[i])
  BY <1>0
<1> HIDE DEF lens
<1>S. S \in [1 .. k + 1 -> Nat] /\ S[1] = 0 /\ \A i \in 1 .. k : S[i + 1] = S[i] + Len(seqs[i])
  <2>1. S \in [1 .. k + 1 -> Nat] /\ S[1] = 0 /\ \A i \in 1 .. k : S[i + 1] = S[i] + lens[i]
    BY <1>s, StartsOf
  <2>. QED  BY <1>s, <2>1
<1> HIDE DEF S
<1>2. ASSUME NEW i \in D, NEW f \in [D -> V]
      PROVE  /\ G[<<i, f>>] = IF i = 1 THEN seqs[i] ELSE f[i - 1] \o seqs[i]
             /\ G[<<i, f>>] \in V
  <2>1. G[<<i, f>>] = IF i = 1 THEN seqs[i] ELSE f[i - 1] \o seqs[i]
    OBVIOUS
  <2> HIDE DEF G
  <2>2. CASE i = 1
    BY <1>0, <2>1, <2>2
  <2>3. CASE i # 1
    <3>1. i - 1 \in D
      BY <1>0, <2>3
    <3>2. f[i - 1] \in V /\ seqs[i] \in V
      BY <1>0, <3>1
    <3>3. f[i - 1] \o seqs[i] \in V
      BY <3>2
    <3>. QED  BY <2>1, <2>3, <3>3
  <2>. QED  BY <2>1, <2>2, <2>3
<1>3. Founded(D, V, G)
  <2>1. G \in [D \X [D -> V] -> V]
    <3>1. \A x \in D \X [D -> V] : x = <<x[1], x[2]>> /\ x[1] \in D /\ x[2] \in [D -> V]
      OBVIOUS
    <3>2. DOMAIN G = D \X [D -> V] /\ G = [x \in DOMAIN G |-> G[x]]
      OBVIOUS
    <3> HIDE DEF G, D, V
    <3>3. \A x \in D \X [D -> V] : G[x] \in V
      BY <1>2, <3>1
    <3>. QED  BY <3>2, <3>3
  <2> HIDE DEF G
  <2>2. ASSUME NEW i \in D, NEW f \in [D -> V], NEW g \in [D -> V], Agree(D, f, g, i)
        PROVE  G[<<i, f>>] = G[<<i, g>>]
    <3>1. i # 1 => i - 1 \in D /\ i - 1 < i
      BY <1>0
    <3>2. i # 1 => f[i - 1] = g[i - 1]
      BY <2>2, <3>1 DEF Agree
    <3>3. /\ G[<<i, f>>] = IF i = 1 THEN seqs[i] ELSE f[i - 1] \o seqs[i]
          /\ G[<<i, g>>] = IF i = 1 THEN seqs[i] ELSE g[i - 1] \o seqs[i]
      BY <1>2
    <3>. QED  BY <3>2, <3>3
  <2> HIDE DEF D, V
  <2>. QED  BY <1>0, <2>1, <2>2 DEF Founded
<1> HIDE DEF G
<1>4. PICK f : Solution(D, V, G, f)
  <2>1. <<>> \in V
    OBVIOUS
  <2> HIDE DEF D, V
  <2>. QED  BY <1>3, <2>1, NumberRecursion
<1>5. f = [i \in D |-> IF i = 1 THEN seqs[i] ELSE f[i - 1] \o seqs[i]]
  <2>1. f \in [D -> V] /\ \A i \in D : f[i] = G[<<i, f>>]
    BY <1>4 DEF Solution
  <2>2. \A i \in D : f[i] = IF i = 1 THEN seqs[i] ELSE f[i - 1] \o seqs[i]
    BY <1>2, <2>1
  <2>. QED  BY <2>1, <2>2
<1> DEFINE Solves(h) == h = [i \in D |-> IF i = 1 THEN seqs[i] ELSE h[i - 1] \o seqs[i]]
           g == CHOOSE h : Solves(h)
<1>6. FlattenSeq(seqs) = g[k]
  <2>1. Len(seqs) # 0
    BY <1>0
  <2>. QED  BY <2>1 DEF FlattenSeq
<1>7. Solves(g)
  <2>1. Solves(f)
    BY <1>5
  <2> HIDE DEF Solves
  <2>. QED  BY <2>1
<1> HIDE DEF g
<1>8. g[1] = seqs[1] /\ \A i \in 1 .. k : i + 1 \in D => g[i + 1] = g[i] \o seqs[i + 1]
  <2>1. 1 \in D /\ \A i \in 1 .. k : i + 1 # 1 /\ (i + 1) - 1 = i
    BY <1>0
  <2> HIDE DEF D
  <2>. QED  BY <1>7, <2>1
<1> DEFINE Placed(i) == /\ g[i] \in Seq(Nat) /\ Len(g[i]) = S[i + 1]
                        /\ \A j \in 1 .. i : Holds(g[i], S[j], seqs[j])
           I == {i \in 1 .. k : Placed(i)}
<1>9. 1 \in I
  <2>1. 1 \in 1 .. k /\ seqs[1] \in Seq(Nat)
    BY <1>0
  <2>2. S[1 + 1] = Len(seqs[1])
    BY <1>S, <2>1
  <2>3. \A i \in 1 .. Len(seqs[1]) : seqs[1][0 + i] = seqs[1][i]
    BY <2>1
  <2>4. Holds(seqs[1], 0, seqs[1])
    BY <2>1, <2>3 DEF Holds
  <2>5. \A j \in 1 .. 1 : j = 1
    OBVIOUS
  <2>6. Placed(1)
    BY <1>8, <1>S, <2>1, <2>2, <2>4, <2>5
  <2>. QED  BY <2>1, <2>6
<1>10. ASSUME NEW i \in 1 .. k - 1, i \in I PROVE i + 1 \in I
  <2>1. i \in 1 .. k /\ i + 1 \in 1 .. k /\ i + 1 \in 1 .. k + 1 /\ i \in Nat
    BY <1>0
  <2>2. g[i] \in Seq(Nat) /\ Len(g[i]) = S[i + 1] /\ seqs[i + 1] \in Seq(Nat)
    BY <1>0, <1>10, <2>1
  <2>3. g[i + 1] = g[i] \o seqs[i + 1]
    BY <1>8, <2>1
  <2>4. S[i + 1] \in Nat /\ S[(i + 1) + 1] = S[i + 1] + Len(seqs[i + 1])
    BY <1>S, <2>1
  <2>5. g[i + 1] \in Seq(Nat) /\ Len(g[i + 1]) = S[(i + 1) + 1]
    <3>1. \A u, w \in Seq(Nat) : u \o w \in Seq(Nat) /\ Len(u \o w) = Len(u) + Len(w)
      OBVIOUS
    <3> HIDE DEF g, S
    <3>. QED  BY <2>2, <2>3, <2>4, <3>1
  <2>6. ASSUME NEW j \in 1 .. i + 1 PROVE Holds(g[i + 1], S[j], seqs[j])
    <3>1. CASE j = i + 1
      BY <2>2, <2>3, <3>1, HoldsAppended
    <3>2. CASE j # i + 1
      <4>1. j \in 1 .. i /\ j \in 1 .. k /\ j \in 1 .. k + 1
        BY <2>1, <3>2
      <4>2. Holds(g[i], S[j], seqs[j])
        BY <1>10, <4>1
      <4>3. S[j] \in Nat /\ seqs[j] \in Seq(Nat)
        BY <1>0, <1>S, <4>1
      <4>. QED  BY <2>2, <2>3, <4>2, <4>3, HoldsAppended
    <3>. QED  BY <3>1, <3>2
  <2> HIDE DEF g, S
  <2>7. Placed(i + 1)
    BY <2>5, <2>6
  <2>. QED  BY <2>1, <2>7
<1>11. 1 .. (k - 1) + 1 \subseteq I
  <2>1. k - 1 \in Nat
    BY <1>0
  <2> HIDE DEF I
  <2>. QED  BY <1>9, <1>10, <2>1, UpTo
<1>12. k \in I
  <2>1. k \in 1 .. (k - 1) + 1
    BY <1>0
  <2> HIDE DEF I
  <2>. QED  BY <1>11, <2>1
<1>13. Placed(k)
  BY <1>12
<1>. QED  BY <1>6, <1>13 DEF S, lens

-----------------------------------------------------------------------------
(* Loops that guess a length until it is the one that follows from it.      *)

(* A larger guess does not lead to a smaller one.                           *)
Rising(F) == F \in [Nat -> Nat] /\ \A m, n \in Nat : m <= n => F[m] <= F[n]
Settles(F, f) == f = [g \in Nat |-> IF F[g] = g THEN g ELSE f[F[g]]]

(* The recursive definition of such a loop has a solution.                  *)
LEMMA LoopExists ==
  ASSUME NEW F, Rising(F)
  PROVE  \E f : Settles(F, f)
<1> DEFINE Up(g) == {x \in Nat : F[x] = x /\ g <= x}
           Down(g) == {x \in Nat : F[x] = x /\ x <= g}
           Least(S) == CHOOSE x \in S : \A y \in S : x <= y
           Greatest(S) == CHOOSE x \in S : \A y \in S : y <= x
           f == [g \in Nat |-> IF F[g] = g THEN g
                               ELSE IF g < F[g] THEN Least(Up(g)) ELSE Greatest(Down(g))]
<1>0. \A g \in Nat : F[g] \in Nat
  BY DEF Rising
<1>1. ASSUME NEW h \in Nat, F[h] = h PROVE Least(Up(h)) = h /\ Greatest(Down(h)) = h
  <2>1. h \in Up(h) /\ \A y \in Up(h) : h <= y /\ y \in Nat
    BY <1>1
  <2>2. h \in Down(h) /\ \A y \in Down(h) : y <= h /\ y \in Nat
    BY <1>1
  <2> HIDE DEF Up, Down
  <2>3. \A x \in Up(h) : (\A y \in Up(h) : x <= y) => x = h
    BY <2>1
  <2>4. \A x \in Down(h) : (\A y \in Down(h) : y <= x) => x = h
    BY <2>2
  <2>. QED  BY <2>1, <2>2, <2>3, <2>4
<1>2. ASSUME NEW g \in Nat, F[g] # g PROVE f[g] = f[F[g]]
  <2>1. F[g] \in Nat /\ F[F[g]] \in Nat
    BY <1>0
  <2>2. CASE g < F[g]
    <3>1. F[g] <= F[F[g]]
      BY <2>1, <2>2 DEF Rising
    <3>2. Up(g) = Up(F[g])
      <4>1. ASSUME NEW x \in Nat, F[x] = x PROVE g <= x <=> F[g] <= x
        <5>1. g <= x => F[g] <= F[x]
          BY DEF Rising
        <5>2. F[g] <= x => g <= x
          BY <2>1, <2>2
        <5>. QED  BY <4>1, <5>1, <5>2
      <4>. QED  BY <4>1
    <3>3. f[g] = Least(Up(g))
      BY <1>2, <2>2
    <3>4. f[F[g]] = IF F[F[g]] = F[g] THEN F[g] ELSE Least(Up(F[g]))
      <4>1. F[F[g]] # F[g] => F[g] < F[F[g]]
        BY <2>1, <3>1
      <4> HIDE DEF Up, Down, Least, Greatest
      <4>. QED  BY <2>1, <4>1
    <3> HIDE DEF f, Up, Down, Least, Greatest
    <3>. QED  BY <1>1, <2>1, <3>2, <3>3, <3>4
  <2>3. CASE ~ g < F[g]
    <3>0. F[g] < g
      BY <1>2, <2>1, <2>3
    <3>1. F[F[g]] <= F[g]
      BY <2>1, <3>0 DEF Rising
    <3>2. Down(g) = Down(F[g])
      <4>1. ASSUME NEW x \in Nat, F[x] = x PROVE x <= g <=> x <= F[g]
        <5>1. x <= g => F[x] <= F[g]
          BY DEF Rising
        <5>2. x <= F[g] => x <= g
          BY <2>1, <3>0
        <5>. QED  BY <4>1, <5>1, <5>2
      <4>. QED  BY <4>1
    <3>3. f[g] = Greatest(Down(g))
      BY <1>2, <2>3
    <3>4. f[F[g]] = IF F[F[g]] = F[g] THEN F[g] ELSE Greatest(Down(F[g]))
      <4>1. ~ F[g] < F[F[g]]
        BY <2>1, <3>1
      <4> HIDE DEF Up, Down, Least, Greatest
      <4>. QED  BY <2>1, <4>1
    <3> HIDE DEF f, Up, Down, Least, Greatest
    <3>. QED  BY <1>1, <2>1, <3>2, <3>3, <3>4
  <2>. QED  BY <2>2, <2>3
<1>3. \A g \in Nat : F[g] = g => f[g] = g
  OBVIOUS
<1>4. DOMAIN f = Nat /\ f = [g \in DOMAIN f |-> f[g]]
  OBVIOUS
<1> HIDE DEF f
<1>5. Settles(F, f)
  <2>1. \A g \in Nat : f[g] = IF F[g] = g THEN g ELSE f[F[g]]
    BY <1>2, <1>3
  <2>. QED  BY <1>4, <2>1 DEF Settles
<1>. QED  BY <1>5

(* A loop that starts below its next guess and below a guess it cannot pass
   ends at a guess that leads to itself.                                    *)
LEMMA LoopEnds ==
  ASSUME NEW F, Rising(F), NEW f, Settles(F, f),
         NEW s \in Nat, s <= F[s], NEW B \in Nat, s <= B, F[B] <= B
  PROVE  f[s] \in Nat /\ F[f[s]] = f[s]
<1> DEFINE Good(g) == f[g] \in Nat /\ F[f[g]] = f[g]
           Bad == {d \in Nat : d <= B /\ B - d <= F[B - d] /\ ~Good(B - d)}
<1>0. /\ \A g \in Nat : F[g] \in Nat
      /\ \A g \in Nat : f[g] = IF F[g] = g THEN g ELSE f[F[g]]
  BY DEF Rising, Settles
<1>1. Bad = {}
  <2>1. SUFFICES ASSUME Bad # {} PROVE FALSE
    OBVIOUS
  <2>2. PICK d \in Bad : \A e \in Bad : d <= e
    <3>1. Bad \in SUBSET Nat
      OBVIOUS
    <3> HIDE DEF Bad
    <3>. QED  BY <2>1, <3>1, LeastNumber
  <2> DEFINE g == B - d
  <2>3. d \in Nat /\ d <= B /\ g <= F[g] /\ ~Good(g)
    BY <2>2
  <2>4. g \in Nat /\ g <= B /\ d = B - g
    BY <2>3
  <2> HIDE DEF g, Good
  <2>5. CASE F[g] = g
    <3>1. f[g] = g
      BY <1>0, <2>4, <2>5
    <3>2. Good(g)
      BY <2>4, <2>5, <3>1 DEF Good
    <3>. QED  BY <2>3, <3>2
  <2>6. CASE F[g] # g
    <3>1. f[g] = f[F[g]] /\ F[g] \in Nat
      BY <1>0, <2>4, <2>6
    <3>2. F[g] <= F[B] /\ F[g] <= F[F[g]] /\ F[B] \in Nat
      BY <1>0, <2>3, <2>4, <3>1 DEF Rising
    <3>3. F[g] <= B /\ g < F[g]
      BY <2>3, <2>4, <2>6, <3>1, <3>2
    <3> DEFINE e == B - F[g]
    <3>4. e \in Nat /\ e <= B /\ B - e = F[g] /\ ~ d <= e
      BY <2>4, <3>1, <3>3
    <3>5. ~Good(F[g])
      BY <2>3, <3>1 DEF Good
    <3>6. e \in Bad
      BY <3>2, <3>4, <3>5
    <3>. QED  BY <2>2, <3>4, <3>6
  <2>. QED  BY <2>5, <2>6
<1>2. B - s \in Nat /\ B - s <= B /\ B - (B - s) = s
  OBVIOUS
<1> HIDE DEF Good
<1>3. Good(s)
  BY <1>1, <1>2
<1>. QED  BY <1>3 DEF Good

(* A product grows with its factor.                                         *)
LEMMA Product ==
  ASSUME NEW k \in Nat, NEW a \in Nat, NEW b \in Nat, a <= b
  PROVE  k * a \in Nat /\ k * b \in Nat /\ k * a <= k * b
<1>1. PICK d \in Nat : b = a + d
  <2>1. b - a \in Nat /\ b = a + (b - a)
    OBVIOUS
  <2>. QED  BY <2>1
<1>2. k * (a + d) = k * a + k * d /\ k * d \in Nat /\ k * a \in Nat /\ k * b \in Nat
  BY Z3
<1>. QED  BY <1>1, <1>2

(* Numbers outgrow any multiple of their length.                            *)
LEMMA LengthOutgrown ==
  ASSUME NEW k \in Nat, NEW c \in Nat
  PROVE  \E x \in Nat : k * IntLen(x) + c <= x
<1> DEFINE K == 2 * k
           C == K * IntLen(Radix * K)
           B == {m \in Nat : ~ K * IntLen(m) <= m + C}
<1>0. Radix \in Nat /\ Radix >= 2 /\ K \in Nat /\ Radix * K \in Nat /\ C \in Nat
  <2>1. Radix \in Nat /\ Radix >= 2 /\ K \in Nat
    BY WireAssumption
  <2>2. Radix * K \in Nat
    BY <2>1
  <2>3. IntLen(Radix * K) \in Nat
    BY <2>2, IntLenOf
  <2> HIDE DEF K
  <2>. QED  BY <2>1, <2>2, <2>3
<1> HIDE DEF K
<1>1. B = {}
  <2>1. SUFFICES ASSUME B # {} PROVE FALSE
    OBVIOUS
  <2>2. PICK m \in B : \A j \in B : m <= j
    <3>1. B \in SUBSET Nat
      OBVIOUS
    <3> HIDE DEF B
    <3>. QED  BY <2>1, <3>1, LeastNumber
  <2>3. m \in Nat /\ ~ K * IntLen(m) <= m + C
    BY <2>2
  <2>4. IntLen(m) \in Nat /\ K * IntLen(m) \in Nat
    BY <1>0, <2>3, IntLenOf
  <2>5. CASE m < Radix * K
    <3>1. IntLen(m) <= IntLen(Radix * K) /\ IntLen(Radix * K) \in Nat
      BY <1>0, <2>3, <2>5, IntLenMonotone, IntLenOf
    <3>2. K * IntLen(m) <= C
      BY <1>0, <2>4, <3>1, Product
    <3> HIDE DEF C
    <3>. QED  BY <1>0, <2>3, <2>4, <3>2
  <2>6. CASE m >= Radix * K /\ K = 0
    <3>1. K * IntLen(m) = 0
      BY <2>4, <2>6
    <3>. QED  BY <1>0, <2>3, <3>1
  <2>7. CASE m >= Radix * K /\ K # 0
    <3> DEFINE s == Quo(m)
    <3>1. s \in Nat /\ Rem(m) \in 0 .. Radix - 1 /\ m = Radix * s + Rem(m) /\ 2 * s <= m
      BY <2>3, Quotient
    <3> HIDE DEF s
    <3>2. m >= Radix
      <4>1. Radix * 1 <= Radix * K
        BY <1>0, <2>7, Product
      <4>. QED  BY <1>0, <2>3, <2>7, <4>1
    <3>3. IntLen(m) = 1 + IntLen(s) /\ s < m
      BY <2>3, <3>2, IntLenOf, Quotient DEF s
    <3>4. K <= s
      <4>1. SUFFICES ASSUME s + 1 <= K PROVE FALSE
        BY <1>0, <3>1
      <4>2. Radix * (s + 1) <= Radix * K
        BY <1>0, <3>1, <4>1, Product
      <4>3. Radix * (s + 1) = Radix * s + Radix
        BY <1>0, <3>1
      <4>. QED  BY <1>0, <2>3, <2>7, <3>1, <4>2, <4>3
    <3>5. K * IntLen(s) <= s + C
      BY <2>2, <3>1, <3>3
    <3>6. K * IntLen(m) = K + K * IntLen(s) /\ K * IntLen(s) \in Nat
      BY <1>0, <3>1, <3>3, IntLenOf
    <3> HIDE DEF C
    <3>. QED  BY <1>0, <2>3, <3>1, <3>4, <3>5, <3>6
  <2>. QED  BY <1>0, <2>3, <2>5, <2>6, <2>7
<1> HIDE DEF C
<1> DEFINE x == C + 2 * c
<1>2. x \in Nat /\ x \notin B
  BY <1>0, <1>1
<1>3. K * IntLen(x) <= x + C
  BY <1>2
<1>4. IntLen(x) \in Nat
  BY <1>2, IntLenOf
<1>5. K * IntLen(x) = 2 * (k * IntLen(x)) /\ k * IntLen(x) \in Nat
  BY <1>4 DEF K
<1>6. k * IntLen(x) + c <= x
  <2>1. x = C + 2 * c
    OBVIOUS
  <2> HIDE DEF x, B
  <2>. QED  BY <1>0, <1>2, <1>3, <1>5, <2>1
<1>. QED  BY <1>2, <1>6

(* The offset in the header of an id box has the length it counts itself with. *)
THEOREM HeaderLenOf ==
  ASSUME NEW body \in Nat
  PROVE  HeaderLen(body) \in Nat /\ IntLen(1 + HeaderLen(body) + body) = HeaderLen(body)
<1> DEFINE F == [g \in Nat |-> IntLen(1 + g + body)]
           Solves(h) == h = [g \in Nat |-> LET l == IntLen(1 + g + body)
                                           IN  IF l = g THEN g ELSE h[l]]
           guess == CHOOSE h : Solves(h)
<1>1. Rising(F)
  <2>1. ASSUME NEW g \in Nat PROVE F[g] \in Nat
    BY IntLenOf
  <2>2. ASSUME NEW m \in Nat, NEW n \in Nat, m <= n PROVE F[m] <= F[n]
    BY <2>2, IntLenMonotone
  <2>3. DOMAIN F = Nat /\ F = [g \in DOMAIN F |-> F[g]]
    OBVIOUS
  <2> HIDE DEF F
  <2>. QED  BY <2>1, <2>2, <2>3 DEF Rising
<1>2. \A h : Solves(h) <=> Settles(F, h)
  <2>1. \A h : Settles(F, h) <=> h = [g \in Nat |-> IF F[g] = g THEN g ELSE h[F[g]]]
    BY DEF Settles
  <2>2. \A g \in Nat : F[g] = IntLen(1 + g + body)
    OBVIOUS
  <2> HIDE DEF F
  <2>. QED  BY <2>1, <2>2
<1>3. HeaderLen(body) = guess[1]
  BY DEF HeaderLen
<1>4. Settles(F, guess)
  <2>1. PICK h : Settles(F, h)
    <3> HIDE DEF F
    <3>. QED  BY <1>1, LoopExists
  <2>2. Solves(h)
    BY <1>2, <2>1
  <2> HIDE DEF Solves, F
  <2>3. Solves(guess)
    BY <2>2
  <2>. QED  BY <1>2, <2>3
<1> HIDE DEF guess
<1>5. PICK x \in Nat : 1 * IntLen(x) + (1 + body) <= x
  BY LengthOutgrown
<1> DEFINE B == IntLen(x)
<1>6. B \in Nat /\ 1 <= B /\ 1 + B + body <= x
  BY <1>5, IntLenOf
<1>7. F[B] <= B
  BY <1>6, IntLenMonotone
<1>8. 1 <= F[1]
  BY IntLenOf
<1>9. guess[1] \in Nat /\ F[guess[1]] = guess[1]
  <2> HIDE DEF F, B
  <2>. QED  BY <1>1, <1>4, <1>6, <1>7, <1>8, LoopEnds
<1>. QED  BY <1>3, <1>9

(* The lengths of the offsets of parts, the first of which is at first.     *)
OffsetLens(lens, first) == [i \in 1 .. Len(lens) |-> IntLen(Starts(lens, first)[i])]

(* A table ends behind its count and the offsets it stores.                 *)
LEMMA TableEndOf ==
  ASSUME NEW lens \in Seq(Nat), NEW first \in Nat
  PROVE  /\ PartOffsets(lens, first) \in Seq(Nat) /\ Len(PartOffsets(lens, first)) = Len(lens)
         /\ \A i \in 1 .. Len(lens) : PartOffsets(lens, first)[i] = Starts(lens, first)[i]
         /\ OffsetLens(lens, first) \in Seq(Nat)
         /\ Len(OffsetLens(lens, first)) = Len(lens)
         /\ TableEnd(PartOffsets(lens, first)) =
              Starts(OffsetLens(lens, first), 1 + IntLen(Len(lens)))[Len(lens) + 1]
         /\ TableEnd(PartOffsets(lens, first)) \in Nat
<1> DEFINE k == Len(lens)
           S == Starts(lens, first)
           offs == PartOffsets(lens, first)
           L == OffsetLens(lens, first)
<1>1. k \in Nat /\ DOMAIN lens = 1 .. k
  OBVIOUS
<1>2. \A i \in 1 .. k : S[i] \in Nat
  <2>1. S \in [1 .. k + 1 -> Nat]
    BY StartsOf
  <2> HIDE DEF S
  <2>. QED  BY <1>1, <2>1
<1>3. offs = [i \in 1 .. k |-> S[i]]
  BY <1>1 DEF PartOffsets
<1>4. offs \in Seq(Nat) /\ Len(offs) = k /\ DOMAIN offs = 1 .. k
      /\ \A i \in 1 .. k : offs[i] = S[i]
  <2> HIDE DEF S, offs
  <2>. QED  BY <1>1, <1>2, <1>3
<1>5. L = [i \in 1 .. k |-> IntLen(S[i])]
  BY DEF OffsetLens
<1>6. L \in Seq(Nat) /\ Len(L) = k
  <2>1. \A i \in 1 .. k : IntLen(S[i]) \in Nat
    BY <1>2, IntLenOf
  <2> HIDE DEF S, L, k
  <2>. QED  BY <1>1, <1>5, <2>1
<1>7. TableEnd(offs) = Starts(L, 1 + IntLen(k))[k + 1]
  <2>1. [i \in DOMAIN offs |-> IntLen(offs[i])] = L
    <3> HIDE DEF offs, L, S
    <3>. QED  BY <1>4, <1>5
  <2> HIDE DEF offs, L
  <2>. QED  BY <1>4, <2>1 DEF TableEnd
<1>8. TableEnd(offs) \in Nat
  <2>1. 1 + IntLen(k) \in Nat
    BY <1>1, IntLenOf
  <2>2. Starts(L, 1 + IntLen(k)) \in [1 .. Len(L) + 1 -> Nat]
    <3> HIDE DEF L
    <3>. QED  BY <1>6, <2>1, StartsOf
  <2> HIDE DEF L, offs
  <2>. QED  BY <1>1, <1>6, <1>7, <2>2, SMTT(30)
<1> HIDE DEF offs, S, L
<1>. QED  BY <1>4, <1>6, <1>7, <1>8 DEF offs, S, L

(* Where parts of the given lengths are put is where the table of these
   places ends.                                                             *)
THEOREM StableOffsetsOf ==
  ASSUME NEW lens \in Seq(Nat)
  PROVE  \E first \in Nat : /\ StableOffsets(lens) = PartOffsets(lens, first)
                            /\ TableEnd(PartOffsets(lens, first)) = first
<1> DEFINE k == Len(lens)
           F == [first \in Nat |-> TableEnd(PartOffsets(lens, first))]
           Solves(h) == h = [first \in Nat |->
                               LET next == TableEnd(PartOffsets(lens, first))
                               IN  IF next = first THEN first ELSE h[next]]
           end == CHOOSE h : Solves(h)
           c == 1 + IntLen(k)
           s == c + k
           L(first) == OffsetLens(lens, first)
<1>0. k \in Nat /\ c \in Nat /\ s \in Nat
  BY IntLenOf, SMTT(30)
<1>1. \A g \in Nat : F[g] = TableEnd(PartOffsets(lens, g)) /\ F[g] \in Nat
  BY TableEndOf
<1>2. \A g \in Nat : L(g) \in Seq(Nat) /\ Len(L(g)) = k /\ F[g] = Starts(L(g), c)[k + 1]
  BY TableEndOf
<1>3. \A g \in Nat : \A i \in 1 .. k : L(g)[i] = IntLen(Starts(lens, g)[i])
  BY DEF OffsetLens
<1>4. \A g \in Nat : \A i \in 1 .. k : Starts(lens, g)[i] \in Nat
  <2>1. ASSUME NEW g \in Nat PROVE Starts(lens, g) \in [1 .. k + 1 -> Nat]
    BY StartsOf
  <2>2. \A i \in 1 .. k : i \in 1 .. k + 1
    BY <1>0
  <2> HIDE DEF k
  <2>. QED  BY <2>1, <2>2
<1>d. DOMAIN F = Nat /\ F = [g \in DOMAIN F |-> F[g]]
  OBVIOUS
<1>5. \A h : Solves(h) <=> Settles(F, h)
  <2>1. \A h : Settles(F, h) <=> h = [g \in Nat |-> IF F[g] = g THEN g ELSE h[F[g]]]
    BY DEF Settles
  <2>2. \A g \in Nat : TableEnd(PartOffsets(lens, g)) = F[g]
    BY <1>1
  <2> HIDE DEF F
  <2>3. \A h : [g \in Nat |-> IF F[g] = g THEN g ELSE h[F[g]]] =
                  [first \in Nat |-> LET next == TableEnd(PartOffsets(lens, first))
                                     IN  IF next = first THEN first ELSE h[next]]
    BY <2>2
  <2>. QED  BY <2>1, <2>3
<1>6. StableOffsets(lens) = PartOffsets(lens, end[s])
  BY DEF StableOffsets
<1> HIDE DEF F, L
<1>7. Rising(F)
  <2>1. ASSUME NEW m \in Nat, NEW n \in Nat, m <= n PROVE F[m] <= F[n]
    <3>1. ASSUME NEW i \in 1 .. k PROVE L(m)[i] <= L(n)[i]
      <4>1. i \in 1 .. k + 1 /\ \A j \in 1 .. k : lens[j] <= lens[j]
        BY <1>0
      <4>2. Starts(lens, m)[i] <= Starts(lens, n)[i]
        BY <2>1, <4>1, StartsMonotone
      <4>3. Starts(lens, m)[i] \in Nat /\ Starts(lens, n)[i] \in Nat
        BY <1>4
      <4>4. IntLen(Starts(lens, m)[i]) <= IntLen(Starts(lens, n)[i])
        BY <4>2, <4>3, IntLenMonotone
      <4>. QED  BY <1>3, <4>4
    <3>2. /\ L(m) \in Seq(Nat) /\ L(n) \in Seq(Nat) /\ Len(L(m)) = k /\ Len(L(n)) = k
          /\ c <= c /\ k + 1 \in 1 .. k + 1
      BY <1>0, <1>2
    <3> HIDE DEF c, k
    <3>3. \A i \in 1 .. Len(L(m)) : L(m)[i] <= L(n)[i]
      BY <3>1, <3>2
    <3>4. k + 1 \in 1 .. Len(L(m)) + 1 /\ Len(L(m)) = Len(L(n))
      BY <3>2
    <3>5. Starts(L(m), c)[k + 1] <= Starts(L(n), c)[k + 1]
      BY <1>0, <3>2, <3>3, <3>4, StartsMonotone
    <3>. QED  BY <1>2, <3>5
  <2>. QED  BY <1>1, <1>d, <2>1 DEF Rising
<1>8. Settles(F, end)
  <2>1. PICK h : Settles(F, h)
    BY <1>7, LoopExists
  <2>2. Solves(h)
    BY <1>5, <2>1
  <2> HIDE DEF Solves
  <2>3. Solves(end)
    BY <2>2
  <2>. QED  BY <1>5, <2>3
<1>9. s <= F[s]
  <2> DEFINE ones == [i \in 1 .. k |-> 1]
  <2>1. ones \in Seq(Nat) /\ Len(ones) = k /\ \A i \in 1 .. k : ones[i] = 1
    BY <1>0
  <2>2. Starts(ones, c)[k + 1] = c + k * 1
    <3> HIDE DEF k, c
    <3>. QED  BY <1>0, StartsEven
  <2> HIDE DEF ones
  <2>3. \A i \in 1 .. k : ones[i] <= L(s)[i]
    <3> HIDE DEF s, k
    <3>. QED  BY <1>0, <1>3, <1>4, <2>1, IntLenOf
  <2>4. L(s) \in Seq(Nat) /\ Len(L(s)) = k /\ c <= c /\ k + 1 \in 1 .. k + 1
    BY <1>0, <1>2
  <2> HIDE DEF s, k, c
  <2>5. k + 1 \in 1 .. Len(ones) + 1 /\ Len(ones) = Len(L(s))
        /\ \A i \in 1 .. Len(ones) : ones[i] <= L(s)[i]
    BY <2>1, <2>3, <2>4
  <2>6. Starts(ones, c)[k + 1] <= Starts(L(s), c)[k + 1]
    BY <1>0, <2>1, <2>4, <2>5, StartsMonotone
  <2>7. F[s] = Starts(L(s), c)[k + 1]
    BY <1>0, <1>2
  <2>. QED  BY <1>0, <2>2, <2>6, <2>7 DEF s
<1> DEFINE T == Starts(lens, 0)[k + 1]
<1>10. T \in Nat /\ k + 1 \in 1 .. k + 1
  <2>1. Starts(lens, 0) \in [1 .. k + 1 -> Nat]
    BY StartsOf
  <2>2. k + 1 \in 1 .. k + 1
    BY <1>0
  <2> HIDE DEF k
  <2>. QED  BY <2>1, <2>2
<1>11. \A g \in Nat : \A i \in 1 .. k : Starts(lens, g)[i] <= g + T
  <2> SUFFICES ASSUME NEW g \in Nat, NEW i \in 1 .. k PROVE Starts(lens, g)[i] <= g + T
    OBVIOUS
  <2>1. i \in 1 .. k + 1 /\ k + 1 \in i .. k + 1
    BY <1>0
  <2>2. Starts(lens, g)[i] <= Starts(lens, g)[k + 1]
    BY <2>1, StartsOrdered
  <2>3. Starts(lens, 0 + g)[k + 1] = T + g
    BY <1>10, StartsShifted
  <2>4. 0 + g = g
    OBVIOUS
  <2> HIDE DEF T, k
  <2>. QED  BY <1>10, <2>2, <2>3, <2>4
<1> HIDE DEF T
<1>12. PICK x \in Nat : k * IntLen(x) + (c + T) <= x
  <2>1. c + T \in Nat
    BY <1>0, <1>10
  <2> HIDE DEF c, k
  <2>. QED  BY <1>0, <2>1, LengthOutgrown
<1> DEFINE m == IntLen(x)
           B == c + k * m
<1>13. m \in Nat /\ m >= 1 /\ k * m \in Nat /\ B \in Nat /\ B + T <= x
  <2>1. m \in Nat /\ m >= 1
    BY IntLenOf
  <2>2. k * m \in Nat
    BY <1>0, <2>1
  <2> HIDE DEF c, k
  <2>. QED  BY <1>0, <1>10, <1>12, <2>1, <2>2
<1>14. s <= B
  <2>1. k * 1 <= k * m
    <3> HIDE DEF m, k
    <3>. QED  BY <1>0, <1>13, Product
  <2> HIDE DEF c, k, m
  <2>. QED  BY <1>0, <1>13, <2>1 DEF s
<1>15. F[B] <= B
  <2> DEFINE even == [i \in 1 .. k |-> m]
  <2>1. even \in Seq(Nat) /\ Len(even) = k /\ \A i \in 1 .. k : even[i] = m
    BY <1>0, <1>13
  <2>2. Starts(even, c)[k + 1] = c + k * m
    <3> HIDE DEF k, c, m
    <3>. QED  BY <1>0, <1>13, StartsEven
  <2> HIDE DEF even
  <2>3. ASSUME NEW i \in 1 .. k PROVE L(B)[i] <= even[i]
    <3> HIDE DEF B
    <3>1. Starts(lens, B)[i] \in Nat /\ Starts(lens, B)[i] <= B + T
      BY <1>4, <1>11, <1>13
    <3>2. Starts(lens, B)[i] <= x
      BY <1>10, <1>13, <3>1
    <3>3. IntLen(Starts(lens, B)[i]) <= m
      BY <3>1, <3>2, IntLenMonotone
    <3>. QED  BY <1>3, <1>13, <2>1, <3>3
  <2>4. L(B) \in Seq(Nat) /\ Len(L(B)) = k /\ c <= c /\ F[B] = Starts(L(B), c)[k + 1]
    <3> HIDE DEF B
    <3>. QED  BY <1>0, <1>2, <1>13
  <2> HIDE DEF s, k, c, m
  <2>5. k + 1 \in 1 .. Len(L(B)) + 1 /\ Len(L(B)) = Len(even)
        /\ \A i \in 1 .. Len(L(B)) : L(B)[i] <= even[i]
    BY <1>10, <2>1, <2>3, <2>4
  <2>6. Starts(L(B), c)[k + 1] <= Starts(even, c)[k + 1]
    <3> HIDE DEF B
    <3>. QED  BY <1>0, <2>1, <2>4, <2>5, StartsMonotone
  <2>7. Starts(even, c)[k + 1] = B
    BY <2>2
  <2>. QED  BY <2>4, <2>6, <2>7
<1> HIDE DEF end, B, s
<1>16. end[s] \in Nat /\ F[end[s]] = end[s]
  BY <1>0, <1>7, <1>8, <1>9, <1>13, <1>14, <1>15, LoopEnds
<1>17. TableEnd(PartOffsets(lens, end[s])) = end[s]
  BY <1>1, <1>16
<1>. QED  BY <1>6, <1>16, <1>17

-----------------------------------------------------------------------------
(* Where things are in a box.                                               *)

(* Joined bytes are bytes, as many as there are in both.                    *)
LEMMA Joined ==
  ASSUME NEW s \in Seq(Nat), NEW t \in Seq(Nat)
  PROVE  s \o t \in Seq(Nat) /\ Len(s \o t) = Len(s) + Len(t)
OBVIOUS

(* A byte in front of others.                                               *)
LEMMA Tagged ==
  ASSUME NEW x \in Nat, NEW s \in Seq(Nat)
  PROVE  /\ <<x>> \o s \in Seq(Nat) /\ Len(<<x>> \o s) = 1 + Len(s)
         /\ \A b \in Seq(Nat) : \A p \in Nat :
              Holds(b, p, <<x>> \o s) => b[p + 1] = x /\ Holds(b, p + 1, s)
<1>1. <<x>> \in Seq(Nat) /\ Len(<<x>>) = 1 /\ <<x>>[1] = x
  OBVIOUS
<1>2. ASSUME NEW b \in Seq(Nat), NEW p \in Nat, Holds(b, p, <<x>> \o s)
      PROVE  b[p + 1] = x /\ Holds(b, p + 1, s)
  <2>1. Holds(b, p, <<x>>) /\ Holds(b, p + 1, s)
    BY <1>1, <1>2, HoldsParts
  <2>. QED  BY <1>1, <2>1 DEF Holds
<1>. QED  BY <1>1, <1>2, Joined

(* A plain value is its type and its digits.                                *)
LEMMA PlainBytesOf ==
  ASSUME NEW n \in Nat
  PROVE  /\ PlainBytes(n) \in Seq(Nat) /\ Len(PlainBytes(n)) = 1 + IntLen(n)
         /\ \A b \in Seq(Nat) : \A p \in Nat : Holds(b, p, PlainBytes(n)) =>
              b[p + 1] = serialize_positive_int /\ Holds(b, p + 1, Digits[n])
<1>1. Digits[n] \in Seq(Nat) /\ Len(Digits[n]) = IntLen(n)
  BY DigitsMarked
<1>2. serialize_positive_int \in Nat
  BY DEF serialize_positive_int
<1>. QED  BY <1>1, <1>2, Tagged DEF PlainBytes

(* A tag and a number in front of bytes.                                    *)
LEMMA Numbered ==
  ASSUME NEW x \in Nat, NEW n \in Nat, NEW s \in Seq(Nat)
  PROVE  /\ <<x>> \o Digits[n] \o s \in Seq(Nat)
         /\ Len(<<x>> \o Digits[n] \o s) = 1 + IntLen(n) + Len(s)
         /\ \A b \in Seq(Nat) : \A p \in Nat : Holds(b, p, <<x>> \o Digits[n] \o s) =>
              /\ b[p + 1] = x /\ Holds(b, p + 1, Digits[n])
              /\ Holds(b, p + 1 + IntLen(n), s)
<1>1. Digits[n] \in Seq(Nat) /\ Len(Digits[n]) = IntLen(n) /\ IntLen(n) \in Nat
  BY DigitsMarked, IntLenOf
<1>2. <<x>> \o Digits[n] \in Seq(Nat) /\ Len(<<x>> \o Digits[n]) = 1 + IntLen(n)
  BY <1>1, Tagged
<1>3. ASSUME NEW b \in Seq(Nat), NEW p \in Nat, Holds(b, p, <<x>> \o Digits[n] \o s)
      PROVE  /\ b[p + 1] = x /\ Holds(b, p + 1, Digits[n])
             /\ Holds(b, p + 1 + IntLen(n), s)
  <2>1. Holds(b, p, <<x>> \o Digits[n]) /\ Holds(b, p + (1 + IntLen(n)), s)
    BY <1>2, <1>3, HoldsParts
  <2>2. p + (1 + IntLen(n)) = p + 1 + IntLen(n)
    BY <1>1
  <2>. QED  BY <1>1, <2>1, <2>2, Tagged
<1>4. Len(<<x>> \o Digits[n] \o s) = 1 + IntLen(n) + Len(s)
  BY <1>2, Joined
<1>. QED  BY <1>2, <1>3, <1>4, Joined

(* The lengths in the id box of a value: its payload, what lies between its
   header and its table, and its offset.                                    *)
PayloadLen(v) == 1 + IntLen(v.n)
BodyLen(v) == 2 + IntLen(PayloadLen(v)) + PayloadLen(v)
TableAt(v) == 1 + HeaderLen(BodyLen(v)) + BodyLen(v)

(* Everything the reader of an id box at p looks at.                        *)
IdBoxAt(b, p, v) ==
  /\ b[p + 1] = serialize_str_pool_table
  /\ Holds(b, p + 1, Digits[TableAt(v)])
  /\ b[p + 1 + IntLen(TableAt(v)) + 1] = serialize_name_idx
  /\ Holds(b, p + 2 + IntLen(TableAt(v)), Digits[0])
  /\ Holds(b, p + 3 + IntLen(TableAt(v)), Digits[PayloadLen(v)])
  /\ Holds(b, p + TableAt(v) - PayloadLen(v), PlainBytes(v.n))
  /\ b[p + TableAt(v) + 1] = serialize_str_trie_pool
  /\ b[p + TableAt(v) + 2] = v.name

(* Values are numbers.                                                      *)
LEMMA Values ==
  ASSUME NEW v \in Value
  PROVE  v.n \in Nat /\ v.name \in Nat /\ v = [name |-> v.name, n |-> v.n]
<1>1. v.n \in Ints /\ v.name \in Names \cup {0} /\ v = [name |-> v.name, n |-> v.n]
  BY DEF Value
<1>2. v.n \in Nat
  BY <1>1, BoxWriterAssumption
<1>3. v.name \in Nat
  BY <1>1, BoxWriterAssumption
<1>. QED  BY <1>1, <1>2, <1>3

(* The lengths in an id box: its offset takes the bytes it counts for itself. *)
LEMMA IdBoxLens ==
  ASSUME NEW v \in Value
  PROVE  /\ PayloadLen(v) \in Nat /\ PayloadLen(v) >= 1
         /\ IntLen(PayloadLen(v)) \in Nat /\ BodyLen(v) \in Nat
         /\ TableAt(v) \in Nat /\ IntLen(TableAt(v)) \in Nat
         /\ HeaderLen(BodyLen(v)) = IntLen(TableAt(v))
         /\ TableAt(v) = 3 + IntLen(TableAt(v)) + IntLen(PayloadLen(v)) + PayloadLen(v)
<1>1. PayloadLen(v) \in Nat /\ PayloadLen(v) >= 1
  BY Values, IntLenOf DEF PayloadLen
<1>2. IntLen(PayloadLen(v)) \in Nat
  BY <1>1, IntLenOf
<1>3. BodyLen(v) \in Nat
  BY <1>1, <1>2 DEF BodyLen
<1>4. HeaderLen(BodyLen(v)) \in Nat /\ IntLen(TableAt(v)) = HeaderLen(BodyLen(v))
  BY <1>3, HeaderLenOf DEF TableAt
<1>5. TableAt(v) = 1 + IntLen(TableAt(v)) + BodyLen(v)
  BY <1>4 DEF TableAt
<1> HIDE DEF TableAt
<1>6. BodyLen(v) = 2 + IntLen(PayloadLen(v)) + PayloadLen(v)
  BY DEF BodyLen
<1>. QED  BY <1>1, <1>2, <1>3, <1>4, <1>5, <1>6

(* An id box has what its reader looks for.                                 *)
LEMMA IdBoxBytesOf ==
  ASSUME NEW v \in Value
  PROVE  /\ IdBoxBytes(v) \in Seq(Nat) /\ Len(IdBoxBytes(v)) = TableAt(v) + 2
         /\ \A b \in Seq(Nat) : \A p \in Nat : Holds(b, p, IdBoxBytes(v)) => IdBoxAt(b, p, v)
<1> DEFINE payload == PlainBytes(v.n)
           intro == <<serialize_name_idx>> \o Digits[0]
           part == intro \o Digits[Len(payload)]
           body == part \o payload
           off == 1 + HeaderLen(Len(body)) + Len(body)
           head == <<serialize_str_pool_table>> \o Digits[off]
           table == <<serialize_str_trie_pool, v.name>>
           pl == PayloadLen(v)
           o == TableAt(v)
<1>0. /\ serialize_name_idx \in Nat /\ serialize_str_pool_table \in Nat
      /\ serialize_str_trie_pool \in Nat /\ v.n \in Nat /\ v.name \in Nat
  BY Values DEF serialize_name_idx, serialize_str_pool_table, serialize_str_trie_pool
<1>1. IdBoxBytes(v) = head \o body \o table
  BY DEF IdBoxBytes
<1>2. payload \in Seq(Nat) /\ Len(payload) = pl
  BY <1>0, PlainBytesOf DEF PayloadLen
<1>3. Digits[0] \in Seq(Nat) /\ Len(Digits[0]) = 1 /\ 0 \in Nat
  <2>1. 0 < Radix /\ 0 \in Nat
    BY WireAssumption
  <2>. QED  BY <2>1, DigitsMarked, IntLenOf
<1>4. /\ pl \in Nat /\ pl >= 1 /\ IntLen(pl) \in Nat /\ o \in Nat /\ IntLen(o) \in Nat
      /\ o = 3 + IntLen(o) + IntLen(pl) + pl /\ BodyLen(v) \in Nat
      /\ o = 1 + HeaderLen(BodyLen(v)) + BodyLen(v) /\ BodyLen(v) = 2 + IntLen(pl) + pl
  BY IdBoxLens DEF TableAt, BodyLen
<1> HIDE DEF payload, pl, o
<1>5. intro \in Seq(Nat) /\ Len(intro) = 2
  <2>1. intro \in Seq(Nat) /\ Len(intro) = 1 + Len(Digits[0])
    BY <1>0, <1>3, Tagged
  <2> HIDE DEF intro
  <2>. QED  BY <1>3, <2>1
<1>6. Digits[Len(payload)] \in Seq(Nat) /\ Len(Digits[Len(payload)]) = IntLen(pl)
  BY <1>2, <1>4, DigitsMarked
<1>7. part \in Seq(Nat) /\ Len(part) = 2 + IntLen(pl)
  <2> HIDE DEF intro
  <2>. QED  BY <1>5, <1>6, Joined
<1>8. body \in Seq(Nat) /\ Len(body) = BodyLen(v)
  <2> HIDE DEF part
  <2>. QED  BY <1>2, <1>4, <1>7, Joined
<1>9. off = o
  <2> HIDE DEF body
  <2>. QED  BY <1>4, <1>8
<1>10. head \in Seq(Nat) /\ Len(head) = 1 + IntLen(o)
  <2> HIDE DEF off
  <2>1. Digits[off] \in Seq(Nat) /\ Len(Digits[off]) = IntLen(o)
    BY <1>4, <1>9, DigitsMarked
  <2>. QED  BY <1>0, <2>1, Tagged
<1>11. head \o body \in Seq(Nat) /\ Len(head \o body) = o
  <2> HIDE DEF head, body
  <2>1. head \o body \in Seq(Nat) /\ Len(head \o body) = 1 + IntLen(o) + BodyLen(v)
    BY <1>8, <1>10, Joined
  <2>. QED  BY <1>4, <2>1
<1>12. /\ table \in Seq(Nat) /\ Len(table) = 2
       /\ table[1] = serialize_str_trie_pool /\ table[2] = v.name
  BY <1>0
<1>13. IdBoxBytes(v) \in Seq(Nat) /\ Len(IdBoxBytes(v)) = o + 2
  <2> HIDE DEF head, body, table
  <2> DEFINE front == head \o body
  <2>1. front \in Seq(Nat) /\ Len(front) = o /\ IdBoxBytes(v) = front \o table
    BY <1>1, <1>11
  <2> HIDE DEF front
  <2>. QED  BY <1>4, <1>12, <2>1, Joined
<1>14. ASSUME NEW b \in Seq(Nat), NEW p \in Nat, Holds(b, p, IdBoxBytes(v))
       PROVE  IdBoxAt(b, p, v)
  <2>1. Holds(b, p, head \o body) /\ Holds(b, p + o, table)
    <3> HIDE DEF head, body, table
    <3> DEFINE front == head \o body
    <3>1. front \in Seq(Nat) /\ Len(front) = o /\ Holds(b, p, front \o table)
      BY <1>1, <1>11, <1>14
    <3> HIDE DEF front
    <3>2. Holds(b, p, front) /\ Holds(b, p + o, table)
      BY <1>12, <3>1, HoldsParts
    <3>. QED  BY <3>2 DEF front
  <2>2. Holds(b, p, head) /\ Holds(b, p + (1 + IntLen(o)), body)
    <3> HIDE DEF head, body, table
    <3>. QED  BY <1>8, <1>10, <2>1, HoldsParts
  <2> DEFINE h == p + (1 + IntLen(o))
  <2>3. h \in Nat
    BY <1>4
  <2>4. b[p + 1] = serialize_str_pool_table /\ Holds(b, p + 1, Digits[o])
    <3>1. head = <<serialize_str_pool_table>> \o Digits[o]
      BY <1>9
    <3>2. Digits[o] \in Seq(Nat)
      BY <1>4, DigitsMarked
    <3> HIDE DEF head
    <3>. QED  BY <1>0, <2>2, <3>1, <3>2, Tagged
  <2>5. Holds(b, h, part) /\ Holds(b, h + (2 + IntLen(pl)), payload)
    <3> HIDE DEF part, h
    <3>. QED  BY <1>2, <1>7, <2>2, <2>3, HoldsParts DEF h
  <2>6. Holds(b, h, intro) /\ Holds(b, h + 2, Digits[pl])
    <3>1. part = intro \o Digits[pl]
      BY <1>2
    <3> HIDE DEF intro, h, part
    <3>. QED  BY <1>2, <1>5, <1>6, <2>3, <2>5, <3>1, HoldsParts
  <2>7. b[h + 1] = serialize_name_idx /\ Holds(b, h + 1, Digits[0])
    <3> HIDE DEF h
    <3>. QED  BY <1>0, <1>3, <2>3, <2>6, Tagged
  <2>8. b[p + o + 1] = serialize_str_trie_pool /\ b[p + o + 2] = v.name
    <3>1. 1 \in 1 .. Len(table) /\ 2 \in 1 .. Len(table)
      BY <1>12
    <3> HIDE DEF table
    <3>. QED  BY <1>12, <2>1, <3>1 DEF Holds
  <2>9. /\ h + 1 = p + 1 + IntLen(o) + 1 /\ h + 1 = p + 2 + IntLen(o)
        /\ h + 2 = p + 3 + IntLen(o) /\ h + (2 + IntLen(pl)) = p + o - pl
    <3>1. h = p + (1 + IntLen(o))
      OBVIOUS
    <3> HIDE DEF h, head, body, off, part, intro, table
    <3>2. h + 1 = p + 1 + IntLen(o) + 1 /\ h + 1 = p + 2 + IntLen(o)
      BY <1>4, <3>1, SMTT(30)
    <3>3. h + 2 = p + 3 + IntLen(o)
      BY <1>4, <3>1, SMTT(30)
    <3>4. h + (2 + IntLen(pl)) = p + o - pl
      <4>1. \A a, i, j, k \in Nat :
              a + (1 + i) + (2 + j) = a + (3 + i + j + k) - k
        OBVIOUS
      <4>2. (p + (1 + IntLen(o))) + (2 + IntLen(pl)) = p + (3 + IntLen(o) + IntLen(pl) + pl) - pl
        <5>1. IntLen(o) \in Nat /\ IntLen(pl) \in Nat /\ pl \in Nat
          BY <1>4
        <5>. QED  BY <4>1, <5>1
      <4>3. 3 + IntLen(o) + IntLen(pl) + pl = o
        BY <1>4
      <4>. QED  BY <3>1, <4>2, <4>3
    <3>. QED  BY <3>2, <3>3, <3>4
  <2> HIDE DEF h
  <2>10. /\ Holds(b, p + 1, Digits[o]) /\ b[p + 1 + IntLen(o) + 1] = serialize_name_idx
         /\ Holds(b, p + 2 + IntLen(o), Digits[0]) /\ Holds(b, p + 3 + IntLen(o), Digits[pl])
         /\ Holds(b, p + o - pl, payload)
    BY <2>4, <2>5, <2>6, <2>7, <2>9
  <2>. QED  BY <2>4, <2>8, <2>10 DEF IdBoxAt, payload, pl, o
<1>. QED  BY <1>13, <1>14 DEF o

(* Whatever a value is, it has a tag and more.                              *)
LEMMA ValueBytesOf ==
  ASSUME NEW v \in Value
  PROVE  /\ ValueBytes(v) \in Seq(Nat) /\ Len(ValueBytes(v)) \in Nat /\ Len(ValueBytes(v)) >= 2
         /\ v.name = 0 => ValueBytes(v) = PlainBytes(v.n)
         /\ v.name # 0 => ValueBytes(v) = IdBoxBytes(v)
<1>1. CASE v.name = 0
  <2>1. ValueBytes(v) = PlainBytes(v.n)
    BY <1>1 DEF ValueBytes
  <2>. QED  BY <1>1, <2>1, Values, PlainBytesOf, IntLenOf
<1>2. CASE v.name # 0
  <2>1. ValueBytes(v) = IdBoxBytes(v)
    BY <1>2 DEF ValueBytes
  <2>. QED  BY <1>2, <2>1, IdBoxBytesOf, IdBoxLens, SMTT(30)
<1>. QED  BY <1>1, <1>2

(* Pieces that are not empty are not more than the bytes they take.         *)
LEMMA StartsCount ==
  ASSUME NEW lens \in Seq(Nat), NEW a \in Nat, \A i \in 1 .. Len(lens) : lens[i] >= 1
  PROVE  a + Len(lens) <= Starts(lens, a)[Len(lens) + 1]
<1> DEFINE k == Len(lens)
           ones == [i \in 1 .. k |-> 1]
<1>1. k \in Nat /\ ones \in Seq(Nat) /\ Len(ones) = k /\ \A i \in 1 .. k : ones[i] = 1
  OBVIOUS
<1>2. Starts(ones, a)[k + 1] = a + k * 1
  <2> HIDE DEF k
  <2>. QED  BY <1>1, StartsEven
<1> HIDE DEF ones
<1>3. \A i \in 1 .. Len(ones) : ones[i] <= lens[i]
  BY <1>1
<1>4. a <= a /\ k + 1 \in 1 .. Len(ones) + 1 /\ Len(ones) = Len(lens)
  BY <1>1
<1>5. Starts(ones, a)[k + 1] <= Starts(lens, a)[k + 1]
  BY <1>1, <1>3, <1>4, StartsMonotone
<1>. QED  BY <1>1, <1>2, <1>5

(* Where the entries of a list that starts at p start.                      *)
EntryLens(vers, vs) == [i \in 1 .. Len(vs) |-> IntLen(vers[i]) + Len(ValueBytes(vs[i]))]
Entries(vers, vs, p) == Starts(EntryLens(vers, vs), p + 1 + IntLen(Len(vs)))

(* A list from p to q of values under versions.                             *)
ListAt(b, p, q, vers, vs) ==
  /\ b[p + 1] = serialize_version_list
  /\ Holds(b, p + 1, Digits[Len(vs)])
  /\ \A i \in 1 .. Len(vs) :
       /\ Holds(b, Entries(vers, vs, p)[i], Digits[vers[i]])
       /\ Holds(b, Entries(vers, vs, p)[i] + IntLen(vers[i]), ValueBytes(vs[i]))
  /\ Entries(vers, vs, p)[Len(vs) + 1] = q

(* One entry follows the other.                                             *)
LEMMA EntriesOf ==
  ASSUME NEW vs \in Seq(Value), NEW vers \in Seq(Nat), Len(vers) = Len(vs), NEW p \in Nat
  PROVE  /\ EntryLens(vers, vs) \in Seq(Nat) /\ Len(EntryLens(vers, vs)) = Len(vs)
         /\ \A i \in 1 .. Len(vs) : EntryLens(vers, vs)[i] >= 1
         /\ Entries(vers, vs, p) \in [1 .. Len(vs) + 1 -> Nat]
         /\ Entries(vers, vs, p)[1] = p + 1 + IntLen(Len(vs))
         /\ \A i \in 1 .. Len(vs) : Entries(vers, vs, p)[i + 1] =
              Entries(vers, vs, p)[i] + IntLen(vers[i]) + Len(ValueBytes(vs[i]))
<1> DEFINE k == Len(vs)
           L == EntryLens(vers, vs)
           a == p + 1 + IntLen(k)
<1>1. k \in Nat /\ IntLen(k) \in Nat /\ a \in Nat
  BY IntLenOf
<1>2. \A i \in 1 .. k : /\ IntLen(vers[i]) \in Nat /\ IntLen(vers[i]) >= 1
                        /\ Len(ValueBytes(vs[i])) \in Nat
  <2> SUFFICES ASSUME NEW i \in 1 .. k
               PROVE  /\ IntLen(vers[i]) \in Nat /\ IntLen(vers[i]) >= 1
                      /\ Len(ValueBytes(vs[i])) \in Nat
    OBVIOUS
  <2>1. vers[i] \in Nat /\ vs[i] \in Value
    OBVIOUS
  <2>. QED  BY <2>1, IntLenOf, ValueBytesOf
<1>3. L = [i \in 1 .. k |-> IntLen(vers[i]) + Len(ValueBytes(vs[i]))]
  BY DEF EntryLens
<1>4. /\ L \in Seq(Nat) /\ Len(L) = k
      /\ \A i \in 1 .. k : L[i] = IntLen(vers[i]) + Len(ValueBytes(vs[i])) /\ L[i] >= 1
  <2> HIDE DEF L, k
  <2>1. \A i \in 1 .. k : IntLen(vers[i]) + Len(ValueBytes(vs[i])) \in Nat
    BY <1>2
  <2>2. \A i \in 1 .. k : IntLen(vers[i]) + Len(ValueBytes(vs[i])) >= 1
    BY <1>2
  <2>. QED  BY <1>1, <1>3, <2>1, <2>2
<1> DEFINE E == Entries(vers, vs, p)
<1>5. E \in [1 .. k + 1 -> Nat] /\ E[1] = a /\ \A i \in 1 .. k : E[i + 1] = E[i] + L[i]
  <2>1. E = Starts(L, a)
    BY DEF Entries
  <2> HIDE DEF L, k, a, E
  <2>. QED  BY <1>1, <1>4, <2>1, StartsOf
<1> HIDE DEF L, E
<1>6. ASSUME NEW i \in 1 .. k
      PROVE  E[i + 1] = E[i] + IntLen(vers[i]) + Len(ValueBytes(vs[i]))
  <2>1. E[i] \in Nat
    <3>1. i \in 1 .. k + 1
      BY <1>1
    <3> HIDE DEF k
    <3>. QED  BY <1>5, <3>1
  <2>2. E[i + 1] = E[i] + (IntLen(vers[i]) + Len(ValueBytes(vs[i])))
    BY <1>4, <1>5
  <2>. QED  BY <1>2, <2>1, <2>2
<1>. QED  BY <1>4, <1>5, <1>6 DEF L, E

(* A list is where its bytes are.                                           *)
LEMMA VersionListBytesOf ==
  ASSUME NEW vs \in Seq(Value), vs # <<>>, NEW vers \in Seq(Nat), Len(vers) = Len(vs)
  PROVE  /\ VersionListBytes(vers, vs) \in Seq(Nat)
         /\ Len(vs) <= Len(VersionListBytes(vers, vs))
         /\ \A b \in Seq(Nat) : \A p \in Nat : Holds(b, p, VersionListBytes(vers, vs)) =>
              ListAt(b, p, p + Len(VersionListBytes(vers, vs)), vers, vs)
<1> DEFINE k == Len(vs)
           seqs == [i \in 1 .. k |-> Digits[vers[i]] \o ValueBytes(vs[i])]
           L == EntryLens(vers, vs)
           all == FlattenSeq(seqs)
           a == 1 + IntLen(k)
           bytes1 == VersionListBytes(vers, vs)
<1>0. k \in Nat /\ k >= 1 /\ DOMAIN vs = 1 .. k /\ IntLen(k) \in Nat /\ a \in Nat
      /\ serialize_version_list \in Nat
  <2>1. k \in Nat /\ k >= 1 /\ DOMAIN vs = 1 .. k
    BY EmptySeq
  <2>2. IntLen(k) \in Nat
    BY <2>1, IntLenOf
  <2>. QED  BY <2>1, <2>2 DEF serialize_version_list
<1>1. \A i \in 1 .. k : /\ Digits[vers[i]] \in Seq(Nat) /\ ValueBytes(vs[i]) \in Seq(Nat)
                        /\ Len(Digits[vers[i]]) = IntLen(vers[i]) /\ IntLen(vers[i]) \in Nat
  <2> SUFFICES ASSUME NEW i \in 1 .. k
               PROVE  /\ Digits[vers[i]] \in Seq(Nat) /\ ValueBytes(vs[i]) \in Seq(Nat)
                      /\ Len(Digits[vers[i]]) = IntLen(vers[i]) /\ IntLen(vers[i]) \in Nat
    OBVIOUS
  <2>1. vers[i] \in Nat /\ vs[i] \in Value
    OBVIOUS
  <2>. QED  BY <2>1, DigitsMarked, ValueBytesOf, IntLenOf
<1>2. /\ L \in Seq(Nat) /\ Len(L) = k /\ \A i \in 1 .. k : L[i] >= 1
      /\ L = [i \in 1 .. k |-> IntLen(vers[i]) + Len(ValueBytes(vs[i]))]
  BY EntriesOf DEF EntryLens
<1>3. bytes1 = <<serialize_version_list>> \o Digits[k] \o all
  BY <1>0 DEF VersionListBytes
<1>4. /\ seqs \in Seq(Seq(Nat)) /\ Len(seqs) = k /\ seqs # <<>>
      /\ \A i \in 1 .. k : /\ seqs[i] = Digits[vers[i]] \o ValueBytes(vs[i])
                           /\ Len(seqs[i]) = IntLen(vers[i]) + Len(ValueBytes(vs[i]))
  <2> DEFINE V == Seq(Nat)
  <2>1. \A i \in 1 .. k : /\ Digits[vers[i]] \o ValueBytes(vs[i]) \in V
                          /\ Len(Digits[vers[i]] \o ValueBytes(vs[i])) =
                               IntLen(vers[i]) + Len(ValueBytes(vs[i]))
    BY <1>1, Joined, ZenonT(40)
  <2>2. seqs = [i \in 1 .. k |-> Digits[vers[i]] \o ValueBytes(vs[i])]
    OBVIOUS
  <2> HIDE DEF V, seqs, k
  <2>3. seqs \in Seq(V) /\ Len(seqs) = k
    <3>1. seqs \in [1 .. k -> V]
      BY <2>1, <2>2
    <3>2. seqs \in Seq(V)
      BY <1>0, <3>1, SeqDef
    <3>. QED  BY <1>0, <3>1, <3>2
  <2>4. seqs # <<>>
    BY <1>0, <2>3
  <2>. QED  BY <1>0, <2>1, <2>2, <2>3, <2>4 DEF V
<1> HIDE DEF seqs, k, bytes1
<1>5. [i \in 1 .. k |-> Len(seqs[i])] = L
  BY <1>2, <1>4
<1>6. /\ all \in Seq(Nat) /\ Len(all) = Starts(L, 0)[k + 1]
      /\ \A i \in 1 .. k : Holds(all, Starts(L, 0)[i], seqs[i])
  BY <1>4, <1>5, Pieces
<1> HIDE DEF all, L
<1>7. Starts(L, 0) \in [1 .. k + 1 -> Nat]
  BY <1>2, StartsOf
<1>8. \A i \in 1 .. k + 1 : Starts(L, 0)[i] \in Nat
  BY <1>7
<1>9. bytes1 \in Seq(Nat) /\ Len(bytes1) = a + Len(all)
  BY <1>0, <1>3, <1>6, Numbered
<1>10. k <= Len(bytes1)
  <2>1. 0 + k <= Starts(L, 0)[k + 1]
    BY <1>2, StartsCount
  <2>. QED  BY <1>0, <1>6, <1>9, <2>1
<1>11. ASSUME NEW b \in Seq(Nat), NEW p \in Nat, Holds(b, p, bytes1)
       PROVE  ListAt(b, p, p + Len(bytes1), vers, vs)
  <2> DEFINE h == p + 1 + IntLen(k)
             E == Entries(vers, vs, p)
  <2>1. b[p + 1] = serialize_version_list /\ Holds(b, p + 1, Digits[k]) /\ Holds(b, h, all)
    BY <1>0, <1>3, <1>6, <1>11, Numbered
  <2>2. h \in Nat
    BY <1>0
  <2>3. \A i \in 1 .. k + 1 : E[i] = Starts(L, 0)[i] + h
    <3> SUFFICES ASSUME NEW i \in 1 .. k + 1 PROVE E[i] = Starts(L, 0)[i] + h
      OBVIOUS
    <3>1. E = Starts(L, h)
      BY DEF Entries, L, k
    <3> HIDE DEF E, h
    <3>2. Starts(L, 0 + h)[i] = Starts(L, 0)[i] + h
      <4>1. i \in 1 .. Len(L) + 1 /\ 0 \in Nat /\ L \in Seq(Nat)
        BY <1>2
      <4>. QED  BY <2>2, <4>1, StartsShifted
    <3>3. 0 + h = h
      BY <2>2
    <3>. QED  BY <3>1, <3>2, <3>3
  <2> HIDE DEF E, h
  <2>4. ASSUME NEW i \in 1 .. k
        PROVE  Holds(b, E[i], Digits[vers[i]])
               /\ Holds(b, E[i] + IntLen(vers[i]), ValueBytes(vs[i]))
    <3>1. i \in 1 .. k + 1
      BY <1>0
    <3>2. E[i] = h + Starts(L, 0)[i] /\ Starts(L, 0)[i] \in Nat /\ E[i] \in Nat
      BY <1>8, <2>2, <2>3, <3>1
    <3>3. seqs[i] \in Seq(Nat)
      BY <1>1, <1>4, Joined
    <3>4. Holds(b, E[i], seqs[i])
      BY <1>6, <2>1, <2>2, <3>2, <3>3, HoldsInside
    <3>5. Holds(b, E[i], Digits[vers[i]] \o ValueBytes(vs[i]))
      BY <1>4, <3>4
    <3>. QED  BY <1>1, <3>2, <3>5, HoldsParts
  <2>5. E[k + 1] = p + Len(bytes1)
    <3>1. k + 1 \in 1 .. k + 1
      BY <1>0
    <3>2. E[k + 1] = Len(all) + h /\ Len(all) \in Nat
      BY <1>6, <2>3, <3>1
    <3>. QED  BY <1>0, <1>9, <3>2 DEF h
  <2>. QED  BY <2>1, <2>4, <2>5 DEF ListAt, E, k
<1>. QED  BY <1>9, <1>10, <1>11 DEF bytes1, k

(* A function on 1 .. k is a sequence of length k.                          *)
LEMMA Tuples ==
  ASSUME NEW V, NEW k \in Nat, NEW s \in [1 .. k -> V]
  PROVE  s \in Seq(V) /\ Len(s) = k
<1>1. s \in Seq(V)
  BY SeqDef
<1>. QED  BY <1>1

(* The lengths of parts, and where the first of them is.                    *)
PartLens(vs) == [i \in 1 .. Len(vs) |-> Len(PartBytes(vs[i]))]
FirstPart(vs) == StableOffsets(PartLens(vs))[1]
Parts(vs) == Starts(PartLens(vs), FirstPart(vs))
Offsets(vs) == Starts(OffsetLens(PartLens(vs), FirstPart(vs)), 1 + IntLen(Len(vs)))

(* A part is its tag, its length and its value.                             *)
LEMMA PartBytesOf ==
  ASSUME NEW v \in Value
  PROVE  PartBytes(v) \in Seq(Nat) /\ Len(PartBytes(v)) \in Nat
<1>1. ValueBytes(v) \in Seq(Nat) /\ Len(ValueBytes(v)) \in Nat /\ serialize_part \in Nat
  BY ValueBytesOf DEF serialize_part
<1>2. PartBytes(v) = <<serialize_part>> \o Digits[Len(ValueBytes(v))] \o ValueBytes(v)
  BY DEF PartBytes
<1>3. PartBytes(v) \in Seq(Nat)
  BY <1>1, <1>2, Numbered
<1>. QED  BY <1>3

(* What the reader of a part table at the start of the buffer looks at: its
   offsets, and the main part where the first of them says, which is where
   the table ends.                                                          *)
TableAtStart(b, vs) ==
  /\ b[1] = serialize_part_table
  /\ Holds(b, 1, Digits[Len(vs)])
  /\ \A i \in 1 .. Len(vs) : Holds(b, Offsets(vs)[i], Digits[Parts(vs)[i]])
  /\ Holds(b, FirstPart(vs), PartBytes(vs[1]))

(* Offsets follow each other, and the main part follows the last of them.   *)
LEMMA OffsetsOf ==
  ASSUME NEW vs \in Seq(Value), vs # <<>>
  PROVE  /\ PartLens(vs) \in Seq(Nat) /\ Len(PartLens(vs)) = Len(vs)
         /\ FirstPart(vs) \in Nat
         /\ StableOffsets(PartLens(vs)) = PartOffsets(PartLens(vs), FirstPart(vs))
         /\ Parts(vs) \in [1 .. Len(vs) + 1 -> Nat] /\ Parts(vs)[1] = FirstPart(vs)
         /\ OffsetLens(PartLens(vs), FirstPart(vs)) \in Seq(Nat)
         /\ Len(OffsetLens(PartLens(vs), FirstPart(vs))) = Len(vs)
         /\ \A i \in 1 .. Len(vs) :
              OffsetLens(PartLens(vs), FirstPart(vs))[i] = IntLen(Parts(vs)[i])
         /\ Offsets(vs) \in [1 .. Len(vs) + 1 -> Nat]
         /\ Offsets(vs)[1] = 1 + IntLen(Len(vs))
         /\ \A i \in 1 .. Len(vs) : Offsets(vs)[i + 1] = Offsets(vs)[i] + IntLen(Parts(vs)[i])
         /\ Offsets(vs)[Len(vs) + 1] = FirstPart(vs)
<1> DEFINE k == Len(vs)
           P == PartLens(vs)
           f == FirstPart(vs)
           S == Parts(vs)
           L == OffsetLens(P, f)
           O == Offsets(vs)
<1>1. k \in Nat /\ k >= 1 /\ 1 \in 1 .. k /\ 1 + IntLen(k) \in Nat
  <2>1. k \in Nat /\ k >= 1
    BY EmptySeq
  <2>. QED  BY <2>1, IntLenOf
<1>2. P \in Seq(Nat) /\ Len(P) = k
  <2>1. \A i \in 1 .. k : Len(PartBytes(vs[i])) \in Nat
    BY PartBytesOf
  <2>2. P \in [1 .. k -> Nat]
    BY <2>1 DEF PartLens
  <2> HIDE DEF P, k
  <2>. QED  BY <1>1, <2>2, Tuples
<1> HIDE DEF P, k
<1>3. PICK first \in Nat : /\ StableOffsets(P) = PartOffsets(P, first)
                           /\ TableEnd(PartOffsets(P, first)) = first
  BY <1>2, StableOffsetsOf
<1>4. Starts(P, first) \in [1 .. k + 1 -> Nat] /\ Starts(P, first)[1] = first
  BY <1>2, StartsOf
<1>5. PartOffsets(P, first)[1] = first
  BY <1>1, <1>2, <1>4, TableEndOf
<1>6. f = first
  BY <1>3, <1>5 DEF FirstPart, P
<1> HIDE DEF f
<1>7. S = Starts(P, f) /\ O = Starts(L, 1 + IntLen(k))
  BY DEF Parts, Offsets, P, k, f
<1>8. S \in [1 .. k + 1 -> Nat] /\ S[1] = f
  BY <1>4, <1>6, <1>7
<1>9. L \in Seq(Nat) /\ Len(L) = k /\ TableEnd(PartOffsets(P, f)) = Starts(L, 1 + IntLen(k))[k + 1]
  BY <1>2, <1>6, TableEndOf
<1>10. \A i \in 1 .. k : L[i] = IntLen(S[i])
  BY <1>2, <1>7 DEF OffsetLens
<1> HIDE DEF S, O, L
<1>11. O \in [1 .. k + 1 -> Nat] /\ O[1] = 1 + IntLen(k) /\ \A i \in 1 .. k : O[i + 1] = O[i] + L[i]
  BY <1>1, <1>7, <1>9, StartsOf
<1>12. O[k + 1] = f
  BY <1>3, <1>6, <1>7, <1>9
<1>13. StableOffsets(P) = PartOffsets(P, f) /\ f \in Nat
  BY <1>3, <1>6
<1>14. \A i \in 1 .. k : O[i + 1] = O[i] + IntLen(S[i])
  BY <1>10, <1>11
<1>. QED  BY <1>2, <1>8, <1>9, <1>10, <1>11, <1>12, <1>13, <1>14 DEF S, O, L, f, P, k

(* A part table is what its reader looks for, and its offsets are within it. *)
LEMMA PartitionBytesOf ==
  ASSUME NEW vs \in Seq(Value), vs # <<>>
  PROVE  /\ PartitionBytes(vs) \in Seq(Nat)
         /\ Len(vs) <= Len(PartitionBytes(vs))
         /\ FirstPart(vs) + Len(PartBytes(vs[1])) <= Len(PartitionBytes(vs))
         /\ \A i \in 1 .. Len(vs) : Parts(vs)[i] <= Len(PartitionBytes(vs))
         /\ \A b \in Seq(Nat) : Holds(b, 0, PartitionBytes(vs)) => TableAtStart(b, vs)
<1> DEFINE k == Len(vs)
           P == PartLens(vs)
           f == FirstPart(vs)
           S == Parts(vs)
           L == OffsetLens(P, f)
           O == Offsets(vs)
           ds == [i \in 1 .. k |-> Digits[S[i]]]
           ps == [i \in 1 .. k |-> PartBytes(vs[i])]
           table == FlattenSeq(ds)
           parts == FlattenSeq(ps)
           head == <<serialize_part_table>> \o Digits[k] \o table
           all == PartitionBytes(vs)
           a == 1 + IntLen(k)
<1>1. k \in Nat /\ k >= 1 /\ 1 \in 1 .. k /\ a \in Nat /\ IntLen(k) \in Nat
      /\ DOMAIN vs = 1 .. k /\ serialize_part_table \in Nat
  <2>1. k \in Nat /\ k >= 1 /\ DOMAIN vs = 1 .. k
    BY EmptySeq
  <2>2. IntLen(k) \in Nat
    BY <2>1, IntLenOf
  <2>. QED  BY <2>1, <2>2 DEF serialize_part_table
<1>2. /\ P \in Seq(Nat) /\ Len(P) = k /\ f \in Nat
      /\ StableOffsets(P) = PartOffsets(P, f)
      /\ S \in [1 .. k + 1 -> Nat] /\ S[1] = f
      /\ L \in Seq(Nat) /\ Len(L) = k /\ \A i \in 1 .. k : L[i] = IntLen(S[i])
      /\ O = Starts(L, a) /\ O[k + 1] = f
  BY OffsetsOf DEF Offsets
<1>3. /\ S = Starts(P, f) /\ P = [i \in 1 .. k |-> Len(ps[i])]
      /\ \A i \in 1 .. k : ps[i] = PartBytes(vs[i])
  BY DEF Parts, PartLens
<1>4. all = head \o parts
  <2>1. PartOffsets(P, f) = [i \in DOMAIN P |-> S[i]]
    BY <1>3 DEF PartOffsets
  <2>2. DOMAIN P = 1 .. k
    BY <1>2
  <2>3. [i \in DOMAIN vs |-> Len([j \in DOMAIN vs |-> PartBytes(vs[j])][i])] = P
    BY <1>1, <1>3
  <2>4. [i \in DOMAIN vs |-> Digits[StableOffsets(P)[i]]] = ds
    <3>1. \A i \in 1 .. k : StableOffsets(P)[i] = S[i]
      <4> HIDE DEF P, f, S
      <4>. QED  BY <1>2, <2>1, <2>2
    <3> HIDE DEF P, S
    <3>. QED  BY <1>1, <3>1
  <2>5. [i \in DOMAIN vs |-> PartBytes(vs[i])] = ps
    BY <1>1
  <2> HIDE DEF P, ds, ps
  <2>. QED  BY <1>1, <2>3, <2>4, <2>5 DEF PartitionBytes
<1> HIDE DEF P, f, S, O, L, k, all
<1>5. \A i \in 1 .. k : i \in 1 .. k + 1 /\ S[i] \in Nat
  BY <1>1, <1>2
<1>6. \A i \in 1 .. k : Digits[S[i]] \in Seq(Nat) /\ Len(Digits[S[i]]) = L[i] /\ L[i] >= 1
  BY <1>2, <1>5, DigitsMarked, IntLenOf
<1>7. \A i \in 1 .. k : PartBytes(vs[i]) \in Seq(Nat)
  <2>1. \A i \in 1 .. k : vs[i] \in Value
    BY <1>1
  <2>. QED  BY <2>1, PartBytesOf
<1>8. /\ ds \in Seq(Seq(Nat)) /\ Len(ds) = k /\ ds # <<>>
      /\ \A i \in 1 .. k : ds[i] = Digits[S[i]]
  <2> DEFINE V == Seq(Nat)
  <2>1. ds \in [1 .. k -> V] /\ \A i \in 1 .. k : ds[i] = Digits[S[i]]
    BY <1>6
  <2> HIDE DEF V, ds
  <2>2. ds \in Seq(V) /\ Len(ds) = k
    BY <1>1, <2>1, Tuples
  <2>3. ds # <<>>
    BY <1>1, <2>2
  <2>. QED  BY <2>1, <2>2, <2>3 DEF V
<1>9. ps \in Seq(Seq(Nat)) /\ Len(ps) = k /\ ps # <<>>
  <2> DEFINE V == Seq(Nat)
  <2>1. ps \in [1 .. k -> V]
    BY <1>7
  <2> HIDE DEF V, ps
  <2>2. ps \in Seq(V) /\ Len(ps) = k
    BY <1>1, <2>1, Tuples
  <2>3. ps # <<>>
    BY <1>1, <2>2
  <2>. QED  BY <2>2, <2>3 DEF V
<1> HIDE DEF ds, ps
<1>10. [i \in 1 .. k |-> Len(ds[i])] = L
  <2>1. L = [i \in 1 .. k |-> L[i]]
    BY <1>1, <1>2
  <2>. QED  BY <1>6, <1>8, <2>1
<1>11. /\ table \in Seq(Nat) /\ Len(table) = Starts(L, 0)[k + 1]
       /\ \A i \in 1 .. k : Holds(table, Starts(L, 0)[i], ds[i])
  BY <1>8, <1>10, Pieces
<1>12. /\ parts \in Seq(Nat) /\ Len(parts) = Starts(P, 0)[k + 1]
       /\ \A i \in 1 .. k : Holds(parts, Starts(P, 0)[i], ps[i])
  BY <1>3, <1>9, Pieces
<1> HIDE DEF table, parts
<1>13. /\ \A i \in 1 .. k + 1 : O[i] = Starts(L, 0)[i] + a /\ Starts(L, 0)[i] \in Nat
       /\ \A i \in 1 .. k + 1 : S[i] = Starts(P, 0)[i] + f /\ Starts(P, 0)[i] \in Nat
  <2>1. ASSUME NEW i \in 1 .. k + 1 PROVE O[i] = Starts(L, 0)[i] + a /\ Starts(L, 0)[i] \in Nat
    <3>1. Starts(L, 0 + a)[i] = Starts(L, 0)[i] + a
      <4> HIDE DEF a
      <4>1. i \in 1 .. Len(L) + 1 /\ 0 \in Nat
        BY <1>2
      <4>. QED  BY <1>1, <1>2, <4>1, StartsShifted
    <3>2. 0 + a = a
      BY <1>1
    <3>3. Starts(L, 0) \in [1 .. k + 1 -> Nat]
      BY <1>2, StartsOf
    <3>. QED  BY <1>2, <3>1, <3>2, <3>3
  <2>2. ASSUME NEW i \in 1 .. k + 1 PROVE S[i] = Starts(P, 0)[i] + f /\ Starts(P, 0)[i] \in Nat
    <3>1. Starts(P, 0 + f)[i] = Starts(P, 0)[i] + f
      <4>1. i \in 1 .. Len(P) + 1 /\ 0 \in Nat
        BY <1>2
      <4>. QED  BY <1>2, <4>1, StartsShifted
    <3>2. 0 + f = f
      BY <1>2
    <3>3. Starts(P, 0) \in [1 .. k + 1 -> Nat]
      BY <1>2, StartsOf
    <3>. QED  BY <1>3, <3>1, <3>2, <3>3
  <2>. QED  BY <2>1, <2>2
<1>14. k + 1 \in 1 .. k + 1
  BY <1>1
<1>15. head \in Seq(Nat) /\ Len(head) = f
  <2>1. head \in Seq(Nat) /\ Len(head) = 1 + IntLen(k) + Len(table)
    BY <1>1, <1>11, Numbered, ZenonT(40)
  <2>2. O[k + 1] = Len(table) + a /\ Len(table) \in Nat
    BY <1>11, <1>13, <1>14
  <2> HIDE DEF head
  <2>. QED  BY <1>1, <1>2, <2>1, <2>2
<1>16. all \in Seq(Nat) /\ Len(all) = S[k + 1]
  <2> HIDE DEF head
  <2>1. all \in Seq(Nat) /\ Len(all) = f + Len(parts)
    BY <1>4, <1>12, <1>15, Joined
  <2>2. S[k + 1] = Len(parts) + f /\ Len(parts) \in Nat
    BY <1>12, <1>13, <1>14
  <2>. QED  BY <1>2, <2>1, <2>2
<1>17. k <= Len(all)
  <2>1. a + k <= Starts(L, a)[k + 1]
    <3> HIDE DEF a
    <3>. QED  BY <1>1, <1>2, <1>6, StartsCount
  <2>2. f <= Len(all)
    <3>1. S[k + 1] = Starts(P, 0)[k + 1] + f /\ Starts(P, 0)[k + 1] \in Nat
      BY <1>13, <1>14
    <3>. QED  BY <1>2, <1>16, <3>1
  <2>. QED  BY <1>1, <1>2, <1>16, <2>1, <2>2
<1>18. \A i \in 1 .. k : S[i] <= Len(all)
  <2> SUFFICES ASSUME NEW i \in 1 .. k PROVE S[i] <= Len(all)
    OBVIOUS
  <2>1. k + 1 \in i .. k + 1 /\ i \in 1 .. k + 1
    BY <1>1
  <2>2. Starts(P, f)[i] <= Starts(P, f)[k + 1]
    BY <1>2, <2>1, StartsOrdered
  <2>. QED  BY <1>3, <1>16, <2>2
<1>19. f + Len(PartBytes(vs[1])) <= Len(all)
  <2>1. Starts(P, 0)[1] = 0
    BY <1>2, StartsOf
  <2>2. Holds(parts, 0, PartBytes(vs[1]))
    BY <1>1, <1>3, <1>12, <2>1
  <2>3. Len(PartBytes(vs[1])) <= Len(parts) /\ Len(PartBytes(vs[1])) \in Nat
    BY <1>1, <1>7, <2>2 DEF Holds
  <2>4. Len(all) = f + Len(parts) /\ Len(parts) \in Nat
    <3> HIDE DEF head
    <3>1. Len(parts) \in Nat
      BY <1>12
    <3>2. Len(head \o parts) = f + Len(parts)
      BY <1>12, <1>15, Joined
    <3>. QED  BY <1>4, <3>1, <3>2
  <2>. QED  BY <1>2, <2>3, <2>4
<1>20. ASSUME NEW b \in Seq(Nat), Holds(b, 0, all) PROVE TableAtStart(b, vs)
  <2>1. Holds(b, 0, head) /\ Holds(b, f, parts)
    <3> HIDE DEF head
    <3>1. Holds(b, 0, head) /\ Holds(b, 0 + f, parts)
      BY <1>4, <1>12, <1>15, <1>20, HoldsParts
    <3>2. 0 + f = f
      BY <1>2
    <3>. QED  BY <3>1, <3>2
  <2>2. b[1] = serialize_part_table /\ Holds(b, 1, Digits[k]) /\ Holds(b, a, table)
    <3>1. /\ b[0 + 1] = serialize_part_table /\ Holds(b, 0 + 1, Digits[k])
          /\ Holds(b, 0 + 1 + IntLen(k), table)
      BY <1>1, <1>11, <2>1, Numbered
    <3>2. 0 + 1 = 1 /\ 0 + 1 + IntLen(k) = a
      BY <1>1
    <3> HIDE DEF a
    <3>. QED  BY <3>1, <3>2
  <2>3. ASSUME NEW i \in 1 .. k PROVE Holds(b, O[i], Digits[S[i]])
    <3>1. O[i] = a + Starts(L, 0)[i] /\ Starts(L, 0)[i] \in Nat
      BY <1>1, <1>5, <1>13
    <3>2. ds[i] \in Seq(Nat) /\ ds[i] = Digits[S[i]]
      BY <1>6, <1>8
    <3>3. Holds(table, Starts(L, 0)[i], ds[i])
      BY <1>11
    <3> HIDE DEF a
    <3>. QED  BY <1>1, <1>11, <2>2, <3>1, <3>2, <3>3, HoldsInside
  <2>4. Holds(b, f, PartBytes(vs[1]))
    <3>1. Starts(P, 0)[1] = 0
      BY <1>2, StartsOf
    <3>2. Holds(parts, 0, PartBytes(vs[1])) /\ PartBytes(vs[1]) \in Seq(Nat)
      BY <1>1, <1>3, <1>7, <1>12, <3>1
    <3>3. Holds(b, f + 0, PartBytes(vs[1]))
      BY <1>2, <1>12, <2>1, <3>2, HoldsInside
    <3>4. f + 0 = f
      BY <1>2
    <3>. QED  BY <3>3, <3>4
  <2>. QED  BY <2>2, <2>3, <2>4 DEF TableAtStart, O, S, f, k
<1>. QED  BY <1>16, <1>17, <1>18, <1>19, <1>20 DEF all, S, f, k

-----------------------------------------------------------------------------
(* What every step keeps.                                                   *)

InRange(p, a) == p = 0 \/ p \in 0 .. a - 1

(* A call that counts has something left to count, and one that jumps knows
   where to.                                                                *)
Good(f) ==
  /\ f \in Frame
  /\ f.at \in {"item", "offset", "skip"} => f.n >= 1
  /\ f.at = "jump" => f.first >= 0
Frames(st) == st \in Seq(Frame) /\ \A i \in 1 .. Len(st) : Good(st[i])

(* The cursor p is within the a bytes that arrived unless a call has jumped;
   then the position the first such call goes back to is.                   *)
Safe(st, p, a) ==
  /\ (\A i \in 1 .. Len(st) : st[i].at # "back") => InRange(p, a)
  /\ \A i \in 1 .. Len(st) :
       /\ st[i].at = "back"
       /\ \A j \in 1 .. i - 1 : st[j].at # "back"
       => InRange(st[i].save, a)

TypeInv ==
  /\ bytes \in Seq(Nat)
  /\ avail \in 0 .. Len(bytes)
  /\ ptr \in Nat /\ begin \in Nat
  /\ Frames(stack) /\ Safe(stack, ptr, avail)
  /\ ret \in Int /\ pooled \in Int
  /\ out \in [name : Nat, n : Nat]

(* The calls below the innermost one.                                       *)
LEMMA FramesTop ==
  ASSUME NEW st, Frames(st), st # <<>>
  PROVE  /\ Len(st) \in Nat /\ Len(st) >= 1 /\ Good(st[Len(st)])
         /\ Frames(Front(st)) /\ Len(Front(st)) = Len(st) - 1
         /\ \A i \in 1 .. Len(st) - 1 : Front(st)[i] = st[i]
<1>1. st \in Seq(Frame) /\ \A i \in 1 .. Len(st) : Good(st[i])
  BY DEF Frames
<1>2. Len(st) \in Nat /\ Len(st) >= 1
  BY <1>1, EmptySeq
<1>3. Good(st[Len(st)])
  BY <1>1, <1>2
<1> DEFINE fr == SubSeq(st, 1, Len(st) - 1)
<1>4. fr \in Seq(Frame) /\ Len(fr) = Len(st) - 1 /\ \A i \in 1 .. Len(st) - 1 : fr[i] = st[i]
  <2> DEFINE k == Len(st) - 1
  <2>1. k \in Nat /\ 1 \in Int /\ \A i \in 1 .. k : st[i] \in Frame
    BY <1>1, <1>2
  <2>2. k - 1 + 1 = k /\ (IF 1 <= k THEN k - 1 + 1 ELSE 0) = k /\ \A i \in 1 .. k : 1 + i - 1 = i
    <3> HIDE DEF k, fr
    <3>1. k - 1 + 1 = k /\ \A i \in 1 .. k : 1 + i - 1 = i
      BY <2>1
    <3>2. ~ 1 <= k => k = 0
      BY <2>1
    <3>. QED  BY <3>1, <3>2
  <2>3. fr = SubSeq(st, 1, k)
    OBVIOUS
  <2> HIDE DEF k, fr
  <2>4. /\ SubSeq(st, 1, k) \in Seq(Frame)
        /\ Len(SubSeq(st, 1, k)) = IF 1 <= k THEN k - 1 + 1 ELSE 0
        /\ \A i \in 1 .. k - 1 + 1 : SubSeq(st, 1, k)[i] = st[1 + i - 1]
    BY <2>1, SubSeqProperties
  <2>. QED  BY <2>2, <2>3, <2>4 DEF k
<1>5. Front(st) = fr
  BY DEF Front
<1> HIDE DEF fr
<1>6. Frames(fr)
  BY <1>1, <1>2, <1>4 DEF Frames
<1>. QED  BY <1>2, <1>3, <1>4, <1>5, <1>6

(* A fresh call is one.                                                     *)
LEMMA CallGood == Good(Call) /\ Call.at = "enter"
<1>1. Call \in Frame
  BY DEF Call, Frame
<1>2. Call.at = "enter"
  BY DEF Call
<1>. QED  BY <1>1, <1>2 DEF Good

(* A call on top of others, alone or with a fresh call in it.               *)
LEMMA FramesPushed ==
  ASSUME NEW st, Frames(st), NEW f, Good(f)
  PROVE  /\ Frames(st \o <<f>>) /\ Len(st \o <<f>>) = Len(st) + 1
         /\ (st \o <<f>>)[Len(st) + 1] = f
         /\ \A i \in 1 .. Len(st) : (st \o <<f>>)[i] = st[i]
         /\ Frames(st \o <<f, Call>>) /\ Len(st \o <<f, Call>>) = Len(st) + 2
         /\ (st \o <<f, Call>>)[Len(st) + 1] = f
         /\ (st \o <<f, Call>>)[Len(st) + 2] = Call
         /\ \A i \in 1 .. Len(st) : (st \o <<f, Call>>)[i] = st[i]
<1>1. st \in Seq(Frame) /\ Len(st) \in Nat /\ \A i \in 1 .. Len(st) : Good(st[i])
  BY DEF Frames
<1>2. f \in Frame /\ Call \in Frame
  BY CallGood DEF Good
<1> DEFINE s == st \o <<f>>
           t == st \o <<f, Call>>
           c == Call
<1>3. /\ s \in Seq(Frame) /\ Len(s) = Len(st) + 1 /\ s[Len(st) + 1] = f
      /\ \A i \in 1 .. Len(st) : s[i] = st[i]
  <2> HIDE DEF c
  <2>. QED  BY <1>1, <1>2
<1>4. /\ t \in Seq(Frame) /\ Len(t) = Len(st) + 2 /\ t[Len(st) + 1] = f /\ t[Len(st) + 2] = Call
      /\ \A i \in 1 .. Len(st) : t[i] = st[i]
  <2>1. t = st \o <<f, c>> /\ c \in Frame
    BY <1>2
  <2> HIDE DEF c, t
  <2>2. t \in Seq(Frame) /\ Len(t) = Len(st) + 2
    BY <1>1, <1>2, <2>1
  <2>3. t[Len(st) + 1] = f /\ t[Len(st) + 2] = c
    BY <1>1, <1>2, <2>1
  <2>4. \A i \in 1 .. Len(st) : t[i] = st[i]
    BY <1>1, <1>2, <2>1
  <2>. QED  BY <2>2, <2>3, <2>4 DEF c
<1> HIDE DEF s, t
<1>5. Frames(s)
  <2>1. \A i \in 1 .. Len(st) + 1 : i \in 1 .. Len(st) \/ i = Len(st) + 1
    BY <1>1
  <2>. QED  BY <1>1, <1>3, <2>1 DEF Frames
<1>6. Frames(t)
  <2>1. \A i \in 1 .. Len(st) + 2 : i \in 1 .. Len(st) \/ i = Len(st) + 1 \/ i = Len(st) + 2
    BY <1>1
  <2>. QED  BY <1>1, <1>4, <2>1, CallGood DEF Frames
<1>. QED  BY <1>3, <1>4, <1>5, <1>6 DEF s, t

(* A call that does not jump returns, goes on or calls, and the cursor stays
   in the buffer if it was there.                                           *)
LEMMA SafeStep ==
  ASSUME NEW st, Frames(st), st # <<>>, NEW p, NEW a, Safe(st, p, a), NEW q,
         st[Len(st)].at # "back", InRange(p, a) => InRange(q, a),
         NEW f, Good(f), f.at # "back"
  PROVE  /\ Safe(Front(st), q, a) /\ Safe(Front(st) \o <<f>>, q, a)
         /\ Safe(Front(st) \o <<f, Call>>, q, a)
<1> DEFINE fr == Front(st)
           k == Len(st) - 1
           s == fr \o <<f>>
           t == fr \o <<f, Call>>
<1>1. /\ Len(st) = k + 1 /\ k \in Nat /\ Frames(fr) /\ Len(fr) = k
      /\ \A i \in 1 .. k : fr[i] = st[i]
  BY FramesTop
<1>2. /\ Len(s) = k + 1 /\ s[k + 1] = f /\ \A i \in 1 .. k : s[i] = st[i]
      /\ Len(t) = k + 2 /\ t[k + 1] = f /\ t[k + 2] = Call /\ \A i \in 1 .. k : t[i] = st[i]
  <2> HIDE DEF fr, k
  <2>. QED  BY <1>1, FramesPushed
<1> HIDE DEF fr, k, s, t
<1>3. /\ (\A i \in 1 .. k + 1 : st[i].at # "back") => InRange(q, a)
      /\ \A i \in 1 .. k + 1 : st[i].at = "back" /\ (\A j \in 1 .. i - 1 : st[j].at # "back") =>
           InRange(st[i].save, a)
  BY <1>1 DEF Safe
<1>4. (\A i \in 1 .. k : st[i].at # "back") => \A i \in 1 .. k + 1 : st[i].at # "back"
  BY <1>1
<1>5. \A i \in 1 .. k : i \in 1 .. k + 1 /\ \A j \in 1 .. i - 1 : j \in 1 .. k
  BY <1>1
<1>6. Safe(fr, q, a)
  BY <1>1, <1>3, <1>4, <1>5 DEF Safe
<1>7. \A i \in 1 .. k + 1 : s[i].at = "back" => i \in 1 .. k
  BY <1>1, <1>2
<1>8. Safe(s, q, a)
  BY <1>2, <1>3, <1>4, <1>5, <1>7, SMTT(30) DEF Safe
<1>9. \A i \in 1 .. k + 2 : t[i].at = "back" => i \in 1 .. k
  BY <1>1, <1>2, CallGood
<1>10. \A i \in 1 .. k : i \in 1 .. k + 2
  BY <1>1
<1>11. Safe(t, q, a)
  BY <1>2, <1>3, <1>4, <1>5, <1>9, <1>10 DEF Safe
<1>. QED  BY <1>6, <1>8, <1>11 DEF fr, s, t

(* A call that jumps keeps where the cursor was, and goes back to it.       *)
LEMMA SafeJump ==
  ASSUME NEW st, Frames(st), st # <<>>, NEW p, NEW a, Safe(st, p, a)
  PROVE  /\ st[Len(st)].at = "back" => Safe(Front(st), st[Len(st)].save, a)
         /\ \A f, q : st[Len(st)].at # "back" /\ Good(f) /\ f.at = "back" /\ f.save = p =>
              Safe(Front(st) \o <<f, Call>>, q, a)
<1> DEFINE fr == Front(st)
           k == Len(st) - 1
<1>1. /\ Len(st) = k + 1 /\ k \in Nat /\ Frames(fr) /\ Len(fr) = k
      /\ \A i \in 1 .. k : fr[i] = st[i]
  BY FramesTop
<1> HIDE DEF fr, k
<1>2. /\ (\A i \in 1 .. k + 1 : st[i].at # "back") => InRange(p, a)
      /\ \A i \in 1 .. k + 1 : st[i].at = "back" /\ (\A j \in 1 .. i - 1 : st[j].at # "back") =>
           InRange(st[i].save, a)
  BY <1>1 DEF Safe
<1>3. \A i \in 1 .. k : i \in 1 .. k + 1 /\ \A j \in 1 .. i - 1 : j \in 1 .. k
  BY <1>1
<1>4. ASSUME st[k + 1].at = "back" PROVE Safe(fr, st[k + 1].save, a)
  <2>1. k + 1 \in 1 .. k + 1 /\ (k + 1) - 1 = k
    BY <1>1
  <2>2. (\A i \in 1 .. k : st[i].at # "back") => InRange(st[k + 1].save, a)
    BY <1>2, <1>4, <2>1
  <2>. QED  BY <1>1, <1>2, <1>3, <2>2 DEF Safe
<1>5. ASSUME NEW f, NEW q, st[k + 1].at # "back", Good(f), f.at = "back", f.save = p
      PROVE  Safe(fr \o <<f, Call>>, q, a)
  <2> DEFINE t == fr \o <<f, Call>>
  <2>1. Len(t) = k + 2 /\ t[k + 1] = f /\ t[k + 2] = Call /\ \A i \in 1 .. k : t[i] = st[i]
    BY <1>1, <1>5, FramesPushed
  <2> HIDE DEF t
  <2>2. \A i \in 1 .. k + 2 : i \in 1 .. k \/ i = k + 1 \/ i = k + 2
    BY <1>1
  <2>3. k + 1 \in 1 .. k + 2 /\ \A i \in 1 .. k : i \in 1 .. (k + 1) - 1 /\ i \in 1 .. k + 2
    BY <1>1
  <2>4. (\A i \in 1 .. k : st[i].at # "back") => InRange(f.save, a)
    <3>1. \A i \in 1 .. k + 1 : i \in 1 .. k \/ i = k + 1
      BY <1>1
    <3>. QED  BY <1>2, <1>5, <3>1
  <2>5. ~ \A i \in 1 .. k + 2 : t[i].at # "back"
    BY <1>5, <2>1, <2>3
  <2>6. ASSUME NEW i \in 1 .. k + 2, t[i].at = "back", \A j \in 1 .. i - 1 : t[j].at # "back"
        PROVE  InRange(t[i].save, a)
    <3>1. CASE i \in 1 .. k
      <4>1. \A j \in 1 .. i - 1 : st[j].at # "back"
        BY <1>3, <2>1, <2>6, <3>1
      <4>. QED  BY <1>2, <1>3, <2>1, <2>6, <3>1, <4>1
    <3>2. CASE i = k + 1
      <4>1. \A j \in 1 .. k : st[j].at # "back"
        BY <2>1, <2>3, <2>6, <3>2
      <4>. QED  BY <2>1, <2>4, <3>2, <4>1
    <3>3. CASE i = k + 2
      BY <2>1, <2>6, <3>3, CallGood
    <3>. QED  BY <2>2, <3>1, <3>2, <3>3
  <2>7. Safe(t, q, a)
    BY <2>1, <2>5, <2>6 DEF Safe
  <2>. QED  BY <2>7 DEF t
<1>. QED  BY <1>1, <1>4, <1>5 DEF fr

(* The cursor is moved to another position of the buffer, or not.           *)
LEMMA MoveTyped ==
  ASSUME NEW p \in Nat, NEW d \in Int
  PROVE  Move(p, d) \in Nat /\ (InRange(p, avail) => InRange(Move(p, d), avail))
<1>1. CASE p + d \in 0 .. avail - 1
  <2>1. Move(p, d) = p + d /\ p + d \in Nat
    BY <1>1 DEF Move
  <2>. QED  BY <1>1, <2>1 DEF InRange
<1>2. CASE p + d \notin 0 .. avail - 1
  <2>1. Move(p, d) = p
    BY <1>2 DEF Move
  <2>. QED  BY <2>1
<1>. QED  BY <1>1, <1>2

(* What an integer is read from is bytes, as many as there are left.        *)
LEMMA Piece ==
  ASSUME bytes \in Seq(Nat), NEW p \in Nat, NEW z \in Int, p + z <= Len(bytes)
  PROVE  /\ SubSeq(bytes, p + 1, p + z) \in Seq(Nat)
         /\ z >= 0 => Len(SubSeq(bytes, p + 1, p + z)) = z
         /\ \A i \in 1 .. z : SubSeq(bytes, p + 1, p + z)[i] = bytes[p + i]
<1> DEFINE m == p + 1
           n == p + z
<1>1. m \in Int /\ n \in Int /\ \A i \in m .. n : bytes[i] \in Nat
  <2>1. \A i \in m .. n : i \in 1 .. Len(bytes)
    OBVIOUS
  <2>. QED  BY <2>1
<1>2. /\ z >= 0 => (IF m <= n THEN n - m + 1 ELSE 0) = z
      /\ n - m + 1 = z /\ \A i \in 1 .. z : m + i - 1 = p + i
  OBVIOUS
<1> HIDE DEF m, n
<1>3. /\ SubSeq(bytes, m, n) \in Seq(Nat)
      /\ Len(SubSeq(bytes, m, n)) = IF m <= n THEN n - m + 1 ELSE 0
      /\ \A i \in 1 .. n - m + 1 : SubSeq(bytes, m, n)[i] = bytes[m + i - 1]
  BY <1>1, SubSeqProperties
<1>. QED  BY <1>2, <1>3 DEF m, n

(* Whatever is at a position, reading an integer there gives one.           *)
LEMMA IntAtTyped ==
  ASSUME bytes \in Seq(Nat), NEW p \in Nat, NEW z \in Int, p + z <= Len(bytes)
  PROVE  IntAt(p, z).len \in {0 - 1} \cup Nat /\ IntAt(p, z).val \in Nat
<1> DEFINE q == SubSeq(bytes, p + 1, p + z)
<1>1. q \in Seq(Nat)
  BY Piece
<1>2. IntAt(p, z) = IntDeserialize(q)
  BY DEF IntAt
<1> HIDE DEF q
<1>3. Len(q) \in Nat
  BY <1>1
<1>4. IntDeserialize(q).len \in {0 - 1} \cup 0 .. Len(q) /\ IntDeserialize(q).val \in Nat
  BY <1>1, IntDeserializeTyped
<1>. QED  BY <1>2, <1>3, <1>4

(* An integer that was read leaves the cursor in the buffer, and so does one
   that was not.                                                            *)
LEMMA ReadIntTyped ==
  ASSUME bytes \in Seq(Nat), avail \in 0 .. Len(bytes), NEW p \in Nat
  PROVE  /\ ReadInt(p).ok \in BOOLEAN /\ ReadInt(p).len \in Int /\ ReadInt(p).val \in Nat
         /\ ReadInt(p).ok => ReadInt(p).len \in Nat /\ ReadInt(p).len >= 1
         /\ ReadInt(p).ptr \in Nat
         /\ InRange(p, avail) => InRange(ReadInt(p).ptr, avail)
<1> DEFINE k == IntAt(p, avail - p)
           ok == k.len > 0 /\ p + k.len < avail
           q == IF ok THEN p + k.len ELSE IF k.len > 0 THEN Move(p, 0 - k.len) ELSE p
<1>1. ReadInt(p) = [ok |-> ok, len |-> k.len, val |-> k.val, ptr |-> q]
  BY DEF ReadInt
<1>2. avail \in Nat /\ avail - p \in Int /\ p + (avail - p) <= Len(bytes)
  OBVIOUS
<1>3. k.len \in {0 - 1} \cup Nat /\ k.val \in Nat
  BY <1>2, IntAtTyped
<1> HIDE DEF k
<1>4. ok \in BOOLEAN /\ k.len \in Int /\ (ok => k.len \in Nat /\ k.len >= 1)
  BY <1>3
<1>5. q \in Nat /\ (InRange(p, avail) => InRange(q, avail))
  <2>1. CASE ok
    <3>1. q = p + k.len /\ p + k.len \in 0 .. avail - 1
      BY <1>2, <1>3, <2>1
    <3> HIDE DEF q
    <3>. QED  BY <3>1 DEF InRange
  <2>2. CASE ~ok /\ k.len > 0
    <3>1. q = Move(p, 0 - k.len) /\ 0 - k.len \in Int
      BY <1>3, <2>2
    <3> HIDE DEF q
    <3>. QED  BY <3>1, MoveTyped
  <2>3. CASE ~ok /\ ~ k.len > 0
    <3>1. q = p
      BY <2>3
    <3> HIDE DEF q
    <3>. QED  BY <3>1
  <2>. QED  BY <2>1, <2>2, <2>3
<1> HIDE DEF ok, q
<1>. QED  BY <1>1, <1>3, <1>4, <1>5

(* A value that was read has a length and a number.                         *)
LEMMA DeserializeTyped ==
  ASSUME bytes \in Seq(Nat), NEW p \in Nat, NEW z \in Int, p + z <= Len(bytes)
  PROVE  Deserialize(p, z).len \in Int /\ Deserialize(p, z).n \in Nat
<1> DEFINE k == IntAt(p + 1, z - 1)
<1>1. k.len \in {0 - 1} \cup Nat /\ k.val \in Nat
  BY IntAtTyped
<1>2. Deserialize(p, z) =
        IF z < 1 THEN [len |-> 0, n |-> 0]
        ELSE IF Byte(p) # serialize_positive_int THEN [len |-> 0 - 1, n |-> 0]
        ELSE [len |-> IF k.len < 0 THEN k.len ELSE 1 + k.len, n |-> k.val]
  BY DEF Deserialize
<1> HIDE DEF k
<1>. QED  BY <1>1, <1>2

(* The header of a pooled box has a length and an offset.                   *)
LEMMA HeaderTyped ==
  ASSUME bytes \in Seq(Nat), avail \in 0 .. Len(bytes), ptr \in Nat
  PROVE  Header.ok \in BOOLEAN /\ Header.len \in Int /\ Header.off \in Nat
<1> DEFINE k == ReadInt(ptr + 1)
<1>1. k.ok \in BOOLEAN /\ k.len \in Int /\ k.val \in Nat
  BY ReadIntTyped
<1>2. Header = IF avail - ptr >= 2 /\ Byte(ptr) = serialize_str_pool_table
               THEN [ok |-> k.ok, len |-> 1 + k.len, off |-> k.val]
               ELSE [ok |-> FALSE, len |-> 0, off |-> 0]
  BY DEF Header
<1> HIDE DEF k
<1>3. CASE avail - ptr >= 2 /\ Byte(ptr) = serialize_str_pool_table
  <2>1. Header = [ok |-> k.ok, len |-> 1 + k.len, off |-> k.val]
    BY <1>2, <1>3
  <2>. QED  BY <1>1, <2>1
<1>4. CASE ~ (avail - ptr >= 2 /\ Byte(ptr) = serialize_str_pool_table)
  <2>1. Header = [ok |-> FALSE, len |-> 0, off |-> 0]
    BY <1>2, <1>4
  <2>. QED  BY <2>1
<1>. QED  BY <1>3, <1>4

(* What is known of a box.                                                  *)
LEMMA BoxOf ==
  ASSUME NEW b \in Boxes
  PROVE  /\ b.kind \in {"plain", "version", "list", "part", "partitions"}
         /\ b.items \in Seq(Value) /\ b.items # <<>> /\ 1 \in DOMAIN b.items
         /\ b.items[1] \in Value
         /\ b.vers \in Seq(Nat)
         /\ \A i \in 1 .. Len(b.vers) : b.vers[i] \in Nat /\ IntLen(b.vers[i]) <= MaxGroups
         /\ \A i \in 1 .. Len(b.items) : b.items[i] \in Value /\ IntLen(b.items[i].n) <= MaxGroups
         /\ b.kind = "version" => Len(b.vers) = 1
         /\ b.kind = "list" => Len(b.vers) = Len(b.items)
         /\ IntLen(Len(BoxBytes(b))) <= MaxGroups
<1>1. /\ b.kind \in {"plain", "version", "list", "part", "partitions"}
      /\ b.items \in Seq(Value) /\ b.items # <<>>
      /\ b.vers \in Seq(Versions)
      /\ b.kind = "version" => Len(b.vers) = 1
      /\ b.kind = "list" => Len(b.vers) = Len(b.items)
      /\ IntLen(Len(BoxBytes(b))) <= MaxGroups
      /\ Versions \subseteq Nat /\ \A n \in Ints \cup Versions : IntLen(n) <= MaxGroups
  BY BoxReaderAssumption
<1>2. b.vers \in Seq(Nat)
  BY <1>1, SeqMonotonic
<1>3. Len(b.items) \in Nat \ {0} /\ 1 \in 1 .. Len(b.items) /\ DOMAIN b.items = 1 .. Len(b.items)
  <2>1. Len(b.items) \in Nat \ {0}
    BY <1>1, EmptySeq
  <2>. QED  BY <1>1, <2>1
<1>4. ASSUME NEW i \in 1 .. Len(b.items)
      PROVE  b.items[i] \in Value /\ IntLen(b.items[i].n) <= MaxGroups
  <2>1. b.items[i] \in Value
    BY <1>1
  <2>2. b.items[i].n \in Ints
    BY <2>1 DEF Value
  <2>. QED  BY <1>1, <2>1, <2>2
<1>5. ASSUME NEW i \in 1 .. Len(b.vers)
      PROVE  b.vers[i] \in Nat /\ IntLen(b.vers[i]) <= MaxGroups
  <2>1. b.vers[i] \in Versions
    BY <1>1
  <2>. QED  BY <1>1, <2>1
<1>. QED  BY <1>1, <1>2, <1>3, <1>4, <1>5

(* A box is bytes.                                                          *)
LEMMA BoxBytesTyped ==
  ASSUME NEW b \in Boxes
  PROVE  BoxBytes(b) \in Seq(Nat) /\ Len(BoxBytes(b)) \in Nat
<1> DEFINE v == b.items[1]
<1>1. v \in Value /\ ValueBytes(v) \in Seq(Nat) /\ Len(ValueBytes(v)) \in Nat
  BY BoxOf, ValueBytesOf
<1>2. CASE b.kind = "plain"
  BY <1>1, <1>2 DEF BoxBytes
<1>3. CASE b.kind = "version"
  <2>1. b.vers[1] \in Nat /\ serialize_version \in Nat
    <3>1. 1 \in 1 .. Len(b.vers)
      <4>1. Len(b.vers) = 1
        BY <1>3, BoxOf
      <4>. QED  BY <4>1
    <3>. QED  BY <3>1, BoxOf DEF serialize_version
  <2>2. BoxBytes(b) = <<serialize_version>> \o Digits[b.vers[1]] \o ValueBytes(v)
    BY <1>3 DEF BoxBytes, VersionBytes
  <2> HIDE DEF v
  <2>3. BoxBytes(b) \in Seq(Nat)
    BY <1>1, <2>1, <2>2, Numbered
  <2>. QED  BY <2>3
<1>4. CASE b.kind = "list"
  <2>1. BoxBytes(b) = VersionListBytes(b.vers, b.items)
    BY <1>4 DEF BoxBytes
  <2>2. BoxBytes(b) \in Seq(Nat)
    BY <1>4, <2>1, BoxOf, VersionListBytesOf
  <2>. QED  BY <2>2
<1>5. CASE b.kind = "part"
  BY <1>1, <1>5, PartBytesOf DEF BoxBytes
<1>6. CASE b.kind = "partitions"
  <2>1. BoxBytes(b) = PartitionBytes(b.items)
    BY <1>6 DEF BoxBytes
  <2>2. BoxBytes(b) \in Seq(Nat)
    BY <2>1, BoxOf, PartitionBytesOf
  <2>. QED  BY <2>2
<1>. QED  BY <1>2, <1>3, <1>4, <1>5, <1>6, BoxOf

(* What a step of the reader leaves: calls, and a cursor they can go back from. *)
Moved ==
  ptr' \in Nat /\ Frames(stack') /\ Safe(stack', ptr', avail) /\ ret' \in Int

(* A call that does not jump returns.                                       *)
LEMMA ReturnMoved ==
  ASSUME TypeInv, stack # <<>>, Top.at # "back", NEW q \in Nat, ptr' = q,
         InRange(ptr, avail) => InRange(q, avail), NEW r \in Int, Return(r)
  PROVE  Moved
<1>1. Frames(stack) /\ Safe(stack, ptr, avail)
  BY DEF TypeInv
<1>2. stack' = Front(stack) /\ ret' = r
  BY DEF Return
<1>3. Frames(Front(stack))
  BY <1>1, FramesTop
<1>4. Safe(Front(stack), q, avail)
  <2>1. Good([Call EXCEPT !.at = "enter"]) /\ [Call EXCEPT !.at = "enter"].at # "back"
    <3>1. [Call EXCEPT !.at = "enter"] = Call
      BY DEF Call
    <3>. QED  BY <3>1, CallGood
  <2>. QED  BY <1>1, <2>1, SafeStep DEF Top
<1>. QED  BY <1>2, <1>3, <1>4 DEF Moved

(* It fails.                                                                *)
LEMMA FailMoved ==
  ASSUME TypeInv, stack # <<>>, Top.at # "back", NEW p \in Nat,
         InRange(ptr, avail) => InRange(p, avail), NEW len \in Int, Fail(p, len)
  PROVE  Moved
<1> DEFINE q == Move(p, 0 - len)
<1>1. ptr' = q /\ Return(0 - 1)
  BY DEF Fail
<1>2. 0 - len \in Int /\ 0 - 1 \in Int
  OBVIOUS
<1>3. q \in Nat /\ (InRange(p, avail) => InRange(q, avail))
  BY <1>2, MoveTyped
<1> HIDE DEF q
<1>. QED  BY <1>1, <1>2, <1>3, ReturnMoved

(* It goes on, or calls.                                                    *)
LEMMA StepMoved ==
  ASSUME TypeInv, stack # <<>>, Top.at # "back", ptr' \in Nat,
         InRange(ptr, avail) => InRange(ptr', avail), ret' = ret,
         NEW f, Good(f), f.at # "back", Reach(f) \/ Enter(f)
  PROVE  Moved
<1>1. Frames(stack) /\ Safe(stack, ptr, avail) /\ ret \in Int
  BY DEF TypeInv
<1>2. stack' = Front(stack) \o <<f>> \/ stack' = Front(stack) \o <<f, Call>>
  BY DEF Reach, Enter
<1>3. Frames(Front(stack))
  BY <1>1, FramesTop
<1>4. Frames(stack')
  <2> DEFINE fr == Front(stack)
  <2>1. Frames(fr) /\ (stack' = fr \o <<f>> \/ stack' = fr \o <<f, Call>>)
    BY <1>2, <1>3
  <2> HIDE DEF fr
  <2>2. Frames(fr \o <<f>>) /\ Frames(fr \o <<f, Call>>)
    BY <2>1, FramesPushed
  <2>. QED  BY <2>1, <2>2
<1>5. Safe(stack', ptr', avail)
  <2> DEFINE q == ptr'
  <2>1. InRange(ptr, avail) => InRange(q, avail)
    OBVIOUS
  <2> HIDE DEF q
  <2>2. Safe(Front(stack) \o <<f>>, q, avail) /\ Safe(Front(stack) \o <<f, Call>>, q, avail)
    BY <1>1, <2>1, SafeStep DEF Top
  <2>. QED  BY <1>2, <2>2 DEF q
<1>. QED  BY <1>1, <1>4, <1>5 DEF Moved

(* The innermost call.                                                      *)
LEMMA TopIn ==
  ASSUME TypeInv, stack # <<>>
  PROVE  Top \in Frame /\ Good(Top)
<1>1. Good(Top)
  BY FramesTop DEF TypeInv, Top
<1>. QED  BY <1>1 DEF Good

(* What is known of the innermost call.                                     *)
LEMMA TopOf ==
  ASSUME TypeInv, stack # <<>>
  PROVE  /\ Top.len \in Nat /\ Top.n \in Nat /\ Top.first \in Int /\ Top.save \in Nat
         /\ Top.at \in {"item", "offset", "skip"} => Top.n >= 1
         /\ Top.at = "jump" => Top.first >= 0
<1>1. Top \in Frame /\ Good(Top)
  BY TopIn
<1>. QED  BY <1>1 DEF Frame, Good

(* A call at another block, with other counts.                              *)
LEMMA FrameSet ==
  ASSUME NEW f \in Frame, NEW b, NEW l \in Nat, NEW n \in Nat, NEW x \in Int,
         b \in {"enter", "type", "version", "list", "item", "match", "skip", "part",
                "inner", "table", "offset", "jump", "name"},
         b \in {"item", "offset", "skip"} => n >= 1, b = "jump" => x >= 0
  PROVE  /\ Good([f EXCEPT !.at = b, !.len = l, !.n = n, !.first = x])
         /\ [f EXCEPT !.at = b, !.len = l, !.n = n, !.first = x].at # "back"
<1> DEFINE g == [f EXCEPT !.at = b, !.len = l, !.n = n, !.first = x]
<1>1. g \in Frame /\ g.at = b /\ g.n = n /\ g.first = x
  BY DEF Frame
<1> HIDE DEF g
<1>2. b # "back"
  OBVIOUS
<1>3. Good(g)
  BY <1>1 DEF Good
<1>. QED  BY <1>1, <1>2, <1>3 DEF g

(* A step of the reader, as far as types go.                                *)
Typed ==
  /\ Moved
  /\ pooled' \in Int /\ out' \in [name : Nat, n : Nat]
  /\ bytes' = bytes /\ avail' = avail /\ begin' = begin

(* The integer at the cursor.                                               *)
LEMMA NumOf ==
  ASSUME TypeInv
  PROVE  /\ Num.ok \in BOOLEAN /\ Num.len \in Int /\ Num.val \in Nat /\ Num.ptr \in Nat
         /\ Num.ok => Num.len \in Nat
         /\ InRange(ptr, avail) => InRange(Num.ptr, avail)
BY ReadIntTyped DEF TypeInv, Num

(* Where the cursor can be moved to from a block.                           *)
LEMMA TypedStep ==
  ASSUME TypeInv, Typed
  PROVE  TypeInv'
<1>1. bytes' \in Seq(Nat) /\ avail' \in 0 .. Len(bytes') /\ begin' \in Nat
  BY DEF TypeInv, Typed
<1>2. ptr' \in Nat /\ Frames(stack') /\ Safe(stack', ptr', avail') /\ ret' \in Int
  BY DEF Typed, Moved
<1>. QED  BY <1>1, <1>2 DEF TypeInv, Typed

(* Nothing but the calls and the cursor changes.                            *)
LEMMA MovedTyped ==
  ASSUME TypeInv, Moved, UNCHANGED client, UNCHANGED <<out, pooled>>
  PROVE  Typed
BY DEF TypeInv, Typed, client

(* The first block of a call keeps the types.                               *)
LEMMA TryDeserializeTyped ==
  ASSUME TypeInv, TryDeserialize
  PROVE  Typed
<1> DEFINE p == IF Header.ok THEN Move(ptr, Header.len) ELSE ptr
           d == Deserialize(p, avail - p)
<1>1. /\ stack # <<>> /\ Top.at = "enter" /\ Top.at # "back"
      /\ pooled' = IF Header.ok THEN Header.off ELSE pooled
      /\ UNCHANGED client
  BY DEF TryDeserialize, At
<1>2. bytes \in Seq(Nat) /\ avail \in 0 .. Len(bytes) /\ ptr \in Nat /\ pooled \in Int
      /\ out \in [name : Nat, n : Nat]
  BY DEF TypeInv
<1>3. Header.ok \in BOOLEAN /\ Header.len \in Int /\ Header.off \in Nat
  BY <1>2, HeaderTyped
<1>4. p \in Nat /\ (InRange(ptr, avail) => InRange(p, avail))
  BY <1>2, <1>3, MoveTyped
<1>5. \/ d.len > 0 /\ out' = [name |-> 0, n |-> d.n] /\ ptr' = Move(p, d.len) /\ Return(d.len)
      \/ ptr' = p /\ Return(0) /\ UNCHANGED out
      \/ ptr' = p /\ Reach([Top EXCEPT !.at = "type"]) /\ UNCHANGED <<out, ret>>
  BY DEF TryDeserialize
<1> HIDE DEF p
<1>6. d.len \in Int /\ d.n \in Nat
  <2>1. avail - p \in Int /\ p + (avail - p) <= Len(bytes)
    BY <1>2, <1>4
  <2>. QED  BY <1>2, <1>4, <2>1, DeserializeTyped
<1> HIDE DEF d
<1>7. CASE d.len > 0 /\ out' = [name |-> 0, n |-> d.n] /\ ptr' = Move(p, d.len) /\ Return(d.len)
  <2> DEFINE q == Move(p, d.len)
  <2>1. q \in Nat /\ (InRange(ptr, avail) => InRange(q, avail)) /\ ptr' = q
    BY <1>4, <1>6, <1>7, MoveTyped
  <2> HIDE DEF q
  <2>2. Moved
    BY <1>1, <1>6, <1>7, <2>1, ReturnMoved
  <2>3. out' \in [name : Nat, n : Nat]
    BY <1>6, <1>7
  <2>. QED  BY <1>1, <1>2, <1>3, <2>2, <2>3 DEF Typed, client
<1>8. CASE ptr' = p /\ Return(0) /\ UNCHANGED out
  <2>1. 0 \in Int
    OBVIOUS
  <2>2. Moved
    BY <1>1, <1>4, <1>8, <2>1, ReturnMoved
  <2>. QED  BY <1>1, <1>2, <1>3, <1>8, <2>2 DEF Typed, client
<1>9. CASE ptr' = p /\ Reach([Top EXCEPT !.at = "type"]) /\ UNCHANGED <<out, ret>>
  <2> DEFINE f == [Top EXCEPT !.at = "type"]
  <2>1. Good(f) /\ f.at # "back"
    <3>1. Top \in Frame
      BY <1>1, TopIn
    <3>2. f \in Frame /\ f.at = "type"
      BY <3>1 DEF Frame
    <3> HIDE DEF f
    <3>. QED  BY <3>2 DEF Good
  <2>2. Reach(f)
    BY <1>9
  <2> HIDE DEF f
  <2>3. Moved
    BY <1>1, <1>4, <1>9, <2>1, <2>2, StepMoved
  <2>. QED  BY <1>1, <1>2, <1>3, <1>9, <2>3 DEF Typed, client
<1>. QED  BY <1>5, <1>7, <1>8, <1>9

(* So does the reading of the tag.                                          *)
LEMMA ReadTypeTyped ==
  ASSUME TypeInv, ReadType
  PROVE  Typed
<1>1. stack # <<>> /\ Top.at = "type" /\ Top.at # "back" /\ UNCHANGED client
      /\ UNCHANGED <<out, pooled>>
  BY DEF ReadType, At
<1>2. ptr \in Nat /\ avail \in Nat
  BY DEF TypeInv
<1>3. CASE Fail(ptr, 0)
  <2>1. 0 \in Int
    OBVIOUS
  <2>2. Moved
    BY <1>1, <1>2, <1>3, <2>1, FailMoved
  <2>. QED  BY <1>1, <2>2, MovedTyped
<1>4. CASE ptr + 1 < avail /\ Fail(ptr + 1, 1)
  <2>1. ptr + 1 \in Nat /\ InRange(ptr + 1, avail) /\ 1 \in Int
    BY <1>2, <1>4 DEF InRange
  <2>2. Moved
    BY <1>1, <1>4, <2>1, FailMoved
  <2>. QED  BY <1>1, <2>2, MovedTyped
<1>5. CASE /\ ptr + 1 < avail /\ Block(Byte(ptr)) # "unknown" /\ ptr' = ptr + 1
           /\ Reach([Top EXCEPT !.at = Block(Byte(ptr)), !.len = 1]) /\ UNCHANGED ret
  <2>1. ptr' \in Nat /\ InRange(ptr', avail)
    BY <1>2, <1>5 DEF InRange
  <2> DEFINE b == Block(Byte(ptr))
             f == [Top EXCEPT !.at = b, !.len = 1]
  <2>2. b \in {"version", "list", "part", "table", "name"}
    BY <1>5 DEF Block
  <2> HIDE DEF b
  <2>3. Good(f) /\ f.at # "back"
    <3>1. Top \in Frame
      BY <1>1, TopIn
    <3>2. f \in Frame /\ f.at = b
      BY <2>2, <3>1 DEF Frame
    <3> HIDE DEF f
    <3>. QED  BY <2>2, <3>2 DEF Good
  <2>4. Reach(f)
    BY <1>5 DEF b
  <2> HIDE DEF f
  <2>5. Moved
    BY <1>1, <1>5, <2>1, <2>3, <2>4, StepMoved
  <2>. QED  BY <1>1, <2>5, MovedTyped
<1>. QED  BY <1>3, <1>4, <1>5 DEF ReadType

(* The blocks that read an integer first.                                   *)
LEMMA FailNum ==
  ASSUME TypeInv, stack # <<>>, Top.at # "back", NEW len \in Int, Fail(Num.ptr, len),
         UNCHANGED client, UNCHANGED <<out, pooled>>
  PROVE  Typed
<1>1. Num.ptr \in Nat /\ (InRange(ptr, avail) => InRange(Num.ptr, avail))
  BY NumOf
<1>2. Moved
  BY <1>1, FailMoved
<1>. QED  BY <1>2, MovedTyped

(* Passing a number keeps the types.                                        *)
LEMMA StepNum ==
  ASSUME TypeInv, stack # <<>>, Top.at # "back", Num.ok, UNCHANGED client,
         UNCHANGED <<out, pooled>>, ptr' = Num.ptr, ret' = ret,
         NEW b \in {"inner", "match", "skip", "item", "jump", "offset"},
         NEW n \in Nat, NEW x \in Int, b \in {"item", "offset", "skip"} => n >= 1,
         b = "jump" => x >= 0,
         LET f == [Top EXCEPT !.at = b, !.len = Counted, !.n = n, !.first = x]
         IN  Reach(f) \/ Enter(f)
  PROVE  Typed
<1> DEFINE f == [Top EXCEPT !.at = b, !.len = Counted, !.n = n, !.first = x]
<1>1. ptr' \in Nat /\ (InRange(ptr, avail) => InRange(ptr', avail))
  BY NumOf
<1>2. Counted \in Nat
  <2>1. Top.len \in Nat
    BY TopOf
  <2>2. Num.len \in Nat
    BY NumOf
  <2>. QED  BY <2>1, <2>2 DEF Counted
<1>3. Top \in Frame
  BY TopIn
<1>4. Good(f) /\ f.at # "back"
  <2> DEFINE l == Counted
  <2>1. l \in Nat
    BY <1>2
  <2> HIDE DEF l
  <2>2. /\ Good([Top EXCEPT !.at = b, !.len = l, !.n = n, !.first = x])
        /\ [Top EXCEPT !.at = b, !.len = l, !.n = n, !.first = x].at # "back"
    BY <1>3, <2>1, FrameSet
  <2>. QED  BY <2>2 DEF l
<1>5. Reach(f) \/ Enter(f)
  OBVIOUS
<1> HIDE DEF f
<1>6. Moved
  BY <1>1, <1>4, <1>5, StepMoved
<1>. QED  BY <1>6, MovedTyped

(* The block a call is at decides what it counts and what it keeps.         *)
LEMMA BlocksTyped ==
  ASSUME TypeInv,
         NoInt \/ ReadVersion \/ ReadPart \/ ReadList \/ ReadItem \/ ReadTable \/ ReadOffset
  PROVE  Typed
<1>1. stack # <<>> /\ Top.at # "back" /\ UNCHANGED client /\ UNCHANGED <<out, pooled>>
  BY DEF NoInt, ReadVersion, ReadPart, ReadList, ReadItem, ReadTable, ReadOffset, At, IntBlocks
<1>2. /\ Top.len \in Nat /\ Top.n \in Nat /\ Top.first \in Int
      /\ Top.at = "offset" => Top.n >= 1
      /\ Top.at = "item" => Top.n >= 1
  BY <1>1, TopOf
<1>3. Num.val \in Nat /\ Num.len \in Int
  BY NumOf
<1>4. Counted \in Int
  BY <1>2, <1>3 DEF Counted
<1>5. Top.len \in Int
  BY <1>2
<1>6. \A b, l : [Top EXCEPT !.at = b, !.len = l] =
                  [Top EXCEPT !.at = b, !.len = l, !.n = Top.n, !.first = Top.first]
  <2>1. Top \in Frame
    BY <1>1, TopIn
  <2>. QED  BY <2>1 DEF Frame
<1>7. \A b, l, n : [[Top EXCEPT !.at = b, !.n = n] EXCEPT !.len = l] =
                     [Top EXCEPT !.at = b, !.len = l, !.n = n, !.first = Top.first]
  <2>1. Top \in Frame
    BY <1>1, TopIn
  <2>. QED  BY <2>1 DEF Frame
<1>8. CASE NoInt
  <2>1. Fail(Num.ptr, Top.len)
    BY <1>8 DEF NoInt
  <2>. QED  BY <1>1, <1>5, <2>1, FailNum
<1>9. CASE Num.ok /\ Fail(Num.ptr, Counted)
  BY <1>1, <1>4, <1>9, FailNum
<1>10. ASSUME Num.ok, NEW b \in {"inner", "match", "skip"}, b = "skip" => Top.n >= 1, Descend(b)
       PROVE  Typed
  <2> DEFINE n == Top.n
             x == Top.first
  <2>1. n \in Nat /\ x \in Int /\ (b \in {"item", "offset", "skip"} => n >= 1) /\ b # "jump"
    BY <1>2, <1>10
  <2>2. ptr' = Num.ptr /\ ret' = ret /\ Enter([Top EXCEPT !.at = b, !.len = Counted])
    BY <1>10 DEF Descend
  <2>3. Enter([Top EXCEPT !.at = b, !.len = Counted, !.n = n, !.first = x])
    <3> DEFINE l == Counted
    <3>1. [Top EXCEPT !.at = b, !.len = l] = [Top EXCEPT !.at = b, !.len = l, !.n = n, !.first = x]
      BY <1>6
    <3>2. Enter([Top EXCEPT !.at = b, !.len = l])
      BY <2>2
    <3> HIDE DEF l, n, x
    <3>3. Enter([Top EXCEPT !.at = b, !.len = l, !.n = n, !.first = x])
      BY <3>1, <3>2
    <3>. QED  BY <3>3 DEF l
  <2> HIDE DEF n, x
  <2>. QED  BY <1>1, <1>10, <2>1, <2>2, <2>3, StepNum
<1>11. ASSUME Num.ok, NEW b \in {"item", "jump", "offset"}, NEW n \in Nat, NEW x \in Int,
              b \in {"item", "offset"} => n >= 1, b = "jump" => x >= 0,
              NEW f, f = [Top EXCEPT !.at = b, !.len = Counted, !.n = n, !.first = x],
              ptr' = Num.ptr, Reach(f), ret' = ret
       PROVE  Typed
  <2>1. Reach([Top EXCEPT !.at = b, !.len = Counted, !.n = n, !.first = x])
    BY <1>11
  <2>. QED  BY <1>1, <1>11, <2>1, StepNum
<1>12. CASE ReadVersion
  <2>1. Descend("inner") => Typed
    BY <1>10, <1>12 DEF ReadVersion
  <2>. QED  BY <1>9, <1>12, <2>1 DEF ReadVersion
<1>13. CASE ReadPart
  BY <1>10, <1>13 DEF ReadPart
<1>14. CASE ReadItem
  <2>1. Top.n >= 1 /\ Num.ok /\ Descend(IF Num.val \in accept THEN "match" ELSE "skip")
    BY <1>2, <1>14 DEF ReadItem, At
  <2>. QED  BY <1>10, <2>1
<1>15. ASSUME NEW b \in {"item", "offset"}, Num.ok, Num.val # 0,
              Proceed([Top EXCEPT !.at = b, !.n = Num.val])
       PROVE  Typed
  <2> DEFINE f == [[Top EXCEPT !.at = b, !.n = Num.val] EXCEPT !.len = Counted]
             n == Num.val
             x == Top.first
  <2>1. ptr' = Num.ptr /\ Reach(f) /\ ret' = ret
    BY <1>15 DEF Proceed
  <2>2. n \in Nat /\ n >= 1 /\ x \in Int /\ b # "jump"
    BY <1>2, <1>3, <1>15
  <2>3. f = [Top EXCEPT !.at = b, !.len = Counted, !.n = n, !.first = x]
    BY <1>7
  <2> HIDE DEF n, x, f
  <2>. QED  BY <1>11, <1>15, <2>1, <2>2, <2>3
<1>16. CASE ReadList
  <2>1. Proceed([Top EXCEPT !.at = "item", !.n = Num.val]) /\ Num.val # 0 => Typed
    BY <1>15, <1>16 DEF ReadList
  <2>. QED  BY <1>9, <1>16, <2>1 DEF ReadList
<1>17. CASE ReadTable
  <2>1. Proceed([Top EXCEPT !.at = "offset", !.n = Num.val]) /\ Num.val # 0 => Typed
    BY <1>15, <1>17 DEF ReadTable
  <2>. QED  BY <1>9, <1>17, <2>1 DEF ReadTable
<1>18. CASE ReadOffset
  <2> DEFINE b == IF Top.n = 1 THEN "jump" ELSE "offset"
             n == Top.n - 1
             x == IF Top.first < 0 THEN Num.val ELSE Top.first
             g == [Top EXCEPT !.at = b, !.n = @ - 1, !.first = IF @ < 0 THEN Num.val ELSE @]
             f == [g EXCEPT !.len = Counted]
  <2>1. Num.ok /\ Top.n >= 1
    BY <1>2, <1>18 DEF ReadOffset, At
  <2>2. ptr' = Num.ptr /\ Reach(f) /\ ret' = ret
    BY <1>18 DEF ReadOffset, Proceed
  <2>3. b \in {"item", "jump", "offset"} /\ n \in Nat /\ (b \in {"item", "offset"} => n >= 1)
    BY <1>2, <2>1
  <2>4. x \in Int /\ x >= 0
    BY <1>2, <1>3
  <2>5. f = [Top EXCEPT !.at = b, !.len = Counted, !.n = n, !.first = x]
    <3>1. Top \in Frame
      BY <1>1, TopIn
    <3> HIDE DEF b
    <3>. QED  BY <3>1 DEF Frame
  <2> HIDE DEF b, n, x, f
  <2>. QED  BY <1>11, <2>1, <2>2, <2>3, <2>4, <2>5
<1>. QED  BY <1>8, <1>12, <1>13, <1>14, <1>16, <1>17, <1>18

(* What follows the box inside another.                                     *)
LEMMA AfterTyped ==
  ASSUME TypeInv, AfterInner \/ AfterSkip
  PROVE  Typed
<1>1. stack # <<>> /\ Top.at # "back" /\ UNCHANGED client /\ pooled' = pooled
      /\ (out' = out \/ out' = NoValue)
  BY DEF AfterInner, AfterSkip, At
<1>2. Top.len \in Nat /\ Top.n \in Nat /\ (Top.at = "skip" => Top.n >= 1)
  BY <1>1, TopOf
<1>3. ptr \in Nat /\ ret \in Int /\ out \in [name : Nat, n : Nat] /\ pooled \in Int
  BY DEF TypeInv
<1>4. NoValue \in [name : Nat, n : Nat]
  BY DEF NoValue
<1>5. Top.len + ret \in Int /\ Top.len \in Int
  BY <1>2, <1>3
<1>6. SUFFICES Moved
  BY <1>1, <1>3, <1>4 DEF Typed, client
<1>7. CASE Return(Top.len + ret) /\ UNCHANGED ptr
  BY <1>1, <1>3, <1>5, <1>7, ReturnMoved
<1>8. CASE Fail(ptr, Top.len) \/ Fail(ptr, Top.len + ret)
  BY <1>1, <1>3, <1>5, <1>8, FailMoved
<1>9. CASE /\ AfterSkip /\ ret > 0 /\ Top.n # 1
           /\ Reach([Top EXCEPT !.at = "item", !.len = @ + ret, !.n = @ - 1])
           /\ UNCHANGED <<ptr, ret>>
  <2> DEFINE l == Top.len + ret
             n == Top.n - 1
             x == Top.first
             f == [Top EXCEPT !.at = "item", !.len = @ + ret, !.n = @ - 1]
  <2>1. Top.n >= 1
    BY <1>2, <1>9 DEF AfterSkip, At
  <2>2. l \in Nat /\ n \in Nat /\ n >= 1
    BY <1>2, <1>3, <1>9, <2>1
  <2>3. x \in Int
    BY <1>1, TopOf
  <2>4. Top \in Frame
    BY <1>1, TopIn
  <2>5. f = [Top EXCEPT !.at = "item", !.len = l, !.n = n, !.first = x]
    BY <2>4 DEF Frame
  <2>6. Reach(f)
    BY <1>9
  <2> HIDE DEF l, n, x, f
  <2>7. Good(f) /\ f.at # "back"
    <3> DEFINE b == "item"
    <3>1. /\ b \in {"enter", "type", "version", "list", "item", "match", "skip", "part",
                   "inner", "table", "offset", "jump", "name"}
          /\ b \in {"item", "offset", "skip"} => n >= 1
          /\ b = "jump" => x >= 0
          /\ f = [Top EXCEPT !.at = b, !.len = l, !.n = n, !.first = x]
      BY <2>2, <2>5
    <3> HIDE DEF b
    <3>. QED  BY <2>2, <2>3, <2>4, <3>1, FrameSet
  <2>8. ptr' \in Nat /\ ptr' = ptr /\ ret' = ret
    BY <1>3, <1>9
  <2>. QED  BY <1>1, <2>6, <2>7, <2>8, StepMoved
<1>. QED  BY <1>7, <1>8, <1>9 DEF AfterInner, AfterSkip

(* A jump remembers the cursor, and the return from it restores it.         *)
LEMMA JumpTyped ==
  ASSUME TypeInv, Jump \/ Back
  PROVE  Typed
<1>1. stack # <<>> /\ UNCHANGED client /\ UNCHANGED <<out, pooled>>
  BY DEF Jump, Back, At
<1>2. Frames(stack) /\ Safe(stack, ptr, avail) /\ ptr \in Nat /\ ret \in Int
  BY DEF TypeInv
<1>3. Top \in Frame /\ Good(Top)
  BY <1>1, TopIn
<1>4. Top.len \in Nat /\ Top.save \in Nat /\ Top.first \in Int
      /\ (Top.at = "jump" => Top.first >= 0)
  BY <1>1, TopOf
<1> DEFINE fr == Front(stack)
<1>5. Frames(fr)
  BY <1>1, <1>2, FramesTop
<1>6. CASE Jump
  <2> DEFINE f == [Top EXCEPT !.at = "back", !.save = ptr]
             q == Top.first
  <2>1. Top.at = "jump" /\ ptr' = q /\ stack' = fr \o <<f, Call>> /\ ret' = ret
    BY <1>6 DEF Jump, At, Enter
  <2>2. f \in Frame /\ f.at = "back" /\ f.save = ptr
    BY <1>2, <1>3 DEF Frame
  <2>3. q \in Nat
    BY <1>4, <2>1
  <2> HIDE DEF f, q
  <2>4. Good(f)
    BY <2>2 DEF Good
  <2>5. Safe(Front(stack) \o <<f, Call>>, q, avail)
    <3>1. stack[Len(stack)].at # "back"
      BY <2>1 DEF Top
    <3>. QED  BY <1>1, <1>2, <2>2, <2>4, <3>1, SafeJump
  <2>6. Frames(fr \o <<f, Call>>)
    <3> HIDE DEF fr
    <3>. QED  BY <1>5, <2>4, FramesPushed
  <2>7. Moved
    BY <1>2, <2>1, <2>3, <2>5, <2>6 DEF Moved
  <2>. QED  BY <1>1, <2>7, MovedTyped
<1>7. CASE Back
  <2>1. Top.at = "back" /\ ptr' = Top.save /\ stack' = fr /\ ret' = Top.len
    BY <1>7 DEF Back, At, Return
  <2>2. Safe(Front(stack), Top.save, avail)
    <3>1. stack[Len(stack)].at = "back"
      BY <2>1 DEF Top
    <3>. QED  BY <1>1, <1>2, <3>1, SafeJump DEF Top
  <2>3. Moved
    BY <1>4, <1>5, <2>1, <2>2 DEF Moved
  <2>. QED  BY <1>1, <2>3, MovedTyped
<1>. QED  BY <1>6, <1>7

(* The name an id box has is a byte that arrived, or none.                  *)
LEMMA NameTyped ==
  ASSUME TypeInv, pooled >= 0, NEW idx
  PROVE  NameAt(idx) \in Nat
<1>1. bytes \in Seq(Nat) /\ avail \in 0 .. Len(bytes) /\ pooled \in Nat
  BY DEF TypeInv
<1>2. CASE pooled + 1 < avail
  <2>1. (pooled + 1) + 1 \in 1 .. Len(bytes)
    BY <1>1, <1>2
  <2>2. bytes[(pooled + 1) + 1] \in Nat
    BY <1>1, <2>1
  <2>. QED  BY <2>2 DEF NameAt, Byte
<1>3. CASE ~ pooled + 1 < avail
  BY <1>3 DEF NameAt
<1>. QED  BY <1>2, <1>3

(* Reading an id box keeps the types.                                       *)
LEMMA ReadNamedTyped ==
  ASSUME TypeInv, ReadNamed
  PROVE  Typed
<1> DEFINE b == ReadInt(Num.ptr)
           len == Counted + b.len
           blen == IF pooled >= b.ptr /\ b.val > pooled - b.ptr THEN pooled - b.ptr
                   ELSE b.val
           readable == avail - b.ptr >= blen /\ pooled >= 0
           d == Deserialize(b.ptr, blen)
<1>1. stack # <<>> /\ Top.at # "back" /\ Num.ok /\ UNCHANGED client /\ pooled' = pooled
  BY DEF ReadNamed, At
<1>2. bytes \in Seq(Nat) /\ avail \in 0 .. Len(bytes) /\ ptr \in Nat /\ pooled \in Int
      /\ out \in [name : Nat, n : Nat]
  BY DEF TypeInv
<1>3. Num.ptr \in Nat /\ (InRange(ptr, avail) => InRange(Num.ptr, avail))
      /\ Num.len \in Int /\ Top.len \in Nat
  BY <1>1, NumOf, TopOf
<1>4. /\ b.ok \in BOOLEAN /\ b.len \in Int /\ b.val \in Nat /\ b.ptr \in Nat
      /\ InRange(Num.ptr, avail) => InRange(b.ptr, avail)
  BY <1>2, <1>3, ReadIntTyped
<1>5. Counted \in Int
  BY <1>3 DEF Counted
<1>6. \/ Fail(b.ptr, Counted) /\ UNCHANGED out
      \/ Fail(b.ptr, len) /\ UNCHANGED out
      \/ /\ readable /\ d.len > 0
         /\ out' = [name |-> NameAt(Num.val), n |-> d.n]
         /\ ptr' = Move(b.ptr, d.len)
         /\ Return(len + d.len)
  BY DEF ReadNamed
<1> HIDE DEF b
<1>7. len \in Int /\ blen \in Int
  BY <1>2, <1>4, <1>5
<1>8. readable => d.len \in Int /\ d.n \in Nat
  <2> SUFFICES ASSUME readable PROVE d.len \in Int /\ d.n \in Nat
    OBVIOUS
  <2>1. b.ptr + blen <= Len(bytes)
    <3>1. avail - b.ptr >= blen
      OBVIOUS
    <3> HIDE DEF blen
    <3>. QED  BY <1>2, <1>4, <1>7, <3>1
  <2> HIDE DEF blen
  <2>. QED  BY <1>2, <1>4, <1>7, <2>1, DeserializeTyped
<1>9. readable => pooled >= 0
  OBVIOUS
<1> HIDE DEF len, readable, d
<1>10. CASE (Fail(b.ptr, Counted) \/ Fail(b.ptr, len)) /\ UNCHANGED out
  <2>1. Moved
    BY <1>1, <1>3, <1>4, <1>5, <1>7, <1>10, FailMoved
  <2>. QED  BY <1>1, <1>2, <1>10, <2>1 DEF Typed, client
<1>11. CASE /\ readable /\ d.len > 0 /\ out' = [name |-> NameAt(Num.val), n |-> d.n]
            /\ ptr' = Move(b.ptr, d.len) /\ Return(len + d.len)
  <2> DEFINE q == Move(b.ptr, d.len)
             r == len + d.len
  <2>1. q \in Nat /\ (InRange(ptr, avail) => InRange(q, avail)) /\ ptr' = q
    BY <1>3, <1>4, <1>8, <1>11, MoveTyped
  <2>2. r \in Int /\ Return(r)
    BY <1>7, <1>8, <1>11
  <2> HIDE DEF q, r
  <2>3. Moved
    BY <1>1, <2>1, <2>2, ReturnMoved
  <2>4. NameAt(Num.val) \in Nat
    BY <1>9, <1>11, NameTyped
  <2>5. out' \in [name : Nat, n : Nat]
    BY <1>8, <1>11, <2>4
  <2>. QED  BY <1>1, <1>2, <2>3, <2>5 DEF Typed, client
<1>. QED  BY <1>6, <1>10, <1>11

(* The peer and the client.                                                 *)
LEMMA ClientTyped ==
  /\ \A b \in Boxes : TypeInv /\ Write(b) => TypeInv'
  /\ \A n : TypeInv /\ Receive(n) => TypeInv'
  /\ \A vs : TypeInv /\ ReadBox(vs) => TypeInv'
<1>1. ASSUME NEW b \in Boxes, TypeInv, Write(b) PROVE TypeInv'
  <2>1. bytes' = bytes \o BoxBytes(b) /\ avail = 0 /\ bytes \in Seq(Nat)
        /\ UNCHANGED <<avail, ptr, pooled, stack, out, ret, begin>>
    BY <1>1 DEF Write, TypeInv
  <2>2. bytes' \in Seq(Nat) /\ avail' \in 0 .. Len(bytes')
    <3> DEFINE s == BoxBytes(b)
    <3>1. s \in Seq(Nat) /\ bytes' = bytes \o s
      BY <2>1, BoxBytesTyped
    <3> HIDE DEF s
    <3>. QED  BY <2>1, <3>1
  <2>. QED  BY <1>1, <2>1, <2>2 DEF TypeInv
<1>2. ASSUME NEW n, TypeInv, Receive(n) PROVE TypeInv'
  <2>1. /\ stack = <<>> /\ n \in avail + 1 .. Len(bytes) /\ avail' = n /\ ret' = NoRet
        /\ UNCHANGED <<bytes, ptr, pooled, stack, out, begin>>
    BY <1>2 DEF Receive
  <2>2. bytes \in Seq(Nat) /\ avail \in 0 .. Len(bytes) /\ Safe(stack, ptr, avail) /\ ptr \in Nat
    BY <1>2 DEF TypeInv
  <2>3. avail' \in 0 .. Len(bytes') /\ NoRet \in Int
    BY <2>1, <2>2 DEF NoRet
  <2>4. Len(stack) = 0 /\ InRange(ptr, avail)
    BY <2>1, <2>2 DEF Safe
  <2>5. InRange(ptr, n)
    BY <2>1, <2>2, <2>4 DEF InRange
  <2>6. Safe(stack', ptr', avail')
    BY <2>1, <2>4, <2>5 DEF Safe
  <2>. QED  BY <1>2, <2>1, <2>3, <2>6 DEF TypeInv
<1>3. ASSUME NEW vs, TypeInv, ReadBox(vs) PROVE TypeInv'
  <2>1. /\ stack = <<>> /\ stack' = <<Call>> /\ ret' = NoRet /\ out' = NoValue /\ begin' = ptr
        /\ UNCHANGED <<bytes, avail, ptr, pooled>>
    BY <1>3 DEF ReadBox
  <2>2. Safe(stack, ptr, avail) /\ ptr \in Nat /\ NoRet \in Int /\ out' \in [name : Nat, n : Nat]
    BY <1>3, <2>1 DEF TypeInv, NoRet, NoValue
  <2>3. Len(stack) = 0 /\ InRange(ptr, avail)
    BY <2>1, <2>2 DEF Safe
  <2> DEFINE c == Call
  <2>4. stack' = <<c>> /\ Good(c) /\ c.at = "enter"
    BY <2>1, CallGood
  <2> HIDE DEF c
  <2>5. stack' \in Seq(Frame) /\ Len(stack') = 1 /\ stack'[1] = c
    <3>1. c \in Frame
      BY <2>4 DEF Good
    <3>. QED  BY <2>4, <3>1
  <2>6. Frames(stack')
    BY <2>4, <2>5 DEF Frames
  <2>7. Safe(stack', ptr', avail')
    BY <2>1, <2>3, <2>4, <2>5 DEF Safe
  <2>. QED  BY <1>3, <2>1, <2>2, <2>6, <2>7 DEF TypeInv
<1>. QED  BY <1>1, <1>2, <1>3

(* Every step keeps the types.                                              *)
LEMMA TypeStep == TypeInv /\ [Next]_vars => TypeInv'
<1> SUFFICES ASSUME TypeInv, [Next]_vars PROVE TypeInv'
  OBVIOUS
<1>1. CASE UNCHANGED vars
  <2>1. UNCHANGED <<bytes, avail, ptr, pooled, stack, out, ret, begin>>
    BY <1>1 DEF vars
  <2>. QED  BY <2>1 DEF TypeInv
<1>2. CASE Reader
  <2>1. Typed
    BY <1>2, TryDeserializeTyped, ReadTypeTyped, BlocksTyped, AfterTyped, JumpTyped,
       ReadNamedTyped DEF Reader
  <2>. QED  BY <2>1, TypedStep
<1>3. CASE \E b \in Boxes : Write(b)
  BY <1>3, ClientTyped
<1>4. CASE \E n \in 1 .. Len(bytes) : Receive(n)
  BY <1>4, ClientTyped
<1>5. CASE \E vs \in SUBSET Versions : ReadBox(vs)
  BY <1>5, ClientTyped
<1>. QED  BY <1>1, <1>2, <1>3, <1>4, <1>5 DEF Next

(* At first nothing is written, and the cursor is at 0.                     *)
LEMMA TypeInit == Init => TypeInv
<1> SUFFICES ASSUME Init PROVE TypeInv
  OBVIOUS
<1>1. /\ bytes = <<>> /\ avail = 0 /\ ptr = 0 /\ pooled = 0 - 1 /\ stack = <<>>
      /\ out = NoValue /\ ret = NoRet /\ begin = 0
  BY DEF Init
<1>2. Frames(stack) /\ Safe(stack, ptr, avail)
  BY <1>1 DEF Frames, Safe, InRange
<1>3. bytes \in Seq(Nat) /\ avail \in 0 .. Len(bytes)
  BY <1>1
<1>4. ret \in Int /\ out \in [name : Nat, n : Nat] /\ pooled \in Int
  BY <1>1 DEF NoRet, NoValue
<1>. QED  BY <1>1, <1>2, <1>3, <1>4 DEF TypeInv

(* What the steps keep says what TypeOK does.                               *)
LEMMA TypeImplies == TypeInv => TypeOK
<1> SUFFICES ASSUME TypeInv PROVE TypeOK
  OBVIOUS
<1>1. Frames(stack) /\ Safe(stack, ptr, avail)
  BY DEF TypeInv
<1>2. stack \in Seq(Frame) /\ DOMAIN stack = 1 .. Len(stack)
  BY <1>1 DEF Frames
<1>3. (\A f \in DOMAIN stack : stack[f].at # "back") => ptr = 0 \/ ptr \in 0 .. avail - 1
  BY <1>1, <1>2 DEF Safe, InRange
<1>. QED  BY <1>2, <1>3 DEF TypeInv, TypeOK

(* However often the cursor is moved forward, back and to the parts of a table,
   it stays on a byte that arrived, and calls have their types.             *)
THEOREM TypeCorrect == Spec => []TypeOK
BY TypeInit, TypeStep, TypeImplies, PTL DEF Spec

-----------------------------------------------------------------------------
(* The bytes of each box are between its start and its stop, and a part table
   starts where offsets count from; nothing is read before something came.   *)
WrittenInv ==
  /\ written \in Seq([start : Nat, stop : Nat, box : Boxes])
  /\ \A w \in BoxesIn :
       /\ Holds(bytes, w.start, BoxBytes(w.box))
       /\ w.stop = w.start + Len(BoxBytes(w.box))
       /\ w.box.kind = "partitions" => w.start = 0
  /\ written = <<>> => bytes = <<>>
  /\ avail = 0 => stack = <<>> /\ ret = NoRet

(* A call at a block with its count, and nothing else counted.              *)
Fr(b, l, n, f, s) == [at |-> b, len |-> l, n |-> n, first |-> f, save |-> s]
Fresh(b, l) == Fr(b, l, 0, 0 - 1, 0)

(* The cursor after a value from p to q: it cannot leave the buffer.        *)
Past(p, q) == IF q < avail THEN q ELSE p

(* Reading the value n behind the tag of block b and the number m, from p, in
   calls of their own above base.                                           *)
Wrapped(base, p, b, m, n) ==
  LET q == p + 1 + IntLen(m)
  IN  \/ /\ \/ stack = base \o <<Call>> /\ ptr = p
            \/ stack = base \o <<Fresh("type", 0)>> /\ ptr = p
            \/ stack = base \o <<Fresh(b, 1)>> /\ ptr = p + 1
            \/ /\ stack = base \o <<Fresh("inner", 1 + IntLen(m)), Call>> /\ ptr = q
               /\ b = "version" => m \in accept
         /\ out = NoValue
      \/ /\ stack = base \o <<Fresh("inner", 1 + IntLen(m))>>
         /\ ptr = Past(q, q + 1 + IntLen(n))
         /\ b = "version" => m \in accept
         /\ ret = 1 + IntLen(n) /\ out = [name |-> 0, n |-> n]

(* Reading a list from p: at its head; at an entry from a to z, whose version is
   m and whose value is v, when n entries are left.                         *)
AtHead(p, b) ==
  /\ \/ stack = <<Call>> /\ ptr = p
     \/ stack = <<Fresh("type", 0)>> /\ ptr = p
     \/ stack = <<Fresh(b, 1)>> /\ ptr = p + 1
  /\ out = NoValue
EntryCall(l, m, n) == Fr(IF m \in accept THEN "match" ELSE "skip", l, n, 0 - 1, 0)
InEntry(p, a, z, m, v, n) ==
  \/ stack = <<Fr("item", a - p, n, 0 - 1, 0)>> /\ ptr = a /\ out = NoValue
  \/ /\ stack = <<EntryCall(a + IntLen(m) - p, m, n), Call>>
     /\ ptr = a + IntLen(m) /\ out = NoValue
  \/ /\ stack = <<EntryCall(a + IntLen(m) - p, m, n)>>
     /\ ptr = Past(a + IntLen(m), z) /\ ret = 1 + IntLen(v.n) /\ out = v

(* Reading the list vs under vers from p: no accepted entry precedes.       *)
Listed(p, vers, vs) ==
  LET E == Entries(vers, vs, p)
  IN  \/ AtHead(p, "list")
      \/ \E i \in 1 .. Len(vs) :
           /\ \A j \in 1 .. i - 1 : vers[j] \notin accept
           /\ InEntry(p, E[i], E[i + 1], vers[i], vs[i], Len(vs) - i + 1)

(* Reading the part table of vs: at its head, at an offset, or in its main part. *)
OffsetCall(l, f, i, n) == Fr("offset", l, n, IF i = 1 THEN 0 - 1 ELSE f, 0)
Tabled(vs) ==
  LET O == Offsets(vs)
      f == FirstPart(vs)
      J == Fr("back", f, 0, f, f)
  IN  \/ AtHead(0, "table")
      \/ \E i \in 1 .. Len(vs) :
           stack = <<OffsetCall(O[i], f, i, Len(vs) - i + 1)>> /\ ptr = O[i] /\ out = NoValue
      \/ stack = <<Fr("jump", f, 0, f, 0)>> /\ ptr = f /\ out = NoValue
      \/ Wrapped(<<J>>, f, "part", Len(ValueBytes(vs[1])), vs[1].n)
      \/ stack = <<J>> /\ out = vs[1]

(* Reading the id box of v at the start of the buffer.                      *)
Named(v) ==
  \/ stack = <<Call>> /\ ptr = 0
  \/ stack = <<Fresh("type", 0)>> /\ ptr = 1 + IntLen(TableAt(v)) /\ pooled = TableAt(v)
  \/ stack = <<Fresh("name", 1)>> /\ ptr = 2 + IntLen(TableAt(v)) /\ pooled = TableAt(v)

Reading(w) ==
  LET p == w.start
      vs == w.box.items
  IN  CASE w.box.kind = "plain" -> stack = <<Call>> /\ ptr = p
        [] w.box.kind = "version" -> Wrapped(<<>>, p, "version", w.box.vers[1], vs[1].n)
        [] w.box.kind = "part" -> Wrapped(<<>>, p, "part", Len(ValueBytes(vs[1])), vs[1].n)
        [] w.box.kind = "list" -> Listed(p, w.box.vers, vs)
        [] w.box.kind = "partitions" -> Tabled(vs)

(* What the client finds when its call has returned.                        *)
Exact(w) ==
  \/ w.box.kind \in {"plain", "version", "part"}
  \/ w.box.kind = "list" /\ FirstAccepted(w) = Len(w.box.items)
Concluded(w) ==
  IF Selects(w)
  THEN /\ ret > 0 /\ out = Selected(w)
       /\ Followed(w) => ptr = begin + ret /\ (Exact(w) => ptr = w.stop)
  ELSE /\ ret = 0 - 1 /\ out = NoValue
       /\ Followed(w) => ptr = begin

IdFirst(w) == w.start = 0 /\ w.box.kind = "plain" /\ w.box.items[1].name # 0
Asked(w) == w.start = begin /\ Arrived(w)

Progress(w) ==
  /\ stack # <<>> => (Plain(w) => Reading(w)) /\ (IdFirst(w) => Named(w.box.items[1]))
  /\ stack = <<>> /\ ret # NoRet =>
       /\ Plain(w) => Concluded(w)
       /\ IdFirst(w) => ret > 0 /\ out = w.box.items[1]

ProgressInv == \A w \in BoxesIn : Asked(w) => Progress(w)

IInv == TypeInv /\ WrittenInv /\ ProgressInv

(* Reading what was written.                                                *)

(* The digits of a number at a position are read as the number.             *)
LEMMA IntAtExact ==
  ASSUME bytes \in Seq(Nat), NEW p \in Nat, NEW n \in Nat, Holds(bytes, p, Digits[n]),
         IntLen(n) <= MaxGroups, NEW z \in Int, IntLen(n) <= z, p + z <= Len(bytes)
  PROVE  IntAt(p, z) = [len |-> IntLen(n), val |-> n]
<1> DEFINE q == SubSeq(bytes, p + 1, p + z)
<1>1. IntLen(n) \in Nat /\ Len(Digits[n]) = IntLen(n)
  BY IntLenOf, DigitsMarked
<1>2. z >= 0
  BY <1>1
<1>3. q \in Seq(Nat) /\ Len(q) = z /\ \A i \in 1 .. z : q[i] = bytes[p + i]
  BY <1>2, Piece
<1>4. IntAt(p, z) = IntDeserialize(q)
  BY DEF IntAt
<1> HIDE DEF q
<1>5. \A i \in 1 .. IntLen(n) : q[i] = Digits[n][i]
  <2>1. \A i \in 1 .. IntLen(n) : i \in 1 .. z
    BY <1>1
  <2>. QED  BY <1>1, <1>3, <2>1 DEF Holds
<1>. QED  BY <1>3, <1>4, <1>5, IntDeserializeExact

(* And the cursor passes it when more has come.                             *)
LEMMA ReadIntExact ==
  ASSUME TypeInv, NEW p \in Nat, NEW n \in Nat, Holds(bytes, p, Digits[n]),
         IntLen(n) <= MaxGroups, p + IntLen(n) < avail
  PROVE  /\ ReadInt(p).ok /\ ReadInt(p).len = IntLen(n) /\ ReadInt(p).val = n
         /\ ReadInt(p).ptr = p + IntLen(n)
<1> DEFINE z == avail - p
           k == IntAt(p, z)
           l == IntLen(n)
           ok == k.len > 0 /\ p + k.len < avail
<1>1. l \in Nat /\ l >= 1 /\ bytes \in Seq(Nat) /\ avail \in 0 .. Len(bytes)
  BY IntLenOf DEF TypeInv
<1>2. z \in Int /\ l <= z /\ p + z <= Len(bytes)
  BY <1>1
<1>3. IntAt(p, z) = [len |-> IntLen(n), val |-> n]
  <2> HIDE DEF z
  <2>. QED  BY <1>1, <1>2, IntAtExact
<1>4. k.len = l /\ k.val = n
  <2> HIDE DEF z
  <2>. QED  BY <1>3
<1>5. ReadInt(p) = [ok |-> ok, len |-> k.len, val |-> k.val,
                    ptr |-> IF ok THEN p + k.len ELSE IF k.len > 0 THEN Move(p, 0 - k.len) ELSE p]
  BY DEF ReadInt
<1> HIDE DEF k
<1>6. ok
  BY <1>1, <1>4
<1> HIDE DEF ok
<1>. QED  BY <1>4, <1>5, <1>6

(* A plain value is read as its number.                                     *)
LEMMA DeserializeExact ==
  ASSUME bytes \in Seq(Nat), NEW p \in Nat, NEW n \in Nat, Holds(bytes, p, PlainBytes(n)),
         IntLen(n) <= MaxGroups, NEW z \in Int, 1 + IntLen(n) <= z, p + z <= Len(bytes)
  PROVE  Deserialize(p, z) = [len |-> 1 + IntLen(n), n |-> n]
<1> DEFINE k == IntAt(p + 1, z - 1)
<1>1. bytes[p + 1] = serialize_positive_int /\ Holds(bytes, p + 1, Digits[n])
  BY PlainBytesOf
<1>2. IntLen(n) \in Nat /\ IntLen(n) >= 1
  BY IntLenOf
<1>3. k = [len |-> IntLen(n), val |-> n]
  <2>1. p + 1 \in Nat /\ z - 1 \in Int /\ IntLen(n) <= z - 1 /\ (p + 1) + (z - 1) <= Len(bytes)
    BY <1>2
  <2>. QED  BY <1>1, <2>1, IntAtExact
<1>4. Deserialize(p, z) =
        IF z < 1 THEN [len |-> 0, n |-> 0]
        ELSE IF Byte(p) # serialize_positive_int THEN [len |-> 0 - 1, n |-> 0]
        ELSE [len |-> IF k.len < 0 THEN k.len ELSE 1 + k.len, n |-> k.val]
  BY DEF Deserialize
<1> HIDE DEF k
<1>5. ~ z < 1 /\ Byte(p) = serialize_positive_int
  BY <1>1, <1>2 DEF Byte
<1>6. k.len = IntLen(n) /\ k.val = n /\ ~ k.len < 0
  BY <1>2, <1>3
<1>. QED  BY <1>4, <1>5, <1>6

(* A step of the reader leaves the client alone, and is the one of the block
   its innermost call is at.                                                *)
LEMMA Dispatch ==
  ASSUME Reader
  PROVE  /\ UNCHANGED client /\ stack # <<>>
         /\ Top.at = "enter" => TryDeserialize
         /\ Top.at = "type" => ReadType
         /\ Top.at = "version" /\ Num.ok => ReadVersion
         /\ Top.at = "part" /\ Num.ok => ReadPart
         /\ Top.at = "list" /\ Num.ok => ReadList
         /\ Top.at = "item" /\ Num.ok => ReadItem
         /\ Top.at = "table" /\ Num.ok => ReadTable
         /\ Top.at = "offset" /\ Num.ok => ReadOffset
         /\ Top.at = "inner" \/ Top.at = "match" => AfterInner
         /\ Top.at = "skip" => AfterSkip
         /\ Top.at = "jump" => Jump
         /\ Top.at = "back" => Back
         /\ Top.at = "name" /\ Num.ok => ReadNamed
<1>1. UNCHANGED client /\ stack # <<>>
  BY DEF Reader, TryDeserialize, ReadType, NoInt, ReadVersion, ReadPart, ReadList, ReadItem,
         ReadTable, ReadOffset, AfterInner, AfterSkip, Jump, Back, ReadNamed, At
<1>2. /\ TryDeserialize => Top.at = "enter"
      /\ ReadType => Top.at = "type"
      /\ NoInt => ~Num.ok /\ Top.at \in IntBlocks
      /\ ReadVersion => Top.at = "version"
      /\ ReadPart => Top.at = "part"
      /\ ReadList => Top.at = "list"
      /\ ReadItem => Top.at = "item"
      /\ ReadTable => Top.at = "table"
      /\ ReadOffset => Top.at = "offset"
      /\ AfterInner => Top.at = "inner" \/ Top.at = "match"
      /\ AfterSkip => Top.at = "skip"
      /\ Jump => Top.at = "jump"
      /\ Back => Top.at = "back"
      /\ ReadNamed => Top.at = "name"
  BY DEF TryDeserialize, ReadType, NoInt, ReadVersion, ReadPart, ReadList, ReadItem,
         ReadTable, ReadOffset, AfterInner, AfterSkip, Jump, Back, ReadNamed, At
<1>. QED  BY <1>1, <1>2 DEF Reader, IntBlocks

(* The innermost call above others.                                         *)
LEMMA Above ==
  ASSUME NEW base \in Seq(Frame), NEW f \in Frame, stack = base \o <<f>>
  PROVE  Top = f /\ Front(stack) = base
<1> DEFINE k == Len(base)
           s == base \o <<f>>
<1>1. /\ k \in Nat /\ s \in Seq(Frame) /\ Len(s) = k + 1 /\ s[k + 1] = f
      /\ \A i \in 1 .. k : s[i] = base[i]
  OBVIOUS
<1> HIDE DEF s
<1>2. Top = f
  BY <1>1 DEF Top, s
<1>3. Front(stack) = SubSeq(s, 1, k)
  <2>1. Len(s) - 1 = k
    BY <1>1
  <2>. QED  BY <2>1 DEF Front, s
<1>4. SubSeq(s, 1, k) = base
  <2>1. /\ k - 1 + 1 = k /\ (IF 1 <= k THEN k - 1 + 1 ELSE 0) = k
        /\ \A i \in 1 .. k : 1 + i - 1 = i /\ s[i] \in Frame
    <3> HIDE DEF k
    <3>1. k - 1 + 1 = k /\ \A i \in 1 .. k : 1 + i - 1 = i
      BY <1>1
    <3>2. ~ 1 <= k => k = 0
      BY <1>1
    <3>3. \A i \in 1 .. k : i \in 1 .. Len(s)
      BY <1>1
    <3>. QED  BY <1>1, <3>1, <3>2, <3>3
  <2> HIDE DEF k
  <2>2. /\ SubSeq(s, 1, k) \in Seq(Frame)
        /\ Len(SubSeq(s, 1, k)) = IF 1 <= k THEN k - 1 + 1 ELSE 0
        /\ \A i \in 1 .. k - 1 + 1 : SubSeq(s, 1, k)[i] = s[1 + i - 1]
    BY <1>1, <2>1, SubSeqProperties
  <2> DEFINE t == SubSeq(s, 1, k)
  <2>3. t \in Seq(Frame) /\ Len(t) = Len(base) /\ \A i \in 1 .. Len(t) : t[i] = base[i]
    BY <1>1, <2>1, <2>2 DEF k
  <2> HIDE DEF t
  <2>4. t = base
    BY <2>3, SeqEqual
  <2>. QED  BY <2>4 DEF t
<1>. QED  BY <1>2, <1>3, <1>4

(* A call in another one.                                                   *)
LEMMA AboveCall ==
  ASSUME NEW base \in Seq(Frame), NEW f \in Frame, NEW g \in Frame
  PROVE  /\ base \o <<f>> \in Seq(Frame) /\ base \o <<f, g>> = (base \o <<f>>) \o <<g>>
<1>1. base \o <<f>> \in Seq(Frame)
  OBVIOUS
<1> DEFINE s == base \o <<f, g>>
           t == (base \o <<f>>) \o <<g>>
<1>2. s \in Seq(Frame) /\ Len(s) = Len(base) + 2
  OBVIOUS
<1>3. t \in Seq(Frame) /\ Len(t) = Len(base) + 2
  OBVIOUS
<1>4. ASSUME NEW i \in 1 .. Len(base) + 2 PROVE s[i] = t[i]
  <2>1. Len(base) \in Nat
    OBVIOUS
  <2>2. i \in 1 .. Len(base) \/ i = Len(base) + 1 \/ i = Len(base) + 2
    BY <2>1
  <2>. QED  BY <2>1, <2>2
<1> HIDE DEF s, t
<1>5. s = t
  BY <1>2, <1>3, <1>4, SeqEqual
<1>. QED  BY <1>1, <1>5 DEF s, t

(* Calls have their types.                                                  *)
LEMMA FrIn ==
  ASSUME NEW b \in {"enter", "type", "version", "list", "item", "match", "skip", "part",
                    "inner", "table", "offset", "jump", "back", "name"},
         NEW l \in Nat, NEW n \in Nat, NEW x \in Int, NEW s \in Nat
  PROVE  Fr(b, l, n, x, s) \in Frame
BY DEF Fr, Frame

(* A call that has just begun.                                              *)
LEMMA CallIs == Call \in Frame /\ Call = Fr("enter", 0, 0, 0 - 1, 0)
BY DEF Call, Frame, Fr

(* The fields of a call, and a call with another one.                       *)
LEMMA FrFields ==
  \A b, l, n, x, s :
    LET f == Fr(b, l, n, x, s)
    IN  /\ f.at = b /\ f.len = l /\ f.n = n /\ f.first = x /\ f.save = s
        /\ \A c : [f EXCEPT !.at = c] = Fr(c, l, n, x, s)
        /\ \A c : [f EXCEPT !.len = c] = Fr(b, c, n, x, s)
        /\ \A c : [f EXCEPT !.n = c] = Fr(b, l, c, x, s)
        /\ \A c : [f EXCEPT !.first = c] = Fr(b, l, n, c, s)
        /\ \A c : [f EXCEPT !.save = c] = Fr(b, l, n, x, c)
BY DEF Fr

(* A call at another block, with another count, counter, first offset or cursor
   to go back to.                                                           *)
Counting(f, c, m) == [f EXCEPT !.at = c, !.len = m]
Looping(f, c, k) == [f EXCEPT !.at = c, !.n = k]
Leaving(f, c, z) == [f EXCEPT !.at = c, !.save = z]
Measured(f, m) == [f EXCEPT !.len = m]
Both(f, c, m, k) == [f EXCEPT !.at = c, !.len = m, !.n = k]
Offsetting(f, c, k, y) == [f EXCEPT !.at = c, !.n = k, !.first = y]

(* What each change makes of a call.                                        *)
LEMMA FrSet ==
  ASSUME NEW b, NEW l, NEW n, NEW x, NEW s, NEW c, NEW m, NEW k, NEW y, NEW z
  PROVE  LET f == Fr(b, l, n, x, s)
         IN  /\ Counting(f, c, m) = Fr(c, m, n, x, s)
             /\ Looping(f, c, k) = Fr(c, l, k, x, s)
             /\ Leaving(f, c, z) = Fr(c, l, n, x, z)
             /\ Measured(f, m) = Fr(b, m, n, x, s)
             /\ Both(f, c, m, k) = Fr(c, m, k, x, s)
             /\ Offsetting(f, c, k, y) = Fr(c, l, k, y, s)
<1> DEFINE f == Fr(b, l, n, x, s)
<1>1. [f EXCEPT !.at = c] = Fr(c, l, n, x, s)
  BY FrFields
<1> HIDE DEF f
<1>2. Counting(f, c, m) = Fr(c, m, n, x, s)
  <2>1. [Fr(c, l, n, x, s) EXCEPT !.len = m] = Fr(c, m, n, x, s)
    BY FrFields
  <2>2. Counting(f, c, m) = [[f EXCEPT !.at = c] EXCEPT !.len = m]
    BY DEF Counting
  <2>. QED  BY <1>1, <2>1, <2>2
<1>3. Looping(f, c, k) = Fr(c, l, k, x, s)
  <2>1. [Fr(c, l, n, x, s) EXCEPT !.n = k] = Fr(c, l, k, x, s)
    BY FrFields
  <2>2. Looping(f, c, k) = [[f EXCEPT !.at = c] EXCEPT !.n = k]
    BY DEF Looping
  <2>. QED  BY <1>1, <2>1, <2>2
<1>4. Leaving(f, c, z) = Fr(c, l, n, x, z)
  <2>1. [Fr(c, l, n, x, s) EXCEPT !.save = z] = Fr(c, l, n, x, z)
    BY FrFields
  <2>2. Leaving(f, c, z) = [[f EXCEPT !.at = c] EXCEPT !.save = z]
    BY DEF Leaving
  <2>. QED  BY <1>1, <2>1, <2>2
<1>5. Both(f, c, m, k) = Fr(c, m, k, x, s)
  <2>1. [Fr(c, m, n, x, s) EXCEPT !.n = k] = Fr(c, m, k, x, s)
    BY FrFields
  <2>2. Both(f, c, m, k) = [[f EXCEPT !.at = c, !.len = m] EXCEPT !.n = k]
    BY DEF Both
  <2>. QED  BY <1>2, <2>1, <2>2 DEF Counting
<1>6. Offsetting(f, c, k, y) = Fr(c, l, k, y, s)
  <2>1. [Fr(c, l, k, x, s) EXCEPT !.first = y] = Fr(c, l, k, y, s)
    BY FrFields
  <2>2. Offsetting(f, c, k, y) = [[f EXCEPT !.at = c, !.n = k] EXCEPT !.first = y]
    BY DEF Offsetting
  <2>. QED  BY <1>3, <2>1, <2>2 DEF Looping
<1>7. Measured(f, m) = Fr(b, m, n, x, s)
  BY FrFields DEF Measured, f
<1>. QED  BY <1>2, <1>3, <1>4, <1>5, <1>6, <1>7 DEF f

(* A call that counted nothing but its tag is a call.                       *)
LEMMA FreshIn ==
  ASSUME NEW b \in {"enter", "type", "version", "list", "item", "match", "skip", "part",
                    "inner", "table", "offset", "jump", "back", "name"},
         NEW l \in Nat
  PROVE  Fresh(b, l) \in Frame
<1>1. 0 \in Nat /\ 0 - 1 \in Int
  OBVIOUS
<1>2. Fr(b, l, 0, 0 - 1, 0) \in Frame
  BY <1>1, FrIn
<1>. QED  BY <1>2 DEF Fresh

(* How it goes on to the next block.                                        *)
LEMMA FreshSet ==
  ASSUME NEW b, NEW l, NEW c, NEW m
  PROVE  /\ Fresh(b, l).at = b /\ Fresh(b, l).len = l
         /\ Counting(Fresh(b, l), c, m) = Fresh(c, m)
<1>1. Counting(Fresh(b, l), c, m) = Fresh(c, m)
  BY FrSet DEF Fresh
<1>. QED  BY <1>1, FrFields DEF Fresh

(* The innermost call reads a plain value and returns.                      *)
LEMMA PlainRead ==
  ASSUME TypeInv, Reader, NEW base \in Seq(Frame), stack = base \o <<Call>>,
         NEW n \in Nat, Holds(bytes, ptr, PlainBytes(n)), IntLen(n) <= MaxGroups,
         ptr + 1 + IntLen(n) <= avail
  PROVE  /\ stack' = base /\ ret' = 1 + IntLen(n) /\ out' = [name |-> 0, n |-> n]
         /\ ptr' = Past(ptr, ptr + 1 + IntLen(n)) /\ pooled' = pooled
<1>1. bytes \in Seq(Nat) /\ avail \in 0 .. Len(bytes) /\ ptr \in Nat /\ IntLen(n) \in Nat
  BY IntLenOf DEF TypeInv
<1>2. Top = Call /\ Front(stack) = base /\ Call.at = "enter"
  BY Above, CallIs, CallGood
<1>3. TryDeserialize
  BY <1>2, Dispatch
<1>4. ~Header.ok
  <2>1. Byte(ptr) = serialize_positive_int
    BY <1>1, PlainBytesOf DEF Byte
  <2>2. Byte(ptr) # serialize_str_pool_table
    BY <2>1 DEF serialize_positive_int, serialize_str_pool_table
  <2>. QED  BY <2>2 DEF Header
<1>5. Deserialize(ptr, avail - ptr) = [len |-> 1 + IntLen(n), n |-> n]
  <2>1. avail - ptr \in Int /\ 1 + IntLen(n) <= avail - ptr /\ ptr + (avail - ptr) <= Len(bytes)
    BY <1>1
  <2>. QED  BY <1>1, <2>1, DeserializeExact
<1>6. /\ pooled' = pooled
      /\ out' = [name |-> 0, n |-> n] /\ ptr' = Move(ptr, 1 + IntLen(n)) /\ Return(1 + IntLen(n))
  <2> DEFINE d == Deserialize(ptr, avail - ptr)
  <2>1. d.len = 1 + IntLen(n) /\ d.n = n
    BY <1>5
  <2>2. d.len > 0
    BY <1>1, <2>1, SMTT(30)
  <2>3. /\ pooled' = pooled
        /\ \/ /\ d.len > 0 /\ out' = [name |-> 0, n |-> d.n] /\ ptr' = Move(ptr, d.len)
              /\ Return(d.len)
           \/ d.len = 0
           \/ d.len < 0
    BY <1>3, <1>4 DEF TryDeserialize
  <2> HIDE DEF d
  <2>. QED  BY <1>1, <2>1, <2>2, <2>3
<1>7. Move(ptr, 1 + IntLen(n)) = Past(ptr, ptr + 1 + IntLen(n))
  <2>1. ptr + (1 + IntLen(n)) = ptr + 1 + IntLen(n) /\ ptr + 1 + IntLen(n) \in Nat
    BY <1>1
  <2>2. ptr + 1 + IntLen(n) \in 0 .. avail - 1 <=> ptr + 1 + IntLen(n) < avail
    BY <1>1
  <2>. QED  BY <2>1, <2>2 DEF Move, Past
<1>. QED  BY <1>2, <1>6, <1>7 DEF Return

(* It passes a tag it does not read a value of on to the switch.            *)
LEMMA TagPassed ==
  ASSUME TypeInv, Reader, NEW base \in Seq(Frame), stack = base \o <<Call>>,
         ptr < avail, Byte(ptr) # serialize_positive_int, Byte(ptr) # serialize_str_pool_table
  PROVE  stack' = base \o <<Fresh("type", 0)>> /\ ptr' = ptr /\ out' = out
<1>1. bytes \in Seq(Nat) /\ avail \in 0 .. Len(bytes) /\ ptr \in Nat
  BY DEF TypeInv
<1>2. Top = Call /\ Front(stack) = base /\ Call.at = "enter"
  BY Above, CallIs, CallGood
<1>3. TryDeserialize
  BY <1>2, Dispatch
<1>4. ~Header.ok
  BY DEF Header
<1>5. Deserialize(ptr, avail - ptr) = [len |-> 0 - 1, n |-> 0]
  <2>1. ~ avail - ptr < 1
    BY <1>1
  <2>. QED  BY <2>1 DEF Deserialize
<1>6. ptr' = ptr /\ Reach([Call EXCEPT !.at = "type"]) /\ UNCHANGED out
  <2> DEFINE d == Deserialize(ptr, avail - ptr)
  <2>1. d.len = 0 - 1
    BY <1>5
  <2>2. \/ d.len > 0
        \/ d.len = 0
        \/ d.len < 0 /\ ptr' = ptr /\ Reach([Top EXCEPT !.at = "type"]) /\ UNCHANGED <<out, ret>>
    BY <1>3, <1>4 DEF TryDeserialize
  <2> HIDE DEF d
  <2>. QED  BY <1>2, <2>1, <2>2
<1>7. [Call EXCEPT !.at = "type"] = Fresh("type", 0)
  BY DEF Call, Fresh, Fr
<1>. QED  BY <1>2, <1>6, <1>7 DEF Reach

(* The switch goes to the block of the tag.                                 *)
LEMMA TypeRead ==
  ASSUME TypeInv, Reader, NEW base \in Seq(Frame), stack = base \o <<Fresh("type", 0)>>,
         ptr + 1 < avail, NEW b, b # "unknown", Block(Byte(ptr)) = b
  PROVE  /\ stack' = base \o <<Fresh(b, 1)>> /\ ptr' = ptr + 1 /\ out' = out
         /\ pooled' = pooled
<1>1. avail \in Nat /\ ptr \in Nat
  BY DEF TypeInv
<1>2. Fresh("type", 0) \in Frame
  BY FreshIn
<1>3. Top = Fresh("type", 0) /\ Front(stack) = base
  BY <1>2, Above
<1>4. Top.at = "type"
  BY <1>3 DEF Fresh, Fr
<1>5. ReadType
  BY <1>4, Dispatch
<1>6. ~ ptr + 1 >= avail
  BY <1>1
<1>7. ptr' = ptr + 1 /\ Reach(Counting(Top, b, 1)) /\ UNCHANGED <<out, pooled>>
  BY <1>5, <1>6 DEF ReadType, Counting
<1>8. Counting(Fresh("type", 0), b, 1) = Fresh(b, 1)
  BY FreshSet
<1>. QED  BY <1>3, <1>7, <1>8 DEF Reach

(* The integer at the cursor is the number written there.                   *)
LEMMA NumExact ==
  ASSUME TypeInv, NEW m \in Nat, Holds(bytes, ptr, Digits[m]), IntLen(m) <= MaxGroups,
         ptr + IntLen(m) < avail
  PROVE  Num.ok /\ Num.len = IntLen(m) /\ Num.val = m /\ Num.ptr = ptr + IntLen(m)
<1>1. ptr \in Nat
  BY DEF TypeInv
<1>. QED  BY <1>1, ReadIntExact DEF Num

(* The cursor goes back to a position of the buffer.                        *)
LEMMA MovedBack ==
  ASSUME NEW p \in Nat, p < avail, avail \in Nat, NEW d \in Nat
  PROVE  Move(p + d, 0 - d) = p
<1>1. (p + d) + (0 - d) = p /\ p \in 0 .. avail - 1
  OBVIOUS
<1>. QED  BY <1>1 DEF Move

(* A value of number n behind the tag of block b and the number m, from p on,
   all of which arrived.                                                    *)
WrappedAt(p, b, m, n) ==
  /\ p \in Nat /\ m \in Nat /\ n \in Nat /\ b \in {"version", "part"}
  /\ Block(Byte(p)) = b
  /\ Holds(bytes, p + 1, Digits[m]) /\ IntLen(m) <= MaxGroups
  /\ Holds(bytes, p + 1 + IntLen(m), PlainBytes(n)) /\ IntLen(n) <= MaxGroups
  /\ p + 1 + IntLen(m) + 1 + IntLen(n) <= avail

(* Such a value has been read, or its version is not accepted.              *)
WrappedDone(base, p, b, m, n) ==
  /\ stack' = base
  /\ IF b = "version" => m \in accept
     THEN /\ ret' = 1 + IntLen(m) + 1 + IntLen(n) /\ out' = [name |-> 0, n |-> n]
          /\ ptr' = Past(p + 1 + IntLen(m), p + 1 + IntLen(m) + 1 + IntLen(n))
     ELSE ret' = 0 - 1 /\ out' = NoValue /\ ptr' = p

(* The blocks of tags that are not read as values.                          *)
LEMMA Blocks ==
  ASSUME NEW x, Block(x) # "unknown"
  PROVE  x # serialize_positive_int /\ x # serialize_str_pool_table
BY DEF Block, serialize_positive_int, serialize_str_pool_table, serialize_version,
       serialize_version_list, serialize_part, serialize_part_table, serialize_name_idx

(* It is read in five steps.                                                *)
LEMMA WrappedStep ==
  ASSUME TypeInv, Reader, NEW base \in Seq(Frame), NEW p, NEW b, NEW m, NEW n,
         WrappedAt(p, b, m, n), Wrapped(base, p, b, m, n)
  PROVE  Wrapped(base, p, b, m, n)' \/ WrappedDone(base, p, b, m, n)
<1> DEFINE q == p + 1 + IntLen(m)
           I == Fresh("inner", 1 + IntLen(m))
           V == [name |-> 0, n |-> n]
<1>1. /\ p \in Nat /\ m \in Nat /\ n \in Nat /\ b \in {"version", "part"}
      /\ IntLen(m) \in Nat /\ IntLen(n) \in Nat /\ IntLen(m) >= 1 /\ IntLen(n) >= 1
      /\ IntLen(m) <= MaxGroups /\ IntLen(n) <= MaxGroups
      /\ q \in Nat /\ q + 1 + IntLen(n) <= avail
      /\ Holds(bytes, p + 1, Digits[m]) /\ Holds(bytes, q, PlainBytes(n))
      /\ Block(Byte(p)) = b
  <2>1. p \in Nat /\ m \in Nat /\ n \in Nat
    BY DEF WrappedAt
  <2>2. IntLen(m) \in Nat /\ IntLen(n) \in Nat /\ IntLen(m) >= 1 /\ IntLen(n) >= 1
    BY <2>1, IntLenOf
  <2>. QED  BY <2>1, <2>2 DEF WrappedAt
<1>2. /\ avail' = avail /\ accept' = accept /\ avail \in Nat /\ ptr \in Nat
  BY Dispatch DEF client, TypeInv
<1>3. I \in Frame
  <2>1. 1 + IntLen(m) \in Nat
    BY <1>1
  <2>. QED  BY <2>1, FreshIn
<1>4. CASE stack = base \o <<Call>> /\ ptr = p /\ out = NoValue
  <2>1. ptr < avail
    BY <1>1, <1>2, <1>4
  <2>2. Byte(ptr) # serialize_positive_int /\ Byte(ptr) # serialize_str_pool_table
    BY <1>1, <1>4, Blocks
  <2>3. stack' = base \o <<Fresh("type", 0)>> /\ ptr' = ptr /\ out' = out
    BY <1>4, <2>1, <2>2, TagPassed
  <2>. QED  BY <1>4, <2>3 DEF Wrapped
<1>5. CASE stack = base \o <<Fresh("type", 0)>> /\ ptr = p /\ out = NoValue
  <2>1. ptr + 1 < avail
    BY <1>1, <1>2, <1>5
  <2>2. b # "unknown"
    BY <1>1
  <2>3. stack' = base \o <<Fresh(b, 1)>> /\ ptr' = p + 1 /\ out' = out
    BY <1>1, <1>5, <2>1, <2>2, TypeRead
  <2>. QED  BY <1>5, <2>3 DEF Wrapped
<1>6. CASE stack = base \o <<Fresh(b, 1)>> /\ ptr = p + 1 /\ out = NoValue
  <2>1. Num.ok /\ Num.len = IntLen(m) /\ Num.val = m /\ Num.ptr = q
    <3>1. ptr + IntLen(m) < avail /\ ptr + IntLen(m) = q
      BY <1>1, <1>2, <1>6
    <3>. QED  BY <1>1, <1>6, <3>1, NumExact
  <2>2. Top = Fresh(b, 1) /\ Front(stack) = base
    <3>1. Fresh(b, 1) \in Frame
      BY <1>1, FreshIn
    <3>. QED  BY <1>6, <3>1, Above
  <2>3. Top.at = b /\ Top.len = 1
    BY <2>2 DEF Fresh, Fr
  <2>4. Counted = 1 + IntLen(m)
    BY <2>1, <2>3 DEF Counted
  <2>5. Counting(Top, "inner", Counted) = I
    BY <2>2, <2>4, FreshSet
  <2>6. ASSUME Descend("inner"), UNCHANGED out, b = "version" => m \in accept
        PROVE  Wrapped(base, p, b, m, n)'
    <3>1. ptr' = q /\ stack' = base \o <<I, Call>>
      BY <2>1, <2>2, <2>5, <2>6 DEF Descend, Enter, Counting
    <3>. QED  BY <1>2, <1>6, <2>6, <3>1 DEF Wrapped
  <2>7. CASE b = "version"
    <3>1. ReadVersion
      BY <2>1, <2>3, <2>7, Dispatch
    <3>2. CASE m \in accept
      <4>1. Descend("inner") /\ UNCHANGED out
        BY <2>1, <3>1, <3>2 DEF ReadVersion
      <4>. QED  BY <2>6, <3>2, <4>1
    <3>3. CASE m \notin accept
      <4>1. Fail(q, 1 + IntLen(m)) /\ UNCHANGED out
        BY <2>1, <2>4, <3>1, <3>3 DEF ReadVersion
      <4>2. stack' = base /\ ret' = 0 - 1 /\ ptr' = Move(q, 0 - (1 + IntLen(m)))
        BY <2>2, <4>1 DEF Fail, Return
      <4>3. Move(q, 0 - (1 + IntLen(m))) = p
        <5> DEFINE d == 1 + IntLen(m)
        <5>1. q = p + d /\ d \in Nat /\ p < avail
          BY <1>1, <1>2, SMTT(30)
        <5> HIDE DEF d, q
        <5>2. Move(q, 0 - d) = p
          BY <1>1, <1>2, <5>1, MovedBack
        <5>. QED  BY <5>2 DEF d
      <4>. QED  BY <1>6, <2>7, <3>3, <4>1, <4>2, <4>3 DEF WrappedDone
    <3>. QED  BY <3>2, <3>3
  <2>8. CASE b = "part"
    <3>1. ReadPart
      BY <2>1, <2>3, <2>8, Dispatch
    <3>. QED  BY <2>6, <2>8, <3>1 DEF ReadPart
  <2>. QED  BY <1>1, <2>7, <2>8
<1>7. CASE /\ stack = base \o <<I, Call>> /\ ptr = q /\ out = NoValue
           /\ b = "version" => m \in accept
  <2> DEFINE up == base \o <<I>>
  <2>1. up \in Seq(Frame) /\ stack = up \o <<Call>>
    BY <1>3, <1>7, CallIs, AboveCall
  <2> HIDE DEF I
  <2>2. /\ stack' = up /\ ret' = 1 + IntLen(n) /\ out' = V
        /\ ptr' = Past(q, q + 1 + IntLen(n))
    <3> HIDE DEF up, q
    <3>. QED  BY <1>1, <1>7, <2>1, PlainRead
  <2>3. Past(q, q + 1 + IntLen(n))' = Past(q, q + 1 + IntLen(n))
    BY <1>2 DEF Past
  <2>. QED  BY <1>2, <1>7, <2>2, <2>3 DEF Wrapped, I
<1>8. CASE /\ stack = base \o <<I>> /\ ptr = Past(q, q + 1 + IntLen(n))
           /\ b = "version" => m \in accept
           /\ ret = 1 + IntLen(n) /\ out = V
  <2>1. Top = I /\ Front(stack) = base
    BY <1>3, <1>8, Above
  <2>2. Top.at = "inner" /\ Top.len = 1 + IntLen(m)
    BY <2>1 DEF Fresh, Fr
  <2>3. AfterInner
    BY <2>2, Dispatch
  <2>4. ret > 0
    BY <1>1, <1>8
  <2>5. Return(1 + IntLen(m) + ret) /\ UNCHANGED <<ptr, out>>
    BY <1>1, <1>8, <2>2, <2>3, <2>4 DEF AfterInner
  <2>6. 1 + IntLen(m) + ret = 1 + IntLen(m) + 1 + IntLen(n)
    BY <1>1, <1>8
  <2>. QED  BY <1>8, <2>1, <2>5, <2>6 DEF WrappedDone, Return
<1>. QED  BY <1>4, <1>5, <1>6, <1>7, <1>8 DEF Wrapped

(* A box that was written is between its start and its stop.                *)
LEMMA BoxIn ==
  ASSUME TypeInv, WrittenInv, NEW w \in BoxesIn
  PROVE  /\ w.start \in Nat /\ w.stop \in Nat /\ w.box \in Boxes
         /\ Holds(bytes, w.start, BoxBytes(w.box))
         /\ w.stop = w.start + Len(BoxBytes(w.box))
         /\ w.box.kind = "partitions" => w.start = 0
<1>1. w \in [start : Nat, stop : Nat, box : Boxes]
  <2> DEFINE R == [start : Nat, stop : Nat, box : Boxes]
  <2>1. PICK i \in DOMAIN written : w = written[i]
    BY DEF BoxesIn
  <2>2. written \in Seq(R)
    BY DEF WrittenInv
  <2> HIDE DEF R
  <2>3. w \in R
    BY <2>1, <2>2
  <2>. QED  BY <2>3 DEF R
<1>2. w.start \in Nat /\ w.stop \in Nat /\ w.box \in Boxes
  BY <1>1
<1>. QED  BY <1>2 DEF WrittenInv

(* What was written stays where it is.                                      *)
LEMMA WrittenSame ==
  ASSUME WrittenInv, UNCHANGED <<bytes, written>>,
         avail' = 0 => stack' = <<>> /\ ret' = NoRet
  PROVE  WrittenInv'
<1>1. BoxesIn' = BoxesIn
  BY DEF BoxesIn
<1>. QED  BY <1>1 DEF WrittenInv

(* Every step keeps what was written.                                       *)
LEMMA WrittenStep == TypeInv /\ WrittenInv /\ [Next]_vars => WrittenInv'
<1> SUFFICES ASSUME TypeInv, WrittenInv, [Next]_vars PROVE WrittenInv'
  OBVIOUS
<1>1. ASSUME NEW b \in Boxes, Write(b) PROVE WrittenInv'
  <2> DEFINE s == BoxBytes(b)
             R == [start : Nat, stop : Nat, box : Boxes]
             r == [start |-> Len(bytes), stop |-> Len(bytes'), box |-> b]
  <2>1. /\ avail = 0 /\ bytes' = bytes \o s /\ written' = Append(written, r)
        /\ b.kind = "partitions" => written = <<>>
        /\ UNCHANGED <<avail, stack, ret>>
    BY <1>1 DEF Write
  <2>2. s \in Seq(Nat) /\ bytes \in Seq(Nat)
    BY BoxBytesTyped DEF TypeInv
  <2>3. /\ Len(s) \in Nat /\ Len(bytes) \in Nat /\ bytes' \in Seq(Nat)
        /\ Len(bytes') = Len(bytes) + Len(s) /\ Len(bytes') \in Nat
    <3> HIDE DEF s
    <3>. QED  BY <2>1, <2>2
  <2>4. /\ Holds(bytes', Len(bytes), s)
        /\ \A p \in Nat : \A t \in Seq(Nat) : Holds(bytes, p, t) => Holds(bytes', p, t)
    <3> HIDE DEF s
    <3>. QED  BY <2>1, <2>2, HoldsAppended
  <2>5. r \in R
    BY <2>3
  <2>6. written \in Seq(R)
    BY DEF WrittenInv
  <2>7. r.start = Len(bytes) /\ r.stop = Len(bytes') /\ r.box = b
    OBVIOUS
  <2> HIDE DEF r, R, s
  <2>8. written' \in Seq(R) /\ written' # <<>>
    BY <2>1, <2>5, <2>6
  <2>9. ASSUME NEW w \in BoxesIn' PROVE w \in BoxesIn \/ w = r
    <3>1. PICK i \in DOMAIN written' : w = written'[i]
      BY DEF BoxesIn
    <3>2. i \in 1 .. Len(written) \/ i = Len(written) + 1
      BY <2>1, <2>5, <2>6
    <3>3. i = Len(written) + 1 => w = r
      BY <2>1, <2>5, <2>6, <3>1
    <3>4. i \in 1 .. Len(written) => w = written[i] /\ i \in DOMAIN written
      BY <2>1, <2>5, <2>6, <3>1
    <3>. QED  BY <3>2, <3>3, <3>4 DEF BoxesIn
  <2>10. ASSUME NEW w \in BoxesIn'
         PROVE  /\ Holds(bytes', w.start, BoxBytes(w.box))
                /\ w.stop = w.start + Len(BoxBytes(w.box))
                /\ w.box.kind = "partitions" => w.start = 0
    <3>1. CASE w \in BoxesIn
      <4>1. /\ w.start \in Nat /\ w.box \in Boxes /\ Holds(bytes, w.start, BoxBytes(w.box))
            /\ w.stop = w.start + Len(BoxBytes(w.box))
            /\ w.box.kind = "partitions" => w.start = 0
        BY <3>1, BoxIn
      <4>2. BoxBytes(w.box) \in Seq(Nat)
        BY <4>1, BoxBytesTyped
      <4>. QED  BY <2>4, <4>1, <4>2
    <3>2. CASE w = r
      <4>1. b.kind = "partitions" => Len(bytes) = 0
        BY <2>1 DEF WrittenInv
      <4>. QED  BY <2>3, <2>4, <2>7, <3>2, <4>1 DEF s
    <3>. QED  BY <2>9, <3>1, <3>2
  <2>11. avail' = 0 => stack' = <<>> /\ ret' = NoRet
    BY <2>1 DEF WrittenInv
  <2>. QED  BY <2>8, <2>10, <2>11 DEF WrittenInv, R
<1>2. ASSUME NEW n \in 1 .. Len(bytes), Receive(n) PROVE WrittenInv'
  <2>1. n \in avail + 1 .. Len(bytes) /\ avail' = n /\ UNCHANGED <<bytes, written>>
    BY <1>2 DEF Receive
  <2>2. avail \in Nat
    BY DEF TypeInv
  <2>3. avail' # 0
    BY <2>1, <2>2
  <2>. QED  BY <2>1, <2>3, WrittenSame
<1>3. ASSUME NEW vs, ReadBox(vs) PROVE WrittenInv'
  <2>1. ptr < avail /\ avail' = avail /\ UNCHANGED <<bytes, written>>
    BY <1>3 DEF ReadBox
  <2>2. avail \in Nat /\ ptr \in Nat
    BY DEF TypeInv
  <2>3. avail' # 0
    BY <2>1, <2>2
  <2>. QED  BY <2>1, <2>3, WrittenSame
<1>4. CASE Reader
  <2>1. UNCHANGED client /\ stack # <<>>
    BY <1>4, Dispatch
  <2>2. avail' # 0 /\ UNCHANGED <<bytes, written>>
    BY <2>1 DEF client, WrittenInv
  <2>. QED  BY <2>2, WrittenSame
<1>5. CASE UNCHANGED vars
  <2>1. UNCHANGED <<bytes, written, avail, stack, ret>>
    BY <1>5 DEF vars
  <2>2. avail' = 0 => stack' = <<>> /\ ret' = NoRet
    BY <2>1 DEF WrittenInv
  <2>. QED  BY <2>1, <2>2, WrittenSame
<1>. QED  BY <1>1, <1>2, <1>3, <1>4, <1>5 DEF Next

(* The values of a plain box, and the numbers up to its length.             *)
LEMMA BoxNumbers ==
  ASSUME NEW b \in Boxes, \A i \in DOMAIN b.items : b.items[i].name = 0
  PROVE  /\ \A i \in 1 .. Len(b.items) :
              /\ b.items[i] \in Value /\ b.items[i].n \in Nat
              /\ IntLen(b.items[i].n) \in Nat /\ IntLen(b.items[i].n) >= 1
              /\ IntLen(b.items[i].n) <= MaxGroups
              /\ b.items[i] = [name |-> 0, n |-> b.items[i].n]
              /\ ValueBytes(b.items[i]) = PlainBytes(b.items[i].n)
              /\ Len(ValueBytes(b.items[i])) = 1 + IntLen(b.items[i].n)
         /\ BoxBytes(b) \in Seq(Nat) /\ Len(BoxBytes(b)) \in Nat
         /\ \A k \in 0 .. Len(BoxBytes(b)) : IntLen(k) <= MaxGroups
<1>1. ASSUME NEW i \in 1 .. Len(b.items)
      PROVE  /\ b.items[i] \in Value /\ b.items[i].n \in Nat
             /\ IntLen(b.items[i].n) \in Nat /\ IntLen(b.items[i].n) >= 1
             /\ IntLen(b.items[i].n) <= MaxGroups
             /\ b.items[i] = [name |-> 0, n |-> b.items[i].n]
             /\ ValueBytes(b.items[i]) = PlainBytes(b.items[i].n)
             /\ Len(ValueBytes(b.items[i])) = 1 + IntLen(b.items[i].n)
  <2> DEFINE v == b.items[i]
  <2>1. v \in Value /\ IntLen(v.n) <= MaxGroups /\ b.items \in Seq(Value)
    BY BoxOf
  <2>2. v.name = 0
    BY <2>1
  <2> HIDE DEF v
  <2>3. v.n \in Nat /\ v = [name |-> v.name, n |-> v.n]
    BY <2>1, Values
  <2>4. v = [name |-> 0, n |-> v.n]
    BY <2>2, <2>3
  <2>5. ValueBytes(v) = PlainBytes(v.n) /\ Len(PlainBytes(v.n)) = 1 + IntLen(v.n)
    BY <2>1, <2>2, <2>3, ValueBytesOf, PlainBytesOf
  <2>6. IntLen(v.n) \in Nat /\ IntLen(v.n) >= 1
    BY <2>3, IntLenOf
  <2>. QED  BY <2>1, <2>3, <2>4, <2>5, <2>6 DEF v
<1>2. BoxBytes(b) \in Seq(Nat) /\ Len(BoxBytes(b)) \in Nat
  <2> DEFINE s == BoxBytes(b)
  <2>1. s \in Seq(Nat)
    BY BoxBytesTyped
  <2> HIDE DEF s
  <2>. QED  BY <2>1 DEF s
<1>3. ASSUME NEW k \in 0 .. Len(BoxBytes(b)) PROVE IntLen(k) <= MaxGroups
  <2> DEFINE l == Len(BoxBytes(b))
  <2>1. l \in Nat /\ k \in Nat /\ k <= l
    BY <1>2
  <2>2. IntLen(l) <= MaxGroups
    BY BoxOf
  <2> HIDE DEF l
  <2>3. IntLen(k) <= IntLen(l) /\ IntLen(k) \in Nat /\ IntLen(l) \in Nat
    BY <2>1, IntLenMonotone, IntLenOf
  <2>4. MaxGroups \in Nat
    BY WireAssumption
  <2>. QED  BY <2>2, <2>3, <2>4
<1>. QED  BY <1>1, <1>2, <1>3

(* Where a plain box that arrived is read from.                             *)
LEMMA PlainAt ==
  ASSUME TypeInv, WrittenInv, NEW w \in BoxesIn, Plain(w), Arrived(w), w.box.kind = "plain"
  PROVE  LET n == w.box.items[1].n
         IN  /\ Holds(bytes, w.start, PlainBytes(n))
             /\ w.stop = w.start + 1 + IntLen(n) /\ w.stop <= avail
<1> DEFINE v == w.box.items[1]
<1>1. /\ w.start \in Nat /\ w.box \in Boxes
      /\ Holds(bytes, w.start, BoxBytes(w.box)) /\ w.stop = w.start + Len(BoxBytes(w.box))
  BY BoxIn
<1>2. 1 \in 1 .. Len(w.box.items)
  BY <1>1, BoxOf
<1>3. ValueBytes(v) = PlainBytes(v.n) /\ Len(ValueBytes(v)) = 1 + IntLen(v.n) /\ IntLen(v.n) \in Nat
  BY <1>1, <1>2, BoxNumbers DEF Plain
<1>4. BoxBytes(w.box) = ValueBytes(v)
  BY DEF BoxBytes
<1>5. Holds(bytes, w.start, PlainBytes(v.n)) /\ w.stop = w.start + (1 + IntLen(v.n))
  BY <1>1, <1>3, <1>4
<1>6. w.start + (1 + IntLen(v.n)) = w.start + 1 + IntLen(v.n)
  BY <1>1, <1>3
<1>. QED  BY <1>5, <1>6 DEF Arrived

(* The tags of the blocks.                                                  *)
LEMMA BlockOf ==
  /\ Block(serialize_version) = "version" /\ serialize_version \in Nat
  /\ Block(serialize_version_list) = "list" /\ serialize_version_list \in Nat
  /\ Block(serialize_part) = "part" /\ serialize_part \in Nat
  /\ Block(serialize_part_table) = "table" /\ serialize_part_table \in Nat
  /\ Block(serialize_name_idx) = "name" /\ serialize_name_idx \in Nat
BY DEF Block, serialize_version, serialize_version_list, serialize_part, serialize_part_table,
       serialize_name_idx

(* The bytes t of a tag, a number and a value that arrived at p.            *)
WrappedBytes(p, x, b, m, n, t) ==
  /\ p \in Nat /\ x \in Nat /\ b \in {"version", "part"} /\ Block(x) = b
  /\ m \in Nat /\ IntLen(m) <= MaxGroups /\ n \in Nat /\ IntLen(n) <= MaxGroups
  /\ t = <<x>> \o Digits[m] \o PlainBytes(n) /\ Holds(bytes, p, t) /\ p + Len(t) <= avail

(* Bytes a tag and a number precede are where a wrapped value is.           *)
LEMMA WrappedHere ==
  ASSUME TypeInv, NEW p, NEW x, NEW b, NEW m, NEW n, NEW t, WrappedBytes(p, x, b, m, n, t)
  PROVE  /\ WrappedAt(p, b, m, n)
         /\ p + Len(t) = p + 1 + IntLen(m) + 1 + IntLen(n)
<1> DEFINE s == PlainBytes(n)
<1>0. /\ p \in Nat /\ x \in Nat /\ b \in {"version", "part"} /\ Block(x) = b
      /\ m \in Nat /\ IntLen(m) <= MaxGroups /\ n \in Nat /\ IntLen(n) <= MaxGroups
      /\ t = <<x>> \o Digits[m] \o PlainBytes(n) /\ Holds(bytes, p, t) /\ p + Len(t) <= avail
  BY DEF WrappedBytes
<1>1. s \in Seq(Nat) /\ Len(s) = 1 + IntLen(n) /\ IntLen(n) \in Nat /\ IntLen(m) \in Nat
  BY <1>0, PlainBytesOf, IntLenOf
<1> HIDE DEF s
<1>2. bytes \in Seq(Nat)
  BY DEF TypeInv
<1>3. Len(t) = 1 + IntLen(m) + Len(s)
  <2>1. t = <<x>> \o Digits[m] \o s
    BY <1>0 DEF s
  <2>2. Len(<<x>> \o Digits[m] \o s) = 1 + IntLen(m) + Len(s)
    BY <1>0, <1>1, Numbered
  <2>. QED  BY <2>1, <2>2
<1>4. Holds(bytes, p, <<x>> \o Digits[m] \o s)
  BY <1>0 DEF s
<1>5. bytes[p + 1] = x /\ Holds(bytes, p + 1, Digits[m]) /\ Holds(bytes, p + 1 + IntLen(m), s)
  BY <1>0, <1>1, <1>2, <1>4, Numbered
<1>6. p + Len(t) = p + 1 + IntLen(m) + 1 + IntLen(n)
  <2> DEFINE l == Len(t)
             a == IntLen(m)
             c == IntLen(n)
  <2>1. l = 1 + a + (1 + c) /\ a \in Nat /\ c \in Nat
    BY <1>1, <1>3
  <2> HIDE DEF l, a, c
  <2>2. p + l = p + 1 + a + 1 + c
    BY <1>0, <2>1
  <2>. QED  BY <2>2 DEF l, a, c
<1>7. p + 1 + IntLen(m) + 1 + IntLen(n) <= avail
  BY <1>0, <1>6
<1>8. Block(Byte(p)) = b
  BY <1>0, <1>5 DEF Byte
<1>. QED  BY <1>0, <1>5, <1>6, <1>7, <1>8 DEF WrappedAt, s

(* Where a version that arrived is read from.                               *)
LEMMA VersionAt ==
  ASSUME TypeInv, WrittenInv, NEW w \in BoxesIn, Plain(w), Arrived(w), w.box.kind = "version"
  PROVE  LET m == w.box.vers[1]
             n == w.box.items[1].n
         IN  /\ WrappedAt(w.start, "version", m, n)
             /\ w.stop = w.start + 1 + IntLen(m) + 1 + IntLen(n)
<1> DEFINE v == w.box.items[1]
           n == v.n
           m == w.box.vers[1]
           t == BoxBytes(w.box)
<1>1. /\ w.start \in Nat /\ w.box \in Boxes
      /\ Holds(bytes, w.start, BoxBytes(w.box)) /\ w.stop = w.start + Len(BoxBytes(w.box))
  BY BoxIn
<1>2. 1 \in 1 .. Len(w.box.items) /\ Len(w.box.vers) = 1
  BY <1>1, BoxOf
<1>3. ValueBytes(v) = PlainBytes(n) /\ n \in Nat /\ IntLen(n) <= MaxGroups
  BY <1>1, <1>2, BoxNumbers DEF Plain
<1>4. m \in Nat /\ IntLen(m) <= MaxGroups
  <2>1. 1 \in 1 .. Len(w.box.vers)
    BY <1>2
  <2>. QED  BY <1>1, <2>1, BoxOf
<1>5. t = <<serialize_version>> \o Digits[m] \o PlainBytes(n)
  BY <1>3 DEF BoxBytes, VersionBytes
<1>6. Block(serialize_version) = "version" /\ serialize_version \in Nat
  BY BlockOf
<1>7. "version" \in {"version", "part"} /\ w.start + Len(BoxBytes(w.box)) <= avail
  BY <1>1 DEF Arrived
<1>0. Holds(bytes, w.start, t) /\ w.start + Len(t) <= avail
  BY <1>1, <1>7
<1> HIDE DEF v, m, n, t
<1>8. /\ WrappedAt(w.start, "version", m, n)
      /\ w.start + Len(t) = w.start + 1 + IntLen(m) + 1 + IntLen(n)
  <2> DEFINE x == serialize_version
             b == "version"
             p == w.start
  <2>1. t = <<x>> \o Digits[m] \o PlainBytes(n) /\ x \in Nat /\ Block(x) = b
        /\ b \in {"version", "part"}
        /\ p \in Nat /\ m \in Nat /\ n \in Nat /\ IntLen(m) <= MaxGroups /\ IntLen(n) <= MaxGroups
        /\ Holds(bytes, p, t) /\ p + Len(t) <= avail
    BY <1>0, <1>1, <1>3, <1>4, <1>5, <1>6
  <2> HIDE DEF x, b, p
  <2>2. WrappedAt(p, b, m, n) /\ p + Len(t) = p + 1 + IntLen(m) + 1 + IntLen(n)
    <3>1. WrappedBytes(p, x, b, m, n, t)
      BY <2>1 DEF WrappedBytes
    <3>. QED  BY <3>1, WrappedHere
  <2>. QED  BY <2>2 DEF b, p
<1>. QED  BY <1>1, <1>8 DEF v, m, n, t

(* And a part.                                                              *)
LEMMA PartAt ==
  ASSUME TypeInv, WrittenInv, NEW w \in BoxesIn, Plain(w), Arrived(w), w.box.kind = "part"
  PROVE  LET m == Len(ValueBytes(w.box.items[1]))
             n == w.box.items[1].n
         IN  /\ WrappedAt(w.start, "part", m, n)
             /\ w.stop = w.start + 1 + IntLen(m) + 1 + IntLen(n)
<1> DEFINE v == w.box.items[1]
           n == v.n
           m == Len(ValueBytes(v))
           t == BoxBytes(w.box)
<1>1. /\ w.start \in Nat /\ w.box \in Boxes
      /\ Holds(bytes, w.start, BoxBytes(w.box)) /\ w.stop = w.start + Len(BoxBytes(w.box))
  BY BoxIn
<1>2. 1 \in 1 .. Len(w.box.items)
  BY <1>1, BoxOf
<1>3. ValueBytes(v) = PlainBytes(n) /\ n \in Nat /\ IntLen(n) <= MaxGroups
      /\ m = 1 + IntLen(n) /\ IntLen(n) \in Nat
  BY <1>1, <1>2, BoxNumbers DEF Plain
<1>4. t = <<serialize_part>> \o Digits[m] \o PlainBytes(n)
  BY <1>3 DEF BoxBytes, PartBytes
<1>5. m \in Nat
  BY <1>3
<1>6. Block(serialize_part) = "part" /\ serialize_part \in Nat
  BY BlockOf
<1>7. "part" \in {"version", "part"} /\ w.start + Len(BoxBytes(w.box)) <= avail
  BY <1>1 DEF Arrived
<1>0. Holds(bytes, w.start, t) /\ w.start + Len(t) <= avail
  BY <1>1, <1>7
<1> HIDE DEF v, m, n, t
<1>8. IntLen(m) <= MaxGroups
  <2>1. PlainBytes(n) \in Seq(Nat) /\ Len(PlainBytes(n)) = 1 + IntLen(n) /\ IntLen(m) \in Nat
    BY <1>3, <1>5, PlainBytesOf, IntLenOf
  <2> DEFINE s == PlainBytes(n)
  <2> HIDE DEF s
  <2>2. Len(t) = 1 + IntLen(m) + Len(s)
    <3>1. t = <<serialize_part>> \o Digits[m] \o s
      BY <1>4 DEF s
    <3>2. s \in Seq(Nat)
      BY <2>1 DEF s
    <3>. QED  BY <1>5, <1>6, <3>1, <3>2, Numbered
  <2>3. m \in 0 .. Len(t)
    BY <1>3, <1>5, <2>1, <2>2 DEF s
  <2>. QED  BY <1>1, <2>3, BoxNumbers DEF Plain, t
<1>9. /\ WrappedAt(w.start, "part", m, n)
      /\ w.start + Len(t) = w.start + 1 + IntLen(m) + 1 + IntLen(n)
  <2> DEFINE x == serialize_part
             b == "part"
             p == w.start
  <2>1. t = <<x>> \o Digits[m] \o PlainBytes(n) /\ x \in Nat /\ Block(x) = b
        /\ b \in {"version", "part"}
        /\ p \in Nat /\ m \in Nat /\ n \in Nat /\ IntLen(m) <= MaxGroups /\ IntLen(n) <= MaxGroups
        /\ Holds(bytes, p, t) /\ p + Len(t) <= avail
    BY <1>0, <1>1, <1>3, <1>4, <1>5, <1>6, <1>8
  <2> HIDE DEF x, b, p
  <2>2. WrappedAt(p, b, m, n) /\ p + Len(t) = p + 1 + IntLen(m) + 1 + IntLen(n)
    <3>1. WrappedBytes(p, x, b, m, n, t)
      BY <2>1 DEF WrappedBytes
    <3>. QED  BY <3>1, WrappedHere
  <2>. QED  BY <2>2 DEF b, p
<1>. QED  BY <1>1, <1>9 DEF v, m, n, t

(* Nothing is below the client's call.                                      *)
LEMMA NoneBelow ==
  /\ <<>> \in Seq(Frame)
  /\ \A f \in Frame : <<>> \o <<f>> = <<f>>
  /\ \A f, g \in Frame : <<>> \o <<f, g>> = <<f, g>>
<1>1. <<>> \in Seq(Frame)
  OBVIOUS
<1>2. ASSUME NEW f \in Frame PROVE <<>> \o <<f>> = <<f>>
  <2>1. <<f>> \in Seq(Frame)
    OBVIOUS
  <2>. QED  BY <2>1, ConcatEmptySeq
<1>3. ASSUME NEW f \in Frame, NEW g \in Frame PROVE <<>> \o <<f, g>> = <<f, g>>
  <2>1. <<f, g>> \in Seq(Frame)
    OBVIOUS
  <2>. QED  BY <2>1, ConcatEmptySeq
<1>. QED  BY <1>1, <1>2, <1>3

(* The first version that is accepted.                                      *)
LEMMA FirstOf ==
  ASSUME TypeInv, WrittenInv, NEW w \in BoxesIn, NEW i \in 1 .. Len(w.box.vers),
         w.box.vers[i] \in accept, \A j \in 1 .. i - 1 : w.box.vers[j] \notin accept
  PROVE  Selects(w) /\ FirstAccepted(w) = i
<1> DEFINE vers == w.box.vers
           A == Accepted(w)
<1>1. vers \in Seq(Nat)
  <2>1. w.box \in Boxes
    BY BoxIn
  <2>. QED  BY <2>1, BoxOf
<1>2. DOMAIN vers = 1 .. Len(vers) /\ Len(vers) \in Nat
  <2> HIDE DEF vers
  <2>. QED  BY <1>1
<1>3. A = {j \in 1 .. Len(vers) : vers[j] \in accept}
  BY <1>2 DEF Accepted
<1>4. i \in A
  BY <1>3
<1>5. \A j \in A : j \in Nat /\ i <= j
  <2> SUFFICES ASSUME NEW j \in A, ~(i <= j) PROVE FALSE
    BY <1>2, <1>3
  <2>1. j \in 1 .. Len(vers) /\ vers[j] \in accept
    BY <1>3
  <2> HIDE DEF vers, A
  <2>2. j \in 1 .. i - 1
    BY <1>2, <2>1
  <2>. QED  BY <2>1, <2>2 DEF vers
<1>6. FirstAccepted(w) = CHOOSE x \in A : \A j \in A : x <= j
  BY DEF FirstAccepted
<1> HIDE DEF A
<1>7. i \in Nat
  BY <1>4, <1>5
<1>8. ASSUME NEW x \in A, \A j \in A : x <= j PROVE x = i
  BY <1>4, <1>5, <1>7, <1>8
<1>9. (CHOOSE x \in A : \A j \in A : x <= j) = i
  BY <1>4, <1>5, <1>8
<1>10. Selects(w)
  BY <1>4 DEF Selects, A
<1>. QED  BY <1>6, <1>9, <1>10

(* None is.                                                                 *)
LEMMA NoneOf ==
  ASSUME TypeInv, WrittenInv, NEW w \in BoxesIn, Versioned(w),
         \A j \in 1 .. Len(w.box.vers) : w.box.vers[j] \notin accept
  PROVE  ~Selects(w)
<1>1. w.box.vers \in Seq(Nat)
  <2>1. w.box \in Boxes
    BY BoxIn
  <2>. QED  BY <2>1, BoxOf
<1>2. DOMAIN w.box.vers = 1 .. Len(w.box.vers)
  <2> DEFINE s == w.box.vers
  <2>1. s \in Seq(Nat)
    BY <1>1
  <2> HIDE DEF s
  <2>2. DOMAIN s = 1 .. Len(s)
    BY <2>1
  <2>. QED  BY <2>2 DEF s
<1>3. Accepted(w) = {}
  BY <1>2 DEF Accepted
<1>. QED  BY <1>3 DEF Selects

(* What the reader leaves as the client asked for it.                       *)
LEMMA AskedStill ==
  ASSUME Reader, NEW w, Asked(w)
  PROVE  /\ begin' = begin /\ avail' = avail /\ accept' = accept /\ begin = w.start
         /\ Selects(w)' = Selects(w) /\ Selected(w)' = Selected(w)
         /\ FirstAccepted(w)' = FirstAccepted(w) /\ Exact(w)' = Exact(w)
         /\ Followed(w)' = Followed(w) /\ Asked(w)'
<1>1. begin' = begin /\ avail' = avail /\ accept' = accept
  BY Dispatch DEF client
<1>2. Accepted(w)' = Accepted(w)
  BY <1>1 DEF Accepted
<1>3. FirstAccepted(w)' = FirstAccepted(w)
  BY <1>2 DEF FirstAccepted
<1>4. Selects(w)' = Selects(w)
  BY <1>2 DEF Selects, Versioned
<1>5. Selected(w)' = Selected(w)
  BY <1>3 DEF Selected, Versioned
<1>6. Exact(w)' = Exact(w)
  BY <1>3 DEF Exact
<1>7. Followed(w)' = Followed(w) /\ Asked(w)'
  BY <1>1 DEF Followed, Asked, Arrived
<1>8. begin = w.start
  BY DEF Asked
<1>. QED  BY <1>1, <1>3, <1>4, <1>5, <1>6, <1>7, <1>8

(* How the client's call returns: with a value, with none.                  *)
LEMMA Returned ==
  ASSUME Reader, NEW w, Asked(w), Selects(w), ret' > 0, out' = Selected(w),
         Followed(w) => ptr' = begin + ret' /\ (Exact(w) => ptr' = w.stop)
  PROVE  Concluded(w)'
BY AskedStill DEF Concluded

(* With no value.                                                           *)
LEMMA Refused ==
  ASSUME Reader, NEW w, Asked(w), ~Selects(w), ret' = 0 - 1, out' = NoValue,
         Followed(w) => ptr' = begin
  PROVE  Concluded(w)'
BY AskedStill DEF Concluded

(* A plain box is read in one step.                                         *)
LEMMA PlainStep ==
  ASSUME TypeInv, WrittenInv, Reader, NEW w \in BoxesIn, Plain(w), Asked(w),
         w.box.kind = "plain", Reading(w)
  PROVE  stack' = <<>> /\ Concluded(w)'
<1> DEFINE v == w.box.items[1]
           n == v.n
           p == w.start
<1>1. p \in Nat /\ w.box \in Boxes /\ avail \in Nat
  BY BoxIn DEF TypeInv
<1>2. 1 \in 1 .. Len(w.box.items)
  BY <1>1, BoxOf
<1>3. n \in Nat /\ IntLen(n) \in Nat /\ IntLen(n) <= MaxGroups /\ v = [name |-> 0, n |-> n]
  BY <1>1, <1>2, BoxNumbers DEF Plain
<1>4. Holds(bytes, p, PlainBytes(n)) /\ w.stop = p + 1 + IntLen(n) /\ w.stop <= avail
  BY PlainAt DEF Asked
<1>5. stack = <<Call>> /\ ptr = p
  BY DEF Reading
<1>6. Selects(w) /\ Selected(w) = v
  BY DEF Selects, Selected, Versioned
<1> HIDE DEF v, n, p
<1>7. stack = <<>> \o <<Call>> /\ <<>> \in Seq(Frame)
  BY <1>5, NoneBelow, CallIs
<1>8. /\ stack' = <<>> /\ ret' = 1 + IntLen(n) /\ out' = [name |-> 0, n |-> n]
      /\ ptr' = Past(p, p + 1 + IntLen(n))
  BY <1>3, <1>4, <1>5, <1>7, PlainRead
<1>9. ret' > 0 /\ p + ret' = w.stop
  BY <1>1, <1>3, <1>4, <1>8
<1>10. Followed(w) => ptr' = w.stop
  BY <1>4, <1>8 DEF Past, Followed
<1>11. begin = p
  BY DEF Asked, p
<1>. QED  BY <1>3, <1>6, <1>8, <1>9, <1>10, <1>11, Returned

(* What a version, or a part, is read as.                                   *)
LEMMA WrappedConcluded ==
  ASSUME TypeInv, WrittenInv, Reader, NEW w \in BoxesIn, Plain(w), Asked(w),
         NEW b, NEW m, NEW n, b = w.box.kind, b \in {"version", "part"},
         b = "version" => m = w.box.vers[1], n = w.box.items[1].n,
         WrappedAt(w.start, b, m, n), w.stop = w.start + 1 + IntLen(m) + 1 + IntLen(n),
         WrappedDone(<<>>, w.start, b, m, n)
  PROVE  stack' = <<>> /\ Concluded(w)'
<1> DEFINE v == w.box.items[1]
           p == w.start
<1>1. p \in Nat /\ w.box \in Boxes /\ avail \in Nat /\ begin = p
  BY BoxIn DEF TypeInv, Asked
<1>2. 1 \in 1 .. Len(w.box.items) /\ (b = "version" => Len(w.box.vers) = 1)
  BY <1>1, BoxOf
<1>3. v = [name |-> 0, n |-> n]
  BY <1>1, <1>2, BoxNumbers DEF Plain
<1>4. m \in Nat /\ n \in Nat /\ IntLen(m) \in Nat /\ IntLen(n) \in Nat
  <2>1. m \in Nat /\ n \in Nat
    BY DEF WrappedAt
  <2>. QED  BY <2>1, IntLenOf
<1>5. stack' = <<>>
  BY DEF WrappedDone
<1>6. CASE b = "version" => m \in accept
  <2>1. Selects(w) /\ (b = "version" => FirstAccepted(w) = 1)
    <3>1. CASE b = "version"
      <4>1. 1 \in 1 .. Len(w.box.vers) /\ w.box.vers[1] \in accept
        BY <1>2, <1>6, <3>1
      <4>2. \A j \in 1 .. 1 - 1 : w.box.vers[j] \notin accept
        OBVIOUS
      <4>. QED  BY <4>1, <4>2, FirstOf
    <3>2. CASE b = "part"
      BY <3>2 DEF Selects, Versioned
    <3>. QED  BY <3>1, <3>2
  <2>2. Selected(w) = v
    <3>1. Versioned(w) => FirstAccepted(w) = 1
      BY <2>1 DEF Versioned
    <3>. QED  BY <3>1 DEF Selected
  <2>3. /\ ret' = 1 + IntLen(m) + 1 + IntLen(n) /\ out' = [name |-> 0, n |-> n]
        /\ ptr' = Past(p + 1 + IntLen(m), p + 1 + IntLen(m) + 1 + IntLen(n))
    BY <1>6 DEF WrappedDone
  <2> HIDE DEF v, p
  <2>4. w.stop = p + 1 + IntLen(m) + 1 + IntLen(n)
    BY DEF p
  <2>5. ret' > 0 /\ p + ret' = w.stop
    BY <1>1, <1>4, <2>3, <2>4
  <2>6. Followed(w) => ptr' = w.stop
    BY <2>3, <2>4 DEF Past, Followed
  <2>. QED  BY <1>1, <1>3, <1>5, <2>1, <2>2, <2>3, <2>5, <2>6, Returned
<1>7. CASE ~(b = "version" => m \in accept)
  <2>1. ret' = 0 - 1 /\ out' = NoValue /\ ptr' = p
    BY <1>7 DEF WrappedDone
  <2>2. ~Selects(w)
    <3>1. \A j \in 1 .. Len(w.box.vers) : w.box.vers[j] \notin accept
      BY <1>2, <1>7
    <3>2. Versioned(w)
      BY <1>7 DEF Versioned
    <3>. QED  BY <3>1, <3>2, NoneOf
  <2> HIDE DEF v, p
  <2>. QED  BY <1>1, <1>5, <2>1, <2>2, Refused
<1>. QED  BY <1>6, <1>7

(* A version and a part are read in five steps.                             *)
LEMMA VersionStep ==
  ASSUME TypeInv, WrittenInv, Reader, NEW w \in BoxesIn, Plain(w), Asked(w),
         w.box.kind = "version", Reading(w)
  PROVE  Reading(w)' \/ (stack' = <<>> /\ Concluded(w)')
<1> DEFINE m == w.box.vers[1]
           n == w.box.items[1].n
           p == w.start
           b == "version"
<1>1. WrappedAt(p, b, m, n) /\ w.stop = p + 1 + IntLen(m) + 1 + IntLen(n)
  BY VersionAt DEF Asked
<1>2. Wrapped(<<>>, p, b, m, n) /\ <<>> \in Seq(Frame)
  BY NoneBelow DEF Reading
<1>3. (Reading(w) <=> Wrapped(<<>>, p, b, m, n))'
  BY DEF Reading
<1>4. b = w.box.kind /\ b \in {"version", "part"} /\ m = w.box.vers[1] /\ n = w.box.items[1].n
  OBVIOUS
<1> HIDE DEF m, n, p, b
<1>5. Wrapped(<<>>, p, b, m, n)' \/ WrappedDone(<<>>, p, b, m, n)
  BY <1>1, <1>2, WrappedStep
<1>6. WrappedDone(<<>>, p, b, m, n) => stack' = <<>> /\ Concluded(w)'
  BY <1>1, <1>4, WrappedConcluded DEF p
<1>. QED  BY <1>3, <1>5, <1>6

(* A part takes the same five steps.                                        *)
LEMMA PartStep ==
  ASSUME TypeInv, WrittenInv, Reader, NEW w \in BoxesIn, Plain(w), Asked(w),
         w.box.kind = "part", Reading(w)
  PROVE  Reading(w)' \/ (stack' = <<>> /\ Concluded(w)')
<1> DEFINE m == Len(ValueBytes(w.box.items[1]))
           n == w.box.items[1].n
           p == w.start
           b == "part"
<1>1. WrappedAt(p, b, m, n) /\ w.stop = p + 1 + IntLen(m) + 1 + IntLen(n)
  BY PartAt DEF Asked
<1>2. Wrapped(<<>>, p, b, m, n) /\ <<>> \in Seq(Frame)
  BY NoneBelow DEF Reading
<1>3. (Reading(w) <=> Wrapped(<<>>, p, b, m, n))'
  BY DEF Reading
<1>4. b = w.box.kind /\ b \in {"version", "part"} /\ n = w.box.items[1].n
      /\ (b = "version" => m = w.box.vers[1])
  OBVIOUS
<1> HIDE DEF m, n, p, b
<1>5. Wrapped(<<>>, p, b, m, n)' \/ WrappedDone(<<>>, p, b, m, n)
  BY <1>1, <1>2, WrappedStep
<1>6. WrappedDone(<<>>, p, b, m, n) => stack' = <<>> /\ Concluded(w)'
  BY <1>1, <1>4, WrappedConcluded DEF p
<1>. QED  BY <1>3, <1>5, <1>6

(* A call of the client alone.                                              *)
LEMMA Alone ==
  ASSUME NEW f \in Frame, stack = <<f>>
  PROVE  /\ Top = f /\ Front(stack) = <<>>
         /\ \A g \in Frame : /\ Front(stack) \o <<g>> = <<g>>
                             /\ Front(stack) \o <<g, Call>> = <<g, Call>>
<1>1. <<>> \in Seq(Frame) /\ stack = <<>> \o <<f>>
  BY NoneBelow
<1>2. Top = f /\ Front(stack) = <<>>
  BY <1>1, Above
<1>. QED  BY <1>2, NoneBelow, CallIs

(* A number m at the cursor, with more behind it.                           *)
NumberHere(m) ==
  /\ m \in Nat /\ IntLen(m) <= MaxGroups
  /\ Holds(bytes, ptr, Digits[m]) /\ ptr + IntLen(m) < avail

(* It is read as it was written.                                            *)
LEMMA NumberRead ==
  ASSUME TypeInv, NEW m, NumberHere(m)
  PROVE  /\ m \in Nat /\ IntLen(m) \in Nat /\ IntLen(m) >= 1
         /\ Num.ok /\ Num.len = IntLen(m) /\ Num.val = m /\ Num.ptr = ptr + IntLen(m)
<1>1. m \in Nat
  BY DEF NumberHere
<1>2. Num.ok /\ Num.len = IntLen(m) /\ Num.val = m /\ Num.ptr = ptr + IntLen(m)
  BY <1>1, NumExact DEF NumberHere
<1>. QED  BY <1>1, <1>2, IntLenOf

(* The head of a list, or of a table: the number of entries.                *)
LEMMA HeadRead ==
  ASSUME TypeInv, Reader, NEW m, NumberHere(m), m # 0,
         NEW b \in {"list", "table"}, stack = <<Fresh(b, 1)>>
  PROVE  LET c == IF b = "list" THEN "item" ELSE "offset"
         IN  /\ stack' = <<Fr(c, 1 + IntLen(m), m, 0 - 1, 0)>>
             /\ ptr' = ptr + IntLen(m) /\ out' = out
<1> DEFINE c == IF b = "list" THEN "item" ELSE "offset"
           f == Fr(c, 1 + IntLen(m), m, 0 - 1, 0)
<1>1. /\ m \in Nat /\ IntLen(m) \in Nat
      /\ Num.ok /\ Num.len = IntLen(m) /\ Num.val = m /\ Num.ptr = ptr + IntLen(m)
  BY NumberRead
<1>2. Fresh(b, 1) \in Frame
  BY FreshIn
<1>3. Top = Fresh(b, 1)
  BY <1>2, Alone
<1>4. Top.at = b /\ Top.len = 1
  BY <1>3, FreshSet
<1>5. Counted = 1 + IntLen(m)
  BY <1>1, <1>4 DEF Counted
<1>6. Proceed(Looping(Top, c, m)) /\ UNCHANGED out
  <2>1. CASE b = "list"
    <3>1. ReadList
      BY <1>1, <1>4, <2>1, Dispatch
    <3>. QED  BY <1>1, <2>1, <3>1 DEF ReadList, Looping
  <2>2. CASE b = "table"
    <3>1. ReadTable
      BY <1>1, <1>4, <2>2, Dispatch
    <3>. QED  BY <1>1, <2>2, <3>1 DEF ReadTable, Looping
  <2>. QED  BY <2>1, <2>2
<1>7. Measured(Looping(Top, c, m), Counted) = f
  <2>1. Looping(Top, c, m) = Fr(c, 1, m, 0 - 1, 0)
    BY <1>3, FrSet DEF Fresh
  <2>. QED  BY <1>5, <2>1, FrSet
<1>8. f \in Frame
  <2>1. c \in {"item", "offset"} /\ 1 + IntLen(m) \in Nat /\ 0 \in Nat /\ 0 - 1 \in Int
    BY <1>1
  <2> HIDE DEF c
  <2>. QED  BY <1>1, <2>1, FrIn
<1> HIDE DEF f, c
<1>9. ptr' = Num.ptr /\ stack' = Front(stack) \o <<Measured(Looping(Top, c, m), Counted)>>
  BY <1>6 DEF Proceed, Reach, Measured
<1>10. stack' = <<f>>
  BY <1>2, <1>7, <1>8, <1>9, Alone
<1>. QED  BY <1>1, <1>6, <1>9, <1>10 DEF f, c

(* The version of an entry.                                                 *)
LEMMA ItemRead ==
  ASSUME TypeInv, Reader, NEW m, NumberHere(m), NEW l \in Nat, NEW n \in Nat,
         stack = <<Fr("item", l, n, 0 - 1, 0)>>
  PROVE  LET b == IF m \in accept THEN "match" ELSE "skip"
         IN  /\ stack' = <<Fr(b, l + IntLen(m), n, 0 - 1, 0), Call>>
             /\ ptr' = ptr + IntLen(m) /\ out' = out
<1> DEFINE b == IF m \in accept THEN "match" ELSE "skip"
           g == Fr("item", l, n, 0 - 1, 0)
           f == Fr(b, l + IntLen(m), n, 0 - 1, 0)
<1>1. /\ m \in Nat /\ IntLen(m) \in Nat
      /\ Num.ok /\ Num.len = IntLen(m) /\ Num.val = m /\ Num.ptr = ptr + IntLen(m)
  BY NumberRead
<1>2. g \in Frame /\ f \in Frame
  <2>1. b \in {"match", "skip"} /\ l + IntLen(m) \in Nat /\ 0 \in Nat /\ 0 - 1 \in Int
    BY <1>1
  <2> HIDE DEF b
  <2>. QED  BY <2>1, FrIn
<1>3. Top = g /\ g.at = "item" /\ g.len = l
  BY <1>2, Alone, FrFields
<1>4. Counted = l + IntLen(m)
  BY <1>1, <1>3 DEF Counted
<1>5. ReadItem
  BY <1>1, <1>3, Dispatch
<1>6. Descend(b) /\ UNCHANGED out
  BY <1>1, <1>5 DEF ReadItem
<1>7. Counting(Top, b, Counted) = f
  BY <1>3, <1>4, FrSet
<1> HIDE DEF f, g, b
<1>8. ptr' = Num.ptr /\ stack' = Front(stack) \o <<Counting(Top, b, Counted), Call>>
  BY <1>6 DEF Descend, Enter, Counting
<1>9. stack' = <<f, Call>>
  <2>1. stack = <<g>>
    BY DEF g
  <2>. QED  BY <1>2, <1>7, <1>8, <2>1, Alone
<1>. QED  BY <1>1, <1>6, <1>8, <1>9 DEF f, b

(* An entry whose version is accepted was read.                             *)
LEMMA MatchRead ==
  ASSUME TypeInv, Reader, ret > 0, NEW l \in Nat, NEW n \in Nat,
         stack = <<Fr("match", l, n, 0 - 1, 0)>>
  PROVE  stack' = <<>> /\ ret' = l + ret /\ ptr' = ptr /\ out' = out
<1> DEFINE g == Fr("match", l, n, 0 - 1, 0)
<1>1. g \in Frame
  <2>1. 0 \in Nat /\ 0 - 1 \in Int
    OBVIOUS
  <2>. QED  BY <2>1, FrIn
<1>2. Top = g /\ g.at = "match" /\ g.len = l /\ Front(stack) = <<>>
  BY <1>1, Alone, FrFields
<1> HIDE DEF g
<1>3. AfterInner
  BY <1>2, Dispatch
<1>4. Return(l + ret) /\ UNCHANGED <<ptr, out>>
  <2>1. ret \in Int
    BY DEF TypeInv
  <2>2. ~ ret <= 0
    BY <2>1
  <2>. QED  BY <1>2, <1>3, <2>2 DEF AfterInner
<1>. QED  BY <1>2, <1>4 DEF Return

(* One whose version is not accepted was read, and another one follows, or not. *)
LEMMA SkipRead ==
  ASSUME TypeInv, Reader, ret > 0, NEW l \in Nat, NEW n \in Nat, n >= 1,
         stack = <<Fr("skip", l, n, 0 - 1, 0)>>
  PROVE  /\ out' = NoValue
         /\ n # 1 => stack' = <<Fr("item", l + ret, n - 1, 0 - 1, 0)>> /\ ptr' = ptr
         /\ n = 1 => stack' = <<>> /\ ret' = 0 - 1 /\ ptr' = Move(ptr, 0 - (l + ret))
<1> DEFINE g == Fr("skip", l, n, 0 - 1, 0)
           f == Fr("item", l + ret, n - 1, 0 - 1, 0)
<1>1. /\ 0 \in Nat /\ 0 - 1 \in Int /\ ret \in Int /\ ret \in Nat /\ l + ret \in Nat
      /\ n - 1 \in Nat /\ ~ ret <= 0
  <2>1. ret \in Int
    BY DEF TypeInv
  <2>. QED  BY <2>1
<1>2. g \in Frame /\ f \in Frame
  BY <1>1, FrIn
<1>3. Top = g /\ g.at = "skip" /\ g.len = l /\ g.n = n /\ Front(stack) = <<>>
  BY <1>2, Alone, FrFields
<1>4. Both(g, "item", l + ret, n - 1) = f
  <2> DEFINE a == l + ret
             c == n - 1
             x == 0 - 1
  <2> HIDE DEF a, c, x
  <2>1. Both(Fr("skip", l, n, x, 0), "item", a, c) = Fr("item", a, c, x, 0)
    BY FrSet
  <2>. QED  BY <2>1 DEF a, c, x
<1> HIDE DEF g, f
<1>5. AfterSkip
  BY <1>3, Dispatch
<1>6. /\ out' = NoValue
      /\ \/ n = 1 /\ Fail(ptr, l + ret)
         \/ /\ n # 1 /\ Reach(Both(g, "item", l + ret, n - 1))
            /\ UNCHANGED ptr
  BY <1>1, <1>3, <1>5 DEF AfterSkip, Both
<1>7. CASE n = 1
  BY <1>3, <1>6, <1>7 DEF Fail, Return
<1>8. CASE n # 1
  <2>1. stack' = Front(stack) \o <<f>> /\ ptr' = ptr
    BY <1>4, <1>6, <1>8 DEF Reach
  <2>2. stack = <<g>>
    BY DEF g
  <2>3. stack' = <<f>>
    BY <1>2, <2>1, <2>2, Alone
  <2>. QED  BY <1>6, <1>8, <2>1, <2>3 DEF f
<1>. QED  BY <1>7, <1>8

(* An entry from a to z that arrived: its version m and its value v.        *)
EntryHere(a, z, m, v) ==
  /\ a \in Nat /\ m \in Nat /\ IntLen(m) <= MaxGroups /\ Holds(bytes, a, Digits[m])
  /\ v.n \in Nat /\ v = [name |-> 0, n |-> v.n] /\ IntLen(v.n) <= MaxGroups
  /\ Holds(bytes, a + IntLen(m), PlainBytes(v.n))
  /\ z = a + IntLen(m) + 1 + IntLen(v.n) /\ z <= avail

(* What its reading ends with: the entry is taken, passed, or the last one.  *)
EntryDone(p, a, z, m, v, n) ==
  \/ /\ m \in accept /\ stack' = <<>> /\ ret' = z - p /\ out' = v
     /\ ptr' = Past(a + IntLen(m), z)
  \/ /\ m \notin accept /\ n # 1 /\ out' = NoValue
     /\ stack' = <<Fr("item", z - p, n - 1, 0 - 1, 0)>> /\ ptr' = Past(a + IntLen(m), z)
  \/ /\ m \notin accept /\ n = 1 /\ out' = NoValue
     /\ stack' = <<>> /\ ret' = 0 - 1 /\ ptr' = Move(Past(a + IntLen(m), z), 0 - (z - p))

(* It is read in three steps.                                               *)
LEMMA EntryStep ==
  ASSUME TypeInv, Reader, NEW p \in Nat, NEW a, NEW z, NEW m, NEW v, NEW n \in Nat, n >= 1,
         p < a, EntryHere(a, z, m, v), InEntry(p, a, z, m, v, n)
  PROVE  InEntry(p, a, z, m, v, n)' \/ EntryDone(p, a, z, m, v, n)
<1> DEFINE k == IntLen(m)
           c == IntLen(v.n)
           C == EntryCall(a + k - p, m, n)
<1>1. /\ a \in Nat /\ m \in Nat /\ k \in Nat /\ k >= 1 /\ v.n \in Nat /\ c \in Nat /\ c >= 1
      /\ k <= MaxGroups /\ c <= MaxGroups
      /\ Holds(bytes, a, Digits[m]) /\ Holds(bytes, a + k, PlainBytes(v.n))
      /\ v = [name |-> 0, n |-> v.n]
      /\ z = a + k + 1 + c /\ z <= avail
  <2>1. m \in Nat /\ v.n \in Nat
    BY DEF EntryHere
  <2>2. IntLen(m) \in Nat /\ IntLen(m) >= 1 /\ IntLen(v.n) \in Nat /\ IntLen(v.n) >= 1
    BY <2>1, IntLenOf
  <2>. QED  BY <2>1, <2>2 DEF EntryHere
<1>2. accept' = accept /\ avail' = avail /\ avail \in Nat /\ ptr \in Nat
  BY Dispatch DEF client, TypeInv
<1>3. C' = C /\ Past(a + k, z)' = Past(a + k, z)
  BY <1>2 DEF EntryCall, Past
<1>4. a - p \in Nat /\ a + k - p \in Nat /\ (a - p) + k = a + k - p
      /\ a + k + 1 + c = (a + k) + 1 + c
      /\ (a + k - p) + (1 + c) = z - p
  <2> HIDE DEF k, c
  <2>. QED  BY <1>1
<1>5. C \in Frame /\ C = Fr(IF m \in accept THEN "match" ELSE "skip", a + k - p, n, 0 - 1, 0)
  <2> DEFINE b == IF m \in accept THEN "match" ELSE "skip"
  <2>1. b \in {"match", "skip"} /\ 0 \in Nat /\ 0 - 1 \in Int
    OBVIOUS
  <2>2. C = Fr(b, a + k - p, n, 0 - 1, 0)
    BY DEF EntryCall
  <2> HIDE DEF b, C
  <2>3. Fr(b, a + k - p, n, 0 - 1, 0) \in Frame
    BY <1>4, <2>1, FrIn
  <2>4. C \in Frame
    BY <2>2, <2>3
  <2>. QED  BY <2>2, <2>4 DEF b
<1>6. CASE stack = <<Fr("item", a - p, n, 0 - 1, 0)>> /\ ptr = a /\ out = NoValue
  <2>1. NumberHere(m)
    <3>1. a + k < avail
      BY <1>1, <1>2
    <3>. QED  BY <1>1, <1>6, <3>1 DEF NumberHere
  <2>2. stack' = <<C, Call>> /\ ptr' = a + k /\ out' = NoValue
    <3> DEFINE l == a - p
    <3>1. l \in Nat /\ l + IntLen(m) = a + k - p /\ stack = <<Fr("item", l, n, 0 - 1, 0)>>
      BY <1>4, <1>6
    <3> HIDE DEF l, C
    <3>2. /\ stack' = <<Fr(IF m \in accept THEN "match" ELSE "skip",
                           l + IntLen(m), n, 0 - 1, 0), Call>>
          /\ ptr' = ptr + IntLen(m) /\ out' = out
      BY <2>1, <3>1, ItemRead
    <3>. QED  BY <1>5, <1>6, <3>1, <3>2
  <2>. QED  BY <1>3, <2>2 DEF InEntry
<1>7. CASE stack = <<C, Call>> /\ ptr = a + k /\ out = NoValue
  <2> HIDE DEF C
  <2>1. <<C>> \in Seq(Frame) /\ stack = <<C>> \o <<Call>>
    BY <1>5, <1>7, CallIs, NoneBelow, AboveCall
  <2>2. Holds(bytes, ptr, PlainBytes(v.n)) /\ ptr + 1 + IntLen(v.n) <= avail
    BY <1>1, <1>7
  <2>3. /\ stack' = <<C>> /\ ret' = 1 + IntLen(v.n) /\ out' = [name |-> 0, n |-> v.n]
        /\ ptr' = Past(ptr, ptr + 1 + IntLen(v.n))
    BY <1>1, <2>1, <2>2, PlainRead
  <2>4. out' = v /\ ptr' = Past(a + k, z)
    BY <1>1, <1>7, <2>3
  <2>. QED  BY <1>3, <2>3, <2>4 DEF InEntry, C
<1>8. CASE /\ stack = <<C>> /\ ptr = Past(a + k, z)
           /\ ret = 1 + IntLen(v.n) /\ out = v
  <2> DEFINE l == a + k - p
  <2>1. ret > 0 /\ l \in Nat /\ l + ret = z - p
    BY <1>1, <1>4, <1>8
  <2>2. CASE m \in accept
    <3>1. stack = <<Fr("match", l, n, 0 - 1, 0)>>
      BY <1>5, <1>8, <2>2
    <3> HIDE DEF l, C
    <3>2. stack' = <<>> /\ ret' = l + ret /\ ptr' = ptr /\ out' = out
      BY <2>1, <3>1, MatchRead
    <3>. QED  BY <1>8, <2>1, <2>2, <3>2 DEF EntryDone
  <2>3. CASE m \notin accept
    <3>1. stack = <<Fr("skip", l, n, 0 - 1, 0)>>
      BY <1>5, <1>8, <2>3
    <3> HIDE DEF l, C
    <3>2. /\ out' = NoValue
          /\ n # 1 => stack' = <<Fr("item", l + ret, n - 1, 0 - 1, 0)>> /\ ptr' = ptr
          /\ n = 1 => stack' = <<>> /\ ret' = 0 - 1 /\ ptr' = Move(ptr, 0 - (l + ret))
      BY <2>1, <3>1, SkipRead
    <3>. QED  BY <1>8, <2>1, <2>3, <3>2 DEF EntryDone
  <2>. QED  BY <2>2, <2>3
<1>. QED  BY <1>6, <1>7, <1>8 DEF InEntry

(* The tag of block b and the number m, from p on, with more behind them.   *)
HeadHere(p, b, m) ==
  /\ p \in Nat /\ b \in {"list", "table"} /\ m \in Nat /\ m # 0 /\ IntLen(m) <= MaxGroups
  /\ Block(Byte(p)) = b /\ Holds(bytes, p + 1, Digits[m]) /\ p + 1 + IntLen(m) < avail

(* They are read in three steps.                                            *)
LEMMA HeadStep ==
  ASSUME TypeInv, Reader, NEW p, NEW b, NEW m, HeadHere(p, b, m), AtHead(p, b)
  PROVE  \/ AtHead(p, b)'
         \/ /\ stack' = <<Fr(IF b = "list" THEN "item" ELSE "offset", 1 + IntLen(m), m, 0 - 1, 0)>>
            /\ ptr' = p + 1 + IntLen(m) /\ out' = NoValue
<1> DEFINE k == IntLen(m)
<1>1. /\ p \in Nat /\ b \in {"list", "table"} /\ m \in Nat /\ m # 0 /\ k \in Nat /\ k <= MaxGroups
      /\ Block(Byte(p)) = b /\ Holds(bytes, p + 1, Digits[m]) /\ p + 1 + k < avail
  BY IntLenOf DEF HeadHere
<1>2. /\ avail \in Nat /\ ptr \in Nat /\ <<>> \in Seq(Frame) /\ "type" # "unknown" /\ b # "unknown"
      /\ \A f \in Frame : <<>> \o <<f>> = <<f>>
      /\ Fresh("type", 0) \in Frame /\ Fresh(b, 1) \in Frame /\ Call \in Frame
  <2>1. /\ b \in {"enter", "type", "version", "list", "item", "match", "skip", "part",
                  "inner", "table", "offset", "jump", "back", "name"}
        /\ 0 \in Nat /\ 1 \in Nat /\ b # "unknown"
    BY <1>1
  <2>2. Fresh("type", 0) \in Frame /\ Fresh(b, 1) \in Frame
    BY <2>1, FreshIn
  <2>3. avail \in Nat /\ ptr \in Nat
    BY DEF TypeInv
  <2>. QED  BY <2>1, <2>2, <2>3, NoneBelow, CallIs
<1>3. CASE stack = <<Call>> /\ ptr = p /\ out = NoValue
  <2>1. stack = <<>> \o <<Call>>
    BY <1>2, <1>3
  <2>2. ptr < avail /\ Byte(ptr) # serialize_positive_int /\ Byte(ptr) # serialize_str_pool_table
    <3>1. ptr < avail
      BY <1>1, <1>2, <1>3
    <3>2. Block(Byte(ptr)) # "unknown"
      BY <1>1, <1>3
    <3>. QED  BY <3>1, <3>2, Blocks
  <2>3. stack' = <<>> \o <<Fresh("type", 0)>> /\ ptr' = ptr /\ out' = out
    BY <1>2, <2>1, <2>2, TagPassed
  <2>. QED  BY <1>2, <1>3, <2>3 DEF AtHead
<1>4. CASE stack = <<Fresh("type", 0)>> /\ ptr = p /\ out = NoValue
  <2>1. stack = <<>> \o <<Fresh("type", 0)>>
    BY <1>2, <1>4
  <2>2. ptr + 1 < avail
    BY <1>1, <1>2, <1>4
  <2>3. stack' = <<>> \o <<Fresh(b, 1)>> /\ ptr' = ptr + 1 /\ out' = out
    BY <1>1, <1>2, <1>4, <2>1, <2>2, TypeRead
  <2>. QED  BY <1>2, <1>4, <2>3 DEF AtHead
<1>5. CASE stack = <<Fresh(b, 1)>> /\ ptr = p + 1 /\ out = NoValue
  <2>1. NumberHere(m)
    BY <1>1, <1>5 DEF NumberHere
  <2> DEFINE c == IF b = "list" THEN "item" ELSE "offset"
  <2>2. /\ stack' = <<Fr(c, 1 + IntLen(m), m, 0 - 1, 0)>>
        /\ ptr' = ptr + IntLen(m) /\ out' = out
    BY <1>1, <1>5, <2>1, HeadRead
  <2>. QED  BY <1>5, <2>2
<1>. QED  BY <1>3, <1>4, <1>5 DEF AtHead

(* A list that arrived from p to q, whose entries start at E.               *)
ListHere(p, q, E, vers, vs) ==
  /\ p \in Nat /\ q <= avail /\ Len(vs) \in Nat
  /\ HeadHere(p, "list", Len(vs))
  /\ E[1] = p + 1 + IntLen(Len(vs)) /\ E[Len(vs) + 1] = q
  /\ \A i \in 1 .. Len(vs) : EntryHere(E[i], E[i + 1], vers[i], vs[i]) /\ p < E[i]

(* What reading it ends with: the first accepted value, or none.            *)
ListDone(p, q, E, vers, vs) ==
  /\ stack' = <<>>
  /\ \/ \E i \in 1 .. Len(vs) :
          /\ vers[i] \in accept /\ \A j \in 1 .. i - 1 : vers[j] \notin accept
          /\ ret' = E[i + 1] - p /\ out' = vs[i]
          /\ ptr' = Past(E[i] + IntLen(vers[i]), E[i + 1])
     \/ /\ \A i \in 1 .. Len(vs) : vers[i] \notin accept
        /\ ret' = 0 - 1 /\ out' = NoValue
        /\ ptr' = Move(Past(E[Len(vs)] + IntLen(vers[Len(vs)]), q), 0 - (q - p))

(* A list is read head first, then entry by entry.                          *)
LEMMA ListedStep ==
  ASSUME TypeInv, Reader, NEW p, NEW q, NEW E, NEW vers, NEW vs,
         E = Entries(vers, vs, p), ListHere(p, q, E, vers, vs), Listed(p, vers, vs)
  PROVE  Listed(p, vers, vs)' \/ ListDone(p, q, E, vers, vs)
<1> DEFINE k == Len(vs)
           In(i) == InEntry(p, E[i], E[i + 1], vers[i], vs[i], k - i + 1)
           None(i) == \A j \in 1 .. i - 1 : vers[j] \notin accept
<1>1. /\ p \in Nat /\ q <= avail /\ k \in Nat /\ k # 0
      /\ HeadHere(p, "list", k) /\ E[1] = p + 1 + IntLen(k) /\ E[k + 1] = q
      /\ \A i \in 1 .. k : EntryHere(E[i], E[i + 1], vers[i], vs[i]) /\ p < E[i]
  BY DEF ListHere, HeadHere
<1>2. accept' = accept /\ avail \in Nat /\ IntLen(k) \in Nat
  BY <1>1, Dispatch, IntLenOf DEF client, TypeInv
<1>3. Listed(p, vers, vs) <=> AtHead(p, "list") \/ \E i \in 1 .. k : None(i) /\ In(i)
  BY DEF Listed
<1>4. /\ AtHead(p, "list")' => Listed(p, vers, vs)'
      /\ \A i \in 1 .. k : None(i) /\ In(i)' => Listed(p, vers, vs)'
  <2>1. \A i \in 1 .. k : None(i)' = None(i)
    BY <1>2
  <2>2. (AtHead(p, "list") => Listed(p, vers, vs))'
    BY DEF Listed
  <2>3. (\A i \in 1 .. k : None(i) /\ In(i) => Listed(p, vers, vs))'
    BY DEF Listed
  <2>. QED  BY <2>1, <2>2, <2>3
<1>5. ASSUME NEW i \in 1 .. k, NEW l \in Nat, l = E[i] - p,
             stack' = <<Fr("item", l, k - i + 1, 0 - 1, 0)>>, ptr' = E[i], out' = NoValue
      PROVE  In(i)'
  BY <1>5 DEF InEntry
<1>6. CASE AtHead(p, "list")
  <2> DEFINE b == "list"
  <2>1. \/ AtHead(p, b)'
        \/ /\ stack' = <<Fr("item", 1 + IntLen(k), k, 0 - 1, 0)>>
           /\ ptr' = p + 1 + IntLen(k) /\ out' = NoValue
    <3> DEFINE c == IF b = "list" THEN "item" ELSE "offset"
    <3>1. c = "item" /\ HeadHere(p, b, k) /\ AtHead(p, b)
      BY <1>1, <1>6
    <3> HIDE DEF k, b
    <3>2. \/ AtHead(p, b)'
          \/ /\ stack' = <<Fr(c, 1 + IntLen(k), k, 0 - 1, 0)>>
             /\ ptr' = p + 1 + IntLen(k) /\ out' = NoValue
      BY <3>1, HeadStep
    <3>. QED  BY <3>1, <3>2
  <2>2. CASE AtHead(p, b)'
    BY <1>4, <2>2
  <2>3. CASE /\ stack' = <<Fr("item", 1 + IntLen(k), k, 0 - 1, 0)>>
             /\ ptr' = p + 1 + IntLen(k) /\ out' = NoValue
    <3>1. /\ 1 \in 1 .. k /\ 1 + IntLen(k) \in Nat /\ 1 + IntLen(k) = E[1] - p /\ k - 1 + 1 = k
          /\ ptr' = E[1]
      BY <1>1, <1>2, <2>3
    <3>2. None(1)
      OBVIOUS
    <3>3. In(1)'
      BY <1>5, <2>3, <3>1
    <3>. QED  BY <1>4, <3>1, <3>2, <3>3
  <2>. QED  BY <2>1, <2>2, <2>3
<1>7. ASSUME NEW i \in 1 .. k, None(i), In(i)
      PROVE  Listed(p, vers, vs)' \/ ListDone(p, q, E, vers, vs)
  <2> DEFINE n == k - i + 1
             a == E[i]
             z == E[i + 1]
             m == vers[i]
             v == vs[i]
  <2>1. /\ n \in Nat /\ n >= 1 /\ p < a /\ EntryHere(a, z, m, v) /\ InEntry(p, a, z, m, v, n)
        /\ i \in Nat /\ i >= 1 /\ i <= k
    BY <1>1, <1>7
  <2>2. z \in Nat /\ p < z /\ a + IntLen(m) < z
    <3> HIDE DEF a, z, m, v
    <3>1. a \in Nat /\ m \in Nat /\ v.n \in Nat /\ z = a + IntLen(m) + 1 + IntLen(v.n)
      BY <2>1 DEF EntryHere
    <3>2. IntLen(m) \in Nat /\ IntLen(v.n) \in Nat
      BY <3>1, IntLenOf
    <3>. QED  BY <1>1, <2>1, <3>1, <3>2
  <2>3. InEntry(p, a, z, m, v, n)' \/ EntryDone(p, a, z, m, v, n)
    <3> HIDE DEF a, z, m, v, n
    <3>. QED  BY <1>1, <2>1, EntryStep
  <2>4. CASE InEntry(p, a, z, m, v, n)'
    BY <1>4, <1>7, <2>4
  <2>5. CASE m \in accept /\ stack' = <<>> /\ ret' = z - p /\ out' = v
             /\ ptr' = Past(a + IntLen(m), z)
    BY <1>7, <2>5 DEF ListDone
  <2>6. CASE /\ m \notin accept /\ n # 1 /\ out' = NoValue
             /\ stack' = <<Fr("item", z - p, n - 1, 0 - 1, 0)>> /\ ptr' = Past(a + IntLen(m), z)
    <3>1. i + 1 \in 1 .. k /\ k - (i + 1) + 1 = n - 1 /\ z - p \in Nat /\ z - p = E[i + 1] - p
      BY <1>1, <2>1, <2>2, <2>6
    <3>2. z < avail
      <4> DEFINE y == E[(i + 1) + 1]
                 w == vs[i + 1]
                 o == vers[i + 1]
      <4>1. EntryHere(z, y, o, w)
        BY <1>1, <3>1
      <4> HIDE DEF y, w, o
      <4>2. o \in Nat /\ w.n \in Nat /\ y = z + IntLen(o) + 1 + IntLen(w.n) /\ y <= avail
        BY <4>1 DEF EntryHere
      <4>3. IntLen(o) \in Nat /\ IntLen(w.n) \in Nat
        BY <4>2, IntLenOf
      <4> HIDE DEF z
      <4>. QED  BY <1>2, <2>2, <4>2, <4>3
    <3>3. ptr' = z
      BY <2>6, <3>2 DEF Past
    <3>4. In(i + 1)'
      <4> DEFINE h == i + 1
                 l == z - p
      <4>1. h \in 1 .. k /\ l \in Nat /\ l = E[h] - p /\ k - h + 1 = n - 1 /\ ptr' = E[h]
            /\ stack' = <<Fr("item", l, n - 1, 0 - 1, 0)>> /\ out' = NoValue
        BY <2>6, <3>1, <3>3
      <4>2. stack' = <<Fr("item", l, k - h + 1, 0 - 1, 0)>>
        BY <4>1
      <4> HIDE DEF h, l
      <4>3. In(h)'
        BY <1>5, <4>1, <4>2
      <4>. QED  BY <4>3 DEF h
    <3>5. None(i + 1)
      <4> SUFFICES ASSUME NEW j \in 1 .. (i + 1) - 1 PROVE vers[j] \notin accept
        OBVIOUS
      <4>1. j \in 1 .. i - 1 \/ j = i
        BY <2>1
      <4>. QED  BY <1>7, <2>6, <4>1
    <3>. QED  BY <1>4, <3>1, <3>4, <3>5
  <2>7. CASE /\ m \notin accept /\ n = 1 /\ out' = NoValue
             /\ stack' = <<>> /\ ret' = 0 - 1 /\ ptr' = Move(Past(a + IntLen(m), z), 0 - (z - p))
    <3>1. i = k
      BY <1>1, <2>1, <2>7
    <3>2. \A j \in 1 .. k : vers[j] \notin accept
      <4> SUFFICES ASSUME NEW j \in 1 .. k PROVE vers[j] \notin accept
        OBVIOUS
      <4>1. j \in 1 .. i - 1 \/ j = i
        BY <2>1, <3>1
      <4>. QED  BY <1>7, <2>7, <4>1
    <3>3. ptr' = Move(Past(E[k] + IntLen(vers[k]), q), 0 - (q - p))
      BY <1>1, <2>7, <3>1
    <3>. QED  BY <2>7, <3>2, <3>3 DEF ListDone
  <2>. QED  BY <2>3, <2>4, <2>5, <2>6, <2>7 DEF EntryDone
<1>. QED  BY <1>3, <1>6, <1>7

(* Where a list that arrived is read from.                                  *)
LEMMA ListIs ==
  ASSUME TypeInv, WrittenInv, NEW w \in BoxesIn, Plain(w), Arrived(w), w.box.kind = "list"
  PROVE  LET vers == w.box.vers
             vs == w.box.items
         IN  ListHere(w.start, w.stop, Entries(vers, vs, w.start), vers, vs)
<1> DEFINE vs == w.box.items
           vers == w.box.vers
           p == w.start
           q == w.stop
           t == BoxBytes(w.box)
           k == Len(vs)
           E == Entries(vers, vs, p)
<1>1. /\ p \in Nat /\ q \in Nat /\ w.box \in Boxes /\ Holds(bytes, p, t) /\ q = p + Len(t)
      /\ q <= avail /\ bytes \in Seq(Nat) /\ avail \in Nat
  BY BoxIn DEF Arrived, TypeInv
<1>2. vs \in Seq(Value) /\ vs # <<>> /\ vers \in Seq(Nat) /\ Len(vers) = k
  BY <1>1, BoxOf
<1>3. k \in Nat /\ k # 0
  <2> HIDE DEF vs
  <2>. QED  BY <1>2, EmptySeq
<1>4. t = VersionListBytes(vers, vs)
  BY DEF BoxBytes
<1>5. \A i \in 1 .. k : /\ vs[i].n \in Nat /\ IntLen(vs[i].n) \in Nat
                        /\ IntLen(vs[i].n) <= MaxGroups
                        /\ vs[i] = [name |-> 0, n |-> vs[i].n]
                        /\ ValueBytes(vs[i]) = PlainBytes(vs[i].n)
                        /\ Len(ValueBytes(vs[i])) = 1 + IntLen(vs[i].n)
  BY <1>1, BoxNumbers DEF Plain
<1>6. \A i \in 1 .. k : vers[i] \in Nat /\ IntLen(vers[i]) <= MaxGroups
  BY <1>1, <1>2, BoxOf
<1>7. Len(t) \in Nat /\ \A i \in 0 .. Len(t) : IntLen(i) <= MaxGroups
  BY <1>1, BoxNumbers DEF Plain
<1> HIDE DEF vs, vers, p, q, t
<1>8. k <= Len(t) /\ ListAt(bytes, p, p + Len(t), vers, vs)
  BY <1>1, <1>2, <1>4, VersionListBytesOf
<1>9. IntLen(k) <= MaxGroups /\ IntLen(k) \in Nat
  BY <1>3, <1>7, <1>8, IntLenOf
<1>10. /\ bytes[p + 1] = serialize_version_list /\ Holds(bytes, p + 1, Digits[k])
       /\ \A i \in 1 .. k : /\ Holds(bytes, E[i], Digits[vers[i]])
                            /\ Holds(bytes, E[i] + IntLen(vers[i]), ValueBytes(vs[i]))
       /\ E[k + 1] = q
  BY <1>1, <1>8 DEF ListAt
<1>11. /\ EntryLens(vers, vs) \in Seq(Nat) /\ Len(EntryLens(vers, vs)) = k
       /\ E \in [1 .. k + 1 -> Nat] /\ E[1] = p + 1 + IntLen(k)
       /\ \A i \in 1 .. k : E[i + 1] = E[i] + IntLen(vers[i]) + Len(ValueBytes(vs[i]))
  BY <1>1, <1>2, EntriesOf
<1>12. \A i \in 1 .. k + 1 : E[1] <= E[i] /\ E[i] <= q
  <2> DEFINE L == EntryLens(vers, vs)
             a == p + 1 + IntLen(k)
  <2>1. L \in Seq(Nat) /\ Len(L) = k /\ a \in Nat /\ E = Starts(L, a)
    BY <1>1, <1>9, <1>11 DEF Entries
  <2> HIDE DEF L, a, E, k
  <2> SUFFICES ASSUME NEW i \in 1 .. k + 1 PROVE E[1] <= E[i] /\ E[i] <= q
    OBVIOUS
  <2>2. i \in 1 .. Len(L) + 1 /\ 1 \in 1 .. Len(L) + 1 /\ i \in 1 .. Len(L) + 1
        /\ k + 1 \in i .. Len(L) + 1
    BY <1>3, <2>1
  <2>3. Starts(L, a)[1] <= Starts(L, a)[i] /\ Starts(L, a)[i] <= Starts(L, a)[k + 1]
    BY <2>1, <2>2, StartsOrdered
  <2>. QED  BY <1>10, <2>1, <2>3
<1> HIDE DEF E, k
<1>13. HeadHere(p, "list", k)
  <2>1. Block(Byte(p)) = "list"
    BY <1>10, BlockOf DEF Byte
  <2>2. p + 1 + IntLen(k) < avail
    <3>1. /\ 1 \in 1 .. k /\ 1 \in 1 .. k + 1 /\ 1 + 1 \in 1 .. k + 1
      BY <1>3
    <3>2. E[1] \in Nat /\ E[1 + 1] \in Nat /\ E[1 + 1] <= q
      BY <1>11, <1>12, <3>1
    <3>3. E[1 + 1] = E[1] + IntLen(vers[1]) + (1 + IntLen(vs[1].n))
      BY <1>5, <1>11, <3>1
    <3>4. IntLen(vers[1]) \in Nat /\ IntLen(vs[1].n) \in Nat
      BY <1>5, <1>6, <3>1, IntLenOf
    <3>. QED  BY <1>1, <1>11, <3>2, <3>3, <3>4, SMTT(30)
  <2>. QED  BY <1>1, <1>3, <1>9, <1>10, <2>1, <2>2 DEF HeadHere
<1>14. ASSUME NEW i \in 1 .. k PROVE EntryHere(E[i], E[i + 1], vers[i], vs[i]) /\ p < E[i]
  <2> DEFINE a == E[i]
             z == E[i + 1]
             m == vers[i]
             v == vs[i]
  <2>1. i \in 1 .. k + 1 /\ i + 1 \in 1 .. k + 1 /\ 1 \in 1 .. k + 1
    BY <1>3
  <2>2. a \in Nat /\ z \in Nat /\ z <= q /\ E[1] <= a /\ z = a + IntLen(m) + (1 + IntLen(v.n))
    BY <1>5, <1>11, <1>12, <2>1
  <2>3. /\ m \in Nat /\ IntLen(m) <= MaxGroups /\ Holds(bytes, a, Digits[m])
        /\ v.n \in Nat /\ v = [name |-> 0, n |-> v.n] /\ IntLen(v.n) <= MaxGroups
        /\ Holds(bytes, a + IntLen(m), PlainBytes(v.n)) /\ IntLen(m) \in Nat /\ IntLen(v.n) \in Nat
    BY <1>5, <1>6, <1>10, IntLenOf
  <2> HIDE DEF a, z, m, v
  <2>4. z = a + IntLen(m) + 1 + IntLen(v.n) /\ z <= avail
    BY <1>1, <2>2, <2>3
  <2>5. p < a
    BY <1>1, <1>9, <1>11, <2>2
  <2>6. EntryHere(a, z, m, v)
    BY <2>2, <2>3, <2>4 DEF EntryHere
  <2>. QED  BY <2>5, <2>6 DEF a, z, m, v
<1>15. ListHere(p, q, E, vers, vs)
  BY <1>1, <1>3, <1>10, <1>11, <1>13, <1>14 DEF ListHere, k
<1>. QED  BY <1>15 DEF p, q, E, vers, vs

(* A list is read in these steps.                                           *)
LEMMA ListStep ==
  ASSUME TypeInv, WrittenInv, Reader, NEW w \in BoxesIn, Plain(w), Asked(w),
         w.box.kind = "list", Reading(w)
  PROVE  Reading(w)' \/ (stack' = <<>> /\ Concluded(w)')
<1> DEFINE vs == w.box.items
           vers == w.box.vers
           p == w.start
           q == w.stop
           k == Len(vs)
           E == Entries(vers, vs, p)
<1>1. ListHere(p, q, E, vers, vs)
  BY ListIs DEF Asked
<1>2. Listed(p, vers, vs) /\ (Reading(w) <=> Listed(p, vers, vs))'
  BY DEF Reading
<1>3. p \in Nat /\ q \in Nat /\ w.box \in Boxes /\ begin = p /\ avail \in Nat
  BY BoxIn DEF Asked, TypeInv
<1>4. Len(vers) = k /\ k \in Nat /\ k # 0
  BY <1>1, <1>3, BoxOf DEF ListHere, HeadHere
<1>5. E[k + 1] = q /\ q <= avail
      /\ \A i \in 1 .. k : EntryHere(E[i], E[i + 1], vers[i], vs[i]) /\ p < E[i]
  BY <1>1 DEF ListHere
<1>6. ASSUME NEW i \in 1 .. k
      PROVE  /\ E[i] + IntLen(vers[i]) \in Nat /\ E[i + 1] \in Nat
             /\ E[i] + IntLen(vers[i]) < E[i + 1] /\ p < E[i + 1]
  <2> DEFINE a == E[i]
             z == E[i + 1]
             m == vers[i]
             v == vs[i]
  <2>1. EntryHere(a, z, m, v) /\ p < a
    BY <1>5
  <2> HIDE DEF a, z, m, v
  <2>2. a \in Nat /\ m \in Nat /\ v.n \in Nat /\ z = a + IntLen(m) + 1 + IntLen(v.n)
    BY <2>1 DEF EntryHere
  <2>3. IntLen(m) \in Nat /\ IntLen(v.n) \in Nat
    BY <2>2, IntLenOf
  <2>4. a + IntLen(m) \in Nat /\ z \in Nat /\ a + IntLen(m) < z /\ p < z
    BY <1>3, <2>1, <2>2, <2>3, SMTT(30)
  <2>. QED  BY <2>4 DEF a, z, m, v
<1>7. Listed(p, vers, vs)' \/ ListDone(p, q, E, vers, vs)
  <2> DEFINE F == E
  <2>1. F = Entries(vers, vs, p) /\ ListHere(p, q, F, vers, vs)
    BY <1>1
  <2> HIDE DEF F, vs, vers, p, q
  <2>2. Listed(p, vers, vs)' \/ ListDone(p, q, F, vers, vs)
    BY <1>2, <2>1, ListedStep
  <2>. QED  BY <2>2 DEF F
<1>8. ASSUME NEW i \in 1 .. k, vers[i] \in accept, \A j \in 1 .. i - 1 : vers[j] \notin accept,
             ret' = E[i + 1] - p, out' = vs[i], ptr' = Past(E[i] + IntLen(vers[i]), E[i + 1])
      PROVE  Concluded(w)'
  <2>1. i \in 1 .. Len(w.box.vers)
    BY <1>4
  <2>2. Selects(w) /\ FirstAccepted(w) = i
    BY <1>8, <2>1, FirstOf
  <2>3. Selected(w) = vs[i]
    BY <2>2 DEF Selected, Versioned
  <2>4. ret' > 0 /\ p + ret' = E[i + 1]
    <3> DEFINE z == E[i + 1]
    <3>1. z \in Nat /\ p < z /\ ret' = z - p
      BY <1>6, <1>8
    <3> HIDE DEF z, p
    <3>2. ret' > 0 /\ p + ret' = z
      BY <1>3, <3>1
    <3>. QED  BY <3>2 DEF z
  <2>5. ASSUME Followed(w) PROVE ptr' = E[i + 1]
    <3>1. q < avail
      BY <2>5 DEF Followed
    <3>2. CASE i = k
      BY <1>5, <1>8, <3>1, <3>2 DEF Past
    <3>3. CASE i # k
      <4> DEFINE h == i + 1
      <4>1. h \in 1 .. k
        BY <1>4, <3>3
      <4>2. EntryHere(E[h], E[h + 1], vers[h], vs[h])
        BY <1>5, <4>1
      <4>3. E[h + 1] <= avail
        BY <4>2 DEF EntryHere
      <4>4. E[h] \in Nat /\ E[h + 1] \in Nat /\ E[h] < E[h + 1]
        <5>1. E[h] \in Nat
          BY <1>6
        <5>2. E[h + 1] \in Nat /\ E[h] + IntLen(vers[h]) < E[h + 1]
          BY <1>6, <4>1
        <5>3. IntLen(vers[h]) \in Nat
          <6>1. vers[h] \in Nat
            BY <4>2 DEF EntryHere
          <6>. QED  BY <6>1, IntLenOf
        <5> HIDE DEF h, E, vers, vs
        <5>. QED  BY <5>1, <5>2, <5>3
      <4>5. E[h] < avail
        <5> HIDE DEF h, E
        <5>. QED  BY <1>3, <4>3, <4>4
      <4>. QED  BY <1>8, <4>5 DEF Past
    <3>. QED  BY <3>2, <3>3
  <2>6. Exact(w) => E[i + 1] = q
    BY <1>5, <2>2 DEF Exact
  <2>. QED  BY <1>3, <1>8, <2>2, <2>3, <2>4, <2>5, <2>6, Returned
<1>9. ASSUME \A i \in 1 .. k : vers[i] \notin accept, ret' = 0 - 1, out' = NoValue,
             ptr' = Move(Past(E[k] + IntLen(vers[k]), q), 0 - (q - p))
      PROVE  Concluded(w)'
  <2>1. ~Selects(w)
    <3>1. \A j \in 1 .. Len(w.box.vers) : w.box.vers[j] \notin accept
      BY <1>4, <1>9
    <3>. QED  BY <3>1, NoneOf DEF Versioned
  <2>2. ASSUME Followed(w) PROVE ptr' = p
    <3>1. q < avail
      BY <2>2 DEF Followed
    <3>2. ptr' = Move(q, 0 - (q - p))
      BY <1>9, <3>1 DEF Past
    <3>3. p < q
      <4>1. k \in 1 .. k
        BY <1>4
      <4>. QED  BY <1>5, <1>6, <4>1
    <3> DEFINE d == q - p
    <3>4. d \in Nat /\ q = p + d /\ p < avail
      BY <1>3, <3>1, <3>3
    <3> HIDE DEF d, p, q
    <3>5. Move(q, 0 - d) = p
      BY <1>3, <3>4, MovedBack
    <3>. QED  BY <3>2, <3>5 DEF d
  <2>. QED  BY <1>3, <1>9, <2>1, <2>2, Refused
<1>. QED  BY <1>2, <1>7, <1>8, <1>9 DEF ListDone

(* An offset of a part table; the first one is kept.                        *)
LEMMA OffsetRead ==
  ASSUME TypeInv, Reader, NEW m, NumberHere(m), NEW l \in Nat, NEW n \in Nat, n >= 1, NEW x \in Int,
         stack = <<Fr("offset", l, n, x, 0)>>
  PROVE  LET b == IF n = 1 THEN "jump" ELSE "offset"
             y == IF x < 0 THEN m ELSE x
         IN  /\ stack' = <<Fr(b, l + IntLen(m), n - 1, y, 0)>>
             /\ ptr' = ptr + IntLen(m) /\ out' = out
<1> DEFINE b == IF n = 1 THEN "jump" ELSE "offset"
           y == IF x < 0 THEN m ELSE x
           g == Fr("offset", l, n, x, 0)
           f == Fr(b, l + IntLen(m), n - 1, y, 0)
<1>1. /\ m \in Nat /\ IntLen(m) \in Nat
      /\ Num.ok /\ Num.len = IntLen(m) /\ Num.val = m /\ Num.ptr = ptr + IntLen(m)
  BY NumberRead
<1>2. g \in Frame /\ f \in Frame
  <2>1. b \in {"jump", "offset"} /\ l + IntLen(m) \in Nat /\ n - 1 \in Nat /\ y \in Int /\ 0 \in Nat
    BY <1>1
  <2> HIDE DEF b, y
  <2>. QED  BY <2>1, FrIn
<1>3. Top = g /\ g.at = "offset" /\ g.len = l /\ g.n = n /\ g.first = x
  BY <1>2, Alone, FrFields
<1>4. Counted = l + IntLen(m)
  BY <1>1, <1>3 DEF Counted
<1>5. ReadOffset
  BY <1>1, <1>3, Dispatch
<1>6. Proceed(Offsetting(Top, b, n - 1, y)) /\ UNCHANGED out
  <2>1. /\ Proceed([Top EXCEPT !.at = IF Top.n = 1 THEN "jump" ELSE "offset",
                               !.n = Top.n - 1,
                               !.first = IF Top.first < 0 THEN Num.val ELSE Top.first])
        /\ UNCHANGED out
    BY <1>5 DEF ReadOffset
  <2>. QED  BY <1>1, <1>3, <2>1 DEF Offsetting
<1>7. Measured(Offsetting(Top, b, n - 1, y), Counted) = f
  <2> DEFINE c == n - 1
             a == l + IntLen(m)
  <2> HIDE DEF b, y, c, a, g, f
  <2>1. Offsetting(Fr("offset", l, n, x, 0), b, c, y) = Fr(b, l, c, y, 0)
    BY FrSet
  <2>2. Measured(Fr(b, l, c, y, 0), a) = Fr(b, a, c, y, 0)
    BY FrSet
  <2>3. Offsetting(Top, b, c, y) = Fr(b, l, c, y, 0) /\ Counted = a
    BY <1>3, <1>4, <2>1 DEF g, a
  <2>4. Measured(Offsetting(Top, b, c, y), Counted) = Fr(b, a, c, y, 0)
    BY <2>2, <2>3
  <2>. QED  BY <2>4 DEF f, c, a
<1> HIDE DEF f, g, b, y
<1>8. ptr' = Num.ptr /\ stack' = Front(stack) \o <<Measured(Offsetting(Top, b, n - 1, y), Counted)>>
  BY <1>6 DEF Proceed, Reach, Measured
<1>9. stack' = <<f>>
  <2>1. stack = <<g>>
    BY DEF g
  <2>. QED  BY <1>2, <1>7, <1>8, <2>1, Alone
<1>. QED  BY <1>1, <1>6, <1>8, <1>9 DEF f, b, y

(* The jump to the main part, and the way back.                             *)
LEMMA JumpRead ==
  ASSUME TypeInv, Reader, NEW f \in Nat, stack = <<Fr("jump", f, 0, f, 0)>>
  PROVE  /\ stack' = <<Fr("back", f, 0, f, ptr), Call>> /\ ptr' = f /\ out' = out
<1> DEFINE g == Fr("jump", f, 0, f, 0)
           h == Fr("back", f, 0, f, ptr)
<1>1. g \in Frame /\ h \in Frame
  <2>1. 0 \in Nat /\ f \in Int /\ ptr \in Nat
    BY DEF TypeInv
  <2>. QED  BY <2>1, FrIn
<1>2. Top = g /\ g.at = "jump" /\ g.first = f
  BY <1>1, Alone, FrFields
<1>3. Jump
  BY <1>2, Dispatch
<1>4. Leaving(g, "back", ptr) = h
  BY FrSet
<1> HIDE DEF g, h
<1>5. ptr' = f /\ out' = out /\ stack' = Front(stack) \o <<Leaving(g, "back", ptr), Call>>
  BY <1>2, <1>3 DEF Jump, Enter, Leaving
<1>6. stack = <<g>>
  BY DEF g
<1>7. stack' = <<h, Call>>
  BY <1>1, <1>4, <1>5, <1>6, Alone
<1>. QED  BY <1>5, <1>7 DEF h

(* The jump is over: the cursor is behind the table again.                  *)
LEMMA BackRead ==
  ASSUME TypeInv, Reader, NEW f \in Nat, stack = <<Fr("back", f, 0, f, f)>>
  PROVE  stack' = <<>> /\ ptr' = f /\ ret' = f /\ out' = out
<1> DEFINE g == Fr("back", f, 0, f, f)
<1>1. g \in Frame
  <2>1. 0 \in Nat /\ f \in Int
    OBVIOUS
  <2>. QED  BY <2>1, FrIn
<1>2. Top = g /\ g.at = "back" /\ g.len = f /\ g.save = f /\ Front(stack) = <<>>
  BY <1>1, Alone, FrFields
<1>3. Back
  BY <1>2, Dispatch
<1> HIDE DEF g
<1>. QED  BY <1>2, <1>3 DEF Back, Return

(* A part table that arrived: its offsets S are at O, and its main part, a
   value n whose bytes are m, is where the first of them says.               *)
TableHere(O, S, f, k, m, n) ==
  /\ f \in Nat /\ f > 0 /\ k \in Nat
  /\ HeadHere(0, "table", k)
  /\ O[1] = 1 + IntLen(k) /\ O[k + 1] = f /\ S[1] = f
  /\ \A i \in 1 .. k :
       /\ O[i] \in Nat /\ S[i] \in Nat /\ IntLen(S[i]) <= MaxGroups
       /\ Holds(bytes, O[i], Digits[S[i]])
       /\ O[i + 1] = O[i] + IntLen(S[i]) /\ O[i + 1] < avail
  /\ WrappedAt(f, "part", m, n)

(* What reading it ends with.                                               *)
TableDone(f, v) == stack' = <<>> /\ ptr' = f /\ ret' = f /\ out' = v

(* A part table is read head first, offset by offset, then at its main part.*)
LEMMA TabledStep ==
  ASSUME TypeInv, Reader, NEW S, NEW vs,
         TableHere(Offsets(vs), S, FirstPart(vs), Len(vs), Len(ValueBytes(vs[1])), vs[1].n),
         vs[1] = [name |-> 0, n |-> vs[1].n], Tabled(vs)
  PROVE  Tabled(vs)' \/ TableDone(FirstPart(vs), vs[1])
<1> DEFINE k == Len(vs)
           O == Offsets(vs)
           f == FirstPart(vs)
           v == vs[1]
           m == Len(ValueBytes(v))
           n == v.n
           J == Fr("back", f, 0, f, f)
           b == "part"
           In(i) == stack = <<OffsetCall(O[i], f, i, k - i + 1)>> /\ ptr = O[i] /\ out = NoValue
           Jumping == stack = <<Fr("jump", f, 0, f, 0)>> /\ ptr = f /\ out = NoValue
<1>1. /\ f \in Nat /\ f > 0 /\ k \in Nat /\ HeadHere(0, "table", k) /\ k # 0
      /\ O[1] = 1 + IntLen(k) /\ O[k + 1] = f /\ S[1] = f /\ IntLen(k) \in Nat
      /\ \A i \in 1 .. k :
           /\ O[i] \in Nat /\ S[i] \in Nat /\ IntLen(S[i]) <= MaxGroups
           /\ Holds(bytes, O[i], Digits[S[i]])
           /\ O[i + 1] = O[i] + IntLen(S[i]) /\ O[i + 1] < avail
      /\ WrappedAt(f, b, m, n)
  BY IntLenOf DEF TableHere, HeadHere
<1>2. v = [name |-> 0, n |-> n]
  OBVIOUS
<1>3. Tabled(vs) <=> \/ AtHead(0, "table") \/ \E i \in 1 .. k : In(i)
                     \/ Jumping \/ Wrapped(<<J>>, f, b, m, n) \/ (stack = <<J>> /\ out = v)
  BY DEF Tabled
<1>4. /\ AtHead(0, "table")' => Tabled(vs)'
      /\ \A i \in 1 .. k : In(i)' => Tabled(vs)'
      /\ Jumping' => Tabled(vs)'
      /\ Wrapped(<<J>>, f, b, m, n)' => Tabled(vs)'
      /\ stack' = <<J>> /\ out' = v => Tabled(vs)'
  BY DEF Tabled
<1>5. J \in Frame /\ <<J>> \in Seq(Frame) /\ <<J, Call>> = <<J>> \o <<Call>> /\ Call \in Frame
  <2>1. 0 \in Nat /\ f \in Int
    BY <1>1
  <2>2. J \in Frame
    BY <1>1, <2>1, FrIn
  <2> HIDE DEF J
  <2>. QED  BY <2>2, NoneBelow, CallIs, AboveCall
<1> HIDE DEF k, O, f, v, m, n, J, b
<1>6. CASE AtHead(0, "table")
  <2> DEFINE h == "table"
             p == 0
             c == IF h = "list" THEN "item" ELSE "offset"
  <2>1. c = "offset" /\ HeadHere(p, h, k) /\ AtHead(p, h)
    BY <1>1, <1>6
  <2> HIDE DEF h, p, c
  <2>2. \/ AtHead(p, h)'
        \/ /\ stack' = <<Fr(IF h = "list" THEN "item" ELSE "offset", 1 + IntLen(k), k, 0 - 1, 0)>>
           /\ ptr' = p + 1 + IntLen(k) /\ out' = NoValue
    BY <2>1, HeadStep
  <2>3. CASE AtHead(p, h)'
    BY <1>4, <2>3 DEF p, h
  <2>4. CASE /\ stack' = <<Fr(IF h = "list" THEN "item" ELSE "offset", 1 + IntLen(k), k, 0 - 1, 0)>>
             /\ ptr' = p + 1 + IntLen(k) /\ out' = NoValue
    <3>1. stack' = <<Fr("offset", 1 + IntLen(k), k, 0 - 1, 0)>>
      BY <2>1, <2>4 DEF c
    <3>2. 1 \in 1 .. k /\ k - 1 + 1 = k /\ ptr' = 1 + IntLen(k)
      BY <1>1, <2>4 DEF p
    <3>3. OffsetCall(O[1], f, 1, k - 1 + 1) = Fr("offset", 1 + IntLen(k), k, 0 - 1, 0)
      BY <1>1, <3>2 DEF OffsetCall
    <3>4. In(1)'
      BY <1>1, <2>4, <3>1, <3>2, <3>3
    <3>. QED  BY <1>4, <3>2, <3>4
  <2>. QED  BY <2>2, <2>3, <2>4
<1>7. ASSUME NEW i \in 1 .. k, In(i) PROVE Tabled(vs)'
  <2> DEFINE x == IF i = 1 THEN 0 - 1 ELSE f
             c == k - i + 1
             s == S[i]
             l == O[i]
             z == O[i + 1]
             d == IF c = 1 THEN "jump" ELSE "offset"
             y == IF x < 0 THEN s ELSE x
  <2>1. /\ i \in Nat /\ i >= 1 /\ i <= k /\ c \in Nat /\ c >= 1 /\ x \in Int /\ y = f
        /\ l \in Nat /\ s \in Nat /\ z = l + IntLen(s) /\ z < avail
        /\ IntLen(s) <= MaxGroups /\ Holds(bytes, l, Digits[s]) /\ ptr = l /\ out = NoValue
    BY <1>1, <1>7
  <2>2. stack = <<Fr("offset", l, c, x, 0)>>
    BY <1>7 DEF OffsetCall
  <2> HIDE DEF x, c, s, l, z
  <2>3. NumberHere(s)
    BY <2>1 DEF NumberHere
  <2>4. stack' = <<Fr(d, l + IntLen(s), c - 1, y, 0)>> /\ ptr' = ptr + IntLen(s) /\ out' = out
    BY <2>1, <2>2, <2>3, OffsetRead
  <2>5. stack' = <<Fr(d, z, c - 1, f, 0)>> /\ ptr' = z /\ out' = NoValue
    BY <2>1, <2>4
  <2>6. CASE i = k
    <3>1. c = 1 /\ c - 1 = 0 /\ z = f
      BY <1>1, <2>1, <2>6 DEF c, z
    <3>2. stack' = <<Fr("jump", f, 0, f, 0)>>
      BY <2>5, <3>1
    <3>3. Jumping'
      BY <2>5, <3>1, <3>2
    <3>. QED  BY <1>4, <3>3
  <2>7. CASE i # k
    <3> DEFINE h == i + 1
    <3>1. c # 1 /\ h \in 1 .. k /\ h # 1 /\ k - h + 1 = c - 1 /\ O[h] = z
      BY <1>1, <2>1, <2>7 DEF c, z
    <3>2. stack' = <<Fr("offset", z, c - 1, f, 0)>>
      BY <2>5, <3>1
    <3>3. OffsetCall(O[h], f, h, k - h + 1) = Fr("offset", z, c - 1, f, 0)
      BY <3>1 DEF OffsetCall
    <3> HIDE DEF h
    <3>4. In(h)'
      BY <2>5, <3>1, <3>2, <3>3
    <3>. QED  BY <1>4, <3>1, <3>4
  <2>. QED  BY <2>6, <2>7
<1>8. CASE Jumping
  <2>1. stack' = <<Fr("back", f, 0, f, ptr), Call>> /\ ptr' = f /\ out' = out
    BY <1>1, <1>8, JumpRead
  <2>2. stack' = <<J>> \o <<Call>> /\ ptr' = f /\ out' = NoValue
    BY <1>5, <1>8, <2>1 DEF J
  <2>3. Wrapped(<<J>>, f, b, m, n)'
    BY <2>2 DEF Wrapped
  <2>. QED  BY <1>4, <2>3
<1>9. CASE Wrapped(<<J>>, f, b, m, n)
  <2>1. Wrapped(<<J>>, f, b, m, n)' \/ WrappedDone(<<J>>, f, b, m, n)
    BY <1>1, <1>5, <1>9, WrappedStep
  <2>2. b # "version"
    BY DEF b
  <2>3. WrappedDone(<<J>>, f, b, m, n) => stack' = <<J>> /\ out' = v
    BY <1>2, <2>2 DEF WrappedDone
  <2>. QED  BY <1>4, <2>1, <2>3
<1>10. CASE stack = <<J>> /\ out = v
  <2>1. stack' = <<>> /\ ptr' = f /\ ret' = f /\ out' = out
    BY <1>1, <1>10, BackRead DEF J
  <2>2. TableDone(f, v)
    BY <1>10, <2>1 DEF TableDone
  <2>. QED  BY <2>2 DEF f, v
<1>. QED  BY <1>3, <1>6, <1>7, <1>8, <1>9, <1>10

(* Where a part table that arrived is read from.                            *)
LEMMA TableIs ==
  ASSUME TypeInv, WrittenInv, NEW w \in BoxesIn, Plain(w), Arrived(w), w.box.kind = "partitions"
  PROVE  LET vs == w.box.items
         IN  TableHere(Offsets(vs), Parts(vs), FirstPart(vs), Len(vs),
                       Len(ValueBytes(vs[1])), vs[1].n)
<1> DEFINE vs == w.box.items
           t == BoxBytes(w.box)
           k == Len(vs)
           O == Offsets(vs)
           S == Parts(vs)
           f == FirstPart(vs)
           v == vs[1]
           m == Len(ValueBytes(v))
           n == v.n
           pb == PartBytes(v)
<1>1. /\ w.start = 0 /\ w.box \in Boxes /\ Holds(bytes, 0, t) /\ Len(t) <= avail
      /\ bytes \in Seq(Nat) /\ avail \in Nat
  <2>1. /\ w.start = 0 /\ w.box \in Boxes /\ Holds(bytes, w.start, t) /\ w.stop = w.start + Len(t)
        /\ w.stop \in Nat /\ w.stop <= avail /\ bytes \in Seq(Nat) /\ avail \in Nat
    BY BoxIn DEF Arrived, TypeInv
  <2>2. Len(t) \in Nat
    BY <2>1, BoxNumbers DEF Plain
  <2> HIDE DEF t
  <2>3. Len(t) <= avail
    BY <2>1, <2>2
  <2>. QED  BY <2>1, <2>3
<1>2. vs \in Seq(Value) /\ vs # <<>> /\ 1 \in 1 .. k /\ v \in Value
  BY <1>1, BoxOf
<1>3. k \in Nat /\ k # 0
  <2> HIDE DEF vs
  <2>. QED  BY <1>2, EmptySeq
<1>4. t = PartitionBytes(vs)
  BY DEF BoxBytes
<1>5. /\ n \in Nat /\ IntLen(n) \in Nat /\ IntLen(n) <= MaxGroups /\ v = [name |-> 0, n |-> n]
      /\ ValueBytes(v) = PlainBytes(n) /\ m = 1 + IntLen(n)
  BY <1>1, <1>2, BoxNumbers DEF Plain
<1>6. Len(t) \in Nat /\ \A i \in 0 .. Len(t) : IntLen(i) <= MaxGroups
  BY <1>1, BoxNumbers DEF Plain
<1> HIDE DEF vs, t
<1>7. /\ k <= Len(t) /\ f + Len(pb) <= Len(t)
      /\ \A i \in 1 .. k : S[i] <= Len(t)
      /\ TableAtStart(bytes, vs)
  BY <1>1, <1>2, <1>4, PartitionBytesOf
<1>8. /\ f \in Nat /\ S \in [1 .. k + 1 -> Nat] /\ S[1] = f
      /\ O \in [1 .. k + 1 -> Nat] /\ O[1] = 1 + IntLen(k)
      /\ \A i \in 1 .. k : O[i + 1] = O[i] + IntLen(S[i])
      /\ O[k + 1] = f
  BY <1>2, OffsetsOf
<1>9. /\ bytes[1] = serialize_part_table /\ Holds(bytes, 1, Digits[k])
      /\ \A i \in 1 .. k : Holds(bytes, O[i], Digits[S[i]])
      /\ Holds(bytes, f, pb)
  BY <1>7 DEF TableAtStart
<1>10. \A i \in 1 .. k + 1 : 1 <= i /\ O[i] <= f
  <2> DEFINE L == OffsetLens(PartLens(vs), f)
             a == 1 + IntLen(k)
  <2>1. L \in Seq(Nat) /\ Len(L) = k /\ a \in Nat /\ O = Starts(L, a)
    <3>1. O = Starts(L, a)
      BY DEF Offsets
    <3>2. L \in Seq(Nat) /\ Len(L) = k
      BY <1>2, OffsetsOf
    <3>3. a \in Nat
      BY <1>3, IntLenOf
    <3>. QED  BY <3>1, <3>2, <3>3
  <2> HIDE DEF L, a, O, k
  <2> SUFFICES ASSUME NEW i \in 1 .. k + 1 PROVE 1 <= i /\ O[i] <= f
    OBVIOUS
  <2>2. i \in 1 .. Len(L) + 1 /\ k + 1 \in i .. Len(L) + 1 /\ 1 <= i
    BY <1>3, <2>1
  <2>3. Starts(L, a)[i] <= Starts(L, a)[k + 1]
    BY <2>1, <2>2, StartsOrdered
  <2>. QED  BY <1>8, <2>1, <2>2, <2>3
<1>11. IntLen(k) <= MaxGroups /\ IntLen(k) \in Nat /\ f > 0
  <2>1. IntLen(k) <= MaxGroups /\ IntLen(k) \in Nat
    BY <1>3, <1>6, <1>7, IntLenOf
  <2>2. 1 \in 1 .. k + 1
    BY <1>3
  <2>3. O[1] <= f
    BY <1>10, <2>2
  <2> HIDE DEF O, f
  <2>. QED  BY <1>8, <2>1, <2>3
<1>12. pb = <<serialize_part>> \o Digits[m] \o PlainBytes(n)
  BY <1>5 DEF PartBytes
<1> HIDE DEF O, S, f, k, v, m, n, pb
<1>13. m \in Nat /\ Len(pb) \in Nat /\ Len(pb) = 1 + IntLen(m) + (1 + IntLen(n))
       /\ IntLen(m) \in Nat
  <2> DEFINE s == PlainBytes(n)
  <2>1. m \in Nat
    BY <1>5
  <2>2. s \in Seq(Nat) /\ Len(s) = 1 + IntLen(n) /\ IntLen(m) \in Nat /\ serialize_part \in Nat
    BY <1>5, <2>1, PlainBytesOf, IntLenOf, BlockOf
  <2> HIDE DEF s
  <2>3. Len(<<serialize_part>> \o Digits[m] \o s) = 1 + IntLen(m) + Len(s)
    BY <2>1, <2>2, Numbered
  <2>4. Len(pb) = 1 + IntLen(m) + Len(s)
    BY <1>12, <2>3 DEF s
  <2>. QED  BY <1>5, <2>1, <2>2, <2>4
<1>14. f + Len(pb) <= avail /\ f < avail
  BY <1>1, <1>6, <1>7, <1>8, <1>13, <1>5, SMTT(30)
<1>15. HeadHere(0, "table", k)
  <2>1. Block(Byte(0)) = "table"
    BY <1>9, BlockOf DEF Byte
  <2>2. 0 + 1 = 1 /\ 0 + 1 + IntLen(k) < avail
    <3>1. 1 \in 1 .. k + 1
      BY <1>3
    <3>2. O[1] <= f
      BY <1>10, <3>1
    <3>. QED  BY <1>1, <1>8, <1>11, <1>14, <3>2
  <2>. QED  BY <1>3, <1>9, <1>11, <2>1, <2>2 DEF HeadHere
<1>16. WrappedAt(f, "part", m, n)
  <2> DEFINE x == serialize_part
             b == "part"
  <2>1. IntLen(m) <= MaxGroups
    <3>1. m \in 0 .. Len(t)
      BY <1>5, <1>6, <1>7, <1>8, <1>13
    <3>. QED  BY <1>6, <3>1
  <2>2. x \in Nat /\ Block(x) = b /\ b \in {"version", "part"}
        /\ pb = <<x>> \o Digits[m] \o PlainBytes(n)
    BY <1>12, BlockOf
  <2> HIDE DEF x, b
  <2>3. WrappedBytes(f, x, b, m, n, pb)
    BY <1>5, <1>8, <1>9, <1>13, <1>14, <2>1, <2>2 DEF WrappedBytes
  <2>4. WrappedAt(f, b, m, n)
    BY <2>3, WrappedHere
  <2>. QED  BY <2>4 DEF b
<1>17. ASSUME NEW i \in 1 .. k
       PROVE  /\ O[i] \in Nat /\ S[i] \in Nat /\ IntLen(S[i]) <= MaxGroups
              /\ Holds(bytes, O[i], Digits[S[i]])
              /\ O[i + 1] = O[i] + IntLen(S[i]) /\ O[i + 1] < avail
  <2>1. i \in 1 .. k + 1 /\ i + 1 \in 1 .. k + 1
    BY <1>3
  <2>2. O[i] \in Nat /\ S[i] \in Nat /\ O[i + 1] \in Nat /\ O[i + 1] <= f
    BY <1>8, <1>10, <2>1
  <2>3. IntLen(S[i]) <= MaxGroups
    <3>1. S[i] <= Len(t)
      BY <1>7
    <3>2. S[i] \in 0 .. Len(t)
      BY <1>6, <2>2, <3>1
    <3>. QED  BY <1>6, <3>2
  <2>4. O[i + 1] < avail
    BY <1>1, <1>8, <1>14, <2>2
  <2>. QED  BY <1>8, <1>9, <2>2, <2>3, <2>4
<1>18. TableHere(O, S, f, k, m, n)
  BY <1>3, <1>8, <1>11, <1>15, <1>16, <1>17 DEF TableHere
<1>. QED  BY <1>18 DEF O, S, f, k, m, n, v, vs

(* A part table is read in these steps.                                     *)
LEMMA PartitionsStep ==
  ASSUME TypeInv, WrittenInv, Reader, NEW w \in BoxesIn, Plain(w), Asked(w),
         w.box.kind = "partitions", Reading(w)
  PROVE  Reading(w)' \/ (stack' = <<>> /\ Concluded(w)')
<1> DEFINE vs == w.box.items
           f == FirstPart(vs)
           v == vs[1]
<1>1. TableHere(Offsets(vs), Parts(vs), f, Len(vs), Len(ValueBytes(v)), v.n)
  BY TableIs DEF Asked
<1>2. Tabled(vs) /\ (Reading(w) <=> Tabled(vs))'
  BY DEF Reading
<1>3. w.box \in Boxes /\ w.start = 0 /\ begin = 0
  BY BoxIn DEF Asked
<1>4. v = [name |-> 0, n |-> v.n]
  <2>1. 1 \in 1 .. Len(vs)
    BY <1>3, BoxOf
  <2>. QED  BY <1>3, <2>1, BoxNumbers DEF Plain
<1>5. Tabled(vs)' \/ TableDone(f, v)
  BY <1>1, <1>2, <1>4, TabledStep
<1>6. ASSUME TableDone(f, v) PROVE stack' = <<>> /\ Concluded(w)'
  <2>1. stack' = <<>> /\ ptr' = f /\ ret' = f /\ out' = v
    BY <1>6 DEF TableDone
  <2>2. f \in Nat /\ f > 0
    BY <1>1 DEF TableHere
  <2>3. Selects(w) /\ Selected(w) = v /\ ~Exact(w)
    BY DEF Selects, Selected, Exact, Versioned
  <2> HIDE DEF f, v
  <2>4. ret' > 0 /\ ptr' = begin + ret'
    BY <1>3, <2>1, <2>2
  <2>. QED  BY <2>1, <2>3, <2>4, Returned
<1>. QED  BY <1>2, <1>5, <1>6

(* An id box of v that arrived at the start of the buffer, its table at T and
   its payload P bytes.                                                     *)
IdHere(T, P, v) ==
  /\ T \in Nat /\ P \in Nat /\ v.n \in Nat /\ v = [name |-> v.name, n |-> v.n]
  /\ P = 1 + IntLen(v.n) /\ T = 3 + IntLen(T) + IntLen(P) + P
  /\ IntLen(T) <= MaxGroups /\ IntLen(P) <= MaxGroups /\ IntLen(v.n) <= MaxGroups
  /\ Byte(0) = serialize_str_pool_table /\ Holds(bytes, 1, Digits[T])
  /\ Byte(1 + IntLen(T)) = serialize_name_idx
  /\ Holds(bytes, 2 + IntLen(T), Digits[0])
  /\ Holds(bytes, 3 + IntLen(T), Digits[P])
  /\ Holds(bytes, T - P, PlainBytes(v.n))
  /\ Byte(T) = serialize_str_trie_pool /\ Byte(T + 1) = v.name
  /\ T + 2 <= avail

(* Its header is passed, and the table found.                               *)
LEMMA HeaderRead ==
  ASSUME TypeInv, Reader, NEW T, NEW P, NEW v, IdHere(T, P, v), stack = <<Call>>, ptr = 0
  PROVE  stack' = <<Fresh("type", 0)>> /\ ptr' = 1 + IntLen(T) /\ pooled' = T
<1> DEFINE k == IntLen(T)
           q == 1 + k
           R == ReadInt(ptr + 1)
<1>1. /\ T \in Nat /\ P \in Nat /\ k \in Nat /\ k >= 1 /\ IntLen(P) \in Nat
      /\ T = 3 + k + IntLen(P) + P /\ k <= MaxGroups
      /\ Byte(0) = serialize_str_pool_table /\ Holds(bytes, 1, Digits[T])
      /\ Byte(q) = serialize_name_idx /\ T + 2 <= avail /\ avail \in Nat
  <2>1. T \in Nat /\ P \in Nat
    BY DEF IdHere
  <2>. QED  BY <2>1, IntLenOf DEF IdHere, TypeInv
<1>2. q \in Nat /\ 1 + k = q /\ q < avail /\ q \in 0 .. avail - 1 /\ 0 + (1 + k) = q
  <2> HIDE DEF k
  <2>. QED  BY <1>1
<1>3. R.ok /\ R.len = k /\ R.val = T
  <2> DEFINE p == ptr + 1
  <2>1. p = 1 /\ p \in Nat /\ p + k < avail /\ Holds(bytes, p, Digits[T])
    BY <1>1, <1>2
  <2> HIDE DEF p
  <2>2. ReadInt(p).ok /\ ReadInt(p).len = k /\ ReadInt(p).val = T
    BY <1>1, <2>1, ReadIntExact
  <2>. QED  BY <2>2 DEF p
<1>4. Header.ok /\ Header.len = 1 + k /\ Header.off = T
  <2>1. avail - ptr >= 2 /\ Byte(ptr) = serialize_str_pool_table
    BY <1>1
  <2>2. Header = [ok |-> R.ok, len |-> 1 + R.len, off |-> R.val]
    BY <2>1 DEF Header
  <2> HIDE DEF R
  <2>. QED  BY <1>3, <2>2
<1>5. Move(ptr, Header.len) = q
  BY <1>2, <1>4 DEF Move
<1>6. Deserialize(q, avail - q) = [len |-> 0 - 1, n |-> 0]
  <2>1. ~ avail - q < 1
    BY <1>1, <1>2
  <2>2. Byte(q) # serialize_positive_int
    BY <1>1 DEF serialize_positive_int, serialize_name_idx
  <2> HIDE DEF q
  <2>. QED  BY <2>1, <2>2 DEF Deserialize
<1>7. Top = Call /\ Front(stack) = <<>> /\ Call.at = "enter"
  BY Alone, CallIs, CallGood
<1>8. TryDeserialize
  BY <1>7, Dispatch
<1> HIDE DEF q, R
<1>9. pooled' = T /\ ptr' = q /\ Reach([Call EXCEPT !.at = "type"])
  <2> DEFINE d == Deserialize(q, avail - q)
  <2>1. d.len = 0 - 1
    BY <1>6
  <2>2. /\ pooled' = T
        /\ \/ d.len > 0
           \/ d.len = 0
           \/ d.len < 0 /\ ptr' = q /\ Reach([Top EXCEPT !.at = "type"])
    BY <1>4, <1>5, <1>8 DEF TryDeserialize
  <2> HIDE DEF d
  <2>. QED  BY <1>7, <2>1, <2>2
<1>10. [Call EXCEPT !.at = "type"] = Fresh("type", 0)
  BY DEF Call, Fresh, Fr
<1>11. stack' = <<Fresh("type", 0)>>
  <2> DEFINE g == Fresh("type", 0)
  <2>1. g \in Frame /\ Call \in Frame /\ stack' = Front(stack) \o <<g>>
    BY <1>9, <1>10, FreshIn, CallIs DEF Reach
  <2> HIDE DEF g
  <2>2. stack' = <<g>>
    BY <2>1, Alone
  <2>. QED  BY <2>2 DEF g
<1>. QED  BY <1>9, <1>11 DEF q

(* Where the parts of such a box are.                                       *)
LEMMA Spans ==
  ASSUME NEW T \in Nat, NEW P \in Nat, NEW k \in Nat, NEW c \in Nat, NEW l \in Nat,
         NEW a \in Nat, NEW N \in Nat, NEW r, P = 1 + l, T = 3 + k + c + P, T + 2 <= a,
         a \in 0 .. N, r = 2 + k
  PROVE  /\ 3 + k \in Nat /\ 3 + k + c < a /\ T - P \in Nat /\ 3 + k + c = T - P
         /\ r + 1 = 3 + k /\ 3 + k < a /\ (T - P) + P <= N /\ T - (T - P) = P
         /\ T >= T - P /\ a - (T - P) >= P /\ T >= 0 /\ T + 1 < a /\ P >= 1
OBVIOUS

(* Its payload is read as a value of the type the table names.              *)
LEMMA NamedRead ==
  ASSUME TypeInv, Reader, NEW T, NEW P, NEW v, IdHere(T, P, v),
         stack = <<Fresh("name", 1)>>, ptr = 2 + IntLen(T), pooled = T
  PROVE  stack' = <<>> /\ ret' > 0 /\ out' = v
<1> DEFINE k == IntLen(T)
           c == IntLen(P)
           q == 3 + k
           e == T - P
           B == ReadInt(q)
           D == Deserialize(e, P)
<1>1. /\ T \in Nat /\ P \in Nat /\ v.n \in Nat /\ v = [name |-> v.name, n |-> v.n]
      /\ k \in Nat /\ c \in Nat /\ IntLen(v.n) \in Nat
      /\ P = 1 + IntLen(v.n) /\ T = 3 + k + c + P
      /\ k <= MaxGroups /\ c <= MaxGroups /\ IntLen(v.n) <= MaxGroups
      /\ Holds(bytes, 2 + k, Digits[0]) /\ Holds(bytes, q, Digits[P])
      /\ Holds(bytes, e, PlainBytes(v.n))
      /\ Byte(T) = serialize_str_trie_pool /\ Byte(T + 1) = v.name
      /\ T + 2 <= avail /\ avail \in 0 .. Len(bytes) /\ bytes \in Seq(Nat) /\ avail \in Nat
      /\ Len(bytes) \in Nat
  <2>1. T \in Nat /\ P \in Nat /\ v.n \in Nat
    BY DEF IdHere
  <2>2. IntLen(T) \in Nat /\ IntLen(P) \in Nat /\ IntLen(v.n) \in Nat
    BY <2>1, IntLenOf
  <2>3. bytes \in Seq(Nat) /\ avail \in 0 .. Len(bytes)
    BY DEF TypeInv
  <2>. QED  BY <2>1, <2>2, <2>3 DEF IdHere
<1>2. IntLen(0) = 1 /\ IntLen(0) <= MaxGroups
  <2>1. Digits[0] = <<0>>
    <3>1. 0 \in Nat /\ 0 < Radix
      BY WireAssumption
    <3>. QED  BY <3>1, DigitsOf
  <2>2. MaxGroups >= 1
    BY WireAssumption
  <2>. QED  BY <2>1, <2>2 DEF IntLen
<1>3. /\ q \in Nat /\ q + c < avail /\ e \in Nat /\ q + c = e /\ ptr + 1 = q /\ q < avail
      /\ e + P <= Len(bytes) /\ T - e = P /\ T >= e /\ avail - e >= P /\ T >= 0 /\ T + 1 < avail
      /\ P >= 1
  <2> DEFINE l == IntLen(v.n)
             N == Len(bytes)
  <2>1. /\ T \in Nat /\ P \in Nat /\ k \in Nat /\ c \in Nat /\ l \in Nat
        /\ avail \in Nat /\ N \in Nat /\ avail \in 0 .. N
        /\ P = 1 + l /\ T = 3 + k + c + P /\ T + 2 <= avail /\ ptr = 2 + k
    BY <1>1
  <2>2. q = 3 + k /\ e = T - P
    OBVIOUS
  <2> HIDE DEF k, c, l, N, q, e
  <2>3. /\ 3 + k \in Nat /\ 3 + k + c < avail /\ T - P \in Nat /\ 3 + k + c = T - P
        /\ ptr + 1 = 3 + k /\ 3 + k < avail /\ (T - P) + P <= N /\ T - (T - P) = P
        /\ T >= T - P /\ avail - (T - P) >= P /\ T >= 0 /\ T + 1 < avail /\ P >= 1
    BY <2>1, Spans
  <2>4. /\ q \in Nat /\ q + c < avail /\ e \in Nat /\ q + c = e /\ ptr + 1 = q /\ q < avail
        /\ e + P <= N /\ T - e = P /\ T >= e /\ avail - e >= P
    BY <2>2, <2>3
  <2>. QED  BY <2>3, <2>4 DEF N
<1>4. Num.ok /\ Num.len = 1 /\ Num.val = 0 /\ Num.ptr = q
  <2> DEFINE m == 0
  <2>1. NumberHere(m) /\ IntLen(m) = 1
    BY <1>1, <1>2, <1>3 DEF NumberHere
  <2> HIDE DEF m
  <2>2. Num.ok /\ Num.len = 1 /\ Num.val = m /\ Num.ptr = ptr + 1
    BY <2>1, NumberRead
  <2>. QED  BY <1>3, <2>2 DEF m
<1>5. B.ok /\ B.len = c /\ B.val = P /\ B.ptr = e
  <2> HIDE DEF q, e
  <2>1. B.ok /\ B.len = c /\ B.val = P /\ B.ptr = q + c
    BY <1>1, <1>3, ReadIntExact
  <2>. QED  BY <1>3, <2>1
<1>6. D.len = P /\ D.n = v.n
  <2>1. e \in Nat /\ P \in Int /\ 1 + IntLen(v.n) <= P
    BY <1>1, <1>3
  <2>2. Deserialize(e, P) = [len |-> 1 + IntLen(v.n), n |-> v.n]
    <3> HIDE DEF e
    <3>. QED  BY <1>1, <1>3, <2>1, DeserializeExact
  <2>3. D = [len |-> 1 + IntLen(v.n), n |-> v.n]
    BY <2>2
  <2> HIDE DEF D
  <2>4. D.len = 1 + IntLen(v.n) /\ D.n = v.n
    BY <2>3
  <2>. QED  BY <1>1, <2>4
<1>7. Top = Fresh("name", 1) /\ Front(stack) = <<>> /\ Top.at = "name" /\ Top.len = 1
  <2>1. Fresh("name", 1) \in Frame
    BY FreshIn
  <2>2. Top = Fresh("name", 1) /\ Front(stack) = <<>>
    BY <2>1, Alone
  <2>. QED  BY <2>2, FreshSet
<1>8. ReadNamed
  BY <1>4, <1>7, Dispatch
<1>9. Counted = 2
  BY <1>4, <1>7 DEF Counted
<1>10. NameAt(Num.val) = v.name
  BY <1>1, <1>3, <1>4 DEF NameAt
<1> HIDE DEF q, e, k, c, B, D
<1>11. c \in Nat /\ P \in Nat /\ pooled = T
  BY <1>1
<1>12. out' = [name |-> NameAt(Num.val), n |-> D.n] /\ Return(2 + c + P)
  <2>1. ReadInt(Num.ptr) = B
    BY <1>4 DEF B
  <2>2. (IF pooled >= B.ptr /\ B.val > pooled - B.ptr THEN pooled - B.ptr ELSE B.val) = P
    <3>1. T >= e /\ T - e = P
      BY <1>3
    <3>. QED  BY <1>5, <1>11, <3>1
  <2>3. Deserialize(B.ptr, P) = D
    BY <1>5 DEF D
  <2>4. avail - B.ptr >= P /\ pooled >= 0 /\ D.len > 0
    <3>1. P \in Nat /\ P >= 1 /\ T >= 0 /\ avail - e >= P
      BY <1>3, <1>11
    <3>2. D.len > 0
      BY <1>6, <3>1
    <3>. QED  BY <1>5, <1>11, <3>1, <3>2
  <2>5. out' = [name |-> NameAt(Num.val), n |-> D.n] /\ Return(Counted + B.len + D.len)
    BY <1>5, <1>8, <2>1, <2>2, <2>3, <2>4 DEF ReadNamed
  <2>. QED  BY <1>5, <1>6, <1>9, <2>5
<1>13. out' = v
  BY <1>1, <1>6, <1>10, <1>12
<1>14. 2 + c + P > 0
  BY <1>11
<1>. QED  BY <1>7, <1>12, <1>13, <1>14 DEF Return

(* An id box at the start of the buffer.                                    *)
LEMMA IdIs ==
  ASSUME TypeInv, WrittenInv, NEW w \in BoxesIn, Arrived(w), IdFirst(w)
  PROVE  LET v == w.box.items[1]
         IN  IdHere(TableAt(v), PayloadLen(v), v)
<1> DEFINE v == w.box.items[1]
           t == BoxBytes(w.box)
           T == TableAt(v)
           P == PayloadLen(v)
<1>1. /\ w.start = 0 /\ w.box \in Boxes /\ w.box.kind = "plain" /\ v.name # 0
      /\ Holds(bytes, 0, t) /\ w.stop = 0 + Len(t)
      /\ w.stop \in Nat /\ w.stop <= avail /\ bytes \in Seq(Nat) /\ avail \in Nat
  BY BoxIn DEF Arrived, TypeInv, IdFirst
<1>2. v \in Value /\ IntLen(v.n) <= MaxGroups /\ IntLen(Len(t)) <= MaxGroups
  <2>1. 1 \in 1 .. Len(w.box.items)
    BY <1>1, BoxOf
  <2>. QED  BY <1>1, <2>1, BoxOf
<1>3. t = IdBoxBytes(v)
  <2>1. t = ValueBytes(v)
    BY <1>1 DEF BoxBytes
  <2>. QED  BY <1>1, <1>2, <2>1, ValueBytesOf
<1> HIDE DEF v, t
<1>4. v.n \in Nat /\ v = [name |-> v.name, n |-> v.n] /\ IntLen(v.n) \in Nat
  BY <1>2, Values, IntLenOf
<1>5. /\ T \in Nat /\ P \in Nat /\ IntLen(P) \in Nat /\ IntLen(T) \in Nat
      /\ T = 3 + IntLen(T) + IntLen(P) + P
  BY <1>2, IdBoxLens
<1>6. Len(t) = T + 2 /\ IdBoxAt(bytes, 0, v)
  BY <1>1, <1>2, <1>3, IdBoxBytesOf
<1>7. P = 1 + IntLen(v.n)
  BY DEF PayloadLen
<1>8. /\ bytes[0 + 1] = serialize_str_pool_table
      /\ Holds(bytes, 0 + 1, Digits[T])
      /\ bytes[0 + 1 + IntLen(T) + 1] = serialize_name_idx
      /\ Holds(bytes, 0 + 2 + IntLen(T), Digits[0])
      /\ Holds(bytes, 0 + 3 + IntLen(T), Digits[P])
      /\ Holds(bytes, 0 + T - P, PlainBytes(v.n))
      /\ bytes[0 + T + 1] = serialize_str_trie_pool
      /\ bytes[0 + T + 2] = v.name
  BY <1>6 DEF IdBoxAt
<1> HIDE DEF T, P
<1>9. /\ 0 + 1 = 1 /\ 0 + 1 + IntLen(T) + 1 = (1 + IntLen(T)) + 1
      /\ 0 + 2 + IntLen(T) = 2 + IntLen(T)
      /\ 0 + 3 + IntLen(T) = 3 + IntLen(T) /\ 0 + T - P = T - P /\ 0 + T + 1 = T + 1
      /\ 0 + T + 2 = (T + 1) + 1 /\ T + 2 <= avail
  <2>1. T + 2 <= avail
    BY <1>1, <1>5, <1>6
  <2>2. \A i, j \in Nat : /\ 0 + 1 = 1 /\ 0 + 1 + i + 1 = (1 + i) + 1 /\ 0 + 2 + i = 2 + i
                          /\ 0 + 3 + i = 3 + i /\ 0 + i - j = i - j /\ 0 + i + 1 = i + 1
                          /\ 0 + i + 2 = (i + 1) + 1
    OBVIOUS
  <2>. QED  BY <1>5, <2>1, <2>2
<1>10. IntLen(T) <= MaxGroups /\ IntLen(P) <= MaxGroups
  <2>1. T <= Len(t) /\ P <= Len(t) /\ Len(t) \in Nat
    BY <1>5, <1>6
  <2>2. IntLen(T) <= IntLen(Len(t)) /\ IntLen(P) <= IntLen(Len(t)) /\ IntLen(Len(t)) \in Nat
    BY <1>5, <2>1, IntLenMonotone, IntLenOf
  <2>3. MaxGroups \in Nat
    BY WireAssumption
  <2>. QED  BY <1>2, <1>5, <2>2, <2>3
<1>11. Byte(0) = serialize_str_pool_table /\ Byte(1 + IntLen(T)) = serialize_name_idx
       /\ Byte(T) = serialize_str_trie_pool /\ Byte(T + 1) = v.name
  BY <1>8, <1>9 DEF Byte
<1>12. IdHere(T, P, v)
  BY <1>2, <1>4, <1>5, <1>7, <1>8, <1>9, <1>10, <1>11 DEF IdHere
<1>. QED  BY <1>12 DEF T, P, v

(* It is read in three steps.                                               *)
LEMMA IdStep ==
  ASSUME TypeInv, WrittenInv, Reader, NEW w \in BoxesIn, IdFirst(w), Asked(w),
         Named(w.box.items[1])
  PROVE  Named(w.box.items[1])' \/ (stack' = <<>> /\ ret' > 0 /\ out' = w.box.items[1])
<1> DEFINE v == w.box.items[1]
           T == TableAt(v)
           P == PayloadLen(v)
<1>1. IdHere(T, P, v)
  BY IdIs DEF Asked
<1> HIDE DEF v, T, P
<1>2. CASE stack = <<Call>> /\ ptr = 0
  <2>1. stack' = <<Fresh("type", 0)>> /\ ptr' = 1 + IntLen(T) /\ pooled' = T
    BY <1>1, <1>2, HeaderRead
  <2>2. Named(v)'
    BY <2>1 DEF Named, T
  <2>. QED  BY <2>2 DEF v
<1>3. CASE stack = <<Fresh("type", 0)>> /\ ptr = 1 + IntLen(T) /\ pooled = T
  <2> DEFINE b == "name"
  <2>1. T \in Nat /\ P \in Nat /\ IntLen(T) \in Nat /\ IntLen(P) \in Nat
        /\ T = 3 + IntLen(T) + IntLen(P) + P /\ T + 2 <= avail
        /\ Byte(1 + IntLen(T)) = serialize_name_idx
    <3>1. T \in Nat /\ P \in Nat
      BY <1>1 DEF IdHere
    <3>. QED  BY <1>1, <3>1, IntLenOf DEF IdHere
  <2>2. ptr + 1 < avail /\ avail \in Nat /\ ptr + 1 = 2 + IntLen(T)
    <3>1. avail \in Nat
      BY DEF TypeInv
    <3>. QED  BY <1>3, <2>1, <3>1
  <2>3. b # "unknown" /\ Block(Byte(ptr)) = b
    BY <1>3, <2>1, BlockOf
  <2>4. <<>> \in Seq(Frame) /\ stack = <<>> \o <<Fresh("type", 0)>>
        /\ <<>> \o <<Fresh(b, 1)>> = <<Fresh(b, 1)>>
    <3>1. Fresh("type", 0) \in Frame /\ Fresh("name", 1) \in Frame
      BY FreshIn
    <3>. QED  BY <1>3, <3>1, NoneBelow
  <2>5. stack' = <<>> \o <<Fresh(b, 1)>> /\ ptr' = ptr + 1 /\ pooled' = pooled
    <3> DEFINE base == <<>>
    <3>1. base \in Seq(Frame) /\ stack = base \o <<Fresh("type", 0)>>
      BY <2>4
    <3>2. ptr + 1 < avail
      BY <2>2
    <3>3. b # "unknown" /\ Block(Byte(ptr)) = b
      BY <2>3
    <3> HIDE DEF b, base
    <3>4. stack' = base \o <<Fresh(b, 1)>> /\ ptr' = ptr + 1 /\ pooled' = pooled
      BY <3>1, <3>2, <3>3, TypeRead
    <3>. QED  BY <3>4 DEF base
  <2>6. stack' = <<Fresh("name", 1)>> /\ ptr' = 2 + IntLen(T) /\ pooled' = T
    BY <1>3, <2>2, <2>4, <2>5 DEF b
  <2>7. Named(v)'
    BY <2>6 DEF Named, T
  <2>. QED  BY <2>7 DEF v
<1>4. CASE stack = <<Fresh("name", 1)>> /\ ptr = 2 + IntLen(T) /\ pooled = T
  <2>1. stack' = <<>> /\ ret' > 0 /\ out' = v
    BY <1>1, <1>4, NamedRead
  <2>. QED  BY <2>1 DEF v
<1>5. Named(v)
  BY DEF v
<1>. QED  BY <1>2, <1>3, <1>4, <1>5 DEF Named, T

-----------------------------------------------------------------------------
(* Progress is kept.                                                        *)

Kinds == {"plain", "version", "list", "part", "partitions"}

(* A stack with a call on top is not empty.                                 *)
LEMMA TopsAre ==
  ASSUME NEW g, NEW f, NEW h, NEW base, base = <<>> \/ base = <<g>>
  PROVE  base \o <<f>> # <<>> /\ base \o <<f, h>> # <<>>
<1> DEFINE S == {g, f, h}
<1>1. base \in Seq(S)
  <2>1. <<>> \in Seq(S) /\ <<g>> \in Seq(S)
    OBVIOUS
  <2>. QED  BY <2>1
<1>2. <<f>> \in Seq(S) /\ <<f, h>> \in Seq(S) /\ Len(<<f>>) = 1 /\ Len(<<f, h>>) = 2
  OBVIOUS
<1> HIDE DEF S
<1>3. Len(base \o <<f>>) = Len(base) + 1 /\ Len(base \o <<f, h>>) = Len(base) + 2
      /\ Len(base) \in Nat
  BY <1>1, <1>2
<1>4. Len(<<>>) = 0
  OBVIOUS
<1>. QED  BY <1>3, <1>4

(* A value behind a tag and a number is read by a call.                     *)
LEMMA WrappedBusy ==
  ASSUME NEW g, NEW base, base = <<>> \/ base = <<g>>, NEW p, NEW b, NEW m, NEW n,
         Wrapped(base, p, b, m, n)
  PROVE  stack # <<>>
<1>1. \A f, h : base \o <<f>> # <<>> /\ base \o <<f, h>> # <<>>
  BY TopsAre
<1>2. \E f, h : stack = base \o <<f>> \/ stack = base \o <<f, h>>
  BY DEF Wrapped
<1>. QED  BY <1>1, <1>2

(* So is the head of a list or a table.                                     *)
LEMMA HeadBusy == \A p, b : AtHead(p, b) => stack # <<>>
BY DEF AtHead

(* While a box is read, the client's call has not returned.                 *)
LEMMA ReadingBusy ==
  ASSUME NEW w, w.box.kind \in Kinds
  PROVE  Reading(w) => stack # <<>>
<1> SUFFICES ASSUME Reading(w) PROVE stack # <<>>
  OBVIOUS
<1> DEFINE vs == w.box.items
           f == FirstPart(vs)
           J == Fr("back", f, 0, f, f)
           m == Len(ValueBytes(vs[1]))
           n == vs[1].n
<1>1. CASE w.box.kind = "plain"
  BY <1>1 DEF Reading
<1>2. CASE w.box.kind = "version"
  <2>1. Wrapped(<<>>, w.start, "version", w.box.vers[1], n)
    BY <1>2 DEF Reading
  <2>. QED  BY <2>1, WrappedBusy
<1>3. CASE w.box.kind = "part"
  <2>1. Wrapped(<<>>, w.start, "part", m, n)
    BY <1>3 DEF Reading
  <2>. QED  BY <2>1, WrappedBusy
<1>4. CASE w.box.kind = "list"
  <2>1. Listed(w.start, w.box.vers, vs)
    BY <1>4 DEF Reading
  <2>2. ASSUME NEW p, NEW a, NEW z, NEW x, NEW v, NEW i, InEntry(p, a, z, x, v, i)
        PROVE  stack # <<>>
    BY <2>2 DEF InEntry
  <2>3. AtHead(w.start, "list") => stack # <<>>
    BY HeadBusy
  <2> HIDE DEF vs
  <2>. QED  BY <2>1, <2>2, <2>3 DEF Listed
<1>5. CASE w.box.kind = "partitions"
  <2>1. Tabled(vs)
    BY <1>5 DEF Reading
  <2> HIDE DEF vs, m
  <2>2. Wrapped(<<J>>, f, "part", m, n) => stack # <<>>
    BY WrappedBusy
  <2>3. AtHead(0, "table") => stack # <<>>
    BY HeadBusy
  <2>4. \/ AtHead(0, "table")
        \/ \E c : stack = <<c>>
        \/ Wrapped(<<J>>, f, "part", m, n)
    BY <2>1 DEF Tabled, m
  <2>. QED  BY <2>2, <2>3, <2>4
<1>. QED  BY <1>1, <1>2, <1>3, <1>4, <1>5 DEF Kinds

(* So is an id box.                                                         *)
LEMMA NamedBusy ==
  ASSUME NEW v
  PROVE  Named(v) => stack # <<>>
BY DEF Named

AllBusy ==
  /\ \A w : w.box.kind \in Kinds /\ Reading(w) => stack # <<>>
  /\ \A v : Named(v) => stack # <<>>

(* All of this in one formula.                                              *)
LEMMA Busy == AllBusy
BY ReadingBusy, NamedBusy DEF AllBusy

(* A plain box, of any kind, is a step nearer to its end.                   *)
LEMMA PlainBoxStep ==
  ASSUME TypeInv, WrittenInv, Reader, NEW w \in BoxesIn, Plain(w), Asked(w), Reading(w)
  PROVE  Reading(w)' \/ (stack' = <<>> /\ Concluded(w)')
<1>1. w.box.kind \in Kinds
  BY BoxIn, BoxOf DEF Kinds
<1>. QED  BY <1>1, PlainStep, VersionStep, PartStep, ListStep, PartitionsStep DEF Kinds

(* A step of the reader keeps progress with a box.                          *)
LEMMA ReaderProgress ==
  ASSUME TypeInv, WrittenInv, Reader, NEW w \in BoxesIn, Asked(w), Progress(w)
  PROVE  Progress(w)'
<1> DEFINE v == w.box.items[1]
<1>1. stack # <<>>
  BY Dispatch
<1>2. w.box.kind \in Kinds
  BY BoxIn, BoxOf DEF Kinds
<1>3. AllBusy'
  BY Busy, PTL
<1>4. Reading(w)' => stack' # <<>>
  BY <1>2, <1>3 DEF AllBusy
<1>5. Named(v)' => stack' # <<>>
  BY <1>3 DEF AllBusy
<1>6. Plain(w) => Reading(w)' \/ (stack' = <<>> /\ Concluded(w)')
  BY <1>1, PlainBoxStep DEF Progress
<1>7. IdFirst(w) => Named(v)' \/ (stack' = <<>> /\ ret' > 0 /\ out' = v)
  BY <1>1, IdStep DEF Progress
<1>8. Plain(w)' = Plain(w) /\ IdFirst(w)' = IdFirst(w)
  BY DEF Plain, IdFirst
<1> HIDE DEF v
<1>9. stack' # <<>> => (Plain(w) => Reading(w)') /\ (IdFirst(w) => Named(v)')
  BY <1>6, <1>7
<1>10. stack' = <<>> => (Plain(w) => Concluded(w)') /\ (IdFirst(w) => ret' > 0 /\ out' = v)
  BY <1>4, <1>5, <1>6, <1>7
<1>. QED  BY <1>8, <1>9, <1>10 DEF Progress, v

(* A call that has just begun.                                              *)
LEMMA BeginProgress ==
  ASSUME TypeInv, WrittenInv, NEW vs, ReadBox(vs), NEW w \in BoxesIn, Asked(w)'
  PROVE  Progress(w)'
<1>1. stack' = <<Call>> /\ ptr' = w.start /\ out' = NoValue
  BY DEF ReadBox, Asked
<1>2. stack' = <<>> \o <<Call>>
  BY <1>1, NoneBelow, CallIs
<1>3. stack' # <<>>
  BY <1>1
<1>4. w.box.kind \in Kinds /\ (w.box.kind = "partitions" => w.start = 0)
  BY BoxIn, BoxOf DEF Kinds
<1>5. IdFirst(w) => w.start = 0
  BY DEF IdFirst
<1>6. Named(w.box.items[1])' \/ ~IdFirst(w)
  BY <1>1, <1>5 DEF Named
<1>7. Reading(w)'
  <2>1. CASE w.box.kind = "plain"
    BY <1>1, <2>1 DEF Reading
  <2>2. CASE w.box.kind = "version"
    <3>1. Wrapped(<<>>, w.start, "version", w.box.vers[1], w.box.items[1].n)'
      BY <1>1, <1>2 DEF Wrapped
    <3>. QED  BY <2>2, <3>1 DEF Reading
  <2>3. CASE w.box.kind = "part"
    <3>1. Wrapped(<<>>, w.start, "part", Len(ValueBytes(w.box.items[1])), w.box.items[1].n)'
      BY <1>1, <1>2 DEF Wrapped
    <3>. QED  BY <2>3, <3>1 DEF Reading
  <2>4. CASE w.box.kind = "list"
    <3>1. AtHead(w.start, "list")'
      BY <1>1 DEF AtHead
    <3>2. Listed(w.start, w.box.vers, w.box.items)'
      BY <3>1 DEF Listed
    <3>. QED  BY <2>4, <3>2 DEF Reading
  <2>5. CASE w.box.kind = "partitions"
    <3>1. AtHead(0, "table")'
      BY <1>1, <1>4, <2>5 DEF AtHead
    <3>2. Tabled(w.box.items)'
      BY <3>1 DEF Tabled
    <3>. QED  BY <2>5, <3>2 DEF Reading
  <2>. QED  BY <1>4, <2>1, <2>2, <2>3, <2>4, <2>5 DEF Kinds
<1>8. IdFirst(w)' = IdFirst(w)
  BY DEF IdFirst
<1>. QED  BY <1>3, <1>6, <1>7, <1>8 DEF Progress

(* Nothing happens.                                                         *)
LEMMA StillProgress ==
  ASSUME NEW w, Progress(w),
         UNCHANGED <<bytes, written, avail, ptr, pooled, stack, out, ret, begin, accept>>
  PROVE  Progress(w)'
<1>1. Reading(w)' = Reading(w)
  BY DEF Reading, Wrapped, Listed, AtHead, InEntry, EntryCall, Tabled, Past
<1>2. Named(w.box.items[1])' = Named(w.box.items[1])
  BY DEF Named
<1>3. Concluded(w)' = Concluded(w)
  BY DEF Concluded, Selects, Selected, Accepted, FirstAccepted, Versioned, Followed, Exact
<1>4. Plain(w)' = Plain(w) /\ IdFirst(w)' = IdFirst(w)
  BY DEF Plain, IdFirst
<1>. QED  BY <1>1, <1>2, <1>3, <1>4 DEF Progress

(* Every step keeps progress.                                               *)
LEMMA ProgressStep == IInv /\ [Next]_vars => ProgressInv'
<1> SUFFICES ASSUME IInv, [Next]_vars, NEW w \in BoxesIn', Asked(w)' PROVE Progress(w)'
  BY DEF ProgressInv
<1>1. TypeInv /\ WrittenInv /\ ProgressInv
  BY DEF IInv
<1>2. CASE Reader
  <2>1. UNCHANGED client
    BY <1>2, Dispatch
  <2>2. w \in BoxesIn /\ Asked(w)
    BY <2>1 DEF client, BoxesIn, Asked, Arrived
  <2>3. Progress(w)
    BY <1>1, <2>2 DEF ProgressInv
  <2>. QED  BY <1>1, <1>2, <2>2, <2>3, ReaderProgress
<1>3. CASE \E b \in Boxes : Write(b)
  <2>1. stack' = <<>> /\ ret' = NoRet
    BY <1>1, <1>3 DEF Write, WrittenInv
  <2>. QED  BY <2>1 DEF Progress
<1>4. CASE \E n \in 1 .. Len(bytes) : Receive(n)
  <2>1. stack' = <<>> /\ ret' = NoRet
    BY <1>4 DEF Receive
  <2>. QED  BY <2>1 DEF Progress
<1>5. ASSUME NEW vs, ReadBox(vs) PROVE Progress(w)'
  <2>1. w \in BoxesIn
    BY <1>5 DEF ReadBox, BoxesIn
  <2>. QED  BY <1>1, <1>5, <2>1, BeginProgress
<1>6. CASE UNCHANGED vars
  <2>1. UNCHANGED <<bytes, written, avail, ptr, pooled, stack, out, ret, begin, accept>>
    BY <1>6 DEF vars
  <2>2. w \in BoxesIn /\ Asked(w)
    BY <2>1 DEF BoxesIn, Asked, Arrived
  <2>3. Progress(w)
    BY <1>1, <2>2 DEF ProgressInv
  <2>. QED  BY <2>1, <2>3, StillProgress
<1>. QED  BY <1>2, <1>3, <1>4, <1>5, <1>6 DEF Next

(* At first there is no box.                                                *)
LEMMA FirstInv == Init => IInv
<1> SUFFICES ASSUME Init PROVE IInv
  OBVIOUS
<1>1. written = <<>> /\ bytes = <<>> /\ stack = <<>> /\ ret = NoRet
  BY DEF Init
<1>2. BoxesIn = {}
  BY <1>1 DEF BoxesIn
<1>3. WrittenInv
  <2>1. written \in Seq([start : Nat, stop : Nat, box : Boxes])
    BY <1>1
  <2>. QED  BY <1>1, <1>2, <2>1 DEF WrittenInv
<1>4. ProgressInv
  BY <1>2 DEF ProgressInv
<1>. QED  BY <1>3, <1>4, TypeInit DEF IInv

(* Every reachable state has the inductive invariant.                       *)
THEOREM Inductive == Spec => []IInv
<1>1. IInv /\ [Next]_vars => IInv'
  BY TypeStep, WrittenStep, ProgressStep DEF IInv
<1>. QED  BY <1>1, FirstInv, PTL DEF Spec

(* What the invariant says of a call that has returned.                     *)
LEMMA Ended ==
  ASSUME IInv, NEW w \in BoxesIn, Done(w), Arrived(w)
  PROVE  /\ Plain(w) => Concluded(w)
         /\ IdFirst(w) => ret > 0 /\ out = w.box.items[1]
BY DEF IInv, ProgressInv, Progress, Done, Asked

(* A box more bytes follow has arrived.                                     *)
LEMMA FollowedArrived ==
  ASSUME IInv, NEW w \in BoxesIn, Followed(w)
  PROVE  Arrived(w) /\ begin \in Nat
<1>1. w.stop \in Nat /\ avail \in Nat /\ begin \in Nat
  BY BoxIn DEF IInv, TypeInv
<1>. QED  BY <1>1 DEF Followed, Arrived

(* A box that arrived is read as the value written under the first version the
   client accepts, or as its main part; with none it is refused and the value
   stays null.                                                              *)
THEOREM ReadsSelected == Spec => []SelectedRead
<1>1. IInv => SelectedRead
  <2> SUFFICES ASSUME IInv, NEW w \in BoxesIn, Done(w), Arrived(w), Plain(w)
               PROVE  IF Selects(w) THEN ret > 0 /\ out = Selected(w)
                      ELSE ret = 0 - 1 /\ out = NoValue
    BY DEF SelectedRead
  <2>. QED  BY Ended DEF Concluded
<1>. QED  BY <1>1, Inductive, PTL

(* A successful call moves the cursor by what it returns, and to the end of a
   box that has nothing behind what was selected.                           *)
THEOREM MovesExactly == Spec => []CursorExact
<1>1. IInv => CursorExact
  <2> SUFFICES ASSUME IInv, NEW w \in BoxesIn, Done(w), Followed(w), Plain(w), ret > 0
               PROVE  ptr = begin + ret /\ (Exact(w) => ptr = w.stop)
    BY DEF CursorExact, Exact
  <2>1. Concluded(w)
    BY Ended, FollowedArrived
  <2>. QED  BY <2>1 DEF Concluded
<1>. QED  BY <1>1, Inductive, PTL

(* A refused box leaves the cursor where it was, after any number of skipped
   entries.                                                                 *)
THEOREM RefusedInPlace == Spec => []RefusalRestores
<1>1. IInv => RefusalRestores
  <2> SUFFICES ASSUME IInv, NEW w \in BoxesIn, Done(w), Followed(w), Plain(w), ret <= 0
               PROVE  ptr = begin
    BY DEF RefusalRestores
  <2>1. Concluded(w)
    BY Ended, FollowedArrived
  <2>2. ret \in Int
    BY DEF IInv, TypeInv
  <2>. QED  BY <2>1, <2>2 DEF Concluded
<1>. QED  BY <1>1, Inductive, PTL

(* A value of a custom type at the start of the buffer comes back as that
   type, whatever the lengths in front of it.                               *)
THEOREM TypedFirst == Spec => []FirstIdBoxTyped
<1>1. IInv => FirstIdBoxTyped
  <2> SUFFICES ASSUME IInv, NEW w \in BoxesIn, Done(w), Arrived(w), w.start = 0,
                      w.box.kind = "plain"
               PROVE  ret > 0 /\ out = w.box.items[1]
    BY DEF FirstIdBoxTyped
  <2>1. CASE w.box.items[1].name # 0
    BY <2>1, Ended DEF IdFirst
  <2>2. CASE w.box.items[1].name = 0
    <3>1. w.box \in Boxes
      BY BoxIn DEF IInv
    <3>2. w.box.items \in Seq(Value) /\ Len(w.box.items) = 1
      BY <3>1, BoxReaderAssumption
    <3>3. DOMAIN w.box.items = {1}
      <4> DEFINE s == w.box.items
      <4>1. s \in Seq(Value) /\ Len(s) = 1
        BY <3>2
      <4> HIDE DEF s
      <4>2. DOMAIN s = 1 .. 1
        BY <4>1
      <4>3. 1 .. 1 = {1}
        OBVIOUS
      <4>. QED  BY <4>2, <4>3 DEF s
    <3>4. Plain(w)
      BY <2>2, <3>3 DEF Plain
    <3>5. Selects(w) /\ Selected(w) = w.box.items[1]
      BY DEF Selects, Selected, Versioned
    <3>. QED  BY <3>4, <3>5, Ended DEF Concluded
  <2>. QED  BY <2>1, <2>2
<1>. QED  BY <1>1, Inductive, PTL
=============================================================================

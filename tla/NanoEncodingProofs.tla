------------------------- MODULE NanoEncodingProofs -------------------------
(***************************************************************************)
(* The conversions of NanoSwift, for bytes, characters and keys of any     *)
(* size: digits and numbers are inverse to each other, so an address gives *)
(* back its key, checkIfAddressIsValid accepts those alone, and the bytes  *)
(* that hashStateBlock hashes are those of the block that is published.    *)
(***************************************************************************)
EXTENDS NanoEncoding, WellFoundedInduction, SequenceTheorems, TLAPS

\* Induction up to n.
LEMMA UpTo ==
    ASSUME NEW n \in Nat, NEW T, 0 \in T, \A i \in 1 .. n : i - 1 \in T => i \in T
    PROVE  \A i \in 0 .. n : i \in T
<1> DEFINE gaps == (0 .. n) \ T
<1>1. SUFFICES ASSUME gaps # {} PROVE FALSE
  OBVIOUS
<1>2. gaps \subseteq Nat
  OBVIOUS
<1>3. PICK g \in gaps : \A x \in gaps : ~ (<<x, g>> \in OpToRel(<, Nat))
  <2>1. IsWellFoundedOn(OpToRel(<, Nat), Nat)
    BY NatLessThanWellFounded
  <2> QED BY <1>1, <1>2, <2>1, WFMin
<1>4. g \in 1 .. n
  OBVIOUS
<1>5. g - 1 \in 0 .. n /\ g - 1 \in Nat /\ g \in Nat /\ g - 1 < g
  BY <1>4
<1>6. g - 1 \notin gaps
  BY <1>3, <1>5 DEF OpToRel
<1> QED BY <1>4, <1>5, <1>6

\* What a step function leads to in n steps.
Runs(f, S, x, g, n) ==
    /\ f \in [0 .. n -> S] /\ f[0] = x
    /\ \A i \in 1 .. n : f[i] = g[<<f[i - 1], i>>]

\* A function that starts at x and takes n steps of g exists.
LEMMA Iterated ==
    ASSUME NEW S, NEW x \in S, NEW g \in [S \X Nat -> S], NEW n \in Nat
    PROVE  \E f : Runs(f, S, x, g, n)
<1> DEFINE T == {j \in 0 .. n : \E f : Runs(f, S, x, g, j)}
<1>1. 0 \in T
  <2> DEFINE f == [i \in 0 .. 0 |-> x]
  <2>1. Runs(f, S, x, g, 0)
    BY DEF Runs
  <2> HIDE DEF f
  <2>2. 0 \in 0 .. n
    OBVIOUS
  <2> QED BY <2>1, <2>2
<1>2. ASSUME NEW j \in 1 .. n, j - 1 \in T PROVE j \in T
  <2>0. PICK f : Runs(f, S, x, g, j - 1)
    BY <1>2
  <2>1. /\ f \in [0 .. j - 1 -> S] /\ f[0] = x
        /\ \A i \in 1 .. j - 1 : f[i] = g[<<f[i - 1], i>>]
    BY <2>0 DEF Runs
  <2> DEFINE y == g[<<f[j - 1], j>>]
             h == [i \in 0 .. j |-> IF i = j THEN y ELSE f[i]]
  <2>2. y \in S
    BY <2>1
  <2> HIDE DEF y
  <2>3. h \in [0 .. j -> S] /\ h[0] = x /\ h[j] = y /\ \A i \in 0 .. j - 1 : h[i] = f[i]
    BY <2>1, <2>2
  <2> HIDE DEF h
  <2>4. ASSUME NEW i \in 1 .. j PROVE h[i] = g[<<h[i - 1], i>>]
    <3>1. h[i - 1] = f[i - 1]
      BY <2>3
    <3>2. CASE i = j
      BY <2>3, <3>1, <3>2 DEF y
    <3>3. CASE i # j
      <4>1. i \in 1 .. j - 1 /\ i \in 0 .. j - 1
        BY <3>3
      <4>2. f[i] = g[<<f[i - 1], i>>]
        BY <2>1, <4>1
      <4> QED BY <2>3, <3>1, <4>1, <4>2
    <3> QED BY <3>2, <3>3
  <2>5. Runs(h, S, x, g, j)
    BY <2>3, <2>4 DEF Runs
  <2> QED BY <2>5
<1>3. n \in T
  <2> HIDE DEF T
  <2>1. \A i \in 0 .. n : i \in T
    BY <1>1, <1>2, UpTo
  <2> QED BY <2>1
<1> QED BY <1>3

----------------------------------------------------------------------------
(* The recursive functions of the model, step by step.                     *)

\* A power.
IsPower(p, base, n) == p = [i \in 0 .. n |-> IF i = 0 THEN 1 ELSE base * p[i - 1]]

\* A power is made by as many multiplications.
LEMMA PowerRuns ==
    ASSUME NEW base \in Nat, NEW n \in Nat
    PROVE  \E p \in [0 .. n -> Nat] : /\ IsPower(p, base, n) /\ Power(base, n) = p[n]
                                      /\ p[0] = 1 /\ \A i \in 1 .. n : p[i] = base * p[i - 1]
<1>1. Power(base, n) = (CHOOSE p : IsPower(p, base, n))[n]
  BY DEF Power, IsPower
<1>2. \E p : IsPower(p, base, n)
  <2> DEFINE g == [y \in Nat \X Nat |-> base * y[1]]
  <2>1. g \in [Nat \X Nat -> Nat]
    OBVIOUS
  <2>2. PICK f : Runs(f, Nat, 1, g, n)
    <3> HIDE DEF g
    <3>1. 1 \in Nat
      OBVIOUS
    <3> QED BY <2>1, <3>1, Iterated
  <2>3. f \in [0 .. n -> Nat] /\ f[0] = 1 /\ \A i \in 1 .. n : f[i] = base * f[i - 1]
    <3>1. f \in [0 .. n -> Nat] /\ f[0] = 1 /\ \A i \in 1 .. n : f[i] = g[<<f[i - 1], i>>]
      BY <2>2 DEF Runs
    <3>2. ASSUME NEW i \in 1 .. n PROVE f[i] = base * f[i - 1]
      <4>1. PICK a \in Nat : a = f[i - 1]
        BY <3>1
      <4>2. g[<<a, i>>] = base * a
        OBVIOUS
      <4> QED BY <3>1, <4>1, <4>2
    <3> QED BY <3>1, <3>2
  <2>4. \A i \in 0 .. n : f[i] = IF i = 0 THEN 1 ELSE base * f[i - 1]
    BY <2>3
  <2>5. IsPower(f, base, n)
    <3>1. f = [i \in 0 .. n |-> f[i]]
      BY <2>3
    <3> QED BY <2>4, <3>1 DEF IsPower
  <2> QED BY <2>5
<1>3. PICK p : IsPower(p, base, n) /\ Power(base, n) = p[n]
  BY <1>1, <1>2
<1> DEFINE step(i) == IF i = 0 THEN 1 ELSE base * p[i - 1]
<1>4. \A i \in 0 .. n : p[i] = step(i)
  <2>1. p = [i \in 0 .. n |-> step(i)]
    BY <1>3 DEF IsPower
  <2> HIDE DEF step
  <2> QED BY <2>1
<1>5. p[0] = 1 /\ \A i \in 1 .. n : p[i] = base * p[i - 1]
  <2>1. ASSUME NEW i \in 1 .. n PROVE p[i] = base * p[i - 1]
    <3>1. i \in 0 .. n /\ i # 0
      OBVIOUS
    <3> QED BY <1>4, <3>1
  <2>2. p[0] = 1
    BY <1>4
  <2> QED BY <2>1, <2>2
<1>6. \A i \in 0 .. n : p[i] \in Nat
  <2> DEFINE T == {i \in 0 .. n : p[i] \in Nat}
  <2>1. 0 \in T
    BY <1>5
  <2>2. \A i \in 1 .. n : i - 1 \in T => i \in T
    BY <1>5
  <2>3. \A i \in 0 .. n : i \in T
    <3> HIDE DEF T
    <3> QED BY <2>1, <2>2, UpTo
  <2> QED BY <2>3
<1>7. p \in [0 .. n -> Nat]
  <2>1. p = [i \in 0 .. n |-> step(i)]
    BY <1>3 DEF IsPower
  <2>2. p = [i \in 0 .. n |-> p[i]]
    <3> HIDE DEF step
    <3> QED BY <1>4, <2>1
  <2> QED BY <1>6, <2>2
<1> QED BY <1>3, <1>5, <1>7

\* Powers of two are what they should be.
LEMMA PowerStep ==
    ASSUME NEW base \in Nat
    PROVE  /\ Power(base, 0) = 1
           /\ \A n \in Nat : /\ Power(base, n) \in Nat
                             /\ Power(base, n + 1) = base * Power(base, n)
<1>1. Power(base, 0) = 1
  <2>1. 0 \in Nat
    OBVIOUS
  <2> QED BY <2>1, PowerRuns
<1>2. ASSUME NEW n \in Nat
      PROVE  Power(base, n) \in Nat /\ Power(base, n + 1) = base * Power(base, n)
  <2>0. n + 1 \in Nat
    OBVIOUS
  <2>1. PICK p \in [0 .. n -> Nat] :
            Power(base, n) = p[n] /\ p[0] = 1 /\ \A i \in 1 .. n : p[i] = base * p[i - 1]
    BY PowerRuns
  <2>2. PICK r \in [0 .. n + 1 -> Nat] :
            /\ Power(base, n + 1) = r[n + 1] /\ r[0] = 1
            /\ \A i \in 1 .. n + 1 : r[i] = base * r[i - 1]
    BY <2>0, PowerRuns
  <2> DEFINE T == {i \in 0 .. n : r[i] = p[i]}
  <2>3. 0 \in T
    BY <2>1, <2>2
  <2>4. \A i \in 1 .. n : i - 1 \in T => i \in T
    BY <2>1, <2>2
  <2>5. \A i \in 0 .. n : i \in T
    <3> HIDE DEF T
    <3> QED BY <2>3, <2>4, UpTo
  <2>6. r[n] = p[n]
    BY <2>5
  <2>7. r[n + 1] = base * r[(n + 1) - 1] /\ (n + 1) - 1 = n
    BY <2>2
  <2> QED BY <2>1, <2>2, <2>6, <2>7
<1> QED BY <1>1, <1>2

\* The number of the first i digits.
IsValue(v, d, base) == v = [i \in 0 .. Len(d) |-> IF i = 0 THEN 0 ELSE base * v[i - 1] + d[i]]

\* A number is made of its digits, one after the other.
LEMMA ValueRuns ==
    ASSUME NEW base \in Nat, NEW d \in Seq(Nat)
    PROVE  \E v \in [0 .. Len(d) -> Nat] :
              /\ Value(d, base) = v[Len(d)] /\ v[0] = 0
              /\ \A i \in 1 .. Len(d) : v[i] = base * v[i - 1] + d[i]
<1> DEFINE n == Len(d)
<1>0. n \in Nat /\ \A i \in 1 .. n : d[i] \in Nat
  OBVIOUS
<1>1. Value(d, base) = (CHOOSE v : IsValue(v, d, base))[Len(d)]
  BY DEF Value, IsValue
<1> HIDE DEF n
<1>2. \E v : IsValue(v, d, base)
  <2> DEFINE g == [y \in Nat \X Nat |-> base * y[1] + (IF y[2] \in 1 .. n THEN d[y[2]] ELSE 0)]
  <2>1. g \in [Nat \X Nat -> Nat]
    <3>1. ASSUME NEW y \in Nat \X Nat
          PROVE  base * y[1] + (IF y[2] \in 1 .. n THEN d[y[2]] ELSE 0) \in Nat
      <4>1. y[1] \in Nat /\ y[2] \in Nat
        OBVIOUS
      <4>2. (IF y[2] \in 1 .. n THEN d[y[2]] ELSE 0) \in Nat
        BY <1>0
      <4>3. base * y[1] \in Nat
        BY <4>1
      <4> QED BY <4>2, <4>3
    <3> QED BY <3>1
  <2>2. PICK f : Runs(f, Nat, 0, g, n)
    <3> HIDE DEF g
    <3>1. 0 \in Nat
      OBVIOUS
    <3> QED BY <1>0, <2>1, <3>1, Iterated
  <2>3. f \in [0 .. n -> Nat] /\ f[0] = 0 /\ \A i \in 1 .. n : f[i] = base * f[i - 1] + d[i]
    <3>1. f \in [0 .. n -> Nat] /\ f[0] = 0 /\ \A i \in 1 .. n : f[i] = g[<<f[i - 1], i>>]
      BY <2>2 DEF Runs
    <3>2. ASSUME NEW i \in 1 .. n PROVE f[i] = base * f[i - 1] + d[i]
      <4>1. PICK a \in Nat : a = f[i - 1]
        BY <1>0, <3>1
      <4>2. g[<<a, i>>] = base * a + d[i]
        BY <1>0
      <4> QED BY <3>1, <4>1, <4>2
    <3> QED BY <3>1, <3>2
  <2>4. \A i \in 0 .. n : f[i] = IF i = 0 THEN 0 ELSE base * f[i - 1] + d[i]
    BY <1>0, <2>3
  <2>5. IsValue(f, d, base)
    <3>1. f = [i \in 0 .. n |-> f[i]]
      BY <2>3
    <3> QED BY <2>4, <3>1 DEF IsValue, n
  <2> QED BY <2>5
<1>3. PICK v : IsValue(v, d, base) /\ Value(d, base) = v[n]
  BY <1>1, <1>2 DEF n
<1> DEFINE step(i) == IF i = 0 THEN 0 ELSE base * v[i - 1] + d[i]
<1>4. v = [i \in 0 .. n |-> step(i)]
  BY <1>3 DEF IsValue, n
<1>5. \A i \in 0 .. n : v[i] = step(i)
  <2> HIDE DEF step
  <2> QED BY <1>4
<1>6. v[0] = 0 /\ \A i \in 1 .. n : v[i] = base * v[i - 1] + d[i]
  <2>1. ASSUME NEW i \in 1 .. n PROVE v[i] = base * v[i - 1] + d[i]
    <3>1. i \in 0 .. n /\ i # 0
      BY <1>0
    <3> QED BY <1>5, <3>1
  <2>2. v[0] = 0
    BY <1>0, <1>5
  <2> QED BY <2>1, <2>2
<1>7. \A i \in 0 .. n : v[i] \in Nat
  <2> DEFINE T == {i \in 0 .. n : v[i] \in Nat}
  <2>1. 0 \in T
    BY <1>0, <1>6
  <2>2. ASSUME NEW i \in 1 .. n, i - 1 \in T PROVE i \in T
    <3>1. PICK a \in Nat : a = v[i - 1]
      BY <2>2
    <3>2. base * a \in Nat /\ d[i] \in Nat
      BY <1>0
    <3>3. v[i] = base * a + d[i]
      BY <1>6, <3>1
    <3>4. v[i] \in Nat
      BY <3>2, <3>3
    <3> QED BY <1>0, <3>4
  <2>3. \A i \in 0 .. n : i \in T
    <3> HIDE DEF T
    <3> QED BY <1>0, <2>1, <2>2, UpTo
  <2> QED BY <2>3
<1>8. v \in [0 .. n -> Nat]
  <2>1. v = [i \in 0 .. n |-> v[i]]
    <3> HIDE DEF step
    <3> QED BY <1>4, <1>5
  <2> QED BY <1>7, <2>1
<1> QED BY <1>3, <1>6, <1>8 DEF n

\* What is left of a number after i digits.
IsQuotient(q, n, base, width) ==
    q = [i \in 0 .. width |-> IF i = 0 THEN n ELSE q[i - 1] \div base]

Quotients(q, n, base, width) ==
    /\ q \in [0 .. width -> Nat]
    /\ Numeral(n, base, width) = [i \in 1 .. width |-> q[width - i] % base]
    /\ q[0] = n /\ \A i \in 1 .. width : q[i] = q[i - 1] \div base

\* The digits of a number are remainders of its quotients.
LEMMA NumeralRuns ==
    ASSUME NEW base \in Nat \ {0}, NEW n \in Nat, NEW width \in Nat
    PROVE  \E q : Quotients(q, n, base, width)
<1>1. Numeral(n, base, width)
        = [i \in 1 .. width |-> (CHOOSE q : IsQuotient(q, n, base, width))[width - i] % base]
  BY DEF Numeral, IsQuotient
<1>2. \E q : IsQuotient(q, n, base, width)
  <2> DEFINE g == [y \in Nat \X Nat |-> y[1] \div base]
  <2>1. g \in [Nat \X Nat -> Nat]
    OBVIOUS
  <2>2. PICK f : Runs(f, Nat, n, g, width)
    <3> HIDE DEF g
    <3> QED BY <2>1, Iterated
  <2>3. f \in [0 .. width -> Nat] /\ f[0] = n /\ \A i \in 1 .. width : f[i] = f[i - 1] \div base
    <3>1. f \in [0 .. width -> Nat] /\ f[0] = n /\ \A i \in 1 .. width : f[i] = g[<<f[i - 1], i>>]
      BY <2>2 DEF Runs
    <3>2. ASSUME NEW i \in 1 .. width PROVE f[i] = f[i - 1] \div base
      <4>1. PICK a \in Nat : a = f[i - 1]
        BY <3>1
      <4>2. g[<<a, i>>] = a \div base
        OBVIOUS
      <4> QED BY <3>1, <4>1, <4>2
    <3> QED BY <3>1, <3>2
  <2>4. \A i \in 0 .. width : f[i] = IF i = 0 THEN n ELSE f[i - 1] \div base
    BY <2>3
  <2>5. IsQuotient(f, n, base, width)
    <3>1. f = [i \in 0 .. width |-> f[i]]
      BY <2>3
    <3> QED BY <2>4, <3>1 DEF IsQuotient
  <2> QED BY <2>5
<1>3. PICK q : /\ IsQuotient(q, n, base, width)
               /\ Numeral(n, base, width) = [i \in 1 .. width |-> q[width - i] % base]
  BY <1>1, <1>2
<1> DEFINE step(i) == IF i = 0 THEN n ELSE q[i - 1] \div base
<1>4. q = [i \in 0 .. width |-> step(i)]
  BY <1>3 DEF IsQuotient
<1>5. \A i \in 0 .. width : q[i] = step(i)
  <2> HIDE DEF step
  <2> QED BY <1>4
<1>6. q[0] = n /\ \A i \in 1 .. width : q[i] = q[i - 1] \div base
  <2>1. ASSUME NEW i \in 1 .. width PROVE q[i] = q[i - 1] \div base
    <3>1. i \in 0 .. width /\ i # 0
      OBVIOUS
    <3> QED BY <1>5, <3>1
  <2>2. q[0] = n
    BY <1>5
  <2> QED BY <2>1, <2>2
<1>7. \A i \in 0 .. width : q[i] \in Nat
  <2> DEFINE T == {i \in 0 .. width : q[i] \in Nat}
  <2>1. 0 \in T
    BY <1>6
  <2>2. \A i \in 1 .. width : i - 1 \in T => i \in T
    BY <1>6
  <2>3. \A i \in 0 .. width : i \in T
    <3> HIDE DEF T
    <3> QED BY <2>1, <2>2, UpTo
  <2> QED BY <2>3
<1>8. q \in [0 .. width -> Nat]
  <2>1. q = [i \in 0 .. width |-> q[i]]
    <3> HIDE DEF step
    <3> QED BY <1>4, <1>5
  <2> QED BY <1>7, <2>1
<1> QED BY <1>3, <1>6, <1>8 DEF Quotients

----------------------------------------------------------------------------
(* Digits and numbers are inverse to each other.                           *)

\* Multiples are ordered as their factors.
LEMMA Multiples ==
    ASSUME NEW b \in Nat, NEW x \in Nat, NEW m \in Nat, x < m
    PROVE  b * x + b <= b * m /\ b * x \in Nat /\ b * m \in Nat
<1>1. PICK k \in Nat : m = x + 1 + k
  <2>1. m - x - 1 \in Nat /\ m = x + 1 + (m - x - 1)
    OBVIOUS
  <2> QED BY <2>1
<1>2. b * k \in Nat /\ b * m = b * x + b + b * k /\ b * x \in Nat
  BY <1>1
<1> QED BY <1>2

\* A number and its last digit.
LEMMA LastDigit ==
    ASSUME NEW b \in Nat \ {0}, NEW n \in Nat
    PROVE  n \div b \in Nat /\ n % b \in 0 .. b - 1 /\ n = b * (n \div b) + (n % b)
<1>1. b \in Nat /\ b > 0
  OBVIOUS
<1>2. n = b * (n \div b) + (n % b) /\ n % b \in 0 .. b - 1 /\ n \div b \in Nat
  BY <1>1
<1> QED BY <1>2

\* A quotient is as small as its number.
LEMMA QuotientBound ==
    ASSUME NEW b \in Nat \ {0}, NEW x \in Nat, NEW m \in Nat, x < b * m
    PROVE  x \div b \in Nat /\ x \div b < m
<1>1. PICK y \in Nat, r \in 0 .. b - 1 : y = x \div b /\ x = b * y + r
  BY LastDigit
<1>2. ASSUME ~ (y < m) PROVE FALSE
  <2>1. CASE y = m
    <3>1. b * y \in Nat /\ b * y = b * m
      BY <2>1
    <3> QED BY <1>1, <3>1
  <2>2. CASE m < y
    <3>1. b * m + b <= b * y /\ b * y \in Nat /\ b * m \in Nat
      BY <2>2, Multiples
    <3>2. PICK z \in Nat, u \in Nat : z = b * y /\ u = b * m
      BY <3>1
    <3>3. x = z + r /\ x < u /\ u + b <= z
      BY <1>1, <3>1, <3>2
    <3> QED BY <3>3
  <2> QED BY <1>2, <2>1, <2>2
<1> QED BY <1>1, <1>2

\* Division takes off the digit that was added.
LEMMA DigitAdded ==
    ASSUME NEW b \in Nat \ {0}, NEW x \in Nat, NEW r \in 0 .. b - 1
    PROVE  (b * x + r) \div b = x /\ (b * x + r) % b = r
<1>1. PICK n \in Nat : n = b * x + r
  <2>1. b * x \in Nat
    OBVIOUS
  <2> QED BY <2>1
<1>2. PICK y \in Nat, s \in 0 .. b - 1 : n \div b = y /\ n % b = s /\ n = b * y + s
  BY LastDigit
<1>3. ~ (x < y)
  <2>1. ASSUME x < y PROVE FALSE
    <3>1. b * x + b <= b * y /\ b * x \in Nat /\ b * y \in Nat
      BY <2>1, Multiples
    <3> QED BY <1>1, <1>2, <3>1
  <2> QED BY <2>1
<1>4. ~ (y < x)
  <2>1. ASSUME y < x PROVE FALSE
    <3>1. b * y + b <= b * x /\ b * x \in Nat /\ b * y \in Nat
      BY <2>1, Multiples
    <3> QED BY <1>1, <1>2, <3>1
  <2> QED BY <2>1
<1>5. x = y
  BY <1>3, <1>4
<1>6. b * x \in Nat /\ b * x = b * y
  BY <1>5
<1>7. r = s
  BY <1>1, <1>2, <1>6
<1> QED BY <1>1, <1>2, <1>5, <1>7

\* The digits of a base.
Digital(d, base, width) == d \in Seq(Nat) /\ Len(d) = width /\ \A i \in 1 .. width : d[i] < base

\* The digits of a number are digits.
LEMMA NumeralDigital ==
    ASSUME NEW b \in Nat \ {0}, NEW n \in Nat, NEW width \in Nat
    PROVE  Digital(Numeral(n, b, width), b, width)
<1>0. PICK q : Quotients(q, n, b, width)
  BY NumeralRuns
<1>1. q \in [0 .. width -> Nat] /\ Numeral(n, b, width) = [i \in 1 .. width |-> q[width - i] % b]
  BY <1>0 DEF Quotients
<1>2. ASSUME NEW i \in 1 .. width PROVE q[width - i] % b \in Nat /\ q[width - i] % b < b
  <2>1. PICK a \in Nat : a = q[width - i]
    <3>1. width - i \in 0 .. width
      OBVIOUS
    <3> QED BY <1>1, <3>1
  <2>2. a % b \in 0 .. b - 1
    BY LastDigit
  <2> QED BY <2>1, <2>2
<1> QED BY <1>1, <1>2 DEF Digital

\* Writing the number of digits gives the digits.
LEMMA NumeralValue ==
    ASSUME NEW b \in Nat \ {0}, NEW width \in Nat, NEW d, Digital(d, b, width)
    PROVE  Value(d, b) \in Nat /\ Numeral(Value(d, b), b, width) = d
<1>0. d \in Seq(Nat) /\ Len(d) = width /\ \A i \in 1 .. width : d[i] \in 0 .. b - 1
  <2>1. \A i \in 1 .. width : d[i] \in Nat /\ d[i] < b
    BY DEF Digital
  <2> QED BY <2>1 DEF Digital
<1>1. PICK v \in [0 .. width -> Nat] :
          Value(d, b) = v[width] /\ \A i \in 1 .. width : v[i] = b * v[i - 1] + d[i]
  BY <1>0, ValueRuns
<1>2. Value(d, b) \in Nat
  BY <1>1
<1>3. PICK q : Quotients(q, Value(d, b), b, width)
  BY <1>2, NumeralRuns
<1>q. /\ q \in [0 .. width -> Nat]
      /\ Numeral(Value(d, b), b, width) = [i \in 1 .. width |-> q[width - i] % b]
      /\ q[0] = v[width] /\ \A i \in 1 .. width : q[i] = q[i - 1] \div b
  BY <1>1, <1>3 DEF Quotients
<1>4. ASSUME NEW i \in 1 .. width PROVE v[i] \div b = v[i - 1] /\ v[i] % b = d[i]
  <2>1. PICK x \in Nat : x = v[i - 1]
    OBVIOUS
  <2>2. PICK r \in 0 .. b - 1 : r = d[i]
    BY <1>0
  <2>3. v[i] = b * x + r
    BY <1>1, <2>1, <2>2
  <2>4. (b * x + r) \div b = x /\ (b * x + r) % b = r
    BY DigitAdded
  <2> QED BY <2>1, <2>2, <2>3, <2>4
<1>5. \A k \in 0 .. width : q[k] = v[width - k]
  <2> DEFINE T == {k \in 0 .. width : q[k] = v[width - k]}
  <2>1. 0 \in T
    BY <1>q
  <2>2. ASSUME NEW k \in 1 .. width, k - 1 \in T PROVE k \in T
    <3>1. width - (k - 1) \in 1 .. width /\ (width - (k - 1)) - 1 = width - k
      OBVIOUS
    <3>2. q[k - 1] = v[width - (k - 1)]
      BY <2>2
    <3>3. v[width - (k - 1)] \div b = v[width - k]
      BY <1>4, <3>1
    <3> QED BY <1>q, <3>2, <3>3
  <2>3. \A k \in 0 .. width : k \in T
    <3> HIDE DEF T
    <3> QED BY <2>1, <2>2, UpTo
  <2> QED BY <2>3
<1>6. ASSUME NEW i \in 1 .. width PROVE q[width - i] % b = d[i]
  <2>1. q[width - i] = v[i]
    BY <1>5
  <2> QED BY <1>4, <2>1
<1>7. d = [i \in 1 .. width |-> d[i]]
  BY <1>0
<1>8. Numeral(Value(d, b), b, width) = [i \in 1 .. width |-> d[i]]
  BY <1>q, <1>6
<1> QED BY <1>2, <1>7, <1>8

\* The first m are zeros.
Zeros(d, m) == \A i \in 1 .. m : d[i] = 0

\* So many zeros in front of digits make a number as small as this.
LEMMA ValueBound ==
    ASSUME NEW b \in Nat \ {0}, NEW width \in Nat, NEW d, Digital(d, b, width),
           NEW a \in 0 .. width, \A i \in 1 .. a : d[i] = 0
    PROVE  Value(d, b) \in Nat /\ Value(d, b) < Power(b, width - a)
<1>0. d \in Seq(Nat) /\ Len(d) = width /\ \A i \in 1 .. width : d[i] \in 0 .. b - 1
  <2>1. \A i \in 1 .. width : d[i] \in Nat /\ d[i] < b
    BY DEF Digital
  <2> QED BY <2>1 DEF Digital
<1>1. PICK v \in [0 .. width -> Nat] :
          Value(d, b) = v[width] /\ v[0] = 0 /\ \A i \in 1 .. width : v[i] = b * v[i - 1] + d[i]
  BY <1>0, ValueRuns
<1>2. \A i \in 0 .. a : v[i] = 0
  <2> DEFINE T == {i \in 0 .. a : v[i] = 0}
  <2>1. 0 \in T
    BY <1>1
  <2>2. ASSUME NEW i \in 1 .. a, i - 1 \in T PROVE i \in T
    <3>1. i \in 1 .. width /\ b * 0 = 0
      OBVIOUS
    <3>2. v[i] = b * v[i - 1] + d[i] /\ v[i - 1] = 0 /\ d[i] = 0
      BY <1>1, <2>2, <3>1
    <3> QED BY <3>1, <3>2
  <2>3. \A i \in 0 .. a : i \in T
    <3> HIDE DEF T
    <3>1. a \in Nat
      OBVIOUS
    <3> QED BY <3>1, <2>1, <2>2, UpTo
  <2> QED BY <2>3
<1>3. \A i \in 0 .. width - a : v[a + i] < Power(b, i)
  <2> DEFINE T == {i \in 0 .. width - a : v[a + i] < Power(b, i)}
  <2>1. 0 \in T
    BY <1>2, PowerStep
  <2>2. ASSUME NEW i \in 1 .. width - a, i - 1 \in T PROVE i \in T
    <3>1. PICK x \in Nat : x = v[a + (i - 1)]
      OBVIOUS
    <3>2. PICK m \in Nat : m = Power(b, i - 1) /\ Power(b, i) = b * m
      <4>1. i - 1 \in Nat /\ (i - 1) + 1 = i
        OBVIOUS
      <4>2. Power(b, i - 1) \in Nat /\ Power(b, (i - 1) + 1) = b * Power(b, i - 1)
        BY <4>1, PowerStep
      <4> QED BY <4>1, <4>2
    <3>3. x < m
      BY <2>2, <3>1, <3>2
    <3>4. v[a + i] = b * x + d[a + i] /\ d[a + i] \in 0 .. b - 1
      <4>1. a + i \in 1 .. width /\ (a + i) - 1 = a + (i - 1)
        OBVIOUS
      <4> QED BY <1>0, <1>1, <3>1, <4>1
    <3>5. b * x + b <= b * m /\ b * x \in Nat /\ b * m \in Nat
      BY <3>3, Multiples
    <3>6. b * x + d[a + i] < b * m
      <4>1. PICK y \in Nat, z \in Nat : y = b * x /\ z = b * m
        BY <3>5
      <4>2. y + b <= z
        BY <3>5, <4>1
      <4>3. PICK r \in 0 .. b - 1 : r = d[a + i]
        BY <3>4
      <4>4. y + r < z
        BY <4>2
      <4> QED BY <4>1, <4>3, <4>4
    <3> QED BY <3>2, <3>4, <3>6
  <2>3. \A i \in 0 .. width - a : i \in T
    <3> HIDE DEF T
    <3>1. width - a \in Nat
      OBVIOUS
    <3> QED BY <2>1, <2>2, <3>1, UpTo
  <2> QED BY <2>3
<1>4. width - a \in 0 .. width - a /\ a + (width - a) = width
  OBVIOUS
<1> QED BY <1>1, <1>3, <1>4

\* And a number as small as this has so many zeros in front.
LEMMA NumeralZeros ==
    ASSUME NEW b \in Nat \ {0}, NEW width \in Nat, NEW a \in 0 .. width, NEW n \in Nat,
           n < Power(b, width - a)
    PROVE  Zeros(Numeral(n, b, width), a)
<1>0. PICK q : Quotients(q, n, b, width)
  BY NumeralRuns
<1>1. /\ q \in [0 .. width -> Nat]
      /\ Numeral(n, b, width) = [i \in 1 .. width |-> q[width - i] % b]
      /\ q[0] = n /\ \A i \in 1 .. width : q[i] = q[i - 1] \div b
  BY <1>0 DEF Quotients
<1>2. \A k \in 0 .. width - a : q[k] < Power(b, width - a - k)
  <2> DEFINE T == {k \in 0 .. width - a : q[k] < Power(b, width - a - k)}
  <2>1. 0 \in T
    <3>1. width - a - 0 = width - a
      OBVIOUS
    <3> QED BY <1>1, <3>1
  <2>2. ASSUME NEW k \in 1 .. width - a, k - 1 \in T PROVE k \in T
    <3>1. PICK m \in Nat : m = Power(b, width - a - k) /\ Power(b, width - a - (k - 1)) = b * m
      <4>1. width - a - k \in Nat /\ (width - a - k) + 1 = width - a - (k - 1)
        OBVIOUS
      <4>2. /\ Power(b, width - a - k) \in Nat
            /\ Power(b, (width - a - k) + 1) = b * Power(b, width - a - k)
        BY <4>1, PowerStep
      <4> QED BY <4>1, <4>2
    <3>k. k - 1 \in 0 .. width /\ k \in 1 .. width
      OBVIOUS
    <3>2. PICK x \in Nat : x = q[k - 1] /\ x < b * m
      BY <1>1, <2>2, <3>1, <3>k
    <3>3. PICK y \in Nat, r \in 0 .. b - 1 : y = x \div b /\ x = b * y + r
      BY LastDigit
    <3>4. y < m
      BY <3>2, <3>3, QuotientBound
    <3>5. q[k] = y
      BY <1>1, <3>2, <3>3, <3>k
    <3> QED BY <3>1, <3>4, <3>5
  <2>3. \A k \in 0 .. width - a : k \in T
    <3> HIDE DEF T
    <3>1. width - a \in Nat
      OBVIOUS
    <3> QED BY <2>1, <2>2, <3>1, UpTo
  <2> QED BY <2>3
<1>3. q[width - a] = 0
  <2>1. width - a \in 0 .. width - a /\ width - a - (width - a) = 0
    OBVIOUS
  <2>2. Power(b, 0) = 1
    BY PowerStep
  <2>3. q[width - a] < 1
    BY <1>2, <2>1, <2>2
  <2>4. q[width - a] \in Nat
    <3>1. width - a \in 0 .. width
      OBVIOUS
    <3> QED BY <1>1, <3>1
  <2> QED BY <2>3, <2>4
<1>4. 0 \div b = 0 /\ 0 % b = 0
  <2>1. PICK y \in Nat, r \in 0 .. b - 1 : 0 = b * y + r /\ 0 \div b = y /\ 0 % b = r
    <3>1. 0 \in Nat
      OBVIOUS
    <3> QED BY <3>1, LastDigit
  <2>2. y = 0
    <3>1. ASSUME 0 < y PROVE FALSE
      <4>1. 0 \in Nat
        OBVIOUS
      <4>2. b * 0 + b <= b * y /\ b * y \in Nat /\ b * 0 = 0
        BY <3>1, <4>1, Multiples
      <4> QED BY <2>1, <4>2
    <3> QED BY <3>1
  <2>3. b * y = 0
    BY <2>2
  <2> QED BY <2>1, <2>2, <2>3
<1>5. \A j \in 0 .. a : q[width - a + j] = 0
  <2> DEFINE T == {j \in 0 .. a : q[width - a + j] = 0}
  <2>1. 0 \in T
    BY <1>3
  <2>2. ASSUME NEW j \in 1 .. a, j - 1 \in T PROVE j \in T
    <3>1. width - a + j \in 1 .. width /\ (width - a + j) - 1 = width - a + (j - 1)
      OBVIOUS
    <3> QED BY <1>1, <1>4, <2>2, <3>1
  <2>3. \A j \in 0 .. a : j \in T
    <3> HIDE DEF T
    <3>1. a \in Nat
      OBVIOUS
    <3> QED BY <3>1, <2>1, <2>2, UpTo
  <2> QED BY <2>3
<1>6. ASSUME NEW i \in 1 .. a PROVE Numeral(n, b, width)[i] = 0
  <2>1. a - i \in 0 .. a /\ width - a + (a - i) = width - i /\ i \in 1 .. width
    OBVIOUS
  <2>2. q[width - i] = 0
    BY <1>5, <2>1
  <2> QED BY <1>1, <1>4, <2>1, <2>2
<1> QED BY <1>6 DEF Zeros

\* The number of the digits that write a number is that number.
LEMMA ValueNumeral ==
    ASSUME NEW b \in Nat \ {0}, NEW width \in Nat, NEW n \in Nat, n < Power(b, width)
    PROVE  Value(Numeral(n, b, width), b) = n
<1> DEFINE d == Numeral(n, b, width)
<1>0. Digital(d, b, width)
  BY NumeralDigital
<1>1. Value(d, b) \in Nat /\ Numeral(Value(d, b), b, width) = d
  <2> HIDE DEF d
  <2> QED BY <1>0, NumeralValue
<1>2. PICK q : Quotients(q, n, b, width)
  BY NumeralRuns
<1>3. /\ q \in [0 .. width -> Nat] /\ d = [i \in 1 .. width |-> q[width - i] % b]
      /\ q[0] = n /\ \A i \in 1 .. width : q[i] = q[i - 1] \div b
  BY <1>2 DEF Quotients
<1> HIDE DEF d
<1>4. d \in Seq(Nat) /\ Len(d) = width
  BY <1>0 DEF Digital
<1>5. PICK v \in [0 .. width -> Nat] :
          Value(d, b) = v[width] /\ v[0] = 0 /\ \A i \in 1 .. width : v[i] = b * v[i - 1] + d[i]
  BY <1>4, ValueRuns
<1>6. q[width] = 0
  <2> DEFINE T == {k \in 0 .. width : q[k] < Power(b, width - k)}
  <2>1. 0 \in T
    <3>1. width - 0 = width
      OBVIOUS
    <3> QED BY <1>3, <3>1
  <2>2. ASSUME NEW k \in 1 .. width, k - 1 \in T PROVE k \in T
    <3>1. PICK m \in Nat : m = Power(b, width - k) /\ Power(b, width - (k - 1)) = b * m
      <4>1. width - k \in Nat /\ (width - k) + 1 = width - (k - 1)
        OBVIOUS
      <4>2. Power(b, width - k) \in Nat /\ Power(b, (width - k) + 1) = b * Power(b, width - k)
        BY <4>1, PowerStep
      <4> QED BY <4>1, <4>2
    <3>k. k - 1 \in 0 .. width /\ k \in 1 .. width
      OBVIOUS
    <3>2. PICK x \in Nat : x = q[k - 1] /\ x < b * m
      BY <1>3, <2>2, <3>1, <3>k
    <3>3. PICK y \in Nat, r \in 0 .. b - 1 : y = x \div b /\ x = b * y + r
      BY LastDigit
    <3>4. y < m
      BY <3>2, <3>3, QuotientBound
    <3>5. q[k] = y
      BY <1>3, <3>2, <3>3, <3>k
    <3> QED BY <3>1, <3>4, <3>5
  <2>3. \A k \in 0 .. width : k \in T
    <3> HIDE DEF T
    <3> QED BY <2>1, <2>2, UpTo
  <2>4. Power(b, 0) = 1 /\ width - width = 0 /\ width \in 0 .. width
    BY PowerStep
  <2>5. q[width] < 1 /\ q[width] \in Nat
    BY <1>3, <2>3, <2>4
  <2> QED BY <2>5
<1>7. \A i \in 0 .. width : v[i] = q[width - i]
  <2> DEFINE T == {i \in 0 .. width : v[i] = q[width - i]}
  <2>1. 0 \in T
    <3>1. width - 0 = width
      OBVIOUS
    <3> QED BY <1>5, <1>6, <3>1
  <2>2. ASSUME NEW i \in 1 .. width, i - 1 \in T PROVE i \in T
    <3>1. /\ width - i \in 0 .. width /\ width - (i - 1) \in 1 .. width
          /\ (width - (i - 1)) - 1 = width - i
      OBVIOUS
    <3>2. PICK x \in Nat : x = q[width - i]
      BY <1>3, <3>1
    <3>3. q[width - (i - 1)] = x \div b
      BY <1>3, <3>1, <3>2
    <3>4. v[i] = b * (x \div b) + (x % b)
      BY <1>3, <1>5, <2>2, <3>2, <3>3
    <3>5. x = b * (x \div b) + (x % b)
      BY LastDigit
    <3> QED BY <3>2, <3>4, <3>5
  <2>3. \A i \in 0 .. width : i \in T
    <3> HIDE DEF T
    <3> QED BY <2>1, <2>2, UpTo
  <2> QED BY <2>3
<1>8. width \in 0 .. width /\ width - width = 0
  OBVIOUS
<1> QED BY <1>3, <1>5, <1>7, <1>8 DEF d

----------------------------------------------------------------------------
(* Sequences of numbers, each in so many digits.                           *)

\* The places of the digits of the numbers.
LEMMA PlaceOf ==
    ASSUME NEW w \in Nat \ {0}, NEW n \in Nat, NEW i \in 1 .. w * n
    PROVE  /\ ((i - 1) \div w) + 1 \in 1 .. n /\ ((i - 1) % w) + 1 \in 1 .. w
           /\ i = ((i - 1) \div w) * w + ((i - 1) % w) + 1
<1>1. PICK x \in Nat : x = i - 1 /\ x < w * n
  <2>1. PICK m \in Nat : m = w * n
    OBVIOUS
  <2>2. i \in 1 .. m
    BY <2>1
  <2>3. i - 1 \in Nat /\ i - 1 < m
    BY <2>2
  <2> QED BY <2>1, <2>3
<1>2. PICK y \in Nat, r \in 0 .. w - 1 : y = x \div w /\ r = x % w /\ x = w * y + r
  BY LastDigit
<1>3. y < n
  BY <1>1, <1>2, QuotientBound
<1>4. w * y = y * w /\ y * w \in Nat
  OBVIOUS
<1>5. i = y * w + r + 1
  <2>1. PICK z \in Nat : z = y * w
    BY <1>4
  <2> QED BY <1>1, <1>2, <1>4, <2>1
<1> QED BY <1>1, <1>2, <1>3, <1>5

Placed(w, n, k, j) ==
    /\ (k - 1) * w + j \in 1 .. w * n
    /\ ((k - 1) * w + j - 1) \div w = k - 1 /\ ((k - 1) * w + j - 1) % w = j - 1

\* When each number takes w places, a place tells its number and digit.
LEMMA PlaceAt ==
    ASSUME NEW w \in Nat \ {0}, NEW n \in Nat, NEW k \in 1 .. n, NEW j \in 1 .. w
    PROVE  Placed(w, n, k, j)
<1>1. PICK y \in Nat, r \in 0 .. w - 1 : y = k - 1 /\ r = j - 1 /\ y < n
  OBVIOUS
<1>2. (w * y + r) \div w = y /\ (w * y + r) % w = r
  BY DigitAdded
<1>3. w * y + w <= w * n /\ w * y \in Nat /\ w * n \in Nat
  BY <1>1, Multiples
<1>4. (k - 1) * w + j - 1 = w * y + r
  BY <1>1
<1>5. PICK z \in Nat, m \in Nat : z = w * y /\ m = w * n /\ (k - 1) * w = z /\ z + w <= m
  BY <1>1, <1>3
<1>6. z + j \in 1 .. m
  BY <1>5
<1> QED BY <1>1, <1>2, <1>4, <1>5, <1>6 DEF Placed

\* The digits of a sequence of numbers.
Spelled(t, s, b, w) ==
    \A k \in 1 .. Len(s), j \in 1 .. w : t[(k - 1) * w + j] = Numeral(s[k], b, w)[j]

\* Numbers that are written leave their digits, each in its place.
LEMMA WrittenAt ==
    ASSUME NEW b \in Nat \ {0}, NEW w \in Nat \ {0}, NEW s \in Seq(Nat)
    PROVE  Digital(Written(s, b, w), b, w * Len(s)) /\ Spelled(Written(s, b, w), s, b, w)
<1> DEFINE n == Len(s)
           num(k) == Numeral(s[k], b, w)
           t == [i \in 1 .. w * n |-> num(((i - 1) \div w) + 1)[((i - 1) % w) + 1]]
<1>0. n \in Nat /\ \A k \in 1 .. n : s[k] \in Nat
  OBVIOUS
<1>1. Written(s, b, w) = t
  BY DEF Written
<1>2. \A k \in 1 .. n : Digital(num(k), b, w)
  BY <1>0, NumeralDigital
<1> HIDE DEF n, num
<1>3. \A k \in 1 .. n, j \in 1 .. w : num(k)[j] \in Nat /\ num(k)[j] < b
  BY <1>2 DEF Digital
<1>4. PICK m \in Nat : m = w * n
  BY <1>0
<1>5. ASSUME NEW i \in 1 .. m PROVE t[i] \in Nat /\ t[i] < b
  <2>1. ((i - 1) \div w) + 1 \in 1 .. n /\ ((i - 1) % w) + 1 \in 1 .. w
    BY <1>0, <1>4, PlaceOf
  <2>2. PICK k \in 1 .. n, j \in 1 .. w : k = ((i - 1) \div w) + 1 /\ j = ((i - 1) % w) + 1
    BY <2>1
  <2>3. t[i] = num(k)[j]
    BY <1>4, <2>2
  <2> QED BY <1>3, <2>3
<1>6. t \in Seq(Nat) /\ Len(t) = m
  <2>1. t \in [1 .. m -> Nat]
    <3> DEFINE e(i) == num(((i - 1) \div w) + 1)[((i - 1) % w) + 1]
    <3>1. t = [i \in 1 .. m |-> e(i)]
      BY <1>4
    <3>2. \A i \in 1 .. m : e(i) \in Nat
      BY <1>4, <1>5
    <3> HIDE DEF e, t
    <3> QED BY <3>1, <3>2
  <2> HIDE DEF t
  <2> QED BY <1>4, <2>1
<1>7. ASSUME NEW k \in 1 .. n, NEW j \in 1 .. w PROVE t[(k - 1) * w + j] = num(k)[j]
  <2>1. /\ (k - 1) * w + j \in 1 .. w * n
        /\ ((k - 1) * w + j - 1) \div w = k - 1 /\ ((k - 1) * w + j - 1) % w = j - 1
    <3>1. Placed(w, n, k, j)
      BY <1>0, PlaceAt
    <3> QED BY <3>1 DEF Placed
  <2>2. PICK i \in 1 .. w * n : i = (k - 1) * w + j
    BY <2>1
  <2>3. (i - 1) \div w = k - 1 /\ (i - 1) % w = j - 1
    BY <2>1, <2>2
  <2>4. ((i - 1) \div w) + 1 = k /\ ((i - 1) % w) + 1 = j
    BY <2>3
  <2>5. t[i] = num(((i - 1) \div w) + 1)[((i - 1) % w) + 1]
    BY <2>2
  <2> QED BY <2>2, <2>4, <2>5
<1> HIDE DEF t
<1>8. Digital(t, b, w * n)
  BY <1>4, <1>5, <1>6 DEF Digital
<1> QED BY <1>1, <1>7, <1>8 DEF n, num, Spelled

\* The digits of the k-th number.
Piece(d, k, w) == SubSeq(d, (k - 1) * w + 1, k * w)

IsPiece(d, k, w) ==
    /\ Piece(d, k, w) \in Seq(Nat) /\ Len(Piece(d, k, w)) = w
    /\ \A j \in 1 .. w : /\ Piece(d, k, w)[j] = d[(k - 1) * w + j]
                         /\ (k - 1) * w + j \in 1 .. Len(d)

\* A piece is w digits of d.
LEMMA PieceAt ==
    ASSUME NEW w \in Nat \ {0}, NEW n \in Nat, NEW d \in Seq(Nat), Len(d) = w * n,
           NEW k \in 1 .. n
    PROVE  IsPiece(d, k, w)
<1>1. PICK y \in Nat : y = k - 1 /\ y < n
  OBVIOUS
<1>2. w * y + w <= w * n /\ w * y \in Nat /\ w * n \in Nat
  BY <1>1, Multiples
<1>3. PICK z \in Nat, m \in Nat : z = w * y /\ m = w * n /\ z + w <= m
  BY <1>2
<1>4. (k - 1) * w = z /\ k * w = z + w
  <2>1. k = y + 1
    BY <1>1
  <2>2. k * w = y * w + w /\ y * w = w * y /\ (k - 1) * w = y * w
    BY <1>1, <2>1
  <2> QED BY <1>3, <2>2
<1>5. Piece(d, k, w) = SubSeq(d, z + 1, z + w)
  BY <1>4 DEF Piece
<1>6. Len(d) = m
  BY <1>3
<1>7. SubSeq(d, z + 1, z + w) = [i \in 1 .. w |-> d[z + i]]
  BY <1>3, <1>6
<1>8. \A j \in 1 .. w : z + j \in 1 .. m /\ d[z + j] \in Nat
  BY <1>3, <1>6
<1>9. [i \in 1 .. w |-> d[z + i]] \in Seq(Nat) /\ Len([i \in 1 .. w |-> d[z + i]]) = w
  <2> DEFINE e(i) == d[z + i]
  <2>1. \A i \in 1 .. w : e(i) \in Nat
    BY <1>8
  <2> HIDE DEF e
  <2>2. [i \in 1 .. w |-> e(i)] \in Seq(Nat) /\ Len([i \in 1 .. w |-> e(i)]) = w
    BY <2>1
  <2> QED BY <2>2 DEF e
<1> QED BY <1>3, <1>4, <1>5, <1>6, <1>7, <1>8, <1>9 DEF IsPiece

\* The numbers that digits stand for.
IsRead(s, d, b, w, n) ==
    /\ s \in Seq(Nat) /\ Len(s) = n
    /\ \A k \in 1 .. n : /\ Digital(Piece(d, k, w), b, w)
                         /\ s[k] = Value(Piece(d, k, w), b) /\ s[k] \in 0 .. Power(b, w) - 1

\* Digits that are read are numbers of w digits.
LEMMA ReadAt ==
    ASSUME NEW b \in Nat \ {0}, NEW w \in Nat \ {0}, NEW n \in Nat, NEW d, Digital(d, b, w * n)
    PROVE  IsRead(Read(d, b, w), d, b, w, n)
<1>1. d \in Seq(Nat) /\ Len(d) = w * n /\ \A i \in 1 .. w * n : d[i] < b
  BY DEF Digital
<1>2. (w * n) \div w = n
  <2>1. (w * n + 0) \div w = n
    <3>1. 0 \in 0 .. w - 1
      OBVIOUS
    <3> QED BY <3>1, DigitAdded
  <2>2. w * n + 0 = w * n
    OBVIOUS
  <2> QED BY <2>1, <2>2
<1>3. Read(d, b, w) = [k \in 1 .. n |-> Value(Piece(d, k, w), b)]
  BY <1>1, <1>2 DEF Read, Piece
<1>4. ASSUME NEW k \in 1 .. n
      PROVE  /\ Digital(Piece(d, k, w), b, w)
             /\ Value(Piece(d, k, w), b) \in Nat /\ Value(Piece(d, k, w), b) < Power(b, w)
  <2>0. IsPiece(d, k, w)
    BY <1>1, PieceAt
  <2>1. /\ Piece(d, k, w) \in Seq(Nat) /\ Len(Piece(d, k, w)) = w
        /\ \A j \in 1 .. w : /\ Piece(d, k, w)[j] = d[(k - 1) * w + j]
                             /\ (k - 1) * w + j \in 1 .. Len(d)
    BY <2>0 DEF IsPiece
  <2>2. Digital(Piece(d, k, w), b, w)
    <3>1. ASSUME NEW j \in 1 .. w PROVE Piece(d, k, w)[j] < b
      <4>1. PICK i \in 1 .. w * n : i = (k - 1) * w + j /\ Piece(d, k, w)[j] = d[i]
        BY <1>1, <2>1
      <4> QED BY <1>1, <4>1
    <3> QED BY <2>1, <3>1 DEF Digital
  <2> DEFINE e == Piece(d, k, w)
  <2>3. Digital(e, b, w)
    BY <2>2
  <2> HIDE DEF e
  <2>4. 0 \in 0 .. w /\ (\A i \in 1 .. 0 : e[i] = 0) /\ w - 0 = w
    OBVIOUS
  <2>5. Value(e, b) \in Nat /\ Value(e, b) < Power(b, w - 0)
    BY <2>3, <2>4, ValueBound
  <2> QED BY <2>2, <2>4, <2>5 DEF e
<1>5. Power(b, w) \in Nat
  BY PowerStep
<1> DEFINE val(k) == Value(Piece(d, k, w), b)
<1>6. \A k \in 1 .. n : val(k) \in Nat /\ val(k) \in 0 .. Power(b, w) - 1
  BY <1>4, <1>5
<1>7. Read(d, b, w) = [k \in 1 .. n |-> val(k)]
  BY <1>3
<1>8. /\ Read(d, b, w) \in Seq(Nat) /\ Len(Read(d, b, w)) = n
      /\ \A k \in 1 .. n : Read(d, b, w)[k] = val(k)
  <2> HIDE DEF val
  <2> QED BY <1>6, <1>7
<1> QED BY <1>4, <1>6, <1>8 DEF IsRead

\* Reading what is written.
LEMMA ReadWritten ==
    ASSUME NEW b \in Nat \ {0}, NEW w \in Nat \ {0}, NEW s \in Seq(0 .. Power(b, w) - 1)
    PROVE  Read(Written(s, b, w), b, w) = s
<1> DEFINE d == Written(s, b, w)
           n == Len(s)
<1>0. Power(b, w) \in Nat
  BY PowerStep
<1>1. s \in Seq(Nat) /\ n \in Nat /\ \A k \in 1 .. n : s[k] \in Nat /\ s[k] < Power(b, w)
  BY <1>0
<1>2. Digital(d, b, w * n) /\ \A k \in 1 .. n, j \in 1 .. w : d[(k - 1) * w + j] = Numeral(s[k], b, w)[j]
  <2>1. Digital(d, b, w * Len(s)) /\ Spelled(d, s, b, w)
    BY <1>1, WrittenAt
  <2> QED BY <2>1 DEF Spelled
<1> HIDE DEF d, n
<1>3. /\ Read(d, b, w) \in Seq(Nat) /\ Len(Read(d, b, w)) = n
      /\ \A k \in 1 .. n : Read(d, b, w)[k] = Value(Piece(d, k, w), b)
  <2>1. IsRead(Read(d, b, w), d, b, w, n)
    BY <1>1, <1>2, ReadAt
  <2> QED BY <2>1 DEF IsRead
<1>4. ASSUME NEW k \in 1 .. n PROVE Read(d, b, w)[k] = s[k]
  <2>1. /\ Piece(d, k, w) \in Seq(Nat) /\ Len(Piece(d, k, w)) = w
        /\ \A j \in 1 .. w : Piece(d, k, w)[j] = d[(k - 1) * w + j]
    <3>1. d \in Seq(Nat) /\ Len(d) = w * n
      BY <1>2 DEF Digital
    <3>2. IsPiece(d, k, w)
      BY <1>1, <3>1, PieceAt
    <3> QED BY <3>2 DEF IsPiece
  <2>2. PICK e : e = Numeral(s[k], b, w)
    OBVIOUS
  <2>3. e \in Seq(Nat) /\ Len(e) = w
    <3>1. Digital(e, b, w)
      BY <1>1, <2>2, NumeralDigital
    <3> QED BY <3>1 DEF Digital
  <2>4. \A j \in 1 .. w : Piece(d, k, w)[j] = e[j]
    BY <1>2, <2>1, <2>2
  <2>5. Piece(d, k, w) = e
    BY <2>1, <2>3, <2>4
  <2>6. Value(e, b) = s[k]
    BY <1>1, <2>2, ValueNumeral
  <2> QED BY <1>3, <2>5, <2>6
<1>5. Len(s) = n /\ Len(Read(d, b, w)) = n
  BY <1>3 DEF n
<1> QED BY <1>1, <1>3, <1>4, <1>5 DEF d

\* Writing what is read.
LEMMA WrittenRead ==
    ASSUME NEW b \in Nat \ {0}, NEW w \in Nat \ {0}, NEW n \in Nat, NEW d, Digital(d, b, w * n)
    PROVE  Written(Read(d, b, w), b, w) = d
<1> DEFINE s == Read(d, b, w)
           t == Written(s, b, w)
<1>1. /\ s \in Seq(Nat) /\ Len(s) = n
      /\ \A k \in 1 .. n : Digital(Piece(d, k, w), b, w) /\ s[k] = Value(Piece(d, k, w), b)
  <2>1. IsRead(s, d, b, w, n)
    BY ReadAt
  <2> QED BY <2>1 DEF IsRead
<1> HIDE DEF s
<1>2. Digital(t, b, w * n) /\ \A k \in 1 .. n, j \in 1 .. w : t[(k - 1) * w + j] = Numeral(s[k], b, w)[j]
  <2>1. Digital(t, b, w * Len(s)) /\ Spelled(t, s, b, w)
    BY <1>1, WrittenAt
  <2> QED BY <1>1, <2>1 DEF Spelled
<1> HIDE DEF t
<1>3. d \in Seq(Nat) /\ Len(d) = w * n /\ t \in Seq(Nat) /\ Len(t) = w * n
  BY <1>2 DEF Digital
<1>4. ASSUME NEW k \in 1 .. n, NEW j \in 1 .. w PROVE t[(k - 1) * w + j] = d[(k - 1) * w + j]
  <2>1. \A i \in 1 .. w : Piece(d, k, w)[i] = d[(k - 1) * w + i]
    <3>1. IsPiece(d, k, w)
      BY <1>3, PieceAt
    <3> QED BY <3>1 DEF IsPiece
  <2>2. PICK e : e = Piece(d, k, w) /\ Digital(e, b, w)
    BY <1>1
  <2>3. Numeral(Value(e, b), b, w) = e
    BY <2>2, NumeralValue
  <2>4. Numeral(s[k], b, w) = e
    BY <1>1, <2>2, <2>3
  <2> QED BY <1>2, <2>1, <2>2, <2>4
<1>5. ASSUME NEW i \in 1 .. w * n PROVE t[i] = d[i]
  <2>1. /\ ((i - 1) \div w) + 1 \in 1 .. n /\ ((i - 1) % w) + 1 \in 1 .. w
        /\ i = ((i - 1) \div w) * w + ((i - 1) % w) + 1
    BY PlaceOf
  <2>2. PICK k \in 1 .. n, j \in 1 .. w : k - 1 = (i - 1) \div w /\ j - 1 = (i - 1) % w
    <3>1. /\ (((i - 1) \div w) + 1) - 1 = (i - 1) \div w
          /\ (((i - 1) % w) + 1) - 1 = (i - 1) % w
      BY <2>1
    <3> QED BY <2>1, <3>1
  <2>3. i = (k - 1) * w + (j - 1) + 1
    BY <2>1, <2>2
  <2>4. (k - 1) * w \in Nat
    OBVIOUS
  <2>5. i = (k - 1) * w + j
    BY <2>3, <2>4
  <2> QED BY <1>4, <2>5
<1>6. t = d
  <2>1. PICK m \in Nat : m = w * n
    OBVIOUS
  <2> QED BY <1>3, <1>5, <2>1
<1> QED BY <1>6 DEF s, t

\* A sequence from its two parts.
LEMMA Joined ==
    ASSUME NEW m \in Nat, NEW n \in Nat, NEW z \in Seq(Nat), NEW e \in Seq(Nat), NEW d \in Seq(Nat),
           Len(z) = m, Len(e) = n, Len(d) = m + n,
           \A i \in 1 .. m : z[i] = d[i], \A i \in 1 .. n : e[i] = d[m + i]
    PROVE  z \o e = d
<1>1. z \o e \in Seq(Nat) /\ Len(z \o e) = Len(z) + Len(e)
  BY ConcatProperties
<1>3. \A i \in 1 .. Len(z) + Len(e) : (z \o e)[i] = IF i <= Len(z) THEN z[i] ELSE e[i - Len(z)]
  BY ConcatProperties
<1>2. ASSUME NEW i \in 1 .. m + n PROVE (z \o e)[i] = d[i]
  <2>1. CASE i <= m
    BY <1>3, <2>1
  <2>2. CASE i > m
    <3>1. i - m \in 1 .. n /\ m + (i - m) = i
      BY <2>2
    <3>2. (z \o e)[i] = e[i - m]
      BY <1>3, <2>2
    <3> QED BY <3>1, <3>2
  <2> QED BY <2>1, <2>2
<1>4. Len(z \o e) = Len(d) /\ \A i \in 1 .. Len(z \o e) : (z \o e)[i] = d[i]
  <2>1. Len(z \o e) = m + n
    BY <1>1
  <2> QED BY <1>2, <2>1
<1> QED BY <1>1, <1>4, SeqEqual

\* Zeros in front.
LEMMA Padding ==
    ASSUME NEW b \in Nat \ {0}, NEW m \in Nat, NEW n \in Nat, NEW d, Digital(d, b, n)
    PROVE  /\ Digital(Repeated(m, 0) \o d, b, m + n)
           /\ Zeros(Repeated(m, 0) \o d, m)
           /\ Dropped(Repeated(m, 0) \o d, m) = d
<1> DEFINE z == Repeated(m, 0)
           t == z \o d
<1>1. z \in Seq(Nat) /\ Len(z) = m /\ \A i \in 1 .. m : z[i] = 0
  BY DEF Repeated
<1>2. d \in Seq(Nat) /\ Len(d) = n /\ \A i \in 1 .. n : d[i] < b
  BY DEF Digital
<1> HIDE DEF z
<1>3. /\ t \in Seq(Nat) /\ Len(t) = m + n /\ (\A i \in 1 .. m : t[i] = 0)
      /\ \A i \in 1 .. n : t[m + i] = d[i]
  BY <1>1, <1>2
<1> HIDE DEF t
<1>4. ASSUME NEW i \in 1 .. m + n PROVE t[i] < b
  <2>1. CASE i <= m
    BY <1>3, <2>1
  <2>2. CASE i > m
    <3>1. i - m \in 1 .. n /\ m + (i - m) = i
      BY <2>2
    <3> QED BY <1>2, <1>3, <3>1
  <2> QED BY <2>1, <2>2
<1>5. Digital(t, b, m + n)
  BY <1>3, <1>4 DEF Digital
<1>6. Dropped(t, m) = d
  <2>1. Dropped(t, m) = SubSeq(t, m + 1, m + n)
    BY <1>3 DEF Dropped
  <2>2. SubSeq(t, m + 1, m + n) = [i \in 1 .. n |-> t[m + i]]
    BY <1>3
  <2>3. d = [i \in 1 .. n |-> d[i]]
    BY <1>2
  <2> QED BY <1>3, <2>1, <2>2, <2>3
<1>7. Zeros(t, m)
  BY <1>3 DEF Zeros
<1> QED BY <1>5, <1>6, <1>7 DEF t, z

\* What is left of digits.
Rest(e, d, m, n) == \A i \in 1 .. n : e[i] = d[m + i]

\* Digits without the first m.
LEMMA DroppedDigits ==
    ASSUME NEW b \in Nat \ {0}, NEW m \in Nat, NEW n \in Nat, NEW d, Digital(d, b, m + n)
    PROVE  /\ Digital(Dropped(d, m), b, n)
           /\ Rest(Dropped(d, m), d, m, n)
<1>1. d \in Seq(Nat) /\ Len(d) = m + n /\ \A i \in 1 .. m + n : d[i] < b
  BY DEF Digital
<1>2. Dropped(d, m) = SubSeq(d, m + 1, m + n)
  BY <1>1 DEF Dropped
<1>3. SubSeq(d, m + 1, m + n) = [i \in 1 .. n |-> d[m + i]]
  BY <1>1
<1> DEFINE e(i) == d[m + i]
<1>4. \A i \in 1 .. n : e(i) \in Nat /\ e(i) < b
  BY <1>1
<1>5. Dropped(d, m) = [i \in 1 .. n |-> e(i)]
  BY <1>2, <1>3
<1>6. \A i \in 1 .. n : Dropped(d, m)[i] = e(i)
  <2> HIDE DEF e
  <2> QED BY <1>5
<1>7. Dropped(d, m) \in Seq(Nat) /\ Len(Dropped(d, m)) = n
  <2> HIDE DEF e
  <2> QED BY <1>4, <1>5
<1>8. Digital(Dropped(d, m), b, n)
  <2> HIDE DEF e
  <2> QED BY <1>4, <1>6, <1>7 DEF Digital
<1> QED BY <1>6, <1>8 DEF Rest

\* Only the zeros are left out.
LEMMA ZerosDropped ==
    ASSUME NEW b \in Nat \ {0}, NEW m \in Nat, NEW n \in Nat, NEW d, Digital(d, b, m + n),
           \A i \in 1 .. m : d[i] = 0
    PROVE  Repeated(m, 0) \o Dropped(d, m) = d
<1> DEFINE e == Dropped(d, m)
           z == Repeated(m, 0)
<1>1. d \in Seq(Nat) /\ Len(d) = m + n
  BY DEF Digital
<1>2. e \in Seq(Nat) /\ Len(e) = n /\ \A i \in 1 .. n : e[i] = d[m + i]
  <2>1. Digital(e, b, n) /\ Rest(e, d, m, n)
    BY DroppedDigits
  <2> QED BY <2>1 DEF Digital, Rest
<1>3. z \in Seq(Nat) /\ Len(z) = m /\ \A i \in 1 .. m : z[i] = 0
  BY DEF Repeated
<1> HIDE DEF e, z
<1>4. \A i \in 1 .. m : z[i] = d[i]
  BY <1>3
<1>5. z \o e = d
  BY <1>1, <1>2, <1>3, <1>4, Joined
<1> QED BY <1>5 DEF z, e

\* A number less is the digits of a number less.
LEMMA ReadDropped ==
    ASSUME NEW b \in Nat \ {0}, NEW w \in Nat \ {0}, NEW n \in Nat, NEW d,
           Digital(d, b, w * (n + 1))
    PROVE  /\ Digital(Dropped(d, w), b, w * n)
           /\ Dropped(Read(d, b, w), 1) = Read(Dropped(d, w), b, w)
<1> DEFINE s == Read(d, b, w)
           e == Dropped(d, w)
           t == Read(e, b, w)
<1>0. w * (n + 1) = w + w * n /\ w * n \in Nat /\ w \in Nat /\ n + 1 \in Nat
  OBVIOUS
<1>1. s \in Seq(Nat) /\ Len(s) = n + 1 /\ \A k \in 1 .. n + 1 : s[k] = Value(Piece(d, k, w), b)
  <2>1. IsRead(s, d, b, w, n + 1)
    BY <1>0, ReadAt
  <2> QED BY <2>1 DEF IsRead
<1>2. PICK m \in Nat : m = w * n
  BY <1>0
<1>3. Digital(d, b, w + m)
  BY <1>0, <1>2
<1>4. Digital(e, b, m) /\ \A i \in 1 .. m : e[i] = d[w + i]
  <2>1. Digital(e, b, m) /\ Rest(e, d, w, m)
    BY <1>0, <1>3, DroppedDigits
  <2> QED BY <2>1 DEF Rest
<1> HIDE DEF s, e
<1>5. t \in Seq(Nat) /\ Len(t) = n /\ \A k \in 1 .. n : t[k] = Value(Piece(e, k, w), b)
  <2>0. Digital(e, b, w * n)
    BY <1>2, <1>4
  <2>1. IsRead(t, e, b, w, n)
    BY <2>0, ReadAt
  <2> QED BY <2>1 DEF IsRead
<1> HIDE DEF t
<1>6. ASSUME NEW k \in 1 .. n PROVE Piece(d, k + 1, w) = Piece(e, k, w)
  <2>1. /\ d \in Seq(Nat) /\ Len(d) = w * (n + 1) /\ e \in Seq(Nat) /\ Len(e) = w * n
        /\ k + 1 \in 1 .. n + 1
    BY <1>2, <1>4 DEF Digital
  <2>2. IsPiece(d, k + 1, w)
    BY <1>0, <2>1, PieceAt
  <2>3. IsPiece(e, k, w)
    BY <2>1, PieceAt
  <2>4. ASSUME NEW j \in 1 .. w PROVE Piece(d, k + 1, w)[j] = Piece(e, k, w)[j]
    <3>1. Piece(d, k + 1, w)[j] = d[((k + 1) - 1) * w + j]
      BY <2>2 DEF IsPiece
    <3>2. Piece(e, k, w)[j] = e[(k - 1) * w + j] /\ (k - 1) * w + j \in 1 .. m
      BY <1>2, <2>1, <2>3 DEF IsPiece
    <3>3. e[(k - 1) * w + j] = d[w + ((k - 1) * w + j)]
      BY <1>4, <3>2
    <3>4. ((k + 1) - 1) * w + j = w + ((k - 1) * w + j)
      <4>1. PICK y \in Nat : y = k - 1
        OBVIOUS
      <4>2. k = y + 1 /\ (k + 1) - 1 = y + 1
        BY <4>1
      <4>3. (y + 1) * w = y * w + w /\ y * w \in Nat
        OBVIOUS
      <4> QED BY <4>1, <4>2, <4>3
    <3> QED BY <3>1, <3>2, <3>3, <3>4
  <2>5. /\ Piece(d, k + 1, w) \in Seq(Nat) /\ Len(Piece(d, k + 1, w)) = w
        /\ Piece(e, k, w) \in Seq(Nat) /\ Len(Piece(e, k, w)) = w
    BY <2>2, <2>3 DEF IsPiece
  <2> QED BY <2>4, <2>5
<1>7. Dropped(s, 1) \in Seq(Nat) /\ Len(Dropped(s, 1)) = n /\ \A k \in 1 .. n : Dropped(s, 1)[k] = s[k + 1]
  BY <1>1 DEF Dropped
<1>8. ASSUME NEW k \in 1 .. n PROVE Dropped(s, 1)[k] = t[k]
  <2>1. k + 1 \in 1 .. n + 1
    OBVIOUS
  <2> QED BY <1>1, <1>5, <1>6, <1>7, <2>1
<1>9. Dropped(s, 1) = t
  BY <1>5, <1>7, <1>8
<1> QED BY <1>2, <1>4, <1>9 DEF s, e, t

----------------------------------------------------------------------------
(* Keys and their texts.                                                   *)

\* The bits of the first character that are no bits of the key.
Spare == KeyChars * CharBits - KeyBits

\* What the assumption says of the sizes.
LEMMA Sizes ==
    /\ ByteBits \in Nat \ {0} /\ CharBits \in Nat \ {0} /\ CharBits <= ByteBits
    /\ KeyBytes \in Nat \ {0} /\ ChecksumBytes \in Nat \ {0}
    /\ KeyChars \in Nat \ {0} /\ ChecksumChars \in Nat /\ KeyBits \in Nat
    /\ KeyBits = ByteBits * KeyBytes
    /\ Spare \in 0 .. CharBits - 1 /\ KeyChars * CharBits = Spare + KeyBits
    /\ Padded = ByteBits + KeyBits /\ Padded = ByteBits * (KeyBytes + 1)
    /\ CharBits * ChecksumChars = ByteBits * ChecksumBytes
    /\ (KeyChars + 1) * CharBits > Padded
<1>1. /\ ByteBits \in Nat \ {0} /\ CharBits \in Nat \ {0} /\ CharBits <= ByteBits
      /\ KeyBytes \in Nat \ {0} /\ ChecksumBytes \in Nat \ {0}
  BY EncodingAssumption
<1>2. PICK B \in Nat \ {0}, C \in Nat \ {0}, K \in Nat \ {0}, Q \in Nat \ {0} :
          B = ByteBits /\ C = CharBits /\ K = KeyBytes /\ Q = ChecksumBytes
  BY <1>1
<1>3. PICK m \in Nat : m = B * K /\ m = K * B /\ m > 0
  <2>1. 0 \in Nat /\ 0 < K
    OBVIOUS
  <2>2. B * 0 + B <= B * K /\ B * K \in Nat /\ B * 0 = 0
    BY <2>1, Multiples
  <2>3. B * K > 0 /\ B * K = K * B
    BY <2>2
  <2> QED BY <2>2, <2>3
<1>4. KeyBits = m /\ Padded = B + m
  BY <1>2, <1>3 DEF KeyBits, Padded
<1>5. PICK n \in Nat : n = m + C - 1
  OBVIOUS
<1>6. PICK y \in Nat, r \in 0 .. C - 1 : y = n \div C /\ n = C * y + r
  BY LastDigit
<1>7. KeyChars = y
  BY <1>2, <1>4, <1>5, <1>6 DEF KeyChars
<1>8. PICK u \in Nat : u = C * y /\ u = y * C
  OBVIOUS
<1>9. Spare = C - 1 - r /\ u = Spare + m
  <2>1. Spare = u - m
    BY <1>2, <1>4, <1>7, <1>8 DEF Spare
  <2> QED BY <1>5, <1>6, <1>8, <2>1
<1>10. y # 0
  <2>1. C * 0 = 0
    OBVIOUS
  <2> QED BY <1>3, <1>8, <1>9, <2>1
<1>11. B * (K + 1) = B * K + B
  OBVIOUS
<1>12. C * ChecksumChars = B * Q /\ ChecksumChars \in Nat
  <2>1. PICK x \in Nat : x = Q * B /\ x = B * Q
    OBVIOUS
  <2>2. x % C = 0 /\ ChecksumChars = x \div C
    BY <1>2, <2>1, EncodingAssumption DEF ChecksumChars
  <2>3. x \div C \in Nat /\ x = C * (x \div C) + (x % C)
    BY LastDigit
  <2> QED BY <2>1, <2>2, <2>3
<1>13. (KeyChars + 1) * CharBits > Padded
  BY EncodingAssumption
<1> QED BY <1>1, <1>2, <1>3, <1>4, <1>7, <1>8, <1>9, <1>10, <1>11, <1>12, <1>13

\* The bits of bytes, with zeros in front
EncodedBits(bytes, zeros) == Repeated(zeros, 0) \o Written(bytes, 2, ByteBits)

\* encode writes the bits, with zeros in front, in characters.
LEMMA EncodeBits ==
    ASSUME NEW bytes \in Seq(Byte), NEW z \in Nat, NEW n \in Nat,
           z + ByteBits * Len(bytes) = CharBits * n
    PROVE  /\ Digital(Written(bytes, 2, ByteBits), 2, ByteBits * Len(bytes))
           /\ Digital(EncodedBits(bytes, z), 2, CharBits * n)
           /\ Encode(bytes, n * CharBits) = {Read(EncodedBits(bytes, z), 2, CharBits)}
<1>0. ByteBits \in Nat \ {0} /\ CharBits \in Nat \ {0} /\ 2 \in Nat \ {0}
  BY Sizes
<1>1. bytes \in Seq(Nat) /\ Len(bytes) \in Nat
  <2>1. Power(2, ByteBits) \in Nat
    BY <1>0, PowerStep
  <2> QED BY <2>1 DEF Byte
<1> DEFINE t == Written(bytes, 2, ByteBits)
           d == EncodedBits(bytes, z)
<1>2. PICK m \in Nat, c \in Nat :
          m = ByteBits * Len(bytes) /\ c = CharBits * n /\ c = n * CharBits /\ z + m = c
  BY <1>0, <1>1
<1>3. Digital(t, 2, m)
  <2>1. Digital(t, 2, ByteBits * Len(bytes))
    BY <1>0, <1>1, WrittenAt
  <2> QED BY <1>2, <2>1
<1> HIDE DEF t
<1>4. Digital(d, 2, c)
  <2>1. Digital(Repeated(z, 0) \o t, 2, z + m)
    BY <1>0, <1>3, Padding
  <2> QED BY <1>2, <2>1 DEF EncodedBits, t
<1>5. Len(t) = m
  BY <1>3 DEF Digital
<1>6. BinaryString(bytes, n * CharBits) = d
  <2>1. n * CharBits - Len(t) = z
    BY <1>2, <1>5
  <2> QED BY <2>1 DEF BinaryString, EncodedBits, t
<1>7. Len(d) % CharBits = 0
  <2>1. Len(d) = c
    BY <1>4 DEF Digital
  <2>2. (CharBits * n + 0) % CharBits = 0
    <3>1. 0 \in 0 .. CharBits - 1
      BY <1>0
    <3> QED BY <1>0, <3>1, DigitAdded
  <2>3. c = CharBits * n + 0
    BY <1>2
  <2> QED BY <2>1, <2>2, <2>3
<1>8. Encode(bytes, n * CharBits) = {Read(d, 2, CharBits)}
  <2> HIDE DEF d
  <2> QED BY <1>6, <1>7 DEF Encode
<1> QED BY <1>2, <1>3, <1>4, <1>8 DEF t

KeyText(key) == Read(EncodedBits(key, Spare), 2, CharBits)

\* A text is as long as the key needs, of characters of the table, and starts
\* with one of those the regular expression wants.
KeyTexts == {text \in Seq(Table) : Len(text) = KeyChars /\ text[1] \in First}

\* A key is a sequence of bytes.
LEMMA KeyIsBytes ==
    ASSUME NEW key \in [1 .. KeyBytes -> Byte]
    PROVE  key \in Seq(Byte) /\ Len(key) = KeyBytes
<1>1. KeyBytes \in Nat
  BY Sizes
<1> QED BY <1>1

\* publicAddress has one text for a key.
LEMMA KeyEncoded ==
    ASSUME NEW key \in [1 .. KeyBytes -> Byte]
    PROVE  EncodePublicKey(key) = {KeyText(key)} /\ KeyText(key) \in KeyTexts
<1>0. /\ CharBits \in Nat \ {0} /\ KeyBytes \in Nat /\ KeyChars \in Nat \ {0}
      /\ Spare \in Nat /\ Spare \in 0 .. CharBits - 1 /\ Spare \in 0 .. CharBits
      /\ Spare + KeyBits = KeyChars * CharBits /\ KeyBits = ByteBits * KeyBytes
      /\ ByteBits \in Nat \ {0} /\ 2 \in Nat \ {0}
  BY Sizes
<1>1. key \in Seq(Byte) /\ Len(key) = KeyBytes
  BY KeyIsBytes
<1>2. KeyChars * CharBits = CharBits * KeyChars
  BY <1>0
<1>3. Spare + ByteBits * Len(key) = CharBits * KeyChars
  BY <1>0, <1>1, <1>2
<1> DEFINE d == EncodedBits(key, Spare)
           text == KeyText(key)
<1>4. /\ Digital(Written(key, 2, ByteBits), 2, ByteBits * Len(key))
      /\ Digital(d, 2, CharBits * KeyChars)
      /\ Encode(key, KeyChars * CharBits) = {Read(d, 2, CharBits)}
  BY <1>0, <1>1, <1>3, EncodeBits
<1>5. \A i \in 1 .. Spare : d[i] = 0
  <2>1. PICK m \in Nat : m = ByteBits * Len(key)
    BY <1>0, <1>1
  <2>2. Digital(Written(key, 2, ByteBits), 2, m)
    BY <1>4, <2>1
  <2>3. PICK e : e = Written(key, 2, ByteBits) /\ Digital(e, 2, m)
    BY <2>2
  <2>4. Zeros(Repeated(Spare, 0) \o e, Spare)
    BY <1>0, <2>1, <2>3, Padding
  <2> QED BY <2>3, <2>4 DEF EncodedBits, Zeros
<1> HIDE DEF d
<1>6. IsRead(text, d, 2, CharBits, KeyChars)
  <2>1. IsRead(Read(d, 2, CharBits), d, 2, CharBits, KeyChars)
    BY <1>0, <1>4, ReadAt
  <2> QED BY <2>1 DEF KeyText, d
<1> HIDE DEF text
<1>7. text \in Seq(Table) /\ Len(text) = KeyChars
  <2>1. text \in Seq(Nat) /\ Len(text) = KeyChars /\ \A k \in 1 .. KeyChars : text[k] \in Table
    BY <1>6 DEF IsRead, Table
  <2> QED BY <1>0, <2>1
<1>8. text[1] \in First
  <2>1. 1 \in 1 .. KeyChars
    BY <1>0
  <2>2. PICK e : e = Piece(d, 1, CharBits) /\ Digital(e, 2, CharBits) /\ text[1] = Value(e, 2)
    BY <1>6, <2>1 DEF IsRead
  <2>3. ASSUME NEW i \in 1 .. Spare PROVE e[i] = 0
    <3>1. d \in Seq(Nat) /\ Len(d) = CharBits * KeyChars
      BY <1>4 DEF Digital
    <3>2. IsPiece(d, 1, CharBits)
      BY <1>0, <2>1, <3>1, PieceAt
    <3>3. i \in 1 .. CharBits
      BY <1>0
    <3>4. e[i] = d[(1 - 1) * CharBits + i]
      BY <2>2, <3>2, <3>3 DEF IsPiece
    <3>5. (1 - 1) * CharBits + i = i
      BY <1>0
    <3> QED BY <1>5, <3>4, <3>5
  <2>4. Value(e, 2) \in Nat /\ Value(e, 2) < Power(2, CharBits - Spare)
    BY <1>0, <2>2, <2>3, ValueBound
  <2>5. First = 0 .. Power(2, CharBits - Spare) - 1
    BY DEF First, Spare
  <2>6. Power(2, CharBits - Spare) \in Nat
    <3>1. CharBits - Spare \in Nat
      BY <1>0
    <3> QED BY <1>0, <3>1, PowerStep
  <2> QED BY <2>2, <2>4, <2>5, <2>6
<1>9. EncodePublicKey(key) = {text}
  BY <1>4 DEF EncodePublicKey, text, KeyText, d
<1> QED BY <1>7, <1>8, <1>9 DEF text, KeyTexts

\* The bits that decode pads to a byte more than a key
LEMMA DecodedBits ==
    ASSUME NEW text \in Seq(Table), Len(text) * CharBits <= Padded
    PROVE  /\ Digital(Decode(text), 2, ByteBits * (KeyBytes + 1))
           /\ Digital(Written(text, 2, CharBits), 2, CharBits * Len(text))
           /\ Decode(text) = Repeated(Padded - CharBits * Len(text), 0) \o Written(text, 2, CharBits)
<1>0. /\ CharBits \in Nat \ {0} /\ ByteBits \in Nat \ {0} /\ KeyBytes \in Nat
      /\ Padded = ByteBits * (KeyBytes + 1) /\ 2 \in Nat \ {0}
  BY Sizes
<1>1. text \in Seq(Nat) /\ Len(text) \in Nat
  <2>1. Power(2, CharBits) \in Nat
    BY <1>0, PowerStep
  <2> QED BY <2>1 DEF Table
<1>2. PICK m \in Nat, p \in Nat : m = CharBits * Len(text) /\ m = Len(text) * CharBits /\ p = Padded
  BY <1>0, <1>1
<1> DEFINE t == Written(text, 2, CharBits)
<1>3. Digital(t, 2, m)
  <2>1. Digital(t, 2, CharBits * Len(text))
    BY <1>0, <1>1, WrittenAt
  <2> QED BY <1>2, <2>1
<1>4. Decode(text) = Repeated(p - m, 0) \o t
  <2>1. Len(t) = m
    BY <1>3 DEF Digital
  <2> QED BY <1>2, <2>1 DEF Decode
<1> HIDE DEF t
<1>5. p - m \in Nat /\ (p - m) + m = p
  BY <1>2
<1>6. Digital(Repeated(p - m, 0) \o t, 2, (p - m) + m)
  BY <1>0, <1>3, <1>5, Padding
<1> QED BY <1>0, <1>2, <1>3, <1>4, <1>5, <1>6 DEF t

\* The key of a text is a key.
LEMMA KeyOfBytes ==
    ASSUME NEW text \in Seq(Table), Len(text) * CharBits <= Padded
    PROVE  /\ KeyOf(text) \in [1 .. KeyBytes -> Byte]
           /\ KeyOf(text) = Read(Dropped(Decode(text), ByteBits), 2, ByteBits)
           /\ Digital(Dropped(Decode(text), ByteBits), 2, ByteBits * KeyBytes)
<1>0. ByteBits \in Nat \ {0} /\ KeyBytes \in Nat /\ 2 \in Nat \ {0}
  BY Sizes
<1>1. Digital(Decode(text), 2, ByteBits * (KeyBytes + 1))
  BY DecodedBits
<1>2. PICK d : d = Decode(text)
  OBVIOUS
<1>3. /\ Digital(Dropped(d, ByteBits), 2, ByteBits * KeyBytes)
      /\ Dropped(Read(d, 2, ByteBits), 1) = Read(Dropped(d, ByteBits), 2, ByteBits)
  BY <1>0, <1>1, <1>2, ReadDropped
<1>4. PICK e : e = Dropped(d, ByteBits)
  OBVIOUS
<1>5. KeyOf(text) = Read(e, 2, ByteBits)
  BY <1>2, <1>3, <1>4 DEF KeyOf, BinaryToBytes
<1>6. IsRead(Read(e, 2, ByteBits), e, 2, ByteBits, KeyBytes)
  BY <1>0, <1>3, <1>4, ReadAt
<1>7. KeyOf(text) \in Seq(Nat) /\ Len(KeyOf(text)) = KeyBytes
      /\ \A k \in 1 .. KeyBytes : KeyOf(text)[k] \in Byte
  BY <1>5, <1>6 DEF IsRead, Byte
<1>8. KeyOf(text) \in [1 .. KeyBytes -> Byte]
  BY <1>0, <1>7
<1> QED BY <1>2, <1>3, <1>4, <1>5, <1>8

\* The key of the text of a key is the key.
LEMMA KeyOfKeyText ==
    ASSUME NEW key \in [1 .. KeyBytes -> Byte]
    PROVE  KeyOf(KeyText(key)) = key
<1>0. /\ CharBits \in Nat \ {0} /\ KeyBytes \in Nat /\ KeyChars \in Nat \ {0}
      /\ Spare \in Nat /\ Spare \in 0 .. CharBits - 1 /\ CharBits <= ByteBits /\ KeyBits \in Nat
      /\ Spare + KeyBits = KeyChars * CharBits /\ KeyBits = ByteBits * KeyBytes
      /\ Padded = ByteBits + KeyBits /\ ByteBits \in Nat \ {0} /\ 2 \in Nat \ {0}
  BY Sizes
<1>1. key \in Seq(Byte) /\ Len(key) = KeyBytes
  BY KeyIsBytes
<1>2. PICK text : text = KeyText(key)
  OBVIOUS
<1>3. text \in Seq(Table) /\ Len(text) = KeyChars
  BY <1>2, KeyEncoded DEF KeyTexts
<1>4. KeyChars * CharBits = CharBits * KeyChars
  BY <1>0
<1>5. Len(text) * CharBits <= Padded
  BY <1>0, <1>3
<1>6. PICK t : t = Written(key, 2, ByteBits)
  OBVIOUS
<1>7. Digital(t, 2, KeyBits) /\ Digital(EncodedBits(key, Spare), 2, CharBits * KeyChars)
  <2>1. Spare + ByteBits * Len(key) = CharBits * KeyChars
    BY <1>0, <1>1, <1>4
  <2>2. /\ Digital(Written(key, 2, ByteBits), 2, ByteBits * Len(key))
        /\ Digital(EncodedBits(key, Spare), 2, CharBits * KeyChars)
    BY <1>0, <1>1, <2>1, EncodeBits
  <2> QED BY <1>0, <1>1, <1>6, <2>2
<1>8. Written(text, 2, CharBits) = Repeated(Spare, 0) \o t
  <2>1. Written(Read(EncodedBits(key, Spare), 2, CharBits), 2, CharBits) = EncodedBits(key, Spare)
    BY <1>0, <1>7, WrittenRead
  <2> QED BY <1>2, <1>6, <2>1 DEF KeyText, EncodedBits
<1>9. PICK g \in Nat : g = Padded - CharBits * Len(text) /\ g + Spare = ByteBits
  BY <1>0, <1>3, <1>4
<1>10. Decode(text) = Repeated(g, 0) \o (Repeated(Spare, 0) \o t)
  <2>1. Decode(text) = Repeated(Padded - CharBits * Len(text), 0) \o Written(text, 2, CharBits)
    BY <1>3, <1>5, DecodedBits
  <2> QED BY <1>8, <1>9, <2>1
<1>11. Dropped(Decode(text), ByteBits) = t
  <2>1. PICK u : u = Repeated(Spare, 0) \o t
    OBVIOUS
  <2>2. Digital(u, 2, Spare + KeyBits) /\ Dropped(u, Spare) = t
    BY <1>0, <1>7, <2>1, Padding
  <2>3. Spare + KeyBits \in Nat
    BY <1>0
  <2>4. PICK y : y = Repeated(g, 0) \o u
    OBVIOUS
  <2>5. Digital(y, 2, g + (Spare + KeyBits)) /\ Dropped(y, g) = u
    BY <1>0, <2>2, <2>3, <2>4, Padding
  <2>6. g + (Spare + KeyBits) = ByteBits + KeyBits
    BY <1>0, <1>9
  <2>7. Rest(Dropped(y, ByteBits), y, ByteBits, KeyBits)
    BY <1>0, <2>5, <2>6, DroppedDigits
  <2>8. Digital(Dropped(y, ByteBits), 2, KeyBits)
    BY <1>0, <2>5, <2>6, DroppedDigits
  <2>9. Rest(Dropped(y, g), y, g, Spare + KeyBits)
    BY <1>0, <2>3, <2>5, DroppedDigits
  <2>10. Rest(Dropped(u, Spare), u, Spare, KeyBits)
    BY <1>0, <2>2, DroppedDigits
  <2>11. ASSUME NEW i \in 1 .. KeyBits PROVE Dropped(y, ByteBits)[i] = t[i]
    <3>1. Spare + i \in 1 .. Spare + KeyBits /\ g + (Spare + i) = ByteBits + i
      BY <1>0, <1>9
    <3>2. y[g + (Spare + i)] = u[Spare + i]
      BY <2>5, <2>9, <3>1 DEF Rest
    <3>3. Dropped(y, ByteBits)[i] = y[ByteBits + i] /\ Dropped(u, Spare)[i] = u[Spare + i]
      BY <2>7, <2>10 DEF Rest
    <3> QED BY <2>2, <3>1, <3>2, <3>3
  <2>12. Dropped(y, ByteBits) \in Seq(Nat) /\ t \in Seq(Nat)
         /\ Len(Dropped(y, ByteBits)) = KeyBits /\ Len(t) = KeyBits
    BY <1>7, <2>8 DEF Digital
  <2>13. Dropped(y, ByteBits) = t
    BY <2>11, <2>12, SeqEqual
  <2> QED BY <1>10, <2>1, <2>4, <2>13
<1>12. KeyOf(text) = Read(t, 2, ByteBits)
  BY <1>3, <1>5, <1>11, KeyOfBytes
<1>13. Read(Written(key, 2, ByteBits), 2, ByteBits) = key
  BY <1>0, <1>1, ReadWritten DEF Byte
<1> QED BY <1>2, <1>6, <1>12, <1>13

\* And the text of the key of a text is the text.
LEMMA KeyTextKeyOf ==
    ASSUME NEW text \in KeyTexts
    PROVE  Len(text) * CharBits <= Padded /\ KeyText(KeyOf(text)) = text
<1>0. /\ CharBits \in Nat \ {0} /\ KeyBytes \in Nat /\ KeyChars \in Nat \ {0}
      /\ Spare \in Nat /\ Spare \in 0 .. CharBits - 1 /\ Spare \in 0 .. CharBits
      /\ CharBits <= ByteBits /\ KeyBits \in Nat
      /\ Spare + KeyBits = KeyChars * CharBits /\ KeyBits = ByteBits * KeyBytes
      /\ Padded = ByteBits + KeyBits /\ ByteBits \in Nat \ {0} /\ 2 \in Nat \ {0}
  BY Sizes
<1>1. text \in Seq(Table) /\ Len(text) = KeyChars /\ text[1] \in First
  BY DEF KeyTexts
<1>2. KeyChars * CharBits = CharBits * KeyChars
  BY <1>0
<1>3. Len(text) * CharBits <= Padded
  BY <1>0, <1>1
<1>4. text \in Seq(Nat) /\ \A k \in 1 .. KeyChars : text[k] \in Nat
  <2>1. Power(2, CharBits) \in Nat
    BY <1>0, PowerStep
  <2> QED BY <1>1, <2>1 DEF Table
<1>5. PICK d : d = Written(text, 2, CharBits)
  OBVIOUS
<1>6. /\ Digital(d, 2, CharBits * KeyChars)
      /\ \A k \in 1 .. KeyChars, j \in 1 .. CharBits : d[(k - 1) * CharBits + j] = Numeral(text[k], 2, CharBits)[j]
  <2>1. Digital(d, 2, CharBits * Len(text)) /\ Spelled(d, text, 2, CharBits)
    BY <1>0, <1>4, <1>5, WrittenAt
  <2> QED BY <1>1, <2>1 DEF Spelled
<1>7. Digital(d, 2, Spare + KeyBits)
  BY <1>0, <1>2, <1>6
<1>8. ASSUME NEW i \in 1 .. Spare PROVE d[i] = 0
  <2>1. 1 \in 1 .. KeyChars /\ i \in 1 .. CharBits /\ (1 - 1) * CharBits + i = i
    BY <1>0
  <2>2. d[i] = Numeral(text[1], 2, CharBits)[i]
    BY <1>6, <2>1
  <2>3. text[1] \in Nat /\ text[1] < Power(2, CharBits - Spare)
    <3>1. CharBits - Spare \in Nat
      BY <1>0
    <3>2. Power(2, CharBits - Spare) \in Nat
      BY <1>0, <3>1, PowerStep
    <3>3. First = 0 .. Power(2, CharBits - Spare) - 1
      BY DEF First, Spare
    <3> QED BY <1>1, <3>2, <3>3
  <2>4. Zeros(Numeral(text[1], 2, CharBits), Spare)
    BY <1>0, <2>3, NumeralZeros
  <2> QED BY <2>2, <2>4 DEF Zeros
<1>9. PICK g \in Nat : g = Padded - CharBits * Len(text) /\ g + Spare = ByteBits
  BY <1>0, <1>1, <1>2
<1>10. PICK y : y = Repeated(g, 0) \o d
  OBVIOUS
<1>11. Decode(text) = y
  <2>1. Decode(text) = Repeated(Padded - CharBits * Len(text), 0) \o Written(text, 2, CharBits)
    BY <1>1, <1>3, DecodedBits
  <2> QED BY <1>5, <1>9, <1>10, <2>1
<1>12. Dropped(y, ByteBits) = Dropped(d, Spare)
  <2>1. Spare + KeyBits \in Nat
    BY <1>0
  <2>2. Digital(y, 2, g + (Spare + KeyBits)) /\ Dropped(y, g) = d
    BY <1>0, <1>7, <1>10, <2>1, Padding
  <2>3. g + (Spare + KeyBits) = ByteBits + KeyBits
    BY <1>0, <1>9
  <2>4. Rest(Dropped(y, ByteBits), y, ByteBits, KeyBits)
    BY <1>0, <2>2, <2>3, DroppedDigits
  <2>5. Digital(Dropped(y, ByteBits), 2, KeyBits)
    BY <1>0, <2>2, <2>3, DroppedDigits
  <2>6. Rest(Dropped(y, g), y, g, Spare + KeyBits)
    BY <1>0, <2>1, <2>2, DroppedDigits
  <2>7. /\ Digital(Dropped(d, Spare), 2, KeyBits)
        /\ Rest(Dropped(d, Spare), d, Spare, KeyBits)
    BY <1>0, <1>7, DroppedDigits
  <2>8. ASSUME NEW i \in 1 .. KeyBits PROVE Dropped(y, ByteBits)[i] = Dropped(d, Spare)[i]
    <3>1. Spare + i \in 1 .. Spare + KeyBits /\ g + (Spare + i) = ByteBits + i
      BY <1>0, <1>9
    <3>2. y[g + (Spare + i)] = d[Spare + i]
      BY <2>2, <2>6, <3>1 DEF Rest
    <3>3. Dropped(y, ByteBits)[i] = y[ByteBits + i] /\ Dropped(d, Spare)[i] = d[Spare + i]
      BY <2>4, <2>7 DEF Rest
    <3> QED BY <3>1, <3>2, <3>3
  <2>9. /\ Dropped(y, ByteBits) \in Seq(Nat) /\ Dropped(d, Spare) \in Seq(Nat)
        /\ Len(Dropped(y, ByteBits)) = KeyBits /\ Len(Dropped(d, Spare)) = KeyBits
    BY <2>5, <2>7 DEF Digital
  <2> QED BY <2>8, <2>9, SeqEqual
<1>13. PICK e : e = Dropped(d, Spare)
  OBVIOUS
<1>14. KeyOf(text) = Read(e, 2, ByteBits) /\ Digital(e, 2, ByteBits * KeyBytes)
  BY <1>1, <1>3, <1>11, <1>12, <1>13, KeyOfBytes
<1>15. Written(KeyOf(text), 2, ByteBits) = e
  <2>1. Written(Read(e, 2, ByteBits), 2, ByteBits) = e
    BY <1>0, <1>14, WrittenRead
  <2> QED BY <1>14, <2>1
<1>16. EncodedBits(KeyOf(text), Spare) = d
  <2>1. Repeated(Spare, 0) \o Dropped(d, Spare) = d
    BY <1>0, <1>7, <1>8, ZerosDropped
  <2> QED BY <1>13, <1>15, <2>1 DEF EncodedBits
<1>17. Read(Written(text, 2, CharBits), 2, CharBits) = text
  BY <1>0, <1>1, ReadWritten DEF Table
<1> QED BY <1>3, <1>5, <1>16, <1>17 DEF KeyText

----------------------------------------------------------------------------
(* Addresses.                                                              *)

\* A sequence and its two parts.
LEMMA Parts ==
    ASSUME NEW S, NEW r \in Seq(S), NEW s \in Seq(S)
    PROVE  /\ r \o s \in Seq(S) /\ Len(r \o s) = Len(r) + Len(s)
           /\ Without(r \o s, Len(s)) = r /\ Dropped(r \o s, Len(r)) = s
<1>1. PICK t : t = r \o s
  OBVIOUS
<1>2. /\ t \in Seq(S) /\ Len(t) = Len(r) + Len(s)
      /\ \A i \in 1 .. Len(r) + Len(s) : t[i] = IF i <= Len(r) THEN r[i] ELSE s[i - Len(r)]
  BY <1>1, ConcatProperties
<1>3. PICK m \in Nat, n \in Nat : m = Len(r) /\ n = Len(s)
  OBVIOUS
<1>4. Without(t, n) = r
  <2>1. Without(t, n) = SubSeq(t, 1, m)
    BY <1>2, <1>3 DEF Without
  <2>2. Len(SubSeq(t, 1, m)) = m /\ \A i \in 1 .. m : SubSeq(t, 1, m)[i] = t[i]
    BY <1>2, <1>3
  <2>3. \A i \in 1 .. m : t[i] = r[i]
    BY <1>2, <1>3
  <2>4. SubSeq(t, 1, m) \in Seq(S)
    BY <1>2, <1>3
  <2>5. SubSeq(t, 1, m) = r
    BY <1>3, <2>2, <2>3, <2>4, SeqEqual
  <2> QED BY <2>1, <2>5
<1>5. Dropped(t, m) = s
  <2>1. Dropped(t, m) = SubSeq(t, m + 1, m + n)
    BY <1>2, <1>3 DEF Dropped
  <2>2. PICK u : u = SubSeq(t, m + 1, m + n)
    OBVIOUS
  <2>3. u \in Seq(S) /\ Len(u) = n /\ \A i \in 1 .. n : u[i] = t[m + i]
    BY <1>2, <1>3, <2>2
  <2>4. ASSUME NEW i \in 1 .. n PROVE t[m + i] = s[i]
    <3>1. m + i \in 1 .. m + n /\ ~ (m + i <= m) /\ (m + i) - m = i
      OBVIOUS
    <3> QED BY <1>2, <1>3, <3>1
  <2>5. u = s
    BY <1>3, <2>3, <2>4, SeqEqual
  <2> QED BY <2>1, <2>2, <2>5
<1> QED BY <1>1, <1>2, <1>3, <1>4, <1>5

\* A sequence from its parts.
LEMMA PartsJoined ==
    ASSUME NEW S, NEW s \in Seq(S), NEW n \in 0 .. Len(s)
    PROVE  /\ Without(s, n) \in Seq(S) /\ Len(Without(s, n)) = Len(s) - n
           /\ Dropped(s, Len(s) - n) \in Seq(S) /\ Len(Dropped(s, Len(s) - n)) = n
           /\ Without(s, n) \o Dropped(s, Len(s) - n) = s
<1>1. PICK m \in Nat, k \in Nat : m = Len(s) /\ k = m - n /\ n \in Nat
  OBVIOUS
<1>2. Without(s, n) \in Seq(S) /\ Len(Without(s, n)) = m - n
  BY <1>1 DEF Without
<1>3. Dropped(s, k) \in Seq(S) /\ Len(Dropped(s, k)) = n
  BY <1>1 DEF Dropped
<1>4. SubSeq(s, 1, k) \o SubSeq(s, k + 1, m) = SubSeq(s, 1, m)
  <2>1. 1 \in 1 .. Len(s) + 1 /\ k \in 1 - 1 .. Len(s) /\ m \in k .. Len(s)
    BY <1>1
  <2> QED BY <2>1, ConcatAdjacentSubSeq
<1>5. SubSeq(s, 1, m) = s
  BY <1>1
<1>6. Without(s, n) = SubSeq(s, 1, k) /\ Dropped(s, k) = SubSeq(s, k + 1, m)
  BY <1>1 DEF Without, Dropped
<1> QED BY <1>1, <1>2, <1>3, <1>4, <1>5, <1>6

\* Three sequences after each other.
Regrouped(r, s, t) == (r \o s) \o t = r \o (s \o t)

\* It does not matter which two are joined first.
LEMMA Regroup ==
    ASSUME NEW S, NEW r \in Seq(S), NEW s \in Seq(S), NEW t \in Seq(S)
    PROVE  Regrouped(r, s, t)
BY ConcatAssociative DEF Regrouped

\* Every prefix starts with a character no other kind of prefix has.
LEMMA PrefixTexts ==
    ASSUME NEW p \in {"nano", "xrb", "banano"}
    PROVE  /\ PrefixText(p) \in Seq(Int) /\ Len(PrefixText(p)) \in 1 .. 2
           /\ PrefixText(p)[1] = Nano =>
                 /\ PrefixText(p)[2] = Underscore /\ Len(PrefixText(p)) = 2
           /\ PrefixText(p)[1] # Nano =>
                 /\ PrefixText(p)[1] \in {Xrb, Ban} /\ Len(PrefixText(p)) = 1
<1>1. CASE p = "nano"
  <2>1. PrefixText(p) = <<Nano, Underscore>>
    BY <1>1 DEF PrefixText
  <2> QED BY <2>1 DEF Nano, Underscore
<1>2. CASE p = "xrb"
  <2>1. PrefixText(p) = <<Xrb>>
    BY <1>2 DEF PrefixText
  <2> QED BY <2>1 DEF Nano, Xrb, Ban
<1>3. CASE p = "banano"
  <2>1. PrefixText(p) = <<Ban>>
    BY <1>3 DEF PrefixText
  <2> QED BY <2>1 DEF Nano, Xrb, Ban
<1> QED BY <1>1, <1>2, <1>3

\* splitAddress finds what was put together.
LEMMA SplitAt ==
    ASSUME NEW p \in {"nano", "xrb", "banano"}, NEW e \in Seq(Int), NEW c \in Seq(Int),
           Len(c) = ChecksumChars
    PROVE  SplitAddress(PrefixText(p) \o e \o c) = {[encoded |-> e, checksum |-> c]}
<1>1. PICK x \in Seq(Int) : x = PrefixText(p)
  BY PrefixTexts
<1>2. /\ Len(x) \in 1 .. 2 /\ (x[1] = Nano => x[2] = Underscore /\ Len(x) = 2)
      /\ (x[1] # Nano => x[1] \in {Xrb, Ban} /\ Len(x) = 1)
  BY <1>1, PrefixTexts
<1>3. PICK f : f = x \o e
  OBVIOUS
<1>4. f \in Seq(Int) /\ Len(f) = Len(x) + Len(e) /\ Dropped(f, Len(x)) = e
  BY <1>3, Parts
<1>5. f[1] = x[1] /\ (Len(x) = 2 => f[2] = x[2])
  BY <1>2, <1>3
<1>6. PICK a : a = f \o c
  OBVIOUS
<1>7. /\ a \in Seq(Int) /\ Len(a) = Len(f) + Len(c)
      /\ Without(a, Len(c)) = f /\ Dropped(a, Len(f)) = c
  BY <1>4, <1>6, Parts
<1>8. a[1] = x[1] /\ (Len(x) = 2 => a[2] = x[2])
  BY <1>2, <1>4, <1>5, <1>6
<1>9. Suffix(a, ChecksumChars) = c
  <2>1. ChecksumChars \in Nat /\ Len(f) \in Nat
    BY Sizes
  <2>2. ~ (Len(a) < ChecksumChars) /\ Len(a) - ChecksumChars = Len(f)
    BY <1>7, <2>1
  <2> QED BY <1>7, <2>2 DEF Suffix
<1>10. HasPrefix(a)
  <2>1. Len(a) \in Nat /\ Len(a) >= Len(x) /\ DOMAIN a = 1 .. Len(a)
    BY <1>4, <1>7
  <2>2. CASE x[1] = Nano
    <3>1. a[1] = Nano /\ a[2] = Underscore /\ Len(x) = 2
      BY <1>2, <1>8, <2>2
    <3>2. 1 \in 1 .. Len(a) - 1 /\ 1 + 1 = 2
      BY <2>1, <3>1
    <3> QED BY <3>1, <3>2 DEF HasPrefix
  <2>3. CASE x[1] # Nano
    <3>1. 1 \in DOMAIN a /\ a[1] \in {Xrb, Ban}
      BY <1>2, <1>8, <2>1, <2>3
    <3> QED BY <3>1 DEF HasPrefix
  <2> QED BY <2>2, <2>3
<1>11. f # << >>
  BY <1>2, <1>4
<1>12. SplitAddress(a) = {[encoded |-> Dropped(f, Len(x)), checksum |-> c]}
  <2>1. CASE x[1] = Nano
    BY <1>2, <1>5, <1>7, <1>9, <1>10, <1>11, <2>1 DEF SplitAddress
  <2>2. CASE x[1] # Nano
    BY <1>2, <1>5, <1>7, <1>9, <1>10, <1>11, <2>2 DEF SplitAddress
  <2> QED BY <2>1, <2>2
<1> QED BY <1>1, <1>3, <1>4, <1>6, <1>12

\* An address is split in one way or not at all.
LEMMA SplitOnce ==
    ASSUME NEW a \in Seq(Int)
    PROVE  \/ SplitAddress(a) = {}
           \/ \E e \in Seq(Int) : \E c : SplitAddress(a) = {[encoded |-> e, checksum |-> c]}
<1>1. ChecksumChars \in Nat
  BY Sizes
<1>2. PICK f : f = Without(a, ChecksumChars)
  OBVIOUS
<1>3. f \in Seq(Int)
  BY <1>1, <1>2 DEF Without
<1>4. Dropped(f, 1) \in Seq(Int) /\ Dropped(f, 2) \in Seq(Int)
  BY <1>3 DEF Dropped
<1>5. \/ SplitAddress(a) = {}
      \/ SplitAddress(a) = {[encoded |-> Dropped(f, 2), checksum |-> Suffix(a, ChecksumChars)]}
      \/ SplitAddress(a) = {[encoded |-> Dropped(f, 1), checksum |-> Suffix(a, ChecksumChars)]}
  BY <1>2 DEF SplitAddress
<1> QED BY <1>4, <1>5

\* A checksum is as many bytes as the constants say.
DigestIsBytes ==
    \A key \in [1 .. KeyBytes -> Byte] : Digest(key) \in [1 .. ChecksumBytes -> Byte]

\* createChecksum succeeds, with as many characters as it should.
LEMMA ChecksumEncoded ==
    ASSUME DigestIsBytes, NEW key \in [1 .. KeyBytes -> Byte]
    PROVE  \E c \in Seq(Table) : Len(c) = ChecksumChars /\ CreateChecksum(key) = {c}
<1>0. /\ CharBits \in Nat \ {0} /\ ByteBits \in Nat \ {0} /\ 2 \in Nat \ {0}
      /\ ChecksumBytes \in Nat /\ ChecksumChars \in Nat /\ 0 \in Nat
      /\ CharBits * ChecksumChars = ByteBits * ChecksumBytes
  BY Sizes
<1>1. Digest(key) \in Seq(Byte) /\ Len(Digest(key)) = ChecksumBytes
  <2>1. Digest(key) \in [1 .. ChecksumBytes -> Byte]
    BY DEF DigestIsBytes
  <2> QED BY <1>0, <2>1
<1>2. PICK s : s = Seqs!Reverse(Digest(key))
  OBVIOUS
<1>3. s \in Seq(Byte) /\ Len(s) = ChecksumBytes
  <2>1. s = [i \in 1 .. ChecksumBytes |-> Digest(key)[(ChecksumBytes - i) + 1]]
    BY <1>1, <1>2 DEF Seqs!Reverse
  <2>2. \A i \in 1 .. ChecksumBytes : Digest(key)[(ChecksumBytes - i) + 1] \in Byte
    <3>1. \A i \in 1 .. ChecksumBytes : (ChecksumBytes - i) + 1 \in 1 .. ChecksumBytes
      BY <1>0
    <3> QED BY <1>1, <3>1
  <2> QED BY <1>0, <2>1, <2>2
<1>4. 0 + ByteBits * Len(s) = CharBits * ChecksumChars
  BY <1>0, <1>3
<1>5. PICK d : d = EncodedBits(s, 0)
  OBVIOUS
<1>6. /\ Digital(d, 2, CharBits * ChecksumChars)
      /\ Encode(s, ChecksumChars * CharBits) = {Read(d, 2, CharBits)}
  BY <1>0, <1>3, <1>4, <1>5, EncodeBits
<1>7. PICK c : c = Read(d, 2, CharBits)
  OBVIOUS
<1>8. IsRead(c, d, 2, CharBits, ChecksumChars)
  BY <1>0, <1>6, <1>7, ReadAt
<1>9. c \in Seq(Table) /\ Len(c) = ChecksumChars
  <2>1. c \in Seq(Nat) /\ Len(c) = ChecksumChars /\ \A k \in 1 .. ChecksumChars : c[k] \in Table
    BY <1>8 DEF IsRead, Table
  <2> QED BY <1>0, <2>1
<1>10. CreateChecksum(key) = {c}
  BY <1>2, <1>6, <1>7 DEF CreateChecksum
<1> QED BY <1>9, <1>10

\* Characters and bytes are numbers.
LEMMA TableSize == Table \subseteq Int /\ Table \subseteq Nat /\ Byte \subseteq Int
<1>1. Power(2, CharBits) \in Nat /\ Power(2, ByteBits) \in Nat
  <2>1. 2 \in Nat /\ CharBits \in Nat /\ ByteBits \in Nat
    BY Sizes
  <2> QED BY <2>1, PowerStep
<1> QED BY <1>1 DEF Table, Byte

\* A key has one address with each prefix: two texts after the prefix.
AddressIs(p, key, c) == PublicAddress(p, key) = {PrefixText(p) \o KeyText(key) \o c}

\* publicAddress joins what it is made of.
LEMMA PublicAddressIs ==
    ASSUME NEW p, NEW key, NEW c, EncodePublicKey(key) = {KeyText(key)}, CreateChecksum(key) = {c}
    PROVE  AddressIs(p, key, c)
BY DEF PublicAddress, AddressIs

\* An address that is made of a key and its checksum is valid.
LEMMA MadeIsValid ==
    ASSUME DigestIsBytes, NEW key \in [1 .. KeyBytes -> Byte],
           NEW p \in {"nano", "xrb", "banano"}, NEW a \in PublicAddress(p, key)
    PROVE  /\ CheckIfAddressIsValid(a) = {"valid"}
           /\ SplitAddress(a) # {} /\ a \in Seq(Int)
           /\ \A split \in SplitAddress(a) :
                 /\ Decodes(split.encoded) /\ ~DecodeTraps(split.encoded)
                 /\ KeyOf(split.encoded) = key
<1>0. KeyChars \in Nat \ {0} /\ ChecksumChars \in Nat
  BY Sizes
<1>1. PICK c \in Seq(Table) : Len(c) = ChecksumChars /\ CreateChecksum(key) = {c}
  BY ChecksumEncoded
<1>2. PICK e : e = KeyText(key)
  OBVIOUS
<1>3. EncodePublicKey(key) = {KeyText(key)} /\ e \in KeyTexts
  BY <1>2, KeyEncoded
<1>4. e \in Seq(Table) /\ Len(e) = KeyChars /\ e[1] \in First
  BY <1>3 DEF KeyTexts
<1>5. a = PrefixText(p) \o e \o c
  <2>1. AddressIs(p, key, c)
    BY <1>1, <1>3, PublicAddressIs
  <2> QED BY <1>2, <2>1 DEF AddressIs
<1>6. e \in Seq(Int) /\ c \in Seq(Int)
  BY <1>1, <1>4, TableSize, SeqMonotonic
<1>7. SplitAddress(a) = {[encoded |-> e, checksum |-> c]}
  BY <1>1, <1>5, <1>6, SplitAt
<1>8. KeyOf(e) = key
  BY <1>2, KeyOfKeyText
<1>9. Decodes(e) /\ ~DecodeTraps(e)
  <2>1. Len(e) * CharBits <= Padded
    BY <1>3, KeyTextKeyOf
  <2>2. Len(e) * CharBits \in Int /\ Padded \in Int
    BY <1>0, <1>4, Sizes
  <2>3. Decodes(e)
    BY <1>0, <1>4 DEF Decodes
  <2> QED BY <2>1, <2>2, <2>3 DEF DecodeTraps
<1>10. PICK x \in Seq(Int) : x = PrefixText(p)
  BY PrefixTexts
<1>11. PICK body : body = e \o c
  OBVIOUS
<1>12. body \in Seq(Table) /\ Len(body) = KeyChars + ChecksumChars /\ body[1] \in First
  <2>1. body \in Seq(Table) /\ Len(body) = KeyChars + ChecksumChars
    BY <1>1, <1>4, <1>11, Parts
  <2>2. body[1] = e[1]
    BY <1>0, <1>1, <1>4, <1>11
  <2> QED BY <1>4, <2>1, <2>2
<1>13. a = x \o body
  <2>1. (x \o e) \o c = x \o (e \o c)
    <3>1. Regrouped(x, e, c)
      BY <1>6, <1>10, Regroup
    <3> QED BY <3>1 DEF Regrouped
  <2> QED BY <1>5, <1>10, <1>11, <2>1
<1>14. body \in Seq(Int)
  BY <1>12, TableSize, SeqMonotonic
<1>15. /\ a \in Seq(Int) /\ Len(a) = Len(x) + Len(body)
       /\ Dropped(a, Len(x)) = body
  BY <1>10, <1>13, <1>14, Parts
<1>16. WellFormed(a)
  <2>1. SubSeq(a, Len(x) + 1, Len(a) - Len(<< >>)) = body
    <3>1. Len(a) - Len(<< >>) = Len(a)
      BY <1>15
    <3> QED BY <1>15, <3>1 DEF Dropped
  <2>2. a = x \o body \o << >>
    <3>1. (x \o body) \o << >> = x \o body
      BY <1>13, <1>15, ConcatEmptySeq
    <3> QED BY <1>13, <3>1
  <2>3. Decodes(body)
    BY <1>0, <1>12 DEF Decodes
  <2>4. << >> \in {<< >>, <<Newline>>}
    OBVIOUS
  <2> QED BY <1>10, <1>12, <2>1, <2>2, <2>3, <2>4 DEF WellFormed
<1>17. Checked([encoded |-> e, checksum |-> c]) = "valid"
  BY <1>1, <1>8, <1>9 DEF Checked
<1>18. CheckIfAddressIsValid(a) = {"valid"}
  BY <1>7, <1>16, <1>17 DEF CheckIfAddressIsValid
<1> QED BY <1>7, <1>8, <1>9, <1>15, <1>18

\* And a text that is valid is an address that is made so: the regular
\* expression, the first character and the trap of decode leave no other.
LEMMA ValidIsMade ==
    ASSUME DigestIsBytes, NEW a \in Seq(Int), "valid" \in CheckIfAddressIsValid(a)
    PROVE  \E split \in SplitAddress(a), p \in {"nano", "xrb", "banano"} :
              /\ Decodes(split.encoded) /\ ~DecodeTraps(split.encoded)
              /\ a \in PublicAddress(p, KeyOf(split.encoded))
<1>0. KeyChars \in Nat \ {0} /\ ChecksumChars \in Nat /\ CharBits \in Nat \ {0}
  BY Sizes
<1>1. /\ SplitAddress(a) # {} /\ WellFormed(a)
      /\ \E split \in SplitAddress(a) : Checked(split) = "valid"
  BY DEF CheckIfAddressIsValid, Rejected
<1>2. PICK p \in {"nano", "xrb", "banano"}, end \in {<< >>, <<Newline>>} :
        LET n == Len(PrefixText(p))
            body == SubSeq(a, n + 1, Len(a) - Len(end))
        IN  /\ a = PrefixText(p) \o body \o end
            /\ Len(body) = KeyChars + ChecksumChars /\ Decodes(body)
            /\ body[1] \in First
  BY <1>1 DEF WellFormed
<1>3. PICK x \in Seq(Int) : x = PrefixText(p)
  BY PrefixTexts
<1>4. PICK body : body = SubSeq(a, Len(x) + 1, Len(a) - Len(end))
  OBVIOUS
<1>5. /\ a = x \o body \o end /\ Len(body) = KeyChars + ChecksumChars
      /\ Decodes(body) /\ body[1] \in First
  BY <1>2, <1>3, <1>4
<1>6. end \in Seq(Int) /\ Len(end) \in 0 .. 1 /\ (Len(end) = 0 => end = << >>)
  <2>1. CASE end = << >>
    BY <2>1
  <2>2. CASE end = <<Newline>>
    BY <2>2 DEF Newline
  <2> QED BY <1>2, <2>1, <2>2
<1>7. body \in Seq(Int)
  <2>1. Len(x) + 1 \in 1 .. Len(a) + 1 \/ Len(x) + 1 \in Nat
    BY <1>3
  <2> QED BY <1>3, <1>4, <1>6
<1>8. PICK tail : tail = body \o end
  OBVIOUS
<1>9. tail \in Seq(Int) /\ Len(tail) = KeyChars + ChecksumChars + Len(end)
  <2>1. tail \in Seq(Int) /\ Len(tail) = Len(body) + Len(end)
    BY <1>6, <1>7, <1>8, Parts
  <2> QED BY <1>5, <2>1
<1>10. a = x \o tail
  <2>1. (x \o body) \o end = x \o (body \o end)
    <3>1. Regrouped(x, body, end)
      BY <1>3, <1>6, <1>7, Regroup
    <3> QED BY <3>1 DEF Regrouped
  <2> QED BY <1>5, <1>8, <2>1
<1>11. PICK e, c : e = Without(tail, ChecksumChars) /\ c = Dropped(tail, Len(tail) - ChecksumChars)
  OBVIOUS
<1>12. /\ e \in Seq(Int) /\ Len(e) = KeyChars + Len(end)
       /\ c \in Seq(Int) /\ Len(c) = ChecksumChars /\ e \o c = tail
  <2>1. ChecksumChars \in 0 .. Len(tail)
    BY <1>0, <1>6, <1>9
  <2>2. /\ Without(tail, ChecksumChars) \in Seq(Int)
        /\ Len(Without(tail, ChecksumChars)) = Len(tail) - ChecksumChars
        /\ Dropped(tail, Len(tail) - ChecksumChars) \in Seq(Int)
        /\ Len(Dropped(tail, Len(tail) - ChecksumChars)) = ChecksumChars
        /\ Without(tail, ChecksumChars) \o Dropped(tail, Len(tail) - ChecksumChars) = tail
    BY <1>9, <2>1, PartsJoined
  <2>3. Len(tail) - ChecksumChars = KeyChars + Len(end)
    BY <1>0, <1>6, <1>9
  <2> QED BY <1>11, <2>2, <2>3
<1>13. a = PrefixText(p) \o e \o c
  <2>1. (x \o e) \o c = x \o (e \o c)
    <3>1. Regrouped(x, e, c)
      BY <1>3, <1>12, Regroup
    <3> QED BY <3>1 DEF Regrouped
  <2> QED BY <1>3, <1>10, <1>12, <2>1
<1>14. SplitAddress(a) = {[encoded |-> e, checksum |-> c]}
  BY <1>12, <1>13, SplitAt
<1>15. /\ ~DecodeTraps(e) /\ Decodes(e) /\ {c} = CreateChecksum(KeyOf(e))
  <2>1. Checked([encoded |-> e, checksum |-> c]) = "valid"
    BY <1>1, <1>14
  <2> QED BY <2>1 DEF Checked
<1>16. Len(e) * CharBits <= Padded
  <2>1. Len(e) * CharBits \in Int /\ Padded \in Int
    BY <1>0, <1>12, Sizes
  <2> QED BY <1>15, <2>1 DEF DecodeTraps
<1>17. end = << >>
  <2>1. ASSUME Len(end) = 1 PROVE FALSE
    <3>1. Len(e) = KeyChars + 1
      BY <1>12, <2>1
    <3>2. (KeyChars + 1) * CharBits > Padded /\ Padded \in Int /\ (KeyChars + 1) * CharBits \in Int
      BY <1>0, Sizes
    <3> QED BY <1>16, <3>1, <3>2
  <2>2. Len(end) = 0
    BY <1>6, <2>1
  <2> QED BY <1>6, <2>2
<1>18. tail = body
  BY <1>7, <1>8, <1>17, ConcatEmptySeq
<1>19. e \in KeyTexts
  <2>1. Len(e) = KeyChars
    BY <1>0, <1>12, <1>17
  <2>2. e \in Seq(Table)
    <3>1. \A i \in 1 .. Len(e) : e[i] \in Table
      <4>1. DOMAIN e = 1 .. Len(e)
        BY <1>12
      <4> QED BY <1>15, <4>1 DEF Decodes
    <3> QED BY <1>12, <3>1
  <2>3. e[1] = body[1]
    BY <1>0, <1>12, <1>18, <2>1
  <2> QED BY <1>5, <2>1, <2>2, <2>3 DEF KeyTexts
<1>20. e \in Seq(Table)
  BY <1>19 DEF KeyTexts
<1>21. PICK key : key = KeyOf(e)
  OBVIOUS
<1>22. key \in [1 .. KeyBytes -> Byte] /\ KeyText(key) = e
  BY <1>16, <1>19, <1>20, <1>21, KeyOfBytes, KeyTextKeyOf
<1>23. EncodePublicKey(key) = {KeyText(key)} /\ CreateChecksum(key) = {c}
  BY <1>15, <1>21, <1>22, KeyEncoded
<1>24. a \in PublicAddress(p, key)
  <2>1. AddressIs(p, key, c)
    BY <1>23, PublicAddressIs
  <2> QED BY <1>13, <1>22, <2>1 DEF AddressIs
<1> QED BY <1>14, <1>15, <1>21, <1>24

----------------------------------------------------------------------------
(* The specification.                                                      *)

\* An address nobody has mistyped is one that publicAddress has made, and
\* what a check has said is about the address as it is.
EncodingInv ==
    /\ address \in Seq(Int) /\ slips \in Nat
    /\ address # NoAddress /\ slips = 0 =>
         \E prefix \in AccountPrefixes, key \in Keys : address \in PublicAddress(prefix, key)
    /\ said.call = "check" =>
         address # NoAddress /\ said.result \in CheckIfAddressIsValid(address)

\* An address of a key of the model is valid.
LEMMA KeysMade ==
    ASSUME DigestIsBytes, NEW prefix \in AccountPrefixes, NEW key \in Keys,
           NEW a \in PublicAddress(prefix, key)
    PROVE  CheckIfAddressIsValid(a) = {"valid"} /\ a \in Seq(Int)
<1>1. prefix \in {"nano", "xrb", "banano"} /\ key \in [1 .. KeyBytes -> Byte]
  BY EncodingAssumption
<1> QED BY <1>1, MadeIsValid

\* What a slip does to a text, a text it stays.
LEMMA Mistyped ==
    ASSUME NEW a \in Seq(Int), NEW i \in 1 .. Len(a) + 1, NEW c \in Int
    PROVE  /\ [a EXCEPT ![i] = c] \in Seq(Int)
           /\ Seqs!RemoveAt(a, i) \in Seq(Int) /\ Seqs!InsertAt(a, i, c) \in Seq(Int)
<1>1. [a EXCEPT ![i] = c] \in Seq(Int)
  <2>1. a \in [1 .. Len(a) -> Int] /\ Len(a) \in Nat
    OBVIOUS
  <2>2. [a EXCEPT ![i] = c] \in [1 .. Len(a) -> Int]
    BY <2>1
  <2> QED BY <2>1, <2>2
<1>2. PICK r, s, t : r = SubSeq(a, 1, i - 1) /\ s = SubSeq(a, i + 1, Len(a)) /\ t = SubSeq(a, i, Len(a))
  OBVIOUS
<1>3. r \in Seq(Int) /\ s \in Seq(Int) /\ t \in Seq(Int) /\ <<c>> \in Seq(Int)
  BY <1>2
<1>4. r \o s \in Seq(Int) /\ r \o <<c>> \in Seq(Int)
  BY <1>3, Parts
<1>5. r \o <<c>> \o t \in Seq(Int)
  BY <1>3, <1>4, Parts
<1> QED BY <1>1, <1>2, <1>4, <1>5 DEF Seqs!RemoveAt, Seqs!InsertAt

\* The other calls are no checks.
LEMMA PublishesNoCheck ==
    ASSUME NEW call, call # "check", NEW b, Publishes(call, b)
    PROVE  said'.call # "check"
BY DEF Publishes

\* Texts are texts, and an address nobody has mistyped is one that was made.
LEMMA EncodingInvariant ==
    ASSUME DigestIsBytes
    PROVE  EncodingSpec => []EncodingInv
<1>1. EncodingInit => EncodingInv
  BY DEF EncodingInit, EncodingInv, NoAddress, Silent
<1>2. EncodingInv /\ [EncodingNext]_encodingVars => EncodingInv'
  <2> SUFFICES ASSUME EncodingInv, [EncodingNext]_encodingVars PROVE EncodingInv'
    OBVIOUS
  <2> USE DEF EncodingInv
  <2>1. CASE PublicAddressCall
    <3>1. PICK prefix \in AccountPrefixes, key \in Keys : address' \in PublicAddress(prefix, key)
      BY <2>1 DEF PublicAddressCall
    <3>2. address' \in Seq(Int)
      BY <3>1, KeysMade
    <3>3. said' = Silent /\ slips' = slips
      BY <2>1 DEF PublicAddressCall
    <3> QED BY <3>1, <3>2, <3>3 DEF Silent
  <2>2. CASE Mistype
    <3>1. said' = Silent /\ slips' = slips + 1
      BY <2>2 DEF Mistype
    <3>2. address' \in Seq(Int)
      <4>1. \A i \in DOMAIN address : i \in 1 .. Len(address) + 1
        OBVIOUS
      <4>2. \A c \in Slips : c \in Int
        BY EncodingAssumption
      <4>3. CASE \E i \in DOMAIN address, c \in Slips : address' = [address EXCEPT ![i] = c]
        BY <4>1, <4>2, <4>3, Mistyped
      <4>4. CASE \E i \in DOMAIN address : address' = Seqs!RemoveAt(address, i)
        <5>1. 0 \in Int
          OBVIOUS
        <5> QED BY <4>1, <4>4, <5>1, Mistyped
      <4>5. CASE \E i \in 1 .. Len(address) + 1, c \in Slips : address' = Seqs!InsertAt(address, i, c)
        BY <4>2, <4>5, Mistyped
      <4> QED BY <2>2, <4>3, <4>4, <4>5 DEF Mistype
    <3>3. slips' \in Nat /\ slips' # 0
      BY <3>1
    <3> QED BY <3>1, <3>2, <3>3 DEF Silent
  <2>3. CASE CheckCall
    <3>1. PICK result \in CheckIfAddressIsValid(address) : said' = [call |-> "check", result |-> result]
      BY <2>3 DEF CheckCall
    <3>2. said'.result = result
      BY <3>1
    <3>3. address # NoAddress /\ address' = address /\ slips' = slips
      BY <2>3 DEF CheckCall
    <3> QED BY <3>1, <3>2, <3>3
  <2>4. CASE SendCall
    <3>1. said'.call # "check"
      <4>1. PICK i \in AccountInfos, amount \in Amounts :
              IF amount > i.balance \/ SplitAddress(address) = {}
              THEN said' = [call |-> "error"]
              ELSE \E split \in SplitAddress(address) :
                  IF DecodeTraps(split.encoded) THEN said' = [call |-> "trap"]
                  ELSE IF ~Decodes(split.encoded) THEN said' = [call |-> "error"]
                  ELSE \E b : Publishes("sendBlock", b)
        BY <2>4 DEF SendCall
      <4>2. \A b : Publishes("sendBlock", b) => said'.call # "check"
        BY PublishesNoCheck
      <4> QED BY <4>1, <4>2
    <3>2. address' = address /\ slips' = slips
      BY <2>4 DEF SendCall
    <3> QED BY <3>1, <3>2
  <2>5. CASE ReceiveCall
    <3>1. said'.call # "check"
      <4>1. \E b : Publishes("receiveBlock", b)
        BY <2>5 DEF ReceiveCall
      <4> QED BY <4>1, PublishesNoCheck
    <3>2. address' = address /\ slips' = slips
      BY <2>5 DEF ReceiveCall
    <3> QED BY <3>1, <3>2
  <2>6. CASE UNCHANGED encodingVars
    BY <2>6 DEF encodingVars
  <2> QED BY <2>1, <2>2, <2>3, <2>4, <2>5, <2>6 DEF EncodingNext
<1> QED BY <1>1, <1>2, PTL DEF EncodingSpec

\* The answer of a check is right.
LEMMA CheckedRight ==
    ASSUME DigestIsBytes, EncodingInv
    PROVE  AddressesChecked
<1>1. SUFFICES ASSUME said.call = "check" PROVE AddressesChecked
  BY DEF AddressesChecked
<1>2. /\ address \in Seq(Int) /\ address # NoAddress
      /\ said.result \in CheckIfAddressIsValid(address)
  BY <1>1 DEF EncodingInv
<1>3. ASSUME said.result = "valid"
      PROVE  \E split \in SplitAddress(address), prefix \in {"nano", "xrb", "banano"} :
                /\ Decodes(split.encoded) /\ ~DecodeTraps(split.encoded)
                /\ address \in PublicAddress(prefix, KeyOf(split.encoded))
  BY <1>2, <1>3, ValidIsMade
<1>4. ASSUME NEW split \in SplitAddress(address), NEW prefix \in {"nano", "xrb", "banano"},
             Decodes(split.encoded), ~DecodeTraps(split.encoded),
             address \in PublicAddress(prefix, KeyOf(split.encoded))
      PROVE  said.result = "valid"
  <2>1. split.encoded \in Seq(Int)
    BY <1>2, SplitOnce
  <2>2. split.encoded \in Seq(Table)
    <3>1. PICK e \in Seq(Int) : e = split.encoded /\ Decodes(e)
      BY <1>4, <2>1
    <3>2. DOMAIN e = 1 .. Len(e)
      BY <3>1
    <3>3. \A i \in 1 .. Len(e) : e[i] \in Table
      BY <3>1, <3>2 DEF Decodes
    <3> QED BY <3>1, <3>3
  <2>3. Len(split.encoded) * CharBits <= Padded
    <3>1. Len(split.encoded) * CharBits \in Int /\ Padded \in Int
      <4>1. CharBits \in Nat /\ Padded \in Int /\ Len(split.encoded) \in Nat
        BY <2>1, Sizes
      <4> QED BY <4>1
    <3> QED BY <1>4, <3>1 DEF DecodeTraps
  <2>4. KeyOf(split.encoded) \in [1 .. KeyBytes -> Byte]
    BY <2>2, <2>3, KeyOfBytes
  <2>5. CheckIfAddressIsValid(address) = {"valid"}
    BY <1>4, <2>4, MadeIsValid
  <2> QED BY <1>2, <2>5
<1>5. ASSUME slips = 0 PROVE said.result = "valid"
  <2>1. PICK prefix \in AccountPrefixes, key \in Keys : address \in PublicAddress(prefix, key)
    BY <1>2, <1>5 DEF EncodingInv
  <2>2. CheckIfAddressIsValid(address) = {"valid"}
    BY <2>1, KeysMade
  <2> QED BY <1>2, <2>2
<1> QED BY <1>3, <1>4, <1>5 DEF AddressesChecked

\* checkIfAddressIsValid (NanoAccountFunctions) says valid of the addresses
\* publicAddress makes, for bytes, characters, keys and checksums of any size
\* and any checksum, and of no other text, however it was mistyped.
THEOREM AddressesAlwaysChecked ==
    ASSUME DigestIsBytes
    PROVE  EncodingSpec => []AddressesChecked
<1>1. EncodingInv => AddressesChecked
  BY CheckedRight
<1> QED BY <1>1, EncodingInvariant, PTL

----------------------------------------------------------------------------
(* Numbers from the parts of their digits.                                 *)

\* Powers of the same base.
LEMMA PowerSum ==
    ASSUME NEW b \in Nat, NEW m \in Nat
    PROVE  \A n \in Nat : Power(b, m + n) = Power(b, m) * Power(b, n)
<1> SUFFICES ASSUME NEW n \in Nat PROVE Power(b, m + n) = Power(b, m) * Power(b, n)
  OBVIOUS
<1> DEFINE T == {k \in 0 .. n : Power(b, m + k) = Power(b, m) * Power(b, k)}
<1>0. PICK p \in Nat : p = Power(b, m)
  BY PowerStep
<1>1. 0 \in T
  <2>1. Power(b, 0) = 1 /\ m + 0 = m /\ p * 1 = p
    BY PowerStep
  <2> QED BY <1>0, <2>1
<1>2. ASSUME NEW k \in 1 .. n, k - 1 \in T PROVE k \in T
  <2>1. k - 1 \in Nat /\ (k - 1) + 1 = k /\ m + (k - 1) \in Nat /\ (m + (k - 1)) + 1 = m + k
    OBVIOUS
  <2>2. PICK x \in Nat : x = Power(b, k - 1) /\ Power(b, k) = b * x
    <3>1. Power(b, k - 1) \in Nat /\ Power(b, (k - 1) + 1) = b * Power(b, k - 1)
      BY <2>1, PowerStep
    <3> QED BY <2>1, <3>1
  <2>3. Power(b, m + k) = b * Power(b, m + (k - 1))
    <3>1. Power(b, (m + (k - 1)) + 1) = b * Power(b, m + (k - 1))
      BY <2>1, PowerStep
    <3> QED BY <2>1, <3>1
  <2>4. Power(b, m + (k - 1)) = p * x
    BY <1>0, <1>2, <2>2
  <2>5. b * (p * x) = p * (b * x)
    OBVIOUS
  <2> QED BY <1>0, <2>2, <2>3, <2>4, <2>5
<1>3. n \in T
  <2> HIDE DEF T
  <2>1. \A k \in 0 .. n : k \in T
    BY <1>1, <1>2, UpTo
  <2> QED BY <2>1
<1> QED BY <1>3

\* The numbers of the first digits
IsRun(v, d, base) ==
    /\ v \in [0 .. Len(d) -> Nat] /\ Value(d, base) = v[Len(d)] /\ v[0] = 0
    /\ \A i \in 1 .. Len(d) : v[i] = base * v[i - 1] + d[i]

\* Every sequence of digits has the numbers of its first digits.
LEMMA ValueRun ==
    ASSUME NEW b \in Nat, NEW d \in Seq(Nat)
    PROVE  \E v : IsRun(v, d, b)
<1>1. PICK v \in [0 .. Len(d) -> Nat] :
         /\ Value(d, b) = v[Len(d)] /\ v[0] = 0
         /\ \A i \in 1 .. Len(d) : v[i] = b * v[i - 1] + d[i]
  BY ValueRuns
<1>2. IsRun(v, d, b)
  BY <1>1 DEF IsRun
<1> QED BY <1>2

\* Digits that follow others.
Follows(v, e, b, a) == v[a + Len(e)] = v[a] * Power(b, Len(e)) + Value(e, b)

\* The digits that follow count less, by a power of the base.
LEMMA ValueFollows ==
    ASSUME NEW b \in Nat, NEW d \in Seq(Nat), NEW v, IsRun(v, d, b),
           NEW a \in Nat, NEW e \in Seq(Nat), a + Len(e) <= Len(d), Rest(e, d, a, Len(e))
    PROVE  Follows(v, e, b, a)
<1> DEFINE n == Len(d)
           c == Len(e)
<1>0. n \in Nat /\ c \in Nat /\ a + c <= n /\ a \in 0 .. n
  OBVIOUS
<1>1. v \in [0 .. n -> Nat] /\ \A i \in 1 .. n : v[i] = b * v[i - 1] + d[i]
  BY DEF IsRun
<1>2. PICK w : IsRun(w, e, b)
  BY ValueRun
<1>3. /\ w \in [0 .. c -> Nat] /\ Value(e, b) = w[c] /\ w[0] = 0
      /\ \A i \in 1 .. c : w[i] = b * w[i - 1] + e[i]
  BY <1>2 DEF IsRun
<1>4. \A i \in 1 .. c : e[i] \in Nat /\ e[i] = d[a + i]
  <2>1. \A i \in 1 .. c : e[i] \in Nat
    OBVIOUS
  <2>2. \A i \in 1 .. c : e[i] = d[a + i]
    BY DEF Rest
  <2> QED BY <2>1, <2>2
<1> HIDE DEF n, c
<1>5. PICK x \in Nat : x = v[a]
  <2>1. v[a] \in Nat
    BY <1>0, <1>1
  <2> QED BY <2>1
<1> DEFINE T == {j \in 0 .. c : v[a + j] = x * Power(b, j) + w[j]}
<1>6. 0 \in T
  <2>1. Power(b, 0) = 1 /\ a + 0 = a /\ x * 1 = x
    BY PowerStep
  <2> QED BY <1>0, <1>3, <1>5, <2>1
<1>7. ASSUME NEW j \in 1 .. c, j - 1 \in T PROVE j \in T
  <2>1. PICK p \in Nat : p = Power(b, j - 1) /\ Power(b, j) = b * p
    <3>1. j - 1 \in Nat /\ (j - 1) + 1 = j
      BY <1>0
    <3>2. Power(b, j - 1) \in Nat /\ Power(b, (j - 1) + 1) = b * Power(b, j - 1)
      BY <3>1, PowerStep
    <3> QED BY <3>1, <3>2
  <2>2. PICK y \in Nat, z \in Nat : y = w[j - 1] /\ z = e[j]
    <3>1. j - 1 \in 0 .. c
      BY <1>0
    <3>2. w[j - 1] \in Nat /\ e[j] \in Nat
      BY <1>3, <1>4, <3>1
    <3> QED BY <3>2
  <2>3. v[a + (j - 1)] = x * p + y
    BY <1>7, <2>1, <2>2
  <2>4. v[a + j] = b * v[a + (j - 1)] + z
    <3>1. a + j \in 1 .. n /\ (a + j) - 1 = a + (j - 1)
      BY <1>0
    <3>2. v[a + j] = b * v[(a + j) - 1] + d[a + j]
      BY <1>1, <3>1
    <3> QED BY <1>4, <2>2, <3>1, <3>2
  <2>5. w[j] = b * y + z
    BY <1>3, <2>2
  <2>6. b * (x * p + y) + z = x * (b * p) + (b * y + z)
    OBVIOUS
  <2> QED BY <2>1, <2>3, <2>4, <2>5, <2>6
<1>8. c \in T
  <2>1. \A j \in 0 .. c : j \in T
    <3> HIDE DEF T
    <3> QED BY <1>0, <1>6, <1>7, UpTo
  <2> QED BY <1>0, <2>1
<1> QED BY <1>3, <1>5, <1>8 DEF Follows, c

\* The number of digits after each other
LEMMA ValueConcat ==
    ASSUME NEW b \in Nat, NEW r \in Seq(Nat), NEW s \in Seq(Nat)
    PROVE  Value(r \o s, b) = Value(r, b) * Power(b, Len(s)) + Value(s, b)
<1> DEFINE d == r \o s
<1>1. d \in Seq(Nat) /\ Len(d) = Len(r) + Len(s)
  BY Parts
<1>2. Rest(r, d, 0, Len(r)) /\ Rest(s, d, Len(r), Len(s))
  <2>1. (\A i \in 1 .. Len(r) : r[i] = d[0 + i]) /\ \A i \in 1 .. Len(s) : s[i] = d[Len(r) + i]
    OBVIOUS
  <2> HIDE DEF d
  <2> QED BY <2>1 DEF Rest
<1> HIDE DEF d
<1>3. PICK v : IsRun(v, d, b)
  BY <1>1, ValueRun
<1>4. Len(r) \in Nat /\ Len(s) \in Nat /\ 0 \in Nat /\ 0 + Len(r) = Len(r)
  OBVIOUS
<1>5. Follows(v, r, b, 0)
  BY <1>1, <1>2, <1>3, <1>4, ValueFollows
<1>6. Follows(v, s, b, Len(r))
  BY <1>1, <1>2, <1>3, <1>4, ValueFollows
<1>7. v[0] = 0 /\ Value(d, b) = v[Len(r) + Len(s)]
  BY <1>1, <1>3 DEF IsRun
<1>8. v[Len(r)] = Value(r, b)
  <2>1. v[Len(r)] = 0 * Power(b, Len(r)) + Value(r, b)
    BY <1>4, <1>5, <1>7 DEF Follows
  <2>2. Power(b, Len(r)) \in Nat
    BY <1>4, PowerStep
  <2>3. Value(r, b) \in Nat
    <3>1. PICK w : IsRun(w, r, b)
      BY ValueRun
    <3> QED BY <1>4, <3>1 DEF IsRun
  <2> QED BY <2>1, <2>2, <2>3
<1> QED BY <1>6, <1>7, <1>8 DEF Follows, d

\* Digits stand for a natural number.
LEMMA ValueIsNat ==
    ASSUME NEW b \in Nat, NEW d \in Seq(Nat)
    PROVE  Value(d, b) \in Nat
<1>1. PICK w : IsRun(w, d, b)
  BY ValueRun
<1>2. Len(d) \in 0 .. Len(d)
  OBVIOUS
<1> QED BY <1>1, <1>2 DEF IsRun

\* No digits are zero, one digit is itself.
LEMMA ValueShort ==
    ASSUME NEW b \in Nat
    PROVE  Value(<< >>, b) = 0 /\ \A x \in Nat : Value(<<x>>, b) = x
<1>1. Value(<< >>, b) = 0
  <2>1. PICK d \in Seq(Nat) : d = << >> /\ Len(d) = 0
    <3>1. << >> \in Seq(Nat) /\ Len(<< >>) = 0
      OBVIOUS
    <3> QED BY <3>1
  <2>2. PICK w : IsRun(w, d, b)
    BY ValueRun
  <2> QED BY <2>1, <2>2 DEF IsRun
<1>2. ASSUME NEW x \in Nat PROVE Value(<<x>>, b) = x
  <2>1. PICK d \in Seq(Nat) : d = <<x>> /\ Len(d) = 1 /\ d[1] = x
    <3>1. <<x>> \in Seq(Nat) /\ Len(<<x>>) = 1 /\ <<x>>[1] = x
      OBVIOUS
    <3> QED BY <3>1
  <2>2. PICK w : IsRun(w, d, b)
    BY ValueRun
  <2>3. w[0] = 0 /\ Value(d, b) = w[1] /\ w[1] = b * w[1 - 1] + x /\ b * 0 = 0 /\ 1 - 1 = 0
    <3>1. 1 \in 1 .. 1
      OBVIOUS
    <3> QED BY <2>1, <2>2, <3>1 DEF IsRun
  <2> QED BY <2>1, <2>3
<1> QED BY <1>1, <1>2

\* Zeros in front change no number.
LEMMA ValuePadded ==
    ASSUME NEW b \in Nat \ {0}, NEW m \in Nat, NEW d \in Seq(Nat)
    PROVE  Value(Repeated(m, 0) \o d, b) = Value(d, b)
<1>1. PICK z : z = Repeated(m, 0)
  OBVIOUS
<1>2. z \in Seq(Nat) /\ Len(z) = m /\ \A i \in 1 .. m : z[i] = 0
  BY <1>1 DEF Repeated
<1>3. Digital(z, b, m)
  BY <1>2 DEF Digital
<1>4. Value(z, b) = 0
  <2>1. m \in 0 .. m /\ m - m = 0
    OBVIOUS
  <2>2. Value(z, b) \in Nat /\ Value(z, b) < Power(b, m - m)
    BY <1>2, <1>3, <2>1, ValueBound
  <2>3. Power(b, 0) = 1
    BY PowerStep
  <2> QED BY <2>1, <2>2, <2>3
<1>5. Value(z \o d, b) = Value(z, b) * Power(b, Len(d)) + Value(d, b)
  BY <1>2, ValueConcat
<1>6. Power(b, Len(d)) \in Nat /\ Value(d, b) \in Nat
  <2>1. Len(d) \in Nat
    OBVIOUS
  <2> QED BY <2>1, PowerStep, ValueIsNat
<1> QED BY <1>1, <1>4, <1>5, <1>6

----------------------------------------------------------------------------
(* Hexadecimal texts.                                                      *)

\* Two hexadecimal digits are a byte.
LEMMA HexSizes ==
    /\ HexBase \in Nat \ {0} /\ HexBase > 6 /\ Hex = 0 .. HexBase - 1
    /\ Power(HexBase, 2) = Power(2, ByteBits) /\ Byte = 0 .. Power(HexBase, 2) - 1
    /\ Power(2, ByteBits) \in Nat \ {0} /\ Power(2, ByteBits) > 6
<1>1. PICK h \in Nat : h = ByteBits \div 2 /\ ByteBits = h + h
  <2>1. ByteBits \in Nat /\ ByteBits % 2 = 0
    BY EncodingAssumption
  <2>2. ByteBits \div 2 \in Nat /\ ByteBits = 2 * (ByteBits \div 2) + (ByteBits % 2)
    <3>1. 2 \in Nat \ {0}
      OBVIOUS
    <3> QED BY <2>1, <3>1, LastDigit
  <2>3. ByteBits = (ByteBits \div 2) + (ByteBits \div 2)
    BY <2>1, <2>2
  <2> QED BY <2>2, <2>3
<1>2. PICK x \in Nat : x = HexBase
  <2>1. Power(2, h) \in Nat
    <3>1. 2 \in Nat
      OBVIOUS
    <3> QED BY <3>1, PowerStep
  <2> QED BY <1>1, <2>1 DEF HexBase
<1>3. Hex = 0 .. x - 1
  BY <1>2 DEF Hex, HexBase
<1>4. x > 6
  <2>1. 6 \in Hex
    BY EncodingAssumption
  <2> QED BY <1>3, <2>1
<1>5. Power(2, ByteBits) = x * x
  <2>1. Power(2, h + h) = Power(2, h) * Power(2, h)
    <3>1. 2 \in Nat
      OBVIOUS
    <3> QED BY <3>1, PowerSum
  <2> QED BY <1>1, <1>2, <2>1 DEF HexBase
<1>6. Power(x, 2) = x * x
  <2>1. Power(x, 0) = 1 /\ Power(x, 0 + 1) = x * Power(x, 0) /\ Power(x, 1 + 1) = x * Power(x, 1)
    <3>1. 0 \in Nat /\ 1 \in Nat
      OBVIOUS
    <3> QED BY <3>1, PowerStep
  <2>2. 0 + 1 = 1 /\ 1 + 1 = 2 /\ x * 1 = x
    OBVIOUS
  <2> QED BY <2>1, <2>2
<1>7. x * x \in Nat \ {0} /\ x * x > 6
  <2>1. PICK y \in Nat : x = y + 1
    <3>1. x - 1 \in Nat /\ x = (x - 1) + 1
      BY <1>4
    <3> QED BY <3>1
  <2>2. x * x = x * y + x /\ x * y \in Nat
    BY <2>1
  <2> QED BY <1>4, <2>2
<1> QED BY <1>2, <1>3, <1>4, <1>5, <1>6, <1>7 DEF Byte

\* The pairs of digits that hexToBytes takes, and how many of them it reads
HexPairs(text) == (Len(text) + 1) \div 2

HexPair(text, i) == SubSeq(text, 2 * i - 1, IF 2 * i <= Len(text) THEN 2 * i ELSE Len(text))

HexUpTo(text, n) == \A i \in 1 .. n : \A j \in 1 .. Len(HexPair(text, i)) : HexPair(text, i)[j] \in Hex

StopsAt(text, k) == HexUpTo(text, k) /\ (k < HexPairs(text) => ~HexUpTo(text, k + 1))

HexCount(text) == CHOOSE k \in 0 .. HexPairs(text) : StopsAt(text, k)

\* A text is read pair by pair, as far as its pairs are hexadecimal.
LEMMA HexToBytesIs ==
    ASSUME NEW text
    PROVE  HexToBytes(text) = [i \in 1 .. HexCount(text) |-> Value(HexPair(text, i), HexBase)]
BY DEF HexToBytes, HexCount, StopsAt, HexUpTo, HexPair, HexPairs

\* An odd text has a pair of one digit.
LEMMA HexPairsAre ==
    ASSUME NEW n \in Nat
    PROVE  (n + 1) \div 2 \in Nat /\ 2 * ((n + 1) \div 2) <= n + 1
OBVIOUS

\* A text of hexadecimal digits alone is read to its end.
LEMMA HexCounted ==
    ASSUME NEW text \in Seq(Int)
    PROVE  /\ HexPairs(text) \in Nat /\ HexCount(text) \in 0 .. HexPairs(text)
           /\ HexUpTo(text, HexCount(text))
           /\ HexUpTo(text, HexPairs(text)) => HexCount(text) = HexPairs(text)
<1>1. PICK m \in Nat : m = HexPairs(text)
  <2>1. Len(text) \in Nat
    OBVIOUS
  <2> QED BY <2>1, HexPairsAre DEF HexPairs
<1>2. \E k \in 0 .. m : StopsAt(text, k)
  <2>1. SUFFICES ASSUME \A k \in 0 .. m : ~StopsAt(text, k) PROVE FALSE
    OBVIOUS
  <2> DEFINE T == {k \in 0 .. m : HexUpTo(text, k)}
  <2>2. 0 \in T
    BY DEF HexUpTo
  <2>3. ASSUME NEW k \in 1 .. m, k - 1 \in T PROVE k \in T
    <3>1. k - 1 \in 0 .. m /\ k - 1 < m /\ (k - 1) + 1 = k
      OBVIOUS
    <3>2. ~StopsAt(text, k - 1) /\ HexUpTo(text, k - 1)
      BY <2>1, <2>3, <3>1
    <3>3. HexUpTo(text, k)
      BY <1>1, <3>1, <3>2 DEF StopsAt
    <3> QED BY <3>3
  <2>4. m \in T
    <3>1. \A k \in 0 .. m : k \in T
      <4> HIDE DEF T
      <4> QED BY <2>2, <2>3, UpTo
    <3> QED BY <3>1
  <2>5. StopsAt(text, m)
    BY <1>1, <2>4 DEF StopsAt
  <2> QED BY <2>1, <2>5
<1>3. PICK c \in 0 .. m : c = HexCount(text) /\ StopsAt(text, c)
  BY <1>1, <1>2 DEF HexCount
<1>4. HexUpTo(text, c)
  BY <1>3 DEF StopsAt
<1>5. ASSUME HexUpTo(text, m) PROVE c = m
  <2>1. ASSUME c < m PROVE FALSE
    <3>1. ~HexUpTo(text, c + 1)
      BY <1>1, <1>3, <2>1 DEF StopsAt
    <3>2. \A i \in 1 .. c + 1 : i \in 1 .. m
      BY <2>1
    <3> QED BY <1>5, <3>1, <3>2 DEF HexUpTo
  <2> QED BY <2>1
<1> QED BY <1>1, <1>3, <1>4, <1>5

\* A pair
LEMMA HexPairIs ==
    ASSUME NEW text \in Seq(Int), NEW n \in 0 .. HexPairs(text), HexUpTo(text, n),
           NEW i \in 1 .. n
    PROVE  HexPair(text, i) \in Seq(Nat)
<1> DEFINE l == Len(text)
<1>1. l \in Nat /\ 2 * ((l + 1) \div 2) <= l + 1
  BY HexPairsAre
<1>2. 2 * i <= l + 1
  <2>1. HexPairs(text) \in Nat
    BY <1>1, HexPairsAre DEF HexPairs
  <2>2. i <= HexPairs(text)
    BY <2>1
  <2> QED BY <1>1, <2>1, <2>2 DEF HexPairs
<1>3. PICK e \in Seq(Int) : e = HexPair(text, i)
  <2>1. HexPair(text, i) \in Seq(Int)
    <3>1. CASE 2 * i <= l
      BY <1>1, <3>1 DEF HexPair
    <3>2. CASE ~ (2 * i <= l)
      BY <1>1, <1>2, <3>2 DEF HexPair
    <3> QED BY <3>1, <3>2
  <2> QED BY <2>1
<1>4. \A j \in 1 .. Len(e) : e[j] \in Nat
  <2>1. \A j \in 1 .. Len(e) : e[j] \in Hex
    BY <1>3 DEF HexUpTo
  <2> QED BY <2>1, HexSizes
<1> QED BY <1>3, <1>4

\* What hexToBytes returns has a byte for two digits at most.
LEMMA HexBytes ==
    ASSUME NEW text \in Seq(Int)
    PROVE  /\ HexToBytes(text) \in Seq(Nat)
           /\ Len(HexToBytes(text)) \in 0 .. HexPairs(text)
<1>1. PICK c : c = HexCount(text)
  OBVIOUS
<1>2. c \in 0 .. HexPairs(text) /\ HexPairs(text) \in Nat /\ HexUpTo(text, c)
  BY <1>1, HexCounted
<1> DEFINE val(i) == Value(HexPair(text, i), HexBase)
<1>3. ASSUME NEW i \in 1 .. c PROVE val(i) \in Nat
  <2>1. HexPair(text, i) \in Seq(Nat)
    BY <1>2, HexPairIs
  <2> QED BY <2>1, ValueIsNat, HexSizes
<1>4. HexToBytes(text) = [i \in 1 .. c |-> val(i)]
  BY <1>1, HexToBytesIs
<1> HIDE DEF val
<1> QED BY <1>2, <1>3, <1>4

\* Digits alone are read as they are written.
LEMMA HexRead ==
    ASSUME NEW n \in Nat, NEW text, Digital(text, HexBase, 2 * n)
    PROVE  HexToBytes(text) = Read(text, HexBase, 2)
<1>1. text \in Seq(Int) /\ text \in Seq(Nat) /\ Len(text) = 2 * n
      /\ \A i \in 1 .. 2 * n : text[i] \in Hex
  <2>1. text \in Seq(Nat) /\ Len(text) = 2 * n /\ \A i \in 1 .. 2 * n : text[i] < HexBase
    BY DEF Digital
  <2> QED BY <2>1, HexSizes
<1>2. HexPairs(text) = n /\ (2 * n) \div 2 = n
  BY <1>1 DEF HexPairs
<1>3. ASSUME NEW i \in 1 .. n PROVE HexPair(text, i) = Piece(text, i, 2)
  <2>1. 2 * i <= Len(text) /\ (i - 1) * 2 + 1 = 2 * i - 1 /\ i * 2 = 2 * i
    BY <1>1
  <2> QED BY <2>1 DEF HexPair, Piece
<1>4. HexUpTo(text, n)
  <2>1. ASSUME NEW i \in 1 .. n, NEW j \in 1 .. Len(HexPair(text, i))
        PROVE  HexPair(text, i)[j] \in Hex
    <3>1. IsPiece(text, i, 2)
      <4>1. 2 \in Nat \ {0}
        OBVIOUS
      <4> QED BY <1>1, <4>1, PieceAt
    <3>2. j \in 1 .. 2
      BY <1>3, <3>1 DEF IsPiece
    <3>3. /\ Piece(text, i, 2)[j] = text[(i - 1) * 2 + j]
          /\ (i - 1) * 2 + j \in 1 .. 2 * n
      BY <1>1, <3>1, <3>2 DEF IsPiece
    <3> QED BY <1>1, <1>3, <3>3
  <2> QED BY <2>1 DEF HexUpTo
<1>5. HexCount(text) = n
  BY <1>1, <1>2, <1>4, HexCounted
<1>6. HexToBytes(text) = [i \in 1 .. n |-> Value(Piece(text, i, 2), HexBase)]
  BY <1>3, <1>5, HexToBytesIs
<1>7. Read(text, HexBase, 2) = [i \in 1 .. n |-> Value(Piece(text, i, 2), HexBase)]
  BY <1>1, <1>2 DEF Read, Piece
<1> QED BY <1>6, <1>7

\* A digit alone
LEMMA HexOfDigit ==
    ASSUME NEW x \in Hex
    PROVE  HexToBytes(<<x>>) = <<x>>
<1>1. x \in Nat
  BY HexSizes
<1>2. PICK text \in Seq(Int) : text = <<x>> /\ Len(text) = 1 /\ text[1] = x
  <2>1. <<x>> \in Seq(Int) /\ Len(<<x>>) = 1 /\ <<x>>[1] = x
    BY <1>1
  <2> QED BY <2>1
<1>3. HexPairs(text) = 1
  BY <1>2 DEF HexPairs
<1>4. HexPair(text, 1) = <<x>>
  <2>1. HexPair(text, 1) = SubSeq(text, 1, 1)
    BY <1>2 DEF HexPair
  <2>2. SubSeq(text, 1, 1) = <<x>>
    <3>1. PICK s : s = SubSeq(text, 1, 1)
      OBVIOUS
    <3>2. s \in Seq(Int) /\ Len(s) = 1 /\ s[1] = x
      BY <1>2, <3>1
    <3>3. s = <<s[1]>>
      BY <3>2
    <3> QED BY <3>1, <3>2, <3>3
  <2> QED BY <2>1, <2>2
<1>5. HexUpTo(text, 1)
  <2>1. \A i \in 1 .. 1 : i = 1
    OBVIOUS
  <2>2. \A j \in 1 .. Len(HexPair(text, 1)) : HexPair(text, 1)[j] \in Hex
    BY <1>2, <1>4
  <2> QED BY <2>1, <2>2 DEF HexUpTo
<1>6. HexCount(text) = 1
  BY <1>3, <1>5, HexCounted
<1>7. Value(<<x>>, HexBase) = x
  BY <1>1, HexSizes, ValueShort
<1>8. HexToBytes(text) = [i \in 1 .. 1 |-> Value(HexPair(text, i), HexBase)]
  BY <1>6, HexToBytesIs
<1>9. [i \in 1 .. 1 |-> Value(HexPair(text, i), HexBase)] = <<x>>
  <2>1. \A i \in 1 .. 1 : i = 1
    OBVIOUS
  <2>2. [i \in 1 .. 1 |-> Value(HexPair(text, i), HexBase)] = [i \in 1 .. 1 |-> x]
    BY <1>4, <1>7, <2>1
  <2>3. [i \in 1 .. 1 |-> x] = <<x>>
    OBVIOUS
  <2> QED BY <2>2, <2>3
<1> QED BY <1>2, <1>8, <1>9

\* Keys and the texts of their digits.
HexText == [1 .. 2 * KeyBytes -> Hex]

\* The text of a key is digits of the base.
LEMMA HexTextDigital ==
    ASSUME NEW text
    PROVE  text \in HexText <=> Digital(text, HexBase, 2 * KeyBytes)
<1>1. KeyBytes \in Nat /\ HexBase \in Nat /\ Hex = 0 .. HexBase - 1
  BY Sizes, HexSizes
<1>2. PICK m \in Nat : m = 2 * KeyBytes
  BY <1>1
<1>3. ASSUME text \in HexText PROVE Digital(text, HexBase, m)
  <2>1. text \in [1 .. m -> Nat] /\ \A i \in 1 .. m : text[i] < HexBase
    BY <1>1, <1>2, <1>3 DEF HexText
  <2>2. text \in Seq(Nat) /\ Len(text) = m
    BY <2>1
  <2> QED BY <2>1, <2>2 DEF Digital
<1>4. ASSUME Digital(text, HexBase, m) PROVE text \in HexText
  <2>1. text \in Seq(Nat) /\ Len(text) = m /\ \A i \in 1 .. m : text[i] < HexBase
    BY <1>4 DEF Digital
  <2>2. \A i \in 1 .. m : text[i] \in Hex
    BY <1>1, <2>1
  <2>3. text = [i \in 1 .. m |-> text[i]]
    BY <2>1
  <2> QED BY <1>2, <2>2, <2>3 DEF HexText
<1> QED BY <1>2, <1>3, <1>4

\* A key comes back from its hexadecimal text.
LEMMA HexOfKey ==
    ASSUME NEW key \in [1 .. KeyBytes -> Byte]
    PROVE  HexString(key) \in HexText /\ HexToBytes(HexString(key)) = key
<1>0. KeyBytes \in Nat /\ HexBase \in Nat \ {0} /\ 2 \in Nat \ {0}
  BY Sizes, HexSizes
<1>1. key \in Seq(Byte) /\ Len(key) = KeyBytes
  BY KeyIsBytes
<1>2. key \in Seq(0 .. Power(HexBase, 2) - 1) /\ key \in Seq(Nat)
  <2>1. \A y \in Byte : y \in Nat
    BY HexSizes
  <2>2. key \in Seq(Nat)
    BY <1>1, <2>1
  <2> QED BY <1>1, <2>2, HexSizes
<1>3. PICK t : t = HexString(key)
  OBVIOUS
<1>4. Digital(t, HexBase, 2 * KeyBytes)
  <2>1. Digital(Written(key, HexBase, 2), HexBase, 2 * Len(key))
    BY <1>0, <1>2, WrittenAt
  <2> QED BY <1>1, <1>3, <2>1 DEF HexString
<1>5. HexToBytes(t) = Read(t, HexBase, 2)
  BY <1>0, <1>4, HexRead
<1>6. Read(Written(key, HexBase, 2), HexBase, 2) = key
  BY <1>0, <1>2, ReadWritten
<1> QED BY <1>3, <1>4, <1>5, <1>6, HexTextDigital DEF HexString

\* And a hexadecimal text from the key it is read as.
LEMMA KeyOfHex ==
    ASSUME NEW text \in HexText
    PROVE  /\ HexToBytes(text) \in Seq(Nat) /\ Len(HexToBytes(text)) = KeyBytes
           /\ HexString(HexToBytes(text)) = text
<1>0. KeyBytes \in Nat /\ HexBase \in Nat \ {0} /\ 2 \in Nat \ {0}
  BY Sizes, HexSizes
<1>1. Digital(text, HexBase, 2 * KeyBytes)
  BY HexTextDigital
<1>2. HexToBytes(text) = Read(text, HexBase, 2)
  BY <1>0, <1>1, HexRead
<1>3. Written(Read(text, HexBase, 2), HexBase, 2) = text
  BY <1>0, <1>1, WrittenRead
<1>4. IsRead(Read(text, HexBase, 2), text, HexBase, 2, KeyBytes)
  BY <1>0, <1>1, ReadAt
<1> QED BY <1>2, <1>3, <1>4 DEF HexString, IsRead

\* Bytes.length pads to so many bytes and keeps the number.
LEMMA LengthIs ==
    ASSUME NEW n \in Nat, NEW bytes \in Seq(Nat), Len(bytes) <= n
    PROVE  /\ Length(bytes, n) \in Seq(Nat) /\ Len(Length(bytes, n)) = n
           /\ \A b \in Nat \ {0} : Value(Length(bytes, n), b) = Value(bytes, b)
           /\ Len(bytes) = n => Length(bytes, n) = bytes
<1>1. PICK m \in Nat : m = n - Len(bytes) /\ m + Len(bytes) = n
  <2>1. n - Len(bytes) \in Nat /\ (n - Len(bytes)) + Len(bytes) = n
    OBVIOUS
  <2> QED BY <2>1
<1>2. PICK z : z = Repeated(m, 0)
  OBVIOUS
<1>3. z \in Seq(Nat) /\ Len(z) = m
  BY <1>2 DEF Repeated
<1>4. Length(bytes, n) = z \o bytes
  BY <1>1, <1>2 DEF Length
<1>5. z \o bytes \in Seq(Nat) /\ Len(z \o bytes) = m + Len(bytes)
  BY <1>3, Parts
<1>6. \A b \in Nat \ {0} : Value(z \o bytes, b) = Value(bytes, b)
  BY <1>2, ValuePadded
<1>7. Len(bytes) = n => z \o bytes = bytes
  <2>1. ASSUME Len(bytes) = n PROVE z \o bytes = bytes
    <3>1. Len(z) = 0
      BY <1>1, <1>3, <2>1
    <3>2. z = << >>
      BY <1>3, <3>1
    <3> QED BY <3>2, ConcatEmptySeq
  <2> QED BY <2>1
<1> QED BY <1>1, <1>4, <1>5, <1>6, <1>7

----------------------------------------------------------------------------
(* The bytes of an amount.                                                 *)

\* No power is zero.
LEMMA PowerPositive ==
    ASSUME NEW b \in Nat \ {0}
    PROVE  \A n \in Nat : Power(b, n) \in Nat \ {0}
<1> SUFFICES ASSUME NEW n \in Nat PROVE Power(b, n) \in Nat \ {0}
  OBVIOUS
<1> DEFINE T == {k \in 0 .. n : Power(b, k) \in Nat \ {0}}
<1>1. 0 \in T
  BY PowerStep
<1>2. ASSUME NEW k \in 1 .. n, k - 1 \in T PROVE k \in T
  <2>1. PICK x \in Nat \ {0} : x = Power(b, k - 1) /\ Power(b, k) = b * x
    <3>1. k - 1 \in Nat /\ (k - 1) + 1 = k
      OBVIOUS
    <3>2. Power(b, (k - 1) + 1) = b * Power(b, k - 1)
      BY <3>1, PowerStep
    <3> QED BY <1>2, <3>1, <3>2
  <2>2. 0 \in Nat /\ 0 < x
    OBVIOUS
  <2>3. b * 0 + b <= b * x /\ b * x \in Nat /\ b * 0 = 0
    BY <2>2, Multiples
  <2> QED BY <2>1, <2>3
<1>3. \A k \in 0 .. n : k \in T
  <2> HIDE DEF T
  <2> QED BY <1>1, <1>2, UpTo
<1> QED BY <1>3

\* A power is more than its exponent.
LEMMA PowerAbove ==
    ASSUME NEW b \in Nat, b > 1
    PROVE  \A n \in Nat : n < Power(b, n)
<1> SUFFICES ASSUME NEW n \in Nat PROVE n < Power(b, n)
  OBVIOUS
<1> DEFINE T == {k \in 0 .. n : k < Power(b, k)}
<1>1. 0 \in T
  BY PowerStep
<1>2. ASSUME NEW k \in 1 .. n, k - 1 \in T PROVE k \in T
  <2>1. PICK x \in Nat : x = Power(b, k - 1) /\ Power(b, k) = b * x
    <3>1. k - 1 \in Nat /\ (k - 1) + 1 = k
      OBVIOUS
    <3>2. Power(b, k - 1) \in Nat /\ Power(b, (k - 1) + 1) = b * Power(b, k - 1)
      BY <3>1, PowerStep
    <3> QED BY <3>1, <3>2
  <2>2. PICK c \in Nat : b = c + 2
    <3>1. b - 2 \in Nat /\ b = (b - 2) + 2
      OBVIOUS
    <3> QED BY <3>1
  <2>3. b * x = c * x + 2 * x /\ c * x \in Nat
    BY <2>2
  <2>4. k - 1 < x
    BY <1>2, <2>1
  <2> QED BY <2>1, <2>3, <2>4
<1>3. \A k \in 0 .. n : k \in T
  <2> HIDE DEF T
  <2> QED BY <1>1, <1>2, UpTo
<1> QED BY <1>3

\* The digits of rawString are those of the amount.
LEMMA WidthIs ==
    ASSUME NEW n \in Nat
    PROVE  Width(n) \in 1 .. n + 1 /\ n < Power(10, Width(n))
<1> DEFINE fits(w) == n < Power(10, w)
           good(w) == fits(w) /\ (w > 1 => n >= Power(10, w - 1))
<1>1. fits(n + 1)
  <2>1. 10 \in Nat /\ 10 > 1 /\ n + 1 \in Nat
    OBVIOUS
  <2>2. n + 1 < Power(10, n + 1) /\ Power(10, n + 1) \in Nat
    BY <2>1, PowerAbove, PowerStep
  <2> QED BY <2>2
<1>2. \E w \in 1 .. n + 1 : good(w)
  <2>1. SUFFICES ASSUME \A w \in 1 .. n + 1 : ~good(w) PROVE FALSE
    OBVIOUS
  <2> DEFINE T == {w \in 0 .. n + 1 : w = 0 \/ ~fits(w)}
  <2>2. 0 \in T
    OBVIOUS
  <2>3. ASSUME NEW w \in 1 .. n + 1, w - 1 \in T PROVE w \in T
    <3>1. ASSUME fits(w) PROVE FALSE
      <4>1. w > 1 /\ ~ (n >= Power(10, w - 1))
        BY <2>1, <3>1
      <4>2. ~ (n < Power(10, w - 1))
        BY <2>3, <4>1
      <4>3. Power(10, w - 1) \in Nat
        <5>1. w - 1 \in Nat /\ 10 \in Nat
          BY <4>1
        <5> QED BY <5>1, PowerStep
      <4> QED BY <4>1, <4>2, <4>3
    <3> QED BY <3>1
  <2>4. n + 1 \in T
    <3>1. \A w \in 0 .. n + 1 : w \in T
      <4> HIDE DEF T
      <4>1. n + 1 \in Nat
        OBVIOUS
      <4> QED BY <2>2, <2>3, <4>1, UpTo
    <3> QED BY <3>1
  <2> QED BY <1>1, <2>4
<1>3. Width(n) = CHOOSE w \in 1 .. n + 1 : good(w)
  BY DEF Width
<1> HIDE DEF good
<1>4. Width(n) \in 1 .. n + 1 /\ good(Width(n))
  BY <1>2, <1>3
<1> QED BY <1>4 DEF good

\* The decimal digits of a number stand for it.
LEMMA DigitsAre ==
    ASSUME NEW n \in Nat
    PROVE  Digits(n) \in Seq(Nat) /\ Len(Digits(n)) \in Nat \ {0} /\ Value(Digits(n), 10) = n
<1>1. PICK w \in Nat \ {0} : w = Width(n) /\ n < Power(10, w)
  BY WidthIs
<1>2. 10 \in Nat \ {0} /\ w \in Nat
  OBVIOUS
<1>3. Digital(Numeral(n, 10, w), 10, w) /\ Value(Numeral(n, 10, w), 10) = n
  BY <1>1, <1>2, NumeralDigital, ValueNumeral
<1> QED BY <1>1, <1>3 DEF Digits, Digital

\* The groups of digits, the first of which may be short
Short(l) == IF l % GroupDigits = 0 THEN GroupDigits ELSE l % GroupDigits
Groups(l) == (l + GroupDigits - 1) \div GroupDigits

\* The first group has what the others leave, at least one digit.
LEMMA GroupsAre ==
    ASSUME NEW l \in Nat \ {0}
    PROVE  /\ GroupDigits \in Nat \ {0} /\ Short(l) \in 1 .. GroupDigits /\ Groups(l) \in Nat \ {0}
           /\ l = Short(l) + (Groups(l) - 1) * GroupDigits
<1>1. PICK g \in Nat \ {0} : g = GroupDigits
  BY EncodingAssumption
<1>2. PICK y \in Nat, r \in 0 .. g - 1 : y = l \div g /\ r = l % g /\ l = g * y + r
  BY LastDigit
<1>3. CASE r = 0
  <2>1. y # 0
    <3>1. g * 0 = 0
      OBVIOUS
    <3> QED BY <1>2, <1>3, <3>1
  <2>2. PICK z \in Nat : y = z + 1
    <3>1. y - 1 \in Nat /\ y = (y - 1) + 1
      BY <2>1
    <3> QED BY <3>1
  <2>3. (g * y + (g - 1)) \div g = y
    <3>1. g - 1 \in 0 .. g - 1
      OBVIOUS
    <3> QED BY <3>1, DigitAdded
  <2>4. PICK m \in Nat : m = g * y
    OBVIOUS
  <2>5. l + g - 1 = g * y + (g - 1)
    BY <1>2, <1>3, <2>4
  <2>6. Groups(l) = y /\ Short(l) = g
    BY <1>1, <1>2, <1>3, <2>3, <2>5 DEF Groups, Short
  <2>7. l = g + (y - 1) * g
    <3>1. y - 1 = z /\ g * (z + 1) = g * z + g /\ z * g = g * z /\ g * z \in Nat
      BY <2>2
    <3> QED BY <1>2, <1>3, <2>2, <3>1
  <2> QED BY <1>1, <2>1, <2>6, <2>7
<1>4. CASE r # 0
  <2>1. (g * (y + 1) + (r - 1)) \div g = y + 1
    <3>1. r - 1 \in 0 .. g - 1 /\ y + 1 \in Nat
      BY <1>4
    <3> QED BY <3>1, DigitAdded
  <2>2. l + g - 1 = g * (y + 1) + (r - 1)
    <3>1. PICK m \in Nat : m = g * y
      OBVIOUS
    <3>2. g * (y + 1) = m + g
      BY <3>1
    <3> QED BY <1>2, <3>1, <3>2
  <2>3. Groups(l) = y + 1 /\ Short(l) = r
    BY <1>1, <1>2, <1>4, <2>1, <2>2 DEF Groups, Short
  <2>4. l = r + ((y + 1) - 1) * g
    <3>1. (y + 1) - 1 = y /\ y * g = g * y /\ g * y \in Nat
      OBVIOUS
    <3> QED BY <1>2, <3>1
  <2> QED BY <1>1, <1>4, <2>3, <2>4
<1> QED BY <1>3, <1>4

GroupBase == Power(10, GroupDigits)

\* Where a group ends, and the digits of it
GroupEnd(l, k) == Short(l) + (k - 1) * GroupDigits
GroupFirst(l, k) == IF k = 1 THEN 1 ELSE Short(l) + (k - 2) * GroupDigits + 1
Group(d, k) == SubSeq(d, GroupFirst(Len(d), k), GroupEnd(Len(d), k))

\* A group follows the one before it.
LEMMA GroupAt ==
    ASSUME NEW d \in Seq(Nat), NEW l \in Nat \ {0}, l = Len(d), NEW k \in 1 .. Groups(l)
    PROVE  /\ GroupEnd(l, k) \in 1 .. l
           /\ \E a \in Nat, c \in Nat :
                /\ GroupFirst(l, k) = a + 1 /\ GroupEnd(l, k) = a + c
                /\ (k = 1 /\ a = 0) \/ (k # 1 /\ a = GroupEnd(l, k - 1) /\ c = GroupDigits)
<1>1. PICK g \in Nat \ {0}, s \in Nat \ {0}, n \in Nat \ {0} :
          /\ g = GroupDigits /\ s = Short(l) /\ s <= g /\ n = Groups(l)
          /\ l = s + (n - 1) * g
  <2>1. GroupDigits \in Nat \ {0} /\ Short(l) \in 1 .. GroupDigits /\ Groups(l) \in Nat \ {0}
        /\ l = Short(l) + (Groups(l) - 1) * GroupDigits
    BY GroupsAre
  <2>2. Short(l) \in Nat \ {0} /\ Short(l) <= GroupDigits
    BY <2>1
  <2> QED BY <2>1, <2>2
<1>2. PICK x \in Nat : x = (k - 1) * g /\ GroupEnd(l, k) = s + x
  <2>1. k - 1 \in Nat
    BY <1>1
  <2>2. (k - 1) * g \in Nat
    BY <2>1
  <2> QED BY <1>1, <2>2 DEF GroupEnd
<1>3. s + x <= l
  <2>1. CASE k = n
    <3>1. (k - 1) * g = (n - 1) * g
      BY <2>1
    <3>2. l = s + x
      BY <1>1, <1>2, <3>1
    <3> QED BY <1>1, <1>2, <3>2
  <2>2. CASE k # n
    <3>1. PICK y \in Nat, m \in Nat : y = k - 1 /\ m = n - 1 /\ y < m
      <4>1. k - 1 \in Nat /\ n - 1 \in Nat /\ k - 1 < n - 1
        BY <1>1, <2>2
      <4> QED BY <4>1
    <3>2. g * y + g <= g * m /\ g * y \in Nat /\ g * m \in Nat
      BY <3>1, Multiples
    <3>3. g * y = y * g /\ g * m = m * g
      BY <3>1
    <3>4. PICK z \in Nat : z = m * g
      BY <3>1
    <3>5. l = s + z /\ x <= z
      <4>1. l = s + z
        BY <1>1, <3>1, <3>4
      <4>2. x = y * g
        BY <1>2, <3>1
      <4> QED BY <3>2, <3>3, <3>4, <4>1, <4>2
    <3> QED BY <3>5
  <2> QED BY <2>1, <2>2
<1>4. CASE k = 1
  <2>1. x = 0
    BY <1>2, <1>4
  <2>2. GroupFirst(l, k) = 0 + 1 /\ GroupEnd(l, k) = 0 + s /\ 0 \in Nat
    BY <1>2, <1>4, <2>1 DEF GroupFirst
  <2>3. GroupEnd(l, k) \in 1 .. l
    BY <1>1, <1>2, <1>3
  <2>4. s \in Nat
    BY <1>1
  <2> QED BY <1>4, <2>2, <2>3, <2>4
<1>5. CASE k # 1
  <2>1. PICK y \in Nat : y = k - 2 /\ k - 1 = y + 1 /\ (k - 1) - 1 = y
    <3>1. k - 2 \in Nat /\ k - 1 = (k - 2) + 1 /\ (k - 1) - 1 = k - 2
      BY <1>1, <1>5
    <3> QED BY <3>1
  <2>2. PICK z \in Nat : z = y * g
    OBVIOUS
  <2>3. x = z + g
    <3>1. (y + 1) * g = y * g + g
      OBVIOUS
    <3> QED BY <1>2, <2>1, <2>2, <3>1
  <2>4. GroupFirst(l, k) = (s + z) + 1 /\ GroupEnd(l, k - 1) = s + z
    BY <1>1, <1>5, <2>1, <2>2 DEF GroupFirst, GroupEnd
  <2>5. GroupEnd(l, k) = (s + z) + g /\ s + z \in Nat
    BY <1>2, <2>3
  <2>6. GroupEnd(l, k) \in 1 .. l
    BY <1>1, <1>2, <1>3
  <2>7. PICK a \in Nat, c \in Nat : a = s + z /\ c = g
    BY <2>5
  <2>8. /\ GroupFirst(l, k) = a + 1 /\ GroupEnd(l, k) = a + c
        /\ a = GroupEnd(l, k - 1) /\ c = GroupDigits
    BY <1>1, <2>4, <2>5, <2>7
  <2> QED BY <1>5, <2>6, <2>8
<1> QED BY <1>4, <1>5

\* The groups are the number.
LEMMA GroupedIs ==
    ASSUME NEW d \in Seq(Nat), Len(d) # 0
    PROVE  Grouped(d) \in Seq(Nat) /\ Value(Grouped(d), GroupBase) = Value(d, 10)
<1> DEFINE l == Len(d)
           n == Groups(l)
           val(k) == Value(Group(d, k), 10)
           e == Grouped(d)
<1>0. l \in Nat \ {0} /\ n \in Nat \ {0} /\ 10 \in Nat
  BY GroupsAre
<1>1. e = [k \in 1 .. n |-> val(k)]
  BY DEF Grouped, Groups, Group, GroupFirst, GroupEnd, Short
<1>2. PICK v : IsRun(v, d, 10)
  BY <1>0, ValueRun
<1>3. v \in [0 .. l -> Nat] /\ v[0] = 0 /\ Value(d, 10) = v[l]
  BY <1>2 DEF IsRun
<1> HIDE DEF l, n
<1>4. ASSUME NEW k \in 1 .. n
      PROVE  /\ GroupEnd(l, k) \in 1 .. l /\ val(k) \in Nat
             /\ k = 1 => v[GroupEnd(l, k)] = val(k)
             /\ k # 1 => v[GroupEnd(l, k)] = v[GroupEnd(l, k - 1)] * GroupBase + val(k)
  <2>1. /\ GroupEnd(l, k) \in 1 .. l
        /\ \E a \in Nat, c \in Nat :
                /\ GroupFirst(l, k) = a + 1 /\ GroupEnd(l, k) = a + c
                /\ (k = 1 /\ a = 0) \/ (k # 1 /\ a = GroupEnd(l, k - 1) /\ c = GroupDigits)
    BY <1>0, GroupAt DEF l, n
  <2>2. PICK a \in Nat, c \in Nat :
                /\ GroupFirst(l, k) = a + 1 /\ GroupEnd(l, k) = a + c
                /\ (k = 1 /\ a = 0) \/ (k # 1 /\ a = GroupEnd(l, k - 1) /\ c = GroupDigits)
    BY <2>1
  <2>3. a + c <= l
    BY <1>0, <2>1, <2>2
  <2>4. PICK s : s = Group(d, k)
    OBVIOUS
  <2>5. s = SubSeq(d, a + 1, a + c)
    BY <2>2, <2>4 DEF Group, l
  <2>6. s \in Seq(Nat) /\ Len(s) = c /\ \A i \in 1 .. c : s[i] = d[a + i]
    <3>1. d \in Seq(Nat) /\ l = Len(d)
      BY DEF l
    <3>2. s = [i \in 1 .. c |-> d[a + i]]
      BY <2>3, <2>5, <3>1
    <3>3. \A i \in 1 .. c : d[a + i] \in Nat
      <4>1. \A i \in 1 .. c : a + i \in 1 .. l
        BY <1>0, <2>3
      <4> QED BY <3>1, <4>1
    <3> QED BY <3>2, <3>3
  <2>7. Rest(s, d, a, Len(s))
    BY <2>6 DEF Rest
  <2>8. Follows(v, s, 10, a)
    <3>1. a + Len(s) <= Len(d)
      BY <2>3, <2>6 DEF l
    <3> QED BY <1>0, <1>2, <2>6, <2>7, <3>1, ValueFollows
  <2>9. v[a + c] = v[a] * Power(10, c) + val(k)
    BY <2>4, <2>6, <2>8 DEF Follows
  <2>10. val(k) \in Nat
    BY <1>0, <2>4, <2>6, ValueIsNat
  <2>11. ASSUME k = 1 PROVE v[GroupEnd(l, k)] = val(k)
    <3>1. v[a] = 0 /\ Power(10, c) \in Nat
      BY <1>0, <1>3, <2>2, <2>11, PowerStep
    <3>2. 0 * Power(10, c) = 0
      BY <3>1
    <3> HIDE DEF val
    <3> QED BY <2>2, <2>9, <2>10, <3>1, <3>2
  <2> QED BY <2>1, <2>2, <2>9, <2>10, <2>11 DEF GroupBase
<1> HIDE DEF val, e
<1>5. e \in Seq(Nat) /\ Len(e) = n /\ \A k \in 1 .. n : e[k] = val(k)
  BY <1>0, <1>1, <1>4
<1>6. GroupBase \in Nat
  <2>1. GroupDigits \in Nat
    BY <1>0, GroupsAre
  <2> QED BY <1>0, <2>1, PowerStep DEF GroupBase
<1>7. PICK u : IsRun(u, e, GroupBase)
  BY <1>5, <1>6, ValueRun
<1>8. /\ u \in [0 .. n -> Nat] /\ u[0] = 0 /\ Value(e, GroupBase) = u[n]
      /\ \A k \in 1 .. n : u[k] = GroupBase * u[k - 1] + val(k)
  BY <1>5, <1>7 DEF IsRun
<1> DEFINE T == {k \in 0 .. n : k # 0 => u[k] = v[GroupEnd(l, k)]}
<1>9. 0 \in T
  BY <1>0
<1>10. ASSUME NEW k \in 1 .. n, k - 1 \in T PROVE k \in T
  <2>1. u[k] = GroupBase * u[k - 1] + val(k) /\ val(k) \in Nat
    BY <1>4, <1>8
  <2>2. CASE k = 1
    <3>1. u[k - 1] = 0 /\ GroupBase * 0 = 0
      BY <1>6, <1>8, <2>2
    <3>2. u[k] = val(k)
      BY <2>1, <3>1
    <3> QED BY <1>4, <2>2, <3>2
  <2>3. CASE k # 1
    <3>1. k - 1 # 0 /\ k - 1 \in 1 .. n
      BY <1>0, <2>3
    <3>2. u[k - 1] = v[GroupEnd(l, k - 1)]
      BY <1>10, <3>1
    <3>3. PICK x \in Nat : x = u[k - 1]
      <4>1. k - 1 \in 0 .. n
        BY <3>1
      <4>2. u[k - 1] \in Nat
        BY <1>8, <4>1
      <4> QED BY <4>2
    <3>4. GroupBase * x = x * GroupBase
      BY <1>6
    <3> QED BY <1>4, <2>1, <2>3, <3>2, <3>3, <3>4
  <2> QED BY <2>2, <2>3
<1>11. n \in T
  <2>1. \A k \in 0 .. n : k \in T
    <3> HIDE DEF T
    <3> QED BY <1>0, <1>9, <1>10, UpTo
  <2> QED BY <1>0, <2>1
<1>12. GroupEnd(l, n) = l
  BY <1>0, GroupsAre DEF GroupEnd, n
<1> QED BY <1>0, <1>3, <1>5, <1>8, <1>11, <1>12 DEF e

ByteBase == Power(2, ByteBits)

\* The running totals of a pass
IsTotal(t, ints, base, unit) ==
    t = [i \in 0 .. Len(ints) |-> IF i = 0 THEN 0 ELSE (t[i - 1] % base) * unit + ints[i]]

Totals(t, ints, base, unit) ==
    /\ t \in [0 .. Len(ints) -> Nat] /\ t[0] = 0
    /\ \A i \in 1 .. Len(ints) : t[i] = (t[i - 1] % base) * unit + ints[i]

TotalOf(ints, base, unit) == CHOOSE t : IsTotal(t, ints, base, unit)

\* The totals of a pass, one after the other.
LEMMA TotalRuns ==
    ASSUME NEW base \in Nat \ {0}, NEW unit \in Nat, NEW ints \in Seq(Nat)
    PROVE  Totals(TotalOf(ints, base, unit), ints, base, unit)
<1> DEFINE n == Len(ints)
<1>0. n \in Nat /\ \A i \in 1 .. n : ints[i] \in Nat
  OBVIOUS
<1> HIDE DEF n
<1>1. \A a \in Nat, z \in Nat : (a % base) * unit + z \in Nat
  <2>1. ASSUME NEW a \in Nat, NEW z \in Nat PROVE (a % base) * unit + z \in Nat
    <3>1. PICK r \in Nat : r = a % base
      <4>1. a % base \in 0 .. base - 1
        BY LastDigit
      <4> QED BY <4>1
    <3>2. r * unit + z \in Nat
      <4>1. r * unit \in Nat
        OBVIOUS
      <4> QED BY <4>1
    <3> QED BY <3>1, <3>2
  <2> QED BY <2>1
<1>2. \E t : IsTotal(t, ints, base, unit)
  <2> DEFINE g == [y \in Nat \X Nat |-> (y[1] % base) * unit + (IF y[2] \in 1 .. n THEN ints[y[2]] ELSE 0)]
  <2>1. g \in [Nat \X Nat -> Nat]
    <3>1. ASSUME NEW y \in Nat \X Nat
          PROVE  (y[1] % base) * unit + (IF y[2] \in 1 .. n THEN ints[y[2]] ELSE 0) \in Nat
      <4>1. y[1] \in Nat /\ y[2] \in Nat
        OBVIOUS
      <4>2. (IF y[2] \in 1 .. n THEN ints[y[2]] ELSE 0) \in Nat
        BY <1>0
      <4> QED BY <1>1, <4>1, <4>2
    <3> QED BY <3>1
  <2>2. PICK f : Runs(f, Nat, 0, g, n)
    <3> HIDE DEF g
    <3>1. 0 \in Nat
      OBVIOUS
    <3> QED BY <1>0, <2>1, <3>1, Iterated
  <2>3. /\ f \in [0 .. n -> Nat] /\ f[0] = 0
        /\ \A i \in 1 .. n : f[i] = (f[i - 1] % base) * unit + ints[i]
    <3>1. f \in [0 .. n -> Nat] /\ f[0] = 0 /\ \A i \in 1 .. n : f[i] = g[<<f[i - 1], i>>]
      BY <2>2 DEF Runs
    <3>2. ASSUME NEW i \in 1 .. n PROVE f[i] = (f[i - 1] % base) * unit + ints[i]
      <4>1. PICK a \in Nat : a = f[i - 1]
        <5>1. i - 1 \in 0 .. n
          BY <1>0
        <5> QED BY <3>1, <5>1
      <4>2. g[<<a, i>>] = (a % base) * unit + ints[i]
        <5>1. i \in Nat /\ <<a, i>> \in Nat \X Nat
          BY <1>0
        <5>2. g[<<a, i>>] = (a % base) * unit + (IF i \in 1 .. n THEN ints[i] ELSE 0)
          BY <5>1
        <5> QED BY <5>2
      <4> QED BY <3>1, <4>1, <4>2
    <3> QED BY <3>1, <3>2
  <2>4. \A i \in 0 .. n : f[i] = IF i = 0 THEN 0 ELSE (f[i - 1] % base) * unit + ints[i]
    BY <1>0, <2>3
  <2>5. IsTotal(f, ints, base, unit)
    <3>1. f = [i \in 0 .. n |-> f[i]]
      BY <2>3
    <3> QED BY <2>4, <3>1 DEF IsTotal, n
  <2> QED BY <2>5
<1>3. PICK t : t = TotalOf(ints, base, unit) /\ IsTotal(t, ints, base, unit)
  BY <1>2 DEF TotalOf
<1> DEFINE step(i) == IF i = 0 THEN 0 ELSE (t[i - 1] % base) * unit + ints[i]
<1>4. t = [i \in 0 .. n |-> step(i)]
  BY <1>3 DEF IsTotal, n
<1>5. \A i \in 0 .. n : t[i] = step(i)
  <2> HIDE DEF step
  <2> QED BY <1>4
<1>6. t[0] = 0 /\ \A i \in 1 .. n : t[i] = (t[i - 1] % base) * unit + ints[i]
  <2>1. ASSUME NEW i \in 1 .. n PROVE t[i] = (t[i - 1] % base) * unit + ints[i]
    <3>1. i \in 0 .. n /\ i # 0
      BY <1>0
    <3> QED BY <1>5, <3>1
  <2>2. t[0] = 0
    BY <1>0, <1>5
  <2> QED BY <2>1, <2>2
<1>7. \A i \in 0 .. n : t[i] \in Nat
  <2> DEFINE T == {i \in 0 .. n : t[i] \in Nat}
  <2>1. 0 \in T
    BY <1>0, <1>6
  <2>2. ASSUME NEW i \in 1 .. n, i - 1 \in T PROVE i \in T
    <3>1. t[i - 1] \in Nat /\ ints[i] \in Nat
      BY <1>0, <2>2
    <3>2. t[i] \in Nat
      BY <1>1, <1>6, <3>1
    <3> QED BY <1>0, <3>2
  <2>3. \A i \in 0 .. n : i \in T
    <3> HIDE DEF T
    <3> QED BY <1>0, <2>1, <2>2, UpTo
  <2> QED BY <2>3
<1>8. t \in [0 .. n -> Nat]
  <2>1. t = [i \in 0 .. n |-> t[i]]
    <3> HIDE DEF step
    <3> QED BY <1>4, <1>5
  <2> QED BY <1>7, <2>1
<1> QED BY <1>3, <1>6, <1>8 DEF Totals, n

\* A pass divides the number by that of a byte.
IsDivided(s, c, ints, base, unit) ==
    /\ s \in Seq(Nat) /\ c \in 0 .. base - 1
    /\ Value(ints, unit) = base * Value(s, unit) + c

\* A pass leaves the quotient, and the remainder as its carry.
LEMMA DividedIs ==
    ASSUME NEW ints \in Seq(Nat)
    PROVE  IsDivided(Divided(ints).ints, Divided(ints).carry, ints, ByteBase, GroupBase)
<1>0. PICK b \in Nat \ {0}, m \in Nat : b = ByteBase /\ m = GroupBase
  <2>1. ByteBase \in Nat \ {0}
    BY HexSizes DEF ByteBase
  <2>2. GroupBase \in Nat
    <3>1. GroupDigits \in Nat /\ 10 \in Nat
      BY EncodingAssumption
    <3> QED BY <3>1, PowerStep DEF GroupBase
  <2> QED BY <2>1, <2>2
<1> DEFINE n == Len(ints)
<1>1. PICK t : t = TotalOf(ints, b, m) /\ Totals(t, ints, b, m)
  BY TotalRuns
<1>2. /\ t \in [0 .. n -> Nat] /\ t[0] = 0 /\ n \in Nat /\ \A i \in 1 .. n : ints[i] \in Nat
      /\ \A i \in 1 .. n : t[i] = (t[i - 1] % b) * m + ints[i]
  BY <1>1 DEF Totals
<1> DEFINE s == [i \in DOMAIN ints |-> t[i] \div b]
<1>3. Divided(ints) = [ints |-> s, carry |-> t[n] % b]
  <2>1. Divided(ints)
          = [ints  |-> [i \in DOMAIN ints |-> TotalOf(ints, ByteBase, GroupBase)[i] \div ByteBase],
             carry |-> TotalOf(ints, ByteBase, GroupBase)[Len(ints)] % ByteBase]
    BY DEF Divided, TotalOf, IsTotal, ByteBase, GroupBase
  <2> QED BY <1>0, <1>1, <2>1
<1>4. \A i \in 0 .. n : t[i] \in Nat /\ t[i] \div b \in Nat /\ t[i] % b \in 0 .. b - 1
                        /\ t[i] = b * (t[i] \div b) + (t[i] % b)
  <2>1. ASSUME NEW i \in 0 .. n
        PROVE  t[i] \in Nat /\ t[i] \div b \in Nat /\ t[i] % b \in 0 .. b - 1
                        /\ t[i] = b * (t[i] \div b) + (t[i] % b)
    <3>1. t[i] \in Nat
      BY <1>2
    <3> QED BY <3>1, LastDigit
  <2> QED BY <2>1
<1>5. s \in Seq(Nat) /\ Len(s) = n /\ \A i \in 1 .. n : s[i] = t[i] \div b
  <2> DEFINE q(i) == t[i] \div b
  <2>1. s = [i \in 1 .. n |-> q(i)]
    OBVIOUS
  <2>2. \A i \in 1 .. n : q(i) \in Nat
    BY <1>4
  <2>3. \A i \in 1 .. n : s[i] = q(i)
    BY <2>1
  <2> HIDE DEF q, n, s
  <2>4. s \in Seq(Nat) /\ Len(s) = n
    BY <1>2, <2>1, <2>2
  <2> QED BY <2>3, <2>4 DEF q
<1> HIDE DEF s, n
<1>6. PICK u : IsRun(u, ints, m)
  BY ValueRun
<1>7. PICK w : IsRun(w, s, m)
  BY <1>5, ValueRun
<1>8. /\ u \in [0 .. n -> Nat] /\ u[0] = 0 /\ Value(ints, m) = u[n]
      /\ \A i \in 1 .. n : u[i] = m * u[i - 1] + ints[i]
  BY <1>6 DEF IsRun, n
<1>9. /\ w \in [0 .. n -> Nat] /\ w[0] = 0 /\ Value(s, m) = w[n]
      /\ \A i \in 1 .. n : w[i] = m * w[i - 1] + s[i]
  BY <1>5, <1>7 DEF IsRun
<1> DEFINE T == {i \in 0 .. n : u[i] = b * w[i] + (t[i] % b)}
<1>10. 0 \in T
  <2>1. 0 % b = 0 /\ b * 0 = 0
    <3>1. (b * 0 + 0) % b = 0
      <4>1. 0 \in Nat /\ 0 \in 0 .. b - 1
        OBVIOUS
      <4> QED BY <4>1, DigitAdded
    <3> QED BY <3>1
  <2> QED BY <1>2, <1>8, <1>9, <2>1
<1>11. ASSUME NEW i \in 1 .. n, i - 1 \in T PROVE i \in T
  <2>1. i - 1 \in 0 .. n /\ i \in 0 .. n
    BY <1>2
  <2>2. PICK y \in Nat, r \in Nat, z \in Nat :
            y = w[i - 1] /\ r = t[i - 1] % b /\ z = ints[i] /\ u[i - 1] = b * y + r
    <3>1. w[i - 1] \in Nat /\ t[i - 1] % b \in 0 .. b - 1 /\ ints[i] \in Nat
      BY <1>2, <1>4, <1>9, <2>1
    <3>2. t[i - 1] % b \in Nat
      BY <3>1
    <3> QED BY <1>11, <3>1, <3>2
  <2>3. PICK q \in Nat, x \in Nat : q = s[i] /\ x = t[i] % b /\ t[i] = b * q + x
    <3>1. t[i] \div b \in Nat /\ t[i] % b \in Nat /\ t[i] = b * (t[i] \div b) + (t[i] % b)
      BY <1>4, <2>1
    <3> QED BY <1>5, <3>1
  <2>4. t[i] = r * m + z
    BY <1>2, <2>2
  <2>5. u[i] = m * (b * y + r) + z
    BY <1>8, <2>2
  <2>6. m * (b * y + r) + z = b * (m * y) + (r * m + z)
    OBVIOUS
  <2>7. b * (m * y) + (b * q + x) = b * (m * y + q) + x
    OBVIOUS
  <2>8. w[i] = m * y + q
    BY <1>9, <2>2, <2>3
  <2> QED BY <2>1, <2>3, <2>4, <2>5, <2>6, <2>7, <2>8
<1>12. n \in T
  <2>1. \A i \in 0 .. n : i \in T
    <3> HIDE DEF T
    <3> QED BY <1>2, <1>10, <1>11, UpTo
  <2> QED BY <1>2, <2>1
<1>13. t[n] % b \in 0 .. b - 1
  BY <1>2, <1>4
<1>14. IsDivided(s, t[n] % b, ints, b, m)
  BY <1>5, <1>8, <1>9, <1>12, <1>13 DEF IsDivided
<1>15. Divided(ints).ints = s /\ Divided(ints).carry = t[n] % b
  BY <1>3
<1> QED BY <1>0, <1>14, <1>15

\* Zeros in front, cut and put back
Uncut(m, d) == Repeated(m, 0) \o Dropped(d, m) = d

\* Zeros that were cut can be put back.
LEMMA ZerosCut ==
    ASSUME NEW m \in Nat, NEW n \in Nat, NEW d \in Seq(Nat), Len(d) = m + n, Zeros(d, m)
    PROVE  Uncut(m, d)
<1>1. PICK z, e : z = Repeated(m, 0) /\ e = Dropped(d, m)
  OBVIOUS
<1>2. z \in Seq(Nat) /\ Len(z) = m /\ \A i \in 1 .. m : z[i] = d[i]
  BY <1>1 DEF Repeated, Zeros
<1>3. e \in Seq(Nat) /\ Len(e) = n /\ \A i \in 1 .. n : e[i] = d[m + i]
  BY <1>1 DEF Dropped
<1>4. z \o e = d
  BY <1>2, <1>3, Joined
<1> QED BY <1>1, <1>4 DEF Uncut

\* What a pass strips in front are zeros, and all of them.
IsStripped(s, ints, unit) ==
    s \in Seq(Nat) /\ Value(s, unit) = Value(ints, unit) /\ (s = << >> \/ s[1] # 0)

\* Stripping leaves the number as it is.
LEMMA StrippedIs ==
    ASSUME NEW b \in Nat \ {0}, NEW ints \in Seq(Nat)
    PROVE  IsStripped(StripZeros(ints), ints, b)
<1> DEFINE n == Len(ints)
           good(k) == /\ \A i \in 1 .. k : ints[i] = 0
                      /\ k < n => ints[k + 1] # 0
<1>0. n \in Nat
  OBVIOUS
<1> HIDE DEF n
<1>1. \E k \in 0 .. n : good(k)
  <2>1. SUFFICES ASSUME \A k \in 0 .. n : ~good(k) PROVE FALSE
    OBVIOUS
  <2> DEFINE T == {k \in 0 .. n : \A i \in 1 .. k : ints[i] = 0}
  <2>2. 0 \in T
    BY <1>0
  <2>3. ASSUME NEW k \in 1 .. n, k - 1 \in T PROVE k \in T
    <3>1. k - 1 \in 0 .. n /\ (k - 1) + 1 = k /\ k - 1 < n
      BY <1>0
    <3>2. ~good(k - 1) /\ \A i \in 1 .. k - 1 : ints[i] = 0
      BY <2>1, <2>3, <3>1
    <3>3. ints[k] = 0
      BY <3>1, <3>2
    <3>4. \A i \in 1 .. k : i = k \/ i \in 1 .. k - 1
      BY <1>0
    <3>5. \A i \in 1 .. k : ints[i] = 0
      BY <3>2, <3>3, <3>4
    <3> QED BY <1>0, <3>5
  <2>4. n \in T
    <3>1. \A k \in 0 .. n : k \in T
      <4> HIDE DEF T
      <4> QED BY <1>0, <2>2, <2>3, UpTo
    <3> QED BY <1>0, <3>1
  <2>5. good(n)
    BY <1>0, <2>4
  <2> QED BY <1>0, <2>1, <2>5
<1>2. StripZeros(ints) = Dropped(ints, CHOOSE k \in 0 .. n : good(k))
  BY DEF StripZeros, n
<1>3. PICK k \in 0 .. n : StripZeros(ints) = Dropped(ints, k) /\ good(k)
  <2> HIDE DEF good
  <2> QED BY <1>1, <1>2
<1>4. PICK s : s = Dropped(ints, k)
  OBVIOUS
<1>5. k \in Nat /\ k <= n /\ n - k \in Nat
  BY <1>0
<1>6. s \in Seq(Nat) /\ Len(s) = n - k /\ \A i \in 1 .. n - k : s[i] = ints[k + i]
  <2>1. s = SubSeq(ints, k + 1, n)
    BY <1>4 DEF Dropped, n
  <2>2. ints \in Seq(Nat) /\ n = Len(ints)
    BY DEF n
  <2>3. k + 1 \in 1 .. n + 1
    BY <1>0, <1>5
  <2> QED BY <1>0, <1>5, <2>1, <2>2, <2>3
<1>7. PICK z : z = Repeated(k, 0)
  OBVIOUS
<1>8. z \in Seq(Nat) /\ Len(z) = k /\ \A i \in 1 .. k : z[i] = 0
  BY <1>5, <1>7 DEF Repeated
<1>9. z \o s = ints
  <2>1. PICK q \in Nat : q = n - k /\ Len(ints) = k + q
    <3>1. Len(ints) = k + (n - k)
      BY <1>0, <1>5 DEF n
    <3> QED BY <1>5, <3>1
  <2>2. Zeros(ints, k)
    BY <1>3 DEF Zeros
  <2>3. Uncut(k, ints)
    BY <1>5, <2>1, <2>2, ZerosCut
  <2> QED BY <1>4, <1>7, <2>3 DEF Uncut
<1>10. Value(s, b) = Value(ints, b)
  <2>1. Value(Repeated(k, 0) \o s, b) = Value(s, b)
    BY <1>5, <1>6, ValuePadded
  <2> QED BY <1>7, <1>9, <2>1
<1>11. s = << >> \/ s[1] # 0
  <2>1. CASE k < n
    <3>1. 1 \in 1 .. n - k /\ ints[k + 1] # 0
      BY <1>0, <1>3, <1>5, <2>1
    <3> QED BY <1>6, <3>1
  <2>2. CASE ~ (k < n)
    <3>1. Len(s) = 0
      BY <1>0, <1>5, <1>6, <2>2
    <3> QED BY <1>6, <3>1
  <2> QED BY <2>1, <2>2
<1> QED BY <1>3, <1>4, <1>6, <1>10, <1>11 DEF IsStripped

\* A number whose first digit is none of zero is none.
LEMMA ValueNotZero ==
    ASSUME NEW b \in Nat \ {0}, NEW s \in Seq(Nat), s # << >>, s[1] # 0
    PROVE  Value(s, b) # 0
<1>1. PICK n \in Nat : n = Len(s) - 1 /\ Len(s) = 1 + n
  <2>1. Len(s) - 1 \in Nat /\ Len(s) = 1 + (Len(s) - 1)
    OBVIOUS
  <2> QED BY <2>1
<1>2. PICK x \in Nat, r \in Seq(Nat), e \in Seq(Nat) :
         x = s[1] /\ r = <<x>> /\ e = SubSeq(s, 2, 1 + n)
  <2>1. s[1] \in Nat /\ <<s[1]>> \in Seq(Nat) /\ SubSeq(s, 2, 1 + n) \in Seq(Nat)
    BY <1>1
  <2> QED BY <2>1
<1>3. r \o e = s
  <2>1. Len(r) = 1 /\ r[1] = s[1]
    BY <1>2
  <2>2. Len(e) = n /\ \A i \in 1 .. n : e[i] = s[1 + i]
    BY <1>1, <1>2
  <2>3. \A i \in 1 .. 1 : r[i] = s[i]
    BY <2>1
  <2>4. 1 \in Nat
    OBVIOUS
  <2> QED BY <1>1, <1>2, <2>1, <2>2, <2>3, <2>4, Joined
<1>4. Value(s, b) = Value(r, b) * Power(b, Len(e)) + Value(e, b)
  <2>1. Value(r \o e, b) = Value(r, b) * Power(b, Len(e)) + Value(e, b)
    BY <1>2, ValueConcat
  <2> QED BY <1>3, <2>1
<1>5. Value(r, b) = x
  BY <1>2, ValueShort
<1>6. PICK p \in Nat \ {0}, y \in Nat : p = Power(b, Len(e)) /\ y = Value(e, b)
  <2>1. Len(e) \in Nat
    BY <1>2
  <2> QED BY <1>2, <2>1, PowerPositive, ValueIsNat
<1>7. x * p >= p
  <2>1. 0 \in Nat /\ 0 < x
    BY <1>2
  <2>2. p * 0 + p <= p * x /\ p * 0 = 0 /\ p * x = x * p /\ p * x \in Nat
    BY <2>1, Multiples
  <2> QED BY <2>2
<1>8. x * p \in Nat
  OBVIOUS
<1> QED BY <1>4, <1>5, <1>6, <1>7, <1>8

\* A pass and what it leaves
PassState == [ints : Seq(Nat), bytes : Seq(Nat)]

After(s) ==
    [ints  |-> StripZeros(Divided(s.ints).ints),
     bytes |-> <<Divided(s.ints).carry>> \o s.bytes]

\* Bytes have more than one value.
LEMMA BaseSizes ==
    /\ ByteBase \in Nat \ {0} /\ ByteBase > 1 /\ GroupBase \in Nat \ {0}
    /\ BalanceBytes \in Nat \ {0}
<1>1. ByteBase \in Nat \ {0} /\ ByteBase > 1
  BY HexSizes DEF ByteBase
<1>2. GroupBase \in Nat \ {0}
  <2>1. GroupDigits \in Nat /\ 10 \in Nat \ {0}
    BY EncodingAssumption
  <2> QED BY <2>1, PowerPositive DEF GroupBase
<1>3. BalanceBytes \in Nat \ {0}
  BY EncodingAssumption
<1> QED BY <1>1, <1>2, <1>3

\* A pass takes one byte off the number; a number that is gone has no groups.
LEMMA AfterIs ==
    ASSUME NEW s \in PassState
    PROVE  /\ After(s) \in PassState
           /\ \E c \in 0 .. ByteBase - 1 :
                 /\ After(s).bytes = <<c>> \o s.bytes
                 /\ Value(s.ints, GroupBase) = ByteBase * Value(After(s).ints, GroupBase) + c
           /\ Value(After(s).ints, GroupBase) = 0 => After(s).ints = << >>
<1>1. s.ints \in Seq(Nat) /\ s.bytes \in Seq(Nat)
  BY DEF PassState
<1>2. PICK d, c : d = Divided(s.ints).ints /\ c = Divided(s.ints).carry
  OBVIOUS
<1>3. IsDivided(d, c, s.ints, ByteBase, GroupBase)
  BY <1>1, <1>2, DividedIs
<1>4. d \in Seq(Nat) /\ c \in 0 .. ByteBase - 1 /\ c \in Nat
      /\ Value(s.ints, GroupBase) = ByteBase * Value(d, GroupBase) + c
  <2>1. d \in Seq(Nat) /\ c \in 0 .. ByteBase - 1
        /\ Value(s.ints, GroupBase) = ByteBase * Value(d, GroupBase) + c
    BY <1>3 DEF IsDivided
  <2>2. c \in Nat
    BY <2>1, BaseSizes
  <2> QED BY <2>1, <2>2
<1>5. PICK t : t = StripZeros(d)
  OBVIOUS
<1>6. IsStripped(t, d, GroupBase)
  BY <1>4, <1>5, BaseSizes, StrippedIs
<1>7. t \in Seq(Nat) /\ Value(t, GroupBase) = Value(d, GroupBase) /\ (t = << >> \/ t[1] # 0)
  BY <1>6 DEF IsStripped
<1>8. <<c>> \o s.bytes \in Seq(Nat)
  <2>1. <<c>> \in Seq(Nat)
    BY <1>4
  <2> QED BY <1>1, <2>1, Parts
<1>9. After(s) = [ints |-> t, bytes |-> <<c>> \o s.bytes]
  BY <1>2, <1>5 DEF After
<1>10. Value(t, GroupBase) = 0 => t = << >>
  BY <1>7, BaseSizes, ValueNotZero
<1>11. After(s) \in PassState
  BY <1>7, <1>8, <1>9 DEF PassState
<1>12. After(s).ints = t /\ After(s).bytes = <<c>> \o s.bytes
  BY <1>9
<1> QED BY <1>4, <1>7, <1>10, <1>11, <1>12

\* The passes of a division
IsPass(p, groups, n) ==
    p = [k \in 0 .. n + 1 |->
            IF k = 0 THEN [ints |-> groups, bytes |-> << >>]
            ELSE LET step == Divided(p[k - 1].ints)
                 IN  [ints  |-> StripZeros(step.ints),
                      bytes |-> <<step.carry>> \o p[k - 1].bytes]]

Passes(p, groups, n) ==
    /\ p \in [0 .. n + 1 -> PassState] /\ p[0] = [ints |-> groups, bytes |-> << >>]
    /\ \A k \in 1 .. n + 1 : p[k] = After(p[k - 1])

PassOf(groups, n) == CHOOSE p : IsPass(p, groups, n)

EndsAt(p, k) == p[k].ints = << >> /\ \A j \in 0 .. k - 1 : p[j].ints # << >>

\* The passes end with the first that leaves nothing.
LEMMA DivideOutEnds ==
    ASSUME NEW groups, NEW n
    PROVE  DivideOut(groups, n)
             = PassOf(groups, n)[CHOOSE k \in 0 .. n + 1 : EndsAt(PassOf(groups, n), k)].bytes
BY DEF DivideOut, PassOf, IsPass, EndsAt

\* The passes, one after the other.
LEMMA PassRuns ==
    ASSUME NEW groups \in Seq(Nat), NEW n \in Nat
    PROVE  Passes(PassOf(groups, n), groups, n)
<1> DEFINE start == [ints |-> groups, bytes |-> << >>]
           m == n + 1
<1>0. start \in PassState /\ m \in Nat
  BY DEF PassState
<1> HIDE DEF m
<1>1. \E p : IsPass(p, groups, n)
  <2> DEFINE g == [y \in PassState \X Nat |-> After(y[1])]
  <2>1. g \in [PassState \X Nat -> PassState]
    <3>1. ASSUME NEW y \in PassState \X Nat PROVE After(y[1]) \in PassState
      <4>1. y[1] \in PassState
        OBVIOUS
      <4> QED BY <4>1, AfterIs
    <3> QED BY <3>1
  <2>2. PICK f : Runs(f, PassState, start, g, m)
    <3> HIDE DEF g, start
    <3> QED BY <1>0, <2>1, Iterated
  <2>3. f \in [0 .. m -> PassState] /\ f[0] = start /\ \A k \in 1 .. m : f[k] = After(f[k - 1])
    <3>1. f \in [0 .. m -> PassState] /\ f[0] = start /\ \A k \in 1 .. m : f[k] = g[<<f[k - 1], k>>]
      BY <2>2 DEF Runs
    <3>2. ASSUME NEW k \in 1 .. m PROVE f[k] = After(f[k - 1])
      <4>1. PICK a \in PassState : a = f[k - 1]
        <5>1. k - 1 \in 0 .. m
          BY <1>0
        <5> QED BY <3>1, <5>1
      <4>2. <<a, k>> \in PassState \X Nat
        BY <1>0
      <4>3. g[<<a, k>>] = After(a)
        BY <4>2
      <4> QED BY <3>1, <4>1, <4>3
    <3> QED BY <3>1, <3>2
  <2>4. IsPass(f, groups, n)
    <3>1. f = [k \in 0 .. m |-> f[k]]
      BY <2>3
    <3>2. \A k \in 0 .. m : f[k] = IF k = 0 THEN start ELSE After(f[k - 1])
      BY <1>0, <2>3
    <3>3. f = [k \in 0 .. m |-> IF k = 0 THEN start ELSE After(f[k - 1])]
      BY <3>1, <3>2
    <3> QED BY <3>3 DEF IsPass, After, m
  <2> QED BY <2>4
<1>2. PICK p : p = PassOf(groups, n) /\ IsPass(p, groups, n)
  BY <1>1 DEF PassOf
<1> DEFINE step(k) == IF k = 0 THEN start ELSE After(p[k - 1])
<1>3. p = [k \in 0 .. m |-> step(k)]
  BY <1>2 DEF IsPass, After, m
<1>4. \A k \in 0 .. m : p[k] = step(k)
  <2> HIDE DEF step
  <2> QED BY <1>3
<1>5. p[0] = start /\ \A k \in 1 .. m : p[k] = After(p[k - 1])
  <2>1. ASSUME NEW k \in 1 .. m PROVE p[k] = After(p[k - 1])
    <3>1. k \in 0 .. m /\ k # 0
      BY <1>0
    <3> QED BY <1>4, <3>1
  <2>2. p[0] = start
    BY <1>0, <1>4
  <2> QED BY <2>1, <2>2
<1>6. \A k \in 0 .. m : p[k] \in PassState
  <2> DEFINE T == {k \in 0 .. m : p[k] \in PassState}
  <2>1. 0 \in T
    BY <1>0, <1>5
  <2>2. ASSUME NEW k \in 1 .. m, k - 1 \in T PROVE k \in T
    <3>1. p[k - 1] \in PassState
      BY <2>2
    <3>2. After(p[k - 1]) \in PassState
      BY <3>1, AfterIs
    <3>3. p[k] \in PassState
      BY <1>5, <3>2
    <3> QED BY <1>0, <3>3
  <2>3. \A k \in 0 .. m : k \in T
    <3> HIDE DEF T
    <3> QED BY <1>0, <2>1, <2>2, UpTo
  <2> QED BY <2>3
<1>7. p \in [0 .. m -> PassState]
  <2>1. p = [k \in 0 .. m |-> p[k]]
    <3> HIDE DEF step
    <3> QED BY <1>3, <1>4
  <2> QED BY <1>6, <2>1
<1> QED BY <1>2, <1>5, <1>7 DEF Passes, m

\* The number in what a pass leaves: k bytes and the number that is left
Kept(s, k, n) ==
    /\ Len(s.bytes) = k
    /\ n = Power(ByteBase, k) * Value(s.ints, GroupBase) + Value(s.bytes, ByteBase)
    /\ k # 0 /\ Value(s.ints, GroupBase) = 0 => s.ints = << >>

\* A pass loses nothing of the number.
LEMMA KeptAfter ==
    ASSUME NEW n \in Nat, NEW k \in Nat, NEW s \in PassState, Kept(s, k, n)
    PROVE  Kept(After(s), k + 1, n)
<1>1. After(s) \in PassState
  BY AfterIs
<1>2. PICK t \in PassState : t = After(s)
  BY <1>1
<1>3. PICK c \in 0 .. ByteBase - 1 :
          /\ t.bytes = <<c>> \o s.bytes
          /\ Value(s.ints, GroupBase) = ByteBase * Value(t.ints, GroupBase) + c
  BY <1>2, AfterIs
<1>4. Value(t.ints, GroupBase) = 0 => t.ints = << >>
  BY <1>2, AfterIs
<1>5. PICK r \in Seq(Nat) : r = <<c>> /\ Len(r) = 1 /\ Value(r, ByteBase) = c
  <2>1. c \in Nat
    BY BaseSizes
  <2>2. <<c>> \in Seq(Nat) /\ Len(<<c>>) = 1
    BY <2>1
  <2>3. Value(<<c>>, ByteBase) = c
    BY <2>1, BaseSizes, ValueShort
  <2> QED BY <2>2, <2>3
<1>6. s.ints \in Seq(Nat) /\ s.bytes \in Seq(Nat) /\ t.ints \in Seq(Nat)
  BY DEF PassState
<1>7. PICK b \in Nat, x \in Nat, y \in Nat, z \in Nat, p \in Nat :
          /\ b = ByteBase /\ x = Value(s.ints, GroupBase) /\ y = Value(t.ints, GroupBase)
          /\ z = Value(s.bytes, ByteBase) /\ p = Power(ByteBase, k)
          /\ Power(ByteBase, k + 1) = b * p
  <2>1. ByteBase \in Nat /\ GroupBase \in Nat
    BY BaseSizes
  <2>2. /\ Power(ByteBase, k) \in Nat /\ Power(ByteBase, k + 1) = ByteBase * Power(ByteBase, k)
    BY <2>1, PowerStep
  <2>3. /\ Value(s.ints, GroupBase) \in Nat /\ Value(t.ints, GroupBase) \in Nat
        /\ Value(s.bytes, ByteBase) \in Nat
    BY <1>6, <2>1, ValueIsNat
  <2> QED BY <2>1, <2>2, <2>3
<1>8. c \in Nat
  BY BaseSizes
<1>9. Len(s.bytes) = k /\ n = p * x + z
  BY <1>7 DEF Kept
<1>10. Len(t.bytes) = k + 1
  <2>1. Len(r \o s.bytes) = Len(r) + Len(s.bytes)
    BY <1>5, <1>6, Parts
  <2> QED BY <1>3, <1>5, <1>9, <2>1
<1>11. Value(t.bytes, ByteBase) = c * p + z
  <2>1. Value(r \o s.bytes, ByteBase)
          = Value(r, ByteBase) * Power(ByteBase, Len(s.bytes)) + Value(s.bytes, ByteBase)
    BY <1>5, <1>6, BaseSizes, ValueConcat
  <2> QED BY <1>3, <1>5, <1>7, <1>9, <2>1
<1>12. x = b * y + c
  BY <1>3, <1>7
<1>13. n = (b * p) * y + (c * p + z)
  <2>1. p * (b * y + c) + z = (b * p) * y + (c * p + z)
    BY <1>8
  <2> QED BY <1>9, <1>12, <2>1
<1>14. n = Power(ByteBase, k + 1) * Value(t.ints, GroupBase) + Value(t.bytes, ByteBase)
  BY <1>7, <1>11, <1>13
<1> QED BY <1>2, <1>4, <1>10, <1>14 DEF Kept

\* A number below a power needs no more bytes than its exponent.
LEMMA DivideOutIs ==
    ASSUME NEW groups \in Seq(Nat), NEW n \in Nat, n = Value(groups, GroupBase),
           NEW m \in Nat \ {0}, n < Power(ByteBase, m)
    PROVE  /\ DivideOut(groups, n) \in Seq(Nat) /\ Len(DivideOut(groups, n)) <= m
           /\ Value(DivideOut(groups, n), ByteBase) = n
<1>1. PICK p : p = PassOf(groups, n) /\ Passes(p, groups, n)
  BY PassRuns
<1>2. /\ p \in [0 .. n + 1 -> PassState] /\ p[0] = [ints |-> groups, bytes |-> << >>]
      /\ \A k \in 1 .. n + 1 : p[k] = After(p[k - 1])
  BY <1>1 DEF Passes
<1>3. \A k \in 0 .. n + 1 : Kept(p[k], k, n)
  <2> DEFINE T == {k \in 0 .. n + 1 : Kept(p[k], k, n)}
  <2>1. 0 \in T
    <3>1. Kept(p[0], 0, n)
      <4>1. p[0].ints = groups /\ p[0].bytes = << >>
        BY <1>2
      <4>2. Power(ByteBase, 0) = 1 /\ Value(<< >>, ByteBase) = 0 /\ Len(<< >>) = 0
        BY BaseSizes, PowerStep, ValueShort
      <4>3. 1 * n + 0 = n
        OBVIOUS
      <4> QED BY <4>1, <4>2, <4>3 DEF Kept
    <3> QED BY <3>1
  <2>2. ASSUME NEW k \in 1 .. n + 1, k - 1 \in T PROVE k \in T
    <3>1. k - 1 \in Nat /\ k - 1 \in 0 .. n + 1 /\ (k - 1) + 1 = k
      OBVIOUS
    <3>2. p[k - 1] \in PassState /\ Kept(p[k - 1], k - 1, n)
      BY <1>2, <2>2, <3>1
    <3>3. Kept(After(p[k - 1]), (k - 1) + 1, n)
      BY <3>1, <3>2, KeptAfter
    <3>4. Kept(p[k], k, n)
      BY <1>2, <3>1, <3>3
    <3> QED BY <3>4
  <2>3. \A k \in 0 .. n + 1 : k \in T
    <3> HIDE DEF T
    <3>1. n + 1 \in Nat
      OBVIOUS
    <3> QED BY <2>1, <2>2, <3>1, UpTo
  <2> QED BY <2>3
<1>4. \A k \in 0 .. n + 1 : p[k].ints \in Seq(Nat) /\ p[k].bytes \in Seq(Nat)
  BY <1>2 DEF PassState
<1>5. ASSUME NEW k \in 1 .. n + 1, n < Power(ByteBase, k) PROVE p[k].ints = << >>
  <2>1. Kept(p[k], k, n) /\ k # 0 /\ k \in Nat /\ k \in 0 .. n + 1
    BY <1>3
  <2>2. PICK q \in Nat, x \in Nat, z \in Nat :
            /\ q = Power(ByteBase, k) /\ x = Value(p[k].ints, GroupBase)
            /\ z = Value(p[k].bytes, ByteBase)
    BY <1>4, <2>1, BaseSizes, PowerStep, ValueIsNat
  <2>3. n = q * x + z
    BY <2>1, <2>2 DEF Kept
  <2>4. x = 0
    <3>1. ASSUME x # 0 PROVE FALSE
      <4>1. 0 \in Nat /\ 0 < x
        BY <3>1
      <4>2. q * 0 + q <= q * x /\ q * x \in Nat /\ q * 0 = 0
        BY <4>1, Multiples
      <4>3. n < q
        BY <1>5, <2>2
      <4> QED BY <2>3, <4>2, <4>3
    <3> QED BY <3>1
  <2> QED BY <2>1, <2>2, <2>4 DEF Kept
<1>6. \E k \in 0 .. n + 1 : EndsAt(p, k)
  <2>1. SUFFICES ASSUME \A k \in 0 .. n + 1 : ~EndsAt(p, k) PROVE FALSE
    OBVIOUS
  <2> DEFINE T == {k \in 0 .. n + 1 : \A j \in 0 .. k : p[j].ints # << >>}
  <2>2. 0 \in T
    <3>1. p[0].ints # << >>
      <4>1. ~EndsAt(p, 0) /\ 0 \in 0 .. n + 1
        BY <2>1
      <4> QED BY <4>1 DEF EndsAt
    <3> QED BY <3>1
  <2>3. ASSUME NEW k \in 1 .. n + 1, k - 1 \in T PROVE k \in T
    <3>1. \A j \in 0 .. k - 1 : p[j].ints # << >>
      BY <2>3
    <3>2. ~EndsAt(p, k)
      BY <2>1
    <3>3. p[k].ints # << >>
      BY <3>1, <3>2 DEF EndsAt
    <3>4. \A j \in 0 .. k : j = k \/ j \in 0 .. k - 1
      OBVIOUS
    <3> QED BY <3>1, <3>3, <3>4
  <2>4. n + 1 \in T
    <3>1. \A k \in 0 .. n + 1 : k \in T
      <4> HIDE DEF T
      <4>1. n + 1 \in Nat
        OBVIOUS
      <4> QED BY <2>2, <2>3, <4>1, UpTo
    <3> QED BY <3>1
  <2>5. p[n + 1].ints # << >>
    BY <2>4
  <2>6. n < Power(ByteBase, n + 1)
    <3>1. n + 1 \in Nat
      OBVIOUS
    <3>2. n + 1 < Power(ByteBase, n + 1) /\ Power(ByteBase, n + 1) \in Nat
      BY <3>1, BaseSizes, PowerAbove, PowerStep
    <3> QED BY <3>2
  <2> QED BY <1>5, <2>5, <2>6
<1>7. PICK k \in 0 .. n + 1 : EndsAt(p, k) /\ DivideOut(groups, n) = p[k].bytes
  <2>1. DivideOut(groups, n) = p[CHOOSE k \in 0 .. n + 1 : EndsAt(p, k)].bytes
    BY <1>1, DivideOutEnds
  <2> QED BY <1>6, <2>1
<1>8. p[k].ints = << >> /\ \A j \in 0 .. k - 1 : p[j].ints # << >>
  BY <1>7 DEF EndsAt
<1>9. Len(p[k].bytes) = k /\ Value(p[k].bytes, ByteBase) = n
  <2>1. Kept(p[k], k, n) /\ k \in Nat
    BY <1>3
  <2>2. PICK q \in Nat, z \in Nat :
            /\ q = Power(ByteBase, k) /\ z = Value(p[k].bytes, ByteBase)
    BY <1>4, <2>1, BaseSizes, PowerStep, ValueIsNat
  <2>3. n = q * 0 + z
    <3>1. Value(<< >>, GroupBase) = 0
      BY BaseSizes, ValueShort
    <3> QED BY <1>8, <2>1, <2>2, <3>1 DEF Kept
  <2> QED BY <2>1, <2>2, <2>3 DEF Kept
<1>10. k <= m
  <2>1. ASSUME m < k PROVE FALSE
    <3>1. m \in 1 .. n + 1 /\ m \in 0 .. k - 1
      BY <2>1
    <3>2. p[m].ints = << >>
      BY <1>5, <3>1
    <3> QED BY <1>8, <3>1, <3>2
  <2> QED BY <2>1
<1> QED BY <1>4, <1>7, <1>9, <1>10

\* rawBytes is the amount without its sign.
LEMMA RawBytesAre ==
    ASSUME NEW amount \in Int, Magnitude(amount) < Power(ByteBase, BalanceBytes)
    PROVE  /\ RawBytes(amount) \in Seq(Nat) /\ Len(RawBytes(amount)) <= BalanceBytes
           /\ Value(RawBytes(amount), ByteBase) = Magnitude(amount)
<1>1. PICK n \in Nat : n = Magnitude(amount)
  BY DEF Magnitude
<1>2. PICK d \in Seq(Nat) : d = Digits(n) /\ Len(d) # 0 /\ Value(d, 10) = n
  BY DigitsAre
<1>3. PICK g \in Seq(Nat) : g = Grouped(d) /\ Value(g, GroupBase) = n
  BY <1>2, GroupedIs
<1>4. /\ DivideOut(g, n) \in Seq(Nat) /\ Len(DivideOut(g, n)) <= BalanceBytes
      /\ Value(DivideOut(g, n), ByteBase) = n
  BY <1>1, <1>3, BaseSizes, DivideOutIs
<1>5. RawBytes(amount) = DivideOut(g, n)
  BY <1>1, <1>2, <1>3 DEF RawBytes
<1> QED BY <1>1, <1>4, <1>5

----------------------------------------------------------------------------
(* The fields of a block that is hashed.                                   *)

\* A part of a sequence
IsPart(d, m, w, s) == SubSeq(d, m + 1, m + w) = s

\* It is also one of what is appended to, and so is what is appended.
LEMMA FrontKept ==
    ASSUME NEW r \in Seq(Nat), NEW s \in Seq(Nat), NEW d \in Seq(Nat), d = r \o s,
           NEW m \in Nat, NEW w \in Nat, m + w <= Len(r), NEW x, IsPart(r, m, w, x)
    PROVE  IsPart(d, m, w, x)
<1>1. Len(d) = Len(r) + Len(s) /\ \A i \in 1 .. Len(r) : d[i] = r[i]
  OBVIOUS
<1>2. /\ SubSeq(d, m + 1, m + w) = [i \in 1 .. w |-> d[m + i]]
      /\ SubSeq(r, m + 1, m + w) = [i \in 1 .. w |-> r[m + i]]
  <2>1. Len(r) \in Nat /\ Len(s) \in Nat /\ m + w <= Len(d)
    BY <1>1
  <2> QED BY <2>1
<1>3. \A i \in 1 .. w : d[m + i] = r[m + i]
  <2>1. \A i \in 1 .. w : m + i \in 1 .. Len(r)
    OBVIOUS
  <2> QED BY <1>1, <2>1
<1>4. SubSeq(d, m + 1, m + w) = SubSeq(r, m + 1, m + w)
  BY <1>2, <1>3
<1> QED BY <1>4 DEF IsPart

\* The end of two joined sequences is the second.
LEMMA EndFound ==
    ASSUME NEW r \in Seq(Nat), NEW s \in Seq(Nat), NEW d, d = r \o s,
           NEW m \in Nat, NEW w \in Nat, m = Len(r), w = Len(s)
    PROVE  IsPart(d, m, w, s)
<1>1. Dropped(r \o s, Len(r)) = s /\ Len(r \o s) = Len(r) + Len(s)
  BY Parts
<1>2. Dropped(d, m) = s /\ Len(d) = m + w
  BY <1>1
<1> QED BY <1>2 DEF Dropped, IsPart

\* The six fields of hashStateBlock, each at its place
Six(p, a, f, r, v, l) == p \o a \o f \o r \o v \o l

FieldsFound(h, p, a, f, r, v, l, K, W) ==
    /\ h \in Seq(Nat) /\ Len(h) = (4 * K + W) + K
    /\ IsPart(h, 0, K, p) /\ IsPart(h, K, K, a) /\ IsPart(h, 2 * K, K, f)
    /\ IsPart(h, 3 * K, K, r) /\ IsPart(h, 4 * K, W, v) /\ IsPart(h, 4 * K + W, K, l)

\* Six joined sequences are found at their places.
LEMMA FieldsAt ==
    ASSUME NEW K \in Nat, NEW W \in Nat, NEW p \in Seq(Nat), NEW a \in Seq(Nat), NEW f \in Seq(Nat),
           NEW r \in Seq(Nat), NEW v \in Seq(Nat), NEW l \in Seq(Nat),
           Len(p) = K, Len(a) = K, Len(f) = K, Len(r) = K, Len(v) = W, Len(l) = K
    PROVE  FieldsFound(Six(p, a, f, r, v, l), p, a, f, r, v, l, K, W)
<1>1. PICK h2 \in Seq(Nat) : h2 = p \o a /\ Len(h2) = 2 * K
  <2>1. p \o a \in Seq(Nat) /\ Len(p \o a) = Len(p) + Len(a)
    BY Parts
  <2>2. Len(p \o a) = 2 * K
    BY <2>1
  <2> QED BY <2>1, <2>2
<1>2. PICK h3 \in Seq(Nat) : h3 = h2 \o f /\ Len(h3) = 3 * K
  <2>1. h2 \o f \in Seq(Nat) /\ Len(h2 \o f) = Len(h2) + Len(f)
    BY Parts
  <2>2. Len(h2 \o f) = 3 * K
    BY <1>1, <2>1
  <2> QED BY <2>1, <2>2
<1>3. PICK h4 \in Seq(Nat) : h4 = h3 \o r /\ Len(h4) = 4 * K
  <2>1. h3 \o r \in Seq(Nat) /\ Len(h3 \o r) = Len(h3) + Len(r)
    BY Parts
  <2>2. Len(h3 \o r) = 4 * K
    BY <1>2, <2>1
  <2> QED BY <2>1, <2>2
<1>4. PICK h5 \in Seq(Nat) : h5 = h4 \o v /\ Len(h5) = 4 * K + W
  <2>1. h4 \o v \in Seq(Nat) /\ Len(h4 \o v) = Len(h4) + Len(v)
    BY Parts
  <2> QED BY <1>3, <2>1
<1>5. PICK h \in Seq(Nat) : h = h5 \o l /\ Len(h) = (4 * K + W) + K
  <2>1. h5 \o l \in Seq(Nat) /\ Len(h5 \o l) = Len(h5) + Len(l)
    BY Parts
  <2> QED BY <1>4, <2>1
<1>6. h = Six(p, a, f, r, v, l)
  BY <1>1, <1>2, <1>3, <1>4, <1>5 DEF Six
<1>n. /\ 0 \in Nat /\ 2 * K \in Nat /\ 3 * K \in Nat /\ 4 * K \in Nat /\ 4 * K + W \in Nat
      /\ 0 + K <= K /\ K + K <= 2 * K /\ 2 * K + K <= 3 * K /\ 3 * K + K <= 4 * K
      /\ 4 * K + W <= 4 * K + W
  OBVIOUS
<1>7. ASSUME NEW m \in Nat, NEW w \in Nat, m + w <= 4 * K, NEW x, IsPart(h4, m, w, x)
      PROVE  IsPart(h, m, w, x)
  <2>1. m + w <= 4 * K + W
    BY <1>7
  <2>2. IsPart(h5, m, w, x)
    BY <1>3, <1>4, <1>7, FrontKept
  <2> QED BY <1>4, <1>5, <2>1, <2>2, FrontKept
<1>8. ASSUME NEW m \in Nat, NEW w \in Nat, m + w <= 2 * K, NEW x, IsPart(h2, m, w, x)
      PROVE  IsPart(h4, m, w, x)
  <2>1. m + w <= 3 * K
    BY <1>8
  <2>2. IsPart(h3, m, w, x)
    BY <1>1, <1>2, <1>8, FrontKept
  <2> QED BY <1>2, <1>3, <2>1, <2>2, FrontKept
<1>9. IsPart(h, 4 * K + W, K, l)
  BY <1>4, <1>5, <1>n, EndFound
<1>10. IsPart(h, 4 * K, W, v)
  <2>1. IsPart(h5, 4 * K, W, v)
    BY <1>3, <1>4, <1>n, EndFound
  <2>2. 4 * K + W <= Len(h5)
    BY <1>4
  <2> QED BY <1>4, <1>5, <1>n, <2>1, <2>2, FrontKept
<1>11. IsPart(h, 3 * K, K, r)
  <2>1. IsPart(h4, 3 * K, K, r)
    BY <1>2, <1>3, <1>n, EndFound
  <2> QED BY <1>7, <1>n, <2>1
<1>12. IsPart(h, 2 * K, K, f)
  <2>1. IsPart(h3, 2 * K, K, f)
    BY <1>1, <1>2, <1>n, EndFound
  <2>0. 2 * K + K <= Len(h3)
    BY <1>2
  <2>2. IsPart(h4, 2 * K, K, f)
    BY <1>2, <1>3, <1>n, <2>0, <2>1, FrontKept
  <2>3. 2 * K + K <= 4 * K
    OBVIOUS
  <2> QED BY <1>7, <1>n, <2>2, <2>3
<1>13. K + K <= 4 * K /\ 0 + K <= 4 * K /\ 0 + K <= 2 * K
  OBVIOUS
<1>14. IsPart(h, K, K, a)
  <2>1. IsPart(h2, K, K, a)
    BY <1>1, EndFound
  <2> QED BY <1>7, <1>8, <1>13, <1>n, <2>1
<1>15. IsPart(h, 0, K, p)
  <2>1. IsPart(p, 0, K, p)
    BY DEF IsPart
  <2>2. IsPart(h2, 0, K, p)
    BY <1>1, <1>n, <2>1, FrontKept
  <2> QED BY <1>7, <1>8, <1>13, <1>n, <2>2
<1> QED BY <1>5, <1>6, <1>9, <1>10, <1>11, <1>12, <1>14, <1>15 DEF FieldsFound

\* The bytes of an address or a hash in a block
Field(text) == Length(HexToBytes(CHOOSE x \in MakeHex(text) : TRUE), KeyBytes)

\* hashStateBlock joins six fields.
LEMMA HashedFields ==
    ASSUME NEW b
    PROVE  HashStateBlock(b)
             = Six(Length(HexToBytes(<<6>>), KeyBytes), Field(b.account),
                   Length(HexToBytes(b.previous), KeyBytes), Field(b.representative),
                   Length(RawBytes(b.balance), BalanceBytes), Field(b.link))
BY DEF HashStateBlock, Six, Field

\* A field is read from the one text makeHex gives.
LEMMA FieldOfHex ==
    ASSUME NEW text, NEW x, MakeHex(text) = {x}
    PROVE  Field(text) = Length(HexToBytes(x), KeyBytes)
<1>1. (CHOOSE y \in MakeHex(text) : TRUE) = x
  OBVIOUS
<1> QED BY <1>1 DEF Field

\* The field of a key is the key.
LEMMA KeyField ==
    ASSUME NEW text, NEW key \in [1 .. KeyBytes -> Byte], MakeHex(text) = {HexString(key)}
    PROVE  Field(text) = key /\ Field(text) \in Seq(Nat) /\ Len(Field(text)) = KeyBytes
<1>1. HexToBytes(HexString(key)) = key
  BY HexOfKey
<1>2. key \in Seq(Nat) /\ Len(key) = KeyBytes /\ KeyBytes \in Nat
  <2>1. key \in Seq(Byte) /\ Len(key) = KeyBytes
    BY KeyIsBytes
  <2>2. \A y \in Byte : y \in Nat
    BY HexSizes
  <2> QED BY <2>1, <2>2, Sizes
<1>3. Length(key, KeyBytes) = key
  BY <1>2, LengthIs
<1>4. Field(text) = Length(HexToBytes(HexString(key)), KeyBytes)
  BY FieldOfHex
<1> QED BY <1>1, <1>2, <1>3, <1>4

\* A text that splits starts as an address does.
LEMMA SplitIsAddress ==
    ASSUME NEW a \in Seq(Int), SplitAddress(a) # {}
    PROVE  IsAddress(a)
<1>1. ChecksumChars \in Nat /\ Len(a) \in Nat
  BY Sizes
<1>2. PICK f : f = Without(a, ChecksumChars)
  OBVIOUS
<1>3. f # << >> /\ f[1] \in {Nano, Xrb, Ban}
  BY <1>2 DEF SplitAddress
<1>4. f = SubSeq(a, 1, Len(a) - ChecksumChars)
  BY <1>2 DEF Without
<1>5. Len(a) - ChecksumChars >= 1
  <2>1. ASSUME ~ (Len(a) - ChecksumChars >= 1) PROVE FALSE
    <3>1. f = << >>
      BY <1>1, <1>4, <2>1
    <3> QED BY <1>3, <3>1
  <2> QED BY <2>1
<1>6. f[1] = a[1] /\ a # << >>
  BY <1>1, <1>4, <1>5
<1> QED BY <1>3, <1>6 DEF IsAddress

\* The field of an address that splits is a key.
LEMMA AddressField ==
    ASSUME NEW a \in Seq(Int), IsAddress(a), MakeHex(a) # {}, ~MakeHexTraps(a)
    PROVE  \E key \in [1 .. KeyBytes -> Byte] : MakeHex(a) = {HexString(key)}
<1>1. PICK split \in SplitAddress(a) : Decodes(split.encoded)
  BY DEF MakeHex
<1>2. PICK e \in Seq(Int) : \E c : SplitAddress(a) = {[encoded |-> e, checksum |-> c]}
  <2>1. \E e \in Seq(Int) : \E c : SplitAddress(a) = {[encoded |-> e, checksum |-> c]}
    BY <1>1, SplitOnce
  <2> QED BY <2>1
<1>c. PICK c : SplitAddress(a) = {[encoded |-> e, checksum |-> c]}
  BY <1>2
<1>3. split = [encoded |-> e, checksum |-> c] /\ split.encoded = e
  BY <1>1, <1>c
<1>4. Decodes(e) /\ ~DecodeTraps(e)
  BY <1>1, <1>c, <1>3 DEF MakeHexTraps
<1>5. e \in Seq(Table)
  <2>1. DOMAIN e = 1 .. Len(e)
    OBVIOUS
  <2>2. \A i \in 1 .. Len(e) : e[i] \in Table
    BY <1>4, <2>1 DEF Decodes
  <2> QED BY <2>2
<1>6. Len(e) * CharBits <= Padded
  <2>1. Len(e) * CharBits \in Int /\ Padded \in Int
    <3>1. CharBits \in Nat /\ Padded \in Int /\ Len(e) \in Nat
      BY Sizes
    <3> QED BY <3>1
  <2> QED BY <1>4, <2>1 DEF DecodeTraps
<1>7. PICK key \in [1 .. KeyBytes -> Byte] : key = KeyOf(e)
  BY <1>5, <1>6, KeyOfBytes
<1>8. MakeHex(a) = {HexString(key)}
  <2>1. {x \in SplitAddress(a) : Decodes(x.encoded)} = {split}
    BY <1>1, <1>c, <1>3
  <2>2. MakeHex(a) = {HexString(KeyOf(x.encoded)) : x \in {split}}
    BY <2>1 DEF MakeHex
  <2>3. HexString(KeyOf(split.encoded)) = HexString(key)
    BY <1>3, <1>7
  <2> QED BY <2>2, <2>3
<1> QED BY <1>8

\* The field of an address made of a key is that key.
LEMMA MadeField ==
    ASSUME DigestIsBytes, NEW key \in [1 .. KeyBytes -> Byte],
           NEW p \in {"nano", "xrb", "banano"}, NEW a \in PublicAddress(p, key)
    PROVE  MakeHex(a) = {HexString(key)}
<1>1. /\ SplitAddress(a) # {} /\ a \in Seq(Int)
      /\ \A split \in SplitAddress(a) :
                 /\ Decodes(split.encoded) /\ ~DecodeTraps(split.encoded)
                 /\ KeyOf(split.encoded) = key
  BY MadeIsValid
<1>2. IsAddress(a)
  BY <1>1, SplitIsAddress
<1>3. {x \in SplitAddress(a) : Decodes(x.encoded)} = SplitAddress(a)
  BY <1>1
<1>4. MakeHex(a) = {HexString(KeyOf(x.encoded)) : x \in SplitAddress(a)}
  BY <1>2, <1>3 DEF MakeHex
<1>5. \A x \in SplitAddress(a) : HexString(KeyOf(x.encoded)) = HexString(key)
  BY <1>1
<1> HIDE DEF HexString
<1> QED BY <1>1, <1>4, <1>5

Owner(text) == CHOOSE key \in Keys : \E p \in AccountPrefixes : text \in PublicAddress(p, key)

\* The field of an address is the key the address was made for.
LEMMA OwnerField ==
    ASSUME DigestIsBytes, NEW text,
           \E prefix \in AccountPrefixes, key \in Keys : text \in PublicAddress(prefix, key)
    PROVE  Field(text) = Owner(text) /\ Field(text) \in Seq(Nat) /\ Len(Field(text)) = KeyBytes
<1>1. PICK key \in Keys, p \in AccountPrefixes : key = Owner(text) /\ text \in PublicAddress(p, key)
  <2>1. \E key \in Keys : \E p \in AccountPrefixes : text \in PublicAddress(p, key)
    OBVIOUS
  <2>2. Owner(text) \in Keys /\ \E p \in AccountPrefixes : text \in PublicAddress(p, Owner(text))
    BY <2>1 DEF Owner
  <2> QED BY <2>2
<1>2. key \in [1 .. KeyBytes -> Byte] /\ p \in {"nano", "xrb", "banano"}
  BY EncodingAssumption
<1>3. MakeHex(text) = {HexString(key)}
  BY <1>1, <1>2, MadeField
<1> QED BY <1>1, <1>2, <1>3, KeyField

\* The field of any other text has the length of a key too, and is its digits.
LEMMA HexIsNoAddress ==
    ASSUME NEW text, \A i \in DOMAIN text : text[i] \in Hex, text \in Seq(Int)
    PROVE  ~IsAddress(text)
<1>1. SUFFICES ASSUME text # << >>, text[1] \in {Nano, Xrb, Ban} PROVE FALSE
  BY DEF IsAddress
<1>2. 1 \in DOMAIN text
  BY <1>1
<1>3. text[1] \in Nat
  BY <1>2, HexSizes
<1> QED BY <1>1, <1>3 DEF Nano, Xrb, Ban

\* A field that hashes is whole, and a hash in it is the text of its bytes.
LEMMA TextField ==
    ASSUME NEW text \in Seq(Int), MakeHex(text) # {}, ~MakeHexTraps(text)
    PROVE  /\ Field(text) \in Seq(Nat) /\ Len(Field(text)) = KeyBytes
           /\ (\A i \in DOMAIN text : text[i] \in Hex) => HexString(Field(text)) = text
<1>0. KeyBytes \in Nat
  BY Sizes
<1>1. CASE IsAddress(text)
  <2>1. PICK key \in [1 .. KeyBytes -> Byte] : MakeHex(text) = {HexString(key)}
    BY <1>1, AddressField
  <2> QED BY <1>1, <2>1, KeyField, HexIsNoAddress
<1>2. CASE ~IsAddress(text)
  <2>1. Len(text) = 2 * KeyBytes /\ MakeHex(text) = {text}
    BY <1>2 DEF MakeHex
  <2>2. PICK d \in Seq(Nat) : d = HexToBytes(text) /\ Len(d) <= KeyBytes
    <3>1. HexToBytes(text) \in Seq(Nat) /\ Len(HexToBytes(text)) \in 0 .. HexPairs(text)
      BY HexBytes
    <3>2. HexPairs(text) = KeyBytes
      BY <1>0, <2>1 DEF HexPairs
    <3> QED BY <1>0, <3>1, <3>2
  <2>3. Field(text) = Length(d, KeyBytes)
    BY <2>1, <2>2, FieldOfHex
  <2>4. Length(d, KeyBytes) \in Seq(Nat) /\ Len(Length(d, KeyBytes)) = KeyBytes
        /\ (Len(d) = KeyBytes => Length(d, KeyBytes) = d)
    BY <1>0, <2>2, LengthIs
  <2>5. ASSUME \A i \in DOMAIN text : text[i] \in Hex PROVE HexString(Field(text)) = text
    <3>1. text \in HexText
      <4>1. DOMAIN text = 1 .. 2 * KeyBytes
        BY <2>1
      <4>2. text = [i \in 1 .. 2 * KeyBytes |-> text[i]]
        BY <4>1
      <4> QED BY <2>5, <4>1, <4>2 DEF HexText
    <3>2. Len(d) = KeyBytes /\ HexString(d) = text
      BY <2>2, <3>1, KeyOfHex
    <3> QED BY <2>3, <2>4, <3>2
  <2> QED BY <2>3, <2>4, <2>5
<1> QED BY <1>1, <1>2

\* The text of a key is its field.
LEMMA HexField ==
    ASSUME NEW key \in [1 .. KeyBytes -> Byte]
    PROVE  /\ HexString(key) \in Seq(Int) /\ MakeHex(HexString(key)) = {HexString(key)}
           /\ Field(HexString(key)) = key
<1>1. PICK text : text = HexString(key)
  OBVIOUS
<1>2. text \in HexText
  BY <1>1, HexOfKey
<1>3. KeyBytes \in Nat /\ \A x \in Hex : x \in Int
  BY Sizes, HexSizes
<1>4. text \in Seq(Int) /\ Len(text) = 2 * KeyBytes /\ \A i \in DOMAIN text : text[i] \in Hex
  <2>1. PICK m \in Nat : m = 2 * KeyBytes
    BY <1>3
  <2>2. text \in [1 .. m -> Hex]
    BY <1>2, <2>1 DEF HexText
  <2>3. text \in [1 .. m -> Int]
    BY <1>3, <2>2
  <2>4. text \in Seq(Int) /\ Len(text) = m
    BY <2>3
  <2> QED BY <2>1, <2>2, <2>4
<1>5. MakeHex(text) = {text}
  BY <1>4, HexIsNoAddress DEF MakeHex
<1> QED BY <1>1, <1>4, <1>5, KeyField

----------------------------------------------------------------------------
(* What is published.                                                      *)

Published == {"sendBlock", "receiveBlock"}

\* Where a block comes from: account info, an amount, and a link that is the
\* key of the text as typed, or the hash that is received.
BlockMade(call, b, text) ==
    /\ \E i \in AccountInfos, amount \in Amounts :
         /\ b.account = i.account /\ b.representative = i.representative
         /\ b.previous = i.frontier /\ b.balance \in {i.balance + amount, i.balance - amount}
    /\ call = "receiveBlock" => b.link \in Sources
    /\ call = "sendBlock" =>
         /\ text # NoAddress
         /\ \E split \in SplitAddress(text) :
              /\ Decodes(split.encoded) /\ ~DecodeTraps(split.encoded)
              /\ b.link = HexString(KeyOf(split.encoded))

\* What was hashed is the block that was published, when nothing stopped it;
\* an address nobody has mistyped is that of the account it was made for.
PublishedInv ==
    /\ address # NoAddress /\ slips = 0 =>
         made[1] \in AccountPrefixes /\ made[2] \in Keys /\ address \in PublicAddress(made[1], made[2])
    /\ said.call \in Published =>
         /\ Hashable(said.block) /\ ~HashTraps(said.block)
         /\ said.hashed = HashStateBlock(said.block)
         /\ BlockMade(said.call, said.block, address)

\* What is hashed is the block that is published.
LEMMA PublishesBlock ==
    ASSUME NEW call, NEW b, Publishes(call, b), said'.call \in Published
    PROVE  /\ said'.call = call /\ said'.block = b /\ said'.hashed = HashStateBlock(b)
           /\ Hashable(b) /\ ~HashTraps(b)
<1>1. CASE HashTraps(b)
  BY <1>1 DEF Publishes, Published
<1>2. CASE ~HashTraps(b) /\ ~Hashable(b)
  BY <1>2 DEF Publishes, Published
<1>3. CASE ~HashTraps(b) /\ Hashable(b)
  BY <1>3 DEF Publishes, Published
<1> QED BY <1>1, <1>2, <1>3

\* A block that was published was made from what its call was given.
LEMMA PublishedInvariant ==
    ASSUME DigestIsBytes
    PROVE  EncodingSpec => []PublishedInv
<1>1. EncodingInit => PublishedInv
  BY DEF EncodingInit, PublishedInv, NoAddress, Silent, Published
<1>2. EncodingInv /\ PublishedInv /\ [EncodingNext]_encodingVars => PublishedInv'
  <2> SUFFICES ASSUME EncodingInv, PublishedInv, [EncodingNext]_encodingVars PROVE PublishedInv'
    OBVIOUS
  <2>1. CASE PublicAddressCall
    <3>1. PICK prefix \in AccountPrefixes, key \in Keys :
              address' \in PublicAddress(prefix, key) /\ made' = <<prefix, key>>
      BY <2>1 DEF PublicAddressCall
    <3>2. made'[1] = prefix /\ made'[2] = key
      BY <3>1
    <3>3. said'.call = "none"
      BY <2>1 DEF PublicAddressCall, Silent
    <3> QED BY <3>1, <3>2, <3>3 DEF PublishedInv, Published
  <2>2. CASE Mistype
    <3>1. said'.call = "none" /\ slips' = slips + 1 /\ slips \in Nat
      BY <2>2 DEF Mistype, Silent, EncodingInv
    <3>2. slips' # 0
      BY <3>1
    <3> QED BY <3>1, <3>2 DEF PublishedInv, Published
  <2>3. CASE CheckCall
    <3>1. address' = address /\ made' = made /\ slips' = slips /\ said'.call = "check"
      BY <2>3 DEF CheckCall
    <3> QED BY <3>1 DEF PublishedInv, Published
  <2>4. CASE SendCall
    <3>1. address' = address /\ made' = made /\ slips' = slips /\ address # NoAddress
      BY <2>4 DEF SendCall
    <3>2. ASSUME said'.call \in Published
          PROVE  /\ Hashable(said'.block) /\ ~HashTraps(said'.block)
                 /\ said'.hashed = HashStateBlock(said'.block)
                 /\ BlockMade(said'.call, said'.block, address')
      <4> DEFINE sent(i, amount, split) ==
              [account |-> i.account, previous |-> i.frontier,
               representative |-> i.representative, balance |-> i.balance - amount,
               link |-> HexString(KeyOf(split.encoded))]
      <4>1. PICK i \in AccountInfos, amount \in Amounts :
              IF amount > i.balance \/ SplitAddress(address) = {}
              THEN said' = [call |-> "error"]
              ELSE \E split \in SplitAddress(address) :
                  IF DecodeTraps(split.encoded) THEN said' = [call |-> "trap"]
                  ELSE IF ~Decodes(split.encoded) THEN said' = [call |-> "error"]
                  ELSE Publishes("sendBlock", sent(i, amount, split))
        BY <2>4 DEF SendCall
      <4> HIDE DEF sent
      <4>2. PICK split \in SplitAddress(address) :
              /\ ~DecodeTraps(split.encoded) /\ Decodes(split.encoded)
              /\ Publishes("sendBlock", sent(i, amount, split))
        BY <3>2, <4>1 DEF Published
      <4>3. PICK b : b = sent(i, amount, split)
        OBVIOUS
      <4>4. /\ said'.call = "sendBlock" /\ said'.block = b /\ said'.hashed = HashStateBlock(b)
            /\ Hashable(b) /\ ~HashTraps(b)
        BY <3>2, <4>2, <4>3, PublishesBlock
      <4>5. /\ b.account = i.account /\ b.representative = i.representative
            /\ b.previous = i.frontier /\ b.balance = i.balance - amount
            /\ b.link = HexString(KeyOf(split.encoded))
        BY <4>3 DEF sent
      <4>6. BlockMade("sendBlock", b, address')
        BY <3>1, <4>2, <4>5 DEF BlockMade
      <4> QED BY <4>4, <4>6
    <3>3. said.call \notin Published
      BY <2>4 DEF SendCall, Silent, Published
    <3> QED BY <3>1, <3>2 DEF PublishedInv
  <2>5. CASE ReceiveCall
    <3>1. address' = address /\ made' = made /\ slips' = slips /\ address = NoAddress
      BY <2>5 DEF ReceiveCall
    <3>2. ASSUME said'.call \in Published
          PROVE  /\ Hashable(said'.block) /\ ~HashTraps(said'.block)
                 /\ said'.hashed = HashStateBlock(said'.block)
                 /\ BlockMade(said'.call, said'.block, address')
      <4> DEFINE received(i, hash, amount) ==
              [account |-> i.account, previous |-> i.frontier,
               representative |-> i.representative, balance |-> i.balance + amount, link |-> hash]
      <4>1. PICK i \in AccountInfos, hash \in Sources, amount \in Amounts :
              Publishes("receiveBlock", received(i, hash, amount))
        BY <2>5 DEF ReceiveCall
      <4> HIDE DEF received
      <4>3. PICK b : b = received(i, hash, amount)
        OBVIOUS
      <4>4. /\ said'.call = "receiveBlock" /\ said'.block = b /\ said'.hashed = HashStateBlock(b)
            /\ Hashable(b) /\ ~HashTraps(b)
        BY <3>2, <4>1, <4>3, PublishesBlock
      <4>5. /\ b.account = i.account /\ b.representative = i.representative
            /\ b.previous = i.frontier /\ b.balance = i.balance + amount /\ b.link = hash
        BY <4>3 DEF received
      <4>6. BlockMade("receiveBlock", b, address')
        BY <4>5 DEF BlockMade
      <4> QED BY <4>4, <4>6
    <3> QED BY <3>1, <3>2 DEF PublishedInv
  <2>6. CASE UNCHANGED encodingVars
    BY <2>6 DEF encodingVars, PublishedInv, BlockMade
  <2> QED BY <2>1, <2>2, <2>3, <2>4, <2>5, <2>6 DEF EncodingNext
<1> QED BY <1>1, <1>2, EncodingInvariant, PTL DEF EncodingSpec

\* The key of an address that splits and decodes
LEMMA SplitKey ==
    ASSUME NEW a \in Seq(Int), NEW split \in SplitAddress(a),
           Decodes(split.encoded), ~DecodeTraps(split.encoded)
    PROVE  KeyOf(split.encoded) \in [1 .. KeyBytes -> Byte]
<1>1. PICK e \in Seq(Int) : e = split.encoded
  BY SplitOnce
<1>2. e \in Seq(Table)
  <2>1. DOMAIN e = 1 .. Len(e)
    OBVIOUS
  <2>2. \A i \in 1 .. Len(e) : e[i] \in Table
    BY <1>1, <2>1 DEF Decodes
  <2> QED BY <2>2
<1>3. Len(e) * CharBits <= Padded
  <2>1. Len(e) * CharBits \in Int /\ Padded \in Int
    <3>1. CharBits \in Nat /\ Padded \in Int /\ Len(e) \in Nat
      BY Sizes
    <3> QED BY <3>1
  <2> QED BY <1>1, <2>1 DEF DecodeTraps
<1> QED BY <1>1, <1>2, <1>3, KeyOfBytes

\* The fields of a block that was published
LEMMA FieldsOfBlock ==
    ASSUME DigestIsBytes, NEW b, NEW call, BlockMade(call, b, address), call \in Published,
           Hashable(b), ~HashTraps(b), EncodingInv, address \in Seq(Int)
    PROVE  /\ Field(b.account) = Owner(b.account) /\ Field(b.representative) = Owner(b.representative)
           /\ \A text \in {b.account, b.representative, b.link} :
                 Field(text) \in Seq(Nat) /\ Len(Field(text)) = KeyBytes
           /\ b.previous = <<0>> \/ b.previous \in HexText
           /\ b.balance \in Int /\ Magnitude(b.balance) < Power(ByteBase, BalanceBytes)
           /\ (\A i \in DOMAIN b.link : b.link[i] \in Hex) => HexString(Field(b.link)) = b.link
<1>1. PICK i \in AccountInfos, amount \in Amounts :
         /\ b.account = i.account /\ b.representative = i.representative
         /\ b.previous = i.frontier /\ b.balance \in {i.balance + amount, i.balance - amount}
  BY DEF BlockMade
<1>2. /\ \A text \in {i.account, i.representative} :
             \E prefix \in AccountPrefixes, key \in Keys : text \in PublicAddress(prefix, key)
      /\ i.frontier = <<0>> \/ i.frontier \in HexText
      /\ i.balance \in Int /\ amount \in Int
      /\ \A n \in {i.balance + amount, i.balance - amount} : Magnitude(n) < Power(ByteBase, BalanceBytes)
  BY InputsAssumption DEF HexText, ByteBase
<1>3. /\ Field(b.account) = Owner(b.account)
      /\ Field(b.account) \in Seq(Nat) /\ Len(Field(b.account)) = KeyBytes
  BY <1>1, <1>2, OwnerField
<1>4. /\ Field(b.representative) = Owner(b.representative)
      /\ Field(b.representative) \in Seq(Nat) /\ Len(Field(b.representative)) = KeyBytes
  BY <1>1, <1>2, OwnerField
<1>5. b.balance \in Int /\ Magnitude(b.balance) < Power(ByteBase, BalanceBytes)
  BY <1>1, <1>2
<1>6. MakeHex(b.account) # {} /\ MakeHex(b.representative) # {} /\ MakeHex(b.link) # {}
      /\ GoodPrevious(b)
  BY DEF Hashable
<1>7. ~MakeHexTraps(b.link)
  BY <1>6 DEF HashTraps
<1>8. b.link \in Seq(Int)
  <2>1. CASE call = "receiveBlock"
    BY <2>1, InputsAssumption DEF BlockMade
  <2>2. CASE call = "sendBlock"
    <3>1. PICK split \in SplitAddress(address) :
              /\ Decodes(split.encoded) /\ ~DecodeTraps(split.encoded)
              /\ b.link = HexString(KeyOf(split.encoded))
      BY <2>2 DEF BlockMade
    <3>2. KeyOf(split.encoded) \in [1 .. KeyBytes -> Byte]
      BY <3>1, SplitKey
    <3> QED BY <3>1, <3>2, HexField
  <2> QED BY <2>1, <2>2 DEF Published
<1>9. /\ Field(b.link) \in Seq(Nat) /\ Len(Field(b.link)) = KeyBytes
      /\ (\A j \in DOMAIN b.link : b.link[j] \in Hex) => HexString(Field(b.link)) = b.link
  BY <1>6, <1>7, <1>8, TextField
<1> QED BY <1>1, <1>2, <1>3, <1>4, <1>5, <1>9

\* Every field of such a block is hashed as it is published.
LEMMA PublishedRight ==
    ASSUME DigestIsBytes, EncodingInv, PublishedInv
    PROVE  HashedAsPublished
<1>1. SUFFICES ASSUME said.call \in Published PROVE HashedAsPublished
  BY DEF HashedAsPublished, Published
<1>2. PICK b : b = said.block
  OBVIOUS
<1>3. /\ Hashable(b) /\ ~HashTraps(b) /\ said.hashed = HashStateBlock(b) /\ BlockMade(said.call, b, address)
      /\ address \in Seq(Int)
  BY <1>1, <1>2 DEF PublishedInv, EncodingInv
<1> DEFINE K == KeyBytes
           W == BalanceBytes
           p == Length(HexToBytes(<<6>>), K)
           a == Field(b.account)
           f == Length(HexToBytes(b.previous), K)
           r == Field(b.representative)
           v == Length(RawBytes(b.balance), W)
           l == Field(b.link)
           h == said.hashed
<1>4. /\ a = Owner(b.account) /\ r = Owner(b.representative)
      /\ a \in Seq(Nat) /\ Len(a) = K /\ r \in Seq(Nat) /\ Len(r) = K
      /\ l \in Seq(Nat) /\ Len(l) = K
      /\ b.previous = <<0>> \/ b.previous \in HexText
      /\ b.balance \in Int /\ Magnitude(b.balance) < Power(ByteBase, W)
      /\ (\A i \in DOMAIN b.link : b.link[i] \in Hex) => HexString(l) = b.link
  BY <1>1, <1>3, FieldsOfBlock
<1>5. K \in Nat \ {0} /\ W \in Nat /\ ByteBase \in Nat \ {0}
  BY Sizes, BaseSizes
<1>6. p \in Seq(Nat) /\ Len(p) = K /\ Value(p, ByteBase) = 6
  <2>1. HexToBytes(<<6>>) = <<6>>
    BY EncodingAssumption, HexOfDigit
  <2>2. PICK d \in Seq(Nat) : d = <<6>> /\ Len(d) = 1
    <3>1. <<6>> \in Seq(Nat) /\ Len(<<6>>) = 1
      OBVIOUS
    <3> QED BY <3>1
  <2>3. Length(d, K) \in Seq(Nat) /\ Len(Length(d, K)) = K /\ Value(Length(d, K), ByteBase) = Value(d, ByteBase)
    <3>1. Len(d) <= K
      BY <1>5, <2>2
    <3> QED BY <1>5, <3>1, LengthIs
  <2>4. Value(d, ByteBase) = 6
    <3>1. 6 \in Nat
      OBVIOUS
    <3> QED BY <1>5, <2>2, <3>1, ValueShort
  <2> QED BY <2>1, <2>2, <2>3, <2>4
<1>7. f \in Seq(Nat) /\ Len(f) = K /\ (HexString(f) = b.previous \/ b.previous = <<0>>)
  <2>1. CASE b.previous = <<0>>
    <3>1. HexToBytes(<<0>>) = <<0>>
      <4>1. 0 \in Hex
        BY HexSizes
      <4> QED BY <4>1, HexOfDigit
    <3>2. <<0>> \in Seq(Nat) /\ Len(<<0>>) <= K
      BY <1>5
    <3>3. Length(<<0>>, K) \in Seq(Nat) /\ Len(Length(<<0>>, K)) = K
      BY <1>5, <3>2, LengthIs
    <3> QED BY <2>1, <3>1, <3>3
  <2>2. CASE b.previous \in HexText
    <3>1. PICK d \in Seq(Nat) : d = HexToBytes(b.previous) /\ Len(d) = K /\ HexString(d) = b.previous
      BY <2>2, KeyOfHex
    <3>2. Length(d, K) = d
      BY <1>5, <3>1, LengthIs
    <3> QED BY <3>1, <3>2
  <2> QED BY <1>4, <2>1, <2>2
<1>8. v \in Seq(Nat) /\ Len(v) = W /\ Value(v, ByteBase) = Magnitude(b.balance)
  <2>1. PICK d \in Seq(Nat) : d = RawBytes(b.balance) /\ Len(d) <= W
                              /\ Value(d, ByteBase) = Magnitude(b.balance)
    BY <1>4, RawBytesAre
  <2>2. Length(d, W) \in Seq(Nat) /\ Len(Length(d, W)) = W /\ Value(Length(d, W), ByteBase) = Value(d, ByteBase)
    BY <1>5, <2>1, LengthIs
  <2> QED BY <2>1, <2>2
<1>9. h = Six(p, a, f, r, v, l)
  BY <1>3, HashedFields
<1>10. FieldsFound(h, p, a, f, r, v, l, K, W)
  <2> HIDE DEF p, a, f, r, v, l, h, K, W
  <2>1. FieldsFound(Six(p, a, f, r, v, l), p, a, f, r, v, l, K, W)
    BY <1>4, <1>5, <1>6, <1>7, <1>8, FieldsAt
  <2> QED BY <1>9, <2>1
<1>11. /\ Len(h) = (4 * K + W) + K
       /\ BytesAt(0, K) = p /\ BytesAt(K, K) = a /\ BytesAt(2 * K, K) = f
       /\ BytesAt(3 * K, K) = r /\ BytesAt(4 * K, W) = v /\ BytesAt(4 * K + W, K) = l
  <2> HIDE DEF p, a, f, r, v, l, K, W
  <2> QED BY <1>10 DEF FieldsFound, IsPart, BytesAt
<1>12. ASSUME b.balance >= 0 PROVE Value(v, ByteBase) = b.balance
  <2>1. Magnitude(b.balance) = b.balance
    BY <1>4, <1>12 DEF Magnitude
  <2> QED BY <1>8, <2>1
<1>13. ASSUME said.call = "sendBlock", slips = 0 PROVE l = made[2]
  <2>1. PICK split \in SplitAddress(address) :
            /\ Decodes(split.encoded) /\ ~DecodeTraps(split.encoded)
            /\ b.link = HexString(KeyOf(split.encoded)) /\ address # NoAddress
    BY <1>3, <1>13 DEF BlockMade
  <2>2. PICK prefix \in {"nano", "xrb", "banano"}, key \in [1 .. KeyBytes -> Byte] :
            key = made[2] /\ address \in PublicAddress(prefix, key)
    <3>1. /\ made[1] \in AccountPrefixes /\ made[2] \in Keys
          /\ address \in PublicAddress(made[1], made[2])
      BY <1>13, <2>1 DEF PublishedInv
    <3>2. made[1] \in {"nano", "xrb", "banano"} /\ made[2] \in [1 .. KeyBytes -> Byte]
      BY <3>1, EncodingAssumption
    <3> QED BY <3>1, <3>2
  <2>3. KeyOf(split.encoded) = key
    BY <2>2, MadeIsValid
  <2>4. b.link = HexString(key)
    BY <2>1, <2>3
  <2> QED BY <2>2, <2>4, HexField
<1> HIDE DEF p, a, f, r, v, l, h, K, W
<1>14. /\ Value(BytesAt(0, K), ByteBase) = 6
       /\ BytesAt(K, K) = Owner(b.account)
       /\ HexString(BytesAt(2 * K, K)) = b.previous \/ b.previous = <<0>>
       /\ BytesAt(3 * K, K) = Owner(b.representative)
       /\ b.balance >= 0 => Value(BytesAt(4 * K, W), ByteBase) = b.balance
       /\ (\A i \in DOMAIN b.link : b.link[i] \in Hex) => HexString(BytesAt(4 * K + W, K)) = b.link
       /\ said.call = "sendBlock" /\ slips = 0 => BytesAt(4 * K + W, K) = made[2]
  BY <1>4, <1>6, <1>7, <1>11, <1>12, <1>13
<1> QED BY <1>2, <1>11, <1>14 DEF HashedAsPublished, Owner, ByteBase, h, K, W

\* What is hashed, and so signed, is the block that is published
\* (NanoBlockFunctions.hashStateBlock, NanoAmount.rawBytes, makeHex), for
\* keys, bytes and balances of any size: every field is whole and at its place,
\* and a payment to an address typed right goes to the key of that address.
THEOREM AlwaysHashedAsPublished ==
    ASSUME DigestIsBytes
    PROVE  EncodingSpec => []HashedAsPublished
<1>1. EncodingInv /\ PublishedInv => HashedAsPublished
  BY PublishedRight
<1> QED BY <1>1, EncodingInvariant, PublishedInvariant, PTL
=============================================================================

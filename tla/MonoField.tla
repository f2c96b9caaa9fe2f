------------------------------ MODULE MonoField ------------------------------
(***************************************************************************)
(* The field arithmetic of Monocypher (monocypher.c, fe_ ...).  The code is *)
(* written for the prime 2^255 - 19; P is any prime of its kind, 5 modulo  *)
(* 8.  The ten limbs of a field element are abstracted to its value and to *)
(* a bound on their size: w tenths of 2^25 for the even limbs, of 2^24 for *)
(* the odd ones.  The comments of the code state which bound each          *)
(* operation needs and gives; what breaks one is Broken from then on.      *)
(***************************************************************************)
EXTENDS Integers

CONSTANTS
    P,          \* the prime
    A,          \* the Montgomery coefficient: 486662
    FieldBits   \* bits of an encoded element: 255

ASSUME FieldAssumption ==
    /\ P \in Nat /\ P % 8 = 5
    /\ P < 2 ^ FieldBits
    /\ A \in 1 .. P - 1 /\ A % 4 = 2

FeCarried == 11     \* 1.1 * 2^25: after FE_CARRY, and what fe_tobytes needs
MulMax  == 33     \* 1.65 * 2^26: what the multiplications need
Broken  == 1000   \* limbs out of every bound
NoBytes == -(2 ^ 30)   \* the encoding of an element whose limbs are too large

Elem(x, w) == [v |-> x % P, w |-> w]

\* The constants of the code have limbs of at most 2^25.
Const(x) == Elem(x, 10)

FeAdd(f, g) == Elem(f.v + g.v, f.w + g.w)
FeSub(f, g) == Elem(f.v - g.v, f.w + g.w)
FeNeg(f)    == Elem(-f.v, f.w)

\* fe_ccopy
FeCCopy(f, g, b) == IF b THEN g ELSE f

\* FE_CARRY, after a computation whose precondition is fits
FeCarry(x, fits) == Elem(x, IF fits THEN FeCarried ELSE Broken)

FeFromBytes(s) == FeCarry(s % 2 ^ FieldBits, TRUE)

FeToBytes(f) == IF f.w <= FeCarried THEN f.v ELSE NoBytes

FeMul(f, g)      == FeCarry(f.v * g.v, f.w <= MulMax /\ g.w <= MulMax)
FeSq(f)          == FeCarry(f.v * f.v, f.w <= MulMax)
FeMulSmall(f, n) == FeCarry(f.v * n, f.w <= MulMax)

\* Mutant: twice the square without the second carry.
FeSq2Uncarried(f) == FeAdd(FeSq(f), FeSq(f))

FeSq2(f) == FeMulSmall(FeSq(f), 2)

\* x^n modulo P
Power(x, n) ==
    LET p[k \in 0 .. n] ==
            IF k = 0 THEN 1
            ELSE LET half == p[k \div 2]
                 IN  (((half * half) % P) * (IF k % 2 = 1 THEN x ELSE 1)) % P
    IN  p[n]

Powers == [x \in 0 .. P - 1 |-> Power(x, (P - 5) \div 8)]

\* fe_pow22523: the exponent is (P - 5) / 8, which is 2^252 - 3 in the code
FePow22523(z) == FeCarry(Powers[z.v], z.w <= MulMax)

FeInvert(z) ==
    LET cube == FeMul(FeSq(FeSq(FePow22523(z))), z)
    IN  FeMul(FeSq(cube), z)

FeIsOdd(f) == FeToBytes(f) % 2 = 1

FeIsEqual(f, g) == FeToBytes(f) = FeToBytes(g)

\* The constants
FeOne  == Const(1)
FeZero == Const(0)
SqrtM1 == Const(Power(2, (P - 1) \div 4))
EdD    == Const(-(A - 2) * Power(A + 2, P - 2))
EdD2   == Const(2 * EdD.v)
CoefA  == Const(A)
CoefA2 == Const(A * A)
UFactor == Const(-2 * SqrtM1.v)

\* invsqrt: the root, and whether x is a non-zero square
InvSqrt(x) ==
    LET isr     == FePow22523(x)
        quartic == FeMul(FeSq(isr), x)
        p1      == FeIsEqual(quartic, FeOne)
        m1      == FeIsEqual(quartic, FeNeg(FeOne))
        ms      == FeIsEqual(quartic, FeNeg(SqrtM1))
    IN  [root   |-> FeCCopy(isr, FeMul(isr, SqrtM1), m1 \/ ms),
         square |-> p1 \/ m1]
=============================================================================

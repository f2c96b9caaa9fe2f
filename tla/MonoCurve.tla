------------------------------ MODULE MonoCurve ------------------------------
(***************************************************************************)
(* The curve of Monocypher (monocypher.c): the group operations in Edwards *)
(* coordinates, the three scalar multiplications (Montgomery ladder,       *)
(* sliding windows, signed combs) and the Elligator 2 maps.                *)
(*                                                                         *)
(* Everything is computed as the code does, in its own coordinates, over a *)
(* small curve of the same kind: order 8 * L with A + 2 a square and A - 2 *)
(* not one.  A secret or a scalar is a number below Radix = 2^ScalarBits;  *)
(* an encoded point has its sign above its FieldBits bits.                 *)
(***************************************************************************)
EXTENDS MonoField, MonoScalar

CONSTANTS
    ScalarBits,   \* 256
    CombSpacing,  \* distance of two teeth of a comb: 32
    BaseX, BaseY  \* the base point, of order L

ASSUME CurveAssumption ==
    /\ Radix = 2 ^ ScalarBits
    /\ CombSpacing \in Nat \ {0} /\ L < 2 ^ (8 * CombSpacing)
    /\ BaseX \in 1 .. P - 1 /\ BaseY \in 1 .. P - 1

----------------------------------------------------------------------------
(* The group as it is defined: affine points of -x^2 + y^2 = 1 + d x^2 y^2 *)
(* and their sums.                                                         *)

Inv(x) == Power(x % P, P - 2)

EdSum(p, q) ==
    LET t == EdD.v * ((((p[1] * q[1]) % P) * ((p[2] * q[2]) % P)) % P)
    IN  <<(((p[1] * q[2] + p[2] * q[1]) % P) * Inv(1 + t)) % P,
          (((p[2] * q[2] + p[1] * q[1]) % P) * Inv(1 - t)) % P>>

EdTimes(n, p) ==
    LET m[k \in 0 .. n] ==
            IF k = 0 THEN <<0, 1>>
            ELSE LET half   == m[k \div 2]
                     double == EdSum(half, half)
                 IN  IF k % 2 = 1 THEN EdSum(double, p) ELSE double
    IN  m[n]

EdMinus(p) == <<(-p[1]) % P, p[2]>>
OnCurve(p) ==
    (p[2] * p[2] - p[1] * p[1] - 1) % P
        = (EdD.v * ((((p[1] * p[1]) % P) * ((p[2] * p[2]) % P)) % P)) % P

BasePoint == <<BaseX, BaseY>>
BaseTimes(n) == EdTimes(n % L, BasePoint)

\* The u coordinate of a point; 0 for the neutral one, as in the code
MontgomeryU(p) == ((1 + p[2]) * Inv(1 - p[2])) % P

\* The points an encoding stands for.  (0, 1) and (0, -1) are refused, whatever
\* their sign: their x coordinate is no quotient of squares other than 0.
Decoded(e) ==
    LET y == (e % 2 ^ FieldBits) % P
    IN  {p \in (1 .. P - 1) \X {y} : p[1] % 2 = e \div 2 ^ FieldBits /\ OnCurve(p)}

Encoded(p) == p[2] + (p[1] % 2) * 2 ^ FieldBits

----------------------------------------------------------------------------
(* Points in Edwards coordinates                                           *)

GeZero == [X |-> FeZero, Y |-> FeOne, Z |-> FeOne, T |-> FeZero]

GeToBytes(h) ==
    LET recip == FeInvert(h.Z)
        x     == FeMul(h.X, recip)
        y     == FeMul(h.Y, recip)
    IN  FeToBytes(y) + (IF FeIsOdd(x) THEN 2 ^ FieldBits ELSE 0)

SignOf(s) == (s \div 2 ^ FieldBits) % 2 = 1

\* ge_frombytes_vartime: the point, if there is one
GeFromBytes(s) ==
    LET y   == FeFromBytes(s)
        y2  == FeSq(y)
        num == FeSub(y2, FeOne)
        den == FeAdd(FeMul(y2, EdD), FeOne)
        isr == InvSqrt(FeMul(num, den))
        x   == FeMul(num, isr.root)
        signed == IF FeIsOdd(x) # SignOf(s) THEN FeNeg(x) ELSE x
    IN  IF isr.square
        THEN {[X |-> signed, Y |-> y, Z |-> FeOne, T |-> FeMul(signed, y)]}
        ELSE {}

GeCache(p) ==
    [Yp |-> FeAdd(p.Y, p.X), Ym |-> FeSub(p.Y, p.X), Z |-> p.Z, T2 |-> FeMul(p.T, EdD2)]

\* The common part of ge_add, ge_madd and ge_msub
GeSum(p, yp, ym, z, t) ==
    LET a == FeMul(FeAdd(p.Y, p.X), yp)
        b == FeMul(FeSub(p.Y, p.X), ym)
        y == FeAdd(a, b)
        x == FeSub(a, b)
        c == FeAdd(z, t)
        e == FeSub(z, t)
    IN  [X |-> FeMul(x, e), Y |-> FeMul(y, c), Z |-> FeMul(c, e), T |-> FeMul(x, y)]

GeAdd(p, q) ==
    GeSum(p, q.Yp, q.Ym, FeMul(FeAdd(p.Z, p.Z), q.Z), FeMul(p.T, q.T2))

GeSub(p, q) ==
    GeAdd(p, [Yp |-> q.Ym, Ym |-> q.Yp, Z |-> q.Z, T2 |-> FeNeg(q.T2)])

GeMAdd(p, q) == GeSum(p, q.Yp, q.Ym, FeAdd(p.Z, p.Z), FeMul(p.T, q.T2))

GeMSub(p, q) == GeSum(p, q.Ym, q.Yp, FeAdd(p.Z, p.Z), FeNeg(FeMul(p.T, q.T2)))

GeDouble(p) ==
    LET x2  == FeSq(p.X)
        y2  == FeSq(p.Y)
        sum == FeAdd(y2, x2)
        dif == FeSub(y2, x2)
        x   == FeSub(FeSq(FeAdd(p.X, p.Y)), sum)
        z   == FeSub(FeSq2(p.Z), dif)
    IN  [X |-> FeMul(x, z), Y |-> FeMul(sum, dif), Z |-> FeMul(dif, z), T |-> FeMul(x, sum)]

\* A point of a table (ge_precomp: Z = 1)
Precomp(p) ==
    [Yp |-> Const(p[2] + p[1]), Ym |-> Const(p[2] - p[1]),
     T2 |-> Const(EdD2.v * ((p[1] * p[2]) % P))]

\* b_window: the odd multiples of the base point
BWindow == [i \in 0 .. 7 |-> Precomp(BaseTimes(2 * i + 1))]

----------------------------------------------------------------------------
(* Sliding windows                                                         *)

\* Mutant: the top bit of L is never looked at.
SlideInitBelow(scalar) ==
    LET set == {i \in 1 .. TopBit - 1 : ScalarBit(scalar, i) = 1}
        top == IF set = {} THEN 0 ELSE CHOOSE i \in set : \A j \in set : j <= i
    IN  [index |-> -1, digit |-> -1, check |-> (top + 1) % 256]

\* slide_init
SlideInit(scalar) ==
    LET set == {i \in 1 .. TopBit : ScalarBit(scalar, i) = 1}
        top == IF set = {} THEN 0 ELSE CHOOSE i \in set : \A j \in set : j <= i
    IN  [index |-> -1, digit |-> -1, check |-> (top + 1) % 256]

\* The signed digit of the window of w bits that ends at bit i
WindowDigit(scalar, i, w) ==
    LET bits[j \in 0 .. w - 1] ==
            IF j = 0 THEN -(ScalarBit(scalar, i) * 2 ^ (w - 1))
            ELSE bits[j - 1] + ScalarBit(scalar, i - (w - 1) + j - 1) * 2 ^ (j - 1)
    IN  bits[w - 1] + ScalarBit(scalar, i - w)

\* The lowest set bit of v
LowBit(v) == CHOOSE s \in 0 .. 7 : v % 2 ^ s = 0 /\ v % 2 ^ (s + 1) # 0

\* slide_step: next_check is a u8
SlideStep(ctx, width, i, scalar) ==
    LET w == IF width < i + 1 THEN width ELSE i + 1
        v == WindowDigit(scalar, i, w)
        s == LowBit(v)
    IN  IF i # ctx.check THEN ctx
        ELSE IF ScalarBit(scalar, i) = ScalarBit(scalar, i - 1)
        THEN [ctx EXCEPT !.check = (@ - 1) % 256]
        ELSE [index |-> i - (w - 1) + s,
              digit |-> v \div 2 ^ s,
              check |-> (ctx.check - w) % 256]

DigitAt(ctx, i) == IF i = ctx.index THEN ctx.digit ELSE 0

\* Add digit times a point, odd multiples of which are in table
AddDigitOf(p, digit, table, Plus(_, _), Minus(_, _)) ==
    IF digit > 0 THEN Plus(p, table[digit \div 2])
    ELSE IF digit < 0 THEN Minus(p, table[(-digit) \div 2])
    ELSE p

\* ge_double_scalarmult_vartime: [b]B + [n]point
DoubleScalarMult(point, n, b) ==
    LET cached == [i \in {0, 1} |->
                     IF i = 0 THEN GeCache(point)
                     ELSE GeCache(GeAdd(GeDouble(point), GeCache(point)))]
        start  == [sum |-> GeZero, ps |-> SlideInit(n), bs |-> SlideInit(b)]
        first  == IF start.ps.check > start.bs.check THEN start.ps.check ELSE start.bs.check
        added(sum, ps, bs, i) ==
            AddDigitOf(AddDigitOf(sum, DigitAt(ps, i), cached, GeAdd, GeSub),
                       DigitAt(bs, i), BWindow, GeMAdd, GeMSub)
        slid(s, ps, bs, i) == [sum |-> added(GeDouble(s.sum), ps, bs, i), ps |-> ps, bs |-> bs]
        step(s, k) ==
            slid(s, SlideStep(s.ps, 3, first - k, n), SlideStep(s.bs, 5, first - k, b), first - k)
    IN  Loop(step, start, first + 1).sum

----------------------------------------------------------------------------
(* Signed combs                                                            *)

\* The multiple of the base point under the teeth of a comb at its low end:
\* tooth k counts 1 or -1 times 2^(k * CombSpacing), the highest one 1.
CombValue(j) ==
    2 ^ (3 * CombSpacing)
        + (2 * (j % 2) - 1)
        + (2 * ((j \div 2) % 2) - 1) * 2 ^ CombSpacing
        + (2 * (j \div 4) - 1) * 2 ^ (2 * CombSpacing)

\* b_comb_low, b_comb_high
CombLow  == [j \in 0 .. 7 |-> Precomp(BaseTimes(CombValue(j)))]
CombHigh ==
    [j \in 0 .. 7 |->
        Precomp(BaseTimes((CombValue(j) % L) * (2 ^ (4 * CombSpacing) % L)))]

\* lookup_add
LookupAdd(p, comb, scalar, i) ==
    LET tooth(k) == ScalarBit(scalar, i + k * CombSpacing)
        low   == tooth(0) + 2 * tooth(1) + 4 * tooth(2)
        entry == comb[IF tooth(3) = 1 THEN low ELSE 7 - low]
    IN  GeMAdd(p, IF tooth(3) = 1 THEN entry
                  ELSE [Yp |-> entry.Ym, Ym |-> entry.Yp, T2 |-> FeNeg(entry.T2)])

HalfModL == (L + 1) \div 2
HalfOnes == (((2 ^ (8 * CombSpacing) - 1) % L) * HalfModL) % L

\* ge_scalarmult_base
ScalarMultBase(scalar) ==
    LET combs(p, i, s) ==
            LookupAdd(LookupAdd(p, CombLow, s, i), CombHigh, s, i + 4 * CombSpacing)
        ladder(s) ==
            Loop(LAMBDA p, k : combs(GeDouble(p), CombSpacing - 2 - k, s),
                 combs(GeZero, CombSpacing - 1, s), CombSpacing - 1)
    IN  Strictly(ladder, MulAdd(scalar, HalfModL, HalfOnes))

----------------------------------------------------------------------------
(* X25519                                                                  *)

\* trim_scalar
TrimScalar(s) == (s % 2 ^ (ScalarBits - 2)) - (s % 8) + 2 ^ (ScalarBits - 2)

\* One step of the Montgomery ladder
LadderStep(x1, s) ==
    LET t0 == FeSub(s.x3, s.z3)
        t1 == FeSub(s.x2, s.z2)
        a  == FeAdd(s.x2, s.z2)
        c  == FeAdd(s.x3, s.z3)
        da == FeMul(t0, a)
        cb == FeMul(c, t1)
        bb == FeSq(t1)
        aa == FeSq(a)
        e  == FeSub(aa, bb)
    IN  [x2 |-> FeMul(aa, bb),
         z2 |-> FeMul(e, FeAdd(bb, FeMulSmall(e, (A + 2) \div 4))),
         x3 |-> FeSq(FeAdd(da, cb)),
         z3 |-> FeMul(x1, FeSq(FeSub(da, cb))),
         swap |-> s.swap]

Swapped(s, b) ==
    IF b = 1 THEN [s EXCEPT !.x2 = s.x3, !.x3 = s.x2, !.z2 = s.z3, !.z3 = s.z2] ELSE s

\* Mutant: the swap of a step forgets the one before it.
ScalarMultSwapped(scalar, point, count) ==
    LET x1 == FeFromBytes(point)
        start == [x2 |-> FeOne, z2 |-> FeZero, x3 |-> x1, z3 |-> FeOne, swap |-> 0]
        step(s, k) == LadderStep(x1, Swapped(s, ScalarBit(scalar, count - 1 - k)))
    IN  Strictly(LAMBDA s : FeToBytes(FeMul(s.x2, FeInvert(s.z2))), Loop(step, start, count))

\* scalarmult: the ladder over count bits
ScalarMult(scalar, point, count) ==
    LET x1 == FeFromBytes(point)
        start == [x2 |-> FeOne, z2 |-> FeZero, x3 |-> x1, z3 |-> FeOne, swap |-> 0]
        step(s, k) ==
            LET b == ScalarBit(scalar, count - 1 - k)
            IN  LadderStep(x1, [Swapped(s, (s.swap + b) % 2) EXCEPT !.swap = b])
        finish(s) == FeToBytes(FeMul(s.x2, FeInvert(s.z2)))
    IN  Strictly(LAMBDA s : finish(Swapped(s, s.swap)), Loop(step, start, count))

\* crypto_x25519
X25519(secret, point) == ScalarMult(TrimScalar(secret), point, ScalarBits - 1)

\* crypto_x25519_public_key: the point 9
X25519PublicKey(secret) == X25519(secret, MontgomeryU(BasePoint))

\* Mutant: the ladder of crypto_x25519_inverse leaves the last bit out.
X25519InverseShort(secret, point) ==
    LET scalar == ScalarInverse(TrimScalar(secret))
    IN  ScalarMult(AddXL(scalar, scalar * 3), point, ScalarBits - 1)

\* crypto_x25519_inverse
X25519Inverse(secret, point) ==
    LET scalar == ScalarInverse(TrimScalar(secret))
    IN  ScalarMult(AddXL(scalar, scalar * 3), point, ScalarBits)

\* crypto_from_eddsa_public
FromEddsaPublic(eddsa) ==
    LET y == FeFromBytes(eddsa)
    IN  FeToBytes(FeMul(FeAdd(FeOne, y), FeInvert(FeSub(FeOne, y))))

----------------------------------------------------------------------------
(* Keys with a low order part                                              *)

\* lop_x = sqrt((sqrt(d + 1) + 1) / d), lop_y = -lop_x * sqrtm1
LopX ==
    CHOOSE x \in 1 .. P - 1 :
        LET root == (EdD.v * ((x * x) % P) - 1) % P
        IN  (root * root) % P = (EdD.v + 1) % P /\ x % 2 = 0
LopY == (-LopX * SqrtM1.v) % P
Lop  == <<LopX, LopY>>

\* dirty_base_point: the base point and the low order point
DirtyBase == MontgomeryU(EdSum(BasePoint, Lop))

\* crypto_x25519_dirty_small
DirtySmall(secret) ==
    ScalarMult(AddXL(TrimScalar(secret), secret * 5), DirtyBase, ScalarBits)

\* Mutant: the sign of y follows the highest bit alone.
LowOrderPointMirrored(cofactor) ==
    LET a == (cofactor \div 4) % 2 = 1
        b == (cofactor \div 2) % 2 = 1
        c == cofactor % 2 = 1
        x0 == FeCCopy(FeCCopy(FeZero, SqrtM1, b), Const(LopX), c)
        y0 == FeCCopy(FeCCopy(FeOne, FeZero, b), Const(LopY), c)
    IN  [x |-> FeCCopy(x0, FeNeg(x0), a), y |-> FeCCopy(y0, FeNeg(y0), a)]

\* The low order point of a cofactor, by the selections of the code
LowOrderPoint(cofactor) ==
    LET a == (cofactor \div 4) % 2 = 1
        b == (cofactor \div 2) % 2 = 1
        c == cofactor % 2 = 1
        x0 == FeCCopy(FeCCopy(FeZero, SqrtM1, b), Const(LopX), c)
        y0 == FeCCopy(FeCCopy(FeOne, FeZero, b), Const(LopY), c)
    IN  [x |-> FeCCopy(x0, FeNeg(x0), a), y |-> FeCCopy(y0, FeNeg(y0), a # b)]

\* crypto_x25519_dirty_fast
DirtyFast(secret) ==
    LET low == LowOrderPoint(secret % 8)
        q   == [Yp |-> FeAdd(low.y, low.x), Ym |-> FeSub(low.y, low.x),
                T2 |-> FeMul(FeMul(low.y, low.x), EdD2)]
        encode(pk) ==
            FeToBytes(FeMul(FeAdd(pk.Z, pk.Y), FeInvert(FeSub(pk.Z, pk.Y))))
    IN  Strictly(encode, GeMAdd(ScalarMultBase(TrimScalar(secret)), q))

----------------------------------------------------------------------------
(* Elligator 2                                                             *)

\* crypto_hidden_to_curve
HiddenToCurve(hidden) ==
    LET r  == FeFromBytes(hidden % 2 ^ (FieldBits - 1))
        t1 == FeSq2(r)
        u  == FeAdd(t1, FeOne)
        t2 == FeSq(u)
        t3 == FeMul(FeSub(FeMul(CoefA2, t1), t2), CoefA)
        isr == InvSqrt(FeMul(t3, FeMul(t2, u)))
        factor == FeCCopy(FeMul(FeSq(r), UFactor), FeOne, isr.square)
    IN  FeToBytes(FeNeg(
            FeMul(FeMul(FeMul(FeMul(factor, CoefA), t3), t2), FeSq(isr.root))))

\* Mutant: the representative is not made the smaller of the two roots.
CurveToHiddenUnsigned(key, tweak) ==
    LET t1 == FeFromBytes(key)
        t2 == FeAdd(t1, CoefA)
        isr == InvSqrt(FeMulSmall(FeMul(t1, t2), -2))
        r   == FeMul(FeCCopy(t1, t2, tweak.sign), isr.root)
    IN  IF isr.square THEN {FeToBytes(r) + tweak.pad * 2 ^ (FieldBits - 1)} ELSE {}

\* crypto_curve_to_hidden: the representative, if there is one.  Of the tweak,
\* one bit is the sign and two are padding.
CurveToHidden(key, tweak) ==
    LET t1 == FeFromBytes(key)
        t2 == FeAdd(t1, CoefA)
        isr == InvSqrt(FeMulSmall(FeMul(t1, t2), -2))
        r   == FeMul(FeCCopy(t1, t2, tweak.sign), isr.root)
        least == FeCCopy(r, FeNeg(r), FeIsOdd(FeMulSmall(r, 2)))
    IN  IF isr.square THEN {FeToBytes(least) + tweak.pad * 2 ^ (FieldBits - 1)} ELSE {}
=============================================================================

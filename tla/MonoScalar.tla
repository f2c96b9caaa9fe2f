----------------------------- MODULE MonoScalar -----------------------------
(***************************************************************************)
(* The arithmetic modulo the order of the base point in Monocypher         *)
(* (monocypher.c, multiply .. mul_add, add_xl, redc), word for word: every *)
(* sum is kept in the two-word carry of the code.  A number is Words words *)
(* of WordBase values instead of 8 words of 32 bits.                       *)
(***************************************************************************)
EXTENDS Integers

CONSTANTS
    L,         \* the order: 2^252 + 27742317777372353535851937790883648493
    Words,     \* words of a number: 8
    WordBase   \* values of a word: 2^32

Radix == WordBase ^ Words

\* As in the code, L is 5 modulo 8 and 8 * L fits in a number.
ASSUME ScalarAssumption ==
    /\ Words \in Nat \ {0} /\ WordBase \in Nat /\ WordBase > 1
    /\ L \in Nat /\ L % 8 = 5 /\ 8 * L < Radix

\* Op(x), with x evaluated first
Strictly(Op(_), x) == CHOOSE y \in {Op(z) : z \in {x}} : TRUE

\* FOR (i, 0, n): Step(.., i) is done to what the iterations before it left.
Loop(Step(_, _), init, n) ==
    LET from(x) ==
            LET s[i \in 0 .. n] ==
                    IF i = 0 THEN x
                    ELSE Strictly(LAMBDA before : Step(before, i - 1), s[i - 1])
            IN  s[n]
    IN  Strictly(from, init)

Zeroes(count) == [i \in 0 .. count - 1 |-> 0]
Complement(word) == WordBase - 1 - word

\* Words from .. from + Words - 1 of x
Slice(x, from) == [i \in 0 .. Words - 1 |-> x[from + i]]

\* load32_le_buf, store32_le_buf
Load(n, count) ==
    LET next(s, i) == [rest |-> s.rest \div WordBase,
                       x |-> [s.x EXCEPT ![i] = s.rest % WordBase]]
    IN  Loop(next, [rest |-> n, x |-> Zeroes(count)], count).x

Store(x, count) == Loop(LAMBDA n, i : n * WordBase + x[count - 1 - i], 0, count)

LWords == Load(L, Words)

\* carry += p[k] + x; p[k] = (u32)carry; carry >>= 32
AddDigit(s, k, x) ==
    LET carry == (s.carry + s.p[k] + x) % (WordBase * WordBase)
    IN  [p |-> [s.p EXCEPT ![k] = carry % WordBase], carry |-> carry \div WordBase]

\* digit * b, of count words, is added to p from word i on
Row(p, i, digit, b, count) ==
    Loop(LAMBDA s, j : AddDigit(s, i + j, digit * b[j]), [p |-> p, carry |-> 0], count)

WithCarry(s, k) == [s.p EXCEPT ![k] = s.carry]

\* multiply: p + a * b, for a of m words and b of n
Multiply(p, a, m, b, n) ==
    Loop(LAMBDA x, i : WithCarry(Row(x, i, a[i], b, n), i + n), p, m)

\* The low words of a * b
MultiplyLow(a, b) ==
    Loop(LAMBDA x, i : Row(x, i, a[i], b, Words - i).p, Zeroes(Words), Words)

\* x + y + carry, word by word
WordSum(x, y, first, count) ==
    Loop(LAMBDA s, i : AddDigit(s, i, y[i]), [p |-> x, carry |-> first], count)

\* is_above_l
IsAboveL(x) == WordSum(x, [i \in 0 .. Words - 1 |-> Complement(LWords[i])], 1, Words).carry

\* Mutant: a number equal to L is not reduced.
RemoveLAbove(x) == IF Store(x, Words) > L THEN Load(Store(x, Words) - L, Words) ELSE x

\* remove_l
RemoveL(x) ==
    LET above == IsAboveL(x)
        mask  == [i \in 0 .. Words - 1 |-> IF above = 1 THEN Complement(LWords[i]) ELSE 0]
    IN  WordSum(x, mask, above, Words).p

\* floor(2^512 / L), in 9 words
BarrettR == Load((Radix * Radix) \div L, Words + 1)

\* mod_l (Barrett reduction)
ModL(x) ==
    LET xr == Multiply(Zeroes(3 * Words + 1), BarrettR, Words + 1, x, 2 * Words)
        minus(multiple) ==
            WordSum(Slice(x, 0), [i \in 0 .. Words - 1 |-> Complement(multiple[i])], 1, Words).p
    IN  Store(Strictly(RemoveL,
                       Strictly(minus, MultiplyLow(Slice(xr, 2 * Words), LWords))),
              Words)

\* mul_add
MulAdd(a, b, c) ==
    Strictly(ModL, Multiply(Load(c, 2 * Words), Load(a, Words), Words, Load(b, Words), Words))

\* add_xl
AddXL(s, x) == (s + L * (x % 8)) % Radix

\* -1 / L modulo 2^256
RedcK == Load(CHOOSE k \in 0 .. Radix - 1 : (k * L + 1) % Radix = 0, Words)

\* redc (Montgomery reduction)
Redc(x) ==
    LET s == MultiplyLow(x, RedcK)
        t == Multiply(Zeroes(2 * Words), s, Words, LWords, Words)
    IN  Strictly(RemoveL, Slice(WordSum(t, x, 0, 2 * Words).p, Words))

\* A product in Montgomery form
RedcProduct(a, b) == Strictly(Redc, Multiply(Zeroes(2 * Words), a, Words, b, Words))

\* scalar_bit, 0 below the lowest bit
ScalarBit(s, i) == IF i < 0 THEN 0 ELSE (s \div 2 ^ i) % 2

\* The highest bit of L: 252
TopBit == CHOOSE i \in 0 .. 31 : 2 ^ i <= L /\ L < 2 ^ (i + 1)

\* mScl ^ (L - 2), all in Montgomery form: the loop of crypto_x25519_inverse
MontgomeryPower(mScl) ==
    LET multiplied(m, i) == IF ScalarBit(L - 2, i) = 1 THEN RedcProduct(m, mScl) ELSE m
        step(m, k) == Strictly(LAMBDA sq : multiplied(sq, TopBit - k), RedcProduct(m, m))
    IN  Loop(step, Load(Radix % L, Words), TopBit + 1)

\* Its scalar division: into Montgomery form, the loop, and out of it
ScalarInverse(scalar) ==
    LET shifted == [i \in 0 .. 2 * Words - 1 |->
                      IF i < Words THEN 0 ELSE Load(scalar, Words)[i - Words]]
        mInv == Strictly(MontgomeryPower, Load(ModL(shifted), Words))
    IN  Store(Redc([i \in 0 .. 2 * Words - 1 |-> IF i < Words THEN mInv[i] ELSE 0]), Words)
=============================================================================

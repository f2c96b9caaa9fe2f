------------------------------ MODULE MonoKeys ------------------------------
(***************************************************************************)
(* The functions of Monocypher that work on keys and scalars (monocypher.c, *)
(* crypto_x25519 ... crypto_x25519_inverse), called one after the other by *)
(* a program that feeds the answer of one to another: a point is blinded   *)
(* and unblinded, a key is hidden and found again, two people exchange the *)
(* keys they made in whatever way.                                         *)
(*                                                                         *)
(* An answer is a set of encodings: empty when the function refuses.       *)
(***************************************************************************)
EXTENDS MonoCurve

CONSTANTS
    Secrets,      \* secret keys, any numbers of ScalarBits
    Points,       \* encoded u coordinates, with a bit above to ignore
    EdPoints,     \* encoded Edwards points, their sign above
    Scalars,      \* scalars below L
    Numbers,      \* numbers to reduce, below Radix^2
    Hiddens,      \* representatives with their padding
    Tweaks,       \* numbers of which some bits are a tweak
    Seeds,        \* seeds of hidden key pairs
    Expand(_)     \* crypto_chacha20 of a seed: a secret and the next seed

VARIABLES
    call,     \* the last call: its name and what it worked on
    answer    \* what it wrote

keysVars == <<call, answer>>

NoCall == [name |-> "none"]

Answered(name, of, result) ==
    /\ call' = [name |-> name, of |-> of]
    /\ answer' = result

Fresh == call = NoCall
Following(name) == call # NoCall /\ call.name = name /\ answer # {}
Got == CHOOSE n \in answer : TRUE

KeysInit == call = NoCall /\ answer = {}

----------------------------------------------------------------------------
(* The calls                                                               *)

\* crypto_x25519
X25519Call ==
    /\ Fresh
    /\ \E s \in Secrets, u \in Points : Answered("x25519", <<s, u>>, {X25519(s, u)})

\* crypto_x25519_inverse, on what crypto_x25519 made with the same key
InverseCall ==
    /\ Following("x25519")
    /\ Answered("x25519_inverse", call.of, {X25519Inverse(call.of[1], Got)})

\* crypto_x25519_public_key, crypto_x25519_dirty_small, _dirty_fast and the
\* key of an EdDSA pair: the four ways to make a public key
PublicKey(way, s) ==
    CASE way = 1 -> X25519PublicKey(s)
      [] way = 2 -> DirtySmall(s)
      [] way = 3 -> DirtyFast(s)
      [] way = 4 -> FromEddsaPublic(GeToBytes(ScalarMultBase(TrimScalar(s))))

PublicKeyCall ==
    /\ Fresh
    /\ \E s \in Secrets, way \in 1 .. 4 :
          Answered("public_key", <<s, way>>, {PublicKey(way, s)})

\* crypto_key_exchange with the key of somebody else, that he made himself or
\* that came hidden.  crypto_hchacha20 keeps apart what it is given, and is
\* left out.
KeyExchangeCall ==
    /\ Following("public_key") \/ Following("hidden_key_pair")
    /\ LET theirs == IF Following("public_key") THEN Got ELSE HiddenToCurve(Got)
       IN  \E s \in Secrets :
              Answered("key_exchange", <<s, call.of[1]>>, {X25519(s, theirs)})

\* The sign and the padding of a tweak: bit 0 and bits 6 and 7
Tweak(n) == [sign |-> n % 2 = 1, pad |-> (n \div 64) % 4]

\* crypto_curve_to_hidden, of a key one has made or been given
HideCall ==
    \E u \in (IF Following("public_key") THEN answer ELSE Points), tweak \in Tweaks :
        /\ Fresh \/ Following("public_key")
        /\ Answered("curve_to_hidden", <<u, tweak>>, CurveToHidden(u, Tweak(tweak)))

\* crypto_hidden_to_curve, of what was hidden or of anything
RevealCall ==
    \/ /\ Following("curve_to_hidden")
       /\ Answered("revealed", call.of, {HiddenToCurve(Got)})
    \/ /\ Fresh
       /\ \E h \in Hiddens : Answered("hidden_to_curve", <<h>>, {HiddenToCurve(h)})

\* crypto_hidden_key_pair: the call, and one pass of its loop
HiddenKeyPairCall ==
    /\ Fresh
    /\ \E seed \in Seeds : Answered("hidden_seed", <<seed, 0>>, {seed})

HiddenKeyPairLoop ==
    /\ Following("hidden_seed")
    /\ LET pair == Expand(Got)
           hidden == CurveToHidden(DirtyFast(pair.secret), Tweak(pair.seed))
       IN  IF hidden = {}
           THEN Answered("hidden_seed", <<call.of[1], call.of[2] + 1>>, {pair.seed})
           ELSE Answered("hidden_key_pair", <<pair.secret, pair.seed>>, hidden)

\* ge_double_scalarmult_vartime, of a decoded point
DoubleMultCall ==
    /\ Fresh
    /\ \E e \in EdPoints, n \in Scalars, b \in Scalars :
          Answered("double_mult", <<e, n, b>>,
                   {GeToBytes(DoubleScalarMult(p, n, b)) : p \in GeFromBytes(e)})

\* ge_scalarmult_base, of any number
BaseMultCall ==
    /\ Fresh
    /\ \E s \in Secrets : Answered("base_mult", <<s>>, {GeToBytes(ScalarMultBase(s))})

\* reduce, mul_add
ReduceCall ==
    /\ Fresh
    /\ \E x \in Numbers : Answered("reduce", <<x>>, {ModL(Load(x, 2 * Words))})

MulAddCall ==
    /\ Fresh
    /\ \E a, b \in Secrets, c \in Scalars : Answered("mul_add", <<a, b, c>>, {MulAdd(a, b, c)})

\* The program is done with the answer.
Done ==
    /\ ~Fresh
    /\ call' = NoCall
    /\ answer' = {}

KeysNext ==
    \/ X25519Call \/ InverseCall \/ PublicKeyCall \/ KeyExchangeCall
    \/ HideCall \/ RevealCall \/ HiddenKeyPairCall \/ HiddenKeyPairLoop
    \/ DoubleMultCall \/ BaseMultCall \/ ReduceCall \/ MulAddCall
    \/ Done

----------------------------------------------------------------------------
(* The same by definition: affine points of B v^2 = u^3 + A u^2 + u, the    *)
(* curve for B = 1 and its twist for B = 2.                                *)

Infinity == <<>>

Field(n) == n % P
Div(x, y) == (Field(x) * Inv(y)) % P
RightSide(u) == ((u * ((u * u + A * u + 1) % P)) % P)
IsSquare(x) == Field(x) # 0 /\ Power(Field(x), (P - 1) \div 2) = 1

\* The coordinate an encoding stands for
Coordinate(e) == (e % 2 ^ FieldBits) % P

\* The curve or twist u is on, and a point of it with this u
Twist(u) == IF RightSide(u) = 0 \/ IsSquare(RightSide(u)) THEN 1 ELSE 2
PointAt(u) ==
    <<u, CHOOSE v \in 0 .. P - 1 : (Twist(u) * ((v * v) % P)) % P = RightSide(u)>>

MontgomerySum(B, p, q) ==
    IF p = Infinity THEN q
    ELSE IF q = Infinity THEN p
    ELSE IF p[1] = q[1] /\ Field(p[2] + q[2]) = 0 THEN Infinity
    ELSE LET slope == IF p = q
                      THEN Div(3 * ((p[1] * p[1]) % P) + 2 * A * p[1] + 1, 2 * B * p[2])
                      ELSE Div(q[2] - p[2], q[1] - p[1])
             u == Field(B * ((slope * slope) % P) - A - p[1] - q[1])
         IN  <<u, Field(slope * Field(p[1] - u) - p[2])>>

MontgomeryTimes(B, n, p) ==
    LET m[k \in 0 .. n] ==
            IF k = 0 THEN Infinity
            ELSE LET half   == m[k \div 2]
                     double == MontgomerySum(B, half, half)
                 IN  IF k % 2 = 1 THEN MontgomerySum(B, double, p) ELSE double
    IN  m[n]

UOf(p) == IF p = Infinity THEN 0 ELSE p[1]

\* The u coordinate of n times a point with coordinate u
LadderOf(n, u) == UOf(MontgomeryTimes(Twist(u), n, PointAt(u)))

\* The representative r stands for the point with this u, and v negative or not.
Elligator(r) ==
    LET w == Div(-A, 1 + 2 * ((r * r) % P))
        square == IsSquare(RightSide(w))
    IN  [u |-> IF square THEN w ELSE Field(-w - A), negative |-> square]

----------------------------------------------------------------------------
(* Properties                                                              *)

Named(name) == call # NoCall /\ call.name = name

\* X25519 multiplies a point by the trimmed secret, for every encoding: points
\* of the curve and of its twist, of low order, of a coordinate not reduced.
LadderRight ==
    Named("x25519") => Got = LadderOf(TrimScalar(call.of[1]), Coordinate(call.of[2]))

\* Unblinding undoes blinding: crypto_x25519_inverse gives the point back
\* that crypto_x25519 blinded, without its part of low order, whatever the
\* bits of the secret (monocypher.c:2948, the ladder spans 256 bits).
BlindingUndone ==
    Named("x25519_inverse") =>
        LET u == Coordinate(call.of[2])
            one == CHOOSE n \in 0 .. 8 * L : n % 8 = 0 /\ n % L = 1
        IN  Twist(u) = 1 => Got = LadderOf(one, u)

\* The sliding windows and the signed combs compute the multiples they stand
\* for: [n]P + [b]B for every scalar below L, up to its highest bit, and [s]B
\* for any number at all; and a point decodes to itself.
MultiplesRight ==
    /\ Named("double_mult") =>
         answer = {Encoded(EdSum(BaseTimes(call.of[3]), EdTimes(call.of[2], p))) :
                       p \in Decoded(call.of[1])}
    /\ Named("base_mult") => Got = Encoded(BaseTimes(call.of[1]))

\* Public keys made in different ways from one secret are one key, but for the
\* low order part that the dirty ones carry (its three low bits); it is the
\* same for the small and the fast way; and whoever exchanges keys agrees on
\* the secret, because the trimmed scalars clear that part.
KeysAgree ==
    /\ Named("public_key") =>
         LET s == call.of[1]
             low == IF call.of[2] \in {2, 3} THEN s % 8 ELSE 0
         IN  Got = MontgomeryU(EdSum(BaseTimes(TrimScalar(s)), EdTimes(low, Lop)))
    /\ Named("key_exchange") => Got = X25519(call.of[2], X25519PublicKey(call.of[1]))

\* A hidden key is found again: the representative stands for the key, with
\* the sign and the padding of the tweak, and is in the lower half of the
\* field.  The sign is read as "0 if positive, 1 if negative"
\* (monocypher.c:2750), and v is that of the direct map (line 2658).  A key is
\* refused exactly when -2 u (u + A) is no non-zero square;
\* every number is the representative of a point of the curve; and the hidden
\* key pair is one.  (What is not a key, a coordinate u of the twist, is not
\* refused, and -u - A is found.)
HiddenIsRepresentative ==
    LET r(h) == h % 2 ^ (FieldBits - 1)
    IN  /\ Named("curve_to_hidden") =>
             LET u == Coordinate(call.of[1])
                 tweak == Tweak(call.of[2])
             IN  /\ answer = {} <=> ~IsSquare(-2 * ((u * (u + A)) % P))
                 /\ \A h \in answer :
                       /\ Twist(u) = 1 => Elligator(r(h)) = [u |-> u, negative |-> tweak.sign]
                       /\ r(h) <= (P - 1) \div 2
                       /\ h \div 2 ^ (FieldBits - 1) = tweak.pad
        /\ Named("revealed") =>
             LET u == Coordinate(call.of[1])
             IN  Got = IF Twist(u) = 1 THEN u ELSE Field(-u - A)
        /\ Named("hidden_to_curve") =>
             /\ Got = Elligator(Field(r(call.of[1]))).u
             /\ Twist(Got) = 1
        /\ Named("hidden_key_pair") => Elligator(r(Got)).u = DirtySmall(call.of[1])

\* monocypher.c:2777-2778 of crypto_curve_to_hidden, "if v is positive:
\* r = isr * (u+A)", "if v is negative: r = isr * u", where isr^2 is
\* -1 / (2 u (u+A)) and the sign of v is that of the tweak, "0 if positive, 1
\* if negative" (line 2750).
HiddenByTheComment ==
    Named("curve_to_hidden") =>
        LET u == Coordinate(call.of[1])
            positive == ~Tweak(call.of[2]).sign
            square(h) == (h * h) % P
            r(h) == h % 2 ^ (FieldBits - 1)
        IN  Twist(u) = 1 => \A h \in answer :
               IF positive THEN Field(2 * square(r(h)) * u) = Field(-u - A)
               ELSE Field(2 * square(r(h)) * Field(u + A)) = Field(-u)

\* The Barrett and Montgomery reductions agree with the remainder for numbers
\* at their boundaries: multiples of L and their neighbours, and the largest.
ReducedModL ==
    /\ Named("reduce") => Got = call.of[1] % L
    /\ Named("mul_add") => Got = (call.of[1] * call.of[2] + call.of[3]) % L
    /\ Named("x25519_inverse") =>
         (ScalarInverse(TrimScalar(call.of[1])) * (TrimScalar(call.of[1]) % L)) % L = 1
=============================================================================

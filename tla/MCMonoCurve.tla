---------------------------- MODULE MCMonoCurve ----------------------------
(***************************************************************************)
(* Instances of the curve of Monocypher: the prime 2213, the curve of      *)
(* order 8 * 269 with A = 94.  As in the code 8 * L is just above the      *)
(* highest power of 2 a trimmed scalar is below.                           *)
(***************************************************************************)
EXTENDS MonoKeys, MonoEddsa, SequencesExt

VARIABLE component

curveVars == <<keysVars, eddsaVars>>

\* Clamped bits of every kind, bits around the words, the largest secrets; the
\* inverses of 80 and 139, cleared of the cofactor, have the highest bit set.
MCSecrets == {0, 1, 2, 3, 4, 5, 6, 7, 15, 16, 80, 139, 255, 256, 268, 269, 1023, 1099, 1723, 2047, 2048, 2998, 4095}

\* Coordinates 0, 1, -1 (low orders), the base point, points of the curve and
\* of its twist, and the encodings from P on, which are not reduced.
MCPoints == {0, 1, 2, 3, 5, 22, 34, 777, 1030, 1500, 2212, 2213, 2214, 2235, 3000, 4095, 4096 + 22}

\* The base point, its opposite, points with a low order part, (0, 1) and
\* (0, -1), one with y = 0, no points, and a y that is not reduced.
MCEdPoints ==
    {Encoded(p) : p \in {BasePoint, EdMinus(BasePoint), EdSum(BasePoint, Lop), EdSum(BaseTimes(77), EdTimes(2, Lop)), Lop}}
        \cup {1, 4097, 2212, 0, 4096, 7, 8, 2213 + 5, 4096 + 2213 + 14}

MCScalars == {0, 1, 2, 7, 12, 31, 85, 127, 171, 223, 240, 255, 256, 257, 263, 264, 267, 268}

MCNumbers == {q * L + d : q \in {0, 1, 2, 7, 15, 16, 255, 4095, 4096, 30461, 62366, 62367}, d \in {0, 1, 134, 268}}
                 \cup {Radix - 1, Radix, Radix * Radix - 1, Radix * (Radix - 1)}

MCHiddens == 0 .. 300 \cup 1100 .. 1112 \cup {2047, 2048, 2049 + 40, 6000, 8191}
MCTweaks == {0, 1, 64 + 2, 192 + 33}
MCSeeds == {1, 2, 3, 4, 5}
MCExpand(seed) == [secret |-> (seed * 1237 + 811) % 4096, seed |-> (seed * 2749 + 1333) % 4096]


\* Signatures: a hash of 2 * Words words; s + L and s + 8 * L, an s and an R of
\* another signature, the opposite R, and R with a y that is not reduced.
MCSecretKeys == {3, 9}
MCPieces == {<<1>>, <<0, 1>>}
MCForgeries(sig) ==
    {[R |-> sig.R, s |-> sig.s + L], [R |-> sig.R, s |-> sig.s + 8 * L],
     [R |-> sig.R, s |-> (sig.s + 1) % L],
     [R |-> (sig.R + 4096) % 8192, s |-> sig.s],
     [R |-> sig.R + P, s |-> sig.s]}
MCOtherKeys == {Encoded(BasePoint), Encoded(Lop), 7}
MCHashOf(fed) ==
    FoldLeft(LAMBDA h, x : ((h * 61) + (x * 7919) + 40503 + (h \div 32)) % (Radix * Radix), 77, fed)

KeysStep ==
    /\ component = "keys"
    /\ KeysNext
    /\ UNCHANGED <<component, eddsaVars>>

EddsaStep ==
    /\ component = "eddsa"
    /\ EddsaNext
    /\ UNCHANGED <<component, keysVars>>

CurveInit == KeysInit /\ EddsaInit
CurveNext == KeysStep \/ EddsaStep

CurveSpec ==
    /\ component \in {"keys", "eddsa"} /\ CurveInit
    /\ [][CurveNext]_<<component, curveVars>>

\* No operation is given limbs larger than its carry or its multiplication can
\* take, whatever the sequence of operations before: every encoding is one.
LimbsFit ==
    /\ \A n \in answer : n >= 0
    /\ signer # None => signer.pk >= 0
    /\ issued # None => issued.R >= 0
=============================================================================

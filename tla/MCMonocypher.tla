---------------------------- MODULE MCMonocypher ----------------------------
(***************************************************************************)
(* Instances of all of Monocypher.  The hashes, the ciphers and the curve  *)
(* share nothing: a behaviour is one of MonoBlake2b, MonoArgon2,           *)
(* MonoPoly1305, MonoChacha, MonoAead, MonoKeys or MonoEddsa, chosen at    *)
(* the start, with the others at rest.                                     *)
(***************************************************************************)
EXTENDS MCMonoCurve, MonoBlake2b, MonoArgon2, MonoPoly1305, MonoAead

symmetricVars == <<blakeVars, argonVars, polyVars, chachaVars, aeadVars>>
allVars == <<component, curveVars, symmetricVars>>

\* Blake2b: blocks of 4 bytes, words of 6 values, so that the low word of the
\* offset wraps within the message.  Every byte of the stream is a bit of its
\* own, and the stale buffer one more.
MCBits    == 0 .. 20
MCMessage == [i \in 1 .. 11 |-> {i}]
MCKeys    == {<<>>, <<{15}>>, <<{15}, {16}, {17}, {18}>>}
MCStale   == {Zero, [i \in 0 .. Block - 1 |-> {20}]}

\* Argon2i: segments of 2 to 5 blocks, pool blocks of 3 words.
MCAsks      == 8 .. 21
MCHashSizes == 1 .. 15

\* Poly1305: words of 8 bits, bytes of 2; texts of more than two blocks.  The
\* keys have the largest r, and r = 1 and 2, with which the accumulator can
\* end between the prime and the next power of 2.
FourWords(a, b, d, e) == [i \in 0 .. 3 |-> <<a, b, d, e>>[i + 1]]
MCTexts   == {[i \in 1 .. 33 |-> 3], [i \in 1 .. 18 |-> (i * i * 3 + i) % 4], <<>>}
MCMacKeys == {[r |-> FourWords(255, 255, 255, 255), pad |-> FourWords(255, 255, 255, 255)],
              [r |-> FourWords(1, 0, 0, 0), pad |-> FourWords(0, 0, 0, 0)],
              [r |-> FourWords(2, 0, 0, 0), pad |-> FourWords(254, 255, 255, 255)],
              [r |-> FourWords(205, 118, 89, 172), pad |-> FourWords(17, 3, 200, 254)]}

\* Chacha20: blocks of 3 bytes, counter words of 4 values; 14 is the last
\* but one counter.
MCStarts     == {0, 3, 14}
MCNonceWords == {0, 3}

\* Authenticated encryption: texts and additional data of no byte to three.
MCMessages == {<<<<>>, <<>>>>, <<<<1>>, <<0, 1>>>>, <<<<1, 0>>, <<1>>>>,
               <<<<>>, <<1, 0, 1>>>>, <<<<0, 0, 1>>, <<0>>>>}
MCKeyByte(k, p) == (k + 2 * p[1][1] + p[2] + ((p[1][1] + k) \div 2)) % 2

BlakeStep ==
    /\ component = "blake2b"
    /\ BlakeNext
    /\ UNCHANGED <<component, curveVars, argonVars, polyVars, chachaVars, aeadVars>>

ArgonStep ==
    /\ component = "argon2"
    /\ ArgonNext
    /\ UNCHANGED <<component, curveVars, blakeVars, polyVars, chachaVars, aeadVars>>

PolyStep ==
    /\ component = "poly1305"
    /\ PolyNext
    /\ UNCHANGED <<component, curveVars, blakeVars, argonVars, chachaVars, aeadVars>>

ChachaStep ==
    /\ component = "chacha20"
    /\ ChachaNext
    /\ UNCHANGED <<component, curveVars, blakeVars, argonVars, polyVars, aeadVars>>

AeadStep ==
    /\ component = "aead"
    /\ AeadNext
    /\ UNCHANGED <<component, curveVars, blakeVars, argonVars, polyVars, chachaVars>>

CurveStep == CurveNext /\ UNCHANGED symmetricVars

Init ==
    /\ component \in {"blake2b", "argon2", "poly1305", "chacha20", "aead", "keys", "eddsa"}
    /\ BlakeInit /\ ArgonInit /\ PolyInit /\ ChachaInit /\ AeadInit /\ CurveInit
    /\ component # "blake2b" => input = Zero
    /\ component # "argon2" => nb = 8
    /\ component # "chacha20" => start = 0 /\ ~ietf

Next == BlakeStep \/ ArgonStep \/ PolyStep \/ ChachaStep \/ AeadStep \/ CurveStep

\* A call, once made, runs its loops to the end; nobody has to call.
CallStep ==
    \/ BlakeStep /\ ~idle
    \/ ArgonStep
    \/ PolyStep /\ ~between
    \/ ChachaStep /\ running

Spec == Init /\ [][Next]_allVars /\ WF_symmetricVars(CallStep)

\* Every call comes back: those that take a piece of input, and the Argon2i
\* computation with every block filled as often as asked.
CallsReturn ==
    /\ UpdateReturns
    /\ [](~between => <>between)
    /\ [](running => <>~running)
    /\ component = "argon2" => ArgonFinishes
=============================================================================

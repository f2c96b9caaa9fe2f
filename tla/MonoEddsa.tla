------------------------------ MODULE MonoEddsa ------------------------------
(***************************************************************************)
(* EdDSA in Monocypher (monocypher.c, crypto_sign_... and crypto_check_...):*)
(* a signature is made in two passes over the message, which the program   *)
(* feeds in pieces, and checked in one.  Between two calls all there is is *)
(* the context, whose three buffers change their meaning on the way.       *)
(***************************************************************************)
EXTENDS MonoCurve, Sequences

CONSTANTS
    SecretKeys,    \* 32 byte secrets of signers
    Pieces,        \* pieces of messages: sequences of bytes
    MessageMax,    \* bound: bytes of a message
    Forgeries(_),  \* signatures that are tried beside an issued one
    OtherKeys,     \* public keys that are tried beside the right one
    HashOf(_)      \* 64 byte hash of what was fed, below Radix^2

VARIABLES
    signer,     \* the context of the one who signs, and his secret key
    issued,     \* the signature that was made, and for what
    checker     \* the context of the one who checks

eddsaVars == <<signer, issued, checker>>

None == [pass |-> "none"]

\* The two halves of a hash: the scalar and the prefix
LowHalf(h) == h % Radix
HighHalf(h) == h \div Radix

\* reduce
Reduce(h) == Strictly(ModL, Load(h, 2 * Words))

\* crypto_sign_public_key
SignPublicKey(secret) ==
    GeToBytes(ScalarMultBase(TrimScalar(LowHalf(HashOf(<<secret>>)))))

\* crypto_from_eddsa_private
FromEddsaPrivate(secret) == LowHalf(HashOf(<<secret>>))

EddsaInit == signer = None /\ issued = None /\ checker = None

----------------------------------------------------------------------------
(* Signing                                                                 *)

\* crypto_sign_init_first_pass.  The public key is the signer's own, whether it
\* is given or computed.
SignInitFirstPass ==
    /\ signer = None /\ issued = None
    /\ \E secret \in SecretKeys :
          LET hash == HashOf(<<secret>>)
          IN  signer' = [pass |-> "first",
                         secret |-> secret,
                         a |-> TrimScalar(LowHalf(hash)),
                         pk |-> SignPublicKey(secret),
                         fed |-> <<HighHalf(hash)>>,
                         messages |-> <<<<>>>>]
    /\ UNCHANGED <<issued, checker>>

Pass(s) == Len(s.messages)

\* crypto_sign_update
SignUpdate ==
    /\ signer # None
    /\ \E piece \in Pieces :
          /\ Len(signer.messages[Pass(signer)]) + Len(piece) <= MessageMax
          /\ signer' = [signer EXCEPT !.fed = @ \o piece,
                                      !.messages[Pass(signer)] = @ \o piece]
    /\ UNCHANGED <<issued, checker>>

\* crypto_sign_init_second_pass: the hash becomes the nonce r, and the
\* buffer after it the first half of the signature
SecondPass(s) ==
    LET after(r, half) ==
            [pass |-> "second", secret |-> s.secret, a |-> s.a, pk |-> s.pk,
             r |-> r, half |-> half, fed |-> <<half, s.pk>>,
             messages |-> Append(s.messages, <<>>)]
    IN  Strictly(LAMBDA r : after(r, GeToBytes(ScalarMultBase(r))), Reduce(HashOf(s.fed)))

SignInitSecondPass ==
    /\ signer.pass = "first"
    /\ signer' = SecondPass(signer)
    /\ UNCHANGED <<issued, checker>>

\* crypto_sign_final
SignFinal ==
    /\ signer.pass = "second"
    /\ issued' = [pass |-> "issued", pk |-> signer.pk, secret |-> signer.secret,
                  messages |-> signer.messages,
                  R |-> signer.half,
                  s |-> MulAdd(Reduce(HashOf(signer.fed)), signer.a, signer.r)]
    /\ signer' = None
    /\ UNCHANGED checker

----------------------------------------------------------------------------
(* Checking                                                                *)

\* crypto_check_init
CheckInit ==
    /\ issued # None /\ checker = None
    /\ \E sig \in {[R |-> issued.R, s |-> issued.s]} \cup Forgeries(issued),
          pk \in {issued.pk} \cup OtherKeys :
          checker' = [pass |-> "check", R |-> sig.R, s |-> sig.s, pk |-> pk,
                      fed |-> <<sig.R, pk>>]
    /\ UNCHANGED <<signer, issued>>

\* crypto_check_update
CheckUpdate ==
    /\ checker.pass = "check"
    /\ \E piece \in Pieces :
          /\ Len(checker.fed) - 2 + Len(piece) <= MessageMax
          /\ checker' = [checker EXCEPT !.fed = @ \o piece]
    /\ UNCHANGED <<signer, issued>>

\* Mutant: s is not compared with L.
GeRCheckAny(s, h, pk) ==
    {GeToBytes(DoubleScalarMult([p EXCEPT !.X = FeNeg(@), !.T = FeNeg(@)], h, ModL(Load(s, 2 * Words)))) :
         p \in GeFromBytes(pk)}

\* ge_r_check: [s]B - [h]pk, if pk is a point and s is below L
GeRCheck(s, h, pk) ==
    IF IsAboveL(Load(s, Words)) = 1 THEN {}
    ELSE {GeToBytes(DoubleScalarMult([p EXCEPT !.X = FeNeg(@), !.T = FeNeg(@)], h, s)) :
              p \in GeFromBytes(pk)}

\* crypto_check_final
CheckFinal ==
    /\ checker.pass = "check"
    /\ LET found == GeRCheck(checker.s, Reduce(HashOf(checker.fed)), checker.pk)
       IN  checker' = [checker EXCEPT !.pass = IF found = {checker.R} THEN "accepted" ELSE "refused"]
    /\ UNCHANGED <<signer, issued>>

\* The checker is done with the signature and can look at another.
CheckDone ==
    /\ checker.pass \in {"accepted", "refused"}
    /\ checker' = None
    /\ UNCHANGED <<signer, issued>>

EddsaNext ==
    \/ SignInitFirstPass \/ SignUpdate \/ SignInitSecondPass \/ SignFinal
    \/ CheckInit \/ CheckUpdate \/ CheckFinal \/ CheckDone
----------------------------------------------------------------------------
(* Properties                                                              *)

\* What a signature check must find: s below L, and a public key A that is a
\* point with R = [s]B - [h]A, in the encoding that ge_tobytes gives.
Verifies(sig, h) ==
    /\ sig.s < L
    /\ \E p \in Decoded(sig.pk) :
          sig.R = Encoded(EdSum(BaseTimes(sig.s), EdMinus(EdTimes(h, p))))

Judged == checker.pass \in {"accepted", "refused"}

\* A check accepts exactly what verifies, whatever was done to the signature:
\* s + L, which would pass the equation, is refused, and so are a key or an R
\* that are not encoded points (monocypher.c:2115, prevent s malleability).
\* What was issued is accepted for the message of the second pass, however it
\* was cut in pieces, even if the first pass saw another; and the first half
\* of the signature is the nonce of the first pass times the base point.
SignaturesCheck ==
    /\ Judged => (checker.pass = "accepted" <=> Verifies(checker, HashOf(checker.fed) % L))
    /\ (/\ Judged
        /\ checker.fed = <<issued.R, issued.pk>> \o issued.messages[2]
        /\ checker.s = issued.s) => checker.pass = "accepted"
    /\ issued # None =>
         LET prefix == HighHalf(HashOf(<<issued.secret>>))
         IN  issued.R = Encoded(BaseTimes(HashOf(<<prefix>> \o issued.messages[1])))
=============================================================================

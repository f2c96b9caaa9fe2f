----------------------------- MODULE MCNanoLocal -----------------------------
(***************************************************************************)
(* What NanoSwift does without a node: an instance of NanoWallet and one   *)
(* of NanoEncoding.  They share nothing: a behaviour is one of the two.    *)
(***************************************************************************)
EXTENDS MCNanoWallet, NanoEncoding

VARIABLE component

\* Bytes of 6 bits and keys of 6 of them.  As with 8 bits and 32, the first
\* character of 5 bits has one bit of the key, 8 characters and no more fit a
\* byte more than the key, and a checksum is whole characters.
MCDigest(key) ==
    <<(key[1] + 3 * key[6]) % 64, (5 * key[2] + 1) % 64, (key[3] + key[1]) % 64,
      (key[4] + 7 * key[5]) % 64, (11 * key[5] + key[2] + 40) % 64>>

OneKey  == <<41, 0, 63, 7, 16, 33>>
ZeroKey == <<0, 0, 0, 0, 0, 0>>
KeyPair == {OneKey, ZeroKey}

MCSlips == {0, 1, 2, 30, Underscore, Other, Newline}

Address(prefix, key) == CHOOSE x \in PublicAddress(prefix, key) : TRUE

HashOf(d) == <<d, 7, 0, 1, 2, 0, 0, 6, 5, 3, 0, d>>

\* Balances around the groups of two digits and the bytes, up to the largest
\* that has two bytes.
MCInfos ==
    {[account |-> Address("nano", OneKey), representative |-> Address("xrb", ZeroKey),
      frontier |-> f, balance |-> b] :
        f \in {HashOf(3)}, b \in {9, 63, 64, 100, 999, 4000}}
      \cup {[account |-> Address("nano", OneKey), representative |-> Address("xrb", ZeroKey),
             frontier |-> <<0>>, balance |-> 0]}

MCAmounts    == {-7, 0, 1, 10, 95}
MCSources == {HashOf(0), HashOf(7), <<1, 2, 3>>, [HashOf(4) EXCEPT ![4] = Other]}

Local(name) == component = name

LocalInit ==
    /\ component \in {"wallet", "encoding"}
    /\ NewWallet /\ EncodingInit
    /\ Local("encoding") => accounts = {}

LocalNext ==
    \/ Local("wallet") /\ Next /\ UNCHANGED <<component, encodingVars>>
    \/ Local("encoding") /\ EncodingNext /\ UNCHANGED <<component, vars>>

LocalSpec == LocalInit /\ [][LocalNext]_<<component, vars, encodingVars>>
=============================================================================

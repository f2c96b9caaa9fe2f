---------------------------- MODULE MCNanoWallet ----------------------------
(***************************************************************************)
(* Small instances of NanoWallet for TLC.  MaxIndex stands for 2^32 - 1.   *)
(***************************************************************************)
EXTENDS NanoWallet

CONSTANTS own, other

SeedPair == {own, other}
=============================================================================

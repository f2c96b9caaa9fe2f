--------------------------- MODULE MCNanoTransfer ---------------------------
(***************************************************************************)
(* Small instances of NanoTransfer for TLC.                                *)
(***************************************************************************)
EXTENDS NanoTransfer, TLC

CONSTANTS alice, bob, dev1, dev2, l1, l2

(* Two devices of alice, or one.                                           *)
TwoDevices == dev1 :> alice @@ dev2 :> alice
OneDevice  == dev1 :> alice

OneAccount == alice :> 2
AliceOpen == alice :> 2 @@ bob :> -1

Moves     == {1, 2}
Ones      == {1}
Signed    == {-1, 0, 1, 2}

DeviceSymmetry == Permutations({dev1, dev2})
LaneSymmetry   == Permutations({l1, l2})
=============================================================================

---------------------------- MODULE MCNanoFlows ----------------------------
(***************************************************************************)
(* Small instances of NanoFlows for TLC.                                   *)
(***************************************************************************)
EXTENDS NanoFlows, TLC

CONSTANTS alice, bob, carol, dev1, dev2, dev3

(* Two devices of the sender, without and with the receiver; two senders   *)
(* and the receiver.                                                       *)
Double == dev1 :> alice @@ dev2 :> alice
Shared == dev1 :> alice @@ dev2 :> alice @@ dev3 :> bob
Crowd  == dev1 :> alice @@ dev2 :> carol @@ dev3 :> bob

Roles  == dev1 :> "send" @@ dev2 :> "send" @@ dev3 :> "receive"

Funds  == alice :> 2 @@ bob :> 0
Funds3 == Funds @@ carol :> 1
One    == {1}
Two    == {2}
=============================================================================

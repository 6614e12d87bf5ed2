---------------------------- MODULE MCPacketQueue ----------------------------
(***************************************************************************)
(* Instances of PacketQueue for TLC: the examples' one encoder thread that *)
(* feeds both media under kBlock, and one encoder thread for each media    *)
(* under every policy.                                                     *)
(***************************************************************************)
EXTENDS PacketQueue

CONSTANTS v, a   \* encoder threads

Threads == {v, a}

OneEncoder == [policy |-> "kBlock", feeds |-> [p \in Threads |-> IF p = v THEN Media ELSE {}]]

TwoEncoders(policy) ==
    [policy |-> policy, feeds |-> [p \in Threads |-> IF p = v THEN {"video"} ELSE {"audio"}]]

BlockingSetup == {OneEncoder}
AllSetups == {OneEncoder, TwoEncoders("kBlock"), TwoEncoders("kLatest"), TwoEncoders("kError")}
=============================================================================

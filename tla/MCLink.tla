------------------------------- MODULE MCLink -------------------------------
(***************************************************************************)
(* Instances of Link for TLC.                                              *)
(***************************************************************************)
EXTENDS Link

CONSTANTS u1, none  \* the receiver, NULL

Peer == {u1}

Data(n, a) == [frags |-> n, ack |-> a, card |-> TRUE, frame |-> "data"]

Mixed == {Data(1, TRUE), Data(1, FALSE), Data(2, TRUE)}
Single == {Data(1, TRUE)}

Reliable == {}
Offsets == 0..1

=============================================================================

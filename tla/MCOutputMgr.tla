---------------------------- MODULE MCOutputMgr -----------------------------
(***************************************************************************)
(* Instances of OutputMgr for TLC.                                         *)
(***************************************************************************)
EXTENDS OutputMgr

CONSTANTS u1, u2, bc, none  \* two peers, the broadcast address, NULL

Peers == {u1, u2}
OnePeer == {u1}
PeersAndBroadcast == {u1, u2, bc}
PeerAndBroadcast == {u1, bc}

Data(n, a, c) == [frags |-> n, ack |-> a, card |-> c, frame |-> "data"]

\* Datagrams of one pbuf: acknowledged, unacknowledged, of an unregistered
\* card, and an ACK frame the application hands to the stack.
Singles ==
  {Data(1, TRUE, TRUE), Data(1, FALSE, TRUE), Data(1, TRUE, FALSE),
   [Data(1, FALSE, TRUE) EXCEPT !.frame = "ack"]}
Fragmented == {Data(2, TRUE, TRUE)}
Mixed == {Data(1, TRUE, TRUE), Data(2, TRUE, TRUE), Data(3, FALSE, TRUE),
          Data(1, TRUE, FALSE), [Data(1, FALSE, TRUE) EXCEPT !.frame = "ack"]}

=============================================================================

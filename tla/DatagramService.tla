--------------------------- MODULE DatagramService ---------------------------
(***************************************************************************)
(* What a sender and a receiver that run the stack promise together: a     *)
(* datagram sent reaches the receiving application at most once, and those *)
(* for one address in the order they were sent.  Datagrams may be lost.    *)
(***************************************************************************)
EXTENDS Naturals, Sequences

CONSTANT Dest  \* the addresses datagrams are sent to

VARIABLES
  sent,      \* the number of datagrams sent; they are numbered from 0
  received   \* the datagrams received for each address, oldest first

dvars == <<sent, received>>

Submit == sent' = sent + 1 /\ UNCHANGED received

Deliver(d, n) ==
  /\ n < sent
  /\ \A i \in DOMAIN received[d] : received[d][i] < n
  /\ received' = [received EXCEPT ![d] = Append(@, n)]
  /\ UNCHANGED sent

Init == sent = 0 /\ received = [d \in Dest |-> <<>>]

Next == Submit \/ \E d \in Dest, n \in 0..sent : Deliver(d, n)

Spec == Init /\ [][Next]_dvars

=============================================================================

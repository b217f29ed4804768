------------------------------ MODULE ChainOps ------------------------------
(***************************************************************************)
(* The linked lists of the stack (message items, pbuf chains, reassembly   *)
(* entries) are sequences here, and every unlinking loop of the code keeps *)
(* some nodes, in their order, and drops the others.  Keep is that         *)
(* operation.  It is defined by ranks instead of with SelectSeq so that    *)
(* its properties can be proved (ChainOpsProofs).  Where the next pointers *)
(* themselves are modelled, ListFrom is the list they make up.             *)
(***************************************************************************)
EXTENDS Naturals, Sequences, FiniteSets

\* The i-th smallest element of a finite set K of positions.
Nth(K, i) == CHOOSE k \in K : Cardinality({j \in K : j <= k}) = i

\* The nodes of s at the positions K, in the order of s.
Keep(s, K) == [i \in 1..Cardinality(K) |-> s[Nth(K, i)]]

\* s without its node at position i.
Unlink_mut(s, i) == Tail(s)
Unlink(s, i) == Keep(s, DOMAIN s \ {i})

\* The nodes a loop over a linked list visits, from h on; nxt is the next
\* pointer of every node, nil the NULL pointer.  A list that never ends is
\* followed for one turn more than there are nodes.
ListFrom(h, nxt, nil) ==
  LET nth[i \in 0..Cardinality(DOMAIN nxt)] ==
        IF i = 0 THEN h
        ELSE IF nth[i - 1] = nil THEN nil ELSE nxt[nth[i - 1]]
      ends == {i \in DOMAIN nth : nth[i] = nil}
  IN  [i \in 1..(Cardinality(DOMAIN nth) - Cardinality(ends)) |-> nth[i - 1]]

=============================================================================

------------------------------ MODULE OutputMgr ------------------------------
(***************************************************************************)
(* The output manager, src/src/output_mgr.c: one send queue per            *)
(* destination, a cursor that walks the queues, one (re)transmission per   *)
(* timer tick, release of pbufs on acknowledgement, on retry exhaustion    *)
(* and on old age.                                                         *)
(*                                                                         *)
(* A message item (struct oput_msg) is named by its destination.           *)
(* oput_msg_list is the linked list of items; chain[d], packets[d] and     *)
(* old_age[d] are the fields p, packets and old_age of the item of d.      *)
(* A pbuf of the queue is a record: the datagram it belongs to, its place  *)
(* among the fragments, the send status bit of flag and send_retry.        *)
(*                                                                         *)
(* The two functions the timer callback calls one after the other are two  *)
(* steps, ordered by due: the radio callback and the application may run   *)
(* in between when the timer callback is not an interrupt.                 *)
(***************************************************************************)
EXTENDS Naturals, Sequences, FiniteSets, Functions, ChainOps

CONSTANTS
  Dest,         \* destination MAC addresses the application sends to
  Unicast,      \* the destinations that acknowledge: all but broadcast
  NoDest,       \* the NULL pointer to an item
  Kinds,        \* the datagrams the application sends, see KindsAssumption
  MaxItems,     \* OPUT_MSG_ITEM_MAX_NUM
  MaxPbufs,     \* OPUT_MSG_MAX_PBUFS
  MaxRetries,   \* OUT_MSG_RETRY_ATTEMPTS
  OldAge,       \* OPUT_MSG_OLD_AGE
  SeqMod,       \* g_seqnum wraps at this value, 2^16 in the code
  FreedIntact,  \* TRUE when freed memory keeps its bytes until reused
  MaxSends      \* bound of the model: calls of mac_output

ASSUME DestAssumption == Unicast \subseteq Dest /\ NoDest \notin Dest

ASSUME KindsAssumption ==
  Kinds \subseteq [frags : Nat \ {0}, ack : BOOLEAN, card : BOOLEAN,
                   frame : {"data", "ack"}]

ASSUME LimitsAssumption ==
  /\ MaxItems \in Nat /\ MaxPbufs \in Nat /\ MaxRetries \in Nat \ {0}
  /\ OldAge \in Nat /\ SeqMod \in Nat \ {0} /\ MaxSends \in Nat
  /\ FreedIntact \in BOOLEAN

VARIABLES
  oput_msg_list,  \* the items, head first
  g_curr_msg,     \* the item the next transmission is taken from
  chain,          \* the pbufs mounted on each item, head first
  packets,        \* the packet counter of each item, a uint8_t
  old_age,        \* ticks since the item was last sent to
  g_seqnum,       \* calls of mac_output; modulo SeqMod, the global counter
  live,           \* the pbufs that are allocated
  aired,          \* frames transmitted that the peer may acknowledge
  due             \* the step of the timer callback that comes next

vars == <<oput_msg_list, g_curr_msg, chain, packets, old_age, g_seqnum,
          live, aired, due>>

-----------------------------------------------------------------------------

Pbuf == [dg : Nat, frag : Nat \ {0}, frags : Nat \ {0}, ack : BOOLEAN,
         card : BOOLEAN, sent : BOOLEAN, retry : 0..MaxRetries]

\* The header fields an acknowledgement copies from the frame it answers.
Frame == [dest : Dest, seq : Nat, frag : Nat \ {0}, mf : BOOLEAN]

\* packets is a uint8_t.
ByteMod == 256

SeqNum(b) == b.dg % SeqMod
MoreFrag(b) == b.frag < b.frags
FrameOf(d, b) ==
  [dest |-> d, seq |-> SeqNum(b), frag |-> b.frag, mf |-> MoreFrag(b)]

Id(b) == <<b.dg, b.frag>>
Ids(s) == {Id(s[i]) : i \in DOMAIN s}

\* The counter of an item after k pbufs have been unlinked: it is decremented
\* once per pbuf, and incremented once per chain mounted.
Decr_mut_signed(n, k) == n - k
Decr_mut_missing(n, k) == n
Decr(n, k) == (n + ByteMod - k) % ByteMod

\* The chain of pbufs mac_output makes of a datagram of kind k: one pbuf, or
\* the fragments packet_frag cuts it into, all with the same sequence number.
NewChain(k) ==
  [i \in 1..k.frags |->
     [dg |-> g_seqnum, frag |-> i, frags |-> k.frags, ack |-> k.ack,
      card |-> k.card, sent |-> FALSE, retry |-> 0]]

\* The item g_curr_msg designates once the list has become l.
Retarget_mut(l) == g_curr_msg
Retarget(l) ==
  IF g_curr_msg \in Range(l) THEN g_curr_msg
  ELSE IF l = <<>> THEN NoDest ELSE Head(l)

\* The pbufs oput_msg_item_move frees when it removes the items of D: those
\* of an item whose packet counter is 0 are not freed.
FreedWith(D) == UNION {Ids(chain[d]) : d \in {e \in D : packets[e] # 0}}

-----------------------------------------------------------------------------
(***************************************************************************)
(* mac_output and oput_msg_add_packet_to_list.                             *)
(***************************************************************************)

\* The items the search for d walks past and finds used up.
Expired(e) == old_age[e] >= OldAge \/ packets[e] = 0
KeptBySearch(d) ==
  {i \in DOMAIN oput_msg_list :
     \/ \E j \in 1..i : oput_msg_list[j] = d
     \/ ~Expired(oput_msg_list[i])}
\* The search stops at the item of d, whatever its counter.
HasItem_mut(d) == d \in Range(oput_msg_list) /\ packets[d] # 0
HasItem(d) == d \in Range(oput_msg_list)

Searched(d) == Keep(oput_msg_list, KeptBySearch(d))
Evicted(d) == Range(oput_msg_list) \ Range(Searched(d))

\* Early returns of oput_msg_add_packet_to_list; the new pbufs are freed.
Refused(k) ==
  \/ k.frame = "ack"
  \/ Len(oput_msg_list) > MaxItems
  \/ k.frags > MaxPbufs

SendRefused(d, k) ==
  /\ Refused(k)
  /\ UNCHANGED <<oput_msg_list, g_curr_msg, chain, packets, old_age, live>>

\* The checks a chain of kind k must pass to be mounted on the item of d.
NoRoom_mut(d, k) == k.frags >= MaxPbufs
NoRoom(d, k) == k.frags + Len(chain[d]) >= MaxPbufs
SeqOverlap(d) ==
  \E i \in DOMAIN chain[d] : SeqNum(chain[d][i]) = g_seqnum % SeqMod

\* A chain that finds no room is freed.
Retained_mut(d, k) == Ids(NewChain(k))
Retained(d, k) == IF NoRoom(d, k) THEN {} ELSE Ids(NewChain(k))

\* The destination has an item: its age restarts even if the chain is then
\* refused.  A chain whose sequence number is already queued is neither
\* mounted nor freed (insert_oput_msg_insert_packet).
SendToItem(d, k) ==
  LET mounted == ~NoRoom(d, k) /\ ~SeqOverlap(d)
  IN  /\ ~Refused(k)
      /\ HasItem(d)
      /\ oput_msg_list' = Searched(d)
      /\ g_curr_msg' = Retarget(Searched(d))
      /\ chain' = [e \in Dest |->
                     IF e \in Evicted(d) THEN <<>>
                     ELSE IF e = d /\ mounted THEN chain[d] \o NewChain(k)
                     ELSE chain[e]]
      /\ packets' = [e \in Dest |->
                       IF e \in Evicted(d) THEN 0
                       ELSE IF e = d /\ mounted
                            THEN (packets[d] + 1) % ByteMod
                       ELSE packets[e]]
      /\ old_age' = [e \in Dest |-> IF e \in Evicted(d) \cup {d} THEN 0
                                    ELSE old_age[e]]
      /\ live' = (live \ FreedWith(Evicted(d))) \cup Retained(d, k)

\* The destination has no item: oput_msg_new appends one, or its malloc fails
\* and the chain is freed.
SendNewItem(d, k, mem) ==
  LET kept == Searched(d)
  IN  /\ ~Refused(k)
      /\ ~HasItem(d)
      /\ oput_msg_list' = IF mem THEN Append(kept, d) ELSE kept
      /\ g_curr_msg' = IF mem /\ kept = <<>> THEN d ELSE Retarget(kept)
      /\ chain' = [e \in Dest |-> IF mem /\ e = d THEN NewChain(k)
                                  ELSE IF e \in Evicted(d) THEN <<>>
                                  ELSE chain[e]]
      /\ packets' = [e \in Dest |-> IF mem /\ e = d THEN 1
                                    ELSE IF e \in Evicted(d) THEN 0
                                    ELSE packets[e]]
      /\ old_age' = [e \in Dest |-> IF e \in Evicted(d) \cup {d} THEN 0
                                    ELSE old_age[e]]
      /\ live' = (live \ FreedWith(Evicted(d)))
                   \cup (IF mem THEN Ids(NewChain(k)) ELSE {})

Send(d, k) ==
  /\ g_seqnum < MaxSends
  /\ g_seqnum' = g_seqnum + 1
  /\ \/ SendRefused(d, k)
     \/ SendToItem(d, k)
     \/ \E mem \in BOOLEAN : SendNewItem(d, k, mem)
  /\ UNCHANGED <<aired, due>>

-----------------------------------------------------------------------------
(***************************************************************************)
(* oput_msg_old_age_tmr, the first call of the timer callback.             *)
(***************************************************************************)

\* An item that stays gets one tick older.
Aged_mut(e) == old_age[e]
Aged(e) == old_age[e] + 1

Young == {i \in DOMAIN oput_msg_list : old_age[oput_msg_list[i]] < OldAge}

OldAgeTmr ==
  LET kept == Keep(oput_msg_list, Young)
      gone == Range(oput_msg_list) \ Range(kept)
  IN  /\ due = "age"
      /\ due' = "send"
      /\ oput_msg_list' = kept
      /\ g_curr_msg' = Retarget(kept)
      /\ chain' = [e \in Dest |-> IF e \in gone THEN <<>> ELSE chain[e]]
      /\ packets' = [e \in Dest |-> IF e \in gone THEN 0 ELSE packets[e]]
      /\ old_age' = [e \in Dest |-> IF e \in gone THEN 0
                                    ELSE IF e \in Range(kept) THEN Aged(e)
                                    ELSE old_age[e]]
      /\ live' = live \ FreedWith(gone)
      /\ UNCHANGED <<g_seqnum, aired>>

-----------------------------------------------------------------------------
(***************************************************************************)
(* oput_msg_tmr, the second call: the pbuf to send is looked for on the    *)
(* current item only; when there is none the cursor moves on.              *)
(***************************************************************************)

\* The item after the item of d, cyclically.
NextItem(d) ==
  LET i == CHOOSE j \in DOMAIN oput_msg_list : oput_msg_list[j] = d
  IN  IF i < Len(oput_msg_list) THEN oput_msg_list[i + 1]
      ELSE oput_msg_list[1]

\* oput_msg_send_pbuf_iterator stops at the first pbuf that is not
\* acknowledged or has no attempt left.
Sendable(d) == chain[d] # <<>> /\ packets[d] # 0 /\ old_age[d] < OldAge
Stops_mut(b) == (~b.sent /\ b.retry = 0) \/ b.retry >= MaxRetries
Stops(b) == ~b.sent \/ b.retry >= MaxRetries
IsFirstStop(d, i) ==
  /\ i \in DOMAIN chain[d]
  /\ Stops(chain[d][i])
  /\ \A j \in 1..(i - 1) : ~Stops(chain[d][j])

\* The attempts used once b has been handed to the radio: a pbuf whose card
\* is unknown, or that asks for no acknowledgement, is given no other.
Attempts_mut(b) == IF b.card /\ ~b.ack THEN b.retry ELSE b.retry + 1
Attempts(b) ==
  IF b.card /\ b.ack THEN b.retry + 1 ELSE MaxRetries

Transmit_mut(d, i) ==
  /\ chain[d][i].retry < MaxRetries
  /\ chain' = [chain EXCEPT ![d] = [@ EXCEPT ![i].retry = Attempts(chain[d][i])]]
  /\ aired' = IF chain[d][i].card /\ chain[d][i].ack /\ d \in Unicast
              THEN aired \cup {FrameOf(d, chain[d][i])} ELSE aired
  /\ g_curr_msg' = NextItem(d)
  /\ UNCHANGED <<packets, live>>
Transmit(d, i) ==
  LET b == chain[d][i]
  IN  /\ b.retry < MaxRetries
      /\ chain' = [chain EXCEPT ![d] = [@ EXCEPT ![i].retry = Attempts(b)]]
      /\ aired' = IF b.card /\ b.ack /\ d \in Unicast
                  THEN aired \cup {FrameOf(d, b)} ELSE aired
      /\ UNCHANGED <<g_curr_msg, packets, live>>

\* Retries exhausted: this pbuf alone is removed and freed.
GiveUp(d, i) ==
  LET b == chain[d][i]
  IN  /\ b.retry >= MaxRetries
      /\ chain' = [chain EXCEPT ![d] = Unlink(@, i)]
      /\ packets' = [packets EXCEPT ![d] = Decr(@, 1)]
      /\ live' = live \ {Id(b)}
      /\ g_curr_msg' = NextItem(d)
      /\ UNCHANGED aired

MoveOn(d) ==
  /\ g_curr_msg' = NextItem(d)
  /\ UNCHANGED <<chain, packets, live, aired>>

OutputTmr ==
  /\ due = "send"
  /\ due' = "age"
  /\ \/ /\ g_curr_msg \notin Range(oput_msg_list)
        /\ UNCHANGED <<g_curr_msg, chain, packets, live, aired>>
     \/ \E d \in Range(oput_msg_list) :
          /\ g_curr_msg = d
          /\ \/ /\ Sendable(d)
                /\ \E i \in DOMAIN chain[d] :
                     /\ IsFirstStop(d, i)
                     /\ Transmit(d, i) \/ GiveUp(d, i)
             \/ /\ ~Sendable(d) \/ \A i \in DOMAIN chain[d] : ~Stops(chain[d][i])
                /\ MoveOn(d)
  /\ UNCHANGED <<oput_msg_list, old_age, g_seqnum>>

-----------------------------------------------------------------------------
(***************************************************************************)
(* oput_msg_del_packet_from_list: an ACK frame for f has arrived.  The     *)
(* channel may lose, delay and repeat acknowledgements.                    *)
(***************************************************************************)

\* An item whose counter is 0 is not found (oput_msg_find_match_addr).
AckFindsItem(d) == d \in Range(oput_msg_list) /\ packets[d] # 0

SameSeq_mut(d, f) == DOMAIN chain[d]
SameSeq(d, f) == {i \in DOMAIN chain[d] : SeqNum(chain[d][i]) = f.seq}

\* The first pbuf with the offset field and sequence number of f is marked.
MarkFragment(f) ==
  LET d == f.dest
  IN  /\ f.mf
      /\ \E i \in SameSeq(d, f) :
           /\ FrameOf(d, chain[d][i]) = f
           /\ \A j \in 1..(i - 1) : FrameOf(d, chain[d][j]) # f
           /\ chain' = [chain EXCEPT ![d] = [@ EXCEPT ![i].sent = TRUE]]
      /\ UNCHANGED <<packets, live>>

\* packet_recv_ack_move frees the pbufs of the sequence number one by one, up
\* to the first one without the more-fragments flag.  It reads that flag after
\* it has freed the pbuf: unless freed memory is intact the loop may stop at
\* any pbuf of the sequence number, or miss the last one.
StopsAt(d, M, i) ==
  \/ ~FreedIntact
  \/ /\ \A j \in M : j < i => MoreFrag(chain[d][j])
     /\ ~MoreFrag(chain[d][i]) \/ \A j \in M : j <= i

ReleaseDatagram(f) ==
  LET d == f.dest
      M == SameSeq(d, f)
  IN  /\ ~f.mf
      /\ \E i \in M :
           LET gone == {j \in M : j <= i}
           IN  /\ StopsAt(d, M, i)
               /\ chain' = [chain EXCEPT ![d] = Keep(@, DOMAIN @ \ gone)]
               /\ packets' = [packets EXCEPT ![d] = Decr(@, Cardinality(gone))]
               /\ live' = live \ {Id(chain[d][j]) : j \in gone}

RecvAck(f) ==
  /\ AckFindsItem(f.dest)
  /\ MarkFragment(f) \/ ReleaseDatagram(f)
  /\ UNCHANGED <<oput_msg_list, g_curr_msg, old_age, g_seqnum, aired, due>>

-----------------------------------------------------------------------------

Init ==
  /\ oput_msg_list = <<>>
  /\ g_curr_msg = NoDest
  /\ chain = [d \in Dest |-> <<>>]
  /\ packets = [d \in Dest |-> 0]
  /\ old_age = [d \in Dest |-> 0]
  /\ g_seqnum = 0
  /\ live = {}
  /\ aired = {}
  /\ due = "age"

Tick == OldAgeTmr \/ OutputTmr

Next ==
  \/ \E d \in Dest, k \in Kinds : Send(d, k)
  \/ Tick
  \/ \E f \in aired : RecvAck(f)

Spec == Init /\ [][Next]_vars

\* rf_tmr_callback restarts its timer at its end, so ticks never stop.  The
\* application and the peers owe nothing.
FairSpec == Spec /\ WF_vars(Tick)

-----------------------------------------------------------------------------
(***************************************************************************)
(* Properties.                                                             *)
(***************************************************************************)

\* The fields have their C types, as far as the model keeps them.
TypeOK ==
  /\ oput_msg_list \in Seq(Dest)
  /\ g_curr_msg \in Dest \cup {NoDest}
  /\ chain \in [Dest -> Seq(Pbuf)]
  /\ packets \in [Dest -> 0..(ByteMod - 1)]
  /\ old_age \in [Dest -> Nat]
  /\ g_seqnum \in Nat
  /\ live \subseteq Nat \X (Nat \ {0})
  /\ aired \subseteq Frame
  /\ due \in {"age", "send"}

\* The cursor never dangles: it designates an item of the list, and it is
\* NULL exactly when the list is empty, so no item is left unserved
\* (oput_msg_new, oput_msg_item_move, send_pbuf_find).
CurrOnList ==
  IF oput_msg_list = <<>> THEN g_curr_msg = NoDest
  ELSE g_curr_msg \in Range(oput_msg_list)

\* A destination has at most one item, whatever evictions, old age and new
\* datagrams do to the list (oput_msg_add_packet_to_list).
OneQueuePerDest == IsInjective(oput_msg_list)

\* The list never holds more than one item above the limit, and a queue never
\* holds more than the pbufs one device may have, fragments included.
QueueBounds ==
  /\ Len(oput_msg_list) <= MaxItems + 1
  /\ \A d \in Dest : Len(chain[d]) <= MaxPbufs

\* Every pbuf linked on a queue is allocated, and no pbuf is linked twice, on
\* the same queue or on two: nothing that is queued has been freed, whether by
\* an acknowledgement, by retry exhaustion, by eviction or by old age.
NoDanglingPbuf ==
  /\ \A d \in Dest : Ids(chain[d]) \subseteq live
  /\ \A d \in Dest : \A i, j \in DOMAIN chain[d] :
       Id(chain[d][i]) = Id(chain[d][j]) => i = j
  /\ \A d, e \in Dest : d # e => Ids(chain[d]) \cap Ids(chain[e]) = {}

\* Stop and wait, packet_frag.c:334: a pbuf is transmitted only when every
\* pbuf before it on its queue is acknowledged.
InOrder ==
  \A d \in Dest : \A i, j \in DOMAIN chain[d] :
    i < j /\ chain[d][j].retry > 0 => chain[d][i].sent

\* An acknowledgement, late or repeated, releases only what was transmitted,
\* as long as sequence numbers have not been reused (packet_recv_ack_move).
AckReleasesTransmitted ==
  [][\A d \in Dest : \A i \in DOMAIN chain[d] :
       /\ g_seqnum <= SeqMod
       /\ \E f \in aired : RecvAck(f)
       /\ Id(chain[d][i]) \notin Ids(chain'[d])
       => chain[d][i].retry > 0]_vars

\* output_mgr.c:47: packets is the number of packets on the item, where a
\* packet may consist of multiple pbufs.
PacketsCounted ==
  \A d \in Dest :
    packets[d] = Cardinality({chain[d][i].dg : i \in DOMAIN chain[d]})

\* Every pbuf the stack still holds is on a queue, so it can still be freed.
NoLeak == live = UNION {Ids(chain[d]) : d \in Dest}

\* A queue is drained by acknowledgements and retries before its item is too
\* old to be sent from: it needs an old age that covers the retries of every
\* pbuf that can be queued at once.
DrainedBeforeOld ==
  \A d \in Range(oput_msg_list) : chain[d] # <<>> => old_age[d] < OldAge

\* A pbuf that has been transmitted and may be again.
Pending(b) == ~b.sent /\ b.retry \in 1..(MaxRetries - 1)

\* The attempts for a pbuf follow one another: as long as it may be transmitted
\* again it is the one the cursor's item sends next, and nothing goes to any
\* address in between, whatever datagrams, acknowledgements, evictions and old
\* items come.  The receiver's window (input_mgr.c:24) is as long as that many
\* attempts, so it relies on this (send_pbuf_find, oput_msg_item_move).
AttemptsTogether ==
  \A d \in Dest : \A i \in DOMAIN chain[d] :
    Pending(chain[d][i]) => g_curr_msg = d /\ IsFirstStop(d, i)

\* Once the application stops sending, everything is released: no item and no
\* pbuf is held for ever, whatever the peers acknowledge.
Quiesces == <>[](oput_msg_list = <<>> /\ live = {})

=============================================================================

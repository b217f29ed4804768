--------------------------- MODULE OutputMgrProofs --------------------------
(***************************************************************************)
(* Proofs of the safety properties of the output manager, for every set of *)
(* destinations and every value of the limits.                             *)
(***************************************************************************)
EXTENDS OutputMgr, ChainOpsProofs

\* The list after an unlinking loop: no new item, and none twice.
LEMMA KeptItems ==
  ASSUME TypeOK, NEW K \in SUBSET (DOMAIN oput_msg_list)
  PROVE  /\ Keep(oput_msg_list, K) \in Seq(Dest)
         /\ Range(Keep(oput_msg_list, K)) = {oput_msg_list[k] : k \in K}
         /\ Range(Keep(oput_msg_list, K)) \subseteq Range(oput_msg_list)
         /\ Len(Keep(oput_msg_list, K)) <= Len(oput_msg_list)
         /\ OneQueuePerDest => IsInjective(Keep(oput_msg_list, K))
<1>1. oput_msg_list \in Seq(Dest)
  BY DEF TypeOK
<1>2. {oput_msg_list[k] : k \in K} \subseteq Range(oput_msg_list)
  BY DEF Range
<1> QED
  BY <1>1, <1>2, KeepProperties, KeepInjective DEF OneQueuePerDest

LEMMA SearchedItems ==
  ASSUME TypeOK, NEW d
  PROVE  /\ Searched(d) \in Seq(Dest)
         /\ Range(Searched(d)) \subseteq Range(oput_msg_list)
         /\ Len(Searched(d)) <= Len(oput_msg_list)
         /\ OneQueuePerDest => IsInjective(Searched(d))
         /\ d \in Range(oput_msg_list) => d \in Range(Searched(d))
<1>1. KeptBySearch(d) \in SUBSET (DOMAIN oput_msg_list)
  BY DEF KeptBySearch
<1>2. ASSUME d \in Range(oput_msg_list)
      PROVE  d \in Range(Searched(d))
  <2>1. PICK i \in DOMAIN oput_msg_list : oput_msg_list[i] = d
    BY <1>2 DEF Range
  <2>2. i \in 1..i
    BY <2>1, LenProperties DEF TypeOK
  <2>3. i \in KeptBySearch(d)
    BY <2>1, <2>2 DEF KeptBySearch
  <2>4. \A j \in KeptBySearch(d) : oput_msg_list[j] \in Range(Searched(d))
    <3>1. {oput_msg_list[j] : j \in KeptBySearch(d)} \subseteq Range(Searched(d))
      BY <1>1, KeptItems DEF Searched
    <3> QED
      BY <3>1
  <2> QED
    BY <2>1, <2>3, <2>4
<1> QED
  BY <1>1, <1>2, KeptItems DEF Searched

\* The pbufs of a new datagram.
LEMMA NewChainType ==
  ASSUME TypeOK, NEW k \in Kinds
  PROVE  /\ k.frags \in Nat \ {0}
         /\ NewChain(k) \in Seq(Pbuf)
         /\ Len(NewChain(k)) = k.frags
         /\ DOMAIN NewChain(k) = 1..k.frags
         /\ \A i \in 1..k.frags :
              /\ NewChain(k)[i].dg = g_seqnum
              /\ NewChain(k)[i].frag = i
              /\ NewChain(k)[i].frags = k.frags
              /\ NewChain(k)[i].retry = 0
              /\ ~NewChain(k)[i].sent
<1>1. /\ k.frags \in Nat \ {0} /\ k.ack \in BOOLEAN /\ k.card \in BOOLEAN
  BY KindsAssumption
<1>2. g_seqnum \in Nat /\ 0 \in 0..MaxRetries
  BY LimitsAssumption DEF TypeOK
<1>3. NewChain(k) \in [1..k.frags -> Pbuf]
  BY <1>1, <1>2 DEF NewChain, Pbuf
<1>4. NewChain(k) \in Seq(Pbuf)
  BY <1>1, <1>3, SeqDef
<1>5. /\ Len(NewChain(k)) \in Nat
      /\ DOMAIN NewChain(k) = 1..Len(NewChain(k))
      /\ DOMAIN NewChain(k) = 1..k.frags
  BY <1>3, <1>4, LenProperties
<1>6. Len(NewChain(k)) = k.frags
  BY <1>1, <1>5
<1>7. \A i \in 1..k.frags :
        /\ NewChain(k)[i].dg = g_seqnum
        /\ NewChain(k)[i].frag = i
        /\ NewChain(k)[i].frags = k.frags
        /\ NewChain(k)[i].retry = 0
        /\ ~NewChain(k)[i].sent
  BY DEF NewChain
<1> QED
  BY <1>1, <1>4, <1>5, <1>6, <1>7

\* A pbuf on a queue.
LEMMA QueuedPbuf ==
  ASSUME TypeOK, NEW d \in Dest
  PROVE  /\ chain[d] \in Seq(Pbuf)
         /\ Len(chain[d]) \in Nat
         /\ DOMAIN chain[d] = 1..Len(chain[d])
         /\ \A i \in DOMAIN chain[d] :
              /\ chain[d][i] \in Pbuf
              /\ chain[d][i].dg \in Nat
              /\ chain[d][i].frag \in Nat \ {0}
              /\ chain[d][i].retry \in 0..MaxRetries
<1>1. chain[d] \in Seq(Pbuf)
  BY DEF TypeOK
<1>2. /\ Len(chain[d]) \in Nat
      /\ DOMAIN chain[d] = 1..Len(chain[d])
      /\ chain[d] \in [1..Len(chain[d]) -> Pbuf]
  BY <1>1, LenProperties
<1>3. \A i \in DOMAIN chain[d] : chain[d][i] \in Pbuf
  BY <1>2
<1> QED
  BY <1>1, <1>2, <1>3 DEF Pbuf

\* A pbuf of a queue may change in place: its queue keeps its shape.
LEMMA ChangedPbuf ==
  ASSUME TypeOK, NEW d \in Dest, NEW i \in DOMAIN chain[d], NEW b \in Pbuf
  PROVE  [chain EXCEPT ![d] = [@ EXCEPT ![i] = b]] \in [Dest -> Seq(Pbuf)]
<1>1. chain \in [Dest -> Seq(Pbuf)]
  BY DEF TypeOK
<1>2. [chain[d] EXCEPT ![i] = b] \in Seq(Pbuf)
  BY QueuedPbuf, ExceptSeq
<1> QED
  BY <1>1, <1>2

LEMMA CounterType ==
  ASSUME TypeOK, NEW d \in Dest
  PROVE  packets[d] \in Nat
<1>1. packets[d] \in 0..(ByteMod - 1)
  BY DEF TypeOK
<1> QED
  BY <1>1 DEF ByteMod

LEMMA PickedItem ==
  ASSUME TypeOK, NEW d \in Range(oput_msg_list)
  PROVE  d \in Dest /\ NextItem(d) \in Range(oput_msg_list)
<1> DEFINE i == CHOOSE j \in DOMAIN oput_msg_list : oput_msg_list[j] = d
<1>1. /\ oput_msg_list \in Seq(Dest)
      /\ Len(oput_msg_list) \in Nat
      /\ DOMAIN oput_msg_list = 1..Len(oput_msg_list)
  BY LenProperties DEF TypeOK
<1>2. d \in Dest
  BY <1>1, RangeOfSeq
<1>3. i \in 1..Len(oput_msg_list)
  BY <1>1 DEF Range
<1>4. CASE i < Len(oput_msg_list)
  <2>1. i + 1 \in DOMAIN oput_msg_list
    BY <1>1, <1>3, <1>4
  <2>2. NextItem(d) = oput_msg_list[i + 1]
    BY <1>4 DEF NextItem
  <2> QED
    BY <1>2, <2>1, <2>2 DEF Range
<1>5. CASE ~(i < Len(oput_msg_list))
  <2>1. 1 \in DOMAIN oput_msg_list
    BY <1>1, <1>3
  <2>2. NextItem(d) = oput_msg_list[1]
    BY <1>5 DEF NextItem
  <2> QED
    BY <1>2, <2>1, <2>2 DEF Range
<1> QED
  BY <1>4, <1>5

\* After unlinking, the cursor is an item of the new list, or NULL.
LEMMA RetargetProperties ==
  ASSUME NEW l \in Seq(Dest)
  PROVE  /\ Retarget(l) \in Dest \cup {NoDest}
         /\ l # <<>> => Retarget(l) \in Range(l)
         /\ l = <<>> => Retarget(l) = NoDest
<1>1. l # <<>> => Head(l) \in Range(l)
  <2>1. l # <<>> => Len(l) \in Nat /\ Len(l) # 0 /\ DOMAIN l = 1..Len(l)
    BY LenProperties, EmptySeq
  <2>2. l # <<>> => Head(l) = l[1] /\ 1 \in DOMAIN l
    BY <2>1
  <2> QED
    BY <2>2 DEF Range
<1>2. Range(l) \subseteq Dest
  BY RangeOfSeq
<1>3. l = <<>> => Range(l) = {}
  BY DEF Range
<1> QED
  BY <1>1, <1>2, <1>3 DEF Retarget

-----------------------------------------------------------------------------
(***************************************************************************)
(* Type correctness.                                                       *)
(***************************************************************************)

LEMMA TypeInit == Init => TypeOK
<1> SUFFICES ASSUME Init PROVE TypeOK
  OBVIOUS
<1>1. <<>> \in Seq(Dest) /\ <<>> \in Seq(Pbuf)
  BY EmptySeq
<1> QED
  BY <1>1 DEF Init, TypeOK, ByteMod

LEMMA TypeSend ==
  ASSUME TypeOK, NEW d \in Dest, NEW k \in Kinds, Send(d, k)
  PROVE  TypeOK'
<1>1. g_seqnum' \in Nat /\ aired' \subseteq Frame /\ due' \in {"age", "send"}
  BY DEF Send, TypeOK
<1>2. /\ Searched(d) \in Seq(Dest)
      /\ Range(Searched(d)) \subseteq Range(oput_msg_list)
  BY SearchedItems
<1>3. /\ NewChain(k) \in Seq(Pbuf)
      /\ Ids(NewChain(k)) \subseteq Nat \X (Nat \ {0})
  <2>1. ASSUME NEW i \in DOMAIN NewChain(k)
        PROVE  Id(NewChain(k)[i]) \in Nat \X (Nat \ {0})
    <3>1. i \in 1..k.frags /\ k.frags \in Nat
      BY NewChainType
    <3>2. NewChain(k)[i].dg = g_seqnum /\ NewChain(k)[i].frag = i
      BY <3>1, NewChainType
    <3>3. g_seqnum \in Nat /\ i \in Nat \ {0}
      BY <3>1 DEF TypeOK
    <3> QED
      BY <3>2, <3>3 DEF Id
  <2> QED
    BY <2>1, NewChainType DEF Ids
<1>4. <<>> \in Seq(Pbuf)
  BY EmptySeq
<1>5. \A n \in Nat : (n + 1) % ByteMod \in 0..(ByteMod - 1)
  BY DEF ByteMod
<1>6. CASE SendRefused(d, k)
  BY <1>1, <1>6 DEF SendRefused, TypeOK
<1>7. CASE SendToItem(d, k)
  <2>1. oput_msg_list' \in Seq(Dest)
    BY <1>2, <1>7 DEF SendToItem
  <2>2. g_curr_msg' \in Dest \cup {NoDest}
    BY <1>2, <1>7, RetargetProperties DEF SendToItem
  <2>3. chain' \in [Dest -> Seq(Pbuf)]
    <3>1. chain[d] \o NewChain(k) \in Seq(Pbuf)
      BY <1>3, QueuedPbuf, ConcatProperties
    <3> QED
      BY <1>4, <1>7, <3>1 DEF SendToItem, TypeOK
  <2>4. packets' \in [Dest -> 0..(ByteMod - 1)]
    <3>1. 0 \in 0..(ByteMod - 1) /\ packets[d] \in Nat
      BY CounterType DEF ByteMod
    <3>2. (packets[d] + 1) % ByteMod \in 0..(ByteMod - 1)
      BY <1>5, <3>1
    <3> QED
      BY <1>7, <3>1, <3>2 DEF SendToItem, TypeOK
  <2>5. old_age' \in [Dest -> Nat]
    BY <1>7 DEF SendToItem, TypeOK
  <2>6. live' \subseteq Nat \X (Nat \ {0})
    BY <1>3, <1>7 DEF SendToItem, Retained, TypeOK
  <2> QED
    BY <1>1, <2>1, <2>2, <2>3, <2>4, <2>5, <2>6 DEF TypeOK
<1>8. ASSUME NEW mem \in BOOLEAN, SendNewItem(d, k, mem)
      PROVE  TypeOK'
  <2>1. oput_msg_list' \in Seq(Dest)
    BY <1>2, <1>8, AppendProperties DEF SendNewItem
  <2>2. g_curr_msg' \in Dest \cup {NoDest}
    BY <1>2, <1>8, RetargetProperties DEF SendNewItem
  <2>3. chain' \in [Dest -> Seq(Pbuf)]
    BY <1>3, <1>4, <1>8 DEF SendNewItem, TypeOK
  <2>4. packets' \in [Dest -> 0..(ByteMod - 1)]
    BY <1>8 DEF SendNewItem, TypeOK, ByteMod
  <2>5. old_age' \in [Dest -> Nat]
    BY <1>8 DEF SendNewItem, TypeOK
  <2>6. live' \subseteq Nat \X (Nat \ {0})
    BY <1>3, <1>8 DEF SendNewItem, TypeOK
  <2> QED
    BY <1>1, <2>1, <2>2, <2>3, <2>4, <2>5, <2>6 DEF TypeOK
<1> QED
  BY <1>6, <1>7, <1>8 DEF Send

LEMMA TypeOldAge ==
  ASSUME TypeOK, OldAgeTmr
  PROVE  TypeOK'
<1> DEFINE kept == Keep(oput_msg_list, Young)
<1>1. kept \in Seq(Dest)
  BY KeptItems DEF Young
<1>2. oput_msg_list' \in Seq(Dest) /\ g_curr_msg' \in Dest \cup {NoDest}
  BY <1>1, RetargetProperties DEF OldAgeTmr
<1>3. chain' \in [Dest -> Seq(Pbuf)]
  <2>1. <<>> \in Seq(Pbuf)
    BY EmptySeq
  <2> QED
    BY <2>1 DEF OldAgeTmr, TypeOK
<1>4. packets' \in [Dest -> 0..(ByteMod - 1)] /\ old_age' \in [Dest -> Nat]
  BY DEF OldAgeTmr, Aged, TypeOK, ByteMod
<1> QED
  BY <1>2, <1>3, <1>4 DEF OldAgeTmr, TypeOK

LEMMA DecrType ==
  ASSUME NEW n \in Nat, NEW k \in Nat
  PROVE  Decr(n, k) \in 0..(ByteMod - 1)
BY DEF Decr, ByteMod

\* A transmission changes the attempts of one pbuf.
LEMMA TransmitChain ==
  ASSUME TypeOK, NEW d \in Dest, NEW i \in DOMAIN chain[d], Transmit(d, i)
  PROVE  /\ [chain[d][i] EXCEPT !.retry = Attempts(chain[d][i])] \in Pbuf
         /\ chain' = [chain EXCEPT ![d] = [@ EXCEPT ![i] =
                        [chain[d][i] EXCEPT !.retry = Attempts(chain[d][i])]]]
         /\ chain' \in [Dest -> Seq(Pbuf)]
<1> DEFINE b == chain[d][i]
<1>1. b \in Pbuf /\ b.retry \in 0..MaxRetries /\ b.retry < MaxRetries
  BY QueuedPbuf DEF Transmit
<1>2. Attempts(b) \in 0..MaxRetries
  BY <1>1, LimitsAssumption DEF Attempts
<1>3. [b EXCEPT !.retry = Attempts(b)] \in Pbuf
  BY <1>1, <1>2 DEF Pbuf
<1>4. chain \in [Dest -> Seq(Pbuf)]
  BY DEF TypeOK
<1>5. chain' = [chain EXCEPT ![d] = [@ EXCEPT ![i] =
                 [chain[d][i] EXCEPT !.retry = Attempts(chain[d][i])]]]
  BY <1>4 DEF Transmit
<1> QED
  BY <1>3, <1>5, ChangedPbuf

LEMMA TypeOutput ==
  ASSUME TypeOK, OutputTmr
  PROVE  TypeOK'
<1>1. /\ oput_msg_list' \in Seq(Dest) /\ old_age' \in [Dest -> Nat]
      /\ g_seqnum' \in Nat /\ due' \in {"age", "send"}
  BY DEF OutputTmr, TypeOK
<1>2. ASSUME NEW d \in Range(oput_msg_list), NEW i \in DOMAIN chain[d],
             Transmit(d, i)
      PROVE  TypeOK'
  <2>1. d \in Dest
    BY PickedItem
  <2>2. chain' \in [Dest -> Seq(Pbuf)]
    BY <1>2, <2>1, TransmitChain
  <2>3. FrameOf(d, chain[d][i]) \in Frame
    <3>1. chain[d][i].dg \in Nat /\ chain[d][i].frag \in Nat \ {0}
      BY <2>1, QueuedPbuf
    <3>2. chain[d][i].dg % SeqMod \in Nat
      BY <3>1, LimitsAssumption
    <3> QED
      BY <2>1, <3>1, <3>2 DEF FrameOf, Frame, SeqNum, MoreFrag
  <2>4. aired' \subseteq Frame
    BY <1>2, <2>3 DEF Transmit, TypeOK
  <2> QED
    BY <1>1, <1>2, <2>2, <2>4 DEF Transmit, TypeOK
<1>3. ASSUME NEW d \in Range(oput_msg_list), NEW i \in DOMAIN chain[d],
             GiveUp(d, i)
      PROVE  TypeOK'
  <2>1. d \in Dest /\ NextItem(d) \in Dest
    BY PickedItem, RangeOfSeq DEF TypeOK
  <2>2. Unlink(chain[d], i) \in Seq(Pbuf)
    <3>1. DOMAIN chain[d] \ {i} \in SUBSET (DOMAIN chain[d])
      OBVIOUS
    <3> QED
      BY <2>1, <3>1, QueuedPbuf, KeepProperties DEF Unlink
  <2>3. chain' \in [Dest -> Seq(Pbuf)]
    BY <1>3, <2>1, <2>2 DEF GiveUp, TypeOK
  <2>4. packets' \in [Dest -> 0..(ByteMod - 1)]
    <3>1. packets[d] \in Nat
      BY <2>1, CounterType
    <3> QED
      BY <1>3, <2>1, <3>1, DecrType DEF GiveUp, TypeOK
  <2> QED
    BY <1>1, <1>3, <2>1, <2>3, <2>4 DEF GiveUp, TypeOK
<1>4. ASSUME NEW d \in Range(oput_msg_list), MoveOn(d)
      PROVE  TypeOK'
  <2>1. NextItem(d) \in Dest
    BY PickedItem, RangeOfSeq DEF TypeOK
  <2> QED
    BY <1>1, <1>4, <2>1 DEF MoveOn, TypeOK
<1>5. CASE UNCHANGED <<g_curr_msg, chain, packets, live, aired>>
  BY <1>1, <1>5 DEF TypeOK
<1> QED
  BY <1>2, <1>3, <1>4, <1>5 DEF OutputTmr

\* An acknowledged fragment is marked in place.
LEMMA MarkChain ==
  ASSUME TypeOK, NEW d \in Dest, NEW i \in DOMAIN chain[d],
         chain' = [chain EXCEPT ![d] = [@ EXCEPT ![i].sent = TRUE]]
  PROVE  /\ [chain[d][i] EXCEPT !.sent = TRUE] \in Pbuf
         /\ chain' = [chain EXCEPT ![d] = [@ EXCEPT ![i] =
                        [chain[d][i] EXCEPT !.sent = TRUE]]]
         /\ chain' \in [Dest -> Seq(Pbuf)]
<1>1. chain[d][i] \in Pbuf /\ chain \in [Dest -> Seq(Pbuf)]
  BY QueuedPbuf DEF TypeOK
<1>2. [chain[d][i] EXCEPT !.sent = TRUE] \in Pbuf
  BY <1>1 DEF Pbuf
<1>3. chain' = [chain EXCEPT ![d] = [@ EXCEPT ![i] =
                 [chain[d][i] EXCEPT !.sent = TRUE]]]
  BY <1>1
<1> QED
  BY <1>2, <1>3, ChangedPbuf

\* The pbufs an acknowledgement releases are positions of one queue.
LEMMA ReleasedPositions ==
  ASSUME TypeOK, NEW f, f.dest \in Dest, NEW i \in SameSeq(f.dest, f)
  PROVE  LET gone == {j \in SameSeq(f.dest, f) : j <= i}
         IN  /\ gone \in SUBSET (DOMAIN chain[f.dest])
             /\ DOMAIN chain[f.dest] \ gone \in SUBSET (DOMAIN chain[f.dest])
             /\ Cardinality(gone) \in Nat
             /\ Keep(chain[f.dest], DOMAIN chain[f.dest] \ gone) \in Seq(Pbuf)
<1> DEFINE gone == {j \in SameSeq(f.dest, f) : j <= i}
<1>1. /\ gone \in SUBSET (DOMAIN chain[f.dest])
      /\ DOMAIN chain[f.dest] \ gone \in SUBSET (DOMAIN chain[f.dest])
  BY DEF SameSeq
<1>2. Cardinality(gone) \in Nat
  BY <1>1, QueuedPbuf, RankProperties
<1>3. Keep(chain[f.dest], DOMAIN chain[f.dest] \ gone) \in Seq(Pbuf)
  BY <1>1, QueuedPbuf, KeepProperties
<1> QED
  BY <1>1, <1>2, <1>3

LEMMA TypeAck ==
  ASSUME TypeOK, NEW f \in aired, RecvAck(f)
  PROVE  TypeOK'
<1>1. f.dest \in Dest
  BY DEF TypeOK, Frame
<1>2. CASE MarkFragment(f)
  <2>1. chain' \in [Dest -> Seq(Pbuf)]
    BY <1>1, <1>2, MarkChain DEF MarkFragment, SameSeq
  <2> QED
    BY <1>2, <2>1 DEF MarkFragment, RecvAck, TypeOK
<1>3. CASE ReleaseDatagram(f)
  <2>1. PICK i \in SameSeq(f.dest, f) :
          LET gone == {j \in SameSeq(f.dest, f) : j <= i}
          IN  /\ chain' = [chain EXCEPT ![f.dest] = Keep(@, DOMAIN @ \ gone)]
              /\ packets' = [packets EXCEPT ![f.dest] =
                               Decr(@, Cardinality(gone))]
              /\ live' \subseteq live
    BY <1>3 DEF ReleaseDatagram
  <2>2. chain' \in [Dest -> Seq(Pbuf)]
    BY <1>1, <2>1, ReleasedPositions DEF TypeOK
  <2>3. packets' \in [Dest -> 0..(ByteMod - 1)]
    <3>1. packets[f.dest] \in Nat
      BY <1>1, CounterType
    <3>2. Decr(packets[f.dest],
               Cardinality({j \in SameSeq(f.dest, f) : j <= i}))
            \in 0..(ByteMod - 1)
      BY <1>1, <3>1, ReleasedPositions, DecrType
    <3> QED
      BY <2>1, <3>2 DEF TypeOK
  <2> QED
    BY <2>1, <2>2, <2>3 DEF RecvAck, TypeOK
<1> QED
  BY <1>2, <1>3 DEF RecvAck

LEMMA TypeStep == TypeOK /\ [Next]_vars => TypeOK'
<1> SUFFICES ASSUME TypeOK, [Next]_vars PROVE TypeOK'
  OBVIOUS
<1>1. CASE UNCHANGED vars
  BY <1>1 DEF vars, TypeOK
<1> QED
  BY <1>1, TypeSend, TypeOldAge, TypeOutput, TypeAck DEF Next, Tick

\* Every field keeps its C type, for every instance of the constants.
THEOREM OutputTypeCorrect == Spec => []TypeOK
BY TypeInit, TypeStep, PTL DEF Spec

-----------------------------------------------------------------------------
(***************************************************************************)
(* The list of items and its cursor.                                       *)
(***************************************************************************)

\* A destination without an item has nothing of an earlier one: the fields of an
\* item are kept by destination here, and removing it clears them.
NoResidue ==
  \A d \in Dest \ Range(oput_msg_list) :
    chain[d] = <<>> /\ packets[d] = 0 /\ old_age[d] = 0

ListInv == CurrOnList /\ OneQueuePerDest /\ NoResidue

LEMMA ListInit == Init => ListInv
<1> SUFFICES ASSUME Init PROVE ListInv
  OBVIOUS
<1>1. oput_msg_list = <<>> /\ DOMAIN oput_msg_list = {}
  BY DEF Init
<1> QED
  BY <1>1 DEF Init, ListInv, CurrOnList, OneQueuePerDest, IsInjective,
              NoResidue

\* Replacing the list by a sublist, and clearing the items that are gone.
LEMMA ListShrinks ==
  ASSUME ListInv, oput_msg_list' \in Seq(Dest), IsInjective(oput_msg_list'),
         g_curr_msg' = Retarget(oput_msg_list'),
         \A e \in Dest \ Range(oput_msg_list') :
           \/ chain'[e] = <<>> /\ packets'[e] = 0 /\ old_age'[e] = 0
           \/ /\ e \notin Range(oput_msg_list)
              /\ chain'[e] = chain[e] /\ packets'[e] = packets[e]
              /\ old_age'[e] = old_age[e]
  PROVE  ListInv'
<1>1. CurrOnList'
  BY RetargetProperties DEF CurrOnList
<1>2. OneQueuePerDest'
  BY DEF OneQueuePerDest
<1>3. NoResidue'
  BY DEF ListInv, NoResidue
<1> QED
  BY <1>1, <1>2, <1>3 DEF ListInv

\* The list stays: only what is on the item of one destination changes.
LEMMA ListStays ==
  ASSUME TypeOK, ListInv, NEW d \in Range(oput_msg_list),
         oput_msg_list' = oput_msg_list, old_age' = old_age,
         g_curr_msg' \in {g_curr_msg, NextItem(d)},
         \A e \in Dest \ {d} : chain'[e] = chain[e] /\ packets'[e] = packets[e]
  PROVE  ListInv'
<1>1. oput_msg_list # <<>> /\ NextItem(d) \in Range(oput_msg_list)
  BY PickedItem DEF Range
<1>2. CurrOnList'
  BY <1>1 DEF ListInv, CurrOnList
<1>3. OneQueuePerDest'
  BY DEF ListInv, OneQueuePerDest
<1>4. NoResidue'
  BY DEF ListInv, NoResidue
<1> QED
  BY <1>2, <1>3, <1>4 DEF ListInv

LEMMA ListSend ==
  ASSUME TypeOK, ListInv, NEW d \in Dest, NEW k \in Kinds, Send(d, k)
  PROVE  ListInv'
<1>1. /\ Searched(d) \in Seq(Dest)
      /\ Range(Searched(d)) \subseteq Range(oput_msg_list)
      /\ IsInjective(Searched(d))
      /\ d \in Range(oput_msg_list) => d \in Range(Searched(d))
  BY SearchedItems DEF ListInv
<1>2. CASE SendRefused(d, k)
  BY <1>2 DEF SendRefused, ListInv, CurrOnList, OneQueuePerDest, NoResidue
<1>3. CASE SendToItem(d, k)
  <2>1. d \in Range(Searched(d))
    BY <1>1, <1>3 DEF SendToItem, HasItem
  <2>2. \A e \in Dest \ Range(Searched(d)) :
          \/ chain'[e] = <<>> /\ packets'[e] = 0 /\ old_age'[e] = 0
          \/ /\ e \notin Range(oput_msg_list)
             /\ chain'[e] = chain[e] /\ packets'[e] = packets[e]
             /\ old_age'[e] = old_age[e]
    BY <1>3, <2>1 DEF SendToItem, Evicted
  <2>3. oput_msg_list' = Searched(d) /\ g_curr_msg' = Retarget(Searched(d))
    BY <1>3 DEF SendToItem
  <2> QED
    BY <1>1, <2>2, <2>3, ListShrinks
<1>4. ASSUME NEW mem \in BOOLEAN, SendNewItem(d, k, mem)
      PROVE  ListInv'
  <2>1. d \notin Range(oput_msg_list) /\ d \notin Range(Searched(d))
    BY <1>1, <1>4 DEF SendNewItem, HasItem
  <2>2. CASE ~mem
    <3>1. /\ oput_msg_list' = Searched(d)
          /\ g_curr_msg' = Retarget(Searched(d))
      BY <1>4, <2>2 DEF SendNewItem
    <3>2. \A e \in Dest \ Range(Searched(d)) :
            \/ chain'[e] = <<>> /\ packets'[e] = 0 /\ old_age'[e] = 0
            \/ /\ e \notin Range(oput_msg_list)
               /\ chain'[e] = chain[e] /\ packets'[e] = packets[e]
               /\ old_age'[e] = old_age[e]
      <4>1. SUFFICES ASSUME NEW e \in Dest \ Range(Searched(d))
                     PROVE
                       \/ chain'[e] = <<>> /\ packets'[e] = 0 /\ old_age'[e] = 0
                       \/ /\ e \notin Range(oput_msg_list)
                          /\ chain'[e] = chain[e] /\ packets'[e] = packets[e]
                          /\ old_age'[e] = old_age[e]
        OBVIOUS
      <4>2. CASE e = d
        <5>1. chain[d] = <<>> /\ packets[d] = 0
          BY <2>1 DEF ListInv, NoResidue
        <5> QED
          BY <1>4, <2>2, <4>2, <5>1 DEF SendNewItem
      <4>3. CASE e # d
        BY <1>4, <2>2, <4>3 DEF SendNewItem, Evicted
      <4> QED
        BY <4>2, <4>3
    <3> QED
      BY <1>1, <3>1, <3>2, ListShrinks
  <2>3. CASE mem
    <3>1. oput_msg_list' = Append(Searched(d), d)
      BY <1>4, <2>3 DEF SendNewItem
    <3>2. /\ Len(Searched(d)) \in Nat
          /\ DOMAIN Searched(d) = 1..Len(Searched(d))
          /\ oput_msg_list' \in Seq(Dest)
          /\ oput_msg_list' # <<>>
          /\ Len(oput_msg_list') = Len(Searched(d)) + 1
          /\ \A i \in 1..Len(Searched(d)) : oput_msg_list'[i] = Searched(d)[i]
          /\ oput_msg_list'[Len(Searched(d)) + 1] = d
      BY <1>1, <3>1, AppendProperties, LenProperties
    <3>3. DOMAIN oput_msg_list' = 1..(Len(Searched(d)) + 1)
      BY <3>2, LenProperties
    <3>4. Range(oput_msg_list') = Range(Searched(d)) \cup {d}
      BY <3>2, <3>3 DEF Range
    <3>5. CurrOnList'
      <4>1. CASE Searched(d) = <<>>
        <5>1. g_curr_msg' = d
          BY <1>4, <2>3, <4>1 DEF SendNewItem
        <5> QED
          BY <3>2, <3>4, <5>1 DEF CurrOnList
      <4>2. CASE Searched(d) # <<>>
        <5>1. g_curr_msg' = Retarget(Searched(d))
          BY <1>4, <4>2 DEF SendNewItem
        <5>2. g_curr_msg' \in Range(Searched(d))
          BY <1>1, <4>2, <5>1, RetargetProperties
        <5> QED
          BY <3>2, <3>4, <5>2 DEF CurrOnList
      <4> QED
        BY <4>1, <4>2
    <3>6. OneQueuePerDest'
      <4>1. SUFFICES ASSUME NEW i \in DOMAIN oput_msg_list',
                            NEW j \in DOMAIN oput_msg_list',
                            oput_msg_list'[i] = oput_msg_list'[j]
                     PROVE  i = j
        BY DEF OneQueuePerDest, IsInjective
      <4>2. CASE i \in DOMAIN Searched(d) /\ j \in DOMAIN Searched(d)
        BY <1>1, <3>2, <4>1, <4>2 DEF IsInjective
      <4>3. CASE i \in DOMAIN Searched(d) /\ j \notin DOMAIN Searched(d)
        <5>1. j = Len(Searched(d)) + 1
          BY <3>2, <3>3, <4>3
        <5>2. Searched(d)[i] = d
          BY <3>2, <4>1, <4>3, <5>1
        <5> QED
          BY <2>1, <4>3, <5>2 DEF Range
      <4>4. CASE i \notin DOMAIN Searched(d) /\ j \in DOMAIN Searched(d)
        <5>1. i = Len(Searched(d)) + 1
          BY <3>2, <3>3, <4>4
        <5>2. Searched(d)[j] = d
          BY <3>2, <4>1, <4>4, <5>1
        <5> QED
          BY <2>1, <4>4, <5>2 DEF Range
      <4>5. CASE i \notin DOMAIN Searched(d) /\ j \notin DOMAIN Searched(d)
        BY <3>2, <3>3, <4>5
      <4> QED
        BY <4>2, <4>3, <4>4, <4>5
    <3>7. NoResidue'
      <4>1. SUFFICES ASSUME NEW e \in Dest, e \notin Range(oput_msg_list')
                     PROVE  /\ chain'[e] = <<>> /\ packets'[e] = 0
                            /\ old_age'[e] = 0
        BY DEF NoResidue
      <4>2. e # d /\ e \notin Range(Searched(d))
        BY <3>4, <4>1
      <4> QED
        BY <1>4, <4>2 DEF SendNewItem, Evicted, ListInv, NoResidue
    <3> QED
      BY <3>5, <3>6, <3>7 DEF ListInv
  <2> QED
    BY <2>2, <2>3
<1> QED
  BY <1>2, <1>3, <1>4 DEF Send

LEMMA ListOldAge ==
  ASSUME TypeOK, ListInv, OldAgeTmr
  PROVE  ListInv'
<1> DEFINE kept == Keep(oput_msg_list, Young)
<1>1. kept \in Seq(Dest) /\ IsInjective(kept)
  BY KeptItems DEF Young, ListInv
<1>2. oput_msg_list' = kept /\ g_curr_msg' = Retarget(kept)
  BY DEF OldAgeTmr
<1>3. \A e \in Dest \ Range(kept) :
        \/ chain'[e] = <<>> /\ packets'[e] = 0 /\ old_age'[e] = 0
        \/ /\ e \notin Range(oput_msg_list)
           /\ chain'[e] = chain[e] /\ packets'[e] = packets[e]
           /\ old_age'[e] = old_age[e]
  BY DEF OldAgeTmr
<1> QED
  BY <1>1, <1>2, <1>3, ListShrinks

LEMMA ListOutput ==
  ASSUME TypeOK, ListInv, OutputTmr
  PROVE  ListInv'
<1>1. ASSUME NEW d \in Range(oput_msg_list), NEW i \in DOMAIN chain[d],
             Transmit(d, i)
      PROVE  ListInv'
  BY <1>1, ListStays DEF Transmit, OutputTmr, TypeOK
<1>2. ASSUME NEW d \in Range(oput_msg_list), NEW i \in DOMAIN chain[d],
             GiveUp(d, i)
      PROVE  ListInv'
  BY <1>2, ListStays DEF GiveUp, OutputTmr, TypeOK
<1>3. ASSUME NEW d \in Range(oput_msg_list), MoveOn(d)
      PROVE  ListInv'
  BY <1>3, ListStays DEF MoveOn, OutputTmr
<1>4. CASE UNCHANGED <<g_curr_msg, chain, packets, live, aired>>
  BY <1>4 DEF OutputTmr, ListInv, CurrOnList, OneQueuePerDest, NoResidue
<1> QED
  BY <1>1, <1>2, <1>3, <1>4 DEF OutputTmr

LEMMA ListAck ==
  ASSUME TypeOK, ListInv, NEW f \in aired, RecvAck(f)
  PROVE  ListInv'
<1>1. f.dest \in Range(oput_msg_list)
  BY DEF RecvAck, AckFindsItem
<1>2. \A e \in Dest \ {f.dest} :
        chain'[e] = chain[e] /\ packets'[e] = packets[e]
  BY DEF RecvAck, MarkFragment, ReleaseDatagram, TypeOK
<1> QED
  BY <1>1, <1>2, ListStays DEF RecvAck

LEMMA ListStep == TypeOK /\ ListInv /\ [Next]_vars => ListInv'
<1> SUFFICES ASSUME TypeOK, ListInv, [Next]_vars PROVE ListInv'
  OBVIOUS
<1>1. CASE UNCHANGED vars
  BY <1>1 DEF vars, ListInv, CurrOnList, OneQueuePerDest, NoResidue
<1> QED
  BY <1>1, ListSend, ListOldAge, ListOutput, ListAck DEF Next, Tick

LEMMA ListInvariant == Spec => [](TypeOK /\ ListInv)
<1>1. Init => TypeOK /\ ListInv
  BY TypeInit, ListInit
<1>2. TypeOK /\ ListInv /\ [Next]_vars => (TypeOK /\ ListInv)'
  BY TypeStep, ListStep
<1> QED
  BY <1>1, <1>2, PTL DEF Spec

\* The cursor designates an item of the list, or is NULL when it is empty.
THEOREM CursorOnList == Spec => []CurrOnList
<1>1. TypeOK /\ ListInv => CurrOnList
  BY DEF ListInv
<1> QED
  BY <1>1, ListInvariant, PTL

\* No destination ever has two items.
THEOREM OneItemPerDestination == Spec => []OneQueuePerDest
<1>1. TypeOK /\ ListInv => OneQueuePerDest
  BY DEF ListInv
<1> QED
  BY <1>1, ListInvariant, PTL

-----------------------------------------------------------------------------
(***************************************************************************)
(* How a step changes the queues: every queue of the next state is empty,  *)
(* new, extended by a new chain, or made of pbufs of the old queue.        *)
(***************************************************************************)

\* The queue of d keeps pbufs of its own, in their order; attempts and the
\* acknowledged flag only grow, attempts are used on a first stop only, and the
\* flag is set by the acknowledgement of a frame that was transmitted.
Shrinks(d) ==
  \E K \in SUBSET (DOMAIN chain[d]) : chain'[d] = Keep(chain[d], K)
Changes(d) ==
  \E i \in DOMAIN chain[d], b \in Pbuf :
    /\ chain'[d] = [chain[d] EXCEPT ![i] = b]
    /\ Id(b) = Id(chain[d][i]) /\ b.dg = chain[d][i].dg
    /\ b.frag = chain[d][i].frag /\ b.frags = chain[d][i].frags
    /\ b.retry >= chain[d][i].retry
    /\ chain[d][i].sent => b.sent
    /\ b.sent => \/ chain[d][i].sent
                 \/ MoreFrag(chain[d][i]) /\ FrameOf(d, chain[d][i]) \in aired
    /\ \/ b.retry = chain[d][i].retry
       \/ IsFirstStop(d, i) /\ ~chain[d][i].sent

Extends(d) ==
  \E k \in Kinds :
    /\ g_seqnum' = g_seqnum + 1
    /\ k.frags <= MaxPbufs
    /\ \/ chain'[d] = NewChain(k)
       \/ /\ chain'[d] = chain[d] \o NewChain(k)
          /\ k.frags + Len(chain[d]) <= MaxPbufs

QueueStep(d) ==
  \/ chain'[d] = chain[d]
  \/ chain'[d] = <<>>
  \/ Extends(d)
  \/ Shrinks(d)
  \/ Changes(d)

LEMMA TransmitQueue ==
  ASSUME TypeOK, NEW d \in Dest, NEW i \in DOMAIN chain[d],
         IsFirstStop(d, i), Transmit(d, i)
  PROVE  Changes(d)
<1> DEFINE b == [chain[d][i] EXCEPT !.retry = Attempts(chain[d][i])]
<1>1. /\ b \in Pbuf
      /\ chain' = [chain EXCEPT ![d] = [@ EXCEPT ![i] = b]]
  BY TransmitChain
<1>2. chain'[d] = [chain[d] EXCEPT ![i] = b]
  BY <1>1 DEF TypeOK
<1>3. chain[d][i] \in Pbuf /\ chain[d][i].retry \in 0..MaxRetries
  BY QueuedPbuf
<1>4. b.dg = chain[d][i].dg /\ b.frag = chain[d][i].frag
      /\ b.frags = chain[d][i].frags /\ b.sent = chain[d][i].sent
  BY <1>3 DEF Pbuf
<1>6. b.retry >= chain[d][i].retry
  <2>1. b.retry = Attempts(chain[d][i])
    BY <1>3 DEF Pbuf
  <2> QED
    BY <1>3, <2>1, LimitsAssumption DEF Attempts
<1>5. ~chain[d][i].sent
  <2>1. chain[d][i].retry < MaxRetries /\ Stops(chain[d][i])
    BY DEF Transmit, IsFirstStop
  <2> QED
    BY <1>3, <2>1, LimitsAssumption DEF Stops
<1> HIDE DEF b
<1> QED
  BY <1>1, <1>2, <1>4, <1>5, <1>6 DEF Changes, Id

LEMMA MarkQueue ==
  ASSUME TypeOK, NEW d \in Dest, NEW i \in DOMAIN chain[d],
         chain' = [chain EXCEPT ![d] = [@ EXCEPT ![i].sent = TRUE]],
         FrameOf(d, chain[d][i]) \in aired, MoreFrag(chain[d][i])
  PROVE  Changes(d)
<1> DEFINE b == [chain[d][i] EXCEPT !.sent = TRUE]
<1>1. b \in Pbuf /\ chain' = [chain EXCEPT ![d] = [@ EXCEPT ![i] = b]]
  BY MarkChain
<1>2. chain'[d] = [chain[d] EXCEPT ![i] = b]
  BY <1>1 DEF TypeOK
<1>3. chain[d][i] \in Pbuf /\ chain[d][i].retry \in 0..MaxRetries
  BY QueuedPbuf
<1>4. b.dg = chain[d][i].dg /\ b.frag = chain[d][i].frag
      /\ b.frags = chain[d][i].frags
      /\ b.retry = chain[d][i].retry /\ b.sent
  BY <1>3 DEF Pbuf
<1>5. b.retry >= chain[d][i].retry
  BY <1>3, <1>4
<1> HIDE DEF b
<1> QED
  BY <1>1, <1>2, <1>4, <1>5 DEF Changes, Id

LEMMA MarkedQueue ==
  ASSUME TypeOK, NEW f \in aired, MarkFragment(f)
  PROVE  Changes(f.dest)
<1>1. f.dest \in Dest
  BY DEF TypeOK, Frame
<1>2. PICK i \in SameSeq(f.dest, f) :
        /\ FrameOf(f.dest, chain[f.dest][i]) = f
        /\ chain' = [chain EXCEPT ![f.dest] = [@ EXCEPT ![i].sent = TRUE]]
  BY DEF MarkFragment
<1>3. i \in DOMAIN chain[f.dest] /\ MoreFrag(chain[f.dest][i])
  BY <1>2 DEF SameSeq, MarkFragment, FrameOf
<1> QED
  BY <1>1, <1>2, <1>3, MarkQueue

LEMMA QueueSteps ==
  ASSUME TypeOK, [Next]_vars, NEW e \in Dest
  PROVE  QueueStep(e)
<1>1. CASE UNCHANGED vars
  BY <1>1 DEF vars, QueueStep
<1>2. ASSUME NEW d \in Dest, NEW k \in Kinds, Send(d, k)
      PROVE  QueueStep(e)
  <2>1. g_seqnum' = g_seqnum + 1
    BY <1>2 DEF Send
  <2>2. k.frags \in Nat /\ Len(chain[d]) \in Nat /\ MaxPbufs \in Nat
    BY NewChainType, QueuedPbuf, LimitsAssumption
  <2>3. ~Refused(k) => k.frags <= MaxPbufs
    BY <2>2 DEF Refused
  <2>4. CASE SendRefused(d, k)
    BY <2>4 DEF SendRefused, QueueStep
  <2>5. CASE SendToItem(d, k)
    <3>1. ~NoRoom(d, k) => k.frags + Len(chain[d]) <= MaxPbufs
      BY <2>2 DEF NoRoom
    <3> QED
      BY <2>1, <2>3, <2>5, <3>1 DEF SendToItem, QueueStep, Extends
  <2>6. ASSUME NEW mem \in BOOLEAN, SendNewItem(d, k, mem)
        PROVE  QueueStep(e)
    BY <2>1, <2>3, <2>6 DEF SendNewItem, QueueStep, Extends
  <2> QED
    BY <1>2, <2>4, <2>5, <2>6 DEF Send
<1>3. CASE OldAgeTmr
  BY <1>3 DEF OldAgeTmr, QueueStep
<1>4. CASE OutputTmr
  <2>1. ASSUME NEW d \in Range(oput_msg_list), NEW i \in DOMAIN chain[d],
               IsFirstStop(d, i), Transmit(d, i)
        PROVE  QueueStep(e)
    <3>1. d \in Dest
      BY PickedItem
    <3>2. e # d => chain'[e] = chain[e]
      BY <2>1 DEF Transmit, TypeOK
    <3>3. Changes(d)
      BY <2>1, <3>1, TransmitQueue
    <3> QED
      BY <3>2, <3>3 DEF QueueStep
  <2>2. ASSUME NEW d \in Range(oput_msg_list), NEW i \in DOMAIN chain[d],
               GiveUp(d, i)
        PROVE  QueueStep(e)
    <3>1. d \in Dest
      BY PickedItem
    <3>2. e # d => chain'[e] = chain[e]
      BY <2>2 DEF GiveUp, TypeOK
    <3>3. chain'[d] = Keep(chain[d], DOMAIN chain[d] \ {i})
      BY <2>2, <3>1 DEF GiveUp, Unlink, TypeOK
    <3>4. DOMAIN chain[d] \ {i} \in SUBSET (DOMAIN chain[d])
      OBVIOUS
    <3> QED
      BY <3>2, <3>3, <3>4 DEF QueueStep, Shrinks
  <2>3. ASSUME NEW d \in Range(oput_msg_list), MoveOn(d)
        PROVE  QueueStep(e)
    BY <2>3 DEF MoveOn, QueueStep
  <2>4. CASE UNCHANGED <<g_curr_msg, chain, packets, live, aired>>
    BY <2>4 DEF QueueStep
  <2> QED
    BY <1>4, <2>1, <2>2, <2>3, <2>4 DEF OutputTmr
<1>5. ASSUME NEW f \in aired, RecvAck(f)
      PROVE  QueueStep(e)
  <2>1. f.dest \in Dest
    BY DEF TypeOK, Frame
  <2>2. e # f.dest => chain'[e] = chain[e]
    BY <1>5 DEF RecvAck, MarkFragment, ReleaseDatagram, TypeOK
  <2>3. CASE MarkFragment(f)
    BY <2>2, <2>3, MarkedQueue DEF QueueStep
  <2>4. CASE ReleaseDatagram(f)
    <3>1. PICK i \in SameSeq(f.dest, f) :
            chain' = [chain EXCEPT ![f.dest] =
                        Keep(@, DOMAIN @ \ {j \in SameSeq(f.dest, f) : j <= i})]
      BY <2>4 DEF ReleaseDatagram
    <3>2. chain'[f.dest] =
            Keep(chain[f.dest],
                 DOMAIN chain[f.dest] \ {j \in SameSeq(f.dest, f) : j <= i})
      BY <2>1, <3>1 DEF TypeOK
    <3>3. DOMAIN chain[f.dest] \ {j \in SameSeq(f.dest, f) : j <= i}
            \in SUBSET (DOMAIN chain[f.dest])
      OBVIOUS
    <3> QED
      BY <2>2, <3>2, <3>3 DEF QueueStep, Shrinks
  <2> QED
    BY <1>5, <2>3, <2>4 DEF RecvAck
<1> QED
  BY <1>1, <1>2, <1>3, <1>4, <1>5 DEF Next, Tick

-----------------------------------------------------------------------------
(***************************************************************************)
(* Bounds of the list and of the queues.                                   *)
(***************************************************************************)

LEMMA BoundsInit == Init => QueueBounds
<1> SUFFICES ASSUME Init PROVE QueueBounds
  OBVIOUS
<1>1. Len(<<>>) = 0
  OBVIOUS
<1> QED
  BY <1>1, LimitsAssumption DEF Init, QueueBounds

LEMMA QueueBound ==
  ASSUME TypeOK, QueueBounds, NEW d \in Dest, QueueStep(d)
  PROVE  Len(chain'[d]) <= MaxPbufs
<1>1. Len(chain[d]) <= MaxPbufs /\ Len(chain[d]) \in Nat /\ MaxPbufs \in Nat
  BY QueuedPbuf, LimitsAssumption DEF QueueBounds
<1>2. CASE chain'[d] = chain[d]
  BY <1>1, <1>2
<1>3. CASE chain'[d] = <<>>
  <2>1. Len(<<>>) = 0
    OBVIOUS
  <2> QED
    BY <1>1, <1>3, <2>1
<1>4. CASE Extends(d)
  <2>1. PICK k \in Kinds :
          /\ k.frags <= MaxPbufs
          /\ \/ chain'[d] = NewChain(k)
             \/ /\ chain'[d] = chain[d] \o NewChain(k)
                /\ k.frags + Len(chain[d]) <= MaxPbufs
    BY <1>4 DEF Extends
  <2>2. NewChain(k) \in Seq(Pbuf) /\ Len(NewChain(k)) = k.frags
        /\ k.frags \in Nat
    BY NewChainType
  <2>3. chain[d] \in Seq(Pbuf)
    BY QueuedPbuf
  <2>4. Len(chain[d] \o NewChain(k)) = Len(chain[d]) + k.frags
    BY <2>2, <2>3, ConcatProperties
  <2> QED
    BY <1>1, <2>1, <2>2, <2>4
<1>5. CASE Shrinks(d)
  <2>1. PICK K \in SUBSET (DOMAIN chain[d]) : chain'[d] = Keep(chain[d], K)
    BY <1>5 DEF Shrinks
  <2>2. /\ Keep(chain[d], K) \in Seq(Pbuf)
        /\ Len(Keep(chain[d], K)) <= Len(chain[d])
    BY QueuedPbuf, KeepProperties
  <2>3. Len(Keep(chain[d], K)) \in Nat
    BY <2>2, LenProperties
  <2> QED
    BY <1>1, <2>1, <2>2, <2>3
<1>6. CASE Changes(d)
  <2>1. PICK i \in DOMAIN chain[d], b \in Pbuf :
          chain'[d] = [chain[d] EXCEPT ![i] = b]
    BY <1>6 DEF Changes
  <2>2. Len([chain[d] EXCEPT ![i] = b]) = Len(chain[d])
    BY QueuedPbuf, ExceptSeq
  <2> QED
    BY <1>1, <2>1, <2>2
<1> QED
  BY <1>2, <1>3, <1>4, <1>5, <1>6 DEF QueueStep

LEMMA BoundsStep ==
  ASSUME TypeOK, QueueBounds, [Next]_vars
  PROVE  QueueBounds'
<1>1. \A d \in Dest : Len(chain'[d]) <= MaxPbufs
  BY QueueSteps, QueueBound
<1>2. Len(oput_msg_list) \in Nat /\ MaxItems \in Nat
  BY LenProperties, LimitsAssumption DEF TypeOK
<1>3. Len(oput_msg_list) <= MaxItems + 1
  BY DEF QueueBounds
<1>4. ASSUME NEW d \in Dest, NEW k \in Kinds, Send(d, k)
      PROVE  Len(oput_msg_list') <= MaxItems + 1
  <2>1. Searched(d) \in Seq(Dest) /\ Len(Searched(d)) <= Len(oput_msg_list)
    BY SearchedItems
  <2>2. Len(Searched(d)) \in Nat
    BY <2>1, LenProperties
  <2>3. CASE SendRefused(d, k)
    BY <1>3, <2>3 DEF SendRefused
  <2>4. CASE SendToItem(d, k)
    BY <1>2, <1>3, <2>1, <2>2, <2>4 DEF SendToItem
  <2>5. ASSUME NEW mem \in BOOLEAN, SendNewItem(d, k, mem)
        PROVE  Len(oput_msg_list') <= MaxItems + 1
    <3>1. Len(oput_msg_list) <= MaxItems
      BY <1>2, <2>5 DEF SendNewItem, Refused
    <3>2. Len(Append(Searched(d), d)) = Len(Searched(d)) + 1
      BY <2>1, AppendProperties
    <3> QED
      BY <1>2, <2>1, <2>2, <2>5, <3>1, <3>2 DEF SendNewItem
  <2> QED
    BY <1>4, <2>3, <2>4, <2>5 DEF Send
<1>5. CASE OldAgeTmr
  <2>1. /\ Keep(oput_msg_list, Young) \in Seq(Dest)
        /\ Len(Keep(oput_msg_list, Young)) <= Len(oput_msg_list)
    BY KeptItems DEF Young
  <2>2. Len(Keep(oput_msg_list, Young)) \in Nat
    BY <2>1, LenProperties
  <2> QED
    BY <1>1, <1>2, <1>3, <1>5, <2>1, <2>2 DEF OldAgeTmr, QueueBounds
<1>6. CASE OutputTmr
  BY <1>1, <1>3, <1>6 DEF OutputTmr, QueueBounds
<1>7. ASSUME NEW f \in aired, RecvAck(f)
      PROVE  QueueBounds'
  BY <1>1, <1>3, <1>7 DEF RecvAck, QueueBounds
<1>8. CASE UNCHANGED vars
  BY <1>1, <1>3, <1>8 DEF vars, QueueBounds
<1> QED
  BY <1>1, <1>4, <1>5, <1>6, <1>7, <1>8 DEF Next, Tick, QueueBounds

\* At most MaxItems + 1 items, and at most MaxPbufs pbufs on a queue.
THEOREM QueuesBounded == Spec => []QueueBounds
<1>1. Init => TypeOK /\ QueueBounds
  BY TypeInit, BoundsInit
<1>2. TypeOK /\ QueueBounds /\ [Next]_vars => (TypeOK /\ QueueBounds)'
  BY TypeStep, BoundsStep
<1> QED
  BY <1>1, <1>2, PTL DEF Spec

-----------------------------------------------------------------------------
(***************************************************************************)
(* Stop and wait.                                                          *)
(***************************************************************************)

QueueInOrder(s) ==
  \A i, j \in DOMAIN s : i < j /\ s[j].retry > 0 => s[i].sent

LEMMA QueueOrder ==
  ASSUME TypeOK, NEW d \in Dest, QueueInOrder(chain[d]), QueueStep(d)
  PROVE  QueueInOrder(chain'[d])
<1>1. /\ chain[d] \in Seq(Pbuf) /\ Len(chain[d]) \in Nat
      /\ DOMAIN chain[d] = 1..Len(chain[d])
      /\ \A i \in DOMAIN chain[d] : chain[d][i].retry \in 0..MaxRetries
  BY QueuedPbuf
<1>2. CASE chain'[d] = chain[d]
  BY <1>2
<1>3. CASE chain'[d] = <<>>
  BY <1>3 DEF QueueInOrder
<1>4. ASSUME NEW k \in Kinds, chain'[d] = NewChain(k)
      PROVE  QueueInOrder(chain'[d])
  <2>1. \A j \in DOMAIN NewChain(k) : ~(NewChain(k)[j].retry > 0)
    BY NewChainType
  <2> QED
    BY <1>4, <2>1 DEF QueueInOrder
<1>5. ASSUME NEW k \in Kinds, chain'[d] = chain[d] \o NewChain(k)
      PROVE  QueueInOrder(chain'[d])
  <2> DEFINE c == chain[d] \o NewChain(k)
             n == Len(chain[d])
  <2>1. /\ NewChain(k) \in Seq(Pbuf) /\ Len(NewChain(k)) = k.frags
        /\ k.frags \in Nat
        /\ \A i \in 1..k.frags : NewChain(k)[i].retry = 0
    BY NewChainType
  <2>2. /\ c \in Seq(Pbuf) /\ Len(c) = n + k.frags
        /\ \A i \in 1..(n + k.frags) :
             c[i] = IF i <= n THEN chain[d][i] ELSE NewChain(k)[i - n]
    <3>1. /\ c \in Seq(Pbuf) /\ Len(c) = n + Len(NewChain(k))
          /\ \A i \in 1..(n + Len(NewChain(k))) :
               c[i] = IF i <= n THEN chain[d][i] ELSE NewChain(k)[i - n]
      <4> HIDE DEF n
      <4>1. chain[d] \in Seq(Pbuf) /\ NewChain(k) \in Seq(Pbuf)
        BY <1>1, <2>1
      <4> QED
        BY <4>1, ConcatProperties, Zenon DEF n
    <3> QED
      BY <2>1, <3>1
  <2>3. DOMAIN c = 1..(n + k.frags)
    BY <2>2, LenProperties
  <2>4. ASSUME NEW i \in DOMAIN c, NEW j \in DOMAIN c, i < j, c[j].retry > 0
        PROVE  c[i].sent
    <3>1. CASE j <= n
      <4>1. i \in DOMAIN chain[d] /\ j \in DOMAIN chain[d]
        BY <1>1, <2>3, <2>4, <3>1
      <4>2. c[i] = chain[d][i] /\ c[j] = chain[d][j]
        BY <1>1, <2>2, <2>3, <2>4, <3>1, <4>1
      <4> QED
        BY <2>4, <4>1, <4>2 DEF QueueInOrder
    <3>2. CASE ~(j <= n)
      <4>1. j - n \in 1..k.frags
        BY <1>1, <2>1, <2>3, <3>2
      <4>2. c[j] = NewChain(k)[j - n]
        BY <2>2, <2>3, <3>2
      <4> QED
        BY <2>1, <2>4, <4>1, <4>2
    <3> QED
      BY <3>1, <3>2
  <2> QED
    BY <1>5, <2>4 DEF QueueInOrder
<1>6. ASSUME NEW K \in SUBSET (DOMAIN chain[d]), chain'[d] = Keep(chain[d], K)
      PROVE  QueueInOrder(chain'[d])
  <2>1. /\ \A i \in DOMAIN Keep(chain[d], K) :
             Nth(K, i) \in K /\ Keep(chain[d], K)[i] = chain[d][Nth(K, i)]
        /\ \A i, j \in DOMAIN Keep(chain[d], K) :
             i < j <=> Nth(K, i) < Nth(K, j)
    BY <1>1, KeepProperties
  <2>2. \A i \in DOMAIN Keep(chain[d], K) : Nth(K, i) \in DOMAIN chain[d]
    BY <2>1
  <2> QED
    BY <1>6, <2>1, <2>2 DEF QueueInOrder
<1>7. ASSUME NEW i \in DOMAIN chain[d], NEW b \in Pbuf,
             chain'[d] = [chain[d] EXCEPT ![i] = b],
             chain[d][i].sent => b.sent,
             \/ b.retry = chain[d][i].retry
             \/ IsFirstStop(d, i) /\ ~chain[d][i].sent
      PROVE  QueueInOrder(chain'[d])
  <2>1. DOMAIN chain'[d] = DOMAIN chain[d]
    BY <1>7
  <2>2. ASSUME NEW m \in DOMAIN chain[d], NEW j \in DOMAIN chain[d], m < j,
               chain'[d][j].retry > 0
        PROVE  chain'[d][m].sent
    <3>1. CASE j = i /\ IsFirstStop(d, i)
      <4>1. m \in 1..(i - 1)
        BY <1>1, <2>2, <3>1
      <4>2. chain[d][m].sent
        BY <3>1, <4>1 DEF IsFirstStop, Stops
      <4>3. m # i
        BY <1>1, <2>2, <3>1
      <4> QED
        BY <1>7, <4>2, <4>3
    <3>2. CASE j = i /\ ~IsFirstStop(d, i)
      <4>1. chain[d][j].retry > 0 /\ m # i
        BY <1>1, <1>7, <2>2, <3>2
      <4>2. chain[d][m].sent
        BY <2>2, <4>1 DEF QueueInOrder
      <4> QED
        BY <1>7, <4>1, <4>2
    <3>3. CASE j # i
      <4>1. chain[d][j].retry > 0
        BY <1>7, <2>2, <3>3
      <4>2. chain[d][m].sent
        BY <2>2, <4>1 DEF QueueInOrder
      <4> QED
        BY <1>7, <4>2
    <3> QED
      BY <3>1, <3>2, <3>3
  <2> QED
    BY <2>1, <2>2 DEF QueueInOrder
<1> QED
  BY <1>2, <1>3, <1>4, <1>5, <1>6, <1>7
  DEF QueueStep, Extends, Shrinks, Changes

LEMMA OrderStep == TypeOK /\ InOrder /\ [Next]_vars => InOrder'
<1> SUFFICES ASSUME TypeOK, InOrder, [Next]_vars, NEW d \in Dest
             PROVE  QueueInOrder(chain'[d])
  BY DEF InOrder, QueueInOrder
<1>1. QueueInOrder(chain[d])
  BY DEF InOrder, QueueInOrder
<1> QED
  BY <1>1, QueueSteps, QueueOrder

\* A pbuf is transmitted only when every pbuf before it on its queue is
\* acknowledged.
THEOREM StopAndWait == Spec => []InOrder
<1>1. Init => TypeOK /\ InOrder
  <2>1. Init => InOrder
    BY DEF Init, InOrder
  <2> QED
    BY <2>1, TypeInit
<1>2. TypeOK /\ InOrder /\ [Next]_vars => (TypeOK /\ InOrder)'
  BY TypeStep, OrderStep
<1> QED
  BY <1>1, <1>2, PTL DEF Spec

-----------------------------------------------------------------------------
(***************************************************************************)
(* Queued pbufs are allocated and linked once.                             *)
(***************************************************************************)

\* What makes NoDanglingPbuf inductive: a queued datagram is older than the
\* next one, so the pbufs of a new chain are new.
Fresh ==
  \A d \in Dest : \A id \in Ids(chain[d]) : id[1] \in Nat /\ id[1] < g_seqnum

Distinct(s) == \A i, j \in DOMAIN s : Id(s[i]) = Id(s[j]) => i = j

HeapInv == NoDanglingPbuf /\ Fresh

LEMMA KeepIds ==
  ASSUME NEW S, NEW s \in Seq(S), Distinct(s), NEW K \in SUBSET (DOMAIN s)
  PROVE  /\ Distinct(Keep(s, K))
         /\ Ids(Keep(s, K)) = {Id(s[k]) : k \in K}
         /\ \A j \in DOMAIN s \ K : Id(s[j]) \notin Ids(Keep(s, K))
<1>1. /\ DOMAIN Keep(s, K) = 1..Cardinality(K)
      /\ \A i \in DOMAIN Keep(s, K) :
           Nth(K, i) \in K /\ Keep(s, K)[i] = s[Nth(K, i)]
      /\ \A k \in K : \E i \in DOMAIN Keep(s, K) : Nth(K, i) = k
      /\ \A i, j \in DOMAIN Keep(s, K) : i < j <=> Nth(K, i) < Nth(K, j)
  BY KeepProperties
<1>2. Ids(Keep(s, K)) = {Id(s[k]) : k \in K}
  <2>1. \A x \in Ids(Keep(s, K)) : x \in {Id(s[k]) : k \in K}
    BY <1>1 DEF Ids
  <2>2. \A k \in K : Id(s[k]) \in Ids(Keep(s, K))
    BY <1>1 DEF Ids
  <2> QED
    BY <2>1, <2>2
<1>3. Distinct(Keep(s, K))
  <2>1. SUFFICES ASSUME NEW i \in DOMAIN Keep(s, K),
                        NEW j \in DOMAIN Keep(s, K),
                        Id(Keep(s, K)[i]) = Id(Keep(s, K)[j])
                 PROVE  i = j
    BY DEF Distinct
  <2>2. Nth(K, i) = Nth(K, j)
    BY <1>1, <2>1 DEF Distinct
  <2>3. Nth(K, i) \in DOMAIN s /\ DOMAIN s = 1..Len(s) /\ Len(s) \in Nat
    BY <1>1, LenProperties
  <2>4. ~(i < j) /\ ~(j < i)
    BY <1>1, <2>2, <2>3
  <2>5. i \in 1..Cardinality(K) /\ j \in 1..Cardinality(K)
    BY <1>1
  <2> QED
    BY <2>4, <2>5
<1>4. \A j \in DOMAIN s \ K : Id(s[j]) \notin Ids(Keep(s, K))
  BY <1>2 DEF Distinct
<1> QED
  BY <1>2, <1>3, <1>4

\* A new chain mounted behind a queue.
LEMMA MountedChain ==
  ASSUME TypeOK, NEW d \in Dest, NEW k \in Kinds
  PROVE  LET c == chain[d] \o NewChain(k)
             n == Len(chain[d])
         IN  /\ n \in Nat /\ k.frags \in Nat
             /\ DOMAIN chain[d] = 1..n
             /\ DOMAIN c = 1..(n + k.frags)
             /\ \A i \in DOMAIN c : i <= n => c[i] = chain[d][i]
             /\ \A i \in DOMAIN c : ~(i <= n) =>
                  i - n \in 1..k.frags /\ c[i] = NewChain(k)[i - n]
<1> DEFINE c == chain[d] \o NewChain(k)
           n == Len(chain[d])
<1>1. /\ chain[d] \in Seq(Pbuf) /\ n \in Nat /\ DOMAIN chain[d] = 1..n
  BY QueuedPbuf
<1>2. /\ NewChain(k) \in Seq(Pbuf) /\ Len(NewChain(k)) = k.frags
      /\ k.frags \in Nat
  BY NewChainType
<1>3. /\ c \in Seq(Pbuf) /\ Len(c) = n + Len(NewChain(k))
      /\ \A i \in 1..(n + Len(NewChain(k))) :
           c[i] = IF i <= n THEN chain[d][i] ELSE NewChain(k)[i - n]
  BY <1>1, <1>2, ConcatProperties, Zenon
<1>4. DOMAIN c = 1..(n + k.frags)
  BY <1>2, <1>3, LenProperties
<1>5. \A i \in DOMAIN c : ~(i <= n) => i - n \in 1..k.frags
  BY <1>1, <1>2, <1>4
<1> HIDE DEF c, n
<1> QED
  BY <1>1, <1>2, <1>3, <1>4, <1>5 DEF c, n

LEMMA NewIds ==
  ASSUME TypeOK, NEW k \in Kinds
  PROVE  /\ Distinct(NewChain(k))
         /\ \A id \in Ids(NewChain(k)) : id[1] = g_seqnum
<1>1. \A i \in DOMAIN NewChain(k) :
        NewChain(k)[i].dg = g_seqnum /\ NewChain(k)[i].frag = i
  BY NewChainType
<1> QED
  BY <1>1 DEF Distinct, Ids, Id

LEMMA OldIds ==
  ASSUME TypeOK, Fresh, NEW d \in Dest
  PROVE  \A id \in Ids(chain[d]) : id[1] # g_seqnum
BY DEF Fresh, TypeOK

\* A step links no pbuf twice on a queue, and links only pbufs of the queue or
\* of the new datagram.
LEMMA QueueIds ==
  ASSUME TypeOK, HeapInv, NEW d \in Dest, QueueStep(d)
  PROVE  /\ Distinct(chain'[d])
         /\ \/ Ids(chain'[d]) \subseteq Ids(chain[d])
            \/ /\ g_seqnum' = g_seqnum + 1
               /\ \E k \in Kinds :
                    Ids(chain'[d]) \subseteq Ids(chain[d]) \cup Ids(NewChain(k))
<1>1. Distinct(chain[d])
  BY DEF HeapInv, NoDanglingPbuf, Distinct
<1>2. CASE chain'[d] = chain[d]
  BY <1>1, <1>2
<1>3. CASE chain'[d] = <<>>
  BY <1>3 DEF Distinct, Ids
<1>4. ASSUME NEW k \in Kinds, chain'[d] = NewChain(k)
      PROVE  /\ Distinct(chain'[d])
             /\ Ids(chain'[d]) \subseteq Ids(chain[d]) \cup Ids(NewChain(k))
  BY <1>4, NewIds
<1>5. ASSUME NEW k \in Kinds, chain'[d] = chain[d] \o NewChain(k)
      PROVE  /\ Distinct(chain'[d])
             /\ Ids(chain'[d]) \subseteq Ids(chain[d]) \cup Ids(NewChain(k))
  <2> DEFINE c == chain[d] \o NewChain(k)
             n == Len(chain[d])
  <2>1. /\ n \in Nat /\ k.frags \in Nat
        /\ DOMAIN chain[d] = 1..n
        /\ DOMAIN c = 1..(n + k.frags)
        /\ \A i \in DOMAIN c : i <= n => c[i] = chain[d][i]
        /\ \A i \in DOMAIN c : ~(i <= n) =>
             i - n \in 1..k.frags /\ c[i] = NewChain(k)[i - n]
    BY MountedChain
  <2> HIDE DEF c, n
  <2>2. DOMAIN NewChain(k) = 1..k.frags
    BY NewChainType
  <2>3. \A i \in DOMAIN c : i <= n => Id(c[i]) \in Ids(chain[d])
    BY <2>1 DEF Ids
  <2>4. \A i \in DOMAIN c : ~(i <= n) => Id(c[i]) \in Ids(NewChain(k))
    BY <2>1, <2>2 DEF Ids
  <2>5. Distinct(c)
    <3>1. SUFFICES ASSUME NEW i \in DOMAIN c, NEW j \in DOMAIN c,
                          Id(c[i]) = Id(c[j])
                   PROVE  i = j
      BY DEF Distinct
    <3>2. CASE i <= n /\ j <= n
      BY <1>1, <2>1, <3>1, <3>2 DEF Distinct
    <3>3. CASE ~(i <= n) /\ ~(j <= n)
      <4>1. i - n = j - n
        BY <2>1, <2>2, <3>1, <3>3, NewIds DEF Distinct
      <4> QED
        BY <2>1, <4>1
    <3>4. CASE ~(i <= n <=> j <= n)
      BY <2>3, <2>4, <3>1, <3>4, NewIds, OldIds DEF HeapInv
    <3> QED
      BY <3>2, <3>3, <3>4
  <2>6. Ids(c) \subseteq Ids(chain[d]) \cup Ids(NewChain(k))
    <3>1. \A i \in DOMAIN c : Id(c[i]) \in Ids(chain[d]) \cup Ids(NewChain(k))
      BY <2>3, <2>4
    <3> QED
      BY <3>1 DEF Ids
  <2> QED
    BY <1>5, <2>5, <2>6 DEF c
<1>6. ASSUME NEW K \in SUBSET (DOMAIN chain[d]), chain'[d] = Keep(chain[d], K)
      PROVE  Distinct(chain'[d]) /\ Ids(chain'[d]) \subseteq Ids(chain[d])
  <2>1. /\ Distinct(Keep(chain[d], K))
        /\ Ids(Keep(chain[d], K)) = {Id(chain[d][k]) : k \in K}
    BY <1>1, QueuedPbuf, KeepIds
  <2> QED
    BY <1>6, <2>1 DEF Ids
<1>7. ASSUME NEW i \in DOMAIN chain[d], NEW b \in Pbuf,
             chain'[d] = [chain[d] EXCEPT ![i] = b], Id(b) = Id(chain[d][i])
      PROVE  Distinct(chain'[d]) /\ Ids(chain'[d]) \subseteq Ids(chain[d])
  <2>1. /\ DOMAIN chain'[d] = DOMAIN chain[d]
        /\ \A j \in DOMAIN chain[d] : Id(chain'[d][j]) = Id(chain[d][j])
    BY <1>7
  <2> QED
    BY <1>1, <2>1 DEF Distinct, Ids
<1> QED
  BY <1>2, <1>3, <1>4, <1>5, <1>6, <1>7
  DEF QueueStep, Extends, Shrinks, Changes

\* Linking only what was linked, or what is new, keeps the queues apart.
LEMMA QueuesApart ==
  ASSUME TypeOK, HeapInv, NEW d \in Dest, NEW k \in Kinds,
         \A e \in Dest \ {d} : Ids(chain'[e]) \subseteq Ids(chain[e]),
         \/ Ids(chain'[d]) \subseteq Ids(chain[d])
         \/ /\ Ids(chain'[d]) \subseteq Ids(chain[d]) \cup Ids(NewChain(k))
            /\ g_seqnum' = g_seqnum + 1,
         g_seqnum' \in {g_seqnum, g_seqnum + 1}
  PROVE  /\ \A e, x \in Dest : e # x => Ids(chain'[e]) \cap Ids(chain'[x]) = {}
         /\ Fresh'
<1>1. \A e, x \in Dest : e # x => Ids(chain[e]) \cap Ids(chain[x]) = {}
  BY DEF HeapInv, NoDanglingPbuf
<1>2. /\ \A e \in Dest : \A id \in Ids(chain[e]) :
           id[1] \in Nat /\ id[1] < g_seqnum
      /\ \A id \in Ids(NewChain(k)) : id[1] = g_seqnum
      /\ g_seqnum \in Nat
  BY NewIds DEF HeapInv, Fresh, TypeOK
<1>3. \A e \in Dest : Ids(chain[e]) \cap Ids(NewChain(k)) = {}
  BY <1>2
<1>4. \A e, x \in Dest : e # x => Ids(chain'[e]) \cap Ids(chain'[x]) = {}
  <2>1. SUFFICES ASSUME NEW e \in Dest, NEW x \in Dest, e # x
                 PROVE  Ids(chain'[e]) \cap Ids(chain'[x]) = {}
    OBVIOUS
  <2>2. CASE e # d /\ x # d
    BY <1>1, <2>1, <2>2
  <2>3. CASE e = d
    BY <1>1, <1>3, <2>1, <2>3
  <2>4. CASE x = d
    BY <1>1, <1>3, <2>1, <2>4
  <2> QED
    BY <2>2, <2>3, <2>4
<1>5. Fresh'
  <2>1. SUFFICES ASSUME NEW e \in Dest, NEW id \in Ids(chain'[e])
                 PROVE  id[1] \in Nat /\ id[1] < g_seqnum'
    BY DEF Fresh
  <2>2. CASE id \in Ids(chain[e])
    BY <1>2, <2>2
  <2>3. CASE id \notin Ids(chain[e])
    <3>1. id \in Ids(NewChain(k)) /\ g_seqnum' = g_seqnum + 1
      BY <2>3
    <3> QED
      BY <1>2, <3>1
  <2> QED
    BY <2>2, <2>3
<1> QED
  BY <1>4, <1>5

\* The case of the steps that mount nothing.
LEMMA QueuesShrinkApart ==
  ASSUME TypeOK, HeapInv, g_seqnum' = g_seqnum,
         \A e \in Dest : Ids(chain'[e]) \subseteq Ids(chain[e])
  PROVE  /\ \A e, x \in Dest : e # x => Ids(chain'[e]) \cap Ids(chain'[x]) = {}
         /\ Fresh'
<1>1. \A e, x \in Dest : e # x => Ids(chain[e]) \cap Ids(chain[x]) = {}
  BY DEF HeapInv, NoDanglingPbuf
<1>2. \A e, x \in Dest : e # x => Ids(chain'[e]) \cap Ids(chain'[x]) = {}
  BY <1>1
<1>3. Fresh'
  BY DEF HeapInv, Fresh
<1> QED
  BY <1>2, <1>3

\* What the removal of items frees is linked on no other item.
LEMMA FreedElsewhere ==
  ASSUME TypeOK, HeapInv, NEW D \in SUBSET Dest, NEW e \in Dest \ D
  PROVE  Ids(chain[e]) \subseteq live \ FreedWith(D)
<1>1. \A x \in D : Ids(chain[e]) \cap Ids(chain[x]) = {}
  BY DEF HeapInv, NoDanglingPbuf
<1>2. Ids(chain[e]) \cap FreedWith(D) = {}
  BY <1>1 DEF FreedWith
<1>3. Ids(chain[e]) \subseteq live
  BY DEF HeapInv, NoDanglingPbuf
<1> QED
  BY <1>2, <1>3

LEMMA HeapSend ==
  ASSUME TypeOK, HeapInv, NEW d \in Dest, NEW k \in Kinds, Send(d, k)
  PROVE  /\ \A e \in Dest : Ids(chain'[e]) \subseteq live'
         /\ \A e \in Dest \ {d} : Ids(chain'[e]) \subseteq Ids(chain[e])
         /\ Ids(chain'[d]) \subseteq Ids(chain[d]) \cup Ids(NewChain(k))
<1>1. Ids(<<>>) = {}
  BY DEF Ids
<1>2. Evicted(d) \in SUBSET Dest
  BY RangeOfSeq DEF Evicted, TypeOK
<1>3. \A e \in Dest : Ids(chain[e]) \subseteq live
  BY DEF HeapInv, NoDanglingPbuf
<1>4. \A e \in Dest \ Evicted(d) :
        Ids(chain[e]) \subseteq live \ FreedWith(Evicted(d))
  BY <1>2, FreedElsewhere
<1>5. CASE SendRefused(d, k)
  BY <1>3, <1>5 DEF SendRefused
<1>6. CASE SendToItem(d, k)
  <2>1. d \notin Evicted(d)
    BY <1>6, SearchedItems DEF SendToItem, HasItem, Evicted
  <2>2. live' = (live \ FreedWith(Evicted(d))) \cup Retained(d, k)
    BY <1>6 DEF SendToItem
  <2>3. \A e \in Dest \ {d} :
          chain'[e] = IF e \in Evicted(d) THEN <<>> ELSE chain[e]
    BY <1>6 DEF SendToItem
  <2>4. \A e \in Dest \ {d} : /\ Ids(chain'[e]) \subseteq Ids(chain[e])
                              /\ Ids(chain'[e]) \subseteq live'
    BY <1>1, <1>4, <2>2, <2>3
  <2>5. CASE NoRoom(d, k) \/ SeqOverlap(d)
    <3>1. chain'[d] = chain[d]
      BY <1>6, <2>1, <2>5 DEF SendToItem
    <3> QED
      BY <1>4, <2>1, <2>2, <2>4, <3>1
  <2>6. CASE ~NoRoom(d, k) /\ ~SeqOverlap(d)
    <3>1. chain'[d] = chain[d] \o NewChain(k)
      BY <1>6, <2>1, <2>6 DEF SendToItem
    <3>2. Retained(d, k) = Ids(NewChain(k))
      BY <2>6 DEF Retained
    <3>3. Ids(chain[d] \o NewChain(k))
            \subseteq Ids(chain[d]) \cup Ids(NewChain(k))
      <4> DEFINE c == chain[d] \o NewChain(k)
                 n == Len(chain[d])
      <4>1. /\ n \in Nat /\ DOMAIN chain[d] = 1..n
            /\ DOMAIN c = 1..(n + k.frags)
            /\ \A i \in DOMAIN c : i <= n => c[i] = chain[d][i]
            /\ \A i \in DOMAIN c : ~(i <= n) =>
                 i - n \in 1..k.frags /\ c[i] = NewChain(k)[i - n]
        BY MountedChain
      <4>2. DOMAIN NewChain(k) = 1..k.frags /\ k.frags \in Nat
        BY NewChainType
      <4> HIDE DEF c, n
      <4>3. \A i \in DOMAIN c : i <= n => Id(c[i]) \in Ids(chain[d])
        BY <4>1, <4>2 DEF Ids
      <4>4. \A i \in DOMAIN c : ~(i <= n) => Id(c[i]) \in Ids(NewChain(k))
        BY <4>1, <4>2 DEF Ids
      <4>5. \A i \in DOMAIN c :
              Id(c[i]) \in Ids(chain[d]) \cup Ids(NewChain(k))
        BY <4>3, <4>4
      <4>6. Ids(c) \subseteq Ids(chain[d]) \cup Ids(NewChain(k))
        BY <4>5 DEF Ids
      <4> QED
        BY <4>6 DEF c
    <3> QED
      BY <1>4, <2>1, <2>2, <2>4, <3>1, <3>2, <3>3
  <2> QED
    BY <2>5, <2>6
<1>7. ASSUME NEW mem \in BOOLEAN, SendNewItem(d, k, mem)
      PROVE  /\ \A e \in Dest : Ids(chain'[e]) \subseteq live'
             /\ \A e \in Dest \ {d} : Ids(chain'[e]) \subseteq Ids(chain[e])
             /\ Ids(chain'[d]) \subseteq Ids(chain[d]) \cup Ids(NewChain(k))
  <2>1. live' = (live \ FreedWith(Evicted(d)))
                  \cup (IF mem THEN Ids(NewChain(k)) ELSE {})
    BY <1>7 DEF SendNewItem
  <2>2. \A e \in Dest : chain'[e] = IF mem /\ e = d THEN NewChain(k)
                                    ELSE IF e \in Evicted(d) THEN <<>>
                                    ELSE chain[e]
    BY <1>7 DEF SendNewItem
  <2>3. \A e \in Dest : ~(mem /\ e = d) =>
          /\ Ids(chain'[e]) \subseteq Ids(chain[e])
          /\ Ids(chain'[e]) \subseteq live'
    BY <1>1, <1>4, <2>1, <2>2
  <2>4. mem => /\ Ids(chain'[d]) \subseteq live'
               /\ Ids(chain'[d]) = Ids(NewChain(k))
    BY <2>1, <2>2
  <2> QED
    BY <2>3, <2>4
<1> QED
  BY <1>5, <1>6, <1>7 DEF Send

LEMMA HeapOldAge ==
  ASSUME TypeOK, HeapInv, OldAgeTmr
  PROVE  \A e \in Dest : /\ Ids(chain'[e]) \subseteq live'
                         /\ Ids(chain'[e]) \subseteq Ids(chain[e])
<1> DEFINE gone == Range(oput_msg_list) \ Range(Keep(oput_msg_list, Young))
<1>1. Ids(<<>>) = {}
  BY DEF Ids
<1>2. gone \in SUBSET Dest
  BY RangeOfSeq DEF TypeOK
<1>3. \A e \in Dest \ gone : Ids(chain[e]) \subseteq live \ FreedWith(gone)
  BY <1>2, FreedElsewhere
<1>4. /\ live' = live \ FreedWith(gone)
      /\ \A e \in Dest : chain'[e] = IF e \in gone THEN <<>> ELSE chain[e]
  BY DEF OldAgeTmr
<1> QED
  BY <1>1, <1>3, <1>4

\* Unlinking positions G of one queue and freeing their pbufs.
LEMMA HeapRelease ==
  ASSUME TypeOK, HeapInv, NEW d \in Dest, NEW G \in SUBSET (DOMAIN chain[d]),
         chain' = [chain EXCEPT ![d] = Keep(@, DOMAIN @ \ G)],
         live' = live \ {Id(chain[d][j]) : j \in G}
  PROVE  \A e \in Dest : /\ Ids(chain'[e]) \subseteq live'
                         /\ Ids(chain'[e]) \subseteq Ids(chain[e])
<1>1. /\ \A e \in Dest : Ids(chain[e]) \subseteq live
      /\ \A e \in Dest \ {d} : Ids(chain[e]) \cap Ids(chain[d]) = {}
      /\ Distinct(chain[d])
  BY DEF HeapInv, NoDanglingPbuf, Distinct
<1>2. /\ chain'[d] = Keep(chain[d], DOMAIN chain[d] \ G)
      /\ \A e \in Dest \ {d} : chain'[e] = chain[e]
  BY DEF TypeOK
<1>3. {Id(chain[d][j]) : j \in G} \subseteq Ids(chain[d])
  BY DEF Ids
<1>4. /\ Ids(chain'[d]) = {Id(chain[d][j]) : j \in DOMAIN chain[d] \ G}
      /\ \A j \in G : Id(chain[d][j]) \notin Ids(chain'[d])
  <2> DEFINE K == DOMAIN chain[d] \ G
  <2>1. K \in SUBSET (DOMAIN chain[d]) /\ chain[d] \in Seq(Pbuf)
    BY QueuedPbuf
  <2>2. \A j \in G : j \in DOMAIN chain[d] \ K
    OBVIOUS
  <2> HIDE DEF K
  <2>3. /\ Ids(Keep(chain[d], K)) = {Id(chain[d][k]) : k \in K}
        /\ \A j \in DOMAIN chain[d] \ K :
             Id(chain[d][j]) \notin Ids(Keep(chain[d], K))
    BY <1>1, <2>1, KeepIds
  <2>4. chain'[d] = Keep(chain[d], K)
    BY <1>2 DEF K
  <2>5. \A j \in G : Id(chain[d][j]) \notin Ids(chain'[d])
    BY <2>2, <2>3, <2>4
  <2>6. Ids(chain'[d]) = {Id(chain[d][k]) : k \in K}
    BY <2>3, <2>4
  <2> QED
    BY <2>5, <2>6 DEF K
<1>5. Ids(chain'[d]) \subseteq Ids(chain[d])
  BY <1>4 DEF Ids
<1>6. \A e \in Dest \ {d} : Ids(chain'[e]) \subseteq live'
  BY <1>1, <1>2, <1>3
<1>7. Ids(chain'[d]) \subseteq live'
  BY <1>1, <1>4, <1>5
<1> QED
  BY <1>2, <1>5, <1>6, <1>7

\* A pbuf that changes in place stays the same pbuf.
LEMMA HeapChange ==
  ASSUME TypeOK, HeapInv, NEW d \in Dest, Changes(d), live' = live,
         \A e \in Dest \ {d} : chain'[e] = chain[e]
  PROVE  \A e \in Dest : /\ Ids(chain'[e]) \subseteq live'
                         /\ Ids(chain'[e]) \subseteq Ids(chain[e])
<1>1. PICK i \in DOMAIN chain[d], b \in Pbuf :
        /\ chain'[d] = [chain[d] EXCEPT ![i] = b]
        /\ Id(b) = Id(chain[d][i])
  BY DEF Changes
<1>2. /\ DOMAIN chain'[d] = DOMAIN chain[d]
      /\ \A j \in DOMAIN chain[d] : Id(chain'[d][j]) = Id(chain[d][j])
  BY <1>1
<1>3. Ids(chain'[d]) \subseteq Ids(chain[d])
  BY <1>2 DEF Ids
<1> QED
  BY <1>3 DEF HeapInv, NoDanglingPbuf

LEMMA HeapOutput ==
  ASSUME TypeOK, HeapInv, OutputTmr
  PROVE  \A e \in Dest : /\ Ids(chain'[e]) \subseteq live'
                         /\ Ids(chain'[e]) \subseteq Ids(chain[e])
<1> DEFINE Goal == \A e \in Dest : /\ Ids(chain'[e]) \subseteq live'
                                   /\ Ids(chain'[e]) \subseteq Ids(chain[e])
<1>1. ASSUME NEW d \in Range(oput_msg_list), NEW i \in DOMAIN chain[d],
             IsFirstStop(d, i), Transmit(d, i)
      PROVE  Goal
  <2>1. d \in Dest
    BY PickedItem
  <2>2. Changes(d)
    BY <1>1, <2>1, TransmitQueue
  <2>3. live' = live /\ \A e \in Dest \ {d} : chain'[e] = chain[e]
    BY <1>1 DEF Transmit, TypeOK
  <2> QED
    BY <2>1, <2>2, <2>3, HeapChange
<1>2. ASSUME NEW d \in Range(oput_msg_list), NEW i \in DOMAIN chain[d],
             GiveUp(d, i)
      PROVE  Goal
  <2>1. d \in Dest /\ {i} \in SUBSET (DOMAIN chain[d])
    BY PickedItem
  <2>2. chain' = [chain EXCEPT ![d] = Keep(@, DOMAIN @ \ {i})]
    BY <1>2 DEF GiveUp, Unlink
  <2>3. live' = live \ {Id(chain[d][j]) : j \in {i}}
    BY <1>2 DEF GiveUp
  <2> QED
    BY <2>1, <2>2, <2>3, HeapRelease
<1>3. ASSUME NEW d \in Range(oput_msg_list), MoveOn(d)
      PROVE  Goal
  BY <1>3 DEF MoveOn, HeapInv, NoDanglingPbuf
<1>4. CASE UNCHANGED <<g_curr_msg, chain, packets, live, aired>>
  BY <1>4 DEF HeapInv, NoDanglingPbuf
<1>5. CASE g_curr_msg \notin Range(oput_msg_list)
  BY <1>4, <1>5 DEF OutputTmr
<1>6. CASE g_curr_msg \in Range(oput_msg_list)
  <2> DEFINE d == g_curr_msg
  <2>1. CASE MoveOn(d)
    BY <1>3, <1>6, <2>1
  <2>2. CASE ~MoveOn(d)
    <3>1. PICK i \in DOMAIN chain[d] :
            IsFirstStop(d, i) /\ (Transmit(d, i) \/ GiveUp(d, i))
      BY <1>6, <2>2 DEF OutputTmr
    <3> QED
      BY <1>1, <1>2, <1>6, <3>1
  <2> QED
    BY <2>1, <2>2
<1> QED
  BY <1>5, <1>6

LEMMA HeapAck ==
  ASSUME TypeOK, HeapInv, NEW f \in aired, RecvAck(f)
  PROVE  \A e \in Dest : /\ Ids(chain'[e]) \subseteq live'
                         /\ Ids(chain'[e]) \subseteq Ids(chain[e])
<1>1. f.dest \in Dest
  BY DEF TypeOK, Frame
<1>2. CASE MarkFragment(f)
  <2>1. live' = live /\ \A e \in Dest \ {f.dest} : chain'[e] = chain[e]
    BY <1>2 DEF MarkFragment, TypeOK
  <2>2. Changes(f.dest)
    BY <1>2, MarkedQueue
  <2> QED
    BY <1>1, <2>1, <2>2, HeapChange
<1>3. CASE ReleaseDatagram(f)
  <2>1. PICK i \in SameSeq(f.dest, f) :
          LET gone == {j \in SameSeq(f.dest, f) : j <= i}
          IN  /\ chain' = [chain EXCEPT ![f.dest] = Keep(@, DOMAIN @ \ gone)]
              /\ live' = live \ {Id(chain[f.dest][j]) : j \in gone}
    BY <1>3 DEF ReleaseDatagram
  <2>2. {j \in SameSeq(f.dest, f) : j <= i} \in SUBSET (DOMAIN chain[f.dest])
    BY DEF SameSeq
  <2> QED
    BY <1>1, <2>1, <2>2, HeapRelease
<1> QED
  BY <1>2, <1>3 DEF RecvAck

LEMMA HeapStep == TypeOK /\ HeapInv /\ [Next]_vars => HeapInv'
<1> SUFFICES ASSUME TypeOK, HeapInv, [Next]_vars PROVE HeapInv'
  OBVIOUS
<1>1. \A d \in Dest : Distinct(chain'[d])
  BY QueueSteps, QueueIds
<1>2. ASSUME NEW d \in Dest, NEW k \in Kinds, Send(d, k)
      PROVE  /\ \A e \in Dest : Ids(chain'[e]) \subseteq live'
             /\ \A e, x \in Dest :
                  e # x => Ids(chain'[e]) \cap Ids(chain'[x]) = {}
             /\ Fresh'
  <2>1. g_seqnum' = g_seqnum + 1
    BY <1>2 DEF Send
  <2> QED
    BY <1>2, <2>1, HeapSend, QueuesApart
<1>3. ASSUME \A e \in Dest : /\ Ids(chain'[e]) \subseteq live'
                             /\ Ids(chain'[e]) \subseteq Ids(chain[e]),
             g_seqnum' = g_seqnum
      PROVE  /\ \A e \in Dest : Ids(chain'[e]) \subseteq live'
             /\ \A e, x \in Dest :
                  e # x => Ids(chain'[e]) \cap Ids(chain'[x]) = {}
             /\ Fresh'
  BY <1>3, QueuesShrinkApart
<1>4. OldAgeTmr => g_seqnum' = g_seqnum
  BY DEF OldAgeTmr
<1>5. OutputTmr => g_seqnum' = g_seqnum
  BY DEF OutputTmr
<1>6. \A f : RecvAck(f) => g_seqnum' = g_seqnum
  BY DEF RecvAck
<1>7. CASE UNCHANGED vars
  BY <1>7 DEF vars, HeapInv, NoDanglingPbuf, Fresh
<1>8. CASE Next
  <2>1. /\ \A e \in Dest : Ids(chain'[e]) \subseteq live'
        /\ \A e, x \in Dest : e # x => Ids(chain'[e]) \cap Ids(chain'[x]) = {}
        /\ Fresh'
    BY <1>2, <1>3, <1>4, <1>5, <1>6, <1>8, HeapOldAge, HeapOutput, HeapAck
    DEF Next, Tick
  <2> QED
    BY <1>1, <2>1 DEF HeapInv, NoDanglingPbuf, Distinct
<1> QED
  BY <1>7, <1>8

\* No step frees a pbuf that stays linked, or links a pbuf a second time.
THEOREM NothingDangles == Spec => []NoDanglingPbuf
<1>1. Init => TypeOK /\ HeapInv
  <2>1. Init => HeapInv
    BY DEF Init, HeapInv, NoDanglingPbuf, Fresh, Ids
  <2> QED
    BY <2>1, TypeInit
<1>2. TypeOK /\ HeapInv /\ [Next]_vars => (TypeOK /\ HeapInv)'
  BY TypeStep, HeapStep
<1>3. TypeOK /\ HeapInv => NoDanglingPbuf
  BY DEF HeapInv
<1> QED
  BY <1>1, <1>2, <1>3, PTL DEF Spec

-----------------------------------------------------------------------------
(***************************************************************************)
(* What an acknowledgement releases.                                       *)
(***************************************************************************)

\* The fragments of a datagram are queued in their order.
QueueShape(s) ==
  /\ \A i \in DOMAIN s : s[i].frag <= s[i].frags
  /\ \A i, j \in DOMAIN s : i < j /\ s[i].dg = s[j].dg =>
       s[i].frag < s[j].frag /\ s[i].frags = s[j].frags

ShapeInv == \A d \in Dest : QueueShape(chain[d])

LEMMA ShapeOfQueue ==
  ASSUME TypeOK, Fresh, NEW d \in Dest, QueueShape(chain[d]), QueueStep(d)
  PROVE  QueueShape(chain'[d])
<1>1. /\ chain[d] \in Seq(Pbuf) /\ Len(chain[d]) \in Nat
      /\ DOMAIN chain[d] = 1..Len(chain[d])
      /\ \A i \in DOMAIN chain[d] : Id(chain[d][i]) \in Ids(chain[d])
  BY QueuedPbuf DEF Ids
<1>2. \A i \in DOMAIN chain[d] : chain[d][i].dg # g_seqnum
  BY <1>1, OldIds DEF Id
<1>3. CASE chain'[d] = chain[d]
  BY <1>3
<1>4. CASE chain'[d] = <<>>
  BY <1>4 DEF QueueShape
<1>5. ASSUME NEW k \in Kinds
      PROVE  QueueShape(NewChain(k))
  <2>1. /\ k.frags \in Nat /\ DOMAIN NewChain(k) = 1..k.frags
        /\ \A i \in 1..k.frags :
             NewChain(k)[i].frag = i /\ NewChain(k)[i].frags = k.frags
    BY NewChainType
  <2> QED
    BY <2>1 DEF QueueShape
<1>6. ASSUME NEW k \in Kinds, chain'[d] = chain[d] \o NewChain(k)
      PROVE  QueueShape(chain'[d])
  <2> DEFINE c == chain[d] \o NewChain(k)
             n == Len(chain[d])
  <2>1. /\ n \in Nat /\ k.frags \in Nat
        /\ DOMAIN chain[d] = 1..n
        /\ DOMAIN c = 1..(n + k.frags)
        /\ \A i \in DOMAIN c : i <= n => c[i] = chain[d][i]
        /\ \A i \in DOMAIN c : ~(i <= n) =>
             i - n \in 1..k.frags /\ c[i] = NewChain(k)[i - n]
    BY MountedChain
  <2>2. /\ DOMAIN NewChain(k) = 1..k.frags
        /\ \A i \in 1..k.frags : NewChain(k)[i].dg = g_seqnum
    BY NewChainType
  <2> HIDE DEF c, n
  <2>3. ASSUME NEW i \in DOMAIN c
        PROVE  c[i].frag <= c[i].frags
    <3>1. CASE i <= n
      BY <2>1, <3>1 DEF QueueShape
    <3>2. CASE ~(i <= n)
      BY <1>5, <2>1, <2>2, <3>2 DEF QueueShape
    <3> QED
      BY <3>1, <3>2
  <2>4. ASSUME NEW i \in DOMAIN c, NEW j \in DOMAIN c, i < j, c[i].dg = c[j].dg
        PROVE  c[i].frag < c[j].frag /\ c[i].frags = c[j].frags
    <3>1. CASE j <= n
      <4>1. i <= n /\ i \in DOMAIN chain[d] /\ j \in DOMAIN chain[d]
        BY <2>1, <2>4, <3>1
      <4> QED
        BY <2>1, <2>4, <3>1, <4>1 DEF QueueShape
    <3>2. CASE ~(j <= n) /\ i <= n
      <4>1. c[i].dg # g_seqnum /\ c[j].dg = g_seqnum
        BY <1>2, <2>1, <2>2, <3>2
      <4> QED
        BY <2>4, <4>1
    <3>3. CASE ~(i <= n)
      <4>1. ~(j <= n) /\ i - n < j - n
        BY <2>1, <2>4, <3>3
      <4>2. /\ i - n \in 1..k.frags /\ c[i] = NewChain(k)[i - n]
            /\ j - n \in 1..k.frags /\ c[j] = NewChain(k)[j - n]
        BY <2>1, <3>3, <4>1
      <4> DEFINE x == i - n
                 y == j - n
                 w == NewChain(k)
      <4>3. x \in DOMAIN w /\ y \in DOMAIN w /\ x < y /\ w[x].dg = w[y].dg
        BY <2>2, <4>1, <4>2
      <4>4. w[x].frag < w[y].frag /\ w[x].frags = w[y].frags
        <5> HIDE DEF x, y, w
        <5>1. QueueShape(w)
          BY <1>5 DEF w
        <5> QED
          BY <4>3, <5>1 DEF QueueShape
      <4> QED
        BY <4>2, <4>4
    <3> QED
      BY <3>1, <3>2, <3>3
  <2>5. QueueShape(c)
    BY <2>3, <2>4 DEF QueueShape
  <2> QED
    BY <1>6, <2>5 DEF c
<1>7. ASSUME NEW K \in SUBSET (DOMAIN chain[d]), chain'[d] = Keep(chain[d], K)
      PROVE  QueueShape(chain'[d])
  <2>1. /\ \A i \in DOMAIN Keep(chain[d], K) :
             Nth(K, i) \in K /\ Keep(chain[d], K)[i] = chain[d][Nth(K, i)]
        /\ \A i, j \in DOMAIN Keep(chain[d], K) :
             i < j <=> Nth(K, i) < Nth(K, j)
    BY <1>1, KeepProperties
  <2>2. \A i \in DOMAIN Keep(chain[d], K) : Nth(K, i) \in DOMAIN chain[d]
    BY <2>1
  <2> QED
    BY <1>7, <2>1, <2>2 DEF QueueShape
<1>8. ASSUME NEW i \in DOMAIN chain[d], NEW b \in Pbuf,
             chain'[d] = [chain[d] EXCEPT ![i] = b],
             b.dg = chain[d][i].dg, b.frag = chain[d][i].frag,
             b.frags = chain[d][i].frags
      PROVE  QueueShape(chain'[d])
  <2>1. /\ DOMAIN chain'[d] = DOMAIN chain[d]
        /\ \A j \in DOMAIN chain[d] :
             /\ chain'[d][j].dg = chain[d][j].dg
             /\ chain'[d][j].frag = chain[d][j].frag
             /\ chain'[d][j].frags = chain[d][j].frags
    BY <1>8
  <2> QED
    BY <2>1 DEF QueueShape
<1> QED
  BY <1>3, <1>4, <1>5, <1>6, <1>7, <1>8
  DEF QueueStep, Extends, Shrinks, Changes

\* An acknowledgement of the frame f may mark or release the pbuf b of d.
Answers(f, d, b) ==
  f.dest = d /\ f.seq = SeqNum(b) /\ (f.mf => f.frag = b.frag)

\* b was transmitted if it is acknowledged, or if an acknowledgement that may
\* still come would mark or release it.
Tried(d, b) ==
  /\ b.sent => b.retry > 0
  /\ \A f \in aired : Answers(f, d, b) => b.retry > 0

\* The frames in the air are of datagrams numbered so far.
AirInv ==
  g_seqnum <= SeqMod =>
    /\ \A f \in aired : f.seq < g_seqnum
    /\ \A d \in Dest : \A i \in DOMAIN chain[d] : Tried(d, chain[d][i])

\* Until numbers are reused, the sequence number is the number of the datagram.
LEMMA NumbersUnused ==
  ASSUME TypeOK, Fresh, g_seqnum <= SeqMod, NEW d \in Dest,
         NEW i \in DOMAIN chain[d]
  PROVE  SeqNum(chain[d][i]) = chain[d][i].dg /\ chain[d][i].dg < g_seqnum
<1>1. chain[d][i].dg \in Nat /\ chain[d][i].dg < g_seqnum
  <2>1. Id(chain[d][i]) \in Ids(chain[d])
    BY DEF Ids
  <2> QED
    BY <2>1 DEF Fresh, Id
<1>2. g_seqnum \in Nat /\ SeqMod \in Nat \ {0}
  BY LimitsAssumption DEF TypeOK
<1>3. \A n \in Nat : n < SeqMod => n % SeqMod = n
  BY <1>2
<1> QED
  BY <1>1, <1>2, <1>3 DEF SeqNum

\* Whatever happens to a queue, its pbufs have been transmitted where the frames
\* that are already in the air ask for it.
LEMMA TriedInQueue ==
  ASSUME TypeOK, NEW d \in Dest, QueueStep(d), g_seqnum' <= SeqMod,
         \A f \in aired : f.seq < g_seqnum,
         \A i \in DOMAIN chain[d] : Tried(d, chain[d][i])
  PROVE  \A i \in DOMAIN chain'[d] : Tried(d, chain'[d][i])
<1>1. /\ chain[d] \in Seq(Pbuf) /\ Len(chain[d]) \in Nat
      /\ DOMAIN chain[d] = 1..Len(chain[d])
      /\ \A i \in DOMAIN chain[d] : chain[d][i].retry \in 0..MaxRetries
  BY QueuedPbuf
<1>2. CASE chain'[d] = chain[d]
  BY <1>2
<1>3. CASE chain'[d] = <<>>
  BY <1>3
<1>4. ASSUME NEW k \in Kinds, g_seqnum' = g_seqnum + 1, NEW i \in 1..k.frags
      PROVE  Tried(d, NewChain(k)[i])
  <2>1. NewChain(k)[i].dg = g_seqnum /\ ~NewChain(k)[i].sent
    BY NewChainType
  <2>2. SeqNum(NewChain(k)[i]) = g_seqnum
    <3>1. g_seqnum \in Nat /\ SeqMod \in Nat \ {0} /\ g_seqnum < SeqMod
      BY <1>4, LimitsAssumption DEF TypeOK
    <3>2. g_seqnum % SeqMod = g_seqnum
      BY <3>1
    <3> QED
      BY <2>1, <3>2 DEF SeqNum
  <2>3. ASSUME NEW f \in aired PROVE ~Answers(f, d, NewChain(k)[i])
    <3>1. f.seq \in Nat /\ f.seq < g_seqnum /\ g_seqnum \in Nat
      BY DEF TypeOK, Frame
    <3> QED
      BY <2>2, <3>1 DEF Answers
  <2> QED
    BY <2>1, <2>3 DEF Tried
<1>5. ASSUME NEW k \in Kinds, g_seqnum' = g_seqnum + 1,
             \/ chain'[d] = NewChain(k)
             \/ chain'[d] = chain[d] \o NewChain(k)
      PROVE  \A i \in DOMAIN chain'[d] : Tried(d, chain'[d][i])
  <2>1. DOMAIN NewChain(k) = 1..k.frags
    BY NewChainType
  <2>2. CASE chain'[d] = NewChain(k)
    BY <1>4, <1>5, <2>1, <2>2
  <2>3. CASE chain'[d] = chain[d] \o NewChain(k)
    <3> DEFINE c == chain[d] \o NewChain(k)
               n == Len(chain[d])
    <3>1. /\ n \in Nat /\ k.frags \in Nat
          /\ DOMAIN chain[d] = 1..n
          /\ DOMAIN c = 1..(n + k.frags)
          /\ \A i \in DOMAIN c : i <= n => c[i] = chain[d][i]
          /\ \A i \in DOMAIN c : ~(i <= n) =>
               i - n \in 1..k.frags /\ c[i] = NewChain(k)[i - n]
      BY MountedChain
    <3> HIDE DEF c, n
    <3>2. ASSUME NEW i \in DOMAIN c PROVE Tried(d, c[i])
      <4>1. CASE i <= n
        BY <3>1, <4>1
      <4>2. CASE ~(i <= n)
        BY <1>4, <1>5, <3>1, <4>2
      <4> QED
        BY <4>1, <4>2
    <3> QED
      BY <2>3, <3>2 DEF c
  <2> QED
    BY <1>5, <2>2, <2>3
<1>6. ASSUME NEW K \in SUBSET (DOMAIN chain[d]), chain'[d] = Keep(chain[d], K)
      PROVE  \A i \in DOMAIN chain'[d] : Tried(d, chain'[d][i])
  <2>1. \A i \in DOMAIN Keep(chain[d], K) :
          Nth(K, i) \in K /\ Keep(chain[d], K)[i] = chain[d][Nth(K, i)]
    BY <1>1, KeepProperties
  <2> QED
    BY <1>6, <2>1
<1>7. ASSUME NEW i \in DOMAIN chain[d], NEW b \in Pbuf,
             chain'[d] = [chain[d] EXCEPT ![i] = b],
             b.dg = chain[d][i].dg, b.frag = chain[d][i].frag,
             b.retry >= chain[d][i].retry,
             b.sent => chain[d][i].sent \/ FrameOf(d, chain[d][i]) \in aired
      PROVE  \A j \in DOMAIN chain'[d] : Tried(d, chain'[d][j])
  <2> DEFINE o == chain[d][i]
  <2>1. b.retry \in Nat /\ o.retry \in Nat
    <3>1. b.retry \in 0..MaxRetries /\ o.retry \in 0..MaxRetries
      BY <1>1 DEF Pbuf
    <3> QED
      BY <3>1, LimitsAssumption
  <2>2. Tried(d, o) /\ SeqNum(b) = SeqNum(o)
    BY <1>7 DEF SeqNum
  <2>3. FrameOf(d, o) \in aired => o.retry > 0
    <3>1. Answers(FrameOf(d, o), d, o)
      BY DEF Answers, FrameOf
    <3> QED
      BY <2>2, <3>1 DEF Tried
  <2>4. b.sent => b.retry > 0
    <3>1. o.sent => o.retry > 0
      BY <2>2 DEF Tried
    <3> QED
      BY <1>7, <2>1, <2>3, <3>1
  <2>5. ASSUME NEW f \in aired, Answers(f, d, b) PROVE b.retry > 0
    <3>1. Answers(f, d, o)
      BY <1>7, <2>2, <2>5 DEF Answers
    <3> QED
      BY <1>7, <2>1, <2>2, <3>1 DEF Tried
  <2>6. Tried(d, b)
    BY <2>4, <2>5 DEF Tried
  <2> QED
    BY <1>7, <2>6
<1> QED
  BY <1>2, <1>3, <1>5, <1>6, <1>7
  DEF QueueStep, Extends, Shrinks, Changes

\* A transmission is a frame that is new in the air: its answer concerns pbufs
\* that were transmitted, since stop and wait sends a datagram's last fragment
\* only after the others.
LEMMA TransmittedIsTried ==
  ASSUME TypeOK, HeapInv, ShapeInv, AirInv, g_seqnum <= SeqMod,
         NEW d \in Dest, NEW i \in DOMAIN chain[d],
         IsFirstStop(d, i), Transmit(d, i),
         NEW e \in Dest, NEW j \in DOMAIN chain'[e],
         Answers(FrameOf(d, chain[d][i]), e, chain'[e][j])
  PROVE  chain'[e][j].retry > 0
<1> DEFINE b == chain[d][i]
           c == chain[d][j]
           n == [b EXCEPT !.retry = Attempts(b)]
           f == FrameOf(d, b)
<1>1. e = d
  BY DEF Answers, FrameOf
<1>2. n \in Pbuf /\ chain'[d] = [chain[d] EXCEPT ![i] = n]
  <2>1. /\ n \in Pbuf
        /\ chain' = [chain EXCEPT ![d] = [@ EXCEPT ![i] = n]]
    BY TransmitChain
  <2> HIDE DEF n
  <2> QED
    BY <2>1 DEF TypeOK
<1>3. /\ b \in Pbuf /\ b.retry \in 0..MaxRetries
      /\ DOMAIN chain[d] = 1..Len(chain[d])
  BY QueuedPbuf
<1>4. CASE j = i
  <2>1. n.retry = Attempts(b)
    BY <1>3 DEF Pbuf
  <2>2. Attempts(b) > 0
    BY <1>3, LimitsAssumption DEF Attempts
  <2>3. chain'[e][j] = n
    BY <1>1, <1>2, <1>4
  <2> HIDE DEF n
  <2> QED
    BY <2>1, <2>2, <2>3
<1>5. CASE j # i
  <2>1. j \in DOMAIN chain[d] /\ chain'[e][j] = c
    BY <1>1, <1>2, <1>5
  <2>2. Answers(f, d, c)
    BY <1>1, <2>1
  <2>3. c.dg = b.dg
    <3>1. SeqNum(c) = SeqNum(b)
      BY <2>2 DEF Answers, FrameOf
    <3> QED
      BY <2>1, <3>1, NumbersUnused DEF HeapInv
  <2>4. Tried(d, c)
    BY <2>1 DEF AirInv
  <2>5. CASE f.mf
    <3>1. c.frag = b.frag
      BY <2>2, <2>5 DEF Answers, FrameOf
    <3>2. Id(c) = Id(b)
      BY <2>3, <3>1 DEF Id
    <3> QED
      BY <1>5, <2>1, <3>2 DEF HeapInv, NoDanglingPbuf
  <2>6. CASE ~f.mf
    <3>1. ~(b.frag < b.frags)
      BY <2>6 DEF FrameOf, MoreFrag
    <3>2. CASE j < i
      <4>1. j \in 1..(i - 1)
        BY <1>3, <2>1, <3>2
      <4>2. c.sent
        BY <4>1 DEF IsFirstStop, Stops
      <4> QED
        BY <2>1, <2>4, <4>2 DEF Tried
    <3>3. CASE i < j
      <4>1. b.frag < c.frag /\ c.frags = b.frags /\ c.frag <= c.frags
        BY <2>1, <2>3, <3>3 DEF ShapeInv, QueueShape
      <4>2. /\ b.frag \in Nat /\ c.frag \in Nat
            /\ b.frags \in Nat /\ c.frags \in Nat
        BY <1>3, <2>1, QueuedPbuf DEF Pbuf
      <4> QED
        BY <3>1, <4>1, <4>2
    <3> QED
      BY <1>3, <1>5, <2>1, <3>2, <3>3
  <2> QED
    BY <2>5, <2>6
<1> QED
  BY <1>4, <1>5

LEMMA AirStep ==
  ASSUME TypeOK, HeapInv, ShapeInv, AirInv, [Next]_vars
  PROVE  AirInv'
<1> SUFFICES ASSUME g_seqnum' <= SeqMod
             PROVE  /\ \A f \in aired' : f.seq < g_seqnum'
                    /\ \A d \in Dest : \A i \in DOMAIN chain'[d] :
                         Tried(d, chain[d][i])'
  BY DEF AirInv
<1>1. /\ g_seqnum \in Nat /\ SeqMod \in Nat
      /\ g_seqnum' \in {g_seqnum, g_seqnum + 1}
  BY LimitsAssumption
  DEF TypeOK, Next, Tick, Send, OldAgeTmr, OutputTmr, RecvAck, vars
<1>2. g_seqnum <= SeqMod
  BY <1>1
<1>3. /\ \A f \in aired : f.seq < g_seqnum /\ f.seq \in Nat
      /\ \A d \in Dest : \A i \in DOMAIN chain[d] : Tried(d, chain[d][i])
  BY <1>2 DEF AirInv, TypeOK, Frame
<1>4. \A d \in Dest : \A i \in DOMAIN chain'[d] : Tried(d, chain'[d][i])
  BY <1>3, QueueSteps, TriedInQueue
<1>5. \A f \in aired : f.seq < g_seqnum'
  BY <1>1, <1>3
<1>6. CASE aired' = aired
  BY <1>4, <1>5, <1>6 DEF Tried
<1>7. ASSUME NEW d \in Range(oput_msg_list), NEW i \in DOMAIN chain[d],
             IsFirstStop(d, i), Transmit(d, i), aired' # aired
      PROVE  /\ \A f \in aired' : f.seq < g_seqnum'
             /\ \A e \in Dest : \A j \in DOMAIN chain'[e] :
                  Tried(e, chain[e][j])'
  <2> DEFINE f == FrameOf(d, chain[d][i])
  <2>1. d \in Dest /\ aired' = aired \cup {f}
    BY <1>7, PickedItem DEF Transmit
  <2>2. f.seq < g_seqnum'
    <3>1. f.seq = chain[d][i].dg /\ chain[d][i].dg < g_seqnum
      BY <1>2, <2>1, NumbersUnused DEF FrameOf, HeapInv
    <3>2. chain[d][i].dg \in Nat
      BY <2>1, QueuedPbuf
    <3> QED
      BY <1>1, <3>1, <3>2
  <2>3. ASSUME NEW e \in Dest, NEW j \in DOMAIN chain'[e]
        PROVE  Tried(e, chain[e][j])'
    <3>1. Answers(f, e, chain'[e][j]) => chain'[e][j].retry > 0
      BY <1>2, <1>7, <2>1, TransmittedIsTried
    <3>2. Tried(e, chain'[e][j])
      BY <1>4
    <3> HIDE DEF f
    <3> QED
      BY <2>1, <3>1, <3>2 DEF Tried
  <2> QED
    BY <1>5, <2>1, <2>2, <2>3
<1>8. CASE aired' # aired
  <2>1. OutputTmr
    BY <1>8 DEF Next, Tick, Send, OldAgeTmr, RecvAck, vars
  <2>2. PICK d \in Range(oput_msg_list) :
          \E i \in DOMAIN chain[d] : IsFirstStop(d, i) /\ Transmit(d, i)
    BY <1>8, <2>1 DEF OutputTmr, GiveUp, MoveOn
  <2>3. PICK i \in DOMAIN chain[d] : IsFirstStop(d, i) /\ Transmit(d, i)
    BY <2>2
  <2> QED
    BY <1>7, <1>8, <2>3
<1> QED
  BY <1>6, <1>8

AckSafe == HeapInv /\ ShapeInv /\ AirInv

LEMMA AckSafeInvariant == Spec => [](TypeOK /\ AckSafe)
<1>1. Init => TypeOK /\ AckSafe
  <2>1. Init => HeapInv /\ ShapeInv /\ AirInv
    BY DEF Init, HeapInv, NoDanglingPbuf, Fresh, Ids, ShapeInv, QueueShape, AirInv
  <2> QED
    BY <2>1, TypeInit DEF AckSafe
<1>2. TypeOK /\ AckSafe /\ [Next]_vars => (TypeOK /\ AckSafe)'
  <2>1. SUFFICES ASSUME TypeOK, AckSafe, [Next]_vars PROVE TypeOK' /\ AckSafe'
    OBVIOUS
  <2>2. TypeOK' /\ HeapInv'
    BY <2>1, TypeStep, HeapStep DEF AckSafe
  <2>3. ShapeInv'
    BY <2>1, QueueSteps, ShapeOfQueue DEF AckSafe, ShapeInv, HeapInv
  <2>4. AirInv'
    BY <2>1, AirStep DEF AckSafe
  <2> QED
    BY <2>2, <2>3, <2>4 DEF AckSafe
<1> QED
  BY <1>1, <1>2, PTL DEF Spec

\* What an acknowledgement takes off a queue is of the datagram it is for.
LEMMA ReleasedIsAnswered ==
  ASSUME TypeOK, HeapInv, NEW f \in aired, RecvAck(f),
         NEW d \in Dest, NEW i \in DOMAIN chain[d],
         Id(chain[d][i]) \notin Ids(chain'[d])
  PROVE  Answers(f, d, chain[d][i])
<1>1. f.dest \in Dest
  BY DEF TypeOK, Frame
<1>2. Id(chain[d][i]) \in Ids(chain[d])
  BY DEF Ids
<1>3. d = f.dest
  <2>1. d # f.dest => chain'[d] = chain[d]
    BY DEF RecvAck, MarkFragment, ReleaseDatagram, TypeOK
  <2> QED
    BY <1>2, <2>1
<1>4. ~MarkFragment(f)
  <2>1. SUFFICES ASSUME MarkFragment(f) PROVE FALSE
    OBVIOUS
  <2>2. Changes(d)
    BY <1>3, <2>1, MarkedQueue
  <2>3. DOMAIN chain'[d] = DOMAIN chain[d] /\ Id(chain'[d][i]) = Id(chain[d][i])
    BY <2>2 DEF Changes
  <2> QED
    BY <2>3 DEF Ids
<1>5. ReleaseDatagram(f)
  BY <1>4 DEF RecvAck
<1>6. PICK m \in SameSeq(d, f) :
        chain' = [chain EXCEPT ![d] =
                    Keep(@, DOMAIN @ \ {j \in SameSeq(d, f) : j <= m})]
  BY <1>3, <1>5 DEF ReleaseDatagram
<1> DEFINE K == DOMAIN chain[d] \ {j \in SameSeq(d, f) : j <= m}
<1>7. chain'[d] = Keep(chain[d], K)
  BY <1>6 DEF TypeOK
<1>8. i \notin K
  <2>1. K \in SUBSET (DOMAIN chain[d]) /\ chain[d] \in Seq(Pbuf)
        /\ Distinct(chain[d])
    BY QueuedPbuf DEF HeapInv, NoDanglingPbuf, Distinct
  <2> HIDE DEF K
  <2>2. Ids(Keep(chain[d], K)) = {Id(chain[d][k]) : k \in K}
    BY <2>1, KeepIds
  <2> QED
    BY <1>7, <2>2
<1>9. SeqNum(chain[d][i]) = f.seq
  BY <1>8 DEF SameSeq
<1> QED
  BY <1>3, <1>5, <1>9 DEF Answers, ReleaseDatagram

\* Until sequence numbers are reused, a late or repeated acknowledgement releases
\* no pbuf that was not transmitted, fragments included, even when the loop of
\* packet_recv_ack_move reads the flag of a header it has freed.
THEOREM OnlyTransmittedReleased == Spec => AckReleasesTransmitted
<1> DEFINE Released ==
             \A d \in Dest : \A i \in DOMAIN chain[d] :
               /\ g_seqnum <= SeqMod
               /\ \E f \in aired : RecvAck(f)
               /\ Id(chain[d][i]) \notin Ids(chain'[d])
               => chain[d][i].retry > 0
<1>1. TypeOK /\ AckSafe /\ [Next]_vars => [Released]_vars
  <2>1. SUFFICES ASSUME TypeOK, AckSafe, NEW d \in Dest, NEW i \in DOMAIN chain[d],
                        g_seqnum <= SeqMod, NEW f \in aired, RecvAck(f),
                        Id(chain[d][i]) \notin Ids(chain'[d])
                 PROVE  chain[d][i].retry > 0
    OBVIOUS
  <2>2. Answers(f, d, chain[d][i])
    BY <2>1, ReleasedIsAnswered DEF AckSafe
  <2>3. Tried(d, chain[d][i])
    BY <2>1 DEF AckSafe, AirInv
  <2> QED
    BY <2>2, <2>3 DEF Tried
<1>2. AckReleasesTransmitted <=> [][Released]_vars
  BY DEF AckReleasesTransmitted
<1> HIDE DEF Released
<1> QED
  BY <1>1, <1>2, AckSafeInvariant, PTL DEF Spec

-----------------------------------------------------------------------------
(***************************************************************************)
(* Datagrams of one pbuf: the packet counter is right, and nothing leaks.  *)
(***************************************************************************)

\* No datagram is cut, and a full queue can be counted in a uint8_t.
Unfragmented == (\A k \in Kinds : k.frags = 1) /\ MaxPbufs < ByteMod

\* A pbuf that is a whole datagram: it is acknowledged by its release, and so
\* never marked.
Whole(b) == b.frag = 1 /\ b.frags = 1 /\ ~b.sent

OnePbufEach == \A d \in Dest : \A i \in DOMAIN chain[d] : Whole(chain[d][i])

LengthsCounted == \A d \in Dest : packets[d] = Len(chain[d])

LEMMA FirstFragments ==
  ASSUME TypeOK, Unfragmented, OnePbufEach, [Next]_vars
  PROVE  OnePbufEach'
<1> SUFFICES ASSUME NEW d \in Dest
             PROVE  \A i \in DOMAIN chain'[d] : Whole(chain'[d][i])
  BY DEF OnePbufEach
<1>1. /\ chain[d] \in Seq(Pbuf)
      /\ \A i \in DOMAIN chain[d] : Whole(chain[d][i])
  BY QueuedPbuf DEF OnePbufEach
<1>2. ASSUME NEW k \in Kinds
      PROVE  /\ DOMAIN NewChain(k) = 1..k.frags /\ k.frags \in Nat
             /\ \A i \in 1..k.frags : Whole(NewChain(k)[i])
  <2>1. k.frags = 1 /\ DOMAIN NewChain(k) = 1..k.frags
        /\ \A i \in 1..k.frags :
             /\ NewChain(k)[i].frag = i /\ NewChain(k)[i].frags = k.frags
             /\ ~NewChain(k)[i].sent
    BY NewChainType DEF Unfragmented
  <2>2. \A i \in 1..1 : i = 1
    OBVIOUS
  <2> QED
    BY <2>1, <2>2 DEF Whole
<1>3. CASE chain'[d] = chain[d] \/ chain'[d] = <<>>
  BY <1>1, <1>3
<1>4. CASE Extends(d)
  <2>1. PICK k \in Kinds : \/ chain'[d] = NewChain(k)
                           \/ chain'[d] = chain[d] \o NewChain(k)
    BY <1>4 DEF Extends
  <2>2. CASE chain'[d] = NewChain(k)
    BY <1>2, <2>2
  <2>3. CASE chain'[d] = chain[d] \o NewChain(k)
    <3> DEFINE c == chain[d] \o NewChain(k)
               n == Len(chain[d])
    <3>1. /\ DOMAIN chain[d] = 1..n
          /\ n \in Nat
          /\ DOMAIN c = 1..(n + k.frags)
          /\ \A i \in DOMAIN c : i <= n => c[i] = chain[d][i]
          /\ \A i \in DOMAIN c : ~(i <= n) =>
               i - n \in 1..k.frags /\ c[i] = NewChain(k)[i - n]
      BY MountedChain
    <3> HIDE DEF c, n
    <3>2. ASSUME NEW i \in DOMAIN c PROVE Whole(c[i])
      <4>1. CASE i <= n
        <5>1. i \in DOMAIN chain[d]
          BY <1>2, <3>1, <4>1
        <5> QED
          BY <1>1, <3>1, <4>1, <5>1
      <4>2. CASE ~(i <= n)
        BY <1>2, <3>1, <4>2
      <4> QED
        BY <4>1, <4>2
    <3> QED
      BY <2>3, <3>2 DEF c
  <2> QED
    BY <2>1, <2>2, <2>3
<1>5. CASE Shrinks(d)
  <2>1. PICK K \in SUBSET (DOMAIN chain[d]) : chain'[d] = Keep(chain[d], K)
    BY <1>5 DEF Shrinks
  <2>2. \A i \in DOMAIN Keep(chain[d], K) :
          Nth(K, i) \in K /\ Keep(chain[d], K)[i] = chain[d][Nth(K, i)]
    BY <1>1, KeepProperties
  <2> QED
    BY <1>1, <2>1, <2>2
<1>6. CASE Changes(d)
  <2>1. PICK i \in DOMAIN chain[d], b \in Pbuf :
          /\ chain'[d] = [chain[d] EXCEPT ![i] = b]
          /\ b.frag = chain[d][i].frag /\ b.frags = chain[d][i].frags
          /\ b.sent => chain[d][i].sent \/ MoreFrag(chain[d][i])
    BY <1>6 DEF Changes
  <2>2. Whole(b)
    BY <1>1, <2>1 DEF Whole, MoreFrag
  <2> QED
    BY <1>1, <2>1, <2>2
<1> QED
  BY <1>3, <1>4, <1>5, <1>6, QueueSteps DEF QueueStep

\* How many pbufs are left after those at the positions G are unlinked.
LEMMA UnlinkedCount ==
  ASSUME TypeOK, NEW d \in Dest, NEW G \in SUBSET (DOMAIN chain[d])
  PROVE  /\ Cardinality(G) \in Nat
         /\ Cardinality(G) <= Len(chain[d])
         /\ Len(Keep(chain[d], DOMAIN chain[d] \ G))
              = Len(chain[d]) - Cardinality(G)
<1> DEFINE n == Len(chain[d])
           K == DOMAIN chain[d] \ G
<1>1. chain[d] \in Seq(Pbuf) /\ n \in Nat /\ DOMAIN chain[d] = 1..n
  BY QueuedPbuf
<1>2. IsFiniteSet(1..n) /\ Cardinality(1..n) = n
  <2>1. n \in Nat
    BY <1>1
  <2> HIDE DEF n
  <2>2. /\ IsFiniteSet(1..n)
        /\ Cardinality(1..n) = IF 1 > n THEN 0 ELSE n - 1 + 1
    BY <2>1, FS_Interval
  <2> QED
    BY <2>1, <2>2
<1>3. /\ Cardinality(G) \in Nat /\ IsFiniteSet(G) /\ Cardinality(G) <= n
  BY <1>1, <1>2, FS_Subset, FS_CardinalityType
<1>4. Cardinality(K) = n - Cardinality(G)
  <2>1. Cardinality((1..n) \ G) = n - Cardinality((1..n) \cap G)
    BY <1>2, <1>3, FS_Difference
  <2>2. (1..n) \cap G = G
    BY <1>1
  <2> QED
    BY <1>1, <2>1, <2>2
<1>5. Len(Keep(chain[d], K)) = Cardinality(K)
  <2>1. K \in SUBSET (DOMAIN chain[d])
    OBVIOUS
  <2> QED
    BY <1>1, <2>1, KeepProperties
<1> QED
  BY <1>3, <1>4, <1>5

LEMMA DecrIsMinus ==
  ASSUME NEW n \in 0..(ByteMod - 1), NEW k \in Nat, k <= n
  PROVE  Decr(n, k) = n - k
<1>1. n \in 0..255 /\ k \in 0..n
  BY DEF ByteMod
<1>2. n - k \in 0..255 /\ (n + 256) - k = 256 + (n - k)
  BY <1>1
<1>3. \A m \in 0..255 : (256 + m) % 256 = m
  OBVIOUS
<1>4. ((n + 256) - k) % 256 = n - k
  BY <1>2, <1>3
<1> QED
  BY <1>4 DEF Decr, ByteMod

\* Mounting adds the pbufs of the new chain to the queue.
LEMMA MountedIds ==
  ASSUME TypeOK, NEW d \in Dest, NEW k \in Kinds
  PROVE  Ids(chain[d] \o NewChain(k)) = Ids(chain[d]) \cup Ids(NewChain(k))
<1> DEFINE c == chain[d] \o NewChain(k)
           n == Len(chain[d])
<1>1. /\ n \in Nat /\ k.frags \in Nat /\ DOMAIN chain[d] = 1..n
      /\ DOMAIN c = 1..(n + k.frags)
      /\ \A i \in DOMAIN c : i <= n => c[i] = chain[d][i]
      /\ \A i \in DOMAIN c : ~(i <= n) =>
           i - n \in 1..k.frags /\ c[i] = NewChain(k)[i - n]
  BY MountedChain
<1>2. DOMAIN NewChain(k) = 1..k.frags
  BY NewChainType
<1> HIDE DEF c, n
<1>3. ASSUME NEW i \in DOMAIN c
      PROVE  Id(c[i]) \in Ids(chain[d]) \cup Ids(NewChain(k))
  BY <1>1, <1>2 DEF Ids
<1>4. ASSUME NEW i \in DOMAIN chain[d] PROVE Id(chain[d][i]) \in Ids(c)
  <2>1. i \in DOMAIN c /\ i <= n
    BY <1>1
  <2> QED
    BY <1>1, <2>1 DEF Ids
<1>5. ASSUME NEW i \in DOMAIN NewChain(k) PROVE Id(NewChain(k)[i]) \in Ids(c)
  <2>1. n + i \in DOMAIN c /\ ~(n + i <= n) /\ (n + i) - n = i
    BY <1>1, <1>2
  <2>2. c[n + i] = NewChain(k)[i]
    BY <1>1, <2>1
  <2> QED
    BY <2>1, <2>2 DEF Ids
<1>6. \A x \in Ids(c) : x \in Ids(chain[d]) \cup Ids(NewChain(k))
  BY <1>3 DEF Ids
<1>7. \A x \in Ids(chain[d]) \cup Ids(NewChain(k)) : x \in Ids(c)
  <2>1. \A x \in Ids(chain[d]) : x \in Ids(c)
    BY <1>4, Zenon DEF Ids
  <2>2. \A x \in Ids(NewChain(k)) : x \in Ids(c)
    BY <1>5, Zenon DEF Ids
  <2> QED
    BY <2>1, <2>2
<1> QED
  BY <1>6, <1>7 DEF c

\* An item with pbufs has a counter that is not 0: all it holds is freed.
LEMMA FreedWhenCounted ==
  ASSUME TypeOK, LengthsCounted, NEW D \in SUBSET Dest
  PROVE  FreedWith(D) = UNION {Ids(chain[d]) : d \in D}
<1>1. ASSUME NEW d \in D, packets[d] = 0 PROVE Ids(chain[d]) = {}
  <2>1. Len(chain[d]) = 0 /\ DOMAIN chain[d] = 1..Len(chain[d])
    BY <1>1, QueuedPbuf DEF LengthsCounted
  <2>2. DOMAIN chain[d] = {}
    BY <2>1
  <2> QED
    BY <2>2 DEF Ids
<1> QED
  BY <1>1 DEF FreedWith

\* What a send does to the queues and to the counters.
LEMMA SendCounted ==
  ASSUME TypeOK, Unfragmented, LengthsCounted, NoResidue,
         NEW d \in Dest, NEW k \in Kinds, Send(d, k)
  PROVE  /\ LengthsCounted'
         /\ (NoLeak /\ Fresh /\ g_seqnum' <= SeqMod
               => live' \subseteq UNION {Ids(chain'[e]) : e \in Dest})
<1> DEFINE D == Evicted(d)
<1>1. D \in SUBSET Dest /\ D \subseteq Range(oput_msg_list)
  BY RangeOfSeq DEF Evicted, TypeOK
<1>2. /\ k.frags = 1 /\ NewChain(k) \in Seq(Pbuf) /\ Len(NewChain(k)) = 1
      /\ MaxPbufs \in Nat /\ MaxPbufs < 256
  BY NewChainType, LimitsAssumption DEF Unfragmented, ByteMod
<1>3. \A e \in Dest : packets[e] = Len(chain[e])
  BY DEF LengthsCounted
<1>4. Len(<<>>) = 0
  OBVIOUS
<1>5. /\ FreedWith(D) = UNION {Ids(chain[e]) : e \in D}
      /\ NoLeak => live = UNION {Ids(chain[e]) : e \in Dest}
  BY <1>1, FreedWhenCounted DEF NoLeak
<1>6. CASE SendRefused(d, k)
  <2>1. chain' = chain /\ packets' = packets /\ live' = live
    BY <1>6 DEF SendRefused
  <2> QED
    BY <1>3, <1>5, <2>1 DEF LengthsCounted
<1>7. CASE SendToItem(d, k)
  <2>1. d \notin D
    BY <1>7, SearchedItems DEF SendToItem, HasItem, Evicted
  <2>2. live' = (live \ FreedWith(D)) \cup Retained(d, k)
    BY <1>7 DEF SendToItem
  <2>3. \A e \in Dest \ {d} :
          /\ chain'[e] = IF e \in D THEN <<>> ELSE chain[e]
          /\ packets'[e] = IF e \in D THEN 0 ELSE packets[e]
    BY <1>7 DEF SendToItem
  <2>4. \A e \in Dest \ {d} : packets'[e] = Len(chain'[e])
    BY <1>3, <1>4, <2>3
  <2>5. CASE NoRoom(d, k) \/ SeqOverlap(d)
    <3>1. chain'[d] = chain[d] /\ packets'[d] = packets[d]
      BY <1>7, <2>1, <2>5 DEF SendToItem
    <3>2. LengthsCounted'
      BY <1>3, <2>4, <3>1 DEF LengthsCounted
    <3>3. ASSUME NoLeak, Fresh, g_seqnum' <= SeqMod
          PROVE  live' \subseteq UNION {Ids(chain'[e]) : e \in Dest}
      <4>1. ~SeqOverlap(d)
        <5>1. g_seqnum \in Nat /\ SeqMod \in Nat \ {0} /\ g_seqnum < SeqMod
          <6>1. g_seqnum' = g_seqnum + 1
            BY DEF Send
          <6> QED
            BY <3>3, <6>1, LimitsAssumption DEF TypeOK
        <5>2. g_seqnum % SeqMod = g_seqnum /\ g_seqnum <= SeqMod
          BY <5>1
        <5>3. \A i \in DOMAIN chain[d] : SeqNum(chain[d][i]) < g_seqnum
          <6>1. \A i \in DOMAIN chain[d] :
                  /\ SeqNum(chain[d][i]) = chain[d][i].dg
                  /\ chain[d][i].dg < g_seqnum
            BY <3>3, <5>2, NumbersUnused
          <6> QED
            BY <6>1
        <5>4. ~(g_seqnum < g_seqnum)
          BY <5>1
        <5> QED
          BY <5>2, <5>3, <5>4 DEF SeqOverlap
      <4>2. Retained(d, k) = {}
        BY <2>5, <4>1 DEF Retained
      <4>3. ASSUME NEW x \in live'
            PROVE  \E e \in Dest : x \in Ids(chain'[e])
        <5>1. x \in live /\ x \notin FreedWith(D)
          BY <2>2, <4>2, <4>3
        <5>2. PICK e \in Dest : x \in Ids(chain[e])
          BY <1>5, <3>3, <5>1
        <5>3. e \notin D
          BY <1>5, <5>1, <5>2
        <5>4. chain'[e] = chain[e]
          BY <2>3, <3>1, <5>3
        <5> QED
          BY <5>2, <5>4
      <4> QED
        BY <4>3
    <3> QED
      BY <3>2, <3>3
  <2>6. CASE ~NoRoom(d, k) /\ ~SeqOverlap(d)
    <3>1. /\ chain'[d] = chain[d] \o NewChain(k)
          /\ packets'[d] = (packets[d] + 1) % 256
      <4> DEFINE mounted == ~NoRoom(d, k) /\ ~SeqOverlap(d)
      <4>1. mounted
        BY <2>6
      <4>2. /\ chain' = [e \in Dest |->
                           IF e \in Evicted(d) THEN <<>>
                           ELSE IF e = d /\ mounted
                                THEN chain[d] \o NewChain(k)
                           ELSE chain[e]]
            /\ packets' = [e \in Dest |->
                             IF e \in Evicted(d) THEN 0
                             ELSE IF e = d /\ mounted
                                  THEN (packets[d] + 1) % 256
                             ELSE packets[e]]
        BY <1>7 DEF SendToItem, ByteMod
      <4> HIDE DEF mounted
      <4> QED
        BY <2>1, <4>1, <4>2
    <3>2. Retained(d, k) = Ids(NewChain(k))
      BY <2>6 DEF Retained
    <3>3. /\ Len(chain[d] \o NewChain(k)) = Len(chain[d]) + 1
          /\ Len(chain[d]) \in Nat
      <4>1. chain[d] \in Seq(Pbuf) /\ Len(chain[d]) \in Nat
        BY QueuedPbuf
      <4>2. NewChain(k) \in Seq(Pbuf) /\ Len(NewChain(k)) = 1
        BY <1>2
      <4>3. Len(chain[d] \o NewChain(k)) = Len(chain[d]) + Len(NewChain(k))
        BY <4>1, <4>2, ConcatProperties
      <4> QED
        BY <4>1, <4>2, <4>3
    <3>4. packets'[d] = Len(chain'[d])
      <4>1. Len(chain[d]) + 1 < 256
        BY <1>2, <2>6, <3>3 DEF NoRoom
      <4>2. packets[d] = Len(chain[d])
        BY <1>3
      <4>3. \A n \in 0..255 : n % 256 = n
        OBVIOUS
      <4>4. packets[d] + 1 \in 0..255
        <5>1. \A n \in Nat : n + 1 < 256 => n + 1 \in 0..255
          OBVIOUS
        <5>2. packets[d] \in Nat /\ packets[d] + 1 < 256
          BY <3>3, <4>1, <4>2
        <5> QED
          BY <5>1, <5>2
      <4>5. packets'[d] = packets[d] + 1
        BY <3>1, <4>3, <4>4
      <4> QED
        BY <3>1, <3>3, <4>2, <4>5
    <3>5. LengthsCounted'
      BY <2>4, <3>4 DEF LengthsCounted
    <3>6. Ids(chain'[d]) = Ids(chain[d]) \cup Ids(NewChain(k))
      BY <3>1, MountedIds
    <3>7. ASSUME NoLeak, NEW x \in live'
          PROVE  \E e \in Dest : x \in Ids(chain'[e])
      <4>1. CASE x \in Ids(NewChain(k))
        BY <3>6, <4>1
      <4>2. CASE x \in live /\ x \notin FreedWith(D)
        <5>1. PICK e \in Dest : x \in Ids(chain[e])
          BY <1>5, <3>7, <4>2
        <5>2. e \notin D
          BY <1>5, <4>2, <5>1
        <5>3. e # d => chain'[e] = chain[e]
          BY <2>3, <5>2
        <5> QED
          BY <3>6, <5>1, <5>3
      <4> QED
        BY <2>2, <3>2, <3>7, <4>1, <4>2
    <3> QED
      BY <3>5, <3>7
  <2> QED
    BY <2>5, <2>6
<1>8. ASSUME NEW mem \in BOOLEAN, SendNewItem(d, k, mem)
      PROVE  /\ LengthsCounted'
             /\ NoLeak => live' \subseteq UNION {Ids(chain'[e]) : e \in Dest}
  <2>1. live' = (live \ FreedWith(D)) \cup (IF mem THEN Ids(NewChain(k)) ELSE {})
    BY <1>8 DEF SendNewItem
  <2>2. \A e \in Dest :
          /\ chain'[e] = IF mem /\ e = d THEN NewChain(k)
                         ELSE IF e \in D THEN <<>> ELSE chain[e]
          /\ packets'[e] = IF mem /\ e = d THEN 1
                           ELSE IF e \in D THEN 0 ELSE packets[e]
    BY <1>8 DEF SendNewItem
  <2>3. LengthsCounted'
    BY <1>2, <1>3, <1>4, <2>2 DEF LengthsCounted
  <2>4. Ids(chain[d]) = {}
    <3>1. chain[d] = <<>>
      BY <1>8 DEF SendNewItem, HasItem, NoResidue
    <3> QED
      BY <3>1 DEF Ids
  <2>5. ASSUME NoLeak, NEW x \in live'
        PROVE  \E e \in Dest : x \in Ids(chain'[e])
    <3>1. CASE mem /\ x \in Ids(NewChain(k))
      BY <2>2, <3>1
    <3>2. CASE x \in live \ FreedWith(D)
      <4>1. PICK e \in Dest : x \in Ids(chain[e])
        BY <1>5, <2>5, <3>2
      <4>2. e \notin D /\ e # d
        BY <1>5, <2>4, <3>2, <4>1
      <4> QED
        BY <2>2, <4>1, <4>2
    <3> QED
      BY <2>1, <2>5, <3>1, <3>2
  <2> QED
    BY <2>3, <2>5
<1> QED
  BY <1>6, <1>7, <1>8 DEF Send

\* Every pbuf the stack holds is on a queue: with NoDanglingPbuf, NoLeak.
NothingLost == live \subseteq UNION {Ids(chain[d]) : d \in Dest}

\* No queue changes its length, and no pbuf leaves its queue.
LEMMA SameCounted ==
  ASSUME LengthsCounted, packets' = packets, live' = live,
         \A e \in Dest : /\ Len(chain'[e]) = Len(chain[e])
                         /\ Ids(chain[e]) \subseteq Ids(chain'[e])
  PROVE  LengthsCounted' /\ (NothingLost => NothingLost')
<1>1. LengthsCounted'
  BY DEF LengthsCounted
<1>2. ASSUME NothingLost, NEW x \in live'
      PROVE  \E e \in Dest : x \in Ids(chain'[e])
  <2>1. PICK e \in Dest : x \in Ids(chain[e])
    BY <1>2 DEF NothingLost
  <2> QED
    BY <2>1
<1>3. NothingLost => NothingLost'
  BY <1>2 DEF NothingLost
<1> QED
  BY <1>1, <1>3

\* A pbuf that changes in place.
LEMMA ChangeCounted ==
  ASSUME TypeOK, LengthsCounted, NEW d \in Dest, Changes(d),
         packets' = packets, live' = live,
         \A e \in Dest \ {d} : chain'[e] = chain[e]
  PROVE  LengthsCounted' /\ (NothingLost => NothingLost')
<1>1. PICK i \in DOMAIN chain[d], b \in Pbuf :
        /\ chain'[d] = [chain[d] EXCEPT ![i] = b]
        /\ Id(b) = Id(chain[d][i])
  BY DEF Changes
<1>2. /\ DOMAIN chain'[d] = DOMAIN chain[d]
      /\ \A j \in DOMAIN chain[d] : Id(chain'[d][j]) = Id(chain[d][j])
  BY <1>1
<1>3. Len(chain'[d]) = Len(chain[d])
  <2>1. chain[d] \in Seq(Pbuf) /\ [chain[d] EXCEPT ![i] = b] \in Seq(Pbuf)
    BY QueuedPbuf, ExceptSeq
  <2>2. chain'[d] \in Seq(Pbuf)
    BY <1>1, <2>1
  <2>3. /\ Len(chain'[d]) \in Nat /\ DOMAIN chain'[d] = 1..Len(chain'[d])
        /\ Len(chain[d]) \in Nat /\ DOMAIN chain[d] = 1..Len(chain[d])
    BY <2>1, <2>2, LenProperties
  <2>4. 1..Len(chain'[d]) = 1..Len(chain[d])
    BY <1>2, <2>3
  <2> QED
    BY <2>3, <2>4
<1>4. Ids(chain[d]) \subseteq Ids(chain'[d])
  BY <1>2 DEF Ids
<1> QED
  BY <1>3, <1>4, SameCounted

\* An unlinking loop keeps every element at the positions it keeps.
LEMMA KeptElements ==
  ASSUME NEW S, NEW s \in Seq(S), NEW K \in SUBSET (DOMAIN s)
  PROVE  \A j \in K : \E i \in DOMAIN Keep(s, K) : Keep(s, K)[i] = s[j]
<1>1. \A i \in DOMAIN Keep(s, K) : Keep(s, K)[i] = s[Nth(K, i)]
  BY KeepProperties
<1>2. \A k \in K : \E i \in DOMAIN Keep(s, K) : Nth(K, i) = k
  BY KeepProperties
<1> QED
  BY <1>1, <1>2

\* Pbufs unlinked from one queue are freed and taken off its counter.
LEMMA ReleaseCounted ==
  ASSUME TypeOK, LengthsCounted,
         NEW d \in Dest, NEW G \in SUBSET (DOMAIN chain[d]),
         chain' = [chain EXCEPT ![d] = Keep(@, DOMAIN @ \ G)],
         packets' = [packets EXCEPT ![d] = Decr(@, Cardinality(G))],
         live' = live \ {Id(chain[d][j]) : j \in G}
  PROVE  LengthsCounted' /\ (NothingLost => NothingLost')
<1> DEFINE K == DOMAIN chain[d] \ G
           n == Cardinality(G)
<1>1. /\ chain'[d] = Keep(chain[d], K)
      /\ packets'[d] = Decr(packets[d], n)
      /\ \A e \in Dest \ {d} : chain'[e] = chain[e] /\ packets'[e] = packets[e]
  BY DEF TypeOK
<1>2. n \in Nat /\ n <= Len(chain[d]) /\ Len(Keep(chain[d], K)) = Len(chain[d]) - n
  BY UnlinkedCount
<1>3. \A e \in Dest : packets[e] = Len(chain[e]) /\ packets[e] \in 0..(ByteMod - 1)
  BY DEF LengthsCounted, TypeOK
<1>4. K \in SUBSET (DOMAIN chain[d]) /\ chain[d] \in Seq(Pbuf)
  BY QueuedPbuf
<1>5. \A j \in K : \E i \in DOMAIN Keep(chain[d], K) :
        Keep(chain[d], K)[i] = chain[d][j]
  BY <1>4, KeptElements
<1> HIDE DEF K, n
<1>6. packets'[d] = Len(chain'[d])
  <2>1. Decr(packets[d], n) = packets[d] - n
    BY <1>2, <1>3, DecrIsMinus
  <2> QED
    BY <1>1, <1>2, <1>3, <2>1
<1>7. LengthsCounted'
  BY <1>1, <1>3, <1>6 DEF LengthsCounted
<1>8. ASSUME NothingLost, NEW x \in live'
      PROVE  \E e \in Dest : x \in Ids(chain'[e])
  <2>1. PICK e \in Dest : x \in Ids(chain[e])
    BY <1>8 DEF NothingLost
  <2>2. CASE e # d
    BY <1>1, <2>1, <2>2
  <2>3. CASE e = d
    <3>1. PICK j \in DOMAIN chain[d] : x = Id(chain[d][j])
      BY <2>1, <2>3 DEF Ids
    <3>2. j \notin G
      BY <1>8, <3>1
    <3>3. j \in K
      BY <3>2 DEF K
    <3>4. PICK i \in DOMAIN chain'[d] : chain'[d][i] = chain[d][j]
      BY <1>1, <1>5, <3>3
    <3> QED
      BY <3>1, <3>4 DEF Ids
  <2> QED
    BY <2>2, <2>3
<1>9. NothingLost => NothingLost'
  BY <1>8 DEF NothingLost
<1> QED
  BY <1>7, <1>9

LEMMA OldAgeCounted ==
  ASSUME TypeOK, LengthsCounted, OldAgeTmr
  PROVE  LengthsCounted' /\ (NothingLost => NothingLost')
<1> DEFINE gone == Range(oput_msg_list) \ Range(Keep(oput_msg_list, Young))
<1>1. gone \in SUBSET Dest
  BY RangeOfSeq DEF TypeOK
<1>2. FreedWith(gone) = UNION {Ids(chain[e]) : e \in gone}
  BY <1>1, FreedWhenCounted
<1>3. /\ live' = live \ FreedWith(gone)
      /\ \A e \in Dest : /\ chain'[e] = IF e \in gone THEN <<>> ELSE chain[e]
                         /\ packets'[e] = IF e \in gone THEN 0 ELSE packets[e]
  BY DEF OldAgeTmr
<1> HIDE DEF gone
<1>4. Len(<<>>) = 0
  OBVIOUS
<1>5. LengthsCounted'
  BY <1>3, <1>4 DEF LengthsCounted
<1>6. ASSUME NothingLost, NEW x \in live'
      PROVE  \E e \in Dest : x \in Ids(chain'[e])
  <2>1. PICK e \in Dest : x \in Ids(chain[e])
    BY <1>3, <1>6 DEF NothingLost
  <2>2. e \notin gone
    BY <1>2, <1>3, <1>6, <2>1
  <2> QED
    BY <1>3, <2>1, <2>2
<1>7. NothingLost => NothingLost'
  BY <1>6 DEF NothingLost
<1> QED
  BY <1>5, <1>7

LEMMA OutputCounted ==
  ASSUME TypeOK, LengthsCounted, OutputTmr
  PROVE  LengthsCounted' /\ (NothingLost => NothingLost')
<1> DEFINE Goal == LengthsCounted' /\ (NothingLost => NothingLost')
<1>1. ASSUME NEW d \in Range(oput_msg_list), NEW i \in DOMAIN chain[d],
             IsFirstStop(d, i), Transmit(d, i)
      PROVE  Goal
  <2>1. d \in Dest
    BY PickedItem
  <2>2. Changes(d)
    BY <1>1, <2>1, TransmitQueue
  <2>3. /\ live' = live /\ packets' = packets
        /\ \A e \in Dest \ {d} : chain'[e] = chain[e]
    BY <1>1 DEF Transmit, TypeOK
  <2> QED
    BY <2>1, <2>2, <2>3, ChangeCounted
<1>2. ASSUME NEW d \in Range(oput_msg_list), NEW i \in DOMAIN chain[d],
             GiveUp(d, i)
      PROVE  Goal
  <2>1. d \in Dest /\ {i} \in SUBSET (DOMAIN chain[d])
    BY PickedItem
  <2>2. chain' = [chain EXCEPT ![d] = Keep(@, DOMAIN @ \ {i})]
    BY <1>2 DEF GiveUp, Unlink
  <2>3. live' = live \ {Id(chain[d][j]) : j \in {i}}
    BY <1>2 DEF GiveUp
  <2>4. packets' = [packets EXCEPT ![d] = Decr(@, Cardinality({i}))]
    BY <1>2, FS_Singleton DEF GiveUp
  <2> QED
    BY <2>1, <2>2, <2>3, <2>4, ReleaseCounted
<1>3. CASE UNCHANGED <<chain, packets, live>>
  BY <1>3, SameCounted
<1>4. CASE g_curr_msg \notin Range(oput_msg_list)
  BY <1>3, <1>4 DEF OutputTmr
<1>5. CASE g_curr_msg \in Range(oput_msg_list)
  <2> DEFINE d == g_curr_msg
  <2>1. CASE MoveOn(d)
    BY <1>3, <2>1 DEF MoveOn
  <2>2. CASE ~MoveOn(d)
    <3>1. PICK i \in DOMAIN chain[d] :
            IsFirstStop(d, i) /\ (Transmit(d, i) \/ GiveUp(d, i))
      BY <1>5, <2>2 DEF OutputTmr
    <3> QED
      BY <1>1, <1>2, <1>5, <3>1
  <2> QED
    BY <2>1, <2>2
<1> QED
  BY <1>4, <1>5

LEMMA AckCounted ==
  ASSUME TypeOK, LengthsCounted, NEW f \in aired, RecvAck(f)
  PROVE  LengthsCounted' /\ (NothingLost => NothingLost')
<1>1. f.dest \in Dest
  BY DEF TypeOK, Frame
<1>2. CASE MarkFragment(f)
  <2>1. /\ live' = live /\ packets' = packets
        /\ \A e \in Dest \ {f.dest} : chain'[e] = chain[e]
    BY <1>2 DEF MarkFragment, TypeOK
  <2>2. Changes(f.dest)
    BY <1>2, MarkedQueue
  <2> QED
    BY <1>1, <2>1, <2>2, ChangeCounted
<1>3. CASE ReleaseDatagram(f)
  <2>1. PICK i \in SameSeq(f.dest, f) :
          LET gone == {j \in SameSeq(f.dest, f) : j <= i}
          IN  /\ chain' = [chain EXCEPT ![f.dest] = Keep(@, DOMAIN @ \ gone)]
              /\ packets' = [packets EXCEPT ![f.dest]
                               = Decr(@, Cardinality(gone))]
              /\ live' = live \ {Id(chain[f.dest][j]) : j \in gone}
    BY <1>3 DEF ReleaseDatagram
  <2>2. {j \in SameSeq(f.dest, f) : j <= i} \in SUBSET (DOMAIN chain[f.dest])
    BY DEF SameSeq
  <2> QED
    BY <1>1, <2>1, <2>2, ReleaseCounted
<1> QED
  BY <1>2, <1>3 DEF RecvAck

-----------------------------------------------------------------------------
CountInv == ListInv /\ HeapInv /\ OnePbufEach /\ LengthsCounted

LEMMA CountStep ==
  ASSUME TypeOK, Unfragmented, CountInv, [Next]_vars
  PROVE  /\ CountInv'
         /\ (g_seqnum <= SeqMod => NothingLost) /\ g_seqnum' <= SeqMod
              => NothingLost'
<1>1. ListInv' /\ HeapInv'
  BY ListStep, HeapStep DEF CountInv
<1>2. OnePbufEach'
  BY FirstFragments DEF CountInv
<1> DEFINE Goal ==
      /\ LengthsCounted'
      /\ (g_seqnum <= SeqMod => NothingLost) /\ g_seqnum' <= SeqMod
           => NothingLost'
<1>3. ASSUME NEW d \in Dest, NEW k \in Kinds, Send(d, k) PROVE Goal
  <2>1. g_seqnum' = g_seqnum + 1 /\ g_seqnum \in Nat /\ SeqMod \in Nat
    BY <1>3, LimitsAssumption DEF Send, TypeOK
  <2>2. Fresh /\ NoDanglingPbuf /\ NoResidue /\ LengthsCounted
    BY DEF CountInv, HeapInv, ListInv
  <2>3. NothingLost => NoLeak
    BY <2>2 DEF NothingLost, NoLeak, NoDanglingPbuf
  <2>4. /\ LengthsCounted'
        /\ (NoLeak /\ Fresh /\ g_seqnum' <= SeqMod => NothingLost')
    BY <1>3, <2>2, SendCounted DEF NothingLost
  <2>5. g_seqnum' <= SeqMod => g_seqnum <= SeqMod
    BY <2>1
  <2> QED
    BY <2>2, <2>3, <2>4, <2>5
<1>4. ASSUME LengthsCounted' /\ (NothingLost => NothingLost'),
             g_seqnum' = g_seqnum
      PROVE  Goal
  BY <1>4
<1>10. /\ OldAgeTmr \/ OutputTmr => g_seqnum' = g_seqnum
       /\ \A f : RecvAck(f) => g_seqnum' = g_seqnum
       /\ LengthsCounted
  BY DEF OldAgeTmr, OutputTmr, RecvAck, CountInv
<1>5. ASSUME OldAgeTmr PROVE Goal
  BY <1>4, <1>5, <1>10, OldAgeCounted
<1>6. ASSUME OutputTmr PROVE Goal
  BY <1>4, <1>6, <1>10, OutputCounted
<1>7. ASSUME NEW f \in aired, RecvAck(f) PROVE Goal
  BY <1>4, <1>7, <1>10, AckCounted
<1>8. ASSUME UNCHANGED vars PROVE Goal
  <2>1. packets' = packets /\ live' = live /\ chain' = chain
        /\ g_seqnum' = g_seqnum
    BY <1>8 DEF vars
  <2> QED
    BY <1>4, <1>10, <2>1, SameCounted
<1>9. Goal
  <2> HIDE DEF Goal
  <2> QED
    BY <1>3, <1>5, <1>6, <1>7, <1>8 DEF Next, Tick
<1> QED
  BY <1>1, <1>2, <1>9 DEF CountInv

LEMMA CountInit == Init => CountInv /\ NothingLost
<1> SUFFICES ASSUME Init PROVE CountInv /\ NothingLost
  OBVIOUS
<1>1. \A d \in Dest : chain[d] = <<>> /\ packets[d] = 0
  BY DEF Init
<1>2. \A d \in Dest : DOMAIN chain[d] = {} /\ Ids(chain[d]) = {}
  BY <1>1 DEF Ids
<1>3. ListInv
  BY ListInit
<1>4. HeapInv
  BY <1>2 DEF HeapInv, NoDanglingPbuf, Fresh
<1>5. OnePbufEach /\ LengthsCounted
  BY <1>1, <1>2 DEF OnePbufEach, LengthsCounted
<1>6. NothingLost
  BY DEF Init, NothingLost
<1> QED
  BY <1>3, <1>4, <1>5, <1>6 DEF CountInv

LEMMA CountInvariant ==
  ASSUME Unfragmented
  PROVE  Spec => [](TypeOK /\ CountInv /\ (g_seqnum <= SeqMod => NothingLost))
<1> DEFINE Inv == TypeOK /\ CountInv /\ (g_seqnum <= SeqMod => NothingLost)
<1>1. Init => Inv
  BY TypeInit, CountInit
<1>2. Inv /\ [Next]_vars => Inv'
  BY TypeStep, CountStep
<1> QED
  BY <1>1, <1>2, PTL DEF Spec

\* When no datagram is cut, the packet counter of an item is the number of
\* datagrams on it: the counter of struct oput_msg says what its comment
\* promises.  (With fragments it does not: it counts chains on the way in and
\* pbufs on the way out.)
THEOREM PacketsAreCounted ==
  ASSUME Unfragmented PROVE Spec => []PacketsCounted
<1>1. ASSUME TypeOK, CountInv PROVE PacketsCounted
  <2>1. SUFFICES ASSUME NEW d \in Dest
                 PROVE  Cardinality({chain[d][i].dg : i \in DOMAIN chain[d]})
                          = Len(chain[d])
    BY <1>1 DEF PacketsCounted, CountInv, LengthsCounted
  <2> DEFINE n == Len(chain[d])
             A == {chain[d][i].dg : i \in DOMAIN chain[d]}
             F == [i \in 1..n |-> chain[d][i].dg]
  <2>2. n \in Nat /\ DOMAIN chain[d] = 1..n
    BY <1>1, QueuedPbuf
  <2>3. \A i, j \in 1..n : chain[d][i].dg = chain[d][j].dg => i = j
    <3>1. \A i \in 1..n : chain[d][i].frag = 1
      BY <1>1, <2>2 DEF CountInv, OnePbufEach, Whole
    <3> QED
      BY <1>1, <2>2, <3>1 DEF CountInv, HeapInv, NoDanglingPbuf, Id
  <2>4. F \in Bijection(1..n, A)
    BY <2>2, <2>3 DEF Bijection, Injection, Surjection, IsInjective
  <2>5. Cardinality(1..n) = n /\ IsFiniteSet(1..n)
    BY <2>2, FS_Interval
  <2>6. ExistsBijection(1..n, A)
    BY <2>4 DEF ExistsBijection
  <2>7. Cardinality(A) = n
    <3> HIDE DEF A, n
    <3> QED
      BY <2>5, <2>6, FS_Bijection
  <2> QED
    BY <2>7
<1> QED
  BY <1>1, CountInvariant, PTL

\* When no datagram is cut, every pbuf the output manager holds is on a queue,
\* until the sequence numbers are reused: an eviction, old age, a refusal, an
\* acknowledgement or the last retry frees exactly what it takes away.
THEOREM NothingLeaks ==
  ASSUME Unfragmented PROVE Spec => [](g_seqnum <= SeqMod => NoLeak)
<1>1. CountInv /\ NothingLost => NoLeak
  BY DEF CountInv, HeapInv, NoDanglingPbuf, NothingLost, NoLeak
<1> QED
  BY <1>1, CountInvariant, PTL

-----------------------------------------------------------------------------
(***************************************************************************)
(* One destination: its queue is drained before its item is too old.       *)
(***************************************************************************)

\* The application sends to one address.
OneDest == \E d : Dest = {d}

\* An item becomes too old later than a full queue takes to be transmitted
\* and given up, pbuf by pbuf.
Time(n) == n * (MaxRetries + 1)
AgeCovers == Time(MaxPbufs) < OldAge

\* Each tick uses up an attempt of the first pbuf of the queue s, or the pbuf:
\* its age, and what is left to transmit, never exceed a full queue's.
InTime(age, s, extra) ==
  age + Time(Len(s)) <= Time(MaxPbufs) + s[1].retry + extra
Extra(step) == IF step = "send" THEN 1 ELSE 0
DrainInv ==
  \A d \in Dest : chain[d] # <<>> => InTime(old_age[d], chain[d], Extra(due))

LEMMA Products ==
  ASSUME NEW a \in Nat, NEW b \in Nat, NEW w \in Nat
  PROVE  /\ a * w \in Nat /\ (a + 1) * w = a * w + w
         /\ a <= b => a * w <= b * w
         /\ a * w < b * w => a < b
<1>1. a * w \in Nat /\ (a + 1) * w = a * w + w
  BY SMT
<1>2. ASSUME a <= b PROVE a * w <= b * w
  <2>1. PICK n \in Nat : b = a + n
    <3>1. b - a \in Nat /\ b = a + (b - a)
      BY <1>2
    <3> QED
      BY <3>1
  <2>2. n * w \in Nat /\ b * w = a * w + n * w
    BY <2>1, SMT
  <2> QED
    BY <1>1, <2>2
<1>3. ASSUME b <= a PROVE b * w <= a * w
  <2>1. PICK n \in Nat : a = b + n
    <3>1. a - b \in Nat /\ a = b + (a - b)
      BY <1>3
    <3> QED
      BY <3>1
  <2>2. b * w \in Nat /\ n * w \in Nat /\ a * w = b * w + n * w
    BY <2>1, SMT
  <2> QED
    BY <2>2
<1>4. a * w < b * w => a < b
  <2>1. a * w \in Nat /\ b * w \in Nat
    BY SMT
  <2> QED
    BY <1>3, <2>1
<1> QED
  BY <1>1, <1>2, <1>4

LEMMA OneFirstStop ==
  ASSUME TypeOK, NEW d \in Dest, NEW i, NEW j, IsFirstStop(d, i), IsFirstStop(d, j)
  PROVE  i = j
<1>1. i \in 1..Len(chain[d]) /\ j \in 1..Len(chain[d]) /\ Len(chain[d]) \in Nat
  BY QueuedPbuf DEF IsFirstStop
<1>2. Stops(chain[d][i]) /\ Stops(chain[d][j])
      /\ (\A k \in 1..(i - 1) : ~Stops(chain[d][k]))
      /\ (\A k \in 1..(j - 1) : ~Stops(chain[d][k]))
  BY DEF IsFirstStop
<1>3. ~(i < j) /\ ~(j < i)
  BY <1>1, <1>2
<1> QED
  BY <1>1, <1>3

LEMMA QueueTime ==
  ASSUME NEW n \in Nat
  PROVE  /\ Time(n) \in Nat
         /\ n <= MaxPbufs => Time(n) <= Time(MaxPbufs)
<1>1. MaxPbufs \in Nat /\ MaxRetries + 1 \in Nat
  BY LimitsAssumption
<1> QED
  BY <1>1, Products DEF Time

LEMMA ShorterTime ==
  ASSUME NEW m \in Nat, NEW n \in Nat, m < n
  PROVE  Time(m) + MaxRetries + 1 <= Time(n)
<1>1. MaxRetries + 1 \in Nat /\ MaxRetries \in Nat /\ m + 1 \in Nat /\ m + 1 <= n
  BY LimitsAssumption
<1>2. (m + 1) * (MaxRetries + 1) = m * (MaxRetries + 1) + (MaxRetries + 1)
      /\ m * (MaxRetries + 1) \in Nat
  BY <1>1, Products
<1>3. (m + 1) * (MaxRetries + 1) <= n * (MaxRetries + 1)
  BY <1>1, Products
<1> DEFINE x == m * (MaxRetries + 1)
           y == n * (MaxRetries + 1)
           z == (m + 1) * (MaxRetries + 1)
<1>4. y \in Nat
  BY <1>1, Products
<1> HIDE DEF x, y, z
<1>5. z = x + (MaxRetries + 1) /\ x \in Nat /\ z <= y
  BY <1>2, <1>3 DEF x, y, z
<1>6. x + MaxRetries + 1 <= y
  BY <1>1, <1>4, <1>5
<1> QED
  BY <1>6 DEF Time, x, y

\* The quantities InTime relates are numbers.
LEMMA QueueHead ==
  ASSUME NEW s \in Seq(Pbuf), s # <<>>
  PROVE  /\ Len(s) \in Nat /\ 0 < Len(s) /\ 1 \in DOMAIN s
         /\ s[1] \in Pbuf /\ s[1].retry \in Nat /\ s[1].retry <= MaxRetries
         /\ Time(Len(s)) \in Nat /\ Time(MaxPbufs) \in Nat /\ MaxRetries \in Nat
<1>1. Len(s) \in Nat /\ DOMAIN s = 1..Len(s) /\ Len(s) # 0
  OBVIOUS
<1>2. 0 < Len(s) /\ 1 \in DOMAIN s
  BY <1>1
<1>3. s[1] \in Pbuf
  BY <1>2
<1>4. MaxRetries \in Nat /\ MaxPbufs \in Nat
  BY LimitsAssumption
<1>5. s[1].retry \in 0..MaxRetries
  BY <1>3 DEF Pbuf
<1>6. Time(Len(s)) \in Nat /\ Time(MaxPbufs) \in Nat
  BY <1>1, <1>4, QueueTime
<1> QED
  BY <1>1, <1>2, <1>3, <1>4, <1>5, <1>6

\* An item just sent to is in time.
LEMMA YoungInTime ==
  ASSUME NEW s \in Seq(Pbuf), s # <<>>, Len(s) <= MaxPbufs, NEW e \in {0, 1}
  PROVE  InTime(0, s, e)
<1> DEFINE x == Time(Len(s))
           y == Time(MaxPbufs)
           r == s[1].retry
<1>1. x \in Nat /\ y \in Nat /\ r \in Nat /\ Len(s) \in Nat
  BY QueueHead
<1>2. x <= y
  BY <1>1, QueueTime
<1> HIDE DEF x, y, r
<1>3. 0 + x <= y + r + e
  BY <1>1, <1>2
<1> QED
  BY <1>3 DEF InTime, x, y, r

\* The old age step makes the item one tick older, and the next step makes up
\* for it.
LEMMA AgedInTime ==
  ASSUME NEW s \in Seq(Pbuf), s # <<>>, NEW a \in Nat, NEW b \in Nat, b <= a + 1,
         InTime(a, s, 0)
  PROVE  InTime(b, s, 1)
<1> DEFINE x == Time(Len(s))
           y == Time(MaxPbufs)
           r == s[1].retry
<1>1. x \in Nat /\ y \in Nat /\ r \in Nat
  BY QueueHead
<1>2. a + x <= y + r + 0
  BY DEF InTime
<1> HIDE DEF x, y, r
<1>3. b + x <= y + r + 1
  BY <1>1, <1>2
<1> QED
  BY <1>3 DEF InTime, x, y, r

\* A pbuf leaves the queue.
LEMMA ShorterInTime ==
  ASSUME NEW s \in Seq(Pbuf), s # <<>>, NEW t \in Seq(Pbuf), t # <<>>,
         Len(t) < Len(s), NEW a \in Nat, NEW e \in {0, 1}, NEW g \in {0, 1},
         InTime(a, s, e)
  PROVE  InTime(a, t, g)
<1> DEFINE x == Time(Len(s))
           z == Time(Len(t))
           y == Time(MaxPbufs)
           r == s[1].retry
           q == t[1].retry
<1>1. /\ x \in Nat /\ y \in Nat /\ r \in Nat /\ r <= MaxRetries
      /\ z \in Nat /\ q \in Nat /\ MaxRetries \in Nat
  BY QueueHead
<1>2. a + x <= y + r + e
  BY DEF InTime
<1>3. z + MaxRetries + 1 <= x
  <2>1. Len(s) \in Nat /\ Len(t) \in Nat
    OBVIOUS
  <2> QED
    BY <2>1, ShorterTime
<1> HIDE DEF x, y, z, r, q
<1>4. a + z <= y + q + g
  BY <1>1, <1>2, <1>3
<1> QED
  BY <1>4 DEF InTime, y, z, q

\* The first pbuf uses up an attempt.
LEMMA TriedInTime ==
  ASSUME NEW s \in Seq(Pbuf), s # <<>>, NEW c \in Pbuf, s[1].retry + 1 <= c.retry,
         NEW a \in Nat, InTime(a, s, 1)
  PROVE  InTime(a, [s EXCEPT ![1] = c], 0)
<1> DEFINE x == Time(Len(s))
           y == Time(MaxPbufs)
           r == s[1].retry
           q == c.retry
<1>1. x \in Nat /\ y \in Nat /\ r \in Nat /\ 1 \in DOMAIN s
  BY QueueHead
<1>2. a + x <= y + r + 1
  BY DEF InTime
<1>3. q \in Nat
  BY LimitsAssumption DEF Pbuf
<1>4. r + 1 <= q
  OBVIOUS
<1>5. Len([s EXCEPT ![1] = c]) = Len(s) /\ [s EXCEPT ![1] = c][1] = c
  BY <1>1
<1>6. a + x <= y + q + 0
  <2> HIDE DEF x, y, r, q
  <2> QED
    BY <1>1, <1>2, <1>3, <1>4
<1> QED
  BY <1>5, <1>6 DEF InTime

LEMMA NotYetOld ==
  ASSUME AgeCovers, NEW s \in Seq(Pbuf), s # <<>>, NEW a \in Nat, NEW e \in {0, 1},
         InTime(a, s, e)
  PROVE  a < OldAge
<1> DEFINE x == Time(Len(s))
           z == Time(0)
           y == Time(MaxPbufs)
           r == s[1].retry
<1>1. /\ x \in Nat /\ y \in Nat /\ r \in Nat /\ r <= MaxRetries
      /\ z \in Nat /\ MaxRetries \in Nat
  BY QueueHead, QueueTime
<1>2. a + x <= y + r + e
  BY DEF InTime
<1>3. z + MaxRetries + 1 <= x
  <2>1. Len(s) \in Nat /\ 0 \in Nat /\ 0 < Len(s)
    BY QueueHead
  <2> QED
    BY <2>1, ShorterTime
<1>4. y < OldAge /\ OldAge \in Nat
  BY LimitsAssumption DEF AgeCovers
<1> HIDE DEF x, y, z, r
<1> QED
  BY <1>1, <1>2, <1>3, <1>4

LEMMA DrainTypes ==
  ASSUME TypeOK, NEW d \in Dest
  PROVE  chain[d] \in Seq(Pbuf) /\ old_age[d] \in Nat /\ Extra(due) \in {0, 1}
BY DEF TypeOK, Extra

\* A new datagram makes the item as young as can be.
LEMMA DrainSend ==
  ASSUME TypeOK, TypeOK', QueueBounds', DrainInv, OneDest,
         NEW d \in Dest, NEW k \in Kinds, Send(d, k)
  PROVE  DrainInv'
<1>1. SUFFICES ASSUME chain'[d] # <<>>
               PROVE  InTime(old_age'[d], chain'[d], Extra(due'))
  BY DEF OneDest, DrainInv
<1>2. due' = due
  BY DEF Send
<1>3. CASE SendRefused(d, k)
  <2>1. chain' = chain /\ old_age' = old_age
    BY <1>3 DEF SendRefused
  <2> QED
    BY <1>1, <1>2, <2>1 DEF DrainInv
<1>4. CASE ~SendRefused(d, k)
  <2>1. old_age'[d] = 0
    BY <1>4 DEF Send, SendToItem, SendNewItem
  <2>2. chain'[d] \in Seq(Pbuf) /\ Len(chain'[d]) <= MaxPbufs
    BY DEF TypeOK, QueueBounds
  <2>3. Extra(due') \in {0, 1}
    BY DEF Extra
  <2> QED
    BY <1>1, <2>1, <2>2, <2>3, YoungInTime
<1> QED
  BY <1>3, <1>4

LEMMA DrainOldAge ==
  ASSUME TypeOK, TypeOK', DrainInv, OldAgeTmr
  PROVE  DrainInv'
<1>1. SUFFICES ASSUME NEW d \in Dest, chain'[d] # <<>>
               PROVE  InTime(old_age'[d], chain'[d], Extra(due'))
  BY DEF DrainInv
<1>2. chain'[d] = chain[d]
  BY <1>1 DEF OldAgeTmr
<1>3. Extra(due) = 0 /\ Extra(due') = 1
  BY DEF OldAgeTmr, Extra
<1>4. old_age[d] \in Nat /\ old_age'[d] \in Nat /\ chain[d] \in Seq(Pbuf)
  BY DEF TypeOK
<1>5. old_age'[d] <= old_age[d] + 1
  <2>1. old_age'[d] \in {0, old_age[d], old_age[d] + 1}
    BY DEF OldAgeTmr, Aged
  <2> QED
    BY <1>4, <2>1
<1>6. InTime(old_age[d], chain[d], 0)
  BY <1>1, <1>2, <1>3 DEF DrainInv
<1> QED
  BY <1>1, <1>2, <1>3, <1>4, <1>5, <1>6, AgedInTime

\* With one destination, the cursor is at its item, and the step transmits the
\* first pbuf of the queue or gives it up.
LEMMA DrainOutput ==
  ASSUME TypeOK, TypeOK', ListInv, OnePbufEach, LengthsCounted, OneDest, AgeCovers,
         DrainInv, OutputTmr
  PROVE  DrainInv'
<1>1. SUFFICES ASSUME NEW d \in Dest, chain'[d] # <<>>
               PROVE  InTime(old_age'[d], chain'[d], Extra(due'))
  BY DEF DrainInv
<1>2. Dest = {d} /\ old_age' = old_age /\ due = "send" /\ due' = "age"
  BY DEF OneDest, OutputTmr
<1>3. /\ Len(chain[d]) \in Nat /\ chain[d] \in Seq(Pbuf)
      /\ DOMAIN chain[d] = 1..Len(chain[d]) /\ old_age[d] \in Nat
  BY QueuedPbuf DEF TypeOK
<1>4. Extra(due) = 1 /\ Extra(due') = 0
  BY <1>2 DEF Extra
<1>5. chain[d] # <<>>
  <2>1. SUFFICES ASSUME chain[d] = <<>> PROVE FALSE
    OBVIOUS
  <2>2. DOMAIN chain[d] = {}
    BY <2>1
  <2>3. chain' = chain
    <3>1. ~Sendable(d)
      BY <2>1 DEF Sendable
    <3>2. \A e \in Range(oput_msg_list) : e = d
      BY <1>2, PickedItem
    <3> QED
      BY <3>1, <3>2 DEF OutputTmr, MoveOn
  <2> QED
    BY <1>1, <2>1, <2>3
<1>6. 1 \in DOMAIN chain[d]
  BY <1>3, <1>5, QueueHead
<1>7. InTime(old_age[d], chain[d], 1)
  BY <1>4, <1>5 DEF DrainInv
<1>8. d \in Range(oput_msg_list) /\ g_curr_msg = d
  <2>1. d \in Range(oput_msg_list)
    BY <1>5 DEF ListInv, NoResidue
  <2>2. oput_msg_list # <<>>
    BY <2>1 DEF Range
  <2>3. g_curr_msg \in Range(oput_msg_list)
    BY <2>2 DEF ListInv, CurrOnList
  <2>4. g_curr_msg \in Dest
    BY <2>3, PickedItem
  <2> QED
    BY <1>2, <2>1, <2>4
<1>9. Sendable(d)
  <2>1. old_age[d] < OldAge
    BY <1>3, <1>5, <1>7, NotYetOld
  <2>2. packets[d] # 0
    BY <1>3, <1>5 DEF LengthsCounted
  <2> QED
    BY <1>5, <2>1, <2>2 DEF Sendable
<1>10. Stops(chain[d][1]) /\ IsFirstStop(d, 1)
  <2>1. ~chain[d][1].sent
    BY <1>6 DEF OnePbufEach, Whole
  <2>2. Stops(chain[d][1])
    BY <2>1 DEF Stops
  <2>3. 1..(1 - 1) = {}
    OBVIOUS
  <2> QED
    BY <1>6, <2>2, <2>3 DEF IsFirstStop
<1>11. PICK i \in DOMAIN chain[d] : IsFirstStop(d, i) /\ (Transmit(d, i) \/ GiveUp(d, i))
  <2>1. \E e \in Range(oput_msg_list) :
          /\ g_curr_msg = e
          /\ \/ /\ Sendable(e)
                /\ \E i \in DOMAIN chain[e] :
                     /\ IsFirstStop(e, i)
                     /\ Transmit(e, i) \/ GiveUp(e, i)
             \/ /\ ~Sendable(e) \/ \A i \in DOMAIN chain[e] : ~Stops(chain[e][i])
                /\ MoveOn(e)
    BY <1>8 DEF OutputTmr
  <2> QED
    BY <1>6, <1>8, <1>9, <1>10, <2>1
<1>12. i = 1
  BY <1>10, <1>11, OneFirstStop
<1>13. CASE Transmit(d, 1)
  <2> DEFINE b == chain[d][1]
             c == [b EXCEPT !.retry = Attempts(b)]
  <2>1. chain' = [chain EXCEPT ![d] = [@ EXCEPT ![1] = c]] /\ c \in Pbuf
    BY <1>6, <1>13, TransmitChain
  <2>2. b \in Pbuf /\ b.retry \in Nat /\ b.retry < MaxRetries /\ MaxRetries \in Nat
    BY <1>3, <1>5, <1>13, QueueHead DEF Transmit
  <2>3. c.retry = Attempts(b)
    BY <2>2 DEF Pbuf
  <2>4. b.retry + 1 <= Attempts(b)
    <3> DEFINE r == b.retry
    <3>1. Attempts(b) = r + 1 \/ Attempts(b) = MaxRetries
      BY DEF Attempts
    <3>2. r \in Nat /\ r < MaxRetries /\ MaxRetries \in Nat
      BY <2>2
    <3> HIDE DEF r
    <3>3. r + 1 <= Attempts(b)
      BY <3>1, <3>2
    <3> QED
      BY <3>3 DEF r
  <2> HIDE DEF c
  <2>5. chain'[d] = [chain[d] EXCEPT ![1] = c]
    BY <2>1 DEF TypeOK
  <2>6. InTime(old_age[d], [chain[d] EXCEPT ![1] = c], 0)
    BY <1>3, <1>5, <1>7, <2>1, <2>3, <2>4, TriedInTime
  <2> QED
    BY <1>2, <1>4, <2>5, <2>6
<1>14. CASE GiveUp(d, 1)
  <2>1. chain'[d] = Keep(chain[d], DOMAIN chain[d] \ {1})
    BY <1>14 DEF GiveUp, Unlink, TypeOK
  <2>2. {1} \in SUBSET (DOMAIN chain[d])
    BY <1>6
  <2>3. Cardinality({1}) = 1
    BY FS_Singleton
  <2>4. Len(chain'[d]) = Len(chain[d]) - 1
    BY <2>1, <2>2, <2>3, UnlinkedCount
  <2>5. Len(chain'[d]) < Len(chain[d])
    BY <1>3, <2>4
  <2>6. chain'[d] \in Seq(Pbuf)
    BY DEF TypeOK
  <2> QED
    BY <1>1, <1>2, <1>3, <1>4, <1>5, <1>7, <2>5, <2>6, ShorterInTime
<1> QED
  BY <1>11, <1>12, <1>13, <1>14

LEMMA DrainAck ==
  ASSUME TypeOK, TypeOK', OnePbufEach, OneDest, DrainInv, NEW f \in aired, RecvAck(f)
  PROVE  DrainInv'
<1> DEFINE d == f.dest
<1>1. d \in Dest
  BY DEF TypeOK, Frame
<1> HIDE DEF d
<1>2. Dest = {d} /\ old_age' = old_age /\ due' = due
  BY <1>1 DEF OneDest, RecvAck
<1>3. ~MarkFragment(f)
  <2>1. SUFFICES ASSUME MarkFragment(f) PROVE FALSE
    OBVIOUS
  <2>2. PICK i \in SameSeq(d, f) : FrameOf(d, chain[d][i]) = f
    BY <2>1 DEF MarkFragment, d
  <2>3. MoreFrag(chain[d][i]) /\ i \in DOMAIN chain[d]
    BY <2>1, <2>2 DEF SameSeq, MarkFragment, FrameOf
  <2>4. chain[d][i].frag = 1 /\ chain[d][i].frags = 1
    BY <1>1, <2>3 DEF OnePbufEach, Whole
  <2> QED
    BY <2>3, <2>4 DEF MoreFrag
<1>4. PICK i \in SameSeq(d, f) :
        chain' = [chain EXCEPT ![d] =
                    Keep(@, DOMAIN @ \ {j \in SameSeq(d, f) : j <= i})]
  BY <1>3 DEF RecvAck, ReleaseDatagram, d
<1> DEFINE G == {j \in SameSeq(d, f) : j <= i}
<1>5. chain'[d] = Keep(chain[d], DOMAIN chain[d] \ G)
  BY <1>1, <1>4 DEF TypeOK
<1>6. G \in SUBSET (DOMAIN chain[d])
  BY DEF SameSeq
<1>7. /\ Len(chain[d]) \in Nat /\ DOMAIN chain[d] = 1..Len(chain[d])
      /\ chain[d] \in Seq(Pbuf) /\ chain'[d] \in Seq(Pbuf) /\ old_age[d] \in Nat
  BY <1>1, QueuedPbuf DEF TypeOK
<1>8. i \in G /\ i \in DOMAIN chain[d]
  <2>1. i \in DOMAIN chain[d]
    BY DEF SameSeq
  <2>2. i <= i
    BY <1>7, <2>1
  <2> QED
    BY <2>1, <2>2
<1> HIDE DEF G
<1>9. Cardinality(G) \in Nat /\ Cardinality(G) # 0
  <2>1. IsFiniteSet(DOMAIN chain[d])
    BY <1>7, FS_Interval
  <2>2. IsFiniteSet(G)
    BY <1>6, <2>1, FS_Subset
  <2>3. Cardinality(G) \in Nat
    BY <2>2, FS_CardinalityType
  <2>4. Cardinality(G) # 0
    BY <1>8, <2>2, FS_EmptySet
  <2> QED
    BY <2>3, <2>4
<1>10. Len(chain'[d]) < Len(chain[d])
  <2>1. Len(chain'[d]) = Len(chain[d]) - Cardinality(G)
    BY <1>1, <1>5, <1>6, UnlinkedCount
  <2> QED
    BY <1>7, <1>9, <2>1
<1>11. SUFFICES ASSUME chain'[d] # <<>>
                PROVE  InTime(old_age'[d], chain'[d], Extra(due'))
  BY <1>2 DEF DrainInv
<1>12. chain[d] # <<>>
  BY <1>7, <1>8
<1>13. InTime(old_age[d], chain[d], Extra(due))
  BY <1>1, <1>12 DEF DrainInv
<1>14. Extra(due) \in {0, 1}
  BY DEF Extra
<1> QED
  BY <1>2, <1>7, <1>10, <1>11, <1>12, <1>13, <1>14, ShorterInTime

\* When the application sends to one address only, and no datagram is cut, its
\* queue is drained before its item is too old, whatever it sends and when:
\* the code's limits are 21 pbufs, 10 retries and an old age of 300 ticks.
\* (With several addresses it is not so: acknowledgements and new datagrams
\* can keep the cursor on one item, while another gets old.)
THEOREM DrainedInTime ==
  ASSUME Unfragmented, OneDest, AgeCovers
  PROVE  Spec => []DrainedBeforeOld
<1> DEFINE Inv == TypeOK /\ QueueBounds /\ CountInv /\ DrainInv
<1>1. Init => Inv
  <2>1. Init => TypeOK /\ QueueBounds /\ CountInv
    BY TypeInit, BoundsInit, CountInit
  <2>2. Init => DrainInv
    BY DEF Init, DrainInv
  <2> QED
    BY <2>1, <2>2
<1>2. Inv /\ [Next]_vars => Inv'
  <2>1. SUFFICES ASSUME Inv, [Next]_vars PROVE Inv'
    OBVIOUS
  <2>2. TypeOK' /\ QueueBounds' /\ CountInv'
    BY <2>1, TypeStep, BoundsStep, CountStep
  <2>3. ListInv /\ OnePbufEach /\ LengthsCounted
    BY <2>1 DEF CountInv
  <2>4. ASSUME NEW d \in Dest, NEW k \in Kinds, Send(d, k) PROVE DrainInv'
    BY <2>1, <2>2, <2>4, DrainSend
  <2>5. CASE OldAgeTmr
    BY <2>1, <2>2, <2>5, DrainOldAge
  <2>6. CASE OutputTmr
    BY <2>1, <2>2, <2>3, <2>6, DrainOutput
  <2>7. ASSUME NEW f \in aired, RecvAck(f) PROVE DrainInv'
    BY <2>1, <2>2, <2>3, <2>7, DrainAck
  <2>8. ASSUME UNCHANGED vars PROVE DrainInv'
    <3>1. chain' = chain /\ old_age' = old_age /\ due' = due
      BY <2>8 DEF vars
    <3> QED
      BY <2>1, <3>1 DEF DrainInv
  <2>9. DrainInv'
    BY <2>1, <2>4, <2>5, <2>6, <2>7, <2>8 DEF Next, Tick
  <2> QED
    BY <2>2, <2>9
<1>3. Inv => DrainedBeforeOld
  <2>1. SUFFICES ASSUME Inv, NEW d \in Range(oput_msg_list), chain[d] # <<>>
                 PROVE  old_age[d] < OldAge
    BY DEF DrainedBeforeOld
  <2>2. d \in Dest
    BY <2>1, PickedItem
  <2>3. InTime(old_age[d], chain[d], Extra(due))
    BY <2>1, <2>2 DEF DrainInv
  <2> QED
    BY <2>1, <2>2, <2>3, DrainTypes, NotYetOld
<1> QED
  BY <1>1, <1>2, <1>3, PTL DEF Spec

-----------------------------------------------------------------------------
(***************************************************************************)
(* Where the pbufs of a queue come from when nothing is transmitted.       *)
(***************************************************************************)

Marks(d) ==
  \E i \in DOMAIN chain[d] : chain'[d] = [chain[d] EXCEPT ![i].sent = TRUE]

QuietStep(d) ==
  \/ chain'[d] = chain[d]
  \/ chain'[d] = <<>>
  \/ Extends(d)
  \/ Shrinks(d)
  \/ Marks(d)

\* m is the place each pbuf of the new queue had in the old one; those of a new
\* datagram come behind.
Origins(d, m) ==
  /\ m \in [DOMAIN chain'[d] -> Nat]
  /\ \A j, k \in DOMAIN chain'[d] : j < k => m[j] < m[k]
  /\ \A j \in DOMAIN chain'[d] :
       \/ /\ m[j] \in DOMAIN chain[d]
          /\ chain'[d][j].dg = chain[d][m[j]].dg
          /\ chain'[d][j].frag = chain[d][m[j]].frag
          /\ chain'[d][j].frags = chain[d][m[j]].frags
          /\ chain'[d][j].retry = chain[d][m[j]].retry
          /\ chain[d][m[j]].sent => chain'[d][j].sent
       \/ /\ m[j] > Len(chain[d])
          /\ chain'[d][j].dg = g_seqnum /\ chain'[d][j].retry = 0
          /\ g_seqnum' = g_seqnum + 1

LEMMA QueueOrigins ==
  ASSUME TypeOK, NEW d \in Dest, QuietStep(d)
  PROVE  \E m : Origins(d, m)
<1> DEFINE n == Len(chain[d])
<1>1. n \in Nat /\ chain[d] \in Seq(Pbuf) /\ DOMAIN chain[d] = 1..n
  BY QueuedPbuf
<1>2. CASE chain'[d] = chain[d]
  <2>1. Origins(d, [j \in DOMAIN chain'[d] |-> j])
    BY <1>1, <1>2 DEF Origins
  <2> QED
    BY <2>1
<1>3. CASE chain'[d] = <<>>
  <2>1. Origins(d, [j \in DOMAIN chain'[d] |-> j])
    BY <1>3 DEF Origins
  <2> QED
    BY <2>1
<1>4. CASE Extends(d)
  <2>1. PICK k \in Kinds :
          /\ g_seqnum' = g_seqnum + 1
          /\ chain'[d] = NewChain(k) \/ chain'[d] = chain[d] \o NewChain(k)
    BY <1>4 DEF Extends
  <2>2. /\ k.frags \in Nat /\ DOMAIN NewChain(k) = 1..k.frags
        /\ \A i \in 1..k.frags :
             NewChain(k)[i].dg = g_seqnum /\ NewChain(k)[i].retry = 0
    BY NewChainType
  <2>3. CASE chain'[d] = NewChain(k)
    <3>1. Origins(d, [j \in DOMAIN chain'[d] |-> n + j])
      BY <1>1, <2>1, <2>2, <2>3 DEF Origins
    <3> QED
      BY <3>1
  <2>4. CASE chain'[d] = chain[d] \o NewChain(k)
    <3> DEFINE c == chain[d] \o NewChain(k)
    <3>1. /\ DOMAIN c = 1..(n + k.frags)
          /\ \A i \in DOMAIN c : i <= n => c[i] = chain[d][i]
          /\ \A i \in DOMAIN c : ~(i <= n) =>
               i - n \in 1..k.frags /\ c[i] = NewChain(k)[i - n]
      BY MountedChain
    <3> HIDE DEF c
    <3>2. Origins(d, [j \in DOMAIN chain'[d] |-> j])
      <4>1. chain'[d] = c
        BY <2>4 DEF c
      <4> QED
        BY <1>1, <2>1, <2>2, <3>1, <4>1 DEF Origins
    <3> QED
      BY <3>2
  <2> QED
    BY <2>1, <2>3, <2>4
<1>5. CASE Shrinks(d)
  <2>1. PICK K \in SUBSET (DOMAIN chain[d]) : chain'[d] = Keep(chain[d], K)
    BY <1>5 DEF Shrinks
  <2>2. /\ \A i \in DOMAIN chain'[d] :
             Nth(K, i) \in K /\ chain'[d][i] = chain[d][Nth(K, i)]
        /\ \A i, j \in DOMAIN chain'[d] : i < j <=> Nth(K, i) < Nth(K, j)
    BY <1>1, <2>1, KeepProperties
  <2> DEFINE m == [i \in DOMAIN chain'[d] |-> Nth(K, i)]
  <2>3. \A i \in DOMAIN chain'[d] : m[i] \in K /\ chain'[d][i] = chain[d][m[i]]
    BY <2>2
  <2>4. \A i, j \in DOMAIN chain'[d] : i < j => m[i] < m[j]
    BY <2>2
  <2>5. m \in [DOMAIN chain'[d] -> Nat]
    BY <1>1, <2>2
  <2> HIDE DEF m
  <2>6. Origins(d, m)
    BY <1>1, <2>3, <2>4, <2>5 DEF Origins
  <2> QED
    BY <2>6
<1>6. CASE Marks(d)
  <2>1. PICK i \in DOMAIN chain[d] : chain'[d] = [chain[d] EXCEPT ![i].sent = TRUE]
    BY <1>6 DEF Marks
  <2>2. DOMAIN chain'[d] = DOMAIN chain[d]
    BY <2>1
  <2>3. \A j \in DOMAIN chain[d] :
          /\ chain'[d][j].dg = chain[d][j].dg
          /\ chain'[d][j].frag = chain[d][j].frag
          /\ chain'[d][j].frags = chain[d][j].frags
          /\ chain'[d][j].retry = chain[d][j].retry
          /\ chain[d][j].sent => chain'[d][j].sent
    <3>1. TAKE j \in DOMAIN chain[d]
    <3>2. chain[d][j] \in Pbuf
      BY QueuedPbuf
    <3>3. CASE j = i
      <4>1. chain'[d][j] = [chain[d][j] EXCEPT !.sent = TRUE]
        BY <1>1, <2>1, <3>3
      <4> QED
        BY <3>2, <4>1 DEF Pbuf
    <3>4. CASE j # i
      BY <1>1, <2>1, <3>4
    <3> QED
      BY <3>3, <3>4
  <2>4. Origins(d, [j \in DOMAIN chain'[d] |-> j])
    BY <1>1, <2>2, <2>3 DEF Origins
  <2> QED
    BY <2>4
<1> QED
  BY <1>2, <1>3, <1>4, <1>5, <1>6 DEF QuietStep

\* What the sender does but for handing a pbuf to the radio or giving one up.
Quiet ==
  \/ \E d \in Dest, k \in Kinds : Send(d, k)
  \/ OldAgeTmr
  \/ \E f \in aired : RecvAck(f)
  \/ UNCHANGED vars

LEMMA QuietQueues ==
  ASSUME TypeOK, Quiet, NEW e \in Dest
  PROVE  QuietStep(e)
<1>1. CASE UNCHANGED vars
  BY <1>1 DEF vars, QuietStep
<1>2. ASSUME NEW d \in Dest, NEW k \in Kinds, Send(d, k)
      PROVE  QuietStep(e)
  <2>1. g_seqnum' = g_seqnum + 1
    BY <1>2 DEF Send
  <2>2. k.frags \in Nat /\ Len(chain[d]) \in Nat /\ MaxPbufs \in Nat
    BY NewChainType, QueuedPbuf, LimitsAssumption
  <2>3. ~Refused(k) => k.frags <= MaxPbufs
    BY <2>2 DEF Refused
  <2>4. CASE SendRefused(d, k)
    BY <2>4 DEF SendRefused, QuietStep
  <2>5. CASE SendToItem(d, k)
    <3>1. ~NoRoom(d, k) => k.frags + Len(chain[d]) <= MaxPbufs
      BY <2>2 DEF NoRoom
    <3> QED
      BY <2>1, <2>3, <2>5, <3>1 DEF SendToItem, QuietStep, Extends
  <2>6. ASSUME NEW mem \in BOOLEAN, SendNewItem(d, k, mem)
        PROVE  QuietStep(e)
    BY <2>1, <2>3, <2>6 DEF SendNewItem, QuietStep, Extends
  <2> QED
    BY <1>2, <2>4, <2>5, <2>6 DEF Send
<1>3. CASE OldAgeTmr
  BY <1>3 DEF OldAgeTmr, QuietStep
<1>4. ASSUME NEW f \in aired, RecvAck(f)
      PROVE  QuietStep(e)
  <2>1. f.dest \in Dest
    BY DEF TypeOK, Frame
  <2>2. e # f.dest => chain'[e] = chain[e]
    BY <1>4 DEF RecvAck, MarkFragment, ReleaseDatagram, TypeOK
  <2>3. CASE MarkFragment(f)
    <3>1. Marks(f.dest)
      BY <2>1, <2>3 DEF MarkFragment, SameSeq, Marks, TypeOK
    <3> QED
      BY <2>2, <3>1 DEF QuietStep
  <2>4. CASE ReleaseDatagram(f)
    <3>1. PICK i \in SameSeq(f.dest, f) :
            chain' = [chain EXCEPT ![f.dest] =
                        Keep(@, DOMAIN @ \ {j \in SameSeq(f.dest, f) : j <= i})]
      BY <2>4 DEF ReleaseDatagram
    <3>2. chain'[f.dest] =
            Keep(chain[f.dest],
                 DOMAIN chain[f.dest] \ {j \in SameSeq(f.dest, f) : j <= i})
      BY <2>1, <3>1 DEF TypeOK
    <3>3. DOMAIN chain[f.dest] \ {j \in SameSeq(f.dest, f) : j <= i}
            \in SUBSET (DOMAIN chain[f.dest])
      OBVIOUS
    <3> QED
      BY <2>2, <3>2, <3>3 DEF QuietStep, Shrinks
  <2> QED
    BY <1>4, <2>3, <2>4 DEF RecvAck
<1> QED
  BY <1>1, <1>2, <1>3, <1>4 DEF Quiet

LEMMA QuietCursor ==
  ASSUME TypeOK, ListInv, Quiet, g_curr_msg \in Range(oput_msg_list')
  PROVE  g_curr_msg' = g_curr_msg
<1>1. CASE UNCHANGED vars
  BY <1>1 DEF vars
<1>2. ASSUME NEW d \in Dest, NEW k \in Kinds, Send(d, k)
      PROVE  g_curr_msg' = g_curr_msg
  <2>1. CASE SendRefused(d, k)
    BY <2>1 DEF SendRefused
  <2>2. CASE SendToItem(d, k)
    BY <2>2 DEF SendToItem, Retarget
  <2>3. ASSUME NEW mem \in BOOLEAN, SendNewItem(d, k, mem)
        PROVE  g_curr_msg' = g_curr_msg
    <3>1. Searched(d) \in Seq(Dest) /\ d \notin Range(oput_msg_list)
          /\ Range(Searched(d)) \subseteq Range(oput_msg_list)
      BY <2>3, SearchedItems DEF SendNewItem, HasItem
    <3>2. Range(Append(Searched(d), d)) = Range(Searched(d)) \cup {d}
      <4>1. /\ DOMAIN Append(Searched(d), d) = 1..(Len(Searched(d)) + 1)
            /\ DOMAIN Searched(d) = 1..Len(Searched(d)) /\ Len(Searched(d)) \in Nat
            /\ \A i \in 1..Len(Searched(d)) :
                 Append(Searched(d), d)[i] = Searched(d)[i]
            /\ Append(Searched(d), d)[Len(Searched(d)) + 1] = d
        BY <3>1
      <4> DEFINE s == Searched(d)
                 a == Append(Searched(d), d)
      <4> HIDE DEF s, a
      <4>2. \A i \in DOMAIN a : a[i] \in Range(s) \cup {d}
        BY <4>1 DEF s, a, Range
      <4>3. \A i \in DOMAIN s : i \in DOMAIN a /\ a[i] = s[i]
        BY <4>1 DEF s, a
      <4>4. Len(s) + 1 \in DOMAIN a /\ a[Len(s) + 1] = d
        BY <4>1 DEF s, a
      <4>5. Range(a) = Range(s) \cup {d}
        BY <4>2, <4>3, <4>4 DEF Range
      <4> QED
        BY <4>5 DEF s, a
    <3>3. g_curr_msg # d
      <4>1. d \in Dest /\ NoDest \notin Dest
        BY DestAssumption
      <4> QED
        BY <3>1, <4>1 DEF ListInv, CurrOnList
    <3>4. g_curr_msg \in Range(Searched(d))
      BY <2>3, <3>2, <3>3 DEF SendNewItem
    <3>5. Searched(d) # <<>>
      BY <3>4 DEF Range
    <3> QED
      BY <2>3, <3>4, <3>5 DEF SendNewItem, Retarget
  <2> QED
    BY <1>2, <2>1, <2>2, <2>3 DEF Send
<1>3. CASE OldAgeTmr
  BY <1>3 DEF OldAgeTmr, Retarget
<1>4. ASSUME NEW f \in aired, RecvAck(f)
      PROVE  g_curr_msg' = g_curr_msg
  BY <1>4 DEF RecvAck
<1> QED
  BY <1>1, <1>2, <1>3, <1>4 DEF Quiet

-----------------------------------------------------------------------------
(***************************************************************************)
(* The attempts for a pbuf follow one another.                             *)
(***************************************************************************)

\* A pbuf that was transmitted and may be again is not left waiting: its item
\* is neither empty by its counter nor too old (oput_msg_send_pbuf_iterator).
NeverStranded ==
  \A d \in Dest : \A i \in DOMAIN chain[d] :
    Pending(chain[d][i]) => Sendable(d)

LEMMA RetriesType == MaxRetries \in Nat /\ 0 < MaxRetries
BY LimitsAssumption

\* Pbuf q is now p: only its acknowledgement may be new.
SamePbuf(q, p) ==
  /\ p.dg = q.dg /\ p.frag = q.frag /\ p.frags = q.frags /\ p.retry = q.retry
  /\ q.sent => p.sent

LEMMA SamePbufWaits ==
  ASSUME NEW q, NEW p, SamePbuf(q, p)
  PROVE  (Pending(p) => Pending(q)) /\ (~Stops(q) => ~Stops(p))
BY DEF SamePbuf, Pending, Stops

\* Where a pbuf was before, or that it is new.
LEMMA OldOrNew ==
  ASSUME TypeOK, NEW d \in Dest, NEW m, Origins(d, m), NEW j \in DOMAIN chain'[d]
  PROVE  \/ m[j] \in DOMAIN chain[d] /\ SamePbuf(chain[d][m[j]], chain'[d][j])
         \/ m[j] > Len(chain[d]) /\ chain'[d][j].dg = g_seqnum
            /\ chain'[d][j].retry = 0
BY DEF Origins, SamePbuf

LEMMA PendingStaysTogether ==
  ASSUME TypeOK, ListInv, TypeOK', ListInv', AttemptsTogether, Quiet
  PROVE  AttemptsTogether'
<1>2. SUFFICES ASSUME NEW d \in Dest, NEW j \in DOMAIN chain'[d],
                      Pending(chain'[d][j])
               PROVE  g_curr_msg' = d /\ IsFirstStop(d, j)'
  BY DEF AttemptsTogether
<1>3. PICK m : Origins(d, m)
  BY QuietQueues, QueueOrigins
<1>4. m[j] \in DOMAIN chain[d] /\ SamePbuf(chain[d][m[j]], chain'[d][j])
  BY <1>2, <1>3, OldOrNew DEF Pending
<1>5. Pending(chain[d][m[j]])
  BY <1>2, <1>4, SamePbufWaits
<1>6. g_curr_msg = d /\ IsFirstStop(d, m[j])
  BY <1>4, <1>5 DEF AttemptsTogether
<1>7. g_curr_msg' = d
  <2>1. d \in Range(oput_msg_list')
    BY DEF ListInv, NoResidue
  <2> QED
    BY <1>6, <2>1, QuietCursor
<1>8. Stops(chain'[d][j])
  BY <1>2 DEF Pending, Stops
<1>9. ASSUME NEW k \in 1..(j - 1) PROVE ~Stops(chain'[d][k])
  <2>1. DOMAIN chain'[d] = 1..Len(chain'[d]) /\ Len(chain'[d]) \in Nat
    BY DEF TypeOK
  <2>2. k \in DOMAIN chain'[d] /\ k < j
    BY <2>1
  <2>3. m[k] < m[j] /\ m[k] \in Nat /\ m[j] \in Nat
    BY <1>3, <2>2 DEF Origins
  <2>4. DOMAIN chain[d] = 1..Len(chain[d]) /\ Len(chain[d]) \in Nat
    BY QueuedPbuf
  <2>5. m[k] \in DOMAIN chain[d] /\ SamePbuf(chain[d][m[k]], chain'[d][k])
    <3>1. ~(m[k] > Len(chain[d]))
      BY <1>4, <2>3, <2>4
    <3> QED
      BY <1>3, <2>2, <3>1, OldOrNew
  <2>6. m[k] \in 1..(m[j] - 1)
    BY <2>3, <2>4, <2>5
  <2>7. ~Stops(chain[d][m[k]])
    BY <1>6, <2>6 DEF IsFirstStop
  <2> QED
    BY <2>5, <2>7, SamePbufWaits
<1> QED
  BY <1>7, <1>8, <1>9 DEF IsFirstStop

\* A pbuf that waits to be transmitted again is transmitted before any other,
\* and before the cursor leaves its item.
LEMMA PendingIsTransmitted ==
  ASSUME TypeOK, ListInv, AttemptsTogether, NeverStranded, OutputTmr,
         NEW d \in Dest, NEW i \in DOMAIN chain[d], Pending(chain[d][i])
  PROVE  g_curr_msg = d /\ IsFirstStop(d, i) /\ Transmit(d, i)
<1>1. g_curr_msg = d /\ IsFirstStop(d, i) /\ Sendable(d)
  BY DEF AttemptsTogether, NeverStranded
<1>2. d \in Range(oput_msg_list)
  BY <1>1 DEF ListInv, NoResidue, Sendable
<1>3. Stops(chain[d][i])
  BY <1>1 DEF IsFirstStop
<1>4. \E j \in DOMAIN chain[d] :
        IsFirstStop(d, j) /\ (Transmit(d, j) \/ GiveUp(d, j))
  BY <1>1, <1>2, <1>3 DEF OutputTmr
<1>5. Transmit(d, i) \/ GiveUp(d, i)
  BY <1>1, <1>4, OneFirstStop
<1>6. ~(chain[d][i].retry >= MaxRetries)
  BY RetriesType DEF Pending
<1> QED
  BY <1>1, <1>5, <1>6 DEF GiveUp

\* What handing pbuf i of the queue of d to the radio does to the queues.
LEMMA TransmittedQueue ==
  ASSUME TypeOK, NEW d \in Dest, NEW i \in DOMAIN chain[d],
         IsFirstStop(d, i), Transmit(d, i)
  PROVE  /\ \A e \in Dest : DOMAIN chain'[e] = DOMAIN chain[e]
         /\ \A e \in Dest : \A j \in DOMAIN chain[e] :
              e # d \/ j # i => chain'[e][j] = chain[e][j]
         /\ chain'[d][i].dg = chain[d][i].dg
         /\ chain'[d][i].frag = chain[d][i].frag
         /\ chain'[d][i].retry = Attempts(chain[d][i])
         /\ chain'[d][i].retry \in Nat \ {0}
         /\ Pending(chain'[d][i]) => chain'[d][i].retry = chain[d][i].retry + 1
         /\ ~chain[d][i].sent /\ ~chain'[d][i].sent
         /\ chain[d][i].retry \in 0..(MaxRetries - 1)
<1> DEFINE b == chain[d][i]
           c == [b EXCEPT !.retry = Attempts(b)]
<1>1. chain' = [chain EXCEPT ![d] = [@ EXCEPT ![i] = c]] /\ c \in Pbuf
  BY TransmitChain
<1>2. b \in Pbuf /\ b.retry \in 0..(MaxRetries - 1) /\ ~b.sent
  <2>1. b \in Pbuf /\ b.retry \in 0..MaxRetries
    BY QueuedPbuf
  <2>2. b.retry < MaxRetries /\ Stops(b)
    BY DEF Transmit, IsFirstStop
  <2> QED
    BY <2>1, <2>2, RetriesType DEF Stops
<1>3. c.dg = b.dg /\ c.frag = b.frag /\ c.retry = Attempts(b) /\ c.sent = b.sent
  BY <1>2 DEF Pbuf
<1>4. Attempts(b) \in Nat \ {0} /\ (Attempts(b) # MaxRetries => Attempts(b) = b.retry + 1)
  BY <1>2, RetriesType DEF Attempts
<1>5. Pending(c) => c.retry = b.retry + 1
  BY <1>3, <1>4, RetriesType DEF Pending
<1>6. /\ \A e \in Dest : e # d => chain'[e] = chain[e]
      /\ chain'[d] = [chain[d] EXCEPT ![i] = c]
  BY <1>1 DEF TypeOK
<1> HIDE DEF c
<1>7. /\ DOMAIN chain'[d] = DOMAIN chain[d] /\ chain'[d][i] = c
      /\ \A j \in DOMAIN chain[d] : j # i => chain'[d][j] = chain[d][j]
  BY <1>6, QueuedPbuf
<1> QED
  BY <1>2, <1>3, <1>4, <1>5, <1>6, <1>7

LEMMA TransmitTogether ==
  ASSUME TypeOK, AttemptsTogether, NEW d \in Dest, NEW i \in DOMAIN chain[d],
         g_curr_msg = d, IsFirstStop(d, i), Transmit(d, i)
  PROVE  AttemptsTogether'
<1>1. /\ \A e \in Dest : DOMAIN chain'[e] = DOMAIN chain[e]
      /\ \A e \in Dest : \A j \in DOMAIN chain[e] :
           e # d \/ j # i => chain'[e][j] = chain[e][j]
      /\ ~chain'[d][i].sent
  BY TransmittedQueue
<1>2. SUFFICES ASSUME NEW e \in Dest, NEW j \in DOMAIN chain'[e],
                      Pending(chain'[e][j])
               PROVE  g_curr_msg' = e /\ IsFirstStop(e, j)'
  BY DEF AttemptsTogether
<1>3. e = d /\ j = i
  <2>1. SUFFICES ASSUME e # d \/ j # i PROVE FALSE
    OBVIOUS
  <2>2. j \in DOMAIN chain[e] /\ Pending(chain[e][j])
    BY <1>1, <1>2, <2>1
  <2> QED
    BY <2>1, <2>2, OneFirstStop DEF AttemptsTogether
<1>4. g_curr_msg' = d
  BY DEF Transmit
<1>5. Stops(chain'[d][i])
  BY <1>1 DEF Stops
<1>6. ASSUME NEW k \in 1..(i - 1) PROVE ~Stops(chain'[d][k])
  <2>1. k \in DOMAIN chain[d] /\ k # i
    BY QueuedPbuf
  <2>2. ~Stops(chain[d][k])
    BY DEF IsFirstStop
  <2> QED
    BY <1>1, <2>1, <2>2
<1> QED
  BY <1>1, <1>3, <1>4, <1>5, <1>6 DEF IsFirstStop

\* The timer gives up a pbuf, or moves the cursor, if it transmits nothing.
LEMMA NothingTransmitted ==
  ASSUME TypeOK, OutputTmr, NEW e \in Dest,
         ~\E d \in Dest : \E i \in DOMAIN chain[d] :
             g_curr_msg = d /\ IsFirstStop(d, i) /\ Transmit(d, i)
  PROVE  QuietStep(e)
<1>1. ASSUME NEW d \in Range(oput_msg_list), g_curr_msg = d,
             NEW i \in DOMAIN chain[d], IsFirstStop(d, i), Transmit(d, i)
      PROVE  FALSE
  BY <1>1, PickedItem
<1>2. ASSUME NEW d \in Range(oput_msg_list), NEW i \in DOMAIN chain[d],
             GiveUp(d, i)
      PROVE  QuietStep(e)
  <2>1. d \in Dest
    BY PickedItem
  <2>2. e # d => chain'[e] = chain[e]
    BY <1>2 DEF GiveUp, TypeOK
  <2>3. chain'[d] = Keep(chain[d], DOMAIN chain[d] \ {i})
    BY <1>2, <2>1 DEF GiveUp, Unlink, TypeOK
  <2>4. DOMAIN chain[d] \ {i} \in SUBSET (DOMAIN chain[d])
    OBVIOUS
  <2> QED
    BY <2>2, <2>3, <2>4 DEF QuietStep, Shrinks
<1>3. ASSUME NEW d \in Range(oput_msg_list), MoveOn(d)
      PROVE  QuietStep(e)
  BY <1>3 DEF MoveOn, QuietStep
<1>4. CASE UNCHANGED <<g_curr_msg, chain, packets, live, aired>>
  BY <1>4 DEF QuietStep
<1> QED
  BY <1>1, <1>2, <1>3, <1>4 DEF OutputTmr

\* When no pbuf is to be transmitted again, none is until one is transmitted.
LEMMA NoneWaits ==
  ASSUME TypeOK, \A d \in Dest : QuietStep(d),
         \A d \in Dest : \A i \in DOMAIN chain[d] : ~Pending(chain[d][i])
  PROVE  AttemptsTogether'
<1>1. ASSUME NEW d \in Dest, NEW j \in DOMAIN chain'[d]
      PROVE  ~Pending(chain'[d][j])
  <2>1. PICK m : Origins(d, m)
    BY QueueOrigins
  <2>2. CASE m[j] \in DOMAIN chain[d] /\ SamePbuf(chain[d][m[j]], chain'[d][j])
    BY <2>2, SamePbufWaits
  <2>3. CASE chain'[d][j].retry = 0
    BY <2>3 DEF Pending
  <2> QED
    BY <2>1, <2>2, <2>3, OldOrNew
<1> QED
  BY <1>1 DEF AttemptsTogether

LEMMA TogetherStep ==
  ASSUME TypeOK, ListInv, AttemptsTogether, NeverStranded, [Next]_vars
  PROVE  AttemptsTogether'
<1>1. TypeOK' /\ ListInv'
  BY TypeStep, ListStep
<1>2. CASE Quiet
  BY <1>1, <1>2, PendingStaysTogether
<1>3. CASE OutputTmr
  <2>1. ASSUME NEW d \in Dest, NEW i \in DOMAIN chain[d],
               g_curr_msg = d, IsFirstStop(d, i), Transmit(d, i)
        PROVE  AttemptsTogether'
    BY <2>1, TransmitTogether
  <2>2. CASE ~\E d \in Dest : \E i \in DOMAIN chain[d] :
                g_curr_msg = d /\ IsFirstStop(d, i) /\ Transmit(d, i)
    <3>1. \A d \in Dest : \A i \in DOMAIN chain[d] : ~Pending(chain[d][i])
      BY <1>3, <2>2, PendingIsTransmitted
    <3>2. \A e \in Dest : QuietStep(e)
      BY <1>3, <2>2, NothingTransmitted
    <3> QED
      BY <3>1, <3>2, NoneWaits
  <2> QED
    BY <2>1, <2>2
<1> QED
  BY <1>2, <1>3 DEF Next, Tick, Quiet

\* The attempts for a pbuf follow one another, fragments or not, as long as its
\* item is not skipped before they are used up: whatever else the application
\* sends, the peers acknowledge and the timers remove, the cursor stays on that
\* item (send_pbuf_find, oput_msg_item_move).
THEOREM AttemptsFollowOneAnother ==
  Spec /\ []NeverStranded => []AttemptsTogether
<1>1. Init => AttemptsTogether
  BY DEF Init, AttemptsTogether
<1>2. TypeOK /\ ListInv /\ AttemptsTogether /\ NeverStranded /\ [Next]_vars
        => AttemptsTogether'
  BY TogetherStep
<1> QED
  BY <1>1, <1>2, ListInvariant, PTL DEF Spec

\* When no datagram is cut, a counter is never 0 while pbufs wait, and what is
\* left of NeverStranded is that queues are drained in time.
LEMMA DrainedIsSendable ==
  ASSUME TypeOK, CountInv, DrainedBeforeOld
  PROVE  NeverStranded
<1> SUFFICES ASSUME NEW d \in Dest, NEW i \in DOMAIN chain[d] PROVE Sendable(d)
  BY DEF NeverStranded
<1>1. chain[d] # <<>> /\ Len(chain[d]) # 0
  <2>1. DOMAIN chain[d] = 1..Len(chain[d])
    BY QueuedPbuf
  <2> QED
    BY <2>1
<1>2. d \in Range(oput_msg_list)
  BY <1>1 DEF CountInv, ListInv, NoResidue
<1>3. old_age[d] < OldAge
  BY <1>1, <1>2 DEF DrainedBeforeOld
<1>4. packets[d] # 0
  BY <1>1 DEF CountInv, LengthsCounted
<1> QED
  BY <1>1, <1>3, <1>4 DEF Sendable

\* So they do if no datagram is cut and each queue is drained before its item
\* is too old.
THEOREM SinglesFollowOneAnother ==
  ASSUME Unfragmented
  PROVE  Spec /\ []DrainedBeforeOld => []AttemptsTogether
<1>1. TypeOK /\ CountInv /\ DrainedBeforeOld => NeverStranded
  BY DrainedIsSendable
<1>2. Spec /\ []DrainedBeforeOld => []NeverStranded
  BY <1>1, CountInvariant, PTL
<1> QED
  BY <1>2, AttemptsFollowOneAnother, PTL

=============================================================================

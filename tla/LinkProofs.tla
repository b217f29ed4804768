----------------------------- MODULE LinkProofs -----------------------------
(***************************************************************************)
(* Proofs about two nodes and the radio between them, for all destinations,*)
(* datagrams, limits and timer intervals.                                  *)
(***************************************************************************)
EXTENDS Link, OutputMgrProofs

(***************************************************************************)
(* The invariant.                                                          *)
(***************************************************************************)

\* Milliseconds until the timer of each node expires.
Ls == left["sender"]
Lr == left["receiver"]
Longest == Interval + Jitter

TableItem == [state : {"EMPTY", "EXISTED"}, ctime : Nat,
              key : [addr : {Source}, seqnum : Nat, offset : Nat] \cup {NoKey}]

\* The fields of both nodes that OutputMgr does not have.  An answer is one
\* to a frame that was transmitted.
LinkType ==
  /\ air \in [dest : Dest, pbuf : Pbuf] \cup {NoFrame}
  /\ answer \in aired \cup {NoFrame}
  /\ received \in [Dest -> Seq(Nat)]
  /\ left \in [Node -> 0..Longest]
  /\ iput_msg_que \in [In!Slot -> TableItem]
  /\ due = "send" => Ls = 0

\* What is in the air was taken from a queue: an answer to it is expected.
AirIsAired ==
  air # NoFrame =>
    /\ air.dest \in Unicast /\ air.pbuf.ack => FrameOf(air.dest, air.pbuf) \in aired
    /\ air.pbuf.dg < g_seqnum
    /\ air.pbuf.retry < MaxRetries
    /\ air.pbuf.frag <= air.pbuf.frags

\* Datagrams are queued in the order they were sent.
QueueSorted(s) == \A i, j \in DOMAIN s : i < j => s[i].dg <= s[j].dg
Sorted == \A d \in Dest : QueueSorted(chain[d])

\* Pbuf b, which is in the air, comes before pbuf q of the queue it was taken
\* from, unless q is acknowledged, is b itself, or a fragment that follows b.
ComesBefore(b, q) ==
  ~q.sent => \/ q.dg > b.dg
             \/ q.dg = b.dg /\ MoreFrag(b)
             \/ Id(q) = Id(b) /\ q.retry > 0

AirIsFirst ==
  air # NoFrame =>
    \A i \in DOMAIN chain[air.dest] : ComesBefore(air.pbuf, chain[air.dest][i])

\* A receiver with table t, whose timer expires in lr milliseconds, remembers
\* key k, and has remembered it for no longer than spent milliseconds, the last
\* ago of which are still to come.
Remembers(t, k, ago, spent, lr) ==
  \E s \in In!Slot : /\ t[s].state = "EXISTED" /\ t[s].key = k
                     /\ t[s].ctime * Interval + ago <= spent + lr

\* Datagram r was received, pbuf q waits: r comes before q, or q is remembered
\* as long as it may be transmitted again.
Settled(r, q, t, ls, lr) ==
  ~q.sent =>
    \/ r < q.dg
    \/ /\ r = q.dg /\ q.retry > 0
       /\ Pending(q) => Remembers(t, Key(q), ls, q.retry * Longest, lr)

ReceivedIsOld ==
  \A d \in Dest : \A n \in DOMAIN received[d] : \A i \in DOMAIN chain[d] :
    Settled(received[d][n], chain[d][i], iput_msg_que, Ls, Lr)

\* The same for what is in the air.
Repeats(r, b, t, lr) ==
  \/ r < b.dg
  \/ r = b.dg /\ Remembers(t, Key(b), 0, b.retry * Longest, lr)

RepeatIsHeld ==
  air # NoFrame =>
    \A n \in DOMAIN received[air.dest] :
      Repeats(received[air.dest][n], air.pbuf, iput_msg_que, Lr)

Numbered ==
  \A d \in Dest : \A n \in DOMAIN received[d] : received[d][n] < g_seqnum

Base ==
  TypeOK /\ ListInv /\ HeapInv /\ ShapeInv /\ Sorted /\ LinkType /\ AirIsAired
  /\ Numbered

Once == AttemptsTogether /\ AirIsFirst /\ ReceivedIsOld /\ RepeatIsHeld

-----------------------------------------------------------------------------
(***************************************************************************)
(* The sender of the link is the output manager.                           *)
(***************************************************************************)

LEMMA TimerType ==
  /\ Interval \in Nat /\ Longest \in Nat /\ Interval <= Longest /\ 0 < Interval
  /\ MaxRetries \in Nat /\ 0 < MaxRetries /\ MaxAge \in Nat
BY ClockAssumption, LimitsAssumption, TableAssumption DEF Longest

LEMMA SenderSteps ==
  ASSUME LinkType, [LinkNext]_lvars
  PROVE  [Next]_vars
<1>1. CASE UNCHANGED lvars
  BY <1>1 DEF lvars
<1>2. CASE SenderAges
  BY <1>2 DEF SenderAges, Next, Tick
<1>3. CASE SenderTransmits
  BY <1>3 DEF SenderTransmits, Next, Tick
<1>4. CASE SenderSends
  BY <1>4 DEF SenderSends, Next
<1>5. CASE SenderIsAnswered
  <2>1. CASE Expected(answer)
    <3>1. answer \in aired /\ RecvAck(answer)
      BY <1>5, <2>1 DEF SenderIsAnswered, LinkType
    <3> QED
      BY <3>1 DEF Next
  <2>2. CASE ~Expected(answer)
    BY <1>5, <2>2 DEF SenderIsAnswered
  <2> QED
    BY <2>1, <2>2
<1>6. CASE ReceiverTicks \/ TimePasses \/ ReceiverHasFrame \/ FrameLost
           \/ AnswerLost
  BY <1>6 DEF ReceiverTicks, TimePasses, ReceiverHasFrame, FrameLost, AnswerLost
<1> QED
  BY <1>1, <1>2, <1>3, <1>4, <1>5, <1>6 DEF LinkNext, Progress

\* What SenderTransmits puts into the air is the pbuf that OutputTmr transmits.
LEMMA TransmittedFrame ==
  ASSUME TypeOK, ListInv, SenderTransmits, air' # NoFrame
  PROVE  \E d \in Range(oput_msg_list) : \E i \in DOMAIN chain[d] :
           /\ air' = [dest |-> d, pbuf |-> chain[d][i]]
           /\ g_curr_msg = d /\ Sendable(d) /\ IsFirstStop(d, i)
           /\ Transmit(d, i) /\ chain[d][i].card
<1>1. PICK t \in ToTransmit : air' = [dest |-> t[1], pbuf |-> chain[t[1]][t[2]]]
  <2>1. ToTransmit # {}
    BY DEF SenderTransmits
  <2> QED
    BY <2>1 DEF SenderTransmits
<1>6. PICK d \in Dest, i \in 1..MaxPbufs : t = <<d, i>>
  BY DEF ToTransmit
<1>2. /\ g_curr_msg = d /\ Sendable(d) /\ IsFirstStop(d, i)
      /\ chain[d][i].retry < MaxRetries /\ chain[d][i].card
  BY <1>6 DEF ToTransmit
<1>3. d \in Range(oput_msg_list) /\ i \in DOMAIN chain[d] /\ Stops(chain[d][i])
  BY <1>2 DEF ListInv, NoResidue, Sendable, IsFirstStop
<1>4. OutputTmr
  BY DEF SenderTransmits
<1>5. Transmit(d, i)
  <2>1. \/ \E j \in DOMAIN chain[d] :
             IsFirstStop(d, j) /\ (Transmit(d, j) \/ GiveUp(d, j))
        \/ ~Sendable(d) \/ \A j \in DOMAIN chain[d] : ~Stops(chain[d][j])
    BY <1>2, <1>3, <1>4 DEF OutputTmr
  <2>2. PICK j \in DOMAIN chain[d] :
             IsFirstStop(d, j) /\ (Transmit(d, j) \/ GiveUp(d, j))
    BY <1>2, <1>3, <2>1
  <2>3. j = i
    BY <1>2, <2>2, OneFirstStop
  <2>4. ~GiveUp(d, i)
    <3>1. chain[d][i].retry \in Nat /\ MaxRetries \in Nat
      BY <1>2, <1>3, QueuedPbuf, TimerType
    <3> QED
      BY <1>2, <3>1 DEF GiveUp
  <2> QED
    BY <2>2, <2>3, <2>4
<1> QED
  BY <1>1, <1>2, <1>3, <1>5, <1>6

LEMMA TakenFromQueue ==
  ASSUME TypeOK, ListInv, HeapInv, ShapeInv, SenderTransmits
  PROVE  /\ air' \in [dest : Dest, pbuf : Pbuf] \cup {NoFrame}
         /\ AirIsAired'
<1>1. SUFFICES ASSUME air' # NoFrame
               PROVE  /\ air' \in [dest : Dest, pbuf : Pbuf]
                      /\ AirIsAired'
  BY DEF AirIsAired
<1>10. PICK d \in Range(oput_msg_list) : \E i \in DOMAIN chain[d] :
           /\ air' = [dest |-> d, pbuf |-> chain[d][i]]
           /\ Transmit(d, i) /\ chain[d][i].card
  BY <1>1, TransmittedFrame
<1>2. PICK i \in DOMAIN chain[d] :
           /\ air' = [dest |-> d, pbuf |-> chain[d][i]]
           /\ Transmit(d, i) /\ chain[d][i].card
  BY <1>10
<1>3. d \in Dest
  BY PickedItem
<1>4. chain[d][i] \in Pbuf
  BY <1>3, QueuedPbuf
<1>5. g_seqnum' = g_seqnum
  BY DEF SenderTransmits, OutputTmr
<1>6. chain[d][i].dg < g_seqnum
  <2>1. Id(chain[d][i]) \in Ids(chain[d])
    BY DEF Ids
  <2> QED
    BY <1>3, <2>1 DEF HeapInv, Fresh, Id
<1>7. chain[d][i].frag <= chain[d][i].frags
  BY <1>3 DEF ShapeInv, QueueShape
<1>8. chain[d][i].retry < MaxRetries
      /\ (chain[d][i].ack /\ d \in Unicast =>
            FrameOf(d, chain[d][i]) \in aired')
  BY <1>2 DEF Transmit
<1>9. air'.dest = d /\ air'.pbuf = chain[d][i]
  BY <1>2
<1> QED
  BY <1>2, <1>3, <1>4, <1>5, <1>6, <1>7, <1>8, <1>9 DEF AirIsAired

-----------------------------------------------------------------------------
(***************************************************************************)
(* The type of the link, and what every step keeps of it.                  *)
(***************************************************************************)

LEMMA AiredGrows ==
  ASSUME TypeOK, [Next]_vars
  PROVE  aired \subseteq aired' /\ g_seqnum' \in Nat /\ g_seqnum <= g_seqnum'
<1>1. g_seqnum \in Nat
  BY DEF TypeOK
<1>2. CASE \E d \in Dest, k \in Kinds : Send(d, k)
  BY <1>1, <1>2 DEF Send
<1>3. CASE OldAgeTmr
  BY <1>1, <1>3 DEF OldAgeTmr
<1>4. CASE OutputTmr
  BY <1>1, <1>4 DEF OutputTmr, Transmit, GiveUp, MoveOn
<1>5. CASE \E f \in aired : RecvAck(f)
  BY <1>1, <1>5 DEF RecvAck
<1>6. CASE UNCHANGED vars
  BY <1>1, <1>6 DEF vars
<1> QED
  BY <1>2, <1>3, <1>4, <1>5, <1>6 DEF Next, Tick

\* Time passes until the first of the two timers expires.
LEMMA FirstTimer ==
  ASSUME LinkType
  PROVE  LET t == CHOOSE n \in {left[x] : x \in Node} : \A x \in Node : n <= left[x]
         IN  t \in Nat /\ t <= Ls /\ t <= Lr /\ Ls \in Nat /\ Lr \in Nat
<1>1. Ls \in Nat /\ Lr \in Nat
  BY TimerType DEF LinkType, Ls, Lr, Node
<1>2. \E n \in {left[x] : x \in Node} : \A x \in Node : n <= left[x]
  <2>1. CASE Ls <= Lr
    BY <1>1, <2>1 DEF Ls, Lr, Node
  <2>2. CASE Lr <= Ls
    BY <1>1, <2>2 DEF Ls, Lr, Node
  <2> QED
    BY <1>1, <2>1, <2>2
<1> DEFINE t == CHOOSE n \in {left[x] : x \in Node} : \A x \in Node : n <= left[x]
<1>3. t \in {left[x] : x \in Node} /\ \A x \in Node : t <= left[x]
  BY <1>2
<1> HIDE DEF t
<1>4. t \in Nat /\ t <= Ls /\ t <= Lr
  BY <1>1, <1>3 DEF Ls, Lr, Node
<1> QED
  BY <1>1, <1>4 DEF t

LEMMA RearmType ==
  ASSUME LinkType, NEW node \in Node, Rearm(node)
  PROVE  /\ left' \in [Node -> 0..Longest]
         /\ \A x \in Node \ {node} : left'[x] = left[x]
         /\ left'[node] \in Interval..Longest
<1>1. PICK t \in Interval..Longest : left' = [left EXCEPT ![node] = t]
  BY DEF Rearm, Longest
<1>2. t \in 0..Longest
  BY <1>1, TimerType
<1> QED
  BY <1>1, <1>2 DEF LinkType

LEMMA KeyType ==
  ASSUME NEW b \in Pbuf
  PROVE  Key(b) \in [addr : {Source}, seqnum : Nat, offset : Nat]
<1>1. b.dg \in Nat /\ b.frag \in Nat \ {0} /\ SeqMod \in Nat \ {0}
  BY LimitsAssumption DEF Pbuf
<1>2. SeqNum(b) \in Nat /\ b.frag - 1 \in Nat
  BY <1>1 DEF SeqNum
<1> QED
  BY <1>2 DEF Key

LEMMA AirType ==
  ASSUME LinkType, air # NoFrame
  PROVE  /\ air.dest \in Dest /\ air.pbuf \in Pbuf
         /\ air.pbuf.dg \in Nat /\ air.pbuf.frag \in Nat \ {0}
         /\ air.pbuf.retry \in Nat /\ air.pbuf.frags \in Nat \ {0}
<1>1. air.dest \in Dest /\ air.pbuf \in Pbuf
  BY DEF LinkType
<1> QED
  BY <1>1, TimerType DEF Pbuf

LEMMA AppendedElements ==
  ASSUME NEW s \in Seq(Nat), NEW x \in Nat
  PROVE  \A n \in DOMAIN Append(s, x) :
           \/ n \in DOMAIN s /\ Append(s, x)[n] = s[n]
           \/ Append(s, x)[n] = x
<1>1. Len(s) \in Nat /\ DOMAIN s = 1..Len(s)
      /\ DOMAIN Append(s, x) = 1..(Len(s) + 1)
  OBVIOUS
<1>2. TAKE n \in DOMAIN Append(s, x)
<1>3. CASE n <= Len(s)
  BY <1>1, <1>2, <1>3
<1>4. CASE n = Len(s) + 1
  BY <1>1, <1>2, <1>4
<1> QED
  BY <1>1, <1>2, <1>3, <1>4

\* What a frame may do to what was received.
LEMMA HandedOver ==
  ASSUME LinkType, ReceiverHasFrame
  PROVE  /\ received' \in [Dest -> Seq(Nat)]
         /\ received' = received \/ HandOver(air)
<1>1. air # NoFrame /\ (received' = received \/ HandOver(air))
  BY DEF ReceiverHasFrame, PassOn
<1>2. air.dest \in Dest /\ air.pbuf.dg \in Nat
  BY <1>1, AirType
<1> DEFINE more == Append(received[air.dest], air.pbuf.dg)
<1>3. received \in [Dest -> Seq(Nat)] /\ more \in Seq(Nat)
  BY <1>2 DEF LinkType
<1>4. HandOver(air) => received' = [received EXCEPT ![air.dest] = more]
  BY DEF HandOver
<1> HIDE DEF more
<1> QED
  BY <1>1, <1>2, <1>3, <1>4

LEMMA FilledTable ==
  ASSUME NEW k \in [addr : {Source}, seqnum : Nat, offset : Nat], In!Fill(k),
         iput_msg_que \in [In!Slot -> TableItem]
  PROVE  /\ iput_msg_que' \in [In!Slot -> TableItem]
         /\ \E s \in In!Slot :
              /\ ~In!Existed(s)
              /\ iput_msg_que'[s] = [state |-> "EXISTED", ctime |-> 0, key |-> k]
              /\ \A r \in In!Slot \ {s} : iput_msg_que'[r] = iput_msg_que[r]
<1> DEFINE new == [state |-> "EXISTED", ctime |-> 0, key |-> k]
<1>1. new \in TableItem
  BY DEF TableItem
<1>2. PICK s \in In!Slot : ~In!Existed(s) /\ iput_msg_que' = [iput_msg_que EXCEPT ![s] = new]
  BY DEF In!Fill, In!FirstEmpty
<1> HIDE DEF new
<1>3. /\ iput_msg_que' \in [In!Slot -> TableItem]
      /\ iput_msg_que'[s] = new
      /\ \A r \in In!Slot \ {s} : iput_msg_que'[r] = iput_msg_que[r]
  BY <1>1, <1>2
<1> QED
  BY <1>2, <1>3 DEF new

LEMMA TickedTable ==
  ASSUME In!Tick, iput_msg_que \in [In!Slot -> TableItem]
  PROVE  /\ iput_msg_que' \in [In!Slot -> TableItem]
         /\ \A s \in In!Slot :
              /\ iput_msg_que'[s].key = iput_msg_que[s].key
              /\ In!Existed(s) =>
                   /\ iput_msg_que'[s].ctime = iput_msg_que[s].ctime + 1
                   /\ iput_msg_que[s].ctime + 1 < MaxAge =>
                        iput_msg_que'[s].state = "EXISTED"
              /\ iput_msg_que'[s].state = "EXISTED" => In!Existed(s)
<1> SUFFICES ASSUME NEW s \in In!Slot
             PROVE  /\ iput_msg_que'[s] \in TableItem
                    /\ iput_msg_que'[s].key = iput_msg_que[s].key
                    /\ In!Existed(s) =>
                         /\ iput_msg_que'[s].ctime = iput_msg_que[s].ctime + 1
                         /\ iput_msg_que[s].ctime + 1 < MaxAge =>
                              iput_msg_que'[s].state = "EXISTED"
                    /\ iput_msg_que'[s].state = "EXISTED" => In!Existed(s)
  BY DEF In!Tick
<1>1. iput_msg_que[s] \in TableItem
  OBVIOUS
<1>2. /\ iput_msg_que[s].ctime \in Nat /\ iput_msg_que[s].state \in {"EMPTY", "EXISTED"}
      /\ iput_msg_que[s] = [state |-> iput_msg_que[s].state,
                            ctime |-> iput_msg_que[s].ctime,
                            key |-> iput_msg_que[s].key]
      /\ iput_msg_que[s].key \in
           [addr : {Source}, seqnum : Nat, offset : Nat] \cup {NoKey}
  BY <1>1 DEF TableItem
<1>3. CASE ~In!Existed(s)
  <2>1. iput_msg_que'[s] = iput_msg_que[s]
    BY <1>3 DEF In!Tick
  <2> QED
    BY <1>1, <1>3, <2>1 DEF In!Existed
<1>4. CASE In!Existed(s)
  <2> DEFINE n == iput_msg_que[s].ctime + 1
             st == IF In!TooOld(n) THEN "EMPTY" ELSE "EXISTED"
             it == iput_msg_que[s]
  <2>1. iput_msg_que'[s] = [it EXCEPT !.ctime = n, !.state = st]
    BY <1>4 DEF In!Tick, In!Older
  <2>2. st \in {"EMPTY", "EXISTED"} /\ n \in Nat
    BY <1>2
  <2>3. n < MaxAge => st = "EXISTED"
    BY <2>2, TimerType DEF In!TooOld
  <2> HIDE DEF st
  <2>4. /\ iput_msg_que'[s].ctime = n /\ iput_msg_que'[s].state = st
        /\ iput_msg_que'[s].key = it.key
        /\ iput_msg_que'[s] = [state |-> st, ctime |-> n, key |-> it.key]
    BY <1>2, <2>1
  <2>5. iput_msg_que'[s] \in TableItem
    BY <1>2, <2>2, <2>4 DEF TableItem
  <2> QED
    BY <1>4, <2>3, <2>4, <2>5
<1> QED
  BY <1>3, <1>4

LEMMA LinkTypeStep ==
  ASSUME Base, [LinkNext]_lvars
  PROVE  LinkType' /\ AirIsAired' /\ Numbered'
<1>1. TypeOK /\ ListInv /\ HeapInv /\ ShapeInv /\ LinkType /\ AirIsAired
      /\ Numbered /\ g_seqnum \in Nat
  BY DEF Base, TypeOK
<1>2. aired \subseteq aired' /\ g_seqnum' \in Nat /\ g_seqnum <= g_seqnum'
  BY <1>1, SenderSteps, AiredGrows
<1>3. ASSUME received' = received PROVE Numbered'
  <2>1. SUFFICES ASSUME NEW d \in Dest, NEW n \in DOMAIN received[d]
                 PROVE  received[d][n] < g_seqnum'
    BY <1>3 DEF Numbered
  <2>2. received[d][n] \in Nat /\ received[d][n] < g_seqnum
    BY <1>1 DEF LinkType, Numbered
  <2> QED
    BY <1>1, <1>2, <2>2
<1>4. ASSUME air' = air PROVE AirIsAired'
  <2>1. SUFFICES ASSUME air # NoFrame PROVE AirIsAired'
    BY <1>4 DEF AirIsAired
  <2>2. air.pbuf.dg \in Nat /\ air.pbuf.dg < g_seqnum
    BY <1>1, <2>1, AirType DEF AirIsAired
  <2> QED
    BY <1>1, <1>2, <1>4, <2>1, <2>2 DEF AirIsAired
<1>5. air' = NoFrame => AirIsAired' /\ air' \in {air, NoFrame}
  BY DEF AirIsAired
<1>6. ASSUME air' \in {air, NoFrame}, answer' \in {answer, NoFrame},
             received' = received, left' = left, iput_msg_que' = iput_msg_que,
             due' = "send" => Ls = 0
      PROVE  LinkType'
  <2>1. answer' \in aired' \cup {NoFrame}
    BY <1>1, <1>2, <1>6 DEF LinkType
  <2> QED
    BY <1>1, <1>6, <2>1 DEF LinkType, Ls
<1>7. CASE UNCHANGED lvars
  <2>1. /\ air' = air /\ answer' = answer /\ received' = received
        /\ left' = left /\ iput_msg_que' = iput_msg_que /\ due' = due
    BY <1>7 DEF lvars, inVars, vars
  <2> QED
    BY <1>1, <1>3, <1>4, <1>6, <2>1 DEF LinkType
<1>8. CASE SenderAges
  <2>1. /\ air' = air /\ answer' = answer /\ received' = received
        /\ left' = left /\ iput_msg_que' = iput_msg_que /\ Ls = 0
    BY <1>8 DEF SenderAges, inVars, Ls
  <2> QED
    BY <1>3, <1>4, <1>6, <2>1
<1>9. CASE SenderTransmits
  <2>1. /\ answer' = answer /\ received' = received
        /\ iput_msg_que' = iput_msg_que /\ due' = "age"
    BY <1>9 DEF SenderTransmits, inVars, OutputTmr
  <2>2. air' \in [dest : Dest, pbuf : Pbuf] \cup {NoFrame} /\ AirIsAired'
    BY <1>1, <1>9, TakenFromQueue
  <2>3. left' \in [Node -> 0..Longest]
    BY <1>1, <1>9, RearmType DEF SenderTransmits, Node
  <2>4. LinkType'
    BY <1>1, <1>2, <2>1, <2>2, <2>3 DEF LinkType
  <2> QED
    BY <1>3, <2>1, <2>2, <2>4
<1>10. CASE SenderSends
  <2>1. /\ air' = air /\ answer' = answer /\ received' = received
        /\ left' = left /\ iput_msg_que' = iput_msg_que
    BY <1>10 DEF SenderSends, inVars
  <2>2. due' = due
    BY <1>10 DEF SenderSends, Send
  <2> QED
    BY <1>1, <1>3, <1>4, <1>6, <2>1, <2>2 DEF LinkType
<1>11. CASE SenderIsAnswered
  <2>1. /\ air' = air /\ answer' = NoFrame /\ received' = received
        /\ left' = left /\ iput_msg_que' = iput_msg_que
    BY <1>11 DEF SenderIsAnswered, inVars
  <2>2. due' = due
    BY <1>11 DEF SenderIsAnswered, RecvAck, vars
  <2> QED
    BY <1>1, <1>3, <1>4, <1>6, <2>1, <2>2 DEF LinkType
<1>12. CASE ReceiverHasFrame
  <2>1. air # NoFrame /\ air' = NoFrame /\ answer' = Answered(air)
        /\ left' = left /\ due' = due /\ aired' = aired
    BY <1>12 DEF ReceiverHasFrame, vars
  <2>2. received' \in [Dest -> Seq(Nat)]
    BY <1>1, <1>12, HandedOver
  <2>3. iput_msg_que' \in [In!Slot -> TableItem]
    <3>1. Key(air.pbuf) \in [addr : {Source}, seqnum : Nat, offset : Nat]
      BY <1>1, <2>1, AirType, KeyType
    <3>2. In!Fill(Key(air.pbuf)) \/ iput_msg_que' = iput_msg_que
      BY <1>12 DEF ReceiverHasFrame, In!AlreadyExists, In!QueueFull
    <3> QED
      BY <1>1, <3>1, <3>2, FilledTable DEF LinkType
  <2>4. answer' \in aired' \cup {NoFrame}
    BY <1>1, <2>1 DEF Answered, AirIsAired, LinkType
  <2>5. LinkType'
    BY <1>1, <2>1, <2>2, <2>3, <2>4 DEF LinkType, Ls
  <2>6. Numbered'
    <3>1. CASE received' = received
      BY <1>3, <3>1
    <3>2. CASE HandOver(air)
      <4>1. air.dest \in Dest /\ air.pbuf.dg \in Nat /\ air.pbuf.dg < g_seqnum
        BY <1>1, <2>1, AirType DEF AirIsAired
      <4>2. SUFFICES ASSUME NEW d \in Dest, NEW n \in DOMAIN received'[d]
                     PROVE  received'[d][n] < g_seqnum'
        BY DEF Numbered
      <4>3. received[d] \in Seq(Nat)
        BY <1>1 DEF LinkType
      <4>4. \/ received'[d] = received[d]
            \/ d = air.dest /\ received'[d] = Append(received[d], air.pbuf.dg)
        BY <1>1, <3>2, <4>1 DEF HandOver, LinkType
      <4>5. \/ n \in DOMAIN received[d] /\ received'[d][n] = received[d][n]
            \/ received'[d][n] = air.pbuf.dg
        BY <4>1, <4>2, <4>3, <4>4, AppendedElements
      <4>6. CASE n \in DOMAIN received[d] /\ received'[d][n] = received[d][n]
        <5>1. received[d][n] \in Nat /\ received[d][n] < g_seqnum
          BY <1>1, <4>3, <4>6 DEF Numbered
        <5> QED
          BY <1>1, <1>2, <4>6, <5>1
      <4> QED
        BY <1>1, <1>2, <4>1, <4>5, <4>6
    <3> QED
      BY <1>1, <1>12, <3>1, <3>2, HandedOver
  <2> QED
    BY <1>5, <2>1, <2>5, <2>6
<1>13. CASE ReceiverTicks
  <2>1. air' = air /\ answer' = answer /\ received' = received
        /\ due' = due
    BY <1>13 DEF ReceiverTicks, vars
  <2>2. left' \in [Node -> 0..Longest] /\ left'["sender"] = left["sender"]
    BY <1>1, <1>13, RearmType DEF ReceiverTicks, Node
  <2>3. iput_msg_que' \in [In!Slot -> TableItem]
    BY <1>1, <1>13, TickedTable DEF ReceiverTicks, LinkType
  <2>4. answer' \in aired' \cup {NoFrame}
    BY <1>1, <1>2, <2>1 DEF LinkType
  <2>5. LinkType'
    BY <1>1, <2>1, <2>2, <2>3, <2>4 DEF LinkType, Ls
  <2> QED
    BY <1>3, <1>4, <2>1, <2>5
<1>14. CASE TimePasses
  <2> DEFINE t == CHOOSE n \in {left[x] : x \in Node} : \A x \in Node : n <= left[x]
  <2>1. air' = air /\ answer' = answer /\ received' = received /\ due' = "age"
        /\ iput_msg_que' = iput_msg_que /\ left' = [x \in Node |-> left[x] - t]
    BY <1>14 DEF TimePasses, vars, inVars
  <2>2. t \in Nat /\ t <= Ls /\ t <= Lr
    BY <1>1, FirstTimer
  <2> HIDE DEF t
  <2>3. left' \in [Node -> 0..Longest]
    <3>1. \A x \in Node : left[x] \in 0..Longest /\ t <= left[x]
      BY <1>1, <2>2 DEF LinkType, Ls, Lr, Node
    <3>2. \A x \in Node : left[x] - t \in 0..Longest
      BY <2>2, <3>1, TimerType
    <3> QED
      BY <2>1, <3>2
  <2>4. answer' \in aired' \cup {NoFrame}
    BY <1>1, <1>2, <2>1 DEF LinkType
  <2>5. LinkType'
    BY <1>1, <2>1, <2>3, <2>4 DEF LinkType
  <2> QED
    BY <1>3, <1>4, <2>1, <2>5
<1>15. CASE FrameLost \/ AnswerLost
  <2>1. /\ air' \in {air, NoFrame} /\ answer' \in {answer, NoFrame}
        /\ received' = received /\ left' = left /\ iput_msg_que' = iput_msg_que
        /\ due' = due
    BY <1>15 DEF FrameLost, AnswerLost, inVars, vars
  <2>2. LinkType'
    BY <1>1, <1>6, <2>1 DEF LinkType
  <2> QED
    BY <1>3, <1>4, <1>5, <2>1, <2>2
<1> QED
  BY <1>7, <1>8, <1>9, <1>10, <1>11, <1>12, <1>13, <1>14, <1>15
     DEF LinkNext, Progress

LEMMA SortedQueue ==
  ASSUME TypeOK, Fresh, NEW d \in Dest, QueueSorted(chain[d]), QueueStep(d)
  PROVE  QueueSorted(chain'[d])
<1>1. DOMAIN chain[d] = 1..Len(chain[d]) /\ Len(chain[d]) \in Nat
      /\ g_seqnum \in Nat
  BY QueuedPbuf DEF TypeOK
<1>2. \A i \in DOMAIN chain[d] : chain[d][i].dg \in Nat /\ chain[d][i].dg < g_seqnum
  <2>1. TAKE i \in DOMAIN chain[d]
  <2>2. Id(chain[d][i]) \in Ids(chain[d])
    BY DEF Ids
  <2> QED
    BY <2>2 DEF Fresh, Id
<1>3. CASE QuietStep(d)
  <2>1. PICK m : Origins(d, m)
    BY <1>3, QueueOrigins
  <2>2. SUFFICES ASSUME NEW i \in DOMAIN chain'[d], NEW j \in DOMAIN chain'[d], i < j
                 PROVE  chain'[d][i].dg <= chain'[d][j].dg
    BY DEF QueueSorted
  <2>3. m[i] < m[j] /\ m[i] \in Nat /\ m[j] \in Nat
    BY <2>1, <2>2 DEF Origins
  <2>4. \/ m[i] \in DOMAIN chain[d] /\ chain'[d][i].dg = chain[d][m[i]].dg
        \/ m[i] > Len(chain[d]) /\ chain'[d][i].dg = g_seqnum
    BY <2>1, <2>2 DEF Origins
  <2>5. \/ m[j] \in DOMAIN chain[d] /\ chain'[d][j].dg = chain[d][m[j]].dg
        \/ m[j] > Len(chain[d]) /\ chain'[d][j].dg = g_seqnum
    BY <2>1, <2>2 DEF Origins
  <2>6. CASE m[j] \in DOMAIN chain[d] /\ chain'[d][j].dg = chain[d][m[j]].dg
    <3>1. m[i] \in DOMAIN chain[d] /\ chain'[d][i].dg = chain[d][m[i]].dg
      BY <1>1, <2>3, <2>4, <2>6
    <3>2. chain[d][m[i]].dg <= chain[d][m[j]].dg
      BY <2>3, <2>6, <3>1 DEF QueueSorted
    <3> QED
      BY <2>6, <3>1, <3>2
  <2>7. CASE m[j] > Len(chain[d]) /\ chain'[d][j].dg = g_seqnum
    BY <1>1, <1>2, <2>4, <2>7
  <2> QED
    BY <2>5, <2>6, <2>7
<1>4. CASE Changes(d)
  <2>1. PICK i \in DOMAIN chain[d] : \E b \in Pbuf :
          chain'[d] = [chain[d] EXCEPT ![i] = b] /\ b.dg = chain[d][i].dg
    BY <1>4 DEF Changes
  <2>2. DOMAIN chain'[d] = DOMAIN chain[d]
        /\ \A j \in DOMAIN chain[d] : chain'[d][j].dg = chain[d][j].dg
    BY <1>1, <2>1
  <2> QED
    BY <2>2 DEF QueueSorted
<1> QED
  BY <1>3, <1>4 DEF QueueStep, QuietStep

LEMMA BaseStep == Base /\ [LinkNext]_lvars => Base'
<1> SUFFICES ASSUME Base, [LinkNext]_lvars PROVE Base'
  OBVIOUS
<1>1. TypeOK /\ ListInv /\ HeapInv /\ ShapeInv /\ Sorted /\ LinkType
  BY DEF Base
<1>2. [Next]_vars
  BY <1>1, SenderSteps
<1>3. TypeOK' /\ ListInv' /\ HeapInv'
  BY <1>1, <1>2, TypeStep, ListStep, HeapStep
<1>4. Fresh
  BY <1>1 DEF HeapInv
<1>5. ShapeInv'
  <2>1. \A d \in Dest : QueueShape(chain'[d])
    BY <1>1, <1>2, <1>4, QueueSteps, ShapeOfQueue DEF ShapeInv
  <2> QED
    BY <2>1 DEF ShapeInv
<1>6. Sorted'
  <2>1. \A d \in Dest : QueueSorted(chain'[d])
    BY <1>1, <1>2, <1>4, QueueSteps, SortedQueue DEF Sorted
  <2> QED
    BY <2>1 DEF Sorted
<1> QED
  BY <1>3, <1>5, <1>6, LinkTypeStep DEF Base

LEMMA BaseInit == LinkInit => Base
<1> SUFFICES ASSUME LinkInit PROVE Base
  OBVIOUS
<1>1. Init
  BY DEF LinkInit
<1>2. TypeOK /\ ListInv
  BY <1>1, TypeInit, ListInit
<1>3. HeapInv /\ ShapeInv /\ Sorted
  <2>1. \A d \in Dest : DOMAIN chain[d] = {} /\ Ids(chain[d]) = {}
    BY <1>1 DEF Init, Ids
  <2>2. NoDanglingPbuf /\ Fresh
    BY <2>1 DEF NoDanglingPbuf, Fresh
  <2>3. ShapeInv /\ Sorted
    BY <2>1 DEF ShapeInv, QueueShape, Sorted, QueueSorted
  <2> QED
    BY <2>2, <2>3 DEF HeapInv
<1>4. air = NoFrame /\ answer = NoFrame /\ received = [d \in Dest |-> <<>>]
      /\ left \in [Node -> 1..Interval] /\ In!Init /\ due = "age"
  BY <1>1 DEF LinkInit, Init
<1>5. iput_msg_que \in [In!Slot -> TableItem]
  BY <1>4 DEF In!Init, TableItem
<1>6. received \in [Dest -> Seq(Nat)]
  BY <1>4
<1>7. left \in [Node -> 0..Longest]
  BY <1>4, TimerType
<1>8. LinkType /\ AirIsAired /\ Numbered
  BY <1>4, <1>5, <1>6, <1>7 DEF LinkType, AirIsAired, Numbered
<1> QED
  BY <1>2, <1>3, <1>8 DEF Base

\* The state of both nodes keeps its types, and the sender's queues stay in
\* the order of their datagrams.
LEMMA BaseInvariant == LinkSpec => []Base
<1> QED
  BY BaseInit, BaseStep, PTL DEF LinkSpec

\* Whatever the channel and the receiver do, the sender of the link behaves as
\* OutputMgr says: all that is proved of the output manager holds of it here.
THEOREM SenderIsOutputMgr == LinkSpec => Spec
<1>1. Base /\ [LinkNext]_lvars => [Next]_vars
  BY SenderSteps DEF Base
<1>2. LinkInit => Init
  BY DEF LinkInit
<1> QED
  BY <1>1, <1>2, BaseInvariant, PTL DEF LinkSpec, Spec

-----------------------------------------------------------------------------
(***************************************************************************)
(* How long the receiver remembers.                                        *)
(***************************************************************************)

\* The table outlasts the attempts: all the attempts but the first, each after
\* the longest interval, take less time than the receiver, whose ticks may be
\* the shortest and the first of which may come at once, remembers a frame.
WindowCovers == (MaxRetries - 1) * Longest < (MaxAge - 1) * Interval

Table == [In!Slot -> TableItem]

\* The key of a frame has been remembered for 0 ms when it is entered.
LEMMA RememberedFirst ==
  ASSUME NEW t \in Table, NEW s \in In!Slot, NEW k, NEW ls \in 0..Longest,
         NEW lr \in Nat, NEW r \in Nat \ {0},
         t[s].state = "EXISTED", t[s].ctime = 0, t[s].key = k
  PROVE  Remembers(t, k, ls, r * Longest, lr)
<1>1. Longest \in Nat /\ Interval \in Nat /\ 0 * Interval = 0 /\ 1 * Longest = Longest
  BY TimerType, SMT
<1>2. r * Longest \in Nat /\ Longest <= r * Longest
  <2>1. 1 \in Nat /\ r \in Nat /\ 1 <= r
    OBVIOUS
  <2> QED
    BY <1>1, <2>1, Products
<1>3. t[s].ctime * Interval + ls <= r * Longest + lr
  BY <1>1, <1>2
<1> QED
  BY <1>3 DEF Remembers

\* Slots in use stay as they are: what was remembered still is.
LEMMA RememberedStill ==
  ASSUME NEW t, NEW u, NEW k, NEW ago, NEW spent, NEW lr,
         \A s \in In!Slot : t[s].state = "EXISTED" => u[s] = t[s],
         Remembers(t, k, ago, spent, lr)
  PROVE  Remembers(u, k, ago, spent, lr)
BY DEF Remembers

\* An attempt was made, the next one comes after ls milliseconds.
LEMMA RememberedAfterAttempt ==
  ASSUME NEW t \in Table, NEW k, NEW r \in Nat, NEW ls \in 0..Longest, NEW lr \in Nat,
         Remembers(t, k, 0, r * Longest, lr)
  PROVE  Remembers(t, k, ls, (r + 1) * Longest, lr)
<1>1. PICK s \in In!Slot : /\ t[s].state = "EXISTED" /\ t[s].key = k
                           /\ t[s].ctime * Interval + 0 <= r * Longest + lr
  BY DEF Remembers
<1>2. t[s].ctime \in Nat
  BY DEF Table, TableItem
<1>3. t[s].ctime * Interval \in Nat
  BY <1>2, Products, TimerType
<1>4. r * Longest \in Nat /\ (r + 1) * Longest = r * Longest + Longest
      /\ Longest \in Nat
  BY Products, TimerType
<1>5. t[s].ctime * Interval + ls <= (r + 1) * Longest + lr
  BY <1>1, <1>3, <1>4
<1> QED
  BY <1>1, <1>5 DEF Remembers

LEMMA RememberedOverTime ==
  ASSUME NEW t \in Table, NEW k, NEW ls \in Nat, NEW lr \in Nat, NEW spent \in Nat,
         NEW n \in Nat, n <= ls, n <= lr, Remembers(t, k, ls, spent, lr)
  PROVE  Remembers(t, k, ls - n, spent, lr - n)
<1>1. PICK s \in In!Slot : /\ t[s].state = "EXISTED" /\ t[s].key = k
                           /\ t[s].ctime * Interval + ls <= spent + lr
  BY DEF Remembers
<1>2. t[s].ctime \in Nat
  BY DEF Table, TableItem
<1>3. t[s].ctime * Interval \in Nat
  BY <1>2, Products, TimerType
<1>4. t[s].ctime * Interval + (ls - n) <= spent + (lr - n)
  BY <1>1, <1>3
<1> QED
  BY <1>1, <1>4 DEF Remembers

\* A tick of the receiver, when the attempts have not yet taken as long as the
\* table lasts.
LEMMA RememberedOverTick ==
  ASSUME NEW t \in Table, NEW u, NEW k, NEW ls \in Nat, NEW lr \in Nat,
         NEW spent \in Nat, spent < (MaxAge - 1) * Interval, Interval <= lr,
         \A s \in In!Slot :
           /\ u[s].key = t[s].key
           /\ t[s].state = "EXISTED" =>
                /\ u[s].ctime = t[s].ctime + 1
                /\ t[s].ctime + 1 < MaxAge => u[s].state = "EXISTED",
         Remembers(t, k, ls, spent, 0)
  PROVE  Remembers(u, k, ls, spent, lr)
<1>1. PICK s \in In!Slot : /\ t[s].state = "EXISTED" /\ t[s].key = k
                           /\ t[s].ctime * Interval + ls <= spent + 0
  BY DEF Remembers
<1> DEFINE c == t[s].ctime
<1>2. c \in Nat /\ Interval \in Nat /\ MaxAge - 1 \in Nat /\ MaxAge \in Nat
  BY TimerType, TableAssumption DEF Table, TableItem
<1>3. c * Interval \in Nat /\ (c + 1) * Interval = c * Interval + Interval
  BY <1>2, Products
<1>4. c * Interval < (MaxAge - 1) * Interval
  BY <1>1, <1>2, <1>3
<1>5. c < MaxAge - 1
  BY <1>2, <1>4, Products
<1>6. u[s].ctime = c + 1 /\ u[s].state = "EXISTED" /\ u[s].key = k
  BY <1>1, <1>2, <1>5
<1>7. u[s].ctime * Interval + ls <= spent + lr
  BY <1>1, <1>2, <1>3, <1>6
<1> QED
  BY <1>6, <1>7 DEF Remembers

\* The attempts of a pbuf that may be transmitted again have not taken as long
\* as the table lasts.
LEMMA TimeSpent ==
  ASSUME WindowCovers, NEW r \in Nat, r < MaxRetries
  PROVE  r * Longest \in Nat /\ r * Longest < (MaxAge - 1) * Interval
<1>1. Longest \in Nat /\ MaxRetries - 1 \in Nat /\ r <= MaxRetries - 1
      /\ Interval \in Nat /\ MaxAge - 1 \in Nat
  BY TimerType, TableAssumption
<1>2. r * Longest \in Nat /\ r * Longest <= (MaxRetries - 1) * Longest
  BY <1>1, Products
<1>3. (MaxRetries - 1) * Longest \in Nat /\ (MaxAge - 1) * Interval \in Nat
  BY <1>1, Products
<1> QED
  BY <1>2, <1>3 DEF WindowCovers

-----------------------------------------------------------------------------
(***************************************************************************)
(* Steps that transmit nothing, give up nothing and receive nothing.       *)
(***************************************************************************)

LEMMA SamePbufStays ==
  ASSUME NEW q, NEW p, SamePbuf(q, p)
  PROVE  /\ Pending(p) => Pending(q)
         /\ ~Stops(q) => ~Stops(p)
         /\ \A b : ComesBefore(b, q) => ComesBefore(b, p)
         /\ \A r, t, ls, lr : Settled(r, q, t, ls, lr) => Settled(r, p, t, ls, lr)
<1>1. Key(p) = Key(q) /\ Id(p) = Id(q)
  BY DEF SamePbuf, Key, SeqNum, Id
<1>2. (Pending(p) => Pending(q)) /\ (~Stops(q) => ~Stops(p))
  BY DEF SamePbuf, Pending, Stops
<1>3. \A b : ComesBefore(b, q) => ComesBefore(b, p)
  BY <1>1 DEF SamePbuf, ComesBefore
<1>4. \A r, t, ls, lr : Settled(r, q, t, ls, lr) => Settled(r, p, t, ls, lr)
  BY <1>1, <1>2 DEF SamePbuf, Settled
<1> QED
  BY <1>2, <1>3, <1>4

LEMMA OnceStays ==
  ASSUME Base, TypeOK', ListInv', Once, Quiet,
         air' = air, received' = received, left' = left,
         iput_msg_que' = iput_msg_que
  PROVE  Once'
<1>1. TypeOK /\ ListInv /\ LinkType /\ AirIsAired /\ Numbered
      /\ AttemptsTogether /\ AirIsFirst /\ ReceivedIsOld /\ RepeatIsHeld
  BY DEF Base, Once
<1>2. g_seqnum \in Nat
  BY <1>1 DEF TypeOK
<1>3. AirIsFirst'
  <2>1. SUFFICES ASSUME air # NoFrame, NEW j \in DOMAIN chain'[air.dest]
                 PROVE  ComesBefore(air.pbuf, chain'[air.dest][j])
    BY DEF AirIsFirst
  <2>2. air.dest \in Dest /\ air.pbuf.dg \in Nat /\ air.pbuf.dg < g_seqnum
    BY <1>1, <2>1, AirType DEF AirIsAired
  <2>3. PICK m : Origins(air.dest, m)
    BY <1>1, <2>2, QuietQueues, QueueOrigins
  <2>4. CASE /\ m[j] \in DOMAIN chain[air.dest]
             /\ SamePbuf(chain[air.dest][m[j]], chain'[air.dest][j])
    <3>1. ComesBefore(air.pbuf, chain[air.dest][m[j]])
      BY <1>1, <2>1, <2>4 DEF AirIsFirst
    <3> QED
      BY <2>4, <3>1, SamePbufStays
  <2>5. CASE chain'[air.dest][j].dg = g_seqnum
    BY <1>2, <2>2, <2>5 DEF ComesBefore
  <2> QED
    BY <1>1, <2>1, <2>2, <2>3, <2>4, <2>5, OldOrNew
<1>4. ReceivedIsOld'
  <2>1. SUFFICES ASSUME NEW d \in Dest, NEW n \in DOMAIN received[d],
                        NEW j \in DOMAIN chain'[d]
                 PROVE  Settled(received[d][n], chain'[d][j], iput_msg_que, Ls, Lr)
    BY DEF ReceivedIsOld, Ls, Lr
  <2>2. PICK m : Origins(d, m)
    BY <1>1, QuietQueues, QueueOrigins
  <2>3. CASE /\ m[j] \in DOMAIN chain[d]
             /\ SamePbuf(chain[d][m[j]], chain'[d][j])
    <3>1. Settled(received[d][n], chain[d][m[j]], iput_msg_que, Ls, Lr)
      BY <1>1, <2>3 DEF ReceivedIsOld
    <3> QED
      BY <2>3, <3>1, SamePbufStays
  <2>4. CASE chain'[d][j].dg = g_seqnum
    BY <1>1, <2>4 DEF Settled, Numbered
  <2> QED
    BY <1>1, <2>2, <2>3, <2>4, OldOrNew
<1>5. RepeatIsHeld'
  BY <1>1 DEF RepeatIsHeld, Lr
<1>6. AttemptsTogether'
  BY <1>1, PendingStaysTogether
<1> QED
  BY <1>3, <1>4, <1>5, <1>6 DEF Once

-----------------------------------------------------------------------------
(***************************************************************************)
(* The timer of the sender.                                                *)
(***************************************************************************)

LEMMA TransmitOnce ==
  ASSUME Base, Once, WindowCovers, Ls = 0, NEW d \in Dest, NEW i \in DOMAIN chain[d],
         g_curr_msg = d, IsFirstStop(d, i), Transmit(d, i),
         received' = received, iput_msg_que' = iput_msg_que,
         Lr' = Lr, Ls' \in 0..Longest
  PROVE  AttemptsTogether' /\ ReceivedIsOld'
<1>1. TypeOK /\ LinkType /\ AttemptsTogether /\ ReceivedIsOld
  BY DEF Base, Once
<1> DEFINE b == chain[d][i]
           c == chain'[d][i]
<1>2. /\ \A e \in Dest : DOMAIN chain'[e] = DOMAIN chain[e]
      /\ \A e \in Dest : \A j \in DOMAIN chain[e] :
           e # d \/ j # i => chain'[e][j] = chain[e][j]
      /\ c.dg = b.dg /\ c.frag = b.frag /\ c.retry \in Nat \ {0}
      /\ Pending(c) => c.retry = b.retry + 1
      /\ ~b.sent /\ ~c.sent /\ b.retry \in 0..(MaxRetries - 1)
  BY <1>1, TransmittedQueue
<1>3. ASSUME NEW e \in Dest, NEW j \in DOMAIN chain[e], Pending(chain[e][j])
      PROVE  e = d /\ j = i
  BY <1>1, <1>3, OneFirstStop DEF AttemptsTogether
<1>4. AttemptsTogether'
  BY <1>1, TransmitTogether
<1>5. ReceivedIsOld'
  <2>1. SUFFICES ASSUME NEW e \in Dest, NEW n \in DOMAIN received[e],
                        NEW j \in DOMAIN chain'[e]
                 PROVE  Settled(received[e][n], chain'[e][j], iput_msg_que, Ls', Lr)
    BY DEF ReceivedIsOld
  <2>2. j \in DOMAIN chain[e]
        /\ Settled(received[e][n], chain[e][j], iput_msg_que, Ls, Lr)
    BY <1>1, <1>2, <2>1 DEF ReceivedIsOld
  <2>3. CASE e # d \/ j # i
    <3>1. chain'[e][j] = chain[e][j] /\ ~Pending(chain[e][j])
      BY <1>2, <1>3, <2>2, <2>3
    <3> QED
      BY <2>2, <3>1 DEF Settled
  <2>4. CASE e = d /\ j = i
    <3>1. Key(c) = Key(b)
      BY <1>2 DEF Key, SeqNum
    <3>2. CASE received[e][n] < b.dg
      BY <1>2, <2>4, <3>2 DEF Settled
    <3>3. CASE ~(received[e][n] < b.dg)
      <4>1. /\ received[e][n] = b.dg /\ b.retry > 0
            /\ Pending(b) => Remembers(iput_msg_que, Key(b), 0, b.retry * Longest, Lr)
        BY <1>2, <2>2, <2>4, <3>3 DEF Settled
      <4>2. Remembers(iput_msg_que, Key(b), 0, b.retry * Longest, Lr)
        BY <1>2, <4>1, TimerType DEF Pending
      <4>3. Remembers(iput_msg_que, Key(b), Ls', (b.retry + 1) * Longest, Lr)
        <5>1. iput_msg_que \in Table /\ Lr \in Nat /\ b.retry \in Nat
          BY <1>1, <1>2, FirstTimer, TimerType DEF LinkType, Table
        <5> QED
          BY <4>2, <5>1, RememberedAfterAttempt
      <4>4. Pending(c) => Remembers(iput_msg_que, Key(c), Ls', c.retry * Longest, Lr)
        BY <1>2, <3>1, <4>3
      <4> QED
        BY <1>2, <2>4, <4>1, <4>4 DEF Settled
    <3> QED
      BY <3>2, <3>3
  <2> QED
    BY <2>3, <2>4
<1> QED
  BY <1>4, <1>5

LEMMA InTheAir ==
  ASSUME Base, Once, SenderTransmits
  PROVE  AirIsFirst' /\ RepeatIsHeld'
<1>1. TypeOK /\ ListInv /\ ShapeInv /\ Sorted /\ LinkType /\ ReceivedIsOld
  BY DEF Base, Once
<1>2. SUFFICES ASSUME air' # NoFrame
               PROVE  AirIsFirst' /\ RepeatIsHeld'
  BY DEF AirIsFirst, RepeatIsHeld
<1>3. PICK d \in Range(oput_msg_list) : \E i \in DOMAIN chain[d] :
        /\ air' = [dest |-> d, pbuf |-> chain[d][i]]
        /\ IsFirstStop(d, i) /\ Transmit(d, i)
  BY <1>1, <1>2, TransmittedFrame
<1>4. PICK i \in DOMAIN chain[d] :
        /\ air' = [dest |-> d, pbuf |-> chain[d][i]]
        /\ IsFirstStop(d, i) /\ Transmit(d, i)
  BY <1>3
<1> DEFINE b == chain[d][i]
<1>5. d \in Dest
  BY <1>1, PickedItem
<1>6. /\ DOMAIN chain'[d] = DOMAIN chain[d]
      /\ \A j \in DOMAIN chain[d] : j # i => chain'[d][j] = chain[d][j]
      /\ chain'[d][i].dg = b.dg /\ chain'[d][i].frag = b.frag
      /\ chain'[d][i].retry \in Nat \ {0}
      /\ ~b.sent /\ b.retry \in 0..(MaxRetries - 1)
  BY <1>1, <1>4, <1>5, TransmittedQueue
<1>7. air'.dest = d /\ air'.pbuf = b
  BY <1>4
<1>8. AirIsFirst'
  <2>1. SUFFICES ASSUME NEW j \in DOMAIN chain'[d]
                 PROVE  ComesBefore(b, chain'[d][j])
    BY <1>7 DEF AirIsFirst
  <2>2. /\ DOMAIN chain[d] = 1..Len(chain[d]) /\ Len(chain[d]) \in Nat
        /\ j \in DOMAIN chain[d]
    BY <1>1, <1>5, <1>6, QueuedPbuf
  <2>3. CASE j < i
    <3>1. ~Stops(chain[d][j]) /\ chain'[d][j] = chain[d][j]
      BY <1>4, <1>6, <2>2, <2>3 DEF IsFirstStop
    <3> QED
      BY <3>1 DEF Stops, ComesBefore
  <2>4. CASE j = i
    BY <1>6, <2>4 DEF ComesBefore, Id
  <2>5. CASE i < j
    <3> DEFINE q == chain[d][j]
    <3>1. chain'[d][j] = q
      BY <1>6, <2>2, <2>5
    <3>2. b.dg <= q.dg /\ b.dg \in Nat /\ q.dg \in Nat
      BY <1>1, <1>5, <2>2, <2>5, QueuedPbuf DEF Sorted, QueueSorted
    <3>3. CASE b.dg = q.dg
      <4>1. b.frag < q.frag /\ b.frags = q.frags /\ q.frag <= q.frags
        BY <1>1, <1>5, <2>2, <2>5, <3>3 DEF ShapeInv, QueueShape
      <4>2. b \in Pbuf /\ q \in Pbuf
        BY <1>1, <1>5, <2>2, QueuedPbuf
      <4>3. MoreFrag(b)
        BY <4>1, <4>2 DEF MoreFrag, Pbuf
      <4> QED
        BY <3>1, <3>3, <4>3 DEF ComesBefore
    <3>4. CASE b.dg # q.dg
      BY <3>1, <3>2, <3>4 DEF ComesBefore
    <3> QED
      BY <3>3, <3>4
  <2> QED
    BY <2>2, <2>3, <2>4, <2>5
<1>9. RepeatIsHeld'
  <2>1. received' = received /\ iput_msg_que' = iput_msg_que /\ Lr' = Lr /\ Ls = 0
    <3>1. received' = received /\ iput_msg_que' = iput_msg_que /\ due = "send"
      BY DEF SenderTransmits, inVars, OutputTmr
    <3>2. left'["receiver"] = left["receiver"]
      BY <1>1, RearmType DEF SenderTransmits, Node
    <3> QED
      BY <1>1, <3>1, <3>2 DEF LinkType, Lr
  <2>2. SUFFICES ASSUME NEW n \in DOMAIN received[d]
                 PROVE  Repeats(received[d][n], b, iput_msg_que, Lr)
    BY <1>7, <2>1 DEF RepeatIsHeld
  <2>3. Settled(received[d][n], b, iput_msg_que, 0, Lr)
    BY <1>1, <1>5, <2>1, <2>2 DEF ReceivedIsOld
  <2>4. b.retry > 0 => Pending(b)
    BY <1>6, TimerType DEF Pending
  <2> QED
    BY <1>6, <2>3, <2>4 DEF Settled, Repeats
<1> QED
  BY <1>8, <1>9

LEMMA NothingPending ==
  ASSUME Base, ReceivedIsOld, received' = received,
         \A d \in Dest : \A i \in DOMAIN chain[d] : ~Pending(chain[d][i]),
         \A d \in Dest : QuietStep(d)
  PROVE  AttemptsTogether' /\ ReceivedIsOld'
<1>1. TypeOK /\ Numbered
  BY DEF Base
<1>2. ASSUME NEW d \in Dest, NEW j \in DOMAIN chain'[d]
      PROVE  /\ ~Pending(chain'[d][j])
             /\ \A n \in DOMAIN received[d] :
                  Settled(received[d][n], chain'[d][j], iput_msg_que', Ls', Lr')
  <2>1. PICK m : Origins(d, m)
    BY <1>1, QueueOrigins
  <2>2. CASE m[j] \in DOMAIN chain[d] /\ SamePbuf(chain[d][m[j]], chain'[d][j])
    <3> DEFINE q == chain[d][m[j]]
               p == chain'[d][j]
    <3>1. ~Pending(q) /\ ~Pending(p)
      BY <2>2, SamePbufStays
    <3>2. SUFFICES ASSUME NEW n \in DOMAIN received[d]
                   PROVE  Settled(received[d][n], p, iput_msg_que', Ls', Lr')
      BY <3>1
    <3>3. Settled(received[d][n], q, iput_msg_que, Ls, Lr)
      BY <2>2 DEF ReceivedIsOld
    <3>4. Settled(received[d][n], p, iput_msg_que, Ls, Lr)
      BY <2>2, <3>3, SamePbufStays
    <3> QED
      BY <3>1, <3>4 DEF Settled
  <2>3. CASE chain'[d][j].dg = g_seqnum /\ chain'[d][j].retry = 0
    BY <1>1, <2>3 DEF Settled, Numbered, Pending
  <2> QED
    BY <1>1, <2>1, <2>2, <2>3, OldOrNew
<1> QED
  BY <1>2 DEF AttemptsTogether, ReceivedIsOld

LEMMA OutputOnce ==
  ASSUME Base, Once, WindowCovers, NeverStranded, SenderTransmits
  PROVE  Once'
<1>1. TypeOK /\ ListInv /\ LinkType /\ AttemptsTogether /\ ReceivedIsOld
  BY DEF Base, Once
<1>2. /\ OutputTmr /\ received' = received /\ iput_msg_que' = iput_msg_que
      /\ Rearm("sender")
  BY DEF SenderTransmits, inVars
<1>3. Ls = 0 /\ Lr' = Lr /\ Ls' \in 0..Longest
  <2>1. Ls = 0
    BY <1>1, <1>2 DEF OutputTmr, LinkType
  <2> QED
    BY <1>1, <1>2, <2>1, RearmType, TimerType DEF Ls, Lr, Node
<1>4. AttemptsTogether' /\ ReceivedIsOld'
  <2>1. ASSUME NEW d \in Dest, NEW i \in DOMAIN chain[d],
               g_curr_msg = d, IsFirstStop(d, i), Transmit(d, i)
        PROVE  AttemptsTogether' /\ ReceivedIsOld'
    BY <1>2, <1>3, <2>1, TransmitOnce
  <2>2. CASE ~\E d \in Dest : \E i \in DOMAIN chain[d] :
                g_curr_msg = d /\ IsFirstStop(d, i) /\ Transmit(d, i)
    <3>1. \A d \in Dest : \A i \in DOMAIN chain[d] : ~Pending(chain[d][i])
      BY <1>1, <1>2, <2>2, PendingIsTransmitted
    <3>2. \A e \in Dest : QuietStep(e)
      BY <1>1, <1>2, <2>2, NothingTransmitted
    <3> QED
      BY <1>1, <1>2, <3>1, <3>2, NothingPending
  <2> QED
    BY <2>1, <2>2
<1> QED
  BY <1>4, InTheAir DEF Once

-----------------------------------------------------------------------------
(***************************************************************************)
(* The receiver, and time.                                                 *)
(***************************************************************************)

\* A datagram is handed over with its last fragment only.
LEMMA OnlyLast ==
  ASSUME LinkType, AirIsAired, ReceiverHasFrame, received' # received
  PROVE  /\ In!Fill(Key(air.pbuf)) /\ HandOver(air)
         /\ ~MoreFrag(air.pbuf)
<1>1. In!Fill(Key(air.pbuf)) /\ PassOn(air) /\ air # NoFrame
  BY DEF ReceiverHasFrame
<1> DEFINE b == air.pbuf
<1>2. b \in Pbuf /\ b.frag \in Nat \ {0} /\ b.frags \in Nat \ {0} /\ b.frag <= b.frags
  BY <1>1, AirType DEF AirIsAired
<1>3. CASE b.frags = 1 /\ HandOver(air)
  BY <1>1, <1>2, <1>3 DEF MoreFrag
<1>4. CASE Re!packet_reass(FragmentIn(b)) /\ delivered' # delivered /\ HandOver(air)
  <2>1. FragmentIn(b).last
    BY <1>4 DEF Re!packet_reass, Re!Drop, Re!Insert, Re!Store, Re!StoreAndFree,
                Re!Finish, Re!Reject
  <2>2. FragmentIn(b).last = (b.frag = b.frags)
    BY DEF FragmentIn, Re!FragmentOf
  <2>3. b.frag = b.frags
    BY <2>1, <2>2, Zenon
  <2>4. ~MoreFrag(b)
    BY <1>2, <2>3 DEF MoreFrag
  <2> QED
    BY <1>1, <1>4, <2>4
<1> QED
  BY <1>1, <1>3, <1>4 DEF PassOn

LEMMA ReceiveOnce ==
  ASSUME Base, Once, ReceiverHasFrame
  PROVE  Once'
<1>1. TypeOK /\ LinkType /\ AirIsAired /\ AttemptsTogether /\ ReceivedIsOld
      /\ AirIsFirst
  BY DEF Base, Once
<1>2. /\ air # NoFrame /\ air' = NoFrame /\ left' = left
      /\ UNCHANGED vars
  BY DEF ReceiverHasFrame
<1>3. chain' = chain /\ g_curr_msg' = g_curr_msg
  BY <1>2 DEF vars
<1>4. AttemptsTogether'
  BY <1>1, <1>3 DEF AttemptsTogether, IsFirstStop
<1>5. AirIsFirst' /\ RepeatIsHeld'
  BY <1>2 DEF AirIsFirst, RepeatIsHeld
<1> DEFINE b == air.pbuf
<1>6. Key(b) \in [addr : {Source}, seqnum : Nat, offset : Nat]
      /\ air.dest \in Dest /\ b.dg \in Nat
  BY <1>1, <1>2, AirType, KeyType
<1>7. \A s \in In!Slot : iput_msg_que[s].state = "EXISTED" =>
                           iput_msg_que'[s] = iput_msg_que[s]
  <2>1. CASE In!Fill(Key(b))
    BY <1>1, <1>6, <2>1, FilledTable DEF LinkType, In!Existed
  <2>2. CASE iput_msg_que' = iput_msg_que
    BY <2>2
  <2> QED
    BY <2>1, <2>2 DEF ReceiverHasFrame, In!AlreadyExists, In!QueueFull
<1>8. ReceivedIsOld'
  <2>1. SUFFICES ASSUME NEW d \in Dest, NEW n \in DOMAIN received'[d],
                        NEW i \in DOMAIN chain[d]
                 PROVE  Settled(received'[d][n], chain[d][i], iput_msg_que', Ls, Lr)
    BY <1>2, <1>3 DEF ReceivedIsOld, Ls, Lr
  <2> DEFINE q == chain[d][i]
  <2>2. ASSUME NEW r, Settled(r, q, iput_msg_que, Ls, Lr)
        PROVE  Settled(r, q, iput_msg_que', Ls, Lr)
    <3>1. Remembers(iput_msg_que, Key(q), Ls, q.retry * Longest, Lr)
            => Remembers(iput_msg_que', Key(q), Ls, q.retry * Longest, Lr)
      BY <1>7, RememberedStill
    <3> QED
      BY <2>2, <3>1 DEF Settled
  <2>3. CASE n \in DOMAIN received[d] /\ received'[d][n] = received[d][n]
    BY <1>1, <2>2, <2>3 DEF ReceivedIsOld
  <2>4. CASE d = air.dest /\ received'[d][n] = b.dg /\ received' # received
    <3>1. In!Fill(Key(b)) /\ ~MoreFrag(b)
      BY <1>1, <2>4, OnlyLast
    <3>2. ComesBefore(b, q)
      BY <1>1, <1>2, <2>1, <2>4 DEF AirIsFirst
    <3>3. CASE q.sent
      BY <3>3 DEF Settled
    <3>4. CASE q.dg > b.dg
      <4>1. q.dg \in Nat
        BY <1>1, <2>1, QueuedPbuf
      <4> QED
        BY <1>6, <2>4, <3>4, <4>1 DEF Settled
    <3>5. CASE Id(q) = Id(b) /\ q.retry > 0
      <4>1. q.dg = b.dg /\ Key(q) = Key(b)
        BY <3>5 DEF Id, Key, SeqNum
      <4>2. PICK s \in In!Slot :
              iput_msg_que'[s] = [state |-> "EXISTED", ctime |-> 0, key |-> Key(b)]
        BY <1>1, <1>6, <3>1, FilledTable DEF LinkType
      <4>3. /\ iput_msg_que' \in Table /\ Ls \in 0..Longest /\ Lr \in Nat
            /\ q.retry \in Nat \ {0}
        <5>1. iput_msg_que' \in Table
          BY <1>1, <1>6, <3>1, FilledTable DEF LinkType, Table
        <5>2. Ls \in 0..Longest /\ Lr \in Nat
          BY <1>1, FirstTimer DEF LinkType, Ls, Node
        <5>3. q.retry \in Nat \ {0}
          BY <1>1, <2>1, <3>5, QueuedPbuf, TimerType
        <5> QED
          BY <5>1, <5>2, <5>3
      <4>4. /\ iput_msg_que'[s].state = "EXISTED" /\ iput_msg_que'[s].ctime = 0
            /\ iput_msg_que'[s].key = Key(b)
        BY <4>2
      <4>5. Remembers(iput_msg_que', Key(b), Ls, q.retry * Longest, Lr)
        BY <4>3, <4>4, RememberedFirst
      <4> QED
        BY <2>4, <3>5, <4>1, <4>5 DEF Settled
    <3> QED
      BY <3>1, <3>2, <3>3, <3>4, <3>5 DEF ComesBefore
  <2>5. CASE received' = received
    BY <2>1, <2>3, <2>5
  <2>6. CASE received' # received
    <3>1. received[d] \in Seq(Nat)
      BY <1>1 DEF LinkType
    <3>2. \/ received'[d] = received[d]
          \/ d = air.dest /\ received'[d] = Append(received[d], b.dg)
      BY <1>1, <1>6, <2>6, OnlyLast DEF HandOver, LinkType
    <3>3. CASE received'[d] = received[d]
      BY <2>1, <2>3, <3>3
    <3>4. CASE d = air.dest /\ received'[d] = Append(received[d], b.dg)
      <4>1. \/ n \in DOMAIN received[d] /\ received'[d][n] = received[d][n]
            \/ received'[d][n] = b.dg
        BY <1>6, <2>1, <3>1, <3>4, AppendedElements
      <4> QED
        BY <2>3, <2>4, <2>6, <3>4, <4>1
    <3> QED
      BY <3>2, <3>3, <3>4
  <2> QED
    BY <2>5, <2>6
<1> QED
  BY <1>4, <1>5, <1>8 DEF Once

LEMMA TickOnce ==
  ASSUME Base, Once, WindowCovers, ReceiverTicks
  PROVE  Once'
<1>1. TypeOK /\ LinkType /\ AirIsAired /\ AttemptsTogether /\ ReceivedIsOld
      /\ AirIsFirst /\ RepeatIsHeld
  BY DEF Base, Once
<1>2. /\ UNCHANGED vars /\ air' = air /\ received' = received
      /\ In!Tick /\ Lr = 0
  BY DEF ReceiverTicks, Lr
<1>3. chain' = chain /\ g_curr_msg' = g_curr_msg
  BY <1>2 DEF vars
<1>4. Ls' = Ls /\ Ls \in Nat /\ Lr' \in Nat /\ Interval <= Lr'
  <2>1. left'["sender"] = left["sender"] /\ left'["receiver"] \in Interval..Longest
    BY <1>1, RearmType DEF ReceiverTicks, Node
  <2>2. Ls \in Nat
    BY <1>1, FirstTimer
  <2> QED
    BY <2>1, <2>2, TimerType DEF Ls, Lr
<1>5. ASSUME NEW k, NEW ago \in Nat, NEW r \in Nat, r < MaxRetries,
             Remembers(iput_msg_que, k, ago, r * Longest, Lr)
      PROVE  Remembers(iput_msg_que', k, ago, r * Longest, Lr')
  <2>1. r * Longest \in Nat /\ r * Longest < (MaxAge - 1) * Interval
    BY <1>5, TimeSpent
  <2>2. Remembers(iput_msg_que, k, ago, r * Longest, 0) /\ iput_msg_que \in Table
    BY <1>1, <1>2, <1>5 DEF LinkType, Table
  <2>3. \A s \in In!Slot :
           /\ iput_msg_que'[s].key = iput_msg_que[s].key
           /\ iput_msg_que[s].state = "EXISTED" =>
                /\ iput_msg_que'[s].ctime = iput_msg_que[s].ctime + 1
                /\ iput_msg_que[s].ctime + 1 < MaxAge =>
                     iput_msg_que'[s].state = "EXISTED"
    BY <1>1, <1>2, TickedTable DEF LinkType, In!Existed
  <2> QED
    BY <1>4, <2>1, <2>2, <2>3, RememberedOverTick
<1>6. ReceivedIsOld'
  <2>1. SUFFICES ASSUME NEW d \in Dest, NEW n \in DOMAIN received[d],
                        NEW i \in DOMAIN chain[d]
                 PROVE  Settled(received[d][n], chain[d][i], iput_msg_que', Ls, Lr')
    BY <1>2, <1>3, <1>4 DEF ReceivedIsOld
  <2> DEFINE q == chain[d][i]
  <2>2. Settled(received[d][n], q, iput_msg_que, Ls, Lr)
    BY <1>1 DEF ReceivedIsOld
  <2>3. Pending(q) => q.retry \in Nat /\ q.retry < MaxRetries
    BY TimerType DEF Pending
  <2>4. Pending(q) /\ Remembers(iput_msg_que, Key(q), Ls, q.retry * Longest, Lr)
          => Remembers(iput_msg_que', Key(q), Ls, q.retry * Longest, Lr')
    BY <1>4, <1>5, <2>3
  <2> QED
    BY <2>2, <2>4 DEF Settled
<1>7. RepeatIsHeld'
  <2>1. SUFFICES ASSUME air # NoFrame, NEW n \in DOMAIN received[air.dest]
                 PROVE  Repeats(received[air.dest][n], air.pbuf, iput_msg_que', Lr')
    BY <1>2 DEF RepeatIsHeld
  <2>2. Repeats(received[air.dest][n], air.pbuf, iput_msg_que, Lr)
    BY <1>1, <2>1 DEF RepeatIsHeld
  <2>3. air.pbuf.retry \in Nat /\ air.pbuf.retry < MaxRetries
    BY <1>1, <2>1, AirType DEF AirIsAired
  <2>4. Remembers(iput_msg_que, Key(air.pbuf), 0, air.pbuf.retry * Longest, Lr)
          => Remembers(iput_msg_que', Key(air.pbuf), 0, air.pbuf.retry * Longest, Lr')
    BY <1>5, <2>3
  <2> QED
    BY <2>2, <2>4 DEF Repeats
<1>8. AttemptsTogether' /\ AirIsFirst'
  BY <1>1, <1>2, <1>3 DEF AttemptsTogether, IsFirstStop, AirIsFirst
<1> QED
  BY <1>6, <1>7, <1>8 DEF Once

LEMMA TimeOnce ==
  ASSUME Base, Once, TimePasses
  PROVE  Once'
<1>1. TypeOK /\ LinkType /\ AttemptsTogether /\ ReceivedIsOld
  BY DEF Base, Once
<1> DEFINE t == CHOOSE n \in {left[x] : x \in Node} : \A x \in Node : n <= left[x]
<1>2. /\ UNCHANGED vars /\ air = NoFrame /\ air' = air /\ received' = received
      /\ iput_msg_que' = iput_msg_que /\ left' = [x \in Node |-> left[x] - t]
  BY DEF TimePasses, inVars
<1>3. t \in Nat /\ t <= Ls /\ t <= Lr /\ Ls \in Nat /\ Lr \in Nat
  BY <1>1, FirstTimer
<1> HIDE DEF t
<1>4. Ls' = Ls - t /\ Lr' = Lr - t
  BY <1>2 DEF Ls, Lr, Node
<1>5. chain' = chain /\ g_curr_msg' = g_curr_msg
  BY <1>2 DEF vars
<1>6. ReceivedIsOld'
  <2>1. SUFFICES ASSUME NEW d \in Dest, NEW n \in DOMAIN received[d],
                        NEW i \in DOMAIN chain[d]
                 PROVE  Settled(received[d][n], chain[d][i], iput_msg_que, Ls - t, Lr - t)
    BY <1>2, <1>4, <1>5 DEF ReceivedIsOld
  <2> DEFINE q == chain[d][i]
  <2>2. Settled(received[d][n], q, iput_msg_que, Ls, Lr)
    BY <1>1 DEF ReceivedIsOld
  <2>3. q.retry * Longest \in Nat
    <3>1. q.retry \in Nat
      BY <1>1, <2>1, QueuedPbuf, TimerType
    <3> QED
      BY <3>1, Products, TimerType
  <2>4. Remembers(iput_msg_que, Key(q), Ls, q.retry * Longest, Lr)
          => Remembers(iput_msg_que, Key(q), Ls - t, q.retry * Longest, Lr - t)
    <3>1. iput_msg_que \in Table
      BY <1>1 DEF LinkType, Table
    <3> QED
      BY <1>3, <2>3, <3>1, RememberedOverTime
  <2> QED
    BY <2>2, <2>4 DEF Settled
<1>7. AttemptsTogether' /\ AirIsFirst' /\ RepeatIsHeld'
  BY <1>1, <1>2, <1>5 DEF AttemptsTogether, IsFirstStop, AirIsFirst, RepeatIsHeld
<1> QED
  BY <1>6, <1>7 DEF Once

LEMMA OnceStep ==
  ASSUME Base, Base', Once, WindowCovers, NeverStranded, [LinkNext]_lvars
  PROVE  Once'
<1>1. TypeOK' /\ ListInv' /\ LinkType
  BY DEF Base
<1>2. ASSUME Quiet, air' = air, received' = received, left' = left,
             iput_msg_que' = iput_msg_que
      PROVE  Once'
  BY <1>1, <1>2, OnceStays
<1>3. CASE UNCHANGED lvars
  BY <1>2, <1>3 DEF lvars, inVars, Quiet
<1>4. CASE SenderAges
  BY <1>2, <1>4 DEF SenderAges, inVars, Quiet
<1>5. CASE SenderSends
  BY <1>2, <1>5 DEF SenderSends, inVars, Quiet
<1>6. CASE SenderIsAnswered
  <2>1. answer \in aired
    BY <1>1, <1>6 DEF SenderIsAnswered, LinkType
  <2>2. Quiet
    BY <1>6, <2>1 DEF SenderIsAnswered, Quiet
  <2> QED
    BY <1>2, <1>6, <2>2 DEF SenderIsAnswered, inVars
<1>7. CASE AnswerLost
  BY <1>2, <1>7 DEF AnswerLost, inVars, Quiet
<1>8. CASE FrameLost
  <2>1. air' = NoFrame /\ UNCHANGED vars /\ received' = received /\ left' = left
        /\ iput_msg_que' = iput_msg_que
    BY <1>8 DEF FrameLost, inVars
  <2>2. chain' = chain /\ g_curr_msg' = g_curr_msg
    BY <2>1 DEF vars
  <2>3. AirIsFirst' /\ RepeatIsHeld'
    BY <2>1 DEF AirIsFirst, RepeatIsHeld
  <2>4. AttemptsTogether' /\ ReceivedIsOld'
    BY <2>1, <2>2 DEF Once, AttemptsTogether, IsFirstStop, ReceivedIsOld, Ls, Lr
  <2> QED
    BY <2>3, <2>4 DEF Once
<1>9. CASE SenderTransmits
  BY <1>9, OutputOnce
<1>10. CASE ReceiverHasFrame
  BY <1>10, ReceiveOnce
<1>11. CASE ReceiverTicks
  BY <1>11, TickOnce
<1>12. CASE TimePasses
  BY <1>12, TimeOnce
<1> QED
  BY <1>3, <1>4, <1>5, <1>6, <1>7, <1>8, <1>9, <1>10, <1>11, <1>12
     DEF LinkNext, Progress

LEMMA OnceInit == LinkInit => Once
<1> SUFFICES ASSUME LinkInit PROVE Once
  OBVIOUS
<1>1. air = NoFrame /\ \A d \in Dest : DOMAIN chain[d] = {}
  BY DEF LinkInit, Init
<1> QED
  BY <1>1 DEF Once, AttemptsTogether, AirIsFirst, ReceivedIsOld, RepeatIsHeld

-----------------------------------------------------------------------------
(***************************************************************************)
(* Every step of the link is a step of the service.                        *)
(***************************************************************************)

LEMMA ServiceStep ==
  ASSUME Base, Once, [LinkNext]_lvars
  PROVE  [Service!Next]_(Service!dvars)
<1>1. TypeOK /\ LinkType /\ AirIsAired /\ RepeatIsHeld
  BY DEF Base, Once
<1>2. ASSUME g_seqnum' = g_seqnum, received' = received
      PROVE  [Service!Next]_(Service!dvars)
  BY <1>2 DEF Service!dvars
<1>3. CASE UNCHANGED lvars
  BY <1>2, <1>3 DEF lvars, vars
<1>4. CASE SenderAges
  BY <1>2, <1>4 DEF SenderAges, OldAgeTmr
<1>5. CASE SenderSends
  <2>1. g_seqnum' = g_seqnum + 1 /\ received' = received
    BY <1>5 DEF SenderSends, Send
  <2> QED
    BY <2>1 DEF Service!Next, Service!Submit
<1>6. CASE SenderIsAnswered
  BY <1>2, <1>6 DEF SenderIsAnswered, RecvAck, vars
<1>7. CASE SenderTransmits
  BY <1>2, <1>7 DEF SenderTransmits, OutputTmr
<1>8. CASE ReceiverTicks
  BY <1>2, <1>8 DEF ReceiverTicks, vars
<1>9. CASE TimePasses
  BY <1>2, <1>9 DEF TimePasses, vars
<1>10. CASE FrameLost \/ AnswerLost
  BY <1>2, <1>10 DEF FrameLost, AnswerLost, vars
<1>11. CASE ReceiverHasFrame
  <2>1. g_seqnum' = g_seqnum
    BY <1>11 DEF ReceiverHasFrame, vars
  <2>2. CASE received' = received
    BY <1>2, <2>1, <2>2
  <2>3. CASE received' # received
    <3>1. In!Fill(Key(air.pbuf)) /\ HandOver(air) /\ air # NoFrame
      BY <1>1, <1>11, <2>3, OnlyLast DEF ReceiverHasFrame
    <3>2. air.dest \in Dest /\ air.pbuf.dg \in Nat /\ air.pbuf.dg < g_seqnum
      BY <1>1, <3>1, AirType DEF AirIsAired
    <3>3. g_seqnum \in Nat /\ air.pbuf.dg \in 0..g_seqnum
      BY <1>1, <3>2 DEF TypeOK
    <3>4. ASSUME NEW n \in DOMAIN received[air.dest]
          PROVE  received[air.dest][n] < air.pbuf.dg
      <4>1. Repeats(received[air.dest][n], air.pbuf, iput_msg_que, Lr)
        BY <1>1, <3>1 DEF RepeatIsHeld
      <4>2. ~In!Found(Key(air.pbuf))
        BY <3>1 DEF In!Fill
      <4>3. ASSUME Remembers(iput_msg_que, Key(air.pbuf), 0,
                             air.pbuf.retry * Longest, Lr)
            PROVE  FALSE
        BY <4>2, <4>3 DEF Remembers, In!Found, In!Matches, In!Existed
      <4> QED
        BY <4>1, <4>3 DEF Repeats
    <3>5. Service!Deliver(air.dest, air.pbuf.dg)
      BY <2>1, <3>1, <3>2, <3>4 DEF Service!Deliver, HandOver
    <3> QED
      BY <3>2, <3>3, <3>5 DEF Service!Next
  <2> QED
    BY <2>2, <2>3
<1> QED
  BY <1>3, <1>4, <1>5, <1>6, <1>7, <1>8, <1>9, <1>10, <1>11
     DEF LinkNext, Progress

LEMMA OnceInvariant ==
  ASSUME WindowCovers
  PROVE  LinkSpec /\ []NeverStranded => [](Base /\ Once)
<1>1. Base /\ Base' /\ Once /\ NeverStranded /\ [LinkNext]_lvars => Once'
  BY OnceStep
<1> QED
  BY <1>1, OnceInit, BaseInvariant, PTL DEF LinkSpec

\* However often frames are retransmitted and whatever the channel loses, the
\* receiving application is given a datagram at most once, and those for one
\* address in the order they were sent, for all datagrams, addresses and
\* timers: provided the window of the receiver covers the attempts of the
\* sender (input_mgr.c), and no pbuf that may be sent again is left waiting on
\* an item the iterator skips (oput_msg_send_pbuf_iterator).
THEOREM DeliveredAtMostOnce ==
  ASSUME WindowCovers
  PROVE  LinkSpec /\ []NeverStranded => ImplementsService
<1>1. LinkInit => Service!Init
  BY DEF LinkInit, Init, Service!Init
<1>2. Base /\ Once /\ [LinkNext]_lvars => [Service!Next]_(Service!dvars)
  BY ServiceStep
<1> QED
  BY <1>1, <1>2, OnceInvariant, PTL DEF LinkSpec, ImplementsService, Service!Spec

\* So it is if no datagram is cut and each queue is drained before its item is
\* too old, which out_singles checks for several addresses.
THEOREM SinglesDeliveredOnce ==
  ASSUME Unfragmented, WindowCovers
  PROVE  LinkSpec /\ []DrainedBeforeOld => ImplementsService
<1>1. TypeOK /\ CountInv /\ DrainedBeforeOld => NeverStranded
  BY DrainedIsSendable
<1>2. LinkSpec /\ []DrainedBeforeOld => []NeverStranded
  BY <1>1, SenderIsOutputMgr, CountInvariant, PTL
<1> QED
  BY <1>2, DeliveredAtMostOnce, PTL

\* To one address nothing more is needed: the limits of both managers and the
\* clocks alone decide that a datagram is delivered at most once and in order.
THEOREM OneAddressDeliveredOnce ==
  ASSUME Unfragmented, OneDest, AgeCovers, WindowCovers
  PROVE  LinkSpec => ImplementsService
<1>1. LinkSpec => []DrainedBeforeOld
  BY SenderIsOutputMgr, DrainedInTime, PTL
<1> QED
  BY <1>1, SinglesDeliveredOnce, PTL

-----------------------------------------------------------------------------
(***************************************************************************)
(* An answer means that the datagram was received.                         *)
(***************************************************************************)

\* The receiver answers a frame before it looks for room in its table, and
\* drops the frame when there is none.
TableHasRoom == ~In!Full

\* A datagram is queued, in the air or received for one address only.
Dgs(s) == {s[i].dg : i \in DOMAIN s}
InAir(d) == IF air # NoFrame /\ air.dest = d THEN {air.pbuf.dg} ELSE {}
Concerns(d) == Dgs(chain[d]) \cup Range(received[d]) \cup InAir(d)
OneAddress == \A d, e \in Dest : d # e => Concerns(d) \cap Concerns(e) = {}

AirIsSingle == air # NoFrame => air.pbuf.frags = 1

\* What the receiver remembers, and what it answers, it has handed over.
Has(s, seq) == \E r \in Range(s) : r % SeqMod = seq
TableIsReceived ==
  \A s \in In!Slot : In!Existed(s) =>
    \E d \in Dest : Has(received[d], iput_msg_que[s].key.seqnum)
AnswerIsReceived ==
  answer # NoFrame => answer.dest \in Dest /\ Has(received[answer.dest], answer.seq)

AckInv ==
  /\ OneAddress /\ AirIsSingle /\ TableIsReceived /\ AnswerIsReceived
  /\ g_seqnum <= MaxSends

LEMMA QueueDgs ==
  ASSUME TypeOK, [Next]_vars, NEW d \in Dest
  PROVE  Dgs(chain'[d])
           \subseteq Dgs(chain[d]) \cup (IF g_seqnum' = g_seqnum THEN {} ELSE {g_seqnum})
<1>1. g_seqnum \in Nat /\ g_seqnum + 1 # g_seqnum
  BY DEF TypeOK
<1>2. SUFFICES ASSUME NEW j \in DOMAIN chain'[d]
               PROVE  \/ chain'[d][j].dg \in Dgs(chain[d])
                      \/ chain'[d][j].dg = g_seqnum /\ g_seqnum' # g_seqnum
  BY DEF Dgs
<1>3. CASE QuietStep(d)
  <2>1. PICK m : Origins(d, m)
    BY <1>3, QueueOrigins
  <2> QED
    BY <1>1, <1>2, <2>1 DEF Origins, Dgs
<1>4. CASE Changes(d)
  <2>1. PICK i \in DOMAIN chain[d] : \E b \in Pbuf :
          chain'[d] = [chain[d] EXCEPT ![i] = b] /\ b.dg = chain[d][i].dg
    BY <1>4 DEF Changes
  <2>2. j \in DOMAIN chain[d] /\ chain'[d][j].dg = chain[d][j].dg
    BY <1>2, <2>1
  <2> QED
    BY <2>2 DEF Dgs
<1> QED
  BY <1>3, <1>4, QueueSteps DEF QueueStep, QuietStep

LEMMA HandedOverSet ==
  ASSUME LinkType, air # NoFrame, HandOver(air)
  PROVE  /\ Range(received'[air.dest]) = Range(received[air.dest]) \cup {air.pbuf.dg}
         /\ \A d \in Dest : d # air.dest => received'[d] = received[d]
<1>1. air.dest \in Dest /\ air.pbuf.dg \in Nat
  BY AirType
<1> DEFINE s == received[air.dest]
           x == air.pbuf.dg
           t == Append(s, x)
<1>2. received \in [Dest -> Seq(Nat)] /\ s \in Seq(Nat) /\ x \in Nat
  BY <1>1 DEF LinkType
<1>3. received' = [received EXCEPT ![air.dest] = t]
  BY DEF HandOver
<1>4. /\ \A n \in DOMAIN t : (n \in DOMAIN s /\ t[n] = s[n]) \/ t[n] = x
      /\ \A n \in DOMAIN s : n \in DOMAIN t /\ t[n] = s[n]
      /\ Len(s) + 1 \in DOMAIN t /\ t[Len(s) + 1] = x
  <2>1. \A n \in DOMAIN t : (n \in DOMAIN s /\ t[n] = s[n]) \/ t[n] = x
    BY <1>2, AppendedElements
  <2>2. /\ Len(s) \in Nat /\ DOMAIN s = 1..Len(s) /\ DOMAIN t = 1..(Len(s) + 1)
        /\ t[Len(s) + 1] = x /\ \A n \in 1..Len(s) : t[n] = s[n]
    BY <1>2
  <2>3. Len(s) + 1 \in DOMAIN t /\ \A n \in DOMAIN s : n \in DOMAIN t
    BY <2>2
  <2> QED
    BY <2>1, <2>2, <2>3
<1> HIDE DEF s, x, t
<1>5. Range(t) = Range(s) \cup {x}
  BY <1>4 DEF Range
<1>6. received'[air.dest] = t /\ \A d \in Dest : d # air.dest => received'[d] = received[d]
  BY <1>1, <1>2, <1>3
<1> QED
  BY <1>5, <1>6 DEF s, x

\* A step adds nothing to what concerns an address, but a datagram of its own
\* when it sends.
Adds(d, S) == Concerns(d)' \subseteq Concerns(d) \cup S
Sends(a) ==
  /\ g_seqnum' = g_seqnum + 1
  /\ \A d \in Dest : Adds(d, IF d = a THEN {g_seqnum} ELSE {})

LEMMA ConcernsStep ==
  ASSUME Base, [LinkNext]_lvars
  PROVE  (\A d \in Dest : Adds(d, {})) \/ (\E a \in Dest : Sends(a))
<1>1. TypeOK /\ ListInv /\ LinkType /\ [Next]_vars /\ g_seqnum \in Nat
  BY SenderSteps DEF Base, TypeOK
<1>2. ASSUME g_seqnum' = g_seqnum, NEW d \in Dest,
             Range(received'[d]) \subseteq Concerns(d), InAir(d)' \subseteq Concerns(d)
      PROVE  Adds(d, {})
  <2>1. Dgs(chain'[d]) \subseteq Dgs(chain[d])
    BY <1>1, <1>2, QueueDgs
  <2> QED
    BY <1>2, <2>1 DEF Adds, Concerns
<1>3. ASSUME g_seqnum' = g_seqnum, air' \in {air, NoFrame}, received' = received
      PROVE  \A d \in Dest : Adds(d, {})
  BY <1>2, <1>3 DEF InAir, Concerns
<1>4. CASE UNCHANGED lvars
  BY <1>3, <1>4 DEF lvars, vars
<1>5. CASE SenderAges
  BY <1>3, <1>5 DEF SenderAges, OldAgeTmr
<1>6. CASE SenderTransmits
  <2>1. g_seqnum' = g_seqnum /\ received' = received
    BY <1>6 DEF SenderTransmits, OutputTmr
  <2>2. SUFFICES ASSUME NEW d \in Dest PROVE InAir(d)' \subseteq Dgs(chain[d])
    BY <1>2, <2>1 DEF Concerns
  <2>3. CASE air' = NoFrame
    BY <2>3 DEF InAir
  <2>4. CASE air' # NoFrame
    <3>1. PICK e \in Range(oput_msg_list) : \E i \in DOMAIN chain[e] :
            air' = [dest |-> e, pbuf |-> chain[e][i]]
      BY <1>1, <1>6, <2>4, TransmittedFrame
    <3>2. PICK i \in DOMAIN chain[e] : air' = [dest |-> e, pbuf |-> chain[e][i]]
      BY <3>1
    <3>3. air'.dest = e /\ air'.pbuf.dg \in Dgs(chain[e])
      BY <3>2 DEF Dgs
    <3> QED
      BY <3>3 DEF InAir
  <2> QED
    BY <2>3, <2>4
<1>7. CASE SenderSends
  <2>1. PICK a \in Dest : \E k \in Kinds : Send(a, k)
    BY <1>7 DEF SenderSends
  <2>2. PICK k \in Kinds : Send(a, k)
    BY <2>1
  <2>3. g_seqnum' = g_seqnum + 1 /\ air' = air /\ received' = received
    BY <1>7, <2>2 DEF SenderSends, Send
  <2>4. Dgs(chain'[a]) \subseteq Dgs(chain[a]) \cup {g_seqnum}
    BY <1>1, QueueDgs
  <2>5. \A d \in Dest : d # a => chain'[d] \in {chain[d], <<>>}
    BY <2>2 DEF Send, SendRefused, SendToItem, SendNewItem
  <2>6. \A d \in Dest : d # a => Dgs(chain'[d]) \subseteq Dgs(chain[d])
    <3>1. Dgs(<<>>) = {}
      BY DEF Dgs
    <3> QED
      BY <2>5, <3>1
  <2>7. \A d \in Dest : InAir(d)' = InAir(d)
    BY <2>3 DEF InAir
  <2> QED
    BY <2>3, <2>4, <2>6, <2>7 DEF Sends, Adds, Concerns
<1>8. CASE SenderIsAnswered
  BY <1>3, <1>8 DEF SenderIsAnswered, RecvAck, vars
<1>9. CASE ReceiverHasFrame
  <2>1. air # NoFrame /\ air' = NoFrame /\ g_seqnum' = g_seqnum
    BY <1>9 DEF ReceiverHasFrame, vars
  <2>2. \A d \in Dest : Range(received'[d]) \subseteq Range(received[d]) \cup InAir(d)
    <3>1. CASE received' = received
      BY <3>1
    <3>2. CASE HandOver(air)
      BY <1>1, <2>1, <3>2, HandedOverSet DEF InAir
    <3> QED
      BY <1>1, <1>9, <3>1, <3>2, HandedOver
  <2>3. \A d \in Dest : InAir(d)' = {}
    BY <2>1 DEF InAir
  <2> QED
    BY <1>2, <2>1, <2>2, <2>3 DEF Concerns
<1>10. CASE ReceiverTicks \/ TimePasses \/ FrameLost \/ AnswerLost
  BY <1>3, <1>10 DEF ReceiverTicks, TimePasses, FrameLost, AnswerLost, vars
<1> QED
  BY <1>1, <1>4, <1>5, <1>6, <1>7, <1>8, <1>9, <1>10 DEF LinkNext, Progress

\* The number of the datagram sent next concerns no address yet.
LEMMA NewNumber ==
  ASSUME Base, NEW d \in Dest
  PROVE  /\ \A x \in Concerns(d) : x \in Nat /\ x < g_seqnum
         /\ g_seqnum \notin Concerns(d)
<1>1. LinkType /\ Fresh /\ Numbered /\ AirIsAired /\ g_seqnum \in Nat
  BY DEF Base, HeapInv, TypeOK
<1>2. \A x \in Dgs(chain[d]) : x \in Nat /\ x < g_seqnum
  <2>1. SUFFICES ASSUME NEW i \in DOMAIN chain[d]
                 PROVE  chain[d][i].dg \in Nat /\ chain[d][i].dg < g_seqnum
    BY DEF Dgs
  <2>2. Id(chain[d][i]) \in Ids(chain[d])
    BY DEF Ids
  <2> QED
    BY <1>1, <2>2 DEF Fresh, Id
<1>3. \A x \in Range(received[d]) : x \in Nat /\ x < g_seqnum
  <2>1. received[d] \in Seq(Nat)
    BY <1>1 DEF LinkType
  <2> QED
    BY <1>1, <2>1 DEF Numbered, Range
<1>4. \A x \in InAir(d) : x \in Nat /\ x < g_seqnum
  BY <1>1, AirType DEF InAir, AirIsAired
<1>5. \A x \in Concerns(d) : x \in Nat /\ x < g_seqnum
  BY <1>2, <1>3, <1>4 DEF Concerns
<1> QED
  BY <1>1, <1>5

LEMMA OneAddressStep ==
  ASSUME Base, OneAddress, [LinkNext]_lvars
  PROVE  OneAddress'
<1>1. SUFFICES ASSUME NEW d \in Dest, NEW e \in Dest, d # e
               PROVE  Concerns(d)' \cap Concerns(e)' = {}
  BY DEF OneAddress
<1>2. Concerns(d) \cap Concerns(e) = {}
  BY <1>1 DEF OneAddress
<1>3. g_seqnum \notin Concerns(d) /\ g_seqnum \notin Concerns(e)
  BY NewNumber
<1>4. CASE \A c \in Dest : Adds(c, {})
  BY <1>2, <1>4 DEF Adds
<1>5. ASSUME NEW a \in Dest, Sends(a) PROVE Concerns(d)' \cap Concerns(e)' = {}
  BY <1>1, <1>2, <1>3, <1>5 DEF Sends, Adds
<1> QED
  BY <1>4, <1>5, ConcernsStep

LEMMA SmallNumbers ==
  ASSUME Base, g_seqnum <= MaxSends,
         NEW d \in Dest, NEW e \in Dest, NEW x \in Concerns(d), NEW y \in Concerns(e),
         x % SeqMod = y % SeqMod
  PROVE  x = y
<1>1. x \in Nat /\ y \in Nat /\ x < g_seqnum /\ y < g_seqnum
  BY NewNumber
<1>2. g_seqnum \in Nat /\ MaxSends \in Nat /\ SeqMod \in Nat \ {0} /\ MaxSends <= SeqMod
  BY LimitsAssumption, LinkAssumption DEF Base, TypeOK
<1>3. x < SeqMod /\ y < SeqMod
  BY <1>1, <1>2
<1>4. x % SeqMod = x /\ y % SeqMod = y
  BY <1>1, <1>2, <1>3
<1> QED
  BY <1>4

LEMMA ReceivedGrows ==
  ASSUME Base, [LinkNext]_lvars, NEW d \in Dest, NEW seq, Has(received[d], seq)
  PROVE  Has(received'[d], seq)
<1>1. LinkType
  BY DEF Base
<1>2. Range(received[d]) \subseteq Range(received'[d])
  <2>1. CASE received' = received
    BY <2>1
  <2>2. CASE ReceiverHasFrame
    <3>1. air # NoFrame
      BY <2>2 DEF ReceiverHasFrame
    <3>2. CASE HandOver(air)
      BY <1>1, <3>1, <3>2, HandedOverSet
    <3> QED
      BY <1>1, <2>1, <2>2, <3>2, HandedOver
  <2> QED
    BY <2>1, <2>2 DEF LinkNext, Progress, SenderAges, SenderTransmits, SenderSends,
       SenderIsAnswered, ReceiverTicks, TimePasses, FrameLost, AnswerLost, lvars
<1> QED
  BY <1>2 DEF Has

\* A frame that is answered has been handed over, now or before.
LEMMA AnsweredIsReceived ==
  ASSUME Base, AckInv, TableHasRoom, ReceiverHasFrame
  PROVE  /\ air # NoFrame /\ air.dest \in Dest
         /\ Has(received'[air.dest], SeqNum(air.pbuf))
<1> DEFINE b == air.pbuf
           d == air.dest
<1>1. LinkType /\ g_seqnum <= MaxSends
  BY DEF Base, AckInv
<1>2. air # NoFrame /\ d \in Dest /\ b.frags = 1
  BY <1>1, AirType DEF ReceiverHasFrame, AckInv, AirIsSingle
<1>3. Key(b).seqnum = b.dg % SeqMod /\ SeqNum(b) = b.dg % SeqMod
  BY DEF Key, SeqNum
<1>4. CASE In!Fill(Key(b)) /\ PassOn(air)
  <2>1. HandOver(air)
    BY <1>2, <1>4 DEF PassOn
  <2>2. b.dg \in Range(received'[d])
    BY <1>1, <1>2, <2>1, HandedOverSet
  <2> QED
    BY <1>2, <1>3, <2>2 DEF Has
<1>5. CASE In!AlreadyExists(Key(b)) /\ received' = received
  <2>1. PICK s \in In!Slot : In!Existed(s) /\ iput_msg_que[s].key = Key(b)
    BY <1>5 DEF In!AlreadyExists, In!Found, In!Matches
  <2>2. PICK e \in Dest : Has(received[e], b.dg % SeqMod)
    BY <1>3, <2>1 DEF AckInv, TableIsReceived
  <2>3. PICK r \in Range(received[e]) : r % SeqMod = b.dg % SeqMod
    BY <2>2 DEF Has
  <2>4. r \in Concerns(e) /\ b.dg \in Concerns(d)
    BY <1>2, <2>3 DEF Concerns, InAir
  <2>5. r = b.dg
    BY <1>1, <1>2, <2>3, <2>4, SmallNumbers
  <2>6. e = d
    BY <1>2, <2>4, <2>5 DEF AckInv, OneAddress
  <2> QED
    BY <1>2, <1>3, <1>5, <2>3, <2>6 DEF Has
<1>6. CASE In!QueueFull(Key(b))
  BY <1>6 DEF In!QueueFull, TableHasRoom
<1> QED
  BY <1>4, <1>5, <1>6 DEF ReceiverHasFrame

LEMMA AckStep ==
  ASSUME Base, OnePbufEach, AckInv, TableHasRoom, [LinkNext]_lvars
  PROVE  AckInv'
<1>1. TypeOK /\ ListInv /\ LinkType /\ [Next]_vars
  BY SenderSteps DEF Base
<1>2. OneAddress'
  BY OneAddressStep DEF AckInv
<1>3. g_seqnum' <= MaxSends
  <2>1. g_seqnum \in Nat /\ MaxSends \in Nat /\ g_seqnum <= MaxSends
    BY <1>1, LimitsAssumption DEF AckInv, TypeOK
  <2>2. g_seqnum' = g_seqnum \/ (g_seqnum < MaxSends /\ g_seqnum' = g_seqnum + 1)
    BY <1>1 DEF Next, Tick, Send, OldAgeTmr, OutputTmr, RecvAck, vars
  <2> QED
    BY <2>1, <2>2
<1>4. air' \in {air, NoFrame} => AirIsSingle'
  BY DEF AckInv, AirIsSingle
<1>5. ASSUME NEW d \in Dest, NEW seq, Has(received[d], seq) PROVE Has(received'[d], seq)
  BY <1>5, ReceivedGrows
<1>6. answer' \in {answer, NoFrame} => AnswerIsReceived'
  BY <1>5 DEF AckInv, AnswerIsReceived
<1>7. ASSUME \A s \in In!Slot : iput_msg_que'[s].state = "EXISTED" =>
               In!Existed(s) /\ iput_msg_que'[s].key = iput_msg_que[s].key
      PROVE  TableIsReceived'
  <2>1. SUFFICES ASSUME NEW s \in In!Slot, iput_msg_que'[s].state = "EXISTED"
                 PROVE  \E d \in Dest : Has(received'[d], iput_msg_que'[s].key.seqnum)
    BY DEF TableIsReceived, In!Existed
  <2>2. PICK d \in Dest : Has(received[d], iput_msg_que[s].key.seqnum)
    BY <1>7, <2>1 DEF AckInv, TableIsReceived
  <2> QED
    BY <1>5, <1>7, <2>1, <2>2
<1>8. ASSUME iput_msg_que' = iput_msg_que, answer' \in {answer, NoFrame},
             air' \in {air, NoFrame}
      PROVE  AckInv'
  <2>1. TableIsReceived'
    BY <1>7, <1>8 DEF In!Existed
  <2> QED
    BY <1>2, <1>3, <1>4, <1>6, <1>8, <2>1 DEF AckInv
<1>9. CASE UNCHANGED lvars
  BY <1>8, <1>9 DEF lvars, inVars
<1>10. CASE SenderAges \/ SenderSends \/ SenderIsAnswered \/ TimePasses \/ FrameLost
            \/ AnswerLost
  BY <1>8, <1>10 DEF SenderAges, SenderSends, SenderIsAnswered, TimePasses, FrameLost,
     AnswerLost, inVars
<1>11. CASE SenderTransmits
  <2>1. iput_msg_que' = iput_msg_que /\ answer' = answer
    BY <1>11 DEF SenderTransmits, inVars
  <2>2. AirIsSingle'
    <3>1. SUFFICES ASSUME air' # NoFrame PROVE air'.pbuf.frags = 1
      BY DEF AirIsSingle
    <3>2. PICK d \in Range(oput_msg_list) : \E i \in DOMAIN chain[d] :
            air' = [dest |-> d, pbuf |-> chain[d][i]]
      BY <1>1, <1>11, <3>1, TransmittedFrame
    <3>3. d \in Dest
      BY <1>1, PickedItem
    <3> QED
      BY <3>2, <3>3 DEF OnePbufEach, Whole
  <2>3. TableIsReceived'
    BY <1>7, <2>1 DEF In!Existed
  <2> QED
    BY <1>2, <1>3, <1>6, <2>1, <2>2, <2>3 DEF AckInv
<1>12. CASE ReceiverHasFrame
  <2> DEFINE b == air.pbuf
             k == Key(b)
  <2>1. air # NoFrame /\ air.dest \in Dest /\ Has(received'[air.dest], SeqNum(b))
    BY <1>12, AnsweredIsReceived
  <2>2. air' = NoFrame /\ answer' = Answered(air)
    BY <1>12 DEF ReceiverHasFrame
  <2>3. AnswerIsReceived'
    <3>1. CASE answer' = answer
      BY <1>6, <3>1
    <3>2. CASE answer' = FrameOf(air.dest, b)
      <4>1. answer'.dest = air.dest /\ answer'.seq = SeqNum(b)
        BY <3>2 DEF FrameOf
      <4> QED
        BY <2>1, <4>1 DEF AnswerIsReceived, Has
    <3> QED
      BY <2>2, <3>1, <3>2 DEF Answered
  <2>4. TableIsReceived'
    <3>1. CASE iput_msg_que' = iput_msg_que
      BY <1>7, <3>1 DEF In!Existed
    <3>2. CASE In!Fill(k)
      <4>1. k \in [addr : {Source}, seqnum : Nat, offset : Nat]
        BY <1>1, <2>1, AirType, KeyType
      <4>2. PICK s \in In!Slot :
              /\ iput_msg_que'[s] = [state |-> "EXISTED", ctime |-> 0, key |-> k]
              /\ \A r \in In!Slot \ {s} : iput_msg_que'[r] = iput_msg_que[r]
        BY <1>1, <3>2, <4>1, FilledTable DEF LinkType
      <4>3. iput_msg_que'[s].key.seqnum = SeqNum(b)
        BY <4>2 DEF Key
      <4>4. SUFFICES ASSUME NEW r \in In!Slot, iput_msg_que'[r].state = "EXISTED"
                     PROVE  \E d \in Dest : Has(received'[d], iput_msg_que'[r].key.seqnum)
        BY DEF TableIsReceived, In!Existed
      <4>5. CASE r = s
        BY <2>1, <4>3, <4>5 DEF Has
      <4>6. CASE r # s
        <5>1. In!Existed(r) /\ iput_msg_que'[r] = iput_msg_que[r]
          BY <4>2, <4>4, <4>6 DEF In!Existed
        <5>2. PICK d \in Dest : Has(received[d], iput_msg_que[r].key.seqnum)
          BY <5>1 DEF AckInv, TableIsReceived
        <5> QED
          BY <1>5, <5>1, <5>2
      <4> QED
        BY <4>5, <4>6
    <3> QED
      BY <1>12, <3>1, <3>2 DEF ReceiverHasFrame, In!AlreadyExists, In!QueueFull
  <2> QED
    BY <1>2, <1>3, <1>4, <2>2, <2>3, <2>4 DEF AckInv
<1>13. CASE ReceiverTicks
  <2>1. air' = air /\ answer' = answer /\ In!Tick
    BY <1>13 DEF ReceiverTicks
  <2>2. TableIsReceived'
    BY <1>1, <1>7, <2>1, TickedTable DEF LinkType
  <2> QED
    BY <1>2, <1>3, <1>4, <1>6, <2>1, <2>2 DEF AckInv
<1> QED
  BY <1>9, <1>10, <1>11, <1>12, <1>13 DEF LinkNext, Progress

LEMMA AckInit == LinkInit => AckInv
<1> SUFFICES ASSUME LinkInit PROVE AckInv
  OBVIOUS
<1>1. /\ Init /\ In!Init /\ air = NoFrame /\ answer = NoFrame
      /\ received = [d \in Dest |-> <<>>] /\ chain = [d \in Dest |-> <<>>]
      /\ g_seqnum = 0
  BY DEF LinkInit, Init
<1>2. OneAddress
  <2>1. \A d \in Dest : DOMAIN chain[d] = {} /\ DOMAIN received[d] = {}
    BY <1>1
  <2> QED
    BY <1>1, <2>1 DEF OneAddress, Concerns, Dgs, InAir, Range
<1>3. TableIsReceived
  BY <1>1 DEF TableIsReceived, In!Init, In!Existed
<1>4. g_seqnum <= MaxSends
  BY <1>1, LimitsAssumption
<1> QED
  BY <1>1, <1>2, <1>3, <1>4 DEF AckInv, AirIsSingle, AnswerIsReceived

\* When no datagram is cut, an acknowledgement that releases a datagram at the
\* sender means that the receiving application has it, although mac_input
\* answers before it decides whether to keep the frame: provided the table of
\* the receiver has room, for a frame that finds none is answered and dropped.
THEOREM AckedMeansReceived ==
  ASSUME Unfragmented
  PROVE  LinkSpec /\ []TableHasRoom => AckMeansReceived
<1> DEFINE Inv == Base /\ OnePbufEach /\ AckInv
           Step == \A d \in Dest : \A i \in DOMAIN chain[d] :
             LET b == chain[d][i]
             IN  Id(b) \notin Ids(chain'[d]) /\ WholeIn(b, d) /\ SenderIsAnswered
                   => \E n \in DOMAIN received[d] : received[d][n] = b.dg
<1>1. Inv /\ [LinkNext]_lvars => Step
  <2>1. SUFFICES ASSUME Inv, NEW d \in Dest, NEW i \in DOMAIN chain[d],
                        Id(chain[d][i]) \notin Ids(chain'[d]), SenderIsAnswered
                 PROVE  \E n \in DOMAIN received[d] : received[d][n] = chain[d][i].dg
    OBVIOUS
  <2> DEFINE b == chain[d][i]
  <2>2. TypeOK /\ HeapInv /\ LinkType /\ AckInv
    BY <2>1 DEF Base
  <2>3. Id(b) \in Ids(chain[d]) /\ b.dg \in Dgs(chain[d])
    BY DEF Ids, Dgs
  <2>4. RecvAck(answer) /\ answer # NoFrame
    <3>1. Expected(answer)
      BY <2>1, <2>3 DEF SenderIsAnswered, vars
    <3> QED
      BY <2>1, <3>1 DEF SenderIsAnswered
  <2>5. answer.dest = d /\ answer.seq = SeqNum(b)
    <3>1. answer \in aired
      BY <2>2, <2>4 DEF LinkType
    <3> QED
      BY <2>1, <2>2, <2>4, <3>1, ReleasedIsAnswered DEF Answers
  <2>6. PICK r \in Range(received[d]) : r % SeqMod = b.dg % SeqMod
    BY <2>2, <2>4, <2>5 DEF AckInv, AnswerIsReceived, Has, SeqNum
  <2>7. r \in Concerns(d) /\ b.dg \in Concerns(d)
    BY <2>3, <2>6 DEF Concerns
  <2>8. r = b.dg
    BY <2>1, <2>2, <2>6, <2>7, SmallNumbers DEF AckInv
  <2> QED
    BY <2>6, <2>8 DEF Range
<1>2. LinkInit => AckInv
  BY AckInit
<1>3. Base /\ OnePbufEach /\ AckInv /\ TableHasRoom /\ [LinkNext]_lvars => AckInv'
  BY AckStep
<1>4. LinkSpec => [](Base /\ OnePbufEach)
  <2>1. CountInv => OnePbufEach
    BY DEF CountInv
  <2> QED
    BY <2>1, BaseInvariant, SenderIsOutputMgr, CountInvariant, PTL
<1>5. LinkSpec /\ []TableHasRoom => []Inv
  BY <1>2, <1>3, <1>4, PTL DEF LinkSpec
<1>6. LinkSpec /\ []TableHasRoom => [][Step]_lvars
  BY <1>1, <1>5, PTL DEF LinkSpec
<1> QED
  BY <1>6 DEF AckMeansReceived

-----------------------------------------------------------------------------
(***************************************************************************)
(* The table has room for what one sender can transmit.                    *)
(***************************************************************************)

\* In the time the receiver remembers a frame, and one interval more, the
\* sender cannot transmit as many frames as the table holds.
TableCovers == (MaxAge + 1) * Longest < QueSize * Interval

\* The frames remembered for m ticks at most, and the one in the air, were
\* transmitted one interval after the other.
Recent(t, m) == {s \in In!Slot : t[s].state = "EXISTED" /\ t[s].ctime <= m}
Flying(f) == IF f = NoFrame THEN 0 ELSE 1
Spaced(t, m, f, ls, lr) ==
  (Cardinality(Recent(t, m)) + Flying(f)) * Interval + lr
    <= (m + 1) * Longest + ls

RoomInv ==
  /\ \A m \in Nat : Spaced(iput_msg_que, m, air, Ls, Lr)
  /\ air # NoFrame => Interval <= Ls
  /\ \A s \in In!Slot : In!Existed(s) => iput_msg_que[s].ctime < MaxAge

LEMMA RecentCount ==
  ASSUME NEW t, NEW m
  PROVE  /\ IsFiniteSet(Recent(t, m)) /\ Cardinality(Recent(t, m)) \in Nat
         /\ IsFiniteSet(In!Slot) /\ Cardinality(In!Slot) = QueSize
<1>1. QueSize \in Nat /\ 1 <= QueSize /\ 1 \in Int /\ QueSize \in Int
  BY TableAssumption
<1>2. IsFiniteSet(1..QueSize) /\ Cardinality(1..QueSize) = QueSize
  BY <1>1, FS_Interval
<1>3. Recent(t, m) \in SUBSET In!Slot
  BY DEF Recent
<1>4. IsFiniteSet(Recent(t, m))
  BY <1>2, <1>3, FS_Subset DEF In!Slot
<1>5. Cardinality(Recent(t, m)) \in Nat
  BY <1>4, FS_CardinalityType
<1> QED
  BY <1>2, <1>4, <1>5 DEF In!Slot

\* The arithmetic of the steps below.
LEMMA SpacedLater ==
  ASSUME NEW t, NEW u, NEW m \in Nat, NEW f, NEW g,
         NEW ls \in Nat, NEW lr \in Nat, NEW ms \in Nat, NEW mr \in Nat,
         Spaced(t, m, f, ls, lr), ls + mr <= ms + lr,
         Cardinality(Recent(u, m)) + Flying(g) <= Cardinality(Recent(t, m)) + Flying(f)
  PROVE  Spaced(u, m, g, ms, mr)
<1> DEFINE a == Cardinality(Recent(t, m)) + Flying(f)
           b == Cardinality(Recent(u, m)) + Flying(g)
           x == a * Interval
           y == b * Interval
           z == (m + 1) * Longest
<1>1. a \in Nat /\ b \in Nat /\ b <= a
  BY RecentCount DEF Flying
<1>2. Interval \in Nat /\ Longest \in Nat /\ m + 1 \in Nat
  BY TimerType
<1> HIDE DEF a, b
<1>3. x \in Nat /\ y \in Nat /\ y <= x /\ z \in Nat
  BY <1>1, <1>2, Products
<1>4. x + lr <= z + ls
  BY DEF Spaced, a
<1> HIDE DEF x, y, z
<1>5. y + mr <= z + ms
  BY <1>3, <1>4
<1> QED
  BY <1>5 DEF Spaced, y, z, b

\* The sender's timer has expired, and a frame is transmitted.
LEMMA SpacedOneMore ==
  ASSUME NEW t, NEW m \in Nat, NEW f, NEW lr \in Nat, NEW ms \in Nat, Interval <= ms,
         Spaced(t, m, NoFrame, 0, lr)
  PROVE  Spaced(t, m, f, ms, lr)
<1> DEFINE c == Cardinality(Recent(t, m))
           x == c * Interval
           y == (c + Flying(f)) * Interval
           z == (m + 1) * Longest
<1>1. c \in Nat
  BY RecentCount
<1>2. Interval \in Nat /\ Longest \in Nat /\ m + 1 \in Nat
  BY TimerType
<1> HIDE DEF c
<1>3. x \in Nat /\ z \in Nat /\ c + 0 = c
  BY <1>1, <1>2, Products
<1>4. x + lr <= z + 0
  BY <1>3 DEF Spaced, Flying, c
<1>5. y \in Nat /\ y <= x + Interval
  <2>1. CASE f = NoFrame
    <3>1. c + Flying(f) = c
      BY <1>3, <2>1 DEF Flying
    <3> QED
      BY <1>2, <1>3, <3>1
  <2>2. CASE f # NoFrame
    <3>1. c + Flying(f) = c + 1
      BY <2>2 DEF Flying
    <3>2. (c + 1) * Interval = c * Interval + Interval
      BY <1>1, <1>2, Products
    <3> QED
      BY <1>2, <1>3, <3>1, <3>2
  <2> QED
    BY <2>1, <2>2
<1> HIDE DEF x, y, z
<1>6. y + lr <= z + ms
  BY <1>2, <1>3, <1>4, <1>5
<1> QED
  BY <1>6 DEF Spaced, y, z, c

\* The receiver's timer has expired, and frames get one tick older.
LEMMA SpacedOlder ==
  ASSUME NEW t, NEW u, NEW m \in Nat, NEW f, NEW ls \in Nat, NEW mr \in 0..Longest,
         f # NoFrame => Interval <= ls,
         \/ m = 0 /\ Recent(u, m) = {}
         \/ /\ m # 0 /\ Spaced(t, m - 1, f, ls, 0)
            /\ Recent(u, m) \subseteq Recent(t, m - 1)
  PROVE  Spaced(u, m, f, ls, mr)
<1>1. Interval \in Nat /\ Longest \in Nat /\ m + 1 \in Nat /\ mr \in Nat /\ mr <= Longest
  BY TimerType
<1>2. CASE m = 0 /\ Recent(u, m) = {}
  <2>1. Cardinality(Recent(u, m)) = 0
    BY <1>2, FS_EmptySet
  <2>2. (m + 1) * Longest = Longest
    BY <1>1, <1>2
  <2>3. (0 + Flying(f)) * Interval <= ls /\ (0 + Flying(f)) * Interval \in Nat
    BY <1>1 DEF Flying
  <2> DEFINE x == (0 + Flying(f)) * Interval
  <2> HIDE DEF x
  <2>4. x + mr <= Longest + ls
    BY <1>1, <2>3 DEF x
  <2> QED
    BY <2>1, <2>2, <2>4 DEF Spaced, x
<1>3. CASE /\ m # 0 /\ Spaced(t, m - 1, f, ls, 0)
           /\ Recent(u, m) \subseteq Recent(t, m - 1)
  <2> DEFINE a == Cardinality(Recent(t, m - 1)) + Flying(f)
             b == Cardinality(Recent(u, m)) + Flying(f)
             x == a * Interval
             y == b * Interval
             w == m * Longest
             z == (m + 1) * Longest
  <2>1. Recent(u, m) \in SUBSET Recent(t, m - 1)
    BY <1>3
  <2>2. Cardinality(Recent(u, m)) <= Cardinality(Recent(t, m - 1))
    BY <2>1, RecentCount, FS_Subset
  <2>3. Cardinality(Recent(u, m)) \in Nat /\ Cardinality(Recent(t, m - 1)) \in Nat
    BY RecentCount
  <2>4. a \in Nat /\ b \in Nat /\ b <= a
    BY <2>2, <2>3 DEF Flying
  <2> HIDE DEF a, b
  <2>5. x \in Nat /\ y \in Nat /\ y <= x
    BY <1>1, <2>4, Products
  <2>6. w \in Nat /\ z = w + Longest
    BY <1>1, Products
  <2>7. x + 0 <= w + ls
    <3>1. (m - 1) + 1 = m
      BY <1>1
    <3> QED
      BY <1>3, <3>1 DEF Spaced, a
  <2> HIDE DEF x, y, w, z
  <2>8. y + mr <= z + ls
    BY <1>1, <2>5, <2>6, <2>7
  <2> QED
    BY <2>8 DEF Spaced, y, z, b
<1> QED
  BY <1>2, <1>3

LEMMA FilledRecent ==
  ASSUME LinkType, NEW k \in [addr : {Source}, seqnum : Nat, offset : Nat], In!Fill(k),
         NEW m \in Nat
  PROVE  Cardinality(Recent(iput_msg_que', m))
           <= Cardinality(Recent(iput_msg_que, m)) + 1
<1>1. PICK s \in In!Slot : \A r \in In!Slot \ {s} : iput_msg_que'[r] = iput_msg_que[r]
  BY FilledTable DEF LinkType
<1> DEFINE R == Recent(iput_msg_que, m)
           N == Recent(iput_msg_que', m)
<1>2. N \in SUBSET (R \cup {s})
  BY <1>1 DEF Recent
<1>3. IsFiniteSet(R) /\ Cardinality(R) \in Nat /\ Cardinality(N) \in Nat
  BY RecentCount
<1> HIDE DEF R, N
<1>4. IsFiniteSet(R \cup {s})
      /\ Cardinality(R \cup {s}) \in {Cardinality(R), Cardinality(R) + 1}
  BY <1>3, FS_AddElement
<1>5. Cardinality(N) <= Cardinality(R \cup {s})
  BY <1>2, <1>4, FS_Subset
<1>6. Cardinality(N) <= Cardinality(R) + 1
  BY <1>3, <1>4, <1>5
<1> QED
  BY <1>6 DEF R, N

LEMMA RoomStep ==
  ASSUME Base, Base', RoomInv, [LinkNext]_lvars
  PROVE  RoomInv'
<1>1. LinkType /\ TypeOK /\ AirIsAired
  BY DEF Base
<1>2. Ls \in Nat /\ Lr \in Nat /\ Ls' \in Nat /\ Lr' \in 0..Longest
  <2>1. \A x \in Node : left[x] \in Nat /\ left'[x] \in 0..Longest
    BY TimerType DEF Base, LinkType
  <2> QED
    BY <2>1, TimerType DEF Ls, Lr, Node
<1>3. ASSUME iput_msg_que' = iput_msg_que, air' \in {air, NoFrame}, left' = left
      PROVE  RoomInv'
  <2>1. Ls' = Ls /\ Lr' = Lr
    BY <1>3 DEF Ls, Lr
  <2>2. Flying(air') <= Flying(air) /\ Flying(air) \in Nat /\ Flying(air') \in Nat
    BY <1>3 DEF Flying
  <2>3. ASSUME NEW m \in Nat PROVE Spaced(iput_msg_que', m, air', Ls', Lr')
    <3>1. Spaced(iput_msg_que, m, air, Ls, Lr)
      BY DEF RoomInv
    <3>2. Cardinality(Recent(iput_msg_que, m)) \in Nat
      BY RecentCount
    <3>3. Cardinality(Recent(iput_msg_que, m)) + Flying(air')
            <= Cardinality(Recent(iput_msg_que, m)) + Flying(air)
      BY <2>2, <3>2
    <3>4. Ls + Lr <= Ls + Lr
      BY <1>2
    <3> QED
      BY <1>2, <1>3, <2>1, <3>1, <3>3, <3>4, SpacedLater
  <2> QED
    BY <1>3, <2>1, <2>3 DEF RoomInv, In!Existed
<1>4. CASE UNCHANGED lvars
  BY <1>3, <1>4 DEF lvars, inVars
<1>5. CASE SenderAges \/ SenderSends \/ SenderIsAnswered \/ FrameLost \/ AnswerLost
  BY <1>3, <1>5 DEF SenderAges, SenderSends, SenderIsAnswered, FrameLost, AnswerLost,
     inVars
<1>6. CASE SenderTransmits
  <2>1. iput_msg_que' = iput_msg_que /\ air = NoFrame /\ due = "send"
    BY <1>6 DEF SenderTransmits, inVars, OutputTmr
  <2>2. left'["receiver"] = left["receiver"] /\ left'["sender"] \in Interval..Longest
    BY <1>1, <1>6, RearmType DEF SenderTransmits, Node
  <2>3. Ls = 0 /\ Lr' = Lr /\ Interval <= Ls'
    BY <1>1, <2>1, <2>2, TimerType DEF LinkType, Ls, Lr
  <2>4. ASSUME NEW m \in Nat PROVE Spaced(iput_msg_que', m, air', Ls', Lr')
    <3>1. Spaced(iput_msg_que, m, NoFrame, 0, Lr)
      BY <2>1, <2>3 DEF RoomInv
    <3> QED
      BY <1>2, <2>1, <2>3, <3>1, SpacedOneMore
  <2> QED
    BY <2>1, <2>3, <2>4 DEF RoomInv, In!Existed
<1>7. CASE ReceiverHasFrame
  <2>1. air # NoFrame /\ air' = NoFrame /\ left' = left
    BY <1>7 DEF ReceiverHasFrame
  <2>2. CASE iput_msg_que' = iput_msg_que
    BY <1>3, <2>1, <2>2
  <2>3. CASE In!Fill(Key(air.pbuf))
    <3>1. Key(air.pbuf) \in [addr : {Source}, seqnum : Nat, offset : Nat]
      BY <1>1, <2>1, AirType, KeyType
    <3>2. Ls' = Ls /\ Lr' = Lr
      BY <2>1 DEF Ls, Lr
    <3>3. ASSUME NEW m \in Nat PROVE Spaced(iput_msg_que', m, air', Ls', Lr')
      <4>1. Spaced(iput_msg_que, m, air, Ls, Lr)
        BY DEF RoomInv
      <4>2. Cardinality(Recent(iput_msg_que', m))
              <= Cardinality(Recent(iput_msg_que, m)) + 1
        BY <1>1, <2>3, <3>1, FilledRecent
      <4>3. Flying(air) = 1 /\ Flying(air') = 0
        BY <2>1 DEF Flying
      <4>4. Cardinality(Recent(iput_msg_que', m)) \in Nat
            /\ Cardinality(Recent(iput_msg_que, m)) \in Nat
        BY RecentCount
      <4>5. Cardinality(Recent(iput_msg_que', m)) + Flying(air')
              <= Cardinality(Recent(iput_msg_que, m)) + Flying(air)
        BY <4>2, <4>3, <4>4
      <4>6. Ls + Lr <= Ls + Lr
        BY <1>2
      <4> QED
        BY <1>2, <3>2, <4>1, <4>5, <4>6, SpacedLater
    <3>4. ASSUME NEW s \in In!Slot, iput_msg_que'[s].state = "EXISTED"
          PROVE  iput_msg_que'[s].ctime < MaxAge
      <4>1. PICK r \in In!Slot :
              /\ iput_msg_que'[r] = [state |-> "EXISTED", ctime |-> 0,
                                     key |-> Key(air.pbuf)]
              /\ \A q \in In!Slot \ {r} : iput_msg_que'[q] = iput_msg_que[q]
        BY <1>1, <2>3, <3>1, FilledTable DEF LinkType
      <4>2. CASE s = r
        <5>1. iput_msg_que'[s].ctime = 0
          BY <4>1, <4>2
        <5> QED
          BY <5>1, TableAssumption
      <4>3. CASE s # r
        <5>1. iput_msg_que'[s] = iput_msg_que[s]
          BY <4>1, <4>3
        <5> QED
          BY <3>4, <5>1 DEF RoomInv, In!Existed
      <4> QED
        BY <4>2, <4>3
    <3> QED
      BY <2>1, <3>3, <3>4 DEF RoomInv, In!Existed
  <2> QED
    BY <1>7, <2>2, <2>3 DEF ReceiverHasFrame, In!AlreadyExists, In!QueueFull
<1>8. CASE ReceiverTicks
  <2>1. In!Tick /\ Lr = 0 /\ air' = air
    BY <1>8 DEF ReceiverTicks, Lr
  <2>2. left'["sender"] = left["sender"]
    BY <1>1, <1>8, RearmType DEF ReceiverTicks, Node
  <2>3. Ls' = Ls /\ (air # NoFrame => Interval <= Ls)
    BY <2>2 DEF Ls, RoomInv
  <2>4. \A s \in In!Slot : iput_msg_que'[s].state = "EXISTED" =>
          /\ In!Existed(s) /\ iput_msg_que'[s].ctime = iput_msg_que[s].ctime + 1
          /\ iput_msg_que[s].ctime \in Nat
    <3>1. \A s \in In!Slot : iput_msg_que[s].ctime \in Nat
      BY <1>1 DEF LinkType, TableItem
    <3> QED
      BY <1>1, <2>1, <3>1, TickedTable DEF LinkType
  <2>5. ASSUME NEW m \in Nat PROVE Spaced(iput_msg_que', m, air', Ls', Lr')
    <3>1. CASE m = 0
      <4>1. Recent(iput_msg_que', m) = {}
        BY <2>4, <3>1 DEF Recent
      <4> QED
        BY <1>2, <2>1, <2>3, <3>1, <4>1, SpacedOlder
    <3>2. CASE m # 0
      <4>1. m - 1 \in Nat
        BY <3>2
      <4>2. Spaced(iput_msg_que, m - 1, air, Ls, 0)
        BY <2>1, <4>1 DEF RoomInv
      <4>3. Recent(iput_msg_que', m) \subseteq Recent(iput_msg_que, m - 1)
        BY <2>4, <4>1 DEF Recent, In!Existed
      <4> QED
        BY <1>2, <2>1, <2>3, <3>2, <4>2, <4>3, SpacedOlder
    <3> QED
      BY <3>1, <3>2
  <2>6. ASSUME NEW s \in In!Slot, iput_msg_que'[s].state = "EXISTED"
        PROVE  iput_msg_que'[s].ctime < MaxAge
    <3>1. In!Existed(s) /\ iput_msg_que[s].ctime \in Nat
          /\ iput_msg_que'[s].ctime = iput_msg_que[s].ctime + 1
      BY <2>4, <2>6
    <3>2. iput_msg_que[s] \in TableItem
      BY <1>1 DEF LinkType
    <3> DEFINE n == iput_msg_que[s].ctime + 1
               st == IF In!TooOld(n) THEN "EMPTY" ELSE "EXISTED"
    <3>3. iput_msg_que'[s] = [iput_msg_que[s] EXCEPT !.ctime = n, !.state = st]
      BY <2>1, <3>1 DEF In!Tick, In!Older
    <3>4. iput_msg_que'[s].state = st
      <4> HIDE DEF st
      <4> QED
        BY <3>2, <3>3 DEF TableItem
    <3>5. ~In!TooOld(n)
      BY <2>6, <3>4
    <3> QED
      BY <3>1, <3>5, TimerType DEF In!TooOld
  <2> QED
    BY <2>1, <2>3, <2>5, <2>6 DEF RoomInv, In!Existed
<1>9. CASE TimePasses
  <2> DEFINE t == CHOOSE n \in {left[x] : x \in Node} : \A x \in Node : n <= left[x]
  <2>1. air = NoFrame /\ air' = air /\ iput_msg_que' = iput_msg_que
        /\ left' = [x \in Node |-> left[x] - t]
    BY <1>9 DEF TimePasses, inVars
  <2>2. t \in Nat /\ t <= Ls /\ t <= Lr
    BY <1>1, FirstTimer
  <2> HIDE DEF t
  <2>3. Ls' = Ls - t /\ Lr' = Lr - t
    BY <2>1 DEF Ls, Lr, Node
  <2>4. ASSUME NEW m \in Nat PROVE Spaced(iput_msg_que', m, air', Ls', Lr')
    <3>1. Spaced(iput_msg_que, m, air, Ls, Lr)
      BY DEF RoomInv
    <3>2. Ls + Lr' <= Ls' + Lr /\ Lr' \in Nat
      BY <1>2, <2>2, <2>3
    <3>3. Cardinality(Recent(iput_msg_que, m)) + Flying(air)
            <= Cardinality(Recent(iput_msg_que, m)) + Flying(air)
      <4>1. Cardinality(Recent(iput_msg_que, m)) \in Nat
        BY RecentCount
      <4> QED
        BY <4>1 DEF Flying
    <3> QED
      BY <1>2, <2>1, <3>1, <3>2, <3>3, SpacedLater
  <2> QED
    BY <2>1, <2>4 DEF RoomInv, In!Existed
<1> QED
  BY <1>4, <1>5, <1>6, <1>7, <1>8, <1>9 DEF LinkNext, Progress

LEMMA RoomInit == LinkInit => RoomInv
<1> SUFFICES ASSUME LinkInit PROVE RoomInv
  OBVIOUS
<1>1. In!Init /\ air = NoFrame /\ left \in [Node -> 1..Interval]
  BY DEF LinkInit
<1>2. Ls \in Nat /\ Lr \in Nat /\ Lr <= Longest
  <2>1. left["sender"] \in 1..Interval /\ left["receiver"] \in 1..Interval
    BY <1>1 DEF Node
  <2> QED
    BY <2>1, TimerType DEF Ls, Lr
<1>3. \A s \in In!Slot : iput_msg_que[s].state = "EMPTY"
  BY <1>1 DEF In!Init
<1>4. ASSUME NEW m \in Nat PROVE Spaced(iput_msg_que, m, air, Ls, Lr)
  <2>1. Recent(iput_msg_que, m) = {}
    BY <1>3 DEF Recent
  <2>2. Cardinality(Recent(iput_msg_que, m)) + Flying(air) = 0
    BY <1>1, <2>1, FS_EmptySet DEF Flying
  <2>3. 0 * Interval = 0 /\ (m + 1) * Longest = m * Longest + Longest
        /\ m * Longest \in Nat /\ Longest \in Nat
    BY TimerType, Products
  <2> DEFINE x == m * Longest
  <2> HIDE DEF x
  <2>4. 0 + Lr <= (x + Longest) + Ls
    BY <1>2, <2>3 DEF x
  <2> QED
    BY <2>2, <2>3, <2>4 DEF Spaced, x
<1> QED
  BY <1>1, <1>3, <1>4 DEF RoomInv, In!Existed

\* The table of the receiver is never full, whatever the sender sends and
\* however often it retransmits: the code has 80 slots and a jitter of 4 ms, and
\* 12 * (Interval + 4) is less than 80 * Interval for every interval.
THEOREM TableNeverFull ==
  ASSUME TableCovers
  PROVE  LinkSpec => []TableHasRoom
<1>1. Base /\ RoomInv => TableHasRoom
  <2> SUFFICES ASSUME Base, RoomInv, In!Full PROVE FALSE
    BY DEF TableHasRoom
  <2> DEFINE m == MaxAge - 1
             n == Cardinality(Recent(iput_msg_que, m)) + Flying(air)
             x == n * Interval
             y == QueSize * Interval
             z == MaxAge * Longest
  <2>1. MaxAge \in Nat /\ QueSize \in Nat /\ m \in Nat /\ m + 1 = MaxAge
        /\ Interval \in Nat /\ Longest \in Nat
    BY TableAssumption, TimerType
  <2>2. Recent(iput_msg_que, m) = In!Slot
    <3>1. ASSUME NEW s \in In!Slot
          PROVE  iput_msg_que[s].state = "EXISTED" /\ iput_msg_que[s].ctime <= m
      <4>1. In!Existed(s) /\ iput_msg_que[s].ctime < MaxAge
        BY DEF RoomInv, In!Full
      <4>2. iput_msg_que[s].ctime \in Nat
        BY DEF Base, LinkType, TableItem
      <4> QED
        BY <2>1, <4>1, <4>2 DEF In!Existed
    <3> QED
      BY <3>1 DEF Recent
  <2>3. n \in Nat /\ QueSize <= n
    BY <2>1, <2>2, RecentCount DEF Flying
  <2>4. Ls \in Nat /\ Lr \in Nat /\ Ls <= Longest
    <3>1. left["sender"] \in 0..Longest /\ left["receiver"] \in 0..Longest
      BY DEF Base, LinkType, Node
    <3> QED
      BY <3>1, TimerType DEF Ls, Lr
  <2>5. x + Lr <= z + Ls
    <3>1. Spaced(iput_msg_que, m, air, Ls, Lr)
      BY <2>1 DEF RoomInv
    <3> HIDE DEF m
    <3> QED
      BY <2>1, <3>1 DEF Spaced
  <2> HIDE DEF m, n
  <2>6. x \in Nat /\ y \in Nat /\ y <= x /\ z \in Nat
    BY <2>1, <2>3, Products
  <2>7. z + Longest < y
    BY <2>1, Products DEF TableCovers
  <2> HIDE DEF x, y, z
  <2> QED
    BY <2>1, <2>4, <2>5, <2>6, <2>7
<1>2. Base /\ Base' /\ RoomInv /\ [LinkNext]_lvars => RoomInv'
  BY RoomStep
<1>3. LinkSpec => [](Base /\ RoomInv)
  BY <1>2, RoomInit, BaseInvariant, PTL DEF LinkSpec
<1> QED
  BY <1>1, <1>3, PTL

\* Then the limits alone decide that an acknowledgement can be relied on.
THEOREM AcksAreReliable ==
  ASSUME Unfragmented, TableCovers
  PROVE  LinkSpec => AckMeansReceived
<1> QED
  BY TableNeverFull, AckedMeansReceived, PTL

=============================================================================

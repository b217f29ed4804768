-------------------------------- MODULE Link --------------------------------
(***************************************************************************)
(* Two nodes and the radio between them.  The sender runs OutputMgr, the   *)
(* receiver InputMgr and Reass, and mac_input (src/src/mac_net.c) ties     *)
(* them together: the receiver answers a frame before it looks whether it  *)
(* has had it already, and the sender hands answers to its output manager. *)
(*                                                                         *)
(* Each node has a periodic timer of its own, whose interval is drawn anew *)
(* every time (src/src/rf_tmr.c): the receiver's memory of a frame and the *)
(* sender's attempts are measured by different clocks.  A frame is         *)
(* received at the time it is transmitted, or never; an answer may come    *)
(* late.  Once reassembly has linked freed memory the receiver does        *)
(* nothing more here, since what it would do is arbitrary.                 *)
(***************************************************************************)
EXTENDS OutputMgr

CONSTANTS
  Source,                             \* the sender's MAC address
  Offset, NoKey, QueSize, MaxAge,     \* of InputMgr
  ReassMaxAge, ReassMaxPbufs,         \* MaxAge and MaxPbufs of Reass
  Disturbances,                       \* of Reass: "nomem" or nothing
  Interval, Jitter,                   \* of the timers, in milliseconds
  NoFrame                             \* nothing in the air

ASSUME ClockAssumption == Interval \in Nat \ {0} /\ Jitter \in Nat

\* Sequence numbers are not reused.
ASSUME LinkAssumption ==
  /\ MaxSends <= SeqMod /\ Disturbances \subseteq {"nomem"}
  /\ NoFrame \notin Frame /\ NoFrame \notin [dest : Dest, pbuf : Pbuf]

\* The loop index and ctime of the input manager are uint8_t.
ASSUME TableAssumption == QueSize \in 1..255 /\ MaxAge \in 1..255

VARIABLES
  iput_msg_que, ret,         \* the receiver's input manager
  p_reass_list, g_reass_pbuf_cunt, heap, delivered,
  crashed,                   \* the receiver's reassembly
  air,                       \* the frame in the air
  answer,                    \* the ACK frame on its way
  received,                  \* what recv_cb was called with, for each address
  left                       \* milliseconds until each node's timer expires

inVars == <<iput_msg_que, ret>>
reassVars == <<p_reass_list, g_reass_pbuf_cunt, heap, delivered, crashed>>
lvars == <<vars, inVars, reassVars, air, answer, received, left>>

In == INSTANCE InputMgr WITH Addr <- {Source}, SeqNums <- 0..(SeqMod - 1)

\* The fragments come over the link: the sources of Reass are not used.
Re == INSTANCE Reass WITH
        Src <- {Source}, Shapes <- [frags : {k.frags : k \in Kinds} \ {1}, tail : {1}],
        MaxAge <- ReassMaxAge, MaxPbufs <- ReassMaxPbufs,
        MaxDatagrams <- 0, MaxDeliveries <- 0, sender <- <<>>

Node == {"sender", "receiver"}

-----------------------------------------------------------------------------
(***************************************************************************)
(* The sender.                                                             *)
(***************************************************************************)

\* The pbufs oput_msg_tmr may hand to the radio: at most one.
ToTransmit ==
  {t \in Dest \X (1..MaxPbufs) :
     LET d == t[1]
         i == t[2]
     IN  /\ g_curr_msg = d /\ Sendable(d) /\ IsFirstStop(d, i)
         /\ chain[d][i].retry < MaxRetries /\ chain[d][i].card}

\* The timer callback ends by starting the timer again.
Rearm(node) ==
  \E t \in Interval..(Interval + Jitter) : left' = [left EXCEPT ![node] = t]

SenderAges ==
  /\ left["sender"] = 0
  /\ OldAgeTmr
  /\ UNCHANGED <<inVars, reassVars, air, answer, received, left>>

SenderTransmits ==
  /\ air = NoFrame
  /\ OutputTmr
  /\ air' = IF ToTransmit = {} THEN NoFrame
            ELSE LET t == CHOOSE x \in ToTransmit : TRUE
                 IN  [dest |-> t[1], pbuf |-> chain[t[1]][t[2]]]
  /\ Rearm("sender")
  /\ UNCHANGED <<inVars, reassVars, answer, received>>

SenderSends ==
  /\ \E d \in Dest, k \in Kinds : Send(d, k)
  /\ UNCHANGED <<inVars, reassVars, air, answer, received, left>>

\* mac_input at the sender, for an ACK frame: one that finds nothing to mark or
\* to release is dropped.
Expected(f) ==
  /\ AckFindsItem(f.dest)
  /\ \E i \in SameSeq(f.dest, f) :
       f.mf => FrameOf(f.dest, chain[f.dest][i]) = f

SenderIsAnswered ==
  /\ answer # NoFrame
  /\ answer' = NoFrame
  /\ IF Expected(answer) THEN RecvAck(answer) ELSE UNCHANGED vars
  /\ UNCHANGED <<inVars, reassVars, air, received, left>>

-----------------------------------------------------------------------------
(***************************************************************************)
(* The receiver.                                                           *)
(***************************************************************************)

Key(b) == [addr |-> Source, seqnum |-> SeqNum(b), offset |-> b.frag - 1]

\* The fragment that reassembly sees in the frame of pbuf b.
FragmentIn(b) ==
  Re!FragmentOf([src |-> Source, seq |-> b.dg + 1,
                 shape |-> [frags |-> b.frags, tail |-> 1]], b.frag)

\* mac_frame_ack_response: not for broadcast, and only when it is asked for.
Answered(f) ==
  IF f.dest \in Unicast /\ f.pbuf.ack THEN FrameOf(f.dest, f.pbuf) ELSE answer

HandOver(f) == received' = [received EXCEPT ![f.dest] = Append(@, f.pbuf.dg)]

\* What mac_input does with a frame that is not a repeat.
PassOn(f) ==
  \/ /\ f.pbuf.frags = 1
     /\ HandOver(f)
     /\ UNCHANGED reassVars
  \/ /\ f.pbuf.frags > 1
     /\ Re!packet_reass(FragmentIn(f.pbuf))
     /\ IF delivered' # delivered THEN HandOver(f) ELSE UNCHANGED received

\* mac_input at the receiver, for a data frame.
ReceiverHasFrame ==
  LET k == Key(air.pbuf)
  IN  /\ air # NoFrame /\ ~Re!Corrupt
      /\ air' = NoFrame
      /\ answer' = Answered(air)
      /\ \/ In!Fill(k) /\ PassOn(air)
         \/ /\ In!AlreadyExists(k) \/ In!QueueFull(k)
            /\ UNCHANGED <<reassVars, received>>
      /\ UNCHANGED <<vars, left>>

ReceiverTicks ==
  /\ left["receiver"] = 0 /\ ~Re!Corrupt
  /\ In!Tick
  /\ Re!packet_reass_tmr
  /\ Rearm("receiver")
  /\ UNCHANGED <<vars, air, answer, received>>

-----------------------------------------------------------------------------
(***************************************************************************)
(* The radio, and time.                                                    *)
(***************************************************************************)

\* Lost, or dropped before mac_input answers: a wrong length or checksum, or no
\* memory for the pbuf (radio_low_level_input).
FrameLost ==
  /\ air # NoFrame
  /\ air' = NoFrame
  /\ UNCHANGED <<vars, inVars, reassVars, answer, received, left>>

AnswerLost ==
  /\ answer # NoFrame
  /\ answer' = NoFrame
  /\ UNCHANGED <<vars, inVars, reassVars, air, received, left>>

\* Time passes until the next timer expires.
TimePasses ==
  LET t == CHOOSE n \in {left[x] : x \in Node} : \A x \in Node : n <= left[x]
  IN  /\ air = NoFrame /\ due = "age" /\ t > 0
      /\ left' = [x \in Node |-> left[x] - t]
      /\ UNCHANGED <<vars, inVars, reassVars, air, answer, received>>

-----------------------------------------------------------------------------

LinkInit ==
  /\ Init /\ In!Init
  /\ p_reass_list = <<>> /\ g_reass_pbuf_cunt = 0 /\ heap = {}
  /\ delivered = <<>> /\ crashed = FALSE
  /\ air = NoFrame /\ answer = NoFrame
  /\ received = [d \in Dest |-> <<>>]
  /\ left \in [Node -> 1..Interval]

\* What happens by itself as time goes by.
Progress == SenderAges \/ SenderTransmits \/ ReceiverTicks \/ TimePasses

LinkNext ==
  \/ Progress
  \/ SenderSends \/ SenderIsAnswered
  \/ ReceiverHasFrame
  \/ FrameLost \/ AnswerLost

LinkSpec == LinkInit /\ [][LinkNext]_lvars

\* Timers restart themselves, and what is in the air arrives or is lost.
FairLinkSpec ==
  LinkSpec /\ WF_lvars(Progress) /\ WF_lvars(ReceiverHasFrame \/ FrameLost)

-----------------------------------------------------------------------------
(***************************************************************************)
(* Properties.                                                             *)
(***************************************************************************)

Service == INSTANCE DatagramService WITH sent <- g_seqnum

\* However often a frame is retransmitted and whatever answers are lost or late,
\* a datagram is handed to the receiving application at most once, and those
\* for one address in the order they were sent.  This needs a window that covers
\* the attempts, and no transmitted pbuf that waits for another datagram to
\* revive its item (oput_msg_send_pbuf_iterator).
ImplementsService == Service!Spec

\* All fragments of the datagram of pbuf b are still queued.
WholeIn(b, d) == \A i \in 1..b.frags : <<b.dg, i>> \in Ids(chain[d])

\* An answer that releases a whole datagram at the sender means that the
\* receiving application has it, although mac_input answers a frame first and
\* decides afterwards whether to keep it.
AckMeansReceived ==
  [][\A d \in Dest : \A i \in DOMAIN chain[d] :
       LET b == chain[d][i]
       IN  Id(b) \notin Ids(chain'[d]) /\ WholeIn(b, d) /\ SenderIsAnswered
             => \E n \in DOMAIN received[d] : received[d][n] = b.dg]_lvars

\* While the receiver has memory and room, and its entries live as long as the
\* attempts for all fragments take, reassembly corrupts memory for one reason
\* only: the sender gave up an earlier fragment of the datagram and went on with
\* the others (packet_send_retry_times_out_move, packet_reass).
SoundUnlessGivenUp ==
  [][Re!Corrupt' /\ ReceiverHasFrame => ~WholeIn(air.pbuf, air.dest)]_lvars

\* When the application falls silent both nodes come to rest: no item waits at
\* the sender and no entry at the receiver.
ComesToRest ==
  <>[](Re!Corrupt \/ (oput_msg_list = <<>> /\ p_reass_list = <<>> /\ heap = {}))

-----------------------------------------------------------------------------
(***************************************************************************)
(* What comments of the source say, and the code does not do.              *)
(***************************************************************************)

\* input_mgr.c:32: duplicates are removed from the input, so that no datagram
\* is handed to the application twice.
DuplicatesRemoved ==
  \A d \in Dest : \A m, n \in DOMAIN received[d] :
    received[d][m] = received[d][n] => m = n

=============================================================================

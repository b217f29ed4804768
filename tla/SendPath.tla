------------------------------ MODULE SendPath ------------------------------
(***************************************************************************)
(* The way of application data to the send queues: mac_output_to_src and   *)
(* mac_output of src/src/mac_net.c, and packet_frag of                     *)
(* src/src/packet_frag.c, which cuts data that does not fit a frame.       *)
(*                                                                         *)
(* One call is in progress at a time.  The loop of packet_frag is one step *)
(* per fragment, since each may fail to get memory.  A pbuf is a record:   *)
(* the header fields the receiver reassembles by, the bytes of payload it  *)
(* has room for, and the range of the application's data copied into them. *)
(* The queue that takes the chain is OutputMgr; here it takes or refuses:  *)
(* data frames with a sequence number that is not queued are meant.        *)
(***************************************************************************)
EXTENDS Naturals, Sequences, SequencesExt

CONSTANTS
  Lengths,   \* lengths of the data the application sends
  Mtu,       \* mtu of the rf card
  HdrLen,    \* MAC_HDR_LEN
  MaxPbufs   \* OPUT_MSG_MAX_PBUFS of the queue

\* With more, the size pbuf_alloc asks for wraps at 2^16, and what follows is
\* undefined: such calls are not modelled.
MaxData == 65400
ASSUME LengthsAssumption == Lengths \subseteq 0..MaxData

\* The mtu is a uint8_t in packet_frag; header offsets count 4 bytes.
ASSUME MtuAssumption ==
  HdrLen \in Nat /\ Mtu \in Nat /\ HdrLen < Mtu /\ Mtu < 256
  /\ (Mtu - HdrLen) % 4 = 0

VARIABLES
  pc,          \* where the call is
  data_len,    \* length of the data of the call
  first_pbuf,  \* the chain of fragments made so far
  live,        \* pbufs that are allocated
  queued,      \* the chain the queue took from the last call
  ret          \* what the last call returned

svars == <<pc, data_len, first_pbuf, live, queued, ret>>

-----------------------------------------------------------------------------

ByteMod == 256
Payload == Mtu - HdrLen

\* The header keeps 13 bits of the offset.  ofo may be longer: its next bit is
\* MF_FLG, which is set in all fragments but the last, where ofo is masked.
OffsetMod == 8192

\* Bytes from..to - 1 of the data.
Blank == [from |-> 0, to |-> 0]
Pbuf == [offset : 0..(OffsetMod - 1), mf : BOOLEAN, len : 0..Payload,
         data : [from : Nat, to : Nat]]

\* pbuf_num and last_pbuf_len are uint8_t.
PbufNum_mut(n) == n \div Payload
PbufNum(n) == (n \div Payload + 1) % ByteMod
LastLen_mut(n) == n % Mtu
LastLen(n) == (n % Payload) % ByteMod

\* Payload of a frame in units of the offset field.
Nfb_mut == Mtu \div 4
Nfb == Payload \div 4

\* i < pbuf_num, where i is the number of fragments made.
MoreToMake(n) == Len(first_pbuf) < PbufNum(n)

FirstFragment == [offset |-> 0, mf |-> TRUE, len |-> Payload, data |-> Blank]

NextFragment(n) ==
  LET last == Len(first_pbuf) = PbufNum(n) - 1
  IN  [offset |-> (Last(first_pbuf).offset + Nfb) % OffsetMod,
       mf |-> ~last,
       len |-> IF last THEN LastLen(n) ELSE Payload,
       data |-> Blank]

Lesser(a, b) == IF a < b THEN a ELSE b

\* pbuf_take: each pbuf is filled before the next; nothing is copied when the
\* chain is too short for n bytes.  Room(c)[i] is the room in the first i pbufs
\* of chain c; the chain's length, tot_len, is a uint16_t.
Room(c) ==
  LET upto[i \in 0..Len(c)] == IF i = 0 THEN 0 ELSE upto[i - 1] + c[i].len
  IN  upto
TotLen(c) == Room(c)[Len(c)] % 65536
Holding(b, i, j) == [b EXCEPT !.data = [from |-> i, to |-> j]]
Filled(c, n) ==
  [i \in DOMAIN c |->
     Holding(c[i], Lesser(Room(c)[i - 1], n), Lesser(Room(c)[i], n))]
Taken(c, n) == IF TotLen(c) < n THEN c ELSE Filled(c, n)

-----------------------------------------------------------------------------
(***************************************************************************)
(* A call.                                                                 *)
(***************************************************************************)

\* mac_output_to_src ends early: no rf card, no memory, or no data buffer
\* (pbuf_take refuses a NULL buffer, and the pbuf is freed).
Fail(n, buf) ==
  /\ pc = "idle"
  /\ data_len' = n
  /\ queued' = <<>> /\ live' = 0
  /\ ret' \in {"route", "memory"} \cup (IF buf THEN {} ELSE {"other"})
  /\ UNCHANGED <<pc, first_pbuf>>

\* The data is copied into a pbuf p, and mac_output adds the header.
Accept(n, buf) ==
  /\ pc = "idle" /\ buf
  /\ data_len' = n
  /\ pc' = IF n + HdrLen <= Mtu THEN "whole" ELSE "frag"
  /\ queued' = <<>> /\ live' = 1
  /\ UNCHANGED <<first_pbuf, ret>>

\* The queue takes a chain, unless it is too long or there is no room.
Counted(c) == Len(c) % ByteMod
Taking(c) == Counted(c) <= MaxPbufs

\* Data that fits a frame goes to the queue as it is.
SendWhole ==
  LET c == <<[offset |-> 0, mf |-> FALSE, len |-> data_len,
              data |-> [from |-> 0, to |-> data_len]]>>
  IN  /\ pc = "whole"
      /\ pc' = "idle"
      /\ \/ Taking(c) /\ queued' = c /\ ret' = "ok" /\ live' = live
         \/ queued' = <<>> /\ ret' = "refused" /\ live' = 0
      /\ UNCHANGED <<data_len, first_pbuf>>

\* packet_frag_buf_creat and pbuf_cat, for the first fragment and the next.
Create ==
  /\ pc = "frag"
  /\ \/ first_pbuf = <<>> /\ first_pbuf' = <<FirstFragment>>
     \/ /\ first_pbuf # <<>> /\ MoreToMake(data_len)
        /\ first_pbuf' = Append(first_pbuf, NextFragment(data_len))
  /\ live' = live + 1
  /\ UNCHANGED <<pc, data_len, queued, ret>>

\* A fragment gets no memory: p and the fragments made are freed.
FreedOnFailure_mut == 1
FreedOnFailure == 1 + Len(first_pbuf)

CreateFails ==
  /\ pc = "frag"
  /\ first_pbuf = <<>> \/ MoreToMake(data_len)
  /\ pc' = "idle" /\ ret' = "memory"
  /\ live' = live - FreedOnFailure
  /\ first_pbuf' = <<>>
  /\ UNCHANGED <<data_len, queued>>

\* The data is copied, p freed, the headers added, and the chain mounted; the
\* result of pbuf_take and that of oput_msg_add_packet_to_list are ignored.
Mount ==
  LET c == Taken(first_pbuf, data_len)
  IN  /\ pc = "frag" /\ first_pbuf # <<>> /\ ~MoreToMake(data_len)
      /\ pc' = "idle" /\ ret' = "ok"
      /\ \/ Taking(c) /\ queued' = c /\ live' = live - 1
         \/ queued' = <<>> /\ live' = live - 1 - Len(c)
      /\ first_pbuf' = <<>>
      /\ UNCHANGED data_len

-----------------------------------------------------------------------------

Init ==
  /\ pc = "idle"
  /\ data_len = 0
  /\ first_pbuf = <<>>
  /\ live = 0
  /\ queued = <<>>
  /\ ret = "none"

Next ==
  \/ \E n \in Lengths, buf \in BOOLEAN : Fail(n, buf) \/ Accept(n, buf)
  \/ SendWhole \/ Create \/ CreateFails \/ Mount

Spec == Init /\ [][Next]_svars

-----------------------------------------------------------------------------
(***************************************************************************)
(* Properties.                                                             *)
(***************************************************************************)

\* Lengths fit their fields: no pbuf has more payload than a frame may carry.
TypeOK ==
  /\ pc \in {"idle", "whole", "frag"}
  /\ data_len \in 0..MaxData
  /\ first_pbuf \in Seq(Pbuf) /\ queued \in Seq(Pbuf)
  /\ live \in Nat
  /\ ret \in {"none", "ok", "route", "memory", "other", "refused"}

\* The pbufs that reach the queue hold all data of the call, once and in order
\* (packet_frag, pbuf_take).
CoversData ==
  queued # <<>> =>
    /\ queued[1].data.from = 0 /\ Last(queued).data.to = data_len
    /\ \A j \in 1..(Len(queued) - 1) :
         queued[j].data.to = queued[j + 1].data.from

\* The receiver finds each fragment's place from its header: the offset is
\* that of its data, and all but the last announce more (packet_frag).
HeadersMatch ==
  \A j \in DOMAIN queued :
    /\ queued[j].offset * 4 = queued[j].data.from
    /\ queued[j].mf <=> j < Len(queued)

\* Whatever step of a call fails, the only pbufs left are those in the queue,
\* and there are none when an error was returned.
NothingLeft ==
  pc = "idle" => live = Len(queued) /\ (ret # "ok" => queued = <<>>)

=============================================================================

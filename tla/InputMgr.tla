------------------------------ MODULE InputMgr ------------------------------
(***************************************************************************)
(* The input manager, src/src/input_mgr.c: a table of the frames received  *)
(* lately.  A frame found in the table is a retransmission and goes no     *)
(* further; a frame that is not is entered in the first empty slot.  Each  *)
(* timer tick ages the slots and empties those that are too old.  Emptied  *)
(* slots keep their old contents, as in the code.                          *)
(***************************************************************************)
EXTENDS Naturals, FiniteSets

CONSTANTS
  Addr,     \* source MAC addresses
  SeqNums,   \* sequence numbers
  Offset,   \* fragment offsets, in bytes
  NoKey,    \* the key of a slot never used
  QueSize,  \* IPUT_MSG_QUE_MAX_SIZE
  MaxAge    \* IPUT_MSG_MAX_AGE

\* The loop index and ctime are uint8_t.
ASSUME SizesAssumption == QueSize \in 1..255 /\ MaxAge \in 1..255

ASSUME NoKeyAssumption ==
  NoKey \notin [addr : Addr, seqnum : SeqNums, offset : Offset]

VARIABLES
  iput_msg_que,  \* the table
  ret            \* what iput_msg_handler returned last

ivars == <<iput_msg_que, ret>>

-----------------------------------------------------------------------------

Slot == 1..QueSize

\* The header fields that identify a frame.
Key == [addr : Addr, seqnum : SeqNums, offset : Offset]

Item == [state : {"EMPTY", "EXISTED"}, ctime : 0..MaxAge,
         key : Key \cup {NoKey}]

Existed(s) == iput_msg_que[s].state = "EXISTED"

\* iput_msg_find_match
Matches_mut(s, k) == s # 1 /\ Existed(s) /\ iput_msg_que[s].key = k
Matches(s, k) == Existed(s) /\ iput_msg_que[s].key = k
Found(k) == \E s \in Slot : Matches(s, k)

\* iput_msg_find_empty
FirstEmpty(s) == ~Existed(s) /\ \A r \in 1..(s - 1) : Existed(r)
Full == \A s \in Slot : Existed(s)

-----------------------------------------------------------------------------
(***************************************************************************)
(* iput_msg_handler: the three outcomes of iput_msg_add_to_queue.          *)
(***************************************************************************)

AlreadyExists(k) ==
  /\ Found(k)
  /\ ret' = "ERR_VAL"
  /\ UNCHANGED iput_msg_que

QueueFull(k) ==
  /\ ~Found(k)
  /\ Full
  /\ ret' = "ERR_BUF"
  /\ UNCHANGED iput_msg_que

Fill(k) ==
  /\ ~Found(k)
  /\ \E s \in Slot :
       /\ FirstEmpty(s)
       /\ iput_msg_que' =
            [iput_msg_que EXCEPT ![s] =
               [state |-> "EXISTED", ctime |-> 0, key |-> k]]
  /\ ret' = "ERR_OK"

Handler(k) == AlreadyExists(k) \/ QueueFull(k) \/ Fill(k)

(***************************************************************************)
(* iput_msg_tmr, the third call of the timer callback.                     *)
(***************************************************************************)

TooOld_mut(n) == n > MaxAge
TooOld_mut_early(n) == n + 1 >= MaxAge
TooOld(n) == n >= MaxAge

Older_mut(item) == item.ctime
Older(item) == item.ctime + 1

Tick ==
  /\ iput_msg_que' =
       [s \in Slot |->
          IF ~Existed(s) THEN iput_msg_que[s]
          ELSE [iput_msg_que[s] EXCEPT
                  !.ctime = Older(iput_msg_que[s]),
                  !.state = IF TooOld(Older(iput_msg_que[s]))
                            THEN "EMPTY" ELSE "EXISTED"]]
  /\ UNCHANGED ret

-----------------------------------------------------------------------------

Init ==
  /\ iput_msg_que =
       [s \in Slot |-> [state |-> "EMPTY", ctime |-> 0, key |-> NoKey]]
  /\ ret = "none"

Next == Tick \/ \E k \in Key : Handler(k)

Spec == Init /\ [][Next]_ivars

\* rf_tmr_callback restarts its timer at its end, so ticks never stop.
FairSpec == Spec /\ WF_ivars(Tick)

-----------------------------------------------------------------------------
(***************************************************************************)
(* Properties.                                                             *)
(***************************************************************************)

\* The fields have their types, and an occupied slot is younger than MaxAge.
TypeOK ==
  /\ iput_msg_que \in [Slot -> Item]
  /\ \A s \in Slot : Existed(s) =>
       iput_msg_que[s].key \in Key /\ iput_msg_que[s].ctime < MaxAge
  /\ ret \in {"none", "ERR_OK", "ERR_VAL", "ERR_BUF"}

\* A frame occupies at most one slot (iput_msg_add_to_queue): otherwise its
\* repeats would be refused for longer than intended, and the table would
\* hold fewer frames than it has slots.
OneSlotPerFrame ==
  \A r, s \in Slot :
    Existed(r) /\ Existed(s) /\ iput_msg_que[r].key = iput_msg_que[s].key
      => r = s

\* The abstract age of a frame is the ctime of the slot it occupies.
AgeOf(k) ==
  IF Found(k) THEN iput_msg_que[CHOOSE s \in Slot : Matches(s, k)].ctime
  ELSE MaxAge

Window ==
  INSTANCE DedupWindow WITH age <- [k \in Key |-> AgeOf(k)],
                            Capacity <- QueSize

\* The table implements the abstract window: a repeat is refused exactly while
\* fewer than MaxAge ticks have passed since the frame was let through, and a
\* new frame is refused exactly when every slot holds a different frame.
ImplementsWindow == Window!Spec

\* A full table does not stay full, whatever arrives: there is room again and
\* again (iput_msg_tmr).
RoomAgain == []<>(~Full)

=============================================================================

# Verification of rf_stack

rf_stack is a small link-layer stack for radio chips: it sends datagrams to
unicast or broadcast MAC addresses with acknowledgement and retransmission,
cuts long datagrams into fragments, and removes duplicates and reassembles on
the receiving side. This directory models its logic in TLA+, checks small
instances with TLC and proves the main safety properties with TLAPS.

## 1. Inventory

| Component | Source | State | Operations |
|---|---|---|---|
| output manager | `src/output_mgr.c` | list of items (one per destination), cursor `g_curr_msg`; per item the pbufs, a packet counter, an age | add a chain, handle an ACK, age items, transmit |
| input manager | `src/input_mgr.c` | table of frames received lately | look up or enter a frame, age slots |
| reassembly | `src/packet_frag.c` | list of entries (one per datagram being collected), pbuf counter | take a fragment, complete a datagram, age entries |
| fragmentation | `src/packet_frag.c` | none between calls | cut a pbuf into a chain |
| mac layer | `src/mac_net.c` | `g_seqnum` | send data, receive a frame, answer with an ACK |
| timer | `src/rf_tmr.c` | interval, port functions | callback: age items, transmit, age slots, age entries, rearm |
| pbuf | `src/pbuf.c` | reference count, lengths, chain links | alloc, free, cat, chain, dechain, add/remove header, take, copy |
| rf card registry | `src/radio_card.c` | list of cards, next number, default card | add, look up by number or address |
| radio adaptation | `src/radio_phy.c` | none | length filter, address match, hand over to the driver |

### How they interact

    application -> mac_output_to_src -> mac_output -> (packet_frag) -> output manager
    timer       -> output manager (age, transmit) -> radio -> peer
    radio -> mac_input -> ACK: output manager
                       -> data: ACK back, input manager, (reassembly), application

All calls are synchronous. Three parties call into the stack: the application,
the radio callback and the timer callback. The only protection is a pair of
critical sections around updates of the list head and the cursor, empty in the
shipped configuration; whether the callbacks are interrupts is left to the port.

### What is hard

* *Ordering.* Sends, ACKs and timer steps come in any order; ACKs are lost,
  late or repeated; sequence numbers wrap. The receiver reassembles only in
  order, so the sender must stop and wait.
* *Lists with a cursor.* Items are removed in the middle of searches while the
  cursor and the timer rely on them.
* *Counters.* The packet counter and the reassembly counter are 8 bits wide and
  changed in several places; branches depend on them.
* *Memory.* Every pbuf has one owner at a time by convention only. Each failing
  step must free exactly what it holds. One loop reads a header it has freed.
* *Timeouts.* Retries, item age, slot age and entry age run on ticks and race
  the answers they stand in for. The ticks of two nodes are not the same: each
  interval is drawn anew.
* *Two nodes.* A frame is acknowledged before the receiver decides whether to
  keep it; a sender that has given up one fragment goes on with the next.
* *Boundaries.* Exact multiples of the payload, 8-bit fragment counts, limits
  tested with different comparisons on different paths.

`PROJECT.json` lists these as hazards, each at its line.

### What makes each component correct

* *Output manager*: the cursor designates an item whenever there is one; a
  destination has one item; queues and list stay within bounds; nothing queued
  is freed and nothing allocated is forgotten; an ACK releases only what was
  transmitted; a pbuf is sent only after its predecessors are acknowledged;
  everything is released in the end.
* *Input manager*: a repeat is refused exactly while the frame is remembered; a
  new frame is refused only when the table is full of other frames; room comes
  back.
* *Reassembly*: entries are consecutive and one per datagram; what is delivered
  is whole; the counter is right; nothing dangles, nothing leaks; unfinished
  datagrams are released.
* *Send path*: the chain holds the data once and in order, headers locate it,
  errors leave nothing behind and are reported.
* *pbuf*: the reference count is the number of pointers; nothing dangles or
  leaks; payloads stay in their memory; what is copied in comes out.
* *Card registry*: a pbuf is transmitted by the card it was accepted for.
* *Link as a whole*: a datagram is received at most once and in order; what is
  acknowledged has been received; both nodes come to rest.

## 2. Modules

| Module | Models |
|---|---|
| `OutputMgr` | output manager: one action per handler |
| `ChainOps` | linked lists: unlinking nodes, as an operation on sequences; the list that `next` pointers make up (`ListFrom`) |
| `InputMgr` | the table of received frames |
| `DedupWindow` | what the input manager promises, without slots |
| `Reass` | reassembly, and the sources that feed it |
| `SendPath` | `mac_output_to_src`, `mac_output`, `packet_frag` |
| `Link` | two nodes and the radio: composes `OutputMgr`, `InputMgr` and `Reass` with `mac_input` and the timers |
| `DatagramService` | what the link promises its applications |
| `PbufChains` | pbufs: reference counts, lengths, chains, headers |
| `RadioCard` | the registry of cards, and the pbufs that carry a card's number |
| `MC...` | constants for TLC |
| `...Proofs` | theorems and proofs |

Paths in this document are relative to the repository; `PROJECT.json` (`map`)
gives the source lines of every definition.

### OutputMgr

The linked list of `struct oput_msg` is the sequence `oput_msg_list` of
destinations; the fields `p`, `packets` and `old_age` of an item are functions
of its destination. A pbuf is a record with the fields the code branches on.
`live` is the set of pbufs that are allocated, so that a leak or a dangling
pointer is a relation between `live` and the chains. `aired` remembers the
transmitted frames that ask for an ACK: any of them may be acknowledged at any
later time, once, many times or never.

| Action | Code |
|---|---|
| `Send` (`SendRefused`, `SendToItem`, `SendNewItem`) | `mac_output`, `oput_msg_add_packet_to_list` with the evictions of its search, `oput_msg_new`, `insert_oput_msg_insert_packet` |
| `OldAgeTmr` | `oput_msg_old_age_tmr` with `oput_msg_item_move` |
| `OutputTmr` (`Transmit`, `GiveUp`, `MoveOn`) | `oput_msg_tmr`, `send_pbuf_find`, `oput_msg_send_pbuf_iterator` |
| `RecvAck` (`MarkFragment`, `ReleaseDatagram`) | `oput_msg_del_packet_from_list`, `packet_find_with_ack_hdr`, `packet_recv_ack_move` |

`due` orders the two passes of a tick and lets sends and ACKs come between
them. `packet_recv_ack_move` reads a flag after freeing the header it is in;
with `FreedIntact = FALSE` the loop may stop at any matching pbuf, and the
safety properties hold nevertheless. `packets` wraps at 256.
`oput_msg_item_move` resets `next` before it tests it, so the cursor always
goes back to the head: `Retarget` does that.

### InputMgr and DedupWindow

The table is an array of slots that keep old contents when emptied; the three
outcomes of `iput_msg_add_to_queue` are three actions, the timer one. Abstractly
(`DedupWindow`) each frame has an age, and a capacity bounds how many are
remembered. `ImplementsWindow` is `DedupWindow!Spec` under the mapping that
takes the age of a frame from its slot.

### Reass

Lengths are counted in fragments; a shape says how many fragments a datagram
has and whether the last one has data. `heap` holds the entries and pbufs that
are allocated. Sources send datagrams one after the other and fragments in
order, as the output manager does; the constant `Disturbances` says what else
may happen: fragments after their entry timed out, fragments that are missing
(sent without ACK, or acknowledged by `mac_input` and then refused), repeats
older than the deduplication window, failing allocations. Once a freed object
is linked, or NULL is dereferenced, what the program does is arbitrary: the
model stops taking steps of the stack (`Corrupt`), and properties of the
counter and of leaks are claimed up to that point only.

`packet_reass` is `Drop`, or `Insert` into an existing or a new entry, ending
in `Store`, `StoreAndFree`, `Finish` or `Reject`. The search for the previous
entry in `reass_data_validate_finished` never succeeds, so `Unlinked` removes
the head only.

### SendPath

One call at a time. The loop of `packet_frag` is one step per fragment because
each allocation may fail. A pbuf carries its header offset, its flag, its room
and the range of the application's data copied into it by `pbuf_take`. 8- and
16-bit arithmetic and the 13 bits of the offset are kept. The queue takes the chain or refuses it.

### Link and DatagramService

The sender is `OutputMgr`, which `Link` extends, so that what is proved of it
holds of the sender; the receiver is an instance of `InputMgr` and one of
`Reass`. Constants and variables keep their names, except that age and
pbuf limits of `Reass` are called `ReassMaxAge` and `ReassMaxPbufs`. The
specification is `LinkSpec`, with fairness `FairLinkSpec`.

| Action | Code |
|---|---|
| `SenderAges`, `SenderTransmits` | `rf_tmr_callback` at the sender; the pbuf `oput_msg_tmr` hands to the radio goes into the air |
| `ReceiverHasFrame` (`Answered`, `PassOn`, `HandOver`) | `mac_input` for data: the answer first, then `iput_msg_handler`, `packet_reass`, `recv_cb` |
| `SenderIsAnswered` | `mac_input` for an ACK frame |
| `ReceiverTicks` | `rf_tmr_callback` at the receiver, with the interval drawn again |
| `FrameLost`, `AnswerLost` | the channel; wrong lengths and checksums; no memory for the pbuf (`radio_phy.c`) |
| `TimePasses` | both timers run down until the first expires |

A frame is received in the tick it is transmitted, an answer at any time later,
overtaken by a newer one, or never. `rf_tmr_callback` seeds `rand` with the
seconds since 1970 at every tick, so the intervals of one node are equal for a
second and change then; drawing each one freely includes that.

`ImplementsService` is `DatagramService!Spec` with `sent <- g_seqnum`: at most
once, and in order for each address. `AckMeansReceived` is the other half: when an
ACK makes the sender release a datagram, the application on the other side has
it. It is claimed for a receiver with memory and with room in its table: the ACK
is sent first (`src/mac_net.c:172`), and with `"nomem"` among the `Disturbances` or
with a smaller `QueSize` TLC finds datagrams acknowledged and dropped. It is also
claimed only while all fragments are still queued (`WholeIn`): once the sender
has given one up, the ACK of the last one releases the others, undelivered.

`SoundUnlessGivenUp` says what it takes to corrupt a receiver with memory and room:
a sender that gave up an earlier fragment and goes on (`src/packet_frag.c:334` says
that it does not). The last fragment then makes an entry of its own, is freed as
invalid (`src/packet_frag.c:425`), and stays linked. From then on the receiver takes
no more steps in the model, which is why deadlock is not checked. This is the only
reason as long as an entry outlives the attempts for all fragments of its
datagram. Its timer runs from the first fragment (`src/packet_frag.c:187`): an entry
that times out just before the last fragment has the same end, with
nothing given up. With `ReassMaxAge = 2` and one datagram of two fragments TLC
finds that.

### PbufChains

`mem` holds the pbufs that are allocated, as a function, so that an access to a freed
pbuf is an error of the model; `held` counts the pointers callers own. Each turn
of the loop of `pbuf_free` is a step (`Release`, `DropRef`); `pbuf_dechain` frees
through the same loop and then returns (`DechainReturns`). `pbuf_take` and
`pbuf_copy_to_swap` change no field and are operators (`Taken`, `Copied`).

The callers' part is in the guards: chains that are joined have no pbuf in
common and start at heads, since `pbuf_cat` tells only the pbufs from `front` on
of the new length; their lengths fit 16 bits; there are at most 255 pointers to
a pbuf. `pbuf_add_header` may be called inside a chain, as `packet_frag` does:
`tot_len` of the pbufs before is then wrong (`pbuf.h:44`), and `pbuf_dechain`
refuses such a chain (`LengthsAgree`). `pbuf_chain`, `pbuf_dechain` and
`pbuf_ref_increase` have no caller in the stack.

### RadioCard

The list is a head and `next` fields. A failing initialisation uses up a number
and leaves the card off the list. A card already listed is not added again, and
only a listed card is made the default, as in `main.c`: an unlisted default
would accept pbufs under a number that is not its own. `Accept` is the part of
`mac_output_to_src` that chooses the card, `Transmit` the part of `oput_msg_tmr`
that finds it again by its number.

## 3. Runs

Passing runs:

| Run | Question | Instance |
|---|---|---|
| `out_queues` | Do list, cursor, bounds and memory stay sound, and does an ACK release only what was transmitted? | 3 destinations (one broadcast), item limit 1, queue limit 4, 2 attempts, age 3, sequence numbers modulo 2, 3 sends, freed memory arbitrary |
| `out_singles` | Without fragments: counter right, no leak, drained in time, attempts for a pbuf not mixed with others, everything released? | a peer and broadcast, age 13, fair timer |
| `in_dedup` | Does the table implement the window, and does room come back? | 3 slots, 4 frames, age 3 |
| `reass_in_time` | Is every datagram delivered exactly once? | one source, 4 datagrams of 2 or 3 fragments, no disturbance |
| `reass_disturbed` | Do entries, counter and deliveries stay right under all disturbances? | 2 sources, 2 datagrams each, at most 3 pbufs |
| `send_lengths` | Is the data cut, located and freed correctly? | lengths 0..320, and those next to 21, 254 and 255 fragments |
| `link_once` | Is a datagram received at most once and in order, does an ACK mean it was received, what corrupts the receiver, and do both nodes come to rest? | one peer, 2 datagrams of 1 or 2 fragments, with or without ACK, 2 attempts, intervals of 2 or 3 ms, window of 3 ticks, entries of 6 |
| `pbuf_chains` | Do reference counts, lengths and bounds hold for every order of calls? | 3 pbufs (symmetric), up to 2 pointers of callers to each, lengths 1 and 2, a header of 2, with and without room for it |
| `cards` | Is a pbuf transmitted by the card that accepted it? | 3 cards, two with the same address, 3 numbers, 5 additions, 2 pbufs waiting |

The bounds make the interesting cases happen. With an item limit of 1 and three
destinations the list is full, over-full and evicted from; three sends of up to
three pbufs fill a queue of 4; with numbers modulo 2 the third datagram
overlaps the first, which is why `AckReleasesTransmitted` speaks of the time
before numbers are reused; an age of 3 expires before the retries are used up. In
`out_singles` an age of 13 is just enough: a queue holds at most 2 pbufs, and
draining two of them takes their attempts, the steps that give them up and the
turns of the other item. (The code has 300 ticks for queues of up to 21 pbufs of 10 attempts
on up to 9 items: enough for one queue, not for several; see section 6.) Four frames in
three slots make the table full. In `reass_disturbed` 3 pbufs are fewer than
two unfinished datagrams need, and `MaxAge = 2` lets timers expire between any
two fragments; `MaxDeliveries` bounds repeats of delivered datagrams. The code's
own values of the fragment size and the queue limit are used in `SendPath`.

In `link_once` the second attempt for the last fragment comes after everything the channel can
do to the first ones, and intervals differ by half. The receiver's window is just
long enough: a frame is remembered for at least `MaxAge - 1` whole intervals of
the receiver, the attempts span `MaxRetries - 1` intervals of the sender, so

    (MaxRetries - 1) * (Interval + Jitter) < (MaxAge - 1) * Interval

is needed; `2 * 2 > 1 * 3` here. With the code's constants it is
`9 * (Interval + 4) < 10 * Interval`, true for intervals above 36 ms. Comments
suggest 10 ms (`src/input_mgr.c:35`) or 20 ms (`src/output_mgr.c:33`), and then it is
false: `link_drift`, below. The inequality is not enough when a pbuf
that was transmitted has to wait before it is retransmitted, which takes another
datagram than the two of this run: the bound of 2 keeps those cases, described
in section 4, out of `ImplementsService`. The entries' age of 6 covers two fragments
with all attempts, which `SoundUnlessGivenUp` needs. The code's 21 ticks do not cover a
long datagram: 21 fragments take 20 ticks of the sender without any
retransmission, and its ticks may be the longer ones. In `pbuf_chains` three pbufs make
every shape of sharing: two chains with a common tail, a chain whose middle is
held. In `cards` there are more additions than numbers, so that numbers wrap.

Deadlock is checked everywhere except in `reass_disturbed` and `link_once`, where
corrupted memory ends the behaviour.

## 4. Where code and comments disagree

Each of these runs checks one statement of a comment, or of the README, that
the code does not keep; TLC's counterexample is the demonstration.

| Run | Statement | What happens |
|---|---|---|
| `out_leak` | mounted pbufs are released by ACK, retries or with their item (`src/output_mgr.c:21`) | not when the packet counter is 0: it counts chains up and pbufs down |
| `reass_two_sources` | the previous entry is found (`src/packet_frag.c:295`) | never; an entry that is not the head is freed and stays linked |
| `link_drift` | duplicates are removed (`src/input_mgr.c:20`, `:32`) | not the last retransmission when the sender's ticks are longer than the receiver's: 9 of up to 14 ms against a window of 10 to 11 of 10 ms |

Further disagreements are part of the models and have no run of their own:

* `src/input_mgr.c:32`: duplicates are not removed either, with equal clocks,
  when a transmitted pbuf waits at the sender until the receiver has forgotten it.
  Its item is skipped while its counter is 0 or its age is `OldAge` (`Sendable`), and
  the next datagram sent to the address revives it. The counter becomes 0 when the
  last fragment of a datagram is given up, the next datagram goes out, and then the
  late ACK of that fragment releases the others; the age costs one tick only.
  In `link_once` with `Jitter = 0`, `MaxSends = 3`, `SeqMod = 3` TLC finds
  `DuplicatesRemoved` violated after 39 states with `OldAge = 9`, and after 24
  with `OldAge = 3` and the kinds `Single`.
* `src/packet_frag.c:426`: a last fragment that makes an entry is freed, but the
  entry is not removed and keeps it (`Insert`, `Reject`): after a given-up fragment
  (`SoundUnlessGivenUp`), or when the entry of the others has timed out.
* `src/packet_frag.c:354`: the receiver drops a frame that is no longer than a
  header. Data of an exact multiple of the payload ends in such a fragment
  (`packet_frag`), so it is never delivered: shapes with `tail = 0` in `Reass`.
* `src/packet_frag.c:491`: from 25500 bytes the fragment count wraps to 0, one
  blank fragment is queued and `ERR_OK` returned, although
  `mac_output_to_src` accepts any length up to 0xFFFE (`PbufNum`; `CoversData`
  fails for such lengths).
* `src/output_mgr.c:509`: of fragments that ask for no ACK only the first is
  sent: it is given up, `packets` becomes 0, and the iterator finds nothing more to
  send on the item (`Sendable`, `GiveUp`).
* `src/radio_phy.c:87`: the card that matches a frame's address is looked for, but
  the frame is always handed to `zig_card`, so one card is all the template serves.
* `src/output_mgr.c:394`: one device more than `MAC_MAX_DEV_NUM` is served
  (`Refused`; `QueueBounds` states the real limit).
* `src/output_mgr.c:47`: `packets` is not the number of packets once there are
  fragments (`Decr`; `PacketsCounted` holds in `out_singles` only).
* `src/packet_frag.c:334`: a fragment that times out does not take its datagram
  with it (`GiveUp` unlinks one pbuf, even one whose last ACK has come, against
  `src/output_mgr.c:483`).
* `src/output_mgr.c:507`: after a transmission the cursor stays (`Transmit`), so a
  silent peer uses all its attempts before the next item's turn. The receiver's
  window relies on it (`AttemptsTogether`): were the code changed to do what the comment
  says, a repeat could come after the frame is forgotten.
* `src/output_mgr.c:40`: old age releases pbufs that were never sent
  (`OldAgeTmr`).
* `src/packet_frag.c:187`: the middle or head of a datagram can be missing: the
  entry's timer is not restarted by fragments (`Older`), and 21 ticks are too few for
  21 fragments once the sender's ticks are longer or one fragment is repeated.
* `src/packet_frag.c:229`: a fragment out of order is discarded alone (`Reject`).
* `src/packet_frag.c:311`: when the reassembled pbuf cannot be allocated, a debug
  print dereferences NULL before the caller is told (`Finish`).
* `src/packet_frag.c:471`: `packet_frag` returns `ERR_OK` when the queue refused
  the chain (`Mount`).
* `src/mac_net.c:291`: without a data buffer no header is sent; `pbuf_take`
  refuses (`Fail`).

## 5. Fairness

Only the timer is fair: `rf_tmr_callback` rearms itself at its end, so a tick
always comes (`WF(Tick)`). In `Link` that is `WF(Progress)`: time passes and
expired timers are served; a tick of either node makes both of its passes. And what is in the air
arrives or is lost, `WF(ReceiverHasFrame \/ FrameLost)`: this excludes only that a
frame stays in the air for ever. Nothing is assumed of the application, the
peers or the channel, which may lose everything. The bound on sends (`MaxSends`)
stands for an application that stops: `Quiesces` and `ComesToRest` are claimed
for that case only.

## 6. Proofs

All theorems hold for every value of the constants that the named assumptions
of the module allow.

*Output manager* (`OutputMgrProofs`): `TypeOK`, `CurrOnList`, `OneQueuePerDest`,
`QueueBounds`, `InOrder`, `NoDanglingPbuf`. The inductive invariant
is their conjunction with what each needs from the past: an address without an
item has nothing queued (how the model keeps what the code frees), every queued pbuf
belongs to a datagram already numbered (so that the pbufs of a new chain are
fresh), and the bound on attempts. Each invariant is
shown to be kept by each action: a search removes items from the list
(`Keep`), retargets the cursor and empties the removed queues; a mounted chain
is appended; an ACK or a given-up retry takes pbufs out of one queue and out of
`live` together. `ChainOpsProofs` has the facts about `Keep` this needs: its
length, that it takes its elements from the sequence, keeps their order, and
keeps injectivity.

`AckReleasesTransmitted` is an action property. What the late ACK of a datagram
can find queued is known from two invariants: the fragments of a datagram are queued
in their order (`ShapeInv`); and until numbers are reused every frame in `aired`
is of a datagram already numbered, and each queued pbuf that its ACK would mark
or release has been transmitted (`AirInv`). Freed memory may be arbitrary.

`PacketsCounted` and `NoLeak` are proved for datagrams of one pbuf
(`Unfragmented`, as in `out_singles`; with fragments they fail, `out_leak`). The
counter is then the length of the queue (`LengthsCounted`), which `MaxPbufs < 256`
keeps from wrapping; so the branches on a zero counter are branches on an
empty queue and nothing is forgotten with an item. `NoLeak` is claimed until
sequence numbers are reused: a chain whose number is still queued is neither
mounted nor freed.

*Input manager* (`InputMgrProofs`): `TypeOK`, `OneSlotPerFrame`, and that the
table implements `DedupWindow`: the initial states correspond, and under the
mapping each action is the abstract action of the same meaning. A full table
corresponds to a full window because different slots hold different frames,
which is a statement about cardinalities.

*Reassembly* (`ReassProofs`): `TypeOK`, `OneEntryPerDatagram`, `Gapless`,
`DeliveredWhole`, `NoLeak`. `Gapless` is inductive only together with: the
pbufs of an entry are fragments of datagrams sent so far, an entry is not empty,
the offset of the entry is that of its first pbuf, and only a last fragment that
could not complete its datagram ends an entry; the heap part needs that two
entries share no object.

`CountMatches`: the counter is the number of pbufs on the entries (`Counted`).
Entries share no pbuf, so an entry that goes takes as many pbufs from the union
as the code takes from the counter. The timer frees several entries in one
pass; `LessAll` is that loop, and an induction over its turns (`LessAllCounts`)
shows that it never goes below 0 and ends with the number of what is left.

`Reassembled` is proved for one source, no disturbances, no empty last fragment
(`OneQuietSource`, as in `reass_in_time`) and as long as the counter stays below
its limit. The invariant `Collected` says where a datagram is: no fragment sent,
and every entry older; some sent, and all of them in the first entry; all sent,
and delivered once. What lets it fail is only the entry's timer, which the
source reports as `late`.

*Send path* (`SendPathProofs`): `TypeOK` and `NothingLeft` for all lengths, also
those whose fragment count wraps; `CoversData` and `HeadersMatch` for fewer than
255 full fragments (`Countable`), the range where the code is right (section 4), and
`HeadersMatch` for lengths below 32768 (`Locatable`), which the offset can name.
The loop invariant `Shaped` gives the offset, the length and the flag of each
fragment made so far by its index; each fragment begins where the one before it
ended, and the last ends at the end of the data. The invariant `Calls` counts what is
allocated at each point where a call can fail.

*pbuf* (`PbufProofs`): `TypeOK`, `NothingDangles`, `RefsCounted`, `InBounds`, for
any number of pbufs, lengths and alignments. The inductive invariant is their
conjunction with `LenWithin`: a pbuf is no longer than its chain, without
which removing a header could make `tot_len` negative. Reference counts are
cardinalities of the set of pbufs in front; each action adds or takes away one
element of one such set, or moves a pointer from a caller to a chain or to the
loop of `pbuf_free`. `RefsCounted` is what makes `NothingDangles` inductive:
the loop frees a pbuf whose count is 1, so nothing else can point to it. That the
count fits its 8 bits follows from the bound on pointers (`RefAssumption`).

`DechainTells` needs to know, while `pbuf_dechain` frees, that the 8-bit count of
freed pbufs is 0 exactly as long as the rest is allocated, and cannot wrap: the
pbufs counted and those still allocated are at most all (`DechainKnows`).

`NoLeak` is about walks along `next`. Its invariant says that chains have an end
(`Acyclic`: there is a rank that grows along `next`) and that each pbuf has a
pointer to it (`Referred`). Joining two chains raises the ranks of the second
one. Of the pbufs no caller reaches, one with the least rank would have no
pointer to it.

`RoundTrip` adds `Covered`: the `tot_len` of a pbuf is at most its own length and
the `tot_len` of the next one. It is less when a header has been added behind,
and never more, because headers are only removed at heads of chains. So what
`pbuf_take` has left at a pbuf fits the chain from there, by induction over the
turns of its loop, and its loop, which does not test for the end of the chain,
stays in it.

*Card registry* (`RadioCardProofs`): `NumbersDistinct`, because until numbers wrap
the next one is the number of calls so far; and `SentByAcceptor`: every listed
card is the head or has a listed card in front, and the list has an end
(`Registry`); the card of each waiting pbuf is listed under the number the pbuf
carries (`Numbered`); so the walk from the head meets that card and, as numbers
are distinct, no other with it.

*Linked lists* (`ChainOpsProofs`). `Keep` as above. `ListFrom` is defined by a
recursive function; that it has the values its equation says must be proved,
since `CHOOSE` promises nothing when there is no such function. `RecursionExists`
does that for any recursion over `0..n`: of the numbers up to which there is no
solution the least one would be one more than a number with a solution, which extends. With it,
and a rank that grows along `next`, `ListFromProperties` and `ListFromReaches`
say that the list begins at its head, follows `next`, ends at `NULL` and has every
node that can be reached. `LessAll`, `Taken` and `Copied` use the same lemma.

*Draining* (`OutputMgrProofs`). `DrainedBeforeOld` is proved for one destination
and datagrams of one pbuf (`OneDest`, `Unfragmented`). Each tick uses up an attempt
of the first pbuf, or the pbuf, and an age begins at 0 again when a datagram is
queued or the item is removed; so age plus what is left to transmit never exceeds what a full queue
takes (`DrainInv`), and that must be less than `OldAge` (`AgeCovers`; for the code
`21 * 11 = 231 < 300`). With several destinations it depends on how often the
application sends: answers and new datagrams can keep the cursor on one item while
another gets old, and only `MaxSends` bounds that in `out_singles`.

*Attempts* (`OutputMgrProofs`). `AttemptsTogether`: a pbuf that was transmitted and may
be again is what the cursor's item sends next. Each action keeps it if no such pbuf
is on an item the iterator skips (`NeverStranded`; a zero counter or its age can put
one there, section 4): the cursor leaves an item only when there is nothing to send
on it or the item is removed, and only items that would be skipped are removed
(`TogetherStep`). So it is a theorem under that hypothesis, fragments included
(`AttemptsFollowOneAnother`), and for datagrams of one pbuf the hypothesis follows from
`DrainedBeforeOld` (`SinglesFollowOneAnother`). In `out_singles` TLC checks it
without a hypothesis.

*Link* (`LinkProofs`). Every step of the link is a step or a stutter of the output
manager (`SenderIsOutputMgr`), so its invariants hold here.

`DeliveredAtMostOnce` is `ImplementsService`, fragments included, from two
hypotheses. `WindowCovers` is the inequality of section 3; `link_drift` shows what happens
without it. `NeverStranded` excludes exactly the waiting pbufs of section 4: what was
transmitted and may be again is on an item that is not skipped. The invariant `Once` says where a
datagram can be while it may still be repeated: its pbuf is the one the
iterator looks for next (`AttemptsTogether`); what is in the air comes before everything
queued (`AirIsFirst`); a received datagram either comes before a queued
one, or is the same and remembered for as long as attempts remain (`ReceivedIsOld`), and so
for the frame in the air (`RepeatIsHeld`). How long a slot has been occupied is counted
in the receiver's shortest ticks, the attempts in the sender's longest. For
datagrams of one pbuf `NeverStranded` follows from `DrainedBeforeOld`
(`SinglesDeliveredOnce`), and with one destination that is proved, so that the
limits and the clocks alone decide (`OneAddressDeliveredOnce`).

`AckedMeansReceived` is `AckMeansReceived` for datagrams of one pbuf, as long as the
table has room. What the table remembers and what is being answered has been handed
over under its sequence number, to one address only (`AckInv`); numbers are not reused
(`LinkAssumption`), so what the answer releases is what was handed over.

`TableNeverFull`: frames in the table were transmitted one interval apart, so
those remembered for `m` ticks, and the one in the air, are at most as many as
fit the longest time `m + 1` ticks may take (`RoomInv`). The table has room if
`(MaxAge + 1) * (Interval + Jitter) < QueSize * Interval` (`TableCovers`); with the
code's 80 slots `12 * (Interval + 4) < 80 * Interval` is true for every interval.
That is one sender; `AcksAreReliable` joins the two theorems.

Only model-checked: liveness (`Quiesces`, `RoomAgain`, `ComesToRest`), which the
provers cannot do; `DrainedBeforeOld` with several destinations; `AckMeansReceived`
with fragments, and `SoundUnlessGivenUp`: both need the time an entry lives measured
against the attempts for all its fragments.

## 7. Not modelled

* Interrupts inside a handler. Every handler is one step. The critical sections
  of `output_mgr.c` protect the head and the cursor, not the searches; a port that
  calls the stack from interrupts is outside what is shown here.
* Frames and answers that overtake each other, more than one answer on its way,
  and several senders in `Link`; several sources are in `Reass`.
* `packet_reass` frees the last fragment a second time after the chain it is in has
  been freed (`src/packet_frag.c:419`), and reads a length from a freed entry (`:310`);
  both are undefined, harmless only as long as freed memory keeps its contents,
  and left out of `Reass`.
* Sizes close to 65535 bytes, where `pbuf_alloc` wraps.
* A card added while it is listed, address lengths, the fields of a card the driver
  fills in; the driver's functions in `radio_phy.c`, which are empty.
* `rf_tmr_stop` and starting again; checksum, header bytes, logging, `main.c`.

## 8. Plan

1. `OutputMgr`, `InputMgr` with `DedupWindow`, `Reass`, `SendPath`: done, with
   the proofs above.
2. `Link` with `DatagramService`, `PbufChains`, `RadioCard`: done, with the proofs
   above, except for fragments in `AckMeansReceived` and `SoundUnlessGivenUp`.
3. Not done: `SendQueue`, what the output manager promises its callers, refined
   by `OutputMgr` for unfragmented datagrams.
4. Not done: `OutputPreempt`, list operations split where an interrupt may come,
   with and without the critical sections.

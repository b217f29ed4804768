----------------------------- MODULE PbufChains -----------------------------
(***************************************************************************)
(* Packet buffers, src/src/pbuf.c: chains of pbufs with reference counts   *)
(* and lengths.  mem is the memory: a function of the pbufs that are       *)
(* allocated, so that reading a freed pbuf is an error of the model.  held *)
(* counts the pointers the callers keep; a caller calls an operation with  *)
(* a pointer it holds.                                                     *)
(*                                                                         *)
(* Each turn of the loop of pbuf_free is a step.  One call is in progress  *)
(* at a time.                                                              *)
(***************************************************************************)
EXTENDS Naturals, Sequences, FiniteSets, ChainOps

CONSTANTS
  Pbuf,       \* addresses of pbufs
  Null,       \* the NULL pointer
  Offsets,    \* room for headers: PBUF_MAC, PBUF_RAW
  Lens,       \* lengths asked for
  Hdrs,       \* lengths of headers
  Alignment,  \* MEM_ALIGNMENT
  WordMod,    \* lengths are taken modulo this, 2^16 in the code
  MaxHeld     \* bound of the model: pointers held to one pbuf

ASSUME PbufAssumption == IsFiniteSet(Pbuf) /\ Null \notin Pbuf

ASSUME LengthAssumption ==
  /\ Offsets \subseteq Nat /\ Lens \subseteq Nat /\ Hdrs \subseteq Nat \ {0}
  /\ Alignment \in Nat \ {0} /\ WordMod \in Nat \ {0}

\* ref is a uint8_t: there are never more pointers to a pbuf than it counts.
ASSUME RefAssumption == MaxHeld \in Nat \ {0} /\ MaxHeld + Cardinality(Pbuf) < 255

VARIABLES
  mem,      \* the pbufs that are allocated
  held,     \* the number of pointers callers hold to each pbuf
  freeing,  \* the pbuf the loop of pbuf_free has come to, or NULL
  count,    \* the pbufs that loop has freed
  rest      \* the pbuf pbuf_dechain has unlinked and frees, or NULL

pvars == <<mem, held, freeing, count, rest>>

-----------------------------------------------------------------------------

Allocated == DOMAIN mem

\* room: bytes between the structure and the payload; size: bytes behind the
\* structure.
Fields == [next : Pbuf \cup {Null}, ref : 0..255, len : Nat, tot_len : Nat,
           room : Nat, size : Nat]

\* The pbufs from p on.
NextOf == [q \in Allocated |-> mem[q].next]
Chain(p) == ListFrom(p, NextOf, Null)

ChainSet(p) == LET l == Chain(p) IN {l[i] : i \in DOMAIN l}

Idle == freeing = Null /\ rest = Null

\* MEM_ALIGN_SIZE: n rounded up to a multiple of Alignment.
Aligned(n) == n + ((Alignment - (n % Alignment)) % Alignment)

-----------------------------------------------------------------------------
(***************************************************************************)
(* pbuf_alloc and pbuf_free.                                               *)
(***************************************************************************)

\* A size that does not wrap at WordMod; the callers ask for no other.
SizeFits(o, n) == Aligned(o) + Aligned(n) < WordMod

Size_mut(o, n) == Aligned(n)
Size(o, n) == Aligned(o) + Aligned(n)

NewPbuf(o, n) ==
  [next |-> Null, ref |-> 1, len |-> n, tot_len |-> n, room |-> Aligned(o),
   size |-> Size(o, n)]

pbuf_alloc(p, o, n) ==
  /\ Idle
  /\ p \notin Allocated /\ SizeFits(o, n)
  /\ mem' = [q \in Allocated \cup {p} |-> IF q = p THEN NewPbuf(o, n) ELSE mem[q]]
  /\ held' = [held EXCEPT ![p] = 1]
  /\ UNCHANGED <<freeing, count, rest>>

\* A caller gives up the pointer it frees.
pbuf_free(p) ==
  /\ Idle
  /\ held[p] > 0
  /\ held' = [held EXCEPT ![p] = @ - 1]
  /\ freeing' = p /\ count' = 0
  /\ UNCHANGED <<mem, rest>>

\* A turn of the loop: the pbuf goes when nothing else refers to it, and the
\* loop goes on with the next one, which it referred to.
NextToFree_mut(p) == Null
NextToFree(p) == mem[p].next

Release ==
  LET p == freeing
  IN  /\ p # Null /\ mem[p].ref = 1
      /\ mem' = [q \in Allocated \ {p} |-> mem[q]]
      /\ freeing' = NextToFree(p)
      /\ count' = (count + 1) % 256
      /\ UNCHANGED <<held, rest>>

DropRef ==
  LET p == freeing
  IN  /\ p # Null /\ mem[p].ref # 1
      /\ mem' = [mem EXCEPT ![p].ref = (@ + 255) % 256]
      /\ freeing' = Null
      /\ UNCHANGED <<held, count, rest>>

pbuf_ref_increase(p) ==
  /\ Idle
  /\ held[p] \in 1..(MaxHeld - 1)
  /\ held' = [held EXCEPT ![p] = @ + 1]
  /\ mem' = [mem EXCEPT ![p].ref = (@ + 1) % 256]
  /\ UNCHANGED <<freeing, count, rest>>

-----------------------------------------------------------------------------
(***************************************************************************)
(* pbuf_cat, pbuf_chain and pbuf_dechain.                                  *)
(***************************************************************************)

\* p is the first pbuf of its chain.
IsHead(p) == \A q \in Allocated : mem[q].next # p

\* What the callers see to: the chains have no pbuf in common, what precedes
\* front need not be told of the new length, and lengths fit their field.
MayJoin(front, after) ==
  /\ held[front] > 0 /\ held[after] > 0
  /\ IsHead(front)
  /\ ChainSet(front) \cap ChainSet(after) = {}
  /\ \A p \in ChainSet(front) : mem[p].tot_len + mem[after].tot_len < WordMod

\* The memory when after has been linked behind front and has n pointers more.
Joined(front, after, last, n) ==
  [p \in Allocated |->
     [mem[p] EXCEPT
        !.next = IF p = last THEN after ELSE @,
        !.tot_len = IF p \in ChainSet(front) THEN (@ + mem[after].tot_len) % WordMod
                    ELSE @,
        !.ref = IF p = after THEN (@ + n) % 256 ELSE @]]

IsLast(p, front) == p \in ChainSet(front) /\ mem[p].next = Null

\* The caller's pointer to after becomes the one in the chain.
pbuf_cat(front, after) ==
  /\ Idle
  /\ MayJoin(front, after)
  /\ \E last \in Allocated :
       IsLast(last, front) /\ mem' = Joined(front, after, last, 0)
  /\ held' = [held EXCEPT ![after] = @ - 1]
  /\ UNCHANGED <<freeing, count, rest>>

\* The caller keeps its pointer to after.
RefsOfChain_mut == 0
RefsOfChain == 1

pbuf_chain(front, after) ==
  /\ Idle
  /\ MayJoin(front, after)
  /\ \E last \in Allocated :
       IsLast(last, front) /\ mem' = Joined(front, after, last, RefsOfChain)
  /\ UNCHANGED <<held, freeing, count, rest>>

\* The lengths contradict each other when a header has been added behind p.
LengthsAgree(p) == mem[mem[p].next].tot_len + mem[p].len = mem[p].tot_len

\* pbuf_dechain unlinks what follows the head p and frees the pointer p had to
\* it.
pbuf_dechain(p) ==
  /\ Idle
  /\ held[p] > 0 /\ IsHead(p) /\ mem[p].next # Null /\ LengthsAgree(p)
  /\ mem' = [mem EXCEPT ![p] = [@ EXCEPT !.next = Null, !.tot_len = mem[p].len]]
  /\ freeing' = mem[p].next /\ count' = 0
  /\ rest' = mem[p].next
  /\ UNCHANGED held

\* It returns the rest unless the loop has freed a pbuf.
Returned_mut == rest
Returned == IF count > 0 THEN Null ELSE rest

DechainReturns ==
  /\ freeing = Null /\ rest # Null
  /\ rest' = Null
  /\ UNCHANGED <<mem, held, freeing, count>>

-----------------------------------------------------------------------------
(***************************************************************************)
(* pbuf_add_header and pbuf_remove_header; when they refuse, nothing       *)
(* changes.                                                                *)
(***************************************************************************)

HasRoom_mut(p, n) == TRUE
HasRoom(p, n) == n <= mem[p].room

\* packet_frag adds headers to every pbuf of a chain.
pbuf_add_header(p, n) ==
  /\ Idle
  /\ p \in Allocated /\ \E q \in Allocated : held[q] > 0 /\ p \in ChainSet(q)
  /\ (n + mem[p].tot_len) % WordMod >= n /\ HasRoom(p, n)
  /\ mem' = [mem EXCEPT ![p].room = @ - n, ![p].len = @ + n, ![p].tot_len = @ + n]
  /\ UNCHANGED <<held, freeing, count, rest>>

\* Callers remove the header of the first pbuf of a chain only.
LessHdr_mut(t, n) == t
LessHdr(t, n) == t - n

pbuf_remove_header(p, n) ==
  /\ Idle
  /\ held[p] > 0 /\ IsHead(p)
  /\ n <= mem[p].len
  /\ mem' = [mem EXCEPT ![p].room = @ + n, ![p].len = @ - n,
                        ![p].tot_len = LessHdr(@, n)]
  /\ UNCHANGED <<held, freeing, count, rest>>

-----------------------------------------------------------------------------
(***************************************************************************)
(* pbuf_take and pbuf_copy_to_swap: the bytes copied to or from each pbuf  *)
(* of a chain with lengths lens.                                           *)
(***************************************************************************)

Lesser(a, b) == IF a < b THEN a ELSE b
LensOf(p) == LET l == Chain(p) IN [i \in DOMAIN l |-> mem[l[i]].len]

Piece(acc, l) == Lesser(acc.left, l)
Put(acc, l) ==
  IF acc.left = 0 THEN acc
  ELSE [left |-> acc.left - Piece(acc, l),
        pieces |-> Append(acc.pieces, Piece(acc, l))]

\* The loop of pbuf_take runs until nothing is left: it relies on the chain to
\* be long enough.
Taken(p, n) ==
  LET lens == LensOf(p)
      turns[i \in 0..Len(lens)] ==
        IF i = 0 THEN [left |-> n, pieces |-> <<>>] ELSE Put(turns[i - 1], lens[i])
  IN  turns[Len(lens)]

\* The offset applies to the first pbuf; one that is beyond it copies nothing.
Get(acc, l) ==
  LET c == Lesser(acc.left, l - acc.offset)
  IN  IF acc.left = 0 THEN acc
      ELSE IF acc.offset # 0 /\ acc.offset >= l
           THEN [left |-> 0, offset |-> 0, pieces |-> <<>>]
      ELSE [left |-> acc.left - c, offset |-> 0, pieces |-> Append(acc.pieces, c)]
Copied(p, n, o) ==
  LET lens == LensOf(p)
      turns[i \in 0..Len(lens)] ==
        IF i = 0 THEN [left |-> n, offset |-> o, pieces |-> <<>>]
        ELSE Get(turns[i - 1], lens[i])
  IN  turns[Len(lens)]

-----------------------------------------------------------------------------

Init ==
  /\ mem = [p \in {} |-> Null]
  /\ held = [p \in Pbuf |-> 0]
  /\ freeing = Null /\ count = 0 /\ rest = Null

Next ==
  \/ \E p \in Pbuf :
       \/ \E o \in Offsets, n \in Lens : pbuf_alloc(p, o, n)
       \/ pbuf_free(p) \/ pbuf_ref_increase(p) \/ pbuf_dechain(p)
       \/ \E q \in Pbuf : pbuf_cat(p, q) \/ pbuf_chain(p, q)
       \/ \E n \in Hdrs : pbuf_add_header(p, n) \/ pbuf_remove_header(p, n)
  \/ Release \/ DropRef \/ DechainReturns

Spec == Init /\ [][Next]_pvars

-----------------------------------------------------------------------------
(***************************************************************************)
(* Properties.                                                             *)
(***************************************************************************)

\* The fields have their types; a caller holds pointers to allocated pbufs.
TypeOK ==
  /\ Allocated \subseteq Pbuf /\ mem \in [Allocated -> Fields]
  /\ held \in [Pbuf -> 0..MaxHeld]
  /\ freeing \in Pbuf \cup {Null} /\ rest \in Pbuf \cup {Null}
  /\ count \in 0..255

\* No pointer dangles: not one that a caller holds, nor one in a chain, nor the
\* one pbuf_free goes on with (pbuf_free).
NothingDangles ==
  /\ \A p \in Pbuf : held[p] > 0 => p \in Allocated
  /\ \A p \in Allocated : mem[p].next \in Allocated \cup {Null}
  /\ freeing \in Allocated \cup {Null}

Before(p) == {q \in Allocated : mem[q].next = p}

\* pbuf.h:51: ref is always the number of pointers that refer to the pbuf, be
\* they a caller's or a chain's; in the midst of pbuf_free, also the loop's.
RefsCounted ==
  \A p \in Allocated :
    mem[p].ref = held[p] + Cardinality(Before(p)) + (IF freeing = p THEN 1 ELSE 0)

\* When no call is in progress every allocated pbuf can be reached by a caller,
\* so that it can be freed (pbuf_free, pbuf_dechain).
NoLeak ==
  Idle => \A p \in Allocated :
            \E q \in Allocated : held[q] > 0 /\ p \in ChainSet(q)

\* The payload of a pbuf stays within the memory behind its structure, whatever
\* headers are added and removed (pbuf_alloc, pbuf_add_header).
InBounds == \A p \in Allocated : mem[p].room + mem[p].len <= mem[p].size

\* What pbuf_take is asked to put into a chain fits it, and pbuf_copy_to_swap
\* collects it again from the same places.
RoundTrip ==
  Idle => \A p \in Allocated : \A n \in 1..mem[p].tot_len :
            /\ Taken(p, n).left = 0
            /\ Copied(p, n, 0).pieces = Taken(p, n).pieces

\* pbuf_dechain returns the rest of the chain exactly when the rest is still
\* there, also when freeing it went on to the pbufs behind it.
DechainTells ==
  rest # Null /\ freeing = Null => (Returned # Null <=> rest \in Allocated)

=============================================================================

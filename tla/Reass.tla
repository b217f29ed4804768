-------------------------------- MODULE Reass --------------------------------
(***************************************************************************)
(* Reassembly of fragmented datagrams, src/src/packet_frag.c: packet_reass *)
(* for each fragment the receive path lets through, packet_reass_tmr for   *)
(* each timer tick.                                                        *)
(*                                                                         *)
(* An entry (struct reass_data) and a pbuf are named by the datagram and   *)
(* the fragment they are for, the entry as fragment 0.  heap is the set of *)
(* those that are allocated.  Lengths are in fragments: fragment i of a    *)
(* datagram spans start = i - 1 to end = i, unless it is an empty tail.    *)
(*                                                                         *)
(* Each source sends its datagrams one after the other and the fragments   *)
(* of each in order, as output_mgr.c does; Disturbances says what else may *)
(* happen on the way.                                                      *)
(***************************************************************************)
EXTENDS Naturals, Sequences, FiniteSets, SequencesExt, ChainOps

CONSTANTS
  Src,           \* source MAC addresses
  Shapes,        \* number of fragments and size of the last, see below
  Disturbances,  \* what may happen to fragments, see below
  MaxAge,        \* REASS_DATA_MAX_AGE
  MaxPbufs,      \* REASS_MAX_PBUFS
  MaxDatagrams,  \* bound of the model: datagrams per source
  MaxDeliveries  \* bound of the model: deliveries before the last repeat

ASSUME ShapesAssumption == Shapes \subseteq [frags : Nat \ {0, 1}, tail : {0, 1}]

\* "late": a fragment may come when its entry has timed out
\* "skip": a fragment may be missing (sent without acknowledgement request,
\*         or acknowledged by mac_input and then refused)
\* "repeat": a fragment may come again after its deduplication window
\* "nomem": malloc may fail
ASSUME DisturbancesAssumption ==
  Disturbances \subseteq {"late", "skip", "repeat", "nomem"}

ASSUME LimitsAssumption ==
  MaxAge \in Nat /\ MaxPbufs \in 1..255 /\ MaxDatagrams \in Nat
  /\ MaxDeliveries \in Nat

VARIABLES
  p_reass_list,       \* the entries, head first
  g_reass_pbuf_cunt,  \* the pbufs queued for reassembly, a uint8_t
  heap,               \* the entries and pbufs that are allocated
  delivered,          \* the datagrams returned to mac_input, oldest first
  sender,             \* the datagram each source sends, its next fragment, and
                      \* whether its entry has timed out meanwhile
  crashed             \* a NULL pointer was dereferenced

rvars == <<p_reass_list, g_reass_pbuf_cunt, heap, delivered, sender, crashed>>

-----------------------------------------------------------------------------

Datagram == [src : Src, seq : Nat \ {0}, shape : Shapes]
Fragment == [dg : Datagram, frag : Nat \ {0}, start : Nat, end : Nat,
             last : BOOLEAN]
Entry == [dg : Datagram, offset : Nat, p : Seq(Fragment), tmr : 0..MaxAge]

FragmentOf(dg, i) ==
  [dg |-> dg, frag |-> i, start |-> i - 1,
   end |-> IF i = dg.shape.frags THEN i - 1 + dg.shape.tail ELSE i,
   last |-> i = dg.shape.frags]

Id(f) == <<f.dg, f.frag>>
EntryId(e) == <<e.dg, 0>>
Pbufs(e) == {Id(e.p[i]) : i \in DOMAIN e.p}
Objects(e) == {EntryId(e)} \cup Pbufs(e)
Linked == UNION {Objects(e) : e \in Range(p_reass_list)}

\* Freed memory is linked, or a NULL pointer was dereferenced: what follows
\* is arbitrary, nothing is claimed of it, and the steps of the model end.
Corrupt == crashed \/ ~(Linked \subseteq heap)

\* The counter is a uint8_t.
ByteMod == 256

-----------------------------------------------------------------------------
(***************************************************************************)
(* packet_reass.                                                           *)
(***************************************************************************)

\* ADDR_AND_SEQNUM_MATCH
SameDatagram_mut_source(e, f) == e.dg.src = f.dg.src
SameDatagram_mut_header(e, f) == e.dg = f.dg /\ e.offset = f.start
SameDatagram(e, f) == e.dg.src = f.dg.src /\ e.dg.seq = f.dg.seq

\* The first entry of the datagram of f.
IsEntry(k, f) ==
  /\ k \in DOMAIN p_reass_list
  /\ SameDatagram(p_reass_list[k], f)
  /\ \A j \in 1..(k - 1) : ~SameDatagram(p_reass_list[j], f)
HasEntry(f) == \E k \in DOMAIN p_reass_list : SameDatagram(p_reass_list[k], f)

NewEntry(f) == [dg |-> f.dg, offset |-> f.start, p |-> <<>>, tmr |-> 0]

\* packet_reass_inserte_and_validate: f goes behind the last pbuf c of the
\* entry; it overlaps when it starts before the end of some pbuf, or where
\* there is a next pbuf already.
EndOf(c, f) == IF c = <<>> THEN f.start ELSE c[Len(c)].end
GoesBehind_mut(c, f) == f.start >= EndOf(c, f)
GoesBehind(c, f) == f.start = EndOf(c, f)

\* The end frame came, but the first pbuf is not the first fragment.
HeadMissing_mut(c, f) == FALSE
HeadMissing(c, f) == (IF c = <<>> THEN f.start ELSE c[1].start) # 0

\* Early returns that drop f: a fragment without data, too many pbufs, a first
\* fragment for an entry that began with another.
Dropped(f) ==
  \/ f.end = f.start
  \/ g_reass_pbuf_cunt + 1 > MaxPbufs
  \/ /\ f.start = 0
     /\ \E k \in DOMAIN p_reass_list :
          IsEntry(k, f) /\ p_reass_list[k].offset # 0

Drop(f) ==
  /\ Dropped(f) \/ (~HasEntry(f) /\ "nomem" \in Disturbances)
  /\ UNCHANGED <<p_reass_list, g_reass_pbuf_cunt, heap, delivered, crashed>>

\* List l when f is linked to its entry k.
WithFragment(l, k, f) == [l EXCEPT ![k].p = Append(@, f)]

\* The entry of f in list l is k: f is linked, and stays.
Store(l, k, f) ==
  /\ ~f.last
  /\ p_reass_list' = WithFragment(l, k, f)
  /\ g_reass_pbuf_cunt' = (g_reass_pbuf_cunt + 1) % ByteMod
  /\ heap' = heap \cup {EntryId(l[k]), Id(f)}
  /\ UNCHANGED <<delivered, crashed>>

\* f is linked, then found invalid and freed; the entry stays, since its list
\* of pbufs is not empty.
StoreAndFree(l, k, f) ==
  /\ f.last /\ HeadMissing(l[k].p, f)
  /\ p_reass_list' = WithFragment(l, k, f)
  /\ heap' = (heap \cup {EntryId(l[k])}) \ {Id(f)}
  /\ UNCHANGED <<g_reass_pbuf_cunt, delivered, crashed>>

\* reass_data_validate_finished: the pbufs are copied into a new one and
\* freed.  The search for the previous entry compares with a pbuf, so that
\* only the head of the list is unlinked; the entry is freed in any case.
\* packet_reass dereferences the new pbuf even when its allocation failed.
Unlinked(l, k) == IF k = 1 THEN Tail(l) ELSE l

Balance_mut(n, c) == (n + 1) % ByteMod
Balance(n, c) == (n + 1 + ByteMod - (Len(c) + 1)) % ByteMod

Finish(l, k, f) ==
  LET c == l[k].p
  IN  /\ f.last /\ ~HeadMissing(c, f)
      /\ p_reass_list' = Unlinked(WithFragment(l, k, f), k)
      /\ g_reass_pbuf_cunt' = Balance(g_reass_pbuf_cunt, c)
      /\ heap' = heap \ Objects(l[k])
      /\ \/ /\ delivered' = Append(delivered,
                                   [dg |-> l[k].dg, parts |-> Append(c, f)])
            /\ UNCHANGED crashed
         \/ /\ "nomem" \in Disturbances
            /\ crashed' = TRUE
            /\ UNCHANGED delivered

\* f overlaps or leaves a gap: f alone is freed.
Reject == UNCHANGED <<p_reass_list, g_reass_pbuf_cunt, heap, delivered, crashed>>

Insert(l, k, f) ==
  \/ /\ GoesBehind(l[k].p, f)
     /\ Store(l, k, f) \/ StoreAndFree(l, k, f) \/ Finish(l, k, f)
  \/ ~GoesBehind(l[k].p, f) /\ Reject

packet_reass(f) ==
  \/ Drop(f)
  \/ /\ ~Dropped(f)
     /\ \/ \E k \in DOMAIN p_reass_list :
             IsEntry(k, f) /\ Insert(p_reass_list, k, f)
        \/ ~HasEntry(f) /\ Insert(<<NewEntry(f)>> \o p_reass_list, 1, f)

-----------------------------------------------------------------------------
(***************************************************************************)
(* packet_reass_tmr: entries age from their creation; the old ones are     *)
(* freed with their pbufs, and the counter never goes below 0.             *)
(***************************************************************************)

Older(e) == [e EXCEPT !.tmr = @ + 1]

Young_mut(e) == e.tmr <= MaxAge
Young(e) == e.tmr < MaxAge
YoungOnes == {i \in DOMAIN p_reass_list : Young(p_reass_list[i])}

Less(n, e) == IF n >= Len(e.p) THEN n - Len(e.p) ELSE n

\* The counter n when the entries of gone have been freed one after the other.
LessAll(n, gone) ==
  LET left[i \in 0..Len(gone)] ==
        IF i = 0 THEN n ELSE Less(left[i - 1], gone[i])
  IN  left[Len(gone)]

FreedBy_mut(e) == {EntryId(e)}
FreedBy(e) == Objects(e)

packet_reass_tmr ==
  LET gone == Keep(p_reass_list, DOMAIN p_reass_list \ YoungOnes)
  IN  /\ p_reass_list' =
           Keep([i \in DOMAIN p_reass_list |-> Older(p_reass_list[i])],
                YoungOnes)
      /\ g_reass_pbuf_cunt' = LessAll(g_reass_pbuf_cunt, gone)
      /\ heap' = heap \ UNION {FreedBy(e) : e \in Range(gone)}
      /\ UNCHANGED <<delivered, crashed>>

-----------------------------------------------------------------------------
(***************************************************************************)
(* The sources, and what happens to fragments on the way.                  *)
(***************************************************************************)

Sending(s) == [src |-> s, seq |-> sender[s].seq, shape |-> sender[s].shape]
NextFragment(s) == FragmentOf(Sending(s), sender[s].next)

\* A source begins a datagram, whether or not the last one is complete.
NewDatagram(s, sh) ==
  /\ sender[s].seq < MaxDatagrams
  /\ sender' = [sender EXCEPT ![s] = [seq |-> @.seq + 1, shape |-> sh,
                                      next |-> 1, late |-> FALSE]]
  /\ UNCHANGED <<p_reass_list, g_reass_pbuf_cunt, heap, delivered, crashed>>

MoreToSend(s) == sender[s].seq > 0 /\ sender[s].next <= sender[s].shape.frags
Advance(s) == sender' = [sender EXCEPT ![s].next = @ + 1]

Arrive(s) ==
  /\ ~Corrupt
  /\ MoreToSend(s)
  /\ sender[s].late => "late" \in Disturbances
  /\ packet_reass(NextFragment(s))
  /\ Advance(s)

Skip(s) ==
  /\ "skip" \in Disturbances
  /\ MoreToSend(s)
  /\ Advance(s)
  /\ UNCHANGED <<p_reass_list, g_reass_pbuf_cunt, heap, delivered, crashed>>

Repeat(s) ==
  /\ ~Corrupt
  /\ "repeat" \in Disturbances
  /\ sender[s].seq > 0
  /\ Len(delivered) < MaxDeliveries
  /\ \E i \in 1..(sender[s].next - 1) : packet_reass(FragmentOf(Sending(s), i))
  /\ UNCHANGED sender

TimesOut(f) ==
  \E k \in DOMAIN p_reass_list :
    IsEntry(k, f) /\ p_reass_list[k].tmr >= MaxAge

\* The datagram a source is sending is late once its entry has been removed.
Tick ==
  /\ ~Corrupt
  /\ packet_reass_tmr
  /\ sender' = [s \in Src |->
       [sender[s] EXCEPT !.late =
          @ \/ (MoreToSend(s) /\ TimesOut(NextFragment(s)))]]

-----------------------------------------------------------------------------

Init ==
  /\ p_reass_list = <<>>
  /\ g_reass_pbuf_cunt = 0
  /\ heap = {}
  /\ delivered = <<>>
  /\ \E sh \in Shapes :
       sender = [s \in Src |-> [seq |-> 0, shape |-> sh, next |-> 1,
                             late |-> FALSE]]
  /\ crashed = FALSE

Next ==
  \/ \E s \in Src :
       \/ \E sh \in Shapes : NewDatagram(s, sh)
       \/ Arrive(s) \/ Skip(s) \/ Repeat(s)
  \/ Tick

Spec == Init /\ [][Next]_rvars

-----------------------------------------------------------------------------
(***************************************************************************)
(* Properties.                                                             *)
(***************************************************************************)

\* The fields have their types; CountMatches bounds the counter.
TypeOK ==
  /\ p_reass_list \in Seq(Entry)
  /\ heap \subseteq Datagram \X Nat
  /\ delivered \in Seq([dg : Datagram, parts : Seq(Fragment)])
  /\ sender \in [Src -> [seq : Nat, shape : Shapes, next : Nat \ {0},
                      late : BOOLEAN]]
  /\ crashed \in BOOLEAN

\* Every entry on the list and every pbuf on an entry is allocated
\* (packet_reass, reass_data_validate_finished).
NoDangling == Linked \subseteq heap

\* Every entry and pbuf that is allocated is linked, so that the timer frees
\* it in the end: no path of packet_reass forgets one.
NoLeak == ~Corrupt => heap \subseteq Linked

\* g_reass_pbuf_cunt counts the pbufs that wait for reassembly, and stays
\* within the limit, over stores, completions and timeouts.
CountMatches ==
  ~Corrupt =>
    /\ g_reass_pbuf_cunt =
         Cardinality(UNION {Pbufs(e) : e \in Range(p_reass_list)})
    /\ g_reass_pbuf_cunt <= MaxPbufs

\* A datagram is collected in one entry.
OneEntryPerDatagram ==
  \A j, k \in DOMAIN p_reass_list :
    /\ p_reass_list[j].dg.src = p_reass_list[k].dg.src
    /\ p_reass_list[j].dg.seq = p_reass_list[k].dg.seq
    => j = k

\* The pbufs of an entry are consecutive fragments of its datagram, whatever
\* arrives late, twice or not at all.
Gapless ==
  \A e \in Range(p_reass_list) : \A i \in DOMAIN e.p :
    e.p[i] = FragmentOf(e.dg, e.offset + i)

\* What is handed to the application is a whole datagram: every fragment of
\* it, in order, and nothing else.
DeliveredWhole ==
  \A n \in DOMAIN delivered :
    LET d == delivered[n]
    IN  d.parts = [i \in 1..d.dg.shape.frags |-> FragmentOf(d.dg, i)]

Deliveries(dg) == {n \in DOMAIN delivered : delivered[n].dg = dg}

\* A datagram all of whose fragments have arrived in time is delivered, once.
Reassembled ==
  \A s \in Src :
    sender[s].seq > 0 /\ ~MoreToSend(s) =>
      Cardinality(Deliveries(Sending(s))) = 1

=============================================================================

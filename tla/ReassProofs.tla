---------------------------- MODULE ReassProofs ----------------------------
(***************************************************************************)
(* Proofs about reassembly, for any sources, datagram shapes, limits and   *)
(* disturbances.                                                           *)
(***************************************************************************)
EXTENDS Reass, ChainOpsProofs

\* The entries are of datagrams that were sent: a source does not use the same
\* sequence number for two datagrams.
FromSources ==
  \A e \in Range(p_reass_list) :
    LET s == e.dg.src
    IN  /\ e.dg.seq <= sender[s].seq
        /\ e.dg.seq = sender[s].seq => e.dg.shape = sender[s].shape

\* Stored fragments are fragments of the datagram, and none is empty.
Sound(e) ==
  \A i \in DOMAIN e.p :
    /\ e.p[i] = FragmentOf(e.dg, e.offset + i)
    /\ e.offset + i <= e.dg.shape.frags
    /\ e.p[i].end = e.offset + i

AllSound == \A e \in Range(p_reass_list) : Sound(e) /\ e.p # <<>>

Inv ==
  /\ TypeOK
  /\ FromSources
  /\ OneEntryPerDatagram
  /\ AllSound
  /\ DeliveredWhole
  /\ NoLeak

\* A fragment that a source sends now.
IsSent(f) ==
  \E s \in Src : \E i \in 1..sender[s].shape.frags :
    sender[s].seq > 0 /\ f = FragmentOf(Sending(s), i)

-----------------------------------------------------------------------------

LEMMA ShapeType ==
  ASSUME NEW sh \in Shapes
  PROVE  sh.frags \in Nat /\ sh.frags > 1 /\ sh.tail \in {0, 1}
BY ShapesAssumption

LEMMA FragmentType ==
  ASSUME NEW dg \in Datagram, NEW i \in Nat \ {0}
  PROVE  /\ FragmentOf(dg, i) \in Fragment
         /\ FragmentOf(dg, i).dg = dg
         /\ FragmentOf(dg, i).frag = i
         /\ FragmentOf(dg, i).start = i - 1
         /\ FragmentOf(dg, i).end \in {i - 1, i}
         /\ FragmentOf(dg, i).last <=> i = dg.shape.frags
<1>1. dg.shape \in Shapes
  BY DEF Datagram
<1>2. dg.shape.frags \in Nat /\ dg.shape.tail \in {0, 1}
  BY <1>1, ShapeType
<1>3. (IF i = dg.shape.frags THEN i - 1 + dg.shape.tail ELSE i) \in {i - 1, i}
  BY <1>2
<1>4. i - 1 \in Nat /\ i \in Nat
  OBVIOUS
<1> QED
  BY <1>3, <1>4 DEF FragmentOf, Fragment

\* What a sent fragment is.
LEMMA SentType ==
  ASSUME TypeOK, NEW f, IsSent(f)
  PROVE  /\ f \in Fragment
         /\ f = FragmentOf(f.dg, f.start + 1)
         /\ f.frag = f.start + 1
         /\ f.frag <= f.dg.shape.frags
         /\ f.end \in {f.start, f.start + 1}
         /\ f.last <=> f.frag = f.dg.shape.frags
         /\ f.dg.seq = sender[f.dg.src].seq
         /\ f.dg.shape = sender[f.dg.src].shape
         /\ f.dg \in Datagram
<1>0. PICK s \in Src : \E i \in 1..sender[s].shape.frags :
        sender[s].seq > 0 /\ f = FragmentOf(Sending(s), i)
  BY DEF IsSent
<1>1. PICK i \in 1..sender[s].shape.frags :
        sender[s].seq > 0 /\ f = FragmentOf(Sending(s), i)
  BY <1>0
<1>2. /\ sender[s].seq \in Nat \ {0}
      /\ sender[s].shape \in Shapes
  BY <1>1 DEF TypeOK
<1>3. Sending(s) \in Datagram
  BY <1>2 DEF Sending, Datagram
<1>4. sender[s].shape.frags \in Nat
  BY <1>2, ShapeType
<1>5. i \in Nat \ {0} /\ i <= sender[s].shape.frags /\ i - 1 + 1 = i
  BY <1>4
<1>6. /\ f \in Fragment /\ f.dg = Sending(s) /\ f.frag = i
      /\ f.start = i - 1 /\ f.end \in {i - 1, i}
      /\ f.last <=> i = f.dg.shape.frags
  BY <1>1, <1>3, <1>5, FragmentType
<1>7. /\ Sending(s).src = s /\ Sending(s).seq = sender[s].seq
      /\ Sending(s).shape = sender[s].shape
  BY DEF Sending
<1> QED
  BY <1>1, <1>3, <1>5, <1>6, <1>7

-----------------------------------------------------------------------------
(***************************************************************************)
(* A list l that stands for p_reass_list when f is inserted: the list, or  *)
(* the list with a new head.                                               *)
(***************************************************************************)

Ready(l, k, f) ==
  /\ l \in Seq(Entry) /\ k \in DOMAIN l
  /\ SameDatagram(l[k], f)
  /\ \A e \in Range(l) : Sound(e)
  /\ \A e \in Range(l) :
       /\ e.dg.seq <= sender[e.dg.src].seq
       /\ e.dg.seq = sender[e.dg.src].seq =>
            e.dg.shape = sender[e.dg.src].shape
  /\ \A i, j \in DOMAIN l :
       l[i].dg.src = l[j].dg.src /\ l[i].dg.seq = l[j].dg.seq => i = j
  /\ ~Corrupt => heap \subseteq UNION {Objects(e) : e \in Range(l)}
  /\ \A i \in DOMAIN l : i # k => l[i].p # <<>>
  /\ l[k].p = <<>> => f.start = l[k].offset

LEMMA ReadyFound ==
  ASSUME Inv, NEW f, IsSent(f), NEW k, IsEntry(k, f)
  PROVE  Ready(p_reass_list, k, f)
<1>1. k \in DOMAIN p_reass_list /\ SameDatagram(p_reass_list[k], f)
  BY DEF IsEntry
<1>2. \A i \in DOMAIN p_reass_list : p_reass_list[i].p # <<>>
  BY DEF Inv, AllSound, Range
<1> QED
  BY <1>1, <1>2 DEF Inv, Ready, AllSound, FromSources, OneEntryPerDatagram,
                    NoLeak, Linked, TypeOK

LEMMA ReadyNew ==
  ASSUME Inv, NEW f, IsSent(f), ~HasEntry(f)
  PROVE  Ready(<<NewEntry(f)>> \o p_reass_list, 1, f)
<1> DEFINE l == <<NewEntry(f)>> \o p_reass_list
           n == Len(p_reass_list)
<1>0. /\ f \in Fragment /\ f.start \in Nat /\ f.dg \in Datagram
      /\ f.dg.seq = sender[f.dg.src].seq
      /\ f.dg.shape = sender[f.dg.src].shape
      /\ f.dg.src \in Src /\ f.dg.seq \in Nat
  <2>1. TypeOK
    BY DEF Inv
  <2> QED
    BY <2>1, SentType DEF Fragment, Datagram
<1>1. NewEntry(f) \in Entry
  BY <1>0, LimitsAssumption DEF NewEntry, Entry
<1>2. p_reass_list \in Seq(Entry) /\ n \in Nat
      /\ DOMAIN p_reass_list = 1..n
  BY LenProperties DEF Inv, TypeOK
<1>3. <<NewEntry(f)>> \in Seq(Entry) /\ Len(<<NewEntry(f)>>) = 1
      /\ <<NewEntry(f)>>[1] = NewEntry(f)
  BY <1>1
<1>4. /\ l \in Seq(Entry)
      /\ Len(l) = n + 1
      /\ l[1] = NewEntry(f)
      /\ \A i \in 2..(n + 1) : l[i] = p_reass_list[i - 1]
  BY <1>1, <1>2, <1>3, ConcatProperties
<1>5. DOMAIN l = 1..(n + 1)
  BY <1>4, LenProperties
<1> HIDE DEF l
<1>6. \A i \in DOMAIN l :
        \/ i = 1 /\ l[i] = NewEntry(f)
        \/ /\ i > 1 /\ i - 1 \in DOMAIN p_reass_list
           /\ l[i] = p_reass_list[i - 1]
  BY <1>2, <1>4, <1>5
<1>7. \A i \in DOMAIN p_reass_list : i + 1 \in DOMAIN l
                                     /\ l[i + 1] = p_reass_list[i]
  BY <1>2, <1>4, <1>5
<1>8. 1 \in DOMAIN l
  BY <1>2, <1>5
<1>9. Range(l) = {NewEntry(f)} \cup Range(p_reass_list)
  BY <1>4, <1>6, <1>7, <1>8 DEF Range
<1>10. Sound(NewEntry(f))
  BY DEF Sound, NewEntry
<1>11. \A i, j \in DOMAIN l :
         l[i].dg.src = l[j].dg.src /\ l[i].dg.seq = l[j].dg.seq => i = j
  <2>1. \A i \in DOMAIN p_reass_list :
          ~(p_reass_list[i].dg.src = f.dg.src /\ p_reass_list[i].dg.seq = f.dg.seq)
    BY DEF HasEntry, SameDatagram
  <2>2. NewEntry(f).dg = f.dg
    BY DEF NewEntry
  <2>3. \A i, j \in DOMAIN p_reass_list :
          /\ p_reass_list[i].dg.src = p_reass_list[j].dg.src
          /\ p_reass_list[i].dg.seq = p_reass_list[j].dg.seq
          => i = j
    BY DEF Inv, OneEntryPerDatagram
  <2>4. ASSUME NEW i \in DOMAIN l, NEW j \in DOMAIN l,
               l[i].dg.src = l[j].dg.src, l[i].dg.seq = l[j].dg.seq
        PROVE  i = j
    <3>1. CASE i = 1 /\ j = 1
      BY <3>1
    <3>2. CASE i > 1 /\ j > 1
      <4>1. i - 1 = j - 1
        BY <1>5, <1>6, <2>3, <2>4, <3>2
      <4> QED
        BY <1>5, <4>1
    <3>3. CASE i = 1 /\ j > 1
      BY <1>4, <1>6, <2>1, <2>2, <2>4, <3>3
    <3>4. CASE i > 1 /\ j = 1
      BY <1>4, <1>6, <2>1, <2>2, <2>4, <3>4
    <3> QED
      BY <1>5, <3>1, <3>2, <3>3, <3>4
  <2> QED
    BY <2>4
<1>12. \A e \in Range(l) : Sound(e)
  BY <1>9, <1>10 DEF Inv, AllSound
<1>13. \A e \in Range(l) :
         /\ e.dg.seq <= sender[e.dg.src].seq
         /\ e.dg.seq = sender[e.dg.src].seq =>
              e.dg.shape = sender[e.dg.src].shape
  <2>1. NewEntry(f).dg = f.dg
    BY DEF NewEntry
  <2> QED
    BY <1>0, <1>9, <2>1 DEF Inv, FromSources
<1>14. ~Corrupt => heap \subseteq UNION {Objects(e) : e \in Range(l)}
  BY <1>9 DEF Inv, NoLeak, Linked
<1>15. SameDatagram(l[1], f) /\ f.start = l[1].offset
  BY <1>4 DEF SameDatagram, NewEntry
<1>16. \A i \in DOMAIN l : i # 1 => l[i].p # <<>>
  BY <1>6 DEF Inv, AllSound, Range
<1>17. Ready(l, 1, f)
  BY <1>4, <1>8, <1>11, <1>12, <1>13, <1>14, <1>15, <1>16 DEF Ready
<1> QED
  BY <1>17 DEF l

\* The entry f is inserted into is of the datagram of f, and f, when it goes
\* behind the entry's pbufs, is the next fragment of it.
LEMMA NextOfEntry ==
  ASSUME Inv, NEW f, IsSent(f), ~Dropped(f), NEW l, NEW k,
         Ready(l, k, f), GoesBehind(l[k].p, f)
  PROVE  /\ l[k].dg = f.dg
         /\ l[k] \in Entry
         /\ Len(l[k].p) \in Nat /\ DOMAIN l[k].p = 1..Len(l[k].p)
         /\ f.start = l[k].offset + Len(l[k].p)
         /\ f = FragmentOf(f.dg, l[k].offset + Len(l[k].p) + 1)
         /\ f.frag = l[k].offset + Len(l[k].p) + 1
         /\ f.frag <= f.dg.shape.frags
         /\ f.end = f.frag
<1> DEFINE e == l[k]
<1>1. TypeOK
  BY DEF Inv
<1>2. e \in Entry /\ e \in Range(l)
  BY DEF Ready, Range
<1>3. /\ e.p \in Seq(Fragment) /\ e.offset \in Nat /\ e.dg \in Datagram
      /\ Len(e.p) \in Nat /\ DOMAIN e.p = 1..Len(e.p)
  BY <1>2, LenProperties DEF Entry
<1>4. /\ f \in Fragment /\ f = FragmentOf(f.dg, f.start + 1)
      /\ f.frag = f.start + 1 /\ f.frag <= f.dg.shape.frags
      /\ f.end \in {f.start, f.start + 1}
      /\ f.dg.seq = sender[f.dg.src].seq
      /\ f.dg.shape = sender[f.dg.src].shape
      /\ f.dg \in Datagram
  BY <1>1, SentType
<1>5. e.dg = f.dg
  <2>1. e.dg.src = f.dg.src /\ e.dg.seq = f.dg.seq
    BY DEF Ready, SameDatagram
  <2>2. e.dg.shape = f.dg.shape
    BY <1>2, <1>4, <2>1 DEF Ready
  <2> QED
    BY <1>3, <1>4, <2>1, <2>2 DEF Datagram
<1>6. f.start = e.offset + Len(e.p)
  <2>1. CASE e.p = <<>>
    BY <1>3, <2>1 DEF Ready
  <2>2. CASE e.p # <<>>
    <3>1. Len(e.p) \in DOMAIN e.p
      BY <1>3, <2>2
    <3>2. e.p[Len(e.p)].end = e.offset + Len(e.p)
      BY <1>2, <3>1 DEF Ready, Sound
    <3> QED
      BY <2>2, <3>2 DEF GoesBehind, EndOf
  <2> QED
    BY <2>1, <2>2
<1>7. f.end = f.frag
  BY <1>4 DEF Dropped
<1> QED
  BY <1>2, <1>3, <1>4, <1>5, <1>6, <1>7

\* The entries of a list but one.
Others(l, k) == {l[i] : i \in DOMAIN l \ {k}}

\* The objects an entry holds once fragment f is linked to it.
ObjectsWith(e, f) == Objects(e) \cup {Id(f)}

\* All fragments of a datagram.
AllOf(dg) == [i \in 1..dg.shape.frags |-> FragmentOf(dg, i)]

\* The entry once f is linked to it.
LEMMA LinkedEntry ==
  ASSUME Inv, NEW f, IsSent(f), ~Dropped(f), NEW l, NEW k,
         Ready(l, k, f), GoesBehind(l[k].p, f)
  PROVE  /\ WithFragment(l, k, f) \in Seq(Entry)
         /\ DOMAIN WithFragment(l, k, f) = DOMAIN l
         /\ WithFragment(l, k, f)[k].dg = l[k].dg
         /\ WithFragment(l, k, f)[k].p = Append(l[k].p, f)
         /\ \A i \in DOMAIN l : i # k => WithFragment(l, k, f)[i] = l[i]
         /\ Range(WithFragment(l, k, f)) =
              Others(l, k) \cup {WithFragment(l, k, f)[k]}
         /\ Sound(WithFragment(l, k, f)[k])
         /\ Objects(WithFragment(l, k, f)[k]) = ObjectsWith(l[k], f)
         /\ Pbufs(WithFragment(l, k, f)[k]) = Pbufs(l[k]) \cup {Id(f)}
<1> DEFINE m == WithFragment(l, k, f)
           e == l[k]
           n == Len(e.p)
<1>1. /\ l[k].dg = f.dg
      /\ l[k] \in Entry
      /\ n \in Nat /\ DOMAIN e.p = 1..n
      /\ f.start = l[k].offset + n
      /\ f = FragmentOf(f.dg, l[k].offset + n + 1)
      /\ f.frag = l[k].offset + n + 1
      /\ f.frag <= f.dg.shape.frags
      /\ f.end = f.frag
  BY NextOfEntry
<1>2. f \in Fragment
  BY SentType DEF Inv
<1>3. l \in Seq(Entry) /\ k \in DOMAIN l
  BY DEF Ready
<1>4. /\ e.p \in Seq(Fragment) /\ e.offset \in Nat
      /\ e.dg \in Datagram /\ e.tmr \in 0..MaxAge
  BY <1>1 DEF Entry
<1>5. /\ Append(e.p, f) \in Seq(Fragment)
      /\ Len(Append(e.p, f)) = n + 1
      /\ \A i \in 1..n : Append(e.p, f)[i] = e.p[i]
      /\ Append(e.p, f)[n + 1] = f
      /\ DOMAIN Append(e.p, f) = 1..(n + 1)
  BY <1>2, <1>4, AppendProperties, LenProperties
<1>6. m[k] = [e EXCEPT !.p = Append(e.p, f)]
  BY <1>3 DEF WithFragment
<1>7. /\ m[k] \in Entry /\ m[k].dg = e.dg /\ m[k].offset = e.offset
      /\ m[k].p = Append(e.p, f)
  <2> HIDE DEF m
  <2> QED
    BY <1>1, <1>5, <1>6 DEF Entry
<1>8. /\ DOMAIN m = DOMAIN l
      /\ \A i \in DOMAIN l : i # k => m[i] = l[i]
  BY <1>3 DEF WithFragment
<1>9. m \in Seq(Entry)
  <2>1. Len(l) \in Nat /\ DOMAIN l = 1..Len(l) /\ l \in [1..Len(l) -> Entry]
    BY <1>3, LenProperties
  <2>2. m \in [1..Len(l) -> Entry]
    BY <1>7, <2>1 DEF WithFragment
  <2> QED
    BY <2>1, <2>2, SeqDef
<1>10. Sound(m[k])
  <2> SUFFICES ASSUME NEW i \in 1..(n + 1)
               PROVE  /\ Append(e.p, f)[i] = FragmentOf(e.dg, e.offset + i)
                      /\ e.offset + i <= e.dg.shape.frags
                      /\ Append(e.p, f)[i].end = e.offset + i
    BY <1>5, <1>7 DEF Sound
  <2>1. CASE i = n + 1
    <3>1. e.offset + i = e.offset + n + 1
      <4> HIDE DEF e, n, m
      <4>1. e.offset \in Nat /\ n \in Nat
        BY <1>1, <1>4
      <4> QED
        BY <2>1, <4>1
    <3> QED
      BY <1>1, <1>5, <2>1, <3>1
  <2>2. CASE i \in 1..n
    <3>1. Sound(e)
      BY <1>3 DEF Ready, Range
    <3> QED
      BY <1>1, <1>5, <2>2, <3>1 DEF Sound
  <2> QED
    BY <1>1, <2>1, <2>2
<1>11. Objects(m[k]) = ObjectsWith(e, f) /\ Pbufs(m[k]) = Pbufs(e) \cup {Id(f)}
  <2>1. Pbufs(m[k]) = {Id(Append(e.p, f)[i]) : i \in 1..(n + 1)}
    BY <1>5, <1>7 DEF Pbufs
  <2>2. Pbufs(e) = {Id(e.p[i]) : i \in 1..n}
    BY <1>1 DEF Pbufs
  <2>3. \A i \in 1..(n + 1) : i \in 1..n \/ i = n + 1
    BY <1>1
  <2>4. 1..n \subseteq 1..(n + 1) /\ n + 1 \in 1..(n + 1)
    BY <1>1
  <2>5. Pbufs(m[k]) = Pbufs(e) \cup {Id(f)}
    BY <1>5, <2>1, <2>2, <2>3, <2>4
  <2>6. EntryId(m[k]) = EntryId(e)
    BY <1>7 DEF EntryId
  <2> QED
    BY <2>5, <2>6 DEF Objects, ObjectsWith
<1>12. Range(m) = Others(l, k) \cup {m[k]}
  <2>1. \A i \in DOMAIN m : i = k \/ (i \in DOMAIN l \ {k} /\ m[i] = l[i])
    BY <1>8
  <2>2. \A i \in DOMAIN l \ {k} : i \in DOMAIN m /\ m[i] = l[i]
    BY <1>8
  <2>3. k \in DOMAIN m
    BY <1>3, <1>8
  <2> HIDE DEF m
  <2>4. \A x \in Range(m) : x \in Others(l, k) \cup {m[k]}
    BY <2>1 DEF Range, Others
  <2>5. \A x \in Others(l, k) \cup {m[k]} : x \in Range(m)
    BY <2>2, <2>3 DEF Range, Others
  <2> QED
    BY <2>4, <2>5
<1> QED
  BY <1>7, <1>8, <1>9, <1>10, <1>11, <1>12

-----------------------------------------------------------------------------
(***************************************************************************)
(* The list after f has been linked, or after its first entry has been     *)
(* unlinked as well.                                                       *)
(***************************************************************************)

\* The sources advance without beginning a datagram.
SameDatagrams ==
  /\ sender' \in [Src -> [seq : Nat, shape : Shapes, next : Nat \ {0},
                          late : BOOLEAN]]
  /\ \A s \in Src : sender'[s].seq = sender[s].seq
                    /\ sender'[s].shape = sender[s].shape

LEMMA LinkedList ==
  ASSUME Inv, SameDatagrams, NEW f, IsSent(f), ~Dropped(f), NEW l, NEW k,
         Ready(l, k, f), GoesBehind(l[k].p, f),
         NEW n \in Seq(Entry),
         \A i \in DOMAIN n : \E j \in DOMAIN l :
           n[i] = WithFragment(l, k, f)[j],
         \A i, j \in DOMAIN n :
           n[i].dg.src = n[j].dg.src /\ n[i].dg.seq = n[j].dg.seq => i = j,
         p_reass_list' = n
  PROVE  FromSources' /\ OneEntryPerDatagram' /\ AllSound'
<1> DEFINE m == WithFragment(l, k, f)
<1>1. /\ m[k].dg = l[k].dg
      /\ m[k].p = Append(l[k].p, f)
      /\ \A i \in DOMAIN l : i # k => m[i] = l[i]
      /\ Sound(m[k])
  BY LinkedEntry
<1>2. Append(l[k].p, f) # <<>>
  <2>1. l[k] \in Entry /\ f \in Fragment
    BY NextOfEntry, SentType DEF Inv
  <2>2. Len(Append(l[k].p, f)) = Len(l[k].p) + 1 /\ Len(l[k].p) \in Nat
    BY <2>1, AppendProperties, LenProperties DEF Entry
  <2>3. Len(<<>>) = 0
    OBVIOUS
  <2>4. Len(Append(l[k].p, f)) # Len(<<>>)
    BY <2>2, <2>3
  <2> QED
    BY <2>4, Zenon
<1>3. \A j \in DOMAIN l :
        /\ m[j].dg = l[j].dg
        /\ Sound(m[j]) /\ m[j].p # <<>>
  BY <1>1, <1>2 DEF Ready, Range
<1>4. \A j \in DOMAIN l :
        /\ l[j].dg.src \in Src
        /\ l[j].dg.seq <= sender[l[j].dg.src].seq
        /\ l[j].dg.seq = sender[l[j].dg.src].seq =>
             l[j].dg.shape = sender[l[j].dg.src].shape
  <2>1. \A j \in DOMAIN l : l[j] \in Range(l) /\ l[j] \in Entry
    BY DEF Ready, Range
  <2> QED
    BY <2>1 DEF Ready, Entry, Datagram
<1>5. \A i \in DOMAIN n : \E j \in DOMAIN l :
        n[i].dg = l[j].dg /\ Sound(n[i]) /\ n[i].p # <<>>
  BY <1>3
<1> HIDE DEF m
<1>6. AllSound'
  BY <1>5 DEF AllSound, Range, Sound
<1>7. OneEntryPerDatagram'
  BY DEF OneEntryPerDatagram
<1>8. FromSources'
  <2> SUFFICES ASSUME NEW i \in DOMAIN n
               PROVE  /\ n[i].dg.seq <= sender'[n[i].dg.src].seq
                      /\ n[i].dg.seq = sender'[n[i].dg.src].seq =>
                           n[i].dg.shape = sender'[n[i].dg.src].shape
    BY DEF FromSources, Range
  <2>1. PICK j \in DOMAIN l : n[i].dg = l[j].dg
    BY <1>5
  <2>2. /\ l[j].dg.src \in Src
        /\ l[j].dg.seq <= sender[l[j].dg.src].seq
        /\ l[j].dg.seq = sender[l[j].dg.src].seq =>
             l[j].dg.shape = sender[l[j].dg.src].shape
    BY <1>4
  <2>3. /\ sender'[l[j].dg.src].seq = sender[l[j].dg.src].seq
        /\ sender'[l[j].dg.src].shape = sender[l[j].dg.src].shape
    BY <2>2 DEF SameDatagrams
  <2> QED
    BY <2>1, <2>2, <2>3
<1> QED
  BY <1>6, <1>7, <1>8

\* A completed datagram is whole.
LEMMA WholeParts ==
  ASSUME Inv, NEW f, IsSent(f), ~Dropped(f), NEW l, NEW k,
         Ready(l, k, f), GoesBehind(l[k].p, f),
         f.last, ~HeadMissing(l[k].p, f)
  PROVE  /\ Append(l[k].p, f) \in Seq(Fragment)
         /\ Append(l[k].p, f) = AllOf(l[k].dg)
<1> DEFINE e == l[k]
           n == Len(e.p)
<1>1. /\ e.dg = f.dg
      /\ e \in Entry
      /\ n \in Nat /\ DOMAIN e.p = 1..n
      /\ f.start = e.offset + n
      /\ f = FragmentOf(f.dg, e.offset + n + 1)
      /\ f.frag = e.offset + n + 1
  BY NextOfEntry
<1>2. /\ f \in Fragment /\ f.dg \in Datagram
      /\ f.frag = f.start + 1
      /\ f.frag = f.dg.shape.frags
  BY SentType DEF Inv
<1>3. e.p \in Seq(Fragment) /\ e.offset \in Nat /\ f.start \in Nat
  BY <1>1, <1>2 DEF Entry, Fragment
<1>4. f.dg.shape.frags \in Nat /\ f.dg.shape.frags > 1
  BY <1>2, ShapeType DEF Datagram
<1>5. Sound(e)
  BY DEF Ready, Range
<1>6. e.p # <<>>
  <2> SUFFICES ASSUME e.p = <<>>
               PROVE  FALSE
    OBVIOUS
  <2>1. f.start = 0
    BY DEF HeadMissing
  <2> QED
    BY <1>2, <1>3, <1>4, <2>1
<1>7. 1 \in DOMAIN e.p /\ n > 0
  BY <1>1, <1>3, <1>6
<1>8. e.offset = 0
  <2>1. e.p[1].start = 0
    BY <1>6 DEF HeadMissing
  <2>2. e.p[1] = FragmentOf(e.dg, e.offset + 1)
    BY <1>5, <1>7 DEF Sound
  <2>3. FragmentOf(e.dg, e.offset + 1).start = (e.offset + 1) - 1
    <3>1. e.dg \in Datagram /\ e.offset + 1 \in Nat \ {0}
      BY <1>1, <1>2, <1>3
    <3> QED
      BY <3>1, FragmentType
  <2> QED
    BY <1>3, <2>1, <2>2, <2>3
<1>9. /\ Append(e.p, f) \in Seq(Fragment)
      /\ Len(Append(e.p, f)) = n + 1
      /\ \A i \in 1..n : Append(e.p, f)[i] = e.p[i]
      /\ Append(e.p, f)[n + 1] = f
  BY <1>1, <1>2, <1>3, AppendProperties
<1>10. f.dg.shape.frags = n + 1
  BY <1>1, <1>2, <1>8
<1>11. \A i \in 1..(n + 1) : Append(e.p, f)[i] = FragmentOf(e.dg, i)
  <2>1. \A i \in 1..n : e.p[i] = FragmentOf(e.dg, i)
    <3>1. \A i \in 1..n : e.offset + i = i
      BY <1>8
    <3> QED
      BY <1>1, <1>5, <3>1 DEF Sound
  <2>2. f = FragmentOf(e.dg, n + 1)
    <3>1. e.offset + n + 1 = n + 1
      BY <1>1, <1>8
    <3> QED
      BY <1>1, <3>1
  <2>3. \A i \in 1..(n + 1) : i \in 1..n \/ i = n + 1
    BY <1>1
  <2> QED
    BY <1>9, <2>1, <2>2, <2>3
<1>12. Append(e.p, f) \in [1..(n + 1) -> Fragment]
  BY <1>9, LenProperties
<1>13. Append(e.p, f) = [i \in 1..(n + 1) |-> FragmentOf(e.dg, i)]
  BY <1>11, <1>12
<1> QED
  BY <1>1, <1>9, <1>10, <1>13 DEF AllOf

-----------------------------------------------------------------------------
(***************************************************************************)
(* The handlers.                                                           *)
(***************************************************************************)

\* Nothing but the place of the sources changes.
LEMMA SameListInv ==
  ASSUME Inv, SameDatagrams, p_reass_list' = p_reass_list, heap' = heap,
         delivered' = delivered, crashed' = crashed
  PROVE  Inv'
<1>1. TypeOK'
  BY DEF Inv, TypeOK, SameDatagrams
<1>2. FromSources'
  <2> SUFFICES ASSUME NEW e \in Range(p_reass_list)
               PROVE  /\ e.dg.seq <= sender'[e.dg.src].seq
                      /\ e.dg.seq = sender'[e.dg.src].seq =>
                           e.dg.shape = sender'[e.dg.src].shape
    BY DEF FromSources
  <2>1. e \in Entry
    BY DEF Inv, TypeOK, Range
  <2>2. e.dg.src \in Src
    BY <2>1 DEF Entry, Datagram
  <2> QED
    BY <2>2 DEF SameDatagrams, Inv, FromSources
<1>3. OneEntryPerDatagram' /\ AllSound' /\ DeliveredWhole'
  BY DEF Inv, OneEntryPerDatagram, AllSound, Sound, DeliveredWhole
<1>4. NoLeak'
  BY DEF Inv, NoLeak, Corrupt, Linked
<1> QED
  BY <1>1, <1>2, <1>3, <1>4 DEF Inv

\* Inserting a fragment, into an entry of the list or into a new one.
LEMMA InsertInv ==
  ASSUME Inv, ~Corrupt, SameDatagrams, NEW f, IsSent(f), ~Dropped(f),
         NEW l, NEW k, Ready(l, k, f), Insert(l, k, f)
  PROVE  Inv'
<1> DEFINE m == WithFragment(l, k, f)
           c == l[k].p
<1>1. CASE Reject
  BY <1>1, SameListInv DEF Reject
<1>2. CASE GoesBehind(c, f) /\ (Store(l, k, f) \/ StoreAndFree(l, k, f)
                                 \/ Finish(l, k, f))
  <2>0. GoesBehind(l[k].p, f)
    BY <1>2
  <2>1. /\ m \in Seq(Entry)
        /\ DOMAIN m = DOMAIN l
        /\ m[k].dg = l[k].dg
        /\ \A i \in DOMAIN l : i # k => m[i] = l[i]
        /\ Range(m) = Others(l, k) \cup {m[k]}
        /\ Objects(m[k]) = Objects(l[k]) \cup {Id(f)}
    <3>1. m \in Seq(Entry)
      BY <2>0, LinkedEntry, SMTT(30)
    <3>2. DOMAIN m = DOMAIN l
      BY <2>0, LinkedEntry, SMTT(30)
    <3>3. m[k].dg = l[k].dg
      BY <2>0, LinkedEntry, SMTT(30)
    <3>4. \A i \in DOMAIN l : i # k => m[i] = l[i]
      BY <2>0, LinkedEntry, SMTT(30)
    <3>5. Range(m) = Others(l, k) \cup {m[k]}
      BY <2>0, LinkedEntry, SMTT(30)
    <3>6. Objects(m[k]) = ObjectsWith(l[k], f)
      BY <2>0, LinkedEntry, SMTT(30)
    <3> HIDE DEF m
    <3> QED
      BY <3>1, <3>2, <3>3, <3>4, <3>5, <3>6 DEF ObjectsWith
  <2>2. k \in DOMAIN l /\ l \in Seq(Entry) /\ l[k] \in Entry
        /\ l[k].dg \in Datagram
    <3>1. l[k].dg = f.dg /\ l[k] \in Entry
      BY <1>2, NextOfEntry
    <3> QED
      BY <3>1 DEF Ready, Entry
  <2>3. f \in Fragment /\ Id(f) \in Datagram \X Nat
    <3>1. f \in Fragment
      BY SentType DEF Inv
    <3> QED
      BY <3>1 DEF Fragment, Id
  <2>4. heap \subseteq Datagram \X Nat /\ EntryId(l[k]) \in Datagram \X Nat
    BY <2>2 DEF Inv, TypeOK, EntryId
  <2>5. heap \subseteq UNION {Objects(l[i]) : i \in DOMAIN l}
    <3>1. heap \subseteq UNION {Objects(e) : e \in Range(l)}
      BY DEF Ready
    <3> QED
      BY <3>1 DEF Range
  <2>6. \A i, j \in DOMAIN m :
          m[i].dg.src = m[j].dg.src /\ m[i].dg.seq = m[j].dg.seq => i = j
    <3>1. \A i \in DOMAIN m : m[i].dg = l[i].dg
      BY <2>1
    <3> HIDE DEF m
    <3> QED
      BY <2>1, <3>1 DEF Ready
  <2>7. EntryId(l[k]) \in Objects(l[k])
    BY DEF Objects
  <2> HIDE DEF m
  <2>8. UNION {Objects(e) : e \in Range(m)}
          = (UNION {Objects(l[i]) : i \in DOMAIN l}) \cup {Id(f)}
    <3>1. UNION {Objects(e) : e \in Range(m)}
            = (UNION {Objects(l[i]) : i \in DOMAIN l \ {k}}) \cup Objects(m[k])
      BY <2>1 DEF Others
    <3> QED
      BY <2>1, <2>2, <3>1
  <2>9. ASSUME p_reass_list' = m
        PROVE  FromSources' /\ OneEntryPerDatagram' /\ AllSound'
    BY <2>0, <2>1, <2>6, <2>9, LinkedList DEF m
  <2>10. CASE Store(l, k, f)
    <3>1. /\ p_reass_list' = m /\ heap' = heap \cup {EntryId(l[k]), Id(f)}
          /\ delivered' = delivered /\ crashed' = crashed
      BY <2>10 DEF Store, m
    <3>2. TypeOK'
      BY <2>1, <2>3, <2>4, <3>1 DEF Inv, TypeOK, SameDatagrams
    <3>3. DeliveredWhole'
      BY <3>1 DEF Inv, DeliveredWhole
    <3>4. heap' \subseteq UNION {Objects(e) : e \in Range(m)}
      BY <2>2, <2>5, <2>7, <2>8, <3>1
    <3> QED
      BY <2>9, <3>1, <3>2, <3>3, <3>4 DEF Inv, NoLeak, Linked
  <2>11. CASE StoreAndFree(l, k, f)
    <3>1. /\ p_reass_list' = m
          /\ heap' = (heap \cup {EntryId(l[k])}) \ {Id(f)}
          /\ delivered' = delivered /\ crashed' = crashed
      BY <2>11 DEF StoreAndFree, m
    <3>2. TypeOK'
      BY <2>1, <2>4, <3>1 DEF Inv, TypeOK, SameDatagrams
    <3>3. DeliveredWhole'
      BY <3>1 DEF Inv, DeliveredWhole
    <3>4. heap' \subseteq UNION {Objects(e) : e \in Range(m)}
      BY <2>2, <2>5, <2>7, <2>8, <3>1
    <3> QED
      BY <2>9, <3>1, <3>2, <3>3, <3>4 DEF Inv, NoLeak, Linked
  <2>12. CASE Finish(l, k, f)
    <3> DEFINE d == [dg |-> l[k].dg, parts |-> Append(c, f)]
    <3>1. /\ f.last /\ ~HeadMissing(c, f)
          /\ p_reass_list' = Unlinked(m, k)
          /\ heap' = heap \ Objects(l[k])
          /\ crashed' \in BOOLEAN
          /\ delivered' = Append(delivered, d) \/ delivered' = delivered
      BY <2>12 DEF Finish, m, Inv, TypeOK
    <3>2. /\ Append(c, f) \in Seq(Fragment)
          /\ Append(c, f) = AllOf(l[k].dg)
      BY <2>0, <3>1, WholeParts
    <3>3. /\ delivered' \in Seq([dg : Datagram, parts : Seq(Fragment)])
          /\ DeliveredWhole'
      <4>1. delivered \in Seq([dg : Datagram, parts : Seq(Fragment)])
        BY DEF Inv, TypeOK
      <4>2. d \in [dg : Datagram, parts : Seq(Fragment)]
        BY <2>2, <3>2
      <4>3. CASE delivered' = delivered
        BY <4>1, <4>3 DEF Inv, DeliveredWhole
      <4>4. CASE delivered' = Append(delivered, d)
        <5>1. /\ delivered' \in Seq([dg : Datagram, parts : Seq(Fragment)])
              /\ Len(delivered') = Len(delivered) + 1
              /\ \A i \in 1..Len(delivered) : delivered'[i] = delivered[i]
              /\ delivered'[Len(delivered) + 1] = d
          BY <4>1, <4>2, <4>4, AppendProperties
        <5>2. /\ Len(delivered) \in Nat /\ DOMAIN delivered = 1..Len(delivered)
              /\ DOMAIN delivered' = 1..(Len(delivered) + 1)
          BY <4>1, <5>1, LenProperties
        <5>3. ASSUME NEW n \in DOMAIN delivered'
              PROVE  delivered'[n].parts = AllOf(delivered'[n].dg)
          <6>1. CASE n \in DOMAIN delivered
            BY <5>1, <5>2, <6>1 DEF Inv, DeliveredWhole, AllOf
          <6>2. CASE n = Len(delivered) + 1
            <7>1. delivered'[n] = d
              BY <5>1, <6>2
            <7>2. d.dg = l[k].dg /\ d.parts = Append(c, f)
              OBVIOUS
            <7> HIDE DEF d
            <7> QED
              BY <3>2, <7>1, <7>2
          <6> QED
            BY <5>2, <6>1, <6>2
        <5> QED
          BY <5>1, <5>3 DEF DeliveredWhole, AllOf
      <4> QED
        BY <3>1, <4>3, <4>4
    <3>4. heap' \subseteq Datagram \X Nat
      BY <2>4, <3>1
    <3>5. heap' \subseteq UNION {Objects(l[i]) : i \in DOMAIN l \ {k}}
      BY <2>5, <3>1
    <3>6. CASE k # 1
      <4>1. p_reass_list' = m
        BY <3>1, <3>6 DEF Unlinked
      <4>2. TypeOK'
        BY <2>1, <3>1, <3>3, <3>4, <4>1 DEF TypeOK, SameDatagrams
      <4>3. heap' \subseteq UNION {Objects(e) : e \in Range(m)}
        BY <2>8, <3>5
      <4> QED
        BY <2>9, <3>3, <4>1, <4>2, <4>3 DEF Inv, NoLeak, Linked
    <3>7. CASE k = 1
      <4>1. p_reass_list' = Tail(m)
        BY <3>1, <3>7 DEF Unlinked
      <4>2. Len(m) \in Nat /\ DOMAIN m = 1..Len(m) /\ m # <<>>
        BY <2>1, <2>2, LenProperties
      <4>3. /\ Tail(m) \in Seq(Entry)
            /\ Len(Tail(m)) = Len(m) - 1
            /\ \A i \in 1..(Len(m) - 1) : Tail(m)[i] = m[i + 1]
        BY <2>1, <4>2, HeadTailProperties
      <4>4. DOMAIN Tail(m) = 1..(Len(m) - 1)
        BY <4>3, LenProperties
      <4>5. \A i \in DOMAIN Tail(m) :
              i + 1 \in DOMAIN m /\ Tail(m)[i] = m[i + 1]
        BY <4>2, <4>3, <4>4
      <4>6. \A i \in DOMAIN Tail(m) : \E j \in DOMAIN l : Tail(m)[i] = m[j]
        BY <2>1, <4>5
      <4>7. ASSUME NEW i \in DOMAIN Tail(m), NEW j \in DOMAIN Tail(m),
                   Tail(m)[i].dg.src = Tail(m)[j].dg.src,
                   Tail(m)[i].dg.seq = Tail(m)[j].dg.seq
            PROVE  i = j
        <5>1. i + 1 = j + 1
          BY <2>6, <4>5, <4>7
        <5> QED
          BY <4>4, <5>1
      <4>8. FromSources' /\ OneEntryPerDatagram' /\ AllSound'
        <5> DEFINE t == Tail(m)
        <5>1. t \in Seq(Entry) /\ p_reass_list' = t
          BY <4>1, <4>3
        <5>2. \A i \in DOMAIN t : \E j \in DOMAIN l :
                t[i] = WithFragment(l, k, f)[j]
          BY <4>6 DEF m
        <5>3. \A i, j \in DOMAIN t :
                t[i].dg.src = t[j].dg.src /\ t[i].dg.seq = t[j].dg.seq => i = j
          BY <4>7
        <5> HIDE DEF t
        <5> QED
          BY <2>0, <5>1, <5>2, <5>3, LinkedList
      <4>9. TypeOK'
        BY <3>1, <3>3, <3>4, <4>1, <4>3 DEF TypeOK, SameDatagrams
      <4>10. \A i \in DOMAIN l \ {k} :
               i - 1 \in DOMAIN Tail(m) /\ Tail(m)[i - 1] = l[i]
        BY <2>1, <3>7, <4>2, <4>3, <4>4
      <4>11. heap' \subseteq UNION {Objects(e) : e \in Range(Tail(m))}
        <5>1. \A i \in DOMAIN l \ {k} : l[i] \in Range(Tail(m))
          BY <4>10 DEF Range
        <5> QED
          BY <3>5, <5>1
      <4> QED
        BY <3>3, <4>1, <4>8, <4>9, <4>11 DEF Inv, NoLeak, Linked
    <3> QED
      BY <3>6, <3>7
  <2> QED
    BY <1>2, <2>10, <2>11, <2>12
<1> QED
  BY <1>1, <1>2 DEF Insert

LEMMA ReassInv ==
  ASSUME Inv, ~Corrupt, SameDatagrams, NEW f, IsSent(f), packet_reass(f)
  PROVE  Inv'
<1>1. CASE Drop(f)
  BY <1>1, SameListInv DEF Drop
<1>2. ASSUME ~Dropped(f), NEW k \in DOMAIN p_reass_list, IsEntry(k, f),
             Insert(p_reass_list, k, f)
      PROVE  Inv'
  BY <1>2, ReadyFound, InsertInv
<1>3. ASSUME ~Dropped(f), ~HasEntry(f),
             Insert(<<NewEntry(f)>> \o p_reass_list, 1, f)
      PROVE  Inv'
  BY <1>3, ReadyNew, InsertInv
<1> QED
  BY <1>1, <1>2, <1>3 DEF packet_reass

-----------------------------------------------------------------------------
(***************************************************************************)
(* The timer.                                                              *)
(***************************************************************************)

\* An entry that stays is the same entry, one tick older.
LEMMA OlderEntry ==
  ASSUME NEW e \in Entry, Young(e)
  PROVE  /\ Older(e) \in Entry
         /\ Older(e).dg = e.dg
         /\ Older(e).offset = e.offset
         /\ Older(e).p = e.p
         /\ Objects(Older(e)) = Objects(e)
<1>1. /\ Older(e).dg = e.dg /\ Older(e).offset = e.offset
      /\ Older(e).p = e.p /\ Older(e).tmr = e.tmr + 1
      /\ Older(e) = [dg |-> e.dg, offset |-> e.offset, p |-> e.p,
                     tmr |-> e.tmr + 1]
  BY DEF Older, Entry
<1>2. e.tmr + 1 \in 0..MaxAge
  BY LimitsAssumption DEF Young, Entry
<1>3. Older(e) \in Entry
  BY <1>1, <1>2 DEF Entry
<1>4. Objects(Older(e)) = Objects(e)
  BY <1>1 DEF Objects, EntryId, Pbufs
<1> QED
  BY <1>1, <1>3, <1>4

\* What packet_reass_tmr leaves: entries that were on the list, in its order.
LEMMA TickList ==
  ASSUME Inv, packet_reass_tmr
  PROVE  /\ p_reass_list' \in Seq(Entry)
         /\ \A i \in DOMAIN p_reass_list' : \E k \in YoungOnes :
              p_reass_list'[i] = Older(p_reass_list[k])
         /\ \A i, j \in DOMAIN p_reass_list' :
              /\ p_reass_list'[i].dg.src = p_reass_list'[j].dg.src
              /\ p_reass_list'[i].dg.seq = p_reass_list'[j].dg.seq
              => i = j
         /\ \A k \in YoungOnes :
              Older(p_reass_list[k]) \in Range(p_reass_list')
<1> DEFINE Aged == [i \in DOMAIN p_reass_list |->
                      IF i \in YoungOnes THEN Older(p_reass_list[i])
                                         ELSE p_reass_list[i]]
           Old == [i \in DOMAIN p_reass_list |-> Older(p_reass_list[i])]
<1>1. p_reass_list' = Keep(Old, YoungOnes)
  BY DEF packet_reass_tmr
<1>2. YoungOnes \in SUBSET (DOMAIN p_reass_list)
  BY DEF YoungOnes
<1>3. /\ p_reass_list \in Seq(Entry) /\ Len(p_reass_list) \in Nat
      /\ DOMAIN p_reass_list = 1..Len(p_reass_list)
      /\ p_reass_list \in [1..Len(p_reass_list) -> Entry]
  BY LenProperties DEF Inv, TypeOK
<1>4. \A i \in YoungOnes : Older(p_reass_list[i]) \in Entry
                           /\ Older(p_reass_list[i]).dg = p_reass_list[i].dg
  BY <1>2, <1>3, OlderEntry DEF YoungOnes
<1>5. Aged \in Seq(Entry)
  <2>1. Aged \in [1..Len(p_reass_list) -> Entry]
    BY <1>3, <1>4
  <2> QED
    BY <1>3, <2>1, SeqDef
<1>6. Keep(Old, YoungOnes) = Keep(Aged, YoungOnes)
  <2>1. \A i \in 1..Cardinality(YoungOnes) : Nth(YoungOnes, i) \in YoungOnes
    BY <1>2, <1>3, NthProperties
  <2>2. \A k \in YoungOnes : Old[k] = Aged[k]
    BY <1>2
  <2> HIDE DEF Old, Aged
  <2> QED
    BY <2>1, <2>2 DEF Keep
<1>7. DOMAIN Aged = DOMAIN p_reass_list
  OBVIOUS
<1>8. \A k \in YoungOnes : Aged[k] = Older(p_reass_list[k])
  BY <1>2
<1>9. p_reass_list' = Keep(Aged, YoungOnes)
  BY <1>1, <1>6
<1> HIDE DEF Aged, Old
<1>10. /\ p_reass_list' \in Seq(Entry)
       /\ DOMAIN p_reass_list' = 1..Cardinality(YoungOnes)
       /\ \A i \in DOMAIN p_reass_list' :
            /\ Nth(YoungOnes, i) \in YoungOnes
            /\ p_reass_list'[i] = Aged[Nth(YoungOnes, i)]
       /\ \A k \in YoungOnes :
            \E i \in DOMAIN p_reass_list' : Nth(YoungOnes, i) = k
       /\ \A i, j \in DOMAIN p_reass_list' :
            i < j <=> Nth(YoungOnes, i) < Nth(YoungOnes, j)
  BY <1>2, <1>5, <1>7, <1>9, KeepProperties
<1>11. ASSUME NEW i \in DOMAIN p_reass_list', NEW j \in DOMAIN p_reass_list',
              p_reass_list'[i].dg.src = p_reass_list'[j].dg.src,
              p_reass_list'[i].dg.seq = p_reass_list'[j].dg.seq
       PROVE  i = j
  <2> DEFINE a == Nth(YoungOnes, i)
             b == Nth(YoungOnes, j)
  <2>1. /\ a \in YoungOnes /\ b \in YoungOnes
        /\ p_reass_list'[i] = Older(p_reass_list[a])
        /\ p_reass_list'[j] = Older(p_reass_list[b])
    BY <1>8, <1>10
  <2>2. /\ p_reass_list[a].dg.src = p_reass_list[b].dg.src
        /\ p_reass_list[a].dg.seq = p_reass_list[b].dg.seq
    BY <1>4, <1>11, <2>1
  <2>3. a \in DOMAIN p_reass_list /\ b \in DOMAIN p_reass_list
    BY <1>2, <2>1
  <2>4. a = b /\ a \in Nat
    BY <1>3, <2>2, <2>3 DEF Inv, OneEntryPerDatagram
  <2>5. (i < j <=> a < b) /\ (j < i <=> b < a)
    BY <1>10
  <2>6. i \in Nat /\ j \in Nat
    BY <1>10
  <2> HIDE DEF a, b
  <2> QED
    BY <2>4, <2>5, <2>6
<1>12. \A k \in YoungOnes : Older(p_reass_list[k]) \in Range(p_reass_list')
  BY <1>8, <1>10 DEF Range
<1>13. \A i \in DOMAIN p_reass_list' : \E k \in YoungOnes :
         p_reass_list'[i] = Older(p_reass_list[k])
  BY <1>8, <1>10
<1> QED
  BY <1>10, <1>11, <1>12, <1>13

LEMMA TickInv ==
  ASSUME Inv, ~Corrupt, SameDatagrams, packet_reass_tmr
  PROVE  Inv'
<1>1. /\ p_reass_list' \in Seq(Entry)
      /\ \A i \in DOMAIN p_reass_list' : \E k \in YoungOnes :
           p_reass_list'[i] = Older(p_reass_list[k])
      /\ \A k \in YoungOnes : Older(p_reass_list[k]) \in Range(p_reass_list')
  BY TickList
<1>2. /\ delivered' = delivered /\ crashed' = crashed
      /\ heap' = heap \ UNION {FreedBy(e) :
           e \in Range(Keep(p_reass_list, DOMAIN p_reass_list \ YoungOnes))}
  BY DEF packet_reass_tmr
<1>3. p_reass_list \in Seq(Entry) /\ YoungOnes \subseteq DOMAIN p_reass_list
  BY DEF Inv, TypeOK, YoungOnes
<1>4. \A k \in YoungOnes :
        LET e == p_reass_list[k]
        IN  /\ e \in Entry /\ e \in Range(p_reass_list)
            /\ Older(e).dg = e.dg /\ Older(e).offset = e.offset
            /\ Older(e).p = e.p /\ Objects(Older(e)) = Objects(e)
  BY <1>3, OlderEntry DEF YoungOnes, Range
<1>5. \A n \in Range(p_reass_list') : \E e \in Range(p_reass_list) :
        /\ e \in Entry /\ n.dg = e.dg /\ n.offset = e.offset /\ n.p = e.p
  <2> SUFFICES ASSUME NEW i \in DOMAIN p_reass_list'
               PROVE  \E e \in Range(p_reass_list) :
                        /\ e \in Entry /\ p_reass_list'[i].dg = e.dg
                        /\ p_reass_list'[i].offset = e.offset
                        /\ p_reass_list'[i].p = e.p
    BY DEF Range
  <2>1. PICK k \in YoungOnes : p_reass_list'[i] = Older(p_reass_list[k])
    BY <1>1
  <2>2. LET e == p_reass_list[k]
        IN  /\ e \in Entry /\ e \in Range(p_reass_list)
            /\ Older(e).dg = e.dg /\ Older(e).offset = e.offset
            /\ Older(e).p = e.p
    BY <1>4
  <2> QED
    BY <2>1, <2>2
<1>6. TypeOK'
  BY <1>1, <1>2 DEF Inv, TypeOK, SameDatagrams
<1>7. AllSound'
  BY <1>5 DEF Inv, AllSound, Sound
<1>8. OneEntryPerDatagram'
  BY TickList DEF OneEntryPerDatagram
<1>9. FromSources'
  <2> SUFFICES ASSUME NEW n \in Range(p_reass_list')
               PROVE  /\ n.dg.seq <= sender'[n.dg.src].seq
                      /\ n.dg.seq = sender'[n.dg.src].seq =>
                           n.dg.shape = sender'[n.dg.src].shape
    BY DEF FromSources
  <2>1. PICK e \in Range(p_reass_list) : e \in Entry /\ n.dg = e.dg
    BY <1>5
  <2>2. e.dg.src \in Src
    BY <2>1 DEF Entry, Datagram
  <2> QED
    BY <2>1, <2>2 DEF SameDatagrams, Inv, FromSources
<1>10. DeliveredWhole'
  BY <1>2 DEF Inv, DeliveredWhole
<1>11. heap' \subseteq Linked'
  <2> SUFFICES ASSUME NEW x \in heap'
               PROVE  \E k \in YoungOnes : x \in Objects(p_reass_list[k])
    <3>1. ASSUME NEW k \in YoungOnes, NEW x, x \in Objects(p_reass_list[k])
          PROVE  x \in Linked'
      <4>1. /\ Older(p_reass_list[k]) \in Range(p_reass_list')
            /\ Objects(Older(p_reass_list[k])) = Objects(p_reass_list[k])
        BY <1>1, <1>4
      <4>2. Linked' = UNION {Objects(e) : e \in Range(p_reass_list')}
        BY DEF Linked, Objects, EntryId, Pbufs
      <4> QED
        BY <3>1, <4>1, <4>2
    <3> QED
      BY <3>1
  <2>1. PICK k \in DOMAIN p_reass_list : x \in Objects(p_reass_list[k])
    BY <1>2 DEF Inv, NoLeak, Linked, Range
  <2>2. k \in YoungOnes
    <3> SUFFICES ASSUME k \notin YoungOnes
                 PROVE  FALSE
      OBVIOUS
    <3>1. p_reass_list[k] \in
            Range(Keep(p_reass_list, DOMAIN p_reass_list \ YoungOnes))
      BY <1>3, KeepProperties
    <3> QED
      BY <1>2, <2>1, <3>1 DEF FreedBy
  <2> QED
    BY <1>1, <1>4, <2>1, <2>2
<1> QED
  BY <1>6, <1>7, <1>8, <1>9, <1>10, <1>11 DEF Inv, NoLeak

-----------------------------------------------------------------------------
(***************************************************************************)
(* The specification.                                                      *)
(***************************************************************************)

\* A source has at most sent all fragments of its datagram.
InRange == \A s \in Src : sender[s].next <= sender[s].shape.frags + 1

\* The inductive invariant.
IInv == Inv /\ InRange

LEMMA InitInv == Init => IInv
<1> SUFFICES ASSUME Init
             PROVE  IInv
  OBVIOUS
<1>1. PICK sh \in Shapes :
        sender = [s \in Src |-> [seq |-> 0, shape |-> sh, next |-> 1,
                                 late |-> FALSE]]
  BY DEF Init
<1>2. sh.frags \in Nat
  BY ShapeType
<1>3. p_reass_list = <<>> /\ heap = {} /\ delivered = <<>> /\ crashed = FALSE
  BY DEF Init
<1>4. TypeOK
  <2>1. sender \in [Src -> [seq : Nat, shape : Shapes, next : Nat \ {0},
                            late : BOOLEAN]]
    BY <1>1
  <2>2. p_reass_list \in Seq(Entry)
    BY <1>3
  <2>3. delivered \in Seq([dg : Datagram, parts : Seq(Fragment)])
    BY <1>3
  <2> QED
    BY <1>3, <2>1, <2>2, <2>3 DEF TypeOK
<1>5. InRange
  BY <1>1, <1>2 DEF InRange
<1>6. FromSources /\ OneEntryPerDatagram /\ AllSound /\ DeliveredWhole /\ NoLeak
  BY <1>3 DEF FromSources, OneEntryPerDatagram, AllSound, DeliveredWhole,
              NoLeak, Range
<1> QED
  BY <1>4, <1>5, <1>6 DEF IInv, Inv

\* A source that goes on to its next fragment.
LEMMA AdvanceSame ==
  ASSUME IInv, NEW s \in Src, MoreToSend(s), Advance(s)
  PROVE  SameDatagrams /\ InRange'
<1>1. /\ sender \in [Src -> [seq : Nat, shape : Shapes, next : Nat \ {0},
                             late : BOOLEAN]]
      /\ sender' = [sender EXCEPT ![s].next = @ + 1]
  BY DEF IInv, Inv, TypeOK, Advance
<1>2. /\ \A t \in Src : t # s => sender'[t] = sender[t]
      /\ sender'[s] = [sender[s] EXCEPT !.next = @ + 1]
      /\ DOMAIN sender' = Src
      /\ sender' = [t \in Src |-> sender'[t]]
  BY <1>1
<1>3. /\ sender'[s].seq = sender[s].seq
      /\ sender'[s].shape = sender[s].shape
      /\ sender'[s].next = sender[s].next + 1
      /\ sender'[s] \in [seq : Nat, shape : Shapes, next : Nat \ {0},
                         late : BOOLEAN]
  BY <1>1, <1>2
<1>4. sender[s].shape.frags \in Nat /\ sender[s].next \in Nat
  BY <1>1, ShapeType
<1>5. SameDatagrams
  BY <1>1, <1>2, <1>3 DEF SameDatagrams
<1>6. InRange'
  BY <1>2, <1>3, <1>4 DEF IInv, InRange, MoreToSend
<1> QED
  BY <1>5, <1>6

LEMMA NextInv == IInv /\ [Next]_rvars => IInv'
<1> SUFFICES ASSUME IInv, [Next]_rvars
             PROVE  IInv'
  OBVIOUS
<1>1. /\ Inv /\ InRange
      /\ sender \in [Src -> [seq : Nat, shape : Shapes, next : Nat \ {0},
                             late : BOOLEAN]]
  BY DEF IInv, Inv, TypeOK
<1>2. ASSUME NEW s \in Src, NEW sh \in Shapes, NewDatagram(s, sh)
      PROVE  IInv'
  <2>1. /\ p_reass_list' = p_reass_list /\ heap' = heap
        /\ delivered' = delivered /\ crashed' = crashed
        /\ sender' = [sender EXCEPT ![s] =
                        [seq |-> sender[s].seq + 1, shape |-> sh, next |-> 1,
                         late |-> FALSE]]
    BY <1>2 DEF NewDatagram
  <2>2. /\ sender'[s].seq = sender[s].seq + 1
        /\ sender'[s].shape = sh /\ sender'[s].next = 1
        /\ \A t \in Src : t # s => sender'[t] = sender[t]
        /\ sender' \in [Src -> [seq : Nat, shape : Shapes, next : Nat \ {0},
                                late : BOOLEAN]]
    BY <1>1, <2>1
  <2>3. TypeOK'
    BY <1>1, <2>1, <2>2 DEF Inv, TypeOK
  <2>4. InRange'
    <3>1. sh.frags \in Nat
      BY ShapeType
    <3> QED
      BY <1>1, <2>2, <3>1 DEF InRange
  <2>5. FromSources'
    <3> SUFFICES ASSUME NEW e \in Range(p_reass_list)
                 PROVE  /\ e.dg.seq <= sender'[e.dg.src].seq
                        /\ e.dg.seq = sender'[e.dg.src].seq =>
                             e.dg.shape = sender'[e.dg.src].shape
      BY <2>1 DEF FromSources
    <3>1. e.dg.src \in Src /\ e.dg.seq \in Nat
      <4>1. e \in Entry
        BY <1>1 DEF Inv, TypeOK, Range
      <4> QED
        BY <4>1 DEF Entry, Datagram
    <3>2. e.dg.seq <= sender[e.dg.src].seq
      BY <1>1 DEF Inv, FromSources
    <3>3. CASE e.dg.src = s
      <4>1. sender[s].seq \in Nat
        BY <1>1
      <4> QED
        BY <2>2, <3>1, <3>2, <3>3, <4>1
    <3>4. CASE e.dg.src # s
      BY <1>1, <2>2, <3>1, <3>4 DEF Inv, FromSources
    <3> QED
      BY <3>3, <3>4
  <2>6. OneEntryPerDatagram' /\ AllSound' /\ DeliveredWhole' /\ NoLeak'
    BY <1>1, <2>1 DEF Inv, OneEntryPerDatagram, AllSound, Sound,
                      DeliveredWhole, NoLeak, Corrupt, Linked
  <2> QED
    BY <2>3, <2>4, <2>5, <2>6 DEF IInv, Inv
<1>3. ASSUME NEW s \in Src, Arrive(s)
      PROVE  IInv'
  <2>1. /\ MoreToSend(s) /\ Advance(s) /\ ~Corrupt
        /\ packet_reass(NextFragment(s))
    BY <1>3 DEF Arrive
  <2>2. SameDatagrams /\ InRange'
    BY <2>1, AdvanceSame
  <2>3. IsSent(NextFragment(s))
    <3>1. sender[s].shape.frags \in Nat /\ sender[s].next \in Nat \ {0}
      BY <1>1, ShapeType
    <3> QED
      BY <2>1, <3>1 DEF MoreToSend, NextFragment, IsSent
  <2> QED
    BY <1>1, <2>1, <2>2, <2>3, ReassInv DEF IInv
<1>4. ASSUME NEW s \in Src, Skip(s)
      PROVE  IInv'
  <2>1. /\ MoreToSend(s) /\ Advance(s)
        /\ p_reass_list' = p_reass_list /\ heap' = heap
        /\ delivered' = delivered /\ crashed' = crashed
    BY <1>4 DEF Skip
  <2> QED
    BY <1>1, <2>1, AdvanceSame, SameListInv DEF IInv
<1>5. ASSUME NEW s \in Src, Repeat(s)
      PROVE  IInv'
  <2>1. ~Corrupt /\ sender' = sender /\ sender[s].seq > 0
    BY <1>5 DEF Repeat
  <2>2. PICK i \in 1..(sender[s].next - 1) :
          packet_reass(FragmentOf(Sending(s), i))
    BY <1>5 DEF Repeat
  <2>3. IsSent(FragmentOf(Sending(s), i))
    <3>1. sender[s].shape.frags \in Nat /\ sender[s].next \in Nat \ {0}
      BY <1>1, ShapeType
    <3>2. i \in 1..sender[s].shape.frags
      BY <1>1, <3>1 DEF InRange
    <3> QED
      BY <2>1, <3>2 DEF IsSent
  <2>4. SameDatagrams /\ InRange'
    BY <1>1, <2>1 DEF SameDatagrams, InRange
  <2> QED
    BY <1>1, <2>1, <2>2, <2>3, <2>4, ReassInv DEF IInv
<1>6. CASE Tick
  <2>1. /\ ~Corrupt /\ packet_reass_tmr
        /\ sender' = [s \in Src |->
             [sender[s] EXCEPT !.late =
                @ \/ (MoreToSend(s) /\ TimesOut(NextFragment(s)))]]
    BY <1>6 DEF Tick
  <2>2. SameDatagrams /\ InRange'
    <3> DEFINE late(s) == MoreToSend(s) /\ TimesOut(NextFragment(s))
    <3>1. \A s \in Src :
            /\ sender'[s].seq = sender[s].seq
            /\ sender'[s].shape = sender[s].shape
            /\ sender'[s].next = sender[s].next
            /\ sender'[s] = [sender[s] EXCEPT !.late = @ \/ late(s)]
      BY <1>1, <2>1
    <3>2. \A s \in Src : (sender[s].late \/ late(s)) \in BOOLEAN
      OBVIOUS
    <3> HIDE DEF late
    <3>3. \A s \in Src :
            sender'[s] \in [seq : Nat, shape : Shapes, next : Nat \ {0},
                            late : BOOLEAN]
      BY <1>1, <3>1, <3>2
    <3>4. DOMAIN sender' = Src /\ sender' = [s \in Src |-> sender'[s]]
      BY <2>1
    <3>5. SameDatagrams
      BY <3>1, <3>3, <3>4 DEF SameDatagrams
    <3>6. InRange'
      BY <1>1, <3>1 DEF InRange
    <3> QED
      BY <3>5, <3>6
  <2> QED
    BY <1>1, <2>1, <2>2, TickInv DEF IInv
<1>7. CASE UNCHANGED rvars
  <2>1. /\ p_reass_list' = p_reass_list /\ heap' = heap /\ sender' = sender
        /\ delivered' = delivered /\ crashed' = crashed
    BY <1>7 DEF rvars
  <2>2. SameDatagrams /\ InRange'
    BY <1>1, <2>1 DEF SameDatagrams, InRange
  <2> QED
    BY <1>1, <2>1, <2>2, SameListInv DEF IInv
<1> QED
  BY <1>2, <1>3, <1>4, <1>5, <1>6, <1>7 DEF Next

LEMMA Inductive == Spec => []IInv
BY InitInv, NextInv, PTL DEF Spec

-----------------------------------------------------------------------------

\* The state keeps its types.
THEOREM ReassTypeCorrect == Spec => []TypeOK
<1>1. IInv => TypeOK
  BY DEF IInv, Inv
<1> QED
  BY <1>1, Inductive, PTL

\* Two fragments of a datagram never open two entries (the search of
\* packet_reass by source and sequence number).
THEOREM OneEntry == Spec => []OneEntryPerDatagram
<1>1. IInv => OneEntryPerDatagram
  BY DEF IInv, Inv
<1> QED
  BY <1>1, Inductive, PTL

\* The pbufs of an entry never overlap and leave no gap, whatever the order
\* and the number of times fragments come (packet_reass_inserte_and_validate).
THEOREM EntriesGapless == Spec => []Gapless
<1>1. IInv => Gapless
  BY DEF IInv, Inv, AllSound, Sound, Gapless
<1> QED
  BY <1>1, Inductive, PTL

\* The application is only handed whole datagrams
\* (reass_data_validate_finished).
THEOREM OnlyWholeDatagrams == Spec => []DeliveredWhole
<1>1. IInv => DeliveredWhole
  BY DEF IInv, Inv
<1> QED
  BY <1>1, Inductive, PTL

\* As long as no freed memory is linked, no allocated entry or pbuf is lost
\* from the list: drops, rejections, completions and timeouts free what they
\* remove.
THEOREM NothingLost == Spec => []NoLeak
<1>1. IInv => NoLeak
  BY DEF IInv, Inv
<1> QED
  BY <1>1, Inductive, PTL

-----------------------------------------------------------------------------
(***************************************************************************)
(* The counter.                                                            *)
(***************************************************************************)

\* The pbufs of the entries of list l.
Waiting(l) == UNION {Pbufs(l[i]) : i \in DOMAIN l}

\* Entries of different datagrams.
Apart(l) ==
  \A i, j \in DOMAIN l :
    l[i].dg.src = l[j].dg.src /\ l[i].dg.seq = l[j].dg.seq => i = j

AllOfList(l) == l \in Seq(Entry) /\ Apart(l) /\ \A i \in DOMAIN l : Sound(l[i])

Counted ==
  ~Corrupt =>
    /\ IsFiniteSet(Waiting(p_reass_list))
    /\ g_reass_pbuf_cunt = Cardinality(Waiting(p_reass_list))
    /\ g_reass_pbuf_cunt <= MaxPbufs

\* An entry has a pbuf for each of its fragments.
LEMMA PbufsOfEntry ==
  ASSUME NEW e \in Entry, Sound(e)
  PROVE  /\ Len(e.p) \in Nat
         /\ Pbufs(e) = {<<e.dg, e.offset + i>> : i \in 1..Len(e.p)}
         /\ IsFiniteSet(Pbufs(e)) /\ Cardinality(Pbufs(e)) = Len(e.p)
<1> DEFINE n == Len(e.p)
           A == {<<e.dg, e.offset + i>> : i \in 1..n}
           F == [i \in 1..n |-> <<e.dg, e.offset + i>>]
<1>1. /\ e.p \in Seq(Fragment) /\ e.offset \in Nat /\ e.dg \in Datagram
      /\ n \in Nat /\ DOMAIN e.p = 1..n
  BY LenProperties DEF Entry
<1>2. \A i \in 1..n : Id(e.p[i]) = <<e.dg, e.offset + i>>
  <2> TAKE i \in 1..n
  <2>1. e.offset + i \in Nat \ {0}
    BY <1>1
  <2>2. e.p[i] = FragmentOf(e.dg, e.offset + i)
    BY <1>1 DEF Sound
  <2> QED
    BY <1>1, <2>1, <2>2, FragmentType DEF Id
<1>3. Pbufs(e) = A
  BY <1>1, <1>2 DEF Pbufs
<1>4. F \in Bijection(1..n, A)
  <2>1. F \in [1..n -> A] /\ \A t \in A : \E i \in 1..n : F[i] = t
    OBVIOUS
  <2>2. ASSUME NEW i \in 1..n, NEW j \in 1..n, F[i] = F[j]
        PROVE  i = j
    <3>1. e.offset + i = e.offset + j
      BY <2>2
    <3> QED
      BY <1>1, <3>1
  <2> HIDE DEF F, A
  <2> QED
    BY <2>1, <2>2 DEF Bijection, Injection, Surjection, IsInjective
<1>5. Cardinality(1..n) = n /\ IsFiniteSet(1..n)
  BY <1>1, FS_Interval
<1>6. ExistsBijection(1..n, A)
  BY <1>4 DEF ExistsBijection
<1>7. IsFiniteSet(A) /\ Cardinality(A) = n
  <2> HIDE DEF A, n
  <2> QED
    BY <1>5, <1>6, FS_Bijection
<1> QED
  BY <1>1, <1>3, <1>7

\* No two entries have a pbuf in common.
LEMMA PbufsApart ==
  ASSUME NEW l, AllOfList(l), NEW i \in DOMAIN l, NEW j \in DOMAIN l, i # j
  PROVE  Pbufs(l[i]) \cap Pbufs(l[j]) = {}
<1>1. /\ l[i] \in Entry /\ Sound(l[i]) /\ l[j] \in Entry /\ Sound(l[j])
  BY DEF AllOfList
<1>2. l[i].dg # l[j].dg
  BY DEF AllOfList, Apart
<1>3. \A x \in Pbufs(l[i]) : x[1] = l[i].dg
  BY <1>1, PbufsOfEntry
<1>4. \A x \in Pbufs(l[j]) : x[1] = l[j].dg
  BY <1>1, PbufsOfEntry
<1> QED
  BY <1>2, <1>3, <1>4

\* The recursion of LessAll.
LEMMA LessAllDef ==
  ASSUME NEW n \in Nat, NEW g \in Seq(Entry)
  PROVE  \E left : /\ left \in [0..Len(g) -> Nat]
                   /\ left[0] = n
                   /\ \A i \in 1..Len(g) : left[i] = Less(left[i - 1], g[i])
                   /\ LessAll(n, g) = left[Len(g)]
<1> DEFINE L == Len(g)
           s == [i \in 1..L |-> [x \in Nat |-> Less(x, g[i])]]
           Rec(f) == f = [i \in 0..L |-> IF i = 0 THEN n ELSE Less(f[i - 1], g[i])]
           r == CHOOSE f : Rec(f)
<1>1. L \in Nat /\ \A i \in 1..L : Len(g[i].p) \in Nat
  BY LenProperties DEF Entry
<1>2. \A i \in 1..L : \A x \in Nat : Less(x, g[i]) \in Nat
  BY <1>1 DEF Less
<1>3. s \in [1..L -> [Nat -> Nat]]
  BY <1>2
<1>4. PICK w \in [0..L -> Nat] : Solution(w, L, n, s)
  <2> HIDE DEF s, L
  <2> QED
    BY <1>1, <1>3, RecursionExists
<1>5. w[0] = n /\ \A i \in 1..L : w[i] = Less(w[i - 1], g[i])
  <2>1. \A i \in 1..L : i - 1 \in 0..L /\ w[i - 1] \in Nat
    BY <1>1
  <2>2. \A i \in 1..L : \A x \in Nat : s[i][x] = Less(x, g[i])
    OBVIOUS
  <2> HIDE DEF s
  <2> QED
    BY <1>4, <2>1, <2>2 DEF Solution
<1>6. Rec(w)
  BY <1>1, <1>5
<1>7. Rec(r)
  <2> HIDE DEF Rec
  <2> QED
    BY <1>6
<1>8. LessAll(n, g) = r[L]
  BY DEF LessAll
<1> HIDE DEF r
<1>9. /\ r = [i \in 0..L |-> r[i]] /\ r[0] = n
      /\ \A i \in 1..L : r[i] = Less(r[i - 1], g[i])
  BY <1>1, <1>7
<1> DEFINE S == {i \in 0..L : r[i] \notin Nat}
<1>10. S = {}
  <2>1. SUFFICES ASSUME S # {} PROVE FALSE
    OBVIOUS
  <2>2. PICK m \in S : \A i \in S : m <= i
    <3>1. S \in SUBSET Nat
      BY <1>1
    <3> HIDE DEF S
    <3> QED
      BY <2>1, <3>1, LeastElement
  <2>3. m \in 1..L
    BY <1>1, <1>9
  <2>4. m - 1 \in 0..L /\ m - 1 \notin S
    <3>1. m - 1 \in 0..L /\ ~(m <= m - 1)
      BY <2>3
    <3> HIDE DEF S
    <3> QED
      BY <2>2, <3>1
  <2>5. r[m] \in Nat
    BY <1>2, <1>9, <2>3, <2>4
  <2> QED
    BY <2>5
<1>11. r \in [0..L -> Nat]
  BY <1>9, <1>10
<1> QED
  BY <1>8, <1>9, <1>11

\* The timer takes from a counter that counts the set W the pbufs of the
\* entries of g, all of them in W: it never comes below 0, and counts the rest.
LEMMA LessAllCounts ==
  ASSUME NEW W, IsFiniteSet(W), NEW g, AllOfList(g),
         \A i \in DOMAIN g : Pbufs(g[i]) \subseteq W
  PROVE  LessAll(Cardinality(W), g) = Cardinality(W \ Waiting(g))
<1> DEFINE L == Len(g)
           First(i) == UNION {Pbufs(g[j]) : j \in 1..i}
<1>1. g \in Seq(Entry) /\ L \in Nat /\ DOMAIN g = 1..L
  BY LenProperties DEF AllOfList
<1>2. Cardinality(W) \in Nat
  BY FS_CardinalityType
<1>3. PICK left \in [0..L -> Nat] :
        /\ left[0] = Cardinality(W)
        /\ \A i \in 1..L : left[i] = Less(left[i - 1], g[i])
        /\ LessAll(Cardinality(W), g) = left[L]
  BY <1>1, <1>2, LessAllDef
<1> HIDE DEF L
<1> DEFINE S == {i \in 0..L : left[i] # Cardinality(W \ First(i))}
<1>4. S = {}
  <2>1. SUFFICES ASSUME S # {} PROVE FALSE
    OBVIOUS
  <2>2. PICK m \in S : \A i \in S : m <= i
    <3>1. S \in SUBSET Nat
      BY <1>1
    <3> HIDE DEF S
    <3> QED
      BY <2>1, <3>1, LeastElement
  <2>3. First(0) = {}
    OBVIOUS
  <2>4. m # 0
    BY <1>3, <2>3
  <2>5. m \in 1..L
    BY <1>1, <2>4
  <2>6. m - 1 \in 0..L /\ m - 1 \notin S
    <3>1. m - 1 \in 0..L /\ ~(m <= m - 1)
      BY <1>1, <2>5
    <3> HIDE DEF S
    <3> QED
      BY <2>2, <3>1
  <2>7. left[m - 1] = Cardinality(W \ First(m - 1))
    BY <2>6
  <2> DEFINE P == Pbufs(g[m])
             R == W \ First(m - 1)
  <2>8. /\ IsFiniteSet(P) /\ Cardinality(P) = Len(g[m].p)
        /\ Len(g[m].p) \in Nat /\ P \subseteq W
    BY <1>1, <2>5, PbufsOfEntry DEF AllOfList
  <2>9. P \subseteq R
    <3>1. ASSUME NEW j \in 1..(m - 1) PROVE P \cap Pbufs(g[j]) = {}
      <4>1. j \in DOMAIN g /\ m \in DOMAIN g /\ m # j
        BY <1>1, <2>5
      <4> QED
        BY <4>1, PbufsApart
    <3> QED
      BY <2>8, <3>1
  <2>10. W \ First(m) = R \ P
    <3>1. \A j : j \in 1..m <=> j \in 1..(m - 1) \/ j = m
      BY <1>1, <2>5
    <3>2. \A x : x \in First(m) <=> x \in First(m - 1) \/ x \in P
      BY <3>1
    <3> HIDE DEF First, P
    <3> QED
      BY <3>2
  <2>11. IsFiniteSet(R) /\ Cardinality(R) \in Nat
    <3> HIDE DEF First
    <3> QED
      BY FS_Difference, FS_CardinalityType
  <2>12. /\ Cardinality(R \ P) = Cardinality(R) - Cardinality(P)
         /\ Cardinality(P) <= Cardinality(R)
    <3>1. R \cap P = P /\ P \in SUBSET R
      BY <2>9
    <3> HIDE DEF R, P
    <3>2. Cardinality(R \ P) = Cardinality(R) - Cardinality(R \cap P)
      BY <2>11, FS_Difference
    <3>3. Cardinality(P) <= Cardinality(R)
      BY <2>11, <3>1, FS_Subset
    <3> QED
      BY <3>1, <3>2, <3>3
  <2>13. left[m] = Less(Cardinality(R), g[m])
    BY <1>3, <2>5, <2>7
  <2>14. left[m] = Cardinality(W \ First(m))
    <3> HIDE DEF R, P, First
    <3> QED
      BY <2>8, <2>10, <2>11, <2>12, <2>13 DEF Less
  <2> QED
    BY <2>14
<1>5. L \in 0..L /\ First(L) = Waiting(g)
  BY <1>1 DEF Waiting
<1> QED
  BY <1>3, <1>4, <1>5

\* The pbufs of the entries that are too old go, those of the others stay.
LEMMA TickCounted ==
  ASSUME Inv, Counted, ~Corrupt, packet_reass_tmr
  PROVE  Counted'
<1> DEFINE l == p_reass_list
           W == Waiting(l)
           Old == DOMAIN l \ YoungOnes
           gone == Keep(l, Old)
<1>1. /\ IsFiniteSet(W) /\ g_reass_pbuf_cunt = Cardinality(W)
      /\ g_reass_pbuf_cunt <= MaxPbufs
  BY DEF Counted
<1>2. g_reass_pbuf_cunt' = LessAll(Cardinality(W), gone)
  BY <1>1 DEF packet_reass_tmr
<1>3. /\ AllOfList(l) /\ l \in Seq(Entry)
      /\ Old \in SUBSET DOMAIN l /\ YoungOnes \subseteq DOMAIN l
  <2>1. l \in Seq(Entry) /\ Apart(l) /\ \A i \in DOMAIN l : Sound(l[i])
    BY DEF Inv, TypeOK, OneEntryPerDatagram, Apart, AllSound, Range
  <2> QED
    BY <2>1 DEF AllOfList, YoungOnes
<1>4. /\ gone \in Seq(Entry)
      /\ DOMAIN gone = 1..Cardinality(Old)
      /\ \A i \in DOMAIN gone : Nth(Old, i) \in Old /\ gone[i] = l[Nth(Old, i)]
      /\ \A k \in Old : \E i \in DOMAIN gone : Nth(Old, i) = k
      /\ \A i, j \in DOMAIN gone : i < j <=> Nth(Old, i) < Nth(Old, j)
  <2> HIDE DEF Old
  <2> QED
    BY <1>3, KeepProperties
<1> HIDE DEF gone
<1>5. AllOfList(gone)
  <2>1. ASSUME NEW i \in DOMAIN gone, NEW j \in DOMAIN gone,
               gone[i].dg.src = gone[j].dg.src, gone[i].dg.seq = gone[j].dg.seq
        PROVE  i = j
    <3> DEFINE a == Nth(Old, i)
               b == Nth(Old, j)
    <3>1. a \in DOMAIN l /\ b \in DOMAIN l /\ gone[i] = l[a] /\ gone[j] = l[b]
      BY <1>4
    <3>2. a = b
      BY <1>3, <2>1, <3>1 DEF AllOfList, Apart
    <3>3. a \in Nat /\ i \in Nat /\ j \in Nat
      BY <1>3, <1>4, <3>1, LenProperties
    <3>4. (i < j <=> a < b) /\ (j < i <=> b < a)
      BY <1>4
    <3> HIDE DEF a, b
    <3> QED
      BY <3>2, <3>3, <3>4
  <2>2. \A i \in DOMAIN gone : Sound(gone[i])
    BY <1>3, <1>4 DEF AllOfList
  <2> QED
    BY <1>4, <2>1, <2>2 DEF AllOfList, Apart
<1>6. \A x : x \in Waiting(gone) <=> \E k \in Old : x \in Pbufs(l[k])
  <2> HIDE DEF Old
  <2>1. ASSUME NEW x, x \in Waiting(gone)
        PROVE  \E k \in Old : x \in Pbufs(l[k])
    BY <1>4, <2>1 DEF Waiting
  <2>2. ASSUME NEW k \in Old
        PROVE  \E i \in DOMAIN gone : Pbufs(gone[i]) = Pbufs(l[k])
    BY <1>4
  <2> QED
    BY <2>1, <2>2 DEF Waiting
<1>7. \A x : x \in Waiting(p_reass_list') <=> \E k \in YoungOnes : x \in Pbufs(l[k])
  <2>1. \A k \in YoungOnes : Pbufs(Older(l[k])) = Pbufs(l[k])
    BY <1>3, OlderEntry DEF YoungOnes, Pbufs
  <2>2. /\ \A i \in DOMAIN p_reass_list' : \E k \in YoungOnes :
             p_reass_list'[i] = Older(l[k])
        /\ \A k \in YoungOnes : \E i \in DOMAIN p_reass_list' :
             p_reass_list'[i] = Older(l[k])
    BY TickList DEF Range
  <2>3. \A i \in DOMAIN p_reass_list' : \E k \in YoungOnes :
          Pbufs(p_reass_list'[i]) = Pbufs(l[k])
    BY <2>1, <2>2
  <2>4. \A k \in YoungOnes : \E i \in DOMAIN p_reass_list' :
          Pbufs(p_reass_list'[i]) = Pbufs(l[k])
    BY <2>1, <2>2
  <2> QED
    BY <2>3, <2>4 DEF Waiting
<1>8. \A i \in DOMAIN gone : Pbufs(gone[i]) \subseteq W
  BY <1>4 DEF Waiting
<1>9. Waiting(p_reass_list') = W \ Waiting(gone)
  <2>1. ASSUME NEW x \in W
        PROVE  x \in Waiting(p_reass_list') <=> x \notin Waiting(gone)
    <3>1. PICK k \in DOMAIN l : x \in Pbufs(l[k])
      BY DEF Waiting
    <3>2. \A j \in DOMAIN l : x \in Pbufs(l[j]) => j = k
      BY <1>3, <3>1, PbufsApart
    <3> QED
      BY <1>3, <1>6, <1>7, <3>1, <3>2
  <2>2. \A x \in Waiting(p_reass_list') : x \in W
    BY <1>3, <1>7 DEF Waiting
  <2> HIDE DEF W
  <2> QED
    BY <2>1, <2>2
<1> HIDE DEF W, Old
<1>10. g_reass_pbuf_cunt' = Cardinality(Waiting(p_reass_list'))
  BY <1>1, <1>2, <1>5, <1>8, <1>9, LessAllCounts
<1>11. /\ IsFiniteSet(Waiting(p_reass_list'))
       /\ Cardinality(Waiting(p_reass_list')) <= Cardinality(W)
       /\ Cardinality(Waiting(p_reass_list')) \in Nat /\ Cardinality(W) \in Nat
  <2>1. Waiting(p_reass_list') \in SUBSET W
    BY <1>9
  <2> QED
    BY <1>1, <2>1, FS_Subset, FS_CardinalityType
<1> QED
  BY <1>1, <1>10, <1>11, LimitsAssumption DEF Counted

\* A new entry has no pbufs.
LEMMA WaitingNew ==
  ASSUME Inv, NEW f, IsSent(f), ~HasEntry(f)
  PROVE  Waiting(<<NewEntry(f)>> \o p_reass_list) = Waiting(p_reass_list)
<1> DEFINE l == <<NewEntry(f)>> \o p_reass_list
           n == Len(p_reass_list)
<1>1. NewEntry(f).p = <<>> /\ Pbufs(NewEntry(f)) = {}
  BY DEF NewEntry, Pbufs
<1>2. p_reass_list \in Seq(Entry) /\ n \in Nat /\ DOMAIN p_reass_list = 1..n
  BY LenProperties DEF Inv, TypeOK
<1>3. l \in Seq(Entry) /\ 1 \in DOMAIN l
  BY ReadyNew DEF Ready
<1>4. /\ Len(l) = n + 1 /\ DOMAIN l = 1..(n + 1)
      /\ l[1] = NewEntry(f)
      /\ \A i \in 1..n : l[i + 1] = p_reass_list[i]
  BY <1>2, <1>3, LenProperties
<1> HIDE DEF l
<1>5. \A i \in DOMAIN l : i = 1 \/ (i - 1 \in 1..n /\ l[i] = p_reass_list[i - 1])
  BY <1>2, <1>4
<1>6. \A i \in 1..n : i + 1 \in DOMAIN l
  BY <1>2, <1>4
<1>7. \A x : x \in Waiting(l) => x \in Waiting(p_reass_list)
  BY <1>1, <1>2, <1>4, <1>5 DEF Waiting
<1>8. \A x : x \in Waiting(p_reass_list) => x \in Waiting(l)
  BY <1>2, <1>4, <1>6 DEF Waiting
<1> QED
  BY <1>7, <1>8 DEF l

\* Inserting a fragment corrupts the list or keeps the count right.
LEMMA InsertCounted ==
  ASSUME Inv, Counted, ~Corrupt, NEW f, IsSent(f), ~Dropped(f),
         NEW l, NEW k, Ready(l, k, f), Waiting(l) = Waiting(p_reass_list),
         Insert(l, k, f)
  PROVE  Counted'
<1> DEFINE m == WithFragment(l, k, f)
           e == l[k]
           n == Len(e.p)
           g == g_reass_pbuf_cunt
           W == Waiting(l)
<1>1. /\ IsFiniteSet(W) /\ g = Cardinality(W) /\ g \in Nat /\ g <= MaxPbufs
      /\ ~(g + 1 > MaxPbufs) /\ MaxPbufs \in 1..255
  BY FS_CardinalityType, LimitsAssumption DEF Counted, Dropped
<1>2. CASE Reject
  BY <1>2, <1>1 DEF Reject, Counted
<1>3. CASE GoesBehind(l[k].p, f)
           /\ (Store(l, k, f) \/ StoreAndFree(l, k, f) \/ Finish(l, k, f))
  <2>1. /\ DOMAIN m = DOMAIN l /\ m \in Seq(Entry)
        /\ m[k].dg = e.dg
        /\ \A i \in DOMAIN l : i # k => m[i] = l[i]
        /\ Pbufs(m[k]) = Pbufs(e) \cup {Id(f)}
    <3>0. GoesBehind(l[k].p, f)
      BY <1>3
    <3>1. DOMAIN m = DOMAIN l /\ m \in Seq(Entry)
      BY <3>0, LinkedEntry, SMTT(30)
    <3>2. m[k].dg = e.dg
      BY <3>0, LinkedEntry, SMTT(30)
    <3>3. \A i \in DOMAIN l : i # k => m[i] = l[i]
      BY <3>0, LinkedEntry, SMTT(30)
    <3>4. Pbufs(m[k]) = Pbufs(e) \cup {Id(f)}
      BY <3>0, LinkedEntry, ZenonT(60)
    <3> HIDE DEF m
    <3> QED
      BY <3>1, <3>2, <3>3, <3>4
  <2>2. /\ e.dg = f.dg /\ e \in Entry /\ n \in Nat
        /\ f.frag = e.offset + n + 1
    BY <1>3, NextOfEntry
  <2>3. AllOfList(l) /\ k \in DOMAIN l /\ Sound(e)
    BY DEF Ready, AllOfList, Apart, Range
  <2>4. /\ IsFiniteSet(Pbufs(e)) /\ Cardinality(Pbufs(e)) = n
        /\ Pbufs(e) = {<<e.dg, e.offset + i>> : i \in 1..n}
    BY <2>2, <2>3, PbufsOfEntry
  <2>5. Id(f) \notin W
    <3>1. Id(f) \notin Pbufs(e)
      <4>1. ASSUME NEW i \in 1..n PROVE e.offset + i # e.offset + n + 1
        <5>1. e.offset \in Nat
          BY <2>2 DEF Entry
        <5> HIDE DEF e, n
        <5> QED
          BY <2>2, <5>1
      <4> QED
        BY <2>2, <2>4, <4>1 DEF Id
    <3>2. ASSUME NEW i \in DOMAIN l, i # k PROVE Id(f) \notin Pbufs(l[i])
      <4>1. l[i] \in Entry /\ Sound(l[i]) /\ l[i].dg # e.dg
        BY <2>3, <3>2 DEF AllOfList, Apart
      <4>2. Pbufs(l[i]) = {<<l[i].dg, l[i].offset + j>> : j \in 1..Len(l[i].p)}
        BY <4>1, PbufsOfEntry
      <4> QED
        BY <2>2, <4>1, <4>2 DEF Id
    <3> QED
      BY <3>1, <3>2 DEF Waiting
  <2> HIDE DEF m
  <2>6. Waiting(m) = W \cup {Id(f)}
    <3>1. \A i \in DOMAIN l :
            Pbufs(m[i]) = IF i = k THEN Pbufs(l[i]) \cup {Id(f)} ELSE Pbufs(l[i])
      BY <2>1
    <3>2. \A x : x \in Waiting(m) => x \in W \cup {Id(f)}
      BY <2>1, <3>1 DEF Waiting
    <3>3. \A x \in W : x \in Waiting(m)
      BY <2>1, <3>1 DEF Waiting
    <3>4. Id(f) \in Waiting(m)
      BY <2>1, <2>3 DEF Waiting
    <3> HIDE DEF W
    <3> QED
      BY <3>2, <3>3, <3>4
  <2>7. CASE Store(l, k, f)
    <3>1. p_reass_list' = m /\ g' = (g + 1) % ByteMod
      BY <2>7 DEF Store, m
    <3>2. g' = g + 1
      <4>1. \A i \in 0..255 : i % 256 = i
        OBVIOUS
      <4>2. g + 1 \in 0..255
        BY <1>1
      <4> QED
        BY <3>1, <4>1, <4>2 DEF ByteMod
    <3>3. IsFiniteSet(Waiting(m)) /\ Cardinality(Waiting(m)) = g + 1
      <4> HIDE DEF W, g
      <4> QED
        BY <1>1, <2>5, <2>6, FS_AddElement
    <3> QED
      BY <1>1, <3>1, <3>2, <3>3 DEF Counted
  <2>8. CASE StoreAndFree(l, k, f)
    <3>1. p_reass_list' = m /\ Id(f) \notin heap'
      BY <2>8 DEF StoreAndFree, m
    <3>2. Id(f) \in Objects(m[k]) /\ m[k] \in Range(m)
      BY <2>1, <2>3 DEF Objects, Range
    <3>3. Id(f) \in Linked'
      BY <3>1, <3>2 DEF Linked
    <3> QED
      BY <3>1, <3>3 DEF Counted, Corrupt
  <2>9. CASE Finish(l, k, f) /\ k # 1
    <3>1. p_reass_list' = m /\ heap' = heap \ Objects(e)
      BY <2>9 DEF Finish, Unlinked, m
    <3>2. EntryId(m[k]) = EntryId(e) /\ EntryId(e) \notin heap'
      BY <2>1, <3>1 DEF EntryId, Objects
    <3>3. EntryId(m[k]) \in Objects(m[k]) /\ m[k] \in Range(m)
      BY <2>1, <2>3 DEF Objects, Range
    <3>4. EntryId(m[k]) \in Linked'
      BY <3>1, <3>3 DEF Linked
    <3> QED
      BY <3>2, <3>4 DEF Counted, Corrupt
  <2>10. CASE Finish(l, k, f) /\ k = 1
    <3>1. /\ p_reass_list' = Tail(m)
          /\ g' = (g + 1 + ByteMod - (n + 1)) % ByteMod
      BY <2>10 DEF Finish, Unlinked, Balance, m
    <3>2. Pbufs(e) \subseteq W
      BY <2>3 DEF Waiting
    <3>3. n <= g
      <4>1. Pbufs(e) \in SUBSET W
        BY <3>2
      <4> HIDE DEF W, e, n, g
      <4> QED
        BY <1>1, <2>4, <4>1, FS_Subset
    <3>4. g' = g - n
      <4>1. \A a \in 0..255 : (a + 256) % 256 = a
        OBVIOUS
      <4>2. g - n \in 0..255 /\ g + 1 + 256 - (n + 1) = (g - n) + 256
        <5> HIDE DEF g, n
        <5> QED
          BY <1>1, <2>2, <3>3
      <4> QED
        BY <3>1, <4>1, <4>2 DEF ByteMod
    <3>5. /\ Len(m) \in Nat /\ DOMAIN m = 1..Len(m) /\ m # <<>>
          /\ DOMAIN Tail(m) = 1..(Len(m) - 1)
          /\ \A i \in 1..(Len(m) - 1) : Tail(m)[i] = m[i + 1]
      <4>1. Len(m) \in Nat /\ DOMAIN m = 1..Len(m) /\ m # <<>>
        BY <2>1, <2>3, LenProperties
      <4>2. /\ Tail(m) \in Seq(Entry) /\ Len(Tail(m)) = Len(m) - 1
            /\ \A i \in 1..(Len(m) - 1) : Tail(m)[i] = m[i + 1]
        BY <2>1, <4>1, HeadTailProperties
      <4>3. DOMAIN Tail(m) = 1..(Len(m) - 1)
        BY <4>2, LenProperties
      <4> QED
        BY <4>1, <4>2, <4>3
    <3>6. \A x : x \in Waiting(Tail(m)) <=>
                  \E i \in DOMAIN l : i # k /\ x \in Pbufs(l[i])
      <4>1. \A i \in DOMAIN Tail(m) :
              i + 1 \in DOMAIN l /\ i + 1 # k /\ Tail(m)[i] = l[i + 1]
        BY <2>1, <2>10, <3>5
      <4>2. \A i \in DOMAIN l : i # k =>
              i - 1 \in DOMAIN Tail(m) /\ Tail(m)[i - 1] = l[i]
        BY <2>1, <2>10, <3>5
      <4> QED
        BY <4>1, <4>2 DEF Waiting
    <3>7. Waiting(Tail(m)) = W \ Pbufs(e)
      <4>1. \A i \in DOMAIN l : i # k => Pbufs(l[i]) \cap Pbufs(e) = {}
        BY <2>3, PbufsApart
      <4>2. \A x : x \in Waiting(Tail(m)) <=> x \in W /\ x \notin Pbufs(e)
        BY <2>3, <3>6, <4>1 DEF Waiting
      <4> HIDE DEF W, e
      <4> QED
        BY <4>2
    <3>8. /\ IsFiniteSet(Waiting(Tail(m)))
          /\ Cardinality(Waiting(Tail(m))) = g - n
      <4> DEFINE P == Pbufs(e)
      <4>1. W \cap P = P /\ Waiting(Tail(m)) = W \ P /\ Cardinality(P) = n
        BY <2>4, <3>2, <3>7
      <4> HIDE DEF W, g, n, P
      <4>2. IsFiniteSet(W \ P) /\ Cardinality(W \ P) = Cardinality(W) - Cardinality(W \cap P)
        BY <1>1, FS_Difference
      <4> QED
        BY <1>1, <4>1, <4>2
    <3> QED
      BY <1>1, <2>2, <3>1, <3>4, <3>8 DEF Counted
  <2> QED
    BY <1>3, <2>7, <2>8, <2>9, <2>10
<1> QED
  BY <1>2, <1>3 DEF Insert

LEMMA ReassCounted ==
  ASSUME Inv, Counted, ~Corrupt, NEW f, IsSent(f), packet_reass(f)
  PROVE  Counted'
<1>1. CASE Drop(f)
  BY <1>1 DEF Drop, Counted
<1>2. ASSUME ~Dropped(f), NEW k \in DOMAIN p_reass_list, IsEntry(k, f),
             Insert(p_reass_list, k, f)
      PROVE  Counted'
  BY <1>2, ReadyFound, InsertCounted
<1>3. ASSUME ~Dropped(f), ~HasEntry(f),
             Insert(<<NewEntry(f)>> \o p_reass_list, 1, f)
      PROVE  Counted'
  BY <1>3, ReadyNew, WaitingNew, InsertCounted
<1> QED
  BY <1>1, <1>2, <1>3 DEF packet_reass

LEMMA NextCounted == IInv /\ Counted /\ [Next]_rvars => Counted'
<1> SUFFICES ASSUME IInv, Counted, [Next]_rvars
             PROVE  Counted'
  OBVIOUS
<1>1. ASSUME p_reass_list' = p_reass_list, heap' = heap, crashed' = crashed,
             g_reass_pbuf_cunt' = g_reass_pbuf_cunt
      PROVE  Counted'
  BY <1>1 DEF Counted, Corrupt, Linked
<1>2. ASSUME NEW s \in Src, NEW i \in 1..sender[s].shape.frags,
             sender[s].seq > 0, ~Corrupt, packet_reass(FragmentOf(Sending(s), i))
      PROVE  Counted'
  BY <1>2, ReassCounted DEF IInv, IsSent
<1>3. \A s \in Src : /\ sender[s].shape.frags \in Nat
                      /\ sender[s].next \in Nat \ {0}
                      /\ sender[s].next <= sender[s].shape.frags + 1
  <2>1. \A s \in Src : sender[s].shape \in Shapes /\ sender[s].next \in Nat \ {0}
    BY DEF IInv, Inv, TypeOK
  <2> QED
    BY <2>1, ShapeType DEF IInv, InRange
<1>4. ASSUME NEW s \in Src, Arrive(s)
      PROVE  Counted'
  BY <1>2, <1>3, <1>4 DEF Arrive, MoreToSend, NextFragment
<1>5. ASSUME NEW s \in Src, Repeat(s)
      PROVE  Counted'
  <2>1. PICK i \in 1..(sender[s].next - 1) :
          packet_reass(FragmentOf(Sending(s), i))
    BY <1>5 DEF Repeat
  <2>2. i \in 1..sender[s].shape.frags
    BY <1>3
  <2> QED
    BY <1>2, <1>5, <2>1, <2>2 DEF Repeat
<1>6. CASE Tick
  BY <1>6, TickCounted DEF Tick, IInv
<1> QED
  BY <1>1, <1>4, <1>5, <1>6 DEF Next, NewDatagram, Skip, rvars

LEMMA CountedInit == Init => Counted
<1> SUFFICES ASSUME Init PROVE Counted
  OBVIOUS
<1>1. Waiting(p_reass_list) = {}
  BY DEF Init, Waiting
<1> QED
  BY <1>1, FS_EmptySet, LimitsAssumption DEF Init, Counted

\* g_reass_pbuf_cunt is the number of pbufs that wait for reassembly and never
\* exceeds the limit, whatever arrives, is completed and times out: the guard of
\* the subtraction of the timer is never needed, and the uint8_t does not wrap
\* (packet_reass, free_reass_data_item_and_pbuf, reass_data_validate_finished).
THEOREM CounterIsRight == Spec => []CountMatches
<1>1. Counted => CountMatches
  <2>1. Waiting(p_reass_list) = UNION {Pbufs(e) : e \in Range(p_reass_list)}
    BY DEF Waiting, Range
  <2> QED
    BY <2>1 DEF Counted, CountMatches
<1> QED
  BY <1>1, CountedInit, NextCounted, Inductive, PTL DEF Spec

-----------------------------------------------------------------------------
(***************************************************************************)
(* A source that nothing disturbs.                                         *)
(***************************************************************************)

\* There is one source, its fragments arrive once and in time, and none is
\* empty.
OneQuietSource ==
  /\ Disturbances = {}
  /\ \A s, t \in Src : s = t
  /\ \A sh \in Shapes : sh.tail = 1

\* The fragments that have come are in the first entry; the last one completes
\* the datagram.
Collected(s) ==
  /\ \A i \in DOMAIN delivered : delivered[i].dg.seq <= sender[s].seq
  /\ sender[s].late => MoreToSend(s)
  /\ sender[s].seq > 0 /\ ~sender[s].late =>
       /\ sender[s].next = 1 =>
            /\ Deliveries(Sending(s)) = {}
            /\ \A e \in Range(p_reass_list) : e.dg.seq < sender[s].seq
       /\ sender[s].next > 1 /\ MoreToSend(s) =>
            /\ Deliveries(Sending(s)) = {}
            /\ p_reass_list # <<>>
            /\ p_reass_list[1].dg = Sending(s)
            /\ p_reass_list[1].offset = 0
            /\ Len(p_reass_list[1].p) = sender[s].next - 1
       /\ ~MoreToSend(s) => Cardinality(Deliveries(Sending(s))) = 1

LEMMA WithFragmentEntry ==
  ASSUME NEW l \in Seq(Entry), NEW k \in DOMAIN l, NEW f \in Fragment
  PROVE  LET e == WithFragment(l, k, f)[k]
         IN  /\ e.dg = l[k].dg /\ e.offset = l[k].offset
             /\ e.p = Append(l[k].p, f)
             /\ Len(l[k].p) \in Nat /\ Len(e.p) = Len(l[k].p) + 1
             /\ DOMAIN WithFragment(l, k, f) = DOMAIN l
<1>1. l[k] \in Entry /\ l[k].p \in Seq(Fragment)
  <2>1. l[k] \in Entry
    OBVIOUS
  <2> QED
    BY <2>1 DEF Entry
<1>2. /\ Len(l[k].p) \in Nat
      /\ Len(Append(l[k].p, f)) = Len(l[k].p) + 1
  BY <1>1, AppendProperties, LenProperties
<1> DEFINE q == Append(l[k].p, f)
<1>3. WithFragment(l, k, f)[k] = [l[k] EXCEPT !.p = q]
  BY DEF WithFragment
<1>4. DOMAIN WithFragment(l, k, f) = DOMAIN l
  BY DEF WithFragment
<1> HIDE DEF q
<1>5. LET e == [l[k] EXCEPT !.p = q]
      IN  e.dg = l[k].dg /\ e.offset = l[k].offset /\ e.p = q
  BY <1>1 DEF Entry
<1> QED
  BY <1>2, <1>3, <1>4, <1>5 DEF q

\* What the next fragment of the source is.
LEMMA NextIsSent ==
  ASSUME OneQuietSource, IInv, NEW s \in Src, MoreToSend(s)
  PROVE  LET f == NextFragment(s)
         IN  /\ IsSent(f) /\ f \in Fragment /\ f.dg = Sending(s)
             /\ Sending(s) \in Datagram
             /\ sender[s].next \in Nat \ {0} /\ sender[s].shape.frags \in Nat
             /\ sender[s].shape.frags > 1
             /\ sender[s].next <= sender[s].shape.frags
             /\ f.start = sender[s].next - 1 /\ f.end = sender[s].next
             /\ f.last <=> sender[s].next = sender[s].shape.frags
             /\ f.dg.seq = sender[s].seq /\ f.dg.src = s
<1>1. /\ sender[s].seq \in Nat /\ sender[s].seq > 0
      /\ sender[s].shape \in Shapes /\ sender[s].next \in Nat \ {0}
      /\ sender[s].next <= sender[s].shape.frags
  BY DEF IInv, Inv, TypeOK, MoreToSend
<1>2. /\ sender[s].shape.frags \in Nat /\ sender[s].shape.frags > 1
      /\ sender[s].shape.tail = 1
  BY <1>1, ShapeType DEF OneQuietSource
<1>3. /\ Sending(s) \in Datagram
      /\ Sending(s).seq = sender[s].seq /\ Sending(s).src = s
      /\ Sending(s).shape = sender[s].shape
  BY <1>1 DEF Sending, Datagram
<1>4. IsSent(NextFragment(s))
  <2>1. sender[s].next \in 1..sender[s].shape.frags
    BY <1>1, <1>2
  <2> QED
    BY <1>1, <2>1 DEF IsSent, NextFragment
<1>5. NextFragment(s).end = sender[s].next
  BY <1>1, <1>2, <1>3 DEF NextFragment, FragmentOf
<1>6. /\ NextFragment(s) \in Fragment /\ NextFragment(s).dg = Sending(s)
      /\ NextFragment(s).start = sender[s].next - 1
      /\ NextFragment(s).last <=> sender[s].next = sender[s].shape.frags
  BY <1>1, <1>3, FragmentType DEF NextFragment
<1> QED
  BY <1>1, <1>2, <1>3, <1>4, <1>5, <1>6

\* The first fragment of a datagram opens an entry at the head of the list.
LEMMA FirstArrives ==
  ASSUME OneQuietSource, IInv, NEW s \in Src, Collected(s), Arrive(s),
         g_reass_pbuf_cunt < MaxPbufs, g_reass_pbuf_cunt \in Nat,
         sender[s].next = 1
  PROVE  /\ delivered' = delivered /\ Deliveries(Sending(s)) = {}
         /\ p_reass_list' # <<>>
         /\ p_reass_list'[1].dg = Sending(s)
         /\ p_reass_list'[1].offset = 0 /\ Len(p_reass_list'[1].p) = 1
<1> DEFINE f == NextFragment(s)
           l == <<NewEntry(f)>> \o p_reass_list
<1>1. /\ MoreToSend(s) /\ ~sender[s].late /\ packet_reass(f)
  BY DEF Arrive, OneQuietSource
<1>2. /\ IsSent(f) /\ f \in Fragment /\ f.dg = Sending(s)
      /\ sender[s].shape.frags > 1
      /\ f.start = 0 /\ f.end = 1 /\ ~f.last
      /\ f.dg.seq = sender[s].seq /\ sender[s].seq \in Nat
  <2>1. sender[s].seq \in Nat
    BY DEF IInv, Inv, TypeOK
  <2> QED
    BY <1>1, <2>1, NextIsSent
<1> HIDE DEF f
<1>3. /\ Deliveries(Sending(s)) = {}
      /\ \A e \in Range(p_reass_list) : e.dg.seq < sender[s].seq
  BY <1>1 DEF Collected, MoreToSend
<1>4. ~HasEntry(f)
  <2>1. \A k \in DOMAIN p_reass_list : p_reass_list[k].dg.seq < sender[s].seq
    BY <1>3 DEF Range
  <2> QED
    BY <1>2, <2>1 DEF HasEntry, SameDatagram
<1>5. ~Dropped(f)
  <2>1. ~(g_reass_pbuf_cunt + 1 > MaxPbufs)
    BY LimitsAssumption
  <2>2. \A k \in DOMAIN p_reass_list : ~IsEntry(k, f)
    BY <1>4 DEF HasEntry, IsEntry
  <2> QED
    BY <1>2, <2>1, <2>2 DEF Dropped
<1>6. Insert(l, 1, f)
  BY <1>1, <1>4, <1>5 DEF packet_reass, Drop, IsEntry, HasEntry, OneQuietSource
<1>7. l \in Seq(Entry) /\ 1 \in DOMAIN l
  BY <1>2, <1>4, ReadyNew DEF IInv, Ready
<1>8. l[1] = NewEntry(f)
  <2>1. p_reass_list \in Seq(Entry)
    BY DEF IInv, Inv, TypeOK
  <2>2. NewEntry(f) \in Entry
    BY <1>2, LimitsAssumption DEF NewEntry, Entry, Fragment
  <2> QED
    BY <2>1, <2>2
<1>9. l[1].p = <<>> /\ l[1].offset = 0 /\ l[1].dg = Sending(s)
  BY <1>2, <1>8 DEF NewEntry
<1> HIDE DEF l
<1>10. Store(l, 1, f)
  BY <1>2, <1>6, <1>9
     DEF Insert, StoreAndFree, Finish, GoesBehind, EndOf
<1>11. p_reass_list' = WithFragment(l, 1, f) /\ delivered' = delivered
  BY <1>10 DEF Store
<1>12. LET e == WithFragment(l, 1, f)[1]
       IN  e.dg = Sending(s) /\ e.offset = 0 /\ Len(e.p) = Len(<<>>) + 1
  BY <1>2, <1>7, <1>9, WithFragmentEntry
<1>13. WithFragment(l, 1, f) # <<>>
  <2>1. 1 \in DOMAIN WithFragment(l, 1, f)
    BY <1>2, <1>7, WithFragmentEntry
  <2>2. DOMAIN (<<>>) = {}
    OBVIOUS
  <2> QED
    BY <2>1, <2>2
<1>14. Len(<<>>) + 1 = 1
  OBVIOUS
<1> QED
  BY <1>3, <1>11, <1>12, <1>13, <1>14

\* Those behind it go into that entry.
LEMMA NextArrives ==
  ASSUME OneQuietSource, IInv, NEW s \in Src, Collected(s), Arrive(s),
         g_reass_pbuf_cunt < MaxPbufs, g_reass_pbuf_cunt \in Nat,
         sender[s].next > 1
  PROVE  LET f == NextFragment(s)
             l == p_reass_list
         IN  /\ l \in Seq(Entry) /\ 1 \in DOMAIN l
             /\ l[1].dg = Sending(s) /\ l[1].offset = 0
             /\ Len(l[1].p) = sender[s].next - 1
             /\ Deliveries(Sending(s)) = {}
             /\ f.last => ~HeadMissing(l[1].p, f)
             /\ Store(l, 1, f) \/ Finish(l, 1, f)
<1> DEFINE f == NextFragment(s)
           l == p_reass_list
           n == sender[s].next
<1>1. /\ MoreToSend(s) /\ ~sender[s].late /\ packet_reass(f)
  BY DEF Arrive, OneQuietSource
<1>2. /\ IsSent(f) /\ f \in Fragment /\ f.dg = Sending(s)
      /\ n \in Nat /\ Sending(s) \in Datagram
      /\ f.start = n - 1 /\ f.end = n
      /\ f.dg.seq = sender[s].seq /\ f.dg.src = s
  BY <1>1, NextIsSent
<1>3. /\ Deliveries(Sending(s)) = {} /\ l # <<>>
      /\ l[1].dg = Sending(s) /\ l[1].offset = 0
      /\ Len(l[1].p) = n - 1
  BY <1>1 DEF Collected, MoreToSend
<1>4. /\ l \in Seq(Entry) /\ 1 \in DOMAIN l
      /\ DOMAIN l = 1..Len(l) /\ Len(l) \in Nat
  BY <1>3, LenProperties DEF IInv, Inv, TypeOK
<1> HIDE DEF f, l, n
<1>5. SameDatagram(l[1], f)
  BY <1>2, <1>3 DEF SameDatagram
<1>6. /\ IsEntry(1, f) /\ HasEntry(f)
      /\ \A k \in DOMAIN l : IsEntry(k, f) => k = 1
  <2>1. IsEntry(1, f) /\ HasEntry(f)
    BY <1>4, <1>5 DEF IsEntry, HasEntry, l
  <2>2. ASSUME NEW k \in DOMAIN l, IsEntry(k, f), k # 1 PROVE FALSE
    <3>1. 1 \in 1..(k - 1)
      BY <1>4, <2>2
    <3> QED
      BY <1>5, <2>2, <3>1 DEF IsEntry, l
  <2> QED
    BY <2>1, <2>2
<1>7. ~Dropped(f)
  <2>1. ~(g_reass_pbuf_cunt + 1 > MaxPbufs)
    BY LimitsAssumption
  <2>2. f.end # f.start /\ f.start # 0
    BY <1>2 DEF n
  <2> QED
    BY <2>1, <2>2 DEF Dropped
<1>8. Insert(l, 1, f)
  BY <1>1, <1>6, <1>7 DEF packet_reass, Drop, IsEntry, OneQuietSource, l, f
<1>9. /\ l[1].p # <<>> /\ 1 \in DOMAIN l[1].p /\ n - 1 \in DOMAIN l[1].p
      /\ Sound(l[1])
  <2>0. l[1] \in Entry
    BY <1>4
  <2>1. l[1].p \in Seq(Fragment)
    BY <2>0 DEF Entry
  <2>2. DOMAIN l[1].p = 1..(n - 1)
    BY <1>3, <2>1, LenProperties
  <2>3. n - 1 \in 1..(n - 1) /\ 1 \in 1..(n - 1)
    BY <1>2 DEF n
  <2>4. Sound(l[1])
    BY <1>4 DEF IInv, Inv, AllSound, Range, l
  <2> QED
    BY <2>2, <2>3, <2>4
<1>10. EndOf(l[1].p, f) = f.start
  <2>1. l[1].p[n - 1].end = 0 + (n - 1)
    BY <1>3, <1>9 DEF Sound
  <2> QED
    BY <1>2, <1>3, <1>9, <2>1 DEF EndOf
<1>11. ~HeadMissing(l[1].p, f)
  <2>1. l[1].p[1] = FragmentOf(Sending(s), 0 + 1)
    BY <1>3, <1>9 DEF Sound
  <2>2. l[1].p[1].start = 0
    BY <1>2, <2>1, FragmentType
  <2> QED
    BY <1>9, <2>2 DEF HeadMissing
<1>12. Store(l, 1, f) \/ Finish(l, 1, f)
  BY <1>8, <1>10, <1>11 DEF Insert, GoesBehind, StoreAndFree
<1> QED
  BY <1>3, <1>4, <1>11, <1>12 DEF f, l, n

LEMMA ArriveCollected ==
  ASSUME OneQuietSource, IInv, IInv', NEW s \in Src, Collected(s), Arrive(s),
         g_reass_pbuf_cunt < MaxPbufs, g_reass_pbuf_cunt \in Nat
  PROVE  Collected(s)'
<1> DEFINE f == NextFragment(s)
           n == sender[s].next
<1>1. /\ MoreToSend(s) /\ ~sender[s].late
      /\ sender' = [sender EXCEPT ![s].next = @ + 1]
  BY DEF Arrive, OneQuietSource, Advance
<1>2. /\ f.dg = Sending(s) /\ f \in Fragment
      /\ n \in Nat \ {0} /\ sender[s].shape.frags \in Nat
      /\ sender[s].shape.frags > 1 /\ n <= sender[s].shape.frags
      /\ f.last <=> n = sender[s].shape.frags
  BY <1>1, NextIsSent
<1>3. /\ sender'[s].seq = sender[s].seq /\ sender'[s].shape = sender[s].shape
      /\ sender'[s].next = n + 1 /\ ~sender'[s].late
  BY <1>1 DEF IInv, Inv, TypeOK
<1>4. /\ Sending(s)' = Sending(s)
      /\ MoreToSend(s)' <=> n + 1 <= sender[s].shape.frags
  BY <1>1, <1>3 DEF Sending, MoreToSend
<1>5. n + 1 # 1 /\ (n + 1) - 1 = n
  BY <1>2
<1>6. delivered \in Seq([dg : Datagram, parts : Seq(Fragment)])
      /\ \A i \in DOMAIN delivered : delivered[i].dg.seq <= sender[s].seq
  BY DEF IInv, Inv, TypeOK, Collected
<1> HIDE DEF f, n
<1>7. CASE n = 1
  <2>1. /\ delivered' = delivered /\ Deliveries(Sending(s)) = {}
        /\ p_reass_list' # <<>>
        /\ p_reass_list'[1].dg = Sending(s)
        /\ p_reass_list'[1].offset = 0 /\ Len(p_reass_list'[1].p) = 1
    BY <1>7, FirstArrives DEF n
  <2>2. Deliveries(Sending(s))' = Deliveries(Sending(s))
    BY <1>4, <2>1 DEF Deliveries
  <2>3. MoreToSend(s)'
    BY <1>2, <1>4, <1>7
  <2> QED
    BY <1>3, <1>4, <1>5, <1>6, <1>7, <2>1, <2>2, <2>3 DEF Collected
<1>8. CASE n > 1
  <2> DEFINE l == p_reass_list
  <2>1. /\ l \in Seq(Entry) /\ 1 \in DOMAIN l
        /\ l[1].dg = Sending(s) /\ l[1].offset = 0
        /\ Len(l[1].p) = n - 1
        /\ Deliveries(Sending(s)) = {}
        /\ f.last => ~HeadMissing(l[1].p, f)
        /\ Store(l, 1, f) \/ Finish(l, 1, f)
    BY <1>8, NextArrives DEF n, f
  <2> HIDE DEF l
  <2>2. CASE Store(l, 1, f)
    <3>1. /\ p_reass_list' = WithFragment(l, 1, f) /\ delivered' = delivered
          /\ ~f.last
      BY <2>2 DEF Store
    <3>2. LET e == WithFragment(l, 1, f)[1]
          IN  /\ e.dg = Sending(s) /\ e.offset = 0 /\ Len(e.p) = (n - 1) + 1
              /\ 1 \in DOMAIN WithFragment(l, 1, f)
      BY <1>2, <2>1, WithFragmentEntry
    <3>3. WithFragment(l, 1, f) # <<>>
      <4>1. DOMAIN (<<>>) = {}
        OBVIOUS
      <4> QED
        BY <3>2, <4>1
    <3>4. Deliveries(Sending(s))' = Deliveries(Sending(s))
      BY <1>4, <3>1 DEF Deliveries
    <3>5. MoreToSend(s)' /\ (n - 1) + 1 = (n + 1) - 1
      BY <1>2, <1>4, <3>1
    <3> QED
      BY <1>3, <1>4, <1>5, <1>6, <2>1, <3>1, <3>2, <3>3, <3>4, <3>5
      DEF Collected
  <2>3. CASE Finish(l, 1, f)
    <3> DEFINE d == [dg |-> l[1].dg, parts |-> Append(l[1].p, f)]
               N == Len(delivered)
    <3>1. f.last /\ delivered' = Append(delivered, d)
      BY <2>3 DEF Finish, OneQuietSource
    <3>2. /\ N \in Nat /\ DOMAIN delivered = 1..N
          /\ DOMAIN delivered' = 1..(N + 1)
          /\ \A i \in 1..N : delivered'[i] = delivered[i]
          /\ delivered'[N + 1].dg = Sending(s)
      <4>1. DOMAIN delivered = 1..N /\ N \in Nat
        BY <1>6, LenProperties
      <4>2. delivered' \in Seq([dg : Datagram, parts : Seq(Fragment)])
        BY DEF IInv, Inv, TypeOK
      <4>3. d.dg = Sending(s)
        BY <2>1
      <4> HIDE DEF d
      <4>4. /\ Len(delivered') = N + 1
            /\ \A i \in 1..N : delivered'[i] = delivered[i]
            /\ delivered'[N + 1] = d
        BY <1>6, <3>1, <4>1
      <4> QED
        BY <4>1, <4>2, <4>3, <4>4, LenProperties
    <3> HIDE DEF N
    <3>3. ~MoreToSend(s)'
      BY <1>2, <1>4, <3>1
    <3>4. Deliveries(Sending(s))' = {N + 1}
      <4>1. \A i \in DOMAIN delivered : delivered[i].dg # Sending(s)
        BY <2>1 DEF Deliveries
      <4>2. \A i \in 1..(N + 1) : delivered'[i].dg = Sending(s) <=> i = N + 1
        BY <3>2, <4>1
      <4>3. Deliveries(Sending(s))' =
              {i \in DOMAIN delivered' : delivered'[i].dg = Sending(s)}
        BY <1>4 DEF Deliveries
      <4> QED
        BY <3>2, <4>2, <4>3
    <3>5. Cardinality(Deliveries(Sending(s)))' = 1
      BY <3>4, FS_Singleton
    <3>6. \A i \in DOMAIN delivered' : delivered'[i].dg.seq <= sender[s].seq
      <4>1. Sending(s).seq = sender[s].seq /\ sender[s].seq \in Nat
        BY DEF Sending, IInv, Inv, TypeOK
      <4> QED
        BY <1>6, <3>2, <4>1
    <3> QED
      BY <1>3, <1>5, <3>3, <3>5, <3>6 DEF Collected
  <2> QED
    BY <2>1, <2>2, <2>3
<1> QED
  BY <1>2, <1>7, <1>8

\* The first entry stays first as long as it is young.
LEMMA TickFirst ==
  ASSUME Inv, packet_reass_tmr, p_reass_list # <<>>, Young(p_reass_list[1])
  PROVE  p_reass_list' # <<>> /\ p_reass_list'[1] = Older(p_reass_list[1])
<1> DEFINE l == p_reass_list
           Y == YoungOnes
           c == Cardinality(Y)
<1>1. /\ l \in Seq(Entry) /\ Len(l) \in Nat /\ DOMAIN l = 1..Len(l)
      /\ 1 \in DOMAIN l
  BY LenProperties DEF Inv, TypeOK
<1>2. Y \in SUBSET DOMAIN l /\ 1 \in Y
  BY <1>1 DEF YoungOnes
<1>3. p_reass_list' = [i \in 1..c |-> Older(l[Nth(Y, i)])]
  <2>1. \A i \in 1..c : Nth(Y, i) \in DOMAIN l
    BY <1>1, <1>2, NthProperties
  <2> QED
    BY <2>1 DEF packet_reass_tmr, Keep
<1> HIDE DEF l, Y
<1>4. /\ DOMAIN Keep(l, Y) = 1..c
      /\ \A i \in 1..c : Nth(Y, i) \in Y
      /\ \A k \in Y : \E i \in 1..c : Nth(Y, i) = k
      /\ \A i, j \in 1..c : i < j <=> Nth(Y, i) < Nth(Y, j)
  <2> DEFINE D == DOMAIN Keep(l, Y)
  <2>1. D = 1..c
    BY <1>1, <1>2, KeepProperties
  <2>2. /\ \A i \in D : Nth(Y, i) \in Y
        /\ \A k \in Y : \E i \in D : Nth(Y, i) = k
        /\ \A i, j \in D : i < j <=> Nth(Y, i) < Nth(Y, j)
    BY <1>1, <1>2, KeepProperties
  <2> HIDE DEF D, c
  <2> QED
    BY <2>1, <2>2 DEF D
<1>5. PICK i \in 1..c : Nth(Y, i) = 1
  BY <1>2, <1>4
<1>6. 1 \in 1..c /\ i = 1
  <2>1. c \in Nat
    <3>1. IsFiniteSet(Y)
      <4>1. IsFiniteSet(DOMAIN l)
        <5> DEFINE m == Len(l)
        <5>1. m \in Nat /\ DOMAIN l = 1..m
          BY <1>1
        <5> HIDE DEF m
        <5> QED
          BY <5>1, FS_Interval
      <4> QED
        BY <1>2, <4>1, FS_Subset
    <3> QED
      BY <3>1, FS_CardinalityType
  <2> HIDE DEF c
  <2>2. 1 \in 1..c
    BY <1>5, <2>1
  <2>3. Nth(Y, 1) \in Nat /\ ~(Nth(Y, 1) < 1)
    BY <1>1, <1>2, <1>4, <2>2
  <2>4. ~(1 < i)
    BY <1>4, <1>5, <2>2, <2>3
  <2> QED
    BY <1>5, <2>1, <2>2, <2>4
<1>7. p_reass_list'[1] = Older(l[1])
  BY <1>3, <1>5, <1>6
<1>8. p_reass_list' # <<>>
  <2>1. DOMAIN p_reass_list' = 1..c /\ DOMAIN (<<>>) = {}
    BY <1>3
  <2> QED
    BY <1>6, <2>1
<1> QED
  BY <1>7, <1>8 DEF l

LEMMA TickCollected ==
  ASSUME IInv, NEW s \in Src, Collected(s), Tick
  PROVE  Collected(s)'
<1> DEFINE out == MoreToSend(s) /\ TimesOut(NextFragment(s))
<1>1. packet_reass_tmr /\ delivered' = delivered /\ Inv
  BY DEF Tick, packet_reass_tmr, IInv
<1>2. sender'[s] = [sender[s] EXCEPT !.late = @ \/ out]
  BY DEF Tick
<1>3. sender[s] \in [seq : Nat, shape : Shapes, next : Nat \ {0}, late : BOOLEAN]
  BY DEF IInv, Inv, TypeOK
<1>4. /\ sender'[s].seq = sender[s].seq /\ sender'[s].shape = sender[s].shape
      /\ sender'[s].next = sender[s].next
      /\ sender'[s].late <=> sender[s].late \/ out
  <2> HIDE DEF out
  <2> QED
    BY <1>2, <1>3
<1>5. /\ Sending(s)' = Sending(s) /\ (MoreToSend(s)' <=> MoreToSend(s))
      /\ Deliveries(Sending(s))' = Deliveries(Sending(s))
  <2>1. Sending(s)' = Sending(s) /\ (MoreToSend(s)' <=> MoreToSend(s))
    BY <1>4 DEF Sending, MoreToSend
  <2> QED
    BY <1>1, <2>1 DEF Deliveries
<1>6. p_reass_list \in Seq(Entry)
  BY DEF IInv, Inv, TypeOK
<1>7. ASSUME sender[s].seq > 0, ~sender'[s].late, sender[s].next = 1
      PROVE  \A e \in Range(p_reass_list') : e.dg.seq < sender[s].seq
  <2> SUFFICES ASSUME NEW i \in DOMAIN p_reass_list'
               PROVE  p_reass_list'[i].dg.seq < sender[s].seq
    BY DEF Range
  <2>1. PICK k \in YoungOnes : p_reass_list'[i] = Older(p_reass_list[k])
    BY <1>1, TickList
  <2>2. k \in DOMAIN p_reass_list /\ Young(p_reass_list[k])
    BY DEF YoungOnes
  <2>3. Older(p_reass_list[k]).dg = p_reass_list[k].dg
    BY <1>6, <2>2, OlderEntry
  <2>4. p_reass_list[k].dg.seq < sender[s].seq
    BY <1>4, <1>7, <2>2 DEF Collected, Range
  <2> QED
    BY <2>1, <2>3, <2>4
<1>8. ASSUME sender[s].seq > 0, ~sender'[s].late, sender[s].next > 1,
             MoreToSend(s)
      PROVE  /\ p_reass_list' # <<>>
             /\ p_reass_list'[1].dg = Sending(s)
             /\ p_reass_list'[1].offset = 0
             /\ Len(p_reass_list'[1].p) = sender[s].next - 1
  <2>1. /\ p_reass_list # <<>> /\ p_reass_list[1].dg = Sending(s)
        /\ p_reass_list[1].offset = 0
        /\ Len(p_reass_list[1].p) = sender[s].next - 1
    BY <1>4, <1>8 DEF Collected
  <2>2. 1 \in DOMAIN p_reass_list /\ p_reass_list[1] \in Entry
    BY <1>6, <2>1, LenProperties
  <2>3. IsEntry(1, NextFragment(s))
    <3>1. NextFragment(s).dg = Sending(s)
      BY DEF NextFragment, FragmentOf
    <3> QED
      BY <2>1, <2>2, <3>1 DEF IsEntry, SameDatagram
  <2>4. Young(p_reass_list[1])
    <3>1. p_reass_list[1].tmr \in 0..MaxAge /\ MaxAge \in Nat
      BY <2>2, LimitsAssumption DEF Entry
    <3>2. ~(p_reass_list[1].tmr >= MaxAge)
      BY <1>4, <1>8, <2>2, <2>3 DEF TimesOut
    <3> QED
      BY <3>1, <3>2 DEF Young
  <2>5. p_reass_list' # <<>> /\ p_reass_list'[1] = Older(p_reass_list[1])
    BY <1>1, <2>1, <2>4, TickFirst
  <2>6. /\ Older(p_reass_list[1]).dg = p_reass_list[1].dg
        /\ Older(p_reass_list[1]).offset = p_reass_list[1].offset
        /\ Older(p_reass_list[1]).p = p_reass_list[1].p
    BY <2>2, <2>4, OlderEntry
  <2> QED
    BY <2>1, <2>5, <2>6
<1> HIDE DEF out
<1>9. sender'[s].late => MoreToSend(s)
  BY <1>4 DEF Collected, out
<1> QED
  BY <1>1, <1>4, <1>5, <1>7, <1>8, <1>9 DEF Collected

\* A new datagram has a sequence number no entry and no delivery has.
LEMMA NewCollected ==
  ASSUME OneQuietSource, IInv, NEW s \in Src, Collected(s),
         NEW sh \in Shapes, NewDatagram(s, sh)
  PROVE  Collected(s)'
<1>1. /\ sender[s].seq \in Nat
      /\ sender'[s].seq = sender[s].seq + 1 /\ sender'[s].next = 1
      /\ sender'[s].late = FALSE /\ sender'[s].shape = sh
      /\ p_reass_list' = p_reass_list /\ delivered' = delivered
  BY DEF NewDatagram, IInv, Inv, TypeOK
<1>2. delivered \in Seq([dg : Datagram, parts : Seq(Fragment)])
      /\ p_reass_list \in Seq(Entry)
  BY DEF IInv, Inv, TypeOK
<1>3. \A i \in DOMAIN delivered : /\ delivered[i].dg.seq <= sender[s].seq
                                 /\ delivered[i].dg.seq \in Nat
  <2> TAKE i \in DOMAIN delivered
  <2> DEFINE D == [dg : Datagram, parts : Seq(Fragment)]
  <2> HIDE DEF D
  <2>0. delivered \in Seq(D)
    BY <1>2 DEF D
  <2>1. delivered[i] \in D
    BY <2>0
  <2>2. delivered[i].dg \in Datagram
    BY <2>1 DEF D
  <2>3. delivered[i].dg.seq \in Nat
    BY <2>2 DEF Datagram
  <2>4. delivered[i].dg.seq <= sender[s].seq
    BY DEF Collected
  <2> QED
    BY <2>3, <2>4
<1>4. \A e \in Range(p_reass_list) : e.dg.seq < sender[s].seq + 1
  <2> TAKE e \in Range(p_reass_list)
  <2>1. e \in Entry
    BY <1>2 DEF Range
  <2>2. e.dg.src = s /\ e.dg.seq \in Nat
    BY <2>1 DEF Entry, Datagram, OneQuietSource
  <2>3. e.dg.seq <= sender[s].seq
    BY <2>2 DEF IInv, Inv, FromSources
  <2> QED
    BY <1>1, <2>2, <2>3
<1>5. Sending(s)'.seq = sender[s].seq + 1
  BY <1>1 DEF Sending
<1>6. Deliveries(Sending(s))' = {}
  BY <1>1, <1>3, <1>5 DEF Deliveries
<1>7. MoreToSend(s)'
  <2>1. sh.frags \in Nat /\ sh.frags > 1
    BY ShapeType
  <2> QED
    BY <1>1, <2>1 DEF MoreToSend
<1>8. \A i \in DOMAIN delivered' : delivered'[i].dg.seq <= sender'[s].seq
  BY <1>1, <1>3
<1> QED
  BY <1>1, <1>4, <1>6, <1>7, <1>8 DEF Collected

LEMMA NextCollected ==
  ASSUME OneQuietSource, IInv, IInv', Counted, NEW s \in Src, Collected(s),
         [Next]_rvars, g_reass_pbuf_cunt < MaxPbufs
  PROVE  Collected(s)'
<1>1. ASSUME NEW t \in Src, NEW sh \in Shapes, NewDatagram(t, sh)
      PROVE  Collected(s)'
  BY <1>1, NewCollected DEF OneQuietSource
<1>2. ASSUME NEW t \in Src, Arrive(t) PROVE Collected(s)'
  <2>1. g_reass_pbuf_cunt \in Nat
    BY <1>2, FS_CardinalityType DEF Counted, Arrive
  <2> QED
    BY <1>2, <2>1, ArriveCollected DEF OneQuietSource
<1>3. ASSUME NEW t \in Src, Skip(t) \/ Repeat(t) PROVE Collected(s)'
  BY <1>3 DEF Skip, Repeat, OneQuietSource
<1>4. CASE UNCHANGED rvars
  BY <1>4 DEF rvars, Collected, Sending, MoreToSend, Deliveries
<1> QED
  BY <1>1, <1>2, <1>3, <1>4, TickCollected DEF Next

AllCollected == \A s \in Src : Collected(s)

\* While fewer pbufs wait than the limit, a datagram whose fragments have all
\* come once and in time has been delivered exactly once, whatever its length
\* and whichever incomplete datagrams of the source are still on the list
\* (packet_reass, packet_reass_inserte_and_validate,
\* reass_data_validate_finished).  With more than one source it need not: see
\* NoDangling.
THEOREM InTimeIsReassembled ==
  ASSUME OneQuietSource
  PROVE  Spec /\ [](g_reass_pbuf_cunt < MaxPbufs) => []Reassembled
<1>1. Init => AllCollected
  <2> SUFFICES ASSUME Init, NEW s \in Src PROVE Collected(s)
    BY DEF AllCollected
  <2>1. sender[s].seq = 0 /\ ~sender[s].late /\ delivered = <<>>
    BY DEF Init
  <2> QED
    BY <2>1 DEF Collected
<1>2. /\ IInv /\ IInv' /\ Counted /\ g_reass_pbuf_cunt < MaxPbufs
      /\ AllCollected /\ [Next]_rvars
      => AllCollected'
  BY NextCollected DEF AllCollected
<1>3. AllCollected => Reassembled
  BY DEF AllCollected, Collected, Reassembled
<1>4. Spec => []Counted
  BY CountedInit, NextCounted, Inductive, PTL DEF Spec
<1> QED
  BY <1>1, <1>2, <1>3, <1>4, Inductive, PTL DEF Spec

=============================================================================

----------------------------- MODULE PbufProofs -----------------------------
(***************************************************************************)
(* Proofs about chains of pbufs, for every number of pbufs and all lengths:*)
(* reference counts are the numbers of pointers, no pointer dangles, what  *)
(* is allocated can be reached, and pbuf_dechain tells what it has done.   *)
(***************************************************************************)
EXTENDS PbufChains, ChainOpsProofs

\* A pbuf is no longer than its chain.
LenWithin == \A p \in Allocated : mem[p].len <= mem[p].tot_len

Inv == TypeOK /\ NothingDangles /\ RefsCounted /\ InBounds /\ LenWithin

-----------------------------------------------------------------------------

LEMMA Constants ==
  /\ IsFiniteSet(Pbuf) /\ Null \notin Pbuf /\ Cardinality(Pbuf) \in Nat
  /\ MaxHeld \in Nat \ {0} /\ MaxHeld + Cardinality(Pbuf) < 255
  /\ WordMod \in Nat \ {0} /\ Alignment \in Nat \ {0}
  /\ Offsets \subseteq Nat /\ Lens \subseteq Nat /\ Hdrs \subseteq Nat \ {0}
BY PbufAssumption, LengthAssumption, RefAssumption, FS_CardinalityType

LEMMA AlignedType ==
  ASSUME NEW n \in Nat
  PROVE  Aligned(n) \in Nat /\ n <= Aligned(n)
<1> DEFINE x == (Alignment - (n % Alignment)) % Alignment
<1>1. n % Alignment \in Nat /\ n % Alignment < Alignment
  BY Constants
<1>2. x \in Nat
  BY <1>1, Constants
<1>3. Aligned(n) = n + x
  BY DEF Aligned
<1> HIDE DEF x
<1> QED
  BY <1>2, <1>3

\* The pbufs in front of p are finitely many.
LEMMA BeforeFinite ==
  ASSUME Inv, NEW p
  PROVE  /\ Before(p) \subseteq Pbuf /\ IsFiniteSet(Before(p))
         /\ Cardinality(Before(p)) \in Nat
         /\ Cardinality(Before(p)) <= Cardinality(Pbuf)
<1>1. Before(p) \in SUBSET Pbuf
  BY DEF Inv, TypeOK, Before
<1> QED
  BY <1>1, Constants, FS_Subset, FS_CardinalityType

\* A pointer more or less in front of p.
LEMMA BeforeGrows ==
  ASSUME Inv, NEW p, NEW q \in Pbuf, q \notin Before(p), Before(p)' = Before(p) \cup {q}
  PROVE  /\ Cardinality(Before(p)') = Cardinality(Before(p)) + 1
         /\ Cardinality(Before(p)') <= Cardinality(Pbuf)
<1>1. Before(p) \cup {q} \in SUBSET Pbuf
  BY BeforeFinite
<1> QED
  BY <1>1, BeforeFinite, FS_AddElement, FS_Subset, Constants

LEMMA BeforeShrinks ==
  ASSUME Inv, NEW p, NEW q \in Before(p), Before(p)' = Before(p) \ {q}
  PROVE  Cardinality(Before(p)') = Cardinality(Before(p)) - 1
BY BeforeFinite, FS_RemoveElement

LEMMA InitInv == Init => Inv
<1> SUFFICES ASSUME Init PROVE Inv
  OBVIOUS
<1>1. Allocated = {}
  BY DEF Init, Allocated
<1> QED
  BY <1>1, Constants DEF Init, Inv, TypeOK, NothingDangles, RefsCounted, InBounds,
                         LenWithin, Allocated

-----------------------------------------------------------------------------

\* A new pbuf has one pointer, its caller's.
LEMMA AllocInv ==
  ASSUME Inv, NEW p \in Pbuf, NEW o \in Offsets, NEW n \in Lens, pbuf_alloc(p, o, n)
  PROVE  Inv'
<1>1. /\ p \notin Allocated /\ freeing = Null
      /\ held' = [held EXCEPT ![p] = 1]
      /\ UNCHANGED <<freeing, count, rest>>
  BY DEF pbuf_alloc, Idle
<1>2. /\ Allocated' = Allocated \cup {p}
      /\ mem' = [q \in Allocated \cup {p} |-> IF q = p THEN NewPbuf(o, n) ELSE mem[q]]
  BY DEF pbuf_alloc, Allocated
<1>3. /\ mem'[p] = NewPbuf(o, n)
      /\ \A q \in Allocated : mem'[q] = mem[q]
  BY <1>1, <1>2
<1>4. o \in Nat /\ n \in Nat
  BY Constants
<1>5. /\ NewPbuf(o, n) \in Fields
      /\ NewPbuf(o, n).next = Null /\ NewPbuf(o, n).ref = 1
      /\ NewPbuf(o, n).len = NewPbuf(o, n).tot_len
      /\ NewPbuf(o, n).room + NewPbuf(o, n).len <= NewPbuf(o, n).size
  BY <1>4, AlignedType DEF NewPbuf, Fields, Size
<1>6. TypeOK'
  BY <1>1, <1>2, <1>3, <1>5, Constants DEF Inv, TypeOK
<1>7. NothingDangles'
  BY <1>1, <1>2, <1>3, <1>5 DEF Inv, TypeOK, NothingDangles
<1>8. RefsCounted'
  <2>1. Before(p)' = {}
    BY <1>1, <1>2, <1>3, <1>5, Constants DEF Inv, TypeOK, NothingDangles, Before
  <2>2. \A q \in Allocated : Before(q)' = Before(q)
    BY <1>1, <1>2, <1>3, <1>5, Constants DEF Inv, TypeOK, NothingDangles, Before
  <2>3. mem'[p].ref = held'[p] + Cardinality(Before(p)')
                        + (IF freeing' = p THEN 1 ELSE 0)
    BY <2>1, <1>1, <1>3, <1>5, FS_EmptySet, Constants DEF Inv, TypeOK
  <2>4. ASSUME NEW q \in Allocated
        PROVE  mem'[q].ref = held'[q] + Cardinality(Before(q)')
                               + (IF freeing' = q THEN 1 ELSE 0)
    BY <2>2, <2>4, <1>1, <1>3 DEF Inv, TypeOK, RefsCounted
  <2> QED
    BY <2>3, <2>4, <1>2 DEF RefsCounted
<1>9. InBounds' /\ LenWithin'
  BY <1>2, <1>3, <1>5, <1>4, AlignedType DEF Inv, InBounds, LenWithin, NewPbuf
<1> QED
  BY <1>6, <1>7, <1>8, <1>9 DEF Inv

\* The caller's pointer becomes the loop's.
LEMMA FreeInv ==
  ASSUME Inv, NEW p \in Pbuf, pbuf_free(p)
  PROVE  Inv'
<1>1. /\ held[p] > 0 /\ freeing = Null /\ freeing' = p /\ count' = 0
      /\ held' = [held EXCEPT ![p] = @ - 1]
      /\ UNCHANGED <<mem, rest>> /\ Allocated' = Allocated
  BY DEF pbuf_free, Idle, Allocated
<1>2. p \in Allocated /\ held[p] \in Nat
  BY <1>1 DEF Inv, TypeOK, NothingDangles
<1>3. TypeOK' /\ NothingDangles' /\ InBounds' /\ LenWithin'
  <2>1. held' \in [Pbuf -> 0..MaxHeld]
    BY <1>1, <1>2, Constants DEF Inv, TypeOK
  <2>2. \A q \in Pbuf : held'[q] > 0 => held[q] > 0
    BY <1>1, <1>2 DEF Inv, TypeOK
  <2>3. TypeOK'
    BY <2>1, <1>1 DEF Inv, TypeOK
  <2>4. NothingDangles'
    BY <2>2, <1>1, <1>2 DEF Inv, NothingDangles
  <2>5. InBounds' /\ LenWithin'
    BY <1>1 DEF Inv, InBounds, LenWithin
  <2> QED
    BY <2>3, <2>4, <2>5
<1>4. ASSUME NEW q \in Allocated
      PROVE  mem'[q].ref = held'[q] + Cardinality(Before(q)')
                             + (IF freeing' = q THEN 1 ELSE 0)
  <2>1. Before(q)' = Before(q) /\ held[q] \in Nat
    BY <1>1, <1>4 DEF Before, Inv, TypeOK
  <2> QED
    BY <2>1, <1>1, <1>2, <1>4, BeforeFinite, Constants DEF Inv, TypeOK, RefsCounted
<1> QED
  BY <1>1, <1>3, <1>4 DEF Inv, RefsCounted

\* The last pointer to the pbuf is the loop's: nothing is left that refers to
\* it, and its pointer to the next pbuf becomes the loop's.
LEMMA ReleaseInv ==
  ASSUME Inv, Release
  PROVE  Inv'
<1> DEFINE p == freeing
<1>1. /\ p \in Allocated /\ p # Null /\ mem[p].ref = 1
      /\ Allocated' = Allocated \ {p}
      /\ mem' = [q \in Allocated \ {p} |-> mem[q]]
      /\ freeing' = mem[p].next
      /\ count' = (count + 1) % 256
      /\ UNCHANGED <<held, rest>>
  BY DEF Release, Inv, TypeOK, NothingDangles, Allocated, NextToFree
<1>2. p \in Pbuf /\ held[p] \in Nat
  BY <1>1 DEF Inv, TypeOK
<1>3. held[p] = 0 /\ Cardinality(Before(p)) = 0
  BY <1>1, <1>2, BeforeFinite DEF Inv, RefsCounted
<1>4. Before(p) = {}
  BY <1>3, BeforeFinite, FS_EmptySet
<1>5. \A q \in Allocated : mem[q].next # p /\ mem[q].next \in Allocated \cup {Null}
  BY <1>4 DEF Before, Inv, NothingDangles
<1>6. TypeOK'
  <2>1. count' \in 0..255
    BY <1>1 DEF Inv, TypeOK
  <2> QED
    BY <2>1, <1>1, <1>5 DEF Inv, TypeOK
<1>7. NothingDangles'
  BY <1>1, <1>2, <1>3, <1>5 DEF Inv, NothingDangles, TypeOK
<1>8. InBounds' /\ LenWithin'
  BY <1>1 DEF Inv, InBounds, LenWithin
<1>9. ASSUME NEW q \in Allocated \ {p}
      PROVE  mem'[q].ref = held'[q] + Cardinality(Before(q)')
                             + (IF freeing' = q THEN 1 ELSE 0)
  <2>1. held[q] \in Nat /\ mem[q].ref = held[q] + Cardinality(Before(q))
    BY <1>1, BeforeFinite DEF Inv, TypeOK, RefsCounted
  <2>2. CASE mem[p].next = q
    <3>1. p \in Before(q) /\ Before(q)' = Before(q) \ {p}
      BY <1>1, <2>2 DEF Before
    <3>2. Cardinality(Before(q)') = Cardinality(Before(q)) - 1
      BY <3>1, BeforeShrinks
    <3>3. mem'[q].ref = mem[q].ref /\ held'[q] = held[q] /\ freeing' = q
      BY <1>1, <2>2
    <3> QED
      BY <3>2, <3>3, <2>1, BeforeFinite
  <2>3. CASE mem[p].next # q
    <3>1. Before(q)' = Before(q)
      BY <1>1, <2>3 DEF Before
    <3> QED
      BY <3>1, <2>1, <2>3, <1>1, BeforeFinite
  <2> QED
    BY <2>2, <2>3
<1> QED
  BY <1>1, <1>6, <1>7, <1>8, <1>9 DEF Inv, RefsCounted

\* Others refer to the pbuf: only the loop's pointer goes.
LEMMA DropRefInv ==
  ASSUME Inv, DropRef
  PROVE  Inv'
<1> DEFINE p == freeing
<1>1. /\ p \in Allocated /\ p # Null /\ mem[p].ref # 1
      /\ Allocated' = Allocated
      /\ mem' = [mem EXCEPT ![p].ref = (@ + 255) % 256]
      /\ freeing' = Null
      /\ UNCHANGED <<held, count, rest>>
  BY DEF DropRef, Inv, TypeOK, NothingDangles, Allocated
<1>2. p \in Pbuf /\ held[p] \in Nat /\ mem[p] \in Fields /\ mem[p].ref \in 0..255
  BY <1>1 DEF Inv, TypeOK, Fields
<1>3. mem[p].ref = held[p] + Cardinality(Before(p)) + 1
  BY <1>1 DEF Inv, RefsCounted
<1>4. (mem[p].ref + 255) % 256 = mem[p].ref - 1
  BY <1>2, <1>3, BeforeFinite
<1>5. /\ mem'[p] = [mem[p] EXCEPT !.ref = mem[p].ref - 1]
      /\ \A q \in Allocated : q # p => mem'[q] = mem[q]
  BY <1>1, <1>4 DEF Inv, TypeOK
<1>6. /\ mem'[p] \in Fields /\ mem'[p].ref = mem[p].ref - 1
      /\ \A q \in Allocated : /\ mem'[q].next = mem[q].next
                              /\ mem'[q].len = mem[q].len
                              /\ mem'[q].tot_len = mem[q].tot_len
                              /\ mem'[q].room = mem[q].room
                              /\ mem'[q].size = mem[q].size
  BY <1>2, <1>3, <1>5, BeforeFinite DEF Fields
<1>7. TypeOK'
  BY <1>1, <1>5, <1>6 DEF Inv, TypeOK
<1>8. NothingDangles' /\ InBounds' /\ LenWithin'
  BY <1>1, <1>6 DEF Inv, NothingDangles, InBounds, LenWithin
<1>9. ASSUME NEW q \in Allocated
      PROVE  mem'[q].ref = held'[q] + Cardinality(Before(q)')
                             + (IF freeing' = q THEN 1 ELSE 0)
  <2>1. Before(q)' = Before(q)
    BY <1>1, <1>6 DEF Before
  <2>2. q \in Pbuf /\ q # Null /\ held[q] \in Nat
    BY Constants DEF Inv, TypeOK
  <2>3. CASE q = p
    BY <2>1, <2>2, <2>3, <1>1, <1>3, <1>6, BeforeFinite
  <2>4. CASE q # p
    BY <2>1, <2>2, <2>4, <1>1, <1>5, BeforeFinite DEF Inv, RefsCounted
  <2> QED
    BY <2>3, <2>4
<1> QED
  BY <1>1, <1>7, <1>8, <1>9 DEF Inv, RefsCounted

\* A caller's pointer more.
LEMMA RefIncreaseInv ==
  ASSUME Inv, NEW p \in Pbuf, pbuf_ref_increase(p)
  PROVE  Inv'
<1>1. /\ held[p] \in 1..(MaxHeld - 1) /\ freeing = Null
      /\ held' = [held EXCEPT ![p] = @ + 1]
      /\ mem' = [mem EXCEPT ![p].ref = (@ + 1) % 256]
      /\ Allocated' = Allocated
      /\ UNCHANGED <<freeing, count, rest>>
  BY DEF pbuf_ref_increase, Idle, Allocated
<1>2. p \in Allocated /\ held[p] \in Nat /\ mem[p] \in Fields /\ p # Null
  BY <1>1, Constants DEF Inv, TypeOK, NothingDangles
<1>3. mem[p].ref = held[p] + Cardinality(Before(p))
  BY <1>1, <1>2, BeforeFinite DEF Inv, RefsCounted
<1>4. mem[p].ref + 1 \in 0..255 /\ (mem[p].ref + 1) % 256 = mem[p].ref + 1
  <2>1. PICK c \in Nat : c = Cardinality(Before(p)) /\ c <= Cardinality(Pbuf)
    BY BeforeFinite
  <2>2. mem[p].ref + 1 \in 0..255
    BY <2>1, <1>1, <1>2, <1>3, Constants
  <2> QED
    BY <2>2
<1>5. /\ mem'[p] = [mem[p] EXCEPT !.ref = mem[p].ref + 1]
      /\ \A q \in Allocated : q # p => mem'[q] = mem[q]
  BY <1>1, <1>2, <1>4 DEF Inv, TypeOK
<1>6. /\ mem'[p] \in Fields /\ mem'[p].ref = mem[p].ref + 1
      /\ \A q \in Allocated : /\ mem'[q].next = mem[q].next
                              /\ mem'[q].len = mem[q].len
                              /\ mem'[q].tot_len = mem[q].tot_len
                              /\ mem'[q].room = mem[q].room
                              /\ mem'[q].size = mem[q].size
  BY <1>2, <1>4, <1>5 DEF Fields
<1>7. held' \in [Pbuf -> 0..MaxHeld] /\ held'[p] = held[p] + 1
  BY <1>1, Constants DEF Inv, TypeOK
<1>8. TypeOK'
  BY <1>1, <1>5, <1>6, <1>7 DEF Inv, TypeOK
<1>9. NothingDangles' /\ InBounds' /\ LenWithin'
  BY <1>1, <1>2, <1>6 DEF Inv, TypeOK, NothingDangles, InBounds, LenWithin
<1>10. ASSUME NEW q \in Allocated
       PROVE  mem'[q].ref = held'[q] + Cardinality(Before(q)')
                              + (IF freeing' = q THEN 1 ELSE 0)
  <2>1. Before(q)' = Before(q)
    BY <1>1, <1>6 DEF Before
  <2>2. q \in Pbuf /\ q # Null /\ held[q] \in Nat
    BY Constants DEF Inv, TypeOK
  <2>3. CASE q = p
    BY <2>1, <2>2, <2>3, <1>1, <1>3, <1>6, <1>7, BeforeFinite
  <2>4. CASE q # p
    BY <2>1, <2>2, <2>4, <1>1, <1>5, BeforeFinite DEF Inv, TypeOK, RefsCounted
  <2> QED
    BY <2>3, <2>4
<1> QED
  BY <1>1, <1>8, <1>9, <1>10 DEF Inv, RefsCounted

-----------------------------------------------------------------------------

\* What linking after behind front does to the memory.
LEMMA JoinedFields ==
  ASSUME Inv, NEW front \in Pbuf, NEW after \in Pbuf, MayJoin(front, after), Idle,
         NEW last \in Allocated, IsLast(last, front), NEW n \in {0, 1},
         mem[after].ref + n \in 0..255,
         mem' = Joined(front, after, last, n)
  PROVE  /\ Allocated' = Allocated /\ after \in Allocated
         /\ mem' \in [Allocated -> Fields]
         /\ mem[last].next = Null /\ mem'[last].next = after
         /\ \A p \in Allocated : p # last => mem'[p].next = mem[p].next
         /\ mem'[after].ref = mem[after].ref + n
         /\ \A p \in Allocated : p # after => mem'[p].ref = mem[p].ref
         /\ \A p \in Allocated : /\ mem'[p].len = mem[p].len
                                 /\ mem'[p].room = mem[p].room
                                 /\ mem'[p].size = mem[p].size
                                 /\ mem[p].tot_len <= mem'[p].tot_len
<1>1. after \in Allocated /\ mem[last].next = Null
  BY DEF MayJoin, IsLast, Inv, NothingDangles
<1>2. Allocated' = Allocated
  BY DEF Joined, Allocated
<1>3. ASSUME NEW p \in Allocated
      PROVE  /\ mem'[p] \in Fields
             /\ mem'[p].next = IF p = last THEN after ELSE mem[p].next
             /\ mem'[p].ref = IF p = after THEN mem[p].ref + n ELSE mem[p].ref
             /\ mem'[p].len = mem[p].len /\ mem'[p].room = mem[p].room
             /\ mem'[p].size = mem[p].size
             /\ mem[p].tot_len <= mem'[p].tot_len
  <2> DEFINE t == IF p \in ChainSet(front)
                  THEN (mem[p].tot_len + mem[after].tot_len) % WordMod
                  ELSE mem[p].tot_len
  <2>1. mem[p] \in Fields /\ mem[after] \in Fields
    BY <1>1 DEF Inv, TypeOK
  <2>2. t \in Nat /\ mem[p].tot_len <= t
    <3>1. CASE p \in ChainSet(front)
      <4>1. mem[p].tot_len + mem[after].tot_len < WordMod
        BY <3>1 DEF MayJoin
      <4>2. PICK a \in Nat, b \in Nat : a = mem[p].tot_len /\ b = mem[after].tot_len
        BY <2>1 DEF Fields
      <4>3. (a + b) % WordMod = a + b
        BY <4>1, <4>2, Constants
      <4> QED
        BY <4>2, <4>3, <3>1
    <3>2. CASE p \notin ChainSet(front)
      BY <2>1, <3>2 DEF Fields
    <3> QED
      BY <3>1, <3>2
  <2>3. p = after => (mem[p].ref + n) % 256 = mem[p].ref + n
    BY <2>1 DEF Fields
  <2>4. mem'[p] = [mem[p] EXCEPT
                     !.next = IF p = last THEN after ELSE mem[p].next,
                     !.tot_len = t,
                     !.ref = IF p = after THEN mem[p].ref + n ELSE mem[p].ref]
    BY <2>1, <2>3 DEF Joined
  <2> HIDE DEF t
  <2> DEFINE x == IF p = last THEN after ELSE mem[p].next
             r == IF p = after THEN mem[p].ref + n ELSE mem[p].ref
  <2>5. x \in Pbuf \cup {Null} /\ r \in 0..255
    BY <2>1 DEF Fields
  <2>6. mem'[p] = [mem[p] EXCEPT !.next = x, !.tot_len = t, !.ref = r]
    BY <2>4
  <2>7. x = (IF p = last THEN after ELSE mem[p].next)
        /\ r = (IF p = after THEN mem[p].ref + n ELSE mem[p].ref)
    OBVIOUS
  <2> HIDE DEF x, r
  <2>8. /\ mem'[p] \in Fields /\ mem'[p].next = x /\ mem'[p].ref = r
        /\ mem'[p].tot_len = t /\ mem'[p].len = mem[p].len
        /\ mem'[p].room = mem[p].room /\ mem'[p].size = mem[p].size
    BY <2>1, <2>2, <2>5, <2>6 DEF Fields
  <2> QED
    BY <2>2, <2>7, <2>8
<1>4. mem' \in [Allocated -> Fields]
  BY <1>3 DEF Joined
<1> QED
  BY <1>1, <1>2, <1>3, <1>4

\* The pointers in front of each pbuf then.
LEMMA JoinedBefore ==
  ASSUME Inv, NEW after \in Allocated, NEW last \in Allocated,
         Allocated' = Allocated,
         mem[last].next = Null, mem'[last].next = after,
         \A p \in Allocated : p # last => mem'[p].next = mem[p].next
  PROVE  /\ Cardinality(Before(after)') = Cardinality(Before(after)) + 1
         /\ Cardinality(Before(after)') <= Cardinality(Pbuf)
         /\ \A p \in Allocated : p # after => Before(p)' = Before(p)
<1>1. last \in Pbuf /\ \A p \in Allocated : p # Null
  BY Constants DEF Inv, TypeOK
<1>2. last \notin Before(after) /\ Before(after)' = Before(after) \cup {last}
  BY <1>1 DEF Before
<1>3. \A p \in Allocated : p # after => Before(p)' = Before(p)
  BY <1>1 DEF Before
<1> QED
  BY <1>1, <1>2, <1>3, BeforeGrows

\* The caller's pointer becomes the chain's.
LEMMA CatInv ==
  ASSUME Inv, NEW front \in Pbuf, NEW after \in Pbuf, pbuf_cat(front, after)
  PROVE  Inv'
<1>1. /\ Idle /\ MayJoin(front, after) /\ held[after] > 0
      /\ held' = [held EXCEPT ![after] = @ - 1]
      /\ UNCHANGED <<freeing, count, rest>>
  BY DEF pbuf_cat, MayJoin
<1>2. PICK last \in Allocated :
        IsLast(last, front) /\ mem' = Joined(front, after, last, 0)
  BY DEF pbuf_cat
<1>3. after \in Allocated /\ held[after] \in Nat /\ mem[after] \in Fields
  BY <1>1 DEF Inv, TypeOK, NothingDangles
<1>4. mem[after].ref + 0 \in 0..255 /\ mem[after].ref \in Nat
  BY <1>3 DEF Fields
<1>5. /\ Allocated' = Allocated
      /\ mem' \in [Allocated -> Fields]
      /\ mem[last].next = Null /\ mem'[last].next = after
      /\ \A p \in Allocated : p # last => mem'[p].next = mem[p].next
      /\ mem'[after].ref = mem[after].ref
      /\ \A p \in Allocated : p # after => mem'[p].ref = mem[p].ref
      /\ \A p \in Allocated : /\ mem'[p].len = mem[p].len
                              /\ mem'[p].room = mem[p].room
                              /\ mem'[p].size = mem[p].size
                              /\ mem[p].tot_len <= mem'[p].tot_len
  BY <1>1, <1>2, <1>4, JoinedFields
<1>6. /\ held' \in [Pbuf -> 0..MaxHeld] /\ held'[after] = held[after] - 1
      /\ \A p \in Pbuf : held'[p] > 0 => held[p] > 0
  BY <1>1, <1>3, Constants DEF Inv, TypeOK
<1>7. TypeOK'
  BY <1>1, <1>5, <1>6 DEF Inv, TypeOK
<1>8. NothingDangles'
  BY <1>1, <1>3, <1>5, <1>6 DEF Inv, NothingDangles
<1>9. InBounds' /\ LenWithin'
  <2>1. \A p \in Allocated : mem[p] \in Fields /\ mem'[p] \in Fields
    BY <1>5 DEF Inv, TypeOK
  <2> QED
    BY <2>1, <1>5 DEF Inv, InBounds, LenWithin, Fields
<1>10. ASSUME NEW q \in Allocated
       PROVE  mem'[q].ref = held'[q] + Cardinality(Before(q)')
                              + (IF freeing' = q THEN 1 ELSE 0)
  <2>1. q \in Pbuf /\ q # Null /\ held[q] \in Nat /\ freeing' = Null
    BY <1>1, Constants DEF Inv, TypeOK, Idle
  <2>2. mem[q].ref = held[q] + Cardinality(Before(q))
    BY <2>1, <1>1, BeforeFinite DEF Inv, RefsCounted
  <2>3. CASE q = after
    <3>1. Cardinality(Before(after)') = Cardinality(Before(after)) + 1
      BY <1>3, <1>5, JoinedBefore
    <3> QED
      BY <3>1, <2>1, <2>2, <2>3, <1>3, <1>5, <1>6, BeforeFinite
  <2>4. CASE q # after
    <3>1. Before(q)' = Before(q)
      BY <2>4, <1>3, <1>5, JoinedBefore
    <3> QED
      BY <3>1, <2>1, <2>2, <2>4, <1>1, <1>5, BeforeFinite DEF Inv, TypeOK
  <2> QED
    BY <2>3, <2>4
<1> QED
  BY <1>5, <1>7, <1>8, <1>9, <1>10 DEF Inv, RefsCounted

\* The caller keeps its pointer, and the chain has another.
LEMMA ChainInv ==
  ASSUME Inv, NEW front \in Pbuf, NEW after \in Pbuf, pbuf_chain(front, after)
  PROVE  Inv'
<1>1. /\ Idle /\ MayJoin(front, after) /\ held[after] > 0
      /\ UNCHANGED <<held, freeing, count, rest>>
  BY DEF pbuf_chain, MayJoin
<1>2. PICK last \in Allocated :
        IsLast(last, front) /\ mem' = Joined(front, after, last, 1)
  BY DEF pbuf_chain, RefsOfChain
<1>3. after \in Allocated /\ held[after] \in Nat /\ mem[after] \in Fields
  BY <1>1 DEF Inv, TypeOK, NothingDangles
<1>4. mem[after].ref + 1 \in 0..255
  <2>1. mem[after].ref = held[after] + Cardinality(Before(after)) /\ held[after] <= MaxHeld
    BY <1>1, <1>3, BeforeFinite, Constants DEF Inv, TypeOK, RefsCounted, Idle
  <2>2. Cardinality(Before(after)) \in Nat
        /\ Cardinality(Before(after)) <= Cardinality(Pbuf)
    BY BeforeFinite
  <2>3. ASSUME NEW h \in Nat, NEW c \in Nat, NEW k \in Nat, NEW l \in Nat,
               h <= l, c <= k, l + k < 255
        PROVE  h + c + 1 \in 0..255
    BY <2>3
  <2> QED
    BY <2>1, <2>2, <2>3, <1>3, Constants
<1>5. /\ Allocated' = Allocated
      /\ mem' \in [Allocated -> Fields]
      /\ mem[last].next = Null /\ mem'[last].next = after
      /\ \A p \in Allocated : p # last => mem'[p].next = mem[p].next
      /\ mem'[after].ref = mem[after].ref + 1
      /\ \A p \in Allocated : p # after => mem'[p].ref = mem[p].ref
      /\ \A p \in Allocated : /\ mem'[p].len = mem[p].len
                              /\ mem'[p].room = mem[p].room
                              /\ mem'[p].size = mem[p].size
                              /\ mem[p].tot_len <= mem'[p].tot_len
  BY <1>1, <1>2, <1>4, JoinedFields
<1>6. TypeOK'
  BY <1>1, <1>5 DEF Inv, TypeOK
<1>7. NothingDangles'
  BY <1>1, <1>3, <1>5 DEF Inv, NothingDangles
<1>8. InBounds' /\ LenWithin'
  <2>1. \A p \in Allocated : mem[p] \in Fields /\ mem'[p] \in Fields
    BY <1>5 DEF Inv, TypeOK
  <2> QED
    BY <2>1, <1>5 DEF Inv, InBounds, LenWithin, Fields
<1>9. ASSUME NEW q \in Allocated
      PROVE  mem'[q].ref = held'[q] + Cardinality(Before(q)')
                             + (IF freeing' = q THEN 1 ELSE 0)
  <2>1. q \in Pbuf /\ q # Null /\ held[q] \in Nat /\ freeing' = Null
    BY <1>1, Constants DEF Inv, TypeOK, Idle
  <2>2. mem[q].ref = held[q] + Cardinality(Before(q))
    BY <2>1, <1>1, BeforeFinite DEF Inv, RefsCounted
  <2>3. CASE q = after
    BY <2>1, <2>2, <2>3, <1>1, <1>3, <1>5, BeforeFinite, JoinedBefore
  <2>4. CASE q # after
    <3>1. Before(q)' = Before(q)
      BY <2>4, <1>3, <1>5, JoinedBefore
    <3> QED
      BY <3>1, <2>1, <2>2, <2>4, <1>1, <1>5, BeforeFinite
  <2> QED
    BY <2>3, <2>4
<1> QED
  BY <1>5, <1>6, <1>7, <1>8, <1>9 DEF Inv, RefsCounted

\* The chain's pointer becomes that of the loop of pbuf_free.
LEMMA DechainInv ==
  ASSUME Inv, NEW p \in Pbuf, pbuf_dechain(p)
  PROVE  Inv'
<1> DEFINE q == mem[p].next
<1>1. /\ freeing = Null /\ held[p] > 0 /\ q # Null
      /\ mem' = [mem EXCEPT ![p] = [@ EXCEPT !.next = Null, !.tot_len = mem[p].len]]
      /\ freeing' = q /\ rest' = q /\ count' = 0 /\ held' = held
      /\ Allocated' = Allocated
  BY DEF pbuf_dechain, Idle, Allocated
<1>2. p \in Allocated /\ mem[p] \in Fields /\ q \in Allocated /\ q \in Pbuf
  BY <1>1 DEF Inv, TypeOK, NothingDangles
<1>3. /\ mem'[p] = [mem[p] EXCEPT !.next = Null, !.tot_len = mem[p].len]
      /\ \A r \in Allocated : r # p => mem'[r] = mem[r]
  BY <1>1, <1>2 DEF Inv, TypeOK
<1>4. /\ mem'[p] \in Fields /\ mem'[p].next = Null
      /\ mem'[p].tot_len = mem[p].len
      /\ \A r \in Allocated : /\ mem'[r].ref = mem[r].ref
                              /\ mem'[r].len = mem[r].len
                              /\ mem'[r].room = mem[r].room
                              /\ mem'[r].size = mem[r].size
  BY <1>2, <1>3 DEF Fields
<1>5. TypeOK'
  BY <1>1, <1>2, <1>3, <1>4 DEF Inv, TypeOK
<1>6. NothingDangles'
  BY <1>1, <1>2, <1>3, <1>4 DEF Inv, NothingDangles
<1>7. InBounds' /\ LenWithin'
  <2>1. mem[p].len \in Nat
    BY <1>2 DEF Fields
  <2> QED
    BY <2>1, <1>1, <1>3, <1>4 DEF Inv, InBounds, LenWithin
<1>8. ASSUME NEW r \in Allocated
      PROVE  mem'[r].ref = held'[r] + Cardinality(Before(r)')
                             + (IF freeing' = r THEN 1 ELSE 0)
  <2>1. r \in Pbuf /\ r # Null /\ held[r] \in Nat
    BY Constants DEF Inv, TypeOK
  <2>2. mem[r].ref = held[r] + Cardinality(Before(r))
    BY <2>1, <1>1, BeforeFinite DEF Inv, RefsCounted
  <2>3. CASE r = q
    <3>1. p \in Before(r) /\ Before(r)' = Before(r) \ {p}
      BY <2>1, <2>3, <1>1, <1>2, <1>3, <1>4 DEF Before
    <3>2. Cardinality(Before(r)') = Cardinality(Before(r)) - 1
      BY <3>1, BeforeShrinks
    <3>3. mem'[r].ref = mem[r].ref /\ freeing' = r
      BY <2>3, <1>1, <1>4
    <3> QED
      BY <3>2, <3>3, <2>1, <2>2, <1>1, BeforeFinite
  <2>4. CASE r # q
    <3>1. Before(r)' = Before(r)
      BY <2>1, <2>4, <1>1, <1>2, <1>3, <1>4 DEF Before
    <3>2. mem'[r].ref = mem[r].ref /\ freeing' # r
      BY <2>4, <1>1, <1>4
    <3> QED
      BY <3>1, <3>2, <2>1, <2>2, <1>1, BeforeFinite
  <2> QED
    BY <2>3, <2>4
<1> QED
  BY <1>1, <1>5, <1>6, <1>7, <1>8 DEF Inv, RefsCounted

-----------------------------------------------------------------------------

\* Headers change the lengths and the room of one pbuf.
LEMMA HeaderInv ==
  ASSUME Inv, NEW p \in Pbuf,
         NEW n \in Hdrs, pbuf_add_header(p, n) \/ pbuf_remove_header(p, n)
  PROVE  Inv'
<1>1. Allocated' = Allocated /\ UNCHANGED <<held, freeing, count, rest>>
  BY DEF pbuf_add_header, pbuf_remove_header, Allocated
<1>2. n \in Nat
  BY Constants
<1>3. mem \in [Allocated -> Fields]
  BY DEF Inv, TypeOK
<1>4. /\ mem' \in [Allocated -> Fields]
      /\ \A q \in Allocated : /\ mem'[q].next = mem[q].next
                              /\ mem'[q].ref = mem[q].ref
                              /\ mem'[q].size = mem[q].size
                              /\ mem'[q].room + mem'[q].len <= mem'[q].size
                              /\ mem'[q].len <= mem'[q].tot_len
  <2>1. ASSUME NEW q \in Allocated
        PROVE  /\ mem[q] \in Fields
               /\ mem[q].room \in Nat /\ mem[q].len \in Nat
               /\ mem[q].tot_len \in Nat /\ mem[q].size \in Nat
               /\ mem[q].room + mem[q].len <= mem[q].size
               /\ mem[q].len <= mem[q].tot_len
    BY DEF Inv, TypeOK, InBounds, LenWithin, Fields
  <2>2. CASE pbuf_add_header(p, n)
    <3>1. /\ p \in Allocated /\ n <= mem[p].room
          /\ mem' = [mem EXCEPT ![p].room = @ - n, ![p].len = @ + n,
                                ![p].tot_len = @ + n]
      BY <2>2 DEF pbuf_add_header, HasRoom
    <3>2. /\ mem'[p] = [mem[p] EXCEPT !.room = mem[p].room - n,
                                     !.len = mem[p].len + n,
                                     !.tot_len = mem[p].tot_len + n]
          /\ \A q \in Allocated : q # p => mem'[q] = mem[q]
      BY <3>1, <1>3
    <3>3. /\ mem'[p] \in Fields
          /\ mem'[p].next = mem[p].next /\ mem'[p].ref = mem[p].ref
          /\ mem'[p].size = mem[p].size
          /\ mem'[p].room = mem[p].room - n /\ mem'[p].len = mem[p].len + n
          /\ mem'[p].tot_len = mem[p].tot_len + n
      <4> DEFINE a == mem[p].room - n
                 b == mem[p].len + n
                 c == mem[p].tot_len + n
      <4>2. a \in Nat /\ b \in Nat /\ c \in Nat /\ mem[p] \in Fields
        BY <3>1, <2>1, <1>2
      <4>3. mem'[p] = [mem[p] EXCEPT !.room = a, !.len = b, !.tot_len = c]
        BY <3>2
      <4>4. a = mem[p].room - n /\ b = mem[p].len + n /\ c = mem[p].tot_len + n
        OBVIOUS
      <4> HIDE DEF a, b, c
      <4>5. /\ mem'[p] \in Fields
            /\ mem'[p].next = mem[p].next /\ mem'[p].ref = mem[p].ref
            /\ mem'[p].size = mem[p].size
            /\ mem'[p].room = a /\ mem'[p].len = b /\ mem'[p].tot_len = c
        BY <4>2, <4>3 DEF Fields
      <4> QED
        BY <4>4, <4>5
    <3>4. /\ mem'[p].room + mem'[p].len <= mem'[p].size
          /\ mem'[p].len <= mem'[p].tot_len
      BY <3>1, <3>3, <2>1, <1>2
    <3> QED
      BY <3>1, <3>2, <3>3, <3>4, <2>1, <1>3
  <2>3. CASE pbuf_remove_header(p, n)
    <3>1. /\ p \in Allocated /\ n <= mem[p].len
          /\ mem' = [mem EXCEPT ![p].room = @ + n, ![p].len = @ - n,
                                ![p].tot_len = @ - n]
      BY <2>3 DEF pbuf_remove_header, LessHdr, Inv, NothingDangles
    <3>2. /\ mem'[p] = [mem[p] EXCEPT !.room = mem[p].room + n,
                                     !.len = mem[p].len - n,
                                     !.tot_len = mem[p].tot_len - n]
          /\ \A q \in Allocated : q # p => mem'[q] = mem[q]
      BY <3>1, <1>3
    <3>3. /\ mem'[p] \in Fields
          /\ mem'[p].next = mem[p].next /\ mem'[p].ref = mem[p].ref
          /\ mem'[p].size = mem[p].size
          /\ mem'[p].room = mem[p].room + n /\ mem'[p].len = mem[p].len - n
          /\ mem'[p].tot_len = mem[p].tot_len - n
      <4> DEFINE a == mem[p].room + n
                 b == mem[p].len - n
                 c == mem[p].tot_len - n
      <4>1. mem[p].len <= mem[p].tot_len
        BY <3>1, <2>1
      <4>2. a \in Nat /\ b \in Nat /\ c \in Nat /\ mem[p] \in Fields
        BY <4>1, <3>1, <2>1, <1>2
      <4>3. mem'[p] = [mem[p] EXCEPT !.room = a, !.len = b, !.tot_len = c]
        BY <3>2
      <4>4. a = mem[p].room + n /\ b = mem[p].len - n /\ c = mem[p].tot_len - n
        OBVIOUS
      <4> HIDE DEF a, b, c
      <4>5. /\ mem'[p] \in Fields
            /\ mem'[p].next = mem[p].next /\ mem'[p].ref = mem[p].ref
            /\ mem'[p].size = mem[p].size
            /\ mem'[p].room = a /\ mem'[p].len = b /\ mem'[p].tot_len = c
        BY <4>2, <4>3 DEF Fields
      <4> QED
        BY <4>4, <4>5
    <3>4. /\ mem'[p].room + mem'[p].len <= mem'[p].size
          /\ mem'[p].len <= mem'[p].tot_len
      BY <3>1, <3>3, <2>1, <1>2
    <3> QED
      BY <3>1, <3>2, <3>3, <3>4, <2>1, <1>3
  <2> QED
    BY <2>2, <2>3
<1>5. TypeOK' /\ NothingDangles' /\ InBounds' /\ LenWithin'
  BY <1>1, <1>4 DEF Inv, TypeOK, NothingDangles, InBounds, LenWithin
<1>6. RefsCounted'
  <2>1. \A q : Before(q)' = Before(q)
    BY <1>1, <1>4 DEF Before
  <2> QED
    BY <2>1, <1>1, <1>4 DEF Inv, RefsCounted
<1> QED
  BY <1>5, <1>6 DEF Inv

LEMMA StutterInv ==
  ASSUME Inv, UNCHANGED <<mem, held, freeing>>,
         rest' \in Pbuf \cup {Null}, count' \in 0..255
  PROVE  Inv'
<1>1. Allocated' = Allocated /\ \A q : Before(q)' = Before(q)
  BY DEF Allocated, Before
<1> QED
  BY <1>1 DEF Inv, TypeOK, NothingDangles, RefsCounted, InBounds, LenWithin

LEMMA NextInv == Inv /\ [Next]_pvars => Inv'
<1> SUFFICES ASSUME Inv, [Next]_pvars PROVE Inv'
  OBVIOUS
<1>1. ASSUME NEW p \in Pbuf, NEW o \in Offsets, NEW n \in Lens, pbuf_alloc(p, o, n)
      PROVE  Inv'
  BY <1>1, AllocInv
<1>2. ASSUME NEW p \in Pbuf,
             pbuf_free(p) \/ pbuf_ref_increase(p) \/ pbuf_dechain(p)
      PROVE  Inv'
  BY <1>2, FreeInv, RefIncreaseInv, DechainInv
<1>3. ASSUME NEW p \in Pbuf, NEW q \in Pbuf, pbuf_cat(p, q) \/ pbuf_chain(p, q)
      PROVE  Inv'
  BY <1>3, CatInv, ChainInv
<1>4. ASSUME NEW p \in Pbuf, NEW n \in Hdrs,
             pbuf_add_header(p, n) \/ pbuf_remove_header(p, n)
      PROVE  Inv'
  BY <1>4, HeaderInv
<1>5. CASE DechainReturns
  BY <1>5, StutterInv DEF DechainReturns, Inv, TypeOK
<1>6. CASE UNCHANGED pvars
  BY <1>6, StutterInv DEF pvars, Inv, TypeOK
<1> QED
  BY <1>1, <1>2, <1>3, <1>4, <1>5, <1>6, ReleaseInv, DropRefInv DEF Next

LEMMA InvHolds == Spec => []Inv
BY InitInv, NextInv, PTL DEF Spec

\* The fields of every pbuf keep their types, whatever is chained and freed.
THEOREM PbufTypeCorrect == Spec => []TypeOK
BY InvHolds, PTL DEF Inv

\* No pointer of a caller, of a chain or of pbuf_free dangles, whatever order
\* the operations of pbuf.c are called in.
THEOREM PbufsNeverDangle == Spec => []NothingDangles
BY InvHolds, PTL DEF Inv

\* pbuf.h:51 holds of every pbuf, however many share it: ref is the number of
\* pointers to it.
THEOREM RefIsNumberOfPointers == Spec => []RefsCounted
BY InvHolds, PTL DEF Inv

\* Payloads stay within the memory allocated for them.
THEOREM PayloadsInBounds == Spec => []InBounds
BY InvHolds, PTL DEF Inv

-----------------------------------------------------------------------------
(***************************************************************************)
(* What pbuf_dechain returns.                                              *)
(***************************************************************************)

\* While the rest of a chain is being freed, count is 0 until its first pbuf is
\* gone; then it grows by one for every pbuf that goes.
DechainKnows ==
  rest # Null =>
    /\ count + Cardinality(Allocated) <= Cardinality(Pbuf)
    /\ count = 0 => rest \in Allocated /\ freeing \in {rest, Null}
    /\ count > 0 => rest \notin Allocated

LEMMA AllocatedFinite ==
  ASSUME Inv
  PROVE  /\ IsFiniteSet(Allocated) /\ Cardinality(Allocated) \in Nat
         /\ Cardinality(Allocated) <= Cardinality(Pbuf)
<1>1. Allocated \in SUBSET Pbuf
  BY DEF Inv, TypeOK
<1> QED
  BY <1>1, Constants, FS_Subset, FS_CardinalityType

\* A call that starts when no other is in progress.
LEMMA IdleKnows ==
  ASSUME Idle, rest' = rest
  PROVE  DechainKnows'
BY DEF Idle, DechainKnows

LEMMA DechainKnowsStep ==
  ASSUME Inv, DechainKnows, [Next]_pvars
  PROVE  DechainKnows'
<1>1. ASSUME NEW p \in Pbuf, pbuf_dechain(p) PROVE DechainKnows'
  <2>1. /\ count' = 0 /\ freeing' = mem[p].next /\ rest' = mem[p].next
        /\ mem[p].next # Null /\ held[p] > 0 /\ Allocated' = Allocated
    BY <1>1 DEF pbuf_dechain, Allocated
  <2>2. mem[p].next \in Allocated
    BY <2>1 DEF Inv, NothingDangles
  <2> QED
    BY <2>1, <2>2, AllocatedFinite DEF DechainKnows
<1>2. CASE Release
  <2>1. /\ freeing # Null /\ Allocated' = Allocated \ {freeing}
        /\ count' = (count + 1) % 256 /\ rest' = rest
    BY <1>2 DEF Release, Allocated
  <2>2. SUFFICES ASSUME rest # Null
                 PROVE  /\ count' + Cardinality(Allocated') <= Cardinality(Pbuf)
                        /\ count' > 0 /\ rest \notin Allocated'
    BY <2>1 DEF DechainKnows
  <2>3. freeing \in Allocated
    BY <2>1 DEF Inv, NothingDangles
  <2>4. Cardinality(Allocated') = Cardinality(Allocated) - 1
    BY <2>1, <2>3, AllocatedFinite, FS_RemoveElement
  <2>5. /\ count \in 0..255 /\ count + Cardinality(Allocated) <= Cardinality(Pbuf)
        /\ Cardinality(Allocated) \in Nat \ {0} /\ Cardinality(Pbuf) < 255
    <3>1. Cardinality(Allocated) # 0
      BY <2>3, AllocatedFinite, FS_EmptySet
    <3> QED
      BY <2>2, <3>1, AllocatedFinite, Constants DEF DechainKnows, Inv, TypeOK
  <2>6. count' = count + 1
    <3>1. count + 1 \in 0..255
      BY <2>5, Constants
    <3>2. \A x \in 0..255 : x % 256 = x
      OBVIOUS
    <3> QED
      BY <2>1, <3>1, <3>2
  <2>7. rest \notin Allocated'
    <3>1. CASE count = 0
      BY <2>1, <2>2, <3>1 DEF DechainKnows
    <3>2. CASE count # 0
      BY <2>1, <2>2, <2>5, <3>2 DEF DechainKnows
    <3> QED
      BY <3>1, <3>2
  <2> QED
    BY <2>4, <2>5, <2>6, <2>7, Constants
<1>3. CASE DropRef
  BY <1>3 DEF DropRef, DechainKnows, Allocated
<1>4. CASE DechainReturns
  BY <1>4 DEF DechainReturns, DechainKnows
<1>5. CASE UNCHANGED pvars
  BY <1>5 DEF pvars, DechainKnows, Allocated
<1>6. ASSUME NEW p \in Pbuf, NEW o \in Offsets, NEW n \in Lens, pbuf_alloc(p, o, n)
      PROVE  DechainKnows'
  BY <1>6, IdleKnows DEF pbuf_alloc
<1>7. ASSUME NEW p \in Pbuf, pbuf_free(p) \/ pbuf_ref_increase(p)
      PROVE  DechainKnows'
  BY <1>7, IdleKnows DEF pbuf_free, pbuf_ref_increase
<1>8. ASSUME NEW p \in Pbuf, NEW q \in Pbuf, pbuf_cat(p, q) \/ pbuf_chain(p, q)
      PROVE  DechainKnows'
  BY <1>8, IdleKnows DEF pbuf_cat, pbuf_chain
<1>9. ASSUME NEW p \in Pbuf, NEW n \in Hdrs,
             pbuf_add_header(p, n) \/ pbuf_remove_header(p, n)
      PROVE  DechainKnows'
  BY <1>9, IdleKnows DEF pbuf_add_header, pbuf_remove_header
<1> QED
  BY <1>1, <1>2, <1>3, <1>4, <1>5, <1>6, <1>7, <1>8, <1>9 DEF Next

\* The count of pbuf_free tells pbuf_dechain whether the rest of the chain is
\* still there, however many pbufs behind it were freed too: the count never
\* comes round to 0 again.
THEOREM DechainReturnsRest == Spec => []DechainTells
<1>1. Init => DechainKnows
  BY DEF Init, DechainKnows
<1>2. Inv /\ DechainKnows /\ [Next]_pvars => DechainKnows'
  BY DechainKnowsStep
<1>3. Inv /\ DechainKnows => DechainTells
  BY DEF DechainKnows, DechainTells, Returned, Inv, TypeOK
<1> QED
  BY <1>1, <1>2, <1>3, InvHolds, PTL DEF Spec

-----------------------------------------------------------------------------
(***************************************************************************)
(* Nothing leaks: every pbuf that is allocated can be reached.             *)
(***************************************************************************)

\* Chains have an end.
Acyclic == \E rank : Ascending(Allocated, NextOf, Null, rank)

\* Each pbuf is referred to: by a caller, by a chain or by pbuf_free.
Referred ==
  \A p \in Allocated :
    held[p] > 0 \/ freeing = p \/ \E q \in Allocated : mem[q].next = p

\* A chain begins with its first pbuf and goes on to its end.
LEMMA ChainClosed ==
  ASSUME Inv, Acyclic, NEW p \in Allocated
  PROVE  /\ p \in ChainSet(p)
         /\ \A x \in ChainSet(p) :
              /\ x \in Allocated
              /\ mem[x].next # Null => mem[x].next \in ChainSet(p)
<1>1. /\ IsFiniteSet(Allocated) /\ Null \notin Allocated
      /\ NextOf \in [Allocated -> Allocated \cup {Null}]
      /\ \A x \in Allocated : NextOf[x] = mem[x].next
  BY AllocatedFinite, Constants DEF Inv, TypeOK, NothingDangles, NextOf
<1>2. PICK rank : Ascending(Allocated, NextOf, Null, rank)
  BY DEF Acyclic
<1>3. p \in Allocated \cup {Null} /\ p # Null
  BY <1>1
<1> DEFINE l == ListFrom(p, NextOf, Null)
<1>4. /\ l \in Seq(Allocated)
      /\ Len(l) > 0 /\ l[1] = p
      /\ \A i \in DOMAIN l : NextOf[l[i]] # Null =>
           i + 1 \in DOMAIN l /\ l[i + 1] = NextOf[l[i]]
  BY <1>1, <1>2, <1>3, ListFromProperties
<1>5. ChainSet(p) = {l[i] : i \in DOMAIN l}
  BY DEF ChainSet, Chain
<1> HIDE DEF l
<1>6. 1 \in DOMAIN l /\ \A i \in DOMAIN l : l[i] \in Allocated
  BY <1>4, LenProperties
<1>7. ASSUME NEW x \in ChainSet(p)
      PROVE  /\ x \in Allocated
             /\ mem[x].next # Null => mem[x].next \in ChainSet(p)
  <2>1. PICK i \in DOMAIN l : x = l[i]
    BY <1>5
  <2>2. x \in Allocated /\ NextOf[x] = mem[x].next
    BY <1>1, <1>6, <2>1
  <2>3. mem[x].next # Null =>
          \E j \in DOMAIN l : l[j] = mem[x].next
    BY <1>4, <2>1, <2>2
  <2> QED
    BY <1>5, <2>2, <2>3
<1> QED
  BY <1>4, <1>5, <1>6, <1>7

\* Ranks that show that the new chains have ends.
LEMMA AcyclicBy ==
  ASSUME NEW r, r \in [Allocated' -> Nat],
         \A p \in Allocated' : mem'[p].next # Null => r[p] < r[mem'[p].next]
  PROVE  Acyclic'
<1>1. \A p \in Allocated' : NextOf'[p] = mem'[p].next
  BY DEF NextOf
<1>2. Ascending(Allocated', NextOf', Null, r)
  BY <1>1 DEF Ascending
<1> QED
  BY <1>2 DEF Acyclic

\* Pointers that go away make no cycle.
LEMMA AcyclicLess ==
  ASSUME Acyclic, NothingDangles', Allocated' \subseteq Allocated,
         \A p \in Allocated' : mem'[p].next \in {mem[p].next, Null}
  PROVE  Acyclic'
<1>1. PICK rank : Ascending(Allocated, NextOf, Null, rank)
  BY DEF Acyclic
<1> DEFINE r == [p \in Allocated' |-> rank[p]]
<1>2. r \in [Allocated' -> Nat]
  BY <1>1 DEF Ascending
<1>3. ASSUME NEW p \in Allocated', mem'[p].next # Null
      PROVE  r[p] < r[mem'[p].next]
  <2>1. /\ p \in Allocated /\ NextOf[p] = mem[p].next
        /\ mem'[p].next = mem[p].next /\ mem'[p].next \in Allocated'
    BY <1>3 DEF NextOf, NothingDangles
  <2>2. rank[p] < rank[mem[p].next]
    BY <1>1, <1>3, <2>1 DEF Ascending
  <2> QED
    BY <2>1, <2>2
<1> HIDE DEF r
<1> QED
  BY <1>2, <1>3, AcyclicBy

LEMMA AcyclicAlloc ==
  ASSUME Inv, Inv', Acyclic,
         NEW p \in Pbuf, NEW o \in Offsets, NEW n \in Lens, pbuf_alloc(p, o, n)
  PROVE  Acyclic'
<1>1. PICK rank : Ascending(Allocated, NextOf, Null, rank)
  BY DEF Acyclic
<1> DEFINE r == [q \in Allocated' |-> IF q = p THEN 0 ELSE rank[q]]
<1>2. /\ p \notin Allocated /\ Allocated' = Allocated \cup {p}
      /\ mem'[p].next = Null
      /\ \A q \in Allocated : mem'[q].next = mem[q].next
  BY DEF pbuf_alloc, Allocated, NewPbuf
<1>3. r \in [Allocated' -> Nat]
  BY <1>1, <1>2 DEF Ascending
<1>4. ASSUME NEW q \in Allocated', mem'[q].next # Null
      PROVE  r[q] < r[mem'[q].next]
  <2>1. /\ q \in Allocated /\ q # p /\ NextOf[q] = mem[q].next
        /\ mem'[q].next = mem[q].next
    BY <1>2, <1>4 DEF NextOf
  <2>2. mem[q].next \in Allocated
    BY <1>4, <2>1 DEF Inv, NothingDangles
  <2>3. rank[q] < rank[mem[q].next]
    BY <1>1, <1>4, <2>1 DEF Ascending
  <2> QED
    BY <1>2, <2>1, <2>2, <2>3
<1> HIDE DEF r
<1> QED
  BY <1>3, <1>4, AcyclicBy

\* What linking after behind front does to the pointers.
LEMMA JoinedNext ==
  ASSUME Inv, NEW front \in Pbuf, NEW after \in Pbuf, MayJoin(front, after),
         NEW last \in Allocated, IsLast(last, front), NEW n,
         mem' = Joined(front, after, last, n)
  PROVE  /\ Allocated' = Allocated /\ after \in Allocated
         /\ mem[last].next = Null /\ mem'[last].next = after
         /\ \A p \in Allocated : p # last => mem'[p].next = mem[p].next
         /\ last \in ChainSet(front) /\ last \notin ChainSet(after)
<1>1. after \in Allocated /\ mem[last].next = Null
  BY DEF MayJoin, IsLast, Inv, NothingDangles
<1>2. Allocated' = Allocated
  BY DEF Joined, Allocated
<1>3. last \in ChainSet(front) /\ last \notin ChainSet(after)
  BY DEF MayJoin, IsLast
<1>4. ASSUME NEW p \in Allocated
      PROVE  mem'[p].next = IF p = last THEN after ELSE mem[p].next
  <2> DEFINE x == IF p = last THEN after ELSE mem[p].next
             t == IF p \in ChainSet(front)
                  THEN (mem[p].tot_len + mem[after].tot_len) % WordMod
                  ELSE mem[p].tot_len
             r == IF p = after THEN (mem[p].ref + n) % 256 ELSE mem[p].ref
  <2>1. mem[p] \in Fields
    BY DEF Inv, TypeOK
  <2>2. mem'[p] = [mem[p] EXCEPT !.next = x, !.tot_len = t, !.ref = r]
    BY DEF Joined
  <2> HIDE DEF t, r
  <2> QED
    BY <2>1, <2>2 DEF Fields
<1> QED
  BY <1>1, <1>2, <1>3, <1>4

\* All pbufs of the chain of after go up by more than the rank of last.
LEMMA AcyclicJoin ==
  ASSUME Inv, Acyclic, NEW front \in Pbuf, NEW after \in Pbuf,
         MayJoin(front, after),
         NEW last \in Allocated, IsLast(last, front), NEW n,
         mem' = Joined(front, after, last, n)
  PROVE  Acyclic'
<1>1. PICK rank : Ascending(Allocated, NextOf, Null, rank)
  BY DEF Acyclic
<1> DEFINE A == ChainSet(after)
           r == [p \in Allocated |->
                   IF p \in A THEN rank[p] + rank[last] + 1 ELSE rank[p]]
<1>2. /\ Allocated' = Allocated /\ after \in Allocated
      /\ mem[last].next = Null /\ mem'[last].next = after
      /\ \A p \in Allocated : p # last => mem'[p].next = mem[p].next
      /\ last \notin A
  BY JoinedNext
<1>3. /\ after \in A
      /\ \A x \in A : /\ x \in Allocated
                      /\ mem[x].next # Null => mem[x].next \in A
  BY <1>2, ChainClosed
<1> HIDE DEF A
<1>4. \A p \in Allocated : rank[p] \in Nat
  BY <1>1 DEF Ascending
<1>5. r \in [Allocated' -> Nat]
  BY <1>2, <1>4
<1>6. ASSUME NEW p \in Allocated', mem'[p].next # Null
      PROVE  r[p] < r[mem'[p].next]
  <2>1. CASE p = last
    BY <1>2, <1>3, <1>4, <2>1
  <2>2. CASE p # last
    <3>1. /\ p \in Allocated /\ mem'[p].next = mem[p].next
          /\ NextOf[p] = mem[p].next
      BY <1>2, <2>2 DEF NextOf
    <3>2. mem[p].next \in Allocated /\ rank[p] < rank[mem[p].next]
      BY <1>1, <1>6, <3>1 DEF Ascending, Inv, NothingDangles
    <3>3. p \in A => mem[p].next \in A
      BY <1>3, <1>6, <3>1
    <3>4. /\ rank[p] \in Nat /\ rank[mem[p].next] \in Nat /\ rank[last] \in Nat
      BY <1>4, <3>1, <3>2
    <3> QED
      BY <3>1, <3>2, <3>3, <3>4
  <2> QED
    BY <2>1, <2>2
<1> HIDE DEF r
<1> QED
  BY <1>5, <1>6, AcyclicBy

-----------------------------------------------------------------------------
Reached == Acyclic /\ Referred

\* The pointers of chains stay: what matters is who holds what.
LEMMA SamePointers ==
  ASSUME Reached, NothingDangles', Allocated' = Allocated,
         \A q \in Allocated : mem'[q].next = mem[q].next,
         \A q \in Allocated : held'[q] > 0 \/ freeing' = q
                              \/ ~(held[q] > 0 \/ freeing = q)
                              \/ \E x \in Allocated : mem[x].next = q
  PROVE  Reached'
<1>1. Acyclic'
  BY AcyclicLess DEF Reached
<1>2. Referred'
  BY DEF Reached, Referred
<1> QED
  BY <1>1, <1>2 DEF Reached

LEMMA ReachedJoin ==
  ASSUME Inv, Reached, NEW front \in Pbuf, NEW after \in Pbuf,
         MayJoin(front, after), freeing' = freeing,
         NEW last \in Allocated, IsLast(last, front), NEW n,
         mem' = Joined(front, after, last, n),
         \A q \in Pbuf \ {after} : held'[q] = held[q]
  PROVE  Reached'
<1>1. /\ Allocated' = Allocated /\ after \in Allocated
      /\ mem[last].next = Null /\ mem'[last].next = after
      /\ \A p \in Allocated : p # last => mem'[p].next = mem[p].next
  BY JoinedNext
<1>2. Acyclic'
  BY AcyclicJoin DEF Reached
<1>3. ASSUME NEW p \in Allocated
      PROVE  held'[p] > 0 \/ freeing' = p \/ \E q \in Allocated : mem'[q].next = p
  <2>1. CASE p = after
    BY <1>1, <2>1
  <2>2. CASE p # after
    <3>1. p \in Pbuf /\ p # Null
      BY Constants DEF Inv, TypeOK
    <3>2. ASSUME NEW q \in Allocated, mem[q].next = p PROVE mem'[q].next = p
      BY <1>1, <3>1, <3>2
    <3> QED
      BY <2>2, <3>1, <3>2 DEF Reached, Referred
  <2> QED
    BY <2>1, <2>2
<1> QED
  BY <1>1, <1>2, <1>3 DEF Reached, Referred

LEMMA ReachedRelease ==
  ASSUME Inv, Inv', Reached, Release
  PROVE  Reached'
<1>1. /\ freeing # Null /\ Allocated' = Allocated \ {freeing}
      /\ mem' = [q \in Allocated \ {freeing} |-> mem[q]]
      /\ freeing' = mem[freeing].next /\ held' = held
  BY DEF Release, Allocated, NextToFree
<1>2. Acyclic'
  BY <1>1, AcyclicLess DEF Reached, Inv
<1>3. Referred'
  BY <1>1 DEF Reached, Referred
<1> QED
  BY <1>2, <1>3 DEF Reached

LEMMA ReachedDropRef ==
  ASSUME Inv, Inv', Reached, DropRef
  PROVE  Reached'
<1> DEFINE p == freeing
<1>1. /\ p \in Allocated /\ p # Null /\ mem[p].ref # 1
      /\ Allocated' = Allocated /\ mem' = [mem EXCEPT ![p].ref = (@ + 255) % 256]
      /\ freeing' = Null /\ held' = held
  BY DEF DropRef, Inv, NothingDangles, Allocated
<1>2. mem[p].ref = held[p] + Cardinality(Before(p)) + 1 /\ held[p] \in Nat
  BY <1>1 DEF Inv, TypeOK, RefsCounted
<1>3. held[p] > 0 \/ Before(p) # {}
  <2>1. Before(p) = {} => Cardinality(Before(p)) = 0
    BY FS_EmptySet
  <2> QED
    BY <1>1, <1>2, <2>1
<1>4. \A q \in Allocated : mem'[q].next = mem[q].next
  <2>1. \A q \in Allocated : mem[q] \in Fields
    BY DEF Inv, TypeOK
  <2>2. /\ mem'[p] = [mem[p] EXCEPT !.ref = (mem[p].ref + 255) % 256]
        /\ \A q \in Allocated : q # p => mem'[q] = mem[q]
    BY <1>1 DEF Inv, TypeOK
  <2>3. mem'[p].next = mem[p].next
    BY <1>1, <2>1, <2>2 DEF Fields
  <2> QED
    BY <2>2, <2>3
<1>5. \A q \in Allocated : held'[q] > 0 \/ freeing' = q
                           \/ ~(held[q] > 0 \/ freeing = q)
                           \/ \E x \in Allocated : mem[x].next = q
  BY <1>1, <1>3 DEF Before
<1> QED
  BY <1>1, <1>4, <1>5, SamePointers DEF Inv

LEMMA ReachedDechain ==
  ASSUME Inv, Inv', Reached, NEW p \in Pbuf, pbuf_dechain(p)
  PROVE  Reached'
<1>1. /\ freeing = Null /\ held[p] > 0 /\ held' = held /\ Allocated' = Allocated
      /\ mem' = [mem EXCEPT ![p] = [@ EXCEPT !.next = Null, !.tot_len = mem[p].len]]
      /\ freeing' = mem[p].next
  BY DEF pbuf_dechain, Idle, Allocated
<1>2. p \in Allocated /\ mem[p] \in Fields
  BY <1>1 DEF Inv, TypeOK, NothingDangles
<1>3. /\ mem'[p].next = Null
      /\ \A q \in Allocated : q # p => mem'[q].next = mem[q].next
  BY <1>1, <1>2 DEF Inv, TypeOK, Fields
<1>4. Acyclic'
  BY <1>1, <1>3, AcyclicLess DEF Reached, Inv
<1>5. ASSUME NEW q \in Allocated
      PROVE  held'[q] > 0 \/ freeing' = q \/ \E x \in Allocated : mem'[x].next = q
  <2>1. q # freeing
    BY <1>1, Constants DEF Inv, TypeOK
  <2>2. held[q] > 0 \/ \E x \in Allocated : mem[x].next = q
    BY <2>1 DEF Reached, Referred
  <2> QED
    BY <1>1, <1>3, <2>2
<1> QED
  BY <1>1, <1>4, <1>5 DEF Reached, Referred

LEMMA ReachedAlloc ==
  ASSUME Inv, Inv', Reached,
         NEW p \in Pbuf, NEW o \in Offsets, NEW n \in Lens, pbuf_alloc(p, o, n)
  PROVE  Reached'
<1>1. /\ p \notin Allocated /\ Allocated' = Allocated \cup {p}
      /\ \A q \in Allocated : mem'[q].next = mem[q].next
      /\ held' = [held EXCEPT ![p] = 1] /\ freeing' = freeing
  BY DEF pbuf_alloc, Allocated
<1>2. Acyclic'
  BY AcyclicAlloc DEF Reached
<1>3. held'[p] = 1 /\ \A q \in Allocated : held'[q] = held[q]
  BY <1>1 DEF Inv, TypeOK
<1>4. Referred'
  BY <1>1, <1>3 DEF Reached, Referred
<1> QED
  BY <1>2, <1>4 DEF Reached

\* pbuf_free takes the pointer the caller gives up.
LEMMA ReachedFree ==
  ASSUME Inv, Inv', Reached, NEW p \in Pbuf, pbuf_free(p)
  PROVE  Reached'
<1>1. /\ mem' = mem /\ Allocated' = Allocated /\ freeing = Null /\ freeing' = p
      /\ held' = [held EXCEPT ![p] = @ - 1]
  BY DEF pbuf_free, Idle, Allocated
<1>2. \A q \in Allocated : q # p => q # freeing /\ held'[q] = held[q]
  BY <1>1, Constants DEF Inv, TypeOK
<1> QED
  BY <1>1, <1>2, SamePointers DEF Inv

LEMMA ReachedRefIncrease ==
  ASSUME Inv, Inv', Reached, NEW p \in Pbuf, pbuf_ref_increase(p)
  PROVE  Reached'
<1>1. /\ held[p] > 0 /\ held[p] \in Nat /\ Allocated' = Allocated
      /\ mem' = [mem EXCEPT ![p].ref = (@ + 1) % 256]
      /\ held' = [held EXCEPT ![p] = @ + 1] /\ freeing' = freeing
  BY DEF pbuf_ref_increase, Idle, Allocated, Inv, TypeOK
<1>2. \A q \in Allocated : mem'[q].next = mem[q].next
  BY <1>1 DEF Inv, TypeOK, Fields
<1>3. \A q \in Allocated : held[q] > 0 => held'[q] > 0
  BY <1>1 DEF Inv, TypeOK
<1> QED
  BY <1>1, <1>2, <1>3, SamePointers DEF Inv

LEMMA ReachedHeader ==
  ASSUME Inv, Inv', Reached, NEW p \in Pbuf, NEW n \in Hdrs,
         pbuf_add_header(p, n) \/ pbuf_remove_header(p, n)
  PROVE  Reached'
<1>1. /\ p \in Allocated /\ Allocated' = Allocated
      /\ held' = held /\ freeing' = freeing
  BY DEF pbuf_add_header, pbuf_remove_header, Allocated, Inv, NothingDangles
<1>2. ASSUME NEW q \in Allocated
      PROVE  mem'[q].next = mem[q].next
  <2>1. mem[q] \in Fields
    BY DEF Inv, TypeOK
  <2>2. CASE pbuf_add_header(p, n)
    <3> DEFINE a == mem[p].room - n
               b == mem[p].len + n
               c == mem[p].tot_len + n
    <3>1. mem' = [mem EXCEPT ![p].room = a, ![p].len = b, ![p].tot_len = c]
      BY <2>2 DEF pbuf_add_header
    <3> HIDE DEF a, b, c
    <3>2. mem \in [Allocated -> Fields]
      BY DEF Inv, TypeOK
    <3>3. mem'[p] = [mem[p] EXCEPT !.room = a, !.len = b, !.tot_len = c]
      BY <1>1, <3>1, <3>2, SMTT(30)
    <3>4. q # p => mem'[q] = mem[q]
      BY <1>1, <3>1, <3>2
    <3>5. [mem[p] EXCEPT !.room = a, !.len = b, !.tot_len = c].next = mem[p].next
      BY <1>1, <3>2 DEF Fields
    <3> QED
      BY <3>3, <3>4, <3>5
  <2>3. CASE pbuf_remove_header(p, n)
    <3> DEFINE a == mem[p].room + n
               b == mem[p].len - n
               c == LessHdr(mem[p].tot_len, n)
    <3>1. mem' = [mem EXCEPT ![p].room = a, ![p].len = b, ![p].tot_len = c]
      BY <2>3 DEF pbuf_remove_header
    <3> HIDE DEF a, b, c
    <3>2. mem \in [Allocated -> Fields]
      BY DEF Inv, TypeOK
    <3>3. mem'[p] = [mem[p] EXCEPT !.room = a, !.len = b, !.tot_len = c]
      BY <1>1, <3>1, <3>2, SMTT(30)
    <3>4. q # p => mem'[q] = mem[q]
      BY <1>1, <3>1, <3>2
    <3>5. [mem[p] EXCEPT !.room = a, !.len = b, !.tot_len = c].next = mem[p].next
      BY <1>1, <3>2 DEF Fields
    <3> QED
      BY <3>3, <3>4, <3>5
  <2> QED
    BY <2>2, <2>3
<1> QED
  BY <1>1, <1>2, SamePointers DEF Inv

LEMMA ReachedStep ==
  ASSUME Inv, Inv', Reached, [Next]_pvars
  PROVE  Reached'
<1>1. ASSUME NEW p \in Pbuf, NEW o \in Offsets, NEW n \in Lens, pbuf_alloc(p, o, n)
      PROVE  Reached'
  BY <1>1, ReachedAlloc
<1>2. ASSUME NEW p \in Pbuf,
             pbuf_free(p) \/ pbuf_ref_increase(p) \/ pbuf_dechain(p)
      PROVE  Reached'
  BY <1>2, ReachedFree, ReachedRefIncrease, ReachedDechain
<1>3. ASSUME NEW p \in Pbuf, NEW q \in Pbuf, pbuf_cat(p, q) \/ pbuf_chain(p, q)
      PROVE  Reached'
  <2>1. \E n : \E last \in Allocated :
          IsLast(last, p) /\ mem' = Joined(p, q, last, n)
    BY <1>3 DEF pbuf_cat, pbuf_chain
  <2>2. MayJoin(p, q) /\ freeing' = freeing
    BY <1>3 DEF pbuf_cat, pbuf_chain
  <2>3. \A x \in Pbuf \ {q} : held'[x] = held[x]
    <3>1. held' = held \/ held' = [held EXCEPT ![q] = @ - 1]
      BY <1>3 DEF pbuf_cat, pbuf_chain
    <3> QED
      BY <3>1 DEF Inv, TypeOK
  <2> QED
    BY <2>1, <2>2, <2>3, ReachedJoin
<1>4. ASSUME NEW p \in Pbuf, NEW n \in Hdrs,
             pbuf_add_header(p, n) \/ pbuf_remove_header(p, n)
      PROVE  Reached'
  BY <1>4, ReachedHeader
<1>5. ASSUME UNCHANGED <<mem, held, freeing>>
      PROVE  Reached'
  <2>1. /\ Allocated' = Allocated /\ \A q : mem'[q].next = mem[q].next
        /\ \A q : held'[q] = held[q] /\ freeing' = freeing
    BY <1>5 DEF Allocated
  <2> QED
    BY <2>1, SamePointers DEF Inv
<1> QED
  BY <1>1, <1>2, <1>3, <1>4, <1>5, ReachedRelease, ReachedDropRef
  DEF Next, DechainReturns, pvars

LEMMA ReachedInit == Init => Reached
<1> SUFFICES ASSUME Init PROVE Reached
  OBVIOUS
<1>1. Allocated = {} /\ NextOf = [q \in {} |-> mem[q].next]
  BY DEF Init, Allocated, NextOf
<1>2. Ascending(Allocated, NextOf, Null, [q \in {} |-> 0])
  BY <1>1 DEF Ascending
<1> QED
  BY <1>1, <1>2 DEF Reached, Acyclic, Referred

\* Of the pbufs no caller can reach the first in the order of the ranks would
\* have no pointer to it.
LEMMA ReachedIsNoLeak ==
  ASSUME Inv, Reached
  PROVE  NoLeak
<1> SUFFICES ASSUME Idle, NEW p \in Allocated,
                    \A q \in Allocated : held[q] > 0 => p \notin ChainSet(q)
             PROVE  FALSE
  BY DEF NoLeak
<1>1. PICK rank : Ascending(Allocated, NextOf, Null, rank)
  BY DEF Reached, Acyclic
<1>2. \A x \in Allocated : rank[x] \in Nat
  BY <1>1 DEF Ascending
<1> DEFINE Lost == {x \in Allocated :
                      \A q \in Allocated : held[q] > 0 => x \notin ChainSet(q)}
           R == {rank[x] : x \in Lost}
<1>3. PICK m \in R : \A n \in R : m <= n
  <2>1. R \in SUBSET Nat /\ R # {}
    BY <1>2
  <2> HIDE DEF R
  <2> QED
    BY <2>1, LeastElement
<1>4. PICK x \in Lost : m = rank[x]
  OBVIOUS
<1>5. x \in Allocated /\ x # Null /\ freeing # x
  BY Constants DEF Inv, TypeOK, Idle
<1>6. ~(held[x] > 0)
  BY <1>4, <1>5, ChainClosed DEF Reached
<1>7. PICK y \in Allocated : mem[y].next = x
  BY <1>5, <1>6 DEF Reached, Referred
<1>8. rank[y] < rank[x]
  BY <1>1, <1>5, <1>7 DEF Ascending, NextOf
<1>9. y \notin Lost
  <2>1. y \in Lost => rank[x] <= rank[y]
    BY <1>3, <1>4
  <2> QED
    BY <1>2, <1>5, <1>8, <2>1
<1>10. PICK q \in Allocated : held[q] > 0 /\ y \in ChainSet(q)
  BY <1>9
<1>11. x \in ChainSet(q)
  BY <1>5, <1>7, <1>10, ChainClosed DEF Reached
<1> QED
  BY <1>4, <1>10, <1>11

\* Whatever is allocated, chained, split, shared and freed, a pbuf that is still
\* allocated when no call is in progress can be reached from a pointer a caller
\* holds: pbuf_free and pbuf_dechain leave nothing behind.
THEOREM PbufsNeverLeak == Spec => []NoLeak
<1>1. Inv /\ Inv' /\ Reached /\ [Next]_pvars => Reached'
  BY ReachedStep
<1>2. Inv /\ Reached => NoLeak
  BY ReachedIsNoLeak
<1> QED
  BY <1>1, <1>2, ReachedInit, InvHolds, PTL DEF Spec

-----------------------------------------------------------------------------
(***************************************************************************)
(* What is put into a chain fits it, and is collected from the same places.*)
(***************************************************************************)

\* The length of what follows p in its chain.
Behind(p) == IF mem[p].next = Null THEN 0 ELSE mem[mem[p].next].tot_len

\* A chain is at least as long as its first pbuf says; it is longer when a
\* header has been added behind that pbuf.
Covered == \A p \in Allocated : mem[p].tot_len <= mem[p].len + Behind(p)

LEMMA ChainIs ==
  ASSUME Inv, Acyclic, NEW p \in Allocated
  PROVE  /\ Chain(p) \in Seq(Allocated)
         /\ Len(Chain(p)) \in Nat \ {0} /\ Chain(p)[1] = p
         /\ DOMAIN Chain(p) = 1..Len(Chain(p))
         /\ \A i \in DOMAIN Chain(p) :
              /\ Chain(p)[i] \in Allocated
              /\ mem[Chain(p)[i]].next # Null =>
                   i + 1 \in DOMAIN Chain(p) /\ Chain(p)[i + 1] = mem[Chain(p)[i]].next
              /\ i # 1 => i - 1 \in DOMAIN Chain(p)
                          /\ mem[Chain(p)[i - 1]].next = Chain(p)[i]
<1>1. /\ IsFiniteSet(Allocated) /\ Null \notin Allocated
      /\ NextOf \in [Allocated -> Allocated \cup {Null}]
      /\ \A x \in Allocated : NextOf[x] = mem[x].next
  BY AllocatedFinite, Constants DEF Inv, TypeOK, NothingDangles, NextOf
<1>2. PICK rank : Ascending(Allocated, NextOf, Null, rank)
  BY DEF Acyclic
<1>3. p \in Allocated \cup {Null} /\ p # Null
  BY <1>1
<1> DEFINE l == ListFrom(p, NextOf, Null)
<1>4. /\ l \in Seq(Allocated)
      /\ Len(l) > 0 /\ l[1] = p
      /\ \A i \in DOMAIN l : NextOf[l[i]] # Null =>
           i + 1 \in DOMAIN l /\ l[i + 1] = NextOf[l[i]]
      /\ \A i \in DOMAIN l : i # 1 =>
           i - 1 \in DOMAIN l /\ NextOf[l[i - 1]] = l[i]
  BY <1>1, <1>2, <1>3, ListFromProperties
<1>5. Chain(p) = l
  BY DEF Chain
<1> HIDE DEF l
<1>6. Len(l) \in Nat /\ DOMAIN l = 1..Len(l) /\ \A i \in DOMAIN l : l[i] \in Allocated
  BY <1>4, LenProperties
<1> QED
  BY <1>1, <1>4, <1>5, <1>6

\* Only the last pbuf of a chain has none behind it.
LEMMA OneLast ==
  ASSUME Inv, Acyclic, NEW p \in Allocated, NEW x, NEW y,
         IsLast(x, p), IsLast(y, p)
  PROVE  x = y
<1> DEFINE l == Chain(p)
<1>1. /\ Len(l) \in Nat /\ DOMAIN l = 1..Len(l)
      /\ \A i \in DOMAIN l :
           /\ l[i] \in Allocated
           /\ i # 1 => i - 1 \in DOMAIN l /\ mem[l[i - 1]].next = l[i]
  BY ChainIs
<1>2. Null \notin Allocated
  BY Constants DEF Inv, TypeOK
<1>3. ASSUME NEW z, IsLast(z, p) PROVE z = l[Len(l)]
  <2>1. PICK i \in DOMAIN l : l[i] = z /\ mem[z].next = Null
    BY <1>3 DEF IsLast, ChainSet
  <2>2. CASE i = Len(l)
    BY <2>1, <2>2
  <2>3. CASE i # Len(l)
    <3>1. i + 1 \in DOMAIN l /\ i + 1 # 1 /\ (i + 1) - 1 = i
      BY <1>1, <2>3
    <3> HIDE DEF l
    <3>2. mem[l[i]].next = l[i + 1] /\ l[i + 1] \in Allocated
      BY <1>1, <3>1
    <3> QED
      BY <1>2, <2>1, <3>2
  <2> QED
    BY <2>2, <2>3
<1> HIDE DEF l
<1> QED
  BY <1>3

\* Nothing that Covered speaks of changes.
LEMMA CoveredSame ==
  ASSUME Covered, NothingDangles', Allocated' \subseteq Allocated,
         \A q \in Allocated' : /\ mem'[q].next = mem[q].next
                              /\ mem'[q].len = mem[q].len
                              /\ mem'[q].tot_len = mem[q].tot_len
  PROVE  Covered'
<1> SUFFICES ASSUME NEW p \in Allocated'
             PROVE  mem'[p].tot_len <= mem'[p].len + Behind(p)'
  BY DEF Covered
<1>1. p \in Allocated /\ Behind(p)' = Behind(p)
  BY DEF NothingDangles, Behind
<1> QED
  BY <1>1 DEF Covered

LEMMA CoveredAlloc ==
  ASSUME Inv, Covered,
         NEW p \in Pbuf, NEW o \in Offsets, NEW n \in Lens, pbuf_alloc(p, o, n)
  PROVE  Covered'
<1>1. /\ p \notin Allocated /\ Allocated' = Allocated \cup {p}
      /\ mem'[p] = NewPbuf(o, n)
      /\ \A q \in Allocated : mem'[q] = mem[q]
  BY DEF pbuf_alloc, Allocated
<1>2. Behind(p)' = 0 /\ mem'[p].tot_len = n /\ mem'[p].len = n /\ n \in Nat
  BY <1>1, Constants DEF NewPbuf, Behind
<1>3. ASSUME NEW q \in Allocated
      PROVE  mem'[q].tot_len <= mem'[q].len + Behind(q)'
  <2>1. Behind(q)' = Behind(q)
    BY <1>1 DEF Behind, Inv, NothingDangles
  <2> QED
    BY <1>1, <2>1 DEF Covered
<1> QED
  BY <1>1, <1>2, <1>3 DEF Covered

\* The lengths when after has been linked behind front.
LEMMA JoinedLengths ==
  ASSUME Inv, NEW front \in Pbuf, NEW after \in Pbuf, MayJoin(front, after),
         NEW last, NEW n, mem' = Joined(front, after, last, n)
  PROVE  \A p \in Allocated :
           /\ mem[p].tot_len \in Nat /\ mem[p].len \in Nat
           /\ mem'[p].len = mem[p].len
           /\ mem'[p].tot_len = IF p \in ChainSet(front)
                                THEN mem[p].tot_len + mem[after].tot_len
                                ELSE mem[p].tot_len
<1> SUFFICES ASSUME NEW p \in Allocated
             PROVE  /\ mem[p].tot_len \in Nat /\ mem[p].len \in Nat
                    /\ mem'[p].len = mem[p].len
                    /\ mem'[p].tot_len = IF p \in ChainSet(front)
                                         THEN mem[p].tot_len + mem[after].tot_len
                                         ELSE mem[p].tot_len
  OBVIOUS
<1> DEFINE x == IF p = last THEN after ELSE mem[p].next
           t == IF p \in ChainSet(front)
                THEN (mem[p].tot_len + mem[after].tot_len) % WordMod
                ELSE mem[p].tot_len
           r == IF p = after THEN (mem[p].ref + n) % 256 ELSE mem[p].ref
<1>1. mem[p] \in Fields /\ mem[after] \in Fields
  BY DEF MayJoin, Inv, TypeOK, NothingDangles
<1>2. mem'[p] = [mem[p] EXCEPT !.next = x, !.tot_len = t, !.ref = r]
  BY DEF Joined
<1>3. p \in ChainSet(front) => t = mem[p].tot_len + mem[after].tot_len
  <2>1. SUFFICES ASSUME p \in ChainSet(front)
                 PROVE  t = mem[p].tot_len + mem[after].tot_len
    OBVIOUS
  <2>2. mem[p].tot_len + mem[after].tot_len < WordMod
    BY <2>1 DEF MayJoin
  <2>3. PICK a \in Nat, b \in Nat : a = mem[p].tot_len /\ b = mem[after].tot_len
    BY <1>1 DEF Fields
  <2>4. (a + b) % WordMod = a + b
    BY <2>2, <2>3, Constants
  <2> QED
    BY <2>1, <2>3, <2>4
<1>4. p \notin ChainSet(front) => t = mem[p].tot_len
  OBVIOUS
<1> HIDE DEF x, t, r
<1>5. /\ mem'[p].tot_len = t /\ mem'[p].len = mem[p].len
      /\ mem[p].tot_len \in Nat /\ mem[p].len \in Nat
  BY <1>1, <1>2 DEF Fields
<1> QED
  BY <1>3, <1>4, <1>5

LEMMA CoveredJoin ==
  ASSUME Inv, Acyclic, Covered, NEW front \in Pbuf, NEW after \in Pbuf,
         MayJoin(front, after),
         NEW last \in Allocated, IsLast(last, front), NEW n,
         mem' = Joined(front, after, last, n)
  PROVE  Covered'
<1>1. /\ Allocated' = Allocated /\ after \in Allocated
      /\ mem[last].next = Null /\ mem'[last].next = after
      /\ \A p \in Allocated : p # last => mem'[p].next = mem[p].next
      /\ last \in ChainSet(front)
  BY JoinedNext
<1>2. front \in Allocated /\ Null \notin Allocated
  BY Constants DEF MayJoin, Inv, NothingDangles, TypeOK
<1>3. after \notin ChainSet(front)
  <2>1. after \in ChainSet(after)
    BY <1>1, ChainClosed
  <2> QED
    BY <2>1 DEF MayJoin
<1>4. /\ \A p \in Allocated :
           /\ mem[p].tot_len \in Nat /\ mem[p].len \in Nat
           /\ mem'[p].len = mem[p].len
           /\ mem'[p].tot_len = IF p \in ChainSet(front)
                                THEN mem[p].tot_len + mem[after].tot_len
                                ELSE mem[p].tot_len
  BY JoinedLengths
<1> SUFFICES ASSUME NEW p \in Allocated
             PROVE  mem'[p].tot_len <= mem'[p].len + Behind(p)'
  BY <1>1 DEF Covered
<1>5. mem[p].tot_len <= mem[p].len + Behind(p)
  BY DEF Covered
<1>6. CASE p = last
  <2>1. Behind(p) = 0 /\ Behind(p)' = mem[after].tot_len
    BY <1>1, <1>2, <1>3, <1>4, <1>6 DEF Behind
  <2> QED
    BY <1>1, <1>4, <1>5, <1>6, <2>1
<1>7. CASE p # last /\ p \in ChainSet(front)
  <2>1. mem[p].next # Null
    BY <1>2, <1>7, OneLast DEF IsLast
  <2>2. mem[p].next \in ChainSet(front) /\ mem[p].next \in Allocated
    BY <1>2, <1>7, <2>1, ChainClosed
  <2>3. /\ Behind(p) = mem[mem[p].next].tot_len
        /\ Behind(p)' = mem[mem[p].next].tot_len + mem[after].tot_len
    BY <1>1, <1>4, <1>7, <2>1, <2>2 DEF Behind
  <2> QED
    BY <1>1, <1>4, <1>5, <1>7, <2>2, <2>3
<1>8. CASE p # last /\ p \notin ChainSet(front)
  <2>1. Behind(p) \in Nat /\ Behind(p)' \in Nat /\ Behind(p) <= Behind(p)'
    <3>1. CASE mem[p].next = Null
      BY <1>1, <1>8, <3>1 DEF Behind
    <3>2. CASE mem[p].next # Null
      <4>1. mem[p].next \in Allocated
        BY <3>2 DEF Inv, NothingDangles
      <4> QED
        BY <1>1, <1>4, <1>8, <3>2, <4>1 DEF Behind
    <3> QED
      BY <3>1, <3>2
  <2> QED
    BY <1>4, <1>5, <1>8, <2>1
<1> QED
  BY <1>6, <1>7, <1>8

LEMMA CoveredDechain ==
  ASSUME Inv, Covered, NEW p \in Pbuf, pbuf_dechain(p)
  PROVE  Covered'
<1>1. /\ held[p] > 0 /\ IsHead(p) /\ Allocated' = Allocated
      /\ mem' = [mem EXCEPT ![p] = [@ EXCEPT !.next = Null, !.tot_len = mem[p].len]]
  BY DEF pbuf_dechain, Allocated
<1>2. p \in Allocated /\ mem[p] \in Fields
  BY <1>1 DEF Inv, TypeOK, NothingDangles
<1>3. /\ mem'[p].next = Null /\ mem'[p].tot_len = mem[p].len
      /\ mem'[p].len = mem[p].len /\ mem[p].len \in Nat
      /\ \A q \in Allocated : q # p => mem'[q] = mem[q]
  BY <1>1, <1>2 DEF Inv, TypeOK, Fields
<1>4. ASSUME NEW q \in Allocated, q # p
      PROVE  mem'[q].tot_len <= mem'[q].len + Behind(q)'
  <2>1. mem[q].next # p
    BY <1>1 DEF IsHead
  <2>2. Behind(q)' = Behind(q)
    BY <1>3, <1>4, <2>1 DEF Behind, Inv, NothingDangles
  <2> QED
    BY <1>3, <1>4, <2>2 DEF Covered
<1>5. mem'[p].tot_len <= mem'[p].len + Behind(p)'
  BY <1>3 DEF Behind
<1> QED
  BY <1>1, <1>4, <1>5 DEF Covered

\* A header that is added makes pbufs in front of p no longer; one is removed
\* only where no pbuf is in front.
LEMMA CoveredHeader ==
  ASSUME Inv, Acyclic, Covered, NEW p \in Pbuf, NEW n \in Hdrs,
         pbuf_add_header(p, n) \/ pbuf_remove_header(p, n)
  PROVE  Covered'
<1>1. p \in Allocated /\ Allocated' = Allocated
  BY DEF pbuf_add_header, pbuf_remove_header, Allocated, Inv, NothingDangles
<1>2. /\ n \in Nat /\ mem \in [Allocated -> Fields]
      /\ \A q \in Allocated : mem[q].len \in Nat /\ mem[q].tot_len \in Nat
  BY Constants DEF Inv, TypeOK, Fields
<1>3. mem[p].next # p
  <2>1. PICK rank : Ascending(Allocated, NextOf, Null, rank)
    BY DEF Acyclic
  <2>2. p # Null /\ NextOf[p] = mem[p].next
    BY <1>1, Constants DEF NextOf
  <2>3. mem[p].next = p => rank[p] < rank[p] /\ rank[p] \in Nat
    BY <1>1, <2>1, <2>2 DEF Ascending
  <2> QED
    BY <2>3
<1>4. \E d \in {n, 0 - n} :
        /\ mem'[p].next = mem[p].next
        /\ mem'[p].len = mem[p].len + d /\ mem'[p].tot_len = mem[p].tot_len + d
        /\ d = n \/ IsHead(p)
  <2>1. CASE pbuf_add_header(p, n)
    <3> DEFINE a == mem[p].room - n
               b == mem[p].len + n
               c == mem[p].tot_len + n
    <3>1. mem' = [mem EXCEPT ![p].room = a, ![p].len = b, ![p].tot_len = c]
      BY <2>1 DEF pbuf_add_header
    <3>2. b = mem[p].len + n /\ c = mem[p].tot_len + n
      OBVIOUS
    <3> HIDE DEF a, b, c
    <3>3. mem'[p] = [mem[p] EXCEPT !.room = a, !.len = b, !.tot_len = c]
      BY <1>1, <1>2, <3>1, SMTT(30)
    <3>4. mem'[p].next = mem[p].next /\ mem'[p].len = b /\ mem'[p].tot_len = c
      BY <1>1, <1>2, <3>3 DEF Fields
    <3> QED
      BY <3>2, <3>4
  <2>2. CASE pbuf_remove_header(p, n)
    <3> DEFINE a == mem[p].room + n
               b == mem[p].len - n
               c == LessHdr(mem[p].tot_len, n)
    <3>1. mem' = [mem EXCEPT ![p].room = a, ![p].len = b, ![p].tot_len = c]
      BY <2>2 DEF pbuf_remove_header
    <3>2. b = mem[p].len + (0 - n) /\ c = mem[p].tot_len + (0 - n)
      BY <1>1, <1>2 DEF LessHdr
    <3> HIDE DEF a, b, c
    <3>3. mem'[p] = [mem[p] EXCEPT !.room = a, !.len = b, !.tot_len = c]
      BY <1>1, <1>2, <3>1, SMTT(30)
    <3>4. mem'[p].next = mem[p].next /\ mem'[p].len = b /\ mem'[p].tot_len = c
      BY <1>1, <1>2, <3>3 DEF Fields
    <3>5. IsHead(p)
      BY <2>2 DEF pbuf_remove_header
    <3> QED
      BY <3>2, <3>4, <3>5
  <2> QED
    BY <2>1, <2>2
<1>5. PICK d \in {n, 0 - n} :
        /\ mem'[p].next = mem[p].next
        /\ mem'[p].len = mem[p].len + d /\ mem'[p].tot_len = mem[p].tot_len + d
        /\ d = n \/ IsHead(p)
  BY <1>4
<1>6. \A q \in Allocated : q # p => mem'[q] = mem[q]
  BY <1>1, <1>2 DEF pbuf_add_header, pbuf_remove_header
<1>7. mem'[p].tot_len <= mem'[p].len + Behind(p)'
  <2>1. Behind(p)' = Behind(p) /\ Behind(p) \in Nat
    BY <1>1, <1>2, <1>3, <1>5, <1>6 DEF Behind, Inv, NothingDangles
  <2>2. mem[p].tot_len <= mem[p].len + Behind(p)
    BY <1>1 DEF Covered
  <2> QED
    BY <1>1, <1>2, <1>5, <2>1, <2>2
<1>8. ASSUME NEW q \in Allocated, q # p
      PROVE  mem'[q].tot_len <= mem'[q].len + Behind(q)'
  <2>1. mem[q].tot_len <= mem[q].len + Behind(q)
    BY DEF Covered
  <2>2. CASE mem[q].next = p
    <3>1. d = n
      BY <1>5, <2>2 DEF IsHead
    <3>2. Behind(q) = mem[p].tot_len /\ Behind(q)' = mem[p].tot_len + n
      BY <1>1, <1>5, <1>6, <1>8, <2>2, <3>1, Constants DEF Behind, Inv, TypeOK
    <3> QED
      BY <1>1, <1>2, <1>6, <1>8, <2>1, <3>2
  <2>3. CASE mem[q].next # p
    <3>1. Behind(q)' = Behind(q)
      BY <1>6, <1>8, <2>3 DEF Behind, Inv, NothingDangles
    <3> QED
      BY <1>6, <1>8, <2>1, <3>1
  <2> QED
    BY <2>2, <2>3
<1> QED
  BY <1>1, <1>7, <1>8 DEF Covered

LEMMA CoveredStep ==
  ASSUME Inv, Inv', Acyclic, Covered, [Next]_pvars
  PROVE  Covered'
<1>1. ASSUME NEW p \in Pbuf, NEW o \in Offsets, NEW n \in Lens, pbuf_alloc(p, o, n)
      PROVE  Covered'
  BY <1>1, CoveredAlloc
<1>2. ASSUME NEW p \in Pbuf, NEW q \in Pbuf, pbuf_cat(p, q) \/ pbuf_chain(p, q)
      PROVE  Covered'
  <2>1. /\ MayJoin(p, q)
        /\ \E n : \E last \in Allocated :
             IsLast(last, p) /\ mem' = Joined(p, q, last, n)
    BY <1>2 DEF pbuf_cat, pbuf_chain
  <2> QED
    BY <2>1, CoveredJoin
<1>3. ASSUME NEW p \in Pbuf, NEW n \in Hdrs,
             pbuf_add_header(p, n) \/ pbuf_remove_header(p, n)
      PROVE  Covered'
  BY <1>3, CoveredHeader
<1>4. ASSUME NEW p \in Allocated, NEW r, mem' = [mem EXCEPT ![p].ref = r]
      PROVE  Covered'
  <2>1. Allocated' = Allocated /\ mem \in [Allocated -> Fields]
    BY <1>4 DEF Allocated, Inv, TypeOK
  <2>2. /\ mem'[p] = [mem[p] EXCEPT !.ref = r]
        /\ \A q \in Allocated : q # p => mem'[q] = mem[q]
    BY <1>4, <2>1
  <2>3. /\ mem'[p].next = mem[p].next /\ mem'[p].len = mem[p].len
        /\ mem'[p].tot_len = mem[p].tot_len
    BY <2>1, <2>2 DEF Fields
  <2> QED
    BY <2>1, <2>2, <2>3, CoveredSame DEF Inv
<1>5. ASSUME NEW p \in Pbuf, pbuf_free(p) \/ pbuf_ref_increase(p) \/ pbuf_dechain(p)
      PROVE  Covered'
  <2>1. CASE pbuf_free(p)
    <3>1. mem' = mem /\ Allocated' = Allocated
      BY <2>1 DEF pbuf_free, Allocated
    <3> QED
      BY <3>1, CoveredSame DEF Inv
  <2>2. CASE pbuf_ref_increase(p)
    <3>1. p \in Allocated
      BY <2>2 DEF pbuf_ref_increase, Inv, TypeOK, NothingDangles
    <3> QED
      BY <1>4, <2>2, <3>1 DEF pbuf_ref_increase
  <2> QED
    BY <1>5, <2>1, <2>2, CoveredDechain
<1>6. CASE Release
  <2>1. Allocated' \subseteq Allocated /\ \A q \in Allocated' : mem'[q] = mem[q]
    BY <1>6 DEF Release, Allocated
  <2> QED
    BY <2>1, CoveredSame DEF Inv
<1>7. CASE DropRef
  <2>1. freeing \in Allocated
    BY <1>7 DEF DropRef, Inv, NothingDangles
  <2> QED
    BY <1>4, <1>7, <2>1 DEF DropRef
<1>8. CASE DechainReturns \/ UNCHANGED pvars
  <2>1. mem' = mem /\ Allocated' = Allocated
    BY <1>8 DEF DechainReturns, pvars, Allocated
  <2> QED
    BY <2>1, CoveredSame DEF Inv
<1> QED
  BY <1>1, <1>2, <1>3, <1>5, <1>6, <1>7, <1>8 DEF Next

\* The lengths of the pbufs of a chain.
LEMMA LensOfChain ==
  ASSUME Inv, Acyclic, NEW p \in Allocated
  PROVE  /\ LensOf(p) \in Seq(Nat)
         /\ Len(LensOf(p)) = Len(Chain(p)) /\ Len(Chain(p)) \in Nat
         /\ \A i \in 1..Len(Chain(p)) : LensOf(p)[i] = mem[Chain(p)[i]].len
<1> DEFINE l == Chain(p)
<1>1. /\ Len(l) \in Nat /\ DOMAIN l = 1..Len(l)
      /\ \A i \in DOMAIN l : l[i] \in Allocated
  BY ChainIs
<1>2. \A q \in Allocated : mem[q].len \in Nat
  BY DEF Inv, TypeOK, Fields
<1>3. LensOf(p) = [i \in 1..Len(l) |-> mem[l[i]].len]
  BY <1>1 DEF LensOf
<1> HIDE DEF l
<1>4. \A i \in 1..Len(l) : mem[l[i]].len \in Nat
  BY <1>1, <1>2
<1>5. LensOf(p) \in Seq(Nat)
  BY <1>1, <1>3, <1>4
<1>6. Len(LensOf(p)) = Len(l) /\ \A i \in 1..Len(l) : LensOf(p)[i] = mem[l[i]].len
  BY <1>1, <1>3, <1>5
<1> QED
  BY <1>1, <1>5, <1>6 DEF l

\* The turns of the loop of pbuf_take.
LEMMA TakenDef ==
  ASSUME NEW p, LensOf(p) \in Seq(Nat), NEW n \in Nat
  PROVE  \E w : /\ w[0] = [left |-> n, pieces |-> <<>>]
                /\ \A i \in 1..Len(LensOf(p)) : w[i] = Put(w[i - 1], LensOf(p)[i])
                /\ Taken(p, n) = w[Len(LensOf(p))]
<1> DEFINE lens == LensOf(p)
           L == Len(lens)
           T == [left : Nat, pieces : Seq(Nat)]
           b == [left |-> n, pieces |-> <<>>]
           s == [i \in 1..L |-> [x \in T |-> Put(x, lens[i])]]
           Rec(f) == f = [i \in 0..L |-> IF i = 0 THEN b ELSE Put(f[i - 1], lens[i])]
           r == CHOOSE f : Rec(f)
<1>1. L \in Nat /\ \A i \in 1..L : lens[i] \in Nat
  BY LenProperties
<1>2. ASSUME NEW x \in T, NEW l \in Nat PROVE Put(x, l) \in T
  <2>1. x.left \in Nat /\ x.pieces \in Seq(Nat)
    OBVIOUS
  <2>2. Piece(x, l) \in Nat /\ x.left - Piece(x, l) \in Nat
    BY <2>1 DEF Piece, Lesser
  <2>3. Append(x.pieces, Piece(x, l)) \in Seq(Nat)
    BY <2>1, <2>2, AppendProperties
  <2> QED
    BY <2>2, <2>3 DEF Put
<1>3. b \in T
  BY EmptySeq
<1> HIDE DEF T, b
<1>4. s \in [1..L -> [T -> T]]
  BY <1>1, <1>2
<1>5. PICK w \in [0..L -> T] : Solution(w, L, b, s)
  <2> HIDE DEF s, L
  <2> QED
    BY <1>1, <1>3, <1>4, RecursionExists
<1>6. w[0] = b /\ \A i \in 1..L : w[i] = Put(w[i - 1], lens[i])
  <2>1. \A i \in 1..L : i - 1 \in 0..L /\ w[i - 1] \in T
    BY <1>1
  <2>2. \A i \in 1..L : \A x \in T : s[i][x] = Put(x, lens[i])
    OBVIOUS
  <2> HIDE DEF s
  <2> QED
    BY <1>5, <2>1, <2>2 DEF Solution
<1>7. Rec(w)
  BY <1>1, <1>6
<1>8. Rec(r)
  <2> HIDE DEF Rec
  <2> QED
    BY <1>7
<1>9. Taken(p, n) = r[L]
  BY DEF Taken, b
<1> HIDE DEF r
<1>10. r[0] = b /\ \A i \in 1..L : r[i] = Put(r[i - 1], lens[i])
  BY <1>1, <1>8
<1> QED
  BY <1>9, <1>10 DEF b

\* The turns of the loop of pbuf_copy_to_swap without an offset.
LEMMA CopiedDef ==
  ASSUME NEW p, LensOf(p) \in Seq(Nat), NEW n \in Nat
  PROVE  \E w : /\ w[0] = [left |-> n, offset |-> 0, pieces |-> <<>>]
                /\ \A i \in 1..Len(LensOf(p)) : w[i] = Get(w[i - 1], LensOf(p)[i])
                /\ Copied(p, n, 0) = w[Len(LensOf(p))]
<1> DEFINE lens == LensOf(p)
           L == Len(lens)
           T == [left : Nat, offset : {0}, pieces : Seq(Nat)]
           b == [left |-> n, offset |-> 0, pieces |-> <<>>]
           s == [i \in 1..L |-> [x \in T |-> Get(x, lens[i])]]
           Rec(f) == f = [i \in 0..L |-> IF i = 0 THEN b ELSE Get(f[i - 1], lens[i])]
           r == CHOOSE f : Rec(f)
<1>1. L \in Nat /\ \A i \in 1..L : lens[i] \in Nat
  BY LenProperties
<1>2. ASSUME NEW x \in T, NEW l \in Nat PROVE Get(x, l) \in T
  <2>1. x.left \in Nat /\ x.pieces \in Seq(Nat) /\ x.offset = 0
    OBVIOUS
  <2> DEFINE c == Lesser(x.left, l - x.offset)
  <2>2. c \in Nat /\ x.left - c \in Nat
    BY <2>1 DEF Lesser
  <2>3. Append(x.pieces, c) \in Seq(Nat)
    BY <2>1, <2>2, AppendProperties
  <2>4. Get(x, l) = IF x.left = 0 THEN x
                    ELSE [left |-> x.left - c, offset |-> 0,
                          pieces |-> Append(x.pieces, c)]
    BY <2>1 DEF Get
  <2> HIDE DEF c
  <2> QED
    BY <2>2, <2>3, <2>4
<1>3. b \in T
  BY EmptySeq
<1> HIDE DEF T, b
<1>4. s \in [1..L -> [T -> T]]
  BY <1>1, <1>2
<1>5. PICK w \in [0..L -> T] : Solution(w, L, b, s)
  <2> HIDE DEF s, L
  <2> QED
    BY <1>1, <1>3, <1>4, RecursionExists
<1>6. w[0] = b /\ \A i \in 1..L : w[i] = Get(w[i - 1], lens[i])
  <2>1. \A i \in 1..L : i - 1 \in 0..L /\ w[i - 1] \in T
    BY <1>1
  <2>2. \A i \in 1..L : \A x \in T : s[i][x] = Get(x, lens[i])
    OBVIOUS
  <2> HIDE DEF s
  <2> QED
    BY <1>5, <2>1, <2>2 DEF Solution
<1>7. Rec(w)
  BY <1>1, <1>6
<1>8. Rec(r)
  <2> HIDE DEF Rec
  <2> QED
    BY <1>7
<1>9. Copied(p, n, 0) = r[L]
  BY DEF Copied, b
<1> HIDE DEF r
<1>10. r[0] = b /\ \A i \in 1..L : r[i] = Get(r[i - 1], lens[i])
  BY <1>1, <1>8
<1> QED
  BY <1>9, <1>10 DEF b

\* A turn of both loops: they copy as much, and what is left fits the rest.
LEMMA SameTurn ==
  ASSUME NEW n \in Nat, NEW l \in Nat, NEW x, NEW s,
         NEW rest1 \in Nat, n <= l + rest1
  PROVE  LET t == Put([left |-> n, pieces |-> s], l)
             c == Get([left |-> n, offset |-> 0, pieces |-> s], l)
         IN  /\ t = [left |-> t.left, pieces |-> t.pieces]
             /\ t.left \in Nat /\ t.left <= rest1
             /\ c = [left |-> t.left, offset |-> 0, pieces |-> t.pieces]
<1> DEFINE a == [left |-> n, pieces |-> s]
           b == [left |-> n, offset |-> 0, pieces |-> s]
           d == Lesser(n, l)
<1>1. d \in Nat /\ n - d \in Nat /\ n - d <= rest1
  BY DEF Lesser
<1>2. Put(a, l) = IF n = 0 THEN a ELSE [left |-> n - d, pieces |-> Append(s, d)]
  BY DEF Put, Piece
<1>3. Get(b, l) = IF n = 0 THEN b
                  ELSE [left |-> n - d, offset |-> 0, pieces |-> Append(s, d)]
  <2>1. l - b.offset = l /\ b.left = n /\ b.pieces = s /\ b.offset = 0
    OBVIOUS
  <2> HIDE DEF b
  <2> QED
    BY <2>1 DEF Get
<1> HIDE DEF d
<1> DEFINE t == Put(a, l)
           c == Get(b, l)
<1>4. CASE n = 0
  <2>1. t = a /\ c = b
    BY <1>2, <1>3, <1>4
  <2> HIDE DEF t, c
  <2> QED
    BY <1>4, <2>1 DEF t, c
<1>5. CASE n # 0
  <2> DEFINE q == Append(s, d)
             k == n - d
  <2>1. t = [left |-> k, pieces |-> q] /\ c = [left |-> k, offset |-> 0, pieces |-> q]
    BY <1>2, <1>3, <1>5
  <2>2. k \in Nat /\ k <= rest1
    BY <1>1
  <2> HIDE DEF t, c, k, q
  <2>3. t.left = k /\ t.pieces = q
    BY <2>1
  <2> QED
    BY <2>1, <2>2, <2>3 DEF t, c
<1> QED
  BY <1>4, <1>5

LEMMA ChainFits ==
  ASSUME Inv, Acyclic, Covered, NEW p \in Allocated, NEW n \in 1..mem[p].tot_len
  PROVE  /\ Taken(p, n).left = 0
         /\ Copied(p, n, 0).pieces = Taken(p, n).pieces
<1> DEFINE l == Chain(p)
           L == Len(l)
           lens == LensOf(p)
           Rest(i) == IF i = L THEN 0 ELSE mem[l[i + 1]].tot_len
<1>1. /\ L \in Nat \ {0} /\ DOMAIN l = 1..L /\ l[1] = p
      /\ \A i \in DOMAIN l :
           /\ l[i] \in Allocated
           /\ mem[l[i]].next # Null => i + 1 \in DOMAIN l /\ l[i + 1] = mem[l[i]].next
           /\ i # 1 => i - 1 \in DOMAIN l /\ mem[l[i - 1]].next = l[i]
  BY ChainIs
<1>2. /\ lens \in Seq(Nat) /\ Len(lens) = L
      /\ \A i \in 1..L : lens[i] = mem[l[i]].len
  BY LensOfChain
<1>3. /\ Null \notin Allocated
      /\ \A q \in Allocated : mem[q].len \in Nat /\ mem[q].tot_len \in Nat
  BY Constants DEF Inv, TypeOK, Fields
<1>4. n \in Nat /\ n <= mem[p].tot_len
  BY <1>3
<1>5. PICK w : /\ w[0] = [left |-> n, pieces |-> <<>>]
               /\ \A i \in 1..L : w[i] = Put(w[i - 1], lens[i])
               /\ Taken(p, n) = w[L]
  BY <1>2, <1>4, TakenDef
<1>6. PICK v : /\ v[0] = [left |-> n, offset |-> 0, pieces |-> <<>>]
               /\ \A i \in 1..L : v[i] = Get(v[i - 1], lens[i])
               /\ Copied(p, n, 0) = v[L]
  BY <1>2, <1>4, CopiedDef
<1> HIDE DEF l, L, lens
<1>7. \A i \in 0..L : Rest(i) \in Nat
  <2> TAKE i \in 0..L
  <2>1. i # L => i + 1 \in 1..L
    BY <1>1
  <2> QED
    BY <1>1, <1>3, <2>1
<1>8. \A i \in 1..L : Rest(i - 1) <= lens[i] + Rest(i)
  <2> TAKE i \in 1..L
  <2>1. Rest(i - 1) = mem[l[i]].tot_len
    BY <1>1
  <2>2. mem[l[i]].tot_len <= mem[l[i]].len + Behind(l[i])
    BY <1>1 DEF Covered
  <2>3. Behind(l[i]) = Rest(i)
    <3>1. CASE i = L
      <4>1. mem[l[i]].next = Null
        BY <1>1, <3>1
      <4> QED
        BY <3>1, <4>1 DEF Behind
    <3>2. CASE i # L
      <4>1. i + 1 \in DOMAIN l /\ i + 1 # 1 /\ (i + 1) - 1 = i
        BY <1>1, <3>2
      <4>2. mem[l[i]].next = l[i + 1] /\ l[i + 1] \in Allocated
        BY <1>1, <4>1
      <4> QED
        BY <1>3, <3>2, <4>2 DEF Behind
    <3> QED
      BY <3>1, <3>2
  <2> QED
    BY <1>2, <2>1, <2>2, <2>3
<1> DEFINE Good(i) == /\ w[i] = [left |-> w[i].left, pieces |-> w[i].pieces]
                      /\ w[i].left \in Nat /\ w[i].left <= Rest(i)
                      /\ v[i] = [left |-> w[i].left, offset |-> 0,
                                 pieces |-> w[i].pieces]
           S == {i \in 0..L : ~Good(i)}
<1>9. S = {}
  <2>1. SUFFICES ASSUME S # {} PROVE FALSE
    OBVIOUS
  <2>2. PICK m \in S : \A i \in S : m <= i
    <3>1. S \in SUBSET Nat
      BY <1>1
    <3> HIDE DEF S
    <3> QED
      BY <2>1, <3>1, LeastElement
  <2>3. Good(0)
    <3>1. Rest(0) = mem[p].tot_len
      BY <1>1
    <3> HIDE DEF Rest
    <3> QED
      BY <1>4, <1>5, <1>6, <3>1
  <2>4. m \in 1..L
    BY <1>1, <2>3
  <2>5. m - 1 \in 0..L /\ Good(m - 1)
    <3>1. m - 1 \in 0..L /\ ~(m <= m - 1)
      BY <1>1, <2>4
    <3>2. m - 1 \notin S
      <4> HIDE DEF S
      <4> QED
        BY <2>2, <3>1
    <3> QED
      BY <3>1, <3>2
  <2> DEFINE k == w[m - 1].left
             s == w[m - 1].pieces
             t == Put([left |-> k, pieces |-> s], lens[m])
             c == Get([left |-> k, offset |-> 0, pieces |-> s], lens[m])
  <2>6. k \in Nat /\ lens[m] \in Nat /\ Rest(m) \in Nat /\ k <= lens[m] + Rest(m)
    <3>1. m \in 0..L /\ lens[m] \in Nat
      BY <1>1, <1>2, <1>3, <2>4
    <3>2. Rest(m) \in Nat /\ Rest(m - 1) \in Nat
      BY <1>7, <2>5, <3>1
    <3>3. Rest(m - 1) <= lens[m] + Rest(m)
      BY <1>8, <2>4
    <3>4. k \in Nat /\ k <= Rest(m - 1)
      BY <2>5
    <3> HIDE DEF Rest, k
    <3> QED
      BY <3>1, <3>2, <3>3, <3>4
  <2>7. w[m] = t /\ v[m] = c
    <3>1. w[m] = Put(w[m - 1], lens[m]) /\ v[m] = Get(v[m - 1], lens[m])
      BY <1>5, <1>6, <2>4
    <3>2. /\ w[m - 1] = [left |-> k, pieces |-> s]
          /\ v[m - 1] = [left |-> k, offset |-> 0, pieces |-> s]
      BY <2>5
    <3> QED
      BY <3>1, <3>2
  <2>8. /\ t = [left |-> t.left, pieces |-> t.pieces]
        /\ t.left \in Nat /\ t.left <= Rest(m)
        /\ c = [left |-> t.left, offset |-> 0, pieces |-> t.pieces]
    <3> HIDE DEF Rest, k, s
    <3> QED
      BY <2>6, SameTurn
  <2>9. Good(m)
    <3> HIDE DEF Rest, t, c
    <3> QED
      BY <2>7, <2>8
  <2> HIDE DEF Good
  <2> QED
    BY <2>9
<1>10. Good(L) /\ Rest(L) = 0
  BY <1>1, <1>9
<1>11. w[L].left = 0 /\ v[L].pieces = w[L].pieces
  BY <1>10
<1> QED
  BY <1>5, <1>6, <1>11

\* Whatever chains the operations build, as much data as the first pbuf says
\* fits the chain: pbuf_take, which does not look for the end, never runs past
\* it, and pbuf_copy_to_swap collects the data from where it was put.
THEOREM TakeStaysInChain == Spec => []RoundTrip
<1>1. Inv /\ Inv' /\ Reached /\ [Next]_pvars => Reached'
  BY ReachedStep
<1>2. Inv /\ Inv' /\ Reached /\ Covered /\ [Next]_pvars => Covered'
  BY CoveredStep DEF Reached
<1>3. Init => Covered
  BY DEF Init, Covered, Allocated
<1>4. Inv /\ Reached /\ Covered => RoundTrip
  BY ChainFits DEF Reached, RoundTrip
<1> QED
  BY <1>1, <1>2, <1>3, <1>4, ReachedInit, InvHolds, PTL DEF Spec

=============================================================================

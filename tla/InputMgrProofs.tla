--------------------------- MODULE InputMgrProofs ---------------------------
(***************************************************************************)
(* Proofs about the input manager, for every set of frames and every table *)
(* size: its invariants, and that the table implements the abstract        *)
(* deduplication window.                                                   *)
(***************************************************************************)
EXTENDS InputMgr, FiniteSetTheorems, TLAPS

Inv == TypeOK /\ OneSlotPerFrame

LEMMA SizesType == QueSize \in Nat /\ MaxAge \in Nat /\ 0 < MaxAge
BY SizesAssumption

LEMMA InitInv == Init => Inv
BY SizesType DEF Init, Inv, TypeOK, OneSlotPerFrame, Existed, Item

\* Entering a frame keeps the invariants: no slot holds it yet.
LEMMA FillInv ==
  ASSUME Inv, NEW k \in Key, Fill(k)
  PROVE  Inv'
<1>1. PICK s \in Slot :
        /\ FirstEmpty(s)
        /\ iput_msg_que' =
             [iput_msg_que EXCEPT ![s] =
                [state |-> "EXISTED", ctime |-> 0, key |-> k]]
  BY DEF Fill
<1>2. iput_msg_que \in [Slot -> Item]
  BY DEF Inv, TypeOK
<1>3. [state |-> "EXISTED", ctime |-> 0, key |-> k] \in Item
  BY SizesType DEF Item
<1>4. /\ iput_msg_que' \in [Slot -> Item]
      /\ iput_msg_que'[s] = [state |-> "EXISTED", ctime |-> 0, key |-> k]
      /\ \A r \in Slot : r # s => iput_msg_que'[r] = iput_msg_que[r]
  BY <1>1, <1>2, <1>3
<1>5. TypeOK'
  <2>1. \A r \in Slot : Existed(r)' =>
          iput_msg_que'[r].key \in Key /\ iput_msg_que'[r].ctime < MaxAge
    BY <1>4, SizesType DEF Inv, TypeOK, Existed
  <2> QED
    BY <1>4, <2>1 DEF TypeOK, Fill
<1>6. OneSlotPerFrame'
  <2>1. \A r \in Slot : Existed(r) => iput_msg_que[r].key # k
    BY DEF Fill, Found, Matches
  <2> QED
    BY <1>4, <2>1 DEF Inv, OneSlotPerFrame, Existed
<1> QED
  BY <1>5, <1>6 DEF Inv

\* What a tick does to each slot.
LEMMA TickSlots ==
  ASSUME Inv, Tick, NEW s \in Slot
  PROVE  /\ iput_msg_que'[s] \in Item
         /\ iput_msg_que'[s].key = iput_msg_que[s].key
         /\ ~Existed(s) => ~Existed(s)'
         /\ Existed(s) => iput_msg_que'[s].ctime = iput_msg_que[s].ctime + 1
         /\ Existed(s) => (Existed(s)' <=> iput_msg_que[s].ctime + 1 < MaxAge)
<1>1. /\ iput_msg_que[s] \in Item
      /\ Existed(s) => iput_msg_que[s].ctime < MaxAge
  BY DEF Inv, TypeOK
<1>2. CASE ~Existed(s)
  BY <1>1, <1>2 DEF Tick, Existed
<1>3. CASE Existed(s)
  <2> DEFINE n == iput_msg_que[s].ctime
             st == IF TooOld(Older(iput_msg_que[s]))
                   THEN "EMPTY" ELSE "EXISTED"
  <2>1. iput_msg_que'[s] =
          [iput_msg_que[s] EXCEPT !.ctime = n + 1, !.state = st]
    BY <1>3 DEF Tick, Older
  <2>2. n \in Nat /\ n + 1 \in 0..MaxAge /\ MaxAge \in Nat
    BY <1>1, <1>3, SizesType DEF Item
  <2>3. st \in {"EMPTY", "EXISTED"} /\ (st = "EXISTED" <=> n + 1 < MaxAge)
    BY <2>2 DEF TooOld, Older
  <2>4. /\ iput_msg_que'[s].state = st
        /\ iput_msg_que'[s].ctime = n + 1
        /\ iput_msg_que'[s].key = iput_msg_que[s].key
        /\ iput_msg_que'[s] \in Item
    BY <1>1, <2>1, <2>2, <2>3 DEF Item
  <2> QED
    BY <1>3, <2>3, <2>4 DEF Existed
<1> QED
  BY <1>2, <1>3

LEMMA TickInv ==
  ASSUME Inv, Tick
  PROVE  Inv'
<1>1. iput_msg_que' \in [Slot -> Item]
  <2>1. iput_msg_que' = [s \in Slot |-> iput_msg_que'[s]]
    BY DEF Tick
  <2> QED
    BY <2>1, TickSlots
<1>2. \A s \in Slot : Existed(s)' =>
        iput_msg_que'[s].key \in Key /\ iput_msg_que'[s].ctime < MaxAge
  BY TickSlots DEF Inv, TypeOK
<1>3. TypeOK'
  BY <1>1, <1>2 DEF Tick, Inv, TypeOK
<1>4. OneSlotPerFrame'
  BY TickSlots DEF Inv, OneSlotPerFrame
<1> QED
  BY <1>3, <1>4 DEF Inv

LEMMA NextInv == Inv /\ [Next]_ivars => Inv'
<1> SUFFICES ASSUME Inv, [Next]_ivars
             PROVE  Inv'
  OBVIOUS
<1>1. CASE Tick
  BY <1>1, TickInv
<1>2. ASSUME NEW k \in Key, AlreadyExists(k)
      PROVE  Inv'
  BY <1>2 DEF AlreadyExists, Inv, TypeOK, OneSlotPerFrame, Existed
<1>3. ASSUME NEW k \in Key, QueueFull(k)
      PROVE  Inv'
  BY <1>3 DEF QueueFull, Inv, TypeOK, OneSlotPerFrame, Existed
<1>4. ASSUME NEW k \in Key, Fill(k)
      PROVE  Inv'
  BY <1>4, FillInv
<1>5. CASE UNCHANGED ivars
  BY <1>5 DEF ivars, Inv, TypeOK, OneSlotPerFrame, Existed
<1> QED
  BY <1>1, <1>2, <1>3, <1>4, <1>5 DEF Next, Handler

LEMMA Invariance == Spec => []Inv
<1> QED
  BY InitInv, NextInv, PTL DEF Spec

\* The fields of the table keep their types, and an occupied slot is younger
\* than MaxAge (input_mgr.c).
THEOREM InputTypeCorrect == Spec => []TypeOK
<1>1. Inv => TypeOK
  BY DEF Inv
<1> QED
  BY <1>1, Invariance, PTL

\* A frame never occupies two slots of the table (iput_msg_add_to_queue).
THEOREM FrameInOneSlot == Spec => []OneSlotPerFrame
<1>1. Inv => OneSlotPerFrame
  BY DEF Inv
<1> QED
  BY <1>1, Invariance, PTL

-----------------------------------------------------------------------------

\* The abstract age of a frame is read off the one slot that holds it.
AgesReadOff ==
  \A k \in Key :
    /\ \A s \in Slot : Matches(s, k) => AgeOf(k) = iput_msg_que[s].ctime
    /\ ~Found(k) => AgeOf(k) = MaxAge
    /\ Found(k) <=> AgeOf(k) < MaxAge

LEMMA AgeOfFrame == Inv => AgesReadOff
<1> SUFFICES ASSUME Inv, NEW k \in Key
             PROVE  /\ \A s \in Slot : Matches(s, k) =>
                         AgeOf(k) = iput_msg_que[s].ctime
                    /\ ~Found(k) => AgeOf(k) = MaxAge
                    /\ Found(k) <=> AgeOf(k) < MaxAge
  BY DEF AgesReadOff
<1>1. ASSUME NEW s \in Slot, Matches(s, k)
      PROVE  /\ AgeOf(k) = iput_msg_que[s].ctime
             /\ AgeOf(k) < MaxAge
  <2> DEFINE c == CHOOSE r \in Slot : Matches(r, k)
  <2>1. c \in Slot /\ Matches(c, k)
    BY <1>1
  <2>2. c = s
    BY <1>1, <2>1 DEF Inv, OneSlotPerFrame, Matches
  <2>3. Found(k)
    BY <1>1 DEF Found
  <2> QED
    BY <1>1, <2>2, <2>3 DEF AgeOf, Matches, Inv, TypeOK
<1>2. ~Found(k) => AgeOf(k) = MaxAge
  BY DEF AgeOf
<1> QED
  BY <1>1, <1>2, SizesType DEF Found

\* The window remembers as many frames as there are occupied slots.
LEMMA RememberedCount ==
  ASSUME Inv
  PROVE  LET R == {k \in Key : AgeOf(k) < MaxAge}
         IN  /\ Full => Cardinality(R) = QueSize
             /\ ~Full => Cardinality(R) < QueSize
<1> DEFINE R == {k \in Key : AgeOf(k) < MaxAge}
           O == {s \in Slot : Existed(s)}
           f == [s \in O |-> iput_msg_que[s].key]
<1>1. /\ IsFiniteSet(Slot) /\ Cardinality(Slot) = QueSize
      /\ \A T \in SUBSET Slot : IsFiniteSet(T) /\ Cardinality(T) \in Nat
  <2>1. IsFiniteSet(1..QueSize) /\ Cardinality(1..QueSize) = QueSize
    BY SizesType, FS_Interval
  <2> QED
    BY <2>1, FS_Subset, FS_CardinalityType DEF Slot
<1>2. IsFiniteSet(O) /\ Cardinality(O) <= QueSize
      /\ (Cardinality(O) = QueSize <=> O = Slot)
  BY <1>1, FS_Subset
<1>3. f \in Bijection(O, R)
  <2>1. \A s \in O : f[s] \in R
    <3> SUFFICES ASSUME NEW s \in O
                 PROVE  f[s] \in R
      OBVIOUS
    <3>1. iput_msg_que[s].key \in Key /\ iput_msg_que[s].ctime < MaxAge
      BY DEF Inv, TypeOK
    <3>2. Matches(s, iput_msg_que[s].key)
      BY DEF Matches
    <3> QED
      BY <3>1, <3>2, AgeOfFrame DEF AgesReadOff, Found
  <2>2. \A r, s \in O : f[r] = f[s] => r = s
    BY DEF Inv, OneSlotPerFrame
  <2>3. \A k \in R : \E s \in O : f[s] = k
    BY AgeOfFrame DEF AgesReadOff, Found, Matches
  <2>4. f \in [O -> R]
    BY <2>1
  <2> HIDE DEF f, O, R
  <2> QED
    BY <2>2, <2>3, <2>4 DEF Bijection, Injection, Surjection, IsInjective
<1>4. Cardinality(R) = Cardinality(O)
  <2> HIDE DEF f, O, R
  <2> QED
    BY <1>2, <1>3, FS_Bijection DEF ExistsBijection
<1>5. O = Slot <=> Full
  BY DEF Full
<1>6. Cardinality(O) \in Nat /\ QueSize \in Nat
  BY <1>1, SizesType
<1> HIDE DEF O
<1> QED
  BY <1>2, <1>4, <1>5, <1>6

\* The window counts with the standard operator.
LEMMA WindowCardinality ==
  ASSUME NEW S
  PROVE  Window!Cardinality(S) = Cardinality(S)
BY DEF Cardinality, Window!Cardinality

\* Each step of the table is the step of the same name of the window.
LEMMA FillAccepts ==
  ASSUME Inv, Inv', NEW k \in Key, Fill(k)
  PROVE  Window!Accept(k)
<1>0. AgesReadOff /\ AgesReadOff'
  BY AgeOfFrame, PTL
<1>1. PICK s \in Slot :
        /\ FirstEmpty(s)
        /\ iput_msg_que' =
             [iput_msg_que EXCEPT ![s] =
                [state |-> "EXISTED", ctime |-> 0, key |-> k]]
  BY DEF Fill
<1>2. /\ iput_msg_que'[s] = [state |-> "EXISTED", ctime |-> 0, key |-> k]
      /\ \A r \in Slot : r # s => iput_msg_que'[r] = iput_msg_que[r]
      /\ ~Existed(s)
  BY <1>1 DEF Inv, TypeOK, FirstEmpty
<1>3. AgeOf(k)' = 0
  <2>1. Matches(s, k)'
    BY <1>2 DEF Matches, Existed
  <2>2. \A r \in Slot : Matches(r, k)' => AgeOf(k)' = iput_msg_que'[r].ctime
    BY <1>0 DEF AgesReadOff
  <2> QED
    BY <1>2, <2>1, <2>2
<1>4. ASSUME NEW j \in Key, j # k
      PROVE  AgeOf(j)' = AgeOf(j)
  <2>1. \A r \in Slot : Matches(r, j)' <=> Matches(r, j)
    BY <1>2, <1>4 DEF Matches, Existed
  <2>2. /\ \A r \in Slot : Matches(r, j) => AgeOf(j) = iput_msg_que[r].ctime
        /\ ~Found(j) => AgeOf(j) = MaxAge
    BY <1>0 DEF AgesReadOff
  <2>3. /\ \A r \in Slot : Matches(r, j)' => AgeOf(j)' = iput_msg_que'[r].ctime
        /\ ~Found(j)' => AgeOf(j)' = MaxAge
    BY <1>0 DEF AgesReadOff
  <2>4. \A r \in Slot : Matches(r, j) => iput_msg_que'[r] = iput_msg_que[r]
    BY <1>2 DEF Matches
  <2> QED
    BY <2>1, <2>2, <2>3, <2>4 DEF Found
<1>5. [j \in Key |-> AgeOf(j)]' = [[j \in Key |-> AgeOf(j)] EXCEPT ![k] = 0]
  BY <1>3, <1>4
<1>6. ~Full
  BY <1>2 DEF Full
<1>7. Cardinality({j \in Key : AgeOf(j) < MaxAge}) < QueSize
  BY <1>6, RememberedCount
<1>8. ~(AgeOf(k) < MaxAge)
  BY <1>0 DEF AgesReadOff, Fill
<1>9. {j \in Key : [i \in Key |-> AgeOf(i)][j] < MaxAge}
        = {j \in Key : AgeOf(j) < MaxAge}
  OBVIOUS
<1> QED
  BY <1>5, <1>7, <1>8, <1>9, WindowCardinality
  DEF Window!Accept, Window!Remembered, Fill

LEMMA TickAges ==
  ASSUME Inv, Inv', Tick
  PROVE  Window!Age
<1>0. AgesReadOff /\ AgesReadOff'
  BY AgeOfFrame, PTL
<1>1. ASSUME NEW k \in Key
      PROVE  AgeOf(k)' = IF AgeOf(k) < MaxAge THEN AgeOf(k) + 1 ELSE MaxAge
  <2>1. /\ \A r \in Slot : Matches(r, k) => AgeOf(k) = iput_msg_que[r].ctime
        /\ ~Found(k) => AgeOf(k) = MaxAge
        /\ Found(k) <=> AgeOf(k) < MaxAge
    BY <1>0 DEF AgesReadOff
  <2>2. /\ \A r \in Slot : Matches(r, k)' => AgeOf(k)' = iput_msg_que'[r].ctime
        /\ ~Found(k)' => AgeOf(k)' = MaxAge
    BY <1>0 DEF AgesReadOff
  <2>3. CASE ~Found(k)
    <3>1. ~Found(k)'
      BY <2>3, TickSlots DEF Found, Matches
    <3> QED
      BY <2>1, <2>2, <2>3, <3>1
  <2>4. CASE Found(k)
    <3>1. PICK s \in Slot : Matches(s, k)
      BY <2>4 DEF Found
    <3>2. /\ iput_msg_que'[s].key = k
          /\ iput_msg_que'[s].ctime = iput_msg_que[s].ctime + 1
          /\ Existed(s)' <=> iput_msg_que[s].ctime + 1 < MaxAge
      BY <3>1, TickSlots DEF Matches
    <3>3. CASE Existed(s)'
      <4>1. Matches(s, k)'
        BY <3>2, <3>3 DEF Matches
      <4> QED
        BY <2>1, <2>2, <2>4, <3>1, <3>2, <4>1
    <3>4. CASE ~Existed(s)'
      <4>1. ~Found(k)'
        <5> SUFFICES ASSUME NEW r \in Slot, Matches(r, k)'
                     PROVE  FALSE
          BY DEF Found
        <5>1. Matches(r, k)
          BY TickSlots DEF Matches
        <5>2. r = s
          BY <3>1, <5>1 DEF Inv, OneSlotPerFrame, Matches
        <5> QED
          BY <3>4, <5>2 DEF Matches
      <4>2. iput_msg_que[s].ctime \in Nat /\ iput_msg_que[s].ctime < MaxAge
        BY <3>1, SizesType DEF Inv, TypeOK, Item, Matches
      <4> QED
        BY <2>1, <2>2, <2>4, <3>1, <3>2, <3>4, <4>1, <4>2, SizesType
    <3> QED
      BY <3>3, <3>4
  <2> QED
    BY <2>3, <2>4
<1> QED
  BY <1>1 DEF Window!Age, Window!Remembered, Tick

\* The table of slots implements the abstract window: a repeat is refused
\* exactly while it is remembered, for MaxAge ticks, and a new frame is
\* refused exactly when QueSize frames are remembered (input_mgr.c).
THEOREM WindowImplemented == Spec => ImplementsWindow
<1>1. Init => Window!Init
  <2> SUFFICES ASSUME Init
               PROVE  Window!Init
    OBVIOUS
  <2>1. \A k \in Key : ~Found(k)
    BY DEF Init, Found, Matches, Existed
  <2> QED
    BY <2>1 DEF Init, Window!Init, AgeOf
<1>2. Inv /\ Inv' /\ [Next]_ivars => [Window!Next]_Window!wvars
  <2> SUFFICES ASSUME Inv, Inv', [Next]_ivars
               PROVE  [Window!Next]_Window!wvars
    OBVIOUS
  <2> DEFINE W == Window!Remembered
  <2>0. W = {k \in Key : AgeOf(k) < MaxAge}
    BY DEF Window!Remembered
  <2>1. CASE Tick
    BY <2>1, TickAges DEF Window!Next
  <2>2. ASSUME NEW k \in Key, AlreadyExists(k)
        PROVE  Window!RefuseRepeat(k)
    <3>1. AgeOf(k) < MaxAge
      BY <2>2, AgeOfFrame DEF AgesReadOff, AlreadyExists
    <3>2. \A j \in Key : AgeOf(j)' = AgeOf(j)
      BY <2>2 DEF AlreadyExists, AgeOf, Found, Matches, Existed
    <3> QED
      BY <2>2, <3>1, <3>2
      DEF Window!RefuseRepeat, Window!Remembered, AlreadyExists
  <2>3. ASSUME NEW k \in Key, QueueFull(k)
        PROVE  Window!RefuseFull(k)
    <3>1. ~(AgeOf(k) < MaxAge)
      BY <2>3, AgeOfFrame DEF AgesReadOff, QueueFull
    <3>2. \A j \in Key : AgeOf(j)' = AgeOf(j)
      BY <2>3 DEF QueueFull, AgeOf, Found, Matches, Existed
    <3>3. Cardinality(W) = QueSize
      BY <2>0, <2>3, RememberedCount DEF QueueFull
    <3> QED
      BY <2>0, <2>3, <3>1, <3>2, <3>3, WindowCardinality
      DEF Window!RefuseFull, QueueFull
  <2>4. ASSUME NEW k \in Key, Fill(k)
        PROVE  Window!Accept(k)
    BY <2>4, FillAccepts
  <2>5. CASE UNCHANGED ivars
    BY <2>5 DEF ivars, Window!wvars, AgeOf, Found, Matches, Existed
  <2> QED
    BY <2>1, <2>2, <2>3, <2>4, <2>5 DEF Next, Handler, Window!Next
<1> QED
  BY <1>1, <1>2, Invariance, PTL DEF Spec, ImplementsWindow, Window!Spec

=============================================================================

---------------------------- MODULE SendPathProofs ---------------------------
(***************************************************************************)
(* Proofs about the way of application data to the queues: for every mtu,  *)
(* header length, queue limit and set of lengths the types are right and   *)
(* no step leaves a pbuf behind; as long as the number of fragments fits   *)
(* its uint8_t, the chain holds all data, and its headers locate it.       *)
(***************************************************************************)
EXTENDS SendPath, ChainOpsProofs

-----------------------------------------------------------------------------
(***************************************************************************)
(* Arithmetic.                                                             *)
(***************************************************************************)

LEMMA Division ==
  ASSUME NEW n \in Nat, NEW p \in Nat \ {0}
  PROVE  /\ n \div p \in Nat /\ n % p \in 0..(p - 1)
         /\ n = (p * (n \div p)) + (n % p)
         /\ n > p => n \div p >= 1
OBVIOUS

LEMMA TimesFour ==
  ASSUME NEW a \in Nat, NEW b \in Nat
  PROVE  (a * b) * 4 = a * (b * 4)
OBVIOUS

LEMMA OffsetType ==
  \A o \in 0..(OffsetMod - 1) : o \in Nat
BY DEF OffsetMod

LEMMA OffsetSum ==
  ASSUME NEW a \in Nat, NEW b \in Nat
  PROVE  /\ (a + b) % OffsetMod \in 0..(OffsetMod - 1)
         /\ ((a % OffsetMod) + b) % OffsetMod = (a + b) % OffsetMod
BY DEF OffsetMod

LEMMA PayloadType ==
  /\ Payload \in 1..255 /\ Payload % 4 = 0
  /\ Nfb \in Nat /\ Nfb * 4 = Payload
  /\ \A n \in Nat : n + HdrLen <= Mtu <=> n <= Payload
BY MtuAssumption DEF Payload, Nfb

LEMMA LastLenType ==
  ASSUME NEW n \in Nat
  PROVE  LastLen(n) \in 0..Payload /\ LastLen(n) = n % Payload
<1>1. n % Payload \in 0..(Payload - 1) /\ Payload \in 1..255
  BY PayloadType, Division
<1>2. (n % Payload) % ByteMod = n % Payload
  BY <1>1 DEF ByteMod
<1> QED
  BY <1>1, <1>2 DEF LastLen

LEMMA PbufNumType ==
  ASSUME NEW n \in Nat
  PROVE  /\ PbufNum(n) \in 0..255
         /\ n \div Payload < 255 => PbufNum(n) = (n \div Payload) + 1
<1>1. Payload \in 1..255
  BY PayloadType
<1>2. n \div Payload \in Nat
  BY <1>1, Division
<1> QED
  BY <1>2 DEF PbufNum, ByteMod

-----------------------------------------------------------------------------
(***************************************************************************)
(* What the loop of packet_frag has made.                                  *)
(***************************************************************************)

\* The fragments of data of length n that have been made: full ones, and the
\* last one of the rest.
Fragments(c, n) ==
  \A i \in DOMAIN c :
    /\ c[i].offset = ((i - 1) * Nfb) % OffsetMod
    /\ c[i].mf <=> i < PbufNum(n)
    /\ c[i].len = IF i < PbufNum(n) THEN Payload ELSE LastLen(n)

\* Lengths of which the fragments can be counted in a uint8_t: below 255 full
\* frames.
Countable == \A n \in Lengths : n \div Payload < 255

\* Lengths of which every byte can be named by a header: the offset has 13 bits
\* and counts 4 bytes.
Locatable == \A n \in Lengths : n < 4 * OffsetMod

\* What is known of a call.  Only when fragments are counted right is the
\* shape of the chain known.
Calls ==
  /\ pc = "idle" => first_pbuf = <<>> /\ NothingLeft
  /\ pc = "whole" =>
       first_pbuf = <<>> /\ queued = <<>> /\ live = 1 /\ data_len <= Payload
  /\ pc = "frag" =>
       /\ queued = <<>> /\ live = 1 + Len(first_pbuf)
       /\ data_len > Payload /\ data_len \in Lengths

Shaped ==
  pc = "frag" =>
    /\ data_len \div Payload < 255
    /\ Len(first_pbuf) <= PbufNum(data_len)
    /\ Fragments(first_pbuf, data_len)

-----------------------------------------------------------------------------
(***************************************************************************)
(* pbuf_take.                                                              *)
(***************************************************************************)

LEMMA ChainType ==
  ASSUME NEW c \in Seq(Pbuf)
  PROVE  /\ Len(c) \in Nat /\ DOMAIN c = 1..Len(c)
         /\ \A i \in 1..Len(c) : c[i] \in Pbuf /\ c[i].len \in 0..Payload
<1>1. /\ Len(c) \in Nat /\ DOMAIN c = 1..Len(c)
      /\ c \in [1..Len(c) -> Pbuf]
  BY LenProperties
<1> QED
  BY <1>1 DEF Pbuf

\* The recursion that defines Room(c) has a solution: were there a first
\* prefix of c without one, the solution for the prefix before would extend.
LEMMA RoomExists ==
  ASSUME NEW c \in Seq(Pbuf)
  PROVE  \E g \in [0..Len(c) -> Nat] :
           g = [i \in 0..Len(c) |-> IF i = 0 THEN 0 ELSE g[i - 1] + c[i].len]
<1> DEFINE Solves(g, k) ==
             g = [i \in 0..k |-> IF i = 0 THEN 0 ELSE g[i - 1] + c[i].len]
           S == {k \in 0..Len(c) : ~\E g \in [0..k -> Nat] : Solves(g, k)}
<1>1. /\ Len(c) \in Nat
      /\ \A i \in 1..Len(c) : c[i].len \in Nat
  BY ChainType, PayloadType
<1>2. S = {}
  <2>1. SUFFICES ASSUME S # {} PROVE FALSE
    OBVIOUS
  <2>2. PICK m \in S : \A n \in S : m <= n
    <3>1. S \in SUBSET Nat
      BY <1>1
    <3> HIDE DEF S
    <3> QED
      BY <2>1, <3>1, LeastElement
  <2>3. m \in 0..Len(c) /\ ~\E g \in [0..m -> Nat] : Solves(g, m)
    OBVIOUS
  <2>4. m # 0
    <3>1. ASSUME m = 0 PROVE FALSE
      <4> DEFINE g == [i \in 0..0 |-> 0]
      <4>1. g \in [0..0 -> Nat] /\ Solves(g, 0)
        OBVIOUS
      <4> HIDE DEF g, Solves
      <4> QED
        BY <2>3, <3>1, <4>1
    <3> QED
      BY <3>1
  <2>5. m - 1 \in 0..Len(c) /\ m - 1 \notin S
    <3>1. m \in 0..Len(c) /\ m - 1 \in 0..Len(c) /\ ~(m <= m - 1)
      BY <1>1, <2>3, <2>4
    <3> HIDE DEF S
    <3> QED
      BY <2>2, <3>1
  <2>6. PICK g \in [0..(m - 1) -> Nat] : Solves(g, m - 1)
    BY <2>5
  <2> DEFINE h == [i \in 0..m |-> IF i = m THEN g[m - 1] + c[m].len ELSE g[i]]
  <2>7. h \in [0..m -> Nat]
    BY <1>1, <2>3, <2>4
  <2>8. \A i \in 0..(m - 1) :
          g[i] = IF i = 0 THEN 0 ELSE g[i - 1] + c[i].len
    BY <2>6
  <2>9. ASSUME NEW i \in 0..m
        PROVE  h[i] = IF i = 0 THEN 0 ELSE h[i - 1] + c[i].len
    <3>1. CASE i = m
      BY <2>3, <2>4, <3>1
    <3>2. CASE i # m
      <4>1. i \in 0..(m - 1) /\ h[i] = g[i]
        BY <2>3, <3>2
      <4>2. i # 0 => i - 1 \in 0..m /\ i - 1 # m
        BY <2>3, <3>2
      <4> QED
        BY <2>8, <4>1, <4>2
    <3> QED
      BY <3>1, <3>2
  <2>10. Solves(h, m)
    BY <2>9
  <2> HIDE DEF h, Solves
  <2> QED
    BY <2>3, <2>7, <2>10
<1>3. Len(c) \in 0..Len(c)
  BY <1>1
<1> QED
  BY <1>2, <1>3

LEMMA RoomDef ==
  ASSUME NEW c \in Seq(Pbuf)
  PROVE  /\ \A i \in 0..Len(c) : Room(c)[i] \in Nat
         /\ Room(c)[0] = 0
         /\ \A i \in 1..Len(c) : Room(c)[i] = Room(c)[i - 1] + c[i].len
<1> DEFINE Rec(g) ==
             g = [i \in 0..Len(c) |-> IF i = 0 THEN 0 ELSE g[i - 1] + c[i].len]
           r == CHOOSE g : Rec(g)
<1>1. Room(c) = r
  BY DEF Room
<1>2. \E g : g \in [0..Len(c) -> Nat] /\ Rec(g)
  BY RoomExists
<1>3. Rec(r)
  <2> HIDE DEF Rec
  <2> QED
    BY <1>2
<1>4. Len(c) \in Nat /\ \A i \in 1..Len(c) : c[i].len \in Nat
  BY ChainType, PayloadType
<1> HIDE DEF r
<1>5. /\ DOMAIN r = 0..Len(c)
      /\ r = [i \in 0..Len(c) |-> r[i]]
      /\ r[0] = 0
      /\ \A i \in 1..Len(c) : r[i] = r[i - 1] + c[i].len
  BY <1>3, <1>4
<1> DEFINE S == {i \in 0..Len(c) : r[i] \notin Nat}
<1>6. S = {}
  <2>1. SUFFICES ASSUME S # {} PROVE FALSE
    OBVIOUS
  <2>2. PICK m \in S : \A n \in S : m <= n
    <3>1. S \in SUBSET Nat
      BY <1>4
    <3> HIDE DEF S
    <3> QED
      BY <2>1, <3>1, LeastElement
  <2>3. m \in 1..Len(c) /\ m - 1 \in 0..Len(c) /\ r[m] \notin Nat
    BY <1>4, <1>5
  <2>4. m - 1 \notin S
    <3>1. ~(m <= m - 1)
      BY <1>4, <2>3
    <3> HIDE DEF S
    <3> QED
      BY <2>2, <3>1
  <2>5. r[m - 1] \in Nat
    BY <2>3, <2>4
  <2>6. r[m] = r[m - 1] + c[m].len /\ c[m].len \in Nat
    BY <1>4, <1>5, <2>3
  <2>7. r[m] \in Nat
    BY <2>5, <2>6
  <2> QED
    BY <2>3, <2>7
<1> QED
  BY <1>1, <1>5, <1>6

\* All fragments made, the chain has room for the data exactly, and every
\* fragment begins where the full ones before it end.
LEMMA RoomOfFragments ==
  ASSUME NEW c \in Seq(Pbuf), NEW n \in Nat, n <= MaxData, n > Payload,
         n \div Payload < 255, Len(c) = PbufNum(n), Fragments(c, n)
  PROVE  /\ \A i \in 0..(Len(c) - 1) : Room(c)[i] = i * Payload
         /\ Room(c)[Len(c)] = n
         /\ Len(c) >= 2
<1> DEFINE P == Payload
           L == Len(c)
           S == {i \in 0..(L - 1) : Room(c)[i] # i * P}
<1>a. P \in 1..255
  BY PayloadType
<1>b. L = (n \div P) + 1
  BY PbufNumType
<1>c. /\ n \div P \in Nat /\ n % P \in 0..(P - 1)
      /\ n = (P * (n \div P)) + (n % P) /\ n \div P >= 1
  <2> HIDE DEF P
  <2>1. P \in Nat \ {0} /\ n > P
    BY <1>a DEF P
  <2> QED
    BY <2>1, Division
<1>1. /\ P \in 1..255 /\ L = (n \div P) + 1
      /\ n \div P \in Nat /\ n % P \in 0..(P - 1)
      /\ n = (P * (n \div P)) + (n % P) /\ n \div P >= 1
  BY <1>a, <1>b, <1>c
<1>2. /\ Room(c)[0] = 0
      /\ \A i \in 1..L : Room(c)[i] = Room(c)[i - 1] + c[i].len
  BY RoomDef
<1>3. \A i \in 1..L : c[i].len = IF i < L THEN P ELSE n % P
  BY ChainType, LastLenType DEF Fragments
<1> HIDE DEF P, L
<1>4. S = {}
  <2>1. SUFFICES ASSUME S # {} PROVE FALSE
    OBVIOUS
  <2>2. PICK m \in S : \A k \in S : m <= k
    <3>1. S \in SUBSET Nat
      BY <1>1
    <3> HIDE DEF S
    <3> QED
      BY <2>1, <3>1, LeastElement
  <2>3. m \in 1..(L - 1) /\ m - 1 \in 0..(L - 1) /\ Room(c)[m] # m * P
    BY <1>1, <1>2
  <2>4. m - 1 \notin S
    <3>1. ~(m <= m - 1)
      BY <1>1, <2>3
    <3> HIDE DEF S
    <3> QED
      BY <2>2, <3>1
  <2>5. Room(c)[m - 1] = (m - 1) * P
    BY <2>3, <2>4
  <2>6. Room(c)[m] = Room(c)[m - 1] + P
    BY <1>1, <1>2, <1>3, <2>3
  <2>7. m * P = ((m - 1) * P) + P
    BY <1>1, <2>3
  <2> QED
    BY <2>3, <2>5, <2>6, <2>7
<1>5. L - 1 \in 0..(L - 1) /\ L \in 1..L
  BY <1>1
<1>6. Room(c)[L - 1] = (L - 1) * P
  BY <1>4, <1>5
<1>7. Room(c)[L] = Room(c)[L - 1] + (n % P)
  BY <1>1, <1>2, <1>3, <1>5
<1>8. Room(c)[L] = n
  BY <1>1, <1>6, <1>7
<1> QED
  BY <1>1, <1>4, <1>8 DEF P, L

LEMMA HoldingType ==
  ASSUME NEW b \in Pbuf, NEW i \in Nat, NEW j \in Nat
  PROVE  /\ Holding(b, i, j) \in Pbuf
         /\ Holding(b, i, j).data.from = i /\ Holding(b, i, j).data.to = j
         /\ Holding(b, i, j).offset = b.offset /\ Holding(b, i, j).mf = b.mf
BY DEF Holding, Pbuf

\* Whatever it copies, pbuf_take leaves the chain a chain of the same length.
LEMMA TakenType ==
  ASSUME NEW c \in Seq(Pbuf), NEW n \in Nat
  PROVE  /\ Taken(c, n) \in Seq(Pbuf) /\ Len(Taken(c, n)) = Len(c)
         /\ Filled(c, n) \in Seq(Pbuf) /\ Len(Filled(c, n)) = Len(c)
<1>1. /\ Len(c) \in Nat /\ DOMAIN c = 1..Len(c)
      /\ \A i \in 1..Len(c) : c[i] \in Pbuf
  BY ChainType
<1>2. \A i \in 0..Len(c) : Room(c)[i] \in Nat
  BY RoomDef
<1>3. ASSUME NEW i \in 1..Len(c)
      PROVE  Holding(c[i], Lesser(Room(c)[i - 1], n), Lesser(Room(c)[i], n))
               \in Pbuf
  <2>1. Room(c)[i - 1] \in Nat /\ Room(c)[i] \in Nat
    BY <1>1, <1>2
  <2>2. Lesser(Room(c)[i - 1], n) \in Nat /\ Lesser(Room(c)[i], n) \in Nat
    BY <2>1 DEF Lesser
  <2>3. c[i] \in Pbuf
    BY <1>1
  <2> QED
    BY <2>2, <2>3, HoldingType
<1>4. Filled(c, n) \in [1..Len(c) -> Pbuf]
  BY <1>1, <1>3 DEF Filled
<1>5. Filled(c, n) \in Seq(Pbuf) /\ Len(Filled(c, n)) = Len(c)
  <2>1. Filled(c, n) \in Seq(Pbuf)
    BY <1>1, <1>4, SeqDef
  <2>2. /\ Len(Filled(c, n)) \in Nat
        /\ DOMAIN Filled(c, n) = 1..Len(Filled(c, n))
    BY <2>1, LenProperties
  <2>3. DOMAIN Filled(c, n) = 1..Len(c)
    BY <1>1 DEF Filled
  <2>4. Len(c) \in Nat
    BY <1>1
  <2> HIDE DEF Filled
  <2> QED
    BY ONLY <2>1, <2>2, <2>3, <2>4, SMTT(30)
<1> QED
  BY <1>5 DEF Taken

\* When all fragments were made, pbuf_take fills every one to its end, and the
\* header of each tells where its data begins.
LEMMA TakenWhole ==
  ASSUME NEW c \in Seq(Pbuf), NEW n \in Nat, n <= MaxData, n > Payload,
         n \div Payload < 255, Len(c) = PbufNum(n), Fragments(c, n)
  PROVE  LET t == Taken(c, n)
         IN  /\ Len(t) = Len(c) /\ Len(c) >= 2
             /\ t[1].data.from = 0 /\ t[Len(c)].data.to = n
             /\ \A j \in 1..(Len(c) - 1) : t[j].data.to = t[j + 1].data.from
             /\ n < 4 * OffsetMod => \A j \in 1..Len(c) :
                  t[j].offset * 4 = t[j].data.from /\ (t[j].mf <=> j < Len(c))
<1> DEFINE P == Payload
           L == Len(c)
           r == Room(c)
           t == Taken(c, n)
<1>1. /\ \A i \in 0..(L - 1) : r[i] = i * P
      /\ r[L] = n /\ L >= 2
  BY RoomOfFragments
<1>2. L \in Nat /\ DOMAIN c = 1..L /\ \A i \in 1..L : c[i] \in Pbuf
  BY ChainType
<1>3. \A i \in 0..L : r[i] \in Nat
  BY RoomDef
<1>4. t = Filled(c, n) /\ Len(t) = L
  <2>1. TotLen(c) = n
    BY <1>1 DEF TotLen, MaxData
  <2>2. t = Filled(c, n)
    BY <2>1 DEF Taken
  <2> QED
    BY <2>2, TakenType
<1>5. \A j \in 1..L : t[j] = Holding(c[j], Lesser(r[j - 1], n), Lesser(r[j], n))
  BY <1>2, <1>4 DEF Filled
<1>6. /\ P \in 1..255 /\ Nfb \in Nat /\ Nfb * 4 = P
  BY PayloadType
<1>7. \A j \in 1..L :
        /\ c[j].offset = ((j - 1) * Nfb) % OffsetMod
        /\ c[j].mf <=> j < L
  BY <1>2 DEF Fragments
<1>8. n >= (L - 1) * P
  <2>1. r[L] = r[L - 1] + c[L].len
    BY <1>1, <1>2, RoomDef
  <2>2. c[L].len \in Nat
    BY <1>1, <1>2, ChainType, PayloadType
  <2>3. r[L - 1] = (L - 1) * P /\ r[L - 1] \in Nat
    BY <1>1, <1>2, <1>3
  <2> HIDE DEF r, L, P
  <2> QED
    BY <1>1, <2>1, <2>2, <2>3
<1> HIDE DEF P, L, r, t
<1>9. ASSUME NEW i \in 0..L
      PROVE  r[i] \in Nat /\ Lesser(r[i], n) \in Nat /\ Lesser(r[i], n) = r[i]
  <2>1. r[i] \in Nat
    BY <1>3
  <2>2. r[i] <= n
    <3>1. CASE i = L
      BY <1>1, <3>1
    <3>2. CASE i # L
      <4>1. i \in 0..(L - 1) /\ L - 1 \in Nat /\ P \in Nat
        BY <1>1, <1>2, <1>6, <3>2
      <4>2. i * P <= (L - 1) * P
        BY <4>1
      <4>3. r[i] = i * P /\ i * P \in Nat /\ (L - 1) * P \in Nat
        BY <1>1, <4>1
      <4> QED
        BY <1>8, <4>2, <4>3
    <3> QED
      BY <3>1, <3>2
  <2> QED
    BY <2>1, <2>2 DEF Lesser
<1>10. ASSUME NEW j \in 1..L
       PROVE  /\ t[j].data.from = r[j - 1] /\ t[j].data.to = r[j]
              /\ t[j].offset = c[j].offset /\ t[j].mf = c[j].mf
  <2>1. j \in 0..L /\ j - 1 \in 0..L /\ c[j] \in Pbuf
    BY <1>2
  <2>2. t[j] = Holding(c[j], r[j - 1], r[j])
    BY <1>5, <1>9, <2>1
  <2>3. r[j - 1] \in Nat /\ r[j] \in Nat
    BY <1>9, <2>1
  <2> DEFINE h == Holding(c[j], r[j - 1], r[j])
  <2>4. /\ h.data.from = r[j - 1] /\ h.data.to = r[j]
        /\ h.offset = c[j].offset /\ h.mf = c[j].mf
    BY <2>1, <2>3 DEF Holding, Pbuf
  <2> HIDE DEF h
  <2>5. t[j] = h
    BY <2>2 DEF h
  <2> QED
    BY <2>4, <2>5
<1>11. t[1].data.from = 0 /\ t[L].data.to = n
  <2>1. 1 \in 1..L /\ L \in 1..L /\ 0 \in 0..(L - 1)
    BY <1>1, <1>2
  <2>2. r[0] = 0
    BY <1>1, <1>6, <2>1
  <2> QED
    BY <1>1, <1>10, <2>1, <2>2
<1>12. ASSUME NEW j \in 1..(L - 1) PROVE t[j].data.to = t[j + 1].data.from
  <2>1. j \in 1..L /\ j + 1 \in 1..L /\ (j + 1) - 1 = j
    BY <1>2
  <2> QED
    BY <1>10, <2>1
<1>13. ASSUME n < 4 * OffsetMod, NEW j \in 1..L
       PROVE  t[j].offset * 4 = t[j].data.from /\ (t[j].mf <=> j < L)
  <2> DEFINE o == (j - 1) * Nfb
  <2>1. t[j].offset = o % OffsetMod /\ (t[j].mf <=> j < L)
    BY <1>7, <1>10
  <2>2. t[j].data.from = (j - 1) * P /\ (j - 1) * P <= (L - 1) * P
    <3>1. j - 1 \in 0..(L - 1) /\ L - 1 \in Nat
      BY <1>2
    <3>2. (j - 1) * P <= (L - 1) * P
      BY <1>6, <3>1
    <3> QED
      BY <1>1, <1>10, <3>1, <3>2
  <2>3. o * 4 = (j - 1) * P /\ o \in Nat
    <3>1. j - 1 \in Nat
      BY <1>2
    <3> QED
      BY <1>6, <3>1, TimesFour
  <2>4. (L - 1) * P \in Nat
    BY <1>1, <1>2, <1>6
  <2> HIDE DEF o
  <2>5. o < OffsetMod
    <3> DEFINE x == (j - 1) * P
               y == (L - 1) * P
    <3>1. /\ n >= y /\ n < 4 * OffsetMod /\ o * 4 = x /\ o \in Nat
          /\ x <= y /\ y \in Nat /\ n \in Nat
      BY <1>8, <1>13, <2>2, <2>3, <2>4
    <3> HIDE DEF x, y
    <3> QED
      BY <3>1 DEF OffsetMod
  <2>6. o % OffsetMod = o
    BY <2>3, <2>5 DEF OffsetMod
  <2> QED
    BY <2>1, <2>2, <2>3, <2>6
<1> QED
  BY <1>1, <1>4, <1>11, <1>12, <1>13 DEF L, t

-----------------------------------------------------------------------------
(***************************************************************************)
(* The steps of a call.                                                    *)
(***************************************************************************)

\* packet_frag_buf_creat makes pbufs of the right shape.
LEMMA FragmentType ==
  ASSUME TypeOK
  PROVE  /\ FirstFragment \in Pbuf
         /\ first_pbuf # <<>> => NextFragment(data_len) \in Pbuf
<1>1. Payload \in 0..Payload /\ Blank \in [from : Nat, to : Nat]
  BY PayloadType DEF Blank
<1>2. FirstFragment \in Pbuf
  <2>1. 0 \in 0..(OffsetMod - 1)
    BY DEF OffsetMod
  <2> QED
    BY <1>1, <2>1 DEF FirstFragment, Pbuf
<1>3. ASSUME first_pbuf # <<>>
      PROVE  NextFragment(data_len) \in Pbuf
  <2>1. Last(first_pbuf) \in Pbuf
    <3>1. Len(first_pbuf) \in 1..Len(first_pbuf)
      BY <1>3, EmptySeq, LenProperties DEF TypeOK
    <3> QED
      BY <3>1, ChainType DEF Last, TypeOK
  <2>2. (Last(first_pbuf).offset + Nfb) % OffsetMod \in 0..(OffsetMod - 1)
    <3>1. Last(first_pbuf).offset \in Nat
      <4>1. Last(first_pbuf).offset \in 0..(OffsetMod - 1)
        BY <2>1 DEF Pbuf
      <4> QED
        BY <4>1, OffsetType
    <3> QED
      BY <3>1, PayloadType, OffsetSum
  <2>3. LastLen(data_len) \in 0..Payload
    <3>1. data_len \in Nat
      BY DEF TypeOK, MaxData
    <3> QED
      BY <3>1, LastLenType
  <2> HIDE DEF OffsetMod
  <2> QED
    BY <1>1, <2>2, <2>3 DEF NextFragment, Pbuf
<1> QED
  BY <1>2, <1>3

LEMMA InitIsSafe ==
  Init => TypeOK /\ Calls /\ Shaped /\ CoversData /\ HeadersMatch
BY EmptySeq DEF Init, TypeOK, Calls, NothingLeft, Shaped, CoversData,
                HeadersMatch, MaxData

\* A call that fails early, or is accepted.
LEMMA CallIsSafe ==
  ASSUME TypeOK, Calls, NEW n \in Lengths, NEW buf \in BOOLEAN,
         Fail(n, buf) \/ Accept(n, buf)
  PROVE  /\ TypeOK' /\ Calls'
         /\ CoversData' /\ HeadersMatch'
         /\ Shaped /\ Countable => Shaped'
<1>1. n \in 0..MaxData
  BY LengthsAssumption
<1>2. pc = "idle" /\ first_pbuf = <<>> /\ first_pbuf' = <<>>
  BY DEF Fail, Accept, Calls
<1>3. queued' = <<>> /\ data_len' = n
  BY DEF Fail, Accept
<1>4. <<>> \in Seq(Pbuf) /\ Len(<<>>) = 0 /\ DOMAIN <<>> = {}
  BY EmptySeq
<1>5. CoversData' /\ HeadersMatch'
  BY <1>3, <1>4 DEF CoversData, HeadersMatch
<1>6. CASE Fail(n, buf)
  <2>1. pc' = "idle" /\ live' = 0 /\ ret' \in {"route", "memory", "other"}
    BY <1>2, <1>6 DEF Fail
  <2> QED
    BY <1>1, <1>2, <1>3, <1>4, <1>5, <2>1 DEF TypeOK, Calls, NothingLeft, Shaped
<1>7. CASE Accept(n, buf)
  <2>0. n \in Nat /\ Payload \in Nat
    BY <1>1, PayloadType DEF MaxData
  <2>1. /\ live' = 1 /\ ret' = ret
        /\ pc' = IF n <= Payload THEN "whole" ELSE "frag"
    <3>1. n + HdrLen <= Mtu <=> n <= Payload
      BY <2>0, PayloadType
    <3> QED
      BY <1>7, <3>1 DEF Accept
  <2>2. n > Payload <=> ~(n <= Payload)
    BY <2>0
  <2>3. TypeOK' /\ Calls'
    BY <1>1, <1>2, <1>3, <1>4, <2>1, <2>2 DEF TypeOK, Calls
  <2>4. ASSUME Countable PROVE Shaped'
    <3>1. n \div Payload < 255 /\ PbufNum(n) \in 0..255
      BY <2>0, <2>4, PbufNumType DEF Countable
    <3>2. Fragments(first_pbuf, data_len)'
      BY <1>2, <1>4 DEF Fragments
    <3>3. /\ data_len' \div Payload < 255
          /\ Len(first_pbuf') <= PbufNum(data_len')
      <4>1. Len(first_pbuf') = 0
        BY <1>2, <1>4
      <4>2. 0 <= PbufNum(n)
        BY <3>1
      <4> QED
        BY <1>3, <3>1, <4>1, <4>2
    <3> QED
      BY <3>2, <3>3 DEF Shaped
  <2> QED
    BY <1>5, <2>3, <2>4
<1> QED
  BY <1>6, <1>7

\* Data that fits a frame goes to the queue in one pbuf.
LEMMA SendWholeIsSafe ==
  ASSUME TypeOK, Calls, SendWhole
  PROVE  TypeOK' /\ Calls' /\ Shaped' /\ CoversData' /\ HeadersMatch'
<1> DEFINE b == [offset |-> 0, mf |-> FALSE, len |-> data_len,
                 data |-> [from |-> 0, to |-> data_len]]
           c == <<b>>
<1>1. /\ data_len \in 0..MaxData /\ data_len \in Nat /\ data_len <= Payload
      /\ first_pbuf = <<>> /\ queued = <<>> /\ live = 1
  <2>1. pc = "whole" /\ data_len \in 0..MaxData
    BY DEF SendWhole, TypeOK
  <2>2. data_len \in Nat
    BY <2>1 DEF MaxData
  <2> QED
    BY <2>1, <2>2 DEF Calls
<1>2. b \in Pbuf
  <2>1. data_len \in 0..Payload /\ [from |-> 0, to |-> data_len] \in [from : Nat, to : Nat]
    BY <1>1, PayloadType
  <2>2. 0 \in 0..(OffsetMod - 1)
    BY DEF OffsetMod
  <2> QED
    BY <2>1, <2>2 DEF Pbuf
<1>3. /\ b.data.from = 0 /\ b.data.to = data_len
      /\ b.offset = 0 /\ b.mf = FALSE
  OBVIOUS
<1>4. /\ data_len' = data_len /\ first_pbuf' = first_pbuf /\ pc' = "idle"
      /\ \/ queued' = c /\ ret' = "ok" /\ live' = live
         \/ queued' = <<>> /\ ret' = "refused" /\ live' = 0
  BY DEF SendWhole
<1> HIDE DEF b
<1>5. c \in Seq(Pbuf) /\ Len(c) = 1 /\ DOMAIN c = 1..1 /\ c[1] = b /\ c # <<>>
  BY <1>2
<1>6. <<>> \in Seq(Pbuf) /\ Len(<<>>) = 0 /\ DOMAIN <<>> = {}
  BY EmptySeq
<1> HIDE DEF c
<1>7. CASE queued' = c /\ ret' = "ok" /\ live' = live
  <2>1. TypeOK' /\ Calls' /\ Shaped'
    BY <1>1, <1>4, <1>5, <1>7 DEF TypeOK, Calls, NothingLeft, Shaped
  <2>2. CoversData'
    <3>1. c[1].data.from = 0 /\ c[Len(c)].data.to = data_len
      BY <1>3, <1>5
    <3>2. 1..(Len(c) - 1) = {}
      BY <1>5
    <3> QED
      BY <1>4, <1>7, <3>1, <3>2 DEF CoversData, Last
  <2>3. HeadersMatch'
    <3>1. \A j \in DOMAIN c : j = 1
      BY <1>5
    <3>2. c[1].offset * 4 = c[1].data.from /\ ~c[1].mf
      BY <1>3, <1>5
    <3>3. ASSUME NEW j \in DOMAIN c
          PROVE  c[j].offset * 4 = c[j].data.from /\ (c[j].mf <=> j < Len(c))
      BY <1>5, <3>1, <3>2
    <3> QED
      BY <1>7, <3>3 DEF HeadersMatch
  <2> QED
    BY <2>1, <2>2, <2>3
<1>8. CASE queued' = <<>> /\ ret' = "refused" /\ live' = 0
  <2>1. TypeOK' /\ Calls' /\ Shaped'
    BY <1>1, <1>4, <1>6, <1>8 DEF TypeOK, Calls, NothingLeft, Shaped
  <2>2. CoversData' /\ HeadersMatch'
    BY <1>6, <1>8 DEF CoversData, HeadersMatch
  <2> QED
    BY <2>1, <2>2
<1> QED
  BY <1>4, <1>7, <1>8

\* What Create appends.
LEMMA Appended ==
  ASSUME TypeOK, Calls, Create
  PROVE  \E f \in Pbuf :
           /\ first_pbuf' = Append(first_pbuf, f)
           /\ \/ first_pbuf = <<>> /\ f = FirstFragment
              \/ first_pbuf # <<>> /\ MoreToMake(data_len)
                   /\ f = NextFragment(data_len)
<1>2. CASE first_pbuf = <<>> /\ first_pbuf' = <<FirstFragment>>
  <2>1. <<FirstFragment>> = Append(<<>>, FirstFragment)
    OBVIOUS
  <2> QED
    BY <1>2, <2>1, FragmentType
<1>3. CASE /\ first_pbuf # <<>> /\ MoreToMake(data_len)
           /\ first_pbuf' = Append(first_pbuf, NextFragment(data_len))
  BY <1>3, FragmentType
<1> QED
  BY <1>2, <1>3 DEF Create

LEMMA CreateIsSafe ==
  ASSUME TypeOK, Calls, Create
  PROVE  /\ TypeOK' /\ Calls'
         /\ CoversData' /\ HeadersMatch'
         /\ Shaped => Shaped'
<1> DEFINE c == first_pbuf
           n == data_len
           L == Len(c)
<1>1. PICK f \in Pbuf :
        /\ c' = Append(c, f)
        /\ \/ c = <<>> /\ f = FirstFragment
           \/ c # <<>> /\ MoreToMake(n) /\ f = NextFragment(n)
  BY Appended
<1>2. /\ pc = "frag" /\ pc' = pc /\ live' = live + 1
      /\ n' = n /\ queued' = queued /\ ret' = ret
  BY DEF Create
<1>3. /\ queued = <<>> /\ live = 1 + L /\ n > Payload /\ n \in 0..MaxData
      /\ n \in Lengths /\ n \in Nat /\ c \in Seq(Pbuf)
  <2>1. n \in 0..MaxData /\ c \in Seq(Pbuf)
    BY DEF TypeOK
  <2>2. n \in Nat
    BY <2>1 DEF MaxData
  <2>3. queued = <<>> /\ live = 1 + L /\ n > Payload /\ n \in Lengths
    BY <1>2 DEF Calls
  <2> QED
    BY <2>1, <2>2, <2>3
<1>4. L \in Nat /\ DOMAIN c = 1..L
  BY <1>3, LenProperties
<1>5. /\ c' \in Seq(Pbuf) /\ Len(c') = L + 1 /\ DOMAIN c' = 1..(L + 1)
      /\ \A i \in 1..L : c'[i] = c[i]
      /\ c'[L + 1] = f
  <2>1. /\ c' \in Seq(Pbuf) /\ Len(c') = L + 1
        /\ \A i \in 1..L : c'[i] = c[i]
        /\ c'[L + 1] = f
    BY <1>1, <1>3, AppendProperties
  <2> QED
    BY <2>1, LenProperties
<1>6. TypeOK' /\ Calls'
  <2>1. live' = 1 + Len(c') /\ live' \in Nat
    BY <1>2, <1>3, <1>4, <1>5
  <2> QED
    BY <1>2, <1>3, <1>5, <2>1 DEF TypeOK, Calls
<1>7. CoversData' /\ HeadersMatch'
  BY <1>2, <1>3, EmptySeq DEF CoversData, HeadersMatch
<1>8. ASSUME Shaped PROVE Shaped'
  <2>1. n \div Payload < 255 /\ L <= PbufNum(n) /\ Fragments(c, n)
    BY <1>2, <1>8 DEF Shaped
  <2>2. PbufNum(n) \in Nat /\ PbufNum(n) >= 2
    <3>1. Payload \in Nat \ {0}
      BY PayloadType
    <3>2. n \div Payload \in Nat /\ n \div Payload >= 1
      BY <1>3, <3>1, Division
    <3> QED
      BY <1>3, <2>1, <3>2, PbufNumType
  <2>3. /\ L + 1 <= PbufNum(n)
        /\ f.offset = (L * Nfb) % OffsetMod
        /\ f.mf <=> L + 1 < PbufNum(n)
        /\ f.len = IF L + 1 < PbufNum(n) THEN Payload ELSE LastLen(n)
    <3>1. Nfb \in Nat
      BY PayloadType
    <3>2. CASE c = <<>> /\ f = FirstFragment
      <4>1. L = 0
        BY <3>2, EmptySeq
      <4>2. f.offset = 0 /\ f.mf = TRUE /\ f.len = Payload
        BY <3>2 DEF FirstFragment
      <4>3. (0 * Nfb) % OffsetMod = 0
        BY <3>1 DEF OffsetMod
      <4> QED
        BY <2>2, <4>1, <4>2, <4>3
    <3>3. CASE c # <<>> /\ MoreToMake(n) /\ f = NextFragment(n)
      <4>1. L < PbufNum(n) /\ L >= 1
        BY <1>3, <1>4, <3>3, EmptySeq DEF MoreToMake
      <4>2. c[L].offset = ((L - 1) * Nfb) % OffsetMod
        BY <1>4, <2>1, <4>1 DEF Fragments
      <4>3. ((L - 1) * Nfb) + Nfb = L * Nfb /\ (L - 1) * Nfb \in Nat
        BY <1>4, <3>1, <4>1
      <4>4. L = PbufNum(n) - 1 <=> ~(L + 1 < PbufNum(n))
        BY <1>4, <2>2, <4>1
      <4>5. /\ f.offset = (c[L].offset + Nfb) % OffsetMod
            /\ f.mf = ~(L = PbufNum(n) - 1)
            /\ f.len = IF L = PbufNum(n) - 1 THEN LastLen(n) ELSE Payload
        BY <3>3 DEF NextFragment, Last
      <4>6. f.offset = (L * Nfb) % OffsetMod
        <5> DEFINE x == (L - 1) * Nfb
        <5>1. /\ x \in Nat /\ x + Nfb = L * Nfb
              /\ f.offset = ((x % OffsetMod) + Nfb) % OffsetMod
          BY <4>2, <4>3, <4>5
        <5> HIDE DEF x
        <5>2. ((x % OffsetMod) + Nfb) % OffsetMod = (x + Nfb) % OffsetMod
          BY <3>1, <5>1, OffsetSum
        <5> QED
          BY <5>1, <5>2
      <4>7. L + 1 <= PbufNum(n)
        BY <1>4, <2>2, <4>1
      <4>8. f.mf <=> L + 1 < PbufNum(n)
        BY <4>4, <4>5, Zenon
      <4>9. f.len = IF L + 1 < PbufNum(n) THEN Payload ELSE LastLen(n)
        BY <4>4, <4>5, Zenon
      <4> QED
        BY <4>6, <4>7, <4>8, <4>9
    <3> QED
      BY <1>1, <3>2, <3>3
  <2>4. ASSUME NEW i \in 1..(L + 1)
        PROVE  /\ c'[i].offset = ((i - 1) * Nfb) % OffsetMod
               /\ c'[i].mf <=> i < PbufNum(n)
               /\ c'[i].len = IF i < PbufNum(n) THEN Payload ELSE LastLen(n)
    <3>1. CASE i = L + 1
      <4>1. c'[i] = f /\ i - 1 = L
        BY <1>4, <1>5, <3>1
      <4> QED
        BY <2>3, <3>1, <4>1
    <3>2. CASE i # L + 1
      <4>1. i \in 1..L /\ i \in DOMAIN c
        BY <1>4, <3>2
      <4> QED
        BY <1>5, <2>1, <4>1 DEF Fragments
    <3> QED
      BY <3>1, <3>2
  <2>5. Fragments(c, n)'
    BY <1>2, <1>5, <2>4 DEF Fragments
  <2> QED
    BY <1>2, <1>5, <2>1, <2>3, <2>5 DEF Shaped
<1> QED
  BY <1>6, <1>7, <1>8

\* Without memory for the next fragment everything made is given back.
LEMMA CreateFailsIsSafe ==
  ASSUME TypeOK, Calls, CreateFails
  PROVE  TypeOK' /\ Calls' /\ Shaped' /\ CoversData' /\ HeadersMatch'
<1>1. /\ pc = "frag" /\ pc' = "idle" /\ ret' = "memory"
      /\ live' = live - FreedOnFailure /\ first_pbuf' = <<>>
      /\ data_len' = data_len /\ queued' = queued
  BY DEF CreateFails
<1>2. queued = <<>> /\ live = 1 + Len(first_pbuf) /\ Len(first_pbuf) \in Nat
  BY <1>1, LenProperties DEF Calls, TypeOK
<1>3. live' = 0
  BY <1>1, <1>2 DEF FreedOnFailure
<1>4. <<>> \in Seq(Pbuf) /\ Len(<<>>) = 0 /\ DOMAIN <<>> = {}
  BY EmptySeq
<1>5. TypeOK' /\ Calls' /\ Shaped'
  BY <1>1, <1>2, <1>3, <1>4 DEF TypeOK, Calls, NothingLeft, Shaped
<1> QED
  BY <1>1, <1>2, <1>4, <1>5 DEF CoversData, HeadersMatch

\* The chain goes to the queue, with all data, or is freed.
LEMMA MountIsSafe ==
  ASSUME TypeOK, Calls, Mount
  PROVE  /\ TypeOK' /\ Calls' /\ Shaped'
         /\ Shaped => CoversData' /\ (Locatable => HeadersMatch')
<1> DEFINE c == first_pbuf
           n == data_len
           L == Len(c)
           t == Taken(c, n)
<1>1. pc = "frag" /\ ~MoreToMake(n) /\ pc' = "idle" /\ ret' = "ok"
  BY DEF Mount
<1>2. /\ first_pbuf' = <<>> /\ data_len' = data_len
      /\ \/ queued' = t /\ live' = live - 1
         \/ queued' = <<>> /\ live' = live - 1 - Len(t)
  BY DEF Mount
<1>3. /\ live = 1 + L /\ n > Payload /\ n <= MaxData
      /\ n \in Nat /\ n \in 0..MaxData /\ n \in Lengths
      /\ c \in Seq(Pbuf) /\ L \in Nat
  <2>1. n \in 0..MaxData /\ c \in Seq(Pbuf)
    BY DEF TypeOK
  <2>2. n \in Nat /\ n <= MaxData
    BY <2>1 DEF MaxData
  <2>3. live = 1 + L /\ n > Payload /\ n \in Lengths
    BY <1>1 DEF Calls
  <2> QED
    BY <2>1, <2>2, <2>3, LenProperties
<1>4. t \in Seq(Pbuf) /\ Len(t) = L
  BY <1>3, TakenType
<1>5. <<>> \in Seq(Pbuf) /\ Len(<<>>) = 0 /\ DOMAIN <<>> = {}
  BY EmptySeq
<1>6. queued' \in Seq(Pbuf) /\ live' = Len(queued') /\ live' \in Nat
  <2> HIDE DEF t
  <2>1. CASE queued' = t /\ live' = live - 1
    BY <1>3, <1>4, <2>1
  <2>2. CASE queued' = <<>> /\ live' = live - 1 - Len(t)
    BY <1>3, <1>4, <1>5, <2>2
  <2> QED
    BY <1>2, <2>1, <2>2
<1>7. TypeOK' /\ Calls' /\ Shaped'
  BY <1>1, <1>2, <1>3, <1>5, <1>6 DEF TypeOK, Calls, NothingLeft, Shaped
<1>8. ASSUME Shaped PROVE CoversData' /\ (Locatable => HeadersMatch')
  <2>1. n \div Payload < 255 /\ L <= PbufNum(n) /\ Fragments(c, n)
    BY <1>1, <1>8 DEF Shaped
  <2>2. L = PbufNum(n)
    <3>1. ~(L < PbufNum(n))
      BY <1>1 DEF MoreToMake
    <3>2. PbufNum(n) \in 0..255
      BY <1>3, PbufNumType
    <3>3. L \in Nat /\ L <= PbufNum(n)
      BY <1>3, <2>1
    <3> HIDE DEF L, n
    <3> QED
      BY <3>1, <3>2, <3>3
  <2>3. /\ L >= 2
        /\ t[1].data.from = 0 /\ t[L].data.to = n
        /\ \A j \in 1..(L - 1) : t[j].data.to = t[j + 1].data.from
        /\ n < 4 * OffsetMod => \A j \in 1..L :
             t[j].offset * 4 = t[j].data.from /\ (t[j].mf <=> j < L)
    BY <1>3, <2>1, <2>2, TakenWhole
  <2>4. DOMAIN t = 1..L
    BY <1>4, LenProperties
  <2> HIDE DEF t
  <2>5. CASE queued' = t
    <3>1. CoversData'
      BY <1>2, <1>4, <2>3, <2>5 DEF CoversData, Last
    <3>2. ASSUME Locatable PROVE HeadersMatch'
      <4>0. n < 4 * OffsetMod
        BY <1>3, <3>2 DEF Locatable
      <4>1. ASSUME NEW j \in DOMAIN t
            PROVE  t[j].offset * 4 = t[j].data.from /\ (t[j].mf <=> j < Len(t))
        BY <1>4, <2>3, <2>4, <4>0
      <4> QED
        BY <2>5, <4>1 DEF HeadersMatch
    <3> QED
      BY <3>1, <3>2
  <2>6. CASE queued' = <<>>
    BY <1>5, <2>6 DEF CoversData, HeadersMatch
  <2> QED
    BY <1>2, <2>5, <2>6
<1> QED
  BY <1>7, <1>8

-----------------------------------------------------------------------------
(***************************************************************************)
(* The theorems.                                                           *)
(***************************************************************************)

LEMMA StutterIsSafe ==
  ASSUME TypeOK, Calls, UNCHANGED svars
  PROVE  /\ TypeOK' /\ Calls'
         /\ CoversData => CoversData'
         /\ HeadersMatch => HeadersMatch'
         /\ Shaped => Shaped'
BY DEF TypeOK, Calls, NothingLeft, CoversData, HeadersMatch, Shaped,
       Fragments, svars

LEMMA StepIsSafe ==
  ASSUME TypeOK, Calls, [Next]_svars
  PROVE  /\ TypeOK' /\ Calls'
         /\ Shaped /\ Countable => Shaped'
         /\ Shaped /\ CoversData => CoversData'
         /\ Shaped /\ Locatable /\ HeadersMatch => HeadersMatch'
<1>1. CASE \E n \in Lengths, buf \in BOOLEAN : Fail(n, buf) \/ Accept(n, buf)
  BY <1>1, CallIsSafe
<1>2. CASE SendWhole
  BY <1>2, SendWholeIsSafe
<1>3. CASE Create
  BY <1>3, CreateIsSafe
<1>4. CASE CreateFails
  BY <1>4, CreateFailsIsSafe
<1>5. CASE Mount
  BY <1>5, MountIsSafe
<1>6. CASE UNCHANGED svars
  BY <1>6, StutterIsSafe
<1> QED
  BY <1>1, <1>2, <1>3, <1>4, <1>5, <1>6 DEF Next

LEMMA CallsAreKnown ==
  Spec => [](TypeOK /\ Calls)
<1>1. Init => TypeOK /\ Calls
  BY InitIsSafe
<1>2. TypeOK /\ Calls /\ [Next]_svars => (TypeOK /\ Calls)'
  BY StepIsSafe
<1> QED
  BY <1>1, <1>2, PTL DEF Spec

\* Lengths fit their fields, for every mtu and header length: no pbuf that
\* packet_frag makes has more payload than a frame may carry, even when the
\* number of fragments wraps.
THEOREM TypeCorrect ==
  Spec => []TypeOK
BY CallsAreKnown, PTL

\* Wherever a call fails - no route, no memory for any of the fragments, no
\* room in the queue - exactly the pbufs that the queue took are left, and the
\* queue took none when mac_output_to_src returns an error.
THEOREM NoPbufIsLeft ==
  Spec => []NothingLeft
<1>1. TypeOK /\ Calls => NothingLeft
  BY DEF Calls, NothingLeft
<1> QED
  BY <1>1, CallsAreKnown, PTL

LEMMA DataIsKnown ==
  ASSUME Countable
  PROVE  Spec => [](TypeOK /\ Calls /\ Shaped /\ CoversData)
<1> DEFINE Inv == TypeOK /\ Calls /\ Shaped /\ CoversData
<1>1. Init => Inv
  BY InitIsSafe
<1>2. Inv /\ [Next]_svars => Inv'
  BY StepIsSafe, Countable
<1> QED
  BY <1>1, <1>2, PTL DEF Spec

\* Up to 254 full frames of data, and a rest: the chain that packet_frag and
\* pbuf_take hand to the queue holds every byte of the data, once and in
\* order.  (With 255 the count, a uint8_t, is 0 and the data is lost.)
THEOREM AllDataIsSent ==
  ASSUME Countable
  PROVE  Spec => []CoversData
BY DataIsKnown, PTL

\* Then the offset in the header of each fragment is where its data begins,
\* and exactly the last one announces no more, as long as the 13 bits of the
\* offset, in units of 4 bytes, can name every byte.
THEOREM HeadersLocateData ==
  ASSUME Countable, Locatable
  PROVE  Spec => []HeadersMatch
<1>1. Init => HeadersMatch
  BY InitIsSafe
<1>2. TypeOK /\ Calls /\ Shaped /\ HeadersMatch /\ [Next]_svars
        => HeadersMatch'
  BY StepIsSafe, Locatable
<1>3. Spec => [](TypeOK /\ Calls /\ Shaped)
  BY DataIsKnown, PTL
<1> QED
  BY <1>1, <1>2, <1>3, PTL DEF Spec

=============================================================================

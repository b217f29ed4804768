--------------------------- MODULE RadioCardProofs ---------------------------
(***************************************************************************)
(* Proofs about the registry of cards, for any cards, any number of card   *)
(* numbers, and initialisations that fail: until the numbers are used up   *)
(* they are distinct, and lead every pbuf to the card it was accepted for. *)
(***************************************************************************)
EXTENDS RadioCard, ChainOpsProofs

CardNums ==
  /\ added \subseteq Card
  /\ num \in [Card -> 0..(NumMod - 1)] /\ rf_card_num \in 0..(NumMod - 1)
  /\ adds \in Nat

\* Until numbers wrap, the next number is the number of calls so far.
NumIsCount ==
  /\ adds < NumMod => rf_card_num = adds
  /\ adds <= NumMod => \A c \in added : num[c] < adds

Inv == CardNums /\ NumIsCount /\ NumbersDistinct

LEMMA InitInv == Init => Inv
BY NumAssumption DEF Init, Inv, CardNums, NumIsCount, NumbersDistinct

\* A new number is greater than all others, or none are left.
LEMMA NewNumberInv ==
  ASSUME Inv, NEW c \in Card, NewNumber(c), added' \in {added, added \cup {c}}
  PROVE  Inv'
<1>1. /\ adds' = adds + 1 /\ c \notin added
      /\ num' = [num EXCEPT ![c] = rf_card_num]
      /\ rf_card_num' = NextNum(rf_card_num)
  BY DEF NewNumber
<1>2. NumMod \in Nat \ {0} /\ adds \in Nat /\ rf_card_num \in 0..(NumMod - 1)
  BY NumAssumption DEF Inv, CardNums
<1>3. CardNums'
  BY <1>1, <1>2 DEF Inv, CardNums, NextNum
<1>4. /\ num'[c] = rf_card_num
      /\ \A d \in added : num'[d] = num[d] /\ num[d] \in Nat
  BY <1>1 DEF Inv, CardNums
<1>5. NumIsCount'
  <2>1. adds' < NumMod => rf_card_num' = adds'
    BY <1>1, <1>2 DEF Inv, NumIsCount, NextNum
  <2>2. ASSUME adds' <= NumMod, NEW d \in added'
        PROVE  num'[d] < adds'
    BY <2>2, <1>1, <1>2, <1>4 DEF Inv, NumIsCount
  <2> QED
    BY <2>1, <2>2 DEF NumIsCount
<1>6. NumbersDistinct'
  <2> SUFFICES ASSUME adds' <= NumMod, NEW d \in added', NEW e \in added',
                      num'[d] = num'[e]
               PROVE  d = e
    BY DEF NumbersDistinct
  <2>1. rf_card_num = adds /\ \A x \in added : num[x] < adds
    BY <1>1, <1>2 DEF Inv, NumIsCount
  <2>2. CASE d \in added /\ e \in added
    BY <2>2, <1>1, <1>2, <1>4 DEF Inv, NumbersDistinct
  <2>3. CASE d = c \/ e = c
    BY <2>1, <2>3, <1>2, <1>4
  <2> QED
    BY <2>2, <2>3
<1> QED
  BY <1>3, <1>5, <1>6 DEF Inv

LEMMA NextInv == Inv /\ [Next]_cvars => Inv'
<1> SUFFICES ASSUME Inv, [Next]_cvars PROVE Inv'
  OBVIOUS
<1>1. ASSUME NEW c \in Card, InitFails(c) \/ rf_card_add_and_init(c)
      PROVE  Inv'
  <2>1. NewNumber(c) /\ added' \in {added, added \cup {c}}
    BY <1>1 DEF InitFails, rf_card_add_and_init
  <2> QED
    BY <2>1, NewNumberInv
<1>2. ASSUME UNCHANGED <<num, rf_card_num, added, adds>>
      PROVE  Inv'
  BY <1>2 DEF Inv, CardNums, NumIsCount, NumbersDistinct
<1>3. ASSUME NEW src, Accept(src) \/ Refuse(src)
      PROVE  UNCHANGED <<num, rf_card_num, added, adds>>
  BY <1>3 DEF Accept, Refuse, cvars
<1>4. ASSUME NEW b, Transmit(b)
      PROVE  UNCHANGED <<num, rf_card_num, added, adds>>
  BY <1>4 DEF Transmit
<1>5. ASSUME NEW c, rf_card_set_default(c)
      PROVE  UNCHANGED <<num, rf_card_num, added, adds>>
  BY <1>5 DEF rf_card_set_default
<1> QED
  BY <1>1, <1>2, <1>3, <1>4, <1>5 DEF Next, cvars

\* Cards on the list have different numbers as long as there have been no more
\* additions, successful or not, than there are numbers (rf_card_add_and_init).
THEOREM CardNumbersDistinct == Spec => []NumbersDistinct
BY InitInv, NextInv, PTL DEF Spec, Inv

-----------------------------------------------------------------------------
(***************************************************************************)
(* The list and the queue.                                                 *)
(***************************************************************************)

\* The list holds the cards that were added, each once: its pointers do not
\* leave them, reach all of them, and never come back.
Registry ==
  /\ next \in [Card -> Card \cup {Null}]
  /\ card_list \in added \cup {Null} /\ default_card \in added \cup {Null}
  /\ \A c \in added : next[c] \in added \cup {Null}
  /\ \A c \in added : c = card_list \/ \E d \in added : next[d] = c
  /\ \A c \in Card \ added : next[c] = Null
  /\ \E rank : Ascending(Card, next, Null, rank)

\* A pbuf carries the number of the card it was accepted for.
Numbered ==
  \A b \in queue : b.card \in added /\ b.card_idx = num[b.card] + 1

\* A loop over the list visits the cards that were added, and no others.
LEMMA ListedCards ==
  ASSUME CardNums, Registry
  PROVE  /\ \A i \in DOMAIN List : List[i] \in added
         /\ \A c \in added : \E i \in DOMAIN List : List[i] = c
         /\ List \in Seq(Card)
<1>1. IsFiniteSet(Card) /\ Null \notin Card
  BY CardAssumption
<1>2. /\ added \in SUBSET Card /\ next \in [Card -> Card \cup {Null}]
      /\ card_list \in Card \cup {Null} /\ card_list \in added \cup {Null}
      /\ \A c \in added : next[c] \in added \cup {Null}
      /\ \A c \in added : c = card_list \/ \E d \in added : next[d] = c
  BY DEF CardNums, Registry
<1>3. PICK rank : Ascending(Card, next, Null, rank)
  BY DEF Registry
<1>4. \A i \in DOMAIN List : List[i] \in added
  BY <1>1, <1>2, <1>3, ListFromWithin DEF List
<1>5. \A c \in added : \E i \in DOMAIN List : List[i] = c
  BY <1>1, <1>2, <1>3, ListFromReaches DEF List
<1>6. List \in Seq(Card)
  BY <1>1, <1>2, <1>3, ListFromProperties DEF List
<1> QED
  BY <1>4, <1>5, <1>6

\* The first card found is one of those looked for; it is found if it is there.
LEMMA FirstCardFound ==
  ASSUME CardNums, Registry, NEW S
  PROVE  /\ FirstCard(S) \in (added \cap S) \cup {Null}
         /\ added \cap S # {} => FirstCard(S) # Null
<1> DEFINE hits == {i \in DOMAIN List : List[i] \in S}
           first == CHOOSE i \in hits : \A j \in hits : i <= j
<1>1. /\ \A i \in DOMAIN List : List[i] \in added
      /\ \A c \in added : \E i \in DOMAIN List : List[i] = c
  BY ListedCards
<1>2. DOMAIN List \in SUBSET Nat
  BY ListedCards, LenProperties
<1>3. FirstCard(S) = IF hits = {} THEN Null ELSE List[first]
  BY DEF FirstCard
<1>4. ASSUME hits # {} PROVE first \in hits
  <2>1. hits \in SUBSET Nat
    BY <1>2
  <2> HIDE DEF hits
  <2>2. \E i \in hits : \A j \in hits : i <= j
    BY <1>4, <2>1, LeastElement
  <2> QED
    BY <2>2
<1>5. hits # {} => List[first] \in added \cap S
  BY <1>1, <1>4
<1>6. added \cap S # {} => hits # {}
  BY <1>1
<1>7. Null \notin added
  BY CardAssumption DEF CardNums
<1> HIDE DEF hits, first
<1> QED
  BY <1>3, <1>5, <1>6, <1>7

LEMMA RegistryInit == Init => Registry /\ Numbered
<1> SUFFICES ASSUME Init PROVE Registry /\ Numbered
  OBVIOUS
<1>1. Ascending(Card, next, Null, [c \in Card |-> 0])
  BY DEF Init, Ascending
<1> QED
  BY <1>1 DEF Init, Registry, Numbered

\* A new card becomes the head of the list; it is put before all others.
LEMMA RegistryAdd ==
  ASSUME Inv, Registry, NEW c \in Card, rf_card_add_and_init(c)
  PROVE  Registry'
<1>1. /\ c \notin added /\ added' = added \cup {c}
      /\ next' = [next EXCEPT ![c] = card_list]
      /\ card_list' = c /\ default_card' = default_card
  BY DEF rf_card_add_and_init, NewNumber
<1>2. /\ added \subseteq Card /\ Null \notin Card
      /\ next \in [Card -> Card \cup {Null}]
      /\ card_list \in added \cup {Null} /\ default_card \in added \cup {Null}
      /\ \A d \in added : next[d] \in added \cup {Null}
      /\ \A d \in added : d = card_list \/ \E e \in added : next[e] = d
      /\ \A d \in Card \ added : next[d] = Null
  BY CardAssumption DEF Inv, CardNums, Registry
<1>3. PICK rank : Ascending(Card, next, Null, rank)
  BY DEF Registry
<1> DEFINE above == [d \in Card |-> IF d = c THEN 0 ELSE rank[d] + 1]
<1>4. /\ next' \in [Card -> Card \cup {Null}] /\ next'[c] = card_list
      /\ \A d \in Card : d # c => next'[d] = next[d]
  BY <1>1, <1>2
<1>5. Ascending(Card, next', Null, above)
  <2>1. \A d \in Card : rank[d] \in Nat
    BY <1>3 DEF Ascending
  <2>2. above \in [Card -> Nat]
    BY <2>1
  <2>3. ASSUME NEW d \in Card, next'[d] # Null
        PROVE  above[d] < above[next'[d]]
    <3>1. CASE d = c
      <4>1. next'[d] \in added /\ next'[d] # c
        BY <1>1, <1>2, <1>4, <2>3, <3>1
      <4> QED
        BY <1>2, <2>1, <3>1, <4>1
    <3>2. CASE d # c
      <4>1. next'[d] = next[d] /\ next[d] \in added /\ next[d] # c
        BY <1>1, <1>2, <1>4, <2>3, <3>2
      <4>2. next[d] \in Card /\ rank[d] < rank[next[d]]
        BY <1>2, <1>3, <4>1 DEF Ascending
      <4> QED
        BY <2>1, <3>2, <4>1, <4>2
    <3> QED
      BY <3>1, <3>2
  <2> QED
    BY <2>2, <2>3 DEF Ascending
<1>6. \A d \in added' : d = card_list' \/ \E e \in added' : next'[e] = d
  <2> SUFFICES ASSUME NEW d \in added, d # c
               PROVE  \E e \in added' : next'[e] = d
    BY <1>1
  <2>1. CASE d = card_list
    BY <1>1, <1>4, <2>1
  <2>2. CASE d # card_list
    <3>1. PICK e \in added : next[e] = d
      BY <1>2, <2>2
    <3> QED
      BY <1>1, <1>2, <1>4, <3>1
  <2> QED
    BY <2>1, <2>2
<1>7. \A d \in added' : next'[d] \in added' \cup {Null}
  BY <1>1, <1>2, <1>4
<1>8. \A d \in Card \ added' : next'[d] = Null
  BY <1>1, <1>2, <1>4
<1>9. card_list' \in added' \cup {Null} /\ default_card' \in added' \cup {Null}
  BY <1>1, <1>2
<1> HIDE DEF above
<1> QED
  BY <1>4, <1>5, <1>6, <1>7, <1>8, <1>9 DEF Registry

LEMMA RegistryStep ==
  ASSUME Inv, Registry, Numbered, [Next]_cvars
  PROVE  Registry' /\ Numbered'
<1>1. /\ added \subseteq Card /\ num \in [Card -> 0..(NumMod - 1)]
      /\ \A b \in queue : b.card \in added /\ b.card_idx = num[b.card] + 1
  BY DEF Inv, CardNums, Numbered
<1>2. ASSUME NEW c \in Card, NewNumber(c), queue' = queue,
             added' \in {added, added \cup {c}}
      PROVE  Numbered'
  <2>1. c \notin added /\ num' = [num EXCEPT ![c] = rf_card_num]
    BY <1>2 DEF NewNumber
  <2>2. \A d \in added : num'[d] = num[d] /\ d \in added'
    BY <1>1, <1>2, <2>1
  <2> QED
    BY <1>1, <1>2, <2>2 DEF Numbered
<1>3. ASSUME NEW c \in Card, InitFails(c)
      PROVE  Registry' /\ Numbered'
  <2>1. NewNumber(c) /\ UNCHANGED <<card_list, next, default_card, queue, added>>
    BY <1>3 DEF InitFails
  <2>2. Numbered'
    BY <1>2, <2>1
  <2> QED
    BY <2>1, <2>2 DEF Registry
<1>4. ASSUME NEW c \in Card, rf_card_add_and_init(c)
      PROVE  Registry' /\ Numbered'
  <2>1. NewNumber(c) /\ queue' = queue /\ added' = added \cup {c}
    BY <1>4 DEF rf_card_add_and_init
  <2>2. Numbered'
    BY <1>2, <2>1
  <2> QED
    BY <1>4, <2>2, RegistryAdd
<1>5. ASSUME NEW c \in Card, rf_card_set_default(c)
      PROVE  Registry' /\ Numbered'
  BY <1>5 DEF rf_card_set_default, Registry, Numbered
<1>6. ASSUME NEW src, Accept(src)
      PROVE  Registry' /\ Numbered'
  <2> DEFINE c == rf_card_match(src)
  <2>1. /\ c # Null
        /\ queue' = queue \cup {[card |-> c, card_idx |-> CardIndex(c)]}
        /\ UNCHANGED <<card_list, next, num, rf_card_num, default_card, added,
                       adds>>
    BY <1>6 DEF Accept
  <2>2. c \in added
    <3>1. rf_card_get_from_addr(src) \in added \cup {Null}
      BY FirstCardFound DEF rf_card_get_from_addr, Inv
    <3>2. default_card \in added \cup {Null}
      BY DEF Registry
    <3> QED
      BY <2>1, <3>1, <3>2 DEF rf_card_match
  <2> HIDE DEF c
  <2>3. Registry'
    BY <2>1 DEF Registry
  <2>4. Numbered'
    BY <1>1, <2>1, <2>2 DEF Numbered, CardIndex
  <2> QED
    BY <2>3, <2>4
<1>7. ASSUME NEW b, Transmit(b)
      PROVE  Registry' /\ Numbered'
  BY <1>7 DEF Transmit, Registry, Numbered
<1>8. ASSUME UNCHANGED cvars
      PROVE  Registry' /\ Numbered'
  BY <1>8 DEF cvars, Registry, Numbered
<1>9. ASSUME NEW src, Refuse(src)
      PROVE  Registry' /\ Numbered'
  BY <1>8, <1>9 DEF Refuse
<1> QED
  BY <1>3, <1>4, <1>5, <1>6, <1>7, <1>8, <1>9 DEF Next

\* A pbuf is handed to the card it was accepted for, however many cards were
\* added, failed to start or were made the default while it waited, until there
\* have been more calls of rf_card_add_and_init than there are numbers.
THEOREM PbufsReachTheirCard == Spec => []SentByAcceptor
<1> DEFINE All == Inv /\ Registry /\ Numbered
<1>1. Init => All
  BY InitInv, RegistryInit
<1>2. All /\ [Next]_cvars => All'
  BY NextInv, RegistryStep
<1>3. All => SentByAcceptor
  <2> SUFFICES ASSUME Inv, Registry, Numbered, adds <= NumMod, NEW b \in queue
               PROVE  CardFor(b) = b.card
    BY DEF SentByAcceptor
  <2>1. /\ b.card \in added /\ b.card \in Card
        /\ num[b.card] \in Nat /\ b.card_idx = num[b.card] + 1
    BY NumAssumption DEF Numbered, Inv, CardNums
  <2> DEFINE S == {c \in Card : num[c] = num[b.card]}
  <2>2. CardFor(b) = FirstCard(S)
    <3>1. b.card_idx - 1 = num[b.card]
      BY <2>1
    <3> QED
      BY <3>1 DEF CardFor, rf_card_get_from_num
  <2>3. added \cap S = {b.card}
    BY <2>1 DEF Inv, CardNums, NumbersDistinct
  <2> HIDE DEF S
  <2>4. FirstCard(S) \in {b.card} \cup {Null} /\ FirstCard(S) # Null
    BY <2>3, FirstCardFound DEF Inv
  <2> QED
    BY <2>2, <2>4
<1> QED
  BY <1>1, <1>2, <1>3, PTL DEF Spec

=============================================================================

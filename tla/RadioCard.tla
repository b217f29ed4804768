------------------------------ MODULE RadioCard ------------------------------
(***************************************************************************)
(* The registry of radio cards, src/src/radio_card.c: a linked list of     *)
(* cards with numbers.  A datagram is accepted for the card of its source  *)
(* address, or for the default card; its pbuf carries the card's number,   *)
(* by which oput_msg_tmr finds the card again when it transmits.           *)
(***************************************************************************)
EXTENDS Naturals, Sequences, FiniteSets, ChainOps

CONSTANTS
  Card,      \* struct rf_card objects of the application
  Addr,      \* MAC addresses
  hwaddr,    \* the address of each card
  Null,      \* the NULL pointer; no source address
  NumMod,    \* card numbers are 0..NumMod-1; 255 of them in the code
  MaxAdds,   \* bound of the model: calls of rf_card_add_and_init
  MaxQueue   \* bound of the model: pbufs that wait

ASSUME CardAssumption ==
  /\ IsFiniteSet(Card) /\ Null \notin Card \cup Addr
  /\ hwaddr \in [Card -> Addr]

ASSUME NumAssumption == NumMod \in Nat \ {0} /\ MaxAdds \in Nat /\ MaxQueue \in Nat

VARIABLES
  card_list,     \* head of the list
  next, num,     \* fields of the cards
  rf_card_num,   \* the next number
  default_card,
  queue,         \* pbufs accepted and not transmitted yet
  added,         \* the cards whose rf_card_add_and_init succeeded
  adds           \* calls of rf_card_add_and_init so far

cvars == <<card_list, next, num, rf_card_num, default_card, queue, added, adds>>

-----------------------------------------------------------------------------

\* The cards a loop over the list visits.
List == ListFrom(card_list, next, Null)

\* The first card of the list that is in S, or NULL.
FirstCard(S) ==
  LET hits == {i \in DOMAIN List : List[i] \in S}
  IN  IF hits = {} THEN Null
      ELSE List[CHOOSE i \in hits : \A j \in hits : i <= j]

rf_card_get_from_num(n) == FirstCard({c \in Card : num[c] = n})

rf_card_get_from_addr(a) == FirstCard({c \in Card : hwaddr[c] = a})

\* The card for a source address: its own, or else the default card.
rf_card_match(src) ==
  IF src # Null /\ rf_card_get_from_addr(src) # Null THEN rf_card_get_from_addr(src)
  ELSE default_card

-----------------------------------------------------------------------------

NextNum_mut(n) == IF n + 2 >= NumMod THEN 0 ELSE n + 1
NextNum(n) == IF n = NumMod - 1 THEN 0 ELSE n + 1

\* The number is used up even if init fails.  A card on the list is not added
\* again: the callers' part, since it would become its own successor.
NewNumber(c) ==
  /\ adds < MaxAdds /\ adds' = adds + 1
  /\ c \notin added
  /\ num' = [num EXCEPT ![c] = rf_card_num]
  /\ rf_card_num' = NextNum(rf_card_num)

InitFails(c) ==
  /\ NewNumber(c)
  /\ UNCHANGED <<card_list, next, default_card, queue, added>>

rf_card_add_and_init(c) ==
  /\ NewNumber(c)
  /\ next' = [next EXCEPT ![c] = card_list]
  /\ card_list' = c
  /\ added' = added \cup {c}
  /\ UNCHANGED <<default_card, queue>>

\* As in main.c, only once the card has been added.
rf_card_set_default(c) ==
  /\ c \in added
  /\ default_card' = c
  /\ UNCHANGED <<card_list, next, num, rf_card_num, queue, added, adds>>

-----------------------------------------------------------------------------

\* get_card_index: 0 stands for no card.
CardIndex_mut(c) == num[c]
CardIndex(c) == num[c] + 1

\* mac_output_to_src chooses a card; without one it returns an error (Refuse).
Accept(src) ==
  LET c == rf_card_match(src)
  IN  /\ c # Null
      /\ Cardinality(queue) < MaxQueue
      /\ queue' = queue \cup {[card |-> c, card_idx |-> CardIndex(c)]}
      /\ UNCHANGED <<card_list, next, num, rf_card_num, default_card, added, adds>>

Refuse(src) == rf_card_match(src) = Null /\ UNCHANGED cvars

\* The card oput_msg_tmr hands pbuf b to; without one b is given up.
CardFor(b) == rf_card_get_from_num(b.card_idx - 1)

Transmit(b) ==
  /\ queue' = queue \ {b}
  /\ UNCHANGED <<card_list, next, num, rf_card_num, default_card, added, adds>>

-----------------------------------------------------------------------------

Init ==
  /\ card_list = Null /\ default_card = Null
  /\ next = [c \in Card |-> Null] /\ num = [c \in Card |-> 0]
  /\ rf_card_num = 0
  /\ queue = {} /\ added = {} /\ adds = 0

Next ==
  \/ \E c \in Card : InitFails(c) \/ rf_card_add_and_init(c) \/ rf_card_set_default(c)
  \/ \E src \in Addr \cup {Null} : Accept(src) \/ Refuse(src)
  \/ \E b \in queue : Transmit(b)

Spec == Init /\ [][Next]_cvars

-----------------------------------------------------------------------------
(***************************************************************************)
(* Properties.                                                             *)
(***************************************************************************)

\* Cards of the list have different numbers until there have been more calls of
\* rf_card_add_and_init than numbers, failed ones included.
NumbersDistinct ==
  adds <= NumMod => \A c, d \in added : num[c] = num[d] => c = d

\* A pbuf is transmitted by the card it was accepted for, whatever cards are
\* added and made the default meanwhile: the list still leads to that card, and
\* no other with its number comes first (oput_msg_tmr).
SentByAcceptor == adds <= NumMod => \A b \in queue : CardFor(b) = b.card

=============================================================================

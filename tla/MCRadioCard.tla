----------------------------- MODULE MCRadioCard -----------------------------
(***************************************************************************)
(* A small instance of RadioCard for TLC.                                  *)
(***************************************************************************)
EXTENDS RadioCard

CONSTANTS c1, c2, c3, a1, a2, a3

Three == {c1, c2, c3}
Addresses == {a1, a2, a3}

\* Two cards share an address, and a3 is nobody's.
SharedAddress == [c \in Three |-> IF c = c3 THEN a2 ELSE a1]

=============================================================================

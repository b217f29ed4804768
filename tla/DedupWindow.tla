---------------------------- MODULE DedupWindow ----------------------------
(***************************************************************************)
(* What the input manager promises the receive path: a frame is let        *)
(* through once, and repeats of it are refused until MaxAge timer ticks    *)
(* have passed.  A new frame is turned away only when Capacity frames are  *)
(* remembered already.  InputMgr implements it with a table of slots.      *)
(***************************************************************************)
EXTENDS Naturals, FiniteSets

CONSTANTS
  Key,       \* what tells frames apart: source, sequence number, offset
  Capacity,  \* the number of frames remembered at once
  MaxAge     \* ticks a frame is remembered

VARIABLES
  age,  \* ticks since the frame was let through; MaxAge when not remembered
  ret   \* what the caller was told about the last frame

wvars == <<age, ret>>

Remembered == {k \in Key : age[k] < MaxAge}

Accept(k) ==
  /\ k \notin Remembered
  /\ Cardinality(Remembered) < Capacity
  /\ age' = [age EXCEPT ![k] = 0]
  /\ ret' = "ERR_OK"

RefuseRepeat(k) ==
  /\ k \in Remembered
  /\ ret' = "ERR_VAL"
  /\ UNCHANGED age

RefuseFull(k) ==
  /\ k \notin Remembered
  /\ Cardinality(Remembered) = Capacity
  /\ ret' = "ERR_BUF"
  /\ UNCHANGED age

Age ==
  /\ age' = [k \in Key |-> IF k \in Remembered THEN age[k] + 1 ELSE MaxAge]
  /\ UNCHANGED ret

Init == age = [k \in Key |-> MaxAge] /\ ret = "none"

Next == Age \/ \E k \in Key : Accept(k) \/ RefuseRepeat(k) \/ RefuseFull(k)

Spec == Init /\ [][Next]_wvars

=============================================================================

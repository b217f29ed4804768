----------------------------- MODULE MCSendPath -----------------------------
(***************************************************************************)
(* Lengths for TLC: all up to a few fragments, the most a queue takes, and *)
(* the most a uint8_t counts.                                              *)
(***************************************************************************)
EXTENDS SendPath

UpToThe255th == (0..320) \cup {2000, 2099, 2100, 25399, 25400, 25499}

=============================================================================

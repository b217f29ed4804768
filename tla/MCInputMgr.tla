---------------------------- MODULE MCInputMgr ----------------------------
(***************************************************************************)
(* Small instances of InputMgr for TLC.                                    *)
(***************************************************************************)
EXTENDS InputMgr

CONSTANTS u1, u2

TwoSources == {u1, u2}
Seqs == {0}
Offsets == {0, 4}

=============================================================================

------------------------------ MODULE MCReass ------------------------------
(***************************************************************************)
(* Small instances of Reass for TLC.                                       *)
(***************************************************************************)
EXTENDS Reass

CONSTANTS u1, u2

OneSource == {u1}
TwoSources == {u1, u2}

Short == [frags : {2}, tail : {1}]
Lengths == [frags : {2, 3}, tail : {1}]

Undisturbed == {}
Disturbed == {"late", "skip", "repeat", "nomem"}

=============================================================================

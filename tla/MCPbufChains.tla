---------------------------- MODULE MCPbufChains ----------------------------
(***************************************************************************)
(* A small instance of PbufChains for TLC.                                 *)
(***************************************************************************)
EXTENDS PbufChains, TLC

CONSTANTS p1, p2, p3

Three == {p1, p2, p3}
MacAndRaw == {0, 2}
OneHdr == {2}
ShortAndLong == {1, 2}

AnyOrder == Permutations(Three)

=============================================================================

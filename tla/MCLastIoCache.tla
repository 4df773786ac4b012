--------------------------- MODULE MCLastIoCache ---------------------------
(* Instances of LastIoCache for TLC.                                        *)
EXTENDS LastIoCache, TLC

CONSTANTS r1, r2

MCReqs == {r1, r2}
MCValues == {Zero, <<"1", "2">>}
MCZeros == {Zero}
MCTransfers == {"READ", "WRITE"}
MCAllOps == {"READ", "WRITE", "FORMAT"}

Symmetry == Permutations(MCReqs)
=============================================================================

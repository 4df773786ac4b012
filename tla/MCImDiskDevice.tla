--------------------------- MODULE MCImDiskDevice ---------------------------
(* Instances of ImDiskDevice for TLC.                                       *)
EXTENDS ImDiskDevice, TLC

CONSTANTS i1, i2, h1, h2

MCIrps == {i1, i2}
MCHandles == {h1, h2}
MCOneHandle == {h1}
MCLiveKinds == {"vm", "parallel", "proxy"}
MCLiveOps == {"READ", "WRITE", "EJECT"}
MCVm == {"vm"}

Symmetry == Permutations(MCIrps) \cup Permutations(MCHandles)
=============================================================================

--------------------------- MODULE MCSampleSession ---------------------------
(* Constants of SampleSession for TLC.                                     *)
EXTENDS SampleSession, TLC

CONSTANTS f1, f2
TwoFds == {f1, f2}
FdSymmetry == Permutations(TwoFds)
============================================================================

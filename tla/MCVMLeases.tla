--------------------------- MODULE MCVMLeases ---------------------------
(* Constants of VMLeases for TLC: as few leases, calls and slots as make two *)
(* boots compete for a slot, and three calls meet on one lease.              *)
EXTENDS VMLeases

OneLease == 1 .. 1
TwoLeases == 1 .. 2
TwoCalls == 1 .. 2
ThreeCalls == 1 .. 3
OneKey == {1}
OneSlot == {0}
=============================================================================

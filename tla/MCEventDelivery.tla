-------------------------- MODULE MCEventDelivery --------------------------
(* Two events and the scanners of the two service processes.               *)
EXTENDS EventDelivery

CONSTANTS e1, e2, s1, s2

TwoEvents == {e1, e2}
TwoScanners == {s1, s2}
============================================================================

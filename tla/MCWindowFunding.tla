-------------------------- MODULE MCWindowFunding --------------------------
(* Two grants and two SKUs in buckets whose order reverses that of the SKUs *)
EXTENDS WindowFunding

TwoGrants == 1..2
TwoSkus == 1..2
TwoBuckets == <<2, 1>>
TwoSources == {"free_tier", "purchase"}

\* The windows of the largest quantity: a smaller one is priced like a lower rate,
\* and every usage below, at and above the quantity is settled.
InitLargest == Init /\ request.quantity = MaxQuantity

SpecLargest == InitLargest /\ [][Next]_vars
============================================================================

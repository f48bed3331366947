------------------------ MODULE MCMeteringProjection ------------------------
(* Two workers of one process and another user of its connection pool.      *)
EXTENDS MeteringProjection

CONSTANTS p1, p2, r1

TwoWorkers == {p1, p2}
OneRequest == {r1}
=============================================================================

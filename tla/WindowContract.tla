--------------------------- MODULE WindowContract ---------------------------
(***************************************************************************)
(* What the window API of billing-service promises about money, without    *)
(* outbox, leases, threads or failures.  A window is reserved, perhaps     *)
(* activated, and then voided or settled.  Preparing the settlement fixes  *)
(* what each source pays.  The grants pay it at most once, after that and  *)
(* never for a voided window.  The payment may come before or after the    *)
(* window is shown as settled.                                             *)
(***************************************************************************)
EXTENDS Integers

CONSTANTS
    Windows,   \* the billing windows
    Grants,    \* the credit grants
    Legs,      \* the ways to spread a bill over the funding sources
    NoLegs     \* nothing is paid

VARIABLES
    window,    \* state of each window
    legs,      \* what each source pays for each window
    paid,      \* windows the grants have paid for
    debits     \* what each grant has paid so far

cvars == <<window, legs, paid, debits>>

Init ==
    /\ window = [w \in Windows |-> "absent"]
    /\ legs = [w \in Windows |-> NoLegs]
    /\ paid = {}
    /\ debits = [g \in Grants |-> 0]

Move(w, from, to) ==
    /\ window[w] \in from
    /\ window' = [window EXCEPT ![w] = to]

Reserve(w) == Move(w, {"absent"}, "reserved") /\ UNCHANGED <<legs, paid, debits>>

Activate(w) == Move(w, {"reserved"}, "active") /\ UNCHANGED <<legs, paid, debits>>

Void(w) ==
    /\ Move(w, {"reserved", "active"}, "voided")
    /\ legs' = [legs EXCEPT ![w] = NoLegs]
    /\ UNCHANGED <<paid, debits>>

Prepare(w) ==
    /\ Move(w, {"reserved", "active"}, "settling")
    /\ \E l \in Legs : legs' = [legs EXCEPT ![w] = l]
    /\ UNCHANGED <<paid, debits>>

Pay(w) ==
    /\ window[w] \in {"settling", "settled"}
    /\ w \notin paid
    /\ paid' = paid \cup {w}
    /\ debits' = [g \in Grants |-> debits[g] + legs[w][g]]
    /\ UNCHANGED <<window, legs>>

Finish(w) == Move(w, {"settling"}, "settled") /\ UNCHANGED <<legs, paid, debits>>

Next ==
    \E w \in Windows :
        Reserve(w) \/ Activate(w) \/ Void(w) \/ Prepare(w) \/ Pay(w) \/ Finish(w)

Spec == Init /\ [][Next]_cvars
=============================================================================

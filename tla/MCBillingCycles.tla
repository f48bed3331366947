-------------------------- MODULE MCBillingCycles --------------------------
(***************************************************************************)
(* Instances of BillingCycles for TLC: a month of two steps, the windows   *)
(* of two executions, the two events of a checkout, two workers.           *)
(***************************************************************************)
EXTENDS BillingCycles

OneWindow == {"w1"}
TwoWindows == {"w1", "w2"}
TwoHandlers == {"setup_intent", "checkout"}
TwoWorkers == {"job", "scanner"}
=============================================================================

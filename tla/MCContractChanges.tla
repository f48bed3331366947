------------------------- MODULE MCContractChanges -------------------------
(* The instances of ContractChanges: the constants are numbers, given in   *)
(* the configurations.                                                     *)
EXTENDS ContractChanges
=============================================================================

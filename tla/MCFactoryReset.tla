--------------------------- MODULE MCFactoryReset ---------------------------
(* FactoryReset for TLC; its one constant is a bound and is set in the .cfg. *)
EXTENDS FactoryReset
=============================================================================

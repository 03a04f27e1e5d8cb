----------------------------- MODULE MCMigrate -----------------------------
(* Two operators, who may run `up` at the same time, and three migrations:  *)
(* the first may be run again, the name of the last cannot be recorded.     *)
EXTENDS Migrate
=============================================================================

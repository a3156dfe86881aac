----------------------------- MODULE MCFlagSync -----------------------------
(* An instance of FlagSync whose values are model values of the cfg.       *)
EXTENDS FlagSync

=============================================================================

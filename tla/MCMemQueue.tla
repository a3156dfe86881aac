----------------------------- MODULE MCMemQueue -----------------------------
(* An instance of MemQueue whose messages are model values of the cfg.     *)
EXTENDS MemQueue

=============================================================================

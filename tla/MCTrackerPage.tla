---------------------------- MODULE MCTrackerPage ----------------------------
(* An instance of TrackerPage whose values are model values of the cfg.    *)
EXTENDS TrackerPage

=============================================================================

----------------------------- MODULE MCShipments -----------------------------
(***************************************************************************)
(* Small instances of Shipments.  The replicas and the requests are model  *)
(* values the cfg files choose; this module gives the samples, the update  *)
(* bodies and the symmetry sets.                                           *)
(***************************************************************************)
EXTENDS Shipments, TLC

CONSTANTS sampleId, freeId, ground, air

MCId == {sampleId, freeId}

\* Everyone works on the same shipment: more writers fit the same bound.
MCOneId == {sampleId}

\* One sample, as BD-10041: in transit, carrier assigned.
MCSampleData ==
    <<[id |-> sampleId, carrier |-> ground,
       stages |-> <<"created", "picked_up", "in_transit">>]>>

\* What dispatch-worker sends, and an update that leaves the carrier alone.
MCUpdate ==
    {[status |-> "picked_up", carrier |-> air], [status |-> "delivered", carrier |-> None]}

MCOneUpdate == {[status |-> "picked_up", carrier |-> air]}

ActorSymmetry == Permutations(Request) \cup Permutations(Replica)

=============================================================================

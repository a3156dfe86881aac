------------------------------- MODULE MCIntake -------------------------------
(***************************************************************************)
(* A small instance of Intake.  Everyone works on one tracking number, and *)
(* it is a sample's: when a seed failed the create draws it free, and a    *)
(* later boot or a lagging read runs into what the create wrote.           *)
(***************************************************************************)
EXTENDS Intake

CONSTANTS sampleId, ground, air

MCId == {sampleId}

\* One sample, as BD-10041: in transit, carrier assigned.
MCSampleData ==
    <<[id |-> sampleId, carrier |-> ground,
       stages |-> <<"created", "picked_up", "in_transit">>]>>

\* What dispatch-worker sends.
MCUpdate == {[status |-> "picked_up", carrier |-> air]}

=============================================================================

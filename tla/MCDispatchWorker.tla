-------------------------- MODULE MCDispatchWorker --------------------------
(***************************************************************************)
(* Small instances of DispatchWorker: which shipments exist, which         *)
(* messages name them, the carriers and the symmetry sets.                 *)
(***************************************************************************)
EXTENDS DispatchWorker, TLC

CONSTANTS parcel, ghost, ground, air, m1, m2

\* Two requests for the same shipment.
SameParcel == [m \in Message |-> parcel]

\* One request for a shipment, one for an id nobody created.
ParcelAndGhost == [m \in Message |-> IF m = m1 THEN parcel ELSE ghost]

ParcelCreated == parcel :> "created"

ParcelDelivered == parcel :> "delivered"

OneNormal == <<ground>>

PodSymmetry == Permutations(Worker)

PodAndMessageSymmetry == Permutations(Worker) \cup Permutations(Message)

=============================================================================

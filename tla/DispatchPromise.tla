--------------------------- MODULE DispatchPromise ---------------------------
(***************************************************************************)
(* What dispatch promises whoever posts to it, with no queue, no worker    *)
(* and no attempt in sight: a message it took on stays owed until the      *)
(* customer was told about it, its shipment was found not to exist, or the *)
(* queue gave it up to the dead letters; and the customer is only told     *)
(* what was put on record with the shipments service before.               *)
(***************************************************************************)
CONSTANT Message   \* dispatch requests

VARIABLES
    owed,       \* messages taken on and not finished
    recorded,   \* messages whose assignment was put on record
    told,       \* messages whose assignment was announced to the customer
    unknown,    \* messages dropped because their shipment does not exist
    dead        \* messages given up to the dead letters

vars == <<owed, recorded, told, unknown, dead>>

Init ==
    /\ owed = {}
    /\ recorded = {}
    /\ told = {}
    /\ unknown = {}
    /\ dead = {}

Accept(m) ==
    /\ m \notin owed
    /\ owed' = owed \cup {m}
    /\ UNCHANGED <<recorded, told, unknown, dead>>

Record(m) ==
    /\ recorded' = recorded \cup {m}
    /\ UNCHANGED <<owed, told, unknown, dead>>

Tell(m) ==
    /\ m \in recorded
    /\ told' = told \cup {m}
    /\ UNCHANGED <<owed, recorded, unknown, dead>>

FindUnknown(m) ==
    /\ unknown' = unknown \cup {m}
    /\ UNCHANGED <<owed, recorded, told, dead>>

\* The message is finished: its work is done.
Finish(m) ==
    /\ m \in owed
    /\ m \in told \cup unknown
    /\ owed' = owed \ {m}
    /\ UNCHANGED <<recorded, told, unknown, dead>>

\* Nobody could do their work: the messages M are finished all the same.
GiveUp(M) ==
    /\ M \subseteq owed
    /\ owed' = owed \ M
    /\ dead' = dead \cup M
    /\ UNCHANGED <<recorded, told, unknown>>

Next ==
    \/ \E m \in Message : Accept(m) \/ Record(m) \/ Tell(m) \/ FindUnknown(m) \/ Finish(m)
    \/ \E M \in SUBSET Message : GiveUp(M)

Spec == Init /\ [][Next]_vars

=============================================================================

------------------------------- MODULE Intake -------------------------------
(***************************************************************************)
(* The fleet, from the customer's POST to the notification: the intake     *)
(* service (cmd/intake) in full, the shipments service and its table as in *)
(* Shipments, and dispatch-worker as what it promises (DispatchPromise,    *)
(* which DispatchWorker implements).                                       *)
(*                                                                         *)
(* Intake keeps no state of its own: a handler creates the shipment over   *)
(* one call, asks for its dispatch over another, and answers.  Either call *)
(* may take effect and fail to say so, arrive after intake gave up on it,  *)
(* or be cut short by the death of the pod that made it.                   *)
(*                                                                         *)
(* A customer's request and the create it causes bear the same name, and   *)
(* so does the dispatch message.  The other requests that the shipments    *)
(* service sees are the worker's lookups and status updates.               *)
(***************************************************************************)
EXTENDS Shipments

CONSTANT Customer   \* customers' requests, see above

Call == Request \ Customer

ASSUME CustomerAssumption == Customer \subseteq Request

\* The stages of a shipment, in the order in which it goes through them.
STAGES == <<"created", "picked_up", "in_transit", "out_for_delivery", "delivered">>

\* sampleData skips no stage: a sample has been through every one up to its own.
ASSUME SampleStagesAssumption ==
    \A i \in 1..Len(SampleData) :
        LET s == SampleData[i].stages IN
        Len(s) <= Len(STAGES) /\ \A k \in 1..Len(s) : s[k] = STAGES[k]

VARIABLES
    step,       \* where intake's handler of a customer's request stands
    reply,      \* what it answered
    logged,     \* requests with an error line in intake's log
    posted,     \* dispatch requests on their way to the worker
    taken,      \* dispatch requests the worker ever took on
    on,         \* the message that a call to the shipments service is for
    owed, recorded, told, unknown, dead   \* see DispatchPromise

intakeVars == <<step, reply, logged>>
workVars == <<owed, recorded, told, unknown, dead>>
fleetVars == <<vars, intakeVars, posted, taken, on, workVars>>

Promise == INSTANCE DispatchPromise WITH Message <- Customer

\* Only the shipments service moves.
Apart == UNCHANGED <<intakeVars, posted, taken, on, workVars>>

\* The create of i has left intake.
Sent(i) == step[i] # "idle" /\ reply[i] # "400"

-----------------------------------------------------------------------------
(* The handler of POST /shipments.                                         *)

Finish(i, r) ==
    /\ step' = [step EXCEPT ![i] = "done"]
    /\ reply' = [reply EXCEPT ![i] = r]

Log(i) == logged' = logged \cup {i}

\* The body does not decode, or validate finds a blank field.
SubmitInvalid(i) ==
    /\ step[i] = "idle"
    /\ Finish(i, "400")
    /\ UNCHANGED <<vars, logged, posted, taken, on, workVars>>

Submit(i) ==
    /\ step[i] = "idle"
    /\ step' = [step EXCEPT ![i] = "create"]
    /\ UNCHANGED <<vars, reply, logged, posted, taken, on, workVars>>

\* The create reaches a replica, be it after intake has stopped waiting.
CreateArrives(i, r) ==
    /\ Sent(i)
    /\ ReceiveCreate(i, r)
    /\ Apart

\* On to the dispatch of the shipment created.
PostDispatch(i) ==
    /\ step' = [step EXCEPT ![i] = "dispatch"]
    /\ posted' = posted \cup {i}
    /\ UNCHANGED <<vars, reply, logged, taken, on, workVars>>

\* Mutant: CreateShipment takes whatever was answered for the shipment.
CreateUnchecked(i) ==
    /\ step[i] = "create"
    /\ code[i] # "none"
    /\ PostDispatch(i)

CreateOk(i) ==
    /\ step[i] = "create"
    /\ code[i] = "201"
    /\ PostDispatch(i)

\* CreateShipment returned an error.
CreateError(i) ==
    /\ step[i] = "create"
    /\ Finish(i, "502")
    /\ Log(i)
    /\ UNCHANGED <<vars, posted, taken, on, workVars>>

\* The service answered with an error, broke off, or cannot be reached.
NoShipment(i) ==
    \/ code[i] \in {"502", "gone"}
    \/ pc[i] = "idle" /\ \A r \in Replica : pc[r] # "serving"

\* POST /dispatch at the worker: taken on, or not.
TakeDispatch(i) ==
    /\ i \in posted
    /\ posted' = posted \ {i}
    /\ taken' = taken \cup {i}
    /\ Promise!Accept(i)
    /\ UNCHANGED <<vars, intakeVars, on>>

DeclineDispatch(i) ==
    /\ i \in posted
    /\ posted' = posted \ {i}
    /\ UNCHANGED <<vars, intakeVars, taken, on, workVars>>

\* Mutant: dispatch does not look at the status of the answer.
DispatchUnchecked(i) ==
    /\ step[i] = "dispatch"
    /\ i \notin posted
    /\ Finish(i, "201")
    /\ UNCHANGED <<vars, logged, posted, taken, on, workVars>>

DispatchOk(i) ==
    /\ step[i] = "dispatch"
    /\ i \in taken
    /\ Finish(i, "201")
    /\ UNCHANGED <<vars, logged, posted, taken, on, workVars>>

\* dispatch returned an error, though the worker may have taken it on: it is
\* logged, and the customer is told of the shipment all the same.
DispatchError(i) ==
    /\ step[i] = "dispatch"
    /\ Finish(i, "201")
    /\ Log(i)
    /\ UNCHANGED <<vars, posted, taken, on, workVars>>

\* The pod dies, or its drain outlives ten seconds, in the middle of i.
Lose(i) ==
    /\ step[i] \in {"create", "dispatch"}
    /\ Finish(i, "gone")
    /\ UNCHANGED <<vars, logged, posted, taken, on, workVars>>

IntakeStep(i) ==
    \/ CreateOk(i) \/ DispatchOk(i)
    \/ NoShipment(i) /\ CreateError(i)
    \/ i \notin posted \cup taken /\ DispatchError(i)

-----------------------------------------------------------------------------
(* The worker's side of a message, attempt by attempt.                     *)

\* What process asks for: picked up, by the carrier assigned.
Assignments == {u \in Update : u.status = "picked_up" /\ u.carrier # None}

\* An attempt at message i asks the shipments service for its shipment, or
\* to put the assignment on record.  Attempts overlap and outlive the message.
Attempt(c, i, r) ==
    /\ i \in taken
    /\ on' = [on EXCEPT ![c] = i]
    /\ \/ ReceiveGet(c, r, at[i])
       \/ \E u \in Assignments : ReceiveUpdate(c, r, at[i], u)
    /\ UNCHANGED <<intakeVars, posted, taken, workVars>>

\* A call of the worker takes its course: the assignment gets on record, or
\* the shipment is found not to exist.
CallStep(c) ==
    /\ HandlerStep(c)
    /\ \/ code'[c] = "200" /\ upd[c] # None /\ Promise!Record(on[c])
       \/ code'[c] = "404" /\ Promise!FindUnknown(on[c])
       \/ ~(code'[c] = "200" /\ upd[c] # None) /\ code'[c] # "404" /\ UNCHANGED workVars
    /\ UNCHANGED <<intakeVars, posted, taken, on>>

WorkStep(i) ==
    /\ Promise!Tell(i) \/ Promise!Finish(i) \/ Promise!GiveUp({i})
    /\ UNCHANGED <<vars, intakeVars, posted, taken, on>>

-----------------------------------------------------------------------------
FleetInit ==
    /\ Init
    /\ step = [i \in Customer |-> "idle"]
    /\ reply = [i \in Customer |-> "none"]
    /\ logged = {}
    /\ posted = {}
    /\ taken = {}
    /\ on = [c \in Call |-> None]
    /\ Promise!Init

CreateStep(i) ==
    /\ HandlerStep(i)
    /\ Apart

TableStep ==
    /\ \/ \E r \in Replica : Start(r) \/ BootStep(r) \/ Terminate(r) \/ Exit(r) \/ Crash(r)
       \/ \E id \in Id : Replicate(id)
    /\ Apart

FleetNext ==
    \/ \E i \in Customer :
          \/ SubmitInvalid(i) \/ Submit(i)
          \/ \E r \in Replica : CreateArrives(i, r)
          \/ CreateStep(i) \/ CreateOk(i) \/ CreateError(i)
          \/ TakeDispatch(i) \/ DeclineDispatch(i) \/ DispatchOk(i) \/ DispatchError(i)
          \/ Lose(i) \/ WorkStep(i)
    \/ \E c \in Call : CallStep(c) \/ \E i \in Customer, r \in Replica : Attempt(c, i, r)
    \/ TableStep

FleetSpec == FleetInit /\ [][FleetNext]_fleetVars

\* Whatever waits for an answer of the other services is answered.
Progress(i) ==
    \/ IntakeStep(i)
    \/ \E r \in Replica : CreateArrives(i, r)
    \/ CreateStep(i)
    \/ TakeDispatch(i) \/ DeclineDispatch(i)

\* A call that was sent arrives or, while nobody is there to take it, is
\* refused; what arrived is answered; the worker's calls, and the boots and
\* drains of the shipments service, end.  Customers need not submit, pods need
\* not die, the worker need not work.
FleetFairness ==
    /\ \A i \in Customer : WF_fleetVars(Progress(i))
    /\ \A c \in Call : WF_fleetVars(CallStep(c))
    /\ \A r \in Replica : WF_fleetVars((BootStep(r) \/ Exit(r)) /\ Apart)

FairFleetSpec == FleetSpec /\ FleetFairness

-----------------------------------------------------------------------------
(* What the fleet promises.                                                *)

FleetTypeOK ==
    /\ TypeOK
    /\ step \in [Customer -> {"idle", "create", "dispatch", "done"}]
    /\ reply \in [Customer -> {"none", "201", "400", "502", "gone"}]
    /\ logged \subseteq Customer
    /\ posted \subseteq Customer
    /\ taken \subseteq Customer
    /\ on \in [Call -> Customer \cup {None}]
    /\ owed \subseteq Customer
    /\ recorded \subseteq Customer
    /\ told \subseteq Customer
    /\ unknown \subseteq Customer
    /\ dead \subseteq Customer

(* A customer who was answered 201 has a shipment: the table shows it, or  *)
(* what a writer that could not see it made of it, whatever has crashed or *)
(* failed since (intake's handler over CreateShipment over Create).        *)
CreatedIsThere ==
    \A i \in Customer :
        reply[i] = "201" => Acked(i) /\ Shows(kv[at[i]], Excused(i))

(* "a lost dispatch just means the shipment sits at Created": no shipment  *)
(* that intake caused, acknowledged or not, sits in the table unless its   *)
(* dispatch was taken on or is on its way, intake's log tells of it, its   *)
(* handler is still running, or the pod died under it.                     *)
NobodyForgotten ==
    \A id \in Id : kv[id] # None /\ kv[id].parcel \in Customer =>
        LET i == kv[id].parcel IN
        i \in posted \cup taken \cup logged \/ reply[i] \in {"none", "gone"}

(* What the customer was told of is in the shipment's timeline, or was     *)
(* lost to a writer that could not see it: the create, the assignment and  *)
(* the notification are about one shipment (intake, process, UpdateStatus).*)
ToldIsOnRecord ==
    \A i \in told : \E c \in Call :
        on[c] = i /\ Acked(c) /\ Shows(kv[at[i]], Excused(c))

(* The worker finds a dispatched shipment unknown, and drops its message,  *)
(* only while reads of the new document still lag: intake dispatches       *)
(* nothing that was not written first.                                     *)
UnknownOnlyWhileSettling ==
    [][\A c \in Call : code[c] = "none" /\ code'[c] = "404" => on[c] \in settling]_fleetVars

\* What the tracker's page makes of a document (ShipmentTimeline.tsx): the
\* stages up to the current one are done; a stage is dated by its event.
CurrentIndex(sh) == CHOOSE i \in 1..Len(STAGES) : STAGES[i] = sh.status

DoneStages(sh) == {STAGES[i] : i \in 1..CurrentIndex(sh)}

DatedStages(sh) == {sh.timeline[k].status : k \in 1..Len(sh.timeline)}

Dated(sh) == DoneStages(sh) \subseteq DatedStages(sh)

(* "a stage with no matching timeline entry is simply upcoming": whatever  *)
(* updates were lost or repeated, no document that the fleet writes, nor a *)
(* lagging copy, shows a stage as done that has no event.                  *)
DoneStagesAreDated == \A id \in Id : \A sh \in {kv[id], lag[id]} \ {None} : Dated(sh)

(* Every POST to intake is answered or dies with its pod: no handler waits *)
(* for ever for the shipments service or for the worker.                   *)
IntakeEnds == \A i \in Customer : step[i] # "idle" ~> step[i] = "done"

-----------------------------------------------------------------------------
(* The inductive invariant behind the safety properties.                   *)

\* Intake's handlers and the creates that they caused.
HandlersFollow ==
    /\ \A i \in Customer :
          /\ ~Sent(i) => pc[i] = "idle"
          /\ upd[i] = None
          /\ step[i] = "done" <=> reply[i] # "none"
          /\ step[i] = "dispatch" \/ reply[i] = "201" => code[i] = "201"
          /\ reply[i] = "201" => i \in taken \cup logged
          /\ reply[i] = "502" => i \in logged
    /\ \A i \in posted \cup taken : code[i] = "201"

\* The worker's calls and the messages they are for.
CallsFollow ==
    \A c \in Call :
        /\ pc[c] # "newid"
        /\ pc[c] # "idle" => on[c] # None
        /\ on[c] # None => on[c] \in taken /\ at[c] = at[on[c]]
        /\ upd[c] # None => upd[c] \in Assignments

RecordsFollow ==
    /\ told \subseteq recorded
    /\ \A i \in recorded : \E c \in Call : on[c] = i /\ code[c] = "200" /\ upd[c] # None

\* What is about to be written.
PendingDated == \A a \in Actor : pc[a] = "save" => Dated(doc[a])

FleetInv ==
    /\ IInv /\ FleetTypeOK
    /\ HandlersFollow /\ CallsFollow /\ RecordsFollow
    /\ DoneStagesAreDated /\ PendingDated

=============================================================================

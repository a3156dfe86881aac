--------------------------- MODULE DispatchWorker ---------------------------
(***************************************************************************)
(* The dispatch worker (cmd/dispatch-worker): POST /dispatch puts a        *)
(* message on an SQS queue (internal/awsqueue), and every replica runs one *)
(* loop that receives a batch and takes each message through lookup,       *)
(* status update, SNS event and notification before it deletes it.         *)
(*                                                                         *)
(* The queue, the shipments service, SNS and the notify service are on the *)
(* other side of the network: a call may fail without effect, or take      *)
(* effect and fail to say so.  The queue delivers at least once: a message *)
(* not deleted in time is delivered again, to any replica, while its       *)
(* earlier delivery may still be worked on.                                *)
(***************************************************************************)
EXTENDS Integers, Sequences, FiniteSets

CONSTANTS
    Worker,        \* pods of the worker
    Message,       \* dispatch requests; each is posted at most once
    Shipment,      \* tracking numbers the messages name
    ShipmentOf,    \* message -> its shipmentId
    Unroutable,    \* messages whose shipmentId makes no URL: every lookup fails
    Exists,        \* shipment -> its first status, for the shipments that exist
    Lagging,       \* shipments just created, which a read may not see yet
    Normal,        \* the carriers of normal routing, a sequence
    Priority,      \* the carrier of priority routing
    BatchSize,     \* messages a Receive may return (10 in the code)
    MaxReceive,    \* deliveries before the queue's redrive policy gives up
    MaxStops,      \* bound on crashes and terminations of pods
    None

Stage == <<"created", "picked_up", "in_transit", "out_for_delivery", "delivered">>

Status == {Stage[k] : k \in 1..Len(Stage)}

Carrier == {Normal[k] : k \in 1..Len(Normal)} \cup {Priority}

\* A delivery of a message: its receipt handle.
Delivery == [msg : Message, try : 1..MaxReceive]

\* What an attempt puts on record and announces.
Assignment == [msg : Message, try : 1..MaxReceive, carrier : Carrier]

ASSUME ShipmentOfAssumption == ShipmentOf \in [Message -> Shipment]
ASSUME UnroutableAssumption == Unroutable \subseteq Message
ASSUME ExistsAssumption ==
    /\ DOMAIN Exists \subseteq Shipment
    /\ Exists \in [DOMAIN Exists -> Status]
ASSUME LaggingAssumption == Lagging \subseteq DOMAIN Exists
ASSUME CarrierAssumption == Normal \in Seq(Carrier) /\ Normal # <<>> /\ None \notin Carrier
ASSUME BoundAssumption ==
    /\ BatchSize \in Nat \ {0}
    /\ MaxReceive \in Nat \ {0}
    /\ MaxStops \in Nat

VARIABLES
    queue,      \* where each message is
    receives,   \* how often the queue has delivered it
    answer,     \* the response to its POST /dispatch
    pc,         \* where each worker's loop stands
    batch,      \* the deliveries a worker still has to take on
    choice,     \* the carrier a worker has assigned in this attempt
    cancelled,  \* the workers whose context is cancelled
    status,     \* the shipments service: current status ...
    puts,       \* ... and the assignments put on record, in the order of the Puts
    lagging,    \* shipments a lookup may still miss
    told,       \* announcements notify has accepted, in order
    dropped,    \* messages dropped for an unknown shipment
    crossed,    \* history: shipments with a write that crossed another attempt
    stops       \* pods stopped so far

queueVars == <<queue, receives, answer>>
workerVars == <<pc, batch, choice, cancelled>>
shipmentVars == <<status, puts, lagging, crossed>>
outVars == <<told, dropped>>
vars == <<queueVars, workerVars, shipmentVars, outVars, stops>>

InQueue(m) == queue[m] \in {"visible", "inflight"}

\* The delivery a worker is working on, and its shipment.
Current(w) == Head(batch[w])
Id(w) == ShipmentOf[Current(w).msg]

AtWork(w) == pc[w] \in {"lookup", "update", "publish", "notify", "delete"}

Chosen(w) ==
    [msg |-> Current(w).msg, try |-> Current(w).try, carrier |-> choice[w]]

Running(w) == w \notin cancelled

-----------------------------------------------------------------------------
(* POST /dispatch.                                                         *)

Respond(m, code) == answer' = [answer EXCEPT ![m] = code]

Enqueue(m) == queue' = [queue EXCEPT ![m] = "visible"]

\* The server half of any pod that is up; one that shuts down takes no request
\* but waits for the handlers it has.
Serving == \E w \in Worker : pc[w] # "down"

Dispatch(m) ==
    /\ answer[m] = "none"
    /\ Serving
    /\ Enqueue(m)
    /\ Respond(m, "202")
    /\ UNCHANGED <<receives, workerVars, shipmentVars, outVars, stops>>

\* Mutant: the error of Send is only logged.
AcceptsUnsent(m) ==
    /\ answer[m] = "none"
    /\ Serving
    /\ Enqueue(m) \/ UNCHANGED queue
    /\ Respond(m, "202")
    /\ UNCHANGED <<receives, workerVars, shipmentVars, outVars, stops>>

\* Send failed, or enqueued the message and failed to say so.
DispatchFails(m) ==
    /\ answer[m] = "none"
    /\ Serving
    /\ Enqueue(m) \/ UNCHANGED queue
    /\ Respond(m, "502")
    /\ UNCHANGED <<receives, workerVars, shipmentVars, outVars, stops>>

\* A body that does not decode, or names no shipment.
DispatchMalformed(m) ==
    /\ answer[m] = "none"
    /\ Serving
    /\ Respond(m, "400")
    /\ UNCHANGED <<queue, receives, workerVars, shipmentVars, outVars, stops>>

-----------------------------------------------------------------------------
(* The queue.                                                              *)

\* A delivery was not deleted in time: the message is delivered again, or
\* the redrive policy moves it to the dead letters.
VisibilityTimeout(m) ==
    /\ queue[m] = "inflight"
    /\ queue' = [queue EXCEPT ![m] = IF receives[m] < MaxReceive THEN "visible" ELSE "dlq"]
    /\ UNCHANGED <<receives, answer, workerVars, shipmentVars, outVars, stops>>

\* Sequences of distinct visible messages, in any order, of at most BatchSize.
Receivable ==
    LET visible == {m \in Message : queue[m] = "visible"} IN
    {s \in UNION {[1..n -> visible] : n \in 1..BatchSize} :
        \A i, j \in DOMAIN s : i # j => s[i] # s[j]}

-----------------------------------------------------------------------------
(* The loop: worker.run.                                                   *)

\* The queue hands out the messages of s.
HandOut(s) ==
    LET got == {s[i] : i \in DOMAIN s} IN
    /\ queue' = [m \in Message |-> IF m \in got THEN "inflight" ELSE queue[m]]
    /\ receives' = [m \in Message |-> IF m \in got THEN receives[m] + 1 ELSE receives[m]]

Receive(w, s) ==
    /\ pc[w] = "receive"
    /\ Running(w)
    /\ HandOut(s)
    /\ batch' = [batch EXCEPT ![w] =
                   [i \in DOMAIN s |-> [msg |-> s[i], try |-> receives[s[i]] + 1]]]
    /\ pc' = [pc EXCEPT ![w] = "lookup"]
    /\ UNCHANGED <<answer, choice, cancelled, shipmentVars, outVars, stops>>

\* Mutant: the loop ends at the first error of Receive.
ReceiveEndsLoop(w) ==
    /\ pc[w] = "receive"
    /\ pc' = [pc EXCEPT ![w] = "stopped"]
    /\ UNCHANGED <<queueVars, batch, choice, cancelled, shipmentVars, outVars, stops>>

\* Receive returned an error, and the queue may have handed out messages that
\* nobody got: back off, or end when the context is cancelled.
ReceiveFails(w) ==
    /\ pc[w] = "receive"
    /\ (\E s \in Receivable : HandOut(s)) \/ UNCHANGED <<queue, receives>>
    /\ pc' = [pc EXCEPT ![w] = IF Running(w) THEN "backoff" ELSE "stopped"]
    /\ UNCHANGED <<answer, batch, choice, cancelled, shipmentVars, outVars, stops>>

BackedOff(w) ==
    /\ pc[w] = "backoff"
    /\ pc' = [pc EXCEPT ![w] = IF Running(w) THEN "receive" ELSE "stopped"]
    /\ UNCHANGED <<queueVars, batch, choice, cancelled, shipmentVars, outVars, stops>>

\* Mutant: the loop over the batch runs one message too far.
NextMessageTooFar(w) ==
    /\ batch' = [batch EXCEPT ![w] = Tail(@)]
    /\ pc' = [pc EXCEPT ![w] = IF Len(batch[w]) >= 1 THEN "lookup" ELSE "receive"]
    /\ choice' = [choice EXCEPT ![w] = None]
    /\ UNCHANGED cancelled

\* On to the next message of the batch, or to the next Receive.
NextMessage(w) ==
    /\ batch' = [batch EXCEPT ![w] = Tail(@)]
    /\ pc' = [pc EXCEPT ![w] = IF Len(batch[w]) > 1 THEN "lookup" ELSE "receive"]
    /\ choice' = [choice EXCEPT ![w] = None]
    /\ UNCHANGED cancelled

\* On to the next call of process.
GoTo(w, step) ==
    /\ pc' = [pc EXCEPT ![w] = step]
    /\ UNCHANGED <<batch, cancelled>>

\* process returned an error: the message is left for redelivery.
Leave(w) == NextMessage(w) /\ UNCHANGED queueVars

\* The ack.  Its error is only logged, and a receipt that is not the current
\* one need not remove the message, so the message may stay.
Delete(w) ==
    /\ pc[w] = "delete"
    /\ LET m == Current(w).msg IN
         \/ queue' = [queue EXCEPT ![m] = IF InQueue(m) THEN "deleted" ELSE @]
         \/ UNCHANGED queue
    /\ NextMessage(w)
    /\ UNCHANGED <<receives, answer, shipmentVars, outVars, stops>>

-----------------------------------------------------------------------------
(* One message: worker.process.  A call made with a cancelled context      *)
(* fails; one that was under way may have taken effect.                    *)

Assign(usePriority, n) == IF usePriority THEN Priority ELSE Normal[n]

\* The shipment is there; the flag (or its default) and pick choose a carrier.
LookupFound(w) ==
    /\ pc[w] = "lookup"
    /\ Running(w)
    /\ Id(w) \in DOMAIN Exists
    /\ Current(w).msg \notin Unroutable
    /\ \E usePriority \in BOOLEAN, n \in 1..Len(Normal) :
          choice' = [choice EXCEPT ![w] = Assign(usePriority, n)]
    /\ GoTo(w, "update")
    /\ UNCHANGED <<queueVars, shipmentVars, outVars, stops>>

\* process drops the message: it returns nil, and run acks it.
Drop(w) ==
    /\ dropped' = dropped \cup {Current(w).msg}
    /\ GoTo(w, "delete")
    /\ UNCHANGED <<queueVars, choice, shipmentVars, told, stops>>

\* A 404: no such shipment, or a read that does not see it yet.
LookupUnknown(w) ==
    /\ pc[w] = "lookup"
    /\ Running(w)
    /\ Id(w) \notin DOMAIN Exists \/ Id(w) \in lagging
    /\ Current(w).msg \notin Unroutable
    /\ Drop(w)

\* Mutant: a failed lookup is taken for an unknown shipment and acked.
LookupFailsAcked(w) ==
    /\ pc[w] = "lookup"
    /\ GoTo(w, "delete")
    /\ UNCHANGED <<queueVars, choice, shipmentVars, outVars, stops>>

LookupFails(w) ==
    /\ pc[w] = "lookup"
    /\ Leave(w)
    /\ UNCHANGED <<shipmentVars, outVars, stops>>

\* Another attempt has yet to announce its own write to the shipment, or another
\* delivery of the message was worked off, and is acked or about to be.
Crossing(w) ==
    \/ \E v \in Worker \ {w} :
          \/ pc[v] \in {"publish", "notify"} /\ Id(v) = Id(w)
          \/ pc[v] = "delete" /\ Current(v).msg = Current(w).msg
    \/ queue[Current(w).msg] = "deleted"

\* The Put of POST /shipments/{id}/status, which decides the status and the last
\* event of the document.  UpdateStatus reads before it puts, so what the Put
\* keeps of earlier events depends on who else is at it: puts is the log of what
\* was put, and Shipments has the read, the Put and the document.
PutStatus(w) ==
    /\ status' = [status EXCEPT ![Id(w)] = "picked_up"]
    /\ puts' = [puts EXCEPT ![Id(w)] = Append(@, Chosen(w))]
    /\ crossed' = IF Crossing(w) THEN crossed \cup {Id(w)} ELSE crossed
    /\ UNCHANGED lagging

UpdateOk(w) ==
    /\ pc[w] = "update"
    /\ Running(w)
    /\ PutStatus(w)
    /\ GoTo(w, "publish")
    /\ UNCHANGED <<queueVars, choice, outVars, stops>>

UpdateUnknown(w) ==
    /\ pc[w] = "update"
    /\ Running(w)
    /\ Id(w) \in lagging
    /\ Drop(w)

\* Mutant: a failed update is retried on the spot.
UpdateRetried(w) ==
    /\ pc[w] = "update"
    /\ PutStatus(w) \/ UNCHANGED shipmentVars
    /\ GoTo(w, "update")
    /\ UNCHANGED <<queueVars, choice, outVars, stops>>

\* Mutant: a failed update is only logged.
UpdateIgnored(w) ==
    /\ pc[w] = "update"
    /\ PutStatus(w) \/ UNCHANGED shipmentVars
    /\ GoTo(w, "publish")
    /\ UNCHANGED <<queueVars, choice, outVars, stops>>

UpdateFails(w) ==
    /\ pc[w] = "update"
    /\ PutStatus(w) \/ UNCHANGED shipmentVars
    /\ Leave(w)
    /\ UNCHANGED <<outVars, stops>>

\* The SNS event: nobody subscribes to the topic, and published or not, the
\* attempt goes on.
Publish(w) ==
    /\ pc[w] = "publish"
    /\ GoTo(w, "notify")
    /\ UNCHANGED <<queueVars, choice, shipmentVars, outVars, stops>>

Tell(w) == told' = [told EXCEPT ![Id(w)] = Append(@, Chosen(w))]

NotifyOk(w) ==
    /\ pc[w] = "notify"
    /\ Running(w)
    /\ Tell(w)
    /\ GoTo(w, "delete")
    /\ UNCHANGED <<queueVars, choice, shipmentVars, dropped, stops>>

\* Mutant: a failed notification is only logged.
NotifyIgnored(w) ==
    /\ pc[w] = "notify"
    /\ Tell(w) \/ UNCHANGED told
    /\ GoTo(w, "delete")
    /\ UNCHANGED <<queueVars, choice, shipmentVars, dropped, stops>>

NotifyFails(w) ==
    /\ pc[w] = "notify"
    /\ Tell(w) \/ UNCHANGED told
    /\ Leave(w)
    /\ UNCHANGED <<shipmentVars, dropped, stops>>

WorkStep(w) ==
    \/ LookupFound(w) \/ LookupUnknown(w) \/ LookupFails(w)
    \/ UpdateOk(w) \/ UpdateUnknown(w) \/ UpdateFails(w)
    \/ Publish(w)
    \/ NotifyOk(w) \/ NotifyFails(w)
    \/ Delete(w)

-----------------------------------------------------------------------------
(* Pods, and the reads of the shipments service that catch up.             *)

Start(w) ==
    /\ pc[w] = "down"
    /\ pc' = [pc EXCEPT ![w] = "receive"]
    /\ UNCHANGED <<queueVars, batch, choice, cancelled, shipmentVars, outVars, stops>>

\* SIGTERM: cancelWorker, then Shutdown of the server.
Terminate(w) ==
    /\ pc[w] # "down"
    /\ Running(w)
    /\ stops < MaxStops
    /\ stops' = stops + 1
    /\ cancelled' = cancelled \cup {w}
    /\ UNCHANGED <<queueVars, pc, batch, choice, shipmentVars, outVars>>

Gone(w) ==
    /\ pc' = [pc EXCEPT ![w] = "down"]
    /\ batch' = [batch EXCEPT ![w] = <<>>]
    /\ choice' = [choice EXCEPT ![w] = None]
    /\ cancelled' = cancelled \ {w}
    /\ UNCHANGED <<queueVars, shipmentVars, outVars>>

\* main returns after Shutdown; nothing waits for the loop.
Exit(w) ==
    /\ w \in cancelled
    /\ Gone(w)
    /\ UNCHANGED stops

Crash(w) ==
    /\ pc[w] # "down"
    /\ stops < MaxStops
    /\ stops' = stops + 1
    /\ Gone(w)

CatchUp(s) ==
    /\ s \in lagging
    /\ lagging' = lagging \ {s}
    /\ UNCHANGED <<queueVars, workerVars, status, puts, crossed, outVars, stops>>

-----------------------------------------------------------------------------
Init ==
    /\ queue = [m \in Message |-> "unsent"]
    /\ receives = [m \in Message |-> 0]
    /\ answer = [m \in Message |-> "none"]
    /\ pc = [w \in Worker |-> "down"]
    /\ batch = [w \in Worker |-> <<>>]
    /\ choice = [w \in Worker |-> None]
    /\ cancelled = {}
    /\ status = [s \in Shipment |-> IF s \in DOMAIN Exists THEN Exists[s] ELSE None]
    /\ puts = [s \in Shipment |-> <<>>]
    /\ lagging = Lagging
    /\ crossed = {}
    /\ told = [s \in Shipment |-> <<>>]
    /\ dropped = {}
    /\ stops = 0

LoopStep(w) == ReceiveFails(w) \/ BackedOff(w) \/ WorkStep(w)

Next ==
    \/ \E m \in Message : \/ Dispatch(m) \/ DispatchFails(m) \/ DispatchMalformed(m)
                        \/ VisibilityTimeout(m)
    \/ \E w \in Worker :
          \/ \E s \in Receivable : Receive(w, s)
          \/ LoopStep(w) \/ Start(w) \/ Terminate(w) \/ Exit(w) \/ Crash(w)
    \/ \E s \in Shipment : CatchUp(s)

Spec == Init /\ [][Next]_vars

\* Loops run and their calls return, pods are started again and main returns
\* once it is told to; the queue redelivers and, however often a Receive
\* fails, does not fail a waiting worker for ever.
Fairness ==
    /\ \A w \in Worker : /\ WF_vars(BackedOff(w) \/ WorkStep(w))
                         /\ WF_vars(Start(w)) /\ WF_vars(Exit(w))
                         /\ SF_vars(\E s \in Receivable : Receive(w, s))
    /\ \A m \in Message : WF_vars(VisibilityTimeout(m))

FairSpec == Spec /\ Fairness

-----------------------------------------------------------------------------
(* What the worker promises.                                               *)

TypeOK ==
    /\ queue \in [Message -> {"unsent", "visible", "inflight", "deleted", "dlq"}]
    /\ receives \in [Message -> 0..MaxReceive]
    /\ answer \in [Message -> {"none", "202", "400", "502"}]
    /\ pc \in [Worker -> {"down", "receive", "backoff", "stopped",
                          "lookup", "update", "publish", "notify", "delete"}]
    /\ batch \in [Worker -> Seq(Delivery)]
    /\ \A w \in Worker : AtWork(w) <=> batch[w] # <<>>
    /\ \A w \in Worker : Len(batch[w]) <= BatchSize
    /\ choice \in [Worker -> Carrier \cup {None}]
    /\ cancelled \subseteq {w \in Worker : pc[w] # "down"}
    /\ status \in [Shipment -> Status \cup {None}]
    /\ puts \in [Shipment -> Seq(Assignment)]
    /\ lagging \subseteq Lagging
    /\ crossed \subseteq Shipment
    /\ told \in [Shipment -> Seq(Assignment)]
    /\ dropped \subseteq Message
    /\ stops \in 0..MaxStops

Elements(s) == {s[k] : k \in 1..Len(s)}

Recorded == UNION {Elements(puts[s]) : s \in Shipment}

Announced == UNION {Elements(told[s]) : s \in Shipment}

\* The assignment a was made in the delivery d.
MadeIn(a, d) == a.msg = d.msg /\ a.try = d.try

ToldAbout(m) == \E a \in Announced : a.msg = m

(* A message answered 202 is in the queue or with the dead letters until   *)
(* the customer was told or the shipment was found unknown: a failing      *)
(* call, a crash, a shutdown or a late ack never loses it (run, process).  *)
AcceptedNotLost ==
    \A m \in Message : answer[m] = "202" =>
        InQueue(m) \/ queue[m] = "dlq" \/ ToldAbout(m) \/ m \in dropped

(* The customer only ever hears of an assignment that was put on record    *)
(* before, whichever calls failed halfway (process updates the shipment    *)
(* before it notifies).  What becomes of it in the shipment's document is  *)
(* ToldIsOnRecord of Intake.                                               *)
AnnouncedWerePut == Announced \subseteq Recorded

(* However often calls fail and messages come back, one delivery makes at  *)
(* most one Put of an event and tells the customer at most once.           *)
OncePerDelivery ==
    \A s \in Shipment : \A log \in {puts[s], told[s]} :
        \A i, j \in 1..Len(log) : MadeIn(log[i], log[j]) => i = j

\* The last assignment put on record for s, the last event of its document, and
\* whether the customer of s heard it last.
Latest(s) == puts[s][Len(puts[s])]

Agreed(s) ==
    /\ puts[s] # <<>> /\ told[s] # <<>>
    /\ told[s][Len(told[s])] = Latest(s)

(* Once the message that the last assignment on record was made for is     *)
(* acked, and not as unknown, that assignment is the last thing the        *)
(* customer was told: the retries repair every notification that failed    *)
(* after its update (process, run).  Only a write that crossed another     *)
(* attempt, see Crossing, may break this; lookups and updates that overlap *)
(* and redeliveries of a message still at work do not.                     *)
AckedAgreement ==
    \A s \in Shipment \ crossed :
        puts[s] # <<>> /\ queue[Latest(s).msg] = "deleted" /\ Latest(s).msg \notin dropped
            => Agreed(s)

(* The loop, the queue and the redeliveries together keep the promise of   *)
(* DispatchPromise.                                                        *)
Promise == INSTANCE DispatchPromise WITH
    owed <- {m \in Message : InQueue(m)},
    recorded <- {a.msg : a \in Recorded},
    told <- {a.msg : a \in Announced},
    unknown <- dropped,
    dead <- {m \in Message : queue[m] = "dlq"}

KeepsPromise == Promise!Spec

(* An accepted message is finished or dead-lettered in the end, even when  *)
(* pods stop, receives fail and a poison message keeps coming back.        *)
AcceptedSettles ==
    \A m \in Message : answer[m] = "202" ~> queue[m] \in {"deleted", "dlq"}

-----------------------------------------------------------------------------
(* The inductive invariant behind the safety properties.                   *)

\* The work of m was done, or found to be impossible.
Settled(m) == ToldAbout(m) \/ m \in dropped

QueueOK ==
    \A m \in Message :
        /\ answer[m] = "none" => queue[m] = "unsent"
        /\ queue[m] = "unsent" => receives[m] = 0 /\ answer[m] # "202"
        /\ queue[m] = "visible" => receives[m] < MaxReceive
        /\ queue[m] = "deleted" => Settled(m)

\* What an attempt has done by the time it stands where it stands.
AttemptsOK ==
    \A w \in Worker :
        /\ pc[w] \in {"update", "publish", "notify"} => choice[w] # None
        /\ pc[w] \in {"publish", "notify"} => Chosen(w) \in Recorded
        /\ pc[w] = "delete" => Settled(Current(w).msg)

\* Every delivery in hand or on record was handed out, is in one hand only,
\* and is on record only once its attempt has got that far.
DeliveriesOK ==
    /\ \A w \in Worker : \A i \in 1..Len(batch[w]) :
          /\ batch[w][i].try <= receives[batch[w][i].msg]
          /\ \A v \in Worker : \A j \in 1..Len(batch[v]) :
                batch[w][i] = batch[v][j] => w = v /\ i = j
          /\ \A a \in Recorded :
                MadeIn(a, batch[w][i]) => i = 1 /\ pc[w] \in {"publish", "notify", "delete"}
          /\ \A a \in Announced :
                MadeIn(a, batch[w][i]) => i = 1 /\ pc[w] = "delete"
    /\ \A a \in Recorded \cup Announced : a.try <= receives[a.msg]

\* While no write to a shipment crossed an attempt, an attempt that has yet to
\* announce its write has made the last one, and one that is about to ack the
\* message of the last one has told the customer of it.
WritesFollow ==
    /\ \A s \in Shipment : \A k \in 1..Len(puts[s]) : ShipmentOf[puts[s][k].msg] = s
    /\ \A w \in Worker : AtWork(w) /\ Id(w) \notin crossed =>
          /\ pc[w] \in {"publish", "notify"} =>
                puts[Id(w)] # <<>> /\ Latest(Id(w)) = Chosen(w)
          /\ pc[w] = "delete" /\ puts[Id(w)] # <<>> /\ Latest(Id(w)).msg = Current(w).msg =>
                Current(w).msg \in dropped \/ Agreed(Id(w))

(* What holds in every reachable state and is kept by every step: process  *)
(* has written what it announces, acks only what it settled, and no two    *)
(* loops hold the same delivery.                                           *)
IInv == /\ TypeOK
        /\ QueueOK
        /\ AttemptsOK
        /\ AnnouncedWerePut
        /\ DeliveriesOK
        /\ OncePerDelivery
        /\ WritesFollow
        /\ AckedAgreement

-----------------------------------------------------------------------------
(* What comments of the code claim, and the code does not keep.            *)

(* "an unknown shipment id is logged and dropped (redelivery can't fix a   *)
(* shipment that will never exist)": what is dropped does not exist.       *)
DropsOnlyUnknown ==
    \A m \in dropped : ShipmentOf[m] \notin DOMAIN Exists

Rank(st) == CHOOSE k \in 1..Len(Stage) : Stage[k] = st

(* "(c) advance the shipment's status": a step never moves it backwards.   *)
StatusAdvances ==
    [][\A s \in DOMAIN Exists : Rank(status'[s]) >= Rank(status[s])]_vars

=============================================================================

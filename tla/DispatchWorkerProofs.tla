------------------------ MODULE DispatchWorkerProofs ------------------------
(***************************************************************************)
(* Proofs about DispatchWorker, for any set of pods, messages, shipments   *)
(* and carriers, and any bounds on batches, deliveries and stops.          *)
(***************************************************************************)
EXTENDS DispatchWorker, FiniteSetTheorems, TLAPS

-----------------------------------------------------------------------------
(* Lemmas about the parts that steps are made of.                          *)

\* What a Receive may return is a sequence of distinct visible messages.
LEMMA ReceivableSeq ==
    ASSUME NEW s \in Receivable
    PROVE  /\ s \in Seq(Message)
           /\ Len(s) \in 1..BatchSize
           /\ DOMAIN s = 1..Len(s)
           /\ \A i \in 1..Len(s) : s[i] \in Message /\ queue[s[i]] = "visible"
           /\ \A i, j \in 1..Len(s) : i # j => s[i] # s[j]
<1> DEFINE visible == {m \in Message : queue[m] = "visible"}
<1>1. PICK n \in 1..BatchSize : s \in [1..n -> visible]
  BY DEF Receivable
<1>2. n \in Nat /\ s \in Seq(visible) /\ Len(s) = n /\ DOMAIN s = 1..n
  BY <1>1, BoundAssumption
<1>3. s \in Seq(Message)
  BY <1>1, <1>2
<1>4. \A i, j \in DOMAIN s : i # j => s[i] # s[j]
  BY DEF Receivable
<1> QED
  BY <1>1, <1>2, <1>3, <1>4

\* Handing out messages takes visible ones in flight and counts deliveries.
LEMMA HandOutQueue ==
    ASSUME TypeOK, QueueOK, NEW s \in Receivable, HandOut(s)
    PROVE  /\ queue' \in [Message -> {"unsent", "visible", "inflight", "deleted", "dlq"}]
           /\ receives' \in [Message -> 0..MaxReceive]
           /\ \A m \in Message :
                 \/ queue'[m] = queue[m] /\ receives'[m] = receives[m]
                 \/ /\ queue[m] = "visible" /\ queue'[m] = "inflight"
                    /\ receives'[m] = receives[m] + 1
           /\ \A i \in 1..Len(s) : receives'[s[i]] = receives[s[i]] + 1
<1> DEFINE got == {s[i] : i \in DOMAIN s}
<1>1. \A m \in got : m \in Message /\ queue[m] = "visible"
  BY ReceivableSeq
<1>2. \A m \in Message :
        /\ queue'[m] = IF m \in got THEN "inflight" ELSE queue[m]
        /\ receives'[m] = IF m \in got THEN receives[m] + 1 ELSE receives[m]
  BY DEF HandOut
<1>3. \A m \in got : receives[m] + 1 \in 0..MaxReceive
  <2>1. \A m \in Message : queue[m] = "visible" => receives[m] + 1 \in 0..MaxReceive
    BY BoundAssumption DEF TypeOK, QueueOK
  <2> QED
    BY <1>1, <2>1
<1>4. /\ queue' = [m \in Message |-> IF m \in got THEN "inflight" ELSE queue[m]]
      /\ receives' = [m \in Message |-> IF m \in got THEN receives[m] + 1 ELSE receives[m]]
  BY DEF HandOut
<1>5. queue' \in [Message -> {"unsent", "visible", "inflight", "deleted", "dlq"}]
  BY <1>4 DEF TypeOK
<1>6. receives' \in [Message -> 0..MaxReceive]
  BY <1>3, <1>4 DEF TypeOK
<1>7. \A i \in 1..Len(s) : s[i] \in got /\ s[i] \in Message
  BY ReceivableSeq
<1> HIDE DEF got
<1>8. \A m \in Message :
        \/ queue'[m] = queue[m] /\ receives'[m] = receives[m]
        \/ /\ queue[m] = "visible" /\ queue'[m] = "inflight"
           /\ receives'[m] = receives[m] + 1
  BY <1>1, <1>2
<1>9. \A i \in 1..Len(s) : receives'[s[i]] = receives[s[i]] + 1
  BY <1>2, <1>7
<1> QED
  BY <1>5, <1>6, <1>8, <1>9

\* The deliveries of a batch.
LEMMA BatchType ==
    ASSUME TypeOK, QueueOK, NEW s \in Receivable
    PROVE  LET b == [i \in DOMAIN s |-> [msg |-> s[i], try |-> receives[s[i]] + 1]] IN
           b \in Seq(Delivery) /\ Len(b) = Len(s)
<1> DEFINE b == [i \in DOMAIN s |-> [msg |-> s[i], try |-> receives[s[i]] + 1]]
<1>1. \A i \in 1..Len(s) : s[i] \in Message /\ receives[s[i]] + 1 \in 1..MaxReceive
  BY ReceivableSeq, BoundAssumption DEF TypeOK, QueueOK
<1>2. \A i \in 1..Len(s) : [msg |-> s[i], try |-> receives[s[i]] + 1] \in Delivery
  BY <1>1 DEF Delivery
<1>3. DOMAIN s = 1..Len(s) /\ Len(s) \in Nat
  BY ReceivableSeq, BoundAssumption
<1>4. b \in [1..Len(s) -> Delivery]
  BY <1>2, <1>3
<1> QED
  BY <1>3, <1>4

\* A worker that is working has a current delivery.
LEMMA AtWorkType ==
    ASSUME TypeOK, NEW w \in Worker, AtWork(w)
    PROVE  /\ batch[w] \in Seq(Delivery) /\ batch[w] # <<>>
           /\ Len(batch[w]) \in Nat /\ 1 \in 1..Len(batch[w])
           /\ Current(w) = batch[w][1]
           /\ Current(w) \in Delivery
           /\ Current(w).msg \in Message
           /\ Current(w).try \in 1..MaxReceive
           /\ Id(w) \in Shipment
           /\ Tail(batch[w]) \in Seq(Delivery)
           /\ Len(Tail(batch[w])) = Len(batch[w]) - 1
           /\ \A i \in 1..Len(Tail(batch[w])) :
                 i + 1 \in 1..Len(batch[w]) /\ Tail(batch[w])[i] = batch[w][i + 1]
<1>1. batch[w] \in Seq(Delivery) /\ batch[w] # <<>>
  BY DEF TypeOK
<1>2. /\ Len(batch[w]) \in Nat /\ 1 \in 1..Len(batch[w])
      /\ Current(w) = batch[w][1] /\ Current(w) \in Delivery
  BY <1>1 DEF Current
<1>3. /\ Tail(batch[w]) \in Seq(Delivery)
      /\ Len(Tail(batch[w])) = Len(batch[w]) - 1
      /\ \A i \in 1..Len(Tail(batch[w])) :
            i + 1 \in 1..Len(batch[w]) /\ Tail(batch[w])[i] = batch[w][i + 1]
  BY <1>1
<1>4. Current(w).msg \in Message /\ Current(w).try \in 1..MaxReceive
  BY <1>2 DEF Delivery
<1>5. Id(w) \in Shipment
  BY <1>4, ShipmentOfAssumption DEF Id
<1> QED
  BY <1>1, <1>2, <1>3, <1>4, <1>5

LEMMA ChosenType ==
    ASSUME TypeOK, NEW w \in Worker, AtWork(w), choice[w] # None
    PROVE  Chosen(w) \in Assignment
BY AtWorkType DEF TypeOK, Chosen, Assignment, Delivery

LEMMA CarrierType ==
    ASSUME NEW usePriority \in BOOLEAN, NEW n \in 1..Len(Normal)
    PROVE  Assign(usePriority, n) \in Carrier
BY DEF Assign, Carrier

\* The status and the log of Puts after a POST /shipments/{id}/status.
LEMMA WriteType ==
    ASSUME TypeOK, NEW w \in Worker, AtWork(w), choice[w] # None, PutStatus(w)
    PROVE  /\ status' \in [Shipment -> Status \cup {None}]
           /\ puts' \in [Shipment -> Seq(Assignment)]
           /\ lagging' \subseteq Lagging /\ crossed' \subseteq Shipment
<1>1. Chosen(w) \in Assignment /\ Id(w) \in Shipment
  BY ChosenType, AtWorkType
<1>2. "picked_up" = Stage[2] /\ 2 \in 1..Len(Stage)
  BY DEF Stage
<1>3. "picked_up" \in Status
  BY <1>2 DEF Status
<1>4. puts[Id(w)] \in Seq(Assignment)
  BY <1>1 DEF TypeOK
<1>5. Append(puts[Id(w)], Chosen(w)) \in Seq(Assignment)
  BY <1>1, <1>4
<1> QED
  BY <1>1, <1>3, <1>5 DEF TypeOK, PutStatus

LEMMA TellType ==
    ASSUME TypeOK, NEW w \in Worker, AtWork(w), choice[w] # None, Tell(w)
    PROVE  told' \in [Shipment -> Seq(Assignment)]
<1>1. Chosen(w) \in Assignment /\ Id(w) \in Shipment
  BY ChosenType, AtWorkType
<1>2. Append(told[Id(w)], Chosen(w)) \in Seq(Assignment)
  BY <1>1 DEF TypeOK
<1> QED
  BY <1>1, <1>2 DEF TypeOK, Tell

-----------------------------------------------------------------------------
(* Types.                                                                  *)

\* The part of TypeOK about the loops.
LoopType ==
    /\ pc \in [Worker -> {"down", "receive", "backoff", "stopped",
                          "lookup", "update", "publish", "notify", "delete"}]
    /\ batch \in [Worker -> Seq(Delivery)]
    /\ \A w \in Worker : AtWork(w) <=> batch[w] # <<>>
    /\ \A w \in Worker : Len(batch[w]) <= BatchSize
    /\ choice \in [Worker -> Carrier \cup {None}]
    /\ cancelled \subseteq {w \in Worker : pc[w] # "down"}

LEMMA NextMessageType ==
    ASSUME TypeOK, NEW w \in Worker, AtWork(w), NextMessage(w)
    PROVE  LoopType'
<1>1. batch' \in [Worker -> Seq(Delivery)]
  BY AtWorkType DEF NextMessage, TypeOK
<1>2. \A v \in Worker : v # w => batch'[v] = batch[v] /\ pc'[v] = pc[v]
  BY DEF NextMessage, TypeOK
<1>3. /\ batch'[w] = Tail(batch[w])
      /\ pc'[w] = IF Len(batch[w]) > 1 THEN "lookup" ELSE "receive"
  BY DEF NextMessage, TypeOK
<1>4. batch'[w] # <<>> <=> Len(batch[w]) > 1
  <2>1. batch'[w] \in Seq(Delivery) /\ Len(batch'[w]) = Len(batch[w]) - 1
    BY <1>3, AtWorkType
  <2>2. batch'[w] # <<>> <=> Len(batch'[w]) > 0
    BY <2>1
  <2> QED
    BY <2>1, <2>2, AtWorkType
<1>5. Len(batch'[w]) <= BatchSize
  BY <1>3, AtWorkType, BoundAssumption DEF TypeOK
<1>6. \A v \in Worker : AtWork(v)' <=> batch'[v] # <<>>
  BY <1>2, <1>3, <1>4 DEF AtWork, TypeOK
<1>7. \A v \in Worker : Len(batch'[v]) <= BatchSize
  BY <1>2, <1>5 DEF TypeOK
<1>8. /\ pc' \in [Worker -> {"down", "receive", "backoff", "stopped",
                             "lookup", "update", "publish", "notify", "delete"}]
      /\ choice' \in [Worker -> Carrier \cup {None}]
  BY DEF NextMessage, TypeOK
<1>9. cancelled' \subseteq {v \in Worker : pc'[v] # "down"}
  BY <1>2, <1>3 DEF NextMessage, TypeOK
<1> QED
  BY <1>1, <1>6, <1>7, <1>8, <1>9 DEF LoopType

LEMMA GoToType ==
    ASSUME TypeOK, NEW w \in Worker, AtWork(w),
           NEW step \in {"lookup", "update", "publish", "notify", "delete"},
           GoTo(w, step), choice' \in [Worker -> Carrier \cup {None}]
    PROVE  LoopType'
BY DEF GoTo, TypeOK, LoopType, AtWork

LEMMA GoneType ==
    ASSUME TypeOK, NEW w \in Worker, Gone(w)
    PROVE  LoopType'
<1>1. /\ pc' \in [Worker -> {"down", "receive", "backoff", "stopped",
                             "lookup", "update", "publish", "notify", "delete"}]
      /\ batch' \in [Worker -> Seq(Delivery)]
      /\ choice' \in [Worker -> Carrier \cup {None}]
  BY DEF Gone, TypeOK
<1>2. \A v \in Worker : v # w => batch'[v] = batch[v] /\ pc'[v] = pc[v]
  BY DEF Gone, TypeOK
<1>3. batch'[w] = <<>> /\ pc'[w] = "down"
  BY DEF Gone, TypeOK
<1>4. \A v \in Worker : (AtWork(v)' <=> batch'[v] # <<>>) /\ Len(batch'[v]) <= BatchSize
  <2>1. (AtWork(w)' <=> batch'[w] # <<>>) /\ Len(batch'[w]) <= BatchSize
    BY <1>3, BoundAssumption DEF AtWork
  <2>2. \A v \in Worker : v # w => (AtWork(v)' <=> AtWork(v)) /\ batch'[v] = batch[v]
    BY <1>2 DEF AtWork
  <2> QED
    BY <2>1, <2>2 DEF TypeOK
<1>5. cancelled' \subseteq {v \in Worker : pc'[v] # "down"}
  BY <1>2 DEF Gone, TypeOK
<1> QED
  BY <1>1, <1>4, <1>5 DEF LoopType

LEMMA TypeInit == Init => TypeOK
<1> SUFFICES ASSUME Init PROVE TypeOK
  OBVIOUS
<1>1. status \in [Shipment -> Status \cup {None}]
  BY ExistsAssumption DEF Init
<1>2. /\ puts \in [Shipment -> Seq(Assignment)]
      /\ told \in [Shipment -> Seq(Assignment)]
      /\ batch \in [Worker -> Seq(Delivery)]
  BY DEF Init
<1> QED
  BY <1>1, <1>2, BoundAssumption DEF Init, TypeOK, AtWork

LEMMA TypeStep ==
    ASSUME IInv, [Next]_vars
    PROVE  TypeOK'
<1> USE DEF IInv
<1>1. ASSUME NEW m \in Message, Dispatch(m) \/ DispatchFails(m) \/ DispatchMalformed(m)
      PROVE  TypeOK'
  BY <1>1 DEF Dispatch, DispatchFails, DispatchMalformed, Enqueue, Respond,
              TypeOK, workerVars, shipmentVars, outVars, AtWork
<1>2. ASSUME NEW m \in Message, VisibilityTimeout(m)
      PROVE  TypeOK'
  BY <1>2 DEF VisibilityTimeout, TypeOK, workerVars, shipmentVars, outVars, AtWork
<1>3. ASSUME NEW w \in Worker, NEW s \in Receivable, Receive(w, s)
      PROVE  TypeOK'
  <2> DEFINE b == [i \in DOMAIN s |-> [msg |-> s[i], try |-> receives[s[i]] + 1]]
  <2>1. b \in Seq(Delivery) /\ Len(b) = Len(s) /\ Len(s) \in 1..BatchSize
    BY BatchType, ReceivableSeq
  <2>2. b # <<>> /\ Len(b) <= BatchSize
    BY <2>1, BoundAssumption
  <2>3. batch' = [batch EXCEPT ![w] = b] /\ pc' = [pc EXCEPT ![w] = "lookup"]
    BY <1>3 DEF Receive
  <2> HIDE DEF b
  <2>4. batch' \in [Worker -> Seq(Delivery)]
    BY <2>1, <2>3 DEF TypeOK
  <2>5. \A v \in Worker : (AtWork(v)' <=> batch'[v] # <<>>) /\ Len(batch'[v]) <= BatchSize
    BY <2>2, <2>3 DEF TypeOK, AtWork
  <2>6. /\ queue' \in [Message -> {"unsent", "visible", "inflight", "deleted", "dlq"}]
        /\ receives' \in [Message -> 0..MaxReceive]
    BY <1>3, HandOutQueue DEF Receive
  <2>7. cancelled' \subseteq {v \in Worker : pc'[v] # "down"}
    BY <1>3, <2>3 DEF Receive, TypeOK
  <2> QED
    BY <1>3, <2>3, <2>4, <2>5, <2>6, <2>7 DEF Receive, TypeOK, shipmentVars, outVars
<1>4. ASSUME NEW w \in Worker, ReceiveFails(w)
      PROVE  TypeOK'
  <2>1. /\ queue' \in [Message -> {"unsent", "visible", "inflight", "deleted", "dlq"}]
        /\ receives' \in [Message -> 0..MaxReceive]
    <3>1. CASE \E s \in Receivable : HandOut(s)
      BY <3>1, HandOutQueue
    <3>2. CASE UNCHANGED <<queue, receives>>
      BY <3>2 DEF TypeOK
    <3> QED
      BY <1>4, <3>1, <3>2 DEF ReceiveFails
  <2> QED
    BY <1>4, <2>1 DEF ReceiveFails, TypeOK, AtWork, shipmentVars, outVars
<1>5. ASSUME NEW w \in Worker, BackedOff(w) \/ Start(w) \/ Terminate(w)
      PROVE  TypeOK'
  <2>1. stops' \in 0..MaxStops
    BY <1>5, BoundAssumption DEF BackedOff, Start, Terminate, TypeOK
  <2>2. LoopType'
    BY <1>5 DEF BackedOff, Start, Terminate, TypeOK, LoopType, AtWork, Running
  <2> QED
    BY <1>5, <2>1, <2>2 DEF BackedOff, Start, Terminate, TypeOK, LoopType,
                            queueVars, shipmentVars, outVars
<1>6. ASSUME NEW w \in Worker, Delete(w)
      PROVE  TypeOK'
  <2>1. AtWork(w) /\ NextMessage(w)
    BY <1>6 DEF Delete, AtWork
  <2>2. queue' \in [Message -> {"unsent", "visible", "inflight", "deleted", "dlq"}]
    BY <1>6 DEF Delete, TypeOK
  <2> QED
    BY <1>6, <2>1, <2>2, NextMessageType
       DEF Delete, TypeOK, LoopType, shipmentVars, outVars
<1>7. ASSUME NEW w \in Worker, LookupFails(w)
      PROVE  TypeOK'
  <2>1. AtWork(w) /\ NextMessage(w)
    BY <1>7 DEF LookupFails, Leave, AtWork
  <2> QED
    BY <1>7, <2>1, NextMessageType
       DEF LookupFails, Leave, TypeOK, LoopType, queueVars, shipmentVars, outVars
<1>8. ASSUME NEW w \in Worker, UpdateFails(w)
      PROVE  TypeOK'
  <2>1. AtWork(w) /\ NextMessage(w) /\ choice[w] # None
    BY <1>8 DEF UpdateFails, Leave, AtWork, AttemptsOK
  <2>2. /\ status' \in [Shipment -> Status \cup {None}]
        /\ puts' \in [Shipment -> Seq(Assignment)]
        /\ lagging' \subseteq Lagging /\ crossed' \subseteq Shipment
    BY <1>8, <2>1, WriteType DEF UpdateFails, TypeOK, shipmentVars
  <2> QED
    BY <1>8, <2>1, <2>2, NextMessageType
       DEF UpdateFails, Leave, TypeOK, LoopType, queueVars, outVars
<1>9. ASSUME NEW w \in Worker, NotifyFails(w)
      PROVE  TypeOK'
  <2>1. AtWork(w) /\ NextMessage(w) /\ choice[w] # None
    BY <1>9 DEF NotifyFails, Leave, AtWork, AttemptsOK
  <2>2. told' \in [Shipment -> Seq(Assignment)]
    BY <1>9, <2>1, TellType DEF NotifyFails, TypeOK
  <2> QED
    BY <1>9, <2>1, <2>2, NextMessageType
       DEF NotifyFails, Leave, TypeOK, LoopType, queueVars, shipmentVars
<1>10. ASSUME NEW w \in Worker, LookupFound(w)
       PROVE  TypeOK'
  <2>1. AtWork(w) /\ GoTo(w, "update")
    BY <1>10 DEF LookupFound, AtWork
  <2>2. choice' \in [Worker -> Carrier \cup {None}]
    BY <1>10, CarrierType DEF LookupFound, TypeOK
  <2> QED
    BY <1>10, <2>1, <2>2, GoToType
       DEF LookupFound, TypeOK, LoopType, queueVars, shipmentVars, outVars
<1>11. ASSUME NEW w \in Worker, LookupUnknown(w) \/ UpdateUnknown(w)
       PROVE  TypeOK'
  <2>1. AtWork(w) /\ Drop(w) /\ GoTo(w, "delete") /\ choice' = choice
    BY <1>11 DEF LookupUnknown, UpdateUnknown, Drop, AtWork
  <2>2. dropped' \subseteq Message
    BY <2>1, AtWorkType DEF Drop, TypeOK
  <2> QED
    BY <2>1, <2>2, GoToType DEF Drop, TypeOK, LoopType, queueVars, shipmentVars
<1>12. ASSUME NEW w \in Worker, UpdateOk(w)
       PROVE  TypeOK'
  <2>1. AtWork(w) /\ GoTo(w, "publish") /\ choice' = choice /\ choice[w] # None
    BY <1>12 DEF UpdateOk, AtWork, AttemptsOK
  <2>2. /\ status' \in [Shipment -> Status \cup {None}]
        /\ puts' \in [Shipment -> Seq(Assignment)]
        /\ lagging' \subseteq Lagging /\ crossed' \subseteq Shipment
    BY <1>12, <2>1, WriteType DEF UpdateOk
  <2> QED
    BY <1>12, <2>1, <2>2, GoToType DEF UpdateOk, TypeOK, LoopType, queueVars, outVars
<1>13. ASSUME NEW w \in Worker, Publish(w)
       PROVE  TypeOK'
  <2>1. AtWork(w) /\ GoTo(w, "notify") /\ choice' = choice
    BY <1>13 DEF Publish, AtWork
  <2> QED
    BY <1>13, <2>1, GoToType
       DEF Publish, TypeOK, LoopType, queueVars, shipmentVars, outVars
<1>14. ASSUME NEW w \in Worker, NotifyOk(w)
       PROVE  TypeOK'
  <2>1. AtWork(w) /\ GoTo(w, "delete") /\ choice' = choice /\ choice[w] # None
    BY <1>14 DEF NotifyOk, AtWork, AttemptsOK
  <2>2. told' \in [Shipment -> Seq(Assignment)]
    BY <1>14, <2>1, TellType DEF NotifyOk
  <2> QED
    BY <1>14, <2>1, <2>2, GoToType DEF NotifyOk, TypeOK, LoopType, queueVars, shipmentVars
<1>15. ASSUME NEW w \in Worker, Exit(w) \/ Crash(w)
       PROVE  TypeOK'
  <2>1. Gone(w) /\ stops' \in 0..MaxStops
    BY <1>15, BoundAssumption DEF Exit, Crash, TypeOK
  <2> QED
    BY <2>1, GoneType DEF Gone, TypeOK, LoopType, queueVars, shipmentVars, outVars
<1>16. ASSUME NEW s \in Shipment, CatchUp(s)
       PROVE  TypeOK'
  BY <1>16 DEF CatchUp, TypeOK, AtWork, queueVars, workerVars, outVars
<1>17. CASE UNCHANGED vars
  BY <1>17 DEF vars, queueVars, workerVars, shipmentVars, outVars, TypeOK, AtWork
<1> QED
  BY <1>1, <1>2, <1>3, <1>4, <1>5, <1>6, <1>7, <1>8, <1>9, <1>10, <1>11, <1>12, <1>13,
     <1>14, <1>15, <1>16, <1>17
     DEF Next, LoopStep, WorkStep

-----------------------------------------------------------------------------
(* What steps do to the logs.                                              *)

LEMMA ElementsAppend ==
    ASSUME NEW S, NEW s \in Seq(S), NEW e \in S
    PROVE  Elements(Append(s, e)) = Elements(s) \cup {e}
<1>1. Len(Append(s, e)) = Len(s) + 1 /\ Len(s) \in Nat
  OBVIOUS
<1>2. \A k \in 1..Len(s) : Append(s, e)[k] = s[k]
  OBVIOUS
<1>3. Append(s, e)[Len(s) + 1] = e
  OBVIOUS
<1>4. 1..(Len(s) + 1) = 1..Len(s) \cup {Len(s) + 1}
  BY <1>1
<1> QED
  BY <1>1, <1>2, <1>3, <1>4 DEF Elements

LEMMA WriteRecords ==
    ASSUME TypeOK, NEW w \in Worker, AtWork(w), choice[w] # None, PutStatus(w)
    PROVE  Recorded' = Recorded \cup {Chosen(w)}
<1>1. Chosen(w) \in Assignment /\ Id(w) \in Shipment
  BY ChosenType, AtWorkType
<1>2. \A s \in Shipment : puts[s] \in Seq(Assignment)
  BY DEF TypeOK
<1>3. \A s \in Shipment : s # Id(w) => Elements(puts'[s]) = Elements(puts[s])
  BY DEF PutStatus, TypeOK
<1>4. puts'[Id(w)] = Append(puts[Id(w)], Chosen(w))
  BY <1>1 DEF PutStatus, TypeOK
<1>5. Elements(puts'[Id(w)]) = Elements(puts[Id(w)]) \cup {Chosen(w)}
  BY <1>1, <1>2, <1>4, ElementsAppend
<1> QED
  BY <1>1, <1>3, <1>5 DEF Recorded

LEMMA TellAnnounces ==
    ASSUME TypeOK, NEW w \in Worker, AtWork(w), choice[w] # None, Tell(w)
    PROVE  Announced' = Announced \cup {Chosen(w)}
<1>1. Chosen(w) \in Assignment /\ Id(w) \in Shipment
  BY ChosenType, AtWorkType
<1>2. \A s \in Shipment : told[s] \in Seq(Assignment)
  BY DEF TypeOK
<1>3. \A s \in Shipment : s # Id(w) => Elements(told'[s]) = Elements(told[s])
  BY DEF Tell, TypeOK
<1>4. told'[Id(w)] = Append(told[Id(w)], Chosen(w))
  BY <1>1 DEF Tell, TypeOK
<1>5. Elements(told'[Id(w)]) = Elements(told[Id(w)]) \cup {Chosen(w)}
  BY <1>1, <1>2, <1>4, ElementsAppend
<1> QED
  BY <1>1, <1>3, <1>5 DEF Announced

LEMMA LogTypes ==
    ASSUME TypeOK
    PROVE  Recorded \subseteq Assignment /\ Announced \subseteq Assignment
BY DEF TypeOK, Recorded, Announced, Elements

-----------------------------------------------------------------------------
(* The kinds of steps.                                                     *)

\* No attempt moves; the queue may count more deliveries.
Aside ==
    /\ UNCHANGED <<batch, choice, puts, told, dropped>>
    /\ \A v \in Worker : AtWork(v) \/ AtWork(v)' => pc'[v] = pc[v]
    /\ \A m \in Message : receives'[m] >= receives[m]

\* Only w moves.
Alone(w) ==
    /\ AtWork(w)
    /\ UNCHANGED receives
    /\ \A v \in Worker \ {w} :
          batch'[v] = batch[v] /\ pc'[v] = pc[v] /\ choice'[v] = choice[v]

\* w goes on with its message.
Ahead(w) ==
    /\ Alone(w)
    /\ batch'[w] = batch[w]
    /\ dropped \subseteq dropped'
    /\ \/ /\ pc[w] = "lookup" /\ pc'[w] = "update"
          /\ choice'[w] # None
          /\ UNCHANGED <<puts, told>>
       \/ /\ pc[w] \in {"lookup", "update"} /\ pc'[w] = "delete"
          /\ Current(w).msg \in dropped'
          /\ UNCHANGED <<puts, told>>
       \/ /\ pc[w] = "update" /\ pc'[w] = "publish"
          /\ PutStatus(w)
          /\ choice'[w] = choice[w]
          /\ UNCHANGED told
       \/ /\ pc[w] = "publish" /\ pc'[w] = "notify"
          /\ choice'[w] = choice[w]
          /\ UNCHANGED <<puts, told>>
       \/ /\ pc[w] = "notify" /\ pc'[w] = "delete"
          /\ Tell(w)
          /\ UNCHANGED puts

\* w goes on to the next message.
Onward(w) ==
    /\ Alone(w)
    /\ batch'[w] = Tail(batch[w])
    /\ pc'[w] \in {"lookup", "receive"}
    /\ UNCHANGED dropped
    /\ \/ UNCHANGED <<puts, told>>
       \/ pc[w] = "update" /\ PutStatus(w) /\ UNCHANGED told
       \/ pc[w] = "notify" /\ Tell(w) /\ UNCHANGED puts

\* w takes on a batch.
TakeOn(w) ==
    \E s \in Receivable :
        /\ HandOut(s)
        /\ batch'[w] = [i \in DOMAIN s |-> [msg |-> s[i], try |-> receives[s[i]] + 1]]
        /\ pc'[w] = "lookup"
        /\ \A v \in Worker \ {w} :
              batch'[v] = batch[v] /\ pc'[v] = pc[v] /\ choice'[v] = choice[v]
        /\ UNCHANGED <<puts, told, dropped>>

\* w is gone, and its batch with it.
Vanish(w) ==
    /\ batch'[w] = <<>> /\ pc'[w] = "down"
    /\ \A v \in Worker \ {w} :
          batch'[v] = batch[v] /\ pc'[v] = pc[v] /\ choice'[v] = choice[v]
    /\ UNCHANGED <<receives, puts, told, dropped>>

LEMMA StepKinds ==
    ASSUME IInv, [Next]_vars
    PROVE  \/ Aside
           \/ \E w \in Worker : Ahead(w) \/ Onward(w) \/ TakeOn(w) \/ Vanish(w)
<1> USE DEF IInv
<1>0. \A m \in Message : receives[m] \in Nat
  BY DEF TypeOK
<1>1. ASSUME NEW m \in Message,
             Dispatch(m) \/ DispatchFails(m) \/ DispatchMalformed(m) \/ VisibilityTimeout(m)
      PROVE  Aside
  BY <1>0, <1>1 DEF Dispatch, DispatchFails, DispatchMalformed, VisibilityTimeout,
                    Aside, AtWork, workerVars, shipmentVars, outVars
<1>2. ASSUME NEW w \in Worker, NEW s \in Receivable, Receive(w, s)
      PROVE  TakeOn(w)
  <2> DEFINE b == [i \in DOMAIN s |-> [msg |-> s[i], try |-> receives[s[i]] + 1]]
  <2>1. /\ batch' = [batch EXCEPT ![w] = b] /\ pc' = [pc EXCEPT ![w] = "lookup"]
        /\ HandOut(s) /\ choice' = choice /\ UNCHANGED <<puts, told, dropped>>
    BY <1>2 DEF Receive, shipmentVars, outVars
  <2> HIDE DEF b
  <2>2. /\ batch'[w] = b /\ pc'[w] = "lookup"
        /\ \A v \in Worker \ {w} :
              batch'[v] = batch[v] /\ pc'[v] = pc[v] /\ choice'[v] = choice[v]
    BY <2>1 DEF TypeOK
  <2> QED
    BY <2>1, <2>2 DEF TakeOn, b
<1>3. ASSUME NEW w \in Worker, ReceiveFails(w)
      PROVE  Aside
  <2>1. \A m \in Message : receives'[m] >= receives[m]
    <3>1. CASE \E s \in Receivable : HandOut(s)
      BY <1>0, <3>1, HandOutQueue
    <3>2. CASE UNCHANGED <<queue, receives>>
      BY <1>0, <3>2
    <3> QED
      BY <1>3, <3>1, <3>2 DEF ReceiveFails
  <2> QED
    BY <1>3, <2>1 DEF ReceiveFails, Aside, AtWork, TypeOK, shipmentVars, outVars
<1>4. ASSUME NEW w \in Worker, BackedOff(w) \/ Start(w) \/ Terminate(w)
      PROVE  Aside
  BY <1>0, <1>4 DEF BackedOff, Start, Terminate, Aside, AtWork, TypeOK,
                    queueVars, shipmentVars, outVars
<1>5. ASSUME NEW w \in Worker, LookupFound(w)
      PROVE  Ahead(w)
  <2>1. choice'[w] # None
    BY <1>5, CarrierType, CarrierAssumption DEF LookupFound, TypeOK
  <2> QED
    BY <1>5, <2>1 DEF LookupFound, GoTo, Ahead, Alone, AtWork, TypeOK,
                      queueVars, shipmentVars, outVars
<1>6. ASSUME NEW w \in Worker, LookupUnknown(w) \/ UpdateUnknown(w)
      PROVE  Ahead(w)
  BY <1>6 DEF LookupUnknown, UpdateUnknown, Drop, GoTo, Ahead, Alone, AtWork, TypeOK,
              queueVars, shipmentVars
<1>7. ASSUME NEW w \in Worker, UpdateOk(w)
      PROVE  Ahead(w)
  BY <1>7 DEF UpdateOk, GoTo, Ahead, Alone, AtWork, TypeOK, queueVars, outVars
<1>8. ASSUME NEW w \in Worker, Publish(w)
      PROVE  Ahead(w)
  BY <1>8 DEF Publish, GoTo, Ahead, Alone, AtWork, TypeOK, queueVars, shipmentVars, outVars
<1>9. ASSUME NEW w \in Worker, NotifyOk(w)
      PROVE  Ahead(w)
  BY <1>9 DEF NotifyOk, GoTo, Ahead, Alone, AtWork, TypeOK, queueVars, shipmentVars
<1>10. ASSUME NEW w \in Worker, LookupFails(w)
       PROVE  Onward(w)
  BY <1>10 DEF LookupFails, Leave, NextMessage, Onward, Alone, AtWork, TypeOK,
               queueVars, shipmentVars, outVars
<1>11. ASSUME NEW w \in Worker, UpdateFails(w)
       PROVE  Onward(w)
  BY <1>11 DEF UpdateFails, Leave, NextMessage, Onward, Alone, AtWork, TypeOK,
               queueVars, shipmentVars, outVars
<1>12. ASSUME NEW w \in Worker, NotifyFails(w)
       PROVE  Onward(w)
  BY <1>12 DEF NotifyFails, Leave, NextMessage, Onward, Alone, AtWork, TypeOK,
               queueVars, shipmentVars
<1>13. ASSUME NEW w \in Worker, Delete(w)
       PROVE  Onward(w)
  BY <1>13 DEF Delete, NextMessage, Onward, Alone, AtWork, TypeOK, shipmentVars, outVars
<1>14. ASSUME NEW w \in Worker, Exit(w) \/ Crash(w)
       PROVE  Vanish(w)
  BY <1>14 DEF Exit, Crash, Gone, Vanish, TypeOK, queueVars, shipmentVars, outVars
<1>15. ASSUME NEW s \in Shipment, CatchUp(s)
       PROVE  Aside
  BY <1>0, <1>15 DEF CatchUp, Aside, AtWork, queueVars, workerVars, outVars
<1>16. CASE UNCHANGED vars
  BY <1>0, <1>16 DEF vars, Aside, AtWork, queueVars, workerVars, shipmentVars, outVars
<1> QED
  BY <1>1, <1>2, <1>3, <1>4, <1>5, <1>6, <1>7, <1>8, <1>9, <1>10, <1>11, <1>12, <1>13,
     <1>14, <1>15, <1>16
     DEF Next, LoopStep, WorkStep

\* What a moving worker leaves of the logs.
LEMMA AheadLogs ==
    ASSUME IInv, NEW w \in Worker, Ahead(w)
    PROVE  /\ Recorded' = Recorded \/ (/\ pc[w] = "update" /\ pc'[w] = "publish"
                                       /\ choice'[w] = choice[w]
                                       /\ Recorded' = Recorded \cup {Chosen(w)})
           /\ Announced' = Announced \/ (/\ pc[w] = "notify" /\ pc'[w] = "delete"
                                         /\ Announced' = Announced \cup {Chosen(w)})
<1>1. AtWork(w) /\ (pc[w] \in {"update", "notify"} => choice[w] # None)
  BY DEF Ahead, Alone, IInv, AttemptsOK
<1>2. UNCHANGED puts => Recorded' = Recorded
  BY DEF Recorded
<1>3. UNCHANGED told => Announced' = Announced
  BY DEF Announced
<1> QED
  BY <1>1, <1>2, <1>3, WriteRecords, TellAnnounces DEF Ahead, IInv

LEMMA OnwardLogs ==
    ASSUME IInv, NEW w \in Worker, Onward(w)
    PROVE  /\ Recorded' = Recorded \/ Recorded' = Recorded \cup {Chosen(w)}
           /\ \/ Announced' = Announced
              \/ pc[w] = "notify" /\ Announced' = Announced \cup {Chosen(w)}
<1>1. AtWork(w) /\ (pc[w] \in {"update", "notify"} => choice[w] # None)
  BY DEF Onward, Alone, IInv, AttemptsOK
<1>2. UNCHANGED puts => Recorded' = Recorded
  BY DEF Recorded
<1>3. UNCHANGED told => Announced' = Announced
  BY DEF Announced
<1> QED
  BY <1>1, <1>2, <1>3, WriteRecords, TellAnnounces DEF Onward, IInv

\* Nothing is taken off the logs.
LEMMA LogsGrow ==
    ASSUME IInv, [Next]_vars
    PROVE  Recorded \subseteq Recorded' /\ Announced \subseteq Announced' /\ dropped \subseteq dropped'
<1>1. CASE Aside
  BY <1>1 DEF Aside, Recorded, Announced
<1>2. ASSUME NEW w \in Worker, Ahead(w)
      PROVE  Recorded \subseteq Recorded' /\ Announced \subseteq Announced' /\ dropped \subseteq dropped'
  BY <1>2, AheadLogs DEF Ahead
<1>3. ASSUME NEW w \in Worker, Onward(w)
      PROVE  Recorded \subseteq Recorded' /\ Announced \subseteq Announced' /\ dropped \subseteq dropped'
  BY <1>3, OnwardLogs DEF Onward
<1>4. ASSUME NEW w \in Worker, TakeOn(w) \/ Vanish(w)
      PROVE  Recorded \subseteq Recorded' /\ Announced \subseteq Announced' /\ dropped \subseteq dropped'
  BY <1>4 DEF TakeOn, Vanish, Recorded, Announced
<1> QED
  BY <1>1, <1>2, <1>3, <1>4, StepKinds

LEMMA SettledStays ==
    ASSUME IInv, [Next]_vars, NEW m, Settled(m)
    PROVE  Settled(m)'
BY LogsGrow DEF Settled, ToldAbout

-----------------------------------------------------------------------------
(* The parts of the invariant, step by step.                               *)

LEMMA QueueStep ==
    ASSUME IInv, [Next]_vars
    PROVE  QueueOK'
<1> USE DEF IInv
<1>0. \A m : Settled(m) => Settled(m)'
  BY SettledStays
<1> DEFINE
      Fine(m) == /\ answer'[m] = "none" => queue'[m] = "unsent"
                 /\ queue'[m] = "unsent" => receives'[m] = 0 /\ answer'[m] # "202"
                 /\ queue'[m] = "visible" => receives'[m] < MaxReceive
                 /\ queue'[m] = "deleted" => Settled(m)'
<1>1. SUFFICES ASSUME NEW m \in Message PROVE Fine(m)
  BY DEF QueueOK
<1>2. CASE UNCHANGED queueVars
  BY <1>0, <1>2 DEF queueVars, QueueOK
<1>3. ASSUME NEW s \in Receivable, HandOut(s), answer' = answer
      PROVE  Fine(m)
  BY <1>0, <1>3, HandOutQueue DEF QueueOK
<1>4. ASSUME NEW k \in Message, Dispatch(k) \/ DispatchFails(k) \/ DispatchMalformed(k)
      PROVE  Fine(m)
  <2>1. receives' = receives
    BY <1>4 DEF Dispatch, DispatchFails, DispatchMalformed
  <2>2. CASE m # k
    <3>1. answer'[m] = answer[m] /\ queue'[m] = queue[m]
      BY <1>4, <2>2
         DEF Dispatch, DispatchFails, DispatchMalformed, Respond, Enqueue, TypeOK
    <3> QED
      BY <1>0, <2>1, <3>1 DEF QueueOK
  <2>3. CASE m = k
    <3>1. queue[m] = "unsent" /\ receives[m] = 0
      BY <1>4, <2>3 DEF Dispatch, DispatchFails, DispatchMalformed, QueueOK
    <3>2. \/ answer'[m] = "202" /\ queue'[m] = "visible"
          \/ answer'[m] = "502" /\ queue'[m] \in {"visible", "unsent"}
          \/ answer'[m] = "400" /\ queue'[m] = "unsent"
      BY <1>4, <2>3, <3>1
         DEF Dispatch, DispatchFails, DispatchMalformed, Respond, Enqueue, TypeOK
    <3> QED
      BY <2>1, <3>1, <3>2, BoundAssumption
  <2> QED
    BY <2>2, <2>3
<1>5. ASSUME NEW k \in Message, VisibilityTimeout(k)
      PROVE  Fine(m)
  BY <1>0, <1>5 DEF VisibilityTimeout, TypeOK, QueueOK
<1>6. ASSUME NEW w \in Worker, Delete(w)
      PROVE  Fine(m)
  <2>1. m = Current(w).msg => Settled(m)'
    BY <1>0, <1>6 DEF Delete, AttemptsOK
  <2>2. /\ receives' = receives /\ answer' = answer
        /\ \/ queue'[m] = queue[m]
           \/ m = Current(w).msg /\ queue'[m] = "deleted" /\ InQueue(m)
    BY <1>6 DEF Delete, TypeOK
  <2> QED
    BY <1>0, <2>1, <2>2 DEF QueueOK, InQueue
<1>7. ASSUME NEW w \in Worker, ReceiveFails(w)
      PROVE  Fine(m)
  BY <1>0, <1>3, <1>7 DEF ReceiveFails, QueueOK
<1>8. ASSUME NEW w \in Worker, NEW s \in Receivable, Receive(w, s)
      PROVE  Fine(m)
  BY <1>3, <1>8 DEF Receive
<1> HIDE DEF Fine
<1>9. CASE UNCHANGED vars
  BY <1>2, <1>9 DEF vars
<1>10. ASSUME NEW w \in Worker,
              \/ BackedOff(w) \/ Start(w) \/ Terminate(w) \/ Exit(w) \/ Crash(w)
              \/ LookupFound(w) \/ LookupUnknown(w) \/ LookupFails(w)
              \/ UpdateOk(w) \/ UpdateUnknown(w) \/ UpdateFails(w)
              \/ Publish(w) \/ NotifyOk(w) \/ NotifyFails(w)
       PROVE  Fine(m)
  BY <1>2, <1>10
     DEF BackedOff, Start, Terminate, Exit, Crash, Gone, LookupFound, LookupUnknown,
         LookupFails, UpdateOk, UpdateUnknown, UpdateFails, Drop, Leave, Publish,
         NotifyOk, NotifyFails
<1>11. ASSUME NEW s \in Shipment, CatchUp(s)
       PROVE  Fine(m)
  BY <1>2, <1>11 DEF CatchUp
<1> QED
  BY <1>4, <1>5, <1>6, <1>7, <1>8, <1>9, <1>10, <1>11 DEF Next, LoopStep, WorkStep

LEMMA AttemptsStep ==
    ASSUME IInv, [Next]_vars
    PROVE  AttemptsOK' /\ AnnouncedWerePut'
<1> USE DEF IInv
<1> DEFINE
      Fine(v) == /\ pc'[v] \in {"update", "publish", "notify"} => choice'[v] # None
                 /\ pc'[v] \in {"publish", "notify"} => Chosen(v)' \in Recorded'
                 /\ pc'[v] = "delete" => Settled(Current(v).msg)'
<1>0. /\ \A m : Settled(m) => Settled(m)'
      /\ Recorded \subseteq Recorded'
  BY SettledStays, LogsGrow
<1>1. ASSUME NEW v \in Worker, batch'[v] = batch[v], choice'[v] = choice[v], pc'[v] = pc[v]
      PROVE  Fine(v)
  <2>1. Chosen(v)' = Chosen(v) /\ Current(v)' = Current(v)
    BY <1>1 DEF Chosen, Current
  <2> QED
    BY <1>0, <1>1, <2>1 DEF AttemptsOK
<1>2. CASE Aside
  <2>1. Announced' = Announced /\ Recorded' = Recorded
    BY <1>2 DEF Aside, Announced, Recorded
  <2>2. \A v \in Worker : Fine(v)
    <3>1. SUFFICES ASSUME NEW v \in Worker PROVE Fine(v)
      OBVIOUS
    <3>2. CASE pc'[v] = pc[v]
      BY <1>1, <1>2, <3>2 DEF Aside
    <3>3. CASE pc'[v] # pc[v]
      BY <1>2, <3>3 DEF Aside, AtWork
    <3> QED
      BY <3>2, <3>3
  <2> QED
    BY <2>1, <2>2 DEF AttemptsOK, AnnouncedWerePut
<1>3. ASSUME NEW w \in Worker, Ahead(w)
      PROVE  AttemptsOK' /\ AnnouncedWerePut'
  <2>1. \A v \in Worker \ {w} : Fine(v)
    BY <1>1, <1>3 DEF Ahead, Alone
  <2>2. Current(w)' = Current(w)
    BY <1>3 DEF Ahead, Current
  <2>3. Announced' \subseteq Recorded'
    BY <1>0, <1>3, AheadLogs DEF AttemptsOK, AnnouncedWerePut
  <2>4. pc'[w] \in {"update", "publish", "notify"} => choice'[w] # None
    BY <1>3 DEF Ahead, AttemptsOK
  <2>5. pc'[w] \in {"publish", "notify"} => Chosen(w)' \in Recorded'
    <3>1. pc'[w] \in {"publish", "notify"} => choice'[w] = choice[w]
      BY <1>3 DEF Ahead
    <3>2. choice'[w] = choice[w] => Chosen(w)' = Chosen(w)
      BY <2>2 DEF Chosen
    <3>3. pc[w] = "update" /\ pc'[w] = "publish" => Chosen(w) \in Recorded'
      <4>1. pc[w] = "update" /\ pc'[w] = "publish" => PutStatus(w)
        BY <1>3 DEF Ahead
      <4> QED
        BY <4>1, WriteRecords DEF AttemptsOK, AtWork
    <3>4. pc'[w] = "notify" => Chosen(w) \in Recorded'
      BY <1>0, <1>3 DEF Ahead, AttemptsOK
    <3> QED
      BY <1>3, <3>1, <3>2, <3>3, <3>4 DEF Ahead
  <2>6. pc'[w] = "delete" => Settled(Current(w).msg)'
    <3>1. pc[w] = "notify" /\ pc'[w] = "delete" => Chosen(w) \in Announced'
      <4>1. pc[w] = "notify" /\ pc'[w] = "delete" => Tell(w)
        BY <1>3 DEF Ahead
      <4> QED
        BY <4>1, TellAnnounces DEF AttemptsOK, AtWork
    <3>2. pc[w] # "notify" /\ pc'[w] = "delete" => Current(w).msg \in dropped'
      BY <1>3 DEF Ahead
    <3>3. Chosen(w).msg = Current(w).msg
      BY DEF Chosen
    <3> QED
      BY <2>2, <3>1, <3>2, <3>3 DEF Settled, ToldAbout
  <2> HIDE DEF Fine
  <2>7. \A v \in Worker : Fine(v)
    BY <2>1, <2>4, <2>5, <2>6 DEF Fine
  <2> QED
    BY <2>3, <2>7 DEF Fine, AttemptsOK, AnnouncedWerePut
<1>4. ASSUME NEW w \in Worker, Onward(w)
      PROVE  AttemptsOK' /\ AnnouncedWerePut'
  <2>1. \A v \in Worker \ {w} : Fine(v)
    BY <1>1, <1>4 DEF Onward, Alone
  <2>2. Announced' \subseteq Recorded'
    BY <1>0, <1>4, OnwardLogs DEF AttemptsOK, AnnouncedWerePut
  <2>3. Fine(w)
    BY <1>4 DEF Onward
  <2> QED
    BY <2>1, <2>2, <2>3 DEF AttemptsOK, AnnouncedWerePut
<1>5. ASSUME NEW w \in Worker, TakeOn(w) \/ Vanish(w)
      PROVE  AttemptsOK' /\ AnnouncedWerePut'
  <2>1. \A v \in Worker \ {w} : Fine(v)
    BY <1>1, <1>5 DEF TakeOn, Vanish
  <2>2. Announced' = Announced /\ Recorded' = Recorded
    BY <1>5 DEF TakeOn, Vanish, Announced, Recorded
  <2>3. Fine(w)
    BY <1>5 DEF TakeOn, Vanish
  <2> QED
    BY <2>1, <2>2, <2>3 DEF AttemptsOK, AnnouncedWerePut
<1> QED
  BY <1>2, <1>3, <1>4, <1>5, StepKinds

\* Two deliveries of one message with one number are the same.
LEMMA SameDelivery ==
    ASSUME NEW d \in Delivery, NEW e \in Delivery, d.msg = e.msg, d.try = e.try
    PROVE  d = e
BY DEF Delivery

\* The deliveries in hand.
LEMMA InHand ==
    ASSUME IInv, NEW v \in Worker, NEW i \in 1..Len(batch[v])
    PROVE  /\ batch[v][i] \in Delivery
           /\ batch[v][i].msg \in Message
           /\ batch[v][i].try \in Nat
           /\ batch[v][i].try <= receives[batch[v][i].msg]
           /\ receives[batch[v][i].msg] \in Nat
           /\ AtWork(v)
<1>1. batch[v] \in Seq(Delivery)
  BY DEF IInv, TypeOK
<1>2. batch[v][i] \in Delivery /\ batch[v] # <<>>
  BY <1>1
<1>3. batch[v][i].msg \in Message /\ batch[v][i].try \in Nat
  BY <1>2 DEF Delivery
<1> QED
  BY <1>2, <1>3 DEF IInv, TypeOK, DeliveriesOK

\* What the deliveries in hand owe the logs, after a step.
HandOK(v, i) ==
    /\ batch[v][i].try <= receives[batch[v][i].msg]
    /\ \A u \in Worker : \A j \in 1..Len(batch[u]) :
          batch[v][i] = batch[u][j] => v = u /\ i = j
    /\ \A a \in Recorded :
          MadeIn(a, batch[v][i]) => i = 1 /\ pc[v] \in {"publish", "notify", "delete"}
    /\ \A a \in Announced :
          MadeIn(a, batch[v][i]) => i = 1 /\ pc[v] = "delete"

LogOK == \A a \in Recorded \cup Announced : a.try <= receives[a.msg]

LEMMA HandsAndLogs == DeliveriesOK <=> LogOK /\ \A v \in Worker : \A i \in 1..Len(batch[v]) : HandOK(v, i)
BY DEF DeliveriesOK, LogOK, HandOK

LEMMA HandsAndLogsNext ==
    ASSUME LogOK', \A v \in Worker : \A i \in 1..Len(batch'[v]) : HandOK(v, i)'
    PROVE  DeliveriesOK'
BY DEF DeliveriesOK, LogOK, HandOK

\* Deliveries stay handed out, and logs within what was handed out.
LEMMA StillHandedOut ==
    ASSUME IInv, TypeOK', \A m \in Message : receives'[m] >= receives[m]
    PROVE  /\ \A v \in Worker : \A i \in 1..Len(batch[v]) :
                 batch[v][i].try <= receives'[batch[v][i].msg]
           /\ \A a \in Recorded \cup Announced : a.try <= receives'[a.msg]
<1>1. \A m \in Message : receives[m] \in Nat /\ receives'[m] \in Nat
  BY DEF IInv, TypeOK
<1>2. \A a \in Recorded \cup Announced :
        a.msg \in Message /\ a.try \in Nat /\ a.try <= receives[a.msg]
  BY LogTypes DEF IInv, Assignment, DeliveriesOK
<1>3. \A v \in Worker : \A i \in 1..Len(batch[v]) :
        batch[v][i].try <= receives'[batch[v][i].msg]
  BY <1>1, InHand
<1> QED
  BY <1>1, <1>2, <1>3

LEMMA AsideDeliveries ==
    ASSUME IInv, TypeOK', Aside
    PROVE  DeliveriesOK'
<1>1. batch' = batch /\ Recorded' = Recorded /\ Announced' = Announced
  BY DEF Aside, Recorded, Announced
<1>2. LogOK'
  BY <1>1, StillHandedOut DEF Aside, LogOK
<1>3. ASSUME NEW v \in Worker, NEW i \in 1..Len(batch'[v])
      PROVE  HandOK(v, i)'
  <2>1. HandOK(v, i) /\ i \in 1..Len(batch[v])
    BY <1>1, <1>3, HandsAndLogs DEF IInv
  <2>2. batch[v][i].try <= receives'[batch[v][i].msg]
    BY <2>1, StillHandedOut DEF Aside
  <2>3. pc'[v] = pc[v]
    BY <2>1, InHand DEF Aside
  <2> QED
    BY <1>1, <2>1, <2>2, <2>3 DEF HandOK
<1> QED
  BY <1>2, <1>3, HandsAndLogsNext

\* The delivery that w works on is on record, and announced, only as far as
\* w has got with it.
LEMMA CurrentOnRecord ==
    ASSUME IInv, NEW w \in Worker, AtWork(w)
    PROVE  /\ pc[w] = "update" => \A a \in Recorded : ~MadeIn(a, Current(w))
           /\ pc[w] # "delete" => \A a \in Announced : ~MadeIn(a, Current(w))
           /\ Current(w).try <= receives[Current(w).msg]
BY AtWorkType DEF IInv, DeliveriesOK

\* Only the delivery that w works on is the one that w's assignment is made in.
LEMMA ChosenMadeIn ==
    ASSUME IInv, NEW w \in Worker, AtWork(w),
           NEW v \in Worker, NEW i \in 1..Len(batch[v]), MadeIn(Chosen(w), batch[v][i])
    PROVE  v = w /\ i = 1
<1>1. /\ Current(w) = batch[w][1] /\ 1 \in 1..Len(batch[w]) /\ Current(w) \in Delivery
      /\ batch[v][i] \in Delivery
  BY AtWorkType, InHand DEF IInv
<1>2. Current(w) = batch[v][i]
  BY <1>1, SameDelivery DEF MadeIn, Chosen
<1>3. HandOK(v, i)
  BY HandsAndLogs DEF IInv
<1> QED
  BY <1>1, <1>2, <1>3 DEF HandOK

\* The logs after w wrote its assignment to one of them.
LEMMA LogAfter ==
    ASSUME IInv, NEW w \in Worker, AtWork(w), UNCHANGED receives,
           Recorded' \subseteq Recorded \cup {Chosen(w)},
           Announced' \subseteq Announced \cup {Chosen(w)}
    PROVE  LogOK'
<1>1. Chosen(w).try <= receives[Chosen(w).msg]
  BY CurrentOnRecord DEF Chosen
<1> QED
  BY <1>1 DEF IInv, DeliveriesOK, LogOK

LEMMA AheadDeliveries ==
    ASSUME IInv, NEW w \in Worker, Ahead(w)
    PROVE  DeliveriesOK'
<1>1. AtWork(w) /\ receives' = receives /\ \A v \in Worker : batch'[v] = batch[v]
  BY DEF Ahead, Alone
<1>2. /\ Recorded' = Recorded \/ (/\ pc[w] = "update" /\ pc'[w] = "publish"
                                  /\ Recorded' = Recorded \cup {Chosen(w)})
      /\ Announced' = Announced \/ (/\ pc[w] = "notify" /\ pc'[w] = "delete"
                                    /\ Announced' = Announced \cup {Chosen(w)})
  BY AheadLogs
<1>3. LogOK'
  BY <1>1, <1>2, LogAfter
<1>4. ASSUME NEW v \in Worker, NEW i \in 1..Len(batch'[v])
      PROVE  HandOK(v, i)'
  <2>1. HandOK(v, i) /\ i \in 1..Len(batch[v]) /\ batch'[v][i] = batch[v][i]
    BY <1>1, <1>4, HandsAndLogs DEF IInv
  <2>2. /\ pc[v] \in {"publish", "notify", "delete"} => pc'[v] \in {"publish", "notify", "delete"}
        /\ pc[v] = "delete" => pc'[v] = "delete"
    BY DEF Ahead, Alone
  <2>3. ASSUME NEW a \in Recorded', MadeIn(a, batch[v][i])
        PROVE  i = 1 /\ pc'[v] \in {"publish", "notify", "delete"}
    <3>1. CASE a \in Recorded
      BY <2>1, <2>2, <2>3, <3>1 DEF HandOK
    <3>2. CASE a = Chosen(w) /\ pc'[w] = "publish"
      BY <1>1, <2>1, <2>3, <3>2, ChosenMadeIn
    <3> QED
      BY <1>2, <3>1, <3>2
  <2>4. ASSUME NEW a \in Announced', MadeIn(a, batch[v][i])
        PROVE  i = 1 /\ pc'[v] = "delete"
    <3>1. CASE a \in Announced
      BY <2>1, <2>2, <2>4, <3>1 DEF HandOK
    <3>2. CASE a = Chosen(w) /\ pc'[w] = "delete"
      BY <1>1, <2>1, <2>4, <3>2, ChosenMadeIn
    <3> QED
      BY <1>2, <3>1, <3>2
  <2> QED
    BY <1>1, <2>1, <2>3, <2>4 DEF HandOK
<1> QED
  BY <1>3, <1>4, HandsAndLogsNext

LEMMA OnwardDeliveries ==
    ASSUME IInv, NEW w \in Worker, Onward(w)
    PROVE  DeliveriesOK'
<1>1. /\ AtWork(w) /\ receives' = receives
      /\ batch'[w] = Tail(batch[w])
      /\ \A v \in Worker \ {w} : batch'[v] = batch[v] /\ pc'[v] = pc[v]
  BY DEF Onward, Alone
<1>2. /\ Recorded' \subseteq Recorded \cup {Chosen(w)}
      /\ Announced' \subseteq Announced \cup {Chosen(w)}
  BY OnwardLogs
<1>3. LogOK'
  BY <1>1, <1>2, LogAfter
<1> DEFINE old(v, i) == IF v = w THEN i + 1 ELSE i
<1>4. \A v \in Worker : \A i \in 1..Len(batch'[v]) :
        old(v, i) \in 1..Len(batch[v]) /\ batch'[v][i] = batch[v][old(v, i)]
  <2>1. \A i \in 1..Len(batch'[w]) :
          i + 1 \in 1..Len(batch[w]) /\ batch'[w][i] = batch[w][i + 1]
    BY <1>1, AtWorkType DEF IInv
  <2>2. \A v \in Worker \ {w} : batch'[v] = batch[v]
    BY <1>1
  <2> QED
    BY <2>1, <2>2
<1>5. \A v \in Worker : \A i \in 1..Len(batch'[v]) :
        (v = w => old(v, i) # 1) /\ (v # w => old(v, i) = i)
  BY <1>1, AtWorkType DEF IInv
<1>6. \A v \in Worker : \A i, j \in Int : old(v, i) = old(v, j) => i = j
  OBVIOUS
<1> HIDE DEF old
<1>7. ASSUME NEW v \in Worker, NEW i \in 1..Len(batch'[v])
      PROVE  HandOK(v, i)'
  <2>1. old(v, i) \in 1..Len(batch[v]) /\ batch'[v][i] = batch[v][old(v, i)]
    BY <1>4
  <2>2. HandOK(v, old(v, i))
    BY <2>1, HandsAndLogs DEF IInv
  <2>3. ~MadeIn(Chosen(w), batch'[v][i])
    BY <1>1, <1>5, <2>1, ChosenMadeIn
  <2>4. \A u \in Worker : \A j \in 1..Len(batch'[u]) :
          batch'[v][i] = batch'[u][j] => v = u /\ i = j
    <3>1. SUFFICES ASSUME NEW u \in Worker, NEW j \in 1..Len(batch'[u]),
                          batch'[v][i] = batch'[u][j]
                   PROVE  v = u /\ i = j
      OBVIOUS
    <3>2. v = u /\ old(v, i) = old(u, j)
      BY <1>4, <2>1, <2>2, <3>1 DEF HandOK
    <3> QED
      BY <1>6, <3>2
  <2>5. ASSUME NEW a \in Recorded', MadeIn(a, batch'[v][i])
        PROVE  i = 1 /\ pc'[v] \in {"publish", "notify", "delete"}
    <3>1. a \in Recorded
      BY <1>2, <2>3, <2>5
    <3>2. old(v, i) = 1 /\ pc[v] \in {"publish", "notify", "delete"}
      BY <2>1, <2>2, <2>5, <3>1 DEF HandOK
    <3> QED
      BY <1>1, <1>5, <3>2
  <2>6. ASSUME NEW a \in Announced', MadeIn(a, batch'[v][i])
        PROVE  i = 1 /\ pc'[v] = "delete"
    <3>1. a \in Announced
      BY <1>2, <2>3, <2>6
    <3>2. old(v, i) = 1 /\ pc[v] = "delete"
      BY <2>1, <2>2, <2>6, <3>1 DEF HandOK
    <3> QED
      BY <1>1, <1>5, <3>2
  <2> QED
    BY <1>1, <2>1, <2>2, <2>4, <2>5, <2>6 DEF HandOK
<1> QED
  BY <1>3, <1>7, HandsAndLogsNext

LEMMA TakeOnDeliveries ==
    ASSUME IInv, TypeOK', NEW w \in Worker, TakeOn(w)
    PROVE  DeliveriesOK'
<1>1. PICK s \in Receivable :
        /\ HandOut(s)
        /\ batch'[w] = [i \in DOMAIN s |-> [msg |-> s[i], try |-> receives[s[i]] + 1]]
        /\ pc'[w] = "lookup"
        /\ \A v \in Worker \ {w} :
              batch'[v] = batch[v] /\ pc'[v] = pc[v] /\ choice'[v] = choice[v]
        /\ UNCHANGED <<puts, told, dropped>>
  BY DEF TakeOn
<1>2. /\ \A m \in Message : receives[m] \in Nat /\ receives'[m] \in Nat
                         /\ receives'[m] >= receives[m]
      /\ \A i \in 1..Len(s) : receives'[s[i]] = receives[s[i]] + 1
  <2>1. \A m \in Message : receives[m] \in Nat /\ receives'[m] \in Nat
    BY DEF IInv, TypeOK
  <2>2. \A m \in Message : receives'[m] = receives[m] \/ receives'[m] = receives[m] + 1
    BY <1>1, HandOutQueue DEF IInv
  <2>3. \A i \in 1..Len(s) : receives'[s[i]] = receives[s[i]] + 1
    BY <1>1, HandOutQueue DEF IInv
  <2> QED
    BY <2>1, <2>2, <2>3
<1>3. /\ DOMAIN s = 1..Len(s) /\ \A i \in 1..Len(s) : s[i] \in Message
      /\ \A i, j \in 1..Len(s) : s[i] = s[j] => i = j
  BY ReceivableSeq
<1>4. /\ Len(batch'[w]) = Len(s)
      /\ \A i \in 1..Len(s) :
            batch'[w][i].msg = s[i] /\ batch'[w][i].try = receives[s[i]] + 1
  BY <1>1, <1>3, BatchType DEF IInv
<1>5. Recorded' = Recorded /\ Announced' = Announced
  BY <1>1 DEF Recorded, Announced
<1>6. LogOK'
  BY <1>2, <1>5, StillHandedOut DEF LogOK
\* The new deliveries come after all there were.
<1>7. ASSUME NEW i \in 1..Len(batch'[w])
      PROVE  /\ batch'[w][i].try = receives'[batch'[w][i].msg]
             /\ \A a \in Recorded \cup Announced : ~MadeIn(a, batch'[w][i])
             /\ \A v \in Worker : \A j \in 1..Len(batch[v]) : batch[v][j] # batch'[w][i]
             /\ \A j \in 1..Len(batch'[w]) : batch'[w][i] = batch'[w][j] => i = j
  <2>1. /\ i \in 1..Len(s) /\ s[i] \in Message /\ batch'[w][i].msg = s[i]
        /\ batch'[w][i].try = receives[s[i]] + 1 /\ receives'[s[i]] = receives[s[i]] + 1
    BY <1>2, <1>3, <1>4
  <2>2. \A a \in Recorded \cup Announced : a.try <= receives[a.msg]
    BY DEF IInv, DeliveriesOK
  <2>3. \A a \in Recorded \cup Announced : ~MadeIn(a, batch'[w][i])
    BY <1>2, <2>1, <2>2 DEF MadeIn
  <2>4. \A v \in Worker : \A j \in 1..Len(batch[v]) : batch[v][j] # batch'[w][i]
    <3>1. SUFFICES ASSUME NEW v \in Worker, NEW j \in 1..Len(batch[v]),
                          batch[v][j] = batch'[w][i]
                   PROVE  FALSE
      OBVIOUS
    <3>2. batch[v][j].try <= receives[batch[v][j].msg]
      BY InHand
    <3>3. receives[s[i]] + 1 <= receives[s[i]] /\ receives[s[i]] \in Nat
      BY <1>2, <2>1, <3>1, <3>2
    <3> QED
      BY <3>3
  <2>5. \A j \in 1..Len(batch'[w]) : batch'[w][i] = batch'[w][j] => i = j
    BY <1>3, <1>4, <2>1
  <2> QED
    BY <2>1, <2>3, <2>4, <2>5
<1>8. ASSUME NEW v \in Worker, NEW i \in 1..Len(batch'[v])
      PROVE  HandOK(v, i)'
  <2>1. CASE v = w
    <3>1. batch'[w][i].try <= receives'[batch'[w][i].msg]
      BY <1>2, <1>3, <1>4, <1>8, <2>1
    <3>2. \A u \in Worker : \A j \in 1..Len(batch'[u]) :
            batch'[w][i] = batch'[u][j] => w = u /\ i = j
      <4>1. SUFFICES ASSUME NEW u \in Worker, NEW j \in 1..Len(batch'[u]),
                            batch'[w][i] = batch'[u][j]
                     PROVE  w = u /\ i = j
        OBVIOUS
      <4>2. u = w
        <5>1. ASSUME u # w PROVE FALSE
          <6>1. i \in 1..Len(batch'[w]) /\ j \in 1..Len(batch[u]) /\ batch'[u] = batch[u]
            BY <1>1, <1>8, <2>1, <5>1
          <6>2. batch[u][j] # batch'[w][i]
            BY <1>7, <6>1
          <6> QED
            BY <4>1, <6>1, <6>2
        <5> QED
          BY <5>1
      <4> QED
        BY <1>7, <1>8, <2>1, <4>1, <4>2
    <3> QED
      BY <1>5, <1>7, <1>8, <2>1, <3>1, <3>2 DEF HandOK
  <2>2. CASE v # w
    <3>1. batch'[v] = batch[v] /\ pc'[v] = pc[v] /\ i \in 1..Len(batch[v]) /\ HandOK(v, i)
      BY <1>1, <1>8, <2>2, HandsAndLogs DEF IInv
    <3>2. batch[v][i].try <= receives'[batch[v][i].msg]
      BY <1>2, <3>1, StillHandedOut
    <3>3. \A u \in Worker : \A j \in 1..Len(batch'[u]) :
            batch[v][i] = batch'[u][j] => v = u /\ i = j
      <4>1. SUFFICES ASSUME NEW u \in Worker, NEW j \in 1..Len(batch'[u]),
                            batch[v][i] = batch'[u][j]
                     PROVE  v = u /\ i = j
        OBVIOUS
      <4>2. u # w
        <5>1. ASSUME u = w PROVE FALSE
          <6>1. j \in 1..Len(batch'[w]) /\ batch[v][i] = batch'[w][j]
            BY <4>1, <5>1
          <6>2. batch[v][i] # batch'[w][j]
            BY <1>7, <3>1, <6>1
          <6> QED
            BY <6>1, <6>2
        <5> QED
          BY <5>1
      <4>3. batch'[u] = batch[u]
        BY <1>1, <4>2
      <4> QED
        BY <3>1, <4>1, <4>3 DEF HandOK
    <3> QED
      BY <1>5, <3>1, <3>2, <3>3 DEF HandOK
  <2> QED
    BY <2>1, <2>2
<1> QED
  BY <1>6, <1>8, HandsAndLogsNext

LEMMA VanishDeliveries ==
    ASSUME IInv, NEW w \in Worker, Vanish(w)
    PROVE  DeliveriesOK'
<1>1. /\ batch'[w] = <<>> /\ receives' = receives
      /\ \A v \in Worker \ {w} : batch'[v] = batch[v] /\ pc'[v] = pc[v]
  BY DEF Vanish
<1>2. Recorded' = Recorded /\ Announced' = Announced
  BY DEF Vanish, Recorded, Announced
<1>3. LogOK'
  BY <1>1, <1>2 DEF IInv, DeliveriesOK, LogOK
<1>4. ASSUME NEW v \in Worker, NEW i \in 1..Len(batch'[v])
      PROVE  HandOK(v, i)'
  <2>1. v # w /\ batch'[v] = batch[v] /\ pc'[v] = pc[v]
    BY <1>1, <1>4
  <2>2. HandOK(v, i)
    BY <1>4, <2>1, HandsAndLogs DEF IInv
  <2>3. \A u \in Worker : \A j \in 1..Len(batch'[u]) :
          j \in 1..Len(batch[u]) /\ batch'[u][j] = batch[u][j]
    BY <1>1
  <2> QED
    BY <1>1, <1>2, <2>1, <2>2, <2>3 DEF HandOK
<1> QED
  BY <1>3, <1>4, HandsAndLogsNext

LEMMA DeliveriesStep ==
    ASSUME IInv, TypeOK', [Next]_vars
    PROVE  DeliveriesOK'
BY StepKinds, AsideDeliveries, AheadDeliveries, OnwardDeliveries, TakeOnDeliveries,
   VanishDeliveries

\* A log with one entry per delivery keeps that when an entry of another
\* delivery is appended.
LEMMA OnceAppend ==
    ASSUME NEW log \in Seq(Assignment), NEW e \in Assignment,
           \A i, j \in 1..Len(log) : MadeIn(log[i], log[j]) => i = j,
           \A i \in 1..Len(log) : ~MadeIn(log[i], e)
    PROVE  \A i, j \in 1..Len(Append(log, e)) :
              MadeIn(Append(log, e)[i], Append(log, e)[j]) => i = j
<1> DEFINE new == Append(log, e)
<1>1. /\ Len(log) \in Nat /\ Len(new) = Len(log) + 1
      /\ \A k \in 1..Len(log) : new[k] = log[k]
      /\ new[Len(log) + 1] = e
  OBVIOUS
<1> HIDE DEF new
<1>2. \A i \in 1..Len(new) : i \in 1..Len(log) \/ i = Len(log) + 1
  BY <1>1
<1>3. \A a, d : MadeIn(a, d) => MadeIn(d, a)
  BY DEF MadeIn
<1>4. ASSUME NEW i \in 1..Len(new), NEW j \in 1..Len(new), MadeIn(new[i], new[j])
      PROVE  i = j
  <2>1. CASE i \in 1..Len(log) /\ j \in 1..Len(log)
    BY <1>1, <1>4, <2>1
  <2>2. CASE i \in 1..Len(log) /\ j = Len(log) + 1
    BY <1>1, <1>4, <2>2
  <2>3. CASE i = Len(log) + 1 /\ j \in 1..Len(log)
    BY <1>1, <1>3, <1>4, <2>3
  <2> QED
    BY <1>2, <2>1, <2>2, <2>3
<1> QED
  BY <1>4 DEF new

Once(log) == \A i, j \in 1..Len(log) : MadeIn(log[i], log[j]) => i = j

LEMMA OnceWrite ==
    ASSUME IInv, NEW w \in Worker, pc[w] = "update", PutStatus(w), UNCHANGED told
    PROVE  OncePerDelivery'
<1>1. AtWork(w) /\ choice[w] # None
  BY DEF AtWork, IInv, AttemptsOK
<1>2. Chosen(w) \in Assignment /\ Id(w) \in Shipment
  BY <1>1, ChosenType, AtWorkType DEF IInv
<1>3. \A s \in Shipment : Once(puts[s]) /\ Once(told[s])
  BY DEF IInv, OncePerDelivery, Once
<1>4. puts[Id(w)] \in Seq(Assignment)
  BY <1>2 DEF IInv, TypeOK
<1>5. \A i \in 1..Len(puts[Id(w)]) : ~MadeIn(puts[Id(w)][i], Chosen(w))
  <2>1. \A i \in 1..Len(puts[Id(w)]) : puts[Id(w)][i] \in Recorded
    BY <1>2 DEF Recorded, Elements
  <2>2. \A a \in Recorded : ~MadeIn(a, Current(w))
    BY <1>1, CurrentOnRecord
  <2> QED
    BY <2>1, <2>2 DEF MadeIn, Chosen
<1>6. Once(Append(puts[Id(w)], Chosen(w)))
  BY <1>2, <1>3, <1>4, <1>5, OnceAppend DEF Once
<1>7. \A s \in Shipment :
        puts'[s] = IF s = Id(w) THEN Append(puts[s], Chosen(w)) ELSE puts[s]
  BY DEF PutStatus, IInv, TypeOK
<1>8. \A s \in Shipment : Once(puts'[s]) /\ Once(told'[s])
  BY <1>3, <1>6, <1>7
<1> QED
  BY <1>8 DEF OncePerDelivery, Once

LEMMA OnceTell ==
    ASSUME IInv, NEW w \in Worker, pc[w] = "notify", Tell(w), UNCHANGED puts
    PROVE  OncePerDelivery'
<1>1. AtWork(w) /\ choice[w] # None
  BY DEF AtWork, IInv, AttemptsOK
<1>2. Chosen(w) \in Assignment /\ Id(w) \in Shipment
  BY <1>1, ChosenType, AtWorkType DEF IInv
<1>3. \A s \in Shipment : Once(puts[s]) /\ Once(told[s])
  BY DEF IInv, OncePerDelivery, Once
<1>4. told[Id(w)] \in Seq(Assignment)
  BY <1>2 DEF IInv, TypeOK
<1>5. \A i \in 1..Len(told[Id(w)]) : ~MadeIn(told[Id(w)][i], Chosen(w))
  <2>1. \A i \in 1..Len(told[Id(w)]) : told[Id(w)][i] \in Announced
    BY <1>2 DEF Announced, Elements
  <2>2. \A a \in Announced : ~MadeIn(a, Current(w))
    BY <1>1, CurrentOnRecord
  <2> QED
    BY <2>1, <2>2 DEF MadeIn, Chosen
<1>6. Once(Append(told[Id(w)], Chosen(w)))
  BY <1>2, <1>3, <1>4, <1>5, OnceAppend DEF Once
<1>7. \A s \in Shipment :
        told'[s] = IF s = Id(w) THEN Append(told[s], Chosen(w)) ELSE told[s]
  BY DEF Tell, IInv, TypeOK
<1>8. \A s \in Shipment : Once(puts'[s]) /\ Once(told'[s])
  BY <1>3, <1>6, <1>7
<1> QED
  BY <1>8 DEF OncePerDelivery, Once

LEMMA OnceStep ==
    ASSUME IInv, [Next]_vars
    PROVE  OncePerDelivery'
<1>1. CASE UNCHANGED <<puts, told>>
  BY <1>1 DEF IInv, OncePerDelivery
<1>2. CASE Aside \/ \E w \in Worker : TakeOn(w) \/ Vanish(w)
  BY <1>1, <1>2 DEF Aside, TakeOn, Vanish
<1>3. ASSUME NEW w \in Worker, Ahead(w)
      PROVE  OncePerDelivery'
  BY <1>1, <1>3, OnceWrite, OnceTell DEF Ahead
<1>4. ASSUME NEW w \in Worker, Onward(w)
      PROVE  OncePerDelivery'
  BY <1>1, <1>4, OnceWrite, OnceTell DEF Onward
<1> QED
  BY <1>2, <1>3, <1>4, StepKinds

-----------------------------------------------------------------------------
(* Agreement of the record with what the customer heard last.              *)

\* Only a worker that stands at its ack takes a message out of the queue for
\* good, and nothing takes a shipment off the crossed ones.
LEMMA AcksAndCrossings ==
    ASSUME IInv, [Next]_vars
    PROVE  /\ \A m \in Message : queue'[m] = "deleted" =>
                 \/ queue[m] = "deleted"
                 \/ \E w \in Worker : pc[w] = "delete" /\ Current(w).msg = m
           /\ crossed \subseteq crossed'
<1> USE DEF IInv
<1> DEFINE
      Acks == \A m \in Message : queue'[m] = "deleted" =>
                 \/ queue[m] = "deleted"
                 \/ \E w \in Worker : pc[w] = "delete" /\ Current(w).msg = m
      Goal == Acks /\ crossed \subseteq crossed'
<1>1. ASSUME NEW s \in Receivable, HandOut(s)
      PROVE  Acks
  BY <1>1, HandOutQueue
<1>2. ASSUME NEW k \in Message,
             \/ Dispatch(k) \/ DispatchFails(k) \/ DispatchMalformed(k)
             \/ VisibilityTimeout(k)
      PROVE  Goal
  BY <1>2 DEF Dispatch, DispatchFails, DispatchMalformed, VisibilityTimeout, Enqueue,
              TypeOK, shipmentVars
<1>3. ASSUME NEW w \in Worker, NEW s \in Receivable, Receive(w, s)
      PROVE  Goal
  BY <1>1, <1>3 DEF Receive, shipmentVars
<1>4. ASSUME NEW w \in Worker, ReceiveFails(w)
      PROVE  Goal
  BY <1>1, <1>4 DEF ReceiveFails, shipmentVars
<1>5. ASSUME NEW w \in Worker, Delete(w)
      PROVE  Goal
  BY <1>5 DEF Delete, TypeOK, shipmentVars
<1>6. ASSUME NEW w \in Worker,
             \/ BackedOff(w) \/ Start(w) \/ Terminate(w) \/ Exit(w) \/ Crash(w)
             \/ LookupFound(w) \/ LookupUnknown(w) \/ LookupFails(w)
             \/ UpdateUnknown(w) \/ Publish(w) \/ NotifyOk(w) \/ NotifyFails(w)
      PROVE  UNCHANGED <<queue, crossed>>
  BY <1>6
     DEF BackedOff, Start, Terminate, Exit, Crash, Gone, LookupFound, LookupUnknown,
         LookupFails, UpdateUnknown, Drop, Leave, Publish, NotifyOk, NotifyFails,
         queueVars, shipmentVars
<1>7. ASSUME NEW w \in Worker, UpdateOk(w) \/ UpdateFails(w)
      PROVE  queue' = queue /\ crossed \subseteq crossed'
  BY <1>7 DEF UpdateOk, UpdateFails, Leave, PutStatus, queueVars, shipmentVars
<1>8. ASSUME NEW s \in Shipment, CatchUp(s)
      PROVE  UNCHANGED <<queue, crossed>>
  BY <1>8 DEF CatchUp, queueVars
<1>9. CASE UNCHANGED vars
  BY <1>9 DEF vars, queueVars, shipmentVars
<1> QED
  BY <1>2, <1>3, <1>4, <1>5, <1>6, <1>7, <1>8, <1>9 DEF Next, LoopStep, WorkStep

\* The entries of a log after one was appended.
LEMMA AppendLast ==
    ASSUME NEW S, NEW s \in Seq(S), NEW e \in S
    PROVE  /\ Append(s, e) # <<>>
           /\ Append(s, e)[Len(Append(s, e))] = e
           /\ \A k \in 1..Len(Append(s, e)) : Append(s, e)[k] = e \/ \E j \in 1..Len(s) : Append(s, e)[k] = s[j]
<1>1. Len(Append(s, e)) = Len(s) + 1 /\ Len(s) \in Nat
  OBVIOUS
<1>2. \A k \in 1..Len(s) : Append(s, e)[k] = s[k]
  OBVIOUS
<1>3. Append(s, e)[Len(s) + 1] = e
  OBVIOUS
<1>4. \A k \in 1..Len(Append(s, e)) : k \in 1..Len(s) \/ k = Len(s) + 1
  BY <1>1
<1> QED
  BY <1>1, <1>2, <1>3, <1>4

\* The part of WritesFollow about one worker, and of AckedAgreement about one
\* shipment.
FollowsOK(w) ==
    AtWork(w) /\ Id(w) \notin crossed =>
        /\ pc[w] \in {"publish", "notify"} =>
              puts[Id(w)] # <<>> /\ Latest(Id(w)) = Chosen(w)
        /\ pc[w] = "delete" /\ puts[Id(w)] # <<>> /\ Latest(Id(w)).msg = Current(w).msg =>
              Current(w).msg \in dropped \/ Agreed(Id(w))

AckedOK(s) ==
    s \notin crossed =>
        (puts[s] # <<>> /\ queue[Latest(s).msg] = "deleted" /\ Latest(s).msg \notin dropped
            => Agreed(s))

OwnEntries(s) == \A k \in 1..Len(puts[s]) : ShipmentOf[puts[s][k].msg] = s

LEMMA AgreementParts ==
    ASSUME IInv
    PROVE  /\ \A w \in Worker : FollowsOK(w)
           /\ \A s \in Shipment : AckedOK(s) /\ OwnEntries(s)
BY DEF IInv, WritesFollow, AckedAgreement, FollowsOK, AckedOK, OwnEntries

LEMMA AgreementPartsNext ==
    ASSUME \A w \in Worker : FollowsOK(w)', \A s \in Shipment : AckedOK(s)' /\ OwnEntries(s)'
    PROVE  WritesFollow' /\ AckedAgreement'
BY DEF WritesFollow, AckedAgreement, FollowsOK, AckedOK, OwnEntries

\* The latest assignment on record for s was made for one of its messages.
LEMMA LatestType ==
    ASSUME IInv, NEW s \in Shipment, puts[s] # <<>>
    PROVE  Latest(s) \in Assignment /\ Latest(s).msg \in Message /\ ShipmentOf[Latest(s).msg] = s
<1>1. puts[s] \in Seq(Assignment)
  BY DEF IInv, TypeOK
<1>2. Len(puts[s]) \in 1..Len(puts[s])
  BY <1>1
<1>3. Latest(s) \in Assignment
  BY <1>1, <1>2 DEF Latest
<1>4. ShipmentOf[Latest(s).msg] = s
  BY <1>2, AgreementParts DEF OwnEntries, Latest
<1> QED
  BY <1>3, <1>4 DEF Assignment

\* A shipment that is neither written nor told of stays agreed: only an attempt
\* that told of the latest assignment acks its message.
LEMMA AckedKept ==
    ASSUME IInv, [Next]_vars, NEW s \in Shipment,
           puts'[s] = puts[s], told'[s] = told[s]
    PROVE  AckedOK(s)'
<1>1. SUFFICES ASSUME s \notin crossed', puts[s] # <<>>,
                      queue'[Latest(s).msg] = "deleted", Latest(s).msg \notin dropped'
               PROVE  Agreed(s)
  BY DEF AckedOK, Latest, Agreed
<1>2. s \notin crossed /\ Latest(s).msg \notin dropped
  BY <1>1, AcksAndCrossings, LogsGrow
<1>3. Latest(s).msg \in Message /\ ShipmentOf[Latest(s).msg] = s
  BY <1>1, LatestType
<1>4. CASE queue[Latest(s).msg] = "deleted"
  BY <1>1, <1>2, <1>4, AgreementParts DEF AckedOK
<1>5. ASSUME NEW w \in Worker, pc[w] = "delete", Current(w).msg = Latest(s).msg
      PROVE  Agreed(s)
  <2>1. AtWork(w) /\ Id(w) = s
    BY <1>3, <1>5 DEF AtWork, Id
  <2> QED
    BY <1>1, <1>2, <1>5, <2>1, AgreementParts DEF FollowsOK
<1> QED
  BY <1>1, <1>3, <1>4, <1>5, AcksAndCrossings

\* So does a worker that stays where it is, while its shipment is neither
\* written nor told of.
LEMMA FollowsKept ==
    ASSUME IInv, [Next]_vars, NEW w \in Worker,
           AtWork(w)' => Id(w)' \in Shipment,
           pc'[w] \in {"publish", "notify"} =>
              /\ pc[w] \in {"publish", "notify"} /\ batch'[w] = batch[w]
              /\ choice'[w] = choice[w] /\ puts'[Id(w)] = puts[Id(w)],
           pc'[w] = "delete" =>
              \/ Current(w)'.msg \in dropped'
              \/ /\ pc[w] = "delete" /\ batch'[w] = batch[w]
                 /\ puts'[Id(w)] = puts[Id(w)] /\ told'[Id(w)] = told[Id(w)]
    PROVE  FollowsOK(w)'
<1>1. SUFFICES ASSUME AtWork(w)', Id(w)' \notin crossed'
               PROVE  /\ pc'[w] \in {"publish", "notify"} =>
                            puts'[Id(w)'] # <<>> /\ Latest(Id(w))' = Chosen(w)'
                      /\ (/\ pc'[w] = "delete" /\ puts'[Id(w)'] # <<>>
                          /\ Latest(Id(w))'.msg = Current(w)'.msg)
                            => Current(w)'.msg \in dropped' \/ Agreed(Id(w))'
  BY DEF FollowsOK
<1>2. batch'[w] = batch[w] => Current(w)' = Current(w) /\ Id(w)' = Id(w)
  BY DEF Current, Id
<1>3. crossed \subseteq crossed' /\ dropped \subseteq dropped'
  BY AcksAndCrossings, LogsGrow
<1>4. CASE pc'[w] \in {"publish", "notify"}
  <2>1. /\ pc[w] \in {"publish", "notify"} /\ Id(w)' = Id(w) /\ Chosen(w)' = Chosen(w)
        /\ puts'[Id(w)] = puts[Id(w)]
    BY <1>2, <1>4 DEF Chosen
  <2>2. puts[Id(w)] # <<>> /\ Latest(Id(w)) = Chosen(w)
    BY <1>1, <1>3, <2>1, AgreementParts DEF FollowsOK, AtWork
  <2> QED
    BY <1>4, <2>1, <2>2 DEF Latest
<1>5. CASE pc'[w] = "delete" /\ Current(w)'.msg \notin dropped'
  <2>1. /\ pc[w] = "delete" /\ Id(w)' = Id(w) /\ Current(w)' = Current(w)
        /\ puts'[Id(w)] = puts[Id(w)] /\ told'[Id(w)] = told[Id(w)]
    BY <1>2, <1>5
  <2>2. SUFFICES ASSUME puts[Id(w)] # <<>>, Latest(Id(w)).msg = Current(w).msg
                 PROVE  Agreed(Id(w))
    BY <1>5, <2>1 DEF Latest, Agreed
  <2> QED
    BY <1>1, <1>3, <1>5, <2>1, <2>2, AgreementParts DEF FollowsOK, AtWork
<1> QED
  BY <1>1, <1>4, <1>5

\* w writes its assignment to its shipment, and goes on or leaves the message.
LEMMA WriteAgreement ==
    ASSUME IInv, [Next]_vars, NEW w \in Worker, pc[w] = "update",
           PutStatus(w), UNCHANGED told,
           \A v \in Worker \ {w} :
              batch'[v] = batch[v] /\ pc'[v] = pc[v] /\ choice'[v] = choice[v],
           \/ pc'[w] = "publish" /\ batch'[w] = batch[w] /\ choice'[w] = choice[w]
           \/ pc'[w] \in {"lookup", "receive"}
    PROVE  WritesFollow' /\ AckedAgreement'
<1>0. PICK s : s = Id(w)
  OBVIOUS
<1>1. AtWork(w) /\ choice[w] # None
  BY DEF AtWork, IInv, AttemptsOK
<1>2. Chosen(w) \in Assignment /\ s \in Shipment /\ puts[s] \in Seq(Assignment)
  BY <1>0, <1>1, ChosenType, AtWorkType DEF IInv, TypeOK
<1>3. puts'[s] = Append(puts[s], Chosen(w))
  BY <1>0, <1>2 DEF PutStatus, IInv, TypeOK
<1>4. /\ puts'[s] # <<>> /\ Latest(s)' = Chosen(w)
      /\ OwnEntries(s)'
  <2>1. OwnEntries(s) /\ ShipmentOf[Chosen(w).msg] = s
    BY <1>0, <1>2, AgreementParts DEF Chosen, Id
  <2>2. \A k \in 1..Len(puts'[s]) :
          puts'[s][k] = Chosen(w) \/ \E j \in 1..Len(puts[s]) : puts'[s][k] = puts[s][j]
    BY <1>2, <1>3, AppendLast
  <2>3. \A k \in 1..Len(puts'[s]) : ShipmentOf[puts'[s][k].msg] = s
    BY <2>1, <2>2 DEF OwnEntries
  <2>4. puts'[s] # <<>> /\ puts'[s][Len(puts'[s])] = Chosen(w)
    BY <1>2, <1>3, AppendLast
  <2> QED
    BY <2>3, <2>4 DEF OwnEntries, Latest
<1>5. \A x \in Shipment : x # s => puts'[x] = puts[x] /\ told'[x] = told[x]
  BY <1>0 DEF PutStatus, IInv, TypeOK
<1>6. s \notin crossed' => ~Crossing(w)
  BY <1>0 DEF PutStatus
<1>7. ASSUME NEW x \in Shipment
      PROVE  AckedOK(x)' /\ OwnEntries(x)'
  <2>1. CASE x # s
    <3>1. OwnEntries(x)'
      BY <1>5, <2>1, AgreementParts DEF OwnEntries
    <3> QED
      BY <1>5, <2>1, <3>1, AckedKept
  <2>2. CASE x = s
    <3>1. SUFFICES ASSUME x \notin crossed', queue'[Chosen(w).msg] = "deleted"
                   PROVE  FALSE
      BY <1>4, <2>2 DEF AckedOK
    <3>2. Chosen(w).msg = Current(w).msg /\ Chosen(w).msg \in Message
      BY <1>1, AtWorkType DEF Chosen, IInv
    <3>3. queue[Current(w).msg] = "deleted"
          \/ \E v \in Worker : pc[v] = "delete" /\ Current(v).msg = Current(w).msg
      BY <3>1, <3>2, AcksAndCrossings
    <3>4. Crossing(w)
      BY <3>3 DEF Crossing
    <3> QED
      BY <1>6, <2>2, <3>1, <3>4
  <2> QED
    BY <2>1, <2>2
<1>8. ASSUME NEW v \in Worker, v # w
      PROVE  FollowsOK(v)'
  <2>1. /\ batch'[v] = batch[v] /\ pc'[v] = pc[v] /\ choice'[v] = choice[v]
        /\ Id(v)' = Id(v) /\ Current(v)' = Current(v) /\ (AtWork(v)' <=> AtWork(v))
    BY <1>8 DEF Id, Current, AtWork
  <2>2. AtWork(v) => Id(v) \in Shipment
    BY AtWorkType DEF IInv
  <2>3. CASE Id(v) # s
    <3>1. AtWork(v) => puts'[Id(v)] = puts[Id(v)] /\ told'[Id(v)] = told[Id(v)]
      BY <1>5, <2>2, <2>3
    <3> QED
      BY <2>1, <2>2, <3>1, FollowsKept DEF AtWork
  <2>4. CASE Id(v) = s
    <3>1. SUFFICES ASSUME s \notin crossed'
                   PROVE  /\ pc[v] \notin {"publish", "notify"}
                          /\ pc[v] = "delete" => Current(v).msg # Current(w).msg
      BY <1>4, <2>1, <2>4 DEF FollowsOK, Chosen
    <3> QED
      BY <1>0, <1>6, <1>8, <2>4, <3>1 DEF Crossing
  <2> QED
    BY <2>3, <2>4
<1>9. FollowsOK(w)'
  <2>1. CASE pc'[w] = "publish" /\ batch'[w] = batch[w] /\ choice'[w] = choice[w]
    <3>1. Id(w)' = s /\ Chosen(w)' = Chosen(w)
      BY <1>0, <2>1 DEF Id, Chosen, Current
    <3> QED
      BY <1>4, <2>1, <3>1 DEF FollowsOK
  <2>2. CASE pc'[w] \in {"lookup", "receive"}
    BY <2>2 DEF FollowsOK
  <2> QED
    BY <2>1, <2>2
<1> QED
  BY <1>7, <1>8, <1>9, AgreementPartsNext

\* w tells the customer of its assignment, and goes on or leaves the message.
LEMMA TellAgreement ==
    ASSUME IInv, [Next]_vars, NEW w \in Worker, pc[w] = "notify",
           Tell(w), UNCHANGED puts,
           \A v \in Worker \ {w} :
              batch'[v] = batch[v] /\ pc'[v] = pc[v] /\ choice'[v] = choice[v],
           \/ pc'[w] = "delete" /\ batch'[w] = batch[w]
           \/ pc'[w] \in {"lookup", "receive"}
    PROVE  WritesFollow' /\ AckedAgreement'
<1>0. PICK s : s = Id(w)
  OBVIOUS
<1>1. AtWork(w) /\ choice[w] # None
  BY DEF AtWork, IInv, AttemptsOK
<1>2. Chosen(w) \in Assignment /\ s \in Shipment /\ told[s] \in Seq(Assignment)
  BY <1>0, <1>1, ChosenType, AtWorkType DEF IInv, TypeOK
<1>3. told'[s] = Append(told[s], Chosen(w))
  BY <1>0, <1>2 DEF Tell, IInv, TypeOK
<1>4. \A x \in Shipment : x # s => told'[x] = told[x]
  BY <1>0 DEF Tell, IInv, TypeOK
<1>5. s \notin crossed' => Agreed(s)'
  <2>1. s \notin crossed' => puts[s] # <<>> /\ Latest(s) = Chosen(w)
    BY <1>0, <1>1, AgreementParts, AcksAndCrossings DEF FollowsOK
  <2>2. told'[s] # <<>> /\ told'[s][Len(told'[s])] = Chosen(w)
    BY <1>2, <1>3, AppendLast
  <2> QED
    BY <2>1, <2>2 DEF Agreed, Latest
<1>6. ASSUME NEW x \in Shipment
      PROVE  AckedOK(x)' /\ OwnEntries(x)'
  <2>1. OwnEntries(x)'
    BY AgreementParts DEF OwnEntries
  <2>2. CASE x # s
    BY <1>4, <2>1, <2>2, AckedKept
  <2>3. CASE x = s
    BY <1>5, <2>1, <2>3 DEF AckedOK
  <2> QED
    BY <2>2, <2>3
<1>7. ASSUME NEW v \in Worker, v # w
      PROVE  FollowsOK(v)'
  <2>1. /\ batch'[v] = batch[v] /\ pc'[v] = pc[v] /\ choice'[v] = choice[v]
        /\ Id(v)' = Id(v) /\ Current(v)' = Current(v) /\ (AtWork(v)' <=> AtWork(v))
    BY <1>7 DEF Id, Current, AtWork
  <2>2. AtWork(v) => Id(v) \in Shipment
    BY AtWorkType DEF IInv
  <2>3. CASE Id(v) # s \/ pc[v] # "delete"
    <3>1. AtWork(v) /\ pc[v] = "delete" => told'[Id(v)] = told[Id(v)]
      BY <1>4, <2>2, <2>3
    <3> QED
      BY <2>1, <2>2, <3>1, FollowsKept DEF AtWork
  <2>4. CASE Id(v) = s /\ pc[v] = "delete"
    BY <1>5, <2>1, <2>4 DEF FollowsOK
  <2> QED
    BY <2>3, <2>4
<1>8. FollowsOK(w)'
  <2>1. CASE pc'[w] = "delete" /\ batch'[w] = batch[w]
    <3>1. Id(w)' = s
      BY <1>0, <2>1 DEF Id, Current
    <3> QED
      BY <1>5, <2>1, <3>1 DEF FollowsOK
  <2>2. CASE pc'[w] \in {"lookup", "receive"}
    BY <2>2 DEF FollowsOK
  <2> QED
    BY <2>1, <2>2
<1> QED
  BY <1>6, <1>7, <1>8, AgreementPartsNext

LEMMA AgreementStep ==
    ASSUME IInv, TypeOK', [Next]_vars
    PROVE  WritesFollow' /\ AckedAgreement'
<1>1. ASSUME UNCHANGED <<puts, told>>, \A v \in Worker : FollowsOK(v)'
      PROVE  WritesFollow' /\ AckedAgreement'
  <2>1. \A s \in Shipment : AckedOK(s)'
    BY <1>1, AckedKept
  <2>2. \A s \in Shipment : OwnEntries(s)'
    BY <1>1, AgreementParts DEF OwnEntries
  <2> QED
    BY <1>1, <2>1, <2>2, AgreementPartsNext
<1>2. \A v \in Worker : AtWork(v)' => Id(v)' \in Shipment
  <2>1. SUFFICES ASSUME NEW v \in Worker, AtWork(v)' PROVE Id(v)' \in Shipment
    OBVIOUS
  <2>2. batch'[v] \in Seq(Delivery) /\ batch'[v] # <<>>
    BY <2>1 DEF TypeOK
  <2>3. Head(batch'[v]) \in Delivery
    BY <2>2
  <2> QED
    BY <2>3, ShipmentOfAssumption DEF Id, Current, Delivery
<1>3. ASSUME NEW v \in Worker, UNCHANGED <<puts, told>>,
             AtWork(v)' => pc'[v] = pc[v] /\ batch'[v] = batch[v] /\ choice'[v] = choice[v]
      PROVE  FollowsOK(v)'
  <2>1. CASE AtWork(v)'
    BY <1>2, <1>3, <2>1, FollowsKept
  <2>2. CASE ~AtWork(v)'
    BY <2>2 DEF FollowsOK
  <2> QED
    BY <2>1, <2>2
<1>4. CASE Aside
  BY <1>1, <1>3, <1>4 DEF Aside
<1>5. ASSUME NEW w \in Worker, TakeOn(w) \/ Vanish(w)
      PROVE  WritesFollow' /\ AckedAgreement'
  <2>1. \A v \in Worker \ {w} : FollowsOK(v)'
    BY <1>3, <1>5 DEF TakeOn, Vanish
  <2>2. FollowsOK(w)'
    BY <1>5 DEF TakeOn, Vanish, FollowsOK
  <2> QED
    BY <1>1, <1>5, <2>1, <2>2 DEF TakeOn, Vanish
<1>6. ASSUME NEW w \in Worker, Ahead(w)
      PROVE  WritesFollow' /\ AckedAgreement'
  <2>1. /\ batch'[w] = batch[w] /\ Current(w)' = Current(w)
        /\ \A v \in Worker \ {w} :
              batch'[v] = batch[v] /\ pc'[v] = pc[v] /\ choice'[v] = choice[v]
    BY <1>6 DEF Ahead, Alone, Current
  <2>2. CASE pc[w] = "update" /\ pc'[w] = "publish" /\ PutStatus(w) /\ choice'[w] = choice[w]
             /\ UNCHANGED told
    BY <2>1, <2>2, WriteAgreement
  <2>3. CASE pc[w] = "notify" /\ pc'[w] = "delete" /\ Tell(w) /\ UNCHANGED puts
    BY <2>1, <2>3, TellAgreement
  <2>4. ASSUME UNCHANGED <<puts, told>>,
               \/ pc'[w] = "update"
               \/ pc'[w] = "delete" /\ Current(w).msg \in dropped'
               \/ pc[w] = "publish" /\ pc'[w] = "notify" /\ choice'[w] = choice[w]
        PROVE  WritesFollow' /\ AckedAgreement'
    <3>1. FollowsOK(w)'
      <4>1. CASE pc'[w] = "update"
        BY <4>1 DEF FollowsOK
      <4>2. CASE pc'[w] = "delete" /\ Current(w).msg \in dropped'
        BY <2>1, <4>2 DEF FollowsOK
      <4>3. CASE pc[w] = "publish" /\ pc'[w] = "notify" /\ choice'[w] = choice[w]
        BY <1>2, <2>1, <2>4, <4>3, FollowsKept
      <4> QED
        BY <2>4, <4>1, <4>2, <4>3
    <3>2. \A v \in Worker \ {w} : FollowsOK(v)'
      BY <1>3, <2>1, <2>4
    <3> QED
      BY <1>1, <2>4, <3>1, <3>2
  <2> QED
    BY <1>6, <2>2, <2>3, <2>4 DEF Ahead
<1>7. ASSUME NEW w \in Worker, Onward(w)
      PROVE  WritesFollow' /\ AckedAgreement'
  <2>1. /\ pc'[w] \in {"lookup", "receive"}
        /\ \A v \in Worker \ {w} :
              batch'[v] = batch[v] /\ pc'[v] = pc[v] /\ choice'[v] = choice[v]
    BY <1>7 DEF Onward, Alone
  <2>2. CASE pc[w] = "update" /\ PutStatus(w) /\ UNCHANGED told
    BY <2>1, <2>2, WriteAgreement
  <2>3. CASE pc[w] = "notify" /\ Tell(w) /\ UNCHANGED puts
    BY <2>1, <2>3, TellAgreement
  <2>4. CASE UNCHANGED <<puts, told>>
    <3>1. FollowsOK(w)'
      BY <2>1 DEF FollowsOK
    <3>2. \A v \in Worker \ {w} : FollowsOK(v)'
      BY <1>3, <2>1, <2>4
    <3> QED
      BY <1>1, <2>4, <3>1, <3>2
  <2> QED
    BY <1>7, <2>2, <2>3, <2>4 DEF Onward
<1> QED
  BY <1>4, <1>5, <1>6, <1>7, StepKinds

-----------------------------------------------------------------------------
(* The invariant.                                                          *)

LEMMA InvInit == Init => IInv
<1> SUFFICES ASSUME Init PROVE IInv
  OBVIOUS
<1>1. /\ \A s \in Shipment : puts[s] = <<>> /\ told[s] = <<>>
      /\ \A w \in Worker : batch[w] = <<>> /\ pc[w] = "down"
      /\ \A m \in Message : queue[m] = "unsent" /\ receives[m] = 0 /\ answer[m] = "none"
  BY DEF Init
<1>2. Recorded = {} /\ Announced = {}
  BY <1>1 DEF Recorded, Announced, Elements
<1>3. QueueOK /\ AttemptsOK /\ AnnouncedWerePut
  BY <1>1, <1>2 DEF QueueOK, AttemptsOK, AnnouncedWerePut
<1>4. DeliveriesOK
  BY <1>1, <1>2 DEF DeliveriesOK
<1>5. OncePerDelivery
  BY <1>1 DEF OncePerDelivery
<1>6. WritesFollow /\ AckedAgreement
  BY <1>1 DEF WritesFollow, AckedAgreement, AtWork
<1> QED
  BY <1>3, <1>4, <1>5, <1>6, TypeInit DEF IInv

LEMMA InvStep ==
    ASSUME IInv, [Next]_vars
    PROVE  IInv'
<1>1. TypeOK'
  BY TypeStep
<1>2. QueueOK' /\ AttemptsOK' /\ AnnouncedWerePut'
  BY QueueStep, AttemptsStep
<1>3. DeliveriesOK' /\ OncePerDelivery'
  BY <1>1, DeliveriesStep, OnceStep
<1>4. WritesFollow' /\ AckedAgreement'
  BY <1>1, AgreementStep
<1> QED
  BY <1>1, <1>2, <1>3, <1>4 DEF IInv

(* The invariant holds in every reachable state.                           *)
THEOREM Invariance == Spec => []IInv
BY InvInit, InvStep, PTL DEF Spec

(* Every state has the types of TypeOK, and a loop is at work exactly when *)
(* it has a delivery in hand (run, process).                               *)
THEOREM TypeCorrect == Spec => []TypeOK
<1>1. IInv => TypeOK
  BY DEF IInv
<1> QED
  BY <1>1, Invariance, PTL

(* An accepted message is in the queue or with the dead letters until the  *)
(* customer was told or the shipment was found unknown.                    *)
THEOREM NeverLost == Spec => []AcceptedNotLost
<1>1. IInv => AcceptedNotLost
  BY DEF IInv, TypeOK, QueueOK, Settled, AcceptedNotLost, InQueue
<1> QED
  BY <1>1, Invariance, PTL

(* The customer only hears of assignments that were put on record before:  *)
(* process updates the shipment before it notifies.  What becomes of them  *)
(* in the document is IntakeProofs!ToldOnRecord.                           *)
THEOREM PutFirst == Spec => []AnnouncedWerePut
<1>1. IInv => AnnouncedWerePut
  BY DEF IInv
<1> QED
  BY <1>1, Invariance, PTL

(* One delivery makes at most one Put of an event and tells the customer   *)
(* at most once, however the deliveries of pods interleave.                *)
THEOREM OnceEach == Spec => []OncePerDelivery
<1>1. IInv => OncePerDelivery
  BY DEF IInv
<1> QED
  BY <1>1, Invariance, PTL

(* Once the message of the last assignment on record is acked as done, the *)
(* customer heard of that assignment last, unless a write to the shipment  *)
(* crossed another attempt: retries repair what failed halfway.            *)
THEOREM RecordAndCustomerAgree == Spec => []AckedAgreement
<1>1. IInv => AckedAgreement
  BY DEF IInv
<1> QED
  BY <1>1, Invariance, PTL

\* The places of the message m in a log of assignments.
Entries(log, m) == {k \in 1..Len(log) : log[k].msg = m}

\* Entries of a message made in different deliveries are no more than those.
LEMMA EntriesBounded ==
    ASSUME NEW log \in Seq(Assignment), NEW m \in Message, NEW n \in Nat,
           \A i, j \in 1..Len(log) : MadeIn(log[i], log[j]) => i = j,
           \A k \in Entries(log, m) : log[k].try <= n
    PROVE  Cardinality(Entries(log, m)) <= n
<1> DEFINE E == Entries(log, m)
           f == [k \in E |-> log[k].try]
<1>1. \A k \in E : k \in 1..Len(log) /\ log[k].msg = m /\ log[k].try \in 1..n
  <2> SUFFICES ASSUME NEW k \in E
               PROVE  k \in 1..Len(log) /\ log[k].msg = m /\ log[k].try \in 1..n
    OBVIOUS
  <2>1. k \in 1..Len(log) /\ log[k].msg = m
    BY DEF Entries
  <2>2. log[k] \in Assignment /\ log[k].try <= n
    BY <2>1
  <2>3. log[k].try \in 1..MaxReceive /\ MaxReceive \in Nat
    BY <2>2, BoundAssumption DEF Assignment
  <2> QED BY <2>1, <2>2, <2>3
<1>2. f \in [E -> 1..n]
  BY <1>1
<1>3. \A i, j \in E : f[i] = f[j] => i = j
  BY <1>1 DEF MadeIn
<1>4. f \in Injection(E, 1..n)
  BY <1>2, <1>3, Zenon DEF Injection, IsInjective
<1>5. IsFiniteSet(1..n) /\ Cardinality(1..n) = n
  BY FS_Interval
<1> HIDE DEF E, f
<1>6. Cardinality(E) <= Cardinality(1..n)
  BY <1>4, <1>5, FS_Injection
<1> QED BY <1>5, <1>6 DEF E

(* A shipment has no more events of a message, and its customer hears no   *)
(* more often of it, than the queue handed the message out, and that is at *)
(* most MaxReceive times: what redeliveries can multiply, and how far.     *)
THEOREM NoMoreThanDeliveries ==
    Spec => [](\A s \in Shipment, m \in Message :
                   /\ Cardinality(Entries(puts[s], m)) <= receives[m]
                   /\ Cardinality(Entries(told[s], m)) <= receives[m]
                   /\ receives[m] <= MaxReceive)
<1>1. IInv => \A s \in Shipment, m \in Message :
                  /\ Cardinality(Entries(puts[s], m)) <= receives[m]
                  /\ Cardinality(Entries(told[s], m)) <= receives[m]
                  /\ receives[m] <= MaxReceive
  <2> SUFFICES ASSUME IInv, NEW s \in Shipment, NEW m \in Message
               PROVE  /\ Cardinality(Entries(puts[s], m)) <= receives[m]
                      /\ Cardinality(Entries(told[s], m)) <= receives[m]
                      /\ receives[m] <= MaxReceive
    OBVIOUS
  <2>1. receives[m] \in 0..MaxReceive /\ MaxReceive \in Nat
    BY BoundAssumption DEF IInv, TypeOK
  <2>2. puts[s] \in Seq(Assignment) /\ told[s] \in Seq(Assignment)
    BY DEF IInv, TypeOK
  <2>3. \A log \in {puts[s], told[s]} :
           /\ \A i, j \in 1..Len(log) : MadeIn(log[i], log[j]) => i = j
           /\ \A k \in Entries(log, m) : log[k].try <= receives[m]
    <3>1. \A log \in {puts[s], told[s]} : \A k \in 1..Len(log) :
             log[k].try <= receives[log[k].msg]
      BY DEF IInv, DeliveriesOK, Recorded, Announced, Elements
    <3>2. \A log \in {puts[s], told[s]} :
             \A k \in Entries(log, m) : k \in 1..Len(log) /\ log[k].msg = m
      BY DEF Entries
    <3>3. \A log \in {puts[s], told[s]} :
             \A i, j \in 1..Len(log) : MadeIn(log[i], log[j]) => i = j
      BY DEF IInv, OncePerDelivery
    <3> QED BY <3>1, <3>2, <3>3, Zenon
  <2>4. ASSUME NEW log \in {puts[s], told[s]}
        PROVE  Cardinality(Entries(log, m)) <= receives[m]
    <3>1. log \in Seq(Assignment) /\ receives[m] \in Nat
      BY <2>1, <2>2
    <3> QED BY <2>3, <3>1, EntriesBounded
  <2> QED BY <2>1, <2>4
<1> QED
  BY <1>1, Invariance, PTL

-----------------------------------------------------------------------------
(* The promise of DispatchPromise is kept.                                 *)

Owed == {m \in Message : InQueue(m)}
OnRecord == {a.msg : a \in Recorded}
Told == {a.msg : a \in Announced}
Dead == {m \in Message : queue[m] = "dlq"}

promiseVars == <<Owed, OnRecord, Told, dropped, Dead>>

\* What the actions of DispatchPromise are in these terms.
LEMMA PromiseActions ==
    ASSUME NEW m \in Message
    PROVE  /\ m \notin Owed /\ Owed' = Owed \cup {m} /\ UNCHANGED <<OnRecord, Told, dropped, Dead>>
                => Promise!Accept(m)
           /\ OnRecord' = OnRecord \cup {m} /\ UNCHANGED <<Owed, Told, dropped, Dead>>
                => Promise!Record(m)
           /\ m \in OnRecord /\ Told' = Told \cup {m} /\ UNCHANGED <<Owed, OnRecord, dropped, Dead>>
                => Promise!Tell(m)
           /\ dropped' = dropped \cup {m} /\ UNCHANGED <<Owed, OnRecord, Told, Dead>>
                => Promise!FindUnknown(m)
           /\ m \in Owed /\ m \in Told \cup dropped /\ Owed' = Owed \ {m}
              /\ UNCHANGED <<OnRecord, Told, dropped, Dead>>
                => Promise!Finish(m)
           /\ m \in Owed /\ Owed' = Owed \ {m} /\ Dead' = Dead \cup {m}
              /\ UNCHANGED <<OnRecord, Told, dropped>>
                => Promise!GiveUp({m})
           /\ (\/ Promise!Accept(m) \/ Promise!Record(m) \/ Promise!Tell(m)
               \/ Promise!FindUnknown(m) \/ Promise!Finish(m)
               \/ Promise!GiveUp({m}))
                => Promise!Next
BY DEF Owed, OnRecord, Told, Dead, Promise!Accept, Promise!Record, Promise!Tell,
       Promise!FindUnknown, Promise!Finish, Promise!GiveUp, Promise!Next

LEMMA PromiseStutters == UNCHANGED promiseVars => UNCHANGED Promise!vars
BY DEF promiseVars, Owed, OnRecord, Told, Dead, Promise!vars

LEMMA QueueKept == queue' = queue => UNCHANGED <<Owed, Dead>>
BY DEF Owed, Dead, InQueue

LEMMA LogsKept == /\ UNCHANGED puts => UNCHANGED OnRecord
                  /\ UNCHANGED told => UNCHANGED Told
BY DEF OnRecord, Told, Recorded, Announced

LEMMA HandOutKept ==
    ASSUME IInv, NEW s \in Receivable, HandOut(s)
    PROVE  UNCHANGED <<Owed, Dead>>
<1>1. \A m \in Message : \/ queue'[m] = queue[m]
                         \/ queue[m] = "visible" /\ queue'[m] = "inflight"
  BY HandOutQueue DEF IInv
<1> QED
  BY <1>1 DEF Owed, Dead, InQueue

\* The update of a worker records its message, its notification tells of it.
LEMMA WriteKept ==
    ASSUME IInv, NEW w \in Worker, AtWork(w), choice[w] # None
    PROVE  /\ Current(w).msg \in Message
           /\ PutStatus(w) => OnRecord' = OnRecord \cup {Current(w).msg}
           /\ Tell(w) => Told' = Told \cup {Current(w).msg}
<1>1. Chosen(w).msg = Current(w).msg /\ Current(w).msg \in Message
  BY AtWorkType DEF Chosen, IInv
<1>2. PutStatus(w) => Recorded' = Recorded \cup {Chosen(w)}
  BY WriteRecords DEF IInv
<1>3. Tell(w) => Announced' = Announced \cup {Chosen(w)}
  BY TellAnnounces DEF IInv
<1> QED
  BY <1>1, <1>2, <1>3 DEF OnRecord, Told

LEMMA PromiseInit == Init => Promise!Init
<1> SUFFICES ASSUME Init PROVE Promise!Init
  OBVIOUS
<1>1. \A m \in Message : ~InQueue(m) /\ queue[m] # "dlq"
  BY DEF Init, InQueue
<1>2. Recorded = {} /\ Announced = {} /\ dropped = {}
  BY DEF Init, Recorded, Announced, Elements
<1> QED
  BY <1>1, <1>2 DEF Promise!Init

LEMMA PromiseStep ==
    ASSUME IInv, [Next]_vars
    PROVE  [Promise!Next]_Promise!vars
<1> DEFINE Kept == UNCHANGED Promise!vars \/ Promise!Next
<1>1. ASSUME NEW m \in Message, Dispatch(m) \/ DispatchFails(m)
      PROVE  Kept
  <2>1. queue[m] = "unsent"
    BY <1>1 DEF Dispatch, DispatchFails, IInv, QueueOK
  <2>2. UNCHANGED <<OnRecord, Told, dropped>>
    BY <1>1, LogsKept DEF Dispatch, DispatchFails, shipmentVars, outVars
  <2>3. CASE UNCHANGED queue
    BY <2>2, <2>3, QueueKept, PromiseStutters DEF promiseVars
  <2>4. CASE Enqueue(m)
    <3>1. queue'[m] = "visible" /\ \A k \in Message \ {m} : queue'[k] = queue[k]
      BY <2>4 DEF Enqueue, IInv, TypeOK
    <3>2. m \notin Owed /\ Owed' = Owed \cup {m} /\ Dead' = Dead
      BY <2>1, <3>1 DEF Owed, Dead, InQueue
    <3> QED
      BY <2>2, <3>2, PromiseActions
  <2> QED
    BY <1>1, <2>3, <2>4 DEF Dispatch, DispatchFails
<1>2. ASSUME NEW m \in Message, VisibilityTimeout(m)
      PROVE  Kept
  <2>1. /\ queue[m] = "inflight" /\ queue'[m] \in {"visible", "dlq"}
        /\ \A k \in Message \ {m} : queue'[k] = queue[k]
    BY <1>2 DEF VisibilityTimeout, IInv, TypeOK
  <2>2. UNCHANGED <<OnRecord, Told, dropped>>
    BY <1>2, LogsKept DEF VisibilityTimeout, shipmentVars, outVars
  <2>3. CASE queue'[m] = "visible"
    <3>1. UNCHANGED <<Owed, Dead>>
      BY <2>1, <2>3 DEF Owed, Dead, InQueue
    <3> QED
      BY <2>2, <3>1, PromiseStutters DEF promiseVars
  <2>4. CASE queue'[m] = "dlq"
    <3>1. m \in Owed /\ Owed' = Owed \ {m} /\ Dead' = Dead \cup {m}
      BY <2>1, <2>4 DEF Owed, Dead, InQueue
    <3> QED
      BY <2>2, <3>1, PromiseActions
  <2> QED
    BY <2>1, <2>3, <2>4
<1>3. ASSUME UNCHANGED <<puts, told, dropped>>,
             UNCHANGED queue \/ \E s \in Receivable : HandOut(s)
      PROVE  Kept
  <2>1. UNCHANGED <<Owed, Dead>>
    BY <1>3, QueueKept, HandOutKept
  <2> QED
    BY <1>3, <2>1, LogsKept, PromiseStutters DEF promiseVars
<1>4. ASSUME NEW w \in Worker, LookupUnknown(w) \/ UpdateUnknown(w)
      PROVE  Kept
  <2>1. AtWork(w) /\ Drop(w)
    BY <1>4 DEF LookupUnknown, UpdateUnknown, AtWork
  <2>2. /\ dropped' = dropped \cup {Current(w).msg}
        /\ UNCHANGED <<queue, puts, told>>
    BY <2>1 DEF Drop, queueVars, shipmentVars
  <2>3. Current(w).msg \in Message
    BY <2>1, AtWorkType DEF IInv
  <2> QED
    BY <2>2, <2>3, QueueKept, LogsKept, PromiseActions
<1>5. ASSUME NEW w \in Worker, UpdateOk(w) \/ UpdateFails(w)
      PROVE  Kept
  <2>1. AtWork(w) /\ choice[w] # None
    BY <1>5 DEF UpdateOk, UpdateFails, AtWork, IInv, AttemptsOK
  <2>2. UNCHANGED <<queue, told, dropped>>
    BY <1>5 DEF UpdateOk, UpdateFails, Leave, queueVars, outVars
  <2>3. CASE UNCHANGED puts
    BY <1>3, <2>2, <2>3
  <2>4. CASE PutStatus(w)
    BY <2>1, <2>2, <2>4, WriteKept, QueueKept, LogsKept, PromiseActions
  <2> QED
    BY <1>5, <2>3, <2>4 DEF UpdateOk, UpdateFails, shipmentVars
<1>6. ASSUME NEW w \in Worker, NotifyOk(w) \/ NotifyFails(w)
      PROVE  Kept
  <2>1. AtWork(w) /\ choice[w] # None /\ Chosen(w) \in Recorded
    BY <1>6 DEF NotifyOk, NotifyFails, AtWork, IInv, AttemptsOK
  <2>2. UNCHANGED <<queue, puts, dropped>>
    BY <1>6 DEF NotifyOk, NotifyFails, Leave, queueVars, shipmentVars
  <2>3. CASE UNCHANGED told
    BY <1>3, <2>2, <2>3
  <2>4. CASE Tell(w)
    <3>1. Current(w).msg \in OnRecord
      BY <2>1 DEF OnRecord, Chosen
    <3> QED
      BY <2>1, <2>2, <2>4, <3>1, WriteKept, QueueKept, LogsKept, PromiseActions
  <2> QED
    BY <1>6, <2>3, <2>4 DEF NotifyOk, NotifyFails
<1>7. ASSUME NEW w \in Worker, Delete(w)
      PROVE  Kept
  <2> DEFINE m == Current(w).msg
  <2>1. AtWork(w) /\ Settled(m) /\ m \in Message
    BY <1>7, AtWorkType DEF Delete, AtWork, IInv, AttemptsOK
  <2>2. UNCHANGED <<puts, told, dropped>>
    BY <1>7 DEF Delete, shipmentVars, outVars
  <2>3. CASE UNCHANGED queue
    BY <1>3, <2>2, <2>3
  <2>4. CASE InQueue(m) /\ queue' = [queue EXCEPT ![m] = "deleted"]
    <3>1. queue'[m] = "deleted" /\ \A k \in Message \ {m} : queue'[k] = queue[k]
      BY <2>1, <2>4 DEF IInv, TypeOK
    <3>2. m \in Owed /\ Owed' = Owed \ {m} /\ Dead' = Dead
      BY <2>1, <2>4, <3>1 DEF Owed, Dead, InQueue
    <3>3. m \in Told \cup dropped
      BY <2>1 DEF Settled, ToldAbout, Told
    <3> QED
      BY <2>1, <2>2, <3>2, <3>3, LogsKept, PromiseActions
  <2>5. \/ UNCHANGED queue
        \/ InQueue(m) /\ queue' = [queue EXCEPT ![m] = "deleted"]
    <3>1. queue \in [Message -> {"unsent", "visible", "inflight", "deleted", "dlq"}]
      BY DEF IInv, TypeOK
    <3>2. \/ UNCHANGED queue
          \/ queue' = [queue EXCEPT ![m] = IF InQueue(m) THEN "deleted" ELSE @]
      BY <1>7 DEF Delete
    <3>3. queue = [queue EXCEPT ![m] = queue[m]]
      BY <2>1, <3>1
    <3> QED
      BY <3>2, <3>3
  <2> QED
    BY <2>3, <2>4, <2>5
<1>8. ASSUME NEW w \in Worker, NEW s \in Receivable, Receive(w, s)
      PROVE  Kept
  BY <1>3, <1>8 DEF Receive, shipmentVars, outVars
<1>9. ASSUME NEW w \in Worker, ReceiveFails(w)
      PROVE  Kept
  BY <1>3, <1>9 DEF ReceiveFails, shipmentVars, outVars
<1>10. ASSUME NEW m \in Message, DispatchMalformed(m)
       PROVE  Kept
  BY <1>3, <1>10 DEF DispatchMalformed, shipmentVars, outVars
<1>11. ASSUME NEW w \in Worker,
              \/ BackedOff(w) \/ Start(w) \/ Terminate(w) \/ Exit(w) \/ Crash(w)
              \/ LookupFound(w) \/ LookupFails(w) \/ Publish(w)
       PROVE  Kept
  BY <1>3, <1>11
     DEF BackedOff, Start, Terminate, Exit, Crash, Gone, LookupFound, LookupFails, Leave,
         Publish, queueVars, shipmentVars, outVars
<1>12. ASSUME NEW s \in Shipment, CatchUp(s)
       PROVE  Kept
  BY <1>3, <1>12 DEF CatchUp, queueVars, outVars
<1>13. CASE UNCHANGED vars
  BY <1>3, <1>13 DEF vars, queueVars, shipmentVars, outVars
<1> HIDE DEF Kept
<1>14. ASSUME NEW w \in Worker, LoopStep(w)
       PROVE  Kept
  BY <1>4, <1>5, <1>6, <1>7, <1>9, <1>11, <1>14 DEF LoopStep, WorkStep
<1>15. ASSUME Next PROVE Kept
  BY <1>1, <1>2, <1>8, <1>10, <1>11, <1>12, <1>14, <1>15 DEF Next
<1> QED
  BY <1>13, <1>15 DEF Kept

(* The loop, the queue and the redeliveries implement DispatchPromise:     *)
(* every message taken on stays owed until it is told about, found unknown *)
(* or given up to the dead letters, and nothing is told before it is on    *)
(* record.                                                                 *)
THEOREM PromiseKept == Spec => KeepsPromise
BY Invariance, PromiseInit, PromiseStep, PTL DEF Spec, KeepsPromise, Promise!Spec

=============================================================================

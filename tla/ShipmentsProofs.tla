--------------------------- MODULE ShipmentsProofs ---------------------------
(***************************************************************************)
(* Proofs about Shipments, for any set of replicas, requests, ids, samples *)
(* and updates, and for both kinds of read.                                *)
(***************************************************************************)
EXTENDS Shipments, TLAPS

-----------------------------------------------------------------------------
(* Lemmas about the documents.                                             *)

LEMMA FreshShipment ==
    ASSUME NEW q \in Request
    PROVE  Fresh(q) \in Shipment /\ Fresh(q).place = q
BY DEF Fresh, Shipment, Event, Actor, Status

LEMMA UpdatedShipment ==
    ASSUME NEW sh \in Shipment, NEW q \in Request, NEW u \in Update
    PROVE  Updated(sh, q, u) \in Shipment /\ Updated(sh, q, u).place = q
<1>1. u.status \in Status /\ u.carrier \in Carrier \cup {None}
  BY UpdateAssumption DEF UpdateBody
<1>2. sh.timeline \in Seq(Event) /\ [status |-> u.status, by |-> q] \in Event
  BY <1>1 DEF Shipment, Event, Actor
<1>3. Append(sh.timeline, [status |-> u.status, by |-> q]) \in Seq(Event)
  BY <1>2
<1> QED
  BY <1>1, <1>3 DEF Updated, Shipment, Actor

LEMMA SampleShipment ==
    ASSUME NEW r \in Replica, NEW i \in 1..Len(SampleData)
    PROVE  /\ SampleData[i].id \in Id
           /\ Sample(i, r) \in Shipment
           /\ Sample(i, r).place = r
<1> DEFINE st == SampleData[i].stages
<1>1. SampleData[i] \in SampleRecord
  BY SampleAssumption
<1>2. SampleData[i].id \in Id /\ SampleData[i].carrier \in Carrier /\ st \in Seq(Status)
  BY <1>1 DEF SampleRecord
<1>3. st # <<>>
  BY SampleAssumption
<1>4. Len(st) \in 1..Len(st) /\ st[Len(st)] \in Status
  BY <1>2, <1>3
<1>5. [k \in 1..Len(st) |-> [status |-> st[k], by |-> r]] \in Seq(Event)
  BY <1>2 DEF Event, Actor
<1> QED
  BY <1>2, <1>4, <1>5 DEF Sample, Shipment, Actor

-----------------------------------------------------------------------------
(* Types, and what the control state says of the other variables.          *)

TypeInv == TypeOK /\ ControlOK

LEMMA AnswersType ==
    ASSUME TypeOK, NEW id \in Id, NEW d \in Answers(id)
    PROVE  d \in Shipment \cup {None} /\ (d = kv[id] \/ (~ConsistentRead /\ d = lag[id]))
BY DEF TypeOK, Answers

LEMMA TypeInit == Init => TypeInv
BY AttemptsAssumption, ActorsAssumption, SampleAssumption
   DEF Init, TypeInv, TypeOK, ControlOK, Acked, HandlerStates, Actor

LEMMA ReceiveType ==
    ASSUME TypeInv, NEW q \in Request, ReceiveAny(q)
    PROVE  TypeInv'
<1> USE ActorsAssumption DEF TypeInv, TypeOK, ControlOK, Acked, HandlerStates, Actor
<1>1. PICK r \in Replica :
        \/ ReceiveCreate(q, r)
        \/ \E id \in Id : ReceiveGet(q, r, id)
        \/ \E id \in Id : \E u \in Update : ReceiveUpdate(q, r, id, u)
        \/ ReceiveMalformed(q, r)
  BY DEF ReceiveAny
<1>2. CASE ReceiveCreate(q, r)
  BY <1>2 DEF ReceiveCreate, Receive, Host
<1>3. CASE \E id \in Id : ReceiveGet(q, r, id)
  BY <1>3 DEF ReceiveGet, Receive, Host
<1>4. CASE \E id \in Id : \E u \in Update : ReceiveUpdate(q, r, id, u)
  BY <1>4, NoneAssumption, UpdateAssumption DEF ReceiveUpdate, Receive, Host
<1>5. CASE ReceiveMalformed(q, r)
  BY <1>5 DEF ReceiveMalformed, Receive
<1> QED
  BY <1>1, <1>2, <1>3, <1>4, <1>5

(* Every way a handler answers.                                            *)
LEMMA AnswerType ==
    ASSUME TypeInv, NEW q \in Request, Handling(q),
           NEW c \in {"200", "201", "404", "502"}, Answer(q, c),
           pc[q] = "newid" => c = "502",
           kv' \in [Id -> Shipment \cup {None}], UNCHANGED lag,
           overlap' \in [Request -> SUBSET Actor],
           settling' \subseteq settling \cup {q},
           q \in settling' => Acked(q)'
    PROVE  TypeInv'
<1> USE ActorsAssumption, NoneAssumption, AttemptsAssumption DEF Handling, HandlerStates
<1>1. q \in Actor /\ pc[q] # "idle" /\ code[q] = "none"
  BY DEF TypeInv, ControlOK, Actor
<1>2. TypeOK'
  <2>1. pc' \in [Actor -> HandlerStates \cup {"idle", "done"}
                           \cup {"down", "seed", "serving", "draining"}]
    BY <1>1 DEF TypeInv, TypeOK, Answer
  <2>2. /\ \A r \in Replica : pc'[r] \in {"down", "seed", "save", "serving", "draining"}
        /\ \A p \in Request : pc'[p] \in HandlerStates \cup {"idle", "done"}
    BY <1>1 DEF TypeInv, TypeOK, Answer, Actor
  <2>3. /\ at' \in [Actor -> Id \cup {None}]
        /\ doc' \in [Actor -> Shipment \cup {None}]
        /\ upd' \in [Request -> Update \cup {None}]
        /\ tries' \in [Request -> 0..(MaxAttempts - 1)]
        /\ host' \in [Request -> Replica \cup {None}]
        /\ nxt' \in [Replica -> 1..(Len(SampleData) + 1)]
    <3>1. /\ at' \in [Actor -> Id \cup {None}]
          /\ upd' \in [Request -> Update \cup {None}]
          /\ nxt' \in [Replica -> 1..(Len(SampleData) + 1)]
      BY DEF TypeInv, TypeOK, Answer
    <3>2. doc' \in [Actor -> Shipment \cup {None}]
      BY DEF TypeInv, TypeOK, Answer
    <3>3. tries' \in [Request -> 0..(MaxAttempts - 1)]
      BY 0 \in 0..(MaxAttempts - 1) DEF TypeInv, TypeOK, Answer
    <3>4. host' \in [Request -> Replica \cup {None}]
      BY DEF TypeInv, TypeOK, Answer
    <3> QED
      BY <3>1, <3>2, <3>3, <3>4
  <2>4. code' \in [Request -> {"none", "200", "201", "400", "404", "502", "gone"}]
    <3>1. c \in {"none", "200", "201", "400", "404", "502", "gone"}
      OBVIOUS
    <3>2. code \in [Request -> {"none", "200", "201", "400", "404", "502", "gone"}]
      BY DEF TypeInv, TypeOK
    <3>3. code' = [code EXCEPT ![q] = c]
      BY DEF Answer
    <3> QED
      BY <3>1, <3>2, <3>3
  <2>5. settling' \subseteq Request /\ lag' \in [Id -> Shipment \cup {None}]
    BY DEF TypeInv, TypeOK
  <2> QED
    BY <2>1, <2>2, <2>3, <2>4, <2>5 DEF TypeOK
<1>3. ControlOK'
  <2>1. ASSUME NEW p \in Request
        PROVE  (/\ code[p] # "none" => pc[p] = "done"
                /\ pc[p] = "done" => code[p] # "none"
                /\ pc[p] \in {"read", "get", "save"} \/ Acked(p) => at[p] \in Id
                /\ pc[p] = "read" => upd[p] # None
                /\ pc[p] \in {"idle", "newid", "get"} => upd[p] = None
                /\ pc[p] = "save" /\ upd[p] = None => doc[p] = Fresh(p))'
    <3>1. CASE p = q
      BY <1>1, <3>1 DEF TypeInv, TypeOK, ControlOK, Answer, Acked, Actor
    <3>2. CASE p # q
      BY <1>1, <3>2 DEF TypeInv, TypeOK, ControlOK, Answer, Acked, Actor, Fresh
    <3> QED
      BY <3>1, <3>2
  <2>2. ASSUME NEW a \in Actor, pc'[a] = "save"
        PROVE  doc'[a] \in Shipment /\ doc'[a].place = a
    BY <2>2, <1>1 DEF TypeInv, TypeOK, ControlOK, Answer
  <2>3. ASSUME NEW r \in Replica, pc'[r] = "save"
        PROVE  nxt'[r] <= Len(SampleData) /\ at'[r] = SampleData[nxt'[r]].id
    BY <2>3, <1>1 DEF TypeInv, TypeOK, ControlOK, Answer, Actor
  <2>4. ASSUME NEW p \in settling'
        PROVE  Acked(p)'
    BY <2>4, <1>1 DEF TypeInv, TypeOK, ControlOK, Answer, Acked
  <2> QED
    BY <2>1, <2>2, <2>3, <2>4 DEF ControlOK
<1> QED
  BY <1>2, <1>3 DEF TypeInv

LEMMA PutType ==
    ASSUME TypeInv, NEW w \in Actor, PutFails(w)
    PROVE  kv' \in [Id -> Shipment \cup {None}]
BY DEF TypeInv, TypeOK, PutFails, Put

LEMMA RefuseType ==
    ASSUME TypeInv, NEW q \in Request, Handling(q), NEW c \in {"200", "404", "502"},
           pc[q] = "newid" => c = "502",
           kv' \in [Id -> Shipment \cup {None}], UNCHANGED lag, Refuse(q, c)
    PROVE  TypeInv'
<1>1. code[q] = "none"
  BY DEF TypeInv, ControlOK, Handling, HandlerStates
<1>2. q \notin settling
  BY <1>1 DEF TypeInv, ControlOK, Acked
<1>3. Answer(q, c) /\ UNCHANGED <<overlap, settling>>
  BY DEF Refuse
<1>4. overlap' \in [Request -> SUBSET Actor]
  BY <1>3 DEF TypeInv, TypeOK
<1> QED
  BY <1>2, <1>3, <1>4, AnswerType

LEMMA HandlerType ==
    ASSUME TypeInv, NEW q \in Request, HandlerStep(q)
    PROVE  TypeInv'
<1>0. q \in Actor /\ kv \in [Id -> Shipment \cup {None}]
  BY DEF Actor, TypeInv, TypeOK
<1>1. ASSUME NEW id \in Id, DrawTaken(q, id)
      PROVE  TypeInv'
  BY <1>1, AttemptsAssumption
     DEF DrawTaken, TypeInv, TypeOK, ControlOK, Acked, HandlerStates, Actor
<1>2. ASSUME NEW id \in Id, GiveUp(q, id)
      PROVE  TypeInv'
  BY <1>0, <1>2, RefuseType DEF GiveUp, Handling, HandlerStates
<1>3. ASSUME NEW id \in Id, DrawFree(q, id)
      PROVE  TypeInv'
  BY <1>3, FreshShipment, ActorsAssumption, NoneAssumption
     DEF DrawFree, OpenWrite, handlerVars, TypeInv, TypeOK, ControlOK, Acked,
         HandlerStates, Actor
<1>4. CASE UpdateRead(q)
  <2>1. PICK d \in Answers(at[q]) \ {None} : OpenWrite(q, at[q], d, Updated(d, q, upd[q]))
    BY <1>4 DEF UpdateRead
  <2>2. at[q] \in Id /\ upd[q] \in Update /\ d \in Shipment
    BY <1>4, <2>1, AnswersType DEF UpdateRead, TypeInv, TypeOK, ControlOK
  <2>3. Updated(d, q, upd[q]) \in Shipment /\ Updated(d, q, upd[q]).place = q
    BY <2>2, UpdatedShipment
  <2> QED
    BY <1>4, <2>1, <2>2, <2>3, ActorsAssumption, NoneAssumption
       DEF UpdateRead, OpenWrite, handlerVars, TypeInv, TypeOK, ControlOK, Acked,
           HandlerStates, Actor
<1>5. CASE GetFound(q)
  BY <1>0, <1>5, RefuseType DEF GetFound, Handling, HandlerStates
<1>6. CASE NotFound(q)
  BY <1>0, <1>6, RefuseType DEF NotFound, Handling, HandlerStates
<1>7. CASE ReadFails(q)
  BY <1>0, <1>7, RefuseType DEF ReadFails, Handling, HandlerStates
<1>8. CASE SaveOk(q)
  <2>1. kv' \in [Id -> Shipment \cup {None}]
    BY <1>0, <1>8, PutType DEF SaveOk, PutFails
  <2>2. overlap' \in [Request -> SUBSET Actor]
    BY <1>8 DEF SaveOk, TypeInv, TypeOK
  <2>3. Acked(q)'
    BY <1>8 DEF SaveOk, Answer, Acked, TypeInv, TypeOK
  <2> QED
    BY <1>8, <2>1, <2>2, <2>3, AnswerType DEF SaveOk, Handling, HandlerStates
<1>9. CASE SaveFails(q)
  BY <1>0, <1>9, PutType, RefuseType DEF SaveFails, Handling, HandlerStates
<1> QED
  BY <1>1, <1>2, <1>3, <1>4, <1>5, <1>6, <1>7, <1>8, <1>9 DEF HandlerStep

LEMMA ReplicaType ==
    ASSUME TypeInv, NEW r \in Replica,
           Start(r) \/ BootStep(r) \/ Terminate(r) \/ Exit(r) \/ Crash(r)
    PROVE  TypeInv'
<1> USE ActorsAssumption, NoneAssumption
    DEF TypeInv, TypeOK, ControlOK, Acked, HandlerStates, Actor
<1>0. Len(SampleData) \in Nat
  BY SampleAssumption
<1>1. CASE Start(r)
  BY <1>0, <1>1 DEF Start, handlerVars
<1>2. CASE SeedPresent(r)
  BY <1>0, <1>2 DEF SeedPresent, Seeding, handlerVars
<1>3. CASE SeedAbsent(r)
  <2>1. nxt[r] \in 1..Len(SampleData)
    BY <1>0, <1>3 DEF SeedAbsent, Seeding
  <2> QED
    BY <1>3, <2>1, SampleShipment DEF SeedAbsent, Seeding, OpenWrite, handlerVars
<1>4. CASE SeedSaved(r)
  <2>1. kv' \in [Id -> Shipment \cup {None}] /\ nxt[r] <= Len(SampleData)
    BY <1>4, PutType DEF SeedSaved, PutFails
  <2>2. TypeOK'
    BY <1>0, <1>4, <2>1 DEF SeedSaved, handlerVars
  <2>3. ControlOK'
    BY <1>4 DEF SeedSaved, handlerVars
  <2> QED
    BY <2>2, <2>3
<1>5. CASE SeedFails(r)
  <2>1. kv' \in [Id -> Shipment \cup {None}]
    BY <1>5, PutType DEF SeedFails
  <2>2. TypeOK'
    BY <1>5, <2>1 DEF SeedFails, handlerVars
  <2>3. ControlOK'
    BY <1>5 DEF SeedFails, handlerVars
  <2> QED
    BY <2>2, <2>3
<1>6. CASE Serve(r)
  BY <1>6 DEF Serve, handlerVars
<1>7. CASE Terminate(r)
  BY <1>7 DEF Terminate, handlerVars
<1>8. CASE Exit(r)
  BY <1>8 DEF Exit, handlerVars
<1>9. CASE Crash(r)
  <2> USE AttemptsAssumption
  <2>1. /\ pc' \in [Actor -> HandlerStates \cup {"idle", "done"}
                           \cup {"down", "seed", "serving", "draining"}]
        /\ \A p \in Replica : pc'[p] \in {"down", "seed", "save", "serving", "draining"}
        /\ \A q \in Request : pc'[q] \in HandlerStates \cup {"idle", "done"}
    BY <1>9 DEF Crash, ServedBy
  <2>2. /\ kv' \in [Id -> Shipment \cup {None}]
        /\ lag' \in [Id -> Shipment \cup {None}]
        /\ at' \in [Actor -> Id \cup {None}]
        /\ upd' \in [Request -> Update \cup {None}]
        /\ nxt' \in [Replica -> 1..(Len(SampleData) + 1)]
        /\ overlap' \in [Request -> SUBSET Actor]
        /\ settling' \subseteq Request
    BY <1>9 DEF Crash
  <2>3. doc' \in [Actor -> Shipment \cup {None}]
    BY <1>9 DEF Crash
  <2>4. /\ tries' \in [Request -> 0..(MaxAttempts - 1)]
        /\ host' \in [Request -> Replica \cup {None}]
        /\ code' \in [Request -> {"none", "200", "201", "400", "404", "502", "gone"}]
    BY <1>9 DEF Crash
  <2>5. TypeOK'
    BY <2>1, <2>2, <2>3, <2>4
  <2>6. ASSUME NEW q \in Request
        PROVE  (/\ code[q] # "none" => pc[q] = "done"
                /\ pc[q] = "done" => code[q] # "none"
                /\ pc[q] \in {"read", "get", "save"} \/ Acked(q) => at[q] \in Id
                /\ pc[q] = "read" => upd[q] # None
                /\ pc[q] \in {"idle", "newid", "get"} => upd[q] = None
                /\ pc[q] = "save" /\ upd[q] = None => doc[q] = Fresh(q))'
    BY <1>9, <2>6 DEF Crash, ServedBy, Handling, Fresh
  <2>7. ASSUME NEW a \in Actor, pc'[a] = "save"
        PROVE  doc'[a] \in Shipment /\ doc'[a].place = a
    BY <1>9, <2>7 DEF Crash
  <2>8. ASSUME NEW p \in Replica, pc'[p] = "save"
        PROVE  nxt'[p] <= Len(SampleData) /\ at'[p] = SampleData[nxt'[p]].id
    BY <1>9, <2>8 DEF Crash
  <2>9. ASSUME NEW q \in settling'
        PROVE  Acked(q)'
    BY <1>9, <2>9 DEF Crash, ServedBy, Handling
  <2>10. ControlOK'
    BY <2>6, <2>7, <2>8, <2>9
  <2> QED
    BY <2>5, <2>10
<1> QED
  BY <1>1, <1>2, <1>3, <1>4, <1>5, <1>6, <1>7, <1>8, <1>9 DEF BootStep

LEMMA TypeStep == TypeInv /\ [Next]_vars => TypeInv'
<1> SUFFICES ASSUME TypeInv, [Next]_vars
             PROVE  TypeInv'
  OBVIOUS
<1>1. ASSUME NEW id \in Id, Replicate(id)
      PROVE  TypeInv'
  BY <1>1 DEF Replicate, handlerVars, TypeInv, TypeOK, ControlOK, Acked, Actor
<1>2. CASE UNCHANGED vars
  BY <1>2 DEF vars, TypeInv, TypeOK, ControlOK, Acked
<1> QED
  BY <1>1, <1>2, ReceiveType, HandlerType, ReplicaType DEF Next

(* Every variable keeps its type and agrees with the control state,        *)
(* whatever the handlers, the booting replicas, the crashes and the        *)
(* replication do.                                                         *)
THEOREM TypeCorrect == Spec => []TypeOK
<1>1. TypeInv => TypeOK
  BY DEF TypeInv
<1> QED
  BY <1>1, TypeInit, TypeStep, PTL DEF Spec

-----------------------------------------------------------------------------
(* Documents, continued: coherence and authors.                            *)

LEMMA FreshDocument ==
    ASSUME NEW q \in Request, NEW u, u[q] = None
    PROVE  Coherent(Fresh(q), u) /\ Writers(Fresh(q)) = {q}
BY DEF Fresh, Coherent, Writers, Assigned

LEMMA SampleDocument ==
    ASSUME NEW r \in Replica, NEW i \in 1..Len(SampleData), NEW u
    PROVE  Coherent(Sample(i, r), u) /\ Writers(Sample(i, r)) = {r}
<1> DEFINE st == SampleData[i].stages
           n == Len(st)
<1>1. SampleData[i] \in SampleRecord /\ st # <<>> /\ st[1] = "created"
  BY SampleAssumption
<1>2. st \in Seq(Status) /\ n \in Nat /\ n > 0
  BY <1>1 DEF SampleRecord
<1>3. Len(Sample(i, r).timeline) = n
  BY <1>2 DEF Sample
<1>4. \A k \in 1..n : Sample(i, r).timeline[k] = [status |-> st[k], by |-> r]
  BY <1>2, <1>3 DEF Sample
<1>5. /\ \A k \in 1..n : Sample(i, r).timeline[k].by = r
      /\ Assigned(r, u) = None
      /\ 1 \in 1..n
  <2>1. ASSUME NEW k \in 1..n
        PROVE  Sample(i, r).timeline[k].by = r
    <3>1. Sample(i, r).timeline[k] = [status |-> st[k], by |-> r]
      BY <1>4
    <3> HIDE DEF st
    <3> QED
      BY <3>1
  <2>2. Assigned(r, u) = None
    BY ActorsAssumption DEF Assigned
  <2> QED
    BY <1>2, <2>1, <2>2
<1>6. /\ Sample(i, r).parcel = r
      /\ Sample(i, r).place = r
      /\ Sample(i, r).status = st[n]
  BY DEF Sample
<1> HIDE DEF n
<1>7. Writers(Sample(i, r)) = {r}
  BY <1>3, <1>5 DEF Writers
<1>8. Coherent(Sample(i, r), u)
  BY <1>1, <1>2, <1>3, <1>4, <1>5, <1>6 DEF Coherent
<1> QED
  BY <1>7, <1>8

LEMMA UpdatedDocument ==
    ASSUME NEW sh \in Shipment, NEW q \in Request, NEW u, u[q] \in Update, Coherent(sh, u)
    PROVE  /\ Coherent(Updated(sh, q, u[q]), u)
           /\ Writers(Updated(sh, q, u[q])) = Writers(sh) \cup {q}
<1> DEFINE b == u[q]
           e == [status |-> b.status, by |-> q]
           t == sh.timeline
           n == Len(t)
           new == Updated(sh, q, b)
<1>1. b.carrier \in Carrier \cup {None} /\ b # None
  BY UpdateAssumption, NoneAssumption DEF UpdateBody
<1>2. t \in Seq(Event) /\ n \in Nat /\ n > 0
  BY DEF Shipment, Coherent
<1>3. /\ new.timeline = Append(t, e)
      /\ new.parcel = sh.parcel
      /\ new.status = b.status
      /\ new.place = q
      /\ new.carrier = IF b.carrier # None THEN b.carrier ELSE sh.carrier
  BY DEF Updated, Shipment
<1>4. /\ Len(new.timeline) = n + 1
      /\ \A k \in 1..n : new.timeline[k] = t[k]
      /\ new.timeline[n + 1] = e
  BY <1>2, <1>3
<1>5. Writers(new) = Writers(sh) \cup {q}
  <2>1. 1..(n + 1) = 1..n \cup {n + 1}
    BY <1>2
  <2> QED
    BY <1>4, <2>1 DEF Writers
<1>6. Assigned(q, u) = b.carrier
  BY <1>1 DEF Assigned
<1>7. ASSUME NEW k \in 1..(n + 1),
             Assigned(new.timeline[k].by, u) # None,
             \A j \in (k+1)..(n + 1) : Assigned(new.timeline[j].by, u) = None
      PROVE  new.carrier = Assigned(new.timeline[k].by, u)
  <2>1. CASE k = n + 1
    BY <2>1, <1>3, <1>4, <1>6, <1>7
  <2>2. CASE k \in 1..n
    <3>1. n + 1 \in (k+1)..(n + 1) /\ b.carrier = None
      BY <1>2, <1>4, <1>6, <1>7, <2>2
    <3>2. \A j \in (k+1)..n : Assigned(t[j].by, u) = None
      BY <1>2, <1>4, <1>7, <2>2
    <3>3. sh.carrier = Assigned(t[k].by, u)
      BY <2>2, <3>2, <1>4, <1>7 DEF Coherent
    <3> QED
      BY <3>1, <3>3, <2>2, <1>3, <1>4
  <2> QED
    BY <1>2, <2>1, <2>2
<1>8. /\ new.timeline[1] = [status |-> "created", by |-> new.parcel]
      /\ new.timeline[n + 1] = [status |-> new.status, by |-> new.place]
  BY <1>2, <1>3, <1>4 DEF Coherent
<1>9. Coherent(new, u)
  BY <1>2, <1>4, <1>7, <1>8 DEF Coherent
<1> QED
  BY <1>5, <1>9

(* A document keeps its coherence when only requests it does not mention   *)
(* get a body.                                                             *)
LEMMA CoherentKept ==
    ASSUME NEW sh \in Shipment, NEW p, NEW u, NEW v, Coherent(sh, u), Started(sh, p),
           \A q \in Request : p[q] # "idle" => v[q] = u[q]
    PROVE  Coherent(sh, v)
<1> DEFINE t == sh.timeline
           n == Len(t)
<1>1. n \in Nat
  BY DEF Shipment
<1>2. ASSUME NEW k \in 1..n
      PROVE  Assigned(t[k].by, v) = Assigned(t[k].by, u)
  <2>1. t[k].by \in Writers(sh)
    BY DEF Writers
  <2>2. t[k].by \in Request => v[t[k].by] = u[t[k].by]
    BY <2>1 DEF Started
  <2> QED
    BY <2>2 DEF Assigned
<1>3. ASSUME NEW k \in 1..n, Assigned(t[k].by, v) # None,
             \A j \in (k+1)..n : Assigned(t[j].by, v) = None
      PROVE  sh.carrier = Assigned(t[k].by, v)
  <2>1. \A j \in (k+1)..n : Assigned(t[j].by, u) = None
    <3>1. \A j \in (k+1)..n : j \in 1..n
      BY <1>1
    <3> QED
      BY <3>1, <1>2, <1>3
  <2>2. Assigned(t[k].by, u) # None
    BY <1>2, <1>3
  <2>3. sh.carrier = Assigned(t[k].by, u)
    BY <2>1, <2>2 DEF Coherent
  <2> QED
    BY <2>3, <1>2
<1>4. n > 0 /\ t[1] = [status |-> "created", by |-> sh.parcel]
            /\ t[n] = [status |-> sh.status, by |-> sh.place]
  BY DEF Coherent
<1> QED
  BY <1>3, <1>4 DEF Coherent

(* The last event of a coherent document is its snapshot's.                *)
LEMMA PlaceIsWriter ==
    ASSUME NEW sh \in Shipment, NEW u, Coherent(sh, u)
    PROVE  sh.place \in Writers(sh)
BY DEF Shipment, Coherent, Writers

-----------------------------------------------------------------------------
(* The steps of the system as the table sees them: most leave it alone or  *)
(* put a pending document without acknowledging it; some open a write, one *)
(* acknowledges a write, one replicates.                                   *)

Pending(a) == pc[a] = "save"

\* No step forgets what was received, and no answer is taken back.
Steady ==
    \A q \in Request :
        /\ pc[q] # "idle" => pc'[q] # "idle" /\ upd'[q] = upd[q]
        /\ Acked(q) => pc[q] # "idle" /\ code'[q] = code[q] /\ at'[q] = at[q]

NewAcks(S) == \A q \in Request : Acked(q)' => Acked(q) \/ q \in S

\* Outside S, what is pending after the step was pending before it.
KeepsPending(S) ==
    \A a \in Actor : pc'[a] = "save" /\ a \notin S
        => pc[a] = "save" /\ doc'[a] = doc[a] /\ at'[a] = at[a]

PlainStep ==
    /\ Steady /\ NewAcks({}) /\ KeepsPending({})
    /\ UNCHANGED kv \/ \E w \in Actor : Pending(w) /\ Put(w)
    /\ UNCHANGED <<lag, overlap, settling>>

\* What is written where nothing was found.
NewDocument(w, new) ==
    \/ w \in Request /\ new = Fresh(w)
    \/ w \in Replica /\ \E i \in 1..Len(SampleData) : new = Sample(i, w)

OpenStep(w, id, d, new) ==
    /\ Steady /\ NewAcks({}) /\ KeepsPending({w})
    /\ OpenWrite(w, id, d, new)
    /\ d = None => NewDocument(w, new) /\ Coherent(new, upd) /\ Writers(new) = {w}
    /\ d # None => w \in Request /\ upd[w] \in Update /\ new = Updated(d, w, upd[w])
    /\ w \in Request => pc[w] # "idle" /\ ~Acked(w)
    /\ UNCHANGED <<kv, lag, settling>>

AckStep(q) == Steady /\ NewAcks({q}) /\ KeepsPending({}) /\ SaveOk(q)

LagStep(id) == Steady /\ NewAcks({}) /\ KeepsPending({}) /\ Replicate(id)

StepKind ==
    \/ PlainStep
    \/ \E w \in Actor, id \in Id : \E d \in Answers(id) : \E new \in Shipment :
          OpenStep(w, id, d, new)
    \/ \E q \in Request : AckStep(q)
    \/ \E id \in Id : LagStep(id)

LEMMA ReceiveKind ==
    ASSUME TypeInv, NEW q \in Request, ReceiveAny(q)
    PROVE  StepKind
<1>0. q \in Actor
  BY DEF Actor
<1>1. PICK r \in Replica :
        \/ ReceiveCreate(q, r)
        \/ \E id \in Id : ReceiveGet(q, r, id)
        \/ \E id \in Id : \E u \in Update : ReceiveUpdate(q, r, id, u)
        \/ ReceiveMalformed(q, r)
  BY DEF ReceiveAny
<1>2. PICK entry \in {"newid", "read", "get", "done"} : Receive(q, r, entry)
  BY <1>1 DEF ReceiveCreate, ReceiveGet, ReceiveUpdate, ReceiveMalformed
<1>3. /\ \A p \in Request \ {q} : code'[p] = code[p] /\ upd'[p] = upd[p]
      /\ \A a \in Actor \ {q} : at'[a] = at[a]
  BY <1>1 DEF ReceiveCreate, ReceiveGet, ReceiveUpdate, ReceiveMalformed, Receive,
              TypeInv, TypeOK
<1>4. code'[q] \in {"none", "400"} /\ code[q] = "none"
  BY <1>1, <1>2 DEF ReceiveCreate, ReceiveGet, ReceiveUpdate, ReceiveMalformed, Receive,
              TypeInv, TypeOK, ControlOK
<1>5. Steady
  BY <1>0, <1>2, <1>3, <1>4 DEF Steady, Receive, Acked, TypeInv, TypeOK, ControlOK, Actor
<1>6. NewAcks({})
  BY <1>3, <1>4 DEF NewAcks, Acked
<1>7. KeepsPending({})
  BY <1>0, <1>2, <1>3 DEF KeepsPending, Receive, TypeInv, TypeOK
<1> QED
  BY <1>2, <1>5, <1>6, <1>7 DEF Receive, PlainStep, StepKind

(* An answer that acknowledges nothing is a plain step.                    *)
LEMMA RefuseKind ==
    ASSUME TypeInv, NEW q \in Request, Handling(q), NEW c, Refuse(q, c),
           c = "502" \/ c = "404" \/ (c = "200" /\ pc[q] = "get" /\ upd[q] = None),
           UNCHANGED kv \/ (Pending(q) /\ Put(q)), UNCHANGED lag
    PROVE  PlainStep
<1>1. q \in Actor /\ code[q] = "none" /\ pc[q] # "done" /\ pc[q] # "idle"
  BY DEF TypeInv, ControlOK, Actor, Handling, HandlerStates
<1>2. Steady
  BY <1>1 DEF TypeInv, TypeOK, ControlOK, Acked, Actor, Steady, Refuse, Answer
<1>3. NewAcks({})
  BY <1>1 DEF TypeInv, TypeOK, Acked, NewAcks, Refuse, Answer
<1>4. KeepsPending({})
  BY <1>1 DEF TypeInv, TypeOK, KeepsPending, Refuse, Answer
<1> QED
  BY <1>1, <1>2, <1>3, <1>4 DEF PlainStep, Refuse

LEMMA OpenKind ==
    ASSUME TypeInv, NEW w \in Actor, NEW id \in Id, NEW d \in Answers(id),
           NEW new \in Shipment, OpenWrite(w, id, d, new),
           pc[w] \notin {"idle", "done"},
           UNCHANGED <<kv, lag, settling, upd, code>>,
           d = None => NewDocument(w, new) /\ Coherent(new, upd) /\ Writers(new) = {w},
           d # None => w \in Request /\ upd[w] \in Update /\ new = Updated(d, w, upd[w])
    PROVE  StepKind
<1>1. w \in Request => ~Acked(w)
  BY DEF TypeInv, ControlOK, Acked
<1>2. Steady
  BY <1>1 DEF TypeInv, TypeOK, ControlOK, Acked, Actor, Steady, OpenWrite
<1>3. NewAcks({})
  BY DEF Acked, NewAcks
<1>4. KeepsPending({w})
  BY DEF TypeInv, TypeOK, KeepsPending, OpenWrite
<1> QED
  BY <1>1, <1>2, <1>3, <1>4 DEF OpenStep, StepKind

LEMMA HandlerKind ==
    ASSUME TypeInv, NEW q \in Request, HandlerStep(q)
    PROVE  StepKind
<1>0. q \in Actor
  BY DEF Actor
<1>1. ASSUME NEW id \in Id, DrawTaken(q, id)
      PROVE  PlainStep
  BY <1>1 DEF DrawTaken, TypeInv, ControlOK, Acked, PlainStep, Steady, NewAcks, KeepsPending
<1>2. ASSUME NEW id \in Id, GiveUp(q, id)
      PROVE  PlainStep
  <2>1. Handling(q) /\ Refuse(q, "502") /\ UNCHANGED kv /\ UNCHANGED lag
    BY <1>2 DEF GiveUp, Handling, HandlerStates
  <2> QED
    BY <2>1, RefuseKind
<1>3. ASSUME NEW id \in Id, DrawFree(q, id)
      PROVE  StepKind
  <2>1. upd[q] = None /\ Fresh(q) \in Shipment
    BY <1>3, FreshShipment DEF DrawFree, TypeInv, ControlOK
  <2>2. /\ NewDocument(q, Fresh(q))
        /\ Coherent(Fresh(q), upd) /\ Writers(Fresh(q)) = {q}
    BY <2>1, FreshDocument DEF NewDocument
  <2> QED
    BY <1>0, <1>3, <2>1, <2>2, OpenKind DEF DrawFree, handlerVars
<1>4. CASE UpdateRead(q)
  <2>1. PICK d \in Answers(at[q]) \ {None} : OpenWrite(q, at[q], d, Updated(d, q, upd[q]))
    BY <1>4 DEF UpdateRead
  <2>2. at[q] \in Id /\ upd[q] \in Update /\ d \in Shipment
    BY <1>4, <2>1, AnswersType DEF UpdateRead, TypeInv, TypeOK, ControlOK
  <2>3. Updated(d, q, upd[q]) \in Shipment
    BY <2>2, UpdatedShipment
  <2> QED
    BY <1>0, <1>4, <2>1, <2>2, <2>3, OpenKind DEF UpdateRead, handlerVars
<1>5. CASE GetFound(q)
  <2>1. Handling(q) /\ pc[q] = "get" /\ upd[q] = None
    BY <1>5 DEF GetFound, Handling, HandlerStates, TypeInv, ControlOK
  <2>2. Refuse(q, "200") /\ UNCHANGED kv /\ UNCHANGED lag
    BY <1>5 DEF GetFound
  <2> QED
    BY <2>1, <2>2, RefuseKind DEF StepKind
<1>6. CASE NotFound(q)
  <2>1. Handling(q) /\ Refuse(q, "404") /\ UNCHANGED kv /\ UNCHANGED lag
    BY <1>6 DEF NotFound, Handling, HandlerStates
  <2> QED
    BY <2>1, RefuseKind DEF StepKind
<1>7. CASE ReadFails(q)
  <2>1. Handling(q) /\ Refuse(q, "502") /\ UNCHANGED kv /\ UNCHANGED lag
    BY <1>7 DEF ReadFails, Handling, HandlerStates
  <2> QED
    BY <2>1, RefuseKind DEF StepKind
<1>8. CASE SaveOk(q)
  <2>1. code[q] = "none" /\ pc[q] # "idle"
    BY <1>8 DEF SaveOk, TypeInv, ControlOK
  <2>2. Steady
    BY <1>0, <1>8, <2>1 DEF SaveOk, TypeInv, TypeOK, ControlOK, Acked, Actor, Steady, Answer
  <2>3. NewAcks({q})
    BY <1>8, <2>1 DEF SaveOk, TypeInv, TypeOK, Acked, NewAcks, Answer
  <2>4. KeepsPending({})
    BY <1>0, <1>8 DEF SaveOk, TypeInv, TypeOK, KeepsPending, Answer
  <2> QED
    BY <1>8, <2>2, <2>3, <2>4 DEF AckStep, StepKind
<1>9. CASE SaveFails(q)
  <2>1. Handling(q) /\ Refuse(q, "502") /\ UNCHANGED lag
    BY <1>9 DEF SaveFails, Handling, HandlerStates
  <2>2. UNCHANGED kv \/ (Pending(q) /\ Put(q))
    BY <1>9 DEF SaveFails, PutFails, Pending
  <2> QED
    BY <2>1, <2>2, RefuseKind DEF StepKind
<1> QED
  BY <1>1, <1>2, <1>3, <1>4, <1>5, <1>6, <1>7, <1>8, <1>9 DEF HandlerStep, StepKind

LEMMA ReplicaKind ==
    ASSUME TypeInv, NEW r \in Replica,
           Start(r) \/ BootStep(r) \/ Terminate(r) \/ Exit(r) \/ Crash(r)
    PROVE  StepKind
<1>0. r \in Actor /\ r \notin Request
  BY ActorsAssumption DEF Actor
<1>1. ASSUME pc'[r] # "save",
             \A a \in Actor \ {r} : pc'[a] = pc[a] /\ doc'[a] = doc[a],
             UNCHANGED <<lag, at, handlerVars, overlap, settling>>,
             UNCHANGED kv \/ (Pending(r) /\ Put(r))
      PROVE  PlainStep
  <2>1. Steady
    BY <1>0, <1>1 DEF TypeInv, TypeOK, ControlOK, Acked, Actor, Steady, handlerVars
  <2>2. NewAcks({})
    BY <1>1 DEF Acked, NewAcks, handlerVars
  <2>3. KeepsPending({})
    BY <1>0, <1>1 DEF KeepsPending
  <2> QED
    BY <1>0, <1>1, <2>1, <2>2, <2>3 DEF PlainStep
<1> DEFINE OnlyOwn == pc'[r] # "save" /\ \A a \in Actor \ {r} : pc'[a] = pc[a] /\ doc'[a] = doc[a]
<1>2. CASE Start(r)
  <2>1. OnlyOwn
    BY <1>0, <1>2 DEF Start, TypeInv, TypeOK
  <2>2. UNCHANGED <<lag, at, handlerVars, overlap, settling>>
    BY <1>2 DEF Start
  <2>3. UNCHANGED kv \/ (Pending(r) /\ Put(r))
    BY <1>2 DEF Start
  <2> QED
    BY <1>1, <2>1, <2>2, <2>3 DEF StepKind
<1>3. CASE SeedPresent(r)
  <2>1. OnlyOwn
    BY <1>0, <1>3 DEF SeedPresent, Seeding, TypeInv, TypeOK
  <2>2. UNCHANGED <<lag, at, handlerVars, overlap, settling>>
    BY <1>3 DEF SeedPresent
  <2>3. UNCHANGED kv \/ (Pending(r) /\ Put(r))
    BY <1>3 DEF SeedPresent
  <2> QED
    BY <1>1, <2>1, <2>2, <2>3 DEF StepKind
<1>4. CASE SeedAbsent(r)
  <2>1. nxt[r] \in 1..Len(SampleData)
    BY <1>4, SampleAssumption DEF SeedAbsent, Seeding, TypeInv, TypeOK
  <2> DEFINE i == nxt[r]
             id == SampleData[i].id
  <2>2. id \in Id /\ Sample(i, r) \in Shipment
    BY <2>1, SampleShipment
  <2>3. /\ NewDocument(r, Sample(i, r))
        /\ Coherent(Sample(i, r), upd) /\ Writers(Sample(i, r)) = {r}
    BY <2>1, SampleDocument DEF NewDocument
  <2>4. None \in Answers(id) /\ OpenWrite(r, id, None, Sample(i, r))
    BY <1>4 DEF SeedAbsent
  <2>5. pc[r] \notin {"idle", "done"} /\ UNCHANGED <<kv, lag, settling, upd, code>>
    BY <1>4 DEF SeedAbsent, Seeding, handlerVars
  <2> HIDE DEF i, id
  <2> QED
    BY <1>0, <2>2, <2>3, <2>4, <2>5, OpenKind
<1>5. CASE SeedSaved(r)
  <2>1. OnlyOwn
    BY <1>0, <1>5 DEF SeedSaved, TypeInv, TypeOK
  <2>2. UNCHANGED <<lag, at, handlerVars, overlap, settling>>
    BY <1>5 DEF SeedSaved
  <2>3. UNCHANGED kv \/ (Pending(r) /\ Put(r))
    BY <1>5 DEF SeedSaved, Pending
  <2> QED
    BY <1>1, <2>1, <2>2, <2>3 DEF StepKind
<1>6. CASE SeedFails(r)
  <2>1. OnlyOwn
    BY <1>0, <1>6 DEF SeedFails, TypeInv, TypeOK
  <2>2. UNCHANGED <<lag, at, handlerVars, overlap, settling>>
    BY <1>6 DEF SeedFails
  <2>3. UNCHANGED kv \/ (Pending(r) /\ Put(r))
    BY <1>6 DEF SeedFails, PutFails, Pending
  <2> QED
    BY <1>1, <2>1, <2>2, <2>3 DEF StepKind
<1>7. CASE Serve(r)
  <2>1. OnlyOwn
    BY <1>0, <1>7 DEF Serve, TypeInv, TypeOK
  <2>2. UNCHANGED <<lag, at, handlerVars, overlap, settling>>
    BY <1>7 DEF Serve
  <2>3. UNCHANGED kv \/ (Pending(r) /\ Put(r))
    BY <1>7 DEF Serve
  <2> QED
    BY <1>1, <2>1, <2>2, <2>3 DEF StepKind
<1>8. CASE Terminate(r)
  <2>1. OnlyOwn
    BY <1>0, <1>8 DEF Terminate, TypeInv, TypeOK
  <2>2. UNCHANGED <<lag, at, handlerVars, overlap, settling>>
    BY <1>8 DEF Terminate
  <2>3. UNCHANGED kv \/ (Pending(r) /\ Put(r))
    BY <1>8 DEF Terminate
  <2> QED
    BY <1>1, <2>1, <2>2, <2>3 DEF StepKind
<1>9. CASE Exit(r)
  <2>1. OnlyOwn
    BY <1>0, <1>9 DEF Exit, TypeInv, TypeOK
  <2>2. UNCHANGED <<lag, at, handlerVars, overlap, settling>>
    BY <1>9 DEF Exit
  <2>3. UNCHANGED kv \/ (Pending(r) /\ Put(r))
    BY <1>9 DEF Exit
  <2> QED
    BY <1>1, <2>1, <2>2, <2>3 DEF StepKind
<1> USE <1>0 DEF handlerVars, TypeInv, TypeOK
<1>10. CASE Crash(r)
  <2>1. \A q \in ServedBy(r) : code[q] = "none" /\ pc[q] # "idle"
    BY DEF ServedBy, Handling, HandlerStates, ControlOK
  <2>2. Steady
    BY <1>10, <2>1 DEF Crash, Acked, Steady, Actor, ControlOK
  <2>3. NewAcks({})
    BY <1>10 DEF Crash, Acked, NewAcks
  <2>4. KeepsPending({})
    BY <1>10 DEF Crash, KeepsPending
  <2> QED
    BY <1>10, <2>2, <2>3, <2>4 DEF Crash, PlainStep, StepKind
<1> QED
  BY <1>2, <1>3, <1>4, <1>5, <1>6, <1>7, <1>8, <1>9, <1>10 DEF BootStep, StepKind

LEMMA StepKinds == TypeInv /\ [Next]_vars => StepKind
<1> SUFFICES ASSUME TypeInv, [Next]_vars
             PROVE  StepKind
  OBVIOUS
<1>1. ASSUME NEW id \in Id, Replicate(id)
      PROVE  StepKind
  BY <1>1 DEF Replicate, handlerVars, TypeInv, ControlOK, Acked, Steady, NewAcks,
              KeepsPending, LagStep, StepKind
<1>2. CASE UNCHANGED vars
  BY <1>2 DEF vars, TypeInv, ControlOK, Acked, Steady, NewAcks, KeepsPending,
              PlainStep, StepKind
<1> QED
  BY <1>1, <1>2, ReceiveKind, HandlerKind, ReplicaKind DEF Next

-----------------------------------------------------------------------------
(* Coherent documents.                                                     *)

DocsInv == RecordsCoherent /\ OnlyStarted

LEMMA GoodKept ==
    ASSUME Steady, NEW d \in Shipment, Coherent(d, upd), Started(d, pc)
    PROVE  Coherent(d, upd') /\ Started(d, pc')
<1>1. \A q \in Request : pc[q] # "idle" => upd'[q] = upd[q]
  BY DEF Steady
<1>2. Coherent(d, upd')
  BY <1>1, CoherentKept
<1>3. Started(d, pc')
  BY DEF Steady, Started
<1> QED
  BY <1>2, <1>3

LEMMA DocsStep ==
    ASSUME TypeInv, TypeInv', DocsInv, StepKind
    PROVE  DocsInv'
<1> DEFINE Good(d) == Coherent(d, upd) /\ Started(d, pc)
           GoodNext(d) == Coherent(d, upd') /\ Started(d, pc')
<1>1. /\ \A id \in Id : kv[id] # None => kv[id] \in Shipment /\ Good(kv[id])
      /\ \A id \in Id : lag[id] # None => lag[id] \in Shipment /\ Good(lag[id]) /\ kv[id] # None
      /\ \A a \in Actor : Pending(a) => doc[a] \in Shipment /\ Good(doc[a])
  BY DEF DocsInv, RecordsCoherent, OnlyStarted, TypeInv, TypeOK, ControlOK, Pending
<1>2. ASSUME Steady,
             \A id \in Id : kv'[id] # None =>
                \/ kv'[id] = kv[id]
                \/ \E w \in Actor : Pending(w) /\ kv'[id] = doc[w],
             \A id \in Id : lag'[id] # None => (lag'[id] = lag[id] \/ lag'[id] = kv[id]),
             \A id \in Id : kv[id] # None => kv'[id] # None,
             \A a \in Actor : pc'[a] = "save" =>
                (Pending(a) /\ doc'[a] = doc[a]) \/ GoodNext(doc'[a])
      PROVE  DocsInv'
  <2>1. \A d \in Shipment : Good(d) => GoodNext(d)
    BY <1>2, GoodKept
  <2>2. ASSUME NEW id \in Id, kv'[id] # None
        PROVE  GoodNext(kv'[id])
    BY <1>1, <1>2, <2>1, <2>2
  <2>3. ASSUME NEW id \in Id, lag'[id] # None
        PROVE  GoodNext(lag'[id]) /\ kv'[id] # None
    BY <1>1, <1>2, <2>1, <2>3
  <2>4. ASSUME NEW a \in Actor, pc'[a] = "save"
        PROVE  GoodNext(doc'[a])
    BY <1>1, <1>2, <2>1, <2>4
  <2> QED
    BY <2>2, <2>3, <2>4 DEF DocsInv, RecordsCoherent, OnlyStarted
<1>3. CASE PlainStep
  <2>1. Steady /\ lag' = lag
    BY <1>3 DEF PlainStep
  <2>2. \A a \in Actor : pc'[a] = "save" => Pending(a) /\ doc'[a] = doc[a]
    BY <1>3 DEF PlainStep, KeepsPending, Pending
  <2>3. \A w \in Actor : Pending(w) => doc[w] # None
    BY <1>1, NoneAssumption
  <2>4. \A id \in Id : \/ kv'[id] = kv[id]
                      \/ \E w \in Actor : Pending(w) /\ kv'[id] = doc[w]
    BY <1>3 DEF PlainStep, Put, TypeInv, TypeOK
  <2> QED
    BY <1>2, <2>1, <2>2, <2>3, <2>4
<1>4. ASSUME NEW w \in Actor, NEW id \in Id, NEW d \in Answers(id), NEW new \in Shipment,
             OpenStep(w, id, d, new)
      PROVE  DocsInv'
  <2>1. Coherent(new, upd) /\ Started(new, pc)
    <3>1. CASE d = None
      BY <1>4, <3>1 DEF OpenStep, Started
    <3>2. CASE d # None
      <4>1. d \in Shipment /\ Good(d)
        BY <3>2, <1>1, AnswersType DEF TypeInv
      <4>2. /\ Coherent(Updated(d, w, upd[w]), upd)
            /\ Writers(Updated(d, w, upd[w])) = Writers(d) \cup {w}
        BY <1>4, <3>2, <4>1, UpdatedDocument DEF OpenStep
      <4> QED
        BY <1>4, <3>2, <4>1, <4>2 DEF OpenStep, Started
    <3> QED
      BY <3>1, <3>2
  <2>2. GoodNext(new)
    BY <1>4, <2>1, GoodKept DEF OpenStep
  <2>3. doc'[w] = new
    BY <1>4 DEF OpenStep, OpenWrite, TypeInv, TypeOK
  <2>4. \A a \in Actor : pc'[a] = "save" =>
                (Pending(a) /\ doc'[a] = doc[a]) \/ GoodNext(doc'[a])
    BY <1>4, <2>2, <2>3 DEF OpenStep, KeepsPending, Pending
  <2>5. Steady /\ kv' = kv /\ lag' = lag
    BY <1>4 DEF OpenStep
  <2> QED
    BY <1>2, <2>4, <2>5
<1>5. ASSUME NEW q \in Request, AckStep(q)
      PROVE  DocsInv'
  <2>1. q \in Actor /\ Pending(q) /\ doc[q] # None
    BY <1>5, NoneAssumption DEF AckStep, SaveOk, Actor, Pending, TypeInv, ControlOK
  <2>2. /\ Steady
        /\ lag' = lag
        /\ \A id \in Id : kv'[id] = kv[id] \/ kv'[id] = doc[q]
    BY <1>5 DEF AckStep, SaveOk, Put, TypeInv, TypeOK
  <2>3. \A a \in Actor : pc'[a] = "save" => Pending(a) /\ doc'[a] = doc[a]
    BY <1>5 DEF AckStep, KeepsPending, Pending
  <2> QED
    BY <1>2, <2>1, <2>2, <2>3
<1>6. ASSUME NEW id \in Id, LagStep(id)
      PROVE  DocsInv'
  <2>1. Steady /\ kv' = kv /\ \A i \in Id : lag'[i] = lag[i] \/ lag'[i] = kv[i]
    BY <1>6 DEF LagStep, Replicate, TypeInv, TypeOK
  <2>2. \A a \in Actor : pc'[a] = "save" => Pending(a) /\ doc'[a] = doc[a]
    BY <1>6 DEF LagStep, KeepsPending, Pending
  <2> QED
    BY <1>2, <2>1, <2>2
<1> QED
  BY <1>3, <1>4, <1>5, <1>6 DEF StepKind

-----------------------------------------------------------------------------
(* Acknowledged writes.                                                    *)

LEMMA ShowsMore ==
    ASSUME NEW d, NEW V, NEW W, V \subseteq W, Shows(d, V)
    PROVE  Shows(d, W)
BY DEF Shows

(* A pending document carries its writer's event.                          *)
LEMMA PendingShows ==
    ASSUME TypeInv, DocsInv, NEW w \in Actor, Pending(w), NEW W, w \in W
    PROVE  Shows(doc[w], W)
<1>1. doc[w] \in Shipment /\ doc[w].place = w /\ Coherent(doc[w], upd)
  BY DEF Pending, TypeInv, ControlOK, DocsInv, RecordsCoherent
<1>2. w \in Writers(doc[w])
  BY <1>1, PlaceIsWriter
<1> QED
  BY <1>1, <1>2, NoneAssumption DEF Shows

(* Putting a pending document does not hide an acknowledged write.         *)
LEMMA PutKeeps ==
    ASSUME TypeInv, DocsInv, AckedEverywhere, NEW q \in Request, Acked(q),
           UNCHANGED kv \/ \E w \in Actor : Pending(w) /\ Put(w)
    PROVE  Shows(kv'[at[q]], Excused(q))
<1>1. at[q] \in Id /\ Shows(kv[at[q]], Excused(q))
  BY DEF TypeInv, ControlOK, AckedEverywhere
<1>2. ASSUME NEW w \in Actor, Pending(w), Put(w), at[w] = at[q]
      PROVE  Shows(doc[w], Excused(q))
  <2>1. w \in overlap[q] \/ Shows(doc[w], Excused(q))
    BY <1>2 DEF AckedEverywhere, Pending
  <2>2. w \in overlap[q] => w \in Excused(q)
    BY DEF Excused
  <2> QED
    BY <1>2, <2>1, <2>2, PendingShows
<1>3. ASSUME NEW w \in Actor, Pending(w), Put(w)
      PROVE  kv'[at[q]] = IF at[w] = at[q] THEN doc[w] ELSE kv[at[q]]
  BY <1>1, <1>3 DEF Put, TypeInv, TypeOK
<1> QED
  BY <1>1, <1>2, <1>3

LEMMA AckedStep ==
    ASSUME TypeInv, TypeInv', DocsInv, AckedEverywhere, StepKind
    PROVE  AckedEverywhere'
<1> USE DEF Pending
<1>1. CASE PlainStep
  <2> SUFFICES ASSUME NEW q \in Request, Acked(q)'
               PROVE  (/\ Shows(kv[at[q]], Excused(q))
                       /\ ~ConsistentRead /\ q \notin settling => Shows(lag[at[q]], Excused(q))
                       /\ \A w \in Actor : pc[w] = "save" /\ at[w] = at[q]
                              => w \in overlap[q] \/ Shows(doc[w], Excused(q)))'
    BY DEF AckedEverywhere
  <2>1. Acked(q) /\ at'[q] = at[q] /\ Excused(q)' = Excused(q)
    BY <1>1 DEF PlainStep, Steady, NewAcks, Excused
  <2>2. Shows(kv'[at[q]], Excused(q))
    BY <1>1, <2>1, PutKeeps DEF PlainStep
  <2>3. ~ConsistentRead /\ q \notin settling => Shows(lag[at[q]], Excused(q))
    BY <2>1 DEF AckedEverywhere
  <2>4. ASSUME NEW w \in Actor, pc'[w] = "save", at'[w] = at'[q]
        PROVE  w \in overlap[q] \/ Shows(doc'[w], Excused(q))
    BY <1>1, <2>1, <2>4 DEF PlainStep, KeepsPending, AckedEverywhere
  <2> QED
    BY <1>1, <2>1, <2>2, <2>3, <2>4 DEF PlainStep
<1>2. ASSUME NEW v \in Actor, NEW id \in Id, NEW d \in Answers(id), NEW new \in Shipment,
             OpenStep(v, id, d, new)
      PROVE  AckedEverywhere'
  <2> SUFFICES ASSUME NEW q \in Request, Acked(q)'
               PROVE  (/\ Shows(kv[at[q]], Excused(q))
                       /\ ~ConsistentRead /\ q \notin settling => Shows(lag[at[q]], Excused(q))
                       /\ \A w \in Actor : pc[w] = "save" /\ at[w] = at[q]
                              => w \in overlap[q] \/ Shows(doc[w], Excused(q)))'
    BY DEF AckedEverywhere
  <2>1. Acked(q) /\ at'[q] = at[q] /\ kv' = kv /\ lag' = lag /\ settling' = settling
    BY <1>2 DEF OpenStep, Steady, NewAcks
  <2>2. overlap[q] \subseteq overlap'[q] /\ Excused(q) \subseteq Excused(q)'
    BY <1>2 DEF OpenStep, OpenWrite, Excused
  <2>3. /\ Shows(kv[at[q]], Excused(q))
        /\ ~ConsistentRead /\ q \notin settling => Shows(lag[at[q]], Excused(q))
    BY <2>1 DEF AckedEverywhere
  <2>4. doc'[v] = new /\ at'[v] = id
    BY <1>2 DEF OpenStep, OpenWrite, TypeInv, TypeOK
  <2>5. ASSUME at[q] = id
        PROVE  v \in overlap'[q] \/ Shows(new, Excused(q))
    <3>1. CASE q \in settling /\ d # kv[id]
      BY <1>2, <3>1, <2>5 DEF OpenStep, OpenWrite
    <3>2. CASE ~(q \in settling /\ d # kv[id])
      <4>1. Shows(d, Excused(q))
        BY <2>3, <2>5, <3>2, AnswersType DEF TypeInv
      <4>2. d # None /\ d \in Shipment
        BY <4>1, AnswersType DEF Shows, TypeInv
      <4>3. Coherent(d, upd)
        BY <4>2, AnswersType DEF TypeInv, DocsInv, RecordsCoherent
      <4>4. Writers(new) = Writers(d) \cup {v}
        BY <1>2, <4>2, <4>3, UpdatedDocument DEF OpenStep
      <4> QED
        BY <4>1, <4>4, NoneAssumption DEF Shows
    <3> QED
      BY <3>1, <3>2
  <2>6. ASSUME NEW w \in Actor, pc'[w] = "save", at'[w] = at'[q]
        PROVE  w \in overlap'[q] \/ Shows(doc'[w], Excused(q))
    <3>1. CASE w = v
      BY <2>1, <2>4, <2>5, <2>6, <3>1
    <3>2. CASE w # v
      BY <1>2, <2>1, <2>2, <2>6, <3>2 DEF OpenStep, KeepsPending, AckedEverywhere
    <3> QED
      BY <3>1, <3>2
  <2> QED
    BY <2>1, <2>2, <2>3, <2>6, ShowsMore
<1>3. ASSUME NEW p \in Request, AckStep(p)
      PROVE  AckedEverywhere'
  <2> SUFFICES ASSUME NEW q \in Request, Acked(q)'
               PROVE  (/\ Shows(kv[at[q]], Excused(q))
                       /\ ~ConsistentRead /\ q \notin settling => Shows(lag[at[q]], Excused(q))
                       /\ \A w \in Actor : pc[w] = "save" /\ at[w] = at[q]
                              => w \in overlap[q] \/ Shows(doc[w], Excused(q)))'
    BY DEF AckedEverywhere
  <2>1. p \in Actor /\ Pending(p) /\ Put(p) /\ at[p] \in Id /\ at' = at /\ lag' = lag
    BY <1>3 DEF AckStep, SaveOk, Answer, TypeInv, ControlOK, Actor
  <2>2. settling' = IF ConsistentRead THEN settling ELSE settling \cup {p}
    BY <1>3 DEF AckStep, SaveOk
  <2>3. overlap' = [overlap EXCEPT ![p] =
                     {w \in Actor \ {p} : pc[w] = "save" /\ at[w] = at[p]}]
    BY <1>3 DEF AckStep, SaveOk
  <2>4. pc'[p] = "done"
    BY <1>3, <2>1 DEF AckStep, SaveOk, Answer, TypeInv, TypeOK
  <2>5. CASE q = p
    <3>1. p \in Excused(p)'
      BY DEF Excused
    <3>2. kv'[at'[p]] = doc[p]
      BY <2>1 DEF Put, TypeInv, TypeOK
    <3>3. Shows(kv'[at'[p]], Excused(p)')
      BY <2>1, <3>1, <3>2, PendingShows
    <3>4. ASSUME NEW w \in Actor, pc'[w] = "save", at'[w] = at'[p]
          PROVE  w \in overlap'[p]
      <4>1. w # p /\ pc[w] = "save" /\ at[w] = at[p]
        BY <1>3, <2>1, <2>4, <3>4 DEF AckStep, KeepsPending
      <4> QED
        BY <2>3, <4>1 DEF TypeInv, TypeOK
    <3> QED
      BY <2>2, <2>5, <3>3, <3>4
  <2>6. CASE q # p
    <3>1. Acked(q) /\ Excused(q)' = Excused(q) /\ overlap'[q] = overlap[q]
      BY <1>3, <2>3, <2>6 DEF AckStep, NewAcks, Excused, TypeInv, TypeOK
    <3>2. Shows(kv'[at[q]], Excused(q))
      BY <2>1, <3>1, PutKeeps
    <3>3. ~ConsistentRead /\ q \notin settling' => Shows(lag[at[q]], Excused(q))
      BY <2>2, <3>1 DEF AckedEverywhere
    <3>4. ASSUME NEW w \in Actor, pc'[w] = "save", at'[w] = at'[q]
          PROVE  w \in overlap[q] \/ Shows(doc'[w], Excused(q))
      BY <1>3, <2>1, <3>1, <3>4 DEF AckStep, KeepsPending, AckedEverywhere
    <3> QED
      BY <2>1, <3>1, <3>2, <3>3, <3>4
  <2> QED
    BY <2>5, <2>6
<1>4. ASSUME NEW id \in Id, LagStep(id)
      PROVE  AckedEverywhere'
  <2> SUFFICES ASSUME NEW q \in Request, Acked(q)'
               PROVE  (/\ Shows(kv[at[q]], Excused(q))
                       /\ ~ConsistentRead /\ q \notin settling => Shows(lag[at[q]], Excused(q))
                       /\ \A w \in Actor : pc[w] = "save" /\ at[w] = at[q]
                              => w \in overlap[q] \/ Shows(doc[w], Excused(q)))'
    BY DEF AckedEverywhere
  <2>1. Acked(q) /\ at' = at /\ kv' = kv /\ doc' = doc /\ pc' = pc /\ overlap' = overlap
    BY <1>4 DEF LagStep, NewAcks, Replicate
  <2>2. at[q] \in Id
    BY <2>1 DEF TypeInv, ControlOK
  <2>3. ASSUME ~ConsistentRead, q \notin settling'
        PROVE  Shows(lag'[at[q]], Excused(q))
    <3>1. CASE at[q] = id
      BY <1>4, <2>1, <2>2, <3>1 DEF LagStep, Replicate, AckedEverywhere, TypeInv, TypeOK
    <3>2. CASE at[q] # id
      BY <1>4, <2>1, <2>2, <2>3, <3>2 DEF LagStep, Replicate, AckedEverywhere, TypeInv, TypeOK
    <3> QED
      BY <3>1, <3>2
  <2>4. Excused(q)' = Excused(q)
    BY <2>1 DEF Excused
  <2> QED
    BY <2>1, <2>3, <2>4 DEF AckedEverywhere
<1> QED
  BY <1>1, <1>2, <1>3, <1>4 DEF StepKind

-----------------------------------------------------------------------------
(* Allocation.                                                             *)

LEMMA AllocatedStep ==
    ASSUME TypeInv, TypeInv', AckedEverywhere, AllocatedApart, StepKind
    PROVE  AllocatedApart'
<1>1. ASSUME Steady, NewAcks({}), \A q \in Request : overlap[q] \subseteq overlap'[q]
      PROVE  AllocatedApart'
  <2>1. \A q \in Request : code'[q] = "201" => code[q] = "201" /\ at'[q] = at[q]
    BY <1>1 DEF Steady, NewAcks, Acked
  <2> QED
    BY <1>1, <2>1 DEF AllocatedApart
<1>2. CASE PlainStep
  BY <1>1, <1>2 DEF PlainStep
<1>3. ASSUME NEW w \in Actor, NEW id \in Id, NEW d \in Answers(id), NEW new \in Shipment,
             OpenStep(w, id, d, new)
      PROVE  AllocatedApart'
  BY <1>1, <1>3 DEF OpenStep, OpenWrite
<1>4. ASSUME NEW id \in Id, LagStep(id)
      PROVE  AllocatedApart'
  BY <1>1, <1>4 DEF LagStep, Replicate
<1>5. ASSUME NEW q \in Request, AckStep(q)
      PROVE  AllocatedApart'
  <2>1. q \in Actor /\ pc[q] = "save" /\ at' = at /\ upd' = upd
    BY <1>5 DEF AckStep, SaveOk, Answer, Actor
  <2>2. \A p \in Request \ {q} : overlap'[p] = overlap[p]
    BY <1>5 DEF AckStep, SaveOk, TypeInv, TypeOK
  <2>3. \A p \in Request \ {q} : code'[p] = "201" => code[p] = "201"
    BY <1>5 DEF AckStep, Steady, NewAcks, Acked
  <2>4. code'[q] = "201" => upd[q] = None
    BY <1>5 DEF AckStep, SaveOk, Answer, TypeInv, TypeOK
  <2>5. ASSUME NEW p \in Request, p # q, code'[p] = "201", code'[q] = "201", at'[p] = at'[q]
        PROVE  q \in overlap'[p]
    <3>1. doc[q] = Fresh(q) /\ upd[q] = None
      BY <2>1, <2>4, <2>5 DEF TypeInv, ControlOK
    <3>2. Acked(p) /\ at[p] = at[q]
      BY <2>1, <2>3, <2>5 DEF Acked
    <3>3. q \in overlap[p] \/ Shows(Fresh(q), Excused(p))
      BY <2>1, <3>1, <3>2 DEF AckedEverywhere
    <3>4. Writers(Fresh(q)) = {q}
      BY <3>1, FreshDocument
    <3> QED
      BY <2>2, <2>5, <3>3, <3>4 DEF Shows, Excused
  <2>6. ASSUME NEW p \in Request, NEW s \in Request, p # q, s # q, p # s,
               code'[p] = "201", code'[s] = "201", at'[p] = at'[s]
        PROVE  p \in overlap'[s] \/ s \in overlap'[p]
    BY <2>1, <2>2, <2>3, <2>6 DEF AllocatedApart
  <2> QED
    BY <2>5, <2>6 DEF AllocatedApart
<1> QED
  BY <1>2, <1>3, <1>4, <1>5 DEF StepKind

-----------------------------------------------------------------------------
(* Seeding.                                                                *)

(* No step removes a document.                                             *)
LEMMA TableGrows ==
    ASSUME TypeInv, StepKind, NEW id \in Id, kv[id] # None
    PROVE  kv'[id] # None
<1>1. \A w \in Actor : Pending(w) => doc[w] # None
  BY NoneAssumption DEF Pending, TypeInv, ControlOK
<1>2. UNCHANGED kv \/ \E w \in Actor : Pending(w) /\ Put(w)
  BY DEF StepKind, PlainStep, OpenStep, AckStep, SaveOk, LagStep, Replicate, Pending, Actor
<1> QED
  BY <1>1, <1>2 DEF Put, TypeInv, TypeOK

(* A replica passes a sample only when the table has it.                   *)
LEMMA SeedAdvances ==
    ASSUME TypeInv, DocsInv, [Next]_vars, NEW r \in Replica
    PROVE  \/ nxt'[r] = nxt[r]
           \/ nxt'[r] = 1
           \/ /\ nxt[r] \in 1..Len(SampleData)
              /\ nxt'[r] = nxt[r] + 1
              /\ kv'[SampleData[nxt[r]].id] # None
<1> USE DEF TypeInv, TypeOK
<1>1. ASSUME NEW q \in Request, ReceiveAny(q)
      PROVE  nxt' = nxt
  BY <1>1 DEF ReceiveAny, ReceiveCreate, ReceiveGet, ReceiveUpdate, ReceiveMalformed, Receive
<1>2. ASSUME NEW q \in Request, HandlerStep(q)
      PROVE  nxt' = nxt
  BY <1>2 DEF HandlerStep, DrawTaken, GiveUp, DrawFree, UpdateRead, GetFound, NotFound,
              ReadFails, SaveOk, SaveFails, Refuse, Answer
<1>3. ASSUME NEW p \in Replica, SeedPresent(p)
      PROVE  /\ nxt[p] \in 1..Len(SampleData)
             /\ nxt' = [nxt EXCEPT ![p] = nxt[p] + 1]
             /\ kv'[SampleData[nxt[p]].id] # None
  <2>1. nxt[p] \in 1..Len(SampleData)
    BY <1>3, SampleAssumption DEF SeedPresent, Seeding
  <2>2. SampleData[nxt[p]].id \in Id
    BY <2>1, SampleShipment
  <2>3. kv[SampleData[nxt[p]].id] # None
    BY <1>3, <2>2, AnswersType DEF SeedPresent, DocsInv, OnlyStarted
  <2> QED
    BY <1>3, <2>1, <2>3 DEF SeedPresent
<1>4. ASSUME NEW p \in Replica, SeedSaved(p)
      PROVE  /\ nxt[p] \in 1..Len(SampleData)
             /\ nxt' = [nxt EXCEPT ![p] = nxt[p] + 1]
             /\ kv'[SampleData[nxt[p]].id] # None
  <2>1. nxt[p] \in 1..Len(SampleData) /\ at[p] = SampleData[nxt[p]].id
    BY <1>4, SampleAssumption DEF SeedSaved, ControlOK
  <2>2. SampleData[nxt[p]].id \in Id
    BY <2>1, SampleShipment
  <2>3. doc[p] # None
    BY <1>4, NoneAssumption DEF SeedSaved, ControlOK, Actor
  <2> QED
    BY <1>4, <2>1, <2>2, <2>3 DEF SeedSaved, Put
<1>5. ASSUME NEW p \in Replica, Start(p)
      PROVE  nxt' = [nxt EXCEPT ![p] = 1]
  BY <1>5 DEF Start
<1>6. ASSUME NEW p \in Replica,
             SeedAbsent(p) \/ SeedFails(p) \/ Serve(p) \/ Terminate(p) \/ Exit(p) \/ Crash(p)
      PROVE  nxt' = nxt
  BY <1>6 DEF SeedAbsent, SeedFails, Serve, Terminate, Exit, Crash
<1>7. ASSUME NEW id \in Id, Replicate(id)
      PROVE  nxt' = nxt
  BY <1>7 DEF Replicate
<1>8. CASE UNCHANGED vars
  BY <1>8 DEF vars
<1> QED
  BY <1>1, <1>2, <1>3, <1>4, <1>5, <1>6, <1>7, <1>8 DEF Next, BootStep

LEMMA SeedStep ==
    ASSUME TypeInv, DocsInv, SeedCovers, [Next]_vars
    PROVE  SeedCovers'
<1> SUFFICES ASSUME NEW r \in Replica, NEW i \in 1..(nxt'[r] - 1)
             PROVE  kv'[SampleData[i].id] # None
  BY DEF SeedCovers
<1>1. nxt[r] \in 1..(Len(SampleData) + 1) /\ Len(SampleData) \in Nat
  BY SampleAssumption DEF TypeInv, TypeOK
<1>2. ASSUME i \in 1..(nxt[r] - 1)
      PROVE  kv'[SampleData[i].id] # None
  <2>1. SampleData[i].id \in Id
    BY <1>1, <1>2, SampleShipment
  <2>2. kv[SampleData[i].id] # None
    BY <1>2 DEF SeedCovers
  <2> QED
    BY <2>1, <2>2, StepKinds, TableGrows
<1>3. CASE nxt'[r] = nxt[r]
  BY <1>2, <1>3
<1>4. CASE nxt'[r] = 1
  BY <1>4
<1>5. CASE /\ nxt[r] \in 1..Len(SampleData)
           /\ nxt'[r] = nxt[r] + 1
           /\ kv'[SampleData[nxt[r]].id] # None
  <2>1. i = nxt[r] \/ i \in 1..(nxt[r] - 1)
    BY <1>1, <1>5
  <2> QED
    BY <1>2, <1>5, <2>1
<1> QED
  BY <1>3, <1>4, <1>5, SeedAdvances

-----------------------------------------------------------------------------
(* The theorems.                                                           *)

LEMMA InvInit == Init => IInv
<1> SUFFICES ASSUME Init
             PROVE  IInv
  OBVIOUS
<1>1. TypeOK /\ ControlOK
  BY TypeInit DEF TypeInv
<1>2. \A a \in Actor : pc[a] # "save"
  BY DEF Init
<1>3. RecordsCoherent /\ OnlyStarted
  BY <1>2 DEF Init, RecordsCoherent, OnlyStarted
<1>4. \A q \in Request : code[q] = "none" /\ ~Acked(q)
  BY DEF Init, Acked
<1>5. AckedEverywhere /\ AllocatedApart
  BY <1>4 DEF AckedEverywhere, AllocatedApart
<1>6. SeedCovers
  BY DEF Init, SeedCovers
<1> QED
  BY <1>1, <1>3, <1>5, <1>6 DEF IInv

LEMMA InvStep == IInv /\ [Next]_vars => IInv'
<1> SUFFICES ASSUME IInv, [Next]_vars
             PROVE  IInv'
  OBVIOUS
<1>1. TypeInv /\ TypeInv' /\ StepKind
  BY TypeStep, StepKinds DEF IInv, TypeInv
<1>2. DocsInv /\ DocsInv'
  BY <1>1, DocsStep DEF IInv, DocsInv
<1>3. AckedEverywhere' /\ AllocatedApart' /\ SeedCovers'
  BY <1>1, <1>2, AckedStep, AllocatedStep, SeedStep DEF IInv
<1> QED
  BY <1>1, <1>2, <1>3 DEF IInv, TypeInv, DocsInv

(* The inductive invariant holds in every reachable state.                 *)
THEOREM Invariance == Spec => []IInv
BY InvInit, InvStep, PTL DEF Spec

(* Whatever interleaves, fails or crashes, no read and no pending write    *)
(* ever holds a torn document.                                             *)
THEOREM DocumentsCoherent == Spec => []RecordsCoherent
<1>1. IInv => RecordsCoherent
  BY DEF IInv
<1> QED
  BY <1>1, Invariance, PTL

(* An acknowledged write is only ever lost to a writer whose read could    *)
(* not have seen it, for any number of replicas, requests, crashes and     *)
(* failed or lagging calls.                                                *)
THEOREM AckedWritesSafe == Spec => []NoSilentLoss
<1>1. IInv => NoSilentLoss
  BY DEF IInv, AckedEverywhere, NoSilentLoss
<1> QED
  BY <1>1, Invariance, PTL

(* Two creates are given one id only inside the window NewID leaves open.  *)
THEOREM AllocationApart == Spec => []AllocatedApart
<1>1. IInv => AllocatedApart
  BY DEF IInv
<1> QED
  BY <1>1, Invariance, PTL

(* A replica that finished Seed without an error finds every sample in the *)
(* table, then and ever after.                                             *)
THEOREM SeedComplete == Spec => []SeedCovers
<1>1. IInv => SeedCovers
  BY DEF IInv
<1> QED
  BY <1>1, Invariance, PTL

=============================================================================

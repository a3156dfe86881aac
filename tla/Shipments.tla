------------------------------ MODULE Shipments ------------------------------
(***************************************************************************)
(* The shipments service (cmd/shipments over internal/shipments) and the   *)
(* key-value table behind it (internal/awskv).                             *)
(*                                                                         *)
(* Several replicas share one table.  Every operation of the service is a  *)
(* short sequence of GetItem / PutItem calls with nothing that makes the   *)
(* sequence atomic: NewID tests an id and Create writes it later,          *)
(* UpdateStatus rewrites the whole document it read earlier, Seed writes a *)
(* sample it found absent earlier.  Each call is one step here, so the     *)
(* calls of different requests and of booting replicas interleave.         *)
(*                                                                         *)
(* A document is reduced to what the properties tell apart.  The fields a  *)
(* writer fills in (recipient, origin, destination; location, ETA; label   *)
(* and time of an event) are represented by the writer's own name, so that *)
(* two writers' documents are never equal by accident.                     *)
(***************************************************************************)
EXTENDS Integers, Sequences, FiniteSets

CONSTANTS
    Replica,         \* pods of the service
    Request,         \* HTTP requests; each is sent at most once
    Id,              \* tracking numbers NewID can draw, sample ids included
    SampleData,      \* sequence of the samples Seed upserts, see Sample
    Carrier,         \* carriers an update can assign
    Update,          \* bodies of POST /shipments/{id}/status, see UpdateBody
    MaxAttempts,     \* attempts of NewID (10 in the code)
    ConsistentRead,  \* FALSE: GetItem as the code calls it; TRUE: no read ever lags
    None             \* no document, no id, no carrier, no host

Status == {"created", "picked_up", "in_transit", "out_for_delivery", "delivered"}

Actor == Replica \cup Request   \* whoever may write to the table

UpdateBody == [status : Status, carrier : Carrier \cup {None}]

Event == [status : Status, by : Actor]

Shipment == [parcel   : Actor,                 \* Recipient, Origin, Destination
             place    : Actor,                 \* CurrentLocation, ETA
             status   : Status,
             carrier  : Carrier \cup {None},   \* None is the empty string
             timeline : Seq(Event)]

SampleRecord == [id : Id, carrier : Carrier, stages : Seq(Status)]

ASSUME ActorsAssumption == Replica \cap Request = {}
ASSUME NoneAssumption ==
    /\ None \notin Replica \cup Request \cup Id \cup Carrier
    /\ None \notin Shipment
    /\ None \notin UpdateBody
ASSUME UpdateAssumption == Update \subseteq UpdateBody
ASSUME AttemptsAssumption == MaxAttempts \in Nat \ {0}
ASSUME ConsistentReadAssumption == ConsistentRead \in BOOLEAN
\* Every sample starts at created; its snapshot status is that of its last event.
ASSUME SampleAssumption ==
    /\ SampleData \in Seq(SampleRecord)
    /\ \A i \in 1..Len(SampleData) :
          /\ SampleData[i].stages # <<>>
          /\ SampleData[i].stages[1] = "created"

VARIABLES
    kv,        \* the table: id -> latest document
    lag,       \* the copy an eventually consistent read may still answer from
    pc,        \* where each request's handler, and each replica's main, stands
    at,        \* the id an actor works on
    doc,       \* the document an actor is about to Put
    upd,       \* the body of an update request
    tries,     \* collisions NewID has met for a request
    host,      \* the replica that handles a request
    code,      \* how a request was answered
    nxt,       \* the next sample a booting replica looks at
    overlap,   \* history: for an acknowledged write, the writers whose read
               \* could not have seen it
    settling   \* history: acknowledged writes lagging reads may still miss

vars == <<kv, lag, pc, at, doc, upd, tries, host, code, nxt, overlap, settling>>

handlerVars == <<upd, tries, host, code>>

HandlerStates == {"newid", "read", "get", "save"}

Handling(q) == pc[q] \in HandlerStates

ServedBy(r) == {q \in Request : host[q] = r /\ Handling(q)}

\* The client was told that q's write is in (a GET's 200 is not such an answer).
Acked(q) == code[q] = "201" \/ (code[q] = "200" /\ upd[q] # None)

-----------------------------------------------------------------------------
(* Documents.                                                              *)

\* The document Create builds for request q.
Fresh(q) ==
    [parcel |-> q, place |-> q, status |-> "created", carrier |-> None,
     timeline |-> <<[status |-> "created", by |-> q]>>]

\* Mutant: the snapshot moves on and no event is appended.
UpdatedWithoutEvent(sh, q, u) ==
    [sh EXCEPT !.status = u.status,
               !.place = q,
               !.carrier = IF u.carrier # None THEN u.carrier ELSE @]

\* Mutant: the timeline starts anew instead of growing.
UpdatedAfresh(sh, q, u) ==
    [sh EXCEPT !.status = u.status,
               !.place = q,
               !.carrier = IF u.carrier # None THEN u.carrier ELSE @,
               !.timeline = <<[status |-> u.status, by |-> q]>>]

\* The document UpdateStatus builds from the one it read.
Updated(sh, q, u) ==
    [sh EXCEPT !.status = u.status,
               !.place = q,
               !.carrier = IF u.carrier # None THEN u.carrier ELSE @,
               !.timeline = Append(@, [status |-> u.status, by |-> q])]

\* The i-th sample as replica r fabricates it (its times come from r's clock).
Sample(i, r) ==
    LET s == SampleData[i] IN
    [parcel |-> r, place |-> r, status |-> s.stages[Len(s.stages)],
     carrier |-> s.carrier,
     timeline |-> [k \in 1..Len(s.stages) |-> [status |-> s.stages[k], by |-> r]]]

\* The writers a document carries an event of.
Writers(sh) == {sh.timeline[k].by : k \in 1..Len(sh.timeline)}

-----------------------------------------------------------------------------
(* The table.                                                              *)

\* What GetItem may answer for id.
Answers(id) == IF ConsistentRead THEN {kv[id]} ELSE {kv[id], lag[id]}

Put(w) == kv' = [kv EXCEPT ![at[w]] = doc[w]]

\* A PutItem that returned an error may have been applied all the same.
PutFails(w) == Put(w) \/ UNCHANGED kv

\* Background replication brings a lagging copy up to date.
Replicate(id) ==
    /\ lag[id] # kv[id]
    /\ lag' = [lag EXCEPT ![id] = kv[id]]
    /\ settling' = {q \in settling : at[q] # id}
    /\ UNCHANGED <<kv, pc, at, doc, handlerVars, nxt, overlap>>

\* w becomes a writer of id after reading d: it is behind every acknowledged
\* write that d may miss.
OpenWrite(w, id, d, new) ==
    /\ pc' = [pc EXCEPT ![w] = "save"]
    /\ at' = [at EXCEPT ![w] = id]
    /\ doc' = [doc EXCEPT ![w] = new]
    /\ overlap' = [q \in Request |->
                     IF q \in settling /\ at[q] = id /\ d # kv[id]
                     THEN overlap[q] \cup {w} ELSE overlap[q]]

-----------------------------------------------------------------------------
(* Requests: the handlers of server.routes.                                *)

Receive(q, r, entry) ==
    /\ pc[q] = "idle"
    /\ pc[r] = "serving"
    /\ pc' = [pc EXCEPT ![q] = entry]
    /\ UNCHANGED <<kv, lag, doc, tries, nxt, overlap, settling>>

Host(q, r) == host' = [host EXCEPT ![q] = r]

ReceiveCreate(q, r) ==
    /\ Receive(q, r, "newid")
    /\ Host(q, r)
    /\ UNCHANGED <<at, upd, code>>

ReceiveUpdate(q, r, id, u) ==
    /\ Receive(q, r, "read")
    /\ Host(q, r)
    /\ at' = [at EXCEPT ![q] = id]
    /\ upd' = [upd EXCEPT ![q] = u]
    /\ UNCHANGED code

ReceiveGet(q, r, id) ==
    /\ Receive(q, r, "get")
    /\ Host(q, r)
    /\ at' = [at EXCEPT ![q] = id]
    /\ UNCHANGED <<upd, code>>

\* A body that does not decode.
ReceiveMalformed(q, r) ==
    /\ Receive(q, r, "done")
    /\ code' = [code EXCEPT ![q] = "400"]
    /\ UNCHANGED <<at, upd, host>>

\* The handler writes its response and returns; its locals are gone.
Answer(q, c) ==
    /\ pc' = [pc EXCEPT ![q] = "done"]
    /\ doc' = [doc EXCEPT ![q] = None]
    /\ tries' = [tries EXCEPT ![q] = 0]
    /\ host' = [host EXCEPT ![q] = None]
    /\ code' = [code EXCEPT ![q] = c]
    /\ UNCHANGED <<at, upd, nxt>>

\* A response that reports no write.
Refuse(q, c) ==
    /\ Answer(q, c)
    /\ UNCHANGED <<overlap, settling>>

\* Mutant: one attempt too many.
DrawTakenTooOften(q, id) ==
    /\ pc[q] = "newid"
    /\ \E d \in Answers(id) : d # None
    /\ tries[q] + 1 <= MaxAttempts
    /\ tries' = [tries EXCEPT ![q] = @ + 1]
    /\ UNCHANGED <<kv, lag, pc, at, doc, upd, host, code, nxt, overlap, settling>>

\* Mutant: the attempts are counted, and the loop never ends.
DrawForever(q, id) ==
    /\ pc[q] = "newid"
    /\ \E d \in Answers(id) : d # None
    /\ tries' = [tries EXCEPT ![q] = (@ + 1) % MaxAttempts]
    /\ UNCHANGED <<kv, lag, pc, at, doc, upd, host, code, nxt, overlap, settling>>

\* One round of the loop in NewID: the id drawn is taken ...
DrawTaken(q, id) ==
    /\ pc[q] = "newid"
    /\ \E d \in Answers(id) : d # None
    /\ tries[q] + 1 < MaxAttempts
    /\ tries' = [tries EXCEPT ![q] = @ + 1]
    /\ UNCHANGED <<kv, lag, pc, at, doc, upd, host, code, nxt, overlap, settling>>

\* Mutant: after the last attempt the id drawn is used all the same.
GiveIn(q, id) ==
    /\ pc[q] = "newid"
    /\ \E d \in Answers(id) : d # None
    /\ tries[q] + 1 >= MaxAttempts
    /\ OpenWrite(q, id, None, Fresh(q))
    /\ UNCHANGED <<kv, lag, handlerVars, nxt, settling>>

\* ... or taken on the last attempt, and Create gives up ...
GiveUp(q, id) ==
    /\ pc[q] = "newid"
    /\ \E d \in Answers(id) : d # None
    /\ tries[q] + 1 >= MaxAttempts
    /\ Refuse(q, "502")
    /\ UNCHANGED <<kv, lag>>

\* Mutant: the id drawn is not looked up.
DrawUnchecked(q, id) ==
    /\ pc[q] = "newid"
    /\ OpenWrite(q, id, kv[id], Fresh(q))
    /\ UNCHANGED <<kv, lag, handlerVars, nxt, settling>>

\* ... or free, and Create builds the shipment it is going to save.
DrawFree(q, id) ==
    /\ pc[q] = "newid"
    /\ None \in Answers(id)
    /\ OpenWrite(q, id, None, Fresh(q))
    /\ UNCHANGED <<kv, lag, handlerVars, nxt, settling>>

\* UpdateStatus reads the document and rewrites it in memory.
UpdateRead(q) ==
    /\ pc[q] = "read"
    /\ \E d \in Answers(at[q]) \ {None} : OpenWrite(q, at[q], d, Updated(d, q, upd[q]))
    /\ UNCHANGED <<kv, lag, handlerVars, nxt, settling>>

GetFound(q) ==
    /\ pc[q] = "get"
    /\ \E d \in Answers(at[q]) : d # None
    /\ Refuse(q, "200")
    /\ UNCHANGED <<kv, lag>>

\* UpdateStatus and GET /shipments/{id} answer 404 for an id they do not find.
NotFound(q) ==
    /\ pc[q] \in {"read", "get"}
    /\ None \in Answers(at[q])
    /\ Refuse(q, "404")
    /\ UNCHANGED <<kv, lag>>

\* A GetItem error, in NewID, UpdateStatus or the GET handler.
ReadFails(q) ==
    /\ pc[q] \in {"newid", "read", "get"}
    /\ Refuse(q, "502")
    /\ UNCHANGED <<kv, lag>>

\* store.Save returned nil: the write is acknowledged.  Every other writer of
\* the id that has already read is now behind it.
SaveOk(q) ==
    /\ pc[q] = "save"
    /\ Put(q)
    /\ Answer(q, IF upd[q] = None THEN "201" ELSE "200")
    /\ overlap' = [overlap EXCEPT ![q] =
                     {w \in Actor \ {q} : pc[w] = "save" /\ at[w] = at[q]}]
    /\ settling' = IF ConsistentRead THEN settling ELSE settling \cup {q}
    /\ UNCHANGED lag

\* Mutant: the error of Save is only logged.
SaveUnchecked(q) ==
    /\ pc[q] = "save"
    /\ PutFails(q)
    /\ Answer(q, IF upd[q] = None THEN "201" ELSE "200")
    /\ UNCHANGED <<lag, overlap, settling>>

SaveFails(q) ==
    /\ pc[q] = "save"
    /\ PutFails(q)
    /\ Refuse(q, "502")
    /\ UNCHANGED lag

HandlerStep(q) ==
    \/ \E id \in Id : DrawTaken(q, id) \/ GiveUp(q, id) \/ DrawFree(q, id)
    \/ UpdateRead(q) \/ GetFound(q) \/ NotFound(q) \/ ReadFails(q)
    \/ SaveOk(q) \/ SaveFails(q)

-----------------------------------------------------------------------------
(* Replicas: main, from Seed to the end of the drain.                      *)

Start(r) ==
    /\ pc[r] = "down"
    /\ pc' = [pc EXCEPT ![r] = "seed"]
    /\ nxt' = [nxt EXCEPT ![r] = 1]
    /\ UNCHANGED <<kv, lag, at, doc, handlerVars, overlap, settling>>

Seeding(r) == pc[r] = "seed" /\ nxt[r] <= Len(SampleData)

SeedPresent(r) ==
    /\ Seeding(r)
    /\ \E d \in Answers(SampleData[nxt[r]].id) : d # None
    /\ nxt' = [nxt EXCEPT ![r] = @ + 1]
    /\ UNCHANGED <<kv, lag, pc, at, doc, handlerVars, overlap, settling>>

\* Mutant: a sample is written whether it is there or not.
SeedBlindly(r) ==
    /\ Seeding(r)
    /\ OpenWrite(r, SampleData[nxt[r]].id, kv[SampleData[nxt[r]].id], Sample(nxt[r], r))
    /\ UNCHANGED <<kv, lag, handlerVars, nxt, settling>>

SeedAbsent(r) ==
    /\ Seeding(r)
    /\ None \in Answers(SampleData[nxt[r]].id)
    /\ OpenWrite(r, SampleData[nxt[r]].id, None, Sample(nxt[r], r))
    /\ UNCHANGED <<kv, lag, handlerVars, nxt, settling>>

SeedSaved(r) ==
    /\ pc[r] = "save"
    /\ Put(r)
    /\ pc' = [pc EXCEPT ![r] = "seed"]
    /\ doc' = [doc EXCEPT ![r] = None]
    /\ nxt' = [nxt EXCEPT ![r] = @ + 1]
    /\ UNCHANGED <<lag, at, handlerVars, overlap, settling>>

\* Mutant: Seed skips the sample an error concerns and goes on.
SeedSkips(r) ==
    /\ \/ Seeding(r) /\ UNCHANGED kv
       \/ pc[r] = "save" /\ PutFails(r)
    /\ pc' = [pc EXCEPT ![r] = "seed"]
    /\ doc' = [doc EXCEPT ![r] = None]
    /\ nxt' = [nxt EXCEPT ![r] = @ + 1]
    /\ UNCHANGED <<lag, at, handlerVars, overlap, settling>>

\* Seed returns at its first error; main logs it and serves what there is.
SeedFails(r) ==
    /\ \/ Seeding(r) /\ UNCHANGED kv
       \/ pc[r] = "save" /\ PutFails(r)
    /\ pc' = [pc EXCEPT ![r] = "serving"]
    /\ doc' = [doc EXCEPT ![r] = None]
    /\ UNCHANGED <<lag, at, handlerVars, nxt, overlap, settling>>

Serve(r) ==
    /\ pc[r] = "seed"
    /\ nxt[r] > Len(SampleData)
    /\ pc' = [pc EXCEPT ![r] = "serving"]
    /\ UNCHANGED <<kv, lag, at, doc, handlerVars, nxt, overlap, settling>>

\* SIGTERM: Shutdown closes the listener and waits for the handlers.
Terminate(r) ==
    /\ pc[r] = "serving"
    /\ pc' = [pc EXCEPT ![r] = "draining"]
    /\ UNCHANGED <<kv, lag, at, doc, handlerVars, nxt, overlap, settling>>

Exit(r) ==
    /\ pc[r] = "draining"
    /\ ServedBy(r) = {}
    /\ pc' = [pc EXCEPT ![r] = "down"]
    /\ UNCHANGED <<kv, lag, at, doc, handlerVars, nxt, overlap, settling>>

\* The process dies: killed, out of memory, SIGTERM before signal.Notify, or a
\* drain that outlives its 10 s.  Its handlers end without a response.  A Put
\* that takes effect as the process dies is a SaveFails or SeedFails before it.
Crash(r) ==
    /\ pc[r] # "down"
    /\ pc' = [a \in Actor |-> IF a = r THEN "down"
                              ELSE IF a \in ServedBy(r) THEN "done" ELSE pc[a]]
    /\ code' = [q \in Request |-> IF q \in ServedBy(r) THEN "gone" ELSE code[q]]
    /\ doc' = [a \in Actor |-> IF a = r \/ a \in ServedBy(r) THEN None ELSE doc[a]]
    /\ tries' = [q \in Request |-> IF q \in ServedBy(r) THEN 0 ELSE tries[q]]
    /\ host' = [q \in Request |-> IF q \in ServedBy(r) THEN None ELSE host[q]]
    /\ UNCHANGED <<kv, lag, at, upd, nxt, overlap, settling>>

BootStep(r) == SeedPresent(r) \/ SeedAbsent(r) \/ SeedSaved(r) \/ SeedFails(r) \/ Serve(r)

-----------------------------------------------------------------------------
Init ==
    /\ kv = [id \in Id |-> None]
    /\ lag = [id \in Id |-> None]
    /\ pc = [a \in Actor |-> IF a \in Replica THEN "down" ELSE "idle"]
    /\ at = [a \in Actor |-> None]
    /\ doc = [a \in Actor |-> None]
    /\ upd = [q \in Request |-> None]
    /\ tries = [q \in Request |-> 0]
    /\ host = [q \in Request |-> None]
    /\ code = [q \in Request |-> "none"]
    /\ nxt = [r \in Replica |-> 1]
    /\ overlap = [q \in Request |-> {}]
    /\ settling = {}

ReceiveAny(q) ==
    \E r \in Replica :
        \/ ReceiveCreate(q, r)
        \/ \E id \in Id : ReceiveGet(q, r, id) \/ \E u \in Update : ReceiveUpdate(q, r, id, u)
        \/ ReceiveMalformed(q, r)

Next ==
    \/ \E q \in Request : ReceiveAny(q) \/ HandlerStep(q)
    \/ \E r \in Replica :
          Start(r) \/ BootStep(r) \/ Terminate(r) \/ Exit(r) \/ Crash(r)
    \/ \E id \in Id : Replicate(id)

Spec == Init /\ [][Next]_vars

-----------------------------------------------------------------------------
(* What the service promises.                                              *)

TypeOK ==
    /\ kv \in [Id -> Shipment \cup {None}]
    /\ lag \in [Id -> Shipment \cup {None}]
    /\ pc \in [Actor -> HandlerStates \cup {"idle", "done"}
                         \cup {"down", "seed", "serving", "draining"}]
    /\ \A r \in Replica : pc[r] \in {"down", "seed", "save", "serving", "draining"}
    /\ \A q \in Request : pc[q] \in HandlerStates \cup {"idle", "done"}
    /\ at \in [Actor -> Id \cup {None}]
    /\ doc \in [Actor -> Shipment \cup {None}]
    /\ upd \in [Request -> Update \cup {None}]
    /\ tries \in [Request -> 0..(MaxAttempts - 1)]
    /\ host \in [Request -> Replica \cup {None}]
    /\ code \in [Request -> {"none", "200", "201", "400", "404", "502", "gone"}]
    /\ nxt \in [Replica -> 1..(Len(SampleData) + 1)]
    /\ overlap \in [Request -> SUBSET Actor]
    /\ settling \subseteq Request

\* The carrier that the request or replica a assigned, given the bodies u of
\* the requests; None if it assigned none.
Assigned(a, u) == IF a \in Request /\ u[a] # None THEN u[a].carrier ELSE None

Coherent(sh, u) ==
    LET n == Len(sh.timeline) IN
    /\ n > 0
    /\ sh.timeline[1] = [status |-> "created", by |-> sh.parcel]
    /\ sh.timeline[n] = [status |-> sh.status, by |-> sh.place]
    /\ \A k \in 1..n :
          (/\ Assigned(sh.timeline[k].by, u) # None
           /\ \A j \in (k+1)..n : Assigned(sh.timeline[j].by, u) = None)
              => sh.carrier = Assigned(sh.timeline[k].by, u)

(* Lost updates, stale reads, half-failed writes and crashes may cost      *)
(* events, but never tear a document: in the table, in every copy a read   *)
(* may answer and in every pending write, the timeline starts with the     *)
(* event of whoever created the shipment, its last event is the one the    *)
(* snapshot (status, location, ETA) was set with, and the carrier is the   *)
(* one assigned last (UpdateStatus, Create, Seed).                         *)
RecordsCoherent ==
    /\ \A id \in Id : kv[id] # None => Coherent(kv[id], upd)
    /\ \A id \in Id : lag[id] # None => Coherent(lag[id], upd)
    /\ \A a \in Actor : pc[a] = "save" => Coherent(doc[a], upd)

\* q, and the writers that could not see q's write.
Excused(q) == {q} \cup overlap[q]

\* The document d has an event of one of the writers W.
Shows(d, W) == d # None /\ Writers(d) \cap W # {}

(* A write the service acknowledged (201 or 200) is lost only to a write   *)
(* that had already read when it was acknowledged, or that read a lagging  *)
(* copy: the table keeps its event, or the event of such a writer.  No     *)
(* crash, failed Put, reboot or later request makes it disappear.          *)
NoSilentLoss == \A q \in Request : Acked(q) => Shows(kv[at[q]], Excused(q))

(* Two acknowledged creates got the same tracking number only if one of    *)
(* them drew it before it could see the other's document (NewID tests the  *)
(* id, Create writes it later; the code accepts that window, no more).     *)
AllocatedApart ==
    \A p, q \in Request :
        p # q /\ code[p] = "201" /\ code[q] = "201" /\ at[p] = at[q]
            => p \in overlap[q] \/ q \in overlap[p]

(* Whatever is restarted, lost or seeded twice: a replica that got past a  *)
(* sample has it in the table, so one that booted without a seed error     *)
(* serves every sample (Seed, for any number of replicas).                 *)
SeedCovers ==
    \A r \in Replica : \A i \in 1..(nxt[r] - 1) : kv[SampleData[i].id] # None

(* A replica told to stop gets rid of its handlers and exits, even while   *)
(* they are in the middle of an allocation (Shutdown in main).             *)
DrainsEnd == \A r \in Replica : pc[r] = "draining" ~> pc[r] = "down"

-----------------------------------------------------------------------------
(* The inductive invariant behind the safety properties.                   *)

\* What the control state says about an actor's variables.
ControlOK ==
    /\ \A q \in Request :
          /\ code[q] # "none" => pc[q] = "done"
          /\ pc[q] = "done" => code[q] # "none"
          /\ pc[q] \in {"read", "get", "save"} \/ Acked(q) => at[q] \in Id
          /\ pc[q] = "read" => upd[q] # None
          /\ pc[q] \in {"idle", "newid", "get"} => upd[q] = None
          /\ pc[q] = "save" /\ upd[q] = None => doc[q] = Fresh(q)
    /\ \A a \in Actor : pc[a] = "save" => doc[a] \in Shipment /\ doc[a].place = a
    /\ \A r \in Replica :
          pc[r] = "save" => nxt[r] <= Len(SampleData) /\ at[r] = SampleData[nxt[r]].id
    /\ \A q \in settling : Acked(q)

\* sh bears the name of no request that, as p says, was not received yet.
Started(sh, p) == \A a \in Writers(sh) \cap Request : p[a] # "idle"

OnlyStarted ==
    /\ \A id \in Id : kv[id] # None => Started(kv[id], pc)
    /\ \A id \in Id : lag[id] # None => Started(lag[id], pc) /\ kv[id] # None
    /\ \A a \in Actor : pc[a] = "save" => Started(doc[a], pc)

\* An acknowledged write is in the table, in every copy that is not known to
\* lag behind it, and in every pending write that is not behind it.
AckedEverywhere ==
    \A q \in Request : Acked(q) =>
        /\ Shows(kv[at[q]], Excused(q))
        /\ ~ConsistentRead /\ q \notin settling => Shows(lag[at[q]], Excused(q))
        /\ \A w \in Actor : pc[w] = "save" /\ at[w] = at[q]
                              => w \in overlap[q] \/ Shows(doc[w], Excused(q))

IInv == /\ TypeOK
        /\ ControlOK
        /\ RecordsCoherent
        /\ OnlyStarted
        /\ AckedEverywhere
        /\ AllocatedApart
        /\ SeedCovers

-----------------------------------------------------------------------------
(* What comments of the code claim, and the interleavings refute.          *)

(* "UpdateStatus appends a timeline event and advances the shipment's      *)
(* current Status": the event of an acknowledged update is in the          *)
(* shipment's timeline.                                                    *)
AckedUpdateKept ==
    \A q \in Request :
        Acked(q) /\ upd[q] # None => q \in Writers(kv[at[q]])

(* Seed is "safe to call on every startup and from multiple replicas       *)
(* concurrently": an acknowledged update that overlapped no other request  *)
(* is not undone by a replica that boots.                                  *)
SeedKeepsUpdates ==
    \A q \in Request :
        Acked(q) /\ upd[q] # None /\ overlap[q] \subseteq Replica
            => q \in Writers(kv[at[q]])

=============================================================================

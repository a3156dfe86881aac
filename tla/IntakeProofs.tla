----------------------------- MODULE IntakeProofs -----------------------------
(***************************************************************************)
(* Proofs about the fleet (Intake), for any set of customers, calls,       *)
(* replicas, ids, samples and updates.  The proofs about the shipments     *)
(* service carry over, because each of its steps in the fleet is one of    *)
(* its own; what is left to show is how intake's handlers and the worker's *)
(* calls stand to the requests that they cause.                            *)
(***************************************************************************)
EXTENDS Intake, ShipmentsProofs

FollowInv == HandlersFollow /\ CallsFollow /\ RecordsFollow

-----------------------------------------------------------------------------
(* A step of the fleet is a step of the shipments service, or leaves it    *)
(* alone.                                                                  *)

LEMMA TakenIsAcked ==
    ASSUME TypeInv, HandlersFollow, NEW i \in posted \cup taken, i \in Customer
    PROVE  i \in Request /\ Acked(i) /\ pc[i] = "done" /\ at[i] \in Id
<1>1. i \in Request /\ code[i] = "201"
  BY CustomerAssumption DEF HandlersFollow
<1> QED
  BY <1>1 DEF TypeInv, ControlOK, Acked

LEMMA FleetStepIsStep ==
    ASSUME TypeInv, HandlersFollow, [FleetNext]_fleetVars
    PROVE  [Next]_vars
<1> USE CustomerAssumption DEF Call
<1>1. ASSUME NEW i \in Customer, NEW r \in Replica, CreateArrives(i, r)
      PROVE  Next
  BY <1>1 DEF CreateArrives, Next, ReceiveAny
<1>2. ASSUME NEW i \in Customer, CreateStep(i)
      PROVE  Next
  BY <1>2 DEF CreateStep, Next
<1>3. ASSUME NEW c \in Call, CallStep(c)
      PROVE  Next
  BY <1>3 DEF CallStep, Next
<1>4. ASSUME NEW c \in Call, NEW i \in Customer, NEW r \in Replica, Attempt(c, i, r)
      PROVE  Next
  <2>1. at[i] \in Id
    BY <1>4, TakenIsAcked DEF Attempt
  <2>2. ReceiveAny(c)
    BY <1>4, <2>1 DEF Attempt, Assignments, ReceiveAny
  <2> QED
    BY <2>2 DEF Next
<1>5. CASE TableStep
  BY <1>5 DEF TableStep, Next
<1>6. ASSUME NEW i \in Customer,
             \/ SubmitInvalid(i) \/ Submit(i) \/ CreateOk(i) \/ CreateError(i)
             \/ TakeDispatch(i) \/ DeclineDispatch(i) \/ DispatchOk(i)
             \/ DispatchError(i) \/ Lose(i) \/ WorkStep(i)
      PROVE  UNCHANGED vars
  BY <1>6 DEF SubmitInvalid, Submit, CreateOk, CreateError, PostDispatch, TakeDispatch,
              DeclineDispatch, DispatchOk, DispatchError, Lose, WorkStep
<1>7. CASE UNCHANGED fleetVars
  BY <1>7 DEF fleetVars
<1> QED
  BY <1>1, <1>2, <1>3, <1>4, <1>5, <1>6, <1>7 DEF FleetNext

-----------------------------------------------------------------------------
(* What a step of the service does to a request.                           *)

\* A request goes on, or is left alone: it is not received, keeps its body and,
\* once it has one, its id; what it was told stands.
Onward(q) ==
    /\ pc'[q] = "idle" <=> pc[q] = "idle"
    /\ pc'[q] = "newid" => pc[q] = "newid"
    /\ upd'[q] = upd[q]
    /\ at'[q] = at[q] \/ pc[q] = "newid"
    /\ code[q] \in {"200", "201"} => code'[q] = code[q]

LEMMA HandlerOnward ==
    ASSUME TypeInv, NEW q \in Request, HandlerStep(q)
    PROVE  \A p \in Request : Onward(p)
<1> SUFFICES ASSUME NEW p \in Request
             PROVE  Onward(p)
  OBVIOUS
<1> USE DEF Onward, TypeInv, TypeOK, ControlOK, Actor
<1>1. q \in Actor /\ p \in Actor
  OBVIOUS
<1>2. ASSUME NEW id \in Id, DrawTaken(q, id)
      PROVE  Onward(p)
  BY <1>1, <1>2 DEF DrawTaken
<1>3. ASSUME NEW id \in Id, DrawFree(q, id)
      PROVE  Onward(p)
  BY <1>1, <1>3 DEF DrawFree, OpenWrite, handlerVars
<1>4. CASE UpdateRead(q)
  BY <1>1, <1>4 DEF UpdateRead, OpenWrite, handlerVars
<1>5. ASSUME NEW c, Answer(q, c), pc[q] \in HandlerStates
      PROVE  Onward(p)
  BY <1>1, <1>5 DEF Answer, HandlerStates
<1>6. ASSUME NEW id \in Id, GiveUp(q, id)
      PROVE  Onward(p)
  BY <1>5, <1>6 DEF GiveUp, Refuse, HandlerStates
<1>7. CASE GetFound(q) \/ NotFound(q) \/ ReadFails(q)
  BY <1>5, <1>7 DEF GetFound, NotFound, ReadFails, Refuse, HandlerStates
<1>8. CASE SaveOk(q) \/ SaveFails(q)
  BY <1>5, <1>8 DEF SaveOk, SaveFails, Refuse, HandlerStates
<1> QED
  BY <1>2, <1>3, <1>4, <1>6, <1>7, <1>8 DEF HandlerStep

LEMMA TableOnward ==
    ASSUME TypeInv, TableStep
    PROVE  \A p \in Request : Onward(p)
<1> SUFFICES ASSUME NEW p \in Request
             PROVE  Onward(p)
  OBVIOUS
<1> USE ActorsAssumption DEF Onward, TypeInv, TypeOK, ControlOK, Actor, handlerVars
<1>1. ASSUME NEW r \in Replica, Start(r) \/ Terminate(r) \/ Exit(r)
      PROVE  Onward(p)
  BY <1>1 DEF Start, Terminate, Exit
<1>2. ASSUME NEW r \in Replica, BootStep(r)
      PROVE  Onward(p)
  BY <1>2 DEF BootStep, SeedPresent, SeedAbsent, OpenWrite, SeedSaved, SeedFails, Serve
<1>3. ASSUME NEW r \in Replica, Crash(r)
      PROVE  Onward(p)
  BY <1>3 DEF Crash, ServedBy, Handling, HandlerStates
<1>4. ASSUME NEW id \in Id, Replicate(id)
      PROVE  Onward(p)
  BY <1>4 DEF Replicate
<1> QED
  BY <1>1, <1>2, <1>3, <1>4 DEF TableStep

\* A request that is received: nothing happens to the others.
LEMMA ReceiveOnward ==
    ASSUME TypeInv, NEW q \in Request, NEW r \in Replica, NEW entry \in {"newid", "read", "get"},
           Receive(q, r, entry), UNCHANGED code,
           \A p \in Request \ {q} : upd'[p] = upd[p] /\ at'[p] = at[p]
    PROVE  /\ pc[q] = "idle" /\ pc'[q] = entry /\ code'[q] = "none"
           /\ \A p \in Request \ {q} : Onward(p)
BY DEF Receive, Onward, TypeInv, TypeOK, ControlOK, Actor

-----------------------------------------------------------------------------
(* Intake's handlers and the calls of the worker, one kind of step at a    *)
(* time.                                                                   *)

\* Steps of the shipments service, as intake's handlers see them.
LEMMA HandlersKept ==
    ASSUME HandlersFollow, UNCHANGED <<intakeVars, posted, taken>>,
           FleetTypeOK,
           \A i \in Customer :
              Onward(i) \/ (Sent(i) /\ code'[i] = code[i] /\ upd'[i] = upd[i])
    PROVE  HandlersFollow'
<1>1. /\ step' = step /\ reply' = reply /\ logged' = logged
      /\ posted' = posted /\ taken' = taken
  BY DEF intakeVars
<1>2. ASSUME NEW i \in Customer
      PROVE  /\ ~Sent(i) => pc'[i] = "idle"
             /\ upd'[i] = None
             /\ code[i] = "201" => code'[i] = "201"
  BY <1>2 DEF HandlersFollow, Onward
<1>3. \A i \in posted \cup taken : i \in Customer
  BY DEF FleetTypeOK
<1> QED
  BY <1>1, <1>2, <1>3 DEF HandlersFollow, Sent

\* Steps of the shipments service, as the worker's calls see them: if one is
\* received, it is at the id of the message it is for.
LEMMA CallsKept ==
    ASSUME TypeInv, FleetTypeOK, HandlersFollow, CallsFollow, UNCHANGED taken,
           \A i \in Customer : Onward(i) \/ pc[i] = "idle",
           \A c \in Call :
              \/ Onward(c) /\ on'[c] = on[c]
              \/ /\ on'[c] \in taken /\ at'[c] = at[on'[c]] /\ pc'[c] # "newid"
                 /\ upd'[c] # None => upd'[c] \in Assignments
    PROVE  CallsFollow'
<1>1. None \notin Customer
  BY NoneAssumption, CustomerAssumption
<1>2. ASSUME NEW i \in taken
      PROVE  i \in Customer /\ at'[i] = at[i]
  <2>1. i \in Customer
    BY DEF FleetTypeOK
  <2>2. pc[i] = "done"
    BY <2>1, TakenIsAcked
  <2> QED
    BY <2>1, <2>2 DEF Onward
<1>3. ASSUME NEW c \in Call
      PROVE  /\ pc'[c] # "newid"
             /\ pc'[c] # "idle" => on'[c] # None
             /\ on'[c] # None => on'[c] \in taken /\ at'[c] = at'[on'[c]]
             /\ upd'[c] # None => upd'[c] \in Assignments
  <2>1. CASE Onward(c) /\ on'[c] = on[c]
    BY <1>2, <2>1 DEF CallsFollow, Onward
  <2>2. CASE /\ on'[c] \in taken /\ at'[c] = at[on'[c]] /\ pc'[c] # "newid"
             /\ upd'[c] # None => upd'[c] \in Assignments
    BY <1>1, <1>2, <2>2
  <2> QED
    BY <2>1, <2>2
<1> QED
  BY <1>3 DEF CallsFollow

\* What is on record stays there.
LEMMA RecordsKept ==
    ASSUME RecordsFollow, told' \subseteq recorded',
           \A i \in recorded' \ recorded :
              \E c \in Call : on'[c] = i /\ code'[c] = "200" /\ upd'[c] # None,
           \A c \in Call :
              (Onward(c) /\ on'[c] = on[c]) \/ code[c] = "none"
    PROVE  RecordsFollow'
<1> SUFFICES ASSUME NEW i \in recorded'
             PROVE  \E c \in Call : on'[c] = i /\ code'[c] = "200" /\ upd'[c] # None
  BY DEF RecordsFollow
<1>1. CASE i \in recorded
  <2>1. PICK c \in Call : on[c] = i /\ code[c] = "200" /\ upd[c] # None
    BY <1>1 DEF RecordsFollow
  <2>2. on'[c] = i /\ code'[c] = "200" /\ upd'[c] # None
    BY <2>1 DEF Onward
  <2> QED
    BY <2>2
<1> QED
  BY <1>1

-----------------------------------------------------------------------------
(* The steps that only the shipments service makes on its own, and those   *)
(* of the requests that it handles.                                        *)

FleetState == FleetTypeOK /\ TypeInv /\ FollowInv

LEMMA ApartStep ==
    ASSUME FleetState, TypeInv', Apart, \A p \in Request : Onward(p)
    PROVE  FollowInv' /\ FleetTypeOK'
<1>1. /\ UNCHANGED <<intakeVars, posted, taken, on>>
      /\ UNCHANGED <<owed, recorded, told, unknown, dead>>
  BY DEF Apart, workVars
<1>2. /\ \A i \in Customer : Onward(i)
      /\ \A c \in Call : Onward(c)
  BY CustomerAssumption DEF Call
<1>3. HandlersFollow'
  BY <1>1, <1>2, HandlersKept DEF FleetState, FollowInv
<1>4. CallsFollow'
  BY <1>1, <1>2, CallsKept DEF FleetState, FollowInv
<1>5. RecordsFollow'
  BY <1>1, <1>2, RecordsKept DEF FleetState, FollowInv, RecordsFollow
<1>6. FleetTypeOK'
  BY <1>1 DEF FleetState, FleetTypeOK, TypeInv, intakeVars
<1> QED
  BY <1>3, <1>4, <1>5, <1>6 DEF FollowInv

LEMMA ArrivalStep ==
    ASSUME FleetState, TypeInv', NEW i \in Customer, NEW r \in Replica, CreateArrives(i, r)
    PROVE  FollowInv' /\ FleetTypeOK'
<1>1. i \in Request /\ Sent(i) /\ ReceiveCreate(i, r) /\ Apart
  BY CustomerAssumption DEF CreateArrives
<1>2. /\ UNCHANGED <<intakeVars, posted, taken, on>>
      /\ UNCHANGED <<owed, recorded, told, unknown, dead>>
      /\ UNCHANGED <<at, upd, code>>
  BY <1>1 DEF Apart, workVars, ReceiveCreate
<1>3. pc[i] = "idle" /\ \A p \in Request \ {i} : Onward(p)
  BY <1>1, <1>2, ReceiveOnward DEF ReceiveCreate, FleetState
<1>4. /\ \A p \in Customer : Onward(p) \/ p = i
      /\ \A c \in Call : Onward(c)
  BY <1>3, CustomerAssumption DEF Call
<1>5. HandlersFollow'
  BY <1>1, <1>2, <1>4, HandlersKept DEF FleetState, FollowInv
<1>6. CallsFollow'
  BY <1>2, <1>3, <1>4, CallsKept DEF FleetState, FollowInv
<1>7. RecordsFollow'
  BY <1>2, <1>4, RecordsKept DEF FleetState, FollowInv, RecordsFollow
<1>8. FleetTypeOK'
  BY <1>2 DEF FleetState, FleetTypeOK, TypeInv, intakeVars
<1> QED
  BY <1>5, <1>6, <1>7, <1>8 DEF FollowInv

LEMMA AttemptStep ==
    ASSUME FleetState, TypeInv', NEW c \in Call, NEW i \in Customer, NEW r \in Replica,
           Attempt(c, i, r)
    PROVE  FollowInv' /\ FleetTypeOK'
<1>1. c \in Request /\ i \in taken /\ on' = [on EXCEPT ![c] = i]
  BY DEF Attempt, Call
<1>2. /\ UNCHANGED <<intakeVars, posted, taken>>
      /\ UNCHANGED <<owed, recorded, told, unknown, dead>>
  BY DEF Attempt, workVars
<1>3. PICK entry \in {"read", "get"} :
        /\ Receive(c, r, entry)
        /\ at' = [at EXCEPT ![c] = at[i]]
        /\ UNCHANGED code
        /\ \A p \in Request \ {c} : upd'[p] = upd[p]
        /\ upd'[c] = upd[c] \/ upd'[c] \in Assignments
  BY <1>1 DEF Attempt, ReceiveGet, ReceiveUpdate, FleetState, TypeInv, TypeOK
<1>4. c \in Actor /\ at'[c] = at[i] /\ \A p \in Request \ {c} : at'[p] = at[p]
  BY <1>1, <1>3 DEF FleetState, TypeInv, TypeOK, Actor
<1>5. /\ pc[c] = "idle" /\ pc'[c] = entry /\ code'[c] = "none"
      /\ \A p \in Request \ {c} : Onward(p)
  BY <1>1, <1>3, <1>4, ReceiveOnward DEF FleetState
<1>6. /\ \A p \in Customer : Onward(p)
      /\ \A b \in Call \ {c} : Onward(b) /\ on'[b] = on[b]
  BY <1>1, <1>5, CustomerAssumption DEF Call, FleetState, FleetTypeOK
<1>7. on'[c] = i
  BY <1>1 DEF FleetState, FleetTypeOK
<1>8. HandlersFollow'
  BY <1>2, <1>6, HandlersKept DEF FleetState, FollowInv
<1>9. CallsFollow'
  <2>1. upd'[c] # None => upd'[c] \in Assignments
    BY <1>3 DEF FleetState, FollowInv, CallsFollow
  <2> QED
    BY <1>1, <1>2, <1>4, <1>5, <1>6, <1>7, <2>1, CallsKept DEF FleetState, FollowInv
<1>10. RecordsFollow'
  BY <1>2, <1>3, <1>5, <1>6, RecordsKept DEF FleetState, FollowInv, RecordsFollow
<1>11. FleetTypeOK'
  BY <1>1, <1>2 DEF FleetState, FleetTypeOK, TypeInv, intakeVars
<1> QED
  BY <1>8, <1>9, <1>10, <1>11 DEF FollowInv

LEMMA CallsTakeTheirCourse ==
    ASSUME FleetState, TypeInv', NEW c \in Call, CallStep(c)
    PROVE  FollowInv' /\ FleetTypeOK'
<1>1. c \in Request /\ HandlerStep(c) /\ UNCHANGED <<intakeVars, posted, taken, on>>
  BY DEF CallStep, Call
<1>2. \A p \in Request : Onward(p)
  BY <1>1, HandlerOnward DEF FleetState
<1>3. /\ \A i \in Customer : Onward(i)
      /\ \A b \in Call : Onward(b) /\ on'[b] = on[b]
  BY <1>1, <1>2, CustomerAssumption DEF Call
<1>4. on[c] \in Customer
  <2>1. pc[c] # "idle"
    BY <1>1 DEF HandlerStep, DrawTaken, GiveUp, DrawFree, UpdateRead, GetFound, NotFound,
                ReadFails, SaveOk, SaveFails
  <2> QED
    BY <2>1 DEF FleetState, FollowInv, CallsFollow, FleetTypeOK
<1>5. \/ /\ code'[c] = "200" /\ upd[c] # None
         /\ recorded' = recorded \cup {on[c]} /\ UNCHANGED <<owed, told, unknown, dead>>
      \/ unknown' = unknown \cup {on[c]} /\ UNCHANGED <<owed, recorded, told, dead>>
      \/ UNCHANGED <<owed, recorded, told, unknown, dead>>
  BY DEF CallStep, workVars, Promise!Record, Promise!FindUnknown
<1>6. HandlersFollow'
  BY <1>1, <1>3, HandlersKept DEF FleetState, FollowInv
<1>7. CallsFollow'
  BY <1>1, <1>3, CallsKept DEF FleetState, FollowInv
<1>8. RecordsFollow'
  <2>1. told' \subseteq recorded' /\ recorded' \ recorded \subseteq {on[c]}
    BY <1>5 DEF FleetState, FollowInv, RecordsFollow
  <2>2. recorded' # recorded => on'[c] = on[c] /\ code'[c] = "200" /\ upd'[c] # None
    BY <1>1, <1>2, <1>5 DEF Onward
  <2> QED
    BY <1>3, <2>1, <2>2, RecordsKept DEF FleetState, FollowInv
<1>9. FleetTypeOK'
  BY <1>1, <1>4, <1>5 DEF FleetState, FleetTypeOK, TypeInv, intakeVars
<1> QED
  BY <1>6, <1>7, <1>8, <1>9 DEF FollowInv

-----------------------------------------------------------------------------
(* The steps of intake and of the worker, which leave the service alone.   *)

\* A handler of intake moves on: from what to what.
LEMMA IntakeMoves ==
    ASSUME FleetState, NEW i \in Customer,
           \/ SubmitInvalid(i) \/ Submit(i) \/ CreateOk(i) \/ CreateError(i)
           \/ DispatchOk(i) \/ DispatchError(i) \/ Lose(i)
    PROVE  FollowInv' /\ FleetTypeOK'
<1>1. /\ UNCHANGED <<pc, at, upd, code, taken, on>>
      /\ UNCHANGED <<owed, recorded, told, unknown, dead>>
      /\ UNCHANGED vars
  BY DEF SubmitInvalid, Submit, CreateOk, CreateError, PostDispatch, DispatchOk,
         DispatchError, Lose, vars, workVars
<1>2. CallsFollow' /\ RecordsFollow'
  BY <1>1 DEF FleetState, FollowInv, CallsFollow, RecordsFollow
<1>3. TypeOK'
  BY <1>1 DEF FleetState, TypeInv, TypeOK, vars
<1>4. HandlersFollow' /\ FleetTypeOK'
  <2> USE <1>1, <1>3 DEF FleetState, FollowInv, HandlersFollow, FleetTypeOK, Sent, Finish, Log
  <2>1. CASE SubmitInvalid(i)
    BY <2>1 DEF SubmitInvalid
  <2>2. CASE Submit(i)
    BY <2>2 DEF Submit
  <2>3. CASE CreateOk(i)
    BY <2>3 DEF CreateOk, PostDispatch
  <2>4. CASE CreateError(i)
    BY <2>4 DEF CreateError
  <2>5. CASE DispatchOk(i)
    BY <2>5 DEF DispatchOk
  <2>6. CASE DispatchError(i)
    BY <2>6 DEF DispatchError
  <2>7. CASE Lose(i)
    BY <2>7 DEF Lose
  <2> QED
    BY <2>1, <2>2, <2>3, <2>4, <2>5, <2>6, <2>7
<1> QED
  BY <1>2, <1>4 DEF FollowInv

LEMMA WorkMoves ==
    ASSUME FleetState, NEW i \in Customer,
           TakeDispatch(i) \/ DeclineDispatch(i) \/ WorkStep(i)
    PROVE  FollowInv' /\ FleetTypeOK'
<1>1. UNCHANGED <<vars, intakeVars, on>> /\ UNCHANGED <<pc, at, upd, code>>
  BY DEF TakeDispatch, DeclineDispatch, WorkStep, vars
<1>2. /\ taken \subseteq taken'
      /\ posted' \subseteq posted
      /\ taken' \subseteq taken \cup posted
  BY DEF TakeDispatch, DeclineDispatch, WorkStep
<1>3. /\ owed' \subseteq owed \cup {i}
      /\ recorded' = recorded
      /\ told' = told \/ (told' = told \cup {i} /\ i \in recorded)
      /\ unknown' = unknown
      /\ dead' \subseteq dead \cup {i}
  BY DEF TakeDispatch, DeclineDispatch, WorkStep, workVars, Promise!Accept, Promise!Tell,
         Promise!Finish, Promise!GiveUp
<1>4. TypeOK'
  BY <1>1 DEF FleetState, TypeInv, TypeOK, vars
<1>5. FleetTypeOK'
  BY <1>1, <1>2, <1>3, <1>4 DEF FleetState, FleetTypeOK, intakeVars
<1>6. HandlersFollow'
  BY <1>1, <1>2 DEF FleetState, FollowInv, HandlersFollow, Sent, intakeVars
<1>7. CallsFollow' /\ RecordsFollow'
  BY <1>1, <1>2, <1>3 DEF FleetState, FollowInv, CallsFollow, RecordsFollow
<1> QED
  BY <1>5, <1>6, <1>7 DEF FollowInv

-----------------------------------------------------------------------------
(* Dated documents: what the page shows as done has an event.              *)

\* The page finds the current stage of a document where it is in STAGES.
LEMMA CurrentIndexIs ==
    ASSUME NEW sh, NEW n \in 1..Len(STAGES), sh.status = STAGES[n]
    PROVE  CurrentIndex(sh) = n
<1>1. \A i, j \in 1..Len(STAGES) : STAGES[i] = STAGES[j] => i = j
  BY DEF STAGES
<1> HIDE DEF STAGES
<1> QED
  BY <1>1 DEF CurrentIndex

\* A document is dated when every stage up to its own has an event.
LEMMA DatedWhen ==
    ASSUME NEW sh, NEW n \in 1..Len(STAGES), sh.status = STAGES[n],
           \A i \in 1..n : STAGES[i] \in DatedStages(sh)
    PROVE  Dated(sh)
BY CurrentIndexIs DEF Dated, DoneStages

LEMMA FreshDated ==
    ASSUME NEW q \in Request
    PROVE  Dated(Fresh(q))
<1>1. 1 \in 1..Len(STAGES) /\ STAGES[1] = "created"
  BY DEF STAGES
<1>2. Fresh(q).status = "created" /\ "created" \in DatedStages(Fresh(q))
  BY DEF Fresh, DatedStages
<1>3. \A i \in 1..1 : i = 1
  OBVIOUS
<1> QED
  BY <1>1, <1>2, <1>3, DatedWhen

\* sampleData skips no stage.
LEMMA SampleDated ==
    ASSUME NEW r \in Replica, NEW i \in 1..Len(SampleData)
    PROVE  Dated(Sample(i, r))
<1> DEFINE st == SampleData[i].stages
           n == Len(st)
           sh == Sample(i, r)
<1>1. st \in Seq(Status) /\ st # <<>>
  <2>1. SampleData[i] \in SampleRecord /\ SampleData[i].stages # <<>>
    BY SampleAssumption
  <2> QED
    BY <2>1 DEF SampleRecord
<1>2. n \in Nat /\ n > 0 /\ n <= Len(STAGES)
  BY <1>1, SampleStagesAssumption
<1>3. \A k \in 1..n : st[k] = STAGES[k]
  BY SampleStagesAssumption
<1>4. /\ sh.status = st[n]
      /\ sh.timeline = [k \in 1..n |-> [status |-> st[k], by |-> r]]
  BY DEF Sample
<1>5. Len(sh.timeline) = n
  BY <1>2, <1>4
<1> HIDE DEF st, n, sh
<1>6. n \in 1..Len(STAGES) /\ n \in 1..n
  BY <1>2 DEF STAGES
<1>7. sh.status = STAGES[n]
  BY <1>3, <1>4, <1>6
<1>8. ASSUME NEW k \in 1..n
      PROVE  STAGES[k] \in DatedStages(sh)
  <2>1. sh.timeline[k].status = STAGES[k]
    BY <1>3, <1>4
  <2> QED
    BY <1>5, <2>1 DEF DatedStages
<1>9. Dated(sh)
  BY <1>6, <1>7, <1>8, DatedWhen
<1> QED
  BY <1>9 DEF sh

\* An assignment is dated, whatever it was written over.
LEMMA AssignmentDated ==
    ASSUME NEW sh \in Shipment, NEW u, Coherent(sh, u), NEW q \in Request,
           NEW b \in Assignments
    PROVE  Dated(Updated(sh, q, b))
<1> DEFINE e == [status |-> b.status, by |-> q]
           t == sh.timeline
           new == Updated(sh, q, b)
<1>1. t \in Seq(Event) /\ Len(t) \in Nat /\ Len(t) > 0 /\ t[1].status = "created"
  BY DEF Shipment, Coherent
<1>2. new.status = "picked_up" /\ new.timeline = Append(t, e)
  BY DEF Updated, Shipment, Assignments
<1>3. /\ Len(new.timeline) = Len(t) + 1
      /\ new.timeline[1].status = "created"
      /\ new.timeline[Len(t) + 1].status = "picked_up"
  BY <1>1, <1>2 DEF Assignments
<1>4. "created" \in DatedStages(new) /\ "picked_up" \in DatedStages(new)
  <2>1. 1 \in 1..Len(new.timeline) /\ Len(t) + 1 \in 1..Len(new.timeline)
    BY <1>1, <1>3
  <2> HIDE DEF new, t
  <2> QED
    BY <1>3, <2>1 DEF DatedStages
<1> HIDE DEF new
<1>5. 2 \in 1..Len(STAGES) /\ STAGES[1] = "created" /\ STAGES[2] = "picked_up"
  BY DEF STAGES
<1>6. \A i \in 1..2 : i = 1 \/ i = 2
  OBVIOUS
<1>7. Dated(new)
  BY <1>2, <1>4, <1>5, <1>6, DatedWhen
<1> QED
  BY <1>7 DEF new

DatedInv == DoneStagesAreDated /\ PendingDated

\* A step of the shipments service keeps documents dated, when the only
\* updates that are made are assignments.
LEMMA DatedStep ==
    ASSUME TypeInv, RecordsCoherent, DatedInv, StepKind,
           \A q \in Request : upd[q] # None => upd[q] \in Assignments
    PROVE  DatedInv'
<1>1. /\ \A id \in Id : kv[id] # None => Dated(kv[id])
      /\ \A id \in Id : lag[id] # None => Dated(lag[id])
      /\ \A a \in Actor : Pending(a) => Dated(doc[a])
  BY DEF DatedInv, DoneStagesAreDated, PendingDated, Pending
<1>2. ASSUME \A id \in Id : \/ kv'[id] = kv[id]
                           \/ \E w \in Actor : Pending(w) /\ kv'[id] = doc[w],
             \A id \in Id : lag'[id] = lag[id] \/ lag'[id] = kv[id],
             \A a \in Actor : pc'[a] = "save" =>
                (Pending(a) /\ doc'[a] = doc[a]) \/ Dated(doc'[a])
      PROVE  DatedInv'
  <2>1. \A id \in Id : kv'[id] # None => Dated(kv'[id])
    BY <1>1, <1>2
  <2>2. \A id \in Id : lag'[id] # None => Dated(lag'[id])
    BY <1>1, <1>2
  <2>3. \A a \in Actor : pc'[a] = "save" => Dated(doc'[a])
    BY <1>1, <1>2
  <2>4. \A id \in Id : \A sh \in {kv'[id], lag'[id]} \ {None} : Dated(sh)
    BY <2>1, <2>2
  <2> QED
    BY <2>3, <2>4 DEF DatedInv, DoneStagesAreDated, PendingDated
<1>3. ASSUME KeepsPending({})
      PROVE  \A a \in Actor : pc'[a] = "save" => Pending(a) /\ doc'[a] = doc[a]
  BY <1>3 DEF KeepsPending, Pending
<1>4. CASE PlainStep
  <2>1. \A id \in Id : \/ kv'[id] = kv[id]
                      \/ \E w \in Actor : Pending(w) /\ kv'[id] = doc[w]
    BY <1>4 DEF PlainStep, Put, TypeInv, TypeOK
  <2> QED
    BY <1>2, <1>3, <1>4, <2>1 DEF PlainStep
<1>5. ASSUME NEW w \in Actor, NEW id \in Id, NEW d \in Answers(id), NEW new \in Shipment,
             OpenStep(w, id, d, new)
      PROVE  DatedInv'
  <2>1. Dated(new)
    <3>1. CASE d = None
      BY <1>5, <3>1, FreshDated, SampleDated DEF OpenStep, NewDocument
    <3>2. CASE d # None
      <4>1. w \in Request /\ upd[w] \in Assignments /\ new = Updated(d, w, upd[w])
        BY <1>5, <3>2, NoneAssumption, UpdateAssumption DEF OpenStep
      <4>2. d \in Shipment /\ Coherent(d, upd)
        BY <3>2, AnswersType DEF TypeInv, RecordsCoherent
      <4> QED
        BY <4>1, <4>2, AssignmentDated
    <3> QED
      BY <3>1, <3>2
  <2>2. doc'[w] = new
    BY <1>5 DEF OpenStep, OpenWrite, TypeInv, TypeOK
  <2>3. \A a \in Actor : pc'[a] = "save" =>
                (Pending(a) /\ doc'[a] = doc[a]) \/ Dated(doc'[a])
    BY <1>5, <2>1, <2>2 DEF OpenStep, KeepsPending, Pending
  <2> QED
    BY <1>2, <1>5, <2>3 DEF OpenStep
<1>6. ASSUME NEW q \in Request, AckStep(q)
      PROVE  DatedInv'
  <2>1. q \in Actor /\ Pending(q)
    BY <1>6 DEF AckStep, SaveOk, Actor, Pending
  <2>2. lag' = lag /\ \A id \in Id : kv'[id] = kv[id] \/ kv'[id] = doc[q]
    BY <1>6 DEF AckStep, SaveOk, Put, TypeInv, TypeOK
  <2> QED
    BY <1>2, <1>3, <1>6, <2>1, <2>2 DEF AckStep
<1>7. ASSUME NEW id \in Id, LagStep(id)
      PROVE  DatedInv'
  <2>1. kv' = kv /\ \A i \in Id : lag'[i] = lag[i] \/ lag'[i] = kv[i]
    BY <1>7 DEF LagStep, Replicate, TypeInv, TypeOK
  <2> QED
    BY <1>2, <1>3, <1>7, <2>1 DEF LagStep
<1> QED
  BY <1>4, <1>5, <1>6, <1>7 DEF StepKind

-----------------------------------------------------------------------------
(* The inductive invariant.                                                *)

LEMMA FleetInvInit == FleetInit => FleetInv
<1> SUFFICES ASSUME FleetInit
             PROVE  FleetInv
  OBVIOUS
<1> USE CustomerAssumption DEF FleetInit, Promise!Init
<1>1. IInv /\ TypeOK
  BY InvInit DEF IInv
<1>2. \A q \in Request : q \in Actor /\ pc[q] = "idle" /\ upd[q] = None /\ code[q] = "none"
  BY ActorsAssumption DEF Init, Actor
<1>3. FleetTypeOK
  BY <1>1 DEF FleetTypeOK
<1>4. HandlersFollow /\ CallsFollow /\ RecordsFollow
  BY <1>2 DEF HandlersFollow, CallsFollow, RecordsFollow, Call, Sent
<1>5. DoneStagesAreDated /\ PendingDated
  BY DEF Init, DoneStagesAreDated, PendingDated
<1> QED
  BY <1>1, <1>3, <1>4, <1>5 DEF FleetInv

LEMMA FleetInvStep == FleetInv /\ [FleetNext]_fleetVars => FleetInv'
<1> SUFFICES ASSUME FleetInv, [FleetNext]_fleetVars
             PROVE  FleetInv'
  OBVIOUS
<1>1. FleetState /\ TypeInv
  BY DEF FleetInv, IInv, FleetState, TypeInv, FollowInv
<1>2. IInv'
  BY <1>1, FleetStepIsStep, InvStep DEF FleetInv
<1>3. TypeInv'
  BY <1>2 DEF IInv, TypeInv
<1>4. ASSUME NEW i \in Customer, CreateStep(i)
      PROVE  FollowInv' /\ FleetTypeOK'
  <2>1. i \in Request /\ HandlerStep(i) /\ Apart
    BY <1>4, CustomerAssumption DEF CreateStep
  <2>2. \A p \in Request : Onward(p)
    BY <1>1, <2>1, HandlerOnward
  <2> QED
    BY <1>1, <1>3, <2>1, <2>2, ApartStep
<1>5. ASSUME TableStep
      PROVE  FollowInv' /\ FleetTypeOK'
  <2>1. \A p \in Request : Onward(p)
    BY <1>1, <1>5, TableOnward
  <2>2. Apart
    BY <1>5 DEF TableStep
  <2> QED
    BY <1>1, <1>3, <2>1, <2>2, ApartStep
<1>6. ASSUME UNCHANGED fleetVars
      PROVE  FollowInv' /\ FleetTypeOK'
  <2>1. /\ UNCHANGED <<kv, lag, pc, at, doc, upd, tries, host, code, nxt, overlap, settling>>
        /\ UNCHANGED <<step, reply, logged, posted, taken, on>>
        /\ UNCHANGED <<owed, recorded, told, unknown, dead>>
    BY <1>6 DEF fleetVars, vars, intakeVars, workVars
  <2>2. FleetTypeOK'
    BY <1>1, <1>3, <2>1 DEF FleetState, FleetTypeOK, TypeInv
  <2>3. HandlersFollow'
    BY <1>1, <2>1 DEF FleetState, FollowInv, HandlersFollow, Sent
  <2>4. CallsFollow' /\ RecordsFollow'
    BY <1>1, <2>1 DEF FleetState, FollowInv, CallsFollow, RecordsFollow
  <2> QED
    BY <2>2, <2>3, <2>4 DEF FollowInv
<1>7. FollowInv' /\ FleetTypeOK'
  <2>1. ASSUME NEW i \in Customer, NEW r \in Replica, CreateArrives(i, r)
        PROVE  FollowInv' /\ FleetTypeOK'
    BY <1>1, <1>3, <2>1, ArrivalStep
  <2>2. ASSUME NEW c \in Call, NEW i \in Customer, NEW r \in Replica, Attempt(c, i, r)
        PROVE  FollowInv' /\ FleetTypeOK'
    BY <1>1, <1>3, <2>2, AttemptStep
  <2>3. ASSUME NEW c \in Call, CallStep(c)
        PROVE  FollowInv' /\ FleetTypeOK'
    BY <1>1, <1>3, <2>3, CallsTakeTheirCourse
  <2>4. ASSUME NEW i \in Customer,
               \/ SubmitInvalid(i) \/ Submit(i) \/ CreateOk(i) \/ CreateError(i)
               \/ DispatchOk(i) \/ DispatchError(i) \/ Lose(i)
        PROVE  FollowInv' /\ FleetTypeOK'
    BY <1>1, <2>4, IntakeMoves
  <2>5. ASSUME NEW i \in Customer, TakeDispatch(i) \/ DeclineDispatch(i) \/ WorkStep(i)
        PROVE  FollowInv' /\ FleetTypeOK'
    BY <1>1, <2>5, WorkMoves
  <2> QED
    BY <1>4, <1>5, <1>6, <2>1, <2>2, <2>3, <2>4, <2>5 DEF FleetNext
<1>8. DatedInv'
  <2>1. \A q \in Request : upd[q] # None => upd[q] \in Assignments
    BY DEF FleetInv, HandlersFollow, CallsFollow, Call
  <2>2. StepKind
    BY <1>1, FleetStepIsStep, StepKinds DEF FleetInv
  <2> QED
    BY <1>1, <2>1, <2>2, DatedStep DEF FleetInv, IInv, DatedInv
<1> QED
  BY <1>2, <1>7, <1>8 DEF FleetInv, FollowInv, DatedInv

(* The inductive invariant of the fleet holds in every reachable state.    *)
THEOREM FleetInvariance == FleetSpec => []FleetInv
BY FleetInvInit, FleetInvStep, PTL DEF FleetSpec

(* Every variable of the fleet keeps its type.                             *)
THEOREM FleetTypeCorrect == FleetSpec => []FleetTypeOK
<1>1. FleetInv => FleetTypeOK
  BY DEF FleetInv
<1> QED
  BY <1>1, FleetInvariance, PTL

(* A customer who was answered 201 has a shipment in the table, or what a  *)
(* writer that could not see it made of it.                                *)
THEOREM CreatesAreThere == FleetSpec => []CreatedIsThere
<1>1. FleetInv => CreatedIsThere
  <2> SUFFICES ASSUME FleetInv, NEW i \in Customer, reply[i] = "201"
               PROVE  Acked(i) /\ Shows(kv[at[i]], Excused(i))
    BY DEF CreatedIsThere
  <2>1. i \in Request /\ Acked(i)
    BY CustomerAssumption DEF FleetInv, HandlersFollow, Acked
  <2> QED
    BY <2>1 DEF FleetInv, IInv, AckedEverywhere
<1> QED
  BY <1>1, FleetInvariance, PTL

(* No shipment that intake caused is forgotten: its dispatch was taken on  *)
(* or is on its way, or the log, the running handler or the death of the   *)
(* pod accounts for it.                                                    *)
THEOREM NothingForgotten == FleetSpec => []NobodyForgotten
<1>1. FleetInv => NobodyForgotten
  <2> SUFFICES ASSUME FleetInv, NEW id \in Id, kv[id] # None, kv[id].parcel \in Customer
               PROVE  \/ kv[id].parcel \in posted \cup taken \cup logged
                      \/ reply[kv[id].parcel] \in {"none", "gone"}
    BY DEF NobodyForgotten
  <2> DEFINE i == kv[id].parcel
  <2>1. kv[id] \in Shipment /\ Coherent(kv[id], upd) /\ Started(kv[id], pc)
    BY DEF FleetInv, IInv, TypeOK, RecordsCoherent, OnlyStarted
  <2>2. i \in Writers(kv[id])
    <3>1. Len(kv[id].timeline) \in Nat
      BY <2>1 DEF Shipment
    <3>2. 1 \in 1..Len(kv[id].timeline) /\ kv[id].timeline[1].by = i
      BY <2>1, <3>1 DEF Coherent
    <3> QED
      BY <3>2 DEF Writers
  <2>3. pc[i] # "idle"
    BY <2>1, <2>2, CustomerAssumption DEF Started
  <2>4. reply[i] # "400" /\ reply[i] \in {"none", "201", "400", "502", "gone"}
    BY <2>3 DEF FleetInv, HandlersFollow, Sent, FleetTypeOK
  <2> QED
    BY <2>4 DEF FleetInv, HandlersFollow
<1> QED
  BY <1>1, FleetInvariance, PTL

(* What the customer was told is in the timeline of the shipment that the  *)
(* customer's own request created, or was lost to a writer that could not  *)
(* see it.                                                                 *)
THEOREM ToldOnRecord == FleetSpec => []ToldIsOnRecord
<1>1. FleetInv => ToldIsOnRecord
  <2> SUFFICES ASSUME FleetInv, NEW i \in told
               PROVE  \E c \in Call : on[c] = i /\ Acked(c) /\ Shows(kv[at[i]], Excused(c))
    BY DEF ToldIsOnRecord
  <2>1. i \in Customer /\ i # None
    BY CustomerAssumption, NoneAssumption DEF FleetInv, FleetTypeOK
  <2>2. PICK c \in Call : on[c] = i /\ code[c] = "200" /\ upd[c] # None
    BY DEF FleetInv, RecordsFollow
  <2>3. c \in Request /\ Acked(c) /\ at[c] = at[i]
    BY <2>1, <2>2 DEF FleetInv, CallsFollow, Call, Acked
  <2>4. Shows(kv[at[c]], Excused(c))
    BY <2>3 DEF FleetInv, IInv, AckedEverywhere
  <2> QED
    BY <2>2, <2>3, <2>4
<1> QED
  BY <1>1, FleetInvariance, PTL

(* No document of the fleet, nor a lagging copy of one, shows a stage as   *)
(* done that has no event: not when a sample is seeded over a shipment or  *)
(* updates are lost, repeated or made to an old copy (STAGES and           *)
(* currentIndex in ShipmentTimeline.tsx over process and sampleData).      *)
THEOREM DoneStagesDated == FleetSpec => []DoneStagesAreDated
<1>1. FleetInv => DoneStagesAreDated
  BY DEF FleetInv
<1> QED
  BY <1>1, FleetInvariance, PTL

(* The fleet makes no use of the shipments service that the service's own  *)
(* specification does not allow, so everything that ShipmentsProofs proves *)
(* of the service holds in the fleet.                                      *)
THEOREM FleetRunsShipments == FleetSpec => Spec
<1>1. FleetInit => Init
  BY DEF FleetInit
<1>2. FleetInv /\ [FleetNext]_fleetVars => [Next]_vars
  BY FleetStepIsStep DEF FleetInv, IInv, TypeInv
<1> QED
  BY <1>1, <1>2, FleetInvariance, PTL DEF FleetSpec, Spec

\* A call of the worker that is under way is for a message.
LEMMA CallHasMessage ==
    ASSUME FleetInv, NEW c \in Call, HandlerStep(c)
    PROVE  on[c] \in Customer
<1>1. pc[c] # "idle"
  BY DEF HandlerStep, DrawTaken, GiveUp, DrawFree, UpdateRead, GetFound, NotFound,
         ReadFails, SaveOk, SaveFails
<1> QED
  BY <1>1 DEF FleetInv, CallsFollow, FleetTypeOK

(* The worker of the fleet does only what DispatchPromise allows: whatever *)
(* a call of an attempt comes to, and whenever, is a step of the promise   *)
(* for a message of a customer (process, run).                             *)
THEOREM FleetKeepsPromise == FleetSpec => Promise!Spec
<1>1. FleetInit => Promise!Init
  BY DEF FleetInit
<1>2. FleetInv /\ [FleetNext]_fleetVars => [Promise!Next]_(Promise!vars)
  <2> SUFFICES ASSUME FleetInv, [FleetNext]_fleetVars
               PROVE  Promise!Next \/ UNCHANGED workVars
    BY DEF workVars, Promise!vars
  <2>1. ASSUME NEW c \in Call, CallStep(c)
        PROVE  Promise!Next \/ UNCHANGED workVars
    <3>1. on[c] \in Customer
      BY <2>1, CallHasMessage DEF CallStep
    <3>2. Promise!Record(on[c]) \/ Promise!FindUnknown(on[c]) \/ UNCHANGED workVars
      BY <2>1 DEF CallStep
    <3> QED
      BY <3>1, <3>2 DEF Promise!Next
  <2>2. ASSUME NEW i \in Customer, TakeDispatch(i) \/ WorkStep(i)
        PROVE  Promise!Next
    <3>1. \/ Promise!Accept(i) \/ Promise!Tell(i) \/ Promise!Finish(i)
          \/ Promise!GiveUp({i}) /\ {i} \in SUBSET Customer
      BY <2>2 DEF TakeDispatch, WorkStep
    <3> QED
      BY <3>1 DEF Promise!Next
  <2>3. ASSUME NEW i \in Customer,
               \/ SubmitInvalid(i) \/ Submit(i) \/ \E r \in Replica : CreateArrives(i, r)
               \/ CreateStep(i) \/ CreateOk(i) \/ CreateError(i)
               \/ DeclineDispatch(i) \/ DispatchOk(i) \/ DispatchError(i) \/ Lose(i)
        PROVE  UNCHANGED workVars
    BY <2>3 DEF SubmitInvalid, Submit, CreateArrives, CreateStep, Apart, CreateOk, PostDispatch,
                CreateError, DeclineDispatch, DispatchOk, DispatchError, Lose
  <2>4. ASSUME NEW c \in Call, NEW i \in Customer, NEW r \in Replica, Attempt(c, i, r)
        PROVE  UNCHANGED workVars
    BY <2>4 DEF Attempt
  <2>5. CASE TableStep
    BY <2>5 DEF TableStep, Apart
  <2>6. CASE UNCHANGED fleetVars
    BY <2>6 DEF fleetVars
  <2> QED
    BY <2>1, <2>2, <2>3, <2>4, <2>5, <2>6 DEF FleetNext
<1> QED
  BY <1>1, <1>2, FleetInvariance, PTL DEF FleetSpec, Promise!Spec

\* Only NotFound answers 404.
LEMMA AnswersNotFound ==
    ASSUME TypeInv, NEW q \in Request, HandlerStep(q), NEW p \in Request,
           code[p] = "none", code'[p] = "404"
    PROVE  NotFound(p)
<1> USE DEF TypeInv, TypeOK
<1>1. ASSUME NEW id \in Id, DrawTaken(q, id) \/ DrawFree(q, id)
      PROVE  code' = code
  BY <1>1 DEF DrawTaken, DrawFree, handlerVars
<1>2. ASSUME NEW id \in Id, GiveUp(q, id)
      PROVE  code' = [code EXCEPT ![q] = "502"]
  BY <1>2 DEF GiveUp, Refuse, Answer
<1>3. UpdateRead(q) => code' = code
  BY DEF UpdateRead, handlerVars
<1>4. GetFound(q) => code' = [code EXCEPT ![q] = "200"]
  BY DEF GetFound, Refuse, Answer
<1>5. ReadFails(q) \/ SaveFails(q) => code' = [code EXCEPT ![q] = "502"]
  BY DEF ReadFails, SaveFails, Refuse, Answer
<1>6. SaveOk(q) => code' = [code EXCEPT ![q] = IF upd[q] = None THEN "201" ELSE "200"]
  BY DEF SaveOk, Answer
<1>7. NotFound(q) => code' = [code EXCEPT ![q] = "404"]
  BY DEF NotFound, Refuse, Answer
<1> QED
  BY <1>1, <1>2, <1>3, <1>4, <1>5, <1>6, <1>7 DEF HandlerStep

LEMMA CallsFindUnknown ==
    ASSUME TypeInv, FleetNext, NEW c \in Call, code[c] = "none", code'[c] = "404"
    PROVE  NotFound(c)
<1> USE CustomerAssumption DEF Call
<1>1. ASSUME NEW i \in Customer, CreateStep(i)
      PROVE  NotFound(c)
  BY <1>1, AnswersNotFound DEF CreateStep
<1>2. ASSUME NEW b \in Call, CallStep(b)
      PROVE  NotFound(c)
  BY <1>2, AnswersNotFound DEF CallStep
<1>3. ASSUME NEW i \in Customer, NEW r \in Replica, CreateArrives(i, r)
      PROVE  code' = code
  BY <1>3 DEF CreateArrives, ReceiveCreate
<1>4. ASSUME NEW b \in Call, NEW i \in Customer, NEW r \in Replica, Attempt(b, i, r)
      PROVE  code' = code
  BY <1>4 DEF Attempt, ReceiveGet, ReceiveUpdate
<1>5. ASSUME NEW r \in Replica, Crash(r)
      PROVE  code'[c] \in {"gone", "none"}
  BY <1>5 DEF Crash
<1>6. ASSUME NEW r \in Replica, Start(r) \/ BootStep(r) \/ Terminate(r) \/ Exit(r)
      PROVE  code' = code
  BY <1>6 DEF Start, Terminate, Exit, BootStep, SeedPresent, SeedAbsent, SeedSaved,
              SeedFails, Serve, handlerVars
<1>7. ASSUME NEW id \in Id, Replicate(id)
      PROVE  code' = code
  BY <1>7 DEF Replicate, handlerVars
<1>8. ASSUME NEW i \in Customer,
             \/ SubmitInvalid(i) \/ Submit(i) \/ CreateOk(i) \/ CreateError(i)
             \/ TakeDispatch(i) \/ DeclineDispatch(i) \/ DispatchOk(i)
             \/ DispatchError(i) \/ Lose(i) \/ WorkStep(i)
      PROVE  code' = code
  BY <1>8 DEF SubmitInvalid, Submit, CreateOk, CreateError, PostDispatch, TakeDispatch,
              DeclineDispatch, DispatchOk, DispatchError, Lose, WorkStep, vars
<1> QED
  BY <1>1, <1>2, <1>3, <1>4, <1>5, <1>6, <1>7, <1>8 DEF FleetNext, TableStep

(* A call of the worker finds a dispatched shipment unknown only while     *)
(* reads may still miss its create; with consistent reads, never.          *)
THEOREM UnknownWhileSettling == FleetSpec => UnknownOnlyWhileSettling
<1>1. FleetInv /\ [FleetNext]_fleetVars =>
        [\A c \in Call : code[c] = "none" /\ code'[c] = "404" => on[c] \in settling]_fleetVars
  <2> SUFFICES ASSUME FleetInv, FleetNext, NEW c \in Call, code[c] = "none", code'[c] = "404"
               PROVE  on[c] \in settling
    OBVIOUS
  <2>1. c \in Request /\ TypeInv
    BY DEF Call, FleetInv, IInv, TypeInv
  <2>2. pc[c] \in {"read", "get"} /\ None \in Answers(at[c])
    BY <2>1, CallsFindUnknown DEF NotFound
  <2>3. on[c] \in taken /\ on[c] \in Customer /\ at[c] = at[on[c]]
    BY <2>2 DEF FleetInv, CallsFollow, FleetTypeOK
  <2>4. on[c] \in Request /\ Acked(on[c])
    BY <2>1, <2>3, TakenIsAcked DEF FleetInv
  <2>5. /\ kv[at[c]] # None
        /\ ~ConsistentRead /\ on[c] \notin settling => lag[at[c]] # None
    BY <2>3, <2>4 DEF FleetInv, IInv, AckedEverywhere, Shows
  <2> QED
    BY <2>2, <2>5 DEF Answers
<1> QED
  BY <1>1, FleetInvariance, PTL DEF FleetSpec, UnknownOnlyWhileSettling

=============================================================================

# Bravo Dispatch in TLA+

Bravo Dispatch is a small fleet that takes in parcels, routes them and lets a
customer track them. This directory models the parts of it that keep state or
move messages, model-checks them with TLC and proves theorems about them with
TLAPS.

## The system

```
 client --POST /shipments--> intake --POST /shipments--> shipments --> table (DynamoDB | memory)
                               |                            ^   ^
                               +--POST /dispatch--> dispatch-worker
                                                    |  SQS queue -> loop: lookup, update,
                                                    |                     SNS event, notify, ack
                                                    +--> notify (POST /events)
 browser (SPA) --/api/shipments--> tracker --GET /shipments--> shipments
```

| component | state | operations | hard behaviour | what makes it correct |
|---|---|---|---|---|
| shipments (`cmd/shipments`, `internal/shipments`) | none of its own; documents in the table | create (`NewID`, `Create`), status update, get, list, `Seed` at boot | two replicas over one table with no conditional write: every operation is a Get and a later Put | documents are never torn; an acknowledged write is lost only to a writer that could not see it; ids are shared only in the window the code accepts; samples are there |
| key-value store (`internal/awskv`) | id -> document | Get, Put | reads without `ConsistentRead` may lag; a Put may fail after it took effect | - |
| dispatch-worker (`cmd/dispatch-worker`) | its loop and the current batch | `POST /dispatch`, `run`, `process`, `notify` | at-least-once delivery to two pods, every call failing before or after its effect, shutdown in the middle of a batch | an accepted message is never lost; what the customer hears was put on record; retries repair half-done work |
| requests queue (`internal/awsqueue`) | messages, visibility, receive counts; or a channel | Send, Receive, Delete | redelivery, lost answers; the in-memory variant is bounded, blocks its senders and never redelivers | a message sent is kept until it is worked off or dies in sight; one refused leaves no trace |
| intake (`cmd/intake`) | none | `POST /shipments` = create, then dispatch | failure or crash between the two; client retries | a 201 means the shipment exists; no shipment sits undispatched without a trace of why |
| tracker BFF (`cmd/tracker`) | none | list, detail, fault injection | upstream failures, late answers | - |
| SPA (`web/src`) | the route, the fetched shipment or error, the samples | hash navigation, effects, fetch | URL, state, effect and answer follow each other in separate tasks; answers arrive after the user went elsewhere | what is shown belongs to the current id; the page comes to rest |
| notify (`services/notify`) | none | `POST /events` | duplicates | - |
| flags (`internal/flags`) | the last snapshot | poll, re-sync | `Sync` and `ReSync` share `last` without a lock; error pages; a resolver that lags behind | the resolver comes to have flagship's set, and, unless the two cross, never an older one than it had |
| carrier, securerand, awssns, telemetry | none | helpers | - | - |

Components talk by synchronous HTTP; the only asynchronous hop is the queue
between `POST /dispatch` and the loop. Inside a pod the loop and the HTTP server
are separate goroutines that share nothing but the queue client.

## Modules

| module | stands for |
|---|---|
| `Shipments` | the shipments service, its replicas, and the table |
| `MCShipments` | small instances of it (`MCShipments*.cfg`) |
| `ShipmentsProofs` | the theorems about it |
| `DispatchWorker` | the dispatch worker with the SQS queue, the shipments service and notify as it sees them |
| `DispatchPromise` | what dispatch promises, with no queue and no attempt |
| `MCDispatchWorker` | small instances of the worker (`MCDispatch*.cfg`) |
| `DispatchWorkerProofs` | the theorems about the worker and the proof that it implements `DispatchPromise` |
| `Intake` | the fleet: intake, composed with `Shipments` (EXTENDS) and with the worker as `DispatchPromise` (INSTANCE); the tracker's timeline as a function of a document |
| `MCIntake`, `IntakeProofs` | its instance and its theorems; `IntakeProofs` builds on `ShipmentsProofs` |
| `MemQueue` | dispatch-worker over the in-memory queue: handlers, channel, loop and process |
| `MCMemQueue`, `MemQueueProofs` | its instance, its theorems and the proof that it implements `DispatchPromise` |
| `FlagSync` | the flag syncer between flagship and flagd's resolver |
| `MCFlagSync`, `FlagSyncProofs` | its instance and its theorems |
| `TrackerPage` | one browser page over the tracker's two proxies |
| `MCTrackerPage`, `TrackerPageProofs` | its instance and its theorems |

`DispatchPromise` holds the project together: `DispatchWorker` (SQS) and
`MemQueue` (in memory) both implement it, and `Intake` is composed with it
instead of either. What the fleet promises thus holds over both queues, as far as
it rests on what dispatch promises.

### Shipments

One step is one call to the table, or the local work between two calls. `pc`
says where each request's handler and each replica's `main` stands; `doc` is the
document an actor will Put. The correspondence:

* `Receive*` - the routes of `cmd/shipments/main.go`, on a serving replica; a
  draining replica takes no request.
* `DrawTaken`, `GiveUp`, `DrawFree` - one round of the loop in `NewID`, with the
  drawn id chosen freely; `DrawFree` also builds the document as `Create` does.
* `UpdateRead`, `Updated` - `UpdateStatus` up to the Save. Nothing is
  conditional on the version that was read.
* `SaveOk`, `SaveFails` - `Store.Save` and the response; a Put that failed may
  have been applied.
* `GetFound`, `NotFound`, `ReadFails` - the answers to reads.
* `Start`, `Seed*`, `Serve` - `main` up to `ListenAndServe`; an error ends
  `Seed` and the service starts all the same.
* `Terminate`, `Exit`, `Crash` - `Shutdown`, its end, and every other end of the
  process (with the drain that outlives its 10 s).

`kv` is the table, `lag` the copy an eventually consistent read may answer from
instead. One lagging copy per id is enough to make any read stale by any number
of writes; two copies lagging by different amounts are not modelled. With
`ConsistentRead = TRUE` no read ever lags. Every behaviour of that variant is one
of the lagging variant, with the same `overlap`, so the runs of the positive
properties use the lagging one; the two violations use the consistent one, to show
that they do not need a stale read. The in-memory backend is this variant with one
replica as long as that replica lives; that its table is lost with the process is
not modelled.

Fields that a writer fills in (recipient, origin, destination; location and ETA;
label and time of an event) are represented by the writer's name, so that two
documents written by different actors differ. `overlap` and `settling` are
history variables: they record, for an acknowledged write, which writers had
read before they could see it. No guard reads them.

### DispatchWorker

`queue` and `receives` are the queue's side of each message, `batch` what a
worker still has to take on, `pc` the next call of `process`. `Receive` takes
any sequence of visible messages up to the batch size; `ReceiveFails` may leave
messages handed out to nobody; `VisibilityTimeout` returns an undeleted message
or dead-letters it. Each call of `process` has an outcome with effect, one
without, and one that took effect and failed to say so. After `Terminate` the
context is cancelled: calls fail (those under way may have taken effect), the
rest of the batch is left, and `Exit` may come at any time because `main` does
not wait for the loop. A late `Delete` may or may not remove the message.

The SNS publish is a step without an effect on the attempt: its errors are only
logged and nobody subscribes. The shipments service is reduced to the status and
to `puts`, the log of the assignments that updates put on record, `lagging` being
the shipments a lookup may still miss. `PutStatus` is the Put of `UpdateStatus`
alone. The Get before it decides which earlier events the document keeps, and an
overlapping update may so erase one: the log is not the document, and none of this
module's properties claims that an event of the log still is in it. That is
`Intake`'s business, which has `Shipments` with its Gets and Puts below
(`ToldIsOnRecord`), and the finding of `lost_update`. The last event and the status
of a document are always those of the last Put, which is all that `AckedAgreement`
looks at. A message that does not decode cannot be on the queue, since
`POST /dispatch` marshals what it sends; an id that makes no URL can, and is
`Unroutable`: its lookup always fails, which is how a poison message arises.

`crossed` is a history variable: the shipments that were written while another
attempt had yet to announce its own write to them, or after another delivery of
the same message was worked off (`Crossing`). `AckedAgreement` excuses those: two
such attempts can update in one order and notify in the other, and nothing in the
code repairs that. Attempts that overlap in any other way are not excused.

`DispatchPromise` knows messages that are owed, recorded, told, unknown or dead.
The refinement maps `owed` to the messages still in the queue and the logs of
assignments to their messages.

### Intake

Intake keeps no state, so its part of the module is where each handler of
`POST /shipments` stands (`step`), what it answered and what it logged. The
create is a request of `Shipments` with the customer's name: `CreateArrives` lets
it reach a replica at any time after it was sent, also when intake has stopped
waiting; `CreateOk` reads the 201, `CreateError` stands for every error of
`CreateShipment` (an error status, a lost or undecodable answer, a cancelled
context), whatever the service did. `TakeDispatch` and `DeclineDispatch` are the
worker's end of `POST /dispatch`, `DispatchOk` and `DispatchError` intake's; a
dispatch that was taken on may still be reported as failed, and is then logged.
`Lose` is the death of the pod, or a drain that outlives its ten seconds, in the
middle of a request.

The worker is `DispatchPromise`, driven by calls to the shipments service that
the module does carry out one by one: `Attempt` sends a lookup or an assignment
for the shipment of a message, `CallStep` lets it take its course, and what it
comes to is what `DispatchPromise` records. Attempts may overlap, outlive their
message and be repeated. `Record` happens with the 200 of the update; that an
update can take effect without one is in `Shipments` (`SaveFails`, `Crash`).

A client that retries is a second customer: the code gives it a second
shipment. `NobodyForgotten` says what becomes of every shipment that intake
caused; that somebody reads the log is beyond it.

### MemQueue

`ch` is the channel's buffer, `blocked` the senders the Go runtime has queued on
it, in order; as soon as the loop takes a message the first of them is served.
Both `select`s of `memQueue` pick either case when both are ready:
`SendCancelled` may win although there is room, `Receive` although the loop was
cancelled. `Terminate` is the order in `main`: the loop's context is cancelled,
then `Shutdown` waits for the handlers, which nobody will serve any more, for ten
seconds (`Exit`). A handler that was accepted before may get to its Send as late as
during that drain. With the process the queue is gone (`Gone`). `dead` holds what a
failed attempt or the end of the process lost; `DispatchPromise` calls that dead
letters, though here nobody can redrive them. The comment on `NewMemory`
(`awsqueue.go:109-110`) says that the buffer is generous so that a burst of Sends
"never blocks the HTTP handler"; 256 is generous but not endless, and the model is
about what happens beyond it: the handler does block, and `BlockedIsServed` and
`SendersEnd` say that it is not for ever. `FoundUnknown` may fail an update
too, because that is a 404 of the same client.

### FlagSync

`Sync` and `ReSync` run `emit` concurrently: fetch, compare with `last`, remember,
send. The fetch is a round trip: flagship gives its answer (`Answer`) and the body
arrives later (`FetchOk`) or never (`FetchFails`), while flagship publishes on and
the other caller may go through a whole round. A remembered write while the other
caller compares may tear `last` (an unsynchronised Go string); `Torn` stands for what
neither wrote. The answer may be an error page (`Page`), because `fetch` does not
look at the status. flagd's side (`Resolve`) takes snapshots in order and may reject
or accept a page; both are free, since its parser is not part of this repository.
`crossed` is a history variable: the two callers once had an answer each, on its way
or in hand. All three properties excuse that case, and need to: a slow answer may be
overtaken by a newer one of the other caller and sent after it, and `last` may then
stand in the way of sending the newer one again.

The package says "the resolver keeps the last-good snapshot" when flagship is
unreachable. The model shows what that covers: a fetch that fails changes
nothing, an error page that parses as flags replaces them until flagship
recovers (`Converges` says that this ends).

### TrackerPage

The URL's hash, React's state, the effect and the answer are four separate
steps, as they are four tasks of the browser: `Navigate`, `HashChange`, `Effect`,
`Answer`. React runs the effects of one render before it renders again, hence the
guard of `HashChange`. An effect's cleanup marks the previous answer as cancelled
(`live` moves on); the request itself goes on and is answered in any order.
A component that is replaced loses its state, one that only gets another id
keeps it until its effect has run. `Outcomes` is what the tracker's proxies can
answer: not found, a failed upstream and an injected fault are all one error to
the page, a delay is an answer that arrives late. The hashes are ones that
`decodeURIComponent` accepts, and `EverSettles` rests on answers that come.

## Runs

All runs take 2 workers and less than two minutes. Deadlock is checked in every
run but three: requests of `mem_queue` are posted once, a cancelled syncer stops,
and a page that nobody navigates has nothing left to do.

| run | module, cfg | question |
|---|---|---|
| `table_eventual` | `MCShipmentsEventual` | two replicas, two requests, two ids (one a sample), lagging reads: type invariant, coherence, no silent loss, allocation, seeding; `IInv` on every state |
| `lost_update` | `MCShipmentsLostUpdate` | (violation) an acknowledged update's event stays in the timeline |
| `seed_race` | `MCShipmentsSeedRace` | (violation) a booting replica does not undo an acknowledged update |
| `redelivery` | `MCDispatchRedelivery` | one message, three deliveries, two pods, a stop |
| `batch` | `MCDispatchBatch` | two pods and two messages for one shipment, in batches of up to two: once the message of the last assignment on record is acked, the customer heard of that assignment last |
| `settles` | `MCDispatchLive` | a message for a shipment that lookups may miss and one that can never be routed: accepted messages are finished or dead-lettered, the worker implements `DispatchPromise`, `IInv` on every state |
| `drop_existing` | `MCDispatchDrop` | (violation) only messages of unknown shipments are dropped |
| `status_regress` | `MCDispatchRegress` | (violation) a status never moves backwards |
| `fleet` | `MCIntakeFleet` | a customer's request through the whole fleet: a 201 means a shipment, nobody is forgotten, what was told is on record, pages show no done stage without an event, handlers and drains end |
| `mem_queue` | `MCMemQueue` | three requests over a channel of one, a stop: nothing sent is lost, nothing refused is worked on, who is blocked has somebody to serve him, nobody waits for ever, `DispatchPromise` is kept |
| `flag_sync` | `MCFlagSync` | three versions, two outages, a resync: no old rollout returns, what is remembered as sent is on its way or there, the resolver converges |
| `tracker_page` | `MCTrackerPage` | three numbers (one unknown) and the landing page, four navigations: the page shows what it is asked, a page at rest is settled, and it comes to rest |

### Bounds, and why they are enough

* Requests, 2 in `table_eventual`, 3 in `fleet`: a request is sent once and ends.
  Losing a write takes the write and one overlapping writer; in `fleet` the create,
  an update and a second call of the worker follow or overlap each other. A chain
  in which a stale writer hides another stale writer is left to the proofs, which
  cover any number.
* Replicas, 2 (one where only requests matter): seeding races need two; a crashed
  replica boots again without limit, so one replica is also "the next one".
* Ids, one or two, one of them a sample: collisions are forced rather than rare.
* `MaxAttempts`, 2 instead of 10: a round that goes on and the last one.
* Deliveries, 2 or 3 (`MaxReceive`): a delivery, a redelivery that overlaps it,
  and one that repairs both.
* `BatchSize`, 1 or 2 instead of 10: a message being worked on and one waiting.
* `MaxStops`, 0 or 1: a stop may fall on any step; stops of pods do not interact
  with each other. Without it crashes could go on for ever and nothing settles.
* Carriers, 2: redeliveries can assign differently.
* Customers, 1: two customers meet only in the table, where `table_eventual` and the
  proofs have any two requests.
* `Cap`, 1 instead of 256, with three senders: one message in the loop's hands, one
  in the buffer, one blocked, and a second blocked behind it before the loop starts.
* `MaxVersion` 3, `MaxOutages` 2, `MaxResyncs` 1, `OutCap` 1: both callers can hold
  different versions while the channel is full, and an outage can fall between
  any two of them. flagd's channel is no smaller than one.
* `MaxNavs`, 4: there and back again twice, with as many answers outstanding.

Symmetry is used over pods, requests, replicas and messages where no definition
and no model value tells them apart, and never in a run with a liveness property.

### Fairness

`Intake` (and with it `Shipments`): weak fairness of a request's progress - a call
that was sent arrives, or is refused while no replica serves; a dispatch is taken
or declined; a handler goes on once it has its answer - of the worker's calls, and
of the boots and the ends of drains of the shipments service. Goroutines are
scheduled, calls of the AWS client end. `NewID`'s progress needs no luck: each round
is counted. Nobody has to submit, to work on a message, to replicate, to crash or to
terminate.

`DispatchWorker`: weak fairness of the loop's steps, of starting a stopped pod
(the platform restarts it), of `main` returning once told to, and of the
visibility timeout; strong fairness of a successful Receive, since a Receive may
fail any number of times but not for ever. Calls that never return are outside
this assumption; the services' HTTP client has no timeout, so the code does not
rule them out by itself (see the hazards in `PROJECT.json`).

`MemQueue`: weak fairness of answering handlers, of the loop and of the end of a
drain, which has a deadline. A blocked sender needs no fairness of its own: the
loop's Receive serves it, or the deadline ends it.

`FlagSync`: weak fairness of the ticker, of the two callers and of the resolver's
reads; strong fairness of a request that is answered and of an answer that arrives,
since either may be lost any number of times but not for ever. `Converges` asks for outages that end and a
provider that is not shut down.

`TrackerPage`: weak fairness of the event, of React's effects and of each request's
answer: the browser runs its tasks and gives up on a request by itself.

### What the violations show

* `lost_update`: "UpdateStatus appends a timeline event"
  (`internal/shipments/shipments.go:121`), but an event of an acknowledged update
  disappears when two updates overlap.
* `seed_race`: `Seed` is said to be safe from several replicas because the
  duplicate write is identical (`shipments.go:166-169`); the second write can come
  after an acknowledged update and undo it.
* `drop_existing`: "an unknown shipment id is logged and dropped"
  (`cmd/dispatch-worker/main.go:132-133`), but a lagging read makes an existing one
  look unknown.
* `status_regress`: `process` is to "advance the shipment's status"
  (`main.go:130`), but it writes picked_up over any status.

The positive properties next to them say how far the damage goes: `NoSilentLoss`
and `AllocatedApart` bound losses and shared ids to writers that could not see
each other.

## Proofs

`ShipmentsProofs` proves, for any sets of replicas, requests, ids, carriers and
samples, any number of attempts and either kind of read:

| theorem | property |
|---|---|
| `TypeCorrect` | `TypeOK` |
| `Invariance` | `IInv` |
| `DocumentsCoherent` | `RecordsCoherent` |
| `AckedWritesSafe` | `NoSilentLoss` |
| `AllocationApart` | `AllocatedApart` |
| `SeedComplete` | `SeedCovers` |

The assumptions are the named `ASSUME`s of `Shipments`: actors are told apart,
`None` is nothing else, samples start at created.

`NoSilentLoss` is not inductive: a pending Put, or a lagging copy that someone
reads next, could bring back a document without the acknowledged event. The
strengthening is `AckedEverywhere`: the event of an acknowledged write (or of a
writer that could not see it) is in the table; in the lagging copy, unless the
write is still settling; and in every pending document, unless its writer is in
the write's `overlap`. `OnlyStarted` (no document carries the name of a request
that was not received) keeps `overlap` of a new request empty of surprises, and
`ControlOK` ties the variables to the control state.

The proof does not repeat the argument for every action. `StepKinds` shows that
every step is one of four kinds - it opens a write (`OpenStep`), acknowledges one
(`AckStep`), lets a copy catch up (`LagStep`) or leaves all of that alone but for
an unacknowledged Put (`PlainStep`) - and `DocsStep`, `AckedStep` and
`AllocatedStep` are proved per kind. `SeedStep` uses that the table only grows
(`TableGrows`).

`DispatchWorkerProofs` proves, for any sets of pods, messages, shipments and
carriers, any batch size and any bounds on deliveries and stops:

| theorem | property |
|---|---|
| `TypeCorrect` | `TypeOK` |
| `Invariance` | `IInv` |
| `NeverLost` | `AcceptedNotLost` |
| `PutFirst` | `AnnouncedWerePut`: what the customer hears was put on record before |
| `OnceEach` | `OncePerDelivery` |
| `RecordAndCustomerAgree` | `AckedAgreement` |
| `NoMoreThanDeliveries` | events and notifications of a message are no more than its deliveries, hence at most `MaxReceive` |
| `PromiseKept` | `KeepsPromise`: the worker and its queue implement `DispatchPromise` |

The assumptions are the named `ASSUME`s of `DispatchWorker`: every message names a
shipment, there is a carrier, `None` is none of them, the bounds are numbers.

None of the safety properties is inductive. `AcceptedNotLost` needs to know
that only settled messages are acked, which depends on how a worker came to
`delete` (`AttemptsOK`), and that a message without an answer is not on the queue
(`QueueOK`). `AnnouncedWerePut` needs that a worker at `notify` has put its
assignment on record (`AttemptsOK`). `OncePerDelivery` needs that a delivery
is in one hand only, that it is on record only once its worker is past the update,
and that a Receive hands out deliveries later than all on record
(`DeliveriesOK`). `AckedAgreement` needs to know what an attempt still has to do
about the last write: outside `crossed`, an attempt that is past its update and
before its notification made the last entry of `puts`, and one that is about
to ack the message of the last entry has told the customer of it (`WritesFollow`).
None of the three cases of `Crossing` can be left out: without any one of them TLC
finds `AckedAgreement` violated in `redelivery` and in `batch`.
`NoMoreThanDeliveries` follows from `OncePerDelivery` by counting: the entries of a
message are mapped one-to-one to its deliveries. `StepKinds` splits the steps into five kinds - nobody moves
(`Aside`), a worker goes on with its message (`Ahead`), to the next one
(`Onward`), takes on a batch (`TakeOn`), is gone (`Vanish`) - and the parts of the
invariant are proved per kind. The refinement proof (`PromiseStep`) maps every
action to one of `DispatchPromise` or to a stutter, using the invariant for the
guards of `Accept`, `Tell` and `Finish`.

`IntakeProofs` proves, for any sets of customers, calls of the worker and whatever
`ShipmentsProofs` is general in:

| theorem | property |
|---|---|
| `FleetInvariance` | `FleetInv` |
| `FleetTypeCorrect` | `FleetTypeOK` |
| `CreatesAreThere` | `CreatedIsThere` |
| `NothingForgotten` | `NobodyForgotten` |
| `ToldOnRecord` | `ToldIsOnRecord` |
| `DoneStagesDated` | `DoneStagesAreDated` |
| `UnknownWhileSettling` | `UnknownOnlyWhileSettling`, a property of steps |
| `FleetRunsShipments` | the fleet implements `Shipments` (`FleetSpec => Spec`) |
| `FleetKeepsPromise` | the worker's part of the fleet is `DispatchPromise` |

The assumptions beyond those of `Shipments` are that customers' requests are
requests and that the samples skip no stage (`SampleStagesAssumption`, read off
`sampleData`). `FleetStepIsStep` shows that every step of the fleet is a step of
`Shipments` or leaves it alone, so `IInv` carries over with its proof. What is new
is how the parties stand to each other: a handler of intake is past its create
only with a 201 (`HandlersFollow`), a call of the worker is at the id of the
customer whose message it is for (`CallsFollow`), and what is recorded was answered
200 (`RecordsFollow`). `Onward` says all that these need to know of a step of the
service, and is shown once for handlers and once for the table. The properties
then follow from `AckedEverywhere` and the coherence of documents: a shipment in
the table names its creator, who must have sent the create.

`DoneStagesAreDated` is about documents, so it is proved per kind of step of
`ShipmentsProofs`: a document comes into being fresh, as a sample, or from one that
was read by adding an assignment (`NewDocument`), each of which has an event for
every stage it is past (`FreshDated`, `SampleDated`, `AssignmentDated`); a Put and a
lagging copy only move it (`DatedStep`). The invariant adds that the documents about
to be written are like that too (`PendingDated`) and that the worker's updates are
assignments, whose status is picked_up (`CallsFollow`): an update of another status
could jump over a stage.

`MemQueueProofs` proves, for any messages, capacity and number of stops:

| theorem | property |
|---|---|
| `TypeCorrect` | `TypeOK` |
| `RefusedLeavesNoTrace` | `RefusedNeverTaken` |
| `SentStays` | `SentIsKept` |
| `NobodyWaitsInVain` | `BlockedIsServed` |
| `PromiseKept` | `KeepsPromise`: the in-memory queue implements `DispatchPromise` |

The invariant adds that a message is owed in one place only (`OwedOnce`), that
blocked senders are queued once (`HandlersOK`), that what was not sent has left no
trace (`UnsentUnknown`) and how far the loop is with the message at hand
(`LoopOK`); without the first, taking a message out of the queue might leave it
there. `BlockedIsServed` is the safe half of `SendersEnd`: a Send deposits directly
only when nobody is blocked, each Receive refills the buffer from the line, and the
loop ends under no process that is up (`LoopOK`).

`FlagSyncProofs` proves `TypeCorrect` (`TypeOK`), `NoRollback` (`NeverOlder`) and
`RememberedIsDelivered` (`LastIsDelivered`), for any number of versions, outages and
resyncs and any capacity of the channel. What has to be added is order: the snapshots in the channel rise, the answer a caller
has, on its way or in hand, comes last and only one caller has one (`InOrder`), and
nothing is newer than what flagship has (`NotAhead`). `LastIsDelivered` is inductive
next to those: that only one caller has an answer is what keeps a write to `last` whole and another
send from coming behind it.

`TrackerPageProofs` proves `TypeCorrect` (`TypeOK`, with the bound of one request
per navigation), `ShowsWhatIsAsked` (`ShownIsAsked`) and `RestsSettled`
(`RestIsSettled`), for any tracking numbers and navigations. `ShownIsAsked` needs that
the answer that is not cancelled is about the route of the last effect (`LiveIsAsked`),
and what a page shows between a navigation and its effect (`PageOK`). `RestIsSettled`
needs that whatever the page still lacks is under way: the event of a new URL, the
answer of the last effect (`DueOK`).

Every invariant that a run checks is proved, and so are the two properties of steps
(`KeepsPromise`, `UnknownOnlyWhileSettling`). Only model-checked are the liveness
properties: `AcceptedSettles`, `IntakeEnds`, `DrainsEnd`, `SendersEnd`, `QueuedEnds`,
`Converges` and `EverSettles`, whose proofs need ENABLED and fairness. Three of them have their safe part proved: a
blocked sender has somebody to serve him (`BlockedIsServed`, for `SendersEnd`), what
the syncer will not send again was sent (`LastIsDelivered`, for `Converges`), and a
page with nothing left to do is settled (`RestIsSettled`, for `EverSettles`). What
fairness adds is that the steps still to come are taken.

## Not modelled

* Wording, logging, traces, metrics, the encoding of documents.
* Calls that hang; clocks. ETAs and event times are opaque.
* `awskv.Delete`, which nobody calls, and the in-memory table, which ends with its
  process.
* The AWS client's own retries: a retried Put is the same Put.
* A Put applied after its caller was already answered with an error.
* `List`, which reads the samples one by one and changes nothing, and the order of
  evaluation in `Client.Shipments`; the page takes the list as an answer or an error.
* The readiness of the flag syncer and the evaluation of flags, which are read by and
  done in flagd.
* The text field of the landing page, and hashes that are no URI encoding: on `#/%`
  `decodeURIComponent` throws (`App.tsx:53`) and React renders nothing. `TrackerPage`
  is about the hashes it accepts.
* Random numbers: every draw is a free choice.
* Telemetry, Kubernetes manifests and CI, apart from the number of replicas.

## Plan

1. `Shipments`, `ShipmentsProofs` - done: the table is what everything else
   depends on.
2. `DispatchWorker`, `DispatchPromise`, `DispatchWorkerProofs` - done.
3. `MemQueue`, `MemQueueProofs` - done.
4. `Intake`, `IntakeProofs` - done; the worker is composed as `DispatchPromise`.
5. `FlagSync`, `FlagSyncProofs` - done.
6. `TrackerPage`, `TrackerPageProofs` - done, with the timeline in `Intake`.
7. Left: the in-memory table, which ends with its process.

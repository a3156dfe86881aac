------------------------------ MODULE FlagSync ------------------------------
(***************************************************************************)
(* The feature-flag syncer (internal/flags): httpSyncer polls flagship and *)
(* pushes what it fetched to flagd's in-process resolver whenever it is    *)
(* not what it fetched last.                                               *)
(*                                                                         *)
(* Sync runs for as long as the provider does; ReSync does one round of    *)
(* the same on request.  Both go through last, which no lock protects, and *)
(* each remembers a snapshot before it delivers it.  Flagship and the      *)
(* resolver are modelled from how this package uses them.                  *)
(***************************************************************************)
EXTENDS Integers, Sequences

CONSTANTS
    MaxVersion,   \* versions flagship publishes, one after the other
    MaxOutages,   \* bound on how often flagship answers with something else
    MaxResyncs,   \* bound on calls of ReSync
    OutCap,       \* capacity of the resolver's channel
    Page,         \* an error page, or a flag set cut off at the read limit
    Torn,         \* last after two unsynchronised writes
    None          \* no snapshot (last is empty)

ASSUME BoundAssumption ==
    /\ MaxVersion \in Nat \ {0}
    /\ MaxOutages \in Nat
    /\ MaxResyncs \in Nat
    /\ OutCap \in Nat \ {0}
ASSUME ValueAssumption ==
    /\ {Page, Torn, None} \cap Int = {}
    /\ Page # Torn /\ Page # None /\ Torn # None

Version == 1..MaxVersion

Snapshot == Version \cup {Page}

Caller == {"sync", "resync"}

VARIABLES
    source,     \* the version flagship has
    outage,     \* flagship answers Page
    pc,         \* where Sync and ReSync stand in emit
    data,       \* what flagship has answered each
    last,       \* s.last
    out,        \* the channel to the resolver
    flagSet,    \* what the resolver evaluates flags with
    cancelled,  \* the context of Sync and ReSync
    outages, resyncs,   \* how many there were
    crossed,    \* history: Sync and ReSync had an answer each, on its way or
                \* in hand, at some time
    newest      \* history: the newest version the resolver has had

flagshipVars == <<source, outage, outages>>
resolverVars == <<flagSet, newest>>
vars == <<flagshipVars, pc, data, last, out, resolverVars, cancelled, resyncs, crossed>>

Other(c) == IF c = "sync" THEN "resync" ELSE "sync"

\* Flagship has answered c, and c has not delivered the answer, found it
\* unchanged or lost it yet.
Holds(c) == pc[c] \in {"answered", "compare", "send"}

\* Mutant: ReSync goes on like Sync.
RestWaiting(c) == "wait"

\* Where c stands between two rounds of emit.
Rest(c) == IF c = "sync" THEN "wait" ELSE "off"

Goto(c, to) == pc' = [pc EXCEPT ![c] = to]

-----------------------------------------------------------------------------
(* Flagship.                                                               *)

Publish ==
    /\ source < MaxVersion
    /\ source' = source + 1
    /\ UNCHANGED <<outage, outages, pc, data, last, out, resolverVars, cancelled, resyncs, crossed>>

Break ==
    /\ ~outage
    /\ outages < MaxOutages
    /\ outage' = TRUE
    /\ outages' = outages + 1
    /\ UNCHANGED <<source, pc, data, last, out, resolverVars, cancelled, resyncs, crossed>>

Repair ==
    /\ outage
    /\ outage' = FALSE
    /\ UNCHANGED <<source, outages, pc, data, last, out, resolverVars, cancelled, resyncs, crossed>>

-----------------------------------------------------------------------------
(* emit, by Sync or by ReSync.                                             *)

\* The ticker of Sync fires; ticks during a round are lost.
Tick ==
    /\ pc["sync"] = "wait"
    /\ Goto("sync", "fetch")
    /\ UNCHANGED <<flagshipVars, data, last, out, resolverVars, cancelled, resyncs, crossed>>

\* ReSync forgets what was fetched last, and starts a round of its own.
Resync ==
    /\ pc["resync"] = "off"
    /\ resyncs < MaxResyncs
    /\ resyncs' = resyncs + 1
    /\ last' = None
    /\ Goto("resync", "fetch")
    /\ UNCHANGED <<flagshipVars, data, out, resolverVars, cancelled, crossed>>

\* Flagship answers with what it has now; the answer may travel for long.
Answer(c) ==
    /\ pc[c] = "fetch"
    /\ ~cancelled
    /\ data' = [data EXCEPT ![c] = IF outage THEN Page ELSE source]
    /\ Goto(c, "answered")
    /\ crossed' = (crossed \/ Holds(Other(c)))
    /\ UNCHANGED <<flagshipVars, last, out, resolverVars, cancelled, resyncs>>

\* The body is taken whatever the status code says; one that is there already
\* may be read even when the context has just been cancelled.
FetchOk(c) ==
    /\ pc[c] = "answered"
    /\ Goto(c, "compare")
    /\ UNCHANGED <<flagshipVars, data, last, out, resolverVars, cancelled, resyncs, crossed>>

\* Mutant: emit falls back on what the caller fetched before.
FetchFailsOnward(c) ==
    /\ pc[c] \in {"fetch", "answered"}
    /\ Goto(c, IF data[c] = None THEN Rest(c) ELSE "compare")
    /\ UNCHANGED <<flagshipVars, data, last, out, resolverVars, cancelled, resyncs, crossed>>

\* The request fails, or its answer is lost on the way: transient, the resolver
\* keeps what it has.
FetchFails(c) ==
    /\ pc[c] \in {"fetch", "answered"}
    /\ Goto(c, Rest(c))
    /\ UNCHANGED <<flagshipVars, data, last, out, resolverVars, cancelled, resyncs, crossed>>

Unchanged(c) ==
    /\ pc[c] = "compare"
    /\ data[c] = last
    /\ Goto(c, Rest(c))
    /\ UNCHANGED <<flagshipVars, data, last, out, resolverVars, cancelled, resyncs, crossed>>

\* A write to last that races with the other caller's may tear it.
Remember(c) ==
    /\ pc[c] = "compare"
    /\ data[c] # last
    /\ last' \in IF pc[Other(c)] = "compare" THEN {data[c], Torn} ELSE {data[c]}
    /\ Goto(c, "send")
    /\ UNCHANGED <<flagshipVars, data, out, resolverVars, cancelled, resyncs, crossed>>

\* Mutant: emit does not wait for a resolver that is behind.
SendOrSkip(c) ==
    /\ pc[c] = "send"
    /\ out' = IF Len(out) < OutCap THEN Append(out, data[c]) ELSE out
    /\ Goto(c, Rest(c))
    /\ UNCHANGED <<flagshipVars, data, last, resolverVars, cancelled, resyncs, crossed>>

Send(c) ==
    /\ pc[c] = "send"
    /\ Len(out) < OutCap
    /\ out' = Append(out, data[c])
    /\ Goto(c, Rest(c))
    /\ UNCHANGED <<flagshipVars, data, last, resolverVars, cancelled, resyncs, crossed>>

SendCancelled(c) ==
    /\ pc[c] = "send"
    /\ cancelled
    /\ Goto(c, Rest(c))
    /\ UNCHANGED <<flagshipVars, data, last, out, resolverVars, cancelled, resyncs, crossed>>

EmitStep(c) ==
    \/ Answer(c) \/ FetchOk(c) \/ FetchFails(c)
    \/ Unchanged(c) \/ Remember(c) \/ Send(c) \/ SendCancelled(c)

\* The provider shuts down, and Sync returns at its next wait.
Cancel ==
    /\ ~cancelled
    /\ cancelled' = TRUE
    /\ UNCHANGED <<flagshipVars, pc, data, last, out, resolverVars, resyncs, crossed>>

SyncReturns ==
    /\ pc["sync"] = "wait"
    /\ cancelled
    /\ Goto("sync", "ended")
    /\ UNCHANGED <<flagshipVars, data, last, out, resolverVars, cancelled, resyncs, crossed>>

-----------------------------------------------------------------------------
(* The resolver takes the next snapshot; a page it cannot parse it rejects *)
(* and keeps what it has, a page that it can it takes for a set of flags.  *)
Resolve ==
    /\ out # <<>>
    /\ out' = Tail(out)
    /\ flagSet' \in IF Head(out) = Page THEN {flagSet, Page} ELSE {Head(out)}
    /\ newest' = IF flagSet' \in Version /\ flagSet' > newest THEN flagSet' ELSE newest
    /\ UNCHANGED <<flagshipVars, pc, data, last, cancelled, resyncs, crossed>>

Init ==
    /\ source = 1
    /\ outage = FALSE
    /\ pc = [c \in Caller |-> IF c = "sync" THEN "fetch" ELSE "off"]
    /\ data = [c \in Caller |-> None]
    /\ last = None
    /\ out = <<>>
    /\ flagSet = None
    /\ cancelled = FALSE
    /\ outages = 0
    /\ resyncs = 0
    /\ crossed = FALSE
    /\ newest = 0

Next ==
    \/ Publish \/ Break \/ Repair
    \/ Tick \/ Resync \/ Cancel \/ SyncReturns
    \/ \E c \in Caller : EmitStep(c)
    \/ Resolve

Spec == Init /\ [][Next]_vars

\* The ticker fires, a round goes on, the resolver reads its channel; requests
\* and answers may be lost again and again, but not every time.
Fairness ==
    /\ WF_vars(Tick) /\ WF_vars(Resolve)
    /\ \A c \in Caller : WF_vars(EmitStep(c)) /\ SF_vars(Answer(c)) /\ SF_vars(FetchOk(c))

FairSpec == Spec /\ Fairness

-----------------------------------------------------------------------------
TypeOK ==
    /\ source \in Version
    /\ outage \in BOOLEAN
    /\ pc \in [Caller -> {"off", "wait", "fetch", "answered", "compare", "send", "ended"}]
    /\ pc["sync"] # "off" /\ pc["resync"] \notin {"wait", "ended"}
    /\ data \in [Caller -> Snapshot \cup {None}]
    /\ last \in Snapshot \cup {Torn, None}
    /\ out \in Seq(Snapshot) /\ Len(out) <= OutCap
    /\ flagSet \in Snapshot \cup {None}
    /\ cancelled \in BOOLEAN
    /\ outages \in 0..MaxOutages
    /\ resyncs \in 0..MaxResyncs
    /\ crossed \in BOOLEAN
    /\ newest \in 0..source

(* As long as Sync and ReSync never had an answer of flagship each, on its *)
(* way or in hand, whatever is on its way to the resolver is no older than *)
(* the flags it has had: outages, lost requests, an answer that comes long *)
(* after it was given and a slow resolver do not bring an old rollout back *)
(* (emit).                                                                 *)
NeverOlder ==
    ~crossed =>
        /\ \A k \in 1..Len(out) : out[k] \in Version => out[k] >= newest
        /\ \A c \in Caller : Holds(c) /\ data[c] \in Version => data[c] >= newest

(* What Sync remembers as sent last is what the resolver has or is about   *)
(* to get: no outage, failed fetch, error page that was taken for flags or *)
(* slow resolver makes emit take a rollout for delivered that is not, and  *)
(* so keep it back for good (emit compares before it delivers).            *)
LastIsDelivered ==
    ~crossed /\ ~cancelled /\ last \in Version =>
        \/ \E c \in Caller : pc[c] = "send" /\ data[c] = last
        \/ /\ \A c \in Caller : pc[c] # "send"
           /\ IF out = <<>> THEN flagSet = last ELSE out[Len(out)] = last

(* Once flagship answers with its flags for good, and Sync goes on, the    *)
(* resolver comes to have them and keeps them: no error page taken for     *)
(* flags, no snapshot remembered before it was delivered and no ReSync     *)
(* leaves it with anything else, unless ReSync crossed Sync (last is ahead *)
(* of the resolver then).                                                  *)
Converges ==
    (<>[]~outage /\ []~cancelled) => <>[](crossed \/ flagSet = source)

-----------------------------------------------------------------------------
(* The inductive invariant behind NeverOlder and LastIsDelivered.          *)

\* A caller holds what it was answered; nothing is newer than what flagship has, nor
\* the resolver's flags newer than newest.
NotAhead ==
    /\ \A c \in Caller : Holds(c) => data[c] # None
    /\ \A c \in Caller : data[c] \in Version => data[c] <= source
    /\ \A k \in 1..Len(out) : out[k] \in Version => out[k] <= source
    /\ flagSet \in Version => flagSet <= newest

\* What is on its way to the resolver is in order, the answer a caller holds
\* comes last.
InOrder ==
    /\ ~(Holds("sync") /\ Holds("resync"))
    /\ \A k \in 1..Len(out) : out[k] \in Version =>
          /\ out[k] >= newest
          /\ \A j \in 1..k : out[j] \in Version => out[j] <= out[k]
    /\ \A c \in Caller : Holds(c) /\ data[c] \in Version =>
          /\ data[c] >= newest
          /\ \A k \in 1..Len(out) : out[k] \in Version => out[k] <= data[c]

IInv == TypeOK /\ NotAhead /\ (crossed \/ InOrder) /\ LastIsDelivered

=============================================================================

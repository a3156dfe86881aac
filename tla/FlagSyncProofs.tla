--------------------------- MODULE FlagSyncProofs ---------------------------
(***************************************************************************)
(* The flag syncer, for any number of versions, outages and resyncs and a  *)
(* channel of any capacity: no rollout comes back that was replaced, and   *)
(* what the syncer takes for delivered is.                                 *)
(***************************************************************************)
EXTENDS FlagSync, TLAPS

\* What the order of the snapshots rests on, without the claim about last.
OrderInv == TypeOK /\ NotAhead /\ (crossed \/ InOrder)

LEMMA InitOrder == Init => OrderInv
<1> SUFFICES ASSUME Init PROVE OrderInv
  OBVIOUS
<1> USE BoundAssumption, ValueAssumption DEF Init, Caller
<1>1. /\ source \in Version /\ newest \in 0..source
      /\ outages \in 0..MaxOutages /\ resyncs \in 0..MaxResyncs
      /\ out \in Seq(Snapshot) /\ Len(out) <= OutCap
  BY DEF Version
<1>2. /\ pc \in [Caller -> {"off", "wait", "fetch", "answered", "compare", "send", "ended"}]
      /\ pc["sync"] # "off" /\ pc["resync"] \notin {"wait", "ended"}
  OBVIOUS
<1>3. TypeOK
  BY <1>1, <1>2 DEF TypeOK
<1>4. None \notin Version
  BY DEF Version
<1>5. NotAhead /\ InOrder
  BY <1>4 DEF NotAhead, InOrder, Holds
<1> QED BY <1>3, <1>5 DEF OrderInv

\* What the properties are about stays, and nobody takes up a snapshot.
LEMMA Quiet ==
    ASSUME OrderInv, TypeOK', source' \in Nat, source' >= source,
           UNCHANGED <<data, out, flagSet, newest, crossed>>,
           \A c \in Caller : Holds(c)' => Holds(c)
    PROVE  OrderInv'
<1> source \in Nat
  BY DEF OrderInv, TypeOK, Version
<1>1. NotAhead'
  BY DEF OrderInv, NotAhead, Version, Caller
<1>2. InOrder => InOrder'
  BY DEF InOrder, Caller
<1> QED BY <1>1, <1>2 DEF OrderInv

LEMMA PublishStep ==
    ASSUME OrderInv, Publish
    PROVE  OrderInv'
<1>1. source' \in Version /\ source' = source + 1 /\ source \in Nat
  BY BoundAssumption DEF Publish, OrderInv, TypeOK, Version
<1>2. /\ UNCHANGED <<outage, outages, pc, data, last, out, flagSet, newest>>
      /\ UNCHANGED <<cancelled, resyncs, crossed>>
  BY DEF Publish, resolverVars
<1>3. newest' \in 0..source'
  BY <1>1, <1>2 DEF OrderInv, TypeOK
<1>4. TypeOK'
  BY <1>1, <1>2, <1>3, Zenon DEF OrderInv, TypeOK
<1> QED BY <1>1, <1>2, <1>4, Quiet DEF Holds

LEMMA OutageStep ==
    ASSUME OrderInv, Break \/ Repair
    PROVE  OrderInv'
<1>1. outage' \in BOOLEAN /\ outages' \in 0..MaxOutages
  <2>1. outage' \in BOOLEAN
    BY Zenon DEF Break, Repair
  <2>2. outages' \in 0..MaxOutages
    BY BoundAssumption DEF Break, Repair, OrderInv, TypeOK
  <2> QED BY <2>1, <2>2
<1>2. /\ UNCHANGED <<source, pc, data, last, out, flagSet, newest>>
      /\ UNCHANGED <<cancelled, resyncs, crossed>>
  BY DEF Break, Repair, resolverVars
<1>3. TypeOK'
  BY <1>1, <1>2, Zenon DEF OrderInv, TypeOK
<1>4. source \in Nat
  BY DEF OrderInv, TypeOK, Version
<1> QED BY <1>2, <1>3, <1>4, Quiet DEF Holds

\* The places of Sync and of ReSync.
PlaceOK ==
    /\ pc \in [Caller -> {"off", "wait", "fetch", "answered", "compare", "send", "ended"}]
    /\ pc["sync"] # "off" /\ pc["resync"] \notin {"wait", "ended"}

LEMMA GotoPlace ==
    ASSUME PlaceOK, NEW c \in Caller,
           NEW to \in {"off", "wait", "fetch", "answered", "compare", "send", "ended"}, Goto(c, to),
           c = "sync" => to # "off", c = "resync" => to \notin {"wait", "ended"}
    PROVE  PlaceOK' /\ \A b \in Caller : pc'[b] = IF b = c THEN to ELSE pc[b]
BY DEF PlaceOK, Goto, Caller

LEMMA RestPlace ==
    ASSUME PlaceOK, NEW c \in Caller, Goto(c, Rest(c))
    PROVE  PlaceOK' /\ \A b \in Caller : pc'[b] = IF b = c THEN Rest(c) ELSE pc[b]
BY GotoPlace DEF Rest, Caller

\* The steps of Sync and ReSync that get no answer and deliver nothing.
LEMMA ControlStep ==
    ASSUME OrderInv,
           \/ Tick \/ Resync \/ Cancel \/ SyncReturns
           \/ \E c \in Caller : \/ FetchOk(c) \/ FetchFails(c) \/ Unchanged(c)
                              \/ Remember(c) \/ SendCancelled(c)
    PROVE  OrderInv'
<1>1. UNCHANGED <<source, outage, outages, data, out, flagSet, newest, crossed>>
  BY DEF flagshipVars, resolverVars, Tick, Resync, Cancel, SyncReturns, FetchOk, FetchFails,
         Unchanged, Remember, SendCancelled
<1>2. PlaceOK /\ TypeOK /\ source \in Nat
  BY DEF OrderInv, TypeOK, PlaceOK, Version
<1>3. PlaceOK' /\ \A c \in Caller : Holds(c)' => Holds(c)
  <2>1. CASE Tick \/ Resync \/ SyncReturns
    BY <2>1, <1>2, GotoPlace DEF Tick, Resync, SyncReturns, Caller, Holds
  <2>2. CASE Cancel
    BY <2>2, <1>2 DEF Cancel, PlaceOK, Holds
  <2>3. ASSUME NEW c \in Caller, FetchFails(c) \/ Unchanged(c) \/ SendCancelled(c)
        PROVE  PlaceOK' /\ \A b \in Caller : Holds(b)' => Holds(b)
    <3>1. Goto(c, Rest(c))
      BY <2>3 DEF FetchFails, Unchanged, SendCancelled
    <3> QED BY <1>2, <3>1, RestPlace DEF Holds, Rest
  <2>4. ASSUME NEW c \in Caller, FetchOk(c) \/ Remember(c)
        PROVE  PlaceOK' /\ \A b \in Caller : Holds(b)' => Holds(b)
    BY <2>4, <1>2, GotoPlace DEF FetchOk, Remember, Holds
  <2> QED BY <2>1, <2>2, <2>3, <2>4
<1>4. last' \in Snapshot \cup {Torn, None}
  BY DEF OrderInv, TypeOK, Tick, Resync, Cancel, SyncReturns, FetchOk, FetchFails, Unchanged,
         Remember, SendCancelled
<1>5. cancelled' \in BOOLEAN
  BY Zenon DEF OrderInv, TypeOK, Tick, Resync, Cancel, SyncReturns, FetchOk, FetchFails, Unchanged,
         Remember, SendCancelled
<1>6. resyncs' \in 0..MaxResyncs
  BY BoundAssumption DEF OrderInv, TypeOK, Tick, Resync, Cancel, SyncReturns, FetchOk, FetchFails,
         Unchanged, Remember, SendCancelled
<1>7. TypeOK'
  BY <1>1, <1>2, <1>3, <1>4, <1>5, <1>6, Zenon DEF TypeOK, PlaceOK
<1> QED BY <1>1, <1>2, <1>3, <1>7, Quiet

\* The answer to c is what flagship has, so nothing is newer.
LEMMA AnswerStep ==
    ASSUME OrderInv, NEW c \in Caller, Answer(c)
    PROVE  OrderInv'
<1> DEFINE d == IF outage THEN Page ELSE source
<1>1. /\ UNCHANGED <<source, outage, outages, last, out, flagSet, newest>>
      /\ UNCHANGED <<cancelled, resyncs>>
      /\ data' = [data EXCEPT ![c] = d]
      /\ Goto(c, "answered")
      /\ crossed' = (crossed \/ Holds(Other(c)))
  BY DEF Answer, flagshipVars, resolverVars
<1>2. PlaceOK' /\ \A b \in Caller : pc'[b] = IF b = c THEN "answered" ELSE pc[b]
  BY <1>1, GotoPlace DEF OrderInv, TypeOK, PlaceOK
<1>3. /\ d \in Snapshot /\ d # None /\ (d \in Version => d = source)
      /\ source \in Nat /\ newest \in Nat /\ newest <= source
  <2>1. source \in Version /\ source \in Int /\ Page \notin Version /\ None # source
    BY ValueAssumption DEF OrderInv, TypeOK, Version
  <2>2. d = Page \/ d = source
    OBVIOUS
  <2>3. source \in Nat /\ newest \in Nat /\ newest <= source
    BY DEF OrderInv, TypeOK, Version
  <2> QED BY <2>1, <2>2, <2>3, ValueAssumption DEF Snapshot
<1> HIDE DEF d
<1>4. data' \in [Caller -> Snapshot \cup {None}] /\ data'[c] = d
      /\ \A b \in Caller \ {c} : data'[b] = data[b]
  BY <1>1, <1>3 DEF OrderInv, TypeOK
<1>5. crossed' \in BOOLEAN
  BY <1>1, Zenon
<1>6. TypeOK'
  BY <1>1, <1>2, <1>4, <1>5, Zenon DEF OrderInv, TypeOK, PlaceOK
<1>7. NotAhead'
  BY <1>1, <1>2, <1>3, <1>4 DEF OrderInv, NotAhead, Holds
<1>8. ASSUME ~crossed, ~Holds(Other(c)) PROVE InOrder'
  <2>1. \A b \in Caller : Holds(b)' => b = c
    BY <1>2, <1>8 DEF Caller, Other, Holds
  <2>2. ~(Holds("sync")' /\ Holds("resync")')
    BY <2>1 DEF Caller
  <2>3. \A k \in 1..Len(out) : out[k] \in Version => out[k] <= source
    BY DEF OrderInv, NotAhead
  <2>4. InOrder
    BY <1>8 DEF OrderInv
  <2> QED BY <1>1, <1>3, <1>4, <2>1, <2>2, <2>3, <2>4 DEF InOrder
<1>9. crossed' \/ InOrder'
  BY <1>1, <1>8
<1> QED BY <1>6, <1>7, <1>9 DEF OrderInv

LEMMA SendStep ==
    ASSUME OrderInv, NEW c \in Caller, Send(c)
    PROVE  OrderInv'
<1>1. /\ UNCHANGED <<source, outage, outages, data, last, flagSet, newest>>
      /\ UNCHANGED <<cancelled, resyncs, crossed>>
      /\ out' = Append(out, data[c])
      /\ Goto(c, Rest(c))
      /\ Holds(c)
  BY DEF Send, flagshipVars, resolverVars, Holds
<1>2. PlaceOK' /\ \A b \in Caller : pc'[b] = IF b = c THEN Rest(c) ELSE pc[b]
  BY <1>1, RestPlace DEF OrderInv, TypeOK, PlaceOK
<1>3. data[c] \in Snapshot /\ out \in Seq(Snapshot) /\ source \in Nat /\ newest \in Nat
  BY <1>1 DEF OrderInv, TypeOK, NotAhead, Version
<1>4. /\ out' \in Seq(Snapshot) /\ Len(out) \in Nat /\ Len(out') = Len(out) + 1
      /\ \A k \in 1..Len(out) : out'[k] = out[k]
      /\ out'[Len(out) + 1] = data[c]
  BY <1>1, <1>3
<1>5. Len(out') <= OutCap
  BY <1>4, BoundAssumption DEF Send
<1>6. TypeOK'
  BY <1>1, <1>2, <1>4, <1>5, Zenon DEF OrderInv, TypeOK, PlaceOK
<1>7. \A k \in 1..Len(out') : k \in 1..Len(out) \/ k = Len(out) + 1
  BY <1>4
<1>8. \A b \in Caller : Holds(b)' => Holds(b) /\ b # c
  BY <1>2 DEF Holds, Rest
<1>9. NotAhead'
  BY <1>1, <1>3, <1>4, <1>7, <1>8 DEF OrderInv, NotAhead
<1>10. ASSUME ~crossed PROVE InOrder'
  <2>1. InOrder
    BY <1>10 DEF OrderInv
  <2>2. \A b \in Caller : ~Holds(b)'
    BY <1>1, <1>8, <2>1 DEF InOrder, Caller
  <2>3. ASSUME NEW k \in 1..Len(out'), out'[k] \in Version
        PROVE  /\ out'[k] >= newest
               /\ \A j \in 1..k : out'[j] \in Version => out'[j] <= out'[k]
    <3>1. CASE k \in 1..Len(out)
      <4>1. \A j \in 1..k : j \in 1..Len(out)
        BY <1>4, <3>1
      <4> QED BY <1>4, <2>1, <2>3, <3>1, <4>1 DEF InOrder
    <3>2. CASE k = Len(out) + 1
      <4>1. \A j \in 1..k : j \in 1..Len(out) \/ j = k
        BY <1>4, <3>2
      <4> QED BY <1>1, <1>4, <2>1, <2>3, <3>2, <4>1 DEF InOrder, Version
    <3> QED BY <1>7, <3>1, <3>2
  <2>4. ~(Holds("sync")' /\ Holds("resync")')
    BY <2>2 DEF Caller
  <2> QED BY <1>1, <2>2, <2>3, <2>4 DEF InOrder
<1> QED BY <1>1, <1>6, <1>9, <1>10 DEF OrderInv

LEMMA ResolveStep ==
    ASSUME OrderInv, Resolve
    PROVE  OrderInv'
<1>1. /\ UNCHANGED <<source, outage, outages, pc, data, last>>
      /\ UNCHANGED <<cancelled, resyncs, crossed>>
      /\ out # <<>> /\ out' = Tail(out)
      /\ flagSet' \in IF Head(out) = Page THEN {flagSet, Page} ELSE {Head(out)}
      /\ newest' = IF flagSet' \in Version /\ flagSet' > newest THEN flagSet' ELSE newest
  BY DEF Resolve, flagshipVars
<1>2. out \in Seq(Snapshot) /\ source \in Nat /\ newest \in Nat /\ newest <= source
  BY DEF OrderInv, TypeOK, Version
<1>3. /\ out' \in Seq(Snapshot) /\ Len(out) \in Nat \ {0} /\ Len(out') = Len(out) - 1
      /\ \A k \in 1..Len(out') : k + 1 \in 1..Len(out) /\ out'[k] = out[k + 1]
      /\ Head(out) \in Snapshot /\ Head(out) = out[1] /\ 1 \in 1..Len(out)
  BY <1>1, <1>2
<1>4. Page \notin Version
  BY ValueAssumption DEF Version
<1>5. flagSet' \in Version => flagSet' = flagSet \/ flagSet' = out[1]
  BY <1>1, <1>3, <1>4
<1>6. flagSet' \in Version => flagSet' <= source /\ flagSet' \in Nat
  BY <1>2, <1>3, <1>5 DEF OrderInv, NotAhead, Version
<1>7. newest' \in 0..source /\ newest' \in Nat /\ (flagSet' \in Version => flagSet' <= newest')
  BY <1>1, <1>2, <1>6
<1>8. TypeOK'
  <2>1. flagSet' \in Snapshot \cup {None}
    BY <1>1, <1>3 DEF OrderInv, TypeOK, Snapshot
  <2>2. Len(out') <= OutCap
    BY <1>3, BoundAssumption DEF OrderInv, TypeOK
  <2> QED BY <1>1, <1>3, <1>7, <2>1, <2>2, Zenon DEF OrderInv, TypeOK
<1>9. NotAhead'
  BY <1>1, <1>3, <1>7 DEF OrderInv, NotAhead, Holds
<1>10. ASSUME ~crossed PROVE InOrder'
  <2>1. InOrder
    BY <1>10 DEF OrderInv
  <2>2. newest' = newest \/ (out[1] \in Version /\ newest' = out[1])
    BY <1>1, <1>2, <1>5, <1>6 DEF OrderInv, NotAhead
  <2>3. \A k \in 1..Len(out) : out[k] \in Version => out[k] >= newest'
    <3>1. ASSUME NEW k \in 1..Len(out), out[k] \in Version PROVE out[k] >= newest'
      <4>1. 1 \in 1..k
        BY <1>3
      <4> QED BY <1>2, <2>1, <2>2, <3>1, <4>1 DEF InOrder, Version
    <3> QED BY <3>1
  <2>4. ASSUME NEW c \in Caller, Holds(c)', data'[c] \in Version
        PROVE  /\ data'[c] >= newest'
               /\ \A k \in 1..Len(out') : out'[k] \in Version => out'[k] <= data'[c]
    BY <1>1, <1>3, <2>1, <2>2, <2>4 DEF InOrder, Holds
  <2>5. ASSUME NEW k \in 1..Len(out'), out'[k] \in Version
        PROVE  \A j \in 1..k : out'[j] \in Version => out'[j] <= out'[k]
    <3>1. \A j \in 1..k : j + 1 \in 1..(k + 1) /\ j \in 1..Len(out')
      BY <1>3
    <3> QED BY <1>3, <2>1, <2>5, <3>1 DEF InOrder
  <2>6. ~(Holds("sync")' /\ Holds("resync")')
    BY <1>1, <2>1 DEF InOrder, Holds
  <2> QED BY <1>3, <2>3, <2>4, <2>5, <2>6 DEF InOrder
<1> QED BY <1>1, <1>8, <1>9, <1>10 DEF OrderInv

LEMMA NextOrder == OrderInv /\ [Next]_vars => OrderInv'
<1> SUFFICES ASSUME OrderInv, [Next]_vars PROVE OrderInv'
  OBVIOUS
<1>1. CASE Publish \/ Break \/ Repair
  BY <1>1, PublishStep, OutageStep
<1>2. CASE Tick \/ Resync \/ Cancel \/ SyncReturns
  BY <1>2, ControlStep
<1>3. ASSUME NEW c \in Caller, EmitStep(c) PROVE OrderInv'
  BY <1>3, ControlStep, AnswerStep, SendStep DEF EmitStep
<1>4. CASE Resolve
  BY <1>4, ResolveStep
<1>5. CASE UNCHANGED vars
  <2>1. TypeOK' /\ UNCHANGED <<source, data, out, flagSet, newest, crossed, pc>>
    BY <1>5 DEF vars, flagshipVars, resolverVars, OrderInv, TypeOK
  <2>2. source \in Nat
    BY DEF OrderInv, TypeOK, Version
  <2> QED BY <2>1, <2>2, Quiet DEF Holds
<1> QED BY <1>1, <1>2, <1>3, <1>4, <1>5 DEF Next

-----------------------------------------------------------------------------
(* What last says of the channel and of the resolver.                      *)

\* Nobody starts or ends a delivery, and none of its parts moves.
LEMMA Calm ==
    ASSUME LastIsDelivered, UNCHANGED <<last, out, flagSet>>,
           crossed => crossed', cancelled => cancelled',
           \A c \in Caller : (pc'[c] = "send" <=> pc[c] = "send")
                            /\ (pc[c] = "send" => data'[c] = data[c])
    PROVE  LastIsDelivered'
BY DEF LastIsDelivered

\* The steps of Sync and ReSync outside a delivery; ReSync forgets last.
LEMMA CalmStep ==
    ASSUME OrderInv, LastIsDelivered,
           \/ Publish \/ Break \/ Repair \/ Tick \/ Resync \/ Cancel \/ SyncReturns
           \/ \E c \in Caller : Answer(c) \/ FetchOk(c) \/ FetchFails(c) \/ Unchanged(c)
    PROVE  LastIsDelivered'
<1> USE DEF flagshipVars, resolverVars
<1>1. PlaceOK /\ data \in [Caller -> Snapshot \cup {None}]
  BY DEF OrderInv, TypeOK, PlaceOK
<1>2. CASE Publish \/ Break \/ Repair \/ Cancel
  <2>1. UNCHANGED <<last, out, flagSet, crossed, pc, data>> /\ (cancelled => cancelled')
    BY <1>2 DEF Publish, Break, Repair, Cancel
  <2> QED BY <2>1, Calm
<1>3. CASE Tick \/ SyncReturns
  <2>1. UNCHANGED <<last, out, flagSet, crossed, cancelled, data>>
    BY <1>3 DEF Tick, SyncReturns
  <2>2. \A c \in Caller : pc'[c] = "send" <=> pc[c] = "send"
    BY <1>1, <1>3, GotoPlace DEF Tick, SyncReturns, Caller
  <2> QED BY <2>1, <2>2, Calm
<1>4. CASE Resync
  <2>1. last' = None /\ None \notin Version
    BY <1>4, ValueAssumption DEF Resync, Version
  <2> QED BY <2>1 DEF LastIsDelivered
<1>5. ASSUME NEW c \in Caller, Answer(c) PROVE LastIsDelivered'
  <2>1. /\ UNCHANGED <<last, out, flagSet, cancelled>> /\ Goto(c, "answered")
        /\ crossed' = (crossed \/ Holds(Other(c))) /\ pc[c] = "fetch"
        /\ data' = [data EXCEPT ![c] = IF outage THEN Page ELSE source]
    BY <1>5 DEF Answer
  <2>2. \A b \in Caller : pc'[b] = "send" <=> pc[b] = "send"
    BY <1>1, <2>1, GotoPlace DEF Caller
  <2>3. \A b \in Caller : pc[b] = "send" => data'[b] = data[b]
    BY <1>1, <2>1
  <2> QED BY <2>1, <2>2, <2>3, Calm
<1>6. ASSUME NEW c \in Caller, FetchFails(c) \/ Unchanged(c) PROVE LastIsDelivered'
  <2>1. /\ UNCHANGED <<last, out, flagSet, cancelled, crossed, data>>
        /\ Goto(c, Rest(c)) /\ pc[c] # "send"
    BY <1>6 DEF FetchFails, Unchanged
  <2>2. \A b \in Caller : pc'[b] = "send" <=> pc[b] = "send"
    BY <1>1, <2>1, RestPlace DEF Rest
  <2> QED BY <2>1, <2>2, Calm
<1>7. ASSUME NEW c \in Caller, FetchOk(c) PROVE LastIsDelivered'
  <2>1. /\ UNCHANGED <<last, out, flagSet, cancelled, crossed, data>>
        /\ Goto(c, "compare") /\ pc[c] # "send"
    BY <1>7 DEF FetchOk
  <2>2. \A b \in Caller : pc'[b] = "send" <=> pc[b] = "send"
    BY <1>1, <2>1, GotoPlace DEF Caller
  <2> QED BY <2>1, <2>2, Calm
<1> QED BY <1>2, <1>3, <1>4, <1>5, <1>6, <1>7

\* A caller remembers what it is about to send; the other one holds nothing, so
\* the write is whole.
LEMMA RememberDelivers ==
    ASSUME OrderInv, NEW c \in Caller, Remember(c)
    PROVE  LastIsDelivered'
<1>1. /\ pc[c] = "compare" /\ Goto(c, "send")
      /\ last' \in IF pc[Other(c)] = "compare" THEN {data[c], Torn} ELSE {data[c]}
      /\ UNCHANGED <<data, crossed>>
  BY DEF Remember
<1>2. pc'[c] = "send"
  BY <1>1, GotoPlace DEF OrderInv, TypeOK, PlaceOK, Caller
<1>3. ~crossed => pc[Other(c)] # "compare"
  BY <1>1 DEF OrderInv, InOrder, Holds, Other, Caller
<1> QED BY <1>1, <1>2, <1>3 DEF LastIsDelivered

\* What a caller sends comes last in the channel; the other one sends nothing.
LEMMA SendDelivers ==
    ASSUME OrderInv, LastIsDelivered, NEW c \in Caller, Send(c)
    PROVE  LastIsDelivered'
<1>1. /\ pc[c] = "send" /\ Goto(c, Rest(c)) /\ out' = Append(out, data[c])
      /\ UNCHANGED <<data, last, flagSet, cancelled, crossed>>
  BY DEF Send, resolverVars
<1>2. data[c] \in Snapshot /\ out \in Seq(Snapshot)
  BY <1>1 DEF OrderInv, TypeOK, NotAhead, Holds
<1>3. out' # <<>> /\ out'[Len(out')] = data[c]
  BY <1>1, <1>2
<1>4. SUFFICES ASSUME ~crossed, ~cancelled, last \in Version
               PROVE  /\ \A b \in Caller : pc'[b] # "send"
                      /\ data[c] = last
  BY <1>1, <1>3 DEF LastIsDelivered
<1>5. \A b \in Caller : pc[b] = "send" => b = c
  BY <1>1, <1>4 DEF OrderInv, InOrder, Holds, Caller
<1>6. \A b \in Caller : pc'[b] # "send"
  BY <1>1, <1>5, RestPlace DEF OrderInv, TypeOK, PlaceOK, Rest
<1> QED BY <1>1, <1>4, <1>5, <1>6 DEF LastIsDelivered

\* The resolver takes the oldest snapshot; when it was the only one, it was last.
LEMMA ResolveDelivers ==
    ASSUME OrderInv, LastIsDelivered, Resolve
    PROVE  LastIsDelivered'
<1>1. /\ UNCHANGED <<pc, data, last, cancelled, crossed>>
      /\ out # <<>> /\ out' = Tail(out)
      /\ flagSet' \in IF Head(out) = Page THEN {flagSet, Page} ELSE {Head(out)}
  BY DEF Resolve
<1>2. SUFFICES ASSUME ~crossed, ~cancelled, last \in Version, \A c \in Caller : pc[c] # "send"
               PROVE  IF out' = <<>> THEN flagSet' = last ELSE out'[Len(out')] = last
  BY <1>1 DEF LastIsDelivered
<1>3. out[Len(out)] = last
  BY <1>1, <1>2 DEF LastIsDelivered
<1>4. out \in Seq(Snapshot)
  BY DEF OrderInv, TypeOK
<1>5. Len(out) \in Nat \ {0} /\ Len(out') = Len(out) - 1
      /\ \A k \in 1..Len(out') : out'[k] = out[k + 1]
  BY <1>1, <1>4
<1>6. CASE out' = <<>>
  <2>1. Head(out) = last
    <3>1. Len(out') = 0
      BY <1>6
    <3>2. Len(out) = 1
      BY <1>5, <3>1
    <3>3. Head(out) = out[1]
      BY <1>1, <1>4
    <3> QED BY <1>3, <3>2, <3>3
  <2>2. last # Page
    BY <1>2, ValueAssumption DEF Version
  <2> QED BY <1>1, <1>6, <2>1, <2>2
<1>7. CASE out' # <<>>
  <2>1. Len(out') \in 1..Len(out')
    BY <1>1, <1>4, <1>5, <1>7
  <2> QED BY <1>3, <1>5, <1>7, <2>1
<1> QED BY <1>6, <1>7

LEMMA InitIInv == Init => IInv
<1>1. None \notin Version
  BY ValueAssumption DEF Version
<1>2. Init => LastIsDelivered
  BY <1>1 DEF Init, LastIsDelivered
<1> QED BY <1>2, InitOrder DEF IInv, OrderInv

LEMMA NextIInv == IInv /\ [Next]_vars => IInv'
<1> SUFFICES ASSUME IInv, [Next]_vars PROVE IInv'
  OBVIOUS
<1>1. OrderInv /\ LastIsDelivered
  BY DEF IInv, OrderInv
<1>2. LastIsDelivered'
  <2>1. CASE Publish \/ Break \/ Repair \/ Tick \/ Resync \/ Cancel \/ SyncReturns
    BY <1>1, <2>1, CalmStep
  <2>2. ASSUME NEW c \in Caller, EmitStep(c) PROVE LastIsDelivered'
    <3>1. CASE Answer(c) \/ FetchOk(c) \/ FetchFails(c) \/ Unchanged(c)
      BY <1>1, <3>1, CalmStep
    <3>2. CASE Remember(c)
      BY <1>1, <3>2, RememberDelivers
    <3>3. CASE Send(c)
      BY <1>1, <3>3, SendDelivers
    <3>4. CASE SendCancelled(c)
      BY <3>4 DEF SendCancelled, LastIsDelivered
    <3> QED BY <2>2, <3>1, <3>2, <3>3, <3>4 DEF EmitStep
  <2>3. CASE Resolve
    BY <1>1, <2>3, ResolveDelivers
  <2>4. CASE UNCHANGED vars
    BY <1>1, <2>4, Calm DEF vars, resolverVars
  <2> QED BY <2>1, <2>2, <2>3, <2>4 DEF Next
<1> QED BY <1>1, <1>2, NextOrder DEF IInv, OrderInv

-----------------------------------------------------------------------------
\* Every variable keeps its kind, and last is torn or a snapshot at worst.
THEOREM TypeCorrect == Spec => []TypeOK
<1>1. IInv => TypeOK
  BY DEF IInv
<1> QED BY InitIInv, NextIInv, <1>1, PTL DEF Spec

\* No snapshot older than the resolver's flags is on its way to it, unless
\* ReSync and Sync had an answer each, on its way or in hand, at some time
\* (emit).
THEOREM NoRollback == Spec => []NeverOlder
<1>1. IInv => NeverOlder
  BY DEF IInv, InOrder, NeverOlder
<1> QED BY InitIInv, NextIInv, <1>1, PTL DEF Spec

\* What emit remembers as sent is on its way to the resolver or there, unless
\* ReSync and Sync had an answer each, on its way or in hand, at some time or
\* the provider shut down (emit).
THEOREM RememberedIsDelivered == Spec => []LastIsDelivered
<1>1. IInv => LastIsDelivered
  BY DEF IInv
<1> QED BY InitIInv, NextIInv, <1>1, PTL DEF Spec

=============================================================================

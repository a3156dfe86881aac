-------------------------- MODULE TrackerPageProofs --------------------------
(***************************************************************************)
(* The tracker's page, for any tracking numbers and any number of          *)
(* navigations: answers that cross do not mix up what a page shows, and    *)
(* none that it waits for is dropped.                                      *)
(***************************************************************************)
EXTENDS TrackerPage, TLAPS

LEMMA InitIInv == Init => IInv
<1> SUFFICES ASSUME Init PROVE IInv
  OBVIOUS
<1> USE RouteAssumption, NoneAssumption, NavsAssumption DEF Init, Route
<1>1. loading \in BOOLEAN /\ (hash # Landing => loading)
  BY Zenon
<1>2. TypeOK
  <2>1. navs \in 0..MaxNavs /\ runs \in 0..(navs + 1)
    OBVIOUS
  <2> QED BY <1>1, <2>1, Zenon DEF TypeOK
<1>3. AskedOnce /\ LiveIsAsked
  BY DEF AskedOnce, LiveIsAsked
<1>4. PageOK
  BY <1>1 DEF PageOK
<1>5. DueOK
  BY DEF DueOK
<1> QED BY <1>2, <1>3, <1>4, <1>5 DEF IInv

LEMMA NavigateStep ==
    ASSUME IInv, NEW route \in Route, Navigate(route)
    PROVE  IInv'
<1> USE RouteAssumption, NoneAssumption, NavsAssumption DEF IInv, Navigate, pageVars
<1>1. TypeOK'
  BY DEF TypeOK, Route, Request
<1>2. AskedOnce'
  BY DEF TypeOK, AskedOnce
<1>3. LiveIsAsked' /\ PageOK' /\ DueOK'
  BY DEF LiveIsAsked, PageOK, DueOK
<1> QED BY <1>1, <1>2, <1>3

LEMMA HashChangeStep ==
    ASSUME IInv, HashChange
    PROVE  IInv'
<1> USE RouteAssumption, NoneAssumption, NavsAssumption DEF IInv, HashChange, pageVars
<1>1. TypeOK'
  BY DEF TypeOK, Route, Request
<1>2. AskedOnce'
  BY DEF TypeOK, AskedOnce
<1>3. LiveIsAsked'
  BY DEF LiveIsAsked
<1>4. PageOK'
  <2>1. CASE (id = Landing) # (hash = Landing)
    BY <2>1 DEF PageOK
  <2>2. CASE (id = Landing) = (hash = Landing)
    BY <2>2 DEF PageOK
  <2> QED BY <2>1, <2>2
<1>5. DueOK'
  <2>1. CASE hash = id
    BY <2>1 DEF DueOK
  <2>2. CASE hash # id
    BY <2>2 DEF DueOK
  <2> QED BY <2>1, <2>2
<1> QED BY <1>1, <1>2, <1>3, <1>4, <1>5

LEMMA EffectStep ==
    ASSUME IInv, Effect
    PROVE  IInv'
<1> USE RouteAssumption, NoneAssumption, NavsAssumption DEF IInv, Effect, Fetch, pageVars
<1> runs \in Nat /\ navs \in Nat /\ runs <= navs
  BY DEF TypeOK, AskedOnce
<1>1. TypeOK'
  <2>1. runs + 1 \in 1..(MaxNavs + 1) /\ runs + 1 \in 0..(navs + 1)
    BY DEF TypeOK
  <2>2. requests' \subseteq Request
    BY <2>1 DEF TypeOK, Request
  <2> QED BY <2>1, <2>2 DEF TypeOK, Route
<1>2. AskedOnce'
  BY DEF TypeOK, AskedOnce
<1>3. LiveIsAsked'
  BY DEF TypeOK, LiveIsAsked, Request
<1>4. PageOK'
  BY DEF PageOK
<1>5. DueOK'
  <2>1. [run |-> runs + 1, route |-> id] \in requests' /\ live' = runs + 1
    OBVIOUS
  <2> QED BY <2>1 DEF DueOK
<1> QED BY <1>1, <1>2, <1>3, <1>4, <1>5

LEMMA AnswerStep ==
    ASSUME IInv, NEW q \in Request, Answer(q)
    PROVE  IInv'
<1> USE RouteAssumption, NoneAssumption, NavsAssumption DEF IInv, Answer, pageVars
<1>1. PICK outcome \in Outcomes(q.route) :
          IF q.run = live /\ ~Unmounted(q) THEN Show(q, outcome) ELSE UNCHANGED pageVars
  OBVIOUS
<1>2. q.route \in Route /\ (q.run = live => q.route = effect)
  BY DEF LiveIsAsked, Request
<1>3. outcome = "found" => q.route \in Known \cup {Landing}
  BY DEF Outcomes
<1>4. AskedOnce' /\ LiveIsAsked'
  BY DEF AskedOnce, LiveIsAsked
<1>5. CASE q.run = live /\ ~Unmounted(q)
  <2>1. Show(q, outcome)
    BY <1>1, <1>5
  <2>2. TypeOK'
    BY <1>2, <1>3, <2>1 DEF TypeOK, Route, Show
  <2>3. PageOK'
    <3>1. SUFFICES ASSUME id # Landing PROVE PageOK'
      BY DEF PageOK
    <3>2. q.route # Landing /\ q.route \in TrackingId /\ q.route = effect
      BY <1>2, <1>5, <3>1 DEF Unmounted, Route
    <3>3. loading /\ shipment = None /\ error = None
      BY <1>5, <3>1 DEF PageOK
    <3>4. \A p \in requests' : p.run # live'
      <4> SUFFICES ASSUME NEW p \in requests', p.run = live PROVE FALSE
        OBVIOUS
      <4>1. p \in Request /\ p # q /\ p.route = q.route /\ p.run = q.run
        BY <1>2, <1>5 DEF LiveIsAsked, TypeOK
      <4> QED BY <4>1 DEF Request
    <3> QED BY <2>1, <3>2, <3>3, <3>4 DEF Show, PageOK, TypeOK
  <2>4. DueOK'
    BY <1>2, <1>5, <2>1 DEF DueOK, Show, Unmounted
  <2> QED BY <1>4, <2>2, <2>3, <2>4
<1>6. CASE ~(q.run = live /\ ~Unmounted(q))
  <2>1. TypeOK' /\ PageOK'
    BY <1>1, <1>4, <1>6 DEF TypeOK, PageOK
  <2>2. effect = id => q.run # live
    BY <1>2, <1>6 DEF Unmounted
  <2>3. DueOK'
    BY <1>1, <1>6, <2>2 DEF DueOK
  <2> QED BY <1>4, <2>1, <2>3
<1> QED BY <1>5, <1>6

LEMMA NextIInv == IInv /\ [Next]_vars => IInv'
<1> SUFFICES ASSUME IInv, [Next]_vars PROVE IInv'
  OBVIOUS
<1>1. CASE \E route \in Route : Navigate(route)
  BY <1>1, NavigateStep
<1>2. CASE HashChange
  BY <1>2, HashChangeStep
<1>3. CASE Effect
  BY <1>3, EffectStep
<1>4. CASE \E q \in Request : Answer(q)
  BY <1>4, AnswerStep
<1>5. CASE UNCHANGED vars
  BY <1>5 DEF vars, pageVars, IInv, TypeOK, AskedOnce, LiveIsAsked, PageOK,
               DueOK
<1> QED BY <1>1, <1>2, <1>3, <1>4, <1>5 DEF Next

\* Every variable keeps its kind, and the page asks at most once for a route
\* it is navigated to, however often it renders.
THEOREM TypeCorrect == Spec => []TypeOK
<1>1. IInv => TypeOK
  BY DEF IInv
<1> QED BY InitIInv, NextIInv, <1>1, PTL DEF Spec

\* A detail page shows what it was asked for, whatever was asked before and in
\* whatever order the answers come (App.tsx:189-212).
THEOREM ShowsWhatIsAsked == Spec => []ShownIsAsked
<1>1. IInv => ShownIsAsked
  BY DEF IInv, ShownIsAsked, PageOK
<1> QED BY InitIInv, NextIInv, <1>1, PTL DEF Spec

\* A page with nothing under way shows the route of the URL and what was asked
\* for it: the answer it needs is never among those that are dropped
\* (App.tsx:51-66, 112-124, 194-212).
THEOREM RestsSettled == Spec => []RestIsSettled
<1>1. IInv => RestIsSettled
  <2> SUFFICES ASSUME IInv, ~event, effect = id, requests = {} PROVE Settled
    BY DEF RestIsSettled
  <2>1. id = hash
    BY DEF IInv, DueOK
  <2>2. IF id = Landing THEN samples # "none" ELSE ~loading
    BY DEF IInv, DueOK
  <2>3. id # Landing => {shipment, error} = {id, None}
    BY <2>2 DEF IInv, PageOK
  <2> QED BY <2>1, <2>2, <2>3 DEF Settled
<1> QED BY InitIInv, NextIInv, <1>1, PTL DEF Spec

=============================================================================

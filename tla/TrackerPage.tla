---------------------------- MODULE TrackerPage ----------------------------
(***************************************************************************)
(* The tracker: one browser page (web/src/App.tsx) and the two proxies it  *)
(* calls (cmd/tracker).                                                    *)
(*                                                                         *)
(* The URL's hash is the page's route.  It changes at once when the user   *)
(* navigates, the hashchange event sets the React state later, and the     *)
(* effect that fetches runs after React has shown the new state.  Answers  *)
(* arrive whenever they do, in any order; an effect's cleanup marks the    *)
(* answer it was waiting for as cancelled, it does not abort the request.  *)
(*                                                                         *)
(* What a page shows is reduced to the tracking number that it is about.   *)
(***************************************************************************)
EXTENDS Integers, FiniteSets

CONSTANTS
    TrackingId,   \* what users look for
    Known,        \* the tracking numbers the shipments service has
    MaxNavs,      \* bound on navigations
    Landing,      \* the empty route: the landing page
    None

ASSUME RouteAssumption == Known \subseteq TrackingId /\ {Landing, None} \cap TrackingId = {}
ASSUME NoneAssumption == None # Landing
ASSUME NavsAssumption == MaxNavs \in Nat

Route == TrackingId \cup {Landing}

VARIABLES
    hash,       \* the route in the URL
    navs,       \* navigations so far
    event,      \* a hashchange event is queued
    id,         \* useTrackingIdFromHash: the route React shows
    effect,     \* the route whose effect ran last, None before the first
    runs,       \* effects run so far; each starts one request
    requests,   \* requests without an answer yet
    live,       \* the run whose answer is not cancelled
    loading,    \* state of ShipmentDetail ...
    shipment,   \* ... the tracking number of the document it has
    error,      \* ... the tracking number its error is about
    samples     \* state of Landing: none, loaded or failed

pageVars == <<loading, shipment, error, samples>>
vars == <<hash, navs, event, id, effect, runs, requests, live, pageVars>>

Request == [run : 1..(MaxNavs + 1), route : Route]

-----------------------------------------------------------------------------
(* The proxies of cmd/tracker.                                             *)

\* GET /api/shipments/{id} and GET /api/shipments: a 200, or a 404 or a 502
\* that the page reports as an error.
Outcomes(route) ==
    IF route \in Known \cup {Landing} THEN {"found", "failed"} ELSE {"failed"}

-----------------------------------------------------------------------------
(* Navigation.                                                             *)

Navigate(route) ==
    /\ navs < MaxNavs
    /\ route # hash
    /\ navs' = navs + 1
    /\ hash' = route
    /\ event' = TRUE
    /\ UNCHANGED <<id, effect, runs, requests, live, pageVars>>

\* onHashChange, and React shows the new route, after the effects of the route
\* it showed before.  A component that was not there starts from its initial
\* state; one that was keeps its state.
HashChange ==
    /\ event
    /\ effect = id
    /\ event' = FALSE
    /\ id' = hash
    /\ IF (id = Landing) # (hash = Landing)
       THEN /\ loading' = (hash # Landing)
            /\ shipment' = None
            /\ error' = None
            /\ samples' = "none"
       ELSE UNCHANGED pageVars
    /\ UNCHANGED <<hash, navs, effect, runs, requests, live>>

\* The fetch of a new run; the previous run's cleanup has cancelled its answer.
Fetch(route) ==
    /\ runs' = runs + 1
    /\ requests' = requests \cup {[run |-> runs + 1, route |-> route]}
    /\ live' = runs + 1

\* Mutant: an effect without dependencies runs after every render.
EffectEveryRender ==
    /\ effect' = id
    /\ Fetch(id)
    /\ IF id = Landing
       THEN UNCHANGED pageVars
       ELSE /\ loading' = TRUE
            /\ shipment' = None
            /\ error' = None
            /\ UNCHANGED samples
    /\ UNCHANGED <<hash, navs, event, id>>

\* The cleanup of the last effect, then the effect of the route shown.
Effect ==
    /\ effect # id
    /\ effect' = id
    /\ Fetch(id)
    /\ IF id = Landing
       THEN UNCHANGED pageVars
       ELSE /\ loading' = TRUE
            /\ shipment' = None
            /\ error' = None
            /\ UNCHANGED samples
    /\ UNCHANGED <<hash, navs, event, id>>

-----------------------------------------------------------------------------
(* Answers.                                                                *)

\* The component that asked has been replaced, its cleanup not run yet: React
\* drops what it sets.
Unmounted(q) == (q.route = Landing) # (id = Landing)

\* Mutant: loading ends in then, not in finally.
ShowFound(q, outcome) ==
    IF q.route = Landing
    THEN /\ samples' = IF outcome = "found" THEN "loaded" ELSE "failed"
         /\ UNCHANGED <<loading, shipment, error>>
    ELSE /\ loading' = (outcome # "found")
         /\ shipment' = IF outcome = "found" THEN q.route ELSE shipment
         /\ error' = IF outcome = "found" THEN error ELSE q.route
         /\ UNCHANGED samples

\* then or catch, and finally: one task of the browser.
Show(q, outcome) ==
    IF q.route = Landing
    THEN /\ samples' = IF outcome = "found" THEN "loaded" ELSE "failed"
         /\ UNCHANGED <<loading, shipment, error>>
    ELSE /\ loading' = FALSE
         /\ shipment' = IF outcome = "found" THEN q.route ELSE shipment
         /\ error' = IF outcome = "found" THEN error ELSE q.route
         /\ UNCHANGED samples

\* Mutant: answers are not checked against cancelled.
AnswerAlways(q) ==
    /\ q \in requests
    /\ requests' = requests \ {q}
    /\ \E outcome \in Outcomes(q.route) :
          IF Unmounted(q) THEN UNCHANGED pageVars ELSE Show(q, outcome)
    /\ UNCHANGED <<hash, navs, event, id, effect, runs, live>>

Answer(q) ==
    /\ q \in requests
    /\ requests' = requests \ {q}
    /\ \E outcome \in Outcomes(q.route) :
          IF q.run = live /\ ~Unmounted(q) THEN Show(q, outcome) ELSE UNCHANGED pageVars
    /\ UNCHANGED <<hash, navs, event, id, effect, runs, live>>

-----------------------------------------------------------------------------
\* The page is opened on some route.
Init ==
    /\ hash \in Route
    /\ navs = 0
    /\ event = FALSE
    /\ id = hash
    /\ effect = None
    /\ runs = 0
    /\ requests = {}
    /\ live = 0
    /\ loading = (hash # Landing)
    /\ shipment = None
    /\ error = None
    /\ samples = "none"

Next ==
    \/ \E route \in Route : Navigate(route)
    \/ HashChange \/ Effect
    \/ \E q \in Request : Answer(q)

Spec == Init /\ [][Next]_vars

\* The browser delivers its events and runs React's work, and a fetch ends, by
\* the browser's own limit if nobody answers it.
Fairness ==
    /\ WF_vars(HashChange) /\ WF_vars(Effect)
    /\ \A q \in Request : WF_vars(Answer(q))

FairSpec == Spec /\ Fairness

-----------------------------------------------------------------------------
(* Properties.                                                             *)

\* Every variable holds a value of its kind, and the page asks at most once
\* for a route it is navigated to (the dependencies of App.tsx:124, 212).
TypeOK ==
    /\ hash \in Route /\ id \in Route
    /\ navs \in 0..MaxNavs
    /\ event \in BOOLEAN /\ loading \in BOOLEAN
    /\ effect \in Route \cup {None}
    /\ runs \in 0..(navs + 1)
    /\ requests \subseteq Request
    /\ live = runs
    /\ shipment \in Known \cup {None}
    /\ error \in TrackingId \cup {None}
    /\ samples \in {"none", "loaded", "failed"}

\* However answers cross navigations, a detail page whose effect has run shows
\* the shipment of the tracking number it is for, or that number's error, or
\* that it is looking, and never two of them (App.tsx:189-212).
ShownIsAsked ==
    id = effect /\ id # Landing =>
        \/ loading /\ shipment = None /\ error = None
        \/ ~loading /\ shipment = id /\ error = None
        \/ ~loading /\ shipment = None /\ error = id

\* The page shows the route of the URL, and what was asked for it.
Settled ==
    /\ id = hash /\ effect = id
    /\ IF id = Landing THEN samples # "none"
       ELSE ~loading /\ {shipment, error} = {id, None}

\* A page for which nothing is under way, no event, no effect and no answer,
\* is settled: no answer that was dropped, for a route left or a component
\* replaced, was the one it still waits for (App.tsx:51-66, 112-124, 194-212).
RestIsSettled == ~event /\ effect = id /\ requests = {} => Settled

\* Once the user stays, the page comes to rest on the route of the URL: React
\* shows it, and what was asked for it has been answered and is shown, whatever
\* was asked before (App.tsx:51-66, 112-124, 194-212).
EverSettles == <>[]Settled

-----------------------------------------------------------------------------
(* The inductive invariant behind ShownIsAsked and RestIsSettled.          *)

\* A navigation leads to at most one event, the event to at most one effect.
AskedOnce ==
    /\ effect # id => runs <= navs
    /\ event => runs + 1 <= navs + (IF effect = id THEN 1 ELSE 0)

\* The answer that is not cancelled is about the route of the last effect.
LiveIsAsked == \A q \in requests : q.run <= runs /\ (q.run = live => q.route = effect)

\* A detail page that looks for its shipment has nothing to show; one that
\* has stopped looking shows what its last effect asked for, and nobody is
\* left to change that.
PageOK ==
    id # Landing =>
        \/ loading /\ shipment = None /\ error = None
        \/ /\ ~loading
           /\ effect \in TrackingId
           /\ \/ shipment = effect /\ error = None
              \/ shipment = None /\ error = effect
           /\ \A q \in requests : q.run # live

\* The answer that a page is looking for, and the event that a new route
\* causes, are still to come.
DueOK ==
    /\ id # hash => event
    /\ effect = id /\ (IF id = Landing THEN samples = "none" ELSE loading) =>
          \E q \in requests : q.run = live

IInv == TypeOK /\ AskedOnce /\ LiveIsAsked /\ PageOK /\ DueOK

=============================================================================

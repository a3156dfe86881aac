------------------------------ MODULE MemQueue ------------------------------
(***************************************************************************)
(* dispatch-worker without SQS: the in-memory queue (awsqueue's memQueue)  *)
(* between the handlers of POST /dispatch and the worker's loop of the one *)
(* process that has it.                                                    *)
(*                                                                         *)
(* The queue is a buffered Go channel.  A Send that finds it full blocks   *)
(* its handler until the loop has taken a message or the client has gone;  *)
(* blocked senders are served first come, first served, each as the loop   *)
(* makes room.  Delete does nothing: a message is gone once it was         *)
(* received, whatever becomes of it, and with the process goes the rest.   *)
(* The SNS event of process is left out: nothing depends on how it ends.   *)
(***************************************************************************)
EXTENDS Integers, Sequences

CONSTANTS
    Message,    \* dispatch requests; each is posted at most once
    Cap,        \* capacity of the channel (256 in the code)
    MaxStops,   \* bound on ends of the process
    None

ASSUME CapAssumption == Cap \in Nat \ {0}
ASSUME StopsAssumption == MaxStops \in Nat
ASSUME NoneAssumption == None \notin Message

VARIABLES
    main,       \* the process: down, up, or draining after SIGTERM
    handler,    \* where each request's handler stands
    answer,     \* what it answered
    ch,         \* the channel's buffer
    blocked,    \* handlers blocked in Send, in order of arrival
    loop,       \* where the worker's loop stands
    hand,       \* the message it is working on
    recorded, told, unknown, dead,   \* see DispatchPromise
    stops       \* ends of the process so far

sendVars == <<handler, answer>>
loopVars == <<loop, hand>>
resultVars == <<recorded, told, unknown, dead>>
vars == <<main, sendVars, ch, blocked, loopVars, resultVars, stops>>

Elements(s) == {s[k] : k \in 1..Len(s)}

\* The sequence s without its k-th element.
Without(s, k) == [j \in 1..(Len(s) - 1) |-> IF j < k THEN s[j] ELSE s[j + 1]]

Held == IF hand = None THEN {} ELSE {hand}

Owed == Elements(ch) \cup Held

-----------------------------------------------------------------------------
(* POST /dispatch.  A handler may get to Send while the process is up or   *)
(* drains: the drain takes no request but waits for the handlers it has.   *)

\* A Send that finds room.
Send(m) ==
    /\ main # "down"
    /\ handler[m] = "none"
    /\ Len(ch) < Cap
    /\ ch' = Append(ch, m)
    /\ handler' = [handler EXCEPT ![m] = "sent"]
    /\ UNCHANGED <<main, answer, blocked, loopVars, resultVars, stops>>

\* Mutant: a Send that finds the channel full drops the message.
SendDrops(m) ==
    /\ main # "down"
    /\ handler[m] = "none"
    /\ Len(ch) >= Cap
    /\ handler' = [handler EXCEPT ![m] = "sent"]
    /\ UNCHANGED <<main, answer, ch, blocked, loopVars, resultVars, stops>>

SendBlocks(m) ==
    /\ main # "down"
    /\ handler[m] = "none"
    /\ Len(ch) >= Cap
    /\ blocked' = Append(blocked, m)
    /\ handler' = [handler EXCEPT ![m] = "blocked"]
    /\ UNCHANGED <<main, answer, ch, loopVars, resultVars, stops>>

\* Mutant: a goroutine goes on sending what the handler has given up.
SendAbandoned(m) ==
    /\ handler[m] \in {"none", "blocked"}
    /\ handler[m] = "none" => main # "down"
    /\ handler' = [handler EXCEPT ![m] = "refused"]
    /\ UNCHANGED <<main, answer, ch, blocked, loopVars, resultVars, stops>>

\* The client has gone: Send gives up, even where there would be room.
SendCancelled(m) ==
    /\ \/ main # "down" /\ handler[m] = "none" /\ UNCHANGED blocked
       \/ \E k \in 1..Len(blocked) : blocked[k] = m /\ blocked' = Without(blocked, k)
    /\ handler' = [handler EXCEPT ![m] = "refused"]
    /\ UNCHANGED <<main, answer, ch, loopVars, resultVars, stops>>

Respond(m) ==
    /\ handler[m] \in {"sent", "refused"}
    /\ answer' = [answer EXCEPT ![m] = IF handler[m] = "sent" THEN "202" ELSE "502"]
    /\ handler' = [handler EXCEPT ![m] = "done"]
    /\ UNCHANGED <<main, ch, blocked, loopVars, resultVars, stops>>

-----------------------------------------------------------------------------
(* The worker's loop over Receive, process and Delete.                     *)

\* Receive takes a message, be it after the loop was cancelled (the select
\* picks either), and the first blocked sender gets the room.
Receive ==
    /\ loop = "receive"
    /\ ch # <<>>
    /\ hand' = Head(ch)
    /\ loop' = "lookup"
    /\ IF blocked = <<>>
       THEN ch' = Tail(ch) /\ UNCHANGED <<blocked, handler>>
       ELSE /\ ch' = Append(Tail(ch), Head(blocked))
            /\ blocked' = Tail(blocked)
            /\ handler' = [handler EXCEPT ![Head(blocked)] = "sent"]
    /\ UNCHANGED <<main, answer, resultVars, stops>>

\* cancelWorker: Receive returns the context's error, and run ends.
LoopEnds ==
    /\ loop = "receive"
    /\ main = "draining"
    /\ loop' = "ended"
    /\ UNCHANGED <<main, sendVars, ch, blocked, hand, resultVars, stops>>

\* A call of process, and where it leads; with the context cancelled, it fails.
Calls(from, to) ==
    /\ loop = from
    /\ loop' = to
    /\ UNCHANGED <<main, sendVars, ch, blocked, hand, stops>>

LookupFound == main = "up" /\ Calls("lookup", "update") /\ UNCHANGED resultVars

FoundUnknown ==
    /\ main = "up"
    /\ Calls("lookup", "delete") \/ Calls("update", "delete")
    /\ unknown' = unknown \cup {hand}
    /\ UNCHANGED <<recorded, told, dead>>

Updated ==
    /\ main = "up" /\ Calls("update", "notify")
    /\ recorded' = recorded \cup {hand}
    /\ UNCHANGED <<told, unknown, dead>>

Notified ==
    /\ main = "up" /\ Calls("notify", "delete")
    /\ told' = told \cup {hand}
    /\ UNCHANGED <<recorded, unknown, dead>>

\* Mutant: process goes on when the update failed.
FailsOnward ==
    \/ Calls("lookup", "failed") /\ UNCHANGED resultVars
    \/ Calls("update", "notify") /\ UNCHANGED resultVars
    \/ Calls("notify", "failed") /\ told' \in {told, told \cup {hand}}
                                 /\ UNCHANGED <<recorded, unknown, dead>>

\* A call fails; an update or a notification may have taken effect.
Fails ==
    \/ Calls("lookup", "failed") /\ UNCHANGED resultVars
    \/ Calls("update", "failed") /\ recorded' \in {recorded, recorded \cup {hand}}
                                 /\ UNCHANGED <<told, unknown, dead>>
    \/ Calls("notify", "failed") /\ told' \in {told, told \cup {hand}}
                                 /\ UNCHANGED <<recorded, unknown, dead>>

\* Mutant: the message at hand is not let go.
NextMessageHolding ==
    /\ loop' = "receive"
    /\ UNCHANGED <<main, sendVars, ch, blocked, hand, recorded, told, unknown, stops>>

\* On to the next Receive.
NextMessage ==
    /\ loop' = "receive"
    /\ hand' = None
    /\ UNCHANGED <<main, sendVars, ch, blocked, recorded, told, unknown, stops>>

\* Delete has nothing to do.
Delete == loop = "delete" /\ NextMessage /\ UNCHANGED dead

\* Mutant: the loop ends with the first message that fails.
LeaveEndsLoop ==
    /\ loop = "failed"
    /\ loop' = "ended"
    /\ hand' = None
    /\ dead' = dead \cup {hand}
    /\ UNCHANGED <<main, sendVars, ch, blocked, recorded, told, unknown, stops>>

\* "leaving message for redelivery": here there is none.
Leave == loop = "failed" /\ NextMessage /\ dead' = dead \cup {hand}

LoopStep ==
    \/ Receive \/ LoopEnds
    \/ LookupFound \/ FoundUnknown \/ Updated \/ Notified \/ Fails
    \/ Delete \/ Leave

-----------------------------------------------------------------------------
(* The process.                                                            *)

Start ==
    /\ main = "down"
    /\ main' = "up"
    /\ loop' = "receive"
    /\ UNCHANGED <<sendVars, ch, blocked, hand, resultVars, stops>>

\* SIGTERM: the loop is cancelled first, then the server waits for its handlers.
Terminate ==
    /\ main = "up"
    /\ stops < MaxStops
    /\ stops' = stops + 1
    /\ main' = "draining"
    /\ UNCHANGED <<sendVars, ch, blocked, loopVars, resultVars>>

\* The process is gone, and with it the queue and the handlers.
Gone ==
    /\ main' = "down"
    /\ loop' = "ended"
    /\ hand' = None
    /\ ch' = <<>>
    /\ blocked' = <<>>
    /\ dead' = dead \cup Owed
    /\ LET running == {m \in Message : handler[m] \notin {"none", "done"}} IN
         /\ handler' = [m \in Message |-> IF m \in running THEN "done" ELSE handler[m]]
         /\ answer' = [m \in Message |-> IF m \in running THEN "gone" ELSE answer[m]]
    /\ UNCHANGED <<recorded, told, unknown>>

\* Mutant: Shutdown has no deadline.
ExitDrained ==
    /\ main = "draining"
    /\ \A m \in Message : handler[m] \in {"none", "done"}
    /\ Gone
    /\ UNCHANGED stops

\* Shutdown returned, its handlers done or its ten seconds over; in either
\* case nothing waits for the loop.
Exit ==
    /\ main = "draining"
    /\ Gone
    /\ UNCHANGED stops

Crash ==
    /\ main # "down"
    /\ stops < MaxStops
    /\ stops' = stops + 1
    /\ Gone

-----------------------------------------------------------------------------
Init ==
    /\ main = "down"
    /\ handler = [m \in Message |-> "none"]
    /\ answer = [m \in Message |-> "none"]
    /\ ch = <<>>
    /\ blocked = <<>>
    /\ loop = "ended"
    /\ hand = None
    /\ recorded = {}
    /\ told = {}
    /\ unknown = {}
    /\ dead = {}
    /\ stops = 0

Next ==
    \/ \E m \in Message : Send(m) \/ SendBlocks(m) \/ SendCancelled(m) \/ Respond(m)
    \/ LoopStep
    \/ Start \/ Terminate \/ Exit \/ Crash

Spec == Init /\ [][Next]_vars

\* Goroutines run and the loop's calls return; a drain ends, by its deadline
\* at the latest.  Nobody has to post, to hang up or to stop the process.
Fairness ==
    /\ \A m \in Message : WF_vars(Respond(m))
    /\ WF_vars(LoopStep)
    /\ WF_vars(Exit)

FairSpec == Spec /\ Fairness

-----------------------------------------------------------------------------
(* What dispatch-worker promises over this queue.                          *)

TypeOK ==
    /\ main \in {"down", "up", "draining"}
    /\ handler \in [Message -> {"none", "blocked", "sent", "refused", "done"}]
    /\ answer \in [Message -> {"none", "202", "502", "gone"}]
    /\ ch \in Seq(Message) /\ Len(ch) <= Cap
    /\ blocked \in Seq(Message)
    /\ loop \in {"receive", "lookup", "update", "notify", "failed", "delete", "ended"}
    /\ hand \in Message \cup {None}
    /\ hand # None <=> loop \in {"lookup", "update", "notify", "failed", "delete"}
    /\ recorded \subseteq Message
    /\ told \subseteq Message
    /\ unknown \subseteq Message
    /\ dead \subseteq Message
    /\ stops \in 0..MaxStops

(* A dispatch answered 502 is never worked on, neither then nor later,     *)
(* though its sender may have been blocked for long: Send deposits the     *)
(* message or returns an error, never both (memQueue.Send; SQS cannot      *)
(* promise that).                                                          *)
RefusedNeverTaken ==
    \A m \in Message : handler[m] = "refused" \/ answer[m] = "502" =>
        m \notin Owed \cup recorded \cup told \cup unknown \cup dead

(* A dispatch whose Send succeeded is in the queue or in the loop's hands  *)
(* until the customer was told, the shipment was found unknown, or it died *)
(* with a failed attempt or with the process: a full queue and a client    *)
(* that hangs up lose nothing.                                             *)
SentIsKept ==
    \A m \in Message : handler[m] = "sent" \/ answer[m] = "202" =>
        m \in Owed \cup told \cup unknown \cup dead

(* What DispatchPromise says holds over this queue too, if whatever fails, *)
(* and whatever dies with the process, counts as a dead letter.            *)
Promise == INSTANCE DispatchPromise WITH owed <- Owed

KeepsPromise == Promise!Spec

(* A sender waits only while it must and only for somebody who comes: it   *)
(* is in line, the channel is full, and the loop that makes room runs, or  *)
(* the drain with its deadline does (memQueue.Send, run and Shutdown).     *)
BlockedIsServed ==
    \A m \in Message : handler[m] = "blocked" =>
        /\ m \in Elements(blocked)
        /\ Len(ch) = Cap
        /\ main = "draining" \/ (main = "up" /\ loop # "ended")

(* Every dispatch request is answered or dies with the process: a sender   *)
(* blocked on a full queue is served while the loop runs, and let go by    *)
(* the deadline of a drain whose loop was stopped first.                   *)
SendersEnd == \A m \in Message : handler[m] # "none" ~> handler[m] = "done"

(* A message in the queue is worked off or dies with the process: failing  *)
(* messages do not stop the loop.                                          *)
QueuedEnds == \A m \in Message : m \in Owed ~> m \notin Owed

-----------------------------------------------------------------------------
(* The inductive invariant behind the safety properties.                   *)

\* A request is answered when its handler is done; who waits is blocked, once.
HandlersOK ==
    /\ \A m \in Message : answer[m] # "none" => handler[m] = "done"
    /\ \A k \in 1..Len(blocked) : handler[blocked[k]] = "blocked"
    /\ \A j, k \in 1..Len(blocked) : blocked[j] = blocked[k] => j = k

\* A message is owed in one place.
OwedOnce ==
    /\ \A j, k \in 1..Len(ch) : ch[j] = ch[k] => j = k
    /\ \A k \in 1..Len(ch) : ch[k] # hand

\* What was not sent has left no trace.
UnsentUnknown ==
    \A m \in Message :
        handler[m] \in {"none", "blocked", "refused"} \/ answer[m] = "502" =>
            m \notin Owed \cup recorded \cup told \cup unknown \cup dead

\* The loop runs in a process, and how far it has got with the message at hand.
LoopOK ==
    /\ main = "down" => loop = "ended"
    /\ main = "up" => loop # "ended"
    /\ loop = "notify" => hand \in recorded
    /\ loop = "delete" => hand \in told \cup unknown

IInv ==
    /\ TypeOK /\ HandlersOK /\ OwedOnce /\ UnsentUnknown /\ LoopOK
    /\ SentIsKept /\ BlockedIsServed

=============================================================================

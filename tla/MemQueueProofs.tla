--------------------------- MODULE MemQueueProofs ---------------------------
(***************************************************************************)
(* dispatch-worker over the in-memory queue, for any number of messages    *)
(* and stops and a channel of any capacity: what is refused leaves no      *)
(* trace, what is sent is kept, who waits for room has somebody to make    *)
(* it, and the queue implements DispatchPromise.                           *)
(***************************************************************************)
EXTENDS MemQueue, TLAPS

\* What the messages' ways rest on, without the claim about blocked senders.
CoreInv == TypeOK /\ HandlersOK /\ OwedOnce /\ UnsentUnknown /\ LoopOK /\ SentIsKept

HandlerState == {"none", "blocked", "sent", "refused", "done"}

\* What is owed, without the sequence.
LEMMA OwedIs == \A m : m \in Owed <=> (\E k \in 1..Len(ch) : ch[k] = m) \/ (hand # None /\ m = hand)
BY DEF Owed, Elements, Held

LEMMA OwedIsNext ==
    \A m : m \in Owed' <=> (\E k \in 1..Len(ch') : ch'[k] = m) \/ (hand' # None /\ m = hand')
BY DEF Owed, Elements, Held

LEMMA OwedKept == UNCHANGED <<ch, hand>> => Owed' = Owed
BY DEF Owed, Elements, Held

LEMMA OwedAreMessages == TypeOK => Owed \subseteq Message
BY NoneAssumption DEF TypeOK, Owed, Elements, Held

\* An element at the end of a sequence of messages.
LEMMA Appended ==
    ASSUME NEW s \in Seq(Message), NEW m \in Message
    PROVE  /\ Append(s, m) \in Seq(Message)
           /\ Len(s) \in Nat /\ Len(Append(s, m)) = Len(s) + 1
           /\ \A k \in 1..Len(s) : Append(s, m)[k] = s[k] /\ k \in 1..(Len(s) + 1)
           /\ Append(s, m)[Len(s) + 1] = m
           /\ \A k \in 1..(Len(s) + 1) : k \in 1..Len(s) \/ k = Len(s) + 1
           /\ Len(s) + 1 \in 1..(Len(s) + 1)
OBVIOUS

\* The first element of a sequence of messages, and the others.
LEMMA HeadTail ==
    ASSUME NEW s \in Seq(Message), s # <<>>
    PROVE  /\ Head(s) \in Message /\ Head(s) = s[1] /\ 1 \in 1..Len(s)
           /\ Tail(s) \in Seq(Message)
           /\ Len(s) \in Nat \ {0} /\ Len(Tail(s)) = Len(s) - 1
           /\ \A k \in 1..Len(Tail(s)) : k + 1 \in 1..Len(s) /\ Tail(s)[k] = s[k + 1]
           /\ \A k \in 1..Len(s) : k = 1 \/ (k - 1 \in 1..Len(Tail(s)) /\ Tail(s)[k - 1] = s[k])
OBVIOUS

LEMMA WithoutOne ==
    ASSUME NEW s \in Seq(Message), NEW i \in 1..Len(s),
           \A j, k \in 1..Len(s) : s[j] = s[k] => j = k
    PROVE  /\ Without(s, i) \in Seq(Message)
           /\ Len(Without(s, i)) = Len(s) - 1
           /\ \A k \in 1..Len(Without(s, i)) :
                 \E j \in 1..Len(s) : Without(s, i)[k] = s[j] /\ j # i
           /\ \A j \in 1..Len(s) \ {i} :
                 \E k \in 1..Len(Without(s, i)) : Without(s, i)[k] = s[j]
           /\ \A j, k \in 1..Len(Without(s, i)) : Without(s, i)[j] = Without(s, i)[k] => j = k
<1> DEFINE n == Len(s) - 1
           t == Without(s, i)
<1>1. n \in Nat /\ Len(s) \in Nat
  OBVIOUS
<1>2. t = [k \in 1..n |-> IF k < i THEN s[k] ELSE s[k + 1]]
  BY DEF Without
<1>3. \A k \in 1..n : /\ k \in 1..Len(s) /\ k + 1 \in 1..Len(s)
                      /\ t[k] = IF k < i THEN s[k] ELSE s[k + 1]
  BY <1>1, <1>2
<1> HIDE DEF t
<1>4. t \in [1..n -> Message]
  BY <1>2, <1>3
<1>5. t \in Seq(Message) /\ Len(t) = n
  BY <1>1, <1>4
<1>6. ASSUME NEW k \in 1..n PROVE \E j \in 1..Len(s) : t[k] = s[j] /\ j # i
  BY <1>1, <1>3
<1>7. ASSUME NEW j \in 1..n, NEW k \in 1..n, t[j] = t[k] PROVE j = k
  BY <1>1, <1>3, <1>7
<1>8. ASSUME NEW j \in 1..Len(s) \ {i} PROVE \E k \in 1..n : t[k] = s[j]
  <2>1. CASE j < i
    <3>1. j \in 1..n /\ t[j] = s[j]
      BY <1>1, <1>3, <2>1
    <3> QED BY <3>1
  <2>2. CASE j > i
    <3>1. j - 1 \in 1..n /\ ~(j - 1 < i) /\ j - 1 + 1 = j
      BY <1>1, <2>2
    <3>2. t[j - 1] = s[j]
      BY <1>3, <3>1
    <3> QED BY <3>1, <3>2
  <2> QED BY <1>1, <2>1, <2>2
<1> QED BY <1>5, <1>6, <1>7, <1>8 DEF t

-----------------------------------------------------------------------------
LEMMA InitCore == Init => CoreInv
<1> SUFFICES ASSUME Init PROVE CoreInv
  OBVIOUS
<1>1. TypeOK
  BY StopsAssumption, CapAssumption, NoneAssumption DEF Init, TypeOK
<1>2. HandlersOK /\ OwedOnce /\ LoopOK
  BY DEF Init, HandlersOK, OwedOnce, LoopOK
<1>3. Owed = {}
  BY OwedIs DEF Init
<1>4. UnsentUnknown /\ SentIsKept
  BY <1>3 DEF Init, UnsentUnknown, SentIsKept
<1> QED BY <1>1, <1>2, <1>4 DEF CoreInv

LEMMA SendStep ==
    ASSUME CoreInv, NEW m \in Message, Send(m)
    PROVE  CoreInv' /\ m \notin Owed /\ Owed' = Owed \cup {m}
<1> USE DEF CoreInv
<1>1. /\ UNCHANGED <<main, answer, blocked, loop, hand, recorded, told, unknown, dead, stops>>
      /\ ch' = Append(ch, m) /\ Len(ch) < Cap
      /\ handler[m] = "none" /\ handler' = [handler EXCEPT ![m] = "sent"]
  BY DEF Send, loopVars, resultVars
<1>2. /\ ch \in Seq(Message) /\ handler \in [Message -> HandlerState]
      /\ blocked \in Seq(Message)
  BY DEF TypeOK, HandlerState
<1>3. m \notin Owed /\ m \notin recorded \cup told \cup unknown \cup dead
  BY <1>1 DEF UnsentUnknown
<1>4. Owed' = Owed \cup {m}
  BY <1>1, <1>2, Appended, OwedIs, OwedIsNext
<1>5. TypeOK'
  <2>1. Len(ch') <= Cap /\ ch' \in Seq(Message)
    BY <1>1, <1>2, Appended, CapAssumption
  <2>2. handler' \in [Message -> HandlerState]
    BY <1>1, <1>2 DEF HandlerState
  <2> QED BY <1>1, <2>1, <2>2 DEF TypeOK, HandlerState
<1>6. HandlersOK'
  BY <1>1, <1>2 DEF HandlersOK
<1>7. OwedOnce'
  <2>1. \A k \in 1..Len(ch) : ch[k] # m
    BY <1>3, OwedIs
  <2>2. hand # m
    BY <1>3, OwedIs, NoneAssumption
  <2> QED BY <1>1, <1>2, <2>1, <2>2, Appended DEF OwedOnce
<1>8. UnsentUnknown' /\ SentIsKept'
  <2>1. \A n \in Message : n # m => handler'[n] = handler[n]
    BY <1>1, <1>2
  <2>2. handler'[m] = "sent" /\ answer[m] # "502"
    BY <1>1, <1>2 DEF HandlersOK
  <2> QED BY <1>1, <1>4, <2>1, <2>2 DEF UnsentUnknown, SentIsKept
<1>9. LoopOK'
  BY <1>1 DEF LoopOK
<1> QED BY <1>3, <1>4, <1>5, <1>6, <1>7, <1>8, <1>9

\* Steps of a handler that leave the channel and the loop alone.
LEMMA HandlerKeeps ==
    ASSUME CoreInv, NEW m \in Message, NEW h \in HandlerState,
           UNCHANGED <<main, ch, loop, hand, recorded, told, unknown, dead, stops>>,
           handler' = [handler EXCEPT ![m] = h],
           answer' \in [Message -> {"none", "202", "502", "gone"}],
           \A n \in Message \ {m} : answer'[n] = answer[n],
           blocked' \in Seq(Message), HandlersOK',
           h \in {"blocked", "refused"} => handler[m] \in {"none", "blocked"},
           h # "sent",
           answer'[m] = "502" => handler[m] = "refused" \/ answer[m] = "502",
           answer'[m] = "202" => handler[m] = "sent" \/ answer[m] = "202",
           h # "none"
    PROVE  CoreInv' /\ Owed' = Owed
<1> USE DEF CoreInv
<1>1. Owed' = Owed
  BY OwedKept
<1>2. handler' \in [Message -> HandlerState] /\ handler'[m] = h
      /\ \A n \in Message \ {m} : handler'[n] = handler[n]
  BY DEF TypeOK, HandlerState
<1>3. TypeOK'
  BY <1>2 DEF TypeOK, HandlerState
<1>4. UnsentUnknown' /\ SentIsKept'
  BY <1>1, <1>2 DEF UnsentUnknown, SentIsKept
<1>5. OwedOnce' /\ LoopOK'
  BY DEF OwedOnce, LoopOK
<1> QED BY <1>1, <1>3, <1>4, <1>5

LEMMA BlockStep ==
    ASSUME CoreInv, NEW m \in Message, SendBlocks(m)
    PROVE  CoreInv' /\ Owed' = Owed
<1>1. /\ UNCHANGED <<main, answer, ch, loop, hand, recorded, told, unknown, dead, stops>>
      /\ blocked' = Append(blocked, m)
      /\ handler[m] = "none" /\ handler' = [handler EXCEPT ![m] = "blocked"]
  BY DEF SendBlocks, loopVars, resultVars
<1>2. /\ handler \in [Message -> HandlerState] /\ blocked \in Seq(Message)
      /\ answer \in [Message -> {"none", "202", "502", "gone"}]
  BY DEF CoreInv, TypeOK, HandlerState
<1>3. \A k \in 1..Len(blocked) : blocked[k] # m
  BY <1>1 DEF CoreInv, HandlersOK
<1>4. HandlersOK'
  <2>1. \A n \in Message : handler'[n] = IF n = m THEN "blocked" ELSE handler[n]
    BY <1>1, <1>2
  <2>2. \A n \in Message : answer'[n] # "none" => handler'[n] = "done"
    BY <1>1, <2>1 DEF CoreInv, HandlersOK
  <2>3. /\ \A k \in 1..Len(blocked) : blocked[k] \in Message
        /\ \A k \in 1..Len(blocked') : blocked'[k] \in Message
    BY <1>1, <1>2, Appended
  <2>4. \A k \in 1..Len(blocked') : handler'[blocked'[k]] = "blocked"
    BY <1>1, <1>2, <2>1, <2>3, Appended DEF CoreInv, HandlersOK
  <2>5. \A j, k \in 1..Len(blocked') : blocked'[j] = blocked'[k] => j = k
    BY <1>1, <1>2, <1>3, Appended DEF CoreInv, HandlersOK
  <2> QED BY <2>2, <2>4, <2>5 DEF HandlersOK
<1>5. blocked' \in Seq(Message)
  BY <1>1, <1>2, Appended
<1>6. answer[m] = "none"
  BY <1>1, <1>2 DEF CoreInv, HandlersOK
<1> QED BY <1>1, <1>2, <1>4, <1>5, <1>6, HandlerKeeps DEF HandlerState

LEMMA CancelStep ==
    ASSUME CoreInv, NEW m \in Message, SendCancelled(m)
    PROVE  CoreInv' /\ Owed' = Owed
<1>1. /\ UNCHANGED <<main, answer, ch, loop, hand, recorded, told, unknown, dead, stops>>
      /\ handler' = [handler EXCEPT ![m] = "refused"]
  BY DEF SendCancelled, loopVars, resultVars
<1>2. /\ handler \in [Message -> HandlerState] /\ blocked \in Seq(Message)
      /\ answer \in [Message -> {"none", "202", "502", "gone"}]
      /\ \A k \in 1..Len(blocked) : blocked[k] \in Message
  BY DEF CoreInv, TypeOK, HandlerState
<1>3. \A n \in Message : handler'[n] = IF n = m THEN "refused" ELSE handler[n]
  BY <1>1, <1>2
<1>4. CASE handler[m] = "none" /\ blocked' = blocked
  <2>1. \A k \in 1..Len(blocked) : blocked[k] # m
    BY <1>4 DEF CoreInv, HandlersOK
  <2>2. HandlersOK'
    BY <1>1, <1>2, <1>3, <1>4, <2>1 DEF CoreInv, HandlersOK
  <2>3. answer[m] = "none"
    BY <1>2, <1>4 DEF CoreInv, HandlersOK
  <2> QED BY <1>1, <1>2, <1>4, <2>2, <2>3, HandlerKeeps DEF HandlerState
<1>5. ASSUME NEW i \in 1..Len(blocked), blocked[i] = m, blocked' = Without(blocked, i)
      PROVE  CoreInv' /\ Owed' = Owed
  <2>1. handler[m] = "blocked" /\ answer[m] = "none"
    BY <1>2, <1>5 DEF CoreInv, HandlersOK
  <2>2. /\ blocked' \in Seq(Message)
        /\ \A k \in 1..Len(blocked') : \E j \in 1..Len(blocked) : blocked'[k] = blocked[j] /\ j # i
        /\ \A j, k \in 1..Len(blocked') : blocked'[j] = blocked'[k] => j = k
    <3>1. \A j, k \in 1..Len(blocked) : blocked[j] = blocked[k] => j = k
      BY DEF CoreInv, HandlersOK
    <3> DEFINE w == Without(blocked, i)
    <3>2. /\ w \in Seq(Message)
          /\ \A k \in 1..Len(w) : \E j \in 1..Len(blocked) : w[k] = blocked[j] /\ j # i
          /\ \A j, k \in 1..Len(w) : w[j] = w[k] => j = k
      BY <1>2, <1>5, <3>1, WithoutOne, Zenon
    <3> HIDE DEF w
    <3>3. blocked' = w
      BY <1>5 DEF w
    <3> QED BY <3>2, <3>3
  <2>3. \A j \in 1..Len(blocked) : j # i => blocked[j] # m
    BY <1>5 DEF CoreInv, HandlersOK
  <2>4. \A k \in 1..Len(blocked') : handler'[blocked'[k]] = "blocked"
    BY <1>2, <1>3, <2>2, <2>3 DEF CoreInv, HandlersOK
  <2>5. \A n \in Message : answer'[n] # "none" => handler'[n] = "done"
    BY <1>1, <1>2, <1>3, <2>1 DEF CoreInv, HandlersOK
  <2>6. HandlersOK'
    BY <2>2, <2>4, <2>5 DEF HandlersOK
  <2> QED BY <1>1, <1>2, <2>1, <2>2, <2>6, HandlerKeeps DEF HandlerState
<1> QED BY <1>4, <1>5 DEF SendCancelled

LEMMA RespondStep ==
    ASSUME CoreInv, NEW m \in Message, Respond(m)
    PROVE  CoreInv' /\ Owed' = Owed
<1>1. /\ UNCHANGED <<main, ch, blocked, loop, hand, recorded, told, unknown, dead, stops>>
      /\ handler[m] \in {"sent", "refused"}
      /\ handler' = [handler EXCEPT ![m] = "done"]
      /\ answer' = [answer EXCEPT ![m] = IF handler[m] = "sent" THEN "202" ELSE "502"]
  BY DEF Respond, loopVars, resultVars
<1>2. /\ handler \in [Message -> HandlerState] /\ blocked \in Seq(Message)
      /\ answer \in [Message -> {"none", "202", "502", "gone"}]
      /\ \A k \in 1..Len(blocked) : blocked[k] \in Message
  BY DEF CoreInv, TypeOK, HandlerState
<1>3. \A n \in Message : /\ handler'[n] = IF n = m THEN "done" ELSE handler[n]
                         /\ n # m => answer'[n] = answer[n]
  BY <1>1, <1>2
<1>4. /\ answer' \in [Message -> {"none", "202", "502", "gone"}]
      /\ answer'[m] = IF handler[m] = "sent" THEN "202" ELSE "502"
  BY <1>1, <1>2
<1>5. \A k \in 1..Len(blocked) : blocked[k] # m
  BY <1>1 DEF CoreInv, HandlersOK
<1>6. HandlersOK'
  BY <1>1, <1>2, <1>3, <1>5 DEF CoreInv, HandlersOK
<1> QED BY <1>1, <1>2, <1>3, <1>4, <1>6, HandlerKeeps DEF HandlerState

LEMMA ReceiveStep ==
    ASSUME CoreInv, Receive
    PROVE  CoreInv' /\ \/ Owed' = Owed
                       \/ \E m \in Message : m \notin Owed /\ Owed' = Owed \cup {m}
<1> USE DEF CoreInv
<1>1. /\ UNCHANGED <<main, answer, recorded, told, unknown, dead, stops>>
      /\ loop = "receive" /\ loop' = "lookup" /\ ch # <<>> /\ hand' = Head(ch)
  BY DEF Receive, resultVars
<1>2. /\ ch \in Seq(Message) /\ blocked \in Seq(Message) /\ Len(ch) <= Cap /\ hand = None
      /\ handler \in [Message -> HandlerState]
      /\ \A k \in 1..Len(blocked) : blocked[k] \in Message
      /\ Head(ch) \in Message /\ Head(ch) # None
  BY <1>1, NoneAssumption, HeadTail DEF TypeOK, HandlerState
<1> DEFINE t == Tail(ch)
<1>3. /\ t \in Seq(Message) /\ Len(ch) \in Nat \ {0} /\ Len(t) = Len(ch) - 1
      /\ Head(ch) = ch[1] /\ 1 \in 1..Len(ch)
      /\ \A k \in 1..Len(t) : k + 1 \in 1..Len(ch) /\ t[k] = ch[k + 1]
      /\ \A m : (\E k \in 1..Len(ch) : ch[k] = m) <=> m = ch[1] \/ \E k \in 1..Len(t) : t[k] = m
  <2>1. /\ t \in Seq(Message) /\ Len(ch) \in Nat \ {0} /\ Len(t) = Len(ch) - 1
        /\ Head(ch) = ch[1] /\ 1 \in 1..Len(ch)
        /\ \A k \in 1..Len(t) : k + 1 \in 1..Len(ch) /\ t[k] = ch[k + 1]
        /\ \A k \in 1..Len(ch) : k = 1 \/ (k - 1 \in 1..Len(t) /\ t[k - 1] = ch[k])
    BY <1>1, <1>2, HeadTail, Zenon
  <2>2. \A m : (\E k \in 1..Len(t) : t[k] = m) => \E k \in 1..Len(ch) : ch[k] = m
    BY <2>1
  <2>3. \A m : (\E k \in 1..Len(ch) : ch[k] = m) => m = ch[1] \/ \E k \in 1..Len(t) : t[k] = m
    BY <2>1
  <2> QED BY <2>1, <2>2, <2>3
<1> HIDE DEF t
<1>4. LoopOK'
  BY <1>1 DEF LoopOK
<1>owed. /\ \A m : m \in Owed <=> m = ch[1] \/ \E k \in 1..Len(t) : t[k] = m
      /\ \A m : m \in Owed' <=> m = ch[1] \/ \E k \in 1..Len(ch') : ch'[k] = m
  <2>1. \A m : m \in Owed <=> \E k \in 1..Len(ch) : ch[k] = m
    BY <1>2, OwedIs, Zenon
  <2>2. hand' = ch[1] /\ hand' # None
    BY <1>1, <1>2, <1>3
  <2> QED BY <1>3, <2>1, <2>2, OwedIsNext, Zenon
<1>5. CASE blocked = <<>>
  <2>1. ch' = t /\ UNCHANGED <<blocked, handler>>
    BY <1>5 DEF Receive, t
  <2>2. Owed' = Owed
    <3>1. \A m : m \in Owed' <=> m \in Owed
      BY <1>owed, <2>1, Zenon
    <3> QED BY <3>1
  <2>3. Len(ch') <= Cap /\ ch' \in Seq(Message)
    BY <1>2, <1>3, <2>1, CapAssumption
  <2>4. TypeOK'
    BY <1>1, <1>2, <2>1, <2>3 DEF TypeOK
  <2>5. HandlersOK' /\ UnsentUnknown' /\ SentIsKept'
    BY <1>1, <2>1, <2>2 DEF HandlersOK, UnsentUnknown, SentIsKept
  <2>6. OwedOnce'
    <3>1. \A k \in 1..Len(ch') : k + 1 \in 1..Len(ch) /\ ch'[k] = ch[k + 1] /\ k + 1 # 1
      BY <1>3, <2>1
    <3>2. hand' = ch[1]
      BY <1>1, <1>3
    <3>3. \A j, k \in 1..Len(ch') : j + 1 = k + 1 => j = k
      OBVIOUS
    <3> QED BY <1>3, <3>1, <3>2, <3>3 DEF OwedOnce
  <2> QED BY <1>4, <2>2, <2>4, <2>5, <2>6
<1>6. CASE blocked # <<>>
  <2> DEFINE b == Head(blocked)
             u == Tail(blocked)
  <2>1. /\ ch' = Append(t, b) /\ blocked' = u
        /\ handler' = [handler EXCEPT ![b] = "sent"]
    BY <1>6 DEF Receive, t
  <2>2. /\ b \in Message /\ b = blocked[1] /\ 1 \in 1..Len(blocked)
        /\ u \in Seq(Message)
        /\ \A k \in 1..Len(u) : k + 1 \in 1..Len(blocked) /\ u[k] = blocked[k + 1]
    BY <1>2, <1>6, HeadTail, Zenon
  <2>3. handler[b] = "blocked"
    BY <2>2 DEF HandlersOK
  <2> HIDE DEF b, u
  <2>4. b \notin Owed /\ answer[b] = "none"
    BY <2>2, <2>3, <1>2 DEF UnsentUnknown, HandlersOK, TypeOK
  <2>5. /\ ch' \in Seq(Message)
        /\ Len(ch') = Len(t) + 1
        /\ \A k \in 1..Len(t) : ch'[k] = t[k] /\ k \in 1..(Len(t) + 1)
        /\ ch'[Len(t) + 1] = b
        /\ \A k \in 1..(Len(t) + 1) : k \in 1..Len(t) \/ k = Len(t) + 1
        /\ Len(t) + 1 \in 1..(Len(t) + 1)
    BY <1>3, <2>1, <2>2, Appended, Zenon
  <2>6. Owed' = Owed \cup {b}
    <3>1. \A m : (\E k \in 1..Len(ch') : ch'[k] = m) => m = b \/ \E k \in 1..Len(t) : t[k] = m
      BY <2>5
    <3>2. \A m : m = b \/ (\E k \in 1..Len(t) : t[k] = m) => \E k \in 1..Len(ch') : ch'[k] = m
      BY <2>5
    <3>3. \A m : m \in Owed' <=> m \in Owed \/ m = b
      BY <1>owed, <3>1, <3>2, Zenon
    <3> QED BY <3>3
  <2>7. TypeOK'
    <3>1. Len(ch') <= Cap
      BY <1>2, <1>3, <2>5, CapAssumption
    <3>2. handler' \in [Message -> HandlerState]
      BY <1>2, <2>1 DEF HandlerState
    <3> QED BY <1>1, <1>2, <2>1, <2>2, <2>5, <3>1, <3>2 DEF TypeOK, HandlerState
  <2>8. \A m \in Message : handler'[m] = IF m = b THEN "sent" ELSE handler[m]
    BY <1>2, <2>1
  <2>9. HandlersOK'
    <3>1. \A k \in 1..Len(u) :
             k + 1 \in 1..Len(blocked) /\ u[k] = blocked[k + 1] /\ k + 1 # 1
      BY <2>2
    <3>2. \A k \in 1..Len(u) : u[k] \in Message /\ u[k] # b
      BY <1>2, <2>2, <3>1 DEF HandlersOK
    <3>3. \A j, k \in 1..Len(u) : j + 1 = k + 1 => j = k
      OBVIOUS
    <3>4. \A j, k \in 1..Len(u) : u[j] = u[k] => j = k
      BY <3>1, <3>3 DEF HandlersOK
    <3>5. \A k \in 1..Len(u) : handler'[u[k]] = "blocked"
      BY <2>8, <3>1, <3>2 DEF HandlersOK
    <3>6. \A m \in Message : answer'[m] # "none" => handler'[m] = "done"
      BY <1>1, <2>2, <2>4, <2>8 DEF HandlersOK
    <3> QED BY <2>1, <3>4, <3>5, <3>6 DEF HandlersOK
  <2>10. OwedOnce'
    <3>1. \A k \in 1..Len(ch) : ch[k] # b
      BY <2>4, OwedIs
    <3>2. \A k \in 1..Len(t) : k + 1 \in 1..Len(ch) /\ t[k] = ch[k + 1] /\ k + 1 # 1
      BY <1>3
    <3>3. \A j, k \in 1..Len(t) : j + 1 = k + 1 => j = k
      OBVIOUS
    <3>4. \A j, k \in 1..Len(t) : t[j] = t[k] => j = k
      BY <3>2, <3>3 DEF OwedOnce
    <3>5. \A k \in 1..Len(t) : t[k] # b /\ t[k] # ch[1]
      BY <1>3, <3>1, <3>2 DEF OwedOnce
    <3>6. hand' = ch[1] /\ hand' # b
      BY <1>1, <1>3, <3>1
    <3> QED BY <2>5, <3>4, <3>5, <3>6 DEF OwedOnce
  <2>11. UnsentUnknown' /\ SentIsKept'
    BY <1>1, <2>4, <2>6, <2>8 DEF UnsentUnknown, SentIsKept
  <2> QED BY <1>4, <2>2, <2>4, <2>6, <2>7, <2>9, <2>10, <2>11
<1> QED BY <1>5, <1>6

\* Steps of the loop that neither take a message nor let one go.
LEMMA LoopKeeps ==
    ASSUME CoreInv,
           UNCHANGED <<main, handler, answer, ch, blocked, hand, dead, stops>>,
           loop' \in {"lookup", "update", "notify", "failed", "delete"},
           hand # None,
           recorded' \in {recorded, recorded \cup {hand}},
           told' \in {told, told \cup {hand}},
           unknown' \in {unknown, unknown \cup {hand}},
           loop' = "notify" => hand \in recorded',
           loop' = "delete" => hand \in told' \cup unknown'
    PROVE  CoreInv' /\ Owed' = Owed
<1> USE DEF CoreInv
<1>1. Owed' = Owed
  BY OwedKept
<1>2. hand \in Message /\ hand \in Owed
  BY OwedIs DEF TypeOK
<1>3. /\ recorded' \subseteq Message /\ told' \subseteq Message /\ unknown' \subseteq Message
      /\ \A m \in Message : m # hand =>
            /\ m \in recorded' <=> m \in recorded
            /\ m \in told' <=> m \in told
            /\ m \in unknown' <=> m \in unknown
      /\ told \subseteq told' /\ unknown \subseteq unknown'
  BY <1>2 DEF TypeOK
<1>4. TypeOK'
  BY <1>3 DEF TypeOK
<1>5. UnsentUnknown' /\ SentIsKept'
  BY <1>1, <1>2, <1>3 DEF UnsentUnknown, SentIsKept
<1>6. HandlersOK' /\ OwedOnce' /\ LoopOK'
  BY DEF HandlersOK, OwedOnce, LoopOK, TypeOK
<1> QED BY <1>1, <1>4, <1>5, <1>6

\* The steps of process: what each is in terms of the promise.
LEMMA ProcessStep ==
    ASSUME CoreInv, LookupFound \/ FoundUnknown \/ Updated \/ Notified \/ Fails
    PROVE  /\ CoreInv' /\ Owed' = Owed /\ hand \in Message /\ UNCHANGED dead
           /\ \/ UNCHANGED <<recorded, told, unknown>>
              \/ recorded' = recorded \cup {hand} /\ UNCHANGED <<told, unknown>>
              \/ told' = told \cup {hand} /\ hand \in recorded /\ UNCHANGED <<recorded, unknown>>
              \/ unknown' = unknown \cup {hand} /\ UNCHANGED <<recorded, told>>
<1>1. /\ UNCHANGED <<main, handler, answer, ch, blocked, hand, dead, stops>>
      /\ loop \in {"lookup", "update", "notify"}
      /\ loop' \in {"update", "notify", "failed", "delete"}
  BY DEF LookupFound, FoundUnknown, Updated, Notified, Fails, Calls, sendVars, resultVars
<1>2. hand # None /\ hand \in Message
  BY <1>1 DEF CoreInv, TypeOK
<1>3. /\ \/ UNCHANGED <<recorded, told, unknown>>
         \/ recorded' = recorded \cup {hand} /\ UNCHANGED <<told, unknown>>
         \/ loop = "notify" /\ told' = told \cup {hand} /\ UNCHANGED <<recorded, unknown>>
         \/ unknown' = unknown \cup {hand} /\ UNCHANGED <<recorded, told>>
      /\ loop' = "notify" => hand \in recorded'
      /\ loop' = "delete" => hand \in told' \cup unknown'
  BY DEF LookupFound, FoundUnknown, Updated, Notified, Fails, Calls, resultVars
<1>4. loop = "notify" => hand \in recorded
  BY DEF CoreInv, LoopOK
<1>5. CoreInv' /\ Owed' = Owed
  BY <1>1, <1>2, <1>3, LoopKeeps
<1> QED BY <1>1, <1>2, <1>3, <1>4, <1>5

\* The message at hand is let go.
LEMMA LetGoStep ==
    ASSUME CoreInv, Delete \/ Leave
    PROVE  /\ CoreInv' /\ hand \in Owed /\ Owed' = Owed \ {hand}
           /\ UNCHANGED <<recorded, told, unknown>>
           /\ \/ hand \in told \cup unknown /\ UNCHANGED dead
              \/ dead' = dead \cup {hand}
<1> USE DEF CoreInv
<1>1. /\ UNCHANGED <<main, handler, answer, ch, blocked, recorded, told, unknown, stops>>
      /\ loop \in {"failed", "delete"} /\ loop' = "receive" /\ hand' = None
      /\ \/ loop = "delete" /\ UNCHANGED dead
         \/ dead' = dead \cup {hand}
  BY DEF Delete, Leave, NextMessage, sendVars
<1>2. hand \in Message /\ hand # None
  BY <1>1 DEF TypeOK
<1>3. hand \in Owed /\ Owed' = Owed \ {hand}
  BY <1>1, <1>2, OwedIs, OwedIsNext DEF OwedOnce
<1>4. \/ hand \in told \cup unknown /\ UNCHANGED dead
      \/ dead' = dead \cup {hand}
  BY <1>1 DEF LoopOK
<1>5. TypeOK'
  BY <1>1, <1>2 DEF TypeOK
<1>6. UnsentUnknown'
  BY <1>1, <1>2, <1>3 DEF UnsentUnknown
<1>7. SentIsKept'
  BY <1>1, <1>3, <1>4 DEF SentIsKept
<1>8. HandlersOK' /\ LoopOK'
  BY <1>1 DEF HandlersOK, LoopOK
<1>9. OwedOnce'
  BY <1>1, NoneAssumption DEF OwedOnce, TypeOK
<1> QED BY <1>1, <1>3, <1>4, <1>5, <1>6, <1>7, <1>8, <1>9

\* The process starts, is told to stop, or its loop ends.
LEMMA MainStep ==
    ASSUME CoreInv, Start \/ Terminate \/ LoopEnds
    PROVE  CoreInv' /\ Owed' = Owed /\ UNCHANGED <<recorded, told, unknown, dead>>
<1>1. /\ UNCHANGED <<handler, answer, ch, blocked, hand, recorded, told, unknown, dead>>
      /\ loop' = loop \/ loop' \in {"receive", "ended"}
      /\ main' \in {"down", "up", "draining"}
  BY DEF CoreInv, TypeOK, Start, Terminate, LoopEnds, sendVars, loopVars, resultVars
<1>2. stops' \in 0..MaxStops
  BY StopsAssumption DEF CoreInv, TypeOK, Start, Terminate, LoopEnds
<1>3. /\ loop' # loop => hand = None
      /\ main' = "down" => loop' = "ended"
      /\ main' = "up" => loop' # "ended"
  BY DEF CoreInv, TypeOK, LoopOK, Start, Terminate, LoopEnds, loopVars
<1>4. Owed' = Owed
  BY <1>1, OwedKept
<1>5. TypeOK'
  BY <1>1, <1>2, <1>3 DEF CoreInv, TypeOK
<1>6. HandlersOK' /\ OwedOnce' /\ UnsentUnknown' /\ LoopOK' /\ SentIsKept'
  BY <1>1, <1>3, <1>4 DEF CoreInv, HandlersOK, OwedOnce, UnsentUnknown, LoopOK, SentIsKept
<1> QED BY <1>1, <1>4, <1>5, <1>6 DEF CoreInv

\* The process is gone: what it owed is dead.
LEMMA GoneStep ==
    ASSUME CoreInv, Exit \/ Crash
    PROVE  /\ CoreInv' /\ Owed' = {} /\ dead' = dead \cup Owed
           /\ UNCHANGED <<recorded, told, unknown>> /\ Owed \subseteq Message
<1> USE DEF CoreInv
<1> DEFINE running == {m \in Message : handler[m] \notin {"none", "done"}}
<1>1. /\ UNCHANGED <<recorded, told, unknown>>
      /\ main' = "down" /\ loop' = "ended" /\ hand' = None /\ ch' = <<>> /\ blocked' = <<>>
      /\ dead' = dead \cup Owed
      /\ handler' = [m \in Message |-> IF m \in running THEN "done" ELSE handler[m]]
      /\ answer' = [m \in Message |-> IF m \in running THEN "gone" ELSE answer[m]]
  BY DEF Exit, Crash, Gone
<1>2. stops' \in 0..MaxStops
  BY StopsAssumption DEF TypeOK, Exit, Crash
<1>3. Owed' = {}
  BY <1>1, OwedIsNext
<1>4. Owed \subseteq Message
  BY OwedAreMessages
<1>5. TypeOK'
  <2>1. handler' \in [Message -> HandlerState]
    BY <1>1 DEF TypeOK, HandlerState
  <2>2. answer' \in [Message -> {"none", "202", "502", "gone"}]
    BY <1>1 DEF TypeOK
  <2> QED BY <1>1, <1>2, <1>4, <2>1, <2>2, CapAssumption DEF TypeOK, HandlerState
<1>6. HandlersOK' /\ OwedOnce' /\ LoopOK'
  BY <1>1 DEF HandlersOK, OwedOnce, LoopOK, TypeOK
<1>7. \A m \in Message : /\ answer'[m] \in {"202", "502"} => answer[m] = answer'[m]
                         /\ handler'[m] \in {"none", "done"}
                         /\ handler'[m] = "none" => handler[m] = "none"
  BY <1>1
<1>8. UnsentUnknown' /\ SentIsKept'
  BY <1>1, <1>3, <1>7 DEF UnsentUnknown, SentIsKept
<1> QED BY <1>1, <1>3, <1>4, <1>5, <1>6, <1>8

-----------------------------------------------------------------------------
\* A step keeps the invariant, and is one of the promise's or none of them.
LEMMA CoreStep == CoreInv /\ [Next]_vars => CoreInv' /\ [Promise!Next]_(Promise!vars)
<1> SUFFICES ASSUME CoreInv, [Next]_vars PROVE CoreInv' /\ [Promise!Next]_(Promise!vars)
  OBVIOUS
<1> USE DEF Promise!Next, Promise!vars
<1>1. ASSUME NEW m \in Message, Send(m) PROVE CoreInv' /\ Promise!Next
  <2>1. UNCHANGED <<recorded, told, unknown, dead>>
    BY <1>1 DEF Send, resultVars
  <2> QED BY <1>1, <2>1, SendStep DEF Promise!Accept
<1>2. ASSUME NEW m \in Message, SendBlocks(m) \/ SendCancelled(m) \/ Respond(m)
      PROVE  CoreInv' /\ UNCHANGED Promise!vars
  <2>1. UNCHANGED <<recorded, told, unknown, dead>>
    BY <1>2 DEF SendBlocks, SendCancelled, Respond, resultVars
  <2> QED BY <1>2, <2>1, BlockStep, CancelStep, RespondStep
<1>3. CASE Receive
  <2>1. UNCHANGED <<recorded, told, unknown, dead>>
    BY <1>3 DEF Receive, resultVars
  <2> QED BY <1>3, <2>1, ReceiveStep DEF Promise!Accept
<1>4. CASE LookupFound \/ FoundUnknown \/ Updated \/ Notified \/ Fails
  BY <1>4, ProcessStep DEF Promise!Record, Promise!Tell, Promise!FindUnknown
<1>5. CASE Delete \/ Leave
  <2>1. hand \in Message
    BY <1>5, LetGoStep, OwedAreMessages DEF CoreInv
  <2>2. CoreInv'
    BY <1>5, LetGoStep
  <2>3. Promise!Finish(hand) \/ Promise!GiveUp({hand})
    BY <1>5, LetGoStep DEF Promise!Finish, Promise!GiveUp
  <2>4. {hand} \in SUBSET Message
    BY <2>1
  <2> QED BY <2>1, <2>2, <2>3, <2>4
<1>6. CASE Start \/ Terminate \/ LoopEnds
  BY <1>6, MainStep
<1>7. CASE Exit \/ Crash
  <2>1. CoreInv'
    BY <1>7, GoneStep
  <2>2. Promise!GiveUp(Owed) /\ Owed \in SUBSET Message
    BY <1>7, GoneStep DEF Promise!GiveUp
  <2> QED BY <2>1, <2>2
<1>8. CASE UNCHANGED vars
  <2>1. UNCHANGED <<recorded, told, unknown, dead>> /\ Owed' = Owed
    BY <1>8, OwedKept DEF vars, resultVars, loopVars
  <2>2. CoreInv'
    BY <1>8, <2>1 DEF vars, sendVars, loopVars, resultVars, CoreInv, TypeOK, HandlersOK, OwedOnce,
                      UnsentUnknown, LoopOK, SentIsKept
  <2> QED BY <2>1, <2>2
<1> QED BY <1>1, <1>2, <1>3, <1>4, <1>5, <1>6, <1>7, <1>8 DEF Next, LoopStep

-----------------------------------------------------------------------------
(* Blocked senders.                                                        *)

LEMMA ElementsIs == \A s, m : m \in Elements(s) <=> \E k \in 1..Len(s) : s[k] = m
BY DEF Elements

\* Nobody else comes to wait, the line and the channel stay, and so does who
\* serves them.
LEMMA WaitGoesOn ==
    ASSUME BlockedIsServed, UNCHANGED blocked, Len(ch') = Len(ch),
           \A m \in Message : handler'[m] = "blocked" => handler[m] = "blocked",
           main = "draining" => main' = "draining",
           main = "up" => main' = "draining" \/ (main' = "up" /\ (loop # "ended" => loop' # "ended"))
    PROVE  BlockedIsServed'
BY DEF BlockedIsServed

LEMMA HandlersServed ==
    ASSUME CoreInv, BlockedIsServed, NEW m \in Message,
           Send(m) \/ SendBlocks(m) \/ SendCancelled(m) \/ Respond(m)
    PROVE  BlockedIsServed'
<1>1. /\ handler \in [Message -> HandlerState] /\ blocked \in Seq(Message)
      /\ Len(ch) \in Nat /\ Len(ch) <= Cap /\ Cap \in Nat
  BY CapAssumption DEF CoreInv, TypeOK, HandlerState
<1>2. UNCHANGED <<main, loop>>
  BY DEF Send, SendBlocks, SendCancelled, Respond, loopVars
<1>3. CASE Send(m)
  <2>1. \A n \in Message : handler[n] # "blocked"
    BY <1>1, <1>3 DEF Send, BlockedIsServed
  <2>2. \A n \in Message : handler'[n] # "blocked"
    BY <1>1, <1>3, <2>1 DEF Send
  <2> QED BY <2>2 DEF BlockedIsServed
<1>4. CASE SendBlocks(m)
  <2>1. /\ main # "down" /\ Len(ch) >= Cap /\ blocked' = Append(blocked, m) /\ ch' = ch
        /\ handler' = [handler EXCEPT ![m] = "blocked"]
    BY <1>4 DEF SendBlocks
  <2>2. Len(ch') = Cap /\ (main' = "draining" \/ (main' = "up" /\ loop' # "ended"))
    BY <1>1, <1>2, <2>1 DEF CoreInv, TypeOK, LoopOK
  <2>3. \A n \in Message : n = m \/ n \in Elements(blocked) => n \in Elements(blocked')
    <3>1. /\ \A k \in 1..Len(blocked) : blocked'[k] = blocked[k] /\ k \in 1..Len(blocked')
          /\ blocked'[Len(blocked')] = m /\ Len(blocked') \in 1..Len(blocked')
      BY <1>1, <2>1, Appended
    <3> QED BY <3>1, ElementsIs
  <2>4. \A n \in Message : n # m /\ handler'[n] = "blocked" => n \in Elements(blocked)
    BY <1>1, <2>1 DEF BlockedIsServed
  <2> QED BY <2>2, <2>3, <2>4 DEF BlockedIsServed
<1>5. CASE SendCancelled(m)
  <2>1. /\ ch' = ch
        /\ \A n \in Message : handler'[n] = "blocked" => handler[n] = "blocked" /\ n # m
    BY <1>1, <1>5 DEF SendCancelled
  <2>2. CASE blocked' = blocked
    BY <1>2, <2>1, <2>2, WaitGoesOn
  <2>3. ASSUME NEW i \in 1..Len(blocked), blocked[i] = m, blocked' = Without(blocked, i)
        PROVE  BlockedIsServed'
    <3>1. \A j, k \in 1..Len(blocked) : blocked[j] = blocked[k] => j = k
      BY DEF CoreInv, HandlersOK
    <3>2. \A j \in 1..Len(blocked) \ {i} : blocked[j] \in Elements(blocked')
      BY <1>1, <2>3, <3>1, WithoutOne, ElementsIs, Zenon
    <3>3. \A n \in Message : n \in Elements(blocked) /\ n # m => n \in Elements(blocked')
      BY <2>3, <3>2, ElementsIs
    <3> QED BY <1>2, <2>1, <3>3 DEF BlockedIsServed
  <2> QED BY <1>5, <2>2, <2>3 DEF SendCancelled
<1>6. CASE Respond(m)
  <2>1. /\ UNCHANGED <<blocked, ch>>
        /\ \A n \in Message : handler'[n] = "blocked" => handler[n] = "blocked"
    BY <1>1, <1>6 DEF Respond
  <2> QED BY <1>2, <2>1, WaitGoesOn
<1> QED BY <1>3, <1>4, <1>5, <1>6

\* The room that the loop makes goes to the first in line, and the channel is
\* as full as it was; with nobody in line, nobody waits.
LEMMA ReceiveServed ==
    ASSUME CoreInv, BlockedIsServed, Receive
    PROVE  BlockedIsServed'
<1>1. /\ handler \in [Message -> HandlerState] /\ blocked \in Seq(Message)
      /\ ch \in Seq(Message) /\ ch # <<>>
      /\ UNCHANGED main /\ loop' = "lookup"
  BY DEF CoreInv, TypeOK, HandlerState, Receive
<1>2. CASE blocked = <<>>
  <2>1. \A m \in Message : handler[m] # "blocked"
    <3>1. Len(blocked) = 0
      BY <1>2
    <3>2. \A m : m \notin Elements(blocked)
      BY <3>1, ElementsIs
    <3> QED BY <3>2 DEF BlockedIsServed
  <2> QED BY <1>2, <2>1 DEF Receive, BlockedIsServed
<1>3. CASE blocked # <<>>
  <2> DEFINE b == Head(blocked)
  <2>1. /\ ch' = Append(Tail(ch), b) /\ blocked' = Tail(blocked)
        /\ handler' = [handler EXCEPT ![b] = "sent"]
    BY <1>3 DEF Receive
  <2>2. /\ b \in Message /\ b = blocked[1]
        /\ \A k \in 1..Len(blocked) : k = 1 \/ (k - 1 \in 1..Len(blocked') /\ blocked'[k - 1] = blocked[k])
    BY <1>1, <1>3, <2>1, HeadTail, Zenon
  <2> HIDE DEF b
  <2>3. Len(ch') = Len(ch)
    <3>1. Tail(ch) \in Seq(Message) /\ Len(ch) \in Nat /\ Len(Tail(ch)) = Len(ch) - 1
      BY <1>1, HeadTail
    <3>2. Len(ch') = Len(Tail(ch)) + 1
      BY <2>1, <2>2, <3>1, Appended, Zenon
    <3> QED BY <3>1, <3>2
  <2>4. \A m \in Message : handler'[m] = "blocked" => handler[m] = "blocked" /\ m # b
    BY <1>1, <2>1, <2>2
  <2>5. \A m \in Message : m \in Elements(blocked) /\ m # b => m \in Elements(blocked')
    BY <2>2, ElementsIs
  <2> QED BY <1>1, <2>3, <2>4, <2>5 DEF BlockedIsServed
<1> QED BY <1>2, <1>3

\* The loop goes on with whatever a call or a message leaves it with, and ends
\* only once a drain will end the wait.
LEMMA LoopServed ==
    ASSUME CoreInv, BlockedIsServed,
           \/ LookupFound \/ FoundUnknown \/ Updated \/ Notified \/ Fails
           \/ Delete \/ Leave \/ LoopEnds \/ Terminate
    PROVE  BlockedIsServed'
<1>1. UNCHANGED <<handler, ch, blocked>>
  BY DEF LookupFound, FoundUnknown, Updated, Notified, Fails, Calls, Delete, Leave, NextMessage,
         LoopEnds, Terminate, sendVars
<1>2. \/ main' = "draining" /\ main \in {"up", "draining"}
      \/ main' = main /\ loop' # "ended"
  BY DEF LookupFound, FoundUnknown, Updated, Notified, Fails, Calls, Delete, Leave, NextMessage,
         LoopEnds, Terminate
<1> QED BY <1>1, <1>2, WaitGoesOn

\* A process that starts has nobody blocked, one that is gone leaves nobody.
LEMMA ProcessServed ==
    ASSUME CoreInv, BlockedIsServed, Start \/ Exit \/ Crash
    PROVE  BlockedIsServed'
<1>1. CASE Start
  <2>1. \A m \in Message : handler[m] # "blocked"
    BY <1>1 DEF Start, BlockedIsServed
  <2> QED BY <1>1, <2>1 DEF Start, sendVars, BlockedIsServed
<1>2. CASE Exit \/ Crash
  <2> DEFINE running == {m \in Message : handler[m] \notin {"none", "done"}}
  <2>1. handler' = [m \in Message |-> IF m \in running THEN "done" ELSE handler[m]]
    BY <1>2 DEF Exit, Crash, Gone
  <2>2. \A m \in Message : handler'[m] # "blocked"
    BY <2>1
  <2> QED BY <2>2 DEF BlockedIsServed
<1> QED BY <1>1, <1>2

LEMMA InitIInv == Init => IInv
<1>1. Init => BlockedIsServed
  BY DEF Init, BlockedIsServed
<1> QED BY <1>1, InitCore DEF IInv, CoreInv

LEMMA NextStep == IInv /\ [Next]_vars => IInv' /\ [Promise!Next]_(Promise!vars)
<1> SUFFICES ASSUME IInv, [Next]_vars PROVE IInv' /\ [Promise!Next]_(Promise!vars)
  OBVIOUS
<1>1. CoreInv /\ BlockedIsServed
  BY DEF IInv, CoreInv
<1>2. CoreInv' /\ [Promise!Next]_(Promise!vars)
  BY <1>1, CoreStep
<1>3. BlockedIsServed'
  <2>1. CASE UNCHANGED vars
    BY <1>1, <2>1, WaitGoesOn DEF vars, sendVars, loopVars
  <2> QED BY <1>1, <2>1, HandlersServed, ReceiveServed, LoopServed, ProcessServed DEF Next, LoopStep
<1> QED BY <1>2, <1>3 DEF IInv, CoreInv

-----------------------------------------------------------------------------
\* Every variable keeps its kind, the channel its capacity, and the loop has a
\* message in its hands exactly while it works on one.
THEOREM TypeCorrect == Spec => []TypeOK
<1>1. IInv => TypeOK
  BY DEF IInv
<1> QED BY InitIInv, NextStep, <1>1, PTL DEF Spec

\* A dispatch answered 502 is never worked on (memQueue.Send).
THEOREM RefusedLeavesNoTrace == Spec => []RefusedNeverTaken
<1>1. IInv => RefusedNeverTaken
  BY DEF IInv, UnsentUnknown, RefusedNeverTaken
<1> QED BY InitIInv, NextStep, <1>1, PTL DEF Spec

\* A dispatch that was sent is owed until it is done or dead.
THEOREM SentStays == Spec => []SentIsKept
<1>1. IInv => SentIsKept
  BY DEF IInv
<1> QED BY InitIInv, NextStep, <1>1, PTL DEF Spec

\* Who waits for room is in line behind a full channel, and the loop or the
\* drain's deadline comes for them (memQueue.Send, run, Shutdown).
THEOREM NobodyWaitsInVain == Spec => []BlockedIsServed
<1>1. IInv => BlockedIsServed
  BY DEF IInv
<1> QED BY InitIInv, NextStep, <1>1, PTL DEF Spec

\* The loop, the channel, its blocked senders and the ends of the process
\* implement DispatchPromise.
THEOREM PromiseKept == Spec => KeepsPromise
<1>1. Init => Promise!Init
  <2>1. Init => Owed = {}
    BY OwedIs DEF Init
  <2> QED BY <2>1 DEF Init, Promise!Init
<1> QED BY InitIInv, NextStep, <1>1, PTL DEF Spec, KeepsPromise, Promise!Spec

=============================================================================

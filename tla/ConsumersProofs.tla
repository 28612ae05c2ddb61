---------------------------- MODULE ConsumersProofs ----------------------------
(***************************************************************************)
(* Proofs about Consumers, for any messages, windows, workers and faults:  *)
(* in the composition the account is still OwnerNonce's, no message is     *)
(* acknowledged whose operation has not been executed, and the bus moves   *)
(* messages as Mailbox says.                                               *)
(***************************************************************************)
EXTENDS Consumers, OwnerNonceProofs, SequenceTheorems

\* A callback that has asked for anything asked for what its message is about.
HandlerAsks ==
  call[Loop].step # "idle" => /\ loop # nobody /\ loop \notin Poison
                              /\ call[Loop].op = loop

LoopOK == loop \in Messages \union {nobody}

CInv == IInv /\ LoopOK /\ HandlerAsks /\ DoneIsExecuted

-----------------------------------------------------------------------------

\* A step of the whole is one of the account, or leaves it alone.
LEMMA StepIsAccounts ==
  ASSUME ConsumersAssumption, LoopOK, [Next]_vars
  PROVE  [NextAccount]_accountVars
<1>1. CASE Bus BY <1>1 DEF Bus
<1>2. CASE Handler
  <2>1. CASE loop \notin Poison /\ Ask(Loop, loop)
    <3>1. loop \in Ops /\ Loop \in Callers
      BY <1>2, <2>1 DEF Handler, LoopOK, LoopFree, ConsumersAssumption
    <3> QED BY <2>1, <3>1 DEF NextAccount
  <2>2. CASE Idles(Loop) BY <2>2 DEF NextAccount, ConsumersAssumption
  <2>3. CASE UNCHANGED accountVars BY <2>3
  <2> QED BY <1>2, <2>1, <2>2, <2>3 DEF Handler
<1>3. CASE Node BY <1>3 DEF Node, NextAccount
<1>4. CASE Dies BY <1>4 DEF Dies, NextAccount
<1>5. ASSUME NEW w \in Workers, Worker(w) PROVE NextAccount
  <2>1. w \in Ops /\ w \in Callers BY DEF ConsumersAssumption
  <2> QED BY <1>5, <2>1 DEF Worker, NextAccount
<1>6. ASSUME NEW c \in Callers, Sending(c) PROVE NextAccount
  BY <1>6 DEF NextAccount
<1>7. CASE UNCHANGED vars BY <1>7 DEF vars
<1> QED BY <1>1, <1>2, <1>3, <1>4, <1>5, <1>6, <1>7 DEF Next

\* What is executed stays so.
LEMMA ExecutedStays ==
  ASSUME NonceAssumption, IInv, [NextAccount]_accountVars
  PROVE  Executed \subseteq Executed'
BY StepIsOwners DEF TheAccount!Next, TheAccount!Send, TheAccount!Mine

\* Callers other than the loop's leave its call alone.
LEMMA OthersLeaveTheLoop ==
  ASSUME NEW c \in Callers \ {Loop}, IInv, Loop \in Callers, NEW op,
         Sending(c) \/ Idles(c) \/ Ask(c, op)
  PROVE  call'[Loop] = call[Loop]
BY DEF Sending, Idles, Ask, ReadNonce, SendRaw, Refused, Receipt, Raises, Ends, IInv, TypeOK

\* A call that goes on keeps its operation, and has begun.
LEMMA SendingKeepsOp ==
  ASSUME NEW c \in Callers, IInv, Sending(c)
  PROVE  call[c].step # "idle" /\ call'[c].op = call[c].op
BY DEF Sending, ReadNonce, SendRaw, Refused, Receipt, Raises, Ends, IInv, TypeOK

LEMMA BusStep ==
  ASSUME CInv, Bus
  PROVE  LoopOK' /\ HandlerAsks' /\ done' = done
<1>1. /\ call' = call /\ done' = done
      /\ loop' = loop \/ (loop = nobody /\ loop' \in Messages)
  BY DEF Bus, Connect, Subscribe, Reattach, BrokerGone, BrokerBack, Send, Publish, Deliver,
         Handle, LoopFree, accountVars
<1> QED BY <1>1 DEF CInv, LoopOK, HandlerAsks

LEMMA LeaveStep ==
  ASSUME NEW ok \in BOOLEAN, Leave(ok)
  PROVE  loop' = nobody /\ done' \subseteq done \union (IF ok THEN {loop} ELSE {})
BY DEF Leave

LEMMA CNextInv ==
  ASSUME NonceAssumption, ConsumersAssumption, CInv, [Next]_vars
  PROVE  CInv'
<1>1. [NextAccount]_accountVars /\ IInv' /\ Executed \subseteq Executed'
  BY StepIsAccounts, NextInv, ExecutedStays DEF CInv
<1> SUFFICES LoopOK' /\ HandlerAsks' /\ done' \subseteq Executed'
  BY <1>1 DEF CInv, DoneIsExecuted
<1> USE DEF DoneIsExecuted
<1>2. Loop \in Callers /\ call[Loop] \in [step : Steps, op : Ops \union {none}, nonce : Nat]
      /\ Idle.step = "idle"
  BY DEF CInv, IInv, TypeOK, ConsumersAssumption, Idle
<1>3. CASE Bus BY <1>1, <1>3, BusStep DEF CInv
<1>4. CASE Handler
  <2>1. CASE loop \in Poison /\ Leave(FALSE) /\ UNCHANGED accountVars
    <3>1. loop' = nobody /\ done' \subseteq done BY <2>1, LeaveStep
    <3>2. call[Loop].step = "idle" BY <2>1 DEF CInv, HandlerAsks
    <3> QED BY <1>1, <2>1, <3>1, <3>2 DEF CInv, LoopOK, HandlerAsks, accountVars
  <2>2. CASE loop \notin Poison /\ Ask(Loop, loop) /\ UNCHANGED busVars
    <3>1. call'[Loop].op = loop /\ loop' = loop /\ done' = done
      BY <1>2, <2>2 DEF Ask, busVars, CInv, IInv, TypeOK
    <3> QED BY <1>1, <1>4, <2>2, <3>1 DEF CInv, LoopOK, HandlerAsks, Handler, LoopFree
  <2>3. CASE call[Loop].step \in {"ok", "known"} /\ Leave(TRUE) /\ Idles(Loop)
    <3>1. loop' = nobody /\ done' \subseteq done \union {loop} BY <2>3, LeaveStep
    <3>2. loop \in Executed
      BY <1>2, <2>3 DEF CInv, HandlerAsks, IInv, AnswersAreTruthful
    <3>3. call'[Loop] = Idle BY <1>2, <2>3 DEF Idles, CInv, IInv, TypeOK
    <3> QED BY <1>1, <1>2, <3>1, <3>2, <3>3 DEF CInv, LoopOK, HandlerAsks
  <2>4. CASE call[Loop].step = "failed" /\ Leave(FALSE) /\ Idles(Loop)
    <3>1. loop' = nobody /\ done' \subseteq done BY <2>4, LeaveStep
    <3>2. call'[Loop] = Idle BY <1>2, <2>4 DEF Idles, CInv, IInv, TypeOK
    <3> QED BY <1>1, <1>2, <3>1, <3>2 DEF CInv, LoopOK, HandlerAsks
  <2> QED BY <1>4, <2>1, <2>2, <2>3, <2>4 DEF Handler
<1>5. CASE Node
  BY <1>1, <1>5 DEF Node, Mining, Mine, busVars, CInv, LoopOK, HandlerAsks
<1>6. CASE Dies
  <2>1. loop' = nobody /\ done' = done /\ call'[Loop] = Idle
    BY <1>2, <1>6 DEF Dies, Crash, Forget
  <2> QED BY <1>1, <1>2, <2>1 DEF CInv, LoopOK, HandlerAsks
<1>7. ASSUME NEW w \in Workers, Worker(w) PROVE LoopOK' /\ HandlerAsks' /\ done' \subseteq Executed'
  <2>1. w \in Callers \ {Loop} BY DEF ConsumersAssumption
  <2>2. call'[Loop] = call[Loop] BY <1>2, <1>7, <2>1, OthersLeaveTheLoop DEF Worker, CInv
  <2> QED BY <1>1, <1>7, <2>2 DEF Worker, busVars, CInv, LoopOK, HandlerAsks
<1>8. ASSUME NEW c \in Callers, Sending(c), UNCHANGED busVars
      PROVE  LoopOK' /\ HandlerAsks' /\ done' \subseteq Executed'
  <2>1. CASE c = Loop
    BY <1>1, <1>8, <2>1, SendingKeepsOp DEF busVars, CInv, LoopOK, HandlerAsks
  <2>2. CASE c # Loop
    <3>1. call'[Loop] = call[Loop] BY <1>2, <1>8, <2>2, OthersLeaveTheLoop DEF CInv
    <3> QED BY <1>1, <1>8, <3>1 DEF busVars, CInv, LoopOK, HandlerAsks
  <2> QED BY <2>1, <2>2
<1>9. CASE UNCHANGED vars
  BY <1>1, <1>9 DEF vars, busVars, accountVars, CInv, LoopOK, HandlerAsks
<1> QED BY <1>3, <1>4, <1>5, <1>6, <1>7, <1>8, <1>9 DEF Next

LEMMA CInitInv == ASSUME ConsumersAssumption, Init PROVE CInv
<1>1. IInv BY InitInv DEF Init
<1>2. call[Loop].step = "idle" BY DEF Init, InitAccount, Idle, ConsumersAssumption
<1> QED BY <1>1, <1>2 DEF Init, InitBus, CInv, LoopOK, HandlerAsks, DoneIsExecuted

-----------------------------------------------------------------------------

\* Code behaviour: the consumers of main.py with _send_tx.  For any messages,
\* windows, worker threads and faults, a callback waits for what its message is
\* about, and the account is as OwnerNonceProofs has it.
THEOREM ConsumersInvariant == Spec => []CInv
BY CInitInv, CNextInv, NonceAssumption, ConsumersAssumption, PTL DEF Spec

\* Code behaviour: handle_cred_created and its like with _send_tx.  An
\* acknowledged message has had its operation executed.
THEOREM AcknowledgedIsExecuted == Spec => []DoneIsExecuted
<1>1. CInv => DoneIsExecuted BY DEF CInv
<1> QED BY <1>1, ConsumersInvariant, PTL

\* Code behaviour: get_transaction_count, called by the consumers of the loop
\* and by worker threads.  The backend as a whole shares its account by the
\* rule of OwnerAccount.
THEOREM BackendSharesAccount == Spec => ImplementsAccount
<1>1. Init => InitAccount BY DEF Init
<1>2. CInv /\ [Next]_vars => [NextAccount]_accountVars
  BY StepIsAccounts, ConsumersAssumption DEF CInv
<1>3. Spec => SpecAccount
  BY <1>1, <1>2, ConsumersInvariant, PTL DEF Spec, SpecAccount
<1> QED BY <1>3, AccountIsShared

-----------------------------------------------------------------------------
(* The bus *)

BusTypeOK ==
  /\ queue \in [Events -> Seq(Messages)]
  /\ unacked \subseteq Messages /\ stale \subseteq Messages
  /\ outbox \subseteq Messages /\ lost \subseteq Messages /\ done \subseteq Messages

\* A message is on the queue of its event, and there once.
QueuedOnce ==
  \A e \in Events : \A i \in DOMAIN queue[e] :
    /\ Event[queue[e][i]] = e
    /\ \A j \in DOMAIN queue[e] : queue[e][i] = queue[e][j] => i = j

OnePlace ==
  /\ Queued \intersect (done \union outbox \union lost) = {}
  /\ done \intersect (outbox \union lost) = {} /\ outbox \intersect lost = {}

\* What has been handed out is still queued; what was handed out on a connection
\* that is gone may have been acknowledged since.
HandedOut ==
  /\ unacked \subseteq Queued /\ stale \subseteq Queued \union done
  /\ loop \in unacked \union stale \union {nobody}

BInv == BusTypeOK /\ QueuedOnce /\ OnePlace /\ HandedOut

mail == [m \in Messages |-> Where(m)]

\* A sequence without its k-th element.
LEMMA RemoveAtProperties ==
  ASSUME NEW S, NEW q \in Seq(S), NEW k \in 1..Len(q)
  PROVE  /\ RemoveAt(q, k) \in Seq(S)
         /\ Len(RemoveAt(q, k)) = Len(q) - 1
         /\ \A i \in 1..(Len(q) - 1) :
               RemoveAt(q, k)[i] = IF i < k THEN q[i] ELSE q[i + 1]
<1> DEFINE a == SubSeq(q, 1, k - 1)  b == SubSeq(q, k + 1, Len(q))
<1>1. /\ a \in Seq(S) /\ Len(a) = k - 1
      /\ \A i \in 1..(k - 1) : a[i] = q[i]
  OBVIOUS
<1>2. /\ b \in Seq(S) /\ Len(b) = Len(q) - k
      /\ \A i \in 1..(Len(q) - k) : b[i] = q[k + i]
  OBVIOUS
<1>3. RemoveAt(q, k) = a \o b
  BY DEF RemoveAt
<1> HIDE DEF a, b
<1>4. /\ a \o b \in Seq(S) /\ Len(a \o b) = Len(a) + Len(b)
      /\ \A i \in 1..(Len(a) + Len(b)) :
            (a \o b)[i] = IF i <= Len(a) THEN a[i] ELSE b[i - Len(a)]
  BY <1>1, <1>2, ConcatProperties
<1>5. (k - 1) + (Len(q) - k) = Len(q) - 1
  OBVIOUS
<1>6. ASSUME NEW i \in 1..(Len(q) - 1)
      PROVE  (a \o b)[i] = IF i < k THEN q[i] ELSE q[i + 1]
  <2>1. CASE i < k BY <1>1, <1>2, <1>4, <1>5, <2>1
  <2>2. CASE ~(i < k)
    <3> DEFINE j == i - (k - 1)
    <3>1. (a \o b)[i] = b[j] BY <1>1, <1>2, <1>4, <1>5, <2>2
    <3>2. j \in 1..(Len(q) - k) /\ k + j = i + 1 BY <2>2
    <3> HIDE DEF j
    <3>3. b[j] = q[k + j] BY <1>2, <3>2
    <3> QED BY <2>2, <3>1, <3>2, <3>3
  <2> QED BY <2>1, <2>2
<1> QED BY <1>1, <1>2, <1>3, <1>4, <1>5, <1>6

\* Appending to one queue, and taking from one.
LEMMA QueuedAppend ==
  ASSUME BusAssumption, BusTypeOK, QueuedOnce, NEW m \in Messages, m \notin Queued,
         queue' = [queue EXCEPT ![Event[m]] = Append(@, m)]
  PROVE  /\ queue' \in [Events -> Seq(Messages)]
         /\ QueuedOnce' /\ Queued' = Queued \union {m}
<1> DEFINE e == Event[m]  q == queue[e]
<1>1. e \in Events /\ q \in Seq(Messages)
  BY DEF BusAssumption, BusTypeOK
<1>2. queue'[e] = Append(q, m) /\ \A f \in Events \ {e} : queue'[f] = queue[f]
  BY <1>1 DEF BusTypeOK
<1>3. /\ DOMAIN q = 1..Len(q) /\ Len(q) \in Nat
      /\ DOMAIN queue'[e] = 1..(Len(q) + 1)
      /\ \A i \in 1..Len(q) : queue'[e][i] = q[i]
      /\ queue'[e][Len(q) + 1] = m
  BY <1>1, <1>2
<1>4. \A i \in DOMAIN q : q[i] # m
  BY <1>1 DEF Queued, ToSet
<1>5. queue' \in [Events -> Seq(Messages)]
  BY <1>1 DEF BusTypeOK
<1> HIDE DEF q
<1>6. QueuedOnce'
  <2> SUFFICES ASSUME NEW f \in Events, NEW i \in DOMAIN queue'[f]
               PROVE  /\ Event[queue'[f][i]] = f
                      /\ \A j \in DOMAIN queue'[f] : queue'[f][i] = queue'[f][j] => i = j
    BY DEF QueuedOnce
  <2>1. CASE f # e BY <1>2, <2>1 DEF QueuedOnce
  <2>2. CASE f = e BY <1>1, <1>3, <1>4, <2>2 DEF QueuedOnce, q
  <2> QED BY <2>1, <2>2
<1>7. ToSet(queue'[e]) = ToSet(q) \union {m}
  <2>1. ToSet(q) = {q[i] : i \in 1..Len(q)}
    BY <1>3 DEF ToSet
  <2>2. ToSet(queue'[e]) = {queue'[e][i] : i \in 1..(Len(q) + 1)}
    BY <1>3 DEF ToSet
  <2> QED BY <1>3, <2>1, <2>2
<1>8. Queued' = Queued \union {m}
  BY <1>1, <1>2, <1>7 DEF Queued, q, ToSet
<1> QED BY <1>5, <1>6, <1>8

LEMMA QueuedOff ==
  ASSUME BusAssumption, BusTypeOK, QueuedOnce, NEW m \in Messages, Off(m)
  PROVE  /\ queue' \in [Events -> Seq(Messages)]
         /\ QueuedOnce' /\ Queued' = Queued \ {m}
<1> DEFINE e == Event[m]  q == queue[e]
<1>1. e \in Events /\ q \in Seq(Messages)
  BY DEF BusAssumption, BusTypeOK
<1>2. PICK k \in DOMAIN q : q[k] = m /\ queue' = [queue EXCEPT ![e] = RemoveAt(@, k)]
  BY DEF Off
<1>3. queue'[e] = RemoveAt(q, k) /\ \A f \in Events \ {e} : queue'[f] = queue[f]
  BY <1>1, <1>2 DEF BusTypeOK
<1>4. k \in 1..Len(q) /\ Len(q) \in Nat /\ DOMAIN q = 1..Len(q)
  BY <1>1, <1>2
<1>5. /\ RemoveAt(q, k) \in Seq(Messages)
      /\ Len(RemoveAt(q, k)) = Len(q) - 1
      /\ \A i \in 1..(Len(q) - 1) :
            RemoveAt(q, k)[i] = IF i < k THEN q[i] ELSE q[i + 1]
  BY <1>1, <1>4, RemoveAtProperties
<1>6. queue' \in [Events -> Seq(Messages)]
  BY <1>1, <1>2, <1>5 DEF BusTypeOK
<1>7. /\ DOMAIN queue'[e] = 1..(Len(q) - 1)
      /\ \A i \in 1..(Len(q) - 1) : queue'[e][i] = IF i < k THEN q[i] ELSE q[i + 1]
  BY <1>3, <1>5
<1> HIDE DEF q
<1>8. \A i, j \in 1..Len(q) : Event[q[i]] = e /\ (q[i] = q[j] => i = j)
  BY <1>1, <1>4 DEF QueuedOnce, q
<1>9. QueuedOnce'
  <2> SUFFICES ASSUME NEW f \in Events, NEW i \in DOMAIN queue'[f]
               PROVE  /\ Event[queue'[f][i]] = f
                      /\ \A j \in DOMAIN queue'[f] : queue'[f][i] = queue'[f][j] => i = j
    BY DEF QueuedOnce
  <2>1. CASE f # e BY <1>3, <2>1 DEF QueuedOnce
  <2>2. CASE f = e BY <1>4, <1>7, <1>8, <2>2
  <2> QED BY <2>1, <2>2
<1>10. ToSet(queue'[e]) = ToSet(q) \ {m}
  <2>a. ToSet(q) = {q[i] : i \in 1..Len(q)} BY <1>4 DEF ToSet
  <2>b. ToSet(queue'[e]) = {queue'[e][i] : i \in 1..(Len(q) - 1)} BY <1>7 DEF ToSet
  <2>1. ASSUME NEW x \in ToSet(q), x # m PROVE x \in ToSet(queue'[e])
    <3>1. PICK i \in 1..Len(q) : x = q[i] BY <2>a, <2>1
    <3>2. CASE i < k
      <4>1. i \in 1..(Len(q) - 1) /\ queue'[e][i] = x BY <1>4, <1>7, <3>1, <3>2
      <4> QED BY <2>b, <4>1
    <3>3. CASE i > k
      <4>1. i - 1 \in 1..(Len(q) - 1) /\ queue'[e][i - 1] = x BY <1>4, <1>7, <3>1, <3>3
      <4> QED BY <2>b, <4>1
    <3> QED BY <1>2, <1>4, <2>1, <3>1, <3>2, <3>3
  <2>2. ASSUME NEW i \in 1..(Len(q) - 1) PROVE queue'[e][i] \in ToSet(q) \ {m}
    <3>1. CASE i < k
      <4>1. i \in 1..Len(q) /\ queue'[e][i] = q[i] /\ i # k BY <1>4, <1>7, <3>1
      <4> QED BY <1>2, <1>4, <1>8, <2>a, <4>1
    <3>2. CASE i >= k
      <4>1. i + 1 \in 1..Len(q) /\ queue'[e][i] = q[i + 1] /\ i + 1 # k BY <1>4, <1>7, <3>2
      <4> QED BY <1>2, <1>4, <1>8, <2>a, <4>1
    <3> QED BY <1>4, <3>1, <3>2
  <2>3. ToSet(queue'[e]) \subseteq ToSet(q) \ {m} BY <2>b, <2>2
  <2> QED BY <2>1, <2>3
<1>11. \A f \in Events \ {e} : m \notin ToSet(queue[f])
  BY DEF QueuedOnce, ToSet
<1>12. Queued' = Queued \ {m}
  BY <1>1, <1>3, <1>10, <1>11 DEF Queued, q
<1> QED BY <1>6, <1>9, <1>12

BusStepInv == BInv' /\ [TheMail!Next]_mail

\* The steps that move no message.
LEMMA QuietSteps ==
  ASSUME BusAssumption, BInv,
         \/ Connect \/ Subscribe \/ Reattach \/ BrokerGone \/ BrokerBack
         \/ (\E m \in Messages : Deliver(m)) \/ UNCHANGED busVars
  PROVE  BusStepInv
<1>1. UNCHANGED <<queue, outbox, loop, lost, done>>
  BY DEF Connect, Subscribe, Reattach, BrokerGone, BrokerBack, Deliver, busVars, clientVars,
         brokerVars
<1>2. /\ unacked' \subseteq Queued /\ unacked' \subseteq Messages
      /\ stale' \subseteq unacked \union stale
      /\ unacked \union stale \subseteq unacked' \union stale'
  <2>1. CASE UNCHANGED <<unacked, stale>> BY <2>1 DEF BInv, HandedOut, BusTypeOK
  <2>2. CASE BrokerGone BY <2>2 DEF BrokerGone, BInv, HandedOut, BusTypeOK
  <2>3. ASSUME NEW m \in Messages, Deliver(m) PROVE <1>2
    <3>1. Event[m] \in Events /\ m \in ToSet(queue[Event[m]])
      BY <2>3 DEF Deliver, ToSet, BusAssumption
    <3>2. m \in Queued BY <3>1 DEF Queued
    <3> QED BY <2>3, <3>2 DEF Deliver, BInv, HandedOut, BusTypeOK
  <2> QED
    BY <2>1, <2>2, <2>3
    DEF Connect, Subscribe, Reattach, BrokerBack, busVars
<1>3. Queued' = Queued /\ mail' = mail
  BY <1>1 DEF Queued, mail, Where
<1> QED
  BY <1>1, <1>2, <1>3
  DEF BusStepInv, BInv, BusTypeOK, QueuedOnce, OnePlace, HandedOut

\* No callback, no message in one.
LEMMA FreeLoop == ASSUME BusAssumption, LoopFree PROVE TheMail!LoopFree
BY DEF TheMail!LoopFree, mail, Where, LoopFree, BusAssumption

\* A message goes to another place, and the others stay where they are.
LEMMA OneMoves ==
  ASSUME NEW m \in Messages, NEW to,
         \A n \in Messages : Where(n)' = IF n = m THEN to ELSE Where(n)
  PROVE  TheMail!Move(m, Where(m), to)
BY DEF TheMail!Move, mail

LEMMA SendStep ==
  ASSUME BusAssumption, BInv, NEW m \in Messages, Send(m)
  PROVE  BusStepInv
<1>1. /\ UNCHANGED <<queue, unacked, stale, loop, lost, done>> /\ LoopFree
      /\ outbox' = outbox \union {m} /\ m \in Fresh /\ loop # m
  BY DEF Send, brokerVars, LoopFree, BusAssumption
<1>2. Queued' = Queued BY <1>1 DEF Queued
<1>3. \A n \in Messages : Where(n)' = IF n = m THEN "outbox" ELSE Where(n)
  BY <1>1, <1>2 DEF Where, Fresh
<1>4. Where(m) = "none" BY <1>1 DEF Where, Fresh
<1>5. TheMail!Send(m) BY <1>1, <1>3, <1>4, OneMoves, FreeLoop DEF TheMail!Send
<1>6. BInv'
  BY <1>1, <1>2 DEF BInv, BusTypeOK, QueuedOnce, OnePlace, HandedOut, Fresh
<1> QED BY <1>5, <1>6 DEF BusStepInv, TheMail!Next

LEMMA PublishStep ==
  ASSUME BusAssumption, BInv, NEW m \in Messages, Publish(m)
  PROVE  BusStepInv
<1>1. /\ UNCHANGED <<unacked, stale, loop, done>> /\ LoopFree
      /\ m \in outbox /\ outbox' = outbox \ {m} /\ loop # m
      /\ m \notin Queued /\ m \notin done /\ m \notin lost
  BY DEF Publish, LoopFree, BusAssumption, BInv, OnePlace
<1>2. Where(m) = "outbox" BY <1>1 DEF Where
<1>3. CASE queue' = [queue EXCEPT ![Event[m]] = Append(@, m)] /\ UNCHANGED lost
  <2>1. /\ queue' \in [Events -> Seq(Messages)]
        /\ QueuedOnce' /\ Queued' = Queued \union {m}
    BY <1>1, <1>3, QueuedAppend DEF BInv
  <2>2. \A n \in Messages : Where(n)' = IF n = m THEN "queued" ELSE Where(n)
    BY <1>1, <1>3, <2>1 DEF Where
  <2>3. TheMail!Publish(m)
    BY <1>1, <1>2, <2>2, OneMoves, FreeLoop DEF TheMail!Publish
  <2>4. BInv' BY <1>1, <1>3, <2>1 DEF BInv, BusTypeOK, OnePlace, HandedOut
  <2> QED BY <2>3, <2>4 DEF BusStepInv, TheMail!Next
<1>4. CASE lost' = lost \union {m} /\ UNCHANGED queue
  <2>1. Queued' = Queued BY <1>4 DEF Queued
  <2>2. \A n \in Messages : Where(n)' = IF n = m THEN "lost" ELSE Where(n)
    BY <1>1, <1>4, <2>1 DEF Where
  <2>3. TheMail!Publish(m)
    BY <1>1, <1>2, <2>2, OneMoves, FreeLoop DEF TheMail!Publish
  <2>4. BInv'
    BY <1>1, <1>4, <2>1 DEF BInv, BusTypeOK, QueuedOnce, OnePlace, HandedOut
  <2> QED BY <2>3, <2>4 DEF BusStepInv, TheMail!Next
<1> QED BY <1>3, <1>4 DEF Publish

LEMMA HandleStep ==
  ASSUME BusAssumption, BInv, NEW m \in Messages, Handle(m)
  PROVE  BusStepInv
<1>1. /\ UNCHANGED <<queue, unacked, outbox, stale, lost, done>> /\ LoopFree
      /\ loop' = m /\ m \in unacked \union stale /\ m \in Queued \union done
  BY DEF Handle, brokerVars, BInv, HandedOut
<1>2. Queued' = Queued BY <1>1 DEF Queued
<1>3. BInv'
  BY <1>1, <1>2 DEF BInv, BusTypeOK, QueuedOnce, OnePlace, HandedOut
<1>4. CASE m \in done
  <2>1. \A n \in Messages : Where(n)' = Where(n)
    BY <1>1, <1>2, <1>4 DEF Where, LoopFree, BusAssumption
  <2> QED BY <1>3, <2>1 DEF BusStepInv, mail
<1>5. CASE m \notin done
  <2>1. \A n \in Messages : Where(n)' = IF n = m THEN "handling" ELSE Where(n)
    BY <1>1, <1>2, <1>5 DEF Where, LoopFree, BusAssumption
  <2>2. Where(m) = "queued" BY <1>1, <1>5 DEF Where, BInv, OnePlace, LoopFree, BusAssumption
  <2>3. TheMail!Deliver(m)
    BY <1>1, <2>1, <2>2, OneMoves, FreeLoop DEF TheMail!Deliver
  <2> QED BY <1>3, <2>3 DEF BusStepInv, TheMail!Next
<1> QED BY <1>4, <1>5

LEMMA LeaveSettles ==
  ASSUME BusAssumption, BInv, NEW ok \in BOOLEAN, Leave(ok)
  PROVE  BusStepInv
<1>1. /\ UNCHANGED <<outbox, lost>> /\ loop' = nobody
      /\ loop \in Messages /\ loop \in unacked \union stale /\ nobody \notin Messages
  BY DEF Leave, LoopFree, BInv, HandedOut, BusTypeOK, BusAssumption
<1> DEFINE m == loop
<1>2. CASE loop \in stale \/ ~ok
  <2>1. /\ UNCHANGED <<queue, done>> /\ unacked' \subseteq unacked /\ stale' \subseteq stale
    BY <1>2 DEF Leave
  <2>2. Queued' = Queued BY <2>1 DEF Queued
  <2>3. BInv'
    BY <1>1, <2>1, <2>2 DEF BInv, BusTypeOK, QueuedOnce, OnePlace, HandedOut
  <2>4. CASE m \in done
    <3>1. \A n \in Messages : Where(n)' = Where(n)
      BY <1>1, <2>1, <2>2, <2>4 DEF Where
    <3> QED BY <2>3, <3>1 DEF BusStepInv, mail
  <2>5. CASE m \notin done
    <3>1. m \in Queued BY <1>1, <2>5 DEF BInv, HandedOut
    <3>2. \A n \in Messages : Where(n)' = IF n = m THEN "queued" ELSE Where(n)
      BY <1>1, <2>1, <2>2, <2>5, <3>1 DEF Where, BInv, OnePlace
    <3>3. Where(m) = "handling" BY <2>5 DEF Where
    <3>4. TheMail!Requeue(m) BY <1>1, <3>2, <3>3, OneMoves DEF TheMail!Requeue
    <3> QED BY <1>1, <2>3, <3>4 DEF BusStepInv, TheMail!Next
  <2> QED BY <2>4, <2>5
<1>3. CASE loop \notin stale /\ ok
  <2>1. /\ Off(m) /\ done' = done \union {m} /\ unacked' = unacked \ {m} /\ stale' = stale
    BY <1>3 DEF Leave
  <2>2. /\ queue' \in [Events -> Seq(Messages)]
        /\ QueuedOnce' /\ Queued' = Queued \ {m}
    BY <1>1, <2>1, QueuedOff DEF BInv
  <2>3. m \in Queued /\ m \notin done
    BY <1>1, <1>3 DEF BInv, HandedOut, OnePlace
  <2>4. \A n \in Messages : Where(n)' = IF n = m THEN "done" ELSE Where(n)
    BY <1>1, <2>1, <2>2 DEF Where
  <2>5. Where(m) = "handling" BY <2>3 DEF Where
  <2>6. TheMail!Ack(m) BY <1>1, <2>4, <2>5, OneMoves DEF TheMail!Ack
  <2>7. BInv'
    BY <1>1, <2>1, <2>2, <2>3 DEF BInv, BusTypeOK, OnePlace, HandedOut
  <2> QED BY <1>1, <2>6, <2>7 DEF BusStepInv, TheMail!Next
<1> QED BY <1>2, <1>3

LEMMA CrashStep ==
  ASSUME BusAssumption, BInv, Crash
  PROVE  BusStepInv
<1>1. /\ UNCHANGED <<queue, done>> /\ loop' = nobody /\ nobody \notin Messages
      /\ outbox' = {} /\ lost' = lost \union outbox /\ unacked' = {} /\ stale' = {}
  BY DEF Crash, brokerVars, BusAssumption
<1>2. Queued' = Queued BY <1>1 DEF Queued
<1>3. BInv'
  BY <1>1, <1>2 DEF BInv, BusTypeOK, QueuedOnce, OnePlace, HandedOut
<1>4. ASSUME NEW m \in Messages
      PROVE  Where(m)' = CASE Where(m) = "outbox"   -> "lost"
                           [] Where(m) = "handling" -> "queued"
                           [] OTHER                 -> Where(m)
  <2>1. CASE m \in done BY <1>1, <1>2, <2>1 DEF Where
  <2>2. CASE m \notin done /\ loop = m
    <3>1. m \in Queued BY <2>2 DEF BInv, HandedOut, BusAssumption
    <3> QED BY <1>1, <1>2, <2>2, <3>1 DEF Where, BInv, OnePlace
  <2>3. CASE m \notin done /\ loop # m
    BY <1>1, <1>2, <2>3 DEF Where, BInv, OnePlace
  <2> QED BY <2>1, <2>2, <2>3
<1>5. TheMail!Crash
  BY <1>4 DEF TheMail!Crash, mail
<1> QED BY <1>3, <1>5 DEF BusStepInv, TheMail!Next

LEMMA MailNext ==
  ASSUME BusAssumption, BInv, [Next]_vars
  PROVE  BusStepInv
<1>1. CASE Bus
  BY <1>1, QuietSteps, SendStep, PublishStep, HandleStep DEF Bus
<1>2. CASE Handler
  BY <1>2, LeaveSettles, QuietSteps DEF Handler
<1>3. CASE Dies BY <1>3, CrashStep DEF Dies
<1>4. CASE UNCHANGED busVars BY <1>4, QuietSteps
<1> QED BY <1>1, <1>2, <1>3, <1>4 DEF Next, Node, Worker, vars

LEMMA MailInit ==
  ASSUME BusAssumption, Init
  PROVE  BInv /\ TheMail!Init
<1>1. /\ queue = [e \in Events |-> <<>>] /\ unacked = {} /\ stale = {} /\ loop = nobody
      /\ outbox = {} /\ lost = {} /\ done = {} /\ nobody \notin Messages
  BY DEF Init, InitBus, BusAssumption
<1>2. /\ \A e \in Events : queue[e] = <<>> /\ DOMAIN queue[e] = {}
      /\ queue \in [Events -> Seq(Messages)]
  BY <1>1
<1>3. Queued = {} BY <1>2 DEF Queued, ToSet
<1>4. BInv
  BY <1>1, <1>2, <1>3 DEF BInv, BusTypeOK, QueuedOnce, OnePlace, HandedOut
<1>5. TheMail!Init
  BY <1>1, <1>3 DEF TheMail!Init, Where
<1> QED BY <1>4, <1>5

-----------------------------------------------------------------------------

\* Code behaviour: publish, subscribe, and message.process(requeue=True).  For
\* any messages, events, windows and faults, what has reached a queue is on it,
\* once, until it is acknowledged.
THEOREM BusInvariant == Spec => []BInv
<1>1. BInv /\ [Next]_vars => BInv'
  BY MailNext, BusAssumption DEF BusStepInv
<1>2. Init => BInv BY MailInit, BusAssumption
<1> QED BY <1>1, <1>2, PTL DEF Spec

\* Code behaviour: as before.  Every message moves only as Mailbox says, which
\* is how CredentialLifecycle has it move.
THEOREM MailIsKept == Spec => ImplementsMail
<1>1. Init => TheMail!Init BY MailInit, BusAssumption
<1>2. BInv /\ [Next]_vars => [TheMail!Next]_mail
  BY MailNext, BusAssumption DEF BusStepInv
<1> QED
  BY <1>1, <1>2, BusInvariant, PTL DEF Spec, ImplementsMail, TheMail!Spec, mail
=============================================================================

------------------------------- MODULE Consumers -------------------------------
(***************************************************************************)
(* The backend at work: each message of the EventBus is handled by asking  *)
(* a contract for one operation through OwnerNonce, and worker threads ask *)
(* for others meanwhile, from the account of the same nonce.               *)
(***************************************************************************)
EXTENDS EventBus, OwnerNonce

CONSTANTS
  Workers,  \* worker threads; each asks for an operation of its own
  MaxWork,  \* bound: how many are mined before they ask for no more
  Poison    \* the messages whose callback always raises: their type is not on
            \* the chain, their reason_code is more than 32 bits

Loop == CHOOSE c \in Callers : c \notin Workers

ASSUME ConsumersAssumption ==
  /\ Workers \subseteq Callers /\ Loop \in Callers \ Workers /\ MaxWork \in Nat
  /\ Ops = (Messages \ Poison) \union Workers
  /\ Poison \subseteq Messages /\ nobody = none

vars == <<busVars, accountVars>>

Init == InitBus /\ InitAccount

-----------------------------------------------------------------------------

Bus ==
  /\ \/ Connect \/ Subscribe \/ Reattach \/ BrokerGone \/ BrokerBack
     \/ \E m \in Messages : Send(m) \/ Publish(m) \/ Deliver(m) \/ Handle(m)
  /\ UNCHANGED accountVars

\* A handler asks for what is not there yet.  It ends when it is, or has been.
Handler ==
  /\ ~LoopFree
  /\ \/ loop \in Poison /\ Leave(FALSE) /\ UNCHANGED accountVars
     \/ loop \notin Poison /\ Ask(Loop, loop) /\ UNCHANGED busVars
     \/ call[Loop].step \in {"ok", "known"} /\ Leave(TRUE) /\ Idles(Loop)
     \/ call[Loop].step = "failed" /\ Leave(FALSE) /\ Idles(Loop)

\* An endpoint that runs in a worker thread answers, whatever came of it.
Worker(w) ==
  /\ \/ stage = Serving /\ Len(mined) < MaxWork /\ Ask(w, w)
     \/ call[w].step \in {"ok", "known", "failed"} /\ Idles(w)
  /\ UNCHANGED busVars

Node == Mining /\ UNCHANGED busVars

Dies == Crash /\ Forget

Next ==
  \/ Bus \/ Handler \/ Node \/ Dies
  \/ \E w \in Workers : Worker(w)
  \/ \E c \in Callers : Sending(c) /\ UNCHANGED busVars

Spec == Init /\ [][Next]_vars

-----------------------------------------------------------------------------
(* Fairness: a callback goes on; blocks are mined; the
   broker comes back, is connected to again, and hands out what it may; the
   tasks of the loop get their turn.  In the end nothing fails. *)

FaultStep ==
  \/ BrokerGone \/ Dies
  \/ \E c \in Callers : Raises(c)
  \/ \E c \in Callers : Ask(c, call'[c].op) /\ call'[c].step = "reading" /\ call'[c].op \in Executed

HandlerStep == Handler \/ (Sending(Loop) /\ UNCHANGED busVars)

Fairness ==
  /\ WF_vars(HandlerStep)
  /\ WF_vars(Node)
  /\ WF_vars(BrokerBack /\ UNCHANGED accountVars)
  /\ SF_vars(Reattach /\ UNCHANGED accountVars)
  /\ \A m \in Messages : SF_vars(Deliver(m) /\ UNCHANGED accountVars)
  /\ \A m \in Messages : SF_vars(Handle(m) /\ UNCHANGED accountVars)
  /\ <>[][~FaultStep]_vars

FairSpec == Spec /\ Fairness

-----------------------------------------------------------------------------
(* Properties *)

\* Code behaviour: handle_cred_created and its like with _send_tx.  An
\* acknowledged message has had its operation executed, through receipts that
\* came late or never, transactions of the same nonce, a broken connection, a
\* crash, and a view that said the operation was not done.
DoneIsExecuted == done \subseteq Executed

\* The poison on m's queue that is before it.
PoisonBefore(m) ==
  LET q == queue[Event[m]] IN
  {p \in Poison : \E i, j \in DOMAIN q : i < j /\ q[i] = p /\ q[j] = m}

\* Code behaviour: prefetch_count and requeue=True.  A message that can succeed,
\* on the queue of an event the process is subscribed to, is handled in the end
\* in spite of those on its queue that never can, if they are fewer than the
\* window; and in spite of the transactions others send from the same account.
GoodMessagesAreHandled ==
  \A m \in Messages \ Poison :
    m \in Queued /\ Event[m] \in subscribed /\ Cardinality(PoisonBefore(m)) < Window
      ~> m \in done \/ Event[m] \notin subscribed
=============================================================================

------------------------------- MODULE EventBus -------------------------------
(***************************************************************************)
(* The EventBus of common/messaging.py on RabbitMQ, and the lifespan of    *)
(* main.py that starts it: one robust connection, a durable queue per      *)
(* event, a consumer on each that takes up to a window of messages and     *)
(* puts back what its callback raised on.                                  *)
(*                                                                         *)
(* The process is one asyncio loop.  While a callback runs (`loop`) no     *)
(* other task of the process does: the callbacks await nothing, but for the *)
(* last step of handle_user_created, which DidLifecycle has (`holding`).   *)
(***************************************************************************)
EXTENDS Naturals, FiniteSets, SequencesExt

CONSTANTS
  Messages,   \* the messages the handlers publish, each once
  Event,      \* the event of each
  Startup,    \* the events in the order in which lifespan subscribes to them
  Window,     \* prefetch_count
  BusFaults,  \* the faults that may happen
  nobody      \* no message

BusFaultKinds == {"broker",  \* the broker cannot be reached for a while
                  "crash"}   \* the backend process dies and is restarted

Events == ToSet(Startup)

ASSUME BusAssumption ==
  /\ Startup \in Seq(Events)
  /\ Event \in [Messages -> Events]
  /\ Window \in Nat \ {0}
  /\ BusFaults \subseteq BusFaultKinds
  /\ nobody \notin Messages

VARIABLES
  \* RabbitMQ
  up,          \* whether it can be reached
  bound,       \* the events whose queue is declared and bound to the exchange
  queue,       \* queue[e]: the messages of event e in their order, durable
  unacked,     \* those handed to the consumer and not yet acknowledged
  \* the process
  stage,       \* how far lifespan has come
  link,        \* the connection: none, half (no exchange on it), or full
  attached,    \* whether the robust connection is established at present
  subscribed,  \* the events it consumes
  outbox,      \* what its tasks are going to publish
  stale,       \* delivered before the connection broke, and still to be handled
  loop,        \* the message whose callback runs
  \* histories
  lost,        \* messages that reached no queue
  done         \* messages acknowledged

brokerVars == <<up, bound, queue>>
clientVars == <<stage, link, subscribed>>
busVars == <<up, bound, queue, unacked, stage, link, attached, subscribed, outbox,
             stale, loop, lost, done>>

InitBus ==
  /\ up \in (IF "broker" \in BusFaults THEN BOOLEAN ELSE {TRUE})
  /\ bound \in {{}, Events}      \* a fresh broker, or that of an earlier run
  /\ queue = [e \in Events |-> <<>>] /\ unacked = {}
  /\ stage = 0 /\ link = "none" /\ attached = FALSE /\ subscribed = {}
  /\ outbox = {} /\ stale = {} /\ loop = nobody
  /\ lost = {} /\ done = {}

Serving == Len(Startup) + 1
LoopFree == loop = nobody

Queued == UNION {ToSet(queue[e]) : e \in Events}
Fresh == Messages \ (outbox \union lost \union done \union Queued)

-----------------------------------------------------------------------------
(* The connection *)

\* What five attempts may end in.  One that breaks off after connect_robust
\* leaves a connection without an exchange, which nobody opens again.
Connects(l) ==
  \/ l = "full" /\ up
  \/ l = "half" /\ "broker" \in BusFaults
  \/ l = "none" /\ ~up

\* Publishing and subscribing connect when there is no connection.
Linked(l) ==
  /\ IF link = "none" THEN Connects(l) ELSE l = link
  /\ link' = l
  /\ attached' = (attached \/ (link = "none" /\ l = "full"))

\* Start-up goes on whether it is connected, and whether it is subscribed.
Connect ==
  /\ stage = 0 /\ LoopFree
  /\ \E l \in {"none", "half", "full"} : Linked(l)
  /\ stage' = 1
  /\ UNCHANGED <<brokerVars, unacked, subscribed, outbox, stale, loop, lost, done>>

Subscribe ==
  /\ stage \in DOMAIN Startup /\ LoopFree
  /\ \E l \in {"none", "half", "full"} :
       /\ Linked(l)
       /\ LET e == Startup[stage] IN
          \/ /\ up /\ attached'
             /\ l = "half" => bound # {}    \* the exchange is from an earlier run
             /\ bound' = bound \union {e}
             /\ subscribed' = subscribed \union {e}
          \/ /\ l # "full" \/ ~attached' \/ "broker" \in BusFaults
             /\ bound' \in {bound} \union (IF up /\ attached' THEN {bound \union {e}} ELSE {})
             /\ UNCHANGED subscribed
  /\ stage' = stage + 1
  /\ UNCHANGED <<up, queue, unacked, outbox, stale, loop, lost, done>>

\* aio_pika connects again, and consumes what was consumed.
Reattach ==
  /\ LoopFree /\ up /\ ~attached /\ link # "none"
  /\ stale = {}    \* the tasks that were ready have run before
  /\ attached' = TRUE
  /\ UNCHANGED <<brokerVars, unacked, clientVars, outbox, stale, loop, lost, done>>

BrokerGone ==
  /\ "broker" \in BusFaults /\ up
  /\ up' = FALSE /\ attached' = FALSE
  /\ unacked' = {} /\ stale' = stale \union unacked
  /\ UNCHANGED <<bound, queue, clientVars, outbox, loop, lost, done>>

BrokerBack ==
  /\ ~up /\ up' = TRUE
  /\ UNCHANGED <<bound, queue, unacked, clientVars, attached, outbox, stale, loop, lost, done>>

-----------------------------------------------------------------------------
(* Messages *)

\* A handler of the API commits, and leaves a task that publishes.
Send(m) ==
  /\ stage = Serving /\ LoopFree
  /\ m \in Fresh
  /\ outbox' = outbox \union {m}
  /\ UNCHANGED <<brokerVars, unacked, clientVars, attached, stale, loop, lost, done>>

\* The exchange has no queue for an event nobody has subscribed to: the message
\* is gone, as it is when publish returns False, which nobody looks at.  It may
\* return False of a message that has arrived.
Publish(m) ==
  /\ m \in outbox /\ LoopFree
  /\ outbox' = outbox \ {m}
  /\ \E l \in {"none", "half", "full"} :
       /\ Linked(l)
       /\ \/ /\ up /\ l = "full" /\ Event[m] \in bound
             /\ queue' = [queue EXCEPT ![Event[m]] = Append(@, m)]
             /\ UNCHANGED lost
          \/ /\ ~up \/ l # "full" \/ "broker" \in BusFaults \/ Event[m] \notin bound
             /\ lost' = lost \union {m}
             /\ UNCHANGED queue
  /\ UNCHANGED <<up, bound, unacked, stage, subscribed, stale, loop, done>>

\* Mutant: a prefetch_count of one.
DeliverOneByOne(m) ==
  LET e == Event[m] IN
  /\ attached /\ e \in subscribed
  /\ \A n \in unacked : Event[n] # e
  /\ queue[e] # <<>> /\ m = Head(queue[e])
  /\ unacked' = unacked \union {m}
  /\ UNCHANGED <<brokerVars, clientVars, attached, outbox, stale, loop, lost, done>>

\* The broker hands out the first that is not handed out already; what comes
\* back keeps its place.
Deliver(m) ==
  LET e == Event[m] IN
  /\ attached /\ e \in subscribed
  /\ Cardinality({n \in unacked : Event[n] = e}) < Window
  /\ \E i \in DOMAIN queue[e] : /\ queue[e][i] = m /\ m \notin unacked
                               /\ \A j \in 1..(i - 1) : queue[e][j] \in unacked
  /\ unacked' = unacked \union {m}
  /\ UNCHANGED <<brokerVars, clientVars, attached, outbox, stale, loop, lost, done>>

\* The callback begins, also that of a delivery whose connection is gone.
Handle(m) ==
  /\ LoopFree /\ m \in unacked \union stale
  /\ loop' = m
  /\ UNCHANGED <<brokerVars, unacked, clientVars, attached, outbox, stale, lost, done>>

\* m leaves its queue.
Off(m) ==
  \E i \in DOMAIN queue[Event[m]] :
     /\ queue[Event[m]][i] = m
     /\ queue' = [queue EXCEPT ![Event[m]] = RemoveAt(@, i)]

\* Mutant: message.process() without requeue.
LeaveForGood(ok) ==
  /\ ~LoopFree /\ loop' = nobody
  /\ IF loop \in stale
       THEN stale' = stale \ {loop} /\ UNCHANGED <<queue, unacked, done>>
       ELSE /\ unacked' = unacked \ {loop}
            /\ Off(loop)
            /\ done' = IF ok THEN done \union {loop} ELSE done
            /\ UNCHANGED stale
  /\ UNCHANGED <<up, bound, clientVars, attached, outbox, lost>>

\* It ends, and the message with it, or raises and the message is put back; an
\* answer on a connection that is gone reaches nobody.
Leave(ok) ==
  /\ ~LoopFree /\ loop' = nobody
  /\ IF loop \in stale
       THEN stale' = stale \ {loop} /\ UNCHANGED <<queue, unacked, done>>
       ELSE /\ unacked' = unacked \ {loop}
            /\ UNCHANGED stale
            /\ IF ok
                 THEN /\ Off(loop)
                      /\ done' = done \union {loop}
                 ELSE UNCHANGED <<queue, done>>
  /\ UNCHANGED <<up, bound, clientVars, attached, outbox, lost>>

Crash ==
  /\ "crash" \in BusFaults
  /\ stage' = 0 /\ link' = "none" /\ attached' = FALSE /\ subscribed' = {}
  /\ outbox' = {} /\ lost' = lost \union outbox
  /\ unacked' = {} /\ stale' = {} /\ loop' = nobody
  /\ UNCHANGED <<brokerVars, done>>

-----------------------------------------------------------------------------
(* Properties *)

\* A message may be in a callback again after it is done, and is queued while it
\* is in one.
Where(m) ==
  IF m \in done THEN "done"
  ELSE IF loop = m THEN "handling"
  ELSE CASE m \in Queued -> "queued"
         [] m \in outbox -> "outbox"
         [] m \in lost   -> "lost"
         [] OTHER        -> "none"

TheMail == INSTANCE Mailbox WITH mail <- [m \in Messages |-> Where(m)]

\* Code behaviour: publish, subscribe, and message.process(requeue=True).  With
\* connections that break and come back, deliveries handled after their
\* connection is gone, start-ups that subscribe to nothing, and crashes, a
\* message moves only as the life of a credential takes it to: once on its
\* queue it is there until a callback has ended well, and one runs at a time.
ImplementsMail == TheMail!Spec
=============================================================================

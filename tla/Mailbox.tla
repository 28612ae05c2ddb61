-------------------------------- MODULE Mailbox --------------------------------
(***************************************************************************)
(* What a message is promised on its way from the task that publishes it  *)
(* to the handler of its event: the moves that CredentialLifecycle makes   *)
(* of its variable `mail`.  One handler runs at a time; only what was not  *)
(* published is ever lost; and a message leaves its queue by the end of a  *)
(* handler that did not raise.                                             *)
(***************************************************************************)
CONSTANT Messages

VARIABLE mail

LoopFree == \A m \in Messages : mail[m] # "handling"

Init == mail = [m \in Messages |-> "none"]

Move(m, from, to) == mail[m] = from /\ mail' = [mail EXCEPT ![m] = to]

\* A handler leaves a task behind; the task publishes, or fails to.
Send(m) == LoopFree /\ Move(m, "none", "outbox")
Publish(m) == LoopFree /\ (Move(m, "outbox", "queued") \/ Move(m, "outbox", "lost"))

\* The consumer's handler runs to its end, or raises; so does one whose
\* acknowledgement does not arrive.
Deliver(m) == LoopFree /\ Move(m, "queued", "handling")
Ack(m) == Move(m, "handling", "done")
Requeue(m) == Move(m, "handling", "queued")

Crash ==
  mail' = [m \in Messages |-> CASE mail[m] = "outbox"   -> "lost"
                                [] mail[m] = "handling" -> "queued"
                                [] OTHER                -> mail[m]]

Next ==
  \/ \E m \in Messages : Send(m) \/ Publish(m) \/ Deliver(m) \/ Ack(m) \/ Requeue(m)
  \/ Crash

Spec == Init /\ [][Next]_mail
=============================================================================

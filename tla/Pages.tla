-------------------------------- MODULE Pages --------------------------------
(***************************************************************************)
(* What the pages of the single-page front end have in common.  React     *)
(* keeps one page mounted; its useState hooks are the fields of `page`.   *)
(* A handler that awaits the API leaves a call in `calls` and goes on     *)
(* when the answer arrives; nothing orders the answers and nothing times  *)
(* a call out (api/client.js gives fetch no signal).  When the page is    *)
(* left, React drops what the answers would have set, but the server may  *)
(* still execute a call that changes something.                           *)
(***************************************************************************)
EXTENDS Naturals, FiniteSets

CONSTANT MaxCalls    \* bound: calls of the front end in flight at a time

ASSUME MaxCallsAssumption == MaxCalls \in Nat \ {0}

VARIABLES
  at,      \* the mounted page, or "none"
  page,    \* the hooks of the mounted page: a record of its own shape
  calls    \* requests whose answer has not been handled

pageVars == <<at, page, calls>>

\* "none" stands for null and for the empty string, whatever the hook.
none == "none"

\* The answers apiRequest can give: the data, ApiError 404, any other failure.
Outcome == {"ok", "missing", "failed"}

FreeId(S) == CHOOSE n \in 1..(Cardinality(S) + 1) : \A c \in S : c.id # n

\* The calls S and one more, of this kind and with this argument, whose
\* closure is part of the argument.  `served` says the server has executed it,
\* `reply` what it read then.
Sent(S, kind, arg) ==
  S \union {[id |-> FreeId(S), kind |-> kind, arg |-> arg,
             served |-> FALSE, reply |-> none, live |-> TRUE]}

CanSend(n) == Cardinality(calls) + n <= MaxCalls

Live(kind) == {c \in calls : c.live /\ c.kind = kind}

\* The server executes c and writes down what it answers.
Served(c, reply) ==
  (calls \ {c}) \union {[c EXCEPT !.served = TRUE, !.reply = reply]}

\* What is left of the calls when their page is unmounted: those that change
\* something at the server and have not been executed.
Abandoned(kinds) ==
  {[c EXCEPT !.live = FALSE] : c \in {d \in calls : d.kind \in kinds /\ ~d.served}}
=============================================================================

----------------------------- MODULE OwnerAccount -----------------------------
(***************************************************************************)
(* The rule by which the models of the backend share the account that owns *)
(* the contracts: while one of its transactions waits to be mined the node *)
(* takes no other.                                                         *)
(***************************************************************************)
CONSTANT Ops

VARIABLES
  mempool,    \* operations whose transaction waits to be mined
  effective   \* operations that have taken effect

Init == mempool = {} /\ effective = {}

Send(op) == mempool = {} /\ mempool' = {op} /\ UNCHANGED effective

\* The second transaction of an operation reverts.
Mine == mempool # {} /\ mempool' = {} /\ effective' = effective \union mempool

Next == Mine \/ \E op \in Ops : Send(op)

Spec == Init /\ [][Next]_<<mempool, effective>>
=============================================================================

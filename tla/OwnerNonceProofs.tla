--------------------------- MODULE OwnerNonceProofs ---------------------------
(***************************************************************************)
(* Proofs about OwnerNonce, for any number of callers and operations: the  *)
(* account implements OwnerAccount, the rule the other models share it by, *)
(* and a caller is told the truth.                                         *)
(***************************************************************************)
EXTENDS OwnerNonce, TLAPS

Txs == [op : Ops, nonce : Nat, by : Callers]
Blocks == [op : Ops, ok : BOOLEAN]

TypeOK ==
  /\ mined \in Seq(Blocks)
  /\ pool \subseteq Txs
  /\ call \in [Callers -> [step : Steps, op : Ops \union {none}, nonce : Nat]]

Asked == \A c \in Callers : call[c].step # "idle" => call[c].op \in Ops

\* A nonce that is signed with is the account's, or one of its past.
NoncesAreRead == \A c \in Callers : call[c].step # "idle" => call[c].nonce <= Len(mined)

\* The node holds the account's next transaction or none.
PoolIsNext ==
  /\ \A tx \in pool : tx.nonce = Len(mined)
  /\ \A tx, ty \in pool : tx = ty

\* The transaction a caller waits for is in the pool, or in the place of its
\* nonce on the chain.
AwaitedIsKept ==
  \A c \in Callers : call[c].step = "waiting" =>
    \/ Own(c) \in pool
    \/ call[c].nonce < Len(mined) /\ mined[call[c].nonce + 1].op = call[c].op

IInv ==
  /\ TypeOK /\ Asked /\ NoncesAreRead /\ PoolIsNext
  /\ AwaitedIsKept /\ AnswersAreTruthful

-----------------------------------------------------------------------------

\* What is executed after one more transaction.
LEMMA ExecutedAppend ==
  ASSUME TypeOK, NEW b \in Blocks, mined' = Append(mined, b)
  PROVE  Executed' = Executed \union (IF b.ok THEN {b.op} ELSE {})
<1>1. /\ DOMAIN mined = 1..Len(mined) /\ Len(mined) \in Nat
      /\ mined' \in Seq(Blocks) /\ Len(mined') = Len(mined) + 1
      /\ DOMAIN mined' = 1..(Len(mined) + 1)
      /\ \A i \in 1..Len(mined) : mined'[i] = mined[i]
      /\ mined'[Len(mined) + 1] = b
  BY DEF TypeOK
<1>2. Executed \subseteq Executed'
  BY <1>1 DEF Executed
<1>3. b.ok => b.op \in Executed'
  BY <1>1 DEF Executed
<1>4. ASSUME NEW x \in Executed', x \notin Executed
      PROVE  b.ok /\ x = b.op
  <2>1. PICK i \in DOMAIN mined' : mined'[i].ok /\ x = mined'[i].op
    BY <1>4 DEF Executed
  <2>2. i = Len(mined) + 1
    BY <2>1, <1>1, <1>4 DEF Executed
  <2> QED BY <2>1, <2>2, <1>1
<1> QED BY <1>2, <1>3, <1>4

\* Initially the invariant holds.
LEMMA InitInv == InitAccount => IInv
BY DEF InitAccount, IInv, TypeOK, Asked, NoncesAreRead, PoolIsNext, AwaitedIsKept,
       AnswersAreTruthful, Idle, Steps

\* A step of a caller that leaves chain and pool alone: it asks, reads the
\* nonce of the account, or ends.
LEMMA CallKeepsInv ==
  ASSUME NonceAssumption, IInv, NEW c \in Callers, NEW new,
         new \in [step : Steps \ {"waiting"}, op : Ops \union {none}, nonce : 0..Len(mined)],
         call' = [call EXCEPT ![c] = new], UNCHANGED <<mined, pool>>,
         new.step # "idle" => new.op \in Ops,
         new.step \in {"ok", "known"} => new.op \in Executed
  PROVE  IInv'
<1>1. /\ call' \in [Callers -> [step : Steps, op : Ops \union {none}, nonce : Nat]]
      /\ call'[c] = new
      /\ \A d \in Callers \ {c} : call'[d] = call[d]
  BY DEF IInv, TypeOK
<1>2. Len(mined) \in Nat BY DEF IInv, TypeOK
<1>3. TypeOK' BY <1>1 DEF IInv, TypeOK
<1>4. Asked' BY <1>1 DEF IInv, Asked
<1>5. NoncesAreRead' BY <1>1, <1>2 DEF IInv, NoncesAreRead
<1>6. PoolIsNext' BY DEF IInv, PoolIsNext
<1>7. AwaitedIsKept' BY <1>1 DEF IInv, AwaitedIsKept, Own
<1>8. AnswersAreTruthful' BY <1>1 DEF IInv, AnswersAreTruthful, Executed
<1> QED BY <1>3, <1>4, <1>5, <1>6, <1>7, <1>8 DEF IInv

LEMMA AskInv ==
  ASSUME NonceAssumption, IInv, NEW c \in Callers, NEW op \in Ops, Ask(c, op)
  PROVE  IInv'
<1>1. PICK step \in {"known", "reading"} :
        /\ step = "known" => op \in Executed
        /\ call' = [call EXCEPT ![c] = [step |-> step, op |-> op, nonce |-> 0]]
  BY DEF Ask
<1>2. UNCHANGED <<mined, pool>> /\ 0 \in 0..Len(mined)
  BY DEF Ask, IInv, TypeOK
<1>3. [step |-> step, op |-> op, nonce |-> 0] \in
        [step : Steps \ {"waiting"}, op : Ops \union {none}, nonce : 0..Len(mined)]
  BY <1>2 DEF Steps
<1> QED BY <1>1, <1>2, <1>3, CallKeepsInv

LEMMA ReadNonceInv ==
  ASSUME NonceAssumption, IInv, NEW c \in Callers, ReadNonce(c)
  PROVE  IInv'
<1> DEFINE new == [step |-> "signed", op |-> call[c].op, nonce |-> Len(mined)]
<1>1. /\ call[c].step = "reading"
      /\ call[c] \in [step : Steps, op : Ops \union {none}, nonce : Nat]
      /\ UNCHANGED <<mined, pool>> /\ call[c].op \in Ops
  BY DEF ReadNonce, IInv, TypeOK, Asked
<1>2. call' = [call EXCEPT ![c] = new]
  BY <1>1 DEF ReadNonce, IInv, TypeOK
<1>3. Len(mined) \in 0..Len(mined)
  BY DEF IInv, TypeOK
<1>4. new \in [step : Steps \ {"waiting"}, op : Ops \union {none}, nonce : 0..Len(mined)]
  BY <1>1, <1>3 DEF Steps
<1>5. new.step = "signed" /\ new.op \in Ops
  BY <1>1
<1> HIDE DEF new
<1> QED BY <1>1, <1>2, <1>4, <1>5, CallKeepsInv

LEMMA IdlesInv ==
  ASSUME NonceAssumption, IInv, NEW c \in Callers, Idles(c)
  PROVE  IInv'
<1>1. Idle \in [step : Steps \ {"waiting"}, op : Ops \union {none}, nonce : 0..Len(mined)]
  BY DEF Idle, Steps, IInv, TypeOK
<1>2. Idle.step = "idle"
  BY DEF Idle
<1> QED BY <1>1, <1>2, CallKeepsInv DEF Idles

LEMMA ForgetInv == ASSUME IInv, Forget PROVE IInv'
BY DEF Forget, IInv, TypeOK, Asked, NoncesAreRead, PoolIsNext, AwaitedIsKept,
       AnswersAreTruthful, Idle, Steps

\* A call that ends keeps its operation.
LEMMA EndsInv ==
  ASSUME NonceAssumption, IInv, NEW c \in Callers, NEW step \in {"ok", "failed"},
         call[c].step # "idle", Ends(c, step), UNCHANGED <<mined, pool>>,
         step = "ok" => call[c].op \in Executed
  PROVE  IInv'
<1> DEFINE new == [step |-> step, op |-> call[c].op, nonce |-> 0]
<1>1. /\ call[c] \in [step : Steps, op : Ops \union {none}, nonce : Nat]
      /\ call[c].op \in Ops /\ 0 \in 0..Len(mined)
  BY DEF IInv, TypeOK, Asked
<1>2. call' = [call EXCEPT ![c] = new]
  BY <1>1 DEF Ends, IInv, TypeOK
<1>3. new \in [step : Steps \ {"waiting"}, op : Ops \union {none}, nonce : 0..Len(mined)]
  BY <1>1 DEF Steps
<1>4. new.op \in Ops /\ (new.step \in {"ok", "known"} => new.op \in Executed)
  BY <1>1
<1> HIDE DEF new
<1> QED BY <1>2, <1>3, <1>4, CallKeepsInv

\* A caller is refused, or gives up, or has its receipt.
LEMMA EndInv ==
  ASSUME NonceAssumption, IInv, NEW c \in Callers, Refused(c) \/ Raises(c) \/ Receipt(c)
  PROVE  IInv'
<1>1. call[c].step # "idle" /\ UNCHANGED <<mined, pool>>
  BY DEF Refused, Raises, Receipt, IInv, TypeOK, Own
<1>2. CASE Ends(c, "failed")
  BY <1>1, <1>2, EndsInv
<1>3. CASE Ends(c, "ok") /\ Receipt(c) /\ mined[call[c].nonce + 1].ok
  <2>1. call[c].nonce \in Nat /\ Len(mined) > call[c].nonce /\ call[c].step = "waiting"
    BY <1>3 DEF Receipt, IInv, TypeOK
  <2>2. Own(c) \notin pool
    BY <2>1 DEF IInv, PoolIsNext, Own
  <2>3. mined[call[c].nonce + 1].op = call[c].op
    BY <2>1, <2>2 DEF IInv, AwaitedIsKept
  <2>4. call[c].nonce + 1 \in DOMAIN mined
    BY <2>1 DEF IInv, TypeOK
  <2>5. call[c].op \in Executed
    BY <1>3, <2>3, <2>4 DEF Executed
  <2> QED BY <1>1, <1>3, <2>5, EndsInv
<1> QED BY <1>2, <1>3 DEF Refused, Raises, Receipt

LEMMA SendRawInv ==
  ASSUME NonceAssumption, IInv, NEW c \in Callers, SendRaw(c)
  PROVE  pool = {} /\ Own(c) \in Txs /\ IInv'
<1>1. /\ call[c].step = "signed" /\ call[c] \in [step : Steps, op : Ops \union {none}, nonce : Nat]
      /\ call[c].op \in Ops /\ call[c].nonce <= Len(mined) /\ Len(mined) \in Nat
  BY DEF SendRaw, IInv, TypeOK, Asked, NoncesAreRead
<1>2. call[c].nonce = Len(mined) /\ pool = {}
  BY <1>1 DEF SendRaw, Taken, IInv, PoolIsNext
<1>3. Own(c) \in Txs /\ Own(c).nonce = Len(mined)
  BY <1>1, <1>2 DEF Own, Txs
<1>4. pool' = {Own(c)} /\ mined' = mined
  BY <1>2 DEF SendRaw
<1>5. /\ call' \in [Callers -> [step : Steps, op : Ops \union {none}, nonce : Nat]]
      /\ call'[c].step = "waiting" /\ call'[c].op = call[c].op /\ call'[c].nonce = call[c].nonce
      /\ \A d \in Callers \ {c} : call'[d] = call[d]
  BY <1>1 DEF SendRaw, IInv, TypeOK, Steps
<1>6. TypeOK' BY <1>3, <1>4, <1>5 DEF IInv, TypeOK
<1>7. Asked' BY <1>1, <1>5 DEF IInv, Asked
<1>8. NoncesAreRead' BY <1>1, <1>4, <1>5 DEF IInv, NoncesAreRead
<1>9. PoolIsNext' BY <1>3, <1>4 DEF PoolIsNext
<1>10. AwaitedIsKept'
  BY <1>2, <1>4, <1>5 DEF IInv, AwaitedIsKept, Own
<1>11. AnswersAreTruthful' BY <1>4, <1>5 DEF IInv, AnswersAreTruthful, Executed
<1> QED BY <1>2, <1>3, <1>6, <1>7, <1>8, <1>9, <1>10, <1>11 DEF IInv

LEMMA MineInv ==
  ASSUME NonceAssumption, IInv, NEW tx \in pool, Mine(tx)
  PROVE  /\ pool = {tx} /\ pool' = {}
         /\ Executed' = Executed \union {tx.op}
         /\ IInv'
<1> DEFINE b == [op |-> tx.op, ok |-> tx.op \notin Executed]
<1>1. /\ tx \in Txs /\ tx.nonce = Len(mined) /\ Len(mined) \in Nat
      /\ mined' = Append(mined, b) /\ call' = call
  BY DEF IInv, TypeOK, Mine
<1>2. pool = {tx} /\ pool' = {}
  BY DEF IInv, PoolIsNext, Mine
<1>3. b \in Blocks
  BY <1>1 DEF Blocks, Txs
<1>4. /\ b.op = tx.op /\ b.ok = (tx.op \notin Executed)
      /\ mined' \in Seq(Blocks) /\ Len(mined') = Len(mined) + 1
      /\ mined'[Len(mined) + 1] = b
      /\ \A i \in 1..Len(mined) : mined'[i] = mined[i]
  BY <1>1, <1>3 DEF IInv, TypeOK
<1> HIDE DEF b
<1>5. Executed' = Executed \union {tx.op}
  <2>1. Executed' = Executed \union (IF b.ok THEN {b.op} ELSE {})
    BY <1>1, <1>3, ExecutedAppend DEF IInv
  <2> QED BY <2>1, <1>4
<1>6. TypeOK' BY <1>1, <1>2, <1>4 DEF IInv, TypeOK
<1>7. Asked' BY <1>1 DEF IInv, Asked
<1>8. NoncesAreRead' BY <1>1, <1>4 DEF IInv, NoncesAreRead, TypeOK
<1>9. PoolIsNext' BY <1>2 DEF PoolIsNext
<1>10. AwaitedIsKept'
  <2> SUFFICES ASSUME NEW c \in Callers, call[c].step = "waiting"
               PROVE  /\ call[c].nonce < Len(mined) + 1
                      /\ mined'[call[c].nonce + 1].op = call[c].op
    BY <1>1, <1>4 DEF AwaitedIsKept
  <2>1. call[c].nonce \in Nat BY DEF IInv, TypeOK
  <2>2. CASE Own(c) \in pool
    <3>1. Own(c) = tx BY <1>2, <2>2
    <3>2. call[c].nonce = Len(mined) /\ call[c].op = tx.op BY <1>1, <3>1 DEF Own
    <3> QED BY <3>2, <1>1, <1>4
  <2>3. CASE call[c].nonce < Len(mined) /\ mined[call[c].nonce + 1].op = call[c].op
    BY <2>1, <2>3, <1>1, <1>4
  <2> QED BY <2>2, <2>3 DEF IInv, AwaitedIsKept
<1>11. AnswersAreTruthful' BY <1>1, <1>5 DEF IInv, AnswersAreTruthful
<1> QED BY <1>2, <1>5, <1>6, <1>7, <1>8, <1>9, <1>10, <1>11 DEF IInv

LEMMA NextInv == ASSUME NonceAssumption, IInv, [NextAccount]_accountVars PROVE IInv'
<1>1. ASSUME NEW tx \in pool, Mine(tx) PROVE IInv' BY <1>1, MineInv
<1>2. CASE Forget BY <1>2, ForgetInv
<1>3. ASSUME NEW c \in Callers, Sending(c) PROVE IInv'
  BY <1>3, ReadNonceInv, SendRawInv, EndInv DEF Sending
<1>4. ASSUME NEW c \in Callers, Idles(c) PROVE IInv' BY <1>4, IdlesInv
<1>5. ASSUME NEW c \in Callers, NEW op \in Ops, Ask(c, op) PROVE IInv' BY <1>5, AskInv
<1>6. CASE UNCHANGED accountVars
  BY <1>6 DEF accountVars, IInv, TypeOK, Asked, NoncesAreRead, PoolIsNext, AwaitedIsKept,
              AnswersAreTruthful, Own, Executed
<1> QED BY <1>1, <1>2, <1>3, <1>4, <1>5, <1>6 DEF NextAccount, Mining

-----------------------------------------------------------------------------

\* Code behaviour: _send_tx in the five clients.  For any callers, the node
\* holds at most the account's next transaction, and one who waits waits for it
\* or for one that is mined.
THEOREM AccountInvariant == SpecAccount => []IInv
BY InitInv, NextInv, NonceAssumption, PTL DEF SpecAccount

\* Code behaviour: the calls of _send_tx and the answers of the node.  The
\* variables of the account and of its callers keep their types.
THEOREM TypeCorrectness == SpecAccount => []TypeOK
<1>1. IInv => TypeOK BY DEF IInv
<1> QED BY <1>1, AccountInvariant, PTL

\* Code behaviour: the view before the transaction and the receipt after it.
\* Whoever is told that an operation is done, or was, has it executed.
THEOREM AnswersAreTrue == SpecAccount => []AnswersAreTruthful
<1>1. IInv => AnswersAreTruthful BY DEF IInv
<1> QED BY <1>1, AccountInvariant, PTL

\* A step of the account is one of OwnerAccount, or none.
LEMMA StepIsOwners ==
  ASSUME NonceAssumption, IInv, [NextAccount]_accountVars
  PROVE  [TheAccount!Next]_<<{tx.op : tx \in pool}, Executed>>
<1>1. CASE UNCHANGED <<mined, pool>>
  BY <1>1 DEF Executed
<1>2. ASSUME NEW tx \in pool, Mine(tx) PROVE TheAccount!Mine
  BY <1>2, MineInv DEF TheAccount!Mine
<1>3. ASSUME NEW c \in Callers, SendRaw(c)
      PROVE  \E op \in Ops : TheAccount!Send(op)
  <2>1. pool = {} /\ pool' = {Own(c)} /\ Own(c).op \in Ops /\ Executed' = Executed
    BY <1>3, SendRawInv DEF SendRaw, Txs, Executed
  <2> QED BY <2>1 DEF TheAccount!Send
<1> QED
  BY <1>1, <1>2, <1>3 DEF NextAccount, Mining, Forget, Sending, Idles, Ask, ReadNonce, Refused,
                          Receipt, Raises, accountVars, TheAccount!Next

\* Code behaviour: get_transaction_count before every transaction.  For any
\* callers and operations, transactions of the owner are in the pool one at a
\* time, and take effect from there: the rule CredentialLifecycle, DidLifecycle
\* and CredentialTypes share the account by.
THEOREM AccountIsShared == SpecAccount => ImplementsAccount
<1>1. InitAccount => TheAccount!Init
  BY DEF InitAccount, TheAccount!Init, Executed
<1> QED
  BY <1>1, StepIsOwners, AccountInvariant, NonceAssumption, PTL
  DEF SpecAccount, ImplementsAccount, TheAccount!Spec
=============================================================================

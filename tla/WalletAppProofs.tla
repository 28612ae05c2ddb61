--------------------------- MODULE WalletAppProofs ---------------------------
(***************************************************************************)
(* Theorems about the pages of WalletApp, for every set of accounts, DIDs, *)
(* templates and credentials and any number of calls under way: what each  *)
(* page says is so, and what it shows as under way is awaited.             *)
(*                                                                         *)
(* One page is mounted at a time, so that each page has an inductive       *)
(* invariant of its own, which says nothing while another page is there.   *)
(* What they share comes first: how the calls change.                      *)
(***************************************************************************)
EXTENDS WalletApp, FiniteSetTheorems, TLAPS

\* A string, which is not any other.
USE DEF none

-----------------------------------------------------------------------------
(* Calls *)

IsCall(c) ==
  /\ c = [id |-> c.id, kind |-> c.kind, arg |-> c.arg,
          served |-> c.served, reply |-> c.reply, live |-> c.live]
  /\ c.served \in BOOLEAN /\ c.live \in BOOLEAN
  /\ ~c.live => c.kind \in Effects /\ ~c.served

\* What a page has left behind changes something at the API, which has not
\* executed it yet.
AreCalls(S) == \A c \in S : IsCall(c)
CallsOK == AreCalls(calls)

\* The call that is sent, and what becomes of a call when it is executed.
NewCall(S, kind, arg) ==
  [id |-> FreeId(S), kind |-> kind, arg |-> arg,
   served |-> FALSE, reply |-> none, live |-> TRUE]
Replied(c, r) == [c EXCEPT !.served = TRUE, !.reply = r]

LEMMA NewCallIs ==
  ASSUME NEW S, NEW kind, NEW arg
  PROVE  IsCall(NewCall(S, kind, arg))
  BY DEF NewCall, IsCall

LEMMA SentCalls ==
  ASSUME NEW S, NEW kind, NEW arg
  PROVE  Sent(S, kind, arg) = S \union {NewCall(S, kind, arg)}
  BY DEF Sent, NewCall

LEMMA RepliedIs ==
  ASSUME NEW c, IsCall(c), c.live = TRUE, NEW r
  PROVE  /\ IsCall(Replied(c, r))
         /\ Replied(c, r).live = TRUE /\ Replied(c, r).served = TRUE
         /\ Replied(c, r).reply = r
         /\ Replied(c, r).kind = c.kind /\ Replied(c, r).arg = c.arg
  <1>1. PICK d : d = Replied(c, r)
    OBVIOUS
  <1>2. d = [id |-> c.id, kind |-> c.kind, arg |-> c.arg,
             served |-> TRUE, reply |-> r, live |-> c.live]
    BY <1>1 DEF Replied, IsCall
  <1>3. /\ IsCall(d) /\ d.live = TRUE /\ d.served = TRUE /\ d.reply = r
        /\ d.kind = c.kind /\ d.arg = c.arg
    BY <1>2 DEF IsCall
  <1>4. QED
    BY <1>1, <1>3

LEMMA ServedCalls ==
  ASSUME NEW c, NEW r
  PROVE  Served(c, r) = (calls \ {c}) \union {Replied(c, r)}
  BY DEF Served, Replied

LEMMA LeftCalls ==
  ASSUME CallsOK, NEW e \in Left
  PROVE  /\ IsCall(e) /\ e.live = FALSE /\ e.served = FALSE /\ e.kind \in Effects
         /\ \E d \in calls : d.kind = e.kind /\ d.arg = e.arg /\ ~d.served
  <1>1. PICK d \in calls : d.kind \in Effects /\ ~d.served /\ e = [d EXCEPT !.live = FALSE]
    BY DEF Left, Abandoned
  <1>2. IsCall(d)
    BY DEF CallsOK, AreCalls
  <1>3. e = [id |-> d.id, kind |-> d.kind, arg |-> d.arg,
             served |-> FALSE, reply |-> d.reply, live |-> FALSE]
    BY <1>1, <1>2 DEF IsCall
  <1>4. /\ e.id = d.id /\ e.kind = d.kind /\ e.arg = d.arg /\ e.reply = d.reply
        /\ e.served = FALSE /\ e.live = FALSE
    BY <1>3
  <1>5. QED
    BY <1>1, <1>3, <1>4 DEF IsCall

LEMMA SentOK ==
  ASSUME NEW S, AreCalls(S), NEW kind, NEW arg
  PROVE  AreCalls(Sent(S, kind, arg))
  <1>1. IsCall(NewCall(S, kind, arg))
    BY NewCallIs
  <1>2. Sent(S, kind, arg) = S \union {NewCall(S, kind, arg)}
    BY SentCalls
  <1>3. QED
    BY <1>1, <1>2 DEF AreCalls

LEMMA DroppedOK ==
  ASSUME NEW S, AreCalls(S), NEW c
  PROVE  AreCalls(S \ {c})
  BY DEF AreCalls

LEMMA ServedOK ==
  ASSUME CallsOK, NEW c \in calls, c.live, NEW r
  PROVE  AreCalls(Served(c, r))
  <1>1. IsCall(c)
    BY DEF CallsOK, AreCalls
  <1>2. QED
    BY <1>1, ServedCalls, RepliedIs DEF CallsOK, AreCalls

LEMMA LeftOK ==
  ASSUME CallsOK
  PROVE  AreCalls(Left)
  BY LeftCalls DEF AreCalls

\* What the API does to the calls: one that changes something has been executed,
\* and is forgotten if its page is gone.
Executed(c) ==
  \/ ~c.live /\ calls' = calls \ {c}
  \/ c.live /\ \E d : /\ calls' = (calls \ {c}) \union {d}
                      /\ IsCall(d) /\ d.live = TRUE /\ d.served = TRUE
                      /\ d.kind = c.kind /\ d.arg = c.arg

LEMMA Serving ==
  ASSUME CallsOK, Serve
  PROVE  /\ at' = at /\ page' = page /\ ledger' = ledger
         /\ \E c \in calls : c.kind \in Effects /\ ~c.served /\ Executed(c)
  <1>1. at' = at /\ page' = page /\ ledger' = ledger
    BY DEF Serve, IssueServe, RevokeServe, ActServe, RegisterServe
  <1>2. PICK c \in calls : /\ c.kind \in Effects /\ ~c.served
                           /\ \E r : calls' = IF c.live THEN Served(c, r) ELSE calls \ {c}
    <2>1. PICK c \in calls : \/ IssueServe(c) \/ RevokeServe(c)
                             \/ ActServe(c) \/ RegisterServe(c)
      BY DEF Serve
    <2>2. c.kind \in Effects /\ ~c.served
      BY <2>1 DEF IssueServe, RevokeServe, ActServe, RegisterServe, Pending, Effects
    <2>3. CASE IssueServe(c)
      BY <2>2, <2>3 DEF IssueServe
    <2>4. CASE RevokeServe(c)
      BY <2>2, <2>4 DEF RevokeServe
    <2>5. CASE ActServe(c)
      BY <2>2, <2>5 DEF ActServe
    <2>6. CASE RegisterServe(c)
      BY <2>2, <2>6 DEF RegisterServe
    <2>7. QED
      BY <2>1, <2>3, <2>4, <2>5, <2>6
  <1>3. IsCall(c)
    BY DEF CallsOK, AreCalls
  <1>4. CASE c.live
    <2>1. PICK r : calls' = Served(c, r)
      BY <1>2, <1>4
    <2>2. PICK d : d = Replied(c, r)
      OBVIOUS
    <2>3. calls' = (calls \ {c}) \union {d}
      BY <2>1, <2>2, ServedCalls
    <2>4. /\ IsCall(d) /\ d.live = TRUE /\ d.served = TRUE
          /\ d.kind = c.kind /\ d.arg = c.arg
      BY <1>3, <1>4, <2>2, RepliedIs
    <2>5. QED
      BY <1>1, <1>2, <1>4, <2>3, <2>4 DEF Executed
  <1>5. CASE ~c.live
    BY <1>1, <1>2, <1>5 DEF Executed
  <1>6. QED
    BY <1>4, <1>5

LEMMA ServingOK ==
  ASSUME CallsOK, Serve
  PROVE  CallsOK'
  BY Serving DEF CallsOK, AreCalls, Executed

\* Nothing else changes hands at the API by itself.
LEMMA ServingKeeps ==
  ASSUME CallsOK, Serve, NEW k, k \notin Effects
  PROVE  Live(k)' = Live(k)
  BY Serving DEF Executed, Live

\* What was left behind is awaited by nobody.
LEMMA LeftNotLive ==
  ASSUME CallsOK, NEW k
  PROVE  {c \in Left : c.live /\ c.kind = k} = {}
  BY LeftCalls

\* The calls of one kind after another has been sent, handled or executed.
LEMMA LiveSent ==
  ASSUME NEW kind, NEW arg, calls' = Sent(calls, kind, arg)
  PROVE  Live(kind)' = Live(kind) \union {NewCall(calls, kind, arg)}
  <1>1. calls' = calls \union {NewCall(calls, kind, arg)}
    BY SentCalls
  <1>2. /\ NewCall(calls, kind, arg).live = TRUE
        /\ NewCall(calls, kind, arg).kind = kind
    BY DEF NewCall
  <1>3. QED
    BY <1>1, <1>2 DEF Live

LEMMA LiveOther ==
  ASSUME NEW kind, NEW arg, calls' = Sent(calls, kind, arg), NEW k, k # kind
  PROVE  Live(k)' = Live(k)
  <1>1. calls' = calls \union {NewCall(calls, kind, arg)}
    BY SentCalls
  <1>2. NewCall(calls, kind, arg).kind = kind
    BY DEF NewCall
  <1>3. QED
    BY <1>1, <1>2 DEF Live

LEMMA LiveDropped ==
  ASSUME NEW c, calls' = calls \ {c}, NEW k
  PROVE  Live(k)' = Live(k) \ {c}
  BY DEF Live

\* The same for a call sent when an answer is handled, or when a page is mounted.
LEMMA LiveNext ==
  ASSUME NEW c, NEW kind, NEW arg, calls' = Sent(calls \ {c}, kind, arg)
  PROVE  Live(kind)' = (Live(kind) \ {c}) \union {NewCall(calls \ {c}, kind, arg)}
  <1>1. calls' = (calls \ {c}) \union {NewCall(calls \ {c}, kind, arg)}
    BY SentCalls
  <1>2. /\ NewCall(calls \ {c}, kind, arg).live = TRUE
        /\ NewCall(calls \ {c}, kind, arg).kind = kind
    BY DEF NewCall
  <1>3. QED
    BY <1>1, <1>2 DEF Live

LEMMA LiveNextOther ==
  ASSUME NEW c, NEW kind, NEW arg, calls' = Sent(calls \ {c}, kind, arg), NEW k, k # kind
  PROVE  Live(k)' = Live(k) \ {c}
  <1>1. calls' = (calls \ {c}) \union {NewCall(calls \ {c}, kind, arg)}
    BY SentCalls
  <1>2. NewCall(calls \ {c}, kind, arg).kind = kind
    BY DEF NewCall
  <1>3. QED
    BY <1>1, <1>2 DEF Live

LEMMA LiveFirst ==
  ASSUME CallsOK, NEW kind, NEW arg, calls' = Sent(Left, kind, arg)
  PROVE  Live(kind)' = {NewCall(Left, kind, arg)}
  <1>1. calls' = Left \union {NewCall(Left, kind, arg)}
    BY SentCalls
  <1>2. /\ NewCall(Left, kind, arg).live = TRUE
        /\ NewCall(Left, kind, arg).kind = kind
    BY DEF NewCall
  <1>3. QED
    BY <1>1, <1>2, LeftNotLive DEF Live

LEMMA LiveFirstOther ==
  ASSUME CallsOK, NEW kind, NEW arg, calls' = Sent(Left, kind, arg), NEW k, k # kind
  PROVE  Live(k)' = {}
  <1>1. calls' = Left \union {NewCall(Left, kind, arg)}
    BY SentCalls
  <1>2. NewCall(Left, kind, arg).kind = kind
    BY DEF NewCall
  <1>3. QED
    BY <1>1, <1>2, LeftNotLive DEF Live

LEMMA LiveNone ==
  ASSUME CallsOK, calls' = Left, NEW k
  PROVE  Live(k)' = {}
  BY LeftNotLive DEF Live

LEMMA LiveServed ==
  ASSUME CallsOK, NEW kind, NEW c \in Live(kind), NEW r, calls' = Served(c, r)
  PROVE  Live(kind)' = (Live(kind) \ {c}) \union {Replied(c, r)}
  <1>1. IsCall(c) /\ c.live /\ c.kind = kind
    BY DEF Live, CallsOK, AreCalls
  <1>2. c.live = TRUE
    BY <1>1 DEF IsCall
  <1>3. /\ Replied(c, r).live = TRUE /\ Replied(c, r).served = TRUE
        /\ Replied(c, r).reply = r
        /\ Replied(c, r).kind = c.kind /\ Replied(c, r).arg = c.arg
    BY <1>1, <1>2, RepliedIs
  <1>4. calls' = (calls \ {c}) \union {Replied(c, r)}
    BY ServedCalls
  <1>5. QED
    BY <1>1, <1>3, <1>4 DEF Live

\* What the reply carries.
LEMMA LiveReplied ==
  ASSUME CallsOK, NEW kind, NEW c \in Live(kind), NEW r
  PROVE  /\ Replied(c, r).arg = c.arg /\ Replied(c, r).served = TRUE
         /\ Replied(c, r).reply = r
  <1>1. IsCall(c) /\ c.live
    BY DEF Live, CallsOK, AreCalls
  <1>2. c.live = TRUE
    BY <1>1 DEF IsCall
  <1>3. QED
    BY <1>1, <1>2, RepliedIs

LEMMA LiveServedOther ==
  ASSUME CallsOK, NEW kind, NEW c \in Live(kind), NEW r, calls' = Served(c, r),
         NEW k, k # kind
  PROVE  Live(k)' = Live(k)
  <1>1. IsCall(c) /\ c.live /\ c.kind = kind
    BY DEF Live, CallsOK, AreCalls
  <1>2. c.live = TRUE
    BY <1>1 DEF IsCall
  <1>3. Replied(c, r).kind = c.kind
    BY <1>1, <1>2, RepliedIs
  <1>4. calls' = (calls \ {c}) \union {Replied(c, r)}
    BY ServedCalls
  <1>5. QED
    BY <1>1, <1>3, <1>4 DEF Live

-----------------------------------------------------------------------------
(* The calls are well formed, and what is left behind can still be executed *)

LEMMA IssueCallsOK ==
  ASSUME CallsOK, IssueInput \/ IssueAnswers
  PROVE  CallsOK'
  <1>1. ASSUME NEW kind, NEW arg, calls' = Sent(calls, kind, arg)
        PROVE  CallsOK'
    BY <1>1, SentOK DEF CallsOK
  <1>2. ASSUME NEW c, calls' = calls \ {c}
        PROVE  CallsOK'
    BY <1>2, DroppedOK DEF CallsOK
  <1>3. CASE UNCHANGED calls
    BY <1>3 DEF CallsOK
  <1>4. CASE IssueInput
    BY <1>1, <1>3, <1>4 DEF IssueInput, EditDid, EditField, ChooseType, ChooseAttachment,
                            ChooseFile, BlurDid, Submit, IssueAnother, Edited
  <1>5. CASE IssueAnswers
    <2>1. ASSUME NEW c, NEW outcome, SubmitAnswer(c, outcome)
          PROVE  CallsOK'
      <3>1. AreCalls(calls \ {c})
        BY DroppedOK DEF CallsOK
      <3>2. CASE outcome = "ok"
        BY <2>1, <3>1, <3>2, SentOK DEF SubmitAnswer, CallsOK
      <3>3. CASE outcome # "ok"
        BY <2>1, <3>1, <3>3 DEF SubmitAnswer, CallsOK
      <3>4. QED
        BY <3>2, <3>3
    <2>2. QED
      BY <1>2, <1>5, <2>1 DEF IssueAnswers, TypesAnswer, HolderAnswer, IssueAnswer
  <1>6. QED
    BY <1>4, <1>5

LEMMA CredentialsCallsOK ==
  ASSUME CallsOK, CredentialsInput \/ CredentialsAnswers
  PROVE  CallsOK'
  <1>1. ASSUME NEW kind, NEW arg, calls' = Sent(calls, kind, arg)
        PROVE  CallsOK'
    BY <1>1, SentOK DEF CallsOK
  <1>2. CASE UNCHANGED calls
    BY <1>2 DEF CallsOK
  <1>3. CASE CredentialsInput
    BY <1>1, <1>2, <1>3 DEF CredentialsInput, CredsTypeUsername, CredsTurnPage,
         CredsRevokeRequest, CredsLookup, CredsTryAgain, CredsRevokeCancel,
         CredsRevokeConfirm, CredsDismiss, Asking
  <1>4. ASSUME NEW c \in calls, ListServe(c)
        PROVE  CallsOK'
    BY <1>4, ServedOK DEF ListServe, Live, CallsOK
  <1>5. ASSUME NEW c, NEW outcome, ListAnswer(c, outcome) \/ RevokeAnswer(c, outcome)
        PROVE  CallsOK'
    <2>1. AreCalls(calls \ {c})
      BY DroppedOK DEF CallsOK
    <2>2. CASE ListAnswer(c, outcome)
      BY <2>1, <2>2 DEF ListAnswer, CallsOK
    <2>3. CASE RevokeAnswer(c, outcome)
      BY <2>1, <2>3, SentOK DEF RevokeAnswer, Asking, CallsOK
    <2>4. QED
      BY <1>5, <2>2, <2>3
  <1>6. QED
    BY <1>3, <1>4, <1>5 DEF CredentialsAnswers

LEMMA HoldingsCallsOK ==
  ASSUME CallsOK, HoldingsInput \/ HoldingsAnswers
  PROVE  CallsOK'
  <1>1. CASE HoldingsInput
    <2>1. ASSUME NEW kind, NEW arg, calls' = Sent(calls, kind, arg)
          PROVE  CallsOK'
      BY <2>1, SentOK DEF CallsOK
    <2>2. QED
      BY <1>1, <2>1 DEF HoldingsInput, HoldRefresh, HoldTryAgain, HoldTurnPage, HoldCheck,
                        Fetching
  <1>2. ASSUME NEW c \in calls, HoldServe(c)
        PROVE  CallsOK'
    BY <1>2, ServedOK DEF HoldServe, Live, CallsOK
  <1>3. ASSUME NEW c, NEW outcome, \/ HoldAnswer(c, outcome) \/ RegistryAnswer(c, outcome)
                                   \/ SbtAnswer(c, outcome)
        PROVE  CallsOK'
    <2>1. AreCalls(calls \ {c})
      BY DroppedOK DEF CallsOK
    <2>2. CASE HoldAnswer(c, outcome) \/ SbtAnswer(c, outcome)
      BY <2>1, <2>2 DEF HoldAnswer, SbtAnswer, CallsOK
    <2>3. CASE RegistryAnswer(c, outcome)
      BY <2>1, <2>3, SentOK DEF RegistryAnswer, CallsOK
    <2>4. QED
      BY <1>3, <2>2, <2>3
  <1>4. QED
    BY <1>1, <1>2, <1>3 DEF HoldingsAnswers

LEMMA DidCallsOK ==
  ASSUME CallsOK, DidInput \/ DidAnswers
  PROVE  CallsOK'
  <1>1. CASE DidInput
    <2>1. CASE UNCHANGED calls
      BY <2>1 DEF CallsOK
    <2>2. ASSUME NEW arg, calls' = Sent(calls, "resolve", arg)
          PROVE  CallsOK'
      BY <2>2, SentOK DEF CallsOK
    <2>3. QED
      BY <1>1, <2>1, <2>2 DEF DidInput, DidType, DidResolve, DidRetry, DidRefresh
  <1>2. ASSUME NEW c, NEW outcome, ResolveAnswer(c, outcome) \/ StatusAnswer(c, outcome)
        PROVE  CallsOK'
    <2>1. AreCalls(calls \ {c})
      BY DroppedOK DEF CallsOK
    <2>2. QED
      BY <1>2, <2>1, SentOK DEF ResolveAnswer, StatusAnswer, CallsOK
  <1>3. QED
    BY <1>1, <1>2 DEF DidAnswers

LEMMA VerifyCallsOK ==
  ASSUME CallsOK, VerifyInput \/ VerifyAnswers
  PROVE  CallsOK'
  <1>1. ASSUME NEW kind, NEW arg, calls' = Sent(calls, kind, arg)
        PROVE  CallsOK'
    BY <1>1, SentOK DEF CallsOK
  <1>2. ASSUME NEW c, calls' = calls \ {c}
        PROVE  CallsOK'
    BY <1>2, DroppedOK DEF CallsOK
  <1>3. CASE UNCHANGED calls
    BY <1>3 DEF CallsOK
  <1>4. CASE VerifyInput
    BY <1>1, <1>3, <1>4 DEF VerifyInput, VerifyEdit, VerifyDrop, VerifySubmit, VerifyAgain,
                            VerifyReset, Verifying
  <1>5. CASE VerifyAnswers
    BY <1>2, <1>5 DEF VerifyAnswers, VerifyAnswer, ReadAnswer
  <1>6. QED
    BY <1>4, <1>5

LEMMA RegisterCallsOK ==
  ASSUME CallsOK, RegisterInput \/ RegisterAnswers
  PROVE  CallsOK'
  <1>1. CASE UNCHANGED calls
    BY <1>1 DEF CallsOK
  <1>2. ASSUME NEW arg, calls' = Sent(calls, "register", arg)
        PROVE  CallsOK'
    BY <1>2, SentOK DEF CallsOK
  <1>3. CASE RegisterInput
    BY <1>1, <1>2, <1>3 DEF RegisterInput, RegName, RegRole, RegSubmit, RegReset
  <1>4. CASE RegisterAnswers
    <2>1. ASSUME NEW c, calls' = calls \ {c}
          PROVE  CallsOK'
      BY <2>1, DroppedOK DEF CallsOK
    <2>2. QED
      BY <1>4, <2>1 DEF RegisterAnswers, RegisterAnswer
  <1>5. QED
    BY <1>3, <1>4

\* Fetching a list or details, and the effect, keep the calls well formed.
LEMMA FetchOK ==
  ASSUME NEW S, AreCalls(S), NEW p
  PROVE  /\ \A n, f, after : AreCalls(FetchList(p, S, n, f, after).S)
         /\ \A i, last : AreCalls(FetchDetail(p, S, i, last).S)
         /\ AreCalls(Effect(p, S).S)
  <1>1. \A n, f, after : AreCalls(FetchList(p, S, n, f, after).S)
    BY SentOK DEF FetchList
  <1>2. \A i, last : AreCalls(FetchDetail(p, S, i, last).S)
    BY SentOK DEF FetchDetail
  <1>3. AreCalls(Effect(p, S).S)
    BY <1>1 DEF Effect
  <1>4. QED
    BY <1>1, <1>2, <1>3

LEMMA AccountsCallsOK ==
  ASSUME CallsOK, AccountsInput \/ AccountsAnswers
  PROVE  CallsOK'
  <1>1. CASE AccountsInput
    <2>1. ASSUME NEW kind, NEW arg, calls' = Sent(calls, kind, arg)
          PROVE  CallsOK'
      BY <2>1, SentOK DEF CallsOK
    <2>2. CASE UNCHANGED calls
      BY <2>2 DEF CallsOK
    <2>3. ASSUME NEW p, calls' = Effect(p, calls).S
          PROVE  CallsOK'
      BY <2>3, FetchOK DEF CallsOK
    <2>4. ASSUME NEW p, NEW i, calls' = FetchDetail(p, calls, i, FALSE).S
          PROVE  CallsOK'
      BY <2>4, FetchOK DEF CallsOK
    <2>5. QED
      BY <1>1, <2>1, <2>2, <2>3, <2>4
      DEF AccountsInput, AccType, AccApply, AccTurn, AccSelect, AccClose, AccAuthorize,
          AccRevoke, AccDeleteAsk, AccDeleteCancel, AccDeleteConfirm, Acting, Take
  <1>2. ASSUME NEW c \in calls, AccountsServe(c) \/ DetailServe(c)
        PROVE  CallsOK'
    BY <1>2, ServedOK DEF AccountsServe, DetailServe, Live, CallsOK
  <1>3. ASSUME NEW c, AreCalls(calls \ {c}), NEW outcome,
               \/ AccountsAnswer(c, outcome) \/ DetailAnswer(c, outcome)
               \/ ActAnswer(c, outcome)
        PROVE  CallsOK'
    <2>1. ASSUME NEW p PROVE AreCalls(Effect(p, calls \ {c}).S)
      BY <1>3, FetchOK
    <2>2. ASSUME NEW p, NEW n, NEW f, NEW after
          PROVE  AreCalls(FetchList(p, calls \ {c}, n, f, after).S)
      BY <1>3, FetchOK
    <2>3. ASSUME NEW p, NEW q, NEW i
          PROVE  AreCalls(FetchDetail(q, Effect(p, calls \ {c}).S, i, TRUE).S)
      BY <2>1, FetchOK
    <2>4. CASE AccountsAnswer(c, outcome)
      BY <2>1, <2>3, <2>4 DEF AccountsAnswer, Take, CallsOK
    <2>5. CASE DetailAnswer(c, outcome)
      BY <1>3, <2>5 DEF DetailAnswer, CallsOK
    <2>6. CASE ActAnswer(c, outcome)
      BY <1>3, <2>2, <2>6 DEF ActAnswer, Take, CallsOK
    <2>7. QED
      BY <1>3, <2>4, <2>5, <2>6
  <1>4. QED
    BY <1>1, <1>2, <1>3, DroppedOK DEF AccountsAnswers, CallsOK

LEMMA MountsCallsOK ==
  ASSUME CallsOK, Navigate
  PROVE  CallsOK'
  <1>1. AreCalls(Left)
    BY LeftOK
  <1>2. ASSUME NEW prefill, IssueMount(Left, prefill)
        PROVE  CallsOK'
    <2>1. AreCalls(Sent(Left, "types", [key |-> none]))
      BY <1>1, SentOK
    <2>2. AreCalls(Sent(Sent(Left, "types", [key |-> none]), "holder", [key |-> prefill]))
      BY <2>1, SentOK
    <2>3. QED
      BY <1>2, <2>1, <2>2 DEF IssueMount, CallsOK
  <1>3. ASSUME NEW prefill, CredentialsMount(Left, prefill)
        PROVE  CallsOK'
    BY <1>1, <1>3, SentOK DEF CredentialsMount, Asking, CallsOK
  <1>4. ASSUME NEW view, DidMount(Left, view)
        PROVE  CallsOK'
    BY <1>1, <1>4, SentOK DEF DidMount, CallsOK
  <1>5. CASE HoldingsMount(Left)
    BY <1>1, <1>5, SentOK DEF HoldingsMount, CallsOK
  <1>6. CASE VerifyMount(Left) \/ RegisterMount(Left)
    BY <1>1, <1>6 DEF VerifyMount, RegisterMount, CallsOK
  <1>7. ASSUME NEW prefill, AccountsMount(Left, prefill)
        PROVE  CallsOK'
    <2> DEFINE first == FetchList(AccountsBlank, Left, 1, none, none)
               named == [first.p EXCEPT !.search = prefill.f, !.applied = prefill.f,
                                        !.selected = prefill.id]
               both == FetchDetail(named, first.S, prefill.id, FALSE)
    <2>1. AreCalls(first.S)
      BY <1>1, FetchOK
    <2> HIDE DEF first
    <2>2. AreCalls(both.S)
      BY <2>1, FetchOK
    <2> HIDE DEF named
    <2>3. ASSUME NEW p PROVE AreCalls(FetchList(p, both.S, 1, prefill.f, none).S)
      <3> HIDE DEF both
      <3>1. QED
        BY <2>2, FetchOK
    <2>4. \/ calls' = first.S \/ calls' = both.S
          \/ calls' = FetchList(both.p, both.S, 1, prefill.f, none).S
      <3> HIDE DEF both
      <3> USE DEF named, first, both
      <3>1. QED
        BY <1>7, Zenon DEF AccountsMount, Take
    <2> HIDE DEF both
    <2>5. QED
      BY <2>1, <2>2, <2>3, <2>4 DEF CallsOK
  <1>8. QED
    BY <1>2, <1>3, <1>4, <1>5, <1>6, <1>7
    DEF Navigate, Visit, FollowIssue, FollowCredentials, FollowRegistered

LEMMA StepCallsOK ==
  ASSUME CallsOK, [Next]_vars
  PROVE  CallsOK'
  <1>1. CASE Navigate
    BY <1>1, MountsCallsOK
  <1>2. CASE Input
    BY <1>2, IssueCallsOK, CredentialsCallsOK, HoldingsCallsOK, DidCallsOK, VerifyCallsOK,
       RegisterCallsOK, AccountsCallsOK DEF Input
  <1>3. CASE Answer
    BY <1>3, IssueCallsOK, CredentialsCallsOK, HoldingsCallsOK, DidCallsOK, VerifyCallsOK,
       RegisterCallsOK, AccountsCallsOK DEF Answer
  <1>4. CASE Serve
    BY <1>4, ServingOK
  <1>5. CASE Settling \/ UNCHANGED vars
    BY <1>5 DEF Settling, Settle, vars, CallsOK
  <1>6. QED
    BY <1>1, <1>2, <1>3, <1>4, <1>5 DEF Next

\* Every call is well formed, and a call that nobody waits for any more is one
\* that changes something at the API and has not been executed.
THEOREM CallsAreOK == Spec => []CallsOK
  <1>1. Init => CallsOK
    BY DEF Init, CallsOK, AreCalls
  <1>2. CallsOK /\ [Next]_vars => CallsOK'
    BY StepCallsOK
  <1>3. QED
    BY <1>1, <1>2, PTL DEF Spec

-----------------------------------------------------------------------------
(* The verifier's page *)

VerifyPages ==
  [phase : {"idle", "result"}, text : Texts \union {none},
   credential : Credentials \union {none}, of : Credentials \union {none},
   verdict : Verdicts \union {NoVerdict}, parse : {none, "invalid", "large", "unread"},
   api : BOOLEAN, loading : BOOLEAN, raced : BOOLEAN]

\* A text is found invalid where it stands; that it still stands there when the
\* form says so hangs on no other file being read.
VerifyInv ==
  at = "verify" =>
     /\ page \in VerifyPages
     /\ \A c \in Live("verify") : c.arg.key \in Credentials
     /\ \A c \in Live("read") : c.arg.key \in Texts
     /\ page.phase = "result" => page.of = page.credential /\ page.credential \in Credentials
     /\ page.loading => Live("verify") # {}
     /\ ~page.raced => \A c, d \in Live("read") : c = d
     /\ ~page.raced /\ page.parse = "invalid" => Live("read") = {} /\ page.text = "bad"

LEMMA VerifyMounted ==
  ASSUME CallsOK, VerifyMount(Left)
  PROVE  VerifyInv'
  <1>1. page' \in VerifyPages
    BY DEF VerifyMount, VerifyBlank, VerifyPages
  <1>2. Live("verify")' = {} /\ Live("read")' = {}
    BY LeftNotLive DEF VerifyMount, Live
  <1>3. QED
    BY <1>1, <1>2 DEF VerifyInv, VerifyMount, VerifyBlank

LEMMA VerifyInputs ==
  ASSUME VerifyInv, at = "verify", at' = at, VerifyInput
  PROVE  VerifyInv'
  <1> USE DEF VerifyInv
  <1>1. ASSUME NEW text \in Texts \union {none}, VerifyEdit(text)
        PROVE  VerifyInv'
    BY <1>1 DEF VerifyEdit, VerifyPages, Live
  <1>2. ASSUME NEW file \in Texts \union {"large"}, VerifyDrop(file)
        PROVE  VerifyInv'
    <2>1. CASE file = "large"
      <3>1. /\ page' \in VerifyPages /\ page'.parse = "large" /\ calls' = calls
            /\ page'.raced = page.raced /\ page'.phase = page.phase
            /\ page'.loading = page.loading
        BY <1>2, <2>1 DEF VerifyDrop, VerifyPages
      <3>2. page.phase = "idle"
        BY <1>2 DEF VerifyDrop
      <3>3. QED
        BY <3>1, <3>2 DEF Live
    <2>2. CASE file # "large"
      <3> DEFINE d == NewCall(calls, "read", [key |-> file])
      <3>1. Live("read")' = Live("read") \union {d} /\ Live("verify")' = Live("verify")
        BY <1>2, <2>2, LiveSent, LiveOther DEF VerifyDrop
      <3>2. d.arg.key \in Texts
        BY <1>2, <2>2 DEF NewCall
      <3> HIDE DEF d
      <3>3. /\ page' \in VerifyPages /\ page'.parse = none
            /\ page'.raced = (Live("read") # {})
            /\ page'.phase = page.phase /\ page'.loading = page.loading
        BY <1>2, <2>2 DEF VerifyDrop, VerifyPages
      <3>4. page.phase = "idle"
        BY <1>2 DEF VerifyDrop
      <3>5. QED
        BY <3>1, <3>2, <3>3, <3>4
    <2>3. QED
      BY <2>1, <2>2
  <1>3. CASE VerifySubmit
    <2>1. CASE page.text = "bad"
      BY <1>3, <2>1 DEF VerifySubmit, VerifyPages, Live
    <2>2. CASE page.text # "bad"
      <3> DEFINE d == NewCall(calls, "verify", [key |-> page.text])
      <3>1. Live("verify")' = Live("verify") \union {d} /\ Live("read")' = Live("read")
        BY <1>3, <2>2, LiveSent, LiveOther DEF VerifySubmit, Verifying
      <3>2. page.text \in Credentials
        BY <1>3, <2>2 DEF VerifySubmit, VerifyPages, Texts
      <3>3. d.arg.key \in Credentials
        BY <3>2 DEF NewCall
      <3> HIDE DEF d
      <3>4. /\ page' \in VerifyPages /\ page'.parse = none
            /\ page'.raced = page.raced /\ page'.phase = page.phase
        BY <1>3, <2>2 DEF VerifySubmit, Verifying, VerifyPages
      <3>5. page.phase = "idle"
        BY <1>3 DEF VerifySubmit
      <3>6. QED
        BY <3>1, <3>3, <3>4, <3>5
    <2>3. QED
      BY <2>1, <2>2
  <1>4. CASE VerifyAgain
    <2> DEFINE d == NewCall(calls, "verify", [key |-> page.credential])
    <2>1. Live("verify")' = Live("verify") \union {d} /\ Live("read")' = Live("read")
      BY <1>4, LiveSent, LiveOther DEF VerifyAgain, Verifying
    <2>2. d.arg.key \in Credentials
      BY <1>4 DEF VerifyAgain, NewCall
    <2> HIDE DEF d
    <2>3. /\ page' \in VerifyPages /\ page'.parse = page.parse /\ page'.text = page.text
          /\ page'.raced = page.raced /\ page'.phase = page.phase
          /\ page'.of = page.of /\ page'.credential = page.credential
      BY <1>4 DEF VerifyAgain, Verifying, VerifyPages
    <2>4. QED
      BY <2>1, <2>2, <2>3
  <1>5. CASE VerifyReset
    <2>1. /\ page' \in VerifyPages /\ page'.phase = "idle" /\ page'.parse = none
          /\ page'.raced = page.raced /\ page'.loading = page.loading /\ calls' = calls
      BY <1>5 DEF VerifyReset, VerifyBlank, VerifyPages
    <2>2. QED
      BY <2>1 DEF Live
  <1>6. QED
    BY <1>1, <1>2, <1>3, <1>4, <1>5 DEF VerifyInput

LEMMA VerifyAnswered ==
  ASSUME VerifyInv, at = "verify", at' = at, VerifyAnswers
  PROVE  VerifyInv'
  <1> USE DEF VerifyInv
  <1>1. ASSUME NEW c, NEW outcome, NEW verdict \in Verdicts \union {NoVerdict},
               VerifyAnswer(c, outcome, verdict)
        PROVE  VerifyInv'
    <2>1. Live("verify")' = Live("verify") \ {c} /\ Live("read")' = Live("read") \ {c}
      BY <1>1, LiveDropped DEF VerifyAnswer
    <2>2. c.arg.key \in Credentials /\ Live("read") \ {c} = Live("read")
      BY <1>1 DEF VerifyAnswer, Live
    <2>3. page' \in VerifyPages
      BY <1>1, <2>2 DEF VerifyAnswer, VerifyPages
    <2>4. /\ page'.loading = FALSE /\ page'.raced = page.raced
          /\ page'.parse = page.parse /\ page'.text = page.text
          /\ page'.phase = "result" => page'.of = c.arg.key /\ page'.credential = c.arg.key
      BY <1>1 DEF VerifyAnswer, VerifyPages
    <2>5. QED
      BY <2>1, <2>2, <2>3, <2>4
  <1>2. ASSUME NEW c, NEW outcome, ReadAnswer(c, outcome)
        PROVE  VerifyInv'
    <2>1. Live("verify")' = Live("verify") \ {c} /\ Live("read")' = Live("read") \ {c}
      BY <1>2, LiveDropped DEF ReadAnswer
    <2>2. c.arg.key \in Texts /\ c \in Live("read") /\ Live("verify") \ {c} = Live("verify")
      BY <1>2 DEF ReadAnswer, Live
    <2>3. /\ page' \in VerifyPages
          /\ page'.loading = page.loading /\ page'.raced = page.raced
          /\ page'.phase = page.phase /\ page'.of = page.of
          /\ page'.credential = page.credential
      BY <1>2, <2>2 DEF ReadAnswer, VerifyPages
    <2>4. page'.parse = "invalid" =>
             \/ page'.text = "bad"
             \/ page.parse = "invalid"
      BY <1>2 DEF ReadAnswer, VerifyPages
    <2>5. QED
      BY <2>1, <2>2, <2>3, <2>4
  <1>3. QED
    BY <1>1, <1>2 DEF VerifyAnswers

LEMMA VerifyStep ==
  ASSUME CallsOK, VerifyInv, [Next]_vars
  PROVE  VerifyInv'
  <1>1. CASE Navigate
    <2>1. at' = "verify" => VerifyMount(Left)
      BY <1>1 DEF Navigate, Visit, FollowIssue, FollowCredentials, FollowRegistered, Mounts,
                  DidViews
    <2>2. QED
      BY <2>1, VerifyMounted DEF VerifyInv
  <1>2. CASE Input
    <2>1. at' = at /\ (at = "verify" => VerifyInput)
      BY <1>2 DEF Input, DidViews, AccountViews
    <2>2. QED
      BY <2>1, VerifyInputs DEF VerifyInv
  <1>3. CASE Answer
    <2>1. at' = at /\ (at = "verify" => VerifyAnswers)
      BY <1>3 DEF Answer, DidViews, AccountViews
    <2>2. QED
      BY <2>1, VerifyAnswered DEF VerifyInv
  <1>4. CASE Serve
    <2>1. page' = page /\ at' = at
      BY <1>4, Serving
    <2>2. Live("verify")' = Live("verify") /\ Live("read")' = Live("read")
      BY <1>4, ServingKeeps DEF Effects, Acts
    <2>3. QED
      BY <2>1, <2>2 DEF VerifyInv
  <1>5. CASE Settling \/ UNCHANGED vars
    BY <1>5 DEF Settling, Settle, vars, VerifyInv, Live
  <1>6. QED
    BY <1>1, <1>2, <1>3, <1>4, <1>5 DEF Next

\* With no complaint the signature has passed and no check failed: every line of
\* the summary is marked as passed.
LEMMA SummaryOfValid ==
  ASSUME NEW v \in Verdicts \union {NoVerdict}, Valid(v), NEW line \in DOMAIN Summary(v)
  PROVE  Summary(v)[line]
  <1>1. ~v.errors /\ \A k \in CheckKeys : v.checks[k] # "failed"
    BY DEF Valid
  <1>2. v.checks["signature"] = "passed"
    BY <1>1 DEF Verdicts, NoVerdict
  <1>3. Passed(v, "signature") /\ \A k : NotFailed(v, k)
    BY <1>1, <1>2 DEF Passed, NotFailed
  <1>4. line \in {"issuer", "crypto", "status"}
    BY DEF Summary
  <1>5. Summary(v).issuer = TRUE /\ Summary(v).crypto = TRUE /\ Summary(v).status = TRUE
    BY <1>3 DEF Summary
  <1>6. QED
    BY <1>4, <1>5

\* What the verifier's page holds and awaits, through every edit, drop, submission and
\* answer: a verdict on display was given for the credential next to it.
THEOREM VerifyInvAlways == Spec => []VerifyInv
  <1>1. Init => VerifyInv
    BY DEF Init, VerifyInv
  <1>2. CallsOK /\ VerifyInv /\ [Next]_vars => VerifyInv'
    BY VerifyStep
  <1>3. QED
    BY <1>1, <1>2, CallsAreOK, PTL DEF Spec

\* A verdict stands under the credential it was given for, a Valid one with a
\* summary that says nothing else, and a text is called invalid where it stands.
THEOREM VerifierAlwaysSaysWhatHolds == Spec => []VerifierSaysWhatHolds
  <1>1. VerifyInv => VerifierSaysWhatHolds
    BY SummaryOfValid DEF VerifyInv, VerifierSaysWhatHolds, VerifyPages
  <1>2. QED
    BY <1>1, VerifyInvAlways, PTL

-----------------------------------------------------------------------------
(* The pages that show a DID *)

DidPagesSet ==
  [phase : {"idle", "loading", "resolved", "error"},
   query : DOMAIN Known \union {none}, did : DOMAIN Known \union {none},
   status : [of : DOMAIN Known \union {none}, is : {none, "active", "inactive"}],
   missing : BOOLEAN, refreshing : BOOLEAN, raced : BOOLEAN]

\* One document is awaited at a time.  Where nothing raced, a status that is
\* known, or awaited, is that of the DID on display.
Searching ==
  /\ ~page.refreshing
  /\ \A c, d \in Live("resolve") : c = d
  /\ page.phase = "loading" => Live("resolve") # {}
  /\ page.phase # "loading" => Live("resolve") = {}
  /\ ~page.raced /\ page.phase = "loading" => Live("status") = {} /\ page.status.of = none
  /\ ~page.raced /\ page.phase = "resolved" =>
       /\ page.status.of \in {none, page.did}
       /\ \A c \in Live("status") : c.arg.key = page.did

\* My DID awaits one thing at a time.
OwnDid ==
  LET awaited == Live("resolve") \union Live("status") IN
  /\ \A c, d \in awaited : c = d
  /\ \A c \in awaited : c.arg.key = MyDid
  /\ page.phase = "loading" \/ page.refreshing => awaited # {}
  /\ page.phase # "loading" /\ ~page.refreshing => awaited = {}
  /\ page.phase = "resolved" \/ Live("status") # {} => page.did = MyDid
  /\ page.status.of \in {none, MyDid}

DidInv ==
  at \in DidViews =>
     /\ page \in DidPagesSet
     /\ \A c \in Live("resolve") \union Live("status") : c.arg.key \in DOMAIN Known
     /\ page.status.is = IF page.status.of = none THEN none ELSE Known[page.status.of]
     /\ at # "mydid" => Searching
     /\ at = "mydid" => OwnDid

LEMMA DidMounted ==
  ASSUME CallsOK, at' \in DidViews, DidMount(Left, at')
  PROVE  DidInv'
  <1>1. DidBlank \in DidPagesSet
    BY DEF DidBlank, DidPagesSet
  <1>2. CASE at' = "mydid"
    <2> DEFINE d == NewCall(Left, "resolve", [key |-> MyDid])
    <2>1. Live("resolve")' = {d} /\ Live("status")' = {}
      BY <1>2, LiveFirst, LiveFirstOther DEF DidMount
    <2>2. d.arg.key = MyDid
      BY DEF NewCall
    <2>3. MyDid \in DOMAIN Known
      BY DidPagesAssumption
    <2> HIDE DEF d
    <2>4. /\ page' \in DidPagesSet /\ page'.phase = "loading"
          /\ page'.status.of = none /\ page'.status.is = none
      <3>1. page' = [DidBlank EXCEPT !.phase = "loading"]
        BY <1>2 DEF DidMount
      <3>2. DidBlank.status.of = none /\ DidBlank.status.is = none
        BY DEF DidBlank
      <3>3. QED
        BY <1>1, <3>1, <3>2 DEF DidPagesSet
    <2>5. QED
      BY <1>2, <2>1, <2>2, <2>3, <2>4 DEF DidInv, OwnDid
  <1>3. CASE at' # "mydid"
    <2>1. Live("resolve")' = {} /\ Live("status")' = {}
      BY <1>3, LiveNone DEF DidMount
    <2>2. page' = DidBlank
      BY <1>3 DEF DidMount
    <2>3. QED
      BY <1>1, <1>3, <2>1, <2>2 DEF DidInv, Searching, DidBlank
  <1>4. QED
    BY <1>2, <1>3

LEMMA DidInputs ==
  ASSUME DidInv, at \in DidViews, at' = at, DidInput
  PROVE  DidInv'
  <1>1. /\ page \in DidPagesSet
        /\ \A c \in Live("resolve") \union Live("status") : c.arg.key \in DOMAIN Known
        /\ page.status.is = IF page.status.of = none THEN none ELSE Known[page.status.of]
        /\ at # "mydid" => Searching
        /\ at = "mydid" => OwnDid
    BY DEF DidInv
  <1>2. ASSUME NEW d \in DOMAIN Known, DidType(d)
        PROVE  DidInv'
    <2>1. /\ page' \in DidPagesSet /\ calls' = calls /\ at # "mydid"
          /\ page'.phase = page.phase /\ page'.raced = page.raced /\ page'.did = page.did
          /\ page'.status = page.status /\ page'.refreshing = page.refreshing
      BY <1>1, <1>2 DEF DidType, DidPagesSet
    <2>2. QED
      BY <1>1, <2>1 DEF DidInv, Searching, Live
  <1>3. CASE DidResolve
    <2> DEFINE d == NewCall(calls, "resolve", [key |-> page.query])
    <2>1. Live("resolve")' = Live("resolve") \union {d} /\ Live("status")' = Live("status")
      BY <1>3, LiveSent, LiveOther DEF DidResolve
    <2>2. page.query \in DOMAIN Known
      BY <1>1, <1>3 DEF DidResolve, DidPagesSet
    <2>3. d.arg.key \in DOMAIN Known
      BY <2>2 DEF NewCall
    <2> HIDE DEF d
    <2>4. /\ page' \in DidPagesSet /\ at # "mydid" /\ page.phase # "loading"
          /\ page'.phase = "loading" /\ page'.raced = (Live("status") # {})
          /\ page'.status.of = none /\ page'.status.is = none
          /\ page'.refreshing = page.refreshing
      BY <1>1, <1>3 DEF DidResolve, NoStatus, DidBlank, DidPagesSet
    <2>5. QED
      BY <1>1, <2>1, <2>3, <2>4 DEF DidInv, Searching
  <1>4. CASE DidRetry
    <2>1. /\ page' \in DidPagesSet /\ calls' = calls /\ at # "mydid"
          /\ page.phase = "error" /\ page'.phase = "idle"
          /\ page'.status = page.status /\ page'.refreshing = page.refreshing
      BY <1>1, <1>4 DEF DidRetry, DidPagesSet
    <2>2. QED
      BY <1>1, <2>1 DEF DidInv, Searching, Live
  <1>5. CASE DidRefresh
    <2> DEFINE d == NewCall(calls, "resolve", [key |-> MyDid])
    <2>1. Live("resolve")' = Live("resolve") \union {d} /\ Live("status")' = Live("status")
      BY <1>5, LiveSent, LiveOther DEF DidRefresh
    <2>2. d.arg.key = MyDid /\ MyDid \in DOMAIN Known
      BY DidPagesAssumption DEF NewCall
    <2> HIDE DEF d
    <2>3. /\ page' \in DidPagesSet /\ at = "mydid"
          /\ page.phase # "loading" /\ ~page.refreshing
          /\ page'.phase = "loading" \/ page'.refreshing
          /\ page'.phase = "resolved" => page.phase = "resolved"
          /\ page'.status = page.status /\ page'.did = page.did
      BY <1>1, <1>5 DEF DidRefresh, DidPagesSet
    <2>4. QED
      BY <1>1, <2>1, <2>2, <2>3 DEF DidInv, OwnDid
  <1>6. QED
    BY <1>2, <1>3, <1>4, <1>5 DEF DidInput

LEMMA ResolveAnswered ==
  ASSUME DidInv, at \in DidViews, at' = at,
         NEW c, NEW outcome, ResolveAnswer(c, outcome)
  PROVE  DidInv'
  <1>1. /\ page \in DidPagesSet
        /\ \A d \in Live("resolve") \union Live("status") : d.arg.key \in DOMAIN Known
        /\ page.status.is = IF page.status.of = none THEN none ELSE Known[page.status.of]
        /\ at # "mydid" => Searching
        /\ at = "mydid" => OwnDid
    BY DEF DidInv
  <1>2. c \in Live("resolve") /\ c \notin Live("status") /\ c.arg.key \in DOMAIN Known
    BY <1>1 DEF ResolveAnswer, Live
  <1>3. CASE outcome = "ok"
    <2> DEFINE d == NewCall(calls \ {c}, "status", c.arg)
    <2>1. Live("status")' = Live("status") \union {d} /\ Live("resolve")' = Live("resolve") \ {c}
      <3>1. calls' = Sent(calls \ {c}, "status", c.arg)
        BY <1>3 DEF ResolveAnswer
      <3>2. /\ Live("status")' = (Live("status") \ {c}) \union {d}
            /\ Live("resolve")' = Live("resolve") \ {c}
        BY <3>1, LiveNext, LiveNextOther
      <3>3. QED
        BY <1>2, <3>2
    <2>2. d.arg = c.arg
      BY DEF NewCall
    <2> HIDE DEF d
    <2>3. /\ page' \in DidPagesSet /\ page'.did = c.arg.key
          /\ page'.phase = IF at = "mydid" THEN page.phase ELSE "resolved"
          /\ page'.status = page.status /\ page'.refreshing = page.refreshing
          /\ page'.raced = page.raced
      BY <1>1, <1>2, <1>3 DEF ResolveAnswer, DidPagesSet
    <2>4. CASE at = "mydid"
      BY <1>1, <1>2, <2>1, <2>2, <2>3, <2>4 DEF DidInv, OwnDid
    <2>5. CASE at # "mydid"
      <3>1. page.phase = "loading"
        BY <1>1, <1>2, <2>5 DEF Searching
      <3>2. QED
        BY <1>1, <1>2, <2>1, <2>2, <2>3, <2>5, <3>1 DEF DidInv, Searching
    <2>6. QED
      BY <2>4, <2>5
  <1>4. CASE outcome # "ok"
    <2>1. Live("resolve")' = Live("resolve") \ {c} /\ Live("status")' = Live("status")
      BY <1>2, <1>4, LiveDropped DEF ResolveAnswer
    <2>2. /\ page' \in DidPagesSet /\ page'.phase = "error" /\ page'.refreshing = FALSE
          /\ \/ page'.status.of = none /\ page'.status.is = none
             \/ page'.status = page.status
      <3>1. PICK p : p = [page EXCEPT !.phase = "error", !.did = none, !.refreshing = FALSE]
        OBVIOUS
      <3>2. /\ p \in DidPagesSet /\ p.phase = "error" /\ p.refreshing = FALSE
            /\ p.status = page.status
        BY <1>1, <3>1 DEF DidPagesSet
      <3>3. page' = p \/ page' = NoStatus(p)
        BY <1>4, <3>1 DEF ResolveAnswer
      <3>4. CASE page' = p
        BY <3>2, <3>4
      <3>5. CASE page' = NoStatus(p)
        <4>1. page' = [p EXCEPT !.status = [of |-> none, is |-> none], !.missing = FALSE]
          BY <3>5 DEF NoStatus, DidBlank
        <4>2. QED
          BY <3>2, <4>1 DEF DidPagesSet
      <3>6. QED
        BY <3>3, <3>4, <3>5
    <2>3. CASE at = "mydid"
      BY <1>1, <1>2, <2>1, <2>2, <2>3 DEF DidInv, OwnDid
    <2>4. CASE at # "mydid"
      BY <1>1, <1>2, <2>1, <2>2, <2>4 DEF DidInv, Searching
    <2>5. QED
      BY <2>3, <2>4
  <1>5. QED
    BY <1>3, <1>4

LEMMA StatusAnswered ==
  ASSUME DidInv, at \in DidViews, at' = at,
         NEW c, NEW outcome, StatusAnswer(c, outcome)
  PROVE  DidInv'
  <1>1. /\ page \in DidPagesSet
        /\ \A d \in Live("resolve") \union Live("status") : d.arg.key \in DOMAIN Known
        /\ page.status.is = IF page.status.of = none THEN none ELSE Known[page.status.of]
        /\ at # "mydid" => Searching
        /\ at = "mydid" => OwnDid
    BY DEF DidInv
  <1>2. c \in Live("status") /\ c \notin Live("resolve") /\ c.arg.key \in DOMAIN Known
    BY <1>1 DEF StatusAnswer, Live
  <1>3. Live("status")' = Live("status") \ {c} /\ Live("resolve")' = Live("resolve")
    BY <1>2, LiveDropped DEF StatusAnswer
  <1>4. /\ page' \in DidPagesSet
        /\ \/ page'.status.of = none /\ page'.status.is = none
           \/ page'.status.of = c.arg.key /\ page'.status.is = Known[c.arg.key]
        /\ page'.did = page.did /\ page'.raced = page.raced
        /\ at = "mydid" => page'.phase = "resolved" /\ page'.refreshing = FALSE
        /\ at # "mydid" => page'.phase = page.phase /\ page'.refreshing = page.refreshing
    <2> DEFINE p == IF at = "mydid" THEN [page EXCEPT !.phase = "resolved", !.refreshing = FALSE]
                    ELSE page
    <2>1. /\ p \in DidPagesSet /\ p.did = page.did /\ p.raced = page.raced
          /\ at = "mydid" => p.phase = "resolved" /\ p.refreshing = FALSE
          /\ at # "mydid" => p.phase = page.phase /\ p.refreshing = page.refreshing
      BY <1>1 DEF DidPagesSet
    <2>2. CASE outcome = "ok"
      <3>1. page' = [p EXCEPT !.status = [of |-> c.arg.key, is |-> Known[c.arg.key]],
                              !.missing = FALSE]
        BY <2>2 DEF StatusAnswer
      <3>2. Known[c.arg.key] \in {"active", "inactive"}
        BY <2>2 DEF StatusAnswer
      <3> HIDE DEF p
      <3>3. QED
        BY <1>2, <2>1, <3>1, <3>2 DEF DidPagesSet
    <2>3. CASE outcome # "ok"
      <3>1. page' = [NoStatus(p) EXCEPT !.missing = (outcome = "missing")]
        BY <2>3 DEF StatusAnswer
      <3> HIDE DEF p
      <3>2. QED
        BY <2>1, <3>1 DEF NoStatus, DidBlank, DidPagesSet
    <2>4. QED
      BY <2>2, <2>3
  <1>5. CASE at = "mydid"
    <2>1. OwnDid
      BY <1>1, <1>5
    <2>2. c.arg.key = MyDid /\ page.did = MyDid
      BY <1>2, <2>1 DEF OwnDid
    <2>3. Live("resolve")' \union Live("status")' = {}
      BY <1>2, <1>3, <2>1 DEF OwnDid
    <2>4. OwnDid'
      BY <1>4, <1>5, <2>2, <2>3 DEF OwnDid
    <2>5. QED
      BY <1>2, <1>4, <1>5, <2>3, <2>4, DidPagesAssumption DEF DidInv
  <1>6. CASE at # "mydid"
    <2>1. Searching
      BY <1>1, <1>6
    <2>2. Searching'
      BY <1>2, <1>3, <1>4, <1>6, <2>1 DEF Searching
    <2>3. \A d \in Live("resolve")' \union Live("status")' : d.arg.key \in DOMAIN Known
      BY <1>1, <1>3
    <2>4. QED
      BY <1>2, <1>4, <1>6, <2>2, <2>3, DidPagesAssumption DEF DidInv
  <1>7. QED
    BY <1>5, <1>6

LEMMA DidStep ==
  ASSUME CallsOK, DidInv, [Next]_vars
  PROVE  DidInv'
  <1>1. CASE Navigate
    <2>1. at' \in DidViews => DidMount(Left, at')
      BY <1>1 DEF Navigate, Visit, FollowIssue, FollowCredentials, FollowRegistered, Mounts,
                  DidViews
    <2>2. QED
      BY <2>1, DidMounted DEF DidInv
  <1>2. CASE Input
    <2>1. at' = at /\ (at \in DidViews => DidInput)
      BY <1>2 DEF Input, DidViews, AccountViews
    <2>2. QED
      BY <2>1, DidInputs DEF DidInv
  <1>3. CASE Answer
    <2>1. at' = at /\ (at \in DidViews => DidAnswers)
      BY <1>3 DEF Answer, DidViews, AccountViews
    <2>2. QED
      BY <2>1, ResolveAnswered, StatusAnswered DEF DidInv, DidAnswers
  <1>4. CASE Serve
    <2>1. page' = page /\ at' = at
      BY <1>4, Serving
    <2>2. Live("resolve")' = Live("resolve") /\ Live("status")' = Live("status")
      BY <1>4, ServingKeeps DEF Effects, Acts
    <2>3. QED
      BY <2>1, <2>2 DEF DidInv, Searching, OwnDid
  <1>5. CASE Settling \/ UNCHANGED vars
    BY <1>5 DEF Settling, Settle, vars, DidInv, Searching, OwnDid, Live
  <1>6. QED
    BY <1>1, <1>2, <1>3, <1>4, <1>5 DEF Next

\* What the three DID pages hold and await: the status is the registry's word about the
\* DID it is of, and one document is awaited at a time.
THEOREM DidInvAlways == Spec => []DidInv
  <1>1. Init => DidInv
    BY DEF Init, DidInv, DidViews
  <1>2. CallsOK /\ DidInv /\ [Next]_vars => DidInv'
    BY DidStep
  <1>3. QED
    BY <1>1, <1>2, CallsAreOK, PTL DEF Spec

\* A badge that says Active or Inactive repeats the registry, of the DID above
\* it, on the three pages and whatever was clicked while answers were awaited.
THEOREM BadgeIsAlwaysTheRegistrysWord == Spec => []BadgeIsTheRegistrysWord
  <1>1. ASSUME DidInv, at \in DidViews, page.phase = "resolved", ~page.raced
        PROVE  /\ page.status.is = "active" => Known[page.did] = "active"
               /\ page.status.is = "inactive" => Known[page.did] = "inactive"
               /\ page.status.is \in {none, "active", "inactive"}
               /\ page.missing \in BOOLEAN
    BY <1>1 DEF DidInv, Searching, OwnDid, DidPagesSet
  <1>2. DidInv => BadgeIsTheRegistrysWord
    <2>1. SUFFICES ASSUME DidInv, at \in DidViews, page.phase = "resolved", ~page.raced
                   PROVE  /\ "Active" \in Badges(page) =>
                               Known[page.did] = "active" \/ (at = "dids" /\ page.status.is = none)
                          /\ "Inactive" \in Badges(page) =>
                               Known[page.did] = "inactive" /\ (at = "dids" \/ Health(page) = "inactive")
      BY DEF BadgeIsTheRegistrysWord
    <2>2. "Active" \in Badges(page) =>
            page.status.is = "active" \/ (at = "dids" /\ page.status.is = none)
      BY <1>1, <2>1 DEF Badges, WalletBadge, AdminBadge, AdminMobileBadge
    <2>3. "Inactive" \in Badges(page) => page.status.is = "inactive"
      BY <1>1, <2>1 DEF Badges, WalletBadge, AdminBadge, AdminMobileBadge
    <2>4. page.status.is = "inactive" => at = "dids" \/ Health(page) = "inactive"
      BY DEF Health
    <2>5. QED
      BY <1>1, <2>1, <2>2, <2>3, <2>4
  <1>3. QED
    BY <1>2, DidInvAlways, PTL

-----------------------------------------------------------------------------
(* The holder's credentials *)

Rows == [id : DOMAIN MyStart, row : SUBSET Facts]
HoldPages ==
  [phase : {"loading", "loaded", "error"}, items : SUBSET Rows, n : Nat, of : Nat,
   checking : DOMAIN MyStart \union {none}, info : [DOMAIN MyStart -> SUBSET Facts],
   read : [DOMAIN MyStart -> SUBSET Facts], unread : BOOLEAN]

\* Facts come one after the other, and stay.
LedgerOK ==
  /\ ledger \in [DOMAIN MyStart -> SUBSET Facts]
  /\ \A i \in DOMAIN MyStart : \A f \in ledger[i] : Before(f) \subseteq ledger[i]

\* A row that a list brought, whenever that was, says what is so.
TrueRow(item) == item \in Rows /\ item.row \subseteq ledger[item.id]
Told == {"registered", "minted"}

\* What a check has found so far, it was told or had in its row.
HoldInv ==
  /\ LedgerOK
  /\ at = "holdings" =>
       /\ page \in HoldPages
       /\ \A item \in page.items : TrueRow(item)
       /\ \A c \in Live("held") :
            /\ c.arg.n \in Nat
            /\ c.served => c.reply \subseteq Rows /\ \A item \in c.reply : TrueRow(item)
       /\ \A c \in Live("registry") : TrueRow(c.arg.item)
       /\ \A c \in Live("sbt") :
            /\ TrueRow(c.arg.item)
            /\ c.arg.seen \subseteq c.arg.found
            /\ c.arg.found \subseteq ledger[c.arg.item.id] \intersect Told
       /\ \A i \in DOMAIN MyStart :
            /\ page.info[i] \subseteq ledger[i] \intersect Told
            /\ page.unread \/ page.read[i] \subseteq page.info[i]
       /\ page.phase = "loading" => Live("held") # {}
       /\ page.checking # none => Live("registry") \union Live("sbt") # {}

\* What is so goes on being so, and with it what a row says.
LEMMA LedgerGrows ==
  ASSUME LedgerOK, NEW i \in DOMAIN MyStart, NEW f \in Facts, Settle(i, f)
  PROVE  /\ LedgerOK'
         /\ \A j \in DOMAIN MyStart : ledger[j] \subseteq ledger'[j]
         /\ \A item : TrueRow(item) => TrueRow(item)'
  <1>1. \A j \in DOMAIN MyStart : ledger'[j] = IF j = i THEN ledger[i] \union {f} ELSE ledger[j]
    BY DEF Settle, LedgerOK
  <1>2. ledger' \in [DOMAIN MyStart -> SUBSET Facts]
    BY DEF Settle, LedgerOK
  <1>3. \A j \in DOMAIN MyStart : ledger[j] \subseteq ledger'[j]
    BY <1>1
  <1>4. ASSUME NEW j \in DOMAIN MyStart, NEW g \in ledger'[j]
        PROVE  Before(g) \subseteq ledger'[j]
    <2>1. CASE g \in ledger[j]
      BY <1>3, <2>1 DEF LedgerOK
    <2>2. CASE g \notin ledger[j]
      <3>1. j = i /\ g = f
        BY <1>1, <1>4, <2>2
      <3>2. QED
        BY <1>3, <3>1 DEF Settle
    <2>3. QED
      BY <2>1, <2>2
  <1>5. \A item : TrueRow(item) => TrueRow(item)'
    BY <1>3 DEF TrueRow, Rows
  <1>6. QED
    BY <1>2, <1>3, <1>4, <1>5 DEF LedgerOK

LEMMA StartOK ==
  ASSUME ledger' = MyStart
  PROVE  LedgerOK'
  BY HoldingsAssumption DEF LedgerOK

LEMMA HoldMounted ==
  ASSUME CallsOK, ledger' = MyStart, HoldingsMount(Left)
  PROVE  HoldInv'
  <1> DEFINE d == NewCall(Left, "held", [n |-> 1])
  <1>1. Live("held")' = {d} /\ Live("registry")' = {} /\ Live("sbt")' = {}
    BY LiveFirst, LiveFirstOther DEF HoldingsMount
  <1>2. d.arg.n \in Nat /\ d.served = FALSE
    BY DEF NewCall
  <1> HIDE DEF d
  <1>3. /\ page' \in HoldPages /\ page'.items = {} /\ page'.checking = none
        /\ \A i \in DOMAIN MyStart : page'.info[i] = {} /\ page'.read[i] = {}
    BY DEF HoldingsMount, HoldingsBlank, HoldPages
  <1>4. QED
    BY <1>1, <1>2, <1>3, StartOK DEF HoldInv

LEMMA HoldInputs ==
  ASSUME HoldInv, at = "holdings", at' = at, HoldingsInput
  PROVE  HoldInv'
  <1>1. ASSUME NEW n \in Nat, Fetching(n)
        PROVE  HoldInv'
    <2> DEFINE d == NewCall(calls, "held", [n |-> n])
    <2>1. /\ Live("held")' = Live("held") \union {d}
          /\ Live("registry")' = Live("registry") /\ Live("sbt")' = Live("sbt")
      BY <1>1, LiveSent, LiveOther DEF Fetching
    <2>2. d.arg.n \in Nat /\ d.served = FALSE
      BY DEF NewCall
    <2> HIDE DEF d
    <2>3. /\ page' \in HoldPages /\ ledger' = ledger
          /\ page'.items = page.items /\ page'.info = page.info /\ page'.read = page.read
          /\ page'.unread = page.unread /\ page'.checking = page.checking
      BY <1>1 DEF HoldInv, HoldPages, Fetching
    <2>4. QED
      BY <2>1, <2>2, <2>3 DEF HoldInv, LedgerOK, TrueRow
  <1>2. CASE HoldRefresh \/ HoldTryAgain \/ \E n \in 1..page.of : HoldTurnPage(n)
    <2>1. \E n \in Nat : Fetching(n)
      BY <1>2 DEF HoldRefresh, HoldTryAgain, HoldTurnPage, HoldInv, HoldPages
    <2>2. QED
      BY <1>1, <2>1
  <1>3. ASSUME NEW item \in page.items, HoldCheck(item)
        PROVE  HoldInv'
    <2> DEFINE d == NewCall(calls, "registry", [item |-> item])
    <2>1. /\ Live("registry")' = Live("registry") \union {d}
          /\ Live("held")' = Live("held") /\ Live("sbt")' = Live("sbt")
      BY <1>3, LiveSent, LiveOther DEF HoldCheck
    <2>2. d.arg.item = item
      BY DEF NewCall
    <2> HIDE DEF d
    <2>3. TrueRow(item)
      BY DEF HoldInv
    <2>4. /\ page' \in HoldPages /\ ledger' = ledger
          /\ page'.items = page.items /\ page'.info = page.info /\ page'.read = page.read
          /\ page'.unread = page.unread /\ page'.phase = page.phase
      BY <1>3, <2>3 DEF HoldInv, HoldPages, HoldCheck, TrueRow, Rows
    <2>5. QED
      BY <2>1, <2>2, <2>3, <2>4 DEF HoldInv, LedgerOK, TrueRow
  <1>4. QED
    BY <1>2, <1>3 DEF HoldingsInput

LEMMA HoldServed ==
  ASSUME CallsOK, HoldInv, at = "holdings", at' = at, NEW c, HoldServe(c)
  PROVE  HoldInv'
  <1> DEFINE place == IF c.arg.n \in DOMAIN MyPages THEN MyPages[c.arg.n] ELSE {}
             rows == {[id |-> i, row |-> ledger[i] \intersect {"tx", "token", "revoked"}] :
                        i \in place}
             d == Replied(c, rows)
  <1>1. c \in Live("held") /\ calls' = Served(c, rows) /\ page' = page /\ ledger' = ledger
    BY DEF HoldServe
  <1>2. place \subseteq DOMAIN MyStart
    BY HoldingsAssumption
  <1>3. rows \subseteq Rows /\ \A item \in rows : TrueRow(item)
    <2>1. \A i \in place : ledger[i] \subseteq Facts
      BY <1>2 DEF HoldInv, LedgerOK
    <2> HIDE DEF place
    <2>2. QED
      BY <1>2, <2>1 DEF Rows, TrueRow
  <1> HIDE DEF rows
  <1>4. /\ Live("held")' = (Live("held") \ {c}) \union {d}
        /\ d.arg = c.arg /\ d.reply = rows
    <2>1. Live("held")' = (Live("held") \ {c}) \union {d}
      BY <1>1, LiveServed
    <2>2. d.arg = c.arg /\ d.reply = rows
      BY <1>1, LiveReplied
    <2>3. QED
      BY <2>1, <2>2
  <1>5. Live("registry")' = Live("registry") /\ Live("sbt")' = Live("sbt")
    BY <1>1, LiveServedOther
  <1> HIDE DEF d
  <1>6. QED
    BY <1>1, <1>3, <1>4, <1>5 DEF HoldInv, LedgerOK, TrueRow

LEMMA HoldAnswered ==
  ASSUME HoldInv, at = "holdings", at' = at, NEW c, NEW outcome, HoldAnswer(c, outcome)
  PROVE  HoldInv'
  <1>1. c \in Live("held") /\ c \notin Live("registry") /\ c \notin Live("sbt")
    BY DEF HoldAnswer, Live
  <1>2. /\ Live("held")' = Live("held") \ {c}
        /\ Live("registry")' = Live("registry") /\ Live("sbt")' = Live("sbt")
    BY <1>1, LiveDropped DEF HoldAnswer
  <1>3. c.arg.n \in Nat /\ Len(MyPages) \in Nat
    BY <1>1, HoldingsAssumption DEF HoldInv
  <1>4. /\ page' \in HoldPages /\ ledger' = ledger
        /\ page'.items = {} \/ (c.served /\ page'.items = c.reply)
        /\ page'.info = page.info /\ page'.read = page.read
        /\ page'.unread = page.unread /\ page'.checking = page.checking
        /\ page'.phase # "loading"
    <2>1. CASE outcome = "ok"
      <3>1. c.served /\ c.reply \subseteq Rows
        BY <1>1, <2>1 DEF HoldAnswer, HoldInv
      <3>2. QED
        BY <1>3, <2>1, <3>1 DEF HoldAnswer, HoldInv, HoldPages
    <2>2. CASE outcome = "missing"
      BY <2>2 DEF HoldAnswer, HoldInv, HoldPages
    <2>3. CASE outcome # "ok" /\ outcome # "missing"
      BY <2>3 DEF HoldAnswer, HoldInv, HoldPages
    <2>4. QED
      BY <2>1, <2>2, <2>3
  <1>5. \A item \in page'.items : TrueRow(item)'
    BY <1>1, <1>4 DEF HoldInv, TrueRow
  <1>6. QED
    BY <1>2, <1>4, <1>5 DEF HoldInv, LedgerOK, TrueRow

\* What the chain, or the row, says of a fact is so.
LEMMA FindingIsSo ==
  ASSUME LedgerOK, NEW item, TrueRow(item), NEW outcome, NEW fact, NEW local \in Facts,
         Before(local) = {fact}, outcome = "ok" => fact \in ledger[item.id]
  PROVE  /\ Finding(outcome, fact, item, local) \subseteq ledger[item.id] \intersect {fact}
         /\ Answered(outcome, fact) \subseteq Finding(outcome, fact, item, local)
  BY DEF Finding, Answered, LedgerOK, TrueRow, Rows

LEMMA RegistryAnswered ==
  ASSUME HoldInv, at = "holdings", at' = at, NEW c, NEW outcome, RegistryAnswer(c, outcome)
  PROVE  HoldInv'
  <1>1. c \in Live("registry") /\ c \notin Live("held") /\ c \notin Live("sbt")
    BY DEF RegistryAnswer, Live
  <1>2. TrueRow(c.arg.item) /\ LedgerOK /\ page \in HoldPages /\ ledger' = ledger
    BY <1>1 DEF HoldInv, RegistryAnswer
  <1>3. CASE outcome = "failed"
    <2>1. /\ Live("registry")' = Live("registry") \ {c}
          /\ Live("held")' = Live("held") /\ Live("sbt")' = Live("sbt")
      BY <1>1, <1>3, LiveDropped DEF RegistryAnswer
    <2>2. /\ page' \in HoldPages /\ page'.items = page.items
          /\ page'.info = page.info /\ page'.read = page.read
          /\ page'.unread = page.unread /\ page'.checking = none /\ page'.phase = page.phase
      BY <1>2, <1>3 DEF RegistryAnswer, HoldPages
    <2>3. QED
      BY <1>2, <2>1, <2>2 DEF HoldInv, LedgerOK, TrueRow
  <1>4. CASE outcome # "failed"
    <2> DEFINE seen == Answered(outcome, "registered")
               found == Finding(outcome, "registered", c.arg.item, "tx")
               arg == [item |-> c.arg.item, seen |-> seen, found |-> found]
               d == NewCall(calls \ {c}, "sbt", arg)
    <2>1. seen \subseteq found /\ found \subseteq ledger[c.arg.item.id] \intersect Told
      <3>1. outcome = "ok" => "registered" \in ledger[c.arg.item.id]
        BY DEF RegistryAnswer
      <3>2. Before("tx") = {"registered"} /\ "tx" \in Facts
        BY DEF Before, Facts
      <3>3. QED
        BY <1>2, <3>1, <3>2, FindingIsSo DEF Told
    <2>2. d.arg.item = c.arg.item /\ d.arg.seen = seen /\ d.arg.found = found
      BY DEF NewCall
    <2> HIDE DEF seen, found
    <2>3. calls' = Sent(calls \ {c}, "sbt", arg) /\ page' = page
      BY <1>4 DEF RegistryAnswer, seen, found
    <2> HIDE DEF arg
    <2>4. /\ Live("sbt")' = (Live("sbt") \ {c}) \union {d}
          /\ Live("registry")' = Live("registry") \ {c}
          /\ Live("held")' = Live("held") \ {c}
      <3>1. Live("sbt")' = (Live("sbt") \ {c}) \union {d}
        BY <2>3, LiveNext
      <3>2. \A k : k # "sbt" => Live(k)' = Live(k) \ {c}
        BY <2>3, LiveNextOther
      <3>3. QED
        BY <3>1, <3>2
    <2> HIDE DEF d
    <2>5. QED
      BY <1>1, <1>2, <2>1, <2>2, <2>3, <2>4 DEF HoldInv, LedgerOK, TrueRow
  <1>5. QED
    BY <1>3, <1>4

LEMMA SbtAnswered ==
  ASSUME HoldInv, at = "holdings", at' = at, NEW c, NEW outcome, SbtAnswer(c, outcome)
  PROVE  HoldInv'
  <1> DEFINE i == c.arg.item.id
             seen == c.arg.seen \union Answered(outcome, "minted")
             found == c.arg.found \union Finding(outcome, "minted", c.arg.item, "token")
             p == [page EXCEPT !.checking = none]
  <1>1. c \in Live("sbt") /\ c \notin Live("held") /\ c \notin Live("registry")
    BY DEF SbtAnswer, Live
  <1>2. /\ TrueRow(c.arg.item) /\ LedgerOK /\ page \in HoldPages /\ ledger' = ledger
        /\ c.arg.seen \subseteq c.arg.found
        /\ c.arg.found \subseteq ledger[i] \intersect Told
    BY <1>1 DEF HoldInv, SbtAnswer
  <1>3. /\ Live("sbt")' = Live("sbt") \ {c}
        /\ Live("held")' = Live("held") /\ Live("registry")' = Live("registry")
    BY <1>1, LiveDropped DEF SbtAnswer
  <1>4. i \in DOMAIN MyStart /\ seen \subseteq found /\ found \subseteq ledger[i] \intersect Told
    <2>1. outcome = "ok" => "minted" \in ledger[i]
      BY DEF SbtAnswer
    <2>2. Before("token") = {"minted"} /\ "token" \in Facts
      BY DEF Before, Facts
    <2>3. QED
      BY <1>2, <2>1, <2>2, FindingIsSo DEF Told, TrueRow, Rows
  <1>5. /\ p \in HoldPages /\ p.items = page.items /\ p.info = page.info /\ p.read = page.read
        /\ p.unread = page.unread /\ p.checking = none /\ p.phase = page.phase
    BY <1>2 DEF HoldPages
  <1>6. page' = p \/ page' = Checked(p, i, seen, found)
    BY DEF SbtAnswer
  <1> HIDE DEF p, i, seen, found
  <1>7. CASE page' = p
    BY <1>2, <1>3, <1>5, <1>7 DEF HoldInv, LedgerOK, TrueRow
  <1>8. CASE page' = Checked(p, i, seen, found)
    <2>1. found \subseteq Facts /\ seen \subseteq Facts
      BY <1>4 DEF Told, Facts
    <2>2. /\ page' \in HoldPages /\ page'.items = page.items
          /\ page'.phase = page.phase /\ page'.checking = none
          /\ page'.info = [page.info EXCEPT ![i] = found]
          /\ page'.read = [page.read EXCEPT ![i] = page.read[i] \union seen]
          /\ page'.unread = (page.unread \/ ~(page.read[i] \subseteq seen))
      BY <1>4, <1>5, <1>8, <2>1 DEF Checked, HoldPages
    <2>3. /\ page.info \in [DOMAIN MyStart -> SUBSET Facts]
          /\ page.read \in [DOMAIN MyStart -> SUBSET Facts]
      BY <1>2 DEF HoldPages
    <2>4. ASSUME NEW j \in DOMAIN MyStart
          PROVE  /\ page'.info[j] \subseteq ledger[j] \intersect Told
                 /\ page'.unread \/ page'.read[j] \subseteq page'.info[j]
      <3>1. CASE j = i
        BY <1>4, <2>2, <2>3, <3>1
      <3>2. CASE j # i
        BY <2>2, <2>3, <3>2 DEF HoldInv
      <3>3. QED
        BY <3>1, <3>2
    <2>5. QED
      BY <1>2, <1>3, <2>2, <2>4 DEF HoldInv, LedgerOK, TrueRow
  <1>9. QED
    BY <1>6, <1>7, <1>8

LEMMA HoldSettled ==
  ASSUME HoldInv, Settling
  PROVE  HoldInv'
  <1>1. PICK i \in DOMAIN ledger, f \in Facts : Settle(i, f)
    BY DEF Settling
  <1>2. LedgerOK /\ i \in DOMAIN MyStart /\ at = "holdings" /\ at' = at
    BY DEF HoldInv, LedgerOK, Settling
  <1>3. page' = page /\ calls' = calls
    BY <1>1 DEF Settle
  <1>4. /\ LedgerOK' /\ \A j \in DOMAIN MyStart : ledger[j] \subseteq ledger'[j]
        /\ \A item : TrueRow(item) => TrueRow(item)'
    BY <1>1, <1>2, LedgerGrows
  <1>5. \A c \in Live("sbt") : c.arg.item.id \in DOMAIN MyStart
    BY <1>2 DEF HoldInv, TrueRow, Rows
  <1>6. \A k : Live(k)' = Live(k)
    BY <1>3 DEF Live
  <1>7. QED
    BY <1>2, <1>3, <1>4, <1>5, <1>6 DEF HoldInv

LEMMA HoldStep ==
  ASSUME CallsOK, HoldInv, [Next]_vars
  PROVE  HoldInv'
  <1>1. CASE Navigate
    <2>1. ledger' = MyStart /\ (at' = "holdings" => HoldingsMount(Left))
      BY <1>1 DEF Navigate, Visit, FollowIssue, FollowCredentials, FollowRegistered, Mounts,
                  DidViews
    <2>2. QED
      BY <2>1, HoldMounted, StartOK DEF HoldInv
  <1>2. CASE Input
    <2>1. at' = at /\ (at = "holdings" => HoldingsInput) /\ (at # "holdings" => ledger' = ledger)
      BY <1>2 DEF Input, DidViews, AccountViews
    <2>2. QED
      BY <2>1, HoldInputs DEF HoldInv, LedgerOK
  <1>3. CASE Answer
    <2>1. /\ at' = at /\ (at = "holdings" => HoldingsAnswers)
          /\ at # "holdings" => ledger' = ledger
      BY <1>3 DEF Answer, DidViews, AccountViews
    <2>2. QED
      BY <2>1, HoldServed, HoldAnswered, RegistryAnswered, SbtAnswered
      DEF HoldInv, LedgerOK, HoldingsAnswers
  <1>4. CASE Serve
    <2>1. page' = page /\ at' = at /\ ledger' = ledger
      BY <1>4, Serving
    <2>2. /\ Live("held")' = Live("held") /\ Live("registry")' = Live("registry")
          /\ Live("sbt")' = Live("sbt")
      BY <1>4, ServingKeeps DEF Effects, Acts
    <2>3. QED
      BY <2>1, <2>2 DEF HoldInv, LedgerOK, TrueRow
  <1>5. CASE Settling
    BY <1>5, HoldSettled
  <1>6. CASE UNCHANGED vars
    BY <1>6 DEF vars, HoldInv, LedgerOK, TrueRow, Live
  <1>7. QED
    BY <1>1, <1>2, <1>3, <1>4, <1>5, <1>6 DEF Next

\* What the holder's page holds and its checks carry from one await to the next was so on
\* the chain when it was read, and is so now.
THEOREM HoldInvAlways == Spec => []HoldInv
  <1>1. Init => HoldInv
    BY HoldingsAssumption DEF Init, HoldInv, LedgerOK
  <1>2. CallsOK /\ HoldInv /\ [Next]_vars => HoldInv'
    BY HoldStep
  <1>3. QED
    BY <1>1, <1>2, CallsAreOK, PTL DEF Spec

\* The two pills of every row on display claim what is on the chain, and all that
\* the chain has told about it, unless a later check did not reach the node; a
\* revocation they claim is in the table, of a credential that is registered.
THEOREM PillsAreAlwaysTrue == Spec => []PillsAreTrue
  <1>1. ASSUME HoldInv, at = "holdings", NEW item \in page.items
        PROVE  /\ Claimed(page, item) \subseteq ledger[item.id] \union {"withdrawn"}
               /\ "withdrawn" \in Claimed(page, item)
                    => {"registered", "revoked"} \subseteq ledger[item.id]
               /\ page.unread \/ page.read[item.id] \subseteq Claimed(page, item)
    <2>1. /\ item.id \in DOMAIN MyStart /\ item.row \subseteq ledger[item.id]
          /\ page.info[item.id] \subseteq ledger[item.id] \intersect Told
          /\ page.unread \/ page.read[item.id] \subseteq page.info[item.id]
      BY <1>1 DEF HoldInv, TrueRow, Rows
    <2>2. /\ "tx" \in ledger[item.id] => "registered" \in ledger[item.id]
          /\ "token" \in ledger[item.id] => "minted" \in ledger[item.id]
      BY <1>1, <2>1 DEF HoldInv, LedgerOK, Before
    <2>3. /\ "registered" \in Claimed(page, item) <=>
               "tx" \in item.row \/ "registered" \in page.info[item.id]
          /\ "minted" \in Claimed(page, item) <=>
               "token" \in item.row \/ "minted" \in page.info[item.id]
          /\ "withdrawn" \in Claimed(page, item)
               => "revoked" \in item.row /\ "registered" \in Claimed(page, item)
          /\ Claimed(page, item) \subseteq Told \union {"withdrawn"}
      BY DEF Claimed, Pills, Told
    <2>4. /\ "registered" \in Claimed(page, item) => "registered" \in ledger[item.id]
          /\ "minted" \in Claimed(page, item) => "minted" \in ledger[item.id]
      BY <2>1, <2>2, <2>3
    <2>5. QED
      BY <2>1, <2>3, <2>4 DEF Told
  <1>2. HoldInv => PillsAreTrue
    BY <1>1 DEF PillsAreTrue
  <1>3. QED
    BY <1>2, HoldInvAlways, PTL

-----------------------------------------------------------------------------
(* What only one page asks the API for *)

\* The calls T have no call of the kind k with another argument than those of S.
NoNew(k, S, T) == \A e \in T : e.kind = k => \E d \in S : d.kind = k /\ d.arg = e.arg

LEMMA NoNewSent ==
  ASSUME NEW k, NEW S, NEW T, NoNew(k, S, T), NEW kind, kind # k, NEW arg
  PROVE  NoNew(k, S, Sent(T, kind, arg))
  <1>1. Sent(T, kind, arg) = T \union {NewCall(T, kind, arg)}
    BY SentCalls
  <1>2. NewCall(T, kind, arg).kind = kind
    BY DEF NewCall
  <1>3. QED
    BY <1>1, <1>2 DEF NoNew

LEMMA NoNewServed ==
  ASSUME CallsOK, NEW c \in calls, c.live, NEW r, NEW k
  PROVE  NoNew(k, calls, Served(c, r))
  <1>1. IsCall(c) /\ c.live = TRUE
    BY DEF CallsOK, AreCalls, IsCall
  <1>2. Replied(c, r).kind = c.kind /\ Replied(c, r).arg = c.arg
    BY <1>1, RepliedIs
  <1>3. QED
    BY <1>2, ServedCalls DEF NoNew

LEMMA NoNewFetched ==
  ASSUME NEW k \in {"issue", "register"}, NEW S, NEW T, NoNew(k, S, T), NEW p
  PROVE  /\ \A n, f, after : NoNew(k, S, FetchList(p, T, n, f, after).S)
         /\ \A i, last : NoNew(k, S, FetchDetail(p, T, i, last).S)
         /\ NoNew(k, S, Effect(p, T).S)
  <1>1. \A n, f, after : NoNew(k, S, FetchList(p, T, n, f, after).S)
    BY NoNewSent DEF FetchList
  <1>2. \A i, last : NoNew(k, S, FetchDetail(p, T, i, last).S)
    BY NoNewSent DEF FetchDetail
  <1>3. NoNew(k, S, Effect(p, T).S)
    BY <1>1 DEF Effect
  <1>4. QED
    BY <1>1, <1>2, <1>3

LEMMA PagesAskFor ==
  ASSUME CallsOK, NEW k \in {"issue", "register"},
         \/ CredentialsInput \/ CredentialsAnswers \/ HoldingsInput \/ HoldingsAnswers
         \/ DidInput \/ DidAnswers \/ VerifyInput \/ VerifyAnswers
  PROVE  NoNew(k, calls, calls')
  <1>1. CASE UNCHANGED calls
    BY <1>1 DEF NoNew
  <1>2. ASSUME NEW c, calls' = calls \ {c}
        PROVE  NoNew(k, calls, calls')
    BY <1>2 DEF NoNew
  <1>3. ASSUME NEW kind, NEW arg, kind # k, calls' = Sent(calls, kind, arg)
        PROVE  NoNew(k, calls, calls')
    <2>1. NoNew(k, calls, calls)
      BY DEF NoNew
    <2>2. QED
      BY <1>3, <2>1, NoNewSent
  <1>4. ASSUME NEW c, NEW kind, NEW arg, kind # k, calls' = Sent(calls \ {c}, kind, arg)
        PROVE  NoNew(k, calls, calls')
    <2>1. NoNew(k, calls, calls \ {c})
      BY DEF NoNew
    <2>2. QED
      BY <1>4, <2>1, NoNewSent
  <1>5. ASSUME NEW c \in calls, c.live, NEW r, calls' = Served(c, r)
        PROVE  NoNew(k, calls, calls')
    BY <1>5, NoNewServed
  <1>6. CASE CredentialsInput
    BY <1>1, <1>3, <1>6 DEF CredentialsInput, CredsTypeUsername, CredsTurnPage,
         CredsRevokeRequest, CredsLookup, CredsTryAgain, CredsRevokeCancel,
         CredsRevokeConfirm, CredsDismiss, Asking
  <1>7. CASE CredentialsAnswers
    BY <1>2, <1>4, <1>5, <1>7
    DEF CredentialsAnswers, ListServe, ListAnswer, RevokeAnswer, Asking, Live
  <1>8. CASE HoldingsInput
    BY <1>3, <1>8 DEF HoldingsInput, HoldRefresh, HoldTryAgain, HoldTurnPage, HoldCheck, Fetching
  <1>9. CASE HoldingsAnswers
    BY <1>2, <1>4, <1>5, <1>9
    DEF HoldingsAnswers, HoldServe, HoldAnswer, RegistryAnswer, SbtAnswer, Live
  <1>10. CASE DidInput
    BY <1>1, <1>3, <1>10 DEF DidInput, DidType, DidResolve, DidRetry, DidRefresh
  <1>11. CASE DidAnswers
    BY <1>2, <1>4, <1>11 DEF DidAnswers, ResolveAnswer, StatusAnswer
  <1>12. CASE VerifyInput
    BY <1>1, <1>3, <1>12 DEF VerifyInput, VerifyEdit, VerifyDrop, VerifySubmit, VerifyAgain,
                             VerifyReset, Verifying
  <1>13. CASE VerifyAnswers
    BY <1>2, <1>13 DEF VerifyAnswers, VerifyAnswer, ReadAnswer
  <1>14. QED
    BY <1>6, <1>7, <1>8, <1>9, <1>10, <1>11, <1>12, <1>13

LEMMA AccountsAskFor ==
  ASSUME CallsOK, NEW k \in {"issue", "register"}, AccountsInput \/ AccountsAnswers
  PROVE  NoNew(k, calls, calls')
  <1>1. CASE UNCHANGED calls
    BY <1>1 DEF NoNew
  <1>2. ASSUME NEW c, calls' = calls \ {c}
        PROVE  NoNew(k, calls, calls')
    BY <1>2 DEF NoNew
  <1>3. ASSUME NEW kind, NEW arg, kind # k, calls' = Sent(calls, kind, arg)
        PROVE  NoNew(k, calls, calls')
    <2>1. NoNew(k, calls, calls)
      BY DEF NoNew
    <2>2. QED
      BY <1>3, <2>1, NoNewSent
  <1>4. NoNew(k, calls, calls) /\ \A c : NoNew(k, calls, calls \ {c})
    BY DEF NoNew
  <1>5. CASE AccountsInput
    <2>1. ASSUME NEW p, calls' = Effect(p, calls).S
          PROVE  NoNew(k, calls, calls')
      BY <1>4, <2>1, NoNewFetched
    <2>2. ASSUME NEW p, NEW i, calls' = FetchDetail(p, calls, i, FALSE).S
          PROVE  NoNew(k, calls, calls')
      BY <1>4, <2>2, NoNewFetched
    <2>3. QED
      BY <1>1, <1>3, <1>5, <2>1, <2>2
      DEF AccountsInput, AccType, AccApply, AccTurn, AccSelect, AccClose, AccAuthorize,
          AccRevoke, AccDeleteAsk, AccDeleteCancel, AccDeleteConfirm, Acting, Take
  <1>6. ASSUME NEW c \in calls, AccountsServe(c) \/ DetailServe(c)
        PROVE  NoNew(k, calls, calls')
    BY <1>6, NoNewServed DEF AccountsServe, DetailServe, Live
  <1>7. ASSUME NEW c, NEW outcome,
               \/ AccountsAnswer(c, outcome) \/ DetailAnswer(c, outcome)
               \/ ActAnswer(c, outcome)
        PROVE  NoNew(k, calls, calls')
    <2>1. ASSUME NEW p PROVE NoNew(k, calls, Effect(p, calls \ {c}).S)
      BY <1>4, NoNewFetched
    <2>2. ASSUME NEW p, NEW n, NEW f, NEW after
          PROVE  NoNew(k, calls, FetchList(p, calls \ {c}, n, f, after).S)
      BY <1>4, NoNewFetched
    <2>3. ASSUME NEW p, NEW q, NEW i
          PROVE  NoNew(k, calls, FetchDetail(q, Effect(p, calls \ {c}).S, i, TRUE).S)
      BY <2>1, NoNewFetched
    <2>4. CASE AccountsAnswer(c, outcome)
      BY <2>1, <2>3, <2>4 DEF AccountsAnswer, Take
    <2>5. CASE DetailAnswer(c, outcome)
      BY <1>4, <2>5 DEF DetailAnswer
    <2>6. CASE ActAnswer(c, outcome)
      BY <1>4, <2>2, <2>6 DEF ActAnswer, Take
    <2>7. QED
      BY <1>7, <2>4, <2>5, <2>6
  <1>8. QED
    BY <1>5, <1>6, <1>7 DEF AccountsAnswers

LEMMA IssueAsksFor ==
  ASSUME CallsOK, IssueInput \/ IssueAnswers
  PROVE  NoNew("register", calls, calls')
  <1>1. CASE UNCHANGED calls
    BY <1>1 DEF NoNew
  <1>2. ASSUME NEW c, calls' = calls \ {c}
        PROVE  NoNew("register", calls, calls')
    BY <1>2 DEF NoNew
  <1>3. ASSUME NEW kind, NEW arg, kind # "register", calls' = Sent(calls, kind, arg)
        PROVE  NoNew("register", calls, calls')
    <2>1. NoNew("register", calls, calls)
      BY DEF NoNew
    <2>2. QED
      BY <1>3, <2>1, NoNewSent
  <1>4. ASSUME NEW c, NEW kind, NEW arg, kind # "register", calls' = Sent(calls \ {c}, kind, arg)
        PROVE  NoNew("register", calls, calls')
    <2>1. NoNew("register", calls, calls \ {c})
      BY DEF NoNew
    <2>2. QED
      BY <1>4, <2>1, NoNewSent
  <1>5. CASE IssueInput
    BY <1>1, <1>3, <1>5 DEF IssueInput, EditDid, EditField, ChooseType, ChooseAttachment,
                            ChooseFile, BlurDid, Submit, IssueAnother, Edited
  <1>6. CASE IssueAnswers
    BY <1>2, <1>4, <1>6
    DEF IssueAnswers, TypesAnswer, HolderAnswer, SubmitAnswer, IssueAnswer
  <1>7. QED
    BY <1>5, <1>6

LEMMA RegisterAsksFor ==
  ASSUME CallsOK, RegisterInput \/ RegisterAnswers
  PROVE  NoNew("issue", calls, calls')
  <1>1. NoNew("issue", calls, calls) /\ \A c : NoNew("issue", calls, calls \ {c})
    BY DEF NoNew
  <1>2. \A arg : NoNew("issue", calls, Sent(calls, "register", arg))
    BY <1>1, NoNewSent
  <1>3. QED
    BY <1>1, <1>2 DEF RegisterInput, RegisterAnswers, RegName, RegRole, RegSubmit, RegReset,
                      RegisterAnswer

LEMMA MountsAskFor ==
  ASSUME CallsOK, NEW k \in {"issue", "register"}, Navigate
  PROVE  NoNew(k, calls, calls')
  <1>1. NoNew(k, calls, Left)
    BY LeftCalls DEF NoNew
  <1>2. ASSUME NEW prefill, IssueMount(Left, prefill)
        PROVE  NoNew(k, calls, calls')
    <2>1. NoNew(k, calls, Sent(Left, "types", [key |-> none]))
      BY <1>1, NoNewSent
    <2>2. NoNew(k, calls, Sent(Sent(Left, "types", [key |-> none]), "holder", [key |-> prefill]))
      BY <2>1, NoNewSent
    <2>3. QED
      BY <1>2, <2>1, <2>2 DEF IssueMount
  <1>3. ASSUME NEW prefill, CredentialsMount(Left, prefill)
        PROVE  NoNew(k, calls, calls')
    BY <1>1, <1>3, NoNewSent DEF CredentialsMount, Asking
  <1>4. ASSUME NEW view, DidMount(Left, view)
        PROVE  NoNew(k, calls, calls')
    BY <1>1, <1>4, NoNewSent DEF DidMount
  <1>5. CASE HoldingsMount(Left)
    BY <1>1, <1>5, NoNewSent DEF HoldingsMount
  <1>6. CASE VerifyMount(Left) \/ RegisterMount(Left)
    BY <1>1, <1>6 DEF VerifyMount, RegisterMount
  <1>7. ASSUME NEW prefill, AccountsMount(Left, prefill)
        PROVE  NoNew(k, calls, calls')
    <2> DEFINE first == FetchList(AccountsBlank, Left, 1, none, none)
               named == [first.p EXCEPT !.search = prefill.f, !.applied = prefill.f,
                                        !.selected = prefill.id]
               both == FetchDetail(named, first.S, prefill.id, FALSE)
    <2>1. NoNew(k, calls, first.S)
      BY <1>1, NoNewFetched
    <2> HIDE DEF first
    <2>2. NoNew(k, calls, both.S)
      BY <2>1, NoNewFetched
    <2> HIDE DEF named
    <2>3. ASSUME NEW p PROVE NoNew(k, calls, FetchList(p, both.S, 1, prefill.f, none).S)
      <3> HIDE DEF both
      <3>1. QED
        BY <2>2, NoNewFetched
    <2>4. \/ calls' = first.S \/ calls' = both.S
          \/ calls' = FetchList(both.p, both.S, 1, prefill.f, none).S
      <3> HIDE DEF both
      <3> USE DEF named, first, both
      <3>1. QED
        BY <1>7, Zenon DEF AccountsMount, Take
    <2> HIDE DEF both
    <2>5. QED
      BY <2>1, <2>2, <2>3, <2>4
  <1>8. QED
    BY <1>2, <1>3, <1>4, <1>5, <1>6, <1>7
    DEF Navigate, Visit, FollowIssue, FollowCredentials, FollowRegistered

\* Only the issue page asks for a credential to be issued, and only the page that
\* registers accounts for an account; and only while they are mounted.
LEMMA OwnersAskFor ==
  ASSUME CallsOK, [Next]_vars, NEW k \in {"issue", "register"},
         ~(at = k /\ at' = k /\ (Input \/ Answer))
  PROVE  NoNew(k, calls, calls')
  <1>1. CASE Navigate
    BY <1>1, MountsAskFor
  <1>2. CASE Input
    <2>1. at' = at
      BY <1>2 DEF Input
    <2>2. QED
      BY <1>2, <2>1, PagesAskFor, AccountsAskFor, IssueAsksFor, RegisterAsksFor DEF Input
  <1>3. CASE Answer
    <2>1. at' = at
      BY <1>3 DEF Answer
    <2>2. QED
      BY <1>3, <2>1, PagesAskFor, AccountsAskFor, IssueAsksFor, RegisterAsksFor DEF Answer
  <1>4. CASE Serve
    BY <1>4, Serving DEF Executed, NoNew
  <1>5. CASE Settling \/ UNCHANGED vars
    BY <1>5 DEF Settling, Settle, vars, NoNew
  <1>6. QED
    BY <1>1, <1>2, <1>3, <1>4, <1>5 DEF Next

-----------------------------------------------------------------------------
(* The account pages: registering one *)

Names == DOMAIN HolderDid

RegisterPages ==
  [view : {"form", "success"}, name : NewNames \union {none}, role : BOOLEAN,
   loading : BOOLEAN, error : {none, "role", "taken", "failed"},
   account : NewNames \union {none}]

\* Only the names an admin can type are ever registered.
RegisterInv ==
  /\ accounts \subseteq Names
  /\ \A c \in calls : c.kind = "register" => c.arg.key \in NewNames
  /\ at = "register" =>
       /\ page \in RegisterPages
       /\ page.view = "success" => page.account \in NewNames
       /\ page.loading => Live("register") # {}

\* The API registers what it was asked to, and deletes.
LEMMA AccountsServed ==
  ASSUME RegisterInv, Serve
  PROVE  accounts' \subseteq Names
  <1>1. PICK c \in calls : \/ UNCHANGED accountVars \/ ActServe(c) \/ RegisterServe(c)
    BY DEF Serve
  <1>2. CASE UNCHANGED accountVars
    BY <1>2 DEF RegisterInv, accountVars
  <1>3. CASE ActServe(c)
    BY <1>3 DEF RegisterInv, ActServe
  <1>4. CASE RegisterServe(c)
    BY <1>4, AppAssumption DEF RegisterInv, RegisterServe, Names
  <1>5. QED
    BY <1>1, <1>2, <1>3, <1>4

LEMMA AccountsStay ==
  ASSUME [Next]_vars, ~Serve
  PROVE  accounts' = accounts /\ authorized' = authorized
  BY DEF Next, Navigate, Visit, FollowIssue, FollowCredentials, FollowRegistered, Mounts, Input,
         Answer, Settling, server, accountVars, vars, HoldingsInput, DidInput, VerifyInput,
         RegisterInput, RegisterAnswers, AccountsInput, AccountsAnswers, AccountsServe, DetailServe

LEMMA RegisterInputs ==
  ASSUME RegisterInv, at = "register", at' = at, RegisterInput
  PROVE  RegisterInv'
  <1>1. accounts' = accounts /\ page \in RegisterPages
    BY DEF RegisterInput, accountVars, RegisterInv
  <1>2. CASE UNCHANGED calls /\ (\/ \E a \in NewNames : RegName(a)
                                 \/ RegRole \/ RegReset
                                 \/ page' = [page EXCEPT !.error = "role"])
    <2>1. Live("register")' = Live("register")
      BY <1>2 DEF Live
    <2>2. /\ page' \in RegisterPages
          /\ page'.loading => page.loading
          /\ page'.view = "success" => page.view = "success" /\ page'.account = page.account
      <3>1. CASE RegReset
        BY <3>1 DEF RegReset, RegisterBlank, RegisterPages
      <3>2. CASE \E a \in NewNames : RegName(a)
        BY <1>1, <3>2 DEF RegName, RegisterPages
      <3>3. CASE RegRole
        BY <1>1, <3>3 DEF RegRole, RegisterPages
      <3>4. CASE page' = [page EXCEPT !.error = "role"]
        BY <1>1, <3>4 DEF RegisterPages
      <3>5. QED
        BY <1>2, <3>1, <3>2, <3>3, <3>4
    <2>3. QED
      BY <1>1, <1>2, <2>1, <2>2 DEF RegisterInv
  <1>3. CASE RegSubmit /\ page.role
    <2> DEFINE d == NewCall(calls, "register", [key |-> page.name])
    <2>1. calls' = calls \union {d} /\ Live("register")' = Live("register") \union {d}
      BY <1>3, SentCalls, LiveSent DEF RegSubmit
    <2>2. d.arg.key = page.name
      BY DEF NewCall
    <2> HIDE DEF d
    <2>3. page.name \in NewNames /\ page.view = "form" /\ page' \in RegisterPages
          /\ page'.view = "form"
      BY <1>1, <1>3 DEF RegSubmit, RegOpen, RegisterPages
    <2>4. QED
      BY <1>1, <2>1, <2>2, <2>3 DEF RegisterInv
  <1>4. QED
    BY <1>1, <1>2, <1>3 DEF RegisterInput, RegSubmit, RegName, RegRole, RegReset, RegisterPages

LEMMA RegisterAnswered ==
  ASSUME RegisterInv, at = "register", at' = at, RegisterAnswers
  PROVE  RegisterInv'
  <1>1. PICK c \in calls, outcome \in {"ok", "taken", "failed"} : RegisterAnswer(c, outcome)
    BY DEF RegisterAnswers
  <1>2. /\ accounts' = accounts /\ calls' = calls \ {c} /\ c.kind = "register"
        /\ page \in RegisterPages
    BY <1>1 DEF RegisterAnswers, accountVars, RegisterAnswer, Live, RegisterInv
  <1>3. c.arg.key \in NewNames
    BY <1>2 DEF RegisterInv
  <1>4. /\ page' \in RegisterPages /\ page'.loading = FALSE
        /\ page'.view = "success" => page'.account \in NewNames
    BY <1>1, <1>2, <1>3 DEF RegisterAnswer, RegisterPages, RegisterInv
  <1>5. QED
    BY <1>2, <1>4 DEF RegisterInv

LEMMA RegisterStep ==
  ASSUME CallsOK, RegisterInv, [Next]_vars
  PROVE  RegisterInv'
  <1>1. accounts' \subseteq Names
    <2>1. CASE Serve
      BY <2>1, AccountsServed
    <2>2. CASE ~Serve
      BY <2>2, AccountsStay DEF RegisterInv
    <2>3. QED
      BY <2>1, <2>2
  <1>2. CASE at = "register" /\ at' = "register" /\ (Input \/ Answer)
    BY <1>2, RegisterInputs, RegisterAnswered DEF Input, Answer, DidViews, AccountViews
  <1>3. CASE ~(at = "register" /\ at' = "register" /\ (Input \/ Answer))
    <2>1. NoNew("register", calls, calls')
      BY <1>3, OwnersAskFor
    <2>2. \A c \in calls' : c.kind = "register" => c.arg.key \in NewNames
      BY <2>1 DEF NoNew, RegisterInv
    <2>3. CASE Navigate
      <3>1. at' = "register" => RegisterMount(Left)
        BY <2>3 DEF Navigate, Visit, FollowIssue, FollowCredentials, FollowRegistered, Mounts,
                    DidViews
      <3>2. /\ RegisterBlank \in RegisterPages /\ RegisterBlank.view # "success"
            /\ RegisterBlank.loading = FALSE
        BY DEF RegisterBlank, RegisterPages
      <3>3. QED
        BY <1>1, <2>2, <3>1, <3>2 DEF RegisterInv, RegisterMount
    <2>4. CASE Serve
      <3>1. PICK c \in calls : Executed(c)
        BY <2>4, Serving
      <3>2. page' = page /\ at' = at
        BY <2>4, Serving
      <3>3. Live("register") # {} => Live("register")' # {}
        BY <3>1 DEF Executed, Live
      <3>4. QED
        BY <1>1, <2>2, <3>2, <3>3 DEF RegisterInv
    <2>5. CASE Input \/ Answer
      BY <1>1, <1>3, <2>2, <2>5 DEF RegisterInv, Input, Answer
    <2>6. CASE Settling \/ UNCHANGED vars
      BY <1>1, <2>2, <2>6 DEF Settling, Settle, vars, Live, RegisterInv
    <2>7. QED
      BY <2>3, <2>4, <2>5, <2>6 DEF Next
  <1>4. QED
    BY <1>2, <1>3

\* What the registration page holds, and what it has asked the API for, also from a page
\* that is gone: only names that an admin can type are registered.
THEOREM RegisterInvAlways == Spec => []RegisterInv
  <1>1. Init => RegisterInv
    BY DEF Init, RegisterInv, Names
  <1>2. CallsOK /\ RegisterInv /\ [Next]_vars => RegisterInv'
    BY RegisterStep
  <1>3. QED
    BY <1>1, <1>2, CallsAreOK, PTL DEF Spec

-----------------------------------------------------------------------------
(* The account pages: the list and the panel next to it *)

\* What follows is said of a page p and calls S, since a handler fetches on a page
\* and calls that it has changed already.
IsAccPage(p) ==
  /\ p = [search |-> p.search, applied |-> p.applied, n |-> p.n, items |-> p.items,
          asked |-> p.asked, shown |-> p.shown, of |-> p.of, loading |-> p.loading,
          error |-> p.error, selected |-> p.selected, detail |-> p.detail,
          detailLoading |-> p.detailLoading, detailError |-> p.detailError,
          acting |-> p.acting, actionError |-> p.actionError, target |-> p.target,
          raced |-> p.raced, crossed |-> p.crossed]
  /\ p.loading \in BOOLEAN /\ p.error \in BOOLEAN /\ p.detailLoading \in BOOLEAN
  /\ p.acting \in BOOLEAN /\ p.actionError \in BOOLEAN
  /\ p.raced \in BOOLEAN /\ p.crossed \in BOOLEAN

\* The requests for lists and for details whose answer is awaited, and those on
\* which an action waits: the action itself, its list, and its details.
ForList(c) == c.live /\ c.kind = "accounts"
ForDetail(c) == c.live /\ c.kind = "detail"
InChain(c) ==
  \/ c.live /\ c.kind \in Acts
  \/ ForList(c) /\ c.arg.after # none
  \/ ForDetail(c) /\ c.arg.last
KeyOf(c) == IF c.kind = "accounts" THEN c.arg.after ELSE c.arg.key

\* Every name on the page is that of an account, and a row of the list matches
\* the filter it was asked for with.
Matches(item, f) ==
  item \in Names /\ \E i \in DOMAIN Listed[f] : Listed[f][i] = item

NamesOK(p, S) ==
  /\ \A item \in p.items : Matches(item, p.asked)
  /\ p.detail.id \in Names \union {none} /\ p.target \in Names \union {none}
  /\ \A c \in S :
       /\ ForList(c) =>
            /\ c.arg.after \in Names \union {none, "done"}
            /\ c.served => \A item \in c.reply.items : Matches(item, c.arg.f)
       /\ ForDetail(c) =>
            /\ c.arg.key \in Names /\ c.arg.last \in BOOLEAN
            /\ c.served => c.reply = NoDetail \/ c.reply.id = c.arg.key
       /\ c.live /\ c.kind \in Acts => c.arg.key \in Names

\* Unless two lists raced, or one came of a filter that has been replaced, the one
\* awaited is of the filter applied, and the one that came is what the page says.
ListOK(p, S) ==
  /\ p.loading => \E c \in S : ForList(c)
  /\ ~p.raced =>
       /\ \A c, d \in S : ForList(c) /\ ForList(d) => c = d
       /\ \A c \in S : ForList(c) => p.loading /\ c.arg.f = p.applied
       /\ ~p.loading /\ ~p.error => p.asked = p.applied /\ p.shown = p.n

\* One action at a time, and it is under way as long as something follows it.
ChainOK(p, S) ==
  /\ p.acting => \E c \in S : InChain(c)
  /\ \A c \in S : InChain(c) => p.acting
  /\ \A c, d \in S : InChain(c) /\ InChain(d) => c = d
  /\ p.detailLoading => \E c \in S : ForDetail(c)

TrueDetail(d) == d.id \in accounts /\ d.issuer \in IssuerStatus(d.id)

\* Unless they were crossed, details are awaited alone: no other details, no action
\* left to be executed, and nothing selected but their row.
PanelOK(p, S) ==
  ~p.crossed =>
    /\ \A c, d \in S : ForDetail(c) /\ ForDetail(d) => c = d
    /\ \A c \in S : ForDetail(c) =>
         /\ p.detailLoading /\ Pending(S) = {}
         /\ ~c.arg.last => ~p.acting /\ p.target = none /\ p.selected \in {none, c.arg.key}
         /\ c.served /\ c.reply # NoDetail => TrueDetail(c.reply)
    /\ \A c \in S : InChain(c) /\ c.kind # "delete" /\ KeyOf(c) # "done" =>
                      p.selected \in {none, KeyOf(c)}
    /\ \A c \in S : ForList(c) /\ c.arg.after = "done" => p.detail.id = none
    /\ p.detail.id # none =>
         /\ \A c \in Pending(S) : c.live
         /\ (\A c \in S : ForDetail(c) => c.arg.last) => p.selected \in {none, p.detail.id}
         /\ (\A c \in S : ~ForDetail(c)) /\ ~p.acting /\ ~p.actionError => TrueDetail(p.detail)

AccOK(p, S) == IsAccPage(p) /\ NamesOK(p, S) /\ ListOK(p, S) /\ ChainOK(p, S) /\ PanelOK(p, S)
AccountsInv == at \in AccountViews => AccOK(page, calls)

-----------------------------------------------------------------------------
(* What a handler leaves alone *)

SameList(q, p) ==
  /\ q.applied = p.applied /\ q.n = p.n /\ q.asked = p.asked /\ q.shown = p.shown
  /\ q.loading = p.loading /\ q.error = p.error /\ q.raced = p.raced
SamePanel(q, p) ==
  /\ q.selected = p.selected /\ q.detail = p.detail /\ q.detailLoading = p.detailLoading
  /\ q.acting = p.acting /\ q.actionError = p.actionError /\ q.target = p.target
  /\ q.crossed = p.crossed

\* The calls of one sort are the same.
SameCalls(S, T, Sort(_)) == \A c : Sort(c) => (c \in T <=> c \in S)
OfPanel(c) == InChain(c) \/ ForDetail(c) \/ c.kind \in Acts

LEMMA ListKept ==
  ASSUME NEW p, NEW S, NEW q, NEW T, ListOK(p, S), SameList(q, p), SameCalls(S, T, ForList)
  PROVE  ListOK(q, T)
  BY DEF ListOK, SameList, SameCalls

LEMMA ChainKept ==
  ASSUME NEW p, NEW S, NEW q, NEW T, ChainOK(p, S), q.acting = p.acting,
         q.detailLoading = p.detailLoading, SameCalls(S, T, OfPanel)
  PROVE  ChainOK(q, T)
  BY DEF ChainOK, SameCalls, OfPanel

LEMMA PanelKept ==
  ASSUME NEW p, NEW S, NEW q, NEW T, PanelOK(p, S), SamePanel(q, p), SameCalls(S, T, OfPanel)
  PROVE  PanelOK(q, T)
  <1>1. Pending(T) = Pending(S)
    BY DEF Pending, SameCalls, OfPanel
  <1>2. \A c : InChain(c) \/ ForDetail(c) => (c \in T <=> c \in S)
    BY DEF SameCalls, OfPanel
  <1>3. \A c : ForList(c) /\ c.arg.after = "done" => InChain(c)
    BY DEF InChain
  <1>4. QED
    BY <1>1, <1>2, <1>3 DEF PanelOK, SamePanel

\* A page with nobody in the panel.
LEMMA PanelCleared ==
  ASSUME NEW p, NEW S, NEW q, PanelOK(p, S), q.selected = none, q.detail = NoDetail,
         q.detailLoading = p.detailLoading, q.acting = p.acting, q.target = p.target,
         q.crossed = p.crossed
  PROVE  PanelOK(q, S)
  BY DEF PanelOK, NoDetail

-----------------------------------------------------------------------------
(* The requests that a handler sends *)

ListCall(S, n, f, after) == NewCall(S, "accounts", [n |-> n, f |-> f, after |-> after])
FirstDetail(S, id) == NewCall(S, "detail", [key |-> id, last |-> FALSE])
LastDetail(S, id) == NewCall(S, "detail", [key |-> id, last |-> TRUE])
ActCall(S, kind, id, n, f) == NewCall(S, kind, [key |-> id, n |-> n, f |-> f])

LEMMA ListCallIs ==
  ASSUME NEW S, NEW n, NEW f, NEW after, NEW d, d = ListCall(S, n, f, after)
  PROVE  /\ ForList(d) /\ ~ForDetail(d) /\ d.kind \notin Acts /\ d.kind # "delete"
         /\ InChain(d) <=> after # none
         /\ KeyOf(d) = after /\ d.arg.after = after /\ d.arg.n = n /\ d.arg.f = f
         /\ ~d.served /\ d.live
  BY DEF ListCall, NewCall, ForList, ForDetail, Acts, InChain, KeyOf

LEMMA DetailCallIs ==
  ASSUME NEW S, NEW id, NEW d, d = FirstDetail(S, id) \/ d = LastDetail(S, id)
  PROVE  /\ ForDetail(d) /\ ~ForList(d) /\ d.kind \notin Acts /\ d.kind # "delete"
         /\ KeyOf(d) = id /\ d.arg.key = id /\ ~d.served /\ d.live
  BY DEF FirstDetail, LastDetail, NewCall, ForList, ForDetail, Acts, KeyOf

LEMMA ActCallIs ==
  ASSUME NEW S, NEW kind \in Acts, NEW id, NEW n, NEW f, NEW d, d = ActCall(S, kind, id, n, f)
  PROVE  /\ ~ForDetail(d) /\ ~ForList(d) /\ d.kind = kind /\ InChain(d)
         /\ KeyOf(d) = id /\ d.arg.key = id
         /\ ~d.served /\ d.live
  BY DEF ActCall, NewCall, ForList, ForDetail, Acts, InChain, KeyOf

LEMMA FetchListIs ==
  ASSUME NEW p, IsAccPage(p), NEW S, NEW n, NEW f, NEW after, NEW x,
         x = FetchList(p, S, n, f, after)
  PROVE  /\ x.S = S \union {ListCall(S, n, f, after)}
         /\ IsAccPage(x.p) /\ SamePanel(x.p, p)
         /\ x.p.search = p.search /\ x.p.applied = p.applied /\ x.p.n = p.n
         /\ x.p.items = p.items /\ x.p.asked = p.asked
         /\ x.p.loading
         /\ x.p.raced <=> (f # p.applied \/ \E c \in S : ForList(c))
  <1> DEFINE raced == f # p.applied \/ \E c \in S : c.live /\ c.kind = "accounts"
  <1>1. raced \in BOOLEAN /\ raced = (f # p.applied \/ \E c \in S : ForList(c))
    BY DEF ForList, IsAccPage
  <1>2. /\ x.p = [p EXCEPT !.loading = TRUE, !.error = FALSE, !.raced = raced]
        /\ x.S = Sent(S, "accounts", [n |-> n, f |-> f, after |-> after])
    BY DEF FetchList
  <1> HIDE DEF raced
  <1>3. x.p = [search |-> p.search, applied |-> p.applied, n |-> p.n, items |-> p.items,
               asked |-> p.asked, shown |-> p.shown, of |-> p.of, loading |-> TRUE,
               error |-> FALSE, selected |-> p.selected, detail |-> p.detail,
               detailLoading |-> p.detailLoading, detailError |-> p.detailError,
               acting |-> p.acting, actionError |-> p.actionError, target |-> p.target,
               raced |-> raced, crossed |-> p.crossed]
    BY <1>2 DEF IsAccPage
  <1>4. /\ IsAccPage(x.p) /\ SamePanel(x.p, p)
        /\ x.p.search = p.search /\ x.p.applied = p.applied /\ x.p.n = p.n
        /\ x.p.items = p.items /\ x.p.asked = p.asked
        /\ x.p.loading /\ x.p.raced = raced
    BY <1>1, <1>3 DEF IsAccPage, SamePanel
  <1>5. QED
    BY <1>1, <1>2, <1>4, SentCalls DEF ListCall

\* Details are asked for: those of a row, or the last of an action.
DetailAsked(x, p, S, d) ==
  /\ x.S = S \union {d}
  /\ IsAccPage(x.p) /\ SameList(x.p, p)
  /\ x.p.search = p.search /\ x.p.items = p.items
  /\ x.p.selected = p.selected /\ x.p.detail = p.detail /\ x.p.acting = p.acting
  /\ x.p.target = p.target /\ x.p.detailLoading
IsFirstDetail(x, p, S, id) ==
  /\ DetailAsked(x, p, S, FirstDetail(S, id))
  /\ x.p.crossed <=> Pending(S) # {} \/ (\E c \in S : ForDetail(c)) \/ p.acting
IsLastDetail(x, p, S, id) ==
  /\ DetailAsked(x, p, S, LastDetail(S, id))
  /\ x.p.crossed <=> Pending(S) # {} \/ (\E c \in S : ForDetail(c)) \/ p.crossed

PageAsked(p, crossed) ==
  [p EXCEPT !.detailLoading = TRUE, !.detailError = FALSE, !.actionError = FALSE,
            !.crossed = crossed]

LEMMA DetailAskedIs ==
  ASSUME NEW p, IsAccPage(p), NEW S, NEW arg, NEW x, NEW crossed \in BOOLEAN,
         x.p = PageAsked(p, crossed), x.S = Sent(S, "detail", arg)
  PROVE  DetailAsked(x, p, S, NewCall(S, "detail", arg)) /\ (x.p.crossed <=> crossed)
  <1>1. x.p = [search |-> p.search, applied |-> p.applied, n |-> p.n, items |-> p.items,
               asked |-> p.asked, shown |-> p.shown, of |-> p.of, loading |-> p.loading,
               error |-> p.error, selected |-> p.selected, detail |-> p.detail,
               detailLoading |-> TRUE, detailError |-> FALSE,
               acting |-> p.acting, actionError |-> FALSE, target |-> p.target,
               raced |-> p.raced, crossed |-> crossed]
    BY DEF IsAccPage, PageAsked
  <1>2. IsAccPage(x.p) /\ SameList(x.p, p)
    BY <1>1 DEF IsAccPage, SameList
  <1>3. /\ x.p.search = p.search /\ x.p.items = p.items
        /\ x.p.selected = p.selected /\ x.p.detail = p.detail /\ x.p.acting = p.acting
        /\ x.p.target = p.target /\ x.p.detailLoading /\ (x.p.crossed <=> crossed)
    BY <1>1
  <1>4. QED
    BY <1>2, <1>3, SentCalls DEF DetailAsked

LEMMA FetchFirstDetail ==
  ASSUME NEW p, IsAccPage(p), NEW S, NEW id
  PROVE  IsFirstDetail(FetchDetail(p, S, id, FALSE), p, S, id)
  <1>1. PICK x : x = FetchDetail(p, S, id, FALSE)
    OBVIOUS
  <1>2. PICK crossed \in BOOLEAN :
          crossed = (Pending(S) # {} \/ (\E c \in S : c.live /\ c.kind = "detail") \/ p.acting)
    BY DEF IsAccPage
  <1>3. PICK arg : arg = [key |-> id, last |-> FALSE]
    OBVIOUS
  <1>4. x.p = PageAsked(p, crossed) /\ x.S = Sent(S, "detail", arg)
    BY <1>1, <1>2, <1>3 DEF FetchDetail, PageAsked
  <1>5. crossed <=> Pending(S) # {} \/ (\E c \in S : ForDetail(c)) \/ p.acting
    BY <1>2 DEF ForDetail
  <1>6. DetailAsked(x, p, S, NewCall(S, "detail", arg)) /\ (x.p.crossed <=> crossed)
    BY <1>4, DetailAskedIs
  <1>7. FirstDetail(S, id) = NewCall(S, "detail", arg)
    BY <1>3 DEF FirstDetail
  <1>8. QED
    BY <1>1, <1>5, <1>6, <1>7 DEF IsFirstDetail

LEMMA FetchLastDetail ==
  ASSUME NEW p, IsAccPage(p), NEW S, NEW id
  PROVE  IsLastDetail(FetchDetail(p, S, id, TRUE), p, S, id)
  <1>1. PICK x : x = FetchDetail(p, S, id, TRUE)
    OBVIOUS
  <1>2. PICK crossed \in BOOLEAN :
          crossed = (Pending(S) # {} \/ (\E c \in S : c.live /\ c.kind = "detail") \/ p.crossed)
    BY DEF IsAccPage
  <1>3. PICK arg : arg = [key |-> id, last |-> TRUE]
    OBVIOUS
  <1>4. x.p = PageAsked(p, crossed) /\ x.S = Sent(S, "detail", arg)
    BY <1>1, <1>2, <1>3 DEF FetchDetail, PageAsked
  <1>5. crossed <=> Pending(S) # {} \/ (\E c \in S : ForDetail(c)) \/ p.crossed
    BY <1>2 DEF ForDetail
  <1>6. DetailAsked(x, p, S, NewCall(S, "detail", arg)) /\ (x.p.crossed <=> crossed)
    BY <1>4, DetailAskedIs
  <1>7. LastDetail(S, id) = NewCall(S, "detail", arg)
    BY <1>3 DEF LastDetail
  <1>8. QED
    BY <1>1, <1>5, <1>6, <1>7 DEF IsLastDetail

\* A list is fetched: with the filter applied and alone, or it races.
LEMMA ListFetched ==
  ASSUME NEW p, IsAccPage(p), NEW S, NEW n, NEW f, NEW after, NEW x,
         x = FetchList(p, S, n, f, after)
  PROVE  ListOK(x.p, x.S)
  <1>0. PICK d : d = ListCall(S, n, f, after)
    OBVIOUS
  <1>1. /\ x.S = S \union {d} /\ x.p.loading
        /\ x.p.applied = p.applied /\ x.p.n = p.n
        /\ x.p.raced <=> (f # p.applied \/ \E c \in S : ForList(c))
    BY <1>0, FetchListIs
  <1>2. ForList(d) /\ d.arg.n = n /\ d.arg.f = f
    BY <1>0, ListCallIs
  <1>3. QED
    BY <1>1, <1>2 DEF ListOK

\* What is left once the list is set apart.
RestOK(p, S) == IsAccPage(p) /\ NamesOK(p, S) /\ ChainOK(p, S) /\ PanelOK(p, S)

LEMMA PlainFetch ==
  ASSUME NEW p, NEW S, RestOK(p, S), NEW x, x = FetchList(p, S, p.n, p.applied, none)
  PROVE  AccOK(x.p, x.S) /\ SamePanel(x.p, p)
  <1>0. PICK d : d = ListCall(S, p.n, p.applied, none)
    OBVIOUS
  <1>1. /\ x.S = S \union {d} /\ IsAccPage(x.p) /\ SamePanel(x.p, p)
        /\ x.p.items = p.items /\ x.p.asked = p.asked
    BY <1>0, FetchListIs DEF RestOK
  <1>2. /\ ForList(d) /\ ~ForDetail(d) /\ d.kind \notin Acts /\ ~InChain(d)
        /\ d.arg.after = none /\ ~d.served
    BY <1>0, ListCallIs
  <1>3. SameCalls(S, x.S, OfPanel)
    BY <1>1, <1>2 DEF SameCalls, OfPanel
  <1>4. ListOK(x.p, x.S)
    BY ListFetched DEF RestOK
  <1>5. ChainOK(x.p, x.S)
    BY <1>1, <1>3, ChainKept DEF RestOK, SamePanel
  <1>6. PanelOK(x.p, x.S)
    BY <1>1, <1>3, PanelKept DEF RestOK
  <1>7. NamesOK(x.p, x.S)
    BY <1>1, <1>2 DEF RestOK, NamesOK, SamePanel
  <1>8. QED
    BY <1>1, <1>4, <1>5, <1>6, <1>7 DEF AccOK

\* The effect fetches a list, or the page needs none.
LEMMA EffectKeeps ==
  ASSUME NEW p, NEW S, RestOK(p, S), NEW x, x = Effect(p, S),
         p.n = page.n /\ p.applied = page.applied => ListOK(p, S)
  PROVE  AccOK(x.p, x.S) /\ SamePanel(x.p, p)
  <1>1. CASE p.n = page.n /\ p.applied = page.applied
    <2>1. x = [p |-> p, S |-> S]
      BY <1>1 DEF Effect
    <2>2. x.p = p /\ x.S = S
      BY <2>1
    <2>3. QED
      BY <1>1, <2>2 DEF AccOK, RestOK, SamePanel
  <1>2. CASE ~(p.n = page.n /\ p.applied = page.applied)
    <2>1. x = FetchList(p, S, p.n, p.applied, none)
      BY <1>2 DEF Effect
    <2>2. QED
      BY <2>1, PlainFetch
  <1>3. QED
    BY <1>1, <1>2

\* Details of a row that was clicked, or that the page starts with.
LEMMA DetailChosen ==
  ASSUME NEW p, NEW S, IsAccPage(p), NamesOK(p, S), ChainOK(p, S),
         NEW id \in Names, p.selected = id, p.target = none,
         NEW x, IsFirstDetail(x, p, S, id)
  PROVE  RestOK(x.p, x.S) /\ (ListOK(p, S) => ListOK(x.p, x.S))
  <1>0. PICK d : d = FirstDetail(S, id)
    OBVIOUS
  <1>1. /\ x.S = S \union {d} /\ IsAccPage(x.p) /\ SameList(x.p, p)
        /\ x.p.items = p.items /\ x.p.detailLoading
        /\ x.p.selected = id /\ x.p.detail = p.detail /\ x.p.target = none
    BY <1>0 DEF IsFirstDetail, DetailAsked
  <1>2. /\ x.p.acting = p.acting
        /\ x.p.crossed <=> Pending(S) # {} \/ (\E c \in S : ForDetail(c)) \/ p.acting
    BY DEF IsFirstDetail, DetailAsked
  <1>3. /\ ForDetail(d) /\ ~ForList(d) /\ d.kind \notin Acts
        /\ d.arg.key = id /\ ~d.served /\ d.live
    BY <1>0, DetailCallIs
  <1>4. d.arg.last = FALSE /\ ~InChain(d)
    BY <1>0, <1>3 DEF FirstDetail, NewCall, InChain
  <1>5. SameCalls(S, x.S, ForList)
    BY <1>1, <1>3 DEF SameCalls
  <1>6. ListOK(p, S) => ListOK(x.p, x.S)
    BY <1>1, <1>5, ListKept
  <1>7. NamesOK(x.p, x.S)
    BY <1>1, <1>3, <1>4 DEF NamesOK, SameList
  <1>8. ChainOK(x.p, x.S)
    BY <1>1, <1>2, <1>3, <1>4 DEF ChainOK
  <1>9. PanelOK(x.p, x.S)
    <2>1. SUFFICES ASSUME ~x.p.crossed PROVE PanelOK(x.p, x.S)
      BY DEF PanelOK
    <2>2. Pending(S) = {} /\ (\A c \in S : ~ForDetail(c)) /\ ~p.acting
      BY <1>2, <2>1
    <2>3. Pending(x.S) = {}
      BY <1>1, <1>3, <2>2 DEF Pending
    <2>4. \A c \in x.S : ForDetail(c) => c = d
      BY <1>1, <2>2
    <2>5. \A c \in x.S : ~InChain(c)
      BY <1>1, <1>4, <2>2 DEF ChainOK
    <2>6. \A c \in x.S : ForList(c) => c.arg.after # "done"
      BY <2>5 DEF InChain
    <2>7. QED
      BY <1>1, <1>2, <1>3, <1>4, <2>2, <2>3, <2>4, <2>5, <2>6 DEF PanelOK
  <1>10. QED
    BY <1>1, <1>6, <1>7, <1>8, <1>9 DEF RestOK

\* The details an action goes on to, once its list is there.
LEMMA DetailFollows ==
  ASSUME NEW p, NEW S, IsAccPage(p), NamesOK(p, S), ListOK(p, S), NEW id \in Names,
         p.acting, \A c \in S : ~InChain(c),
         ~p.crossed => /\ p.selected \in {none, id}
                       /\ (\A c \in S : ~ForDetail(c)) /\ p.detail.id # none =>
                             p.selected \in {none, p.detail.id},
         NEW x, IsLastDetail(x, p, S, id)
  PROVE  AccOK(x.p, x.S)
  <1>0. PICK d : d = LastDetail(S, id)
    OBVIOUS
  <1>1. /\ x.S = S \union {d} /\ IsAccPage(x.p) /\ SameList(x.p, p)
        /\ x.p.items = p.items /\ x.p.detailLoading
        /\ x.p.selected = p.selected /\ x.p.detail = p.detail /\ x.p.target = p.target
    BY <1>0 DEF IsLastDetail, DetailAsked
  <1>2. /\ x.p.acting = p.acting
        /\ x.p.crossed <=> Pending(S) # {} \/ (\E c \in S : ForDetail(c)) \/ p.crossed
    BY DEF IsLastDetail, DetailAsked
  <1>3. /\ ForDetail(d) /\ ~ForList(d) /\ d.kind \notin Acts
        /\ KeyOf(d) = id /\ d.arg.key = id /\ ~d.served /\ d.live
    BY <1>0, DetailCallIs
  <1>4. d.arg.last = TRUE /\ InChain(d)
    BY <1>0, <1>3 DEF LastDetail, NewCall, InChain
  <1>5. ListOK(x.p, x.S)
    <2>1. SameCalls(S, x.S, ForList)
      BY <1>1, <1>3 DEF SameCalls
    <2>2. QED
      BY <1>1, <2>1, ListKept
  <1>6. NamesOK(x.p, x.S)
    BY <1>1, <1>3, <1>4 DEF NamesOK, SameList
  <1>7. ChainOK(x.p, x.S)
    BY <1>1, <1>2, <1>3, <1>4 DEF ChainOK
  <1>8. PanelOK(x.p, x.S)
    <2>1. SUFFICES ASSUME ~x.p.crossed PROVE PanelOK(x.p, x.S)
      BY DEF PanelOK
    <2>2. Pending(S) = {} /\ (\A c \in S : ~ForDetail(c)) /\ ~p.crossed
      BY <1>2, <2>1
    <2>3. Pending(x.S) = {}
      BY <1>1, <1>3, <2>2 DEF Pending
    <2>4. \A c \in x.S : InChain(c) \/ ForDetail(c) => c = d
      BY <1>1, <2>2
    <2>5. \A c \in x.S : ForList(c) => c.arg.after # "done"
      <3>1. \A c \in S : ForList(c) => c.arg.after = none
        BY DEF InChain
      <3>2. QED
        BY <1>1, <1>3, <3>1
    <2>6. QED
      BY <1>1, <1>2, <1>3, <1>4, <2>2, <2>3, <2>4, <2>5 DEF PanelOK
  <1>9. QED
    BY <1>1, <1>5, <1>6, <1>7, <1>8 DEF AccOK

-----------------------------------------------------------------------------
(* A request that has been executed *)

Swapped(S, T, c, d) ==
  /\ c \in S /\ T = (S \ {c}) \union {d}
  /\ c.live /\ d.live /\ d.served /\ d.kind = c.kind /\ d.arg = c.arg

LEMMA SwappedSorts ==
  ASSUME NEW S, NEW T, NEW c, NEW d, Swapped(S, T, c, d)
  PROVE  /\ ForList(d) <=> ForList(c)
         /\ ForDetail(d) <=> ForDetail(c)
         /\ InChain(d) <=> InChain(c)
         /\ KeyOf(d) = KeyOf(c)
         /\ Pending(T) = Pending(S) \ {c}
  BY DEF Swapped, ForList, ForDetail, InChain, KeyOf, Pending

LEMMA SwapKeeps ==
  ASSUME NEW p, NEW S, NEW T, NEW c, NEW d, Swapped(S, T, c, d), AccOK(p, S),
         ForList(c) => \A item \in d.reply.items : Matches(item, c.arg.f),
         ForDetail(c) => d.reply = NoDetail \/ (d.reply.id = c.arg.key /\ TrueDetail(d.reply))
  PROVE  AccOK(p, T)
  <1>1. /\ ForList(d) <=> ForList(c)
        /\ ForDetail(d) <=> ForDetail(c)
        /\ InChain(d) <=> InChain(c)
        /\ KeyOf(d) = KeyOf(c)
        /\ Pending(T) = Pending(S) \ {c}
    BY SwappedSorts
  <1>2. c \in S /\ T = (S \ {c}) \union {d} /\ d.arg = c.arg /\ d.kind = c.kind
    BY DEF Swapped
  <1>3. NamesOK(p, T)
    <2>1. NamesOK(p, S) /\ c.live
      BY DEF AccOK, Swapped
    <2>2. QED
      BY <1>1, <1>2, <2>1 DEF NamesOK
  <1>4. ListOK(p, T)
    BY <1>1, <1>2 DEF AccOK, ListOK
  <1>5. ChainOK(p, T)
    BY <1>1, <1>2 DEF AccOK, ChainOK
  <1>6. PanelOK(p, T)
    <2>1. SUFFICES ASSUME ~p.crossed PROVE PanelOK(p, T)
      BY DEF PanelOK
    <2>2. /\ \A a, b \in T : ForDetail(a) /\ ForDetail(b) => a = b
          /\ \A a \in T : ForList(a) /\ a.arg.after = "done" => p.detail.id = none
          /\ \A a \in T : InChain(a) /\ a.kind # "delete" /\ KeyOf(a) # "done" =>
                            p.selected \in {none, KeyOf(a)}
      BY <1>1, <1>2, <2>1 DEF AccOK, PanelOK
    <2>3. \A a \in T : ForDetail(a) =>
            /\ p.detailLoading /\ Pending(T) = {}
            /\ ~a.arg.last => ~p.acting /\ p.target = none /\ p.selected \in {none, a.arg.key}
            /\ a.served /\ a.reply # NoDetail => TrueDetail(a.reply)
      BY <1>1, <1>2, <2>1 DEF AccOK, PanelOK
    <2>4. p.detail.id # none =>
            /\ \A a \in Pending(T) : a.live
            /\ (\A a \in T : ForDetail(a) => a.arg.last) => p.selected \in {none, p.detail.id}
            /\ (\A a \in T : ~ForDetail(a)) /\ ~p.acting /\ ~p.actionError => TrueDetail(p.detail)
      BY <1>1, <1>2, <2>1 DEF AccOK, PanelOK
    <2>5. QED
      BY <2>2, <2>3, <2>4 DEF PanelOK
  <1>7. QED
    BY <1>3, <1>4, <1>5, <1>6 DEF AccOK

-----------------------------------------------------------------------------
(* What the account pages let one do *)

LEMMA NamesAreNames == none \notin Names /\ "done" \notin Names /\ NoDetail.id = none
  BY AppAssumption DEF Names, NoDetail

\* No details are awaited while an action is under way that they do not belong to,
\* and none at all while it is left to be executed, or its list is awaited.
LEMMA NoDetailMeanwhile ==
  ASSUME NEW p, NEW S, ChainOK(p, S), PanelOK(p, S), ~p.crossed,
         NEW c \in S, InChain(c), ~ForDetail(c)
  PROVE  p.acting /\ \A d \in S : ~ForDetail(d)
  <1>1. p.acting
    BY DEF ChainOK
  <1>2. ASSUME NEW d \in S, ForDetail(d)
        PROVE  FALSE
    <2>1. d.arg.last
      BY <1>1, <1>2 DEF PanelOK
    <2>2. InChain(d)
      BY <1>2, <2>1 DEF InChain
    <2>3. d = c
      BY <2>2 DEF ChainOK
    <2>4. QED
      BY <1>2, <2>3
  <1>3. QED
    BY <1>1, <1>2

LEMMA TypeKeeps ==
  ASSUME AccOK(page, calls), NEW f, AccType(f)
  PROVE  AccOK(page', calls')
  <1>1. page' = [page EXCEPT !.search = f] /\ calls' = calls
    BY DEF AccType
  <1>2. /\ IsAccPage(page') /\ SameList(page', page) /\ SamePanel(page', page)
        /\ page'.items = page.items
    BY <1>1 DEF AccOK, IsAccPage, SameList, SamePanel
  <1>3. /\ NamesOK(page', calls) /\ ListOK(page', calls) /\ ChainOK(page', calls)
        /\ PanelOK(page', calls)
    BY <1>2 DEF AccOK, SameList, SamePanel, NamesOK, ListOK, ChainOK, PanelOK
  <1>4. QED
    BY <1>1, <1>2, <1>3 DEF AccOK

LEMMA ApplyKeeps ==
  ASSUME AccOK(page, calls), AccApply
  PROVE  AccOK(page', calls')
  <1>1. PICK p : p = [page EXCEPT !.selected = none, !.detail = NoDetail,
                                  !.applied = page.search, !.n = 1]
    OBVIOUS
  <1>2. p = [search |-> page.search, applied |-> page.search, n |-> 1, items |-> page.items,
             asked |-> page.asked, shown |-> page.shown, of |-> page.of,
             loading |-> page.loading, error |-> page.error, selected |-> none,
             detail |-> NoDetail, detailLoading |-> page.detailLoading,
             detailError |-> page.detailError, acting |-> page.acting,
             actionError |-> page.actionError, target |-> page.target,
             raced |-> page.raced, crossed |-> page.crossed]
    BY <1>1 DEF AccOK, IsAccPage
  <1>3. /\ IsAccPage(p) /\ p.items = page.items /\ p.asked = page.asked
        /\ p.selected = none /\ p.detail = NoDetail
        /\ p.detailLoading = page.detailLoading /\ p.acting = page.acting
        /\ p.target = page.target /\ p.crossed = page.crossed
        /\ p.n = page.n /\ p.applied = page.applied => SameList(p, page)
    BY <1>2 DEF AccOK, IsAccPage, SameList
  <1>4. NamesOK(p, calls)
    BY <1>3, NamesAreNames DEF AccOK, NamesOK
  <1>5. ChainOK(p, calls)
    BY <1>3 DEF AccOK, ChainOK
  <1>6. PanelOK(p, calls)
    BY <1>3, PanelCleared DEF AccOK
  <1>7. p.n = page.n /\ p.applied = page.applied => ListOK(p, calls)
    BY <1>3 DEF AccOK, ListOK, SameList
  <1>8. RestOK(p, calls)
    BY <1>3, <1>4, <1>5, <1>6 DEF RestOK
  <1>9. PICK x : x = Effect(p, calls)
    OBVIOUS
  <1>10. page' = x.p /\ calls' = x.S
    BY <1>1, <1>9 DEF AccApply, Take
  <1>11. AccOK(x.p, x.S)
    BY <1>7, <1>8, <1>9, EffectKeeps
  <1>12. QED
    BY <1>10, <1>11

LEMMA TurnKeeps ==
  ASSUME AccOK(page, calls), NEW n, AccTurn(n)
  PROVE  AccOK(page', calls')
  <1>1. PICK p : p = [page EXCEPT !.n = n]
    OBVIOUS
  <1>2. /\ IsAccPage(p) /\ SamePanel(p, page)
        /\ p.items = page.items /\ p.asked = page.asked
        /\ p.n = page.n => SameList(p, page)
    BY <1>1 DEF AccOK, IsAccPage, SameList, SamePanel
  <1>3. NamesOK(p, calls)
    BY <1>2 DEF AccOK, NamesOK, SamePanel
  <1>4. ChainOK(p, calls)
    BY <1>2 DEF AccOK, ChainOK, SamePanel
  <1>5. PanelOK(p, calls)
    BY <1>2 DEF AccOK, PanelOK, SamePanel
  <1>6. p.n = page.n /\ p.applied = page.applied => ListOK(p, calls)
    BY <1>2 DEF AccOK, ListOK, SameList
  <1>7. RestOK(p, calls)
    BY <1>2, <1>3, <1>4, <1>5 DEF RestOK
  <1>8. PICK x : x = Effect(p, calls)
    OBVIOUS
  <1>9. page' = x.p /\ calls' = x.S
    BY <1>1, <1>8 DEF AccTurn, Take
  <1>10. AccOK(x.p, x.S)
    BY <1>6, <1>7, <1>8, EffectKeeps
  <1>11. QED
    BY <1>9, <1>10

LEMMA SelectKeeps ==
  ASSUME AccOK(page, calls), NEW id, AccSelect(id)
  PROVE  AccOK(page', calls')
  <1>1. PICK p : p = [page EXCEPT !.selected = id]
    OBVIOUS
  <1>2. id \in Names
    BY DEF AccSelect, AccOK, NamesOK, Matches
  <1>3. /\ IsAccPage(p) /\ SameList(p, page) /\ p.items = page.items
        /\ p.selected = id /\ p.target = page.target /\ p.detail = page.detail
        /\ p.acting = page.acting /\ p.detailLoading = page.detailLoading
    BY <1>1 DEF AccOK, IsAccPage, SameList
  <1>4. p.target = none
    BY <1>3 DEF AccSelect
  <1>5. NamesOK(p, calls) /\ ListOK(p, calls) /\ ChainOK(p, calls)
    BY <1>3 DEF AccOK, NamesOK, ListOK, ChainOK, SameList
  <1>6. PICK x : x = FetchDetail(p, calls, id, FALSE)
    OBVIOUS
  <1>7. page' = x.p /\ calls' = x.S
    BY <1>1, <1>6 DEF AccSelect, Take
  <1>8. IsFirstDetail(FetchDetail(p, calls, id, FALSE), p, calls, id)
    BY <1>3, FetchFirstDetail
  <1>9. IsFirstDetail(x, p, calls, id)
    BY <1>6, <1>8
  <1>10. RestOK(x.p, x.S) /\ ListOK(x.p, x.S)
    BY <1>2, <1>3, <1>4, <1>5, <1>9, DetailChosen
  <1>11. QED
    BY <1>7, <1>10 DEF RestOK, AccOK

LEMMA CloseKeeps ==
  ASSUME AccOK(page, calls), AccClose
  PROVE  AccOK(page', calls')
  <1>1. /\ page' = [page EXCEPT !.selected = none, !.detail = NoDetail,
                                !.detailError = FALSE, !.actionError = FALSE]
        /\ calls' = calls
    BY DEF AccClose
  <1>2. PICK p : p = page'
    OBVIOUS
  <1>3. p = [search |-> page.search, applied |-> page.applied, n |-> page.n,
             items |-> page.items,
             asked |-> page.asked, shown |-> page.shown, of |-> page.of,
             loading |-> page.loading, error |-> page.error, selected |-> none,
             detail |-> NoDetail, detailLoading |-> page.detailLoading,
             detailError |-> FALSE, acting |-> page.acting,
             actionError |-> FALSE, target |-> page.target,
             raced |-> page.raced, crossed |-> page.crossed]
    BY <1>1, <1>2 DEF AccOK, IsAccPage
  <1>4. /\ IsAccPage(p) /\ SameList(p, page) /\ p.items = page.items
        /\ p.selected = none /\ p.detail = NoDetail
        /\ p.detailLoading = page.detailLoading /\ p.acting = page.acting
        /\ p.target = page.target /\ p.crossed = page.crossed
    BY <1>3 DEF AccOK, IsAccPage, SameList
  <1>5. NamesOK(p, calls)
    BY <1>4, NamesAreNames DEF AccOK, NamesOK, SameList
  <1>6. ListOK(p, calls) /\ ChainOK(p, calls)
    BY <1>4 DEF AccOK, ListOK, ChainOK, SameList
  <1>7. PanelOK(p, calls)
    BY <1>4, PanelCleared DEF AccOK
  <1>8. QED
    BY <1>1, <1>2, <1>4, <1>5, <1>6, <1>7 DEF AccOK

LEMMA DialogKeeps ==
  ASSUME AccOK(page, calls), AccDeleteAsk \/ AccDeleteCancel
  PROVE  AccOK(page', calls')
  <1>1. PICK id : id = IF AccDeleteAsk THEN page.detail.id ELSE none
    OBVIOUS
  <1>2. page' = [page EXCEPT !.target = id] /\ calls' = calls
    BY <1>1 DEF AccDeleteAsk, AccDeleteCancel
  <1>3. PICK p : p = page'
    OBVIOUS
  <1>4. /\ IsAccPage(p) /\ SameList(p, page) /\ p.items = page.items
        /\ p.selected = page.selected /\ p.detail = page.detail
        /\ p.detailLoading = page.detailLoading /\ p.acting = page.acting
        /\ p.actionError = page.actionError /\ p.crossed = page.crossed /\ p.target = id
    BY <1>2, <1>3 DEF AccOK, IsAccPage, SameList
  <1>5. id \in Names \union {none} /\ (id # none => ~page.detailLoading)
    BY <1>1 DEF AccOK, NamesOK, AccDeleteAsk, Manageable
  <1>6. NamesOK(p, calls)
    BY <1>4, <1>5 DEF AccOK, NamesOK, SameList
  <1>7. ListOK(p, calls) /\ ChainOK(p, calls)
    BY <1>4 DEF AccOK, ListOK, ChainOK, SameList
  <1>8. PanelOK(p, calls)
    BY <1>4, <1>5 DEF AccOK, PanelOK
  <1>9. QED
    BY <1>2, <1>3, <1>4, <1>6, <1>7, <1>8 DEF AccOK

\* An action on whom the details are of, or whom the dialog asks about.
LEMMA ActingKeeps ==
  ASSUME AccOK(page, calls), NEW kind \in Acts, NEW id \in Names, ~page.acting,
         page.target # none \/ ~page.detailLoading,
         kind = "delete" \/ id = page.detail.id, Acting(kind, id)
  PROVE  AccOK(page', calls')
  <1>1. PICK p, d : p = page' /\ d = ActCall(calls, kind, id, page.n, page.applied)
    OBVIOUS
  <1>2. calls' = calls \union {d}
    BY <1>1, SentCalls DEF Acting, ActCall
  <1>3. /\ ~ForDetail(d) /\ ~ForList(d) /\ d.kind = kind /\ InChain(d)
        /\ KeyOf(d) = id /\ d.arg.key = id /\ ~d.served /\ d.live
    BY <1>1, ActCallIs
  <1>4. /\ p = [page EXCEPT !.acting = TRUE, !.actionError = FALSE]
    BY <1>1 DEF Acting
  <1>5. p = [search |-> page.search, applied |-> page.applied, n |-> page.n,
             items |-> page.items,
             asked |-> page.asked, shown |-> page.shown, of |-> page.of,
             loading |-> page.loading, error |-> page.error, selected |-> page.selected,
             detail |-> page.detail, detailLoading |-> page.detailLoading,
             detailError |-> page.detailError, acting |-> TRUE,
             actionError |-> FALSE, target |-> page.target,
             raced |-> page.raced, crossed |-> page.crossed]
    BY <1>4 DEF AccOK, IsAccPage
  <1>6. /\ IsAccPage(p) /\ SameList(p, page) /\ p.items = page.items
        /\ p.selected = page.selected /\ p.detail = page.detail
        /\ p.detailLoading = page.detailLoading /\ p.acting
        /\ p.target = page.target /\ p.crossed = page.crossed
    BY <1>5 DEF AccOK, IsAccPage, SameList
  <1>7. \A c \in calls : ~InChain(c)
    BY DEF AccOK, ChainOK
  <1>8. NamesOK(p, calls')
    BY <1>2, <1>3, <1>6 DEF AccOK, NamesOK, SameList
  <1>9. ListOK(p, calls')
    BY <1>2, <1>3, <1>6 DEF AccOK, ListOK, SameList
  <1>10. ChainOK(p, calls')
    BY <1>2, <1>3, <1>6, <1>7 DEF AccOK, ChainOK
  <1>11. PanelOK(p, calls')
    <2>1. SUFFICES ASSUME ~page.crossed PROVE PanelOK(p, calls')
      BY <1>6 DEF PanelOK
    <2>2. \A c \in calls : ~ForDetail(c)
      <3>1. \A c \in calls : ForDetail(c) => ~c.arg.last
        BY <1>7 DEF InChain
      <3>2. QED
        BY <2>1, <3>1 DEF AccOK, PanelOK
    <2>3. \A c \in calls' : ~ForDetail(c) /\ (InChain(c) => c = d)
      BY <1>2, <1>3, <1>7, <2>2
    <2>4. \A c \in calls' : ForList(c) => c.arg.after # "done"
      BY <1>3, <2>3 DEF InChain
    <2>5. page.detail.id # none =>
            page.selected \in {none, page.detail.id} /\ \A c \in Pending(calls) : c.live
      BY <2>1, <2>2 DEF AccOK, PanelOK
    <2>6. \A c \in Pending(calls') : c \in Pending(calls) \/ c.live
      BY <1>2, <1>3 DEF Pending
    <2>7. id = page.detail.id => page.detail.id # none
      BY NamesAreNames
    <2>8. QED
      BY <1>3, <1>6, <2>3, <2>4, <2>5, <2>6, <2>7 DEF PanelOK
  <1>12. QED
    BY <1>1, <1>6, <1>8, <1>9, <1>10, <1>11 DEF AccOK

LEMMA AccountsInputs ==
  ASSUME AccOK(page, calls), AccountsInput
  PROVE  AccOK(page', calls')
  <1>1. CASE AccAuthorize \/ AccRevoke
    <2>1. \E kind \in Acts : kind # "delete" /\ Acting(kind, page.detail.id)
      BY <1>1 DEF AccAuthorize, AccRevoke, Acts
    <2>2. page.detail.id \in Names /\ ~page.acting /\ ~page.detailLoading
      BY <1>1 DEF AccAuthorize, AccRevoke, Manageable, AccOK, NamesOK
    <2>3. QED
      BY <2>1, <2>2, ActingKeeps
  <1>2. CASE AccDeleteConfirm
    <2>1. page.target \in Names /\ page.target # none /\ ~page.acting
          /\ "delete" \in Acts /\ Acting("delete", page.target)
      BY <1>2 DEF AccDeleteConfirm, AccOK, NamesOK, Acts
    <2>2. QED
      BY <2>1, ActingKeeps
  <1>3. QED
    BY <1>1, <1>2, TypeKeeps, ApplyKeeps, TurnKeeps, SelectKeeps, CloseKeeps, DialogKeeps
    DEF AccountsInput

-----------------------------------------------------------------------------
(* The answers of the API, on the account pages *)

LEMMA ListIsServed ==
  ASSUME CallsOK, AccOK(page, calls), accounts \subseteq Names, NEW c, AccountsServe(c)
  PROVE  AccOK(page', calls')
  <1>1. PICK r :
          r = [items |-> {Listed[c.arg.f][i] : i \in OnListPage(c.arg.f, c.arg.n)},
               of |-> Cardinality(Matching(c.arg.f))]
    OBVIOUS
  <1>2. PICK d : d = Replied(c, r)
    OBVIOUS
  <1>3. /\ c \in calls /\ c.live /\ c.kind = "accounts" /\ page' = page
        /\ calls' = (calls \ {c}) \union {d}
    BY <1>1, <1>2, ServedCalls DEF AccountsServe, Live
  <1>4. IsCall(c) /\ c.live = TRUE
    BY <1>3 DEF CallsOK, AreCalls, IsCall
  <1>5. d.live = TRUE /\ d.served = TRUE /\ d.kind = c.kind /\ d.arg = c.arg /\ d.reply = r
    BY <1>2, <1>4, RepliedIs
  <1>6. Swapped(calls, calls', c, d)
    BY <1>3, <1>5 DEF Swapped
  <1>7. \A item \in d.reply.items : Matches(item, c.arg.f)
    <2>1. ASSUME NEW item \in d.reply.items
          PROVE  Matches(item, c.arg.f)
      <3>1. PICK i \in OnListPage(c.arg.f, c.arg.n) : item = Listed[c.arg.f][i]
        BY <1>1, <1>5
      <3>2. i \in DOMAIN Listed[c.arg.f] /\ Listed[c.arg.f][i] \in accounts
        BY DEF OnListPage, Matching
      <3>3. QED
        BY <3>1, <3>2 DEF Matches
    <2>2. QED
      BY <2>1
  <1>8. ~ForDetail(c)
    BY <1>3 DEF ForDetail
  <1>9. QED
    BY <1>3, <1>6, <1>7, <1>8, SwapKeeps

LEMMA DetailIsServed ==
  ASSUME CallsOK, AccOK(page, calls), NEW c, DetailServe(c)
  PROVE  AccOK(page', calls')
  <1>0. PICK status :
          /\ status \in IF at = "admins" THEN IssuerStatus(c.arg.key) ELSE {"unknown"}
          /\ calls' = Served(c, IF c.arg.key \in accounts
                                 THEN [id |-> c.arg.key, issuer |-> status] ELSE NoDetail)
    BY DEF DetailServe
  <1>1. PICK r : r = IF c.arg.key \in accounts THEN [id |-> c.arg.key, issuer |-> status]
                     ELSE NoDetail
    OBVIOUS
  <1>2. PICK d : d = Replied(c, r)
    OBVIOUS
  <1>3. /\ c \in calls /\ c.live /\ c.kind = "detail" /\ page' = page
        /\ calls' = (calls \ {c}) \union {d}
    BY <1>0, <1>1, <1>2, ServedCalls DEF DetailServe, Live
  <1>4. IsCall(c) /\ c.live = TRUE
    BY <1>3 DEF CallsOK, AreCalls, IsCall
  <1>5. d.live = TRUE /\ d.served = TRUE /\ d.kind = c.kind /\ d.arg = c.arg /\ d.reply = r
    BY <1>2, <1>4, RepliedIs
  <1>6. Swapped(calls, calls', c, d)
    BY <1>3, <1>5 DEF Swapped
  <1>7. r = NoDetail \/ (r.id = c.arg.key /\ TrueDetail(r))
    BY <1>0, <1>1 DEF IssuerStatus, TrueDetail
  <1>8. ~ForList(c)
    BY <1>3 DEF ForList
  <1>9. QED
    BY <1>3, <1>5, <1>6, <1>7, <1>8, SwapKeeps

\* What an answered list leaves on the page.
ListGot(p, c, outcome) ==
  /\ IsAccPage(p) /\ p.applied = page.applied /\ ~p.loading /\ p.raced = page.raced
  /\ \/ /\ outcome = "ok" /\ p.items = c.reply.items /\ p.asked = c.arg.f
        /\ p.n = c.arg.n /\ p.shown = c.arg.n
     \/ outcome # "ok" /\ p.items = {} /\ p.error /\ p.n = page.n

LEMMA ListGotKeeps ==
  ASSUME AccOK(page, calls), NEW c \in calls, ForList(c), NEW outcome,
         outcome = "ok" => c.served,
         NEW p, ListGot(p, c, outcome), p.detail = page.detail, p.target = page.target
  PROVE  /\ NamesOK(p, calls \ {c})
         /\ p.n = page.n /\ p.applied = page.applied => ListOK(p, calls \ {c})
  <1>1. \A item \in p.items : Matches(item, p.asked)
    BY DEF AccOK, NamesOK, ListGot
  <1>2. NamesOK(p, calls \ {c})
    BY <1>1 DEF AccOK, NamesOK
  <1>3. ASSUME p.n = page.n
        PROVE  ListOK(p, calls \ {c})
    <2>1. ~page.raced => \A d \in calls \ {c} : ~ForList(d)
      BY DEF AccOK, ListOK
    <2>2. ~page.raced => c.arg.f = page.applied
      BY DEF AccOK, ListOK
    <2>3. QED
      BY <2>1, <2>2 DEF ListGot, ListOK
  <1>4. QED
    BY <1>2, <1>3

LEMMA ListIsAnswered ==
  ASSUME AccOK(page, calls), NEW c, NEW outcome, AccountsAnswer(c, outcome)
  PROVE  AccOK(page', calls')
  <1>1. PICK got :
          got = IF outcome = "ok"
                  THEN [page EXCEPT !.items = c.reply.items, !.asked = c.arg.f, !.of = c.reply.of,
                                    !.shown = c.arg.n, !.n = c.arg.n, !.loading = FALSE]
                  ELSE [page EXCEPT !.items = {}, !.of = 0, !.error = TRUE, !.loading = FALSE]
    OBVIOUS
  <1>2. PICK p : p = IF c.arg.after = "done" THEN [got EXCEPT !.acting = FALSE] ELSE got
    OBVIOUS
  <1>3. PICK x : x = Effect(p, calls \ {c})
    OBVIOUS
  <1>4. /\ c \in calls /\ ForList(c) /\ c.kind = "accounts" /\ (outcome = "ok" => c.served)
        /\ ~ForDetail(c)
    BY DEF AccountsAnswer, ForList, ForDetail, Live
  <1>5. /\ page' = (IF c.arg.after \in {none, "done"} THEN x
                    ELSE FetchDetail(x.p, x.S, c.arg.after, TRUE)).p
        /\ calls' = (IF c.arg.after \in {none, "done"} THEN x
                     ELSE FetchDetail(x.p, x.S, c.arg.after, TRUE)).S
    BY <1>1, <1>2, <1>3, Zenon DEF AccountsAnswer, Take
  <1>6. /\ ListGot(got, c, outcome) /\ SamePanel(got, page)
    <2>1. CASE outcome = "ok"
      <3>1. got = [search |-> page.search, applied |-> page.applied, n |-> c.arg.n,
             items |-> c.reply.items,
             asked |-> c.arg.f, shown |-> c.arg.n, of |-> c.reply.of,
             loading |-> FALSE, error |-> page.error, selected |-> page.selected,
             detail |-> page.detail, detailLoading |-> page.detailLoading,
             detailError |-> page.detailError, acting |-> page.acting,
             actionError |-> page.actionError, target |-> page.target,
             raced |-> page.raced, crossed |-> page.crossed]
        BY <1>1, <2>1 DEF AccOK, IsAccPage
      <3>2. QED
        BY <2>1, <3>1 DEF AccOK, IsAccPage, ListGot, SamePanel
    <2>2. CASE outcome # "ok"
      <3>1. got = [search |-> page.search, applied |-> page.applied, n |-> page.n,
             items |-> {},
             asked |-> page.asked, shown |-> page.shown, of |-> 0,
             loading |-> FALSE, error |-> TRUE, selected |-> page.selected,
             detail |-> page.detail, detailLoading |-> page.detailLoading,
             detailError |-> page.detailError, acting |-> page.acting,
             actionError |-> page.actionError, target |-> page.target,
             raced |-> page.raced, crossed |-> page.crossed]
        BY <1>1, <2>2 DEF AccOK, IsAccPage
      <3>2. QED
        BY <2>2, <3>1 DEF AccOK, IsAccPage, ListGot, SamePanel
    <2>3. QED
      BY <2>1, <2>2
  <1>7. CASE c.arg.after = none
    <2>1. p = got
      BY <1>2, <1>7
    <2>2. p.detail = page.detail /\ p.target = page.target
      BY <1>6, <2>1 DEF SamePanel
    <2>3. /\ NamesOK(p, calls \ {c})
          /\ p.n = page.n /\ p.applied = page.applied => ListOK(p, calls \ {c})
      BY <1>4, <1>6, <2>1, <2>2, ListGotKeeps
    <2>4. ~InChain(c) /\ c.kind \notin Acts
      BY <1>4, <1>7 DEF InChain, ForDetail, Acts
    <2>5. SameCalls(calls, calls \ {c}, OfPanel)
      BY <1>4, <2>4 DEF SameCalls, OfPanel
    <2>6. ChainOK(p, calls \ {c})
      BY <1>6, <2>1, <2>5, ChainKept DEF AccOK, SamePanel
    <2>7. PanelOK(p, calls \ {c})
      BY <1>6, <2>1, <2>5, PanelKept DEF AccOK
    <2>8. RestOK(p, calls \ {c})
      BY <1>6, <2>1, <2>3, <2>6, <2>7 DEF RestOK, ListGot
    <2>9. AccOK(x.p, x.S)
      BY <1>3, <2>3, <2>8, EffectKeeps
    <2>10. QED
      BY <1>5, <1>7, <2>9
  <1>8. CASE c.arg.after = "done"
    <2>1. InChain(c) /\ c.arg.after # none
      BY <1>4, <1>8 DEF InChain
    <2>2. p = [got EXCEPT !.acting = FALSE]
      BY <1>2, <1>8
    <2>3. /\ IsAccPage(p) /\ p.items = got.items /\ p.n = got.n /\ SameList(p, got)
          /\ p.selected = page.selected /\ p.detail = page.detail /\ ~p.acting
          /\ p.detailLoading = page.detailLoading /\ p.target = page.target
          /\ p.crossed = page.crossed
      <3>1. p = [search |-> got.search, applied |-> got.applied, n |-> got.n,
             items |-> got.items,
             asked |-> got.asked, shown |-> got.shown, of |-> got.of,
             loading |-> got.loading, error |-> got.error, selected |-> got.selected,
             detail |-> got.detail, detailLoading |-> got.detailLoading,
             detailError |-> got.detailError, acting |-> FALSE,
             actionError |-> got.actionError, target |-> got.target,
             raced |-> got.raced, crossed |-> got.crossed]
        BY <1>6, <2>2 DEF ListGot, IsAccPage
      <3>2. QED
        BY <1>6, <3>1 DEF ListGot, IsAccPage, SameList, SamePanel
    <2>4. ListGot(p, c, outcome)
      BY <1>6, <2>3 DEF ListGot, SameList
    <2>5. /\ NamesOK(p, calls \ {c})
          /\ p.n = page.n /\ p.applied = page.applied => ListOK(p, calls \ {c})
      BY <1>4, <2>3, <2>4, ListGotKeeps
    <2>6. \A d \in calls \ {c} : ~InChain(d)
      BY <1>4, <2>1 DEF AccOK, ChainOK
    <2>7. ChainOK(p, calls \ {c})
      BY <1>4, <2>3, <2>6 DEF AccOK, ChainOK
    <2>8. PanelOK(p, calls \ {c})
      <3>1. SUFFICES ASSUME ~page.crossed PROVE PanelOK(p, calls \ {c})
        BY <2>3 DEF PanelOK
      <3>2. \A d \in calls : ~ForDetail(d)
        BY <1>4, <2>1, <3>1, NoDetailMeanwhile DEF AccOK
      <3>3. page.detail.id = none
        BY <1>4, <1>8, <3>1 DEF AccOK, PanelOK
      <3>4. \A d \in calls \ {c} : ForList(d) => d.arg.after # "done"
        BY <2>6 DEF InChain
      <3>5. QED
        BY <2>3, <2>6, <3>2, <3>3, <3>4 DEF PanelOK
    <2>9. RestOK(p, calls \ {c})
      BY <2>3, <2>5, <2>7, <2>8 DEF RestOK
    <2>10. AccOK(x.p, x.S)
      BY <1>3, <2>5, <2>9, EffectKeeps
    <2>11. QED
      BY <1>5, <1>8, <2>10
  <1>9. CASE c.arg.after \notin {none, "done"}
    <2>1. InChain(c) /\ KeyOf(c) = c.arg.after /\ c.kind # "delete" /\ c.arg.after \in Names
      BY <1>4, <1>9 DEF InChain, KeyOf, AccOK, NamesOK
    <2>2. p = got
      BY <1>2, <1>9
    <2>3. p.detail = page.detail /\ p.target = page.target
      BY <1>6, <2>2 DEF SamePanel
    <2>4. /\ NamesOK(p, calls \ {c})
          /\ p.n = page.n /\ p.applied = page.applied => ListOK(p, calls \ {c})
      BY <1>4, <1>6, <2>2, <2>3, ListGotKeeps
    <2>5. page.acting /\ \A d \in calls \ {c} : ~InChain(d)
      BY <1>4, <2>1 DEF AccOK, ChainOK
    <2>6. /\ IsAccPage(x.p) /\ NamesOK(x.p, x.S) /\ ListOK(x.p, x.S) /\ SamePanel(x.p, p)
          /\ \A d \in x.S : InChain(d) \/ ForDetail(d) => d \in calls \ {c}
      <3>1. CASE p.n = page.n /\ p.applied = page.applied
        <4>1. x = [p |-> p, S |-> calls \ {c}]
          BY <1>3, <3>1 DEF Effect
        <4>2. x.p = p /\ x.S = calls \ {c}
          BY <4>1
        <4>3. QED
          BY <1>6, <2>2, <2>4, <3>1, <4>2 DEF ListGot, SamePanel
      <3>2. CASE ~(p.n = page.n /\ p.applied = page.applied)
        <4>1. x = FetchList(p, calls \ {c}, p.n, p.applied, none)
          BY <1>3, <3>2 DEF Effect
        <4>2. PICK d : d = ListCall(calls \ {c}, p.n, p.applied, none)
          OBVIOUS
        <4>3. IsAccPage(p)
          BY <1>6, <2>2 DEF ListGot
        <4>4. /\ x.S = (calls \ {c}) \union {d} /\ IsAccPage(x.p) /\ SamePanel(x.p, p)
              /\ x.p.items = p.items /\ x.p.asked = p.asked
          BY <4>1, <4>2, <4>3, FetchListIs
        <4>5. /\ ForList(d) /\ ~ForDetail(d) /\ d.kind \notin Acts /\ ~InChain(d)
              /\ d.arg.after = none /\ ~d.served
          BY <4>2, ListCallIs
        <4>6. ListOK(x.p, x.S)
          BY <4>1, <4>3, ListFetched
        <4>7. NamesOK(x.p, x.S)
          BY <2>4, <4>4, <4>5 DEF NamesOK, SamePanel
        <4>8. QED
          BY <4>4, <4>5, <4>6, <4>7
      <3>3. QED
        BY <3>1, <3>2
    <2>7. SamePanel(x.p, page)
      BY <1>6, <2>2, <2>6 DEF SamePanel
    <2>8. \A d \in x.S : ~InChain(d)
      BY <2>5, <2>6
    <2>9. ~x.p.crossed =>
            /\ x.p.selected \in {none, c.arg.after}
            /\ (\A d \in x.S : ~ForDetail(d)) /\ x.p.detail.id # none =>
                  x.p.selected \in {none, x.p.detail.id}
      <3>1. SUFFICES ASSUME ~page.crossed
                     PROVE  /\ page.selected \in {none, c.arg.after}
                            /\ page.detail.id # none => page.selected \in {none, page.detail.id}
        BY <2>7 DEF SamePanel
      <3>2. \A d \in calls : ~ForDetail(d)
        BY <1>4, <2>1, <3>1, NoDetailMeanwhile DEF AccOK
      <3>3. QED
        BY <1>4, <1>9, <2>1, <3>1, <3>2 DEF AccOK, PanelOK
    <2>10. x.p.acting
      BY <2>5, <2>7 DEF SamePanel
    <2>11. PICK y : y = FetchDetail(x.p, x.S, c.arg.after, TRUE)
      OBVIOUS
    <2>12. IsLastDetail(FetchDetail(x.p, x.S, c.arg.after, TRUE), x.p, x.S, c.arg.after)
      BY <2>6, FetchLastDetail
    <2>13. IsLastDetail(y, x.p, x.S, c.arg.after)
      BY <2>11, <2>12
    <2>14. AccOK(y.p, y.S)
      BY <2>1, <2>6, <2>8, <2>9, <2>10, <2>13, DetailFollows
    <2>15. page' = y.p /\ calls' = y.S
      BY <1>5, <1>9, <2>11
    <2>16. QED
      BY <2>14, <2>15
  <1>10. QED
    BY <1>7, <1>8, <1>9

LEMMA DetailIsAnswered ==
  ASSUME AccOK(page, calls), NEW c, NEW outcome, DetailAnswer(c, outcome)
  PROVE  AccOK(page', calls')
  <1>1. /\ c \in calls /\ ForDetail(c) /\ ~ForList(c) /\ c.kind = "detail"
        /\ c.live /\ c.kind \notin Acts /\ KeyOf(c) = c.arg.key
        /\ c.kind # "delete"
        /\ outcome = "ok" => c.served /\ c.reply # NoDetail
        /\ calls' = calls \ {c}
    BY DEF DetailAnswer, ForDetail, ForList, Live, Acts, KeyOf
  <1>2. c.arg.key \in Names /\ c.arg.last \in BOOLEAN
    BY <1>1 DEF AccOK, NamesOK
  <1>3. InChain(c) <=> c.arg.last
    BY <1>1 DEF InChain
  <1>4. PICK p : p = page'
    OBVIOUS
  <1>5. PICK detail, failed, acting :
          /\ detail = IF outcome = "ok" THEN c.reply ELSE NoDetail
          /\ failed = IF outcome = "ok" THEN page.detailError ELSE TRUE
          /\ acting = IF c.arg.last THEN FALSE ELSE page.acting
    OBVIOUS
  <1>6. acting \in BOOLEAN
    BY <1>5 DEF AccOK, IsAccPage
  <1>7. page' = [page EXCEPT !.detailLoading = FALSE, !.detail = detail,
                             !.detailError = failed, !.acting = acting]
    BY <1>5 DEF DetailAnswer
  <1>8. p = [search |-> page.search, applied |-> page.applied, n |-> page.n,
             items |-> page.items,
             asked |-> page.asked, shown |-> page.shown, of |-> page.of,
             loading |-> page.loading, error |-> page.error, selected |-> page.selected,
             detail |-> detail, detailLoading |-> FALSE,
             detailError |-> failed, acting |-> acting,
             actionError |-> page.actionError, target |-> page.target,
             raced |-> page.raced, crossed |-> page.crossed]
    BY <1>4, <1>7 DEF AccOK, IsAccPage
  <1>9. /\ IsAccPage(p) /\ SameList(p, page) /\ p.items = page.items
        /\ p.selected = page.selected /\ p.detail = detail /\ ~p.detailLoading
        /\ p.acting = acting /\ p.actionError = page.actionError
        /\ p.target = page.target /\ p.crossed = page.crossed
    BY <1>6, <1>8 DEF AccOK, IsAccPage, SameList
  <1>10. detail.id # none => outcome = "ok" /\ detail = c.reply /\ detail.id = c.arg.key
    BY <1>1, <1>5, NamesAreNames DEF AccOK, NamesOK
  <1>11. NamesOK(p, calls')
    <2>1. p.detail.id \in Names \union {none}
      BY <1>2, <1>9, <1>10
    <2>2. QED
      BY <1>1, <1>9, <2>1 DEF AccOK, NamesOK, SameList
  <1>12. ListOK(p, calls')
    BY <1>1, <1>9 DEF AccOK, ListOK, SameList
  <1>13. ChainOK(p, calls')
    <2>1. CASE c.arg.last
      <3>1. \A d \in calls' : ~InChain(d)
        BY <1>1, <1>3, <2>1 DEF AccOK, ChainOK
      <3>2. QED
        BY <1>5, <1>9, <2>1, <3>1 DEF ChainOK
    <2>2. CASE ~c.arg.last
      BY <1>1, <1>3, <1>5, <1>9, <2>2 DEF AccOK, ChainOK
    <2>3. QED
      BY <2>1, <2>2
  <1>14. PanelOK(p, calls')
    <2>1. SUFFICES ASSUME ~page.crossed PROVE PanelOK(p, calls')
      BY <1>9 DEF PanelOK
    <2>2. \A d \in calls' : ~ForDetail(d)
      BY <1>1, <2>1 DEF AccOK, PanelOK
    <2>3. \A d \in calls' : ~InChain(d)
      <3>1. CASE c.arg.last
        BY <1>1, <1>3, <3>1 DEF AccOK, ChainOK
      <3>2. CASE ~c.arg.last
        <4>1. ~page.acting
          BY <1>1, <2>1, <3>2 DEF AccOK, PanelOK
        <4>2. QED
          BY <1>1, <4>1 DEF AccOK, ChainOK
      <3>3. QED
        BY <3>1, <3>2
    <2>4. \A d \in calls' : ForList(d) => d.arg.after # "done"
      BY <2>3 DEF InChain
    <2>5. Pending(calls') = {}
      BY <1>1, <2>1 DEF AccOK, PanelOK, Pending
    <2>6. page.selected \in {none, c.arg.key}
      <3>1. CASE c.arg.last
        BY <1>1, <1>2, <1>3, <2>1, <3>1, NamesAreNames DEF AccOK, PanelOK
      <3>2. CASE ~c.arg.last
        BY <1>1, <2>1, <3>2 DEF AccOK, PanelOK
      <3>3. QED
        BY <3>1, <3>2
    <2>7. detail.id # none => TrueDetail(detail)
      BY <1>1, <1>10, <2>1 DEF AccOK, PanelOK
    <2>8. QED
      BY <1>9, <1>10, <2>2, <2>3, <2>4, <2>5, <2>6, <2>7 DEF PanelOK
  <1>15. QED
    BY <1>4, <1>9, <1>11, <1>12, <1>13, <1>14 DEF AccOK

\* A list that an action goes on to.
LEMMA ListFollows ==
  ASSUME NEW p, NEW S, IsAccPage(p), NamesOK(p, S), p.acting, \A c \in S : ~InChain(c),
         p.detailLoading => \E c \in S : ForDetail(c),
         NEW n, NEW f, NEW after \in Names \union {"done"},
         ~p.crossed =>
            /\ \A c \in S : ~ForDetail(c)
            /\ p.selected \in {none, after}
            /\ after = "done" => p.detail.id = none
            /\ p.detail.id # none =>
                  p.selected \in {none, p.detail.id} /\ \A c \in Pending(S) : c.live,
         NEW x, x = FetchList(p, S, n, f, after)
  PROVE  AccOK(x.p, x.S)
  <1>0. PICK d : d = ListCall(S, n, f, after)
    OBVIOUS
  <1>1. /\ x.S = S \union {d} /\ IsAccPage(x.p) /\ SamePanel(x.p, p)
        /\ x.p.items = p.items /\ x.p.asked = p.asked
    BY <1>0, FetchListIs
  <1>2. after # none
    BY NamesAreNames
  <1>3. /\ ForList(d) /\ ~ForDetail(d) /\ d.kind \notin Acts /\ KeyOf(d) = after
        /\ d.arg.after = after /\ ~d.served
    BY <1>0, ListCallIs
  <1>4. InChain(d)
    BY <1>2, <1>3 DEF InChain
  <1>5. ListOK(x.p, x.S)
    BY ListFetched
  <1>6. NamesOK(x.p, x.S)
    BY <1>1, <1>3 DEF NamesOK, SamePanel
  <1>7. ChainOK(x.p, x.S)
    BY <1>1, <1>3, <1>4 DEF ChainOK, SamePanel
  <1>8. PanelOK(x.p, x.S)
    <2>1. SUFFICES ASSUME ~p.crossed PROVE PanelOK(x.p, x.S)
      BY <1>1 DEF PanelOK, SamePanel
    <2>2. \A c \in x.S : ~ForDetail(c) /\ (InChain(c) => c = d)
      BY <1>1, <1>3, <2>1
    <2>3. \A c \in x.S : ForList(c) /\ c.arg.after = "done" => c = d
      BY <2>2 DEF InChain
    <2>4. Pending(x.S) = Pending(S)
      BY <1>1, <1>3 DEF Pending
    <2>5. QED
      BY <1>1, <1>3, <2>1, <2>2, <2>3, <2>4 DEF PanelOK, SamePanel
  <1>9. QED
    BY <1>1, <1>5, <1>6, <1>7, <1>8 DEF AccOK

LEMMA ActIsAnswered ==
  ASSUME AccOK(page, calls), NEW c, NEW outcome, ActAnswer(c, outcome)
  PROVE  AccOK(page', calls')
  <1>1. /\ c \in calls /\ c.live /\ c.kind \in Acts /\ ~ForList(c) /\ ~ForDetail(c)
        /\ InChain(c) /\ KeyOf(c) = c.arg.key
    BY DEF ActAnswer, ForDetail, ForList, Acts, KeyOf, InChain
  <1>2. c.arg.key \in Names
    BY <1>1 DEF AccOK, NamesOK
  <1>3. page.acting /\ \A d \in calls \ {c} : ~InChain(d)
    BY <1>1 DEF AccOK, ChainOK
  <1>4. ~page.crossed => \A d \in calls : ~ForDetail(d)
    BY <1>1, NoDetailMeanwhile DEF AccOK
  <1>5. /\ NamesOK(page, calls \ {c}) /\ ListOK(page, calls \ {c})
        /\ page.detailLoading => \E d \in calls \ {c} : ForDetail(d)
    BY <1>1 DEF AccOK, NamesOK, ListOK, ChainOK
  <1>6. ~page.crossed /\ page.detail.id # none =>
           page.selected \in {none, page.detail.id} /\ \A d \in Pending(calls \ {c}) : d.live
    BY <1>4 DEF AccOK, PanelOK, Pending
  <1>7. CASE outcome = "failed"
    <2>1. PICK p, target : /\ target = (IF c.kind = "delete" THEN none ELSE page.target)
                           /\ p = [page EXCEPT !.acting = FALSE, !.actionError = TRUE,
                                               !.target = target]
      OBVIOUS
    <2>2. page' = p /\ calls' = calls \ {c}
      BY <1>7, <2>1 DEF ActAnswer, Take
    <2>3. p = [search |-> page.search, applied |-> page.applied, n |-> page.n,
             items |-> page.items,
             asked |-> page.asked, shown |-> page.shown, of |-> page.of,
             loading |-> page.loading, error |-> page.error, selected |-> page.selected,
             detail |-> page.detail, detailLoading |-> page.detailLoading,
             detailError |-> page.detailError, acting |-> FALSE,
             actionError |-> TRUE, target |-> target,
             raced |-> page.raced, crossed |-> page.crossed]
      BY <2>1 DEF AccOK, IsAccPage
    <2>4. /\ IsAccPage(p) /\ SameList(p, page) /\ p.items = page.items
          /\ p.selected = page.selected /\ p.detail = page.detail
          /\ p.detailLoading = page.detailLoading
          /\ ~p.acting /\ p.actionError
          /\ p.target = target /\ p.crossed = page.crossed
      BY <2>3 DEF AccOK, IsAccPage, SameList
    <2>5. target \in Names \union {none}
      BY <2>1 DEF AccOK, NamesOK
    <2>6. NamesOK(p, calls \ {c})
      BY <1>5, <2>4, <2>5 DEF NamesOK, SameList
    <2>7. ListOK(p, calls \ {c})
      BY <1>5, <2>4 DEF ListOK, SameList
    <2>8. ChainOK(p, calls \ {c})
      BY <1>3, <1>5, <2>4 DEF ChainOK
    <2>9. PanelOK(p, calls \ {c})
      <3>1. \A d \in calls \ {c} : ForList(d) => d.arg.after # "done"
        BY <1>3, NamesAreNames DEF InChain
      <3>2. QED
        BY <1>3, <1>4, <1>6, <2>4, <3>1 DEF PanelOK
    <2>10. QED
      BY <2>2, <2>4, <2>6, <2>7, <2>8, <2>9 DEF AccOK
  <1>8. CASE outcome # "failed" /\ c.kind = "delete"
    <2>1. PICK p : p = [page EXCEPT !.target = none, !.selected = none, !.detail = NoDetail,
                                    !.detailError = FALSE, !.actionError = FALSE]
      OBVIOUS
    <2>2. PICK x : x = FetchList(p, calls \ {c}, c.arg.n, c.arg.f, "done")
      OBVIOUS
    <2>3. page' = x.p /\ calls' = x.S
      BY <1>8, <2>1, <2>2 DEF ActAnswer, Take
    <2>4. p = [search |-> page.search, applied |-> page.applied, n |-> page.n,
             items |-> page.items,
             asked |-> page.asked, shown |-> page.shown, of |-> page.of,
             loading |-> page.loading, error |-> page.error, selected |-> none,
             detail |-> NoDetail, detailLoading |-> page.detailLoading,
             detailError |-> FALSE, acting |-> page.acting,
             actionError |-> FALSE, target |-> none,
             raced |-> page.raced, crossed |-> page.crossed]
      BY <2>1 DEF AccOK, IsAccPage
    <2>5. /\ IsAccPage(p) /\ SameList(p, page) /\ p.items = page.items
          /\ p.selected = none /\ p.detail = NoDetail
          /\ p.detailLoading = page.detailLoading
          /\ p.acting = page.acting /\ p.target = none /\ p.crossed = page.crossed
      BY <2>4 DEF AccOK, IsAccPage, SameList
    <2>6. NamesOK(p, calls \ {c})
      BY <1>5, <2>5, NamesAreNames DEF NamesOK, SameList
    <2>7. AccOK(x.p, x.S)
      BY <1>3, <1>4, <1>5, <2>2, <2>5, <2>6, NamesAreNames, ListFollows
    <2>8. QED
      BY <2>3, <2>7
  <1>9. CASE outcome # "failed" /\ c.kind # "delete"
    <2>1. PICK x : x = FetchList(page, calls \ {c}, c.arg.n, c.arg.f, c.arg.key)
      OBVIOUS
    <2>2. page' = x.p /\ calls' = x.S
      BY <1>9, <2>1 DEF ActAnswer, Take
    <2>3. ~page.crossed => page.selected \in {none, c.arg.key}
      BY <1>1, <1>2, <1>9, NamesAreNames DEF AccOK, PanelOK
    <2>4. IsAccPage(page) /\ c.arg.key # "done"
      BY <1>2, NamesAreNames DEF AccOK
    <2>5. AccOK(x.p, x.S)
      BY <1>2, <1>3, <1>4, <1>5, <1>6, <2>1, <2>3, <2>4, ListFollows
    <2>6. QED
      BY <2>2, <2>5
  <1>10. QED
    BY <1>7, <1>8, <1>9

-----------------------------------------------------------------------------
(* The account pages meanwhile *)

\* What the registry says, and which accounts there are, matters to the panel only.
LEMMA AccNext ==
  ASSUME AccOK(page', calls'),
         \/ \A detail : TrueDetail(detail) => TrueDetail(detail)'
         \/ ~page'.crossed => /\ \A c \in calls' : ~ForDetail(c)
                              /\ page'.detail.id # none => page'.acting
  PROVE  AccOK(page, calls)'
  <1>1. /\ IsAccPage(page)' /\ NamesOK(page, calls)' /\ ListOK(page, calls)'
        /\ ChainOK(page, calls)'
    BY DEF AccOK, IsAccPage, NamesOK, ListOK, ChainOK
  <1>2. PanelOK(page, calls)'
    <2>1. CASE \A detail : TrueDetail(detail) => TrueDetail(detail)'
      BY <2>1 DEF AccOK, PanelOK
    <2>2. CASE ~page'.crossed => /\ \A c \in calls' : ~ForDetail(c)
                                 /\ page'.detail.id # none => page'.acting
      BY <2>2 DEF AccOK, PanelOK
    <2>3. QED
      BY <2>1, <2>2
  <1>3. QED
    BY <1>1, <1>2 DEF AccOK

LEMMA DeadDropped ==
  ASSUME NEW p, NEW S, AccOK(p, S), NEW c, ~c.live
  PROVE  AccOK(p, S \ {c})
  <1>1. ~ForList(c) /\ ~ForDetail(c) /\ ~InChain(c)
    BY DEF ForList, ForDetail, InChain
  <1>2. NamesOK(p, S \ {c}) /\ ListOK(p, S \ {c}) /\ ChainOK(p, S \ {c})
    BY <1>1 DEF AccOK, NamesOK, ListOK, ChainOK
  <1>3. Pending(S \ {c}) \subseteq Pending(S)
    BY DEF Pending
  <1>4. PanelOK(p, S \ {c})
    BY <1>1, <1>3 DEF AccOK, PanelOK
  <1>5. QED
    BY <1>2, <1>4 DEF AccOK

LEMMA ServingKeepsAcc ==
  ASSUME CallsOK, AccOK(page, calls), Serve
  PROVE  AccOK(page, calls)'
  <1>1. page' = page
    BY Serving
  <1>2. PICK c \in calls : c.kind \in Effects /\ ~c.served /\ Executed(c)
    BY Serving
  <1>3. ~ForList(c) /\ ~ForDetail(c)
    BY <1>2 DEF Effects, Acts, ForList, ForDetail
  <1>4. AccOK(page', calls') /\ \A e \in calls' : ForDetail(e) => e \in calls
    <2>1. CASE ~c.live /\ calls' = calls \ {c}
      BY <1>1, <2>1, DeadDropped
    <2>2. ASSUME NEW d, c.live, calls' = (calls \ {c}) \union {d},
                 d.live = TRUE, d.served = TRUE, d.kind = c.kind, d.arg = c.arg
          PROVE  AccOK(page', calls') /\ \A e \in calls' : ForDetail(e) => e \in calls
      <3>1. Swapped(calls, calls', c, d)
        BY <2>2 DEF Swapped
      <3>2. AccOK(page, calls')
        BY <1>3, <3>1, SwapKeeps
      <3>3. ~ForDetail(d)
        BY <1>3, <3>1, SwappedSorts
      <3>4. QED
        BY <1>1, <2>2, <3>2, <3>3
    <2>3. QED
      BY <1>2, <2>1, <2>2 DEF Executed
  <1>5. CASE UNCHANGED accountVars
    <2>1. \A detail : TrueDetail(detail) => TrueDetail(detail)'
      BY <1>5 DEF TrueDetail, IssuerStatus, RegistrySays, accountVars
    <2>2. QED
      BY <1>4, <2>1, AccNext
  <1>6. ASSUME NEW b, RegisterServe(b)
        PROVE  AccOK(page, calls)'
    <2>1. \A detail : TrueDetail(detail) => TrueDetail(detail)'
      BY <1>6 DEF TrueDetail, IssuerStatus, RegistrySays, RegisterServe
    <2>2. QED
      BY <1>4, <2>1, AccNext
  <1>7. ASSUME NEW b, ActServe(b)
        PROVE  AccOK(page, calls)'
    <2>1. b \in Pending(calls) /\ b \in calls /\ b.kind \in Acts
      BY <1>7 DEF ActServe, Pending
    <2>2. ASSUME ~page.crossed
          PROVE  /\ \A e \in calls' : ~ForDetail(e)
                 /\ page.detail.id # none => page.acting
      <3>1. \A e \in calls : ~ForDetail(e)
        BY <2>1, <2>2 DEF AccOK, PanelOK
      <3>2. page.detail.id # none => b.live
        BY <2>1, <2>2 DEF AccOK, PanelOK
      <3>3. b.live => page.acting
        BY <2>1 DEF AccOK, ChainOK, InChain
      <3>4. QED
        BY <1>4, <3>1, <3>2, <3>3
    <2>3. QED
      BY <1>1, <1>4, <2>2, AccNext
  <1>8. QED
    BY <1>5, <1>6, <1>7 DEF Serve

\* The page as it is mounted, with what other pages have left behind.
LEMMA AccountsMounted ==
  ASSUME CallsOK, NEW prefill, prefill.id \in Names \union {none}, AccountsMount(Left, prefill)
  PROVE  AccOK(page', calls')
  <1>1. PICK first : first = FetchList(AccountsBlank, Left, 1, none, none)
    OBVIOUS
  <1>2. PICK named : named = [first.p EXCEPT !.search = prefill.f, !.applied = prefill.f,
                                             !.selected = prefill.id]
    OBVIOUS
  <1>3. PICK both : both = FetchDetail(named, first.S, prefill.id, FALSE)
    OBVIOUS
  <1>4. PICK listed : listed = FetchList(both.p, both.S, 1, prefill.f, none)
    OBVIOUS
  <1>5. IF prefill.id = none THEN page' = first.p /\ calls' = first.S
        ELSE IF prefill.f = none THEN page' = both.p /\ calls' = both.S
        ELSE page' = listed.p /\ calls' = listed.S
    BY <1>1, <1>2, <1>3, <1>4, Zenon DEF AccountsMount, Take
  <1>6. \A c \in Left : ~ForList(c) /\ ~ForDetail(c) /\ ~InChain(c) /\ ~c.live
    BY LeftCalls DEF ForList, ForDetail, InChain
  <1>7. RestOK(AccountsBlank, Left) /\ AccountsBlank.n = 1 /\ AccountsBlank.applied = none
    <2>1. PICK p : p = AccountsBlank
      OBVIOUS
    <2>2. /\ IsAccPage(p) /\ p.items = {} /\ p.detail.id = none /\ p.target = none
          /\ ~p.acting /\ ~p.detailLoading /\ p.n = 1 /\ p.applied = none
      BY <2>1 DEF AccountsBlank, NoDetail, IsAccPage
    <2>3. NamesOK(p, Left) /\ ChainOK(p, Left) /\ PanelOK(p, Left)
      BY <1>6, <2>2 DEF NamesOK, ChainOK, PanelOK
    <2>4. QED
      BY <2>1, <2>2, <2>3 DEF RestOK
  <1>8. AccOK(first.p, first.S)
    BY <1>1, <1>7, PlainFetch
  <1>9. CASE prefill.id = none
    BY <1>5, <1>8, <1>9
  <1>10. CASE prefill.id # none
    <2>1. PICK d : d = ListCall(Left, 1, none, none)
      OBVIOUS
    <2>2. IsAccPage(AccountsBlank)
      BY <1>7 DEF RestOK
    <2>3. /\ first.S = Left \union {d} /\ SamePanel(first.p, AccountsBlank)
          /\ first.p.applied = none /\ first.p.n = 1
      BY <1>1, <1>7, <2>1, <2>2, FetchListIs
    <2>4. /\ named.search = prefill.f /\ named.applied = prefill.f /\ named.selected = prefill.id
          /\ named.n = 1 /\ IsAccPage(named) /\ named.target = none
          /\ named.items = first.p.items /\ named.asked = first.p.asked
          /\ named.detail = first.p.detail /\ named.acting = first.p.acting
          /\ named.detailLoading = first.p.detailLoading
          /\ prefill.f = none => SameList(named, first.p)
      <3>1. named = [search |-> prefill.f, applied |-> prefill.f, n |-> first.p.n,
             items |-> first.p.items,
             asked |-> first.p.asked, shown |-> first.p.shown, of |-> first.p.of,
             loading |-> first.p.loading, error |-> first.p.error, selected |-> prefill.id,
             detail |-> first.p.detail, detailLoading |-> first.p.detailLoading,
             detailError |-> first.p.detailError, acting |-> first.p.acting,
             actionError |-> first.p.actionError, target |-> first.p.target,
             raced |-> first.p.raced, crossed |-> first.p.crossed]
        BY <1>2, <1>8 DEF AccOK, IsAccPage
      <3>2. first.p.target = none
        BY <2>3 DEF SamePanel, AccountsBlank
      <3>3. QED
        BY <1>8, <2>3, <3>1, <3>2 DEF AccOK, IsAccPage, SameList
    <2>5. /\ NamesOK(named, first.S) /\ ChainOK(named, first.S)
          /\ prefill.f = none => ListOK(named, first.S)
      BY <1>8, <2>4, NamesAreNames DEF AccOK, NamesOK, ChainOK, ListOK, SameList
    <2>6. IsFirstDetail(FetchDetail(named, first.S, prefill.id, FALSE),
                        named, first.S, prefill.id)
      BY <2>4, FetchFirstDetail
    <2>7. IsFirstDetail(both, named, first.S, prefill.id)
      BY <1>3, <2>6
    <2>8. RestOK(both.p, both.S) /\ (ListOK(named, first.S) => ListOK(both.p, both.S))
      BY <1>10, <2>4, <2>5, <2>7, DetailChosen
    <2>9. CASE prefill.f = none
      BY <1>5, <1>10, <2>5, <2>8, <2>9 DEF AccOK, RestOK
    <2>10. CASE prefill.f # none
      <3>1. both.p.n = 1 /\ both.p.applied = prefill.f
        BY <2>4, <2>7 DEF IsFirstDetail, DetailAsked, SameList
      <3>2. listed = FetchList(both.p, both.S, both.p.n, both.p.applied, none)
        BY <1>4, <3>1
      <3>3. AccOK(listed.p, listed.S)
        BY <2>8, <3>2, PlainFetch
      <3>4. QED
        BY <1>5, <1>10, <2>10, <3>3
    <2>11. QED
      BY <2>9, <2>10
  <1>11. QED
    BY <1>9, <1>10

LEMMA AccountsStep ==
  ASSUME CallsOK, RegisterInv, AccountsInv, [Next]_vars
  PROVE  AccountsInv'
  <1>1. SUFFICES ASSUME at' \in AccountViews PROVE AccOK(page, calls)'
    BY DEF AccountsInv
  <1>2. ASSUME accounts' = accounts, authorized' = authorized, AccOK(page', calls')
        PROVE  AccOK(page, calls)'
    <2>1. \A detail : TrueDetail(detail) => TrueDetail(detail)'
      BY <1>2 DEF TrueDetail, IssuerStatus, RegistrySays
    <2>2. QED
      BY <1>2, <2>1, AccNext
  <1>3. ~Serve => accounts' = accounts /\ authorized' = authorized
    BY AccountsStay
  <1>4. CASE Navigate
    <2>1. PICK prefill : prefill.id \in Names \union {none} /\ AccountsMount(Left, prefill)
      <3>1. CASE FollowRegistered
        <4>1. page.account \in Names
          BY <3>1, AppAssumption DEF FollowRegistered, RegisterInv, Names
        <4>2. PICK prefill : prefill = [id |-> page.account, f |-> NameFilter[page.account]]
          OBVIOUS
        <4>3. prefill.id = page.account
          BY <4>2
        <4>4. AccountsMount(Left, prefill)
          BY <3>1, <4>2 DEF FollowRegistered
        <4>5. QED
          BY <4>1, <4>3, <4>4
      <3>2. CASE ~FollowRegistered
        <4>1. AccountsMount(Left, NobodyChosen)
          BY <1>1, <1>4, <3>2 DEF Navigate, Visit, FollowIssue, FollowCredentials, Mounts,
                                  AccountViews, DidViews
        <4>2. NobodyChosen.id = none
          BY DEF NobodyChosen
        <4>3. QED
          BY <4>1, <4>2
      <3>3. QED
        BY <3>1, <3>2
    <2>2. AccOK(page', calls')
      BY <2>1, AccountsMounted
    <2>3. accounts' = accounts /\ authorized' = authorized
      BY <1>4 DEF Navigate, Visit, FollowIssue, FollowCredentials, FollowRegistered, Mounts,
                  server, accountVars
    <2>4. QED
      BY <1>2, <2>2, <2>3
  <1>5. CASE Input
    <2>1. at' = at /\ AccountsInput /\ UNCHANGED accountVars
      BY <1>1, <1>5 DEF Input, AccountsInput, AccountViews, DidViews
    <2>2. QED
      BY <1>1, <1>2, <2>1, AccountsInputs DEF AccountsInv, accountVars
  <1>6. CASE Answer
    <2>1. at' = at /\ AccountsAnswers
      BY <1>1, <1>6 DEF Answer, AccountViews, DidViews
    <2>2. AccOK(page', calls')
      BY <1>1, <2>1, ListIsServed, DetailIsServed, ListIsAnswered, DetailIsAnswered,
         ActIsAnswered DEF AccountsAnswers, AccountsInv, RegisterInv
    <2>3. accounts' = accounts /\ authorized' = authorized
      BY <2>1 DEF AccountsAnswers, AccountsServe, DetailServe, accountVars
    <2>4. QED
      BY <1>2, <2>2, <2>3
  <1>7. CASE Serve
    <2>1. at' = at
      BY <1>7, Serving
    <2>2. QED
      BY <1>1, <1>7, <2>1, ServingKeepsAcc DEF AccountsInv
  <1>8. CASE Settling
    BY <1>1, <1>8 DEF Settling, AccountViews
  <1>9. CASE UNCHANGED vars
    BY <1>1, <1>2, <1>9 DEF vars, server, accountVars, AccountsInv
  <1>10. QED
    BY <1>4, <1>5, <1>6, <1>7, <1>8, <1>9 DEF Next

\* What the list, the details and the action of the account pages know of one another,
\* while fetchAdmins, loadAdminDetail and the handlers of the actions overlap.
THEOREM AccountsInvAlways == Spec => []AccountsInv
  <1>1. Init => AccountsInv
    BY DEF Init, AccountsInv, AccountViews
  <1>2. CallsOK /\ RegisterInv /\ AccountsInv /\ [Next]_vars => AccountsInv'
    BY AccountsStep
  <1>3. QED
    BY <1>1, <1>2, CallsAreOK, RegisterInvAlways, PTL DEF Spec

\* A list on display with nothing awaited is the page it says it is, of the accounts
\* that match the filter applied, unless two lists raced or the filter it was asked
\* with has been replaced.
THEOREM ListIsAlwaysOfItsFilter == Spec => []ListIsOfItsFilter
  <1>1. CallsOK /\ AccountsInv => ListIsOfItsFilter
    <2>1. SUFFICES ASSUME CallsOK, AccountsInv, at \in AccountViews,
                          ~page.loading, ~page.error, ~page.raced
                   PROVE  /\ Quiet({"accounts"})
                          /\ page.asked = page.applied /\ page.shown = page.n
                          /\ \A id \in page.items : \E i \in DOMAIN Listed[page.applied] :
                                Listed[page.applied][i] = id
      BY DEF ListIsOfItsFilter
    <2>2. NamesOK(page, calls) /\ ListOK(page, calls)
      BY <2>1 DEF AccountsInv, AccOK
    <2>3. page.asked = page.applied /\ page.shown = page.n
      BY <2>1, <2>2 DEF ListOK
    <2>4. ASSUME NEW c \in calls, c.kind = "accounts"
          PROVE  FALSE
      <3>1. c.live
        BY <2>1, <2>4 DEF CallsOK, AreCalls, IsCall, Effects, Acts
      <3>2. QED
        BY <2>1, <2>2, <2>4, <3>1 DEF ListOK, ForList
    <2>5. QED
      BY <2>2, <2>3, <2>4 DEF Quiet, NamesOK, Matches
  <1>2. QED
    BY <1>1, CallsAreOK, AccountsInvAlways, PTL

\* The details on display with nothing awaited are those of the row selected, and
\* of an account there is, and say of it what the registry says or nothing, unless
\* they were crossed or an action failed.
THEOREM PanelIsAlwaysTrue == Spec => []PanelIsTrue
  <1>1. CallsOK /\ AccountsInv => PanelIsTrue
    <2>1. SUFFICES ASSUME CallsOK, AccountsInv, at \in AccountViews, page.detail.id # none,
                          Quiet(Acts \union {"detail"}), ~page.crossed, ~page.actionError,
                          ~page.acting
                   PROVE  /\ page.selected \in {none, page.detail.id}
                          /\ TrueDetail(page.detail)
      BY DEF PanelIsTrue, TrueDetail
    <2>2. PanelOK(page, calls)
      BY <2>1 DEF AccountsInv, AccOK
    <2>3. \A c \in calls : ~ForDetail(c)
      BY <2>1 DEF Quiet, ForDetail
    <2>4. QED
      BY <2>1, <2>2, <2>3 DEF PanelOK
  <1>2. QED
    BY <1>1, CallsAreOK, AccountsInvAlways, PTL

-----------------------------------------------------------------------------
(* The credentials page *)

IsCredsPage(p) ==
  /\ p = [phase |-> p.phase, username |-> p.username, user |-> p.user, items |-> p.items,
          n |-> p.n, of |-> p.of, error |-> p.error, target |-> p.target,
          revoking |-> p.revoking, told |-> p.told, raced |-> p.raced]
  /\ p.error \in BOOLEAN /\ p.raced \in BOOLEAN

\* A page of a user's list that is there, or the first.
Askable(u, n) == u \in Users /\ (n = 1 \/ n \in PagesOf(u))

\* Whose list is on the page; an empty one with no error is that of a user there is
\* who has no credentials.
CredsPageOK(p) ==
  /\ IsCredsPage(p)
  /\ p.username \in Users \union {none}
  /\ p.user # none => Askable(p.user, p.n)
  /\ p.target # none => p.user # none
  /\ p.items # {} => p.user # none /\ p.of = Cardinality(PagesOf(p.user))
  /\ \A item \in p.items : item.id # none
  /\ p.phase = "loaded" /\ p.items = {} /\ ~p.error =>
        p.user # none /\ p.user \notin Unknown /\ PagesOf(p.user) = {}

\* An answer the API has made up tells the truth about the user.
ListReply(c) ==
  /\ c.reply.found <=> c.arg.user \notin Unknown
  /\ c.reply.of = Cardinality(PagesOf(c.arg.user))
  /\ c.reply.items = {} => PagesOf(c.arg.user) = {}
  /\ \A item \in c.reply.items : item.id # none

ListCallOK(c) ==
  /\ Askable(c.arg.user, c.arg.n) /\ c.arg.refetch \in BOOLEAN
  /\ c.served => ListReply(c)

RevokeCallOK(c) ==
  Askable(c.arg.user, c.arg.n) /\ (c.reply = "ok" => c.arg.id \in revoked)

ToldInactive(told, items) == \A item \in items : item.id = told => ~item.active

\* What was revoked before a list was asked for is shown as revoked in it.
ToldOK ==
  /\ page.told # none => page.told \in revoked
  /\ ~page.raced =>
       /\ \A c, d \in Live("list") : c = d
       /\ \A c \in Live("list") : c.served => ToldInactive(page.told, c.reply.items)
       /\ Live("list") = {} => ToldInactive(page.told, page.items)

CredsAwaited ==
  /\ page.phase = "loading" => Live("list") # {}
  /\ page.revoking # none => Live("revoke") # {} \/ \E c \in Live("list") : c.arg.refetch

CredsInv ==
  at = "credentials" =>
     /\ CredsPageOK(page)
     /\ \A c \in Live("list") : ListCallOK(c)
     /\ \A c \in Live("revoke") : RevokeCallOK(c)
     /\ ToldOK /\ CredsAwaited

\* The record that Loading makes of the page.
LEMMA LoadingIs ==
  ASSUME NEW p, CredsPageOK(p)
  PROVE  /\ CredsPageOK(Loading(p))
         /\ Loading(p).phase = "loading" /\ Loading(p).revoking = p.revoking
         /\ Loading(p).told = p.told /\ Loading(p).items = p.items
         /\ Loading(p).raced <=> Live("list") # {}
  <1>1. PICK raced \in BOOLEAN : raced <=> Live("list") # {}
    OBVIOUS
  <1>2. PICK q : q = Loading(p)
    OBVIOUS
  <1>3. q = [phase |-> "loading", username |-> p.username, user |-> p.user, items |-> p.items,
             n |-> p.n, of |-> p.of, error |-> FALSE, target |-> p.target,
             revoking |-> p.revoking, told |-> p.told, raced |-> raced]
    BY <1>1, <1>2 DEF Loading, CredsPageOK, IsCredsPage
  <1>4. /\ IsCredsPage(q) /\ q.phase = "loading" /\ q.revoking = p.revoking
        /\ q.told = p.told /\ q.items = p.items /\ q.username = p.username /\ q.user = p.user
        /\ q.n = p.n /\ q.of = p.of /\ q.target = p.target /\ (q.raced <=> raced)
    BY <1>3 DEF IsCredsPage
  <1>5. CredsPageOK(q)
    BY <1>4 DEF CredsPageOK
  <1>6. QED
    BY <1>1, <1>2, <1>4, <1>5

\* A list is asked for, with the list before still on the page.
LEMMA CredsAsked ==
  ASSUME CredsInv, at = "credentials", at' = at, NEW u, NEW n, Askable(u, n),
         page' = Loading(page), calls' = Asking(calls, u, n, FALSE), revoked' = revoked
  PROVE  CredsInv'
  <1>1. PICK refetch \in BOOLEAN : refetch = FALSE
    OBVIOUS
  <1>2. PICK arg : arg = [user |-> u, n |-> n, refetch |-> refetch]
    OBVIOUS
  <1>3. PICK d : d = NewCall(calls, "list", arg)
    OBVIOUS
  <1>4. calls' = Sent(calls, "list", arg)
    BY <1>1, <1>2 DEF Asking
  <1>5. Live("list")' = Live("list") \union {d} /\ Live("revoke")' = Live("revoke")
    <2>1. Live("list")' = Live("list") \union {d}
      BY <1>3, <1>4, LiveSent
    <2>2. \A k : k # "list" => Live(k)' = Live(k)
      BY <1>4, LiveOther
    <2>3. QED
      BY <2>1, <2>2
  <1>6. d.arg = arg /\ d.served = FALSE
    BY <1>3 DEF NewCall
  <1>7. ListCallOK(d)
    BY <1>2, <1>6 DEF ListCallOK
  <1>8. /\ CredsPageOK(page')
        /\ page'.phase = "loading" /\ page'.revoking = page.revoking
        /\ page'.told = page.told /\ page'.items = page.items
        /\ page'.raced <=> Live("list") # {}
    BY LoadingIs DEF CredsInv
  <1>9. ToldOK'
    BY <1>5, <1>6, <1>8 DEF CredsInv, ToldOK
  <1>10. CredsAwaited'
    BY <1>5, <1>8 DEF CredsInv, CredsAwaited
  <1>11. QED
    BY <1>5, <1>7, <1>8, <1>9, <1>10 DEF CredsInv, ListCallOK, ListReply, RevokeCallOK

LEMMA CredsInputs ==
  ASSUME CredsInv, at = "credentials", at' = at, CredentialsInput
  PROVE  CredsInv'
  <1>1. CredsPageOK(page)
    BY DEF CredsInv
  <1>2. CASE CredsLookup
    <2>1. Askable(page.username, 1)
      BY <1>1, <1>2 DEF CredsLookup, CredsPageOK, Askable
    <2>2. QED
      BY <1>2, <2>1, CredsAsked DEF CredsLookup
  <1>3. ASSUME NEW n, CredsTurnPage(n)
        PROVE  CredsInv'
    <2>1. /\ page.user \in Users /\ page.of = Cardinality(PagesOf(page.user))
          /\ n \in 1..page.of
      BY <1>1, <1>3 DEF CredsTurnPage, CredsPageOK, Askable
    <2>2. PagesOf(page.user) = 1..Cardinality(PagesOf(page.user))
      BY <2>1, CredentialsAssumption
    <2>3. Askable(page.user, n)
      BY <2>1, <2>2 DEF Askable
    <2>4. QED
      BY <1>3, <2>3, CredsAsked DEF CredsTurnPage
  <1>4. ASSUME calls' = calls, revoked' = revoked, CredsPageOK(page'),
               page'.told = page.told \/ page'.told = none, page'.items = page.items,
               page'.raced = page.raced, page'.phase # "loading" \/ page'.phase = page.phase,
               page'.revoking = page.revoking
        PROVE  CredsInv'
    <2>1. \A k : Live(k)' = Live(k)
      BY <1>4 DEF Live
    <2>2. ToldOK'
      BY <1>1, <1>4, <2>1
      DEF CredsInv, ToldOK, ToldInactive, CredsPageOK, ListCallOK, ListReply
    <2>3. CredsAwaited'
      BY <1>4, <2>1 DEF CredsInv, CredsAwaited
    <2>4. QED
      BY <1>4, <2>1, <2>2, <2>3 DEF CredsInv, ListCallOK, ListReply, RevokeCallOK
  <1>5. ASSUME NEW u \in Users, CredsTypeUsername(u)
        PROVE  CredsInv'
    <2>1. /\ IsCredsPage(page') /\ page'.username = u /\ page'.user = page.user
          /\ page'.items = page.items /\ page'.n = page.n /\ page'.of = page.of
          /\ page'.error = page.error /\ page'.target = page.target
          /\ page'.revoking = page.revoking /\ page'.told = page.told
          /\ page'.raced = page.raced /\ page'.phase = page.phase
      BY <1>1, <1>5 DEF CredsTypeUsername, CredsPageOK, IsCredsPage
    <2>2. CredsPageOK(page')
      BY <1>1, <2>1 DEF CredsPageOK
    <2>3. QED
      BY <1>4, <1>5, <2>1, <2>2 DEF CredsTypeUsername
  <1>6. CASE CredsTryAgain
    <2>1. /\ IsCredsPage(page') /\ page'.username = page.username /\ page'.user = page.user
          /\ page'.items = page.items /\ page'.n = page.n /\ page'.of = page.of
          /\ page'.target = page.target
          /\ page'.revoking = page.revoking /\ page'.told = page.told
          /\ page'.raced = page.raced /\ page'.phase = "idle"
      BY <1>1, <1>6 DEF CredsTryAgain, CredsPageOK, IsCredsPage
    <2>2. CredsPageOK(page')
      BY <1>1, <2>1 DEF CredsPageOK
    <2>3. QED
      BY <1>4, <1>6, <2>1, <2>2 DEF CredsTryAgain
  <1>7. ASSUME NEW id, page' = [page EXCEPT !.target = id], UNCHANGED <<calls, revoked>>,
               id # none => page.user # none
        PROVE  CredsInv'
    <2>1. /\ IsCredsPage(page') /\ page'.username = page.username /\ page'.user = page.user
          /\ page'.items = page.items /\ page'.n = page.n /\ page'.of = page.of
          /\ page'.error = page.error /\ page'.target = id
          /\ page'.revoking = page.revoking /\ page'.told = page.told
          /\ page'.raced = page.raced /\ page'.phase = page.phase
      BY <1>1, <1>7 DEF CredsPageOK, IsCredsPage
    <2>2. CredsPageOK(page')
      BY <1>1, <1>7, <2>1 DEF CredsPageOK
    <2>3. QED
      BY <1>4, <1>7, <2>1, <2>2
  <1>8. CASE CredsRevokeCancel \/ \E item \in page.items : CredsRevokeRequest(item)
    BY <1>1, <1>7, <1>8 DEF CredsRevokeCancel, CredsRevokeRequest, CredsPageOK
  <1>9. CASE CredsDismiss
    <2>1. /\ IsCredsPage(page') /\ page'.username = page.username /\ page'.user = page.user
          /\ page'.items = page.items /\ page'.n = page.n /\ page'.of = page.of
          /\ page'.error = page.error /\ page'.target = page.target
          /\ page'.revoking = page.revoking /\ page'.told = none
          /\ page'.raced = page.raced /\ page'.phase = page.phase
      BY <1>1, <1>9 DEF CredsDismiss, CredsPageOK, IsCredsPage
    <2>2. CredsPageOK(page')
      BY <1>1, <2>1 DEF CredsPageOK
    <2>3. QED
      BY <1>4, <1>9, <2>1, <2>2 DEF CredsDismiss
  <1>10. CASE CredsRevokeConfirm
    <2>1. PICK arg : arg = [id |-> page.target, user |-> page.user, n |-> page.n]
      OBVIOUS
    <2>2. PICK d : d = NewCall(calls, "revoke", arg)
      OBVIOUS
    <2>3. calls' = Sent(calls, "revoke", arg) /\ revoked' = revoked
      BY <1>10, <2>1 DEF CredsRevokeConfirm
    <2>4. Live("revoke")' = Live("revoke") \union {d} /\ Live("list")' = Live("list")
      BY <2>2, <2>3, LiveSent, LiveOther
    <2>5. d.arg = arg /\ d.reply = none
      BY <2>2 DEF NewCall
    <2>6. RevokeCallOK(d)
      BY <1>1, <1>10, <2>1, <2>5 DEF CredsPageOK, CredsRevokeConfirm, RevokeCallOK
    <2>7. /\ IsCredsPage(page') /\ page'.username = page.username /\ page'.user = page.user
          /\ page'.items = page.items /\ page'.n = page.n /\ page'.of = page.of
          /\ page'.error = page.error /\ page'.target = page.target
          /\ page'.told = page.told
          /\ page'.raced = page.raced /\ page'.phase = page.phase
      BY <1>1, <1>10 DEF CredsRevokeConfirm, CredsPageOK, IsCredsPage
    <2>8. CredsPageOK(page')
      BY <1>1, <2>7 DEF CredsPageOK
    <2>9. ToldOK'
      BY <2>3, <2>4, <2>7 DEF CredsInv, ToldOK
    <2>10. CredsAwaited'
      BY <2>4, <2>7 DEF CredsInv, CredsAwaited
    <2>11. QED
      BY <2>3, <2>4, <2>6, <2>8, <2>9, <2>10
      DEF CredsInv, ListCallOK, ListReply, RevokeCallOK
  <1>11. QED
    BY <1>2, <1>3, <1>5, <1>6, <1>8, <1>9, <1>10 DEF CredentialsInput

LEMMA CredsListServed ==
  ASSUME CallsOK, CredsInv, at = "credentials", at' = at, NEW c, ListServe(c)
  PROVE  CredsInv'
  <1>1. PICK r : r = [found |-> c.arg.user \notin Unknown,
       items |-> IF c.arg.n \in PagesOf(c.arg.user)
                   THEN {[id |-> i, active |-> i \notin revoked] :
                           i \in CredsOf[c.arg.user][c.arg.n]}
                   ELSE {},
       of |-> Cardinality(PagesOf(c.arg.user))]
    OBVIOUS
  <1>2. PICK d : d = Replied(c, r)
    OBVIOUS
  <1>3. c \in Live("list") /\ calls' = Served(c, r) /\ page' = page /\ revoked' = revoked
    BY <1>1 DEF ListServe
  <1>4. Live("list")' = (Live("list") \ {c}) \union {d} /\ Live("revoke")' = Live("revoke")
    BY <1>2, <1>3, LiveServed, LiveServedOther
  <1>5. d.arg = c.arg /\ d.reply = r
    BY <1>2, <1>3, LiveReplied
  <1>6. Askable(c.arg.user, c.arg.n) /\ c.arg.refetch \in BOOLEAN
    BY <1>3 DEF CredsInv, ListCallOK
  <1>7. PICK u, n : u = c.arg.user /\ n = c.arg.n
    OBVIOUS
  <1>8. /\ u \in Users /\ (n = 1 \/ n \in PagesOf(u))
        /\ IsFiniteSet(PagesOf(u)) /\ PagesOf(u) = 1..Cardinality(PagesOf(u))
        /\ n \in PagesOf(u) => CredsOf[u][n] # {} /\ none \notin CredsOf[u][n]
    BY <1>6, <1>7, CredentialsAssumption DEF Askable
  <1>9. \A item \in r.items :
          n \in PagesOf(u) /\ item.id \in CredsOf[u][n] /\ (item.active <=> item.id \notin revoked)
    <2>1. r.items = IF n \in PagesOf(u)
                      THEN {[id |-> i, active |-> i \notin revoked] : i \in CredsOf[u][n]}
                      ELSE {}
      BY <1>1, <1>7
    <2>2. SUFFICES ASSUME NEW item \in r.items
                   PROVE  /\ n \in PagesOf(u) /\ item.id \in CredsOf[u][n]
                          /\ item.active <=> item.id \notin revoked
      OBVIOUS
    <2>3. PICK i \in CredsOf[u][n] : /\ n \in PagesOf(u)
                                     /\ item = [id |-> i, active |-> i \notin revoked]
      BY <2>1, <2>2
    <2>4. PICK active \in BOOLEAN : active <=> i \notin revoked
      OBVIOUS
    <2>5. item = [id |-> i, active |-> active]
      BY <2>3, <2>4
    <2>6. QED
      BY <2>3, <2>4, <2>5
  <1>10. r.items = {} => PagesOf(u) = {}
    <2>1. CASE n \in PagesOf(u)
      BY <1>1, <1>7, <1>8, <2>1
    <2>2. CASE n \notin PagesOf(u)
      <3>1. Cardinality(PagesOf(u)) \in Nat
        BY <1>8, FS_CardinalityType
      <3>2. Cardinality(PagesOf(u)) = 0
        BY <1>8, <2>2, <3>1
      <3>3. QED
        BY <1>8, <3>2
    <2>3. QED
      BY <2>1, <2>2
  <1>11. ListCallOK(d)
    <2>1. r.found <=> u \notin Unknown
      BY <1>1, <1>7
    <2>2. r.of = Cardinality(PagesOf(u))
      BY <1>1, <1>7
    <2>3. QED
      BY <1>5, <1>6, <1>7, <1>8, <1>9, <1>10, <2>1, <2>2 DEF ListCallOK, ListReply
  <1>12. ToldInactive(page.told, r.items)
    BY <1>8, <1>9 DEF CredsInv, ToldOK, ToldInactive
  <1>13. ToldOK'
    BY <1>3, <1>4, <1>5, <1>12 DEF CredsInv, ToldOK
  <1>14. CredsAwaited'
    BY <1>3, <1>4, <1>5 DEF CredsInv, CredsAwaited
  <1>15. QED
    BY <1>3, <1>4, <1>11, <1>13, <1>14 DEF CredsInv, ListCallOK, ListReply, RevokeCallOK

LEMMA CredsListAnswered ==
  ASSUME CredsInv, at = "credentials", at' = at, NEW c, NEW outcome, ListAnswer(c, outcome)
  PROVE  CredsInv'
  <1>1. /\ c \in Live("list") /\ c \notin Live("revoke")
        /\ calls' = calls \ {c} /\ revoked' = revoked
        /\ outcome = "ok" => c.served /\ c.reply.found
    BY DEF ListAnswer, Live
  <1>2. Live("list")' = Live("list") \ {c} /\ Live("revoke")' = Live("revoke")
    BY <1>1, LiveDropped
  <1>3. CredsPageOK(page) /\ ListCallOK(c)
    BY <1>1 DEF CredsInv
  <1>4. PICK revoking, p : /\ revoking = (IF c.arg.refetch THEN none ELSE page.revoking)
                           /\ p = [page EXCEPT !.revoking = revoking]
    OBVIOUS
  <1>5. page' = IF outcome = "ok"
                  THEN [p EXCEPT !.phase = "loaded", !.user = c.arg.user, !.n = c.arg.n,
                                 !.items = c.reply.items, !.of = c.reply.of]
                  ELSE [p EXCEPT !.phase = "error", !.error = TRUE, !.items = {}, !.of = 0]
    BY <1>4 DEF ListAnswer
  <1>6. p = [phase |-> page.phase, username |-> page.username, user |-> page.user,
             items |-> page.items, n |-> page.n, of |-> page.of, error |-> page.error,
             target |-> page.target, revoking |-> revoking, told |-> page.told,
             raced |-> page.raced]
    BY <1>3, <1>4 DEF CredsPageOK, IsCredsPage
  <1>7. /\ CredsPageOK(page') /\ page'.phase # "loading" /\ page'.revoking = revoking
        /\ page'.told = page.told /\ page'.raced = page.raced
        /\ page'.items = {} \/ (outcome = "ok" /\ page'.items = c.reply.items)
    <2>1. CASE outcome = "ok"
      <3>1. page' = [phase |-> "loaded", username |-> page.username, user |-> c.arg.user,
             items |-> c.reply.items, n |-> c.arg.n, of |-> c.reply.of, error |-> page.error,
             target |-> page.target, revoking |-> revoking, told |-> page.told,
             raced |-> page.raced]
        BY <1>5, <1>6, <2>1
      <3>2. PICK q : q = page'
        OBVIOUS
      <3>3. /\ IsCredsPage(q) /\ q.phase = "loaded" /\ q.username = page.username
            /\ q.user = c.arg.user /\ q.items = c.reply.items /\ q.n = c.arg.n
            /\ q.of = c.reply.of /\ q.target = page.target /\ q.revoking = revoking
            /\ q.told = page.told /\ q.raced = page.raced
        BY <1>3, <3>1, <3>2 DEF CredsPageOK, IsCredsPage
      <3>4. ListReply(c) /\ Askable(c.arg.user, c.arg.n)
        BY <1>1, <1>3, <2>1 DEF ListCallOK
      <3>5. c.arg.user # none /\ c.arg.user \notin Unknown
        BY <1>1, <2>1, <3>4, CredentialsAssumption DEF Askable, ListReply
      <3>6. CredsPageOK(q)
        BY <1>3, <3>3, <3>4, <3>5 DEF CredsPageOK, ListReply
      <3>7. QED
        BY <2>1, <3>2, <3>3, <3>6
    <2>2. CASE outcome # "ok"
      <3>1. page' = [phase |-> "error", username |-> page.username, user |-> page.user,
             items |-> {}, n |-> page.n, of |-> 0, error |-> TRUE,
             target |-> page.target, revoking |-> revoking, told |-> page.told,
             raced |-> page.raced]
        BY <1>5, <1>6, <2>2
      <3>2. PICK q : q = page'
        OBVIOUS
      <3>3. /\ IsCredsPage(q) /\ q.phase = "error" /\ q.username = page.username
            /\ q.user = page.user /\ q.items = {} /\ q.n = page.n
            /\ q.target = page.target /\ q.revoking = revoking
            /\ q.told = page.told /\ q.raced = page.raced
        BY <1>3, <3>1, <3>2 DEF CredsPageOK, IsCredsPage
      <3>4. CredsPageOK(q)
        BY <1>3, <3>3 DEF CredsPageOK
      <3>5. QED
        BY <3>2, <3>3, <3>4
    <2>3. QED
      BY <2>1, <2>2
  <1>8. ToldOK'
    BY <1>1, <1>2, <1>7 DEF CredsInv, ToldOK, ToldInactive
  <1>9. CredsAwaited'
    BY <1>2, <1>3, <1>4, <1>7 DEF CredsInv, CredsAwaited, ListCallOK
  <1>10. QED
    BY <1>1, <1>2, <1>7, <1>8, <1>9 DEF CredsInv, ListCallOK, ListReply, RevokeCallOK

LEMMA CredsRevokeAnswered ==
  ASSUME CredsInv, at = "credentials", at' = at, NEW c, NEW outcome, RevokeAnswer(c, outcome)
  PROVE  CredsInv'
  <1>1. /\ c \in Live("revoke") /\ c \notin Live("list") /\ revoked' = revoked
        /\ outcome = "ok" => c.reply = "ok"
    BY DEF RevokeAnswer, Live
  <1>2. CredsPageOK(page) /\ RevokeCallOK(c)
    BY <1>1 DEF CredsInv
  <1>3. CASE outcome = "ok"
    <2>1. PICK refetch \in BOOLEAN : refetch = TRUE
      OBVIOUS
    <2>2. PICK arg : arg = [user |-> c.arg.user, n |-> c.arg.n, refetch |-> refetch]
      OBVIOUS
    <2>3. PICK d : d = NewCall(calls \ {c}, "list", arg)
      OBVIOUS
    <2>4. calls' = Sent(calls \ {c}, "list", arg)
      BY <1>3, <2>1, <2>2 DEF RevokeAnswer, Asking
    <2>5. Live("list")' = (Live("list") \ {c}) \union {d}
      BY <2>3, <2>4, LiveNext
    <2>6. \A k : k # "list" => Live(k)' = Live(k) \ {c}
      BY <2>4, LiveNextOther
    <2>7. d.arg = arg /\ d.served = FALSE
      BY <2>3 DEF NewCall
    <2>8. ListCallOK(d) /\ d.arg.refetch
      BY <1>2, <2>1, <2>2, <2>7 DEF ListCallOK, RevokeCallOK
    <2>9. PICK p : p = [page EXCEPT !.told = c.arg.id, !.target = none]
      OBVIOUS
    <2>10. p = [phase |-> page.phase, username |-> page.username, user |-> page.user,
             items |-> page.items, n |-> page.n, of |-> page.of, error |-> page.error,
             target |-> none, revoking |-> page.revoking, told |-> c.arg.id,
             raced |-> page.raced]
      BY <1>2, <2>9 DEF CredsPageOK, IsCredsPage
    <2>11. CredsPageOK(p) /\ p.told = c.arg.id
      BY <1>2, <2>10 DEF CredsPageOK, IsCredsPage
    <2>12. page' = Loading(p)
      BY <1>3, <2>9 DEF RevokeAnswer
    <2>13. /\ CredsPageOK(page') /\ page'.phase = "loading" /\ page'.told = c.arg.id
           /\ page'.raced <=> Live("list") # {}
      BY <2>11, <2>12, LoadingIs
    <2>14. ToldOK'
      BY <1>1, <1>2, <1>3, <2>5, <2>7, <2>13 DEF ToldOK, RevokeCallOK
    <2>15. CredsAwaited'
      BY <2>5, <2>8 DEF CredsAwaited
    <2>16. QED
      BY <1>1, <2>5, <2>6, <2>8, <2>13, <2>14, <2>15
      DEF CredsInv, ListCallOK, ListReply, RevokeCallOK
  <1>4. CASE outcome # "ok"
    <2>1. calls' = calls \ {c}
      BY <1>4 DEF RevokeAnswer
    <2>2. Live("list")' = Live("list") /\ Live("revoke")' = Live("revoke") \ {c}
      BY <1>1, <2>1, LiveDropped
    <2>3. PICK q : q = page'
      OBVIOUS
    <2>4. q = [phase |-> "loaded", username |-> page.username, user |-> page.user,
             items |-> page.items, n |-> page.n, of |-> page.of, error |-> TRUE,
             target |-> page.target, revoking |-> none, told |-> page.told,
             raced |-> page.raced]
      BY <1>2, <1>4, <2>3 DEF RevokeAnswer, CredsPageOK, IsCredsPage
    <2>5. /\ IsCredsPage(q) /\ q.phase = "loaded" /\ q.username = page.username
          /\ q.user = page.user /\ q.items = page.items /\ q.n = page.n /\ q.of = page.of
          /\ q.error /\ q.target = page.target /\ q.revoking = none
          /\ q.told = page.told /\ q.raced = page.raced
      BY <1>2, <2>4 DEF CredsPageOK, IsCredsPage
    <2>6. CredsPageOK(q)
      BY <1>2, <2>5 DEF CredsPageOK
    <2>7. ToldOK'
      BY <1>1, <2>2, <2>3, <2>5 DEF CredsInv, ToldOK
    <2>8. CredsAwaited'
      BY <2>3, <2>5 DEF CredsAwaited
    <2>9. QED
      BY <1>1, <2>2, <2>3, <2>6, <2>7, <2>8 DEF CredsInv, ListCallOK, ListReply, RevokeCallOK
  <1>5. QED
    BY <1>3, <1>4

\* The page as it is mounted, with what other pages have left behind.
LEMMA CredsMounted ==
  ASSUME CallsOK, at' = "credentials", NEW prefill, prefill \in Users \union {none},
         CredentialsMount(Left, prefill)
  PROVE  CredsInv'
  <1>1. PICK q : q = page'
    OBVIOUS
  <1>2. CASE prefill = none
    <2>1. calls' = Left /\ q = CredentialsBlank
      BY <1>1, <1>2 DEF CredentialsMount
    <2>2. \A k : Live(k)' = {}
      BY <2>1, LiveNone
    <2>3. /\ IsCredsPage(q) /\ q.phase = "idle" /\ q.username = none /\ q.user = none
          /\ q.items = {} /\ q.target = none /\ q.revoking = none /\ q.told = none
      BY <2>1 DEF CredentialsBlank, IsCredsPage
    <2>4. CredsPageOK(q)
      BY <2>3 DEF CredsPageOK
    <2>5. QED
      BY <1>1, <2>2, <2>3, <2>4 DEF CredsInv, ToldOK, ToldInactive, CredsAwaited
  <1>3. CASE prefill # none
    <2>1. PICK refetch \in BOOLEAN : refetch = FALSE
      OBVIOUS
    <2>2. PICK arg : arg = [user |-> prefill, n |-> 1, refetch |-> refetch]
      OBVIOUS
    <2>3. PICK d : d = NewCall(Left, "list", arg)
      OBVIOUS
    <2>4. calls' = Sent(Left, "list", arg)
      BY <1>3, <2>1, <2>2 DEF CredentialsMount, Asking
    <2>5. Live("list")' = {d}
      BY <2>3, <2>4, LiveFirst
    <2>6. \A k : k # "list" => Live(k)' = {}
      BY <2>4, LiveFirstOther
    <2>7. d.arg = arg /\ ~d.served
      BY <2>3 DEF NewCall
    <2>8. ListCallOK(d)
      BY <1>3, <2>2, <2>7 DEF ListCallOK, Askable
    <2>9. q = [phase |-> "loading", username |-> prefill, user |-> none, items |-> {}, n |-> 1,
               of |-> 0, error |-> FALSE, target |-> none, revoking |-> none, told |-> none,
               raced |-> FALSE]
      BY <1>1, <1>3 DEF CredentialsMount, CredentialsBlank
    <2>10. /\ IsCredsPage(q) /\ q.phase = "loading" /\ q.username = prefill /\ q.user = none
           /\ q.items = {} /\ q.target = none /\ q.revoking = none /\ q.told = none
      BY <2>9 DEF IsCredsPage
    <2>11. CredsPageOK(q)
      BY <2>10 DEF CredsPageOK
    <2>12. ToldOK'
      BY <1>1, <2>5, <2>7, <2>10 DEF ToldOK
    <2>13. CredsAwaited'
      BY <1>1, <2>5, <2>10 DEF CredsAwaited
    <2>14. QED
      BY <1>1, <2>5, <2>6, <2>8, <2>11, <2>12, <2>13
      DEF CredsInv, ListCallOK, ListReply, RevokeCallOK
  <1>4. QED
    BY <1>2, <1>3

\* The API executes something, of this page or of one that is gone: what is
\* revoked stays revoked.
LEMMA CredsServed ==
  ASSUME CallsOK, CredsInv, at = "credentials", Serve
  PROVE  CredsInv'
  <1>1. at' = at /\ page' = page
    BY Serving
  <1>2. Live("list")' = Live("list")
    BY ServingKeeps DEF Effects, Acts
  <1>3. revoked \subseteq revoked'
    BY DEF Serve, IssueServe, RevokeServe, ActServe, RegisterServe
  <1>4. ASSUME \A c \in Live("revoke")' : RevokeCallOK(c)',
               Live("revoke") # {} => Live("revoke")' # {}
        PROVE  CredsInv'
    <2>1. ToldOK'
      BY <1>1, <1>2, <1>3 DEF CredsInv, ToldOK
    <2>2. CredsAwaited'
      BY <1>1, <1>2, <1>4 DEF CredsInv, CredsAwaited
    <2>3. QED
      BY <1>1, <1>2, <1>4, <2>1, <2>2 DEF CredsInv, ListCallOK, ListReply
  <1>5. ASSUME NEW c, RevokeServe(c)
        PROVE  CredsInv'
    <2>1. c \in calls /\ c.kind = "revoke"
      BY <1>5 DEF RevokeServe
    <2>2. CASE ~c.live
      <3>1. Live("revoke")' = Live("revoke")
        BY <1>5, <2>2 DEF RevokeServe, Live
      <3>2. QED
        BY <1>3, <1>4, <3>1 DEF CredsInv, RevokeCallOK
    <2>3. CASE c.live
      <3>1. c \in Live("revoke")
        BY <2>1, <2>3 DEF Live
      <3>2. PICK r : /\ r = (IF c.arg.id \in revoked \union Irrevocable THEN "failed" ELSE "ok")
                     /\ calls' = Served(c, r)
        BY <1>5, <2>3 DEF RevokeServe
      <3>3. PICK d : d = Replied(c, r)
        OBVIOUS
      <3>4. Live("revoke")' = (Live("revoke") \ {c}) \union {d}
        BY <3>1, <3>2, <3>3, LiveServed
      <3>5. d.arg = c.arg /\ d.reply = r
        BY <3>1, <3>3, LiveReplied
      <3>6. r = "ok" => c.arg.id \in revoked'
        BY <1>5, <3>2 DEF RevokeServe
      <3>7. \A e \in Live("revoke")' : RevokeCallOK(e)'
        BY <1>3, <3>1, <3>4, <3>5, <3>6 DEF CredsInv, RevokeCallOK
      <3>8. QED
        BY <1>4, <3>4, <3>7
    <2>4. QED
      BY <2>2, <2>3
  <1>6. ASSUME NEW c, IssueServe(c) \/ ActServe(c) \/ RegisterServe(c)
        PROVE  CredsInv'
    <2>1. c \in calls /\ c.kind # "revoke"
      BY <1>6 DEF IssueServe, ActServe, RegisterServe, Pending, Acts
    <2>2. PICK r : calls' = IF c.live THEN Served(c, r) ELSE calls \ {c}
      <3>1. CASE IssueServe(c)
        BY <3>1 DEF IssueServe
      <3>2. CASE ActServe(c)
        BY <3>2 DEF ActServe
      <3>3. CASE RegisterServe(c)
        BY <3>3 DEF RegisterServe
      <3>4. QED
        BY <1>6, <3>1, <3>2, <3>3
    <2>3. Live("revoke")' = Live("revoke")
      <3>1. CASE c.live
        BY <2>1, <2>2, <3>1, LiveServedOther DEF Live
      <3>2. CASE ~c.live
        BY <2>1, <2>2, <3>2 DEF Live
      <3>3. QED
        BY <3>1, <3>2
    <2>4. QED
      BY <1>3, <1>4, <2>3 DEF CredsInv, RevokeCallOK
  <1>7. QED
    BY <1>5, <1>6 DEF Serve

LEMMA CredsStep ==
  ASSUME CallsOK, AccountsInv, CredsInv, [Next]_vars
  PROVE  CredsInv'
  <1>1. SUFFICES ASSUME at' = "credentials" PROVE CredsInv'
    BY DEF CredsInv
  <1>2. CASE Navigate
    <2>1. CASE FollowCredentials
      <3>1. page.detail.id \in Names
        BY <2>1 DEF FollowCredentials, AccountsInv, AccountViews, AccOK, NamesOK
      <3>2. page.detail.id \in Users /\ CredentialsMount(Left, page.detail.id)
        BY <2>1, <3>1, AppAssumption DEF FollowCredentials, Names
      <3>3. QED
        BY <1>1, <3>2, CredsMounted
    <2>2. CASE ~FollowCredentials
      <3>1. CredentialsMount(Left, none)
        BY <1>1, <1>2, <2>2 DEF Navigate, Visit, FollowIssue, FollowRegistered, Mounts, DidViews
      <3>2. QED
        BY <1>1, <3>1, CredsMounted
    <2>3. QED
      BY <2>1, <2>2
  <1>3. CASE Input
    <2>1. at' = at /\ CredentialsInput
      BY <1>1, <1>3 DEF Input, DidViews, AccountViews
    <2>2. QED
      BY <1>1, <2>1, CredsInputs
  <1>4. CASE Answer
    <2>1. at' = at /\ CredentialsAnswers
      BY <1>1, <1>4 DEF Answer, DidViews, AccountViews
    <2>2. QED
      BY <1>1, <2>1, CredsListServed, CredsListAnswered, CredsRevokeAnswered
      DEF CredentialsAnswers
  <1>5. CASE Serve
    BY <1>1, <1>5, CredsServed, Serving
  <1>6. CASE Settling
    BY <1>1, <1>6 DEF Settling
  <1>7. CASE UNCHANGED vars
    BY <1>1, <1>7 DEF vars, server, Live, CredsInv, ListCallOK, ListReply, RevokeCallOK, ToldOK,
                      CredsAwaited
  <1>8. QED
    BY <1>2, <1>3, <1>4, <1>5, <1>6, <1>7 DEF Next

\* What the credentials page holds, and the lists and revocations it awaits: a list served
\* after a revocation shows it.
THEOREM CredsInvAlways == Spec => []CredsInv
  <1>1. Init => CredsInv
    BY DEF Init, CredsInv
  <1>2. CallsOK /\ AccountsInv /\ CredsInv /\ [Next]_vars => CredsInv'
    BY CredsStep
  <1>3. QED
    BY <1>1, <1>2, CallsAreOK, AccountsInvAlways, PTL DEF Spec

\* A list of credentials on display shows the one just revoked as revoked, unless
\* two lists raced; and it is empty only of a user who has none.
THEOREM CredentialsListIsAlwaysTrue == Spec => []CredentialsListIsTrue
  <1>1. CredsInv => CredentialsListIsTrue
    <2>1. SUFFICES ASSUME CredsInv, at = "credentials", page.phase = "loaded",
                          Live("list") = {}
                   PROVE  /\ page.raced \/ ToldInactive(page.told, page.items)
                          /\ page.items = {} /\ ~page.error =>
                               /\ page.user \notin Unknown
                               /\ UNION {CredsOf[page.user][n] : n \in PagesOf(page.user)} = {}
      BY DEF CredentialsListIsTrue, ListShown, ToldInactive
    <2>2. page.raced \/ ToldInactive(page.told, page.items)
      BY <2>1 DEF CredsInv, ToldOK
    <2>3. ASSUME page.items = {}, ~page.error
          PROVE  page.user \notin Unknown /\ PagesOf(page.user) = {}
      BY <2>1, <2>3 DEF CredsInv, CredsPageOK
    <2>4. QED
      BY <2>2, <2>3
  <1>2. QED
    BY <1>1, CredsInvAlways, PTL

-----------------------------------------------------------------------------
(* The issue page: what a template, a form and what is sent have in common *)

\* The typed values of a form fit its template.
Fits(values, t) ==
  /\ values = [k \in {f.key : f \in TypedFields(t)} |-> values[k]]
  /\ \A f \in TypedFields(t) : f.type = "number" => values[f.key].word # NaN

LEMMA TemplateKeys ==
  ASSUME NEW t, WellFormed(t)
  PROVE  /\ \A f, g \in FieldsOf(t) : f.key = g.key => f = g
         /\ \A f \in FieldsOf(t) : \E i \in 1..Len(t) : f = t[i]
         /\ \A i \in 1..Len(t) : t[i] \in FieldsOf(t)
         /\ Len(t) \in Nat
  <1>1. DOMAIN t = 1..Len(t) /\ Len(t) \in Nat
    <2>1. PICK S : t \in Seq(S)
      BY DEF WellFormed
    <2>2. QED
      BY <2>1
  <1>2. FieldsOf(t) = {t[i] : i \in 1..Len(t)}
    BY <1>1 DEF FieldsOf, Range
  <1>3. QED
    BY <1>1, <1>2 DEF WellFormed

LEMMA FieldIs ==
  ASSUME NEW t, WellFormed(t), NEW f \in FieldsOf(t)
  PROVE  FieldOf(t, f.key) = f
  <1>1. FieldOf(t, f.key) \in FieldsOf(t) /\ FieldOf(t, f.key).key = f.key
    BY DEF FieldOf
  <1>2. QED
    BY <1>1, TemplateKeys

LEMMA EarlierField ==
  ASSUME NEW t, WellFormed(t), NEW i \in 1..Len(t), NEW j \in 1..(i - 1)
  PROVE  t[j] \in FieldsOf(t)
  <1>1. Len(t) \in Nat
    BY TemplateKeys
  <1>2. j \in 1..Len(t)
    BY <1>1
  <1>3. QED
    BY <1>2, TemplateKeys

\* The values a fresh form holds fit.
LEMMA DefaultsFit ==
  ASSUME NEW t, WellFormed(t)
  PROVE  Fits(DefaultValues(t), t)
  <1>1. PICK keys : keys = {f.key : f \in TypedFields(t)}
    OBVIOUS
  <1>2. PICK v : v = DefaultValues(t)
    OBVIOUS
  <1>3. v = [k \in keys |-> FieldOf(t, k).default]
    BY <1>1, <1>2 DEF DefaultValues
  <1>4. ASSUME NEW f \in TypedFields(t), f.type = "number"
        PROVE  v[f.key].word # NaN
    <2>1. f \in FieldsOf(t)
      BY DEF TypedFields
    <2>2. v[f.key] = f.default
      BY <1>1, <1>3, <2>1, FieldIs
    <2>3. QED
      BY <1>4, <2>1, <2>2 DEF WellFormed
  <1>5. QED
    BY <1>1, <1>2, <1>3, <1>4 DEF Fits

LEMMA EditFits ==
  ASSUME NEW t, WellFormed(t), NEW values, Fits(values, t),
         NEW f \in TypedFields(t), NEW v \in f.options
  PROVE  Fits([values EXCEPT ![f.key] = v], t)
  <1>1. PICK keys : keys = {g.key : g \in TypedFields(t)}
    OBVIOUS
  <1>2. PICK w : w = [values EXCEPT ![f.key] = v]
    OBVIOUS
  <1>3. DOMAIN values = keys
    BY <1>1 DEF Fits
  <1>4. w = [k \in keys |-> w[k]]
    BY <1>2, <1>3
  <1>5. ASSUME NEW g \in TypedFields(t), g.type = "number"
        PROVE  w[g.key].word # NaN
    <2>1. CASE g.key = f.key
      <3>1. g = f
        BY <2>1, TemplateKeys DEF TypedFields
      <3>2. f.key \in keys
        BY <1>1
      <3>3. w[g.key] = v
        BY <1>2, <1>3, <2>1, <3>2
      <3>4. v.word # NaN
        BY <1>5, <3>1 DEF TypedFields, WellFormed
      <3>5. QED
        BY <3>3, <3>4
    <2>2. CASE g.key # f.key
      <3>1. w[g.key] = values[g.key]
        BY <1>1, <1>2, <1>3, <2>2
      <3>2. QED
        BY <1>5, <3>1 DEF Fits
    <2>3. QED
      BY <2>1, <2>2
  <1>6. QED
    BY <1>1, <1>2, <1>4, <1>5 DEF Fits

\* What the form holds in each field that is no file.
Holds(vals, t, values, role) ==
  /\ DOMAIN vals = {f.key : f \in {g \in FieldsOf(t) : g.type # "file"}}
  /\ \A f \in FieldsOf(t) : f.type = "derived" => vals[f.key] = MemberRole(role)
  /\ \A f \in TypedFields(t) :
       vals[f.key] = values[f.key] /\ (f.type = "number" => vals[f.key].word # NaN)

LEMMA HeldValues ==
  ASSUME NEW t, WellFormed(t), NEW values, Fits(values, t), NEW role
  PROVE  Holds(FormValues(t, values, role), t, values, role)
  <1>1. PICK dom : dom = DerivedKeys(t) \union DOMAIN values
    OBVIOUS
  <1>2. PICK vals : vals = FormValues(t, values, role)
    OBVIOUS
  <1>3. vals = [k \in dom |-> IF k \in DerivedKeys(t) THEN MemberRole(role) ELSE values[k]]
    BY <1>1, <1>2 DEF FormValues
  <1>4. DOMAIN values = {f.key : f \in TypedFields(t)}
    BY DEF Fits
  <1>5. dom = {f.key : f \in {g \in FieldsOf(t) : g.type # "file"}}
    BY <1>1, <1>4 DEF DerivedKeys, TypedFields
  <1>6. ASSUME NEW f \in FieldsOf(t), f.type = "derived"
        PROVE  vals[f.key] = MemberRole(role)
    BY <1>1, <1>3, <1>6 DEF DerivedKeys
  <1>7. ASSUME NEW f \in TypedFields(t)
        PROVE  vals[f.key] = values[f.key] /\ (f.type = "number" => vals[f.key].word # NaN)
    <2>1. f.key \notin DerivedKeys(t)
      BY <1>7, TemplateKeys DEF DerivedKeys, TypedFields
    <2>2. vals[f.key] = values[f.key]
      BY <1>1, <1>3, <1>4, <2>1
    <2>3. QED
      BY <2>2 DEF Fits
  <1>8. QED
    BY <1>2, <1>3, <1>5, <1>6, <1>7 DEF Holds

\* What is sent is what is visible and not empty, converted; the name of the holder
\* apart.
Filled(f, vals) == f.type # "file" /\ Converted(f, vals[f.key]).word # ""

Sends(data, seen, vals) ==
  /\ \A f \in seen : Filled(f, vals) => f.key \in DOMAIN data
  /\ \A k \in DOMAIN data \ {"username"} :
       \E f \in seen : Filled(f, vals) /\ f.key = k /\ data[k] = Converted(f, vals[k])

LEMMA PayloadIs ==
  ASSUME NEW t, WellFormed(t), NEW form, Fits(form.values, t), NEW role
  PROVE  Sends(Payload(t, form, role), VisibleFields(t, form.values, role),
               FormValues(t, form.values, role))
  <1>1. PICK vals : vals = FormValues(t, form.values, role)
    OBVIOUS
  <1>2. PICK seen : seen = VisibleFields(t, form.values, role)
    OBVIOUS
  <1>3. PICK data : data = Payload(t, form, role)
    OBVIOUS
  <1>4. PICK sent :
          /\ sent = {f \in seen : /\ f.type # "file"
                                  /\ Converted(f, vals[f.key]).word # ""
                                  /\ f.type = "number" => vals[f.key].word # NaN}
          /\ data = [k \in {f.key : f \in sent} |-> Converted(FieldOf(t, k), vals[k])]
    BY <1>1, <1>2, <1>3, Zenon DEF Payload
  <1>5. Holds(vals, t, form.values, role) /\ seen \subseteq FieldsOf(t)
    BY <1>1, <1>2, HeldValues DEF VisibleFields
  <1>6. \A f \in seen : f.type = "number" => vals[f.key].word # NaN
    BY <1>5 DEF TypedFields, Holds
  <1>7. \A f : f \in sent <=> f \in seen /\ Filled(f, vals)
    BY <1>4, <1>6 DEF Filled
  <1>8. ASSUME NEW k \in DOMAIN data
        PROVE  \E f \in seen : Filled(f, vals) /\ f.key = k /\ data[k] = Converted(f, vals[k])
    <2>1. PICK f \in sent : f.key = k
      BY <1>4
    <2>2. f \in seen /\ f \in FieldsOf(t) /\ Filled(f, vals)
      BY <1>5, <1>7, <2>1
    <2>3. FieldOf(t, k) = f
      BY <2>1, <2>2, FieldIs
    <2>4. QED
      BY <1>4, <2>1, <2>2, <2>3
  <1>9. Sends(data, seen, vals)
    BY <1>4, <1>7, <1>8 DEF Sends
  <1>10. QED
    BY <1>1, <1>2, <1>3, <1>9

\* A member role is sent as it is.
LEMMA RoleIsSent ==
  ASSUME NEW f, f.type = "derived", NEW role
  PROVE  Converted(f, MemberRole(role)) = MemberRole(role)
  BY DEF Converted, MemberRole, Text

\* What the API sees of a field, when it asks whether another is reached.
LEMMA SeenIs ==
  ASSUME NEW t, WellFormed(t), NEW values, NEW vals, NEW role, Holds(vals, t, values, role),
         NEW data, NEW seen, seen \subseteq FieldsOf(t), Sends(data, seen, vals),
         NEW i \in 1..Len(t), NEW k, k # "username", NEW v \in SeenAt(t, data, role, i, k)
  PROVE  \/ k \in DOMAIN vals /\ vals[k] = v
         \/ \E f \in seen \intersect TypedFields(t) : f.key = k /\ v = Converted(f, vals[k])
  <1>1. ASSUME k \in DOMAIN data, v = data[k]
        PROVE  \/ k \in DOMAIN vals /\ vals[k] = v
               \/ \E f \in seen \intersect TypedFields(t) : f.key = k /\ v = Converted(f, vals[k])
    <2>1. PICK f \in seen : Filled(f, vals) /\ f.key = k /\ v = Converted(f, vals[k])
      BY <1>1 DEF Sends
    <2>2. f \in FieldsOf(t) /\ f.type # "file"
      BY <2>1 DEF Filled
    <2>3. CASE f.type = "derived"
      <3>1. vals[k] = MemberRole(role) /\ k \in DOMAIN vals
        BY <2>1, <2>2, <2>3 DEF Holds
      <3>2. v = vals[k]
        BY <2>1, <2>3, <3>1, RoleIsSent
      <3>3. QED
        BY <3>1, <3>2
    <2>4. CASE f.type # "derived"
      BY <2>1, <2>2, <2>4 DEF TypedFields
    <2>5. QED
      BY <2>3, <2>4
  <1>2. CASE \E j \in 1..(i - 1) : t[j].key = k /\ t[j].type = "derived"
    <2>1. PICK j \in 1..(i - 1) : t[j].key = k /\ t[j].type = "derived"
      BY <1>2
    <2>2. t[j] \in FieldsOf(t)
      BY EarlierField
    <2>3. vals[k] = MemberRole(role) /\ k \in DOMAIN vals
      BY <2>1, <2>2 DEF Holds
    <2>4. QED
      BY <1>1, <2>3 DEF SeenAt
  <1>3. CASE ~\E j \in 1..(i - 1) : t[j].key = k /\ t[j].type = "derived"
    BY <1>1, <1>3 DEF SeenAt
  <1>4. QED
    BY <1>2, <1>3

\* The text in a visible field, if it is no number's, the API sees.
LEMMA HeldIsSeen ==
  ASSUME NEW t, WellFormed(t), NEW values, NEW vals, NEW role, Holds(vals, t, values, role),
         NEW data, NEW seen, seen \subseteq FieldsOf(t), Sends(data, seen, vals),
         NEW i \in 1..Len(t), NEW g \in seen, g.type # "number", g.key # "username",
         g.key \in DOMAIN vals, NEW word, word # "", vals[g.key] = Text(word)
  PROVE  Text(word) \in SeenAt(t, data, role, i, g.key)
  <1>1. g.type # "file" /\ g \in FieldsOf(t)
    <2>1. PICK f \in FieldsOf(t) : f.type # "file" /\ f.key = g.key
      BY DEF Holds
    <2>2. g \in FieldsOf(t)
      OBVIOUS
    <2>3. QED
      BY <2>1, <2>2, TemplateKeys
  <1>2. Converted(g, vals[g.key]) = Text(word) /\ Filled(g, vals)
    <2>1. PICK v : v = vals[g.key]
      OBVIOUS
    <2>2. Text(word).word = word
      BY DEF Text
    <2>3. v.word = word
      BY <2>1, <2>2
    <2>4. Converted(g, v) = Text(word)
      BY <2>3 DEF Converted
    <2>5. QED
      BY <1>1, <2>1, <2>2, <2>4 DEF Filled
  <1>3. g.key \in DOMAIN data /\ data[g.key] = Text(word)
    <2>1. g.key \in DOMAIN data
      BY <1>2 DEF Sends
    <2>2. PICK f \in seen : f.key = g.key /\ data[g.key] = Converted(f, vals[g.key])
      BY <2>1 DEF Sends
    <2>3. f \in FieldsOf(t)
      OBVIOUS
    <2>4. f = g
      BY <1>1, <2>2, <2>3, TemplateKeys
    <2>5. QED
      BY <1>2, <2>1, <2>2, <2>4
  <1>4. CASE \E j \in 1..(i - 1) : t[j].key = g.key /\ t[j].type = "derived"
    <2>1. PICK j \in 1..(i - 1) : t[j].key = g.key /\ t[j].type = "derived"
      BY <1>4
    <2>2. t[j] \in FieldsOf(t)
      BY EarlierField
    <2>3. Text(word) = MemberRole(role)
      BY <2>1, <2>2 DEF Holds
    <2>4. QED
      BY <1>3, <2>3 DEF SeenAt
  <1>5. CASE ~\E j \in 1..(i - 1) : t[j].key = g.key /\ t[j].type = "derived"
    BY <1>3, <1>5 DEF SeenAt
  <1>6. QED
    BY <1>4, <1>5

\* A field the API reaches is one the form shows, unless what it hangs on only comes
\* about when it is sent.
LEMMA ReachedIsVisible ==
  ASSUME NEW t, WellFormed(t), NEW values, NEW vals, NEW role, Holds(vals, t, values, role),
         NEW data, NEW seen, seen \subseteq FieldsOf(t), Sends(data, seen, vals),
         NEW i \in 1..Len(t), Reached(t, data, role, i),
         \A w \in t[i].when :
            /\ w.field # "username"
            /\ \A g \in seen \intersect TypedFields(t) :
                 g.key = w.field /\ Converted(g, vals[g.key]) = Text(w.equals)
                   => vals[g.key] = Text(w.equals)
  PROVE  IsVisible(t[i], vals)
  <1>1. ASSUME NEW w \in t[i].when
        PROVE  w.field \in DOMAIN vals /\ vals[w.field] = Text(w.equals)
    <2>1. PICK v, k : v = Text(w.equals) /\ k = w.field
      OBVIOUS
    <2>2. v \in SeenAt(t, data, role, i, k)
      BY <1>1, <2>1 DEF Reached
    <2>3. CASE k \in DOMAIN vals /\ vals[k] = v
      BY <2>1, <2>3
    <2>4. CASE \E f \in seen \intersect TypedFields(t) : f.key = k /\ v = Converted(f, vals[k])
      <3>1. PICK f \in seen \intersect TypedFields(t) : f.key = k /\ v = Converted(f, vals[k])
        BY <2>4
      <3>2. vals[k] = v
        BY <1>1, <2>1, <3>1
      <3>3. k \in DOMAIN vals
        BY <3>1 DEF Holds, TypedFields
      <3>4. QED
        BY <2>1, <3>2, <3>3
    <2>5. QED
      BY <1>1, <2>1, <2>2, <2>3, <2>4, SeenIs
  <1>2. QED
    BY <1>1 DEF IsVisible

\* A visible field is one the API reaches, unless it hangs on a hidden one or on a number.
LEMMA VisibleIsReached ==
  ASSUME NEW t, WellFormed(t), NEW values, NEW vals, NEW role, Holds(vals, t, values, role),
         NEW data, NEW seen, seen \subseteq FieldsOf(t), Sends(data, seen, vals),
         NEW i \in 1..Len(t), IsVisible(t[i], vals),
         \A w \in t[i].when :
            w.field # "username" /\ \E g \in seen : g.key = w.field /\ g.type # "number"
  PROVE  Reached(t, data, role, i)
  <1>1. ASSUME NEW w \in t[i].when
        PROVE  Text(w.equals) \in SeenAt(t, data, role, i, w.field)
    <2>1. w.field \in DOMAIN vals /\ vals[w.field] = Text(w.equals)
      BY <1>1 DEF IsVisible
    <2>2. t[i] \in FieldsOf(t)
      BY TemplateKeys
    <2>3. w.equals # ""
      BY <1>1, <2>2 DEF WellFormed
    <2>4. PICK g \in seen : g.key = w.field /\ g.type # "number"
      BY <1>1
    <2>5. g.key # "username"
      BY <1>1, <2>4
    <2>6. QED
      BY <2>1, <2>3, <2>4, <2>5, HeldIsSeen
  <1>2. QED
    BY <1>1 DEF Reached

-----------------------------------------------------------------------------
(* The issue page: the forms that are sent, and what the API makes of them *)

IsForm(f) ==
  /\ f = [did |-> f.did, who |-> f.who, type |-> f.type, values |-> f.values,
          files |-> f.files, attachment |-> f.attachment]
  /\ f.did \in Dids \union {none} /\ f.who \in Dids \union {none}
  /\ f.type \in DOMAIN Templates \union {none}

FormOK(f) == IsForm(f) /\ (f.type # none => Fits(f.values, Templates[f.type]))

\* The page has found the form complete for the role that was on display when the
\* button was pressed, or for nobody's.
Complete(f, role) == FormErrors(TemplateOf(f), f, role) = {}

\* A form that is sent.
Sendable(f) ==
  /\ FormOK(f) /\ f.type # none /\ f.did # none
  /\ Complete(f, none) \/ Complete(f, RoleShown(f))

\* What the API has been asked to issue: the two properties, entry by entry.
ShownAsIssued(e) ==
  e.outcome = "issued" =>
     \/ InWords(e.subject) = Shown(e.form)
     \/ ~Fresh(e.form) \/ HangsOnUnsent(e.form) \/ HidesDerived(e.form, FALSE)
     \/ TakesOwnKey(e.form)
RefusedForAReason(e) ==
  e.outcome = "refused" =>
     \/ ~Fresh(e.form) \/ HidesDerived(e.form, TRUE) \/ RevealedByHolder(e.form)
     \/ RevealedBySending(e.form) \/ TypesOtherRole(e.form) \/ TakesOwnKey(e.form)
     \/ \E f \in SeenFields(e.form) : f.type = "file" /\ f.required

\* A form as both sides have it: its template, what the page holds and shows, and what
\* is posted.
Sides(form, t, role, vals, seen, data) ==
  /\ t = TemplateOf(form) /\ role = RoleShown(form)
  /\ WellFormed(t) /\ Fits(form.values, t)
  /\ vals = FormValues(t, form.values, role) /\ Holds(vals, t, form.values, role)
  /\ seen = SeenFields(form) /\ seen = {f \in FieldsOf(t) : IsVisible(f, vals)}
  /\ data = Posted(form) /\ Sends(data, seen, vals)

LEMMA PostedIs ==
  ASSUME NEW form, FormOK(form), form.type # none, ~TakesOwnKey(form)
  PROVE  \E t, role, vals, seen, data : Sides(form, t, role, vals, seen, data)
  <1>1. PICK t, role : t = TemplateOf(form) /\ role = RoleShown(form)
    OBVIOUS
  <1>2. WellFormed(t) /\ Fits(form.values, t)
    BY <1>1, IssueAssumption DEF FormOK, IsForm, TemplateOf
  <1>3. PICK vals, seen : vals = FormValues(t, form.values, role) /\ seen = SeenFields(form)
    OBVIOUS
  <1>4. Holds(vals, t, form.values, role)
    BY <1>2, <1>3, HeldValues
  <1>5. /\ seen = VisibleFields(t, form.values, role)
        /\ seen = {f \in FieldsOf(t) : IsVisible(f, vals)}
    BY <1>1, <1>3 DEF SeenFields, VisibleFields
  <1>6. PICK sent : sent = Payload(t, form, role)
    OBVIOUS
  <1>7. Sends(sent, seen, vals)
    BY <1>2, <1>3, <1>5, <1>6, PayloadIs
  <1>8. PICK data : data = Posted(form)
    OBVIOUS
  <1>9. /\ DOMAIN sent \subseteq DOMAIN data /\ DOMAIN data \subseteq DOMAIN sent \union {"username"}
        /\ \A k \in DOMAIN data \ {"username"} : data[k] = sent[k]
    BY <1>1, <1>6, <1>8 DEF Posted
  <1>10. Sends(data, seen, vals)
    <2>1. \A f \in seen : Filled(f, vals) => f.key \in DOMAIN data
      BY <1>7, <1>9 DEF Sends
    <2>2. ASSUME NEW k \in DOMAIN data \ {"username"}
          PROVE  \E f \in seen : Filled(f, vals) /\ f.key = k /\ data[k] = Converted(f, vals[k])
      <3>1. k \in DOMAIN sent \ {"username"} /\ data[k] = sent[k]
        BY <1>9
      <3>2. QED
        BY <1>7, <3>1 DEF Sends
    <2>3. QED
      BY <2>1, <2>2 DEF Sends
  <1>11. QED
    BY <1>1, <1>2, <1>3, <1>4, <1>5, <1>8, <1>10 DEF Sides

\* No field has a key of the API's own, and none hangs on one.
LEMMA OwnKeysApart ==
  ASSUME NEW form, ~TakesOwnKey(form), NEW f \in FieldsOf(TemplateOf(form))
  PROVE  f.key \notin ApiKeys /\ \A w \in f.when : w.field # "username"
  BY DEF TakesOwnKey, ApiKeys

\* The data as they are left, against what is shown and filled.
ShowsDerived(t, seen) == \A f \in FieldsOf(t) : f.type = "derived" => f \in seen

SaysWhatIsSeen(cleaned, seen, vals) ==
  /\ DOMAIN cleaned = {f.key : f \in {g \in seen : Filled(g, vals)}}
  /\ \A f \in seen : Filled(f, vals) => cleaned[f.key] = Converted(f, vals[f.key])

\* What is left of the data: a derived field goes by the role, any other by what was sent.
LEMMA SubjectIs ==
  ASSUME NEW form, NEW t, NEW role, NEW vals, NEW seen, NEW data,
         Sides(form, t, role, vals, seen, data),
         ~HangsOnUnsent(form), ~TakesOwnKey(form), ShowsDerived(t, seen)
  PROVE  SaysWhatIsSeen(Subject(t, data, role), seen, vals)
  <1>1. WellFormed(t) /\ seen \subseteq FieldsOf(t) /\ t = TemplateOf(form)
        /\ Holds(vals, t, form.values, role) /\ Sends(data, seen, vals)
    BY DEF Sides
  <1>2. PICK some : some = {j \in 1..Len(t) :
            IF t[j].type = "derived" THEN MemberRole(role).word # ""
            ELSE Reached(t, data, role, j) /\ t[j].key \in DOMAIN data}
    OBVIOUS
  <1>3. PICK keys : keys = {t[i].key : i \in some}
    OBVIOUS
  <1>4. PICK subject : subject = Subject(t, data, role)
    OBVIOUS
  <1>5. subject = [k \in keys |-> IF k \in DerivedKeys(t) THEN MemberRole(role) ELSE data[k]]
    BY <1>2, <1>3, <1>4 DEF Subject
  <1>6. \A f \in FieldsOf(t) : f.key # "username" /\ \A w \in f.when : w.field # "username"
    BY <1>1, OwnKeysApart DEF ApiKeys
  <1>7. ASSUME NEW i \in some
        PROVE  \E f \in seen : Filled(f, vals) /\ f.key = t[i].key
    <2>1. i \in 1..Len(t) /\ t[i] \in FieldsOf(t)
      BY <1>1, <1>2, TemplateKeys
    <2>2. CASE t[i].type = "derived"
      <3>1. vals[t[i].key] = MemberRole(role) /\ MemberRole(role).word # ""
        BY <1>1, <1>2, <2>1, <2>2 DEF Holds
      <3>2. Converted(t[i], vals[t[i].key]) = MemberRole(role)
        BY <2>2, <3>1, RoleIsSent
      <3>3. QED
        BY <2>1, <2>2, <3>1, <3>2 DEF Filled, ShowsDerived
    <2>3. CASE t[i].type # "derived"
      <3>1. t[i].key \in DOMAIN data \ {"username"}
        BY <1>2, <1>6, <2>1, <2>3
      <3>2. QED
        BY <1>1, <3>1 DEF Sends
    <2>4. QED
      BY <2>2, <2>3
  <1>8. ASSUME NEW f \in seen, Filled(f, vals)
        PROVE  f.key \in keys /\ subject[f.key] = Converted(f, vals[f.key])
    <2>1. f \in FieldsOf(t) /\ f.key \in DOMAIN data
      BY <1>1, <1>8 DEF Sends
    <2>2. PICK i \in 1..Len(t) : t[i] = f
      BY <1>1, <2>1, TemplateKeys
    <2>3. data[f.key] = Converted(f, vals[f.key])
      <3>1. PICK g \in seen : g.key = f.key /\ data[f.key] = Converted(g, vals[f.key])
        BY <1>1, <1>6, <2>1 DEF Sends
      <3>2. g \in FieldsOf(t)
        BY <1>1
      <3>3. QED
        BY <1>1, <2>1, <3>1, <3>2, TemplateKeys
    <2>4. CASE f.type = "derived"
      <3>1. vals[f.key] = MemberRole(role)
        BY <1>1, <2>1, <2>4 DEF Holds
      <3>2. Converted(f, vals[f.key]) = MemberRole(role) /\ MemberRole(role).word # ""
        BY <1>8, <2>4, <3>1, RoleIsSent DEF Filled
      <3>3. f.key \in keys
        BY <1>2, <1>3, <2>2, <2>4, <3>2
      <3>4. f.key \in DerivedKeys(t)
        BY <2>1, <2>4 DEF DerivedKeys
      <3>5. QED
        BY <1>5, <3>2, <3>3, <3>4
    <2>5. CASE f.type # "derived"
      <3>1. f \in seen \intersect TypedFields(t)
        BY <1>8, <2>1, <2>5 DEF Filled, TypedFields
      <3>2. \A w \in f.when : w.field # "username" /\ \E g \in seen : g.key = w.field /\ g.type # "number"
        BY <1>1, <1>6, <2>1, <3>1 DEF HangsOnUnsent, Sides
      <3>3. IsVisible(f, vals)
        BY DEF Sides
      <3>4. Reached(t, data, role, i)
        BY <1>1, <2>2, <3>2, <3>3, VisibleIsReached
      <3>5. f.key \in keys
        BY <1>2, <1>3, <2>1, <2>2, <2>5, <3>4
      <3>6. f.key \notin DerivedKeys(t)
        BY <1>1, <2>1, <2>5, TemplateKeys DEF DerivedKeys
      <3>7. QED
        BY <1>5, <2>3, <3>5, <3>6
    <2>6. QED
      BY <2>4, <2>5
  <1>9. DOMAIN subject = {f.key : f \in {g \in seen : Filled(g, vals)}}
    BY <1>3, <1>5, <1>7, <1>8
  <1>10. QED
    BY <1>4, <1>8, <1>9 DEF SaysWhatIsSeen

LEMMA IssuedAsShown ==
  ASSUME NEW form, Sendable(form), Fresh(form), ~HangsOnUnsent(form), ~HidesDerived(form, FALSE),
         ~TakesOwnKey(form)
  PROVE  InWords(CredentialSubject(form, Subject(TemplateOf(form), Posted(form), Role[form.did])))
         = Shown(form)
  <1>1. PICK t, role, vals, seen, data : Sides(form, t, role, vals, seen, data)
    BY PostedIs DEF Sendable
  <1>2. t = TemplateOf(form) /\ data = Posted(form) /\ role = Role[form.did]
    BY <1>1 DEF Sides, RoleShown, Fresh, Sendable
  <1>3. PICK cleaned : cleaned = Subject(t, data, role)
    OBVIOUS
  <1>4. PICK keys : keys = {f.key : f \in {g \in seen : Filled(g, vals)}}
    OBVIOUS
  <1>5. /\ DOMAIN cleaned = keys
        /\ \A f \in seen : Filled(f, vals) => cleaned[f.key] = Converted(f, vals[f.key])
    <2>1. ShowsDerived(t, seen)
      BY <1>1 DEF ShowsDerived, HidesDerived, Sides
    <2>2. SaysWhatIsSeen(cleaned, seen, vals)
      BY <1>1, <1>3, <2>1, SubjectIs
    <2>3. QED
      BY <1>4, <2>2 DEF SaysWhatIsSeen
  <1>6. \A k : HeldValue(form, k) = vals[k]
    BY <1>1 DEF HeldValue, Sides
  <1>7. seen = SeenFields(form) /\ seen \subseteq FieldsOf(t) /\ WellFormed(t)
    BY <1>1 DEF Sides
  <1>8. PICK shown : shown = Shown(form)
    OBVIOUS
  <1>9. shown = [k \in keys \union OwnKeys(form) |->
                   IF k \in keys THEN Converted(FieldOf(t, k), vals[k]).word
                   ELSE Own(form, form.who, k)]
    <2>1. {f \in SeenFields(form) : f.type # "file" /\ Converted(f, HeldValue(form, f.key)).word # ""}
          = {g \in seen : Filled(g, vals)}
      BY <1>6, <1>7 DEF Filled
    <2>2. QED
      BY <1>2, <1>4, <1>6, <1>8, <2>1 DEF Shown
  <1>10. keys \intersect OwnKeys(form) = {}
    BY <1>2, <1>4, <1>7, OwnKeysApart DEF OwnKeys
  <1>11. PICK subject : subject = CredentialSubject(form, cleaned)
    OBVIOUS
  <1>12. subject = [k \in keys \union OwnKeys(form) |->
                      IF k \in OwnKeys(form) THEN Text(Own(form, form.did, k)) ELSE cleaned[k]]
    BY <1>5, <1>11 DEF CredentialSubject
  <1>13. ASSUME NEW k \in keys \union OwnKeys(form)
         PROVE  subject[k].word = shown[k]
    <2>1. CASE k \in keys
      <3>1. PICK f \in seen : Filled(f, vals) /\ f.key = k
        BY <1>4, <2>1
      <3>2. cleaned[k] = Converted(f, vals[k]) /\ FieldOf(t, k) = f
        BY <1>5, <1>7, <3>1, FieldIs
      <3>3. QED
        BY <1>9, <1>10, <1>12, <2>1, <3>2
    <2>2. CASE k \notin keys
      <3>1. subject[k] = Text(Own(form, form.did, k)) /\ shown[k] = Own(form, form.who, k)
        BY <1>9, <1>12, <1>13, <2>2
      <3>2. QED
        BY <3>1 DEF Text, Fresh
    <2>3. QED
      BY <2>1, <2>2
  <1>14. InWords(subject) = shown
    BY <1>9, <1>12, <1>13 DEF InWords
  <1>15. QED
    BY <1>2, <1>3, <1>8, <1>11, <1>14

\* What the page marks when a form is submitted.
LEMMA CompleteIs ==
  ASSUME NEW form, FormOK(form), form.type # none, NEW role, Complete(form, role),
         NEW f \in VisibleFields(TemplateOf(form), form.values, role), f.required
  PROVE  /\ f.type = "derived" => MemberRole(role).word # ""
         /\ f \in TypedFields(TemplateOf(form)) => form.values[f.key].word # ""
  <1>1. PICK t : t = TemplateOf(form)
    OBVIOUS
  <1>2. WellFormed(t) /\ Fits(form.values, t)
    BY <1>1, IssueAssumption DEF FormOK, IsForm, TemplateOf
  <1>3. PICK vals : vals = FormValues(t, form.values, role)
    OBVIOUS
  <1>4. Holds(vals, t, form.values, role)
    BY <1>2, <1>3, HeldValues
  <1>5. f \in FieldsOf(t)
    BY <1>1 DEF VisibleFields
  <1>6. f.type \in {"derived", "text", "number"} => vals[f.key].word # ""
    BY <1>1, <1>3 DEF Complete, FormErrors
  <1>7. f.type = "derived" => MemberRole(role).word # ""
    BY <1>4, <1>5, <1>6 DEF Holds
  <1>8. f \in TypedFields(t) => form.values[f.key].word # ""
    BY <1>2, <1>4, <1>5, <1>6 DEF Holds, TypedFields, WellFormed
  <1>9. QED
    BY <1>1, <1>7, <1>8

\* Without a member role the form shows what it shows to nobody.
LEMMA NobodysFields ==
  ASSUME NEW t, NEW values, NEW role, MemberRole(role).word = ""
  PROVE  VisibleFields(t, values, none) = VisibleFields(t, values, role)
  <1>1. MemberRole(none) = MemberRole(role)
    BY DEF MemberRole, Text
  <1>2. QED
    BY <1>1 DEF VisibleFields, FormValues

\* The data pass, what is missing apart.
LEMMA NothingMissing ==
  ASSUME NEW form, NEW t, NEW role, NEW vals, NEW seen, NEW data,
         Sides(form, t, role, vals, seen, data),
         FormOK(form), form.type # none, Complete(form, none) \/ Complete(form, role),
         ~HidesDerived(form, TRUE), ~RevealedByHolder(form), ~RevealedBySending(form),
         ~TakesOwnKey(form), \A f \in seen : f.type = "file" => ~f.required
  PROVE  ApiErrors(t, data, role) = {}
  <1>1. /\ t = TemplateOf(form) /\ role = RoleShown(form) /\ seen = SeenFields(form)
        /\ WellFormed(t) /\ Holds(vals, t, form.values, role) /\ Sends(data, seen, vals)
        /\ seen \subseteq FieldsOf(t)
    BY DEF Sides
  <1>2. seen = VisibleFields(t, form.values, role)
    BY <1>1 DEF SeenFields
  <1>3. ASSUME NEW i \in 1..Len(t), t[i].type = "derived", t[i].required,
               MemberRole(role).word = ""
        PROVE  FALSE
    <2>1. t[i] \in FieldsOf(t)
      BY <1>1, TemplateKeys
    <2>2. t[i] \in VisibleFields(t, form.values, role)
      BY <1>1, <1>2, <1>3, <2>1 DEF HidesDerived
    <2>3. t[i] \in VisibleFields(t, form.values, none) /\ MemberRole(none).word = ""
      BY <1>3, <2>2, NobodysFields DEF MemberRole, Text
    <2>4. QED
      BY <1>1, <1>3, <2>2, <2>3, CompleteIs
  <1>4. ASSUME NEW i \in 1..Len(t), t[i].type # "derived", t[i].required,
               Reached(t, data, role, i), t[i].key \notin DOMAIN data
        PROVE  FALSE
    <2>1. PICK f : f = t[i] /\ f \in FieldsOf(t)
      BY <1>1, TemplateKeys
    <2>2. f \in seen
      <3>1. SUFFICES ASSUME f \notin seen PROVE FALSE
        OBVIOUS
      <3>2. ASSUME NEW w \in f.when, NEW g \in seen \intersect TypedFields(t), g.key = w.field,
                   Converted(g, vals[g.key]) = Text(w.equals)
            PROVE  vals[g.key] = Text(w.equals)
        <4>1. HeldValue(form, g.key) = vals[g.key]
          BY DEF HeldValue, Sides
        <4>2. QED
          BY <1>1, <1>4, <2>1, <3>1, <3>2, <4>1 DEF RevealedBySending
      <3>3. \A w \in f.when : w.field # "username"
        BY <1>1, <2>1, OwnKeysApart
      <3>4. IsVisible(f, vals)
        BY <1>1, <1>4, <2>1, <3>2, <3>3, ReachedIsVisible
      <3>5. QED
        BY <2>1, <3>1, <3>4 DEF Sides
    <2>3. f \in TypedFields(t)
      BY <1>4, <2>1, <2>2 DEF TypedFields
    <2>4. Converted(f, vals[f.key]).word = ""
      BY <1>1, <1>4, <2>1, <2>2, <2>3 DEF Sends, Filled, TypedFields
    <2>5. form.values[f.key].word = ""
      BY <1>1, <2>3, <2>4 DEF Holds, Converted, Number, Text, DefaultUniversity
    <2>6. f \in VisibleFields(t, form.values, none)
      BY <1>1, <1>4, <2>1, <2>2, <2>3, <2>5 DEF RevealedByHolder
    <2>7. QED
      BY <1>1, <1>2, <1>4, <2>1, <2>2, <2>3, <2>5, <2>6, CompleteIs
  <1>5. QED
    BY <1>3, <1>4 DEF ApiErrors

\* What is called role says the role.
LEMMA NoSpoof ==
  ASSUME NEW form, NEW t, NEW role, NEW vals, NEW seen, NEW data,
         Sides(form, t, role, vals, seen, data), ~TypesOtherRole(form)
  PROVE  ~SpoofsRole(Subject(t, data, role), role)
  <1>1. /\ t = TemplateOf(form) /\ role = RoleShown(form) /\ seen = SeenFields(form)
        /\ WellFormed(t) /\ Holds(vals, t, form.values, role) /\ Sends(data, seen, vals)
        /\ seen \subseteq FieldsOf(t)
    BY DEF Sides
  <1>2. PICK some : some = {j \in 1..Len(t) :
            IF t[j].type = "derived" THEN MemberRole(role).word # ""
            ELSE Reached(t, data, role, j) /\ t[j].key \in DOMAIN data}
    OBVIOUS
  <1>3. PICK keys, subject : keys = {t[i].key : i \in some} /\ subject = Subject(t, data, role)
    OBVIOUS
  <1>4. subject = [k \in keys |-> IF k \in DerivedKeys(t) THEN MemberRole(role) ELSE data[k]]
    BY <1>2, <1>3 DEF Subject
  <1>5. ASSUME "role" \in keys
        PROVE  Lower(subject["role"].word) = role
    <2>1. PICK i \in some : t[i].key = "role"
      BY <1>3, <1>5
    <2>2. i \in 1..Len(t) /\ t[i] \in FieldsOf(t)
      BY <1>1, <1>2, TemplateKeys
    <2>3. CASE t[i].type = "derived"
      <3>1. subject["role"] = MemberRole(role) /\ MemberRole(role).word # ""
        BY <1>2, <1>4, <1>5, <2>1, <2>2, <2>3 DEF DerivedKeys
      <3>2. role = "student" \/ role = "teacher"
        BY <3>1 DEF MemberRole, Text
      <3>3. role = "student" => MemberRole(role).word = "Student"
        BY DEF MemberRole, Text
      <3>4. role = "teacher" => MemberRole(role).word = "Teacher"
        BY DEF MemberRole, Text
      <3>5. QED
        BY <3>1, <3>2, <3>3, <3>4 DEF Lower
    <2>4. CASE t[i].type # "derived"
      <3>1. "role" \notin DerivedKeys(t)
        BY <1>1, <2>1, <2>2, <2>4, TemplateKeys DEF DerivedKeys
      <3>2. subject["role"] = data["role"] /\ "role" \in DOMAIN data \ {"username"}
        BY <1>2, <1>4, <1>5, <2>1, <2>4, <3>1
      <3>3. PICK f \in seen : Filled(f, vals) /\ f.key = "role" /\ data["role"] = Converted(f, vals["role"])
        BY <1>1, <3>2 DEF Sends
      <3>4. f \in TypedFields(t)
        BY <1>1, <3>1, <3>3 DEF Filled, TypedFields, DerivedKeys
      <3>5. data["role"].word = form.values["role"].word /\ form.values["role"].word # ""
        <4>1. PICK v : v = vals["role"] /\ v = form.values["role"]
          BY <1>1, <3>3, <3>4 DEF Holds
        <4>2. Converted(f, v).word # "" /\ data["role"] = Converted(f, v)
          BY <3>3, <4>1 DEF Filled
        <4>3. Converted(f, v).word = v.word
          BY <3>3 DEF Converted, Number, Text
        <4>4. QED
          BY <4>1, <4>2, <4>3
      <3>6. QED
        BY <1>1, <3>2, <3>3, <3>4, <3>5 DEF TypesOtherRole
    <2>5. QED
      BY <2>3, <2>4
  <1>6. QED
    BY <1>3, <1>4, <1>5 DEF SpoofsRole

LEMMA RefusedWithReason ==
  ASSUME NEW form, Sendable(form), Fresh(form), ~HidesDerived(form, TRUE),
         ~RevealedByHolder(form), ~RevealedBySending(form), ~TypesOtherRole(form),
         ~TakesOwnKey(form), \A f \in SeenFields(form) : f.type = "file" => ~f.required
  PROVE  /\ ApiErrors(TemplateOf(form), Posted(form), Role[form.did]) = {}
         /\ ~SpoofsRole(Subject(TemplateOf(form), Posted(form), Role[form.did]), Role[form.did])
  <1>1. FormOK(form) /\ form.type # none
    BY DEF Sendable
  <1>2. PICK t, role, vals, seen, data : Sides(form, t, role, vals, seen, data)
    BY <1>1, PostedIs
  <1>3. t = TemplateOf(form) /\ data = Posted(form) /\ role = Role[form.did]
        /\ seen = SeenFields(form) /\ role = RoleShown(form)
    BY <1>2 DEF Sides, RoleShown, Fresh, Sendable
  <1>4. Complete(form, none) \/ Complete(form, role)
    BY <1>3 DEF Sendable
  <1>5. QED
    BY <1>1, <1>2, <1>3, <1>4, NothingMissing, NoSpoof

\* The entry that the API writes.
LEMMA EntryIsTrue ==
  ASSUME NEW form, Sendable(form), NEW e, NEW outcome, NEW subject,
         e = [form |-> form, outcome |-> outcome, subject |-> subject],
         outcome = "refused" =>
           \/ ApiErrors(TemplateOf(form), Posted(form), Role[form.did]) # {}
           \/ SpoofsRole(Subject(TemplateOf(form), Posted(form), Role[form.did]), Role[form.did]),
         outcome = "issued" =>
           subject = CredentialSubject(form, Subject(TemplateOf(form), Posted(form), Role[form.did]))
  PROVE  ShownAsIssued(e) /\ RefusedForAReason(e)
  <1>1. e.form = form /\ e.outcome = outcome /\ e.subject = subject
    OBVIOUS
  <1>2. ShownAsIssued(e)
    BY <1>1, IssuedAsShown DEF ShownAsIssued
  <1>3. RefusedForAReason(e)
    BY <1>1, RefusedWithReason DEF RefusedForAReason
  <1>4. QED
    BY <1>2, <1>3

-----------------------------------------------------------------------------
(* The issue page: its inductive invariant *)

IsIssuePage(p) ==
  /\ p = [view |-> p.view, types |-> p.types, form |-> p.form, lookup |-> p.lookup,
          loading |-> p.loading]
  /\ p.lookup \in BOOLEAN /\ p.loading \in BOOLEAN

DeskOK ==
  /\ desk \in Seq(Range(desk))
  /\ \A i \in 1..Len(desk) : ShownAsIssued(desk[i]) /\ RefusedForAReason(desk[i])

\* Of the issue page, and of those it has left behind.
IssueSendsOK == \A c \in calls : c.kind = "issue" => Sendable(c.arg)

LookupsOK ==
  /\ \A c \in Live("holder") : c.arg.key \in Dids
  /\ \A c \in Live("submit") : Sendable(c.arg) /\ Complete(c.arg, none)

IssueAwaited ==
  /\ page.types = "loading" => Live("types") # {}
  /\ page.lookup => Live("holder") # {}
  /\ page.loading => Live("issue") # {}

IssuePageOK ==
  IsIssuePage(page) /\ FormOK(page.form) /\ LookupsOK /\ IssueAwaited

IssueInv == DeskOK /\ IssueSendsOK /\ (at = "issue" => IssuePageOK)

\* Forms as they are edited.
LEMMA FormIs ==
  ASSUME NEW type \in DOMAIN Templates \union {none}
  PROVE  /\ FormOK(Form(type))
         /\ \A d, w \in Dids \union {none} :
              FormOK([Form(type) EXCEPT !.did = d, !.who = w])
  <1>1. PICK f : f = Form(type)
    OBVIOUS
  <1>2. type # none => Fits(f.values, Templates[type])
    <2>1. SUFFICES ASSUME type # none PROVE Fits(f.values, Templates[type])
      OBVIOUS
    <2>2. f.values = DefaultValues(Templates[type])
      BY <1>1, <2>1 DEF Form
    <2>3. WellFormed(Templates[type])
      BY <2>1, IssueAssumption
    <2>4. QED
      BY <2>2, <2>3, DefaultsFit
  <1>3. /\ f = [did |-> f.did, who |-> f.who, type |-> f.type, values |-> f.values,
                files |-> f.files, attachment |-> f.attachment]
        /\ f.did = none /\ f.who = none /\ f.type = type
    BY <1>1 DEF Form
  <1>4. FormOK(f)
    BY <1>2, <1>3 DEF FormOK, IsForm
  <1>5. ASSUME NEW d \in Dids \union {none}, NEW w \in Dids \union {none}
        PROVE  FormOK([f EXCEPT !.did = d, !.who = w])
    <2>1. PICK g : g = [f EXCEPT !.did = d, !.who = w]
      OBVIOUS
    <2>2. /\ g = [did |-> g.did, who |-> g.who, type |-> g.type, values |-> g.values,
                  files |-> g.files, attachment |-> g.attachment]
          /\ g.did = d /\ g.who = w /\ g.type = type /\ g.values = f.values
      BY <1>3, <2>1
    <2>3. QED
      BY <1>2, <2>1, <2>2 DEF FormOK, IsForm
  <1>6. QED
    BY <1>1, <1>4, <1>5

\* What a change that leaves the type and the values alone makes of a form.
SameFields(g, f) ==
  /\ g.type = f.type /\ g.values = f.values /\ g.files = f.files
  /\ g.attachment = f.attachment

LEMMA FormTo ==
  ASSUME NEW f, FormOK(f), NEW d \in Dids \union {none}, NEW w \in Dids \union {none}
  PROVE  /\ FormOK([f EXCEPT !.did = d, !.who = w])
         /\ FormOK([f EXCEPT !.who = w])
         /\ \A a : FormOK([f EXCEPT !.attachment = a])
         /\ \A k, a : FormOK([f EXCEPT !.files[k] = a])
         /\ SameFields([f EXCEPT !.who = w], f)
         /\ [f EXCEPT !.who = w].who = w /\ [f EXCEPT !.who = w].did = f.did
  <1>1. f = [did |-> f.did, who |-> f.who, type |-> f.type, values |-> f.values,
             files |-> f.files, attachment |-> f.attachment]
    BY DEF FormOK, IsForm
  <1>2. ASSUME NEW g, g = [did |-> g.did, who |-> g.who, type |-> g.type, values |-> g.values,
                           files |-> g.files, attachment |-> g.attachment],
               g.did \in Dids \union {none}, g.who \in Dids \union {none},
               g.type = f.type, g.values = f.values
        PROVE  FormOK(g)
    BY <1>2 DEF FormOK, IsForm
  <1>3. FormOK([f EXCEPT !.did = d, !.who = w])
    <2>1. PICK g : g = [f EXCEPT !.did = d, !.who = w]
      OBVIOUS
    <2>2. /\ g = [did |-> g.did, who |-> g.who, type |-> g.type, values |-> g.values,
                  files |-> g.files, attachment |-> g.attachment]
          /\ g.did = d /\ g.who = w /\ g.type = f.type /\ g.values = f.values
      BY <1>1, <2>1
    <2>3. QED
      BY <1>2, <2>1, <2>2
  <1>4. /\ FormOK([f EXCEPT !.who = w]) /\ SameFields([f EXCEPT !.who = w], f)
        /\ [f EXCEPT !.who = w].who = w /\ [f EXCEPT !.who = w].did = f.did
    <2>1. PICK g : g = [f EXCEPT !.who = w]
      OBVIOUS
    <2>2. /\ g = [did |-> g.did, who |-> g.who, type |-> g.type, values |-> g.values,
                  files |-> g.files, attachment |-> g.attachment]
          /\ g.did = f.did /\ g.who = w /\ g.type = f.type /\ g.values = f.values
          /\ g.files = f.files /\ g.attachment = f.attachment
      BY <1>1, <2>1
    <2>3. g.did \in Dids \union {none}
      BY <2>2 DEF FormOK, IsForm
    <2>4. QED
      BY <1>2, <2>1, <2>2, <2>3 DEF SameFields
  <1>5. ASSUME NEW a
        PROVE  FormOK([f EXCEPT !.attachment = a])
    <2>1. PICK g : g = [f EXCEPT !.attachment = a]
      OBVIOUS
    <2>2. /\ g = [did |-> g.did, who |-> g.who, type |-> g.type, values |-> g.values,
                  files |-> g.files, attachment |-> g.attachment]
          /\ g.did = f.did /\ g.who = f.who /\ g.type = f.type /\ g.values = f.values
      BY <1>1, <2>1
    <2>3. g.did \in Dids \union {none} /\ g.who \in Dids \union {none}
      BY <2>2 DEF FormOK, IsForm
    <2>4. QED
      BY <1>2, <2>1, <2>2, <2>3
  <1>6. ASSUME NEW k, NEW a
        PROVE  FormOK([f EXCEPT !.files[k] = a])
    <2>1. PICK g : g = [f EXCEPT !.files[k] = a]
      OBVIOUS
    <2>2. /\ g = [did |-> g.did, who |-> g.who, type |-> g.type, values |-> g.values,
                  files |-> g.files, attachment |-> g.attachment]
          /\ g.did = f.did /\ g.who = f.who /\ g.type = f.type /\ g.values = f.values
      BY <1>1, <2>1
    <2>3. g.did \in Dids \union {none} /\ g.who \in Dids \union {none}
      BY <2>2 DEF FormOK, IsForm
    <2>4. QED
      BY <1>2, <2>1, <2>2, <2>3
  <1>7. QED
    BY <1>3, <1>4, <1>5, <1>6

LEMMA FormEdited ==
  ASSUME NEW f, FormOK(f), f.type # none, NEW g \in TypedFields(TemplateOf(f)), NEW v \in g.options
  PROVE  FormOK([f EXCEPT !.values[g.key] = v])
  <1>1. f = [did |-> f.did, who |-> f.who, type |-> f.type, values |-> f.values,
             files |-> f.files, attachment |-> f.attachment]
    BY DEF FormOK, IsForm
  <1>2. PICK h : h = [f EXCEPT !.values[g.key] = v]
    OBVIOUS
  <1>3. PICK w : w = [f.values EXCEPT ![g.key] = v]
    OBVIOUS
  <1>4. h = [did |-> f.did, who |-> f.who, type |-> f.type, values |-> w,
             files |-> f.files, attachment |-> f.attachment]
    BY <1>1, <1>2, <1>3
  <1>5. Fits(f.values, TemplateOf(f)) /\ WellFormed(TemplateOf(f))
    BY IssueAssumption DEF FormOK, IsForm, TemplateOf
  <1>6. Fits(w, TemplateOf(f))
    BY <1>3, <1>5, EditFits
  <1>7. /\ h.did = f.did /\ h.who = f.who /\ h.type = f.type /\ h.values = w
        /\ h.files = f.files /\ h.attachment = f.attachment
    BY <1>4
  <1>8. FormOK(h)
    BY <1>4, <1>6, <1>7 DEF FormOK, IsForm, TemplateOf
  <1>9. QED
    BY <1>2, <1>8

\* Whether a form is complete does not depend on whose it is.
LEMMA CompleteFor ==
  ASSUME NEW f, NEW g, SameFields(g, f), NEW role, Complete(f, role)
  PROVE  Complete(g, role)
  BY DEF SameFields, Complete, FormErrors, TemplateOf

\* What the page lets through, with its file.
LEMMA LetThrough ==
  ASSUME NEW f, FormOK(f), Mistakes(f) = {}
  PROVE  /\ Sendable(WithFile(f)) /\ Complete(WithFile(f), RoleShown(f))
         /\ WithFile(f).who = f.who
  <1>1. f.type # none /\ f.did # none /\ Complete(f, RoleShown(f))
    BY DEF Mistakes, Complete
  <1>2. PICK a : a = Attachment(TemplateOf(f), f, RoleShown(f))
    OBVIOUS
  <1>3. PICK g : g = WithFile(f)
    OBVIOUS
  <1>4. g = [f EXCEPT !.attachment = a]
    BY <1>2, <1>3 DEF WithFile
  <1>5. /\ f = [did |-> f.did, who |-> f.who, type |-> f.type, values |-> f.values,
                files |-> f.files, attachment |-> f.attachment]
        /\ FormOK(g)
    BY <1>4, FormTo DEF FormOK, IsForm
  <1>6. /\ g.did = f.did /\ g.who = f.who /\ g.type = f.type /\ g.values = f.values
        /\ g.files = f.files
    BY <1>4, <1>5
  <1>7. g.attachment = "none" => f.attachment = "none"
    BY <1>2, <1>4, <1>5 DEF Attachment
  <1>8. Complete(g, RoleShown(f))
    <2>1. FormErrors(TemplateOf(g), g, RoleShown(f)) \subseteq FormErrors(TemplateOf(f), f, RoleShown(f))
      BY <1>6, <1>7 DEF FormErrors, TemplateOf
    <2>2. QED
      BY <1>1, <2>1 DEF Complete
  <1>9. RoleShown(g) = RoleShown(f)
    BY <1>6 DEF RoleShown
  <1>10. QED
    BY <1>1, <1>3, <1>5, <1>6, <1>8, <1>9 DEF Sendable

\* The page changes, and nothing is sent or answered.
LEMMA IssueStays ==
  ASSUME IssueInv, at = "issue", at' = at, calls' = calls, desk' = desk,
         IsIssuePage(page'), FormOK(page'.form),
         page'.types = page.types, page'.lookup <=> page.lookup, page'.loading <=> page.loading
  PROVE  IssueInv'
  <1>1. \A k : Live(k)' = Live(k)
    BY DEF Live
  <1>2. IssueAwaited'
    BY <1>1 DEF IssueInv, IssuePageOK, IssueAwaited
  <1>3. LookupsOK'
    BY <1>1 DEF IssueInv, IssuePageOK, LookupsOK
  <1>4. DeskOK' /\ IssueSendsOK'
    BY DEF IssueInv, DeskOK, IssueSendsOK
  <1>5. QED
    BY <1>2, <1>3, <1>4 DEF IssueInv, IssuePageOK

LEMMA IssueEdited ==
  ASSUME IssueInv, at = "issue", at' = at, NEW form, FormOK(form), Edited(form)
  PROVE  IssueInv'
  <1>1. IsIssuePage(page)
    BY DEF IssueInv, IssuePageOK
  <1>2. /\ IsIssuePage(page') /\ page'.form = form /\ page'.types = page.types
        /\ page'.lookup = page.lookup /\ page'.loading = page.loading
    BY <1>1 DEF Edited, IsIssuePage
  <1>3. QED
    BY <1>2, IssueStays DEF Edited

LEMMA IssueBlurred ==
  ASSUME IssueInv, at = "issue", at' = at, BlurDid
  PROVE  IssueInv'
  <1>1. IsIssuePage(page) /\ FormOK(page.form)
    BY DEF IssueInv, IssuePageOK
  <1>2. CASE page.form.did = none
    <2>1. FormOK([page.form EXCEPT !.who = none])
      BY <1>1, FormTo
    <2>2. page' = [page EXCEPT !.form = [page.form EXCEPT !.who = none]]
      BY <1>1, <1>2 DEF BlurDid, IsIssuePage
    <2>3. QED
      BY <1>2, <2>1, <2>2, IssueEdited DEF BlurDid, Edited
  <1>3. CASE page.form.did # none
    <2>1. PICK arg : arg = [key |-> page.form.did]
      OBVIOUS
    <2>2. PICK d : d = NewCall(calls, "holder", arg)
      OBVIOUS
    <2>3. calls' = Sent(calls, "holder", arg) /\ desk' = desk
      BY <1>3, <2>1 DEF BlurDid
    <2>4. Live("holder")' = Live("holder") \union {d}
      BY <2>2, <2>3, LiveSent
    <2>5. \A k : k # "holder" => Live(k)' = Live(k)
      BY <2>3, LiveOther
    <2>6. calls' = calls \union {d} /\ d.kind = "holder" /\ d.arg = arg
      BY <2>2, <2>3, SentCalls DEF NewCall
    <2>7. arg.key \in Dids
      BY <1>1, <1>3, <2>1 DEF FormOK, IsForm
    <2>8. /\ IsIssuePage(page') /\ page'.form = page.form /\ page'.types = page.types
          /\ page'.lookup /\ page'.loading = page.loading
      BY <1>1, <1>3 DEF BlurDid, IsIssuePage
    <2>9. LookupsOK'
      BY <2>4, <2>5, <2>6, <2>7 DEF IssueInv, IssuePageOK, LookupsOK
    <2>10. IssueAwaited'
      BY <2>4, <2>5, <2>8 DEF IssueInv, IssuePageOK, IssueAwaited
    <2>11. DeskOK' /\ IssueSendsOK'
      BY <2>3, <2>6 DEF IssueInv, DeskOK, IssueSendsOK
    <2>12. QED
      BY <1>1, <2>8, <2>9, <2>10, <2>11 DEF IssueInv, IssuePageOK
  <1>4. QED
    BY <1>2, <1>3

LEMMA IssueSubmitted ==
  ASSUME IssueInv, at = "issue", at' = at, Submit
  PROVE  IssueInv'
  <1>1. IsIssuePage(page) /\ FormOK(page.form)
    BY DEF IssueInv, IssuePageOK
  <1>2. PICK form : /\ form = WithFile(page.form) /\ Sendable(form)
                    /\ Complete(form, RoleShown(page.form))
    BY <1>1, LetThrough DEF Submit
  <1>3. CASE page.form.who = none
    <2>1. calls' = Sent(calls, "submit", form) /\ page' = page /\ desk' = desk
      BY <1>2, <1>3 DEF Submit
    <2>2. PICK d : d = NewCall(calls, "submit", form)
      OBVIOUS
    <2>3. Live("submit")' = Live("submit") \union {d}
      BY <2>1, <2>2, LiveSent
    <2>4. \A k : k # "submit" => Live(k)' = Live(k)
      BY <2>1, LiveOther
    <2>5. calls' = calls \union {d} /\ d.kind = "submit" /\ d.arg = form
      BY <2>1, <2>2, SentCalls DEF NewCall
    <2>6. Complete(form, none)
      BY <1>2, <1>3 DEF RoleShown
    <2>7. LookupsOK'
      BY <1>2, <2>3, <2>4, <2>5, <2>6 DEF IssueInv, IssuePageOK, LookupsOK
    <2>8. IssueAwaited'
      BY <2>1, <2>4 DEF IssueInv, IssuePageOK, IssueAwaited
    <2>9. DeskOK' /\ IssueSendsOK'
      BY <2>1, <2>5 DEF IssueInv, DeskOK, IssueSendsOK
    <2>10. QED
      BY <1>1, <2>1, <2>7, <2>8, <2>9 DEF IssueInv, IssuePageOK
  <1>4. CASE page.form.who # none
    <2>1. calls' = Sent(calls, "issue", form) /\ desk' = desk
      BY <1>2, <1>4 DEF Submit
    <2>2. PICK d : d = NewCall(calls, "issue", form)
      OBVIOUS
    <2>3. Live("issue")' = Live("issue") \union {d}
      BY <2>1, <2>2, LiveSent
    <2>4. \A k : k # "issue" => Live(k)' = Live(k)
      BY <2>1, LiveOther
    <2>5. calls' = calls \union {d} /\ d.arg = form
      BY <2>1, <2>2, SentCalls DEF NewCall
    <2>6. /\ IsIssuePage(page') /\ page'.form = page.form /\ page'.types = page.types
          /\ page'.lookup = page.lookup
      BY <1>1, <1>4 DEF Submit, IsIssuePage
    <2>7. LookupsOK'
      BY <2>4 DEF IssueInv, IssuePageOK, LookupsOK
    <2>8. IssueAwaited'
      BY <2>3, <2>4, <2>6 DEF IssueInv, IssuePageOK, IssueAwaited
    <2>9. DeskOK' /\ IssueSendsOK'
      BY <1>2, <2>1, <2>5 DEF IssueInv, DeskOK, IssueSendsOK
    <2>10. QED
      BY <1>1, <2>6, <2>7, <2>8, <2>9 DEF IssueInv, IssuePageOK
  <1>5. QED
    BY <1>3, <1>4

LEMMA IssueInputs ==
  ASSUME IssueInv, at = "issue", at' = at, IssueInput
  PROVE  IssueInv'
  <1>1. IsIssuePage(page) /\ FormOK(page.form)
    BY DEF IssueInv, IssuePageOK
  <1>2. ASSUME NEW d \in Dids \union {none}, EditDid(d)
        PROVE  IssueInv'
    <2>1. PICK w : w = IF d = none THEN none ELSE page.form.who
      OBVIOUS
    <2>2. w \in Dids \union {none}
      BY <1>1, <2>1 DEF FormOK, IsForm
    <2>3. FormOK([page.form EXCEPT !.did = d, !.who = w])
      BY <1>1, <2>2, FormTo
    <2>4. Edited([page.form EXCEPT !.did = d, !.who = w])
      BY <1>2, <2>1 DEF EditDid
    <2>5. QED
      BY <2>3, <2>4, IssueEdited
  <1>3. ASSUME page.form.type # none, NEW f \in TypedFields(TemplateOf(page.form)),
               NEW v \in f.options, EditField(f.key, v)
        PROVE  IssueInv'
    <2>1. FormOK([page.form EXCEPT !.values[f.key] = v])
      BY <1>1, <1>3, FormEdited
    <2>2. QED
      BY <1>3, <2>1, IssueEdited DEF EditField
  <1>4. ASSUME NEW type \in DOMAIN Templates, ChooseType(type)
        PROVE  IssueInv'
    <2>1. page.form.did \in Dids \union {none} /\ page.form.who \in Dids \union {none}
      BY <1>1 DEF FormOK, IsForm
    <2>2. FormOK([Form(type) EXCEPT !.did = page.form.did, !.who = page.form.who])
      BY <2>1, FormIs
    <2>3. QED
      BY <1>4, <2>2, IssueEdited DEF ChooseType
  <1>5. ASSUME NEW f, ChooseAttachment(f)
        PROVE  IssueInv'
    <2>1. FormOK([page.form EXCEPT !.attachment = f])
      BY <1>1, FormTo
    <2>2. QED
      BY <1>5, <2>1, IssueEdited DEF ChooseAttachment
  <1>6. ASSUME NEW k, NEW f, ChooseFile(k, f)
        PROVE  IssueInv'
    <2>1. FormOK([page.form EXCEPT !.files[k] = f])
      BY <1>1, FormTo
    <2>2. QED
      BY <1>6, <2>1, IssueEdited DEF ChooseFile
  <1>7. CASE IssueAnother
    <2>1. PICK type \in DOMAIN Templates \union {none} :
            page' = [page EXCEPT !.view = "form", !.form = Form(type)]
      BY <1>7, IssueAssumption DEF IssueAnother
    <2>2. FormOK(Form(type))
      BY FormIs
    <2>3. /\ IsIssuePage(page') /\ page'.form = Form(type) /\ page'.types = page.types
          /\ page'.lookup = page.lookup /\ page'.loading = page.loading
      BY <1>1, <2>1 DEF IsIssuePage
    <2>4. QED
      BY <1>7, <2>2, <2>3, IssueStays DEF IssueAnother
  <1>8. QED
    BY <1>2, <1>3, <1>4, <1>5, <1>6, <1>7, IssueBlurred, IssueSubmitted DEF IssueInput

\* An answer is handled, and nothing is sent.
LEMMA IssueDropped ==
  ASSUME IssueInv, at = "issue", at' = at, NEW c \in calls, NEW kind, c.kind = kind,
         calls' = calls \ {c}, desk' = desk, IsIssuePage(page'), FormOK(page'.form),
         (page'.types = page.types /\ kind # "types") \/ page'.types # "loading",
         ((page'.lookup <=> page.lookup) /\ kind # "holder") \/ ~page'.lookup,
         ((page'.loading <=> page.loading) /\ kind # "issue") \/ ~page'.loading
  PROVE  IssueInv'
  <1>1. \A k : Live(k)' = Live(k) \ {c}
    BY LiveDropped
  <1>2. \A k : k # kind => Live(k)' = Live(k)
    BY <1>1 DEF Live
  <1>3. LookupsOK'
    BY <1>1 DEF IssueInv, IssuePageOK, LookupsOK
  <1>4. IssueAwaited'
    BY <1>2 DEF IssueInv, IssuePageOK, IssueAwaited
  <1>5. DeskOK' /\ IssueSendsOK'
    BY DEF IssueInv, DeskOK, IssueSendsOK
  <1>6. QED
    BY <1>3, <1>4, <1>5 DEF IssueInv, IssuePageOK

LEMMA TypesAnswered ==
  ASSUME IssueInv, at = "issue", at' = at, NEW c, NEW answer, answer # "loading",
         TypesAnswer(c, answer)
  PROVE  IssueInv'
  <1>1. IsIssuePage(page) /\ FormOK(page.form)
    BY DEF IssueInv, IssuePageOK
  <1>2. PICK f : f = IF answer = "failed" \/ page.form.type # none THEN page.form
                ELSE IF answer = "empty" THEN Form(none)
                ELSE [Form(FirstType) EXCEPT !.did = page.form.did, !.who = page.form.who]
    OBVIOUS
  <1>3. page' = [page EXCEPT !.types = answer, !.form = f]
    BY <1>2 DEF TypesAnswer
  <1>4. FormOK(f)
    <2>1. page.form.did \in Dids \union {none} /\ page.form.who \in Dids \union {none}
      BY <1>1 DEF FormOK, IsForm
    <2>2. FormOK([Form(FirstType) EXCEPT !.did = page.form.did, !.who = page.form.who])
      BY <2>1, FormIs, IssueAssumption
    <2>3. FormOK(Form(none))
      BY FormIs
    <2>4. QED
      BY <1>1, <1>2, <2>2, <2>3
  <1>5. /\ IsIssuePage(page') /\ page'.form = f /\ page'.types = answer
        /\ page'.lookup = page.lookup /\ page'.loading = page.loading
    BY <1>1, <1>3 DEF IsIssuePage
  <1>6. c \in calls /\ c.kind = "types" /\ calls' = calls \ {c} /\ desk' = desk
    BY DEF TypesAnswer, Live
  <1>7. QED
    BY <1>4, <1>5, <1>6, IssueDropped

LEMMA HolderAnswered ==
  ASSUME IssueInv, at = "issue", at' = at, NEW c, NEW outcome, HolderAnswer(c, outcome)
  PROVE  IssueInv'
  <1>1. IsIssuePage(page) /\ FormOK(page.form)
    BY DEF IssueInv, IssuePageOK
  <1>2. c \in calls /\ c.kind = "holder" /\ calls' = calls \ {c} /\ desk' = desk
    BY DEF HolderAnswer, Live
  <1>3. PICK w : w = IF outcome = "ok" THEN c.arg.key ELSE none
    OBVIOUS
  <1>4. c.arg.key \in Dids
    BY DEF HolderAnswer, IssueInv, IssuePageOK, LookupsOK
  <1>5. FormOK([page.form EXCEPT !.who = w])
    BY <1>1, <1>3, <1>4, FormTo
  <1>6. page' = [page EXCEPT !.lookup = FALSE, !.form = [page.form EXCEPT !.who = w]]
    BY <1>1, <1>3 DEF HolderAnswer, IsIssuePage
  <1>7. /\ IsIssuePage(page') /\ page'.form = [page.form EXCEPT !.who = w]
        /\ page'.types = page.types /\ ~page'.lookup /\ page'.loading = page.loading
    BY <1>1, <1>6 DEF IsIssuePage
  <1>8. QED
    BY <1>2, <1>5, <1>7, IssueDropped

LEMMA IssueAnswered ==
  ASSUME IssueInv, at = "issue", at' = at, NEW c, NEW outcome, IssueAnswer(c, outcome)
  PROVE  IssueInv'
  <1>1. IsIssuePage(page) /\ FormOK(page.form)
    BY DEF IssueInv, IssuePageOK
  <1>2. c \in calls /\ c.kind = "issue" /\ calls' = calls \ {c} /\ desk' = desk
    BY DEF IssueAnswer, Live
  <1>3. /\ IsIssuePage(page') /\ page'.form = page.form
        /\ page'.types = page.types /\ page'.lookup = page.lookup /\ ~page'.loading
    BY <1>1 DEF IssueAnswer, IsIssuePage
  <1>4. QED
    BY <1>1, <1>2, <1>3, IssueDropped

LEMMA SubmitAnswered ==
  ASSUME IssueInv, at = "issue", at' = at, NEW c, NEW outcome, SubmitAnswer(c, outcome)
  PROVE  IssueInv'
  <1>1. IsIssuePage(page) /\ FormOK(page.form)
    BY DEF IssueInv, IssuePageOK
  <1>2. c \in Live("submit") /\ c \in calls /\ c.kind = "submit" /\ desk' = desk
    BY DEF SubmitAnswer, Live
  <1>3. Sendable(c.arg) /\ Complete(c.arg, none)
    BY <1>2 DEF IssueInv, IssuePageOK, LookupsOK
  <1>4. CASE outcome = "ok"
    <2>1. c.arg.did \in Dids /\ FormOK(c.arg)
      BY <1>3 DEF Sendable, FormOK, IsForm
    <2>2. PICK form : form = [c.arg EXCEPT !.who = c.arg.did]
      OBVIOUS
    <2>3. FormOK(form) /\ SameFields(form, c.arg) /\ form.did = c.arg.did
      BY <2>1, <2>2, FormTo
    <2>4. Complete(form, none)
      BY <1>3, <2>3, CompleteFor
    <2>5. Sendable(form)
      BY <1>3, <2>3, <2>4 DEF Sendable, SameFields
    <2>6. PICK d : d = NewCall(calls \ {c}, "issue", form)
      OBVIOUS
    <2>7. calls' = Sent(calls \ {c}, "issue", form)
      BY <1>4, <2>2 DEF SubmitAnswer
    <2>8. calls' = (calls \ {c}) \union {d} /\ d.arg = form
      BY <2>6, <2>7, SentCalls DEF NewCall
    <2>9. Live("issue")' = (Live("issue") \ {c}) \union {d}
      BY <2>6, <2>7, LiveNext
    <2>10. \A k : k # "issue" => Live(k)' = Live(k) \ {c}
      BY <2>7, LiveNextOther
    <2>11. FormOK([page.form EXCEPT !.who = c.arg.did])
      BY <1>1, <2>1, FormTo
    <2>12. page' = [page EXCEPT !.loading = TRUE, !.form = [page.form EXCEPT !.who = c.arg.did]]
      BY <1>1, <1>4 DEF SubmitAnswer, IsIssuePage
    <2>13. /\ IsIssuePage(page') /\ page'.form = [page.form EXCEPT !.who = c.arg.did]
           /\ page'.types = page.types /\ page'.lookup = page.lookup
      BY <1>1, <2>12 DEF IsIssuePage
    <2>14. LookupsOK'
      BY <2>10 DEF IssueInv, IssuePageOK, LookupsOK
    <2>15. IssueAwaited'
      <3>1. Live("types")' = Live("types") /\ Live("holder")' = Live("holder")
        BY <1>2, <2>10 DEF Live
      <3>2. Live("issue")' # {}
        BY <2>9
      <3>3. QED
        BY <2>13, <3>1, <3>2 DEF IssueInv, IssuePageOK, IssueAwaited
    <2>16. DeskOK' /\ IssueSendsOK'
      BY <1>2, <2>5, <2>8 DEF IssueInv, DeskOK, IssueSendsOK
    <2>17. QED
      BY <2>11, <2>13, <2>14, <2>15, <2>16 DEF IssueInv, IssuePageOK
  <1>5. CASE outcome # "ok"
    <2>1. page' = page /\ calls' = calls \ {c}
      BY <1>5 DEF SubmitAnswer
    <2>2. QED
      BY <1>1, <1>2, <2>1, IssueDropped
  <1>6. QED
    BY <1>4, <1>5

\* An entry more.
LEMMA DeskGrows ==
  ASSUME DeskOK, NEW e, ShownAsIssued(e), RefusedForAReason(e), desk' = Append(desk, e)
  PROVE  DeskOK'
  <1>1. PICK S : desk \in Seq(S) /\ S = Range(desk) \union {e}
    <2>1. desk \in Seq(Range(desk))
      BY DEF DeskOK
    <2>2. desk \in Seq(Range(desk) \union {e})
      BY <2>1
    <2>3. QED
      BY <2>2
  <1>2. PICK d : d = Append(desk, e)
    OBVIOUS
  <1>3. /\ d \in Seq(S) /\ Len(d) = Len(desk) + 1 /\ Len(desk) \in Nat
        /\ d[Len(d)] = e
        /\ \A i \in 1..Len(desk) : d[i] = desk[i]
    BY <1>1, <1>2
  <1>4. \A i \in 1..Len(d) : ShownAsIssued(d[i]) /\ RefusedForAReason(d[i])
    <2>1. SUFFICES ASSUME NEW i \in 1..Len(d)
                   PROVE  ShownAsIssued(d[i]) /\ RefusedForAReason(d[i])
      OBVIOUS
    <2>2. i \in 1..Len(desk) \/ i = Len(d)
      BY <1>3
    <2>3. QED
      BY <1>3, <2>2 DEF DeskOK
  <1>5. d \in Seq(Range(d))
    <2>1. d \in [1..Len(d) -> S] /\ Len(d) \in Nat
      BY <1>3
    <2>2. d \in [1..Len(d) -> Range(d)]
      BY <2>1 DEF Range
    <2>3. QED
      BY <2>1, <2>2
  <1>6. QED
    BY <1>2, <1>4, <1>5 DEF DeskOK

\* What the API issues or refuses is as the form that was sent asks for.
LEMMA DeskServed ==
  ASSUME DeskOK, IssueSendsOK, NEW c, IssueServe(c)
  PROVE  DeskOK'
  <1>1. c \in calls /\ c.kind = "issue" /\ Sendable(c.arg)
    BY DEF IssueServe, IssueSendsOK
  <1>2. PICK form, role, cleaned, outcome, subject :
          /\ form = c.arg /\ role = Role[form.did]
          /\ cleaned = Subject(TemplateOf(form), Posted(form), role)
          /\ outcome = (IF role = none THEN "missing"
                        ELSE IF \/ ApiErrors(TemplateOf(form), Posted(form), role) # {}
                                \/ SpoofsRole(cleaned, role) THEN "refused" ELSE "issued")
          /\ subject = (IF outcome = "issued" THEN CredentialSubject(form, cleaned) ELSE <<>>)
    OBVIOUS
  <1>3. PICK e : e = [form |-> form, outcome |-> outcome, subject |-> subject]
    OBVIOUS
  <1>4. desk' = Append(desk, e)
    BY <1>2, <1>3, Zenon DEF IssueServe
  <1>5. outcome = "refused" =>
          \/ ApiErrors(TemplateOf(form), Posted(form), role) # {} \/ SpoofsRole(cleaned, role)
    BY <1>2
  <1>6. outcome = "issued" => subject = CredentialSubject(form, cleaned)
    BY <1>2
  <1>7. ShownAsIssued(e) /\ RefusedForAReason(e)
    BY <1>1, <1>2, <1>3, <1>5, <1>6, EntryIsTrue
  <1>8. QED
    BY <1>4, <1>7, DeskGrows

LEMMA IssueServed ==
  ASSUME CallsOK, IssueInv, Serve
  PROVE  IssueInv'
  <1>1. at' = at /\ page' = page
    BY Serving
  <1>2. PICK c \in calls : Executed(c)
    BY Serving
  <1>3. IssueSendsOK'
    BY <1>2 DEF Executed, IssueInv, IssueSendsOK
  <1>4. DeskOK'
    <2>1. CASE desk' = desk
      BY <2>1 DEF IssueInv, DeskOK
    <2>2. CASE \E b : IssueServe(b)
      BY <2>2, DeskServed DEF IssueInv
    <2>3. QED
      BY <2>1, <2>2 DEF Serve
  <1>5. \A k : Live(k) # {} => Live(k)' # {}
    BY <1>2 DEF Executed, Live
  <1>6. Live("holder")' = Live("holder") /\ Live("submit")' = Live("submit")
    BY ServingKeeps DEF Effects, Acts
  <1>7. at = "issue" => LookupsOK' /\ IssueAwaited'
    BY <1>1, <1>5, <1>6 DEF IssueInv, IssuePageOK, LookupsOK, IssueAwaited
  <1>8. QED
    BY <1>1, <1>3, <1>4, <1>7 DEF IssueInv, IssuePageOK

\* The page as it is mounted, with what other pages have left behind.
LEMMA IssueMounted ==
  ASSUME CallsOK, NEW prefill \in Dids \union {none}, IssueMount(Left, prefill)
  PROVE  IssuePageOK'
  <1>1. PICK f : f = [Form(none) EXCEPT !.did = prefill]
    OBVIOUS
  <1>2. FormOK(f)
    <2>1. FormOK([Form(none) EXCEPT !.did = prefill, !.who = none])
      BY FormIs
    <2>2. Form(none).who = none
      BY DEF Form
    <2>3. [Form(none) EXCEPT !.did = prefill, !.who = none] = [Form(none) EXCEPT !.did = prefill]
      BY <2>2 DEF Form
    <2>4. QED
      BY <1>1, <2>1, <2>3
  <1>3. PICK lookup \in BOOLEAN : lookup <=> prefill # none
    OBVIOUS
  <1>4. page' = [view |-> "form", types |-> "loading", form |-> f, lookup |-> lookup,
                 loading |-> FALSE]
    BY <1>1, <1>3 DEF IssueMount, IssueBlank
  <1>5. /\ IsIssuePage(page') /\ page'.form = f /\ (page'.lookup <=> lookup) /\ ~page'.loading
    BY <1>4 DEF IsIssuePage
  <1>6. PICK T : T = Sent(Left, "types", [key |-> none])
    OBVIOUS
  <1>7. PICK d : d = NewCall(Left, "types", [key |-> none])
    OBVIOUS
  <1>8. T = Left \union {d} /\ d.kind = "types" /\ d.live
    BY <1>6, <1>7, SentCalls DEF NewCall
  <1>9. \A c \in Left : ~c.live
    BY LeftCalls
  <1>10. CASE prefill = none
    <2>1. calls' = T
      BY <1>6, <1>10 DEF IssueMount
    <2>2. Live("types")' # {} /\ Live("holder")' = {} /\ Live("submit")' = {}
      BY <1>8, <1>9, <2>1 DEF Live
    <2>3. QED
      BY <1>2, <1>3, <1>5, <1>10, <2>2 DEF IssuePageOK, LookupsOK, IssueAwaited
  <1>11. CASE prefill # none
    <2>1. PICK arg : arg = [key |-> prefill]
      OBVIOUS
    <2>2. calls' = Sent(T, "holder", arg)
      BY <1>6, <1>11, <2>1 DEF IssueMount
    <2>3. PICK e : e = NewCall(T, "holder", arg)
      OBVIOUS
    <2>4. calls' = T \union {e} /\ e.kind = "holder" /\ e.live /\ e.arg = arg
      BY <2>2, <2>3, SentCalls DEF NewCall
    <2>5. Live("types")' # {} /\ Live("holder")' = {e} /\ Live("submit")' = {}
      BY <1>8, <1>9, <2>4 DEF Live
    <2>6. QED
      BY <1>2, <1>5, <1>11, <2>1, <2>4, <2>5 DEF IssuePageOK, LookupsOK, IssueAwaited
  <1>12. QED
    BY <1>10, <1>11

LEMMA IssueStep ==
  ASSUME CallsOK, AccountsInv, IssueInv, [Next]_vars
  PROVE  IssueInv'
  <1>1. CASE at = "issue" /\ at' = "issue" /\ (Input \/ Answer)
    BY <1>1, IssueInputs, TypesAnswered, HolderAnswered, SubmitAnswered, IssueAnswered
    DEF Input, Answer, DidViews, AccountViews, IssueAnswers
  <1>2. CASE Serve
    BY <1>2, IssueServed
  <1>3. CASE ~(at = "issue" /\ at' = "issue" /\ (Input \/ Answer)) /\ ~Serve
    <2>1. NoNew("issue", calls, calls')
      BY <1>3, OwnersAskFor
    <2>2. IssueSendsOK'
      BY <2>1 DEF NoNew, IssueInv, IssueSendsOK
    <2>3. CASE Navigate
      <3>1. DeskOK'
        BY <2>3 DEF Navigate, Visit, FollowIssue, FollowCredentials, FollowRegistered, Mounts,
                    server, IssueInv, DeskOK
      <3>2. CASE FollowIssue
        <4>1. page.detail.id \in Names
          BY <3>2 DEF FollowIssue, AccountsInv, AccountViews, AccOK, NamesOK
        <4>2. HolderDid[page.detail.id] \in Dids
          BY <4>1, AppAssumption DEF Names
        <4>3. QED
          BY <2>2, <3>1, <3>2, <4>2, IssueMounted DEF FollowIssue, IssueInv
      <3>3. CASE ~FollowIssue
        <4>1. at' = "issue" => IssueMount(Left, none)
          BY <2>3, <3>3 DEF Navigate, Visit, FollowCredentials, FollowRegistered, Mounts, DidViews
        <4>2. QED
          BY <2>2, <3>1, <4>1, IssueMounted DEF IssueInv
      <3>4. QED
        BY <3>2, <3>3
    <2>4. CASE Input \/ Answer
      <3>1. at' = at /\ at # "issue"
        BY <1>3, <2>4 DEF Input, Answer
      <3>2. desk' = desk
        BY <2>4, <3>1 DEF Input, Answer, server
      <3>3. QED
        BY <2>2, <3>1, <3>2 DEF IssueInv, DeskOK
    <2>5. CASE Settling \/ UNCHANGED vars
      BY <2>2, <2>5 DEF Settling, Settle, server, vars, Live, IssueInv, DeskOK, IssuePageOK,
                        LookupsOK, IssueAwaited
    <2>6. QED
      BY <1>3, <2>3, <2>4, <2>5 DEF Next
  <1>4. QED
    BY <1>1, <1>2, <1>3

\* The forms the issue page has sent, or looks a holder up for, are complete, also after
\* the page is gone; what the API made of them is on the desk.
THEOREM IssueInvAlways == Spec => []IssueInv
  <1>1. Init => IssueInv
    BY DEF Init, IssueInv, DeskOK, IssueSendsOK, Range
  <1>2. CallsOK /\ AccountsInv /\ IssueInv /\ [Next]_vars => IssueInv'
    BY IssueStep
  <1>3. QED
    BY <1>1, <1>2, CallsAreOK, AccountsInvAlways, PTL DEF Spec

\* A credential the API issues says what the form showed (buildIssuePayload against
\* validate_credential_data_against_template and what issue_credential adds): fields,
\* holder and document; unless the holder on display was that of another DID, a field
\* hangs on a hidden one or on a number, a derived field was hidden, or the template has
\* a key of the API's own.
THEOREM IssuedIsAlwaysWhatWasShown == Spec => []IssuedIsWhatWasShown
  <1>1. IssueInv => IssuedIsWhatWasShown
    BY DEF IssueInv, DeskOK, ShownAsIssued, IssuedIsWhatWasShown
  <1>2. QED
    BY <1>1, IssueInvAlways, PTL

\* The API refuses no form that validateIssueForm let through, unless the holder was that
\* of another DID, a required file or a hidden derived field is in the way, his role or
\* the conversion brings out a required field that nobody had seen, a typed role is not
\* his, or the template has a key of the API's own.
THEOREM LetThroughIsNeverRefused == Spec => []LetThroughIsNotRefused
  <1>1. IssueInv => LetThroughIsNotRefused
    BY DEF IssueInv, DeskOK, RefusedForAReason, LetThroughIsNotRefused
  <1>2. QED
    BY <1>1, IssueInvAlways, PTL

-----------------------------------------------------------------------------
(* What the pages show as under way *)

\* What is said of one spinner: shown while busy, and taken down by any of S.
Ends(b) == b[1] => b[2] # {}

LEMMA SpinnerEnds ==
  ASSUME NEW busy \in BOOLEAN, NEW S, busy => S # {}
  PROVE  Ends(<<busy, S>>)
  BY DEF Ends

LEMMA IssueSpins ==
  ASSUME IssueInv, at = "issue"
  PROVE  \A b \in Busy : Ends(b)
  <1>1. PICK p, q, r \in BOOLEAN :
          /\ p = (page.types = "loading") /\ q = page.lookup /\ r = page.loading
    BY DEF IssueInv, IssuePageOK, IsIssuePage
  <1>2. Busy = {<<p, Live("types")>>, <<q, Live("holder")>>, <<r, Live("issue")>>}
    BY <1>1 DEF Busy, DidViews, AccountViews
  <1>3. /\ p => Live("types") # {}
        /\ q => Live("holder") # {}
        /\ r => Live("issue") # {}
    BY <1>1 DEF IssueInv, IssuePageOK, IssueAwaited
  <1>4. /\ Ends(<<p, Live("types")>>) /\ Ends(<<q, Live("holder")>>) /\ Ends(<<r, Live("issue")>>)
    BY <1>3, SpinnerEnds
  <1>5. QED
    BY <1>2, <1>4

LEMMA CredsSpin ==
  ASSUME CredsInv, at = "credentials"
  PROVE  \A b \in Busy : Ends(b)
  <1>1. PICK p, q \in BOOLEAN : p = (page.phase = "loading") /\ q = (page.revoking # none)
    OBVIOUS
  <1>2. PICK S : S = Live("revoke") \union {c \in Live("list") : c.arg.refetch}
    OBVIOUS
  <1>3. Busy = {<<p, Live("list")>>, <<q, S>>}
    BY <1>1, <1>2 DEF Busy, DidViews, AccountViews
  <1>4. (p => Live("list") # {}) /\ (q => S # {})
    BY <1>1, <1>2 DEF CredsInv, CredsAwaited
  <1>5. Ends(<<p, Live("list")>>) /\ Ends(<<q, S>>)
    BY <1>4, SpinnerEnds
  <1>6. QED
    BY <1>3, <1>5

LEMMA DidSpins ==
  ASSUME DidInv, at \in DidViews
  PROVE  \A b \in Busy : Ends(b)
  <1>1. PICK p \in BOOLEAN : p = (page.phase = "loading" \/ page.refreshing)
    OBVIOUS
  <1>2. PICK S : S = Awaited(IF at = "mydid" THEN {"resolve", "status"} ELSE {"resolve"})
    OBVIOUS
  <1>3. Busy = {<<p, S>>}
    BY <1>1, <1>2 DEF Busy, DidViews, AccountViews
  <1>4. p => S # {}
    BY <1>1, <1>2 DEF DidInv, Searching, OwnDid, Awaited
  <1>5. Ends(<<p, S>>)
    BY <1>4, SpinnerEnds
  <1>6. QED
    BY <1>3, <1>5

LEMMA HoldSpins ==
  ASSUME HoldInv, at = "holdings"
  PROVE  \A b \in Busy : Ends(b)
  <1>1. PICK p, q \in BOOLEAN : p = (page.phase = "loading") /\ q = (page.checking # none)
    OBVIOUS
  <1>2. PICK S : S = Awaited({"registry", "sbt"})
    OBVIOUS
  <1>3. Busy = {<<p, Live("held")>>, <<q, S>>}
    BY <1>1, <1>2 DEF Busy, DidViews, AccountViews
  <1>4. (p => Live("held") # {}) /\ (q => S # {})
    BY <1>1, <1>2 DEF HoldInv, Awaited
  <1>5. Ends(<<p, Live("held")>>) /\ Ends(<<q, S>>)
    BY <1>4, SpinnerEnds
  <1>6. QED
    BY <1>3, <1>5

LEMMA VerifySpins ==
  ASSUME VerifyInv, at = "verify"
  PROVE  \A b \in Busy : Ends(b)
  <1>1. PICK p \in BOOLEAN : p = page.loading
    BY DEF VerifyInv, VerifyPages
  <1>2. Busy = {<<p, Live("verify")>>}
    BY <1>1 DEF Busy, DidViews, AccountViews
  <1>3. Ends(<<p, Live("verify")>>)
    BY <1>1, SpinnerEnds DEF VerifyInv
  <1>4. QED
    BY <1>2, <1>3

LEMMA RegisterSpins ==
  ASSUME RegisterInv, at = "register"
  PROVE  \A b \in Busy : Ends(b)
  <1>1. PICK p \in BOOLEAN : p = page.loading
    BY DEF RegisterInv, RegisterPages
  <1>2. Busy = {<<p, Live("register")>>}
    BY <1>1 DEF Busy, DidViews, AccountViews
  <1>3. Ends(<<p, Live("register")>>)
    BY <1>1, SpinnerEnds DEF RegisterInv
  <1>4. QED
    BY <1>2, <1>3

LEMMA AccountsSpin ==
  ASSUME AccountsInv, at \in AccountViews
  PROVE  \A b \in Busy : Ends(b)
  <1>1. /\ IsAccPage(page) /\ NamesOK(page, calls) /\ ListOK(page, calls)
        /\ ChainOK(page, calls)
    BY DEF AccountsInv, AccOK
  <1>2. PICK p, q, r \in BOOLEAN : p = page.loading /\ q = page.detailLoading /\ r = page.acting
    BY <1>1 DEF IsAccPage
  <1>3. PICK S : S = Awaited(Acts) \union {c \in Live("accounts") : c.arg.after # none}
                                   \union {c \in Live("detail") : c.arg.last}
    OBVIOUS
  <1>4. Busy = {<<p, Live("accounts")>>, <<q, Live("detail")>>, <<r, S>>}
    BY <1>2, <1>3 DEF Busy, DidViews, AccountViews
  <1>5. p => Live("accounts") # {}
    BY <1>1, <1>2 DEF ListOK, ForList, Live
  <1>6. q => Live("detail") # {}
    BY <1>1, <1>2 DEF ChainOK, ForDetail, Live
  <1>7. r => S # {}
    <2>1. SUFFICES ASSUME r PROVE S # {}
      OBVIOUS
    <2>2. PICK c \in calls : InChain(c)
      BY <1>1, <1>2, <2>1 DEF ChainOK
    <2>3. \/ c \in Live(c.kind) /\ c.kind \in Acts
          \/ c \in Live("accounts") /\ c.arg.after # none
          \/ c \in Live("detail") /\ c.arg.last
      BY <2>2 DEF InChain, ForList, ForDetail, Live
    <2>4. c \in S
      BY <1>3, <2>3 DEF Awaited
    <2>5. QED
      BY <2>4
  <1>8. /\ Ends(<<p, Live("accounts")>>) /\ Ends(<<q, Live("detail")>>) /\ Ends(<<r, S>>)
    BY <1>5, <1>6, <1>7, SpinnerEnds
  <1>9. QED
    BY <1>4, <1>8

\* Whatever a page shows as under way (a spinner, a button that is locked) is awaited:
\* some answer still to come ends it, since every handler ends what it began.
THEOREM NoSpinnerEverForEver == Spec => []NoSpinnerForEver
  <1>1. /\ IssueInv /\ CredsInv /\ DidInv /\ HoldInv /\ VerifyInv /\ RegisterInv /\ AccountsInv
        => NoSpinnerForEver
    <2>1. SUFFICES ASSUME IssueInv, CredsInv, DidInv, HoldInv, VerifyInv, RegisterInv, AccountsInv
                   PROVE  \A b \in Busy : Ends(b)
      BY DEF NoSpinnerForEver, Ends
    <2>2. CASE at \in {"issue", "credentials", "holdings", "verify", "register"}
                      \union DidViews \union AccountViews
      BY <2>1, <2>2, IssueSpins, CredsSpin, DidSpins, HoldSpins, VerifySpins, RegisterSpins,
         AccountsSpin
    <2>3. CASE at \notin {"issue", "credentials", "holdings", "verify", "register"}
                         \union DidViews \union AccountViews
      <3>1. Busy = {}
        BY <2>3 DEF Busy, DidViews, AccountViews
      <3>2. QED
        BY <3>1
    <2>4. QED
      BY <2>2, <2>3
  <1>2. QED
    BY <1>1, IssueInvAlways, CredsInvAlways, DidInvAlways, HoldInvAlways, VerifyInvAlways,
       RegisterInvAlways, AccountsInvAlways, PTL
=============================================================================

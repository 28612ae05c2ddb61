------------------------- MODULE WalletSessionProofs -------------------------
(***************************************************************************)
(* Theorems about WalletSession, for every set of tabs, tokens and users   *)
(* and any number of requests under way.                                   *)
(***************************************************************************)
EXTENDS WalletSession, TLAPS

\* The router shows a place, whoever is signed in and wherever he came from.
LEMMA RenderTyped ==
  ASSUME NEW k \in MaybeToken, NEW p \in Place
  PROVE  Render(k, p) \in Place
  <1>1. CASE k = none
    BY <1>1 DEF Render, Place, Places
  <1>2. CASE k # none
    <2>1. Home(k) \in {"wallet", "admin"}
      BY <1>2, SessionAssumption DEF Home, MaybeToken
    <2>2. \A at \in Places : [at |-> at, from |-> none] \in Place
      BY DEF Place
    <2>3. Home(k) \in Places /\ (p.from # none => p.from \in Places)
      BY <2>1 DEF Place, Places
    <2>4. QED
      BY <1>2, <2>2, <2>3 DEF Render
  <1>3. QED
    BY <1>1, <1>2

LEMMA SettledTyped ==
  ASSUME NEW k \in MaybeToken, NEW p \in Place
  PROVE  Settled(k, p) \in Place
  BY RenderTyped DEF Settled

\* What writing the storage from tab t leaves: t agrees with it, and any other
\* open tab that still counts as fresh agreed with it before.
LEMMA WrittenKeeps ==
  ASSUME TypeOK, FreshTabsAgree,
         NEW t \in Tabs, NEW k \in MaybeToken, NEW p \in Place, Written(t, k, p)
  PROVE  /\ stored' \in MaybeToken /\ token' \in [Tabs -> MaybeToken]
         /\ place' \in [Tabs -> Place] /\ stale' \in [Tabs -> BOOLEAN]
         /\ stored' = k /\ token'[t] = k
         /\ \A s \in Tabs \ {t} : token'[s] = token[s]
         /\ \A s \in open \union {t} : stale'[s] \/ token'[s] = stored'
  <1>1. Settled(k, p) \in Place
    BY SettledTyped
  <1>2. stored' = k /\ token'[t] = k /\ \A s \in Tabs \ {t} : token'[s] = token[s]
    BY DEF Written, TypeOK
  <1>3. /\ stored' \in MaybeToken /\ token' \in [Tabs -> MaybeToken]
        /\ place' \in [Tabs -> Place] /\ stale' \in [Tabs -> BOOLEAN]
    BY <1>1 DEF Written, TypeOK
  <1>4. ASSUME NEW s \in open, s # t, ~stale'[s]
        PROVE  token'[s] = stored'
    <2>1. s \in Tabs
      BY DEF TypeOK
    <2>2. ~stale[s] /\ stored = k
      BY <1>4, <2>1 DEF Written, TypeOK
    <2>3. QED
      BY <1>2, <1>4, <2>1, <2>2 DEF FreshTabsAgree
  <1>5. QED
    BY <1>2, <1>3, <1>4

-----------------------------------------------------------------------------
(* The invariant is inductive: one lemma for each action *)

LEMMA InitIInv == Init => IInv
  BY DEF Init, IInv, TypeOK, AwaitedByOpenTabs, FreshTabsAgree, RequestsGoOutAsShown,
         Statuses, MaybeToken, Place, Places

LEMMA LoadStep ==
  ASSUME IInv, NEW t \in Tabs, NEW p \in Place, Load(t, p)
  PROVE  IInv'
  <1>1. /\ open' \in SUBSET Tabs /\ requests' \subseteq Request
        /\ status' \in [Tokens -> Statuses]
        /\ AwaitedByOpenTabs' /\ RequestsGoOutAsShown'
    BY DEF IInv, TypeOK, Load, Dropped, AwaitedByOpenTabs, RequestsGoOutAsShown
  <1>2. CASE stored # none /\ status[stored] # "expired"
    <2>1. Settled(stored, p) \in Place
      BY SettledTyped DEF IInv, TypeOK
    <2>2. TypeOK'
      BY <1>1, <1>2, <2>1 DEF IInv, TypeOK, Load
    <2>3. FreshTabsAgree'
      BY <1>2 DEF IInv, TypeOK, Load, FreshTabsAgree
    <2>4. QED
      BY <1>1, <2>2, <2>3 DEF IInv
  <1>3. CASE ~(stored # none /\ status[stored] # "expired")
    <2>1. Written(t, none, p) /\ none \in MaybeToken /\ open' = open \union {t}
      BY <1>3 DEF Load, MaybeToken
    <2>2. TypeOK' /\ FreshTabsAgree'
      BY <1>1, <2>1, WrittenKeeps DEF IInv, TypeOK, FreshTabsAgree
    <2>3. QED
      BY <1>1, <2>2 DEF IInv
  <1>4. QED
    BY <1>2, <1>3

LEMMA CloseStep ==
  ASSUME IInv, NEW t \in Tabs, Close(t)
  PROVE  IInv'
  <1>1. [at |-> "login", from |-> none] \in Place
    BY DEF Place, Places
  <1>2. TypeOK'
    BY <1>1 DEF IInv, TypeOK, Close, Dropped, MaybeToken
  <1>3. AwaitedByOpenTabs' /\ RequestsGoOutAsShown'
    BY DEF IInv, TypeOK, Close, Dropped, AwaitedByOpenTabs, RequestsGoOutAsShown
  <1>4. FreshTabsAgree'
    BY DEF IInv, TypeOK, Close, FreshTabsAgree
  <1>5. QED
    BY <1>2, <1>3, <1>4 DEF IInv

LEMMA GoStep ==
  ASSUME IInv, NEW t \in Tabs, NEW at \in Places, Go(t, at)
  PROVE  IInv'
  <1>1. [at |-> at, from |-> none] \in Place
    BY DEF Place
  <1>2. Settled(token[t], [at |-> at, from |-> none]) \in Place
    BY <1>1, SettledTyped DEF IInv, TypeOK
  <1>3. QED
    BY <1>2 DEF IInv, TypeOK, Go, AwaitedByOpenTabs, FreshTabsAgree, RequestsGoOutAsShown

\* The two ways a request is added.
LEMMA SubmitStep ==
  ASSUME IInv, NEW t \in Tabs, NEW u \in Users, Submit(t, u)
  PROVE  IInv'
  <1>1. [kind |-> "login", tab |-> t, user |-> u] \in Request
    BY DEF Request
  <1>2. TypeOK'
    BY <1>1 DEF IInv, TypeOK, Submit
  <1>3. AwaitedByOpenTabs' /\ RequestsGoOutAsShown' /\ FreshTabsAgree'
    BY DEF IInv, Submit, AwaitedByOpenTabs, RequestsGoOutAsShown, FreshTabsAgree
  <1>4. QED
    BY <1>2, <1>3 DEF IInv

LEMMA SendStep ==
  ASSUME IInv, NEW t \in Tabs, Send(t)
  PROVE  IInv'
  <1> DEFINE new == [kind |-> "api", tab |-> t, sent |-> stored,
                     shown |-> token[t], stale |-> stale[t]]
  <1>1. requests' = requests \union {new} /\ t \in open
        /\ UNCHANGED <<status, stored, open, token, place, stale>>
    BY DEF Send, SignedIn
  <1>2. token[t] \in Tokens /\ stored \in MaybeToken /\ stale[t] \in BOOLEAN
    BY DEF IInv, TypeOK, Send, SignedIn, MaybeToken
  <1>3. new \in Request
    BY <1>2 DEF Request
  <1>4. new.sent = new.shown \/ new.stale
    BY <1>1 DEF IInv, FreshTabsAgree
  <1>5. TypeOK'
    BY <1>1, <1>3 DEF IInv, TypeOK
  <1>6. RequestsGoOutAsShown'
    BY <1>1, <1>4 DEF IInv, RequestsGoOutAsShown
  <1>7. AwaitedByOpenTabs' /\ FreshTabsAgree'
    BY <1>1 DEF IInv, AwaitedByOpenTabs, FreshTabsAgree
  <1>8. QED
    BY <1>5, <1>6, <1>7 DEF IInv

\* The three that write the storage and open no tab.
LEMMA WrittenStep ==
  ASSUME IInv, NEW t \in open, NEW k \in MaybeToken, NEW p \in Place, Written(t, k, p),
         status' \in [Tokens -> Statuses], open' = open, requests' \subseteq requests
  PROVE  IInv'
  <1>1. TypeOK' /\ FreshTabsAgree'
    BY WrittenKeeps DEF IInv, TypeOK, FreshTabsAgree
  <1>2. AwaitedByOpenTabs' /\ RequestsGoOutAsShown'
    BY DEF IInv, AwaitedByOpenTabs, RequestsGoOutAsShown
  <1>3. QED
    BY <1>1, <1>2 DEF IInv

LEMMA LogoutStep ==
  ASSUME IInv, NEW t \in Tabs, NEW from \in Places \union {none}, Logout(t, from)
  PROVE  IInv'
  <1>1. PICK p \in Place : Written(t, none, p)
    BY DEF Logout, IInv, TypeOK, Place, Places
  <1>2. t \in open /\ none \in MaybeToken /\ status' \in [Tokens -> Statuses]
        /\ open' = open /\ requests' \subseteq requests
    BY DEF Logout, SignedIn, MaybeToken, IInv, TypeOK
  <1>3. QED
    BY <1>1, <1>2, WrittenStep

LEMMA LoginAnswerStep ==
  ASSUME IInv, NEW r \in requests, NEW k \in Tokens, LoginAnswer(r, k)
  PROVE  IInv'
  <1>1. r.tab \in open /\ r.tab \in Tabs
    BY DEF IInv, AwaitedByOpenTabs, TypeOK
  <1>2. [at |-> Home(k), from |-> none] \in Place
    BY SessionAssumption DEF Home, Place, Places
  <1>3. place[r.tab] \in Place
    BY <1>1 DEF IInv, TypeOK
  <1>4. PICK p \in Place : Written(r.tab, k, p)
    BY <1>2, <1>3 DEF LoginAnswer
  <1>5. k \in MaybeToken /\ status' \in [Tokens -> Statuses]
        /\ open' = open /\ requests' \subseteq requests
    BY DEF LoginAnswer, MaybeToken, IInv, TypeOK, Statuses
  <1>6. QED
    BY <1>1, <1>4, <1>5, WrittenStep

LEMMA UnauthorizedStep ==
  ASSUME IInv, NEW r \in requests, Unauthorized(r)
  PROVE  IInv'
  <1>1. r.tab \in open /\ r.tab \in Tabs
    BY DEF IInv, AwaitedByOpenTabs, TypeOK
  <1>2. place[r.tab] \in Place /\ Written(r.tab, none, place[r.tab])
    BY <1>1 DEF IInv, TypeOK, Unauthorized
  <1>3. none \in MaybeToken /\ status' \in [Tokens -> Statuses]
        /\ open' = open /\ requests' \subseteq requests
    BY DEF Unauthorized, MaybeToken, IInv, TypeOK
  <1>4. QED
    BY <1>1, <1>2, <1>3, WrittenStep

\* Those that leave the tabs alone.
LEMMA AnswerStep ==
  ASSUME IInv, NEW r \in requests, LoginRefused(r) \/ Answered(r)
  PROVE  IInv'
  BY DEF IInv, TypeOK, LoginRefused, Answered, AwaitedByOpenTabs, FreshTabsAgree,
         RequestsGoOutAsShown

LEMMA ExpireStep ==
  ASSUME IInv, NEW k \in Tokens, Expire(k)
  PROVE  IInv'
  <1>1. status' \in [Tokens -> Statuses]
    BY DEF IInv, TypeOK, Expire, Statuses
  <1>2. QED
    BY <1>1 DEF IInv, TypeOK, Expire, AwaitedByOpenTabs, FreshTabsAgree, RequestsGoOutAsShown

LEMMA RemoveStep ==
  ASSUME IInv, NEW u \in Users, Remove(u)
  PROVE  IInv'
  <1>1. status' \in [Tokens -> Statuses]
    BY DEF IInv, TypeOK, Remove, Statuses
  <1>2. QED
    BY <1>1 DEF IInv, TypeOK, Remove, AwaitedByOpenTabs, FreshTabsAgree, RequestsGoOutAsShown

LEMMA IInvStep == IInv /\ [Next]_vars => IInv'
  <1> SUFFICES ASSUME IInv, [Next]_vars PROVE IInv'
    OBVIOUS
  <1>1. CASE UNCHANGED vars
    BY <1>1 DEF vars, IInv, TypeOK, AwaitedByOpenTabs, FreshTabsAgree, RequestsGoOutAsShown
  <1>2. ASSUME NEW t \in Tabs, NEW at \in Places, Load(t, [at |-> at, from |-> none])
        PROVE  IInv'
    BY <1>2, LoadStep DEF Place
  <1>3. ASSUME NEW t \in Tabs, Reload(t)
        PROVE  IInv'
    <2>1. place[t] \in Place
      BY DEF IInv, TypeOK
    <2>2. QED
      BY <1>3, <2>1, LoadStep DEF Reload
  <1>4. ASSUME NEW t \in Tabs,
               Close(t) \/ Send(t)
               \/ (\E at \in Places : Go(t, at)) \/ (\E u \in Users : Submit(t, u))
               \/ (\E from \in Places \union {none} : Logout(t, from))
        PROVE  IInv'
    BY <1>4, CloseStep, SendStep, GoStep, SubmitStep, LogoutStep
  <1>5. ASSUME NEW r \in requests,
               (\E k \in Tokens : LoginAnswer(r, k)) \/ LoginRefused(r) \/ Answered(r)
               \/ Unauthorized(r)
        PROVE  IInv'
    BY <1>5, LoginAnswerStep, AnswerStep, UnauthorizedStep
  <1>6. ASSUME (\E k \in Tokens : Expire(k)) \/ (\E u \in Users : Remove(u))
        PROVE  IInv'
    BY <1>6, ExpireStep, RemoveStep
  <1>7. QED
    BY <1>1, <1>2, <1>3, <1>4, <1>5, <1>6 DEF Next

-----------------------------------------------------------------------------
(* Theorems *)

\* The invariant of tabs, storage and requests holds in every reachable state.
THEOREM SessionInvariant == Spec => []IInv
  BY InitIInv, IInvStep, PTL DEF Spec

\* Every variable of the session keeps its type; the router shows a place.
THEOREM TypeCorrectness == Spec => []TypeOK
  <1>1. IInv => TypeOK
    BY DEF IInv
  <1>2. QED
    BY <1>1, SessionInvariant, PTL

\* A request carries the token of the user its page shows, unless another tab
\* has written the storage since.
THEOREM RequestsCarryTheShownToken == Spec => []RequestsGoOutAsShown
  <1>1. IInv => RequestsGoOutAsShown
    BY DEF IInv
  <1>2. QED
    BY <1>1, SessionInvariant, PTL

\* The reasons for which an open tab may change its session.
Reason(t) ==
  \/ stale[t]
  \/ token[t] # none /\ status[token[t]] # "valid"
  \/ \E from \in Places \union {none} : Logout(t, from)
  \/ \E r \in requests : /\ r.tab = t
                        /\ \/ \E k \in Tokens : LoginAnswer(r, k)
                           \/ Unauthorized(r) /\ r.sent # token[t]

\* Loading a tab again changes its session only when it was stale or expired.
LEMMA LoadReason ==
  ASSUME IInv, NEW t \in open, NEW p, Load(t, p), token'[t] # token[t]
  PROVE  Reason(t)
  <1> SUFFICES ASSUME ~stale[t] PROVE token[t] # none /\ status[token[t]] # "valid"
    BY DEF Reason
  <1>1. token[t] = stored /\ t \in Tabs
    BY DEF IInv, FreshTabsAgree, TypeOK
  <1>2. ~(stored # none /\ status[stored] # "expired")
    BY <1>1 DEF Load, IInv, TypeOK
  <1>3. token'[t] = none
    BY <1>1, <1>2 DEF Load, Written, IInv, TypeOK
  <1>4. QED
    BY <1>1, <1>2, <1>3

\* A 401 takes away only a token that is not valid, unless it was another's.
LEMMA UnauthorizedReason ==
  ASSUME IInv, NEW r \in requests, Unauthorized(r), token'[r.tab] # token[r.tab]
  PROVE  Reason(r.tab)
  <1>1. r.tab \in Tabs
    BY DEF IInv, AwaitedByOpenTabs, TypeOK
  <1>2. token'[r.tab] = none
    BY <1>1 DEF Unauthorized, Written, IInv, TypeOK
  <1>3. CASE r.sent = token[r.tab]
    BY <1>2, <1>3 DEF Unauthorized, MayRefuse, Reason
  <1>4. CASE r.sent # token[r.tab]
    BY <1>4 DEF Reason
  <1>5. QED
    BY <1>3, <1>4

\* Loading one tab leaves the token of another.
LEMMA LoadOfAnother ==
  ASSUME IInv, NEW t \in Tabs, NEW s \in Tabs, s # t, NEW p, Load(s, p)
  PROVE  token'[t] = token[t]
  BY DEF Load, Written, IInv, TypeOK

LEMMA ChangeHasReason ==
  ASSUME IInv, [Next]_vars, NEW t \in open, t \in open', token'[t] # token[t]
  PROVE  Reason(t)
  <1>1. t \in Tabs /\ token \in [Tabs -> MaybeToken]
    BY DEF IInv, TypeOK
  <1>2. ASSUME NEW s \in Tabs, NEW p, Load(s, p)
        PROVE  Reason(t)
    BY <1>1, <1>2, LoadReason, LoadOfAnother
  <1>3. ASSUME NEW s \in Tabs, Close(s)
        PROVE  Reason(t)
    <2>1. s # t
      BY <1>3 DEF Close
    <2>2. QED
      BY <1>1, <1>3, <2>1 DEF Close
  <1>4. ASSUME NEW s \in Tabs, NEW from \in Places \union {none}, Logout(s, from)
        PROVE  Reason(t)
    <2>1. CASE s = t
      BY <1>4, <2>1 DEF Reason
    <2>2. CASE s # t
      BY <1>1, <1>4, <2>2 DEF Logout, Written
    <2>3. QED
      BY <2>1, <2>2
  <1>5. ASSUME NEW r \in requests, NEW k \in Tokens, LoginAnswer(r, k)
        PROVE  Reason(t)
    <2>1. CASE r.tab = t
      BY <1>5, <2>1 DEF Reason
    <2>2. CASE r.tab # t
      BY <1>1, <1>5, <2>2 DEF LoginAnswer, Written
    <2>3. QED
      BY <2>1, <2>2
  <1>6. ASSUME NEW r \in requests, Unauthorized(r)
        PROVE  Reason(t)
    <2>1. CASE r.tab = t
      BY <1>6, <2>1, UnauthorizedReason
    <2>2. CASE r.tab # t
      BY <1>1, <1>6, <2>2 DEF Unauthorized, Written
    <2>3. QED
      BY <2>1, <2>2
  <1>7. ASSUME NEW s \in Tabs,
               Send(s) \/ (\E at \in Places : Go(s, at)) \/ (\E u \in Users : Submit(s, u))
        PROVE  token' = token
    BY <1>7 DEF Send, Go, Submit
  <1>8. ASSUME NEW r \in requests, LoginRefused(r) \/ Answered(r)
        PROVE  token' = token
    BY <1>8 DEF LoginRefused, Answered
  <1>9. ASSUME (\E k \in Tokens : Expire(k)) \/ (\E u \in Users : Remove(u)) \/ UNCHANGED vars
        PROVE  token' = token
    BY <1>9 DEF Expire, Remove, vars
  <1>10. QED
    BY <1>2, <1>3, <1>4, <1>5, <1>6, <1>7, <1>8, <1>9 DEF Next, Reload

\* An open tab changes its session only for one of the reasons named there.
THEOREM SessionsChangeForAReason == Spec => SessionChangesForAReason
  <1>1. IInv /\ [Next]_vars =>
          [\A t \in open : (t \in open' /\ token'[t] # token[t]) =>
             \/ stale[t]
             \/ token[t] # none /\ status[token[t]] # "valid"
             \/ \E from \in Places \union {none} : Logout(t, from)
             \/ \E r \in requests : /\ r.tab = t
                                   /\ \/ \E k \in Tokens : LoginAnswer(r, k)
                                      \/ Unauthorized(r) /\ r.sent # token[t]]_vars
    BY ChangeHasReason DEF Reason
  <1>2. QED
    BY <1>1, SessionInvariant, PTL DEF Spec, SessionChangesForAReason
=============================================================================

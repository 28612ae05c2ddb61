---------------------------- MODULE WalletSession ----------------------------
(***************************************************************************)
(* Who is signed in.  Every tab of the browser holds the token in React   *)
(* state (AuthContext) and shows the pages of its user; requests take     *)
(* theirs from localStorage (api/client.js), which all tabs share and     *)
(* none listens to.  A request that is answered with 401 empties the      *)
(* storage and signs its tab out, whoever is signed in by then.           *)
(***************************************************************************)
EXTENDS Naturals, FiniteSets

CONSTANTS
  Tabs,         \* the tabs of one browser
  Tokens,       \* the tokens the API may hand out
  Users,        \* the accounts
  Owner,        \* whose token it is
  Portal,       \* the part of the site open to a user: "wallet" or "admin"
  MaxRequests   \* bound: requests in flight

ASSUME SessionAssumption ==
  /\ Owner \in [Tokens -> Users]
  /\ Portal \in [Users -> {"wallet", "admin"}]
  /\ MaxRequests \in Nat

none == "none"
ASSUME NoneAssumption == none \notin Tokens

VARIABLES
  status,    \* of a token: unissued, valid, expired, or its account is gone
  stored,    \* the token in localStorage
  open,      \* the tabs that are open
  token,     \* the token in a tab's state; its user is derived from it
  place,     \* what the router shows in a tab, and where it came from
  stale,     \* a history of ours: another tab has written the storage since
             \*   this one last read or wrote it
  requests   \* logins and authorized requests whose answer is awaited

vars == <<status, stored, open, token, place, stale, requests>>

Statuses == {"unissued", "valid", "expired", "gone"}
Places == {"login", "wallet", "admin", "verify"}
Place == [at : Places, from : Places \union {none}]
MaybeToken == Tokens \union {none}
Request ==
  [kind : {"login"}, tab : Tabs, user : Users] \union
  [kind : {"api"}, tab : Tabs, sent : MaybeToken, shown : Tokens, stale : BOOLEAN]

TypeOK ==
  /\ status \in [Tokens -> Statuses]
  /\ stored \in MaybeToken
  /\ open \in SUBSET Tabs
  /\ token \in [Tabs -> MaybeToken]
  /\ place \in [Tabs -> Place]
  /\ stale \in [Tabs -> BOOLEAN]
  /\ requests \subseteq Request

Init ==
  /\ status = [k \in Tokens |-> "unissued"]
  /\ stored = none
  /\ open = {}
  /\ token = [t \in Tabs |-> none]
  /\ place = [t \in Tabs |-> [at |-> "login", from |-> none]]
  /\ stale = [t \in Tabs |-> FALSE]
  /\ requests = {}

-----------------------------------------------------------------------------
(* The router *)

Home(k) == Portal[Owner[k]]

\* One rendering at a place, for a tab with token k: the pages of a portal ask
\* for a user, and for one of its own; the login page sends a user on.
Render(k, p) ==
  IF p.at = "verify" THEN p
  ELSE IF p.at = "login"
    THEN IF k = none THEN p
         ELSE [at |-> IF p.from = none THEN Home(k) ELSE p.from, from |-> none]
  ELSE IF k = none THEN [at |-> "login", from |-> p.at]
  ELSE IF p.at = Home(k) THEN p ELSE [at |-> Home(k), from |-> none]

\* Where the redirections lead: from the login page to the one it was sent
\* from, and from there home.
Settled(k, p) == Render(k, Render(k, p))

\* The pages that send requests with a token: those of the user's portal.
SignedIn(t) == t \in open /\ token[t] # none

\* Mutant: the state of the tab changes and the storage does not.
WrittenToState(t, k, p) ==
  /\ token' = [token EXCEPT ![t] = k]
  /\ place' = [place EXCEPT ![t] = Settled(k, p)]
  /\ UNCHANGED <<stored, stale>>

\* Tab t is left with token k, at p, and the storage with k as well.
Written(t, k, p) ==
  /\ stored' = k
  /\ token' = [token EXCEPT ![t] = k]
  /\ place' = [place EXCEPT ![t] = Settled(k, p)]
  /\ stale' = [s \in Tabs |-> s # t /\ (stale[s] \/ (stored # k /\ s \in open))]

-----------------------------------------------------------------------------
(* A tab *)

Dropped(t) == {r \in requests : r.tab # t}

\* A tab is opened, or an address typed: it starts from what is stored, unless its
\* own clock says that has expired.  Whatever it awaited is lost.
Load(t, p) ==
  /\ open' = open \union {t}
  /\ requests' = Dropped(t)
  /\ IF stored # none /\ status[stored] # "expired"
       THEN /\ token' = [token EXCEPT ![t] = stored]
            /\ place' = [place EXCEPT ![t] = Settled(stored, p)]
            /\ stale' = [stale EXCEPT ![t] = FALSE]
            /\ UNCHANGED stored
       ELSE Written(t, none, p)
  /\ UNCHANGED status

\* Reloading keeps the place, the page one was sent to the login from included.
Reload(t) == t \in open /\ Load(t, place[t])

Close(t) ==
  /\ t \in open
  /\ open' = open \ {t}
  /\ requests' = Dropped(t)
  /\ token' = [token EXCEPT ![t] = none]
  /\ place' = [place EXCEPT ![t] = [at |-> "login", from |-> none]]
  /\ stale' = [stale EXCEPT ![t] = FALSE]
  /\ UNCHANGED <<status, stored>>

\* A link, or the browser's own history.
Go(t, at) ==
  /\ t \in open
  /\ place' = [place EXCEPT ![t] = Settled(token[t], [at |-> at, from |-> none])]
  /\ UNCHANGED <<status, stored, open, token, stale, requests>>

\* The login form; leaving the page does not call the login off.
Submit(t, u) ==
  /\ t \in open /\ place[t].at = "login"
  /\ Cardinality(requests) < MaxRequests
  /\ requests' = requests \union {[kind |-> "login", tab |-> t, user |-> u]}
  /\ UNCHANGED <<status, stored, open, token, place, stale>>

\* Mutant: logging out leaves the token in the storage.
LogoutOfState(t, from) ==
  /\ SignedIn(t)
  /\ from \in {place[t].at, none}
  /\ token' = [token EXCEPT ![t] = none]
  /\ place' = [place EXCEPT ![t] = [at |-> "login", from |-> from]]
  /\ UNCHANGED <<status, stored, open, stale, requests>>

\* Logging out shows the login page of the place one was at; the drawer goes to
\* the login page itself.
Logout(t, from) ==
  /\ SignedIn(t)
  /\ from \in {place[t].at, none}
  /\ Written(t, none, IF from = none THEN [at |-> "login", from |-> none] ELSE place[t])
  /\ UNCHANGED <<status, open, requests>>

\* A page sends a request: with the token that is stored, not its user's.
Send(t) ==
  /\ SignedIn(t) /\ place[t].at \in {"wallet", "admin"}
  /\ Cardinality(requests) < MaxRequests
  /\ requests' = requests \union {[kind |-> "api", tab |-> t, sent |-> stored,
                                   shown |-> token[t], stale |-> stale[t]]}
  /\ UNCHANGED <<status, stored, open, token, place, stale>>

-----------------------------------------------------------------------------
(* The API, and its answers *)

\* A login succeeds with a new token, and takes the tab home; where the login
\* page renders first, to the place it was sent from.
LoginAnswer(r, k) ==
  /\ r \in requests /\ r.kind = "login"
  /\ status[k] = "unissued" /\ Owner[k] = r.user
  /\ status' = [status EXCEPT ![k] = "valid"]
  /\ requests' = requests \ {r}
  /\ \E p \in {[at |-> Home(k), from |-> none]}
             \union (IF place[r.tab].at = "login" THEN {place[r.tab]} ELSE {}) :
       Written(r.tab, k, p)
  /\ UNCHANGED open

LoginRefused(r) ==
  /\ r \in requests /\ r.kind = "login"
  /\ requests' = requests \ {r}
  /\ UNCHANGED <<status, stored, open, token, place, stale>>

\* Whether the API answers 401: to no token, to one that has expired, and, at
\* the endpoints that look the account up, to one whose account is gone.
MayRefuse(k) == k # none => status[k] # "valid"
MayAccept(k) == k # none /\ status[k] # "expired"

Answered(r) ==
  /\ r \in requests /\ r.kind = "api" /\ MayAccept(r.sent)
  /\ requests' = requests \ {r}
  /\ UNCHANGED <<status, stored, open, token, place, stale>>

\* 401 empties the storage and signs the tab out.
Unauthorized(r) ==
  /\ r \in requests /\ r.kind = "api" /\ MayRefuse(r.sent)
  /\ requests' = requests \ {r}
  /\ Written(r.tab, none, place[r.tab])
  /\ UNCHANGED <<status, open>>

Expire(k) ==
  /\ status[k] \in {"valid", "gone"}
  /\ status' = [status EXCEPT ![k] = "expired"]
  /\ UNCHANGED <<stored, open, token, place, stale, requests>>

\* The account is deleted; one of that name may be registered anew.
Remove(u) ==
  /\ \E k \in Tokens : Owner[k] = u /\ status[k] = "valid"
  /\ status' = [k \in Tokens |-> IF Owner[k] = u /\ status[k] = "valid" THEN "gone" ELSE status[k]]
  /\ UNCHANGED <<stored, open, token, place, stale, requests>>

Next ==
  \/ \E t \in Tabs :
       \/ \E at \in Places : Load(t, [at |-> at, from |-> none])
       \/ Reload(t)
       \/ Close(t)
       \/ \E at \in Places : Go(t, at)
       \/ \E u \in Users : Submit(t, u)
       \/ \E from \in Places \union {none} : Logout(t, from)
       \/ Send(t)
  \/ \E r \in requests :
       \/ \E k \in Tokens : LoginAnswer(r, k)
       \/ LoginRefused(r) \/ Answered(r) \/ Unauthorized(r)
  \/ \E k \in Tokens : Expire(k)
  \/ \E u \in Users : Remove(u)

Spec == Init /\ [][Next]_vars

-----------------------------------------------------------------------------
(* Properties *)

\* Code behaviour: getStoredToken, against the user AuthContext shows.  Every
\* request goes out with the token of the session its page is shown for; unless
\* another tab has written the storage since this one read or wrote it.
RequestsGoOutAsShown ==
  \A r \in requests : r.kind = "api" => r.sent = r.shown \/ r.stale

\* Code behaviour: AuthContext's effects and apiRequest's 401.  An open tab
\* changes its session only by a login answered in it, by its user's logging
\* out, because its token is no longer valid, on loading what another tab has
\* stored, or by a 401 to a request that did not carry its token: that of an
\* earlier session, or what another tab had stored.
SessionChangesForAReason ==
  [][\A t \in open : (t \in open' /\ token'[t] # token[t]) =>
       \/ stale[t]
       \/ token[t] # none /\ status[token[t]] # "valid"
       \/ \E from \in Places \union {none} : Logout(t, from)
       \/ \E r \in requests : /\ r.tab = t
                             /\ \/ \E k \in Tokens : LoginAnswer(r, k)
                                \/ Unauthorized(r) /\ r.sent # token[t]]_vars

-----------------------------------------------------------------------------
(* The inductive invariant behind them *)

\* Only open tabs await anything; and a tab that no other has overwritten shows
\* the session that is stored.
AwaitedByOpenTabs == \A r \in requests : r.tab \in open
FreshTabsAgree == \A t \in open : stale[t] \/ token[t] = stored

IInv == TypeOK /\ AwaitedByOpenTabs /\ FreshTabsAgree /\ RequestsGoOutAsShown
=============================================================================

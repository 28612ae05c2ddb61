------------------------------ MODULE WalletApp ------------------------------
(***************************************************************************)
(* The single-page front end: the pages of the admins, the wallet and the *)
(* verifier, of which React keeps one mounted, and the API they share.    *)
(* The router (routes/index.jsx) takes the user from page to page; three  *)
(* links pass along what the next page starts with.  A call that changes  *)
(* something at the API outlives the page that made it.                   *)
(***************************************************************************)
EXTENDS IssuePage, CredentialsPage, HoldingsPage, DidPages, VerifyPage, AccountPages

CONSTANTS
  Views,      \* the pages the user visits
  MaxInputs,  \* bound: on each page, what the user does up to there, navigation included
  HolderDid,  \* the DID of an account
  NameFilter  \* the filter that a name just registered makes

\* The pages there are; of an account the admin API gives the DID, and a name just
\* registered is one a filter can be made of (AdminUsersPage, onViewProfile).
ASSUME AppAssumption ==
  /\ Views \subseteq {"issue", "credentials", "holdings", "verify", "register"}
                     \union DidViews \union AccountViews
  /\ DOMAIN HolderDid \subseteq Users /\ NewNames \subseteq DOMAIN HolderDid
  /\ HolderDid \in [DOMAIN HolderDid -> Dids]
  /\ NameFilter \in [NewNames -> Filters]
  /\ {none, "done"} \intersect DOMAIN HolderDid = {}

VARIABLE inputs   \* how much of that he has done

server == <<desk, revoked, accountVars>>
vars == <<at, page, calls, server, ledger, inputs>>

Init ==
  /\ at = none /\ page = [phase |-> none] /\ calls = {} /\ inputs = 0
  /\ desk = <<>> /\ revoked = {} /\ ledger = MyStart
  /\ accounts \in {DOMAIN HolderDid, DOMAIN HolderDid \ NewNames} /\ authorized = {}

-----------------------------------------------------------------------------
(* Navigation *)

Effects == Acts \union {"issue", "revoke", "register"}

\* What is left when the mounted page goes.
Left == Abandoned(Effects)

NobodyChosen == [id |-> none, f |-> none]

\* Another page is mounted in place of this one; it has room for the calls it
\* starts with.
Mounts(view) ==
  /\ view \in Views /\ view # at
  /\ Cardinality(Left) + 3 <= MaxCalls
  /\ at' = view
  /\ ledger' = MyStart
  /\ UNCHANGED server

\* The menu mounts a page as it starts without anything passed along.
Visit(view) ==
  /\ Mounts(view)
  /\ CASE view = "issue"       -> IssueMount(Left, none)
       [] view = "credentials" -> CredentialsMount(Left, none)
       [] view \in DidViews    -> DidMount(Left, view)
       [] view = "holdings"    -> HoldingsMount(Left)
       [] view = "verify"      -> VerifyMount(Left)
       [] view = "register"    -> RegisterMount(Left)
       [] OTHER                -> AccountsMount(Left, NobodyChosen)

\* The details of an account lead to the issue page with its DID, and to the
\* credentials page with its name.
FollowIssue ==
  /\ at = "directory" /\ page.detail.id # none /\ ~page.detailLoading
  /\ Mounts("issue") /\ IssueMount(Left, HolderDid[page.detail.id])

FollowCredentials ==
  /\ at = "directory" /\ page.detail.id # none /\ ~page.detailLoading
  /\ Mounts("credentials") /\ CredentialsMount(Left, page.detail.id)

\* A registered account leads to the directory, which filters by its name.
FollowRegistered ==
  /\ at = "register" /\ page.view = "success"
  /\ Mounts("directory")
  /\ AccountsMount(Left, [id |-> page.account, f |-> NameFilter[page.account]])

Navigate ==
  \/ \E view \in Views : Visit(view)
  \/ FollowIssue \/ FollowCredentials \/ FollowRegistered

-----------------------------------------------------------------------------
(* The pages, one at a time, and the API *)

Input ==
  /\ UNCHANGED at
  /\ \/ at = "issue" /\ IssueInput /\ UNCHANGED <<revoked, accountVars, ledger>>
     \/ at = "credentials" /\ CredentialsInput /\ UNCHANGED <<desk, accountVars, ledger>>
     \/ at = "holdings" /\ HoldingsInput /\ UNCHANGED server
     \/ at \in DidViews /\ DidInput /\ UNCHANGED <<server, ledger>>
     \/ at = "verify" /\ VerifyInput /\ UNCHANGED <<server, ledger>>
     \/ at = "register" /\ RegisterInput /\ UNCHANGED <<desk, revoked, ledger>>
     \/ at \in AccountViews /\ AccountsInput /\ UNCHANGED <<desk, revoked, ledger>>

Answer ==
  /\ UNCHANGED at
  /\ \/ at = "issue" /\ IssueAnswers /\ UNCHANGED <<revoked, accountVars, ledger>>
     \/ at = "credentials" /\ CredentialsAnswers /\ UNCHANGED <<desk, accountVars, ledger>>
     \/ at = "holdings" /\ HoldingsAnswers /\ UNCHANGED server
     \/ at \in DidViews /\ DidAnswers /\ UNCHANGED <<server, ledger>>
     \/ at = "verify" /\ VerifyAnswers /\ UNCHANGED <<server, ledger>>
     \/ at = "register" /\ RegisterAnswers /\ UNCHANGED <<desk, revoked, ledger>>
     \/ at \in AccountViews /\ AccountsAnswers /\ UNCHANGED <<desk, revoked, ledger>>

\* The backend brings the holder's credentials onto the chain meanwhile.
Settling ==
  /\ at = "holdings" /\ UNCHANGED <<at, server>>
  /\ \E i \in DOMAIN ledger, f \in Facts : Settle(i, f)

\* The API executes what changes something, whether the page is still there.
Serve ==
  /\ UNCHANGED <<at, ledger>>
  /\ \E c \in calls :
       \/ IssueServe(c) /\ UNCHANGED <<revoked, accountVars>>
       \/ RevokeServe(c) /\ UNCHANGED <<desk, accountVars>>
       \/ ActServe(c) /\ UNCHANGED <<desk, revoked>>
       \/ RegisterServe(c) /\ UNCHANGED <<desk, revoked>>

Next ==
  \/ Navigate /\ inputs < MaxInputs[at] /\ inputs' = inputs + 1
  \/ Input /\ inputs < MaxInputs[at] /\ inputs' = inputs + 1
  \/ Answer /\ UNCHANGED inputs
  \/ Serve /\ UNCHANGED inputs
  \/ Settling /\ UNCHANGED inputs

Spec == Init /\ [][Next]_vars

-----------------------------------------------------------------------------
(* Properties *)

Awaited(kinds) == UNION {Live(k) : k \in kinds}

\* The calls whose answer ends what the mounted page says is under way: an
\* entry for each spinner, and each button, it shows as busy.
Busy ==
  CASE at = "issue" ->
         {<<page.types = "loading", Live("types")>>, <<page.lookup, Live("holder")>>,
          <<page.loading, Live("issue")>>}
    [] at = "credentials" ->
         {<<page.phase = "loading", Live("list")>>,
          <<page.revoking # none, Live("revoke") \union {c \in Live("list") : c.arg.refetch}>>}
    [] at \in DidViews ->
         {<<page.phase = "loading" \/ page.refreshing,
            Awaited(IF at = "mydid" THEN {"resolve", "status"} ELSE {"resolve"})>>}
    [] at = "holdings" ->
         {<<page.phase = "loading", Live("held")>>,
          <<page.checking # none, Awaited({"registry", "sbt"})>>}
    [] at = "verify" -> {<<page.loading, Live("verify")>>}
    [] at = "register" -> {<<page.loading, Live("register")>>}
    [] at \in AccountViews ->
         {<<page.loading, Live("accounts")>>, <<page.detailLoading, Live("detail")>>,
          <<page.acting, Awaited(Acts) \union {c \in Live("accounts") : c.arg.after # none}
                                     \union {c \in Live("detail") : c.arg.last}>>}
    [] OTHER -> {}

\* Code behaviour: the finally and catch blocks of the handlers, and the early
\* returns before them.  What a page shows as under way is awaited: some answer
\* still to come takes the spinner down and opens the button again.
NoSpinnerForEver == \A b \in Busy : b[1] => b[2] # {}
=============================================================================

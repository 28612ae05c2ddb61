---------------------------- MODULE AccountPages ----------------------------
(***************************************************************************)
(* The pages about accounts.  "register" (AdminUsersPage) makes one.  Two *)
(* list them next to the details of one of them: "directory"              *)
(* (AdminUserDirectoryPage), which leads on to the issue and credentials  *)
(* pages, and "admins" (AdminAdminsPage), on which a super admin          *)
(* authorizes, revokes and deletes admins.                                *)
(*                                                                         *)
(* The list is fetched by an effect whenever the page number or the     *)
(* applied filter changes, and every list that arrives sets the page      *)
(* number to its own: two lists that are awaited at a time can take turns *)
(* without end.                                                            *)
(***************************************************************************)
EXTENDS Pages

CONSTANTS
  Filters,  \* search texts, a role filter included; "none" lists everyone
  Listed,   \* the accounts that match a filter, in the order of the list
  NewNames  \* the accounts an admin may try to register

ASSUME AccountAssumption == none \in Filters /\ DOMAIN Listed = Filters

VARIABLES
  accounts,    \* the accounts there are
  authorized   \* those the trusted registry holds as issuers

accountVars == <<accounts, authorized>>

AccountViews == {"directory", "admins"}

\* The places of those that match; a list page holds one account.
Matching(f) == {i \in DOMAIN Listed[f] : Listed[f][i] \in accounts}
OnListPage(f, n) == {i \in Matching(f) : Cardinality({j \in Matching(f) : j <= i}) = n}

\* _issuer_authorization_status: what the registry says of an account, or null
\* ("Unknown") whenever it cannot be asked: no address in the settings, no node.
RegistrySays(a) == IF a \in authorized THEN "authorized" ELSE "not authorized"
IssuerStatus(a) == {RegistrySays(a), "unknown"}

\* `n` and `applied` are what the effect hangs on; `shown` and `of` the page
\* number and number of pages that came with `items`, which answer `asked`.  Of
\* the details, `selected` is the row and `detail` what is shown, if anything.
\* `raced` and `crossed` are histories of ours: a list asked for while another
\* was awaited, or with another filter than the one applied; and details asked
\* for while an earlier request could still overtake them.
NoDetail == [id |-> none, issuer |-> "unknown"]

AccountsBlank ==
  [search |-> none, applied |-> none, n |-> 1,
   items |-> {}, asked |-> none, shown |-> 1, of |-> 0, loading |-> FALSE, error |-> FALSE,
   selected |-> none, detail |-> NoDetail, detailLoading |-> FALSE, detailError |-> FALSE,
   acting |-> FALSE, actionError |-> FALSE, target |-> none,
   raced |-> FALSE, crossed |-> FALSE]

Acts == {"authorize", "unauthorize", "delete"}
Pending(S) == {c \in S : c.kind \in Acts /\ ~c.served}

\* fetchUsers, fetchAdmins and the detail loaders up to their await, on a page
\* p and calls S.  `after` is what the handler that awaits the list does next.
FetchList(p, S, n, f, after) ==
  [p |-> [p EXCEPT !.loading = TRUE, !.error = FALSE,
            !.raced = f # p.applied \/ \E c \in S : c.live /\ c.kind = "accounts"],
   S |-> Sent(S, "accounts", [n |-> n, f |-> f, after |-> after])]

FetchDetail(p, S, id, last) ==
  [p |-> [p EXCEPT !.detailLoading = TRUE, !.detailError = FALSE, !.actionError = FALSE,
            !.crossed = \/ Pending(S) # {} \/ \E c \in S : c.live /\ c.kind = "detail"
                        \/ IF last THEN p.crossed ELSE p.acting],
   S |-> Sent(S, "detail", [key |-> id, last |-> last])]

Take(x) == page' = x.p /\ calls' = x.S

\* Mutant: the effect hangs on the page number alone.
EffectOfPage(p, S) ==
  IF p.n # page.n THEN FetchList(p, S, p.n, p.applied, none) ELSE [p |-> p, S |-> S]

\* The effect, when the handler that ran on `page` has left p and S.
Effect(p, S) ==
  IF <<p.n, p.applied>> # <<page.n, page.applied>>
    THEN FetchList(p, S, p.n, p.applied, none) ELSE [p |-> p, S |-> S]

\* Mounting, with the calls S left of other pages, fetches the first page of
\* everyone.  With a name and an account passed along, the next effect applies
\* the name, and asks once more.
AccountsMount(S, prefill) ==
  LET first == FetchList(AccountsBlank, S, 1, none, none)
      named == [first.p EXCEPT !.search = prefill.f, !.applied = prefill.f,
                               !.selected = prefill.id]
      both == FetchDetail(named, first.S, prefill.id, FALSE)
  IN IF prefill.id = none THEN Take(first)
     ELSE Take(IF prefill.f = none THEN both ELSE FetchList(both.p, both.S, 1, prefill.f, none))

-----------------------------------------------------------------------------
(* What the pages let one do *)

AccType(f) ==
  /\ ~page.loading /\ f # page.search
  /\ page' = [page EXCEPT !.search = f]
  /\ UNCHANGED calls

AccApply ==
  /\ ~page.loading
  /\ CanSend(1)
  /\ Take(Effect([page EXCEPT !.selected = none, !.detail = NoDetail,
                              !.applied = page.search, !.n = 1], calls))

AccTurn(n) ==
  /\ ~page.loading /\ n \in {page.shown - 1, page.shown + 1} \intersect 1..page.of
  /\ CanSend(1)
  /\ Take(Effect([page EXCEPT !.n = n], calls))

\* Rows can be clicked while lists and details are awaited; those of the admins
\* by mouse only, which the dialog that asks about a deletion covers.
AccSelect(id) ==
  /\ page.target = none
  /\ id \in page.items
  /\ CanSend(1)
  /\ Take(FetchDetail([page EXCEPT !.selected = id], calls, id, FALSE))

\* The panel of the admins' page can be closed whenever it is there, that of
\* the directory once it shows somebody.
AccClose ==
  /\ page.detail.id # none \/ (at = "admins" /\ (page.detailLoading \/ page.detailError))
  /\ at = "directory" => ~page.detailLoading /\ ~page.detailError
  /\ page' = [page EXCEPT !.selected = none, !.detail = NoDetail,
                          !.detailError = FALSE, !.actionError = FALSE]
  /\ UNCHANGED calls

\* The actions on an admin are there once the details are.
Manageable == at = "admins" /\ page.detail.id # none /\ ~page.detailLoading /\ ~page.acting

Acting(kind, id) ==
  /\ CanSend(1)
  /\ page' = [page EXCEPT !.acting = TRUE, !.actionError = FALSE]
  /\ calls' = Sent(calls, kind, [key |-> id, n |-> page.n, f |-> page.applied])

\* An admin of whom nothing is known can be authorized, who is perhaps authorized.
AccAuthorize ==
  /\ Manageable /\ page.detail.issuer # "authorized"
  /\ Acting("authorize", page.detail.id)
AccRevoke ==
  /\ Manageable /\ page.detail.issuer = "authorized"
  /\ Acting("unauthorize", page.detail.id)

AccDeleteAsk ==
  /\ Manageable /\ page.target = none
  /\ page' = [page EXCEPT !.target = page.detail.id]
  /\ UNCHANGED calls

AccDeleteCancel ==
  /\ page.target # none /\ ~page.acting
  /\ page' = [page EXCEPT !.target = none]
  /\ UNCHANGED calls

AccDeleteConfirm == page.target # none /\ ~page.acting /\ Acting("delete", page.target)

-----------------------------------------------------------------------------
(* The API, and its answers *)

\* GET /auth/users and /auth/admins.  What a row says of its account is left out;
\* what can be done with an admin hangs on the details alone.
AccountsServe(c) ==
  /\ c \in Live("accounts") /\ ~c.served
  /\ calls' = Served(c,
       [items |-> {Listed[c.arg.f][i] : i \in OnListPage(c.arg.f, c.arg.n)},
        of |-> Cardinality(Matching(c.arg.f))])
  /\ UNCHANGED <<page, accountVars>>

\* The details of one account; those of the directory say nothing about issuers.
DetailServe(c) ==
  /\ c \in Live("detail") /\ ~c.served
  /\ \E status \in IF at = "admins" THEN IssuerStatus(c.arg.key) ELSE {"unknown"} :
       calls' = Served(c, IF c.arg.key \in accounts THEN [id |-> c.arg.key, issuer |-> status]
                          ELSE NoDetail)
  /\ UNCHANGED <<page, accountVars>>

\* The trusted registry does not know which accounts there are; deleting one
\* leaves what it says of it alone.
ActServe(c) ==
  /\ c \in Pending(calls)
  /\ LET id == c.arg.key
         ok == CASE c.kind = "authorize" -> id \notin authorized
                 [] c.kind = "unauthorize" -> id \in authorized
                 [] OTHER -> id \in accounts
     IN /\ authorized' = CASE c.kind = "authorize" -> authorized \union {id}
                           [] c.kind = "unauthorize" -> authorized \ {id}
                           [] OTHER -> authorized
        /\ accounts' = IF c.kind = "delete" THEN accounts \ {id} ELSE accounts
        /\ calls' = IF c.live THEN Served(c, IF ok THEN "ok" ELSE "failed") ELSE calls \ {c}
  /\ UNCHANGED page

\* A list: its page number becomes the page's, which may set the effect off;
\* the handler that awaited it goes on to the details, or is done.
AccountsAnswer(c, outcome) ==
  /\ c \in Live("accounts")
  /\ outcome = "ok" => c.served
  /\ LET got == IF outcome = "ok"
                  THEN [page EXCEPT !.items = c.reply.items, !.asked = c.arg.f, !.of = c.reply.of,
                                    !.shown = c.arg.n, !.n = c.arg.n, !.loading = FALSE]
                  ELSE [page EXCEPT !.items = {}, !.of = 0, !.error = TRUE, !.loading = FALSE]
         next == Effect(IF c.arg.after = "done" THEN [got EXCEPT !.acting = FALSE] ELSE got,
                        calls \ {c})
     IN Take(IF c.arg.after \in {none, "done"} THEN next
             ELSE FetchDetail(next.p, next.S, c.arg.after, TRUE))

\* Mutant: a failure leaves the details of the account before.
DetailAnswerKeepsOld(c, outcome) ==
  /\ c \in Live("detail")
  /\ outcome = "ok" => c.served /\ c.reply # NoDetail
  /\ calls' = calls \ {c}
  /\ page' = [page EXCEPT !.detailLoading = FALSE,
                          !.detail = IF outcome = "ok" THEN c.reply ELSE @,
                          !.detailError = outcome # "ok",
                          !.acting = IF c.arg.last THEN FALSE ELSE @]

\* The details of whichever account it was.
DetailAnswer(c, outcome) ==
  /\ c \in Live("detail")
  /\ outcome = "ok" => c.served /\ c.reply # NoDetail
  /\ calls' = calls \ {c}
  /\ page' = [page EXCEPT !.detailLoading = FALSE,
                          !.detail = IF outcome = "ok" THEN c.reply ELSE NoDetail,
                          !.detailError = IF outcome = "ok" THEN @ ELSE TRUE,
                          !.acting = IF c.arg.last THEN FALSE ELSE @]

\* After an action the list is fetched again, as it stood at the click; then
\* the details, unless the admin is gone.
ActAnswer(c, outcome) ==
  /\ c \in calls /\ c.live /\ c.kind \in Acts
  /\ outcome \in {c.reply, "failed"} \ {none}
  /\ LET gone == [page EXCEPT !.target = none, !.selected = none, !.detail = NoDetail,
                              !.detailError = FALSE, !.actionError = FALSE]
         failed == [page EXCEPT !.acting = FALSE, !.actionError = TRUE,
                                !.target = IF c.kind = "delete" THEN none ELSE @]
     IN Take(IF outcome = "failed" THEN [p |-> failed, S |-> calls \ {c}]
             ELSE IF c.kind = "delete"
               THEN FetchList(gone, calls \ {c}, c.arg.n, c.arg.f, "done")
               ELSE FetchList(page, calls \ {c}, c.arg.n, c.arg.f, c.arg.key))

-----------------------------------------------------------------------------
(* Registering an account *)

RegisterBlank == [view |-> "form", name |-> none, role |-> FALSE, loading |-> FALSE,
                  error |-> none, account |-> none]

RegisterMount(S) == page' = RegisterBlank /\ calls' = S

RegOpen == at = "register" /\ page.view = "form" /\ ~page.loading

RegName(a) ==
  /\ RegOpen /\ a # page.name
  /\ page' = [page EXCEPT !.name = a, !.error = none]
  /\ UNCHANGED calls

RegRole ==
  /\ RegOpen /\ ~page.role
  /\ page' = [page EXCEPT !.role = TRUE, !.error = none]
  /\ UNCHANGED calls

\* Without a role nothing is sent; everything else is left to the API.
RegSubmit ==
  /\ RegOpen /\ page.name # none
  /\ IF ~page.role
       THEN page' = [page EXCEPT !.error = "role"] /\ UNCHANGED calls
       ELSE /\ CanSend(1)
            /\ page' = [page EXCEPT !.loading = TRUE, !.error = none]
            /\ calls' = Sent(calls, "register", [key |-> page.name])

\* "Cancel" and "Register Another User".
RegReset ==
  /\ at = "register" /\ ~page.loading /\ page # RegisterBlank
  /\ page' = RegisterBlank
  /\ UNCHANGED calls

RegisterServe(c) ==
  /\ c \in calls /\ c.kind = "register" /\ ~c.served
  /\ accounts' = accounts \union {c.arg.key}
  /\ calls' = IF ~c.live THEN calls \ {c}
              ELSE Served(c, IF c.arg.key \in accounts THEN "taken" ELSE "ok")
  /\ UNCHANGED <<page, authorized>>

RegisterAnswer(c, outcome) ==
  /\ c \in Live("register")
  /\ outcome \in {c.reply, "failed"} \ {none}
  /\ calls' = calls \ {c}
  /\ page' = IF outcome = "ok"
               THEN [page EXCEPT !.loading = FALSE, !.view = "success", !.account = c.arg.key]
               ELSE [page EXCEPT !.loading = FALSE, !.error = outcome]

RegisterInput ==
  /\ (\E a \in NewNames : RegName(a)) \/ RegRole \/ RegSubmit \/ RegReset
  /\ UNCHANGED accountVars

RegisterAnswers ==
  /\ \E c \in calls, outcome \in {"ok", "taken", "failed"} : RegisterAnswer(c, outcome)
  /\ UNCHANGED accountVars

-----------------------------------------------------------------------------
AccountsInput ==
  /\ \/ \E f \in Filters : AccType(f)
     \/ AccApply
     \/ \E n \in 1..page.of : AccTurn(n)
     \/ \E id \in page.items : AccSelect(id)
     \/ AccClose \/ AccAuthorize \/ AccRevoke
     \/ AccDeleteAsk \/ AccDeleteCancel \/ AccDeleteConfirm
  /\ UNCHANGED accountVars

AccountsAnswers ==
  \/ \E c \in calls : AccountsServe(c) \/ DetailServe(c)
  \/ /\ \E c \in calls, outcome \in {"ok", "failed"} :
          AccountsAnswer(c, outcome) \/ DetailAnswer(c, outcome) \/ ActAnswer(c, outcome)
     /\ UNCHANGED accountVars

-----------------------------------------------------------------------------
(* Properties *)

Quiet(kinds) == \A c \in calls : c.kind \notin kinds

\* Code behaviour: the effect that fetches the list, and fetchUsers and
\* fetchAdmins, by themselves and after an action.  With no list awaited and no
\* error, the list is the page it says it is, of the accounts that match the filter
\* applied; unless it was asked for while another list was awaited, or goes with a
\* filter that an action took along and another has replaced.
ListIsOfItsFilter ==
  (at \in AccountViews /\ ~page.loading /\ ~page.error /\ ~page.raced) =>
     /\ Quiet({"accounts"})
     /\ page.asked = page.applied /\ page.shown = page.n
     /\ \A id \in page.items : \E i \in DOMAIN Listed[page.applied] :
          Listed[page.applied][i] = id

\* Code behaviour: refreshSelected and handleDeleteConfirm.  With nothing
\* awaited, the details are of the row selected, if one is, of an account there
\* is, and say of it what the registry says or "Unknown"; unless an action failed
\* (it may have been done), or the details were asked for while others were
\* awaited or an action was under way.
PanelIsTrue ==
  (/\ at \in AccountViews /\ page.detail.id # none /\ Quiet(Acts \union {"detail"})
   /\ ~page.crossed /\ ~page.actionError /\ ~page.acting) =>
     /\ page.selected \in {none, page.detail.id}
     /\ page.detail.id \in accounts
     /\ page.detail.issuer \in IssuerStatus(page.detail.id)
=============================================================================

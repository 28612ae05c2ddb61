--------------------------- MODULE CredentialsPage ---------------------------
(***************************************************************************)
(* The page on which an admin lists a user's credentials and revokes them *)
(* (AdminCredentialsPage and UserCredentialsPanel).  The dialog that asks *)
(* for a confirmation covers the list but keeps the keyboard from         *)
(* nothing: the bar and the pager behind it can be used while it is open, *)
(* and while the revocation it started is under way.  The dialog that     *)
(* shows a credential's JSON on a phone is left out.                      *)
(***************************************************************************)
EXTENDS Pages

CONSTANTS
  Users,       \* names an admin may look up
  CredsOf,     \* the pages of a user's list: a sequence of sets of credentials
  Irrevocable, \* credentials of a type that cannot be revoked
  Unknown      \* names without an account or a DID: the API answers 404

PagesOf(u) == DOMAIN CredsOf[u]

ASSUME CredentialsAssumption ==
  /\ none \notin Users /\ Unknown \subseteq Users
  /\ DOMAIN CredsOf = Users
  /\ \A u \in Users :
       /\ IsFiniteSet(PagesOf(u)) /\ PagesOf(u) = 1..Cardinality(PagesOf(u))
       /\ \A n \in PagesOf(u) : CredsOf[u][n] # {} /\ none \notin CredsOf[u][n]

VARIABLE revoked   \* the credentials the API holds as revoked

\* The hooks: `user`, `n` and `of` are the name, the page and the number of
\* pages of the list in `items`, a set of [id, active].  `raced` is a history
\* of ours: the list last asked for was asked for while another was awaited.
CredentialsBlank ==
  [phase |-> "idle", username |-> none, user |-> none, items |-> {}, n |-> 1, of |-> 0,
   error |-> FALSE, target |-> none, revoking |-> none, told |-> none, raced |-> FALSE]

\* fetchCredentials up to its await.  `refetch` marks the one that belongs to
\* a revocation, which counts as under way until it answers.
Loading(p) == [p EXCEPT !.phase = "loading", !.error = FALSE, !.raced = Live("list") # {}]
Asking(S, u, n, refetch) == Sent(S, "list", [user |-> u, n |-> n, refetch |-> refetch])

\* Mounting, with the calls S left of other pages; a name passed along by the
\* directory page is looked up at once.
CredentialsMount(S, prefill) ==
  IF prefill = none
    THEN page' = CredentialsBlank /\ calls' = S
    ELSE /\ page' = [CredentialsBlank EXCEPT !.username = prefill, !.phase = "loading"]
         /\ calls' = Asking(S, prefill, 1, FALSE)

-----------------------------------------------------------------------------
(* What the page lets the admin do *)

CredsTypeUsername(u) ==
  /\ page.phase # "loading" /\ page.username # u
  /\ page' = [page EXCEPT !.username = u]
  /\ UNCHANGED <<calls, revoked>>

CredsLookup ==
  /\ page.phase # "loading" /\ page.username # none
  /\ CanSend(1)
  /\ page' = Loading(page)
  /\ calls' = Asking(calls, page.username, 1, FALSE)
  /\ UNCHANGED revoked

CredsTurnPage(n) ==
  /\ page.phase = "loaded" /\ page.items # {}
  /\ n \in {page.n - 1, page.n + 1} \intersect 1..page.of
  /\ CanSend(1)
  /\ page' = Loading(page)
  /\ calls' = Asking(calls, page.user, n, FALSE)
  /\ UNCHANGED revoked

CredsTryAgain ==
  /\ page.phase = "error"
  /\ page' = [page EXCEPT !.phase = "idle", !.error = FALSE]
  /\ UNCHANGED <<calls, revoked>>

\* Which rows, or cards, have a Revoke button, and when it can be pressed.
Revocable(item) == item.active /\ item.id \notin Irrevocable

CredsRevokeRequest(item) ==
  /\ page.phase = "loaded" /\ item \in page.items /\ Revocable(item)
  /\ page.revoking = none
  /\ page' = [page EXCEPT !.target = item.id]
  /\ UNCHANGED <<calls, revoked>>

CredsRevokeCancel ==
  /\ page.target # none /\ page.revoking = none
  /\ page' = [page EXCEPT !.target = none]
  /\ UNCHANGED <<calls, revoked>>

\* The handler's closure keeps the name and the page shown at the click.
CredsRevokeConfirm ==
  /\ page.target # none /\ page.revoking = none
  /\ CanSend(1)
  /\ page' = [page EXCEPT !.revoking = page.target]
  /\ calls' = Sent(calls, "revoke", [id |-> page.target, user |-> page.user, n |-> page.n])
  /\ UNCHANGED revoked

CredsDismiss ==
  /\ page.told # none
  /\ page' = [page EXCEPT !.told = none]
  /\ UNCHANGED <<calls, revoked>>

-----------------------------------------------------------------------------
(* The API, and its answers *)

ListServe(c) ==
  /\ c \in Live("list") /\ ~c.served
  /\ calls' = Served(c, [found |-> c.arg.user \notin Unknown,
       items |-> IF c.arg.n \in PagesOf(c.arg.user)
                   THEN {[id |-> i, active |-> i \notin revoked] :
                           i \in CredsOf[c.arg.user][c.arg.n]}
                   ELSE {},
       of |-> Cardinality(PagesOf(c.arg.user))])
  /\ UNCHANGED <<page, revoked>>

\* A list arrives, 404, or nothing usable; whatever the page asked for since.
ListAnswer(c, outcome) ==
  /\ c \in Live("list")
  /\ outcome # "failed" => c.served /\ (outcome = "ok") = c.reply.found
  /\ calls' = calls \ {c}
  /\ LET p == [page EXCEPT !.revoking = IF c.arg.refetch THEN none ELSE @]
     IN page' = IF outcome = "ok"
                  THEN [p EXCEPT !.phase = "loaded", !.user = c.arg.user, !.n = c.arg.n,
                                 !.items = c.reply.items, !.of = c.reply.of]
                  ELSE [p EXCEPT !.phase = "error", !.error = TRUE, !.items = {}, !.of = 0]
  /\ UNCHANGED revoked

\* POST /credentials/revoke: refused when it is revoked already, or never can be.
RevokeServe(c) ==
  /\ c \in calls /\ c.kind = "revoke" /\ ~c.served
  /\ LET refused == c.arg.id \in revoked \union Irrevocable IN
     /\ revoked' = IF refused THEN revoked ELSE revoked \union {c.arg.id}
     /\ calls' = IF ~c.live THEN calls \ {c}
                 ELSE Served(c, IF refused THEN "failed" ELSE "ok")
  /\ UNCHANGED page

\* Mutant: the list is not loaded again.
RevokeAnswerOnly(c, outcome) ==
  /\ c \in Live("revoke")
  /\ outcome \in {c.reply, "failed"} \ {none}
  /\ page' = [page EXCEPT !.phase = "loaded", !.revoking = none, !.target = none,
                          !.told = IF outcome = "ok" THEN c.arg.id ELSE @]
  /\ calls' = calls \ {c}
  /\ UNCHANGED revoked

\* After a revocation the list of the click is loaded again; after a failure
\* the page goes back to whatever list it holds, and shows no error there.
RevokeAnswer(c, outcome) ==
  /\ c \in Live("revoke")
  /\ outcome \in {c.reply, "failed"} \ {none}
  /\ IF outcome = "ok"
       THEN /\ page' = Loading([page EXCEPT !.told = c.arg.id, !.target = none])
            /\ calls' = Asking(calls \ {c}, c.arg.user, c.arg.n, TRUE)
       ELSE /\ page' = [page EXCEPT !.error = TRUE, !.phase = "loaded", !.revoking = none]
            /\ calls' = calls \ {c}
  /\ UNCHANGED revoked

CredentialsInput ==
  \/ \E u \in Users : CredsTypeUsername(u)
  \/ \E n \in 1..page.of : CredsTurnPage(n)
  \/ \E item \in page.items : CredsRevokeRequest(item)
  \/ CredsLookup \/ CredsTryAgain \/ CredsRevokeCancel \/ CredsRevokeConfirm \/ CredsDismiss

CredentialsAnswers ==
  \E c \in calls :
     \/ ListServe(c)
     \/ \E outcome \in Outcome : ListAnswer(c, outcome) \/ RevokeAnswer(c, outcome)

-----------------------------------------------------------------------------
(* Properties *)

\* The phases in which a list is on display with nothing else awaited.
ListShown == page.phase = "loaded" /\ Live("list") = {}

\* Code behaviour: handleRevokeConfirm, which loads the list again, and the
\* phases of the page.  A list on display shows the credential the banner says
\* was revoked as revoked, unless two lists were awaited at a time; and the page
\* says that a user has no credentials only of one who has none, unless a
\* revocation failed (its error is set, and not shown in this phase).
CredentialsListIsTrue ==
  (at = "credentials" /\ ListShown) =>
     /\ page.raced \/ \A item \in page.items : item.id = page.told => ~item.active
     /\ page.items = {} /\ ~page.error =>
          /\ page.user \notin Unknown
          /\ UNION {CredsOf[page.user][n] : n \in PagesOf(page.user)} = {}
=============================================================================

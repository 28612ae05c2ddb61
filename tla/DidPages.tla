------------------------------ MODULE DidPages ------------------------------
(***************************************************************************)
(* The three pages that show a DID with its status in the registry:       *)
(* "resolve" of the wallet (WalletResolveDidPage), "dids" of the admins   *)
(* (AdminDidsPage) and "mydid" (WalletDidPage).  Each awaits the document *)
(* and then, in the same handler, the status.  The first two show the     *)
(* document, and open the search bar again, while the status is awaited.  *)
(***************************************************************************)
EXTENDS Pages

CONSTANTS
  Known,      \* DIDs one may look up, with what there is to say of them
  MyDid       \* the wallet's own

ASSUME DidPagesAssumption ==
  /\ none \notin DOMAIN Known /\ MyDid \in DOMAIN Known
  /\ Known \in [DOMAIN Known -> {"unknown", "absent", "active", "inactive"}]

DidViews == {"resolve", "dids", "mydid"}

\* `did` is that of the resolved document, `status` the registry's word: of
\* which DID, and active or not.  `raced` is a history of ours: the DID was
\* asked for while the status of another was awaited.
DidBlank == [phase |-> "idle", query |-> none, did |-> none,
             status |-> [of |-> none, is |-> none], missing |-> FALSE,
             refreshing |-> FALSE, raced |-> FALSE]

NoStatus(p) == [p EXCEPT !.status = DidBlank.status, !.missing = FALSE]

\* Mounting, with the calls S left of other pages; My DID asks at once.
DidMount(S, view) ==
  IF view = "mydid"
    THEN /\ page' = [DidBlank EXCEPT !.phase = "loading"]
         /\ calls' = Sent(S, "resolve", [key |-> MyDid])
    ELSE page' = DidBlank /\ calls' = S

-----------------------------------------------------------------------------
(* What the pages let one do *)

DidType(d) ==
  /\ at # "mydid" /\ page.phase # "loading" /\ d # page.query
  /\ page' = [page EXCEPT !.query = d]
  /\ UNCHANGED calls

\* Mutant: the status of the DID before is kept.
DidResolveKeepsStatus ==
  /\ at # "mydid" /\ page.phase # "loading" /\ page.query # none
  /\ CanSend(1)
  /\ page' = [page EXCEPT !.phase = "loading", !.raced = Live("status") # {}]
  /\ calls' = Sent(calls, "resolve", [key |-> page.query])

\* Resolve, and "Try again" on the wallet's page.
DidResolve ==
  /\ at # "mydid" /\ page.phase # "loading" /\ page.query # none
  /\ CanSend(1)
  /\ page' = NoStatus([page EXCEPT !.phase = "loading", !.raced = Live("status") # {}])
  /\ calls' = Sent(calls, "resolve", [key |-> page.query])

\* "Try again" on the admins' page.
DidRetry ==
  /\ at = "dids" /\ page.phase = "error"
  /\ page' = [page EXCEPT !.phase = "idle"]
  /\ UNCHANGED calls

\* My DID: loaded once more, behind what is on display or in place of an error.
DidRefresh ==
  /\ at = "mydid" /\ page.phase # "loading" /\ ~page.refreshing
  /\ CanSend(1)
  /\ page' = IF page.phase = "resolved" THEN [page EXCEPT !.refreshing = TRUE]
             ELSE [page EXCEPT !.phase = "loading"]
  /\ calls' = Sent(calls, "resolve", [key |-> MyDid])

-----------------------------------------------------------------------------
(* Answers *)

\* The document, which shows at once except on My DID, and the request for the
\* status; or an error.
ResolveAnswer(c, outcome) ==
  /\ c \in Live("resolve")
  /\ outcome = "ok" => Known[c.arg.key] # "unknown"
  /\ IF outcome = "ok"
       THEN /\ page' = [page EXCEPT !.did = c.arg.key,
                                    !.phase = IF at = "mydid" THEN @ ELSE "resolved"]
            /\ calls' = Sent(calls \ {c}, "status", c.arg)
       ELSE /\ page' = LET p == [page EXCEPT !.phase = "error", !.did = none, !.refreshing = FALSE]
                       IN IF at = "dids" THEN p ELSE NoStatus(p)
            /\ calls' = calls \ {c}

\* The status: a record, 404, or another failure; to the wallet's pages a 503
\* means not registered as well.
StatusAnswer(c, outcome) ==
  /\ c \in Live("status")
  /\ outcome = "ok" => Known[c.arg.key] \in {"active", "inactive"}
  /\ outcome = "missing" => Known[c.arg.key] = "absent" \/ at # "dids"
  /\ calls' = calls \ {c}
  /\ page' = LET p == IF at = "mydid" THEN [page EXCEPT !.phase = "resolved", !.refreshing = FALSE]
                      ELSE page
             IN IF outcome = "ok"
                  THEN [p EXCEPT !.status = [of |-> c.arg.key, is |-> Known[c.arg.key]],
                                 !.missing = FALSE]
                  ELSE [NoStatus(p) EXCEPT !.missing = (outcome = "missing")]

DidInput ==
  \/ \E d \in DOMAIN Known : DidType(d)
  \/ DidResolve \/ DidRetry \/ DidRefresh

DidAnswers ==
  \E c \in calls, outcome \in Outcome : ResolveAnswer(c, outcome) \/ StatusAnswer(c, outcome)

-----------------------------------------------------------------------------
(* What is read on the screen *)

\* The badge "On-chain Status" in the three layouts.
WalletBadge(p) ==
  IF p.missing THEN "Not anchored" ELSE IF p.status.is = none THEN "Unavailable"
  ELSE IF p.status.is = "active" THEN "Active" ELSE "Inactive"
AdminBadge(p) ==
  IF p.missing THEN "Not anchored" ELSE IF p.status.is = none THEN "Loading"
  ELSE IF p.status.is = "inactive" THEN "Inactive" ELSE "Active"
AdminMobileBadge(p) ==
  IF p.missing THEN "Not anchored" ELSE IF p.status.is = "inactive" THEN "Inactive" ELSE "Active"

Badges(p) == IF at = "dids" THEN {AdminBadge(p), AdminMobileBadge(p)} ELSE {WalletBadge(p)}

\* The badge next to the DID and the alert above it; the admins' page always
\* says Healthy.
Health(p) ==
  IF at # "dids" /\ p.status.is = "inactive" THEN "inactive" ELSE "healthy"

-----------------------------------------------------------------------------
(* Properties *)

\* Code behaviour: handleResolve, loadDid and the badges.  A badge that says
\* Active or Inactive is about a DID of which the registry said so, and where
\* there is a health it agrees; unless the DID was asked for while the status
\* of another was awaited, or nothing is known on the admins' narrow layout,
\* which then says Active.
BadgeIsTheRegistrysWord ==
  (at \in DidViews /\ page.phase = "resolved" /\ ~page.raced) =>
     /\ "Active" \in Badges(page) =>
          Known[page.did] = "active" \/ (at = "dids" /\ page.status.is = none)
     /\ "Inactive" \in Badges(page) =>
          Known[page.did] = "inactive" /\ (at = "dids" \/ Health(page) = "inactive")
=============================================================================

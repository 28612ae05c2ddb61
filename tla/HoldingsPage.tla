----------------------------- MODULE HoldingsPage -----------------------------
(***************************************************************************)
(* The page on which a holder sees the own credentials and, for one at a  *)
(* time, asks the chain (WalletCredentialsPage).  The two pills of a row  *)
(* are made of two sources: the row the list brought, which the consumer  *)
(* of cred.created fills in the background, and what checks have read.    *)
(*                                                                         *)
(* The list of the API does not carry the hashes of a revocation, and so  *)
(* the pills of a revoked credential go by the issuance.  Which row is    *)
(* unfolded to its JSON, and the message a check leaves, are left out.    *)
(***************************************************************************)
EXTENDS Pages, Sequences

CONSTANTS
  MyPages,   \* the pages of the holder's list: a sequence of sets of ids
  MyStart    \* what is known of each when the page is opened

\* What is so for a credential, on the chain and in its row: "revoked" is the
\* row's status, "withdrawn" the revocation on the registry.
Facts == {"registered", "tx", "minted", "token", "revoked", "withdrawn"}

\* What was done first: a row shows what is on the chain, and may miss it, and a
\* revocation is in the row before the consumer takes it to the registry.  Without
\* REQUIRE_CREDENTIAL_ON_CHAIN there is a certificate only.
Before(f) ==
  CASE f = "tx" -> {"registered"}
    [] f = "token" -> {"minted"}
    [] f = "withdrawn" -> {"registered", "revoked"}
    [] OTHER -> {}

ASSUME HoldingsAssumption ==
  /\ MyPages \in Seq(SUBSET DOMAIN MyStart)
  /\ MyStart \in [DOMAIN MyStart -> SUBSET Facts]
  /\ \A i \in DOMAIN MyStart : \A f \in MyStart[i] : Before(f) \subseteq MyStart[i]
  /\ none \notin DOMAIN MyStart

\* The facts, as the API and the chain hold them while the page is open; no
\* other page asks for them.
VARIABLE ledger

\* `info` is what the last check of each found.  Two histories of ours: `read` is
\* what the chain has told the finished checks, and `unread` that it did not tell
\* a later one again.
HoldingsBlank ==
  [phase |-> "loading", items |-> {}, n |-> 1, of |-> 0, checking |-> none,
   info |-> [i \in DOMAIN MyStart |-> {}], read |-> [i \in DOMAIN MyStart |-> {}],
   unread |-> FALSE]

HoldingsMount(S) ==
  page' = HoldingsBlank /\ calls' = Sent(S, "held", [n |-> 1])

-----------------------------------------------------------------------------
(* What the page lets the holder do *)

Fetching(n) ==
  /\ CanSend(1)
  /\ page' = [page EXCEPT !.phase = "loading"]
  /\ calls' = Sent(calls, "held", [n |-> n])
  /\ UNCHANGED ledger

HoldRefresh == page.phase # "loading" /\ Fetching(page.n)
HoldTryAgain == page.phase = "error" /\ Fetching(1)

HoldTurnPage(n) ==
  /\ page.phase = "loaded" /\ page.items # {}
  /\ n \in {page.n - 1, page.n + 1} \intersect 1..page.of
  /\ Fetching(n)

\* One check at a time; it goes on with the row as it was at the click.
HoldCheck(item) ==
  /\ page.phase = "loaded" /\ item \in page.items
  /\ page.checking = none
  /\ CanSend(1)
  /\ page' = [page EXCEPT !.checking = item.id]
  /\ calls' = Sent(calls, "registry", [item |-> item])
  /\ UNCHANGED ledger

-----------------------------------------------------------------------------
(* The chain, the API, and its answers *)

\* The consumer goes on.
Settle(i, f) ==
  /\ f \notin ledger[i] /\ Before(f) \subseteq ledger[i]
  /\ ledger' = [ledger EXCEPT ![i] = @ \union {f}]
  /\ UNCHANGED <<page, calls>>

HoldServe(c) ==
  /\ c \in Live("held") /\ ~c.served
  /\ calls' = Served(c, {[id |-> i, row |-> ledger[i] \intersect {"tx", "token", "revoked"}] :
                           i \in IF c.arg.n \in DOMAIN MyPages THEN MyPages[c.arg.n] ELSE {}})
  /\ UNCHANGED <<page, ledger>>

\* The list; 404, which an account without a DID gets; or nothing usable.
HoldAnswer(c, outcome) ==
  /\ c \in Live("held")
  /\ outcome = "ok" => c.served
  /\ calls' = calls \ {c}
  /\ page' = CASE outcome = "ok" ->
                   [page EXCEPT !.phase = "loaded", !.n = c.arg.n, !.items = c.reply,
                                !.of = Len(MyPages)]
               [] outcome = "missing" ->
                   [page EXCEPT !.phase = "loaded", !.items = {}, !.of = 0]
               [] OTHER -> [page EXCEPT !.phase = "error", !.items = {}, !.of = 0]
  /\ UNCHANGED ledger

\* What the chain says about `fact` to a check, and what the check makes of that
\* with the row, which has `local`.  404 and 503 mean that there is nothing, and
\* also that the node is out of reach.
Answered(outcome, fact) == IF outcome = "ok" THEN {fact} ELSE {}
Finding(outcome, fact, item, local) ==
  IF outcome = "ok" \/ local \in item.row THEN {fact} ELSE {}

\* The registry has answered, and the certificate is asked for.
RegistryAnswer(c, outcome) ==
  /\ c \in Live("registry")
  /\ outcome = "ok" => "registered" \in ledger[c.arg.item.id]
  /\ IF outcome = "failed"
       THEN /\ page' = [page EXCEPT !.checking = none]
            /\ calls' = calls \ {c}
       ELSE /\ UNCHANGED page
            /\ calls' = Sent(calls \ {c}, "sbt",
                 [item |-> c.arg.item,
                  seen |-> Answered(outcome, "registered"),
                  found |-> Finding(outcome, "registered", c.arg.item, "tx")])
  /\ UNCHANGED ledger

\* What a finished check leaves: what it found, and the histories.
Checked(p, i, seen, found) ==
  [p EXCEPT !.info[i] = found, !.read[i] = @ \union seen,
            !.unread = @ \/ ~(p.read[i] \subseteq seen)]

\* Mutant: what was found of the others is dropped.
SbtAnswerForOne(c, outcome) ==
  /\ c \in Live("sbt")
  /\ outcome = "ok" => "minted" \in ledger[c.arg.item.id]
  /\ calls' = calls \ {c}
  /\ page' = LET p == [page EXCEPT !.checking = none] IN
             IF outcome = "failed" THEN p
             ELSE Checked([p EXCEPT !.info = HoldingsBlank.info], c.arg.item.id,
                    c.arg.seen \union Answered(outcome, "minted"),
                    c.arg.found \union Finding(outcome, "minted", c.arg.item, "token"))
  /\ UNCHANGED ledger

\* The certificate has answered; if it fails, what the registry said is dropped.
SbtAnswer(c, outcome) ==
  /\ c \in Live("sbt")
  /\ outcome = "ok" => "minted" \in ledger[c.arg.item.id]
  /\ calls' = calls \ {c}
  /\ page' = LET p == [page EXCEPT !.checking = none] IN
             IF outcome = "failed" THEN p
             ELSE Checked(p, c.arg.item.id,
                    c.arg.seen \union Answered(outcome, "minted"),
                    c.arg.found \union Finding(outcome, "minted", c.arg.item, "token"))
  /\ UNCHANGED ledger

HoldingsInput ==
  \/ HoldRefresh \/ HoldTryAgain
  \/ \E n \in 1..page.of : HoldTurnPage(n)
  \/ \E item \in page.items : HoldCheck(item)

HoldingsAnswers ==
  \E c \in calls :
     \/ HoldServe(c)
     \/ \E outcome \in Outcome :
          HoldAnswer(c, outcome) \/ RegistryAnswer(c, outcome) \/ SbtAnswer(c, outcome)

-----------------------------------------------------------------------------
(* What is read on the screen *)

\* deriveLocalChainStatus: the labels of the two pills.
Pills(p, item) ==
  LET hasTx == "tx" \in item.row \/ "registered" \in p.info[item.id]
      hasSbt == "token" \in item.row \/ "minted" \in p.info[item.id]
  IN IF "revoked" \in item.row
       THEN [registry |-> IF hasTx THEN "Revoked" ELSE "Local only",
             sbt |-> IF hasSbt THEN "Was minted" ELSE "None"]
       ELSE [registry |-> IF hasTx THEN "Anchored" ELSE "Pending",
             sbt |-> IF hasSbt THEN "Minted" ELSE "Pending"]

\* What the pills of a row claim of the chain.
Claimed(p, item) ==
  (IF Pills(p, item).registry \in {"Anchored", "Revoked"} THEN {"registered"} ELSE {})
  \union (IF Pills(p, item).registry = "Revoked" THEN {"withdrawn"} ELSE {})
  \union (IF Pills(p, item).sbt \in {"Minted", "Was minted"} THEN {"minted"} ELSE {})

-----------------------------------------------------------------------------
(* Properties *)

\* Code behaviour: handleCheckChain, which merges what it found, and
\* deriveLocalChainStatus.  The pills of every row on display claim only what is
\* on the chain, and all of what the chain has told a finished check about that
\* credential, whatever lists and checks of others came between or crossed it;
\* unless a later check did not reach the node, which may take back what the
\* earlier one found; and except that "Registry: Revoked" may come before the registry
\* is told: behind it are the revocation in the table and the registration on the
\* chain, while chainStatus.js calls that status confirmed on-chain.
PillsAreTrue ==
  at = "holdings" => \A item \in page.items :
     /\ Claimed(page, item) \subseteq ledger[item.id] \union {"withdrawn"}
     /\ "withdrawn" \in Claimed(page, item) => {"registered", "revoked"} \subseteq ledger[item.id]
     /\ page.unread \/ page.read[item.id] \subseteq Claimed(page, item)
=============================================================================

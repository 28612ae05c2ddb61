----------------------------- MODULE VerifyPage -----------------------------
(***************************************************************************)
(* The verifier's page (VerifierPage): a credential is pasted, or dropped *)
(* as a file that a FileReader reads in a callback of its own, and sent   *)
(* to POST /credentials/verify.  Leaving the verdict does not call off a  *)
(* verification that is under way, and the drop zone is never closed.     *)
(***************************************************************************)
EXTENDS Pages

CONSTANTS
  Credentials,  \* texts that are a JSON object, hence can be verified
  CheckKeys,    \* the checks of the API that are told apart
  MaxReads      \* bound: files being read at a time

ASSUME VerifyAssumption ==
  /\ {none, "bad"} \cap Credentials = {}
  /\ "signature" \in CheckKeys

\* "bad" is a text that does not parse.
Texts == Credentials \union {"bad"}

\* verify_credential (app/src/credential/verification.py): the checks, and
\* whether anything is complained of.  A failed check always is, and without a
\* complaint the signature has been checked.
CheckResults == [CheckKeys -> {"passed", "failed", "skipped"}]
Verdicts ==
  {v \in [checks : CheckResults, errors : BOOLEAN] :
     ~v.errors => /\ v.checks["signature"] = "passed"
                  /\ \A k \in CheckKeys : v.checks[k] # "failed"}
Valid(v) == ~v.errors /\ \A k \in CheckKeys : v.checks[k] # "failed"
NoVerdict == [checks |-> [k \in CheckKeys |-> "skipped"], errors |-> TRUE]

\* `of` is the credential the verdict was given for; `raced`, a history of ours:
\* the form was used while a file was being read.
VerifyBlank == [phase |-> "idle", text |-> none, credential |-> none,
                of |-> none, verdict |-> NoVerdict,
                parse |-> none, api |-> FALSE, loading |-> FALSE, raced |-> FALSE]

VerifyMount(S) == page' = VerifyBlank /\ calls' = S

\* A request by a user of this page; a file is a call like any other, its
\* answer the callback of the reader.
Verifying(p, credential) ==
  /\ CanSend(1)
  /\ page' = [p EXCEPT !.loading = TRUE, !.api = FALSE]
  /\ calls' = Sent(calls, "verify", [key |-> credential])

\* Mutant: typing leaves the error of the text before.
VerifyEditKeepsError(text) ==
  /\ page.phase = "idle" /\ text # page.text
  /\ page' = [page EXCEPT !.text = text, !.api = FALSE]
  /\ UNCHANGED calls

\* Typed, or pasted: the Paste button works during a verification as well.
VerifyEdit(text) ==
  /\ page.phase = "idle" /\ text # page.text
  /\ page' = [page EXCEPT !.text = text, !.parse = none, !.api = FALSE]
  /\ UNCHANGED calls

\* A file is dropped, during a verification too; one over 5 MB is refused.
VerifyDrop(file) ==
  /\ page.phase = "idle"
  /\ IF file = "large"
       THEN page' = [page EXCEPT !.parse = "large", !.api = FALSE] /\ UNCHANGED calls
       ELSE /\ Cardinality(Live("read")) < MaxReads
            /\ page' = [page EXCEPT !.parse = none, !.api = FALSE,
                                    !.raced = Live("read") # {}]
            /\ calls' = Sent(calls, "read", [key |-> file])

\* The button: what does not parse is not sent.
VerifySubmit ==
  /\ page.phase = "idle" /\ ~page.loading /\ page.text # none
  /\ IF page.text = "bad"
       THEN /\ page' = [page EXCEPT !.parse = "invalid", !.api = FALSE,
                                    !.raced = Live("read") # {}]
            /\ UNCHANGED calls
       ELSE Verifying([page EXCEPT !.parse = none], page.text)

VerifyAgain ==
  /\ page.phase = "result" /\ ~page.loading /\ page.credential # none
  /\ Verifying(page, page.credential)

\* "Scan another" and "Try again".
VerifyReset ==
  /\ page.phase = "result"
  /\ page' = [VerifyBlank EXCEPT !.loading = page.loading, !.raced = page.raced]
  /\ UNCHANGED calls

-----------------------------------------------------------------------------
(* Answers *)

\* Mutant: a failure leaves the spinner.
VerifyAnswerNoFinally(c, outcome, verdict) ==
  /\ c \in Live("verify")
  /\ calls' = calls \ {c}
  /\ page' = IF outcome = "ok"
               THEN [page EXCEPT !.phase = "result", !.credential = c.arg.key, !.loading = FALSE,
                                 !.of = c.arg.key, !.verdict = verdict]
               ELSE [page EXCEPT !.phase = "idle", !.api = TRUE]

VerifyAnswer(c, outcome, verdict) ==
  /\ c \in Live("verify")
  /\ calls' = calls \ {c}
  /\ page' = IF outcome = "ok"
               THEN [page EXCEPT !.phase = "result", !.credential = c.arg.key, !.loading = FALSE,
                                 !.of = c.arg.key, !.verdict = verdict]
               ELSE [page EXCEPT !.phase = "idle", !.api = TRUE, !.loading = FALSE]

\* A file has been read: its text replaces the one there, and nothing takes
\* back what an earlier reader found wrong.
ReadAnswer(c, outcome) ==
  /\ c \in Live("read")
  /\ calls' = calls \ {c}
  /\ page' = IF outcome = "ok"
               THEN [page EXCEPT !.text = c.arg.key,
                                 !.parse = IF c.arg.key = "bad" THEN "invalid" ELSE @]
               ELSE [page EXCEPT !.parse = "unread"]

VerifyInput ==
  \/ \E text \in Texts \union {none} : VerifyEdit(text)
  \/ \E file \in Texts \union {"large"} : VerifyDrop(file)
  \/ VerifySubmit \/ VerifyAgain \/ VerifyReset

VerifyAnswers ==
  \E c \in calls :
     \/ \E verdict \in Verdicts : VerifyAnswer(c, "ok", verdict)
     \/ VerifyAnswer(c, "failed", NoVerdict)
     \/ \E outcome \in {"ok", "failed"} : ReadAnswer(c, outcome)

-----------------------------------------------------------------------------
(* What is read on the screen *)

\* The summary that stands for the checks on a narrow screen, line by line:
\* is it marked as passed.
Passed(v, k) == v.checks[k] = "passed"
NotFailed(v, k) == k \in CheckKeys => v.checks[k] # "failed"

Summary(v) ==
  [issuer |-> /\ Passed(v, "signature")
              /\ NotFailed(v, "did_active") /\ NotFailed(v, "issuer_trusted"),
   crypto |-> Passed(v, "signature"),
   status |-> NotFailed(v, "not_revoked") /\ NotFailed(v, "issued_on_chain") /\ Valid(v)]

-----------------------------------------------------------------------------
(* Properties *)

\* Code behaviour: runVerification, which takes the credential and the result
\* from one closure, and the handlers that set parseError.  A verdict stands
\* under the credential it was given for, however many resets, files and
\* verifications crossed it, and when it is Valid no line of the summary says
\* otherwise; the form says a text is invalid only of the text it holds, unless
\* a file was dropped, or the earlier text submitted, while another file was
\* being read.
VerifierSaysWhatHolds ==
  at = "verify" =>
     /\ page.phase = "result" =>
          /\ page.of = page.credential /\ page.credential \in Credentials
          /\ Valid(page.verdict) =>
               \A line \in DOMAIN Summary(page.verdict) : Summary(page.verdict)[line]
     /\ (page.phase = "idle" /\ page.parse = "invalid" /\ ~page.raced) => page.text = "bad"
=============================================================================

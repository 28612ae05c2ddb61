------------------------------ MODULE IssuePage ------------------------------
(***************************************************************************)
(* The page on which an admin issues a credential (AdminIssuePage and the *)
(* form it renders).  The holder's account is looked up from the DID when *)
(* the input loses the focus, by a call of its own, and the form is not   *)
(* locked meanwhile.                                                       *)
(***************************************************************************)
EXTENDS Pages, IssueTemplate

CONSTANTS
  Dids,       \* DIDs an admin may type
  Role,       \* the account role linked to a DID, "none" when there is none
  Templates,  \* the credential types: a template for each type id
  FirstType   \* the one the API lists first

ASSUME IssueAssumption ==
  /\ FirstType \in DOMAIN Templates /\ none \notin DOMAIN Templates
  /\ \A type \in DOMAIN Templates : WellFormed(Templates[type])
  /\ Role \in [Dids -> {"student", "teacher", "user", none}]
  /\ none \notin Dids

VARIABLE desk   \* what the API was asked to issue: [form, outcome, subject]

\* `who` is the DID whose account is shown as the holder: username and role.
Form(type) ==
  [did |-> none, who |-> none, type |-> type,
   values |-> IF type = none THEN <<>> ELSE DefaultValues(Templates[type]),
   files |-> IF type = none THEN <<>> ELSE [k \in FileKeys(Templates[type]) |-> "none"],
   attachment |-> "none"]

RoleShown(form) == IF form.who = none THEN none ELSE Role[form.who]
TemplateOf(form) == Templates[form.type]

IssueBlank == [view |-> "form", types |-> "loading", form |-> Form(none),
               lookup |-> FALSE, loading |-> FALSE]

\* Mounting, with the calls S left of other pages, loads the types, and looks
\* the holder up when the directory page has passed a DID along.
IssueMount(S, prefill) ==
  /\ page' = [IssueBlank EXCEPT !.form.did = prefill, !.lookup = prefill # none]
  /\ calls' = LET T == Sent(S, "types", [key |-> none])
              IN IF prefill = none THEN T ELSE Sent(T, "holder", [key |-> prefill])

-----------------------------------------------------------------------------
(* What the form lets the admin do *)

FormOpen == page.view = "form" /\ ~page.loading
Edited(form) == page' = [page EXCEPT !.form = form] /\ UNCHANGED <<calls, desk>>

\* Typing a DID leaves the holder of the earlier one on display; only
\* emptying the input clears it.
EditDid(d) ==
  /\ FormOpen /\ d # page.form.did
  /\ Edited([page.form EXCEPT !.did = d, !.who = IF d = none THEN none ELSE @])

EditField(k, v) ==
  /\ FormOpen /\ page.form.type # none
  /\ \E f \in VisibleFields(TemplateOf(page.form), page.form.values, RoleShown(page.form)) :
       f.key = k /\ f \in TypedFields(TemplateOf(page.form)) /\ v \in f.options
  /\ page.form.values[k] # v
  /\ Edited([page.form EXCEPT !.values[k] = v])

\* Choosing another type starts its fields over and drops the files.
ChooseType(type) ==
  /\ FormOpen /\ page.types = "listed"
  /\ type # page.form.type
  /\ Edited([Form(type) EXCEPT !.did = page.form.did, !.who = page.form.who])

\* The attachment can be taken away while the credential is being issued.
ChooseAttachment(f) ==
  /\ page.view = "form" /\ (page.loading => f = "none")
  /\ f # page.form.attachment /\ Edited([page.form EXCEPT !.attachment = f])

ChooseFile(k, f) ==
  /\ FormOpen /\ page.form.type # none
  /\ \E g \in VisibleFields(TemplateOf(page.form), page.form.values, RoleShown(page.form)) :
       g.key = k /\ g.type = "file"
  /\ f # page.form.files[k]
  /\ Edited([page.form EXCEPT !.files[k] = f])

\* The input loses the focus: look its DID up.
BlurDid ==
  /\ FormOpen
  /\ IF page.form.did = none
       THEN page' = [page EXCEPT !.form.who = none] /\ UNCHANGED calls
       ELSE /\ CanSend(1)
            /\ page' = [page EXCEPT !.lookup = TRUE]
            /\ calls' = Sent(calls, "holder", [key |-> page.form.did])
  /\ UNCHANGED desk

\* The form with the file that is found for it.
WithFile(form) ==
  [form EXCEPT !.attachment = Attachment(TemplateOf(form), form, RoleShown(form))]

\* What handleSubmit finds wrong before it sends anything.
Mistakes(form) ==
  IF form.type = none THEN {"type"}
  ELSE FormErrors(TemplateOf(form), form, RoleShown(form))
       \union (IF form.did = none THEN {"did"} ELSE {})
       \union (IF WithFile(form).attachment = "bad" THEN {"file"} ELSE {})

\* Submitting sends the form as it was rendered; without a holder on display
\* it looks him up first, and until that answers the form stays open.  The file
\* is settled before the holder is.
Submit ==
  /\ FormOpen /\ page.types # "loading"
  /\ Mistakes(page.form) = {}
  /\ CanSend(1)
  /\ IF page.form.who = none
       THEN UNCHANGED page /\ calls' = Sent(calls, "submit", WithFile(page.form))
       ELSE /\ page' = [page EXCEPT !.loading = TRUE]
            /\ calls' = Sent(calls, "issue", WithFile(page.form))
  /\ UNCHANGED desk

IssueAnother ==
  /\ page.view = "success"
  /\ page' = [page EXCEPT !.view = "form",
                          !.form = Form(IF page.types = "listed" THEN FirstType ELSE none)]
  /\ UNCHANGED <<calls, desk>>

-----------------------------------------------------------------------------
(* Answers *)

\* The types arrive; a form whose type is not listed starts over with the
\* first, keeping the holder, or empty when there is none.
TypesAnswer(c, answer) ==
  /\ c \in Live("types")
  /\ calls' = calls \ {c}
  /\ page' = [page EXCEPT !.types = answer,
       !.form = IF answer = "failed" \/ page.form.type # none THEN @
                ELSE IF answer = "empty" THEN Form(none)
                ELSE [Form(FirstType) EXCEPT !.did = page.form.did, !.who = page.form.who]]
  /\ UNCHANGED desk

\* A lookup answers: whatever DID the input holds now, its holder is shown.
HolderAnswer(c, outcome) ==
  /\ c \in Live("holder")
  /\ outcome = "ok" => Role[c.arg.key] # none
  /\ calls' = calls \ {c}
  /\ page' = [page EXCEPT !.lookup = FALSE,
                          !.form.who = IF outcome = "ok" THEN c.arg.key ELSE none]
  /\ UNCHANGED desk

\* The lookup of a submission answers, and the form it was clicked on goes out.
SubmitAnswer(c, outcome) ==
  /\ c \in Live("submit")
  /\ outcome = "ok" => Role[c.arg.did] # none
  /\ IF outcome = "ok"
       THEN /\ page' = [page EXCEPT !.loading = TRUE, !.form.who = c.arg.did]
            /\ calls' = Sent(calls \ {c}, "issue", [c.arg EXCEPT !.who = c.arg.did])
       ELSE UNCHANGED page /\ calls' = calls \ {c}
  /\ UNCHANGED desk

\* credential_data as it is posted: the fields, and the name of the holder on
\* display (here, his DID) over a field of that key.
Posted(form) ==
  LET data == Payload(TemplateOf(form), form, RoleShown(form))
      named == form.who # none
  IN [k \in DOMAIN data \union (IF named THEN {"username"} ELSE {}) |->
        IF named /\ k = "username" THEN Text(form.who) ELSE data[k]]

\* What the credential says besides the fields: whose it is, and the document.
ApiKeys == {"id", "username", "attachedDocument"}
OwnKeys(form) == IF form.attachment = "none" THEN ApiKeys \ {"attachedDocument"} ELSE ApiKeys
Own(form, holder, k) ==
  IF k = "id" THEN form.did ELSE IF k = "username" THEN holder ELSE form.attachment

\* The API's own keys come over those of the fields.
CredentialSubject(form, cleaned) ==
  [k \in DOMAIN cleaned \union OwnKeys(form) |->
     IF k \in OwnKeys(form) THEN Text(Own(form, form.did, k)) ELSE cleaned[k]]

\* The API issues the credential, or refuses what does not fit the template or
\* names another role; holder and role are those of the account it finds itself.
IssueServe(c) ==
  /\ c \in calls /\ c.kind = "issue" /\ ~c.served
  /\ LET form == c.arg
         role == Role[form.did]
         cleaned == Subject(TemplateOf(form), Posted(form), role)
         outcome == IF role = none THEN "missing"
                    ELSE IF \/ ApiErrors(TemplateOf(form), Posted(form), role) # {}
                            \/ SpoofsRole(cleaned, role) THEN "refused" ELSE "issued"
     IN /\ desk' = Append(desk, [form |-> form, outcome |-> outcome,
             subject |-> IF outcome = "issued" THEN CredentialSubject(form, cleaned) ELSE <<>>])
        /\ calls' = IF c.live THEN Served(c, outcome) ELSE calls \ {c}
  /\ UNCHANGED page

\* The answer; a call can also fail before the server has it, or after.
IssueAnswer(c, outcome) ==
  /\ c \in Live("issue")
  /\ outcome \in {c.reply, "failed"} \ {none}
  /\ calls' = calls \ {c}
  /\ page' = [page EXCEPT !.loading = FALSE,
                          !.view = IF outcome = "issued" THEN "success" ELSE @]
  /\ UNCHANGED desk

IssueInput ==
  \/ \E d \in Dids \union {none} : EditDid(d)
  \/ page.form.type # none /\
     \E f \in TypedFields(TemplateOf(page.form)) :
       \E v \in f.options : EditField(f.key, v)
  \/ \E type \in DOMAIN Templates : ChooseType(type)
  \/ \E f \in {"none", "good", "bad"} : ChooseAttachment(f)
  \/ page.form.type # none
     /\ \E k \in DOMAIN page.form.files, f \in {"none", "good", "bad"} : ChooseFile(k, f)
  \/ BlurDid \/ Submit \/ IssueAnother

IssueAnswers ==
  \E c \in calls :
     \/ \E answer \in {"listed", "empty", "failed"} : TypesAnswer(c, answer)
     \/ \E outcome \in Outcome : HolderAnswer(c, outcome) \/ SubmitAnswer(c, outcome)
     \/ \E outcome \in {"issued", "refused", "missing", "failed"} : IssueAnswer(c, outcome)

-----------------------------------------------------------------------------
(* Properties *)

Fresh(form) == form.who = form.did

SeenFields(form) == VisibleFields(TemplateOf(form), form.values, RoleShown(form))
HeldValue(form, k) == FormValues(TemplateOf(form), form.values, RoleShown(form))[k]

\* A template that has a key of the API's own for a field, or for what one hangs on.
TakesOwnKey(form) ==
  \E f \in FieldsOf(TemplateOf(form)) :
     f.key \in ApiKeys \/ \E w \in f.when : w.field \in ApiKeys

\* A shown field that hangs on a hidden one, for which the page goes by a value it
\* does not send, or on a number, which is no text any more once it is sent.
HangsOnUnsent(form) ==
  \E f \in SeenFields(form) \intersect TypedFields(TemplateOf(form)) : \E w \in f.when :
     \A g \in SeenFields(form) : g.key = w.field => g.type = "number"

\* A derived field that is hidden: the page sends nothing for it, and the API
\* goes by the account all the same.
HidesDerived(form, required) ==
  \E f \in FieldsOf(TemplateOf(form)) \ SeenFields(form) :
     f.type = "derived" /\ (required => f.required)

\* A required field that only the holder's role brings out, and that is empty:
\* a form submitted without a holder on display is checked before he is known.
RevealedByHolder(form) ==
  \E f \in TypedFields(TemplateOf(form)) \intersect SeenFields(form) :
     /\ f \notin VisibleFields(TemplateOf(form), form.values, none)
     /\ f.required /\ form.values[f.key].word = ""

\* A required field that is hidden as long as there are blanks around a text, or
\* the university is blank, and that hangs on what is sent for it.
RevealedBySending(form) ==
  \E f \in FieldsOf(TemplateOf(form)) \ SeenFields(form) : \E w \in f.when :
     /\ f.required /\ f.type # "derived"
     /\ \E g \in SeenFields(form) \intersect TypedFields(TemplateOf(form)) :
          /\ g.key = w.field
          /\ Converted(g, HeldValue(form, g.key)) = Text(w.equals)
          /\ HeldValue(form, g.key) # Text(w.equals)

\* A typed field called role that does not say the role of the holder.
TypesOtherRole(form) ==
  \E f \in TypedFields(TemplateOf(form)) \intersect SeenFields(form) :
     /\ f.key = "role" /\ form.values["role"].word # ""
     /\ Lower(form.values["role"].word) # RoleShown(form)

\* What the admin has before him when he issues the credential, in words.
Shown(form) ==
  LET filled == {f \in SeenFields(form) :
                   f.type # "file" /\ Converted(f, HeldValue(form, f.key)).word # ""}
      keys == {f.key : f \in filled}
  IN [k \in keys \union OwnKeys(form) |->
        IF k \in keys THEN Converted(FieldOf(TemplateOf(form), k), HeldValue(form, k)).word
        ELSE Own(form, form.who, k)]

InWords(subject) == [k \in DOMAIN subject |-> subject[k].word]

\* Code behaviour: buildIssuePayload, the API's validate_credential_data_against_template
\* and what issue_credential adds to it.  The credential says what the form showed, field
\* by field, holder, locked role and document included, a blank university being the
\* default one; except when the holder on display was that of another DID, a field hangs
\* on a hidden one or on a number, a derived field was hidden, or the template has a key
\* of the API's own.
IssuedIsWhatWasShown ==
  \A i \in 1..Len(desk) : desk[i].outcome = "issued" =>
     LET form == desk[i].form IN
     \/ InWords(desk[i].subject) = Shown(form)
     \/ ~Fresh(form) \/ HangsOnUnsent(form) \/ HidesDerived(form, FALSE) \/ TakesOwnKey(form)

\* A form the page lets through is not refused by the API; except when the
\* holder on display was that of another DID, a visible required file field is
\* there (its file is not part of the data the API checks), a required derived
\* field is hidden, the form was checked before the holder was known and his
\* role brings out a required field that is empty, a required field hangs on a value
\* that only comes about when it is sent, a typed field called role says another
\* role, or the template has a key of the API's own.
LetThroughIsNotRefused ==
  \A i \in 1..Len(desk) : desk[i].outcome = "refused" =>
     LET form == desk[i].form IN
     \/ ~Fresh(form) \/ HidesDerived(form, TRUE) \/ RevealedByHolder(form)
     \/ RevealedBySending(form) \/ TypesOtherRole(form) \/ TakesOwnKey(form)
     \/ \E f \in SeenFields(form) : f.type = "file" /\ f.required
=============================================================================

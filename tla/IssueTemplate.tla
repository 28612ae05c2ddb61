---------------------------- MODULE IssueTemplate ----------------------------
(***************************************************************************)
(* The template of a credential type, as the two sides read it.  The      *)
(* issue page decides with it which fields to show, whether the form is   *)
(* complete and what to send (utils/issueCredential.js); the API decides  *)
(* what of that goes into the credential (credential_type/repository.py). *)
(*                                                                         *)
(* A template is the sequence of its fields in their `order`.  A field is *)
(* [key, type, required, options, default, when], `when` being {} or      *)
(* {[field, equals]} and `options` the values its input can take; of the  *)
(* data types, "text" stands for string, date and select, and boolean is  *)
(* left out.  A value is a word and the form it has: text, text with      *)
(* blanks around it, or a number, which no comparison takes for the text. *)
(***************************************************************************)
EXTENDS Integers, Sequences, Functions

Text(word) == [word |-> word, as |-> "text"]
Padded(word) == [word |-> word, as |-> "padded"]
Number(word) == [word |-> word, as |-> "number"]

\* A word that is no number; the browser's number input turns it into "" before
\* the page has it.
NaN == "NaN"

DefaultUniversity == "DEFAULT_UNIVERSITY"

FieldsOf(t) == Range(t)
DerivedKeys(t) == {f.key : f \in {g \in FieldsOf(t) : g.type = "derived"}}
FileKeys(t) == {f.key : f \in {g \in FieldsOf(t) : g.type = "file"}}
TypedFields(t) == {f \in FieldsOf(t) : f.type \notin {"derived", "file"}}
FieldOf(t, k) == CHOOSE f \in FieldsOf(t) : f.key = k

\* What the page that makes types stores as a template: its keys are unique, and a
\* visibility asks for a text that is not blank.
WellFormed(t) ==
  /\ t \in Seq(FieldsOf(t))
  /\ \A i, j \in 1..Len(t) : t[i].key = t[j].key => i = j
  /\ \A f \in FieldsOf(t) :
       /\ f.type \in {"derived", "file", "text", "number"}
       /\ f.type = "number" =>
            \A v \in f.options \union {f.default} : v = Text(v.word) /\ v.word # NaN
       /\ \A w \in f.when : w.equals # ""

\* What a fresh form holds: the first option of a select, the name of the
\* university, nothing.
DefaultValues(t) == [k \in {f.key : f \in TypedFields(t)} |-> FieldOf(t, k).default]

\* The member role of an account role; an admin or a plain user has none.
MemberRole(role) ==
  Text(IF role = "student" THEN "Student" ELSE IF role = "teacher" THEN "Teacher" ELSE "")

\* What the form holds: the typed values and the locked, derived ones.
FormValues(t, values, role) ==
  [k \in DerivedKeys(t) \union DOMAIN values |->
     IF k \in DerivedKeys(t) THEN MemberRole(role) ELSE values[k]]

\* The page asks for the very text, as it was typed.
IsVisible(f, vals) ==
  \A w \in f.when : w.field \in DOMAIN vals /\ vals[w.field] = Text(w.equals)

VisibleFields(t, values, role) ==
  {f \in FieldsOf(t) : IsVisible(f, FormValues(t, values, role))}

\* The file the form sends: the attachment, else that of the first visible file
\* field that has one.
Attachment(t, form, role) ==
  LET chosen == {i \in 1..Len(t) : /\ t[i] \in VisibleFields(t, form.values, role)
                                   /\ t[i].type = "file" /\ form.files[t[i].key] # "none"}
  IN IF form.attachment # "none" \/ chosen = {} THEN form.attachment
     ELSE form.files[t[CHOOSE i \in chosen : \A j \in chosen : i <= j].key]

\* Mutant: only what is typed is required.
FormErrorsTyped(t, form, role) ==
  {f.key : f \in {g \in TypedFields(t) \intersect VisibleFields(t, form.values, role) :
     g.required /\ form.values[g.key].word = ""}}

\* The keys the page marks when the form is submitted; {} lets it through.
FormErrors(t, form, role) ==
  LET vals == FormValues(t, form.values, role) IN
  {f.key : f \in {g \in VisibleFields(t, form.values, role) :
     \/ /\ g.type = "file"
        /\ g.required /\ form.files[g.key] = "none" /\ form.attachment = "none"
     \/ g.type \in {"derived", "text", "number"} /\ g.required /\ vals[g.key].word = ""
     \/ g.type = "number" /\ vals[g.key].word = NaN}}

\* What is sent for a value: a number for one, and a text without the blanks
\* around it; a university left blank goes as the default one.
Converted(f, v) ==
  IF f.type = "number" THEN Number(v.word)
  ELSE IF f.type = "text" /\ f.key = "university" /\ v.word = "" THEN Text(DefaultUniversity)
  ELSE Text(v.word)

\* Mutant: hidden fields are sent as well.
PayloadUnseen(t, form, role) ==
  LET vals == FormValues(t, form.values, role)
      sent == {f \in FieldsOf(t) : f.type # "file" /\ Converted(f, vals[f.key]).word # ""}
  IN [k \in {f.key : f \in sent} |-> Converted(FieldOf(t, k), vals[k])]

\* credential_data: the visible fields that hold something, files excepted.
Payload(t, form, role) ==
  LET vals == FormValues(t, form.values, role)
      sent == {f \in VisibleFields(t, form.values, role) :
                 /\ f.type # "file"
                 /\ Converted(f, vals[f.key]).word # ""
                 /\ f.type = "number" => vals[f.key].word # NaN}
  IN [k \in {f.key : f \in sent} |-> Converted(FieldOf(t, k), vals[k])]

-----------------------------------------------------------------------------
\* The API's side.  `role` is the account role it reads itself.

\* What the API sees in key k when it comes to field i: a derived field it has
\* passed overrides what the page sent.
SeenAt(t, data, role, i, k) ==
  IF (\E j \in 1..(i - 1) : t[j].key = k /\ t[j].type = "derived") /\ MemberRole(role).word # ""
    THEN {MemberRole(role)}
    ELSE IF k \in DOMAIN data THEN {data[k]} ELSE {}

\* It asks for the very value that was sent: a number is never the text.
Reached(t, data, role, i) ==
  \A w \in t[i].when : Text(w.equals) \in SeenAt(t, data, role, i, w.field)

\* The fields the API complains about; {} lets the data pass.
ApiErrors(t, data, role) ==
  {t[i].key : i \in {j \in 1..Len(t) :
     IF t[j].type = "derived" THEN t[j].required /\ MemberRole(role).word = ""
     ELSE /\ Reached(t, data, role, j)
          /\ t[j].required /\ t[j].key \notin DOMAIN data}}

\* The cleaned data: derived fields from the account, the rest as sent.
Subject(t, data, role) ==
  [k \in {t[i].key : i \in {j \in 1..Len(t) :
            IF t[j].type = "derived" THEN MemberRole(role).word # ""
            ELSE Reached(t, data, role, j) /\ t[j].key \in DOMAIN data}}
     |-> IF k \in DerivedKeys(t) THEN MemberRole(role) ELSE data[k]]

\* In lower case: of the words, only a member role differs from an account role
\* by its case.
Lower(word) ==
  IF word = "Student" THEN "student" ELSE IF word = "Teacher" THEN "teacher" ELSE word

\* Whatever field is called role must say the role of the account.
SpoofsRole(cleaned, role) ==
  "role" \in DOMAIN cleaned /\ Lower(cleaned["role"].word) # role
=============================================================================

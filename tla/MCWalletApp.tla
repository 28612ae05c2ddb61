----------------------------- MODULE MCWalletApp -----------------------------
(* Two accounts with their DIDs and credentials, and a template of each kind. *)
EXTENDS WalletApp

Field(key, type, req, options, default, when) ==
  [key |-> key, type |-> type, required |-> req, options |-> options,
   default |-> default, when |-> when]
When(f, v) == {[field |-> f, equals |-> v]}

Words(S) == {Text(w) : w \in S}

\* After the seeded templates: a derived role on which fields depend; a chain
\* of dependent fields; a required file; a role that is asked for at times; a
\* required field that a role which may be missing brings out; and what the page that
\* makes types lets through: fields that hang on a number, or on a text one can type
\* blanks around; a typed role; two files; a university; a key of the API's own.
TemplateOfEachKind ==
  [enrollment |->
     <<Field("role", "derived", TRUE, {}, Text(""), {}),
       Field("degree", "text", FALSE, Words({"BSc", "MSc"}), Text("BSc"), When("role", "Student")),
       Field("year", "number", FALSE, Words({"", "2024"}), Text(""), When("role", "Teacher"))>>,
   chained |->
     <<Field("a", "text", TRUE, Words({"a1", "a2"}), Text("a1"), {}),
       Field("b", "text", FALSE, Words({"b1", "b2"}), Text("b1"), When("a", "a1")),
       Field("c", "text", TRUE, Words({"", "x"}), Text(""), When("b", "b1"))>>,
   scanned |-> <<Field("scan", "file", TRUE, {}, Text(""), {})>>,
   badge |->
     <<Field("kind", "text", FALSE, Words({"full", "brief"}), Text("full"), {}),
       Field("role", "derived", TRUE, {}, Text(""), When("kind", "full"))>>,
   club |->
     <<Field("role", "derived", FALSE, {}, Text(""), {}),
       Field("team", "text", TRUE, Words({"", "x"}), Text(""), When("role", "Student"))>>,
   counted |->
     <<Field("pages", "number", FALSE, Words({"", "2"}), Text("2"), {}),
       Field("cover", "text", TRUE, Words({"", "x"}), Text("x"), When("pages", "2"))>>,
   noted |->
     <<Field("kind", "text", FALSE, {Text("full"), Padded("full"), Padded("")}, Text("full"), {}),
       Field("note", "text", TRUE, Words({"", "x"}), Text(""), When("kind", "full"))>>,
   staff |->
     <<Field("university", "text", FALSE, Words({"", "uni"}), Text("uni"), {}),
       Field("role", "text", FALSE, Words({"", "Student", "teacher"}), Text(""), {})>>,
   papers |->
     <<Field("front", "file", FALSE, {}, Text(""), {}),
       Field("back", "file", FALSE, {}, Text(""), {})>>,
   named |->
     <<Field("id", "text", FALSE, {}, Text("x"), {}),
       Field("greeting", "text", TRUE, {}, Text(""), When("username", "s"))>>]

MCTemplates == TemplateOfEachKind

MCRole == [s |-> "student", t |-> "teacher", u |-> "user", x |-> none]
MCHolderDid == [ann |-> "s", bob |-> "u"]
MCNameFilter == [bob |-> "b"]
MCListed == [none |-> <<"ann", "bob">>, b |-> <<"bob">>]
MCFilters == {none, "b"}
MCCredsOf == [ann |-> <<{"c1"}, {"c2"}>>, bob |-> <<>>, joe |-> <<>>]
MCKnown == [s |-> "active", u |-> "inactive", x |-> "unknown", y |-> "absent"]
MCMyPages == <<{"h1"}, {"h2"}>>
MCMyStart == [h1 |-> {}, h2 |-> Facts]
MCViews == {"issue", "credentials", "holdings", "resolve", "dids", "mydid", "verify",
            "register", "directory", "admins"}

\* The two pages with the most states have one input less.
InputsOn == [view \in MCViews \union {none} |-> IF view \in {"admins", "holdings"} THEN 5 ELSE 6]
MCMaxInputs == InputsOn
=============================================================================

------------------------------- MODULE Documents -------------------------------
(***************************************************************************)
(* The document studio, and which template a document is printed with.     *)
(*                                                                         *)
(* A template has numbered versions, of which the last counts.  Issuing an *)
(* invoice or a certificate selects a template: the one the settings name, *)
(* or else the default of its type, which is brought up to date if it does *)
(* not look like the built-in design, and created if there is none.  None  *)
(* of this is a transaction, except saving and publishing in the studio.   *)
(* The start of the server makes sure of the defaults before it serves.    *)
(***************************************************************************)
EXTENDS Integers, Sequences, FiniteSets

CONSTANTS
  Types,         \* the types of documents, in the order the start ensures them
  Docs,          \* invoices and certificates that may be issued (bound)
  TypeOf,        \* the type of each
  Editors,       \* studio requests under way (bound)
  Readers,       \* requests that issue or print under way (bound)
  Boot,          \* the start of the server
  MaxTemplates,  \* templates (bound)
  MaxVersions,   \* versions of a template, the last for a built-in one (bound)
  MaxCrashes,    \* stops of the server (bound)
  MaxFailures,   \* statements of a selection that fail (bound)
  None

Invoice == Types[1]
TypeNames == {Types[i] : i \in DOMAIN Types}
Ids == 1 .. MaxTemplates

ASSUME DocumentsAssumption ==
  /\ Types \in Seq(STRING) /\ Len(Types) > 0
  /\ \A i, k \in DOMAIN Types : Types[i] = Types[k] => i = k
  /\ TypeOf \in [Docs -> TypeNames]
  /\ Boot \notin Readers
  /\ MaxTemplates \in Nat \ {0} /\ MaxVersions \in Nat
  /\ MaxCrashes \in Nat /\ MaxFailures \in Nat

VARIABLES
  template,  \* document_templates, by id
  versions,  \* document_template_versions of each template, by number
  chosen,    \* the settings document_template_<type>: an id, or 0
  doc,       \* invoices and certificates: the version each was issued with
  editor,    \* studio requests under way
  reader,    \* selections under way
  up,        \* the server serves
  crashes,
  failures   \* statements of selections that failed so far

studio == <<template, versions>>
vars == <<studio, chosen, doc, editor, reader, up, crashes, failures>>

-----------------------------------------------------------------------------
(* Rows and requests. *)

DocumentTemplate == [type: TypeNames, status: {"draft", "published"}, default: BOOLEAN]
\* "built-in" stands for every text that has the marks of the built-in design.
DocumentTemplateVersion == [text: {"built-in", "custom"}, published: BOOLEAN]
NoVersion == <<0, 0>>
Issued(d) == doc[d] # None

Edit == [pc: {"version", "save", "publish"}, id: Ids, n: Nat]
Selection == [pc: {"choice", "default", "latest", "create", "insert", "name"},
              type: TypeNames, doc: Docs \cup {None}, print: BOOLEAN, id: 0 .. MaxTemplates, n: Nat]
Seeding(type) ==
  [pc |-> "default", type |-> type, doc |-> None, print |-> FALSE, id |-> 0, n |-> 0]

ASSUME NoneAssumption ==
  /\ None \notin Docs /\ None \notin TypeNames /\ None \notin Edit /\ None \notin Selection
  /\ None \notin Nat \X Nat

Init ==
  /\ template = <<>> /\ versions = [i \in Ids |-> <<>>]
  /\ chosen = [type \in TypeNames |-> 0]
  /\ doc = [d \in Docs |-> None]
  /\ editor = [e \in Editors |-> None]
  /\ reader = [p \in Readers \cup {Boot} |-> IF p = Boot THEN Seeding(Invoice) ELSE None]
  /\ up = FALSE /\ crashes = 0 /\ failures = 0

Defaults(type) == {i \in DOMAIN template : template[i].type = type /\ template[i].default}
Missing == {type \in TypeNames : Defaults(type) = {}}
Oldest(S) == CHOOSE i \in S : \A k \in S : i <= k
Version(text, published) == [text |-> text, published |-> published]

\* The insert of a version; its number must be new.
Fits(i, n) == n = Len(versions[i]) + 1
InsertVersion(i, v) == versions' = [versions EXCEPT ![i] = Append(@, v)]

-----------------------------------------------------------------------------
(* The studio. *)

Editing(e, pc) == editor[e] # None /\ editor[e].pc = pc
Close(e) == editor' = [editor EXCEPT ![e] = None]
Open(e, pc, i, n) == editor' = [editor EXCEPT ![e] = [pc |-> pc, id |-> i, n |-> n]]

\* Two statements: the template, then its first version.
CreateDocumentTemplate(e, type) ==
  /\ up /\ editor[e] = None /\ Len(template) < MaxTemplates
  /\ template' = Append(template, [type |-> type, status |-> "draft", default |-> FALSE])
  /\ Open(e, "version", Len(template) + 1, 1)
  /\ UNCHANGED <<versions, chosen, doc, reader, up, crashes, failures>>

CreateFirstVersion(e, text) ==
  /\ Editing(e, "version")
  /\ IF Fits(editor[e].id, 1) THEN InsertVersion(editor[e].id, Version(text, FALSE))
     ELSE UNCHANGED versions
  /\ Close(e)
  /\ UNCHANGED <<template, chosen, doc, reader, up, crashes, failures>>

\* The number of the new version is read outside the transaction that stores it.
UpdateDocumentTemplate(e, i) ==
  /\ up /\ editor[e] = None /\ i \in DOMAIN template /\ Len(versions[i]) + 1 < MaxVersions
  /\ Open(e, "save", i, Len(versions[i]) + 1)
  /\ UNCHANGED <<studio, chosen, doc, reader, up, crashes, failures>>

\* A slip: the text of the last version is replaced.
SaveInPlace(e, text) ==
  LET i == editor[e].id IN
  /\ Editing(e, "save")
  /\ IF versions[i] # <<>>
     THEN versions' = [versions EXCEPT ![i][Len(versions[i])] = Version(text, FALSE)]
     ELSE InsertVersion(i, Version(text, FALSE))
  /\ template' = [template EXCEPT ![i].status = "draft"]
  /\ Close(e)
  /\ UNCHANGED <<chosen, doc, reader, up, crashes, failures>>

SaveTemplate(e, text) ==
  LET i == editor[e].id IN
  /\ Editing(e, "save")
  /\ IF Fits(i, editor[e].n)
     THEN /\ template' = [template EXCEPT ![i].status = "draft"]
          /\ InsertVersion(i, Version(text, FALSE))
     ELSE UNCHANGED studio
  /\ Close(e)
  /\ UNCHANGED <<chosen, doc, reader, up, crashes, failures>>

PublishDocumentTemplate(e, i) ==
  /\ up /\ editor[e] = None /\ i \in DOMAIN template /\ versions[i] # <<>>
  /\ Open(e, "publish", i, Len(versions[i]))
  /\ UNCHANGED <<studio, chosen, doc, reader, up, crashes, failures>>

\* A slip: only published templates cease to be the default.
MadeDefaultAmongPublished(i) ==
  [k \in DOMAIN template |->
     IF k = i THEN [template[k] EXCEPT !.default = TRUE, !.status = "published"]
     ELSE IF template[k].type = template[i].type /\ template[k].status = "published"
          THEN [template[k] EXCEPT !.default = FALSE]
     ELSE template[k]]

MadeDefault(i) ==
  [k \in DOMAIN template |->
     IF k = i THEN [template[k] EXCEPT !.default = TRUE, !.status = "published"]
     ELSE IF template[k].type = template[i].type THEN [template[k] EXCEPT !.default = FALSE]
     ELSE template[k]]

\* One transaction; what it publishes is the version that was the last when read.
PublishTx(e) ==
  LET i == editor[e].id IN
  /\ Editing(e, "publish")
  /\ template' = MadeDefault(i)
  /\ versions' = [versions EXCEPT ![i] =
       [n \in DOMAIN @ |-> IF n = editor[e].n THEN [@[n] EXCEPT !.published = TRUE] ELSE @[n]]]
  /\ Close(e)
  /\ UNCHANGED <<chosen, doc, reader, up, crashes, failures>>

AbandonEdit(e) ==
  /\ editor[e] # None
  /\ Close(e)
  /\ UNCHANGED <<studio, chosen, doc, reader, up, crashes, failures>>

\* UpdateSettings stores any value under any key.
UpdateSettings(type, i) ==
  /\ up /\ chosen[type] # i
  /\ chosen' = [chosen EXCEPT ![type] = i]
  /\ UNCHANGED <<studio, doc, editor, reader, up, crashes, failures>>

-----------------------------------------------------------------------------
(* Selecting a template. *)

Selecting(p, pc) == reader[p] # None /\ reader[p].pc = pc
GoTo(p, pc, i, n) == reader' = [reader EXCEPT ![p].pc = pc, ![p].id = i, ![p].n = n]

NextType(type) ==
  LET k == CHOOSE i \in DOMAIN Types : Types[i] = type
  IN  IF k < Len(Types) THEN Types[k + 1] ELSE None

\* The selection ends with a version, or with none when a statement failed.  A
\* start goes on to the next type, or serves; one that failed is begun again.
\* An invoice is stored once; a certificate's row is updated each time.
Outcome(p, v) ==
  LET s == reader[p] IN
  IF p = Boot
  THEN LET next == NextType(s.type) IN
       /\ reader' = [reader EXCEPT ![Boot] =
            IF v = NoVersion THEN Seeding(Invoice)
            ELSE IF next = None THEN None ELSE Seeding(next)]
       /\ up' = (v # NoVersion /\ next = None)
       /\ UNCHANGED doc
  ELSE /\ reader' = [reader EXCEPT ![p] = None]
       /\ doc' = IF s.print \/ (s.type = Invoice /\ Issued(s.doc)) THEN doc
                 ELSE [doc EXCEPT ![s.doc] = v]
       /\ UNCHANGED up

Select(p, d, print) ==
  reader' = [reader EXCEPT ![p] =
    [pc |-> "choice", type |-> TypeOf[d], doc |-> d, print |-> print, id |-> 0, n |-> 0]]

EnsureInvoice(p, d) ==
  /\ up /\ reader[p] = None /\ TypeOf[d] = Invoice /\ ~Issued(d)
  /\ Select(p, d, FALSE)
  /\ UNCHANGED <<studio, chosen, doc, editor, up, crashes, failures>>

\* The row of a certificate is there before its template is selected, and every
\* completed item of a completed course selects anew.
SyncCourseCompletion(p, d) ==
  /\ up /\ reader[p] = None /\ TypeOf[d] # Invoice
  /\ doc' = IF Issued(d) THEN doc ELSE [doc EXCEPT ![d] = NoVersion]
  /\ Select(p, d, FALSE)
  /\ UNCHANGED <<studio, chosen, editor, up, crashes, failures>>

\* Printing selects only for a document that was issued without a version.
SelectToPrint(p, d) ==
  /\ up /\ reader[p] = None /\ doc[d] = NoVersion
  /\ Select(p, d, TRUE)
  /\ UNCHANGED <<studio, chosen, doc, editor, up, crashes, failures>>

EnsureInvoicePDF(p, d) == TypeOf[d] = Invoice /\ SelectToPrint(p, d)
EnsureCertificatePDFBytes(p, d) == TypeOf[d] # Invoice /\ SelectToPrint(p, d)

\* A slip: the template that the settings name may be of another type.
SelectAnyType(p) ==
  LET i == chosen[reader[p].type] IN
  /\ Selecting(p, "choice")
  /\ IF i \in DOMAIN template /\ versions[i] # <<>>
     THEN Outcome(p, <<i, Len(versions[i])>>)
     ELSE GoTo(p, "default", 0, 0) /\ UNCHANGED <<doc, up>>
  /\ UNCHANGED <<studio, chosen, editor, crashes, failures>>

SelectDocumentTemplateVersion(p) ==
  LET i == chosen[reader[p].type] IN
  /\ Selecting(p, "choice")
  /\ IF i \in DOMAIN template /\ template[i].type = reader[p].type /\ versions[i] # <<>>
     THEN Outcome(p, <<i, Len(versions[i])>>)
     ELSE GoTo(p, "default", 0, 0) /\ UNCHANGED <<doc, up>>
  /\ UNCHANGED <<studio, chosen, editor, crashes, failures>>

EnsureDefaultDocumentTemplate(p) ==
  LET found == Defaults(reader[p].type) IN
  /\ Selecting(p, "default")
  /\ IF found = {} THEN GoTo(p, "create", 0, 0) ELSE GoTo(p, "latest", Oldest(found), 0)
  /\ UNCHANGED <<studio, chosen, doc, editor, up, crashes, failures>>

\* A slip: the number of the version that replaces the last one is not raised.
UpgradeInPlace(p) ==
  LET i == reader[p].id
      last == Len(versions[i])
  IN  /\ Selecting(p, "latest")
      /\ IF last = 0 THEN Outcome(p, NoVersion)
         ELSE IF versions[i][last].text = "built-in" THEN Outcome(p, <<i, last>>)
         ELSE GoTo(p, "insert", i, last) /\ UNCHANGED <<doc, up>>
      /\ UNCHANGED <<studio, chosen, editor, crashes, failures>>

\* A last version without the marks of the built-in design is to be replaced.
LatestOfDefault(p) ==
  LET i == reader[p].id
      last == Len(versions[i])
  IN  /\ Selecting(p, "latest")
      /\ IF last = 0 THEN Outcome(p, NoVersion)
         ELSE IF versions[i][last].text = "built-in" THEN Outcome(p, <<i, last>>)
         ELSE GoTo(p, "insert", i, last + 1) /\ UNCHANGED <<doc, up>>
      /\ UNCHANGED <<studio, chosen, editor, crashes, failures>>

CreateDefaultTemplate(p) ==
  /\ Selecting(p, "create") /\ Len(template) < MaxTemplates
  /\ template' = Append(template,
       [type |-> reader[p].type, status |-> "published", default |-> TRUE])
  /\ GoTo(p, "insert", Len(template) + 1, 1)
  /\ UNCHANGED <<versions, chosen, doc, editor, up, crashes, failures>>

CreateDefaultVersion(p) ==
  LET s == reader[p] IN
  /\ Selecting(p, "insert")
  /\ IF Fits(s.id, s.n)
     THEN InsertVersion(s.id, Version("built-in", TRUE)) /\ GoTo(p, "name", s.id, s.n)
          /\ UNCHANGED <<doc, up>>
     ELSE Outcome(p, NoVersion) /\ UNCHANGED versions
  /\ UNCHANGED <<template, chosen, editor, crashes, failures>>

NameDefault(p) ==
  LET s == reader[p] IN
  /\ Selecting(p, "name")
  /\ template' = [template EXCEPT ![s.id].status = "published"]
  /\ Outcome(p, <<s.id, s.n>>)
  /\ UNCHANGED <<versions, chosen, editor, crashes, failures>>

\* A default that cannot be read is taken for none; whether the template could
\* be named is not looked at; any other error leaves the selection without a
\* version, which only printing and starting report.
StatementFails(p) ==
  LET s == reader[p] IN
  /\ s # None /\ failures < MaxFailures
  /\ s.pc = "default" => Len(template) + Cardinality(Missing) < MaxTemplates
  /\ failures' = failures + 1
  /\ CASE s.pc = "choice"  -> GoTo(p, "default", 0, 0) /\ UNCHANGED <<doc, up>>
       [] s.pc = "default" -> GoTo(p, "create", 0, 0) /\ UNCHANGED <<doc, up>>
       [] s.pc = "name"    -> Outcome(p, <<s.id, s.n>>)
       [] OTHER            -> Outcome(p, NoVersion)
  /\ UNCHANGED <<studio, chosen, editor, crashes>>

AbandonSelection(p) ==
  /\ p # Boot /\ reader[p] # None
  /\ reader' = [reader EXCEPT ![p] = None]
  /\ UNCHANGED <<studio, chosen, doc, editor, up, crashes, failures>>

\* The server stops, be it while it starts, and is started again.
Crash ==
  /\ crashes < MaxCrashes
  /\ crashes' = crashes + 1
  /\ up' = FALSE
  /\ editor' = [e \in Editors |-> None]
  /\ reader' = [p \in DOMAIN reader |-> IF p = Boot THEN Seeding(Invoice) ELSE None]
  /\ UNCHANGED <<studio, chosen, doc, failures>>

SelectionStep(p) ==
  \/ SelectDocumentTemplateVersion(p) \/ EnsureDefaultDocumentTemplate(p)
  \/ LatestOfDefault(p) \/ CreateDefaultTemplate(p) \/ CreateDefaultVersion(p) \/ NameDefault(p)

EditorStep(e) ==
  \/ \E type \in TypeNames : CreateDocumentTemplate(e, type)
  \/ \E text \in {"built-in", "custom"} : CreateFirstVersion(e, text) \/ SaveTemplate(e, text)
  \/ \E i \in Ids : UpdateDocumentTemplate(e, i) \/ PublishDocumentTemplate(e, i)
  \/ PublishTx(e) \/ AbandonEdit(e)

Next ==
  \/ \E e \in Editors : EditorStep(e)
  \/ \E type \in TypeNames, i \in 0 .. MaxTemplates : UpdateSettings(type, i)
  \/ \E p \in Readers, d \in Docs :
       \/ EnsureInvoice(p, d) \/ EnsureInvoicePDF(p, d)
       \/ SyncCourseCompletion(p, d) \/ EnsureCertificatePDFBytes(p, d)
  \/ \E p \in Readers \cup {Boot} : SelectionStep(p) \/ StatementFails(p) \/ AbandonSelection(p)
  \/ Crash

Spec == Init /\ [][Next]_vars

\* The start goes on by itself.
FairSpec == Spec /\ WF_vars(SelectionStep(Boot))

-----------------------------------------------------------------------------
(* Safety. *)

\* While the server serves, each type has a default that has a version, whatever
\* is created, saved and published at the same time, and however often the server
\* was started; and as long as every default could be read it is the only one, so
\* that a selection finds it.
DefaultIsPrintable ==
  up => \A type \in TypeNames : \E i \in Defaults(type) :
          versions[i] # <<>> /\ (failures = 0 => Defaults(type) = {i})

\* A document was issued with a version that exists, of a template of its own
\* type, though the settings may name any template.
IssuedWithOwnType ==
  \A d \in Docs : Issued(d) /\ doc[d] # NoVersion =>
    /\ template[doc[d][1]].type = TypeOf[d]
    /\ doc[d][2] \in DOMAIN versions[doc[d][1]]

\* The text an invoice was issued with is the one it is printed with ever after:
\* neither editing nor publishing nor bringing a default up to date changes it.
InvoiceKeepsText ==
  [][\A d \in Docs : TypeOf[d] = Invoice /\ Issued(d) /\ doc[d] # NoVersion =>
       /\ doc'[d] = doc[d]
       /\ versions'[doc[d][1]][doc[d][2]].text = versions[doc[d][1]][doc[d][2]].text]_vars

(* Liveness. *)

\* The default in use for some type has no version: the start that created it
\* was cut off, or failed, before it had one.
Stranded ==
  \E type \in TypeNames : Defaults(type) # {} /\ versions[Oldest(Defaults(type))] = <<>>

\* The server serves again after its last stop, unless its first start
\* created a default template and not its version: then no later start ends.
ServesAgain == <>[](up \/ Stranded)
===============================================================================

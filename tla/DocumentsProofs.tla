--------------------------- MODULE DocumentsProofs ---------------------------
(***************************************************************************)
(* Theorems about Documents, for any number of types, templates, versions, *)
(* documents, requests, stops and failing statements.                      *)
(***************************************************************************)
EXTENDS Documents, WellFoundedInduction, TLAPS

AllReaders == Readers \cup {Boot}

\* Every row and every request in progress has its type.
DocumentsTypeOK ==
  /\ template \in Seq(DocumentTemplate)
  /\ versions \in [Ids -> Seq(DocumentTemplateVersion)]
  /\ chosen \in [TypeNames -> 0 .. MaxTemplates]
  /\ doc \in [Docs -> {None} \cup (Nat \X Nat)]
  /\ editor \in [Editors -> {None} \cup Edit]
  /\ reader \in [AllReaders -> {None} \cup Selection]
  /\ up \in BOOLEAN /\ crashes \in Nat /\ failures \in Nat

\* There is a start exactly while the server does not serve, and then nothing else.
StartsAlone ==
  /\ up <=> reader[Boot] = None
  /\ ~up => /\ \A e \in Editors : editor[e] = None
            /\ \A p \in Readers : reader[p] = None

\* Versions belong to templates.
Rows ==
  /\ Len(template) <= MaxTemplates
  /\ \A i \in Ids : i \notin DOMAIN template => versions[i] = <<>>

\* What a studio request has read stays true: no template or version is deleted.
EditorsKnow ==
  \A e \in Editors : editor[e] # None =>
    /\ editor[e].id \in DOMAIN template
    /\ editor[e].pc = "publish" => versions[editor[e].id] # <<>>

\* So does what a selection has read: it is at a template of its type.
SelectionsKnow ==
  \A p \in AllReaders : reader[p] # None =>
    /\ p # Boot => reader[p].doc \in Docs /\ reader[p].type = TypeOf[reader[p].doc]
    /\ reader[p].pc \in {"latest", "insert", "name"} =>
         /\ reader[p].id \in DOMAIN template
         /\ template[reader[p].id].type = reader[p].type
    /\ reader[p].pc = "name" => reader[p].n \in DOMAIN versions[reader[p].id]

\* A start is at a default.
BootKnows ==
  reader[Boot] # None =>
    /\ reader[Boot].pc # "choice"
    /\ reader[Boot].pc \in {"latest", "insert", "name"} => template[reader[Boot].id].default

\* What a document was issued with is a version of a template.
IssuedKnow ==
  \A d \in Docs : Issued(d) /\ doc[d] # NoVersion => doc[d][1] \in DOMAIN template

\* As long as every default could be read, a type has one at most, and only a
\* start creates one, for a type that has none.
Single ==
  failures = 0 =>
    /\ \A i, k \in DOMAIN template :
         template[i].default /\ template[k].default /\ template[i].type = template[k].type => i = k
    /\ \A p \in AllReaders : reader[p] # None /\ reader[p].pc = "create" =>
         p = Boot /\ Defaults(reader[p].type) = {}

\* The types that a start has done with; all of them, once the server serves.
Ready(j) ==
  \/ up
  \/ reader[Boot] # None /\ \E k \in DOMAIN Types : reader[Boot].type = Types[k] /\ j < k

\* Each of them has a default that can be printed.
Prepared ==
  \A j \in DOMAIN Types : Ready(j) => \E i \in Defaults(Types[j]) : versions[i] # <<>>

IInv ==
  /\ DocumentsTypeOK /\ StartsAlone /\ Rows /\ EditorsKnow /\ SelectionsKnow
  /\ BootKnows /\ Single /\ Prepared /\ IssuedKnow /\ IssuedWithOwnType

-----------------------------------------------------------------------------
(* Helpers. *)

\* A set of ids that is not empty has an oldest one.
LEMMA OldestIn ==
  ASSUME NEW S \in SUBSET Nat, S # {}
  PROVE  Oldest(S) \in S
<1>1. PICK n \in S : \A k \in S : <<k, n>> \notin OpToRel(<, Nat)
  BY WFMin, NatLessThanWellFounded, Zenon
<1>2. \A k \in S : ~(k < n)
  <2> SUFFICES ASSUME NEW k \in S, k < n PROVE FALSE
    OBVIOUS
  <2>1. <<k, n>> \in OpToRel(<, Nat)
    BY Zenon DEF OpToRel
  <2> QED
    BY <1>1, <2>1, Zenon
<1>3. \A k \in S : n <= k
  BY <1>2
<1> QED
  BY <1>3 DEF Oldest

\* Requests in progress are records of their types.
LEMMA RequestTypes ==
  ASSUME DocumentsTypeOK
  PROVE  /\ \A e \in Editors : editor[e] # None => editor[e] \in Edit
         /\ \A p \in AllReaders : reader[p] # None => reader[p] \in Selection
BY DEF DocumentsTypeOK

\* The defaults of a type are ids, and if there are any, so is the oldest of them.
LEMMA DefaultIds ==
  ASSUME DocumentsTypeOK, Rows, NEW type
  PROVE  /\ Defaults(type) \in SUBSET Nat /\ Defaults(type) \subseteq DOMAIN template
         /\ DOMAIN template \subseteq Ids
         /\ Defaults(type) # {} => Oldest(Defaults(type)) \in Defaults(type)
<1>1. Defaults(type) \in SUBSET Nat /\ Defaults(type) \subseteq DOMAIN template
  BY DEF Defaults, DocumentsTypeOK
<1>2. DOMAIN template \subseteq Ids
  BY DocumentsAssumption DEF DocumentsTypeOK, Rows, Ids
<1> QED
  BY <1>1, <1>2, OldestIn

\* The start knows each type and the one after it.
LEMMA TypesInOrder ==
  /\ Invoice \in TypeNames
  /\ \A type \in TypeNames : Seeding(type) \in Selection
  /\ \A k \in DOMAIN Types :
       NextType(Types[k]) = IF k < Len(Types) THEN Types[k + 1] ELSE None
  /\ \A type \in TypeNames : NextType(type) \in TypeNames \cup {None}
  /\ \A d \in Docs : TypeOf[d] \in TypeNames
<1>1. Types \in Seq(STRING) /\ Len(Types) \in Nat /\ Len(Types) > 0 /\ DOMAIN Types = 1 .. Len(Types)
  BY DocumentsAssumption
<1>2. Invoice \in TypeNames
  BY <1>1 DEF Invoice, TypeNames
<1>3. \A type \in TypeNames : Seeding(type) \in Selection
  BY DocumentsAssumption DEF Seeding, Selection
<1>4. \A k \in DOMAIN Types :
        NextType(Types[k]) = IF k < Len(Types) THEN Types[k + 1] ELSE None
  <2> SUFFICES ASSUME NEW k \in DOMAIN Types
               PROVE  NextType(Types[k]) = IF k < Len(Types) THEN Types[k + 1] ELSE None
    OBVIOUS
  <2> DEFINE found == CHOOSE i \in DOMAIN Types : Types[i] = Types[k]
  <2>1. found \in DOMAIN Types /\ Types[found] = Types[k]
    BY Zenon
  <2>2. found = k
    BY <2>1, DocumentsAssumption
  <2>3. NextType(Types[k]) = IF found < Len(Types) THEN Types[found + 1] ELSE None
    BY Zenon DEF NextType
  <2> QED
    BY <2>2, <2>3
<1>5. \A type \in TypeNames : NextType(type) \in TypeNames \cup {None}
  <2> SUFFICES ASSUME NEW k \in DOMAIN Types PROVE NextType(Types[k]) \in TypeNames \cup {None}
    BY DEF TypeNames
  <2>1. k < Len(Types) => k + 1 \in DOMAIN Types
    BY <1>1
  <2> QED
    BY <1>4, <2>1 DEF TypeNames
<1> QED
  BY <1>2, <1>3, <1>4, <1>5, DocumentsAssumption

-----------------------------------------------------------------------------
(* Types. *)

\* How a selection ends keeps the types.
LEMMA OutcomeTypes ==
  ASSUME DocumentsTypeOK, NEW p \in AllReaders, reader[p] # None,
         NEW v \in Nat \X Nat, Outcome(p, v)
  PROVE  /\ reader' \in [AllReaders -> {None} \cup Selection]
         /\ doc' \in [Docs -> {None} \cup (Nat \X Nat)]
         /\ up' \in BOOLEAN
<1>1. reader[p] \in Selection /\ reader[p].type \in TypeNames
  BY RequestTypes DEF Selection
<1>2. Seeding(Invoice) \in Selection
  BY TypesInOrder
<1>3. NextType(reader[p].type) # None => Seeding(NextType(reader[p].type)) \in Selection
  BY <1>1, TypesInOrder
<1>4. CASE p = Boot
  BY <1>1, <1>2, <1>3, <1>4 DEF Outcome, DocumentsTypeOK
<1>5. CASE p # Boot
  BY <1>1, <1>5 DEF Outcome, DocumentsTypeOK
<1> QED
  BY <1>4, <1>5

\* A selection that goes on keeps the types.
LEMMA GoToTypes ==
  ASSUME DocumentsTypeOK, NEW p \in AllReaders, reader[p] # None,
         NEW pc \in {"default", "latest", "create", "insert", "name"},
         NEW i \in 0 .. MaxTemplates, NEW n \in Nat, GoTo(p, pc, i, n)
  PROVE  /\ reader' \in [AllReaders -> {None} \cup Selection]
         /\ reader' = [reader EXCEPT ![p] = reader'[p]]
         /\ reader'[p] \in Selection
         /\ reader'[p].pc = pc /\ reader'[p].id = i /\ reader'[p].n = n
         /\ reader'[p].type = reader[p].type /\ reader'[p].doc = reader[p].doc
<1>1. reader[p] \in Selection
  BY RequestTypes
<1>2. reader' = [reader EXCEPT ![p] = [reader[p] EXCEPT !.pc = pc, !.id = i, !.n = n]]
  BY DEF GoTo, DocumentsTypeOK
<1>3. reader'[p] = [reader[p] EXCEPT !.pc = pc, !.id = i, !.n = n]
  BY <1>2 DEF DocumentsTypeOK
<1>4. reader'[p] \in Selection
  BY <1>1, <1>3 DEF Selection
<1>5. /\ reader'[p].pc = pc /\ reader'[p].id = i /\ reader'[p].n = n
      /\ reader'[p].type = reader[p].type /\ reader'[p].doc = reader[p].doc
  BY <1>1, <1>3 DEF Selection
<1>6. reader' = [reader EXCEPT ![p] = reader'[p]]
  BY <1>2, <1>3
<1>7. reader' \in [AllReaders -> {None} \cup Selection]
  BY <1>4, <1>6 DEF DocumentsTypeOK
<1> QED
  BY <1>4, <1>5, <1>6, <1>7

\* A change of statuses or defaults keeps the types of templates.
LEMMA TemplateTypes ==
  ASSUME DocumentsTypeOK,
         NEW rows, DOMAIN rows = DOMAIN template, rows = [i \in DOMAIN rows |-> rows[i]],
         \A i \in DOMAIN template : rows[i] \in DocumentTemplate
  PROVE  rows \in Seq(DocumentTemplate)
<1>1. Len(template) \in Nat /\ DOMAIN template = 1 .. Len(template)
  BY DEF DocumentsTypeOK
<1>2. rows \in [1 .. Len(template) -> DocumentTemplate]
  BY <1>1
<1> QED
  BY <1>1, <1>2

\* The studio's steps keep the types.
LEMMA StudioTypes ==
  ASSUME DocumentsTypeOK, Rows, NEW e \in Editors, EditorStep(e)
  PROVE  DocumentsTypeOK'
<1> USE DEF studio
<1>1. MaxTemplates \in Nat /\ Ids \subseteq Nat
  BY DocumentsAssumption DEF Ids
<1>2. ASSUME NEW text \in {"built-in", "custom"}, NEW published \in BOOLEAN
      PROVE  Version(text, published) \in DocumentTemplateVersion
  BY DEF Version, DocumentTemplateVersion
<1>3. ASSUME NEW i \in Ids, NEW v \in DocumentTemplateVersion, InsertVersion(i, v)
      PROVE  versions' \in [Ids -> Seq(DocumentTemplateVersion)]
  <2>1. Append(versions[i], v) \in Seq(DocumentTemplateVersion)
    BY DEF DocumentsTypeOK
  <2> QED
    BY <1>3, <2>1 DEF InsertVersion, DocumentsTypeOK
<1>4. ASSUME NEW pc \in {"version", "save", "publish"}, NEW i \in Ids, NEW n \in Nat, Open(e, pc, i, n)
      PROVE  editor' \in [Editors -> {None} \cup Edit]
  BY <1>4 DEF Open, Edit, DocumentsTypeOK
<1>5. ASSUME Close(e) PROVE editor' \in [Editors -> {None} \cup Edit]
  BY <1>5 DEF Close, DocumentsTypeOK
<1>6. ASSUME NEW type \in TypeNames, CreateDocumentTemplate(e, type) PROVE DocumentsTypeOK'
  <2>1. Len(template) + 1 \in Ids
    BY <1>1, <1>6 DEF CreateDocumentTemplate, DocumentsTypeOK, Ids
  <2>2. editor' \in [Editors -> {None} \cup Edit]
    BY <2>1, <1>4, <1>6 DEF CreateDocumentTemplate
  <2>3. [type |-> type, status |-> "draft", default |-> FALSE] \in DocumentTemplate
    BY DEF DocumentTemplate
  <2>4. template' \in Seq(DocumentTemplate)
    BY <1>6, <2>3 DEF CreateDocumentTemplate, DocumentsTypeOK
  <2> QED
    BY <1>6, <2>2, <2>4 DEF CreateDocumentTemplate, DocumentsTypeOK
<1>7. ASSUME NEW text \in {"built-in", "custom"}, CreateFirstVersion(e, text) PROVE DocumentsTypeOK'
  <2>1. editor[e].id \in Ids
    BY <1>7, RequestTypes DEF CreateFirstVersion, Editing, Edit
  <2>2. versions' \in [Ids -> Seq(DocumentTemplateVersion)]
    BY <1>2, <1>3, <1>7, <2>1 DEF CreateFirstVersion, DocumentsTypeOK
  <2> QED
    BY <1>5, <1>7, <2>2 DEF CreateFirstVersion, DocumentsTypeOK
<1>8. ASSUME NEW text \in {"built-in", "custom"}, SaveTemplate(e, text) PROVE DocumentsTypeOK'
  <2>1. editor[e].id \in Ids
    BY <1>8, RequestTypes DEF SaveTemplate, Editing, Edit
  <2>2. versions' \in [Ids -> Seq(DocumentTemplateVersion)]
    BY <1>2, <1>3, <1>8, <2>1 DEF SaveTemplate, DocumentsTypeOK
  <2>3. template' \in Seq(DocumentTemplate)
    <3>1. \A i \in DOMAIN template : template[i] \in DocumentTemplate
      BY DEF DocumentsTypeOK
    <3>2. /\ DOMAIN template' = DOMAIN template /\ template' = [i \in DOMAIN template' |-> template'[i]]
          /\ \A i \in DOMAIN template : template'[i] \in DocumentTemplate
      <4>1. CASE template' = template
        BY <3>1, <4>1 DEF DocumentsTypeOK
      <4>2. CASE template' = [template EXCEPT ![editor[e].id].status = "draft"]
        BY <3>1, <4>2 DEF DocumentTemplate, DocumentsTypeOK
      <4> QED
        BY <1>8, <4>1, <4>2 DEF SaveTemplate
    <3> QED
      BY <3>2, TemplateTypes
  <2> QED
    BY <1>5, <1>8, <2>2, <2>3 DEF SaveTemplate, DocumentsTypeOK
<1>9. ASSUME NEW i \in Ids, UpdateDocumentTemplate(e, i) PROVE DocumentsTypeOK'
  <2>1. Len(versions[i]) + 1 \in Nat
    BY DEF DocumentsTypeOK
  <2> QED
    BY <1>4, <1>9, <2>1 DEF UpdateDocumentTemplate, DocumentsTypeOK
<1>10. ASSUME NEW i \in Ids, PublishDocumentTemplate(e, i) PROVE DocumentsTypeOK'
  <2>1. Len(versions[i]) \in Nat
    BY DEF DocumentsTypeOK
  <2> QED
    BY <1>4, <1>10, <2>1 DEF PublishDocumentTemplate, DocumentsTypeOK
<1>11. CASE PublishTx(e)
  <2> DEFINE i == editor[e].id
  <2>1. i \in Ids
    BY <1>11, RequestTypes DEF PublishTx, Editing, Edit
  <2>2. template' \in Seq(DocumentTemplate)
    <3>1. \A j \in DOMAIN template : template[j] \in DocumentTemplate
      BY DEF DocumentsTypeOK
    <3>2. /\ DOMAIN template' = DOMAIN template /\ template' = [j \in DOMAIN template' |-> template'[j]]
          /\ \A j \in DOMAIN template : template'[j] \in DocumentTemplate
      BY <1>11, <3>1 DEF PublishTx, MadeDefault, DocumentTemplate, DocumentsTypeOK
    <3> QED
      BY <3>2, TemplateTypes
  <2>3. versions' = [versions EXCEPT ![i] =
          [n \in DOMAIN versions[i] |->
             IF n = editor[e].n THEN [versions[i][n] EXCEPT !.published = TRUE] ELSE versions[i][n]]]
    BY <1>11, <2>1 DEF PublishTx, DocumentsTypeOK
  <2>4. versions' \in [Ids -> Seq(DocumentTemplateVersion)]
    <3> DEFINE row == [n \in DOMAIN versions[i] |->
             IF n = editor[e].n THEN [versions[i][n] EXCEPT !.published = TRUE] ELSE versions[i][n]]
    <3>1. /\ versions[i] \in Seq(DocumentTemplateVersion) /\ Len(versions[i]) \in Nat
          /\ DOMAIN versions[i] = 1 .. Len(versions[i])
      BY <2>1 DEF DocumentsTypeOK
    <3>2. ASSUME NEW n \in DOMAIN versions[i] PROVE row[n] \in DocumentTemplateVersion
      <4>1. versions[i][n] \in DocumentTemplateVersion
        BY <3>1
      <4> QED
        BY <4>1 DEF DocumentTemplateVersion
    <3>3. row \in [1 .. Len(versions[i]) -> DocumentTemplateVersion]
      BY <3>1, <3>2, Zenon
    <3>4. row \in Seq(DocumentTemplateVersion)
      <4> HIDE DEF row
      <4> QED
        BY <3>1, <3>3
    <3> QED
      BY <2>3, <3>4 DEF DocumentsTypeOK
  <2> QED
    BY <1>5, <1>11, <2>2, <2>4 DEF PublishTx, DocumentsTypeOK
<1>12. CASE AbandonEdit(e)
  BY <1>5, <1>12 DEF AbandonEdit, DocumentsTypeOK
<1> QED
  BY <1>6, <1>7, <1>8, <1>9, <1>10, <1>11, <1>12 DEF EditorStep

\* The steps of a selection keep the types.
LEMMA SelectionTypes ==
  ASSUME DocumentsTypeOK, Rows, SelectionsKnow, NEW p \in AllReaders,
         SelectionStep(p) \/ StatementFails(p)
  PROVE  DocumentsTypeOK'
<1> USE DEF studio
<1> DEFINE s == reader[p]
<1>1. /\ s \in Selection /\ s.id \in 0 .. MaxTemplates /\ s.n \in Nat /\ s.type \in TypeNames
      /\ MaxTemplates \in Nat /\ s # None
  BY RequestTypes, DocumentsAssumption
     DEF Selection, SelectionStep, StatementFails, SelectDocumentTemplateVersion,
         EnsureDefaultDocumentTemplate, LatestOfDefault, CreateDefaultTemplate,
         CreateDefaultVersion, NameDefault, Selecting
<1>2. NoVersion \in Nat \X Nat /\ <<s.id, s.n>> \in Nat \X Nat /\ 0 \in 0 .. MaxTemplates
  BY <1>1 DEF NoVersion
<1>3. \A i \in DOMAIN template : /\ i \in Ids /\ i \in 0 .. MaxTemplates
                                /\ Len(versions[i]) \in Nat /\ <<i, Len(versions[i])>> \in Nat \X Nat
                                /\ Len(versions[i]) + 1 \in Nat
  BY DocumentsAssumption DEF DocumentsTypeOK, Rows, Ids
<1>4. s.pc \in {"latest", "insert", "name"} => s.id \in DOMAIN template
  BY <1>1 DEF SelectionsKnow
<1>5. CASE SelectDocumentTemplateVersion(p)
  <2>1. CASE GoTo(p, "default", 0, 0) /\ UNCHANGED <<doc, up>>
    BY <1>1, <1>5, <2>1, <1>2, GoToTypes DEF SelectDocumentTemplateVersion, DocumentsTypeOK
  <2>2. ASSUME NEW i \in DOMAIN template, Outcome(p, <<i, Len(versions[i])>>) PROVE DocumentsTypeOK'
    BY <1>1, <1>3, <1>5, <2>2, OutcomeTypes DEF SelectDocumentTemplateVersion, DocumentsTypeOK
  <2> QED
    BY <1>5, <2>1, <2>2 DEF SelectDocumentTemplateVersion
<1>6. CASE EnsureDefaultDocumentTemplate(p)
  <2>1. CASE GoTo(p, "create", 0, 0)
    BY <1>1, <1>6, <2>1, <1>2, GoToTypes DEF EnsureDefaultDocumentTemplate, DocumentsTypeOK
  <2>2. ASSUME NEW i \in DOMAIN template, GoTo(p, "latest", i, 0) PROVE DocumentsTypeOK'
    BY <1>1, <1>3, <1>6, <2>2, <1>2, GoToTypes DEF EnsureDefaultDocumentTemplate, DocumentsTypeOK
  <2> QED
    BY <1>6, <2>1, <2>2, DefaultIds DEF EnsureDefaultDocumentTemplate
<1>7. CASE LatestOfDefault(p)
  <2>1. s.id \in DOMAIN template
    BY <1>4, <1>7 DEF LatestOfDefault, Selecting
  <2>2. CASE GoTo(p, "insert", s.id, Len(versions[s.id]) + 1) /\ UNCHANGED <<doc, up>>
    BY <1>1, <1>3, <1>7, <2>1, <2>2, GoToTypes DEF LatestOfDefault, DocumentsTypeOK
  <2>3. CASE Outcome(p, NoVersion)
    BY <1>1, <1>2, <1>7, <2>3, OutcomeTypes DEF LatestOfDefault, DocumentsTypeOK
  <2>4. CASE Outcome(p, <<s.id, Len(versions[s.id])>>)
    BY <1>1, <1>3, <1>7, <2>1, <2>4, OutcomeTypes DEF LatestOfDefault, DocumentsTypeOK
  <2> QED
    BY <1>7, <2>2, <2>3, <2>4 DEF LatestOfDefault
<1>8. CASE CreateDefaultTemplate(p)
  <2>1. [type |-> s.type, status |-> "published", default |-> TRUE] \in DocumentTemplate
    BY <1>1 DEF DocumentTemplate
  <2>2. template' \in Seq(DocumentTemplate)
    BY <1>8, <2>1 DEF CreateDefaultTemplate, DocumentsTypeOK
  <2>3. Len(template) + 1 \in 0 .. MaxTemplates
    BY <1>1, <1>8 DEF CreateDefaultTemplate, DocumentsTypeOK
  <2> QED
    BY <1>1, <1>8, <2>2, <2>3, GoToTypes DEF CreateDefaultTemplate, DocumentsTypeOK
<1>9. CASE CreateDefaultVersion(p)
  <2>1. s.id \in Ids
    BY <1>3, <1>4, <1>9 DEF CreateDefaultVersion, Selecting
  <2>2. CASE Outcome(p, NoVersion) /\ UNCHANGED versions
    BY <1>1, <1>2, <1>9, <2>2, OutcomeTypes DEF CreateDefaultVersion, DocumentsTypeOK
  <2>3. CASE /\ InsertVersion(s.id, Version("built-in", TRUE)) /\ GoTo(p, "name", s.id, s.n)
             /\ UNCHANGED <<doc, up>>
    <3>1. Append(versions[s.id], Version("built-in", TRUE)) \in Seq(DocumentTemplateVersion)
      BY <2>1 DEF Version, DocumentTemplateVersion, DocumentsTypeOK
    <3>2. versions' \in [Ids -> Seq(DocumentTemplateVersion)]
      BY <2>1, <2>3, <3>1 DEF InsertVersion, DocumentsTypeOK
    <3> QED
      BY <1>1, <1>9, <2>3, <3>2, GoToTypes DEF CreateDefaultVersion, DocumentsTypeOK
  <2> QED
    BY <1>9, <2>2, <2>3 DEF CreateDefaultVersion
<1>10. CASE NameDefault(p)
  <2>1. template' \in Seq(DocumentTemplate)
    <3>1. \A i \in DOMAIN template : template[i] \in DocumentTemplate
      BY DEF DocumentsTypeOK
    <3>2. /\ DOMAIN template' = DOMAIN template /\ template' = [i \in DOMAIN template' |-> template'[i]]
          /\ \A i \in DOMAIN template : template'[i] \in DocumentTemplate
      BY <1>10, <3>1 DEF NameDefault, DocumentTemplate, DocumentsTypeOK
    <3> QED
      BY <3>2, TemplateTypes
  <2> QED
    BY <1>1, <1>2, <1>10, <2>1, OutcomeTypes DEF NameDefault, DocumentsTypeOK
<1>11. CASE StatementFails(p)
  <2>1. failures' \in Nat
    BY <1>11 DEF StatementFails, DocumentsTypeOK
  <2>2. \/ GoTo(p, "default", 0, 0) /\ UNCHANGED <<doc, up>>
        \/ GoTo(p, "create", 0, 0) /\ UNCHANGED <<doc, up>>
        \/ Outcome(p, <<s.id, s.n>>) \/ Outcome(p, NoVersion)
    BY <1>11, Zenon DEF StatementFails
  <2>3. CASE GoTo(p, "default", 0, 0) /\ UNCHANGED <<doc, up>>
    BY <1>1, <1>11, <2>1, <2>3, <1>2, GoToTypes DEF StatementFails, DocumentsTypeOK
  <2>4. CASE GoTo(p, "create", 0, 0) /\ UNCHANGED <<doc, up>>
    BY <1>1, <1>11, <2>1, <2>4, <1>2, GoToTypes DEF StatementFails, DocumentsTypeOK
  <2>5. CASE Outcome(p, <<s.id, s.n>>) \/ Outcome(p, NoVersion)
    BY <1>1, <1>2, <1>11, <2>1, <2>5, OutcomeTypes DEF StatementFails, DocumentsTypeOK
  <2> QED
    BY <2>2, <2>3, <2>4, <2>5
<1> QED
  BY <1>5, <1>6, <1>7, <1>8, <1>9, <1>10, <1>11 DEF SelectionStep

\* So does each step.
LEMMA StepTypes ==
  ASSUME DocumentsTypeOK, Rows, SelectionsKnow, [Next]_vars
  PROVE  DocumentsTypeOK'
<1> USE DEF studio
<1>1. CASE UNCHANGED vars
  BY <1>1 DEF vars, DocumentsTypeOK
<1>2. ASSUME NEW e \in Editors, EditorStep(e) PROVE DocumentsTypeOK'
  BY <1>2, StudioTypes
<1>3. ASSUME NEW type \in TypeNames, NEW i \in 0 .. MaxTemplates, UpdateSettings(type, i)
      PROVE  DocumentsTypeOK'
  BY <1>3 DEF UpdateSettings, DocumentsTypeOK
<1>4. ASSUME NEW p \in Readers, NEW d \in Docs,
             \/ EnsureInvoice(p, d) \/ EnsureInvoicePDF(p, d)
             \/ SyncCourseCompletion(p, d) \/ EnsureCertificatePDFBytes(p, d)
      PROVE  DocumentsTypeOK'
  <2>1. ASSUME NEW print \in BOOLEAN, Select(p, d, print)
        PROVE  reader' \in [AllReaders -> {None} \cup Selection]
    <3>1. [pc |-> "choice", type |-> TypeOf[d], doc |-> d, print |-> print, id |-> 0, n |-> 0]
            \in Selection
      BY TypesInOrder, DocumentsAssumption DEF Selection
    <3> QED
      BY <2>1, <3>1 DEF Select, DocumentsTypeOK
  <2>2. doc' \in [Docs -> {None} \cup (Nat \X Nat)]
    <3>1. CASE SyncCourseCompletion(p, d)
      <4>1. doc' = doc \/ doc' = [doc EXCEPT ![d] = <<0, 0>>]
        BY <3>1 DEF SyncCourseCompletion, NoVersion
      <4> QED
        BY <4>1 DEF DocumentsTypeOK
    <3> QED
      BY <1>4, <3>1 DEF EnsureInvoice, EnsureInvoicePDF, EnsureCertificatePDFBytes, SelectToPrint,
                        DocumentsTypeOK
  <2> QED
    BY <1>4, <2>1, <2>2 DEF EnsureInvoice, EnsureInvoicePDF, EnsureCertificatePDFBytes,
                            SelectToPrint, SyncCourseCompletion, DocumentsTypeOK
<1>5. ASSUME NEW p \in AllReaders, SelectionStep(p) \/ StatementFails(p) PROVE DocumentsTypeOK'
  BY <1>5, SelectionTypes
<1>6. ASSUME NEW p \in AllReaders, AbandonSelection(p) PROVE DocumentsTypeOK'
  BY <1>6 DEF AbandonSelection, DocumentsTypeOK
<1>7. CASE Crash
  <2>1. Seeding(Invoice) \in Selection
    BY TypesInOrder
  <2>2. reader' \in [AllReaders -> {None} \cup Selection]
    BY <1>7, <2>1 DEF Crash, DocumentsTypeOK
  <2>3. editor' \in [Editors -> {None} \cup Edit] /\ crashes' \in Nat /\ up' \in BOOLEAN
    <3>1. editor' = [e \in Editors |-> None] /\ crashes' = crashes + 1 /\ up' = FALSE
      BY <1>7 DEF Crash
    <3>2. crashes \in Nat
      BY DEF DocumentsTypeOK
    <3>3. editor' \in [Editors -> {None} \cup Edit]
      BY <3>1, Zenon
    <3>4. crashes' \in Nat
      <4>1. crashes' = crashes + 1
        BY <3>1
      <4> QED
        BY <3>2, <4>1
    <3>5. up' \in BOOLEAN
      BY <3>1, Zenon
    <3> QED
      BY <3>3, <3>4, <3>5
  <2>4. UNCHANGED <<template, versions, chosen, doc, failures>>
    BY <1>7 DEF Crash
  <2> QED
    BY <2>2, <2>3, <2>4 DEF DocumentsTypeOK
<1> QED
  BY <1>1, <1>2, <1>3, <1>4, <1>5, <1>6, <1>7 DEF Next, AllReaders

-----------------------------------------------------------------------------
(* Templates and versions are there to stay. *)

\* What is there stays, with its type and its text.
Grows ==
  /\ \A i \in DOMAIN template : i \in DOMAIN template' /\ template'[i].type = template[i].type
  /\ \A i \in Ids : \A n \in DOMAIN versions[i] :
       n \in DOMAIN versions'[i] /\ versions'[i][n].text = versions[i][n].text

\* An insert adds a version and changes no other.
LEMMA InsertGrows ==
  ASSUME DocumentsTypeOK, NEW i \in Ids, NEW v, InsertVersion(i, v)
  PROVE  /\ \A k \in Ids : \A n \in DOMAIN versions[k] :
              n \in DOMAIN versions'[k] /\ versions'[k][n] = versions[k][n]
         /\ \A k \in Ids : k # i => versions'[k] = versions[k]
         /\ versions'[i] # <<>> /\ Len(versions[i]) + 1 \in DOMAIN versions'[i]
<1>1. versions' = [versions EXCEPT ![i] = Append(versions[i], v)]
  BY DEF InsertVersion, DocumentsTypeOK
<1>2. versions[i] \in Seq(DocumentTemplateVersion) /\ versions'[i] = Append(versions[i], v)
  BY <1>1 DEF DocumentsTypeOK
<1>3. /\ Len(versions[i]) + 1 \in DOMAIN versions'[i]
      /\ \A n \in DOMAIN versions[i] : n \in DOMAIN versions'[i] /\ versions'[i][n] = versions[i][n]
  BY <1>2
<1>4. \A k \in Ids : k # i => versions'[k] = versions[k]
  BY <1>1 DEF DocumentsTypeOK
<1> QED
  BY <1>3, <1>4

\* A new template is the last, and what was there stays as it was.
LEMMA TemplateAdded ==
  ASSUME DocumentsTypeOK, NEW t, template' = Append(template, t)
  PROVE  /\ \A i \in DOMAIN template : i \in DOMAIN template' /\ template'[i] = template[i]
         /\ DOMAIN template' = DOMAIN template \cup {Len(template) + 1}
         /\ Len(template) + 1 \notin DOMAIN template
         /\ template'[Len(template) + 1] = t
         /\ Len(template') = Len(template) + 1
BY DEF DocumentsTypeOK

\* No step takes away a template or a version, changes a template's type or a
\* version's text, or adds a version to a template that is not there.
LEMMA RowsGrow ==
  ASSUME DocumentsTypeOK, Rows, EditorsKnow, SelectionsKnow, [Next]_vars
  PROVE  Grows /\ Rows'
<1> USE DEF studio
<1>1. /\ DOMAIN template \subseteq Ids
      /\ \A e \in Editors : editor[e] # None => editor[e].id \in Ids /\ editor[e].id \in DOMAIN template
  BY DefaultIds DEF EditorsKnow
<1>2. ASSUME UNCHANGED studio PROVE Grows /\ Rows'
  BY <1>2 DEF Grows, Rows
<1>3. ASSUME UNCHANGED template, NEW i \in DOMAIN template, NEW v, InsertVersion(i, v)
      PROVE  Grows /\ Rows'
  <2>1. /\ \A k \in Ids : \A n \in DOMAIN versions[k] :
             n \in DOMAIN versions'[k] /\ versions'[k][n] = versions[k][n]
        /\ \A k \in Ids : k # i => versions'[k] = versions[k]
    BY <1>1, <1>3, InsertGrows
  <2> QED
    BY <1>3, <2>1 DEF Grows, Rows
<1>4. ASSUME UNCHANGED versions, NEW t, template' = Append(template, t), Len(template) < MaxTemplates
      PROVE  Grows /\ Rows'
  BY <1>4, TemplateAdded, DocumentsAssumption DEF Grows, Rows, DocumentsTypeOK
<1>5. ASSUME DOMAIN template' = DOMAIN template, Len(template') = Len(template),
             \A i \in DOMAIN template : template'[i].type = template[i].type,
             UNCHANGED versions \/ \E i \in DOMAIN template : \E v : InsertVersion(i, v)
      PROVE  Grows /\ Rows'
  <2>1. CASE UNCHANGED versions
    BY <1>5, <2>1 DEF Grows, Rows
  <2>2. ASSUME NEW i \in DOMAIN template, NEW v, InsertVersion(i, v) PROVE Grows /\ Rows'
    <3>1. /\ \A k \in Ids : \A n \in DOMAIN versions[k] :
               n \in DOMAIN versions'[k] /\ versions'[k][n] = versions[k][n]
          /\ \A k \in Ids : k # i => versions'[k] = versions[k]
      BY <1>1, <2>2, InsertGrows
    <3> QED
      BY <1>5, <2>2, <3>1 DEF Grows, Rows
  <2> QED
    BY <1>5, <2>1, <2>2
<1>6. ASSUME NEW e \in Editors, EditorStep(e) PROVE Grows /\ Rows'
  <2>1. ASSUME NEW type \in TypeNames, CreateDocumentTemplate(e, type) PROVE Grows /\ Rows'
    BY <1>4, <2>1 DEF CreateDocumentTemplate
  <2>2. ASSUME NEW text \in {"built-in", "custom"}, CreateFirstVersion(e, text) PROVE Grows /\ Rows'
    BY <1>1, <1>2, <1>3, <2>2 DEF CreateFirstVersion, Editing
  <2>3. ASSUME NEW text \in {"built-in", "custom"}, SaveTemplate(e, text) PROVE Grows /\ Rows'
    <3> DEFINE i == editor[e].id
    <3>1. i \in DOMAIN template
      BY <1>1, <2>3 DEF SaveTemplate, Editing
    <3>2. CASE UNCHANGED studio
      BY <1>2, <3>2
    <3>3. CASE /\ template' = [template EXCEPT ![i].status = "draft"]
               /\ InsertVersion(i, Version(text, FALSE))
      <4>1. /\ DOMAIN template' = DOMAIN template /\ Len(template') = Len(template)
            /\ \A k \in DOMAIN template : template'[k].type = template[k].type
        BY <3>3 DEF DocumentsTypeOK, DocumentTemplate
      <4> QED
        BY <1>5, <3>1, <3>3, <4>1
    <3> QED
      BY <2>3, <3>2, <3>3 DEF SaveTemplate
  <2>4. CASE PublishTx(e)
    <3> DEFINE i == editor[e].id
    <3>1. i \in Ids /\ i \in DOMAIN template
      BY <1>1, <2>4 DEF PublishTx, Editing
    <3>2. /\ DOMAIN template' = DOMAIN template /\ Len(template') = Len(template)
          /\ \A k \in DOMAIN template : template'[k].type = template[k].type
      <4>1. /\ DOMAIN template' = DOMAIN template
            /\ \A k \in DOMAIN template : template'[k].type = template[k].type
        <5>1. template' = MadeDefault(i)
          BY <2>4 DEF PublishTx
        <5>2. DOMAIN template' = DOMAIN template
          BY <5>1 DEF MadeDefault
        <5>3. ASSUME NEW k \in DOMAIN template PROVE template'[k].type = template[k].type
          <6>1. template[k] \in DocumentTemplate
            BY DEF DocumentsTypeOK
          <6>2. \/ template'[k] = [template[k] EXCEPT !.default = TRUE, !.status = "published"]
                \/ template'[k] = [template[k] EXCEPT !.default = FALSE]
                \/ template'[k] = template[k]
            BY <5>1 DEF MadeDefault
          <6> QED
            BY <6>1, <6>2 DEF DocumentTemplate
        <5> QED
          BY <5>2, <5>3
      <4>2. template' \in Seq(DocumentTemplate)
        BY <1>6, StudioTypes DEF DocumentsTypeOK
      <4>3. Len(template') = Len(template)
        BY <4>1, <4>2 DEF DocumentsTypeOK
      <4> QED
        BY <4>1, <4>3
    <3>3. /\ \A k \in Ids : k # i => versions'[k] = versions[k]
          /\ DOMAIN versions'[i] = DOMAIN versions[i]
          /\ \A n \in DOMAIN versions[i] : versions'[i][n].text = versions[i][n].text
      BY <2>4, <3>1 DEF PublishTx, DocumentsTypeOK, DocumentTemplateVersion
    <3> QED
      BY <3>1, <3>2, <3>3 DEF Grows, Rows
  <2> QED
    BY <1>2, <1>6, <2>1, <2>2, <2>3, <2>4
       DEF EditorStep, UpdateDocumentTemplate, PublishDocumentTemplate, AbandonEdit
<1>7. ASSUME NEW p \in AllReaders, SelectionStep(p) PROVE Grows /\ Rows'
  <2>1. CASE CreateDefaultTemplate(p)
    BY <1>4, <2>1 DEF CreateDefaultTemplate
  <2>2. CASE CreateDefaultVersion(p)
    <3>1. reader[p].id \in DOMAIN template
      BY <2>2 DEF CreateDefaultVersion, Selecting, SelectionsKnow
    <3> QED
      BY <1>2, <1>3, <2>2, <3>1 DEF CreateDefaultVersion
  <2>3. CASE NameDefault(p)
    <3>1. /\ DOMAIN template' = DOMAIN template /\ Len(template') = Len(template)
          /\ \A k \in DOMAIN template : template'[k].type = template[k].type
      BY <2>3 DEF NameDefault, DocumentsTypeOK, DocumentTemplate
    <3> QED
      BY <1>5, <2>3, <3>1 DEF NameDefault
  <2> QED
    BY <1>2, <1>7, <2>1, <2>2, <2>3
       DEF SelectionStep, SelectDocumentTemplateVersion, EnsureDefaultDocumentTemplate, LatestOfDefault
<1> QED
  BY <1>2, <1>6, <1>7
     DEF Next, vars, AllReaders, UpdateSettings, EnsureInvoice, EnsureInvoicePDF, EnsureCertificatePDFBytes,
         SelectToPrint, SyncCourseCompletion, StatementFails, AbandonSelection, Crash

-----------------------------------------------------------------------------
(* What a step of a selection does, in terms of the state it leads to. *)

\* A selection goes on, at a template of its type, which for a start is a default.
Reaches(p, pc, i, n) ==
  /\ GoTo(p, pc, i, n) /\ UNCHANGED <<doc, up>>
  /\ pc \in {"latest", "insert", "name"} =>
       /\ i \in DOMAIN template' /\ template'[i].type = reader[p].type
       /\ p = Boot => template'[i].default
  /\ pc = "name" => n \in DOMAIN versions'[i]
  /\ pc = "create" => Defaults(reader[p].type) = {} \/ failures' # failures

\* A selection ends, with none or with a version of a template of its type.
Finds(p, v) ==
  /\ Outcome(p, v)
  /\ v # NoVersion =>
       /\ v[1] \in DOMAIN template' /\ template'[v[1]].type = reader[p].type
       /\ p = Boot => template'[v[1]].default
       /\ v[2] \in DOMAIN versions'[v[1]]

\* A selection goes on at a template of its type, or ends with a version of one.
LEMMA SelectionMoves ==
  ASSUME DocumentsTypeOK, Rows, SelectionsKnow, BootKnows, NEW p \in AllReaders,
         SelectionStep(p) \/ StatementFails(p)
  PROVE  /\ reader[p] # None /\ UNCHANGED <<chosen, editor, crashes>>
         /\ failures' = failures \/ failures' = failures + 1
         /\ \/ \E pc \in {"default", "latest", "create", "insert", "name"},
                  i \in 0 .. MaxTemplates, n \in Nat : Reaches(p, pc, i, n)
            \/ \E v \in Nat \X Nat : Finds(p, v)
<1> USE DEF studio
<1> DEFINE s == reader[p]
           Pcs == {"default", "latest", "create", "insert", "name"}
           Goal == \/ \E pc \in Pcs, i \in 0 .. MaxTemplates, n \in Nat : Reaches(p, pc, i, n)
                   \/ \E v \in Nat \X Nat : Finds(p, v)
<1>a. ASSUME NEW pc \in Pcs, NEW i \in 0 .. MaxTemplates, NEW n \in Nat, Reaches(p, pc, i, n) PROVE Goal
  BY <1>a, Zenon
<1>b. ASSUME NEW v \in Nat \X Nat, Finds(p, v) PROVE Goal
  BY <1>b, Zenon
<1>1. s # None /\ s \in Selection /\ s.id \in 0 .. MaxTemplates /\ s.n \in Nat /\ s.type \in TypeNames
  BY RequestTypes
     DEF Selection, SelectionStep, StatementFails, SelectDocumentTemplateVersion,
         EnsureDefaultDocumentTemplate, LatestOfDefault, CreateDefaultTemplate,
         CreateDefaultVersion, NameDefault, Selecting
<1>2. /\ UNCHANGED <<chosen, editor, crashes>>
      /\ failures' = failures \/ failures' = failures + 1
  BY DEF SelectionStep, StatementFails, SelectDocumentTemplateVersion,
         EnsureDefaultDocumentTemplate, LatestOfDefault, CreateDefaultTemplate,
         CreateDefaultVersion, NameDefault
<1> SUFFICES Goal
  BY <1>1, <1>2
<1> HIDE DEF Goal
<1>3. /\ MaxTemplates \in Nat /\ 0 \in 0 .. MaxTemplates /\ 0 \in Nat
      /\ \A i \in DOMAIN template : i \in Ids /\ i \in 0 .. MaxTemplates /\ i \in Nat
      /\ \A i \in DOMAIN template : /\ Len(versions[i]) \in Nat
                                    /\ versions[i] # <<>> => Len(versions[i]) \in DOMAIN versions[i]
      /\ NoVersion \in Nat \X Nat
  BY DocumentsAssumption DEF DocumentsTypeOK, Rows, Ids, NoVersion
<1>4. s.pc \in {"latest", "insert", "name"} =>
        /\ s.id \in DOMAIN template /\ template[s.id].type = s.type
        /\ p = Boot => template[s.id].default
  BY <1>1 DEF SelectionsKnow, BootKnows
<1>5. ASSUME Outcome(p, NoVersion) PROVE Goal
  BY <1>3, <1>5, <1>b DEF Finds
<1>6. ASSUME UNCHANGED studio, NEW i \in DOMAIN template, template[i].type = s.type,
             p = Boot => template[i].default, NEW n \in DOMAIN versions[i], Outcome(p, <<i, n>>)
      PROVE  Goal
  <2>1. n \in Nat /\ <<i, n>> \in Nat \X Nat /\ <<i, n>>[1] = i /\ <<i, n>>[2] = n
    BY <1>3 DEF DocumentsTypeOK
  <2>2. Finds(p, <<i, n>>)
    BY <1>6, <2>1 DEF Finds
  <2> QED
    BY <1>b, <2>1, <2>2
<1>7. ASSUME GoTo(p, "default", 0, 0), UNCHANGED <<doc, up>> PROVE Goal
  <2>1. Reaches(p, "default", 0, 0)
    BY <1>7 DEF Reaches
  <2> QED
    BY <1>3, <1>a, <2>1
<1>8. CASE SelectDocumentTemplateVersion(p)
  <2>1. CASE GoTo(p, "default", 0, 0) /\ UNCHANGED <<doc, up>>
    BY <1>7, <2>1
  <2>2. CASE \E i \in DOMAIN template : /\ template[i].type = s.type /\ versions[i] # <<>>
                                         /\ Outcome(p, <<i, Len(versions[i])>>)
    <3>1. p # Boot
      BY <1>1, <1>8 DEF SelectDocumentTemplateVersion, Selecting, BootKnows
    <3> QED
      BY <1>3, <1>6, <1>8, <2>2, <3>1 DEF SelectDocumentTemplateVersion
  <2> QED
    BY <1>8, <2>1, <2>2 DEF SelectDocumentTemplateVersion
<1>9. CASE EnsureDefaultDocumentTemplate(p)
  <2> DEFINE found == Defaults(s.type)
  <2>0. UNCHANGED <<studio, doc, up>>
    BY <1>9 DEF EnsureDefaultDocumentTemplate
  <2>1. CASE found = {} /\ GoTo(p, "create", 0, 0)
    <3>1. Reaches(p, "create", 0, 0)
      BY <2>0, <2>1 DEF Reaches
    <3> QED
      BY <1>3, <1>a, <3>1
  <2>2. CASE found # {} /\ GoTo(p, "latest", Oldest(found), 0)
    <3>1. Oldest(found) \in found /\ Oldest(found) \in DOMAIN template
      BY <2>2, DefaultIds
    <3>2. Reaches(p, "latest", Oldest(found), 0)
      BY <2>0, <2>2, <3>1 DEF Reaches, Defaults
    <3> QED
      BY <1>3, <1>a, <3>1, <3>2
  <2> QED
    BY <1>9, <2>1, <2>2 DEF EnsureDefaultDocumentTemplate
<1>10. CASE LatestOfDefault(p)
  <2>0. UNCHANGED studio /\ s.pc = "latest"
    BY <1>10 DEF LatestOfDefault, Selecting
  <2>1. CASE Outcome(p, NoVersion)
    BY <1>5, <2>1
  <2>2. CASE versions[s.id] # <<>> /\ Outcome(p, <<s.id, Len(versions[s.id])>>)
    BY <1>3, <1>4, <1>6, <2>0, <2>2
  <2>3. CASE GoTo(p, "insert", s.id, Len(versions[s.id]) + 1) /\ UNCHANGED <<doc, up>>
    <3>1. Reaches(p, "insert", s.id, Len(versions[s.id]) + 1)
      BY <1>4, <2>0, <2>3 DEF Reaches
    <3>2. Len(versions[s.id]) + 1 \in Nat
      BY <1>3, <1>4, <2>0
    <3> QED
      BY <1>1, <1>a, <3>1, <3>2
  <2>4. versions[s.id] \in Seq(DocumentTemplateVersion)
    BY <1>3, <1>4, <2>0 DEF DocumentsTypeOK
  <2> QED
    BY <1>10, <2>1, <2>2, <2>3, <2>4 DEF LatestOfDefault
<1>11. CASE CreateDefaultTemplate(p)
  <2>1. /\ GoTo(p, "insert", Len(template) + 1, 1) /\ UNCHANGED <<doc, up>>
        /\ Len(template) + 1 \in 0 .. MaxTemplates
    BY <1>3, <1>11 DEF CreateDefaultTemplate, DocumentsTypeOK
  <2>2. /\ Len(template) + 1 \in DOMAIN template'
        /\ template'[Len(template) + 1] =
             [type |-> s.type, status |-> "published", default |-> TRUE]
    BY <1>11, TemplateAdded DEF CreateDefaultTemplate
  <2>3. Reaches(p, "insert", Len(template) + 1, 1)
    BY <2>1, <2>2 DEF Reaches
  <2> QED
    BY <1>a, <2>1, <2>3
<1>12. CASE CreateDefaultVersion(p)
  <2>0. UNCHANGED template /\ s.pc = "insert" /\ s.id \in Ids
    BY <1>3, <1>4, <1>12 DEF CreateDefaultVersion, Selecting
  <2>1. CASE Outcome(p, NoVersion)
    BY <1>5, <2>1
  <2>2. CASE /\ Fits(s.id, s.n) /\ InsertVersion(s.id, Version("built-in", TRUE))
             /\ GoTo(p, "name", s.id, s.n) /\ UNCHANGED <<doc, up>>
    <3>1. s.n \in DOMAIN versions'[s.id]
      BY <2>0, <2>2, InsertGrows DEF Fits
    <3>2. Reaches(p, "name", s.id, s.n)
      BY <1>4, <2>0, <2>2, <3>1 DEF Reaches
    <3> QED
      BY <1>1, <1>a, <3>2
  <2> QED
    BY <1>12, <2>1, <2>2 DEF CreateDefaultVersion
<1>13. s.pc = "name" => s.n \in DOMAIN versions[s.id]
  BY <1>1 DEF SelectionsKnow
<1>14. CASE NameDefault(p)
  <2>1. /\ s.pc = "name" /\ UNCHANGED versions /\ Outcome(p, <<s.id, s.n>>)
        /\ template' = [template EXCEPT ![s.id].status = "published"]
    BY <1>14 DEF NameDefault, Selecting
  <2>2. s.id \in DOMAIN template' /\ template'[s.id].type = s.type /\ (p = Boot => template'[s.id].default)
    <3>1. s.id \in DOMAIN template /\ template[s.id] \in DocumentTemplate
      BY <1>4, <2>1 DEF DocumentsTypeOK
    <3>2. /\ DOMAIN template' = DOMAIN template
          /\ template'[s.id] = [template[s.id] EXCEPT !.status = "published"]
      BY <2>1, <3>1 DEF DocumentsTypeOK
    <3> QED
      BY <1>4, <2>1, <3>1, <3>2 DEF DocumentTemplate
  <2>3. Finds(p, <<s.id, s.n>>) /\ <<s.id, s.n>> \in Nat \X Nat
    BY <1>1, <1>13, <2>1, <2>2 DEF Finds
  <2> QED
    BY <1>b, <2>3
<1>15. CASE StatementFails(p)
  <2>1. UNCHANGED studio /\ failures' # failures
    BY <1>15 DEF StatementFails, DocumentsTypeOK
  <2>2. \/ GoTo(p, "default", 0, 0) /\ UNCHANGED <<doc, up>>
        \/ GoTo(p, "create", 0, 0) /\ UNCHANGED <<doc, up>>
        \/ s.pc = "name" /\ Outcome(p, <<s.id, s.n>>)
        \/ Outcome(p, NoVersion)
    BY <1>15, Zenon DEF StatementFails
  <2>3. CASE GoTo(p, "create", 0, 0) /\ UNCHANGED <<doc, up>>
    <3>1. Reaches(p, "create", 0, 0)
      BY <2>1, <2>3 DEF Reaches
    <3> QED
      BY <1>3, <1>a, <3>1
  <2>4. CASE s.pc = "name" /\ Outcome(p, <<s.id, s.n>>)
    BY <1>4, <1>6, <1>13, <2>1, <2>4
  <2> QED
    BY <1>5, <1>7, <2>2, <2>3, <2>4
<1> QED
  BY <1>8, <1>9, <1>10, <1>11, <1>12, <1>14, <1>15 DEF SelectionStep

-----------------------------------------------------------------------------
(* Requests and starts. *)

\* A step of the studio, of the settings or of a request is taken while the
\* server serves; one of a request touches no start.
LEMMA WhileUp ==
  ASSUME DocumentsTypeOK, StartsAlone
  PROVE  /\ \A e \in Editors : EditorStep(e) =>
              up /\ reader[Boot] = None /\ UNCHANGED <<up, reader, doc, chosen, failures>>
         /\ \A type \in TypeNames, i \in 0 .. MaxTemplates : UpdateSettings(type, i) =>
              up /\ reader[Boot] = None /\ UNCHANGED <<studio, doc, editor, up, reader, failures>>
         /\ \A p \in AllReaders : p # Boot /\ reader[p] # None => up /\ reader[Boot] = None
<1>1. ASSUME NEW e \in Editors, EditorStep(e)
      PROVE  up /\ reader[Boot] = None /\ UNCHANGED <<up, reader, doc, chosen, failures>>
  <2>1. up \/ editor[e] # None
    BY <1>1 DEF EditorStep, CreateDocumentTemplate, CreateFirstVersion, UpdateDocumentTemplate,
               SaveTemplate, PublishDocumentTemplate, PublishTx, AbandonEdit, Editing
  <2>2. up /\ reader[Boot] = None
    BY <2>1 DEF StartsAlone
  <2> QED
    BY <1>1, <2>2 DEF EditorStep, CreateDocumentTemplate, CreateFirstVersion, UpdateDocumentTemplate,
               SaveTemplate, PublishDocumentTemplate, PublishTx, AbandonEdit, studio
<1>2. ASSUME NEW type \in TypeNames, NEW i \in 0 .. MaxTemplates, UpdateSettings(type, i)
      PROVE  up /\ reader[Boot] = None /\ UNCHANGED <<studio, doc, editor, up, reader, failures>>
  BY <1>2 DEF UpdateSettings, StartsAlone, studio
<1>3. ASSUME NEW p \in AllReaders, p # Boot, reader[p] # None
      PROVE  up /\ reader[Boot] = None
  BY <1>3 DEF StartsAlone, AllReaders
<1> QED
  BY <1>1, <1>2, <1>3

\* What a request that selects begins with.
LEMMA RequestBegins ==
  ASSUME DocumentsTypeOK, StartsAlone, NEW p \in Readers, NEW d \in Docs,
         \/ EnsureInvoice(p, d) \/ EnsureInvoicePDF(p, d)
         \/ SyncCourseCompletion(p, d) \/ EnsureCertificatePDFBytes(p, d)
  PROVE  /\ up /\ reader[Boot] = None /\ p # Boot /\ UNCHANGED <<studio, editor, up, failures>>
         /\ reader'[p].pc = "choice" /\ reader'[p].doc = d /\ reader'[p].type = TypeOf[d]
         /\ \A q \in AllReaders : q # p => reader'[q] = reader[q]
         /\ \A c \in Docs : doc'[c] = doc[c] \/ (doc'[c] = NoVersion /\ ~Issued(c))
<1>1. up /\ reader[Boot] = None /\ p # Boot
  BY DocumentsAssumption DEF EnsureInvoice, EnsureInvoicePDF, SyncCourseCompletion,
     EnsureCertificatePDFBytes, SelectToPrint, StartsAlone
<1>2. UNCHANGED <<studio, editor, up, failures>> /\ \E print \in BOOLEAN : Select(p, d, print)
  BY DEF EnsureInvoice, EnsureInvoicePDF, SyncCourseCompletion, EnsureCertificatePDFBytes,
         SelectToPrint, studio
<1>3. \A c \in Docs : doc'[c] = doc[c] \/ (doc'[c] = NoVersion /\ ~Issued(c))
  <2>1. CASE SyncCourseCompletion(p, d)
    <3>1. doc' = IF Issued(d) THEN doc ELSE [doc EXCEPT ![d] = NoVersion]
      BY <2>1 DEF SyncCourseCompletion
    <3>2. CASE Issued(d)
      BY <3>1, <3>2
    <3>3. CASE ~Issued(d)
      <4>1. doc' = [doc EXCEPT ![d] = NoVersion]
        BY <3>1, <3>3
      <4> QED
        BY <3>3, <4>1 DEF DocumentsTypeOK
    <3> QED
      BY <3>2, <3>3
  <2>2. CASE UNCHANGED doc
    BY <2>2
  <2> QED
    BY <2>1, <2>2 DEF EnsureInvoice, EnsureInvoicePDF, EnsureCertificatePDFBytes, SelectToPrint
<1> QED
  BY <1>1, <1>2, <1>3 DEF Select, DocumentsTypeOK, AllReaders

\* Whose request ends and what it leads to, without the updates of functions.
LEMMA OutcomeIs ==
  ASSUME DocumentsTypeOK, NEW p \in AllReaders, reader[p] # None, NEW v, Outcome(p, v)
  PROVE  /\ \A q \in AllReaders : q # p => reader'[q] = reader[q]
         /\ p # Boot => /\ reader'[p] = None /\ UNCHANGED up
                        /\ \A d \in Docs :
                             \/ doc'[d] = doc[d]
                             \/ /\ d = reader[p].doc /\ doc'[d] = v
                                /\ ~(reader[p].type = Invoice /\ Issued(d))
         /\ p = Boot => /\ UNCHANGED doc /\ (up' <=> reader'[Boot] = None)
                        /\ up' <=> v # NoVersion /\ NextType(reader[Boot].type) = None
                        /\ ~up' => reader'[Boot] = IF v = NoVersion THEN Seeding(Invoice)
                                                   ELSE Seeding(NextType(reader[Boot].type))
<1> DEFINE next == NextType(reader[Boot].type)
<1>1. CASE p # Boot
  <2>1. /\ reader' = [reader EXCEPT ![p] = None] /\ UNCHANGED up
        /\ doc' = IF reader[p].print \/ (reader[p].type = Invoice /\ Issued(reader[p].doc)) THEN doc
                  ELSE [doc EXCEPT ![reader[p].doc] = v]
    BY <1>1 DEF Outcome
  <2>2. reader'[p] = None /\ \A q \in AllReaders : q # p => reader'[q] = reader[q]
    BY <2>1 DEF DocumentsTypeOK
  <2>3. \A d \in Docs :
          \/ doc'[d] = doc[d]
          \/ d = reader[p].doc /\ doc'[d] = v /\ ~(reader[p].type = Invoice /\ Issued(d))
    <3>1. CASE reader[p].print \/ (reader[p].type = Invoice /\ Issued(reader[p].doc))
      BY <2>1, <3>1
    <3>2. CASE ~(reader[p].print \/ (reader[p].type = Invoice /\ Issued(reader[p].doc)))
      <4>1. doc' = [doc EXCEPT ![reader[p].doc] = v]
        BY <2>1, <3>2
      <4> QED
        BY <3>2, <4>1 DEF DocumentsTypeOK
    <3> QED
      BY <3>1, <3>2
  <2> QED
    BY <1>1, <2>1, <2>2, <2>3
<1>2. CASE p = Boot
  <2> DEFINE then == IF v = NoVersion THEN Seeding(Invoice)
                     ELSE IF next = None THEN None ELSE Seeding(next)
  <2>1. reader' = [reader EXCEPT ![Boot] = then] /\ (up' <=> v # NoVersion /\ next = None) /\ UNCHANGED doc
    BY <1>2 DEF Outcome
  <2>2. reader'[Boot] = then /\ \A q \in AllReaders : q # p => reader'[q] = reader[q]
    <3> HIDE DEF then
    <3> QED
      BY <1>2, <2>1 DEF DocumentsTypeOK
  <2>3. reader[Boot].type \in TypeNames
    BY <1>2, RequestTypes DEF Selection
  <2>4. Seeding(Invoice) # None /\ (next # None => Seeding(next) # None)
    BY <2>3, TypesInOrder, NoneAssumption
  <2>5. up' <=> reader'[Boot] = None
    BY <2>1, <2>2, <2>4
  <2>6. ~up' => reader'[Boot] = IF v = NoVersion THEN Seeding(Invoice) ELSE Seeding(next)
    BY <2>1, <2>2
  <2> QED
    BY <1>2, <2>1, <2>2, <2>5, <2>6
<1> QED
  BY <1>1, <1>2

\* A start that ends well serves and one that ends badly is begun again, and a
\* stop leaves nothing but a start.
LEMMA StartsAloneKept ==
  ASSUME DocumentsTypeOK, Rows, SelectionsKnow, BootKnows, StartsAlone, [Next]_vars
  PROVE  StartsAlone'
<1> USE DEF studio
<1>1. CASE UNCHANGED vars
  BY <1>1 DEF vars, StartsAlone
<1>2. ASSUME NEW e \in Editors, EditorStep(e) PROVE StartsAlone'
  BY <1>2, WhileUp DEF StartsAlone
<1>3. ASSUME NEW type \in TypeNames, NEW i \in 0 .. MaxTemplates, UpdateSettings(type, i)
      PROVE  StartsAlone'
  BY <1>3, WhileUp DEF StartsAlone
<1>4. ASSUME NEW p \in Readers, NEW d \in Docs,
             \/ EnsureInvoice(p, d) \/ EnsureInvoicePDF(p, d)
             \/ SyncCourseCompletion(p, d) \/ EnsureCertificatePDFBytes(p, d)
      PROVE  StartsAlone'
  BY <1>4, RequestBegins DEF StartsAlone, AllReaders
<1>5. ASSUME NEW p \in AllReaders, SelectionStep(p) \/ StatementFails(p) PROVE StartsAlone'
  <2>1. reader[p] # None /\ UNCHANGED editor
    BY <1>5, SelectionMoves
  <2>2. ASSUME NEW pc \in {"default", "latest", "create", "insert", "name"},
               NEW i \in 0 .. MaxTemplates, NEW n \in Nat, Reaches(p, pc, i, n)
        PROVE  StartsAlone'
    <3>0. GoTo(p, pc, i, n) /\ UNCHANGED up
      BY <2>2 DEF Reaches
    <3>1. /\ reader' = [reader EXCEPT ![p] = reader'[p]] /\ UNCHANGED up
          /\ reader' \in [AllReaders -> {None} \cup Selection]
      BY <2>1, <3>0, GoToTypes
    <3>2. reader'[p] # None
      <4>1. reader'[p] \in Selection
        BY <2>1, <3>0, GoToTypes
      <4> QED
        BY <4>1, NoneAssumption, Zenon
    <3>3. \A q \in AllReaders : reader'[q] = None <=> reader[q] = None
      BY <2>1, <3>1, <3>2 DEF DocumentsTypeOK
    <3> QED
      BY <2>1, <3>1, <3>3 DEF StartsAlone, AllReaders
  <2>3. ASSUME NEW v \in Nat \X Nat, Finds(p, v) PROVE StartsAlone'
    <3>1. Outcome(p, v)
      BY <2>3 DEF Finds
    <3>2. \A q \in AllReaders : q # p => reader'[q] = reader[q]
      BY <2>1, <3>1, OutcomeIs
    <3>3. CASE p # Boot
      <4>1. up /\ reader[Boot] = None /\ UNCHANGED up
        BY <2>1, <3>1, <3>3, WhileUp, OutcomeIs
      <4> QED
        BY <3>2, <3>3, <4>1 DEF StartsAlone, AllReaders
    <3>4. CASE p = Boot
      <4>1. ~up /\ (up' <=> reader'[Boot] = None)
        BY <2>1, <3>1, <3>4, OutcomeIs DEF StartsAlone
      <4> QED
        BY <2>1, <3>2, <3>4, <4>1, DocumentsAssumption DEF StartsAlone, AllReaders
    <3> QED
      BY <3>3, <3>4
  <2> QED
    BY <1>5, <2>2, <2>3, SelectionMoves
<1>6. ASSUME NEW p \in AllReaders, AbandonSelection(p) PROVE StartsAlone'
  BY <1>6, WhileUp DEF AbandonSelection, StartsAlone, DocumentsTypeOK, AllReaders
<1>7. CASE Crash
  <2>1. Seeding(Invoice) # None
    BY TypesInOrder, NoneAssumption
  <2>2. reader' = [p \in AllReaders |-> IF p = Boot THEN Seeding(Invoice) ELSE None]
    BY <1>7 DEF Crash, DocumentsTypeOK
  <2>3. reader'[Boot] = Seeding(Invoice) /\ \A p \in Readers : reader'[p] = None
    BY <2>2, DocumentsAssumption DEF AllReaders
  <2>4. up' = FALSE /\ editor' = [e \in Editors |-> None]
    BY <1>7 DEF Crash
  <2> QED
    BY <2>1, <2>3, <2>4 DEF StartsAlone
<1> QED
  BY <1>1, <1>2, <1>3, <1>4, <1>5, <1>6, <1>7 DEF Next, AllReaders

-----------------------------------------------------------------------------
(* What the requests in progress know. *)

\* A template that has a version keeps one.
LEMMA NonEmptyKept ==
  ASSUME DocumentsTypeOK, Grows, NEW i \in Ids, versions[i] # <<>>
  PROVE  versions'[i] # <<>>
<1>1. versions[i] \in Seq(DocumentTemplateVersion)
  BY DEF DocumentsTypeOK
<1>2. 1 \in DOMAIN versions[i]
  BY <1>1
<1>3. 1 \in DOMAIN versions'[i]
  BY <1>2 DEF Grows
<1> QED
  BY <1>3

\* What a studio request has read stays true.
LEMMA EditorsKnowKept ==
  ASSUME DocumentsTypeOK, Rows, SelectionsKnow, BootKnows, StartsAlone, EditorsKnow, Grows, [Next]_vars
  PROVE  EditorsKnow'
<1> USE DEF studio
<1> DEFINE Kept(e) == editor'[e] # None =>
             /\ editor'[e].id \in DOMAIN template'
             /\ editor'[e].pc = "publish" => versions'[editor'[e].id] # <<>>
<1>1. ASSUME NEW e \in Editors, editor'[e] = editor[e] PROVE Kept(e)
  <2>1. ASSUME editor[e] # None
        PROVE  /\ editor[e].id \in Ids /\ editor[e].id \in DOMAIN template
               /\ editor[e].pc = "publish" => versions[editor[e].id] # <<>>
    BY <2>1, DefaultIds DEF EditorsKnow
  <2> QED
    BY <1>1, <2>1, NonEmptyKept DEF Grows
<1>2. ASSUME UNCHANGED editor PROVE EditorsKnow'
  BY <1>1, <1>2 DEF EditorsKnow
<1>3. ASSUME NEW e \in Editors, EditorStep(e) PROVE EditorsKnow'
  <2>1. \A q \in Editors : q # e => editor'[q] = editor[q]
    BY <1>3 DEF EditorStep, CreateDocumentTemplate, CreateFirstVersion, UpdateDocumentTemplate,
               SaveTemplate, PublishDocumentTemplate, PublishTx, AbandonEdit, Open, Close, DocumentsTypeOK
  <2>2. Kept(e)
    <3>1. ASSUME Close(e) PROVE Kept(e)
      BY <3>1 DEF Close, DocumentsTypeOK
    <3>2. ASSUME NEW pc, NEW i, NEW n, Open(e, pc, i, n), i \in DOMAIN template',
                 pc = "publish" => versions'[i] # <<>>
          PROVE  Kept(e)
      <4>1. editor'[e] = [pc |-> pc, id |-> i, n |-> n]
        BY <3>2 DEF Open, DocumentsTypeOK
      <4> QED
        BY <3>2, <4>1
    <3>3. ASSUME NEW type \in TypeNames, CreateDocumentTemplate(e, type) PROVE Kept(e)
      <4>1. Len(template) + 1 \in DOMAIN template' /\ Open(e, "version", Len(template) + 1, 1)
        BY <3>3, TemplateAdded DEF CreateDocumentTemplate
      <4> QED
        BY <3>2, <4>1
    <3>4. ASSUME NEW i \in Ids, UpdateDocumentTemplate(e, i) PROVE Kept(e)
      BY <3>2, <3>4 DEF UpdateDocumentTemplate
    <3>5. ASSUME NEW i \in Ids, PublishDocumentTemplate(e, i) PROVE Kept(e)
      BY <3>2, <3>5 DEF PublishDocumentTemplate
    <3> HIDE DEF Kept
    <3> QED
      BY <1>3, <3>1, <3>3, <3>4, <3>5
         DEF EditorStep, CreateFirstVersion, SaveTemplate, PublishTx, AbandonEdit
  <2>3. \A q \in Editors : Kept(q)
    BY <1>1, <2>1, <2>2
  <2> QED
    BY <2>3 DEF EditorsKnow
<1>4. ASSUME NEW p \in AllReaders, SelectionStep(p) \/ StatementFails(p) PROVE EditorsKnow'
  BY <1>2, <1>4, SelectionMoves
<1>5. CASE Crash
  BY <1>5 DEF Crash, EditorsKnow
<1>6. ASSUME NEW p \in Readers, NEW d \in Docs,
             \/ EnsureInvoice(p, d) \/ EnsureInvoicePDF(p, d)
             \/ SyncCourseCompletion(p, d) \/ EnsureCertificatePDFBytes(p, d)
      PROVE  EditorsKnow'
  BY <1>2, <1>6, RequestBegins
<1> QED
  BY <1>2, <1>3, <1>4, <1>5, <1>6 DEF Next, AllReaders, vars, UpdateSettings, AbandonSelection

\* So does what a selection has read, and a step of it learns no more than is true.
LEMMA SelectionsKnowKept ==
  ASSUME DocumentsTypeOK, Rows, SelectionsKnow, BootKnows, StartsAlone, Grows, [Next]_vars
  PROVE  SelectionsKnow'
<1> USE DEF studio
<1> DEFINE Kept(p) == reader'[p] # None =>
             /\ p # Boot => reader'[p].doc \in Docs /\ reader'[p].type = TypeOf[reader'[p].doc]
             /\ reader'[p].pc \in {"latest", "insert", "name"} =>
                  /\ reader'[p].id \in DOMAIN template'
                  /\ template'[reader'[p].id].type = reader'[p].type
             /\ reader'[p].pc = "name" => reader'[p].n \in DOMAIN versions'[reader'[p].id]
<1>1. ASSUME NEW p \in AllReaders, reader'[p] = reader[p] PROVE Kept(p)
  <2>1. reader[p] # None => reader[p] \in Selection
    BY RequestTypes
  <2>2. DOMAIN template \subseteq Ids
    BY DefaultIds
  <2> QED
    BY <1>1, <2>1, <2>2 DEF SelectionsKnow, Grows, Selection
<1>2. ASSUME UNCHANGED reader PROVE SelectionsKnow'
  BY <1>1, <1>2 DEF SelectionsKnow
<1>3. ASSUME NEW type \in TypeNames PROVE Seeding(type) # None /\ Seeding(type).pc = "default"
  BY TypesInOrder, NoneAssumption DEF Seeding
<1>4. ASSUME NEW e \in Editors, EditorStep(e) PROVE SelectionsKnow'
  BY <1>2, <1>4, WhileUp
<1>5. ASSUME NEW p \in Readers, NEW d \in Docs,
             \/ EnsureInvoice(p, d) \/ EnsureInvoicePDF(p, d)
             \/ SyncCourseCompletion(p, d) \/ EnsureCertificatePDFBytes(p, d)
      PROVE  SelectionsKnow'
  <2>1. /\ reader'[p].pc = "choice" /\ reader'[p].doc = d /\ reader'[p].type = TypeOf[d]
        /\ \A q \in AllReaders : q # p => reader'[q] = reader[q]
    BY <1>5, RequestBegins
  <2>2. Kept(p)
    BY <2>1
  <2>3. \A q \in AllReaders : Kept(q)
    BY <1>1, <2>1, <2>2
  <2> QED
    BY <2>3 DEF SelectionsKnow
<1>6. ASSUME NEW p \in AllReaders, SelectionStep(p) \/ StatementFails(p) PROVE SelectionsKnow'
  <2>1. reader[p] # None
    BY <1>6, SelectionMoves
  <2>2. ASSUME NEW pc \in {"default", "latest", "create", "insert", "name"},
               NEW i \in 0 .. MaxTemplates, NEW n \in Nat, Reaches(p, pc, i, n)
        PROVE  Kept(p) /\ \A q \in AllReaders : q # p => reader'[q] = reader[q]
    <3>1. GoTo(p, pc, i, n)
      BY <2>2 DEF Reaches
    <3>2. reader' = [reader EXCEPT ![p] = reader'[p]]
      BY <2>1, <3>1, GoToTypes
    <3>3. /\ reader'[p].pc = pc /\ reader'[p].id = i /\ reader'[p].n = n
          /\ reader'[p].type = reader[p].type /\ reader'[p].doc = reader[p].doc
      BY <2>1, <3>1, GoToTypes
    <3>4. Kept(p)
      BY <2>1, <2>2, <3>3 DEF Reaches, SelectionsKnow
    <3> QED
      BY <3>2, <3>4 DEF DocumentsTypeOK
  <2>3. ASSUME NEW v \in Nat \X Nat, Finds(p, v)
        PROVE  Kept(p) /\ \A q \in AllReaders : q # p => reader'[q] = reader[q]
    <3>1. Outcome(p, v)
      BY <2>3 DEF Finds
    <3>2. reader'[p] = None \/ (p = Boot /\ reader'[p].pc = "default")
      <4>1. CASE p = Boot
        <5>1. reader[p].type \in TypeNames
          BY <2>1, RequestTypes DEF Selection
        <5>2. CASE up'
          BY <2>1, <3>1, <4>1, <5>2, OutcomeIs
        <5>3. CASE ~up'
          <6>1. reader'[Boot] = IF v = NoVersion THEN Seeding(Invoice)
                                ELSE Seeding(NextType(reader[Boot].type))
            BY <2>1, <3>1, <4>1, <5>3, OutcomeIs
          <6>2. Seeding(Invoice).pc = "default" /\ Seeding(NextType(reader[Boot].type)).pc = "default"
            BY DEF Seeding
          <6> QED
            BY <4>1, <6>1, <6>2
        <5> QED
          BY <5>2, <5>3
      <4> QED
        BY <2>1, <3>1, <4>1, OutcomeIs
    <3>3. Kept(p)
      BY <3>2
    <3> QED
      BY <2>1, <3>1, <3>3, OutcomeIs
  <2>4. Kept(p) /\ \A q \in AllReaders : q # p => reader'[q] = reader[q]
    <3> HIDE DEF Kept
    <3> QED
      BY <1>6, <2>2, <2>3, SelectionMoves
  <2>5. \A q \in AllReaders : Kept(q)
    BY <1>1, <2>4
  <2> QED
    BY <2>5 DEF SelectionsKnow
<1>7. ASSUME NEW p \in AllReaders, AbandonSelection(p) PROVE SelectionsKnow'
  <2>1. reader'[p] = None /\ \A q \in AllReaders : q # p => reader'[q] = reader[q]
    BY <1>7 DEF AbandonSelection, DocumentsTypeOK
  <2>2. \A q \in AllReaders : Kept(q)
    BY <1>1, <2>1
  <2> QED
    BY <2>2 DEF SelectionsKnow
<1>8. CASE Crash
  <2>1. reader' = [p \in AllReaders |-> IF p = Boot THEN Seeding(Invoice) ELSE None]
    BY <1>8 DEF Crash, DocumentsTypeOK
  <2>2. \A p \in AllReaders : reader'[p] = None \/ (p = Boot /\ reader'[p].pc = "default")
    BY <1>3, <2>1, TypesInOrder
  <2> QED
    BY <2>2 DEF SelectionsKnow
<1> QED
  BY <1>2, <1>4, <1>5, <1>6, <1>7, <1>8 DEF Next, AllReaders, vars, UpdateSettings

\* A start that goes on is at a default; nothing else happens while it does.
LEMMA BootKnowsKept ==
  ASSUME DocumentsTypeOK, Rows, SelectionsKnow, BootKnows, StartsAlone, [Next]_vars
  PROVE  BootKnows'
<1> USE DEF studio
<1>1. Seeding(Invoice).pc = "default" /\ \A type : Seeding(type).pc = "default"
  BY DEF Seeding
<1>2. CASE UNCHANGED vars
  BY <1>2 DEF vars, BootKnows
<1>3. ASSUME NEW e \in Editors, EditorStep(e) PROVE BootKnows'
  BY <1>3, WhileUp DEF BootKnows
<1>4. ASSUME NEW type \in TypeNames, NEW i \in 0 .. MaxTemplates, UpdateSettings(type, i) PROVE BootKnows'
  BY <1>4, WhileUp DEF BootKnows
<1>5. ASSUME NEW p \in Readers, NEW d \in Docs,
             \/ EnsureInvoice(p, d) \/ EnsureInvoicePDF(p, d)
             \/ SyncCourseCompletion(p, d) \/ EnsureCertificatePDFBytes(p, d)
      PROVE  BootKnows'
  BY <1>5, RequestBegins DEF BootKnows, AllReaders
<1>6. ASSUME NEW p \in AllReaders, SelectionStep(p) \/ StatementFails(p) PROVE BootKnows'
  <2>1. reader[p] # None
    BY <1>6, SelectionMoves
  <2>2. ASSUME NEW pc \in {"default", "latest", "create", "insert", "name"},
               NEW i \in 0 .. MaxTemplates, NEW n \in Nat, Reaches(p, pc, i, n)
        PROVE  BootKnows'
    <3>0. GoTo(p, pc, i, n)
      BY <2>2 DEF Reaches
    <3>1. /\ reader' = [reader EXCEPT ![p] = reader'[p]]
          /\ reader'[p].pc = pc /\ reader'[p].id = i
      BY <2>1, <3>0, GoToTypes
    <3>2. CASE p = Boot
      <4>1. reader'[Boot].pc = pc /\ reader'[Boot].id = i
        BY <3>1, <3>2
      <4> QED
        BY <2>2, <3>2, <4>1 DEF BootKnows, Reaches
    <3>3. CASE p # Boot
      <4>1. reader'[Boot] = reader[Boot] /\ reader[Boot] = None
        BY <2>1, <3>1, <3>3, WhileUp DEF AllReaders, DocumentsTypeOK
      <4> QED
        BY <4>1 DEF BootKnows
    <3> QED
      BY <3>2, <3>3
  <2>3. ASSUME NEW v \in Nat \X Nat, Finds(p, v) PROVE BootKnows'
    <3>1. Outcome(p, v)
      BY <2>3 DEF Finds
    <3>2. CASE p = Boot
      <4>1. \/ reader'[Boot] = None
            \/ reader'[Boot] = Seeding(Invoice) \/ reader'[Boot] = Seeding(NextType(reader[Boot].type))
        BY <2>1, <3>1, <3>2, OutcomeIs
      <4>2. reader'[Boot] = None \/ reader'[Boot].pc = "default"
        BY <1>1, <4>1
      <4> QED
        BY <4>2 DEF BootKnows
    <3>3. CASE p # Boot
      <4>1. reader'[Boot] = reader[Boot] /\ reader[Boot] = None
        BY <2>1, <3>1, <3>3, OutcomeIs, WhileUp DEF AllReaders
      <4> QED
        BY <4>1 DEF BootKnows
    <3> QED
      BY <3>2, <3>3
  <2> QED
    BY <1>6, <2>2, <2>3, SelectionMoves
<1>7. ASSUME NEW p \in AllReaders, AbandonSelection(p) PROVE BootKnows'
  <2>1. reader'[Boot] = reader[Boot] /\ reader[Boot] = None
    BY <1>7, WhileUp DEF AbandonSelection, AllReaders, DocumentsTypeOK
  <2> QED
    BY <2>1 DEF BootKnows
<1>8. CASE Crash
  <2>1. reader'[Boot] = Seeding(Invoice)
    BY <1>8 DEF Crash, DocumentsTypeOK, AllReaders
  <2> QED
    BY <1>1, <2>1 DEF BootKnows
<1> QED
  BY <1>2, <1>3, <1>4, <1>5, <1>6, <1>7, <1>8 DEF Next, AllReaders

-----------------------------------------------------------------------------
(* The defaults. *)

\* No default is lost, and none comes.
KeepsDefaults ==
  \A i \in DOMAIN template : template[i].default => template'[i].default
AddsNoDefault ==
  \A i \in DOMAIN template' : template'[i].default => i \in DOMAIN template /\ template[i].default

\* Publishing makes one template the only default of its type; a selection adds a
\* default where it read that there is none; nothing else changes which there are.
LEMMA DefaultsChange ==
  ASSUME DocumentsTypeOK, Rows, EditorsKnow, SelectionsKnow, [Next]_vars
  PROVE  \/ KeepsDefaults /\ AddsNoDefault
         \/ \E e \in Editors : PublishTx(e)
         \/ \E p \in AllReaders : CreateDefaultTemplate(p) /\ KeepsDefaults
<1> USE DEF studio
<1>1. ASSUME UNCHANGED template PROVE KeepsDefaults /\ AddsNoDefault
  BY <1>1 DEF KeepsDefaults, AddsNoDefault
<1>2. ASSUME NEW i \in DOMAIN template, NEW status, template' = [template EXCEPT ![i].status = status]
      PROVE  KeepsDefaults /\ AddsNoDefault
  <2>1. \A k \in DOMAIN template : template[k] \in DocumentTemplate
    BY DEF DocumentsTypeOK
  <2>2. template' = [template EXCEPT ![i] = [template[i] EXCEPT !.status = status]]
    BY <1>2 DEF DocumentsTypeOK
  <2>3. /\ DOMAIN template' = DOMAIN template
        /\ \A k \in DOMAIN template : template'[k].default = template[k].default
    BY <2>1, <2>2 DEF DocumentTemplate
  <2> QED
    BY <2>3 DEF KeepsDefaults, AddsNoDefault
<1>3. ASSUME NEW e \in Editors, EditorStep(e), ~PublishTx(e) PROVE KeepsDefaults /\ AddsNoDefault
  <2>1. ASSUME NEW type \in TypeNames, CreateDocumentTemplate(e, type) PROVE KeepsDefaults /\ AddsNoDefault
    <3> DEFINE t == [type |-> type, status |-> "draft", default |-> FALSE]
    <3>1. template' = Append(template, t)
      BY <2>1 DEF CreateDocumentTemplate
    <3>2. /\ \A i \in DOMAIN template : i \in DOMAIN template' /\ template'[i] = template[i]
          /\ DOMAIN template' = DOMAIN template \cup {Len(template) + 1}
          /\ template'[Len(template) + 1] = t
      <4> HIDE DEF t
      <4> QED
        BY <3>1, TemplateAdded
    <3> QED
      BY <3>2 DEF KeepsDefaults, AddsNoDefault
  <2>2. ASSUME NEW text \in {"built-in", "custom"}, SaveTemplate(e, text)
        PROVE  KeepsDefaults /\ AddsNoDefault
    <3>1. editor[e].id \in DOMAIN template
      BY <2>2 DEF SaveTemplate, Editing, EditorsKnow
    <3> QED
      BY <1>1, <1>2, <2>2, <3>1 DEF SaveTemplate
  <2> QED
    BY <1>1, <1>3, <2>1, <2>2
       DEF EditorStep, CreateFirstVersion, UpdateDocumentTemplate, PublishDocumentTemplate, AbandonEdit
<1>4. ASSUME NEW p \in AllReaders, SelectionStep(p)
      PROVE  KeepsDefaults /\ (CreateDefaultTemplate(p) \/ AddsNoDefault)
  <2>1. CASE CreateDefaultTemplate(p)
    <3> DEFINE t == [type |-> reader[p].type, status |-> "published", default |-> TRUE]
    <3>1. template' = Append(template, t)
      BY <2>1 DEF CreateDefaultTemplate
    <3>2. \A i \in DOMAIN template : template'[i] = template[i]
      <4> HIDE DEF t
      <4> QED
        BY <3>1, TemplateAdded
    <3> QED
      BY <2>1, <3>2 DEF KeepsDefaults
  <2>2. CASE NameDefault(p)
    <3>1. /\ reader[p].id \in DOMAIN template
          /\ template' = [template EXCEPT ![reader[p].id].status = "published"]
      BY <2>2 DEF NameDefault, Selecting, SelectionsKnow
    <3> QED
      BY <1>2, <3>1
  <2> QED
    BY <1>1, <1>4, <2>1, <2>2
       DEF SelectionStep, SelectDocumentTemplateVersion, EnsureDefaultDocumentTemplate, LatestOfDefault,
           CreateDefaultVersion
<1> QED
  BY <1>1, <1>3, <1>4
     DEF Next, vars, AllReaders, UpdateSettings, EnsureInvoice, EnsureInvoicePDF, EnsureCertificatePDFBytes,
         SelectToPrint, SyncCourseCompletion, StatementFails, AbandonSelection, Crash

\* What publishing leaves as defaults.
LEMMA PublishDefaults ==
  ASSUME DocumentsTypeOK, Rows, EditorsKnow, NEW e \in Editors, PublishTx(e)
  PROVE  /\ DOMAIN template' = DOMAIN template
         /\ editor[e].id \in DOMAIN template /\ versions[editor[e].id] # <<>>
         /\ template'[editor[e].id].default
         /\ \A k \in DOMAIN template : k # editor[e].id =>
              template'[k].default <=>
                 (template[k].default /\ template[k].type # template[editor[e].id].type)
<1> DEFINE i == editor[e].id
<1>1. i \in DOMAIN template /\ versions[i] # <<>>
  BY DEF PublishTx, Editing, EditorsKnow
<1>2. \A k \in DOMAIN template : template[k] \in DocumentTemplate
  BY DEF DocumentsTypeOK
<1>3. DOMAIN template' = DOMAIN template
  BY DEF PublishTx, MadeDefault
<1>4. template'[i] = [template[i] EXCEPT !.default = TRUE, !.status = "published"]
  BY <1>1 DEF PublishTx, MadeDefault
<1>5. template'[i].default
  <2>1. template'[i].default = TRUE
    BY <1>1, <1>2, <1>4 DEF DocumentTemplate
  <2> QED
    BY <2>1
<1>6. ASSUME NEW k \in DOMAIN template, k # i
      PROVE  template'[k].default <=> (template[k].default /\ template[k].type # template[i].type)
  <2>1. template'[k] = IF template[k].type = template[i].type
                       THEN [template[k] EXCEPT !.default = FALSE] ELSE template[k]
    BY <1>6 DEF PublishTx, MadeDefault
  <2>2. template[k] \in DocumentTemplate
    BY <1>2
  <2>3. CASE template[k].type = template[i].type
    <3>1. template'[k].default = FALSE
      BY <2>1, <2>2, <2>3 DEF DocumentTemplate
    <3> QED
      BY <2>3, <3>1
  <2>4. CASE template[k].type # template[i].type
    <3>1. template'[k] = template[k]
      BY <2>1, <2>4
    <3> QED
      BY <2>4, <3>1
  <2> QED
    BY <2>3, <2>4
<1> QED
  BY <1>1, <1>3, <1>5, <1>6

\* While the server serves, and after a start has done with a type, the type has
\* a default that has a version.
LEMMA PreparedKept ==
  ASSUME DocumentsTypeOK, Rows, EditorsKnow, SelectionsKnow, BootKnows, StartsAlone, Prepared,
         Grows, [Next]_vars
  PROVE  Prepared'
<1> USE DEF studio
<1> DEFINE Has(j) == \E i \in Defaults(Types[j]) : versions[i] # <<>>
<1>1. ASSUME NEW j \in DOMAIN Types, Has(j) PROVE Has(j)'
  <2>1. PICK i \in DOMAIN template : template[i].type = Types[j] /\ template[i].default /\ versions[i] # <<>>
    BY <1>1 DEF Defaults
  <2>2. /\ i \in Ids /\ i \in DOMAIN template' /\ template'[i].type = Types[j]
        /\ versions'[i] # <<>>
    BY <2>1, DefaultIds, NonEmptyKept DEF Grows
  <2>3. ASSUME KeepsDefaults PROVE Has(j)'
    BY <2>1, <2>2, <2>3 DEF KeepsDefaults, Defaults
  <2>4. ASSUME NEW e \in Editors, PublishTx(e) PROVE Has(j)'
    <3>1. /\ editor[e].id \in DOMAIN template /\ versions[editor[e].id] # <<>>
          /\ template'[editor[e].id].default
          /\ i # editor[e].id =>
               template'[i].default <=>
                 (template[i].default /\ template[i].type # template[editor[e].id].type)
      BY <2>1, <2>4, PublishDefaults
    <3>2. CASE template[editor[e].id].type = Types[j]
      <4>1. /\ editor[e].id \in DOMAIN template' /\ template'[editor[e].id].type = Types[j]
            /\ versions'[editor[e].id] # <<>>
        BY <3>1, <3>2, DefaultIds, NonEmptyKept DEF Grows
      <4> QED
        BY <3>1, <4>1 DEF Defaults
    <3>3. CASE template[editor[e].id].type # Types[j]
      BY <2>1, <2>2, <3>1, <3>3 DEF Defaults
    <3> QED
      BY <3>2, <3>3
  <2> QED
    BY <2>3, <2>4, DefaultsChange
<1> HIDE DEF Has
<1>2. Prepared = \A j \in DOMAIN Types : Ready(j) => Has(j)
  BY DEF Prepared, Has
<1>3. Prepared' = \A j \in DOMAIN Types : Ready(j)' => Has(j)'
  BY DEF Prepared, Has
<1>4. ASSUME up PROVE Prepared'
  BY <1>1, <1>2, <1>3, <1>4 DEF Ready
<1>5. ASSUME UNCHANGED <<reader, up>> PROVE Prepared'
  BY <1>1, <1>2, <1>3, <1>5 DEF Ready
<1>6. ASSUME ~up', reader'[Boot] = Seeding(Invoice) PROVE Prepared'
  <2>1. ASSUME NEW j \in DOMAIN Types, Ready(j)' PROVE FALSE
    <3>1. PICK k \in DOMAIN Types : reader'[Boot].type = Types[k] /\ j < k
      BY <1>6, <2>1 DEF Ready
    <3>2. Types[k] = Types[1] /\ 1 \in DOMAIN Types /\ j \in Nat \ {0}
      BY <1>6, <3>1, DocumentsAssumption DEF Seeding, Invoice
    <3>3. k = 1
      BY <3>2, DocumentsAssumption
    <3> QED
      BY <3>1, <3>2, <3>3
  <2> QED
    BY <1>3, <2>1
<1>7. ASSUME SelectionStep(Boot) \/ StatementFails(Boot) PROVE Prepared'
  <2>1. reader[Boot] # None /\ ~up /\ reader[Boot] \in Selection /\ reader[Boot].type \in TypeNames
    BY <1>7, SelectionMoves, RequestTypes DEF StartsAlone, AllReaders, Selection
  <2>2. ASSUME NEW pc \in {"default", "latest", "create", "insert", "name"},
               NEW i \in 0 .. MaxTemplates, NEW n \in Nat, Reaches(Boot, pc, i, n)
        PROVE  Prepared'
    <3>1. GoTo(Boot, pc, i, n) /\ UNCHANGED up
      BY <2>2 DEF Reaches
    <3>3. reader'[Boot].type = reader[Boot].type
      BY <2>1, <3>1, GoToTypes DEF AllReaders
    <3> QED
      BY <1>1, <1>2, <1>3, <2>1, <3>1, <3>3 DEF Ready
  <2>3. ASSUME NEW v \in Nat \X Nat, Finds(Boot, v) PROVE Prepared'
    <3>1. Outcome(Boot, v) /\ Boot \in AllReaders
      BY <2>3 DEF Finds, AllReaders
    <3>2. CASE v = NoVersion
      BY <1>6, <2>1, <3>1, <3>2, OutcomeIs
    <3>3. CASE v # NoVersion
      <4>1. PICK k \in DOMAIN Types : reader[Boot].type = Types[k]
        BY <2>1 DEF TypeNames
      <4>2. NextType(reader[Boot].type) = IF k < Len(Types) THEN Types[k + 1] ELSE None
        BY <4>1, TypesInOrder
      <4>3. /\ Len(Types) \in Nat /\ DOMAIN Types = 1 .. Len(Types)
            /\ \A a, b \in DOMAIN Types : Types[a] = Types[b] => a = b
        BY DocumentsAssumption
      <4>4. Has(k)'
        <5>1. /\ v[1] \in DOMAIN template' /\ template'[v[1]].type = Types[k] /\ template'[v[1]].default
              /\ v[2] \in DOMAIN versions'[v[1]]
          BY <2>3, <3>3, <4>1 DEF Finds
        <5>2. versions'[v[1]] # <<>>
          BY <5>1
        <5> QED
          BY <5>1, <5>2 DEF Has, Defaults
      <4>5. ASSUME NEW j \in DOMAIN Types, Ready(j)', j # k PROVE j < k
        <5>1. CASE up'
          <6>1. NextType(reader[Boot].type) = None
            BY <2>1, <3>1, <5>1, OutcomeIs
          <6>2. ~(k < Len(Types))
            BY <4>2, <4>3, <6>1, NoneAssumption DEF TypeNames
          <6> QED
            BY <4>3, <4>5, <6>2
        <5>2. CASE ~up'
          <6>1. NextType(reader[Boot].type) # None /\ reader'[Boot] = Seeding(NextType(reader[Boot].type))
            BY <2>1, <3>1, <3>3, <5>2, OutcomeIs
          <6>2. k < Len(Types) /\ reader'[Boot].type = Types[k + 1] /\ k + 1 \in DOMAIN Types
            BY <4>2, <4>3, <6>1 DEF Seeding
          <6>3. PICK l \in DOMAIN Types : reader'[Boot].type = Types[l] /\ j < l
            BY <4>5, <5>2 DEF Ready
          <6>4. l = k + 1
            BY <4>3, <6>2, <6>3
          <6> QED
            BY <4>3, <4>5, <6>3, <6>4
        <5> QED
          BY <5>1, <5>2
      <4>6. \A j \in DOMAIN Types : j < k => Ready(j)
        BY <2>1, <4>1 DEF Ready
      <4> QED
        BY <1>1, <1>2, <1>3, <4>4, <4>5, <4>6
    <3> QED
      BY <3>2, <3>3
  <2> QED
    BY <1>7, <2>2, <2>3, SelectionMoves DEF AllReaders
<1>8. CASE Crash
  <2>1. reader'[Boot] = Seeding(Invoice) /\ up' = FALSE
    BY <1>8 DEF Crash, DocumentsTypeOK, AllReaders
  <2> QED
    BY <1>6, <2>1
<1>9. ASSUME NEW e \in Editors, EditorStep(e) PROVE Prepared'
  BY <1>4, <1>9, WhileUp
<1>10. ASSUME NEW p \in Readers, NEW d \in Docs,
             \/ EnsureInvoice(p, d) \/ EnsureInvoicePDF(p, d)
             \/ SyncCourseCompletion(p, d) \/ EnsureCertificatePDFBytes(p, d)
       PROVE  Prepared'
  BY <1>4, <1>10, RequestBegins
<1>11. ASSUME NEW p \in AllReaders, p # Boot, SelectionStep(p) \/ StatementFails(p) PROVE Prepared'
  BY <1>4, <1>11, SelectionMoves, WhileUp
<1>12. ASSUME NEW p \in AllReaders, AbandonSelection(p) PROVE Prepared'
  BY <1>4, <1>12, WhileUp DEF AbandonSelection
<1> QED
  BY <1>5, <1>7, <1>8, <1>9, <1>10, <1>11, <1>12 DEF Next, AllReaders, vars, UpdateSettings

\* As long as every default could be read, none comes to be besides another.
LEMMA SingleKept ==
  ASSUME DocumentsTypeOK, Rows, EditorsKnow, SelectionsKnow, BootKnows, StartsAlone, Prepared, Single,
         Grows, [Next]_vars
  PROVE  Single'
<1> USE DEF studio
<1> DEFINE Alone == \A i, k \in DOMAIN template :
             template[i].default /\ template[k].default /\ template[i].type = template[k].type => i = k
           Creates == \A p \in AllReaders : reader[p] # None /\ reader[p].pc = "create" =>
             p = Boot /\ Defaults(reader[p].type) = {}
<1>0. \A type : Seeding(type).pc = "default"
  BY DEF Seeding
<1>1. failures' = 0 => failures = 0
  <2>1. ASSUME NEW p \in AllReaders, SelectionStep(p) \/ StatementFails(p)
        PROVE  failures' = failures \/ failures' = failures + 1
    BY <2>1, SelectionMoves
  <2>2. ASSUME NEW e \in Editors, EditorStep(e) PROVE failures' = failures
    BY <2>2, WhileUp
  <2>3. failures' = failures \/ failures' = failures + 1
    BY <2>1, <2>2
       DEF Next, vars, AllReaders, UpdateSettings, EnsureInvoice, EnsureInvoicePDF,
           EnsureCertificatePDFBytes, SelectToPrint, SyncCourseCompletion, AbandonSelection, Crash
  <2> QED
    BY <2>3 DEF DocumentsTypeOK
<1> SUFFICES ASSUME failures = 0, failures' = 0, Alone, Creates PROVE Alone' /\ Creates'
  BY <1>1 DEF Single, Defaults
<1>2. ASSUME AddsNoDefault PROVE Alone'
  BY <1>2 DEF AddsNoDefault, Grows
<1>3. Alone'
  <2>1. ASSUME NEW e \in Editors, PublishTx(e) PROVE Alone'
    <3>1. /\ DOMAIN template' = DOMAIN template /\ editor[e].id \in DOMAIN template
          /\ \A k \in DOMAIN template : k # editor[e].id =>
               template'[k].default <=>
                 (template[k].default /\ template[k].type # template[editor[e].id].type)
      BY <2>1, PublishDefaults
    <3> QED
      BY <3>1 DEF Grows
  <2>2. ASSUME NEW p \in AllReaders, CreateDefaultTemplate(p) PROVE Alone'
    <3>1. Defaults(reader[p].type) = {}
      BY <2>2 DEF CreateDefaultTemplate, Selecting
    <3> DEFINE t == [type |-> reader[p].type, status |-> "published", default |-> TRUE]
               new == Len(template) + 1
    <3>2. template' = Append(template, t)
      BY <2>2 DEF CreateDefaultTemplate
    <3>3. /\ \A i \in DOMAIN template : template'[i] = template[i]
          /\ DOMAIN template' = DOMAIN template \cup {new}
          /\ template'[new] = t
      <4> HIDE DEF t
      <4> QED
        BY <3>2, TemplateAdded
    <3>4. template'[new].type = reader[p].type
      BY <3>3
    <3>5. ASSUME NEW i \in DOMAIN template, template[i].default PROVE template[i].type # reader[p].type
      BY <3>1, <3>5 DEF Defaults
    <3> HIDE DEF new, t
    <3> QED
      BY <3>3, <3>4, <3>5
  <2> QED
    BY <1>2, <2>1, <2>2, DefaultsChange
<1>5. ASSUME reader[Boot] = None, \A p \in AllReaders : reader'[p] = reader[p] PROVE Creates'
  BY <1>5
<1>6. ASSUME NEW e \in Editors, EditorStep(e) PROVE Creates'
  BY <1>5, <1>6, WhileUp
<1>7. ASSUME NEW type \in TypeNames, NEW i \in 0 .. MaxTemplates, UpdateSettings(type, i) PROVE Creates'
  BY <1>5, <1>7, WhileUp
<1>8. ASSUME NEW p \in Readers, NEW d \in Docs,
             \/ EnsureInvoice(p, d) \/ EnsureInvoicePDF(p, d)
             \/ SyncCourseCompletion(p, d) \/ EnsureCertificatePDFBytes(p, d)
      PROVE  Creates'
  <2>1. /\ reader'[p].pc = "choice" /\ reader[Boot] = None
        /\ \A q \in AllReaders : q # p => reader'[q] = reader[q]
    BY <1>8, RequestBegins
  <2> QED
    BY <2>1
<1>9. ASSUME NEW p \in AllReaders, SelectionStep(p) \/ StatementFails(p) PROVE Creates'
  <2>1. reader[p] # None /\ reader[p].type \in TypeNames
    BY <1>9, SelectionMoves, RequestTypes DEF Selection
  <2>2. p # Boot => reader[Boot] = None /\ Defaults(reader[p].type) # {}
    <3>1. ASSUME p # Boot PROVE reader[Boot] = None /\ up
      BY <2>1, <3>1, WhileUp
    <3> QED
      BY <2>1, <3>1 DEF Prepared, Ready, TypeNames
  <2>3. p = Boot => \A q \in AllReaders : q # p => reader[q] = None
    BY <2>1, WhileUp
  <2>4. ASSUME NEW pc \in {"default", "latest", "create", "insert", "name"},
               NEW i \in 0 .. MaxTemplates, NEW n \in Nat, Reaches(p, pc, i, n)
        PROVE  Creates'
    <3>1. GoTo(p, pc, i, n)
      BY <2>4 DEF Reaches
    <3>2. /\ reader' = [reader EXCEPT ![p] = reader'[p]]
          /\ reader'[p].pc = pc /\ reader'[p].type = reader[p].type
      BY <2>1, <3>1, GoToTypes
    <3>3. \A q \in AllReaders : q # p => reader'[q] = reader[q]
      BY <3>2 DEF DocumentsTypeOK
    <3>4. pc = "create" => p = Boot /\ Defaults(reader[p].type) = {} /\ UNCHANGED template
      <4>1. ASSUME pc = "create" PROVE Defaults(reader[p].type) = {}
        BY <2>4, <4>1 DEF Reaches
      <4>2. ASSUME pc = "create" PROVE UNCHANGED template
        <5>1. \/ EnsureDefaultDocumentTemplate(p) \/ StatementFails(p)
              \/ SelectDocumentTemplateVersion(p) \/ LatestOfDefault(p) \/ CreateDefaultVersion(p)
              \/ CreateDefaultTemplate(p) \/ NameDefault(p)
          BY <1>9 DEF SelectionStep
        <5>2. CASE CreateDefaultTemplate(p)
          <6>1. GoTo(p, "insert", Len(template) + 1, 1) /\ Len(template) + 1 \in 0 .. MaxTemplates
            BY <5>2, DocumentsAssumption DEF CreateDefaultTemplate, DocumentsTypeOK
          <6>2. reader'[p].pc = "insert"
            BY <2>1, <6>1, GoToTypes
          <6> QED
            BY <3>2, <4>2, <6>2
        <5>3. CASE NameDefault(p)
          <6>1. Outcome(p, <<reader[p].id, reader[p].n>>)
            BY <5>3 DEF NameDefault
          <6>2. reader'[p] = None \/ \E type : reader'[p] = Seeding(type)
            BY <2>1, <6>1, OutcomeIs
          <6>3. reader'[p] # None
            BY <2>1, <3>1, GoToTypes, NoneAssumption
          <6>4. reader'[p].pc = "default"
            BY <1>0, <6>2, <6>3
          <6> QED
            BY <3>2, <4>2, <6>4
        <5> QED
          BY <5>1, <5>2, <5>3
             DEF EnsureDefaultDocumentTemplate, StatementFails, SelectDocumentTemplateVersion,
                 LatestOfDefault, CreateDefaultVersion
      <4> QED
        BY <2>2, <4>1, <4>2
    <3>5. CASE p = Boot
      <4>1. pc = "create" => Defaults(reader[p].type)' = {}
        BY <3>2, <3>4 DEF Defaults
      <4> QED
        BY <2>3, <3>2, <3>3, <3>5, <4>1
    <3>6. CASE p # Boot
      BY <2>2, <3>2, <3>3, <3>4, <3>6
    <3> QED
      BY <3>5, <3>6
  <2>5. ASSUME NEW v \in Nat \X Nat, Finds(p, v) PROVE Creates'
    <3>1. Outcome(p, v)
      BY <2>5 DEF Finds
    <3>2. \A q \in AllReaders : q # p => reader'[q] = reader[q]
      BY <2>1, <3>1, OutcomeIs
    <3>3. reader'[p] = None \/ \E type : reader'[p] = Seeding(type)
      BY <2>1, <3>1, OutcomeIs
    <3>4. reader'[p] = None \/ reader'[p].pc = "default"
      BY <1>0, <3>3
    <3> QED
      BY <2>2, <2>3, <3>2, <3>4
  <2> QED
    BY <1>9, <2>4, <2>5, SelectionMoves
<1>10. ASSUME NEW p \in AllReaders, AbandonSelection(p) PROVE Creates'
  <2>1. /\ reader'[p] = None /\ reader[Boot] = None
        /\ \A q \in AllReaders : q # p => reader'[q] = reader[q]
    BY <1>10, WhileUp DEF AbandonSelection, DocumentsTypeOK
  <2> QED
    BY <2>1
<1>11. CASE Crash
  <2>1. reader' = [p \in AllReaders |-> IF p = Boot THEN Seeding(Invoice) ELSE None]
    BY <1>11 DEF Crash, DocumentsTypeOK
  <2>2. \A p \in AllReaders : reader'[p] = None \/ reader'[p].pc = "default"
    BY <1>0, <2>1
  <2>3. \A p \in AllReaders : ~(reader'[p] # None /\ reader'[p].pc = "create")
    BY <2>2
  <2> QED
    BY <1>3, <2>3
<1>12. ASSUME UNCHANGED vars PROVE Creates'
  BY <1>12 DEF vars, Defaults
<1>13. Creates'
  <2> HIDE DEF Creates
  <2> QED
    BY <1>6, <1>7, <1>8, <1>9, <1>10, <1>11, <1>12 DEF Next, AllReaders
<1> QED
  BY <1>3, <1>13

-----------------------------------------------------------------------------
(* What documents are issued with. *)

\* A document that is issued, or issued anew, is so with a version of a template of
\* its type; an invoice is issued once.
LEMMA IssuedKept ==
  ASSUME DocumentsTypeOK, Rows, SelectionsKnow, BootKnows, StartsAlone, IssuedKnow, IssuedWithOwnType,
         Grows, [Next]_vars
  PROVE  /\ IssuedKnow' /\ IssuedWithOwnType'
         /\ \A d \in Docs : TypeOf[d] = Invoice /\ Issued(d) => doc'[d] = doc[d]
<1> USE DEF studio
<1> DEFINE Good(d, v) == v = None \/ v = NoVersion \/
             /\ v[1] \in DOMAIN template' /\ template'[v[1]].type = TypeOf[d]
             /\ v[2] \in DOMAIN versions'[v[1]]
           Same(d) == TypeOf[d] = Invoice /\ Issued(d) => doc'[d] = doc[d]
<1>1. ASSUME NEW d \in Docs PROVE Good(d, doc[d])
  <2>1. CASE Issued(d) /\ doc[d] # NoVersion
    <3>1. /\ doc[d][1] \in DOMAIN template /\ doc[d][1] \in Ids
          /\ template[doc[d][1]].type = TypeOf[d]
          /\ doc[d][2] \in DOMAIN versions[doc[d][1]]
      BY <2>1, DefaultIds DEF IssuedKnow, IssuedWithOwnType
    <3> QED
      BY <3>1 DEF Grows
  <2>2. CASE ~(Issued(d) /\ doc[d] # NoVersion)
    BY <2>2 DEF Issued
  <2> QED
    BY <2>1, <2>2
<1>2. ASSUME \A d \in Docs : Good(d, doc'[d]) /\ Same(d)
      PROVE  /\ IssuedKnow' /\ IssuedWithOwnType'
             /\ \A d \in Docs : TypeOf[d] = Invoice /\ Issued(d) => doc'[d] = doc[d]
  BY <1>2 DEF IssuedKnow, IssuedWithOwnType, Issued
<1> SUFFICES ASSUME NEW d \in Docs PROVE Good(d, doc'[d]) /\ Same(d)
  BY <1>2
<1> HIDE DEF Good
<1>3. ASSUME UNCHANGED doc PROVE Good(d, doc'[d]) /\ Same(d)
  BY <1>1, <1>3
<1>4. ASSUME NEW p \in AllReaders, SelectionStep(p) \/ StatementFails(p)
      PROVE  Good(d, doc'[d]) /\ Same(d)
  <2>1. reader[p] # None
    BY <1>4, SelectionMoves
  <2>2. ASSUME NEW v \in Nat \X Nat, Finds(p, v) PROVE Good(d, doc'[d]) /\ Same(d)
    <3>1. Outcome(p, v)
      BY <2>2 DEF Finds
    <3>2. CASE p = Boot
      <4>1. UNCHANGED doc
        BY <2>1, <3>1, <3>2, OutcomeIs
      <4> QED
        BY <1>3, <4>1
    <3>3. CASE p # Boot
      <4>1. \/ doc'[d] = doc[d]
            \/ d = reader[p].doc /\ doc'[d] = v /\ ~(reader[p].type = Invoice /\ Issued(d))
        BY <2>1, <3>1, <3>3, OutcomeIs
      <4>2. reader[p].type = TypeOf[reader[p].doc]
        BY <2>1, <3>3 DEF SelectionsKnow
      <4>3. d = reader[p].doc => Good(d, v)
        BY <2>2, <4>2 DEF Good, Finds
      <4> QED
        BY <1>1, <4>1, <4>2, <4>3
    <3> QED
      BY <3>2, <3>3
  <2>3. ASSUME NEW pc, NEW i, NEW n, Reaches(p, pc, i, n) PROVE UNCHANGED doc
    BY <2>3 DEF Reaches
  <2> QED
    BY <1>3, <1>4, <2>2, <2>3, SelectionMoves
<1>5. ASSUME NEW p \in Readers, NEW c \in Docs,
             \/ EnsureInvoice(p, c) \/ EnsureInvoicePDF(p, c)
             \/ SyncCourseCompletion(p, c) \/ EnsureCertificatePDFBytes(p, c)
      PROVE  Good(d, doc'[d]) /\ Same(d)
  <2>1. doc'[d] = doc[d] \/ (doc'[d] = NoVersion /\ ~Issued(d))
    BY <1>5, RequestBegins
  <2>2. Good(d, NoVersion)
    BY DEF Good
  <2> QED
    BY <1>1, <2>1, <2>2
<1>6. ASSUME NEW e \in Editors, EditorStep(e) PROVE UNCHANGED doc
  BY <1>6, WhileUp
<1> HIDE DEF Same
<1> QED
  BY <1>3, <1>4, <1>5, <1>6 DEF Next, AllReaders, vars, UpdateSettings, AbandonSelection, Crash

-----------------------------------------------------------------------------
(* Theorems. *)

\* The invariant holds at first.
LEMMA InitHolds == Init => IInv
<1> SUFFICES ASSUME Init PROVE IInv
  OBVIOUS
<1>1. /\ Invoice \in TypeNames /\ Seeding(Invoice) \in Selection /\ Seeding(Invoice) # None
      /\ Seeding(Invoice).pc = "default" /\ Seeding(Invoice).type = Invoice
  BY TypesInOrder, NoneAssumption DEF Seeding
<1>2. /\ template = <<>> /\ DOMAIN template = {} /\ Len(template) = 0
      /\ versions = [i \in Ids |-> <<>>] /\ doc = [d \in Docs |-> None]
      /\ editor = [e \in Editors |-> None] /\ up = FALSE /\ crashes = 0 /\ failures = 0
      /\ chosen = [type \in TypeNames |-> 0]
      /\ reader = [p \in AllReaders |-> IF p = Boot THEN Seeding(Invoice) ELSE None]
  BY DEF Init, AllReaders
<1>3. reader[Boot] = Seeding(Invoice) /\ \A p \in AllReaders : p # Boot => reader[p] = None
  BY <1>2 DEF AllReaders
<1>4. DocumentsTypeOK
  <2>1. template \in Seq(DocumentTemplate) /\ versions \in [Ids -> Seq(DocumentTemplateVersion)]
    BY <1>2
  <2>2. chosen \in [TypeNames -> 0 .. MaxTemplates]
    BY <1>2, DocumentsAssumption
  <2>3. doc \in [Docs -> {None} \cup (Nat \X Nat)]
    BY <1>2
  <2>4. editor \in [Editors -> {None} \cup Edit]
    BY <1>2
  <2>5. reader \in [AllReaders -> {None} \cup Selection]
    BY <1>1, <1>2
  <2>6. up \in BOOLEAN /\ crashes \in Nat /\ failures \in Nat
    BY <1>2
  <2> QED
    BY <2>1, <2>2, <2>3, <2>4, <2>5, <2>6 DEF DocumentsTypeOK
<1>5. StartsAlone
  BY <1>1, <1>2, <1>3, DocumentsAssumption DEF StartsAlone, AllReaders
<1>6. Rows
  BY <1>2, DocumentsAssumption DEF Rows
<1>7. EditorsKnow
  BY <1>2 DEF EditorsKnow
<1>8. SelectionsKnow /\ BootKnows
  BY <1>1, <1>3 DEF SelectionsKnow, BootKnows
<1>9. Single
  BY <1>1, <1>2, <1>3 DEF Single
<1>10. Prepared
  <2>1. ASSUME NEW j \in DOMAIN Types, Ready(j) PROVE FALSE
    <3>1. PICK k \in DOMAIN Types : Types[k] = Types[1] /\ j < k
      BY <1>1, <1>2, <1>3, <2>1 DEF Ready, Invoice
    <3>2. k = 1 /\ j \in Nat \ {0}
      BY <3>1, DocumentsAssumption
    <3> QED
      BY <3>1, <3>2
  <2> QED
    BY <2>1 DEF Prepared
<1>11. IssuedKnow /\ IssuedWithOwnType
  BY <1>2 DEF IssuedKnow, IssuedWithOwnType, Issued
<1> QED
  BY <1>4, <1>5, <1>6, <1>7, <1>8, <1>9, <1>10, <1>11 DEF IInv

\* Each step keeps it.
LEMMA NextKeeps == IInv /\ [Next]_vars => IInv'
<1> SUFFICES ASSUME IInv, [Next]_vars PROVE IInv'
  OBVIOUS
<1>1. Grows /\ Rows'
  BY RowsGrow DEF IInv
<1>2. DocumentsTypeOK'
  BY StepTypes DEF IInv
<1>3. StartsAlone' /\ EditorsKnow' /\ SelectionsKnow' /\ BootKnows'
  BY <1>1, StartsAloneKept, EditorsKnowKept, SelectionsKnowKept, BootKnowsKept DEF IInv
<1>4. Single' /\ Prepared'
  BY <1>1, SingleKept, PreparedKept DEF IInv
<1>5. IssuedKnow' /\ IssuedWithOwnType'
  BY <1>1, IssuedKept DEF IInv
<1> QED
  BY <1>1, <1>2, <1>3, <1>4, <1>5 DEF IInv

\* The invariant that the theorems rest on.
THEOREM Invariant == Spec => []IInv
BY InitHolds, NextKeeps, PTL DEF Spec

\* While the server serves, each type of document has a default template that has a
\* version, and the only default if every default could be read, for any number
\* of types, templates, requests, stops and failing statements.
THEOREM Printable == Spec => []DefaultIsPrintable
<1>1. IInv => DefaultIsPrintable
  <2> SUFFICES ASSUME IInv, up, NEW type \in TypeNames
               PROVE  \E i \in Defaults(type) : versions[i] # <<>> /\ (failures = 0 => Defaults(type) = {i})
    BY DEF DefaultIsPrintable
  <2>1. PICK i \in Defaults(type) : versions[i] # <<>>
    BY DEF IInv, Prepared, Ready, TypeNames
  <2>2. failures = 0 => Defaults(type) = {i}
    BY <2>1 DEF IInv, Single, Defaults
  <2> QED
    BY <2>1, <2>2
<1> QED
  BY <1>1, Invariant, PTL

\* Each document that was issued with a version was issued with one of a template
\* of its own type, whatever the settings name.
THEOREM IssuedOwnType == Spec => []IssuedWithOwnType
<1>1. IInv => IssuedWithOwnType
  BY DEF IInv
<1> QED
  BY <1>1, Invariant, PTL

\* An invoice is printed with the text it was issued with ever after.
THEOREM InvoiceKept == Spec => InvoiceKeepsText
<1> DEFINE Kept ==
      \A d \in Docs : TypeOf[d] = Invoice /\ Issued(d) /\ doc[d] # NoVersion =>
        /\ doc'[d] = doc[d]
        /\ versions'[doc[d][1]][doc[d][2]].text = versions[doc[d][1]][doc[d][2]].text
<1>1. IInv /\ [Next]_vars => [Kept]_vars
  <2> SUFFICES ASSUME IInv, [Next]_vars,
                      NEW d \in Docs, TypeOf[d] = Invoice, Issued(d), doc[d] # NoVersion
               PROVE  /\ doc'[d] = doc[d]
                      /\ versions'[doc[d][1]][doc[d][2]].text = versions[doc[d][1]][doc[d][2]].text
    OBVIOUS
  <2>1. Grows
    BY RowsGrow DEF IInv
  <2>2. doc'[d] = doc[d]
    BY <2>1, IssuedKept DEF IInv
  <2>3. doc[d][1] \in Ids /\ doc[d][2] \in DOMAIN versions[doc[d][1]]
    BY DefaultIds DEF IInv, IssuedKnow, IssuedWithOwnType
  <2> QED
    BY <2>1, <2>2, <2>3 DEF Grows
<1> QED
  BY <1>1, Invariant, PTL DEF Spec, InvoiceKeepsText
===============================================================================

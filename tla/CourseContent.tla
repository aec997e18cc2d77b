--------------------------- MODULE CourseContent ---------------------------
(***************************************************************************)
(* A course and the rows it is made of, as its instructor and the admins   *)
(* edit them.                                                              *)
(*                                                                         *)
(* Rows hang on one another by a parent's id and no foreign key: a module  *)
(* on the course, a topic or a quiz on a module, blocks, attachments and   *)
(* assignments on a topic, questions on a quiz, answers on a question.     *)
(* Deleting a row leaves what hangs on it.  Nothing is done in a           *)
(* transaction: an instructor's request first reads the row, joined up to  *)
(* the course, to see that it is his, and then writes by the row's id;     *)
(* most of the admins' requests write without looking.                     *)
(***************************************************************************)
EXTENDS Integers, FiniteSets

CONSTANTS
  Ids,           \* row ids; lower ones are older (bound)
  Kind,          \* the table each id belongs to
  Instructors,   \* who may own the course
  Admins,
  Course, Nowhere, \* parents: the course, or a row that is not there
  Orders,        \* values of the column order (bound)
  Passes,        \* passing scores a form may hold (bound)
  Limits,        \* attempt limits a form may hold, 0 for none (bound)
  Days,          \* values of available_after_days (bound)
  StartContent,  \* what there may be at first, and how much of the bounds is used up (bound)
  MaxEdits,      \* requests to edit (bound)
  None

Above == [module |-> "course", addon |-> "course", topic |-> "module", quiz |-> "module",
          block |-> "topic", attachment |-> "topic", assignment |-> "topic",
          question |-> "quiz", answer |-> "question"]
Kinds == DOMAIN Above
Parts == {"topic", "quiz"}            \* what a learner works through
Forms == {"survey", "essay", "text", "choice", "set"}   \* how a question is graded

Published == {"open", "closed"}
Unpublished == {"draft", "pending"}
Existing == Published \cup Unpublished

Table == [k \in Kinds |-> {x \in Ids : Kind[x] = k}]
Of(k) == Table[k]
Above1(k) == IF Above[k] = "course" THEN {Course} ELSE Of(Above[k])
Data(k) == CASE k = "quiz" -> [pass: Passes, limit: Limits]
             [] k = "question" -> [form: Forms]
             [] k = "answer" -> [correct: BOOLEAN]
             [] OTHER -> {None}
Places(k) == IF k \in {"module"} \cup Parts THEN Orders ELSE {0}
RowOf(k) == [parent: Above1(k) \cup {Nowhere}, order: Places(k), data: Data(k)]
AllRows == UNION {RowOf(k) : k \in Kinds}

ASSUME ContentAssumption ==
  /\ Ids \subseteq Nat /\ IsFiniteSet(Ids)
  /\ Kind \in [Ids -> Kinds]
  /\ Instructors \cap Admins = {}
  /\ Course \notin Ids /\ Nowhere \notin Ids /\ Course # Nowhere
  /\ Orders \subseteq Nat /\ Passes \subseteq 0 .. 100 /\ Limits \subseteq Nat /\ Days \subseteq Nat
  /\ 70 \in Passes /\ 3 \in Limits /\ 0 \in Days
  /\ MaxEdits \in Nat
  /\ None \notin AllRows \cup Ids \cup Instructors
ASSUME StartContentAssumption ==
  \A s \in StartContent :
    /\ s.course \in [status: Existing \cup {"none", "gone"}, owner: Instructors \cup {None}]
    /\ \A x \in Ids : s.rows[x] \in RowOf(Kind[x]) \cup {None}
    /\ s.drip \in [Of("module") -> Nat]

VARIABLES
  course,     \* the row of courses: its status and instructor_id
  rows,       \* the rows below it
  drip,       \* course_drip_schedules: days until a module opens
  announced,  \* an announcement of the course is in automation_runs
  edits,      \* the editing request each user has under way
  spent       \* editing requests made

contentVars == <<course, rows, drip, announced, edits, spent>>

-----------------------------------------------------------------------------
(* Requests and initial states. *)

Editors == Instructors \cup Admins
\* An editor's request: what it is to write (pc, op), on which row and with what, the course's
\* status as it was read, and todo: rows to reorder or modules to schedule, with the value.
Idle == [pc |-> "idle", op |-> "none", kind |-> None, id |-> None, row |-> None,
         seen |-> None, todo |-> {}]

ContentInit(s) ==
  /\ course = s.course /\ rows = s.rows /\ drip = s.drip
  /\ announced = FALSE
  /\ edits = [e \in Editors |-> Idle]
  /\ spent = s.spent

-----------------------------------------------------------------------------
(* The tree. *)

\* Every join from a row up to the course finds its row.
InCourse[x \in Ids] ==
  /\ rows[x] # None
  /\ \/ rows[x].parent = Course /\ course.status \in Existing
     \/ rows[x].parent \in Ids /\ Kind[rows[x].parent] = Above[Kind[x]] /\ InCourse[rows[x].parent]

There(p) == IF p = Course THEN course.status \in Existing ELSE InCourse[p]
Owned(e, p) == There(p) /\ course.owner = e

\* Forms that leave the passing score or the limit out get 70 and 3.
Filled(k, d) ==
  IF k # "quiz" THEN d
  ELSE [pass |-> IF d.pass = 0 THEN 70 ELSE d.pass, limit |-> IF d.limit = 0 THEN 3 ELSE d.limit]

Free(k) == {x \in Of(k) : rows[x] = None}
FirstOf(S) == CHOOSE x \in S : \A y \in S : x <= y

-----------------------------------------------------------------------------
(* The two halves of a request: what it reads, and what it writes then. *)

Ask(e, req) ==
  /\ edits[e] = Idle /\ spent < MaxEdits
  /\ edits' = [edits EXCEPT ![e] = req]
  /\ spent' = spent + 1
  /\ UNCHANGED <<course, rows, drip, announced>>

AtOnce(e) == edits[e] = Idle /\ spent < MaxEdits /\ spent' = spent + 1 /\ UNCHANGED edits
End(e) == edits' = [edits EXCEPT ![e] = Idle] /\ UNCHANGED spent
Writing(e, op) == edits[e].pc = "write" /\ edits[e].op = op
PutRow(x, r) == rows' = [rows EXCEPT ![x] = r] /\ UNCHANGED <<course, drip, announced>>

ToInsert(k, r) == [Idle EXCEPT !.pc = "write", !.op = "create", !.kind = k, !.row = r]
ToUpdate(x, r) == [Idle EXCEPT !.pc = "write", !.op = "update", !.id = x, !.row = r]
ToDelete(x) == [Idle EXCEPT !.pc = "write", !.op = "delete", !.id = x]
ToList(op, pairs) == [Idle EXCEPT !.pc = "list", !.op = op, !.todo = pairs]
ToCourse(op) == [Idle EXCEPT !.pc = "write", !.op = op, !.seen = course.status]

\* The parent that was found may be gone by now: no key ties the row to it.
InsertRow(e) ==
  /\ Writing(e, "create")
  /\ \E x \in Free(edits[e].kind) : PutRow(x, edits[e].row)
  /\ End(e)

\* By the row's id, and never its parent; a row deleted meanwhile is not found.
UpdateRow(e) ==
  /\ Writing(e, "update")
  /\ LET x == edits[e].id
         r == IF rows[x] = None THEN None ELSE [edits[e].row EXCEPT !.parent = rows[x].parent]
     IN PutRow(x, r)
  /\ End(e)

RemoveRow(e) == Writing(e, "delete") /\ PutRow(edits[e].id, None) /\ End(e)

\* The context of a request ends with its connection: what is not written yet never will be.
GiveUpEdit(e) ==
  /\ edits[e] # Idle /\ End(e)
  /\ UNCHANGED <<course, rows, drip, announced>>

Moved(x, o) == IF rows[x] = None THEN None ELSE [rows[x] EXCEPT !.order = o]
Lists(k) == {p \in SUBSET (Of(k) \X Orders) : p # {} /\ \A a, b \in p : a[1] = b[1] => a = b}

-----------------------------------------------------------------------------
(* The instructor. *)

CreateFor(e, k) ==
  \E p \in Above1(k), o \in Places(k), d \in Data(k) :
    /\ Owned(e, p)
    /\ Ask(e, ToInsert(k, [parent |-> p, order |-> o, data |-> Filled(k, d)]))

UpdateFor(e, k) ==
  \E x \in Of(k), o \in Places(k), d \in Data(k) :
    /\ Owned(e, x)
    /\ Ask(e, ToUpdate(x, [parent |-> rows[x].parent, order |-> o, data |-> Filled(k, d)]))

DeleteFor(e, k) == \E x \in Of(k) : Owned(e, x) /\ Ask(e, ToDelete(x))

ReorderFor(e, k) == \E pairs \in Lists(k) : Ask(e, ToList("reorder", pairs))

\* Row by row: each is looked up again, and the first that is not his ends the request.
ReorderCheck(e) ==
  /\ edits[e].pc = "list" /\ edits[e].op = "reorder"
  /\ IF edits[e].todo = {} THEN End(e)
     ELSE \E t \in edits[e].todo :
            IF Owned(e, t[1])
            THEN edits' = [edits EXCEPT ![e].pc = "write", ![e].id = t[1]] /\ UNCHANGED spent
            ELSE End(e)
  /\ UNCHANGED <<course, rows, drip, announced>>

ReorderWrite(e) ==
  /\ Writing(e, "reorder")
  /\ \E t \in edits[e].todo :
       /\ t[1] = edits[e].id
       /\ PutRow(t[1], Moved(t[1], t[2]))
       /\ edits' = [edits EXCEPT ![e].pc = "list", ![e].id = None, ![e].todo = @ \ {t}]
  /\ UNCHANGED spent

EditModules(e) == CreateFor(e, "module") \/ UpdateFor(e, "module") \/ DeleteFor(e, "module") \/ ReorderFor(e, "module")
EditTopics(e) == CreateFor(e, "topic") \/ UpdateFor(e, "topic") \/ DeleteFor(e, "topic") \/ ReorderFor(e, "topic")
EditBlocks(e) == CreateFor(e, "block") \/ UpdateFor(e, "block") \/ DeleteFor(e, "block")
EditAssignments(e) == CreateFor(e, "assignment") \/ UpdateFor(e, "assignment") \/ DeleteFor(e, "assignment")
EditQuizzes(e) == CreateFor(e, "quiz") \/ UpdateFor(e, "quiz") \/ DeleteFor(e, "quiz") \/ ReorderFor(e, "quiz")
EditQuestions(e) == CreateFor(e, "question") \/ UpdateFor(e, "question") \/ DeleteFor(e, "question")
EditAnswers(e) == CreateFor(e, "answer") \/ UpdateFor(e, "answer") \/ DeleteFor(e, "answer")
EditAddons(e) == CreateFor(e, "addon") \/ UpdateFor(e, "addon") \/ DeleteFor(e, "addon")

CreateCourse(e) ==
  /\ AtOnce(e) /\ course.status = "none"
  /\ \E s \in Unpublished : course' = [status |-> s, owner |-> e]
  /\ UNCHANGED <<rows, drip, announced>>

UpdateCourseCheck(e) == Owned(e, Course) /\ Ask(e, ToCourse("course"))

\* A slip: the form's status is written whatever the course's was.
StatusFromForm(seen, s) == s
\* An instructor's form can ask for a draft or for approval; a published course stays as it was read.
StatusKept(seen, s) == IF seen \in Published THEN seen ELSE s
UpdateCourse(e) ==
  /\ Writing(e, "course")
  /\ \E s \in Unpublished :
       course' = IF course.status \in Existing
                 THEN [course EXCEPT !.status = StatusKept(edits[e].seen, s)] ELSE course
  /\ End(e)
  /\ UNCHANGED <<rows, drip, announced>>

DeleteCourseCheck(e) ==
  Owned(e, Course) /\ course.status \in Unpublished /\ Ask(e, ToCourse("remove"))

DeleteCourse(e) ==
  /\ Writing(e, "remove")
  /\ course' = [course EXCEPT !.status = "gone"]
  /\ End(e)
  /\ UNCHANGED <<rows, drip, announced>>

May(e) == edits[e] = Idle /\ spent < MaxEdits

InstructorStep(e) ==
  \/ /\ May(e)
     /\ \/ EditModules(e) \/ EditTopics(e) \/ EditBlocks(e) \/ EditAssignments(e) \/ EditQuizzes(e)
        \/ EditQuestions(e) \/ EditAnswers(e) \/ EditAddons(e)
        \/ CreateCourse(e) \/ UpdateCourseCheck(e) \/ DeleteCourseCheck(e)
  \/ ReorderCheck(e) \/ ReorderWrite(e) \/ UpdateCourse(e) \/ DeleteCourse(e)
  \/ InsertRow(e) \/ UpdateRow(e) \/ RemoveRow(e) \/ GiveUpEdit(e)

-----------------------------------------------------------------------------
(* The admins. *)

\* Under the id of the path, looked up only if it is the course's.
AdminCreate(a, k) ==
  \E p \in Above1(k) \cup {Nowhere}, o \in Places(k), d \in Data(k) :
    LET r == [parent |-> p, order |-> o, data |-> Filled(k, d)] IN
      IF Above[k] = "course" THEN p = Course /\ There(Course) /\ Ask(a, ToInsert(k, r))
      ELSE AtOnce(a) /\ \E x \in Free(k) : PutRow(x, r)

\* Every column as the form has it, the parent's id too, and nothing filled in.
AdminUpdate(a, k) ==
  /\ AtOnce(a)
  /\ \E x \in Of(k), r \in RowOf(k) : rows[x] # None /\ PutRow(x, r)

AdminDelete(a, k) == AtOnce(a) /\ \E x \in Of(k) : rows[x] # None /\ PutRow(x, None)

AdminReorder(a, k) == \E pairs \in Lists(k) : Ask(a, ToList("reorder", pairs))

AdminReorderStep(a) ==
  /\ edits[a].pc = "list" /\ edits[a].op = "reorder"
  /\ \E t \in edits[a].todo :
       /\ PutRow(t[1], Moved(t[1], t[2]))
       /\ edits' = [edits EXCEPT ![a] = IF edits[a].todo = {t} THEN Idle
                                       ELSE [edits[a] EXCEPT !.todo = edits[a].todo \ {t}]]
  /\ UNCHANGED spent

AdminModules(a) == AdminCreate(a, "module") \/ AdminUpdate(a, "module") \/ AdminDelete(a, "module") \/ AdminReorder(a, "module")
AdminTopics(a) == AdminCreate(a, "topic") \/ AdminUpdate(a, "topic") \/ AdminDelete(a, "topic") \/ AdminReorder(a, "topic")
AdminAttachments(a) == AdminCreate(a, "attachment") \/ AdminDelete(a, "attachment")
AdminAssignments(a) == AdminCreate(a, "assignment") \/ AdminUpdate(a, "assignment") \/ AdminDelete(a, "assignment")
AdminBlocks(a) == AdminCreate(a, "block") \/ AdminUpdate(a, "block") \/ AdminDelete(a, "block")
AdminQuizzes(a) == AdminCreate(a, "quiz") \/ AdminUpdate(a, "quiz") \/ AdminDelete(a, "quiz") \/ AdminReorder(a, "quiz")
AdminQuestions(a) ==
  \/ AdminCreate(a, "question") \/ AdminUpdate(a, "question") \/ AdminDelete(a, "question")
  \/ AdminCreate(a, "answer") \/ AdminUpdate(a, "answer") \/ AdminDelete(a, "answer")

\* An add-on is looked up first and keeps its course.
AdminAddons(a) ==
  \/ AdminCreate(a, "addon") \/ AdminDelete(a, "addon")
  \/ \E x \in Of("addon") : rows[x] # None /\ Ask(a, ToUpdate(x, rows[x]))

\* The module's first quiz is written, or one is inserted if none was found.
UpdateModuleQuiz(a) ==
  \E m \in Of("module"), o \in Orders, d \in Data("quiz") :
    LET found == {x \in Of("quiz") : rows[x] # None /\ rows[x].parent = m}
        r == [parent |-> m, order |-> o, data |-> Filled("quiz", d)]
    IN Ask(a, IF found = {} THEN ToInsert("quiz", r) ELSE ToUpdate(FirstOf(found), r))

\* All schedules are deleted, then the form's are inserted one by one.
UpdateCourseDripSchedules(a) ==
  /\ There(Course)
  /\ \E f \in [Of("module") -> Days] :
       Ask(a, [ToList("drip", {<<m, f[m]>> : m \in Of("module")}) EXCEPT !.pc = "write"])

DripDelete(a) ==
  /\ Writing(a, "drip")
  /\ drip' = [m \in Of("module") |-> 0]
  /\ edits' = [edits EXCEPT ![a].pc = "list"]
  /\ UNCHANGED <<course, rows, announced, spent>>

DripInsert(a) ==
  /\ edits[a].pc = "list" /\ edits[a].op = "drip"
  /\ \E t \in edits[a].todo :
       /\ drip' = [drip EXCEPT ![t[1]] = t[2]]
       /\ edits' = [edits EXCEPT ![a] = IF edits[a].todo = {t} THEN Idle
                                       ELSE [edits[a] EXCEPT !.todo = edits[a].todo \ {t}]]
  /\ UNCHANGED <<course, rows, announced, spent>>

\* Any status and any owner; a course that was not open before and is now is announced,
\* if a workflow is there for it and nothing fails, which nobody would notice.
SaveCourse(a) ==
  /\ course.status = "none" \/ Writing(a, "course")
  /\ \E s \in Existing, o \in Instructors \cup {None} :
       /\ course' = IF course.status = "gone" THEN course ELSE [status |-> s, owner |-> o]
       /\ announced' \in {announced} \cup
            (IF s = "open" /\ edits[a].seen # "open" THEN {TRUE} ELSE {})
  /\ \/ course.status = "none" /\ AtOnce(a)
     \/ Writing(a, "course") /\ End(a)
  /\ UNCHANGED <<rows, drip>>

SaveCourseCheck(a) == There(Course) /\ Ask(a, ToCourse("course"))

AdminDeleteCourse(a) ==
  /\ AtOnce(a) /\ There(Course)
  /\ course' = [course EXCEPT !.status = "gone"]
  /\ UNCHANGED <<rows, drip, announced>>

AdminStep(a) ==
  \/ /\ May(a)
     /\ \/ AdminModules(a) \/ AdminTopics(a) \/ AdminAttachments(a) \/ AdminAssignments(a)
        \/ AdminBlocks(a) \/ AdminQuizzes(a) \/ AdminQuestions(a) \/ AdminAddons(a)
        \/ UpdateModuleQuiz(a) \/ UpdateCourseDripSchedules(a)
        \/ SaveCourseCheck(a) \/ AdminDeleteCourse(a)
  \/ AdminReorderStep(a) \/ DripDelete(a) \/ DripInsert(a) \/ SaveCourse(a)
  \/ InsertRow(a) \/ UpdateRow(a) \/ GiveUpEdit(a)

ContentNext ==
  \/ \E e \in Instructors : InstructorStep(e)
  \/ \E a \in Admins : AdminStep(a)

-----------------------------------------------------------------------------
(* What editing must keep. *)

\* Publishing is the admins': a request of an instructor never puts a course before the
\* public that he did not read as published, never takes one away that he did, and never
\* gives it to somebody else.  A request that read a draft may still overwrite or delete
\* what an admin has published since; that is all the freedom the code leaves.
PublishingIsAdmins ==
  [][\A e \in Instructors :
       edits'[e] # edits[e] /\ course' # course =>
         /\ course'.owner = course.owner
         /\ IF edits[e].seen \in Published THEN course'.status = edits[e].seen
            ELSE course'.status \notin Published]_contentVars
=============================================================================

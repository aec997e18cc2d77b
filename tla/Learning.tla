------------------------------ MODULE Learning ------------------------------
(***************************************************************************)
(* Learners working through the course of CourseContent while it may be    *)
(* edited: topics, quizzes and their reviews, completion, the certificate, *)
(* XP, assignments and the learner's review of the course.                 *)
(*                                                                         *)
(* Every handler is a chain of single statements; nothing is locked and    *)
(* nothing is in a transaction.  A request ends with its connection, after *)
(* any of them.  The reads of one pass over the course are one step.       *)
(***************************************************************************)
EXTENDS CourseContent

CONSTANTS
  Users,
  Tabs,          \* requests a learner or a reviewer can have under way (bound)
  MaxRequests,   \* learners' and reviewers' requests (bound)
  LastDay        \* the clock stops there (bound)

ASSUME LearningAssumption ==
  /\ MaxRequests \in Nat /\ LastDay \in Nat
  /\ None \notin Users \cup Tabs /\ IsFiniteSet(Tabs)

VARIABLES
  day,
  since,       \* course_enrollments.enrolled_at
  completed,   \* course_enrollments.completed_at is set
  progress,    \* topic_progress: the topics each learner has completed
  tries,       \* quiz_submissions: how many passed and how many did not
  work,        \* assignment_submissions
  certs,       \* certificates of a learner for this course
  reviews,     \* reviews of a learner for this course
  xp,          \* xp_ledger
  tab,         \* the requests under way
  requests,
  finished,    \* learners who had done every item at some time
  shuffled,    \* the course has been edited, or a passed quiz failed by a review
  lost         \* learners a request of whom was cut off, or whose quiz a review passed

records == <<since, completed, progress, tries, work, certs, reviews, xp>>
learnerVars == <<day, records, tab, requests, finished, shuffled, lost>>
vars == <<contentVars, learnerVars>>

-----------------------------------------------------------------------------
(* Names and initial states. *)

Topics == Of("topic")
Quizzes == Of("quiz")
\* An entry of xp_ledger: event_type, reference_id.
Enrolled == <<"enrolled", Course>>
Completed == <<"completed", Course>>
Lesson(x) == <<"lesson", x>>

\* A request under way: pc is the statement to come; was is that the topic was complete
\* already, or that the answers pass; admin that it is an admin's review.
Closed == [pc |-> "idle", user |-> None, item |-> None, was |-> FALSE, admin |-> FALSE]

Init ==
  /\ \E s \in StartContent : ContentInit(s) /\ requests = s.requests
  /\ day = 0
  /\ since = [u \in Users |-> None] /\ completed = [u \in Users |-> FALSE]
  /\ progress = [u \in Users |-> {}]
  /\ tries = [u \in Users |-> [q \in Quizzes |-> [passed |-> 0, failed |-> 0]]]
  /\ work = [u \in Users |-> [x \in Of("assignment") |-> "none"]]
  /\ certs = [u \in Users |-> 0] /\ reviews = [u \in Users |-> 0]
  /\ xp = [u \in Users |-> {}]
  /\ tab = [t \in Tabs |-> Closed]
  /\ finished = {} /\ shuffled = FALSE /\ lost = {}

-----------------------------------------------------------------------------
(* LearningStateForCourse. *)

Modules == {m \in Of("module") : rows[m] # None /\ rows[m].parent = Course}
Items == {x \in Topics \cup Quizzes : rows[x] # None /\ rows[x].parent \in Modules}

Sooner(x, y) == rows[x].order < rows[y].order \/ (rows[x].order = rows[y].order /\ x < y)
\* By order and id: first the modules, then what one module holds.
Before(x, y) ==
  IF rows[x].parent = rows[y].parent THEN Sooner(x, y) ELSE Sooner(rows[x].parent, rows[y].parent)

Done(u, x) == IF Kind[x] = "topic" THEN x \in progress[u] ELSE tries[u][x].passed > 0

Open(u, m) == since[u] # None /\ day >= since[u] + drip[m]

\* A slip: only the items of the same module have to be done.
UnlockedInModule(u, x) ==
  /\ There(Course) /\ x \in Items /\ Open(u, rows[x].parent)
  /\ \A y \in Items : rows[y].parent = rows[x].parent /\ Before(y, x) => Done(u, y)
\* Everything before it is done, and the module's days have passed.
Unlocked(u, x) ==
  /\ There(Course) /\ x \in Items /\ Open(u, rows[x].parent)
  /\ \A y \in Items : Before(y, x) => Done(u, y)

AllDone(u) == since[u] # None /\ Items # {} /\ \A x \in Items : Done(u, x)

-----------------------------------------------------------------------------
(* Grading: gradeQuestion for every question, then the score. *)

Questions(q) == {x \in Of("question") : rows[x] # None /\ rows[x].parent = q}
HasCorrect(x) == \E a \in Of("answer") : rows[a] # None /\ rows[a].parent = x /\ rows[a].data.correct

\* right: the questions whose answer is as the stored options would have it.
Credited(x, right) ==
  CASE rows[x].data.form = "survey" -> TRUE
    [] rows[x].data.form = "essay" -> FALSE
    [] rows[x].data.form = "set" -> x \in right
    [] OTHER -> x \in right /\ HasCorrect(x)
Gradable(x) == rows[x].data.form \notin {"survey", "essay"}
Manual(x) == rows[x].data.form = "essay" \/ (rows[x].data.form = "text" /\ ~HasCorrect(x))

Score(q, right) ==
  LET asked == {x \in Questions(q) : Gradable(x)} IN
    IF asked = {} THEN 0
    ELSE (100 * Cardinality({x \in asked : Credited(x, right)})) \div Cardinality(asked)
Passes1(q, right) ==
  (\A x \in Questions(q) : ~Manual(x)) /\ Score(q, right) >= rows[q].data.pass

-----------------------------------------------------------------------------
(* Requests. *)

Start(t, row) ==
  /\ tab[t] = Closed /\ requests < MaxRequests
  /\ tab' = [tab EXCEPT ![t] = row]
  /\ requests' = requests + 1

Step(t, from, to) == tab[t].pc = from /\ tab' = [tab EXCEPT ![t].pc = to] /\ UNCHANGED requests
Finish(t, from) == tab[t].pc = from /\ tab' = [tab EXCEPT ![t] = Closed] /\ UNCHANGED requests
At(pc, u, x) == [Closed EXCEPT !.pc = pc, !.user = u, !.item = x]

Tick == day < LastDay /\ day' = day + 1 /\ UNCHANGED <<records, tab, requests>>

\* A free course, or a paid one's order (Checkout) seen from here.
CreateCourseEnrollment(u) ==
  /\ course.status = "open" /\ since[u] = None
  /\ since' = [since EXCEPT ![u] = day]
  /\ xp' = [xp EXCEPT ![u] = @ \cup {Enrolled}]
  /\ UNCHANGED <<day, completed, progress, tries, work, certs, reviews, tab, requests>>

\* AwardXP: the ledger's row is unique, a second award finds it.
AwardXP(u, event) == xp' = [xp EXCEPT ![u] = @ \cup {event}]

CompleteTopic(t, u, x) ==
  /\ Start(t, At("progress", u, x))
  /\ x \in Topics /\ Unlocked(u, x)
  /\ UNCHANGED <<day, records>>

ReadProgress(t) ==
  /\ tab[t].pc = "progress"
  /\ tab' = [tab EXCEPT ![t].pc = "save", ![t].was = tab[t].item \in progress[tab[t].user]]
  /\ UNCHANGED <<day, records, requests>>

\* A slip: the lesson's XP is forgotten.
SaveProgressUnrewarded(t) ==
  /\ Step(t, "save", "sync")
  /\ progress' = [progress EXCEPT ![tab[t].user] = @ \cup {tab[t].item}]
  /\ UNCHANGED <<day, since, completed, tries, work, certs, reviews, xp>>
SaveProgress(t) ==
  /\ Step(t, "save", IF tab[t].was THEN "sync" ELSE "lesson")
  /\ progress' = [progress EXCEPT ![tab[t].user] = @ \cup {tab[t].item}]
  /\ UNCHANGED <<day, since, completed, tries, work, certs, reviews, xp>>

\* A slip: a new lesson does not look whether the course is done.
RewardLessonOnly(t) ==
  /\ Finish(t, "lesson")
  /\ AwardXP(tab[t].user, Lesson(tab[t].item))
  /\ UNCHANGED <<day, since, completed, progress, tries, work, certs, reviews>>
RewardLesson(t) ==
  /\ Step(t, "lesson", "sync")
  /\ AwardXP(tab[t].user, Lesson(tab[t].item))
  /\ UNCHANGED <<day, since, completed, progress, tries, work, certs, reviews>>

StartQuiz(t, u, q) ==
  /\ Start(t, At("count", u, q))
  /\ q \in Quizzes /\ Unlocked(u, q)
  /\ UNCHANGED <<day, records>>

Attempts(u, q) == tries[u][q].passed + tries[u][q].failed
\* A slip: one attempt more than the limit.
LimitPassed(u, q) == rows[q].data.limit > 0 /\ Attempts(u, q) > rows[q].data.limit
LimitReached(u, q) == rows[q].data.limit > 0 /\ Attempts(u, q) >= rows[q].data.limit

\* The quiz, its questions and the attempts are read, the answers graded.
CountAttempts(t) ==
  LET u == tab[t].user
      q == tab[t].item
  IN /\ tab[t].pc = "count"
     /\ IF rows[q] = None \/ LimitReached(u, q) THEN tab' = [tab EXCEPT ![t] = Closed]
        ELSE \E right \in SUBSET Questions(q) :
               tab' = [tab EXCEPT ![t].pc = "submit", ![t].was = Passes1(q, right)]
     /\ UNCHANGED <<day, records, requests>>

SubmitQuiz(t) ==
  LET u == tab[t].user
      q == tab[t].item
      now == tries[u][q]
  IN /\ Step(t, "submit", "sync")
     /\ tries' = [tries EXCEPT ![u][q] =
                   IF tab[t].was THEN [passed |-> now.passed + 1, failed |-> now.failed]
                   ELSE [passed |-> now.passed, failed |-> now.failed + 1]]
     /\ UNCHANGED <<day, since, completed, progress, work, certs, reviews, xp>>

StartAssignment(t, u, x) ==
  /\ Start(t, At("hand in", u, x))
  /\ x \in Of("assignment") /\ rows[x] # None /\ rows[x].parent \in Topics
  /\ Unlocked(u, rows[x].parent)
  /\ UNCHANGED <<day, records>>

\* A second file replaces the first; a score given to the first stays.
SubmitAssignment(t) ==
  /\ Finish(t, "hand in")
  /\ work' = [work EXCEPT ![tab[t].user][tab[t].item] = IF @ = "none" THEN "handed in" ELSE @]
  /\ UNCHANGED <<day, since, completed, progress, tries, certs, reviews, xp>>

-----------------------------------------------------------------------------
(* SyncCourseCompletion, and the XP its callers give for it. *)

\* A slip: done as soon as the request's own item is.
SyncOwnItem(t) ==
  /\ tab[t].pc = "sync"
  /\ IF Done(tab[t].user, tab[t].item) THEN Step(t, "sync", "complete") ELSE Finish(t, "sync")
  /\ UNCHANGED <<day, records>>
SyncCheck(t) ==
  /\ tab[t].pc = "sync"
  /\ IF AllDone(tab[t].user) THEN Step(t, "sync", "complete") ELSE Finish(t, "sync")
  /\ UNCHANGED <<day, records>>

SetCompleted(t) ==
  /\ Step(t, "complete", "find")
  /\ completed' = [completed EXCEPT ![tab[t].user] = TRUE]
  /\ UNCHANGED <<day, since, progress, tries, work, certs, reviews, xp>>

FindCertificate(t) ==
  /\ tab[t].pc = "find"
  /\ Step(t, "find", IF certs[tab[t].user] = 0 THEN "issue" ELSE "sign")
  /\ UNCHANGED <<day, records>>

IssueCertificate(t) ==
  /\ Step(t, "issue", "sign")
  /\ certs' = [certs EXCEPT ![tab[t].user] = @ + 1]
  /\ UNCHANGED <<day, since, completed, progress, tries, work, reviews, xp>>

\* Its code, its snapshot and the message that it is ready: every time.
SignCertificate(t) == Step(t, "sign", "reward") /\ UNCHANGED <<day, records>>

RewardCourse(t) ==
  /\ Finish(t, "reward")
  /\ AwardXP(tab[t].user, Completed)
  /\ UNCHANGED <<day, since, completed, progress, tries, work, certs, reviews>>

-----------------------------------------------------------------------------
(* Reviews of what learners sent in, and the learner's of the course. *)

\* One submission becomes passed or not, whatever it was.
Judge(u, q, pass) ==
  LET now == tries[u][q] IN
    \/ (IF pass THEN now.passed ELSE now.failed) > 0 /\ UNCHANGED tries
    \/ /\ pass /\ now.failed > 0
       /\ tries' = [tries EXCEPT ![u][q] = [passed |-> now.passed + 1, failed |-> now.failed - 1]]
    \/ /\ ~pass /\ now.passed > 0
       /\ tries' = [tries EXCEPT ![u][q] = [passed |-> now.passed - 1, failed |-> now.failed + 1]]

\* The instructor's review leaves the course's completion alone.
ReviewQuizSubmission(e, u, q, pass) ==
  /\ requests < MaxRequests /\ requests' = requests + 1
  /\ Owned(e, q)
  /\ Judge(u, q, pass)
  /\ lost' = IF pass THEN lost \cup {u} ELSE lost
  /\ UNCHANGED <<day, since, completed, progress, work, certs, reviews, xp, tab>>

\* The admin's goes on to it, if the submission has passed and the course is found.
AdminReviewQuizSubmission(t, u, q, pass) ==
  /\ rows[q] # None
  /\ Judge(u, q, pass)
  /\ IF pass /\ InCourse[q] THEN Start(t, [At("sync", u, q) EXCEPT !.admin = TRUE])
     ELSE requests < MaxRequests /\ requests' = requests + 1 /\ UNCHANGED tab
  /\ UNCHANGED <<day, since, completed, progress, work, certs, reviews, xp>>

ReviewAssignmentSubmission(e, u, x) ==
  /\ requests < MaxRequests /\ requests' = requests + 1
  /\ e \in Admins \/ Owned(e, x)
  /\ work[u][x] # "none"
  /\ work' = [work EXCEPT ![u][x] = "graded"]
  /\ UNCHANGED <<day, since, completed, progress, tries, certs, reviews, xp, tab>>

CreateCourseReview(t, u) ==
  /\ course.status \in Existing \ {"draft"} /\ since[u] # None /\ completed[u]
  /\ Start(t, At("lookup", u, None))
  /\ UNCHANGED <<day, records>>

FindReview(t) ==
  /\ tab[t].pc = "lookup"
  /\ IF reviews[tab[t].user] = 0 THEN Step(t, "lookup", "comment") ELSE Finish(t, "lookup")
  /\ UNCHANGED <<day, records>>

SaveReview(t) ==
  /\ Finish(t, "comment")
  /\ reviews' = [reviews EXCEPT ![tab[t].user] = @ + 1]
  /\ UNCHANGED <<day, since, completed, progress, tries, work, certs, xp>>

GiveUp(t) ==
  /\ tab[t] # Closed
  /\ tab' = [tab EXCEPT ![t] = Closed]
  /\ lost' = lost \cup {tab[t].user}
  /\ UNCHANGED <<day, records, requests>>

-----------------------------------------------------------------------------
Handler(t) ==
  \/ ReadProgress(t) \/ SaveProgress(t) \/ RewardLesson(t)
  \/ CountAttempts(t) \/ SubmitQuiz(t) \/ SubmitAssignment(t)
  \/ SyncCheck(t) \/ SetCompleted(t) \/ FindCertificate(t) \/ IssueCertificate(t)
  \/ SignCertificate(t) \/ RewardCourse(t)
  \/ FindReview(t) \/ SaveReview(t)

Reviewing(u) ==
  \/ \E t \in Tabs, q \in Quizzes, pass \in BOOLEAN : AdminReviewQuizSubmission(t, u, q, pass)
  \/ \E e \in Editors, x \in Of("assignment") : ReviewAssignmentSubmission(e, u, x)

Asking(t, u) ==
  \/ \E x \in Ids : CompleteTopic(t, u, x) \/ StartQuiz(t, u, x) \/ StartAssignment(t, u, x)
  \/ CreateCourseReview(t, u)

LearnerStep ==
  \/ /\ \/ \E t \in Tabs : Handler(t) \/ \E u \in Users : Asking(t, u)
        \/ \E u \in Users : CreateCourseEnrollment(u) \/ Reviewing(u)
        \/ Tick
     /\ UNCHANGED lost
  \/ \E t \in Tabs : GiveUp(t)
  \/ \E e \in Instructors, u \in Users, q \in Quizzes, pass \in BOOLEAN :
       ReviewQuizSubmission(e, u, q, pass)

\* What the learner's way through the course depends on.
Shape == <<There(Course), drip, [x \in Of("module") \cup Topics \cup Quizzes |-> rows[x]]>>
Passed(u) == {q \in Quizzes : tries[u][q].passed > 0}

\* Which of the rest the properties below set aside, and what has been true.
History ==
  /\ shuffled' = (shuffled \/ Shape' # Shape \/ \E u \in Users : ~(Passed(u) \subseteq Passed(u)'))
  /\ finished' = finished \cup {u \in Users : AllDone(u)'}

Next ==
  /\ \/ ContentNext /\ UNCHANGED <<day, records, tab, requests, lost>>
     \/ LearnerStep /\ UNCHANGED contentVars
  /\ History

Spec == Init /\ [][Next]_vars

\* A handler goes on until it is done or cut off; learners, reviewers and editors may stop.
FairSpec == Spec /\ \A t \in Tabs : WF_vars(Handler(t) /\ UNCHANGED <<contentVars, lost>> /\ History)

-----------------------------------------------------------------------------
(* What must hold. *)

\* While nobody edits the course or fails a passed quiz, no request, however it
\* interleaves with others, gets a learner past an item that is not done or a module
\* whose days have not passed.
InOrder ==
  ~shuffled =>
    \A u \in Users : \A x \in Items :
      Done(u, x) => Open(u, rows[x].parent) /\ \A y \in Items : Before(y, x) => Done(u, y)

\* The limit of attempts is looked at and then passed by, but only by requests that were
\* under way together.
AttemptsBounded ==
  ~shuffled =>
    \A u \in Users, q \in Quizzes \cap Items :
      rows[q].data.limit > 0 =>
        Attempts(u, q) < rows[q].data.limit + Cardinality(Tabs)

\* A certificate and a review of the course stand on a completed enrollment, and that on a
\* moment at which every item was done, whatever is edited or failed around it.  Only
\* requests under way together leave a second certificate.
CertificateEarned ==
  \A u \in Users :
    /\ certs[u] > 0 \/ reviews[u] > 0 => completed[u]
    /\ completed[u] => u \in finished
    /\ certs[u] <= Cardinality(Tabs)

\* XP and what it is for agree, except where a request was cut off between the two.
XPTruthful ==
  \A u \in Users :
    /\ \A x \in Topics : Lesson(x) \in xp[u] => x \in progress[u]
    /\ Completed \in xp[u] => completed[u] /\ certs[u] > 0
    /\ u \notin lost =>
         \A x \in progress[u] : Lesson(x) \in xp[u] \/ \E t \in Tabs :
           tab[t].user = u /\ tab[t].item = x /\ tab[t].pc = "lesson"

\* Whoever has done every item gets the completion, the certificate and its XP without
\* doing anything more, unless his request is cut off, an instructor's review made the
\* last quiz pass, or the course is edited.
CompletionFollows ==
  \A u \in Users :
    AllDone(u) /\ u \notin lost /\ ~shuffled
      ~> u \in lost \/ shuffled \/ (completed[u] /\ certs[u] > 0 /\ Completed \in xp[u])
=============================================================================

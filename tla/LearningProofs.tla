---------------------------- MODULE LearningProofs ----------------------------
(***************************************************************************)
(* Proofs about Learning and CourseContent, for any number of users, rows, *)
(* requests and editors.                                                   *)
(*                                                                         *)
(* LInv is inductive: TInv says what a request is about, TabsKnow that     *)
(* what it has found is still so when it goes on, IssuesBounded counts     *)
(* the certificates there are with those about to be issued, and OInv      *)
(* that, while the course stays as it is, whoever works at an item was     *)
(* let in to it and would be again.  EditsInv is the editors'.             *)
(***************************************************************************)
EXTENDS Learning, FiniteSetTheorems, TLAPS

(* What requests rely on between their statements. *)

Steps == {"idle", "progress", "save", "lesson", "count", "submit", "hand in", "sync", "complete",
          "find", "issue", "sign", "reward", "lookup", "comment"}
TabRow == [pc: Steps, user: Users \cup {None}, item: Ids \cup {None}, was: BOOLEAN, admin: BOOLEAN]

LearnerTypes ==
  /\ day \in Nat
  /\ since \in [Users -> Nat \cup {None}]
  /\ completed \in [Users -> BOOLEAN]
  /\ progress \in [Users -> SUBSET Ids]
  /\ tries \in [Users -> [Quizzes -> [passed: Nat, failed: Nat]]]
  /\ certs \in [Users -> Nat] /\ reviews \in [Users -> Nat]
  /\ xp = [u \in Users |-> xp[u]]
  /\ shuffled \in BOOLEAN

\* A request is of a user, and about a row of the table its statement goes to.
TabsAimed ==
  /\ tab \in [Tabs -> TabRow]
  /\ \A t \in Tabs :
    /\ tab[t].pc # "idle" => tab[t].user \in Users
    /\ tab[t].pc \in {"progress", "save", "lesson"} => tab[t].item \in Topics
    /\ tab[t].pc \in {"count", "submit"} => tab[t].item \in Quizzes

TInv == LearnerTypes /\ TabsAimed

\* What a request has read or written is still so when it goes on.
Knows(t) ==
  LET u == tab[t].user IN
    /\ tab[t].pc = "save" /\ tab[t].was => tab[t].item \in progress[u]
    /\ tab[t].pc = "lesson" => tab[t].item \in progress[u]
    /\ tab[t].pc = "complete" => u \in finished
    /\ tab[t].pc \in {"find", "issue", "sign", "reward", "lookup", "comment"} => completed[u]
    /\ tab[t].pc \in {"sign", "reward"} => certs[u] > 0
TabsKnow == \A t \in Tabs : Knows(t)

\* Tabs that have found no certificate of a user and are about to insert one.
Issuing(u) == {t \in Tabs : tab[t].pc = "issue" /\ tab[t].user = u}
IssuesBounded == \A u \in Users : certs[u] + Cardinality(Issuing(u)) <= Cardinality(Tabs)

EInv == TabsKnow /\ IssuesBounded /\ CertificateEarned /\ XPTruthful

\* As long as the course is as it was at first, its rows are typed.
ShapeTyped ==
  /\ drip \in [Of("module") -> Nat]
  /\ \A x \in Of("module") \cup Topics \cup Quizzes : rows[x] \in RowOf(Kind[x]) \cup {None}

\* Then whoever works at an item, or has ever worked at it, was let in, and would be again.
TabsUnlocked ==
  \A t \in Tabs :
    tab[t].pc \in {"progress", "save", "count", "submit"} => Unlocked(tab[t].user, tab[t].item)
ItemsUnlocked ==
  \A u \in Users, x \in Items :
    Done(u, x) \/ (x \in Quizzes /\ Attempts(u, x) > 0) => Unlocked(u, x)

\* Tabs that have found attempts left at a quiz and are about to submit.
Submitting(u, q) == {t \in Tabs : tab[t].pc = "submit" /\ tab[t].user = u /\ tab[t].item = q}
AttemptsCounted ==
  \A u \in Users, q \in Quizzes \cap Items :
    rows[q].data.limit > 0 =>
      Attempts(u, q) + Cardinality(Submitting(u, q)) < rows[q].data.limit + Cardinality(Tabs)

OInv == ~shuffled => ShapeTyped /\ TabsUnlocked /\ ItemsUnlocked /\ AttemptsCounted

\* The tables of what a learner works through.
LEMMA Tables ==
  /\ Topics \subseteq Ids /\ Quizzes \subseteq Ids /\ Of("module") \subseteq Ids
  /\ \A x \in Topics : Kind[x] = "topic"
  /\ \A x \in Quizzes : Kind[x] = "quiz"
  /\ Topics \cap Quizzes = {}
BY DEF Topics, Quizzes, Of, Table, Kinds, Above

LEMMA Names ==
  /\ "idle" \in Steps /\ "progress" \in Steps /\ "save" \in Steps /\ "lesson" \in Steps
  /\ "count" \in Steps /\ "submit" \in Steps /\ "hand in" \in Steps /\ "sync" \in Steps
  /\ "complete" \in Steps /\ "find" \in Steps /\ "issue" \in Steps /\ "sign" \in Steps
  /\ "reward" \in Steps /\ "lookup" \in Steps /\ "comment" \in Steps
BY DEF Steps

\* What a request under way is about.
LEMMA Aimed ==
  ASSUME TInv, NEW t \in Tabs
  PROVE  /\ tab[t].pc # "idle" => tab[t].user \in Users
         /\ tab[t].pc \in {"progress", "save", "lesson"} => tab[t].item \in Topics
         /\ tab[t].pc \in {"count", "submit"} => tab[t].item \in Quizzes
         /\ tab[t] \in TabRow /\ tab[t].was \in BOOLEAN
BY DEF TInv, TabsAimed, TabRow

\* A request begins; one goes on from one statement to another, about the same; one ends.
Opens(t, pc, u, x) ==
  /\ tab' \in [Tabs -> TabRow] /\ \A s \in Tabs \ {t} : tab'[s] = tab[s]
  /\ tab[t].pc = "idle"
  /\ tab'[t].pc = pc /\ tab'[t].user = u /\ tab'[t].item = x
Goes(t, from, to) ==
  /\ tab' \in [Tabs -> TabRow] /\ \A s \in Tabs \ {t} : tab'[s] = tab[s]
  /\ tab[t].pc = from /\ tab'[t].pc = to
  /\ tab'[t].user = tab[t].user /\ tab'[t].item = tab[t].item
Closes(t) ==
  /\ tab' \in [Tabs -> TabRow] /\ \A s \in Tabs \ {t} : tab'[s] = tab[s]
  /\ tab'[t].pc = "idle"

LEMMA ClosedTyped == Closed \in TabRow /\ Closed.pc = "idle"
BY DEF Closed, TabRow, Steps

\* The ways to write a request's record.
LEMMA StepGoes ==
  ASSUME TInv, NEW t \in Tabs, NEW from, NEW to \in Steps, Step(t, from, to)
  PROVE  Goes(t, from, to)
<1>1. tab[t] \in TabRow
  BY Aimed
<1>2. /\ [tab[t] EXCEPT !.pc = to].pc = to
      /\ [tab[t] EXCEPT !.pc = to].user = tab[t].user
      /\ [tab[t] EXCEPT !.pc = to].item = tab[t].item
      /\ [tab[t] EXCEPT !.pc = to] \in TabRow
  BY <1>1 DEF TabRow
<1>3. tab \in [Tabs -> TabRow] /\ tab' = [tab EXCEPT ![t] = [tab[t] EXCEPT !.pc = to]]
  BY DEF Step, TInv, TabsAimed
<1> QED
  BY <1>2, <1>3 DEF Goes, Step

\* The same for a request that has read whether its topic was complete, or graded its answers.
LEMMA WasGoes ==
  ASSUME TInv, NEW t \in Tabs, NEW from, NEW to \in Steps, NEW b \in BOOLEAN,
         tab[t].pc = from, tab' = [tab EXCEPT ![t].pc = to, ![t].was = b]
  PROVE  Goes(t, from, to) /\ tab'[t].was = b
<1>1. tab[t] \in TabRow
  BY DEF TInv, TabsAimed
<1>2. tab' = [tab EXCEPT ![t] = [tab[t] EXCEPT !.pc = to, !.was = b]]
  BY DEF TInv, TabsAimed
<1> DEFINE r == [tab[t] EXCEPT !.pc = to, !.was = b]
<1>4. /\ r \in TabRow /\ r.pc = to /\ r.was = b /\ r.user = tab[t].user /\ r.item = tab[t].item
  BY <1>1 DEF TabRow
<1> QED
  BY <1>2, <1>4 DEF Goes, TInv, TabsAimed

LEMMA FinishCloses ==
  ASSUME TInv, NEW t \in Tabs, tab' = [tab EXCEPT ![t] = Closed]
  PROVE  Closes(t)
BY ClosedTyped DEF TInv, TabsAimed, Closes

LEMMA StartOpens ==
  ASSUME TInv, NEW t \in Tabs, NEW pc \in Steps, NEW u \in Users, NEW x \in Ids \cup {None},
         \/ Start(t, At(pc, u, x))
         \/ Start(t, [At(pc, u, x) EXCEPT !.admin = TRUE])
  PROVE  Opens(t, pc, u, x)
<1>1. /\ At(pc, u, x) \in TabRow
      /\ At(pc, u, x).pc = pc /\ At(pc, u, x).user = u /\ At(pc, u, x).item = x
  BY ClosedTyped DEF At, Closed, TabRow
<1>2. /\ [At(pc, u, x) EXCEPT !.admin = TRUE] \in TabRow
      /\ [At(pc, u, x) EXCEPT !.admin = TRUE].pc = pc
      /\ [At(pc, u, x) EXCEPT !.admin = TRUE].user = u
      /\ [At(pc, u, x) EXCEPT !.admin = TRUE].item = x
  BY <1>1 DEF TabRow
<1>3. tab \in [Tabs -> TabRow] /\ tab[t].pc = "idle"
  BY ClosedTyped DEF Start, TInv, TabsAimed
<1> QED
  BY <1>1, <1>2, <1>3 DEF Start, Opens

\* What each of them does to the requests under way.
LEMMA HandlerMoves ==
  ASSUME TInv, NEW t \in Tabs
  PROVE  /\ ReadProgress(t) =>
              /\ Goes(t, "progress", "save")
              /\ tab'[t].was = (tab[t].item \in progress[tab[t].user])
         /\ SaveProgress(t) => Goes(t, "save", IF tab[t].was THEN "sync" ELSE "lesson")
         /\ RewardLesson(t) => Goes(t, "lesson", "sync")
         /\ CountAttempts(t) =>
              \/ Closes(t) /\ tab[t].pc = "count"
              \/ Goes(t, "count", "submit") /\ ~LimitReached(tab[t].user, tab[t].item)
         /\ SubmitQuiz(t) => Goes(t, "submit", "sync")
         /\ SubmitAssignment(t) => Closes(t) /\ tab[t].pc = "hand in"
         /\ SyncCheck(t) =>
              \/ Goes(t, "sync", "complete") /\ AllDone(tab[t].user)
              \/ Closes(t) /\ tab[t].pc = "sync"
         /\ SetCompleted(t) => Goes(t, "complete", "find")
         /\ FindCertificate(t) => Goes(t, "find", IF certs[tab[t].user] = 0 THEN "issue" ELSE "sign")
         /\ IssueCertificate(t) => Goes(t, "issue", "sign")
         /\ SignCertificate(t) => Goes(t, "sign", "reward")
         /\ RewardCourse(t) => Closes(t) /\ tab[t].pc = "reward"
         /\ FindReview(t) => Goes(t, "lookup", "comment") \/ (Closes(t) /\ tab[t].pc = "lookup")
         /\ SaveReview(t) => Closes(t) /\ tab[t].pc = "comment"
         /\ GiveUp(t) => Closes(t)
<1>1. ASSUME ReadProgress(t)
      PROVE  Goes(t, "progress", "save") /\ tab'[t].was = (tab[t].item \in progress[tab[t].user])
  <2> DEFINE b == tab[t].item \in progress[tab[t].user]
  <2>1. b \in BOOLEAN
    OBVIOUS
  <2>2. tab[t].pc = "progress" /\ tab' = [tab EXCEPT ![t].pc = "save", ![t].was = b]
    BY <1>1, Zenon DEF ReadProgress
  <2>3. "save" \in Steps
    BY Names
  <2> HIDE DEF b
  <2>4. Goes(t, "progress", "save") /\ tab'[t].was = b
    BY <2>1, <2>2, <2>3, WasGoes
  <2> QED
    BY <2>4 DEF b
<1>2. SaveProgress(t) => Goes(t, "save", IF tab[t].was THEN "sync" ELSE "lesson")
  BY StepGoes, Names DEF SaveProgress
<1>3. RewardLesson(t) => Goes(t, "lesson", "sync")
  BY StepGoes, Names DEF RewardLesson
<1>4. ASSUME CountAttempts(t)
      PROVE  \/ Closes(t) /\ tab[t].pc = "count"
             \/ Goes(t, "count", "submit") /\ ~LimitReached(tab[t].user, tab[t].item)
  <2>1. CASE tab' = [tab EXCEPT ![t] = Closed]
    BY <1>4, <2>1, FinishCloses DEF CountAttempts
  <2>2. ASSUME NEW b \in BOOLEAN, tab' = [tab EXCEPT ![t].pc = "submit", ![t].was = b],
               ~LimitReached(tab[t].user, tab[t].item), tab[t].pc = "count"
        PROVE  Goes(t, "count", "submit") /\ ~LimitReached(tab[t].user, tab[t].item)
    BY <2>2, WasGoes, Names
  <2>3. \A q, right : Passes1(q, right) \in BOOLEAN
    BY DEF Passes1
  <2> QED
    BY <1>4, <2>1, <2>2, <2>3 DEF CountAttempts
<1>5. SubmitQuiz(t) => Goes(t, "submit", "sync")
  BY StepGoes, Names DEF SubmitQuiz
<1>6. SubmitAssignment(t) => Closes(t) /\ tab[t].pc = "hand in"
  BY FinishCloses DEF SubmitAssignment, Finish
<1>7. ASSUME SyncCheck(t)
      PROVE  \/ Goes(t, "sync", "complete") /\ AllDone(tab[t].user)
             \/ Closes(t) /\ tab[t].pc = "sync"
  <2>1. CASE Step(t, "sync", "complete") /\ AllDone(tab[t].user)
    BY <2>1, StepGoes, Names
  <2>2. CASE Finish(t, "sync")
    BY <2>2, FinishCloses DEF Finish
  <2> QED
    BY <1>7, <2>1, <2>2 DEF SyncCheck
<1>8. SetCompleted(t) => Goes(t, "complete", "find")
  BY StepGoes, Names DEF SetCompleted
<1>9. FindCertificate(t) => Goes(t, "find", IF certs[tab[t].user] = 0 THEN "issue" ELSE "sign")
  BY StepGoes, Names DEF FindCertificate
<1>10. IssueCertificate(t) => Goes(t, "issue", "sign")
  BY StepGoes, Names DEF IssueCertificate
<1>11. SignCertificate(t) => Goes(t, "sign", "reward")
  BY StepGoes, Names DEF SignCertificate
<1>12. RewardCourse(t) => Closes(t) /\ tab[t].pc = "reward"
  BY FinishCloses DEF RewardCourse, Finish
<1>13. ASSUME FindReview(t)
       PROVE  Goes(t, "lookup", "comment") \/ (Closes(t) /\ tab[t].pc = "lookup")
  <2>1. CASE Step(t, "lookup", "comment")
    BY <2>1, StepGoes, Names
  <2>2. CASE Finish(t, "lookup")
    BY <2>2, FinishCloses DEF Finish
  <2> QED
    BY <1>13, <2>1, <2>2 DEF FindReview
<1>14. SaveReview(t) => Closes(t) /\ tab[t].pc = "comment"
  BY FinishCloses DEF SaveReview, Finish
<1>15. GiveUp(t) => Closes(t)
  BY FinishCloses DEF GiveUp
<1> QED
  BY <1>1, <1>2, <1>3, <1>4, <1>5, <1>6, <1>7, <1>8, <1>9, <1>10, <1>11, <1>12, <1>13, <1>14, <1>15

LEMMA AskingMoves ==
  ASSUME TInv, NEW t \in Tabs, NEW u \in Users
  PROVE  /\ \A x \in Ids : CompleteTopic(t, u, x) => Opens(t, "progress", u, x) /\ x \in Topics
         /\ \A x \in Ids : StartQuiz(t, u, x) => Opens(t, "count", u, x) /\ x \in Quizzes
         /\ \A x \in Ids : StartAssignment(t, u, x) => Opens(t, "hand in", u, x)
         /\ CreateCourseReview(t, u) => Opens(t, "lookup", u, None)
         /\ \A q \in Quizzes, pass \in BOOLEAN :
              AdminReviewQuizSubmission(t, u, q, pass) => Opens(t, "sync", u, q) \/ UNCHANGED tab
<1>1. ASSUME NEW x \in Ids, CompleteTopic(t, u, x) PROVE Opens(t, "progress", u, x) /\ x \in Topics
  BY <1>1, StartOpens, Names DEF CompleteTopic
<1>2. ASSUME NEW x \in Ids, StartQuiz(t, u, x) PROVE Opens(t, "count", u, x) /\ x \in Quizzes
  BY <1>2, StartOpens, Names DEF StartQuiz
<1>3. ASSUME NEW x \in Ids, StartAssignment(t, u, x) PROVE Opens(t, "hand in", u, x)
  BY <1>3, StartOpens, Names DEF StartAssignment
<1>4. CreateCourseReview(t, u) => Opens(t, "lookup", u, None)
  BY StartOpens, Names DEF CreateCourseReview
<1>5. ASSUME NEW q \in Quizzes, NEW pass \in BOOLEAN, AdminReviewQuizSubmission(t, u, q, pass)
      PROVE  Opens(t, "sync", u, q) \/ UNCHANGED tab
  BY <1>5, StartOpens, Names, Tables DEF AdminReviewQuizSubmission
<1> QED
  BY <1>1, <1>2, <1>3, <1>4, <1>5

\* Whatever a request does, it stays about what it was about.
LEMMA OpensAimed ==
  ASSUME TInv, NEW t \in Tabs, NEW pc, NEW u \in Users, NEW x, Opens(t, pc, u, x),
         pc \in {"progress", "save", "lesson"} => x \in Topics,
         pc \in {"count", "submit"} => x \in Quizzes
  PROVE  TabsAimed'
BY DEF TInv, TabsAimed, Opens

LEMMA GoesAimed ==
  ASSUME TInv, NEW t \in Tabs, NEW from, NEW to, Goes(t, from, to), from # "idle",
         to \notin {"progress", "count"}, to = "save" => from = "progress",
         to = "lesson" => from = "save", to = "submit" => from = "count"
  PROVE  TabsAimed'
BY DEF TInv, TabsAimed, Goes

LEMMA ClosesAimed ==
  ASSUME TInv, NEW t \in Tabs, Closes(t)
  PROVE  TabsAimed'
BY DEF TInv, TabsAimed, Closes

-----------------------------------------------------------------------------
(* What every step keeps. *)

\* Every request goes on with what it is about.
LEMMA AimsStep ==
  ASSUME TInv, [Next]_vars
  PROVE  TabsAimed'
<1>1. ASSUME NEW t \in Tabs, ReadProgress(t) PROVE TabsAimed'
  BY <1>1, HandlerMoves, GoesAimed
<1>2. ASSUME NEW t \in Tabs, SaveProgress(t) PROVE TabsAimed'
  BY <1>2, HandlerMoves, GoesAimed
<1>3. ASSUME NEW t \in Tabs, RewardLesson(t) PROVE TabsAimed'
  BY <1>3, HandlerMoves, GoesAimed
<1>4. ASSUME NEW t \in Tabs, CountAttempts(t) PROVE TabsAimed'
  <2>1. CASE Goes(t, "count", "submit")
    BY <2>1, GoesAimed
  <2>2. CASE Closes(t)
    BY <2>2, ClosesAimed
  <2> QED
    BY <1>4, <2>1, <2>2, HandlerMoves
<1>5. ASSUME NEW t \in Tabs, SubmitQuiz(t) PROVE TabsAimed'
  BY <1>5, HandlerMoves, GoesAimed
<1>6. ASSUME NEW t \in Tabs, SubmitAssignment(t) PROVE TabsAimed'
  BY <1>6, HandlerMoves, ClosesAimed
<1>7. ASSUME NEW t \in Tabs, SyncCheck(t) PROVE TabsAimed'
  <2>1. CASE Goes(t, "sync", "complete")
    BY <2>1, GoesAimed
  <2>2. CASE Closes(t)
    BY <2>2, ClosesAimed
  <2> QED
    BY <1>7, <2>1, <2>2, HandlerMoves
<1>8. ASSUME NEW t \in Tabs, SetCompleted(t) PROVE TabsAimed'
  BY <1>8, HandlerMoves, GoesAimed
<1>9. ASSUME NEW t \in Tabs, FindCertificate(t) PROVE TabsAimed'
  BY <1>9, HandlerMoves, GoesAimed
<1>10. ASSUME NEW t \in Tabs, IssueCertificate(t) PROVE TabsAimed'
  BY <1>10, HandlerMoves, GoesAimed
<1>11. ASSUME NEW t \in Tabs, SignCertificate(t) PROVE TabsAimed'
  BY <1>11, HandlerMoves, GoesAimed
<1>12. ASSUME NEW t \in Tabs, RewardCourse(t) PROVE TabsAimed'
  BY <1>12, HandlerMoves, ClosesAimed
<1>13. ASSUME NEW t \in Tabs, FindReview(t) PROVE TabsAimed'
  <2>1. CASE Goes(t, "lookup", "comment")
    BY <2>1, GoesAimed
  <2>2. CASE Closes(t)
    BY <2>2, ClosesAimed
  <2> QED
    BY <1>13, <2>1, <2>2, HandlerMoves
<1>14. ASSUME NEW t \in Tabs, SaveReview(t) PROVE TabsAimed'
  BY <1>14, HandlerMoves, ClosesAimed
<1>15. ASSUME NEW t \in Tabs, NEW u \in Users, NEW x \in Ids, CompleteTopic(t, u, x) PROVE TabsAimed'
  BY <1>15, AskingMoves, OpensAimed
<1>16. ASSUME NEW t \in Tabs, NEW u \in Users, NEW x \in Ids, StartQuiz(t, u, x) PROVE TabsAimed'
  BY <1>16, AskingMoves, OpensAimed
<1>17. ASSUME NEW t \in Tabs, NEW u \in Users, NEW x \in Ids, StartAssignment(t, u, x) PROVE TabsAimed'
  BY <1>17, AskingMoves, OpensAimed
<1>18. ASSUME NEW t \in Tabs, NEW u \in Users, CreateCourseReview(t, u) PROVE TabsAimed'
  BY <1>18, AskingMoves, OpensAimed
<1>19. ASSUME NEW u \in Users, CreateCourseEnrollment(u) PROVE TabsAimed'
  BY <1>19 DEF CreateCourseEnrollment, TInv, TabsAimed, records
<1>20. ASSUME NEW t \in Tabs, NEW u \in Users, NEW q \in Quizzes, NEW pass \in BOOLEAN, AdminReviewQuizSubmission(t, u, q, pass) PROVE TabsAimed'
  <2>1. CASE Opens(t, "sync", u, q)
    BY <2>1, OpensAimed
  <2>2. CASE UNCHANGED tab
    BY <2>2 DEF TInv, TabsAimed
  <2> QED
    BY <1>20, <2>1, <2>2, AskingMoves
<1>21. ASSUME NEW e \in Editors, NEW u \in Users, NEW x \in Of("assignment"), ReviewAssignmentSubmission(e, u, x) PROVE TabsAimed'
  BY <1>21 DEF ReviewAssignmentSubmission, TInv, TabsAimed, records
<1>22. ASSUME Tick PROVE TabsAimed'
  BY <1>22 DEF Tick, TInv, TabsAimed, records
<1>23. ASSUME NEW t \in Tabs, GiveUp(t) PROVE TabsAimed'
  BY <1>23, HandlerMoves, ClosesAimed
<1>24. ASSUME NEW e \in Instructors, NEW u \in Users, NEW q \in Quizzes, NEW pass \in BOOLEAN, ReviewQuizSubmission(e, u, q, pass) PROVE TabsAimed'
  BY <1>24 DEF ReviewQuizSubmission, TInv, TabsAimed, records
<1>25. CASE UNCHANGED learnerVars \/ (ContentNext /\ UNCHANGED <<day, records, tab, requests, lost>>)
  BY <1>25 DEF TInv, TabsAimed, learnerVars
<1> QED
  BY <1>1, <1>2, <1>3, <1>4, <1>5, <1>6, <1>7, <1>8, <1>9, <1>10, <1>11, <1>12, <1>13, <1>14, <1>15, <1>16, <1>17, <1>18, <1>19, <1>20, <1>21, <1>22, <1>23, <1>24, <1>25
  DEF Next, LearnerStep, Handler, Asking, Reviewing, vars

\* One learner's record of one quiz is written; a review does not change how many attempts it counts.
Rewritten(u, q, r) ==
  /\ tries' \in [Users -> [Quizzes -> [passed: Nat, failed: Nat]]]
  /\ tries'[u][q] = r
  /\ \A v \in Users, p \in Quizzes : v # u \/ p # q => tries'[v][p] = tries[v][p]

LEMMA TriesWritten ==
  ASSUME LearnerTypes, NEW u \in Users, NEW q \in Quizzes, NEW r \in [passed: Nat, failed: Nat],
         tries' = [tries EXCEPT ![u][q] = r]
  PROVE  Rewritten(u, q, r)
<1>1. tries' = [tries EXCEPT ![u] = [tries[u] EXCEPT ![q] = r]]
  OBVIOUS
<1>2. /\ tries[u] \in [Quizzes -> [passed: Nat, failed: Nat]]
      /\ [tries[u] EXCEPT ![q] = r] \in [Quizzes -> [passed: Nat, failed: Nat]]
  BY DEF LearnerTypes
<1>3. tries' \in [Users -> [Quizzes -> [passed: Nat, failed: Nat]]]
  BY <1>1, <1>2 DEF LearnerTypes
<1> QED
  BY <1>1, <1>2, <1>3 DEF LearnerTypes, Rewritten

LEMMA TriesTyped ==
  ASSUME LearnerTypes, NEW u \in Users, NEW q \in Quizzes
  PROVE  tries[u][q] \in [passed: Nat, failed: Nat] /\ tries[u][q].passed \in Nat /\ tries[u][q].failed \in Nat
BY DEF LearnerTypes

LEMMA Judged ==
  ASSUME LearnerTypes, NEW u \in Users, NEW q \in Quizzes, NEW pass \in BOOLEAN, Judge(u, q, pass)
  PROVE  /\ tries' \in [Users -> [Quizzes -> [passed: Nat, failed: Nat]]]
         /\ \A v \in Users, p \in Quizzes :
              tries'[v][p].passed + tries'[v][p].failed = Attempts(v, p)
<1> DEFINE now == tries[u][q]
<1>1. tries[u][q].passed \in Nat /\ tries[u][q].failed \in Nat
  BY TriesTyped
<1>2. CASE UNCHANGED tries
  BY <1>2 DEF LearnerTypes, Attempts
<1>3. ASSUME NEW r \in [passed: Nat, failed: Nat], tries' = [tries EXCEPT ![u][q] = r],
             r.passed + r.failed = tries[u][q].passed + tries[u][q].failed
      PROVE  /\ tries' \in [Users -> [Quizzes -> [passed: Nat, failed: Nat]]]
             /\ \A v \in Users, p \in Quizzes :
                  tries'[v][p].passed + tries'[v][p].failed = Attempts(v, p)
  <2>1. Rewritten(u, q, r)
    BY <1>3, TriesWritten
  <2> QED
    BY <1>3, <2>1 DEF Rewritten, Attempts
<1>4. CASE pass /\ now.failed > 0 /\ tries' = [tries EXCEPT ![u][q] = [passed |-> now.passed + 1, failed |-> now.failed - 1]]
  <2> DEFINE r == [passed |-> now.passed + 1, failed |-> now.failed - 1]
  <2>1. r \in [passed: Nat, failed: Nat] /\ r.passed + r.failed = now.passed + now.failed
    BY <1>1, <1>4
  <2> QED
    BY <1>3, <1>4, <2>1
<1>5. CASE ~pass /\ now.passed > 0 /\ tries' = [tries EXCEPT ![u][q] = [passed |-> now.passed - 1, failed |-> now.failed + 1]]
  <2> DEFINE r == [passed |-> now.passed - 1, failed |-> now.failed + 1]
  <2>1. r \in [passed: Nat, failed: Nat] /\ r.passed + r.failed = now.passed + now.failed
    BY <1>1, <1>5
  <2> QED
    BY <1>3, <1>5, <2>1
<1> QED
  BY <1>2, <1>4, <1>5 DEF Judge

\* An attempt is one more, passed or not, of its quiz.
LEMMA Submitted ==
  ASSUME TInv, NEW t \in Tabs, SubmitQuiz(t)
  PROVE  /\ tab[t].user \in Users /\ tab[t].item \in Quizzes
         /\ \E r \in [passed: Nat, failed: Nat] :
              /\ Rewritten(tab[t].user, tab[t].item, r)
              /\ r.passed >= tries[tab[t].user][tab[t].item].passed
              /\ r.passed + r.failed = Attempts(tab[t].user, tab[t].item) + 1
<1> DEFINE u == tab[t].user
           q == tab[t].item
           now == tries[u][q]
           r == IF tab[t].was THEN [passed |-> now.passed + 1, failed |-> now.failed]
                ELSE [passed |-> now.passed, failed |-> now.failed + 1]
<1>1. u \in Users /\ q \in Quizzes
  BY Aimed DEF SubmitQuiz, Step
<1>2. now \in [passed: Nat, failed: Nat] /\ now.passed \in Nat /\ now.failed \in Nat
  BY <1>1, TriesTyped DEF TInv
<1>3. /\ r \in [passed: Nat, failed: Nat] /\ r.passed >= now.passed
      /\ r.passed + r.failed = now.passed + now.failed + 1
  BY <1>2
<1>4. tries' = [tries EXCEPT ![u][q] = r]
  BY DEF SubmitQuiz
<1>5. Rewritten(u, q, r)
  BY <1>1, <1>3, <1>4, TriesWritten DEF TInv
<1> QED
  BY <1>1, <1>3, <1>5 DEF Attempts

\* Every request writes values of their types.
LEMMA RecordsStep ==
  ASSUME TInv, [Next]_vars
  PROVE  LearnerTypes'
<1>h. shuffled' \in BOOLEAN
  BY DEF Next, History, TInv, LearnerTypes, vars, learnerVars
<1>1. ASSUME NEW t \in Tabs, ReadProgress(t) PROVE LearnerTypes'
  BY <1>1, <1>h DEF ReadProgress, TInv, LearnerTypes, records
<1>2. ASSUME NEW t \in Tabs, SaveProgress(t) PROVE LearnerTypes'
  <2>1. tab[t].user \in Users /\ tab[t].item \in Ids
    BY <1>2, Aimed, Tables DEF SaveProgress, Step
  <2> QED
    BY <1>2, <1>h, <2>1 DEF SaveProgress, TInv, LearnerTypes, records
<1>3. ASSUME NEW t \in Tabs, RewardLesson(t) PROVE LearnerTypes'
  BY <1>3, <1>h DEF RewardLesson, AwardXP, TInv, LearnerTypes, records
<1>4. ASSUME NEW t \in Tabs, CountAttempts(t) PROVE LearnerTypes'
  BY <1>4, <1>h DEF CountAttempts, TInv, LearnerTypes, records
<1>5. ASSUME NEW t \in Tabs, SubmitQuiz(t) PROVE LearnerTypes'
  BY <1>5, <1>h, Submitted DEF SubmitQuiz, Step, Rewritten, TInv, LearnerTypes, records
<1>6. ASSUME NEW t \in Tabs, SubmitAssignment(t) PROVE LearnerTypes'
  BY <1>6, <1>h DEF SubmitAssignment, TInv, LearnerTypes, records
<1>7. ASSUME NEW t \in Tabs, SyncCheck(t) PROVE LearnerTypes'
  BY <1>7, <1>h DEF SyncCheck, TInv, LearnerTypes, records
<1>8. ASSUME NEW t \in Tabs, SetCompleted(t) PROVE LearnerTypes'
  BY <1>8, <1>h DEF SetCompleted, TInv, LearnerTypes, records
<1>9. ASSUME NEW t \in Tabs, FindCertificate(t) PROVE LearnerTypes'
  BY <1>9, <1>h DEF FindCertificate, TInv, LearnerTypes, records
<1>10. ASSUME NEW t \in Tabs, IssueCertificate(t) PROVE LearnerTypes'
  <2>1. tab[t].user \in Users
    BY <1>10, Aimed DEF IssueCertificate, Step
  <2> QED
    BY <1>10, <1>h, <2>1 DEF IssueCertificate, TInv, LearnerTypes, records
<1>11. ASSUME NEW t \in Tabs, SignCertificate(t) PROVE LearnerTypes'
  BY <1>11, <1>h DEF SignCertificate, TInv, LearnerTypes, records
<1>12. ASSUME NEW t \in Tabs, RewardCourse(t) PROVE LearnerTypes'
  BY <1>12, <1>h DEF RewardCourse, AwardXP, TInv, LearnerTypes, records
<1>13. ASSUME NEW t \in Tabs, FindReview(t) PROVE LearnerTypes'
  BY <1>13, <1>h DEF FindReview, TInv, LearnerTypes, records
<1>14. ASSUME NEW t \in Tabs, SaveReview(t) PROVE LearnerTypes'
  <2>1. tab[t].user \in Users
    BY <1>14, Aimed DEF SaveReview, Finish
  <2> QED
    BY <1>14, <1>h, <2>1 DEF SaveReview, TInv, LearnerTypes, records
<1>15. ASSUME NEW t \in Tabs, NEW u \in Users, NEW x \in Ids, CompleteTopic(t, u, x) PROVE LearnerTypes'
  BY <1>15, <1>h DEF CompleteTopic, TInv, LearnerTypes, records
<1>16. ASSUME NEW t \in Tabs, NEW u \in Users, NEW x \in Ids, StartQuiz(t, u, x) PROVE LearnerTypes'
  BY <1>16, <1>h DEF StartQuiz, TInv, LearnerTypes, records
<1>17. ASSUME NEW t \in Tabs, NEW u \in Users, NEW x \in Ids, StartAssignment(t, u, x) PROVE LearnerTypes'
  BY <1>17, <1>h DEF StartAssignment, TInv, LearnerTypes, records
<1>18. ASSUME NEW t \in Tabs, NEW u \in Users, CreateCourseReview(t, u) PROVE LearnerTypes'
  BY <1>18, <1>h DEF CreateCourseReview, TInv, LearnerTypes, records
<1>19. ASSUME NEW u \in Users, CreateCourseEnrollment(u) PROVE LearnerTypes'
  BY <1>19, <1>h DEF CreateCourseEnrollment, TInv, LearnerTypes, records
<1>20. ASSUME NEW t \in Tabs, NEW u \in Users, NEW q \in Quizzes, NEW pass \in BOOLEAN, AdminReviewQuizSubmission(t, u, q, pass) PROVE LearnerTypes'
  BY <1>20, <1>h, Judged DEF AdminReviewQuizSubmission, TInv, LearnerTypes, records
<1>21. ASSUME NEW e \in Editors, NEW u \in Users, NEW x \in Of("assignment"), ReviewAssignmentSubmission(e, u, x) PROVE LearnerTypes'
  BY <1>21, <1>h DEF ReviewAssignmentSubmission, TInv, LearnerTypes, records
<1>22. ASSUME Tick PROVE LearnerTypes'
  BY <1>22, <1>h DEF Tick, TInv, LearnerTypes, records
<1>23. ASSUME NEW t \in Tabs, GiveUp(t) PROVE LearnerTypes'
  BY <1>23, <1>h DEF GiveUp, TInv, LearnerTypes, records
<1>24. ASSUME NEW e \in Instructors, NEW u \in Users, NEW q \in Quizzes, NEW pass \in BOOLEAN, ReviewQuizSubmission(e, u, q, pass) PROVE LearnerTypes'
  BY <1>24, <1>h, Judged DEF ReviewQuizSubmission, TInv, LearnerTypes, records
<1>25. CASE UNCHANGED learnerVars \/ (ContentNext /\ UNCHANGED <<day, records, tab, requests, lost>>)
  BY <1>25, <1>h DEF learnerVars, TInv, LearnerTypes, records
<1> QED
  BY <1>1, <1>2, <1>3, <1>4, <1>5, <1>6, <1>7, <1>8, <1>9, <1>10, <1>11, <1>12, <1>13, <1>14, <1>15, <1>16, <1>17, <1>18, <1>19, <1>20, <1>21, <1>22, <1>23, <1>24, <1>25
  DEF Next, LearnerStep, Handler, Asking, Reviewing, vars

\* Of what requests know, nothing is taken back.
Growing ==
  /\ finished \subseteq finished'
  /\ \A u \in Users :
      /\ completed[u] => completed'[u]
      /\ progress[u] \subseteq progress'[u] /\ xp[u] \subseteq xp'[u]
      /\ certs[u] <= certs'[u]

\* Nothing but a quiz's result is ever taken back.
LEMMA Grows ==
  ASSUME TInv, [Next]_vars
  PROVE  Growing
<1>h. finished \subseteq finished'
  BY DEF Next, History, vars, learnerVars
<1>1. ASSUME NEW t \in Tabs, ReadProgress(t), UNCHANGED <<contentVars, lost>>
       PROVE Growing
  BY <1>1, <1>h DEF ReadProgress, TInv, LearnerTypes, Growing, records
<1>2. ASSUME NEW t \in Tabs, SaveProgress(t), UNCHANGED <<contentVars, lost>>
       PROVE Growing
  BY <1>2, <1>h DEF SaveProgress, TInv, LearnerTypes, Growing, records
<1>3. ASSUME NEW t \in Tabs, RewardLesson(t), UNCHANGED <<contentVars, lost>>
       PROVE Growing
  BY <1>3, <1>h DEF RewardLesson, AwardXP, TInv, LearnerTypes, Growing, records
<1>4. ASSUME NEW t \in Tabs, CountAttempts(t), UNCHANGED <<contentVars, lost>>
       PROVE Growing
  BY <1>4, <1>h DEF CountAttempts, TInv, LearnerTypes, Growing, records
<1>5. ASSUME NEW t \in Tabs, SubmitQuiz(t), UNCHANGED <<contentVars, lost>>
       PROVE Growing
  BY <1>5, <1>h DEF SubmitQuiz, TInv, LearnerTypes, Growing, records
<1>6. ASSUME NEW t \in Tabs, SubmitAssignment(t), UNCHANGED <<contentVars, lost>>
       PROVE Growing
  <2>1. UNCHANGED <<completed, progress, certs, xp>>
    BY <1>6 DEF SubmitAssignment, records
  <2> QED
    BY <2>1, <1>h DEF TInv, LearnerTypes, Growing
<1>7. ASSUME NEW t \in Tabs, SyncCheck(t), UNCHANGED <<contentVars, lost>>
       PROVE Growing
  BY <1>7, <1>h DEF SyncCheck, TInv, LearnerTypes, Growing, records
<1>8. ASSUME NEW t \in Tabs, SetCompleted(t), UNCHANGED <<contentVars, lost>>
       PROVE Growing
  BY <1>8, <1>h DEF SetCompleted, TInv, LearnerTypes, Growing, records
<1>9. ASSUME NEW t \in Tabs, FindCertificate(t), UNCHANGED <<contentVars, lost>>
       PROVE Growing
  BY <1>9, <1>h DEF FindCertificate, TInv, LearnerTypes, Growing, records
<1>10. ASSUME NEW t \in Tabs, IssueCertificate(t), UNCHANGED <<contentVars, lost>>
       PROVE Growing
  BY <1>10, <1>h DEF IssueCertificate, TInv, LearnerTypes, Growing, records
<1>11. ASSUME NEW t \in Tabs, SignCertificate(t), UNCHANGED <<contentVars, lost>>
       PROVE Growing
  BY <1>11, <1>h DEF SignCertificate, TInv, LearnerTypes, Growing, records
<1>12. ASSUME NEW t \in Tabs, RewardCourse(t), UNCHANGED <<contentVars, lost>>
       PROVE Growing
  BY <1>12, <1>h DEF RewardCourse, AwardXP, TInv, LearnerTypes, Growing, records
<1>13. ASSUME NEW t \in Tabs, FindReview(t), UNCHANGED <<contentVars, lost>>
       PROVE Growing
  BY <1>13, <1>h DEF FindReview, TInv, LearnerTypes, Growing, records
<1>14. ASSUME NEW t \in Tabs, SaveReview(t), UNCHANGED <<contentVars, lost>>
       PROVE Growing
  BY <1>14, <1>h DEF SaveReview, TInv, LearnerTypes, Growing, records
<1>15. ASSUME NEW t \in Tabs, NEW u \in Users, NEW x \in Ids, CompleteTopic(t, u, x), UNCHANGED <<contentVars, lost>>
       PROVE Growing
  BY <1>15, <1>h DEF CompleteTopic, TInv, LearnerTypes, Growing, records
<1>16. ASSUME NEW t \in Tabs, NEW u \in Users, NEW x \in Ids, StartQuiz(t, u, x), UNCHANGED <<contentVars, lost>>
       PROVE Growing
  BY <1>16, <1>h DEF StartQuiz, TInv, LearnerTypes, Growing, records
<1>17. ASSUME NEW t \in Tabs, NEW u \in Users, NEW x \in Ids, StartAssignment(t, u, x), UNCHANGED <<contentVars, lost>>
       PROVE Growing
  <2>1. UNCHANGED <<completed, progress, certs, xp>>
    BY <1>17 DEF StartAssignment, records
  <2> QED
    BY <2>1, <1>h DEF TInv, LearnerTypes, Growing
<1>18. ASSUME NEW t \in Tabs, NEW u \in Users, CreateCourseReview(t, u), UNCHANGED <<contentVars, lost>>
       PROVE Growing
  BY <1>18, <1>h DEF CreateCourseReview, TInv, LearnerTypes, Growing, records
<1>19. ASSUME NEW u \in Users, CreateCourseEnrollment(u), UNCHANGED <<contentVars, lost>>
       PROVE Growing
  BY <1>19, <1>h DEF CreateCourseEnrollment, TInv, LearnerTypes, Growing, records
<1>20. ASSUME NEW t \in Tabs, NEW u \in Users, NEW q \in Quizzes, NEW pass \in BOOLEAN, AdminReviewQuizSubmission(t, u, q, pass), UNCHANGED <<contentVars, lost>>
       PROVE Growing
  BY <1>20, <1>h DEF AdminReviewQuizSubmission, TInv, LearnerTypes, Growing, records
<1>21. ASSUME NEW e \in Editors, NEW u \in Users, NEW x \in Of("assignment"), ReviewAssignmentSubmission(e, u, x), UNCHANGED <<contentVars, lost>>
       PROVE Growing
  BY <1>21, <1>h DEF ReviewAssignmentSubmission, TInv, LearnerTypes, Growing, records
<1>22. ASSUME Tick, UNCHANGED <<contentVars, lost>>
       PROVE Growing
  BY <1>22, <1>h DEF Tick, TInv, LearnerTypes, Growing, records
<1>23. ASSUME NEW t \in Tabs, GiveUp(t), UNCHANGED contentVars
       PROVE Growing
  BY <1>23, <1>h DEF GiveUp, TInv, LearnerTypes, Growing, records
<1>24. ASSUME NEW e \in Instructors, NEW u \in Users, NEW q \in Quizzes, NEW pass \in BOOLEAN, ReviewQuizSubmission(e, u, q, pass), UNCHANGED contentVars
       PROVE Growing
  BY <1>24, <1>h DEF ReviewQuizSubmission, TInv, LearnerTypes, Growing, records
<1>25. CASE UNCHANGED learnerVars \/ (ContentNext /\ UNCHANGED <<day, records, tab, requests, lost>>)
  BY <1>25, <1>h DEF learnerVars, TInv, LearnerTypes, Growing, records
<1> QED
  BY <1>1, <1>2, <1>3, <1>4, <1>5, <1>6, <1>7, <1>8, <1>9, <1>10, <1>11, <1>12, <1>13, <1>14, <1>15, <1>16, <1>17, <1>18, <1>19, <1>20, <1>21, <1>22, <1>23, <1>24, <1>25
  DEF Next, LearnerStep, Handler, Asking, Reviewing, vars

\* Then the other requests still know what they knew.
LEMMA OthersKnow ==
  ASSUME TInv, TabsKnow, Growing, certs' \in [Users -> Nat], NEW t \in Tabs, \A s \in Tabs \ {t} : tab'[s] = tab[s], Knows(t)'
  PROVE  TabsKnow'
<1> SUFFICES ASSUME NEW s \in Tabs, s # t PROVE Knows(s)'
  BY DEF TabsKnow
<1>1. tab'[s] = tab[s] /\ Knows(s)
  BY DEF TabsKnow
<1>2. CASE tab[s].pc = "idle"
  BY <1>1, <1>2 DEF Knows
<1>3. CASE tab[s].user \in Users
  <2>1. certs[tab[s].user] \in Nat /\ certs'[tab[s].user] \in Nat
    BY <1>3 DEF TInv, LearnerTypes
  <2> QED
    BY <1>1, <1>3, <2>1 DEF Knows, Growing
<1> QED
  BY <1>2, <1>3, Aimed

LEMMA TabsKnown ==
  ASSUME TabsKnow, NEW t \in Tabs
  PROVE  Knows(t)
BY DEF TabsKnow

\* Whoever has done every item now is among those who have.
LEMMA DoneThen ==
  ASSUME [Next]_vars, NEW u \in Users, AllDone(u), UNCHANGED <<contentVars, since, progress, tries>>, Next
  PROVE  u \in finished'
<1>1. Modules' = Modules
  BY DEF Modules, contentVars
<1>2. Items' = Items
  BY <1>1 DEF Items, contentVars
<1>3. AllDone(u)'
  BY <1>2 DEF AllDone, Done
<1> QED
  BY <1>3 DEF Next, History

\* A request goes on only with what it has found.
LEMMA KnowStep ==
  ASSUME TInv, TabsKnow, Growing, certs' \in [Users -> Nat], [Next]_vars
  PROVE  TabsKnow'
<1>g. Growing /\ certs' \in [Users -> Nat]
  OBVIOUS
<1>1. ASSUME NEW t \in Tabs, ReadProgress(t), UNCHANGED <<contentVars, lost>>
       PROVE TabsKnow'
  <2>1. Knows(t)'
    BY <1>1, HandlerMoves, Aimed, TabsKnown DEF Knows, Goes, ReadProgress, records
  <2>2. \A s \in Tabs \ {t} : tab'[s] = tab[s]
    BY <1>1, HandlerMoves DEF Goes
  <2> QED
    BY <2>1, <2>2, <1>g, OthersKnow
<1>2. ASSUME NEW t \in Tabs, SaveProgress(t), UNCHANGED <<contentVars, lost>>
       PROVE TabsKnow'
  <2>1. Knows(t)'
    BY <1>2, HandlerMoves, Aimed, TabsKnown DEF Knows, Goes, SaveProgress, records, TInv, LearnerTypes
  <2>2. \A s \in Tabs \ {t} : tab'[s] = tab[s]
    BY <1>2, HandlerMoves DEF Goes
  <2> QED
    BY <2>1, <2>2, <1>g, OthersKnow
<1>3. ASSUME NEW t \in Tabs, RewardLesson(t), UNCHANGED <<contentVars, lost>>
       PROVE TabsKnow'
  <2>1. Knows(t)'
    BY <1>3, HandlerMoves, Aimed, TabsKnown DEF Knows, Goes, records
  <2>2. \A s \in Tabs \ {t} : tab'[s] = tab[s]
    BY <1>3, HandlerMoves DEF Goes
  <2> QED
    BY <2>1, <2>2, <1>g, OthersKnow
<1>4. ASSUME NEW t \in Tabs, CountAttempts(t), UNCHANGED <<contentVars, lost>>
       PROVE TabsKnow'
  <2>1. Knows(t)'
    BY <1>4, HandlerMoves, Aimed, TabsKnown DEF Knows, Goes, Closes, records
  <2>2. \A s \in Tabs \ {t} : tab'[s] = tab[s]
    BY <1>4, HandlerMoves DEF Goes, Closes
  <2> QED
    BY <2>1, <2>2, <1>g, OthersKnow
<1>5. ASSUME NEW t \in Tabs, SubmitQuiz(t), UNCHANGED <<contentVars, lost>>
       PROVE TabsKnow'
  <2>1. Knows(t)'
    BY <1>5, HandlerMoves, Aimed, TabsKnown DEF Knows, Goes, records
  <2>2. \A s \in Tabs \ {t} : tab'[s] = tab[s]
    BY <1>5, HandlerMoves DEF Goes
  <2> QED
    BY <2>1, <2>2, <1>g, OthersKnow
<1>6. ASSUME NEW t \in Tabs, SubmitAssignment(t), UNCHANGED <<contentVars, lost>>
       PROVE TabsKnow'
  <2>1. Knows(t)'
    BY <1>6, HandlerMoves, Aimed, TabsKnown DEF Knows, Closes, records
  <2>2. \A s \in Tabs \ {t} : tab'[s] = tab[s]
    BY <1>6, HandlerMoves DEF Closes
  <2> QED
    BY <2>1, <2>2, <1>g, OthersKnow
<1>7. ASSUME NEW t \in Tabs, SyncCheck(t), UNCHANGED <<contentVars, lost>>
       PROVE TabsKnow'
  <2>1. CASE Goes(t, "sync", "complete") /\ AllDone(tab[t].user)
    <3>1. Next
      BY <2>1 DEF Goes, vars, learnerVars
    <3>2. tab[t].user \in Users
      BY <2>1, Aimed DEF Goes
    <3>3. UNCHANGED <<contentVars, since, progress, tries>>
      BY <1>7 DEF SyncCheck, records
    <3>4. tab[t].user \in finished'
      BY <2>1, <3>1, <3>2, <3>3, DoneThen
    <3>5. Knows(t)'
      BY <2>1, <3>4 DEF Knows, Goes
    <3> QED
      BY <2>1, <3>5, <1>g, OthersKnow DEF Goes
  <2>2. CASE Closes(t)
    <3>1. Knows(t)'
      BY <2>2 DEF Knows, Closes
    <3> QED
      BY <2>2, <3>1, <1>g, OthersKnow DEF Closes
  <2> QED
    BY <1>7, <2>1, <2>2, HandlerMoves
<1>8. ASSUME NEW t \in Tabs, SetCompleted(t), UNCHANGED <<contentVars, lost>>
       PROVE TabsKnow'
  <2>1. Knows(t)'
    BY <1>8, HandlerMoves, Aimed, TabsKnown DEF Knows, Goes, SetCompleted, records, TInv, LearnerTypes
  <2>2. \A s \in Tabs \ {t} : tab'[s] = tab[s]
    BY <1>8, HandlerMoves DEF Goes
  <2> QED
    BY <2>1, <2>2, <1>g, OthersKnow
<1>9. ASSUME NEW t \in Tabs, FindCertificate(t), UNCHANGED <<contentVars, lost>>
       PROVE TabsKnow'
  <2>1. Goes(t, "find", IF certs[tab[t].user] = 0 THEN "issue" ELSE "sign")
    BY <1>9, HandlerMoves
  <2>2. tab[t].user \in Users /\ certs[tab[t].user] \in Nat /\ completed[tab[t].user]
    <3>1. tab[t].user \in Users
      BY <2>1, Aimed DEF Goes
    <3> QED
      BY <2>1, <3>1, TabsKnown DEF Goes, Knows, TInv, LearnerTypes
  <2>3. completed'[tab[t].user] /\ certs' = certs /\ certs[tab[t].user] \in Nat
    BY <1>9, <2>2 DEF FindCertificate, records, TInv, LearnerTypes
  <2>4. Knows(t)'
    BY <2>1, <2>2, <2>3 DEF Goes, Knows
  <2> QED
    BY <2>1, <2>4, <1>g, OthersKnow DEF Goes
<1>10. ASSUME NEW t \in Tabs, IssueCertificate(t), UNCHANGED <<contentVars, lost>>
       PROVE TabsKnow'
  <2>1. Goes(t, "issue", "sign")
    BY <1>10, HandlerMoves
  <2>2. tab[t].user \in Users /\ certs[tab[t].user] \in Nat /\ completed[tab[t].user]
    <3>1. tab[t].user \in Users
      BY <2>1, Aimed DEF Goes
    <3> QED
      BY <2>1, <3>1, TabsKnown DEF Goes, Knows, TInv, LearnerTypes
  <2>3. completed'[tab[t].user] /\ certs'[tab[t].user] > 0
    BY <1>10, <2>2 DEF IssueCertificate, records, TInv, LearnerTypes
  <2>4. Knows(t)'
    BY <2>1, <2>2, <2>3 DEF Goes, Knows
  <2> QED
    BY <2>1, <2>4, <1>g, OthersKnow DEF Goes
<1>11. ASSUME NEW t \in Tabs, SignCertificate(t), UNCHANGED <<contentVars, lost>>
       PROVE TabsKnow'
  <2>1. Knows(t)'
    BY <1>11, HandlerMoves, Aimed, TabsKnown DEF Knows, Goes, SignCertificate, records
  <2>2. \A s \in Tabs \ {t} : tab'[s] = tab[s]
    BY <1>11, HandlerMoves DEF Goes
  <2> QED
    BY <2>1, <2>2, <1>g, OthersKnow
<1>12. ASSUME NEW t \in Tabs, RewardCourse(t), UNCHANGED <<contentVars, lost>>
       PROVE TabsKnow'
  <2>1. Knows(t)'
    BY <1>12, HandlerMoves, Aimed, TabsKnown DEF Knows, Closes, records
  <2>2. \A s \in Tabs \ {t} : tab'[s] = tab[s]
    BY <1>12, HandlerMoves DEF Closes
  <2> QED
    BY <2>1, <2>2, <1>g, OthersKnow
<1>13. ASSUME NEW t \in Tabs, FindReview(t), UNCHANGED <<contentVars, lost>>
       PROVE TabsKnow'
  <2>1. Knows(t)'
    BY <1>13, HandlerMoves, Aimed, TabsKnown DEF Knows, Goes, Closes, FindReview, records
  <2>2. \A s \in Tabs \ {t} : tab'[s] = tab[s]
    BY <1>13, HandlerMoves DEF Goes, Closes
  <2> QED
    BY <2>1, <2>2, <1>g, OthersKnow
<1>14. ASSUME NEW t \in Tabs, SaveReview(t), UNCHANGED <<contentVars, lost>>
       PROVE TabsKnow'
  <2>1. Knows(t)'
    BY <1>14, HandlerMoves, Aimed, TabsKnown DEF Knows, Closes, records
  <2>2. \A s \in Tabs \ {t} : tab'[s] = tab[s]
    BY <1>14, HandlerMoves DEF Closes
  <2> QED
    BY <2>1, <2>2, <1>g, OthersKnow
<1>15. ASSUME NEW t \in Tabs, NEW u \in Users, NEW x \in Ids, CompleteTopic(t, u, x), UNCHANGED <<contentVars, lost>>
       PROVE TabsKnow'
  <2>1. Knows(t)'
    BY <1>15, AskingMoves, Aimed, TabsKnown DEF Knows, Opens, records
  <2>2. \A s \in Tabs \ {t} : tab'[s] = tab[s]
    BY <1>15, AskingMoves DEF Opens
  <2> QED
    BY <2>1, <2>2, <1>g, OthersKnow
<1>16. ASSUME NEW t \in Tabs, NEW u \in Users, NEW x \in Ids, StartQuiz(t, u, x), UNCHANGED <<contentVars, lost>>
       PROVE TabsKnow'
  <2>1. Knows(t)'
    BY <1>16, AskingMoves, Aimed, TabsKnown DEF Knows, Opens, records
  <2>2. \A s \in Tabs \ {t} : tab'[s] = tab[s]
    BY <1>16, AskingMoves DEF Opens
  <2> QED
    BY <2>1, <2>2, <1>g, OthersKnow
<1>17. ASSUME NEW t \in Tabs, NEW u \in Users, NEW x \in Ids, StartAssignment(t, u, x), UNCHANGED <<contentVars, lost>>
       PROVE TabsKnow'
  <2>1. Knows(t)'
    BY <1>17, AskingMoves, Aimed, TabsKnown DEF Knows, Opens, records
  <2>2. \A s \in Tabs \ {t} : tab'[s] = tab[s]
    BY <1>17, AskingMoves DEF Opens
  <2> QED
    BY <2>1, <2>2, <1>g, OthersKnow
<1>18. ASSUME NEW t \in Tabs, NEW u \in Users, CreateCourseReview(t, u), UNCHANGED <<contentVars, lost>>
       PROVE TabsKnow'
  <2>1. Opens(t, "lookup", u, None)
    BY <1>18, AskingMoves
  <2>3. completed'[u]
    BY <1>18 DEF CreateCourseReview, records, TInv, LearnerTypes
  <2>4. Knows(t)'
    BY <2>1, <2>3 DEF Opens, Knows
  <2> QED
    BY <2>1, <2>4, <1>g, OthersKnow DEF Opens
<1>19. ASSUME NEW u \in Users, CreateCourseEnrollment(u), UNCHANGED <<contentVars, lost>>
       PROVE TabsKnow'
  BY <1>19, <1>g DEF CreateCourseEnrollment, TabsKnow, Knows, Growing, records, TInv, LearnerTypes, TabsAimed
<1>20. ASSUME NEW t \in Tabs, NEW u \in Users, NEW q \in Quizzes, NEW pass \in BOOLEAN, AdminReviewQuizSubmission(t, u, q, pass), UNCHANGED <<contentVars, lost>>
       PROVE TabsKnow'
  <2>1. CASE Opens(t, "sync", u, q)
    <3>1. Knows(t)'
      BY <2>1 DEF Opens, Knows
    <3> QED
      BY <2>1, <3>1, <1>g, OthersKnow DEF Opens
  <2>2. CASE UNCHANGED tab
    BY <1>20, <1>g, <2>2 DEF AdminReviewQuizSubmission, TabsKnow, Knows, Growing, records, TInv, LearnerTypes, TabsAimed
  <2> QED
    BY <1>20, <2>1, <2>2, AskingMoves
<1>21. ASSUME NEW e \in Editors, NEW u \in Users, NEW x \in Of("assignment"), ReviewAssignmentSubmission(e, u, x), UNCHANGED <<contentVars, lost>>
       PROVE TabsKnow'
  BY <1>21, <1>g DEF ReviewAssignmentSubmission, TabsKnow, Knows, Growing, records, TInv, LearnerTypes, TabsAimed
<1>22. ASSUME Tick, UNCHANGED <<contentVars, lost>>
       PROVE TabsKnow'
  BY <1>22, <1>g DEF Tick, TabsKnow, Knows, Growing, records, TInv, LearnerTypes, TabsAimed
<1>23. ASSUME NEW t \in Tabs, GiveUp(t), UNCHANGED contentVars
       PROVE TabsKnow'
  <2>1. Knows(t)'
    BY <1>23, HandlerMoves, Aimed, TabsKnown DEF Knows, Closes, records
  <2>2. \A s \in Tabs \ {t} : tab'[s] = tab[s]
    BY <1>23, HandlerMoves DEF Closes
  <2> QED
    BY <2>1, <2>2, <1>g, OthersKnow
<1>24. ASSUME NEW e \in Instructors, NEW u \in Users, NEW q \in Quizzes, NEW pass \in BOOLEAN, ReviewQuizSubmission(e, u, q, pass), UNCHANGED contentVars
       PROVE TabsKnow'
  BY <1>24, <1>g DEF ReviewQuizSubmission, TabsKnow, Knows, Growing, records, TInv, LearnerTypes, TabsAimed
<1>25. CASE UNCHANGED learnerVars \/ (ContentNext /\ UNCHANGED <<day, records, tab, requests, lost>>)
  <2>1. UNCHANGED <<tab, progress, completed, certs>>
    BY <1>25 DEF learnerVars, records
  <2> QED
    BY <1>g, <2>1 DEF TabsKnow, Knows, Growing
<1> QED
  BY <1>1, <1>2, <1>3, <1>4, <1>5, <1>6, <1>7, <1>8, <1>9, <1>10, <1>11, <1>12, <1>13, <1>14, <1>15, <1>16, <1>17, <1>18, <1>19, <1>20, <1>21, <1>22, <1>23, <1>24, <1>25
  DEF Next, LearnerStep, Handler, Asking, Reviewing, vars

\* How many requests are about to issue a certificate of a user.
LEMMA IssuingCounted ==
  ASSUME NEW u \in Users
  PROVE  /\ IsFiniteSet(Tabs) /\ Cardinality(Tabs) \in Nat
         /\ IsFiniteSet(Issuing(u)) /\ Cardinality(Issuing(u)) \in Nat
         /\ IsFiniteSet(Issuing(u)') /\ Cardinality(Issuing(u)') \in Nat
         /\ Cardinality(Issuing(u)') <= Cardinality(Tabs)
         /\ Issuing(u)' \subseteq Issuing(u) => Cardinality(Issuing(u)') <= Cardinality(Issuing(u))
         /\ \A t \in Issuing(u) :
              Issuing(u)' \subseteq Issuing(u) \ {t} => Cardinality(Issuing(u)') + 1 <= Cardinality(Issuing(u))
<1>1. IsFiniteSet(Tabs) /\ Cardinality(Tabs) \in Nat
  BY LearningAssumption, FS_CardinalityType
<1>2. /\ IsFiniteSet(Issuing(u)) /\ Cardinality(Issuing(u)) \in Nat
  <2>1. Issuing(u) \subseteq Tabs
    BY DEF Issuing
  <2> QED
    BY <1>1, <2>1, FS_Subset, FS_CardinalityType
<1>3. /\ IsFiniteSet(Issuing(u)') /\ Cardinality(Issuing(u)') \in Nat
      /\ Cardinality(Issuing(u)') <= Cardinality(Tabs)
  <2>1. Issuing(u)' \subseteq Tabs
    BY DEF Issuing
  <2> QED
    BY <1>1, <2>1, FS_Subset, FS_CardinalityType
<1>4. Issuing(u)' \subseteq Issuing(u) => Cardinality(Issuing(u)') <= Cardinality(Issuing(u))
  BY <1>2, FS_Subset
<1>5. ASSUME NEW t \in Issuing(u), Issuing(u)' \subseteq Issuing(u) \ {t}
      PROVE  Cardinality(Issuing(u)') + 1 <= Cardinality(Issuing(u))
  <2>1. IsFiniteSet(Issuing(u) \ {t}) /\ Cardinality(Issuing(u) \ {t}) = Cardinality(Issuing(u)) - 1
    BY <1>2, FS_RemoveElement
  <2>2. Cardinality(Issuing(u)') <= Cardinality(Issuing(u) \ {t})
    BY <1>5, <2>1, FS_Subset
  <2> QED
    BY <1>2, <1>3, <2>1, <2>2
<1> QED
  BY <1>1, <1>2, <1>3, <1>4, <1>5

LEMMA FewerIssue ==
  ASSUME TInv, IssuesBounded, NEW u \in Users, certs'[u] = certs[u], Issuing(u)' \subseteq Issuing(u)
  PROVE  certs'[u] + Cardinality(Issuing(u)') <= Cardinality(Tabs)
<1>1. certs[u] \in Nat /\ certs[u] + Cardinality(Issuing(u)) <= Cardinality(Tabs)
  BY DEF TInv, LearnerTypes, IssuesBounded
<1> QED
  BY <1>1, IssuingCounted

\* Certificates and the requests about to issue one stay within the requests a user can have under way.
LEMMA BoundStep ==
  ASSUME TInv, IssuesBounded, [Next]_vars
  PROVE  IssuesBounded'
<1>1. ASSUME NEW t \in Tabs, ReadProgress(t), UNCHANGED <<contentVars, lost>>
       PROVE IssuesBounded'
  <2>1. UNCHANGED certs
    BY <1>1 DEF ReadProgress, records
  <2>2. \A v \in Users : Issuing(v)' \subseteq Issuing(v)
    BY <1>1, HandlerMoves DEF Goes, Issuing, records
  <2> QED
    BY <2>1, <2>2, FewerIssue DEF IssuesBounded
<1>2. ASSUME NEW t \in Tabs, SaveProgress(t), UNCHANGED <<contentVars, lost>>
       PROVE IssuesBounded'
  <2>1. UNCHANGED certs
    BY <1>2 DEF SaveProgress, records
  <2>2. \A v \in Users : Issuing(v)' \subseteq Issuing(v)
    BY <1>2, HandlerMoves DEF Goes, Issuing, records
  <2> QED
    BY <2>1, <2>2, FewerIssue DEF IssuesBounded
<1>3. ASSUME NEW t \in Tabs, RewardLesson(t), UNCHANGED <<contentVars, lost>>
       PROVE IssuesBounded'
  <2>1. UNCHANGED certs
    BY <1>3 DEF RewardLesson, records
  <2>2. \A v \in Users : Issuing(v)' \subseteq Issuing(v)
    BY <1>3, HandlerMoves DEF Goes, Issuing, records
  <2> QED
    BY <2>1, <2>2, FewerIssue DEF IssuesBounded
<1>4. ASSUME NEW t \in Tabs, CountAttempts(t), UNCHANGED <<contentVars, lost>>
       PROVE IssuesBounded'
  <2>1. UNCHANGED certs
    BY <1>4 DEF CountAttempts, records
  <2>2. \A v \in Users : Issuing(v)' \subseteq Issuing(v)
    BY <1>4, HandlerMoves DEF Goes, Closes, Issuing, records
  <2> QED
    BY <2>1, <2>2, FewerIssue DEF IssuesBounded
<1>5. ASSUME NEW t \in Tabs, SubmitQuiz(t), UNCHANGED <<contentVars, lost>>
       PROVE IssuesBounded'
  <2>1. UNCHANGED certs
    BY <1>5 DEF SubmitQuiz, records
  <2>2. \A v \in Users : Issuing(v)' \subseteq Issuing(v)
    BY <1>5, HandlerMoves DEF Goes, Issuing, records
  <2> QED
    BY <2>1, <2>2, FewerIssue DEF IssuesBounded
<1>6. ASSUME NEW t \in Tabs, SubmitAssignment(t), UNCHANGED <<contentVars, lost>>
       PROVE IssuesBounded'
  <2>1. UNCHANGED certs
    BY <1>6 DEF SubmitAssignment, records
  <2>2. \A v \in Users : Issuing(v)' \subseteq Issuing(v)
    BY <1>6, HandlerMoves DEF Closes, Issuing, records
  <2> QED
    BY <2>1, <2>2, FewerIssue DEF IssuesBounded
<1>7. ASSUME NEW t \in Tabs, SyncCheck(t), UNCHANGED <<contentVars, lost>>
       PROVE IssuesBounded'
  <2>1. UNCHANGED certs
    BY <1>7 DEF SyncCheck, records
  <2>2. \A v \in Users : Issuing(v)' \subseteq Issuing(v)
    BY <1>7, HandlerMoves DEF Goes, Closes, Issuing, records
  <2> QED
    BY <2>1, <2>2, FewerIssue DEF IssuesBounded
<1>8. ASSUME NEW t \in Tabs, SetCompleted(t), UNCHANGED <<contentVars, lost>>
       PROVE IssuesBounded'
  <2>1. UNCHANGED certs
    BY <1>8 DEF SetCompleted, records
  <2>2. \A v \in Users : Issuing(v)' \subseteq Issuing(v)
    BY <1>8, HandlerMoves DEF Goes, Issuing, records
  <2> QED
    BY <2>1, <2>2, FewerIssue DEF IssuesBounded
<1>9. ASSUME NEW t \in Tabs, FindCertificate(t), UNCHANGED <<contentVars, lost>>
       PROVE IssuesBounded'
  <2> SUFFICES ASSUME NEW v \in Users
               PROVE  certs'[v] + Cardinality(Issuing(v)') <= Cardinality(Tabs)
    BY DEF IssuesBounded
  <2>1. certs' = certs /\ certs[v] \in Nat
    BY <1>9 DEF FindCertificate, records, TInv, LearnerTypes
  <2>2. CASE certs[v] = 0
    BY <2>1, <2>2, IssuingCounted
  <2>3. CASE certs[v] # 0
    <3>1. Goes(t, "find", IF certs[tab[t].user] = 0 THEN "issue" ELSE "sign")
      BY <1>9, HandlerMoves
    <3>2. Issuing(v)' \subseteq Issuing(v)
      BY <2>3, <3>1 DEF Goes, Issuing
    <3> QED
      BY <2>1, <3>2, FewerIssue
  <2> QED
    BY <2>2, <2>3
<1>10. ASSUME NEW t \in Tabs, IssueCertificate(t), UNCHANGED <<contentVars, lost>>
       PROVE IssuesBounded'
  <2> SUFFICES ASSUME NEW v \in Users
               PROVE  certs'[v] + Cardinality(Issuing(v)') <= Cardinality(Tabs)
    BY DEF IssuesBounded
  <2>1. Goes(t, "issue", "sign")
    BY <1>10, HandlerMoves
  <2>2. CASE v # tab[t].user
    <3>1. certs'[v] = certs[v]
      BY <1>10, <2>2 DEF IssueCertificate, TInv, LearnerTypes
    <3>2. Issuing(v)' \subseteq Issuing(v)
      BY <2>1 DEF Goes, Issuing
    <3> QED
      BY <3>1, <3>2, FewerIssue
  <2>3. CASE v = tab[t].user
    <3>1. certs[v] \in Nat /\ certs'[v] = certs[v] + 1 /\ certs[v] + Cardinality(Issuing(v)) <= Cardinality(Tabs)
      BY <1>10, <2>3 DEF IssueCertificate, TInv, LearnerTypes, IssuesBounded
    <3>2. t \in Issuing(v) /\ Issuing(v)' \subseteq Issuing(v) \ {t}
      BY <2>1, <2>3 DEF Goes, Issuing
    <3>3. Cardinality(Issuing(v)') + 1 <= Cardinality(Issuing(v))
      BY <3>2, IssuingCounted
    <3> QED
      BY <3>1, <3>3, IssuingCounted
  <2> QED
    BY <2>2, <2>3
<1>11. ASSUME NEW t \in Tabs, SignCertificate(t), UNCHANGED <<contentVars, lost>>
       PROVE IssuesBounded'
  <2>1. UNCHANGED certs
    BY <1>11 DEF SignCertificate, records
  <2>2. \A v \in Users : Issuing(v)' \subseteq Issuing(v)
    BY <1>11, HandlerMoves DEF Goes, Issuing, records
  <2> QED
    BY <2>1, <2>2, FewerIssue DEF IssuesBounded
<1>12. ASSUME NEW t \in Tabs, RewardCourse(t), UNCHANGED <<contentVars, lost>>
       PROVE IssuesBounded'
  <2>1. UNCHANGED certs
    BY <1>12 DEF RewardCourse, records
  <2>2. \A v \in Users : Issuing(v)' \subseteq Issuing(v)
    BY <1>12, HandlerMoves DEF Closes, Issuing, records
  <2> QED
    BY <2>1, <2>2, FewerIssue DEF IssuesBounded
<1>13. ASSUME NEW t \in Tabs, FindReview(t), UNCHANGED <<contentVars, lost>>
       PROVE IssuesBounded'
  <2>1. UNCHANGED certs
    BY <1>13 DEF FindReview, records
  <2>2. \A v \in Users : Issuing(v)' \subseteq Issuing(v)
    BY <1>13, HandlerMoves DEF Goes, Closes, Issuing, records
  <2> QED
    BY <2>1, <2>2, FewerIssue DEF IssuesBounded
<1>14. ASSUME NEW t \in Tabs, SaveReview(t), UNCHANGED <<contentVars, lost>>
       PROVE IssuesBounded'
  <2>1. UNCHANGED certs
    BY <1>14 DEF SaveReview, records
  <2>2. \A v \in Users : Issuing(v)' \subseteq Issuing(v)
    BY <1>14, HandlerMoves DEF Closes, Issuing, records
  <2> QED
    BY <2>1, <2>2, FewerIssue DEF IssuesBounded
<1>15. ASSUME NEW t \in Tabs, NEW u \in Users, NEW x \in Ids, CompleteTopic(t, u, x), UNCHANGED <<contentVars, lost>>
       PROVE IssuesBounded'
  <2>1. UNCHANGED certs
    BY <1>15 DEF CompleteTopic, records
  <2>2. \A v \in Users : Issuing(v)' \subseteq Issuing(v)
    BY <1>15, AskingMoves DEF Opens, Issuing, records
  <2> QED
    BY <2>1, <2>2, FewerIssue DEF IssuesBounded
<1>16. ASSUME NEW t \in Tabs, NEW u \in Users, NEW x \in Ids, StartQuiz(t, u, x), UNCHANGED <<contentVars, lost>>
       PROVE IssuesBounded'
  <2>1. UNCHANGED certs
    BY <1>16 DEF StartQuiz, records
  <2>2. \A v \in Users : Issuing(v)' \subseteq Issuing(v)
    BY <1>16, AskingMoves DEF Opens, Issuing, records
  <2> QED
    BY <2>1, <2>2, FewerIssue DEF IssuesBounded
<1>17. ASSUME NEW t \in Tabs, NEW u \in Users, NEW x \in Ids, StartAssignment(t, u, x), UNCHANGED <<contentVars, lost>>
       PROVE IssuesBounded'
  <2>1. UNCHANGED certs
    BY <1>17 DEF StartAssignment, records
  <2>2. \A v \in Users : Issuing(v)' \subseteq Issuing(v)
    BY <1>17, AskingMoves DEF Opens, Issuing, records
  <2> QED
    BY <2>1, <2>2, FewerIssue DEF IssuesBounded
<1>18. ASSUME NEW t \in Tabs, NEW u \in Users, CreateCourseReview(t, u), UNCHANGED <<contentVars, lost>>
       PROVE IssuesBounded'
  <2>1. UNCHANGED certs
    BY <1>18 DEF CreateCourseReview, records
  <2>2. \A v \in Users : Issuing(v)' \subseteq Issuing(v)
    BY <1>18, AskingMoves DEF Opens, Issuing, records
  <2> QED
    BY <2>1, <2>2, FewerIssue DEF IssuesBounded
<1>19. ASSUME NEW u \in Users, CreateCourseEnrollment(u), UNCHANGED <<contentVars, lost>>
       PROVE IssuesBounded'
  <2>1. UNCHANGED certs
    BY <1>19 DEF CreateCourseEnrollment, records
  <2>2. \A v \in Users : Issuing(v)' \subseteq Issuing(v)
    BY <1>19 DEF CreateCourseEnrollment, Issuing, records
  <2> QED
    BY <2>1, <2>2, FewerIssue DEF IssuesBounded
<1>20. ASSUME NEW t \in Tabs, NEW u \in Users, NEW q \in Quizzes, NEW pass \in BOOLEAN, AdminReviewQuizSubmission(t, u, q, pass), UNCHANGED <<contentVars, lost>>
       PROVE IssuesBounded'
  <2>1. UNCHANGED certs
    BY <1>20 DEF AdminReviewQuizSubmission, records
  <2>2. \A v \in Users : Issuing(v)' \subseteq Issuing(v)
    BY <1>20, AskingMoves DEF Opens, Issuing, records
  <2> QED
    BY <2>1, <2>2, FewerIssue DEF IssuesBounded
<1>21. ASSUME NEW e \in Editors, NEW u \in Users, NEW x \in Of("assignment"), ReviewAssignmentSubmission(e, u, x), UNCHANGED <<contentVars, lost>>
       PROVE IssuesBounded'
  <2>1. UNCHANGED certs
    BY <1>21 DEF ReviewAssignmentSubmission, records
  <2>2. \A v \in Users : Issuing(v)' \subseteq Issuing(v)
    BY <1>21 DEF ReviewAssignmentSubmission, Issuing, records
  <2> QED
    BY <2>1, <2>2, FewerIssue DEF IssuesBounded
<1>22. ASSUME Tick, UNCHANGED <<contentVars, lost>>
       PROVE IssuesBounded'
  <2>1. UNCHANGED certs
    BY <1>22 DEF Tick, records
  <2>2. \A v \in Users : Issuing(v)' \subseteq Issuing(v)
    BY <1>22 DEF Tick, Issuing, records
  <2> QED
    BY <2>1, <2>2, FewerIssue DEF IssuesBounded
<1>23. ASSUME NEW t \in Tabs, GiveUp(t), UNCHANGED contentVars
       PROVE IssuesBounded'
  <2>1. UNCHANGED certs
    BY <1>23 DEF GiveUp, records
  <2>2. \A v \in Users : Issuing(v)' \subseteq Issuing(v)
    BY <1>23, HandlerMoves DEF Closes, Issuing, records
  <2> QED
    BY <2>1, <2>2, FewerIssue DEF IssuesBounded
<1>24. ASSUME NEW e \in Instructors, NEW u \in Users, NEW q \in Quizzes, NEW pass \in BOOLEAN, ReviewQuizSubmission(e, u, q, pass), UNCHANGED contentVars
       PROVE IssuesBounded'
  <2>1. UNCHANGED certs
    BY <1>24 DEF ReviewQuizSubmission, records
  <2>2. \A v \in Users : Issuing(v)' \subseteq Issuing(v)
    BY <1>24 DEF ReviewQuizSubmission, Issuing, records
  <2> QED
    BY <2>1, <2>2, FewerIssue DEF IssuesBounded
<1>25. CASE UNCHANGED learnerVars \/ (ContentNext /\ UNCHANGED <<day, records, tab, requests, lost>>)
  <2>1. UNCHANGED <<certs, tab>>
    BY <1>25 DEF learnerVars, records
  <2>2. \A v \in Users : Issuing(v)' = Issuing(v)
    BY <2>1 DEF Issuing
  <2> QED
    BY <2>1, <2>2 DEF IssuesBounded
<1> QED
  BY <1>1, <1>2, <1>3, <1>4, <1>5, <1>6, <1>7, <1>8, <1>9, <1>10, <1>11, <1>12, <1>13, <1>14, <1>15, <1>16, <1>17, <1>18, <1>19, <1>20, <1>21, <1>22, <1>23, <1>24, <1>25
  DEF Next, LearnerStep, Handler, Asking, Reviewing, vars

LEMMA EarnedKept ==
  ASSUME TInv, LearnerTypes', IssuesBounded', CertificateEarned, Growing, UNCHANGED <<completed, certs, reviews>>
  PROVE  CertificateEarned'
<1>1. ASSUME NEW u \in Users PROVE certs'[u] <= Cardinality(Tabs)
  BY IssuingCounted DEF LearnerTypes, IssuesBounded
<1> QED
  BY <1>1 DEF CertificateEarned, Growing

\* Certificates, reviews and completions keep standing on one another.
LEMMA EarnedStep ==
  ASSUME TInv, TabsKnow, CertificateEarned, LearnerTypes', IssuesBounded', Growing, [Next]_vars
  PROVE  CertificateEarned'
<1>g. LearnerTypes' /\ IssuesBounded' /\ Growing
  OBVIOUS
<1>1. ASSUME NEW t \in Tabs, ReadProgress(t), UNCHANGED <<contentVars, lost>>
       PROVE CertificateEarned'
  <2>1. UNCHANGED <<completed, certs, reviews>>
    BY <1>1 DEF ReadProgress, records
  <2> QED
    BY <2>1, <1>g, EarnedKept
<1>2. ASSUME NEW t \in Tabs, SaveProgress(t), UNCHANGED <<contentVars, lost>>
       PROVE CertificateEarned'
  <2>1. UNCHANGED <<completed, certs, reviews>>
    BY <1>2 DEF SaveProgress, records
  <2> QED
    BY <2>1, <1>g, EarnedKept
<1>3. ASSUME NEW t \in Tabs, RewardLesson(t), UNCHANGED <<contentVars, lost>>
       PROVE CertificateEarned'
  <2>1. UNCHANGED <<completed, certs, reviews>>
    BY <1>3 DEF RewardLesson, records
  <2> QED
    BY <2>1, <1>g, EarnedKept
<1>4. ASSUME NEW t \in Tabs, CountAttempts(t), UNCHANGED <<contentVars, lost>>
       PROVE CertificateEarned'
  <2>1. UNCHANGED <<completed, certs, reviews>>
    BY <1>4 DEF CountAttempts, records
  <2> QED
    BY <2>1, <1>g, EarnedKept
<1>5. ASSUME NEW t \in Tabs, SubmitQuiz(t), UNCHANGED <<contentVars, lost>>
       PROVE CertificateEarned'
  <2>1. UNCHANGED <<completed, certs, reviews>>
    BY <1>5 DEF SubmitQuiz, records
  <2> QED
    BY <2>1, <1>g, EarnedKept
<1>6. ASSUME NEW t \in Tabs, SubmitAssignment(t), UNCHANGED <<contentVars, lost>>
       PROVE CertificateEarned'
  <2>1. UNCHANGED <<completed, certs, reviews>>
    BY <1>6 DEF SubmitAssignment, records
  <2> QED
    BY <2>1, <1>g, EarnedKept
<1>7. ASSUME NEW t \in Tabs, SyncCheck(t), UNCHANGED <<contentVars, lost>>
       PROVE CertificateEarned'
  <2>1. UNCHANGED <<completed, certs, reviews>>
    BY <1>7 DEF SyncCheck, records
  <2> QED
    BY <2>1, <1>g, EarnedKept
<1>8. ASSUME NEW t \in Tabs, SetCompleted(t), UNCHANGED <<contentVars, lost>>
       PROVE CertificateEarned'
  <2>1. tab[t].pc = "complete" /\ tab[t].user \in Users
    BY <1>8, Aimed DEF SetCompleted, Step
  <2>2. tab[t].user \in finished
    BY <2>1, TabsKnown DEF Knows
  <2>3. \A v \in Users : certs'[v] <= Cardinality(Tabs)
    BY <1>g, IssuingCounted DEF LearnerTypes, IssuesBounded
  <2>4. \A v \in Users : v # tab[t].user => completed'[v] = completed[v] /\ certs'[v] = certs[v] /\ reviews'[v] = reviews[v]
    BY <1>8, <2>1 DEF SetCompleted, TInv, LearnerTypes
  <2>5. completed'[tab[t].user]
    BY <1>8, <2>1 DEF SetCompleted, TInv, LearnerTypes
  <2> QED
    BY <1>g, <2>2, <2>3, <2>4, <2>5 DEF CertificateEarned, Growing
<1>9. ASSUME NEW t \in Tabs, FindCertificate(t), UNCHANGED <<contentVars, lost>>
       PROVE CertificateEarned'
  <2>1. UNCHANGED <<completed, certs, reviews>>
    BY <1>9 DEF FindCertificate, records
  <2> QED
    BY <2>1, <1>g, EarnedKept
<1>10. ASSUME NEW t \in Tabs, IssueCertificate(t), UNCHANGED <<contentVars, lost>>
       PROVE CertificateEarned'
  <2>1. tab[t].pc = "issue" /\ tab[t].user \in Users
    BY <1>10, Aimed DEF IssueCertificate, Step
  <2>2. completed[tab[t].user]
    BY <2>1, TabsKnown DEF Knows
  <2>3. \A v \in Users : certs'[v] <= Cardinality(Tabs)
    BY <1>g, IssuingCounted DEF LearnerTypes, IssuesBounded
  <2>4. \A v \in Users : v # tab[t].user => completed'[v] = completed[v] /\ certs'[v] = certs[v] /\ reviews'[v] = reviews[v]
    BY <1>10, <2>1 DEF IssueCertificate, TInv, LearnerTypes
  <2>5. completed' = completed
    BY <1>10, <2>1 DEF IssueCertificate, TInv, LearnerTypes
  <2> QED
    BY <1>g, <2>2, <2>3, <2>4, <2>5 DEF CertificateEarned, Growing
<1>11. ASSUME NEW t \in Tabs, SignCertificate(t), UNCHANGED <<contentVars, lost>>
       PROVE CertificateEarned'
  <2>1. UNCHANGED <<completed, certs, reviews>>
    BY <1>11 DEF SignCertificate, records
  <2> QED
    BY <2>1, <1>g, EarnedKept
<1>12. ASSUME NEW t \in Tabs, RewardCourse(t), UNCHANGED <<contentVars, lost>>
       PROVE CertificateEarned'
  <2>1. UNCHANGED <<completed, certs, reviews>>
    BY <1>12 DEF RewardCourse, records
  <2> QED
    BY <2>1, <1>g, EarnedKept
<1>13. ASSUME NEW t \in Tabs, FindReview(t), UNCHANGED <<contentVars, lost>>
       PROVE CertificateEarned'
  <2>1. UNCHANGED <<completed, certs, reviews>>
    BY <1>13 DEF FindReview, records
  <2> QED
    BY <2>1, <1>g, EarnedKept
<1>14. ASSUME NEW t \in Tabs, SaveReview(t), UNCHANGED <<contentVars, lost>>
       PROVE CertificateEarned'
  <2>1. tab[t].pc = "comment" /\ tab[t].user \in Users
    BY <1>14, Aimed DEF SaveReview, Finish
  <2>2. completed[tab[t].user]
    BY <2>1, TabsKnown DEF Knows
  <2>3. \A v \in Users : certs'[v] <= Cardinality(Tabs)
    BY <1>g, IssuingCounted DEF LearnerTypes, IssuesBounded
  <2>4. \A v \in Users : v # tab[t].user => completed'[v] = completed[v] /\ certs'[v] = certs[v] /\ reviews'[v] = reviews[v]
    BY <1>14, <2>1 DEF SaveReview, TInv, LearnerTypes
  <2>5. completed' = completed
    BY <1>14, <2>1 DEF SaveReview, TInv, LearnerTypes
  <2> QED
    BY <1>g, <2>2, <2>3, <2>4, <2>5 DEF CertificateEarned, Growing
<1>15. ASSUME NEW t \in Tabs, NEW u \in Users, NEW x \in Ids, CompleteTopic(t, u, x), UNCHANGED <<contentVars, lost>>
       PROVE CertificateEarned'
  <2>1. UNCHANGED <<completed, certs, reviews>>
    BY <1>15 DEF CompleteTopic, records
  <2> QED
    BY <2>1, <1>g, EarnedKept
<1>16. ASSUME NEW t \in Tabs, NEW u \in Users, NEW x \in Ids, StartQuiz(t, u, x), UNCHANGED <<contentVars, lost>>
       PROVE CertificateEarned'
  <2>1. UNCHANGED <<completed, certs, reviews>>
    BY <1>16 DEF StartQuiz, records
  <2> QED
    BY <2>1, <1>g, EarnedKept
<1>17. ASSUME NEW t \in Tabs, NEW u \in Users, NEW x \in Ids, StartAssignment(t, u, x), UNCHANGED <<contentVars, lost>>
       PROVE CertificateEarned'
  <2>1. UNCHANGED <<completed, certs, reviews>>
    BY <1>17 DEF StartAssignment, records
  <2> QED
    BY <2>1, <1>g, EarnedKept
<1>18. ASSUME NEW t \in Tabs, NEW u \in Users, CreateCourseReview(t, u), UNCHANGED <<contentVars, lost>>
       PROVE CertificateEarned'
  <2>1. UNCHANGED <<completed, certs, reviews>>
    BY <1>18 DEF CreateCourseReview, records
  <2> QED
    BY <2>1, <1>g, EarnedKept
<1>19. ASSUME NEW u \in Users, CreateCourseEnrollment(u), UNCHANGED <<contentVars, lost>>
       PROVE CertificateEarned'
  <2>1. UNCHANGED <<completed, certs, reviews>>
    BY <1>19 DEF CreateCourseEnrollment, records
  <2> QED
    BY <2>1, <1>g, EarnedKept
<1>20. ASSUME NEW t \in Tabs, NEW u \in Users, NEW q \in Quizzes, NEW pass \in BOOLEAN, AdminReviewQuizSubmission(t, u, q, pass), UNCHANGED <<contentVars, lost>>
       PROVE CertificateEarned'
  <2>1. UNCHANGED <<completed, certs, reviews>>
    BY <1>20 DEF AdminReviewQuizSubmission, records
  <2> QED
    BY <2>1, <1>g, EarnedKept
<1>21. ASSUME NEW e \in Editors, NEW u \in Users, NEW x \in Of("assignment"), ReviewAssignmentSubmission(e, u, x), UNCHANGED <<contentVars, lost>>
       PROVE CertificateEarned'
  <2>1. UNCHANGED <<completed, certs, reviews>>
    BY <1>21 DEF ReviewAssignmentSubmission, records
  <2> QED
    BY <2>1, <1>g, EarnedKept
<1>22. ASSUME Tick, UNCHANGED <<contentVars, lost>>
       PROVE CertificateEarned'
  <2>1. UNCHANGED <<completed, certs, reviews>>
    BY <1>22 DEF Tick, records
  <2> QED
    BY <2>1, <1>g, EarnedKept
<1>23. ASSUME NEW t \in Tabs, GiveUp(t), UNCHANGED contentVars
       PROVE CertificateEarned'
  <2>1. UNCHANGED <<completed, certs, reviews>>
    BY <1>23 DEF GiveUp, records
  <2> QED
    BY <2>1, <1>g, EarnedKept
<1>24. ASSUME NEW e \in Instructors, NEW u \in Users, NEW q \in Quizzes, NEW pass \in BOOLEAN, ReviewQuizSubmission(e, u, q, pass), UNCHANGED contentVars
       PROVE CertificateEarned'
  <2>1. UNCHANGED <<completed, certs, reviews>>
    BY <1>24 DEF ReviewQuizSubmission, records
  <2> QED
    BY <2>1, <1>g, EarnedKept
<1>25. CASE UNCHANGED learnerVars \/ (ContentNext /\ UNCHANGED <<day, records, tab, requests, lost>>)
  <2>1. UNCHANGED <<completed, certs, reviews>>
    BY <1>25 DEF learnerVars, records
  <2> QED
    BY <2>1, <1>g, EarnedKept
<1> QED
  BY <1>1, <1>2, <1>3, <1>4, <1>5, <1>6, <1>7, <1>8, <1>9, <1>10, <1>11, <1>12, <1>13, <1>14, <1>15, <1>16, <1>17, <1>18, <1>19, <1>20, <1>21, <1>22, <1>23, <1>24, <1>25
  DEF Next, LearnerStep, Handler, Asking, Reviewing, vars

\* XP stays true where nothing is learned, awarded or cut off.
LEMMA RewardsKept ==
  ASSUME TInv, LearnerTypes', XPTruthful, Growing, UNCHANGED <<progress, xp>>, lost \subseteq lost',
         \A s \in Tabs : tab[s].pc = "lesson" => tab'[s] = tab[s]
  PROVE  XPTruthful'
<1>1. \A u \in Users : certs[u] > 0 => certs'[u] > 0
  BY DEF TInv, LearnerTypes, Growing
<1> QED
  BY <1>1 DEF XPTruthful, Growing

LEMMA Events ==
  /\ \A x, y : Lesson(x) = Lesson(y) => x = y
  /\ \A x : Lesson(x) # Completed /\ Lesson(x) # Enrolled
  /\ Completed # Enrolled
BY DEF Lesson, Completed, Enrolled

LEMMA CertsGrow ==
  ASSUME TInv, LearnerTypes', Growing, NEW u \in Users
  PROVE  certs[u] > 0 => certs'[u] > 0
BY DEF TInv, LearnerTypes, Growing

\* XP and what it is for stay in agreement.
LEMMA XPStep ==
  ASSUME TInv, TabsKnow, XPTruthful, LearnerTypes', Growing, [Next]_vars
  PROVE  XPTruthful'
<1>g. LearnerTypes' /\ Growing
  OBVIOUS
<1>1. ASSUME NEW t \in Tabs, ReadProgress(t), UNCHANGED <<contentVars, lost>>
       PROVE XPTruthful'
  <2>1. UNCHANGED <<progress, xp>> /\ lost \subseteq lost'
    BY <1>1 DEF ReadProgress, records
  <2>2. \A s \in Tabs : tab[s].pc = "lesson" => tab'[s] = tab[s]
    BY <1>1, HandlerMoves DEF Goes, records
  <2> QED
    BY <2>1, <2>2, <1>g, RewardsKept
<1>2. ASSUME NEW t \in Tabs, SaveProgress(t), UNCHANGED <<contentVars, lost>>
       PROVE XPTruthful'
  <2>1. Goes(t, "save", IF tab[t].was THEN "sync" ELSE "lesson")
    BY <1>2, HandlerMoves
  <2>2. tab[t].user \in Users /\ (tab[t].was => tab[t].item \in progress[tab[t].user])
    BY <2>1, Aimed, TabsKnown DEF Knows, Goes
  <2>3. UNCHANGED <<xp, completed, certs, lost>>
    BY <1>2 DEF SaveProgress
  <2>4. \A v \in Users : progress'[v] = IF v = tab[t].user THEN progress[v] \cup {tab[t].item} ELSE progress[v]
    BY <1>2, <2>2 DEF SaveProgress, TInv, LearnerTypes
  <2>5. \A s \in Tabs : tab[s].pc = "lesson" => tab'[s] = tab[s]
    BY <2>1 DEF Goes
  <2>6. ASSUME NEW v \in Users
        PROVE  /\ \A x \in Topics : Lesson(x) \in xp'[v] => x \in progress'[v]
               /\ Completed \in xp'[v] => completed'[v] /\ certs'[v] > 0
    <3>1. \A x \in Topics : Lesson(x) \in xp[v] => x \in progress[v]
      BY DEF XPTruthful
    <3>2. Completed \in xp[v] => completed[v] /\ certs[v] > 0
      BY DEF XPTruthful
    <3> QED
      BY <2>3, <2>4, <3>1, <3>2
  <2>7. ASSUME NEW v \in Users, v \notin lost', NEW x \in progress'[v], Lesson(x) \notin xp'[v]
        PROVE  \E s \in Tabs : tab'[s].user = v /\ tab'[s].item = x /\ tab'[s].pc = "lesson"
    <3>1. CASE x \in progress[v]
      <4>1. PICK s \in Tabs : tab[s].user = v /\ tab[s].item = x /\ tab[s].pc = "lesson"
        BY <2>3, <2>7, <3>1 DEF XPTruthful
      <4> QED
        BY <2>5, <4>1
    <3>2. CASE x \notin progress[v]
      <4>1. v = tab[t].user /\ x = tab[t].item /\ ~tab[t].was
        BY <2>2, <2>4, <2>7, <3>2
      <4> QED
        BY <2>1, <4>1 DEF Goes
    <3> QED
      BY <3>1, <3>2
  <2> QED
    BY <2>6, <2>7 DEF XPTruthful
<1>3. ASSUME NEW t \in Tabs, RewardLesson(t), UNCHANGED <<contentVars, lost>>
       PROVE XPTruthful'
  <2>1. Goes(t, "lesson", "sync")
    BY <1>3, HandlerMoves
  <2>2. tab[t].user \in Users /\ tab[t].item \in progress[tab[t].user]
    BY <2>1, Aimed, TabsKnown DEF Knows, Goes
  <2>3. UNCHANGED <<progress, completed, certs, lost>>
    BY <1>3 DEF RewardLesson
  <2>4. \A v \in Users : xp'[v] = IF v = tab[t].user THEN xp[v] \cup {Lesson(tab[t].item)} ELSE xp[v]
    BY <1>3, <2>2 DEF RewardLesson, AwardXP, TInv, LearnerTypes
  <2>5. \A s \in Tabs : tab[s].pc = "lesson" /\ s # t => tab'[s] = tab[s]
    BY <2>1 DEF Goes
  <2>6. ASSUME NEW v \in Users
        PROVE  /\ \A x \in Topics : Lesson(x) \in xp'[v] => x \in progress'[v]
               /\ Completed \in xp'[v] => completed'[v] /\ certs'[v] > 0
    <3>1. \A x \in Topics : Lesson(x) \in xp[v] => x \in progress[v]
      BY DEF XPTruthful
    <3>2. Completed \in xp[v] => completed[v] /\ certs[v] > 0
      BY DEF XPTruthful
    <3>3. xp'[v] \subseteq xp[v] \cup {Lesson(tab[t].item)} /\ progress' = progress /\ completed' = completed /\ certs' = certs
      BY <2>3, <2>4
    <3>4. \A x \in Topics : Lesson(x) \in xp'[v] => x \in progress'[v]
      BY <2>2, <2>4, <3>1, <3>3, Events
    <3>5. Completed \in xp'[v] => completed'[v] /\ certs'[v] > 0
      BY <2>2, <2>4, <3>2, <3>3, Events
    <3> QED
      BY <3>4, <3>5
  <2>7. ASSUME NEW v \in Users, v \notin lost', NEW x \in progress'[v], Lesson(x) \notin xp'[v]
        PROVE  \E s \in Tabs : tab'[s].user = v /\ tab'[s].item = x /\ tab'[s].pc = "lesson"
    <3>1. v \notin lost /\ x \in progress[v] /\ Lesson(x) \notin xp[v]
      BY <2>3, <2>4, <2>7
    <3>2. PICK s \in Tabs : tab[s].user = v /\ tab[s].item = x /\ tab[s].pc = "lesson"
      BY <3>1 DEF XPTruthful
    <3>3. s # t
      BY <2>4, <2>7, <3>2
    <3> QED
      BY <2>5, <3>2, <3>3
  <2> QED
    BY <2>6, <2>7 DEF XPTruthful
<1>4. ASSUME NEW t \in Tabs, CountAttempts(t), UNCHANGED <<contentVars, lost>>
       PROVE XPTruthful'
  <2>1. UNCHANGED <<progress, xp>> /\ lost \subseteq lost'
    BY <1>4 DEF CountAttempts, records
  <2>2. \A s \in Tabs : tab[s].pc = "lesson" => tab'[s] = tab[s]
    BY <1>4, HandlerMoves DEF Goes, Closes, records
  <2> QED
    BY <2>1, <2>2, <1>g, RewardsKept
<1>5. ASSUME NEW t \in Tabs, SubmitQuiz(t), UNCHANGED <<contentVars, lost>>
       PROVE XPTruthful'
  <2>1. UNCHANGED <<progress, xp>> /\ lost \subseteq lost'
    BY <1>5 DEF SubmitQuiz, records
  <2>2. \A s \in Tabs : tab[s].pc = "lesson" => tab'[s] = tab[s]
    BY <1>5, HandlerMoves DEF Goes, records
  <2> QED
    BY <2>1, <2>2, <1>g, RewardsKept
<1>6. ASSUME NEW t \in Tabs, SubmitAssignment(t), UNCHANGED <<contentVars, lost>>
       PROVE XPTruthful'
  <2>1. UNCHANGED <<progress, xp>> /\ lost \subseteq lost'
    BY <1>6 DEF SubmitAssignment, records
  <2>2. \A s \in Tabs : tab[s].pc = "lesson" => tab'[s] = tab[s]
    BY <1>6, HandlerMoves DEF Closes, records
  <2> QED
    BY <2>1, <2>2, <1>g, RewardsKept
<1>7. ASSUME NEW t \in Tabs, SyncCheck(t), UNCHANGED <<contentVars, lost>>
       PROVE XPTruthful'
  <2>1. UNCHANGED <<progress, xp>> /\ lost \subseteq lost'
    BY <1>7 DEF SyncCheck, records
  <2>2. \A s \in Tabs : tab[s].pc = "lesson" => tab'[s] = tab[s]
    BY <1>7, HandlerMoves DEF Goes, Closes, records
  <2> QED
    BY <2>1, <2>2, <1>g, RewardsKept
<1>8. ASSUME NEW t \in Tabs, SetCompleted(t), UNCHANGED <<contentVars, lost>>
       PROVE XPTruthful'
  <2>1. UNCHANGED <<progress, xp>> /\ lost \subseteq lost'
    BY <1>8 DEF SetCompleted, records
  <2>2. \A s \in Tabs : tab[s].pc = "lesson" => tab'[s] = tab[s]
    BY <1>8, HandlerMoves DEF Goes, records
  <2> QED
    BY <2>1, <2>2, <1>g, RewardsKept
<1>9. ASSUME NEW t \in Tabs, FindCertificate(t), UNCHANGED <<contentVars, lost>>
       PROVE XPTruthful'
  <2>1. UNCHANGED <<progress, xp>> /\ lost \subseteq lost'
    BY <1>9 DEF FindCertificate, records
  <2>2. \A s \in Tabs : tab[s].pc = "lesson" => tab'[s] = tab[s]
    BY <1>9, HandlerMoves DEF Goes, records
  <2> QED
    BY <2>1, <2>2, <1>g, RewardsKept
<1>10. ASSUME NEW t \in Tabs, IssueCertificate(t), UNCHANGED <<contentVars, lost>>
       PROVE XPTruthful'
  <2>1. UNCHANGED <<progress, xp>> /\ lost \subseteq lost'
    BY <1>10 DEF IssueCertificate, records
  <2>2. \A s \in Tabs : tab[s].pc = "lesson" => tab'[s] = tab[s]
    BY <1>10, HandlerMoves DEF Goes, records
  <2> QED
    BY <2>1, <2>2, <1>g, RewardsKept
<1>11. ASSUME NEW t \in Tabs, SignCertificate(t), UNCHANGED <<contentVars, lost>>
       PROVE XPTruthful'
  <2>1. UNCHANGED <<progress, xp>> /\ lost \subseteq lost'
    BY <1>11 DEF SignCertificate, records
  <2>2. \A s \in Tabs : tab[s].pc = "lesson" => tab'[s] = tab[s]
    BY <1>11, HandlerMoves DEF Goes, records
  <2> QED
    BY <2>1, <2>2, <1>g, RewardsKept
<1>12. ASSUME NEW t \in Tabs, RewardCourse(t), UNCHANGED <<contentVars, lost>>
       PROVE XPTruthful'
  <2>1. tab[t].pc = "reward" /\ tab[t].user \in Users
    BY <1>12, Aimed DEF RewardCourse, Finish
  <2>2. completed[tab[t].user] /\ certs[tab[t].user] > 0
    BY <2>1, TabsKnown DEF Knows
  <2>3. UNCHANGED <<progress, completed, certs, lost>>
    BY <1>12 DEF RewardCourse
  <2>4. \A v \in Users : xp'[v] = IF v = tab[t].user THEN xp[v] \cup {Completed} ELSE xp[v]
    BY <1>12, <2>1 DEF RewardCourse, AwardXP, TInv, LearnerTypes
  <2>5. \A s \in Tabs : tab[s].pc = "lesson" => tab'[s] = tab[s]
    BY <1>12, <2>1, HandlerMoves DEF Closes
  <2>6. ASSUME NEW v \in Users
        PROVE  /\ \A x \in Topics : Lesson(x) \in xp'[v] => x \in progress'[v]
               /\ Completed \in xp'[v] => completed'[v] /\ certs'[v] > 0
    <3>1. \A x \in Topics : Lesson(x) \in xp[v] => x \in progress[v]
      BY DEF XPTruthful
    <3>2. Completed \in xp[v] => completed[v] /\ certs[v] > 0
      BY DEF XPTruthful
    <3>3. xp'[v] \subseteq xp[v] \cup {Completed} /\ progress' = progress /\ completed' = completed /\ certs' = certs
      BY <2>3, <2>4
    <3>4. \A x \in Topics : Lesson(x) \in xp'[v] => x \in progress'[v]
      BY <2>2, <2>4, <3>1, <3>3, Events
    <3>5. Completed \in xp'[v] => completed'[v] /\ certs'[v] > 0
      BY <2>2, <2>4, <3>2, <3>3, Events
    <3> QED
      BY <3>4, <3>5
  <2>7. ASSUME NEW v \in Users, v \notin lost', NEW x \in progress'[v], Lesson(x) \notin xp'[v]
        PROVE  \E s \in Tabs : tab'[s].user = v /\ tab'[s].item = x /\ tab'[s].pc = "lesson"
    <3>1. v \notin lost /\ x \in progress[v] /\ Lesson(x) \notin xp[v]
      BY <2>3, <2>4, <2>7
    <3>2. PICK s \in Tabs : tab[s].user = v /\ tab[s].item = x /\ tab[s].pc = "lesson"
      BY <3>1 DEF XPTruthful
    <3> QED
      BY <2>5, <3>2
  <2> QED
    BY <2>6, <2>7 DEF XPTruthful
<1>13. ASSUME NEW t \in Tabs, FindReview(t), UNCHANGED <<contentVars, lost>>
       PROVE XPTruthful'
  <2>1. UNCHANGED <<progress, xp>> /\ lost \subseteq lost'
    BY <1>13 DEF FindReview, records
  <2>2. \A s \in Tabs : tab[s].pc = "lesson" => tab'[s] = tab[s]
    BY <1>13, HandlerMoves DEF Goes, Closes, records
  <2> QED
    BY <2>1, <2>2, <1>g, RewardsKept
<1>14. ASSUME NEW t \in Tabs, SaveReview(t), UNCHANGED <<contentVars, lost>>
       PROVE XPTruthful'
  <2>1. UNCHANGED <<progress, xp>> /\ lost \subseteq lost'
    BY <1>14 DEF SaveReview, records
  <2>2. \A s \in Tabs : tab[s].pc = "lesson" => tab'[s] = tab[s]
    BY <1>14, HandlerMoves DEF Closes, records
  <2> QED
    BY <2>1, <2>2, <1>g, RewardsKept
<1>15. ASSUME NEW t \in Tabs, NEW u \in Users, NEW x \in Ids, CompleteTopic(t, u, x), UNCHANGED <<contentVars, lost>>
       PROVE XPTruthful'
  <2>1. UNCHANGED <<progress, xp>> /\ lost \subseteq lost'
    BY <1>15 DEF CompleteTopic, records
  <2>2. \A s \in Tabs : tab[s].pc = "lesson" => tab'[s] = tab[s]
    BY <1>15, AskingMoves DEF Opens, records
  <2> QED
    BY <2>1, <2>2, <1>g, RewardsKept
<1>16. ASSUME NEW t \in Tabs, NEW u \in Users, NEW x \in Ids, StartQuiz(t, u, x), UNCHANGED <<contentVars, lost>>
       PROVE XPTruthful'
  <2>1. UNCHANGED <<progress, xp>> /\ lost \subseteq lost'
    BY <1>16 DEF StartQuiz, records
  <2>2. \A s \in Tabs : tab[s].pc = "lesson" => tab'[s] = tab[s]
    BY <1>16, AskingMoves DEF Opens, records
  <2> QED
    BY <2>1, <2>2, <1>g, RewardsKept
<1>17. ASSUME NEW t \in Tabs, NEW u \in Users, NEW x \in Ids, StartAssignment(t, u, x), UNCHANGED <<contentVars, lost>>
       PROVE XPTruthful'
  <2>1. UNCHANGED <<progress, xp>> /\ lost \subseteq lost'
    BY <1>17 DEF StartAssignment, records
  <2>2. \A s \in Tabs : tab[s].pc = "lesson" => tab'[s] = tab[s]
    BY <1>17, AskingMoves DEF Opens, records
  <2> QED
    BY <2>1, <2>2, <1>g, RewardsKept
<1>18. ASSUME NEW t \in Tabs, NEW u \in Users, CreateCourseReview(t, u), UNCHANGED <<contentVars, lost>>
       PROVE XPTruthful'
  <2>1. UNCHANGED <<progress, xp>> /\ lost \subseteq lost'
    BY <1>18 DEF CreateCourseReview, records
  <2>2. \A s \in Tabs : tab[s].pc = "lesson" => tab'[s] = tab[s]
    BY <1>18, AskingMoves DEF Opens, records
  <2> QED
    BY <2>1, <2>2, <1>g, RewardsKept
<1>19. ASSUME NEW u \in Users, CreateCourseEnrollment(u), UNCHANGED <<contentVars, lost>>
       PROVE XPTruthful'
  <2>1. UNCHANGED <<progress, tab, completed>>
    BY <1>19 DEF CreateCourseEnrollment
  <2>2. \A v \in Users : xp[v] \subseteq xp'[v] /\ xp'[v] \subseteq xp[v] \cup {Enrolled}
    BY <1>19 DEF CreateCourseEnrollment, TInv, LearnerTypes
  <2>3. \A v \in Users : certs[v] > 0 => certs'[v] > 0
    BY <1>g, CertsGrow
  <2> QED
    BY <1>19, <2>1, <2>2, <2>3, Events DEF XPTruthful
<1>20. ASSUME NEW t \in Tabs, NEW u \in Users, NEW q \in Quizzes, NEW pass \in BOOLEAN, AdminReviewQuizSubmission(t, u, q, pass), UNCHANGED <<contentVars, lost>>
       PROVE XPTruthful'
  <2>1. UNCHANGED <<progress, xp>> /\ lost \subseteq lost'
    BY <1>20 DEF AdminReviewQuizSubmission, records
  <2>2. \A s \in Tabs : tab[s].pc = "lesson" => tab'[s] = tab[s]
    BY <1>20, AskingMoves DEF Opens, records
  <2> QED
    BY <2>1, <2>2, <1>g, RewardsKept
<1>21. ASSUME NEW e \in Editors, NEW u \in Users, NEW x \in Of("assignment"), ReviewAssignmentSubmission(e, u, x), UNCHANGED <<contentVars, lost>>
       PROVE XPTruthful'
  <2>1. UNCHANGED <<progress, xp>> /\ lost \subseteq lost'
    BY <1>21 DEF ReviewAssignmentSubmission, records
  <2>2. \A s \in Tabs : tab[s].pc = "lesson" => tab'[s] = tab[s]
    BY <1>21 DEF ReviewAssignmentSubmission, records
  <2> QED
    BY <2>1, <2>2, <1>g, RewardsKept
<1>22. ASSUME Tick, UNCHANGED <<contentVars, lost>>
       PROVE XPTruthful'
  <2>1. UNCHANGED <<progress, xp>> /\ lost \subseteq lost'
    BY <1>22 DEF Tick, records
  <2>2. \A s \in Tabs : tab[s].pc = "lesson" => tab'[s] = tab[s]
    BY <1>22 DEF Tick, records
  <2> QED
    BY <2>1, <2>2, <1>g, RewardsKept
<1>23. ASSUME NEW t \in Tabs, GiveUp(t), UNCHANGED contentVars
       PROVE XPTruthful'
  <2>1. UNCHANGED <<progress, xp>> /\ lost' = lost \cup {tab[t].user} /\ Closes(t)
    BY <1>23, HandlerMoves DEF GiveUp, records
  <2>2. \A v \in Users : certs[v] > 0 => certs'[v] > 0
    BY <1>g, CertsGrow
  <2>3. ASSUME NEW v \in Users, v \notin lost', NEW x \in progress[v], Lesson(x) \notin xp[v]
        PROVE  \E s \in Tabs : tab'[s].user = v /\ tab'[s].item = x /\ tab'[s].pc = "lesson"
    <3>1. PICK s \in Tabs : tab[s].user = v /\ tab[s].item = x /\ tab[s].pc = "lesson"
      BY <2>1, <2>3 DEF XPTruthful
    <3>2. s # t
      BY <2>1, <2>3, <3>1
    <3> QED
      BY <2>1, <3>1, <3>2 DEF Closes
  <2> QED
    BY <1>g, <2>1, <2>2, <2>3 DEF XPTruthful, Growing
<1>24. ASSUME NEW e \in Instructors, NEW u \in Users, NEW q \in Quizzes, NEW pass \in BOOLEAN, ReviewQuizSubmission(e, u, q, pass), UNCHANGED contentVars
       PROVE XPTruthful'
  <2>1. UNCHANGED <<progress, xp>> /\ lost \subseteq lost'
    BY <1>24 DEF ReviewQuizSubmission, records
  <2>2. \A s \in Tabs : tab[s].pc = "lesson" => tab'[s] = tab[s]
    BY <1>24 DEF ReviewQuizSubmission, records
  <2> QED
    BY <2>1, <2>2, <1>g, RewardsKept
<1>25. CASE UNCHANGED learnerVars \/ (ContentNext /\ UNCHANGED <<day, records, tab, requests, lost>>)
  <2>1. UNCHANGED <<progress, xp, tab, lost>>
    BY <1>25 DEF learnerVars, records
  <2> QED
    BY <2>1, <1>g, RewardsKept
<1> QED
  BY <1>1, <1>2, <1>3, <1>4, <1>5, <1>6, <1>7, <1>8, <1>9, <1>10, <1>11, <1>12, <1>13, <1>14, <1>15, <1>16, <1>17, <1>18, <1>19, <1>20, <1>21, <1>22, <1>23, <1>24, <1>25
  DEF Next, LearnerStep, Handler, Asking, Reviewing, vars

-----------------------------------------------------------------------------
(* While the course stays as it is, learners stay in order. *)

\* The course a learner works through is the same before and after a step.
CourseKept ==
  /\ (There(Course))' = There(Course) /\ drip' = drip
  /\ \A x \in Of("module") \cup Topics \cup Quizzes : rows'[x] = rows[x]
  /\ \A u \in Users : Passed(u) \subseteq (Passed(u))'

LEMMA NotShuffled ==
  ASSUME TInv, [Next]_vars, ~shuffled'
  PROVE  ~shuffled /\ CourseKept
<1>1. CASE UNCHANGED vars
  <2>1. UNCHANGED <<course, rows, drip, tries, shuffled>>
    BY <1>1 DEF vars, contentVars, learnerVars, records
  <2>2. (There(Course))' = There(Course)
    BY <2>1 DEF There
  <2>3. \A u \in Users : (Passed(u))' = Passed(u)
    BY <2>1 DEF Passed
  <2> QED
    BY <2>1, <2>2, <2>3 DEF CourseKept
<1>2. CASE Next
  <2>1. ~shuffled /\ Shape' = Shape /\ \A u \in Users : Passed(u) \subseteq (Passed(u))'
    BY <1>2 DEF Next, History
  <2> DEFINE R == [x \in Of("module") \cup Topics \cup Quizzes |-> rows[x]]
  <2>2. (There(Course))' = There(Course) /\ drip' = drip /\ R' = R
    BY <2>1 DEF Shape
  <2>3. \A x \in Of("module") \cup Topics \cup Quizzes : R[x] = rows[x] /\ R'[x] = rows'[x]
    OBVIOUS
  <2>4. \A x \in Of("module") \cup Topics \cup Quizzes : rows'[x] = rows[x]
    <3> HIDE DEF R
    <3> QED
      BY <2>2, <2>3
  <2> HIDE DEF R
  <2> QED
    BY <2>1, <2>2, <2>4 DEF CourseKept
<1> QED
  BY <1>1, <1>2

LEMMA ItemsKept ==
  ASSUME CourseKept
  PROVE  /\ Items' = Items
         /\ \A x \in Items : rows'[x] = rows[x] /\ rows[x].parent \in Of("module") /\ x \in Topics \cup Quizzes
         /\ \A x, y \in Items : (Before(x, y))' = Before(x, y)
<1>1. Modules' = Modules /\ Modules \subseteq Of("module")
  BY DEF CourseKept, Modules
<1>2. Items' = Items
  BY <1>1 DEF CourseKept, Items
<1>3. \A x \in Items : rows'[x] = rows[x] /\ rows[x].parent \in Of("module") /\ x \in Topics \cup Quizzes
  BY <1>1 DEF CourseKept, Items
<1>4. ASSUME NEW x \in Items, NEW y \in Items
      PROVE  (Before(x, y))' = Before(x, y)
  <2>1. rows'[x] = rows[x] /\ rows'[y] = rows[y]
    BY <1>3
  <2>2. rows'[rows[x].parent] = rows[rows[x].parent] /\ rows'[rows[y].parent] = rows[rows[y].parent]
    BY <1>3 DEF CourseKept
  <2> QED
    BY <2>1, <2>2 DEF Before, Sooner
<1> QED
  BY <1>2, <1>3, <1>4

TimePasses == day <= day' /\ \A u \in Users : since[u] # None => since'[u] = since[u]

\* Days pass, and an enrollment's day stays.
LEMMA Timely ==
  ASSUME TInv, [Next]_vars
  PROVE  TimePasses
<1>1. ASSUME NEW t \in Tabs, ReadProgress(t), UNCHANGED <<contentVars, lost>>
       PROVE TimePasses
  <2>1. UNCHANGED <<day, since>>
    BY <1>1 DEF ReadProgress, records
  <2> QED
    BY <2>1 DEF TInv, LearnerTypes, TimePasses
<1>2. ASSUME NEW t \in Tabs, SaveProgress(t), UNCHANGED <<contentVars, lost>>
       PROVE TimePasses
  <2>1. UNCHANGED <<day, since>>
    BY <1>2 DEF SaveProgress, records
  <2> QED
    BY <2>1 DEF TInv, LearnerTypes, TimePasses
<1>3. ASSUME NEW t \in Tabs, RewardLesson(t), UNCHANGED <<contentVars, lost>>
       PROVE TimePasses
  <2>1. UNCHANGED <<day, since>>
    BY <1>3 DEF RewardLesson, records
  <2> QED
    BY <2>1 DEF TInv, LearnerTypes, TimePasses
<1>4. ASSUME NEW t \in Tabs, CountAttempts(t), UNCHANGED <<contentVars, lost>>
       PROVE TimePasses
  <2>1. UNCHANGED <<day, since>>
    BY <1>4 DEF CountAttempts, records
  <2> QED
    BY <2>1 DEF TInv, LearnerTypes, TimePasses
<1>5. ASSUME NEW t \in Tabs, SubmitQuiz(t), UNCHANGED <<contentVars, lost>>
       PROVE TimePasses
  <2>1. UNCHANGED <<day, since>>
    BY <1>5 DEF SubmitQuiz, records
  <2> QED
    BY <2>1 DEF TInv, LearnerTypes, TimePasses
<1>6. ASSUME NEW t \in Tabs, SubmitAssignment(t), UNCHANGED <<contentVars, lost>>
       PROVE TimePasses
  <2>1. UNCHANGED <<day, since>>
    BY <1>6 DEF SubmitAssignment, records
  <2> QED
    BY <2>1 DEF TInv, LearnerTypes, TimePasses
<1>7. ASSUME NEW t \in Tabs, SyncCheck(t), UNCHANGED <<contentVars, lost>>
       PROVE TimePasses
  <2>1. UNCHANGED <<day, since>>
    BY <1>7 DEF SyncCheck, records
  <2> QED
    BY <2>1 DEF TInv, LearnerTypes, TimePasses
<1>8. ASSUME NEW t \in Tabs, SetCompleted(t), UNCHANGED <<contentVars, lost>>
       PROVE TimePasses
  <2>1. UNCHANGED <<day, since>>
    BY <1>8 DEF SetCompleted, records
  <2> QED
    BY <2>1 DEF TInv, LearnerTypes, TimePasses
<1>9. ASSUME NEW t \in Tabs, FindCertificate(t), UNCHANGED <<contentVars, lost>>
       PROVE TimePasses
  <2>1. UNCHANGED <<day, since>>
    BY <1>9 DEF FindCertificate, records
  <2> QED
    BY <2>1 DEF TInv, LearnerTypes, TimePasses
<1>10. ASSUME NEW t \in Tabs, IssueCertificate(t), UNCHANGED <<contentVars, lost>>
       PROVE TimePasses
  <2>1. UNCHANGED <<day, since>>
    BY <1>10 DEF IssueCertificate, records
  <2> QED
    BY <2>1 DEF TInv, LearnerTypes, TimePasses
<1>11. ASSUME NEW t \in Tabs, SignCertificate(t), UNCHANGED <<contentVars, lost>>
       PROVE TimePasses
  <2>1. UNCHANGED <<day, since>>
    BY <1>11 DEF SignCertificate, records
  <2> QED
    BY <2>1 DEF TInv, LearnerTypes, TimePasses
<1>12. ASSUME NEW t \in Tabs, RewardCourse(t), UNCHANGED <<contentVars, lost>>
       PROVE TimePasses
  <2>1. UNCHANGED <<day, since>>
    BY <1>12 DEF RewardCourse, records
  <2> QED
    BY <2>1 DEF TInv, LearnerTypes, TimePasses
<1>13. ASSUME NEW t \in Tabs, FindReview(t), UNCHANGED <<contentVars, lost>>
       PROVE TimePasses
  <2>1. UNCHANGED <<day, since>>
    BY <1>13 DEF FindReview, records
  <2> QED
    BY <2>1 DEF TInv, LearnerTypes, TimePasses
<1>14. ASSUME NEW t \in Tabs, SaveReview(t), UNCHANGED <<contentVars, lost>>
       PROVE TimePasses
  <2>1. UNCHANGED <<day, since>>
    BY <1>14 DEF SaveReview, records
  <2> QED
    BY <2>1 DEF TInv, LearnerTypes, TimePasses
<1>15. ASSUME NEW t \in Tabs, NEW u \in Users, NEW x \in Ids, CompleteTopic(t, u, x), UNCHANGED <<contentVars, lost>>
       PROVE TimePasses
  <2>1. UNCHANGED <<day, since>>
    BY <1>15 DEF CompleteTopic, records
  <2> QED
    BY <2>1 DEF TInv, LearnerTypes, TimePasses
<1>16. ASSUME NEW t \in Tabs, NEW u \in Users, NEW x \in Ids, StartQuiz(t, u, x), UNCHANGED <<contentVars, lost>>
       PROVE TimePasses
  <2>1. UNCHANGED <<day, since>>
    BY <1>16 DEF StartQuiz, records
  <2> QED
    BY <2>1 DEF TInv, LearnerTypes, TimePasses
<1>17. ASSUME NEW t \in Tabs, NEW u \in Users, NEW x \in Ids, StartAssignment(t, u, x), UNCHANGED <<contentVars, lost>>
       PROVE TimePasses
  <2>1. UNCHANGED <<day, since>>
    BY <1>17 DEF StartAssignment, records
  <2> QED
    BY <2>1 DEF TInv, LearnerTypes, TimePasses
<1>18. ASSUME NEW t \in Tabs, NEW u \in Users, CreateCourseReview(t, u), UNCHANGED <<contentVars, lost>>
       PROVE TimePasses
  <2>1. UNCHANGED <<day, since>>
    BY <1>18 DEF CreateCourseReview, records
  <2> QED
    BY <2>1 DEF TInv, LearnerTypes, TimePasses
<1>19. ASSUME NEW u \in Users, CreateCourseEnrollment(u), UNCHANGED <<contentVars, lost>>
       PROVE TimePasses
  BY <1>19 DEF CreateCourseEnrollment, TInv, LearnerTypes, TimePasses
<1>20. ASSUME NEW t \in Tabs, NEW u \in Users, NEW q \in Quizzes, NEW pass \in BOOLEAN, AdminReviewQuizSubmission(t, u, q, pass), UNCHANGED <<contentVars, lost>>
       PROVE TimePasses
  <2>1. UNCHANGED <<day, since>>
    BY <1>20 DEF AdminReviewQuizSubmission, records
  <2> QED
    BY <2>1 DEF TInv, LearnerTypes, TimePasses
<1>21. ASSUME NEW e \in Editors, NEW u \in Users, NEW x \in Of("assignment"), ReviewAssignmentSubmission(e, u, x), UNCHANGED <<contentVars, lost>>
       PROVE TimePasses
  <2>1. UNCHANGED <<day, since>>
    BY <1>21 DEF ReviewAssignmentSubmission, records
  <2> QED
    BY <2>1 DEF TInv, LearnerTypes, TimePasses
<1>22. ASSUME Tick, UNCHANGED <<contentVars, lost>>
       PROVE TimePasses
  BY <1>22 DEF Tick, TInv, LearnerTypes, records, TimePasses
<1>23. ASSUME NEW t \in Tabs, GiveUp(t), UNCHANGED contentVars
       PROVE TimePasses
  <2>1. UNCHANGED <<day, since>>
    BY <1>23 DEF GiveUp, records
  <2> QED
    BY <2>1 DEF TInv, LearnerTypes, TimePasses
<1>24. ASSUME NEW e \in Instructors, NEW u \in Users, NEW q \in Quizzes, NEW pass \in BOOLEAN, ReviewQuizSubmission(e, u, q, pass), UNCHANGED contentVars
       PROVE TimePasses
  <2>1. UNCHANGED <<day, since>>
    BY <1>24 DEF ReviewQuizSubmission, records
  <2> QED
    BY <2>1 DEF TInv, LearnerTypes, TimePasses
<1>25. CASE UNCHANGED learnerVars \/ (ContentNext /\ UNCHANGED <<day, records, tab, requests, lost>>)
  <2>1. UNCHANGED <<day, since>>
    BY <1>25 DEF learnerVars, records
  <2> QED
    BY <2>1 DEF TInv, LearnerTypes, TimePasses
<1> QED
  BY <1>1, <1>2, <1>3, <1>4, <1>5, <1>6, <1>7, <1>8, <1>9, <1>10, <1>11, <1>12, <1>13, <1>14, <1>15, <1>16, <1>17, <1>18, <1>19, <1>20, <1>21, <1>22, <1>23, <1>24, <1>25
  DEF Next, LearnerStep, Handler, Asking, Reviewing, vars

\* Who was let in to an item is let in still.
LEMMA UnlockedStays ==
  ASSUME TInv, LearnerTypes', ShapeTyped, CourseKept, Growing, TimePasses,
         NEW u \in Users, NEW x, Unlocked(u, x)
  PROVE  (Unlocked(u, x))'
<1>1. There(Course) /\ x \in Items /\ Open(u, rows[x].parent) /\ \A y \in Items : Before(y, x) => Done(u, y)
  BY DEF Unlocked
<1>2. (There(Course))' /\ Items' = Items /\ rows'[x] = rows[x]
  BY <1>1, ItemsKept DEF CourseKept
<1>3. (Open(u, rows[x].parent))'
  <2>1. since[u] # None /\ day >= since[u] + drip[rows[x].parent] /\ since'[u] = since[u]
    BY <1>1 DEF Open, TimePasses
  <2>2. since[u] \in Nat /\ day \in Nat /\ day' \in Nat /\ day <= day'
    BY <2>1 DEF TInv, LearnerTypes, TimePasses
  <2>3. drip[rows[x].parent] \in Nat /\ drip' = drip
    BY <1>1, ItemsKept DEF ShapeTyped, CourseKept
  <2> QED
    BY <1>2, <2>1, <2>2, <2>3 DEF Open
<1>4. ASSUME NEW y \in Items, (Before(y, x))' PROVE (Done(u, y))'
  <2>1. Done(u, y)
    BY <1>1, <1>4, ItemsKept
  <2>2. y \in Topics \cup Quizzes
    BY ItemsKept
  <2>3. CASE Kind[y] = "topic"
    BY <2>1, <2>3 DEF Done, Growing
  <2>4. CASE Kind[y] # "topic"
    <3>1. y \in Quizzes /\ y \in Passed(u)
      BY <2>1, <2>2, <2>4, Tables DEF Done, Passed
    <3>2. y \in (Passed(u))'
      BY <3>1 DEF CourseKept
    <3> QED
      BY <2>4, <3>2 DEF Done, Passed
  <2> QED
    BY <2>3, <2>4
<1> QED
  BY <1>1, <1>2, <1>3, <1>4 DEF Unlocked

\* Who works at an item, or has worked at it.
Working == {"progress", "save", "count", "submit"}
Started(u, x) == Done(u, x) \/ (x \in Quizzes /\ Attempts(u, x) > 0)
Begun(u, x) == \E t \in Tabs : tab[t].pc \in Working /\ tab[t].user = u /\ tab[t].item = x
LetIn(s) ==
  \/ tab[s].pc \in Working /\ tab'[s].user = tab[s].user /\ tab'[s].item = tab[s].item
  \/ tab'[s].user \in Users /\ Unlocked(tab'[s].user, tab'[s].item)

\* Only a request that is about an item begins it.
LEMMA StartedBy ==
  ASSUME TInv, NEW u \in Users, NEW x \in Topics \cup Quizzes, Started(u, x)', [Next]_vars
  PROVE  Started(u, x) \/ Begun(u, x)
<1>s. Started(u, x)'
  OBVIOUS
<1>1. ASSUME NEW t \in Tabs, ReadProgress(t), UNCHANGED <<contentVars, lost>>
       PROVE Started(u, x) \/ Begun(u, x)
  <2>1. UNCHANGED <<progress, tries>>
    BY <1>1 DEF ReadProgress, records
  <2> QED
    BY <2>1, <1>s DEF Started, Done, Attempts
<1>2. ASSUME NEW t \in Tabs, SaveProgress(t), UNCHANGED <<contentVars, lost>>
       PROVE Started(u, x) \/ Begun(u, x)
  <2>1. tab[t].pc = "save" /\ tab[t].user \in Users /\ tries' = tries
    BY <1>2, Aimed DEF SaveProgress, Step
  <2>2. progress'[u] = IF u = tab[t].user THEN progress[u] \cup {tab[t].item} ELSE progress[u]
    BY <1>2, <2>1 DEF SaveProgress, TInv, LearnerTypes
  <2>3. CASE u = tab[t].user /\ x = tab[t].item
    BY <2>1, <2>3 DEF Begun, Working
  <2>4. CASE ~(u = tab[t].user /\ x = tab[t].item)
    <3>1. x \in progress'[u] => x \in progress[u]
      BY <2>2, <2>4
    <3> QED
      BY <1>s, <2>1, <3>1 DEF Started, Done, Attempts
  <2> QED
    BY <2>3, <2>4
<1>3. ASSUME NEW t \in Tabs, RewardLesson(t), UNCHANGED <<contentVars, lost>>
       PROVE Started(u, x) \/ Begun(u, x)
  <2>1. UNCHANGED <<progress, tries>>
    BY <1>3 DEF RewardLesson, records
  <2> QED
    BY <2>1, <1>s DEF Started, Done, Attempts
<1>4. ASSUME NEW t \in Tabs, CountAttempts(t), UNCHANGED <<contentVars, lost>>
       PROVE Started(u, x) \/ Begun(u, x)
  <2>1. UNCHANGED <<progress, tries>>
    BY <1>4 DEF CountAttempts, records
  <2> QED
    BY <2>1, <1>s DEF Started, Done, Attempts
<1>5. ASSUME NEW t \in Tabs, SubmitQuiz(t), UNCHANGED <<contentVars, lost>>
       PROVE Started(u, x) \/ Begun(u, x)
  <2>1. PICK r \in [passed: Nat, failed: Nat] : Rewritten(tab[t].user, tab[t].item, r)
    BY <1>5, Submitted
  <2>2. tab[t].pc = "submit" /\ progress' = progress
    BY <1>5 DEF SubmitQuiz, Step
  <2>3. CASE u = tab[t].user /\ x = tab[t].item
    BY <2>2, <2>3 DEF Begun, Working
  <2>4. CASE x \in Quizzes /\ ~(u = tab[t].user /\ x = tab[t].item)
    <3>1. tries'[u][x] = tries[u][x]
      BY <2>1, <2>4 DEF Rewritten
    <3> QED
      BY <1>s, <2>2, <2>4, <3>1, Tables DEF Started, Done, Attempts
  <2>5. CASE x \notin Quizzes
    BY <1>s, <2>2, <2>5, Tables DEF Started, Done
  <2> QED
    BY <2>3, <2>4, <2>5
<1>6. ASSUME NEW t \in Tabs, SubmitAssignment(t), UNCHANGED <<contentVars, lost>>
       PROVE Started(u, x) \/ Begun(u, x)
  <2>1. UNCHANGED <<progress, tries>>
    BY <1>6 DEF SubmitAssignment, records
  <2> QED
    BY <2>1, <1>s DEF Started, Done, Attempts
<1>7. ASSUME NEW t \in Tabs, SyncCheck(t), UNCHANGED <<contentVars, lost>>
       PROVE Started(u, x) \/ Begun(u, x)
  <2>1. UNCHANGED <<progress, tries>>
    BY <1>7 DEF SyncCheck, records
  <2> QED
    BY <2>1, <1>s DEF Started, Done, Attempts
<1>8. ASSUME NEW t \in Tabs, SetCompleted(t), UNCHANGED <<contentVars, lost>>
       PROVE Started(u, x) \/ Begun(u, x)
  <2>1. UNCHANGED <<progress, tries>>
    BY <1>8 DEF SetCompleted, records
  <2> QED
    BY <2>1, <1>s DEF Started, Done, Attempts
<1>9. ASSUME NEW t \in Tabs, FindCertificate(t), UNCHANGED <<contentVars, lost>>
       PROVE Started(u, x) \/ Begun(u, x)
  <2>1. UNCHANGED <<progress, tries>>
    BY <1>9 DEF FindCertificate, records
  <2> QED
    BY <2>1, <1>s DEF Started, Done, Attempts
<1>10. ASSUME NEW t \in Tabs, IssueCertificate(t), UNCHANGED <<contentVars, lost>>
       PROVE Started(u, x) \/ Begun(u, x)
  <2>1. UNCHANGED <<progress, tries>>
    BY <1>10 DEF IssueCertificate, records
  <2> QED
    BY <2>1, <1>s DEF Started, Done, Attempts
<1>11. ASSUME NEW t \in Tabs, SignCertificate(t), UNCHANGED <<contentVars, lost>>
       PROVE Started(u, x) \/ Begun(u, x)
  <2>1. UNCHANGED <<progress, tries>>
    BY <1>11 DEF SignCertificate, records
  <2> QED
    BY <2>1, <1>s DEF Started, Done, Attempts
<1>12. ASSUME NEW t \in Tabs, RewardCourse(t), UNCHANGED <<contentVars, lost>>
       PROVE Started(u, x) \/ Begun(u, x)
  <2>1. UNCHANGED <<progress, tries>>
    BY <1>12 DEF RewardCourse, records
  <2> QED
    BY <2>1, <1>s DEF Started, Done, Attempts
<1>13. ASSUME NEW t \in Tabs, FindReview(t), UNCHANGED <<contentVars, lost>>
       PROVE Started(u, x) \/ Begun(u, x)
  <2>1. UNCHANGED <<progress, tries>>
    BY <1>13 DEF FindReview, records
  <2> QED
    BY <2>1, <1>s DEF Started, Done, Attempts
<1>14. ASSUME NEW t \in Tabs, SaveReview(t), UNCHANGED <<contentVars, lost>>
       PROVE Started(u, x) \/ Begun(u, x)
  <2>1. UNCHANGED <<progress, tries>>
    BY <1>14 DEF SaveReview, records
  <2> QED
    BY <2>1, <1>s DEF Started, Done, Attempts
<1>15. ASSUME NEW t \in Tabs, NEW v \in Users, NEW y \in Ids, CompleteTopic(t, v, y), UNCHANGED <<contentVars, lost>>
       PROVE Started(u, x) \/ Begun(u, x)
  <2>1. UNCHANGED <<progress, tries>>
    BY <1>15 DEF CompleteTopic, records
  <2> QED
    BY <2>1, <1>s DEF Started, Done, Attempts
<1>16. ASSUME NEW t \in Tabs, NEW v \in Users, NEW y \in Ids, StartQuiz(t, v, y), UNCHANGED <<contentVars, lost>>
       PROVE Started(u, x) \/ Begun(u, x)
  <2>1. UNCHANGED <<progress, tries>>
    BY <1>16 DEF StartQuiz, records
  <2> QED
    BY <2>1, <1>s DEF Started, Done, Attempts
<1>17. ASSUME NEW t \in Tabs, NEW v \in Users, NEW y \in Ids, StartAssignment(t, v, y), UNCHANGED <<contentVars, lost>>
       PROVE Started(u, x) \/ Begun(u, x)
  <2>1. UNCHANGED <<progress, tries>>
    BY <1>17 DEF StartAssignment, records
  <2> QED
    BY <2>1, <1>s DEF Started, Done, Attempts
<1>18. ASSUME NEW t \in Tabs, NEW v \in Users, CreateCourseReview(t, v), UNCHANGED <<contentVars, lost>>
       PROVE Started(u, x) \/ Begun(u, x)
  <2>1. UNCHANGED <<progress, tries>>
    BY <1>18 DEF CreateCourseReview, records
  <2> QED
    BY <2>1, <1>s DEF Started, Done, Attempts
<1>19. ASSUME NEW v \in Users, CreateCourseEnrollment(v), UNCHANGED <<contentVars, lost>>
       PROVE Started(u, x) \/ Begun(u, x)
  <2>1. UNCHANGED <<progress, tries>>
    BY <1>19 DEF CreateCourseEnrollment, records
  <2> QED
    BY <2>1, <1>s DEF Started, Done, Attempts
<1>20. ASSUME NEW t \in Tabs, NEW v \in Users, NEW q \in Quizzes, NEW pass \in BOOLEAN, AdminReviewQuizSubmission(t, v, q, pass), UNCHANGED <<contentVars, lost>>
       PROVE Started(u, x) \/ Begun(u, x)
  <2>1. Judge(v, q, pass) /\ progress' = progress
    BY <1>20 DEF AdminReviewQuizSubmission
  <2>2. CASE x \in Quizzes
    <3>1. /\ tries'[u][x].passed \in Nat /\ tries'[u][x].failed \in Nat
          /\ tries'[u][x].passed + tries'[u][x].failed = Attempts(u, x)
      BY <2>1, <2>2, Judged DEF TInv
    <3>2. tries'[u][x].passed + tries'[u][x].failed > 0
      BY <1>s, <2>2, <3>1, Tables DEF Started, Done, Attempts
    <3> QED
      BY <2>2, <3>1, <3>2 DEF Started
  <2>3. CASE x \notin Quizzes
    BY <1>s, <2>1, <2>3, Tables DEF Started, Done
  <2> QED
    BY <2>2, <2>3
<1>21. ASSUME NEW e \in Editors, NEW v \in Users, NEW y \in Of("assignment"), ReviewAssignmentSubmission(e, v, y), UNCHANGED <<contentVars, lost>>
       PROVE Started(u, x) \/ Begun(u, x)
  <2>1. UNCHANGED <<progress, tries>>
    BY <1>21 DEF ReviewAssignmentSubmission, records
  <2> QED
    BY <2>1, <1>s DEF Started, Done, Attempts
<1>22. ASSUME Tick, UNCHANGED <<contentVars, lost>>
       PROVE Started(u, x) \/ Begun(u, x)
  <2>1. UNCHANGED <<progress, tries>>
    BY <1>22 DEF Tick, records
  <2> QED
    BY <2>1, <1>s DEF Started, Done, Attempts
<1>23. ASSUME NEW t \in Tabs, GiveUp(t), UNCHANGED contentVars
       PROVE Started(u, x) \/ Begun(u, x)
  <2>1. UNCHANGED <<progress, tries>>
    BY <1>23 DEF GiveUp, records
  <2> QED
    BY <2>1, <1>s DEF Started, Done, Attempts
<1>24. ASSUME NEW e \in Instructors, NEW v \in Users, NEW q \in Quizzes, NEW pass \in BOOLEAN, ReviewQuizSubmission(e, v, q, pass), UNCHANGED contentVars
       PROVE Started(u, x) \/ Begun(u, x)
  <2>1. Judge(v, q, pass) /\ progress' = progress
    BY <1>24 DEF ReviewQuizSubmission
  <2>2. CASE x \in Quizzes
    <3>1. /\ tries'[u][x].passed \in Nat /\ tries'[u][x].failed \in Nat
          /\ tries'[u][x].passed + tries'[u][x].failed = Attempts(u, x)
      BY <2>1, <2>2, Judged DEF TInv
    <3>2. tries'[u][x].passed + tries'[u][x].failed > 0
      BY <1>s, <2>2, <3>1, Tables DEF Started, Done, Attempts
    <3> QED
      BY <2>2, <3>1, <3>2 DEF Started
  <2>3. CASE x \notin Quizzes
    BY <1>s, <2>1, <2>3, Tables DEF Started, Done
  <2> QED
    BY <2>2, <2>3
<1>25. CASE UNCHANGED learnerVars \/ (ContentNext /\ UNCHANGED <<day, records, tab, requests, lost>>)
  <2>1. UNCHANGED <<progress, tries>>
    BY <1>25 DEF learnerVars, records
  <2> QED
    BY <2>1, <1>s DEF Started, Done, Attempts
<1> QED
  BY <1>1, <1>2, <1>3, <1>4, <1>5, <1>6, <1>7, <1>8, <1>9, <1>10, <1>11, <1>12, <1>13, <1>14, <1>15, <1>16, <1>17, <1>18, <1>19, <1>20, <1>21, <1>22, <1>23, <1>24, <1>25
  DEF Next, LearnerStep, Handler, Asking, Reviewing, vars

\* Only a request that was let in works at an item.
LEMMA WorkingSince ==
  ASSUME TInv, NEW s \in Tabs, tab'[s].pc \in Working, [Next]_vars
  PROVE  LetIn(s)
<1>s. tab'[s].pc \in Working
  OBVIOUS
<1>1. ASSUME NEW t \in Tabs, ReadProgress(t), UNCHANGED <<contentVars, lost>>
       PROVE LetIn(s)
  <2>1. CASE s = t
    BY <1>1, <1>s, <2>1, HandlerMoves DEF Goes, LetIn, Working
  <2>2. CASE s # t
    BY <1>1, <1>s, <2>2, HandlerMoves DEF Goes, LetIn, Working
  <2> QED
    BY <2>1, <2>2
<1>2. ASSUME NEW t \in Tabs, SaveProgress(t), UNCHANGED <<contentVars, lost>>
       PROVE LetIn(s)
  <2>1. CASE s = t
    BY <1>2, <1>s, <2>1, HandlerMoves DEF Goes, LetIn, Working
  <2>2. CASE s # t
    BY <1>2, <1>s, <2>2, HandlerMoves DEF Goes, LetIn, Working
  <2> QED
    BY <2>1, <2>2
<1>3. ASSUME NEW t \in Tabs, RewardLesson(t), UNCHANGED <<contentVars, lost>>
       PROVE LetIn(s)
  <2>1. CASE s = t
    BY <1>3, <1>s, <2>1, HandlerMoves DEF Goes, LetIn, Working
  <2>2. CASE s # t
    BY <1>3, <1>s, <2>2, HandlerMoves DEF Goes, LetIn, Working
  <2> QED
    BY <2>1, <2>2
<1>4. ASSUME NEW t \in Tabs, CountAttempts(t), UNCHANGED <<contentVars, lost>>
       PROVE LetIn(s)
  <2>1. CASE s = t
    BY <1>4, <1>s, <2>1, HandlerMoves DEF Goes, Closes, LetIn, Working
  <2>2. CASE s # t
    BY <1>4, <1>s, <2>2, HandlerMoves DEF Goes, Closes, LetIn, Working
  <2> QED
    BY <2>1, <2>2
<1>5. ASSUME NEW t \in Tabs, SubmitQuiz(t), UNCHANGED <<contentVars, lost>>
       PROVE LetIn(s)
  <2>1. CASE s = t
    BY <1>5, <1>s, <2>1, HandlerMoves DEF Goes, LetIn, Working
  <2>2. CASE s # t
    BY <1>5, <1>s, <2>2, HandlerMoves DEF Goes, LetIn, Working
  <2> QED
    BY <2>1, <2>2
<1>6. ASSUME NEW t \in Tabs, SubmitAssignment(t), UNCHANGED <<contentVars, lost>>
       PROVE LetIn(s)
  <2>1. CASE s = t
    BY <1>6, <1>s, <2>1, HandlerMoves DEF Closes, LetIn, Working
  <2>2. CASE s # t
    BY <1>6, <1>s, <2>2, HandlerMoves DEF Closes, LetIn, Working
  <2> QED
    BY <2>1, <2>2
<1>7. ASSUME NEW t \in Tabs, SyncCheck(t), UNCHANGED <<contentVars, lost>>
       PROVE LetIn(s)
  <2>1. CASE s = t
    BY <1>7, <1>s, <2>1, HandlerMoves DEF Goes, Closes, LetIn, Working
  <2>2. CASE s # t
    BY <1>7, <1>s, <2>2, HandlerMoves DEF Goes, Closes, LetIn, Working
  <2> QED
    BY <2>1, <2>2
<1>8. ASSUME NEW t \in Tabs, SetCompleted(t), UNCHANGED <<contentVars, lost>>
       PROVE LetIn(s)
  <2>1. CASE s = t
    BY <1>8, <1>s, <2>1, HandlerMoves DEF Goes, LetIn, Working
  <2>2. CASE s # t
    BY <1>8, <1>s, <2>2, HandlerMoves DEF Goes, LetIn, Working
  <2> QED
    BY <2>1, <2>2
<1>9. ASSUME NEW t \in Tabs, FindCertificate(t), UNCHANGED <<contentVars, lost>>
       PROVE LetIn(s)
  <2>1. CASE s = t
    BY <1>9, <1>s, <2>1, HandlerMoves DEF Goes, LetIn, Working
  <2>2. CASE s # t
    BY <1>9, <1>s, <2>2, HandlerMoves DEF Goes, LetIn, Working
  <2> QED
    BY <2>1, <2>2
<1>10. ASSUME NEW t \in Tabs, IssueCertificate(t), UNCHANGED <<contentVars, lost>>
       PROVE LetIn(s)
  <2>1. CASE s = t
    BY <1>10, <1>s, <2>1, HandlerMoves DEF Goes, LetIn, Working
  <2>2. CASE s # t
    BY <1>10, <1>s, <2>2, HandlerMoves DEF Goes, LetIn, Working
  <2> QED
    BY <2>1, <2>2
<1>11. ASSUME NEW t \in Tabs, SignCertificate(t), UNCHANGED <<contentVars, lost>>
       PROVE LetIn(s)
  <2>1. CASE s = t
    BY <1>11, <1>s, <2>1, HandlerMoves DEF Goes, LetIn, Working
  <2>2. CASE s # t
    BY <1>11, <1>s, <2>2, HandlerMoves DEF Goes, LetIn, Working
  <2> QED
    BY <2>1, <2>2
<1>12. ASSUME NEW t \in Tabs, RewardCourse(t), UNCHANGED <<contentVars, lost>>
       PROVE LetIn(s)
  <2>1. CASE s = t
    BY <1>12, <1>s, <2>1, HandlerMoves DEF Closes, LetIn, Working
  <2>2. CASE s # t
    BY <1>12, <1>s, <2>2, HandlerMoves DEF Closes, LetIn, Working
  <2> QED
    BY <2>1, <2>2
<1>13. ASSUME NEW t \in Tabs, FindReview(t), UNCHANGED <<contentVars, lost>>
       PROVE LetIn(s)
  <2>1. CASE s = t
    BY <1>13, <1>s, <2>1, HandlerMoves DEF Goes, Closes, LetIn, Working
  <2>2. CASE s # t
    BY <1>13, <1>s, <2>2, HandlerMoves DEF Goes, Closes, LetIn, Working
  <2> QED
    BY <2>1, <2>2
<1>14. ASSUME NEW t \in Tabs, SaveReview(t), UNCHANGED <<contentVars, lost>>
       PROVE LetIn(s)
  <2>1. CASE s = t
    BY <1>14, <1>s, <2>1, HandlerMoves DEF Closes, LetIn, Working
  <2>2. CASE s # t
    BY <1>14, <1>s, <2>2, HandlerMoves DEF Closes, LetIn, Working
  <2> QED
    BY <2>1, <2>2
<1>15. ASSUME NEW t \in Tabs, NEW v \in Users, NEW y \in Ids, CompleteTopic(t, v, y), UNCHANGED <<contentVars, lost>>
       PROVE LetIn(s)
  <2>1. CASE s = t
    <3>1. tab'[s].user = v /\ tab'[s].item = y
      BY <1>15, <2>1, AskingMoves DEF Opens
    <3> QED
      BY <1>15, <3>1 DEF CompleteTopic, LetIn
  <2>2. CASE s # t
    BY <1>15, <1>s, <2>2, AskingMoves DEF Opens, LetIn
  <2> QED
    BY <2>1, <2>2
<1>16. ASSUME NEW t \in Tabs, NEW v \in Users, NEW y \in Ids, StartQuiz(t, v, y), UNCHANGED <<contentVars, lost>>
       PROVE LetIn(s)
  <2>1. CASE s = t
    <3>1. tab'[s].user = v /\ tab'[s].item = y
      BY <1>16, <2>1, AskingMoves DEF Opens
    <3> QED
      BY <1>16, <3>1 DEF StartQuiz, LetIn
  <2>2. CASE s # t
    BY <1>16, <1>s, <2>2, AskingMoves DEF Opens, LetIn
  <2> QED
    BY <2>1, <2>2
<1>17. ASSUME NEW t \in Tabs, NEW v \in Users, NEW y \in Ids, StartAssignment(t, v, y), UNCHANGED <<contentVars, lost>>
       PROVE LetIn(s)
  <2>1. CASE s = t
    BY <1>17, <1>s, <2>1, AskingMoves DEF Opens, LetIn, Working
  <2>2. CASE s # t
    BY <1>17, <1>s, <2>2, AskingMoves DEF Opens, LetIn, Working
  <2> QED
    BY <2>1, <2>2
<1>18. ASSUME NEW t \in Tabs, NEW v \in Users, CreateCourseReview(t, v), UNCHANGED <<contentVars, lost>>
       PROVE LetIn(s)
  <2>1. CASE s = t
    BY <1>18, <1>s, <2>1, AskingMoves DEF Opens, LetIn, Working
  <2>2. CASE s # t
    BY <1>18, <1>s, <2>2, AskingMoves DEF Opens, LetIn, Working
  <2> QED
    BY <2>1, <2>2
<1>19. ASSUME NEW v \in Users, CreateCourseEnrollment(v), UNCHANGED <<contentVars, lost>>
       PROVE LetIn(s)
  <2>1. UNCHANGED tab
    BY <1>19 DEF CreateCourseEnrollment
  <2> QED
    BY <2>1, <1>s DEF LetIn, Working
<1>20. ASSUME NEW t \in Tabs, NEW v \in Users, NEW q \in Quizzes, NEW pass \in BOOLEAN, AdminReviewQuizSubmission(t, v, q, pass), UNCHANGED <<contentVars, lost>>
       PROVE LetIn(s)
  <2>1. CASE Opens(t, "sync", v, q)
    BY <1>s, <2>1 DEF Opens, LetIn, Working
  <2>2. CASE UNCHANGED tab
    BY <1>s, <2>2 DEF LetIn
  <2> QED
    BY <1>20, <2>1, <2>2, AskingMoves
<1>21. ASSUME NEW e \in Editors, NEW v \in Users, NEW y \in Of("assignment"), ReviewAssignmentSubmission(e, v, y), UNCHANGED <<contentVars, lost>>
       PROVE LetIn(s)
  <2>1. UNCHANGED tab
    BY <1>21 DEF ReviewAssignmentSubmission
  <2> QED
    BY <2>1, <1>s DEF LetIn, Working
<1>22. ASSUME Tick, UNCHANGED <<contentVars, lost>>
       PROVE LetIn(s)
  <2>1. UNCHANGED tab
    BY <1>22 DEF Tick
  <2> QED
    BY <2>1, <1>s DEF LetIn, Working
<1>23. ASSUME NEW t \in Tabs, GiveUp(t), UNCHANGED contentVars
       PROVE LetIn(s)
  <2>1. CASE s = t
    BY <1>23, <1>s, <2>1, HandlerMoves DEF Closes, LetIn, Working
  <2>2. CASE s # t
    BY <1>23, <1>s, <2>2, HandlerMoves DEF Closes, LetIn, Working
  <2> QED
    BY <2>1, <2>2
<1>24. ASSUME NEW e \in Instructors, NEW v \in Users, NEW q \in Quizzes, NEW pass \in BOOLEAN, ReviewQuizSubmission(e, v, q, pass), UNCHANGED contentVars
       PROVE LetIn(s)
  <2>1. UNCHANGED tab
    BY <1>24 DEF ReviewQuizSubmission
  <2> QED
    BY <2>1, <1>s DEF LetIn, Working
<1>25. CASE UNCHANGED learnerVars \/ (ContentNext /\ UNCHANGED <<day, records, tab, requests, lost>>)
  <2>1. UNCHANGED tab
    BY <1>25 DEF learnerVars
  <2> QED
    BY <2>1, <1>s DEF LetIn, Working
<1> QED
  BY <1>1, <1>2, <1>3, <1>4, <1>5, <1>6, <1>7, <1>8, <1>9, <1>10, <1>11, <1>12, <1>13, <1>14, <1>15, <1>16, <1>17, <1>18, <1>19, <1>20, <1>21, <1>22, <1>23, <1>24, <1>25
  DEF Next, LearnerStep, Handler, Asking, Reviewing, vars

\* How many requests are about to submit a quiz of a user.
LEMMA SubmittingCounted ==
  ASSUME NEW u \in Users, NEW q \in Quizzes
  PROVE  /\ IsFiniteSet(Tabs) /\ Cardinality(Tabs) \in Nat
         /\ IsFiniteSet(Submitting(u, q)) /\ Cardinality(Submitting(u, q)) \in Nat
         /\ IsFiniteSet(Submitting(u, q)') /\ Cardinality(Submitting(u, q)') \in Nat
         /\ Cardinality(Submitting(u, q)') <= Cardinality(Tabs)
         /\ Submitting(u, q)' \subseteq Submitting(u, q) => Cardinality(Submitting(u, q)') <= Cardinality(Submitting(u, q))
         /\ \A t \in Submitting(u, q) :
              Submitting(u, q)' \subseteq Submitting(u, q) \ {t} => Cardinality(Submitting(u, q)') + 1 <= Cardinality(Submitting(u, q))
<1>1. IsFiniteSet(Tabs) /\ Cardinality(Tabs) \in Nat
  BY LearningAssumption, FS_CardinalityType
<1>2. /\ IsFiniteSet(Submitting(u, q)) /\ Cardinality(Submitting(u, q)) \in Nat
  <2>1. Submitting(u, q) \subseteq Tabs
    BY DEF Submitting
  <2> QED
    BY <1>1, <2>1, FS_Subset, FS_CardinalityType
<1>3. /\ IsFiniteSet(Submitting(u, q)') /\ Cardinality(Submitting(u, q)') \in Nat
      /\ Cardinality(Submitting(u, q)') <= Cardinality(Tabs)
  <2>1. Submitting(u, q)' \subseteq Tabs
    BY DEF Submitting
  <2> QED
    BY <1>1, <2>1, FS_Subset, FS_CardinalityType
<1>4. Submitting(u, q)' \subseteq Submitting(u, q) => Cardinality(Submitting(u, q)') <= Cardinality(Submitting(u, q))
  BY <1>2, FS_Subset
<1>5. ASSUME NEW t \in Submitting(u, q), Submitting(u, q)' \subseteq Submitting(u, q) \ {t}
      PROVE  Cardinality(Submitting(u, q)') + 1 <= Cardinality(Submitting(u, q))
  <2>1. IsFiniteSet(Submitting(u, q) \ {t}) /\ Cardinality(Submitting(u, q) \ {t}) = Cardinality(Submitting(u, q)) - 1
    BY <1>2, FS_RemoveElement
  <2>2. Cardinality(Submitting(u, q)') <= Cardinality(Submitting(u, q) \ {t})
    BY <1>5, <2>1, FS_Subset
  <2> QED
    BY <1>2, <1>3, <2>1, <2>2
<1> QED
  BY <1>1, <1>2, <1>3, <1>4, <1>5

\* One step of the attempts at a quiz: no more than before, counting those about to be made, or
\* one request more is about to make one, having found some left.
Attempted(u, q) ==
  \/ (Attempts(u, q))' + Cardinality(Submitting(u, q)') <= Attempts(u, q) + Cardinality(Submitting(u, q))
  \/ (Attempts(u, q))' = Attempts(u, q) /\ ~LimitReached(u, q)

LEMMA SameAttempts ==
  ASSUME TInv, NEW u \in Users, NEW q \in Quizzes,
         (Attempts(u, q))' = Attempts(u, q), Submitting(u, q)' \subseteq Submitting(u, q)
  PROVE  Attempted(u, q)
<1>1. Attempts(u, q) \in Nat
  BY TriesTyped DEF TInv, Attempts
<1>2. Cardinality(Submitting(u, q)') <= Cardinality(Submitting(u, q))
  BY SubmittingCounted
<1> QED
  BY <1>1, <1>2, SubmittingCounted DEF Attempted

\* No request makes an attempt without having found one left.
LEMMA AttemptsStep ==
  ASSUME TInv, NEW u \in Users, NEW q \in Quizzes, [Next]_vars
  PROVE  Attempted(u, q)
<1>1. ASSUME NEW t \in Tabs, ReadProgress(t), UNCHANGED <<contentVars, lost>>
       PROVE Attempted(u, q)
  <2>1. (Attempts(u, q))' = Attempts(u, q)
    BY <1>1 DEF ReadProgress, records, Attempts
  <2>2. Submitting(u, q)' \subseteq Submitting(u, q)
    BY <1>1, HandlerMoves DEF Goes, Submitting, records
  <2> QED
    BY <2>1, <2>2, SameAttempts
<1>2. ASSUME NEW t \in Tabs, SaveProgress(t), UNCHANGED <<contentVars, lost>>
       PROVE Attempted(u, q)
  <2>1. (Attempts(u, q))' = Attempts(u, q)
    BY <1>2 DEF SaveProgress, records, Attempts
  <2>2. Submitting(u, q)' \subseteq Submitting(u, q)
    BY <1>2, HandlerMoves DEF Goes, Submitting, records
  <2> QED
    BY <2>1, <2>2, SameAttempts
<1>3. ASSUME NEW t \in Tabs, RewardLesson(t), UNCHANGED <<contentVars, lost>>
       PROVE Attempted(u, q)
  <2>1. (Attempts(u, q))' = Attempts(u, q)
    BY <1>3 DEF RewardLesson, records, Attempts
  <2>2. Submitting(u, q)' \subseteq Submitting(u, q)
    BY <1>3, HandlerMoves DEF Goes, Submitting, records
  <2> QED
    BY <2>1, <2>2, SameAttempts
<1>4. ASSUME NEW t \in Tabs, CountAttempts(t), UNCHANGED <<contentVars, lost>>
       PROVE Attempted(u, q)
  <2>1. (Attempts(u, q))' = Attempts(u, q)
    BY <1>4 DEF CountAttempts, records, Attempts
  <2>2. CASE Closes(t) /\ tab[t].pc = "count"
    <3>1. Submitting(u, q)' \subseteq Submitting(u, q)
      BY <2>2 DEF Closes, Submitting
    <3> QED
      BY <2>1, <3>1, SameAttempts
  <2>3. CASE Goes(t, "count", "submit") /\ ~LimitReached(tab[t].user, tab[t].item)
    <3>1. CASE u = tab[t].user /\ q = tab[t].item
      BY <2>1, <2>3, <3>1 DEF Attempted
    <3>2. CASE ~(u = tab[t].user /\ q = tab[t].item)
      <4>1. Submitting(u, q)' \subseteq Submitting(u, q)
        BY <2>3, <3>2 DEF Goes, Submitting
      <4> QED
        BY <2>1, <4>1, SameAttempts
    <3> QED
      BY <3>1, <3>2
  <2> QED
    BY <1>4, <2>2, <2>3, HandlerMoves
<1>5. ASSUME NEW t \in Tabs, SubmitQuiz(t), UNCHANGED <<contentVars, lost>>
       PROVE Attempted(u, q)
  <2>1. PICK r \in [passed: Nat, failed: Nat] :
          /\ Rewritten(tab[t].user, tab[t].item, r)
          /\ r.passed + r.failed = Attempts(tab[t].user, tab[t].item) + 1
    BY <1>5, Submitted
  <2>2. Goes(t, "submit", "sync")
    BY <1>5, HandlerMoves
  <2>3. CASE u = tab[t].user /\ q = tab[t].item
    <3>1. (Attempts(u, q))' = Attempts(u, q) + 1 /\ Attempts(u, q) \in Nat
      BY <2>1, <2>3, TriesTyped DEF Rewritten, Attempts, TInv
    <3>2. t \in Submitting(u, q) /\ Submitting(u, q)' \subseteq Submitting(u, q) \ {t}
      BY <2>2, <2>3 DEF Goes, Submitting
    <3>3. Cardinality(Submitting(u, q)') + 1 <= Cardinality(Submitting(u, q))
      BY <3>2, SubmittingCounted
    <3> QED
      BY <3>1, <3>3, SubmittingCounted DEF Attempted
  <2>4. CASE ~(u = tab[t].user /\ q = tab[t].item)
    <3>1. (Attempts(u, q))' = Attempts(u, q)
      BY <2>1, <2>4 DEF Rewritten, Attempts
    <3>2. Submitting(u, q)' \subseteq Submitting(u, q)
      BY <2>2 DEF Goes, Submitting
    <3> QED
      BY <3>1, <3>2, SameAttempts
  <2> QED
    BY <2>3, <2>4
<1>6. ASSUME NEW t \in Tabs, SubmitAssignment(t), UNCHANGED <<contentVars, lost>>
       PROVE Attempted(u, q)
  <2>1. (Attempts(u, q))' = Attempts(u, q)
    BY <1>6 DEF SubmitAssignment, records, Attempts
  <2>2. Submitting(u, q)' \subseteq Submitting(u, q)
    BY <1>6, HandlerMoves DEF Closes, Submitting, records
  <2> QED
    BY <2>1, <2>2, SameAttempts
<1>7. ASSUME NEW t \in Tabs, SyncCheck(t), UNCHANGED <<contentVars, lost>>
       PROVE Attempted(u, q)
  <2>1. (Attempts(u, q))' = Attempts(u, q)
    BY <1>7 DEF SyncCheck, records, Attempts
  <2>2. Submitting(u, q)' \subseteq Submitting(u, q)
    BY <1>7, HandlerMoves DEF Goes, Closes, Submitting, records
  <2> QED
    BY <2>1, <2>2, SameAttempts
<1>8. ASSUME NEW t \in Tabs, SetCompleted(t), UNCHANGED <<contentVars, lost>>
       PROVE Attempted(u, q)
  <2>1. (Attempts(u, q))' = Attempts(u, q)
    BY <1>8 DEF SetCompleted, records, Attempts
  <2>2. Submitting(u, q)' \subseteq Submitting(u, q)
    BY <1>8, HandlerMoves DEF Goes, Submitting, records
  <2> QED
    BY <2>1, <2>2, SameAttempts
<1>9. ASSUME NEW t \in Tabs, FindCertificate(t), UNCHANGED <<contentVars, lost>>
       PROVE Attempted(u, q)
  <2>1. (Attempts(u, q))' = Attempts(u, q)
    BY <1>9 DEF FindCertificate, records, Attempts
  <2>2. Submitting(u, q)' \subseteq Submitting(u, q)
    BY <1>9, HandlerMoves DEF Goes, Submitting, records
  <2> QED
    BY <2>1, <2>2, SameAttempts
<1>10. ASSUME NEW t \in Tabs, IssueCertificate(t), UNCHANGED <<contentVars, lost>>
       PROVE Attempted(u, q)
  <2>1. (Attempts(u, q))' = Attempts(u, q)
    BY <1>10 DEF IssueCertificate, records, Attempts
  <2>2. Submitting(u, q)' \subseteq Submitting(u, q)
    BY <1>10, HandlerMoves DEF Goes, Submitting, records
  <2> QED
    BY <2>1, <2>2, SameAttempts
<1>11. ASSUME NEW t \in Tabs, SignCertificate(t), UNCHANGED <<contentVars, lost>>
       PROVE Attempted(u, q)
  <2>1. (Attempts(u, q))' = Attempts(u, q)
    BY <1>11 DEF SignCertificate, records, Attempts
  <2>2. Submitting(u, q)' \subseteq Submitting(u, q)
    BY <1>11, HandlerMoves DEF Goes, Submitting, records
  <2> QED
    BY <2>1, <2>2, SameAttempts
<1>12. ASSUME NEW t \in Tabs, RewardCourse(t), UNCHANGED <<contentVars, lost>>
       PROVE Attempted(u, q)
  <2>1. (Attempts(u, q))' = Attempts(u, q)
    BY <1>12 DEF RewardCourse, records, Attempts
  <2>2. Submitting(u, q)' \subseteq Submitting(u, q)
    BY <1>12, HandlerMoves DEF Closes, Submitting, records
  <2> QED
    BY <2>1, <2>2, SameAttempts
<1>13. ASSUME NEW t \in Tabs, FindReview(t), UNCHANGED <<contentVars, lost>>
       PROVE Attempted(u, q)
  <2>1. (Attempts(u, q))' = Attempts(u, q)
    BY <1>13 DEF FindReview, records, Attempts
  <2>2. Submitting(u, q)' \subseteq Submitting(u, q)
    BY <1>13, HandlerMoves DEF Goes, Closes, Submitting, records
  <2> QED
    BY <2>1, <2>2, SameAttempts
<1>14. ASSUME NEW t \in Tabs, SaveReview(t), UNCHANGED <<contentVars, lost>>
       PROVE Attempted(u, q)
  <2>1. (Attempts(u, q))' = Attempts(u, q)
    BY <1>14 DEF SaveReview, records, Attempts
  <2>2. Submitting(u, q)' \subseteq Submitting(u, q)
    BY <1>14, HandlerMoves DEF Closes, Submitting, records
  <2> QED
    BY <2>1, <2>2, SameAttempts
<1>15. ASSUME NEW t \in Tabs, NEW v \in Users, NEW y \in Ids, CompleteTopic(t, v, y), UNCHANGED <<contentVars, lost>>
       PROVE Attempted(u, q)
  <2>1. (Attempts(u, q))' = Attempts(u, q)
    BY <1>15 DEF CompleteTopic, records, Attempts
  <2>2. Submitting(u, q)' \subseteq Submitting(u, q)
    BY <1>15, AskingMoves DEF Opens, Submitting, records
  <2> QED
    BY <2>1, <2>2, SameAttempts
<1>16. ASSUME NEW t \in Tabs, NEW v \in Users, NEW y \in Ids, StartQuiz(t, v, y), UNCHANGED <<contentVars, lost>>
       PROVE Attempted(u, q)
  <2>1. (Attempts(u, q))' = Attempts(u, q)
    BY <1>16 DEF StartQuiz, records, Attempts
  <2>2. Submitting(u, q)' \subseteq Submitting(u, q)
    BY <1>16, AskingMoves DEF Opens, Submitting, records
  <2> QED
    BY <2>1, <2>2, SameAttempts
<1>17. ASSUME NEW t \in Tabs, NEW v \in Users, NEW y \in Ids, StartAssignment(t, v, y), UNCHANGED <<contentVars, lost>>
       PROVE Attempted(u, q)
  <2>1. (Attempts(u, q))' = Attempts(u, q)
    BY <1>17 DEF StartAssignment, records, Attempts
  <2>2. Submitting(u, q)' \subseteq Submitting(u, q)
    BY <1>17, AskingMoves DEF Opens, Submitting, records
  <2> QED
    BY <2>1, <2>2, SameAttempts
<1>18. ASSUME NEW t \in Tabs, NEW v \in Users, CreateCourseReview(t, v), UNCHANGED <<contentVars, lost>>
       PROVE Attempted(u, q)
  <2>1. (Attempts(u, q))' = Attempts(u, q)
    BY <1>18 DEF CreateCourseReview, records, Attempts
  <2>2. Submitting(u, q)' \subseteq Submitting(u, q)
    BY <1>18, AskingMoves DEF Opens, Submitting, records
  <2> QED
    BY <2>1, <2>2, SameAttempts
<1>19. ASSUME NEW v \in Users, CreateCourseEnrollment(v), UNCHANGED <<contentVars, lost>>
       PROVE Attempted(u, q)
  <2>1. (Attempts(u, q))' = Attempts(u, q)
    BY <1>19 DEF CreateCourseEnrollment, records, Attempts
  <2>2. Submitting(u, q)' \subseteq Submitting(u, q)
    BY <1>19 DEF CreateCourseEnrollment, Submitting, records
  <2> QED
    BY <2>1, <2>2, SameAttempts
<1>20. ASSUME NEW t \in Tabs, NEW v \in Users, NEW p \in Quizzes, NEW pass \in BOOLEAN, AdminReviewQuizSubmission(t, v, p, pass), UNCHANGED <<contentVars, lost>>
       PROVE Attempted(u, q)
  <2>1. (Attempts(u, q))' = Attempts(u, q)
    BY <1>20, Judged DEF AdminReviewQuizSubmission, Attempts, TInv
  <2>2. CASE Opens(t, "sync", v, p)
    <3>1. Submitting(u, q)' \subseteq Submitting(u, q)
      BY <2>2 DEF Opens, Submitting
    <3> QED
      BY <2>1, <3>1, SameAttempts
  <2>3. CASE UNCHANGED tab
    <3>1. Submitting(u, q)' \subseteq Submitting(u, q)
      BY <2>3 DEF Submitting
    <3> QED
      BY <2>1, <3>1, SameAttempts
  <2> QED
    BY <1>20, <2>2, <2>3, AskingMoves
<1>21. ASSUME NEW e \in Editors, NEW v \in Users, NEW y \in Of("assignment"), ReviewAssignmentSubmission(e, v, y), UNCHANGED <<contentVars, lost>>
       PROVE Attempted(u, q)
  <2>1. (Attempts(u, q))' = Attempts(u, q)
    BY <1>21 DEF ReviewAssignmentSubmission, records, Attempts
  <2>2. Submitting(u, q)' \subseteq Submitting(u, q)
    BY <1>21 DEF ReviewAssignmentSubmission, Submitting, records
  <2> QED
    BY <2>1, <2>2, SameAttempts
<1>22. ASSUME Tick, UNCHANGED <<contentVars, lost>>
       PROVE Attempted(u, q)
  <2>1. (Attempts(u, q))' = Attempts(u, q)
    BY <1>22 DEF Tick, records, Attempts
  <2>2. Submitting(u, q)' \subseteq Submitting(u, q)
    BY <1>22 DEF Tick, Submitting, records
  <2> QED
    BY <2>1, <2>2, SameAttempts
<1>23. ASSUME NEW t \in Tabs, GiveUp(t), UNCHANGED contentVars
       PROVE Attempted(u, q)
  <2>1. (Attempts(u, q))' = Attempts(u, q)
    BY <1>23 DEF GiveUp, records, Attempts
  <2>2. Submitting(u, q)' \subseteq Submitting(u, q)
    BY <1>23, HandlerMoves DEF Closes, Submitting, records
  <2> QED
    BY <2>1, <2>2, SameAttempts
<1>24. ASSUME NEW e \in Instructors, NEW v \in Users, NEW p \in Quizzes, NEW pass \in BOOLEAN, ReviewQuizSubmission(e, v, p, pass), UNCHANGED contentVars
       PROVE Attempted(u, q)
  <2>1. (Attempts(u, q))' = Attempts(u, q)
    BY <1>24, Judged DEF ReviewQuizSubmission, Attempts, TInv
  <2>2. Submitting(u, q)' \subseteq Submitting(u, q)
    BY <1>24 DEF ReviewQuizSubmission, Submitting
  <2> QED
    BY <2>1, <2>2, SameAttempts
<1>25. CASE UNCHANGED learnerVars \/ (ContentNext /\ UNCHANGED <<day, records, tab, requests, lost>>)
  <2>1. UNCHANGED <<tab, tries>>
    BY <1>25 DEF learnerVars, records
  <2>2. (Attempts(u, q))' = Attempts(u, q) /\ Submitting(u, q)' \subseteq Submitting(u, q)
    BY <2>1 DEF Attempts, Submitting
  <2> QED
    BY <2>2, SameAttempts
<1> QED
  BY <1>1, <1>2, <1>3, <1>4, <1>5, <1>6, <1>7, <1>8, <1>9, <1>10, <1>11, <1>12, <1>13, <1>14, <1>15, <1>16, <1>17, <1>18, <1>19, <1>20, <1>21, <1>22, <1>23, <1>24, <1>25
  DEF Next, LearnerStep, Handler, Asking, Reviewing, vars

\* While the course stays as it is, a step keeps everybody in order and within the limits.
LEMMA OrderStep ==
  ASSUME TInv, TInv', OInv, Growing, [Next]_vars
  PROVE  OInv'
<1> SUFFICES ASSUME ~shuffled'
             PROVE  (ShapeTyped /\ TabsUnlocked /\ ItemsUnlocked /\ AttemptsCounted)'
  BY DEF OInv
<1>1. CourseKept /\ ShapeTyped /\ TabsUnlocked /\ ItemsUnlocked /\ AttemptsCounted
  BY NotShuffled DEF OInv
<1>2. TimePasses /\ LearnerTypes'
  BY Timely DEF TInv
<1>3. ShapeTyped'
  BY <1>1 DEF CourseKept, ShapeTyped
<1>4. TabsUnlocked'
  <2> SUFFICES ASSUME NEW s \in Tabs, tab'[s].pc \in Working
               PROVE  (Unlocked(tab[s].user, tab[s].item))'
    BY DEF TabsUnlocked, Working
  <2> DEFINE u == tab'[s].user
             x == tab'[s].item
  <2>1. u \in Users
    BY DEF TInv, TabsAimed, Working
  <2>2. Unlocked(u, x)
    <3>1. LetIn(s)
      BY WorkingSince
    <3> QED
      BY <1>1, <3>1 DEF LetIn, TabsUnlocked, Working
  <2> QED
    BY <1>1, <1>2, <2>1, <2>2, UnlockedStays
<1>5. ItemsUnlocked'
  <2> SUFFICES ASSUME NEW u \in Users, NEW x \in Items, (Started(u, x))'
               PROVE  (Unlocked(u, x))'
    <3>1. Items' = Items
      BY <1>1, ItemsKept
    <3> QED
      BY <3>1 DEF ItemsUnlocked, Started
  <2>1. x \in Topics \cup Quizzes
    BY <1>1, ItemsKept
  <2>2. Unlocked(u, x)
    <3>1. Started(u, x) \/ Begun(u, x)
      BY <2>1, StartedBy
    <3> QED
      BY <1>1, <3>1 DEF Started, Begun, Working, ItemsUnlocked, TabsUnlocked
  <2> QED
    BY <1>1, <1>2, <2>2, UnlockedStays
<1>6. AttemptsCounted'
  <2> SUFFICES ASSUME NEW u \in Users, NEW q \in Quizzes \cap Items', rows'[q].data.limit > 0
               PROVE  (Attempts(u, q))' + Cardinality(Submitting(u, q)') < rows'[q].data.limit + Cardinality(Tabs)
    BY DEF AttemptsCounted
  <2>1. q \in Quizzes \cap Items /\ rows'[q] = rows[q]
    BY <1>1, ItemsKept
  <2>2. rows[q].data.limit \in Nat
    <3>1. rows[q] \in RowOf("quiz") /\ rows[q] # None
      BY <1>1, <2>1, Tables DEF ShapeTyped, Items
    <3>2. rows[q].data \in Data("quiz")
      BY <3>1 DEF RowOf
    <3> QED
      BY <3>2, ContentAssumption DEF Data
  <2>3. Attempts(u, q) + Cardinality(Submitting(u, q)) < rows[q].data.limit + Cardinality(Tabs)
    BY <1>1, <2>1 DEF AttemptsCounted
  <2>4. Attempts(u, q) \in Nat /\ (Attempts(u, q))' \in Nat
    <3>1. tries'[u][q].passed \in Nat /\ tries'[u][q].failed \in Nat
      BY <1>2 DEF LearnerTypes
    <3> QED
      BY <3>1, TriesTyped DEF Attempts, TInv
  <2>5. Attempted(u, q)
    BY AttemptsStep
  <2>6. CASE (Attempts(u, q))' = Attempts(u, q) /\ ~LimitReached(u, q)
    <3>1. Attempts(u, q) < rows[q].data.limit
      BY <2>1, <2>2, <2>4, <2>6 DEF LimitReached
    <3> QED
      BY <2>1, <2>2, <2>4, <2>6, <3>1, SubmittingCounted
  <2>7. CASE ~((Attempts(u, q))' = Attempts(u, q) /\ ~LimitReached(u, q))
    BY <2>1, <2>2, <2>3, <2>4, <2>5, <2>7, SubmittingCounted DEF Attempted
  <2> QED
    BY <2>6, <2>7
<1> QED
  BY <1>3, <1>4, <1>5, <1>6

-----------------------------------------------------------------------------
(* The invariant, and what follows from it. *)

LInv == TInv /\ EInv /\ OInv

LEMMA StartsRight == Init => LInv
<1> SUFFICES ASSUME Init PROVE LInv
  OBVIOUS
<1>1. PICK s \in StartContent : ContentInit(s)
  BY DEF Init
<1>2. \A t \in Tabs : tab[t] = Closed
  BY DEF Init
<1>3. TInv
  <2>1. tab \in [Tabs -> TabRow]
    BY ClosedTyped DEF Init
  <2>2. LearnerTypes
    BY DEF Init, LearnerTypes
  <2> QED
    BY <1>2, <2>1, <2>2, ClosedTyped DEF TInv, TabsAimed
<1>4. \A u \in Users : Issuing(u) = {} /\ \A q \in Quizzes : Submitting(u, q) = {}
  BY <1>2, ClosedTyped DEF Issuing, Submitting
<1>5. Cardinality(Tabs) \in Nat /\ Cardinality({}) = 0
  BY LearningAssumption, FS_CardinalityType, FS_EmptySet
<1>6. EInv
  <2>1. TabsKnow
    BY <1>2, ClosedTyped DEF TabsKnow, Knows
  <2>2. IssuesBounded
    <3>1. \A u \in Users : certs[u] = 0 /\ Cardinality(Issuing(u)) = 0
      BY <1>4, <1>5 DEF Init
    <3> QED
      BY <1>5, <3>1 DEF IssuesBounded
  <2>3. CertificateEarned /\ XPTruthful
    BY <1>5 DEF Init, CertificateEarned, XPTruthful
  <2> QED
    BY <2>1, <2>2, <2>3 DEF EInv
<1>7. OInv
  <2>1. ShapeTyped
    BY <1>1, Tables, StartContentAssumption DEF ContentInit, ShapeTyped
  <2>2. TabsUnlocked
    BY <1>2, ClosedTyped DEF TabsUnlocked
  <2>3. \A u \in Users, x \in Quizzes : Attempts(u, x) = 0 /\ tries[u][x].passed = 0
    BY DEF Init, Attempts
  <2>4. ItemsUnlocked
    <3> SUFFICES ASSUME NEW u \in Users, NEW x \in Items PROVE ~Done(u, x) /\ (x \in Quizzes => Attempts(u, x) = 0)
      BY DEF ItemsUnlocked
    <3>1. x \in Topics \cup Quizzes
      BY DEF Items
    <3> QED
      BY <2>3, <3>1, Tables DEF Init, Done
  <2>5. AttemptsCounted
    <3> SUFFICES ASSUME NEW u \in Users, NEW q \in Quizzes \cap Items, rows[q].data.limit > 0
                 PROVE  Attempts(u, q) + Cardinality(Submitting(u, q)) < rows[q].data.limit + Cardinality(Tabs)
      BY DEF AttemptsCounted
    <3>1. rows[q] \in RowOf("quiz")
      BY <2>1, Tables DEF ShapeTyped, Items
    <3>2. rows[q].data \in Data("quiz")
      BY <3>1 DEF RowOf
    <3>3. rows[q].data.limit \in Nat
      BY <3>2, ContentAssumption DEF Data
    <3>4. Attempts(u, q) = 0 /\ Submitting(u, q) = {}
      BY <1>4, <2>3
    <3> QED
      BY <1>5, <3>3, <3>4
  <2> QED
    BY <2>1, <2>2, <2>4, <2>5 DEF OInv
<1> QED
  BY <1>3, <1>6, <1>7 DEF LInv

LEMMA StepsRight == LInv /\ [Next]_vars => LInv'
<1> SUFFICES ASSUME LInv, [Next]_vars PROVE LInv'
  OBVIOUS
<1>1. TInv /\ EInv /\ OInv
  BY DEF LInv
<1>2. LearnerTypes' /\ TInv' /\ certs' \in [Users -> Nat]
  BY <1>1, RecordsStep, AimsStep DEF TInv, LearnerTypes
<1>3. Growing
  BY <1>1, Grows
<1>4. TabsKnow'
  BY <1>1, <1>2, <1>3, KnowStep DEF EInv
<1>5. IssuesBounded'
  BY <1>1, BoundStep DEF EInv
<1>6. CertificateEarned'
  BY <1>1, <1>2, <1>3, <1>5, EarnedStep DEF EInv
<1>7. XPTruthful'
  BY <1>1, <1>2, <1>3, XPStep DEF EInv
<1>8. OInv'
  BY <1>1, <1>2, <1>3, OrderStep
<1> QED
  BY <1>2, <1>4, <1>5, <1>6, <1>7, <1>8 DEF LInv, EInv

\* The inductive invariant of learners' requests: what each has found is still so, and nobody got
\* to an item, an attempt or a certificate without it (Spec's every step, edits included).
THEOREM LearnersInvariant == Spec => []LInv
<1>1. Init => LInv
  BY StartsRight
<1>2. LInv /\ [Next]_vars => LInv'
  BY StepsRight
<1> QED
  BY <1>1, <1>2, PTL DEF Spec

\* Certificates, reviews and completions stand on one another, and at the bottom on a moment
\* at which every item of the course was done (SyncCourseCompletion); requests under way
\* together bound how many certificates one learner may get.
THEOREM CertificatesAreEarned == Spec => []CertificateEarned
<1>1. LInv => CertificateEarned
  BY DEF LInv, EInv
<1> QED
  BY <1>1, LearnersInvariant, PTL

\* The ledger of XP and what was learned agree (AwardXP and its callers).
THEOREM XPIsTruthful == Spec => []XPTruthful
<1>1. LInv => XPTruthful
  BY DEF LInv, EInv
<1> QED
  BY <1>1, LearnersInvariant, PTL

\* Nobody has done an item of a course left as it is without all before it (LearningStateForCourse).
THEOREM CourseIsInOrder == Spec => []InOrder
<1>1. LInv => InOrder
  BY DEF LInv, OInv, ItemsUnlocked, Unlocked, InOrder
<1> QED
  BY <1>1, LearnersInvariant, PTL

\* The limit of attempts is passed by requests under way together and no others (SubmitQuiz).
THEOREM AttemptsAreBounded == Spec => []AttemptsBounded
<1>1. LInv => AttemptsBounded
  <2> SUFFICES ASSUME LInv, ~shuffled, NEW u \in Users, NEW q \in Quizzes \cap Items, rows[q].data.limit > 0
               PROVE  Attempts(u, q) < rows[q].data.limit + Cardinality(Tabs)
    BY DEF AttemptsBounded
  <2>1. ShapeTyped /\ Attempts(u, q) + Cardinality(Submitting(u, q)) < rows[q].data.limit + Cardinality(Tabs)
    BY DEF LInv, OInv, AttemptsCounted
  <2>2. rows[q] \in RowOf("quiz")
    BY <2>1, Tables DEF ShapeTyped, Items
  <2>3. rows[q].data \in Data("quiz")
    BY <2>2 DEF RowOf
  <2>4. rows[q].data.limit \in Nat
    BY <2>3, ContentAssumption DEF Data
  <2>5. Attempts(u, q) \in Nat
    BY TriesTyped DEF LInv, TInv, Attempts
  <2> QED
    BY <2>1, <2>4, <2>5, SubmittingCounted
<1> QED
  BY <1>1, LearnersInvariant, PTL

-----------------------------------------------------------------------------
(* Editing: an instructor's request to remove the course has seen a draft. *)

\* A request is a record of the same fields as Idle.
Shaped(r) == DOMAIN r = {"pc", "op", "kind", "id", "row", "seen", "todo"}
Careful(r) == r.pc = "write" /\ r.op = "remove" => r.seen \in Unpublished

CourseRow == [status: Existing \cup {"none", "gone"}, owner: Instructors \cup {None}]
EditsInv ==
  /\ course \in CourseRow
  /\ edits = [e \in Editors |-> edits[e]]
  /\ \A e \in Instructors : Shaped(edits[e]) /\ Careful(edits[e])

\* Only this editor's request is another one, and the course's row is still one.
Edits(e) ==
  /\ course' \in CourseRow
  /\ edits' = [d \in Editors |-> edits'[d]]
  /\ \A d \in Editors \ {e} : edits'[d] = edits[d]
EditsWell(e) == Edits(e) /\ Shaped(edits'[e]) /\ Careful(edits'[e])

\* The requests there are.
LEMMA Requests ==
  /\ Shaped(Idle) /\ Careful(Idle)
  /\ \A k, r : Shaped(ToInsert(k, r)) /\ Careful(ToInsert(k, r))
  /\ \A x, r : Shaped(ToUpdate(x, r)) /\ Careful(ToUpdate(x, r))
  /\ \A x : Shaped(ToDelete(x)) /\ Careful(ToDelete(x))
  /\ \A pairs : Shaped(ToList("reorder", pairs)) /\ Careful(ToList("reorder", pairs))
  /\ Shaped(ToCourse("course")) /\ Careful(ToCourse("course"))
  /\ Shaped(ToCourse("remove")) /\ (course.status \in Unpublished => Careful(ToCourse("remove")))
<1>1. Shaped(Idle) /\ Careful(Idle)
  BY DEF Shaped, Careful, Idle
<1>2. ASSUME NEW k, NEW r PROVE Shaped(ToInsert(k, r)) /\ Careful(ToInsert(k, r))
  BY DEF Shaped, Careful, Idle, ToInsert
<1>3. ASSUME NEW x, NEW r PROVE Shaped(ToUpdate(x, r)) /\ Careful(ToUpdate(x, r))
  BY DEF Shaped, Careful, Idle, ToUpdate
<1>4. ASSUME NEW x PROVE Shaped(ToDelete(x)) /\ Careful(ToDelete(x))
  BY DEF Shaped, Careful, Idle, ToDelete
<1>5. ASSUME NEW pairs PROVE Shaped(ToList("reorder", pairs)) /\ Careful(ToList("reorder", pairs))
  BY DEF Shaped, Careful, Idle, ToList
<1>6. Shaped(ToCourse("course")) /\ Careful(ToCourse("course"))
  BY DEF Shaped, Careful, Idle, ToCourse
<1>7. Shaped(ToCourse("remove")) /\ (course.status \in Unpublished => Careful(ToCourse("remove")))
  BY DEF Shaped, Careful, Idle, ToCourse
<1> QED
  BY <1>1, <1>2, <1>3, <1>4, <1>5, <1>6, <1>7

\* The ways to write an editor's request.
LEMMA EditsPut ==
  ASSUME EditsInv, NEW e \in Editors, NEW r, edits' = [edits EXCEPT ![e] = r], course' \in CourseRow
  PROVE  Edits(e) /\ edits'[e] = r
<1>1. DOMAIN edits = Editors
  BY DEF EditsInv
<1>2. edits' = [d \in Editors |-> IF d = e THEN r ELSE edits[d]]
  BY <1>1 DEF EditsInv
<1> QED
  BY <1>2 DEF Edits

LEMMA EditsKept ==
  ASSUME EditsInv, NEW e \in Editors, UNCHANGED edits, course' \in CourseRow
  PROVE  Edits(e) /\ (e \in Instructors => EditsWell(e))
BY DEF EditsInv, Edits, EditsWell

LEMMA AskEdits ==
  ASSUME EditsInv, NEW e \in Editors, NEW r, Ask(e, r)
  PROVE  Edits(e) /\ (Shaped(r) /\ Careful(r) => EditsWell(e))
<1>1. edits' = [edits EXCEPT ![e] = r] /\ course' = course
  BY DEF Ask
<1> QED
  BY <1>1, EditsPut DEF EditsInv, EditsWell

LEMMA EndEdits ==
  ASSUME EditsInv, NEW e \in Editors, End(e), course' \in CourseRow
  PROVE  Edits(e) /\ EditsWell(e)
<1>1. edits' = [edits EXCEPT ![e] = Idle]
  BY DEF End
<1> QED
  BY <1>1, EditsPut, Requests DEF EditsWell

\* What an instructor's requests for rows do.
LEMMA RowEdits ==
  ASSUME EditsInv, NEW e \in Instructors, NEW k
  PROVE  /\ CreateFor(e, k) => EditsWell(e)
         /\ UpdateFor(e, k) => EditsWell(e)
         /\ DeleteFor(e, k) => EditsWell(e)
         /\ ReorderFor(e, k) => EditsWell(e)
<1> e \in Editors
  BY DEF Editors
<1>1. CreateFor(e, k) => EditsWell(e)
  BY AskEdits, Requests DEF CreateFor
<1>2. UpdateFor(e, k) => EditsWell(e)
  BY AskEdits, Requests DEF UpdateFor
<1>3. DeleteFor(e, k) => EditsWell(e)
  BY AskEdits, Requests DEF DeleteFor
<1>4. ReorderFor(e, k) => EditsWell(e)
  BY AskEdits, Requests DEF ReorderFor
<1> QED
  BY <1>1, <1>2, <1>3, <1>4

LEMMA InstructorEdits ==
  ASSUME EditsInv, NEW e \in Instructors, InstructorStep(e)
  PROVE  EditsWell(e)
<1> e \in Editors /\ course \in CourseRow /\ Shaped(edits[e])
  BY DEF Editors, EditsInv
<1>1. CASE EditModules(e) \/ EditTopics(e) \/ EditBlocks(e) \/ EditAssignments(e)
  BY <1>1, RowEdits DEF EditModules, EditTopics, EditBlocks, EditAssignments
<1>2. CASE EditQuizzes(e) \/ EditQuestions(e) \/ EditAnswers(e) \/ EditAddons(e)
  BY <1>2, RowEdits DEF EditQuizzes, EditQuestions, EditAnswers, EditAddons
<1>3. CASE CreateCourse(e)
  <2>1. course' \in CourseRow
    BY <1>3 DEF CreateCourse, CourseRow, Existing
  <2> QED
    BY <1>3, <2>1, EditsKept DEF CreateCourse, AtOnce
<1>4. CASE UpdateCourseCheck(e)
  BY <1>4, AskEdits, Requests DEF UpdateCourseCheck
<1>5. CASE DeleteCourseCheck(e)
  BY <1>5, AskEdits, Requests DEF DeleteCourseCheck
<1>6. CASE ReorderCheck(e)
  <2>1. course' \in CourseRow
    BY <1>6 DEF ReorderCheck
  <2>2. CASE End(e)
    BY <2>1, <2>2, EndEdits
  <2>3. ASSUME NEW x, edits' = [edits EXCEPT ![e].pc = "write", ![e].id = x]
        PROVE  EditsWell(e)
    <3> DEFINE r == [edits[e] EXCEPT !.pc = "write", !.id = x]
    <3>1. edits' = [edits EXCEPT ![e] = r]
      BY <2>3 DEF EditsInv
    <3>2. Shaped(r) /\ r.op = edits[e].op
      BY DEF Shaped
    <3>3. Careful(r)
      BY <1>6, <3>2 DEF ReorderCheck, Careful
    <3> QED
      BY <2>1, <3>1, <3>2, <3>3, EditsPut DEF EditsWell
  <2> QED
    BY <1>6, <2>2, <2>3 DEF ReorderCheck
<1>7. CASE ReorderWrite(e)
  <2>1. course' \in CourseRow
    BY <1>7 DEF ReorderWrite, PutRow
  <2>2. PICK t \in edits[e].todo : edits' = [edits EXCEPT ![e].pc = "list", ![e].id = None, ![e].todo = @ \ {t}]
    BY <1>7 DEF ReorderWrite
  <2> DEFINE r == [edits[e] EXCEPT !.pc = "list", !.id = None, !.todo = edits[e].todo \ {t}]
  <2>3. edits' = [edits EXCEPT ![e] = r]
    BY <2>2 DEF EditsInv
  <2>4. Shaped(r) /\ Careful(r)
    BY DEF Shaped, Careful
  <2> QED
    BY <2>1, <2>3, <2>4, EditsPut DEF EditsWell
<1>8. CASE UpdateCourse(e)
  <2>1. course' \in CourseRow
    BY <1>8 DEF UpdateCourse, CourseRow, StatusKept, Existing, Published
  <2> QED
    BY <1>8, <2>1, EndEdits DEF UpdateCourse
<1>9. CASE DeleteCourse(e)
  <2>1. course' \in CourseRow
    BY <1>9 DEF DeleteCourse, CourseRow
  <2> QED
    BY <1>9, <2>1, EndEdits DEF DeleteCourse
<1>10. CASE InsertRow(e) \/ UpdateRow(e) \/ RemoveRow(e) \/ GiveUpEdit(e)
  <2>1. course' \in CourseRow
    BY <1>10 DEF InsertRow, UpdateRow, RemoveRow, GiveUpEdit, PutRow
  <2> QED
    BY <1>10, <2>1, EndEdits DEF InsertRow, UpdateRow, RemoveRow, GiveUpEdit
<1> QED
  BY <1>1, <1>2, <1>3, <1>4, <1>5, <1>6, <1>7, <1>8, <1>9, <1>10 DEF InstructorStep

\* What an admin's requests for rows do.
LEMMA AdminRowEdits ==
  ASSUME EditsInv, NEW a \in Admins, NEW k
  PROVE  /\ AdminCreate(a, k) => Edits(a)
         /\ AdminUpdate(a, k) => Edits(a)
         /\ AdminDelete(a, k) => Edits(a)
         /\ AdminReorder(a, k) => Edits(a)
<1> a \in Editors /\ course \in CourseRow
  BY DEF Editors, EditsInv
<1>0. ASSUME AtOnce(a), UNCHANGED course PROVE Edits(a)
  BY <1>0, EditsKept DEF AtOnce
<1>1. AdminCreate(a, k) => Edits(a)
  BY <1>0, AskEdits DEF AdminCreate, PutRow
<1>2. AdminUpdate(a, k) => Edits(a)
  BY <1>0 DEF AdminUpdate, PutRow
<1>3. AdminDelete(a, k) => Edits(a)
  BY <1>0 DEF AdminDelete, PutRow
<1>4. AdminReorder(a, k) => Edits(a)
  BY AskEdits DEF AdminReorder
<1> QED
  BY <1>1, <1>2, <1>3, <1>4

LEMMA AdminEdits ==
  ASSUME EditsInv, NEW a \in Admins, AdminStep(a)
  PROVE  Edits(a)
<1> a \in Editors /\ course \in CourseRow
  BY DEF Editors, EditsInv
<1>1. CASE AdminModules(a) \/ AdminTopics(a) \/ AdminAttachments(a) \/ AdminAssignments(a)
  BY <1>1, AdminRowEdits DEF AdminModules, AdminTopics, AdminAttachments, AdminAssignments
<1>2. CASE AdminBlocks(a) \/ AdminQuizzes(a) \/ AdminQuestions(a)
  BY <1>2, AdminRowEdits DEF AdminBlocks, AdminQuizzes, AdminQuestions
<1>3. CASE AdminAddons(a) \/ UpdateModuleQuiz(a) \/ UpdateCourseDripSchedules(a) \/ SaveCourseCheck(a)
  BY <1>3, AdminRowEdits, AskEdits
  DEF AdminAddons, UpdateModuleQuiz, UpdateCourseDripSchedules, SaveCourseCheck
<1>4. CASE AdminDeleteCourse(a)
  <2>1. course' \in CourseRow
    BY <1>4 DEF AdminDeleteCourse, CourseRow
  <2> QED
    BY <1>4, <2>1, EditsKept DEF AdminDeleteCourse, AtOnce
<1>5. CASE AdminReorderStep(a) \/ DripDelete(a) \/ DripInsert(a)
  <2>1. course' \in CourseRow
    BY <1>5 DEF AdminReorderStep, DripDelete, DripInsert, PutRow
  <2>2. \E r : edits' = [edits EXCEPT ![a] = r]
    BY <1>5 DEF AdminReorderStep, DripDelete, DripInsert, EditsInv
  <2> QED
    BY <2>1, <2>2, EditsPut
<1>6. CASE SaveCourse(a)
  <2>1. course' \in CourseRow
    BY <1>6 DEF SaveCourse, CourseRow
  <2> QED
    BY <1>6, <2>1, EditsKept, EndEdits DEF SaveCourse, AtOnce
<1>7. CASE InsertRow(a) \/ UpdateRow(a) \/ GiveUpEdit(a)
  <2>1. course' \in CourseRow
    BY <1>7 DEF InsertRow, UpdateRow, GiveUpEdit, PutRow
  <2> QED
    BY <1>7, <2>1, EndEdits DEF InsertRow, UpdateRow, GiveUpEdit
<1> QED
  BY <1>1, <1>2, <1>3, <1>4, <1>5, <1>6, <1>7 DEF AdminStep

LEMMA EditsStep == EditsInv /\ [Next]_vars => EditsInv'
<1> SUFFICES ASSUME EditsInv, [Next]_vars PROVE EditsInv'
  OBVIOUS
<1>1. ASSUME NEW e \in Instructors, InstructorStep(e) PROVE EditsInv'
  BY <1>1, InstructorEdits DEF EditsInv, EditsWell, Edits, Editors
<1>2. ASSUME NEW a \in Admins, AdminStep(a) PROVE EditsInv'
  BY <1>2, AdminEdits, ContentAssumption DEF EditsInv, Edits, Editors
<1>3. CASE UNCHANGED contentVars
  BY <1>3 DEF EditsInv, contentVars
<1> QED
  BY <1>1, <1>2, <1>3 DEF Next, ContentNext, vars

\* Whatever is edited, the course's row is one of its kind, and an instructor about to remove
\* the course has read that it was not published (DeleteCourse's first query).
THEOREM EditsInvariant == Spec => []EditsInv
<1>1. Init => EditsInv
  <2> SUFFICES ASSUME Init PROVE EditsInv
    OBVIOUS
  <2>1. PICK s \in StartContent : ContentInit(s)
    BY DEF Init
  <2>2. course \in CourseRow /\ edits = [e \in Editors |-> Idle]
    BY <2>1, StartContentAssumption DEF ContentInit, CourseRow
  <2> QED
    BY <2>2, Requests DEF EditsInv, Editors
<1> QED
  BY <1>1, EditsStep, PTL DEF Spec

\* One instructor's step that writes the course.
Publishes(e) ==
  edits'[e] # edits[e] /\ course' # course =>
    /\ course'.owner = course.owner
    /\ IF edits[e].seen \in Published THEN course'.status = edits[e].seen
       ELSE course'.status \notin Published

LEMMA OwnSteps ==
  ASSUME EditsInv, NEW e \in Instructors, InstructorStep(e), course' # course, edits' # edits
  PROVE  UpdateCourse(e) \/ DeleteCourse(e)
<1>1. \A k : ~CreateFor(e, k) /\ ~UpdateFor(e, k) /\ ~DeleteFor(e, k) /\ ~ReorderFor(e, k)
  BY DEF CreateFor, UpdateFor, DeleteFor, ReorderFor, Ask
<1>2. ~(EditModules(e) \/ EditTopics(e) \/ EditBlocks(e) \/ EditAssignments(e)
        \/ EditQuizzes(e) \/ EditQuestions(e) \/ EditAnswers(e) \/ EditAddons(e))
  BY <1>1 DEF EditModules, EditTopics, EditBlocks, EditAssignments,
              EditQuizzes, EditQuestions, EditAnswers, EditAddons
<1>3. ~CreateCourse(e) /\ ~UpdateCourseCheck(e) /\ ~DeleteCourseCheck(e)
  BY DEF CreateCourse, UpdateCourseCheck, DeleteCourseCheck, AtOnce, Ask
<1>4. ~ReorderCheck(e) /\ ~ReorderWrite(e)
  BY DEF ReorderCheck, ReorderWrite, PutRow
<1>5. ~InsertRow(e) /\ ~UpdateRow(e) /\ ~RemoveRow(e) /\ ~GiveUpEdit(e)
  BY DEF InsertRow, UpdateRow, RemoveRow, GiveUpEdit, PutRow
<1> QED
  BY <1>2, <1>3, <1>4, <1>5 DEF InstructorStep

LEMMA PublishingStep == EditsInv /\ [Next]_vars => \A e \in Instructors : Publishes(e)
<1> SUFFICES ASSUME EditsInv, [Next]_vars, NEW e \in Instructors PROVE Publishes(e)
  OBVIOUS
<1> e \in Editors /\ course \in CourseRow
  BY DEF Editors, EditsInv
<1>1. ASSUME InstructorStep(e), edits'[e] # edits[e], course' # course
      PROVE  Publishes(e)
  <2>1. CASE UpdateCourse(e)
    <3>1. PICK s \in Unpublished : course' = [course EXCEPT !.status = StatusKept(edits[e].seen, s)]
      BY <1>1, <2>1 DEF UpdateCourse
    <3>2. course'.owner = course.owner /\ course'.status = StatusKept(edits[e].seen, s)
      BY <3>1 DEF CourseRow
    <3> QED
      BY <3>2 DEF Publishes, StatusKept, Published, Unpublished
  <2>2. CASE DeleteCourse(e)
    <3>1. course'.owner = course.owner /\ course'.status = "gone"
      BY <2>2 DEF DeleteCourse, CourseRow
    <3>2. edits[e].seen \in Unpublished
      BY <2>2 DEF DeleteCourse, Writing, EditsInv, Careful
    <3> QED
      BY <3>1, <3>2 DEF Publishes, Published, Unpublished
  <2> QED
    BY <1>1, <2>1, <2>2, OwnSteps
<1>2. ASSUME NEW d \in Instructors, InstructorStep(d), d # e PROVE Publishes(e)
  BY <1>2, InstructorEdits DEF EditsWell, Edits, Publishes
<1>3. ASSUME NEW a \in Admins, AdminStep(a) PROVE Publishes(e)
  BY <1>3, AdminEdits, ContentAssumption DEF Edits, Publishes
<1>4. CASE UNCHANGED contentVars
  BY <1>4 DEF Publishes, contentVars
<1> QED
  BY <1>1, <1>2, <1>3, <1>4 DEF Next, ContentNext, vars, Publishes

\* No request of an instructor publishes a course or takes a published one away, but by what
\* it had read of it (instructor.go's UpdateCourse and DeleteCourse).
THEOREM PublishingIsTheAdmins == Spec => PublishingIsAdmins
<1>1. EditsInv /\ [Next]_vars =>
        [\A e \in Instructors :
           edits'[e] # edits[e] /\ course' # course =>
             /\ course'.owner = course.owner
             /\ IF edits[e].seen \in Published THEN course'.status = edits[e].seen
                ELSE course'.status \notin Published]_contentVars
  BY PublishingStep DEF Publishes
<1> QED
  BY <1>1, EditsInvariant, PTL DEF Spec, PublishingIsAdmins
===============================================================================

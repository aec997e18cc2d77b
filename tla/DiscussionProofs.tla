----------------------------- MODULE DiscussionProofs -----------------------------
(***************************************************************************)
(* Theorems about Discussion, for any number of users, threads, messages,  *)
(* requests and awards: posts are whole, no unread message is missed, and  *)
(* badges agree with the ledger.                                           *)
(***************************************************************************)
EXTENDS Discussion, FiniteSetTheorems, WellFoundedInduction, TLAPS

-----------------------------------------------------------------------------
(* The invariant. *)

TypeInv ==
  /\ teacher \in Teachers \cup {None}
  /\ thread \in [Threads -> CourseConversation \cup {None}]
  /\ message \in [Messages -> CourseMessage \cup {None}]
  /\ notices \subseteq Notification
  /\ job \in [Handlers -> Request \cup {None}]
  /\ loaded \in [Threads -> [Sides -> SUBSET Messages]]
  /\ cut \subseteq Threads \X Sides
  /\ ledger \subseteq Students \X References
  /\ badges \subseteq Students \X Badges
  /\ clerk \in [Clerks -> Award \cup {None}]

\* What a request was authorized for stays so: its thread exists and is the
\* student's, or somebody else's if it came from the staff; only a student's
\* new conversation has none yet.
Authorized(j) ==
  /\ j.thread = None => j.pc = "post" /\ j.side = "student"
  /\ j.thread # None => thread[j.thread] # None
                        /\ (j.side = "student" <=> thread[j.thread].student = j.user)
  /\ j.side = "student" => j.user \in Students

\* Who is told of a message: never its author, and of a staff's message the student.
Addressed(j) ==
  j.pc = "post" => IF j.side = "student" THEN j.user \notin j.to
                   ELSE j.to = {thread[j.thread].student}

RequestsInv == \A h \in Handlers : job[h] # None => Authorized(job[h]) /\ Addressed(job[h])
ClerksInv == \A k \in Clerks : clerk[k] # None => clerk[k].ref \in Gatherings \cup Files
MessagesInv == \A m \in Messages : message[m] # None => thread[message[m].thread] # None

IInv == TypeInv /\ RequestsInv /\ ClerksInv /\ MessagesInv

-----------------------------------------------------------------------------
(* Lemmas about the operators. *)

\* A set of numbers that is not empty has a first one.
LEMMA FirstIn ==
  ASSUME NEW S \in SUBSET Nat, S # {}
  PROVE  First(S) \in S
<1>1. PICK n \in S : \A k \in S : <<k, n>> \notin OpToRel(<, Nat)
  BY WFMin, NatLessThanWellFounded, Zenon
<1>2. ASSUME NEW k \in S PROVE n <= k
  <2>1. ~(k < n)
    <3> SUFFICES ASSUME k < n PROVE FALSE
      OBVIOUS
    <3>1. <<k, n>> \in OpToRel(<, Nat)
      BY Zenon DEF OpToRel
    <3> QED
      BY <1>1, <3>1
  <2> QED
    BY <2>1
<1> QED
  BY <1>2 DEF First

\* Each row that is there has its type.
LEMMA RowTypes ==
  ASSUME TypeInv
  PROVE  /\ \A t \in Threads : thread[t] # None => thread[t] \in CourseConversation
         /\ \A m \in Messages : message[m] # None => message[m] \in CourseMessage
         /\ \A h \in Handlers : job[h] # None => job[h] \in Request
         /\ \A k \in Clerks : clerk[k] # None => clerk[k] \in Award
BY DEF TypeInv

\* A set of messages is finite.
LEMMA FiniteMessages ==
  ASSUME NEW S \in SUBSET Messages
  PROVE  IsFiniteSet(S) /\ Cardinality(S) \in Nat
BY RewardsAssumption, FS_Subset, FS_CardinalityType

\* The other side of a thread.
LEMMA OtherSide ==
  ASSUME NEW side \in Sides
  PROVE  Other(side) \in Sides /\ Other(side) # side /\ Other(Other(side)) = side
BY DEF Other, Sides

\* A request that a handler takes up, or finishes, leaves the others alone.
LEMMA JobSet ==
  ASSUME TypeInv, NEW h \in Handlers, NEW r \in Request \cup {None},
         job' = [job EXCEPT ![h] = r]
  PROVE  /\ job' \in [Handlers -> Request \cup {None}]
         /\ job'[h] = r
         /\ \A g \in Handlers : g # h => job'[g] = job[g]
BY DEF TypeInv

\* The rows of a student in the ledger, and his badges, are what a snapshot reads.
LEMMA SnapshotType ==
  ASSUME TypeInv, NEW u \in Users, NEW side \in Sides, NEW t \in Threads \cup {None},
         side = "student" => u \in Students,
         side = "staff" => t # None /\ thread[t] # None
  PROVE  Snapshot(u, side, t) \in Request
<1>1. (IF side = "student" THEN RowsOf(u, ledger) ELSE {}) \in SUBSET (Students \X References)
  BY DEF RowsOf, TypeInv
<1>2. (IF side = "student" THEN BadgesOf(u) ELSE {}) \in SUBSET Badges
  BY DEF BadgesOf
<1>3. (IF side = "student" THEN StaffFor(u) ELSE {thread[t].student}) \in SUBSET Users
  <2>1. CASE side = "student"
    BY <2>1 DEF StaffFor, Users, TypeInv
  <2>2. CASE side = "staff"
    <3>1. thread[t] \in CourseConversation
      BY <2>2, RowTypes
    <3>2. thread[t].student \in Students
      BY <3>1 DEF CourseConversation
    <3> QED
      BY <2>2, <3>2 DEF Users
  <2> QED
    BY <2>1, <2>2 DEF Sides
<1> QED
  BY <1>1, <1>2, <1>3 DEF Snapshot, Request

\* What the rules let a request ask for.
Asks(h) ==
  \E u \in Users :
    \/ u \in Students /\ CreateConversation(h, u)
    \/ \E t \in Threads, what \in {"messages", "reply", "status"} : Authorize(h, u, t, what)

\* Each site lets its users ask no more.
LEMMA RequestsAsk ==
  ASSUME NEW h \in Handlers, NEW u \in Users,
         DashboardRequest(h, u) \/ InstructorRequest(h, u) \/ AdminRequest(h, u)
  PROVE  Asks(h)
BY DEF DashboardRequest, InstructorRequest, AdminRequest, Asks

\* An authorized request: of the student whose thread it is, or of the staff.
LEMMA AuthorizedRequest ==
  ASSUME IInv, NEW h \in Handlers, NEW u \in Users, NEW t \in Threads,
         NEW what \in {"messages", "reply", "status"}, Authorize(h, u, t, what)
  PROVE  \E r \in Request :
           /\ job' = [job EXCEPT ![h] = r]
           /\ r.pc = what /\ r.thread = t
           /\ Authorized(r) /\ Addressed(r)
<1> DEFINE r == [pc |-> what, user |-> u, side |-> SideOf(u, t), thread |-> t,
                 seen |-> {}, held |-> {}, to |-> {}]
<1>1. job' = [job EXCEPT ![h] = r] /\ thread[t] # None /\ SideOf(u, t) # None
  BY DEF Authorize
<1>2. SideOf(u, t) \in Sides /\ (SideOf(u, t) = "student" <=> thread[t].student = u)
  BY <1>1 DEF SideOf, Sides
<1>3. r \in Request
  BY <1>2 DEF Request
<1>4. thread[t] \in CourseConversation
  BY <1>1, RowTypes DEF IInv
<1>5. SideOf(u, t) = "student" => u \in Students
  BY <1>2, <1>4 DEF CourseConversation
<1>6. t # None
  BY DiscussionAssumption
<1>7. Authorized(r) /\ Addressed(r)
  BY <1>1, <1>2, <1>5, <1>6 DEF Authorized, Addressed
<1> QED
  BY <1>1, <1>3, <1>7

\* A post is addressed when its transaction begins.
LEMMA SnapshotRequest ==
  ASSUME IInv, NEW u \in Users, NEW side \in Sides, NEW t \in Threads \cup {None},
         side = "student" => u \in Students,
         t = None => side = "student",
         t # None => thread[t] # None /\ (side = "student" <=> thread[t].student = u)
  PROVE  /\ Snapshot(u, side, t) \in Request
         /\ Snapshot(u, side, t).pc = "post"
         /\ Authorized(Snapshot(u, side, t)) /\ Addressed(Snapshot(u, side, t))
<1>1. side = "staff" => t # None /\ thread[t] # None
  OBVIOUS
<1>2. Snapshot(u, side, t) \in Request
  BY <1>1, SnapshotType DEF IInv
<1> DEFINE s == Snapshot(u, side, t)
<1>3. /\ s.pc = "post" /\ s.user = u /\ s.side = side /\ s.thread = t
      /\ s.to = IF side = "student" THEN StaffFor(u) ELSE {thread[t].student}
  BY DEF Snapshot
<1> HIDE DEF s
<1>4. Authorized(s)
  BY <1>3 DEF Authorized
<1>5. Addressed(s)
  BY <1>3 DEF Addressed, StaffFor
<1> QED
  BY <1>2, <1>3, <1>4, <1>5 DEF s

\* A step that keeps a thread's row and its student keeps what holds of requests.
LEMMA KeepsAuthorized ==
  ASSUME NEW j \in Request, Authorized(j), Addressed(j),
         \A t \in Threads : thread[t] # None =>
           thread'[t] # None /\ thread'[t].student = thread[t].student
  PROVE  Authorized(j)' /\ Addressed(j)'
<1>1. j.thread \in Threads \cup {None} /\ j.side \in Sides
  BY DEF Request
<1>2. Authorized(j)'
  BY <1>1 DEF Authorized
<1>3. Addressed(j)'
  BY <1>1 DEF Addressed, Authorized, Sides
<1> QED
  BY <1>2, <1>3

\* A side's counter in a thread becomes n.
Recounted(t, side, n) == thread' = [thread EXCEPT ![t].unread[side] = n]

\* The row of that thread then, and of the others.
LEMMA CounterEdit ==
  ASSUME TypeInv, NEW t \in Threads, thread[t] # None, NEW side \in Sides, NEW n \in Nat,
         Recounted(t, side, n)
  PROVE  /\ thread' \in [Threads -> CourseConversation \cup {None}]
         /\ thread'[t] # None /\ thread'[t].student = thread[t].student
         /\ thread'[t].unread[side] = n
         /\ \A s \in Sides : s # side => thread'[t].unread[s] = thread[t].unread[s]
         /\ \A s \in Threads : s # t => thread'[s] = thread[s]
<1> DEFINE row == thread[t]
           one == [row EXCEPT !.unread[side] = n]
<1>1. row \in CourseConversation
  BY RowTypes
<1>2. one \in CourseConversation /\ one.student = row.student
      /\ one.unread[side] = n
      /\ \A s \in Sides : s # side => one.unread[s] = row.unread[s]
  BY <1>1 DEF CourseConversation
<1>3. thread' = [thread EXCEPT ![t] = one] /\ one # None
  BY <1>2, DiscussionAssumption DEF Recounted
<1> HIDE DEF row, one
<1>4. thread \in [Threads -> CourseConversation \cup {None}]
  BY DEF TypeInv
<1>5. /\ thread' \in [Threads -> CourseConversation \cup {None}] /\ thread'[t] = one
      /\ \A s \in Threads : s # t => thread'[s] = thread[s]
  BY <1>2, <1>3, <1>4
<1> QED
  BY <1>2, <1>3, <1>5 DEF row

\* The row of a thread after its status changed.
LEMMA StatusEdit ==
  ASSUME TypeInv, NEW t \in Threads, thread[t] # None, NEW status \in Statuses,
         thread' = [thread EXCEPT ![t].status = status]
  PROVE  /\ thread' \in [Threads -> CourseConversation \cup {None}]
         /\ thread'[t] # None /\ thread'[t].student = thread[t].student /\ thread'[t].unread = thread[t].unread
         /\ \A s \in Threads : s # t => thread'[s] = thread[s]
<1> DEFINE row == thread[t]
           two == [row EXCEPT !.status = status]
<1>1. row \in CourseConversation
  BY RowTypes
<1>2. two \in CourseConversation /\ two.student = row.student /\ two.unread = row.unread
  BY <1>1 DEF CourseConversation
<1>3. thread' = [thread EXCEPT ![t] = two] /\ two # None
  BY <1>2, DiscussionAssumption
<1> HIDE DEF row, two
<1>4. thread \in [Threads -> CourseConversation \cup {None}]
  BY DEF TypeInv
<1>5. /\ thread' \in [Threads -> CourseConversation \cup {None}] /\ thread'[t] = two
      /\ \A s \in Threads : s # t => thread'[s] = thread[s]
  BY <1>2, <1>3, <1>4
<1> QED
  BY <1>2, <1>3, <1>5 DEF row

-----------------------------------------------------------------------------
(* The step that posts. *)

\* What a post does, with the message m in the thread t.
Posted(h, m, t) ==
  /\ job[h] \in Request /\ job[h].pc = "post" /\ Authorized(job[h]) /\ Addressed(job[h])
  /\ message[m] = None
  /\ message' = [message EXCEPT ![m] = [thread |-> t, author |-> job[h].user, side |-> job[h].side]]
  /\ \/ /\ job[h].thread = None /\ thread[t] = None
        /\ thread' = [thread EXCEPT ![t] = NewThread(job[h].user)]
     \/ /\ job[h].thread = t /\ thread[t] # None
        /\ thread' = [thread EXCEPT ![t].unread[Other(job[h].side)] =
                        thread[t].unread[Other(job[h].side)] + 1]
  /\ notices' = notices \cup [to: job[h].to, about: {m}, read: {FALSE}]
  /\ \/ job[h].side = "staff" /\ ledger' = ledger /\ badges' = badges
     \/ /\ job[h].side = "student" /\ ledger' = ledger \cup {<<job[h].user, m>>}
        /\ badges' = badges \cup ({job[h].user} \X Given(job[h], m))
  /\ clerk' = clerk /\ job' = [job EXCEPT ![h] = None]
  /\ UNCHANGED <<teacher, loaded, cut>>

\* And it does that.
LEMMA PostPosts ==
  ASSUME IInv, NEW h \in Handlers, Post(h)
  PROVE  \E m \in Messages, t \in Threads : Posted(h, m, t)
<1> DEFINE j == job[h]
           m == First(Unused(message))
           t == IF j.thread = None THEN First(Unused(thread)) ELSE j.thread
<1>1. j # None /\ j.pc = "post"
  BY DEF Post, JobAt
<1>2. j \in Request /\ Authorized(j) /\ Addressed(j)
  BY <1>1, RowTypes DEF IInv, RequestsInv
<1>3. m \in Messages /\ message[m] = None
  <2>1. Unused(message) # {}
    BY DEF Post
  <2>2. Unused(message) \in SUBSET Messages
    BY DEF Unused, IInv, TypeInv
  <2>3. m \in Unused(message)
    BY <2>1, <2>2, FirstIn, RewardsAssumption
  <2> QED
    BY <2>2, <2>3 DEF Unused
<1>4. CASE j.thread = None
  <2>1. Unused(thread) # {}
    BY <1>4 DEF Post
  <2>2. Unused(thread) \in SUBSET Threads
    BY DEF Unused, IInv, TypeInv
  <2>3. First(Unused(thread)) \in Unused(thread)
    BY <2>1, <2>2, FirstIn, DiscussionAssumption
  <2>4. t \in Threads /\ thread[t] = None
    BY <1>4, <2>2, <2>3 DEF Unused
  <2>5. thread' = [thread EXCEPT ![t] = NewThread(j.user)]
    BY <1>4 DEF Post, Counted
  <2> QED
    BY <1>1, <1>2, <1>3, <1>4, <2>4, <2>5 DEF Post, Posted, Reward, Finish, rewards, Authorized
<1>5. CASE j.thread # None
  <2>1. t = j.thread /\ t \in Threads /\ thread[t] # None
    BY <1>2, <1>5 DEF Request, Authorized
  <2>2. thread' = [thread EXCEPT ![t].unread[Other(j.side)] = thread[t].unread[Other(j.side)] + 1]
    <3>1. thread' = Counted(j, t)
      BY DEF Post
    <3> QED
      BY <1>5, <3>1, <2>1 DEF Counted
  <2>3. \/ j.side = "staff" /\ UNCHANGED rewards
        \/ /\ j.side = "student" /\ ledger' = ledger \cup {<<j.user, m>>}
           /\ badges' = badges \cup ({j.user} \X Given(j, m)) /\ clerk' = clerk
    BY <1>2 DEF Post, Reward, Request, Sides
  <2>4. /\ message' = [message EXCEPT ![m] = [thread |-> t, author |-> j.user, side |-> j.side]]
        /\ notices' = notices \cup [to: j.to, about: {m}, read: {FALSE}]
        /\ job' = [job EXCEPT ![h] = None]
        /\ UNCHANGED <<teacher, loaded, cut>>
    BY DEF Post, Finish
  <2> QED
    BY <1>1, <1>2, <1>3, <2>1, <2>2, <2>3, <2>4 DEF Posted, rewards
<1> QED
  BY <1>4, <1>5

\* After it: the thread is there and is the student's it was; the message is there.
LEMMA PostedRows ==
  ASSUME IInv, NEW h \in Handlers, NEW m \in Messages, NEW t \in Threads, Posted(h, m, t)
  PROVE  /\ thread' \in [Threads -> CourseConversation \cup {None}]
         /\ thread'[t] # None
         /\ \A s \in Threads : s # t => thread'[s] = thread[s]
         /\ \A s \in Threads : thread[s] # None =>
              thread'[s] # None /\ thread'[s].student = thread[s].student
         /\ message' \in [Messages -> CourseMessage \cup {None}]
         /\ message'[m] = [thread |-> t, author |-> job[h].user, side |-> job[h].side]
         /\ message'[m] # None
         /\ \A k \in Messages : k # m => message'[k] = message[k]
         /\ job[h].side = "student" => thread'[t].student = job[h].user
         /\ job[h].side = "staff" => thread'[t].student # job[h].user
<1> DEFINE j == job[h]
<1>0. TypeInv /\ j \in Request /\ Authorized(j)
  BY DEF IInv, Posted
<1>a. thread \in [Threads -> CourseConversation \cup {None}]
      /\ message \in [Messages -> CourseMessage \cup {None}]
  BY <1>0 DEF TypeInv
<1>1. /\ message' \in [Messages -> CourseMessage \cup {None}]
      /\ message'[m] = [thread |-> t, author |-> j.user, side |-> j.side]
      /\ message'[m] # None
      /\ \A k \in Messages : k # m => message'[k] = message[k]
  <2> DEFINE row == [thread |-> t, author |-> j.user, side |-> j.side]
  <2>1. row \in CourseMessage
    BY <1>0 DEF Request, CourseMessage
  <2>2. row # None
    BY <2>1, DiscussionAssumption
  <2>3. message' = [message EXCEPT ![m] = row]
    BY DEF Posted
  <2> HIDE DEF row
  <2>4. message' \in [Messages -> CourseMessage \cup {None}] /\ message'[m] = row
        /\ \A k \in Messages : k # m => message'[k] = message[k]
    BY <1>a, <2>1, <2>3
  <2> QED
    BY <2>2, <2>4 DEF row
<1>2. CASE /\ j.thread = None /\ thread[t] = None
           /\ thread' = [thread EXCEPT ![t] = NewThread(j.user)]
  <2>1. j.user \in Students /\ j.side = "student"
    BY <1>0, <1>2 DEF Authorized
  <2>2. NewThread(j.user) \in CourseConversation /\ NewThread(j.user).student = j.user
    BY <2>1 DEF NewThread, CourseConversation, Statuses, Sides
  <2>3. NewThread(j.user) # None
    BY <2>2, DiscussionAssumption
  <2>4. thread' \in [Threads -> CourseConversation \cup {None}] /\ thread'[t] = NewThread(j.user)
        /\ \A s \in Threads : s # t => thread'[s] = thread[s]
    BY <1>2, <1>a, <2>2
  <2> QED
    BY <1>1, <1>2, <2>1, <2>2, <2>3, <2>4
<1>3. CASE /\ j.thread = t /\ thread[t] # None
           /\ thread' = [thread EXCEPT ![t].unread[Other(j.side)] =
                           thread[t].unread[Other(j.side)] + 1]
  <2>0. thread[t] # None
    BY <1>3
  <2>1. Other(j.side) \in Sides
    BY <1>0, OtherSide DEF Request
  <2>2. thread[t] \in CourseConversation
    BY <1>0, <1>3, RowTypes
  <2>3. thread[t].unread[Other(j.side)] + 1 \in Nat
    BY <2>1, <2>2 DEF CourseConversation
  <2>4. PICK side \in Sides, n \in Nat : Recounted(t, side, n)
    BY <1>3, <2>1, <2>3 DEF Recounted
  <2>5. /\ thread' \in [Threads -> CourseConversation \cup {None}]
        /\ thread'[t] # None /\ thread'[t].student = thread[t].student
        /\ \A s \in Threads : s # t => thread'[s] = thread[s]
    BY <1>0, <2>0, <2>4, CounterEdit
  <2>6. t # None
    BY DiscussionAssumption
  <2>7. j.side = "student" <=> thread[t].student = j.user
    BY <1>0, <1>3, <2>6 DEF Authorized
  <2>8. j.side = "staff" => j.side # "student"
    OBVIOUS
  <2> QED
    BY <1>1, <2>5, <2>7, <2>8
<1> QED
  BY <1>2, <1>3 DEF Posted

-----------------------------------------------------------------------------
(* The steps that award outside a transaction. *)

\* A request's next record, put in its place.
LEMMA ClerkSet ==
  ASSUME TypeInv, ClerksInv, NEW k \in Clerks, NEW r \in Award \cup {None},
         clerk' = [clerk EXCEPT ![k] = r], r # None => r.ref \in Gatherings \cup Files
  PROVE  clerk' \in [Clerks -> Award \cup {None}] /\ ClerksInv'
<1>1. clerk \in [Clerks -> Award \cup {None}]
  BY DEF TypeInv
<1>2. clerk' \in [Clerks -> Award \cup {None}]
  BY <1>1
<1>3. \A i \in Clerks : clerk'[i] = IF i = k THEN r ELSE clerk[i]
  BY <1>1
<1>4. ClerksInv'
  BY <1>3 DEF ClerksInv
<1> QED
  BY <1>2, <1>4

\* They give no award for a message and take none back.
LEMMA AwardsKeep ==
  ASSUME TypeInv, ClerksInv, AwardStep
  PROVE  /\ ledger' \subseteq Students \X References
         /\ badges' \subseteq Students \X Badges
         /\ clerk' \in [Clerks -> Award \cup {None}]
         /\ ClerksInv'
         /\ ledger \subseteq ledger'
         /\ \A u \in Users, m \in Messages : <<u, m>> \in ledger' => <<u, m>> \in ledger
<1> PICK k \in Clerks :
      \/ \E u \in Students : \/ \E e \in Gatherings : AttendEvent(k, u, e)
                             \/ \E f \in Files : DownloadProductFile(k, u, f)
      \/ AwardXP(k) \/ SyncUserAchievements(k) \/ AbandonAward(k)
      \/ \E b \in Badges : UnlockBadge(k, b)
  BY DEF AwardStep
<1>1. ledger \subseteq Students \X References /\ badges \subseteq Students \X Badges
  BY DEF TypeInv
<1>2. clerk[k] # None =>
        /\ clerk[k] \in Award /\ clerk[k].ref \in Gatherings \cup Files
        /\ clerk[k].user \in Students
  BY RowTypes DEF ClerksInv, Award
<1>3. None \in Award \cup {None}
  OBVIOUS
<1>4. ASSUME NEW u \in Students, NEW ref \in Gatherings \cup Files, clerk' = Begin(k, u, ref)
      PROVE  clerk' \in [Clerks -> Award \cup {None}] /\ ClerksInv'
  <2> DEFINE r == [pc |-> "award", user |-> u, ref |-> ref, todo |-> {}]
  <2>1. r \in Award
    BY DEF Award, References
  <2>2. clerk' = [clerk EXCEPT ![k] = r] /\ r.ref \in Gatherings \cup Files
    BY <1>4 DEF Begin
  <2> HIDE DEF r
  <2> QED
    BY <2>1, <2>2, ClerkSet
<1>5. ASSUME DoneWith(k)
      PROVE  clerk' \in [Clerks -> Award \cup {None}] /\ ClerksInv'
  <2>1. clerk' = [clerk EXCEPT ![k] = None]
    BY <1>5 DEF DoneWith
  <2> QED
    BY <1>3, <2>1, ClerkSet
<1>6. CASE \E u \in Students : \/ \E e \in Gatherings : AttendEvent(k, u, e)
                               \/ \E f \in Files : DownloadProductFile(k, u, f)
  <2>1. PICK u \in Students, ref \in Gatherings \cup Files : clerk' = Begin(k, u, ref)
    BY <1>6 DEF AttendEvent, DownloadProductFile
  <2>2. ledger' = ledger /\ badges' = badges
    BY <1>6 DEF AttendEvent, DownloadProductFile
  <2> QED
    BY <1>1, <1>4, <2>1, <2>2
<1>7. CASE AwardXP(k)
  <2>1. clerk[k] # None
    BY <1>7 DEF AwardXP, ClerkAt
  <2> DEFINE u == clerk[k].user
             ref == clerk[k].ref
  <2>2. ledger' = ledger \cup {<<u, ref>>} /\ badges' = badges
    BY <1>7 DEF AwardXP
  <2>3. u \in Students /\ ref \in Gatherings \cup Files
    BY <1>2, <2>1
  <2>4. ref \in References /\ ref \notin Messages
    BY <2>3, RewardsAssumption DEF References
  <2>5. clerk' \in [Clerks -> Award \cup {None}] /\ ClerksInv'
    <3>1. CASE DoneWith(k)
      BY <1>5, <3>1
    <3>2. CASE clerk' = [clerk EXCEPT ![k].pc = "sync"]
      <4> DEFINE r == [clerk[k] EXCEPT !.pc = "sync"]
      <4>1. r \in Award /\ r.ref = clerk[k].ref
        BY <1>2, <2>1 DEF Award
      <4>2. clerk' = [clerk EXCEPT ![k] = r]
        BY <3>2
      <4>3. r.ref \in Gatherings \cup Files
        BY <2>3, <4>1
      <4> HIDE DEF r
      <4> QED
        BY <4>1, <4>2, <4>3, ClerkSet
    <3> QED
      BY <1>7, <3>1, <3>2 DEF AwardXP
  <2> HIDE DEF u, ref
  <2> QED
    BY <1>1, <2>2, <2>3, <2>4, <2>5
<1>8. CASE SyncUserAchievements(k)
  <2>1. clerk[k] # None /\ ledger' = ledger /\ badges' = badges
    BY <1>8 DEF SyncUserAchievements, ClerkAt
  <2>2. CASE DoneWith(k)
    BY <1>1, <1>5, <2>1, <2>2
  <2>3. CASE clerk' = [clerk EXCEPT ![k].pc = "unlock", ![k].todo = Earned(clerk[k].user, ledger)]
    <3> DEFINE all == Earned(clerk[k].user, ledger)
               r == [clerk[k] EXCEPT !.pc = "unlock", !.todo = all]
    <3>1. all \in SUBSET Badges
      BY DEF Earned
    <3> HIDE DEF all
    <3>2. r \in Award /\ r.ref = clerk[k].ref
      BY <1>2, <2>1, <3>1 DEF Award
    <3>3. clerk' = [clerk EXCEPT ![k] = r]
      <4>1. clerk' = [clerk EXCEPT ![k].pc = "unlock", ![k].todo = all]
        BY <2>3 DEF all
      <4> QED
        BY <4>1 DEF TypeInv
    <3>4. r.ref \in Gatherings \cup Files
      BY <1>2, <2>1, <3>2
    <3> HIDE DEF r
    <3> QED
      BY <1>1, <2>1, <3>2, <3>3, <3>4, ClerkSet
  <2> QED
    BY <1>8, <2>2, <2>3 DEF SyncUserAchievements
<1>9. CASE AbandonAward(k)
  <2>1. DoneWith(k) /\ ledger' = ledger /\ badges' = badges
    BY <1>9 DEF AbandonAward
  <2> QED
    BY <1>1, <1>5, <2>1
<1>10. ASSUME NEW b \in Badges, UnlockBadge(k, b)
       PROVE  /\ ledger' = ledger /\ badges' \subseteq Students \X Badges
              /\ clerk' \in [Clerks -> Award \cup {None}] /\ ClerksInv'
  <2>1. clerk[k] # None /\ ledger' = ledger /\ badges' = badges \cup {<<clerk[k].user, b>>}
    BY <1>10 DEF UnlockBadge, ClerkAt
  <2>2. badges' \subseteq Students \X Badges
    BY <1>1, <1>2, <2>1
  <2>3. CASE DoneWith(k)
    BY <1>5, <2>1, <2>2, <2>3
  <2>4. CASE clerk' = [clerk EXCEPT ![k].todo = @ \ {b}]
    <3> DEFINE r == [clerk[k] EXCEPT !.todo = clerk[k].todo \ {b}]
    <3>1. r \in Award /\ r.ref = clerk[k].ref
      BY <1>2, <2>1 DEF Award
    <3>2. clerk' = [clerk EXCEPT ![k] = r]
      BY <2>4
    <3>3. r.ref \in Gatherings \cup Files
      BY <1>2, <2>1, <3>1
    <3> HIDE DEF r
    <3> QED
      BY <2>1, <2>2, <3>1, <3>2, <3>3, ClerkSet
  <2> QED
    BY <1>10, <2>3, <2>4 DEF UnlockBadge
<1> QED
  BY <1>1, <1>6, <1>7, <1>8, <1>9, <1>10

-----------------------------------------------------------------------------
(* The invariant holds. *)

\* A request that goes on, or ends, when no thread goes away or changes hands.
LEMMA RequestsKeep ==
  ASSUME IInv, NEW h \in Handlers, NEW r \in Request \cup {None},
         job' = [job EXCEPT ![h] = r],
         r # None => Authorized(r)' /\ Addressed(r)',
         \A t \in Threads : thread[t] # None =>
           thread'[t] # None /\ thread'[t].student = thread[t].student
  PROVE  job' \in [Handlers -> Request \cup {None}] /\ RequestsInv'
<1>1. /\ job' \in [Handlers -> Request \cup {None}] /\ job'[h] = r
      /\ \A g \in Handlers : g # h => job'[g] = job[g]
  BY JobSet DEF IInv
<1>2. ASSUME NEW g \in Handlers, job'[g] # None, NEW q, q = job'[g]
      PROVE  Authorized(q)' /\ Addressed(q)'
  <2>1. CASE g = h
    <3>1. q = r
      BY <1>1, <1>2, <2>1
    <3> QED
      BY <1>2, <3>1
  <2>2. CASE g # h
    <3>1. q = job[g] /\ q \in Request /\ Authorized(q) /\ Addressed(q)
      BY <1>1, <1>2, <2>2, RowTypes DEF IInv, RequestsInv
    <3> QED
      BY <3>1, KeepsAuthorized
  <2> QED
    BY <2>1, <2>2
<1>3. RequestsInv'
  <2> SUFFICES ASSUME NEW g \in Handlers, job'[g] # None
               PROVE  (Authorized(job[g]) /\ Addressed(job[g]))'
    BY DEF RequestsInv
  <2>1. PICK q : q = job'[g]
    OBVIOUS
  <2>2. Authorized(q)' /\ Addressed(q)'
    BY <1>2, <2>1
  <2> QED
    BY <2>1, <2>2 DEF Authorized, Addressed
<1> QED
  BY <1>1, <1>3

\* It holds of an empty course.
LEMMA InitInv == Init => IInv
<1> SUFFICES ASSUME Init PROVE IInv
  OBVIOUS
<1>1. TypeInv
  BY DEF Init, RewardsInit, TypeInv
<1>2. RequestsInv /\ ClerksInv /\ MessagesInv
  BY DEF Init, RewardsInit, RequestsInv, ClerksInv, MessagesInv
<1> QED
  BY <1>1, <1>2 DEF IInv

\* A request that is let in keeps it.
LEMMA AskInv ==
  ASSUME IInv, NEW h \in Handlers, Asks(h)
  PROVE  IInv'
<1>1. UNCHANGED <<rewards, teacher, thread, message, notices, loaded, cut>>
  BY DEF Asks, Authorize, CreateConversation
<1>2. \E r \in Request : job' = [job EXCEPT ![h] = r] /\ Authorized(r) /\ Addressed(r)
  <2>1. ASSUME NEW u \in Students, CreateConversation(h, u)
        PROVE  \E r \in Request : job' = [job EXCEPT ![h] = r] /\ Authorized(r) /\ Addressed(r)
    <3>1. u \in Users /\ "student" \in Sides
      BY DEF Users, Sides
    <3>2. /\ Snapshot(u, "student", None) \in Request
          /\ Authorized(Snapshot(u, "student", None)) /\ Addressed(Snapshot(u, "student", None))
      BY <3>1, SnapshotRequest
    <3>3. job' = [job EXCEPT ![h] = Snapshot(u, "student", None)]
      BY <2>1 DEF CreateConversation
    <3> QED
      BY <3>2, <3>3
  <2>2. ASSUME NEW u \in Users, NEW t \in Threads, NEW what \in {"messages", "reply", "status"},
               Authorize(h, u, t, what)
        PROVE  \E r \in Request : job' = [job EXCEPT ![h] = r] /\ Authorized(r) /\ Addressed(r)
    BY <2>2, AuthorizedRequest
  <2> QED
    BY <2>1, <2>2 DEF Asks
<1>3. PICK r \in Request : job' = [job EXCEPT ![h] = r] /\ Authorized(r) /\ Addressed(r)
  BY <1>2
<1>4. thread' = thread
  BY <1>1
<1>5. Authorized(r)' /\ Addressed(r)'
  BY <1>3, <1>4 DEF Authorized, Addressed
<1>6. job' \in [Handlers -> Request \cup {None}] /\ RequestsInv'
  BY <1>3, <1>4, <1>5, RequestsKeep
<1> QED
  BY <1>1, <1>6 DEF IInv, TypeInv, ClerksInv, MessagesInv, rewards

\* An answer that begins keeps it.
LEMMA ReplyInv ==
  ASSUME IInv, NEW h \in Handlers, Reply(h)
  PROVE  IInv'
<1> DEFINE j == job[h]
<1>1. j \in Request /\ j.pc = "reply" /\ Authorized(j)
  BY RowTypes DEF Reply, JobAt, IInv, RequestsInv
<1>2. j.user \in Users /\ j.side \in Sides /\ j.thread \in Threads \cup {None}
  BY <1>1 DEF Request
<1>3. j.thread # None
  BY <1>1 DEF Authorized
<1> DEFINE s == Snapshot(j.user, j.side, j.thread)
<1>4. s \in Request /\ Authorized(s) /\ Addressed(s)
  BY <1>1, <1>2, <1>3, SnapshotRequest DEF Authorized
<1>5. job' = [job EXCEPT ![h] = s]
      /\ UNCHANGED <<rewards, teacher, thread, message, notices, loaded, cut>>
  BY DEF Reply
<1> HIDE DEF s
<1> PICK r \in Request : r = s
  BY <1>4
<1>6. Authorized(r)' /\ Addressed(r)'
  BY <1>4, <1>5 DEF Authorized, Addressed
<1>7. job' \in [Handlers -> Request \cup {None}] /\ RequestsInv'
  BY <1>4, <1>5, <1>6, RequestsKeep
<1> QED
  BY <1>5, <1>7 DEF IInv, TypeInv, ClerksInv, MessagesInv, rewards

\* A post keeps it.
LEMMA PostInv ==
  ASSUME IInv, NEW h \in Handlers, Post(h)
  PROVE  IInv'
<1>1. PICK m \in Messages, t \in Threads : Posted(h, m, t)
  BY PostPosts
<1> DEFINE j == job[h]
<1>2. j \in Request /\ Authorized(j) /\ j.side = "student" => j.user \in Students
  BY <1>1 DEF Posted, Authorized
<1>3. job' \in [Handlers -> Request \cup {None}] /\ RequestsInv'
  <2>1. job' = [job EXCEPT ![h] = None] /\ None \in Request \cup {None}
    BY <1>1 DEF Posted
  <2>2. \A s \in Threads : thread[s] # None =>
          thread'[s] # None /\ thread'[s].student = thread[s].student
    BY <1>1, PostedRows
  <2> QED
    BY <2>1, <2>2, RequestsKeep
<1>4. thread' \in [Threads -> CourseConversation \cup {None}]
      /\ message' \in [Messages -> CourseMessage \cup {None}]
  BY <1>1, PostedRows
<1>5. MessagesInv'
  <2> SUFFICES ASSUME NEW k \in Messages, message'[k] # None
               PROVE  thread'[message'[k].thread] # None
    BY DEF MessagesInv
  <2>1. CASE k = m
    <3>1. /\ message'[m] = [thread |-> t, author |-> job[h].user, side |-> job[h].side]
          /\ thread'[t] # None
      BY <1>1, PostedRows
    <3>2. message'[m].thread = t
      BY <3>1
    <3> QED
      BY <2>1, <3>1, <3>2
  <2>2. CASE k # m
    <3>1. message'[k] = message[k] /\ message[k] \in CourseMessage
      BY <1>1, <2>2, PostedRows, RowTypes DEF IInv
    <3>2. message[k].thread \in Threads /\ thread[message[k].thread] # None
      BY <3>1, DiscussionAssumption DEF CourseMessage, IInv, MessagesInv
    <3> QED
      BY <1>1, <3>1, <3>2, PostedRows
  <2> QED
    BY <2>1, <2>2
<1>6. notices' \subseteq Notification
  <2>1. j.to \subseteq Users
    BY <1>1 DEF Posted, Request
  <2>2. [to: j.to, about: {m}, read: {FALSE}] \subseteq Notification
    BY <2>1 DEF Notification
  <2> QED
    BY <1>1, <2>2 DEF Posted, IInv, TypeInv
<1>7. ledger' \subseteq Students \X References /\ badges' \subseteq Students \X Badges
  <2>1. CASE j.side = "staff" /\ ledger' = ledger /\ badges' = badges
    BY <2>1 DEF IInv, TypeInv
  <2>2. CASE /\ j.side = "student" /\ ledger' = ledger \cup {<<j.user, m>>}
             /\ badges' = badges \cup ({j.user} \X Given(j, m))
    <3>1. j.user \in Students /\ m \in References
      BY <1>1, <2>2 DEF Posted, Authorized, References
    <3>2. Given(j, m) \subseteq Badges
      BY DEF Given, Earned
    <3> QED
      BY <2>2, <3>1, <3>2 DEF IInv, TypeInv
  <2> QED
    BY <1>1, <2>1, <2>2 DEF Posted
<1>8. clerk' = clerk /\ teacher' = teacher /\ loaded' = loaded /\ cut' = cut
  BY <1>1 DEF Posted
<1>9. TypeInv'
  BY <1>3, <1>4, <1>6, <1>7, <1>8 DEF IInv, TypeInv
<1> QED
  BY <1>3, <1>5, <1>8, <1>9 DEF IInv, ClerksInv

\* A request that reads, or changes the status, of a thread that exists.
LEMMA ThreadRequest ==
  ASSUME IInv, NEW h \in Handlers, NEW pc, pc # "post", JobAt(h, pc)
  PROVE  /\ job[h] \in Request /\ Authorized(job[h])
         /\ job[h].thread \in Threads /\ thread[job[h].thread] # None
         /\ job[h].side \in Sides
<1>1. job[h] \in Request /\ Authorized(job[h]) /\ job[h].pc # "post"
  BY RowTypes DEF JobAt, IInv, RequestsInv
<1> QED
  BY <1>1 DEF Authorized, Request

\* A reader that clears the counter keeps it.
LEMMA ClearUnreadInv ==
  ASSUME IInv, NEW h \in Handlers, ClearUnread(h)
  PROVE  IInv'
<1> DEFINE j == job[h]
<1>1. /\ j \in Request /\ Authorized(j) /\ j.thread \in Threads /\ thread[j.thread] # None
      /\ j.side \in Sides
  BY ThreadRequest DEF ClearUnread
<1>2. Recounted(j.thread, j.side, 0)
  BY DEF ClearUnread, Recounted
<1>3. /\ thread' \in [Threads -> CourseConversation \cup {None}]
      /\ thread'[j.thread] # None /\ thread'[j.thread].student = thread[j.thread].student
      /\ \A s \in Threads : s # j.thread => thread'[s] = thread[s]
  <2>1. 0 \in Nat
    OBVIOUS
  <2> QED
    BY <1>1, <1>2, <2>1, CounterEdit DEF IInv
<1>4. PICK r \in Request :
        /\ r.pc = "load" /\ r.thread = j.thread /\ r.side = j.side /\ r.user = j.user
        /\ job' = [job EXCEPT ![h] = r]
  <2> DEFINE q == [j EXCEPT !.pc = "load"]
  <2>1. /\ q \in Request /\ q.pc = "load" /\ q.thread = j.thread /\ q.side = j.side
        /\ q.user = j.user
    BY <1>1 DEF Request
  <2>2. job' = [job EXCEPT ![h] = q]
    BY DEF ClearUnread
  <2> HIDE DEF q
  <2> QED
    BY <2>1, <2>2
<1>6. \A t \in Threads : thread[t] # None =>
        thread'[t] # None /\ thread'[t].student = thread[t].student
  BY <1>3
<1>7. Authorized(r)' /\ Addressed(r)'
  <2>1. r.thread # None
    BY <1>1, <1>4, DiscussionAssumption
  <2> QED
    BY <1>1, <1>3, <1>4, <2>1 DEF Authorized, Addressed
<1>8. job' \in [Handlers -> Request \cup {None}] /\ RequestsInv'
  BY <1>4, <1>6, <1>7, RequestsKeep
<1>9. UNCHANGED <<rewards, teacher, message, notices, loaded, cut>>
  BY DEF ClearUnread
<1>10. MessagesInv'
  BY <1>6, <1>9, RowTypes DEF IInv, MessagesInv, CourseMessage
<1> QED
  BY <1>3, <1>8, <1>9, <1>10 DEF IInv, TypeInv, ClerksInv, rewards

\* A request that ends without a change of the threads.
LEMMA FinishInv ==
  ASSUME IInv, NEW h \in Handlers, Finish(h),
         \A t \in Threads : thread[t] # None =>
           thread'[t] # None /\ thread'[t].student = thread[t].student
  PROVE  job' \in [Handlers -> Request \cup {None}] /\ RequestsInv'
<1>1. job' = [job EXCEPT ![h] = None] /\ None \in Request \cup {None}
  BY DEF Finish
<1> QED
  BY <1>1, RequestsKeep

\* A reader that loads the messages keeps it.
LEMMA LoadMessagesInv ==
  ASSUME IInv, NEW h \in Handlers, LoadMessages(h)
  PROVE  IInv'
<1> DEFINE t == job[h].thread
           side == job[h].side
<1>1. t \in Threads /\ side \in Sides
  BY ThreadRequest DEF LoadMessages
<1>2. /\ loaded' = [loaded EXCEPT ![t][side] = loaded[t][side] \cup MessagesOf(t)]
      /\ cut' = cut \ {<<t, side>>} /\ Finish(h)
      /\ UNCHANGED <<rewards, teacher, thread, message, notices>>
  BY DEF LoadMessages
<1> HIDE DEF t, side
<1>3. MessagesOf(t) \subseteq Messages
  BY DEF MessagesOf
<1>4. loaded' \in [Threads -> [Sides -> SUBSET Messages]]
  BY <1>1, <1>2, <1>3 DEF IInv, TypeInv
<1>5. job' \in [Handlers -> Request \cup {None}] /\ RequestsInv'
  BY <1>2, FinishInv
<1>6. cut' \subseteq Threads \X Sides
  BY <1>2 DEF IInv, TypeInv
<1> QED
  BY <1>2, <1>4, <1>5, <1>6 DEF IInv, TypeInv, ClerksInv, MessagesInv, rewards

\* A change of the status keeps it.
LEMMA UpdateStatusInv ==
  ASSUME IInv, NEW h \in Handlers, NEW status \in Statuses, UpdateStatus(h, status)
  PROVE  IInv'
<1> DEFINE t == job[h].thread
<1>1. t \in Threads /\ thread[t] # None
  BY ThreadRequest DEF UpdateStatus
<1>2. /\ thread' = [thread EXCEPT ![t].status = status] /\ Finish(h)
      /\ UNCHANGED <<rewards, teacher, message, notices, loaded, cut>>
  BY DEF UpdateStatus
<1> HIDE DEF t
<1>3. /\ thread' \in [Threads -> CourseConversation \cup {None}]
      /\ thread'[t] # None /\ thread'[t].student = thread[t].student
      /\ \A s \in Threads : s # t => thread'[s] = thread[s]
  BY <1>1, <1>2, StatusEdit DEF IInv
<1>4. \A s \in Threads : thread[s] # None =>
        thread'[s] # None /\ thread'[s].student = thread[s].student
  BY <1>3
<1>5. job' \in [Handlers -> Request \cup {None}] /\ RequestsInv'
  BY <1>2, <1>4, FinishInv
<1>6. MessagesInv'
  BY <1>2, <1>4, RowTypes DEF IInv, MessagesInv, CourseMessage
<1> QED
  BY <1>2, <1>3, <1>5, <1>6 DEF IInv, TypeInv, ClerksInv, rewards

\* A request that ends early keeps it.
LEMMA AbandonInv ==
  ASSUME IInv, NEW h \in Handlers, Abandon(h)
  PROVE  IInv'
<1>1. job' \in [Handlers -> Request \cup {None}] /\ RequestsInv'
  BY FinishInv DEF Abandon
<1>2. cut' \subseteq Threads \X Sides
  <2>1. CASE JobAt(h, "load")
    <3>1. job[h].thread \in Threads /\ job[h].side \in Sides
      BY <2>1, ThreadRequest
    <3> QED
      BY <2>1, <3>1 DEF Abandon, IInv, TypeInv
  <2>2. CASE ~JobAt(h, "load")
    BY <2>2 DEF Abandon, IInv, TypeInv
  <2> QED
    BY <2>1, <2>2
<1>3. UNCHANGED <<rewards, teacher, thread, message, notices, loaded>>
  BY DEF Abandon
<1> QED
  BY <1>1, <1>2, <1>3 DEF IInv, TypeInv, ClerksInv, MessagesInv, rewards

\* Reading changes of a notice only that it has been read.
LEMMA NoticesRead ==
  ASSUME TypeInv, NEW u, MarkAllNotificationsRead(u)
  PROVE  /\ notices' \subseteq Notification
         /\ \A n \in notices' : \E k \in notices : n.to = k.to /\ n.about = k.about
         /\ \A k \in notices : \E n \in notices' : n.to = k.to /\ n.about = k.about
<1> DEFINE Read(n) == IF n.to = u THEN [n EXCEPT !.read = TRUE] ELSE n
<1>1. notices' = {Read(n) : n \in notices}
  BY DEF MarkAllNotificationsRead
<1>2. ASSUME NEW n \in notices
      PROVE  Read(n) \in Notification /\ Read(n).to = n.to /\ Read(n).about = n.about
  BY DEF TypeInv, Notification
<1> HIDE DEF Read
<1> QED
  BY <1>1, <1>2

\* Every step keeps it.
LEMMA StepInv == IInv /\ [Next]_vars => IInv'
<1> SUFFICES ASSUME IInv, [Next]_vars PROVE IInv'
  OBVIOUS
<1>1. ASSUME NEW h \in Handlers, NEW u \in Users,
             DashboardRequest(h, u) \/ InstructorRequest(h, u) \/ AdminRequest(h, u)
      PROVE  IInv'
  BY <1>1, RequestsAsk, AskInv
<1>2. ASSUME NEW h \in Handlers,
             Reply(h) \/ Post(h) \/ ClearUnread(h) \/ LoadMessages(h) \/ Abandon(h)
      PROVE  IInv'
  BY <1>2, ReplyInv, PostInv, ClearUnreadInv, LoadMessagesInv, AbandonInv
<1>3. ASSUME NEW h \in Handlers, NEW status \in Statuses, UpdateStatus(h, status)
      PROVE  IInv'
  BY <1>3, UpdateStatusInv
<1>4. ASSUME NEW u \in Users, MarkAllNotificationsRead(u) PROVE IInv'
  <2>1. notices' \subseteq Notification
    BY <1>4, NoticesRead DEF IInv
  <2>2. UNCHANGED <<rewards, teacher, thread, message, job, loaded, cut>>
    BY <1>4 DEF MarkAllNotificationsRead
  <2> QED
    BY <2>1, <2>2 DEF IInv, TypeInv, RequestsInv, Authorized, Addressed, ClerksInv, MessagesInv, rewards
<1>5. CASE AssignInstructor
  <2>1. teacher' \in Teachers \cup {None}
        /\ UNCHANGED <<rewards, thread, message, notices, job, loaded, cut>>
    BY <1>5 DEF AssignInstructor
  <2> QED
    BY <2>1 DEF IInv, TypeInv, RequestsInv, Authorized, Addressed, ClerksInv, MessagesInv, rewards
<1>6. CASE AwardStep /\ UNCHANGED talk
  <2>1. /\ ledger' \subseteq Students \X References /\ badges' \subseteq Students \X Badges
        /\ clerk' \in [Clerks -> Award \cup {None}] /\ ClerksInv'
    BY <1>6, AwardsKeep DEF IInv
  <2> QED
    BY <1>6, <2>1 DEF IInv, TypeInv, RequestsInv, Authorized, Addressed, MessagesInv, talk
<1>7. CASE UNCHANGED vars
  BY <1>7 DEF vars, talk, rewards, IInv, TypeInv, RequestsInv, Authorized, Addressed, ClerksInv,
              MessagesInv
<1> QED
  BY <1>1, <1>2, <1>3, <1>4, <1>5, <1>6, <1>7 DEF Next

\* Whatever students, staff and awards do: every row has its type, and a
\* request that was authorized for a thread of the student's, or for one of
\* somebody else as its staff, is still that when it writes; an award outside
\* a post is for no message; and no message is left without its thread.
THEOREM ConversationInvariant == Spec => []IInv
BY InitInv, StepInv, PTL DEF Spec

-----------------------------------------------------------------------------
(* Messages are posted whole. *)

\* A message with its award or its notice; and one that was not posted.
Whole(m) ==
  LET row == message[m] IN
  /\ row.side = "student" => <<row.author, m>> \in ledger
  /\ row.side = "staff" =>
       \E n \in notices : n.about = m /\ n.to = thread[row.thread].student
  /\ \A n \in notices : n.about = m => n.to # row.author
Absent(m) ==
  /\ \A u \in Users : <<u, m>> \notin ledger
  /\ \A n \in notices : n.about # m

\* The property, message by message.
LEMMA WholeOrAbsent ==
  PostedWhole <=> \A m \in Messages : IF message[m] = None THEN Absent(m) ELSE Whole(m)
BY DEF PostedWhole, Whole, Absent

\* A step that posts nothing, and takes no award and no notice back.
LEMMA WholeKeeps ==
  ASSUME IInv, PostedWhole, message' = message,
         \A t \in Threads : thread[t] # None =>
           thread'[t] # None /\ thread'[t].student = thread[t].student,
         ledger \subseteq ledger',
         \A u \in Users, m \in Messages : <<u, m>> \in ledger' => <<u, m>> \in ledger,
         \A n \in notices' : \E k \in notices : n.to = k.to /\ n.about = k.about,
         \A k \in notices : \E n \in notices' : n.to = k.to /\ n.about = k.about
  PROVE  PostedWhole'
<1> SUFFICES ASSUME NEW m \in Messages
             PROVE  (IF message[m] = None THEN Absent(m) ELSE Whole(m))'
  BY DEF PostedWhole, Whole, Absent
<1>1. CASE message[m] = None
  <2>1. Absent(m)
    BY <1>1, WholeOrAbsent
  <2>2. Absent(m)'
    BY <2>1 DEF Absent
  <2> QED
    BY <1>1, <2>2
<1>2. CASE message[m] # None
  <2>1. Whole(m) /\ message[m] \in CourseMessage
    BY <1>2, WholeOrAbsent, RowTypes DEF IInv
  <2>2. message[m].thread \in Threads /\ thread[message[m].thread] # None
    BY <1>2, <2>1 DEF CourseMessage, IInv, MessagesInv
  <2>3. thread'[message[m].thread].student = thread[message[m].thread].student
    BY <2>2
  <2>4. Whole(m)'
    BY <2>1, <2>3 DEF Whole
  <2> QED
    BY <1>2, <2>4
<1> QED
  BY <1>1, <1>2

\* A post leaves its message whole and the others as they are.
LEMMA PostIsWhole ==
  ASSUME IInv, PostedWhole, NEW h \in Handlers, Post(h)
  PROVE  PostedWhole'
<1>1. PICK m \in Messages, t \in Threads : Posted(h, m, t)
  BY PostPosts
<1> DEFINE j == job[h]
<1>2. j \in Request /\ Authorized(j) /\ Addressed(j) /\ j.pc = "post"
  BY <1>1 DEF Posted
<1>3. /\ \A s \in Threads : thread[s] # None =>
           thread'[s] # None /\ thread'[s].student = thread[s].student
      /\ message'[m] = [thread |-> t, author |-> j.user, side |-> j.side]
      /\ message'[m] # None
      /\ \A k \in Messages : k # m => message'[k] = message[k]
      /\ j.side = "staff" => thread'[t].student # j.user
  BY <1>1, PostedRows
<1>4. notices' = notices \cup [to: j.to, about: {m}, read: {FALSE}]
  BY <1>1 DEF Posted
<1>5. ledger' = ledger \/ ledger' = ledger \cup {<<j.user, m>>}
  BY <1>1 DEF Posted
<1>6. Absent(m)
  BY <1>1, WholeOrAbsent DEF Posted
<1>7. ASSUME NEW n \in notices'
      PROVE  n \in notices \/ (n.to \in j.to /\ n.about = m)
  BY <1>4
<1>8. Whole(m)'
  <2>1. CASE j.side = "student"
    <3>1. <<j.user, m>> \in ledger'
      BY <1>1, <2>1 DEF Posted
    <3>2. j.user \notin j.to
      BY <1>2, <2>1 DEF Addressed
    <3>3. \A n \in notices' : n.about = m => n.to # j.user
      BY <1>6, <1>7, <3>2 DEF Absent
    <3>4. /\ message'[m].side = "student" /\ message'[m].author = j.user
      BY <1>3, <2>1
    <3> QED
      BY <3>1, <3>3, <3>4 DEF Whole
  <2>2. CASE j.side = "staff"
    <3>1. j.thread # None
      BY <1>2, <2>2 DEF Authorized
    <3>2. j.thread = t /\ thread[t] # None
      BY <1>1, <3>1 DEF Posted
    <3>3. j.to = {thread'[t].student} /\ thread'[t].student # j.user
      BY <1>2, <1>3, <2>2, <3>2 DEF Addressed
    <3> DEFINE new == [to |-> thread'[t].student, about |-> m, read |-> FALSE]
    <3>4. new \in notices' /\ new.about = m /\ new.to = thread'[t].student
      BY <1>4, <3>3
    <3>5. \A n \in notices' : n.about = m => n.to # j.user
      BY <1>6, <1>7, <3>3 DEF Absent
    <3>6. message'[m].side = "staff" /\ message'[m].author = j.user /\ message'[m].thread = t
      BY <1>3, <2>2
    <3> HIDE DEF new
    <3> QED
      BY <3>4, <3>5, <3>6 DEF Whole
  <2> QED
    BY <1>2, <2>1, <2>2 DEF Request, Sides
<1>9. ASSUME NEW k \in Messages, k # m
      PROVE  (IF message[k] = None THEN Absent(k) ELSE Whole(k))'
  <2>1. message'[k] = message[k]
    BY <1>3, <1>9
  <2>2. \A n \in notices' : n.about = k => n \in notices
    BY <1>7, <1>9
  <2>3. ledger \subseteq ledger' /\ notices \subseteq notices'
    BY <1>4, <1>5
  <2>4. CASE message[k] = None
    <3>1. Absent(k)
      BY <2>4, WholeOrAbsent
    <3>2. \A u \in Users : <<u, k>> \notin ledger'
      BY <1>5, <1>9, <3>1 DEF Absent
    <3>3. Absent(k)'
      BY <2>2, <3>1, <3>2 DEF Absent
    <3> QED
      BY <2>1, <2>4, <3>3
  <2>5. CASE message[k] # None
    <3>1. Whole(k) /\ message[k] \in CourseMessage
      BY <2>5, WholeOrAbsent, RowTypes DEF IInv
    <3>2. message[k].thread \in Threads /\ thread[message[k].thread] # None
      BY <2>5, <3>1 DEF CourseMessage, IInv, MessagesInv
    <3>3. thread'[message[k].thread].student = thread[message[k].thread].student
      BY <1>3, <3>2
    <3>4. Whole(k)'
      BY <2>1, <2>2, <2>3, <3>1, <3>3 DEF Whole
    <3> QED
      BY <2>1, <2>5, <3>4
  <2> QED
    BY <2>4, <2>5
<1>10. ASSUME NEW k \in Messages
       PROVE  (IF message[k] = None THEN Absent(k) ELSE Whole(k))'
  <2>1. CASE k = m
    <3>1. (message[m] # None)'
      BY <1>3
    <3> QED
      BY <1>8, <2>1, <3>1
  <2> QED
    BY <1>9, <2>1
<1> QED
  BY <1>10 DEF PostedWhole, Whole, Absent

\* Every step keeps messages whole.
LEMMA WholeStep == IInv /\ PostedWhole /\ [Next]_vars => PostedWhole'
<1> SUFFICES ASSUME IInv, PostedWhole, [Next]_vars PROVE PostedWhole'
  OBVIOUS
<1>1. ASSUME UNCHANGED <<thread, message, notices, ledger>> PROVE PostedWhole'
  BY <1>1, WholeKeeps
<1>2. ASSUME NEW h \in Handlers, NEW u \in Users,
             DashboardRequest(h, u) \/ InstructorRequest(h, u) \/ AdminRequest(h, u)
      PROVE  UNCHANGED <<thread, message, notices, ledger>>
  BY <1>2, RequestsAsk DEF Asks, CreateConversation, Authorize, rewards
<1>3. ASSUME NEW h \in Handlers, Post(h) PROVE PostedWhole'
  BY <1>3, PostIsWhole
<1>4. ASSUME NEW h \in Handlers, Reply(h) \/ LoadMessages(h) \/ Abandon(h)
      PROVE  UNCHANGED <<thread, message, notices, ledger>>
  BY <1>4 DEF Reply, LoadMessages, Abandon, rewards
<1>5. ASSUME NEW h \in Handlers,
             ClearUnread(h) \/ \E status \in Statuses : UpdateStatus(h, status)
      PROVE  PostedWhole'
  <2> DEFINE t == job[h].thread
  <2>1. t \in Threads /\ thread[t] # None
    BY <1>5, ThreadRequest DEF ClearUnread, UpdateStatus
  <2>2. \A s \in Threads : thread[s] # None =>
          thread'[s] # None /\ thread'[s].student = thread[s].student
    <3>1. CASE ClearUnread(h)
      <4>1. job[h].side \in Sides /\ 0 \in Nat
        BY <3>1, ThreadRequest DEF ClearUnread
      <4>2. Recounted(t, job[h].side, 0)
        BY <3>1 DEF ClearUnread, Recounted
      <4> HIDE DEF t
      <4> QED
        BY <2>1, <4>1, <4>2, CounterEdit DEF IInv
    <3>2. ASSUME NEW status \in Statuses, UpdateStatus(h, status)
          PROVE  \A s \in Threads : thread[s] # None =>
                   thread'[s] # None /\ thread'[s].student = thread[s].student
      <4>1. thread' = [thread EXCEPT ![t].status = status]
        BY <3>2 DEF UpdateStatus
      <4> HIDE DEF t
      <4> QED
        BY <2>1, <4>1, StatusEdit DEF IInv
    <3> QED
      BY <1>5, <3>1, <3>2
  <2>3. UNCHANGED <<message, notices, ledger>>
    BY <1>5 DEF ClearUnread, UpdateStatus, rewards
  <2> QED
    BY <2>2, <2>3, WholeKeeps
<1>6. ASSUME NEW u \in Users, MarkAllNotificationsRead(u) PROVE PostedWhole'
  <2>1. /\ \A n \in notices' : \E k \in notices : n.to = k.to /\ n.about = k.about
        /\ \A k \in notices : \E n \in notices' : n.to = k.to /\ n.about = k.about
    BY <1>6, NoticesRead DEF IInv
  <2>2. UNCHANGED <<thread, message, ledger>>
    BY <1>6 DEF MarkAllNotificationsRead, rewards
  <2> QED
    BY <2>1, <2>2, WholeKeeps
<1>7. CASE AssignInstructor
  BY <1>1, <1>7 DEF AssignInstructor, rewards
<1>8. CASE AwardStep /\ UNCHANGED talk
  <2>1. /\ ledger \subseteq ledger'
        /\ \A u \in Users, m \in Messages : <<u, m>> \in ledger' => <<u, m>> \in ledger
    BY <1>8, AwardsKeep DEF IInv
  <2>2. UNCHANGED <<thread, message, notices>>
    BY <1>8 DEF talk
  <2> QED
    BY <2>1, <2>2, WholeKeeps
<1>9. CASE UNCHANGED vars
  BY <1>1, <1>9 DEF vars, talk, rewards
<1> QED
  BY <1>1, <1>2, <1>3, <1>4, <1>5, <1>6, <1>7, <1>8, <1>9 DEF Next

\* A student's message is posted with his XP and without a notice to himself,
\* the staff's with a notice to the student whose thread it is, and neither XP
\* nor notices are left of a message that was not posted, whichever requests
\* and awards run at the same time and wherever they end.
THEOREM MessagesArePostedWhole == Spec => []PostedWhole
<1>1. Init => PostedWhole
  BY DEF Init, RewardsInit, PostedWhole
<1> QED
  BY <1>1, ConversationInvariant, WholeStep, PTL DEF Spec

-----------------------------------------------------------------------------
(* No unread message is missed. *)

\* What a side of a thread has not been given, and that the counter covers it.
Missed(t, side) == From(Other(side), t) \ loaded[t][side]
Covered(t, side) ==
  thread[t] # None /\ ~Loading(t, side) /\ <<t, side>> \notin cut =>
    Cardinality(Missed(t, side)) <= thread[t].unread[side]

\* The property, side by side.
LEMMA CoversAll == UnreadCovers <=> \A t \in Threads, side \in Sides : Covered(t, side)
BY DEF UnreadCovers, Covered, Missed

\* A request that is not at "load" changes nothing of who is loading unless it gets there.
LEMMA LoadingSame ==
  ASSUME TypeInv, NEW h \in Handlers, NEW r \in Request \cup {None}, job' = [job EXCEPT ![h] = r],
         ~JobAt(h, "load"), r # None => r.pc # "load", NEW t, NEW side
  PROVE  Loading(t, side)' <=> Loading(t, side)
<1>1. job'[h] = r /\ \A g \in Handlers : g # h => job'[g] = job[g]
  BY JobSet
<1>2. \A g \in Handlers : (JobAt(g, "load") /\ job[g].thread = t /\ job[g].side = side)'
                            <=> JobAt(g, "load") /\ job[g].thread = t /\ job[g].side = side
  BY <1>1 DEF JobAt
<1> QED
  BY <1>2 DEF Loading

\* A step that leaves a side's counter, its messages and its readers alone.
LEMMA CoveredKeeps ==
  ASSUME NEW t \in Threads, NEW side \in Sides, Covered(t, side),
         message' = message, loaded'[t][side] = loaded[t][side],
         Loading(t, side) => Loading(t, side)',
         <<t, side>> \in cut => <<t, side>> \in cut',
         thread'[t] # None => thread[t] # None /\ thread'[t].unread[side] = thread[t].unread[side]
  PROVE  Covered(t, side)'
<1>1. Missed(t, side)' = Missed(t, side)
  BY DEF Missed, From, MessagesOf, Other
<1> QED
  BY <1>1 DEF Covered

\* A post raises the other side's counter by the one message that it adds.
LEMMA PostCovers ==
  ASSUME IInv, UnreadCovers, NEW h \in Handlers, Post(h)
  PROVE  UnreadCovers'
<1>1. PICK m \in Messages, t \in Threads : Posted(h, m, t)
  BY PostPosts
<1> DEFINE j == job[h]
<1>2. j \in Request /\ Authorized(j) /\ j.side \in Sides /\ j.pc = "post"
  BY <1>1 DEF Posted, Request
<1>3. /\ \A s \in Threads : s # t => thread'[s] = thread[s]
      /\ message'[m] = [thread |-> t, author |-> j.user, side |-> j.side] /\ message'[m] # None
      /\ \A k \in Messages : k # m => message'[k] = message[k]
  BY <1>1, PostedRows
<1>4. message[m] = None /\ loaded' = loaded /\ cut' = cut
  BY <1>1 DEF Posted
<1> SUFFICES ASSUME NEW s \in Threads, NEW side \in Sides PROVE Covered(s, side)'
  BY DEF UnreadCovers, Covered, Missed
<1>5. Covered(s, side)
  BY CoversAll
<1>6. Loading(s, side)' <=> Loading(s, side)
  <2>1. job' = [job EXCEPT ![h] = None] /\ None \in Request \cup {None}
    BY <1>1 DEF Posted
  <2>2. ~JobAt(h, "load")
    BY <1>2 DEF JobAt
  <2> QED
    BY <2>1, <2>2, LoadingSame DEF IInv
<1>7. CASE s # t \/ side # Other(j.side)
  \* Nothing is added for this side.
  <2>1. From(Other(side), s)' = From(Other(side), s)
    <3>1. ~(t = s /\ j.side = Other(side))
      BY <1>2, <1>7, OtherSide
    <3>2. message'[m].thread = t /\ message'[m].side = j.side
      BY <1>3
    <3>3. Other(side)' = Other(side)
      BY DEF Other
    <3>4. ASSUME NEW k \in Messages
          PROVE  (message'[k] # None /\ message'[k].thread = s /\ message'[k].side = Other(side))
                   <=> (message[k] # None /\ message[k].thread = s /\ message[k].side = Other(side))
      BY <1>3, <1>4, <3>1, <3>2
    <3> QED
      BY <3>4 DEF From, MessagesOf, Other
  <2>2. Missed(s, side)' = Missed(s, side)
    BY <1>4, <2>1 DEF Missed
  <2>3. CASE s # t
    BY <1>3, <1>4, <1>5, <1>6, <2>2, <2>3 DEF Covered
  <2>4. CASE s = t /\ side = j.side
    <3>1. CASE /\ j.thread = t /\ thread[t] # None
               /\ thread' = [thread EXCEPT ![t].unread[Other(j.side)] =
                               thread[t].unread[Other(j.side)] + 1]
      <4>1. Other(j.side) \in Sides /\ Other(j.side) # side
        BY <1>2, <2>4, OtherSide
      <4>2. thread[t].unread[Other(j.side)] + 1 \in Nat
        BY <1>2, <3>1, <4>1, RowTypes DEF IInv, CourseConversation
      <4>3. PICK other \in Sides, n \in Nat :
              other # side /\ Recounted(t, other, n)
        BY <3>1, <4>1, <4>2 DEF Recounted
      <4>4. TypeInv /\ thread[t] # None
        BY <3>1 DEF IInv
      <4>5. thread'[t].unread[side] = thread[t].unread[side]
        BY <4>3, <4>4, CounterEdit
      <4> QED
        BY <1>4, <1>5, <1>6, <2>2, <2>4, <3>1, <4>5 DEF Covered
    <3>2. CASE /\ j.thread = None /\ thread[t] = None
               /\ thread' = [thread EXCEPT ![t] = NewThread(j.user)]
      <4>1. side = "student"
        BY <1>2, <2>4, <3>2 DEF Authorized
      <4>2. thread'[t].unread[side] = 0
        BY <3>2, <4>1 DEF NewThread, IInv, TypeInv
      <4>3. MessagesOf(t) = {}
        BY <3>2 DEF MessagesOf, IInv, MessagesInv
      <4>4. Missed(s, side) = {}
        BY <2>4, <4>3 DEF Missed, From
      <4>5. Cardinality(Missed(s, side)') = 0
        BY <2>2, <4>4, FS_EmptySet
      <4> QED
        BY <2>4, <4>2, <4>5 DEF Covered
    <3> QED
      BY <1>1, <3>1, <3>2 DEF Posted
  <2> QED
    BY <1>2, <1>7, <2>3, <2>4 DEF Sides, Other
<1>8. CASE s = t /\ side = Other(j.side)
  \* One message more, which the counter of this side counts.
  <2>1. From(Other(side), t)' \subseteq From(Other(side), t) \cup {m}
    <3>1. \A k \in Messages : k # m => message'[k] = message[k]
      BY <1>3
    <3> QED
      BY <3>1 DEF From, MessagesOf, Other
  <2>2. Missed(t, side)' \subseteq Missed(t, side) \cup {m}
    BY <1>4, <2>1 DEF Missed
  <2>3. /\ IsFiniteSet(Missed(t, side)) /\ Cardinality(Missed(t, side)) \in Nat
    <3>1. Missed(t, side) \in SUBSET Messages
      BY DEF Missed, From, MessagesOf
    <3> QED
      BY <3>1, FiniteMessages
  <2>4. /\ IsFiniteSet(Missed(t, side) \cup {m})
        /\ Cardinality(Missed(t, side) \cup {m}) <= Cardinality(Missed(t, side)) + 1
    <3> DEFINE S == Missed(t, side)
    <3>1. IsFiniteSet(S) /\ Cardinality(S) \in Nat
      BY <2>3
    <3> HIDE DEF S
    <3>2. /\ IsFiniteSet(S \cup {m})
          /\ Cardinality(S \cup {m}) = IF m \in S THEN Cardinality(S) ELSE Cardinality(S) + 1
      BY <3>1, FS_AddElement
    <3>3. Cardinality(S \cup {m}) <= Cardinality(S) + 1
      BY <3>1, <3>2
    <3> QED
      BY <3>2, <3>3 DEF S
  <2>5. /\ Cardinality(Missed(t, side)') <= Cardinality(Missed(t, side)) + 1
        /\ Cardinality(Missed(t, side)') \in Nat
    <3>1. Missed(t, side)' \in SUBSET Messages
      BY <2>2 DEF Missed, From, MessagesOf
    <3>2. Cardinality(Missed(t, side)') \in Nat
      BY <3>1, FiniteMessages
    <3>3. Cardinality(Missed(t, side)') <= Cardinality(Missed(t, side) \cup {m})
      BY <2>2, <2>4, FS_Subset
    <3>4. Cardinality(Missed(t, side) \cup {m}) \in Nat
      BY <2>4, FS_CardinalityType
    <3> QED
      BY <2>3, <2>4, <3>2, <3>3, <3>4
  <2>6. CASE /\ j.thread = t /\ thread[t] # None
             /\ thread' = [thread EXCEPT ![t].unread[Other(j.side)] =
                             thread[t].unread[Other(j.side)] + 1]
    <3>1. thread[t].unread \in [Sides -> Nat]
      BY <2>6, RowTypes DEF IInv, CourseConversation
    <3>2. PICK n \in Nat : n = thread[t].unread[side] + 1
      BY <3>1
    <3>3. Recounted(t, side, n) /\ TypeInv /\ thread[t] # None
      BY <1>8, <2>6, <3>2 DEF Recounted, IInv
    <3>4. thread'[t].unread[side] = n
      BY <3>3, CounterEdit
    <3>5. thread[t].unread[side] \in Nat
      BY <3>1
    <3> QED
      BY <1>4, <1>5, <1>6, <1>8, <2>3, <2>5, <2>6, <3>2, <3>4, <3>5 DEF Covered
  <2>7. CASE /\ j.thread = None /\ thread[t] = None
             /\ thread' = [thread EXCEPT ![t] = NewThread(j.user)]
    <3>1. j.side = "student" /\ side = "staff"
      BY <1>2, <1>8, <2>7 DEF Authorized, Other
    <3>2. thread'[t].unread[side] = 1
      BY <2>7, <3>1 DEF NewThread, IInv, TypeInv
    <3>3. MessagesOf(t) = {}
      BY <2>7 DEF MessagesOf, IInv, MessagesInv
    <3>4. Missed(t, side) = {}
      BY <3>3 DEF Missed, From
    <3>5. Cardinality(Missed(t, side)) = 0
      BY <3>4, FS_EmptySet
    <3> QED
      BY <1>8, <2>5, <3>2, <3>5 DEF Covered
  <2> QED
    BY <1>1, <2>6, <2>7 DEF Posted
<1> QED
  BY <1>7, <1>8

\* The reader that clears a counter is loading from then on.
LEMMA ClearCovers ==
  ASSUME IInv, UnreadCovers, NEW h \in Handlers, ClearUnread(h)
  PROVE  UnreadCovers'
<1> DEFINE j == job[h]
<1>1. /\ j \in Request /\ j.thread \in Threads /\ thread[j.thread] # None /\ j.side \in Sides
  BY ThreadRequest DEF ClearUnread
<1>2. JobAt(h, "messages") /\ thread' = [thread EXCEPT ![j.thread].unread[j.side] = 0]
      /\ UNCHANGED <<message, loaded, cut>>
  BY DEF ClearUnread
<1>3. PICK r \in Request : /\ r.pc = "load" /\ r.thread = j.thread /\ r.side = j.side
                           /\ job' = [job EXCEPT ![h] = r]
  <2> DEFINE q == [j EXCEPT !.pc = "load"]
  <2>1. q \in Request /\ q.pc = "load" /\ q.thread = j.thread /\ q.side = j.side
    BY <1>1 DEF Request
  <2>2. job' = [job EXCEPT ![h] = q]
    BY DEF ClearUnread
  <2> HIDE DEF q
  <2> QED
    BY <2>1, <2>2
<1>4. job'[h] = r /\ \A g \in Handlers : g # h => job'[g] = job[g]
  BY <1>3, JobSet DEF IInv
<1>5. r # None
  BY DiscussionAssumption
<1>6. (JobAt(h, "load"))' /\ job'[h].thread = j.thread /\ job'[h].side = j.side
  BY <1>3, <1>4, <1>5 DEF JobAt
<1> SUFFICES ASSUME NEW t \in Threads, NEW side \in Sides PROVE Covered(t, side)'
  BY DEF UnreadCovers, Covered, Missed
<1>7. Covered(t, side)
  BY CoversAll
<1>8. CASE t = j.thread /\ side = j.side
  <2>1. Loading(t, side)'
    BY <1>6, <1>8 DEF Loading
  <2> QED
    BY <2>1 DEF Covered
<1>9. CASE ~(t = j.thread /\ side = j.side)
  <2>1. Loading(t, side) => Loading(t, side)'
    <3>1. ASSUME NEW g \in Handlers, JobAt(g, "load"), job[g].thread = t, job[g].side = side
          PROVE  (JobAt(g, "load") /\ job[g].thread = t /\ job[g].side = side)'
      <4>1. g # h
        BY <1>2, <3>1 DEF JobAt
      <4> QED
        BY <1>4, <3>1, <4>1 DEF JobAt
    <3> QED
      BY <3>1 DEF Loading
  <2>2. thread'[t] # None => thread[t] # None /\ thread'[t].unread[side] = thread[t].unread[side]
    <3>1. TypeInv /\ 0 \in Nat
      BY DEF IInv
    <3>2. /\ \A s \in Threads : s # j.thread => thread'[s] = thread[s]
          /\ \A s \in Sides : s # j.side =>
               thread'[j.thread].unread[s] = thread[j.thread].unread[s]
      <4> PICK at, of : at = j.thread /\ of = j.side
        OBVIOUS
      <4>1. at \in Threads /\ thread[at] # None /\ of \in Sides
        BY <1>1
      <4>2. Recounted(at, of, 0)
        BY <1>2 DEF Recounted
      <4>3. /\ \A s \in Threads : s # at => thread'[s] = thread[s]
            /\ \A s \in Sides : s # of => thread'[at].unread[s] = thread[at].unread[s]
        BY <3>1, <4>1, <4>2, CounterEdit
      <4> QED
        BY <4>3
    <3> QED
      BY <1>1, <1>9, <3>2
  <2> QED
    BY <1>2, <1>7, <2>1, <2>2, CoveredKeeps
<1> QED
  BY <1>8, <1>9

\* The reader that has loaded them has been given all.
LEMMA LoadCovers ==
  ASSUME IInv, UnreadCovers, NEW h \in Handlers, LoadMessages(h)
  PROVE  UnreadCovers'
<1> PICK t, side : t = job[h].thread /\ side = job[h].side
  OBVIOUS
<1>1. t \in Threads /\ side \in Sides
  BY ThreadRequest DEF LoadMessages
<1>2. /\ loaded' = [loaded EXCEPT ![t][side] = loaded[t][side] \cup MessagesOf(t)]
      /\ cut' = cut \ {<<t, side>>} /\ Finish(h) /\ thread' = thread /\ message' = message
  BY DEF LoadMessages
<1>3. MessagesOf(t) \in SUBSET Messages
  BY DEF MessagesOf
<1>4. /\ loaded'[t][side] = loaded[t][side] \cup MessagesOf(t)
      /\ \A s \in Threads, o \in Sides : s # t \/ o # side => loaded'[s][o] = loaded[s][o]
  BY <1>1, <1>2, <1>3 DEF IInv, TypeInv
<1>5. \A g \in Handlers : g # h => job'[g] = job[g]
  BY <1>2 DEF Finish, IInv, TypeInv
<1> SUFFICES ASSUME NEW s \in Threads, NEW o \in Sides PROVE Covered(s, o)'
  BY DEF UnreadCovers, Covered, Missed
<1>6. Covered(s, o)
  BY CoversAll
<1>7. CASE s = t /\ o = side
  <2>1. From(Other(o), s)' \subseteq loaded'[s][o]
    BY <1>2, <1>4, <1>7 DEF From, MessagesOf
  <2>2. Missed(s, o)' = {}
    BY <2>1 DEF Missed
  <2>3. Cardinality(Missed(s, o)') = 0
    BY <2>2, FS_EmptySet
  <2>4. thread[s] # None => thread[s].unread[o] \in Nat
    BY RowTypes DEF IInv, CourseConversation
  <2> QED
    BY <1>2, <2>3, <2>4 DEF Covered
<1>8. CASE s # t \/ o # side
  <2>1. Loading(s, o) => Loading(s, o)'
    <3>1. ASSUME NEW g \in Handlers, JobAt(g, "load"), job[g].thread = s, job[g].side = o
          PROVE  (JobAt(g, "load") /\ job[g].thread = s /\ job[g].side = o)'
      <4>1. g # h
        BY <1>8, <3>1
      <4> QED
        BY <1>5, <3>1, <4>1 DEF JobAt
    <3> QED
      BY <3>1 DEF Loading
  <2>2. <<s, o>> \in cut => <<s, o>> \in cut'
    BY <1>2, <1>8
  <2> QED
    BY <1>2, <1>4, <1>6, <1>8, <2>1, <2>2, CoveredKeeps
<1> QED
  BY <1>7, <1>8

\* The reader that is cut off in between is remembered.
LEMMA AbandonCovers ==
  ASSUME IInv, UnreadCovers, NEW h \in Handlers, Abandon(h)
  PROVE  UnreadCovers'
<1> SUFFICES ASSUME NEW s \in Threads, NEW o \in Sides PROVE Covered(s, o)'
  BY DEF UnreadCovers, Covered, Missed
<1>1. Covered(s, o)
  BY CoversAll
<1>2. UNCHANGED <<thread, message, loaded>> /\ Finish(h)
  BY DEF Abandon
<1>3. \A g \in Handlers : g # h => job'[g] = job[g]
  BY <1>2 DEF Finish, IInv, TypeInv
<1>4. <<s, o>> \in cut => <<s, o>> \in cut'
  BY DEF Abandon
<1>5. CASE JobAt(h, "load") /\ job[h].thread = s /\ job[h].side = o
  <2>1. <<s, o>> \in cut'
    BY <1>5 DEF Abandon
  <2> QED
    BY <2>1 DEF Covered
<1>6. CASE ~(JobAt(h, "load") /\ job[h].thread = s /\ job[h].side = o)
  <2>1. Loading(s, o) => Loading(s, o)'
    <3>1. ASSUME NEW g \in Handlers, JobAt(g, "load"), job[g].thread = s, job[g].side = o
          PROVE  (JobAt(g, "load") /\ job[g].thread = s /\ job[g].side = o)'
      <4>1. g # h
        BY <1>6, <3>1
      <4> QED
        BY <1>3, <3>1, <4>1 DEF JobAt
    <3> QED
      BY <3>1 DEF Loading
  <2> QED
    BY <1>1, <1>2, <1>4, <2>1, CoveredKeeps
<1> QED
  BY <1>5, <1>6

\* Every step keeps every message counted.
LEMMA CoversStep == IInv /\ UnreadCovers /\ [Next]_vars => UnreadCovers'
<1> SUFFICES ASSUME IInv, UnreadCovers, [Next]_vars PROVE UnreadCovers'
  OBVIOUS
<1>1. ASSUME UNCHANGED <<thread, message, loaded, cut>>,
             \A t \in Threads, side \in Sides : Loading(t, side)' <=> Loading(t, side)
      PROVE  UnreadCovers'
  <2>1. ASSUME NEW t \in Threads, NEW side \in Sides PROVE Covered(t, side)'
    BY <1>1, CoversAll, CoveredKeeps
  <2> QED
    BY <2>1 DEF UnreadCovers, Covered, Missed
<1>2. ASSUME NEW h \in Handlers, Asks(h) PROVE UnreadCovers'
  <2>1. job[h] = None /\ UNCHANGED <<thread, message, loaded, cut>>
    BY <1>2 DEF Asks, CreateConversation, Authorize
  <2>2. \E r \in Request : job' = [job EXCEPT ![h] = r] /\ r.pc # "load"
    <3>1. ASSUME NEW u \in Students, CreateConversation(h, u)
          PROVE  \E r \in Request : job' = [job EXCEPT ![h] = r] /\ r.pc # "load"
      <4>1. u \in Users /\ "student" \in Sides
        BY DEF Users, Sides
      <4>2. Snapshot(u, "student", None) \in Request /\ Snapshot(u, "student", None).pc = "post"
        BY <4>1, SnapshotRequest
      <4>3. job' = [job EXCEPT ![h] = Snapshot(u, "student", None)]
        BY <3>1 DEF CreateConversation
      <4> QED
        BY <4>2, <4>3
    <3>2. ASSUME NEW u \in Users, NEW t \in Threads, NEW what \in {"messages", "reply", "status"},
                 Authorize(h, u, t, what)
          PROVE  \E r \in Request : job' = [job EXCEPT ![h] = r] /\ r.pc # "load"
      <4>1. what # "load"
        OBVIOUS
      <4> QED
        BY <3>2, <4>1, AuthorizedRequest
    <3> QED
      BY <1>2, <3>1, <3>2 DEF Asks
  <2>3. PICK r \in Request : job' = [job EXCEPT ![h] = r] /\ r.pc # "load"
    BY <2>2
  <2>4. ~JobAt(h, "load")
    BY <2>1 DEF JobAt
  <2>5. \A t \in Threads, side \in Sides : Loading(t, side)' <=> Loading(t, side)
    BY <2>3, <2>4, LoadingSame DEF IInv
  <2> QED
    BY <1>1, <2>1, <2>5
<1>3. ASSUME NEW h \in Handlers, Reply(h) PROVE UnreadCovers'
  <2>1. ~JobAt(h, "load") /\ UNCHANGED <<thread, message, loaded, cut>>
    BY <1>3 DEF Reply, JobAt
  <2>2. PICK r : r = Snapshot(job[h].user, job[h].side, job[h].thread)
    OBVIOUS
  <2>3. job' = [job EXCEPT ![h] = r] /\ r.pc # "load"
    BY <1>3, <2>2 DEF Reply, Snapshot
  <2>4. r \in Request
    <3>1. job' \in [Handlers -> Request \cup {None}]
      BY <1>3, ReplyInv DEF IInv, TypeInv
    <3>2. job'[h] = r
      BY <2>3 DEF IInv, TypeInv
    <3>3. r # None
      <4>1. job[h] \in Request /\ Authorized(job[h]) /\ job[h].pc = "reply"
        BY <1>3, RowTypes DEF Reply, JobAt, IInv, RequestsInv
      <4>2. job[h].side = "student" => job[h].user \in Students
        BY <4>1 DEF Authorized
      <4>3. job[h].thread # None /\ thread[job[h].thread] # None
        BY <4>1 DEF Authorized
      <4>4. job[h].user \in Users /\ job[h].side \in Sides /\ job[h].thread \in Threads \cup {None}
        BY <4>1 DEF Request
      <4>5. r \in Request
        BY <2>2, <4>2, <4>3, <4>4, SnapshotType DEF IInv
      <4> QED
        BY <4>5, DiscussionAssumption
    <3> QED
      BY <3>1, <3>2, <3>3
  <2>5. \A t \in Threads, side \in Sides : Loading(t, side)' <=> Loading(t, side)
    BY <2>1, <2>3, <2>4, LoadingSame DEF IInv
  <2> QED
    BY <1>1, <2>1, <2>5
<1>4. ASSUME NEW h \in Handlers, NEW status \in Statuses, UpdateStatus(h, status)
      PROVE  UnreadCovers'
  <2> PICK t : t = job[h].thread
    OBVIOUS
  <2>1. t \in Threads /\ thread[t] # None
    BY <1>4, ThreadRequest DEF UpdateStatus
  <2>2. /\ thread' = [thread EXCEPT ![t].status = status] /\ UNCHANGED <<message, loaded, cut>>
        /\ job' = [job EXCEPT ![h] = None] /\ ~JobAt(h, "load") /\ None \in Request \cup {None}
    BY <1>4 DEF UpdateStatus, Finish, JobAt
  <2>3. \A s \in Threads : thread'[s] # None =>
          thread[s] # None /\ thread'[s].unread = thread[s].unread
    <3>1. TypeInv
      BY DEF IInv
    <3>2. /\ thread'[t].unread = thread[t].unread
          /\ \A s \in Threads : s # t => thread'[s] = thread[s]
      BY <2>1, <2>2, <3>1, StatusEdit
    <3> QED
      BY <2>1, <3>2
  <2>4. ASSUME NEW s \in Threads, NEW side \in Sides PROVE Covered(s, side)'
    <3>1. Loading(s, side)' <=> Loading(s, side)
      BY <2>2, LoadingSame DEF IInv
    <3> QED
      BY <2>2, <2>3, <3>1, CoversAll, CoveredKeeps
  <2> QED
    BY <2>4 DEF UnreadCovers, Covered, Missed
<1>5. ASSUME UNCHANGED <<thread, message, loaded, cut, job>> PROVE UnreadCovers'
  <2>1. \A t \in Threads, side \in Sides : Loading(t, side)' <=> Loading(t, side)
    BY <1>5 DEF Loading, JobAt
  <2> QED
    BY <1>1, <1>5, <2>1
<1>6. ASSUME NEW u \in Users, MarkAllNotificationsRead(u) PROVE UnreadCovers'
  BY <1>5, <1>6 DEF MarkAllNotificationsRead
<1>7. CASE AssignInstructor
  BY <1>5, <1>7 DEF AssignInstructor
<1>8. CASE AwardStep /\ UNCHANGED talk
  BY <1>5, <1>8 DEF talk
<1>9. CASE UNCHANGED vars
  BY <1>5, <1>9 DEF vars, talk
<1>10. ASSUME NEW h \in Handlers, NEW u \in Users,
              DashboardRequest(h, u) \/ InstructorRequest(h, u) \/ AdminRequest(h, u)
       PROVE  UnreadCovers'
  BY <1>2, <1>10, RequestsAsk
<1> QED
  BY <1>3, <1>4, <1>6, <1>7, <1>8, <1>9, <1>10,
     PostCovers, ClearCovers, LoadCovers, AbandonCovers DEF Next

\* The counter of unread messages never misses one that its side has not been
\* given, though a reader clears it in one statement and reads in the next and
\* the other side may post between them: only a reader cut off there can lose it.
THEOREM UnreadIsCounted == Spec => []UnreadCovers
<1>1. Init => UnreadCovers
  BY DEF Init, UnreadCovers
<1> QED
  BY <1>1, ConversationInvariant, CoversStep, PTL DEF Spec

-----------------------------------------------------------------------------
(* What a ledger is worth. *)

\* Points one by one: with each row, as many numbers as its award is worth.
PointsOf(rows) == {p \in rows \X Nat : p[2] \in 1 .. Points[KindOf(p[1][2])]}

\* An award is worth a natural number.
LEMMA PointsType ==
  ASSUME NEW ref
  PROVE  KindOf(ref) \in Kinds /\ Points[KindOf(ref)] \in Nat
BY RewardsAssumption DEF KindOf, Kinds

\* The points of finitely many rows are finitely many.
LEMMA PointsFinite ==
  ASSUME NEW rows, IsFiniteSet(rows)
  PROVE  IsFiniteSet(PointsOf(rows)) /\ Cardinality(PointsOf(rows)) \in Nat
<1> DEFINE a == Points["discussion_participated"]
           b == Points["event_attended"]
           c == Points["material_downloaded"]
           top == a + b + c
<1>1. a \in Nat /\ b \in Nat /\ c \in Nat
  BY RewardsAssumption DEF Kinds
<1>2. \A k \in Kinds : Points[k] <= top
  BY <1>1 DEF Kinds
<1>3. top \in Nat
  BY <1>1
<1> HIDE DEF top
<1>4. PointsOf(rows) \subseteq rows \X (1 .. top)
  BY <1>2, <1>3, PointsType DEF PointsOf
<1>5. IsFiniteSet(rows \X (1 .. top))
  <2>1. IsFiniteSet(1 .. top)
    BY <1>3, FS_Interval
  <2> QED
    BY <2>1, FS_Product
<1> QED
  BY <1>4, <1>5, FS_Subset, FS_CardinalityType

\* Taking out one row takes out its points.
LEMMA PointsOfOne ==
  ASSUME NEW rows, IsFiniteSet(rows), NEW row \in rows
  PROVE  Cardinality(PointsOf(rows)) =
           Points[KindOf(row[2])] + Cardinality(PointsOf(rows \ {row}))
<1> DEFINE n == Points[KindOf(row[2])]
           new == {<<row, i>> : i \in 1 .. n}
           rest == PointsOf(rows \ {row})
<1>1. n \in Nat
  BY PointsType
<1>2. PointsOf(rows) = rest \cup new
  BY <1>1 DEF PointsOf
<1>3. rest \cap new = {}
  BY DEF PointsOf
<1>4. IsFiniteSet(rest) /\ Cardinality(rest) \in Nat
  BY PointsFinite, FS_Subset
<1> HIDE DEF n, rest
<1>5. IsFiniteSet(1 .. n) /\ Cardinality(1 .. n) = n
  BY <1>1, FS_Interval
<1>6. IsFiniteSet(new) /\ Cardinality(new) = n
  <2> DEFINE f == [i \in 1 .. n |-> <<row, i>>]
  <2>1. f \in Bijection(1 .. n, new)
    BY DEF Bijection, Injection, Surjection, IsInjective
  <2>2. ExistsBijection(1 .. n, new)
    BY <2>1 DEF ExistsBijection
  <2> QED
    BY <1>5, <2>2, FS_Bijection
<1> HIDE DEF new
<1>7. Cardinality(PointsOf(rows)) = Cardinality(rest) + n - Cardinality({})
  BY <1>2, <1>3, <1>4, <1>6, FS_Union
<1>8. Cardinality({}) = 0
  BY FS_EmptySet
<1> QED
  BY <1>1, <1>4, <1>7, <1>8 DEF n, rest

\* Two functions that add up a set of rows by taking out one at a time agree.
LEMMA SumIsCount ==
  ASSUME NEW rows, IsFiniteSet(rows)
  PROVE  MapThenSumSet(LAMBDA row : Points[KindOf(row[2])], rows) = Cardinality(PointsOf(rows))
<1> DEFINE c(s) == CHOOSE x \in s : TRUE
           w(row) == Points[KindOf(row[2])]
           body(g, s) == IF s = {} THEN 0 ELSE w(c(s)) + g[s \ {c(s)}]
           Defines(g) == g = [s \in SUBSET rows |-> body(g, s)]
           f == CHOOSE g : Defines(g)
           count == [s \in SUBSET rows |-> Cardinality(PointsOf(s))]
<1>1. MapThenSumSet(LAMBDA row : Points[KindOf(row[2])], rows) = f[rows]
  BY DEF MapThenSumSet, MapThenFoldSet
<1>2. ASSUME NEW s \in SUBSET rows, s # {} PROVE c(s) \in s
  BY <1>2
<1> HIDE DEF c
<1>3. PointsOf({}) = {} /\ Cardinality({}) = 0
  BY FS_EmptySet DEF PointsOf
<1>4. ASSUME NEW s \in SUBSET rows PROVE count[s] = body(count, s)
  <2>1. CASE s = {}
    BY <1>3, <2>1
  <2>2. CASE s # {}
    <3>1. c(s) \in s /\ IsFiniteSet(s)
      BY <1>2, <2>2, FS_Subset
    <3>2. Cardinality(PointsOf(s)) = w(c(s)) + Cardinality(PointsOf(s \ {c(s)}))
      BY <3>1, PointsOfOne
    <3> QED
      BY <2>2, <3>2
  <2> QED
    BY <2>1, <2>2
<1>5. Defines(count)
  BY <1>4
<1>6. Defines(f)
  <2> HIDE DEF Defines, count
  <2> QED
    BY <1>5
<1>7. ASSUME NEW s \in SUBSET rows PROVE f[s] = body(f, s)
  <2> HIDE DEF f, body
  <2>1. f = [t \in SUBSET rows |-> body(f, t)]
    BY <1>6
  <2> QED
    BY <2>1
<1> HIDE DEF f, count, Defines
<1>8. ASSUME NEW s \in SUBSET rows, f[s] # count[s] PROVE FALSE
  <2> DEFINE wrong == {t \in SUBSET rows : f[t] # count[t]}
             order == StrictSubsetOrdering(rows)
  <2>1. IsWellFoundedOn(order, SUBSET rows)
    BY FS_StrictSubsetOrderingWellFounded, FS_FiniteSubsetsOfFinite
  <2>2. wrong \subseteq SUBSET rows /\ wrong # {}
    BY <1>8
  <2> HIDE DEF wrong, order
  <2>3. PICK t \in wrong : \A r \in wrong : <<r, t>> \notin order
    BY <2>1, <2>2, WFMin
  <2>4. t \in SUBSET rows /\ f[t] # count[t]
    BY DEF wrong
  <2>5. t # {}
    BY <1>4, <1>7, <2>4
  <2>6. c(t) \in t
    BY <1>2, <2>4, <2>5
  <2>7. t \ {c(t)} \in SUBSET rows /\ <<t \ {c(t)}, t>> \in order
    BY <2>4, <2>6 DEF order, StrictSubsetOrdering
  <2>8. f[t \ {c(t)}] = count[t \ {c(t)}]
    BY <2>3, <2>7 DEF wrong
  <2> QED
    BY <1>4, <1>7, <2>4, <2>5, <2>8
<1> QED
  BY <1>1, <1>8 DEF count

\* A user's XP is so many points.
LEMMA XPIsCount ==
  ASSUME NEW u, NEW rows, IsFiniteSet(rows)
  PROVE  TotalXP(u, rows) = Cardinality(PointsOf(RowsOf(u, rows)))
<1>1. IsFiniteSet(RowsOf(u, rows))
  BY FS_Subset DEF RowsOf
<1> QED
  BY <1>1, SumIsCount DEF TotalXP

\* Who has more awards has earned no less.
LEMMA EarnedGrows ==
  ASSUME NEW u, NEW rows, NEW more, IsFiniteSet(rows), IsFiniteSet(more),
         RowsOf(u, rows) \subseteq RowsOf(u, more)
  PROVE  Earned(u, rows) \subseteq Earned(u, more)
<1>1. IsFiniteSet(RowsOf(u, more))
  BY FS_Subset DEF RowsOf
<1>2. /\ TotalXP(u, rows) \in Nat /\ TotalXP(u, more) \in Nat
      /\ TotalXP(u, rows) <= TotalXP(u, more)
  <2>1. PointsOf(RowsOf(u, rows)) \subseteq PointsOf(RowsOf(u, more))
    BY DEF PointsOf
  <2>2. IsFiniteSet(RowsOf(u, rows))
    BY <1>1, FS_Subset
  <2> QED
    BY <1>1, <2>1, <2>2, PointsFinite, XPIsCount, FS_Subset
<1>3. ASSUME NEW kind
      PROVE  /\ CountOf(u, kind, rows) \in Nat /\ CountOf(u, kind, more) \in Nat
             /\ CountOf(u, kind, rows) <= CountOf(u, kind, more)
  <2> DEFINE S(r) == {row \in RowsOf(u, r) : KindOf(row[2]) = kind}
  <2>1. S(rows) \subseteq S(more) /\ IsFiniteSet(S(more))
    BY <1>1, FS_Subset
  <2>2. Cardinality(S(rows)) <= Cardinality(S(more)) /\ IsFiniteSet(S(rows))
    BY <2>1, FS_Subset
  <2>3. Cardinality(S(rows)) \in Nat /\ Cardinality(S(more)) \in Nat
    BY <2>1, <2>2, FS_CardinalityType
  <2> QED
    BY <2>2, <2>3 DEF CountOf
<1>4. ASSUME NEW b \in Badges, Unlocked(u, b, rows) PROVE Unlocked(u, b, more)
  <2> DEFINE rule == Achievement[b]
  <2>1. rule.required \in Nat /\ rule.threshold \in Nat
    BY RewardsAssumption DEF Rule
  <2> HIDE DEF rule
  <2>2. CASE rule.required > 0 /\ TotalXP(u, rows) >= rule.required
    <3>1. TotalXP(u, more) >= rule.required
      BY <1>2, <2>1, <2>2
    <3> QED
      BY <2>2, <3>1 DEF Unlocked, rule
  <2>3. CASE /\ rule.event # None /\ rule.threshold > 0
             /\ CountOf(u, rule.event, rows) >= rule.threshold
    <3>1. CountOf(u, rule.event, more) >= rule.threshold
      BY <1>3, <2>1, <2>3
    <3> QED
      BY <2>3, <3>1 DEF Unlocked, rule
  <2> QED
    BY <1>4, <2>2, <2>3 DEF Unlocked, rule
<1> QED
  BY <1>4 DEF Earned

\* What a user has earned depends on his rows only.
LEMMA EarnedByRows ==
  ASSUME NEW u, NEW rows, NEW more, RowsOf(u, rows) = RowsOf(u, more)
  PROVE  Earned(u, rows) = Earned(u, more)
BY DEF Earned, Unlocked, TotalXP, CountOf

-----------------------------------------------------------------------------
(* Badges agree with the ledger. *)

\* A request has read of its user's rows and badges nothing that is not there.
Seen(j) == j.seen \subseteq RowsOf(j.user, ledger) /\ j.held \subseteq BadgesOf(j.user)
SnapshotsInv == \A h \in Handlers : job[h] # None => Seen(job[h])

\* Whoever unlocks badges unlocks what his user has earned.
Justified(c) == c.pc = "unlock" => c.todo \subseteq Earned(c.user, ledger)
LooksInv == \A k \in Clerks : clerk[k] # None => Justified(clerk[k])

\* Someone is about to make the user's badges what they should be, or they are,
\* unless the last look missed part of the ledger.
WillSync(u) == \E k \in Clerks : clerk[k] # None /\ clerk[k].pc = "sync" /\ clerk[k].user = u
WillUnlock(u) ==
  \E k \in Clerks : /\ clerk[k] # None /\ clerk[k].pc = "unlock" /\ clerk[k].user = u
                    /\ Earned(u, ledger) \subseteq BadgesOf(u) \cup clerk[k].todo
Complete(u) ==
  u \in lapsed \/ WillSync(u) \/ WillUnlock(u) \/ Earned(u, ledger) \subseteq BadgesOf(u)

HoldersInv == \A u \in Students : BadgesOf(u) \subseteq Earned(u, ledger) /\ Complete(u)

BInv == SnapshotsInv /\ LooksInv /\ HoldersInv

\* This implies the property.
LEMMA BadgesFromInv ==
  ASSUME IInv, BInv
  PROVE  BadgesComplete
BY DEF BInv, HoldersInv, Complete, WillSync, WillUnlock, BadgesComplete

\* A ledger is finite.
LEMMA FiniteLedger ==
  ASSUME NEW rows \in SUBSET (Students \X References)
  PROVE  IsFiniteSet(rows)
<1>1. IsFiniteSet(References)
  <2>1. IsFiniteSet(Messages \cup Gatherings)
    BY RewardsAssumption, FS_Union
  <2> QED
    BY <2>1, RewardsAssumption, FS_Union DEF References
<1>2. IsFiniteSet(Students \X References)
  BY <1>1, RewardsAssumption, FS_Product
<1> QED
  BY <1>2, FS_Subset

\* A step leaves a request with what it has read, or lets it read what there is.
LEMMA StepReads ==
  ASSUME IInv, [Next]_vars, NEW h \in Handlers, job'[h] # None
  PROVE  \/ /\ job[h] # None /\ job'[h].user = job[h].user
            /\ job'[h].seen = job[h].seen /\ job'[h].held = job[h].held
         \/ /\ job'[h].seen \subseteq RowsOf(job'[h].user, ledger)
            /\ job'[h].held \subseteq BadgesOf(job'[h].user)
<1> DEFINE Same == /\ job[h] # None /\ job'[h].user = job[h].user
                   /\ job'[h].seen = job[h].seen /\ job'[h].held = job[h].held
           Fresh == /\ job'[h].seen \subseteq RowsOf(job'[h].user, ledger)
                    /\ job'[h].held \subseteq BadgesOf(job'[h].user)
<1>1. job \in [Handlers -> Request \cup {None}]
  BY DEF IInv, TypeInv
<1>2. ASSUME NEW g \in Handlers, NEW r, job' = [job EXCEPT ![g] = r],
             \/ r = None
             \/ r.seen \subseteq RowsOf(r.user, ledger) /\ r.held \subseteq BadgesOf(r.user)
             \/ /\ job[g] # None /\ r.user = job[g].user
                /\ r.seen = job[g].seen /\ r.held = job[g].held
      PROVE  Same \/ Fresh
  <2>1. job'[h] = IF h = g THEN r ELSE job[h]
    BY <1>1, <1>2
  <2> QED
    BY <1>2, <2>1
<1>3. ASSUME NEW u, NEW side, NEW t, NEW s, s = Snapshot(u, side, t)
      PROVE  s.seen \subseteq RowsOf(s.user, ledger) /\ s.held \subseteq BadgesOf(s.user)
  BY <1>3 DEF Snapshot
<1>4. CASE job' = job
  BY <1>4
<1>5. ASSUME NEW g \in Handlers, Asks(g) PROVE Same \/ Fresh
  <2>1. ASSUME NEW u \in Users, CreateConversation(g, u) PROVE Same \/ Fresh
    BY <2>1, <1>2, <1>3 DEF CreateConversation
  <2>2. ASSUME NEW u \in Users, NEW t \in Threads, NEW what, Authorize(g, u, t, what)
        PROVE  Same \/ Fresh
    <3> DEFINE r == [pc |-> what, user |-> u, side |-> SideOf(u, t), thread |-> t,
                     seen |-> {}, held |-> {}, to |-> {}]
    <3>1. job' = [job EXCEPT ![g] = r]
      BY <2>2 DEF Authorize
    <3>2. r.seen = {} /\ r.held = {}
      OBVIOUS
    <3> HIDE DEF r
    <3> QED
      BY <3>1, <3>2, <1>2
  <2> QED
    BY <1>5, <2>1, <2>2 DEF Asks
<1>6. ASSUME NEW g \in Handlers, Reply(g) PROVE Same \/ Fresh
  BY <1>6, <1>2, <1>3 DEF Reply
<1>7. ASSUME NEW g \in Handlers, ClearUnread(g) PROVE Same \/ Fresh
  <2> DEFINE r == [job[g] EXCEPT !.pc = "load"]
  <2>1. job[g] # None /\ job' = [job EXCEPT ![g] = r]
    BY <1>7 DEF ClearUnread, JobAt
  <2>2. job[g] \in Request
    BY <1>1, <2>1
  <2>3. r.user = job[g].user /\ r.seen = job[g].seen /\ r.held = job[g].held
    BY <2>2 DEF Request
  <2> HIDE DEF r
  <2> QED
    BY <2>1, <2>3, <1>2
<1>8. ASSUME NEW g \in Handlers, Finish(g) PROVE Same \/ Fresh
  BY <1>8, <1>2 DEF Finish
<1>9. CASE AwardStep /\ UNCHANGED talk
  BY <1>4, <1>9 DEF talk
<1>10. CASE UNCHANGED vars
  BY <1>4, <1>10 DEF vars, talk
<1>11. CASE \E u \in Users : MarkAllNotificationsRead(u)
  BY <1>4, <1>11 DEF MarkAllNotificationsRead
<1>12. CASE AssignInstructor
  BY <1>4, <1>12 DEF AssignInstructor
<1>13. ASSUME NEW g \in Handlers,
              Post(g) \/ LoadMessages(g) \/ Abandon(g)
       PROVE  Same \/ Fresh
  BY <1>8, <1>13 DEF Post, LoadMessages, Abandon
<1>14. ASSUME NEW g \in Handlers, NEW u \in Users,
              DashboardRequest(g, u) \/ InstructorRequest(g, u) \/ AdminRequest(g, u)
       PROVE  Same \/ Fresh
  BY <1>5, <1>14, RequestsAsk
<1>15. ASSUME NEW g \in Handlers, NEW status \in Statuses, UpdateStatus(g, status)
       PROVE  Same \/ Fresh
  BY <1>8, <1>15 DEF UpdateStatus
<1>16. CASE Next
  <2>1. ASSUME NEW g \in Handlers,
               \/ \E u \in Users : DashboardRequest(g, u) \/ InstructorRequest(g, u) \/ AdminRequest(g, u)
               \/ Reply(g) \/ Post(g) \/ ClearUnread(g) \/ LoadMessages(g) \/ Abandon(g)
               \/ \E status \in Statuses : UpdateStatus(g, status)
        PROVE  Same \/ Fresh
    BY <1>6, <1>7, <1>13, <1>14, <1>15, <2>1
  <2> QED
    BY <1>9, <1>11, <1>12, <1>16, <2>1 DEF Next
<1> QED
  BY <1>10, <1>16

\* A step that takes no award and no badge back leaves requests with what is there.
LEMMA SnapshotsKeep ==
  ASSUME IInv, SnapshotsInv, [Next]_vars, ledger \subseteq ledger', badges \subseteq badges'
  PROVE  SnapshotsInv'
<1> SUFFICES ASSUME NEW h \in Handlers, job'[h] # None
             PROVE  /\ job'[h].seen \subseteq RowsOf(job'[h].user, ledger')
                    /\ job'[h].held \subseteq {b \in Badges : <<job'[h].user, b>> \in badges'}
  BY DEF SnapshotsInv, Seen, BadgesOf
<1>1. /\ job'[h].seen \subseteq RowsOf(job'[h].user, ledger)
      /\ job'[h].held \subseteq BadgesOf(job'[h].user)
  <2>1. job[h] # None => /\ job[h].seen \subseteq RowsOf(job[h].user, ledger)
                         /\ job[h].held \subseteq BadgesOf(job[h].user)
    BY DEF SnapshotsInv, Seen
  <2> QED
    BY <2>1, StepReads
<1> QED
  BY <1>1 DEF RowsOf, BadgesOf

\* The steps of an award, by what they change: nothing that a badge depends on;
Unmoved(k) ==
  /\ clerk[k] # None => clerk[k].pc = "award"
  /\ clerk'[k] # None => clerk'[k].pc = "award"
  /\ UNCHANGED <<ledger, badges, lapsed>>
\* a new row;
Awarded(k) ==
  /\ clerk[k] # None /\ clerk[k].pc = "award"
  /\ ledger' = ledger \cup {<<clerk[k].user, clerk[k].ref>>}
  /\ clerk'[k] # None /\ clerk'[k].pc = "sync" /\ clerk'[k].user = clerk[k].user
  /\ UNCHANGED <<badges, lapsed>>
\* a look at the ledger;
LookedUp(k) ==
  /\ clerk[k] # None /\ clerk[k].pc = "sync"
  /\ lapsed' = lapsed \ {clerk[k].user}
  /\ \/ Earned(clerk[k].user, ledger) = {} /\ clerk'[k] = None
     \/ /\ clerk'[k] # None /\ clerk'[k].pc = "unlock" /\ clerk'[k].user = clerk[k].user
        /\ clerk'[k].todo = Earned(clerk[k].user, ledger)
  /\ UNCHANGED <<ledger, badges>>
\* one badge given;
GaveBadge(k, b) ==
  /\ clerk[k] # None /\ clerk[k].pc = "unlock" /\ b \in clerk[k].todo
  /\ badges' = badges \cup {<<clerk[k].user, b>>}
  /\ \/ clerk[k].todo = {b} /\ clerk'[k] = None
     \/ /\ clerk'[k] # None /\ clerk'[k].pc = "unlock" /\ clerk'[k].user = clerk[k].user
        /\ clerk'[k].todo = clerk[k].todo \ {b}
  /\ UNCHANGED <<ledger, lapsed>>
\* the rest left undone.
LeftOff(k) ==
  /\ clerk[k] # None /\ clerk[k].pc # "award"
  /\ clerk'[k] = None /\ lapsed' = lapsed \cup {clerk[k].user}
  /\ UNCHANGED <<ledger, badges>>

\* There are no others.
LEMMA AwardMoves ==
  ASSUME TypeInv, AwardStep
  PROVE  \E k \in Clerks :
           /\ \A i \in Clerks : i # k => clerk'[i] = clerk[i]
           /\ \/ Unmoved(k) \/ Awarded(k) \/ LookedUp(k) \/ LeftOff(k)
              \/ \E b \in Badges : GaveBadge(k, b)
<1> PICK k \in Clerks :
      \/ \E u \in Students : \/ \E e \in Gatherings : AttendEvent(k, u, e)
                             \/ \E f \in Files : DownloadProductFile(k, u, f)
      \/ AwardXP(k) \/ SyncUserAchievements(k) \/ AbandonAward(k)
      \/ \E b \in Badges : UnlockBadge(k, b)
  BY DEF AwardStep
<1> DEFINE Goal == /\ \A i \in Clerks : i # k => clerk'[i] = clerk[i]
                   /\ \/ Unmoved(k) \/ Awarded(k) \/ LookedUp(k) \/ LeftOff(k)
                      \/ \E b \in Badges : GaveBadge(k, b)
<1>1. clerk \in [Clerks -> Award \cup {None}]
  BY DEF TypeInv
<1>2. clerk[k] # None => clerk[k] \in Award
  BY <1>1
<1>3. DoneWith(k) => clerk'[k] = None /\ \A i \in Clerks : i # k => clerk'[i] = clerk[i]
  BY <1>1 DEF DoneWith
<1>4. ASSUME NEW r, clerk' = [clerk EXCEPT ![k] = r]
      PROVE  clerk'[k] = r /\ \A i \in Clerks : i # k => clerk'[i] = clerk[i]
  BY <1>1, <1>4
<1>5. \A r \in Award : r # None
  BY NoneAssumption
<1>6. ASSUME NEW u, NEW ref, clerk[k] = None, clerk' = Begin(k, u, ref),
             UNCHANGED <<ledger, badges, lapsed>>
      PROVE  Goal
  BY <1>4, <1>6 DEF Begin, Unmoved
<1>7. CASE \E u \in Students : \/ \E e \in Gatherings : AttendEvent(k, u, e)
                               \/ \E f \in Files : DownloadProductFile(k, u, f)
  BY <1>6, <1>7 DEF AttendEvent, DownloadProductFile
<1>8. CASE AwardXP(k)
  <2>1. /\ clerk[k] # None /\ clerk[k].pc = "award" /\ UNCHANGED <<badges, lapsed>>
        /\ ledger' = ledger \cup {<<clerk[k].user, clerk[k].ref>>}
    BY <1>8 DEF AwardXP, ClerkAt
  <2>2. CASE <<clerk[k].user, clerk[k].ref>> \in ledger
    <3>1. DoneWith(k) /\ ledger' = ledger
      BY <1>8, <2>1, <2>2 DEF AwardXP
    <3> QED
      BY <1>3, <2>1, <3>1 DEF Unmoved
  <2>3. CASE <<clerk[k].user, clerk[k].ref>> \notin ledger
    <3> DEFINE r == [clerk[k] EXCEPT !.pc = "sync"]
    <3>1. clerk' = [clerk EXCEPT ![k] = r]
      BY <1>8, <2>3 DEF AwardXP
    <3>2. r \in Award /\ r.pc = "sync" /\ r.user = clerk[k].user
      BY <1>2, <2>1 DEF Award
    <3> HIDE DEF r
    <3> QED
      BY <1>4, <1>5, <2>1, <3>1, <3>2 DEF Awarded
  <2> QED
    BY <2>2, <2>3
<1>9. CASE SyncUserAchievements(k)
  <2> DEFINE all == Earned(clerk[k].user, ledger)
  <2>1. /\ clerk[k] # None /\ clerk[k].pc = "sync" /\ UNCHANGED <<ledger, badges>>
        /\ lapsed' = lapsed \ {clerk[k].user}
    BY <1>9 DEF SyncUserAchievements, ClerkAt
  <2>2. CASE all = {}
    <3>1. DoneWith(k)
      BY <1>9, <2>2 DEF SyncUserAchievements
    <3> QED
      BY <1>3, <2>1, <2>2, <3>1 DEF LookedUp
  <2>3. CASE all # {}
    <3> DEFINE r == [clerk[k] EXCEPT !.pc = "unlock", !.todo = all]
    <3>1. clerk' = [clerk EXCEPT ![k] = r]
      <4>1. clerk' = [clerk EXCEPT ![k].pc = "unlock", ![k].todo = all]
        BY <1>9, <2>3 DEF SyncUserAchievements
      <4> HIDE DEF all
      <4> QED
        BY <4>1, <1>1
    <3>2. all \in SUBSET Badges
      BY DEF Earned
    <3>3. r \in Award /\ r.pc = "unlock" /\ r.user = clerk[k].user /\ r.todo = all
      <4> HIDE DEF all
      <4> QED
        BY <1>2, <2>1, <3>2 DEF Award
    <3> HIDE DEF r
    <3> QED
      BY <1>4, <1>5, <2>1, <3>1, <3>3 DEF LookedUp
  <2> QED
    BY <2>2, <2>3
<1>10. CASE AbandonAward(k)
  BY <1>3, <1>10 DEF AbandonAward, Unmoved, LeftOff
<1>11. ASSUME NEW b \in Badges, UnlockBadge(k, b) PROVE Goal
  <2>1. /\ clerk[k] # None /\ clerk[k].pc = "unlock" /\ b \in clerk[k].todo
        /\ badges' = badges \cup {<<clerk[k].user, b>>} /\ UNCHANGED <<ledger, lapsed>>
    BY <1>11 DEF UnlockBadge, ClerkAt
  <2>2. CASE clerk[k].todo = {b}
    <3>1. DoneWith(k)
      BY <1>11, <2>2 DEF UnlockBadge
    <3> QED
      BY <1>3, <2>1, <2>2, <3>1 DEF GaveBadge
  <2>3. CASE clerk[k].todo # {b}
    <3> DEFINE r == [clerk[k] EXCEPT !.todo = clerk[k].todo \ {b}]
    <3>1. clerk' = [clerk EXCEPT ![k] = r]
      BY <1>11, <2>3 DEF UnlockBadge
    <3>2. r \in Award /\ r.pc = "unlock" /\ r.user = clerk[k].user /\ r.todo = clerk[k].todo \ {b}
      BY <1>2, <2>1 DEF Award
    <3> HIDE DEF r
    <3> QED
      BY <1>4, <1>5, <2>1, <3>1, <3>2 DEF GaveBadge
  <2> QED
    BY <2>2, <2>3
<1> QED
  BY <1>7, <1>8, <1>9, <1>10, <1>11

\* A user whose rows, badges and awards under way stay is as before.
LEMMA HolderKeeps ==
  ASSUME NEW u \in Students, BadgesOf(u) \subseteq Earned(u, ledger), Complete(u),
         RowsOf(u, ledger') = RowsOf(u, ledger),
         \A b \in Badges : <<u, b>> \in badges' <=> <<u, b>> \in badges,
         u \in lapsed => u \in lapsed',
         \A k \in Clerks : clerk[k] # None /\ clerk[k].pc # "award" /\ clerk[k].user = u =>
           clerk'[k] = clerk[k]
  PROVE  (BadgesOf(u) \subseteq Earned(u, ledger) /\ Complete(u))'
<1>1. Earned(u, ledger') = Earned(u, ledger)
  BY EarnedByRows
<1>2. BadgesOf(u)' = BadgesOf(u)
  BY DEF BadgesOf
<1>3. CASE WillSync(u)
  BY <1>1, <1>2, <1>3 DEF WillSync, Complete
<1>4. CASE WillUnlock(u)
  BY <1>1, <1>2, <1>4 DEF WillUnlock, Complete
<1> QED
  BY <1>1, <1>2, <1>3, <1>4 DEF Complete

\* As the ledger grows, what is about to be unlocked stays earned.
LEMMA LooksKeep ==
  ASSUME IInv, IInv', LooksInv, NEW k \in Clerks, ledger \subseteq ledger',
         \A i \in Clerks : i # k => clerk'[i] = clerk[i],
         clerk'[k] # None /\ clerk'[k].pc = "unlock" =>
           clerk'[k].todo \subseteq Earned(clerk'[k].user, ledger)
  PROVE  LooksInv'
<1>1. ASSUME NEW u PROVE Earned(u, ledger) \subseteq Earned(u, ledger')
  <2>1. IsFiniteSet(ledger) /\ IsFiniteSet(ledger')
    BY FiniteLedger DEF IInv, TypeInv
  <2>2. RowsOf(u, ledger) \subseteq RowsOf(u, ledger')
    BY DEF RowsOf
  <2> QED
    BY <2>1, <2>2, EarnedGrows
<1> SUFFICES ASSUME NEW i \in Clerks, clerk'[i] # None, clerk'[i].pc = "unlock"
             PROVE  clerk'[i].todo \subseteq Earned(clerk'[i].user, ledger')
  BY DEF LooksInv, Justified
<1>2. clerk'[i].todo \subseteq Earned(clerk'[i].user, ledger)
  BY DEF LooksInv, Justified
<1> QED
  BY <1>1, <1>2

\* The steps of awards keep the invariant.
LEMMA AwardsBadges ==
  ASSUME IInv, IInv', BInv, AwardStep
  PROVE  LooksInv' /\ HoldersInv'
<1> PICK k \in Clerks :
      /\ \A i \in Clerks : i # k => clerk'[i] = clerk[i]
      /\ \/ Unmoved(k) \/ Awarded(k) \/ LookedUp(k) \/ LeftOff(k)
         \/ \E b \in Badges : GaveBadge(k, b)
  BY AwardMoves DEF IInv
<1> DEFINE c == clerk[k]
           Holds(u) == BadgesOf(u) \subseteq Earned(u, ledger) /\ Complete(u)
<1>1. \A u \in Students : Holds(u)
  BY DEF BInv, HoldersInv
<1>2. LooksInv
  BY DEF BInv
<1>3. c # None => c \in Award /\ c.user \in Students /\ Justified(c)
  BY <1>2, RowTypes DEF IInv, Award, LooksInv
<1>4. ASSUME \A u \in Students : Holds(u)' PROVE HoldersInv'
  BY <1>4 DEF HoldersInv
<1>5. CASE Unmoved(k)
  <2>1. LooksInv'
    BY <1>2, <1>5, LooksKeep DEF Unmoved
  <2>2. ASSUME NEW u \in Students PROVE Holds(u)'
    BY <1>1, <1>5, HolderKeeps DEF Unmoved
  <2> QED
    BY <1>4, <2>1, <2>2
<1>6. CASE Awarded(k)
  <2>1. LooksInv'
    BY <1>2, <1>6, LooksKeep DEF Awarded
  <2>2. ASSUME NEW u \in Students, u # c.user PROVE Holds(u)'
    <3>1. RowsOf(u, ledger') = RowsOf(u, ledger)
      BY <1>6, <2>2 DEF Awarded, RowsOf
    <3>2. \A i \in Clerks : clerk[i] # None /\ clerk[i].user = u => clerk'[i] = clerk[i]
      BY <2>2
    <3> QED
      BY <1>1, <1>6, <3>1, <3>2, HolderKeeps DEF Awarded
  <2>3. ASSUME NEW u \in Students, u = c.user PROVE Holds(u)'
    <3>1. IsFiniteSet(ledger) /\ IsFiniteSet(ledger')
      BY FiniteLedger DEF IInv, TypeInv
    <3>2. RowsOf(u, ledger) \subseteq RowsOf(u, ledger')
      BY <1>6 DEF Awarded, RowsOf
    <3>3. Earned(u, ledger) \subseteq Earned(u, ledger')
      BY <3>1, <3>2, EarnedGrows
    <3>4. BadgesOf(u)' = BadgesOf(u)
      BY <1>6 DEF Awarded, BadgesOf
    <3>5. Complete(u)'
      BY <1>6, <2>3 DEF Awarded, Complete, WillSync
    <3> QED
      BY <1>1, <3>3, <3>4, <3>5
  <2> QED
    BY <1>4, <2>1, <2>2, <2>3
<1>7. CASE LookedUp(k)
  <2>1. LooksInv'
    BY <1>2, <1>7, LooksKeep DEF LookedUp
  <2>2. ASSUME NEW u \in Students, u # c.user PROVE Holds(u)'
    <3>1. \A i \in Clerks : clerk[i] # None /\ clerk[i].user = u => clerk'[i] = clerk[i]
      BY <2>2
    <3> QED
      BY <1>1, <1>7, <2>2, <3>1, HolderKeeps DEF LookedUp
  <2>3. ASSUME NEW u \in Students, u = c.user PROVE Holds(u)'
    <3>1. Earned(u, ledger') = Earned(u, ledger) /\ BadgesOf(u)' = BadgesOf(u)
      BY <1>7 DEF LookedUp, BadgesOf
    <3>2. Complete(u)'
      BY <1>7, <2>3, <3>1 DEF LookedUp, Complete, WillUnlock
    <3> QED
      BY <1>1, <3>1, <3>2
  <2> QED
    BY <1>4, <2>1, <2>2, <2>3
<1>8. CASE LeftOff(k)
  <2>1. LooksInv'
    BY <1>2, <1>8, LooksKeep DEF LeftOff
  <2>2. ASSUME NEW u \in Students, u # c.user PROVE Holds(u)'
    <3>1. \A i \in Clerks : clerk[i] # None /\ clerk[i].user = u => clerk'[i] = clerk[i]
      BY <2>2
    <3> QED
      BY <1>1, <1>8, <3>1, HolderKeeps DEF LeftOff
  <2>3. ASSUME NEW u \in Students, u = c.user PROVE Holds(u)'
    <3>1. Earned(u, ledger') = Earned(u, ledger) /\ BadgesOf(u)' = BadgesOf(u)
      BY <1>8 DEF LeftOff, BadgesOf
    <3>2. Complete(u)'
      BY <1>8, <2>3 DEF LeftOff, Complete
    <3> QED
      BY <1>1, <3>1, <3>2
  <2> QED
    BY <1>4, <2>1, <2>2, <2>3
<1>9. ASSUME NEW b \in Badges, GaveBadge(k, b) PROVE LooksInv' /\ HoldersInv'
  <2>1. c.todo \subseteq Earned(c.user, ledger)
    BY <1>3, <1>9 DEF GaveBadge, Justified
  <2>2. LooksInv'
    BY <1>2, <1>9, <2>1, LooksKeep DEF GaveBadge
  <2>3. ASSUME NEW u \in Students, u # c.user PROVE Holds(u)'
    <3>1. \A i \in Clerks : clerk[i] # None /\ clerk[i].user = u => clerk'[i] = clerk[i]
      BY <2>3
    <3>2. \A a \in Badges : <<u, a>> \in badges' <=> <<u, a>> \in badges
      BY <1>9, <2>3 DEF GaveBadge
    <3> QED
      BY <1>1, <1>9, <3>1, <3>2, HolderKeeps DEF GaveBadge
  <2>4. ASSUME NEW u \in Students, u = c.user PROVE Holds(u)'
    <3>1. Earned(u, ledger') = Earned(u, ledger) /\ BadgesOf(u)' = BadgesOf(u) \cup {b}
      BY <1>9, <2>4 DEF GaveBadge, BadgesOf
    <3>2. BadgesOf(u)' \subseteq Earned(u, ledger')
      BY <1>1, <1>9, <2>1, <2>4, <3>1 DEF GaveBadge
    <3>3. CASE u \in lapsed
      BY <1>9, <3>3, <3>2 DEF GaveBadge, Complete
    <3>4. CASE WillSync(u)
      <4>1. PICK i \in Clerks : clerk[i] # None /\ clerk[i].pc = "sync" /\ clerk[i].user = u
        BY <3>4 DEF WillSync
      <4>2. i # k
        BY <1>9, <4>1 DEF GaveBadge
      <4> QED
        BY <4>1, <4>2, <3>2 DEF WillSync, Complete
    <3>5. CASE WillUnlock(u)
      <4>1. PICK i \in Clerks :
              /\ clerk[i] # None /\ clerk[i].pc = "unlock" /\ clerk[i].user = u
              /\ Earned(u, ledger) \subseteq BadgesOf(u) \cup clerk[i].todo
        BY <3>5 DEF WillUnlock
      <4>2. CASE i # k
        BY <4>1, <4>2, <3>1, <3>2 DEF WillUnlock, Complete
      <4>3. CASE i = k /\ clerk'[k] = None
        BY <1>9, <4>1, <4>3, <3>1, <3>2 DEF GaveBadge, Complete
      <4>4. CASE i = k /\ clerk'[k] # None
        <5>1. /\ clerk'[k].pc = "unlock" /\ clerk'[k].user = u
              /\ clerk'[k].todo = clerk[k].todo \ {b}
          BY <1>9, <2>4, <4>4 DEF GaveBadge
        <5> QED
          BY <4>1, <4>4, <5>1, <3>1, <3>2 DEF WillUnlock, Complete
      <4> QED
        BY <4>2, <4>3, <4>4
    <3>6. CASE Earned(u, ledger) \subseteq BadgesOf(u)
      BY <3>1, <3>2, <3>6 DEF Complete
    <3> QED
      BY <1>1, <3>3, <3>4, <3>5, <3>6 DEF Complete
  <2> QED
    BY <1>4, <2>2, <2>3, <2>4
<1> QED
  BY <1>5, <1>6, <1>7, <1>8, <1>9

\* What a post does to the rewards: nothing, or its student's award.
Rewarded(j, m) ==
  /\ ledger' = ledger \cup {<<j.user, m>>}
  /\ badges' = badges \cup ({j.user} \X Given(j, m))
  /\ lapsed' = IF RowsOf(j.user, ledger) \subseteq j.seen THEN lapsed \ {j.user}
               ELSE lapsed \cup {j.user}

\* What a post's award leaves its student with.
LEMMA PostBadges ==
  ASSUME IInv, IInv', BInv, NEW j, NEW m, j.side = "student", j.user \in Students, Seen(j),
         Rewarded(j, m), clerk' = clerk
  PROVE  LooksInv' /\ HoldersInv'
<1> DEFINE u == j.user
           more == j.seen \cup {<<u, m>>}
<1>1. IsFiniteSet(ledger) /\ IsFiniteSet(ledger')
  BY FiniteLedger DEF IInv, TypeInv
<1>2. ASSUME NEW v PROVE Earned(v, ledger) \subseteq Earned(v, ledger')
  <2>1. RowsOf(v, ledger) \subseteq RowsOf(v, ledger')
    BY DEF RowsOf, Rewarded
  <2> QED
    BY <1>1, <2>1, EarnedGrows
<1>3. LooksInv'
  BY <1>2 DEF BInv, LooksInv, Justified
<1>4. Given(j, m) = Earned(u, more) \ j.held
  BY DEF Given
<1>5. RowsOf(u, more) \subseteq RowsOf(u, ledger') /\ IsFiniteSet(more)
  <2>1. more \subseteq ledger'
    BY DEF Seen, RowsOf, Rewarded
  <2> QED
    BY <1>1, <2>1, FS_Subset DEF RowsOf
<1>6. Earned(u, more) \subseteq Earned(u, ledger')
  BY <1>1, <1>5, EarnedGrows
<1>7. BadgesOf(u)' = BadgesOf(u) \cup Given(j, m)
  <2>1. Given(j, m) \subseteq Badges
    BY <1>4 DEF Earned
  <2> QED
    BY <2>1 DEF Rewarded, BadgesOf
<1>8. BadgesOf(u)' \subseteq Earned(u, ledger')
  <2>1. BadgesOf(u) \subseteq Earned(u, ledger)
    BY DEF BInv, HoldersInv
  <2> QED
    BY <1>2, <1>4, <1>6, <1>7, <2>1
<1>9. Complete(u)'
  <2>1. CASE RowsOf(u, ledger) \subseteq j.seen
    <3>1. RowsOf(u, ledger') = RowsOf(u, more)
      BY <2>1 DEF Seen, RowsOf, Rewarded
    <3>2. Earned(u, ledger') = Earned(u, more)
      BY <3>1, EarnedByRows
    <3> QED
      BY <1>4, <1>7, <3>2 DEF Seen, Complete
  <2>2. CASE ~(RowsOf(u, ledger) \subseteq j.seen)
    BY <2>2 DEF Rewarded, Complete
  <2> QED
    BY <2>1, <2>2
<1>10. ASSUME NEW v \in Students, v # u
       PROVE  (BadgesOf(v) \subseteq Earned(v, ledger) /\ Complete(v))'
  <2>1. RowsOf(v, ledger') = RowsOf(v, ledger)
    BY <1>10 DEF RowsOf, Rewarded
  <2>2. \A b \in Badges : <<v, b>> \in badges' <=> <<v, b>> \in badges
    BY <1>10 DEF Rewarded
  <2>3. v \in lapsed => v \in lapsed'
    BY <1>10 DEF Rewarded
  <2> QED
    BY <2>1, <2>2, <2>3, HolderKeeps DEF BInv, HoldersInv
<1> QED
  BY <1>3, <1>8, <1>9, <1>10 DEF HoldersInv

\* Every step keeps the invariant.
LEMMA BadgesStep == IInv /\ BInv /\ [Next]_vars => BInv'
<1> SUFFICES ASSUME IInv, BInv, [Next]_vars PROVE BInv'
  OBVIOUS
<1>1. IInv'
  BY StepInv
<1>2. ASSUME ledger' = ledger, badges' = badges, clerk' = clerk, lapsed' = lapsed PROVE BInv'
  <2>1. SnapshotsInv'
    BY <1>2, SnapshotsKeep DEF BInv
  <2>2. LooksInv'
    BY <1>2 DEF BInv, LooksInv, Justified
  <2>3. HoldersInv'
    BY <1>2, HolderKeeps DEF BInv, HoldersInv
  <2> QED
    BY <2>1, <2>2, <2>3 DEF BInv
<1>3. ASSUME UNCHANGED rewards PROVE BInv'
  BY <1>2, <1>3 DEF rewards
<1>4. ASSUME NEW h \in Handlers, Post(h) PROVE BInv'
  <2> DEFINE j == job[h]
             m == First(Unused(message))
  <2>1. j # None /\ j \in Request /\ Authorized(j) /\ Seen(j)
    BY <1>4, RowTypes DEF Post, JobAt, IInv, RequestsInv, BInv, SnapshotsInv
  <2>2. Reward(j, m)
    BY <1>4 DEF Post
  <2> HIDE DEF j, m
  <2>3. CASE j.side = "staff"
    BY <1>3, <2>2, <2>3 DEF Reward
  <2>4. CASE j.side = "student"
    <3>1. Rewarded(j, m) /\ clerk' = clerk
      BY <2>2, <2>4 DEF Reward, Rewarded
    <3>2. j.user \in Students
      BY <2>1, <2>4 DEF Authorized
    <3>3. LooksInv' /\ HoldersInv'
      BY <1>1, <2>1, <2>4, <3>1, <3>2, PostBadges
    <3>4. SnapshotsInv'
      BY <3>1, SnapshotsKeep DEF BInv, Rewarded
    <3> QED
      BY <3>3, <3>4 DEF BInv
  <2> QED
    BY <2>1, <2>3, <2>4 DEF Request, Sides
<1>5. CASE AwardStep /\ UNCHANGED talk
  <2>1. LooksInv' /\ HoldersInv'
    BY <1>1, <1>5, AwardsBadges
  <2>2. ledger \subseteq ledger' /\ badges \subseteq badges'
    BY <1>5, AwardMoves DEF IInv, Unmoved, Awarded, LookedUp, GaveBadge, LeftOff
  <2> QED
    BY <2>1, <2>2, SnapshotsKeep DEF BInv
<1>6. ASSUME NEW h \in Handlers, Asks(h) PROVE BInv'
  BY <1>3, <1>6 DEF Asks, CreateConversation, Authorize
<1>7. ASSUME NEW h \in Handlers, NEW u \in Users,
             DashboardRequest(h, u) \/ InstructorRequest(h, u) \/ AdminRequest(h, u)
      PROVE  BInv'
  BY <1>6, <1>7, RequestsAsk
<1>8. ASSUME NEW h \in Handlers, Reply(h) \/ ClearUnread(h) \/ LoadMessages(h) \/ Abandon(h)
      PROVE  BInv'
  BY <1>3, <1>8 DEF Reply, ClearUnread, LoadMessages, Abandon
<1>9. ASSUME NEW h \in Handlers, NEW status \in Statuses, UpdateStatus(h, status) PROVE BInv'
  BY <1>3, <1>9 DEF UpdateStatus
<1>10. ASSUME NEW u \in Users, MarkAllNotificationsRead(u) PROVE BInv'
  BY <1>3, <1>10 DEF MarkAllNotificationsRead
<1>11. CASE AssignInstructor
  BY <1>3, <1>11 DEF AssignInstructor
<1>12. CASE UNCHANGED vars
  BY <1>3, <1>12 DEF vars
<1> QED
  BY <1>4, <1>5, <1>7, <1>8, <1>9, <1>10, <1>11, <1>12 DEF Next

\* It holds at first.
LEMMA BadgesInit == Init => BInv
<1> SUFFICES ASSUME Init PROVE BInv
  OBVIOUS
<1>1. SnapshotsInv /\ LooksInv
  BY DEF Init, RewardsInit, SnapshotsInv, LooksInv
<1>2. ASSUME NEW u \in Students PROVE Earned(u, ledger) = {} /\ BadgesOf(u) = {}
  <2>1. ledger = {} /\ badges = {}
    BY DEF Init, RewardsInit
  <2>2. RowsOf(u, ledger) = {}
    BY <2>1 DEF RowsOf
  <2>3. TotalXP(u, ledger) = 0
    <3>1. PointsOf({}) = {}
      BY DEF PointsOf
    <3> QED
      BY <2>1, <2>2, <3>1, XPIsCount, FS_EmptySet
  <2>4. \A kind : CountOf(u, kind, ledger) = 0
    <3>1. ASSUME NEW kind PROVE {row \in RowsOf(u, ledger) : KindOf(row[2]) = kind} = {}
      BY <2>2
    <3> QED
      BY <3>1, FS_EmptySet DEF CountOf
  <2>5. ASSUME NEW b \in Badges PROVE ~Unlocked(u, b, ledger)
    <3>1. Achievement[b].required \in Nat /\ Achievement[b].threshold \in Nat
      BY RewardsAssumption DEF Rule
    <3> QED
      BY <2>3, <2>4, <3>1 DEF Unlocked
  <2> QED
    BY <2>1, <2>5 DEF Earned, BadgesOf
<1>3. HoldersInv
  BY <1>2 DEF HoldersInv, Complete
<1> QED
  BY <1>1, <1>3 DEF BInv

\* Whatever posts and awards come together, cut each other off or are made on a
\* snapshot: nobody holds a badge his ledger has not earned, and whoever has no
\* award under way holds all he has, unless the last one missed part of it.
THEOREM BadgesAreComplete == Spec => []BadgesComplete
<1>1. Init => IInv /\ BInv
  BY InitInv, BadgesInit
<1>2. IInv /\ BInv /\ [Next]_vars => (IInv /\ BInv)'
  BY StepInv, BadgesStep
<1>3. IInv /\ BInv => BadgesComplete
  BY BadgesFromInv
<1> QED
  BY <1>1, <1>2, <1>3, PTL DEF Spec
===============================================================================

------------------------------ MODULE Discussion ------------------------------
(***************************************************************************)
(* The conversations of a course, and the notifications they cause.        *)
(*                                                                         *)
(* A student asks, the teacher of the course (or, if it has none, any      *)
(* administrator) answers.  A request is authorized by reads of its own;   *)
(* what it then writes is one transaction, or for a reader two statements: *)
(* the counter of unread messages is cleared before the messages are read. *)
(***************************************************************************)
EXTENDS Rewards

CONSTANTS
  Teachers,  \* users who may be given the course
  Admins,
  Threads,   \* the ids conversations may get, in order (bound)
  Handlers   \* requests under way (bound)

VARIABLES
  teacher,  \* courses.instructor_id
  thread,   \* course_conversations
  message,  \* course_messages
  notices,  \* notifications about messages
  job,      \* requests under way
  loaded,   \* history: the messages each side of a thread has been given
  cut       \* history: <<thread, side>> whose last reader was cut off after clearing

talk == <<teacher, thread, message, notices, job, loaded, cut>>
vars == <<rewards, talk>>

-----------------------------------------------------------------------------
(* Rows and requests. *)

Users == Students \cup Teachers \cup Admins
Sides == {"student", "staff"}
Other(side) == IF side = "student" THEN "staff" ELSE "student"
Statuses == {"open", "resolved", "closed"}

CourseConversation == [student: Students, status: Statuses, unread: [Sides -> Nat]]
CourseMessage == [thread: Threads, author: Users, side: Sides]
Notification == [to: Users, about: Messages, read: BOOLEAN]
Request ==
  [pc: {"messages", "load", "reply", "status", "post"}, user: Users, side: Sides,
   thread: Threads \cup {None}, seen: SUBSET (Students \X References), held: SUBSET Badges,
   to: SUBSET Users]

ASSUME DiscussionAssumption ==
  /\ Threads \subseteq Nat /\ IsFiniteSet(Threads)
  /\ None \notin Users \cup Threads
  /\ None \notin CourseConversation /\ None \notin CourseMessage /\ None \notin Request

Init ==
  /\ RewardsInit
  /\ teacher \in Teachers \cup {None}
  /\ thread = [t \in Threads |-> None]
  /\ message = [m \in Messages |-> None]
  /\ notices = {}
  /\ job = [h \in Handlers |-> None]
  /\ loaded = [t \in Threads |-> [side \in Sides |-> {}]]
  /\ cut = {}

First(S) == CHOOSE n \in S : \A k \in S : n <= k
Unused(row) == {n \in DOMAIN row : row[n] = None}

-----------------------------------------------------------------------------
(* Who may do what. *)

\* authorizedConversation: the student's own thread, or a member of the staff.
SideOf(u, t) ==
  IF thread[t].student = u THEN "student"
  ELSE IF u \in Admins \/ u = teacher THEN "staff" ELSE None

\* The request as it goes on: with what it has read, which it will not read again.
Authorize(h, u, t, what) ==
  /\ job[h] = None /\ thread[t] # None
  /\ SideOf(u, t) # None
  /\ what = "reply" => thread[t].status # "closed"
  /\ what = "status" => SideOf(u, t) = "staff"
  /\ job' = [job EXCEPT ![h] =
       [pc |-> what, user |-> u, side |-> SideOf(u, t), thread |-> t,
        seen |-> {}, held |-> {}, to |-> {}]]
  /\ UNCHANGED <<rewards, teacher, thread, message, notices, loaded, cut>>

JobAt(h, pc) == job[h] # None /\ job[h].pc = pc
Finish(h) == job' = [job EXCEPT ![h] = None]

-----------------------------------------------------------------------------
(* Asking and answering. *)

\* notifyStaff, as the transaction's snapshot has it.
StaffFor(student) == (IF teacher # None THEN {teacher} ELSE Admins) \ {student}

\* The transaction begins: what it reads from now on is as it is now.
Snapshot(u, side, t) ==
  [pc |-> "post", user |-> u, side |-> side, thread |-> t,
   seen |-> IF side = "student" THEN RowsOf(u, ledger) ELSE {},
   held |-> IF side = "student" THEN BadgesOf(u) ELSE {},
   to |-> IF side = "student" THEN StaffFor(u) ELSE {thread[t].student}]

\* Enrolled students only; the enrollment is never taken back.
CreateConversation(h, u) ==
  /\ job[h] = None
  /\ job' = [job EXCEPT ![h] = Snapshot(u, "student", None)]
  /\ UNCHANGED <<rewards, teacher, thread, message, notices, loaded, cut>>

Reply(h) ==
  /\ JobAt(h, "reply")
  /\ job' = [job EXCEPT ![h] = Snapshot(job[h].user, job[h].side, job[h].thread)]
  /\ UNCHANGED <<rewards, teacher, thread, message, notices, loaded, cut>>

NewThread(u) == [student |-> u, status |-> "open", unread |-> [student |-> 0, staff |-> 1]]

\* A slip: the counter is set to one message instead of being raised by one.
CountAsOne(j, t) ==
  IF j.thread = None THEN [thread EXCEPT ![t] = NewThread(j.user)]
  ELSE [thread EXCEPT ![t].unread[Other(j.side)] = 1]

Counted(j, t) ==
  IF j.thread = None THEN [thread EXCEPT ![t] = NewThread(j.user)]
  ELSE [thread EXCEPT ![t].unread[Other(j.side)] = @ + 1]

\* A slip: the ledger is read on another connection, not in the transaction.
GivenOutside(j, m) ==
  IF j.side = "student" THEN Earned(j.user, j.seen) \ j.held ELSE {}

\* The student's award, inside the transaction: badges of which another request
\* has stored one in the meantime are a duplicate key, and nothing is kept.
Given(j, m) ==
  IF j.side = "student" THEN Earned(j.user, j.seen \cup {<<j.user, m>>}) \ j.held ELSE {}
Collides(j, m) == Given(j, m) \cap BadgesOf(j.user) # {}

\* A slip: an award that fails is ignored, as it is outside transactions.
RewardIfPossible(j, m) ==
  IF j.side = "staff" \/ Collides(j, m) THEN UNCHANGED rewards
  ELSE /\ ledger' = ledger \cup {<<j.user, m>>}
       /\ badges' = badges \cup ({j.user} \X Given(j, m))
       /\ lapsed' = IF RowsOf(j.user, ledger) \subseteq j.seen THEN lapsed \ {j.user}
                    ELSE lapsed \cup {j.user}
       /\ UNCHANGED <<attended, clerk>>

Reward(j, m) ==
  IF j.side = "staff" THEN UNCHANGED rewards
  ELSE /\ ~Collides(j, m)
       /\ ledger' = ledger \cup {<<j.user, m>>}
       /\ badges' = badges \cup ({j.user} \X Given(j, m))
       /\ lapsed' = IF RowsOf(j.user, ledger) \subseteq j.seen THEN lapsed \ {j.user}
                    ELSE lapsed \cup {j.user}
       /\ UNCHANGED <<attended, clerk>>

\* The commit: message, award, counter and notifications together.
Post(h) ==
  LET j == job[h]
      m == First(Unused(message))
      t == IF j.thread = None THEN First(Unused(thread)) ELSE j.thread
  IN  /\ JobAt(h, "post") /\ Unused(message) # {}
      /\ j.thread = None => Unused(thread) # {}
      /\ message' = [message EXCEPT ![m] = [thread |-> t, author |-> j.user, side |-> j.side]]
      /\ thread' = Counted(j, t)
      /\ notices' = notices \cup [to: j.to, about: {m}, read: {FALSE}]
      /\ Reward(j, m)
      /\ Finish(h)
      /\ UNCHANGED <<teacher, loaded, cut>>

-----------------------------------------------------------------------------
(* Reading. *)

MessagesOf(t) == {m \in Messages : message[m] # None /\ message[m].thread = t}

ClearUnread(h) ==
  LET j == job[h] IN
  /\ JobAt(h, "messages")
  /\ thread' = [thread EXCEPT ![j.thread].unread[j.side] = 0]
  /\ job' = [job EXCEPT ![h].pc = "load"]
  /\ UNCHANGED <<rewards, teacher, message, notices, loaded, cut>>

LoadMessages(h) ==
  LET j == job[h] IN
  /\ JobAt(h, "load")
  /\ loaded' = [loaded EXCEPT ![j.thread][j.side] = @ \cup MessagesOf(j.thread)]
  /\ cut' = cut \ {<<j.thread, j.side>>}
  /\ Finish(h)
  /\ UNCHANGED <<rewards, teacher, thread, message, notices>>

UpdateStatus(h, status) ==
  /\ JobAt(h, "status")
  /\ thread' = [thread EXCEPT ![job[h].thread].status = status]
  /\ Finish(h)
  /\ UNCHANGED <<rewards, teacher, message, notices, loaded, cut>>

MarkAllNotificationsRead(u) ==
  /\ \E n \in notices : n.to = u /\ ~n.read
  /\ notices' = {IF n.to = u THEN [n EXCEPT !.read = TRUE] ELSE n : n \in notices}
  /\ UNCHANGED <<rewards, teacher, thread, message, job, loaded, cut>>

-----------------------------------------------------------------------------
(* A request ends early; the course gets another teacher. *)

Abandon(h) ==
  /\ job[h] # None
  /\ Finish(h)
  /\ cut' = IF JobAt(h, "load") THEN cut \cup {<<job[h].thread, job[h].side>>} ELSE cut
  /\ UNCHANGED <<rewards, teacher, thread, message, notices, loaded>>

AssignInstructor ==
  /\ teacher' \in (Teachers \cup {None}) \ {teacher}
  /\ UNCHANGED <<rewards, thread, message, notices, job, loaded, cut>>

\* What each of the three sites offers.
DashboardRequest(h, u) ==
  \/ u \in Students /\ CreateConversation(h, u)
  \/ \E t \in Threads, what \in {"messages", "reply"} : Authorize(h, u, t, what)
InstructorRequest(h, u) ==
  u \in Teachers /\ \E t \in Threads, what \in {"messages", "reply", "status"} : Authorize(h, u, t, what)
AdminRequest(h, u) ==
  u \in Admins /\ \E t \in Threads, what \in {"messages", "reply", "status"} : Authorize(h, u, t, what)

Next ==
  \/ \E h \in Handlers :
       \/ \E u \in Users : DashboardRequest(h, u) \/ InstructorRequest(h, u) \/ AdminRequest(h, u)
       \/ Reply(h) \/ Post(h) \/ ClearUnread(h) \/ LoadMessages(h) \/ Abandon(h)
       \/ \E status \in Statuses : UpdateStatus(h, status)
  \/ \E u \in Users : MarkAllNotificationsRead(u)
  \/ AssignInstructor
  \/ AwardStep /\ UNCHANGED talk

Spec == Init /\ [][Next]_vars

-----------------------------------------------------------------------------
(* Safety. *)

From(side, t) == {m \in MessagesOf(t) : message[m].side = side}
Loading(t, side) ==
  \E h \in Handlers : JobAt(h, "load") /\ job[h].thread = t /\ job[h].side = side

\* A message that a side has not been given is in its counter of unread ones,
\* however replies and readers of that side come together: only a reader that
\* was cut off after clearing the counter can lose it.
UnreadCovers ==
  \A t \in Threads, side \in Sides :
    thread[t] # None /\ ~Loading(t, side) /\ <<t, side>> \notin cut =>
      Cardinality(From(Other(side), t) \ loaded[t][side]) <= thread[t].unread[side]

\* A message is posted whole.  A student's has its award and no notice to
\* himself, a member of the staff's has none and the student's notice; and no
\* award for a message and no notice is left of one that was not posted.
PostedWhole ==
  /\ \A m \in Messages : message[m] # None =>
       LET row == message[m] IN
       /\ row.side = "student" => <<row.author, m>> \in ledger
       /\ row.side = "staff" =>
            \E n \in notices : n.about = m /\ n.to = thread[row.thread].student
       /\ \A n \in notices : n.about = m => n.to # row.author
  /\ \A m \in Messages : message[m] = None =>
       /\ \A u \in Users : <<u, m>> \notin ledger
       /\ \A n \in notices : n.about # m

\* "closed conversation cannot receive replies": a thread is not closed when a
\* message is added to it.
ClosedGetsNoReplies ==
  [][\A m \in Messages :
       message[m] = None /\ message'[m] # None =>
         LET row == thread[message'[m].thread] IN row # None => row.status # "closed"]_vars
===============================================================================

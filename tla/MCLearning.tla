----------------------------- MODULE MCLearning -----------------------------
(* A small instance of Learning: two modules, two topics, a quiz with one   *)
(* question, and one row of every other kind.                               *)
EXTENDS Learning, TLC

MCKind == [x \in 1 .. 11 |->
  CASE x \in {1, 2} -> "module" [] x \in {3, 4} -> "topic" [] x = 5 -> "quiz"
    [] x = 6 -> "question" [] x = 7 -> "answer" [] x = 8 -> "block"
    [] x = 9 -> "assignment" [] x = 10 -> "attachment" [] x = 11 -> "addon"]

Row(p, o, d) == [parent |-> p, order |-> o, data |-> d]

\* A published course with every kind of row, whose quiz may be tried once and whose second
\* module opens a day later; so many edits and requests are used up.
Running(edited, asked) ==
  [course |-> [status |-> "open", owner |-> CHOOSE i \in Instructors : TRUE],
   rows |-> [x \in Ids |->
     CASE x = 1 -> Row(Course, 1, None) [] x = 2 -> Row(Course, 2, None)
       [] x = 3 -> Row(1, 1, None) [] x = 4 -> Row(2, 1, None)
       [] x = 5 -> Row(1, 2, [pass |-> 70, limit |-> 1])
       [] x = 6 -> Row(5, 0, [form |-> "choice"]) [] x = 7 -> Row(6, 0, [correct |-> TRUE])
       [] x \in {8, 9, 10} -> Row(3, 0, None) [] x = 11 -> Row(Course, 0, None)],
   drip |-> [m \in {1, 2} |-> m - 1], spent |-> edited, requests |-> asked]
\* A draft with one module, edited by both; no learner gets in before it is published.
Draft ==
  [course |-> [status |-> "draft", owner |-> CHOOSE i \in Instructors : TRUE],
   rows |-> [x \in Ids |-> CASE x = 1 -> Row(Course, 1, None) [] x = 3 -> Row(1, 1, None)
                            [] OTHER -> None],
   drip |-> [m \in {1, 2} |-> 0], spent |-> 0, requests |-> MaxRequests]
\* Nothing yet.
Empty ==
  [course |-> [status |-> "none", owner |-> None],
   rows |-> [x \in Ids |-> None], drip |-> [m \in {1, 2} |-> 0],
   spent |-> 0, requests |-> MaxRequests]
MCStartContent == {Running(MaxEdits, 0), Running(MaxEdits - 1, MaxRequests - 2), Draft, Empty}
=============================================================================

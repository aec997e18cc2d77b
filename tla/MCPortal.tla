------------------------------- MODULE MCPortal -------------------------------
(* Small instances of Sessions and of Hiring.  The two share no rows but the   *)
(* accounts that an invitation creates, which Sessions has: a run follows one  *)
(* of them while the other stays as it began.                                  *)
EXTENDS Sessions, Hiring, TLC

VARIABLE focus

Known(roles) == [password |-> 1, verified |-> TRUE, version |-> 0, roles |-> roles]
Begun == [password |-> 2, verified |-> FALSE, version |-> 0, roles |-> {"student"}]
Accounts(a, b) == [u \in Users |-> IF u = 1 THEN a ELSE b]
\* One administrator and an unused address, a begun registration, or another administrator.
MCStartAccounts ==
  {Accounts(Known({"admin"}), other) :
     other \in {None, Begun, Known({"admin", "student"})}}

Rows(S, row) == [n \in S |-> IF n = 1 THEN row ELSE Null]
Proposed(p) == [job |-> 1, person |-> p, status |-> "proposed"]
\* A job for one with two candidates who were proposed; and an approved inquiry.
Posted ==
  [inquiry |-> Rows(Inquiries, [status |-> "in_progress", headcount |-> 1]),
   job |-> Rows(Jobs, [inquiry |-> 1, positions |-> 1, status |-> "open"]),
   application |-> [a \in Applications |-> IF a \in People THEN Proposed(a) ELSE Null]]
Approved ==
  [inquiry |-> Rows(Inquiries, [status |-> "approved", headcount |-> 2]),
   job |-> Rows(Jobs, Null), application |-> Rows(Applications, Null)]
\* Somebody of the programme was placed, and an own job is open.
Placed ==
  [inquiry |-> Rows(Inquiries, Null),
   job |-> Rows(Jobs, [inquiry |-> Null, positions |-> 1, status |-> "open"]),
   application |-> Rows(Applications, [job |-> Null, person |-> 1, status |-> "placed"])]
MCStartPools == {Posted, Approved, Placed}

MCInit ==
  /\ Init /\ HiringInit /\ focus \in {"accounts", "talent"}
  /\ focus = "talent" => account = Accounts(Known({"admin"}), None)
  /\ focus = "accounts" => application[1] = Null
MCNext ==
  /\ UNCHANGED focus
  /\ \/ focus = "accounts" /\ SessionsNext /\ UNCHANGED hiringVars
     \/ focus = "talent" /\ HiringNext /\ UNCHANGED vars
MCSpec == MCInit /\ [][MCNext]_<<vars, hiringVars, focus>>

Symmetry == Permutations(Tabs) \union Permutations(Desks)
===============================================================================

----------------------------- MODULE MCDiscussion -----------------------------
(***************************************************************************)
(* Small instances of Discussion.  A behaviour leaves alone what its       *)
(* question is not about: one about the thread has one conversation of a   *)
(* student and a teacher, whose status stays, and no other awards; one     *)
(* about the rewards has two messages in all, of a student and an          *)
(* administrator, and no readers.                                          *)
(***************************************************************************)
EXTENDS Discussion, TLC

VARIABLE focus

MCHandlers == Permutations(Handlers)
MCPoints == [kind \in Kinds |-> IF kind = "event_attended" THEN 2 ELSE 1]
MCAchievement ==
  [b \in Badges |->
     IF b = "starter" THEN [required |-> 0, event |-> "discussion_participated", threshold |-> 1]
     ELSE [required |-> 2, event |-> None, threshold |-> 0]]

Working(pcs, users) ==
  \A h \in Handlers : job'[h] # None => job'[h].pc \in pcs /\ job'[h].user \in users

ThreadStep ==
  /\ Working({"messages", "load", "reply", "post"}, Students \cup Teachers)
  /\ \A t \in Threads : thread'[t] # None => t = First(Threads)
  /\ message' = message => notices' = notices
  /\ UNCHANGED clerk
RewardStep ==
  /\ Working({"reply", "status", "post"}, Students \cup Admins)
  /\ Cardinality({m \in Messages : message'[m] # None}) <= 2
  /\ UNCHANGED teacher

MCInit == Init /\ focus \in {"thread", "rewards"} /\ (focus = "rewards" => teacher = None)
MCNext ==
  /\ UNCHANGED focus
  /\ Next
  /\ IF focus = "thread" THEN ThreadStep ELSE RewardStep
MCSpec == MCInit /\ [][MCNext]_<<vars, focus>>
===============================================================================

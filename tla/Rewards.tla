-------------------------------- MODULE Rewards --------------------------------
(***************************************************************************)
(* XP and badges.                                                          *)
(*                                                                         *)
(* An award is a row of the ledger, at most one for a user and what it is  *)
(* for.  A new row makes the user's badges be looked at again.  A request  *)
(* outside a transaction does this statement by statement, and may end     *)
(* between two of them; the transactions that post a message (Discussion)  *)
(* do it on the snapshot they began with.                                  *)
(***************************************************************************)
EXTENDS Integers, FiniteSets, FiniteSetsExt

CONSTANTS
  Students,     \* users who are awarded something
  Messages,     \* the ids messages may get, in order (bound)
  Gatherings,   \* events one can attend
  Files,        \* product files one can download
  Badges,       \* the achievements
  Achievement,  \* the rule of each of them
  Points,       \* XP of each kind of award
  Clerks,       \* requests that award outside a transaction (bound)
  None          \* no row, nothing under way

Kinds == {"discussion_participated", "event_attended", "material_downloaded"}
Rule == [required: Nat, event: Kinds \cup {None}, threshold: Nat]

\* What an award is for; its kind follows from it.
References == Messages \cup Gatherings \cup Files
KindOf(ref) == CASE ref \in Messages   -> "discussion_participated"
                 [] ref \in Gatherings -> "event_attended"
                 [] OTHER              -> "material_downloaded"

ASSUME RewardsAssumption ==
  /\ Messages \subseteq Nat /\ IsFiniteSet(Messages)
  /\ IsFiniteSet(Gatherings) /\ IsFiniteSet(Files) /\ IsFiniteSet(Students)
  /\ Messages \cap Gatherings = {} /\ (Messages \cup Gatherings) \cap Files = {}
  /\ Points \in [Kinds -> Nat]
  /\ Achievement \in [Badges -> Rule]

VARIABLES
  ledger,    \* xp_ledger: <<user, reference>>
  badges,    \* user_achievements: <<user, badge>>
  attended,  \* event_attendances: <<user, event>>
  clerk,     \* requests under way
  lapsed     \* history: the last look at a user's badges missed part of his ledger

rewards == <<ledger, badges, attended, clerk, lapsed>>

Award == [pc: {"award", "sync", "unlock"}, user: Students, ref: References, todo: SUBSET Badges]

ASSUME NoneAssumption == None \notin Award /\ None \notin Kinds

RewardsInit ==
  /\ ledger = {} /\ badges = {} /\ attended = {}
  /\ clerk = [k \in Clerks |-> None]
  /\ lapsed = {}

-----------------------------------------------------------------------------
(* What a ledger is worth. *)

RowsOf(u, rows) == {row \in rows : row[1] = u}
TotalXP(u, rows) == MapThenSumSet(LAMBDA row : Points[KindOf(row[2])], RowsOf(u, rows))
CountOf(u, kind, rows) == Cardinality({row \in RowsOf(u, rows) : KindOf(row[2]) = kind})

Unlocked(u, b, rows) ==
  LET rule == Achievement[b] IN
  \/ rule.required > 0 /\ TotalXP(u, rows) >= rule.required
  \/ /\ rule.event # None /\ rule.threshold > 0
     /\ CountOf(u, rule.event, rows) >= rule.threshold

Earned(u, rows) == {b \in Badges : Unlocked(u, b, rows)}
BadgesOf(u) == {b \in Badges : <<u, b>> \in badges}

-----------------------------------------------------------------------------
(* The requests. *)

Begin(k, u, ref) == [clerk EXCEPT ![k] = [pc |-> "award", user |-> u, ref |-> ref, todo |-> {}]]

\* The attendance is recorded first; who is recorded already gets no award.
AttendEvent(k, u, e) ==
  /\ clerk[k] = None /\ <<u, e>> \notin attended
  /\ attended' = attended \cup {<<u, e>>}
  /\ clerk' = Begin(k, u, e)
  /\ UNCHANGED <<ledger, badges, lapsed>>

DownloadProductFile(k, u, f) ==
  /\ clerk[k] = None
  /\ clerk' = Begin(k, u, f)
  /\ UNCHANGED <<ledger, badges, attended, lapsed>>

ClerkAt(k, pc) == clerk[k] # None /\ clerk[k].pc = pc
DoneWith(k) == clerk' = [clerk EXCEPT ![k] = None]

\* FirstOrCreate: a row that is there already ends the award.
AwardXP(k) ==
  LET row == <<clerk[k].user, clerk[k].ref>> IN
  /\ ClerkAt(k, "award")
  /\ IF row \in ledger THEN DoneWith(k) ELSE clerk' = [clerk EXCEPT ![k].pc = "sync"]
  /\ ledger' = ledger \cup {row}
  /\ UNCHANGED <<badges, attended, lapsed>>

SyncUserAchievements(k) ==
  LET u == clerk[k].user IN
  /\ ClerkAt(k, "sync")
  /\ IF Earned(u, ledger) = {} THEN DoneWith(k)
     ELSE clerk' = [clerk EXCEPT ![k].pc = "unlock", ![k].todo = Earned(u, ledger)]
  /\ lapsed' = lapsed \ {u}
  /\ UNCHANGED <<ledger, badges, attended>>

UnlockBadge(k, b) ==
  /\ ClerkAt(k, "unlock") /\ b \in clerk[k].todo
  /\ badges' = badges \cup {<<clerk[k].user, b>>}
  /\ IF clerk[k].todo = {b} THEN DoneWith(k) ELSE clerk' = [clerk EXCEPT ![k].todo = @ \ {b}]
  /\ UNCHANGED <<ledger, attended, lapsed>>

\* A statement fails or the client goes away; nobody looks at the error.
AbandonAward(k) ==
  /\ clerk[k] # None
  /\ DoneWith(k)
  /\ lapsed' = IF clerk[k].pc = "award" THEN lapsed ELSE lapsed \cup {clerk[k].user}
  /\ UNCHANGED <<ledger, badges, attended>>

AwardStep ==
  \E k \in Clerks :
    \/ \E u \in Students : \/ \E e \in Gatherings : AttendEvent(k, u, e)
                           \/ \E f \in Files : DownloadProductFile(k, u, f)
    \/ AwardXP(k) \/ SyncUserAchievements(k) \/ AbandonAward(k)
    \/ \E b \in Badges : UnlockBadge(k, b)

-----------------------------------------------------------------------------
(* Safety. *)

\* Nobody holds a badge that his ledger has not earned.  Whoever has no award
\* under way holds all he has earned, unless the last award was cut off after
\* its row or was made on a snapshot that another award had overtaken; and an
\* award that sees the whole ledger makes up for earlier ones that did not.
BadgesComplete ==
  \A u \in Students :
    /\ BadgesOf(u) \subseteq Earned(u, ledger)
    /\ \/ u \in lapsed
       \/ \E k \in Clerks : clerk[k] # None /\ clerk[k].user = u /\ clerk[k].pc # "award"
       \/ BadgesOf(u) = Earned(u, ledger)
===============================================================================

-------------------------------- MODULE Hiring --------------------------------
(* The talent pool: companies ask for people, administrators turn what they    *)
(* ask for into jobs, people apply, companies decide on those proposed to      *)
(* them, and who found a place is invited to review the programme.             *)
(*                                                                             *)
(* A transaction that locks rows before it writes is two steps, and keeps its  *)
(* locks in between; one that cannot go on is rolled back.  The other handlers *)
(* are split where they read something and write later.  What people type in,  *)
(* files and mails are left out, except whether the mail with an invitation    *)
(* went out.                                                                   *)
EXTENDS Integers, FiniteSets

CONSTANTS
  Null,
  Inquiries, Jobs, Applications, \* the rows there may be (bounds)
  People,
  Headcounts,      \* positions a company may ask for (bound)
  Desks,           \* requests handled at once (bound)
  MaxCalls,        \* requests altogether (bound)
  MaxInvitations,  \* tokens of invitations to review (bound)
  StartPools       \* pools a run may begin with (bound)

ASSUME HiringAssumption ==
  /\ Headcounts \subseteq Nat \ {0} /\ MaxCalls \in Nat /\ MaxInvitations \in Nat
  /\ Jobs \subseteq Nat /\ Applications \subseteq Nat /\ Inquiries \subseteq Nat
  /\ Null \notin Jobs /\ Null \notin Inquiries
  /\ IsFiniteSet(Jobs) /\ IsFiniteSet(Applications)

\* "other" stands for new, contacted, rejected and the stages of the sales board.
InquiryStatuses == {"other", "approved", "drafted", "posted", "in_progress", "resolved"}
JobStatuses == {"draft", "open", "closed"}
\* "new" stands for new, screening, rejected and the stages of the sales board.
CandidateStatuses == {"new", "proposed", "interview", "declined", "hired"}

Inquiry == [status : InquiryStatuses, headcount : Headcounts]
Job == [inquiry : Inquiries \union {Null}, positions : Headcounts,
        status : JobStatuses \union {"deleted"}]
\* An application for a job, or one for the programme (Talent Bridge+), which has no job and
\* is placed instead of hired.
Application == [job : Jobs \union {Null}, person : People,
                status : CandidateStatuses \union {"placed"}]
Invitation == [token : 1 .. MaxInvitations, sent : BOOLEAN, used : BOOLEAN]

ASSUME NullAssumption ==
  Null \notin Inquiry /\ Null \notin Job /\ Null \notin Application /\ Null \notin Invitation

\* In a pool jobs name inquiries that are there, an inquiry has one job, and a person applied
\* once for a job.
ASSUME StartPoolsAssumption ==
  \A pool \in StartPools :
    /\ pool.inquiry \in [Inquiries -> Inquiry \union {Null}]
    /\ pool.job \in [Jobs -> Job \union {Null}]
    /\ pool.application \in [Applications -> Application \union {Null}]
    /\ \A j \in Jobs : pool.job[j] # Null /\ pool.job[j].inquiry # Null =>
         /\ pool.inquiry[pool.job[j].inquiry] # Null
         /\ \A k \in Jobs : (pool.job[k] # Null /\ pool.job[k].inquiry = pool.job[j].inquiry) => k = j
    /\ \A a, b \in Applications :
         /\ pool.application[a] # Null /\ pool.application[b] # Null
         /\ pool.application[a].job # Null /\ pool.application[a].job = pool.application[b].job
         /\ pool.application[a].person = pool.application[b].person
         => a = b

VARIABLES
  inquiry,  \* hiring_inquiries, or Null
  job,      \* talent_jobs, or Null
  application, \* talent_job_applications and talent_plus_applications, or Null
  invitation,  \* talent_review_invitations by application, or Null
  reviews,  \* testimonials written from an application's invitation
  desk,     \* the requests being handled
  calls,    \* requests so far
  tokens,   \* tokens of invitations so far
  doubled,  \* history: pairs of a person and a job for which two requests applied at once
  reopened  \* history: invitations a save made unused again
hiringTables == <<inquiry, job, application, invitation, reviews>>
hiringVars == <<hiringTables, desk, calls, tokens, doubled, reopened>>

Free == [at |-> "free"]
Work ==
  {Free} \union [at : {"create"}, inquiry : Inquiries]
  \union [at : {"draft"}, inquiry : Inquiries, found : Jobs \union {Null}]
  \union [at : {"apply"}, job : Jobs, person : People]
  \union [at : {"decide"}, application : Applications, decision : CandidateStatuses,
          hired : SUBSET Applications]
  \union [at : {"invite"}, application : Applications, force : BOOLEAN]
  \union [at : {"save"}, application : Applications, seen : Invitation \union {Null}]
  \union [at : {"mail"}, application : Applications]

HiringInit ==
  /\ \E pool \in StartPools :
       /\ inquiry = pool.inquiry /\ job = pool.job /\ application = pool.application
  /\ invitation = [a \in Applications |-> Null] /\ reviews = [a \in Applications |-> 0]
  /\ desk = [d \in Desks |-> Free] /\ calls = 0 /\ tokens = 0
  /\ doubled = {} /\ reopened = {}

-------------------------------------------------------------------------------
(* Rows and locks.                                                             *)

JobExists(j) == j \in Jobs /\ job[j] # Null /\ job[j].status # "deleted"
JobsOf(i) == {j \in Jobs : JobExists(j) /\ job[j].inquiry = i}
Hired(j) == {a \in Applications :
  application[a] # Null /\ application[a].job = j /\ application[a].status = "hired"}
NextRow(n, rows) == rows[n] = Null /\ \A m \in DOMAIN rows : m < n => rows[m] # Null

\* A decision locks the application, its job and the job's inquiry; drafting and creating a
\* job lock the inquiry.
ApplicationLocked(a) == \E d \in Desks : desk[d].at = "decide" /\ desk[d].application = a
JobLocked(j) ==
  \E d \in Desks : desk[d].at = "decide" /\ application[desk[d].application].job = j
InquiryLocked(i) ==
  \E d \in Desks :
    \/ desk[d].at \in {"create", "draft"} /\ desk[d].inquiry = i
    \/ desk[d].at = "decide" /\ job[application[desk[d].application].job].inquiry = i

Call(d) == desk[d] = Free /\ calls < MaxCalls /\ calls' = calls + 1 /\ UNCHANGED tokens
Turn(d, work) == desk' = [desk EXCEPT ![d] = work]
Then(d, work) == Turn(d, work) /\ UNCHANGED <<calls, tokens>>
NoHistory == UNCHANGED <<doubled, reopened>>

\* What an inquiry becomes through one of its jobs; a resolved one stays resolved.
Moved(i, status) ==
  IF i = Null THEN inquiry
  ELSE [inquiry EXCEPT ![i].status = IF @ = "resolved" THEN @ ELSE status]
MayMove(i) == i = Null \/ ~InquiryLocked(i)

-------------------------------------------------------------------------------
(* Companies' inquiries and the jobs made of them.                             *)

\* A form that asks for nobody asks for one.
CreateHiringInquiry(d, i, headcount) ==
  /\ Call(d) /\ NextRow(i, inquiry)
  /\ inquiry' = [inquiry EXCEPT ![i] = [status |-> "other", headcount |-> headcount]]
  /\ UNCHANGED <<job, application, invitation, reviews, desk>> /\ NoHistory

\* An administrator's change of status, other than to drafted; and the sales board, which
\* may write over any status.
UpdateHiringInquiry(d, i, status) ==
  /\ Call(d) /\ inquiry[i] # Null /\ ~InquiryLocked(i)
  /\ inquiry' = [inquiry EXCEPT ![i].status = status]
  /\ UNCHANGED <<job, application, invitation, reviews, desk>> /\ NoHistory

\* A slip: the inquiry is read without a lock.
DraftUnlocked(d, i) ==
  /\ Call(d) /\ inquiry[i] # Null
  /\ \E found \in JobsOf(i) \union {Null} :
       /\ found = Null => JobsOf(i) = {}
       /\ Turn(d, [at |-> "draft", inquiry |-> i, found |-> found])
  /\ UNCHANGED hiringTables /\ NoHistory

\* Changed to drafted: with the inquiry locked, its job is looked for,
DraftInquiry(d, i) ==
  /\ Call(d) /\ inquiry[i] # Null /\ ~InquiryLocked(i)
  /\ \E found \in JobsOf(i) \union {Null} :
       /\ found = Null => JobsOf(i) = {}
       /\ Turn(d, [at |-> "draft", inquiry |-> i, found |-> found])
  /\ UNCHANGED hiringTables /\ NoHistory
\* and created, or made a draft for as many positions as were asked for; unless it is gone.
DraftJob(d) ==
  /\ desk[d].at = "draft" /\ Then(d, Free)
  /\ LET i == desk[d].inquiry
         found == desk[d].found IN
     /\ inquiry' = [inquiry EXCEPT ![i].status = "drafted"]
     /\ IF found = Null
        THEN \E j \in Jobs : NextRow(j, job)
               /\ job' = [job EXCEPT ![j] = [inquiry |-> i, positions |-> inquiry[i].headcount,
                                              status |-> "draft"]]
        ELSE job' = IF JobExists(found)
                    THEN [job EXCEPT ![found].positions = inquiry[i].headcount,
                                     ![found].status = "draft"]
                    ELSE job
  /\ UNCHANGED <<application, invitation, reviews>> /\ NoHistory

\* CreateTalentJob for an inquiry: locked, approved and without a job so far.
CheckInquiry(d, i) ==
  /\ Call(d) /\ inquiry[i] # Null /\ ~InquiryLocked(i)
  /\ inquiry[i].status = "approved" /\ JobsOf(i) = {}
  /\ Turn(d, [at |-> "create", inquiry |-> i])
  /\ UNCHANGED hiringTables /\ NoHistory
CreateTalentJob(d) ==
  /\ desk[d].at = "create" /\ Then(d, Free)
  /\ LET i == desk[d].inquiry IN
     /\ \E j \in Jobs : NextRow(j, job)
          /\ job' = [job EXCEPT ![j] = [inquiry |-> i, positions |-> inquiry[i].headcount,
                                         status |-> "draft"]]
     /\ inquiry' = [inquiry EXCEPT ![i].status = "drafted"]
  /\ UNCHANGED <<application, invitation, reviews>> /\ NoHistory
\* A job of no inquiry is what the form says.
CreateOwnJob(d, j, positions, status) ==
  /\ Call(d) /\ NextRow(j, job)
  /\ job' = [job EXCEPT ![j] = [inquiry |-> Null, positions |-> positions, status |-> status]]
  /\ UNCHANGED <<inquiry, application, invitation, reviews, desk>> /\ NoHistory

\* The form's positions and status; the inquiry follows unless the job is closed.
UpdateTalentJob(d, j, positions, status) ==
  /\ Call(d) /\ JobExists(j) /\ ~JobLocked(j)
  /\ job' = [job EXCEPT ![j].positions = positions, ![j].status = status]
  /\ IF status = "closed" THEN UNCHANGED inquiry
     ELSE /\ MayMove(job[j].inquiry)
          /\ inquiry' = Moved(job[j].inquiry, IF status = "open" THEN "posted" ELSE "drafted")
  /\ UNCHANGED <<application, invitation, reviews, desk>> /\ NoHistory

\* Only the row goes: applications and the inquiry's status stay.
DeleteTalentJob(d, j) ==
  /\ Call(d) /\ JobExists(j) /\ ~JobLocked(j)
  /\ job' = [job EXCEPT ![j].status = "deleted"]
  /\ UNCHANGED <<inquiry, application, invitation, reviews, desk>> /\ NoHistory

-------------------------------------------------------------------------------
(* Applications.                                                               *)

Applied(p, j) ==
  \E a \in Applications :
    application[a] # Null /\ application[a].job = j /\ application[a].person = p

\* An open job for which the person has not applied; the upload comes before the row.
CheckApplication(d, j, p) ==
  /\ Call(d) /\ JobExists(j) /\ job[j].status = "open" /\ ~Applied(p, j)
  /\ doubled' = IF \E e \in Desks \ {d} : desk[e] = [at |-> "apply", job |-> j, person |-> p]
                THEN doubled \union {<<p, j>>} ELSE doubled
  /\ Turn(d, [at |-> "apply", job |-> j, person |-> p])
  /\ UNCHANGED <<hiringTables, reopened>>
CreateTalentJobApplication(d) ==
  /\ desk[d].at = "apply" /\ Then(d, Free)
  /\ \E a \in Applications : NextRow(a, application)
       /\ application' = [application EXCEPT ![a] =
            [job |-> desk[d].job, person |-> desk[d].person, status |-> "new"]]
  /\ UNCHANGED <<inquiry, job, invitation, reviews>> /\ NoHistory

CreateTalentPlusApplication(d, a, p) ==
  /\ Call(d) /\ NextRow(a, application)
  /\ application' = [application EXCEPT ![a] = [job |-> Null, person |-> p, status |-> "new"]]
  /\ UNCHANGED <<inquiry, job, invitation, reviews, desk>> /\ NoHistory

IsPlus(a) == application[a] # Null /\ application[a].job = Null
OfJob(a) == application[a] # Null /\ JobExists(application[a].job)

\* An administrator proposes a candidate, or takes one back, a hired one too; a proposal
\* moves the inquiry on.
updateJobApplicationStatus(d, a, status) ==
  /\ Call(d) /\ OfJob(a) /\ ~JobLocked(application[a].job)
  /\ LET i == job[application[a].job].inquiry IN
     IF status = "proposed" THEN MayMove(i) /\ inquiry' = Moved(i, "in_progress")
     ELSE UNCHANGED inquiry
  /\ application' = [application EXCEPT ![a].status = status]
  /\ UNCHANGED <<job, invitation, reviews, desk>> /\ NoHistory

\* The sales board moves any lead, without a look at its job.
MoveLead(d, a) ==
  /\ Call(d) /\ application[a] # Null /\ ~ApplicationLocked(a)
  /\ application' = [application EXCEPT ![a].status = "new"]
  /\ UNCHANGED <<inquiry, job, invitation, reviews, desk>> /\ NoHistory

\* Placing somebody of the programme sends the invitation to review it.
PlaceTalent(d, a) ==
  /\ Call(d) /\ IsPlus(a)
  /\ application' = [application EXCEPT ![a].status = "placed"]
  /\ Turn(d, [at |-> "invite", application |-> a, force |-> FALSE])
  /\ UNCHANGED <<inquiry, job, invitation, reviews>> /\ NoHistory

-------------------------------------------------------------------------------
(* A company's decision: one transaction.                                      *)

WithCompany == CandidateStatuses \ {"new"}
NewHire(a, decision) == decision = "hired" /\ application[a].status # "hired"
Room(a, decision) ==
  NewHire(a, decision) =>
    Cardinality(Hired(application[a].job)) < job[application[a].job].positions
Deciding(a, decision) ==
  [at |-> "decide", application |-> a, decision |-> decision, hired |-> Hired(application[a].job)]

\* A slip: no row is locked.
DecideUnlocked(d, a, decision) ==
  /\ Call(d) /\ OfJob(a) /\ job[application[a].job].inquiry # Null
  /\ application[a].status \in WithCompany /\ Room(a, decision)
  /\ Turn(d, Deciding(a, decision))
  /\ UNCHANGED hiringTables /\ NoHistory

\* The rows are locked, the status is looked at, and for a hire the open positions.
Decide(d, a, decision) ==
  /\ Call(d) /\ OfJob(a) /\ job[application[a].job].inquiry # Null
  /\ ~JobLocked(application[a].job) /\ ~InquiryLocked(job[application[a].job].inquiry)
  /\ application[a].status \in WithCompany /\ Room(a, decision)
  /\ Turn(d, Deciding(a, decision))
  /\ UNCHANGED hiringTables /\ NoHistory

\* The status is written, and the hires are counted again, for a new hire in the snapshot of
\* the first count: a job that is full is closed and resolves its inquiry, any other is open.
UpdateCompanyCandidateDecision(d) ==
  /\ desk[d].at = "decide" /\ Then(d, Free)
  /\ LET a == desk[d].application
         j == application[a].job
         others == (IF NewHire(a, desk[d].decision) THEN desk[d].hired ELSE Hired(j)) \ {a}
         hired == others \union (IF desk[d].decision = "hired" THEN {a} ELSE {})
         full == Cardinality(hired) >= job[j].positions IN
     /\ application' = [application EXCEPT ![a].status = desk[d].decision]
     /\ job' = [job EXCEPT ![j].status = IF full THEN "closed" ELSE "open"]
     /\ inquiry' = [inquiry EXCEPT ![job[j].inquiry].status =
          IF full THEN "resolved" ELSE "in_progress"]
  /\ UNCHANGED <<invitation, reviews>> /\ NoHistory

\* A transaction is rolled back, as the victim of a deadlock or for any error; or a request
\* ends between two of its statements.
Break(d) == desk[d] # Free /\ Then(d, Free) /\ UNCHANGED hiringTables /\ NoHistory

-------------------------------------------------------------------------------
(* Reviews of the programme.                                                   *)

Eligible(a) == application[a] # Null /\ application[a].status \in {"hired", "placed"}

\* An administrator sends, or sends again, the invitation.
ForceInvitation(d, a) ==
  /\ Call(d) /\ application[a] # Null
  /\ Turn(d, [at |-> "invite", application |-> a, force |-> TRUE])
  /\ UNCHANGED hiringTables /\ NoHistory

\* Nobody is invited after their review, nor twice unless an administrator asks for it.
MayInvite(a, force) ==
  /\ Eligible(a)
  /\ invitation[a] # Null => ~invitation[a].used /\ (force \/ ~invitation[a].sent)

ReadInvitation(d) ==
  /\ desk[d].at = "invite"
  /\ LET a == desk[d].application IN
     Then(d, IF MayInvite(a, desk[d].force)
             THEN [at |-> "save", application |-> a, seen |-> invitation[a]] ELSE Free)
  /\ UNCHANGED hiringTables /\ NoHistory

\* Save inserts the row, which fails when there is one by now, or writes the one that was
\* read back as a whole, with a new token.
SaveInvitation(d) ==
  /\ desk[d].at = "save" /\ tokens < MaxInvitations
  /\ LET a == desk[d].application
         seen == desk[d].seen
         used == seen # Null /\ seen.used IN
     IF seen = Null /\ invitation[a] # Null
     THEN Then(d, Free) /\ UNCHANGED <<invitation, reopened>>
     ELSE /\ tokens' = tokens + 1 /\ UNCHANGED calls
          /\ Turn(d, [at |-> "mail", application |-> a])
          /\ invitation' = [invitation EXCEPT ![a] =
               [token |-> tokens + 1, sent |-> FALSE, used |-> used]]
          /\ reopened' = IF invitation[a] # Null /\ invitation[a].used # used
                         THEN reopened \union {a} ELSE reopened
  /\ UNCHANGED <<inquiry, job, application, reviews, doubled>>

\* The mail went out, which is noted in its column.
NoteSent(d) ==
  /\ desk[d].at = "mail" /\ Then(d, Free)
  /\ invitation' = [invitation EXCEPT ![desk[d].application].sent = TRUE]
  /\ UNCHANGED <<inquiry, job, application, reviews>> /\ NoHistory

\* A slip: whether the invitation was used is not looked at.
SubmitAgain(d, a, token) ==
  /\ Call(d) /\ invitation[a] # Null /\ invitation[a].token = token
  /\ reviews' = [reviews EXCEPT ![a] = @ + 1]
  /\ invitation' = [invitation EXCEPT ![a].used = TRUE]
  /\ UNCHANGED <<inquiry, job, application, desk>> /\ NoHistory

\* One transaction on the row of the token, which is locked; an expired one is not used.
SubmitTalentReview(d, a, token) ==
  /\ Call(d) /\ invitation[a] # Null
  /\ invitation[a].token = token /\ ~invitation[a].used
  /\ reviews' = [reviews EXCEPT ![a] = @ + 1]
  /\ invitation' = [invitation EXCEPT ![a].used = TRUE]
  /\ UNCHANGED <<inquiry, job, application, desk>> /\ NoHistory

-------------------------------------------------------------------------------

Finish(d) ==
  \/ DraftJob(d) \/ CreateTalentJob(d) \/ CreateTalentJobApplication(d)
  \/ UpdateCompanyCandidateDecision(d) \/ Break(d)
  \/ ReadInvitation(d) \/ SaveInvitation(d) \/ NoteSent(d)

AboutInquiry(d, i) ==
  \/ \E n \in Headcounts : CreateHiringInquiry(d, i, n)
  \/ \E status \in {"other", "approved"} : UpdateHiringInquiry(d, i, status)
  \/ DraftInquiry(d, i) \/ CheckInquiry(d, i)

AboutJob(d, j) ==
  \/ \E n \in Headcounts, status \in JobStatuses :
       CreateOwnJob(d, j, n, status) \/ UpdateTalentJob(d, j, n, status)
  \/ DeleteTalentJob(d, j)
  \/ \E p \in People : CheckApplication(d, j, p)

AboutApplication(d, a) ==
  \/ \E p \in People : CreateTalentPlusApplication(d, a, p)
  \/ \E status \in {"new", "proposed"} : updateJobApplicationStatus(d, a, status)
  \/ MoveLead(d, a) \/ PlaceTalent(d, a) \/ ForceInvitation(d, a)
  \/ \E decision \in {"interview", "declined", "hired"} : Decide(d, a, decision)
  \/ \E token \in 1 .. MaxInvitations : SubmitTalentReview(d, a, token)

HiringNext ==
  \E d \in Desks :
    \/ Finish(d)
    \/ \E i \in Inquiries : AboutInquiry(d, i)
    \/ \E j \in Jobs : AboutJob(d, j)
    \/ \E a \in Applications : AboutApplication(d, a)
HiringSpec == HiringInit /\ [][HiringNext]_hiringVars

-------------------------------------------------------------------------------
(* Properties.                                                                 *)

\* Every row and request in progress has the form the code gives it.
HiringTypeOK ==
  /\ inquiry \in [Inquiries -> Inquiry \union {Null}]
  /\ job \in [Jobs -> Job \union {Null}]
  /\ application \in [Applications -> Application \union {Null}]
  /\ invitation \in [Applications -> Invitation \union {Null}]
  /\ reviews \in [Applications -> Nat]
  /\ desk \in [Desks -> Work] /\ calls \in 0 .. MaxCalls /\ tokens \in 0 .. MaxInvitations
  /\ doubled \subseteq People \X Jobs /\ reopened \subseteq Applications

\* Whenever a job has one more hire than before, the hires fit its positions, however many
\* decisions are taken at once (UpdateCompanyCandidateDecision); lowering the positions of a
\* job that is full is the only way to have more.
HiresFit ==
  [][\A j \in Jobs : Cardinality(Hired(j)') > Cardinality(Hired(j)) =>
       Cardinality(Hired(j)') <= job'[j].positions]_hiringVars

\* An inquiry never has two jobs, whichever of the two ways of making one is taken
\* (CreateTalentJob, UpdateHiringInquiry).
OneJobPerInquiry == \A i \in Inquiries : Cardinality(JobsOf(i)) <= 1

\* A person applies once for a job, and writes one review per application, unless two
\* requests of theirs applied at once, or an invitation was sent again while its review was
\* being written, which makes it unused (CreateTalentJobApplication,
\* sendTalentReviewInvitation).
OnceEach ==
  /\ \A a, b \in Applications :
       /\ application[a] # Null /\ application[b] # Null /\ application[a].job # Null
       /\ application[a].job = application[b].job /\ application[a].person = application[b].person
       => a = b \/ <<application[a].person, application[a].job>> \in doubled
  /\ \A a \in Applications : reviews[a] <= 1 \/ a \in reopened
===============================================================================

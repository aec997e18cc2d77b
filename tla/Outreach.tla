------------------------------- MODULE Outreach -------------------------------
(***************************************************************************)
(* E-mail campaigns and automated messages.                                *)
(*                                                                         *)
(* Two workers of one process send mail that nobody waits for.  The mailer *)
(* takes the oldest queued campaign, resolves whom it goes to, and sends   *)
(* to one recipient after the other.  The robot schedules the runs of the  *)
(* enabled workflows, one row per key, and sends those that are due.  Both *)
(* skip suppressed addresses; what they record of a mail is written after  *)
(* the mail has gone, so a stop may come between, and a statement whose    *)
(* error is ignored may fail.                                              *)
(***************************************************************************)
EXTENDS Integers, FiniteSets

CONSTANTS
  Campaigns,      \* campaigns in the order they are queued (bound)
  Addresses,      \* e-mail addresses (bound)
  Runs,           \* automation runs, one per key, in the order they are due (bound)
  Workflows,      \* automation workflows
  Announcements,  \* the workflows that a publication triggers
  WorkflowOf,     \* the workflow of each run
  AddressOf,      \* the address of each run
  Batch,          \* due runs one pass reads
  MaxFaults,      \* stops and failed statements (bound)
  Null            \* no row, nothing under way

ASSUME OutreachAssumption ==
  /\ Campaigns \subseteq Nat /\ IsFiniteSet(Campaigns)
  /\ Runs \subseteq Nat /\ IsFiniteSet(Runs)
  /\ IsFiniteSet(Addresses)
  /\ Announcements \subseteq Workflows
  /\ WorkflowOf \in [Runs -> Workflows] /\ AddressOf \in [Runs -> Addresses]
  /\ Batch \in Nat \ {0} /\ MaxFaults \in Nat

VARIABLES
  campaign,    \* email_campaigns
  run,         \* automation_runs: the status of each row
  suppressed,  \* email_suppressions
  enabled,     \* workflows with is_enabled
  mailer,      \* what the campaign worker is doing
  robot,       \* what the automation worker is doing
  announcing,  \* rows a publication is still to create
  posted,      \* how often each campaign was accepted for each address
  mailed,      \* how often each run was accepted
  unconfirmed, \* whom a campaign reached although an error came back
  unmarked,    \* how often a run's mail had gone when a stop or a failure lost its mark
  quiet,       \* per worker: suppressed since before it began what it is doing, and not
               \* overlooked by a look-up that failed
  faults

rows == <<campaign, run, suppressed, enabled>>
sentMail == <<posted, unconfirmed, mailed, unmarked>>
outreachVars == <<rows, mailer, robot, announcing, sentMail, quiet, faults>>

-----------------------------------------------------------------------------
(* Types and initial states. *)

Ended == {"sent", "partial", "failed"}
CampaignRow ==
  [status: {"queued", "sending"} \cup Ended, audience: SUBSET Addresses, sent: Nat, failed: Nat]
RunStatuses == {"scheduled", "sent", "failed", "suppressed"}
Sending ==
  [campaign: Campaigns, pc: {"resolve", "send", "count", "finish"},
   todo: SUBSET Addresses, sent: Nat, failed: Nat]
Evaluating ==
  [pc: {"schedule", "check", "mail", "mark"}, seen: SUBSET Workflows,
   due: SUBSET Runs, answer: {"none", "accepted", "refused", "unanswered"}]

ASSUME NullAssumption ==
  Null \notin CampaignRow /\ Null \notin RunStatuses /\ Null \notin Sending /\ Null \notin Evaluating

OutreachInit ==
  /\ campaign = [c \in Campaigns |-> Null] /\ run = [r \in Runs |-> Null]
  /\ suppressed \in SUBSET Addresses
  /\ enabled = Workflows
  /\ mailer = Null /\ robot = Null /\ announcing = {}
  /\ posted = [c \in Campaigns |-> [a \in Addresses |-> 0]]
  /\ unconfirmed = [c \in Campaigns |-> {}]
  /\ mailed = [r \in Runs |-> 0] /\ unmarked = [r \in Runs |-> 0]
  /\ quiet = [mailer |-> {}, robot |-> {}]
  /\ faults = 0

Foremost(S) == CHOOSE n \in S : \A k \in S : n <= k
First(S, n) == {k \in S : Cardinality({j \in S : j < k}) < n}
Fault == faults < MaxFaults /\ faults' = faults + 1

-----------------------------------------------------------------------------
(* Administrators, and what the mail provider reports. *)

\* Whom it goes to is looked up and counted; a campaign that reaches nobody is stored too.
QueueMailerCampaign ==
  \E audience \in SUBSET Addresses :
    LET new == {c \in Campaigns : campaign[c] = Null} IN
    /\ new # {}
    /\ campaign' = [campaign EXCEPT ![Foremost(new)] =
                      [status |-> "queued", audience |-> audience, sent |-> 0, failed |-> 0]]
    /\ UNCHANGED <<run, suppressed, enabled, mailer, robot, announcing, sentMail, quiet, faults>>

\* An administrator, or the report of a bounce, a complaint or an unsubscription.
Suppress(a) ==
  /\ suppressed' = suppressed \cup {a}
  /\ UNCHANGED <<campaign, run, enabled, mailer, robot, announcing, sentMail, quiet, faults>>

DeleteSuppression(a) ==
  /\ suppressed' = suppressed \ {a}
  /\ quiet' = [w \in DOMAIN quiet |-> quiet[w] \ {a}]
  /\ UNCHANGED <<campaign, run, enabled, mailer, robot, announcing, sentMail, faults>>

UpdateAutomationWorkflow(w) ==
  /\ enabled' \in {enabled \cup {w}, enabled \ {w}}
  /\ UNCHANGED <<campaign, run, suppressed, mailer, robot, announcing, sentMail, quiet, faults>>

\* Something is published: a row for every user, one after the other.
Publish(w) ==
  /\ announcing = {} /\ w \in Announcements \cap enabled
  /\ announcing' = {r \in Runs : WorkflowOf[r] = w}
  /\ UNCHANGED <<rows, mailer, robot, sentMail, quiet, faults>>

\* A slip: a new publication schedules the row of the earlier one again.
ScheduleAgain(r) == run' = [run EXCEPT ![r] = "scheduled"]
\* FirstOrCreate by the row's key.
ScheduleRun(r) == run' = [run EXCEPT ![r] = IF @ = Null THEN "scheduled" ELSE @]

QueuePublishAnnouncement(r) ==
  /\ r \in announcing
  /\ announcing' = announcing \ {r}
  /\ ScheduleRun(r)
  /\ UNCHANGED <<campaign, suppressed, enabled, mailer, robot, sentMail, quiet, faults>>

-----------------------------------------------------------------------------
(* The campaign worker. *)

Waiting == {c \in Campaigns : campaign[c] # Null /\ campaign[c].status = "queued"}

PickCampaign ==
  /\ mailer = Null /\ Waiting # {}
  /\ campaign' = [campaign EXCEPT ![Foremost(Waiting)].status = "sending"]
  /\ mailer' = [campaign |-> Foremost(Waiting), pc |-> "resolve", todo |-> {}, sent |-> 0, failed |-> 0]
  /\ quiet' = [quiet EXCEPT !.mailer = suppressed]
  /\ UNCHANGED <<run, suppressed, enabled, robot, announcing, sentMail, faults>>

MailerAt(pc) == mailer # Null /\ mailer.pc = pc
Audience == campaign[mailer.campaign].audience

\* A slip: the suppressions are looked up when the campaign is queued only.
ResolveEverybody ==
  /\ MailerAt("resolve")
  /\ mailer' = [mailer EXCEPT !.todo = Audience, !.pc = "send"]
  /\ UNCHANGED <<rows, robot, announcing, sentMail, quiet, faults>>

\* Nobody is left, or the settings or the template are missing, and it fails at once; or
\* it goes to those not suppressed, and to the suppressed whose look-up failed.
ResolveCampaignRecipients ==
  /\ MailerAt("resolve")
  /\ \/ mailer' = [mailer EXCEPT !.pc = "finish", !.failed = 1] /\ UNCHANGED <<quiet, faults>>
     \/ \E overlooked \in SUBSET (Audience \cap suppressed) :
          LET recipients == (Audience \ suppressed) \cup overlooked IN
          /\ recipients # {}
          /\ IF overlooked = {} THEN UNCHANGED faults ELSE Fault
          /\ mailer' = [mailer EXCEPT !.todo = recipients, !.pc = "send"]
          /\ quiet' = [quiet EXCEPT !.mailer = @ \ overlooked]
  /\ UNCHANGED <<rows, robot, announcing, sentMail>>

\* The provider accepts the mail, or refuses it; or it accepts the mail and no answer that
\* can be read comes back in time, which is an error like a refusal.
SendMailerEmail(a) ==
  LET c == mailer.campaign IN
  /\ MailerAt("send") /\ a \in mailer.todo
  /\ \/ /\ posted' = [posted EXCEPT ![c][a] = @ + 1]
        /\ mailer' = [mailer EXCEPT !.todo = @ \ {a}, !.pc = "count", !.sent = @ + 1]
        /\ UNCHANGED unconfirmed
     \/ /\ posted' = [posted EXCEPT ![c][a] = @ + 1]
        /\ mailer' = [mailer EXCEPT !.todo = @ \ {a}, !.pc = "count", !.failed = @ + 1]
        /\ unconfirmed' = [unconfirmed EXCEPT ![c] = @ \cup {a}]
     \/ /\ mailer' = [mailer EXCEPT !.todo = @ \ {a}, !.pc = "count", !.failed = @ + 1]
        /\ UNCHANGED <<posted, unconfirmed>>
  /\ UNCHANGED <<rows, robot, announcing, mailed, unmarked, quiet, faults>>

\* An update that fails is ignored.
CountSent ==
  /\ MailerAt("count")
  /\ \/ /\ campaign' = [campaign EXCEPT ![mailer.campaign].sent = mailer.sent,
                                        ![mailer.campaign].failed = mailer.failed]
        /\ UNCHANGED faults
     \/ Fault /\ UNCHANGED campaign
  /\ mailer' = [mailer EXCEPT !.pc = IF mailer.todo = {} THEN "finish" ELSE "send"]
  /\ UNCHANGED <<run, suppressed, enabled, robot, announcing, sentMail, quiet>>

StatusOf(sent, failed) == IF sent = 0 THEN "failed" ELSE IF failed > 0 THEN "partial" ELSE "sent"

\* If the last update fails, the worker drops the campaign, which stays "sending".
FinishCampaign ==
  /\ MailerAt("finish")
  /\ \/ /\ campaign' = [campaign EXCEPT
             ![mailer.campaign].status = StatusOf(mailer.sent, mailer.failed),
             ![mailer.campaign].sent = mailer.sent, ![mailer.campaign].failed = mailer.failed]
        /\ UNCHANGED faults
     \/ Fault /\ UNCHANGED campaign
  /\ mailer' = Null
  /\ quiet' = [quiet EXCEPT !.mailer = {}]
  /\ UNCHANGED <<run, suppressed, enabled, robot, announcing, sentMail>>

-----------------------------------------------------------------------------
(* The automation worker. *)

EvaluateAutomations ==
  /\ robot = Null
  /\ robot' = [pc |-> "schedule", seen |-> enabled, due |-> {}, answer |-> "none"]
  /\ UNCHANGED <<rows, mailer, announcing, sentMail, quiet, faults>>

RobotAt(pc) == robot # Null /\ robot.pc = pc

\* Somebody meets the condition of a workflow that was enabled when the pass began.
Trigger(r) ==
  /\ RobotAt("schedule") /\ WorkflowOf[r] \in robot.seen \ Announcements
  /\ ScheduleRun(r)
  /\ UNCHANGED <<campaign, suppressed, enabled, mailer, robot, announcing, sentMail, quiet, faults>>

Due == {r \in Runs : run[r] = "scheduled"}
\* The worker goes on to the next run of its batch, or the pass ends.
NextRun(due) ==
  /\ robot' = IF due = {} THEN Null
              ELSE [pc |-> "check", seen |-> {}, due |-> due, answer |-> "none"]
  /\ quiet' = [quiet EXCEPT !.robot = IF due = {} THEN {} ELSE suppressed]

ReadDueRuns ==
  /\ RobotAt("schedule")
  /\ NextRun(First(Due, Batch))
  /\ UNCHANGED <<rows, mailer, announcing, sentMail, faults>>

Current == Foremost(robot.due)

\* A slip: a run whose address is suppressed is passed over and stays scheduled.
PassOver ==
  /\ RobotAt("check") /\ AddressOf[Current] \in suppressed
  /\ NextRun(robot.due \ {Current})
  /\ UNCHANGED <<rows, mailer, announcing, sentMail, faults>>
SkipSuppressed ==
  /\ RobotAt("check") /\ AddressOf[Current] \in suppressed
  /\ run' = [run EXCEPT ![Current] = "suppressed"]
  /\ NextRun(robot.due \ {Current})
  /\ UNCHANGED <<campaign, suppressed, enabled, mailer, announcing, sentMail, faults>>

\* The workflow or the user cannot be read, or the mark "suppressed" fails: the run stays
\* for a later pass.
SkipUnread ==
  /\ RobotAt("check") /\ Fault
  /\ NextRun(robot.due \ {Current})
  /\ UNCHANGED <<rows, mailer, announcing, sentMail>>

\* The address is not suppressed, or looking it up fails.
TakeRun ==
  /\ RobotAt("check")
  /\ IF AddressOf[Current] \notin suppressed THEN UNCHANGED <<quiet, faults>>
     ELSE Fault /\ quiet' = [quiet EXCEPT !.robot = @ \ {AddressOf[Current]}]
  /\ robot' = [robot EXCEPT !.pc = "mail"]
  /\ UNCHANGED <<rows, mailer, announcing, sentMail>>

MailRun ==
  /\ RobotAt("mail")
  /\ \/ /\ mailed' = [mailed EXCEPT ![Current] = @ + 1]
        /\ robot' \in {[robot EXCEPT !.pc = "mark", !.answer = "accepted"],
                       [robot EXCEPT !.pc = "mark", !.answer = "unanswered"]}
     \/ robot' = [robot EXCEPT !.pc = "mark", !.answer = "refused"] /\ UNCHANGED mailed
  /\ UNCHANGED <<rows, mailer, announcing, posted, unconfirmed, unmarked, quiet, faults>>

\* The mail of a run has gone, and its mark is the worker's next step.
Unnoted(r) == RobotAt("mark") /\ robot.answer \in {"accepted", "unanswered"} /\ r = Current
MarkLost ==
  unmarked' = [r \in Runs |-> unmarked[r] + IF Unnoted(r) THEN 1 ELSE 0]

\* A mark that fails is ignored: the run stays scheduled.
MarkRun ==
  /\ RobotAt("mark")
  /\ \/ /\ run' = [run EXCEPT ![Current] = IF robot.answer = "accepted" THEN "sent" ELSE "failed"]
        /\ UNCHANGED <<unmarked, faults>>
     \/ Fault /\ MarkLost /\ UNCHANGED run
  /\ NextRun(robot.due \ {Current})
  /\ UNCHANGED <<campaign, suppressed, enabled, mailer, announcing, posted, unconfirmed, mailed>>

-----------------------------------------------------------------------------
\* The process stops and is started again: nothing under way is taken up.
Stop ==
  /\ Fault /\ MarkLost
  /\ mailer' = Null /\ robot' = Null /\ announcing' = {}
  /\ quiet' = [w \in DOMAIN quiet |-> {}]
  /\ UNCHANGED <<rows, posted, unconfirmed, mailed>>

Mailer ==
  \/ PickCampaign \/ ResolveCampaignRecipients \/ CountSent \/ FinishCampaign
  \/ \E a \in Addresses : SendMailerEmail(a)
Robot ==
  \/ EvaluateAutomations \/ ReadDueRuns
  \/ SkipSuppressed \/ SkipUnread \/ TakeRun \/ MailRun \/ MarkRun

OutreachNext ==
  \/ QueueMailerCampaign
  \/ \E a \in Addresses : Suppress(a) \/ DeleteSuppression(a)
  \/ \E w \in Workflows : UpdateAutomationWorkflow(w) \/ Publish(w)
  \/ \E r \in Runs : QueuePublishAnnouncement(r) \/ Trigger(r)
  \/ Mailer \/ Robot \/ Stop

OutreachSpec == OutreachInit /\ [][OutreachNext]_outreachVars

\* Each worker is a loop over a ticker: it goes on as long as the process lives.
OutreachFairSpec == OutreachSpec /\ WF_outreachVars(Mailer) /\ WF_outreachVars(Robot)

-----------------------------------------------------------------------------
(* Properties. *)

OutreachTypeOK ==
  /\ campaign \in [Campaigns -> CampaignRow \cup {Null}]
  /\ run \in [Runs -> RunStatuses \cup {Null}]
  /\ suppressed \subseteq Addresses /\ enabled \subseteq Workflows
  /\ mailer \in Sending \cup {Null} /\ robot \in Evaluating \cup {Null}
  /\ announcing \subseteq Runs
  /\ posted \in [Campaigns -> [Addresses -> Nat]]
  /\ unconfirmed \in [Campaigns -> SUBSET Addresses]
  /\ mailed \in [Runs -> Nat] /\ unmarked \in [Runs -> Nat]
  /\ quiet \in [mailer: SUBSET Addresses, robot: SUBSET Addresses]
  /\ faults \in Nat

\* No address gets a campaign twice, whatever stops the worker or fails, and a campaign
\* that ended says how many of those it reached the provider has confirmed: no more, for a
\* mail that was accepted but not answered counts as failed (email_campaigns.go:297-298).
\* A run is mailed again only if a stop or a failed statement lost the mark of its mail;
\* one marked as sent has had one mail beyond those, one left out has had none.
Reached(c) == {a \in Addresses : posted[c][a] > 0}
Confirmed(c) == Reached(c) \ unconfirmed[c]
MailedOnce ==
  /\ \A c \in Campaigns :
       /\ \A a \in Addresses : posted[c][a] <= 1
       /\ campaign[c] # Null => campaign[c].sent <= Cardinality(Confirmed(c))
       /\ campaign[c] # Null /\ campaign[c].status \in Ended =>
            /\ campaign[c].sent = Cardinality(Confirmed(c))
            /\ campaign[c].status = "failed" <=> Confirmed(c) = {}
  /\ \A r \in Runs :
       /\ mailed[r] <= unmarked[r] + 1
       /\ run[r] = "suppressed" => mailed[r] = unmarked[r]
       /\ run[r] = "sent" => mailed[r] = unmarked[r] + 1

\* Nothing goes to an address that was suppressed before its campaign was picked, or before
\* its run's turn came, and has not been released since, unless the one look-up that had to
\* find it failed: the code takes an error for "not suppressed" (email_campaigns.go:99,
\* automation.go:198).
QuietKept ==
  [][/\ \A c \in Campaigns, a \in Addresses :
          posted'[c][a] > posted[c][a] => a \notin quiet.mailer
     /\ \A r \in Runs : mailed'[r] > mailed[r] => AddressOf[r] \notin quiet.robot]_outreachVars

\* A queued campaign ends, unless a stop or its failed last update cut it off, which leaves
\* it "sending"; a scheduled run does not stay scheduled.
CampaignEnded(c) ==
  campaign[c] # Null /\ campaign[c].status \in Ended
CutOff(c) ==
  campaign[c] # Null /\ campaign[c].status = "sending" /\ (mailer = Null \/ mailer.campaign # c)
OutreachEnds ==
  /\ \A c \in Campaigns : campaign[c] # Null ~> CampaignEnded(c) \/ CutOff(c)
  /\ \A r \in Runs : run[r] = "scheduled" ~> run[r] # "scheduled"
===============================================================================

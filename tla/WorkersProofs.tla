---------------------------- MODULE WorkersProofs ----------------------------
(***************************************************************************)
(* Theorems about the parts that go on by themselves: Outreach, for any    *)
(* number of campaigns, addresses, runs and stops, and StorageJobs, for    *)
(* any number of objects, jobs, backups and runners.  The two share no     *)
(* variable; each theorem is about one of the two specifications.          *)
(***************************************************************************)
EXTENDS Outreach, StorageJobs, FiniteSetTheorems, WellFoundedInduction, TLAPS

-----------------------------------------------------------------------------
(* Campaigns and scheduled messages. *)

\* A set of numbers that is not empty has an oldest one.
LEMMA OldestIn ==
  ASSUME NEW S \in SUBSET Nat, S # {}
  PROVE  Foremost(S) \in S
<1>1. PICK n \in S : \A k \in S : <<k, n>> \notin OpToRel(<, Nat)
  BY WFMin, NatLessThanWellFounded, Zenon
<1>2. \A k \in S : ~(k < n)
  <2> SUFFICES ASSUME NEW k \in S, k < n PROVE FALSE
    OBVIOUS
  <2>1. <<k, n>> \in OpToRel(<, Nat)
    BY Zenon DEF OpToRel
  <2> QED
    BY <1>1, <2>1
<1>3. \A k \in S : n <= k
  BY <1>2
<1> QED
  BY <1>3 DEF Foremost

-----------------------------------------------------------------------------
(* Types. *)

\* A campaign that the worker sends exists.
TInv == OutreachTypeOK /\ (mailer # Null => campaign[mailer.campaign] # Null)

\* A worker that is not idle is a record of its type, and none is Null.
LEMMA WorkerTypes ==
  ASSUME OutreachTypeOK
  PROVE  /\ mailer # Null => mailer \in Sending
         /\ robot # Null => robot \in Evaluating
         /\ \A c \in Campaigns : campaign[c] # Null => campaign[c] \in CampaignRow
BY DEF OutreachTypeOK

\* The next turn of the automation worker has its type.
LEMMA TurnTypes ==
  ASSUME OutreachTypeOK, NEW due \in SUBSET Runs, NextRun(due)
  PROVE  /\ robot' \in Evaluating \cup {Null}
         /\ quiet' \in [mailer: SUBSET Addresses, robot: SUBSET Addresses]
BY DEF OutreachTypeOK, NextRun, Evaluating

\* The steps of administrators and publications keep the types.
LEMMA DeskTypes ==
  ASSUME OutreachTypeOK,
         \/ QueueMailerCampaign
         \/ \E a \in Addresses : Suppress(a) \/ DeleteSuppression(a)
         \/ \E w \in Workflows : UpdateAutomationWorkflow(w) \/ Publish(w)
         \/ \E r \in Runs : QueuePublishAnnouncement(r) \/ Trigger(r)
  PROVE  OutreachTypeOK'
<1> USE DEF rows, sentMail
<1>1. CASE QueueMailerCampaign
  <2>1. PICK audience \in SUBSET Addresses :
          campaign' = [campaign EXCEPT ![Foremost({c \in Campaigns : campaign[c] = Null})] =
                         [status |-> "queued", audience |-> audience, sent |-> 0, failed |-> 0]]
    BY <1>1 DEF QueueMailerCampaign
  <2>2. [status |-> "queued", audience |-> audience, sent |-> 0, failed |-> 0] \in CampaignRow
    BY DEF CampaignRow
  <2>3. campaign' \in [Campaigns -> CampaignRow \cup {Null}]
    BY <2>1, <2>2 DEF OutreachTypeOK
  <2> QED
    BY <1>1, <2>3 DEF QueueMailerCampaign, OutreachTypeOK
<1>2. ASSUME NEW a \in Addresses, Suppress(a) \/ DeleteSuppression(a) PROVE OutreachTypeOK'
  BY <1>2 DEF Suppress, DeleteSuppression, OutreachTypeOK
<1>3. ASSUME NEW w \in Workflows, UpdateAutomationWorkflow(w) \/ Publish(w)
      PROVE  OutreachTypeOK'
  BY <1>3, OutreachAssumption DEF UpdateAutomationWorkflow, Publish, OutreachTypeOK
<1>4. ASSUME NEW r \in Runs, QueuePublishAnnouncement(r) \/ Trigger(r) PROVE OutreachTypeOK'
  <2>1. run' \in [Runs -> RunStatuses \cup {Null}]
    BY <1>4 DEF QueuePublishAnnouncement, Trigger, ScheduleRun, OutreachTypeOK, RunStatuses
  <2> QED
    BY <1>4, <2>1 DEF QueuePublishAnnouncement, Trigger, OutreachTypeOK
<1> QED
  BY <1>1, <1>2, <1>3, <1>4

\* Resolving the recipients sends the worker on, to those of the audience who are not
\* suppressed or were overlooked, and leaves what it counts for those it reached.
LEMMA ResolvedTo ==
  ASSUME mailer \in Sending, Audience \in SUBSET Addresses, ResolveCampaignRecipients
  PROVE  /\ mailer' \in Sending /\ mailer'.campaign = mailer.campaign
         /\ mailer'.sent = mailer.sent /\ mailer'.pc # "resolve"
<1>1. CASE mailer' = [mailer EXCEPT !.pc = "finish", !.failed = 1]
  BY <1>1 DEF Sending
<1>2. ASSUME NEW todo \in SUBSET Addresses, mailer' = [mailer EXCEPT !.todo = todo, !.pc = "send"]
      PROVE  /\ mailer' \in Sending /\ mailer'.campaign = mailer.campaign
             /\ mailer'.sent = mailer.sent /\ mailer'.pc # "resolve"
  BY <1>2 DEF Sending
<1>3. CASE \E overlooked \in SUBSET (Audience \cap suppressed) :
             mailer' = [mailer EXCEPT !.todo = (Audience \ suppressed) \cup overlooked,
                                      !.pc = "send"]
  <2>1. PICK overlooked \in SUBSET (Audience \cap suppressed) :
          mailer' = [mailer EXCEPT !.todo = (Audience \ suppressed) \cup overlooked, !.pc = "send"]
    BY <1>3
  <2>2. PICK todo : todo = (Audience \ suppressed) \cup overlooked
    OBVIOUS
  <2>3. todo \in SUBSET Addresses /\ mailer' = [mailer EXCEPT !.todo = todo, !.pc = "send"]
    BY <2>1, <2>2
  <2> QED
    BY <1>2, <2>3
<1> QED
  BY <1>1, <1>3 DEF ResolveCampaignRecipients

\* The steps of the campaign worker keep the types.
LEMMA MailerTypes ==
  ASSUME TInv, Mailer
  PROVE  OutreachTypeOK'
<1> USE DEF TInv, rows, sentMail
<1>1. CASE PickCampaign
  <2>1. Waiting \in SUBSET Nat /\ Foremost(Waiting) \in Waiting
    BY <1>1, OldestIn, OutreachAssumption DEF PickCampaign, Waiting
  <2> DEFINE c == Foremost(Waiting)
  <2>5. c \in Campaigns /\ campaign[c] \in CampaignRow
    BY <2>1, WorkerTypes DEF Waiting
  <2>6. [campaign[c] EXCEPT !.status = "sending"] \in CampaignRow
    BY <2>5 DEF CampaignRow
  <2>2. campaign' \in [Campaigns -> CampaignRow \cup {Null}]
    BY <1>1, <2>5, <2>6 DEF PickCampaign, OutreachTypeOK
  <2>3. mailer' \in Sending
    BY <1>1, <2>1 DEF PickCampaign, Waiting, Sending
  <2>4. quiet' \in [mailer: SUBSET Addresses, robot: SUBSET Addresses]
    BY <1>1 DEF PickCampaign, OutreachTypeOK
  <2> QED
    BY <1>1, <2>2, <2>3, <2>4 DEF PickCampaign, OutreachTypeOK
<1>2. ASSUME MailerAt("resolve") \/ MailerAt("send") \/ MailerAt("count") \/ MailerAt("finish")
      PROVE  mailer \in Sending /\ campaign[mailer.campaign] \in CampaignRow
  BY <1>2, WorkerTypes DEF MailerAt, Sending
<1>3. CASE ResolveCampaignRecipients
  <2>1. mailer \in Sending /\ Audience \in SUBSET Addresses
    BY <1>2, <1>3 DEF ResolveCampaignRecipients, Audience, CampaignRow
  <2>2. mailer' \in Sending
    BY <1>3, <2>1, ResolvedTo
  <2>3. quiet' \in [mailer: SUBSET Addresses, robot: SUBSET Addresses] /\ faults' \in Nat
    <3>1. CASE UNCHANGED <<quiet, faults>>
      BY <3>1 DEF OutreachTypeOK
    <3>2. ASSUME NEW overlooked,
                 IF overlooked = {} THEN UNCHANGED faults ELSE Fault,
                 quiet' = [quiet EXCEPT !.mailer = @ \ overlooked]
          PROVE  quiet' \in [mailer: SUBSET Addresses, robot: SUBSET Addresses] /\ faults' \in Nat
      <4>1. faults' \in Nat
        BY <3>2 DEF OutreachTypeOK, Fault
      <4>2. quiet.mailer \ overlooked \in SUBSET Addresses
        BY DEF OutreachTypeOK
      <4> QED
        BY <3>2, <4>1, <4>2 DEF OutreachTypeOK
    <3> QED
      BY <1>3, <3>1, <3>2 DEF ResolveCampaignRecipients
  <2> QED
    BY <1>3, <2>2, <2>3 DEF ResolveCampaignRecipients, OutreachTypeOK
<1>4. ASSUME NEW a \in Addresses, SendMailerEmail(a) PROVE OutreachTypeOK'
  <2>1. mailer \in Sending
    BY <1>2, <1>4 DEF SendMailerEmail
  <2>2. mailer' \in Sending
    <3>3. /\ mailer.todo \ {a} \in SUBSET Addresses
          /\ mailer.sent + 1 \in Nat /\ mailer.failed + 1 \in Nat
      BY <2>1 DEF Sending
    <3>1. [mailer EXCEPT !.todo = @ \ {a}, !.pc = "count", !.sent = @ + 1] \in Sending
      BY <2>1, <3>3 DEF Sending
    <3>2. [mailer EXCEPT !.todo = @ \ {a}, !.pc = "count", !.failed = @ + 1] \in Sending
      BY <2>1, <3>3 DEF Sending
    <3> QED
      BY <1>4, <3>1, <3>2 DEF SendMailerEmail
  <2>3. posted' \in [Campaigns -> [Addresses -> Nat]]
    <3>1. posted' = posted \/ posted' = [posted EXCEPT ![mailer.campaign][a] = @ + 1]
      BY <1>4 DEF SendMailerEmail
    <3> QED
      BY <2>1, <3>1 DEF Sending, OutreachTypeOK
  <2>4. unconfirmed' \in [Campaigns -> SUBSET Addresses]
    BY <1>4, <2>1 DEF SendMailerEmail, Sending, OutreachTypeOK
  <2> QED
    BY <1>4, <2>2, <2>3, <2>4 DEF SendMailerEmail, OutreachTypeOK
<1>5. CASE CountSent
  <2>1. mailer \in Sending /\ campaign[mailer.campaign] \in CampaignRow
    BY <1>2, <1>5 DEF CountSent
  <2>2. mailer' \in Sending
    BY <1>5, <2>1 DEF CountSent, Sending
  <2>3. campaign' \in [Campaigns -> CampaignRow \cup {Null}]
    <3>1. [campaign[mailer.campaign] EXCEPT !.sent = mailer.sent, !.failed = mailer.failed]
            \in CampaignRow
      BY <2>1 DEF Sending, CampaignRow
    <3>2. \/ campaign' = campaign
          \/ campaign' = [campaign EXCEPT ![mailer.campaign] =
                            [campaign[mailer.campaign] EXCEPT !.sent = mailer.sent,
                                                              !.failed = mailer.failed]]
      BY <1>5, <2>1 DEF CountSent, OutreachTypeOK, Sending
    <3> QED
      BY <3>1, <3>2 DEF OutreachTypeOK
  <2> QED
    BY <1>5, <2>2, <2>3 DEF CountSent, OutreachTypeOK, Fault
<1>6. CASE FinishCampaign
  <2>1. mailer \in Sending /\ campaign[mailer.campaign] \in CampaignRow
    BY <1>2, <1>6 DEF FinishCampaign
  <2>2. StatusOf(mailer.sent, mailer.failed) \in Ended
    BY DEF StatusOf, Ended
  <2>3. campaign' \in [Campaigns -> CampaignRow \cup {Null}]
    <3> PICK status : status = StatusOf(mailer.sent, mailer.failed)
      OBVIOUS
    <3>1. [campaign[mailer.campaign] EXCEPT !.status = status, !.sent = mailer.sent,
                                            !.failed = mailer.failed] \in CampaignRow
      BY <2>1, <2>2 DEF Sending, CampaignRow
    <3>2. \/ campaign' = campaign
          \/ campaign' = [campaign EXCEPT ![mailer.campaign] =
                            [campaign[mailer.campaign] EXCEPT !.status = status,
                                !.sent = mailer.sent, !.failed = mailer.failed]]
      BY <1>6, <2>1 DEF FinishCampaign, OutreachTypeOK, Sending
    <3> QED
      BY <3>1, <3>2 DEF OutreachTypeOK
  <2>4. quiet' \in [mailer: SUBSET Addresses, robot: SUBSET Addresses]
    BY <1>6 DEF FinishCampaign, OutreachTypeOK
  <2> QED
    BY <1>6, <2>3, <2>4 DEF FinishCampaign, OutreachTypeOK, Fault
<1> QED
  BY <1>1, <1>3, <1>4, <1>5, <1>6 DEF Mailer

\* The steps of the automation worker keep the types.
LEMMA RobotTypes ==
  ASSUME OutreachTypeOK, Robot
  PROVE  OutreachTypeOK'
<1> USE DEF rows, sentMail
<1>1. robot # Null => robot \in Evaluating
  BY WorkerTypes
<1>2. CASE EvaluateAutomations
  <2>1. robot' \in Evaluating
    BY <1>2 DEF EvaluateAutomations, Evaluating, OutreachTypeOK
  <2> QED
    BY <1>2, <2>1 DEF EvaluateAutomations, OutreachTypeOK
<1>3. CASE ReadDueRuns
  <2>1. First(Due, Batch) \in SUBSET Runs
    BY DEF First, Due
  <2> QED
    BY <1>3, <2>1, TurnTypes DEF ReadDueRuns, OutreachTypeOK
<1>4. CASE SkipSuppressed \/ SkipUnread \/ MarkRun
  <2>1. robot.due \ {Current} \in SUBSET Runs
    BY <1>1, <1>4 DEF SkipSuppressed, SkipUnread, MarkRun, RobotAt, Evaluating
  <2>2. NextRun(robot.due \ {Current})
    BY <1>4 DEF SkipSuppressed, SkipUnread, MarkRun
  <2>3. run' \in [Runs -> RunStatuses \cup {Null}]
    BY <1>4 DEF SkipSuppressed, SkipUnread, MarkRun, OutreachTypeOK, RunStatuses
  <2>4. faults' \in Nat
    BY <1>4 DEF SkipSuppressed, SkipUnread, MarkRun, Fault, OutreachTypeOK
  <2>5. unmarked' \in [Runs -> Nat]
    BY <1>4 DEF SkipSuppressed, SkipUnread, MarkRun, MarkLost, OutreachTypeOK
  <2> QED
    BY <1>4, <2>1, <2>2, <2>3, <2>4, <2>5, TurnTypes
    DEF SkipSuppressed, SkipUnread, MarkRun, OutreachTypeOK
<1>5. CASE TakeRun \/ MailRun
  <2>1. robot \in Evaluating
    BY <1>1, <1>5 DEF TakeRun, MailRun, RobotAt
  <2>2. robot' \in Evaluating
    BY <1>5, <2>1 DEF TakeRun, MailRun, Evaluating
  <2>3. mailed' \in [Runs -> Nat]
    BY <1>5 DEF TakeRun, MailRun, OutreachTypeOK
  <2>4. quiet' \in [mailer: SUBSET Addresses, robot: SUBSET Addresses] /\ faults' \in Nat
    BY <1>5 DEF TakeRun, MailRun, OutreachTypeOK, Fault
  <2> QED
    BY <1>5, <2>2, <2>3, <2>4 DEF TakeRun, MailRun, OutreachTypeOK
<1> QED
  BY <1>2, <1>3, <1>4, <1>5 DEF Robot

\* Only these steps touch a campaign, its worker, or what was accepted for it.
LEMMA MailingKinds ==
  ASSUME [OutreachNext]_outreachVars
  PROVE  \/ QueueMailerCampaign \/ PickCampaign \/ ResolveCampaignRecipients
         \/ \E a \in Addresses : SendMailerEmail(a)
         \/ CountSent \/ FinishCampaign \/ Stop
         \/ UNCHANGED <<campaign, mailer, posted, unconfirmed>>
<1> USE DEF rows, sentMail
<1>1. ASSUME NEW r \in Runs, QueuePublishAnnouncement(r) \/ Trigger(r)
      PROVE  UNCHANGED <<campaign, mailer, posted, unconfirmed>>
  BY <1>1 DEF QueuePublishAnnouncement, Trigger
<1>2. ASSUME NEW w \in Workflows, UpdateAutomationWorkflow(w) \/ Publish(w)
      PROVE  UNCHANGED <<campaign, mailer, posted, unconfirmed>>
  BY <1>2 DEF UpdateAutomationWorkflow, Publish
<1>3. ASSUME NEW a \in Addresses, Suppress(a) \/ DeleteSuppression(a)
      PROVE  UNCHANGED <<campaign, mailer, posted, unconfirmed>>
  BY <1>3 DEF Suppress, DeleteSuppression
<1>4. CASE Robot
  BY <1>4 DEF Robot, EvaluateAutomations, ReadDueRuns, SkipSuppressed, SkipUnread, TakeRun,
              MailRun, MarkRun
<1>5. CASE UNCHANGED outreachVars
  BY <1>5 DEF outreachVars
<1> QED
  BY <1>1, <1>2, <1>3, <1>4, <1>5 DEF OutreachNext, Mailer

\* Every step keeps the types and the campaign that is being sent.
LEMMA TypeStep ==
  ASSUME TInv, [OutreachNext]_outreachVars
  PROVE  TInv'
<1> USE DEF rows, sentMail
<1>1. OutreachTypeOK'
  <2>1. CASE Stop
    <3>1. unmarked' \in [Runs -> Nat] /\ faults' \in Nat
      BY <2>1 DEF Stop, MarkLost, Fault, TInv, OutreachTypeOK
    <3>2. quiet' \in [mailer: SUBSET Addresses, robot: SUBSET Addresses]
      BY <2>1 DEF Stop, TInv, OutreachTypeOK
    <3> QED
      BY <2>1, <3>1, <3>2 DEF Stop, TInv, OutreachTypeOK
  <2>2. CASE UNCHANGED outreachVars
    BY <2>2 DEF outreachVars, TInv, OutreachTypeOK
  <2> QED
    BY <2>1, <2>2, DeskTypes, MailerTypes, RobotTypes DEF OutreachNext, TInv
<1>2. ASSUME mailer' # Null PROVE campaign'[mailer'.campaign] # Null
  <2>1. CASE QueueMailerCampaign
    <3>1. mailer' = mailer /\ mailer \in Sending /\ campaign[mailer.campaign] # Null
      BY <1>2, <2>1, WorkerTypes DEF QueueMailerCampaign, TInv
    <3>2. PICK audience \in SUBSET Addresses :
            campaign' = [campaign EXCEPT ![Foremost({c \in Campaigns : campaign[c] = Null})] =
                           [status |-> "queued", audience |-> audience, sent |-> 0, failed |-> 0]]
      BY <2>1 DEF QueueMailerCampaign
    <3>3. [status |-> "queued", audience |-> audience, sent |-> 0, failed |-> 0] # Null
      BY NullAssumption DEF CampaignRow
    <3> QED
      BY <3>1, <3>2, <3>3 DEF Sending, TInv, OutreachTypeOK
  <2>2. CASE PickCampaign
    <3>1. Waiting \in SUBSET Nat /\ Foremost(Waiting) \in Waiting
      BY <2>2, OldestIn, OutreachAssumption DEF PickCampaign, Waiting
    <3> DEFINE c == Foremost(Waiting)
    <3>2. c \in Campaigns /\ campaign[c] \in CampaignRow
      BY <3>1, WorkerTypes DEF Waiting, TInv
    <3>3. mailer'.campaign = c /\ campaign'[c] = [campaign[c] EXCEPT !.status = "sending"]
      BY <2>2, <3>2 DEF PickCampaign, TInv, OutreachTypeOK
    <3>4. [campaign[c] EXCEPT !.status = "sending"] \in CampaignRow
      BY <3>2 DEF CampaignRow
    <3> QED
      BY <3>3, <3>4, NullAssumption
  <2>3. CASE Stop \/ FinishCampaign
    BY <1>2, <2>3 DEF Stop, FinishCampaign
  <2>4. CASE ResolveCampaignRecipients \/ (\E a \in Addresses : SendMailerEmail(a))
    <3>1. mailer \in Sending /\ campaign' = campaign /\ campaign[mailer.campaign] # Null
      BY <2>4, WorkerTypes DEF TInv, ResolveCampaignRecipients, SendMailerEmail, MailerAt
    <3>2. mailer'.campaign = mailer.campaign
      BY <2>4, <3>1 DEF ResolveCampaignRecipients, SendMailerEmail, Sending
    <3> QED
      BY <3>1, <3>2
  <2>5. CASE CountSent
    <3>1. mailer \in Sending /\ campaign[mailer.campaign] \in CampaignRow
      BY <2>5, WorkerTypes DEF TInv, CountSent, MailerAt, Sending
    <3>2. mailer'.campaign = mailer.campaign
      BY <2>5, <3>1 DEF CountSent, Sending
    <3>3. \/ campaign'[mailer.campaign] =
               [campaign[mailer.campaign] EXCEPT !.sent = mailer.sent, !.failed = mailer.failed]
          \/ campaign' = campaign
      BY <2>5, <3>1 DEF CountSent, TInv, OutreachTypeOK, Sending
    <3>4. campaign'[mailer.campaign] \in CampaignRow
      BY <3>1, <3>3 DEF CampaignRow, Sending
    <3> QED
      BY <3>2, <3>4, NullAssumption
  <2>6. CASE UNCHANGED <<campaign, mailer>>
    BY <1>2, <2>6 DEF TInv
  <2> QED
    BY <2>1, <2>2, <2>3, <2>4, <2>5, <2>6, MailingKinds
<1> QED
  BY <1>1, <1>2 DEF TInv

\* The initial states have the types.
LEMMA TypeInit == OutreachInit => TInv
BY OutreachAssumption DEF OutreachInit, TInv, OutreachTypeOK

THEOREM TypeSound == OutreachSpec => []TInv
BY TypeInit, TypeStep, PTL DEF OutreachSpec

-----------------------------------------------------------------------------
(* Campaigns. *)

\* What each campaign's row says of those it reached.
CampaignKept(c) ==
  /\ \A a \in Addresses : posted[c][a] <= 1
  /\ unconfirmed[c] \subseteq Reached(c)
  /\ campaign[c] = Null \/ campaign[c].status = "queued" => Reached(c) = {}
  /\ campaign[c] # Null => campaign[c].sent <= Cardinality(Confirmed(c))
  /\ campaign[c] # Null /\ campaign[c].status \in Ended =>
       /\ campaign[c].sent = Cardinality(Confirmed(c))
       /\ campaign[c].status = "failed" <=> Confirmed(c) = {}

\* The worker's campaign is being sent, its count is right, and whom it has
\* still to mail got nothing so far.
MailerKept ==
  mailer # Null =>
    /\ campaign[mailer.campaign].status = "sending"
    /\ mailer.sent = Cardinality(Confirmed(mailer.campaign))
    /\ mailer.pc = "resolve" => Reached(mailer.campaign) = {}
    /\ \A a \in mailer.todo : posted[mailer.campaign][a] = 0

CInv == (\A c \in Campaigns : CampaignKept(c)) /\ MailerKept

\* Those a campaign reached are finitely many.
LEMMA ReachedCount ==
  ASSUME OutreachTypeOK, NEW c \in Campaigns
  PROVE  /\ IsFiniteSet(Confirmed(c)) /\ Cardinality(Confirmed(c)) \in Nat
         /\ Cardinality(Confirmed(c)) = 0 <=> Confirmed(c) = {}
<1>1. Confirmed(c) \in SUBSET Addresses /\ IsFiniteSet(Addresses)
  BY OutreachAssumption DEF Reached, Confirmed
<1>2. IsFiniteSet(Confirmed(c))
  BY <1>1, FS_Subset
<1> QED
  BY <1>2, FS_CardinalityType, FS_EmptySet

\* A campaign whose row and mail a step leaves alone is kept.
LEMMA CampaignAlone ==
  ASSUME NEW c \in Campaigns, CampaignKept(c), campaign'[c] = campaign[c], posted'[c] = posted[c],
         unconfirmed'[c] = unconfirmed[c]
  PROVE  CampaignKept(c)'
<1>1. Reached(c)' = Reached(c) /\ Confirmed(c)' = Confirmed(c)
  BY DEF Reached, Confirmed
<1> QED
  BY <1>1 DEF CampaignKept

\* One mail reaches one more address.
LEMMA OneMail ==
  ASSUME OutreachTypeOK, NEW c \in Campaigns, NEW a \in Addresses, posted[c][a] = 0,
         posted' = [posted EXCEPT ![c][a] = @ + 1]
  PROVE  /\ Reached(c)' = Reached(c) \cup {a}
         /\ posted'[c][a] = 1
         /\ \A b \in Addresses \ {a} : posted'[c][b] = posted[c][b]
         /\ \A d \in Campaigns \ {c} : posted'[d] = posted[d]
<1>1. /\ posted'[c][a] = 1
      /\ \A b \in Addresses \ {a} : posted'[c][b] = posted[c][b]
      /\ \A d \in Campaigns \ {c} : posted'[d] = posted[d]
  BY DEF OutreachTypeOK
<1>2. Reached(c)' = Reached(c) \cup {a}
  BY <1>1 DEF Reached
<1> QED
  BY <1>1, <1>2

\* It is confirmed, unless the mail is noted otherwise.
LEMMA OneMore ==
  ASSUME OutreachTypeOK, NEW c \in Campaigns, NEW a \in Addresses, a \notin Reached(c),
         unconfirmed[c] \subseteq Reached(c), Reached(c)' = Reached(c) \cup {a}
  PROVE  /\ unconfirmed' = unconfirmed =>
              Cardinality(Confirmed(c)') = Cardinality(Confirmed(c)) + 1
         /\ unconfirmed'[c] = unconfirmed[c] \cup {a} => Confirmed(c)' = Confirmed(c)
<1>1. IsFiniteSet(Confirmed(c)) /\ a \notin Confirmed(c)
  BY ReachedCount DEF Confirmed
<1>2. ASSUME unconfirmed' = unconfirmed
      PROVE  Cardinality(Confirmed(c)') = Cardinality(Confirmed(c)) + 1
  <2>1. Confirmed(c)' = Confirmed(c) \cup {a}
    BY <1>2 DEF Confirmed
  <2> QED
    BY <1>1, <2>1, FS_AddElement
<1>3. ASSUME unconfirmed'[c] = unconfirmed[c] \cup {a} PROVE Confirmed(c)' = Confirmed(c)
  BY <1>3 DEF Confirmed
<1> QED
  BY <1>2, <1>3

\* Every step keeps what campaigns and their worker say.
LEMMA CampaignStep ==
  ASSUME TInv, TInv', CInv, [OutreachNext]_outreachVars
  PROVE  CInv'
<1> USE DEF CInv, rows, sentMail
<1>1. ASSUME MailerAt("resolve") \/ MailerAt("send") \/ MailerAt("count") \/ MailerAt("finish")
      PROVE  /\ mailer \in Sending /\ mailer.campaign \in Campaigns
             /\ campaign[mailer.campaign] \in CampaignRow
             /\ campaign[mailer.campaign] # Null
  BY <1>1, WorkerTypes DEF MailerAt, Sending, TInv
<1>2. CASE QueueMailerCampaign
  <2> DEFINE new == {c \in Campaigns : campaign[c] = Null}
  <2> PICK c : c = Foremost(new)
    OBVIOUS
  <2>1. PICK audience \in SUBSET Addresses :
          new # {} /\ campaign' = [campaign EXCEPT ![c] =
                         [status |-> "queued", audience |-> audience, sent |-> 0, failed |-> 0]]
    BY <1>2 DEF QueueMailerCampaign
  <2>2. c \in new
    BY <2>1, OldestIn, OutreachAssumption
  <2>3. UNCHANGED <<mailer, posted, unconfirmed>>
    BY <1>2 DEF QueueMailerCampaign
  <2>4. CampaignKept(c)'
    <3>1. campaign'[c] = [status |-> "queued", audience |-> audience, sent |-> 0, failed |-> 0]
      BY <2>1, <2>2 DEF TInv, OutreachTypeOK
    <3>2. Reached(c)' = {} /\ Confirmed(c)' = Confirmed(c) /\ Confirmed(c) = {}
      BY <2>2, <2>3 DEF Reached, Confirmed, CampaignKept
    <3>3. Cardinality(Confirmed(c)) = 0
      BY <2>2, <3>2, ReachedCount DEF TInv
    <3>4. campaign'[c].status = "queued" /\ campaign'[c].sent = 0
      BY <3>1
    <3>5. (\A a \in Addresses : posted'[c][a] <= 1) /\ unconfirmed'[c] \subseteq Reached(c)'
      BY <2>2, <2>3 DEF CampaignKept, Reached
    <3> QED
      BY <3>2, <3>3, <3>4, <3>5 DEF CampaignKept, Ended
  <2>5. \A d \in Campaigns \ {c} : CampaignKept(d)'
    BY <2>1, <2>3, CampaignAlone DEF TInv, OutreachTypeOK
  <2>6. MailerKept'
    <3>1. ASSUME mailer # Null PROVE mailer.campaign \in Campaigns \ {c}
      BY <3>1, <2>2, WorkerTypes DEF TInv, Sending
    <3>2. ASSUME mailer # Null PROVE campaign'[mailer.campaign] = campaign[mailer.campaign]
      BY <2>1, <3>1, <3>2 DEF TInv, OutreachTypeOK
    <3> QED
      BY <2>3, <3>2 DEF MailerKept, Reached, Confirmed
  <2> QED
    BY <2>4, <2>5, <2>6
<1>3. CASE PickCampaign
  <2> PICK c : c = Foremost(Waiting)
    OBVIOUS
  <2>1. c \in Waiting /\ c \in Campaigns /\ campaign[c] \in CampaignRow
    BY <1>3, OldestIn, OutreachAssumption, WorkerTypes DEF PickCampaign, Waiting, TInv
  <2>2. /\ Reached(c) = {} /\ Confirmed(c) = {} /\ Cardinality(Confirmed(c)) = 0
        /\ campaign[c].sent = 0
    <3>1. campaign[c] # Null /\ campaign[c].status = "queued" /\ campaign[c].sent \in Nat
      BY <2>1 DEF Waiting, CampaignRow
    <3>2. Reached(c) = {} /\ Confirmed(c) = {} /\ campaign[c].sent <= Cardinality(Confirmed(c))
      BY <2>1, <3>1 DEF CampaignKept, Confirmed
    <3>3. Cardinality(Confirmed(c)) = 0
      BY <2>1, <3>2, ReachedCount DEF TInv
    <3> QED
      BY <3>1, <3>2, <3>3
  <2>3. campaign'[c] = [campaign[c] EXCEPT !.status = "sending"]
    BY <1>3, <2>1 DEF PickCampaign, TInv, OutreachTypeOK
  <2>4. campaign'[c].status = "sending" /\ campaign'[c].sent = 0
    BY <2>1, <2>2, <2>3 DEF CampaignRow
  <2>5. /\ UNCHANGED <<posted, unconfirmed>>
        /\ Reached(c)' = Reached(c) /\ Confirmed(c)' = Confirmed(c)
    BY <1>3 DEF PickCampaign, Reached, Confirmed
  <2>6. CampaignKept(c)'
    BY <2>1, <2>2, <2>4, <2>5 DEF CampaignKept, Ended
  <2>7. \A d \in Campaigns \ {c} : CampaignKept(d)'
    BY <1>3, <2>5, CampaignAlone DEF PickCampaign, TInv, OutreachTypeOK
  <2>8. MailerKept'
    BY <1>3, <2>2, <2>4, <2>5 DEF PickCampaign, MailerKept
  <2> QED
    BY <2>6, <2>7, <2>8
<1>4. CASE ResolveCampaignRecipients
  <2> PICK c : c = mailer.campaign
    OBVIOUS
  <2>1. /\ mailer \in Sending /\ c \in Campaigns /\ UNCHANGED <<campaign, posted, unconfirmed>>
        /\ Audience \in SUBSET Addresses
    BY <1>1, <1>4 DEF ResolveCampaignRecipients, Audience, CampaignRow
  <2>2. Reached(c) = {}
    BY <1>4 DEF MailerKept, ResolveCampaignRecipients, MailerAt
  <2>3. \A a \in Addresses : posted[c][a] = 0
    BY <2>1, <2>2 DEF Reached, TInv, OutreachTypeOK
  <2>4. /\ mailer' \in Sending /\ mailer'.campaign = c /\ mailer'.sent = mailer.sent
        /\ mailer'.pc # "resolve"
    BY <1>4, <2>1, ResolvedTo
  <2>6. MailerKept'
    BY <1>4, <2>1, <2>3, <2>4 DEF MailerKept, Reached, Confirmed, Sending,
         ResolveCampaignRecipients, MailerAt
  <2> QED
    BY <2>1, <2>6, CampaignAlone
<1>5. ASSUME NEW a \in Addresses, SendMailerEmail(a) PROVE CInv'
  <2> PICK c : c = mailer.campaign
    OBVIOUS
  <2>1. mailer \in Sending /\ c \in Campaigns /\ campaign[c] \in CampaignRow /\ campaign' = campaign
    BY <1>1, <1>5 DEF SendMailerEmail
  <2>2. /\ posted[c][a] = 0 /\ campaign[c] # Null /\ campaign[c].status = "sending"
        /\ mailer.sent = Cardinality(Confirmed(c)) /\ unconfirmed[c] \subseteq Reached(c)
        /\ \A b \in mailer.todo : posted[c][b] = 0
    BY <1>1, <1>5 DEF SendMailerEmail, MailerKept, CampaignKept, MailerAt
  <2>3. CASE /\ UNCHANGED <<posted, unconfirmed>>
             /\ mailer' = [mailer EXCEPT !.todo = @ \ {a}, !.pc = "count", !.failed = @ + 1]
    <3>1. MailerKept'
      BY <2>1, <2>2, <2>3 DEF MailerKept, Reached, Confirmed, Sending
    <3> QED
      BY <2>1, <2>3, <3>1, CampaignAlone
  <2>4. CASE /\ posted' = [posted EXCEPT ![c][a] = @ + 1]
             /\ \/ /\ mailer' = [mailer EXCEPT !.todo = @ \ {a}, !.pc = "count", !.sent = @ + 1]
                   /\ UNCHANGED unconfirmed
                \/ /\ mailer' = [mailer EXCEPT !.todo = @ \ {a}, !.pc = "count", !.failed = @ + 1]
                   /\ unconfirmed' = [unconfirmed EXCEPT ![c] = @ \cup {a}]
    <3>1. /\ Reached(c)' = Reached(c) \cup {a}
          /\ posted'[c][a] = 1
          /\ \A b \in Addresses \ {a} : posted'[c][b] = posted[c][b]
          /\ \A d \in Campaigns \ {c} : posted'[d] = posted[d]
      BY <2>1, <2>2, <2>4, OneMail DEF TInv
    <3>8. a \notin Reached(c)
      BY <2>2 DEF Reached
    <3>2. /\ \/ unconfirmed' = unconfirmed
             \/ unconfirmed'[c] = unconfirmed[c] \cup {a}
          /\ unconfirmed'[c] \subseteq Reached(c)'
          /\ \A d \in Campaigns \ {c} : unconfirmed'[d] = unconfirmed[d]
      BY <2>1, <2>2, <2>4, <3>1 DEF TInv, OutreachTypeOK
    <3>3. /\ mailer'.campaign = c /\ mailer'.pc = "count" /\ mailer'.todo = mailer.todo \ {a}
          /\ mailer.todo \in SUBSET Addresses
      BY <2>1, <2>4 DEF Sending
    <3>4. /\ mailer'.sent = Cardinality(Confirmed(c)')
          /\ Cardinality(Confirmed(c)) \in Nat /\ Cardinality(Confirmed(c)') \in Nat
          /\ Cardinality(Confirmed(c)) <= Cardinality(Confirmed(c)')
      <4>1. Cardinality(Confirmed(c)) \in Nat
        BY <2>1, ReachedCount DEF TInv
      <4>2. CASE mailer' = [mailer EXCEPT !.todo = @ \ {a}, !.pc = "count", !.sent = @ + 1]
                 /\ UNCHANGED unconfirmed
        <5>1. Cardinality(Confirmed(c)') = Cardinality(Confirmed(c)) + 1
          BY <2>1, <2>2, <3>1, <3>8, <4>2, OneMore DEF TInv
        <5>2. mailer'.sent = mailer.sent + 1
          BY <2>1, <4>2 DEF Sending
        <5> QED
          BY <2>2, <4>1, <5>1, <5>2
      <4>3. CASE mailer' = [mailer EXCEPT !.todo = @ \ {a}, !.pc = "count", !.failed = @ + 1]
                 /\ unconfirmed' = [unconfirmed EXCEPT ![c] = @ \cup {a}]
        <5>1. unconfirmed'[c] = unconfirmed[c] \cup {a}
          BY <2>1, <4>3 DEF TInv, OutreachTypeOK
        <5>2. Confirmed(c)' = Confirmed(c)
          BY <2>1, <2>2, <3>1, <3>8, <5>1, OneMore DEF TInv
        <5>3. mailer'.sent = mailer.sent
          BY <2>1, <4>3 DEF Sending
        <5> QED
          BY <2>2, <4>1, <5>2, <5>3
      <4> QED
        BY <2>4, <4>2, <4>3
    <3>5. CampaignKept(c)'
      <4>1. campaign[c].sent <= Cardinality(Confirmed(c)) /\ \A b \in Addresses : posted[c][b] <= 1
        BY <2>1, <2>2 DEF CampaignKept
      <4>2. campaign[c].sent \in Nat /\ Cardinality(Confirmed(c)') \in Nat
        BY <2>1, <3>4 DEF CampaignRow
      <4>3. \A b \in Addresses : posted'[c][b] <= 1
        BY <3>1, <4>1
      <4>4. campaign'[c].sent <= Cardinality(Confirmed(c)')
        BY <2>1, <3>4, <4>1, <4>2
      <4> QED
        BY <2>1, <2>2, <3>2, <4>3, <4>4 DEF CampaignKept, Ended
    <3>6. \A d \in Campaigns \ {c} : CampaignKept(d)'
      BY <2>1, <3>1, <3>2, CampaignAlone
    <3>7. MailerKept'
      BY <2>1, <2>2, <3>1, <3>3, <3>4 DEF MailerKept
    <3> QED
      BY <3>5, <3>6, <3>7
  <2> QED
    BY <1>5, <2>3, <2>4 DEF SendMailerEmail
<1>6. CASE CountSent
  <2> PICK c : c = mailer.campaign
    OBVIOUS
  <2>1. mailer \in Sending /\ c \in Campaigns /\ campaign[c] \in CampaignRow /\ campaign[c] # Null
    BY <1>1, <1>6 DEF CountSent
  <2>2. campaign[c].status = "sending" /\ mailer.sent = Cardinality(Confirmed(c))
    BY <1>6 DEF CountSent, MailerKept, MailerAt
  <2>3. /\ \/ campaign'[c] = [campaign[c] EXCEPT !.sent = mailer.sent, !.failed = mailer.failed]
           \/ campaign'[c] = campaign[c]
        /\ \A d \in Campaigns \ {c} : campaign'[d] = campaign[d]
        /\ UNCHANGED <<posted, unconfirmed>>
    BY <1>6, <2>1 DEF CountSent, TInv, OutreachTypeOK
  <2>4. /\ campaign'[c].status = "sending"
        /\ campaign'[c].sent \in {mailer.sent, campaign[c].sent}
    BY <2>1, <2>2, <2>3 DEF CampaignRow
  <2>5. /\ Reached(c)' = Reached(c) /\ Confirmed(c)' = Confirmed(c)
        /\ Cardinality(Confirmed(c)) \in Nat
    BY <2>1, <2>3, ReachedCount DEF Reached, Confirmed, TInv
  <2>6. CampaignKept(c)'
    <3>1. (\A a \in Addresses : posted'[c][a] <= 1) /\ unconfirmed'[c] \subseteq Reached(c)'
      BY <2>1, <2>3, <2>5 DEF CampaignKept
    <3>2. campaign'[c].sent <= Cardinality(Confirmed(c)')
      BY <2>1, <2>2, <2>4, <2>5 DEF CampaignKept
    <3>3. ~(campaign'[c] = Null \/ campaign'[c].status = "queued")
      <4>1. campaign'[c] \in CampaignRow
        BY <2>1, <2>3 DEF CampaignRow, Sending
      <4> QED
        BY <2>4, <4>1, NullAssumption
    <3> QED
      BY <2>4, <3>1, <3>2, <3>3 DEF CampaignKept, Ended
  <2>7. /\ mailer'.campaign = c /\ mailer'.sent = mailer.sent /\ mailer'.todo = mailer.todo
        /\ mailer'.pc # "resolve"
    BY <1>6, <2>1 DEF CountSent, Sending
  <2>8. MailerKept'
    BY <1>6, <2>2, <2>3, <2>4, <2>5, <2>7 DEF MailerKept, CountSent, MailerAt
  <2>9. \A d \in Campaigns \ {c} : CampaignKept(d)'
    BY <2>3, CampaignAlone
  <2> QED
    BY <2>6, <2>8, <2>9
<1>7. CASE FinishCampaign
  <2> PICK c : c = mailer.campaign
    OBVIOUS
  <2>1. mailer \in Sending /\ c \in Campaigns /\ campaign[c] \in CampaignRow /\ campaign[c] # Null
    BY <1>1, <1>7 DEF FinishCampaign
  <2>2. mailer.sent = Cardinality(Confirmed(c))
    BY <1>7 DEF FinishCampaign, MailerKept, MailerAt
  <2>3. mailer' = Null /\ UNCHANGED <<posted, unconfirmed>>
    BY <1>7 DEF FinishCampaign
  <2>4. CASE UNCHANGED campaign
    BY <2>3, <2>4, CampaignAlone DEF MailerKept
  <2>5. CASE campaign' = [campaign EXCEPT
                ![mailer.campaign].status = StatusOf(mailer.sent, mailer.failed),
                ![mailer.campaign].sent = mailer.sent, ![mailer.campaign].failed = mailer.failed]
    <3>1. /\ campaign'[c] = [campaign[c] EXCEPT !.status = StatusOf(mailer.sent, mailer.failed),
                                                !.sent = mailer.sent, !.failed = mailer.failed]
          /\ \A d \in Campaigns \ {c} : campaign'[d] = campaign[d]
      BY <2>1, <2>5 DEF TInv, OutreachTypeOK
    <3>2. /\ campaign'[c].status = StatusOf(mailer.sent, mailer.failed)
          /\ campaign'[c].sent = mailer.sent
      BY <2>1, <3>1 DEF CampaignRow
    <3>3. /\ Reached(c)' = Reached(c) /\ Confirmed(c)' = Confirmed(c)
          /\ Cardinality(Confirmed(c)) \in Nat
          /\ Cardinality(Confirmed(c)) = 0 <=> Confirmed(c) = {}
      BY <2>1, <2>3, ReachedCount DEF Reached, Confirmed, TInv
    <3>4. /\ StatusOf(mailer.sent, mailer.failed) \in Ended
          /\ StatusOf(mailer.sent, mailer.failed) = "failed" <=> mailer.sent = 0
      BY DEF StatusOf, Ended
    <3>5. CampaignKept(c)'
      <4>1. campaign'[c] \in CampaignRow
        BY <2>1, <3>1, <3>4 DEF CampaignRow, Sending
      <4>2. /\ campaign'[c] # Null /\ \A a \in Addresses : posted[c][a] <= 1
            /\ unconfirmed'[c] \subseteq Reached(c)'
        BY <2>1, <2>3, <3>3, <4>1, NullAssumption DEF CampaignKept
      <4> QED
        BY <2>2, <2>3, <3>2, <3>3, <3>4, <4>2 DEF CampaignKept, Ended
    <3>6. \A d \in Campaigns \ {c} : CampaignKept(d)'
      BY <2>3, <3>1, CampaignAlone
    <3> QED
      BY <2>3, <3>5, <3>6 DEF MailerKept
  <2> QED
    BY <1>7, <2>4, <2>5 DEF FinishCampaign
<1>8. CASE Stop
  <2>1. UNCHANGED <<campaign, posted, unconfirmed>> /\ mailer' = Null
    BY <1>8 DEF Stop
  <2> QED
    BY <2>1, CampaignAlone DEF MailerKept
<1>9. CASE UNCHANGED <<campaign, mailer, posted, unconfirmed>>
  <2>1. MailerKept'
    BY <1>9 DEF MailerKept, Reached, Confirmed
  <2> QED
    BY <1>9, <2>1, CampaignAlone
<1> QED
  BY <1>2, <1>3, <1>4, <1>5, <1>6, <1>7, <1>8, <1>9, MailingKinds

-----------------------------------------------------------------------------
(* Scheduled messages. *)

\* What the worker has still to do was scheduled and nobody else touches it.
RobotKept ==
  robot # Null /\ robot.pc # "schedule" =>
    robot.due # {} /\ \A r \in robot.due : run[r] = "scheduled"

\* A run that is not done was mailed as often as its mark was lost, one that is sent once more.
RunKept(r) ==
  /\ mailed[r] <= unmarked[r] + 1
  /\ run[r] = "sent" => mailed[r] = unmarked[r] + 1
  /\ run[r] \notin {"sent", "failed"} =>
       mailed[r] = unmarked[r] + IF Unnoted(r) THEN 1 ELSE 0

RInv == RobotKept /\ \A r \in Runs : RunKept(r)

\* Nothing is scheduled or mailed at first.
LEMMA RunInit == OutreachInit => RInv
<1> SUFFICES ASSUME OutreachInit PROVE RInv
  OBVIOUS
<1>1. RobotKept /\ \A r \in Runs : ~Unnoted(r)
  BY DEF OutreachInit, RobotKept, Unnoted, RobotAt
<1>2. \A r \in Runs : run[r] # "sent" /\ mailed[r] = 0 /\ unmarked[r] = 0
  BY NullAssumption DEF OutreachInit, RunStatuses
<1> QED
  BY <1>1, <1>2 DEF RInv, RunKept

\* Only these steps touch a run, its worker, or what was accepted for it.
LEMMA RobotKinds ==
  ASSUME [OutreachNext]_outreachVars
  PROVE  \/ \E r \in Runs : ScheduleRun(r) /\ UNCHANGED <<robot, mailed, unmarked>>
         \/ EvaluateAutomations \/ ReadDueRuns \/ SkipSuppressed \/ SkipUnread \/ TakeRun
         \/ MailRun \/ MarkRun \/ Stop
         \/ UNCHANGED <<run, robot, mailed, unmarked>>
<1> USE DEF rows, sentMail
<1>1. ASSUME NEW r \in Runs, QueuePublishAnnouncement(r) \/ Trigger(r)
      PROVE  ScheduleRun(r) /\ UNCHANGED <<robot, mailed, unmarked>>
  BY <1>1 DEF QueuePublishAnnouncement, Trigger
<1>2. ASSUME NEW w \in Workflows, UpdateAutomationWorkflow(w) \/ Publish(w)
      PROVE  UNCHANGED <<run, robot, mailed, unmarked>>
  BY <1>2 DEF UpdateAutomationWorkflow, Publish
<1>3. ASSUME NEW a \in Addresses, Suppress(a) \/ DeleteSuppression(a)
      PROVE  UNCHANGED <<run, robot, mailed, unmarked>>
  BY <1>3 DEF Suppress, DeleteSuppression
<1>4. CASE Mailer \/ QueueMailerCampaign
  BY <1>4 DEF Mailer, PickCampaign, ResolveCampaignRecipients, CountSent, FinishCampaign,
              SendMailerEmail, QueueMailerCampaign
<1>5. CASE UNCHANGED outreachVars
  BY <1>5 DEF outreachVars
<1> QED
  BY <1>1, <1>2, <1>3, <1>4, <1>5 DEF OutreachNext, Robot

\* The worker's current run is one it has still to do.
LEMMA CurrentDue ==
  ASSUME OutreachTypeOK, RobotKept, robot # Null, robot.pc # "schedule"
  PROVE  /\ robot \in Evaluating /\ Current \in Runs /\ Current \in robot.due
         /\ run[Current] = "scheduled"
<1>1. robot \in Evaluating /\ robot.due # {} /\ robot.due \in SUBSET Runs
  BY WorkerTypes DEF RobotKept, Evaluating
<1>2. Current \in robot.due
  BY <1>1, OldestIn, OutreachAssumption DEF Current
<1> QED
  BY <1>1, <1>2 DEF RobotKept

\* A turn to runs that are scheduled keeps the worker's promise and notes nothing.
LEMMA TurnKept ==
  ASSUME NEW due \in SUBSET Runs, NextRun(due), \A r \in due : run'[r] = "scheduled"
  PROVE  RobotKept' /\ ~RobotAt("mark")' /\ ~RobotAt("mail")'
<1>1. CASE due = {}
  BY <1>1 DEF NextRun, RobotKept, RobotAt
<1>2. CASE due # {}
  <2>1. /\ robot' = [pc |-> "check", seen |-> {}, due |-> due, answer |-> "none"]
        /\ robot'.pc = "check" /\ robot'.due = due
    BY <1>2 DEF NextRun
  <2> QED
    BY <1>2, <2>1 DEF RobotKept, RobotAt
<1> QED
  BY <1>1, <1>2

\* Every step keeps what runs and their worker say.
LEMMA RunStep ==
  ASSUME OutreachTypeOK, OutreachTypeOK', RInv, [OutreachNext]_outreachVars
  PROVE  RInv'
<1> USE DEF RInv, rows, sentMail
<1>1. \A r \in Runs : mailed[r] \in Nat /\ unmarked[r] \in Nat
  BY DEF OutreachTypeOK
<1>2. ASSUME NEW s \in Runs, ScheduleRun(s), UNCHANGED <<robot, mailed, unmarked>>
      PROVE  RInv'
  <2>1. \A r \in Runs : run'[r] = run[r] \/ (run[r] = Null /\ run'[r] = "scheduled")
    BY <1>2 DEF ScheduleRun, OutreachTypeOK
  <2>2. Null \notin {"scheduled", "sent", "failed"}
    BY NullAssumption DEF RunStatuses
  <2>3. RobotKept'
    <3>1. ASSUME robot # Null PROVE robot.due \in SUBSET Runs
      BY <3>1, WorkerTypes DEF Evaluating
    <3> QED
      BY <1>2, <2>1, <2>2, <3>1 DEF RobotKept
  <2>4. \A r \in Runs : Unnoted(r)' <=> Unnoted(r)
    BY <1>2 DEF Unnoted, RobotAt, Current
  <2>5. \A r \in Runs : RunKept(r)'
    BY <1>2, <2>1, <2>2, <2>4 DEF RunKept
  <2> QED
    BY <2>3, <2>5
<1>3. CASE EvaluateAutomations
  <2>1. robot = Null /\ robot'.pc = "schedule" /\ UNCHANGED <<run, mailed, unmarked>>
    BY <1>3 DEF EvaluateAutomations
  <2>2. \A r \in Runs : ~Unnoted(r) /\ ~Unnoted(r)'
    BY <2>1 DEF Unnoted, RobotAt
  <2> QED
    BY <2>1, <2>2 DEF RobotKept, RunKept
<1>4. CASE ReadDueRuns
  <2>1. RobotAt("schedule") /\ UNCHANGED <<run, mailed, unmarked>>
    BY <1>4 DEF ReadDueRuns
  <2>2. /\ First(Due, Batch) \in SUBSET Runs
        /\ \A r \in First(Due, Batch) : run'[r] = "scheduled"
    BY <2>1 DEF First, Due
  <2>3. RobotKept' /\ ~RobotAt("mark")'
    BY <1>4, <2>2, TurnKept DEF ReadDueRuns
  <2>4. \A r \in Runs : ~Unnoted(r) /\ ~Unnoted(r)'
    BY <2>1, <2>3 DEF Unnoted, RobotAt
  <2> QED
    BY <2>1, <2>3, <2>4 DEF RunKept
<1>5. ASSUME RobotAt("check") \/ RobotAt("mail") \/ RobotAt("mark")
      PROVE  /\ robot # Null /\ robot \in Evaluating
             /\ Current \in Runs /\ Current \in robot.due /\ run[Current] = "scheduled"
             /\ robot.due \ {Current} \in SUBSET Runs
  BY <1>5, CurrentDue DEF RobotAt, Evaluating
<1>6. CASE SkipSuppressed \/ SkipUnread
  <2>1. RobotAt("check") /\ UNCHANGED <<mailed, unmarked>> /\ NextRun(robot.due \ {Current})
    BY <1>6 DEF SkipSuppressed, SkipUnread
  <2>2. /\ \A r \in Runs \ {Current} : run'[r] = run[r]
        /\ run'[Current] \in {"suppressed", "scheduled"}
    BY <1>5, <1>6, <2>1 DEF SkipSuppressed, SkipUnread, OutreachTypeOK
  <2>3. \A r \in robot.due \ {Current} : run'[r] = "scheduled"
    BY <1>5, <2>1, <2>2 DEF RobotKept, RobotAt
  <2>4. RobotKept' /\ ~RobotAt("mark")'
    BY <1>5, <2>1, <2>3, TurnKept
  <2>5. \A r \in Runs : ~Unnoted(r) /\ ~Unnoted(r)'
    BY <2>1, <2>4 DEF Unnoted, RobotAt
  <2>6. \A r \in Runs : RunKept(r)'
    BY <1>5, <2>1, <2>2, <2>5 DEF RunKept
  <2> QED
    BY <2>4, <2>6
<1>7. CASE TakeRun
  <2>1. RobotAt("check") /\ UNCHANGED <<run, mailed, unmarked>> /\ robot' = [robot EXCEPT !.pc = "mail"]
    BY <1>7 DEF TakeRun
  <2>2. robot'.pc = "mail" /\ robot'.due = robot.due /\ robot.pc = "check"
    BY <1>5, <2>1 DEF Evaluating, RobotAt
  <2>3. \A r \in Runs : ~Unnoted(r) /\ ~Unnoted(r)'
    BY <2>2 DEF Unnoted, RobotAt
  <2> QED
    BY <1>5, <2>1, <2>2, <2>3 DEF RobotKept, RunKept
<1>8. CASE MailRun
  <2>1. RobotAt("mail") /\ UNCHANGED <<run, unmarked>> /\ robot.pc = "mail"
    BY <1>8 DEF MailRun, RobotAt
  <2>2. robot'.pc = "mark" /\ robot'.due = robot.due /\ robot' \in Evaluating /\ robot' # Null
    <3>1. robot'.pc = "mark" /\ robot'.due = robot.due
      BY <1>5, <1>8, <2>1 DEF MailRun, Evaluating
    <3>2. robot' \in Evaluating
      BY <1>5, <1>8, <2>1 DEF MailRun, Evaluating
    <3> QED
      BY <3>1, <3>2, NullAssumption
  <2>3. Current' = Current
    BY <2>2 DEF Current
  <2>4. \A r \in Runs : mailed[r] = unmarked[r] \/ run[r] \in {"sent", "failed"}
    BY <1>1, <2>1 DEF RunKept, Unnoted, RobotAt
  <2>5. \A r \in Runs : RunKept(r)'
    <3>1. CASE mailed' = [mailed EXCEPT ![Current] = @ + 1]
               /\ robot'.answer \in {"accepted", "unanswered"}
      <4>1. \A r \in Runs : Unnoted(r)' <=> r = Current
        BY <2>2, <2>3, <3>1 DEF Unnoted, RobotAt
      <4>2. mailed'[Current] = mailed[Current] + 1 /\ mailed[Current] = unmarked[Current]
        BY <1>5, <2>1, <2>4, <3>1 DEF OutreachTypeOK
      <4>3. \A r \in Runs \ {Current} : mailed'[r] = mailed[r]
        BY <3>1 DEF OutreachTypeOK
      <4>4. \A r \in Runs : r = Current => RunKept(r)'
        BY <1>1, <1>5, <2>1, <4>1, <4>2, <2>3 DEF RunKept
      <4>5. \A r \in Runs \ {Current} : RunKept(r)'
        BY <1>1, <2>1, <2>4, <4>1, <4>3 DEF RunKept
      <4> QED
        BY <4>4, <4>5
    <3>2. CASE mailed' = mailed /\ robot'.answer = "refused"
      <4>1. \A r \in Runs : ~Unnoted(r)'
        BY <3>2 DEF Unnoted
      <4> QED
        BY <1>1, <2>1, <2>4, <3>2, <4>1 DEF RunKept
    <3>3. \/ /\ mailed' = [mailed EXCEPT ![Current] = @ + 1]
             /\ robot'.answer \in {"accepted", "unanswered"}
          \/ mailed' = mailed /\ robot'.answer = "refused"
      BY <1>5, <1>8, <2>1 DEF MailRun, Evaluating
    <3> QED
      BY <3>1, <3>2, <3>3
  <2>6. RobotKept'
    BY <2>1, <2>2, <1>5 DEF RobotKept
  <2> QED
    BY <2>5, <2>6
<1>9. CASE MarkRun
  <2>1. RobotAt("mark") /\ UNCHANGED mailed /\ NextRun(robot.due \ {Current})
    BY <1>9 DEF MarkRun
  <2>2. \A r \in Runs : Unnoted(r) <=> r = Current /\ robot.answer \in {"accepted", "unanswered"}
    BY <2>1 DEF Unnoted
  <2>3. CASE UNCHANGED unmarked
             /\ run' = [run EXCEPT ![Current] = IF robot.answer = "accepted" THEN "sent" ELSE "failed"]
    <3>1. /\ \A r \in Runs \ {Current} : run'[r] = run[r]
          /\ run'[Current] = IF robot.answer = "accepted" THEN "sent" ELSE "failed"
      BY <1>5, <2>1, <2>3 DEF OutreachTypeOK
    <3>2. \A r \in robot.due \ {Current} : run'[r] = "scheduled"
      BY <1>5, <2>1, <3>1 DEF RobotKept, RobotAt
    <3>3. RobotKept' /\ ~RobotAt("mark")'
      BY <1>5, <2>1, <3>2, TurnKept
    <3>4. \A r \in Runs \ {Current} : ~Unnoted(r) /\ ~Unnoted(r)'
      BY <2>2, <3>3 DEF Unnoted
    <3>5. \A r \in Runs \ {Current} : RunKept(r)'
      BY <2>1, <2>3, <3>1, <3>4 DEF RunKept
    <3>6. \A r \in Runs : r = Current => RunKept(r)'
      BY <1>5, <2>1, <2>2, <2>3, <3>1 DEF RunKept
    <3> QED
      BY <3>3, <3>5, <3>6
  <2>4. CASE MarkLost /\ UNCHANGED run
    <3>1. \A r \in robot.due \ {Current} : run'[r] = "scheduled"
      BY <1>5, <2>1, <2>4 DEF RobotKept, RobotAt
    <3>2. RobotKept' /\ ~RobotAt("mark")'
      BY <1>5, <2>1, <3>1, TurnKept
    <3>3. \A r \in Runs : ~Unnoted(r)'
      BY <3>2 DEF Unnoted
    <3>4. \A r \in Runs : unmarked'[r] = unmarked[r] + IF Unnoted(r) THEN 1 ELSE 0
      BY <2>4 DEF MarkLost
    <3>5. \A r \in Runs : Unnoted(r) => run[r] = "scheduled"
      BY <1>5, <2>1, <2>2
    <3>6. \A r \in Runs : RunKept(r)'
      BY <1>1, <2>1, <2>4, <3>3, <3>4, <3>5 DEF RunKept
    <3> QED
      BY <3>2, <3>6
  <2> QED
    BY <1>9, <2>3, <2>4 DEF MarkRun
<1>10. CASE Stop
  <2>1. robot' = Null /\ UNCHANGED <<run, mailed>>
    BY <1>10 DEF Stop
  <2>2. \A r \in Runs : unmarked'[r] = unmarked[r] + IF Unnoted(r) THEN 1 ELSE 0
    BY <1>10 DEF Stop, MarkLost
  <2>3. \A r \in Runs : ~Unnoted(r)'
    BY <2>1 DEF Unnoted, RobotAt
  <2>4. \A r \in Runs : Unnoted(r) => run[r] = "scheduled"
    BY <1>5 DEF Unnoted
  <2>5. \A r \in Runs : RunKept(r)'
    BY <1>1, <2>1, <2>2, <2>3, <2>4 DEF RunKept
  <2> QED
    BY <2>1, <2>5 DEF RobotKept
<1>11. CASE UNCHANGED <<run, robot, mailed, unmarked>>
  BY <1>11 DEF RobotKept, RunKept, Unnoted, RobotAt, Current
<1> QED
  BY <1>2, <1>3, <1>4, <1>6, <1>7, <1>8, <1>9, <1>10, <1>11, RobotKinds

\* No address gets a campaign twice, and a campaign that ended says how many of those it
\* reached were confirmed; a run is mailed again only if the mark of its mail was lost.
THEOREM MailsOnce == OutreachSpec => []MailedOnce
<1>1. OutreachInit => CInv /\ RInv
  <2> SUFFICES ASSUME OutreachInit PROVE CInv /\ RInv
    OBVIOUS
  <2>1. \A c \in Campaigns : CampaignKept(c)
    BY DEF OutreachInit, CampaignKept, Reached, Confirmed
  <2> QED
    BY <2>1, RunInit DEF OutreachInit, CInv, MailerKept
<1>2. TInv /\ TInv' /\ CInv /\ RInv /\ [OutreachNext]_outreachVars => CInv' /\ RInv'
  BY CampaignStep, RunStep DEF TInv
<1>3. TInv /\ CInv /\ RInv => MailedOnce
  <2> SUFFICES ASSUME TInv, CInv, RInv PROVE MailedOnce
    OBVIOUS
  <2>1. \A r \in Runs : run[r] = "suppressed" => mailed[r] = unmarked[r]
    <3> SUFFICES ASSUME NEW r \in Runs, run[r] = "suppressed" PROVE mailed[r] = unmarked[r]
      OBVIOUS
    <3>1. ~Unnoted(r)
      BY CurrentDue DEF Unnoted, RobotAt, RInv, TInv
    <3> QED
      BY <3>1 DEF RInv, RunKept, TInv, OutreachTypeOK
  <2> QED
    BY <2>1 DEF CInv, RInv, CampaignKept, RunKept, MailedOnce
<1> QED
  BY <1>1, <1>2, <1>3, TypeSound, PTL DEF OutreachSpec

-----------------------------------------------------------------------------
(* Suppressed addresses. *)

\* Whom a worker is about to mail was not suppressed before it began.
QInv ==
  /\ MailerAt("resolve") => mailer.todo = {} /\ quiet.mailer \subseteq suppressed
  /\ mailer # Null => mailer.todo \cap quiet.mailer = {}
  /\ RobotAt("check") => quiet.robot \subseteq suppressed
  /\ RobotAt("mail") => AddressOf[Current] \notin quiet.robot

\* A turn of the automation worker begins with those suppressed by now.
LEMMA TurnQuiet ==
  ASSUME OutreachTypeOK, NEW due \in SUBSET Runs, NextRun(due), suppressed' = suppressed
  PROVE  /\ RobotAt("check")' => quiet'.robot \subseteq suppressed'
         /\ ~RobotAt("mail")' /\ quiet'.mailer = quiet.mailer
<1>1. quiet'.robot \subseteq suppressed' /\ quiet'.mailer = quiet.mailer
  BY DEF NextRun, OutreachTypeOK
<1>2. ~RobotAt("mail")'
  BY DEF NextRun, RobotAt
<1> QED
  BY <1>1, <1>2

\* Every step keeps it.
LEMMA QuietStep ==
  ASSUME TInv, RInv, QInv, [OutreachNext]_outreachVars
  PROVE  QInv'
<1> USE DEF QInv, TInv, rows, sentMail
<1>1. /\ mailer # Null => mailer \in Sending
      /\ robot # Null => robot \in Evaluating
      /\ quiet \in [mailer: SUBSET Addresses, robot: SUBSET Addresses]
  BY WorkerTypes DEF OutreachTypeOK
<1>2. ASSUME UNCHANGED <<suppressed, mailer, robot, quiet>> PROVE QInv'
  BY <1>2 DEF MailerAt, RobotAt, Current
<1>3. ASSUME NEW a \in Addresses, Suppress(a) PROVE QInv'
  BY <1>3 DEF Suppress, MailerAt, RobotAt, Current
<1>4. ASSUME NEW a \in Addresses, DeleteSuppression(a) PROVE QInv'
  <2>1. /\ quiet'.mailer = quiet.mailer \ {a} /\ quiet'.robot = quiet.robot \ {a}
        /\ suppressed' = suppressed \ {a} /\ UNCHANGED <<mailer, robot>>
    BY <1>1, <1>4 DEF DeleteSuppression
  <2> QED
    BY <2>1 DEF MailerAt, RobotAt, Current
<1>5. CASE PickCampaign
  <2>1. /\ mailer'.todo = {} /\ quiet'.mailer = suppressed /\ quiet'.robot = quiet.robot
        /\ UNCHANGED <<suppressed, robot>>
    BY <1>1, <1>5 DEF PickCampaign
  <2> QED
    BY <2>1 DEF MailerAt, RobotAt, Current
<1>6. CASE ResolveCampaignRecipients
  <2>1. /\ MailerAt("resolve") /\ mailer \in Sending /\ UNCHANGED <<suppressed, robot>>
    BY <1>1, <1>6 DEF ResolveCampaignRecipients, MailerAt
  <2>2. CASE mailer' = [mailer EXCEPT !.pc = "finish", !.failed = 1] /\ UNCHANGED quiet
    <3>1. mailer'.pc = "finish" /\ mailer'.todo = mailer.todo
      BY <2>1, <2>2 DEF Sending
    <3> QED
      BY <2>1, <2>2, <3>1 DEF MailerAt, RobotAt, Current
  <2>3. ASSUME NEW overlooked \in SUBSET (Audience \cap suppressed),
               mailer' = [mailer EXCEPT !.todo = (Audience \ suppressed) \cup overlooked,
                                        !.pc = "send"],
               quiet' = [quiet EXCEPT !.mailer = @ \ overlooked]
        PROVE  QInv'
    <3>1. /\ mailer'.pc = "send" /\ mailer'.todo = (Audience \ suppressed) \cup overlooked
          /\ quiet'.mailer = quiet.mailer \ overlooked /\ quiet'.robot = quiet.robot
      BY <1>1, <2>1, <2>3 DEF Sending
    <3>2. mailer'.todo \cap quiet'.mailer = {}
      BY <2>1, <3>1
    <3> QED
      BY <2>1, <3>1, <3>2 DEF MailerAt, RobotAt, Current
  <2> QED
    BY <1>6, <2>2, <2>3 DEF ResolveCampaignRecipients
<1>7. CASE CountSent \/ \E a \in Addresses : SendMailerEmail(a)
  <2>1. mailer \in Sending /\ UNCHANGED <<suppressed, robot, quiet>>
    BY <1>1, <1>7 DEF CountSent, SendMailerEmail, MailerAt
  <2>2. mailer'.pc # "resolve" /\ mailer'.todo \subseteq mailer.todo /\ mailer # Null
    <3>1. CASE CountSent
      BY <2>1, <3>1 DEF CountSent, Sending, MailerAt
    <3>2. ASSUME NEW a \in Addresses, SendMailerEmail(a)
          PROVE  mailer'.pc # "resolve" /\ mailer'.todo \subseteq mailer.todo /\ mailer # Null
      BY <2>1, <3>2 DEF SendMailerEmail, Sending, MailerAt
    <3> QED
      BY <1>7, <3>1, <3>2
  <2> QED
    BY <2>1, <2>2 DEF MailerAt, RobotAt, Current
<1>8. CASE FinishCampaign
  <2>1. mailer' = Null /\ quiet'.robot = quiet.robot /\ UNCHANGED <<suppressed, robot>>
    BY <1>1, <1>8 DEF FinishCampaign
  <2> QED
    BY <2>1 DEF MailerAt, RobotAt, Current
<1>9. CASE EvaluateAutomations
  <2>1. UNCHANGED <<suppressed, mailer, quiet>> /\ robot'.pc = "schedule"
    BY <1>9 DEF EvaluateAutomations
  <2> QED
    BY <2>1 DEF MailerAt, RobotAt
<1>10. CASE ReadDueRuns \/ SkipSuppressed \/ SkipUnread \/ MarkRun
  <2>1. PICK due \in SUBSET Runs : NextRun(due)
    <3>1. First(Due, Batch) \in SUBSET Runs
      BY DEF First, Due
    <3>2. robot # Null => robot.due \ {Current} \in SUBSET Runs
      BY <1>1 DEF Evaluating
    <3> QED
      BY <1>10, <3>1, <3>2 DEF ReadDueRuns, SkipSuppressed, SkipUnread, MarkRun, RobotAt
  <2>2. UNCHANGED <<suppressed, mailer>>
    BY <1>10 DEF ReadDueRuns, SkipSuppressed, SkipUnread, MarkRun
  <2> QED
    BY <2>1, <2>2, TurnQuiet DEF MailerAt
<1>11. CASE TakeRun
  <2>1. /\ robot \in Evaluating /\ robot' = [robot EXCEPT !.pc = "mail"] /\ RobotAt("check")
        /\ UNCHANGED <<suppressed, mailer>> /\ quiet.robot \subseteq suppressed
    BY <1>1, <1>11 DEF TakeRun, RobotAt
  <2>2. robot'.pc = "mail" /\ Current' = Current
    BY <2>1 DEF Evaluating, Current
  <2>3. quiet'.mailer = quiet.mailer /\ AddressOf[Current] \notin quiet'.robot
    <3>1. CASE AddressOf[Current] \notin suppressed /\ UNCHANGED quiet
      BY <2>1, <3>1
    <3>2. CASE quiet' = [quiet EXCEPT !.robot = @ \ {AddressOf[Current]}]
      BY <1>1, <3>2
    <3> QED
      BY <1>11, <3>1, <3>2 DEF TakeRun
  <2> QED
    BY <2>1, <2>2, <2>3 DEF MailerAt, RobotAt
<1>12. CASE MailRun
  <2>1. robot \in Evaluating /\ UNCHANGED <<suppressed, mailer, quiet>>
    BY <1>1, <1>12 DEF MailRun, RobotAt
  <2>2. robot'.pc = "mark"
    BY <1>12, <2>1 DEF MailRun, Evaluating
  <2> QED
    BY <2>1, <2>2 DEF MailerAt, RobotAt
<1>13. CASE Stop
  BY <1>13 DEF Stop, MailerAt, RobotAt
<1>14. CASE QueueMailerCampaign \/ UNCHANGED outreachVars
  BY <1>2, <1>14 DEF QueueMailerCampaign, outreachVars
<1>15. ASSUME NEW w \in Workflows, UpdateAutomationWorkflow(w) \/ Publish(w) PROVE QInv'
  BY <1>2, <1>15 DEF UpdateAutomationWorkflow, Publish
<1>16. ASSUME NEW r \in Runs, QueuePublishAnnouncement(r) \/ Trigger(r) PROVE QInv'
  BY <1>2, <1>16 DEF QueuePublishAnnouncement, Trigger
<1> QED
  BY <1>3, <1>4, <1>5, <1>6, <1>7, <1>8, <1>9, <1>10, <1>11, <1>12, <1>13, <1>14, <1>15, <1>16
  DEF OutreachNext, Mailer, Robot

\* Nothing goes to an address that was suppressed before its campaign was picked, or before
\* its run's turn came, and has not been released since or overlooked by a failed look-up.
THEOREM KeepsQuiet == OutreachSpec => QuietKept
<1>1. OutreachInit => QInv /\ RInv
  BY RunInit DEF OutreachInit, QInv, MailerAt, RobotAt
<1>2. TInv /\ TInv' /\ RInv /\ QInv /\ [OutreachNext]_outreachVars => QInv' /\ RInv'
  BY QuietStep, RunStep DEF TInv
<1>3. TInv /\ RInv /\ QInv /\ [OutreachNext]_outreachVars =>
        [/\ \A c \in Campaigns, a \in Addresses :
              posted'[c][a] > posted[c][a] => a \notin quiet.mailer
         /\ \A r \in Runs : mailed'[r] > mailed[r] => AddressOf[r] \notin quiet.robot]_outreachVars
  <2> SUFFICES ASSUME TInv, RInv, QInv, [OutreachNext]_outreachVars
      PROVE /\ \A c \in Campaigns, a \in Addresses :
                 posted'[c][a] > posted[c][a] => a \notin quiet.mailer
            /\ \A r \in Runs : mailed'[r] > mailed[r] => AddressOf[r] \notin quiet.robot
    OBVIOUS
  <2>1. \A c \in Campaigns, a \in Addresses : posted[c][a] \in Nat
    BY DEF TInv, OutreachTypeOK
  <2>2. \A r \in Runs : mailed[r] \in Nat
    BY DEF TInv, OutreachTypeOK
  <2>3. ASSUME NEW c \in Campaigns, NEW a \in Addresses, posted'[c][a] > posted[c][a]
        PROVE  a \notin quiet.mailer
    <3>1. posted' # posted
      BY <2>1, <2>3
    <3>2. PICK b \in Addresses : SendMailerEmail(b)
      BY <3>1, MailingKinds
      DEF QueueMailerCampaign, PickCampaign, ResolveCampaignRecipients, CountSent,
          FinishCampaign, Stop, rows, sentMail
    <3>3. b \in mailer.todo /\ mailer # Null
      BY <3>2 DEF SendMailerEmail, MailerAt
    <3>4. posted' = [posted EXCEPT ![mailer.campaign][b] = @ + 1]
      BY <3>1, <3>2 DEF SendMailerEmail
    <3>5. a = b
      BY <2>1, <2>3, <3>4 DEF TInv, OutreachTypeOK
    <3> QED
      BY <3>3, <3>5 DEF QInv
  <2>4. ASSUME NEW r \in Runs, mailed'[r] > mailed[r] PROVE AddressOf[r] \notin quiet.robot
    <3>1. mailed' # mailed
      BY <2>2, <2>4
    <3>2. MailRun
      BY <3>1, RobotKinds
      DEF EvaluateAutomations, ReadDueRuns, SkipSuppressed, SkipUnread, TakeRun, MarkRun,
          Stop, rows, sentMail
    <3>3. mailed' = [mailed EXCEPT ![Current] = @ + 1] /\ RobotAt("mail")
      BY <3>1, <3>2 DEF MailRun
    <3>4. r = Current
      BY <2>2, <2>4, <3>3 DEF TInv, OutreachTypeOK
    <3> QED
      BY <3>3, <3>4 DEF QInv
  <2> QED
    BY <2>3, <2>4
<1> QED
  BY <1>1, <1>2, <1>3, TypeSound, PTL DEF OutreachSpec, QuietKept

-----------------------------------------------------------------------------
(* Stored objects, their migration and their backups. *)

\* A set of numbers that is not empty has an earliest one.
LEMMA EarliestIn ==
  ASSUME NEW S \in SUBSET Nat, S # {}
  PROVE  Earliest(S) \in S
<1>1. PICK n \in S : \A k \in S : <<k, n>> \notin OpToRel(<, Nat)
  BY WFMin, NatLessThanWellFounded, Zenon
<1>2. ASSUME NEW k \in S PROVE n <= k
  <2>1. ~(k < n)
    <3> SUFFICES ASSUME k < n PROVE FALSE
      OBVIOUS
    <3>1. <<k, n>> \in OpToRel(<, Nat)
      BY Zenon DEF OpToRel
    <3> QED
      BY <1>1, <3>1
  <2> QED
    BY <2>1
<1> QED
  BY <1>2 DEF Earliest

-----------------------------------------------------------------------------
(* The inductive invariant. *)

Batches ==
  [pc: {"idle", "mark", "select", "next", "copy", "record", "verify", "finish"},
   job: Jobs \cup {Nil}, todo: SUBSET Objects, cur: Objects \cup {Nil},
   sum: Content \cup {Nil}, got: Content \cup {Nil}, pending: BOOLEAN, failed: BOOLEAN]
Archives ==
  [pc: {"idle", "check", "list", "next", "record", "discard"}, backup: Backups \cup {Nil},
   todo: SUBSET Objects, cur: Objects \cup {Nil}, got: Content \cup {Nil},
   listed: SUBSET Objects, missing: BOOLEAN, seen: [Objects -> Rows \cup {Nil}],
   gone: SUBSET Objects]
Calls ==
  [pc: {"idle", "plan", "job", "items", "insert", "row", "link", "file"}, dry: BOOLEAN,
   job: Jobs \cup {Nil}, todo: SUBSET Objects, cur: Objects \cup {Nil},
   at: Providers \cup {Nil}]

StoresTyped ==
  /\ row \in [Objects -> Rows \cup {Nil}]
  /\ local \in [Objects -> Content \cup {Nil}]
  /\ r2 \in [Objects -> Content \cup {Nil}]
  /\ vault \in [Objects -> Content \cup {Nil}]
  /\ sameBucket \in BOOLEAN /\ active \in Providers /\ expired \subseteq Objects
JobsTyped ==
  /\ job \in [Jobs -> JobRows \cup {Nil}]
  /\ item \in [Jobs -> [Objects -> ItemStatuses \cup {Nil}]]
BackupsTyped == manifest \in [Backups -> SUBSET Objects]
BatchTyped == batch \in [Runners -> Batches]
ArchiveTyped == archive \in Archives
CallsTyped ==
  start \in Calls /\ upload \in Calls /\ removal \in Calls /\ sweep \in Calls
StorageTyped ==
  StoresTyped /\ JobsTyped /\ BackupsTyped /\ BatchTyped /\ ArchiveTyped /\ CallsTyped

\* What a request under way has in hand.
CallsSound ==
  /\ start.pc \in {"plan", "job"} => Free(Jobs, job) # {}
  /\ start.pc = "items" =>
       /\ start.job \in Jobs /\ job[start.job] # Nil /\ job[start.job].dry = start.dry
       /\ \A o \in Objects : item[start.job][o] = Nil
  /\ upload.pc \in {"row", "link"} => upload.cur \in Objects
  /\ upload.pc = "row" => upload.at \in Providers
  /\ removal.pc # "idle" => removal.cur \in Objects
  /\ sweep.pc = "row" => sweep.cur \in Objects

\* Only jobs have items, and an item whose row is gone is known to have lost it.
ItemsSound ==
  \A j \in Jobs, o \in Objects : item[j][o] # Nil =>
    job[j] # Nil /\ (row[o] # Nil \/ <<j, o>> \in orphan)

\* A batch works on items of a job that exists.
SoundBatch(b) ==
  /\ b.pc # "idle" => b.job \in Jobs /\ job[b.job] # Nil
  /\ \A o \in b.todo : b.pc # "idle" /\ item[b.job][o] # Nil
  /\ b.pc \in {"copy", "record", "verify"} => b.cur \in Objects /\ item[b.job][b.cur] # Nil
BatchSound == \A w \in Runners : SoundBatch(batch[w])

ArchiveSound ==
  /\ archive.pc \in {"record", "discard"} => archive.cur \in Objects
  /\ archive.pc = "record" => sameBucket

TypesInv == StorageTyped /\ CallsSound /\ ItemsSound /\ BatchSound /\ ArchiveSound

\* Whoever is about to record where an object is has seen it there.
CopyInHand ==
  /\ \A w \in Runners : batch[w].pc \in {"record", "verify"} => Copied(batch[w].cur)
  /\ archive.pc = "record" => Copied(archive.cur)
  /\ upload.pc = "row" => Holds(upload.at, upload.cur) # Nil \/ upload.cur \in Lost
RowsInv == RowTruthful /\ CopyInHand

Real(j) == job[j] # Nil /\ ~job[j].dry
AllCopied(j) == \A o \in Objects : item[j][o] # Nil => Copied(o)

\* A verified item is copied, and with the last one counted so is the whole job.
VerifiedInv ==
  /\ \A j \in Jobs, o \in Objects : Real(j) /\ item[j][o] = "verified" => Copied(o)
  /\ \A w \in Runners :
       LET b == batch[w] IN
       b.pc = "finish" /\ ~b.pending /\ ~b.failed /\ b.job \notin uncounted /\ Real(b.job) =>
         AllCopied(b.job)
  /\ VerifiedJobCopied

Kept(o) == Bucket[o] # Nil \/ o \in spoiled \/ (sameBucket /\ o \in deleted)

\* What a backup lists its bucket holds, and what it discards no manifest lists but one
\* whose object it overlooked.
ManifestsInv ==
  /\ ManifestKept
  /\ \A o \in archive.listed : Kept(o)
  /\ archive.pc = "discard" /\ archive.got = Nil /\ ~sameBucket =>
       \A b \in Backups : archive.cur \in manifest[b] => archive.cur \in spoiled

StorageInv == TypesInv /\ RowsInv /\ VerifiedInv /\ ManifestsInv

-----------------------------------------------------------------------------
(* What a step leaves alone. *)

RowStep ==
  \/ StartPlan \/ BackupList \/ BackupRecord \/ UploadRow \/ DeleteRow \/ CleanRow
  \/ ScanR2Objects \/ (\E o \in Objects : ReadStored(o)) \/ (\E w \in Runners : ItemRecord(w))

\* Only these write rows of stored_objects.
LEMMA RowsChange ==
  ASSUME StorageNext, ~RowStep
  PROVE  row' = row
<1> USE DEF stores, tables, fixed, marks, calls, OnlyBatch, OnlyBatchButCounts,
        OnlyArchive, OnlyRequest
<1>1. CASE \E w \in Runners : BatchPick(w) \/ BatchStep(w) \/ BatchFault(w)
  BY <1>1 DEF RowStep, BatchPick, BatchStep, BatchFault, BatchMark, BatchSelect, ItemTake,
     ItemCopied, ItemFailed, ItemVerify, BatchCount, BatchFinish, BatchRefused, ItemRefused,
     BatchMiscount, ErrorIgnored, BatchAbort
<1>2. CASE BackupStep \/ BackupRefused
  BY <1>2 DEF RowStep, BackupStep, BackupRefused, BackupPick, BackupCheck, BackupDiscard,
     BackupFinish, BackupHas, BackupMissing, BackupCopied, BackupMismatch
<1>3. CASE JobRequest
  BY <1>3 DEF RowStep, JobRequest, StartCheck, StartJob, StartItems, QueueCheck, QueueInsert,
     PauseStorageMigration, ResumeStorageMigration, RetryFailedStorageMigration
<1>4. CASE ObjectRequest \/ StorageCrash
  BY <1>4 DEF RowStep, ObjectRequest, UploadLink, DeleteLink, CleanSelect, UploadPut,
     DeleteFile, CleanFile, Expire, SetActiveStorageProvider, StorageCrash
<1> QED
  BY <1>1, <1>2, <1>3, <1>4 DEF StorageNext

CopiesGrow ==
  /\ sameBucket' = sameBucket /\ spoiled \subseteq spoiled' /\ deleted \subseteq deleted'
  /\ \A o \in Objects : local[o] # Nil => local'[o] # Nil \/ o \in deleted'
  /\ \A o \in Objects : r2[o] # Nil =>
       r2'[o] # Nil \/ o \in deleted' \/ (sameBucket /\ o \in spoiled')

\* Copies appear and stay, but for deletions and what a backup discards.
LEMMA CopiesStay ==
  ASSUME StorageNext, TypesInv
  PROVE  CopiesGrow
<1> USE StorageAssumption
    DEF stores, tables, fixed, marks, calls, OnlyBatch, OnlyBatchButCounts,
        OnlyArchive, OnlyRequest,
        TypesInv, StorageTyped, StoresTyped, Content, CopiesGrow
<1>1. ASSUME NEW w \in Runners, BatchPick(w) \/ BatchStep(w) \/ BatchFault(w)
      PROVE  CopiesGrow
  <2>1. CASE ItemCopied(w)
    BY <2>1 DEF ItemCopied
  <2>2. CASE ItemFailed(w)
    BY <2>2 DEF ItemFailed
  <2>3. CASE ItemRefused(w)
    BY <2>3 DEF ItemRefused
  <2>4. CASE ErrorIgnored(w)
    BY <2>4 DEF ErrorIgnored
  <2> QED
    BY <1>1, <2>1, <2>2, <2>3, <2>4 DEF BatchPick, BatchStep, BatchFault, BatchMark, BatchSelect,
       ItemTake, ItemRecord, ItemVerify, BatchCount, BatchFinish, BatchRefused, BatchMiscount,
       BatchAbort
<1>2. CASE BackupStep \/ BackupRefused
  BY <1>2 DEF BackupStep, BackupRefused, BackupPick, BackupCheck, BackupList, BackupRecord,
     BackupDiscard, BackupFinish, BackupHas, BackupMissing, BackupCopied, BackupMismatch,
     PutBackup
<1>3. CASE JobRequest
  BY <1>3 DEF JobRequest, StartCheck, StartPlan, StartJob, StartItems, QueueCheck, QueueInsert,
     PauseStorageMigration, ResumeStorageMigration, RetryFailedStorageMigration
<1>4. CASE ObjectRequest
  <2>1. ASSUME NEW o \in Objects, UploadPut(o)
        PROVE  CopiesGrow
    BY <2>1 DEF UploadPut
  <2>2. ASSUME NEW o \in Objects, DeleteFile(o)
        PROVE  CopiesGrow
    BY <2>2 DEF DeleteFile, EraseAt
  <2>3. ASSUME NEW o \in Objects, CleanFile(o)
        PROVE  CopiesGrow
    BY <2>3 DEF CleanFile, EraseAt
  <2> QED
    BY <1>4, <2>1, <2>2, <2>3 DEF ObjectRequest, UploadRow, UploadLink, DeleteRow, DeleteLink,
       CleanSelect, CleanRow, ScanR2Objects, ReadStored, Expire, SetActiveStorageProvider
<1>5. CASE StorageCrash
  BY <1>5 DEF StorageCrash
<1> QED
  BY <1>1, <1>2, <1>3, <1>4, <1>5 DEF StorageNext

-----------------------------------------------------------------------------
(* Types. *)

LEMMA StoresTypes ==
  ASSUME TypesInv, StorageNext
  PROVE  StoresTyped'
<1> USE StorageAssumption
    DEF stores, tables, fixed, marks, calls, OnlyBatch, OnlyBatchButCounts,
        OnlyArchive, OnlyRequest,
        TypesInv, StorageTyped, StoresTyped, Rows, Content, Providers
<1>1. ASSUME NEW w \in Runners, BatchPick(w) \/ BatchStep(w) \/ BatchFault(w)
      PROVE  StoresTyped'
  <2>1. CASE ItemCopied(w)
    BY <2>1 DEF ItemCopied
  <2>2. CASE ItemFailed(w)
    BY <2>2 DEF ItemFailed
  <2>3. CASE ItemRefused(w)
    BY <2>3 DEF ItemRefused
  <2>4. CASE ItemRecord(w)
    <3>1. batch[w].got \in Content \cup {Nil}
      BY DEF BatchTyped, Batches
    <3> QED
      BY <2>4, <3>1 DEF ItemRecord
  <2>5. CASE ErrorIgnored(w)
    BY <2>5 DEF ErrorIgnored
  <2> QED
    BY <1>1, <2>1, <2>2, <2>3, <2>4, <2>5 DEF BatchPick, BatchStep, BatchFault, BatchMark,
       BatchSelect, ItemTake, ItemVerify, BatchCount, BatchFinish, BatchRefused, BatchMiscount,
       BatchAbort
<1>2. CASE BackupStep \/ BackupRefused
  <2>1. CASE BackupList
    BY <2>1 DEF BackupList, Inventory
  <2>2. CASE BackupRecord
    <3>1. archive.got \in Content \cup {Nil}
      BY DEF ArchiveTyped, Archives
    <3> QED
      BY <2>2, <3>1 DEF BackupRecord
  <2>3. CASE BackupDiscard
    BY <2>3 DEF BackupDiscard, PutBackup
  <2>4. ASSUME NEW o \in Objects, BackupCopied(o) \/ BackupMismatch(o)
        PROVE  StoresTyped'
    <3>1. Source(o) \in Content \cup {Nil}
      BY DEF Source
    <3> QED
      BY <2>4, <3>1 DEF BackupCopied, BackupMismatch, PutBackup
  <2> QED
    BY <1>2, <2>1, <2>2, <2>3, <2>4 DEF BackupStep, BackupRefused, BackupPick, BackupCheck,
       BackupFinish, BackupHas, BackupMissing
<1>3. CASE JobRequest
  <2>1. CASE StartPlan
    BY <2>1 DEF StartPlan, Inventory
  <2> QED
    BY <1>3, <2>1 DEF JobRequest, StartCheck, StartJob, StartItems, QueueCheck, QueueInsert,
       PauseStorageMigration, ResumeStorageMigration, RetryFailedStorageMigration
<1>4. CASE ObjectRequest
  <2>1. ASSUME NEW o \in Objects, UploadPut(o)
        PROVE  StoresTyped'
    BY <2>1 DEF UploadPut
  <2>2. ASSUME NEW o \in Objects, DeleteFile(o)
        PROVE  StoresTyped'
    BY <2>2 DEF DeleteFile, EraseAt
  <2>3. ASSUME NEW o \in Objects, CleanFile(o)
        PROVE  StoresTyped'
    BY <2>3 DEF CleanFile, EraseAt
  <2>4. CASE UploadRow
    BY <2>4 DEF UploadRow, CallsSound
  <2>5. CASE DeleteRow \/ CleanRow
    BY <2>5 DEF DeleteRow, CleanRow, DropRow
  <2>6. CASE ScanR2Objects
    BY <2>6 DEF ScanR2Objects
  <2>7. ASSUME NEW o \in Objects, ReadStored(o)
        PROVE  StoresTyped'
    BY <2>7 DEF ReadStored
  <2> QED
    BY <1>4, <2>1, <2>2, <2>3, <2>4, <2>5, <2>6, <2>7 DEF ObjectRequest, UploadLink,
       DeleteLink, CleanSelect, Expire, SetActiveStorageProvider
<1>5. CASE StorageCrash
  BY <1>5 DEF StorageCrash
<1> QED
  BY <1>1, <1>2, <1>3, <1>4, <1>5 DEF StorageNext

\* A job that gets its first row is one that had none.
LEMMA JobToStart ==
  ASSUME TypesInv, StartJob
  PROVE  LET j == Earliest(Free(Jobs, job)) IN j \in Jobs /\ job[j] = Nil
<1>1. Free(Jobs, job) # {} /\ Free(Jobs, job) \in SUBSET Nat
  BY StorageAssumption DEF StartJob, TypesInv, CallsSound, Free
<1> QED
  BY <1>1, EarliestIn DEF Free

\* The object a batch takes is one of those it selected.
LEMMA ObjectToTake ==
  ASSUME TypesInv, NEW w \in Runners, ItemTake(w)
  PROVE  LET o == Earliest(batch[w].todo) IN
         /\ o \in Objects /\ o \in batch[w].todo
         /\ batch[w].job \in Jobs /\ item[batch[w].job][o] # Nil
         /\ <<batch[w].job, o>> \notin orphan => row[o] \in Rows
<1> DEFINE o == Earliest(batch[w].todo)
<1>1. batch[w].todo # {} /\ batch[w].todo \in SUBSET Objects
  BY DEF ItemTake, TypesInv, StorageTyped, BatchTyped, Batches
<1>2. o \in batch[w].todo
  BY <1>1, EarliestIn, StorageAssumption
<1>3. o \in Objects /\ batch[w].job \in Jobs /\ item[batch[w].job][o] # Nil
  BY <1>1, <1>2 DEF TypesInv, BatchSound, SoundBatch, ItemTake
<1> QED
  BY <1>2, <1>3 DEF TypesInv, ItemsSound, StorageTyped, StoresTyped

\* The batch that is picked works on a job that is there.
LEMMA JobToPick ==
  ASSUME TypesInv, NEW w \in Runners, BatchPick(w)
  PROVE  /\ batch' = [batch EXCEPT ![w] = [NoBatch EXCEPT !.pc = "mark", !.job = batch'[w].job]]
         /\ batch'[w].job \in Jobs /\ job[batch'[w].job] # Nil
<1> DEFINE S == {j \in Jobs : JobActive(j)}
<1>1. S # {} /\ S \in SUBSET Nat
  BY StorageAssumption DEF BatchPick
<1>2. Earliest(S) \in Jobs /\ job[Earliest(S)] # Nil
  BY <1>1, EarliestIn DEF JobActive
<1>3. batch' = [batch EXCEPT ![w] = [NoBatch EXCEPT !.pc = "mark", !.job = Earliest(S)]]
  BY DEF BatchPick
<1>4. batch'[w].job = Earliest(S)
  BY <1>3 DEF TypesInv, StorageTyped, BatchTyped, NoBatch
<1> QED
  BY <1>2, <1>3, <1>4

\* A job whose status is set.
LEMMA StatusTypes ==
  ASSUME TypesInv, NEW j \in Jobs, job[j] # Nil,
         NEW status \in {"queued", "running", "paused", "failed", "verified"}, SetStatus(j, status)
  PROVE  /\ job' \in [Jobs -> JobRows \cup {Nil}]
         /\ job'[j] # Nil /\ job'[j].dry = job[j].dry /\ job'[j].status = status
         /\ \A i \in Jobs : i # j => job'[i] = job[i]
<1>1. job[j] \in JobRows /\ job \in [Jobs -> JobRows \cup {Nil}]
  BY DEF TypesInv, StorageTyped, JobsTyped
<1>2. [job[j] EXCEPT !.status = status] \in JobRows
  BY <1>1 DEF JobRows
<1>3. /\ [job[j] EXCEPT !.status = status].dry = job[j].dry
      /\ [job[j] EXCEPT !.status = status].status = status
  BY <1>1 DEF JobRows
<1>4. job' = [job EXCEPT ![j] = [job[j] EXCEPT !.status = status]]
  BY DEF SetStatus
<1> QED
  BY <1>1, <1>2, <1>3, <1>4, StorageAssumption

\* The item a batch has in hand is set.
LEMMA ItemTypes ==
  ASSUME TypesInv, NEW w \in Runners, batch[w].pc \in {"copy", "record", "verify"},
         NEW status \in ItemStatuses, SetItem(w, status)
  PROVE  /\ item' \in [Jobs -> [Objects -> ItemStatuses \cup {Nil}]]
         /\ \A i \in Jobs, o \in Objects :
              item'[i][o] = IF i = batch[w].job /\ o = batch[w].cur THEN status ELSE item[i][o]
         /\ batch[w].job \in Jobs /\ batch[w].cur \in Objects
         /\ item[batch[w].job][batch[w].cur] # Nil
<1>1. /\ batch[w].job \in Jobs /\ batch[w].cur \in Objects
      /\ item[batch[w].job][batch[w].cur] # Nil
  BY DEF TypesInv, BatchSound, SoundBatch
<1> QED
  BY <1>1 DEF SetItem, TypesInv, StorageTyped, JobsTyped

JobsStay ==
  \A j \in Jobs :
    /\ job[j] # Nil => job'[j] # Nil /\ job'[j].dry = job[j].dry
    /\ job'[j] # Nil => job[j] # Nil \/ StartJob
    /\ \A o \in Objects : /\ item[j][o] # Nil => item'[j][o] # Nil
                          /\ item'[j][o] # Nil => item[j][o] # Nil \/ StartItems

\* Jobs keep their kind, items that are there stay, and and only a start adds to them.
LEMMA JobsTypes ==
  ASSUME TypesInv, StorageNext
  PROVE  JobsTyped' /\ JobsStay
<1> USE DEF stores, tables, fixed, marks, calls, OnlyBatch, OnlyBatchButCounts,
        OnlyArchive, OnlyRequest
<1>0. /\ job \in [Jobs -> JobRows \cup {Nil}]
      /\ item \in [Jobs -> [Objects -> ItemStatuses \cup {Nil}]]
  BY DEF TypesInv, StorageTyped, JobsTyped
<1> SUFFICES /\ job' \in [Jobs -> JobRows \cup {Nil}]
             /\ item' \in [Jobs -> [Objects -> ItemStatuses \cup {Nil}]]
             /\ JobsStay
  BY DEF JobsTyped
<1>1. ASSUME NEW w \in Runners, BatchPick(w) \/ BatchStep(w) \/ BatchFault(w)
      PROVE  /\ job' \in [Jobs -> JobRows \cup {Nil}]
             /\ item' \in [Jobs -> [Objects -> ItemStatuses \cup {Nil}]]
             /\ JobsStay
  <2>1. batch[w].pc # "idle" => batch[w].job \in Jobs /\ job[batch[w].job] # Nil
    BY DEF TypesInv, BatchSound, SoundBatch
  <2>2. CASE BatchMark(w)
    BY <1>0, <2>1, <2>2, StatusTypes DEF BatchMark, JobsStay
  <2>3. CASE BatchRefused(w)
    BY <1>0, <2>1, <2>3, StatusTypes DEF BatchRefused, JobsStay
  <2>4. CASE BatchFinish(w)
    BY <1>0, <2>1, <2>4, StatusTypes DEF BatchFinish, JobsStay
  <2>5. CASE ItemTake(w)
    <3>1. PICK o \in Objects, j \in Jobs :
            item[j][o] # Nil /\ (item' = item \/ item' = [item EXCEPT ![j][o] = "copying"])
      BY <2>5, ObjectToTake DEF ItemTake
    <3>2. job' = job
      BY <2>5 DEF ItemTake
    <3> QED
      BY <1>0, <3>1, <3>2, StorageAssumption DEF JobsStay, ItemStatuses
  <2>6. CASE ItemFailed(w) \/ ItemRefused(w)
    <3>1. SetItem(w, "failed") /\ batch[w].pc = "copy" /\ job' = job
      BY <2>6 DEF ItemFailed, ItemRefused
    <3> QED
      BY <1>0, <3>1, ItemTypes, StorageAssumption DEF JobsStay, ItemStatuses
  <2>7. CASE ItemVerify(w)
    <3>1. SetItem(w, "verified") /\ batch[w].pc = "verify" /\ job' = job
      BY <2>7 DEF ItemVerify
    <3> QED
      BY <1>0, <3>1, ItemTypes, StorageAssumption DEF JobsStay, ItemStatuses
  <2> QED
    BY <1>0, <1>1, <2>2, <2>3, <2>4, <2>5, <2>6, <2>7 DEF BatchPick, BatchStep, BatchFault,
       BatchSelect, ItemCopied, ItemRecord, BatchCount, BatchMiscount, ErrorIgnored,
       BatchAbort, JobsStay
<1>2. CASE BackupStep \/ BackupRefused
  BY <1>0, <1>2 DEF BackupStep, BackupRefused, BackupPick, BackupCheck, BackupList, BackupRecord,
     BackupDiscard, BackupFinish, BackupHas, BackupMissing, BackupCopied, BackupMismatch,
     JobsStay
<1>3. CASE JobRequest
  <2>1. CASE StartJob
    <3>1. [status |-> IF start.dry THEN "verified" ELSE "queued", dry |-> start.dry] \in JobRows
      BY DEF TypesInv, StorageTyped, CallsTyped, Calls, JobRows
    <3> QED
      BY <1>0, <2>1, <3>1, JobToStart DEF StartJob, JobsStay
  <2>2. CASE StartItems
    BY <1>0, <2>2 DEF StartItems, JobsStay, TypesInv, CallsSound, ItemStatuses
  <2>3. ASSUME NEW j \in Jobs, PauseStorageMigration(j) \/ ResumeStorageMigration(j)
        PROVE  /\ job' \in [Jobs -> JobRows \cup {Nil}]
               /\ item' \in [Jobs -> [Objects -> ItemStatuses \cup {Nil}]]
               /\ JobsStay
    BY <1>0, <2>3, StatusTypes
       DEF PauseStorageMigration, ResumeStorageMigration, JobActive, JobsStay
  <2>4. ASSUME NEW j \in Jobs, RetryFailedStorageMigration(j)
        PROVE  /\ job' \in [Jobs -> JobRows \cup {Nil}]
               /\ item' \in [Jobs -> [Objects -> ItemStatuses \cup {Nil}]]
               /\ JobsStay
    <3>1. /\ job' \in [Jobs -> JobRows \cup {Nil}]
          /\ \A i \in Jobs : /\ job[i] # Nil => job'[i] # Nil /\ job'[i].dry = job[i].dry
                             /\ job'[i] # Nil => job[i] # Nil
      BY <2>4, StatusTypes DEF RetryFailedStorageMigration
    <3>2. item' = [item EXCEPT ![j] = [o \in Objects |->
                     IF item[j][o] = "failed" THEN "pending" ELSE item[j][o]]]
      BY <2>4 DEF RetryFailedStorageMigration
    <3> QED
      BY <1>0, <3>1, <3>2, StorageAssumption DEF JobsStay, ItemStatuses
  <2> QED
    BY <1>0, <1>3, <2>1, <2>2, <2>3, <2>4 DEF JobRequest, StartCheck, StartPlan, QueueCheck,
       QueueInsert, JobsStay
<1>4. CASE ObjectRequest
  BY <1>0, <1>4 DEF ObjectRequest, UploadRow, UploadLink, DeleteRow, DeleteLink, CleanSelect,
     CleanRow, ScanR2Objects, ReadStored, UploadPut, DeleteFile, CleanFile, Expire,
     SetActiveStorageProvider, JobsStay
<1>5. CASE StorageCrash
  BY <1>0, <1>5 DEF StorageCrash, JobsStay
<1> QED
  BY <1>1, <1>2, <1>3, <1>4, <1>5 DEF StorageNext

\* What a batch counts at its end.
LEMMA CountMoves ==
  ASSUME NEW w \in Runners, BatchCount(w)
  PROVE  \E pending \in BOOLEAN, failed \in BOOLEAN :
           /\ batch' = [batch EXCEPT ![w] = [batch[w] EXCEPT !.pc = "finish",
                                               !.pending = pending, !.failed = failed]]
           /\ ~pending => \A o \in Objects : item[batch[w].job][o] \notin {"pending", "copying"}
           /\ ~failed => \A o \in Objects : item[batch[w].job][o] # "failed"
<1> DEFINE statuses == {item[batch[w].job][o] : o \in Objects}
           pending == statuses \cap {"pending", "copying"} # {}
           failed == "failed" \in statuses
<1>1. batch' = [batch EXCEPT ![w] = [batch[w] EXCEPT !.pc = "finish", !.pending = pending,
                                                       !.failed = failed]]
  BY DEF BatchCount
<1>2. /\ ~pending => \A o \in Objects : item[batch[w].job][o] \notin {"pending", "copying"}
      /\ ~failed => \A o \in Objects : item[batch[w].job][o] # "failed"
  OBVIOUS
<1> HIDE DEF statuses
<1>3. pending \in BOOLEAN
  BY SMT
<1>4. failed \in BOOLEAN
  BY SMT
<1> HIDE DEF pending, failed
<1> QED
  BY <1>1, <1>2, <1>3, <1>4

\* What a batch makes of counts that fail: whatever it reads, a job it may end is noted.
LEMMA MiscountMoves ==
  ASSUME NEW w \in Runners, BatchMiscount(w)
  PROVE  /\ \E pending \in BOOLEAN, failed \in BOOLEAN :
              /\ batch' = [batch EXCEPT ![w] = [batch[w] EXCEPT !.pc = "finish",
                                                  !.pending = pending, !.failed = failed]]
              /\ ~pending => batch[w].job \in uncounted'
         /\ uncounted \subseteq uncounted'
<1> DEFINE statuses == {item[batch[w].job][o] : o \in Objects}
           pending == statuses \cap {"pending", "copying"} # {}
           failed == "failed" \in statuses
<1>1. PICK p \in {pending, FALSE}, f \in {failed, FALSE} :
        /\ batch' = [batch EXCEPT ![w].pc = "finish", ![w].pending = p, ![w].failed = f]
        /\ uncounted' = IF p THEN uncounted ELSE uncounted \cup {batch[w].job}
  BY Zenon DEF BatchMiscount
<1>2. pending \in BOOLEAN
  BY SMT
<1>3. failed \in BOOLEAN
  BY SMT
<1> HIDE DEF pending, failed
<1>4. p \in BOOLEAN /\ f \in BOOLEAN
  BY <1>2, <1>3, Zenon
<1>5. ~p => batch[w].job \in uncounted'
  BY <1>1, <1>4
<1>6. uncounted \subseteq uncounted'
  BY <1>1, <1>4
<1> QED
  BY <1>1, <1>4, <1>5, <1>6

\* A batch goes on behind a statement whose error it ignores, and takes up no other item.
LEMMA IgnoredMoves ==
  ASSUME TypesInv, NEW w \in Runners, ErrorIgnored(w)
  PROVE  \E pc \in {"select", "next", "verify"}, todo \in SUBSET batch[w].todo :
           /\ batch' = [batch EXCEPT ![w] = [batch[w] EXCEPT !.pc = pc, !.todo = todo]]
           /\ batch[w].pc # "idle" /\ (pc = "verify" => batch[w].pc = "record")
<1>1. batch[w] \in Batches
  BY DEF TypesInv, StorageTyped, BatchTyped
<1>2. ASSUME NEW pc \in {"select", "next", "verify"}, Goto(w, pc), batch[w].pc # "idle",
             pc = "verify" => batch[w].pc = "record"
      PROVE  \E todo \in SUBSET batch[w].todo :
               /\ batch' = [batch EXCEPT ![w] = [batch[w] EXCEPT !.pc = pc, !.todo = todo]]
               /\ batch[w].pc # "idle" /\ (pc = "verify" => batch[w].pc = "record")
  <2>1. [batch[w] EXCEPT !.pc = pc] = [batch[w] EXCEPT !.pc = pc, !.todo = batch[w].todo]
    BY <1>1 DEF Batches
  <2>2. batch' = [batch EXCEPT ![w] = [batch[w] EXCEPT !.pc = pc]]
    BY <1>2 DEF Goto
  <2> WITNESS batch[w].todo \in SUBSET batch[w].todo
  <2> QED
    BY <1>2, <2>1, <2>2
<1>3. CASE batch[w].pc = "next"
  <2> DEFINE todo == batch[w].todo \ {Earliest(batch[w].todo)}
  <2>1. batch' = [batch EXCEPT ![w] = [batch[w] EXCEPT !.todo = todo]]
    BY <1>3 DEF ErrorIgnored
  <2>2. todo \in SUBSET batch[w].todo
    OBVIOUS
  <2> HIDE DEF todo
  <2>3. [batch[w] EXCEPT !.todo = todo] = [batch[w] EXCEPT !.pc = "next", !.todo = todo]
    BY <1>1, <1>3 DEF Batches
  <2> QED
    BY <1>3, <2>1, <2>2, <2>3
<1>4. CASE batch[w].pc # "next"
  <2>1. \/ batch[w].pc = "mark" /\ Goto(w, "select")
        \/ batch[w].pc = "copy" /\ Goto(w, "next")
        \/ batch[w].pc = "record" /\ Goto(w, "verify")
        \/ batch[w].pc = "verify" /\ Goto(w, "next")
    BY <1>4 DEF ErrorIgnored
  <2>2. CASE batch[w].pc = "mark" /\ Goto(w, "select")
    BY <1>2, <2>2
  <2>3. CASE batch[w].pc \in {"copy", "verify"} /\ Goto(w, "next")
    BY <1>2, <2>3
  <2>4. CASE batch[w].pc = "record" /\ Goto(w, "verify")
    BY <1>2, <2>4
  <2> QED
    BY <2>1, <2>2, <2>3, <2>4
<1> QED
  BY <1>3, <1>4

\* What a step of a batch makes of it.
LEMMA BatchMoves ==
  ASSUME TypesInv, NEW w \in Runners, BatchPick(w) \/ BatchStep(w) \/ BatchFault(w)
  PROVE  \E b \in Batches : batch' = [batch EXCEPT ![w] = b] /\ SoundBatch(b)
<1>1. batch[w] \in Batches /\ SoundBatch(batch[w])
  BY DEF TypesInv, BatchSound, StorageTyped, BatchTyped
<1>2. NoBatch \in Batches /\ SoundBatch(NoBatch)
  BY DEF NoBatch, Batches, SoundBatch
<1>3. CASE BatchPick(w)
  <2> DEFINE j == batch'[w].job
  <2>1. /\ batch' = [batch EXCEPT ![w] = [NoBatch EXCEPT !.pc = "mark", !.job = j]]
        /\ j \in Jobs /\ job[j] # Nil
    BY <1>3, JobToPick
  <2> HIDE DEF j
  <2>2. /\ [NoBatch EXCEPT !.pc = "mark", !.job = j] \in Batches
        /\ SoundBatch([NoBatch EXCEPT !.pc = "mark", !.job = j])
    BY <2>1 DEF NoBatch, Batches, SoundBatch
  <2> QED
    BY <2>1, <2>2
<1>4. CASE BatchMark(w)
  <2>1. batch' = [batch EXCEPT ![w] = [batch[w] EXCEPT !.pc = "select"]] /\ batch[w].pc = "mark"
    BY <1>4 DEF BatchMark, Goto
  <2>2. /\ [batch[w] EXCEPT !.pc = "select"] \in Batches
        /\ SoundBatch([batch[w] EXCEPT !.pc = "select"])
    BY <1>1, <2>1 DEF Batches, SoundBatch
  <2> QED
    BY <2>1, <2>2
<1>5. CASE BatchRefused(w) \/ BatchFinish(w) \/ BatchAbort(w)
  BY <1>2, <1>5 DEF BatchRefused, BatchFinish, BatchAbort
<1>6. CASE BatchSelect(w)
  <2>1. PICK T \in Lowest({o \in Objects : item[batch[w].job][o] \in {"pending", "failed"}}) :
          batch' = [batch EXCEPT ![w] = [batch[w] EXCEPT !.pc = "next", !.todo = T]]
    BY <1>6 DEF BatchSelect
  <2>2. batch[w].pc = "select"
    BY <1>6 DEF BatchSelect
  <2>3. T \subseteq {o \in Objects : item[batch[w].job][o] # Nil}
    BY StorageAssumption DEF Lowest, ItemStatuses
  <2>4. /\ [batch[w] EXCEPT !.pc = "next", !.todo = T] \in Batches
        /\ SoundBatch([batch[w] EXCEPT !.pc = "next", !.todo = T])
    BY <1>1, <2>2, <2>3 DEF Batches, SoundBatch
  <2> QED
    BY <2>1, <2>4
<1>7. CASE ItemTake(w)
  <2> DEFINE o == Earliest(batch[w].todo)
  <2>1. /\ o \in Objects /\ o \in batch[w].todo /\ batch[w].job \in Jobs
        /\ item[batch[w].job][o] # Nil
        /\ <<batch[w].job, o>> \notin orphan => row[o] \in Rows
    BY <1>7, ObjectToTake
  <2>2. \/ batch' = [batch EXCEPT ![w] = [batch[w] EXCEPT !.todo = batch[w].todo \ {o}]]
        \/ /\ batch' = [batch EXCEPT ![w] = [batch[w] EXCEPT !.pc = "copy",
                             !.todo = batch[w].todo \ {o}, !.cur = o, !.sum = row[o].sum]]
           /\ row[o] \in Rows
    BY <1>7, <2>1 DEF ItemTake
  <2>3. batch[w].pc = "next"
    BY <1>7 DEF ItemTake
  <2> HIDE DEF o
  <2>4. /\ [batch[w] EXCEPT !.todo = batch[w].todo \ {o}] \in Batches
        /\ SoundBatch([batch[w] EXCEPT !.todo = batch[w].todo \ {o}])
    BY <1>1 DEF Batches, SoundBatch
  <2>5. ASSUME row[o] \in Rows
        PROVE  LET b == [batch[w] EXCEPT !.pc = "copy", !.todo = batch[w].todo \ {o},
                                         !.cur = o, !.sum = row[o].sum]
               IN  b \in Batches /\ SoundBatch(b)
    BY <1>1, <2>1, <2>3, <2>5 DEF Batches, SoundBatch, Rows
  <2> QED
    BY <2>2, <2>4, <2>5
<1>8. CASE ItemCopied(w)
  <2>1. /\ batch' = [batch EXCEPT ![w] =
                       [batch[w] EXCEPT !.pc = "record", !.got = local[batch[w].cur]]]
        /\ batch[w].pc = "copy"
    BY <1>8 DEF ItemCopied
  <2>2. local[batch[w].cur] \in Content \cup {Nil}
    BY <1>1, <2>1 DEF SoundBatch, TypesInv, StorageTyped, StoresTyped
  <2>3. LET b == [batch[w] EXCEPT !.pc = "record", !.got = local[batch[w].cur]]
        IN  b \in Batches /\ SoundBatch(b)
    BY <1>1, <2>1, <2>2 DEF Batches, SoundBatch
  <2> QED
    BY <2>1, <2>3
<1>9. CASE ItemFailed(w) \/ ItemRefused(w) \/ ItemVerify(w)
  <2>1. batch' = [batch EXCEPT ![w] = [batch[w] EXCEPT !.pc = "next"]] /\ batch[w].pc # "idle"
    BY <1>9 DEF ItemFailed, ItemRefused, ItemVerify, Goto
  <2>2. /\ [batch[w] EXCEPT !.pc = "next"] \in Batches
        /\ SoundBatch([batch[w] EXCEPT !.pc = "next"])
    BY <1>1, <2>1 DEF Batches, SoundBatch
  <2> QED
    BY <2>1, <2>2
<1>10. CASE ItemRecord(w)
  <2>1. batch' = [batch EXCEPT ![w] = [batch[w] EXCEPT !.pc = "verify"]] /\ batch[w].pc = "record"
    BY <1>10 DEF ItemRecord, Goto
  <2>2. /\ [batch[w] EXCEPT !.pc = "verify"] \in Batches
        /\ SoundBatch([batch[w] EXCEPT !.pc = "verify"])
    BY <1>1, <2>1 DEF Batches, SoundBatch
  <2> QED
    BY <2>1, <2>2
<1>11. CASE BatchCount(w)
  <2>1. PICK pending \in BOOLEAN, failed \in BOOLEAN :
          batch' = [batch EXCEPT ![w] = [batch[w] EXCEPT !.pc = "finish", !.pending = pending,
                                                         !.failed = failed]]
    BY <1>11, CountMoves
  <2>2. batch[w].pc = "next" /\ batch[w].todo = {}
    BY <1>11 DEF BatchCount
  <2>3. LET b == [batch[w] EXCEPT !.pc = "finish", !.pending = pending, !.failed = failed]
        IN  b \in Batches /\ SoundBatch(b)
    BY <1>1, <2>2 DEF Batches, SoundBatch
  <2> QED
    BY <2>1, <2>3
<1>12. CASE BatchMiscount(w)
  <2>1. PICK pending \in BOOLEAN, failed \in BOOLEAN :
          batch' = [batch EXCEPT ![w] = [batch[w] EXCEPT !.pc = "finish", !.pending = pending,
                                                         !.failed = failed]]
    BY <1>12, MiscountMoves
  <2>2. batch[w].pc = "next" /\ batch[w].todo = {}
    BY <1>12 DEF BatchMiscount
  <2>3. LET b == [batch[w] EXCEPT !.pc = "finish", !.pending = pending, !.failed = failed]
        IN  b \in Batches /\ SoundBatch(b)
    BY <1>1, <2>2 DEF Batches, SoundBatch
  <2> QED
    BY <2>1, <2>3
<1>13. CASE ErrorIgnored(w)
  <2>1. PICK pc \in {"select", "next", "verify"}, todo \in SUBSET batch[w].todo :
          /\ batch' = [batch EXCEPT ![w] = [batch[w] EXCEPT !.pc = pc, !.todo = todo]]
          /\ batch[w].pc # "idle" /\ (pc = "verify" => batch[w].pc = "record")
    BY <1>13, IgnoredMoves
  <2>2. LET b == [batch[w] EXCEPT !.pc = pc, !.todo = todo] IN b \in Batches /\ SoundBatch(b)
    BY <1>1, <2>1 DEF Batches, SoundBatch
  <2> QED
    BY <2>1, <2>2
<1> QED
  BY <1>3, <1>4, <1>5, <1>6, <1>7, <1>8, <1>9, <1>10, <1>11, <1>12, <1>13
  DEF BatchStep, BatchFault

\* Only runners, and a crash, touch batches.
LEMMA BatchesChange ==
  ASSUME StorageNext, ~StorageCrash,
         ~\E w \in Runners : BatchPick(w) \/ BatchStep(w) \/ BatchFault(w)
  PROVE  batch' = batch
<1> USE DEF stores, tables, fixed, marks, calls, OnlyArchive, OnlyRequest
<1>1. CASE BackupStep \/ BackupRefused
  BY <1>1 DEF BackupStep, BackupRefused, BackupPick, BackupCheck, BackupList, BackupRecord,
     BackupDiscard, BackupFinish, BackupHas, BackupMissing, BackupCopied, BackupMismatch
<1>2. CASE JobRequest
  BY <1>2 DEF JobRequest, StartCheck, StartPlan, StartJob, StartItems, QueueCheck, QueueInsert,
     PauseStorageMigration, ResumeStorageMigration, RetryFailedStorageMigration
<1>3. CASE ObjectRequest
  BY <1>3 DEF ObjectRequest, UploadRow, UploadLink, DeleteRow, DeleteLink, CleanSelect,
     CleanRow, ScanR2Objects, ReadStored, UploadPut, DeleteFile, CleanFile, Expire,
     SetActiveStorageProvider
<1> QED
  BY <1>1, <1>2, <1>3 DEF StorageNext

LEMMA BatchTypes ==
  ASSUME TypesInv, StorageNext
  PROVE  BatchTyped' /\ BatchSound'
<1>1. ASSUME NEW b \in Batches, SoundBatch(b)
      PROVE  SoundBatch(b)'
  BY <1>1, JobsTypes DEF SoundBatch, Batches, JobsStay
<1>2. \A w \in Runners : batch[w] \in Batches /\ SoundBatch(batch[w])
  BY DEF TypesInv, BatchSound, StorageTyped, BatchTyped
<1>3. NoBatch \in Batches /\ SoundBatch(NoBatch)
  BY DEF NoBatch, Batches, SoundBatch
<1>4. ASSUME NEW w \in Runners, BatchPick(w) \/ BatchStep(w) \/ BatchFault(w)
      PROVE  /\ batch' \in [Runners -> Batches]
             /\ \A v \in Runners : SoundBatch(batch'[v])
  <2>1. PICK b \in Batches : batch' = [batch EXCEPT ![w] = b] /\ SoundBatch(b)
    BY <1>4, BatchMoves
  <2> QED
    BY <1>2, <2>1 DEF TypesInv, StorageTyped, BatchTyped
<1>5. /\ batch' \in [Runners -> Batches]
      /\ \A v \in Runners : SoundBatch(batch'[v])
  BY <1>2, <1>3, <1>4, BatchesChange DEF TypesInv, StorageTyped, BatchTyped, StorageCrash
<1>6. \A v \in Runners : batch'[v] \in Batches
  BY <1>5
<1> QED
  BY <1>1, <1>5, <1>6 DEF BatchTyped, BatchSound

\* A row that goes takes its items' sight of it along.
LEMMA RowsLeave ==
  ASSUME TypesInv, StorageNext
  PROVE  /\ orphan \subseteq orphan'
         /\ \A o \in Objects : row[o] # Nil =>
              row'[o] # Nil \/ \A j \in Jobs : item[j][o] # Nil => <<j, o>> \in orphan'
<1>1. orphan \subseteq orphan'
  <2> USE DEF tables, OnlyBatch, OnlyBatchButCounts, OnlyArchive, OnlyRequest
  <2>1. CASE \E w \in Runners : BatchPick(w) \/ BatchStep(w) \/ BatchFault(w)
    BY <2>1 DEF BatchPick, BatchStep, BatchFault, BatchMark, BatchSelect, ItemTake, ItemRecord,
       ItemCopied, ItemFailed, ItemVerify, BatchCount, BatchFinish, BatchRefused, ItemRefused,
       BatchMiscount, ErrorIgnored, BatchAbort
  <2>2. CASE BackupStep \/ BackupRefused
    BY <2>2 DEF BackupStep, BackupRefused, BackupPick, BackupCheck, BackupList, BackupRecord,
       BackupDiscard, BackupFinish, BackupHas, BackupMissing, BackupCopied, BackupMismatch
  <2>3. CASE JobRequest
    BY <2>3 DEF JobRequest, StartCheck, StartPlan, StartJob, StartItems, QueueCheck,
       QueueInsert, PauseStorageMigration, ResumeStorageMigration, RetryFailedStorageMigration
  <2>4. CASE ObjectRequest \/ StorageCrash
    BY <2>4 DEF ObjectRequest, UploadRow, UploadLink, DeleteRow, DeleteLink, CleanSelect,
       CleanRow, DropRow, ScanR2Objects, ReadStored, UploadPut, DeleteFile, CleanFile, Expire,
       SetActiveStorageProvider, StorageCrash
  <2> QED
    BY <2>1, <2>2, <2>3, <2>4 DEF StorageNext
<1>2. ASSUME NEW o \in Objects, row[o] # Nil
      PROVE  row'[o] # Nil \/ \A j \in Jobs : item[j][o] # Nil => <<j, o>> \in orphan'
  <2> USE <1>2, StorageAssumption DEF TypesInv, StorageTyped, StoresTyped, Rows, Providers, Content
  <2>1. CASE StartPlan \/ BackupList
    BY <2>1 DEF StartPlan, BackupList, Inventory
  <2>2. CASE DeleteRow \/ CleanRow
    BY <2>2 DEF DeleteRow, CleanRow, DropRow
  <2>3. CASE BackupRecord
    <3>1. archive.got \in Content \cup {Nil}
      BY DEF ArchiveTyped, Archives
    <3> QED
      BY <2>3, <3>1 DEF BackupRecord
  <2>4. CASE UploadRow
    BY <2>4 DEF UploadRow, CallsSound
  <2>5. CASE ScanR2Objects
    BY <2>5 DEF ScanR2Objects
  <2>6. ASSUME NEW p \in Objects, ReadStored(p)
        PROVE  row'[o] # Nil
    BY <2>6 DEF ReadStored
  <2>7. ASSUME NEW w \in Runners, ItemRecord(w)
        PROVE  row'[o] # Nil
    <3>1. batch[w].got \in Content \cup {Nil}
      BY DEF BatchTyped, Batches
    <3> QED
      BY <2>7, <3>1 DEF ItemRecord
  <2> QED
    BY <2>1, <2>2, <2>3, <2>4, <2>5, <2>6, <2>7, RowsChange DEF RowStep
<1> QED
  BY <1>1, <1>2

LEMMA ItemTypesSound ==
  ASSUME TypesInv, StorageNext
  PROVE  ItemsSound'
<1> SUFFICES ASSUME NEW j \in Jobs, NEW o \in Objects, item'[j][o] # Nil
             PROVE  job'[j] # Nil /\ (row'[o] # Nil \/ <<j, o>> \in orphan')
  BY DEF ItemsSound
<1>1. CASE item[j][o] # Nil
  BY <1>1, JobsTypes, RowsLeave DEF TypesInv, ItemsSound, JobsStay
<1>2. CASE item[j][o] = Nil
  <2>1. StartItems
    BY <1>2, JobsTypes DEF JobsStay
  <2>2. j = start.job /\ o \in start.todo /\ row' = row
    BY <1>2, <2>1 DEF StartItems, stores, TypesInv, StorageTyped, JobsTyped, CallsSound
  <2>3. job'[j] # Nil
    BY <2>1, <2>2, JobsTypes DEF JobsStay, TypesInv, CallsSound, StartItems
  <2> QED
    BY <2>1, <2>2, <2>3 DEF StartItems
<1> QED
  BY <1>1, <1>2

ArchiveStep ==
  BackupStep \/ BackupRefused \/ DeleteRow \/ CleanRow \/ StorageCrash

\* Only these touch the backup under way, and only its end a manifest.
LEMMA ArchiveChanges ==
  ASSUME StorageNext
  PROVE  /\ ~ArchiveStep => archive' = archive
         /\ ~BackupFinish => manifest' = manifest
<1> USE DEF ArchiveStep, stores, tables, fixed, marks, calls, OnlyBatch, OnlyBatchButCounts,
        OnlyRequest
<1>1. CASE \E w \in Runners : BatchPick(w) \/ BatchStep(w) \/ BatchFault(w)
  BY <1>1 DEF BatchPick, BatchStep, BatchFault, BatchMark, BatchSelect, ItemTake, ItemRecord,
     ItemCopied, ItemFailed, ItemVerify, BatchCount, BatchFinish, BatchRefused, ItemRefused,
     BatchMiscount, ErrorIgnored, BatchAbort
<1>2. CASE BackupStep \/ BackupRefused
  BY <1>2 DEF BackupStep, BackupRefused, BackupPick, BackupCheck, BackupList, BackupRecord,
     BackupDiscard, BackupHas, BackupMissing, BackupCopied, BackupMismatch, OnlyArchive
<1>3. CASE JobRequest
  BY <1>3 DEF JobRequest, StartCheck, StartPlan, StartJob, StartItems, QueueCheck, QueueInsert,
     PauseStorageMigration, ResumeStorageMigration, RetryFailedStorageMigration
<1>4. CASE ObjectRequest \/ StorageCrash
  BY <1>4 DEF ObjectRequest, UploadRow, UploadLink, DeleteRow, DeleteLink, CleanSelect,
     CleanRow, ScanR2Objects, ReadStored, UploadPut, DeleteFile, CleanFile, Expire,
     SetActiveStorageProvider, StorageCrash
<1> QED
  BY <1>1, <1>2, <1>3, <1>4 DEF StorageNext

LEMMA ArchiveTypes ==
  ASSUME TypesInv, StorageNext
  PROVE  ArchiveTyped' /\ ArchiveSound' /\ BackupsTyped'
<1>1. archive \in Archives /\ ArchiveSound /\ manifest \in [Backups -> SUBSET Objects]
  BY DEF TypesInv, StorageTyped, ArchiveTyped, BackupsTyped
<1>2. sameBucket' = sameBucket
  BY CopiesStay DEF CopiesGrow
<1>3. BackupsTyped'
  <2>1. CASE BackupFinish
    BY <1>1, <2>1 DEF BackupFinish, Archives, BackupsTyped
  <2> QED
    BY <1>1, <2>1, ArchiveChanges DEF BackupsTyped
<1> DEFINE Sound(a) == /\ a \in Archives
                       /\ a.pc \in {"record", "discard"} => a.cur \in Objects
                       /\ a.pc = "record" => sameBucket
<1>4. Sound(archive)
  BY <1>1 DEF ArchiveSound
<1>5. Sound(NoArchive)
  BY DEF NoArchive, Archives
<1>6. Sound(archive')
  <2>1. CASE BackupPick
    <3>1. PICK b \in Backups : archive' = [NoArchive EXCEPT !.pc = "check", !.backup = b]
      <4>1. /\ {c \in Backups : BackupActive(c)} # {}
            /\ {c \in Backups : BackupActive(c)} \in SUBSET Nat
        BY <2>1, StorageAssumption DEF BackupPick
      <4>2. Earliest({c \in Backups : BackupActive(c)}) \in Backups
        BY <4>1, EarliestIn
      <4> QED
        BY <2>1, <4>2 DEF BackupPick
    <3> QED
      BY <3>1 DEF NoArchive, Archives
  <2>2. CASE BackupCheck
    BY <1>4, <1>5, <2>2 DEF BackupCheck, Archives
  <2>3. CASE BackupList
    <3>1. row' \in [Objects -> Rows \cup {Nil}]
      BY StoresTypes DEF StoresTyped
    <3> QED
      BY <1>4, <2>3, <3>1 DEF BackupList, Archives
  <2>4. ASSUME NEW o \in Objects, BackupHas(o)
        PROVE  Sound(archive')
    BY <1>4, <2>4 DEF BackupHas, Recording, Listed, Archives
  <2>5. ASSUME NEW o \in Objects, BackupMissing(o)
        PROVE  Sound(archive')
    BY <1>4, <2>5 DEF BackupMissing, BackupLacks, Archives
  <2>6. ASSUME NEW o \in Objects
        PROVE  Source(o) \in Content \cup {Nil} /\ Bucket[o] \in Content \cup {Nil}
    BY DEF Source, Bucket, TypesInv, StorageTyped, StoresTyped
  <2>7. ASSUME NEW o \in Objects, BackupCopied(o)
        PROVE  Sound(archive')
    BY <1>4, <2>6, <2>7 DEF BackupCopied, BackupLacks, Recording, Listed, Archives
  <2>8. ASSUME NEW o \in Objects, BackupMismatch(o)
        PROVE  Sound(archive')
    BY <1>4, <2>6, <2>8 DEF BackupMismatch, BackupLacks, Archives
  <2>9. CASE BackupRecord
    BY <1>4, <2>9 DEF BackupRecord, Archives
  <2>10. CASE BackupDiscard \/ BackupFinish \/ BackupRefused \/ StorageCrash
    BY <1>5, <2>10 DEF BackupDiscard, BackupFinish, BackupRefused, StorageCrash
  <2>11. CASE DeleteRow \/ CleanRow
    <3>1. PICK o \in Objects :
            archive' = IF archive.pc = "idle" THEN archive ELSE [archive EXCEPT !.gone = @ \cup {o}]
      BY <2>11 DEF DeleteRow, CleanRow, DropRow, TypesInv, CallsSound
    <3> QED
      BY <1>4, <3>1 DEF Archives
  <2> QED
    BY <1>4, <2>1, <2>2, <2>3, <2>4, <2>5, <2>7, <2>8, <2>9, <2>10, <2>11, ArchiveChanges
       DEF ArchiveStep, BackupStep
<1> QED
  BY <1>2, <1>3, <1>6 DEF ArchiveTyped, ArchiveSound

\* Each request has its own steps.
LEMMA CallsChange ==
  ASSUME StorageNext, ~StorageCrash
  PROVE  /\ ~(StartCheck \/ StartPlan \/ StartJob \/ StartItems) => start' = start
         /\ ~((\E o \in Objects : UploadPut(o)) \/ UploadRow \/ UploadLink) => upload' = upload
         /\ ~((\E o \in Objects : DeleteFile(o)) \/ DeleteRow \/ DeleteLink) => removal' = removal
         /\ ~(CleanSelect \/ (\E o \in Objects : CleanFile(o)) \/ CleanRow) => sweep' = sweep
<1> USE DEF calls, OnlyBatch, OnlyBatchButCounts, OnlyArchive
<1>1. CASE \E w \in Runners : BatchPick(w) \/ BatchStep(w) \/ BatchFault(w)
  BY <1>1 DEF BatchPick, BatchStep, BatchFault, BatchMark, BatchSelect, ItemTake, ItemRecord,
     ItemCopied, ItemFailed, ItemVerify, BatchCount, BatchFinish, BatchRefused, ItemRefused,
     BatchMiscount, ErrorIgnored, BatchAbort
<1>2. CASE BackupStep \/ BackupRefused
  BY <1>2 DEF BackupStep, BackupRefused, BackupPick, BackupCheck, BackupList, BackupRecord,
     BackupDiscard, BackupFinish, BackupHas, BackupMissing, BackupCopied, BackupMismatch
<1>3. CASE JobRequest
  BY <1>3 DEF JobRequest, StartCheck, StartPlan, StartJob, StartItems, QueueCheck, QueueInsert,
     PauseStorageMigration, ResumeStorageMigration, RetryFailedStorageMigration
<1>4. CASE ObjectRequest
  BY <1>4 DEF ObjectRequest, UploadRow, UploadLink, DeleteRow, DeleteLink, CleanSelect,
     CleanRow, ScanR2Objects, ReadStored, UploadPut, DeleteFile, CleanFile, Expire,
     SetActiveStorageProvider
<1> QED
  BY <1>1, <1>2, <1>3, <1>4 DEF StorageNext

\* The start of a migration.
StartSound ==
  /\ start \in Calls
  /\ start.pc \in {"plan", "job"} => Free(Jobs, job) # {}
  /\ start.pc = "items" =>
       /\ start.job \in Jobs /\ job[start.job] # Nil /\ job[start.job].dry = start.dry
       /\ \A o \in Objects : item[start.job][o] = Nil

LEMMA StartTypes ==
  ASSUME TypesInv, StorageNext
  PROVE  StartSound'
<1>1. StartSound /\ NoCall \in Calls /\ NoCall.pc = "idle"
  BY DEF StartSound, TypesInv, StorageTyped, CallsTyped, CallsSound, NoCall, Calls
<1>2. CASE StartCheck
  <2>1. PICK dry \in BOOLEAN : start' = [NoCall EXCEPT !.pc = "plan", !.dry = dry]
    BY <1>2 DEF StartCheck
  <2>2. job' = job /\ Free(Jobs, job) # {}
    BY <1>2 DEF StartCheck, tables
  <2>3. start' \in Calls /\ start'.pc = "plan"
    BY <2>1 DEF NoCall, Calls
  <2> QED
    BY <2>2, <2>3 DEF StartSound, Free
<1>3. CASE StartPlan
  <2>1. PICK todo \in SUBSET Objects : start' = [start EXCEPT !.pc = "job", !.todo = todo]
    BY <1>3 DEF StartPlan
  <2>2. job' = job /\ Free(Jobs, job) # {}
    BY <1>1, <1>3 DEF StartPlan, tables, StartSound
  <2>3. start' \in Calls /\ start'.pc = "job"
    BY <1>1, <2>1 DEF StartSound, Calls
  <2> QED
    BY <2>2, <2>3 DEF StartSound, Free
<1>4. CASE StartJob
  <2> DEFINE j == Earliest(Free(Jobs, job))
  <2>1. j \in Jobs /\ job[j] = Nil
    BY <1>4, JobToStart
  <2>2. /\ start' = [start EXCEPT !.pc = "items", !.job = j] /\ item' = item
        /\ job' = [job EXCEPT ![j] = [status |-> IF start.dry THEN "verified" ELSE "queued",
                                      dry |-> start.dry]]
    BY <1>4 DEF StartJob
  <2> HIDE DEF j
  <2>3. start' \in Calls /\ start'.pc = "items" /\ start'.job = j /\ start'.dry = start.dry
    BY <1>1, <2>1, <2>2 DEF StartSound, Calls
  <2>4. \A o \in Objects : item'[j][o] = Nil
    BY <2>1, <2>2 DEF TypesInv, ItemsSound
  <2>5. [status |-> IF start.dry THEN "verified" ELSE "queued", dry |-> start.dry] \in JobRows
    BY <1>1 DEF StartSound, Calls, JobRows
  <2>6. job'[j] # Nil /\ job'[j].dry = start.dry
    BY <2>1, <2>2, <2>5, StorageAssumption DEF TypesInv, StorageTyped, JobsTyped
  <2> QED
    BY <2>1, <2>3, <2>4, <2>6 DEF StartSound
<1>5. CASE StartItems \/ StorageCrash
  BY <1>1, <1>5 DEF StartItems, StorageCrash, StartSound
<1>6. CASE ~(StartCheck \/ StartPlan \/ StartJob \/ StartItems \/ StorageCrash)
  <2>1. start' = start
    BY <1>6, CallsChange
  <2>2. \A j \in Jobs : job[j] = Nil => job'[j] = Nil
    BY <1>6, JobsTypes DEF JobsStay
  <2> QED
    BY <1>1, <1>6, <2>1, <2>2, JobsTypes DEF StartSound, Free, JobsStay
<1> QED
  BY <1>2, <1>3, <1>4, <1>5, <1>6

\* Uploads, deletions and the clean-up have an object in hand.
RequestsSound ==
  /\ upload \in Calls /\ removal \in Calls /\ sweep \in Calls
  /\ upload.pc \in {"row", "link"} => upload.cur \in Objects
  /\ upload.pc = "row" => upload.at \in Providers
  /\ removal.pc # "idle" => removal.cur \in Objects
  /\ sweep.pc = "row" => sweep.cur \in Objects

LEMMA RequestTypes ==
  ASSUME TypesInv, StorageNext
  PROVE  RequestsSound'
<1>1. RequestsSound /\ active \in Providers
  BY DEF RequestsSound, TypesInv, StorageTyped, StoresTyped, CallsTyped, CallsSound
<1>2. NoCall \in Calls /\ NoCall.pc = "idle"
  BY DEF NoCall, Calls
<1> USE DEF RequestsSound
<1>3. CASE StorageCrash
  BY <1>2, <1>3 DEF StorageCrash
<1>4. CASE \E o \in Objects : UploadPut(o)
  <2>1. PICK o \in Objects : UploadPut(o)
    BY <1>4
  <2>2. upload' = [NoCall EXCEPT !.pc = "row", !.cur = o, !.at = active]
    BY <2>1 DEF UploadPut
  <2>3. upload' \in Calls /\ upload'.cur = o /\ upload'.at = active
    BY <1>1, <2>2 DEF NoCall, Calls
  <2> QED
    BY <1>1, <2>1, <2>3 DEF UploadPut
<1>5. CASE UploadRow
  <2>1. upload' = NoCall \/ upload' = [upload EXCEPT !.pc = "link"]
    BY <1>5 DEF UploadRow
  <2> QED
    BY <1>1, <1>2, <1>5, <2>1 DEF UploadRow, Calls
<1>6. CASE UploadLink
  BY <1>1, <1>2, <1>6 DEF UploadLink
<1>7. CASE \E o \in Objects : DeleteFile(o)
  <2>1. PICK o \in Objects : DeleteFile(o)
    BY <1>7
  <2>2. removal' = [NoCall EXCEPT !.cur = o, !.pc = IF row[o] # Nil THEN "row" ELSE "link"]
    BY <2>1 DEF DeleteFile
  <2>3. removal' \in Calls /\ removal'.cur = o
    BY <2>2 DEF NoCall, Calls
  <2> QED
    BY <1>1, <2>1, <2>3 DEF DeleteFile
<1>8. CASE DeleteRow
  BY <1>1, <1>8 DEF DeleteRow, Calls
<1>9. CASE DeleteLink
  BY <1>1, <1>2, <1>9 DEF DeleteLink
<1>10. CASE CleanSelect
  <2>1. PICK todo \in SUBSET Objects :
          sweep' = [NoCall EXCEPT !.pc = "file", !.todo = todo, !.at = active]
    <3>1. {o \in expired : row[o] # Nil} \in SUBSET Objects
      BY DEF TypesInv, StorageTyped, StoresTyped
    <3> QED
      BY <1>10, <3>1 DEF CleanSelect
  <2>2. sweep' \in Calls /\ sweep'.pc = "file"
    BY <1>1, <2>1 DEF NoCall, Calls
  <2> QED
    BY <1>1, <1>10, <2>2 DEF CleanSelect
<1>11. CASE \E o \in Objects : CleanFile(o)
  <2>1. PICK o \in Objects : CleanFile(o)
    BY <1>11
  <2>2. sweep' = [sweep EXCEPT !.pc = "row", !.cur = o, !.todo = sweep.todo \ {o}]
    BY <2>1 DEF CleanFile
  <2>3. sweep' \in Calls /\ sweep'.cur = o
    BY <1>1, <2>2 DEF Calls
  <2> QED
    BY <1>1, <2>1, <2>3 DEF CleanFile
<1>12. CASE CleanRow
  <2>1. sweep' = NoCall \/ sweep' = [sweep EXCEPT !.pc = "file", !.cur = Nil]
    BY <1>12 DEF CleanRow
  <2>2. sweep' \in Calls /\ sweep'.pc # "row"
    BY <1>1, <1>2, <2>1 DEF Calls
  <2> QED
    BY <1>1, <1>12, <2>2 DEF CleanRow
<1> QED
  BY <1>1, <1>3, <1>4, <1>5, <1>6, <1>7, <1>8, <1>9, <1>10, <1>11, <1>12, CallsChange

LEMMA TypesInit ==
  ASSUME StorageInit
  PROVE  TypesInv
<1>1. PICK s \in StartWith :
        /\ row = s.row /\ local = s.local /\ r2 = s.r2 /\ expired = s.expired
        /\ job = [j \in Jobs |-> IF j \in s.queued THEN [status |-> "queued", dry |-> FALSE]
                                ELSE Nil]
        /\ item = [j \in Jobs |-> [o \in Objects |->
             IF j \in s.queued /\ s.row[o] # Nil /\ s.row[o].at = "local" THEN "pending" ELSE Nil]]
  BY DEF StorageInit
<1>2. s \in Stores
  BY StorageAssumption
<1>3. StoresTyped
  BY <1>1, <1>2, StorageAssumption DEF StorageInit, StoresTyped, Stores, Providers
<1>4. JobsTyped /\ ItemsSound
  <2>1. [status |-> "queued", dry |-> FALSE] \in JobRows
    BY DEF JobRows
  <2>2. JobsTyped
    BY <1>1, <2>1 DEF JobsTyped, ItemStatuses
  <2>3. ItemsSound
    BY <1>1, <2>1, StorageAssumption DEF ItemsSound, ItemStatuses
  <2> QED
    BY <2>2, <2>3
<1>5. BatchTyped /\ BatchSound
  BY DEF StorageInit, BatchTyped, BatchSound, SoundBatch, NoBatch, Batches
<1>6. ArchiveTyped /\ ArchiveSound /\ BackupsTyped
  BY DEF StorageInit, ArchiveTyped, ArchiveSound, BackupsTyped, NoArchive, Archives
<1>7. CallsTyped /\ CallsSound
  BY DEF StorageInit, CallsTyped, CallsSound, NoCall, Calls
<1> QED
  BY <1>3, <1>4, <1>5, <1>6, <1>7 DEF TypesInv, StorageTyped

LEMMA TypesStep ==
  ASSUME TypesInv, [StorageNext]_storageVars
  PROVE  TypesInv'
<1>1. CASE StorageNext
  <2>1. StartSound' /\ RequestsSound'
    BY <1>1, StartTypes, RequestTypes
  <2>2. CallsTyped' /\ CallsSound'
    BY <2>1 DEF StartSound, RequestsSound, CallsTyped, CallsSound
  <2> QED
    BY <1>1, <2>2, StoresTypes, JobsTypes, BatchTypes, ItemTypesSound, ArchiveTypes
       DEF TypesInv, StorageTyped
<1>2. CASE UNCHANGED storageVars
  BY <1>2 DEF TypesInv, StorageTyped, StoresTyped, JobsTyped, BackupsTyped, BatchTyped,
     ArchiveTyped, CallsTyped, CallsSound, ItemsSound, BatchSound, SoundBatch, ArchiveSound, Free,
     storageVars, stores, tables, fixed, marks, calls
<1> QED
  BY <1>1, <1>2

-----------------------------------------------------------------------------
(* The provider a row names holds the object. *)

\* What was lost stays lost, and what was copied stays copied or is lost.
LEMMA CopiedStays ==
  ASSUME TypesInv, StorageNext, NEW o \in Objects
  PROVE  /\ o \in Lost => o \in Lost'
         /\ Copied(o) => Copied(o)'
         /\ \A at \in Providers : Holds(at, o) # Nil => Holds(at, o)' # Nil \/ o \in Lost'
BY CopiesStay DEF CopiesGrow, Lost, Copied, Holds, Providers

LEMMA RowsInit ==
  ASSUME StorageInit
  PROVE  RowsInv
<1>1. RowTruthful
  <2>1. PICK s \in StartWith : row = s.row /\ local = s.local /\ r2 = s.r2
    BY DEF StorageInit
  <2> QED
    BY <2>1, StorageAssumption DEF RowTruthful, Holds
<1>2. CopyInHand
  BY DEF StorageInit, CopyInHand, NoBatch, NoArchive, NoCall
<1> QED
  BY <1>1, <1>2 DEF RowsInv

LEMMA RowsStep ==
  ASSUME TypesInv, RowsInv, StorageNext
  PROVE  RowTruthful'
<1> SUFFICES ASSUME NEW o \in Objects, o \notin Lost', row'[o] # Nil
             PROVE  Holds(row[o].at, o)' # Nil
  BY DEF RowTruthful
<1>1. row \in [Objects -> Rows \cup {Nil}] /\ TypesInv'
  BY TypesStep DEF TypesInv, StorageTyped, StoresTyped
<1>2. row'[o] \in Rows
  BY <1>1 DEF TypesInv, StorageTyped, StoresTyped
<1>3. CASE row'[o] = row[o]
  <2>1. row[o].at \in Providers /\ o \notin Lost
    BY <1>2, <1>3, CopiedStays DEF Rows
  <2>2. Holds(row[o].at, o) # Nil
    BY <1>2, <1>3, <2>1 DEF RowsInv, RowTruthful
  <2> QED
    BY <1>3, <2>1, <2>2, CopiedStays
<1>4. CASE row'[o] # row[o]
  <2> USE <1>4
  <2>1. RowStep
    BY RowsChange
  <2>2. CASE StartPlan \/ BackupList
    <3>1. Inventory /\ local' = local
      BY <2>2 DEF StartPlan, BackupList, OnlyArchive
    <3>2. row'[o].at = "local" /\ local[o] # Nil
      BY <1>1, <3>1 DEF Inventory, Rows
    <3> QED
      BY <3>1, <3>2 DEF Holds
  <2>3. CASE DeleteRow \/ CleanRow
    BY <1>1, <2>3 DEF DeleteRow, CleanRow, DropRow
  <2>4. CASE BackupRecord
    <3>1. o = archive.cur /\ archive.pc = "record" /\ row'[o].at = "r2"
      BY <1>1, <2>4 DEF BackupRecord
    <3>2. Copied(o)'
      BY <3>1, CopiedStays DEF RowsInv, CopyInHand
    <3> QED
      BY <3>1, <3>2 DEF Copied, Holds
  <2>5. CASE UploadRow
    <3>1. /\ o = upload.cur /\ upload.pc = "row" /\ row'[o].at = upload.at
          /\ upload.at \in Providers
      BY <1>1, <2>5 DEF UploadRow, TypesInv, CallsSound
    <3>2. Holds(upload.at, o) # Nil
      BY <3>1, CopiedStays DEF RowsInv, CopyInHand
    <3> QED
      BY <3>1, <3>2, CopiedStays
  <2>6. CASE ScanR2Objects
    BY <1>1, <2>6 DEF ScanR2Objects, Holds
  <2>7. ASSUME NEW p \in Objects, ReadStored(p)
        PROVE  Holds(row[o].at, o)' # Nil
    BY <1>1, <2>7 DEF ReadStored, Holds, Rows
  <2>8. ASSUME NEW w \in Runners, ItemRecord(w)
        PROVE  Holds(row[o].at, o)' # Nil
    <3>1. o = batch[w].cur /\ batch[w].pc = "record" /\ row'[o].at = "r2"
      BY <1>1, <2>8 DEF ItemRecord
    <3>2. Copied(o)'
      BY <3>1, CopiedStays DEF RowsInv, CopyInHand
    <3> QED
      BY <3>1, <3>2 DEF Copied, Holds
  <2> QED
    BY <2>1, <2>2, <2>3, <2>4, <2>5, <2>6, <2>7, <2>8 DEF RowStep
<1> QED
  BY <1>3, <1>4

\* A batch that is about to record or to verify has copied, now or before.
LEMMA CopySeen ==
  ASSUME TypesInv, StorageNext, NEW w \in Runners, batch'[w].pc \in {"record", "verify"}
  PROVE  /\ batch'[w].cur = batch[w].cur
         /\ batch[w].pc \in {"record", "verify"} \/ ItemCopied(w)
<1>1. batch \in [Runners -> Batches]
  BY DEF TypesInv, StorageTyped, BatchTyped
<1>2. ~StorageCrash
  BY DEF StorageCrash, NoBatch
<1>3. CASE batch' = batch
  BY <1>3
<1>4. ASSUME NEW v \in Runners, BatchPick(v) \/ BatchStep(v) \/ BatchFault(v)
      PROVE  /\ batch'[w].cur = batch[w].cur
             /\ batch[w].pc \in {"record", "verify"} \/ ItemCopied(w)
  <2>1. CASE v # w
    BY <1>1, <1>4, <2>1, BatchMoves
  <2>2. CASE v = w
    <3>1. ~BatchFinish(w) /\ ~BatchRefused(w) /\ ~BatchAbort(w)
      BY <1>1 DEF BatchFinish, BatchRefused, BatchAbort, NoBatch
    <3>2. ~BatchPick(w) /\ ~BatchMark(w) /\ ~BatchSelect(w) /\ ~BatchCount(w)
      <4>1. BatchPick(w) => batch'[w].pc = "mark"
        <5>1. BatchPick(w) =>
                batch' = [batch EXCEPT ![w] = [NoBatch EXCEPT !.pc = "mark", !.job = batch'[w].job]]
          BY JobToPick
        <5> QED
          BY <1>1, <5>1 DEF NoBatch
      <4>2. BatchMark(w) => batch'[w].pc = "select"
        BY <1>1 DEF BatchMark, Goto, Batches
      <4>3. BatchSelect(w) => batch'[w].pc = "next"
        BY <1>1 DEF BatchSelect, Batches
      <4>4. ASSUME BatchCount(w)
            PROVE  batch'[w].pc = "finish"
        <5>1. PICK pending \in BOOLEAN, failed \in BOOLEAN :
                batch' = [batch EXCEPT ![w] = [batch[w] EXCEPT !.pc = "finish",
                                                 !.pending = pending, !.failed = failed]]
          BY <4>4, CountMoves
        <5> QED
          BY <1>1, <5>1 DEF Batches
      <4> QED
        BY <4>1, <4>2, <4>3, <4>4
    <3>3. ~ItemTake(w)
      BY <1>1 DEF ItemTake, Batches
    <3>4. ~ItemFailed(w) /\ ~ItemRefused(w) /\ ~ItemVerify(w)
      BY <1>1 DEF ItemFailed, ItemRefused, ItemVerify, Goto, Batches
    <3>5. CASE ItemCopied(w)
      BY <1>1, <3>5 DEF ItemCopied, Batches
    <3>6. CASE ItemRecord(w)
      BY <1>1, <3>6 DEF ItemRecord, Goto, Batches
    <3>7. ~BatchMiscount(w)
      <4>1. ASSUME BatchMiscount(w)
            PROVE  batch'[w].pc = "finish"
        <5>1. PICK pending \in BOOLEAN, failed \in BOOLEAN :
                batch' = [batch EXCEPT ![w] = [batch[w] EXCEPT !.pc = "finish",
                                                 !.pending = pending, !.failed = failed]]
          BY <4>1, MiscountMoves
        <5> QED
          BY <1>1, <5>1 DEF Batches
      <4> QED
        BY <4>1
    <3>8. CASE ErrorIgnored(w)
      <4>1. PICK pc \in {"select", "next", "verify"}, todo \in SUBSET batch[w].todo :
              /\ batch' = [batch EXCEPT ![w] = [batch[w] EXCEPT !.pc = pc, !.todo = todo]]
              /\ pc = "verify" => batch[w].pc = "record"
        BY <3>8, IgnoredMoves
      <4>2. batch'[w].pc = pc /\ batch'[w].cur = batch[w].cur
        BY <1>1, <4>1 DEF Batches
      <4> QED
        BY <4>1, <4>2
    <3> QED
      BY <1>4, <2>2, <3>1, <3>2, <3>3, <3>4, <3>5, <3>6, <3>7, <3>8 DEF BatchStep, BatchFault
  <2> QED
    BY <2>1, <2>2
<1> QED
  BY <1>2, <1>3, <1>4, BatchesChange

LEMMA HandsStep ==
  ASSUME TypesInv, RowsInv, StorageNext
  PROVE  CopyInHand'
<1>1. TypesInv'
  BY TypesStep
<1>2. ASSUME NEW w \in Runners, batch'[w].pc \in {"record", "verify"}
      PROVE  Copied(batch[w].cur)'
  <2>1. PICK o \in Objects : o = batch'[w].cur
    BY <1>1, <1>2 DEF TypesInv, BatchSound, SoundBatch
  <2>2. o = batch[w].cur /\ (batch[w].pc \in {"record", "verify"} \/ ItemCopied(w))
    BY <1>2, <2>1, CopySeen
  <2>3. CASE batch[w].pc \in {"record", "verify"}
    <3>1. Copied(o)
      BY <2>2, <2>3 DEF RowsInv, CopyInHand
    <3>2. Copied(o)'
      BY <3>1, CopiedStays
    <3> QED
      BY <2>1, <3>2 DEF Copied
  <2>4. CASE ItemCopied(w)
    <3>1. r2' = [r2 EXCEPT ![o] = local[o]] /\ local[o] # Nil
      BY <2>2, <2>4 DEF ItemCopied
    <3>2. r2'[o] # Nil
      BY <3>1 DEF TypesInv, StorageTyped, StoresTyped
    <3> QED
      BY <2>1, <3>2 DEF Copied
  <2> QED
    BY <2>2, <2>3, <2>4
<1>3. ASSUME archive'.pc = "record"
      PROVE  Copied(archive.cur)'
  <2>1. PICK o \in Objects : o = archive'.cur
    BY <1>1, <1>3 DEF TypesInv, ArchiveSound
  <2>2. archive \in Archives /\ r2 \in [Objects -> Content \cup {Nil}]
    BY DEF TypesInv, StorageTyped, ArchiveTyped, StoresTyped
  <2>3. CASE archive.pc = "record" /\ archive.cur = o
    <3>1. Copied(o)
      BY <2>3 DEF RowsInv, CopyInHand
    <3>2. Copied(o)'
      BY <3>1, CopiedStays
    <3> QED
      BY <2>1, <3>2 DEF Copied
  <2>4. ASSUME NEW p \in Objects, BackupHas(p)
        PROVE  Copied(archive.cur)'
    <3>1. p = o /\ sameBucket /\ r2[p] # Nil /\ r2' = r2
      BY <1>3, <2>1, <2>2, <2>4 DEF BackupHas, Recording, Listed, Bucket, Archives
    <3> QED
      BY <2>1, <3>1 DEF Copied
  <2>5. ASSUME NEW p \in Objects, BackupCopied(p)
        PROVE  Copied(archive.cur)'
    <3>1. p = o /\ sameBucket
      BY <1>3, <2>1, <2>2, <2>5 DEF BackupCopied, BackupLacks, Recording, Listed, Archives
    <3>2. r2' = [r2 EXCEPT ![o] = Source(o)] /\ Source(o) # Nil
      BY <2>5, <3>1 DEF BackupCopied, PutBackup
    <3> QED
      BY <2>1, <2>2, <3>2 DEF Copied
  <2>6. CASE DeleteRow \/ CleanRow
    BY <1>3, <2>1, <2>2, <2>3, <2>6 DEF DeleteRow, CleanRow, DropRow, Archives
  <2>7. ~StorageCrash /\ ~BackupRefused /\ ~BackupDiscard /\ ~BackupFinish
    BY <1>3 DEF StorageCrash, BackupRefused, BackupDiscard, BackupFinish, NoArchive
  <2>8. ~BackupPick /\ ~BackupCheck /\ ~BackupList /\ ~BackupRecord
    <3>1. BackupPick => archive'.pc = "check"
      BY DEF BackupPick, NoArchive
    <3>2. BackupList => archive'.pc = "next"
      BY <2>2 DEF BackupList, Archives
    <3> QED
      BY <1>3, <2>2, <3>1, <3>2 DEF BackupCheck, BackupRecord, NoArchive, Archives
  <2>9. ASSUME NEW p \in Objects
        PROVE  ~BackupMissing(p) /\ ~BackupMismatch(p)
    BY <1>3, <2>2 DEF BackupMissing, BackupMismatch, BackupLacks, Archives
  <2> QED
    BY <1>3, <2>1, <2>3, <2>4, <2>5, <2>6, <2>7, <2>8, <2>9, ArchiveChanges
       DEF ArchiveStep, BackupStep
<1>4. ASSUME upload'.pc = "row"
      PROVE  (Holds(upload.at, upload.cur) # Nil \/ upload.cur \in Lost)'
  <2>1. PICK o \in Objects, at \in Providers : o = upload'.cur /\ at = upload'.at
    BY <1>1, <1>4 DEF TypesInv, CallsSound
  <2>2. CASE upload' = upload
    <3>1. Holds(at, o) # Nil \/ o \in Lost
      BY <1>4, <2>1, <2>2 DEF RowsInv, CopyInHand
    <3>2. Holds(at, o)' # Nil \/ o \in Lost'
      BY <3>1, CopiedStays
    <3> QED
      BY <2>1, <3>2 DEF Holds
  <2>3. ASSUME NEW p \in Objects, UploadPut(p)
        PROVE  (Holds(upload.at, upload.cur) # Nil)'
    <3>1. p = o /\ at = active
      BY <2>1, <2>3 DEF UploadPut, NoCall
    <3>2. Holds(at, o)' = "good"
      BY <2>3, <3>1 DEF UploadPut, Holds, TypesInv, StorageTyped, StoresTyped, Providers
    <3> QED
      BY <2>1, <3>2, StorageAssumption DEF Holds, Content
  <2>4. ~UploadRow /\ ~UploadLink /\ ~StorageCrash
    BY <1>4 DEF UploadRow, UploadLink, StorageCrash, NoCall, TypesInv, StorageTyped,
       CallsTyped, Calls
  <2> QED
    BY <2>2, <2>3, <2>4, CallsChange
<1> QED
  BY <1>2, <1>3, <1>4 DEF CopyInHand

LEMMA RowsHold ==
  ASSUME TypesInv, RowsInv, [StorageNext]_storageVars
  PROVE  RowsInv'
<1>1. CASE StorageNext
  BY <1>1, RowsStep, HandsStep DEF RowsInv
<1>2. CASE UNCHANGED storageVars
  BY <1>2 DEF RowsInv, RowTruthful, CopyInHand, Copied, Holds, Lost, storageVars, stores, tables,
     fixed, marks, calls
<1> QED
  BY <1>1, <1>2

-----------------------------------------------------------------------------
(* A finished backup lists what its bucket holds. *)

\* Only a backup that discards its copy takes one out of a bucket of its own.
LEMMA VaultStays ==
  ASSUME TypesInv, StorageNext, NEW o \in Objects, vault[o] # Nil
  PROVE  vault'[o] # Nil \/ (BackupDiscard /\ o = archive.cur /\ ~sameBucket)
<1> USE DEF stores, OnlyBatch, OnlyBatchButCounts, TypesInv, StorageTyped, StoresTyped
<1>1. CASE \E w \in Runners : BatchPick(w) \/ BatchStep(w) \/ BatchFault(w)
  BY <1>1 DEF BatchPick, BatchStep, BatchFault, BatchMark, BatchSelect, ItemTake, ItemRecord,
     ItemCopied, ItemFailed, ItemVerify, BatchCount, BatchFinish, BatchRefused, ItemRefused,
     BatchMiscount, ErrorIgnored, BatchAbort
<1>2. CASE BackupStep \/ BackupRefused
  BY <1>2 DEF BackupStep, BackupRefused, BackupPick, BackupCheck, BackupList, BackupRecord,
     BackupDiscard, BackupFinish, BackupHas, BackupMissing, BackupCopied, BackupMismatch,
     PutBackup
<1>3. CASE JobRequest
  BY <1>3 DEF JobRequest, StartCheck, StartPlan, StartJob, StartItems, QueueCheck, QueueInsert,
     PauseStorageMigration, ResumeStorageMigration, RetryFailedStorageMigration
<1>4. CASE ObjectRequest \/ StorageCrash
  BY <1>4 DEF ObjectRequest, UploadRow, UploadLink, DeleteRow, DeleteLink, CleanSelect,
     CleanRow, ScanR2Objects, ReadStored, UploadPut, DeleteFile, CleanFile, Expire,
     SetActiveStorageProvider, StorageCrash
<1> QED
  BY <1>1, <1>2, <1>3, <1>4 DEF StorageNext

LEMMA KeptStays ==
  ASSUME TypesInv, StorageNext, NEW o \in Objects, Kept(o)
  PROVE  \/ Kept(o)'
         \/ BackupDiscard /\ o = archive.cur /\ ~sameBucket /\ archive.got = Nil
<1>1. CASE sameBucket
  BY <1>1, CopiesStay DEF Kept, Bucket, CopiesGrow
<1>2. CASE ~sameBucket
  <2>1. CASE BackupDiscard /\ o = archive.cur /\ archive.got # Nil
    BY <2>1 DEF BackupDiscard, Kept
  <2> QED
    BY <1>2, <2>1, VaultStays, CopiesStay DEF Kept, Bucket, CopiesGrow
<1> QED
  BY <1>1, <1>2

LEMMA ManifestsStep ==
  ASSUME TypesInv, ManifestsInv, StorageNext
  PROVE  ManifestsInv'
<1>1. /\ manifest \in [Backups -> SUBSET Objects] /\ archive \in Archives
      /\ TypesInv' /\ archive' \in Archives
  BY TypesStep DEF TypesInv, StorageTyped, BackupsTyped, ArchiveTyped
<1>2. ManifestKept'
  <2>1. ASSUME NEW b \in Backups, NEW o \in Objects, o \in manifest'[b]
        PROVE  Kept(o)'
    <3>1. CASE BackupFinish
      <4>1. Kept(o)
        BY <1>1, <2>1, <3>1 DEF BackupFinish, ManifestsInv, ManifestKept, Kept, Archives
      <4>2. ~BackupDiscard
        BY <3>1 DEF BackupFinish, BackupDiscard
      <4> QED
        BY <4>1, <4>2, KeptStays
    <3>2. CASE ~BackupFinish
      <4>1. o \in manifest[b] /\ Kept(o)
        BY <2>1, <3>2, ArchiveChanges DEF ManifestsInv, ManifestKept, Kept
      <4>2. CASE BackupDiscard /\ o = archive.cur /\ ~sameBucket /\ archive.got = Nil
        <5>1. o \in spoiled /\ archive.pc = "discard"
          BY <4>1, <4>2 DEF ManifestsInv, BackupDiscard
        <5> QED
          BY <5>1, CopiesStay DEF CopiesGrow, Kept
      <4> QED
        BY <4>1, <4>2, KeptStays
    <3> QED
      BY <3>1, <3>2
  <2> QED
    BY <2>1 DEF ManifestKept, Kept
<1>3. ASSUME NEW o \in Objects, o \in archive'.listed
      PROVE  Kept(o)'
  <2>1. CASE o \in archive.listed /\ ~BackupDiscard
    BY <2>1, KeptStays DEF ManifestsInv
  <2>2. ~BackupDiscard
    BY <1>3 DEF BackupDiscard, NoArchive
  <2>3. CASE o \notin archive.listed
    <3>1. ASSUME NEW p \in Objects, BackupHas(p)
          PROVE  Kept(o)'
      <4>1. p = o /\ Bucket[p] # Nil
        BY <1>1, <1>3, <2>3, <3>1 DEF BackupHas, Recording, Listed, Archives
      <4>2. Kept(o)
        BY <4>1 DEF Kept
      <4> QED
        BY <2>2, <4>2, KeptStays
    <3>2. ASSUME NEW p \in Objects, BackupCopied(p)
          PROVE  Kept(o)'
      <4>1. p = o /\ Source(p) # Nil /\ PutBackup(p, Source(p))
        BY <1>1, <1>3, <2>3, <3>2 DEF BackupCopied, Recording, Listed, Archives
      <4>2. sameBucket' = sameBucket
        BY CopiesStay DEF CopiesGrow
      <4> QED
        BY <4>1, <4>2 DEF PutBackup, Kept, Bucket, TypesInv, StorageTyped, StoresTyped
    <3>3. ~BackupPick /\ ~BackupRefused /\ ~BackupFinish /\ ~StorageCrash
      <4>1. BackupPick => archive'.listed = {}
        BY DEF BackupPick, NoArchive
      <4> QED
        BY <1>3, <4>1 DEF BackupRefused, BackupFinish, StorageCrash, NoArchive
    <3>4. ~BackupCheck /\ ~BackupList /\ ~BackupRecord
      <4>1. BackupList => archive'.listed = archive.listed
        BY <1>1 DEF BackupList, Archives
      <4> QED
        BY <1>1, <1>3, <2>3, <4>1 DEF BackupCheck, BackupRecord, NoArchive, Archives
    <3>5. ASSUME NEW p \in Objects
          PROVE  ~BackupMissing(p) /\ ~BackupMismatch(p)
      BY <1>1, <1>3, <2>3 DEF BackupMissing, BackupMismatch, BackupLacks, Archives
    <3>6. ~DeleteRow /\ ~CleanRow
      BY <1>1, <1>3, <2>3 DEF DeleteRow, CleanRow, DropRow, Archives
    <3> QED
      BY <1>3, <2>2, <2>3, <3>1, <3>2, <3>3, <3>4, <3>5, <3>6, ArchiveChanges
         DEF ArchiveStep, BackupStep
  <2> QED
    BY <2>1, <2>2, <2>3
<1>4. ASSUME archive'.pc = "discard", archive'.got = Nil, ~sameBucket',
             NEW b \in Backups, archive'.cur \in manifest'[b]
      PROVE  archive'.cur \in spoiled'
  <2>0. sameBucket' = sameBucket /\ spoiled \subseteq spoiled'
    BY CopiesStay DEF CopiesGrow
  <2>1. ~BackupFinish
    BY <1>4 DEF BackupFinish, NoArchive
  <2>2. archive'.cur \in manifest[b]
    BY <1>4, <2>1, ArchiveChanges
  <2>3. CASE archive'.pc = archive.pc /\ archive'.cur = archive.cur /\ archive'.got = archive.got
    BY <1>4, <2>0, <2>2, <2>3 DEF ManifestsInv
  <2>4. ASSUME NEW p \in Objects, BackupMismatch(p)
        PROVE  archive'.cur \in spoiled'
    <3>1. archive'.cur = p /\ vault[p] = Nil
      BY <1>1, <1>4, <2>0, <2>4 DEF BackupMismatch, BackupLacks, Bucket, Archives
    <3>2. p \in spoiled
      BY <1>4, <2>0, <2>2, <3>1 DEF ManifestsInv, ManifestKept, Bucket
    <3> QED
      BY <2>0, <3>1, <3>2
  <2>5. ~BackupRefused /\ ~BackupDiscard /\ ~StorageCrash
    BY <1>4 DEF BackupRefused, BackupDiscard, StorageCrash, NoArchive
  <2>6. ~BackupPick /\ ~BackupCheck /\ ~BackupList /\ ~BackupRecord
    <3>1. BackupPick => archive'.pc = "check"
      BY DEF BackupPick, NoArchive
    <3>2. BackupList => archive'.pc = "next"
      BY <1>1 DEF BackupList, Archives
    <3> QED
      BY <1>1, <1>4, <3>1, <3>2 DEF BackupCheck, BackupRecord, NoArchive, Archives
  <2>7. ASSUME NEW p \in Objects
        PROVE  ~BackupHas(p) /\ ~BackupMissing(p) /\ ~BackupCopied(p)
    BY <1>1, <1>4 DEF BackupHas, BackupMissing, BackupCopied, BackupLacks, Recording, Listed,
       Archives
  <2>8. CASE DeleteRow \/ CleanRow
    BY <1>1, <2>3, <2>8 DEF DeleteRow, CleanRow, DropRow, Archives
  <2> QED
    BY <2>1, <2>3, <2>4, <2>5, <2>6, <2>7, <2>8, ArchiveChanges DEF ArchiveStep, BackupStep
<1>5. archive'.listed \subseteq Objects
  BY <1>1 DEF Archives
<1> QED
  BY <1>2, <1>3, <1>4, <1>5 DEF ManifestsInv

LEMMA ManifestsHold ==
  ASSUME TypesInv, ManifestsInv, [StorageNext]_storageVars
  PROVE  ManifestsInv'
<1>1. CASE StorageNext
  BY <1>1, ManifestsStep
<1>2. CASE UNCHANGED storageVars
  BY <1>2 DEF ManifestsInv, ManifestKept, Kept, Bucket, storageVars, stores, tables, fixed, marks
<1> QED
  BY <1>1, <1>2

-----------------------------------------------------------------------------
(* A verified job left nothing behind. *)

\* Who makes an item verified.
LEMMA ItemsVerified ==
  ASSUME TypesInv, StorageNext, NEW j \in Jobs, NEW o \in Objects,
         item'[j][o] = "verified", item[j][o] # "verified"
  PROVE  \/ StartItems
         \/ \E w \in Runners : batch[w].pc = "verify" /\ batch[w].cur = o
<1>1. item \in [Jobs -> [Objects -> ItemStatuses \cup {Nil}]]
  BY DEF TypesInv, StorageTyped, JobsTyped
<1> USE DEF tables, OnlyArchive, OnlyRequest
<1>2. ASSUME NEW w \in Runners, BatchPick(w) \/ BatchStep(w) \/ BatchFault(w)
      PROVE  batch[w].pc = "verify" /\ batch[w].cur = o
  <2>1. CASE ItemVerify(w)
    <3>1. SetItem(w, "verified") /\ batch[w].pc = "verify"
      BY <2>1 DEF ItemVerify
    <3> QED
      BY <3>1, ItemTypes DEF ItemStatuses
  <2>2. ~ItemFailed(w) /\ ~ItemRefused(w)
    <3>1. ItemFailed(w) \/ ItemRefused(w) => SetItem(w, "failed") /\ batch[w].pc = "copy"
      BY DEF ItemFailed, ItemRefused
    <3> QED
      BY <3>1, ItemTypes DEF ItemStatuses
  <2>3. ~ItemTake(w)
    <3>1. ASSUME ItemTake(w)
          PROVE  \E i \in Jobs, p \in Objects :
                   item' = item \/ item' = [item EXCEPT ![i][p] = "copying"]
      BY <3>1, ObjectToTake DEF ItemTake
    <3> QED
      BY <1>1, <3>1
  <2> QED
    BY <1>2, <2>1, <2>2, <2>3 DEF BatchPick, BatchStep, BatchFault, BatchMark, BatchSelect,
       ItemRecord, ItemCopied, BatchCount, BatchFinish, BatchRefused, BatchMiscount,
       ErrorIgnored, BatchAbort
<1>3. CASE BackupStep \/ BackupRefused
  BY <1>3 DEF BackupStep, BackupRefused, BackupPick, BackupCheck, BackupList, BackupRecord,
     BackupDiscard, BackupFinish, BackupHas, BackupMissing, BackupCopied, BackupMismatch
<1>4. CASE JobRequest
  <2>1. ASSUME NEW i \in Jobs
        PROVE  ~RetryFailedStorageMigration(i)
    BY <1>1 DEF RetryFailedStorageMigration
  <2> QED
    BY <1>4, <2>1 DEF JobRequest, StartCheck, StartPlan, StartJob, QueueCheck, QueueInsert,
       PauseStorageMigration, ResumeStorageMigration
<1>5. CASE ObjectRequest \/ StorageCrash
  BY <1>5 DEF ObjectRequest, UploadRow, UploadLink, DeleteRow, DeleteLink, CleanSelect,
     CleanRow, ScanR2Objects, ReadStored, UploadPut, DeleteFile, CleanFile, Expire,
     SetActiveStorageProvider, StorageCrash
<1> QED
  BY <1>2, <1>3, <1>4, <1>5 DEF StorageNext

\* Who makes a job verified.
LEMMA JobsVerified ==
  ASSUME TypesInv, StorageNext, NEW j \in Jobs, job'[j] # Nil, job'[j].status = "verified",
         ~job'[j].dry
  PROVE  \/ job'[j] = job[j]
         \/ \E w \in Runners : /\ BatchFinish(w) /\ batch[w].job = j
                               /\ ~batch[w].pending /\ ~batch[w].failed
<1>1. job \in [Jobs -> JobRows \cup {Nil}]
  BY DEF TypesInv, StorageTyped, JobsTyped
<1> USE DEF tables, OnlyArchive, OnlyRequest
<1>2. ASSUME NEW w \in Runners, BatchPick(w) \/ BatchStep(w) \/ BatchFault(w)
      PROVE  \/ job'[j] = job[j]
             \/ BatchFinish(w) /\ batch[w].job = j /\ ~batch[w].pending /\ ~batch[w].failed
  <2>1. batch[w].pc # "idle" => batch[w].job \in Jobs /\ job[batch[w].job] # Nil
    BY DEF TypesInv, BatchSound, SoundBatch
  <2>2. CASE BatchMark(w)
    <3>1. SetStatus(batch[w].job, "running") /\ batch[w].pc = "mark"
      BY <2>2 DEF BatchMark
    <3> QED
      BY <2>1, <3>1, StatusTypes
  <2>3. CASE BatchRefused(w)
    <3>1. SetStatus(batch[w].job, "failed") /\ batch[w].pc = "select"
      BY <2>3 DEF BatchRefused
    <3> QED
      BY <2>1, <3>1, StatusTypes
  <2>4. CASE BatchFinish(w)
    <3>1. batch[w].pc = "finish"
      BY <2>4 DEF BatchFinish
    <3>2. CASE batch[w].pending
      BY <2>4, <3>2 DEF BatchFinish
    <3>3. CASE ~batch[w].pending
      <4>1. SetStatus(batch[w].job, IF batch[w].failed THEN "failed" ELSE "verified")
        BY <2>4, <3>3 DEF BatchFinish
      <4> QED
        BY <2>1, <2>4, <3>1, <3>3, <4>1, StatusTypes
    <3> QED
      BY <3>2, <3>3
  <2> QED
    BY <1>2, <2>2, <2>3, <2>4 DEF BatchPick, BatchStep, BatchFault, BatchSelect, ItemTake,
       ItemRecord, ItemCopied, ItemFailed, ItemVerify, BatchCount, ItemRefused, BatchMiscount,
       ErrorIgnored, BatchAbort
<1>3. CASE BackupStep \/ BackupRefused
  BY <1>3 DEF BackupStep, BackupRefused, BackupPick, BackupCheck, BackupList, BackupRecord,
     BackupDiscard, BackupFinish, BackupHas, BackupMissing, BackupCopied, BackupMismatch
<1>4. CASE JobRequest
  <2>1. ASSUME NEW i \in Jobs,
               \/ PauseStorageMigration(i) \/ ResumeStorageMigration(i)
               \/ RetryFailedStorageMigration(i)
        PROVE  job'[j] = job[j]
    <3>1. job[i] # Nil /\ (SetStatus(i, "paused") \/ SetStatus(i, "queued"))
      BY <2>1 DEF PauseStorageMigration, ResumeStorageMigration, RetryFailedStorageMigration,
         JobActive
    <3> QED
      BY <3>1, StatusTypes
  <2>2. CASE StartJob
    <3>1. PICK i \in Jobs :
            job' = [job EXCEPT ![i] = [status |-> IF start.dry THEN "verified" ELSE "queued",
                                       dry |-> start.dry]]
      BY <2>2, JobToStart DEF StartJob
    <3>2. start.dry \in BOOLEAN
      BY DEF TypesInv, StorageTyped, CallsTyped, Calls
    <3> QED
      BY <1>1, <3>1, <3>2
  <2> QED
    BY <1>4, <2>1, <2>2 DEF JobRequest, StartCheck, StartPlan, StartItems, QueueCheck, QueueInsert
<1>5. CASE ObjectRequest \/ StorageCrash
  BY <1>5 DEF ObjectRequest, UploadRow, UploadLink, DeleteRow, DeleteLink, CleanSelect,
     CleanRow, ScanR2Objects, ReadStored, UploadPut, DeleteFile, CleanFile, Expire,
     SetActiveStorageProvider, StorageCrash
<1> QED
  BY <1>2, <1>3, <1>4, <1>5 DEF StorageNext

\* A job is uncounted until it is tried again.
LEMMA UncountedStays ==
  ASSUME StorageNext, NEW j \in Jobs, j \in uncounted, j \notin uncounted'
  PROVE  RetryFailedStorageMigration(j) /\ ~Ending(j)
<1> USE DEF tables, OnlyBatch, OnlyArchive, OnlyRequest
<1>1. CASE \E w \in Runners : BatchPick(w) \/ BatchStep(w) \/ BatchFault(w)
  BY <1>1, MiscountMoves
  DEF BatchPick, BatchStep, BatchFault, BatchMark, BatchSelect, ItemTake, ItemRecord,
      ItemCopied, ItemFailed, ItemVerify, BatchCount, BatchFinish, BatchRefused, ItemRefused,
      ErrorIgnored, BatchAbort
<1>2. CASE BackupStep \/ BackupRefused
  BY <1>2 DEF BackupStep, BackupRefused, BackupPick, BackupCheck, BackupList, BackupRecord,
     BackupDiscard, BackupFinish, BackupHas, BackupMissing, BackupCopied, BackupMismatch
<1>3. CASE JobRequest
  BY <1>3 DEF JobRequest, StartCheck, StartPlan, StartJob, StartItems, QueueCheck, QueueInsert,
     PauseStorageMigration, ResumeStorageMigration, RetryFailedStorageMigration
<1>4. CASE ObjectRequest \/ StorageCrash
  BY <1>4 DEF ObjectRequest, UploadRow, UploadLink, DeleteRow, DeleteLink, CleanSelect,
     CleanRow, ScanR2Objects, ReadStored, UploadPut, DeleteFile, CleanFile, Expire,
     SetActiveStorageProvider, StorageCrash
<1> QED
  BY <1>1, <1>2, <1>3, <1>4 DEF StorageNext

\* A batch that has counted does so now or has before.
LEMMA FinishSeen ==
  ASSUME TypesInv, StorageNext, NEW w \in Runners, batch'[w].pc = "finish"
  PROVE  batch'[w] = batch[w] \/ BatchCount(w) \/ BatchMiscount(w)
<1>1. batch \in [Runners -> Batches]
  BY DEF TypesInv, StorageTyped, BatchTyped
<1>2. ~StorageCrash
  BY DEF StorageCrash, NoBatch
<1>3. ASSUME NEW v \in Runners, BatchPick(v) \/ BatchStep(v) \/ BatchFault(v)
      PROVE  batch'[w] = batch[w] \/ BatchCount(w) \/ BatchMiscount(w)
  <2>1. CASE v # w
    BY <1>1, <1>3, <2>1, BatchMoves
  <2>2. CASE v = w
    <3>1. ~BatchFinish(w) /\ ~BatchRefused(w) /\ ~BatchAbort(w)
      BY <1>1 DEF BatchFinish, BatchRefused, BatchAbort, NoBatch
    <3>2. ~BatchPick(w)
      <4>1. BatchPick(w) =>
              batch' = [batch EXCEPT ![w] = [NoBatch EXCEPT !.pc = "mark", !.job = batch'[w].job]]
        BY JobToPick
      <4> QED
        BY <1>1, <4>1 DEF NoBatch
    <3>3. ~BatchMark(w) /\ ~ItemRecord(w) /\ ~ItemCopied(w)
      BY <1>1 DEF BatchMark, ItemRecord, ItemCopied, Goto, Batches
    <3>4. ~ItemFailed(w) /\ ~ItemRefused(w) /\ ~ItemVerify(w)
      BY <1>1 DEF ItemFailed, ItemRefused, ItemVerify, Goto, Batches
    <3>5. ~BatchSelect(w)
      BY <1>1 DEF BatchSelect, Batches
    <3>6. ~ItemTake(w)
      BY <1>1 DEF ItemTake, Batches
    <3>7. ~ErrorIgnored(w)
      <4>1. ASSUME ErrorIgnored(w)
            PROVE  batch'[w].pc \in {"select", "next", "verify"}
        <5>1. PICK pc \in {"select", "next", "verify"}, todo \in SUBSET batch[w].todo :
                batch' = [batch EXCEPT ![w] = [batch[w] EXCEPT !.pc = pc, !.todo = todo]]
          BY <4>1, IgnoredMoves
        <5> QED
          BY <1>1, <5>1 DEF Batches
      <4> QED
        BY <4>1
    <3> QED
      BY <1>3, <2>2, <3>1, <3>2, <3>3, <3>4, <3>5, <3>6, <3>7 DEF BatchStep, BatchFault
  <2> QED
    BY <2>1, <2>2
<1> QED
  BY <1>2, <1>3, BatchesChange

\* While nothing makes the job uncounted, its objects stay copied.
LEMMA AllCopiedStays ==
  ASSUME TypesInv, StorageNext, NEW j \in Jobs, Real(j), AllCopied(j), j \notin uncounted',
         Ending(j) \/ job[j].status = "verified"
  PROVE  AllCopied(j)'
<1> SUFFICES ASSUME NEW o \in Objects, item'[j][o] # Nil
             PROVE  Copied(o)'
  BY DEF AllCopied
<1>1. item[j][o] # Nil
  <2>1. CASE StartItems
    <3>1. start.job # j
      BY <2>1 DEF StartItems, TypesInv, CallsSound, Real
    <3> QED
      BY <2>1, <3>1 DEF StartItems, TypesInv, StorageTyped, JobsTyped
  <2>2. CASE ~StartItems
    BY <2>2, JobsTypes DEF JobsStay
  <2> QED
    BY <2>1, <2>2
<1> QED
  BY <1>1, CopiedStays DEF AllCopied

LEMMA VerifiedStep ==
  ASSUME TypesInv, RowsInv, VerifiedInv, StorageNext
  PROVE  VerifiedInv'
<1>1. /\ TypesInv' /\ item \in [Jobs -> [Objects -> ItemStatuses \cup {Nil}]]
      /\ batch \in [Runners -> Batches]
  BY TypesStep DEF TypesInv, StorageTyped, JobsTyped, BatchTyped
<1>2. ASSUME NEW j \in Jobs, NEW o \in Objects, Real(j)', item'[j][o] = "verified"
      PROVE  Copied(o)'
  <2>1. CASE StartItems
    <3>1. start.job # j
      <4>1. start.job = j => start.dry
        BY <1>1, <1>2, <2>1, StorageAssumption DEF StartItems, ItemStatuses
      <4> QED
        BY <1>2, <2>1, <4>1 DEF StartItems, TypesInv, CallsSound, Real
    <3>2. item'[j][o] = item[j][o] /\ job' = job
      BY <1>1, <2>1, <3>1 DEF StartItems
    <3> QED
      BY <1>2, <3>2, CopiedStays DEF VerifiedInv, Real
  <2>2. CASE item[j][o] = "verified"
    <3>1. Real(j)
      BY <1>2, <2>2, JobsTypes, StorageAssumption
         DEF Real, JobsStay, TypesInv, ItemsSound, ItemStatuses
    <3> QED
      BY <2>2, <3>1, CopiedStays DEF VerifiedInv
  <2>3. CASE ~StartItems /\ item[j][o] # "verified"
    <3>1. PICK w \in Runners : batch[w].pc = "verify" /\ batch[w].cur = o
      BY <1>2, <2>3, ItemsVerified
    <3>2. Copied(o)
      BY <3>1 DEF RowsInv, CopyInHand
    <3> QED
      BY <3>2, CopiedStays
  <2> QED
    BY <2>1, <2>2, <2>3
<1>3. ASSUME NEW w \in Runners, batch'[w].pc = "finish", ~batch'[w].pending, ~batch'[w].failed,
             batch'[w].job \notin uncounted', Real(batch[w].job)'
      PROVE  AllCopied(batch[w].job)'
  <2>1. PICK j \in Jobs : j = batch'[w].job
    BY <1>1, <1>3 DEF TypesInv, BatchSound, SoundBatch
  <2>2. CASE batch'[w] = batch[w]
    <3>1. Ending(j)
      BY <1>3, <2>1, <2>2 DEF Ending
    <3>2. j \notin uncounted
      BY <1>3, <2>1, <3>1, UncountedStays
    <3>3. Real(j)
      BY <1>1, <1>3, <2>1, <2>2, JobsTypes DEF Real, JobsStay, TypesInv, BatchSound, SoundBatch
    <3>4. AllCopied(j)
      BY <1>3, <2>1, <2>2, <3>2, <3>3 DEF VerifiedInv
    <3>5. AllCopied(j)'
      BY <1>3, <2>1, <3>1, <3>3, <3>4, AllCopiedStays
    <3> QED
      BY <2>1, <3>5 DEF AllCopied
  <2>3. CASE BatchCount(w)
    <3>1. PICK pending \in BOOLEAN, failed \in BOOLEAN :
            /\ batch' = [batch EXCEPT ![w] = [batch[w] EXCEPT !.pc = "finish",
                                                !.pending = pending, !.failed = failed]]
            /\ ~pending => \A o \in Objects : item[batch[w].job][o] \notin {"pending", "copying"}
            /\ ~failed => \A o \in Objects : item[batch[w].job][o] # "failed"
      BY <2>3, CountMoves
    <3>2. j = batch[w].job /\ ~pending /\ ~failed /\ item' = item /\ job' = job
      <4>1. item' = item /\ job' = job
        BY <2>3 DEF BatchCount
      <4> QED
        BY <1>1, <1>3, <2>1, <3>1, <4>1 DEF Batches
    <3>3. \A o \in Objects : item[j][o] \in {"verified", Nil}
      BY <1>1, <3>1, <3>2 DEF ItemStatuses
    <3>4. \A o \in Objects : item[j][o] # Nil => Copied(o)
      BY <1>3, <2>1, <3>2, <3>3 DEF VerifiedInv, Real
    <3>5. AllCopied(j)'
      BY <3>2, <3>4, CopiedStays DEF AllCopied
    <3> QED
      BY <2>1, <3>5 DEF AllCopied
  <2>4. ~BatchMiscount(w)
    <3>1. ASSUME BatchMiscount(w)
          PROVE  batch'[w].job \in uncounted'
      <4>1. PICK pending \in BOOLEAN, failed \in BOOLEAN :
              /\ batch' = [batch EXCEPT ![w] = [batch[w] EXCEPT !.pc = "finish",
                                                  !.pending = pending, !.failed = failed]]
              /\ ~pending => batch[w].job \in uncounted'
        BY <3>1, MiscountMoves
      <4> QED
        BY <1>1, <1>3, <4>1 DEF Batches
    <3> QED
      BY <1>3, <3>1
  <2> QED
    BY <1>3, <2>2, <2>3, <2>4, FinishSeen
<1>4. ASSUME NEW j \in Jobs, j \notin uncounted', job'[j] # Nil, job'[j].status = "verified",
             ~job'[j].dry
      PROVE  AllCopied(j)'
  <2>1. CASE job'[j] = job[j]
    <3>1. j \notin uncounted
      <4>1. RetryFailedStorageMigration(j) => job[j].status = "failed"
        BY DEF RetryFailedStorageMigration
      <4> QED
        BY <1>4, <2>1, <4>1, UncountedStays
    <3>2. Real(j) /\ AllCopied(j)
      BY <1>4, <2>1, <3>1 DEF VerifiedInv, VerifiedJobCopied, Real, AllCopied
    <3> QED
      BY <1>4, <2>1, <3>2, AllCopiedStays
  <2>2. ASSUME NEW w \in Runners, BatchFinish(w), batch[w].job = j, ~batch[w].pending,
               ~batch[w].failed
        PROVE  AllCopied(j)'
    <3>1. batch[w].pc = "finish" /\ uncounted' = uncounted
      BY <2>2 DEF BatchFinish, OnlyBatch, OnlyBatchButCounts
    <3>2. job[j] # Nil
      BY <2>2, <3>1 DEF TypesInv, BatchSound, SoundBatch
    <3>3. Real(j)
      BY <1>4, <3>2, JobsTypes DEF Real, JobsStay
    <3>4. AllCopied(j)
      BY <1>4, <2>2, <3>1, <3>3 DEF VerifiedInv
    <3>5. Ending(j)
      BY <2>2, <3>1 DEF Ending
    <3> QED
      BY <1>4, <3>3, <3>4, <3>5, AllCopiedStays
  <2> QED
    BY <1>4, <2>1, <2>2, JobsVerified
<1>5. VerifiedJobCopied'
  BY <1>4 DEF VerifiedJobCopied, AllCopied
<1> QED
  BY <1>2, <1>3, <1>5 DEF VerifiedInv

LEMMA VerifiedHold ==
  ASSUME TypesInv, RowsInv, VerifiedInv, [StorageNext]_storageVars
  PROVE  VerifiedInv'
<1>1. CASE StorageNext
  BY <1>1, VerifiedStep
<1>2. CASE UNCHANGED storageVars
  BY <1>2 DEF VerifiedInv, VerifiedJobCopied, AllCopied, Real, Copied, Lost, storageVars, stores,
     tables, fixed, marks
<1> QED
  BY <1>1, <1>2

-----------------------------------------------------------------------------
(* Theorems. *)

LEMMA StorageInvInit ==
  ASSUME StorageInit
  PROVE  StorageInv
<1>1. VerifiedInv
  <2>1. \A j \in Jobs, o \in Objects : item[j][o] # "verified"
    BY StorageAssumption DEF StorageInit, ItemStatuses
  <2>2. \A j \in Jobs : job[j] # Nil => job[j].status = "queued"
    BY DEF StorageInit
  <2>3. \A w \in Runners : batch[w].pc = "idle"
    BY DEF StorageInit, NoBatch
  <2> QED
    BY <2>1, <2>2, <2>3 DEF VerifiedInv, VerifiedJobCopied
<1>2. ManifestsInv
  BY DEF StorageInit, ManifestsInv, ManifestKept, NoArchive
<1> QED
  BY <1>1, <1>2, TypesInit, RowsInit DEF StorageInv

\* What a batch, a backup or an upload has in hand is where it will say, and what is counted,
\* verified or listed is there: in every state, whatever runs at once and stops where
\* (storage_migration.go:550-622, 669-811, storage.go:523-580).
THEOREM StorageInvariant == StorageSpec => []StorageInv
<1>1. StorageInv /\ [StorageNext]_storageVars => StorageInv'
  BY TypesStep, RowsHold, VerifiedHold, ManifestsHold DEF StorageInv
<1> QED
  BY <1>1, StorageInvInit, PTL DEF StorageSpec

\* The provider a row names holds the object, unless it was deleted or discarded.
THEOREM RowsAreTruthful == StorageSpec => []RowTruthful
<1>1. StorageInv => RowTruthful
  BY DEF StorageInv, RowsInv
<1> QED
  BY <1>1, StorageInvariant, PTL

\* A verified job left nothing behind, but what was inserted after its count or missed by
\* a count that failed.
THEOREM VerifiedJobsAreCopied == StorageSpec => []VerifiedJobCopied
<1>1. StorageInv => VerifiedJobCopied
  BY DEF StorageInv, VerifiedInv
<1> QED
  BY <1>1, StorageInvariant, PTL

\* A finished backup lists what its bucket holds, but for deletions and overlooked copies.
THEOREM ManifestsAreKept == StorageSpec => []ManifestKept
<1>1. StorageInv => ManifestKept
  BY DEF StorageInv, ManifestsInv
<1> QED
  BY <1>1, StorageInvariant, PTL
===============================================================================

# Verification of the Prometheus Academy backend

The backend (Go, gin, gorm, MySQL/InnoDB) sells courses and products, books
consultations, teaches, lets students ask, places talents with companies, prints
invoices and certificates, and sends mail. Every
rule of it is kept by statements on one database that many request handlers,
several background workers, a payment gateway and a crash may interleave. This
directory holds TLA+ models of the parts where that matters, the TLC runs that
check them on small instances, and machine-checked proofs for every value of the
constants.

| file | contents |
|---|---|
| `Checkout.tla` | orders, payments, coupons, invoices and what an order grants |
| `Entitlement.tla` | the abstract promise that `Checkout` implements |
| `Consultation.tla` | consultation slots and bookings under InnoDB's locks and snapshots |
| `Agenda.tla` | the abstract promise that `Consultation` implements: one operation at a time |
| `StorageJobs.tla` | stored objects, their migration, backups and clean-up |
| `CourseContent.tla` | a course and its rows, as instructors and admins edit them |
| `Learning.tla` | learners in that course: unlocking, quizzes, completion, certificate, XP; extends `CourseContent` |
| `Sessions.tla` | accounts, sessions, one-time codes, resets, roles |
| `Hiring.tla` | inquiries, jobs, applications, decisions, invitations to review |
| `Outreach.tla` | campaigns and automated messages with their workers |
| `Rewards.tla` | XP and badges as requests award them |
| `Discussion.tla` | the conversations of a course with their awards and notifications; extends `Rewards` |
| `Documents.tla` | document templates, their versions, and which one a document is printed with |
| `*Proofs.tla` | theorems about `Checkout`, `Consultation`, `Sessions`, `Hiring`, `Documents`, `Learning` with `CourseContent`, `Discussion`, and in `WorkersProofs` about `Outreach` and `StorageJobs`, checked by TLAPS |
| `MC*.tla`, `MC*.cfg` | the instances for TLC; `MCPortal` holds `Sessions` and `Hiring`, `MCOffice` `Documents` and `Outreach`, `MCWorkers` the liveness of `Checkout` and all of `StorageJobs` |
| `PROJECT.json` | components, runs, faulty variants, source map, findings, hazards, theorems |

Run `tlc -config MCPortal.cfg MCPortal` (and likewise the others) and
`tlapm SessionsProofs.tla` (and likewise the others).

Some runs hold two instances. Their module then has a variable `focus`, chosen in
the initial state and kept: a behaviour is one of the first instance or one of the
second, and the properties are checked on both. That joins instances, it does not
interleave them; where two parts share rows, their modules extend one another
instead. Types are not checked by the runs: every inductive invariant below
contains them, and the `TypeCorrect` theorems and their like state them.

## 1. Inventory

State is what the database holds, unless said otherwise.

**Checkout** (`services/commerce.go`, `controllers/public/{payments,products}.go`,
`controllers/dashboard/{orders,courses}.go`, `controllers/admin/{products,cms}.go`).
State: `orders` (status, payment token and its expiry), `order_items`,
`transactions`, `coupons` (with the counter `used_count`), `coupon_usages`,
`invoices`, `course_enrollments`, `xp_ledger`.
Operations: buy a course or a product, cancel, pay (get a token from the
gateway), query the gateway, take its notification, sweep expired orders, load
an invoice, reconcile the coupon counters, edit coupons.
Interactions: the gateway (Midtrans) is called and calls back; the sweep runs
from `main()`'s ticker and from some handlers; a successful order enrolls the
buyer and allows a consultation to be booked.
Hard: notifications late, repeated, reordered; handlers that read, wait for the
gateway and then write; updates by id alone; two statements without a
transaction; a crash within the reconciliation.
Correct when: what is paid is granted and stays granted; nothing is granted
unearned; only the gateway decides that an order is paid; the counter is exact.

**Consultation** (`services/consultation.go` and its three controllers).
State: `consultation_slots`, `consultation_bookings`, and the order's status.
Operations: book, move, cancel (customer); set a booking's status (provider);
create, edit, delete a slot.
Hard: every operation is a transaction that takes several row locks and also
makes plain reads, which under REPEATABLE READ may show an older state than the
locks protect.
Correct when: no slot is overfilled, no provider is booked twice at a time, one
booking per order, the limit on moves holds, closed bookings stay closed, no
booking is without its slot.

**Storage** (`services/storage.go`, `storage_migration.go`, `cmd/worker`,
`cmd/dbbackup`). State: `stored_objects`, migration jobs and their items,
backups, the files and the bucket. Operations: upload, read, delete; start,
pause, resume and retry a migration; queue a backup; inventory; clean-up of
expired PDFs. Two workers with tickers and an admin's request run the same
batches. Hard: a worker stops in the middle of an item; a row disappears under a
job; backup and migration exclude each other by check and insert; the row, the
file and the bucket are three systems. Correct when: a row names a provider that
holds its object, a verified job copied everything, a manifest lists what is
there, and every job and backup ends.

**Accounts** (`services/auth.go`, `middlewares/auth.go`, `controllers/auth`).
State: users with password, version and roles, tokens signed so far, the
blacklist, one-time codes with attempts, reset links. Operations: register, log
in, enter a code, refresh, log out, reset, save the profile, change roles,
invite. Hard: each thing is looked at and then spent in separate statements;
whole rows read earlier are written back. Correct when: a refresh token, a code
and a link open one thing; wrong tries are bounded; a reset ends every earlier
session; a verified address stays verified; an administrator remains.

**Course content** (`controllers/instructor`, `controllers/admin/courses.go`,
`cms.go`). State: a course and nine kinds of rows that hang on it without foreign
keys. Operations: create, update, delete, reorder each; set drip days; publish.
Hard: an instructor's look at the owner and his write are two statements. Correct
when: publishing stays the admins' and a course keeps its owner.

**Learning** (`services/learning.go`, `certificates.go`,
`controllers/dashboard/courses.go`). State: progress, quiz submissions,
assignments, `completed_at`, certificates, reviews, the XP ledger. Operations:
enroll, complete a topic, submit and review quizzes and assignments, review a
course. Hard: no handler is in a transaction and all may be cut off; the course
changes meanwhile; attempts and certificates are counted and then inserted.
Correct when: items unlock in order, attempts are bounded, a certificate was
earned, completion follows from finishing, XP agrees with what it is for.

**Talent pool** (`controllers/{public,admin}/talent.go`, `talent_reviews.go`).
State: inquiries, jobs, applications, invitations, reviews. Operations: ask,
approve, draft or create the job, apply, propose, decide, place, invite, review.
Hard: some transactions lock rows in different orders, some handlers save rows
read earlier. Correct when: hires fit the positions, an inquiry has one job, a
person applies once and reviews once.

**Campaigns and automation** (`services/email_campaigns.go`, `automation.go`).
State: campaigns and runs with a status, suppressions. Operations: queue,
schedule, announce, send, suppress, release. Hard: a mail goes before its mark is
written; a queue is read a batch at a time. Correct when: nobody gets a campaign
twice, counts are true, suppressed addresses are left alone, campaigns and runs
end.

**Conversations and rewards** (`services/communication.go`, `gamification.go`).
State: conversations with two counters of unread messages, messages,
notifications, the XP ledger, badges, attendances. Operations: ask, reply, read,
change the status, mark notifications read, assign a teacher; attend, download.
Hard: a request is authorized by reads that come before its transaction; a reader
clears a counter and then reads; an award is three statements, outside a
transaction or on a snapshot inside one. Correct when: a message that was not
read is counted, a message is posted with all that belongs to it or not at all,
badges agree with the ledger.

**Document studio** (`services/document_studio.go`, `controllers/admin/document_studio.go`,
and its callers in `certificates.go`, `commerce.go` and `main.go`). State:
templates, their versions, the settings that choose one, and the version each
invoice and certificate names. Operations: create, save and publish a template,
choose one, select a version to issue or print with, make sure of the defaults.
Hard: selecting creates and upgrades templates, statement by statement, in the
middle of another request and at every start. Correct when: there is always a
default to print with, a document names a version of its own type, an invoice
does not change.

**Uploads' checks, public pages, most settings, middleware, configuration**:
single-row changes, presentation or I/O; `PROJECT.json` says of each why it is not
modelled or how far it is.

The hazards each part is exposed to are listed in `PROJECT.json`, each with its
line and the properties that would catch it.

## 2. Plan

1. `Checkout`, `Entitlement`, their runs and `CheckoutProofs`: done, all their
   safety properties are proved.
2. `Consultation`, `Agenda`, their runs and `ConsultationProofs`: done. All its
   safety properties are proved and that it implements `Agenda`, the two that the code violates under the one
   assumption that the code misses, which isolates the cause of each.
3. `StorageJobs`, `Sessions`, `Hiring`, `Outreach`, `Documents`, `Learning` with
   `CourseContent`: modelled, model-checked, and all their safety properties proved.
4. `Rewards` with `Discussion`: modelled, model-checked, and all their safety
   properties proved.

The components meet in few rows. `Checkout` and `Consultation` meet in an order's
status, which `Consultation` lets change at any time that its lock allows
(`OrderChanges`): that is what `Checkout` may do to it. `Learning` extends
`CourseContent`, so that every edit interleaves with every learner's request;
its `CreateCourseEnrollment` is what `Checkout` does in full. `Sessions` has the
accounts that forms of `Hiring` create. `Discussion` extends `Rewards`: the award
of a message is a part of its transaction, the others are requests of their own.
`Documents` takes the moments at which `Checkout` makes an invoice and `Learning`
a certificate as requests that may come at any time.

## 3. Checkout

Each row of the table `orders` is a record of `orders`, with its one
`order_items` row; the other tables are sets, for their rows are unique in what
is kept of them. A handler is a process of `req` that keeps what it has read; a
statement, or a transaction whose first statement locks the order's row, is one
step. So `StartCancel`/`CancelWrite`, `StartPay`/`PayRead`/`PayExpire`/
`CreateSnapToken`/`SaveToken`, `StartSync`/`AskGateway`/`SyncApply` and
`StartPurchase`/`PendingOrderForItem`/`CreateOrder` (or `EnrollFree`/
`AwardFreeXP`) are the handlers of the code cut where others can come between,
and `GiveUp` ends any of them anywhere. `HandleMidtransWebhook` is one
transaction. `ApplyStatus` is shared by it and the status query, as the same
statements are in the code, with `FulfillSuccessfulOrder` and `EnsureInvoice`.
`ReconcileCouponUsageCounts` is four steps, run by `Boot` before the server is
`up` and by an admin's `ListCoupons` at any time after. `Crash` stops every
handler and starts again from `Boot`.

Abstracted: an order's window is "null", "open" or "past"; a row has a token
exactly when its window is not "null", since one update writes both. Prices are
constants. An admin's edit of a coupon changes what is shared with other code,
its existence and `used_count`; the discount is constant and the coupon's own
expiry date is a refusal without effect. A statement that fails ends its handler (`GiveUp`).
The gateway moves along `GatewayMoves` and may notify any status it has reached,
any number of times. Code without a gateway key (`GatewayConfigured = FALSE`)
makes every order successful at once; the proofs cover it.

`Entitlement` states the promise without handlers: an order is paid only when it
has been earned, it is honoured in the step that makes it paid, an access given
is never taken back, and priced access comes from an order. The mapping takes
`honoured` to the invoices, `access` to the enrollments and `earned` to what the
gateway has reported or what costs nothing.

| run | instance | properties | shows |
|---|---|---|---|
| `MCCheckoutSales`, payment | 1 order, 2 handlers, every gateway status | `StatusIsReported`, `ImplementsEntitlement`, `GrantsAreBacked` | no handler completes, fails or reopens an order on stale knowledge; refinement |
| `MCCheckoutSales`, coupon | 2 orders sharing a coupon, 1 handler, 1 admin, capture and cancel, budget 2 | `PaidIsFulfilled`, `CounterExact` | grants survive downgrades, second successes and reconciliations; counter exact from start-up to the first admin request |
| `MCWorkers`, orders | 1 order at a time for every kind of basket, 1 crash, fair | `ExpiredIsSwept`, `SettledIsHonoured` | expired orders are ended; what a settled payment bought is given and kept |
| `MCCheckoutCancel` | as Sales, 1 handler; violated | `CancelOnlyPending` | finding 1 |

`MCCheckoutSales` has 432k states, `MCWorkers` 229k with its storage part.

Bounds. The hazards of an order's status need two handlers and the gateway on
one order: a third handler adds no new pair of read and write. Coupon hazards
need two orders on one coupon (a count above one, a row kept by one and lost by
the other) and one reconciliation against one edit or crash. `Budget` caps
crashes and admin requests; notifications are not capped.

Fairness (`FairSpec`). The sweep is a ticker of `main()` that runs while the
process does: weak fairness of `CancelExpiredPendingOrders`. `main()` runs
through its start-up: weak fairness of `ReconcileStep(Boot)`. The gateway
repeats a notification until it is answered with success: weak fairness of
`SettlementUnanswered`, the notification of a settlement that has not yet been
answered so (the transaction that answers it leaves the invoice). An answered one
may come again and need not. No handler is assumed to finish. Both liveness
properties hold after a crash, since `Budget` is finite and start-up ends.

`SettledIsHonoured` therefore speaks of what a payment grants for good, the invoice
and the seat, and not of the order's status: after the answer, a `CancelWrite` that
had read the order before (finding 1), or an older notification delivered late, may
leave a settled order cancelled or pending, and nothing promises to repair that.

`CounterExact` is restricted to `up /\ ~touched` on purpose: a loaded coupon
form that is saved later, a second reconciliation during a fulfilment, or one
that was aborted does leave a wrong counter, and only the next start repairs it.
The property says that this repair always works and that nothing else breaks it.

## 4. Consultation

An operation is a transaction `tx[t]` cut at its locks. `lock` says who holds a
row. Locking reads see the present rows; a plain read sees `View(t)`: with
`SnapshotReads`, the active bookings as they were at the transaction's first
plain read, which `Fixed` records (InnoDB creates the snapshot then, and
`config/config.go:112-119` leaves the isolation level at the server's default).
`BookConsultationSlot` is `StartBook`, `LockOrder`, `TakeSeat`, `InsertBooking`;
`UpdateConsultationBooking` is `StartChange`, `LockCurrent` and `Move`;
`UpdateConsultationBookingByProvider` is `CloseBooking`, or `StartRevive` and
`Revive`; slots are created by `StartCreateSlot`, `CheckNewSlot`, `InsertSlot`,
edited by `StartEditSlot`, `LockNewOwner`, `EditSlot`, and deleted in one step,
which waits for nothing once it has the slot. `Rollback` ends any transaction: a
deadlock's victim, a failure, a client or a server gone.

`Agenda` states the promise without transactions, locks or views: booking, moving,
closing and reviving a booking, adding, changing and removing a slot each happen at
one instant, under the conditions the code states, on the rows as they are then.
The rows are the same variables, so the refinement says that the operations can be
put in the order of their writes. What it finds beyond the invariants is a decision
that was no longer true when it was carried out: an order refunded, a slot closed,
given to another provider or filled between the look and the insert. `Exact` is
where snapshots show: a move or a revival may count other seats than those that are
taken, unless `SnapshotReads = FALSE` (finding 2). Clashing hours are those the
query finds, which compares text (finding 3). A cancellation is a `Close`, which
the provider may do at any time; that a customer's is refused once the booking is closed
is `ClosedIsFinal`.

Abstracted: one date; whole hours; time texts are kept as hour and whether it is
written with two digits, and compared as MySQL compares the text.

| run | instance | properties | shows |
|---|---|---|---|
| `MCConsultation`, bookings | 2 slots, 2 bookings, 2 orders, 2 transactions, capacity 1 or 2, one move allowed | `OneBookingPerOrder`, `BookingsFit`, `ClosedIsFinal` | what holds under snapshot reads |
| `MCConsultation`, slots | 2 slots of one instructor or the academy, 1 order, 2 transactions | `BookedSlotsExist`, `ProviderNotDoubleBooked` | slots against slots and against bookings |
| `MCConsultation`, both | the two above | `ImplementsAgenda` | refinement: what is written is what `Agenda` allows then |
| `MCConsultationCapacity` | the bookings; violated | `CapacityRespected` | finding 2 |
| `MCConsultationOverlap` | 1 transaction, "9:00" allowed; violated | `ProviderNotDoubleBooked` | finding 3 |

`MCConsultation` has 713k states.

Bounds. Each hazard is a race of two transactions over two rows; two slots allow
a move, two orders and two bookings allow a slot to be filled by one while the
other arrives, and a limit of one is reached and tested:
a move beyond it would be no step of `Agenda`. The runs allow
deadlocked transactions, which `Rollback` resolves, so that no state is stuck.

## 5. Storage

The row of an object, the file on the disk and the object in the bucket are
separate variables (`row`, `local`, `r2`, and `vault` for a backup bucket of its
own) and no step touches two of them. A migration batch is `BatchPick` (the
oldest active job), `BatchMark`, `BatchSelect` (the oldest items up to
`BatchLimit`), per item `ItemTake`, `ItemCopied` or `ItemFailed`, `ItemRecord`
(the row) and `ItemVerify` (the item), then `BatchCount` and `BatchFinish`; both
the worker and an admin's request run it, at once. Starting a job is `StartCheck`,
`StartPlan`, `StartJob`, `StartItems`, a backup `QueueCheck` and `QueueInsert`;
its worker goes through `BackupPick`, `BackupCheck`, `BackupList`, per object one of
`BackupHas`, `BackupCopied`, `BackupMissing` and `BackupMismatch`, and `BackupFinish`.
In the main bucket `BackupRecord` writes the row of an object copied or found;
`BackupDiscard` deletes a copy that differs and fails the backup. Uploads, deletions
and the clean-up are chains of one statement per system. `BatchFault`,
`BackupRefused` and `StorageCrash` stop any of them anywhere.

A batch checks the errors of some of its statements and ignores those of others.
The first kind ends it (`BatchRefused`, `BatchAbort`) or fails the item
(`ItemRefused`). Of the second, `BatchMiscount` is a count that fails and reads 0,
so that the job is written as ended with items pending or failed, and `ErrorIgnored`
any other: the look for an item's row, and the updates of the job, the item and the
object's row, without which the batch goes on. `uncounted` remembers the jobs that
ended without a count of all their items, until they are retried and counted again.

| run | instance | properties | shows |
|---|---|---|---|
| `MCWorkers`, storage | 2 objects (an upload, sound, damaged or still to come; a cached PDF, of today or outdated), 2 jobs, 2 backups, 2 runners, batches of one, 2 requests (3 for backups of the outdated PDF), 1 mishap (a stop, a refused call or a failing statement) | `RowTruthful`, `VerifiedJobCopied`, `ManifestKept`, `JobsEnd` | copying precedes recording wherever a stop or a failure falls; both kinds of jobs end, with the exceptions that the code leaves |
| `MCWorkersResume` | the same with one request and no batch of an admin; violated | `InterruptedWorkResumes` | finding 5 |

`RowTruthful` leaves out what was deleted on purpose and what a backup discarded
in the main bucket because its checksum differed from the row's (`Lost`).
`ManifestKept` leaves out the same and one thing more, in a bucket of its own too:
a look at the bucket that fails counts as "not there" (storage.go:212-218), so that
a second backup may overlook a copy, put another in its place, find a difference
and delete it, while the first backup's manifest still lists it. The difference
needs a cached PDF rendered anew between its file and its row, so the run has a
start with an outdated PDF, two backups and three requests (`focus` "copies").
`VerifiedJobCopied` leaves out the jobs that are `uncounted`: their items arrived
after a batch had ended the job, which the two inserts of `StartStorageMigration`
allow, or a count failed. What remains is that no other failure, ignored or not,
makes a job vouch for an object that was not copied.

`InterruptedWorkResumes` is what the comment of the worker says (finding 5), and the
code does not do it. `JobsEnd` is what holds instead, and names what strands a job
(`Stranded`): an item that a stopped batch or a failed mark left "copying", an item
without a row, and items that fail every time in front of others. Batches of one and two objects are enough for one item to block
another; two jobs for one job to block the next.

Fairness (`StorageFairSpec`): the two workers are loops that come back every two
seconds, also after a restart (`BatchPick(Worker)`, `BackupStep`), and a batch
once begun goes on unless a fault ends it. No request is assumed.

## 6. Learning

`CourseContent` keeps a course and its rows in one table `rows` with a parent, an
order and the columns other code reads. An instructor's request is a look
(`CreateFor`, `UpdateFor`, `DeleteFor`, `ReorderFor`, `UpdateCourseCheck`,
`DeleteCourseCheck`) and a write by id (`InsertRow`, `UpdateRow`, `RemoveRow`,
`ReorderWrite`, `UpdateCourse`, `DeleteCourse`); an admin's mostly writes without
looking. `Learning` adds the learners: `Unlocked` is `LearningStateForCourse`,
which the code has twice with the same text (`services/learning.go`,
`controllers/public/courses.go`); a request is a chain such as `CompleteTopic`,
`ReadProgress`, `SaveProgress`, `RewardLesson`, then `SyncCheck`,
`SetCompleted`, `FindCertificate`, `IssueCertificate`, `SignCertificate`,
`RewardCourse`, and `GiveUp` cuts it off after any statement. The reads of one
pass over the course are one step.

| run | instance | properties | shows |
|---|---|---|---|
| `MCLearning` | 2 modules, 2 topics, 1 quiz of one question, one row of every other kind; 1 learner with 2 tabs, 1 instructor, 1 admin; 2 edits, 5 requests, drip of a day; 344k | `InOrder`, `AttemptsBounded`, `CertificateEarned`, `XPTruthful`, `PublishingIsAdmins`, `CompletionFollows` | order, bounds and completion over overlapping requests, edits and cut-offs |

A race between two statements needs two tabs of one learner: learners share no
row. The start contents divide the bounds: a course being learnt with one edit
left, one with none, a draft and an empty course that are edited only.
`AttemptsBounded` and `CertificateEarned` state how far a race can go: the
requests that were under way together. `shuffled` (the course was edited, or a
passed quiz was failed by a review) and `lost` (a request was cut off, or a
review passed the last quiz, which completes nothing) are history variables that
name the exceptions.

Fairness: a handler that has begun goes on until it is done or cut off. Learners,
reviewers and editors may stop at any time.

## 7. Sessions and hiring

A request of `Sessions` is a record in `req` that keeps what it has read: the row
it will save (`RegisterAgain`, `UpdateProfile`, then `SaveRow`), the code it
compared with (`EnterCode`, then `WrongCode` or `RightCode`, `SignIn`), the token
(`Refresh`, `Rotate`, `Renew`), the link (`OpenLink`, `ConfirmPasswordReset`), the
columns of a role (`ReadRole`, `UpdateUserRole`). Tokens, codes and links are
numbers in the order they are made. Time is left out: what has expired is never
presented, and whether a log-in asks for a code may go either way. Two history
variables carry the exceptions of the properties: `raced`, what two requests held
at once, and `stale`, accounts of which an older row was saved back.

`Hiring` splits a transaction with row locks into the step that takes the locks
(`DraftInquiry`, `CheckInquiry`, `Decide`) and the one that writes and commits
(`DraftJob`, `CreateTalentJob`, `UpdateCompanyCandidateDecision`), with the other
requests kept out by `ApplicationLocked`, `JobLocked` and `InquiryLocked`;
`Break` rolls one back. The count of a decision is current although it is a plain
read, for the transaction's locking reads all come before its first plain one:
the fault of finding 2 is not here. Statuses that nothing distinguishes share a
value.

| run | instance | properties | shows |
|---|---|---|---|
| `MCPortal`, accounts | 2 addresses, 2 passwords, 2 requests at once, 4 in all, 3 sessions, 2 codes, 2 links | `RevokedStaysOut`, `UsedOnce`, `AdminRemains`, `VerifiedKept` | who gets in |
| `MCPortal`, talent | 2 inquiries, 2 jobs, 3 applications of 2 people, 2 requests at once, 4 in all | `OneJobPerInquiry`, `OnceEach`, `HiresFit` | who is hired |

One run (369k states) has both: `focus` says which of the two a behaviour
follows, since they share no row but accounts. The start pools put a behaviour
where it becomes interesting (two candidates proposed for one position, an
approved inquiry, a placed talent), so that four requests suffice for two that
overlap after two that prepare them; a third request at once adds no new pair.

Seen here and excluded by `raced`, `stale`, `doubled`, `reopened`: two overlapping
refreshes with one token both succeed, for finding the token's id in the
blacklist is no error; a profile save can undo a reset, a change of role or a
verification that came in between; overlapping wrong tries count as one; two
overlapping removals can leave no administrator; two overlapping applications are
both inserted; sending an invitation again can make a used one usable.

## 8. Outreach

The mailer goes through `PickCampaign`, `ResolveCampaignRecipients`,
`SendMailerEmail`, `CountSent` and `FinishCampaign`, the robot through
`EvaluateAutomations`, `Trigger` for any of the keys, `ReadDueRuns` (up to
`Batch`), and `SkipSuppressed`, `SkipUnread`, or `TakeRun`, `MailRun`, `MarkRun`
for each. `Publish` and `QueuePublishAnnouncement` are the announcement of a
publication, one row at a time in a goroutine. `Stop` ends everything under way.

The code takes an error for an answer in three places, and so does the model. A
look-up of a suppression that fails says "not suppressed": `ResolveCampaignRecipients`
keeps such an address (`overlooked`) and `TakeRun` takes such a run. A mail that the
provider accepted, but whose answer is late or cannot be decoded (mailer.go:379-393,
430-434), is an error like a refusal and counts as failed: the second outcome of
`SendMailerEmail` and of `MailRun`. And an update that fails is passed over: the
counters (`CountSent`), a campaign's end (`FinishCampaign`), a run's mark (`MarkRun`,
`SkipUnread`). An answer that does not come is the network's and may happen to any
mail; stops and failed statements are drawn from one budget (`Fault`).

`posted` and `mailed` count what the provider accepted, `unconfirmed` whom a campaign
reached without its knowing, `unmarked` the mails of a run whose mark was lost;
`quiet` remembers who was suppressed when a worker took up what it is doing and was
not overlooked since.

| run | instance | properties | shows |
|---|---|---|---|
| `MCOffice`, campaigns | 2 campaigns, 2 addresses, 1 stop or failed statement | `MailedOnce`, `QuietKept`, `OutreachEnds` | who is mailed how often, who is left alone, what ends |
| `MCOffice`, automation | 3 runs of 2 workflows, 2 addresses, batches of two, 1 stop or failed statement | the same | the same of runs |

`MCOffice` has 407k states with those of section 10.

Batches of two leave a third run behind; two campaigns queue up. A behaviour has
work for one worker (`focus`), since they share only the suppressions, and begins
when the server has started. A campaign goes to nobody, to the first address or to
both; where there are runs, the address that two of them share may be suppressed and
released and the reminder disabled and enabled, while the other address and the
announcement's workflow stay as they are, to be told apart from them. Each
worker is a loop over a ticker that goes on as long as the process lives, and is
started again after a stop: weak fairness of each. `OutreachEnds` excepts a
campaign that a stop cut off, or whose last update failed: it stays "sending" for
ever. One fault reaches each of these exceptions; that a second one changes nothing
about who is mailed is proved (section 12).
`MailedOnce` is exact about what a campaign claims: once ended, `sent_count` is the
number of mails the provider confirmed, which may be fewer than it accepted.

## 9. Conversations and rewards

`Authorize` is what a request reads before it changes anything: the thread, the
side its user is on, and, for a reply, whether the thread is closed. `Reply` and
`CreateConversation` begin the transaction, `Post` commits it; between them the
request keeps its `Snapshot`: the author's ledger and badges and whom to notify,
as they were when it began. `Given` are the badges it finds to give, and
`Collides` says that another request has stored one of them meanwhile, which
fails the transaction as a duplicate key. `ClearUnread` and `LoadMessages` are the
two statements of a reader. In `Rewards`, `AwardXP`, `SyncUserAchievements` and
`UnlockBadge` are the same award outside a transaction, after `AttendEvent` or
`DownloadProductFile`; `AbandonAward` cuts it off anywhere.

| run | instance | properties | shows |
|---|---|---|---|
| `MCDiscussion`, thread | 1 thread, 3 messages, student and teacher, 2 requests at once | `UnreadCovers` | counters over overlapping replies and readers |
| `MCDiscussion`, rewards | 2 threads, 2 messages, 2 badges, 1 event, 1 file, 2 requests and 1 award at once | `PostedWhole`, `BadgesComplete` | what a message leaves behind, who holds which badge |
| `MCDiscussionClosed` | the rewards without badges; violated | `ClosedGetsNoReplies` | finding 4 |

`MCDiscussion` has 1.3M states.

Bounds. Three messages let one be read, one be lost and one be counted; two
badges are one that a message earns and one that the sum of two awards does. A
second student shares nothing with the first but the order of ids. The history
variables name the exceptions: `cut`, sides whose last reader was cut off after
clearing the counter; `lapsed`, users whose last award missed a part of the
ledger.

## 10. Document studio

A studio request is a record of `editor`: `CreateDocumentTemplate` and
`CreateFirstVersion`; `UpdateDocumentTemplate` and `SaveTemplate`;
`PublishDocumentTemplate` and `PublishTx`; each looks first and then writes. A
selection is a record of `reader` and the chain `SelectDocumentTemplateVersion`,
`EnsureDefaultDocumentTemplate`, `LatestOfDefault`, `CreateDefaultTemplate`,
`CreateDefaultVersion`, `NameDefault`. It is begun by `EnsureInvoice`,
`SyncCourseCompletion`, `EnsureInvoicePDF`, `EnsureCertificatePDFBytes`, and by
`Boot`, the start, which goes through all types before the server is `up` and is
begun again when it fails. `StatementFails` is any statement of it that fails,
with what the code makes of that at each place; `Crash` stops everything. A text
is "built-in" or "custom": whether it has the marks that `LatestOfDefault` looks
for is all that is read of it.

| run | instance | properties | shows |
|---|---|---|---|
| `MCOffice`, studio | 2 types, 3 templates of up to 3 versions, 1 invoice, 1 studio request, 1 selection and the start, 1 failing statement | `DefaultIsPrintable`, `IssuedWithOwnType`, `InvoiceKeepsText` | what is printed while templates change |
| `MCOffice`, start | 1 certificate, 2 selections, 2 stops, 1 failing statement, fair | `ServesAgain` | that the server comes back |

`MCOffice` has 407k states with those of section 8.

Bounds. Three templates are the two built-in ones and one more that competes for
a default; three versions a first, a saved one and the one that replaces it, and
the last number is kept for the built-in text, so that a selection never waits
for the bound. Two stops are one within the start and one after it.

Fairness (`FairSpec`): `Seed` (database/seed.go:49-54) goes through the types one
after the other before `main()` serves: weak fairness of `SelectionStep(Boot)`. A
stop and the start that follows it are one action (`Crash`), so what is assumed is
that a start goes on, not that somebody starts the server. No request is assumed to finish.
`ServesAgain` excepts `Stranded`: a start that was cut off between a default
template and its first version leaves a default that no later start gets past.

## 11. Findings

1. `CancelOrder` overwrites a paid order (`controllers/dashboard/orders.go:34`).
2. A move into a slot counts the slot's bookings in a snapshot older than its
   lock, and can overfill it (`services/consultation.go:412`). `BookingsFit`
   shows that a move, or a provider's revival, is the only way.
3. Overlap of slots is decided on the text of their times
   (`services/consultation.go:106`).
4. A reply that was authorized while its conversation was open is posted although
   the conversation has been closed (`services/communication.go:144`).
5. The comment of the migration worker says that restarting the API resumes pending
   work. An item that was "copying" when the process stopped counts as pending
   (`services/storage_migration.go:604`) and is selected by no later batch (`:570`):
   its job stays "running" and keeps every later job and backup waiting.

Seen and not held against the code, because nothing says otherwise:

- Checkout: a coupon's limit counts fulfilled orders, so orders created before it
  is reached are honoured beyond it; two overlapping purchases make two pending
  orders; a status query and a notification read a capture under review
  differently; an order whose token was issued but not stored never expires; free
  enrollments may lose their XP; a status query's mails go before its commit; after
  a settlement was answered, an older notification that arrives late sets the order
  back to pending or cancelled, and nothing need come to set it right.
- Consultation: an edit may give a booked slot to another provider; two moves in
  opposite directions deadlock, and the database rolls one back.
- Storage: an item without a row, or whose mark was lost, and items that fail every
  time in front of others keep their job, every later job and every backup
  waiting; a job one of whose counts failed is written as verified, or failed, with
  items pending, and a verified one is never picked again; a batch puts a job that was paused meanwhile back to running; resuming does not
  look for backups; a mismatch leaves the bad object in the bucket; a backup whose
  look at the bucket failed may discard the copy an earlier backup lists.
- Learning: a second review can fail a quiz again after completion; a review never
  completes a course; a quiz without questions cannot be passed; a resubmitted
  assignment keeps its score; deleted rows leave what hung on them.
- Conversations: a reader cut off between its two statements has cleared the
  counter of messages it never got; marking all notifications read includes those
  that came after the list was loaded; an attendance whose request is cut off
  before its award never gets one, since a second request finds it recorded.
- Documents: making sure of a default replaces the text an administrator published
  as default, if it lacks the marks of the built-in design, by a built-in version;
  a saved draft of the default is printed with at once, before it is published;
  publishing marks the version that was the last when it looked, which need not be
  the last any more; a failing look for the default counts as none, and makes a
  second one; a start cut off between template and version strands every later one;
  an invoice issued without a version is printed with whatever is selected each
  time; a stored PDF is never read back.
- Hiring: the sales board overwrites hired and resolved statuses; undoing a hire
  does not open the job again; lowering the positions leaves more hires than
  positions; `UpdateTalentJob` and `UpdateHiringInquiry` lock the same rows in
  opposite orders.
- Outreach: a suppressed address is mailed if the look-up of its suppression fails;
  a mail accepted but not answered in time counts as failed and is not repeated; a run
  whose mark fails is mailed again; a campaign that reaches nobody is stored and
  fails when its turn comes; suppressions added during a campaign are not honoured by
  it; a stop or a failed last update leaves a campaign "sending" for ever; a stop
  loses the rest of an announcement, and publishing again does not repeat it;
  whether a workflow is still enabled is not looked at when its run is sent; one
  run's sender settings stay for the next (automation.go:222).

## 12. Proofs

`CheckoutProofs` proves, for all values of the constants,

- `TypeCorrect`: `Spec => []TypeOK`
- `Fulfilled`: `Spec => []PaidIsFulfilled`
- `Backed`: `Spec => []GrantsAreBacked`
- `StatusReported`: `Spec => StatusIsReported`
- `Implements`: `Spec => ImplementsEntitlement`
- `CounterIsExact`: `Spec => []CounterExact`

from `CatalogueAssumption` (courses and products are disjoint, prices are natural
numbers, free courses are courses) and `ActorAssumption` (the null value is no
id, `Boot` is no admin, the orders table is finite).

None of them is inductive by itself. A handler acts on what it read earlier, so
the argument begins with `HInv` (`HandlersSound`): beside the types, rows that
exist name a buyer and an item that is sold (`RowsFilled`), every handler's
order still exists, its basket is of the kind its step is for, and the answer it
carries is one the gateway has reported (`RequestsSound`), and the gateway's
present answer is among its reports (`GatewayReports`). Rows are never deleted
and their buyer, item and coupon never change (`OrdersPersist`), which is why the
handlers' knowledge does not age. `Fulfilled` adds `SeatsRewarded`: fulfilling an
order awards XP only for a seat that was not taken, so the seats taken must have
had theirs. `Backed` uses that reports and baskets are kept (`EarnedKept`) and,
for the invoice page, `Fulfilled`. `Implements` maps each action to `Place`,
`TakeMoney`, `Pay`, `Lapse`, `GiveFree` or a stutter. `CounterIsExact` follows the
start's reconciliation step by step: `BootCounts` says how far each counter is
from its coupon's uses after each of its four statements, `Undisturbed` that
before an admin's first request nobody else writes a counter without a use, and
`UsagesPlaced` that uses are only of orders that are there, one each, so that one
more use is one more order.

`ConsultationProofs` proves, for all values of the constants that meet
`ConsultationAssumption` (a form's end is after its start, a provider's slot has
one seat, the null values are no ids, the bookings table is finite) and for both
kinds of plain reads,

- `TypeCorrect`: `Spec => []TypeOK`
- `BookedOnce`: `Spec => []OneBookingPerOrder`
- `SlotsKept`: `Spec => []BookedSlotsExist`
- `MovesLimited`: `Spec => []MovesWithinLimit`
- `ClosedKept`: `Spec => ClosedIsFinal`
- `OnlyMovesOverfill`: `Spec => BookingsFit`
- `NotDoubleBooked`: `Spec => []ProviderNotDoubleBooked`, if every form writes
  its hours with two digits
- `CapacityKept`: `Spec => []CapacityRespected`, if `SnapshotReads = FALSE`
- `OneAfterTheOther`: `Spec => ImplementsAgenda`

The argument is that of the locks. `Held(t)` says what the transaction `t` has
secured by the locks it holds at each of its steps: the booking it changes is
there and open, the slot it books into is there, the owner of the slot it writes
is its own, and its view is not fixed before its first plain read.
`LInv`, the types and everybody's `Held`, is inductive (`LocksSound`): a step
of `t` secures what `t` needs next and leaves alone what others have locked
(`Alone`, `OthersHeld`). `StepKinds` then sorts the steps by what they write, and
each property adds what the lock protects between a look and an insert:
`NoHistory` the order's, `NoClash` the owner's, `RoomKept` the slot's.
`ChangeSeats` is where snapshots matter: a move and a revival count an old view
unless `SnapshotReads = FALSE`. Finding 2 and finding 3 are thus the only ways
in which capacity and overlap fail. `OneAfterTheOther` puts them together: beside
`NoHistory`, `NoClash` and `RoomKept` it needs `Decided`, that the order of a booking
is still paid, its slot still open and of its service's owner, and the booking that
moves not yet where it goes. Of the steps that `StepKinds` lists, each that writes is
the action of `Agenda` with the same rows (`ChangeSerial`, `AgendaStep`), and the only
quiet one that is no stutter is a change of an order's status (`PaidMoves`).

`SessionsProofs` proves, from `SessionsAssumption`, `StartAccountsAssumption`
(accounts to begin with include an administrator) and `NoneAssumption`,

- `AccountsTyped`: `SessionsSpec => []SessionsTypeOK`
- `KeepsVerified`: `SessionsSpec => VerifiedKept`
- `RevokedOut`: `SessionsSpec => []RevokedStaysOut`
- `AnAdminRemains`: `SessionsSpec => []AdminRemains`
- `OpensOnce`: `SessionsSpec => []UsedOnce`

All rest on `Base`: the types, that every session, code and link is of an account
that is there (`Owned`), and what a request in progress relies on (`Promised`),
such as that a row about to be saved differs from the one it was read from in
nothing that matters (`Carries`). `RowsStay` says that rows only grow and what is
spent stays spent. `RevokedOut` adds `Dated`: sessions and unfinished registrations
of an account never have a later version than the account, unless it is `stale`.
`AnAdminRemains` adds `AdminLeft`: a role about to be taken leaves another
administrator than the one who takes it. `OpensOnce` adds `Single` (who holds the
same raced), `OpenedOnce` and `TriesCounted` (the tries of a code are those its
row and its one holder know of).

`HiringProofs` proves, from `HiringAssumption`, `NullAssumption` and
`StartPoolsAssumption` (jobs name inquiries that are there, one job per inquiry,
one application per person and job to begin with),

- `PoolTyped`: `HiringSpec => []HiringTypeOK`
- `OneJob`: `HiringSpec => []OneJobPerInquiry`
- `HiresFitPositions`: `HiringSpec => HiresFit`
- `AppliesAndReviewsOnce`: `HiringSpec => []OnceEach`

from `HInv`: the types, jobs that name inquiries that are there, that no two
requests hold one lock (`Exclusive`), and what each has secured by its locks
(`Promise`). A count taken under the lock is still true when the row is written.

`WorkersProofs` proves of `Outreach`, from `OutreachAssumption` and `NullAssumption`,

- `MailsOnce`: `OutreachSpec => []MailedOnce`
- `KeepsQuiet`: `OutreachSpec => QuietKept`

from `TInv` (`TypeSound`), `CInv` (what the worker has still to do has not been
posted, its counter of sent mails is the number of those confirmed, and the row's
lags behind it until the campaign ends), `RInv` (a run in the batch is scheduled and,
but for the mail whose mark is the next step, was mailed as often as its mark was
lost) and `QInv` (whoever is still to be mailed was not suppressed when the worker
began, or his look-up failed).

And of `StorageJobs`, from `StorageAssumption` (objects, jobs and backups are finite
sets of numbers, the order of their ids; the rows there are at first are truthful;
no row is `Nil`),

- `StorageInvariant`: `StorageSpec => []StorageInv`
- `RowsAreTruthful`: `StorageSpec => []RowTruthful`
- `VerifiedJobsAreCopied`: `StorageSpec => []VerifiedJobCopied`
- `ManifestsAreKept`: `StorageSpec => []ManifestKept`

`StorageInv` has four parts. `TypesInv`: the types; that items belong to jobs and
have a row unless they are known to have lost it; that a batch works on items of a
job that is there. `RowsInv`: whoever is about to write where an object is has it
there already (`CopyInHand`), because copies appear and stay but for deletions and
what a backup discards (`CopiesStay`), and only nine steps write rows
(`RowsChange`). `VerifiedInv`: a verified item is copied, and so is the whole job
of a batch that counted nothing pending or failed and is about to say so, unless
items were inserted in between or a count failed, which makes the job `uncounted`
(`MiscountMoves`, `IgnoredMoves` and `UncountedStays` are the steps of it). `ManifestsInv`: what a backup has listed so
far is in its bucket, and what it is about to discard no manifest lists, unless it
had overlooked a copy. The instance of `MCWorkers` has `StorageInv` too.

`DocumentsProofs` proves, from `DocumentsAssumption` (the types are distinct and at
least one, every document has one of them, the bounds are natural numbers) and
`NoneAssumption`,

- `Printable`: `Spec => []DefaultIsPrintable`
- `IssuedOwnType`: `Spec => []IssuedWithOwnType`
- `InvoiceKept`: `Spec => InvoiceKeepsText`

from `IInv` (`Invariant`). The safety properties are not inductive, for a selection
acts on what it read some statements ago. Its strengthening says that nothing else
is under way while a start is (`StartsAlone`), that what requests have read stays
true (`EditorsKnow`, `SelectionsKnow`, `BootKnows`), which rests on `Grows`: no step
takes away a template or a version or changes a type or a text. `Prepared` says of
the types a start has done with what `DefaultIsPrintable` says of all of them once
the server serves, and so a selection of a request never creates a default, unless
a statement failed (`Single`). `SelectionMoves` sums up the steps of a selection in
terms of the state they lead to.

`LearningProofs` proves, from `LearningAssumption` (the requests a user can have
under way are finitely many), `ContentAssumption` and `StartContentAssumption`
(the rows to begin with are of their tables),

- `CourseIsInOrder`: `Spec => []InOrder`
- `AttemptsAreBounded`: `Spec => []AttemptsBounded`
- `CertificatesAreEarned`: `Spec => []CertificateEarned`
- `XPIsTruthful`: `Spec => []XPTruthful`
- `PublishingIsTheAdmins`: `Spec => PublishingIsAdmins`

from two invariants. `LInv` is the learners': types and what each request is about
(`TInv`), what it has found (`TabsKnow`: progress, a completion, a certificate are
not taken back while it goes on, `Growing`), the number of certificates together
with the requests about to insert one (`IssuesBounded`), and `OInv` for as long as
the course is left as it is: whoever works at an item or has worked at it was let
in, and would be let in again (`UnlockedStays`), and attempts made are counted
together with those about to be made (`AttemptsCounted`). Reviews move attempts
between passed and failed and so change no count (`Judged`). `EditsInv` is the
editors': an instructor's request that is about to remove the course has read that
it was not published. What `InCourse`, which is recursive, finds below the course is
never needed.

`DiscussionProofs` proves, from `RewardsAssumption` (messages, events and files are
different and finitely many), `DiscussionAssumption` and `NoneAssumption`,

- `MessagesArePostedWhole`: `Spec => []PostedWhole`
- `UnreadIsCounted`: `Spec => []UnreadCovers`
- `BadgesAreComplete`: `Spec => []BadgesComplete`

the first two from `IInv` (`ConversationInvariant`): the types; what a request was authorized
for, that its thread is there and is its own student's, or somebody else's if it is
the staff's (`Authorized`), which no step takes back; whom its message will be
announced to (`Addressed`); that awards outside a post are for no message; and that
the threads of messages are there. `PostedWhole` is then inductive: `PostPosts` says
what a post writes (`Posted`), and no other step posts or takes back (`WholeKeeps`).
`UnreadCovers` is, because between its two statements a reader is one of the
exceptions (`Loading`), after the second its side has been given all, and a post adds
one to the counter and one message to what the counter covers (`PostCovers`).

`BadgesAreComplete` rests on `BInv`, which is about awards. Rows are only added to
the ledger and badges only given. `SnapshotsInv`: what a request's snapshot holds is
still there. `LooksInv`: a badge about to be unlocked is earned by the rows as they
are. `HoldersInv`: so is every badge held, and a user's badges are all he has earned,
or he is `lapsed`, or a request of his is about to look at the present rows or has
looked and is about to unlock what is missing. The step from a snapshot to the present
rows needs that a ledger with more rows earns no less (`EarnedGrows`), and for badges
given for an amount of XP that is a statement about a sum over the ledger. The sum is
a fold of the community modules, a recursive function; `SumIsCount` proves that it
equals the number of pairs of a row and one of its points, by the least counterexample
among the finite sets of rows (`WFMin`, since the library's induction rules take an
operator and cannot be used), and cardinality is monotone.

Only model-checked: liveness, which is beyond the prover: `ExpiredIsSwept`,
`SettledIsHonoured`, `JobsEnd`, `CompletionFollows`, `OutreachEnds`, `ServesAgain`;
and `InterruptedWorkResumes`, which is violated.
Every safety property of the passing runs is a theorem; `MovesWithinLimit`,
`CapacityRespected` and the types are theorems that no passing run repeats.

## 13. Not modelled

- `RepairBrokenPaths` of the storage services, which assigns any free key to any
  broken row: no promise about it can be stated; content types; the report of the
  R2 inventory; `cmd/dbbackup`, one external command.
- Texts, languages, the rendering of PDFs and the check of a template's variables;
  transactional mail, which leaves no state.
- Profiles, avatars, partners, leads, trust photos, levels, settings other than
  those that choose templates, event registrations: single rows that no other rule
  reads.
- Headers, CORS, the rate limiter in memory, routes, DTOs, migrations and seeds.
- Some database errors that the code ignores. In a migration batch, a campaign and
  the pass over the runs, those that change what becomes of the work are modelled
  (sections 5 and 8). Not modelled are, in `StorageJobs`: the update that puts a row
  back to local storage (storage_migration.go:122) or makes the bucket an object's home
  (:732, :765, storage.go:459), which leave the row where it was and the object there;
  the deletes of a file by the clean-up (:661) and of a discarded copy (:758), which
  leave an object too many; the row of an upload (storage.go:579), which leaves an object
  without a row, as a stop there does; the mark "failed" of a backup (:523), which is
  then begun again. In `Outreach`: the insert of a run by an announcement and the
  list of its users, which leave people unannounced, and the rows of `email_events`,
  which no rule reads.

## 14. Faulty variants

Each checked property has a variant of a definition, in the same module and
marked "Faulty variant" or "A slip", that changes it the way a mistake in the code would (a
dropped lock, a dropped check, `<=` for `<`, a grant only for pending orders)
and makes TLC find the property violated. `PROJECT.json` lists which variant
belongs to which property.

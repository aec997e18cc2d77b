---------------------------- MODULE StorageJobs ----------------------------
(***************************************************************************)
(* Stored objects, their migration from the local disk to R2, and their    *)
(* backups.                                                                *)
(*                                                                         *)
(* A row of stored_objects names the provider that holds the object.  The  *)
(* row, the file on disk and the object in the bucket are three systems:   *)
(* a step touches one of them.  A migration batch is run by the worker     *)
(* every two seconds and by an admin's request at any time; a backup by    *)
(* its own worker; the clean-up by a second process.                       *)
(***************************************************************************)
EXTENDS Integers, FiniteSets

CONSTANTS
  Objects,       \* object keys; their order is that of the rows' ids (bound)
  Generated,     \* cached PDFs: they expire and no content row names them
  Jobs,          \* migration jobs in the order of their creation (bound)
  Backups,       \* backups in the order of their creation (bound)
  Runners,       \* who runs migration batches
  Worker,        \* the one the process runs by itself
  BatchLimit,    \* items one batch takes
  StartWith,     \* what the stores may hold at first (bound)
  MaxRequests,   \* requests, clean-ups and expiries (bound)
  MaxMishaps,    \* crashes, time-outs and refused calls (bound)
  Nil           \* no row, no file, nothing under way

Content == {"good", "bad"}      \* as uploaded, or not: damaged since, rendered before
Providers == {"local", "r2"}
Rows == [at: Providers, sum: Content \cup {Nil}]  \* sum: whose checksum it records
Stores == [row: [Objects -> Rows \cup {Nil}],
           local: [Objects -> Content \cup {Nil}], r2: [Objects -> Content \cup {Nil}],
           queued: SUBSET Jobs, expired: SUBSET Generated]
JobRows == [status: {"queued", "running", "paused", "failed", "verified"}, dry: BOOLEAN]
ItemStatuses == {"pending", "copying", "failed", "verified"}

ASSUME StorageAssumption ==
  /\ Objects \subseteq Nat /\ Jobs \subseteq Nat /\ Backups \subseteq Nat
  /\ IsFiniteSet(Objects) /\ IsFiniteSet(Jobs) /\ IsFiniteSet(Backups)
  /\ Generated \subseteq Objects
  /\ Worker \in Runners
  /\ BatchLimit \in Nat \ {0}
  /\ MaxRequests \in Nat /\ MaxMishaps \in Nat
  /\ Nil \notin Content \cup Providers \cup Rows \cup Objects \cup Jobs \cup Backups
  /\ Nil \notin JobRows \cup ItemStatuses
  /\ StartWith \subseteq Stores
  /\ \A s \in StartWith, o \in Objects :
       s.row[o] # Nil => (IF s.row[o].at = "local" THEN s.local[o] ELSE s.r2[o]) # Nil

VARIABLES
  row,         \* stored_objects
  local, r2,   \* what the disk and the main bucket hold
  vault,       \* what the backup bucket holds, when it is another one
  sameBucket,  \* BACKUP_R2_BUCKET is empty: backups go to the main bucket
  linked,      \* objects a content row names
  expired,     \* generated objects whose expires_at has passed
  active,      \* setting storage_provider_active
  job, item,   \* storage_migration_jobs and storage_migration_items
  orphan,      \* items whose stored_objects row was deleted
  uncounted,   \* jobs ended without a count of all their items: inserted later, or miscounted
  backup,      \* storage_backups
  manifest,    \* the objects a finished backup lists
  batch,       \* the batch each runner has under way
  archive,     \* the backup run under way
  start, queue, upload, removal, sweep,  \* the requests under way
  spoiled,     \* objects of which a backup discarded a copy that was not its own alone
  deleted,     \* objects a user or the clean-up has deleted
  requests, mishaps

stores == <<row, local, r2, vault>>
tables == <<job, item, orphan, uncounted, backup, manifest>>
fixed == <<sameBucket, active>>
marks == <<linked, expired, spoiled, deleted>>
calls == <<start, queue, upload, removal, sweep>>
storageVars == <<stores, tables, fixed, marks, calls, batch, archive, requests, mishaps>>

-----------------------------------------------------------------------------
(* Initial states. *)

\* A batch, a backup and a request under way: pc is what comes next, todo the objects left,
\* cur the one in hand with the checksum recorded (sum) and the content found (got).
NoBatch == [pc |-> "idle", job |-> Nil, todo |-> {}, cur |-> Nil,
            sum |-> Nil, got |-> Nil, pending |-> FALSE, failed |-> FALSE]
NoArchive == [pc |-> "idle", backup |-> Nil, todo |-> {}, cur |-> Nil,
              got |-> Nil, listed |-> {}, missing |-> FALSE,
              seen |-> [o \in Objects |-> Nil], gone |-> {}]
NoCall == [pc |-> "idle", dry |-> FALSE, job |-> Nil, todo |-> {}, cur |-> Nil, at |-> Nil]

StorageInit ==
  /\ \E s \in StartWith :
       /\ row = s.row /\ local = s.local /\ r2 = s.r2 /\ expired = s.expired
       /\ job = [j \in Jobs |-> IF j \in s.queued THEN [status |-> "queued", dry |-> FALSE]
                               ELSE Nil]
       /\ item = [j \in Jobs |-> [o \in Objects |->
            IF j \in s.queued /\ s.row[o] # Nil /\ s.row[o].at = "local" THEN "pending" ELSE Nil]]
  /\ vault = [o \in Objects |-> Nil]
  /\ sameBucket \in BOOLEAN /\ active = "local"
  /\ linked = {o \in Objects \ Generated : row[o] # Nil}
  /\ spoiled = {} /\ deleted = {}
  /\ orphan = {} /\ uncounted = {}
  /\ backup = [b \in Backups |-> Nil]
  /\ manifest = [b \in Backups |-> {}]
  /\ batch = [w \in Runners |-> NoBatch]
  /\ archive = NoArchive
  /\ start = NoCall /\ queue = NoCall /\ upload = NoCall /\ removal = NoCall /\ sweep = NoCall
  /\ requests = 0 /\ mishaps = 0

-----------------------------------------------------------------------------
(* Helpers. *)

JobActive(j) == job[j] # Nil /\ job[j].status \in {"queued", "running"}
BackupActive(b) == backup[b] \in {"queued", "running"}
Earliest(S) == CHOOSE s \in S : \A t \in S : s <= t
Lowest(S) == {T \in SUBSET S :   \* what ORDER BY id LIMIT n returns of S
                /\ Cardinality(T) = (IF Cardinality(S) < BatchLimit THEN Cardinality(S)
                                                                    ELSE BatchLimit)
                /\ \A t \in T, s \in S \ T : t < s}
Free(ids, table) == {i \in ids : table[i] = Nil}

Ending(j) == \E w \in Runners :   \* a batch has counted nothing pending
  batch[w].pc = "finish" /\ batch[w].job = j /\ ~batch[w].pending

Holds(at, o) == IF at = "local" THEN local[o] ELSE r2[o]
Mismatch(sum, content) == sum \notin {Nil, content}
Ask == requests < MaxRequests /\ requests' = requests + 1
Mishap == mishaps < MaxMishaps /\ mishaps' = mishaps + 1

\* The bucket backups go to.
Bucket == IF sameBucket THEN r2 ELSE vault
PutBackup(o, content) ==
  IF sameBucket THEN r2' = [r2 EXCEPT ![o] = content] /\ UNCHANGED vault
                ELSE vault' = [vault EXCEPT ![o] = content] /\ UNCHANGED r2

\* EnsureStoredObjectInventory: rows of R2 objects whose file is still on the disk go
\* back to "local"; files that a content row names and no row describes get one.
Inventory ==
  row' = [o \in Objects |->
    IF local[o] = Nil THEN row[o]
    ELSE IF row[o] # Nil THEN [row[o] EXCEPT !.at = "local"]
    ELSE IF o \in linked THEN [at |-> "local", sum |-> Nil]
    ELSE Nil]

\* Items and backup lists that name a deleted row by its id never find it again, even if
\* the same key gets a new row.
DropRow(o) ==
  /\ row' = [row EXCEPT ![o] = Nil]
  /\ archive' = IF archive.pc = "idle" THEN archive ELSE [archive EXCEPT !.gone = @ \cup {o}]
  /\ orphan' = orphan \cup {<<j, o>> : j \in {i \in Jobs : item[i][o] # Nil}}

-----------------------------------------------------------------------------
(* Requests of administrators about migrations. *)

\* StartStorageMigration: no backup may be active.  An active migration is not asked for.
StartCheck ==
  /\ Ask /\ start.pc = "idle" /\ Free(Jobs, job) # {}
  /\ \A b \in Backups : ~BackupActive(b)
  /\ \E dry \in BOOLEAN : start' = [NoCall EXCEPT !.pc = "plan", !.dry = dry]
  /\ UNCHANGED <<stores, tables, fixed, marks, queue, upload, removal, sweep, batch,
                 archive, mishaps>>

\* The inventory, then the rows still on the disk.
StartPlan ==
  /\ start.pc = "plan" /\ Inventory
  /\ start' = [start EXCEPT !.pc = "job",
                 !.todo = {o \in Objects : row'[o] # Nil /\ row'[o].at = "local"}]
  /\ UNCHANGED <<local, r2, vault, tables, fixed, marks, queue, upload, removal, sweep,
                 batch, archive, requests, mishaps>>

\* The job is inserted first; a dry run is born "verified".
StartJob ==
  /\ start.pc = "job"
  /\ LET j == Earliest(Free(Jobs, job)) IN
       /\ job' = [job EXCEPT ![j] = [status |-> IF start.dry THEN "verified" ELSE "queued",
                                     dry |-> start.dry]]
       /\ start' = [start EXCEPT !.pc = "items", !.job = j]
  /\ UNCHANGED <<stores, item, orphan, uncounted, backup, manifest, fixed, marks, queue, upload,
                 removal, sweep, batch, archive, requests, mishaps>>

\* Its items come in a second statement, outside any transaction.
StartItems ==
  /\ start.pc = "items"
  /\ LET j == start.job IN
       /\ item' = [item EXCEPT ![j] = [o \in Objects |->
            IF o \notin start.todo THEN Nil ELSE IF start.dry THEN "verified" ELSE "pending"]]
       /\ orphan' = orphan \cup {<<j, o>> : o \in {i \in start.todo : row[i] = Nil}}
       /\ uncounted' = IF ~start.dry /\ (job[j].status \in {"failed", "verified"} \/ Ending(j))
                  THEN uncounted \cup {j} ELSE uncounted
  /\ start' = NoCall
  /\ UNCHANGED <<stores, job, backup, manifest, fixed, marks, queue, upload, removal, sweep,
                 batch, archive, requests, mishaps>>

SetStatus(j, status) == job' = [job EXCEPT ![j].status = status]

PauseStorageMigration(j) ==
  /\ Ask /\ JobActive(j) /\ SetStatus(j, "paused")
  /\ UNCHANGED <<stores, item, orphan, uncounted, backup, manifest, fixed, marks, calls, batch,
                 archive, mishaps>>

\* Resuming asks for no active backup.
ResumeStorageMigration(j) ==
  /\ Ask /\ job[j] # Nil /\ job[j].status = "paused" /\ SetStatus(j, "queued")
  /\ UNCHANGED <<stores, item, orphan, uncounted, backup, manifest, fixed, marks, calls, batch,
                 archive, mishaps>>

RetryFailedStorageMigration(j) ==
  /\ Ask /\ job[j] # Nil /\ job[j].status = "failed" /\ ~job[j].dry
  /\ SetStatus(j, "queued")
  /\ item' = [item EXCEPT ![j] = [o \in Objects |->
                IF item[j][o] = "failed" THEN "pending" ELSE item[j][o]]]
  /\ uncounted' = IF Ending(j) THEN uncounted ELSE uncounted \ {j}
  /\ UNCHANGED <<stores, orphan, backup, manifest, fixed, marks, calls, batch, archive, mishaps>>

-----------------------------------------------------------------------------
(* ProcessStorageMigrationBatch, run by w. *)

OnlyBatchButCounts == <<local, vault, orphan, backup, manifest, fixed, marks, calls,
                        archive, requests>>
OnlyBatch == <<OnlyBatchButCounts, uncounted>>
Goto(w, pc) == batch' = [batch EXCEPT ![w].pc = pc]
SetItem(w, status) == item' = [item EXCEPT ![batch[w].job][batch[w].cur] = status]

\* The worker's own batches are free, an admin's is a request.
BatchPick(w) ==
  /\ batch[w].pc = "idle" /\ \E j \in Jobs : JobActive(j)
  /\ IF w = Worker THEN UNCHANGED requests ELSE Ask
  /\ batch' = [batch EXCEPT ![w] = [NoBatch EXCEPT !.pc = "mark",
                 !.job = Earliest({j \in Jobs : JobActive(j)})]]
  /\ UNCHANGED <<stores, tables, fixed, marks, calls, archive, mishaps>>

\* "running" is written whatever the status has become since it was read.
BatchMark(w) ==
  /\ batch[w].pc = "mark" /\ SetStatus(batch[w].job, "running") /\ Goto(w, "select")
  /\ UNCHANGED <<OnlyBatch, row, r2, item, mishaps>>

\* markMigrationFailed: no client for R2 can be built.
BatchRefused(w) ==
  /\ batch[w].pc = "select" /\ Mishap
  /\ SetStatus(batch[w].job, "failed") /\ batch' = [batch EXCEPT ![w] = NoBatch]
  /\ UNCHANGED <<OnlyBatch, row, r2, item>>

BatchSelect(w) ==
  /\ batch[w].pc = "select"
  /\ \E T \in Lowest({o \in Objects : item[batch[w].job][o] \in {"pending", "failed"}}) :
       batch' = [batch EXCEPT ![w].pc = "next", ![w].todo = T]
  /\ UNCHANGED <<OnlyBatch, row, r2, job, item, mishaps>>

\* The next item: one whose row is gone is passed over, the others become "copying".
ItemTake(w) ==
  /\ batch[w].pc = "next" /\ batch[w].todo # {}
  /\ LET o == Earliest(batch[w].todo) IN
       IF <<batch[w].job, o>> \in orphan
       THEN batch' = [batch EXCEPT ![w].todo = @ \ {o}] /\ UNCHANGED item
       ELSE /\ batch' = [batch EXCEPT ![w].pc = "copy", ![w].todo = @ \ {o}, ![w].cur = o,
                                       ![w].sum = row[o].sum]
            /\ item' = [item EXCEPT ![batch[w].job][o] = "copying"]
  /\ UNCHANGED <<OnlyBatch, row, r2, job, mishaps>>

\* The file is copied and the copy has the recorded checksum.
ItemCopied(w) ==
  LET o == batch[w].cur IN
  /\ batch[w].pc = "copy" /\ local[o] # Nil /\ ~Mismatch(batch[w].sum, local[o])
  /\ r2' = [r2 EXCEPT ![o] = local[o]]
  /\ batch' = [batch EXCEPT ![w].pc = "record", ![w].got = local[o]]
  /\ UNCHANGED <<OnlyBatch, row, job, item, mishaps>>

\* No file, or a copy with another checksum, which stays in the bucket.
ItemFailed(w) ==
  LET o == batch[w].cur IN
  /\ batch[w].pc = "copy" /\ (local[o] = Nil \/ Mismatch(batch[w].sum, local[o]))
  /\ IF local[o] = Nil THEN UNCHANGED r2 ELSE r2' = [r2 EXCEPT ![o] = local[o]]
  /\ SetItem(w, "failed") /\ Goto(w, "next")
  /\ UNCHANGED <<OnlyBatch, row, job, mishaps>>

\* A slip: the error of the upload is not looked at.
ItemRefusedUnnoticed(w) ==
  LET o == batch[w].cur IN
  /\ batch[w].pc = "copy" /\ local[o] # Nil /\ Mishap
  /\ r2' \in {r2, [r2 EXCEPT ![o] = local[o]]}
  /\ batch' = [batch EXCEPT ![w].pc = "record", ![w].got = local[o]]
  /\ UNCHANGED <<OnlyBatch, row, job, item>>

\* R2 refuses, or stores the object and does not answer.
ItemRefused(w) ==
  LET o == batch[w].cur IN
  /\ batch[w].pc = "copy" /\ local[o] # Nil /\ Mishap
  /\ r2' \in {r2, [r2 EXCEPT ![o] = local[o]]}
  /\ SetItem(w, "failed") /\ Goto(w, "next")
  /\ UNCHANGED <<OnlyBatch, row, job>>

\* The row now names R2 and records the copy's checksum, if the row is still there.
ItemRecord(w) ==
  LET o == batch[w].cur IN
  /\ batch[w].pc = "record" /\ Goto(w, "verify")
  /\ row' = IF row[o] = Nil \/ <<batch[w].job, o>> \in orphan THEN row
            ELSE [row EXCEPT ![o] = [at |-> "r2", sum |-> batch[w].got]]
  /\ UNCHANGED <<OnlyBatch, r2, job, item, mishaps>>

ItemVerify(w) ==
  /\ batch[w].pc = "verify" /\ SetItem(w, "verified") /\ Goto(w, "next")
  /\ UNCHANGED <<OnlyBatch, row, r2, job, mishaps>>

\* A slip: items under way are not counted.
BatchCountPendingOnly(w) ==
  /\ batch[w].pc = "next" /\ batch[w].todo = {}
  /\ LET statuses == {item[batch[w].job][o] : o \in Objects} IN
       batch' = [batch EXCEPT ![w].pc = "finish", ![w].pending = "pending" \in statuses,
                   ![w].failed = "failed" \in statuses]
  /\ UNCHANGED <<OnlyBatch, row, r2, job, item, mishaps>>

BatchCount(w) ==
  /\ batch[w].pc = "next" /\ batch[w].todo = {}
  /\ LET statuses == {item[batch[w].job][o] : o \in Objects} IN
       batch' = [batch EXCEPT ![w].pc = "finish",
                   ![w].pending = statuses \cap {"pending", "copying"} # {},
                   ![w].failed = "failed" \in statuses]
  /\ UNCHANGED <<OnlyBatch, row, r2, job, item, mishaps>>

\* The errors of the counts are ignored, and a count that fails reads 0: the job may end
\* with items pending, or as verified with items that failed.
BatchMiscount(w) ==
  LET statuses == {item[batch[w].job][o] : o \in Objects}
      pending == statuses \cap {"pending", "copying"} # {}
      failed == "failed" \in statuses
  IN  /\ batch[w].pc = "next" /\ batch[w].todo = {} /\ Mishap
      /\ \E p \in {pending, FALSE}, f \in {failed, FALSE} :
           /\ <<p, f>> # <<pending, failed>>
           /\ batch' = [batch EXCEPT ![w].pc = "finish", ![w].pending = p, ![w].failed = f]
           /\ uncounted' = IF p THEN uncounted ELSE uncounted \cup {batch[w].job}
      /\ UNCHANGED <<OnlyBatchButCounts, row, r2, job, item>>

\* A slip: only a job without failures ends.
BatchFinishVerifiedOnly(w) ==
  /\ batch[w].pc = "finish"
  /\ IF batch[w].pending \/ batch[w].failed THEN UNCHANGED job
     ELSE SetStatus(batch[w].job, "verified")
  /\ batch' = [batch EXCEPT ![w] = NoBatch]
  /\ UNCHANGED <<OnlyBatch, row, r2, item, mishaps>>

\* The job ends when nothing was pending at the count.
BatchFinish(w) ==
  /\ batch[w].pc = "finish"
  /\ IF batch[w].pending THEN UNCHANGED job
     ELSE SetStatus(batch[w].job, IF batch[w].failed THEN "failed" ELSE "verified")
  /\ batch' = [batch EXCEPT ![w] = NoBatch]
  /\ UNCHANGED <<OnlyBatch, row, r2, item, mishaps>>

\* A statement fails and its error is ignored: the look for an item's row, or an update of
\* the job ("running"), of an item ("failed", "verified") or of the object's row.  The
\* batch goes on as if it had been done.
ErrorIgnored(w) ==
  LET o == batch[w].cur IN
  /\ Mishap
  /\ \/ batch[w].pc = "mark" /\ Goto(w, "select") /\ UNCHANGED r2
     \/ /\ batch[w].pc = "next" /\ batch[w].todo # {} /\ UNCHANGED r2
        /\ batch' = [batch EXCEPT ![w].todo = @ \ {Earliest(batch[w].todo)}]
     \/ /\ batch[w].pc = "copy" /\ Goto(w, "next")
        /\ r2' \in IF local[o] = Nil THEN {r2} ELSE {r2, [r2 EXCEPT ![o] = local[o]]}
     \/ batch[w].pc = "record" /\ Goto(w, "verify") /\ UNCHANGED r2
     \/ batch[w].pc = "verify" /\ Goto(w, "next") /\ UNCHANGED r2
  /\ UNCHANGED <<OnlyBatch, row, job, item>>

\* The time limit or a closed connection: every later statement of the batch fails.
BatchAbort(w) ==
  /\ batch[w].pc # "idle" /\ Mishap
  /\ batch' = [batch EXCEPT ![w] = NoBatch]
  /\ UNCHANGED <<OnlyBatch, row, r2, job, item>>

-----------------------------------------------------------------------------
(* Backups. *)

\* QueueObjectBackup: neither a migration nor a backup may be active.
QueueCheck ==
  /\ Ask /\ queue.pc = "idle" /\ Free(Backups, backup) # {}
  /\ \A j \in Jobs : ~JobActive(j)
  /\ \A b \in Backups : ~BackupActive(b)
  /\ queue' = [NoCall EXCEPT !.pc = "insert"]
  /\ UNCHANGED <<stores, tables, fixed, marks, start, upload, removal, sweep, batch,
                 archive, mishaps>>

QueueInsert ==
  /\ queue.pc = "insert" /\ queue' = NoCall
  /\ backup' = [backup EXCEPT ![Earliest(Free(Backups, backup))] = "queued"]
  /\ UNCHANGED <<stores, job, item, orphan, uncounted, manifest, fixed, marks, start, upload,
                 removal, sweep, batch, archive, requests, mishaps>>

OnlyArchive == <<local, job, item, orphan, uncounted, fixed, linked, expired, deleted, calls,
                 batch, requests>>
SetBackup(status) == backup' = [backup EXCEPT ![archive.backup] = status]

\* A slip: a backup left running is not taken up again.
BackupPickQueued ==
  /\ archive.pc = "idle" /\ \E b \in Backups : backup[b] = "queued"
  /\ LET b == Earliest({c \in Backups : backup[c] = "queued"}) IN
       /\ archive' = [NoArchive EXCEPT !.pc = "check", !.backup = b]
       /\ backup' = [backup EXCEPT ![b] = "running"]
  /\ UNCHANGED <<OnlyArchive, row, r2, vault, manifest, spoiled, mishaps>>

\* A queued backup, or one a stopped process left running.
BackupPick ==
  /\ archive.pc = "idle" /\ \E b \in Backups : BackupActive(b)
  /\ LET b == Earliest({c \in Backups : BackupActive(c)}) IN
       /\ archive' = [NoArchive EXCEPT !.pc = "check", !.backup = b]
       /\ backup' = [backup EXCEPT ![b] = "running"]
  /\ UNCHANGED <<OnlyArchive, row, r2, vault, manifest, spoiled, mishaps>>

\* CreateObjectBackupManifest fails while a migration is active.
BackupCheck ==
  /\ archive.pc = "check"
  /\ IF \E j \in Jobs : JobActive(j)
     THEN SetBackup("failed") /\ archive' = NoArchive
     ELSE archive' = [archive EXCEPT !.pc = "list"] /\ UNCHANGED backup
  /\ UNCHANGED <<OnlyArchive, row, r2, vault, manifest, spoiled, mishaps>>

\* The inventory, then all rows.
BackupList ==
  /\ archive.pc = "list" /\ Inventory
  /\ archive' = [archive EXCEPT !.pc = "next", !.seen = row',
                               !.todo = {o \in Objects : row'[o] # Nil}, !.gone = {}]
  /\ UNCHANGED <<OnlyArchive, r2, vault, backup, manifest, spoiled, mishaps>>

Listed(o) == [archive EXCEPT !.todo = @ \ {o}, !.listed = @ \cup {o}]
Recording(o, content) == [Listed(o) EXCEPT !.cur = o, !.got = content,
                                           !.pc = IF sameBucket THEN "record" ELSE "next"]

\* What is in the bucket already is taken as it is.
BackupHas(o) ==
  /\ archive.pc = "next" /\ o \in archive.todo /\ Bucket[o] # Nil
  /\ archive' = Recording(o, Nil)
  /\ UNCHANGED <<OnlyArchive, row, r2, vault, backup, manifest, spoiled, mishaps>>

\* openObjectForBackup: the recorded provider, the disk, the main bucket.
Source(o) == IF archive.seen[o].at = "r2" /\ r2[o] # Nil THEN r2[o]
             ELSE IF local[o] # Nil THEN local[o] ELSE r2[o]
Differs(o) == archive.seen[o].sum \notin {Nil, Source(o)}

\* Not in the bucket; a call that fails counts as "not there" as well.
BackupLacks(o) == archive.pc = "next" /\ o \in archive.todo
                  /\ IF Bucket[o] = Nil THEN UNCHANGED mishaps ELSE Mishap

BackupMissing(o) ==
  /\ BackupLacks(o) /\ Source(o) = Nil
  /\ archive' = [archive EXCEPT !.todo = @ \ {o}, !.missing = TRUE]
  /\ UNCHANGED <<OnlyArchive, row, r2, vault, backup, manifest, spoiled>>

BackupCopied(o) ==
  /\ BackupLacks(o) /\ Source(o) # Nil /\ ~Differs(o)
  /\ PutBackup(o, Source(o)) /\ archive' = Recording(o, Source(o))
  /\ UNCHANGED <<OnlyArchive, row, backup, manifest, spoiled>>

\* The copy has another checksum than the row.
BackupMismatch(o) ==
  /\ BackupLacks(o) /\ Source(o) # Nil /\ Differs(o)
  /\ PutBackup(o, Source(o))
  /\ archive' = [archive EXCEPT !.pc = "discard", !.cur = o, !.got = Bucket[o]]
  /\ UNCHANGED <<OnlyArchive, row, backup, manifest, spoiled>>

\* A slip: the backup goes on, and lists the copy it deletes.
BackupDiscardListed ==
  LET o == archive.cur IN
  /\ archive.pc = "discard" /\ PutBackup(o, Nil)
  /\ archive' = [Listed(o) EXCEPT !.pc = "next"]
  /\ UNCHANGED <<OnlyArchive, row, backup, manifest, spoiled, mishaps>>

\* It is deleted from the bucket, with whatever a call that failed had overlooked there
\* and, in the main bucket, whatever came meanwhile; and the backup fails.
BackupDiscard ==
  LET o == archive.cur IN
  /\ archive.pc = "discard" /\ PutBackup(o, Nil)
  /\ SetBackup("failed") /\ archive' = NoArchive
  /\ spoiled' = IF sameBucket \/ archive.got # Nil THEN spoiled \cup {o} ELSE spoiled
  /\ UNCHANGED <<OnlyArchive, row, manifest, mishaps>>

\* In the main bucket the copy also becomes the object's home.
BackupRecord ==
  LET o == archive.cur IN
  /\ archive.pc = "record" /\ archive' = [archive EXCEPT !.pc = "next"]
  /\ row' = IF row[o] = Nil \/ o \in archive.gone THEN row
            ELSE [row EXCEPT ![o] = [at |-> "r2", sum |-> IF archive.got = Nil THEN @.sum
                                                          ELSE archive.got]]
  /\ UNCHANGED <<OnlyArchive, r2, vault, backup, manifest, spoiled, mishaps>>

\* The manifest is stored and the backup ends; a put that fails fails the backup.
BackupFinish ==
  /\ archive.pc = "next" /\ archive.todo = {}
  /\ SetBackup(IF archive.missing THEN "partial" ELSE "verified")
  /\ manifest' = [manifest EXCEPT ![archive.backup] = archive.listed]
  /\ archive' = NoArchive
  /\ UNCHANGED <<OnlyArchive, row, r2, vault, spoiled, mishaps>>

\* A refused call or the time limit fails the backup.
BackupRefused ==
  /\ archive.pc # "idle" /\ Mishap
  /\ SetBackup("failed") /\ archive' = NoArchive
  /\ UNCHANGED <<OnlyArchive, row, r2, vault, manifest, spoiled>>

-----------------------------------------------------------------------------
(* Uploads, deletions, the clean-up and the other requests. *)

OnlyRequest == <<tables, sameBucket, batch>>

\* The file goes to the active provider; a cached PDF is rendered anew once it expired.
UploadPut(o) ==
  /\ Ask /\ upload.pc = "idle"
  /\ IF o \in Generated THEN row[o] = Nil \/ o \in expired
     ELSE row[o] = Nil /\ o \notin linked \cup deleted
  /\ upload' = [NoCall EXCEPT !.pc = "row", !.cur = o, !.at = active]
  /\ IF active = "local" THEN local' = [local EXCEPT ![o] = "good"] /\ UNCHANGED r2
                         ELSE r2' = [r2 EXCEPT ![o] = "good"] /\ UNCHANGED local
  /\ UNCHANGED <<OnlyRequest, row, vault, active, marks, start, queue, removal, sweep,
                 archive, mishaps>>

\* RegisterStoredObject, which also rewrites the row the key has.
UploadRow ==
  LET o == upload.cur IN
  /\ upload.pc = "row"
  /\ row' = [row EXCEPT ![o] = [at |-> upload.at, sum |-> "good"]]
  /\ expired' = expired \ {o}
  /\ upload' = IF o \in Generated THEN NoCall ELSE [upload EXCEPT !.pc = "link"]
  /\ UNCHANGED <<OnlyRequest, local, r2, vault, active, linked, spoiled, deleted, start,
                 queue, removal, sweep, archive, requests, mishaps>>

UploadLink ==
  /\ upload.pc = "link" /\ upload' = NoCall
  /\ linked' = linked \cup {upload.cur}
  /\ UNCHANGED <<OnlyRequest, stores, active, expired, spoiled, deleted, start, queue,
                 removal, sweep, archive, requests, mishaps>>

EraseAt(at, o) ==
  IF at = "local" THEN local' = [local EXCEPT ![o] = Nil] /\ UNCHANGED r2
                  ELSE r2' = [r2 EXCEPT ![o] = Nil] /\ UNCHANGED local

\* DeleteMedia: the file at the recorded provider, or the active one if there is no row.
DeleteFile(o) ==
  /\ Ask /\ removal.pc = "idle" /\ o \in linked
  /\ EraseAt(IF row[o] # Nil THEN row[o].at ELSE active, o)
  /\ deleted' = deleted \cup {o}
  /\ removal' = [NoCall EXCEPT !.cur = o, !.pc = IF row[o] # Nil THEN "row" ELSE "link"]
  /\ UNCHANGED <<OnlyRequest, row, vault, active, linked, expired, spoiled, start, queue,
                 upload, sweep, archive, mishaps>>

DeleteRow ==
  /\ removal.pc = "row" /\ DropRow(removal.cur)
  /\ removal' = [removal EXCEPT !.pc = "link"]
  /\ UNCHANGED <<local, r2, vault, job, item, uncounted, backup, manifest, fixed, marks, start,
                 queue, upload, sweep, batch, requests, mishaps>>

DeleteLink ==
  /\ removal.pc = "link" /\ removal' = NoCall
  /\ linked' = linked \ {removal.cur}
  /\ UNCHANGED <<OnlyRequest, stores, active, expired, spoiled, deleted, start, queue,
                 upload, sweep, archive, requests, mishaps>>

Expire(o) ==
  /\ Ask /\ o \in Generated \ expired /\ row[o] # Nil
  /\ expired' = expired \cup {o}
  /\ UNCHANGED <<OnlyRequest, stores, active, linked, spoiled, deleted, calls, archive,
                 mishaps>>

\* CleanupExpiredGeneratedObjects deletes at the provider that is active now.
CleanSelect ==
  /\ Ask /\ sweep.pc = "idle" /\ \E o \in expired : row[o] # Nil
  /\ sweep' = [NoCall EXCEPT !.pc = "file", !.todo = {o \in expired : row[o] # Nil},
                             !.at = active]
  /\ UNCHANGED <<OnlyRequest, stores, active, marks, start, queue, upload, removal, archive,
                 mishaps>>

CleanFile(o) ==
  /\ sweep.pc = "file" /\ o \in sweep.todo
  /\ EraseAt(sweep.at, o) /\ deleted' = deleted \cup {o}
  /\ sweep' = [sweep EXCEPT !.pc = "row", !.cur = o, !.todo = @ \ {o}]
  /\ UNCHANGED <<OnlyRequest, row, vault, active, linked, expired, spoiled, start, queue,
                 upload, removal, archive, requests, mishaps>>

CleanRow ==
  /\ sweep.pc = "row" /\ DropRow(sweep.cur)
  /\ expired' = expired \ {sweep.cur}
  /\ sweep' = IF sweep.todo = {} THEN NoCall ELSE [sweep EXCEPT !.pc = "file", !.cur = Nil]
  /\ UNCHANGED <<local, r2, vault, job, item, uncounted, backup, manifest, fixed, linked, spoiled,
                 deleted, start, queue, upload, removal, batch, requests, mishaps>>

\* EnsureR2ObjectInventory: objects of the main bucket without a row get one.
ScanR2Objects ==
  /\ Ask
  /\ row' = [o \in Objects |-> IF row[o] = Nil /\ r2[o] # Nil
                               THEN [at |-> "r2", sum |-> Nil] ELSE row[o]]
  /\ UNCHANGED <<OnlyRequest, local, r2, vault, active, marks, calls, archive, mishaps>>

\* openStoredUploadPath finds the object in R2 only and corrects the row.
ReadStored(o) ==
  /\ row[o] # Nil /\ row[o].at = "local" /\ local[o] = Nil /\ r2[o] # Nil
  /\ row' = [row EXCEPT ![o].at = "r2"]
  /\ UNCHANGED <<OnlyRequest, local, r2, vault, active, marks, calls, archive, requests,
                 mishaps>>

SetActiveStorageProvider(at) ==
  /\ Ask /\ at # active /\ active' = at
  /\ UNCHANGED <<OnlyRequest, stores, marks, calls, archive, mishaps>>

\* The process stops: what was under way is gone, the rows stay.
StorageCrash ==
  /\ Mishap
  /\ batch' = [w \in Runners |-> NoBatch] /\ archive' = NoArchive
  /\ start' = NoCall /\ queue' = NoCall /\ upload' = NoCall /\ removal' = NoCall
  /\ sweep' = NoCall
  /\ UNCHANGED <<stores, tables, fixed, marks, requests>>

-----------------------------------------------------------------------------
(* The specification. *)

BatchStep(w) ==
  \/ BatchMark(w) \/ BatchSelect(w) \/ ItemTake(w) \/ ItemCopied(w) \/ ItemFailed(w)
  \/ ItemRecord(w) \/ ItemVerify(w) \/ BatchCount(w) \/ BatchFinish(w)
BatchFault(w) == \/ BatchRefused(w) \/ ItemRefused(w) \/ BatchMiscount(w) \/ ErrorIgnored(w)
                 \/ BatchAbort(w)

BackupStep ==
  \/ BackupPick \/ BackupCheck \/ BackupList \/ BackupDiscard \/ BackupRecord
  \/ BackupFinish
  \/ \E o \in Objects : BackupHas(o) \/ BackupMissing(o) \/ BackupCopied(o)
                         \/ BackupMismatch(o)

JobRequest ==
  \/ StartCheck \/ StartPlan \/ StartJob \/ StartItems \/ QueueCheck \/ QueueInsert
  \/ \E j \in Jobs : \/ PauseStorageMigration(j) \/ ResumeStorageMigration(j)
                      \/ RetryFailedStorageMigration(j)

ObjectRequest ==
  \/ UploadRow \/ UploadLink \/ DeleteRow \/ DeleteLink
  \/ CleanSelect \/ CleanRow \/ ScanR2Objects
  \/ \E o \in Objects : \/ UploadPut(o) \/ DeleteFile(o) \/ CleanFile(o) \/ Expire(o)
                         \/ ReadStored(o)
  \/ \E at \in Providers : SetActiveStorageProvider(at)

StorageNext ==
  \/ \E w \in Runners : BatchPick(w) \/ BatchStep(w) \/ BatchFault(w)
  \/ BackupStep \/ BackupRefused
  \/ JobRequest \/ ObjectRequest \/ StorageCrash

StorageSpec == StorageInit /\ [][StorageNext]_storageVars

\* Both workers are loops of the process: they come back every two seconds, also after a
\* restart.  A batch once begun goes on, or a fault ends it.  No request is promised.
StorageFairSpec ==
  /\ StorageSpec /\ WF_storageVars(BatchPick(Worker)) /\ WF_storageVars(BackupStep)
  /\ \A w \in Runners : WF_storageVars(BatchStep(w))

-----------------------------------------------------------------------------
(* What the jobs guarantee. *)

\* Objects that left the disk or the main bucket: a user or the clean-up deleted them, or
\* a backup discarded its copy there.
Lost == deleted \cup (IF sameBucket THEN spoiled ELSE {})

\* The provider a row names holds the object, unless it was deleted or discarded: copying
\* comes before recording, whatever runs beside it and wherever it stops
\* (storage_migration.go:573-601, 722-771, 113-131).
RowTruthful ==
  \A o \in Objects \ Lost : row[o] # Nil => Holds(row[o].at, o) # Nil

\* A verified item was copied: R2 holds its object until someone deletes it.
Copied(o) == r2[o] # Nil \/ o \in Lost

\* A verified job whose items were all counted left nothing behind: every one of its
\* objects reached R2, however many batches ran at once, wherever they stopped and
\* whichever of their other statements failed.  Not covered is a job whose items arrive
\* after a batch has counted them (the two inserts at :448 and :460), nor one of which a
\* count failed: the code reads it as 0 (:604-606) and writes "verified" over items that
\* are pending, and an ended job is not picked again.
VerifiedJobCopied ==
  \A j \in Jobs \ uncounted :
    job[j] # Nil /\ job[j].status = "verified" /\ ~job[j].dry =>
      \A o \in Objects : item[j][o] # Nil => Copied(o)

\* A finished backup lists objects its bucket holds.  A deletion in the main bucket takes
\* one away; and in any bucket a later backup that overlooked the copy, since a call that
\* fails counts as "not there", and discarded its own with another checksum.
ManifestKept ==
  \A b \in Backups, o \in Objects :
    o \in manifest[b] => Bucket[o] # Nil \/ o \in spoiled \/ (sameBucket /\ o \in deleted)

\* What keeps a job from ending: an item a stopped batch, or a mark that failed, left
\* "copying"; an item whose row is gone before it was taken; items a batch takes first, as
\* many as it takes, that fail every time, with others behind them.
Held(j, o) == \E w \in Runners : batch[w].job = j /\ batch[w].cur = o
Open(j) == {o \in Objects : item[j][o] \in {"pending", "failed"}}
Fails(j, o) == /\ item[j][o] = "failed" /\ row[o] # Nil
               /\ local[o] = Nil \/ Mismatch(row[o].sum, local[o])
Stranded(j) ==
  \/ \E o \in Objects : item[j][o] = "copying" /\ ~Held(j, o)
  \/ \E o \in Objects : item[j][o] = "pending" /\ <<j, o>> \in orphan
  \/ \E T \in Lowest(Open(j)) : /\ T # Open(j)
                                /\ \A o \in T : Fails(j, o) \/ <<j, o>> \in orphan

\* StartStorageMigrationWorker: "restarting the API resumes pending work"
\* (storage_migration.go:529-530).  An item under way when the process stops is work the
\* code counts as pending (:604): it leaves "copying" again, or its job is no longer active.
InterruptedWorkResumes ==
  \A j \in Jobs, o \in Objects :
    JobActive(j) /\ item[j][o] = "copying" ~> item[j][o] # "copying" \/ ~JobActive(j)

\* What holds instead.  A migration ends, is paused, or it or an older one is stranded: the
\* worker needs no request and survives stops and faults everywhere else.  A queued or
\* running backup ends: a crash leaves it to be begun again, and a migration that became
\* active in the meantime ends it as failed.
JobsEnd ==
  /\ \A j \in Jobs : JobActive(j) ~>
       ~JobActive(j) \/ \E i \in Jobs : i <= j /\ JobActive(i) /\ Stranded(i)
  /\ \A b \in Backups : BackupActive(b) ~> ~BackupActive(b)
=============================================================================

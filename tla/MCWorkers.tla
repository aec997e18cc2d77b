------------------------------- MODULE MCWorkers -------------------------------
(* Small instances of what the server owes to those who ask for nothing more:  *)
(* the sweep of expired orders and the notifications of Checkout, and the jobs *)
(* of StorageJobs.  They share the process only; a behaviour has work for one  *)
(* of them and leaves the other as it began.                                   *)
EXTENDS MCCheckout, StorageJobs

OnDisk(content) == [at |-> "local", sum |-> content]

\* The upload is on the disk, sound or damaged, or has still to come; the PDF is on the
\* disk and sound, expired or not.  A migration is queued, two are, or none.  The damaged
\* file is backed up in its own bucket, the one to come in another, the sound one in either.
Start(content, queued, stale) ==
  [row |-> [o \in Objects |-> IF o = 1 /\ content = Nil THEN Nil ELSE OnDisk("good")],
   local |-> [o \in Objects |-> IF o = 1 THEN content ELSE "good"],
   r2 |-> [o \in Objects |-> Nil], queued |-> queued, expired |-> stale]
Quiet == Start("good", {}, {2})
\* The PDF alone, as it was before what it says changed: two backups and a rendering.
Outdated ==
  [Quiet EXCEPT !.row = [o \in Objects |-> IF o = 2 THEN OnDisk("bad") ELSE Nil],
                !.local = [o \in Objects |-> IF o = 2 THEN "bad" ELSE Nil]]
MCStartWith == {Quiet, Start("bad", {1, 2}, {}), Start(Nil, {1}, {}), Outdated}

all == <<vars, storageVars, focus>>

WorkersInit ==
  /\ Init /\ StorageInit /\ focus \in {"orders", "storage", "copies"}
  /\ focus = "orders" => local = Quiet.local /\ sameBucket
  /\ focus = "copies" <=> local = Outdated.local
  /\ local[1] = "bad" => sameBucket
  /\ local[1] = Nil => ~sameBucket
  /\ focus # "orders" => \A c \in Coupons : couponRow[c].state = "absent"
StorageStep ==
  /\ StorageNext
  /\ IF focus = "storage" THEN requests' < MaxRequests
     ELSE start' = NoCall /\ removal' = NoCall /\ sweep' = NoCall /\ upload'.cur \in {2, Nil}
          /\ active' = active
WorkersNext ==
  /\ UNCHANGED focus
  /\ \/ focus = "orders" /\ Next /\ UNCHANGED storageVars
     \/ focus # "orders" /\ StorageStep /\ UNCHANGED vars

\* The fairness of Checkout's and of StorageJobs's specification, each for its own work.
Serving(step) == focus = "orders" /\ step /\ UNCHANGED <<storageVars, focus>>
Storing(step) == focus # "orders" /\ step /\ UNCHANGED <<vars, focus>>
WorkersSpec ==
  /\ WorkersInit /\ [][WorkersNext]_all
  /\ WF_all(Serving(CancelExpiredPendingOrders)) /\ WF_all(Serving(ReconcileStep(Boot)))
  /\ \A o \in Orders : WF_all(Serving(SettlementUnanswered(o)))
  /\ WF_all(Storing(BatchPick(Worker))) /\ WF_all(Storing(BackupStep))
  /\ \A w \in Runners : WF_all(Storing(BatchStep(w)))
===============================================================================
